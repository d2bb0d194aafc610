------------------------------- MODULE Tunnel -------------------------------
(***************************************************************************)
(* Remote access: the cloud proxy (src/proxy/src) and the home hub's       *)
(* tunnel client (src/packages/backend/src/tunnel/client.ts), joined by    *)
(* one WebSocket at a time that the home opens.                            *)
(*                                                                         *)
(* Every connection the home opens is a member of Conns with two ends that *)
(* live and die separately and two FIFO channels.  "fin" ends a channel:   *)
(* a close frame or the end of the TCP stream.  A connection in cut has    *)
(* lost its path silently: nothing arrives any more, and no end is told.   *)
(***************************************************************************)
EXTENDS Naturals, Sequences, FiniteSets

CONSTANTS
  Requests,    \* HTTP requests of remote clients
  Sessions,    \* WebSocket clients of the proxy
  MaxConn,     \* bound: connections the home opens
  MaxChunks,   \* bound: chunks of a streamed body
  MaxVersion,  \* bound: changes of the home's state that are broadcast
  MaxVerify,   \* bound: token verifications of one client at a time
  None         \* no connection, no request

ASSUME TunnelAssumption ==
  /\ MaxConn \in Nat /\ MaxChunks \in Nat /\ MaxVersion \in Nat /\ MaxVerify \in Nat
  /\ None \notin 1..MaxConn /\ IsFiniteSet(Sessions)

VARIABLES
  pws, hws,       \* readyState of the proxy's and of the home's end of a connection
  up, down,       \* messages in flight, home to proxy and proxy to home
  cut,            \* connections whose path is dead
  tunnel, authenticated, beat, pAuthTimer,  \* TunnelManager; beat: whom the heartbeat pings
  entry, timer,   \* pendingRequests: kind of the entry, time-to-first-byte timer armed
  reply, got,     \* the route's progress with the client's answer, chunks received
  gone,           \* requests whose client has disconnected
  cws, cauth, verifying, view,  \* proxy's WebSocket clients: socket, flag, token checks, last state shown
  ws, homeAuth, hAuthTimer, retryTimer,     \* TunnelClient: this.ws, authenticated, timers
  active, sessions,                         \* TunnelClient: activeStreams, sessions
  path,           \* of a request: one the home streams (isStreamingPath), or "api"
  work, executed, sent,   \* the home's handling of a request, times started, chunks sent
  version                 \* the home's state, as a count of its changes

wire     == <<pws, hws, up, down, cut>>
manager  == <<tunnel, authenticated, beat, pAuthTimer>>
http     == <<path, entry, timer, reply, got, gone>>
clients  == <<cws, cauth, verifying, view>>
home     == <<ws, homeAuth, hAuthTimer, retryTimer, active, sessions>>
handling == <<work, executed, sent>>
vars     == <<wire, manager, http, clients, home, handling, version>>

Conns == 1..MaxConn
Msg(type, id, n) == [type |-> type, id |-> id, n |-> n]
Fin == Msg("fin", None, 0)

Init ==
  /\ pws = [c \in Conns |-> "none"] /\ hws = [c \in Conns |-> "none"]
  /\ up = [c \in Conns |-> <<>>] /\ down = [c \in Conns |-> <<>>]
  /\ cut = {}
  /\ tunnel = None /\ authenticated = FALSE /\ beat = None /\ pAuthTimer = {}
  /\ entry = [r \in Requests |-> "none"] /\ timer = [r \in Requests |-> FALSE]
  /\ reply = [r \in Requests |-> "idle"] /\ got = [r \in Requests |-> 0]
  /\ gone = {} /\ path \in [Requests -> {"api", "stream"}]
  /\ cws = [s \in Sessions |-> "idle"] /\ cauth = [s \in Sessions |-> FALSE]
  /\ verifying = [s \in Sessions |-> 0] /\ view = [s \in Sessions |-> 0]
  /\ ws = None /\ homeAuth = FALSE /\ hAuthTimer = {} /\ retryTimer = TRUE
  /\ active = {} /\ sessions = {}
  /\ work = [r \in Requests |-> "none"] /\ executed = [r \in Requests |-> 0]
  /\ sent = [r \in Requests |-> 0]
  /\ version = 1

-----------------------------------------------------------------------------
(* The wire.                                                               *)

\* What is written to an end arrives unless the path is dead or the peer gone.
Down(c, ms) ==
  IF c \in cut \/ hws[c] = "closed" THEN down ELSE [down EXCEPT ![c] = @ \o ms]
Up(c, ms) ==
  IF c \in cut \/ pws[c] \in {"dead", "closed"} THEN up ELSE [up EXCEPT ![c] = @ \o ms]

\* Both senders drop the message silently when their socket is not OPEN.
SendToTunnel(ms) ==
  IF tunnel # None /\ pws[tunnel] = "open" THEN Down(tunnel, ms) ELSE down
Send(ms) ==
  IF ws # None /\ hws[ws] = "open" THEN Up(ws, ms) ELSE up

Cut(c) ==
  /\ pws[c] \in {"open", "closing", "dead"} \/ hws[c] \in {"connecting", "open", "closing"}
  /\ c \notin cut
  /\ cut' = cut \cup {c}
  /\ up' = [up EXCEPT ![c] = <<>>] /\ down' = [down EXCEPT ![c] = <<>>]
  /\ UNCHANGED <<pws, hws, manager, http, clients, home, handling, version>>

-----------------------------------------------------------------------------
(* Proxy: the tunnel's socket.                                             *)

IsConnected == authenticated /\ tunnel # None /\ pws[tunnel] = "open"

\* A second connection is turned away while the current one is OPEN; one that is
\* closing is replaced before its close event has run.
Accept(c) ==
  /\ hws[c] = "connecting" /\ pws[c] = "none" /\ c \notin cut
  /\ \/ /\ tunnel # None /\ pws[tunnel] = "open"
        /\ pws' = [pws EXCEPT ![c] = "closed"]
        /\ down' = [down EXCEPT ![c] = <<Msg("opened", None, 0), Fin>>]
        /\ UNCHANGED manager
     \/ /\ ~(tunnel # None /\ pws[tunnel] = "open")
        /\ pws' = [pws EXCEPT ![c] = "open"]
        /\ down' = [down EXCEPT ![c] = <<Msg("opened", None, 0)>>]
        /\ tunnel' = c /\ authenticated' = FALSE
        /\ pAuthTimer' = pAuthTimer \cup {c}
        /\ UNCHANGED beat
  /\ UNCHANGED <<hws, up, cut, http, clients, home, handling, version>>

\* ws.close; nothing happens on a socket that closes already.
ProxyCloses(c) ==
  /\ pws' = [pws EXCEPT ![c] = IF @ = "open" THEN "closing" ELSE @]
  /\ down' = IF pws[c] = "open" THEN Down(c, <<Fin>>) ELSE down

ProxyAuthTimeout(c) ==
  /\ c \in pAuthTimer
  /\ pAuthTimer' = pAuthTimer \ {c}
  /\ IF authenticated THEN UNCHANGED <<pws, down>> ELSE ProxyCloses(c)
  /\ UNCHANGED <<hws, up, cut, tunnel, authenticated, beat, http, clients, home, handling, version>>

\* The pong timer runs out: the path is dead, or the home was too slow.  terminate
\* destroys the socket, so that nothing more is read from it.
MissedPong(c) ==
  /\ beat = c /\ pws[c] = "open"
  /\ pws' = [pws EXCEPT ![c] = "dead"]
  /\ up' = [up EXCEPT ![c] = <<>>] /\ down' = Down(c, <<Fin>>)
  /\ UNCHANGED <<hws, cut, manager, http, clients, home, handling, version>>

RejectsNone(r) == FALSE                                             \* mutant
StartedOnly ==                                                      \* mutant
  [r \in Requests |-> IF entry[r] = "streaming" THEN "streaming" ELSE "none"]

\* rejectAllPending: only a buffered request's promise is rejected, a started stream is
\* destroyed, and the map is cleared.
Rejects(r) == entry[r] = "buffered"
NoPending == [r \in Requests |-> "none"]

\* The close event of any tunnel socket, the current one's or an older one's.
ProxyClosed(c) ==
  /\ pws[c] \in {"closing", "dead"}
  /\ pws' = [pws EXCEPT ![c] = "closed"]
  /\ up' = [up EXCEPT ![c] = <<>>]
  /\ pAuthTimer' = pAuthTimer \ {c}
  /\ beat' = None /\ authenticated' = FALSE
  /\ tunnel' = IF tunnel = c THEN None ELSE tunnel
  /\ entry' = NoPending
  /\ timer' = [r \in Requests |-> timer[r] /\ entry[r] = "none"]
  /\ reply' = [r \in Requests |-> IF Rejects(r) THEN "502" ELSE reply[r]]
  /\ UNCHANGED <<hws, down, cut, path, got, gone, clients, home, handling, version>>

\* A message of any tunnel socket; registration is a flag of the manager, not of the
\* socket.  verifyRegistration fails on a stale timestamp.
Register(c, m) ==
  /\ ~authenticated /\ m.type = "home_register"
  /\ \/ /\ authenticated' = TRUE
        /\ pAuthTimer' = pAuthTimer \ {c}
        /\ beat' = c
        /\ down' = SendToTunnel(<<Msg("home_registered", None, 0)>>)
        /\ UNCHANGED <<pws, tunnel>>
     \/ /\ ProxyCloses(c)
        /\ UNCHANGED manager
  /\ UNCHANGED <<http, view>>

\* The route sends the answer of the promise, or of the stream's end.
Replied(r, answer) == [reply EXCEPT ![r] = answer]

HttpResponse(m) ==
  /\ m.type = "http_response"
  /\ entry' = [entry EXCEPT ![m.id] = "none"]
  /\ timer' = [timer EXCEPT ![m.id] = @ /\ entry[m.id] = "none"]
  /\ reply' = IF entry[m.id] # "none" /\ reply[m.id] = "waiting" THEN Replied(m.id, "ok") ELSE reply
  /\ UNCHANGED <<got, view>>

HttpStreamStart(m) ==
  /\ m.type = "http_stream_start"
  /\ IF entry[m.id] = "none"
       THEN UNCHANGED <<entry, timer, reply>>
       ELSE /\ entry' = [entry EXCEPT ![m.id] = "streaming"]
            /\ timer' = [timer EXCEPT ![m.id] = FALSE]
            /\ reply' = [reply EXCEPT ![m.id] = "piping"]
  /\ UNCHANGED <<got, view>>

HttpStreamChunk(m) ==
  /\ m.type = "http_stream_chunk"
  /\ got' = [got EXCEPT ![m.id] = IF entry[m.id] = "streaming" THEN @ + 1 ELSE @]
  /\ UNCHANGED <<entry, timer, reply, view>>

\* The entry goes whatever its kind; its timer is left armed.  Only a stream that ends
\* without an error (n = 0) answers the client: an error destroys it, which is logged.
AnyEnd(m) == TRUE                                                   \* mutant
EndsWell(m) == m.n = 0
HttpStreamEnd(m) ==
  /\ m.type = "http_stream_end"
  /\ entry' = [entry EXCEPT ![m.id] = "none"]
  /\ reply' = IF entry[m.id] = "streaming" /\ EndsWell(m) THEN Replied(m.id, "streamed") ELSE reply
  /\ UNCHANGED <<timer, got, view>>

\* The listener of client-handler.ts.
WsMessage(m) ==
  /\ m.type = "ws_message"
  /\ view' = [view EXCEPT ![m.id] = IF cws[m.id] = "open" THEN m.n ELSE @]
  /\ UNCHANGED <<entry, timer, reply, got>>

HandleTunnelMessage(m) ==
  /\ authenticated
  /\ \/ HttpResponse(m) \/ HttpStreamStart(m) \/ HttpStreamChunk(m)
     \/ HttpStreamEnd(m) \/ WsMessage(m)
  /\ UNCHANGED <<pws, down, manager, path, gone>>

\* Anything else: a second registration, or data before the registration.
IgnoredByProxy(m) ==
  /\ authenticated = (m.type = "home_register")
  /\ UNCHANGED <<pws, down, manager, http, view>>

ProxyReceives(c) ==
  /\ pws[c] \in {"open", "closing"} /\ up[c] # <<>>
  /\ up' = [up EXCEPT ![c] = Tail(@)]
  /\ LET m == Head(up[c]) IN
       \/ /\ m = Fin
          /\ pws' = [pws EXCEPT ![c] = "closing"]
          /\ UNCHANGED <<down, manager, http, view>>
       \/ /\ m # Fin
          /\ Register(c, m) \/ HandleTunnelMessage(m) \/ IgnoredByProxy(m)
  /\ UNCHANGED <<hws, cut, cws, cauth, verifying, home, handling, version>>

-----------------------------------------------------------------------------
(* Proxy: HTTP requests.                                                   *)

NewEntry(r) ==
  /\ entry' = [entry EXCEPT ![r] = "buffered"]
  /\ timer' = [timer EXCEPT ![r] = TRUE]
  /\ down' = SendToTunnel(<<Msg("http_request", r, 0)>>)

\* routes/proxy.ts up to its await: refused at once, or asked of the home.
HttpRequest(r) ==
  /\ reply[r] = "idle"
  /\ IF IsConnected
       THEN /\ reply' = [reply EXCEPT ![r] = "waiting"]
            /\ NewEntry(r)
       ELSE /\ reply' = [reply EXCEPT ![r] = "503"]
            /\ UNCHANGED <<entry, timer, down>>
  /\ UNCHANGED <<pws, hws, up, cut, manager, path, got, gone, clients, home, handling, version>>

RequestRetried(r) ==                                                \* mutant
  /\ timer[r] /\ entry[r] # "none"
  /\ down' = SendToTunnel(<<Msg("http_request", r, 0)>>)
  /\ UNCHANGED <<pws, hws, up, cut, manager, http, clients, home, handling, version>>

\* After 30 s; a timer whose entry is gone does nothing.
RequestTimeout(r) ==
  /\ timer[r]
  /\ timer' = [timer EXCEPT ![r] = FALSE]
  /\ entry' = [entry EXCEPT ![r] = "none"]
  /\ reply' = [reply EXCEPT ![r] = IF entry[r] # "none" THEN "502" ELSE @]
  /\ UNCHANGED <<wire, manager, path, got, gone, clients, home, handling, version>>

\* The remote client disconnects.  Only the route that has its stream listens for it
\* (cancelStream); the entry of a stream that has ended or failed is gone already.
ClientGone(r) ==
  /\ reply[r] \in {"waiting", "piping"} /\ r \notin gone
  /\ gone' = gone \cup {r}
  /\ IF reply[r] = "piping" /\ entry[r] # "none"
       THEN /\ entry' = [entry EXCEPT ![r] = "none"]
            /\ timer' = [timer EXCEPT ![r] = FALSE]
            /\ down' = SendToTunnel(<<Msg("http_stream_cancel", r, 0)>>)
       ELSE UNCHANGED <<entry, timer, down>>
  /\ UNCHANGED <<pws, hws, up, cut, manager, path, reply, got, clients, home, handling, version>>

-----------------------------------------------------------------------------
(* Proxy: WebSocket clients.                                               *)

\* A client connects; a token in its URL, or its first message, starts a verification.
ClientConnects(s) ==
  /\ cws[s] = "idle"
  /\ cws' = [cws EXCEPT ![s] = "open"]
  /\ UNCHANGED <<wire, manager, http, cauth, verifying, view, home, handling, version>>

OpenedUnverified(s) ==                                              \* mutant
  /\ cws[s] = "open" /\ ~cauth[s] /\ verifying[s] < MaxVerify
  /\ verifying' = [verifying EXCEPT ![s] = @ + 1]
  /\ down' = SendToTunnel(<<Msg("ws_open", s, 0)>>)
  /\ UNCHANGED <<pws, hws, up, cut, manager, http, cws, cauth, view, home, handling, version>>

Authenticate(s) ==
  /\ cws[s] = "open" /\ ~cauth[s] /\ verifying[s] < MaxVerify
  /\ verifying' = [verifying EXCEPT ![s] = @ + 1]
  /\ UNCHANGED <<wire, manager, http, cws, cauth, view, home, handling, version>>

Closing(s) == [cws EXCEPT ![s] = IF @ = "open" THEN "closing" ELSE @]

\* The await of authenticate is over, for a client that may be closed by now.
Verified(s) ==
  /\ verifying[s] > 0
  /\ verifying' = [verifying EXCEPT ![s] = @ - 1]
  /\ cauth' = [cauth EXCEPT ![s] = TRUE]
  /\ IF IsConnected
       THEN /\ down' = SendToTunnel(<<Msg("ws_open", s, 0)>>)
            /\ UNCHANGED cws
       ELSE /\ cws' = Closing(s)
            /\ UNCHANGED down
  /\ UNCHANGED <<pws, hws, up, cut, manager, http, view, home, handling, version>>

NeverCounted(s) ==                                                  \* mutant
  /\ cws[s] = "open"
  /\ verifying' = [verifying EXCEPT ![s] = @ - 1]
  /\ cws' = Closing(s)
  /\ UNCHANGED <<wire, manager, http, cauth, view, home, handling, version>>

NotVerified(s) ==
  /\ verifying[s] > 0
  /\ verifying' = [verifying EXCEPT ![s] = @ - 1]
  /\ cws' = Closing(s)
  /\ UNCHANGED <<wire, manager, http, cauth, view, home, handling, version>>

\* The client leaves, or its ten seconds to authenticate are over.
ClientLeaves(s) ==
  /\ cws[s] = "open"
  /\ cws' = Closing(s)
  /\ UNCHANGED <<wire, manager, http, cauth, verifying, view, home, handling, version>>

ClientClosed(s) ==
  /\ cws[s] = "closing"
  /\ cws' = [cws EXCEPT ![s] = "closed"]
  /\ down' = IF cauth[s] THEN SendToTunnel(<<Msg("ws_close", s, 0)>>) ELSE down
  /\ UNCHANGED <<pws, hws, up, cut, manager, http, cauth, verifying, view, home, handling, version>>

-----------------------------------------------------------------------------
(* Home: the tunnel's socket.                                              *)

Aborted(r) == work[r] \in {"fetch", "read"} /\ r \notin active

\* The retry timer, or start().  Aborted fetches settle at once, long before the
\* timer's two seconds.  connect returns when a socket is still live.
Connect ==
  /\ retryTimer /\ \A r \in Requests : ~Aborted(r)
  /\ retryTimer' = FALSE
  /\ IF ws # None /\ hws[ws] \in {"connecting", "open"}
       THEN UNCHANGED <<hws, ws, homeAuth, hAuthTimer>>
       ELSE \E c \in Conns :
              /\ hws[c] = "none" /\ \A d \in 1..(c - 1) : hws[d] # "none"
              /\ hws' = [hws EXCEPT ![c] = "connecting"]
              /\ ws' = c /\ homeAuth' = FALSE
              /\ hAuthTimer' = hAuthTimer \cup {c}
  /\ UNCHANGED <<pws, up, down, cut, manager, http, clients, active, sessions, handling, version>>

HomeCloses(c) ==
  /\ hws' = [hws EXCEPT ![c] = IF @ \in {"connecting", "open"} THEN "closing" ELSE @]
  /\ up' = IF hws[c] \in {"connecting", "open"} /\ pws[c] # "none" THEN Up(c, <<Fin>>) ELSE up

\* The timer of one socket closes whichever socket is current.
HomeAuthTimeout(c) ==
  /\ c \in hAuthTimer
  /\ hAuthTimer' = hAuthTimer \ {c}
  /\ IF ~homeAuth /\ ws # None THEN HomeCloses(ws) ELSE UNCHANGED <<hws, up>>
  /\ UNCHANGED <<pws, down, cut, manager, http, clients, ws, homeAuth, retryTimer, active, sessions, handling, version>>

ErrorReconnects(c) ==                                               \* mutant
  /\ hws[c] \in {"connecting", "open"}
  /\ HomeCloses(c)
  /\ retryTimer' = TRUE
  /\ UNCHANGED <<pws, down, cut, manager, http, clients, ws, homeAuth, hAuthTimer, active, sessions, handling, version>>

\* A refused connection, a reset, or a write that times out on a dead path.
HomeSocketError(c) ==
  /\ hws[c] \in {"connecting", "open"}
  /\ HomeCloses(c)
  /\ UNCHANGED <<pws, down, cut, manager, http, clients, home, handling, version>>

HomeClosed(c) ==
  /\ hws[c] = "closing"
  /\ hws' = [hws EXCEPT ![c] = "closed"]
  /\ down' = [down EXCEPT ![c] = <<>>]
  /\ hAuthTimer' = hAuthTimer \ {c}
  /\ homeAuth' = FALSE /\ ws' = None
  /\ active' = {} /\ sessions' = {}
  /\ retryTimer' = TRUE
  /\ UNCHANGED <<pws, up, cut, manager, http, clients, handling, version>>

\* stop() at shutdown; the close event that follows schedules a reconnect all the same.
Stop ==
  /\ ws # None \/ retryTimer
  /\ retryTimer' = FALSE
  /\ IF ws # None THEN HomeCloses(ws) ELSE UNCHANGED <<hws, up>>
  /\ ws' = None /\ active' = {} /\ sessions' = {}
  /\ UNCHANGED <<pws, down, cut, manager, http, clients, homeAuth, hAuthTimer, handling, version>>

\* The process ends, by a crash or after stop(), and a new one starts.
HomeRestarts ==
  /\ LET live == {c \in Conns : hws[c] \in {"connecting", "open", "closing"}} IN
       /\ hws' = [c \in Conns |-> IF c \in live THEN "closed" ELSE hws[c]]
       /\ up' = [c \in Conns |->
                   IF c \in live \ cut /\ pws[c] \in {"open", "closing"} THEN Append(up[c], Fin) ELSE up[c]]
       /\ down' = [c \in Conns |-> IF c \in live THEN <<>> ELSE down[c]]
  /\ ws' = None /\ homeAuth' = FALSE /\ hAuthTimer' = {} /\ retryTimer' = TRUE
  /\ active' = {} /\ sessions' = {}
  /\ work' = [r \in Requests |-> IF work[r] = "none" THEN "none" ELSE IF work[r] = "done" THEN "done" ELSE "failed"]
  /\ UNCHANGED <<pws, cut, manager, http, clients, executed, sent, version>>

-----------------------------------------------------------------------------
(* Home: messages of the proxy.                                            *)

HandleHttpRequest(m) ==
  /\ m.type = "http_request"
  /\ executed' = [executed EXCEPT ![m.id] = @ + 1]
  /\ work' = [work EXCEPT ![m.id] = IF path[m.id] = "stream" THEN "fetch" ELSE "inject"]
  /\ active' = IF path[m.id] = "stream" THEN active \cup {m.id} ELSE active
  /\ UNCHANGED <<up, sessions>>

HandleStreamCancel(m) ==
  /\ m.type = "http_stream_cancel"
  /\ active' = active \ {m.id}
  /\ UNCHANGED <<up, sessions, work, executed>>

CachedSnapshot == 1                                                 \* mutant
Snapshot == version

\* A new session is sent the whole state; a second ws_open is ignored.
HandleWsOpen(m) ==
  /\ m.type = "ws_open"
  /\ sessions' = sessions \cup {m.id}
  /\ up' = IF m.id \in sessions THEN up ELSE Send(<<Msg("ws_message", m.id, Snapshot)>>)
  /\ UNCHANGED <<active, work, executed>>

HandleWsClose(m) ==
  /\ m.type = "ws_close"
  /\ sessions' = sessions \ {m.id}
  /\ UNCHANGED <<up, active, work, executed>>

HandleMessage(m) ==
  /\ homeAuth
  /\ HandleHttpRequest(m) \/ HandleStreamCancel(m) \/ HandleWsOpen(m) \/ HandleWsClose(m)
  /\ UNCHANGED <<hws, homeAuth, hAuthTimer>>

Registered(c, m) ==
  /\ m.type = "home_registered"
  /\ homeAuth' = TRUE
  /\ hAuthTimer' = IF homeAuth THEN hAuthTimer ELSE hAuthTimer \ {c}
  /\ UNCHANGED <<hws, up, active, sessions, work, executed>>

\* The handshake is done: the home registers on its current socket.
Opened(c, m) ==
  /\ m.type = "opened"
  /\ IF hws[c] = "connecting"
       THEN /\ hws' = [hws EXCEPT ![c] = "open"]
            /\ up' = Up(c, <<Msg("home_register", None, 0)>>)
       ELSE UNCHANGED <<hws, up>>
  /\ UNCHANGED <<homeAuth, hAuthTimer, active, sessions, work, executed>>

\* Before home_registered everything else is ignored.
IgnoredByHome(m) ==
  /\ ~homeAuth /\ m.type \notin {"opened", "home_registered", "fin"}
  /\ UNCHANGED <<hws, up, homeAuth, hAuthTimer, active, sessions, work, executed>>

HomeReceives(c) ==
  /\ hws[c] \in {"connecting", "open", "closing"} /\ down[c] # <<>>
  /\ down' = [down EXCEPT ![c] = Tail(@)]
  /\ LET m == Head(down[c]) IN
       \/ /\ m = Fin
          /\ hws' = [hws EXCEPT ![c] = "closing"]
          /\ UNCHANGED <<up, homeAuth, hAuthTimer, active, sessions, work, executed>>
       \/ HandleMessage(m) \/ Registered(c, m) \/ Opened(c, m) \/ IgnoredByHome(m)
  /\ UNCHANGED <<pws, cut, manager, http, clients, ws, retryTimer, sent, version>>

-----------------------------------------------------------------------------
(* Home: answers.                                                          *)

Done(r) == [work EXCEPT ![r] = "done"]
Failed(r) == [work EXCEPT ![r] = "failed"]

\* inject or the frontend's fetch ends, well or badly: one message, on whatever socket
\* is current by now.
InjectEnds(r) ==
  /\ work[r] = "inject"
  /\ work' = Done(r)
  /\ up' = Send(<<Msg("http_response", r, 0)>>)
  /\ UNCHANGED <<pws, hws, down, cut, manager, http, clients, home, executed, sent, version>>

FetchStarts(r) ==
  /\ work[r] = "fetch" /\ r \in active
  /\ \/ /\ work' = [work EXCEPT ![r] = "read"]
        /\ up' = Send(<<Msg("http_stream_start", r, 0)>>)
        /\ UNCHANGED active
     \/ /\ work' = Done(r)    \* no body
        /\ up' = Send(<<Msg("http_stream_start", r, 0), Msg("http_stream_end", r, 0)>>)
        /\ active' = active \ {r}
  /\ UNCHANGED <<pws, hws, down, cut, manager, http, clients, ws, homeAuth, hAuthTimer, retryTimer, sessions, executed, sent, version>>

ReadChunk(r) ==
  /\ work[r] = "read" /\ r \in active /\ sent[r] < MaxChunks
  /\ sent' = [sent EXCEPT ![r] = @ + 1]
  /\ up' = Send(<<Msg("http_stream_chunk", r, 0)>>)
  /\ UNCHANGED <<pws, hws, down, cut, manager, http, clients, home, work, executed, version>>

\* The body ends, or the fetch fails before or after its start frame.
StreamEnds(r) ==
  /\ work[r] \in {"fetch", "read"} /\ r \in active
  /\ \/ /\ work[r] = "read"
        /\ work' = Done(r) /\ up' = Send(<<Msg("http_stream_end", r, 0)>>)
     \/ /\ work' = Failed(r) /\ up' = Send(<<Msg("http_stream_end", r, 1)>>)
  /\ active' = active \ {r}
  /\ UNCHANGED <<pws, hws, down, cut, manager, http, clients, ws, homeAuth, hAuthTimer, retryTimer, sessions, executed, sent, version>>

\* An aborted fetch leaves its loop silently, or reports an end with error "cancelled",
\* which the proxy treats like none.
AbortSettles(r) ==
  /\ Aborted(r)
  /\ work' = Failed(r)
  /\ \/ up' = Send(<<Msg("http_stream_end", r, 0)>>)
     \/ UNCHANGED up
  /\ UNCHANGED <<pws, hws, down, cut, manager, http, clients, home, executed, sent, version>>

\* An event of the bus, forwarded to every session.
SendOrder(S) == CHOOSE q \in [1..Cardinality(S) -> S] : \A s \in S : \E i \in DOMAIN q : q[i] = s

Broadcast ==
  /\ version < MaxVersion
  /\ version' = version + 1
  /\ LET to == SendOrder(sessions) IN
       up' = IF homeAuth
               THEN Send([i \in DOMAIN to |-> Msg("ws_message", to[i], version + 1)])
               ELSE up
  /\ UNCHANGED <<pws, hws, down, cut, manager, http, clients, home, handling>>

-----------------------------------------------------------------------------
ProxyTunnelStep(c) == Accept(c) \/ ProxyReceives(c) \/ ProxyAuthTimeout(c) \/ MissedPong(c) \/ ProxyClosed(c)
RequestStep(r) == HttpRequest(r) \/ RequestTimeout(r) \/ ClientGone(r)
ClientStep(s) ==
  \/ ClientConnects(s) \/ Authenticate(s) \/ Verified(s) \/ NotVerified(s)
  \/ ClientLeaves(s) \/ ClientClosed(s)
HomeTunnelStep(c) == HomeReceives(c) \/ HomeAuthTimeout(c) \/ HomeSocketError(c) \/ HomeClosed(c)
AnswerStep(r) == InjectEnds(r) \/ FetchStarts(r) \/ ReadChunk(r) \/ StreamEnds(r) \/ AbortSettles(r)

Next ==
  \/ \E c \in Conns : Cut(c) \/ ProxyTunnelStep(c) \/ HomeTunnelStep(c)
  \/ \E r \in Requests : RequestStep(r) \/ AnswerStep(r)
  \/ \E s \in Sessions : ClientStep(s)
  \/ Connect \/ Stop \/ HomeRestarts \/ Broadcast

Spec == Init /\ [][Next]_vars

\* Both event loops serve their sockets and timers.  Nothing is assumed of the
\* clients, of the home's own handlers, of the path, or of an end whose path is cut,
\* save that the proxy's heartbeat finds it dead.
ProxyServes(c) ==
  \/ Accept(c) \/ ProxyReceives(c) \/ ProxyClosed(c) \/ ProxyAuthTimeout(c)
  \/ c \in cut /\ MissedPong(c)
HomeServes(c) == HomeReceives(c) \/ HomeClosed(c) \/ HomeAuthTimeout(c)

Fairness ==
  /\ \A c \in Conns : WF_vars(ProxyServes(c)) /\ WF_vars(HomeServes(c))
  /\ \A r \in Requests : WF_vars(RequestTimeout(r) \/ AbortSettles(r))
  /\ \A s \in Sessions : WF_vars(ClientClosed(s))
  /\ WF_vars(Connect)

FairSpec == Spec /\ Fairness

-----------------------------------------------------------------------------
MsgType == {"fin", "opened", "home_register", "home_registered",
            "http_request", "http_stream_cancel", "http_response",
            "http_stream_start", "http_stream_chunk", "http_stream_end",
            "ws_open", "ws_close", "ws_message"}
Message == [type : MsgType, id : Requests \cup Sessions \cup {None}, n : Nat]

\* Every variable keeps its type; the counters of verifications never go below zero.
TypeOK ==
  /\ pws \in [Conns -> {"none", "open", "closing", "dead", "closed"}]
  /\ hws \in [Conns -> {"none", "connecting", "open", "closing", "closed"}]
  /\ up \in [Conns -> Seq(Message)] /\ down \in [Conns -> Seq(Message)]
  /\ cut \subseteq Conns
  /\ tunnel \in Conns \cup {None} /\ beat \in Conns \cup {None}
  /\ authenticated \in BOOLEAN /\ pAuthTimer \subseteq Conns
  /\ entry \in [Requests -> {"none", "buffered", "streaming"}]
  /\ timer \in [Requests -> BOOLEAN] /\ path \in [Requests -> {"api", "stream"}]
  /\ reply \in [Requests -> {"idle", "waiting", "piping", "ok", "streamed", "502", "503"}]
  /\ got \in [Requests -> Nat] /\ gone \subseteq Requests
  /\ cws \in [Sessions -> {"idle", "open", "closing", "closed"}]
  /\ cauth \in [Sessions -> BOOLEAN] /\ verifying \in [Sessions -> Nat]
  /\ view \in [Sessions -> Nat]
  /\ ws \in Conns \cup {None} /\ homeAuth \in BOOLEAN
  /\ hAuthTimer \subseteq Conns /\ retryTimer \in BOOLEAN
  /\ active \subseteq Requests /\ sessions \subseteq Sessions
  /\ work \in [Requests -> {"none", "inject", "fetch", "read", "done", "failed"}]
  /\ executed \in [Requests -> Nat] /\ sent \in [Requests -> Nat]
  /\ version \in Nat

\* A pending entry and its client wait for each other.  The client of an entry has got no
\* answer yet, and somebody will remove the entry: its own timer while nothing has arrived
\* for it, and in any case the close event of a tunnel socket that is not closed yet.  A
\* client that still waits has its entry, whatever timeouts, late answers and close events
\* took away; one whose stream ended before it began is the exception, and waits for ever
\* (sendHttpRequest, handleTunnelMessage, rejectAllPending).
EntryHasOwner ==
  \A r \in Requests :
    /\ entry[r] = "buffered" => reply[r] = "waiting" /\ timer[r]
    /\ entry[r] = "streaming" => reply[r] = "piping"
    /\ entry[r] # "none" => \E c \in Conns : pws[c] \in {"open", "closing", "dead"}
    /\ reply[r] = "waiting" => entry[r] = "buffered" \/ path[r] = "stream"

\* A streamed body that is answered as complete is the whole body the home read,
\* although chunks are dropped silently by a socket that is not open, and an aborted
\* stream ends like a complete one (client.ts send, proxy.ts 'end').
CompleteBody ==
  \A r \in Requests : reply[r] = "streamed" => work[r] = "done" /\ got[r] = sent[r]

\* The home serves no WebSocket client, and shows it nothing, whose token the proxy did
\* not verify, across reconnects of the tunnel (client-handler.ts authenticate).
OnlyVerified ==
  \A s \in Sessions : s \in sessions \/ view[s] # 0 => cauth[s]

\* The home never has two sockets that are not closed, whatever stop, the timers and
\* late close events do: a second one would be turned away by the proxy, and the close
\* event of the first would drop the second from this.ws (client.ts connect).
HomeOneSocket ==
  \A c, d \in Conns :
    hws[c] \in {"connecting", "open", "closing"} /\ hws[d] \in {"connecting", "open", "closing"}
      => c = d

\* A client whose session the home knows is shown the home's present state whenever the
\* tunnel is registered and its line is empty: by the snapshot, then by every event
\* since, although sends fail silently and sessions outlive nothing (client.ts send,
\* handleWsOpen, setupEventBusForwarding).  An earlier socket that is still closing
\* must be waited for: until its close event the proxy takes its messages, and its
\* registration, for those of the tunnel (manager.ts).
ViewIsCurrent ==
  \A s \in sessions :
    /\ IsConnected /\ ws = tunnel /\ hws[ws] = "open" /\ ws \notin cut /\ up[ws] = <<>>
    /\ cws[s] = "open" /\ \A c \in Conns : pws[c] # "closing"
    => view[s] = version

\* A request that is not streamed is answered, whatever happens to the tunnel and to
\* the home, even when the close event of another socket takes its entry away.
RequestsAnswered ==
  \A r \in Requests : path[r] = "api" /\ reply[r] = "waiting" ~> reply[r] # "waiting"

\* manager.ts, rejectAllPending: a started stream is torn down "so the client sees EOF".
\* Once its entry is gone the client that still waits is answered, or cut off.
TornDownSeesEOF ==
  \A r \in Requests : reply[r] = "piping" /\ entry[r] = "none" ~> reply[r] # "piping" \/ r \in gone

\* ARCHITECTURE.md: "When the tunnel reconnects, service resumes automatically".  A
\* client that stays connected is served again once the tunnel is registered.
ServiceResumes ==
  \A s \in Sessions :
    cws[s] = "open" /\ cauth[s] /\ IsConnected ~> s \in sessions \/ cws[s] # "open" \/ ~IsConnected

\* The proxy and the home together are the relay of module Relay.
Status(r) ==
  CASE reply[r] = "idle" -> "idle"
    [] reply[r] = "503" -> "refused"
    [] reply[r] \in {"waiting", "piping"} -> "waiting"
    [] reply[r] \in {"ok", "streamed"} -> "answered"
    [] reply[r] = "502" -> "failed"

Abstract == INSTANCE Relay WITH status <- [r \in Requests |-> Status(r)]

\* Every behaviour of the tunnel is one of the relay: at most one execution and one
\* answer for each request, and an answer only to one that was executed.
RelaySpec == Abstract!Spec
=============================================================================
