---------------------------- MODULE TunnelProofs ----------------------------
(***************************************************************************)
(* Theorems about Tunnel, for any number of requests, clients and          *)
(* connections: that the proxy and the home together implement Relay, and  *)
(* the safety invariants this rests on.                                    *)
(***************************************************************************)
EXTENDS Tunnel, SequenceTheorems, FiniteSetTheorems, TLAPS

-----------------------------------------------------------------------------
(* The inductive invariant.                                                *)

\* What may be in flight.  A request that the home has yet to receive was not executed
\* and is not answered; an answer is of a request that was executed, and a frame of a stream
\* of one that the home streams; a session that is opened, or shown something, is of a client
\* that was verified.
Pending(r) == executed[r] = 0 /\ reply[r] \in {"waiting", "502"}

Plain(types) == [type : types, id : {None}, n : {0}]
OfRequest(types, S) == [type : types, id : S, n : {0, 1}]
OfSession(types, S) == [type : types, id : S, n : Nat]

GoodDown ==
  Plain({"fin", "opened", "home_registered"})
    \cup OfRequest({"http_request"}, {r \in Requests : Pending(r)})
    \cup OfRequest({"http_stream_cancel"}, Requests)
    \cup OfSession({"ws_open"}, {s \in Sessions : cauth[s]})
    \cup OfSession({"ws_close"}, Sessions)

StreamTypes == {"http_stream_start", "http_stream_chunk", "http_stream_end"}
Answers == {"http_response"} \cup StreamTypes
Streamed == {r \in Requests : executed[r] = 1 /\ path[r] = "stream"}
GoodUp ==
  Plain({"fin", "home_register"})
    \cup OfRequest({"http_response"}, {r \in Requests : executed[r] = 1})
    \cup OfRequest(StreamTypes, Streamed)
    \cup OfSession({"ws_message"}, {s \in Sessions : cauth[s]})

Good == down \in [Conns -> Seq(GoodDown)] /\ up \in [Conns -> Seq(GoodUp)]

\* No request is in flight twice.
OneInFlight ==
  \A c, d \in Conns : \A i \in DOMAIN down[c], j \in DOMAIN down[d] :
    down[c][i].type = "http_request" /\ down[d][j].type = "http_request"
      /\ down[c][i].id = down[d][j].id => c = d /\ i = j

ExecutedOnce ==
  \A r \in Requests :
    /\ executed[r] \in {0, 1}
    /\ work[r] # "none" => executed[r] = 1
    /\ work[r] \in {"fetch", "read"} => path[r] = "stream"
    /\ reply[r] \in {"idle", "503"} => executed[r] = 0

EntryWaits == \A r \in Requests : entry[r] # "none" => reply[r] \in {"waiting", "piping"}
StreamExecuted ==
  \A r \in Requests : entry[r] = "streaming" => executed[r] = 1

Live(c) == hws[c] \in {"connecting", "open", "closing"}

\* While a reconnect is scheduled the home has no socket.
NoSocketMeanwhile == retryTimer => \A c \in Conns : ~Live(c)

\* Types of everything but the channels.
LocalTypes ==
  /\ pws \in [Conns -> {"none", "open", "closing", "dead", "closed"}]
  /\ hws \in [Conns -> {"none", "connecting", "open", "closing", "closed"}]
  /\ cut \subseteq Conns
  /\ tunnel \in Conns \cup {None} /\ beat \in Conns \cup {None}
  /\ authenticated \in BOOLEAN /\ pAuthTimer \subseteq Conns
  /\ entry \in [Requests -> {"none", "buffered", "streaming"}]
  /\ timer \in [Requests -> BOOLEAN] /\ path \in [Requests -> {"api", "stream"}]
  /\ reply \in [Requests -> {"idle", "waiting", "piping", "ok", "streamed", "502", "503"}]
  /\ got \in [Requests -> Nat] /\ gone \subseteq Requests
  /\ cws \in [Sessions -> {"idle", "open", "closing", "closed"}]
  /\ cauth \in [Sessions -> BOOLEAN] /\ verifying \in [Sessions -> Nat]
  /\ view \in [Sessions -> Nat]
  /\ ws \in Conns \cup {None} /\ homeAuth \in BOOLEAN
  /\ hAuthTimer \subseteq Conns /\ retryTimer \in BOOLEAN
  /\ active \subseteq Requests /\ sessions \subseteq Sessions
  /\ work \in [Requests -> {"none", "inject", "fetch", "read", "done", "failed"}]
  /\ executed \in [Requests -> Nat] /\ sent \in [Requests -> Nat]
  /\ version \in Nat

IInv ==
  /\ LocalTypes /\ Good /\ OneInFlight /\ ExecutedOnce /\ EntryWaits /\ StreamExecuted
  /\ NoSocketMeanwhile /\ HomeOneSocket /\ EntryHasOwner /\ OnlyVerified

-----------------------------------------------------------------------------
(* Messages.                                                               *)

LEMMA MsgFields ==
  ASSUME NEW t, NEW id, NEW n
  PROVE  Msg(t, id, n).type = t /\ Msg(t, id, n).id = id /\ Msg(t, id, n).n = n
  BY DEF Msg

LEMMA DownFields ==
  ASSUME NEW m \in GoodDown
  PROVE  /\ m.type \in {"fin", "opened", "home_registered", "http_request",
                       "http_stream_cancel", "ws_open", "ws_close"}
         /\ m.type \in {"fin", "opened", "home_registered"} => m.id = None /\ m.n = 0
         /\ m.type = "http_request" => m.id \in Requests /\ Pending(m.id)
         /\ m.type = "http_stream_cancel" => m.id \in Requests
         /\ m.type = "ws_open" => m.id \in Sessions /\ cauth[m.id]
         /\ m.type = "ws_close" => m.id \in Sessions
         /\ m \in Message
  BY DEF GoodDown, Plain, OfRequest, OfSession, Message, MsgType

LEMMA UpFields ==
  ASSUME NEW m \in GoodUp
  PROVE  /\ m.type \in {"fin", "home_register", "ws_message"} \cup Answers
         /\ m.type \in Answers => m.id \in Requests /\ executed[m.id] = 1
         /\ m.type \in StreamTypes => path[m.id] = "stream"
         /\ m.type = "ws_message" => m.id \in Sessions /\ cauth[m.id] /\ m.n \in Nat
         /\ m \in Message
  BY DEF GoodUp, Plain, OfRequest, OfSession, Message, MsgType, Answers, StreamTypes, Streamed

LEMMA PlainDown ==
  /\ Fin \in GoodDown
  /\ Msg("opened", None, 0) \in GoodDown /\ Msg("home_registered", None, 0) \in GoodDown
  BY DEF Fin, Msg, GoodDown, Plain

LEMMA RequestDown ==
  ASSUME NEW r \in Requests
  PROVE  /\ Msg("http_stream_cancel", r, 0) \in GoodDown
         /\ Pending(r) => Msg("http_request", r, 0) \in GoodDown
  BY DEF Msg, GoodDown, OfRequest

LEMMA SessionDown ==
  ASSUME NEW s \in Sessions
  PROVE  /\ Msg("ws_close", s, 0) \in GoodDown
         /\ cauth[s] => Msg("ws_open", s, 0) \in GoodDown
  BY DEF Msg, GoodDown, OfSession

LEMMA PlainUp ==
  Fin \in GoodUp /\ Msg("home_register", None, 0) \in GoodUp
  BY DEF Fin, Msg, GoodUp, Plain

LEMMA AnswerUp ==
  ASSUME NEW r \in Requests, executed[r] = 1, NEW n \in {0, 1}
  PROVE  /\ Msg("http_response", r, n) \in GoodUp
         /\ path[r] = "stream" => \A t \in StreamTypes : Msg(t, r, n) \in GoodUp
  BY DEF Msg, GoodUp, OfRequest, Streamed

LEMMA SessionUp ==
  ASSUME NEW s \in Sessions, cauth[s], NEW n \in Nat
  PROVE  Msg("ws_message", s, n) \in GoodUp
  BY DEF Msg, GoodUp, OfSession

-----------------------------------------------------------------------------
(* Channels.                                                               *)

\* q lost nothing but its head, and p has no request that q has not, at the same place.
Shift(p, q) ==
  \E k \in {0, 1} : \A i \in DOMAIN p :
    p[i].type = "http_request" => i + k \in DOMAIN q /\ p[i] = q[i + k]

\* A next value of down, of up, that brings no request.
Calm(d) == d \in [Conns -> Seq(GoodDown)] /\ \A c \in Conns : Shift(d[c], down[c])
Proper(u) == u \in [Conns -> Seq(GoodUp)]

NoRequest(ms) == \A i \in DOMAIN ms : ms[i].type # "http_request"

LEMMA Channels ==
  ASSUME Good
  PROVE  /\ down \in [Conns -> Seq(GoodDown)] /\ up \in [Conns -> Seq(GoodUp)]
         /\ \A c \in Conns : down[c] \in Seq(GoodDown) /\ up[c] \in Seq(GoodUp)
  BY DEF Good

LEMMA OneMessage ==
  ASSUME NEW G, NEW m \in G
  PROVE  <<m>> \in Seq(G) /\ DOMAIN <<m>> = {1} /\ <<m>>[1] = m
  OBVIOUS

LEMMA ShiftSame ==
  ASSUME NEW G, NEW q \in Seq(G)
  PROVE  Shift(q, q)
  <1>1. \A i \in DOMAIN q : i + 0 \in DOMAIN q /\ q[i] = q[i + 0]
    BY LenProperties
  <1>2. QED
    BY <1>1 DEF Shift

LEMMA ShiftEmpty ==
  ASSUME NEW q
  PROVE  Shift(<<>>, q)
  BY DEF Shift

LEMMA ShiftQuiet ==
  ASSUME NEW p, NEW q, NoRequest(p)
  PROVE  Shift(p, q)
  BY DEF Shift, NoRequest

LEMMA ShiftTail ==
  ASSUME NEW G, NEW q \in Seq(G), q # <<>>
  PROVE  Shift(Tail(q), q)
  <1>1. /\ Tail(q) \in Seq(G) /\ Len(Tail(q)) = Len(q) - 1
        /\ \A i \in 1 .. Len(Tail(q)) : Tail(q)[i] = q[i + 1]
    BY HeadTailProperties
  <1>2. DOMAIN Tail(q) = 1 .. Len(Tail(q)) /\ DOMAIN q = 1 .. Len(q) /\ Len(q) \in Nat
    BY <1>1, LenProperties
  <1>3. \A i \in DOMAIN Tail(q) : i + 1 \in DOMAIN q /\ Tail(q)[i] = q[i + 1]
    BY <1>1, <1>2
  <1>4. QED
    BY <1>3 DEF Shift

LEMMA ShiftAppend ==
  ASSUME NEW G, NEW q \in Seq(G), NEW ms \in Seq(G), NoRequest(ms)
  PROVE  Shift(q \o ms, q)
  <1>1. /\ q \o ms \in Seq(G) /\ Len(q \o ms) = Len(q) + Len(ms)
        /\ \A i \in 1 .. Len(q) + Len(ms) :
             (q \o ms)[i] = IF i <= Len(q) THEN q[i] ELSE ms[i - Len(q)]
    BY ConcatProperties
  <1>2. /\ DOMAIN (q \o ms) = 1 .. Len(q) + Len(ms)
        /\ DOMAIN q = 1 .. Len(q) /\ Len(q) \in Nat
        /\ DOMAIN ms = 1 .. Len(ms) /\ Len(ms) \in Nat
    BY <1>1, LenProperties
  <1>3. ASSUME NEW i \in DOMAIN (q \o ms), (q \o ms)[i].type = "http_request"
        PROVE  i + 0 \in DOMAIN q /\ (q \o ms)[i] = q[i + 0]
    <2>1. CASE i <= Len(q)
      BY <2>1, <1>1, <1>2
    <2>2. CASE i > Len(q)
      <3>1. i - Len(q) \in DOMAIN ms /\ (q \o ms)[i] = ms[i - Len(q)]
        BY <2>2, <1>1, <1>2
      <3>2. QED
        BY <3>1, <1>3 DEF NoRequest
    <2>3. QED
      BY <2>1, <2>2, <1>2
  <1>4. QED
    BY <1>3 DEF Shift

LEMMA CalmSame ==
  ASSUME Good
  PROVE  Calm(down)
  BY ShiftSame, Channels DEF Calm

\* Tail, clearing, and a sequence without requests in the place of what was there.
LEMMA CalmAt ==
  ASSUME Good, NEW c \in Conns, NEW q \in Seq(GoodDown), Shift(q, down[c])
  PROVE  Calm([down EXCEPT ![c] = q])
  <1>1. [down EXCEPT ![c] = q] \in [Conns -> Seq(GoodDown)]
    BY Channels
  <1>2. \A d \in Conns : [down EXCEPT ![c] = q][d] = IF d = c THEN q ELSE down[d]
    BY Channels
  <1>3. \A d \in Conns : Shift([down EXCEPT ![c] = q][d], down[d])
    BY <1>2, ShiftSame, Channels
  <1>4. QED
    BY <1>1, <1>3 DEF Calm

LEMMA CalmDown ==
  ASSUME Good, NEW c \in Conns, NEW ms \in Seq(GoodDown), NoRequest(ms)
  PROVE  Calm(Down(c, ms))
  <1>1. down[c] \o ms \in Seq(GoodDown) /\ Shift(down[c] \o ms, down[c])
    BY ConcatProperties, ShiftAppend, Channels
  <1>2. QED
    BY <1>1, CalmAt, CalmSame DEF Down

LEMMA CalmSend ==
  ASSUME Good, tunnel \in Conns \cup {None}, NEW ms \in Seq(GoodDown), NoRequest(ms)
  PROVE  Calm(SendToTunnel(ms))
  BY CalmDown, CalmSame DEF SendToTunnel

\* The same for messages of any kind.
LEMMA SendShifts ==
  ASSUME tunnel \in Conns \cup {None}, NEW G, down \in [Conns -> Seq(G)], NEW ms \in Seq(G), NoRequest(ms)
  PROVE  /\ SendToTunnel(ms) \in [Conns -> Seq(G)]
         /\ \A c \in Conns : Shift(SendToTunnel(ms)[c], down[c])
  <1>1. \A c \in Conns : Shift(down[c], down[c])
    BY ShiftSame
  <1>2. CASE SendToTunnel(ms) = down
    BY <1>1, <1>2
  <1>3. CASE SendToTunnel(ms) # down
    <2>1. PICK c \in Conns : SendToTunnel(ms) = [down EXCEPT ![c] = down[c] \o ms]
      BY <1>3 DEF SendToTunnel, Down
    <2>2. down[c] \o ms \in Seq(G) /\ Shift(down[c] \o ms, down[c])
      BY ConcatProperties, ShiftAppend
    <2>3. QED
      BY <1>1, <2>1, <2>2
  <1>4. QED
    BY <1>2, <1>3

LEMMA ProperAt ==
  ASSUME Good, NEW c \in Conns, NEW q \in Seq(GoodUp)
  PROVE  Proper([up EXCEPT ![c] = q])
  BY Channels DEF Proper

LEMMA ProperUp ==
  ASSUME Good, NEW c \in Conns, NEW ms \in Seq(GoodUp)
  PROVE  Proper(Up(c, ms))
  <1>1. up[c] \o ms \in Seq(GoodUp)
    BY ConcatProperties, Channels
  <1>2. Proper(up)
    BY Channels DEF Proper
  <1>3. QED
    BY <1>1, <1>2, ProperAt DEF Up

LEMMA ProperSend ==
  ASSUME Good, ws \in Conns \cup {None}, NEW ms \in Seq(GoodUp)
  PROVE  Proper(Send(ms))
  <1>1. Proper(up)
    BY Channels DEF Proper
  <1>2. QED
    BY <1>1, ProperUp DEF Send

-----------------------------------------------------------------------------
(* What a step leaves alone.                                               *)

\* Nothing that was true of a message in flight ceases to be.
Grows ==
  /\ \A r \in Requests : Pending(r) => Pending(r)'
  /\ \A r \in Requests : executed[r] = 1 => executed'[r] = 1
  /\ \A s \in Sessions : cauth[s] => cauth'[s]
  /\ path' = path

LEMMA GoodGrows ==
  ASSUME Grows
  PROVE  GoodDown \subseteq GoodDown' /\ GoodUp \subseteq GoodUp'
  <1>1. GoodDown \subseteq GoodDown'
    BY DEF Grows, GoodDown, Plain, OfRequest, OfSession
  <1>2. GoodUp \subseteq GoodUp'
    BY DEF Grows, GoodUp, Plain, OfRequest, OfSession, Streamed
  <1>3. QED
    BY <1>1, <1>2

LEMMA InFlightOnce ==
  ASSUME OneInFlight, NEW G, down' \in [Conns -> Seq(G)], \A c \in Conns : Shift(down'[c], down[c])
  PROVE  OneInFlight'
  <1>1. SUFFICES ASSUME NEW c \in Conns, NEW d \in Conns,
                        NEW i \in DOMAIN down'[c], NEW j \in DOMAIN down'[d],
                        down'[c][i].type = "http_request", down'[d][j].type = "http_request",
                        down'[c][i].id = down'[d][j].id
                 PROVE  c = d /\ i = j
    BY DEF OneInFlight
  <1>2. Shift(down'[c], down[c]) /\ Shift(down'[d], down[d])
    OBVIOUS
  <1>3. down'[c] \in Seq(G) /\ down'[d] \in Seq(G)
    OBVIOUS
  <1>4. i \in Nat /\ j \in Nat
    BY <1>3, LenProperties
  <1>5. PICK k \in {0, 1} : \A n \in DOMAIN down'[c] :
          down'[c][n].type = "http_request" => n + k \in DOMAIN down[c] /\ down'[c][n] = down[c][n + k]
    BY <1>2 DEF Shift
  <1>6. PICK l \in {0, 1} : \A n \in DOMAIN down'[d] :
          down'[d][n].type = "http_request" => n + l \in DOMAIN down[d] /\ down'[d][n] = down[d][n + l]
    BY <1>2 DEF Shift
  <1>7. c = d
    BY <1>1, <1>5, <1>6 DEF OneInFlight
  <1>8. i + k = j + k
    BY <1>1, <1>5, <1>7 DEF OneInFlight
  <1>9. QED
    BY <1>4, <1>7, <1>8

LEMMA ChannelsKept ==
  ASSUME OneInFlight, Grows, Calm(down'), Proper(up')
  PROVE  Good' /\ OneInFlight'
  <1>1. GoodDown \subseteq GoodDown' /\ GoodUp \subseteq GoodUp'
    BY GoodGrows
  <1>2. down' \in [Conns -> Seq(GoodDown)] /\ up' \in [Conns -> Seq(GoodUp)]
    BY DEF Calm, Proper
  <1>3. down' \in [Conns -> Seq(GoodDown')] /\ up' \in [Conns -> Seq(GoodUp')]
    BY <1>1, <1>2, SeqMonotonic
  <1>4. OneInFlight'
    BY <1>2, InFlightOnce DEF Calm
  <1>5. QED
    BY <1>3, <1>4 DEF Good

LEMMA GrowsSame ==
  ASSUME UNCHANGED <<path, reply, executed, cauth>>
  PROVE  Grows
  BY DEF Grows, Pending

Ends == {"open", "closing", "dead"}

LEMMA OwnerKept ==
  ASSUME EntryHasOwner, \A c \in Conns : pws[c] \in Ends => pws'[c] \in Ends, UNCHANGED path,
         \A r \in Requests :
           /\ entry'[r] # "none" => entry[r] # "none"
           /\ entry'[r] = "buffered" => reply'[r] = "waiting" /\ timer'[r]
           /\ entry'[r] = "streaming" => reply'[r] = "piping"
           /\ reply'[r] = "waiting" => entry'[r] = "buffered" \/ path[r] = "stream"
  PROVE  EntryHasOwner'
  BY DEF EntryHasOwner, Ends

LEMMA OwnerSame ==
  ASSUME EntryHasOwner, \A c \in Conns : pws[c] \in Ends => pws'[c] \in Ends,
         UNCHANGED <<path, entry, timer, reply>>
  PROVE  EntryHasOwner'
  BY DEF EntryHasOwner, Ends

Fate == ExecutedOnce /\ EntryWaits /\ StreamExecuted

\* The home begins to handle no request, and takes none for one that it streams.
Proceeding ==
  \A r \in Requests :
    /\ work'[r] # "none" => work[r] # "none"
    /\ work'[r] \in {"fetch", "read"} => work[r] \in {"fetch", "read"}

LEMMA FateSame ==
  ASSUME Fate, UNCHANGED <<path, entry, reply, executed>>, Proceeding
  PROVE  Fate'
  BY DEF Fate, ExecutedOnce, EntryWaits, StreamExecuted, Proceeding

LEMMA HomeSame ==
  ASSUME NoSocketMeanwhile, HomeOneSocket, UNCHANGED <<hws, retryTimer>>
  PROVE  NoSocketMeanwhile' /\ HomeOneSocket'
  BY DEF NoSocketMeanwhile, HomeOneSocket, Live

LEMMA VerifiedSame ==
  ASSUME OnlyVerified, UNCHANGED <<sessions, view>>, \A s \in Sessions : cauth[s] => cauth'[s]
  PROVE  OnlyVerified'
  BY DEF OnlyVerified

-----------------------------------------------------------------------------
(* The proxy's tunnel socket.                                              *)

LEMMA CutStep ==
  ASSUME IInv, NEW c \in Conns, Cut(c)
  PROVE  IInv'
  <1> USE DEF IInv
  <1>1. LocalTypes'
    BY DEF Cut, LocalTypes, manager, http, clients, home, handling
  <1>2. Calm(down') /\ Proper(up')
    BY CalmAt, ProperAt, ShiftEmpty, EmptySeq DEF Cut
  <1>3. Good' /\ OneInFlight'
    BY <1>2, ChannelsKept, GrowsSame DEF Cut, http, clients, handling
  <1>4. Fate'
    BY FateSame DEF Fate, Cut, http, handling, Proceeding
  <1>5. EntryHasOwner' /\ OnlyVerified' /\ NoSocketMeanwhile' /\ HomeOneSocket'
    BY OwnerSame, VerifiedSame, HomeSame DEF Cut, http, clients, home
  <1>6. QED
    BY <1>1, <1>3, <1>4, <1>5 DEF Fate

LEMMA AcceptStep ==
  ASSUME IInv, NEW c \in Conns, Accept(c)
  PROVE  IInv'
  <1> USE DEF IInv
  <1>1. LocalTypes'
    <2>1. UNCHANGED <<hws, up, cut, http, clients, home, handling, version>>
      BY DEF Accept
    <2>2. pws' \in [Conns -> {"none", "open", "closing", "dead", "closed"}]
      BY DEF Accept, LocalTypes
    <2>3. /\ tunnel' \in Conns \cup {None} /\ beat' \in Conns \cup {None}
          /\ authenticated' \in BOOLEAN /\ pAuthTimer' \subseteq Conns
      BY DEF Accept, manager, LocalTypes
    <2>4. QED
      BY <2>1, <2>2, <2>3 DEF LocalTypes, http, clients, home, handling
  <1>2. Calm(down') /\ Proper(up')
    <2>1. /\ <<Msg("opened", None, 0)>> \in Seq(GoodDown)
          /\ <<Msg("opened", None, 0), Fin>> \in Seq(GoodDown)
      BY PlainDown
    <2>2. NoRequest(<<Msg("opened", None, 0)>>) /\ NoRequest(<<Msg("opened", None, 0), Fin>>)
      BY DEF NoRequest, Msg, Fin
    <2>3. Calm(down')
      BY <2>1, <2>2, CalmAt, ShiftQuiet DEF Accept
    <2>4. QED
      BY <2>3, Channels DEF Accept, Proper
  <1>3. Good' /\ OneInFlight'
    BY <1>2, ChannelsKept, GrowsSame DEF Accept, http, clients, handling
  <1>4. Fate'
    BY FateSame DEF Fate, Accept, http, handling, Proceeding
  <1>5. \A d \in Conns : pws[d] \in Ends => pws'[d] \in Ends
    BY DEF Accept, LocalTypes, Ends
  <1>6. EntryHasOwner' /\ OnlyVerified' /\ NoSocketMeanwhile' /\ HomeOneSocket'
    BY <1>5, OwnerSame, VerifiedSame, HomeSame DEF Accept, http, clients, home
  <1>7. QED
    BY <1>1, <1>3, <1>4, <1>6 DEF Fate

LEMMA FinDown ==
  /\ <<Fin>> \in Seq(GoodDown) /\ NoRequest(<<Fin>>)
  /\ <<Fin>> \in Seq(GoodUp)
  BY PlainDown, PlainUp DEF NoRequest, Fin, Msg

LEMMA ProxyClosing ==
  ASSUME Good, LocalTypes, NEW c \in Conns, ProxyCloses(c)
  PROVE  /\ Calm(down')
         /\ pws' \in [Conns -> {"none", "open", "closing", "dead", "closed"}]
         /\ \A d \in Conns : pws[d] \in Ends => pws'[d] \in Ends
  <1>1. Calm(down')
    BY FinDown, CalmDown, CalmSame DEF ProxyCloses
  <1>2. pws' = [pws EXCEPT ![c] = IF pws[c] = "open" THEN "closing" ELSE pws[c]]
    BY DEF ProxyCloses
  <1>3. QED
    BY <1>1, <1>2 DEF LocalTypes, Ends

LEMMA ProxyAuthTimeoutStep ==
  ASSUME IInv, NEW c \in Conns, ProxyAuthTimeout(c)
  PROVE  IInv'
  <1> USE DEF IInv
  <1>1. /\ Calm(down')
        /\ pws' \in [Conns -> {"none", "open", "closing", "dead", "closed"}]
        /\ \A d \in Conns : pws[d] \in Ends => pws'[d] \in Ends
    BY ProxyClosing, CalmSame DEF ProxyAuthTimeout, LocalTypes
  <1>2. LocalTypes'
    BY <1>1 DEF ProxyAuthTimeout, LocalTypes, http, clients, home, handling
  <1>3. Good' /\ OneInFlight'
    BY <1>1, Channels, ChannelsKept, GrowsSame DEF ProxyAuthTimeout, Proper, http, clients, handling
  <1>4. Fate'
    BY FateSame DEF Fate, ProxyAuthTimeout, http, handling, Proceeding
  <1>5. EntryHasOwner' /\ OnlyVerified' /\ NoSocketMeanwhile' /\ HomeOneSocket'
    BY <1>1, OwnerSame, VerifiedSame, HomeSame DEF ProxyAuthTimeout, http, clients, home
  <1>6. QED
    BY <1>2, <1>3, <1>4, <1>5 DEF Fate

LEMMA MissedPongStep ==
  ASSUME IInv, NEW c \in Conns, MissedPong(c)
  PROVE  IInv'
  <1> USE DEF IInv
  <1>1. LocalTypes'
    BY DEF MissedPong, LocalTypes, manager, http, clients, home, handling
  <1>2. Calm(down') /\ Proper(up')
    BY FinDown, CalmDown, ProperAt, EmptySeq DEF MissedPong
  <1>3. Good' /\ OneInFlight'
    BY <1>2, ChannelsKept, GrowsSame DEF MissedPong, http, clients, handling
  <1>4. Fate'
    BY FateSame DEF Fate, MissedPong, http, handling, Proceeding
  <1>5. \A d \in Conns : pws[d] \in Ends => pws'[d] \in Ends
    BY DEF MissedPong, LocalTypes, Ends
  <1>6. EntryHasOwner' /\ OnlyVerified' /\ NoSocketMeanwhile' /\ HomeOneSocket'
    BY <1>5, OwnerSame, VerifiedSame, HomeSame DEF MissedPong, http, clients, home
  <1>7. QED
    BY <1>1, <1>3, <1>4, <1>6 DEF Fate

\* Only what was answered or given up changes its reply.
LEMMA ProxyClosedStep ==
  ASSUME IInv, NEW c \in Conns, ProxyClosed(c)
  PROVE  IInv'
  <1> USE DEF IInv
  <1>1. LocalTypes'
    <2>1. reply' \in [Requests -> {"idle", "waiting", "piping", "ok", "streamed", "502", "503"}]
      BY DEF ProxyClosed, LocalTypes
    <2>2. timer' \in [Requests -> BOOLEAN]
      BY DEF ProxyClosed, LocalTypes
    <2>3. QED
      BY <2>1, <2>2 DEF ProxyClosed, LocalTypes, NoPending, clients, home, handling
  <1>2. Calm(down') /\ Proper(up')
    BY CalmSame, ProperAt, EmptySeq DEF ProxyClosed
  <1>3. \A r \in Requests : entry'[r] = "none"
    BY DEF ProxyClosed, NoPending
  <1>4. \A r \in Requests :
          reply'[r] = reply[r] \/ (reply'[r] = "502" /\ reply[r] \in {"waiting", "piping"})
    BY DEF ProxyClosed, Rejects, EntryWaits
  <1>5. Grows
    BY <1>4 DEF Grows, Pending, ProxyClosed, clients, handling
  <1>6. Good' /\ OneInFlight'
    BY <1>2, <1>5, ChannelsKept
  <1>7. Fate'
    BY <1>3, <1>4 DEF Fate, ExecutedOnce, EntryWaits, StreamExecuted, ProxyClosed, handling
  <1>8. ASSUME NEW r \in Requests, reply'[r] = "waiting"
        PROVE  path[r] = "stream"
    <2>1. reply[r] = "waiting" /\ entry[r] # "buffered"
      BY <1>8 DEF ProxyClosed, Rejects, LocalTypes
    <2>2. QED
      BY <2>1 DEF EntryHasOwner
  <1>9. path' = path
    BY DEF ProxyClosed
  <1>10. EntryHasOwner'
    BY <1>3, <1>8, <1>9 DEF EntryHasOwner
  <1>11. OnlyVerified' /\ NoSocketMeanwhile' /\ HomeOneSocket'
    BY VerifiedSame, HomeSame DEF ProxyClosed, clients, home
  <1>12. QED
    BY <1>1, <1>6, <1>7, <1>10, <1>11 DEF Fate

-----------------------------------------------------------------------------
(* Messages of the home.                                                   *)

ReplyType == {"idle", "waiting", "piping", "ok", "streamed", "502", "503"}
EntryType == {"none", "buffered", "streaming"}

\* What a message of the home may do to a request: its client is answered only if the
\* home has executed it and the client waits.
Proceeds ==
  /\ entry' \in [Requests -> EntryType] /\ timer' \in [Requests -> BOOLEAN]
  /\ reply' \in [Requests -> ReplyType] /\ got' \in [Requests -> Nat]
  /\ \A r \in Requests :
       /\ entry'[r] # "none" => entry[r] # "none"
       /\ entry'[r] = "buffered" => reply'[r] = "waiting" /\ timer'[r]
       /\ entry'[r] = "streaming" => reply'[r] = "piping"
       /\ reply'[r] = "waiting" => entry'[r] = "buffered" \/ path[r] = "stream"
       /\ entry'[r] = "streaming" => executed[r] = 1
       /\ \/ reply'[r] = reply[r]
          \/ /\ executed[r] = 1 /\ reply[r] \in {"waiting", "piping"}
             /\ reply'[r] \in {"ok", "streamed", "piping"}

LEMMA ProceedsSame ==
  ASSUME IInv, UNCHANGED <<entry, timer, reply, got>>
  PROVE  Proceeds
  BY DEF IInv, LocalTypes, Proceeds, EntryType, ReplyType, EntryWaits, StreamExecuted, EntryHasOwner

LEMMA HttpResponseStep ==
  ASSUME IInv, NEW m \in GoodUp, HttpResponse(m)
  PROVE  Proceeds
  <1> USE DEF IInv
  <1>1. m.id \in Requests /\ executed[m.id] = 1
    BY UpFields DEF HttpResponse, Answers
  <1>2. /\ entry' \in [Requests -> EntryType] /\ timer' \in [Requests -> BOOLEAN]
        /\ reply' \in [Requests -> ReplyType] /\ got' \in [Requests -> Nat]
    BY <1>1 DEF HttpResponse, Replied, LocalTypes, EntryType, ReplyType
  <1>3. ASSUME NEW r \in Requests
        PROVE  /\ entry'[r] = IF r = m.id THEN "none" ELSE entry[r]
               /\ r # m.id => timer'[r] = timer[r] /\ reply'[r] = reply[r]
               /\ reply'[r] = reply[r] \/ (reply[r] = "waiting" /\ reply'[r] = "ok")
               /\ r = m.id /\ reply'[r] = "waiting" => entry[r] = "none"
    BY <1>1 DEF HttpResponse, Replied, LocalTypes
  <1>4. QED
    BY <1>1, <1>2, <1>3 DEF Proceeds, EntryWaits, StreamExecuted, EntryHasOwner

LEMMA HttpStreamStartStep ==
  ASSUME IInv, NEW m \in GoodUp, HttpStreamStart(m)
  PROVE  Proceeds
  <1> USE DEF IInv
  <1>1. m.id \in Requests /\ executed[m.id] = 1
    BY UpFields DEF HttpStreamStart, Answers, StreamTypes
  <1>2. CASE entry[m.id] = "none"
    BY <1>2, ProceedsSame DEF HttpStreamStart
  <1>3. CASE entry[m.id] # "none"
    <2>1. /\ entry' = [entry EXCEPT ![m.id] = "streaming"]
          /\ timer' = [timer EXCEPT ![m.id] = FALSE]
          /\ reply' = [reply EXCEPT ![m.id] = "piping"] /\ got' = got
      BY <1>3 DEF HttpStreamStart
    <2>2. /\ entry' \in [Requests -> EntryType] /\ timer' \in [Requests -> BOOLEAN]
          /\ reply' \in [Requests -> ReplyType] /\ got' \in [Requests -> Nat]
      BY <1>1, <2>1 DEF LocalTypes, EntryType, ReplyType
    <2>3. ASSUME NEW r \in Requests
          PROVE  /\ entry'[r] = IF r = m.id THEN "streaming" ELSE entry[r]
                 /\ r # m.id => timer'[r] = timer[r] /\ reply'[r] = reply[r]
                 /\ r = m.id => reply'[r] = "piping"
      <3>1. /\ DOMAIN entry = Requests /\ DOMAIN timer = Requests /\ DOMAIN reply = Requests
            /\ entry = [q \in Requests |-> entry[q]] /\ timer = [q \in Requests |-> timer[q]]
            /\ reply = [q \in Requests |-> reply[q]]
        BY <1>1 DEF LocalTypes
      <3>2. QED
        BY <2>1, <3>1
    <2>4. QED
      BY <1>1, <1>3, <2>2, <2>3 DEF Proceeds, EntryWaits, StreamExecuted, EntryHasOwner
  <1>4. QED
    BY <1>2, <1>3

LEMMA HttpStreamChunkStep ==
  ASSUME IInv, NEW m \in GoodUp, HttpStreamChunk(m)
  PROVE  Proceeds
  <1>1. got' \in [Requests -> Nat]
    <2>1. m.id \in Requests /\ got \in [Requests -> Nat]
      BY UpFields DEF IInv, LocalTypes, HttpStreamChunk, Answers, StreamTypes
    <2>2. PICK n : n = IF entry[m.id] = "streaming" THEN got[m.id] + 1 ELSE got[m.id]
      OBVIOUS
    <2>3. n \in Nat /\ got' = [got EXCEPT ![m.id] = n]
      BY <2>1, <2>2 DEF HttpStreamChunk
    <2>4. QED
      BY <2>1, <2>3
  <1>2. QED
    BY <1>1 DEF IInv, HttpStreamChunk, LocalTypes, Proceeds, EntryType, ReplyType, EntryWaits,
                StreamExecuted, EntryHasOwner

LEMMA HttpStreamEndStep ==
  ASSUME IInv, NEW m \in GoodUp, HttpStreamEnd(m)
  PROVE  Proceeds
  <1> USE DEF IInv
  <1>1. m.id \in Requests /\ executed[m.id] = 1 /\ path[m.id] = "stream"
    BY UpFields DEF HttpStreamEnd, Answers, StreamTypes
  <1>2. /\ entry' \in [Requests -> EntryType] /\ timer' \in [Requests -> BOOLEAN]
        /\ reply' \in [Requests -> ReplyType] /\ got' \in [Requests -> Nat]
    BY <1>1 DEF HttpStreamEnd, Replied, LocalTypes, EntryType, ReplyType
  <1>3. ASSUME NEW r \in Requests
        PROVE  /\ entry'[r] = IF r = m.id THEN "none" ELSE entry[r]
               /\ timer'[r] = timer[r]
               /\ r # m.id => reply'[r] = reply[r]
               /\ reply'[r] = reply[r] \/ (entry[r] = "streaming" /\ reply'[r] = "streamed")
    BY <1>1 DEF HttpStreamEnd, Replied, LocalTypes
  <1>4. QED
    BY <1>1, <1>2, <1>3 DEF Proceeds, EntryWaits, StreamExecuted, EntryHasOwner

LEMMA RegisterStep ==
  ASSUME IInv, NEW c \in Conns, NEW m, Register(c, m)
  PROVE  /\ Calm(down') /\ UNCHANGED <<http, view>>
         /\ pws' \in [Conns -> {"none", "open", "closing", "dead", "closed"}]
         /\ \A d \in Conns : pws[d] \in Ends => pws'[d] \in Ends
         /\ tunnel' \in Conns \cup {None} /\ beat' \in Conns \cup {None}
         /\ authenticated' \in BOOLEAN /\ pAuthTimer' \subseteq Conns
  <1> USE DEF IInv
  <1>1. <<Msg("home_registered", None, 0)>> \in Seq(GoodDown)
    BY PlainDown
  <1>2. NoRequest(<<Msg("home_registered", None, 0)>>)
    BY DEF NoRequest, Msg
  <1>3. Calm(SendToTunnel(<<Msg("home_registered", None, 0)>>))
    BY <1>1, <1>2, CalmSend DEF LocalTypes
  <1>4. CASE ProxyCloses(c) /\ UNCHANGED manager
    <2>1. UNCHANGED <<tunnel, beat, authenticated, pAuthTimer>>
      BY <1>4 DEF manager
    <2>2. Good /\ LocalTypes
      OBVIOUS
    <2> HIDE DEF IInv
    <2>3. UNCHANGED <<http, view>>
      BY DEF Register
    <2>4. /\ tunnel' \in Conns \cup {None} /\ beat' \in Conns \cup {None}
          /\ authenticated' \in BOOLEAN /\ pAuthTimer' \subseteq Conns
      BY <2>1, <2>2 DEF LocalTypes
    <2>5. QED
      BY <1>4, <2>2, <2>3, <2>4, ProxyClosing
  <1>5. ASSUME authenticated' = TRUE, pAuthTimer' = pAuthTimer \ {c}, beat' = c,
               down' = SendToTunnel(<<Msg("home_registered", None, 0)>>),
               UNCHANGED <<pws, tunnel>>
        PROVE  /\ Calm(down')
               /\ pws' \in [Conns -> {"none", "open", "closing", "dead", "closed"}]
               /\ \A d \in Conns : pws[d] \in Ends => pws'[d] \in Ends
               /\ tunnel' \in Conns \cup {None} /\ beat' \in Conns \cup {None}
               /\ authenticated' \in BOOLEAN /\ pAuthTimer' \subseteq Conns
    <2>1. LocalTypes
      OBVIOUS
    <2>2. Calm(down')
      BY <1>3, <1>5
    <2> HIDE DEF IInv
    <2>3. QED
      BY <1>5, <2>1, <2>2 DEF LocalTypes
  <1>6. QED
    BY <1>4, <1>5 DEF Register

LEMMA ProxyReceivesStep ==
  ASSUME IInv, NEW c \in Conns, ProxyReceives(c)
  PROVE  IInv'
  <1> USE DEF IInv
  <1> DEFINE m == Head(up[c])
  <1>1. /\ m \in GoodUp /\ Tail(up[c]) \in Seq(GoodUp)
        /\ up' = [up EXCEPT ![c] = Tail(up[c])]
    BY Channels, HeadTailProperties DEF ProxyReceives
  <1>2. Proper(up')
    BY <1>1, ProperAt
  <1>3. UNCHANGED <<hws, cut, cws, cauth, verifying, home, handling, version, path, gone>>
    BY DEF ProxyReceives, Register, HandleTunnelMessage, IgnoredByProxy, http
  <1>4. /\ Calm(down')
        /\ pws' \in [Conns -> {"none", "open", "closing", "dead", "closed"}]
        /\ \A d \in Conns : pws[d] \in Ends => pws'[d] \in Ends
        /\ tunnel' \in Conns \cup {None} /\ beat' \in Conns \cup {None}
        /\ authenticated' \in BOOLEAN /\ pAuthTimer' \subseteq Conns
    <2>1. CASE pws' = [pws EXCEPT ![c] = "closing"] /\ UNCHANGED <<down, manager>>
      BY <2>1, CalmSame DEF LocalTypes, Ends, manager, ProxyReceives
    <2>2. CASE Register(c, m)
      BY <2>2, RegisterStep
    <2>3. CASE HandleTunnelMessage(m) \/ IgnoredByProxy(m)
      BY <2>3, CalmSame DEF HandleTunnelMessage, IgnoredByProxy, LocalTypes, manager
    <2>4. QED
      BY <2>1, <2>2, <2>3 DEF ProxyReceives
  <1>5. Proceeds
    <2>1. CASE UNCHANGED http
      BY <2>1, ProceedsSame DEF http
    <2>2. CASE HandleTunnelMessage(m)
      <3>1. CASE WsMessage(m)
        <4>1. UNCHANGED <<entry, timer, reply, got>>
          BY <3>1 DEF WsMessage
        <4>2. QED
          BY <4>1, ProceedsSame
      <3>2. CASE HttpResponse(m)
        BY <1>1, <3>2, HttpResponseStep
      <3>3. CASE HttpStreamStart(m)
        BY <1>1, <3>3, HttpStreamStartStep
      <3>4. CASE HttpStreamChunk(m)
        BY <1>1, <3>4, HttpStreamChunkStep
      <3>5. CASE HttpStreamEnd(m)
        BY <1>1, <3>5, HttpStreamEndStep
      <3>6. QED
        BY <2>2, <3>1, <3>2, <3>3, <3>4, <3>5 DEF HandleTunnelMessage
    <2>3. QED
      BY <2>1, <2>2 DEF ProxyReceives, Register, IgnoredByProxy
  <1>6. view' \in [Sessions -> Nat] /\ \A s \in Sessions : view'[s] # 0 => cauth[s]
    <2>1. CASE view' = view
      BY <2>1 DEF LocalTypes, OnlyVerified
    <2>2. CASE WsMessage(m)
      <3>1. m.id \in Sessions /\ cauth[m.id] /\ m.n \in Nat
        BY <1>1, <2>2, UpFields DEF WsMessage
      <3>2. QED
        BY <2>2, <3>1 DEF WsMessage, LocalTypes, OnlyVerified
    <2>3. QED
      BY <2>1, <2>2 DEF ProxyReceives, Register, IgnoredByProxy, HandleTunnelMessage, HttpResponse,
                        HttpStreamStart, HttpStreamChunk, HttpStreamEnd
  <1> HIDE DEF m
  <1>7. LocalTypes'
    BY <1>3, <1>4, <1>5, <1>6 DEF LocalTypes, Proceeds, EntryType, ReplyType, home, handling
  <1>8. Grows
    BY <1>3, <1>5 DEF Grows, Pending, Proceeds, handling
  <1>9. Good' /\ OneInFlight'
    BY <1>2, <1>4, <1>8, ChannelsKept
  <1>10. Fate'
    <2>1. UNCHANGED <<path, work, executed>>
      BY <1>3 DEF handling
    <2>2. EntryWaits'
      BY <1>5 DEF Proceeds, EntryType, EntryWaits
    <2>3. ExecutedOnce' /\ StreamExecuted'
      BY <1>5, <2>1 DEF Proceeds, ExecutedOnce, StreamExecuted
    <2>4. QED
      BY <2>2, <2>3 DEF Fate
  <1>11. EntryHasOwner'
    <2>1. UNCHANGED path
      BY <1>3
    <2>2. QED
      BY <1>4, <1>5, <2>1, OwnerKept DEF Proceeds
  <1>12. OnlyVerified' /\ NoSocketMeanwhile' /\ HomeOneSocket'
    BY <1>3, <1>6, HomeSame DEF OnlyVerified, home
  <1>13. QED
    BY <1>7, <1>9, <1>10, <1>11, <1>12 DEF Fate

-----------------------------------------------------------------------------
(* Requests and clients of the proxy.                                      *)

\* The one step that puts a request on the wire: none of the same client is there.
LEMMA RequestSent ==
  ASSUME Good, OneInFlight, tunnel \in Conns \cup {None}, NEW r \in Requests, ~Pending(r), Grows, Pending(r)',
         down' = SendToTunnel(<<Msg("http_request", r, 0)>>), Proper(up')
  PROVE  Good' /\ OneInFlight'
  <1> DEFINE m == Msg("http_request", r, 0)
  <1>1. CASE down' = down
    <2>1. Calm(down')
      BY <1>1, CalmSame
    <2>2. QED
      BY <2>1, ChannelsKept
  <1>2. CASE down' # down
    <2>1. PICK c \in Conns : down' = [down EXCEPT ![c] = down[c] \o <<m>>]
      BY <1>2 DEF SendToTunnel, Down
    <2>2. GoodDown \subseteq GoodDown' /\ GoodUp \subseteq GoodUp'
      BY GoodGrows
    <2>3. m \in GoodDown'
      BY DEF GoodDown, OfRequest, Msg
    <2>4. \A d \in Conns : down[d] \in Seq(GoodDown) /\ down[d] \in Seq(GoodDown')
      BY <2>2, Channels, SeqMonotonic
    <2> DEFINE p == down[c] \o <<m>>
               n == Len(down[c])
    <2>5. /\ p \in Seq(GoodDown') /\ n \in Nat
          /\ DOMAIN p = 1 .. n + 1 /\ DOMAIN down[c] = 1 .. n
          /\ \A i \in 1 .. n : p[i] = down[c][i]
          /\ p[n + 1] = m
      <3>1. <<m>> \in Seq(GoodDown') /\ Len(<<m>>) = 1 /\ <<m>>[1] = m
        BY <2>3
      <3> HIDE DEF m
      <3>2. /\ p \in Seq(GoodDown') /\ Len(p) = n + 1
            /\ \A i \in 1 .. n + 1 : p[i] = IF i <= n THEN down[c][i] ELSE <<m>>[i - n]
        BY <2>4, <3>1, ConcatProperties
      <3>3. n \in Nat /\ DOMAIN down[c] = 1 .. n
        BY <2>4, LenProperties
      <3>4. DOMAIN p = 1 .. n + 1
        BY <3>2, LenProperties
      <3>5. \A i \in 1 .. n : p[i] = down[c][i]
        BY <3>2, <3>3
      <3>6. p[n + 1] = m
        BY <3>1, <3>2, <3>3
      <3>7. QED
        BY <3>2, <3>3, <3>4, <3>5, <3>6
    <2> HIDE DEF p, n
    <2>6. \A d \in Conns : down'[d] = IF d = c THEN p ELSE down[d]
      BY <2>1, Channels DEF p
    <2>7. \A d \in Conns : \A i \in DOMAIN down[d] : down[d][i].type = "http_request" => down[d][i].id # r
      <3>1. SUFFICES ASSUME NEW d \in Conns, NEW i \in DOMAIN down[d], down[d][i].type = "http_request"
                     PROVE  down[d][i].id # r
        OBVIOUS
      <3>2. down[d][i] \in GoodDown
        BY <2>4, ElementOfSeq, LenProperties
      <3>3. QED
        BY <3>1, <3>2, DownFields
    <2>8. Good'
      <3>1. down' \in [Conns -> Seq(GoodDown')]
        BY <2>1, <2>4, <2>5, Channels DEF p
      <3>2. up' \in [Conns -> Seq(GoodUp')]
        BY <2>2, SeqMonotonic DEF Proper
      <3>3. QED
        BY <3>1, <3>2 DEF Good
    <2>9. OneInFlight'
      <3>1. SUFFICES ASSUME NEW d \in Conns, NEW e \in Conns,
                            NEW i \in DOMAIN down'[d], NEW j \in DOMAIN down'[e],
                            down'[d][i].type = "http_request", down'[e][j].type = "http_request",
                            down'[d][i].id = down'[e][j].id
                     PROVE  d = e /\ i = j
        BY DEF OneInFlight
      <3>2. m.id = r
        BY MsgFields
      <3>3. ASSUME NEW f \in Conns, NEW k \in DOMAIN down'[f]
            PROVE  \/ k \in DOMAIN down[f] /\ down'[f][k] = down[f][k]
                   \/ f = c /\ k = n + 1 /\ down'[f][k] = m
        BY <2>5, <2>6
      <3>4. CASE i \in DOMAIN down[d] /\ down'[d][i] = down[d][i] /\ j \in DOMAIN down[e] /\ down'[e][j] = down[e][j]
        BY <3>1, <3>4 DEF OneInFlight
      <3>5. QED
        BY <2>7, <3>1, <3>2, <3>3, <3>4
    <2>10. QED
      BY <2>8, <2>9
  <1>3. QED
    BY <1>1, <1>2

LEMMA HttpRequestStep ==
  ASSUME IInv, NEW r \in Requests, HttpRequest(r)
  PROVE  IInv'
  <1> USE DEF IInv
  <1>1. reply[r] = "idle" /\ UNCHANGED <<pws, hws, up, cut, manager, path, got, gone, clients, home, handling, version>>
    BY DEF HttpRequest
  <1>2. entry[r] = "none" /\ executed[r] = 0 /\ ~Pending(r)
    BY <1>1 DEF EntryWaits, ExecutedOnce, Pending
  <1>3. \A q \in Requests : q # r => entry'[q] = entry[q] /\ timer'[q] = timer[q] /\ reply'[q] = reply[q]
    BY DEF HttpRequest, NewEntry, LocalTypes
  <1>4. Grows
    BY <1>1, <1>2, <1>3 DEF Grows, Pending, clients, handling
  <1>5. Proper(up')
    BY <1>1, Channels DEF Proper
  <1>6. CASE IsConnected
    <2>1. /\ reply' = [reply EXCEPT ![r] = "waiting"]
          /\ entry' = [entry EXCEPT ![r] = "buffered"]
          /\ timer' = [timer EXCEPT ![r] = TRUE]
          /\ down' = SendToTunnel(<<Msg("http_request", r, 0)>>)
      BY <1>6 DEF HttpRequest, NewEntry
    <2>2. LocalTypes'
      BY <1>1, <2>1 DEF LocalTypes, manager, clients, home, handling
    <2>3. reply'[r] = "waiting" /\ entry'[r] = "buffered" /\ timer'[r] = TRUE
      BY <2>1 DEF LocalTypes
    <2>4. Pending(r)'
      BY <1>1, <1>2, <2>3 DEF Pending, handling
    <2>5. tunnel \in Conns /\ pws[tunnel] = "open"
      BY <1>6 DEF IsConnected, LocalTypes
    <2>6. Good' /\ OneInFlight'
      BY <1>2, <1>4, <1>5, <2>1, <2>4, <2>5, RequestSent
    <2>7. Fate'
      BY <1>1, <1>2, <1>3, <2>3 DEF Fate, ExecutedOnce, EntryWaits, StreamExecuted, handling
    <2>8. EntryHasOwner'
      <3>1. ASSUME NEW q \in Requests
            PROVE  /\ entry'[q] = "buffered" => reply'[q] = "waiting" /\ timer'[q]
                   /\ entry'[q] = "streaming" => reply'[q] = "piping"
                   /\ reply'[q] = "waiting" => entry'[q] = "buffered" \/ path'[q] = "stream"
        BY <1>1, <1>3, <2>3 DEF EntryHasOwner
      <3>2. tunnel \in Conns /\ pws'[tunnel] = "open"
        BY <1>1, <2>5
      <3>3. QED
        BY <3>1, <3>2 DEF EntryHasOwner
    <2>9. OnlyVerified' /\ NoSocketMeanwhile' /\ HomeOneSocket'
      BY <1>1, VerifiedSame, HomeSame DEF clients, home
    <2>10. QED
      BY <2>2, <2>6, <2>7, <2>8, <2>9 DEF Fate
  <1>7. CASE ~IsConnected
    <2>1. reply' = [reply EXCEPT ![r] = "503"] /\ UNCHANGED <<entry, timer, down>>
      BY <1>7 DEF HttpRequest
    <2>2. LocalTypes'
      BY <1>1, <2>1 DEF LocalTypes, manager, clients, home, handling
    <2>3. Calm(down')
      BY <2>1, CalmSame
    <2>4. Good' /\ OneInFlight'
      BY <1>4, <1>5, <2>3, ChannelsKept
    <2>5. Fate'
      BY <1>1, <1>2, <1>3, <2>1 DEF Fate, ExecutedOnce, EntryWaits, StreamExecuted, handling
    <2>6. EntryHasOwner' /\ OnlyVerified' /\ NoSocketMeanwhile' /\ HomeOneSocket'
      <3>1. reply'[r] = "503"
        BY <2>1 DEF LocalTypes
      <3>2. ASSUME NEW q \in Requests
            PROVE  /\ entry'[q] = entry[q] /\ timer'[q] = timer[q]
                   /\ q # r => reply'[q] = reply[q]
        BY <1>3, <2>1
      <3>3. EntryHasOwner'
        BY <1>1, <1>2, <3>1, <3>2 DEF EntryHasOwner
      <3>4. QED
        BY <1>1, <3>3, VerifiedSame, HomeSame DEF clients, home
    <2>7. QED
      BY <2>2, <2>4, <2>5, <2>6 DEF Fate
  <1>8. QED
    BY <1>6, <1>7

LEMMA RequestTimeoutStep ==
  ASSUME IInv, NEW r \in Requests, RequestTimeout(r)
  PROVE  IInv'
  <1> USE DEF IInv
  <1>1. UNCHANGED <<wire, manager, path, got, gone, clients, home, handling, version>>
    BY DEF RequestTimeout
  <1>2. ASSUME NEW q \in Requests
        PROVE  /\ entry'[q] = (IF q = r THEN "none" ELSE entry[q])
               /\ q # r => timer'[q] = timer[q] /\ reply'[q] = reply[q]
               /\ reply'[q] = reply[q] \/ (reply'[q] = "502" /\ reply[q] \in {"waiting", "piping"})
               /\ reply'[q] = "waiting" => entry'[q] = entry[q] /\ reply[q] = "waiting"
    <2>1. /\ entry' = [entry EXCEPT ![r] = "none"] /\ timer' = [timer EXCEPT ![r] = FALSE]
          /\ reply' = [reply EXCEPT ![r] = IF entry[r] # "none" THEN "502" ELSE reply[r]]
      BY DEF RequestTimeout
    <2>2. CASE q # r
      BY <2>1, <2>2 DEF LocalTypes
    <2>3. CASE q = r
      <3>1. entry'[q] = "none"
        BY <2>1, <2>3 DEF LocalTypes
      <3>2. reply'[q] = IF entry[r] # "none" THEN "502" ELSE reply[r]
        BY <2>1, <2>3 DEF LocalTypes
      <3>3. QED
        BY <2>3, <3>1, <3>2 DEF EntryWaits
    <2>4. QED
      BY <2>2, <2>3
  <1>3. LocalTypes'
    BY <1>1 DEF RequestTimeout, LocalTypes, wire, manager, clients, home, handling
  <1>4. Calm(down') /\ Proper(up')
    BY <1>1, CalmSame, Channels DEF wire, Proper
  <1>5. Grows
    BY <1>1, <1>2 DEF Grows, Pending, clients, handling
  <1>6. Good' /\ OneInFlight'
    BY <1>4, <1>5, ChannelsKept
  <1>7. Fate'
    BY <1>1, <1>2 DEF Fate, ExecutedOnce, EntryWaits, StreamExecuted, handling
  <1>8. EntryHasOwner'
    <2>1. UNCHANGED <<pws, path>>
      BY <1>1 DEF wire
    <2>2. ASSUME NEW q \in Requests
          PROVE  /\ entry'[q] # "none" => q # r /\ entry[q] # "none"
                 /\ reply'[q] = "waiting" => entry'[q] = "buffered" \/ path[q] = "stream"
      BY <1>2 DEF EntryHasOwner
    <2>3. ASSUME NEW q \in Requests
          PROVE  /\ entry'[q] = "buffered" => reply'[q] = "waiting" /\ timer'[q]
                 /\ entry'[q] = "streaming" => reply'[q] = "piping"
      BY <1>2 DEF EntryHasOwner
    <2>4. QED
      BY <2>1, <2>2, <2>3, OwnerKept
  <1>9. OnlyVerified' /\ NoSocketMeanwhile' /\ HomeOneSocket'
    BY <1>1, VerifiedSame, HomeSame DEF wire, clients, home
  <1>10. QED
    BY <1>3, <1>6, <1>7, <1>8, <1>9 DEF Fate

LEMMA ClientGoneStep ==
  ASSUME IInv, NEW r \in Requests, ClientGone(r)
  PROVE  IInv'
  <1> USE DEF IInv
  <1>1. UNCHANGED <<pws, hws, up, cut, manager, path, reply, got, clients, home, handling, version>>
    BY DEF ClientGone
  <1>2. ASSUME NEW q \in Requests
        PROVE  /\ entry'[q] # "none" => entry'[q] = entry[q] /\ timer'[q] = timer[q]
               /\ reply[q] = "waiting" => entry'[q] = entry[q]
    BY DEF ClientGone, LocalTypes
  <1>3. LocalTypes'
    <2>1. LocalTypes
      OBVIOUS
    <2> HIDE DEF IInv
    <2>2. /\ entry' \in {entry, [entry EXCEPT ![r] = "none"]}
          /\ timer' \in {timer, [timer EXCEPT ![r] = FALSE]}
      BY DEF ClientGone
    <2>3. /\ entry' \in [Requests -> {"none", "buffered", "streaming"}]
          /\ timer' \in [Requests -> BOOLEAN]
      <3>1. /\ entry \in [Requests -> {"none", "buffered", "streaming"}]
            /\ timer \in [Requests -> BOOLEAN]
        BY <2>1 DEF LocalTypes
      <3>2. QED
        BY <2>2, <3>1
    <2>4. gone' \subseteq Requests
      <3>1. gone' = gone \cup {r}
        BY DEF ClientGone
      <3>2. gone \subseteq Requests
        BY <2>1 DEF LocalTypes
      <3>3. QED
        BY <3>1, <3>2
    <2>5. UNCHANGED <<pws, hws, cut, tunnel, beat, authenticated, pAuthTimer, path, reply, got, cws,
                      cauth, verifying, view, ws, homeAuth, hAuthTimer, retryTimer, active,
                      sessions, work, executed, sent, version>>
      <3>1. /\ UNCHANGED manager /\ UNCHANGED clients /\ UNCHANGED home /\ UNCHANGED handling
            /\ UNCHANGED <<pws, hws, cut, path, reply, got, version>>
        BY <1>1
      <3>2. QED
        BY <3>1 DEF manager, clients, home, handling
    <2>6. QED
      BY <2>1, <2>3, <2>4, <2>5 DEF LocalTypes
  <1>4. Calm(down')
    <2>1. <<Msg("http_stream_cancel", r, 0)>> \in Seq(GoodDown)
      BY RequestDown
    <2>2. NoRequest(<<Msg("http_stream_cancel", r, 0)>>)
      BY DEF NoRequest, Msg
    <2>3. Good /\ tunnel \in Conns \cup {None}
      BY DEF LocalTypes
    <2>4. Calm(down) /\ Calm(SendToTunnel(<<Msg("http_stream_cancel", r, 0)>>))
      BY <2>1, <2>2, <2>3, CalmSend, CalmSame
    <2>5. down' \in {down, SendToTunnel(<<Msg("http_stream_cancel", r, 0)>>)}
      BY DEF ClientGone
    <2>6. QED
      BY <2>4, <2>5
  <1>5. Good' /\ OneInFlight'
    BY <1>1, <1>4, Channels, ChannelsKept, GrowsSame DEF Proper, clients, handling
  <1>6. Fate'
    BY <1>1, <1>2 DEF Fate, ExecutedOnce, EntryWaits, StreamExecuted, handling
  <1>7. EntryHasOwner' /\ OnlyVerified' /\ NoSocketMeanwhile' /\ HomeOneSocket'
    <2>1. ASSUME NEW q \in Requests
          PROVE  /\ entry'[q] # "none" => entry[q] # "none"
                 /\ entry'[q] = "buffered" => reply'[q] = "waiting" /\ timer'[q]
                 /\ entry'[q] = "streaming" => reply'[q] = "piping"
                 /\ reply'[q] = "waiting" => entry'[q] = "buffered" \/ path[q] = "stream"
      BY <1>1, <1>2 DEF EntryHasOwner
    <2>2. EntryHasOwner'
      BY <1>1, <2>1, OwnerKept
    <2>3. QED
      BY <1>1, <2>2, VerifiedSame, HomeSame DEF clients, home
  <1>8. QED
    BY <1>3, <1>5, <1>6, <1>7 DEF Fate

\* A step of a WebSocket client touches no request and no tunnel socket.
LEMMA ClientKept ==
  ASSUME IInv, UNCHANGED <<pws, hws, up, cut, manager, http, view, home, handling, version>>,
         LocalTypes', Calm(down'), \A s \in Sessions : cauth[s] => cauth'[s]
  PROVE  IInv'
  <1> USE DEF IInv
  <1>1. Grows
    BY DEF Grows, Pending, http, handling
  <1>2. Good' /\ OneInFlight'
    BY <1>1, Channels, ChannelsKept DEF Proper
  <1>3. Fate'
    BY FateSame DEF Fate, http, handling, Proceeding
  <1>4. EntryHasOwner' /\ OnlyVerified' /\ NoSocketMeanwhile' /\ HomeOneSocket'
    BY OwnerSame, VerifiedSame, HomeSame DEF http, home
  <1>5. QED
    BY <1>2, <1>3, <1>4 DEF Fate

LEMMA VerifiedStep ==
  ASSUME IInv, NEW s \in Sessions, Verified(s)
  PROVE  IInv'
  <1> USE DEF IInv
  <1>1. UNCHANGED <<pws, hws, up, cut, manager, http, view, home, handling, version>>
    BY DEF Verified
  <1>2. LocalTypes'
    <2>1. verifying' \in [Sessions -> Nat]
      BY DEF Verified, LocalTypes
    <2>2. QED
      BY <2>1 DEF Verified, Closing, LocalTypes, manager, http, home, handling
  <1>3. Grows /\ cauth'[s]
    BY DEF Verified, Grows, Pending, LocalTypes, http, handling
  <1>4. OneInFlight' /\ Good'
    <2>1. CASE UNCHANGED down
      BY <1>1, <1>3, <2>1, CalmSame, Channels, ChannelsKept DEF Proper
    <2>2. CASE down' = SendToTunnel(<<Msg("ws_open", s, 0)>>)
      <3> DEFINE ms == <<Msg("ws_open", s, 0)>>
      <3>1. ms \in Seq(GoodDown')
        <4>1. Msg("ws_open", s, 0) \in GoodDown'
          BY <1>3 DEF GoodDown, OfSession, Msg
        <4>2. QED
          BY <4>1
      <3>2. NoRequest(ms)
        BY DEF NoRequest, Msg
      <3>3. GoodDown \subseteq GoodDown' /\ GoodUp \subseteq GoodUp'
        BY <1>3, GoodGrows
      <3>4. down \in [Conns -> Seq(GoodDown')] /\ up \in [Conns -> Seq(GoodUp')]
        BY <3>3, Channels, SeqMonotonic
      <3> HIDE DEF ms
      <3>5. SendToTunnel(ms) \in [Conns -> Seq(GoodDown')] /\ \A c \in Conns : Shift(SendToTunnel(ms)[c], down[c])
        BY <3>1, <3>2, <3>4, SendShifts DEF LocalTypes
      <3>6. down' = SendToTunnel(ms)
        BY <2>2 DEF ms
      <3>7. OneInFlight'
        BY <3>5, <3>6, InFlightOnce
      <3>8. QED
        BY <1>1, <3>4, <3>5, <3>6, <3>7 DEF Good
    <2>3. QED
      BY <2>1, <2>2 DEF Verified
  <1>5. Fate'
    BY <1>1, FateSame DEF Fate, http, handling, Proceeding
  <1>6. EntryHasOwner' /\ OnlyVerified' /\ NoSocketMeanwhile' /\ HomeOneSocket'
    BY <1>1, <1>3, OwnerSame, VerifiedSame, HomeSame DEF Grows, http, home
  <1>7. QED
    BY <1>2, <1>4, <1>5, <1>6 DEF Fate

LEMMA ClientStepKept ==
  ASSUME IInv, NEW s \in Sessions, ClientStep(s)
  PROVE  IInv'
  <1> USE DEF IInv
  <1>1. CASE Verified(s)
    BY <1>1, VerifiedStep
  <1>2. CASE ClientClosed(s)
    <2>1. LocalTypes'
      BY <1>2 DEF ClientClosed, LocalTypes, manager, http, home, handling
    <2>2. <<Msg("ws_close", s, 0)>> \in Seq(GoodDown)
      BY SessionDown
    <2>3. NoRequest(<<Msg("ws_close", s, 0)>>)
      BY DEF NoRequest, Msg
    <2>4. Calm(down')
      BY <1>2, <2>2, <2>3, CalmSend, CalmSame DEF ClientClosed, LocalTypes
    <2>5. QED
      BY <1>2, <2>1, <2>4, ClientKept DEF ClientClosed
  <1>3. CASE ClientConnects(s) \/ Authenticate(s) \/ NotVerified(s) \/ ClientLeaves(s)
    <2>1. UNCHANGED <<wire, manager, http, cauth, view, home, handling, version>>
      BY <1>3 DEF ClientConnects, Authenticate, NotVerified, ClientLeaves
    <2>2. verifying' \in [Sessions -> Nat]
      BY <1>3 DEF ClientConnects, Authenticate, NotVerified, ClientLeaves, LocalTypes
    <2>3. cws' \in [Sessions -> {"idle", "open", "closing", "closed"}]
      BY <1>3 DEF ClientConnects, Authenticate, NotVerified, ClientLeaves, Closing, LocalTypes
    <2>4. LocalTypes'
      BY <2>1, <2>2, <2>3 DEF LocalTypes, wire, manager, http, home, handling
    <2>5. QED
      BY <2>1, <2>4, CalmSame, ClientKept DEF wire
  <1>4. QED
    BY <1>1, <1>2, <1>3 DEF ClientStep

-----------------------------------------------------------------------------
(* The home's tunnel socket.                                               *)

HwsType == {"none", "connecting", "open", "closing", "closed"}

\* Sockets that close do not disturb the home's rule of one socket; a new one may come
\* when there is none.
LEMMA LiveShrinks ==
  ASSUME HomeOneSocket, NoSocketMeanwhile, \A c \in Conns : Live(c)' => Live(c),
         retryTimer' => retryTimer \/ \A c \in Conns : ~Live(c)'
  PROVE  HomeOneSocket' /\ NoSocketMeanwhile'
  BY DEF HomeOneSocket, NoSocketMeanwhile, Live

\* A step of the home's socket sends the proxy nothing but the end of the connection, and
\* serves no session.
LEMMA HomeKept ==
  ASSUME IInv, UNCHANGED <<pws, cut, manager, http, clients, version>>,
         LocalTypes', Calm(down'), Proper(up'), UNCHANGED <<executed, sent>>,
         Proceeding, sessions' \subseteq sessions,
         HomeOneSocket', NoSocketMeanwhile'
  PROVE  IInv'
  <1> USE DEF IInv
  <1>1. Good' /\ OneInFlight'
    BY ChannelsKept, GrowsSame DEF http, clients
  <1>2. Fate'
    BY FateSame DEF Fate, http
  <1>3. EntryHasOwner'
    BY OwnerSame DEF http
  <1>4. OnlyVerified'
    BY DEF OnlyVerified, clients
  <1>5. QED
    BY <1>1, <1>2, <1>3, <1>4 DEF Fate

LEMMA HomeClosing ==
  ASSUME Good, LocalTypes, NEW c \in Conns, HomeCloses(c)
  PROVE  /\ Proper(up') /\ hws' \in [Conns -> HwsType]
         /\ \A d \in Conns : Live(d)' => Live(d)
  <1>1. Proper(up)
    BY Channels DEF Proper
  <1>2. Proper(up')
    BY <1>1, FinDown, ProperUp DEF HomeCloses
  <1>3. hws' = [hws EXCEPT ![c] = IF hws[c] \in {"connecting", "open"} THEN "closing" ELSE hws[c]]
    BY DEF HomeCloses
  <1>4. QED
    BY <1>2, <1>3 DEF LocalTypes, HwsType, Live

LEMMA ConnectStep ==
  ASSUME IInv, Connect
  PROVE  IInv'
  <1> USE DEF IInv
  <1>1. UNCHANGED <<pws, up, down, cut, manager, http, clients, active, sessions, handling, version>>
    BY DEF Connect
  <1>2. retryTimer /\ retryTimer' = FALSE /\ \A c \in Conns : ~Live(c)
    BY DEF Connect, NoSocketMeanwhile
  <1>3. CASE UNCHANGED <<hws, ws, homeAuth, hAuthTimer>>
    <2>1. HomeOneSocket' /\ NoSocketMeanwhile'
      BY <1>2, <1>3, LiveShrinks DEF Live
    <2>2. LocalTypes'
      BY <1>1, <1>2, <1>3 DEF LocalTypes, manager, http, clients, handling
    <2>3. QED
      BY <1>1, <2>1, <2>2, CalmSame, Channels, HomeKept DEF Proper, handling, Proceeding
  <1>4. CASE \E c \in Conns : /\ hws' = [hws EXCEPT ![c] = "connecting"]
                             /\ ws' = c /\ homeAuth' = FALSE /\ hAuthTimer' = hAuthTimer \cup {c}
    <2>1. PICK c \in Conns : /\ hws' = [hws EXCEPT ![c] = "connecting"]
                            /\ ws' = c /\ homeAuth' = FALSE /\ hAuthTimer' = hAuthTimer \cup {c}
      BY <1>4
    <2>2. \A d \in Conns : Live(d)' => d = c
      BY <1>2, <2>1 DEF Live, LocalTypes
    <2>3. HomeOneSocket' /\ NoSocketMeanwhile'
      BY <1>2, <2>2 DEF HomeOneSocket, NoSocketMeanwhile, Live
    <2>4. LocalTypes'
      BY <1>1, <1>2, <2>1 DEF LocalTypes, manager, http, clients, handling
    <2>5. QED
      BY <1>1, <2>3, <2>4, CalmSame, Channels, HomeKept DEF Proper, handling, Proceeding
  <1>5. QED
    BY <1>3, <1>4 DEF Connect

LEMMA HomeAuthTimeoutStep ==
  ASSUME IInv, NEW c \in Conns, HomeAuthTimeout(c)
  PROVE  IInv'
  <1> USE DEF IInv
  <1>1. UNCHANGED <<pws, down, cut, manager, http, clients, ws, homeAuth, retryTimer, active, sessions, handling, version>>
    BY DEF HomeAuthTimeout
  <1>2. Proper(up') /\ hws' \in [Conns -> HwsType] /\ \A d \in Conns : Live(d)' => Live(d)
    <2>1. CASE ws # None /\ HomeCloses(ws)
      BY <2>1, HomeClosing DEF LocalTypes
    <2>2. CASE UNCHANGED <<hws, up>>
      BY <2>2, Channels DEF Proper, LocalTypes, HwsType, Live
    <2>3. QED
      BY <2>1, <2>2 DEF HomeAuthTimeout
  <1>3. HomeOneSocket' /\ NoSocketMeanwhile'
    BY <1>1, <1>2, LiveShrinks
  <1>4. LocalTypes'
    BY <1>1, <1>2 DEF HomeAuthTimeout, LocalTypes, HwsType, manager, http, clients, handling
  <1>5. QED
    BY <1>1, <1>2, <1>3, <1>4, CalmSame, HomeKept DEF handling, Proceeding

LEMMA HomeSocketErrorStep ==
  ASSUME IInv, NEW c \in Conns, HomeSocketError(c)
  PROVE  IInv'
  <1> USE DEF IInv
  <1>1. HomeCloses(c) /\ UNCHANGED <<pws, down, cut, manager, http, clients, home, handling, version>>
    BY DEF HomeSocketError
  <1>2. Proper(up') /\ hws' \in [Conns -> HwsType] /\ \A d \in Conns : Live(d)' => Live(d)
    BY <1>1, HomeClosing
  <1>3. HomeOneSocket' /\ NoSocketMeanwhile'
    BY <1>1, <1>2, LiveShrinks DEF home
  <1>4. LocalTypes'
    BY <1>1, <1>2 DEF LocalTypes, HwsType, manager, http, clients, home, handling
  <1>5. QED
    BY <1>1, <1>2, <1>3, <1>4, CalmSame, HomeKept DEF home, handling, Proceeding

LEMMA HomeClosedStep ==
  ASSUME IInv, NEW c \in Conns, HomeClosed(c)
  PROVE  IInv'
  <1> USE DEF IInv
  <1>1. /\ hws[c] = "closing" /\ hws' = [hws EXCEPT ![c] = "closed"] /\ down' = [down EXCEPT ![c] = <<>>]
        /\ sessions' = {} /\ UNCHANGED <<pws, up, cut, manager, http, clients, handling, version>>
    BY DEF HomeClosed
  <1>2. \A d \in Conns : ~Live(d)'
    BY <1>1 DEF HomeOneSocket, Live, LocalTypes
  <1>3. HomeOneSocket' /\ NoSocketMeanwhile'
    BY <1>2, LiveShrinks
  <1>4. LocalTypes'
    <2>1. hws' \in [Conns -> {"none", "connecting", "open", "closing", "closed"}]
      BY <1>1 DEF LocalTypes
    <2>2. ws' = None /\ homeAuth' = FALSE /\ active' = {} /\ retryTimer' = TRUE /\ hAuthTimer' = hAuthTimer \ {c}
      BY DEF HomeClosed
    <2>3. QED
      BY <1>1, <2>1, <2>2 DEF LocalTypes, manager, http, clients, handling
  <1>5. Calm(down') /\ Proper(up')
    BY <1>1, CalmAt, ShiftEmpty, EmptySeq, Channels DEF Proper
  <1>6. QED
    BY <1>1, <1>3, <1>4, <1>5, HomeKept DEF handling, Proceeding

LEMMA StopStep ==
  ASSUME IInv, Stop
  PROVE  IInv'
  <1> USE DEF IInv
  <1>1. /\ retryTimer' = FALSE /\ ws' = None /\ active' = {} /\ sessions' = {}
        /\ UNCHANGED <<pws, down, cut, manager, http, clients, homeAuth, hAuthTimer, handling, version>>
    BY DEF Stop
  <1>2. Proper(up') /\ hws' \in [Conns -> HwsType] /\ \A d \in Conns : Live(d)' => Live(d)
    <2>1. CASE ws # None /\ HomeCloses(ws)
      BY <2>1, HomeClosing DEF LocalTypes
    <2>2. CASE UNCHANGED <<hws, up>>
      BY <2>2, Channels DEF Proper, LocalTypes, HwsType, Live
    <2>3. QED
      BY <2>1, <2>2 DEF Stop
  <1>3. HomeOneSocket' /\ NoSocketMeanwhile'
    BY <1>1, <1>2, LiveShrinks
  <1>4. LocalTypes'
    BY <1>1, <1>2 DEF LocalTypes, HwsType, manager, http, clients, handling
  <1>5. QED
    BY <1>1, <1>2, <1>3, <1>4, CalmSame, HomeKept DEF handling, Proceeding

LEMMA HomeRestartsStep ==
  ASSUME IInv, HomeRestarts
  PROVE  IInv'
  <1> USE DEF IInv
  <1> DEFINE live == {c \in Conns : hws[c] \in {"connecting", "open", "closing"}}
  <1>1. /\ hws' = [c \in Conns |-> IF c \in live THEN "closed" ELSE hws[c]]
        /\ up' = [c \in Conns |->
                    IF c \in live \ cut /\ pws[c] \in {"open", "closing"} THEN Append(up[c], Fin) ELSE up[c]]
        /\ down' = [c \in Conns |-> IF c \in live THEN <<>> ELSE down[c]]
        /\ sessions' = {} /\ UNCHANGED <<pws, cut, manager, http, clients, executed, sent, version>>
    BY DEF HomeRestarts
  <1>2. \A c \in Conns : ~Live(c)'
    BY <1>1 DEF Live
  <1>3. HomeOneSocket' /\ NoSocketMeanwhile'
    BY <1>2, LiveShrinks
  <1>4. work' \in [Requests -> {"none", "inject", "fetch", "read", "done", "failed"}]
        /\ Proceeding
    BY DEF HomeRestarts, Proceeding
  <1>5. LocalTypes'
    <2>1. hws' \in [Conns -> {"none", "connecting", "open", "closing", "closed"}]
      BY <1>1 DEF LocalTypes
    <2>2. ws' = None /\ homeAuth' = FALSE /\ active' = {} /\ retryTimer' = TRUE /\ hAuthTimer' = {}
      BY DEF HomeRestarts
    <2>3. QED
      BY <1>1, <1>4, <2>1, <2>2 DEF LocalTypes, manager, http, clients
  <1>6. Calm(down')
    <2>1. \A c \in Conns : down'[c] \in Seq(GoodDown) /\ Shift(down'[c], down[c])
      BY <1>1, Channels, ShiftSame, ShiftEmpty, EmptySeq
    <2>2. QED
      BY <1>1, <2>1 DEF Calm
  <1>7. Proper(up')
    <2>1. \A c \in Conns : up'[c] \in Seq(GoodUp)
      BY <1>1, Channels, PlainUp, AppendProperties
    <2>2. QED
      BY <1>1, <2>1 DEF Proper
  <1>8. QED
    BY <1>1, <1>3, <1>4, <1>5, <1>6, <1>7, HomeKept

-----------------------------------------------------------------------------
(* Messages of the proxy.                                                  *)

LEMMA SeqOfElements ==
  ASSUME NEW G, NEW S, NEW q \in Seq(G), \A i \in DOMAIN q : q[i] \in S
  PROVE  q \in Seq(S)
  <1>1. Len(q) \in Nat /\ q \in [1 .. Len(q) -> G] /\ DOMAIN q = 1 .. Len(q)
    BY LenProperties
  <1>2. q \in [1 .. Len(q) -> S]
    BY <1>1
  <1>3. QED
    BY <1>1, <1>2, SeqDef

\* What every message of the proxy leaves alone.
HomeReads(c) ==
  /\ down[c] # <<>> /\ down' = [down EXCEPT ![c] = Tail(down[c])]
  /\ UNCHANGED <<pws, cut, manager, http, clients, ws, retryTimer, sent, version>>

LEMMA TailIsCalm ==
  ASSUME Good, NEW c \in Conns, HomeReads(c)
  PROVE  Head(down[c]) \in GoodDown /\ Calm(down')
  <1>1. down[c] \in Seq(GoodDown) /\ down[c] # <<>>
    BY Channels DEF HomeReads
  <1>2. Tail(down[c]) \in Seq(GoodDown) /\ Shift(Tail(down[c]), down[c])
    BY <1>1, HeadTailProperties, ShiftTail
  <1>3. QED
    BY <1>1, <1>2, HeadTailProperties, CalmAt DEF HomeReads

\* The home executes the request it receives, which was in flight once: no other copy of
\* it is left.
LEMMA HttpRequestHandled ==
  ASSUME IInv, NEW c \in Conns, HomeReads(c), homeAuth, HandleHttpRequest(Head(down[c])),
         UNCHANGED <<hws, homeAuth, hAuthTimer>>
  PROVE  IInv'
  <1> USE DEF IInv
  <1> DEFINE m == Head(down[c])
  <1>1. m \in GoodDown /\ Calm(down')
    BY TailIsCalm
  <1>2. m.type = "http_request" /\ m.id \in Requests /\ Pending(m.id)
    BY <1>1, DownFields DEF HandleHttpRequest
  <1>3. PICK w \in {"fetch", "inject"} :
          work' = [work EXCEPT ![m.id] = w] /\ (w = "fetch" => path[m.id] = "stream")
    BY DEF HandleHttpRequest
  <1>4. PICK a \in SUBSET Requests : active' = a
    <2>1. active \subseteq Requests
      BY DEF LocalTypes
    <2>2. active' \in {active, active \cup {m.id}}
      BY DEF HandleHttpRequest
    <2>3. QED
      BY <1>2, <2>1, <2>2
  <1>5. executed' = [executed EXCEPT ![m.id] = 1] /\ UNCHANGED <<up, sessions>>
    <2>1. executed[m.id] = 0 /\ executed' = [executed EXCEPT ![m.id] = executed[m.id] + 1]
      BY <1>2 DEF Pending, HandleHttpRequest
    <2>2. QED
      BY <2>1 DEF HandleHttpRequest
  <1>6. UNCHANGED <<pws, cut, manager, http, clients, ws, retryTimer, sent, version>>
    BY DEF HomeReads
  <1>7. LocalTypes'
    BY <1>2, <1>3, <1>4, <1>5, <1>6 DEF LocalTypes, manager, http, clients
  <1>8. ASSUME NEW r \in Requests
        PROVE  /\ executed'[r] = IF r = m.id THEN 1 ELSE executed[r]
               /\ r # m.id => work'[r] = work[r]
               /\ r # m.id /\ Pending(r) => Pending(r)'
    BY <1>2, <1>3, <1>5, <1>6 DEF Pending, LocalTypes, http
  <1>9. OneInFlight'
    BY <1>1, InFlightOnce DEF Calm
  <1>10. Good'
    <2>1. ASSUME NEW x \in GoodDown, ~(x.type = "http_request" /\ x.id = m.id)
          PROVE  x \in GoodDown'
      <3>1. CASE x \in OfRequest({"http_request"}, {r \in Requests : Pending(r)})
        <4>1. x.id \in Requests /\ Pending(x.id) /\ x.id # m.id /\ x.type = "http_request"
          BY <2>1, <3>1 DEF OfRequest
        <4>2. Pending(x.id)'
          BY <4>1, <1>8
        <4>3. x \in OfRequest({"http_request"}, {r \in Requests : Pending(r)'})
          BY <3>1, <4>1, <4>2 DEF OfRequest
        <4>4. QED
          BY <4>3 DEF GoodDown
      <3>2. CASE x \notin OfRequest({"http_request"}, {r \in Requests : Pending(r)})
        BY <3>2, <1>6 DEF GoodDown, OfRequest, OfSession, Plain, clients
      <3>3. QED
        BY <3>1, <3>2
    <2>2. ASSUME NEW d \in Conns, NEW i \in DOMAIN down'[d]
          PROVE  down'[d][i] \in GoodDown /\ ~(down'[d][i].type = "http_request" /\ down'[d][i].id = m.id)
      <3>1. down'[d] \in Seq(GoodDown)
        BY <1>1 DEF Calm
      <3>2. down'[d][i] \in GoodDown /\ i \in Nat /\ i > 0
        BY <3>1, ElementOfSeq, LenProperties
      <3>3. down[c] \in Seq(GoodDown) /\ down[c] # <<>>
        BY Channels DEF HomeReads
      <3>4. down[c][1] = m /\ 1 \in DOMAIN down[c]
        BY <3>3, LenProperties, EmptySeq
      <3>5. ASSUME down'[d][i].type = "http_request", down'[d][i].id = m.id
            PROVE  FALSE
        <4>1. CASE d = c
          <5>1. down'[c] = Tail(down[c])
            BY Channels DEF HomeReads
          <5>2. i \in 1 .. Len(Tail(down[c])) /\ Len(Tail(down[c])) = Len(down[c]) - 1
            BY <3>1, <3>3, <4>1, <5>1, HeadTailProperties, LenProperties
          <5>3. down'[c][i] = down[c][i + 1] /\ i + 1 \in DOMAIN down[c]
            BY <3>3, <5>1, <5>2, HeadTailProperties, LenProperties
          <5>4. i + 1 = 1
            BY <1>2, <3>4, <3>5, <4>1, <5>3 DEF OneInFlight
          <5>5. QED
            BY <3>2, <5>4
        <4>2. CASE d # c
          <5>1. down'[d] = down[d]
            BY <4>2, Channels DEF HomeReads
          <5>2. d = c
            BY <1>2, <3>4, <3>5, <5>1 DEF OneInFlight
          <5>3. QED
            BY <4>2, <5>2
        <4>3. QED
          BY <4>1, <4>2
      <3>6. QED
        BY <3>2, <3>5
    <2>3. \A d \in Conns : down'[d] \in Seq(GoodDown')
      <3>1. ASSUME NEW d \in Conns
            PROVE  down'[d] \in Seq(GoodDown')
        <4>1. \A i \in DOMAIN down'[d] : down'[d][i] \in GoodDown'
          BY <2>1, <2>2
        <4>2. down'[d] \in Seq(GoodDown)
          BY <1>1 DEF Calm
        <4>3. QED
          BY <4>1, <4>2, SeqOfElements
      <3>2. QED
        BY <3>1
    <2>4. down' \in [Conns -> Seq(GoodDown')]
      <3>1. down' \in [Conns -> Seq(GoodDown)]
        BY <1>1 DEF Calm
      <3>2. QED
        BY <2>3, <3>1
    <2>5. GoodUp \subseteq GoodUp'
      <3>1. \A r \in Requests : executed[r] = 1 => executed'[r] = 1
        BY <1>8
      <3>2. QED
        BY <1>6, <3>1 DEF GoodUp, Plain, OfRequest, OfSession, Streamed, clients, http
    <2>6. up' \in [Conns -> Seq(GoodUp')]
      BY <1>5, <2>5, Channels, SeqMonotonic
    <2>7. QED
      BY <2>4, <2>6 DEF Good
  <1>11. Fate'
    <2>1. UNCHANGED <<path, entry, reply>>
      BY <1>6 DEF http
    <2>2. work'[m.id] \in {"fetch", "inject"} /\ (work'[m.id] = "fetch" => path[m.id] = "stream")
      BY <1>2, <1>3 DEF LocalTypes
    <2>3. reply[m.id] \in {"waiting", "502"}
      BY <1>2 DEF Pending
    <2> HIDE DEF m
    <2>4. EntryWaits' /\ StreamExecuted'
      BY <1>2, <1>8, <2>1 DEF EntryWaits, StreamExecuted, Pending
    <2>5. ExecutedOnce'
      BY <1>2, <1>8, <2>1, <2>2, <2>3 DEF ExecutedOnce
    <2>6. QED
      BY <2>4, <2>5 DEF Fate
  <1>12. EntryHasOwner' /\ OnlyVerified' /\ NoSocketMeanwhile' /\ HomeOneSocket'
    BY <1>5, <1>6, OwnerSame, VerifiedSame, HomeSame DEF http, clients
  <1>13. QED
    BY <1>7, <1>9, <1>10, <1>11, <1>12 DEF Fate

\* Any other message executes nothing.
LEMMA MessageHandled ==
  ASSUME IInv, NEW c \in Conns, HomeReads(c), Proper(up'),
         homeAuth' \in BOOLEAN, hAuthTimer' \subseteq Conns, active' \subseteq Requests,
         sessions' \subseteq {s \in Sessions : s \in sessions \/ cauth[s]},
         UNCHANGED <<work, executed>>,
         hws' \in [Conns -> HwsType], \A d \in Conns : Live(d)' => Live(d)
  PROVE  IInv'
  <1> USE DEF IInv
  <1>1. Calm(down')
    BY TailIsCalm
  <1>2. UNCHANGED <<pws, cut, manager, http, clients, ws, retryTimer, sent, version>>
    BY DEF HomeReads
  <1>3. LocalTypes'
    BY <1>2 DEF LocalTypes, HwsType, manager, http, clients
  <1>4. Good' /\ OneInFlight'
    BY <1>1, <1>2, ChannelsKept, GrowsSame DEF http, clients
  <1>5. Fate'
    BY <1>2, FateSame DEF Fate, http, Proceeding
  <1>6. EntryHasOwner'
    BY <1>2, OwnerSame DEF http
  <1>7. OnlyVerified'
    BY <1>2 DEF OnlyVerified, clients
  <1>8. HomeOneSocket' /\ NoSocketMeanwhile'
    BY <1>2, LiveShrinks
  <1>9. QED
    BY <1>3, <1>4, <1>5, <1>6, <1>7, <1>8 DEF Fate

LEMMA HomeReceivesStep ==
  ASSUME IInv, NEW c \in Conns, HomeReceives(c)
  PROVE  IInv'
  <1> USE DEF IInv
  <1> DEFINE m == Head(down[c])
  <1>1. HomeReads(c) /\ hws[c] \in {"connecting", "open", "closing"}
    BY DEF HomeReceives, HomeReads
  <1>2. m \in GoodDown
    BY <1>1, TailIsCalm
  <1>3. Proper(up) /\ hws \in [Conns -> HwsType]
    BY Channels DEF Proper, LocalTypes, HwsType
  <1>4. CASE m = Fin /\ hws' = [hws EXCEPT ![c] = "closing"]
            /\ UNCHANGED <<up, homeAuth, hAuthTimer, active, sessions, work, executed>>
    <2>1. hws' \in [Conns -> HwsType] /\ \A d \in Conns : Live(d)' => Live(d)
      BY <1>1, <1>3, <1>4 DEF HwsType, Live
    <2>2. QED
      BY <1>1, <1>3, <1>4, <2>1, MessageHandled DEF LocalTypes
  <1>5. CASE HandleMessage(m)
    <2>1. CASE HandleHttpRequest(m)
      BY <1>1, <1>5, <2>1, HttpRequestHandled DEF HandleMessage
    <2>2. UNCHANGED <<hws, homeAuth, hAuthTimer>> /\ \A d \in Conns : Live(d)' => Live(d)
      BY <1>5 DEF HandleMessage, Live
    <2>3. CASE HandleStreamCancel(m)
      BY <1>1, <1>3, <2>2, <2>3, MessageHandled DEF HandleStreamCancel, LocalTypes
    <2>4. CASE HandleWsOpen(m)
      <3>1. m.id \in Sessions /\ cauth[m.id]
        BY <1>2, <2>4, DownFields DEF HandleWsOpen
      <3>2. Msg("ws_message", m.id, Snapshot) \in GoodUp
        BY <3>1, SessionUp DEF Snapshot, LocalTypes
      <3>3. Proper(Send(<<Msg("ws_message", m.id, Snapshot)>>))
        <4>1. <<Msg("ws_message", m.id, Snapshot)>> \in Seq(GoodUp)
          BY <3>2
        <4>2. QED
          BY <4>1, ProperSend DEF LocalTypes
      <3>4. Proper(up')
        BY <1>3, <2>4, <3>3 DEF HandleWsOpen
      <3>5. sessions' = sessions \cup {m.id} /\ UNCHANGED <<active, work, executed>>
        BY <2>4 DEF HandleWsOpen
      <3> HIDE DEF m
      <3>6. QED
        BY <1>1, <1>3, <2>2, <3>1, <3>4, <3>5, MessageHandled DEF LocalTypes
    <2>5. CASE HandleWsClose(m)
      BY <1>1, <1>3, <2>2, <2>5, MessageHandled DEF HandleWsClose, LocalTypes
    <2>6. QED
      BY <1>5, <2>1, <2>3, <2>4, <2>5 DEF HandleMessage
  <1>6. CASE Registered(c, m)
    <2>1. UNCHANGED <<hws, up, active, sessions, work, executed>> /\ homeAuth' = TRUE /\ hAuthTimer' \subseteq hAuthTimer
      BY <1>6 DEF Registered
    <2>2. QED
      BY <1>1, <1>3, <2>1, MessageHandled DEF LocalTypes, Live
  <1>7. CASE Opened(c, m)
    <2>1. UNCHANGED <<homeAuth, hAuthTimer, active, sessions, work, executed>>
      BY <1>7 DEF Opened
    <2>2. <<Msg("home_register", None, 0)>> \in Seq(GoodUp)
      BY PlainUp
    <2>3. Proper(up')
      BY <1>3, <1>7, <2>2, ProperUp DEF Opened
    <2>4. hws' \in [Conns -> HwsType] /\ \A d \in Conns : Live(d)' => Live(d)
      BY <1>1, <1>3, <1>7 DEF Opened, HwsType, Live
    <2>5. QED
      BY <1>1, <2>1, <2>3, <2>4, MessageHandled DEF LocalTypes
  <1>8. CASE IgnoredByHome(m)
    BY <1>1, <1>3, <1>8, MessageHandled DEF IgnoredByHome, LocalTypes, Live
  <1>9. QED
    BY <1>4, <1>5, <1>6, <1>7, <1>8 DEF HomeReceives

-----------------------------------------------------------------------------
(* Answers and events of the home.                                         *)

LEMMA AnswerKept ==
  ASSUME IInv,
         UNCHANGED <<pws, hws, down, cut, manager, http, clients, ws, homeAuth, hAuthTimer,
                     retryTimer, sessions, executed, version>>,
         Proper(up'), active' \subseteq Requests, sent' \in [Requests -> Nat],
         work' \in [Requests -> {"none", "inject", "fetch", "read", "done", "failed"}],
         Proceeding
  PROVE  IInv'
  <1> USE DEF IInv
  <1>1. LocalTypes'
    BY DEF LocalTypes, manager, http, clients
  <1>2. Good' /\ OneInFlight'
    BY CalmSame, ChannelsKept, GrowsSame DEF http, clients
  <1>3. Fate'
    BY FateSame DEF Fate, http
  <1>4. EntryHasOwner' /\ OnlyVerified' /\ NoSocketMeanwhile' /\ HomeOneSocket'
    BY OwnerSame, VerifiedSame, HomeSame DEF http, clients
  <1>5. QED
    BY <1>1, <1>2, <1>3, <1>4 DEF Fate

LEMMA AnswerSent ==
  ASSUME Good, LocalTypes, NEW r \in Requests, executed[r] = 1
  PROVE  /\ Proper(Send(<<Msg("http_response", r, 0)>>)) /\ Proper(up)
         /\ path[r] = "stream" =>
              /\ \A t \in StreamTypes, n \in {0, 1} : Proper(Send(<<Msg(t, r, n)>>))
              /\ Proper(Send(<<Msg("http_stream_start", r, 0), Msg("http_stream_end", r, 0)>>))
  <1>1. ASSUME NEW m \in GoodUp
        PROVE  Proper(Send(<<m>>))
    <2>1. <<m>> \in Seq(GoodUp)
      OBVIOUS
    <2>2. QED
      BY <2>1, ProperSend DEF LocalTypes
  <1>2. Proper(Send(<<Msg("http_response", r, 0)>>)) /\ Proper(up)
    BY <1>1, AnswerUp, Channels DEF Proper
  <1>3. ASSUME path[r] = "stream"
        PROVE  /\ \A t \in StreamTypes, n \in {0, 1} : Proper(Send(<<Msg(t, r, n)>>))
               /\ Proper(Send(<<Msg("http_stream_start", r, 0), Msg("http_stream_end", r, 0)>>))
    <2>1. \A t \in StreamTypes, n \in {0, 1} : Msg(t, r, n) \in GoodUp
      BY <1>3, AnswerUp
    <2>2. <<Msg("http_stream_start", r, 0), Msg("http_stream_end", r, 0)>> \in Seq(GoodUp)
      BY <2>1 DEF StreamTypes
    <2>3. QED
      BY <1>1, <2>1, <2>2, ProperSend DEF LocalTypes
  <1>4. QED
    BY <1>2, <1>3

LEMMA AnswerStepKept ==
  ASSUME IInv, NEW r \in Requests, AnswerStep(r)
  PROVE  IInv'
  <1> USE DEF IInv
  <1>1. /\ work[r] # "none" /\ executed[r] = 1
        /\ InjectEnds(r) \/ path[r] = "stream"
    BY DEF AnswerStep, InjectEnds, FetchStarts, ReadChunk, StreamEnds, AbortSettles, Aborted, ExecutedOnce
  <1>2. /\ Proper(Send(<<Msg("http_response", r, 0)>>)) /\ Proper(up)
        /\ path[r] = "stream" =>
             /\ \A t \in StreamTypes, n \in {0, 1} : Proper(Send(<<Msg(t, r, n)>>))
             /\ Proper(Send(<<Msg("http_stream_start", r, 0), Msg("http_stream_end", r, 0)>>))
    BY <1>1, AnswerSent
  <1>3. UNCHANGED <<pws, hws, down, cut, manager, http, clients, ws, homeAuth, hAuthTimer,
                    retryTimer, sessions, executed, version>>
    BY DEF AnswerStep, InjectEnds, FetchStarts, ReadChunk, StreamEnds, AbortSettles, home
  <1>4. Proper(up')
    <2>1. CASE InjectEnds(r)
      BY <1>2, <2>1 DEF InjectEnds
    <2>2. path[r] = "stream" \/ InjectEnds(r)
      BY <1>1
    <2>3. CASE FetchStarts(r) /\ path[r] = "stream"
      BY <1>2, <2>3 DEF FetchStarts, StreamTypes
    <2>4. CASE ReadChunk(r) /\ path[r] = "stream"
      BY <1>2, <2>4 DEF ReadChunk, StreamTypes
    <2>5. CASE StreamEnds(r) /\ path[r] = "stream"
      BY <1>2, <2>5 DEF StreamEnds, StreamTypes
    <2>6. CASE AbortSettles(r) /\ path[r] = "stream"
      BY <1>2, <2>6 DEF AbortSettles, StreamTypes
    <2>7. QED
      BY <2>1, <2>2, <2>3, <2>4, <2>5, <2>6 DEF AnswerStep
  <1>5. \/ work' = work
        \/ \E w \in {"read", "done", "failed"} :
             work' = [work EXCEPT ![r] = w] /\ (w = "read" => work[r] = "fetch")
    BY DEF AnswerStep, InjectEnds, FetchStarts, ReadChunk, StreamEnds, AbortSettles, Done, Failed
  <1>6. /\ work' \in [Requests -> {"none", "inject", "fetch", "read", "done", "failed"}]
        /\ Proceeding
    <2>1. CASE work' = work
      BY <2>1 DEF LocalTypes, Proceeding
    <2>2. ASSUME NEW w \in {"read", "done", "failed"}, work' = [work EXCEPT ![r] = w],
                 w = "read" => work[r] = "fetch"
          PROVE  /\ work' \in [Requests -> {"none", "inject", "fetch", "read", "done", "failed"}]
                 /\ Proceeding
      <3>1. \A q \in Requests : work'[q] = IF q = r THEN w ELSE work[q]
        BY <2>2 DEF LocalTypes
      <3>2. Proceeding
        BY <1>1, <2>2, <3>1 DEF Proceeding
      <3>3. QED
        BY <2>2, <3>2 DEF LocalTypes
    <2>3. QED
      BY <1>5, <2>1, <2>2
  <1>7. active' \subseteq Requests
    BY DEF AnswerStep, InjectEnds, FetchStarts, ReadChunk, StreamEnds, AbortSettles, home, LocalTypes
  <1>8. sent' \in [Requests -> Nat]
    <2>1. sent' = sent \/ sent' = [sent EXCEPT ![r] = sent[r] + 1]
      BY DEF AnswerStep, InjectEnds, FetchStarts, ReadChunk, StreamEnds, AbortSettles
    <2>2. QED
      BY <2>1 DEF LocalTypes
  <1>9. QED
    BY <1>3, <1>4, <1>6, <1>7, <1>8, AnswerKept

\* A finite set of sessions has an order to be served in.
LEMMA SendOrderIsASequence ==
  ASSUME NEW S \in SUBSET Sessions
  PROVE  /\ Cardinality(S) \in Nat /\ SendOrder(S) \in [1 .. Cardinality(S) -> S]
         /\ \A s \in S : \E i \in 1 .. Cardinality(S) : SendOrder(S)[i] = s
  <1>1. IsFiniteSet(S)
    BY FS_Subset, TunnelAssumption
  <1>2. Cardinality(S) \in Nat /\ ExistsBijection(1 .. Cardinality(S), S)
    BY <1>1, FS_CardinalityType
  <1>3. PICK q \in [1 .. Cardinality(S) -> S] : \A s \in S : \E i \in 1 .. Cardinality(S) : q[i] = s
    BY <1>2 DEF ExistsBijection, Bijection, Surjection, Injection
  <1>4. \A s \in S : \E i \in DOMAIN q : q[i] = s
    BY <1>3
  <1>5. \E p \in [1 .. Cardinality(S) -> S] : \A s \in S : \E i \in DOMAIN p : p[i] = s
    BY <1>4
  <1>6. SendOrder(S) \in [1 .. Cardinality(S) -> S] /\ \A s \in S : \E i \in DOMAIN SendOrder(S) : SendOrder(S)[i] = s
    BY <1>5 DEF SendOrder
  <1>7. QED
    BY <1>2, <1>6

\* What an event of the bus sends: the present state, to every session.
LEMMA Broadcasted ==
  ASSUME IInv, Broadcast
  PROVE  \E ms \in Seq(GoodUp) :
           /\ up' = IF homeAuth THEN Send(ms) ELSE up
           /\ \A i \in DOMAIN ms : ms[i].type = "ws_message" /\ ms[i].n = version + 1
           /\ \A s \in sessions : \E i \in DOMAIN ms : ms[i].id = s
  <1> USE DEF IInv
  <1>1. PICK to : to = SendOrder(sessions)
    OBVIOUS
  <1>2. PICK n \in Nat : to \in [1 .. n -> sessions] /\ \A s \in sessions : \E i \in 1 .. n : to[i] = s
    <2>1. sessions \in SUBSET Sessions
      BY DEF LocalTypes
    <2>2. /\ Cardinality(sessions) \in Nat /\ to \in [1 .. Cardinality(sessions) -> sessions]
          /\ \A s \in sessions : \E i \in 1 .. Cardinality(sessions) : to[i] = s
      BY <1>1, <2>1, SendOrderIsASequence
    <2>3. QED
      BY <2>2
  <1>3. PICK ms : ms = [i \in DOMAIN to |-> Msg("ws_message", to[i], version + 1)]
    OBVIOUS
  <1>4. ASSUME NEW i \in 1 .. n
        PROVE  /\ ms[i] \in GoodUp
               /\ ms[i].type = "ws_message" /\ ms[i].id = to[i] /\ ms[i].n = version + 1
    <2>1. to[i] \in Sessions /\ cauth[to[i]] /\ version + 1 \in Nat
      BY <1>2 DEF LocalTypes, OnlyVerified
    <2>2. ms[i] = Msg("ws_message", to[i], version + 1)
      BY <1>2, <1>3
    <2>3. QED
      BY <2>1, <2>2, SessionUp, MsgFields
  <1>5. ms \in [1 .. n -> GoodUp] /\ DOMAIN ms = 1 .. n
    BY <1>2, <1>3, <1>4
  <1>6. ms \in Seq(GoodUp)
    BY <1>5, SeqDef
  <1>7. up' = IF homeAuth THEN Send(ms) ELSE up
    BY <1>1, <1>3 DEF Broadcast
  <1>8. \A i \in DOMAIN ms : ms[i].type = "ws_message" /\ ms[i].n = version + 1
    BY <1>4, <1>5
  <1>9. \A s \in sessions : \E i \in DOMAIN ms : ms[i].id = s
    BY <1>2, <1>4, <1>5
  <1>10. QED
    BY <1>6, <1>7, <1>8, <1>9

LEMMA BroadcastStep ==
  ASSUME IInv, Broadcast
  PROVE  IInv'
  <1> USE DEF IInv
  <1>1. UNCHANGED <<pws, hws, down, cut, manager, http, clients, home, handling>> /\ version' = version + 1
    BY DEF Broadcast
  <1>2. Proper(up')
    <2>1. PICK ms \in Seq(GoodUp) : up' = IF homeAuth THEN Send(ms) ELSE up
      BY Broadcasted
    <2>2. Proper(Send(ms))
      BY ProperSend DEF LocalTypes
    <2>3. QED
      BY <2>1, <2>2, Channels DEF Proper
  <1>3. LocalTypes'
    BY <1>1 DEF LocalTypes, manager, http, clients, home, handling
  <1>4. Good' /\ OneInFlight'
    BY <1>1, <1>2, CalmSame, ChannelsKept, GrowsSame DEF http, clients, handling
  <1>5. Fate'
    BY <1>1, FateSame DEF Fate, http, handling, Proceeding
  <1>6. EntryHasOwner' /\ OnlyVerified' /\ NoSocketMeanwhile' /\ HomeOneSocket'
    BY <1>1, OwnerSame, VerifiedSame, HomeSame DEF http, clients, home
  <1>7. QED
    BY <1>3, <1>4, <1>5, <1>6 DEF Fate

-----------------------------------------------------------------------------
LEMMA InitIInv == Init => IInv
  <1> SUFFICES ASSUME Init PROVE IInv
    OBVIOUS
  <1> USE DEF Init
  <1>1. LocalTypes
    BY DEF LocalTypes
  <1>2. down \in [Conns -> Seq(GoodDown)] /\ up \in [Conns -> Seq(GoodUp)]
    BY EmptySeq
  <1>3. OneInFlight
    BY DEF OneInFlight
  <1>4. ExecutedOnce /\ EntryWaits /\ StreamExecuted
    BY DEF ExecutedOnce, EntryWaits, StreamExecuted
  <1>5. NoSocketMeanwhile /\ HomeOneSocket /\ EntryHasOwner /\ OnlyVerified
    BY DEF NoSocketMeanwhile, HomeOneSocket, Live, EntryHasOwner, OnlyVerified
  <1>6. QED
    BY <1>1, <1>2, <1>3, <1>4, <1>5 DEF IInv, Good

LEMMA NextIInv == IInv /\ [Next]_vars => IInv'
  <1> SUFFICES ASSUME IInv, [Next]_vars PROVE IInv'
    OBVIOUS
  <1>1. CASE \E c \in Conns : Cut(c) \/ ProxyTunnelStep(c) \/ HomeTunnelStep(c)
    <2>1. PICK c \in Conns : Cut(c) \/ ProxyTunnelStep(c) \/ HomeTunnelStep(c)
      BY <1>1
    <2>2. CASE Cut(c) \/ ProxyTunnelStep(c)
      BY <2>2, CutStep, AcceptStep, ProxyReceivesStep, ProxyAuthTimeoutStep, MissedPongStep, ProxyClosedStep
         DEF ProxyTunnelStep
    <2>3. CASE HomeTunnelStep(c)
      BY <2>3, HomeReceivesStep, HomeAuthTimeoutStep, HomeSocketErrorStep, HomeClosedStep DEF HomeTunnelStep
    <2>4. QED
      BY <2>1, <2>2, <2>3
  <1>2. CASE \E r \in Requests : RequestStep(r) \/ AnswerStep(r)
    BY <1>2, HttpRequestStep, RequestTimeoutStep, ClientGoneStep, AnswerStepKept DEF RequestStep
  <1>3. CASE \E s \in Sessions : ClientStep(s)
    BY <1>3, ClientStepKept
  <1>4. CASE Connect \/ Stop \/ HomeRestarts \/ Broadcast
    BY <1>4, ConnectStep, StopStep, HomeRestartsStep, BroadcastStep
  <1>5. CASE UNCHANGED vars
    <2> USE DEF vars, wire, manager, http, clients, home, handling
    <2>1. LocalTypes'
      BY <1>5 DEF IInv, LocalTypes
    <2>2. Good' /\ OneInFlight'
      BY <1>5, CalmSame, Channels, ChannelsKept, GrowsSame DEF IInv, Proper
    <2>3. Fate'
      BY <1>5, FateSame DEF IInv, Fate, Proceeding
    <2>4. EntryHasOwner' /\ OnlyVerified' /\ NoSocketMeanwhile' /\ HomeOneSocket'
      BY <1>5, OwnerSame, VerifiedSame, HomeSame DEF IInv
    <2>5. QED
      BY <2>1, <2>2, <2>3, <2>4 DEF IInv, Fate
  <1>6. QED
    BY <1>1, <1>2, <1>3, <1>4, <1>5 DEF Next

LEMMA Invariance == Spec => []IInv
  BY InitIInv, NextIInv, PTL DEF Spec

-----------------------------------------------------------------------------
(* The refinement.                                                         *)

St == [r \in Requests |-> Status(r)]

LEMMA StatusOf ==
  ASSUME NEW r \in Requests, reply[r] \in ReplyType
  PROVE  /\ St[r] = Status(r)
         /\ (St[r] = "idle") = (reply[r] = "idle")
         /\ (St[r] = "refused") = (reply[r] = "503")
         /\ (St[r] = "waiting") = (reply[r] \in {"waiting", "piping"})
         /\ (St[r] = "answered") = (reply[r] \in {"ok", "streamed"})
         /\ (St[r] = "failed") = (reply[r] = "502")
         /\ St[r] \in {"idle", "refused", "waiting", "answered", "failed"}
  BY DEF St, Status, ReplyType

\* A step that changes no status and executes nothing is a stutter.
LEMMA Stutters ==
  ASSUME UNCHANGED executed, \A r \in Requests : Status(r)' = Status(r)
  PROVE  UNCHANGED Abstract!vars
  BY DEF Abstract!vars

LEMMA RepliesKept ==
  ASSUME UNCHANGED <<reply, executed>>
  PROVE  UNCHANGED Abstract!vars
  <1>1. \A r \in Requests : Status(r)' = Status(r)
    BY DEF Status
  <1>2. QED
    BY <1>1, Stutters

\* A step that gives request r another status, and no other.
LEMMA StatusChanges ==
  ASSUME NEW r \in Requests, NEW a, Status(r)' = a,
         \A q \in Requests \ {r} : Status(q)' = Status(q)
  PROVE  St' = [St EXCEPT ![r] = a]
  BY DEF St

LEMMA HttpRequestRelayed ==
  ASSUME IInv, NEW r \in Requests, HttpRequest(r)
  PROVE  Abstract!Next
  <1>1. /\ reply[r] = "idle" /\ UNCHANGED executed
        /\ \/ reply' = [reply EXCEPT ![r] = "waiting"]
           \/ reply' = [reply EXCEPT ![r] = "503"]
    BY DEF HttpRequest, handling
  <1>2. reply \in [Requests -> ReplyType]
    BY DEF IInv, LocalTypes, ReplyType
  <1>3. \A q \in Requests \ {r} : Status(q)' = Status(q)
    BY <1>1, <1>2 DEF Status
  <1>4. St[r] = "idle"
    BY <1>1, <1>2, StatusOf
  <1>5. CASE reply' = [reply EXCEPT ![r] = "waiting"]
    <2>1. Status(r)' = "waiting"
      BY <1>2, <1>5 DEF Status
    <2>2. St' = [St EXCEPT ![r] = "waiting"]
      BY <1>3, <2>1, StatusChanges
    <2>3. Abstract!Ask(r)
      BY <1>1, <1>4, <2>2 DEF Abstract!Ask, St
    <2>4. QED
      BY <2>3 DEF Abstract!Next
  <1>6. CASE reply' = [reply EXCEPT ![r] = "503"]
    <2>1. Status(r)' = "refused"
      BY <1>2, <1>6 DEF Status
    <2>2. St' = [St EXCEPT ![r] = "refused"]
      BY <1>3, <2>1, StatusChanges
    <2>3. Abstract!Refuse(r)
      BY <1>1, <1>4, <2>2 DEF Abstract!Refuse, St
    <2>4. QED
      BY <2>3 DEF Abstract!Next
  <1>7. QED
    BY <1>1, <1>5, <1>6

\* Requests that wait are given up, together.
LEMMA GivenUp ==
  ASSUME IInv, UNCHANGED executed, reply' \in [Requests -> ReplyType],
         \A r \in Requests : reply'[r] = reply[r] \/ (reply'[r] = "502" /\ reply[r] \in {"waiting", "piping"})
  PROVE  Abstract!Next \/ UNCHANGED Abstract!vars
  <1> DEFINE R == {r \in Requests : reply'[r] = "502" /\ reply[r] \in {"waiting", "piping"}}
  <1>1. reply \in [Requests -> ReplyType]
    BY DEF IInv, LocalTypes, ReplyType
  <1>2. \A r \in Requests \ R : Status(r)' = Status(r)
    BY DEF Status
  <1>3. CASE R = {}
    BY <1>2, <1>3, Stutters
  <1>4. CASE R # {}
    <2>1. \A r \in R : Status(r)' = "failed" /\ St[r] = "waiting"
      <3>1. ASSUME NEW r \in R
            PROVE  Status(r)' = "failed" /\ St[r] = "waiting"
        <4>1. r \in Requests /\ reply'[r] = "502" /\ reply[r] \in {"waiting", "piping"}
          OBVIOUS
        <4>2. Status(r)' = "failed"
          BY <4>1 DEF Status
        <4>3. QED
          BY <1>1, <4>1, <4>2, StatusOf
      <3>2. QED
        BY <3>1
    <2>2. St' = [r \in Requests |-> IF r \in R THEN "failed" ELSE St[r]]
      BY <1>2, <2>1 DEF St
    <2> HIDE DEF R
    <2>3. Abstract!Fail(R)
      BY <1>4, <2>1, <2>2 DEF Abstract!Fail, St
    <2>4. R \in SUBSET Requests
      BY DEF R
    <2>5. QED
      BY <2>3, <2>4 DEF Abstract!Next
  <1>5. QED
    BY <1>3, <1>4

\* A message about request r answers it, or shows that its answer has begun.
LEMMA AnswerRelayed ==
  ASSUME IInv, UNCHANGED executed, Proceeds, NEW r \in Requests,
         \A q \in Requests \ {r} : reply'[q] = reply[q]
  PROVE  Abstract!Next \/ UNCHANGED Abstract!vars
  <1>1. reply \in [Requests -> ReplyType] /\ reply' \in [Requests -> ReplyType]
    BY DEF IInv, LocalTypes, ReplyType, Proceeds
  <1>2. \A q \in Requests \ {r} : Status(q)' = Status(q)
    BY DEF Status
  <1>3. CASE Status(r)' = Status(r)
    BY <1>2, <1>3, Stutters
  <1>4. CASE Status(r)' # Status(r)
    <2>1. reply'[r] # reply[r]
      BY <1>4 DEF Status
    <2>2. executed[r] = 1 /\ reply[r] \in {"waiting", "piping"} /\ reply'[r] \in {"ok", "streamed", "piping"}
      BY <2>1 DEF Proceeds
    <2>3. St[r] = "waiting" /\ Status(r) = "waiting"
      BY <1>1, <2>2, StatusOf
    <2>4. Status(r)' = "answered"
      BY <1>4, <2>2, <2>3 DEF Status
    <2>5. St' = [St EXCEPT ![r] = "answered"]
      BY <1>2, <2>4, StatusChanges
    <2>6. Abstract!Answer(r)
      BY <2>2, <2>3, <2>5 DEF Abstract!Answer, St
    <2>7. QED
      BY <2>6 DEF Abstract!Next
  <1>5. QED
    BY <1>3, <1>4

LEMMA ProxyReceivesRelayed ==
  ASSUME IInv, NEW c \in Conns, ProxyReceives(c)
  PROVE  Abstract!Next \/ UNCHANGED Abstract!vars
  <1> DEFINE m == Head(up[c])
  <1>1. UNCHANGED executed
    BY DEF ProxyReceives, handling
  <1>2. m \in GoodUp
    BY Channels, HeadTailProperties DEF IInv, ProxyReceives
  <1>3. CASE UNCHANGED http
    BY <1>1, <1>3, RepliesKept DEF http
  <1>4. CASE HandleTunnelMessage(m)
    <2>1. CASE WsMessage(m) \/ HttpStreamChunk(m)
      BY <1>1, <2>1, RepliesKept DEF WsMessage, HttpStreamChunk
    <2>2. CASE HttpResponse(m) \/ HttpStreamStart(m) \/ HttpStreamEnd(m)
      <3>1. m.id \in Requests
        BY <1>2, <2>2, UpFields DEF HttpResponse, HttpStreamStart, HttpStreamEnd, Answers
      <3>2. Proceeds
        BY <1>2, <2>2, HttpResponseStep, HttpStreamStartStep, HttpStreamEndStep
      <3>3. \A q \in Requests \ {m.id} : reply'[q] = reply[q]
        BY <2>2 DEF HttpResponse, HttpStreamStart, HttpStreamEnd, Replied, IInv, LocalTypes
      <3> HIDE DEF m
      <3>4. QED
        BY <1>1, <3>1, <3>2, <3>3, AnswerRelayed
    <2>3. QED
      BY <1>4, <2>1, <2>2 DEF HandleTunnelMessage
  <1>5. QED
    BY <1>3, <1>4 DEF ProxyReceives, Register, IgnoredByProxy

LEMMA HomeReceivesRelayed ==
  ASSUME IInv, NEW c \in Conns, HomeReceives(c)
  PROVE  Abstract!Next \/ UNCHANGED Abstract!vars
  <1> DEFINE m == Head(down[c])
  <1>1. HomeReads(c) /\ m \in GoodDown
    BY TailIsCalm DEF IInv, HomeReceives, HomeReads
  <1>2. UNCHANGED reply
    BY <1>1 DEF HomeReads, http
  <1>3. CASE UNCHANGED executed
    BY <1>2, <1>3, RepliesKept
  <1>4. CASE HandleHttpRequest(m)
    <2>1. m.id \in Requests /\ Pending(m.id)
      BY <1>1, <1>4, DownFields DEF HandleHttpRequest
    <2>2. executed[m.id] = 0 /\ executed' = [executed EXCEPT ![m.id] = 1]
      <3>1. executed[m.id] = 0 /\ executed' = [executed EXCEPT ![m.id] = executed[m.id] + 1]
        BY <1>4, <2>1 DEF Pending, HandleHttpRequest
      <3>2. QED
        BY <3>1
    <2>3. reply \in [Requests -> ReplyType]
      BY DEF IInv, LocalTypes, ReplyType
    <2>4. St[m.id] \in {"waiting", "failed"}
      BY <2>1, <2>3, StatusOf DEF Pending
    <2>5. St' = St
      BY <1>2 DEF St, Status
    <2> HIDE DEF m
    <2>6. Abstract!Execute(m.id)
      BY <2>2, <2>4, <2>5 DEF Abstract!Execute, St
    <2>7. QED
      BY <2>1, <2>6 DEF Abstract!Next
  <1>5. QED
    BY <1>3, <1>4 DEF HomeReceives, HandleMessage, HandleStreamCancel, HandleWsOpen, HandleWsClose,
                      Registered, Opened, IgnoredByHome

LEMMA StepRelayed ==
  ASSUME IInv, [Next]_vars
  PROVE  Abstract!Next \/ UNCHANGED Abstract!vars
  <1> USE DEF http, handling
  <1>1. CASE UNCHANGED <<reply, executed>>
    BY <1>1, RepliesKept
  <1>2. CASE \E c \in Conns : Cut(c) \/ ProxyTunnelStep(c) \/ HomeTunnelStep(c)
    <2>1. PICK c \in Conns : Cut(c) \/ ProxyTunnelStep(c) \/ HomeTunnelStep(c)
      BY <1>2
    <2>2. CASE Cut(c) \/ Accept(c) \/ ProxyAuthTimeout(c) \/ MissedPong(c)
      BY <1>1, <2>2 DEF Cut, Accept, ProxyAuthTimeout, MissedPong
    <2>3. CASE HomeAuthTimeout(c) \/ HomeSocketError(c) \/ HomeClosed(c)
      BY <1>1, <2>3 DEF HomeAuthTimeout, HomeSocketError, HomeClosed
    <2>4. CASE ProxyReceives(c)
      BY <2>4, ProxyReceivesRelayed
    <2>5. CASE HomeReceives(c)
      BY <2>5, HomeReceivesRelayed
    <2>6. CASE ProxyClosed(c)
      <3>1. UNCHANGED executed /\ reply' = [r \in Requests |-> IF Rejects(r) THEN "502" ELSE reply[r]]
        BY <2>6 DEF ProxyClosed
      <3>2. reply' \in [Requests -> ReplyType]
        BY <3>1 DEF IInv, LocalTypes, ReplyType
      <3>3. \A r \in Requests :
              reply'[r] = reply[r] \/ (reply'[r] = "502" /\ reply[r] \in {"waiting", "piping"})
        BY <3>1 DEF Rejects, IInv, EntryWaits
      <3>4. QED
        BY <3>1, <3>2, <3>3, GivenUp
    <2>7. QED
      BY <2>1, <2>2, <2>3, <2>4, <2>5, <2>6 DEF ProxyTunnelStep, HomeTunnelStep
  <1>3. CASE \E r \in Requests : RequestStep(r) \/ AnswerStep(r)
    <2>1. PICK r \in Requests : RequestStep(r) \/ AnswerStep(r)
      BY <1>3
    <2>2. CASE HttpRequest(r)
      BY <2>2, HttpRequestRelayed
    <2>3. CASE ClientGone(r)
      BY <1>1, <2>3 DEF ClientGone
    <2>4. CASE AnswerStep(r)
      BY <1>1, <2>4 DEF AnswerStep, InjectEnds, FetchStarts, ReadChunk, StreamEnds, AbortSettles
    <2>5. CASE RequestTimeout(r)
      <3>1. /\ UNCHANGED executed
            /\ reply' = [reply EXCEPT ![r] = IF entry[r] # "none" THEN "502" ELSE reply[r]]
        BY <2>5 DEF RequestTimeout
      <3>2. reply \in [Requests -> ReplyType]
        BY DEF IInv, LocalTypes, ReplyType
      <3>3. PICK a : a = IF entry[r] # "none" THEN "502" ELSE reply[r]
        OBVIOUS
      <3>4. a = reply[r] \/ (a = "502" /\ reply[r] \in {"waiting", "piping"})
        BY <3>3 DEF IInv, EntryWaits
      <3>5. reply' \in [Requests -> ReplyType]
        BY <3>1, <3>2, <3>3, <3>4 DEF ReplyType
      <3>6. \A q \in Requests :
              reply'[q] = reply[q] \/ (reply'[q] = "502" /\ reply[q] \in {"waiting", "piping"})
        BY <3>1, <3>2, <3>3, <3>4
      <3>7. QED
        BY <3>1, <3>5, <3>6, GivenUp
    <2>6. QED
      BY <2>1, <2>2, <2>3, <2>4, <2>5 DEF RequestStep
  <1>4. CASE \E s \in Sessions : ClientStep(s)
    BY <1>1, <1>4 DEF ClientStep, ClientConnects, Authenticate, Verified, NotVerified, ClientLeaves, ClientClosed
  <1>5. CASE Connect \/ Stop \/ HomeRestarts \/ Broadcast
    BY <1>1, <1>5 DEF Connect, Stop, HomeRestarts, Broadcast
  <1>6. CASE UNCHANGED vars
    BY <1>1, <1>6 DEF vars
  <1>7. QED
    BY <1>2, <1>3, <1>4, <1>5, <1>6 DEF Next

-----------------------------------------------------------------------------
\* Every variable keeps its type, whatever crosses on the wire: a message is only ever one
\* the other side sends, about a request or a client that exists.
THEOREM TypeCorrect == Spec => []TypeOK
  <1>1. IInv => TypeOK
    <2> SUFFICES ASSUME IInv PROVE TypeOK
      OBVIOUS
    <2>1. GoodDown \subseteq Message /\ GoodUp \subseteq Message
      BY DownFields, UpFields
    <2>2. up \in [Conns -> Seq(Message)] /\ down \in [Conns -> Seq(Message)]
      BY <2>1, Channels, SeqMonotonic DEF IInv
    <2>3. QED
      BY <2>2 DEF IInv, LocalTypes, TypeOK
  <1>2. QED
    BY <1>1, Invariance, PTL

\* A pending entry of the proxy has a client that still waits for it and somebody who will
\* remove it, and a client that waits for an answer that is not streamed has its entry, for
\* any number of connections that replace each other (sendHttpRequest, handleTunnelMessage,
\* rejectAllPending).
THEOREM EntryIsOwned == Spec => []EntryHasOwner
  <1>1. IInv => EntryHasOwner
    BY DEF IInv
  <1>2. QED
    BY <1>1, Invariance, PTL

\* The home serves no WebSocket client, and shows it nothing, whose token was not verified
\* (client-handler.ts authenticate, client.ts handleWsOpen).
THEOREM VerifiedOnly == Spec => []OnlyVerified
  <1>1. IInv => OnlyVerified
    BY DEF IInv
  <1>2. QED
    BY <1>1, Invariance, PTL

\* The home never has two live sockets, for any number of reconnects (connect, stop).
THEOREM SingleSocket == Spec => []HomeOneSocket
  <1>1. IInv => HomeOneSocket
    BY DEF IInv
  <1>2. QED
    BY <1>1, Invariance, PTL

\* The proxy and the home implement Relay: every request is executed at most once and
\* answered at most once, and only after it was executed, whatever messages are lost,
\* connections replaced or processes restarted.
THEOREM Relays == Spec => RelaySpec
  <1>1. Init => Abstract!Init
    <2> SUFFICES ASSUME Init PROVE Abstract!Init
      OBVIOUS
    <2>1. \A r \in Requests : Status(r) = "idle"
      BY DEF Init, Status
    <2>2. QED
      BY <2>1 DEF Init, Abstract!Init
  <1>2. IInv /\ [Next]_vars => [Abstract!Next]_(Abstract!vars)
    BY StepRelayed
  <1>3. QED
    BY <1>1, <1>2, Invariance, PTL DEF Spec, RelaySpec, Abstract!Spec
=============================================================================
