----------------------------- MODULE BridgeLink -----------------------------
(***************************************************************************)
(* The connection an integration keeps to one controller, under restarts   *)
(* of the integration: the registry's restart, the start and stop of the   *)
(* Lutron and Pentair integrations, their clients LeapClient and           *)
(* IntelliCenterClient, and the base class ConnectionManager with its      *)
(* circuit breaker.  `kind' says which of the two it is.                   *)
(*                                                                         *)
(* Every start makes a new client; the one in the integration's map is the *)
(* owner, and no other is ever disconnected.  The two clients differ in    *)
(* one thing that matters: a Pentair attempt has a timeout of its own,     *)
(* which outlives the socket, and a Lutron attempt has none.               *)
(*                                                                         *)
(* An exception nobody catches shuts the process down (main.ts): an error  *)
(* event of a WebSocket without listeners, or one thrown by a listener.    *)
(***************************************************************************)
EXTENDS Integers

CONSTANTS
  Kinds,        \* the kinds of integration looked at
  MaxRestarts,  \* restarts of the integration asked for
  Threshold,    \* breakerThreshold, failures before the breaker opens
  Cooldown,     \* breakerCooldownMs, in seconds
  BaseDelay, MaxDelay  \* baseDelay and maxDelay of scheduleReconnect, in seconds

ASSUME KindsAssumption == Kinds \subseteq {"lutron", "pentair"}
ASSUME RestartsAssumption == MaxRestarts \in Nat
ASSUME BreakerAssumption ==
  Threshold \in Nat \ {0} /\ Cooldown \in Nat /\ BaseDelay \in Nat /\ MaxDelay \in Nat

Calls == 0 .. MaxRestarts       \* call 0 is the start at boot
Clients == 1 .. MaxRestarts + 1 \* a call makes one client at most
None == 0                       \* no client

VARIABLES
  kind,     \* which integration this is
  up,       \* the backend process runs
  enabled,  \* the entry's row in integration_entries is enabled
  cl,       \* the clients, one record each (Fresh)
  made,     \* how many were made
  owner,    \* the client in the integration's map, or None
  pc,       \* what each call does: "idle", "saved", "asked", "read", "waiting", "done"
  seen,     \* the row as the call's start has read it
  mine,     \* the client whose first connect the call awaits
  \* history, read by no guard
  overlap,  \* an integration was stopped while another call was between its stop and its client
  revived   \* clients that came back after their disconnect

vars == <<kind, up, enabled, cl, made, owner, pc, seen, mine, overlap, revived>>
call == <<pc, seen, mine>>

\* A client: _state, retryCount, the breaker, the retry timer, the socket with its
\* listeners, whether doConnect's promise is open, the attempts that lost their socket with
\* a timeout still to come, and whether the first connect has yet to return.
Fresh == [st |-> "init", retry |-> 0, failures |-> 0, breaker |-> "closed", timer |-> FALSE,
          sock |-> "none", pending |-> FALSE, late |-> 0, first |-> TRUE]

Init ==
  /\ kind \in Kinds /\ up = TRUE /\ enabled \in BOOLEAN
  /\ cl = [c \in Clients |-> Fresh] /\ made = 0 /\ owner = None
  /\ pc = [p \in Calls |-> IF p = 0 THEN "asked" ELSE "idle"]
  /\ seen = [p \in Calls |-> FALSE] /\ mine = [p \in Calls |-> None]
  /\ overlap = FALSE /\ revived = {}
-----------------------------------------------------------------------------
\* The base class, as functions of a client's record.

\* destroySocket: the listeners go first, so an open promise of doConnect is never told.
DestroySocket(k) ==
  [k EXCEPT !.sock = "none", !.pending = FALSE,
            !.late = IF k.pending /\ kind = "pentair" THEN k.late + 1 ELSE k.late]

\* ws.terminate on a WebSocket that is connecting emits an error, and nobody listens.
Aborts(k) == kind = "pentair" /\ k.sock = "opening"

Backoff(n) ==
  LET d == BaseDelay * 2 ^ n IN IF d < MaxDelay THEN d ELSE MaxDelay

\* breaker.isOpen in connect: a retry comes Backoff seconds after the last failure.
IsOpen(k) == k.breaker = "open" /\ Backoff(k.retry - 1) < Cooldown

ConnectAfresh(k) ==  \* mutant
  [DestroySocket(k) EXCEPT !.retry = 0, !.failures = 0, !.breaker = "closed",
                           !.st = "connecting", !.sock = "opening", !.pending = TRUE]

\* connect, up to the await of doConnect.
Connect(k) ==
  IF IsOpen(k) THEN [k EXCEPT !.st = "error"]
  ELSE [DestroySocket(k) EXCEPT
          !.breaker = IF k.breaker = "open" THEN "half-open" ELSE k.breaker,
          !.st = IF k.retry = 0 THEN "connecting" ELSE "reconnecting",
          !.sock = "opening", !.pending = TRUE]

\* connect, after it.
Connected(k) ==
  [k EXCEPT !.sock = "open", !.pending = FALSE, !.st = "connected", !.retry = 0,
            !.failures = 0, !.breaker = "closed", !.first = FALSE]

NoRetry(k) ==  \* mutant
  [k EXCEPT !.st = "reconnecting", !.retry = k.retry + 1]

\* scheduleReconnect.
ScheduleReconnect(k) ==
  [k EXCEPT !.st = "reconnecting", !.timer = TRUE, !.retry = k.retry + 1]

\* connect's catch block: recordFailure, then scheduleReconnect.
Rejected(k) ==
  ScheduleReconnect([k EXCEPT !.failures = k.failures + 1, !.first = FALSE,
    !.breaker = IF k.failures + 1 >= Threshold THEN "open" ELSE k.breaker])

KeepsTimer(k) ==  \* mutant
  [DestroySocket(k) EXCEPT !.st = "disconnected"]

Disconnected(k) == [DestroySocket(k) EXCEPT !.timer = FALSE, !.st = "disconnected"]
-----------------------------------------------------------------------------
\* The events of a client.

Change(c, k) == cl' = [cl EXCEPT ![c] = k]
Quiet == UNCHANGED <<kind, enabled, made, owner, call, overlap>>

\* onBridgeConnected writes to the owner's socket, whichever client has connected.
WriteThrows == kind = "lutron" /\ owner # None /\ cl[owner].sock \in {"none", "failed"}

Opens(c) ==
  /\ up /\ cl[c].sock = "opening"
  /\ up' = ~WriteThrows
  /\ Change(c, IF WriteThrows THEN cl[c] ELSE Connected(cl[c]))
  /\ UNCHANGED revived /\ Quiet

ErrorRejects(c) == cl[c].st = "connecting"

\* error and close of a socket that never opened.
Fails(c) ==
  /\ up /\ cl[c].sock = "opening"
  /\ LET k == [cl[c] EXCEPT !.sock = "failed"] IN
     \/ ErrorRejects(c) /\ Change(c, Rejected([k EXCEPT !.pending = FALSE]))
     \/ ~ErrorRejects(c) /\ Change(c, k)
  /\ UNCHANGED <<up, revived>> /\ Quiet

TerminatesOnly(c) ==  \* mutant
  /\ up /\ kind = "pentair" /\ cl[c].pending
  /\ Change(c, [cl[c] EXCEPT !.sock = "failed"])
  /\ UNCHANGED <<up, revived>> /\ Quiet

\* The timeout of an attempt that still has its socket (CONNECT_TIMEOUT_MS).
ConnectTimeout(c) ==
  /\ up /\ kind = "pentair" /\ cl[c].pending
  /\ Change(c, Rejected([cl[c] EXCEPT !.sock = "failed", !.pending = FALSE]))
  /\ UNCHANGED <<up, revived>> /\ Quiet

LateAgain(c) ==  \* mutant
  /\ up /\ cl[c].late >= 0
  /\ Change(c, Rejected([cl[c] EXCEPT !.late = @ - 1]))
  /\ revived' = revived \cup {c}
  /\ UNCHANGED up /\ Quiet

\* The timeout of an attempt whose socket a disconnect has destroyed.
LateTimeout(c) ==
  /\ up /\ cl[c].late > 0
  /\ Change(c, Rejected([cl[c] EXCEPT !.late = @ - 1]))
  /\ revived' = revived \cup {c}
  /\ UNCHANGED up /\ Quiet

RetryTimer(c) ==
  /\ up /\ cl[c].timer
  /\ up' = (IsOpen(cl[c]) \/ ~Aborts(cl[c]))
  /\ Change(c, Connect([cl[c] EXCEPT !.timer = FALSE]))
  /\ UNCHANGED revived /\ Quiet

\* The controller ends the connection; close reconnects at once.
SocketCloses(c) ==
  /\ up /\ cl[c].sock \in {"open", "silent"} /\ cl[c].st = "connected"
  /\ Change(c, Connect([cl[c] EXCEPT !.st = "disconnected"]))
  /\ UNCHANGED <<up, revived>> /\ Quiet

\* The path dies without an event ...
GoesSilent(c) ==
  /\ up /\ cl[c].sock = "open"
  /\ Change(c, [cl[c] EXCEPT !.sock = "silent"])
  /\ UNCHANGED <<up, revived>> /\ Quiet

\* ... and the ping timer destroys the socket, listeners first.
StaleCheck(c) ==
  /\ up /\ cl[c].sock = "silent"
  /\ Change(c, DestroySocket(cl[c]))
  /\ UNCHANGED <<up, revived>> /\ Quiet
-----------------------------------------------------------------------------
\* The calls: a start at boot, and restarts that a route asks for.

\* PUT of an entry saves its row first; a plain restart leaves it.
Save(p, e) ==
  /\ up /\ pc[p] = "idle"
  /\ enabled' = e
  /\ pc' = [pc EXCEPT ![p] = "saved"]
  /\ UNCHANGED <<kind, up, cl, made, owner, seen, mine, overlap, revived>>

\* restart calls stop: the owner is disconnected, and the map is cleared.
Stop(p) ==
  /\ up /\ pc[p] = "saved"
  /\ pc' = [pc EXCEPT ![p] = "asked"]
  /\ owner' = None
  /\ overlap' = (overlap \/ \E q \in Calls : pc[q] \in {"asked", "read"})
  /\ IF owner = None THEN UNCHANGED <<cl, up>>
     ELSE Change(owner, Disconnected(cl[owner])) /\ up' = ~Aborts(cl[owner])
  /\ UNCHANGED <<kind, enabled, made, seen, mine, revived>>

\* start reads the entries ...
GetEntries(p) ==
  /\ up /\ pc[p] = "asked"
  /\ pc' = [pc EXCEPT ![p] = "read"]
  /\ seen' = [seen EXCEPT ![p] = enabled]
  /\ UNCHANGED <<kind, up, enabled, cl, made, owner, mine, overlap, revived>>

AnyEntry(p) == TRUE  \* mutant
EnabledEntry(p) == seen[p]

\* ... and makes a client for an enabled one, puts it in the map and awaits its connect.
StartClient(p) ==
  /\ up /\ pc[p] = "read" /\ EnabledEntry(p)
  /\ made' = made + 1 /\ owner' = made'
  /\ Change(made', Connect(Fresh))
  /\ pc' = [pc EXCEPT ![p] = "waiting"] /\ mine' = [mine EXCEPT ![p] = made']
  /\ UNCHANGED <<kind, up, enabled, seen, overlap, revived>>

StartNothing(p) ==
  /\ up /\ pc[p] = "read" /\ ~EnabledEntry(p)
  /\ pc' = [pc EXCEPT ![p] = "done"]
  /\ UNCHANGED <<kind, up, enabled, cl, made, owner, seen, mine, overlap, revived>>

\* connect returns when its first attempt is over, whatever came of it.
Returns(p) ==
  /\ up /\ pc[p] = "waiting" /\ ~cl[mine[p]].first
  /\ pc' = [pc EXCEPT ![p] = "done"]
  /\ UNCHANGED <<kind, up, enabled, cl, made, owner, seen, mine, overlap, revived>>
-----------------------------------------------------------------------------
Attempt(c) == Opens(c) \/ Fails(c) \/ ConnectTimeout(c) \/ LateTimeout(c) \/ RetryTimer(c)
Line(c) == SocketCloses(c) \/ GoesSilent(c) \/ StaleCheck(c)
Start(p) == GetEntries(p) \/ StartClient(p) \/ StartNothing(p) \/ Returns(p)

Next ==
  \/ \E c \in Clients : Attempt(c) \/ Line(c)
  \/ \E p \in Calls : (\E e \in BOOLEAN : Save(p, e)) \/ Stop(p) \/ Start(p)

Spec == Init /\ [][Next]_vars

\* The code's own timers fire and its queries are answered; nothing is assumed of the
\* controller, its network, or the people who ask for restarts.
FairSpec ==
  /\ Spec
  /\ \A c \in Clients :
       WF_vars(ConnectTimeout(c)) /\ WF_vars(LateTimeout(c)) /\ WF_vars(RetryTimer(c))
  /\ \A p \in Calls : WF_vars(Stop(p)) /\ WF_vars(Start(p))
-----------------------------------------------------------------------------
Client ==
  [st : {"init", "connecting", "connected", "reconnecting", "disconnected", "error"},
   retry : Nat, failures : Nat, breaker : {"closed", "open", "half-open"}, timer : BOOLEAN,
   sock : {"none", "opening", "open", "silent", "failed"}, pending : BOOLEAN, late : Nat,
   first : BOOLEAN]

\* Every variable keeps its type; no client is in the map that was not made.
TypeOK ==
  /\ kind \in Kinds /\ up \in BOOLEAN /\ enabled \in BOOLEAN
  /\ cl \in [Clients -> Client]
  /\ made \in 0 .. MaxRestarts + 1 /\ owner \in 0 .. made
  /\ pc \in [Calls -> {"idle", "saved", "asked", "read", "waiting", "done"}]
  /\ seen \in [Calls -> BOOLEAN] /\ mine \in [Calls -> 0 .. made]
  /\ overlap \in BOOLEAN /\ revived \subseteq Clients

Live(c) == cl[c].timer \/ cl[c].sock \in {"opening", "open", "silent"}

\* No restart leaves a connection, or a retry of one, behind the integration's back: a
\* client that is not in the map is at rest for good, unless two calls crossed between
\* stop and the new client, or a Pentair attempt timed out after its disconnect
\* (registry.restart, start, stop, disconnect).
NothingLeftBehind ==
  \A c \in Clients : Live(c) /\ c # owner => overlap \/ (kind = "pentair" /\ c \in revived)

\* Once all calls are over, and unless they crossed, there is a client exactly if the
\* row is enabled: the last restart has seen the last edit (saveEntry, restart, start).
OwnerFollowsRow ==
  up /\ ~overlap /\ (\A p \in Calls : pc[p] \in {"idle", "waiting", "done"})
    => (owner # None) = enabled

\* The three states no event leads out of: the breaker, open when the last retry came
\* before its cooldown was over; a LEAP retry that failed, which rejects nothing; a socket
\* destroyed by the stale check, whose close event nobody hears.
BreakerStops(k) == k.st = "error" /\ k.breaker = "open" /\ k.failures >= Threshold
RetryHangs(k) == kind = "lutron" /\ k.st = "reconnecting" /\ k.sock = "failed"
StaleKills(k) == k.st = "connected" /\ k.sock = "none"

\* The owner is connected or on its way to a connection, with an event to come that takes
\* it further; where it is neither, it is in one of these three states, and in no other
\* (connect, scheduleReconnect, doConnect and its handlers).
IdleOnlyAtDeadEnds ==
  up /\ owner # None =>
    LET k == cl[owner] IN
    \/ k.sock \in {"open", "silent"} /\ k.st = "connected"
    \/ k.timer
    \/ k.pending /\ (k.sock = "opening" \/ kind = "pentair")
    \/ BreakerStops(k) \/ RetryHangs(k) \/ StaleKills(k)

\* A restart of Pentair returns to its caller, or the process goes down: whatever becomes
\* of the client it waits for, controller silent or a second restart, the first attempt
\* ends, by nothing but the code's own timeout if need be (doConnect, start, restart).
RestartReturns ==
  \A p \in Calls :
    kind = "pentair" /\ pc[p] \in {"saved", "asked"} ~> pc[p] = "done" \/ ~up

\* Pentair's owner does not try for ever without a result: it is connected in the end, or
\* the breaker stops it, or it is replaced.
RetriesEnd ==
  \A c \in Clients :
    kind = "pentair" /\ owner = c /\ cl[c].st \in {"connecting", "reconnecting"}
      ~> cl[c].st \in {"connected", "error"} \/ owner # c \/ ~up
=============================================================================
