-------------------------- MODULE BridgeLinkProofs --------------------------
(***************************************************************************)
(* Theorems about BridgeLink, for any number of restarts and any threshold,*)
(* cooldown and delays.                                                    *)
(***************************************************************************)
EXTENDS BridgeLink, FiniteSetTheorems, TLAPS

-----------------------------------------------------------------------------
(* The inductive invariant.                                                *)

Asked == {p \in Calls : pc[p] \in {"asked", "read"}}
Past == {p \in Calls : pc[p] \in {"waiting", "done"}}

\* A call makes one client at most.
OneEach == made <= Cardinality(Past)

\* Calls that do not cross: the one that is about to make its client has stopped the owner.
OneAtATime ==
  ~overlap => (\A p, q \in Asked : p = q) /\ (Asked # {} => owner = None)

\* What a client's fields have to do with each other.
Coherent(k) ==
  /\ k.late <= 1 /\ (k.late > 0 => ~k.timer /\ k.sock = "none" /\ ~k.pending)
  /\ k.timer => ~k.pending /\ k.sock \in {"none", "failed"}
  /\ k.sock = "opening" => k.pending
  /\ k.pending => k.sock \in {"opening", "failed"} /\ k.st \in {"connecting", "reconnecting"}
  /\ k.sock \in {"open", "silent"} => k.st = "connected"
  /\ k.st = "connected" => k.breaker = "closed"
  /\ k.breaker = "open" => k.failures >= Threshold
  /\ kind = "lutron" => k.late = 0
AllCoherent == \A c \in Clients : Coherent(cl[c])

Rest(k) == ~k.timer /\ k.sock \in {"none", "failed"} /\ ~k.pending
OthersRest ==
  \A c \in Clients \ {owner} : Rest(cl[c]) \/ overlap \/ (kind = "pentair" /\ c \in revived)

Going(k) ==
  \/ k.sock \in {"open", "silent"} /\ k.st = "connected"
  \/ k.timer
  \/ k.pending /\ (k.sock = "opening" \/ kind = "pentair")
  \/ BreakerStops(k) \/ RetryHangs(k) \/ StaleKills(k)
OwnerGoes == owner # None => cl[owner].late = 0 /\ (up => Going(cl[owner]))

\* What a call has read is the row, unless another has saved since and has yet to stop.
ReadsTheRow ==
  ~overlap /\ (\A q \in Calls : pc[q] # "saved") =>
    \A p \in Calls : pc[p] = "read" => seen[p] = enabled

IInv ==
  /\ TypeOK /\ OneEach /\ OneAtATime /\ AllCoherent /\ OthersRest /\ OwnerGoes
  /\ ReadsTheRow /\ OwnerFollowsRow

-----------------------------------------------------------------------------
(* The functions of a client's record.                                     *)

States == {"init", "connecting", "connected", "reconnecting", "disconnected", "error"}
Breakers == {"closed", "open", "half-open"}
Socks == {"none", "opening", "open", "silent", "failed"}

LEMMA ClientFields ==
  ASSUME NEW k \in Client
  PROVE  /\ k.st \in States /\ k.retry \in Nat /\ k.failures \in Nat /\ k.breaker \in Breakers
         /\ k.timer \in BOOLEAN /\ k.sock \in Socks /\ k.pending \in BOOLEAN /\ k.late \in Nat
         /\ k.first \in BOOLEAN
  BY DEF Client, States, Breakers, Socks

LEMMA FreshFields ==
  /\ Fresh \in Client /\ Fresh.st = "init" /\ Fresh.breaker = "closed" /\ ~Fresh.timer
  /\ Fresh.sock = "none" /\ ~Fresh.pending /\ Fresh.late = 0
  BY DEF Fresh, Client

LEMMA DestroyFields ==
  ASSUME NEW k \in Client
  PROVE  LET d == DestroySocket(k) IN
         /\ d \in Client /\ d.sock = "none" /\ ~d.pending
         /\ d.late = (IF k.pending /\ kind = "pentair" THEN k.late + 1 ELSE k.late)
         /\ d.st = k.st /\ d.retry = k.retry /\ d.failures = k.failures
         /\ d.breaker = k.breaker /\ d.timer = k.timer
  <1>1. PICK n : n = IF k.pending /\ kind = "pentair" THEN k.late + 1 ELSE k.late
    OBVIOUS
  <1>2. n \in Nat
    BY <1>1, ClientFields
  <1>3. DestroySocket(k) = [k EXCEPT !.sock = "none", !.pending = FALSE, !.late = n]
    BY <1>1 DEF DestroySocket
  <1>4. QED
    BY <1>1, <1>2, <1>3 DEF Client

LEMMA OpenBreaker ==
  ASSUME NEW k, IsOpen(k)
  PROVE  k.breaker = "open"
  BY DEF IsOpen

LEMMA ConnectFields ==
  ASSUME NEW k \in Client
  PROVE  LET d == Connect(k) IN
         /\ d \in Client
         /\ IsOpen(k) => d = [k EXCEPT !.st = "error"]
         /\ ~IsOpen(k) =>
              /\ d.sock = "opening" /\ d.pending /\ d.timer = k.timer
              /\ d.late = (IF k.pending /\ kind = "pentair" THEN k.late + 1 ELSE k.late)
              /\ d.st \in {"connecting", "reconnecting"} /\ d.failures = k.failures
              /\ d.breaker # "open"
  <1> DEFINE d == Connect(k)
             z == DestroySocket(k)
  <1>1. CASE IsOpen(k)
    <2>1. d = [k EXCEPT !.st = "error"]
      BY <1>1 DEF Connect
    <2>2. [k EXCEPT !.st = "error"] \in Client
      BY DEF Client
    <2>3. QED
      BY <2>1, <2>2, <1>1
  <1>2. CASE ~IsOpen(k)
    <2>1. d = [z EXCEPT !.breaker = IF k.breaker = "open" THEN "half-open" ELSE k.breaker,
                        !.st = IF k.retry = 0 THEN "connecting" ELSE "reconnecting",
                        !.sock = "opening", !.pending = TRUE]
      BY <1>2 DEF Connect
    <2>2. /\ z \in Client /\ z.timer = k.timer /\ z.failures = k.failures
          /\ z.late = (IF k.pending /\ kind = "pentair" THEN k.late + 1 ELSE k.late)
      BY DestroyFields
    <2>3. k.breaker \in Breakers
      BY ClientFields
    <2> HIDE DEF d, z
    <2>4. d \in Client
      BY <2>1, <2>2, <2>3 DEF Client, Breakers
    <2>5. /\ d.sock = "opening" /\ d.pending /\ d.timer = k.timer /\ d.late = z.late
          /\ d.st \in {"connecting", "reconnecting"} /\ d.failures = k.failures /\ d.breaker # "open"
      BY <2>1, <2>2, <2>3 DEF Client, Breakers
    <2>6. QED
      BY <2>2, <2>4, <2>5, <1>2 DEF d
  <1>3. QED
    BY <1>1, <1>2

LEMMA ConnectedFields ==
  ASSUME NEW k \in Client
  PROVE  LET d == Connected(k) IN
         /\ d \in Client /\ d.sock = "open" /\ ~d.pending /\ d.st = "connected"
         /\ d.breaker = "closed" /\ d.timer = k.timer /\ d.late = k.late
  BY DEF Connected, Client

LEMMA RejectedFields ==
  ASSUME NEW k \in Client
  PROVE  LET d == Rejected(k) IN
         /\ d \in Client /\ d.timer /\ d.sock = k.sock /\ d.pending = k.pending
         /\ d.late = k.late /\ d.st = "reconnecting"
         /\ d.failures = k.failures + 1
         /\ d.breaker = "open" => k.breaker = "open" \/ d.failures >= Threshold
  <1>1. PICK b : b = IF k.failures + 1 >= Threshold THEN "open" ELSE k.breaker
    OBVIOUS
  <1>2. PICK z : z = [k EXCEPT !.failures = k.failures + 1, !.first = FALSE, !.breaker = b]
    OBVIOUS
  <1>3. b \in Breakers /\ k.failures + 1 \in Nat
    BY <1>1, ClientFields DEF Breakers
  <1>4. /\ z \in Client /\ z.failures = k.failures + 1 /\ z.breaker = b /\ z.sock = k.sock
        /\ z.pending = k.pending /\ z.late = k.late
    BY <1>2, <1>3 DEF Client, Breakers
  <1>5. Rejected(k) = ScheduleReconnect(z)
    BY <1>1, <1>2 DEF Rejected
  <1>6. Rejected(k) = [z EXCEPT !.st = "reconnecting", !.timer = TRUE, !.retry = z.retry + 1]
    BY <1>5 DEF ScheduleReconnect
  <1>7. z.retry + 1 \in Nat
    BY <1>4, ClientFields
  <1>8. PICK d : d = Rejected(k)
    OBVIOUS
  <1>9. /\ d \in Client /\ d.timer /\ d.sock = k.sock /\ d.pending = k.pending
        /\ d.late = k.late /\ d.st = "reconnecting" /\ d.failures = k.failures + 1 /\ d.breaker = b
    <2>1. PICK n \in Nat : n = z.retry + 1
      BY <1>7
    <2>2. d = [z EXCEPT !.st = "reconnecting", !.timer = TRUE, !.retry = n]
      BY <1>6, <1>8, <2>1
    <2>3. z \in Client
      BY <1>4
    <2>4. /\ d \in Client /\ d.timer /\ d.st = "reconnecting" /\ d.sock = z.sock
          /\ d.pending = z.pending /\ d.late = z.late /\ d.failures = z.failures
          /\ d.breaker = z.breaker
      BY <2>1, <2>2, <2>3 DEF Client
    <2>5. QED
      BY <1>4, <2>4
  <1>10. b = "open" => k.breaker = "open" \/ k.failures + 1 >= Threshold
    BY <1>1
  <1>11. QED
    BY <1>8, <1>9, <1>10

LEMMA DisconnectedFields ==
  ASSUME NEW k \in Client
  PROVE  LET d == Disconnected(k) IN
         /\ d \in Client /\ d.sock = "none" /\ ~d.pending /\ ~d.timer /\ d.st = "disconnected"
         /\ d.late = (IF k.pending /\ kind = "pentair" THEN k.late + 1 ELSE k.late)
         /\ d.breaker = k.breaker /\ d.failures = k.failures
  <1>1. PICK z : z = DestroySocket(k)
    OBVIOUS
  <1>2. /\ z \in Client /\ z.sock = "none" /\ ~z.pending /\ z.breaker = k.breaker /\ z.failures = k.failures
        /\ z.late = (IF k.pending /\ kind = "pentair" THEN k.late + 1 ELSE k.late)
    BY <1>1, DestroyFields
  <1>3. Disconnected(k) = [z EXCEPT !.timer = FALSE, !.st = "disconnected"]
    BY <1>1 DEF Disconnected
  <1>4. QED
    BY <1>2, <1>3 DEF Client

-----------------------------------------------------------------------------
(* Steps of one client.                                                    *)

LEMMA OneClientStep ==
  ASSUME IInv, NEW c \in Clients, NEW k \in Client,
         Change(c, k), Quiet, Coherent(k),
         up' \in BOOLEAN, up' => up,
         revived' \subseteq Clients, revived \subseteq revived',
         c # owner => Rest(k) \/ ~Rest(cl[c]) \/ (kind = "pentair" /\ c \in revived'),
         c = owner => k.late = 0 /\ (up' => Going(k))
  PROVE  IInv'
  <1>1. UNCHANGED <<kind, enabled, made, owner, pc, seen, mine, overlap>> /\ cl' = [cl EXCEPT ![c] = k]
    BY DEF Quiet, call, Change
  <1>2. TypeOK
    BY DEF IInv
  <1>3. \A d \in Clients : cl'[d] = IF d = c THEN k ELSE cl[d]
    BY <1>1, <1>2 DEF TypeOK
  <1>4. TypeOK'
    <2>1. cl' \in [Clients -> Client]
      BY <1>1, <1>2 DEF TypeOK
    <2>2. QED
      BY <2>1, <1>1, <1>2 DEF TypeOK
  <1>5. OneEach' /\ OneAtATime' /\ ReadsTheRow' /\ OwnerFollowsRow'
    BY <1>1 DEF IInv, OneEach, Past, OneAtATime, Asked, ReadsTheRow, OwnerFollowsRow
  <1>6. AllCoherent'
    <2>1. Coherent(k)'  <=> Coherent(k)
      BY <1>1 DEF Coherent
    <2>2. \A d \in Clients : d # c => Coherent(cl'[d])
      BY <1>3 DEF IInv, AllCoherent
    <2>3. QED
      BY <2>2, <1>1, <1>3 DEF AllCoherent, Coherent
  <1>7. OthersRest'
    BY <1>1, <1>3 DEF IInv, OthersRest, Rest
  <1>8. OwnerGoes'
    <2>1. SUFFICES ASSUME owner # None PROVE cl'[owner].late = 0 /\ (up' => Going(cl[owner])')
      BY <1>1 DEF OwnerGoes
    <2>2. owner \in Clients
      BY <2>1, <1>2, RestartsAssumption DEF TypeOK, Clients, None
    <2>3. CASE owner = c
      BY <2>3, <1>1, <1>3 DEF Going, BreakerStops, RetryHangs, StaleKills
    <2>4. CASE owner # c
      BY <2>1, <2>2, <2>4, <1>1, <1>3 DEF IInv, OwnerGoes, Going, BreakerStops, RetryHangs, StaleKills
    <2>5. QED
      BY <2>3, <2>4
  <1>9. QED
    BY <1>4, <1>5, <1>6, <1>7, <1>8 DEF IInv

LEMMA ClientOf ==
  ASSUME IInv, NEW c \in Clients
  PROVE  /\ cl[c] \in Client /\ Coherent(cl[c]) /\ up \in BOOLEAN /\ revived \subseteq Clients
         /\ kind \in {"lutron", "pentair"}
         /\ c = owner => owner # None /\ cl[c].late = 0 /\ (up => Going(cl[c]))
  BY KindsAssumption DEF IInv, TypeOK, AllCoherent, OwnerGoes, Clients, None

LEMMA OpensKeeps ==
  ASSUME IInv, NEW c \in Clients, Opens(c)
  PROVE  IInv'
  <1> DEFINE k == Connected(cl[c])
  <1>1. /\ up /\ cl[c].sock = "opening" /\ revived' = revived /\ Quiet /\ up' \in BOOLEAN
        /\ Change(c, IF WriteThrows THEN cl[c] ELSE k) /\ up' = ~WriteThrows
    BY DEF Opens
  <1>2. /\ cl[c] \in Client /\ Coherent(cl[c]) /\ revived \subseteq Clients
        /\ c = owner => cl[c].late = 0
    BY ClientOf
  <1>3. /\ k \in Client /\ k.sock = "open" /\ ~k.pending /\ k.st = "connected" /\ k.breaker = "closed"
        /\ k.timer = cl[c].timer /\ k.late = cl[c].late
    BY <1>2, ConnectedFields
  <1> HIDE DEF k
  <1>4. ~Rest(cl[c])
    BY <1>1 DEF Rest
  <1>5. CASE WriteThrows
    BY <1>1, <1>2, <1>4, <1>5, OneClientStep
  <1>6. CASE ~WriteThrows
    <2>1. Coherent(k)
      BY <1>1, <1>2, <1>3, ClientFields DEF Coherent
    <2>2. Going(k)
      BY <1>3 DEF Going
    <2>3. QED
      BY <2>1, <2>2, <1>1, <1>2, <1>3, <1>4, <1>6, OneClientStep
  <1>7. QED
    BY <1>5, <1>6

LEMMA FailsKeeps ==
  ASSUME IInv, NEW c \in Clients, Fails(c)
  PROVE  IInv'
  <1>1. PICK k : k = [cl[c] EXCEPT !.sock = "failed"]
    OBVIOUS
  <1>2. /\ up /\ cl[c].sock = "opening" /\ revived' = revived /\ Quiet /\ up' = up
        /\ \/ ErrorRejects(c) /\ Change(c, Rejected([k EXCEPT !.pending = FALSE]))
           \/ ~ErrorRejects(c) /\ Change(c, k)
    BY <1>1 DEF Fails
  <1>3. /\ cl[c] \in Client /\ Coherent(cl[c]) /\ revived \subseteq Clients
        /\ c = owner => cl[c].late = 0
        /\ kind \in {"lutron", "pentair"}
    BY ClientOf
  <1>4. /\ k \in Client /\ k.sock = "failed" /\ k.pending = cl[c].pending /\ k.st = cl[c].st
        /\ k.timer = cl[c].timer /\ k.late = cl[c].late /\ k.breaker = cl[c].breaker
        /\ k.failures = cl[c].failures
    BY <1>1, <1>3 DEF Client
  <1>5. ~Rest(cl[c]) /\ up' \in BOOLEAN
    BY <1>2 DEF Rest
  <1>6. CASE ~ErrorRejects(c)
    <2>1. Coherent(k)
      BY <1>2, <1>3, <1>4, ClientFields DEF Coherent
    <2>2. k.st = "reconnecting" /\ k.pending
      BY <1>2, <1>3, <1>4, <1>6 DEF Coherent, ErrorRejects
    <2>3. Going(k)
      BY <2>2, <1>3, <1>4 DEF Going, RetryHangs
    <2>4. QED
      BY <2>1, <2>3, <1>2, <1>3, <1>4, <1>5, <1>6, OneClientStep
  <1>7. CASE ErrorRejects(c)
    <2>1. PICK j : j = [k EXCEPT !.pending = FALSE]
      OBVIOUS
    <2>2. /\ j \in Client /\ j.sock = "failed" /\ ~j.pending /\ j.late = k.late
          /\ j.breaker = k.breaker /\ j.failures = k.failures
      BY <2>1, <1>4 DEF Client
    <2>3. PICK z : z = Rejected(j)
      OBVIOUS
    <2>4. /\ z \in Client /\ z.timer /\ z.sock = "failed" /\ ~z.pending /\ z.late = cl[c].late
          /\ z.st = "reconnecting" /\ z.failures = cl[c].failures + 1
          /\ z.breaker = "open" => cl[c].breaker = "open" \/ z.failures >= Threshold
      BY <2>2, <2>3, <1>4, RejectedFields
    <2>5. Coherent(z)
      BY <2>4, <1>2, <1>3, ClientFields, BreakerAssumption DEF Coherent
    <2>6. Going(z)
      BY <2>4 DEF Going
    <2>7. Change(c, z)
      BY <1>2, <1>7, <2>1, <2>3
    <2>8. QED
      BY <2>4, <2>5, <2>6, <2>7, <1>2, <1>3, <1>5, OneClientStep
  <1>8. QED
    BY <1>6, <1>7

LEMMA ConnectTimeoutKeeps ==
  ASSUME IInv, NEW c \in Clients, ConnectTimeout(c)
  PROVE  IInv'
  <1>1. PICK j : j = [cl[c] EXCEPT !.sock = "failed", !.pending = FALSE]
    OBVIOUS
  <1>2. PICK z : z = Rejected(j)
    OBVIOUS
  <1>3. /\ up /\ kind = "pentair" /\ cl[c].pending /\ revived' = revived /\ Quiet /\ up' = up
        /\ Change(c, z)
    BY <1>1, <1>2 DEF ConnectTimeout
  <1>4. /\ cl[c] \in Client /\ Coherent(cl[c]) /\ revived \subseteq Clients
        /\ c = owner => cl[c].late = 0
    BY ClientOf
  <1>5. /\ j \in Client /\ j.sock = "failed" /\ ~j.pending /\ j.late = cl[c].late
        /\ j.breaker = cl[c].breaker /\ j.failures = cl[c].failures
    BY <1>1, <1>4 DEF Client
  <1>6. /\ z \in Client /\ z.timer /\ z.sock = "failed" /\ ~z.pending /\ z.late = cl[c].late
        /\ z.st = "reconnecting" /\ z.failures = cl[c].failures + 1
        /\ z.breaker = "open" => cl[c].breaker = "open" \/ z.failures >= Threshold
    BY <1>2, <1>5, RejectedFields
  <1>7. Coherent(z)
    BY <1>3, <1>4, <1>6, ClientFields, BreakerAssumption DEF Coherent
  <1>8. Going(z) /\ ~Rest(cl[c]) /\ up' \in BOOLEAN
    BY <1>3, <1>6 DEF Going, Rest
  <1>9. QED
    BY <1>3, <1>4, <1>6, <1>7, <1>8, OneClientStep

LEMMA LateTimeoutKeeps ==
  ASSUME IInv, NEW c \in Clients, LateTimeout(c)
  PROVE  IInv'
  <1>1. PICK j : j = [cl[c] EXCEPT !.late = cl[c].late - 1]
    OBVIOUS
  <1>2. PICK z : z = Rejected(j)
    OBVIOUS
  <1>3. /\ up /\ cl[c].late > 0 /\ revived' = revived \cup {c} /\ Quiet /\ up' = up
        /\ Change(c, z)
    BY <1>1, <1>2 DEF LateTimeout
  <1>4. /\ cl[c] \in Client /\ Coherent(cl[c]) /\ revived \subseteq Clients
        /\ c = owner => cl[c].late = 0
        /\ kind \in {"lutron", "pentair"} /\ cl[c].late \in Nat
    BY ClientOf, ClientFields
  <1>5. kind = "pentair" /\ c # owner /\ cl[c].sock = "none" /\ ~cl[c].pending /\ ~cl[c].timer
    BY <1>3, <1>4 DEF Coherent
  <1>6. cl[c].late - 1 \in Nat
    BY <1>3, <1>4
  <1>7. /\ j \in Client /\ j.sock = "none" /\ ~j.pending
        /\ j.breaker = cl[c].breaker /\ j.failures = cl[c].failures
    BY <1>1, <1>4, <1>5, <1>6 DEF Client
  <1>8. /\ z \in Client /\ z.timer /\ z.sock = "none" /\ ~z.pending
        /\ z.st = "reconnecting" /\ z.failures = cl[c].failures + 1
        /\ z.breaker = "open" => cl[c].breaker = "open" \/ z.failures >= Threshold
    BY <1>2, <1>7, RejectedFields
  <1>9. z.late = 0
    <2>1. z.late = cl[c].late - 1
      BY <1>1, <1>2, <1>4, <1>7, RejectedFields DEF Client
    <2>2. cl[c].late = 1
      BY <1>3, <1>4 DEF Coherent
    <2>3. QED
      BY <2>1, <2>2
  <1>10. Coherent(z)
    BY <1>4, <1>5, <1>8, <1>9, ClientFields, BreakerAssumption DEF Coherent
  <1>11. up' \in BOOLEAN /\ revived' \subseteq Clients
    BY <1>3, <1>4
  <1>12. QED
    BY <1>3, <1>5, <1>8, <1>10, <1>11, OneClientStep

\* connect of a client that has no attempt under way: where it leads.
LEMMA ConnectGoes ==
  ASSUME IInv, NEW j \in Client, ~j.pending, ~j.timer, j.late = 0, j.sock # "opening",
         j.breaker = "open" => j.failures >= Threshold,
         IsOpen(j) => j.sock \in {"none", "failed"}
  PROVE  /\ Connect(j) \in Client /\ Coherent(Connect(j)) /\ Connect(j).late = 0
         /\ Going(Connect(j))
  <1>1. PICK d : d = Connect(j)
    OBVIOUS
  <1>2. CASE IsOpen(j)
    <2>1. /\ d \in Client /\ d.st = "error" /\ ~d.pending /\ ~d.timer /\ d.late = 0
          /\ d.sock = j.sock /\ d.breaker = "open" /\ d.failures >= Threshold
      BY <1>1, <1>2, ConnectFields, OpenBreaker DEF Client
    <2>2. Coherent(d) /\ Going(d)
      BY <2>1, <1>2 DEF Coherent, Going, BreakerStops
    <2>3. QED
      BY <2>1, <2>2, <1>1
  <1>3. CASE ~IsOpen(j)
    <2>1. /\ d \in Client /\ d.sock = "opening" /\ d.pending /\ ~d.timer /\ d.late = 0
          /\ d.st \in {"connecting", "reconnecting"} /\ d.breaker # "open"
      BY <1>1, <1>3, ConnectFields
    <2>2. Coherent(d) /\ Going(d)
      BY <2>1 DEF Coherent, Going
    <2>3. QED
      BY <2>1, <2>2, <1>1
  <1>4. QED
    BY <1>2, <1>3

LEMMA RetryTimerKeeps ==
  ASSUME IInv, NEW c \in Clients, RetryTimer(c)
  PROVE  IInv'
  <1>1. PICK j : j = [cl[c] EXCEPT !.timer = FALSE]
    OBVIOUS
  <1>2. /\ up /\ cl[c].timer /\ revived' = revived /\ Quiet
        /\ up' = (IsOpen(cl[c]) \/ ~Aborts(cl[c])) /\ Change(c, Connect(j))
    BY <1>1 DEF RetryTimer
  <1>3. cl[c] \in Client /\ Coherent(cl[c]) /\ revived \subseteq Clients
    BY ClientOf
  <1>4. cl[c].sock \in {"none", "failed"} /\ ~cl[c].pending /\ cl[c].late = 0
    BY <1>2, <1>3, ClientFields DEF Coherent
  <1>5. /\ j \in Client /\ ~j.timer /\ ~j.pending /\ j.late = 0 /\ j.sock \in {"none", "failed"}
        /\ j.breaker = cl[c].breaker /\ j.failures = cl[c].failures
    BY <1>1, <1>3, <1>4 DEF Client
  <1>6. j.breaker = "open" => j.failures >= Threshold
    BY <1>3, <1>5 DEF Coherent
  <1>7. /\ Connect(j) \in Client /\ Coherent(Connect(j)) /\ Connect(j).late = 0 /\ Going(Connect(j))
    BY <1>5, <1>6, ConnectGoes
  <1>8. ~Aborts(cl[c])
    BY <1>4 DEF Aborts
  <1>9. up' \in BOOLEAN /\ ~Rest(cl[c])
    BY <1>2, <1>8 DEF Rest
  <1>10. QED
    BY <1>2, <1>3, <1>7, <1>9, OneClientStep

LEMMA SocketClosesKeeps ==
  ASSUME IInv, NEW c \in Clients, SocketCloses(c)
  PROVE  IInv'
  <1>1. PICK j : j = [cl[c] EXCEPT !.st = "disconnected"]
    OBVIOUS
  <1>2. /\ up /\ cl[c].sock \in {"open", "silent"} /\ cl[c].st = "connected" /\ revived' = revived
        /\ Quiet /\ up' = up /\ Change(c, Connect(j))
    BY <1>1 DEF SocketCloses
  <1>3. cl[c] \in Client /\ Coherent(cl[c]) /\ revived \subseteq Clients
    BY ClientOf
  <1>4. ~cl[c].pending /\ cl[c].late = 0 /\ ~cl[c].timer /\ cl[c].breaker = "closed"
    BY <1>2, <1>3, ClientFields DEF Coherent
  <1>5. /\ j \in Client /\ ~j.timer /\ ~j.pending /\ j.late = 0 /\ j.sock # "opening" /\ j.breaker = "closed"
    BY <1>1, <1>2, <1>3, <1>4 DEF Client
  <1>6. ~IsOpen(j)
    BY <1>5, OpenBreaker
  <1>7. /\ Connect(j) \in Client /\ Coherent(Connect(j)) /\ Connect(j).late = 0 /\ Going(Connect(j))
    BY <1>5, <1>6, ConnectGoes
  <1>8. up' \in BOOLEAN /\ ~Rest(cl[c])
    BY <1>2 DEF Rest
  <1>9. QED
    BY <1>2, <1>3, <1>7, <1>8, OneClientStep

LEMMA GoesSilentKeeps ==
  ASSUME IInv, NEW c \in Clients, GoesSilent(c)
  PROVE  IInv'
  <1>1. PICK j : j = [cl[c] EXCEPT !.sock = "silent"]
    OBVIOUS
  <1>2. up /\ cl[c].sock = "open" /\ revived' = revived /\ Quiet /\ up' = up /\ Change(c, j)
    BY <1>1 DEF GoesSilent
  <1>3. cl[c] \in Client /\ Coherent(cl[c]) /\ revived \subseteq Clients
        /\ (c = owner => cl[c].late = 0)
    BY ClientOf
  <1>4. /\ j \in Client /\ j.sock = "silent" /\ j.st = cl[c].st /\ j.timer = cl[c].timer
        /\ j.pending = cl[c].pending /\ j.late = cl[c].late /\ j.breaker = cl[c].breaker
        /\ j.failures = cl[c].failures
    BY <1>1, <1>3 DEF Client
  <1>5. Coherent(j) /\ Going(j)
    BY <1>2, <1>3, <1>4 DEF Coherent, Going
  <1>6. up' \in BOOLEAN /\ ~Rest(cl[c])
    BY <1>2 DEF Rest
  <1>7. QED
    BY <1>2, <1>3, <1>4, <1>5, <1>6, OneClientStep

LEMMA StaleCheckKeeps ==
  ASSUME IInv, NEW c \in Clients, StaleCheck(c)
  PROVE  IInv'
  <1>1. PICK j : j = DestroySocket(cl[c])
    OBVIOUS
  <1>2. up /\ cl[c].sock = "silent" /\ revived' = revived /\ Quiet /\ up' = up /\ Change(c, j)
    BY <1>1 DEF StaleCheck
  <1>3. cl[c] \in Client /\ Coherent(cl[c]) /\ revived \subseteq Clients
    BY ClientOf
  <1>4. ~cl[c].pending /\ ~cl[c].timer /\ cl[c].st = "connected" /\ cl[c].late = 0
    BY <1>2, <1>3, ClientFields DEF Coherent
  <1>5. /\ j \in Client /\ j.sock = "none" /\ ~j.pending /\ j.late = 0 /\ j.st = "connected" /\ ~j.timer
        /\ j.breaker = cl[c].breaker /\ j.failures = cl[c].failures
    BY <1>1, <1>3, <1>4, DestroyFields
  <1>6. Coherent(j) /\ Going(j)
    BY <1>3, <1>4, <1>5 DEF Coherent, Going, StaleKills
  <1>7. up' \in BOOLEAN /\ ~Rest(cl[c])
    BY <1>2 DEF Rest
  <1>8. QED
    BY <1>2, <1>3, <1>5, <1>6, <1>7, OneClientStep

-----------------------------------------------------------------------------
(* Steps of the calls.                                                     *)

\* The next call makes a client that there is room for.
LEMMA Room ==
  ASSUME TypeOK, OneEach, NEW p \in Calls, pc[p] \notin {"waiting", "done"}
  PROVE  /\ made + 1 \in Clients /\ IsFiniteSet(Past)
         /\ Cardinality(Past \cup {p}) = Cardinality(Past) + 1
  <1>1. MaxRestarts \in Nat /\ Calls = 0 .. MaxRestarts
    BY RestartsAssumption DEF Calls
  <1>2. IsFiniteSet(Calls) /\ Cardinality(Calls) = MaxRestarts + 1
    BY <1>1, FS_Interval
  <1>3. Past \cup {p} \subseteq Calls /\ p \notin Past
    BY DEF Past
  <1>4. IsFiniteSet(Past) /\ IsFiniteSet(Past \cup {p})
    BY <1>2, <1>3, FS_Subset
  <1>5. Cardinality(Past \cup {p}) = Cardinality(Past) + 1 /\ Cardinality(Past) \in Nat
    BY <1>3, <1>4, FS_AddElement, FS_CardinalityType
  <1>6. Cardinality(Past \cup {p}) <= MaxRestarts + 1
    BY <1>2, <1>3, FS_Subset
  <1>7. made \in 0 .. MaxRestarts + 1 /\ made <= Cardinality(Past)
    BY DEF TypeOK, OneEach
  <1>8. QED
    BY <1>1, <1>4, <1>5, <1>6, <1>7 DEF Clients

LEMMA PcTypes ==
  ASSUME TypeOK, NEW p \in Calls, NEW x \in {"idle", "saved", "asked", "read", "waiting", "done"},
         pc' = [pc EXCEPT ![p] = x]
  PROVE  /\ pc' \in [Calls -> {"idle", "saved", "asked", "read", "waiting", "done"}]
         /\ \A q \in Calls : pc'[q] = IF q = p THEN x ELSE pc[q]
  BY DEF TypeOK

\* A call's step that leaves the clients alone.
LEMMA CallStep ==
  ASSUME IInv, UNCHANGED <<kind, up, cl, made, owner, mine, overlap, revived>>,
         enabled' \in BOOLEAN, seen' \in [Calls -> BOOLEAN],
         pc' \in [Calls -> {"idle", "saved", "asked", "read", "waiting", "done"}],
         Past \subseteq Past', Asked' \subseteq Asked
  PROVE  TypeOK' /\ OneEach' /\ OneAtATime' /\ AllCoherent' /\ OthersRest' /\ OwnerGoes'
  <1>1. TypeOK'
    BY DEF IInv, TypeOK
  <1>2. OneEach'
    <2>1. IsFiniteSet(Past')
      <3>1. MaxRestarts \in Nat /\ Calls = 0 .. MaxRestarts
        BY RestartsAssumption DEF Calls
      <3>2. IsFiniteSet(Calls)
        BY <3>1, FS_Interval
      <3>3. Past' \subseteq Calls
        BY DEF Past
      <3>4. QED
        BY <3>2, <3>3, FS_Subset
    <2>2. Cardinality(Past) <= Cardinality(Past') /\ Cardinality(Past) \in Nat /\ Cardinality(Past') \in Nat
      BY <2>1, FS_Subset, FS_CardinalityType
    <2>3. made \in Nat /\ made <= Cardinality(Past)
      BY RestartsAssumption DEF IInv, TypeOK, OneEach
    <2>4. Cardinality(Past') = Cardinality(Past)'
      OBVIOUS
    <2>5. QED
      BY <2>2, <2>3, <2>4 DEF OneEach
  <1>3. OneAtATime'
    BY DEF IInv, OneAtATime
  <1>4. AllCoherent' /\ OthersRest' /\ OwnerGoes'
    BY DEF IInv, AllCoherent, Coherent, OthersRest, Rest, OwnerGoes, Going, BreakerStops, RetryHangs, StaleKills
  <1>5. QED
    BY <1>1, <1>2, <1>3, <1>4

LEMMA SaveKeeps ==
  ASSUME IInv, NEW p \in Calls, NEW e \in BOOLEAN, Save(p, e)
  PROVE  IInv'
  <1>1. /\ pc[p] = "idle" /\ pc' = [pc EXCEPT ![p] = "saved"] /\ enabled' \in BOOLEAN
        /\ UNCHANGED <<kind, up, cl, made, owner, seen, mine, overlap, revived>>
    BY DEF Save
  <1>2. TypeOK
    BY DEF IInv
  <1>3. /\ pc' \in [Calls -> {"idle", "saved", "asked", "read", "waiting", "done"}]
        /\ \A q \in Calls : pc'[q] = IF q = p THEN "saved" ELSE pc[q]
    BY <1>1, <1>2, PcTypes
  <1>4. Past \subseteq Past' /\ Asked' \subseteq Asked
    BY <1>1, <1>3 DEF Past, Asked
  <1>5. TypeOK' /\ OneEach' /\ OneAtATime' /\ AllCoherent' /\ OthersRest' /\ OwnerGoes'
    <2>1. seen' \in [Calls -> BOOLEAN]
      BY <1>1, <1>2 DEF TypeOK
    <2>2. QED
      BY <2>1, <1>1, <1>3, <1>4, CallStep
  <1>6. ReadsTheRow' /\ OwnerFollowsRow'
    BY <1>3 DEF ReadsTheRow, OwnerFollowsRow
  <1>7. QED
    BY <1>5, <1>6 DEF IInv

LEMMA GetEntriesKeeps ==
  ASSUME IInv, NEW p \in Calls, GetEntries(p)
  PROVE  IInv'
  <1>1. /\ pc[p] = "asked" /\ pc' = [pc EXCEPT ![p] = "read"] /\ seen' = [seen EXCEPT ![p] = enabled]
        /\ UNCHANGED <<kind, up, enabled, cl, made, owner, mine, overlap, revived>>
    BY DEF GetEntries
  <1>2. TypeOK
    BY DEF IInv
  <1>3. /\ pc' \in [Calls -> {"idle", "saved", "asked", "read", "waiting", "done"}]
        /\ \A q \in Calls : pc'[q] = IF q = p THEN "read" ELSE pc[q]
    BY <1>1, <1>2, PcTypes
  <1>4. Past \subseteq Past' /\ Asked' \subseteq Asked
    BY <1>1, <1>3 DEF Past, Asked
  <1>5. /\ seen' \in [Calls -> BOOLEAN] /\ enabled' \in BOOLEAN
        /\ \A q \in Calls : seen'[q] = IF q = p THEN enabled ELSE seen[q]
    BY <1>1, <1>2 DEF TypeOK
  <1>6. TypeOK' /\ OneEach' /\ OneAtATime' /\ AllCoherent' /\ OthersRest' /\ OwnerGoes'
    BY <1>1, <1>3, <1>4, <1>5, CallStep
  <1>7. ReadsTheRow'
    BY <1>1, <1>3, <1>5 DEF IInv, ReadsTheRow
  <1>8. OwnerFollowsRow'
    BY <1>3 DEF OwnerFollowsRow
  <1>9. QED
    BY <1>6, <1>7, <1>8 DEF IInv

LEMMA ReturnsKeeps ==
  ASSUME IInv, NEW p \in Calls, Returns(p)
  PROVE  IInv'
  <1>1. /\ pc[p] = "waiting" /\ pc' = [pc EXCEPT ![p] = "done"]
        /\ UNCHANGED <<kind, up, enabled, cl, made, owner, seen, mine, overlap, revived>>
    BY DEF Returns
  <1>2. TypeOK
    BY DEF IInv
  <1>3. /\ pc' \in [Calls -> {"idle", "saved", "asked", "read", "waiting", "done"}]
        /\ \A q \in Calls : pc'[q] = IF q = p THEN "done" ELSE pc[q]
    BY <1>1, <1>2, PcTypes
  <1>4. Past \subseteq Past' /\ Asked' \subseteq Asked
    BY <1>1, <1>3 DEF Past, Asked
  <1>5. seen' \in [Calls -> BOOLEAN] /\ enabled' \in BOOLEAN
    BY <1>1, <1>2 DEF TypeOK
  <1>6. TypeOK' /\ OneEach' /\ OneAtATime' /\ AllCoherent' /\ OthersRest' /\ OwnerGoes'
    BY <1>1, <1>3, <1>4, <1>5, CallStep
  <1>7. ReadsTheRow'
    BY <1>1, <1>3 DEF IInv, ReadsTheRow
  <1>8. OwnerFollowsRow'
    BY <1>1, <1>3 DEF IInv, OwnerFollowsRow
  <1>9. QED
    BY <1>6, <1>7, <1>8 DEF IInv

LEMMA StartNothingKeeps ==
  ASSUME IInv, NEW p \in Calls, StartNothing(p)
  PROVE  IInv'
  <1>1. /\ pc[p] = "read" /\ ~seen[p] /\ pc' = [pc EXCEPT ![p] = "done"]
        /\ UNCHANGED <<kind, up, enabled, cl, made, owner, seen, mine, overlap, revived>>
    BY DEF StartNothing, EnabledEntry
  <1>2. TypeOK
    BY DEF IInv
  <1>3. /\ pc' \in [Calls -> {"idle", "saved", "asked", "read", "waiting", "done"}]
        /\ \A q \in Calls : pc'[q] = IF q = p THEN "done" ELSE pc[q]
    BY <1>1, <1>2, PcTypes
  <1>4. Past \subseteq Past' /\ Asked' \subseteq Asked
    BY <1>1, <1>3 DEF Past, Asked
  <1>5. seen' \in [Calls -> BOOLEAN] /\ enabled' \in BOOLEAN
    BY <1>1, <1>2 DEF TypeOK
  <1>6. TypeOK' /\ OneEach' /\ OneAtATime' /\ AllCoherent' /\ OthersRest' /\ OwnerGoes'
    BY <1>1, <1>3, <1>4, <1>5, CallStep
  <1>7. ReadsTheRow'
    BY <1>1, <1>3 DEF IInv, ReadsTheRow
  <1>8. OwnerFollowsRow'
    <2>1. SUFFICES ASSUME up, ~overlap, \A q \in Calls : pc'[q] \in {"idle", "waiting", "done"}
                   PROVE  (owner # None) = enabled
      BY <1>1 DEF OwnerFollowsRow
    <2>2. owner = None
      BY <2>1, <1>1 DEF IInv, OneAtATime, Asked
    <2>3. \A q \in Calls : pc[q] # "saved"
      BY <2>1, <1>1, <1>3
    <2>4. seen[p] = enabled
      BY <2>1, <2>3, <1>1 DEF IInv, ReadsTheRow
    <2>5. enabled \in BOOLEAN
      BY <1>2 DEF TypeOK
    <2>6. enabled = FALSE
      BY <2>4, <2>5, <1>1
    <2>7. QED
      BY <2>2, <2>6
  <1>9. QED
    BY <1>6, <1>7, <1>8 DEF IInv

LEMMA StartClientKeeps ==
  ASSUME IInv, NEW p \in Calls, StartClient(p)
  PROVE  IInv'
  <1>1. PICK c, k : c = made + 1 /\ k = Connect(Fresh)
    OBVIOUS
  <1>2. /\ up /\ pc[p] = "read" /\ seen[p] /\ pc' = [pc EXCEPT ![p] = "waiting"]
        /\ mine' = [mine EXCEPT ![p] = c] /\ made' = c /\ owner' = c /\ cl' = [cl EXCEPT ![c] = k]
        /\ UNCHANGED <<kind, up, enabled, seen, overlap, revived>>
    BY <1>1 DEF StartClient, EnabledEntry, Change
  <1>3. TypeOK /\ OneEach
    BY DEF IInv
  <1>4. /\ pc' \in [Calls -> {"idle", "saved", "asked", "read", "waiting", "done"}]
        /\ \A q \in Calls : pc'[q] = IF q = p THEN "waiting" ELSE pc[q]
    BY <1>2, <1>3, PcTypes
  <1>5. c \in Clients /\ IsFiniteSet(Past) /\ Cardinality(Past \cup {p}) = Cardinality(Past) + 1
    BY <1>1, <1>2, <1>3, Room
  <1>6. Past' = Past \cup {p} /\ Asked' = Asked \ {p}
    BY <1>2, <1>4 DEF Past, Asked
  <1>7. made \in Nat /\ c \in 0 .. MaxRestarts + 1 /\ c \in 0 .. c /\ c # None
    BY <1>1, <1>3, <1>5, RestartsAssumption DEF TypeOK, Clients, None
  <1>8. k \in Client /\ Coherent(k) /\ k.late = 0 /\ Going(k)
    <2>1. Fresh.breaker # "open" /\ ~IsOpen(Fresh)
      BY FreshFields, OpenBreaker
    <2>2. QED
      BY <2>1, <1>1, FreshFields, ConnectGoes
  <1>9. \A d \in Clients : cl'[d] = IF d = c THEN k ELSE cl[d]
    BY <1>2, <1>3 DEF TypeOK
  <1>10. TypeOK'
    <2>1. cl' \in [Clients -> Client]
      BY <1>2, <1>3, <1>8 DEF TypeOK
    <2>2. mine' \in [Calls -> 0 .. c]
      <3>1. 0 .. made \subseteq 0 .. c
        BY <1>1, <1>7
      <3>2. mine \in [Calls -> 0 .. c]
        BY <3>1, <1>3 DEF TypeOK
      <3>3. QED
        BY <3>2, <1>2, <1>7
    <2>3. QED
      BY <2>1, <2>2, <1>2, <1>3, <1>4, <1>7 DEF TypeOK
  <1>11. OneEach'
    <2>1. Cardinality(Past)' = Cardinality(Past) + 1 /\ Cardinality(Past) \in Nat
      BY <1>5, <1>6, FS_CardinalityType
    <2>2. QED
      BY <2>1, <1>1, <1>2, <1>3, <1>7 DEF OneEach
  <1>12. OneAtATime'
    <2>1. ~overlap => Asked' = {}
      BY <1>2, <1>6 DEF IInv, OneAtATime, Asked
    <2>2. QED
      BY <2>1, <1>2 DEF OneAtATime
  <1>13. AllCoherent'
    <2>1. SUFFICES ASSUME NEW d \in Clients PROVE Coherent(cl[d])'
      BY DEF AllCoherent
    <2>2. Coherent(cl'[d])
      BY <1>8, <1>9 DEF IInv, AllCoherent
    <2>3. QED
      BY <2>2, <1>2 DEF Coherent
  <1>14. OthersRest'
    <2>1. SUFFICES ASSUME NEW d \in Clients, d # c, ~overlap
                   PROVE  Rest(cl'[d]) \/ (kind = "pentair" /\ d \in revived)
      BY <1>2 DEF OthersRest, Rest
    <2>2. owner = None
      BY <2>1, <1>2 DEF IInv, OneAtATime, Asked
    <2>3. d # owner
      BY <2>2 DEF Clients, None
    <2>4. QED
      BY <2>1, <2>3, <1>9 DEF IInv, OthersRest
  <1>15. OwnerGoes'
    BY <1>2, <1>5, <1>8, <1>9 DEF OwnerGoes, Going, BreakerStops, RetryHangs, StaleKills
  <1>16. ReadsTheRow'
    BY <1>2, <1>4 DEF IInv, ReadsTheRow
  <1>17. OwnerFollowsRow'
    <2>1. SUFFICES ASSUME ~overlap, \A q \in Calls : pc'[q] \in {"idle", "waiting", "done"}
                   PROVE  enabled = TRUE
      BY <1>2, <1>7 DEF OwnerFollowsRow
    <2>2. \A q \in Calls : pc[q] # "saved"
      BY <2>1, <1>2, <1>4
    <2>3. seen[p] = enabled
      BY <2>1, <2>2, <1>2 DEF IInv, ReadsTheRow
    <2>4. enabled \in BOOLEAN
      BY <1>3 DEF TypeOK
    <2>5. QED
      BY <2>3, <2>4, <1>2
  <1>18. QED
    BY <1>10, <1>11, <1>12, <1>13, <1>14, <1>15, <1>16, <1>17 DEF IInv

LEMMA StopKeeps ==
  ASSUME IInv, NEW p \in Calls, Stop(p)
  PROVE  IInv'
  <1>1. /\ up /\ pc[p] = "saved" /\ pc' = [pc EXCEPT ![p] = "asked"] /\ owner' = None
        /\ overlap' = (overlap \/ Asked # {})
        /\ IF owner = None THEN UNCHANGED <<cl, up>>
           ELSE Change(owner, Disconnected(cl[owner])) /\ up' = ~Aborts(cl[owner])
        /\ UNCHANGED <<kind, enabled, made, seen, mine, revived>>
    BY DEF Stop, Asked
  <1>2. TypeOK
    BY DEF IInv
  <1>3. /\ pc' \in [Calls -> {"idle", "saved", "asked", "read", "waiting", "done"}]
        /\ \A q \in Calls : pc'[q] = IF q = p THEN "asked" ELSE pc[q]
    BY <1>1, <1>2, PcTypes
  <1>4. Past' = Past /\ Asked' = Asked \cup {p}
    BY <1>1, <1>3 DEF Past, Asked
  <1>5. /\ cl' \in [Clients -> Client] /\ up' \in BOOLEAN
        /\ \A c \in Clients : Coherent(cl'[c])
        /\ \A c \in Clients : IF c = owner THEN Rest(cl'[c]) ELSE cl'[c] = cl[c]
    <2>1. CASE owner = None
      <3>1. \A c \in Clients : c # owner
        BY <2>1 DEF Clients, None
      <3>2. QED
        BY <2>1, <3>1, <1>1, <1>2 DEF IInv, AllCoherent, TypeOK
    <2>2. CASE owner # None
      <3>1. owner \in Clients
        BY <2>2, <1>2, RestartsAssumption DEF TypeOK, Clients, None
      <3>2. PICK k : k = Disconnected(cl[owner])
        OBVIOUS
      <3>3. /\ cl[owner] \in Client /\ Coherent(cl[owner]) /\ cl[owner].late = 0
            /\ kind \in {"lutron", "pentair"}
        BY <3>1, ClientOf
      <3>4. /\ k \in Client /\ k.sock = "none" /\ ~k.pending /\ ~k.timer /\ k.st = "disconnected"
            /\ k.late = (IF cl[owner].pending /\ kind = "pentair" THEN 1 ELSE 0)
            /\ k.breaker = cl[owner].breaker /\ k.failures = cl[owner].failures
        BY <3>2, <3>3, DisconnectedFields
      <3>5. Coherent(k) /\ Rest(k)
        BY <3>3, <3>4 DEF Coherent, Rest
      <3>6. cl' = [cl EXCEPT ![owner] = k] /\ up' \in BOOLEAN
        BY <3>2, <2>2, <1>1 DEF Change, Aborts
      <3>7. QED
        BY <3>1, <3>4, <3>5, <3>6, <1>2 DEF IInv, AllCoherent, TypeOK
    <2>3. QED
      BY <2>1, <2>2
  <1>6. TypeOK'
    <2>1. owner' \in 0 .. made /\ overlap' \in BOOLEAN
      BY <1>1, <1>2, RestartsAssumption DEF TypeOK, None
    <2>2. QED
      BY <2>1, <1>1, <1>2, <1>3, <1>5 DEF TypeOK
  <1>7. OneEach'
    BY <1>1, <1>4 DEF IInv, OneEach
  <1>8. OneAtATime'
    BY <1>1, <1>4 DEF OneAtATime
  <1>9. AllCoherent'
    BY <1>1, <1>5 DEF AllCoherent, Coherent
  <1>10. OthersRest'
    <2>1. SUFFICES ASSUME NEW c \in Clients, ~overlap
                   PROVE  Rest(cl'[c]) \/ (kind = "pentair" /\ c \in revived)
      BY <1>1 DEF OthersRest, Rest
    <2>2. CASE c = owner
      BY <2>2, <1>5
    <2>3. CASE c # owner
      BY <2>1, <2>3, <1>5 DEF IInv, OthersRest
    <2>4. QED
      BY <2>2, <2>3
  <1>11. OwnerGoes'
    BY <1>1 DEF OwnerGoes
  <1>12. ReadsTheRow'
    BY <1>1, <1>3 DEF ReadsTheRow, Asked
  <1>13. OwnerFollowsRow'
    BY <1>3 DEF OwnerFollowsRow
  <1>14. QED
    BY <1>6, <1>7, <1>8, <1>9, <1>10, <1>11, <1>12, <1>13 DEF IInv

-----------------------------------------------------------------------------
(* The invariant holds.                                                    *)

LEMMA InitIInv == Init => IInv
  <1>1. SUFFICES ASSUME Init PROVE IInv
    OBVIOUS
  <1>2. \A c \in Clients : cl[c] = Fresh
    BY <1>1 DEF Init
  <1>3. 0 \in 0 .. MaxRestarts + 1 /\ 0 \in 0 .. 0 /\ 0 \in Calls
    BY RestartsAssumption DEF Calls
  <1>4. \A p \in Calls : pc[p] = IF p = 0 THEN "asked" ELSE "idle"
    BY <1>1 DEF Init
  <1>5. TypeOK
    <2>1. cl \in [Clients -> Client]
      BY <1>1, FreshFields DEF Init
    <2>2. QED
      BY <2>1, <1>1, <1>3 DEF Init, TypeOK, None
  <1>6. OneEach
    <2>1. Past = {} /\ made = 0
      BY <1>1, <1>4 DEF Init, Past
    <2>2. QED
      BY <2>1, FS_EmptySet DEF OneEach
  <1>7. OneAtATime
    BY <1>1, <1>4 DEF Init, OneAtATime, Asked
  <1>8. AllCoherent /\ OthersRest
    BY <1>2, FreshFields DEF AllCoherent, Coherent, OthersRest, Rest
  <1>9. OwnerGoes
    BY <1>1 DEF Init, OwnerGoes
  <1>10. ReadsTheRow /\ OwnerFollowsRow
    BY <1>3, <1>4 DEF ReadsTheRow, OwnerFollowsRow
  <1>11. QED
    BY <1>5, <1>6, <1>7, <1>8, <1>9, <1>10 DEF IInv

LEMMA StutterKeeps == IInv /\ UNCHANGED vars => IInv'
  BY DEF vars, call, IInv, TypeOK, OneEach, Past, OneAtATime, Asked, AllCoherent, Coherent, OthersRest,
         Rest, OwnerGoes, Going, BreakerStops, RetryHangs, StaleKills, ReadsTheRow, OwnerFollowsRow

LEMMA NextIInv == IInv /\ [Next]_vars => IInv'
  <1>1. SUFFICES ASSUME IInv, [Next]_vars PROVE IInv'
    OBVIOUS
  <1>2. ASSUME NEW c \in Clients, Attempt(c) PROVE IInv'
    BY <1>1, <1>2, OpensKeeps, FailsKeeps, ConnectTimeoutKeeps, LateTimeoutKeeps, RetryTimerKeeps DEF Attempt
  <1>3. ASSUME NEW c \in Clients, Line(c) PROVE IInv'
    BY <1>1, <1>3, SocketClosesKeeps, GoesSilentKeeps, StaleCheckKeeps DEF Line
  <1>4. ASSUME NEW p \in Calls, NEW e \in BOOLEAN, Save(p, e) PROVE IInv'
    BY <1>1, <1>4, SaveKeeps
  <1>5. ASSUME NEW p \in Calls, Stop(p) PROVE IInv'
    BY <1>1, <1>5, StopKeeps
  <1>6. ASSUME NEW p \in Calls, Start(p) PROVE IInv'
    BY <1>1, <1>6, GetEntriesKeeps, StartClientKeeps, StartNothingKeeps, ReturnsKeeps DEF Start
  <1>7. CASE UNCHANGED vars
    BY <1>1, <1>7, StutterKeeps
  <1>8. QED
    BY <1>1, <1>2, <1>3, <1>4, <1>5, <1>6, <1>7 DEF Next

LEMMA Invariance == Spec => []IInv
  BY InitIInv, NextIInv, PTL DEF Spec

-----------------------------------------------------------------------------
\* Every variable keeps its type; a call makes one client at most, so there is always
\* room for the next (start).
THEOREM TypeCorrect == Spec => []TypeOK
  <1>1. IInv => TypeOK
    BY DEF IInv
  <1>2. QED
    BY <1>1, Invariance, PTL

\* Whatever the number of restarts and the breaker's numbers, a connection is left behind
\* only by calls that cross or by an attempt's late timeout (restart, stop, disconnect).
THEOREM RestartsLeaveNothing == Spec => []NothingLeftBehind
  <1>1. IInv => NothingLeftBehind
    <2>1. SUFFICES ASSUME IInv, NEW c \in Clients, Live(c), c # owner
                   PROVE  overlap \/ (kind = "pentair" /\ c \in revived)
      BY DEF NothingLeftBehind
    <2>2. ~Rest(cl[c])
      BY <2>1 DEF Live, Rest
    <2>3. QED
      BY <2>1, <2>2 DEF IInv, OthersRest
  <1>2. QED
    BY <1>1, Invariance, PTL

\* Restarts that do not cross leave a client exactly if the row is enabled (restart).
THEOREM LastEditWins == Spec => []OwnerFollowsRow
  <1>1. IInv => OwnerFollowsRow
    BY DEF IInv
  <1>2. QED
    BY <1>1, Invariance, PTL

\* The owner stops trying in the three named states only, for every threshold, cooldown
\* and backoff: no other loss of a timer, a promise or a listener strands it (connect).
THEOREM ThreeDeadEnds == Spec => []IdleOnlyAtDeadEnds
  <1>1. IInv => IdleOnlyAtDeadEnds
    BY DEF IInv, OwnerGoes, Going, IdleOnlyAtDeadEnds
  <1>2. QED
    BY <1>1, Invariance, PTL
=============================================================================
