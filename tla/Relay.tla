------------------------------- MODULE Relay -------------------------------
(***************************************************************************)
(* What remote access promises of one HTTP request, whatever happens to    *)
(* the tunnel: it is refused at once, or it is asked and then answered at  *)
(* most once; the home executes it at most once, and never when it was     *)
(* refused; an answer with a body comes from an execution.  A failure may  *)
(* be reported for a request that was, or still will be, executed.         *)
(***************************************************************************)
EXTENDS Naturals

CONSTANT Requests

VARIABLES
  status,     \* "idle", "refused", "waiting", "answered" or "failed"
  executed    \* how often the home has started to execute the request

vars == <<status, executed>>

Init ==
  /\ status = [r \in Requests |-> "idle"]
  /\ executed = [r \in Requests |-> 0]

Refuse(r) ==
  /\ status[r] = "idle"
  /\ status' = [status EXCEPT ![r] = "refused"]
  /\ UNCHANGED executed

Ask(r) ==
  /\ status[r] = "idle"
  /\ status' = [status EXCEPT ![r] = "waiting"]
  /\ UNCHANGED executed

\* The home may still execute a request that was given up.
Execute(r) ==
  /\ status[r] \in {"waiting", "failed"}
  /\ executed[r] = 0
  /\ executed' = [executed EXCEPT ![r] = 1]
  /\ UNCHANGED status

Answer(r) ==
  /\ status[r] = "waiting"
  /\ executed[r] = 1
  /\ status' = [status EXCEPT ![r] = "answered"]
  /\ UNCHANGED executed

\* A lost tunnel fails every request that waits, in one step.
Fail(R) ==
  /\ R # {}
  /\ \A r \in R : status[r] = "waiting"
  /\ status' = [r \in Requests |-> IF r \in R THEN "failed" ELSE status[r]]
  /\ UNCHANGED executed

Next ==
  \/ \E r \in Requests : Refuse(r) \/ Ask(r) \/ Execute(r) \/ Answer(r)
  \/ \E R \in SUBSET Requests : Fail(R)

Spec == Init /\ [][Next]_vars
=============================================================================
