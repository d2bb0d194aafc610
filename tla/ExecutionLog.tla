---------------------------- MODULE ExecutionLog ----------------------------
(***************************************************************************)
(* The log of automation runs: what the engine writes about a run, the     *)
(* writer that collects entries in a buffer and inserts them in batches,   *)
(* and the table automation_execution_log they reach, if they reach it.    *)
(*                                                                         *)
(* Every flush is an INSERT on a connection of its own, so batches that    *)
(* are under way together reach the table in either order.  Rows carry a   *)
(* foreign key to the automation, and ON CONFLICT DO UPDATE accepts each   *)
(* run at most once in a statement: PostgreSQL refuses a whole batch that  *)
(* breaks either rule, and the writer drops a batch that was refused.      *)
(*                                                                         *)
(* A flush by the timer is an action of its own, so a run may be shorter   *)
(* or longer than the two seconds between flushes.  Which rows are old     *)
(* enough for the hourly cleanup is left open: the retention is a setting. *)
(***************************************************************************)
EXTENDS Naturals, FiniteSets, Sequences

CONSTANTS
  Run,          \* the runs of automations that may happen
  Automation,   \* the automations
  Owner,        \* [Run -> Automation]: whose run it is
  MaxBuffer     \* MAX_BUFFER_SIZE, 50 in the code

ASSUME OwnerAssumption == Owner \in [Run -> Automation]
ASSUME BufferAssumption == MaxBuffer \in Nat \ {0}

VARIABLES
  phase,    \* of each run: "new", "open" (written as running), "closed", "gone" with its process
  writer,   \* "on" from start to stop, "off" after stop, "down" while no process runs
  buffer,   \* this.buffer: entries [run, status], oldest first
  sent,     \* the batches whose INSERT is under way
  row,      \* status of each run's row: "none", "running", "ended"
  alive,    \* the automations that are in table automations
  \* history, read by no guard
  lost,     \* entries of refused or failed batches
  dropped,  \* entries that were in the buffer when the process exited
  outage,   \* some INSERT failed for a reason of the database's own
  together, \* runs that had two batches under way at the same time
  purged    \* runs whose row the cleanup has deleted

process == <<phase, writer, buffer>>
history == <<lost, dropped, outage, together, purged>>
vars == <<phase, writer, buffer, sent, row, alive, lost, dropped, outage, together, purged>>

Entry == [run : Run, status : {"running", "ended"}]
Entries(b) == {b[i] : i \in DOMAIN b}
RunsOf(b) == {e.run : e \in Entries(b)}

Init ==
  /\ phase = [r \in Run |-> "new"] /\ writer = "on" /\ buffer = <<>>
  /\ sent = {} /\ row = [r \in Run |-> "none"] /\ alive = Automation
  /\ lost = {} /\ dropped = {} /\ outage = FALSE /\ together = {} /\ purged = {}
-----------------------------------------------------------------------------
\* flush takes the whole buffer and sends it as one INSERT.
Flush(b) ==
  /\ buffer' = <<>>
  /\ sent' = sent \cup {b}
  /\ together' = together \cup {r \in RunsOf(b) : \E c \in sent : r \in RunsOf(c)}

WriteLate(e) ==  \* mutant
  LET b == Append(buffer, e) IN
  \/ Len(b) <= MaxBuffer /\ buffer' = b /\ UNCHANGED <<sent, together>>
  \/ Len(b) > MaxBuffer /\ Flush(b)

\* write: a full buffer is flushed at once, by a stopped writer too.
Write(e) ==
  LET b == Append(buffer, e) IN
  \/ Len(b) < MaxBuffer /\ buffer' = b /\ UNCHANGED <<sent, together>>
  \/ Len(b) >= MaxBuffer /\ Flush(b)

\* execute writes the run as running before its conditions are looked at ...
Begin(r) ==
  /\ writer # "down" /\ phase[r] = "new"
  /\ phase' = [phase EXCEPT ![r] = "open"]
  /\ Write([run |-> r, status |-> "running"])
  /\ UNCHANGED <<writer, row, alive, lost, dropped, outage, purged>>

\* ... and with its outcome in its finally block, after stop too, ...
Finish(r) ==
  /\ writer # "down" /\ phase[r] = "open"
  /\ phase' = [phase EXCEPT ![r] = "closed"]
  /\ Write([run |-> r, status |-> "ended"])
  /\ UNCHANGED <<writer, row, alive, lost, dropped, outage, purged>>

\* ... or only once, when its signal was aborted before it started.
AbortedAtStart(r) ==
  /\ writer # "down" /\ phase[r] = "new"
  /\ phase' = [phase EXCEPT ![r] = "closed"]
  /\ Write([run |-> r, status |-> "ended"])
  /\ UNCHANGED <<writer, row, alive, lost, dropped, outage, purged>>

\* The interval of start.
FlushTick ==
  /\ writer = "on" /\ buffer # <<>>
  /\ Flush(buffer)
  /\ UNCHANGED <<phase, writer, row, alive, lost, dropped, outage, purged>>

NoFlush == UNCHANGED <<buffer, sent, together>>  \* mutant
StopFlush == IF buffer = <<>> THEN UNCHANGED <<buffer, sent, together>> ELSE Flush(buffer)

\* stop: the intervals are cleared and what is there is flushed.
Stop ==
  /\ writer = "on"
  /\ writer' = "off"
  /\ StopFlush
  /\ UNCHANGED <<phase, row, alive, lost, dropped, outage, purged>>
-----------------------------------------------------------------------------
\* The table refuses two entries of a run in one statement, and a row without its automation.
RefusesConflict(b) ==  \* mutant
  \/ \E i, j \in DOMAIN b : i # j /\ b[i].run = b[j].run
  \/ \E r \in RunsOf(b) : Owner[r] \notin alive \/ row[r] # "none"
Refuses(b) ==
  \/ \E i, j \in DOMAIN b : i # j /\ b[i].run = b[j].run
  \/ \E r \in RunsOf(b) : Owner[r] \notin alive

StatusIn(b, r) == (CHOOSE e \in Entries(b) : e.run = r).status

DoNothing(b) ==  \* mutant
  [r \in Run |-> IF r \in RunsOf(b) /\ row[r] = "none" THEN StatusIn(b, r) ELSE row[r]]

\* ON CONFLICT (id) DO UPDATE: the row takes the status of the entry that comes last.
Upsert(b) == [r \in Run |-> IF r \in RunsOf(b) THEN StatusIn(b, r) ELSE row[r]]

Inserted(b) ==
  /\ b \in sent /\ ~Refuses(b)
  /\ sent' = sent \ {b} /\ row' = Upsert(b)
  /\ UNCHANGED <<process, alive, history>>

\* The catch block of flush logs and forgets the batch.
Refused(b) ==
  /\ b \in sent /\ Refuses(b)
  /\ sent' = sent \ {b} /\ lost' = lost \cup Entries(b)
  /\ UNCHANGED <<process, row, alive, dropped, outage, together, purged>>

\* The same when no connection is to be had, the statement deadlocks, or the database is away.
Failed(b) ==
  /\ b \in sent
  /\ sent' = sent \ {b} /\ lost' = lost \cup Entries(b) /\ outage' = TRUE
  /\ UNCHANGED <<process, row, alive, dropped, together, purged>>

\* cleanup deletes the rows that are older than the retention, whatever their status.
Cleanup(R) ==
  /\ writer # "down"
  /\ R # {} /\ \A r \in R : row[r] # "none"
  /\ row' = [r \in Run |-> IF r \in R THEN "none" ELSE row[r]]
  /\ purged' = purged \cup R
  /\ UNCHANGED <<process, sent, alive, lost, dropped, outage, together>>

\* DELETE of an automation takes its rows with it (ON DELETE CASCADE).
Delete(a) ==
  /\ a \in alive
  /\ alive' = alive \ {a}
  /\ row' = [r \in Run |-> IF Owner[r] = a THEN "none" ELSE row[r]]
  /\ UNCHANGED <<process, sent, history>>

\* The process exits: the buffer and the runs are gone, a batch under way may still arrive.
Exit ==
  /\ writer # "down" /\ writer' = "down"
  /\ phase' = [r \in Run |-> IF phase[r] = "open" THEN "gone" ELSE phase[r]]
  /\ buffer' = <<>> /\ dropped' = dropped \cup Entries(buffer)
  /\ UNCHANGED <<sent, row, alive, lost, outage, together, purged>>

Boot ==
  /\ writer = "down" /\ writer' = "on"
  /\ UNCHANGED <<phase, buffer, sent, row, alive, history>>
-----------------------------------------------------------------------------
Settle(b) == Inserted(b) \/ Refused(b) \/ Failed(b)

Next ==
  \/ \E r \in Run : Begin(r) \/ Finish(r) \/ AbortedAtStart(r)
  \/ FlushTick \/ Stop \/ Exit \/ Boot
  \/ \E b \in sent : Settle(b)
  \/ \E R \in SUBSET Run : Cleanup(R)
  \/ \E a \in Automation : Delete(a)

Spec == Init /\ [][Next]_vars

\* The interval fires, and every query ends one way or the other.
FairSpec == Spec /\ WF_vars(FlushTick) /\ WF_vars(\E b \in sent : Settle(b))
-----------------------------------------------------------------------------
InBuffer(e) == e \in Entries(buffer)
UnderWay(e) == \E b \in sent : e \in Entries(b)

TypeOK ==
  /\ phase \in [Run -> {"new", "open", "closed", "gone"}]
  /\ writer \in {"on", "off", "down"}
  /\ buffer \in Seq(Entry) /\ Len(buffer) < MaxBuffer
  /\ sent \subseteq Seq(Entry) /\ \A b \in sent : Len(b) <= MaxBuffer
  /\ row \in [Run -> {"none", "running", "ended"}]
  /\ alive \subseteq Automation
  /\ lost \subseteq Entry /\ dropped \subseteq Entry /\ outage \in BOOLEAN
  /\ together \subseteq Run /\ purged \subseteq Run

\* Once nothing of a finished run is buffered or under way its row tells the outcome,
\* unless its last entry was lost, its two entries raced each other, the row was cleaned
\* up, or the process went down with the entry in its buffer (execute, write, flush).
LogTellsOutcome ==
  \A r \in Run :
    LET e == [run |-> r, status |-> "ended"] IN
    /\ phase[r] = "closed" /\ Owner[r] \in alive
    /\ ~InBuffer(e) /\ ~UnderWay(e)
    /\ e \notin lost \cup dropped /\ r \notin together \cup purged
    => row[r] = "ended"

\* While the database answers and no automation is deleted, the entries that are lost are
\* those of batches that held both entries of a run; an entry shares such a batch's fate
\* with at least one complete pair (flush: splice before the INSERT, catch after it).
LossIsExplained ==
  lost # {} /\ ~outage /\ alive = Automation =>
    \E r \in Run : {[run |-> r, status |-> "running"], [run |-> r, status |-> "ended"]} \subseteq lost

\* What is in the buffer of a started writer is inserted or given up in the end, also
\* when the writer is stopped in between (start, stop, flush).
EntrySettles ==
  \A e \in Entry : InBuffer(e) /\ writer = "on" ~> ~InBuffer(e) /\ ~UnderWay(e)
=============================================================================
