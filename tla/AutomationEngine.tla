-------------------------- MODULE AutomationEngine --------------------------
(***************************************************************************)
(* The automation engine of the home backend                               *)
(* (src/packages/backend/src/automations/engine.ts): registration of the   *)
(* stored automations, their triggers, the four concurrency modes, and the *)
(* execution of their action lists, including call_automation.             *)
(*                                                                         *)
(* The engine is single-threaded JavaScript.  Three levels of scheduling   *)
(* are kept apart because the interesting interleavings are between them:  *)
(*   - "stack" is the call stack of the code that is running now.  Only    *)
(*     its top frame moves, so everything up to the next await is atomic   *)
(*     except for the engine code it calls itself;                         *)
(*   - with an empty stack, continuations of settled promises run          *)
(*     (Settle, Wake, Resume, Register);                                   *)
(*   - only when none is left (Quiet) does the event loop deliver the next *)
(*     event: a timer, a device update, a request, a database answer.      *)
(***************************************************************************)
EXTENDS Integers, Sequences, FiniteSets

CONSTANTS
  Ids,          \* automation ids, the primary key of table automations
  Devices,      \* devices that triggers watch
  Action,       \* the actions occurring in definitions
  Rows,         \* the definitions a row of the table may hold
  NoRow,        \* no row with this id
  Stored,       \* the tables the engine may find when it starts
  Edits,        \* the edits of the table that requests make, <<id, row>>
  Tasks,        \* API requests that edit or reload, at once
  MaxRuns,      \* bound: runs in existence at once
  MaxRuntimes,  \* bound: AutomationRuntime objects in existence at once
  Headroom,     \* bound: run slots kept free when an event is delivered
  MaxQueued,    \* DEFAULT_MAX_QUEUED (10 in the code)
  MaxParallel,  \* DEFAULT_MAX_PARALLEL (10 in the code)
  MaxCallDepth  \* MAX_CALL_DEPTH (5 in the code)

Modes == {"single", "restart", "queued", "parallel"}

ActionTypes ==
  {"device_command", "helper_command", "delay", "condition",
   "call_automation", "log"}

ASSUME ActionAssumption ==
  \A a \in Action :
    /\ a.type \in ActionTypes
    /\ a.type = "helper_command" => a.device \in Devices
    /\ a.type = "call_automation" => a.target \in Ids
    /\ a.type = "condition" => a.then \in Seq(Action) /\ a.else \in Seq(Action)

\* conditional: the row has conditions that may fail; scheduled: it has a
\* time trigger; listens: the devices its device_state triggers watch, one
\* for each trigger.
ASSUME RowAssumption ==
  /\ Rows \subseteq [mode : Modes, enabled : BOOLEAN, conditional : BOOLEAN,
                     scheduled : BOOLEAN, listens : Seq(Devices),
                     actions : Seq(Action)]
  /\ NoRow \notin Rows
  /\ Stored \subseteq [Ids -> Rows \cup {NoRow}]
  /\ Edits \subseteq Ids \X (Rows \cup {NoRow})

ASSUME NoRowAssumption == NoRow \notin Ids   \* it is also the id of no automation

ASSUME BoundAssumption ==
  /\ MaxRuns \in Nat \ {0} /\ MaxRuntimes \in Nat \ {0} /\ Headroom \in Nat
  /\ MaxQueued \in Nat /\ MaxParallel \in Nat /\ MaxCallDepth \in Nat

VARIABLES
  db,         \* table automations
  runtimes,   \* this.runtimes: id -> runtime object
  rts,        \* the runtime objects, also those no longer in the map
  runs,       \* the pending calls of execute
  stack,      \* the JavaScript call stack, top first
  woken,      \* restart-mode triggers whose awaited run has ended
  tasks,      \* API requests and the start-up that (re)load automations
  listening,  \* deviceListener is attached to the event bus
  overlapped, \* history: ids that two loads at once, or start() after an
              \* earlier load, may have registered twice
  unread      \* history: ids whose last reload could not read the table

vars == <<db, runtimes, rts, runs, stack, woken, tasks, listening,
          overlapped, unread>>

RunIds == 1 .. MaxRuns
RtIds  == 1 .. MaxRuntimes
NoRun  == 0
NoRt   == 0

\* The await of the nested executeActions that ends a condition's branch.
Join == [type |-> "join"]
Program == Seq(Action \cup {Join})

\* "loading": trigger() awaits loadOne for an automation with no runtime.
\* "running": on the stack.  "command", "delay", "calling": suspended at that
\* await.  "resume": the await has settled.  "settled": execute has returned
\* and the callback that releases the runtime is pending.
RunPc == {"free", "loading", "running", "command", "delay", "calling",
          "resume", "settled"}

Run == [pc : RunPc, rt : RtIds \cup {NoRt}, id : Ids \cup {NoRow},
        todo : Program, aborted : BOOLEAN, depth : Nat,
        caller : RunIds \cup {NoRun},   \* the run awaiting this trigger
        waiters : Seq(RunIds \cup {NoRun}),  \* callers of restart triggers awaiting it
        prefix : BOOLEAN]               \* runningPromise not assigned yet

FreeRun == [pc |-> "free", rt |-> NoRt, id |-> NoRow, todo |-> <<>>,
            aborted |-> FALSE, depth |-> 0, caller |-> NoRun,
            waiters |-> <<>>, prefix |-> FALSE]

Runtime == [id : Ids \cup {NoRow}, row : Rows \cup {NoRow},
            indexed : BOOLEAN,               \* listed in deviceIndex
            armed : BOOLEAN,                 \* registered, not torn down
            abort : RunIds \cup {NoRun},     \* runningAbort
            promise : RunIds \cup {NoRun},   \* runningPromise
            queue : Seq(RunIds \cup {NoRun}),   \* callers of the queued triggers
            active : Int]                    \* activeCount

NewRuntime(i, row) ==
  [id |-> i, row |-> row, indexed |-> i # NoRow /\ row.listens # <<>>,
   armed |-> i # NoRow, abort |-> NoRun, promise |-> NoRun,
   queue |-> <<>>, active |-> 0]

\* "trigger": executeTrigger is about to run; "start": a run is about to
\* start; "run": execute is running.  Field run is the caller in the first two.
Frame == [kind : {"trigger", "start", "run"}, rt : RtIds \cup {NoRt},
          run : RunIds \cup {NoRun}]

\* "unstarted": main.ts serves requests and has yet to call start().
\* "committed": the UPDATE, INSERT or DELETE is done.  "reading": reload has
\* torn down and awaits the table.  "fetched": the answer is on its way.
\* "registering": the continuation registers the ids in pending.
TaskPc == {"idle", "unstarted", "committed", "reading", "fetched", "registering"}
Task == [pc : TaskPc, boot : BOOLEAN, pending : SUBSET Ids,
         rows : [Ids -> Rows \cup {NoRow}]]

NoTable == [i \in Ids |-> NoRow]
IdleTask == [pc |-> "idle", boot |-> FALSE, pending |-> {}, rows |-> NoTable]

-----------------------------------------------------------------------------
(* Scheduling.                                                             *)

Live(r) == runs[r].pc # "free"
Mode(x) == rts[x].row.mode

\* No continuation is pending: the event loop may deliver an event.
Quiet ==
  /\ stack = <<>> /\ woken = <<>>
  /\ \A r \in RunIds : runs[r].pc \notin {"resume", "settled"}
  /\ \A t \in Tasks : tasks[t].pc # "registering"

\* The least free slot, so that the choice of a slot is no choice at all.
FreeSlot(r) ==
  /\ ~Live(r)
  /\ \A q \in RunIds : ~Live(q) => r <= q

\* A runtime object nothing refers to any more.
Unreferenced(x) ==
  /\ ~rts[x].armed /\ ~rts[x].indexed
  /\ \A i \in Ids : runtimes[i] # x
  /\ \A r \in RunIds : runs[r].rt # x
  /\ \A k \in 1 .. Len(stack) : stack[k].rt # x
  /\ \A k \in 1 .. Len(woken) : woken[k].rt # x

FreeRuntime(x) ==
  /\ Unreferenced(x)
  /\ \A y \in RtIds : Unreferenced(y) => x <= y

\* Bounds in the guards of events.  A restart trigger that waits, a queued
\* trigger, a load, and a run that still has a call to make may each need a
\* slot later, and each trigger the event delivers needs Headroom more.
Demand ==
  Cardinality({p \in RunIds \X RunIds : p[2] <= Len(runs[p[1]].waiters)})
    + Cardinality({p \in RtIds \X RunIds : p[2] <= Len(rts[p[1]].queue)})
    + Cardinality({r \in RunIds :
        \/ runs[r].pc = "loading"
        \/ \E k \in 1 .. Len(runs[r].todo) : runs[r].todo[k].type = "call_automation"})
Room(n) ==   \* for n triggers at once
  Cardinality({r \in RunIds : ~Live(r)}) >= n * Headroom + Demand
RuntimeRoom ==
  Cardinality({x \in RtIds : Unreferenced(x)}) >= Cardinality(Ids)
    + Cardinality({p \in Tasks \X Ids : p[2] \in tasks[p[1]].pending})

Push(frames) == stack' = frames \o stack
Replace(frame) == stack' = <<frame>> \o Tail(stack)
Top(kind) == stack # <<>> /\ Head(stack).kind = kind

TriggerFrame(x, c) == [kind |-> "trigger", rt |-> x, run |-> c]
StartFrame(x, c)   == [kind |-> "start", rt |-> x, run |-> c]
RunFrame(r)        == [kind |-> "run", rt |-> NoRt, run |-> r]

\* The promise run c awaits has settled.
Answered(rs, c) ==
  IF c = NoRun THEN rs ELSE [rs EXCEPT ![c].pc = "resume"]

\* AbortController.abort(): a delay ends at once, every other await goes on.
AbortedRun(run) ==
  [run EXCEPT !.aborted = TRUE, !.pc = IF @ = "delay" THEN "resume" ELSE @]
Aborted(rs, r) == [rs EXCEPT ![r] = AbortedRun(@)]

-----------------------------------------------------------------------------
(* executeTrigger: what the mode makes of a trigger.                       *)

\* Skip the trigger while a run is recorded.
TriggerSingle ==
  /\ Top("trigger")
  /\ LET x == Head(stack).rt
         c == Head(stack).run
     IN  /\ Mode(x) = "single"
         /\ IF rts[x].promise # NoRun
            THEN runs' = Answered(runs, c) /\ stack' = Tail(stack)
            ELSE Replace(StartFrame(x, c)) /\ UNCHANGED runs
  /\ UNCHANGED <<db, runtimes, rts, woken, tasks, listening, overlapped, unread>>

\* Abort the recorded run; if its promise is recorded too, await it first.
TriggerRestart ==
  /\ Top("trigger")
  /\ LET x == Head(stack).rt
         c == Head(stack).run
         old == rts[x].abort
         done == rts[x].promise
     IN  /\ Mode(x) = "restart"
         /\ \/ old = NoRun /\ Replace(StartFrame(x, c)) /\ UNCHANGED runs
            \/ /\ old # NoRun /\ done = NoRun
               /\ runs' = Aborted(runs, old)
               /\ Replace(StartFrame(x, c))
            \/ /\ old # NoRun /\ done # NoRun
               /\ runs' = [Aborted(runs, old) EXCEPT ![done].waiters = Append(@, c)]
               /\ stack' = Tail(stack)
  /\ UNCHANGED <<db, runtimes, rts, woken, tasks, listening, overlapped, unread>>

\* A queued-mode trigger has to wait, and when it cannot.
BusyByQueue(x) == rts[x].queue # <<>>                       \* mutant
Busy(x) == rts[x].active > 0
QueueOverfull(x) == Len(rts[x].queue) > MaxQueued           \* mutant
QueueFull(x) == Len(rts[x].queue) >= MaxQueued

\* Queue the trigger behind the active run, or drop it when the queue is full.
TriggerQueued ==
  /\ Top("trigger")
  /\ LET x == Head(stack).rt
         c == Head(stack).run
     IN  /\ Mode(x) = "queued"
         /\ \/ /\ Busy(x) /\ QueueFull(x)
               /\ runs' = Answered(runs, c) /\ stack' = Tail(stack)
               /\ UNCHANGED rts
            \/ /\ Busy(x) /\ ~QueueFull(x)
               /\ rts' = [rts EXCEPT ![x].queue = Append(@, c)]
               /\ stack' = Tail(stack)
               /\ UNCHANGED runs
            \/ /\ ~Busy(x)
               /\ Replace(StartFrame(x, c))
               /\ UNCHANGED <<rts, runs>>
  /\ UNCHANGED <<db, runtimes, woken, tasks, listening, overlapped, unread>>

\* Start another run, or drop the trigger when too many are active.
TriggerParallel ==
  /\ Top("trigger")
  /\ LET x == Head(stack).rt
         c == Head(stack).run
     IN  /\ Mode(x) = "parallel"
         /\ IF rts[x].active >= MaxParallel
            THEN runs' = Answered(runs, c) /\ stack' = Tail(stack)
            ELSE Replace(StartFrame(x, c)) /\ UNCHANGED runs
  /\ UNCHANGED <<db, runtimes, rts, woken, tasks, listening, overlapped, unread>>

StartedRun(x, todo, c) ==
  [pc |-> "running", rt |-> x, id |-> NoRow, todo |-> todo, aborted |-> FALSE,
   depth |-> 0, caller |-> c, waiters |-> <<>>, prefix |-> TRUE]
\* What execute makes of the row's conditions: run the actions, or nothing.
Programs(row) == {row.actions} \cup (IF row.conditional THEN {<<>>} ELSE {})

\* A new AbortController, the counters, and the call of execute.
StartRun(r) ==
  /\ Top("start") /\ FreeSlot(r)
  /\ LET x == Head(stack).rt
         c == Head(stack).run
     IN  /\ \E todo \in Programs(rts[x].row) :
              runs' = [runs EXCEPT ![r] = StartedRun(x, todo, c)]
         /\ rts' = [rts EXCEPT
              ![x].abort = IF Mode(x) = "parallel" THEN @ ELSE r,
              ![x].active = IF Mode(x) \in {"queued", "parallel"} THEN @ + 1
                                                                  ELSE @]
  /\ Replace(RunFrame(r))
  /\ UNCHANGED <<db, runtimes, woken, tasks, listening, overlapped, unread>>

-----------------------------------------------------------------------------
(* execute and executeActions, one action of the list at a time.           *)

\* Run r is executing and reaches an action of one of these types.
Reaches(r, types) ==
  /\ Top("run") /\ Head(stack).run = r
  /\ runs[r].pc = "running" /\ ~runs[r].aborted
  /\ runs[r].todo # <<>> /\ Head(runs[r].todo).type \in types

\* The rest of the list, with r going on to the given state.
Goto(r, pc) == [runs EXCEPT ![r].pc = pc, ![r].todo = Tail(@)]

\* The list is done, or the abort check before the next action ends it.
Finish(r) ==
  /\ Top("run") /\ Head(stack).run = r /\ runs[r].pc = "running"
  /\ runs[r].aborted \/ runs[r].todo = <<>>
  /\ runs' = [runs EXCEPT ![r].pc = "settled", ![r].todo = <<>>]
  /\ UNCHANGED <<db, runtimes, rts, stack, woken, tasks, listening, overlapped, unread>>

Log(r) ==
  /\ Reaches(r, {"log"})
  /\ runs' = Goto(r, "running")
  /\ UNCHANGED <<db, runtimes, rts, stack, woken, tasks, listening, overlapped, unread>>

\* await of an integration, of a delay, or of a finished branch.
Suspending ==
  [type \in {"device_command", "delay", "join"} |->
     IF type = "device_command" THEN "command"
     ELSE IF type = "delay" THEN "delay" ELSE "resume"]
Await(r) ==
  /\ Reaches(r, DOMAIN Suspending)
  /\ runs' = Goto(r, Suspending[Head(runs[r].todo).type])
  /\ UNCHANGED <<db, runtimes, rts, stack, woken, tasks, listening, overlapped, unread>>

\* deviceIndex.get(d), while the engine listens: an entry per trigger.
Indexed == {x \in RtIds : listening /\ rts[x].indexed}
Entries(d) ==
  UNION {{<<x, k>> : k \in {j \in DOMAIN rts[x].row.listens : rts[x].row.listens[j] = d}} :
           x \in Indexed}
\* The runtimes a change of device d triggers, in any order: a runtime once for
\* each entry, and the from and to constraints may rule out any entry.
Deliveries(d) ==
  LET choices == {s \in UNION {[1 .. n -> Entries(d)] : n \in 0 .. Cardinality(Entries(d))} :
                    \A j, k \in DOMAIN s : j # k => s[j] # s[k]}
  IN  {[k \in DOMAIN s |-> s[k][1]] : s \in choices}
TriggerFrames(s) == [k \in 1 .. Len(s) |-> TriggerFrame(s[k], NoRun)]

\* A helper changes its device before its command returns, so the engine's
\* own listener runs inside the command (bound: only while slots are free).
HelperCommand(r) ==
  /\ Reaches(r, {"helper_command"})
  /\ \E s \in Deliveries(Head(runs[r].todo).device) :
       /\ s # <<>> => Room(Len(s))
       /\ Push(TriggerFrames(s))
  /\ runs' = Goto(r, "resume")
  /\ UNCHANGED <<db, runtimes, rts, woken, tasks, listening, overlapped, unread>>

\* The chosen branch runs before the rest of the list, and is awaited.
Condition(r) ==
  /\ Reaches(r, {"condition"})
  /\ LET action == Head(runs[r].todo)
         rest == Tail(runs[r].todo)
     IN \E branch \in {action.then, action.else} :
          runs' = [runs EXCEPT ![r].todo =
                     IF branch = <<>> THEN rest
                                      ELSE branch \o <<Join>> \o rest]
  /\ UNCHANGED <<db, runtimes, rts, stack, woken, tasks, listening, overlapped, unread>>

\* trigger(id, depth) for an id without a runtime: the definition is read.
Loading(i, depth, c) ==
  [pc |-> "loading", rt |-> NoRt, id |-> i, todo |-> <<>>, aborted |-> FALSE,
   depth |-> depth, caller |-> c, waiters |-> <<>>, prefix |-> FALSE]

\* call_automation.  A registered automation runs through executeTrigger,
\* which starts again at depth 0.
Call(r) ==
  /\ Reaches(r, {"call_automation"})
  /\ LET i == Head(runs[r].todo).target
         depth == runs[r].depth + 1
     IN  \/ /\ depth >= MaxCallDepth
            /\ runs' = Goto(r, "resume") /\ UNCHANGED stack
         \/ /\ depth < MaxCallDepth /\ runtimes[i] # NoRt
            /\ runs' = Goto(r, "calling")
            /\ Push(<<TriggerFrame(runtimes[i], r)>>)
         \/ /\ depth < MaxCallDepth /\ runtimes[i] = NoRt
            /\ \E q \in RunIds :
                 /\ FreeSlot(q)
                 /\ runs' = [Goto(r, "calling") EXCEPT ![q] = Loading(i, depth, r)]
            /\ UNCHANGED stack
  /\ UNCHANGED <<db, runtimes, rts, woken, tasks, listening, overlapped, unread>>

\* runningPromise of x once the synchronous prefix of its run r has ended.
RecordedOnRestart(x, r) ==                                   \* mutant
  IF Mode(x) = "restart" THEN r ELSE rts[x].promise
Recorded(x, r) == IF Mode(x) = "parallel" THEN rts[x].promise ELSE r

\* The run on top of the stack awaits or has returned.  If that ends its
\* synchronous prefix, single and restart mode record its promise, and
\* executeTrigger returns to its caller in every mode but queued.
Suspend(r) ==
  /\ Top("run") /\ Head(stack).run = r /\ runs[r].pc # "running"
  /\ stack' = Tail(stack)
  /\ LET x == runs[r].rt
     IN  IF runs[r].prefix /\ Mode(x) # "queued"
         THEN /\ runs' = [Answered(runs, runs[r].caller) EXCEPT
                            ![r].prefix = FALSE, ![r].caller = NoRun]
              /\ rts' = [rts EXCEPT ![x].promise = Recorded(x, r)]
         ELSE /\ runs' = [runs EXCEPT ![r].prefix = FALSE]
              /\ UNCHANGED rts
  /\ UNCHANGED <<db, runtimes, woken, tasks, listening, overlapped, unread>>

-----------------------------------------------------------------------------
(* Continuations of settled promises.                                      *)

\* The await in executeActions has settled.
Resume(r) ==
  /\ stack = <<>> /\ runs[r].pc = "resume"
  /\ runs' = [runs EXCEPT ![r].pc = "running"]
  /\ Push(<<RunFrame(r)>>)
  /\ UNCHANGED <<db, runtimes, rts, woken, tasks, listening, overlapped, unread>>

\* Run r is over, and with it the trigger that c awaits.
ReleasedSilently(r, c) == [runs EXCEPT ![r] = FreeRun]       \* mutant
Released(r, c) == [Answered(runs, c) EXCEPT ![r] = FreeRun]

\* The run of an automation without a runtime: its trigger() returns.
SettleManual(r) ==
  /\ stack = <<>> /\ runs[r].pc = "settled" /\ runs[r].rt = NoRt
  /\ runs' = Released(r, runs[r].caller)
  /\ UNCHANGED <<db, runtimes, rts, stack, woken, tasks, listening, overlapped, unread>>

\* What the two modes' callback clears, and the triggers it wakes.
PromiseCleared(rt) == [rt EXCEPT !.promise = NoRun]          \* mutant
Cleared(rt) == [rt EXCEPT !.abort = NoRun, !.promise = NoRun]
WokenNone(r) == <<>>                                         \* mutant
Woken(r) ==
  [k \in 1 .. Len(runs[r].waiters) |-> StartFrame(runs[r].rt, runs[r].waiters[k])]

\* .finally of single and restart mode; then the triggers that awaited the run.
SettleExclusive(r) ==
  /\ stack = <<>> /\ runs[r].pc = "settled" /\ runs[r].rt # NoRt
  /\ LET x == runs[r].rt
     IN  /\ Mode(x) \in {"single", "restart"}
         /\ rts' = [rts EXCEPT ![x] = Cleared(@)]
  /\ woken' = woken \o Woken(r)
  /\ runs' = Released(r, NoRun)
  /\ UNCHANGED <<db, runtimes, stack, tasks, listening, overlapped, unread>>

\* activeCount--, and what queue.shift() starts.
NotDecremented(x) == rts[x].active                           \* mutant
Decremented(x) == rts[x].active - 1
NoNext(x) == <<>>                                            \* mutant
NextQueued(x) ==
  IF rts[x].queue = <<>> THEN <<>> ELSE <<StartFrame(x, Head(rts[x].queue))>>

\* The finally block of runQueued: start the next queued trigger.
SettleQueued(r) ==
  /\ stack = <<>> /\ runs[r].pc = "settled" /\ runs[r].rt # NoRt
  /\ LET x == runs[r].rt
         q == rts[x].queue
     IN  /\ Mode(x) = "queued"
         /\ rts' = [rts EXCEPT ![x].abort = NoRun, ![x].active = Decremented(x),
                               ![x].queue = IF q = <<>> THEN q ELSE Tail(q)]
         /\ Push(NextQueued(x))
  /\ runs' = Released(r, runs[r].caller)
  /\ UNCHANGED <<db, runtimes, woken, tasks, listening, overlapped, unread>>

SettleParallel(r) ==
  /\ stack = <<>> /\ runs[r].pc = "settled" /\ runs[r].rt # NoRt
  /\ LET x == runs[r].rt
     IN  /\ Mode(x) = "parallel"
         /\ rts' = [rts EXCEPT ![x].active = Decremented(x)]
  /\ runs' = Released(r, NoRun)
  /\ UNCHANGED <<db, runtimes, stack, woken, tasks, listening, overlapped, unread>>

\* A restart-mode trigger goes on after its await, looking at nothing again.
Wake ==
  /\ stack = <<>> /\ woken # <<>>
  /\ Push(<<Head(woken)>>)
  /\ woken' = Tail(woken)
  /\ UNCHANGED <<db, runtimes, rts, runs, tasks, listening, overlapped, unread>>

\* The task once the loop over the rows is done with i.
Without(task, i) ==
  IF task.pending = {i} THEN IdleTask
  ELSE [task EXCEPT !.pending = @ \ {i}, !.rows[i] = NoRow]

\* register(row) for one of the rows read, in the continuation of the read.
Register(t, i) ==
  /\ stack = <<>> /\ tasks[t].pc = "registering" /\ i \in tasks[t].pending
  /\ LET row == tasks[t].rows[i]
     IN  IF row # NoRow /\ row.enabled
         THEN \E x \in RtIds :
                /\ FreeRuntime(x)
                /\ rts' = [rts EXCEPT ![x] = NewRuntime(i, row)]
                /\ runtimes' = [runtimes EXCEPT ![i] = x]
         ELSE UNCHANGED <<rts, runtimes>>
  /\ tasks' = [tasks EXCEPT ![t] = Without(@, i)]
  /\ listening' = (listening \/ (tasks[t].boot /\ tasks[t].pending = {i}))
  /\ UNCHANGED <<db, runs, stack, woken, overlapped, unread>>

-----------------------------------------------------------------------------
(* Events.                                                                 *)

\* A cron task of the runtime fires.
ScheduledTrigger(x) ==
  /\ Quiet /\ Room(1)
  /\ rts[x].armed /\ rts[x].row.scheduled
  /\ Push(<<TriggerFrame(x, NoRun)>>)
  /\ UNCHANGED <<db, runtimes, rts, runs, woken, tasks, listening, overlapped, unread>>

\* An integration reports a change of device d.
DeviceUpdate(d) ==
  /\ Quiet
  /\ \E s \in Deliveries(d) : s # <<>> /\ Room(Len(s)) /\ Push(TriggerFrames(s))
  /\ UNCHANGED <<db, runtimes, rts, runs, woken, tasks, listening, overlapped, unread>>

\* POST /api/automations/:id/trigger, which does not wait for the run.
ManualTrigger(i) ==
  /\ Quiet /\ Room(1) /\ db[i] # NoRow
  /\ IF runtimes[i] # NoRt
     THEN Push(<<TriggerFrame(runtimes[i], NoRun)>>) /\ UNCHANGED runs
     ELSE /\ \E q \in RunIds :
               FreeSlot(q) /\ runs' = [runs EXCEPT ![q] = Loading(i, 0, NoRun)]
          /\ UNCHANGED stack
  /\ UNCHANGED <<db, runtimes, rts, woken, tasks, listening, overlapped, unread>>

\* loadOne answers; a row runs even when disabled, no row or an error does not.
LoadReturns(q) ==
  /\ Quiet /\ runs[q].pc = "loading"
  /\ LET row == db[runs[q].id]
     IN  \/ /\ row # NoRow
            /\ \E todo \in Programs(row) :
                 runs' = [runs EXCEPT ![q].pc = "running", ![q].id = NoRow,
                                      ![q].todo = todo]
            /\ Push(<<RunFrame(q)>>)
         \/ /\ runs' = Released(q, runs[q].caller)
            /\ UNCHANGED stack
  /\ UNCHANGED <<db, runtimes, rts, woken, tasks, listening, overlapped, unread>>

\* The integration's promise settles; a failure is logged and the list goes on.
CommandEnds(r) ==
  /\ Quiet /\ runs[r].pc = "command"
  /\ runs' = [runs EXCEPT ![r].pc = "resume"]
  /\ UNCHANGED <<db, runtimes, rts, stack, woken, tasks, listening, overlapped, unread>>

DelayEnds(r) ==
  /\ Quiet /\ runs[r].pc = "delay"
  /\ runs' = [runs EXCEPT ![r].pc = "resume"]
  /\ UNCHANGED <<db, runtimes, rts, stack, woken, tasks, listening, overlapped, unread>>

\* DEFAULT_EXECUTION_TIMEOUT_MS after the start of the run.
ExecutionTimeout(r) ==
  /\ Quiet /\ runs[r].pc \in {"command", "delay", "calling"} /\ ~runs[r].aborted
  /\ runs' = Aborted(runs, r)
  /\ UNCHANGED <<db, runtimes, rts, stack, woken, tasks, listening, overlapped, unread>>

TornDownKeepingQueue(rt) == [rt EXCEPT !.armed = FALSE]      \* mutant
TornDown(rt) == [rt EXCEPT !.armed = FALSE, !.queue = <<>>]

NoRecorded(X) == {}                                          \* mutant
RecordedRuns(X) == {rts[x].abort : x \in X} \ {NoRun}

\* teardown of the runtimes X: their triggers stop, their recorded run is
\* aborted, their queue is dropped; Y leave the device index.
Teardown(X, Y) ==
  LET aborts == RecordedRuns(X)
  IN  /\ rts' = [x \in RtIds |->
           [IF x \in X THEN TornDown(rts[x]) ELSE rts[x]
              EXCEPT !.indexed = @ /\ x \notin Y]]
      /\ runs' = [r \in RunIds |->
           IF r \in aborts THEN AbortedRun(runs[r]) ELSE runs[r]]

Registered(I) == {runtimes[i] : i \in I} \ {NoRt}
KeepRegistered(I) == UNCHANGED runtimes                      \* mutant
Unregister(I) == runtimes' = [i \in Ids |-> IF i \in I THEN NoRt ELSE runtimes[i]]

\* stop() at shutdown; deviceIndex.clear() empties the whole index.  The
\* process goes on for as long as the integrations need to stop.  main.ts
\* installs the signal handlers once start() has returned.
Stop ==
  /\ Quiet /\ \A t \in Tasks : ~tasks[t].boot
  /\ Teardown(Registered(Ids), RtIds)
  /\ Unregister(Ids)
  /\ listening' = FALSE
  /\ UNCHANGED <<db, stack, woken, tasks, overlapped, unread>>

\* A request creates, changes, disables or deletes the row of i.
Commit(t, i, row) ==
  /\ Quiet /\ RuntimeRoom /\ tasks[t].pc = "idle" /\ row # db[i]
  /\ db' = [db EXCEPT ![i] = row]
  /\ tasks' = [tasks EXCEPT ![t] =
                 [IdleTask EXCEPT !.pc = "committed", !.pending = {i}]]
  /\ UNCHANGED <<runtimes, rts, runs, stack, woken, listening, overlapped, unread>>

\* Another task is between its teardown and its registration of i.
Reloading(t, i) ==
  \E u \in Tasks \ {t} :
    /\ i \in tasks[u].pending
    /\ tasks[u].pc \in {"reading", "fetched", "registering"}

\* reload(id) up to its await.
BeginReload(t) ==
  /\ Quiet /\ tasks[t].pc = "committed"
  /\ LET I == tasks[t].pending
     IN  /\ Teardown(Registered(I), Registered(I))
         /\ Unregister(I)
         /\ overlapped' = overlapped \cup {i \in I : Reloading(t, i)}
  /\ tasks' = [tasks EXCEPT ![t].pc = "reading"]
  /\ UNCHANGED <<db, stack, woken, listening, unread>>

\* reload() of everything up to its await.
BeginFullReload(t) ==
  /\ Quiet /\ RuntimeRoom /\ tasks[t].pc = "idle"
  /\ Teardown(Registered(Ids), RtIds)
  /\ Unregister(Ids)
  /\ overlapped' = overlapped \cup {i \in Ids : Reloading(t, i)}
  /\ tasks' = [tasks EXCEPT ![t] =
                 [IdleTask EXCEPT !.pc = "reading", !.pending = Ids]]
  /\ UNCHANGED <<db, stack, woken, listening, unread>>

\* start() up to its await.  It tears nothing down: what a request has loaded
\* before it is registered a second time.
Start(t) ==
  /\ Quiet /\ RuntimeRoom /\ tasks[t].pc = "unstarted"
  /\ overlapped' = overlapped \cup {i \in Ids : runtimes[i] # NoRt \/ Reloading(t, i)}
  /\ tasks' = [tasks EXCEPT ![t].pc = "reading", ![t].pending = Ids]
  /\ UNCHANGED <<db, runtimes, rts, runs, stack, woken, listening, unread>>

\* The database executes the SELECT, or fails: loadOne throws out of reload,
\* loadAll returns no rows, and nothing is registered either way.
ReadTable(t) ==
  /\ Quiet /\ tasks[t].pc = "reading"
  /\ LET I == tasks[t].pending
         fetched(rows) == [tasks EXCEPT ![t].pc = "fetched", ![t].rows = rows]
     IN  \/ /\ tasks' = fetched([i \in Ids |-> IF i \in I THEN db[i] ELSE NoRow])
            /\ unread' = unread \ I
         \/ tasks' = fetched(NoTable) /\ unread' = unread \cup I
  /\ UNCHANGED <<db, runtimes, rts, runs, stack, woken, listening, overlapped>>

RowsArrive(t) ==
  /\ Quiet /\ tasks[t].pc = "fetched"
  /\ tasks' = [tasks EXCEPT ![t].pc = "registering"]
  /\ UNCHANGED <<db, runtimes, rts, runs, stack, woken, listening, overlapped, unread>>

-----------------------------------------------------------------------------
\* main.ts has started the HTTP server: nothing is registered, and one task
\* will call start().
Init ==
  /\ db \in Stored
  /\ runtimes = [i \in Ids |-> NoRt]
  /\ rts = [x \in RtIds |-> NewRuntime(NoRow, NoRow)]
  /\ runs = [r \in RunIds |-> FreeRun]
  /\ stack = <<>> /\ woken = <<>>
  /\ \E boot \in Tasks :
       tasks = [t \in Tasks |->
         IF t = boot THEN [IdleTask EXCEPT !.pc = "unstarted", !.boot = TRUE]
                     ELSE IdleTask]
  /\ listening = FALSE /\ overlapped = {} /\ unread = {}

Dispatch == TriggerSingle \/ TriggerRestart \/ TriggerQueued \/ TriggerParallel

Execute(r) ==
  \/ StartRun(r) \/ Finish(r) \/ Log(r) \/ Await(r) \/ HelperCommand(r)
  \/ Condition(r) \/ Call(r) \/ Suspend(r)

Settle(r) ==
  \/ SettleManual(r) \/ SettleExclusive(r) \/ SettleQueued(r)
  \/ SettleParallel(r)

Trigger ==
  \/ \E x \in RtIds : ScheduledTrigger(x)
  \/ \E d \in Devices : DeviceUpdate(d)
  \/ \E i \in Ids : ManualTrigger(i)

Timer(r) == LoadReturns(r) \/ CommandEnds(r) \/ DelayEnds(r) \/ ExecutionTimeout(r)

Reload(t) ==
  \/ \E e \in Edits : Commit(t, e[1], e[2])
  \/ Start(t) \/ BeginReload(t) \/ BeginFullReload(t) \/ ReadTable(t) \/ RowsArrive(t)
  \/ \E i \in Ids : Register(t, i)

Next ==
  \/ Dispatch \/ Wake \/ Trigger \/ Stop
  \/ \E r \in RunIds : Execute(r) \/ Resume(r) \/ Settle(r) \/ Timer(r)
  \/ \E t \in Tasks : Reload(t)

Spec == Init /\ [][Next]_vars

-----------------------------------------------------------------------------
(* Properties.                                                             *)

\* Every variable stays in its type, and no queue exceeds its cap.
TypeOK ==
  /\ db \in [Ids -> Rows \cup {NoRow}]
  /\ runtimes \in [Ids -> RtIds \cup {NoRt}]
  /\ rts \in [RtIds -> Runtime]
  /\ \A x \in RtIds : Len(rts[x].queue) <= MaxQueued
  /\ runs \in [RunIds -> Run]
  /\ stack \in Seq(Frame) /\ woken \in Seq(Frame)
  /\ tasks \in [Tasks -> Task]
  /\ listening \in BOOLEAN
  /\ overlapped \subseteq Ids /\ unread \subseteq Ids

RunsOf(x) == {r \in RunIds : Live(r) /\ runs[r].rt = x}
InMode(x, modes) == rts[x].row # NoRow /\ Mode(x) \in modes

\* Queued mode: a runtime never has two runs in existence, whatever triggers,
\* calls, timeouts and reloads do while one is suspended.
QueuedOneAtATime ==
  \A r, q \in RunIds :
    /\ Live(r) /\ Live(q) /\ runs[r].rt # NoRt /\ runs[r].rt = runs[q].rt
    /\ Mode(runs[r].rt) = "queued"
    => r = q

\* activeCount, kept by hand in four places, is the number of runs the queued
\* or parallel runtime really has, and parallel mode keeps its cap.
ActiveCountMatches ==
  \A x \in RtIds :
    InMode(x, {"queued", "parallel"}) =>
      /\ rts[x].active = Cardinality(RunsOf(x))
      /\ Mode(x) = "parallel" => rts[x].active <= MaxParallel

\* No queued trigger is stranded: when the event loop is idle a queue that is
\* not empty has a run in front of it, whose end will start it.
NoStrandedQueue ==
  Quiet => \A x \in RtIds :
             rts[x].queue # <<>> => Mode(x) = "queued" /\ RunsOf(x) # {}

\* runningAbort and runningPromise never outlive their run: a restart trigger
\* or a teardown never aborts, and a trigger never awaits, another
\* runtime's run or one that has ended.
HandlesAreLive ==
  \A x \in RtIds :
    /\ rts[x].abort # NoRun => rts[x].abort \in RunsOf(x)
    /\ rts[x].promise # NoRun => rts[x].promise \in RunsOf(x)

\* Single mode: two runs of a runtime never coexist, provided its actions do
\* not run engine code of their own before they are awaited.
RunsEngineCode(row) ==
  \E k \in 1 .. Len(row.actions) :
    row.actions[k].type \in {"helper_command", "call_automation", "condition"}
SingleOneAtATime ==
  \A x \in RtIds :
    InMode(x, {"single"}) /\ ~RunsEngineCode(rts[x].row)
      => \A r, q \in RunsOf(x) : r = q

\* A run of an automation that was edited, disabled or deleted, or of an
\* engine that was stopped, in the modes where runningAbort is the one run of
\* the runtime.
Orphaned(r) ==
  LET x == runs[r].rt
  IN  /\ x # NoRt /\ ~rts[x].armed
      /\ InMode(x, {"queued"}) \/ (InMode(x, {"single"}) /\ ~RunsEngineCode(rts[x].row))

\* A run that was aborted, by its timeout, a restart trigger or a teardown, takes
\* no further action from its list, whatever it was doing and however deep in
\* its branches; and teardown finds the run there is, so an orphaned run acts
\* no more either, although the handle passes from run to run (teardown,
\* executeActions).
StoppedRunsDispatchNothing ==
  [][\A r \in RunIds :
       Live(r) /\ (runs[r].aborted \/ Orphaned(r)) /\ Live(r)'
         => runs'[r].todo = runs[r].todo \/ runs'[r].pc = "settled"]_vars

\* After its teardown a runtime that is not in restart mode starts no run: its
\* cron tasks, its index entries, its queue and its place in the map are gone.
TornDownStaysQuiet ==
  [][\A x \in RtIds, r \in RunIds :
       ~rts[x].armed /\ rts[x].row # NoRow /\ Mode(x) # "restart"
         /\ runs'[r].rt = x
       => runs[r].rt = x]_vars

\* Between loads of an id the engine runs exactly what the table says: a
\* runtime with the stored row if that is enabled, and none of a disabled or
\* deleted automation, nor a second one.  Three things void this, each a
\* hazard of the code: two overlapping reloads, a reload served before start()
\* registers the id once more, and a load that could not read the table.
RegistrationMatchesRow ==
  \A i \in Ids \ overlapped :
    (\A t \in Tasks : i \notin tasks[t].pending) =>
      /\ listening /\ i \notin unread /\ db[i] # NoRow /\ db[i].enabled
         => runtimes[i] # NoRt
      /\ \A x \in RtIds :
           runtimes[i] = x \/ (rts[x].id = i /\ (rts[x].armed \/ rts[x].indexed))
             => runtimes[i] = x /\ rts[x].row = db[i] /\ db[i].enabled

\* Restart mode, as the automation editor offers it, "cancel & rerun": a
\* runtime has at most one run that is not cancelled.
RestartOneRun ==
  \A x \in RtIds :
    InMode(x, {"restart"}) =>
      \A r, q \in {p \in RunsOf(x) : ~runs[p].aborted} : r = q

\* The event loop: code on the stack goes on, continuations run before any
\* other event, and a due timer or an answer of the database gets its turn.
\* Commands are left out: nothing bounds an integration's answer.
Continue ==
  \/ Wake
  \/ \E r \in RunIds : Resume(r) \/ Settle(r)
  \/ \E t \in Tasks, i \in Ids : Register(t, i)
Fairness ==
  /\ WF_vars(Dispatch \/ \E r \in RunIds : Execute(r))
  /\ WF_vars(Continue)
  /\ \A r \in RunIds : SF_vars(DelayEnds(r) \/ LoadReturns(r))

FairSpec == Spec /\ Fairness

\* A run that calls an automation gets its answer, unless the engine is
\* stopped: a queue that teardown empties never answers.
CallsReturn ==
  \A r \in RunIds :
    runs[r].pc = "calling" ~> runs[r].pc # "calling" \/ ~listening

\* A trigger that waits for the run it aborted goes on in the end.
WaitersGoOn ==
  \A x \in RtIds :
    (\E r \in RunIds : runs[r].rt = x /\ runs[r].waiters # <<>>)
      ~> (\E k \in 1 .. Len(woken) : woken[k].rt = x) \/ ~listening

\* The header's fourth design decision: aborting a run, as the execution
\* timeout does, kills it.
AbortEndsRun ==
  \A r \in RunIds : runs[r].aborted ~> ~runs[r].aborted \/ ~listening
=============================================================================
