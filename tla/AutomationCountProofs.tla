----------------------- MODULE AutomationCountProofs -----------------------
(***************************************************************************)
(* Theorems about the concurrency modes of AutomationEngine: the counter   *)
(* of active runs, the exclusiveness of queued mode, its queue, and the    *)
(* handles runningAbort and runningPromise.                                *)
(***************************************************************************)
EXTENDS AutomationEngineProofs

USE DEF RunIds, RtIds, NoRun, NoRt

-----------------------------------------------------------------------------
(* The inductive invariant.                                                *)

Owned(x) == {r \in RunIds : runs[r].rt = x}

\* A run that belongs to a runtime object is live, and only runs of
\* restart mode are awaited by triggers.
RunsHeld ==
  \A r \in RunIds :
    /\ runs[r].rt # NoRt => runs[r].pc \notin {"free", "loading"}
    /\ runs[r].waiters # <<>> => runs[r].rt # NoRt /\ Mode(runs[r].rt) = "restart"

HandlesHeld ==
  \A x \in RtIds :
    /\ rts[x].abort # NoRun => runs[rts[x].abort].rt = x
    /\ rts[x].promise # NoRun => runs[rts[x].promise].rt = x

\* The counter is exact; the handles that a mode's callback does not clear
\* are never set in that mode.
CountHeld(x) ==
  rts[x].row # NoRow =>
    /\ Mode(x) = "queued" => rts[x].promise = NoRun /\ rts[x].active <= 1
    /\ Mode(x) = "parallel" =>
         rts[x].abort = NoRun /\ rts[x].promise = NoRun /\ rts[x].active <= MaxParallel
    /\ Mode(x) \in {"queued", "parallel"} => rts[x].active = Cardinality(Owned(x))
CountsHeld == \A x \in RtIds : CountHeld(x)

\* A run is about to start only on top of the stack, and only where the mode
\* has room for it; the triggers that wait are those of restart mode.
Calm == {f \in Frame : f.kind # "start"}
MayStart(x) ==
  /\ Mode(x) = "queued" => rts[x].active = 0
  /\ Mode(x) = "parallel" => rts[x].active < MaxParallel
Restarts == {f \in Frame : f.rt \in RtIds /\ InMode(f.rt, {"restart"})}
StackHeld ==
  /\ stack # <<>> => Tail(stack) \in Seq(Calm)
  /\ Top("start") => MayStart(Head(stack).rt)
  /\ woken \in Seq(Restarts)

\* A queue that is not empty has a run in front of it, or the next queued
\* trigger has been shifted off and is starting.
Starting(x) == Top("start") /\ Head(stack).rt = x
QueueHeld(x) ==
  rts[x].queue # <<>> => Mode(x) = "queued" /\ (Owned(x) # {} \/ Starting(x))
QueuesHeld == \A x \in RtIds : QueueHeld(x)

Books == RunsHeld /\ HandlesHeld /\ CountsHeld /\ QueuesHeld
Counted == Books /\ StackHeld

-----------------------------------------------------------------------------
(* Steps that leave the books alone.                                       *)

SameRun(s, t) ==
  /\ t.rt = s.rt
  /\ t.waiters = s.waiters \/ (s.rt # NoRt /\ Mode(s.rt) = "restart")
  /\ s.rt # NoRt /\ s.pc \notin {"free", "loading"} => t.pc \notin {"free", "loading"}
SameRuns == \A r \in RunIds : SameRun(runs[r], runs'[r])
RowsKept == \A x \in RtIds : rts'[x].row = rts[x].row
SameCounts == \A x \in RtIds : rts'[x].row = rts[x].row /\ rts'[x].active = rts[x].active
SameHandles ==
  \A x \in RtIds : rts'[x].abort = rts[x].abort /\ rts'[x].promise = rts[x].promise
SameQueues ==
  \A x \in RtIds :
    rts'[x].queue # <<>> =>
      rts[x].queue # <<>> \/ (Mode(x) = "queued" /\ Owned(x) # {})
SameStart == stack' = stack \/ ~Top("start")

LEMMA SameOwned ==
  ASSUME \A r \in RunIds : runs'[r].rt = runs[r].rt, NEW x
  PROVE  Owned(x)' = Owned(x)
  BY DEF Owned

LEMMA BooksKept ==
  ASSUME Sound, Books, SameRuns, SameCounts, SameHandles, SameQueues, SameStart
  PROVE  Books'
  <1>1. \A x : Owned(x)' = Owned(x)
    BY SameOwned DEF SameRuns, SameRun
  <1>2. \A r \in RunIds : runs[r].rt \in RtIds \cup {NoRt}
    BY DEF Sound, GoodRun, Run
  <1>3. \A x \in RtIds : Mode(x)' = Mode(x)
    BY DEF SameCounts, Mode
  <1>4. \A x \in RtIds : rts[x].abort \in Callers /\ rts[x].promise \in Callers
    BY DEF Sound, GoodRuntime, Runtime, Callers
  <1>5. RunsHeld'
    BY <1>2, <1>3 DEF Books, RunsHeld, Live, SameRuns, SameRun
  <1>6. HandlesHeld'
    BY <1>4 DEF Books, HandlesHeld, SameRuns, SameRun, SameHandles, Callers
  <1>7. CountsHeld'
    BY <1>1, <1>3 DEF Books, CountsHeld, CountHeld, SameCounts, SameHandles
  <1>8. QueuesHeld'
    <2> SUFFICES ASSUME NEW x \in RtIds
                 PROVE  QueueHeld(x)'
      BY DEF QueuesHeld
    <2>1. QueueHeld(x)
      BY DEF Books, QueuesHeld
    <2>2. Starting(x) => Starting(x)'
      BY DEF SameStart, Starting, Top
    <2>3. QED
      BY <1>1, <1>3, <2>1, <2>2 DEF SameQueues, QueueHeld
  <1>9. QED
    BY <1>5, <1>6, <1>7, <1>8 DEF Books

LEMMA MayStartKept ==
  ASSUME SameCounts, NEW x \in RtIds
  PROVE  MayStart(x)' = MayStart(x) /\ Mode(x)' = Mode(x)
  BY DEF MayStart, Mode, SameCounts

LEMMA WokenKept ==
  ASSUME RowsKept, StackHeld, woken' = woken
  PROVE  woken' \in Seq(Restarts)'
  <1>1. Restarts' = Restarts
    BY DEF Restarts, InMode, Mode, RowsKept
  <1>2. QED
    BY <1>1 DEF StackHeld

\* The frame on top is popped.
LEMMA StackPopped ==
  ASSUME Sound, StackHeld, SameCounts, stack # <<>>, stack' = Tail(stack), woken' = woken
  PROVE  StackHeld'
  <1>1. Tail(stack) \in Seq(Calm)
    BY DEF StackHeld
  <1>2. Tail(stack) # <<>> => Head(Tail(stack)) \in Calm /\ Tail(Tail(stack)) \in Seq(Calm)
    BY <1>1, HeadTail
  <1>3. QED
    BY <1>2, WokenKept DEF StackHeld, RowsKept, SameCounts, Top, Calm

\* A stack whose top frame starts nothing.
LEMMA CalmStack ==
  ASSUME Sound, StackHeld, ~Top("start")
  PROVE  stack \in Seq(Calm)
  <1>1. CASE stack = <<>>
    BY <1>1
  <1>2. CASE stack # <<>>
    <2>1. Head(stack) \in Frames(Known) /\ stack = <<Head(stack)>> \o Tail(stack)
      BY <1>2, HeadTailProperties DEF Sound
    <2>2. Head(stack) \in Calm
      BY <1>2, <2>1 DEF Top, Calm, Frames, StartFrames, Frame, Known, Callers
    <2>3. QED
      BY <1>2, <2>1, <2>2, PushOne DEF StackHeld
  <1>3. QED
    BY <1>1, <1>2

LEMMA StackPushed ==
  ASSUME Sound, StackHeld, SameCounts, ~Top("start"), NEW s \in Seq(Calm),
         stack' = s \o stack, woken' = woken
  PROVE  StackHeld'
  <1>1. stack' \in Seq(Calm)
    BY CalmStack, Concat
  <1>2. stack' # <<>> => Head(stack') \in Calm /\ Tail(stack') \in Seq(Calm)
    BY <1>1, HeadTail
  <1>3. QED
    BY <1>2, WokenKept DEF StackHeld, RowsKept, SameCounts, Top, Calm

LEMMA StackKept ==
  ASSUME Sound, StackHeld, SameCounts, stack' = stack, woken' = woken
  PROVE  StackHeld'
  <1>1. Top("start") => Head(stack).rt \in RtIds
    BY TopFrame DEF Known
  <1>2. Top("start")' = Top("start")
    BY DEF Top
  <1>3. QED
    BY <1>1, <1>2, WokenKept, MayStartKept DEF StackHeld, RowsKept, SameCounts

\* executeTrigger decides to start a run.
LEMMA StackReplaced ==
  ASSUME Sound, StackHeld, SameCounts, stack # <<>>, NEW x \in RtIds, NEW c,
         MayStart(x), stack' = <<StartFrame(x, c)>> \o Tail(stack), woken' = woken
  PROVE  StackHeld'
  <1>1. Tail(stack) \in Seq(Calm)
    BY DEF StackHeld
  <1>2. Head(stack') = StartFrame(x, c) /\ Tail(stack') = Tail(stack)
    BY <1>1
  <1>3. MayStart(Head(stack).rt)'
    BY <1>2 DEF StartFrame, MayStart, Mode, SameCounts
  <1>4. QED
    BY <1>1, <1>2, <1>3, WokenKept DEF StackHeld, RowsKept, SameCounts

LEMMA SameRtsUnchanged ==
  ASSUME rts' = rts
  PROVE  SameCounts /\ SameHandles /\ SameQueues
  BY DEF SameCounts, SameHandles, SameQueues

LEMMA SameRunsUnchanged ==
  ASSUME runs' = runs
  PROVE  SameRuns
  BY DEF SameRuns, SameRun

-----------------------------------------------------------------------------
(* The operators that update runs keep the books.                          *)

LEMMA RunTyped ==
  ASSUME Sound, NEW r \in RunIds
  PROVE  runs[r] \in Run /\ runs[r].caller \in Callers
  BY DEF Sound, GoodRun, Run, Callers

LEMMA AnsweredSame ==
  ASSUME Sound, NEW c \in Callers, NEW r \in RunIds
  PROVE  SameRun(runs[r], Answered(runs, c)[r])
  <1>1. CASE c = NoRun
    BY <1>1 DEF Answered, SameRun
  <1>2. CASE c # NoRun
    BY <1>2, RunTyped DEF Answered, SameRun, Sound, Callers, Run
  <1>3. QED
    BY <1>1, <1>2

LEMMA AbortedSame ==
  ASSUME Sound, NEW s \in Run
  PROVE  SameRun(s, AbortedRun(s))
  BY DEF AbortedRun, SameRun, Run

LEMMA GotoSame ==
  ASSUME Sound, NEW q \in RunIds, NEW pc \in RunPc \ {"free", "loading"}, NEW r \in RunIds
  PROVE  SameRun(runs[r], Goto(q, pc)[r])
  BY RunTyped DEF Goto, SameRun, Sound, Run

-----------------------------------------------------------------------------
(* Counted is an invariant: one lemma per group of actions.                *)

LEMMA CountedSingle ==
  ASSUME Sound, Counted, TriggerSingle
  PROVE  Counted'
  <1> DEFINE x == Head(stack).rt
             c == Head(stack).run
  <1>1. x \in RtIds /\ c \in Callers /\ stack # <<>>
    BY TopFrame DEF TriggerSingle, Known
  <1>2. SameRuns
    BY <1>1, AnsweredSame, SameRunsUnchanged DEF TriggerSingle, SameRuns
  <1>3. SameCounts /\ SameHandles /\ SameQueues
    BY SameRtsUnchanged DEF TriggerSingle
  <1>4. MayStart(x)
    BY DEF TriggerSingle, MayStart
  <1>5. stack' = Tail(stack) \/ stack' = <<StartFrame(x, c)>> \o Tail(stack)
    BY DEF TriggerSingle, Replace
  <1>6. StackHeld'
    BY <1>1, <1>3, <1>4, <1>5, StackPopped, StackReplaced DEF TriggerSingle, Counted
  <1>7. QED
    BY <1>2, <1>3, <1>6, BooksKept DEF Counted, SameStart, Top, TriggerSingle

LEMMA CountedRestart ==
  ASSUME Sound, Counted, TriggerRestart
  PROVE  Counted'
  <1> DEFINE x == Head(stack).rt
             c == Head(stack).run
             a == rts[x].abort
             p == rts[x].promise
             waiting == [Aborted(runs, a) EXCEPT ![p].waiters = Append(@, c)]
  <1>1. x \in RtIds /\ c \in Callers /\ stack # <<>>
    BY TopFrame DEF TriggerRestart, Known
  <1>2. a \in Callers /\ p \in Callers
    BY <1>1 DEF Sound, GoodRuntime, Runtime, Callers
  <1>3. ASSUME a # NoRun, NEW r \in RunIds
        PROVE  SameRun(runs[r], Aborted(runs, a)[r])
    <2>1. CASE r = a
      BY <2>1, AbortedSame, RunTyped DEF Aborted, Sound
    <2>2. CASE r # a
      BY <2>2 DEF Aborted, Sound, SameRun
    <2>3. QED
      BY <2>1, <2>2
  <1>4. ASSUME a # NoRun, p # NoRun, NEW r \in RunIds
        PROVE  SameRun(runs[r], waiting[r])
    <2> DEFINE rs == Aborted(runs, a)
    <2>1. rs \in [RunIds -> Run]
      <3>1. a \in RunIds /\ runs \in [RunIds -> GoodRun(Known)]
        BY <1>2, <1>4 DEF Sound, Callers
      <3>2. rs \in [RunIds -> GoodRun(Known)]
        BY <3>1, AbortedGood
      <3> HIDE DEF rs
      <3>3. QED
        BY <3>2 DEF GoodRun
    <2>2. SameRun(runs[r], rs[r])
      BY <1>3, <1>4
    <2> HIDE DEF rs
    <2>3. CASE r # p
      <3>1. waiting = [rs EXCEPT ![p].waiters = Append(@, c)]
        BY DEF rs
      <3>2. waiting[r] = rs[r]
        BY <2>1, <2>3, <3>1
      <3>3. QED
        BY <2>2, <3>2
    <2>4. CASE r = p
      <3>1. runs[r].rt = x /\ Mode(x) = "restart"
        BY <1>1, <1>4, <2>4 DEF Counted, Books, HandlesHeld, TriggerRestart
      <3>2. waiting[r].rt = rs[r].rt /\ waiting[r].pc = rs[r].pc
        BY <2>1, <2>4 DEF rs, Run
      <3>3. runs[r].rt # NoRt
        BY <1>1, <3>1, BoundAssumption
      <3>4. PICK w : w = waiting[r]
        OBVIOUS
      <3>5. w.rt = rs[r].rt /\ w.pc = rs[r].pc
        BY <3>2, <3>4
      <3>6. SameRun(runs[r], w)
        BY <2>2, <3>1, <3>3, <3>5 DEF SameRun
      <3>7. QED
        BY <3>4, <3>6
    <2>5. QED
      BY <2>3, <2>4
  <1>5. /\ \/ runs' = runs
           \/ a # NoRun /\ runs' = Aborted(runs, a)
           \/ a # NoRun /\ p # NoRun /\ runs' = waiting
        /\ stack' = Tail(stack) \/ stack' = <<StartFrame(x, c)>> \o Tail(stack)
    BY DEF TriggerRestart, Replace
  <1>6. SameRuns
    BY <1>3, <1>4, <1>5, SameRunsUnchanged DEF SameRuns
  <1>7. SameCounts /\ SameHandles /\ SameQueues
    BY SameRtsUnchanged DEF TriggerRestart
  <1>8. MayStart(x)
    BY DEF TriggerRestart, MayStart
  <1>9. StackHeld'
    BY <1>1, <1>5, <1>7, <1>8, StackPopped, StackReplaced DEF TriggerRestart, Counted
  <1>10. QED
    BY <1>6, <1>7, <1>9, BooksKept DEF Counted, SameStart, Top, TriggerRestart

\* The number of runs of an object is a natural number.
LEMMA OwnedFinite ==
  ASSUME NEW x
  PROVE  IsFiniteSet(Owned(x)) /\ Cardinality(Owned(x)) \in Nat
  <1>1. IsFiniteSet(RunIds)
    BY FS_Interval, BoundAssumption
  <1>2. QED
    BY <1>1, FS_Subset, FS_CardinalityType DEF Owned

LEMMA CountedQueued ==
  ASSUME Sound, Counted, TriggerQueued
  PROVE  Counted'
  <1> DEFINE x == Head(stack).rt
             c == Head(stack).run
             v == [rts[x] EXCEPT !.queue = Append(@, c)]
  <1>1. x \in Known /\ x \in RtIds /\ c \in Callers /\ stack # <<>>
    BY TopFrame DEF TriggerQueued, Known
  <1>2. rts[x] \in Runtime /\ rts[x].row # NoRow
    BY <1>1, RowAssumption DEF Sound, GoodRuntime, Known
  <1>3. SameRuns
    BY <1>1, AnsweredSame, SameRunsUnchanged DEF TriggerQueued, SameRuns
  <1>4. rts' = rts \/ rts' = [rts EXCEPT ![x] = v]
    BY <1>1 DEF TriggerQueued, Sound
  <1>5. /\ v.row = rts[x].row /\ v.active = rts[x].active
        /\ v.abort = rts[x].abort /\ v.promise = rts[x].promise
    BY <1>2 DEF Runtime
  <1> HIDE DEF v
  <1>6. SameCounts /\ SameHandles
    BY <1>1, <1>4, <1>5 DEF SameCounts, SameHandles, Sound
  <1>7. SameQueues
    <2>1. CASE rts' = rts
      BY <2>1, SameRtsUnchanged
    <2>2. CASE rts' # rts
      <3>1. Busy(x) /\ Mode(x) = "queued"
        BY <2>2 DEF TriggerQueued
      <3>2. CountHeld(x)
        BY <1>1 DEF Counted, Books, CountsHeld
      <3>3. Owned(x) # {}
        BY <1>2, <3>1, <3>2, FS_EmptySet DEF CountHeld, Busy
      <3>4. \A y \in RtIds \ {x} : rts'[y] = rts[y]
        BY <1>4 DEF Sound
      <3>5. QED
        BY <1>1, <3>1, <3>3, <3>4 DEF SameQueues
    <2>3. QED
      BY <2>1, <2>2
  <1>8. \/ stack' = Tail(stack)
        \/ ~Busy(x) /\ stack' = <<StartFrame(x, c)>> \o Tail(stack)
    BY DEF TriggerQueued, Replace
  <1>9. ~Busy(x) => MayStart(x)
    <2>1. Mode(x) = "queued" => rts[x].active \in Nat
      BY <1>1, <1>2, OwnedFinite DEF Counted, Books, CountsHeld, CountHeld
    <2>2. QED
      BY <2>1 DEF Busy, MayStart, TriggerQueued
  <1>10. StackHeld'
    BY <1>1, <1>6, <1>8, <1>9, StackPopped, StackReplaced DEF TriggerQueued, Counted
  <1>11. QED
    BY <1>3, <1>6, <1>7, <1>10, BooksKept DEF Counted, SameStart, Top, TriggerQueued

LEMMA CountedParallel ==
  ASSUME Sound, Counted, TriggerParallel
  PROVE  Counted'
  <1> DEFINE x == Head(stack).rt
             c == Head(stack).run
  <1>1. x \in RtIds /\ c \in Callers /\ stack # <<>>
    BY TopFrame DEF TriggerParallel, Known
  <1>2. SameRuns
    BY <1>1, AnsweredSame, SameRunsUnchanged DEF TriggerParallel, SameRuns
  <1>3. SameCounts /\ SameHandles /\ SameQueues
    BY SameRtsUnchanged DEF TriggerParallel
  <1>4. \/ stack' = Tail(stack)
        \/ ~(rts[x].active >= MaxParallel) /\ stack' = <<StartFrame(x, c)>> \o Tail(stack)
    BY DEF TriggerParallel, Replace
  <1>5. ~(rts[x].active >= MaxParallel) => MayStart(x)
    <2>1. rts[x].active \in Int
      BY <1>1 DEF Sound, GoodRuntime, Runtime
    <2>2. QED
      BY <2>1, BoundAssumption DEF TriggerParallel, MayStart
  <1>6. StackHeld'
    BY <1>1, <1>3, <1>4, <1>5, StackPopped, StackReplaced DEF TriggerParallel, Counted
  <1>7. QED
    BY <1>2, <1>3, <1>6, BooksKept DEF Counted, SameStart, Top, TriggerParallel

\* A step that changes one run and neither rts nor woken.
LEMMA BooksUpdate ==
  ASSUME Sound, Counted, NEW r \in RunIds, NEW s, SameRun(runs[r], s),
         runs' = [runs EXCEPT ![r] = s], rts' = rts, SameStart
  PROVE  Books'
  <1>1. \A q \in RunIds : SameRun(runs[q], runs'[q])
    BY DEF Sound, SameRun
  <1>2. QED
    BY <1>1, SameRtsUnchanged, BooksKept DEF SameRuns, Counted

LEMMA CountedUpdate ==
  ASSUME Sound, Counted, NEW r \in RunIds, NEW s, SameRun(runs[r], s),
         runs' = [runs EXCEPT ![r] = s], UNCHANGED <<rts, stack, woken>>
  PROVE  Counted'
  BY BooksUpdate, StackKept, SameRtsUnchanged DEF Counted, SameStart

LEMMA CountedGoto ==
  ASSUME Sound, Counted, NEW r \in RunIds, NEW pc \in RunPc \ {"free", "loading"},
         runs' = Goto(r, pc), rts' = rts, SameStart
  PROVE  Books'
  BY GotoSame, BooksKept, SameRtsUnchanged DEF SameRuns, Counted

LEMMA CountedFinish ==
  ASSUME Sound, Counted, NEW r \in RunIds, Finish(r)
  PROVE  Counted'
  <1> DEFINE s == [runs[r] EXCEPT !.pc = "settled", !.todo = <<>>]
  <1>1. SameRun(runs[r], s)
    BY RunTyped DEF SameRun, Run
  <1>2. runs' = [runs EXCEPT ![r] = s]
    BY DEF Finish, Sound
  <1>3. QED
    BY <1>1, <1>2, CountedUpdate DEF Finish

LEMMA CountedLog ==
  ASSUME Sound, Counted, NEW r \in RunIds, Log(r)
  PROVE  Counted'
  <1>1. Books'
    BY CountedGoto DEF Log, RunPc, SameStart
  <1>2. QED
    BY <1>1, StackKept, SameRtsUnchanged DEF Log, Counted

LEMMA CountedAwait ==
  ASSUME Sound, Counted, NEW r \in RunIds, Await(r)
  PROVE  Counted'
  <1>1. Suspending[Head(runs[r].todo).type] \in RunPc \ {"free", "loading"}
    BY DEF Await, Reaches, Suspending, RunPc
  <1>2. Books'
    BY <1>1, CountedGoto DEF Await, SameStart
  <1>3. QED
    BY <1>2, StackKept, SameRtsUnchanged DEF Await, Counted

LEMMA CountedCondition ==
  ASSUME Sound, Counted, NEW r \in RunIds, Condition(r)
  PROVE  Counted'
  <1>1. PICK todo : runs' = [runs EXCEPT ![r].todo = todo]
    BY DEF Condition
  <1> DEFINE s == [runs[r] EXCEPT !.todo = todo]
  <1>2. SameRun(runs[r], s)
    BY RunTyped DEF SameRun, Run
  <1>3. runs' = [runs EXCEPT ![r] = s]
    BY <1>1 DEF Sound
  <1>4. QED
    BY <1>2, <1>3, CountedUpdate DEF Condition

\* The triggers a device update delivers start nothing by themselves.
LEMMA TriggersCalm ==
  ASSUME Sound, NEW d, NEW s \in Deliveries(d)
  PROVE  TriggerFrames(s) \in Seq(Calm)
  <1>1. TriggerFrames(s) \in Seq(Frames(Known))
    BY TriggerFramesGood
  <1>2. \A k \in 1 .. Len(TriggerFrames(s)) : TriggerFrames(s)[k].kind = "trigger"
    BY DEF TriggerFrames, TriggerFrame
  <1>3. \A k \in 1 .. Len(TriggerFrames(s)) : TriggerFrames(s)[k] \in Calm
    <2> TAKE k \in 1 .. Len(TriggerFrames(s))
    <2>1. TriggerFrames(s)[k] \in Frames(Known)
      BY <1>1
    <2>2. QED
      BY <1>2, <2>1 DEF Calm, Frames, StartFrames, Frame, Known, Callers
  <1>4. QED
    BY <1>1, <1>3

LEMMA TriggerCalm ==
  ASSUME NEW x \in Known, NEW c \in Callers
  PROVE  <<TriggerFrame(x, c)>> \in Seq(Calm)
  <1>1. TriggerFrame(x, c) \in Calm
    BY DEF TriggerFrame, Calm, Frame, Known, Callers
  <1>2. QED
    BY <1>1

LEMMA RunCalm ==
  ASSUME NEW r \in RunIds
  PROVE  <<RunFrame(r)>> \in Seq(Calm)
  <1>1. RunFrame(r) \in Calm
    BY DEF RunFrame, Calm, Frame
  <1>2. QED
    BY <1>1

LEMMA CountedHelperCommand ==
  ASSUME Sound, Counted, NEW r \in RunIds, HelperCommand(r)
  PROVE  Counted'
  <1>1. PICK s \in Deliveries(Head(runs[r].todo).device) :
          stack' = TriggerFrames(s) \o stack
    BY DEF HelperCommand, Push
  <1>2. ~Top("start")
    BY DEF HelperCommand, Reaches, Top
  <1>3. Books'
    BY <1>2, CountedGoto DEF HelperCommand, RunPc, SameStart
  <1>4. StackHeld'
    BY <1>1, <1>2, TriggersCalm, StackPushed, SameRtsUnchanged DEF HelperCommand, Counted
  <1>5. QED
    BY <1>3, <1>4 DEF Counted

\* A slot that is not in use belongs to no runtime and is awaited by nobody.
LEMMA FreeSlotEmpty ==
  ASSUME Sound, Counted, NEW q \in RunIds, ~Live(q)
  PROVE  runs[q].rt = NoRt /\ runs[q].waiters = <<>>
  BY DEF Counted, Books, RunsHeld, Live

LEMMA CountedCall ==
  ASSUME Sound, Counted, NEW r \in RunIds, Call(r)
  PROVE  Counted'
  <1> DEFINE i == Head(runs[r].todo).target
             depth == runs[r].depth + 1
  <1>1. runs[r].todo # <<>> /\ Head(runs[r].todo).type = "call_automation"
    BY DEF Call, Reaches
  <1>2. Head(runs[r].todo) \in Action
    BY <1>1, TopRun, HeadTail DEF Program, Join
  <1>3. i \in Ids
    BY <1>1, <1>2, ActionAssumption
  <1>4. ~Top("start") /\ UNCHANGED <<rts, woken>> /\ SameCounts /\ SameHandles /\ SameQueues
    BY SameRtsUnchanged DEF Call, Reaches, Top
  <1>5. \/ runs' = Goto(r, "resume") /\ UNCHANGED stack
        \/ /\ runtimes[i] # NoRt /\ runs' = Goto(r, "calling")
           /\ Push(<<TriggerFrame(runtimes[i], r)>>)
        \/ /\ \E q \in RunIds :
                 FreeSlot(q) /\ runs' = [Goto(r, "calling") EXCEPT ![q] = Loading(i, depth, r)]
           /\ UNCHANGED stack
    BY DEF Call
  <1> HIDE DEF i, depth
  <1>6. CASE runs' = Goto(r, "resume") /\ UNCHANGED stack
    BY <1>4, <1>6, CountedGoto, StackKept DEF RunPc, Counted, SameStart
  <1>7. CASE /\ runtimes[i] # NoRt /\ runs' = Goto(r, "calling")
             /\ Push(<<TriggerFrame(runtimes[i], r)>>)
    <2>1. <<TriggerFrame(runtimes[i], r)>> \in Seq(Calm)
      BY <1>3, <1>7, RegisteredGood, TriggerCalm DEF Callers
    <2>2. StackHeld'
      BY <1>4, <1>7, <2>1, StackPushed DEF Push, Counted
    <2>3. QED
      BY <1>4, <1>7, <2>2, CountedGoto DEF RunPc, Counted, SameStart
  <1>8. ASSUME NEW q \in RunIds, FreeSlot(q), UNCHANGED stack,
               runs' = [Goto(r, "calling") EXCEPT ![q] = Loading(i, depth, r)]
        PROVE  Counted'
    <2>1. SameRun(runs[q], Loading(i, depth, r))
      BY <1>8, FreeSlotEmpty DEF FreeSlot, SameRun, Loading
    <2>2. \A p \in RunIds : SameRun(runs[p], Goto(r, "calling")[p])
      BY GotoSame DEF RunPc
    <2>3. Goto(r, "calling") \in [RunIds -> GoodRun(Known)]
      BY <1>1, GotoGood DEF RunPc
    <2>4. SameRuns
      BY <1>8, <2>1, <2>2, <2>3 DEF SameRuns
    <2>5. QED
      BY <1>4, <1>8, <2>4, BooksKept, StackKept DEF Counted, SameStart
  <1>9. QED
    BY <1>5, <1>6, <1>7, <1>8

LEMMA CountedResume ==
  ASSUME Sound, Counted, NEW r \in RunIds, Resume(r)
  PROVE  Counted'
  <1> DEFINE s == [runs[r] EXCEPT !.pc = "running"]
  <1>1. SameRun(runs[r], s)
    BY RunTyped DEF SameRun, Run
  <1>2. runs' = [runs EXCEPT ![r] = s]
    BY DEF Resume, Sound
  <1>3. ~Top("start") /\ stack' = <<RunFrame(r)>> \o stack
    BY DEF Resume, Push, Top
  <1>4. StackHeld'
    BY <1>3, RunCalm, StackPushed, SameRtsUnchanged DEF Resume, Counted
  <1>5. QED
    BY <1>1, <1>2, <1>3, <1>4, BooksUpdate DEF Resume, Counted, SameStart

LEMMA LoadingFree ==
  ASSUME Counted, NEW r \in RunIds, runs[r].pc = "loading"
  PROVE  runs[r].rt = NoRt
  BY DEF Counted, Books, RunsHeld

\* A run that belongs to no runtime ends: its slot is freed.
LEMMA ReleasedSame ==
  ASSUME Sound, Counted, NEW r \in RunIds, runs[r].rt = NoRt,
         runs' = Released(r, runs[r].caller), UNCHANGED <<rts, stack, woken>>
  PROVE  Counted'
  <1>1. runs[r].waiters = <<>>
    BY DEF Counted, Books, RunsHeld
  <1>2. SameRun(runs[r], FreeRun)
    BY <1>1 DEF SameRun, FreeRun
  <1>3. runs[r].caller \in Callers
    BY RunTyped
  <1>4. Answered(runs, runs[r].caller) \in [RunIds -> GoodRun(Known)]
    BY <1>3, AnsweredGood DEF Sound
  <1>5. \A q \in RunIds : SameRun(runs[q], Answered(runs, runs[r].caller)[q])
    BY <1>3, AnsweredSame
  <1>6. SameRuns
    BY <1>2, <1>4, <1>5 DEF SameRuns, Released
  <1>7. QED
    BY <1>6, BooksKept, StackKept, SameRtsUnchanged DEF Counted, SameStart

LEMMA CountedSettleManual ==
  ASSUME Sound, Counted, NEW r \in RunIds, SettleManual(r)
  PROVE  Counted'
  BY ReleasedSame DEF SettleManual

LEMMA CountedTimer ==
  ASSUME Sound, Counted, NEW r \in RunIds, Timer(r)
  PROVE  Counted'
  <1>1. CASE CommandEnds(r) \/ DelayEnds(r)
    <2> DEFINE s == [runs[r] EXCEPT !.pc = "resume"]
    <2>1. SameRun(runs[r], s)
      BY RunTyped DEF SameRun, Run
    <2>2. runs' = [runs EXCEPT ![r] = s]
      BY <1>1 DEF CommandEnds, DelayEnds, Sound
    <2>3. QED
      BY <1>1, <2>1, <2>2, CountedUpdate DEF CommandEnds, DelayEnds
  <1>2. CASE ExecutionTimeout(r)
    <2>1. SameRun(runs[r], AbortedRun(runs[r]))
      BY RunTyped, AbortedSame
    <2>2. runs' = [runs EXCEPT ![r] = AbortedRun(runs[r])]
      BY <1>2 DEF ExecutionTimeout, Aborted, Sound
    <2>3. QED
      BY <1>2, <2>1, <2>2, CountedUpdate DEF ExecutionTimeout
  <1>3. CASE LoadReturns(r)
    <2>1. ~Top("start")
      BY <1>3 DEF LoadReturns, Quiet, Top
    <2>2. \/ /\ \E todo : runs' = [runs EXCEPT ![r].pc = "running", ![r].id = NoRow,
                                               ![r].todo = todo]
             /\ Push(<<RunFrame(r)>>)
          \/ /\ runs' = Released(r, runs[r].caller)
             /\ UNCHANGED stack
      BY <1>3 DEF LoadReturns
    <2>3. ASSUME NEW todo, Push(<<RunFrame(r)>>),
                 runs' = [runs EXCEPT ![r].pc = "running", ![r].id = NoRow, ![r].todo = todo]
          PROVE  Counted'
      <3> DEFINE s == [runs[r] EXCEPT !.pc = "running", !.id = NoRow, !.todo = todo]
      <3>1. SameRun(runs[r], s)
        BY RunTyped DEF SameRun, Run
      <3>2. runs' = [runs EXCEPT ![r] = s]
        BY <2>3 DEF Sound
      <3>3. StackHeld'
        BY <1>3, <2>1, <2>3, RunCalm, StackPushed, SameRtsUnchanged
           DEF LoadReturns, Push, Counted
      <3>4. QED
        BY <1>3, <2>1, <3>1, <3>2, <3>3, BooksUpdate DEF LoadReturns, Counted, SameStart
    <2>4. CASE runs' = Released(r, runs[r].caller) /\ UNCHANGED stack
      <3>1. runs[r].rt = NoRt
        BY <1>3, LoadingFree DEF LoadReturns
      <3>2. QED
        BY <1>3, <2>4, <3>1, ReleasedSame DEF LoadReturns
    <2>5. QED
      BY <2>2, <2>3, <2>4
  <1>4. QED
    BY <1>1, <1>2, <1>3 DEF Timer

\* A restart-mode trigger that waited goes on.
LEMMA CountedWake ==
  ASSUME Sound, Counted, Wake
  PROVE  Counted'
  <1>1. Head(woken) \in Restarts /\ Tail(woken) \in Seq(Restarts)
    BY HeadTail DEF Wake, Counted, StackHeld
  <1>2. Restarts' = Restarts
    BY DEF Wake, Restarts, InMode, Mode
  <1>3. stack' = <<Head(woken)>> \o <<>>
    BY DEF Wake, Push
  <1>4. Head(stack') = Head(woken) /\ Tail(stack') = <<>>
    BY <1>3
  <1>5. MayStart(Head(woken).rt)
    BY <1>1 DEF Restarts, InMode, MayStart
  <1>6. MayStart(Head(stack).rt)'
    BY <1>4, <1>5 DEF MayStart, Mode, Wake
  <1>7. <<>> \in Seq(Calm)
    OBVIOUS
  <1>8. StackHeld'
    BY <1>1, <1>2, <1>4, <1>6, <1>7 DEF StackHeld, Wake
  <1>9. Books'
    BY BooksKept, SameRtsUnchanged, SameRunsUnchanged DEF Wake, Counted, SameStart, Top
  <1>10. QED
    BY <1>8, <1>9 DEF Counted

-----------------------------------------------------------------------------
(* Starting and ending a run of a runtime object.                          *)

\* The runtime object of a run, and the runs in the handles of an object.
LEMMA RtOfRun ==
  ASSUME Sound, NEW r \in RunIds, runs[r].rt # NoRt
  PROVE  runs[r].rt \in RtIds
  BY SettledRuntime

LEMMA HandleOf ==
  ASSUME Sound, NEW x \in RtIds
  PROVE  rts[x].abort \in Callers /\ rts[x].promise \in Callers
  BY DEF Sound, GoodRuntime, Runtime, Callers

LEMMA CountedStart ==
  ASSUME Sound, Counted, NEW r \in RunIds, StartRun(r)
  PROVE  Counted'
  <1> PICK x, c : x = Head(stack).rt /\ c = Head(stack).run
    OBVIOUS
  <1>1. x \in Known /\ x \in RtIds /\ stack # <<>> /\ rts[x].row # NoRow
    BY TopFrame, RowAssumption DEF StartRun, Known
  <1>2. rts[x] \in Runtime /\ rts[x].active \in Int /\ rts \in [RtIds -> Runtime]
    BY <1>1 DEF Sound, GoodRuntime, Runtime
  <1>3. MayStart(x)
    BY DEF StartRun, Counted, StackHeld
  <1>4. runs[r].rt = NoRt /\ runs[r].waiters = <<>> /\ runs \in [RunIds -> Run]
    BY FreeSlotEmpty DEF StartRun, FreeSlot, Sound, GoodRun
  <1>5. PICK todo : runs' = [runs EXCEPT ![r] = StartedRun(x, todo, c)]
    BY DEF StartRun
  <1>6. /\ runs'[r].rt = x /\ runs'[r].pc = "running" /\ runs'[r].waiters = <<>>
        /\ \A q \in RunIds \ {r} : runs'[q] = runs[q]
    BY <1>4, <1>5 DEF StartedRun
  <1>7. /\ rts'[x].row = rts[x].row /\ rts'[x].promise = rts[x].promise
        /\ rts'[x].queue = rts[x].queue
        /\ rts'[x].abort = IF Mode(x) = "parallel" THEN rts[x].abort ELSE r
        /\ rts'[x].active = IF Mode(x) \in {"queued", "parallel"} THEN rts[x].active + 1
                                                                 ELSE rts[x].active
        /\ \A y \in RtIds \ {x} : rts'[y] = rts[y]
    BY <1>1, <1>2 DEF StartRun, Runtime
  <1>8. \A y \in RtIds : Mode(y)' = Mode(y) /\ rts'[y].row = rts[y].row
    BY <1>7 DEF Mode
  <1>9. Owned(x)' = Owned(x) \cup {r} /\ r \notin Owned(x)
    BY <1>1, <1>4, <1>6, BoundAssumption DEF Owned
  <1>10. \A y \in RtIds \ {x} : Owned(y)' = Owned(y)
    BY <1>4, <1>6, BoundAssumption DEF Owned
  <1>11. Cardinality(Owned(x)') = Cardinality(Owned(x)) + 1
    BY <1>9, OwnedFinite, FS_AddElement
  <1>12. RunsHeld'
    BY <1>6, <1>8, RtOfRun DEF Counted, Books, RunsHeld
  <1>13. HandlesHeld'
    BY <1>4, <1>6, <1>7, HandleOf, BoundAssumption DEF Counted, Books, HandlesHeld, Callers
  <1>14. CountsHeld'
    <2>1. CountHeld(x)'
      <3>1. CountHeld(x)
        BY <1>1 DEF Counted, Books, CountsHeld
      <3>2. Cardinality(Owned(x)) \in Nat
        BY OwnedFinite
      <3>3. QED
        BY <1>1, <1>2, <1>3, <1>7, <1>8, <1>11, <3>1, <3>2, BoundAssumption
           DEF CountHeld, MayStart
    <2>2. \A y \in RtIds \ {x} : CountHeld(y)'
      BY <1>7, <1>8, <1>10 DEF Counted, Books, CountsHeld, CountHeld
    <2>3. QED
      BY <2>1, <2>2 DEF CountsHeld
  <1>15. StackHeld'
    <2>1. stack' = <<RunFrame(r)>> \o Tail(stack) /\ Tail(stack) \in Seq(Calm)
      BY <1>1 DEF StartRun, Replace, Counted, StackHeld
    <2>2. Head(stack') = RunFrame(r) /\ Tail(stack') = Tail(stack)
      BY <2>1
    <2>3. woken' \in Seq(Restarts)'
      BY <1>8, WokenKept DEF RowsKept, StartRun, Counted
    <2>4. ~Top("start")'
      BY <2>2 DEF Top, RunFrame
    <2>5. QED
      BY <2>1, <2>2, <2>3, <2>4 DEF StackHeld
  <1>16. QueuesHeld'
    <2> SUFFICES ASSUME NEW y \in RtIds
                 PROVE  QueueHeld(y)'
      BY DEF QueuesHeld
    <2>1. QueueHeld(y) /\ Mode(y)' = Mode(y) /\ rts'[y].queue = rts[y].queue
      BY <1>1, <1>7, <1>8 DEF Counted, Books, QueuesHeld
    <2>2. CASE y = x
      BY <1>9, <2>1, <2>2 DEF QueueHeld
    <2>3. CASE y # x
      BY <1>10, <2>1, <2>3 DEF QueueHeld, Starting
    <2>4. QED
      BY <2>2, <2>3
  <1>17. QED
    BY <1>12, <1>13, <1>14, <1>15, <1>16 DEF Counted, Books

\* Run r of the object x ends; its callback clears the handles of x and, in
\* the counting modes, decrements the counter.
LEMMA BooksFreed ==
  ASSUME Sound, Counted, NEW r \in RunIds, NEW c \in Callers, NEW x,
         x = runs[r].rt, x # NoRt, runs' = Released(r, c), RowsKept,
         \A y \in RtIds \ {x} : rts'[y] = rts[y],
         rts'[x].abort = NoRun, rts'[x].promise = NoRun, ~Top("start"),
         rts'[x].queue # <<>> => Mode(x) = "queued" /\ Starting(x)',
         Mode(x) \in {"queued", "parallel"} => rts'[x].active = rts[x].active - 1
  PROVE  Books'
  <1>1. x \in RtIds /\ rts[x].active \in Int /\ rts[x].row # NoRow
    BY SettledRuntime, RowAssumption DEF GoodRuntime, Runtime, Known
  <1>2. Answered(runs, c) \in [RunIds -> GoodRun(Known)]
    BY AnsweredGood DEF Sound
  <1>3. \A q \in RunIds : SameRun(runs[q], Answered(runs, c)[q])
    BY AnsweredSame
  <1>4. /\ runs'[r] = FreeRun
        /\ \A q \in RunIds \ {r} : SameRun(runs[q], runs'[q])
    BY <1>2, <1>3 DEF Released
  <1>5. runs'[r].rt = NoRt /\ runs'[r].waiters = <<>>
    BY <1>4 DEF FreeRun
  <1>6. Owned(x)' = Owned(x) \ {r} /\ r \in Owned(x)
    BY <1>4, <1>5 DEF Owned, SameRun
  <1>7. \A y \in RtIds \ {x} : Owned(y)' = Owned(y)
    <2> TAKE y \in RtIds \ {x}
    <2>1. y # NoRt
      BY BoundAssumption
    <2>2. QED
      BY <1>4, <1>5, <2>1 DEF Owned, SameRun
  <1>8. Cardinality(Owned(x)') = Cardinality(Owned(x)) - 1
    BY <1>6, OwnedFinite, FS_RemoveElement
  <1>9. \A y \in RtIds : Mode(y)' = Mode(y) /\ rts'[y].row = rts[y].row
    BY DEF RowsKept, Mode
  <1>10. RunsHeld'
    BY <1>4, <1>5, <1>9, RtOfRun DEF Counted, Books, RunsHeld, SameRun
  <1>11. HandlesHeld'
    <2> SUFFICES ASSUME NEW y \in RtIds
                 PROVE  /\ rts'[y].abort # NoRun => runs'[rts'[y].abort].rt = y
                        /\ rts'[y].promise # NoRun => runs'[rts'[y].promise].rt = y
      BY DEF HandlesHeld
    <2>1. CASE y = x
      BY <2>1
    <2>2. CASE y # x
      <3>1. /\ rts'[y] = rts[y]
            /\ rts[y].abort # NoRun => runs[rts[y].abort].rt = y
            /\ rts[y].promise # NoRun => runs[rts[y].promise].rt = y
        BY <2>2 DEF Counted, Books, HandlesHeld
      <3>2. rts[y].abort \in Callers /\ rts[y].promise \in Callers
        BY HandleOf
      <3>3. QED
        BY <1>4, <2>2, <3>1, <3>2 DEF Callers, SameRun
    <2>3. QED
      BY <2>1, <2>2
  <1>12. CountHeld(x)'
    <2>1. CountHeld(x)
      BY <1>1 DEF Counted, Books, CountsHeld
    <2>2. QED
      BY <1>1, <1>8, <1>9, <2>1, BoundAssumption DEF CountHeld
  <1>13. \A y \in RtIds \ {x} : CountHeld(y)'
    BY <1>7, <1>9 DEF Counted, Books, CountsHeld, CountHeld
  <1>14. QueuesHeld'
    <2> SUFFICES ASSUME NEW y \in RtIds
                 PROVE  QueueHeld(y)'
      BY DEF QueuesHeld
    <2>1. CASE y = x
      BY <1>9, <2>1 DEF QueueHeld
    <2>2. CASE y # x
      BY <1>7, <1>9, <2>2 DEF Counted, Books, QueuesHeld, QueueHeld, Starting
    <2>3. QED
      BY <2>1, <2>2
  <1>15. QED
    BY <1>10, <1>11, <1>12, <1>13, <1>14 DEF Books, CountsHeld

LEMMA CountedSettleExclusive ==
  ASSUME Sound, Counted, NEW r \in RunIds, SettleExclusive(r)
  PROVE  Counted'
  <1> PICK x : x = runs[r].rt
    OBVIOUS
  <1>1. x \in RtIds /\ x # NoRt /\ rts[x] \in Runtime /\ rts[x].row # NoRow
    BY SettledRuntime, RowAssumption DEF SettleExclusive, GoodRuntime, Known
  <1>2. /\ rts'[x] = Cleared(rts[x]) /\ \A y \in RtIds \ {x} : rts'[y] = rts[y]
        /\ Mode(x) \in {"single", "restart"}
    BY <1>1 DEF SettleExclusive, Sound
  <1>3. RowsKept
    BY <1>1, <1>2 DEF RowsKept, Cleared, Runtime
  <1>4. Books'
    <2>1. rts'[x].abort = NoRun /\ rts'[x].promise = NoRun
      BY <1>1, <1>2 DEF Cleared, Runtime
    <2>2. rts'[x].queue = <<>>
      BY <1>1, <1>2 DEF Cleared, Runtime, Counted, Books, QueuesHeld, QueueHeld
    <2>3. QED
      BY <1>1, <1>2, <1>3, <2>1, <2>2, BooksFreed DEF SettleExclusive, Callers, Top
  <1>5. Woken(r) \in Seq(Restarts)
    <2>1. runs[r].waiters \in Seq(Callers)
      BY <1>1, SettledRuntime
    <2>2. ASSUME NEW k \in 1 .. Len(runs[r].waiters)
          PROVE  StartFrame(x, runs[r].waiters[k]) \in Restarts
      <3>1. runs[r].waiters # <<>> /\ runs[r].waiters[k] \in Callers
        BY <2>1, <2>2
      <3>2. Mode(x) = "restart"
        BY <3>1 DEF Counted, Books, RunsHeld
      <3>3. StartFrame(x, runs[r].waiters[k]) \in Frame
        BY <1>1, <3>1 DEF StartFrame, Frame, Callers
      <3>4. StartFrame(x, runs[r].waiters[k]).rt = x
        BY DEF StartFrame
      <3>5. QED
        BY <1>1, <3>2, <3>3, <3>4 DEF Restarts, InMode
    <2>3. QED
      BY <2>1, <2>2 DEF Woken
  <1>6. Restarts' = Restarts
    BY <1>3 DEF Restarts, InMode, Mode, RowsKept
  <1>7. woken' \in Seq(Restarts)'
    BY <1>5, <1>6, Concat DEF SettleExclusive, Counted, StackHeld
  <1>8. StackHeld'
    BY <1>7 DEF SettleExclusive, StackHeld, Top
  <1>9. QED
    BY <1>4, <1>8 DEF Counted

LEMMA CountedSettleParallel ==
  ASSUME Sound, Counted, NEW r \in RunIds, SettleParallel(r)
  PROVE  Counted'
  <1> PICK x : x = runs[r].rt
    OBVIOUS
  <1>1. x \in RtIds /\ x # NoRt /\ rts[x] \in Runtime /\ rts[x].row # NoRow
    BY SettledRuntime, RowAssumption DEF SettleParallel, GoodRuntime, Known
  <1>2. /\ rts' = [rts EXCEPT ![x].active = rts[x].active - 1]
        /\ Mode(x) = "parallel"
    BY DEF SettleParallel, Decremented
  <1>3. /\ rts'[x].row = rts[x].row /\ rts'[x].active = rts[x].active - 1
        /\ rts'[x].abort = rts[x].abort /\ rts'[x].promise = rts[x].promise
        /\ rts'[x].queue = rts[x].queue
        /\ \A y \in RtIds \ {x} : rts'[y] = rts[y]
    BY <1>1, <1>2 DEF Sound, Runtime
  <1>4. rts[x].abort = NoRun /\ rts[x].promise = NoRun /\ rts[x].queue = <<>>
    BY <1>1, <1>2 DEF Counted, Books, CountsHeld, CountHeld, QueuesHeld, QueueHeld
  <1>5. RowsKept
    BY <1>3 DEF RowsKept
  <1>6. Books'
    BY <1>1, <1>3, <1>4, <1>5, BooksFreed DEF SettleParallel, Callers, Top
  <1>7. StackHeld'
    <2>1. woken' \in Seq(Restarts)'
      BY <1>5, WokenKept DEF SettleParallel, Counted
    <2>2. QED
      BY <2>1 DEF SettleParallel, StackHeld, Top
  <1>8. QED
    BY <1>6, <1>7 DEF Counted

LEMMA CountedSettleQueued ==
  ASSUME Sound, Counted, NEW r \in RunIds, SettleQueued(r)
  PROVE  Counted'
  <1> PICK x, c : x = runs[r].rt /\ c = runs[r].caller
    OBVIOUS
  <1>1. /\ x \in RtIds /\ x # NoRt /\ rts[x] \in Runtime /\ rts[x].row # NoRow
        /\ c \in Callers
    BY SettledRuntime, RowAssumption DEF SettleQueued, GoodRuntime, Known
  <1> PICK q : q = rts[x].queue
    OBVIOUS
  <1> DEFINE rest == IF q = <<>> THEN q ELSE Tail(q)
  <1>2. /\ rts' = [rts EXCEPT ![x].abort = NoRun, ![x].active = rts[x].active - 1,
                              ![x].queue = rest]
        /\ stack' = IF q = <<>> THEN <<>> ELSE <<StartFrame(x, Head(q))>>
        /\ ~Top("start")
    BY DEF SettleQueued, Decremented, Push, NextQueued, Top
  <1>3. /\ rts'[x].row = rts[x].row /\ rts'[x].active = rts[x].active - 1
        /\ rts'[x].abort = NoRun /\ rts'[x].promise = rts[x].promise
        /\ rts'[x].queue = rest
        /\ \A y \in RtIds \ {x} : rts'[y] = rts[y]
    <2> HIDE DEF rest
    <2>1. QED
      BY <1>1, <1>2 DEF Sound, Runtime
  <1>4. Mode(x) = "queued" /\ CountHeld(x)
    BY <1>1 DEF SettleQueued, Counted, Books, CountsHeld
  <1>5. RowsKept
    BY <1>3 DEF RowsKept
  <1>6. q # <<>> => Starting(x)' /\ Tail(stack') = <<>>
    <2> HAVE q # <<>>
    <2>1. stack' = <<StartFrame(x, Head(q))>>
      BY <1>2
    <2>2. Head(stack') = StartFrame(x, Head(q)) /\ Tail(stack') = <<>> /\ stack' # <<>>
      BY <2>1
    <2>3. QED
      BY <2>2 DEF Starting, Top, StartFrame
  <1>7. Books'
    <2>1. rts[x].promise = NoRun /\ (rest # <<>> => q # <<>>)
      BY <1>1, <1>4 DEF CountHeld
    <2>2. runs' = Released(r, c)
      BY DEF SettleQueued
    <2> HIDE DEF rest
    <2>3. QED
      BY <1>1, <1>2, <1>3, <1>4, <1>5, <1>6, <2>1, <2>2, BooksFreed
  <1>8. rts[x].active = 1
    <2>1. r \in Owned(x)
      BY DEF Owned
    <2>2. Cardinality(Owned(x)) # 0
      BY <2>1, OwnedFinite, FS_EmptySet
    <2>3. QED
      BY <1>1, <1>4, <2>2, OwnedFinite DEF CountHeld
  <1>9. MayStart(x)'
    BY <1>3, <1>4, <1>8 DEF MayStart, Mode
  <1>10. StackHeld'
    <2>1. woken' \in Seq(Restarts)'
      BY <1>5, WokenKept DEF SettleQueued, Counted
    <2>2. CASE q = <<>>
      BY <1>2, <2>1, <2>2 DEF StackHeld, Top
    <2>3. CASE q # <<>>
      <3>1. MayStart(Head(stack).rt)'
        BY <1>6, <1>9, <2>3 DEF Starting
      <3>2. <<>> \in Seq(Calm)
        OBVIOUS
      <3>3. QED
        BY <1>6, <2>1, <2>3, <3>1, <3>2 DEF StackHeld
    <2>4. QED
      BY <2>2, <2>3
  <1>11. QED
    BY <1>7, <1>10 DEF Counted

-----------------------------------------------------------------------------
(* Recording the promise, and the events.                                  *)

LEMMA CountedSuspend ==
  ASSUME Sound, Counted, NEW r \in RunIds, Suspend(r)
  PROVE  Counted'
  <1> PICK x, c : x = runs[r].rt /\ c = runs[r].caller
    OBVIOUS
  <1> DEFINE answered == Answered(runs, c)
             first == [answered EXCEPT ![r].prefix = FALSE, ![r].caller = NoRun]
             later == [runs EXCEPT ![r].prefix = FALSE]
  <1>1. c \in Callers /\ stack # <<>> /\ SameStart
    BY RunTyped DEF Suspend, Top, SameStart
  <1>2. answered \in [RunIds -> Run] /\ \A q \in RunIds : SameRun(runs[q], answered[q])
    <2>1. answered \in [RunIds -> GoodRun(Known)]
      BY <1>1, AnsweredGood DEF Sound
    <2>2. QED
      BY <1>1, <2>1, AnsweredSame DEF GoodRun
  <1> HIDE DEF answered
  <1>3. \A q \in RunIds : SameRun(runs[q], first[q])
    <2>1. \A q \in RunIds : /\ first[q].rt = answered[q].rt /\ first[q].pc = answered[q].pc
                            /\ first[q].waiters = answered[q].waiters
      BY <1>2 DEF Run
    <2> HIDE DEF first
    <2>2. QED
      BY <1>2, <2>1 DEF SameRun
  <1>4. \A q \in RunIds : SameRun(runs[q], later[q])
    <2>1. \A q \in RunIds : /\ later[q].rt = runs[q].rt /\ later[q].pc = runs[q].pc
                            /\ later[q].waiters = runs[q].waiters
      BY RunTyped DEF Sound, Run
    <2> HIDE DEF later
    <2>2. QED
      BY <2>1 DEF SameRun
  <1>5. \/ /\ runs[r].prefix /\ Mode(x) # "queued" /\ runs' = first
           /\ rts' = [rts EXCEPT ![x].promise = Recorded(x, r)]
        \/ runs' = later /\ rts' = rts
    BY DEF Suspend, answered
  <1>6. SameRuns
    BY <1>3, <1>4, <1>5 DEF SameRuns
  <1> HIDE DEF first, later
  <1>7. CASE rts' = rts
    BY <1>1, <1>6, <1>7, SameRtsUnchanged, BooksKept, StackPopped DEF Suspend, Counted
  <1>8. ASSUME runs[r].prefix, Mode(x) # "queued",
               rts' = [rts EXCEPT ![x].promise = Recorded(x, r)]
        PROVE  Counted'
    <2>1. x \in RtIds /\ rts[x] \in Runtime /\ x # NoRt
      BY <1>8, SettledRuntime, TopRun DEF GoodRun, GoodRuntime
    <2>2. /\ rts'[x].row = rts[x].row /\ rts'[x].active = rts[x].active
          /\ rts'[x].abort = rts[x].abort /\ rts'[x].promise = Recorded(x, r)
          /\ rts'[x].queue = rts[x].queue
          /\ \A y \in RtIds \ {x} : rts'[y] = rts[y]
      BY <1>8, <2>1 DEF Sound, Runtime
    <2>3. SameCounts /\ SameQueues
      BY <2>2 DEF SameCounts, SameQueues
    <2>4. CASE Mode(x) = "parallel"
      <3>1. SameHandles
        BY <2>2, <2>4 DEF SameHandles, Recorded
      <3>2. QED
        BY <1>1, <1>6, <2>3, <3>1, BooksKept, StackPopped DEF Suspend, Counted
    <2>5. CASE Mode(x) # "parallel"
      <3>1. \A y : Owned(y)' = Owned(y)
        BY <1>6, SameOwned DEF SameRuns, SameRun
      <3>2. \A y \in RtIds : Mode(y)' = Mode(y)
        BY <2>3 DEF SameCounts, Mode
      <3>3. RunsHeld'
        BY <1>6, <2>3, <3>2, RtOfRun DEF Counted, Books, RunsHeld, SameRuns, SameRun
      <3>4. rts'[x].promise = r /\ runs'[r].rt = x
        BY <1>6, <2>2, <2>5 DEF Recorded, SameRuns, SameRun
      <3>5. HandlesHeld'
        BY <1>6, <2>2, <3>4, HandleOf
           DEF Counted, Books, HandlesHeld, SameRuns, SameRun, Callers
      <3>6. \A y \in RtIds : CountHeld(y)'
        BY <1>8, <2>2, <2>5, <3>1, <3>2 DEF Counted, Books, CountsHeld, CountHeld
      <3>7. StackHeld'
        BY <1>1, <2>3, StackPopped DEF Suspend, Counted
      <3>8. QueuesHeld'
        BY <1>1, <2>3, <3>1, <3>2
           DEF Counted, Books, QueuesHeld, QueueHeld, SameQueues, SameStart, Starting,
               Suspend, Top
      <3>9. QED
        BY <3>3, <3>5, <3>6, <3>7, <3>8 DEF Counted, Books, CountsHeld
    <2>6. QED
      BY <2>4, <2>5
  <1>9. QED
    BY <1>5, <1>7, <1>8

LEMMA CountedTrigger ==
  ASSUME Sound, Counted, Trigger
  PROVE  Counted'
  <1>1. ~Top("start") /\ UNCHANGED <<rts, woken>> /\ SameCounts /\ SameHandles /\ SameQueues
    BY SameRtsUnchanged
       DEF Trigger, ScheduledTrigger, DeviceUpdate, ManualTrigger, Quiet, Top
  <1>2. ASSUME NEW s \in Seq(Calm), UNCHANGED runs, stack' = s \o stack
        PROVE  Counted'
    <2>1. StackHeld'
      BY <1>1, <1>2, StackPushed DEF Counted
    <2>2. QED
      BY <1>1, <1>2, <2>1, BooksKept, SameRunsUnchanged DEF Counted, SameStart
  <1>3. ASSUME NEW x \in RtIds, ScheduledTrigger(x)
        PROVE  Counted'
    <2>1. x \in Known
      BY <1>3 DEF ScheduledTrigger, Sound, GoodRuntime, Known
    <2>2. <<TriggerFrame(x, NoRun)>> \in Seq(Calm)
      BY <2>1, TriggerCalm DEF Callers
    <2>3. QED
      BY <1>2, <1>3, <2>2 DEF ScheduledTrigger, Push
  <1>4. ASSUME NEW d \in Devices, DeviceUpdate(d)
        PROVE  Counted'
    BY <1>2, <1>4, TriggersCalm DEF DeviceUpdate, Push
  <1>5. ASSUME NEW i \in Ids, ManualTrigger(i)
        PROVE  Counted'
    <2>1. CASE runtimes[i] # NoRt
      <3>1. <<TriggerFrame(runtimes[i], NoRun)>> \in Seq(Calm)
        BY <2>1, RegisteredGood, TriggerCalm DEF Callers
      <3>2. QED
        BY <1>2, <1>5, <2>1, <3>1 DEF ManualTrigger, Push
    <2>2. CASE runtimes[i] = NoRt
      <3>1. PICK q \in RunIds :
              FreeSlot(q) /\ runs' = [runs EXCEPT ![q] = Loading(i, 0, NoRun)]
        BY <1>5, <2>2 DEF ManualTrigger
      <3>2. SameRun(runs[q], Loading(i, 0, NoRun))
        BY <3>1, FreeSlotEmpty DEF FreeSlot, SameRun, Loading
      <3>3. QED
        BY <1>1, <1>5, <2>2, <3>1, <3>2, CountedUpdate DEF ManualTrigger
    <2>3. QED
      BY <2>1, <2>2
  <1>6. QED
    BY <1>3, <1>4, <1>5 DEF Trigger

\* A teardown aborts runs but neither ends one nor touches a counter.
LEMMA CountedTeardown ==
  ASSUME Sound, Counted, NEW X, NEW Y, Teardown(X, Y), UNCHANGED <<stack, woken>>
  PROVE  Counted'
  <1> DEFINE t(x) == IF x \in X THEN TornDown(rts[x]) ELSE rts[x]
             v(x) == [t(x) EXCEPT !.indexed = @ /\ x \notin Y]
  <1>1. \A x \in RtIds : /\ v(x).row = rts[x].row /\ v(x).active = rts[x].active
                         /\ v(x).abort = rts[x].abort /\ v(x).promise = rts[x].promise
                         /\ v(x).queue \in {rts[x].queue, <<>>}
    <2> TAKE x \in RtIds
    <2>1. rts[x] \in Runtime
      BY DEF Sound, GoodRuntime
    <2>2. QED
      BY <2>1 DEF TornDown, Runtime
  <1>2. rts' = [x \in RtIds |-> v(x)]
    BY DEF Teardown
  <1> HIDE DEF v
  <1>3. SameCounts /\ SameHandles /\ SameQueues
    BY <1>1, <1>2 DEF SameCounts, SameHandles, SameQueues
  <1>4. \A r \in RunIds : runs'[r] = AbortedRun(runs[r]) \/ runs'[r] = runs[r]
    BY DEF Teardown
  <1>5. \A r \in RunIds : SameRun(runs[r], AbortedRun(runs[r])) /\ SameRun(runs[r], runs[r])
    BY RunTyped, AbortedSame DEF SameRun
  <1>6. SameRuns
    BY <1>4, <1>5 DEF SameRuns
  <1>7. QED
    BY <1>3, <1>6, BooksKept, StackKept DEF Counted, SameStart

\* Nothing refers to the object that register takes.
LEMMA CountedRegister ==
  ASSUME Sound, Counted, NEW t \in Tasks, NEW i \in Ids, Register(t, i)
  PROVE  Counted'
  <1>1. stack = <<>> /\ UNCHANGED <<runs, stack, woken>>
    BY DEF Register
  <1>2. CASE UNCHANGED rts
    BY <1>1, <1>2, SameRtsUnchanged, SameRunsUnchanged, BooksKept, StackKept DEF Counted, SameStart
  <1>3. ASSUME NEW row, NEW x \in RtIds, Unreferenced(x),
               rts' = [rts EXCEPT ![x] = NewRuntime(i, row)]
        PROVE  Counted'
    <2>1. /\ rts'[x].abort = NoRun /\ rts'[x].promise = NoRun /\ rts'[x].active = 0
          /\ rts'[x].queue = <<>>
          /\ \A y \in RtIds \ {x} : rts'[y] = rts[y]
      BY <1>3 DEF Sound, NewRuntime
    <2>2. \A r \in RunIds : runs[r].rt # x
      BY <1>3 DEF Unreferenced
    <2>3. \A y : Owned(y)' = Owned(y)
      BY <1>1 DEF Owned
    <2>4. \A y \in RtIds \ {x} : Mode(y)' = Mode(y)
      BY <2>1 DEF Mode
    <2>5. RunsHeld'
      BY <1>1, <2>2, <2>4, RtOfRun DEF Counted, Books, RunsHeld
    <2>6. HandlesHeld'
      BY <1>1, <2>1 DEF Counted, Books, HandlesHeld
    <2>7. CountHeld(x)'
      <3>1. Owned(x) = {}
        BY <2>2 DEF Owned
      <3>2. Cardinality(Owned(x)') = 0
        BY <2>3, <3>1, FS_EmptySet
      <3>3. QED
        BY <2>1, <3>2, BoundAssumption DEF CountHeld
    <2>8. \A y \in RtIds \ {x} : CountHeld(y)'
      BY <2>1, <2>3, <2>4 DEF Counted, Books, CountsHeld, CountHeld
    <2>9. woken' \in Seq(Restarts)'
      <3>1. woken \in Seq(Restarts)
        BY DEF Counted, StackHeld
      <3>2. \A k \in 1 .. Len(woken) : woken[k] \in Restarts'
        <4> TAKE k \in 1 .. Len(woken)
        <4>1. woken[k] \in Restarts /\ woken[k].rt # x
          BY <1>3, <3>1 DEF Unreferenced
        <4>2. QED
          BY <2>1, <4>1 DEF Restarts, InMode, Mode
      <3>3. QED
        BY <1>1, <3>1, <3>2
    <2>10. StackHeld'
      BY <1>1, <2>9 DEF StackHeld, Top
    <2>11. QueuesHeld'
      BY <1>1, <2>1, <2>3, <2>4
         DEF Counted, Books, QueuesHeld, QueueHeld, Starting, Top
    <2>12. QED
      BY <2>5, <2>6, <2>7, <2>8, <2>10, <2>11 DEF Counted, Books, CountsHeld
  <1>4. QED
    BY <1>2, <1>3 DEF Register, FreeRuntime

LEMMA CountedInit ==
  ASSUME Init
  PROVE  Counted
  <1>1. \A x \in RtIds : rts[x] = [id |-> NoRow, row |-> NoRow, indexed |-> FALSE,
                                   armed |-> FALSE, abort |-> NoRun, promise |-> NoRun,
                                   queue |-> <<>>, active |-> 0]
    BY DEF Init, NewRuntime
  <1>2. \A r \in RunIds : runs[r].rt = NoRt /\ runs[r].waiters = <<>>
    BY DEF Init, FreeRun
  <1>3. RunsHeld
    BY <1>2 DEF RunsHeld
  <1>4. HandlesHeld /\ CountsHeld /\ QueuesHeld
    BY <1>1 DEF HandlesHeld, CountsHeld, CountHeld, QueuesHeld, QueueHeld
  <1>5. <<>> \in Seq(Restarts)
    BY EmptySeq
  <1>6. StackHeld
    BY <1>5 DEF Init, StackHeld, Top
  <1>7. QED
    BY <1>3, <1>4, <1>6 DEF Counted, Books

\* A step that leaves the runs, their objects and the stack alone.
LEMMA CountedElsewhere ==
  ASSUME Sound, Counted, UNCHANGED <<rts, runs, stack, woken>>
  PROVE  Counted'
  BY SameRtsUnchanged, SameRunsUnchanged, BooksKept, StackKept DEF Counted, SameStart

LEMMA CountedNext ==
  ASSUME Sound, Counted, [Next]_vars
  PROVE  Counted'
  <1>1. CASE Dispatch
    BY <1>1, CountedSingle, CountedRestart, CountedQueued, CountedParallel DEF Dispatch
  <1>2. ASSUME NEW r \in RunIds, Execute(r)
        PROVE  Counted'
    BY <1>2, CountedStart, CountedFinish, CountedLog, CountedAwait,
       CountedHelperCommand, CountedCondition, CountedCall, CountedSuspend DEF Execute
  <1>3. ASSUME NEW r \in RunIds, Settle(r)
        PROVE  Counted'
    BY <1>3, CountedSettleManual, CountedSettleExclusive, CountedSettleQueued,
       CountedSettleParallel DEF Settle
  <1>4. CASE Stop
    BY <1>4, CountedTeardown DEF Stop
  <1>5. ASSUME NEW t \in Tasks, Reload(t)
        PROVE  Counted'
    <2>1. ASSUME NEW e \in Edits, Commit(t, e[1], e[2])
          PROVE  Counted'
      BY <2>1, CountedElsewhere DEF Commit
    <2>2. CASE BeginReload(t)
      BY <2>2, CountedTeardown DEF BeginReload
    <2>3. CASE BeginFullReload(t)
      BY <2>3, CountedTeardown DEF BeginFullReload
    <2>4. CASE Start(t) \/ ReadTable(t) \/ RowsArrive(t)
      BY <2>4, CountedElsewhere DEF Start, ReadTable, RowsArrive
    <2>5. QED
      BY <1>5, <2>1, <2>2, <2>3, <2>4, CountedRegister DEF Reload
  <1>6. CASE UNCHANGED vars
    BY <1>6, CountedElsewhere DEF vars
  <1>7. QED
    BY <1>1, <1>2, <1>3, <1>4, <1>5, <1>6, CountedWake, CountedTrigger,
       CountedResume, CountedTimer DEF Next

-----------------------------------------------------------------------------
(* What the invariant says of the modes.                                   *)

\* The runs of an object are live.
LEMMA OwnedRuns ==
  ASSUME Counted, NEW x \in RtIds
  PROVE  RunsOf(x) = Owned(x)
  BY BoundAssumption DEF Counted, Books, RunsHeld, RunsOf, Owned, Live

LEMMA Counting ==
  Spec => [](Sound /\ Counted)
  <1>1. Init => Sound /\ Counted
    BY SoundInit, CountedInit
  <1>2. Sound /\ Counted /\ [Next]_vars => Sound' /\ Counted'
    BY SoundNext, CountedNext
  <1>3. QED
    BY <1>1, <1>2, PTL DEF Spec

\* activeCount, incremented and decremented in four places of the code, is
\* always the number of runs its runtime has, and parallel mode never
\* exceeds its cap, for every set of definitions and every interleaving.
THEOREM CounterExact == Spec => []ActiveCountMatches
  <1>1. Sound /\ Counted => ActiveCountMatches
    BY OwnedRuns DEF Counted, Books, CountsHeld, CountHeld, ActiveCountMatches, InMode
  <1>2. QED
    BY <1>1, Counting, PTL

LEMMA QueuedOne ==
  ASSUME Sound, Counted
  PROVE  QueuedOneAtATime
  <1> SUFFICES ASSUME NEW r \in RunIds, NEW q \in RunIds,
                      runs[r].rt # NoRt, runs[r].rt = runs[q].rt,
                      Mode(runs[r].rt) = "queued", r # q
               PROVE  FALSE
    BY DEF QueuedOneAtATime
  <1> PICK x : x = runs[r].rt
    OBVIOUS
  <1>1. x \in RtIds /\ rts[x].row # NoRow
    BY SettledRuntime, RowAssumption DEF Known
  <1>2. Cardinality(Owned(x)) <= 1
    BY <1>1 DEF Counted, Books, CountsHeld, CountHeld
  <1>3. r \in Owned(x) /\ q \in Owned(x)
    BY DEF Owned
  <1>4. /\ IsFiniteSet(Owned(x) \ {r})
        /\ Cardinality(Owned(x) \ {r}) = Cardinality(Owned(x)) - 1
    BY <1>3, OwnedFinite, FS_RemoveElement
  <1>5. Cardinality(Owned(x) \ {r}) \in Nat \ {0}
    <2> DEFINE others == Owned(x) \ {r}
    <2>1. q \in others
      BY <1>3
    <2> HIDE DEF others
    <2>2. IsFiniteSet(others)
      BY <1>4 DEF others
    <2>3. Cardinality(others) \in Nat /\ Cardinality(others) # 0
      BY <2>1, <2>2, FS_CardinalityType, FS_EmptySet
    <2>4. QED
      BY <2>3 DEF others
  <1>6. QED
    BY <1>2, <1>4, <1>5, OwnedFinite

\* Queued mode never has two runs of a runtime in existence: the guard of the
\* trigger, the finally block and a reload cannot race each other into it.
THEOREM QueuedExclusive == Spec => []QueuedOneAtATime
  BY QueuedOne, Counting, PTL

\* runningAbort and runningPromise always belong to a live run of their own
\* runtime, so that no abort or await ever reaches a run that has ended.
THEOREM HandlesLive == Spec => []HandlesAreLive
  <1>1. ASSUME Sound, Counted
        PROVE  HandlesAreLive
    <2>1. \A x \in RtIds : RunsOf(x) = Owned(x)
      BY <1>1, OwnedRuns
    <2>2. QED
      BY <1>1, <2>1, HandleOf DEF HandlesAreLive, Counted, Books, HandlesHeld, Owned, Callers
  <1>2. QED
    BY <1>1, Counting, PTL

\* No queued trigger is stranded: the trigger, the finally block, an abort and
\* a teardown, in whatever order they come, leave a run in front of it.
THEOREM QueueServed == Spec => []NoStrandedQueue
  <1>1. ASSUME Sound, Counted
        PROVE  NoStrandedQueue
    <2>1. \A x \in RtIds : RunsOf(x) = Owned(x)
      BY <1>1, OwnedRuns
    <2>2. QED
      BY <1>1, <2>1
         DEF NoStrandedQueue, Quiet, Counted, Books, QueuesHeld, QueueHeld, Starting, Top
  <1>2. QED
    BY <1>1, Counting, PTL
=============================================================================
