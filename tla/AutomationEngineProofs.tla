----------------------- MODULE AutomationEngineProofs -----------------------
(***************************************************************************)
(* Theorems about AutomationEngine, for all automations, definitions and   *)
(* bounds that its assumptions allow.                                      *)
(***************************************************************************)
EXTENDS AutomationEngine, SequenceTheorems, FiniteSetTheorems, TLAPS

USE DEF RunIds, RtIds, NoRun, NoRt

-----------------------------------------------------------------------------
(* The inductive type invariant: whatever may act on a runtime object acts *)
(* on one that has been registered, and so has a definition.               *)

Known == {x \in RtIds : rts[x].row \in Rows}

Callers == RunIds \cup {NoRun}
StartFrames(K) == [kind : {"start"}, rt : K, run : Callers]
Frames(K) == StartFrames(K)
               \cup [kind : {"trigger"}, rt : K, run : Callers]
               \cup [kind : {"run"}, rt : {NoRt}, run : RunIds]

GoodRun(K) ==
  {s \in Run : /\ s.rt \in K \cup {NoRt}
               /\ s.prefix => s.rt # NoRt
               /\ s.pc = "loading" => s.id \in Ids}

GoodRuntime ==
  {t \in Runtime : /\ Len(t.queue) <= MaxQueued
                   /\ t.armed \/ t.indexed => t.row \in Rows}

Sound ==
  /\ db \in [Ids -> Rows \cup {NoRow}]
  /\ runtimes \in [Ids -> Known \cup {NoRt}]
  /\ rts \in [RtIds -> GoodRuntime]
  /\ runs \in [RunIds -> GoodRun(Known)]
  /\ stack \in Seq(Frames(Known)) /\ woken \in Seq(StartFrames(Known))
  /\ tasks \in [Tasks -> Task]
  /\ listening \in BOOLEAN
  /\ overlapped \subseteq Ids /\ unread \subseteq Ids

-----------------------------------------------------------------------------
(* Sequences used as stacks.                                               *)

LEMMA HeadTail ==
  ASSUME NEW S, NEW s \in Seq(S), s # <<>>
  PROVE  Head(s) \in S /\ Tail(s) \in Seq(S)
  BY HeadTailProperties

LEMMA Concat ==
  ASSUME NEW S, NEW s \in Seq(S), NEW t \in Seq(S)
  PROVE  s \o t \in Seq(S)
  BY ConcatProperties

LEMMA PushOne ==
  ASSUME NEW S, NEW s \in Seq(S), NEW e \in S
  PROVE  <<e>> \o s \in Seq(S)
  <1>1. <<e>> \in Seq(S)
    OBVIOUS
  <1>2. QED
    BY <1>1, Concat

LEMMA ReplaceTop ==
  ASSUME NEW S, NEW s \in Seq(S), s # <<>>, NEW e \in S
  PROVE  <<e>> \o Tail(s) \in Seq(S)
  BY HeadTail, PushOne

\* What the frame on top of the stack holds.
LEMMA TopFrame ==
  ASSUME Sound, NEW kind, Top(kind)
  PROVE  /\ stack # <<>> /\ Head(stack) \in Frames(Known)
         /\ Tail(stack) \in Seq(Frames(Known))
         /\ kind \in {"trigger", "start"} =>
              Head(stack).rt \in Known /\ Head(stack).run \in Callers
  BY HeadTail DEF Sound, Top, Frames, StartFrames

-----------------------------------------------------------------------------
(* The operators that update runs.                                         *)

LEMMA FreeRunGood ==
  ASSUME NEW K
  PROVE  FreeRun \in GoodRun(K)
  BY DEF FreeRun, GoodRun, Run, RunPc, Program

LEMMA StartedRunGood ==
  ASSUME NEW x \in Known, NEW todo \in Program, NEW c \in Callers
  PROVE  StartedRun(x, todo, c) \in GoodRun(Known)
  <1>1. x \in RtIds /\ x # NoRt
    BY BoundAssumption DEF Known
  <1>2. <<>> \in Seq(RunIds \cup {NoRun})
    OBVIOUS
  <1>3. QED
    BY <1>1, <1>2 DEF StartedRun, GoodRun, Run, RunPc, Callers

LEMMA LoadingGood ==
  ASSUME NEW K, NEW i \in Ids, NEW d \in Nat, NEW c \in Callers
  PROVE  Loading(i, d, c) \in GoodRun(K)
  <1>1. <<>> \in Seq(RunIds \cup {NoRun}) /\ <<>> \in Program
    BY DEF Program
  <1>2. QED
    BY <1>1 DEF Loading, GoodRun, Run, RunPc, Callers

LEMMA AnsweredGood ==
  ASSUME NEW K, NEW rs \in [RunIds -> GoodRun(K)], NEW c \in Callers
  PROVE  Answered(rs, c) \in [RunIds -> GoodRun(K)]
  <1>1. CASE c = NoRun
    BY <1>1 DEF Answered
  <1>2. CASE c # NoRun
    <2>1. [rs[c] EXCEPT !.pc = "resume"] \in GoodRun(K)
      BY <1>2 DEF GoodRun, Run, RunPc, Callers
    <2>2. QED
      BY <1>2, <2>1 DEF Answered
  <1>3. QED
    BY <1>1, <1>2

LEMMA AbortedRunGood ==
  ASSUME NEW K, NEW s \in GoodRun(K)
  PROVE  AbortedRun(s) \in GoodRun(K)
  <1> DEFINE p == IF s.pc = "delay" THEN "resume" ELSE s.pc
             t == [s EXCEPT !.aborted = TRUE, !.pc = p]
  <1>1. /\ s \in Run /\ s.rt \in K \cup {NoRt}
        /\ s.prefix => s.rt # NoRt
        /\ s.pc = "loading" => s.id \in Ids
    BY DEF GoodRun
  <1>2. p \in RunPc /\ (p = "loading" => s.pc = "loading")
    BY <1>1 DEF Run, RunPc
  <1> HIDE DEF p
  <1>3. t \in Run
    BY <1>1, <1>2 DEF Run
  <1>4. t.rt = s.rt /\ t.prefix = s.prefix /\ t.id = s.id /\ t.pc = p
    BY <1>1 DEF Run
  <1>5. AbortedRun(s) = t
    BY <1>1 DEF AbortedRun, Run, p
  <1> HIDE DEF t
  <1>6. QED
    BY <1>1, <1>2, <1>3, <1>4, <1>5 DEF GoodRun

LEMMA AbortedGood ==
  ASSUME NEW K, NEW rs \in [RunIds -> GoodRun(K)], NEW a \in RunIds
  PROVE  Aborted(rs, a) \in [RunIds -> GoodRun(K)]
  BY AbortedRunGood DEF Aborted

LEMMA ReleasedGood ==
  ASSUME Sound, NEW r \in RunIds, NEW c \in Callers
  PROVE  Released(r, c) \in [RunIds -> GoodRun(Known)]
  BY AnsweredGood, FreeRunGood DEF Released, Sound

LEMMA GotoGood ==
  ASSUME Sound, NEW r \in RunIds, NEW pc \in RunPc \ {"loading"},
         runs[r].todo # <<>>
  PROVE  Goto(r, pc) \in [RunIds -> GoodRun(Known)]
  <1>1. runs[r] \in GoodRun(Known) /\ Tail(runs[r].todo) \in Program
    BY HeadTail DEF Sound, GoodRun, Run, Program
  <1>2. [runs[r] EXCEPT !.pc = pc, !.todo = Tail(@)] \in GoodRun(Known)
    BY <1>1 DEF GoodRun, Run
  <1>3. Goto(r, pc) = [runs EXCEPT ![r] = [runs[r] EXCEPT !.pc = pc, !.todo = Tail(@)]]
    BY DEF Goto, Sound
  <1>4. QED
    BY <1>2, <1>3 DEF Sound

\* The set of registered objects only depends on rts.
LEMMA SameKnown ==
  ASSUME UNCHANGED rts
  PROVE  Known' = Known
  BY DEF Known

LEMMA SameRows ==
  ASSUME \A x \in RtIds : rts'[x].row = rts[x].row
  PROVE  Known' = Known
  BY DEF Known

\* An update of the concurrency fields of one runtime object.
LEMMA RuntimeGood ==
  ASSUME Sound, NEW x \in RtIds, NEW v \in GoodRuntime,
         v.row = rts[x].row, rts' = [rts EXCEPT ![x] = v]
  PROVE  rts' \in [RtIds -> GoodRuntime] /\ Known' = Known
  <1>1. rts' \in [RtIds -> GoodRuntime]
    BY DEF Sound
  <1>2. \A y \in RtIds : rts'[y].row = rts[y].row
    BY DEF Sound
  <1>3. QED
    BY <1>1, <1>2, SameRows

-----------------------------------------------------------------------------
(* Sound is an invariant: one lemma per group of actions.                  *)

LEMMA SoundSingle ==
  ASSUME Sound, TriggerSingle
  PROVE  Sound'
  <1> DEFINE x == Head(stack).rt
             c == Head(stack).run
  <1>1. x \in Known /\ c \in Callers /\ Tail(stack) \in Seq(Frames(Known)) /\ stack # <<>>
    BY TopFrame DEF TriggerSingle
  <1>2. StartFrame(x, c) \in Frames(Known)
    BY <1>1 DEF StartFrame, StartFrames, Frames
  <1>3. Answered(runs, c) \in [RunIds -> GoodRun(Known)]
    BY <1>1, AnsweredGood DEF Sound
  <1>4. <<StartFrame(x, c)>> \o Tail(stack) \in Seq(Frames(Known))
    BY <1>1, <1>2, PushOne
  <1>5. /\ runs' = Answered(runs, c) \/ runs' = runs
        /\ stack' = Tail(stack) \/ stack' = <<StartFrame(x, c)>> \o Tail(stack)
    BY DEF TriggerSingle, Replace
  <1>6. QED
    BY <1>1, <1>3, <1>4, <1>5, SameKnown DEF Sound, TriggerSingle

LEMMA SoundRestart ==
  ASSUME Sound, TriggerRestart
  PROVE  Sound'
  <1> DEFINE x == Head(stack).rt
             c == Head(stack).run
             a == rts[x].abort
             p == rts[x].promise
             waiting == [Aborted(runs, a) EXCEPT ![p].waiters = Append(@, c)]
  <1>1. x \in Known /\ c \in Callers /\ Tail(stack) \in Seq(Frames(Known)) /\ stack # <<>>
    BY TopFrame DEF TriggerRestart
  <1>2. StartFrame(x, c) \in Frames(Known)
    BY <1>1 DEF StartFrame, StartFrames, Frames
  <1>3. a \in Callers /\ p \in Callers
    BY <1>1 DEF Sound, GoodRuntime, Runtime, Known, Callers
  <1>4. a # NoRun => Aborted(runs, a) \in [RunIds -> GoodRun(Known)]
    BY <1>3, AbortedGood DEF Sound, Callers
  <1>5. ASSUME a # NoRun, p # NoRun
        PROVE  waiting \in [RunIds -> GoodRun(Known)]
    <2> DEFINE s == Aborted(runs, a)[p]
    <2>1. p \in RunIds /\ s \in GoodRun(Known)
      BY <1>3, <1>4, <1>5 DEF Callers
    <2> HIDE DEF s
    <2>2. s.waiters \in Seq(Callers)
      BY <2>1 DEF GoodRun, Run, Callers
    <2>3. Append(s.waiters, c) \in Seq(Callers)
      BY <1>1, <2>2
    <2>4. [s EXCEPT !.waiters = Append(@, c)] \in GoodRun(Known)
      BY <2>1, <2>3 DEF GoodRun, Run, Callers
    <2>5. waiting = [Aborted(runs, a) EXCEPT ![p] = [s EXCEPT !.waiters = Append(@, c)]]
      BY <1>4, <1>5, <2>1 DEF s
    <2>6. QED
      BY <1>4, <1>5, <2>1, <2>4, <2>5
  <1>6. <<StartFrame(x, c)>> \o Tail(stack) \in Seq(Frames(Known))
    BY <1>1, <1>2, PushOne
  <1>7. /\ \/ runs' = runs
           \/ a # NoRun /\ runs' = Aborted(runs, a)
           \/ a # NoRun /\ p # NoRun /\ runs' = waiting
        /\ stack' = Tail(stack) \/ stack' = <<StartFrame(x, c)>> \o Tail(stack)
    BY DEF TriggerRestart, Replace
  <1>8. runs' \in [RunIds -> GoodRun(Known)]
    BY <1>4, <1>5, <1>7 DEF Sound
  <1>9. QED
    BY <1>1, <1>6, <1>7, <1>8, SameKnown DEF Sound, TriggerRestart

LEMMA SoundQueued ==
  ASSUME Sound, TriggerQueued
  PROVE  Sound'
  <1> DEFINE x == Head(stack).rt
             c == Head(stack).run
             v == [rts[x] EXCEPT !.queue = Append(@, c)]
  <1>1. x \in Known /\ c \in Callers /\ Tail(stack) \in Seq(Frames(Known)) /\ stack # <<>>
    BY TopFrame DEF TriggerQueued
  <1>2. StartFrame(x, c) \in Frames(Known)
    BY <1>1 DEF StartFrame, StartFrames, Frames
  <1>3. Answered(runs, c) \in [RunIds -> GoodRun(Known)]
    BY <1>1, AnsweredGood DEF Sound
  <1>4. <<StartFrame(x, c)>> \o Tail(stack) \in Seq(Frames(Known))
    BY <1>1, <1>2, PushOne
  <1>5. x \in RtIds /\ rts[x] \in GoodRuntime
    BY <1>1 DEF Sound, Known
  <1>6. ASSUME ~QueueFull(x)
        PROVE  v \in GoodRuntime /\ v.row = rts[x].row
    <2>1. rts[x].queue \in Seq(Callers) /\ Len(rts[x].queue) < MaxQueued
      BY <1>5, <1>6, BoundAssumption DEF QueueFull, GoodRuntime, Runtime, Callers
    <2>2. /\ Append(rts[x].queue, c) \in Seq(Callers)
          /\ Len(Append(rts[x].queue, c)) <= MaxQueued
      BY <2>1, <1>1, BoundAssumption
    <2>3. QED
      BY <1>5, <2>2 DEF GoodRuntime, Runtime, Callers
  <1>7. /\ runs' = Answered(runs, c) \/ runs' = runs
        /\ stack' = Tail(stack) \/ stack' = <<StartFrame(x, c)>> \o Tail(stack)
    BY DEF TriggerQueued, Replace
  <1>8. \/ rts' = rts
        \/ ~QueueFull(x) /\ rts' = [rts EXCEPT ![x] = v]
    BY <1>5 DEF TriggerQueued, Sound
  <1>9. rts' \in [RtIds -> GoodRuntime] /\ Known' = Known
    BY <1>5, <1>6, <1>8, RuntimeGood, SameKnown DEF Sound
  <1>10. QED
    BY <1>1, <1>3, <1>4, <1>7, <1>9 DEF Sound, TriggerQueued

LEMMA SoundParallel ==
  ASSUME Sound, TriggerParallel
  PROVE  Sound'
  <1> DEFINE x == Head(stack).rt
             c == Head(stack).run
  <1>1. x \in Known /\ c \in Callers /\ Tail(stack) \in Seq(Frames(Known)) /\ stack # <<>>
    BY TopFrame DEF TriggerParallel
  <1>2. StartFrame(x, c) \in Frames(Known)
    BY <1>1 DEF StartFrame, StartFrames, Frames
  <1>3. Answered(runs, c) \in [RunIds -> GoodRun(Known)]
    BY <1>1, AnsweredGood DEF Sound
  <1>4. <<StartFrame(x, c)>> \o Tail(stack) \in Seq(Frames(Known))
    BY <1>1, <1>2, PushOne
  <1>5. /\ runs' = Answered(runs, c) \/ runs' = runs
        /\ stack' = Tail(stack) \/ stack' = <<StartFrame(x, c)>> \o Tail(stack)
    BY DEF TriggerParallel, Replace
  <1>6. QED
    BY <1>1, <1>3, <1>4, <1>5, SameKnown DEF Sound, TriggerParallel

LEMMA SoundStart ==
  ASSUME Sound, NEW r \in RunIds, StartRun(r)
  PROVE  Sound'
  <1> DEFINE x == Head(stack).rt
             c == Head(stack).run
             a == IF Mode(x) = "parallel" THEN rts[x].abort ELSE r
             n == IF Mode(x) \in {"queued", "parallel"}
                  THEN rts[x].active + 1 ELSE rts[x].active
             v == [rts[x] EXCEPT !.abort = a, !.active = n]
  <1>1. x \in Known /\ c \in Callers /\ Tail(stack) \in Seq(Frames(Known)) /\ stack # <<>>
    BY TopFrame DEF StartRun
  <1>2. RunFrame(r) \in Frames(Known)
    BY DEF RunFrame, Frames, StartFrames
  <1>3. <<RunFrame(r)>> \o Tail(stack) \in Seq(Frames(Known))
    BY <1>1, <1>2, PushOne
  <1>4. x \in RtIds /\ rts[x] \in GoodRuntime /\ rts[x].row \in Rows
    BY <1>1 DEF Sound, Known
  <1>5. Programs(rts[x].row) \subseteq Program
    <2>1. rts[x].row.actions \in Seq(Action)
      BY <1>4, RowAssumption
    <2>2. rts[x].row.actions \in Program
      BY <2>1, SeqMonotonic DEF Program
    <2>3. <<>> \in Program
      BY EmptySeq DEF Program
    <2>4. QED
      BY <2>2, <2>3 DEF Programs
  <1>6. \A todo \in Program : StartedRun(x, todo, c) \in GoodRun(Known)
    BY <1>1, StartedRunGood
  <1>7. PICK todo \in Program : runs' = [runs EXCEPT ![r] = StartedRun(x, todo, c)]
    BY <1>5 DEF StartRun
  <1>8. runs' \in [RunIds -> GoodRun(Known)]
    BY <1>6, <1>7 DEF Sound
  <1>9. v \in GoodRuntime /\ v.row = rts[x].row
    <2>1. a \in Callers /\ n \in Int
      BY <1>4 DEF GoodRuntime, Runtime, Callers
    <2> HIDE DEF a, n
    <2>2. QED
      BY <1>4, <2>1 DEF GoodRuntime, Runtime, Callers
  <1>10. rts' = [rts EXCEPT ![x] = v]
    BY <1>4 DEF StartRun, Sound
  <1>11. rts' \in [RtIds -> GoodRuntime] /\ Known' = Known
    BY <1>4, <1>9, <1>10, RuntimeGood
  <1>12. QED
    BY <1>3, <1>8, <1>11 DEF Sound, StartRun, Replace

\* The run on top of the stack.
LEMMA TopRun ==
  ASSUME Sound, NEW r \in RunIds
  PROVE  /\ runs[r] \in GoodRun(Known) /\ runs[r].todo \in Program
         /\ RunFrame(r) \in Frames(Known)
  BY DEF Sound, GoodRun, Run, RunFrame, Frames, StartFrames

\* An action that moves run r on and leaves the rest as it is.
LEMMA SoundGoto ==
  ASSUME Sound, NEW r \in RunIds, NEW pc \in RunPc \ {"loading"},
         runs[r].todo # <<>>, runs' = Goto(r, pc),
         UNCHANGED <<db, runtimes, rts, stack, woken, tasks, listening, overlapped, unread>>
  PROVE  Sound'
  BY GotoGood, SameKnown DEF Sound

\* An update of one run and nothing else.
LEMMA SoundUpdate ==
  ASSUME Sound, NEW r \in RunIds, NEW s \in GoodRun(Known),
         runs' = [runs EXCEPT ![r] = s],
         UNCHANGED <<db, runtimes, rts, stack, woken, tasks, listening, overlapped, unread>>
  PROVE  Sound'
  BY SameKnown DEF Sound

LEMMA SoundFinish ==
  ASSUME Sound, NEW r \in RunIds, Finish(r)
  PROVE  Sound'
  <1> DEFINE s == [runs[r] EXCEPT !.pc = "settled", !.todo = <<>>]
  <1>1. <<>> \in Program
    BY EmptySeq DEF Program
  <1>2. s \in GoodRun(Known)
    <2>1. /\ runs[r] \in Run /\ runs[r].rt \in Known \cup {NoRt}
          /\ runs[r].prefix => runs[r].rt # NoRt
      BY TopRun DEF GoodRun
    <2>2. "settled" \in RunPc /\ "settled" # "loading"
      BY DEF RunPc
    <2>3. s \in Run
      BY <1>1, <2>1, <2>2 DEF Run
    <2>4. s.rt = runs[r].rt /\ s.prefix = runs[r].prefix /\ s.pc = "settled"
      BY <2>1 DEF Run
    <2>5. QED
      BY <2>1, <2>2, <2>3, <2>4 DEF GoodRun
  <1>3. runs' = [runs EXCEPT ![r] = s]
    BY DEF Finish, Sound
  <1>4. QED
    BY <1>2, <1>3, SoundUpdate DEF Finish

LEMMA SoundLog ==
  ASSUME Sound, NEW r \in RunIds, Log(r)
  PROVE  Sound'
  BY SoundGoto DEF Log, Reaches, RunPc

LEMMA SoundAwait ==
  ASSUME Sound, NEW r \in RunIds, Await(r)
  PROVE  Sound'
  <1>1. Suspending[Head(runs[r].todo).type] \in RunPc \ {"loading"}
    BY DEF Await, Reaches, Suspending, RunPc
  <1>2. QED
    BY <1>1, SoundGoto DEF Await, Reaches

\* A device update triggers runtimes of the index.
LEMMA DeliveredTo ==
  ASSUME NEW d, NEW s \in Deliveries(d)
  PROVE  \E n \in Nat : s \in [1 .. n -> Indexed]
  <1>1. PICK e \in UNION {[1 .. n -> Entries(d)] : n \in 0 .. Cardinality(Entries(d))} :
          s = [k \in DOMAIN e |-> e[k][1]]
    BY DEF Deliveries
  <1>2. PICK n \in Nat : e \in [1 .. n -> Entries(d)]
    BY <1>1
  <1>3. \A k \in 1 .. n : e[k][1] \in Indexed
    BY <1>2 DEF Entries
  <1>4. QED
    BY <1>1, <1>2, <1>3

\* The triggers a device update delivers act on registered runtimes.
LEMMA TriggerFramesGood ==
  ASSUME Sound, NEW d, NEW s \in Deliveries(d)
  PROVE  TriggerFrames(s) \in Seq(Frames(Known))
  <1>1. Indexed \subseteq Known
    BY DEF Indexed, Sound, GoodRuntime, Known
  <1>2. PICK n \in Nat : s \in [1 .. n -> Indexed]
    BY DeliveredTo
  <1>3. s \in Seq(Known) /\ Len(s) = n
    BY <1>1, <1>2
  <1>4. \A k \in 1 .. n : TriggerFrame(s[k], NoRun) \in Frames(Known)
    BY <1>1, <1>2 DEF TriggerFrame, Frames, Callers
  <1>5. QED
    BY <1>3, <1>4 DEF TriggerFrames

LEMMA SoundHelperCommand ==
  ASSUME Sound, NEW r \in RunIds, HelperCommand(r)
  PROVE  Sound'
  <1>1. PICK s \in Deliveries(Head(runs[r].todo).device) :
          stack' = TriggerFrames(s) \o stack
    BY DEF HelperCommand, Push
  <1>2. stack' \in Seq(Frames(Known))
    BY <1>1, TriggerFramesGood, Concat DEF Sound
  <1>3. runs' \in [RunIds -> GoodRun(Known)]
    BY GotoGood DEF HelperCommand, Reaches, RunPc
  <1>4. QED
    BY <1>2, <1>3, SameKnown DEF HelperCommand, Sound

LEMMA SoundCondition ==
  ASSUME Sound, NEW r \in RunIds, Condition(r)
  PROVE  Sound'
  <1> DEFINE a == Head(runs[r].todo)
             rest == Tail(runs[r].todo)
             todo(branch) == IF branch = <<>> THEN rest
                                              ELSE branch \o <<Join>> \o rest
  <1>1. runs[r].todo \in Program /\ runs[r].todo # <<>> /\ a.type = "condition"
    BY TopRun DEF Condition, Reaches
  <1>2. a \in Action \cup {Join} /\ rest \in Program
    BY <1>1, HeadTail DEF Program
  <1>3. a \in Action
    BY <1>1, <1>2 DEF Join
  <1>4. a.then \in Seq(Action) /\ a.else \in Seq(Action)
    BY <1>1, <1>3, ActionAssumption
  <1> HIDE DEF a
  <1>5. ASSUME NEW branch \in {a.then, a.else}
        PROVE  todo(branch) \in Program
    <2>1. branch \in Program /\ <<Join>> \in Program
      <3>1. branch \in Seq(Action)
        BY <1>4
      <3>2. branch \in Seq(Action \cup {Join})
        BY <3>1, SeqMonotonic
      <3>3. QED
        BY <3>2 DEF Program
    <2> HIDE DEF rest
    <2>2. branch \o <<Join>> \in Program
      BY <2>1, Concat DEF Program
    <2>3. branch \o <<Join>> \o rest \in Program
      BY <1>2, <2>2, Concat DEF Program
    <2>4. QED
      BY <1>2, <2>3
  <1>6. PICK branch \in {a.then, a.else} :
          runs' = [runs EXCEPT ![r].todo = todo(branch)]
    BY DEF Condition, a
  <1>7. todo(branch) \in Program
    BY <1>5
  <1> HIDE DEF todo
  <1> DEFINE s == [runs[r] EXCEPT !.todo = todo(branch)]
  <1>8. s \in GoodRun(Known)
    BY <1>7 DEF Sound, GoodRun, Run
  <1>9. runs' = [runs EXCEPT ![r] = s]
    BY <1>6 DEF Sound
  <1>10. QED
    BY <1>8, <1>9, SoundUpdate DEF Condition

LEMMA TriggerFrameGood ==
  ASSUME NEW x \in Known, NEW c \in Callers
  PROVE  TriggerFrame(x, c) \in Frames(Known)
  BY DEF TriggerFrame, Frames

\* An entry of the map of runtimes is a registered object.
LEMMA RegisteredGood ==
  ASSUME Sound, NEW i \in Ids, runtimes[i] # NoRt
  PROVE  runtimes[i] \in Known
  BY DEF Sound

LEMMA SoundCall ==
  ASSUME Sound, NEW r \in RunIds, Call(r)
  PROVE  Sound'
  <1> DEFINE i == Head(runs[r].todo).target
             d == runs[r].depth + 1
  <1>1. runs[r].todo # <<>> /\ Head(runs[r].todo).type = "call_automation"
    BY DEF Call, Reaches
  <1>2. Head(runs[r].todo) \in Action
    BY <1>1, TopRun, HeadTail DEF Program, Join
  <1>3. i \in Ids /\ d \in Nat
    BY <1>1, <1>2, ActionAssumption, TopRun DEF GoodRun, Run
  <1>4. \A pc \in {"resume", "calling"} : Goto(r, pc) \in [RunIds -> GoodRun(Known)]
    BY <1>1, GotoGood DEF RunPc
  <1>5. Loading(i, d, r) \in GoodRun(Known)
    BY <1>3, LoadingGood DEF Callers
  <1> HIDE DEF i, d
  <1>6. \/ runs' = Goto(r, "resume") /\ stack' = stack
        \/ /\ runtimes[i] # NoRt /\ runs' = Goto(r, "calling")
           /\ stack' = <<TriggerFrame(runtimes[i], r)>> \o stack
        \/ /\ \E q \in RunIds :
                runs' = [Goto(r, "calling") EXCEPT ![q] = Loading(i, d, r)]
           /\ stack' = stack
    BY DEF Call, Push, i, d
  <1>7. runs' \in [RunIds -> GoodRun(Known)]
    BY <1>4, <1>5, <1>6
  <1>8. stack' \in Seq(Frames(Known))
    <2>1. stack \in Seq(Frames(Known))
      BY DEF Sound
    <2>2. ASSUME runtimes[i] # NoRt
          PROVE  <<TriggerFrame(runtimes[i], r)>> \o stack \in Seq(Frames(Known))
      <3>1. TriggerFrame(runtimes[i], r) \in Frames(Known)
        BY <1>3, <2>2, RegisteredGood, TriggerFrameGood DEF Callers
      <3>2. QED
        BY <2>1, <3>1, PushOne
    <2>3. QED
      BY <1>6, <2>1, <2>2
  <1>9. QED
    BY <1>7, <1>8, SameKnown DEF Call, Sound

LEMMA SoundSuspend ==
  ASSUME Sound, NEW r \in RunIds, Suspend(r)
  PROVE  Sound'
  <1> DEFINE x == runs[r].rt
             c == runs[r].caller
             first == [Answered(runs, c)[r] EXCEPT !.prefix = FALSE, !.caller = NoRun]
             later == [runs[r] EXCEPT !.prefix = FALSE]
             v == [rts[x] EXCEPT !.promise = Recorded(x, r)]
  <1>1. runs[r] \in GoodRun(Known) /\ c \in Callers
    BY TopRun DEF GoodRun, Run, Callers
  <1>2. Answered(runs, c) \in [RunIds -> GoodRun(Known)]
    BY <1>1, AnsweredGood DEF Sound
  <1>3. Answered(runs, c)[r] \in GoodRun(Known)
    BY <1>2
  <1>4. first \in GoodRun(Known)
    BY <1>3 DEF GoodRun, Run
  <1>5. later \in GoodRun(Known)
    BY <1>1 DEF GoodRun, Run
  <1>6. \/ /\ runs[r].prefix
           /\ runs' = [Answered(runs, c) EXCEPT ![r].prefix = FALSE, ![r].caller = NoRun]
           /\ rts' = [rts EXCEPT ![x].promise = Recorded(x, r)]
        \/ runs' = [runs EXCEPT ![r].prefix = FALSE] /\ rts' = rts
    BY DEF Suspend
  <1>7. \/ runs[r].prefix /\ runs' = [Answered(runs, c) EXCEPT ![r] = first]
           /\ rts' = [rts EXCEPT ![x] = v]
        \/ runs' = [runs EXCEPT ![r] = later] /\ rts' = rts
    BY <1>2, <1>6 DEF Sound
  <1> HIDE DEF first, later
  <1>8. runs' \in [RunIds -> GoodRun(Known)]
    BY <1>2, <1>4, <1>5, <1>7 DEF Sound
  <1>9. rts' \in [RtIds -> GoodRuntime] /\ Known' = Known
    <2>1. CASE rts' = rts
      BY <2>1, SameKnown DEF Sound
    <2>2. CASE runs[r].prefix /\ rts' = [rts EXCEPT ![x] = v]
      <3>1. x \in RtIds /\ rts[x] \in GoodRuntime
        BY <1>1, <2>2 DEF Sound, GoodRun, Known
      <3>2. Recorded(x, r) \in Callers
        BY <3>1 DEF Recorded, GoodRuntime, Runtime, Callers
      <3>3. v \in GoodRuntime /\ v.row = rts[x].row
        BY <3>1, <3>2 DEF GoodRuntime, Runtime, Callers
      <3>4. QED
        BY <2>2, <3>1, <3>3, RuntimeGood
    <2>3. QED
      BY <1>7, <2>1, <2>2
  <1>10. stack' \in Seq(Frames(Known))
    BY TopFrame DEF Suspend
  <1>11. QED
    BY <1>8, <1>9, <1>10 DEF Sound, Suspend

LEMMA SoundResume ==
  ASSUME Sound, NEW r \in RunIds, Resume(r)
  PROVE  Sound'
  <1> DEFINE s == [runs[r] EXCEPT !.pc = "running"]
  <1>1. s \in GoodRun(Known)
    BY TopRun DEF GoodRun, Run, RunPc
  <1>2. runs' = [runs EXCEPT ![r] = s]
    BY DEF Resume, Sound
  <1>3. stack' \in Seq(Frames(Known))
    BY TopRun, PushOne DEF Resume, Push, Sound
  <1>4. QED
    BY <1>1, <1>2, <1>3, SameKnown DEF Resume, Sound

LEMMA SoundSettleManual ==
  ASSUME Sound, NEW r \in RunIds, SettleManual(r)
  PROVE  Sound'
  <1>1. runs[r].caller \in Callers
    BY TopRun DEF GoodRun, Run, Callers
  <1>2. runs' \in [RunIds -> GoodRun(Known)]
    BY <1>1, ReleasedGood DEF SettleManual
  <1>3. QED
    BY <1>2, SameKnown DEF SettleManual, Sound

\* The run that settles belongs to a registered object.
LEMMA SettledRuntime ==
  ASSUME Sound, NEW r \in RunIds, runs[r].rt # NoRt
  PROVE  /\ runs[r].rt \in Known /\ runs[r].rt \in RtIds
         /\ rts[runs[r].rt] \in GoodRuntime
         /\ runs[r].caller \in Callers /\ runs[r].waiters \in Seq(Callers)
  BY TopRun DEF GoodRun, Run, Callers, Sound, Known

LEMMA SoundSettleExclusive ==
  ASSUME Sound, NEW r \in RunIds, SettleExclusive(r)
  PROVE  Sound'
  <1> DEFINE x == runs[r].rt
             v == Cleared(rts[x])
  <1>1. x \in Known /\ x \in RtIds /\ rts[x] \in GoodRuntime
    BY SettledRuntime DEF SettleExclusive
  <1>2. v \in GoodRuntime /\ v.row = rts[x].row
    BY <1>1 DEF Cleared, GoodRuntime, Runtime
  <1>3. rts' = [rts EXCEPT ![x] = v]
    BY <1>1 DEF SettleExclusive, Sound
  <1>4. rts' \in [RtIds -> GoodRuntime] /\ Known' = Known
    BY <1>1, <1>2, <1>3, RuntimeGood
  <1>5. runs' \in [RunIds -> GoodRun(Known)]
    BY ReleasedGood DEF SettleExclusive, Callers
  <1>6. Woken(r) \in Seq(StartFrames(Known))
    <2>1. runs[r].waiters \in Seq(Callers)
      BY SettledRuntime DEF SettleExclusive
    <2>2. \A k \in 1 .. Len(runs[r].waiters) :
            StartFrame(x, runs[r].waiters[k]) \in StartFrames(Known)
      BY <1>1, <2>1 DEF StartFrame, StartFrames
    <2>3. QED
      BY <2>1, <2>2 DEF Woken
  <1>7. woken' \in Seq(StartFrames(Known))
    BY <1>6, Concat DEF SettleExclusive, Sound
  <1>8. QED
    BY <1>4, <1>5, <1>7 DEF SettleExclusive, Sound

LEMMA SoundSettleQueued ==
  ASSUME Sound, NEW r \in RunIds, SettleQueued(r)
  PROVE  Sound'
  <1> DEFINE x == runs[r].rt
             q == rts[x].queue
             rest == IF q = <<>> THEN q ELSE Tail(q)
             v == [rts[x] EXCEPT !.abort = NoRun, !.active = Decremented(x), !.queue = rest]
  <1>1. /\ x \in Known /\ x \in RtIds /\ rts[x] \in GoodRuntime
        /\ runs[r].caller \in Callers
    BY SettledRuntime DEF SettleQueued
  <1>2. q \in Seq(Callers) /\ Len(q) <= MaxQueued
    BY <1>1 DEF GoodRuntime, Runtime, Callers
  <1>3. rest \in Seq(Callers) /\ Len(rest) <= MaxQueued
    BY <1>2, HeadTailProperties, LenProperties, BoundAssumption
  <1>4. v \in GoodRuntime /\ v.row = rts[x].row
    <2>1. Decremented(x) \in Int
      BY <1>1 DEF Decremented, GoodRuntime, Runtime
    <2> HIDE DEF rest
    <2>2. QED
      BY <1>1, <1>3, <2>1 DEF GoodRuntime, Runtime, Callers
  <1>5. rts' = [rts EXCEPT ![x] = v]
    BY <1>1 DEF SettleQueued, Sound
  <1>6. rts' \in [RtIds -> GoodRuntime] /\ Known' = Known
    BY <1>1, <1>4, <1>5, RuntimeGood
  <1>7. runs' \in [RunIds -> GoodRun(Known)]
    BY <1>1, ReleasedGood DEF SettleQueued
  <1>8. NextQueued(x) \in Seq(Frames(Known))
    <2>1. CASE q = <<>>
      BY <2>1, EmptySeq DEF NextQueued
    <2>2. CASE q # <<>>
      <3>1. Head(q) \in Callers
        BY <1>2, <2>2, HeadTail
      <3>2. StartFrame(x, Head(q)) \in Frames(Known)
        BY <1>1, <3>1 DEF StartFrame, StartFrames, Frames
      <3>3. QED
        BY <2>2, <3>2 DEF NextQueued
    <2>3. QED
      BY <2>1, <2>2
  <1>9. stack' \in Seq(Frames(Known))
    BY <1>8, Concat DEF SettleQueued, Push, Sound
  <1>10. QED
    BY <1>6, <1>7, <1>9 DEF SettleQueued, Sound

LEMMA SoundSettleParallel ==
  ASSUME Sound, NEW r \in RunIds, SettleParallel(r)
  PROVE  Sound'
  <1> DEFINE x == runs[r].rt
             v == [rts[x] EXCEPT !.active = Decremented(x)]
  <1>1. x \in Known /\ x \in RtIds /\ rts[x] \in GoodRuntime
    BY SettledRuntime DEF SettleParallel
  <1>2. v \in GoodRuntime /\ v.row = rts[x].row
    BY <1>1, SMTT(30) DEF Decremented, GoodRuntime, Runtime
  <1>3. rts' = [rts EXCEPT ![x] = v]
    BY <1>1 DEF SettleParallel, Sound
  <1>4. rts' \in [RtIds -> GoodRuntime] /\ Known' = Known
    BY <1>1, <1>2, <1>3, RuntimeGood
  <1>5. runs' \in [RunIds -> GoodRun(Known)]
    BY ReleasedGood DEF SettleParallel, Callers
  <1>6. QED
    BY <1>4, <1>5 DEF SettleParallel, Sound

LEMMA SoundWake ==
  ASSUME Sound, Wake
  PROVE  Sound'
  <1>1. Head(woken) \in StartFrames(Known) /\ Tail(woken) \in Seq(StartFrames(Known))
    BY HeadTail DEF Wake, Sound
  <1>2. Head(woken) \in Frames(Known)
    BY <1>1 DEF Frames
  <1>3. stack' \in Seq(Frames(Known))
    BY <1>2, PushOne DEF Wake, Push, Sound
  <1>4. QED
    BY <1>1, <1>3, SameKnown DEF Wake, Sound

LEMMA NewRuntimeGood ==
  ASSUME NEW i \in Ids, NEW row \in Rows
  PROVE  NewRuntime(i, row) \in GoodRuntime /\ NewRuntime(i, row).row = row
  <1>1. <<>> \in Seq(RunIds \cup {NoRun}) /\ Len(<<>>) <= MaxQueued
    BY EmptySeq, BoundAssumption
  <1>2. QED
    BY <1>1 DEF NewRuntime, GoodRuntime, Runtime

\* With more objects registered, whatever was well-formed stays so.
LEMMA MoreKnown ==
  ASSUME Sound, NEW K, Known \subseteq K
  PROVE  /\ runs \in [RunIds -> GoodRun(K)]
         /\ stack \in Seq(Frames(K)) /\ woken \in Seq(StartFrames(K))
  <1>1. GoodRun(Known) \subseteq GoodRun(K)
    BY DEF GoodRun
  <1>2. Frames(Known) \subseteq Frames(K) /\ StartFrames(Known) \subseteq StartFrames(K)
    BY DEF Frames, StartFrames
  <1>3. QED
    BY <1>1, <1>2, SeqMonotonic DEF Sound

LEMMA SoundRegister ==
  ASSUME Sound, NEW t \in Tasks, NEW i \in Ids, Register(t, i)
  PROVE  Sound'
  <1> DEFINE row == tasks[t].rows[i]
             task == tasks[t]
             next == Without(task, i)
  <1>1. task \in Task
    BY DEF Sound
  <1>2. next \in Task
    BY <1>1 DEF Without, Task, TaskPc, IdleTask, NoTable
  <1>3. tasks' = [tasks EXCEPT ![t] = next]
    BY DEF Register, Sound
  <1>4. tasks' \in [Tasks -> Task]
    BY <1>2, <1>3 DEF Sound
  <1>5. listening' \in BOOLEAN
    BY DEF Register, Sound
  <1>6. row \in Rows \cup {NoRow}
    BY <1>1 DEF Task
  <1> HIDE DEF row, next
  <1>7. CASE UNCHANGED <<rts, runtimes>>
    BY <1>4, <1>5, <1>7, SameKnown DEF Register, Sound
  <1>8. ASSUME row # NoRow,
               NEW x \in RtIds,
               rts' = [rts EXCEPT ![x] = NewRuntime(i, row)],
               runtimes' = [runtimes EXCEPT ![i] = x]
        PROVE  Sound'
    <2>1. NewRuntime(i, row) \in GoodRuntime /\ NewRuntime(i, row).row \in Rows
      BY <1>6, <1>8, NewRuntimeGood
    <2>2. rts' \in [RtIds -> GoodRuntime]
      BY <1>8, <2>1 DEF Sound
    <2>3. Known \subseteq Known' /\ x \in Known'
      BY <1>8, <2>1 DEF Known, Sound
    <2>4. runtimes' \in [Ids -> Known' \cup {NoRt}]
      BY <1>8, <2>3 DEF Sound
    <2>5. /\ runs \in [RunIds -> GoodRun(Known')]
          /\ stack \in Seq(Frames(Known')) /\ woken \in Seq(StartFrames(Known'))
      BY <2>3, MoreKnown
    <2>6. QED
      BY <1>4, <1>5, <2>2, <2>4, <2>5 DEF Register, Sound
  <1>9. QED
    BY <1>7, <1>8 DEF Register, row

\* An event that starts a trigger of a registered object.
LEMMA SoundPushTrigger ==
  ASSUME Sound, NEW x \in Known, stack' = <<TriggerFrame(x, NoRun)>> \o stack,
         UNCHANGED <<db, runtimes, rts, runs, woken, tasks, listening, overlapped, unread>>
  PROVE  Sound'
  <1>1. TriggerFrame(x, NoRun) \in Frames(Known)
    BY TriggerFrameGood DEF Callers
  <1>2. stack' \in Seq(Frames(Known))
    BY <1>1, PushOne DEF Sound
  <1>3. QED
    BY <1>2, SameKnown DEF Sound

LEMMA SoundTrigger ==
  ASSUME Sound, Trigger
  PROVE  Sound'
  <1>1. ASSUME NEW x \in RtIds, ScheduledTrigger(x)
        PROVE  Sound'
    <2>1. x \in Known
      BY <1>1 DEF ScheduledTrigger, Sound, GoodRuntime, Known
    <2>2. QED
      BY <1>1, <2>1, SoundPushTrigger DEF ScheduledTrigger, Push
  <1>2. ASSUME NEW d \in Devices, DeviceUpdate(d)
        PROVE  Sound'
    <2>1. PICK s \in Deliveries(d) : stack' = TriggerFrames(s) \o stack
      BY <1>2 DEF DeviceUpdate, Push
    <2>2. stack' \in Seq(Frames(Known))
      BY <2>1, TriggerFramesGood, Concat DEF Sound
    <2>3. QED
      BY <1>2, <2>2, SameKnown DEF DeviceUpdate, Sound
  <1>3. ASSUME NEW i \in Ids, ManualTrigger(i)
        PROVE  Sound'
    <2>1. CASE runtimes[i] # NoRt
      BY <1>3, <2>1, RegisteredGood, SoundPushTrigger DEF ManualTrigger, Push
    <2>2. CASE runtimes[i] = NoRt
      <3>1. PICK q \in RunIds : runs' = [runs EXCEPT ![q] = Loading(i, 0, NoRun)]
        BY <1>3, <2>2 DEF ManualTrigger
      <3>2. Loading(i, 0, NoRun) \in GoodRun(Known)
        BY LoadingGood DEF Callers
      <3>3. QED
        BY <1>3, <2>2, <3>1, <3>2, SoundUpdate DEF ManualTrigger
    <2>3. QED
      BY <2>1, <2>2
  <1>4. QED
    BY <1>1, <1>2, <1>3 DEF Trigger

LEMMA ProgramsGood ==
  ASSUME NEW row \in Rows
  PROVE  Programs(row) \subseteq Program
  <1>1. row.actions \in Seq(Action)
    BY RowAssumption
  <1>2. row.actions \in Program
    BY <1>1, SeqMonotonic DEF Program
  <1>3. <<>> \in Program
    BY EmptySeq DEF Program
  <1>4. QED
    BY <1>2, <1>3 DEF Programs

LEMMA SoundLoadReturns ==
  ASSUME Sound, NEW q \in RunIds, LoadReturns(q)
  PROVE  Sound'
  <1> DEFINE row == db[runs[q].id]
  <1>1. runs[q] \in GoodRun(Known) /\ runs[q].id \in Ids /\ runs[q].caller \in Callers
    BY TopRun DEF LoadReturns, GoodRun, Run, Callers
  <1>2. row \in Rows \cup {NoRow}
    BY <1>1 DEF Sound
  <1> HIDE DEF row
  <1>3. ASSUME row # NoRow,
               NEW todo \in Programs(row),
               runs' = [runs EXCEPT ![q].pc = "running", ![q].id = NoRow, ![q].todo = todo],
               stack' = <<RunFrame(q)>> \o stack
        PROVE  Sound'
    <2> DEFINE s == [runs[q] EXCEPT !.pc = "running", !.id = NoRow, !.todo = todo]
    <2>1. todo \in Program
      BY <1>2, <1>3, ProgramsGood
    <2>2. s \in GoodRun(Known)
      BY <1>1, <2>1 DEF GoodRun, Run, RunPc
    <2>3. runs' = [runs EXCEPT ![q] = s]
      BY <1>3 DEF Sound
    <2>4. stack' \in Seq(Frames(Known))
      BY <1>3, TopRun, PushOne DEF Sound
    <2>5. QED
      BY <2>2, <2>3, <2>4, SameKnown DEF LoadReturns, Sound
  <1>4. CASE runs' = Released(q, runs[q].caller) /\ UNCHANGED stack
    BY <1>1, <1>4, ReleasedGood, SameKnown DEF LoadReturns, Sound
  <1>5. QED
    BY <1>3, <1>4 DEF LoadReturns, Push, row

LEMMA SoundTimer ==
  ASSUME Sound, NEW r \in RunIds, Timer(r)
  PROVE  Sound'
  <1>1. CASE CommandEnds(r) \/ DelayEnds(r)
    <2> DEFINE s == [runs[r] EXCEPT !.pc = "resume"]
    <2>1. s \in GoodRun(Known)
      BY TopRun DEF GoodRun, Run, RunPc
    <2>2. runs' = [runs EXCEPT ![r] = s]
      BY <1>1 DEF CommandEnds, DelayEnds, Sound
    <2>3. QED
      BY <1>1, <2>1, <2>2, SoundUpdate DEF CommandEnds, DelayEnds
  <1>2. CASE ExecutionTimeout(r)
    <2>1. runs' \in [RunIds -> GoodRun(Known)]
      BY <1>2, AbortedGood DEF ExecutionTimeout, Sound
    <2>2. QED
      BY <1>2, <2>1, SameKnown DEF ExecutionTimeout, Sound
  <1>3. QED
    BY <1>1, <1>2, SoundLoadReturns DEF Timer

\* A teardown keeps every object registered and every run well-formed.
LEMMA TeardownGood ==
  ASSUME Sound, NEW X, NEW Y, Teardown(X, Y)
  PROVE  /\ rts' \in [RtIds -> GoodRuntime] /\ Known' = Known
         /\ runs' \in [RunIds -> GoodRun(Known)]
  <1> DEFINE t(x) == IF x \in X THEN TornDown(rts[x]) ELSE rts[x]
             v(x) == [t(x) EXCEPT !.indexed = @ /\ x \notin Y]
  <1>1. ASSUME NEW x \in RtIds
        PROVE  v(x) \in GoodRuntime /\ v(x).row = rts[x].row
    <2>1. rts[x] \in GoodRuntime
      BY DEF Sound
    <2>2. <<>> \in Seq(RunIds \cup {NoRun}) /\ Len(<<>>) <= MaxQueued
      BY EmptySeq, BoundAssumption
    <2>3. t(x) \in GoodRuntime /\ t(x).row = rts[x].row
      BY <2>1, <2>2 DEF TornDown, GoodRuntime, Runtime
    <2> HIDE DEF t
    <2>4. QED
      BY <2>3 DEF GoodRuntime, Runtime
  <1>2. rts' = [x \in RtIds |-> v(x)]
    BY DEF Teardown
  <1> HIDE DEF v
  <1>3. rts' \in [RtIds -> GoodRuntime]
    BY <1>1, <1>2
  <1>4. Known' = Known
    BY <1>1, <1>2, SameRows
  <1>5. runs' \in [RunIds -> GoodRun(Known)]
    BY AbortedRunGood DEF Teardown, Sound
  <1>6. QED
    BY <1>3, <1>4, <1>5

LEMMA UnregisterGood ==
  ASSUME Sound, NEW I, Unregister(I), Known' = Known
  PROVE  runtimes' \in [Ids -> Known' \cup {NoRt}]
  BY DEF Sound, Unregister

LEMMA SoundStop ==
  ASSUME Sound, Stop
  PROVE  Sound'
  BY TeardownGood, UnregisterGood DEF Stop, Sound

LEMMA SoundBeginReload ==
  ASSUME Sound, NEW t \in Tasks, BeginReload(t)
  PROVE  Sound'
  <1> DEFINE I == tasks[t].pending
             task == [tasks[t] EXCEPT !.pc = "reading"]
  <1>1. task \in Task /\ I \subseteq Ids
    BY DEF Sound, Task, TaskPc
  <1>2. tasks' = [tasks EXCEPT ![t] = task]
    BY DEF BeginReload, Sound
  <1>3. tasks' \in [Tasks -> Task]
    BY <1>1, <1>2 DEF Sound
  <1>4. overlapped' \subseteq Ids
    BY <1>1 DEF BeginReload, Sound
  <1> HIDE DEF I
  <1>5. Teardown(Registered(I), Registered(I)) /\ Unregister(I)
    BY DEF BeginReload, I
  <1>6. QED
    BY <1>3, <1>4, <1>5, TeardownGood, UnregisterGood DEF BeginReload, Sound

LEMMA SoundBeginFullReload ==
  ASSUME Sound, NEW t \in Tasks, BeginFullReload(t)
  PROVE  Sound'
  <1> DEFINE task == [IdleTask EXCEPT !.pc = "reading", !.pending = Ids]
  <1>1. task \in Task
    BY DEF IdleTask, NoTable, Task, TaskPc
  <1>2. tasks' \in [Tasks -> Task]
    BY <1>1 DEF BeginFullReload, Sound
  <1>3. overlapped' \subseteq Ids
    BY DEF BeginFullReload, Sound
  <1>4. QED
    BY <1>2, <1>3, TeardownGood, UnregisterGood DEF BeginFullReload, Sound

LEMMA SoundBoot ==
  ASSUME Sound, NEW t \in Tasks, Start(t)
  PROVE  Sound'
  <1> DEFINE task == [tasks[t] EXCEPT !.pc = "reading", !.pending = Ids]
  <1>1. task \in Task
    BY DEF Sound, Task, TaskPc
  <1>2. tasks' = [tasks EXCEPT ![t] = task]
    BY DEF Start, Sound
  <1>3. tasks' \in [Tasks -> Task] /\ overlapped' \subseteq Ids
    BY <1>1, <1>2 DEF Start, Sound
  <1>4. QED
    BY <1>3, SameKnown DEF Start, Sound

LEMMA SoundCommit ==
  ASSUME Sound, NEW t \in Tasks, NEW e \in Edits, Commit(t, e[1], e[2])
  PROVE  Sound'
  <1>1. e[1] \in Ids /\ e[2] \in Rows \cup {NoRow}
    BY RowAssumption
  <1>2. [IdleTask EXCEPT !.pc = "committed", !.pending = {e[1]}] \in Task
    BY <1>1 DEF IdleTask, NoTable, Task, TaskPc
  <1>3. tasks' \in [Tasks -> Task]
    BY <1>2 DEF Commit, Sound
  <1>4. db' \in [Ids -> Rows \cup {NoRow}]
    BY <1>1 DEF Commit, Sound
  <1>5. QED
    BY <1>3, <1>4, SameKnown DEF Commit, Sound

LEMMA SoundReadTable ==
  ASSUME Sound, NEW t \in Tasks, ReadTable(t)
  PROVE  Sound'
  <1> DEFINE I == tasks[t].pending
             selected == [i \in Ids |-> IF i \in I THEN db[i] ELSE NoRow]
             fetched(rows) == [tasks[t] EXCEPT !.pc = "fetched", !.rows = rows]
  <1>1. tasks[t] \in Task /\ I \subseteq Ids
    BY DEF Sound, Task
  <1>2. selected \in [Ids -> Rows \cup {NoRow}] /\ NoTable \in [Ids -> Rows \cup {NoRow}]
    BY DEF Sound, NoTable
  <1>3. PICK rows \in {selected, NoTable} :
          tasks' = [tasks EXCEPT ![t].pc = "fetched", ![t].rows = rows]
    BY DEF ReadTable
  <1>4. unread' \subseteq Ids
    BY <1>1 DEF ReadTable, Sound
  <1> HIDE DEF selected
  <1>5. fetched(rows) \in Task
    BY <1>1, <1>2 DEF Task, TaskPc
  <1>6. tasks' = [tasks EXCEPT ![t] = fetched(rows)]
    BY <1>3 DEF Sound
  <1>7. tasks' \in [Tasks -> Task]
    BY <1>5, <1>6 DEF Sound
  <1>8. QED
    BY <1>4, <1>7, SameKnown DEF ReadTable, Sound

LEMMA SoundRowsArrive ==
  ASSUME Sound, NEW t \in Tasks, RowsArrive(t)
  PROVE  Sound'
  <1>1. [tasks[t] EXCEPT !.pc = "registering"] \in Task
    BY DEF Sound, Task, TaskPc
  <1>2. tasks' \in [Tasks -> Task]
    BY <1>1 DEF RowsArrive, Sound
  <1>3. QED
    BY <1>2, SameKnown DEF RowsArrive, Sound

LEMMA SoundInit ==
  ASSUME Init
  PROVE  Sound
  <1>1. /\ <<>> \in Seq(Frames(Known)) /\ <<>> \in Seq(StartFrames(Known))
        /\ <<>> \in Seq(RunIds \cup {NoRun}) /\ Len(<<>>) <= MaxQueued
    BY EmptySeq, BoundAssumption
  <1>2. NewRuntime(NoRow, NoRow) \in GoodRuntime
    <2> DEFINE none == [id |-> NoRow, row |-> NoRow, indexed |-> FALSE,
                        armed |-> FALSE, abort |-> NoRun, promise |-> NoRun,
                        queue |-> <<>>, active |-> 0]
    <2>1. NewRuntime(NoRow, NoRow) = none
      BY DEF NewRuntime
    <2>2. none \in GoodRuntime
      BY <1>1 DEF GoodRuntime, Runtime
    <2>3. QED
      BY <2>1, <2>2
  <1>3. FreeRun \in GoodRun(Known)
    BY FreeRunGood
  <1>4. /\ IdleTask \in Task
        /\ [IdleTask EXCEPT !.pc = "unstarted", !.boot = TRUE] \in Task
    BY DEF IdleTask, NoTable, Task, TaskPc
  <1>5. tasks \in [Tasks -> Task]
    BY <1>4 DEF Init
  <1>6. db \in [Ids -> Rows \cup {NoRow}]
    BY RowAssumption DEF Init
  <1>7. QED
    BY <1>1, <1>2, <1>3, <1>5, <1>6 DEF Init, Sound

LEMMA SoundNext ==
  ASSUME Sound, [Next]_vars
  PROVE  Sound'
  <1>1. CASE Dispatch
    BY <1>1, SoundSingle, SoundRestart, SoundQueued, SoundParallel DEF Dispatch
  <1>2. ASSUME NEW r \in RunIds, Execute(r)
        PROVE  Sound'
    BY <1>2, SoundStart, SoundFinish, SoundLog, SoundAwait, SoundHelperCommand,
       SoundCondition, SoundCall, SoundSuspend DEF Execute
  <1>3. ASSUME NEW r \in RunIds, Settle(r)
        PROVE  Sound'
    BY <1>3, SoundSettleManual, SoundSettleExclusive, SoundSettleQueued,
       SoundSettleParallel DEF Settle
  <1>4. ASSUME NEW t \in Tasks, Reload(t)
        PROVE  Sound'
    BY <1>4, SoundCommit, SoundBoot, SoundBeginReload, SoundBeginFullReload, SoundReadTable,
       SoundRowsArrive, SoundRegister DEF Reload
  <1>5. CASE UNCHANGED vars
    BY <1>5, SameKnown DEF Sound, vars
  <1>6. QED
    BY <1>1, <1>2, <1>3, <1>4, <1>5, SoundWake, SoundTrigger, SoundStop,
       SoundResume, SoundTimer DEF Next

\* Sound says more than TypeOK.
LEMMA SoundTypes ==
  ASSUME Sound
  PROVE  TypeOK
  <1>1. Frames(Known) \subseteq Frame /\ StartFrames(Known) \subseteq Frame
    BY DEF Frames, StartFrames, Frame, Known, Callers
  <1>2. stack \in Seq(Frame) /\ woken \in Seq(Frame)
    BY <1>1, SeqMonotonic DEF Sound
  <1>3. QED
    BY <1>2 DEF Sound, TypeOK, GoodRuntime, GoodRun, Known

\* The engine never leaves its types, whatever the definitions and however
\* triggers, timeouts and reloads interleave, and no queue outgrows its cap.
THEOREM Typing == Spec => []TypeOK
  <1>1. Init => Sound
    BY SoundInit
  <1>2. Sound /\ [Next]_vars => Sound'
    BY SoundNext
  <1>3. Sound => TypeOK
    BY SoundTypes
  <1>4. QED
    BY <1>1, <1>2, <1>3, PTL DEF Spec

-----------------------------------------------------------------------------
(* The engine and the table: between reloads the engine runs what the      *)
(* table says.  The inductive invariant.                                   *)

\* Task t has torn i down and not registered it yet.
Loads(t, i) ==
  i \in tasks[t].pending /\ tasks[t].pc \in {"reading", "fetched", "registering"}
Awaits(i) == \E t \in Tasks : i \in tasks[t].pending /\ tasks[t].pc = "committed"
Booting == \E t \in Tasks : tasks[t].boot /\ tasks[t].pc = "registering"

TasksHeld ==
  \A t \in Tasks :
    /\ tasks[t].pc = "idle" => tasks[t].pending = {}
    /\ tasks[t].boot =>
         /\ tasks[t].pc \notin {"idle", "committed"}
         /\ tasks[t].pc \notin {"unstarted", "registering"} => tasks[t].pending = Ids

Placed == \A i \in Ids : runtimes[i] # NoRt => rts[runtimes[i]].id = i

OneLoader(i) == \A t, u \in Tasks : Loads(t, i) /\ Loads(u, i) => t = u
Vacant(i) == (\E t \in Tasks : Loads(t, i)) => runtimes[i] = NoRt
OnlyRegistered(i) ==
  \A x \in RtIds : rts[x].id = i /\ (rts[x].armed \/ rts[x].indexed) => runtimes[i] = x

\* What a task holds is what the table says, unless an edit is still to be loaded.
Fresh(i) ==
  \A t \in Tasks :
    Loads(t, i) /\ tasks[t].pc # "reading" /\ ~Awaits(i) =>
      tasks[t].rows[i] = db[i] \/ (i \in unread /\ tasks[t].rows[i] = NoRow)

\* While the start-up registers, what it has registered counts as loaded.
Current(i) ==
  ~Awaits(i) /\ (\A t \in Tasks : ~Loads(t, i)) =>
    /\ runtimes[i] # NoRt =>
         rts[runtimes[i]].row = db[i] /\ db[i] # NoRow /\ db[i].enabled
    /\ (listening \/ Booting) /\ i \notin unread /\ db[i] # NoRow /\ db[i].enabled
         => runtimes[i] # NoRt

Held(i) == OneLoader(i) /\ Vacant(i) /\ OnlyRegistered(i) /\ Fresh(i) /\ Current(i)
Table == TasksHeld /\ Placed /\ \A i \in Ids \ overlapped : Held(i)

-----------------------------------------------------------------------------
(* Facts about types.                                                      *)

LEMMA TaskTyped ==
  ASSUME Sound, NEW t \in Tasks
  PROVE  /\ tasks[t] \in Task /\ tasks[t].pending \subseteq Ids /\ tasks[t].boot \in BOOLEAN
         /\ tasks[t].pc \in TaskPc /\ tasks[t].rows \in [Ids -> Rows \cup {NoRow}]
         /\ tasks \in [Tasks -> Task]
  BY DEF Sound, Task

LEMMA Referenced ==
  ASSUME Sound, NEW i \in Ids, runtimes[i] # NoRt
  PROVE  runtimes[i] \in RtIds /\ rts[runtimes[i]].row \in Rows
  BY DEF Sound, Known

\* Steps that neither reload nor edit.
Undisturbed ==
  /\ UNCHANGED <<db, runtimes, tasks, overlapped, unread>>
  /\ listening' = listening
  /\ \A x \in RtIds :
       /\ rts'[x].id = rts[x].id /\ rts'[x].row = rts[x].row
       /\ rts'[x].armed = rts[x].armed /\ rts'[x].indexed = rts[x].indexed

LEMMA TableKept ==
  ASSUME Sound, Table, Undisturbed
  PROVE  Table'
  <1>1. TasksHeld'
    BY DEF Undisturbed, Table, TasksHeld
  <1>2. Placed'
    BY Referenced DEF Undisturbed, Table, Placed
  <1>3. \A i : /\ \A t : Loads(t, i)' = Loads(t, i)
              /\ Awaits(i)' = Awaits(i)
    BY DEF Undisturbed, Loads, Awaits
  <1>4. Booting' = Booting
    BY DEF Undisturbed, Booting
  <1>5. ASSUME NEW i \in Ids \ overlapped
        PROVE  Held(i)'
    <2>1. Held(i)
      BY <1>5 DEF Table
    <2>2. OneLoader(i)' /\ Vacant(i)'
      BY <1>3, <2>1 DEF Held, OneLoader, Vacant, Undisturbed
    <2>3. OnlyRegistered(i)'
      BY <2>1 DEF Held, OnlyRegistered, Undisturbed
    <2>4. Fresh(i)'
      BY <1>3, <2>1 DEF Held, Fresh, Undisturbed
    <2>5. Current(i)'
      BY <1>3, <1>4, <2>1, Referenced DEF Held, Current, Undisturbed
    <2>6. QED
      BY <2>2, <2>3, <2>4, <2>5 DEF Held
  <1>6. QED
    BY <1>1, <1>2, <1>5 DEF Table, Undisturbed

\* One object changes, but for what the table decides about it.
LEMMA TableUpdate ==
  ASSUME Sound, Table, NEW x, NEW v,
         rts' = [rts EXCEPT ![x] = v],
         x \in RtIds => /\ v.id = rts[x].id /\ v.row = rts[x].row
                        /\ v.armed = rts[x].armed /\ v.indexed = rts[x].indexed,
         UNCHANGED <<db, runtimes, tasks, listening, overlapped, unread>>
  PROVE  Table'
  BY TableKept DEF Undisturbed, Sound

LEMMA TableRuns ==
  ASSUME Sound, Table, UNCHANGED <<db, runtimes, rts, tasks, listening, overlapped, unread>>
  PROVE  Table'
  BY TableKept DEF Undisturbed

-----------------------------------------------------------------------------
(* Reloads.                                                                *)

\* A teardown of the objects X, with Y leaving the index.
LEMMA TeardownTable ==
  ASSUME Sound, NEW X, NEW Y, Teardown(X, Y)
  PROVE  \A x \in RtIds :
           /\ rts'[x].id = rts[x].id /\ rts'[x].row = rts[x].row
           /\ rts'[x].armed => rts[x].armed /\ x \notin X
           /\ rts'[x].indexed => rts[x].indexed /\ x \notin Y
  <1> DEFINE t(x) == IF x \in X THEN TornDown(rts[x]) ELSE rts[x]
             v(x) == [t(x) EXCEPT !.indexed = @ /\ x \notin Y]
  <1> TAKE x \in RtIds
  <1>1. rts[x] \in Runtime
    BY DEF Sound, GoodRuntime
  <1>2. rts'[x] = v(x)
    BY DEF Teardown
  <1>3. CASE x \in X
    BY <1>1, <1>2, <1>3 DEF TornDown, Runtime
  <1>4. CASE x \notin X
    BY <1>1, <1>2, <1>4 DEF Runtime
  <1>5. QED
    BY <1>3, <1>4

\* What a teardown and the clearing of the map leave of the ids I.
LEMMA RegistrationCleared ==
  ASSUME Sound, Table, NEW I \in SUBSET Ids, NEW Y, Registered(I) \subseteq Y,
         Teardown(Registered(I), Y), Unregister(I)
  PROVE  /\ Placed'
         /\ \A i \in I : runtimes'[i] = NoRt
         /\ \A i \in Ids \ I : runtimes'[i] = runtimes[i]
         /\ \A x \in RtIds : rts'[x].row = rts[x].row
         /\ \A i \in Ids \ overlapped : OnlyRegistered(i)'
  <1>1. /\ \A i \in I : runtimes'[i] = NoRt
        /\ \A i \in Ids \ I : runtimes'[i] = runtimes[i]
    BY DEF Unregister
  <1>2. \A x \in RtIds :
           /\ rts'[x].id = rts[x].id /\ rts'[x].row = rts[x].row
           /\ rts'[x].armed => rts[x].armed /\ x \notin Registered(I)
           /\ rts'[x].indexed => rts[x].indexed /\ x \notin Registered(I)
    BY TeardownTable
  <1>3. Placed'
    BY <1>1, <1>2, Referenced DEF Table, Placed
  <1>4. ASSUME NEW i \in Ids \ overlapped, NEW x \in RtIds,
               rts'[x].id = i, rts'[x].armed \/ rts'[x].indexed
        PROVE  runtimes'[i] = x
    <2>1. runtimes[i] = x /\ x \notin Registered(I)
      BY <1>2, <1>4 DEF Table, Held, OnlyRegistered
    <2>2. i \notin I
      BY <1>4, <2>1, BoundAssumption DEF Registered
    <2>3. QED
      BY <1>1, <2>1, <2>2
  <1>5. QED
    BY <1>1, <1>2, <1>3, <1>4 DEF OnlyRegistered

\* An id that a step concerns neither in the table nor in the map nor in a task.
LEMMA HeldElsewhere ==
  ASSUME Sound, NEW i \in Ids, Held(i), OnlyRegistered(i)',
         \A t \in Tasks : /\ Loads(t, i)' = Loads(t, i)
                          /\ Loads(t, i) =>
                               /\ tasks'[t].rows[i] = tasks[t].rows[i]
                               /\ tasks[t].pc = "reading" => tasks'[t].pc = "reading",
         Awaits(i)' = Awaits(i), db'[i] = db[i], i \in unread' <=> i \in unread,
         runtimes'[i] = runtimes[i],
         runtimes[i] # NoRt => rts'[runtimes[i]].row = rts[runtimes[i]].row,
         (listening \/ Booting)' => listening \/ Booting \/ \E t \in Tasks : Loads(t, i)
  PROVE  Held(i)'
  <1>1. OneLoader(i)' /\ Vacant(i)'
    BY DEF Held, OneLoader, Vacant
  <1>2. Fresh(i)'
    BY DEF Held, Fresh
  <1>3. Current(i)'
    BY DEF Held, Current
  <1>4. QED
    BY <1>1, <1>2, <1>3 DEF Held

\* An id that task t has just torn down while no other task was loading it.
LEMMA HeldLoading ==
  ASSUME Sound, NEW t \in Tasks, NEW i \in Ids, ~Reloading(t, i),
         \A u \in Tasks \ {t} : tasks'[u] = tasks[u],
         Loads(t, i)', tasks'[t].pc = "reading",
         runtimes'[i] = NoRt, OnlyRegistered(i)'
  PROVE  Held(i)'
  <1>1. \A u \in Tasks \ {t} : ~Loads(u, i)'
    BY DEF Loads, Reloading
  <1>2. OneLoader(i)' /\ Vacant(i)' /\ Fresh(i)' /\ Current(i)'
    BY <1>1 DEF OneLoader, Vacant, Fresh, Current
  <1>3. QED
    BY <1>2 DEF Held

LEMMA TableBeginReload ==
  ASSUME Sound, Table, NEW t \in Tasks, BeginReload(t)
  PROVE  Table'
  <1> PICK I \in SUBSET Ids : I = tasks[t].pending
    BY TaskTyped
  <1>1. /\ Teardown(Registered(I), Registered(I)) /\ Unregister(I)
        /\ overlapped' = overlapped \cup {i \in I : Reloading(t, i)}
        /\ tasks[t].pc = "committed"
        /\ UNCHANGED <<db, listening, unread>>
    BY DEF BeginReload
  <1>2. /\ tasks'[t].pc = "reading" /\ tasks'[t].pending = I
        /\ tasks'[t].boot = tasks[t].boot /\ tasks'[t].rows = tasks[t].rows
        /\ \A u \in Tasks \ {t} : tasks'[u] = tasks[u]
    BY TaskTyped DEF BeginReload, Task
  <1>3. /\ Placed'
        /\ \A i \in I : runtimes'[i] = NoRt
        /\ \A i \in Ids \ I : runtimes'[i] = runtimes[i]
        /\ \A x \in RtIds : rts'[x].row = rts[x].row
        /\ \A i \in Ids \ overlapped : OnlyRegistered(i)'
    BY <1>1, RegistrationCleared
  <1>4. TasksHeld'
    BY <1>1, <1>2 DEF Table, TasksHeld
  <1>5. Booting' => Booting
    BY <1>2 DEF Booting
  <1>6. ASSUME NEW i \in Ids \ overlapped'
        PROVE  Held(i)'
    <2>1. i \notin overlapped /\ Held(i) /\ OnlyRegistered(i)'
      BY <1>1, <1>3, <1>6 DEF Table
    <2>2. CASE i \in I
      <3>1. ~Reloading(t, i) /\ Loads(t, i)'
        BY <1>1, <1>2, <1>6, <2>2 DEF Loads
      <3>2. QED
        BY <1>2, <1>3, <2>1, <2>2, <3>1, HeldLoading
    <2>3. CASE i \notin I
      <3>1. \A u \in Tasks : /\ Loads(u, i)' = Loads(u, i)
                             /\ Loads(u, i) => tasks'[u] = tasks[u]
        BY <1>2, <2>3 DEF Loads
      <3>2. Awaits(i)' = Awaits(i)
        BY <1>2, <2>3 DEF Awaits
      <3>3. QED
        BY <1>1, <1>3, <1>5, <2>1, <2>3, <3>1, <3>2, HeldElsewhere, Referenced
    <2>4. QED
      BY <2>2, <2>3
  <1>7. QED
    BY <1>3, <1>4, <1>6 DEF Table

LEMMA TableBeginFullReload ==
  ASSUME Sound, Table, NEW t \in Tasks, BeginFullReload(t)
  PROVE  Table'
  <1>1. /\ Teardown(Registered(Ids), RtIds) /\ Unregister(Ids)
        /\ overlapped' = overlapped \cup {i \in Ids : Reloading(t, i)}
        /\ UNCHANGED <<db, listening, unread>>
    BY DEF BeginFullReload
  <1>2. /\ tasks'[t].pc = "reading" /\ tasks'[t].pending = Ids /\ ~tasks'[t].boot
        /\ \A u \in Tasks \ {t} : tasks'[u] = tasks[u]
    BY TaskTyped DEF BeginFullReload, IdleTask
  <1>3. Registered(Ids) \subseteq RtIds
    BY Referenced DEF Registered
  <1>4. /\ Placed'
        /\ \A i \in Ids : runtimes'[i] = NoRt
        /\ \A i \in Ids \ overlapped : OnlyRegistered(i)'
    BY <1>1, <1>3, RegistrationCleared
  <1>5. TasksHeld'
    BY <1>2 DEF Table, TasksHeld
  <1>6. ASSUME NEW i \in Ids \ overlapped'
        PROVE  Held(i)'
    <2>1. ~Reloading(t, i) /\ Loads(t, i)' /\ OnlyRegistered(i)'
      BY <1>1, <1>2, <1>4, <1>6 DEF Loads
    <2>2. QED
      BY <1>2, <1>4, <2>1, HeldLoading
  <1>7. QED
    BY <1>4, <1>5, <1>6 DEF Table

LEMMA TableBoot ==
  ASSUME Sound, Table, NEW t \in Tasks, Start(t)
  PROVE  Table'
  <1>1. /\ overlapped' = overlapped \cup {i \in Ids : runtimes[i] # NoRt \/ Reloading(t, i)}
        /\ UNCHANGED <<db, runtimes, rts, listening, unread>>
    BY DEF Start
  <1>2. /\ tasks'[t].pc = "reading" /\ tasks'[t].pending = Ids
        /\ \A u \in Tasks \ {t} : tasks'[u] = tasks[u]
    BY TaskTyped DEF Start, Task
  <1>3. TasksHeld' /\ Placed'
    BY <1>1, <1>2 DEF Table, TasksHeld, Placed
  <1>4. ASSUME NEW i \in Ids \ overlapped'
        PROVE  Held(i)'
    <2>1. ~Reloading(t, i) /\ runtimes'[i] = NoRt /\ Loads(t, i)'
      BY <1>1, <1>2, <1>4 DEF Loads
    <2>2. OnlyRegistered(i)'
      BY <1>1, <1>4 DEF Table, Held, OnlyRegistered
    <2>3. QED
      BY <1>2, <2>1, <2>2, HeldLoading
  <1>5. QED
    BY <1>1, <1>3, <1>4 DEF Table

LEMMA TableStop ==
  ASSUME Sound, Table, Stop
  PROVE  Table'
  <1>1. /\ Teardown(Registered(Ids), RtIds) /\ Unregister(Ids) /\ listening' = FALSE
        /\ UNCHANGED <<db, tasks, overlapped, unread>> /\ ~Booting
    BY DEF Stop, Quiet, Booting
  <1>2. Registered(Ids) \subseteq RtIds
    BY Referenced DEF Registered
  <1>3. /\ Placed'
        /\ \A i \in Ids : runtimes'[i] = NoRt
        /\ \A i \in Ids \ overlapped : OnlyRegistered(i)'
    BY <1>1, <1>2, RegistrationCleared
  <1>4. TasksHeld' /\ ~Booting'
    BY <1>1 DEF Table, TasksHeld, Booting
  <1>5. ASSUME NEW i \in Ids \ overlapped'
        PROVE  Held(i)'
    <2>1. Held(i) /\ OnlyRegistered(i)' /\ runtimes'[i] = NoRt
      BY <1>1, <1>3, <1>5 DEF Table
    <2>2. (\A t : Loads(t, i)' = Loads(t, i)) /\ Awaits(i)' = Awaits(i)
      BY <1>1 DEF Loads, Awaits
    <2>3. OneLoader(i)' /\ Vacant(i)' /\ Fresh(i)'
      BY <1>1, <2>1, <2>2 DEF Held, OneLoader, Vacant, Fresh
    <2>4. Current(i)'
      BY <1>1, <1>4, <2>1 DEF Current
    <2>5. QED
      BY <2>1, <2>3, <2>4 DEF Held
  <1>6. QED
    BY <1>1, <1>3, <1>4, <1>5 DEF Table

LEMMA TableCommit ==
  ASSUME Sound, Table, NEW t \in Tasks, NEW e \in Edits, Commit(t, e[1], e[2])
  PROVE  Table'
  <1> PICK k : k = e[1]
    OBVIOUS
  <1>1. k \in Ids /\ UNCHANGED <<runtimes, rts, listening, overlapped, unread>>
    BY RowAssumption DEF Commit
  <1>2. /\ tasks[t].pc = "idle" /\ tasks'[t].pc = "committed" /\ tasks'[t].pending = {k}
        /\ ~tasks'[t].boot /\ \A u \in Tasks \ {t} : tasks'[u] = tasks[u]
    BY TaskTyped DEF Commit, IdleTask
  <1>3. \A i \in Ids \ {k} : db'[i] = db[i]
    BY DEF Commit, Sound
  <1>4. TasksHeld' /\ Placed'
    BY <1>1, <1>2 DEF Table, TasksHeld, Placed
  <1>5. Booting' = Booting
    BY <1>2 DEF Booting
  <1>6. ASSUME NEW i \in Ids \ overlapped'
        PROVE  Held(i)'
    <2>1. Held(i) /\ OnlyRegistered(i)'
      BY <1>1, <1>6 DEF Table, Held, OnlyRegistered
    <2>2. \A u \in Tasks : /\ Loads(u, i)' = Loads(u, i)
                           /\ Loads(u, i) => tasks'[u] = tasks[u]
      BY <1>2 DEF Loads
    <2>3. CASE i = k
      <3>1. Awaits(i)'
        BY <1>2, <2>3 DEF Awaits
      <3>2. OneLoader(i)' /\ Vacant(i)'
        BY <1>1, <2>1, <2>2 DEF Held, OneLoader, Vacant
      <3>3. QED
        BY <2>1, <3>1, <3>2 DEF Held, Fresh, Current
    <2>4. CASE i # k
      <3>1. Awaits(i)' = Awaits(i)
        BY <1>2, <2>4 DEF Awaits
      <3>2. QED
        BY <1>1, <1>3, <1>5, <2>1, <2>2, <2>4, <3>1, HeldElsewhere
    <2>5. QED
      BY <2>3, <2>4
  <1>7. QED
    BY <1>4, <1>6 DEF Table

LEMMA TableReadTable ==
  ASSUME Sound, Table, NEW t \in Tasks, ReadTable(t)
  PROVE  Table'
  <1> PICK I \in SUBSET Ids : I = tasks[t].pending
    BY TaskTyped
  <1>1. UNCHANGED <<db, runtimes, rts, listening, overlapped>> /\ tasks[t].pc = "reading"
    BY DEF ReadTable
  <1>2. /\ tasks'[t].pc = "fetched" /\ tasks'[t].pending = I /\ tasks'[t].boot = tasks[t].boot
        /\ \A u \in Tasks \ {t} : tasks'[u] = tasks[u]
    BY TaskTyped DEF ReadTable, Task
  <1>3. \/ unread' = unread \ I /\ \A i \in I : tasks'[t].rows[i] = db[i]
        \/ unread' = unread \cup I /\ \A i \in I : tasks'[t].rows[i] = NoRow
    BY TaskTyped DEF ReadTable, Task, NoTable
  <1>4. TasksHeld' /\ Placed'
    BY <1>1, <1>2 DEF Table, TasksHeld, Placed
  <1>5. Booting' => Booting
    BY <1>2 DEF Booting
  <1>6. ASSUME NEW i \in Ids \ overlapped'
        PROVE  Held(i)'
    <2>1. Held(i) /\ OnlyRegistered(i)'
      BY <1>1, <1>6 DEF Table, Held, OnlyRegistered
    <2>2. (\A u \in Tasks : Loads(u, i)' = Loads(u, i)) /\ Awaits(i)' = Awaits(i)
      BY <1>1, <1>2 DEF Loads, Awaits
    <2>3. CASE i \in I
      <3>1. Loads(t, i) /\ \A u \in Tasks : Loads(u, i) => u = t
        BY <1>1, <2>1, <2>3 DEF Loads, Held, OneLoader
      <3>2. OneLoader(i)' /\ Vacant(i)' /\ Current(i)'
        BY <1>1, <2>1, <2>2, <3>1 DEF Held, OneLoader, Vacant, Current
      <3>3. Fresh(i)'
        BY <1>1, <1>3, <2>2, <2>3, <3>1 DEF Fresh
      <3>4. QED
        BY <2>1, <3>2, <3>3 DEF Held
    <2>4. CASE i \notin I
      <3>1. \A u \in Tasks : Loads(u, i) => tasks'[u] = tasks[u]
        BY <1>2, <2>4 DEF Loads
      <3>2. i \in unread' <=> i \in unread
        BY <1>3, <2>4
      <3>3. QED
        BY <1>1, <1>5, <2>1, <2>2, <3>1, <3>2, HeldElsewhere
    <2>5. QED
      BY <2>3, <2>4
  <1>7. QED
    BY <1>4, <1>6 DEF Table

LEMMA TableRowsArrive ==
  ASSUME Sound, Table, NEW t \in Tasks, RowsArrive(t)
  PROVE  Table'
  <1>1. UNCHANGED <<db, runtimes, rts, listening, overlapped, unread>> /\ tasks[t].pc = "fetched"
    BY DEF RowsArrive
  <1>2. /\ tasks'[t].pc = "registering" /\ tasks'[t].pending = tasks[t].pending
        /\ tasks'[t].boot = tasks[t].boot /\ tasks'[t].rows = tasks[t].rows
        /\ \A u \in Tasks \ {t} : tasks'[u] = tasks[u]
    BY TaskTyped DEF RowsArrive, Task
  <1>3. TasksHeld' /\ Placed'
    BY <1>1, <1>2 DEF Table, TasksHeld, Placed
  <1>4. ASSUME NEW i \in Ids \ overlapped'
        PROVE  Held(i)'
    <2>1. Held(i) /\ OnlyRegistered(i)'
      BY <1>1, <1>4 DEF Table, Held, OnlyRegistered
    <2>2. \A u \in Tasks : /\ Loads(u, i)' = Loads(u, i)
                           /\ tasks'[u].rows[i] = tasks[u].rows[i]
                           /\ tasks[u].pc = "reading" => tasks'[u].pc = "reading"
      BY <1>1, <1>2 DEF Loads
    <2>3. Awaits(i)' = Awaits(i)
      BY <1>1, <1>2 DEF Awaits
    <2>4. Booting' => Booting \/ Loads(t, i)
      BY <1>1, <1>2 DEF Booting, Loads, Table, TasksHeld
    <2>5. QED
      BY <1>1, <2>1, <2>2, <2>3, <2>4, HeldElsewhere
  <1>5. QED
    BY <1>1, <1>3, <1>4 DEF Table

\* What register does with the row of i: nothing to the other ids, and for i, if it had
\* no object, one with this row exactly if the row is enabled.
Registering(i, row) ==
  /\ Placed'
  /\ \A k \in Ids \ {i} :
       /\ runtimes'[k] = runtimes[k]
       /\ runtimes[k] # NoRt => rts'[runtimes[k]].row = rts[runtimes[k]].row
       /\ OnlyRegistered(k) => OnlyRegistered(k)'
  /\ runtimes[i] = NoRt /\ OnlyRegistered(i) =>
       /\ OnlyRegistered(i)'
       /\ runtimes'[i] # NoRt <=> row # NoRow /\ row.enabled
       /\ runtimes'[i] # NoRt => rts'[runtimes'[i]].row = row

LEMMA ObjectTaken ==
  ASSUME Sound, Placed, NEW i \in Ids, NEW row, row # NoRow, row.enabled,
         NEW x \in RtIds, Unreferenced(x),
         rts' = [rts EXCEPT ![x] = NewRuntime(i, row)],
         runtimes' = [runtimes EXCEPT ![i] = x]
  PROVE  Registering(i, row)
  <1>1. /\ rts'[x].id = i /\ rts'[x].row = row
        /\ \A y \in RtIds \ {x} : rts'[y] = rts[y]
    BY DEF Sound, NewRuntime
  <1>2. runtimes'[i] = x /\ \A k \in Ids \ {i} : runtimes'[k] = runtimes[k]
    BY DEF Sound
  <1>3. x # NoRt /\ \A k \in Ids : runtimes[k] # x
    BY BoundAssumption DEF Unreferenced
  <1>4. ASSUME NEW k \in Ids \ {i}, runtimes[k] # NoRt
        PROVE  rts'[runtimes[k]] = rts[runtimes[k]]
    BY <1>1, <1>3, <1>4, Referenced
  <1>5. Placed'
    BY <1>1, <1>2, <1>4 DEF Placed
  <1>6. ASSUME NEW k \in Ids \ {i}, OnlyRegistered(k)
        PROVE  OnlyRegistered(k)'
    BY <1>1, <1>2, <1>6 DEF OnlyRegistered
  <1>7. ASSUME runtimes[i] = NoRt, OnlyRegistered(i)
        PROVE  OnlyRegistered(i)'
    <2> SUFFICES ASSUME NEW y \in RtIds, rts'[y].id = i, rts'[y].armed \/ rts'[y].indexed, y # x
                 PROVE  FALSE
      BY <1>2 DEF OnlyRegistered
    <2>1. runtimes[i] = y
      BY <1>1, <1>7 DEF OnlyRegistered
    <2>2. QED
      BY <1>7, <2>1, BoundAssumption
  <1>8. QED
    BY <1>1, <1>2, <1>3, <1>4, <1>5, <1>6, <1>7 DEF Registering

LEMMA TableRegister ==
  ASSUME Sound, Table, NEW t \in Tasks, NEW i \in Ids, Register(t, i)
  PROVE  Table'
  <1> PICK row : row = tasks[t].rows[i]
    OBVIOUS
  <1>1. /\ tasks[t].pc = "registering" /\ i \in tasks[t].pending /\ Loads(t, i)
        /\ UNCHANGED <<db, overlapped, unread>>
        /\ row \in Rows \cup {NoRow}
    BY TaskTyped DEF Register, Loads
  <1>2. /\ \A u \in Tasks \ {t} : tasks'[u] = tasks[u]
        /\ \/ /\ tasks[t].pending = {i} /\ tasks'[t] = IdleTask
           \/ /\ tasks'[t].pc = tasks[t].pc /\ tasks'[t].boot = tasks[t].boot
              /\ tasks'[t].pending = tasks[t].pending \ {i}
              /\ \A k \in Ids \ {i} : tasks'[t].rows[k] = tasks[t].rows[k]
    BY TaskTyped DEF Register, Without, Task
  <1>3. TasksHeld'
    BY <1>1, <1>2 DEF Table, TasksHeld, IdleTask
  <1>4. (listening \/ Booting)' => listening \/ Booting
    <2>1. Booting' => Booting
      BY <1>1, <1>2 DEF Booting, IdleTask
    <2>2. listening' => listening \/ Booting
      BY <1>1 DEF Register, Booting
    <2>3. QED
      BY <2>1, <2>2
  <1>5. ASSUME NEW k \in Ids \ {i}, NEW u \in Tasks
        PROVE  /\ Loads(u, k)' = Loads(u, k)
               /\ Loads(u, k) => /\ tasks'[u].rows[k] = tasks[u].rows[k]
                                 /\ tasks'[u].pc = tasks[u].pc
    BY <1>1, <1>2 DEF Loads, IdleTask
  <1>6. ASSUME NEW k \in Ids
        PROVE  Awaits(k)' = Awaits(k)
    BY <1>1, <1>2 DEF Awaits, IdleTask
  <1>7. \/ /\ UNCHANGED <<rts, runtimes>> /\ ~(row # NoRow /\ row.enabled)
        \/ /\ row # NoRow /\ row.enabled
           /\ \E x \in RtIds : /\ FreeRuntime(x)
                               /\ rts' = [rts EXCEPT ![x] = NewRuntime(i, row)]
                               /\ runtimes' = [runtimes EXCEPT ![i] = x]
    BY DEF Register
  <1>8. Registering(i, row)
    <2>1. CASE UNCHANGED <<rts, runtimes>> /\ ~(row # NoRow /\ row.enabled)
      <3>1. Placed'
        BY <2>1 DEF Table, Placed
      <3>2. \A k : OnlyRegistered(k) => OnlyRegistered(k)'
        BY <2>1 DEF OnlyRegistered
      <3>3. QED
        BY <2>1, <3>1, <3>2 DEF Registering
    <2>2. ASSUME row # NoRow, row.enabled, NEW x \in RtIds, FreeRuntime(x),
                 rts' = [rts EXCEPT ![x] = NewRuntime(i, row)],
                 runtimes' = [runtimes EXCEPT ![i] = x]
          PROVE  Registering(i, row)
      BY <2>2, ObjectTaken DEF FreeRuntime, Table
    <2>3. QED
      BY <1>7, <2>1, <2>2
  <1>9. ASSUME NEW k \in Ids \ overlapped'
        PROVE  Held(k)'
    <2>1. Held(k)
      BY <1>1, <1>9 DEF Table
    <2>2. CASE k # i
      BY <1>1, <1>4, <1>5, <1>6, <1>8, <2>1, <2>2, HeldElsewhere DEF Held, Registering
    <2>3. CASE k = i
      <3>1. \A u \in Tasks : Loads(u, i) => u = t
        BY <1>1, <2>1, <2>3 DEF Held, OneLoader
      <3>2. \A u \in Tasks : ~Loads(u, i)'
        BY <1>1, <1>2, <3>1 DEF Loads, IdleTask
      <3>3. runtimes[i] = NoRt /\ OnlyRegistered(i)
        BY <1>1, <2>1, <2>3 DEF Held, Vacant
      <3>4. OneLoader(i)' /\ Vacant(i)' /\ Fresh(i)' /\ OnlyRegistered(i)'
        BY <1>8, <3>2, <3>3 DEF OneLoader, Vacant, Fresh, Registering
      <3>5. ~Awaits(i) => row = db[i] \/ (i \in unread /\ row = NoRow)
        BY <1>1, <2>1, <2>3 DEF Held, Fresh
      <3>6. Current(i)'
        BY <1>1, <1>6, <1>8, <3>3, <3>5 DEF Current, Registering
      <3>7. QED
        BY <2>3, <3>4, <3>6 DEF Held
    <2>4. QED
      BY <2>2, <2>3
  <1>10. QED
    BY <1>1, <1>3, <1>8, <1>9 DEF Table, Registering

-----------------------------------------------------------------------------
(* Every step.                                                             *)

LEMMA TableExecute ==
  ASSUME Sound, Table, NEW r \in RunIds, Execute(r)
  PROVE  Table'
  <1>1. CASE StartRun(r)
    <2> DEFINE x == Head(stack).rt
    <2>1. x \in RtIds /\ rts[x] \in Runtime
      BY <1>1, TopFrame DEF StartRun, Known, Sound, GoodRuntime
    <2>2. PICK a, n : rts' = [rts EXCEPT ![x].abort = a, ![x].active = n]
      BY <1>1 DEF StartRun
    <2>3. /\ rts'[x].id = rts[x].id /\ rts'[x].row = rts[x].row
          /\ rts'[x].armed = rts[x].armed /\ rts'[x].indexed = rts[x].indexed
          /\ \A y \in RtIds \ {x} : rts'[y] = rts[y]
      BY <2>1, <2>2 DEF Runtime, Sound
    <2> HIDE DEF x
    <2>4. QED
      BY <1>1, <2>3, TableKept DEF StartRun, Undisturbed
  <1>2. CASE Suspend(r)
    <2> PICK x : x = runs[r].rt
      OBVIOUS
    <2>1. CASE rts' = rts
      BY <1>2, <2>1, TableRuns DEF Suspend
    <2>2. CASE rts' # rts
      <3>1. rts' = [rts EXCEPT ![x].promise = Recorded(x, r)]
        BY <1>2, <2>2 DEF Suspend
      <3> DEFINE v == [rts[x] EXCEPT !.promise = Recorded(x, r)]
      <3>2. rts' = [rts EXCEPT ![x] = v]
        BY <3>1
      <3>3. x \in RtIds => /\ v.id = rts[x].id /\ v.row = rts[x].row
                           /\ v.armed = rts[x].armed /\ v.indexed = rts[x].indexed
        BY DEF Sound, GoodRuntime, Runtime
      <3> HIDE DEF v
      <3>4. QED
        BY <1>2, <3>2, <3>3, TableUpdate DEF Suspend
    <2>3. QED
      BY <2>1, <2>2
  <1>3. CASE Finish(r) \/ Log(r) \/ Await(r) \/ HelperCommand(r) \/ Condition(r) \/ Call(r)
    BY <1>3, TableRuns DEF Finish, Log, Await, HelperCommand, Condition, Call
  <1>4. QED
    BY <1>1, <1>2, <1>3 DEF Execute

LEMMA TableSettle ==
  ASSUME Sound, Table, NEW r \in RunIds, Settle(r)
  PROVE  Table'
  <1>1. CASE SettleManual(r)
    BY <1>1, TableRuns DEF SettleManual
  <1>2. CASE ~SettleManual(r)
    <2> PICK x : x = runs[r].rt
      OBVIOUS
    <2>1. x \in RtIds /\ rts[x] \in Runtime
      BY <1>2, SettledRuntime
         DEF Settle, SettleExclusive, SettleQueued, SettleParallel, GoodRuntime
    <2>2. /\ rts'[x].id = rts[x].id /\ rts'[x].row = rts[x].row
          /\ rts'[x].armed = rts[x].armed /\ rts'[x].indexed = rts[x].indexed
          /\ \A y \in RtIds \ {x} : rts'[y] = rts[y]
      <3>1. CASE SettleExclusive(r)
        <4>1. rts' = [rts EXCEPT ![x] = Cleared(rts[x])]
          BY <3>1 DEF SettleExclusive
        <4>2. QED
          BY <2>1, <4>1 DEF Cleared, Runtime, Sound
      <3>2. CASE SettleQueued(r)
        <4>1. PICK n, q : rts' = [rts EXCEPT ![x].abort = NoRun, ![x].active = n, ![x].queue = q]
          BY <3>2 DEF SettleQueued
        <4>2. QED
          BY <2>1, <4>1 DEF Runtime, Sound
      <3>3. CASE SettleParallel(r)
        <4>1. PICK n : rts' = [rts EXCEPT ![x].active = n]
          BY <3>3 DEF SettleParallel
        <4>2. QED
          BY <2>1, <4>1 DEF Runtime, Sound
      <3>4. QED
        BY <1>2, <3>1, <3>2, <3>3 DEF Settle
    <2>3. UNCHANGED <<db, runtimes, tasks, listening, overlapped, unread>>
      BY <1>2 DEF Settle, SettleExclusive, SettleQueued, SettleParallel
    <2>4. QED
      BY <2>2, <2>3, TableKept DEF Undisturbed
  <1>3. QED
    BY <1>1, <1>2

LEMMA TableDispatch ==
  ASSUME Sound, Table, Dispatch
  PROVE  Table'
  <1>1. CASE TriggerQueued
    <2> DEFINE x == Head(stack).rt
    <2>1. CASE rts' = rts
      BY <1>1, <2>1, TableRuns DEF TriggerQueued
    <2>2. CASE rts' # rts
      <3>1. x \in RtIds /\ rts[x] \in Runtime
        BY <1>1, TopFrame DEF TriggerQueued, Known, Sound, GoodRuntime
      <3>2. PICK q : rts' = [rts EXCEPT ![x] = [rts[x] EXCEPT !.queue = q]]
        BY <1>1, <2>2 DEF TriggerQueued
      <3> DEFINE v == [rts[x] EXCEPT !.queue = q]
      <3>3. /\ v.id = rts[x].id /\ v.row = rts[x].row
            /\ v.armed = rts[x].armed /\ v.indexed = rts[x].indexed
        BY <3>1 DEF Runtime
      <3>4. rts' = [rts EXCEPT ![x] = v]
        BY <3>2
      <3> HIDE DEF v, x
      <3>5. QED
        BY <1>1, <3>3, <3>4, TableUpdate DEF TriggerQueued
    <2>3. QED
      BY <2>1, <2>2
  <1>2. CASE TriggerSingle \/ TriggerRestart \/ TriggerParallel
    BY <1>2, TableRuns DEF TriggerSingle, TriggerRestart, TriggerParallel
  <1>3. QED
    BY <1>1, <1>2 DEF Dispatch

LEMMA TableNext ==
  ASSUME Sound, Table, [Next]_vars
  PROVE  Table'
  <1>1. CASE Wake
    BY <1>1, TableRuns DEF Wake
  <1>2. CASE Trigger
    BY <1>2, TableRuns DEF Trigger, ScheduledTrigger, DeviceUpdate, ManualTrigger
  <1>3. ASSUME NEW r \in RunIds, Resume(r) \/ Timer(r)
        PROVE  Table'
    BY <1>3, TableRuns DEF Resume, Timer, LoadReturns, CommandEnds, DelayEnds, ExecutionTimeout
  <1>4. ASSUME NEW t \in Tasks, Reload(t)
        PROVE  Table'
    BY <1>4, TableCommit, TableBoot, TableBeginReload, TableBeginFullReload, TableReadTable,
       TableRowsArrive, TableRegister DEF Reload
  <1>5. CASE UNCHANGED vars
    BY <1>5, TableRuns DEF vars
  <1>6. QED
    BY <1>1, <1>2, <1>3, <1>4, <1>5, TableDispatch, TableStop, TableExecute, TableSettle DEF Next

LEMMA TableInit ==
  ASSUME Init
  PROVE  Table
  <1>1. /\ \A t \in Tasks : tasks[t].pc = "unstarted" \/ tasks[t] = IdleTask
        /\ ~listening
    BY DEF Init, IdleTask
  <1>2. /\ \A i \in Ids : runtimes[i] = NoRt
        /\ \A x \in RtIds : ~rts[x].armed /\ ~rts[x].indexed
    BY DEF Init, NewRuntime
  <1>3. TasksHeld /\ Placed
    BY <1>1, <1>2 DEF TasksHeld, Placed, IdleTask
  <1>4. ASSUME NEW i \in Ids
        PROVE  Held(i)
    <2>1. ~Booting /\ \A t \in Tasks : ~Loads(t, i)
      BY <1>1 DEF Booting, Loads, IdleTask
    <2>2. QED
      BY <1>1, <1>2, <2>1 DEF Held, OneLoader, Vacant, OnlyRegistered, Fresh, Current
  <1>5. QED
    BY <1>3, <1>4 DEF Table

\* Between its reloads the engine runs exactly what the table says of an automation, for
\* any number of automations and requests and whatever is read or fails to be read,
\* unless two reloads of it overlapped or a reload came before start() (register,
\* teardown, reload, start, stop).
THEOREM RegistrationExact == Spec => []RegistrationMatchesRow
  <1>1. Init => Sound /\ Table
    BY SoundInit, TableInit
  <1>2. Sound /\ Table /\ [Next]_vars => Sound' /\ Table'
    BY SoundNext, TableNext
  <1>3. ASSUME Sound, Table
        PROVE  RegistrationMatchesRow
    <2> SUFFICES ASSUME NEW i \in Ids \ overlapped, \A t \in Tasks : i \notin tasks[t].pending
                 PROVE  /\ listening /\ i \notin unread /\ db[i] # NoRow /\ db[i].enabled
                             => runtimes[i] # NoRt
                        /\ \A x \in RtIds :
                             runtimes[i] = x \/ (rts[x].id = i /\ (rts[x].armed \/ rts[x].indexed))
                               => runtimes[i] = x /\ rts[x].row = db[i] /\ db[i].enabled
      BY DEF RegistrationMatchesRow
    <2>1. Held(i) /\ ~Awaits(i) /\ \A t \in Tasks : ~Loads(t, i)
      BY <1>3 DEF Table, Awaits, Loads
    <2>2. Current(i) /\ OnlyRegistered(i)
      BY <2>1 DEF Held
    <2>3. \A x \in RtIds : x # NoRt
      BY BoundAssumption
    <2>4. QED
      BY <2>1, <2>2, <2>3 DEF Current, OnlyRegistered
  <1>4. QED
    BY <1>1, <1>2, <1>3, PTL DEF Spec
=============================================================================
