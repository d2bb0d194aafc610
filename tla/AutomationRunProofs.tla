------------------------ MODULE AutomationRunProofs ------------------------
(***************************************************************************)
(* Theorems about AutomationEngine and the runs of its objects: one at a   *)
(* time in single mode, none after the teardown of the object, and nothing *)
(* dispatched by a run after its abort.                                    *)
(***************************************************************************)
EXTENDS AutomationCountProofs

USE DEF RunIds, RtIds, NoRun, NoRt

-----------------------------------------------------------------------------
(* Single mode: the inductive invariant.                                   *)

\* The objects the theorem is about, and what their runs may still do.
Plain(x) == InMode(x, {"single"}) /\ ~RunsEngineCode(rts[x].row)
EngineTypes == {"helper_command", "call_automation", "condition"}
PlainTodo(r) == \A k \in 1 .. Len(runs[r].todo) : runs[r].todo[k].type \notin EngineTypes

\* Until its promise is recorded a run is on top of the stack, so that no
\* trigger is looked at.
OnTop(r) == Top("run") /\ Head(stack).run = r
Covered(x, r) == IF runs[r].prefix THEN OnTop(r) ELSE rts[x].promise = r

Alone(x) ==
  Plain(x) =>
    /\ \A r \in Owned(x) : PlainTodo(r) /\ Covered(x, r) /\ Owned(x) = {r}
    /\ Starting(x) => Owned(x) = {}
AllAlone == \A x \in RtIds : Alone(x)

-----------------------------------------------------------------------------
(* Steps that start and end no run of these objects.                       *)

\* Every run goes on with the object it has; a run of a plain object keeps its prefix
\* and reaches no engine code.
RunsGoOn ==
  \A r \in RunIds :
    /\ runs'[r].rt = runs[r].rt
    /\ runs[r].rt \in RtIds /\ Plain(runs[r].rt) =>
         runs'[r].prefix = runs[r].prefix /\ PlainTodo(r)'
SamePromises ==
  \A x \in RtIds : rts'[x].row = rts[x].row /\ rts'[x].promise = rts[x].promise
\* The run on top stays there while its promise is not recorded, and a start comes up
\* only for an object without runs.
StackGoesOn ==
  \A x \in RtIds :
    Plain(x) =>
      /\ \A r \in Owned(x) : runs[r].prefix /\ OnTop(r) => OnTop(r)'
      /\ Starting(x)' => Owned(x) = {}

LEMMA AloneKept ==
  ASSUME Sound, AllAlone, RunsGoOn, SamePromises, StackGoesOn
  PROVE  AllAlone'
  <1> SUFFICES ASSUME NEW x \in RtIds, Plain(x)'
               PROVE  /\ \A r \in Owned(x)' : /\ PlainTodo(r)' /\ Covered(x, r)'
                                               /\ Owned(x)' = {r}
                      /\ Starting(x)' => Owned(x)' = {}
    BY DEF AllAlone, Alone
  <1>1. Plain(x)
    BY DEF Plain, InMode, Mode, SamePromises
  <1>2. Owned(x)' = Owned(x)
    BY SameOwned DEF RunsGoOn
  <1>3. ASSUME NEW r \in Owned(x)
        PROVE  PlainTodo(r)' /\ Covered(x, r)'
    <2>1. runs[r].rt = x /\ r \in RunIds /\ Covered(x, r)
      BY <1>1 DEF Owned, AllAlone, Alone
    <2>2. PlainTodo(r)' /\ runs'[r].prefix = runs[r].prefix
      BY <1>1, <2>1 DEF RunsGoOn
    <2>3. QED
      BY <1>1, <2>1, <2>2 DEF Covered, StackGoesOn, SamePromises
  <1>4. QED
    BY <1>1, <1>2, <1>3 DEF AllAlone, Alone, StackGoesOn

\* Nothing is on top, or something that is not a run: no run is in its prefix.
LEMMA NoPrefix ==
  ASSUME Sound, AllAlone, ~Top("run"), NEW x \in RtIds, Plain(x), NEW r \in Owned(x)
  PROVE  ~runs[r].prefix /\ rts[x].promise = r /\ r # NoRun
  BY BoundAssumption DEF AllAlone, Alone, Covered, OnTop, Owned

\* The frame under the top starts nothing.
LEMMA NoStartBelow ==
  ASSUME Sound, Counted, stack # <<>>, stack' = Tail(stack)
  PROVE  ~Top("start")'
  <1>1. Tail(stack) \in Seq(Calm)
    BY DEF Counted, StackHeld
  <1>2. Tail(stack) # <<>> => Head(Tail(stack)) \in Calm
    BY <1>1, HeadTail
  <1>3. QED
    BY <1>2 DEF Top, Calm

LEMMA AnsweredGoOn ==
  ASSUME Sound, NEW c \in Callers, NEW r \in RunIds
  PROVE  /\ Answered(runs, c)[r].rt = runs[r].rt
         /\ Answered(runs, c)[r].prefix = runs[r].prefix
         /\ Answered(runs, c)[r].todo = runs[r].todo
  <1>1. runs[r] \in Run /\ runs \in [RunIds -> Run]
    BY DEF Sound, GoodRun
  <1>2. CASE c = NoRun
    BY <1>2 DEF Answered
  <1>3. CASE c # NoRun
    BY <1>1, <1>3 DEF Answered, Callers, Run
  <1>4. QED
    BY <1>2, <1>3

LEMMA AbortedGoOn ==
  ASSUME NEW s \in Run
  PROVE  /\ AbortedRun(s).rt = s.rt /\ AbortedRun(s).prefix = s.prefix
         /\ AbortedRun(s).todo = s.todo
  BY DEF AbortedRun, Run

\* Runs that keep object, prefix and list.
LEMMA SameLists ==
  ASSUME AllAlone,
         \A r \in RunIds : /\ runs'[r].rt = runs[r].rt /\ runs'[r].prefix = runs[r].prefix
                           /\ runs'[r].todo = runs[r].todo
  PROVE  RunsGoOn
  <1>1. \A r \in RunIds : runs[r].rt \in RtIds /\ Plain(runs[r].rt) => PlainTodo(r)
    BY DEF AllAlone, Alone, Owned
  <1>2. QED
    BY <1>1 DEF RunsGoOn, PlainTodo

\* The lists of plain runs stay plain.
LEMMA PlainTail ==
  ASSUME Sound, NEW r \in RunIds, PlainTodo(r), runs[r].todo # <<>>,
         runs'[r].todo = Tail(runs[r].todo)
  PROVE  PlainTodo(r)'
  <1> PICK s : s = runs[r].todo
    OBVIOUS
  <1>1. s \in Program /\ s # <<>>
    BY TopRun
  <1>2. /\ Tail(s) \in Program
        /\ \A k \in 1 .. Len(Tail(s)) : k + 1 \in 1 .. Len(s) /\ Tail(s)[k] = s[k + 1]
    BY <1>1 DEF Program
  <1>3. QED
    BY <1>2 DEF PlainTodo

-----------------------------------------------------------------------------
(* Triggers.                                                               *)

LEMMA AloneSingle ==
  ASSUME Sound, Counted, AllAlone, TriggerSingle
  PROVE  AllAlone'
  <1> DEFINE x == Head(stack).rt
             c == Head(stack).run
  <1>1. x \in RtIds /\ c \in Callers /\ stack # <<>> /\ ~Top("run")
    BY TopFrame DEF TriggerSingle, Known, Top
  <1>2. RunsGoOn
    <2>1. runs' = runs \/ runs' = Answered(runs, c)
      BY DEF TriggerSingle
    <2>2. QED
      BY <1>1, <2>1, AnsweredGoOn, SameLists
  <1>3. SamePromises
    BY DEF TriggerSingle, SamePromises
  <1>4. StackGoesOn
    <2>1. \A y \in RtIds, r \in RunIds : Plain(y) => ~OnTop(r)
      BY <1>1 DEF OnTop
    <2>2. CASE stack' = Tail(stack)
      BY <1>1, <2>1, <2>2, NoStartBelow DEF StackGoesOn, Starting, Owned
    <2>3. CASE rts[x].promise = NoRun /\ stack' = <<StartFrame(x, c)>> \o Tail(stack)
      <3>1. Plain(x) => Owned(x) = {}
        BY <1>1, <2>3, NoPrefix
      <3>2. Head(stack').rt = x
        BY <2>3 DEF StartFrame
      <3>3. QED
        BY <2>1, <3>1, <3>2 DEF StackGoesOn, Starting, Owned
    <2>4. QED
      BY <2>2, <2>3 DEF TriggerSingle, Replace
  <1>5. QED
    BY <1>2, <1>3, <1>4, AloneKept

\* A trigger of another mode starts no run of a plain object.
LEMMA AloneOther ==
  ASSUME Sound, Counted, AllAlone, TriggerRestart \/ TriggerQueued \/ TriggerParallel
  PROVE  AllAlone'
  <1> DEFINE x == Head(stack).rt
             c == Head(stack).run
             a == rts[x].abort
             p == rts[x].promise
             waiting == [Aborted(runs, a) EXCEPT ![p].waiters = Append(@, c)]
  <1>1. /\ x \in RtIds /\ c \in Callers /\ stack # <<>> /\ ~Top("run")
        /\ Mode(x) # "single"
    BY TopFrame DEF TriggerRestart, TriggerQueued, TriggerParallel, Known, Top
  <1>2. RunsGoOn
    <2>1. \/ runs' = runs
          \/ runs' = Answered(runs, c)
          \/ a # NoRun /\ runs' = Aborted(runs, a)
          \/ a # NoRun /\ p # NoRun /\ runs' = waiting
      BY DEF TriggerRestart, TriggerQueued, TriggerParallel
    <2>2. CASE runs' = runs \/ runs' = Answered(runs, c)
      BY <1>1, <2>2, AnsweredGoOn, SameLists
    <2>3. ASSUME a # NoRun
          PROVE  \A r \in RunIds : /\ Aborted(runs, a)[r].rt = runs[r].rt
                                   /\ Aborted(runs, a)[r].prefix = runs[r].prefix
                                   /\ Aborted(runs, a)[r].todo = runs[r].todo
      <3>1. runs \in [RunIds -> Run]
        BY DEF Sound, GoodRun
      <3>2. QED
        BY <3>1, AbortedGoOn DEF Aborted
    <2>4. CASE a # NoRun /\ runs' = Aborted(runs, a)
      BY <2>3, <2>4, SameLists
    <2>5. CASE a # NoRun /\ p # NoRun /\ runs' = waiting
      <3> DEFINE rs == Aborted(runs, a)
      <3>1. rs \in [RunIds -> Run]
        <4>1. a \in RunIds /\ runs \in [RunIds -> GoodRun(Known)]
          BY <1>1, <2>5, HandleOf DEF Sound, Callers
        <4>2. rs \in [RunIds -> GoodRun(Known)]
          BY <4>1, AbortedGood
        <4> HIDE DEF rs
        <4>3. QED
          BY <4>2 DEF GoodRun
      <3>2. runs' = [rs EXCEPT ![p].waiters = Append(@, c)]
        BY <2>5
      <3> HIDE DEF rs
      <3>3. \A r \in RunIds : /\ runs'[r].rt = rs[r].rt /\ runs'[r].prefix = rs[r].prefix
                              /\ runs'[r].todo = rs[r].todo
        BY <3>1, <3>2 DEF Run
      <3>4. QED
        BY <2>3, <2>5, <3>3, SameLists DEF rs
    <2>6. QED
      BY <2>1, <2>2, <2>4, <2>5
  <1>3. SamePromises
    <2>1. CASE rts' = rts
      BY <2>1 DEF SamePromises
    <2>2. CASE rts' # rts
      <3>1. PICK q : rts' = [rts EXCEPT ![x].queue = q]
        BY <2>2 DEF TriggerRestart, TriggerQueued, TriggerParallel
      <3>2. rts \in [RtIds -> Runtime]
        BY DEF Sound, GoodRuntime
      <3>3. QED
        BY <3>1, <3>2 DEF SamePromises, Runtime
    <2>3. QED
      BY <2>1, <2>2
  <1>4. StackGoesOn
    <2>1. \A y \in RtIds, r \in RunIds : Plain(y) => ~OnTop(r)
      BY <1>1 DEF OnTop
    <2>2. CASE stack' = Tail(stack)
      BY <1>1, <2>1, <2>2, NoStartBelow DEF StackGoesOn, Starting, Owned
    <2>3. CASE stack' = <<StartFrame(x, c)>> \o Tail(stack)
      <3>1. Head(stack').rt = x /\ ~Plain(x)
        BY <1>1, <2>3 DEF StartFrame, Plain, InMode
      <3>2. QED
        BY <2>1, <3>1 DEF StackGoesOn, Starting, Owned
    <2>4. QED
      BY <2>2, <2>3 DEF TriggerRestart, TriggerQueued, TriggerParallel, Replace
  <1>5. QED
    BY <1>2, <1>3, <1>4, AloneKept

-----------------------------------------------------------------------------
(* A run starts, goes on and is recorded.                                  *)

\* A condition's branches and conditions aside, a plain row's list is plain.
LEMMA PlainPrograms ==
  ASSUME NEW x \in RtIds, rts[x].row \in Rows, Plain(x), NEW todo \in Programs(rts[x].row)
  PROVE  \A k \in 1 .. Len(todo) : todo[k].type \notin EngineTypes
  BY DEF Plain, RunsEngineCode, Programs, EngineTypes

LEMMA AloneStart ==
  ASSUME Sound, Counted, AllAlone, NEW r \in RunIds, StartRun(r)
  PROVE  AllAlone'
  <1> PICK x, c : x = Head(stack).rt /\ c = Head(stack).run
    OBVIOUS
  <1>1. /\ x \in RtIds /\ x # NoRt /\ rts[x].row \in Rows /\ stack # <<>>
        /\ Starting(x) /\ ~Top("run")
    <2>1. Top("start")
      BY DEF StartRun
    <2>2. x \in Known /\ stack # <<>> /\ Head(stack).kind = "start"
      BY <2>1, TopFrame DEF Top
    <2>3. QED
      BY <2>1, <2>2, BoundAssumption DEF Known, Top, Starting
  <1>2. runs[r].rt = NoRt /\ runs \in [RunIds -> Run]
    BY FreeSlotEmpty DEF StartRun, FreeSlot, Sound, GoodRun
  <1>3. PICK todo \in Programs(rts[x].row) : runs' = [runs EXCEPT ![r] = StartedRun(x, todo, c)]
    BY DEF StartRun
  <1>4. /\ runs'[r].rt = x /\ runs'[r].prefix /\ runs'[r].todo = todo
        /\ \A q \in RunIds \ {r} : runs'[q] = runs[q]
    BY <1>2, <1>3 DEF StartedRun
  <1>5. \A y \in RtIds : rts'[y].row = rts[y].row /\ rts'[y].promise = rts[y].promise
    <2>1. PICK a, n : rts' = [rts EXCEPT ![x].abort = a, ![x].active = n]
      BY DEF StartRun
    <2>2. rts \in [RtIds -> Runtime]
      BY DEF Sound, GoodRuntime
    <2>3. QED
      BY <1>1, <2>1, <2>2 DEF Runtime
  <1>6. Top("run")' /\ OnTop(r)'
    BY DEF StartRun, Replace, RunFrame, Top, OnTop
  <1>7. \A y \in RtIds : Plain(y)' = Plain(y)
    BY <1>5 DEF Plain, InMode, Mode
  <1>8. ASSUME NEW y \in RtIds
        PROVE  Alone(y)'
    <2>1. ~Starting(y)'
      BY <1>6 DEF Starting, Top
    <2>2. CASE y = x
      <3> SUFFICES ASSUME Plain(x)
                   PROVE  \A q \in Owned(x)' : /\ PlainTodo(q)' /\ Covered(x, q)'
                                               /\ Owned(x)' = {q}
        BY <1>7, <2>1, <2>2 DEF Alone
      <3>1. Owned(x) = {}
        BY <1>1 DEF AllAlone, Alone
      <3>2. Owned(x)' = {r}
        BY <1>4, <3>1 DEF Owned
      <3>3. PlainTodo(r)'
        BY <1>1, <1>4, PlainPrograms DEF PlainTodo
      <3>4. QED
        BY <1>4, <1>6, <3>2, <3>3 DEF Covered
    <2>3. CASE y # x
      <3> SUFFICES ASSUME Plain(y)
                   PROVE  \A q \in Owned(y)' : /\ PlainTodo(q)' /\ Covered(y, q)'
                                               /\ Owned(y)' = {q}
        BY <1>7, <2>1 DEF Alone
      <3>1. y # NoRt
        BY BoundAssumption
      <3>2. Owned(y)' = Owned(y) /\ r \notin Owned(y)
        BY <1>2, <1>4, <2>3, <3>1 DEF Owned
      <3>3. ASSUME NEW q \in Owned(y)
            PROVE  PlainTodo(q)' /\ Covered(y, q)'
        <4>1. ~runs[q].prefix /\ rts[y].promise = q
          BY <1>1, <3>3, NoPrefix
        <4>2. PlainTodo(q) /\ q \in RunIds /\ runs'[q] = runs[q]
          BY <1>4, <3>2, <3>3 DEF AllAlone, Alone, Owned
        <4>3. QED
          BY <1>5, <4>1, <4>2 DEF PlainTodo, Covered
      <3>4. QED
        BY <3>2, <3>3 DEF AllAlone, Alone
    <2>4. QED
      BY <2>2, <2>3
  <1>9. QED
    BY <1>8 DEF AllAlone

\* The run on top takes the next action of its list.
LEMMA AloneGoto ==
  ASSUME Sound, Counted, AllAlone, NEW r \in RunIds, Top("run"), Head(stack).run = r,
         runs[r].todo # <<>>, NEW pc, runs' = Goto(r, pc), UNCHANGED <<rts, stack>>
  PROVE  AllAlone'
  <1>1. /\ runs'[r].rt = runs[r].rt /\ runs'[r].prefix = runs[r].prefix
        /\ runs'[r].todo = Tail(runs[r].todo)
        /\ \A q \in RunIds \ {r} : runs'[q] = runs[q]
    BY DEF Goto, Sound, GoodRun, Run
  <1>2. ASSUME NEW q \in RunIds, runs[q].rt \in RtIds, Plain(runs[q].rt)
        PROVE  PlainTodo(q)'
    <2>1. PlainTodo(q)
      BY <1>2 DEF AllAlone, Alone, Owned
    <2>2. QED
      BY <1>1, <2>1, PlainTail DEF PlainTodo
  <1>3. RunsGoOn
    BY <1>1, <1>2 DEF RunsGoOn
  <1>4. SamePromises /\ StackGoesOn
    BY DEF SamePromises, StackGoesOn, OnTop, Top, Starting
  <1>5. QED
    BY <1>3, <1>4, AloneKept

LEMMA AloneFinish ==
  ASSUME Sound, Counted, AllAlone, NEW r \in RunIds, Finish(r)
  PROVE  AllAlone'
  <1>1. /\ runs'[r].rt = runs[r].rt /\ runs'[r].prefix = runs[r].prefix
        /\ runs'[r].todo = <<>>
        /\ \A q \in RunIds \ {r} : runs'[q] = runs[q]
    BY DEF Finish, Sound, GoodRun, Run
  <1>2. ASSUME NEW q \in RunIds, runs[q].rt \in RtIds, Plain(runs[q].rt)
        PROVE  PlainTodo(q)'
    <2>1. PlainTodo(q)
      BY <1>2 DEF AllAlone, Alone, Owned
    <2>2. QED
      BY <1>1, <2>1 DEF PlainTodo
  <1>3. RunsGoOn
    BY <1>1, <1>2 DEF RunsGoOn
  <1>4. SamePromises /\ StackGoesOn
    BY DEF Finish, SamePromises, StackGoesOn, OnTop, Top, Starting
  <1>5. QED
    BY <1>3, <1>4, AloneKept

\* A run that reaches engine code is of no plain object, and while it is on top no
\* plain run is in its prefix.
LEMMA NotPlain ==
  ASSUME Sound, AllAlone, NEW r \in RunIds, Reaches(r, EngineTypes)
  PROVE  /\ ~(runs[r].rt \in RtIds /\ Plain(runs[r].rt))
         /\ \A x \in RtIds : Plain(x) => \A q \in Owned(x) : ~OnTop(q)
  <1>1. ~PlainTodo(r)
    <2>1. runs[r].todo \in Program /\ runs[r].todo # <<>>
      BY TopRun DEF Reaches
    <2>2. 1 \in 1 .. Len(runs[r].todo) /\ runs[r].todo[1] = Head(runs[r].todo)
      BY <2>1 DEF Program
    <2>3. QED
      BY <2>2 DEF Reaches, PlainTodo
  <1>2. QED
    BY <1>1 DEF AllAlone, Alone, Owned, OnTop, Reaches

\* What such a run makes of its own list, and of slots no runtime has, is free.
LEMMA AloneEngineCode ==
  ASSUME Sound, Counted, AllAlone, NEW r \in RunIds, Reaches(r, EngineTypes), UNCHANGED rts,
         \A q \in RunIds : /\ runs'[q].rt = runs[q].rt
                           /\ q = r \/ runs'[q] = runs[q] \/ runs[q].rt = NoRt,
         ~Top("start")'
  PROVE  AllAlone'
  <1>1. NoRt \notin RtIds
    BY BoundAssumption
  <1>2. ASSUME NEW q \in RunIds, runs[q].rt \in RtIds, Plain(runs[q].rt)
        PROVE  runs'[q] = runs[q] /\ PlainTodo(q)
    BY <1>1, <1>2, NotPlain DEF AllAlone, Alone, Owned
  <1>3. RunsGoOn
    BY <1>2 DEF RunsGoOn, PlainTodo
  <1>4. SamePromises
    BY DEF SamePromises
  <1>5. StackGoesOn
    BY NotPlain DEF StackGoesOn, Starting
  <1>6. QED
    BY <1>3, <1>4, <1>5, AloneKept

LEMMA AloneHelperCommand ==
  ASSUME Sound, Counted, AllAlone, NEW r \in RunIds, HelperCommand(r)
  PROVE  AllAlone'
  <1>1. Reaches(r, EngineTypes) /\ UNCHANGED rts /\ Top("run")
    BY DEF HelperCommand, Reaches, EngineTypes
  <1>2. \A q \in RunIds : /\ runs'[q].rt = runs[q].rt
                          /\ q = r \/ runs'[q] = runs[q]
    BY DEF HelperCommand, Goto, Sound, GoodRun, Run
  <1>3. ~Top("start")'
    <2>1. PICK s \in Deliveries(Head(runs[r].todo).device) : stack' = TriggerFrames(s) \o stack
      BY DEF HelperCommand, Push
    <2>2. TriggerFrames(s) \in Seq(Calm) /\ stack \in Seq(Calm)
      BY <1>1, TriggersCalm, CalmStack DEF Counted, Top
    <2>3. stack' \in Seq(Calm)
      BY <2>1, <2>2, Concat
    <2>4. stack' # <<>> => Head(stack') \in Calm
      BY <2>3, HeadTail
    <2>5. QED
      BY <2>4 DEF Top, Calm
  <1>4. QED
    BY <1>1, <1>2, <1>3, AloneEngineCode

LEMMA AloneCondition ==
  ASSUME Sound, Counted, AllAlone, NEW r \in RunIds, Condition(r)
  PROVE  AllAlone'
  <1>1. Reaches(r, EngineTypes) /\ UNCHANGED <<rts, stack>> /\ Top("run")
    BY DEF Condition, Reaches, EngineTypes
  <1>2. PICK todo : runs' = [runs EXCEPT ![r].todo = todo]
    BY DEF Condition
  <1>3. \A q \in RunIds : /\ runs'[q].rt = runs[q].rt
                          /\ q = r \/ runs'[q] = runs[q]
    BY <1>2 DEF Sound, GoodRun, Run
  <1>4. ~Top("start")'
    BY <1>1 DEF Top
  <1>5. QED
    BY <1>1, <1>3, <1>4, AloneEngineCode

LEMMA AloneCall ==
  ASSUME Sound, Counted, AllAlone, NEW r \in RunIds, Call(r)
  PROVE  AllAlone'
  <1>1. Reaches(r, EngineTypes) /\ UNCHANGED rts /\ Top("run") /\ runs \in [RunIds -> Run]
    BY DEF Call, Reaches, EngineTypes, Sound, GoodRun
  <1>2. ASSUME NEW pc, NEW q \in RunIds
        PROVE  /\ Goto(r, pc)[q].rt = runs[q].rt
               /\ q = r \/ Goto(r, pc)[q] = runs[q]
    BY <1>1 DEF Goto, Run
  <1>3. CASE \E pc : runs' = Goto(r, pc)
    <2>1. \/ stack' = stack
          \/ stack' = <<TriggerFrame(runtimes[Head(runs[r].todo).target], r)>> \o stack
      <3>1. \/ UNCHANGED stack
            \/ Push(<<TriggerFrame(runtimes[Head(runs[r].todo).target], r)>>)
        BY DEF Call
      <3>2. QED
        BY <3>1 DEF Push
    <2>2. ~Top("start")'
      BY <1>1, <2>1 DEF Top, TriggerFrame
    <2>3. QED
      BY <1>1, <1>2, <1>3, <2>2, AloneEngineCode
  <1>4. ASSUME NEW i, NEW d, NEW q \in RunIds, FreeSlot(q), UNCHANGED stack,
               runs' = [Goto(r, "calling") EXCEPT ![q] = Loading(i, d, r)]
        PROVE  AllAlone'
    <2>1. runs[q].rt = NoRt /\ Loading(i, d, r).rt = NoRt
      BY <1>4, FreeSlotEmpty DEF FreeSlot, Loading
    <2>2. DOMAIN Goto(r, "calling") = RunIds
      BY <1>1 DEF Goto
    <2>3. \A p \in RunIds : runs'[p] = IF p = q THEN Loading(i, d, r) ELSE Goto(r, "calling")[p]
      BY <1>4, <2>2 DEF Goto
    <2>4. \A p \in RunIds : /\ runs'[p].rt = runs[p].rt
                            /\ p = r \/ runs'[p] = runs[p] \/ runs[p].rt = NoRt
      BY <1>2, <2>1, <2>3
    <2>5. ~Top("start")'
      BY <1>1, <1>4 DEF Top
    <2>6. QED
      BY <1>1, <2>4, <2>5, AloneEngineCode
  <1>5. QED
    BY <1>3, <1>4 DEF Call

LEMMA AloneExecute ==
  ASSUME Sound, Counted, AllAlone, NEW r \in RunIds, Log(r) \/ Await(r)
  PROVE  AllAlone'
  <1>1. Top("run") /\ Head(stack).run = r /\ runs[r].todo # <<>> /\ UNCHANGED <<rts, stack>>
    BY DEF Log, Await, Reaches
  <1>2. PICK pc : runs' = Goto(r, pc)
    BY DEF Log, Await
  <1>3. QED
    BY <1>1, <1>2, AloneGoto

\* The prefix of the run on top ends: in single mode its promise is recorded.
LEMMA AloneSuspend ==
  ASSUME Sound, Counted, AllAlone, NEW r \in RunIds, Suspend(r)
  PROVE  AllAlone'
  <1> PICK x, c : x = runs[r].rt /\ c = runs[r].caller
    OBVIOUS
  <1> DEFINE answered == Answered(runs, c)
             first == [answered EXCEPT ![r].prefix = FALSE, ![r].caller = NoRun]
             later == [runs EXCEPT ![r].prefix = FALSE]
             Kept(rs) == \A q \in RunIds :
                           /\ rs[q].rt = runs[q].rt /\ rs[q].todo = runs[q].todo
                           /\ rs[q].prefix = (q # r /\ runs[q].prefix)
  <1>1. c \in Callers /\ stack # <<>> /\ stack' = Tail(stack)
    BY RunTyped DEF Suspend, Top
  <1>2. Kept(first)
    <2>1. answered \in [RunIds -> Run]
      <3>1. answered \in [RunIds -> GoodRun(Known)]
        BY <1>1, AnsweredGood DEF Sound
      <3> HIDE DEF answered
      <3>2. QED
        BY <3>1 DEF GoodRun
    <2>2. \A q \in RunIds : /\ answered[q].rt = runs[q].rt /\ answered[q].todo = runs[q].todo
                            /\ answered[q].prefix = runs[q].prefix
      BY <1>1, AnsweredGoOn
    <2> HIDE DEF answered
    <2>3. \A q \in RunIds : /\ first[q].rt = answered[q].rt /\ first[q].todo = answered[q].todo
                            /\ first[q].prefix = (q # r /\ answered[q].prefix)
      BY <2>1 DEF Run
    <2> HIDE DEF first
    <2>4. QED
      BY <2>2, <2>3
  <1>3. Kept(later)
    BY RunTyped DEF Sound, Run
  <1>4. \/ /\ runs[r].prefix /\ Mode(x) # "queued" /\ runs' = first
           /\ rts' = [rts EXCEPT ![x].promise = Recorded(x, r)]
        \/ /\ ~(runs[r].prefix /\ Mode(x) # "queued")
           /\ runs' = later /\ rts' = rts
    BY DEF Suspend, answered
  <1> HIDE DEF first, later, answered
  <1>5. \A q \in RunIds : /\ runs'[q].rt = runs[q].rt /\ runs'[q].todo = runs[q].todo
                         /\ runs'[q].prefix = (q # r /\ runs[q].prefix)
    <2>1. CASE runs' = first
      BY <1>2, <2>1
    <2>2. CASE runs' = later
      BY <1>3, <2>2
    <2>3. QED
      BY <1>4, <2>1, <2>2
  <1>6. /\ \A y \in RtIds : rts'[y].row = rts[y].row
        /\ \A y \in RtIds \ {x} : rts'[y].promise = rts[y].promise
        /\ x \in RtIds /\ Mode(x) = "single" =>
             rts'[x].promise = IF runs[r].prefix THEN r ELSE rts[x].promise
    <2>1. rts \in [RtIds -> Runtime]
      BY DEF Sound, GoodRuntime
    <2>2. Mode(x) = "single" => Recorded(x, r) = r
      BY DEF Recorded
    <2>3. ASSUME NEW p, rts' = [rts EXCEPT ![x].promise = p]
          PROVE  /\ \A y \in RtIds : rts'[y].row = rts[y].row
                 /\ \A y \in RtIds \ {x} : rts'[y].promise = rts[y].promise
                 /\ x \in RtIds => rts'[x].promise = p
      BY <2>1, <2>3 DEF Runtime
    <2>4. QED
      BY <1>4, <2>2, <2>3
  <1>7. \A y \in RtIds : Plain(y)' = Plain(y) /\ Owned(y)' = Owned(y)
    BY <1>5, <1>6 DEF Plain, InMode, Mode, Owned
  <1>8. ASSUME NEW y \in RtIds, Plain(y), NEW q \in Owned(y)
        PROVE  PlainTodo(q)' /\ Covered(y, q)' /\ Owned(y) = {q}
    <2>1. q \in RunIds /\ runs[q].rt = y /\ PlainTodo(q) /\ Covered(y, q) /\ Owned(y) = {q}
      BY <1>8 DEF AllAlone, Alone, Owned
    <2>2. PlainTodo(q)'
      BY <1>5, <2>1 DEF PlainTodo
    <2>3. CASE q = r
      <3>1. y = x /\ Mode(x) = "single"
        BY <1>8, <2>1, <2>3 DEF Plain, InMode
      <3>2. rts'[y].promise = r /\ ~runs'[q].prefix
        BY <1>5, <1>6, <2>1, <2>3, <3>1 DEF Covered
      <3>3. QED
        BY <2>1, <2>2, <2>3, <3>2 DEF Covered
    <2>4. CASE q # r
      <3>1. ~runs[q].prefix /\ rts[y].promise = q
        BY <2>1, <2>4 DEF Covered, OnTop, Suspend
      <3>2. y # x
        BY <2>1, <2>4 DEF Owned
      <3>3. rts'[y].promise = q /\ ~runs'[q].prefix
        BY <1>5, <1>6, <2>1, <3>1, <3>2
      <3>4. QED
        BY <2>1, <2>2, <3>3 DEF Covered
    <2>5. QED
      BY <2>3, <2>4
  <1>9. ~Top("start")'
    BY <1>1, NoStartBelow
  <1>10. QED
    BY <1>7, <1>8, <1>9 DEF AllAlone, Alone, Starting

-----------------------------------------------------------------------------
(* Continuations and events: the stack is empty before them.               *)

LEMMA AloneQuiet ==
  ASSUME Sound, Counted, AllAlone, stack = <<>>, SamePromises,
         \A x \in RtIds : Plain(x) => ~Starting(x)',
         \A q \in RunIds :
           /\ runs'[q].rt = runs[q].rt
           /\ runs[q].rt # NoRt =>
                runs'[q].prefix = runs[q].prefix /\ runs'[q].todo = runs[q].todo
  PROVE  AllAlone'
  <1>1. \A r \in RunIds : runs[r].rt \in RtIds /\ Plain(runs[r].rt) => PlainTodo(r)
    BY DEF AllAlone, Alone, Owned
  <1>2. RunsGoOn
    BY <1>1, BoundAssumption DEF RunsGoOn, PlainTodo
  <1>3. StackGoesOn
    BY DEF StackGoesOn, OnTop, Top
  <1>4. QED
    BY <1>2, <1>3, AloneKept

LEMMA AloneResume ==
  ASSUME Sound, Counted, AllAlone, NEW r \in RunIds, Resume(r)
  PROVE  AllAlone'
  <1>1. \A q \in RunIds : /\ runs'[q].rt = runs[q].rt /\ runs'[q].prefix = runs[q].prefix
                          /\ runs'[q].todo = runs[q].todo
    BY RunTyped DEF Resume, Sound, Run
  <1>2. stack = <<>> /\ stack' = <<RunFrame(r)>> \o <<>> /\ rts' = rts
    BY DEF Resume, Push
  <1>3. ~Top("start")'
    BY <1>2 DEF Top, RunFrame
  <1>4. QED
    BY <1>1, <1>2, <1>3, AloneQuiet DEF SamePromises, Starting

\* A trigger that waited is one of restart mode.
LEMMA AloneWake ==
  ASSUME Sound, Counted, AllAlone, Wake
  PROVE  AllAlone'
  <1>1. Head(woken) \in Restarts
    BY HeadTail DEF Wake, Counted, StackHeld
  <1>2. stack = <<>> /\ stack' = <<Head(woken)>> \o <<>> /\ UNCHANGED <<rts, runs>>
    BY DEF Wake, Push
  <1>3. Head(stack') = Head(woken)
    BY <1>2
  <1>4. \A x \in RtIds : Plain(x) => ~Starting(x)'
    BY <1>1, <1>3 DEF Restarts, Plain, InMode, Starting
  <1>5. QED
    BY <1>2, <1>4, AloneQuiet DEF SamePromises

\* A run is over.
LEMMA AloneFreed ==
  ASSUME Sound, Counted, AllAlone, stack = <<>>, NEW r \in RunIds, NEW c \in Callers,
         runs' = Released(r, c), RowsKept,
         \A y \in RtIds : y # runs[r].rt => rts'[y].promise = rts[y].promise,
         \A y \in RtIds : Plain(y) => ~Starting(y)'
  PROVE  AllAlone'
  <1>1. /\ runs'[r].rt = NoRt
        /\ \A q \in RunIds \ {r} : /\ runs'[q].rt = runs[q].rt
                                   /\ runs'[q].prefix = runs[q].prefix
                                   /\ runs'[q].todo = runs[q].todo
    <2> DEFINE answered == Answered(runs, c)
    <2>1. answered \in [RunIds -> GoodRun(Known)]
      BY AnsweredGood DEF Sound
    <2>2. \A q \in RunIds : /\ answered[q].rt = runs[q].rt /\ answered[q].todo = runs[q].todo
                            /\ answered[q].prefix = runs[q].prefix
      BY AnsweredGoOn
    <2>3. runs' = [answered EXCEPT ![r] = FreeRun]
      BY DEF Released
    <2> HIDE DEF answered
    <2>4. QED
      BY <2>1, <2>2, <2>3 DEF FreeRun
  <1>2. \A y \in RtIds : Plain(y)' = Plain(y) /\ y # NoRt
    BY BoundAssumption DEF RowsKept, Plain, InMode, Mode
  <1>3. ASSUME NEW y \in RtIds, Plain(y)
        PROVE  \A q \in Owned(y)' : PlainTodo(q)' /\ Covered(y, q)' /\ Owned(y)' = {q}
    <2>1. Owned(y)' = Owned(y) \ {r}
      BY <1>1, <1>2 DEF Owned
    <2>2. CASE r \in Owned(y)
      <3>1. Owned(y) = {r}
        BY <1>3, <2>2 DEF AllAlone, Alone
      <3>2. QED
        BY <2>1, <3>1
    <2>3. ASSUME r \notin Owned(y), NEW q \in Owned(y)
          PROVE  PlainTodo(q)' /\ Covered(y, q)' /\ Owned(y) = {q}
      <3>1. q \in RunIds \ {r} /\ PlainTodo(q) /\ Owned(y) = {q} /\ y # runs[r].rt
        BY <1>3, <2>3 DEF AllAlone, Alone, Owned
      <3>2. ~runs[q].prefix /\ rts[y].promise = q
        BY <1>3, <2>3, NoPrefix DEF Top
      <3>3. QED
        BY <1>1, <3>1, <3>2 DEF PlainTodo, Covered
    <2>4. QED
      BY <2>1, <2>2, <2>3
  <1>4. QED
    BY <1>2, <1>3 DEF AllAlone, Alone

LEMMA AloneSettle ==
  ASSUME Sound, Counted, AllAlone, NEW r \in RunIds, Settle(r)
  PROVE  AllAlone'
  <1> PICK x : x = runs[r].rt
    OBVIOUS
  <1>1. stack = <<>> /\ runs[r].caller \in Callers /\ NoRun \in Callers
    BY RunTyped DEF Settle, SettleManual, SettleExclusive, SettleQueued, SettleParallel, Callers
  <1>2. rts \in [RtIds -> Runtime]
    BY DEF Sound, GoodRuntime
  <1>3. RowsKept /\ \A y \in RtIds : y # x => rts'[y].promise = rts[y].promise
    <2>1. CASE rts' = rts
      BY <2>1 DEF RowsKept
    <2>2. CASE rts' = [rts EXCEPT ![x] = Cleared(@)]
      BY <1>2, <2>2 DEF RowsKept, Cleared, Runtime
    <2>3. ASSUME NEW n, NEW q, rts' = [rts EXCEPT ![x].abort = NoRun, ![x].active = n,
                                                  ![x].queue = q]
          PROVE  RowsKept /\ \A y \in RtIds : y # x => rts'[y].promise = rts[y].promise
      <3> DEFINE v == [rts[x] EXCEPT !.abort = NoRun, !.active = n, !.queue = q]
      <3>1. \A y \in RtIds : rts'[y] = IF y = x THEN v ELSE rts[y]
        BY <1>2, <2>3
      <3>2. x \in RtIds => v.row = rts[x].row
        BY <1>2 DEF Runtime
      <3> HIDE DEF v
      <3>3. QED
        BY <3>1, <3>2 DEF RowsKept
    <2>4. ASSUME NEW n, rts' = [rts EXCEPT ![x].active = n]
          PROVE  RowsKept /\ \A y \in RtIds : y # x => rts'[y].promise = rts[y].promise
      BY <1>2, <2>4 DEF RowsKept, Runtime
    <2>5. CASE SettleQueued(r)
      BY <2>3, <2>5 DEF SettleQueued
    <2>6. QED
      BY <2>1, <2>2, <2>4, <2>5 DEF Settle, SettleManual, SettleExclusive, SettleParallel
  <1>4. \A y \in RtIds : Plain(y) => ~Starting(y)'
    <2>1. CASE stack' = stack
      BY <1>1, <2>1 DEF Starting, Top
    <2>2. CASE SettleQueued(r)
      <3>1. Mode(x) = "queued" /\ stack' = NextQueued(x) \o <<>>
        BY <1>1, <2>2 DEF SettleQueued, Push
      <3>2. CASE rts[x].queue = <<>>
        BY <3>1, <3>2 DEF NextQueued, Starting, Top
      <3>3. CASE rts[x].queue # <<>>
        <4>1. stack' = <<StartFrame(x, Head(rts[x].queue))>> \o <<>>
          BY <3>1, <3>3 DEF NextQueued
        <4>2. Head(stack').rt = x
          BY <4>1 DEF StartFrame
        <4>3. QED
          BY <3>1, <4>2 DEF Plain, InMode, Starting
      <3>4. QED
        BY <3>2, <3>3
    <2>3. QED
      BY <2>1, <2>2 DEF Settle, SettleManual, SettleExclusive, SettleParallel
  <1>5. PICK c \in Callers : runs' = Released(r, c)
    BY <1>1 DEF Settle, SettleManual, SettleExclusive, SettleQueued, SettleParallel
  <1>6. QED
    BY <1>1, <1>3, <1>4, <1>5, AloneFreed

LEMMA AloneTrigger ==
  ASSUME Sound, Counted, AllAlone, Trigger
  PROVE  AllAlone'
  <1>1. stack = <<>> /\ SamePromises
    BY DEF Trigger, ScheduledTrigger, DeviceUpdate, ManualTrigger, Quiet, SamePromises
  <1>2. ~Top("start")'
    <2>1. ASSUME NEW x, stack' = <<TriggerFrame(x, NoRun)>> \o stack
          PROVE  ~Top("start")'
      BY <1>1, <2>1 DEF Top, TriggerFrame
    <2>2. ASSUME NEW d, NEW s \in Deliveries(d), stack' = TriggerFrames(s) \o stack
          PROVE  ~Top("start")'
      <3>1. stack' \in Seq(Calm)
        BY <1>1, <2>2, TriggersCalm, EmptySeq, Concat
      <3>2. stack' # <<>> => Head(stack') \in Calm
        BY <3>1, HeadTail
      <3>3. QED
        BY <3>2 DEF Top, Calm
    <2>3. QED
      BY <1>1, <2>1, <2>2
         DEF Trigger, ScheduledTrigger, DeviceUpdate, ManualTrigger, Push, Top
  <1>3. \A q \in RunIds :
          /\ runs'[q].rt = runs[q].rt
          /\ runs[q].rt # NoRt =>
               runs'[q].prefix = runs[q].prefix /\ runs'[q].todo = runs[q].todo
    <2>1. CASE runs' = runs
      BY <2>1
    <2>2. ASSUME NEW i, NEW p \in RunIds, FreeSlot(p),
                 runs' = [runs EXCEPT ![p] = Loading(i, 0, NoRun)]
          PROVE  \A q \in RunIds :
                   /\ runs'[q].rt = runs[q].rt
                   /\ runs[q].rt # NoRt =>
                        runs'[q].prefix = runs[q].prefix /\ runs'[q].todo = runs[q].todo
      <3>1. runs[p].rt = NoRt /\ Loading(i, 0, NoRun).rt = NoRt
        BY <2>2, FreeSlotEmpty DEF FreeSlot, Loading
      <3>2. \A q \in RunIds : runs'[q] = IF q = p THEN Loading(i, 0, NoRun) ELSE runs[q]
        BY <2>2 DEF Sound
      <3>3. QED
        BY <3>1, <3>2
    <2>3. QED
      BY <2>1, <2>2 DEF Trigger, ScheduledTrigger, DeviceUpdate, ManualTrigger
  <1>4. QED
    BY <1>1, <1>2, <1>3, AloneQuiet DEF Starting

LEMMA AloneTimer ==
  ASSUME Sound, Counted, AllAlone, NEW r \in RunIds, Timer(r)
  PROVE  AllAlone'
  <1>1. stack = <<>> /\ SamePromises /\ rts' = rts
    BY DEF Timer, LoadReturns, CommandEnds, DelayEnds, ExecutionTimeout, Quiet, SamePromises
  <1>2. CASE CommandEnds(r) \/ DelayEnds(r) \/ ExecutionTimeout(r)
    <2>1. \A q \in RunIds : /\ runs'[q].rt = runs[q].rt /\ runs'[q].prefix = runs[q].prefix
                            /\ runs'[q].todo = runs[q].todo
      <3>1. CASE ExecutionTimeout(r)
        BY <3>1, RunTyped, AbortedGoOn DEF ExecutionTimeout, Aborted, Sound
      <3>2. CASE CommandEnds(r) \/ DelayEnds(r)
        <4>1. runs' = [runs EXCEPT ![r].pc = "resume"]
          BY <3>2 DEF CommandEnds, DelayEnds
        <4>2. runs \in [RunIds -> Run]
          BY DEF Sound, GoodRun
        <4>3. QED
          BY <4>1, <4>2 DEF Run
      <3>3. QED
        BY <1>2, <3>1, <3>2
    <2>2. ~Top("start")'
      BY <1>1, <1>2 DEF CommandEnds, DelayEnds, ExecutionTimeout, Top
    <2>3. QED
      BY <1>1, <2>1, <2>2, AloneQuiet DEF Starting
  <1>3. CASE LoadReturns(r)
    <2>1. runs[r].rt = NoRt /\ runs[r].caller \in Callers
      BY <1>3, LoadingFree, RunTyped DEF LoadReturns
    <2>2. ASSUME NEW todo, stack' = <<RunFrame(r)>> \o stack,
                 runs' = [runs EXCEPT ![r].pc = "running", ![r].id = NoRow, ![r].todo = todo]
          PROVE  AllAlone'
      <3>1. \A q \in RunIds : runs'[q].rt = runs[q].rt /\ (q = r \/ runs'[q] = runs[q])
        BY <2>2, RunTyped DEF Sound, Run
      <3>2. ~Top("start")'
        BY <1>1, <2>2 DEF Top, RunFrame
      <3>3. QED
        BY <1>1, <2>1, <3>1, <3>2, AloneQuiet DEF Starting
    <2>3. CASE runs' = Released(r, runs[r].caller) /\ UNCHANGED stack
      <3>1. ~Top("start")'
        BY <1>1, <2>3 DEF Top
      <3>2. QED
        BY <1>1, <2>1, <2>3, <3>1, AloneFreed DEF RowsKept, Starting
    <2>4. QED
      BY <1>3, <2>2, <2>3 DEF LoadReturns, Push
  <1>4. QED
    BY <1>2, <1>3 DEF Timer

LEMMA AloneTeardown ==
  ASSUME Sound, Counted, AllAlone, NEW X, NEW Y, Teardown(X, Y), stack = <<>>, UNCHANGED stack
  PROVE  AllAlone'
  <1> DEFINE t(x) == IF x \in X THEN TornDown(rts[x]) ELSE rts[x]
             v(x) == [t(x) EXCEPT !.indexed = @ /\ x \notin Y]
  <1>1. \A x \in RtIds : v(x).row = rts[x].row /\ v(x).promise = rts[x].promise
    <2> TAKE x \in RtIds
    <2>1. rts[x] \in Runtime
      BY DEF Sound, GoodRuntime
    <2>2. QED
      BY <2>1 DEF TornDown, Runtime
  <1>2. rts' = [x \in RtIds |-> v(x)]
    BY DEF Teardown
  <1> HIDE DEF v
  <1>3. SamePromises
    BY <1>1, <1>2 DEF SamePromises
  <1>4. \A r \in RunIds : runs'[r] = AbortedRun(runs[r]) \/ runs'[r] = runs[r]
    BY DEF Teardown
  <1>5. \A r \in RunIds : /\ runs'[r].rt = runs[r].rt /\ runs'[r].prefix = runs[r].prefix
                          /\ runs'[r].todo = runs[r].todo
    BY <1>4, RunTyped, AbortedGoOn
  <1>6. QED
    BY <1>3, <1>5, AloneQuiet DEF Starting, Top

\* The object that register takes has no run.
LEMMA AloneRegister ==
  ASSUME Sound, Counted, AllAlone, NEW t \in Tasks, NEW i \in Ids, Register(t, i)
  PROVE  AllAlone'
  <1>1. stack = <<>> /\ UNCHANGED <<runs, stack>>
    BY DEF Register
  <1>2. CASE UNCHANGED rts
    BY <1>1, <1>2, AloneQuiet DEF SamePromises, Starting, Top
  <1>3. ASSUME NEW row, NEW x \in RtIds, Unreferenced(x),
               rts' = [rts EXCEPT ![x] = NewRuntime(i, row)]
        PROVE  AllAlone'
    <2> SUFFICES ASSUME NEW y \in RtIds, Plain(y)', NEW q \in Owned(y)
                 PROVE  PlainTodo(q)' /\ Covered(y, q)' /\ Owned(y) = {q}
      BY <1>1 DEF AllAlone, Alone, Owned, Starting, Top
    <2>1. y # x /\ q \in RunIds
      BY <1>3 DEF Unreferenced, Owned
    <2>2. rts'[y] = rts[y]
      BY <1>3, <2>1 DEF Sound
    <2>3. Plain(y)
      BY <2>2 DEF Plain, InMode, Mode
    <2>4. PlainTodo(q) /\ Owned(y) = {q} /\ ~runs[q].prefix /\ rts[y].promise = q
      BY <1>1, <2>3, NoPrefix DEF AllAlone, Alone, Top
    <2>5. QED
      BY <1>1, <2>1, <2>2, <2>4 DEF PlainTodo, Covered
  <1>4. QED
    BY <1>2, <1>3 DEF Register, FreeRuntime

-----------------------------------------------------------------------------
(* Single mode: the invariant holds, and the theorem.                      *)

LEMMA AloneInit ==
  ASSUME Init
  PROVE  AllAlone
  BY BoundAssumption DEF Init, FreeRun, AllAlone, Alone, Owned

\* A step that leaves the runs, their objects and the stack alone.
LEMMA AloneElsewhere ==
  ASSUME Sound, AllAlone, UNCHANGED <<rts, runs, stack>>
  PROVE  AllAlone'
  <1>1. RunsGoOn
    BY SameLists
  <1>2. SamePromises /\ StackGoesOn
    BY DEF SamePromises, StackGoesOn, OnTop, Top, Starting, AllAlone, Alone
  <1>3. QED
    BY <1>1, <1>2, AloneKept

LEMMA AloneNext ==
  ASSUME Sound, Counted, AllAlone, [Next]_vars
  PROVE  AllAlone'
  <1>1. CASE Dispatch
    BY <1>1, AloneSingle, AloneOther DEF Dispatch
  <1>2. ASSUME NEW r \in RunIds, Execute(r)
        PROVE  AllAlone'
    BY <1>2, AloneStart, AloneFinish, AloneExecute, AloneHelperCommand, AloneCondition,
       AloneCall, AloneSuspend DEF Execute
  <1>3. CASE Stop
    BY <1>3, AloneTeardown DEF Stop, Quiet
  <1>4. ASSUME NEW t \in Tasks, Reload(t)
        PROVE  AllAlone'
    <2>1. ASSUME NEW e \in Edits, Commit(t, e[1], e[2])
          PROVE  AllAlone'
      BY <2>1, AloneElsewhere DEF Commit
    <2>2. CASE BeginReload(t)
      BY <2>2, AloneTeardown DEF BeginReload, Quiet
    <2>3. CASE BeginFullReload(t)
      BY <2>3, AloneTeardown DEF BeginFullReload, Quiet
    <2>4. CASE Start(t) \/ ReadTable(t) \/ RowsArrive(t)
      BY <2>4, AloneElsewhere DEF Start, ReadTable, RowsArrive
    <2>5. QED
      BY <1>4, <2>1, <2>2, <2>3, <2>4, AloneRegister DEF Reload
  <1>5. CASE UNCHANGED vars
    BY <1>5, AloneElsewhere DEF vars
  <1>6. QED
    BY <1>1, <1>2, <1>3, <1>4, <1>5, AloneWake, AloneTrigger, AloneResume, AloneSettle,
       AloneTimer DEF Next

\* Single mode never has two runs of a runtime in existence when its actions run no
\* engine code before they are awaited: between the check of runningPromise and its
\* assignment the run's own code keeps every other trigger out (executeTrigger, execute).
THEOREM SingleExclusive == Spec => []SingleOneAtATime
  <1>1. Init => AllAlone
    BY AloneInit
  <1>2. Sound /\ Counted /\ AllAlone /\ [Next]_vars => AllAlone'
    BY AloneNext
  <1>3. ASSUME Counted, AllAlone
        PROVE  SingleOneAtATime
    <2> SUFFICES ASSUME NEW x \in RtIds, Plain(x), NEW r \in RunsOf(x), NEW q \in RunsOf(x)
                 PROVE  r = q
      BY DEF SingleOneAtATime, Plain
    <2>1. r \in Owned(x) /\ q \in Owned(x)
      BY <1>3, OwnedRuns
    <2>2. QED
      BY <1>3, <2>1 DEF AllAlone, Alone
  <1>4. QED
    BY <1>1, <1>2, <1>3, Counting, PTL DEF Spec

-----------------------------------------------------------------------------
(* What a step makes of a run: every action in terms of its runs.          *)

\* The run keeps its object, its list and its abort; its await may have settled.
Steady(s, t) ==
  /\ t.rt = s.rt /\ t.todo = s.todo /\ t.pc \in {s.pc, "resume"}
  /\ s.aborted => t.aborted
  /\ t.aborted /\ t.pc = "loading" => s.aborted

\* A run whose definition is being read is no runtime's, so that nothing aborts it.
Young(r) == runs[r].pc = "loading" => ~runs[r].aborted
\* An aborted run stays so and takes no further action from its list.
Stops(r) ==
  Live(r) /\ Live(r)' /\ runs[r].aborted =>
    /\ runs'[r].aborted
    /\ runs'[r].todo = runs[r].todo \/ runs'[r].pc = "settled"
\* The only run an object gets is the one that starts on top of the stack.
Belongs(r) ==
  \/ runs'[r].rt \in {runs[r].rt, NoRt}
  \/ Top("start") /\ runs'[r].rt = Head(stack).rt
Tame == \A r \in RunIds : Belongs(r) /\ (Young(r) => Stops(r) /\ Young(r)')

LEMMA TameSteady ==
  ASSUME \A r \in RunIds : Steady(runs[r], runs'[r])
  PROVE  Tame
  BY DEF Tame, Steady, Stops, Belongs, Young, Live

LEMMA TameUnchanged ==
  ASSUME runs' = runs
  PROVE  Tame
  BY TameSteady DEF Steady

LEMMA AnsweredSteady ==
  ASSUME Sound, NEW c \in Callers
  PROVE  \A r \in RunIds : Steady(runs[r], Answered(runs, c)[r])
  <1>1. runs \in [RunIds -> Run]
    BY DEF Sound, GoodRun
  <1>2. CASE c = NoRun
    BY <1>2 DEF Answered, Steady
  <1>3. CASE c # NoRun
    BY <1>1, <1>3 DEF Answered, Callers, Run, Steady
  <1>4. QED
    BY <1>2, <1>3

LEMMA AbortedSteady ==
  ASSUME NEW s \in Run, s.pc # "loading"
  PROVE  Steady(s, AbortedRun(s))
  BY DEF AbortedRun, Run, Steady

\* What a handle refers to has been started.
LEMMA HandleStarted ==
  ASSUME Sound, Counted, NEW x \in RtIds, rts[x].abort # NoRun
  PROVE  rts[x].abort \in RunIds /\ runs[rts[x].abort].pc # "loading"
  <1>1. rts[x].abort \in RunIds
    BY HandleOf DEF Callers
  <1>2. runs[rts[x].abort].rt = x /\ x # NoRt
    BY BoundAssumption DEF Counted, Books, HandlesHeld
  <1>3. QED
    BY <1>1, <1>2 DEF Counted, Books, RunsHeld

LEMMA TameDispatch ==
  ASSUME Sound, Counted, Dispatch
  PROVE  Tame
  <1> DEFINE x == Head(stack).rt
             c == Head(stack).run
             a == rts[x].abort
             p == rts[x].promise
             waiting == [Aborted(runs, a) EXCEPT ![p].waiters = Append(@, c)]
  <1>1. x \in RtIds /\ c \in Callers
    BY TopFrame
       DEF Dispatch, TriggerSingle, TriggerRestart, TriggerQueued, TriggerParallel, Known
  <1>2. \/ runs' = runs
        \/ runs' = Answered(runs, c)
        \/ a # NoRun /\ runs' = Aborted(runs, a)
        \/ a # NoRun /\ p # NoRun /\ runs' = waiting
    BY DEF Dispatch, TriggerSingle, TriggerRestart, TriggerQueued, TriggerParallel
  <1>3. runs \in [RunIds -> Run]
    BY DEF Sound, GoodRun
  <1>4. a # NoRun => /\ Aborted(runs, a) \in [RunIds -> Run]
                     /\ \A r \in RunIds : Steady(runs[r], Aborted(runs, a)[r])
    <2> SUFFICES ASSUME a # NoRun
                 PROVE  /\ Aborted(runs, a) \in [RunIds -> Run]
                        /\ \A r \in RunIds : Steady(runs[r], Aborted(runs, a)[r])
      OBVIOUS
    <2>1. a \in RunIds /\ runs[a].pc # "loading"
      BY <1>1, HandleStarted
    <2>2. Aborted(runs, a) \in [RunIds -> GoodRun(Known)]
      BY <2>1, AbortedGood DEF Sound
    <2>3. \A r \in RunIds : Aborted(runs, a)[r] = IF r = a THEN AbortedRun(runs[r]) ELSE runs[r]
      BY <1>3, <2>1 DEF Aborted
    <2>4. Steady(runs[a], AbortedRun(runs[a])) /\ \A r \in RunIds : Steady(runs[r], runs[r])
      BY <1>3, <2>1, AbortedSteady DEF Steady
    <2>5. \A r \in RunIds : Steady(runs[r], Aborted(runs, a)[r])
      BY <2>3, <2>4
    <2>6. Aborted(runs, a) \in [RunIds -> Run]
      BY <2>2 DEF GoodRun
    <2>7. QED
      BY <2>5, <2>6
  <1> HIDE DEF x, c, a, p
  <1>5. CASE a # NoRun /\ p # NoRun /\ runs' = waiting
    <2> PICK rs : rs = Aborted(runs, a)
      OBVIOUS
    <2>1. /\ rs \in [RunIds -> Run] /\ runs' = [rs EXCEPT ![p].waiters = Append(@, c)]
          /\ \A r \in RunIds : Steady(runs[r], rs[r])
      BY <1>4, <1>5
    <2>2. \A r \in RunIds : /\ runs'[r].rt = rs[r].rt /\ runs'[r].pc = rs[r].pc
                            /\ runs'[r].todo = rs[r].todo /\ runs'[r].aborted = rs[r].aborted
      BY <2>1 DEF Run
    <2>3. QED
      BY <2>1, <2>2, TameSteady DEF Steady
  <1>6. QED
    BY <1>1, <1>2, <1>4, <1>5, TameUnchanged, AnsweredSteady, TameSteady

\* A run that goes on is not aborted, and the others stay as they are.
LEMMA TameGoto ==
  ASSUME Sound, NEW r \in RunIds, NEW types, Reaches(r, types),
         \A q \in RunIds :
           \/ q = r /\ runs'[q].rt = runs[q].rt /\ runs'[q].aborted = runs[q].aborted
           \/ runs'[q] = runs[q]
           \/ ~Live(q) /\ runs'[q].rt = NoRt /\ ~runs'[q].aborted
  PROVE  Tame
  BY DEF Reaches, Tame, Stops, Belongs, Young, Live

LEMMA TameExecute ==
  ASSUME Sound, NEW r \in RunIds, Execute(r)
  PROVE  Tame
  <1>1. runs \in [RunIds -> Run]
    BY DEF Sound, GoodRun
  <1>2. ASSUME NEW pc, NEW q \in RunIds
        PROVE  /\ Goto(r, pc)[q].rt = runs[q].rt /\ Goto(r, pc)[q].aborted = runs[q].aborted
               /\ q = r \/ Goto(r, pc)[q] = runs[q]
    BY <1>1 DEF Goto, Run
  <1>3. CASE StartRun(r)
    <2>1. \A q \in RunIds \ {r} : runs'[q] = runs[q]
      BY <1>1, <1>3 DEF StartRun
    <2>2. /\ ~Live(r) /\ Top("start") /\ runs'[r].rt = Head(stack).rt
          /\ ~runs'[r].aborted
      BY <1>1, <1>3 DEF StartRun, FreeSlot, StartedRun
    <2>3. QED
      BY <2>1, <2>2 DEF Tame, Stops, Belongs, Young, Live
  <1>4. CASE Finish(r)
    BY <1>1, <1>4 DEF Finish, Run, Tame, Stops, Belongs, Young, Live
  <1>5. ASSUME NEW types, NEW pc, Reaches(r, types), runs' = Goto(r, pc)
        PROVE  Tame
    BY <1>2, <1>5, TameGoto
  <1>6. CASE Log(r) \/ Await(r) \/ HelperCommand(r)
    BY <1>5, <1>6 DEF Log, Await, HelperCommand
  <1>7. CASE Condition(r)
    <2>1. PICK todo : runs' = [runs EXCEPT ![r].todo = todo]
      BY <1>7 DEF Condition
    <2>2. \A q \in RunIds : /\ runs'[q].rt = runs[q].rt /\ runs'[q].aborted = runs[q].aborted
                            /\ q = r \/ runs'[q] = runs[q]
      BY <1>1, <2>1 DEF Run
    <2>3. QED
      BY <1>7, <2>2, TameGoto DEF Condition
  <1>8. CASE Call(r)
    <2>1. ASSUME NEW i, NEW d, NEW q \in RunIds, FreeSlot(q),
                 runs' = [Goto(r, "calling") EXCEPT ![q] = Loading(i, d, r)]
          PROVE  Tame
      <3>1. /\ DOMAIN Goto(r, "calling") = RunIds
            /\ Loading(i, d, r).rt = NoRt /\ ~Loading(i, d, r).aborted
        BY <1>1 DEF Goto, Loading
      <3>2. \A p \in RunIds : runs'[p] = IF p = q THEN Loading(i, d, r) ELSE Goto(r, "calling")[p]
        BY <2>1, <3>1
      <3>3. \A p \in RunIds :
              \/ p = r /\ runs'[p].rt = runs[p].rt /\ runs'[p].aborted = runs[p].aborted
              \/ runs'[p] = runs[p]
              \/ ~Live(p) /\ runs'[p].rt = NoRt /\ ~runs'[p].aborted
        BY <1>2, <2>1, <3>1, <3>2 DEF FreeSlot
      <3>4. QED
        BY <1>8, <3>3, TameGoto DEF Call
    <2>2. CASE \E pc : runs' = Goto(r, pc)
      BY <1>5, <1>8, <2>2 DEF Call
    <2>3. QED
      BY <1>8, <2>1, <2>2 DEF Call
  <1>9. CASE Suspend(r)
    <2> PICK c, answered : c = runs[r].caller /\ answered = Answered(runs, c)
      OBVIOUS
    <2>1. c \in Callers
      BY RunTyped
    <2>2. answered \in [RunIds -> Run] /\ \A q \in RunIds : Steady(runs[q], answered[q])
      <3>1. answered \in [RunIds -> GoodRun(Known)]
        BY <2>1, AnsweredGood DEF Sound
      <3>2. answered \in [RunIds -> Run]
        BY <3>1 DEF GoodRun
      <3>3. QED
        BY <2>1, <3>2, AnsweredSteady
    <2>3. \/ runs' = [answered EXCEPT ![r].prefix = FALSE, ![r].caller = NoRun]
          \/ runs' = [runs EXCEPT ![r].prefix = FALSE]
      BY <1>9 DEF Suspend
    <2>4. CASE runs' = [runs EXCEPT ![r].prefix = FALSE]
      BY <1>1, <2>4, TameSteady DEF Steady, Run
    <2>5. CASE runs' = [answered EXCEPT ![r].prefix = FALSE, ![r].caller = NoRun]
      <3> DEFINE v == [answered[r] EXCEPT !.prefix = FALSE, !.caller = NoRun]
      <3>1. \A q \in RunIds : runs'[q] = IF q = r THEN v ELSE answered[q]
        BY <2>2, <2>5
      <3>2. /\ v.rt = answered[r].rt /\ v.pc = answered[r].pc
            /\ v.todo = answered[r].todo /\ v.aborted = answered[r].aborted
        BY <2>2 DEF Run
      <3> HIDE DEF v
      <3>3. \A q \in RunIds :
              /\ runs'[q].rt = answered[q].rt /\ runs'[q].pc = answered[q].pc
              /\ runs'[q].todo = answered[q].todo /\ runs'[q].aborted = answered[q].aborted
        BY <3>1, <3>2
      <3>4. QED
        BY <2>2, <3>3, TameSteady DEF Steady
    <2>6. QED
      BY <2>3, <2>4, <2>5
  <1>10. QED
    BY <1>3, <1>4, <1>6, <1>7, <1>8, <1>9 DEF Execute

LEMMA TameReleased ==
  ASSUME Sound, NEW r \in RunIds, NEW c \in Callers, runs' = Released(r, c)
  PROVE  Tame
  <1>1. \A q \in RunIds : Steady(runs[q], Answered(runs, c)[q])
    BY AnsweredSteady
  <1>2. Answered(runs, c) \in [RunIds -> GoodRun(Known)]
    BY AnsweredGood DEF Sound
  <1>3. \A q \in RunIds : runs'[q] = IF q = r THEN FreeRun ELSE Answered(runs, c)[q]
    BY <1>2 DEF Released
  <1>4. QED
    BY <1>1, <1>3 DEF Tame, Stops, Belongs, Young, Steady, FreeRun, Live

LEMMA TameContinuation ==
  ASSUME Sound, NEW r \in RunIds, Resume(r) \/ Settle(r) \/ Timer(r)
  PROVE  Tame
  <1>1. runs \in [RunIds -> Run] /\ runs[r].caller \in Callers /\ NoRun \in Callers
    BY RunTyped DEF Sound, GoodRun, Callers
  <1>2. CASE Resume(r)
    BY <1>1, <1>2 DEF Resume, Run, Tame, Stops, Belongs, Young
  <1>3. CASE Settle(r)
    BY <1>1, <1>3, TameReleased
       DEF Settle, SettleManual, SettleExclusive, SettleQueued, SettleParallel
  <1>4. CASE CommandEnds(r) \/ DelayEnds(r)
    <2>1. runs' = [runs EXCEPT ![r].pc = "resume"]
      BY <1>4 DEF CommandEnds, DelayEnds
    <2>2. QED
      BY <1>1, <2>1, TameSteady DEF Steady, Run
  <1>5. CASE ExecutionTimeout(r)
    BY <1>1, <1>5, AbortedSteady, TameSteady DEF ExecutionTimeout, Aborted, Steady
  <1>6. CASE LoadReturns(r)
    <2>1. ASSUME NEW todo,
                 runs' = [runs EXCEPT ![r].pc = "running", ![r].id = NoRow, ![r].todo = todo]
          PROVE  Tame
      <3>1. /\ runs'[r].rt = runs[r].rt /\ runs'[r].pc = "running"
            /\ runs'[r].aborted = runs[r].aborted
        BY <1>1, <2>1 DEF Run
      <3>2. \A q \in RunIds \ {r} : runs'[q] = runs[q]
        BY <1>1, <2>1
      <3>3. runs[r].pc = "loading"
        BY <1>6 DEF LoadReturns
      <3>4. QED
        BY <3>1, <3>2, <3>3 DEF Tame, Stops, Belongs, Young, Live
    <2>2. QED
      BY <1>1, <1>6, <2>1, TameReleased DEF LoadReturns
  <1>7. QED
    BY <1>2, <1>3, <1>4, <1>5, <1>6 DEF Timer

LEMMA TameNext ==
  ASSUME Sound, Counted, [Next]_vars
  PROVE  Tame
  <1>1. runs \in [RunIds -> Run]
    BY DEF Sound, GoodRun
  <1>2. CASE Trigger
    <2>1. ASSUME NEW i, NEW q \in RunIds, FreeSlot(q),
                 runs' = [runs EXCEPT ![q] = Loading(i, 0, NoRun)]
          PROVE  Tame
      BY <1>1, <2>1 DEF FreeSlot, Loading, Tame, Stops, Belongs, Young
    <2>2. QED
      BY <1>2, <2>1, TameUnchanged DEF Trigger, ScheduledTrigger, DeviceUpdate, ManualTrigger
  <1>3. ASSUME NEW I \in SUBSET Ids, NEW Y, Teardown(Registered(I), Y)
        PROVE  Tame
    <2>1. \A r \in RunIds :
            runs'[r] = IF r \in RecordedRuns(Registered(I)) THEN AbortedRun(runs[r]) ELSE runs[r]
      BY <1>3 DEF Teardown
    <2>2. ASSUME NEW r \in RunIds, r \in RecordedRuns(Registered(I))
          PROVE  runs[r].pc # "loading"
      <3>1. PICK x \in RtIds : rts[x].abort = r /\ r # NoRun
        BY <2>2 DEF RecordedRuns, Registered, Sound, Known
      <3>2. QED
        BY <3>1, HandleStarted
    <2>3. \A r \in RunIds : Steady(runs[r], runs'[r])
      BY <1>1, <2>1, <2>2, AbortedSteady DEF Steady
    <2>4. QED
      BY <2>3, TameSteady
  <1>4. CASE Stop
    BY <1>3, <1>4 DEF Stop
  <1>5. ASSUME NEW t \in Tasks, Reload(t)
        PROVE  Tame
    <2>1. tasks[t].pending \in SUBSET Ids
      BY TaskTyped
    <2>2. QED
      BY <1>3, <1>5, <2>1, TameUnchanged
         DEF Reload, Commit, Start, BeginReload, BeginFullReload, ReadTable, RowsArrive, Register
  <1>6. CASE Wake \/ UNCHANGED vars
    BY <1>6, TameUnchanged DEF Wake, vars
  <1>7. QED
    BY <1>2, <1>4, <1>5, <1>6, TameDispatch, TameExecute, TameContinuation DEF Next

-----------------------------------------------------------------------------
(* After its teardown: the inductive invariant.                            *)

\* Only registered objects are in the map, listen or have a queue, and only they and
\* those of restart mode are about to be triggered or started.
Mapped ==
  \A i \in Ids :
    runtimes[i] # NoRt => rts[runtimes[i]].id = i /\ rts[runtimes[i]].armed
Retired == \A x \in RtIds : rts[x].indexed \/ rts[x].queue # <<>> => rts[x].armed
MayRun(x) == rts[x].armed \/ Mode(x) = "restart"
Entitled == {f \in Frame : f.kind # "run" => f.rt \in RtIds /\ MayRun(f.rt)}
Quieted == Mapped /\ Retired /\ stack \in Seq(Entitled)

\* Steps of the engine's own code and of continuations leave the registration alone.
SameRegistration ==
  /\ UNCHANGED runtimes
  /\ \A x \in RtIds :
       /\ rts'[x].id = rts[x].id /\ rts'[x].row = rts[x].row
       /\ rts'[x].armed = rts[x].armed /\ rts'[x].indexed = rts[x].indexed
QueuesKept == \A x \in RtIds : rts'[x].queue # <<>> => rts[x].queue # <<>> \/ rts[x].armed

LEMMA SameEntitled ==
  ASSUME SameRegistration
  PROVE  Entitled' = Entitled
  BY DEF SameRegistration, Entitled, MayRun, Mode

LEMMA QuietedKept ==
  ASSUME Sound, Quieted, SameRegistration, QueuesKept, stack' \in Seq(Entitled)
  PROVE  Quieted'
  <1>1. \A i \in Ids : runtimes[i] # NoRt => runtimes[i] \in RtIds
    BY DEF Sound, Known
  <1>2. QED
    BY <1>1, SameEntitled DEF Quieted, SameRegistration, QueuesKept, Mapped, Retired

LEMMA SameRtsRegistration ==
  ASSUME UNCHANGED <<rts, runtimes>>
  PROVE  SameRegistration /\ QueuesKept
  BY DEF SameRegistration, QueuesKept

\* What may be pushed.
LEMMA RunEntitled ==
  ASSUME NEW r \in RunIds
  PROVE  <<RunFrame(r)>> \in Seq(Entitled)
  <1>1. RunFrame(r) \in Entitled
    BY DEF RunFrame, Entitled, Frame
  <1>2. QED
    BY <1>1

LEMMA TriggerEntitled ==
  ASSUME NEW x \in RtIds, NEW c \in Callers, MayRun(x)
  PROVE  <<TriggerFrame(x, c)>> \in Seq(Entitled) /\ <<StartFrame(x, c)>> \in Seq(Entitled)
  <1>1. TriggerFrame(x, c) \in Entitled /\ StartFrame(x, c) \in Entitled
    BY DEF TriggerFrame, StartFrame, Entitled, Frame, Callers
  <1>2. QED
    BY <1>1

LEMMA DeliveryEntitled ==
  ASSUME Sound, Quieted, NEW d, NEW s \in Deliveries(d)
  PROVE  TriggerFrames(s) \in Seq(Entitled)
  <1>1. PICK n \in Nat : s \in [1 .. n -> Indexed]
    BY DeliveredTo
  <1>2. s \in Seq(Indexed) /\ Len(s) \in Nat
    BY <1>1
  <1>3. \A k \in 1 .. Len(s) : TriggerFrame(s[k], NoRun) \in Entitled
    <2> TAKE k \in 1 .. Len(s)
    <2>1. s[k] \in Indexed
      BY <1>2
    <2>2. s[k] \in RtIds /\ MayRun(s[k])
      BY <2>1 DEF Indexed, Quieted, Retired, MayRun
    <2>3. QED
      BY <2>2 DEF TriggerFrame, Entitled, Frame
  <1>4. QED
    BY <1>2, <1>3 DEF TriggerFrames

\* The object on top may run.
LEMMA TopEntitled ==
  ASSUME Sound, Quieted, NEW kind \in {"trigger", "start"}, Top(kind)
  PROVE  /\ Head(stack).rt \in RtIds /\ Head(stack).run \in Callers /\ MayRun(Head(stack).rt)
         /\ Tail(stack) \in Seq(Entitled)
  <1>1. Head(stack) \in Entitled /\ Tail(stack) \in Seq(Entitled)
    BY HeadTail DEF Quieted, Top
  <1>2. Head(stack).kind # "run"
    BY DEF Top
  <1>3. QED
    BY <1>1, <1>2, TopFrame DEF Entitled

LEMMA QuietedDispatch ==
  ASSUME Sound, Quieted, Dispatch
  PROVE  Quieted'
  <1> PICK x, c : x = Head(stack).rt /\ c = Head(stack).run
    OBVIOUS
  <1>1. Top("trigger")
    BY DEF Dispatch, TriggerSingle, TriggerRestart, TriggerQueued, TriggerParallel
  <1>2. x \in RtIds /\ c \in Callers /\ MayRun(x) /\ Tail(stack) \in Seq(Entitled)
    BY <1>1, TopEntitled
  <1>3. stack' \in Seq(Entitled)
    <2>1. stack' = Tail(stack) \/ stack' = <<StartFrame(x, c)>> \o Tail(stack)
      BY DEF Dispatch, TriggerSingle, TriggerRestart, TriggerQueued, TriggerParallel, Replace
    <2>2. <<StartFrame(x, c)>> \in Seq(Entitled)
      BY <1>2, TriggerEntitled
    <2>3. QED
      BY <1>2, <2>1, <2>2, Concat
  <1>4. UNCHANGED runtimes
    BY DEF Dispatch, TriggerSingle, TriggerRestart, TriggerQueued, TriggerParallel
  <1>5. CASE rts' = rts
    BY <1>3, <1>4, <1>5, SameRtsRegistration, QuietedKept
  <1>6. CASE rts' # rts
    <2>1. PICK q : rts' = [rts EXCEPT ![x].queue = q]
      BY <1>6 DEF Dispatch, TriggerSingle, TriggerRestart, TriggerQueued, TriggerParallel
    <2>2. Mode(x) = "queued"
      BY <1>6 DEF Dispatch, TriggerSingle, TriggerRestart, TriggerQueued, TriggerParallel
    <2>3. rts[x].armed
      BY <1>2, <2>2 DEF MayRun
    <2>4. rts \in [RtIds -> Runtime]
      BY DEF Sound, GoodRuntime
    <2>5. SameRegistration /\ QueuesKept
      BY <1>4, <2>1, <2>3, <2>4 DEF SameRegistration, QueuesKept, Runtime
    <2>6. QED
      BY <1>3, <2>5, QuietedKept
  <1>7. QED
    BY <1>5, <1>6

LEMMA QuietedExecute ==
  ASSUME Sound, Quieted, NEW r \in RunIds, Execute(r)
  PROVE  Quieted'
  <1>1. rts \in [RtIds -> Runtime]
    BY DEF Sound, GoodRuntime
  <1>2. CASE StartRun(r)
    <2>1. SameRegistration /\ QueuesKept
      <3>1. PICK x, a, n : rts' = [rts EXCEPT ![x].abort = a, ![x].active = n]
        BY <1>2 DEF StartRun
      <3> DEFINE v == [rts[x] EXCEPT !.abort = a, !.active = n]
      <3>2. \A y \in RtIds : rts'[y] = IF y = x THEN v ELSE rts[y]
        BY <1>1, <3>1
      <3>3. x \in RtIds => /\ v.id = rts[x].id /\ v.row = rts[x].row /\ v.queue = rts[x].queue
                           /\ v.armed = rts[x].armed /\ v.indexed = rts[x].indexed
        BY <1>1 DEF Runtime
      <3> HIDE DEF v
      <3>4. QED
        BY <1>2, <3>2, <3>3 DEF StartRun, SameRegistration, QueuesKept
    <2>2. Tail(stack) \in Seq(Entitled)
      BY <1>2, TopEntitled DEF StartRun
    <2>3. stack' = <<RunFrame(r)>> \o Tail(stack)
      BY <1>2 DEF StartRun, Replace
    <2>4. stack' \in Seq(Entitled)
      BY <2>2, <2>3, RunEntitled, Concat
    <2>5. QED
      BY <2>1, <2>4, QuietedKept
  <1>3. CASE Finish(r) \/ Log(r) \/ Await(r) \/ Condition(r)
    <2>1. UNCHANGED <<rts, runtimes, stack>>
      BY <1>3 DEF Finish, Log, Await, Condition
    <2>2. QED
      BY <2>1, SameRtsRegistration, QuietedKept DEF Quieted
  <1>4. CASE HelperCommand(r)
    <2>1. PICK d, s : s \in Deliveries(d) /\ stack' = TriggerFrames(s) \o stack
      BY <1>4 DEF HelperCommand, Push
    <2>2. stack' \in Seq(Entitled)
      BY <2>1, DeliveryEntitled, Concat DEF Quieted
    <2>3. UNCHANGED <<rts, runtimes>>
      BY <1>4 DEF HelperCommand
    <2>4. QED
      BY <2>2, <2>3, SameRtsRegistration, QuietedKept
  <1>5. CASE Call(r)
    <2>1. UNCHANGED <<rts, runtimes>>
      BY <1>5 DEF Call
    <2>2. stack' \in Seq(Entitled)
      <3> PICK i : i = Head(runs[r].todo).target
        OBVIOUS
      <3>1. \/ stack' = stack
            \/ runtimes[i] # NoRt /\ stack' = <<TriggerFrame(runtimes[i], r)>> \o stack
        BY <1>5 DEF Call, Push
      <3>2. i \in Ids
        <4>1. runs[r].todo # <<>> /\ Head(runs[r].todo).type = "call_automation"
          BY <1>5 DEF Call, Reaches
        <4>2. Head(runs[r].todo) \in Action
          BY <4>1, TopRun, HeadTail DEF Program, Join
        <4>3. QED
          BY <4>1, <4>2, ActionAssumption
      <3>3. runtimes[i] # NoRt => runtimes[i] \in RtIds /\ MayRun(runtimes[i])
        BY <3>2 DEF Sound, Known, Quieted, Mapped, MayRun
      <3>4. runtimes[i] # NoRt => <<TriggerFrame(runtimes[i], r)>> \in Seq(Entitled)
        BY <3>3, TriggerEntitled DEF Callers
      <3>5. QED
        BY <3>1, <3>4, Concat DEF Quieted
    <2>3. QED
      BY <2>1, <2>2, SameRtsRegistration, QuietedKept
  <1>6. CASE Suspend(r)
    <2>1. SameRegistration /\ QueuesKept
      <3>1. CASE rts' = rts
        BY <1>6, <3>1, SameRtsRegistration DEF Suspend
      <3>2. CASE rts' # rts
        <4> PICK x, p : x = runs[r].rt /\ p = Recorded(x, r)
          OBVIOUS
        <4>1. rts' = [rts EXCEPT ![x].promise = p] /\ UNCHANGED runtimes
          BY <1>6, <3>2 DEF Suspend
        <4>2. QED
          BY <1>1, <4>1 DEF SameRegistration, QueuesKept, Runtime
      <3>3. QED
        BY <3>1, <3>2
    <2>2. stack' \in Seq(Entitled)
      BY <1>6, HeadTail DEF Suspend, Top, Quieted
    <2>3. QED
      BY <2>1, <2>2, QuietedKept
  <1>7. QED
    BY <1>2, <1>3, <1>4, <1>5, <1>6 DEF Execute

LEMMA QuietedSettle ==
  ASSUME Sound, Quieted, NEW r \in RunIds, Settle(r)
  PROVE  Quieted'
  <1> PICK x : x = runs[r].rt
    OBVIOUS
  <1>1. rts \in [RtIds -> Runtime] /\ UNCHANGED runtimes
    BY DEF Sound, GoodRuntime, Settle, SettleManual, SettleExclusive, SettleQueued,
           SettleParallel
  <1>2. CASE SettleManual(r)
    BY <1>2, SameRtsRegistration, QuietedKept DEF SettleManual, Quieted
  <1>3. CASE SettleExclusive(r)
    <2>1. rts' = [rts EXCEPT ![x] = Cleared(@)]
      BY <1>3 DEF SettleExclusive
    <2>2. SameRegistration /\ QueuesKept
      BY <1>1, <2>1 DEF SameRegistration, QueuesKept, Cleared, Runtime
    <2>3. QED
      BY <1>3, <2>2, QuietedKept DEF SettleExclusive, Quieted
  <1>4. CASE SettleParallel(r)
    <2>1. PICK n : rts' = [rts EXCEPT ![x].active = n]
      BY <1>4 DEF SettleParallel
    <2>2. SameRegistration /\ QueuesKept
      BY <1>1, <2>1 DEF SameRegistration, QueuesKept, Runtime
    <2>3. QED
      BY <1>4, <2>2, QuietedKept DEF SettleParallel, Quieted
  <1>5. CASE SettleQueued(r)
    <2>1. x \in RtIds /\ rts[x].queue \in Seq(Callers)
      BY <1>1, <1>5, SettledRuntime DEF SettleQueued, Runtime, Callers
    <2>2. SameRegistration /\ QueuesKept
      <3>1. PICK n, q : /\ rts' = [rts EXCEPT ![x].abort = NoRun, ![x].active = n, ![x].queue = q]
                        /\ q = IF rts[x].queue = <<>> THEN <<>> ELSE Tail(rts[x].queue)
        BY <1>5 DEF SettleQueued
      <3> DEFINE v == [rts[x] EXCEPT !.abort = NoRun, !.active = n, !.queue = q]
      <3>2. \A y \in RtIds : rts'[y] = IF y = x THEN v ELSE rts[y]
        BY <1>1, <3>1
      <3>3. /\ v.id = rts[x].id /\ v.row = rts[x].row /\ v.queue = q
            /\ v.armed = rts[x].armed /\ v.indexed = rts[x].indexed
        BY <1>1, <2>1 DEF Runtime
      <3> HIDE DEF v
      <3>4. q # <<>> => rts[x].queue # <<>>
        BY <3>1
      <3>5. QED
        BY <1>1, <3>2, <3>3, <3>4 DEF SameRegistration, QueuesKept
    <2>3. stack' = NextQueued(x) \o stack
      BY <1>5 DEF SettleQueued, Push
    <2>4. NextQueued(x) \in Seq(Entitled)
      <3>1. CASE rts[x].queue = <<>>
        BY <3>1, EmptySeq DEF NextQueued
      <3>2. CASE rts[x].queue # <<>>
        <4>1. MayRun(x) /\ Head(rts[x].queue) \in Callers
          BY <2>1, <3>2, HeadTail DEF Quieted, Retired, MayRun
        <4>2. QED
          BY <2>1, <3>2, <4>1, TriggerEntitled DEF NextQueued
      <3>3. QED
        BY <3>1, <3>2
    <2>5. stack' \in Seq(Entitled)
      BY <2>3, <2>4, Concat DEF Quieted
    <2>6. QED
      BY <2>2, <2>5, QuietedKept
  <1>6. QED
    BY <1>2, <1>3, <1>4, <1>5 DEF Settle

\* Continuations and events that register nothing.
LEMMA QuietedEvent ==
  ASSUME Sound, Counted, Quieted,
         Wake \/ Trigger \/ \E r \in RunIds : Resume(r) \/ Timer(r)
  PROVE  Quieted'
  <1>1. UNCHANGED <<rts, runtimes>>
    BY DEF Wake, Trigger, ScheduledTrigger, DeviceUpdate, ManualTrigger, Resume, Timer,
           LoadReturns, CommandEnds, DelayEnds, ExecutionTimeout
  <1>2. stack \in Seq(Entitled)
    BY DEF Quieted
  <1>3. ASSUME NEW s \in Seq(Entitled), stack' = s \o stack
        PROVE  Quieted'
    BY <1>1, <1>2, <1>3, Concat, SameRtsRegistration, QuietedKept
  <1>4. CASE UNCHANGED stack
    BY <1>1, <1>2, <1>4, SameRtsRegistration, QuietedKept
  <1>5. CASE Wake
    <2>1. Head(woken) \in Restarts
      BY <1>5, HeadTail DEF Wake, Counted, StackHeld
    <2>2. Head(woken) \in Entitled
      BY <2>1 DEF Restarts, InMode, Entitled, MayRun
    <2>3. <<Head(woken)>> \in Seq(Entitled)
      BY <2>2
    <2>4. QED
      BY <1>3, <1>5, <2>3 DEF Wake, Push
  <1>6. CASE Trigger
    <2>1. ASSUME NEW x \in RtIds, MayRun(x), stack' = <<TriggerFrame(x, NoRun)>> \o stack
          PROVE  Quieted'
      BY <1>3, <2>1, TriggerEntitled DEF Callers
    <2>2. ASSUME NEW x \in RtIds, ScheduledTrigger(x)
          PROVE  Quieted'
      BY <2>1, <2>2 DEF ScheduledTrigger, Push, MayRun
    <2>3. ASSUME NEW d, DeviceUpdate(d)
          PROVE  Quieted'
      BY <1>3, <2>3, DeliveryEntitled DEF DeviceUpdate, Push
    <2>4. ASSUME NEW i \in Ids, ManualTrigger(i)
          PROVE  Quieted'
      <3>1. runtimes[i] # NoRt => runtimes[i] \in RtIds /\ MayRun(runtimes[i])
        BY DEF Sound, Known, Quieted, Mapped, MayRun
      <3>2. QED
        BY <1>4, <2>1, <2>4, <3>1 DEF ManualTrigger, Push
    <2>5. QED
      BY <1>6, <2>2, <2>3, <2>4 DEF Trigger
  <1>7. ASSUME NEW r \in RunIds, Resume(r) \/ Timer(r)
        PROVE  Quieted'
    <2>1. UNCHANGED stack \/ stack' = <<RunFrame(r)>> \o stack
      BY <1>7 DEF Resume, Timer, LoadReturns, CommandEnds, DelayEnds, ExecutionTimeout, Push
    <2>2. QED
      BY <1>3, <1>4, <2>1, RunEntitled
  <1>8. QED
    BY <1>5, <1>6, <1>7

\* A teardown takes its objects out of the map, the index and their queues at once.
LEMMA QuietedTeardown ==
  ASSUME Sound, Quieted, NEW I \in SUBSET Ids, NEW Y, Registered(I) \subseteq Y,
         Teardown(Registered(I), Y), Unregister(I), stack = <<>>, stack' = <<>>
  PROVE  Quieted'
  <1> PICK X : X = Registered(I)
    OBVIOUS
  <1> DEFINE t(x) == IF x \in X THEN TornDown(rts[x]) ELSE rts[x]
             v(x) == [t(x) EXCEPT !.indexed = @ /\ x \notin Y]
  <1>1. \A x \in RtIds :
          /\ v(x).id = rts[x].id
          /\ v(x).armed = (rts[x].armed /\ x \notin X)
          /\ v(x).indexed = (rts[x].indexed /\ x \notin Y)
          /\ v(x).queue = IF x \in X THEN <<>> ELSE rts[x].queue
    <2> TAKE x \in RtIds
    <2>1. rts[x] \in Runtime
      BY DEF Sound, GoodRuntime
    <2>2. CASE x \in X
      BY <2>1, <2>2 DEF TornDown, Runtime
    <2>3. CASE x \notin X
      BY <2>1, <2>3 DEF Runtime
    <2>4. QED
      BY <2>2, <2>3
  <1>2. rts' = [x \in RtIds |-> v(x)]
    BY DEF Teardown
  <1> HIDE DEF v
  <1>3. Retired'
    BY <1>1, <1>2 DEF Quieted, Retired
  <1>4. Mapped'
    <2> SUFFICES ASSUME NEW i \in Ids, runtimes'[i] # NoRt
                 PROVE  rts'[runtimes'[i]].id = i /\ rts'[runtimes'[i]].armed
      BY DEF Mapped
    <2>1. i \notin I /\ runtimes'[i] = runtimes[i]
      BY DEF Unregister
    <2>2. runtimes[i] \in RtIds /\ rts[runtimes[i]].id = i /\ rts[runtimes[i]].armed
      BY <2>1 DEF Sound, Known, Quieted, Mapped
    <2>3. runtimes[i] \notin X
      BY <2>1, <2>2 DEF Registered, Quieted, Mapped
    <2>4. QED
      BY <1>1, <1>2, <2>1, <2>2, <2>3
  <1>5. stack' \in Seq(Entitled')
    BY EmptySeq
  <1>6. QED
    BY <1>3, <1>4, <1>5 DEF Quieted

\* The object that register takes is in no other place.
LEMMA QuietedRegister ==
  ASSUME Sound, Quieted, NEW t \in Tasks, NEW i \in Ids, Register(t, i)
  PROVE  Quieted'
  <1>1. stack = <<>> /\ UNCHANGED stack
    BY DEF Register
  <1>2. CASE UNCHANGED <<rts, runtimes>>
    BY <1>1, <1>2, SameRtsRegistration, QuietedKept DEF Quieted
  <1>3. ASSUME NEW row, NEW x \in RtIds, Unreferenced(x),
               rts' = [rts EXCEPT ![x] = NewRuntime(i, row)],
               runtimes' = [runtimes EXCEPT ![i] = x]
        PROVE  Quieted'
    <2>1. /\ rts'[x].id = i /\ rts'[x].armed
          /\ \A y \in RtIds \ {x} : rts'[y] = rts[y]
      BY <1>3, NoRowAssumption DEF Sound, NewRuntime
    <2>2. Retired'
      BY <2>1 DEF Quieted, Retired
    <2>3. \A j \in Ids \ {i} : runtimes'[j] = runtimes[j] /\ runtimes[j] # x
      BY <1>3 DEF Unreferenced, Sound
    <2>4. runtimes'[i] = x
      BY <1>3 DEF Sound
    <2>5. \A j \in Ids : runtimes[j] # NoRt => runtimes[j] \in RtIds
      BY DEF Sound, Known
    <2>6. Mapped'
      BY <2>1, <2>3, <2>4, <2>5 DEF Quieted, Mapped
    <2>7. stack' \in Seq(Entitled')
      BY <1>1, EmptySeq
    <2>8. QED
      BY <2>2, <2>6, <2>7 DEF Quieted
  <1>4. QED
    BY <1>2, <1>3 DEF Register, FreeRuntime

LEMMA QuietedInit ==
  ASSUME Init
  PROVE  Quieted
  BY EmptySeq DEF Init, NewRuntime, Quieted, Mapped, Retired

LEMMA QuietedNext ==
  ASSUME Sound, Counted, Quieted, [Next]_vars
  PROVE  Quieted'
  <1>1. \A I \in SUBSET Ids : Registered(I) \subseteq RtIds
    BY DEF Registered, Sound, Known
  <1>2. CASE Stop
    BY <1>1, <1>2, QuietedTeardown DEF Stop, Quiet
  <1>3. ASSUME NEW t \in Tasks, Reload(t)
        PROVE  Quieted'
    <2>1. ASSUME UNCHANGED <<rts, runtimes, stack>>
          PROVE  Quieted'
      BY <2>1, SameRtsRegistration, QuietedKept DEF Quieted
    <2>2. CASE BeginReload(t)
      <3>1. tasks[t].pending \in SUBSET Ids
        BY DEF Sound, Task
      <3>2. QED
        BY <2>2, <3>1, QuietedTeardown DEF BeginReload, Quiet
    <2>3. CASE BeginFullReload(t)
      BY <1>1, <2>3, QuietedTeardown DEF BeginFullReload, Quiet
    <2>4. QED
      BY <1>3, <2>1, <2>2, <2>3, QuietedRegister
         DEF Reload, Commit, Start, ReadTable, RowsArrive
  <1>4. CASE UNCHANGED vars
    BY <1>4, SameRtsRegistration, QuietedKept DEF vars, Quieted
  <1>5. QED
    BY <1>2, <1>3, <1>4, QuietedDispatch, QuietedExecute, QuietedSettle, QuietedEvent DEF Next

\* After its teardown an object that is not in restart mode starts no run: what could
\* still trigger it is gone with the teardown, and no frame of it is on the stack while
\* a teardown runs (teardown, executeTrigger).
THEOREM TeardownSilences == Spec => TornDownStaysQuiet
  <1>1. Init => Quieted
    BY QuietedInit
  <1>2. Sound /\ Counted /\ Quieted /\ [Next]_vars => Quieted'
    BY QuietedNext
  <1>3. ASSUME Sound, Counted, Quieted, [Next]_vars, NEW x \in RtIds, NEW r \in RunIds,
               ~rts[x].armed, rts[x].row # NoRow, Mode(x) # "restart", runs'[r].rt = x
        PROVE  runs[r].rt = x
    <2>1. Belongs(r)
      BY <1>3, TameNext DEF Tame
    <2>2. x # NoRt
      BY BoundAssumption
    <2>3. Top("start") => MayRun(Head(stack).rt)
      BY <1>3, TopEntitled
    <2>4. QED
      BY <1>3, <2>1, <2>2, <2>3 DEF Belongs, MayRun
  <1>4. Sound /\ Counted /\ Quieted /\ [Next]_vars =>
          [\A x \in RtIds, r \in RunIds :
             ~rts[x].armed /\ rts[x].row # NoRow /\ Mode(x) # "restart"
               /\ runs'[r].rt = x
             => runs[r].rt = x]_vars
    BY <1>3
  <1>5. QED
    BY <1>1, <1>2, <1>4, Counting, PTL DEF Spec, TornDownStaysQuiet

-----------------------------------------------------------------------------
(* An abort reaches the run: the inductive invariant.                      *)

\* The objects that have one run at a time, and the handle by which a teardown finds it.
Exclusive(x) == InMode(x, {"queued"}) \/ Plain(x)
Caught(x) ==
  Exclusive(x) =>
    \A r \in Owned(x) : IF rts[x].armed THEN rts[x].abort = r ELSE runs[r].aborted
AllCaught == (\A r \in RunIds : Young(r)) /\ \A x \in RtIds : Caught(x)

LEMMA ExclusiveRun ==
  ASSUME Sound, Counted, AllAlone, NEW x \in RtIds, Exclusive(x),
         NEW r \in Owned(x), NEW q \in Owned(x)
  PROVE  r = q
  <1>1. CASE Plain(x)
    BY <1>1 DEF AllAlone, Alone
  <1>2. CASE InMode(x, {"queued"})
    <2>1. r \in RunIds /\ q \in RunIds /\ runs[r].rt = x /\ runs[q].rt = x /\ x # NoRt
      BY BoundAssumption DEF Owned
    <2>2. Live(r) /\ Live(q)
      BY <2>1 DEF Counted, Books, RunsHeld, Live
    <2>3. QED
      BY <1>2, <2>1, <2>2, QueuedOne DEF QueuedOneAtATime, InMode
  <1>3. QED
    BY <1>1, <1>2 DEF Exclusive

\* A run of an object is live before and after a step that leaves it there.
LEMMA AbortKept ==
  ASSUME Counted, Counted', AllCaught, Tame, NEW x \in RtIds, NEW r \in RunIds,
         runs[r].rt = x, runs'[r].rt = x, runs[r].aborted
  PROVE  runs'[r].aborted
  <1>1. Live(r) /\ Live(r)'
    BY BoundAssumption DEF Counted, Books, RunsHeld, Live
  <1>2. QED
    BY <1>1 DEF AllCaught, Tame, Stops

\* Steps that start no run of these objects and keep their handle while the run lasts.
LEMMA CaughtKept ==
  ASSUME Counted, Counted', AllCaught, Tame,
         \A x \in RtIds : rts'[x].row = rts[x].row /\ rts'[x].armed = rts[x].armed,
         \A x \in RtIds, r \in RunIds :
           Exclusive(x) /\ runs'[r].rt = x =>
             runs[r].rt = x /\ (rts[x].abort = r => rts'[x].abort = r)
  PROVE  AllCaught'
  <1>1. \A r \in RunIds : Young(r)'
    BY DEF AllCaught, Tame
  <1>2. ASSUME NEW x \in RtIds, Exclusive(x)', NEW r \in RunIds, runs'[r].rt = x
        PROVE  IF rts'[x].armed THEN rts'[x].abort = r ELSE runs'[r].aborted
    <2>1. Exclusive(x)
      BY <1>2 DEF Exclusive, Plain, InMode, Mode
    <2>2. runs[r].rt = x /\ (rts[x].abort = r => rts'[x].abort = r)
      BY <1>2, <2>1
    <2>3. IF rts[x].armed THEN rts[x].abort = r ELSE runs[r].aborted
      BY <2>1, <2>2 DEF AllCaught, Caught, Owned
    <2>4. QED
      BY <1>2, <2>2, <2>3, AbortKept
  <1>3. QED
    BY <1>1, <1>2 DEF AllCaught, Caught, Owned

\* Without a start on top of the stack no object gets a run.
LEMMA NoNewRun ==
  ASSUME Tame, ~Top("start"), NEW x \in RtIds, NEW r \in RunIds, runs'[r].rt = x
  PROVE  runs[r].rt = x
  BY BoundAssumption DEF Tame, Belongs

LEMMA CaughtElsewhere ==
  ASSUME Counted, Counted', AllCaught, Tame, ~Top("start"),
         \A x \in RtIds : /\ rts'[x].row = rts[x].row /\ rts'[x].armed = rts[x].armed
                          /\ rts'[x].abort = rts[x].abort
  PROVE  AllCaught'
  BY NoNewRun, CaughtKept

\* An update of one object that spares what the invariant is about.
LEMMA CaughtUpdate ==
  ASSUME Sound, Counted, Counted', AllCaught, Tame, ~Top("start"), NEW x, NEW v,
         rts' = rts \/ rts' = [rts EXCEPT ![x] = v],
         x \in RtIds => /\ v.row = rts[x].row /\ v.armed = rts[x].armed
                        /\ v.abort = rts[x].abort
  PROVE  AllCaught'
  BY CaughtElsewhere DEF Sound

\* A start records the run as the only one.
LEMMA CaughtStart ==
  ASSUME Sound, Counted, Counted', AllAlone, Quieted, AllCaught, Tame,
         NEW r \in RunIds, StartRun(r)
  PROVE  AllCaught'
  <1> PICK x : x = Head(stack).rt
    OBVIOUS
  <1>1. x \in RtIds /\ MayRun(x) /\ Starting(x) /\ rts[x] \in Runtime
    BY TopEntitled DEF StartRun, Starting, Sound, GoodRuntime
  <1>2. /\ \A y \in RtIds \ {x} : rts'[y] = rts[y]
        /\ rts'[x].row = rts[x].row /\ rts'[x].armed = rts[x].armed
        /\ Mode(x) # "parallel" => rts'[x].abort = r
    <2>1. PICK n : rts' = [rts EXCEPT ![x].abort = IF Mode(x) = "parallel" THEN @ ELSE r,
                                      ![x].active = n]
      BY DEF StartRun
    <2>2. QED
      BY <1>1, <2>1 DEF Sound, Runtime
  <1>3. \A q \in RunIds \ {r} : runs'[q] = runs[q]
    BY DEF StartRun, Sound
  <1>4. runs'[r].rt = x
    BY DEF StartRun, StartedRun, Sound
  <1>5. Exclusive(x) => Owned(x) = {} /\ rts[x].armed /\ Mode(x) # "parallel"
    <2>1. CASE Plain(x)
      BY <1>1, <2>1 DEF AllAlone, Alone, Plain, InMode, MayRun
    <2>2. CASE InMode(x, {"queued"})
      <3>1. Cardinality(Owned(x)) = 0
        BY <1>1, <2>2
           DEF Counted, StackHeld, MayStart, Starting, Books, CountsHeld, CountHeld, InMode
      <3>2. QED
        BY <1>1, <2>2, <3>1, OwnedFinite, FS_EmptySet DEF InMode, MayRun
    <2>3. QED
      BY <2>1, <2>2 DEF Exclusive
  <1>6. ASSUME NEW y \in RtIds, Exclusive(y)', NEW q \in RunIds, runs'[q].rt = y
        PROVE  IF rts'[y].armed THEN rts'[y].abort = q ELSE runs'[q].aborted
    <2>1. Exclusive(y)
      BY <1>2, <1>6 DEF Exclusive, Plain, InMode, Mode
    <2>2. CASE y = x
      <3>1. q = r
        BY <1>3, <1>5, <1>6, <2>1, <2>2 DEF Owned
      <3>2. QED
        BY <1>2, <1>5, <2>1, <2>2, <3>1
    <2>3. CASE y # x
      BY <1>2, <1>3, <1>4, <1>6, <2>1, <2>3 DEF AllCaught, Caught, Owned
    <2>4. QED
      BY <2>2, <2>3
  <1>7. QED
    BY <1>6 DEF AllCaught, Caught, Owned, Tame

LEMMA CaughtExecute ==
  ASSUME Sound, Counted, Counted', AllAlone, Quieted, AllCaught, Tame,
         NEW r \in RunIds, Execute(r)
  PROVE  AllCaught'
  <1>1. CASE StartRun(r)
    BY <1>1, CaughtStart
  <1>2. CASE Suspend(r)
    <2> PICK x : x = runs[r].rt
      OBVIOUS
    <2>1. ~Top("start")
      BY <1>2 DEF Suspend, Top
    <2> DEFINE v == [rts[x] EXCEPT !.promise = Recorded(x, r)]
    <2>2. rts' = rts \/ rts' = [rts EXCEPT ![x] = v]
      BY <1>2 DEF Suspend
    <2>3. x \in RtIds => /\ v.row = rts[x].row /\ v.armed = rts[x].armed
                         /\ v.abort = rts[x].abort
      BY DEF Sound, GoodRuntime, Runtime
    <2> HIDE DEF v
    <2>4. QED
      BY <2>1, <2>2, <2>3, CaughtUpdate
  <1>3. CASE Finish(r) \/ Log(r) \/ Await(r) \/ HelperCommand(r) \/ Condition(r) \/ Call(r)
    <2>1. ~Top("start") /\ UNCHANGED rts
      BY <1>3 DEF Finish, Log, Await, HelperCommand, Condition, Call, Reaches, Top
    <2>2. QED
      BY <2>1, CaughtElsewhere
  <1>4. QED
    BY <1>1, <1>2, <1>3 DEF Execute

LEMMA CaughtDispatch ==
  ASSUME Sound, Counted, Counted', AllCaught, Tame, Dispatch
  PROVE  AllCaught'
  <1> PICK x : x = Head(stack).rt
    OBVIOUS
  <1>1. ~Top("start")
    BY DEF Dispatch, TriggerSingle, TriggerRestart, TriggerQueued, TriggerParallel, Top
  <1>2. PICK q : rts' = rts \/ rts' = [rts EXCEPT ![x] = [rts[x] EXCEPT !.queue = q]]
    BY DEF Dispatch, TriggerSingle, TriggerRestart, TriggerQueued, TriggerParallel
  <1> DEFINE v == [rts[x] EXCEPT !.queue = q]
  <1>3. x \in RtIds => /\ v.row = rts[x].row /\ v.armed = rts[x].armed
                       /\ v.abort = rts[x].abort
    BY DEF Sound, GoodRuntime, Runtime
  <1>4. rts' = rts \/ rts' = [rts EXCEPT ![x] = v]
    BY <1>2
  <1> HIDE DEF v
  <1>5. QED
    BY <1>1, <1>3, <1>4, CaughtUpdate

\* The run whose end clears the handle is the one the handle is of.
LEMMA CaughtSettle ==
  ASSUME Sound, Counted, Counted', AllAlone, AllCaught, Tame, NEW r \in RunIds, Settle(r)
  PROVE  AllCaught'
  <1> PICK x : x = runs[r].rt
    OBVIOUS
  <1>1. ~Top("start")
    BY DEF Settle, SettleManual, SettleExclusive, SettleQueued, SettleParallel, Top
  <1>2. \A y \in RtIds : rts[y] \in Runtime
    BY DEF Sound, GoodRuntime
  <1>3. CASE SettleManual(r) \/ SettleParallel(r)
    <2> DEFINE v == [rts[x] EXCEPT !.active = Decremented(x)]
    <2>1. rts' = rts \/ rts' = [rts EXCEPT ![x] = v]
      BY <1>3 DEF SettleManual, SettleParallel
    <2>2. x \in RtIds => /\ v.row = rts[x].row /\ v.armed = rts[x].armed
                         /\ v.abort = rts[x].abort
      BY <1>2 DEF Runtime
    <2> HIDE DEF v
    <2>3. QED
      BY <1>1, <2>1, <2>2, CaughtUpdate
  <1>4. CASE SettleExclusive(r) \/ SettleQueued(r)
    <2>1. x \in RtIds
      BY <1>4, SettledRuntime DEF SettleExclusive, SettleQueued
    <2>2. /\ \A y \in RtIds \ {x} : rts'[y] = rts[y]
          /\ rts'[x].row = rts[x].row /\ rts'[x].armed = rts[x].armed
      <3>1. CASE SettleExclusive(r)
        <4>1. rts' = [rts EXCEPT ![x] = Cleared(rts[x])]
          BY <3>1 DEF SettleExclusive
        <4>2. QED
          BY <1>2, <2>1, <4>1 DEF Cleared, Sound, Runtime
      <3>2. CASE SettleQueued(r)
        <4>1. PICK n, q : rts' = [rts EXCEPT ![x].abort = NoRun, ![x].active = n, ![x].queue = q]
          BY <3>2 DEF SettleQueued
        <4>2. QED
          BY <1>2, <2>1, <4>1 DEF Sound, Runtime
      <3>3. QED
        BY <1>4, <3>1, <3>2
    <2>3. runs'[r].rt = NoRt
      <3>1. PICK c \in Callers : runs' = Released(r, c)
        BY <1>4, RunTyped DEF SettleExclusive, SettleQueued, Callers
      <3>2. Answered(runs, c) \in [RunIds -> GoodRun(Known)]
        BY AnsweredGood DEF Sound
      <3>3. QED
        BY <3>1, <3>2 DEF Released, FreeRun
    <2>4. ASSUME NEW y \in RtIds, NEW q \in RunIds, Exclusive(y), runs'[q].rt = y
          PROVE  runs[q].rt = y /\ (rts[y].abort = q => rts'[y].abort = q)
      <3>1. runs[q].rt = y
        BY <1>1, <2>4, NoNewRun
      <3>2. y = x => q = r
        BY <2>1, <2>4, <3>1, ExclusiveRun DEF Owned
      <3>3. y # x
        BY <2>1, <2>3, <2>4, <3>2, BoundAssumption
      <3>4. QED
        BY <2>2, <3>1, <3>3
    <2>5. QED
      BY <2>2, <2>4, CaughtKept
  <1>5. QED
    BY <1>3, <1>4 DEF Settle

\* A teardown aborts the run of each object it disarms.
LEMMA CaughtTeardown ==
  ASSUME Sound, Counted, Counted', AllCaught, Tame, stack = <<>>,
         NEW X, NEW Y, Teardown(X, Y)
  PROVE  AllCaught'
  <1>1. ~Top("start")
    BY DEF Top
  <1>2. \A x \in RtIds : /\ rts'[x].row = rts[x].row /\ rts'[x].abort = rts[x].abort
                         /\ rts'[x].armed = (rts[x].armed /\ x \notin X)
    <2> DEFINE t(x) == IF x \in X THEN TornDown(rts[x]) ELSE rts[x]
               v(x) == [t(x) EXCEPT !.indexed = @ /\ x \notin Y]
    <2> TAKE x \in RtIds
    <2>1. rts[x] \in Runtime
      BY DEF Sound, GoodRuntime
    <2>2. rts'[x] = v(x)
      BY DEF Teardown
    <2>3. CASE x \in X
      BY <2>1, <2>2, <2>3 DEF TornDown, Runtime
    <2>4. CASE x \notin X
      BY <2>1, <2>2, <2>4 DEF Runtime
    <2>5. QED
      BY <2>3, <2>4
  <1>3. ASSUME NEW x \in RtIds, Exclusive(x)', NEW r \in RunIds, runs'[r].rt = x
        PROVE  IF rts'[x].armed THEN rts'[x].abort = r ELSE runs'[r].aborted
    <2>1. Exclusive(x) /\ runs[r].rt = x
      BY <1>1, <1>2, <1>3, NoNewRun DEF Exclusive, Plain, InMode, Mode
    <2>2. IF rts[x].armed THEN rts[x].abort = r ELSE runs[r].aborted
      BY <2>1 DEF AllCaught, Caught, Owned
    <2>3. CASE ~rts[x].armed
      BY <1>2, <1>3, <2>1, <2>2, <2>3, AbortKept
    <2>4. CASE rts[x].armed /\ x \in X
      <3>1. r \in RecordedRuns(X)
        BY <2>2, <2>4, BoundAssumption DEF RecordedRuns
      <3>2. runs'[r] = AbortedRun(runs[r])
        BY <3>1 DEF Teardown
      <3>3. runs'[r].aborted
        BY <3>2, RunTyped DEF AbortedRun, Run
      <3>4. QED
        BY <1>2, <2>4, <3>3
    <2>5. CASE rts[x].armed /\ x \notin X
      BY <1>2, <2>2, <2>5
    <2>6. QED
      BY <2>3, <2>4, <2>5
  <1>4. QED
    BY <1>3 DEF AllCaught, Caught, Owned, Tame

LEMMA CaughtReload ==
  ASSUME Sound, Counted, Counted', AllCaught, Tame, NEW t \in Tasks, Reload(t)
  PROVE  AllCaught'
  <1>1. CASE BeginReload(t) \/ BeginFullReload(t)
    BY <1>1, CaughtTeardown DEF BeginReload, BeginFullReload, Quiet
  <1>2. ASSUME UNCHANGED rts, stack = <<>>
        PROVE  AllCaught'
    BY <1>2, CaughtElsewhere DEF Top
  <1>3. ASSUME NEW i \in Ids, Register(t, i)
        PROVE  AllCaught'
    <2>1. stack = <<>> /\ UNCHANGED runs
      BY <1>3 DEF Register
    <2>2. ASSUME NEW row, NEW x \in RtIds, Unreferenced(x),
                 rts' = [rts EXCEPT ![x] = NewRuntime(i, row)]
          PROVE  AllCaught'
      <3> SUFFICES ASSUME NEW y \in RtIds, Exclusive(y)', NEW r \in Owned(y)
                   PROVE  IF rts'[y].armed THEN rts'[y].abort = r ELSE runs[r].aborted
        BY <2>1 DEF AllCaught, Caught, Owned, Young
      <3>1. y # x
        BY <2>2 DEF Unreferenced, Owned
      <3>2. rts'[y] = rts[y]
        BY <2>2, <3>1 DEF Sound
      <3>3. Exclusive(y)
        BY <3>2 DEF Exclusive, Plain, InMode, Mode
      <3>4. QED
        BY <3>2, <3>3 DEF AllCaught, Caught
    <2>3. QED
      BY <1>2, <1>3, <2>1, <2>2 DEF Register, FreeRuntime
  <1>4. QED
    BY <1>1, <1>2, <1>3 DEF Reload, Commit, Start, ReadTable, RowsArrive, Quiet

LEMMA CaughtInit ==
  ASSUME Init
  PROVE  AllCaught
  BY BoundAssumption DEF Init, FreeRun, AllCaught, Young, Caught, Owned

LEMMA CaughtNext ==
  ASSUME Sound, Counted, Counted', AllAlone, Quieted, AllCaught, [Next]_vars
  PROVE  AllCaught'
  <1>1. Tame
    BY TameNext
  <1>2. CASE Wake \/ Trigger \/ UNCHANGED vars
    <2>1. CASE UNCHANGED vars
      BY <2>1 DEF vars, AllCaught, Young, Caught, Exclusive, Plain, InMode, Mode, Owned
    <2>2. CASE Wake \/ Trigger
      <3>1. UNCHANGED rts /\ ~Top("start")
        BY <2>2
           DEF Wake, Trigger, ScheduledTrigger, DeviceUpdate, ManualTrigger, Quiet, Top
      <3>2. QED
        BY <1>1, <3>1, CaughtElsewhere
    <2>3. QED
      BY <1>2, <2>1, <2>2
  <1>3. CASE Stop
    BY <1>1, <1>3, CaughtTeardown DEF Stop, Quiet
  <1>4. ASSUME NEW r \in RunIds, Resume(r) \/ Timer(r)
        PROVE  AllCaught'
    <2>1. UNCHANGED rts /\ ~Top("start")
      BY <1>4 DEF Resume, Timer, LoadReturns, CommandEnds, DelayEnds, ExecutionTimeout, Quiet, Top
    <2>2. QED
      BY <1>1, <2>1, CaughtElsewhere
  <1>5. QED
    BY <1>1, <1>2, <1>3, <1>4, CaughtDispatch, CaughtExecute, CaughtSettle, CaughtReload DEF Next

\* A run that was aborted, by a timeout, a restart trigger or a teardown, takes no further
\* action from its list, at any depth of its branches; and a teardown in queued mode, or
\* in single mode without engine code, finds the run there is, so that a run of an
\* automation that was edited, disabled, deleted or stopped acts no more (teardown,
\* executeActions).
THEOREM StopObeyed == Spec => StoppedRunsDispatchNothing
  <1>1. Init => AllAlone /\ Quieted /\ AllCaught
    BY AloneInit, QuietedInit, CaughtInit
  <1>2. Sound /\ Counted /\ Counted' /\ AllAlone /\ Quieted /\ AllCaught /\ [Next]_vars =>
          AllAlone' /\ Quieted' /\ AllCaught'
    BY AloneNext, QuietedNext, CaughtNext
  <1>3. ASSUME Sound, Counted, AllCaught, [Next]_vars, NEW r \in RunIds,
               Live(r), runs[r].aborted \/ Orphaned(r), Live(r)'
        PROVE  runs'[r].todo = runs[r].todo \/ runs'[r].pc = "settled"
    <2>1. runs[r].aborted
      <3>1. ASSUME Orphaned(r)
            PROVE  runs[r].aborted
        <4> PICK x : x = runs[r].rt
          OBVIOUS
        <4>1. x # NoRt /\ ~rts[x].armed /\ Exclusive(x)
          BY <3>1 DEF Orphaned, Exclusive, Plain
        <4>2. x \in RtIds
          BY <1>3, <4>1, SettledRuntime
        <4>3. QED
          BY <1>3, <4>1, <4>2 DEF AllCaught, Caught, Owned
      <3>2. QED
        BY <1>3, <3>1
    <2>2. QED
      BY <1>3, <2>1, TameNext DEF Tame, Stops, AllCaught
  <1>4. Sound /\ Counted /\ AllCaught /\ [Next]_vars =>
          [\A r \in RunIds :
             Live(r) /\ (runs[r].aborted \/ Orphaned(r)) /\ Live(r)'
               => runs'[r].todo = runs[r].todo \/ runs'[r].pc = "settled"]_vars
    BY <1>3
  <1>5. QED
    BY <1>1, <1>2, <1>4, Counting, PTL DEF Spec, StoppedRunsDispatchNothing
=============================================================================
