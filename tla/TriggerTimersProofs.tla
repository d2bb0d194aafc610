------------------------ MODULE TriggerTimersProofs ------------------------
(***************************************************************************)
(* Theorems about TriggerTimers, for all triggers, times and bounds that   *)
(* its assumptions allow.                                                  *)
(***************************************************************************)
EXTENDS TriggerTimers, FiniteSetTheorems, NaturalsInduction, WellFoundedInduction, TLAPS

-----------------------------------------------------------------------------
(* The inductive invariant.                                                *)

Over == {p \in Calls : calls[p] = "done"}

\* A call makes one registration at most.
OneEach == made <= Cardinality(Over)

\* Calls that do not overlap: the one that loads has torn down what was there.
OneAtATime ==
  ~overlap => /\ \A p, q \in Calls : calls[p] = "loading" /\ calls[q] = "loading" => p = q
              /\ (\E p \in Calls : calls[p] = "loading") => current = None

\* A for timer was set by a match of its trigger.  In a registration that is told of updates,
\* if the value is again the one it was set for, no match since has replaced the timer: the
\* value is held since then, or the device was away.
Matched(g, a) ==
  LET tm == forTimer[g][a]
      x == Watches[tm.watch] IN
  tm # NoTimer =>
    /\ tm.watch \in Watch /\ x.attr = a
    /\ x.to = Any \/ x.to = tm.val
    /\ g \in index /\ x.from = Any /\ value[a] = tm.val
         => since[a] + x.for <= tm.due \/ returned[a] + x.for > tm.due
AllMatched == \A g \in Regs, a \in Attr : Matched(g, a)

\* An indexed registration with a for timer is told of updates: the engine is attached.
TimersAttached == \A g \in index : forTimer[g] # NoFor => Attached

\* A registration not made yet has no for timer and no entry, is not in force, owes nothing.
Unmade(g) ==
  /\ forTimer[g] = NoFor /\ g \notin index /\ g # current
  /\ \A w \in Watch : owed[w].reg # g
Fresh == \A g \in Regs : g > made => Unmade(g)

OwedIsPresent == \A w \in Watch : owed[w] # NotOwed => value[Watches[w].attr] # Absent

IInv ==
  /\ TypeOK /\ OneEach /\ OneAtATime /\ AllMatched /\ TimersAttached /\ Fresh
  /\ OwedIsPresent /\ NoTimerLeft /\ HeldIsTimed

-----------------------------------------------------------------------------
(* Days and midnights.                                                     *)

LEMMA DivProperties ==
  ASSUME NEW n \in Nat, NEW d \in Nat \ {0}
  PROVE  n \div d \in Nat /\ (n \div d) * d <= n /\ n < ((n \div d) + 1) * d
  <1>1. n \div d \in Nat
    OBVIOUS
  <1>2. (n \div d) * d <= n
    OBVIOUS
  <1>3. n < ((n \div d) + 1) * d
    OBVIOUS
  <1>4. QED
    BY <1>1, <1>2, <1>3

LEMMA DivMonotonic ==
  ASSUME NEW d \in Nat \ {0}, NEW n \in Nat, NEW m \in Nat, m <= n
  PROVE  m \div d <= n \div d
  <1>1. PICK p, q \in Nat : p = m \div d /\ q = n \div d
    BY DivProperties
  <1>2. SUFFICES ASSUME p > q PROVE FALSE
    BY <1>1
  <1>3. p * d <= m /\ n < (q + 1) * d
    BY <1>1, DivProperties
  <1>4. (q + 1) * d <= p * d
    BY <1>2
  <1>5. QED
    BY <1>3, <1>4

LEMMA Midnights ==
  ASSUME now \in Nat
  PROVE  NextMidnight \in Nat /\ now < NextMidnight /\ NextMidnight <= now + Day
  <1>1. PICK q \in Nat : q = now \div Day /\ q * Day <= now /\ now < (q + 1) * Day
    BY DivProperties, BoundsAssumption
  <1>2. (q + 1) * Day = q * Day + Day /\ (q + 1) * Day \in Nat
    BY BoundsAssumption
  <1>3. NextMidnight = (q + 1) * Day
    BY <1>1 DEF NextMidnight, Today
  <1> HIDE DEF NextMidnight
  <1>4. QED
    BY <1>1, <1>2, <1>3, BoundsAssumption

LEMMA TodayIsADay ==
  ASSUME now \in 0 .. MaxTime
  PROVE  Today \in Days /\ Today + 1 \in Days
  <1>1. PICK q \in Nat, m \in Nat : q = now \div Day /\ m = MaxTime \div Day
    <2>1. now \div Day \in Nat /\ MaxTime \div Day \in Nat
      BY DivProperties, BoundsAssumption
    <2>2. QED
      BY <2>1
  <1>2. q <= m
    BY <1>1, DivMonotonic, BoundsAssumption
  <1>3. QED
    BY <1>1, <1>2 DEF Today, Days

LEMMA NoneIsNoDay == None \notin Days /\ None \notin Nat /\ Days \subseteq Nat
  <1>1. MaxTime \div Day \in Nat
    BY DivProperties, BoundsAssumption
  <1>2. QED
    BY <1>1 DEF None, Days

LEMMA ArmedProperties ==
  ASSUME now \in 0 .. MaxTime, NEW t \in Sun
  PROVE  /\ Armed(t) \in Days \cup {None}
         /\ Armed(t) # None => Target[t][Armed(t)] >= now
  <1>1. NextDay(t) \in Days
    BY TodayIsADay DEF NextDay
  <1>2. Target[t][NextDay(t)] \in Int
    BY <1>1, TargetAssumption
  <1>3. QED
    BY <1>1, <1>2, NoneIsNoDay, BoundsAssumption DEF Armed

LEMMA RegisterSunProperties ==
  ASSUME now \in 0 .. MaxTime, NEW c
  PROVE  /\ RegisterSun(c) \in [Sun -> Days \cup {None}]
         /\ \A t \in Sun : RegisterSun(c)[t] # None => Target[t][RegisterSun(c)[t]] >= now
  BY ArmedProperties DEF RegisterSun, NoSun

LEMMA LoadsIsNat ==
  ASSUME loading \in Nat, NEW c
  PROVE  Loads(c) \in Nat
  BY SunAssumption, FS_CardinalityType DEF Loads

LEMMA OwedProperties ==
  ASSUME TypeOK, NEW w \in Watch
  PROVE  /\ owed[w] # NotOwed => owed[w].due \in Nat /\ owed[w].reg \in Regs
         /\ owed[w].due # None <=> owed[w] # NotOwed
         /\ owed[w].reg # None <=> owed[w] # NotOwed
  <1>1. None \notin Nat /\ None \notin Regs
    BY NoneIsNoDay DEF Regs, None
  <1>2. NotOwed.due = None /\ NotOwed.reg = None
    BY DEF NotOwed
  <1>3. owed[w] \in [due : Nat, reg : Regs] \cup {NotOwed}
    BY DEF TypeOK
  <1>4. QED
    BY <1>1, <1>2, <1>3

-----------------------------------------------------------------------------
(* Timers and matches.                                                     *)

LEMMA WatchFields ==
  ASSUME NEW w \in Watch
  PROVE  /\ Watches[w].attr \in Attr /\ Watches[w].from \in Values \cup {Any}
         /\ Watches[w].to \in Values \cup {Any} /\ Watches[w].for \in Nat /\ Watches[w].for # 0
  <1> DEFINE R == [attr : Attr, from : Values \cup {Any}, to : Values \cup {Any}, for : Nat \ {0}]
  <1>1. Watches \in Seq(R)
    BY WatchesAssumption
  <1> HIDE DEF R
  <1>2. Watches[w] \in R
    BY <1>1 DEF Watch
  <1>3. QED
    BY <1>2 DEF R

LEMMA LastIsIn ==
  ASSUME NEW W \in SUBSET Watch, W # {}
  PROVE  Last(W) \in W
  <1> DEFINE n == Len(Watches)
             T == {n - w : w \in W}
  <1>1. n \in Nat /\ Watch = 1 .. n
    BY WatchesAssumption DEF Watch
  <1> HIDE DEF n
  <1>2. T \subseteq Nat /\ T # {}
    <2>1. \A w \in W : n - w \in Nat
      BY <1>1
    <2>2. QED
      BY <2>1
  <1>3. PICK x \in T : \A y \in T : ~ (<<y, x>> \in OpToRel(<, Nat))
    BY <1>2, NatLessThanWellFounded, WFMin
  <1>4. \A y \in T : ~ (y < x)
    BY <1>2, <1>3 DEF OpToRel
  <1>5. PICK w \in W : x = n - w
    OBVIOUS
  <1>6. \A v \in W : v <= w
    <2>1. SUFFICES ASSUME NEW v \in W PROVE v <= w
      OBVIOUS
    <2>2. v \in 1 .. n /\ w \in 1 .. n
      BY <1>1
    <2>3. ~ (n - v < n - w)
      BY <1>4, <1>5
    <2>4. QED
      BY <2>2, <2>3, <1>1
  <1>7. QED
    BY <1>6 DEF Last

LEMMA TimerIsNotNone ==
  /\ \A tm \in Timer : tm # NoTimer /\ tm.due \in Nat /\ tm.watch \in Watch /\ tm.val \in Values
  /\ NoTimer.due = None
  BY NoneIsNoDay DEF Timer, NoTimer

LEMMA TimedProperties ==
  ASSUME now \in 0 .. MaxTime, NEW g, NEW a, NEW new \in Values,
         NEW W \in SUBSET Watch, W # {}
  PROVE  /\ Timed(g, a, new, W) \in Timer
         /\ Timed(g, a, new, W).due = now + Watches[Last(W)].for
         /\ Timed(g, a, new, W).watch = Last(W) /\ Timed(g, a, new, W).val = new
         /\ Last(W) \in W /\ Timed(g, a, new, W).due >= now
  <1>1. Last(W) \in W
    BY LastIsIn
  <1>2. Watches[Last(W)].for \in Nat /\ Last(W) \in Watch
    BY <1>1, WatchFields
  <1>3. QED
    BY <1>1, <1>2, BoundsAssumption DEF Timed, Timer

LEMMA MatchingProperties ==
  ASSUME NEW a, NEW old, NEW new
  PROVE  /\ Matching(a, old, new) \subseteq Watch
         /\ \A w \in Watch : w \in Matching(a, old, new) <=>
              /\ Watches[w].attr = a /\ old # new
              /\ Watches[w].from = Any \/ Watches[w].from = old
              /\ Watches[w].to = Any \/ Watches[w].to = new
  BY DEF Matching, Matches

-----------------------------------------------------------------------------
(* One lemma for each action.                                              *)

LEMMA TickKeeps == IInv /\ Tick => IInv'
  <1>1. SUFFICES ASSUME IInv, Tick PROVE IInv'
    OBVIOUS
  <1>2. /\ now < MaxTime /\ now # midnight /\ now' = now + 1
        /\ \A g \in Regs : (\A t \in Sun : ~SunDue(g, t)) /\ (\A a \in Attr : ~ForDue(g, a))
        /\ UNCHANGED <<located, coords, loading, midnight, enabled, calls, made, current, index,
                       overlap, sunTimer, forTimer, value, since, returned, owed, fired>>
    BY <1>1 DEF Tick, row, device, store
  <1>3. now \in 0 .. MaxTime /\ now' \in 0 .. MaxTime
    BY <1>1, <1>2, BoundsAssumption DEF IInv, TypeOK
  <1>4. TypeOK'
    <2>1. midnight' = None \/ midnight' \in now' .. now' + Day
      <3>1. midnight = None \/ midnight \in now .. now + Day
        BY <1>1 DEF IInv, TypeOK
      <3>2. CASE midnight = None
        BY <3>2, <1>2
      <3>3. CASE midnight \in now .. now + Day
        <4>1. midnight \in now + 1 .. now + 1 + Day
          BY <3>3, <1>2, <1>3, BoundsAssumption
        <4>2. QED
          BY <4>1, <1>2
      <3>4. QED
        BY <3>1, <3>2, <3>3
    <2>2. ASSUME NEW g \in Regs, NEW t \in Sun, sunTimer[g][t] # None
          PROVE  Target[t][sunTimer[g][t]] >= now'
      <3>1. sunTimer[g][t] \in Days
        BY <1>1, <2>2 DEF IInv, TypeOK
      <3>2. Target[t][sunTimer[g][t]] \in Int
        BY <3>1, TargetAssumption
      <3>3. Target[t][sunTimer[g][t]] >= now /\ Target[t][sunTimer[g][t]] # now
        BY <1>1, <1>2, <2>2 DEF IInv, TypeOK, SunDue
      <3>4. QED
        BY <1>2, <1>3, <3>2, <3>3
    <2>3. ASSUME NEW g \in Regs, NEW a \in Attr, forTimer[g][a] # NoTimer
          PROVE  forTimer[g][a].due >= now'
      <3>1. forTimer[g][a].due \in Nat
        BY <1>1, <2>3, TimerIsNotNone DEF IInv, TypeOK
      <3>2. forTimer[g][a].due >= now /\ forTimer[g][a].due # now
        BY <1>1, <1>2, <2>3 DEF IInv, TypeOK, ForDue
      <3>3. QED
        BY <1>2, <1>3, <3>1, <3>2
    <2>4. 0 .. now \subseteq 0 .. now'
      BY <1>2, <1>3
    <2>5. /\ since' \in [Attr -> 0 .. now'] /\ returned' \in [Attr -> {None} \cup 0 .. now']
          /\ fired' \in [Watch -> {None} \cup 0 .. now']
      <3>1. /\ since \in [Attr -> 0 .. now'] /\ returned \in [Attr -> {None} \cup 0 .. now']
            /\ fired \in [Watch -> {None} \cup 0 .. now']
        BY <1>1, <2>4 DEF IInv, TypeOK
      <3>2. QED
        BY <3>1, <1>2
    <2>6. QED
      BY <1>1, <1>2, <1>3, <2>1, <2>2, <2>3, <2>5 DEF IInv, TypeOK, Timer
  <1>5. OneEach' /\ OneAtATime' /\ AllMatched' /\ OwedIsPresent' /\ TimersAttached' /\ Fresh'
    BY <1>1, <1>2 DEF IInv, OneEach, Over, OneAtATime, AllMatched, Matched, OwedIsPresent,
                      TimersAttached, Attached, Fresh, Unmade
  <1>6. NoTimerLeft' /\ HeldIsTimed'
    BY <1>1, <1>2 DEF IInv, NoTimerLeft, HeldIsTimed
  <1>7. QED
    BY <1>4, <1>5, <1>6 DEF IInv

\* Steps that leave the device triggers and the registrations alone.
LEMMA SunStep ==
  ASSUME IInv,
         now' = now, loading' \in Nat, coords' \in {"undefined", "null", "known"},
         midnight' = midnight \/ midnight' \in now .. now + Day,
         sunTimer' \in [Regs -> [Sun -> Days \cup {None}]],
         \A g \in Regs, t \in Sun : sunTimer'[g][t] # None => Target[t][sunTimer'[g][t]] >= now,
         \A g \in Regs \ {current} : sunTimer[g] = NoSun => sunTimer'[g] = NoSun,
         enabled' \in BOOLEAN, located' = located,
         UNCHANGED <<calls, made, current, index, overlap, forTimer, device>>
  PROVE  IInv'
  <1>1. UNCHANGED <<value, since, returned, owed, fired>>
    BY DEF device, store
  <1>2. TypeOK'
    BY <1>1 DEF IInv, TypeOK
  <1>3. OneEach' /\ OneAtATime' /\ AllMatched' /\ OwedIsPresent' /\ Fresh'
    BY <1>1 DEF IInv, OneEach, Over, OneAtATime, AllMatched, Matched, OwedIsPresent, Fresh, Unmade
  <1>7. TimersAttached'
    <2>1. Attached => Attached'
      <3>1. now \in Nat
        BY BoundsAssumption DEF IInv, TypeOK
      <3>2. QED
        BY <3>1, NoneIsNoDay, BoundsAssumption DEF Attached, None
    <2>2. QED
      BY <2>1, <1>1 DEF IInv, TimersAttached
  <1>4. NoTimerLeft'
    BY <1>1 DEF IInv, NoTimerLeft
  <1>5. HeldIsTimed'
    BY <1>1 DEF IInv, HeldIsTimed
  <1>6. QED
    BY <1>2, <1>3, <1>4, <1>5, <1>7 DEF IInv

LEMMA MidnightKeeps == IInv /\ Midnight => IInv'
  <1>1. SUFFICES ASSUME IInv, Midnight PROVE IInv'
    OBVIOUS
  <1>2. now \in 0 .. MaxTime /\ loading \in Nat /\ enabled \in BOOLEAN
    BY <1>1 DEF IInv, TypeOK
  <1>3. midnight' \in now .. now + Day
    <2>1. now \in Nat
      BY <1>2, BoundsAssumption
    <2>2. NextMidnight \in Nat /\ now < NextMidnight /\ NextMidnight <= now + Day
      BY <2>1, Midnights
    <2>3. midnight' = NextMidnight
      BY <1>1 DEF Midnight
    <2> HIDE DEF NextMidnight
    <2>4. QED
      BY <2>1, <2>2, <2>3, BoundsAssumption
  <1>4. /\ loading' \in Nat
        /\ sunTimer' \in [Regs -> [Sun -> Days \cup {None}]]
        /\ \A g \in Regs, t \in Sun : sunTimer'[g][t] # None => Target[t][sunTimer'[g][t]] >= now
        /\ \A g \in Regs \ {current} : sunTimer'[g] = sunTimer[g]
    <2>1. CASE current = None
      BY <1>1, <2>1 DEF Midnight, IInv, TypeOK
    <2>2. CASE current # None
      <3>1. current \in Regs
        BY <1>1, <2>2 DEF IInv, TypeOK
      <3>2. sunTimer' = [sunTimer EXCEPT ![current] = RegisterSun(coords')] /\ loading' = Loads(coords')
        BY <1>1, <2>2 DEF Midnight
      <3>3. /\ RegisterSun(coords') \in [Sun -> Days \cup {None}]
            /\ \A t \in Sun : RegisterSun(coords')[t] # None => Target[t][RegisterSun(coords')[t]] >= now
        BY <1>2, RegisterSunProperties
      <3>4. \A g \in Regs : sunTimer'[g] = IF g = current THEN RegisterSun(coords') ELSE sunTimer[g]
        BY <3>1, <3>2, <1>1 DEF IInv, TypeOK
      <3>5. sunTimer' \in [Regs -> [Sun -> Days \cup {None}]]
        BY <3>1, <3>2, <3>3, <1>1 DEF IInv, TypeOK
      <3>6. loading' \in Nat
        BY <3>2, <1>2, LoadsIsNat
      <3>7. QED
        BY <3>3, <3>4, <3>5, <3>6, <1>1 DEF IInv, TypeOK
    <2>3. QED
      BY <2>1, <2>2
  <1>5. /\ now' = now /\ coords' = "undefined" /\ enabled' \in BOOLEAN /\ located' = located
        /\ UNCHANGED <<calls, made, current, index, overlap, forTimer, device>>
    BY <1>1, <1>2 DEF Midnight, row
  <1>6. QED
    BY <1>1, <1>3, <1>4, <1>5, SunStep

LEMMA CoordinatesLoadedKeeps == IInv /\ CoordinatesLoaded => IInv'
  <1>1. SUFFICES ASSUME IInv, CoordinatesLoaded PROVE IInv'
    OBVIOUS
  <1>2. /\ now' = now /\ loading' \in Nat /\ coords' \in {"undefined", "null", "known"}
        /\ enabled' = enabled /\ located' = located /\ midnight' = midnight /\ sunTimer' = sunTimer
        /\ UNCHANGED <<calls, made, current, index, overlap, forTimer, device>>
    <2>1. loading \in Nat /\ loading > 0 /\ loading' = loading - 1
      BY <1>1 DEF CoordinatesLoaded, IInv, TypeOK
    <2>2. QED
      BY <1>1, <2>1 DEF CoordinatesLoaded, row
  <1>3. QED
    BY <1>1, <1>2, SunStep DEF IInv, TypeOK

LEMMA EditKeeps == IInv /\ Edit => IInv'
  <1>1. SUFFICES ASSUME IInv, Edit PROVE IInv'
    OBVIOUS
  <1>2. /\ now' = now /\ loading' = loading /\ coords' = coords
        /\ enabled' \in BOOLEAN /\ located' = located /\ midnight' = midnight /\ sunTimer' = sunTimer
        /\ UNCHANGED <<calls, made, current, index, overlap, forTimer, device>>
    BY <1>1 DEF Edit, clock
  <1>3. QED
    BY <1>1, <1>2, SunStep DEF IInv, TypeOK

LEMMA SunFiresKeeps ==
  ASSUME IInv, NEW g \in Regs, NEW t \in Sun, SunFires(g, t)
  PROVE  IInv'
  <1>1. sunTimer' = [sunTimer EXCEPT ![g][t] = None] /\ sunTimer \in [Regs -> [Sun -> Days \cup {None}]]
    BY DEF SunFires, IInv, TypeOK
  <1>2. sunTimer' \in [Regs -> [Sun -> Days \cup {None}]]
    BY <1>1
  <1>3. \A h \in Regs, u \in Sun : sunTimer'[h][u] = sunTimer[h][u] \/ sunTimer'[h][u] = None
    BY <1>1
  <1>4. \A h \in Regs : sunTimer[h] = NoSun => sunTimer'[h] = NoSun
    BY <1>1 DEF NoSun
  <1>5. /\ now' = now /\ loading' = loading /\ coords' = coords
        /\ enabled' = enabled /\ located' = located /\ midnight' = midnight
        /\ UNCHANGED <<calls, made, current, index, overlap, forTimer, device>>
    BY DEF SunFires, clock, row
  <1>6. \A h \in Regs, u \in Sun : sunTimer'[h][u] # None => Target[u][sunTimer'[h][u]] >= now
    BY <1>3 DEF IInv, TypeOK
  <1>7. QED
    BY <1>2, <1>4, <1>5, <1>6, SunStep DEF IInv, TypeOK

LEMMA OverIsFinite ==
  ASSUME TypeOK, OneEach, NEW p \in Calls, calls[p] = "loading"
  PROVE  /\ IsFiniteSet(Over) /\ made + 1 \in Regs
         /\ Cardinality(Over \cup {p}) = Cardinality(Over) + 1
  <1>1. MaxReloads \in Nat /\ Calls = 0 .. MaxReloads
    BY BoundsAssumption DEF Calls
  <1>2. IsFiniteSet(Calls) /\ Cardinality(Calls) = MaxReloads + 1
    BY <1>1, FS_Interval
  <1>3. Over \cup {p} \subseteq Calls /\ p \notin Over
    BY DEF Over
  <1>4. IsFiniteSet(Over) /\ IsFiniteSet(Over \cup {p})
    BY <1>2, <1>3, FS_Subset
  <1>5. Cardinality(Over \cup {p}) = Cardinality(Over) + 1 /\ Cardinality(Over) \in Nat
    BY <1>3, <1>4, FS_AddElement, FS_CardinalityType
  <1>6. Cardinality(Over \cup {p}) <= MaxReloads + 1
    BY <1>2, <1>3, FS_Subset
  <1>7. made \in 0 .. MaxReloads + 1 /\ made <= Cardinality(Over)
    BY DEF TypeOK, OneEach
  <1>8. QED
    BY <1>1, <1>4, <1>5, <1>6, <1>7 DEF Regs

LEMMA StartKeeps == IInv /\ Start => IInv'
  <1>1. SUFFICES ASSUME IInv, Start PROVE IInv'
    OBVIOUS
  <1>2. /\ calls[0] = "idle" /\ calls' = [calls EXCEPT ![0] = "loading"]
        /\ overlap' = (overlap \/ Reading \/ current # None)
        /\ UNCHANGED <<now, located, coords, loading, midnight, enabled, made, current, index,
                       sunTimer, forTimer, value, since, returned, owed, fired>>
    BY <1>1 DEF Start, clock, device, store
  <1>3. TypeOK /\ 0 \in Calls
    BY <1>1, BoundsAssumption DEF IInv, Calls
  <1>4. TypeOK'
    BY <1>2, <1>3 DEF TypeOK
  <1>5. OneEach'
    <2>1. Over' = Over
      BY <1>2, <1>3 DEF Over, TypeOK
    <2>2. QED
      BY <2>1, <1>1, <1>2 DEF OneEach, IInv
  <1>6. OneAtATime'
    BY <1>2, <1>3 DEF OneAtATime, Reading, TypeOK
  <1>7. AllMatched' /\ TimersAttached' /\ Fresh' /\ OwedIsPresent' /\ NoTimerLeft' /\ HeldIsTimed'
    BY <1>1, <1>2 DEF IInv, AllMatched, Matched, TimersAttached, Attached, Fresh, Unmade,
                      OwedIsPresent, NoTimerLeft, HeldIsTimed
  <1>8. QED
    BY <1>4, <1>5, <1>6, <1>7 DEF IInv

\* The registration in force is torn down, and none takes its place.
LEMMA TeardownStep ==
  ASSUME IInv, current' = None, index' \subseteq index \ {current},
         IF current = None THEN UNCHANGED <<sunTimer, forTimer>> ELSE Teardown(current),
         midnight' = midnight \/ (midnight' = None /\ index' = {}),
         calls' \in [Calls -> {"idle", "loading", "done"}], Over' = Over,
         overlap' \in BOOLEAN, overlap => overlap', OneAtATime',
         UNCHANGED <<now, located, coords, loading, enabled, made, device>>
  PROVE  IInv'
  <1> DEFINE Torn(f, g, z) == IF g = current THEN z ELSE f[g]
  <1>1. UNCHANGED <<value, since, returned, owed, fired>>
    BY DEF device, store
  <1>2. TypeOK /\ None \notin Regs
    BY NoneIsNoDay DEF IInv, Regs, None
  <1>3. /\ sunTimer' \in [Regs -> [Sun -> Days \cup {None}]]
        /\ forTimer' \in [Regs -> [Attr -> Timer \cup {NoTimer}]]
        /\ \A g \in Regs : sunTimer'[g] = Torn(sunTimer, g, NoSun) /\ forTimer'[g] = Torn(forTimer, g, NoFor)
    <2>1. CASE current = None
      BY <2>1, <1>2 DEF TypeOK
    <2>2. CASE current # None
      <3>1. /\ sunTimer' = [sunTimer EXCEPT ![current] = NoSun]
            /\ forTimer' = [forTimer EXCEPT ![current] = NoFor]
            /\ current \in Regs
        BY <2>2, <1>2 DEF Teardown, ClearsFor, TypeOK
      <3>2. NoSun \in [Sun -> Days \cup {None}] /\ NoFor \in [Attr -> Timer \cup {NoTimer}]
        BY DEF NoSun, NoFor
      <3>3. QED
        BY <3>1, <3>2, <1>2 DEF TypeOK
    <2>3. QED
      BY <2>1, <2>2
  <1>4. /\ \A g \in Regs, t \in Sun : sunTimer'[g][t] = sunTimer[g][t] \/ sunTimer'[g][t] = None
        /\ \A g \in Regs, a \in Attr : forTimer'[g][a] = forTimer[g][a] \/ forTimer'[g][a] = NoTimer
    BY <1>3 DEF NoSun, NoFor
  <1>5. TypeOK'
    <2>1. /\ \A g \in Regs, t \in Sun : sunTimer'[g][t] # None => Target[t][sunTimer'[g][t]] >= now
          /\ \A g \in Regs, a \in Attr : forTimer'[g][a] # NoTimer => forTimer'[g][a].due >= now
      BY <1>2, <1>4 DEF TypeOK
    <2>2. index' \subseteq Regs
      BY <1>2 DEF TypeOK
    <2>3. QED
      BY <1>1, <1>2, <1>3, <2>1, <2>2 DEF TypeOK
  <1>6. OneEach'
    BY DEF OneEach, IInv
  <1>7. AllMatched'
    BY <1>1, <1>4 DEF IInv, AllMatched, Matched
  <1>8. TimersAttached'
    <2>1. SUFFICES ASSUME NEW g \in index', forTimer'[g] # NoFor PROVE Attached'
      BY DEF TimersAttached
    <2>2. g \in index /\ g \in Regs /\ forTimer[g] # NoFor
      BY <2>1, <1>2, <1>3 DEF TypeOK
    <2>3. QED
      BY <2>1, <2>2 DEF IInv, TimersAttached, Attached
  <1>9. Fresh'
    <2>1. SUFFICES ASSUME NEW g \in Regs, g > made PROVE Unmade(g)'
      BY DEF Fresh
    <2>2. Unmade(g)
      BY <2>1 DEF IInv, Fresh
    <2>3. QED
      BY <2>2, <1>1, <1>2, <1>3 DEF Unmade
  <1>10. OwedIsPresent' /\ HeldIsTimed'
    BY <1>1, <1>2, OwedProperties DEF IInv, OwedIsPresent, HeldIsTimed
  <1>11. NoTimerLeft'
    BY <1>2, <1>3 DEF IInv, NoTimerLeft
  <1>12. QED
    BY <1>5, <1>6, <1>7, <1>8, <1>9, <1>10, <1>11 DEF IInv

LEMMA ReloadKeeps ==
  ASSUME IInv, NEW p \in Calls, Reload(p)
  PROVE  IInv'
  <1>1. /\ calls[p] = "idle" /\ calls' = [calls EXCEPT ![p] = "loading"]
        /\ overlap' = (overlap \/ Reading)
        /\ current' = None /\ index' \in {index \ {current}, {}}
        /\ UNCHANGED <<now, located, coords, loading, midnight, enabled, made, device>>
        /\ IF current = None THEN UNCHANGED <<sunTimer, forTimer>> ELSE Teardown(current)
    BY DEF Reload, clock
  <1>2. calls' \in [Calls -> {"idle", "loading", "done"}] /\ overlap' \in BOOLEAN /\ Over' = Over
    BY <1>1 DEF IInv, TypeOK, Over, Reading
  <1>3. OneAtATime'
    BY <1>1 DEF IInv, OneAtATime, Reading, TypeOK
  <1>4. QED
    BY <1>1, <1>2, <1>3, TeardownStep

LEMMA StopKeeps == IInv /\ Stop => IInv'
  <1>1. SUFFICES ASSUME IInv, Stop PROVE IInv'
    OBVIOUS
  <1>2. /\ current' = None /\ index' = {} /\ midnight' = None
        /\ UNCHANGED <<now, located, coords, loading, enabled, calls, made, overlap, device>>
        /\ IF current = None THEN UNCHANGED <<sunTimer, forTimer>> ELSE Teardown(current)
    BY <1>1 DEF Stop
  <1>3. calls' \in [Calls -> {"idle", "loading", "done"}] /\ overlap' \in BOOLEAN /\ Over' = Over
    BY <1>1, <1>2 DEF IInv, TypeOK, Over
  <1>4. OneAtATime'
    BY <1>1, <1>2 DEF IInv, OneAtATime
  <1>5. QED
    BY <1>1, <1>2, <1>3, <1>4, TeardownStep

LEMMA LoadedKeeps ==
  ASSUME IInv, NEW p \in Calls, Loaded(p)
  PROVE  IInv'
  <1>1. /\ calls[p] = "loading" /\ calls' = [calls EXCEPT ![p] = "done"]
        /\ midnight' = IF p = 0 THEN NextMidnight ELSE midnight
        /\ UNCHANGED <<now, located, coords, enabled, overlap, forTimer, value, since, returned, owed, fired>>
    BY DEF Loaded, device, store
  <1>2. TypeOK /\ OneEach
    BY DEF IInv
  <1>3. now \in 0 .. MaxTime /\ now \in Nat
    BY <1>2, BoundsAssumption DEF TypeOK
  <1>4. midnight' = None \/ midnight' \in now .. now + Day
    <2>1. NextMidnight \in now .. now + Day
      <3>1. NextMidnight \in Nat /\ now < NextMidnight /\ NextMidnight <= now + Day
        BY <1>3, Midnights
      <3> HIDE DEF NextMidnight
      <3>2. QED
        BY <3>1, <1>3, BoundsAssumption
    <2>2. QED
      BY <2>1, <1>1, <1>2 DEF TypeOK
  <1>5. calls' \in [Calls -> {"idle", "loading", "done"}]
    BY <1>1, <1>2 DEF TypeOK
  <1>11. Attached => Attached'
    <2>1. NextMidnight # None
      <3>1. NextMidnight \in Nat
        BY <1>3, Midnights
      <3> HIDE DEF NextMidnight
      <3>2. QED
        BY <3>1, NoneIsNoDay
    <2>2. QED
      BY <2>1, <1>1 DEF Attached
  <1>6. Over' = Over \cup {p} /\ made + 1 \in Regs /\ Cardinality(Over \cup {p}) = Cardinality(Over) + 1
    BY <1>1, <1>2, OverIsFinite DEF Over, TypeOK
  <1>7. Cardinality(Over) \in Nat /\ made \in Nat
    <2>1. IsFiniteSet(Over)
      BY <1>1, <1>2, OverIsFinite
    <2>2. made \in Nat
      BY <1>2, BoundsAssumption DEF TypeOK
    <2>3. QED
      BY <2>1, <2>2, FS_CardinalityType
  <1>8. CASE ~enabled
    <2>1. UNCHANGED <<made, current, index, sunTimer, loading>>
      BY <1>8 DEF Loaded
    <2>2. TypeOK'
      BY <2>1, <1>1, <1>2, <1>4, <1>5 DEF TypeOK
    <2>3. OneEach'
      BY <2>1, <1>2, <1>6, <1>7 DEF OneEach
    <2>4. OneAtATime'
      BY <2>1, <1>1, <1>2 DEF IInv, OneAtATime, TypeOK
    <2>5. /\ AllMatched' /\ TimersAttached' /\ Fresh' /\ OwedIsPresent'
          /\ NoTimerLeft' /\ HeldIsTimed'
      BY <2>1, <1>1, <1>11 DEF IInv, AllMatched, Matched, TimersAttached, Fresh, Unmade,
                               OwedIsPresent, NoTimerLeft, HeldIsTimed
    <2>6. QED
      BY <2>2, <2>3, <2>4, <2>5 DEF IInv
  <1>9. CASE enabled
    <2>1. /\ made' = made + 1 /\ current' = made + 1 /\ index' = index \cup {made + 1}
          /\ sunTimer' = [sunTimer EXCEPT ![made + 1] = RegisterSun(coords)]
          /\ loading' = Loads(coords)
      BY <1>9 DEF Loaded
    <2>2. /\ RegisterSun(coords) \in [Sun -> Days \cup {None}]
          /\ \A t \in Sun : RegisterSun(coords)[t] # None => Target[t][RegisterSun(coords)[t]] >= now
      BY <1>3, RegisterSunProperties
    <2>3. /\ sunTimer' \in [Regs -> [Sun -> Days \cup {None}]]
          /\ \A g \in Regs : sunTimer'[g] = IF g = made + 1 THEN RegisterSun(coords) ELSE sunTimer[g]
      BY <2>1, <2>2, <1>2, <1>6 DEF TypeOK
    <2>4. TypeOK'
      <3>1. \A g \in Regs, t \in Sun : sunTimer'[g][t] # None => Target[t][sunTimer'[g][t]] >= now
        BY <2>2, <2>3, <1>2 DEF TypeOK
      <3>2. loading' \in Nat
        BY <2>1, <1>2, LoadsIsNat DEF TypeOK
      <3>3. made' \in 0 .. MaxReloads + 1 /\ current' \in Regs \cup {None} /\ index' \subseteq Regs
        BY <2>1, <1>2, <1>6 DEF TypeOK, Regs
      <3>4. QED
        BY <3>1, <3>2, <3>3, <2>3, <1>1, <1>2, <1>4, <1>5 DEF TypeOK
    <2>5. OneEach'
      <3>1. Cardinality(Over)' = Cardinality(Over) + 1 /\ made <= Cardinality(Over)
        BY <1>2, <1>6 DEF OneEach
      <3>2. QED
        BY <3>1, <2>1, <1>7 DEF OneEach
    <2>6. OneAtATime'
      BY <1>1, <1>2 DEF IInv, OneAtATime, TypeOK
    <2>11. Unmade(made + 1)
      BY <1>6, <1>7 DEF IInv, Fresh
    <2>7. AllMatched'
      <3>1. SUFFICES ASSUME NEW g \in Regs, NEW a \in Attr, forTimer[g][a] # NoTimer
                     PROVE  Matched(g, a)'
        BY <1>1 DEF AllMatched, Matched
      <3>2. g # made + 1
        BY <3>1, <2>11 DEF Unmade, NoFor
      <3>3. QED
        BY <3>2, <2>1, <1>1 DEF IInv, AllMatched, Matched
    <2>12. TimersAttached'
      BY <2>1, <2>11, <1>1, <1>11 DEF IInv, TimersAttached, Unmade
    <2>13. Fresh'
      <3>1. SUFFICES ASSUME NEW g \in Regs, g > made + 1 PROVE Unmade(g)'
        BY <2>1 DEF Fresh
      <3>2. g > made /\ g # made + 1
        BY <3>1, <1>7 DEF Regs
      <3>3. QED
        BY <3>2, <2>1, <1>1 DEF IInv, Fresh, Unmade
    <2>8. OwedIsPresent' /\ HeldIsTimed'
      BY <2>1, <2>11, <1>1 DEF IInv, OwedIsPresent, HeldIsTimed, Unmade
    <2>9. NoTimerLeft'
      <3>1. SUFFICES ASSUME NEW g \in Regs, g # made + 1, ~overlap
                     PROVE  g \notin index /\ sunTimer'[g] = NoSun /\ forTimer[g] = NoFor
        BY <2>1, <1>1 DEF NoTimerLeft
      <3>2. current = None
        BY <3>1, <1>1 DEF IInv, OneAtATime
      <3>3. g # current
        BY <3>2, NoneIsNoDay DEF Regs, None
      <3>4. QED
        BY <3>1, <3>3, <2>3 DEF IInv, NoTimerLeft
    <2>10. QED
      BY <2>4, <2>5, <2>6, <2>7, <2>8, <2>9, <2>12, <2>13 DEF IInv
  <1>10. QED
    BY <1>8, <1>9

\* The value of an attribute changes: what that leaves to show.
LEMMA ValueStep ==
  ASSUME IInv, NEW a \in Attr, NEW v \in Values \cup {Absent},
         value' = [value EXCEPT ![a] = v], since' = [since EXCEPT ![a] = now],
         returned' \in {returned, [returned EXCEPT ![a] = now]},
         forTimer' \in [Regs -> [Attr -> Timer \cup {NoTimer}]],
         owed' \in [Watch -> [due : Nat, reg : Regs] \cup {NotOwed}],
         \A g \in Regs, b \in Attr : forTimer'[g][b] = forTimer[g][b] \/ forTimer'[g][b].due >= now,
         UNCHANGED <<clock, row, sunTimer, fired>>
  PROVE  TypeOK' /\ OneEach' /\ OneAtATime'
  <1>1. UNCHANGED <<now, located, coords, loading, midnight, enabled, calls, made, current, index, overlap>>
    BY DEF clock, row
  <1>2. TypeOK /\ now \in 0 .. MaxTime /\ now \in 0 .. now
    BY BoundsAssumption DEF IInv, TypeOK
  <1>3. value' \in [Attr -> Values \cup {Absent}] /\ since' \in [Attr -> 0 .. now]
    BY <1>2 DEF TypeOK
  <1>4. returned' \in [Attr -> {None} \cup 0 .. now]
    <2>1. CASE returned' = returned
      BY <2>1, <1>2 DEF TypeOK
    <2>2. CASE returned' = [returned EXCEPT ![a] = now]
      BY <2>2, <1>2 DEF TypeOK
    <2>3. QED
      BY <2>1, <2>2
  <1>5. \A g \in Regs, b \in Attr : forTimer'[g][b] # NoTimer => forTimer'[g][b].due >= now
    BY <1>2 DEF TypeOK
  <1>6. TypeOK'
    BY <1>1, <1>2, <1>3, <1>4, <1>5 DEF TypeOK
  <1>7. OneEach' /\ OneAtATime'
    BY <1>1 DEF IInv, OneEach, Over, OneAtATime
  <1>8. QED
    BY <1>6, <1>7

LEMMA RemoveKeeps ==
  ASSUME IInv, NEW a \in Attr, Remove(a)
  PROVE  IInv'
  <1>1. /\ value' = [value EXCEPT ![a] = Absent] /\ since' = [since EXCEPT ![a] = now]
        /\ owed' = [w \in Watch |-> IF Watches[w].attr = a THEN NotOwed ELSE owed[w]]
        /\ UNCHANGED <<clock, row, sunTimer, forTimer, returned, fired>>
    BY DEF Remove
  <1>2. TypeOK /\ UNCHANGED <<now, midnight, made, current, index, overlap>>
    BY <1>1 DEF IInv, clock, row
  <1>3. TypeOK' /\ OneEach' /\ OneAtATime'
    <2>1. /\ owed' \in [Watch -> [due : Nat, reg : Regs] \cup {NotOwed}]
          /\ forTimer' \in [Regs -> [Attr -> Timer \cup {NoTimer}]]
      BY <1>1, <1>2 DEF TypeOK
    <2>2. QED
      BY <2>1, <1>1, ValueStep
  <1>4. \A b \in Attr : /\ value'[b] = IF b = a THEN Absent ELSE value[b]
                        /\ b # a => since'[b] = since[b]
    BY <1>1, <1>2 DEF TypeOK
  <1>5. AllMatched'
    <2>1. SUFFICES ASSUME NEW g \in Regs, NEW b \in Attr, forTimer[g][b] # NoTimer
                   PROVE  Matched(g, b)'
      BY <1>1 DEF AllMatched, Matched
    <2>2. Matched(g, b) /\ forTimer[g][b].val # Absent
      BY <2>1, <1>2, TimerIsNotNone, WatchesAssumption DEF IInv, AllMatched, TypeOK
    <2>3. QED
      BY <2>2, <1>1, <1>2, <1>4 DEF Matched
  <1>6. OwedIsPresent'
    BY <1>1, <1>4, WatchFields DEF IInv, OwedIsPresent
  <1>7. NoTimerLeft' /\ TimersAttached'
    BY <1>1, <1>2 DEF IInv, NoTimerLeft, TimersAttached, Attached
  <1>10. Fresh'
    <2>1. None \notin Regs /\ NotOwed.reg = None
      BY NoneIsNoDay DEF Regs, None, NotOwed
    <2>2. \A w \in Watch : owed'[w].reg = owed[w].reg \/ owed'[w].reg \notin Regs
      BY <2>1, <1>1
    <2>3. QED
      BY <2>2, <1>1, <1>2 DEF IInv, Fresh, Unmade
  <1>8. HeldIsTimed'
    <2>1. NotOwed.due = None
      BY DEF NotOwed
    <2>2. QED
      BY <2>1, <1>1, <1>2, <1>4, WatchFields DEF IInv, HeldIsTimed
  <1>9. QED
    BY <1>3, <1>5, <1>6, <1>7, <1>8, <1>10 DEF IInv

LEMMA ReturnKeeps ==
  ASSUME IInv, NEW a \in Attr, NEW new \in Values, Return(a, new)
  PROVE  IInv'
  <1>1. /\ value[a] = Absent
        /\ value' = [value EXCEPT ![a] = new] /\ since' = [since EXCEPT ![a] = now]
        /\ returned' = [returned EXCEPT ![a] = now]
        /\ UNCHANGED <<clock, row, sunTimer, forTimer, owed, fired>>
    BY DEF Return
  <1>2. TypeOK /\ UNCHANGED <<now, midnight, made, current, index, overlap>> /\ now \in Nat
    BY <1>1, BoundsAssumption DEF IInv, clock, row, TypeOK
  <1>3. TypeOK' /\ OneEach' /\ OneAtATime'
    <2>1. /\ owed' \in [Watch -> [due : Nat, reg : Regs] \cup {NotOwed}]
          /\ forTimer' \in [Regs -> [Attr -> Timer \cup {NoTimer}]]
      BY <1>1, <1>2 DEF TypeOK
    <2>2. QED
      BY <2>1, <1>1, ValueStep
  <1>4. \A b \in Attr : /\ value'[b] = IF b = a THEN new ELSE value[b]
                        /\ since'[b] = IF b = a THEN now ELSE since[b]
                        /\ returned'[b] = IF b = a THEN now ELSE returned[b]
    BY <1>1, <1>2 DEF TypeOK
  <1>5. AllMatched'
    <2>1. SUFFICES ASSUME NEW g \in Regs, NEW b \in Attr, forTimer[g][b] # NoTimer
                   PROVE  Matched(g, b)'
      BY <1>1 DEF AllMatched, Matched
    <2>2. Matched(g, b) /\ forTimer[g][b].due \in Nat
      BY <2>1, <1>2, TimerIsNotNone DEF IInv, AllMatched, TypeOK
    <2>3. CASE b # a
      BY <2>2, <2>3, <1>1, <1>2, <1>4 DEF Matched
    <2>4. CASE b = a
      <3> DEFINE x == Watches[forTimer[g][b].watch]
      <3>1. x.for \in Nat
        BY <2>1, <2>2, WatchFields DEF Matched
      <3>2. now + x.for <= forTimer[g][b].due \/ now + x.for > forTimer[g][b].due
        BY <3>1, <2>2, <1>2
      <3>3. since'[b] = now /\ returned'[b] = now
        BY <2>4, <1>4
      <3>4. QED
        BY <3>2, <3>3, <2>2, <1>1, <1>2 DEF Matched
    <2>5. QED
      BY <2>3, <2>4
  <1>6. OwedIsPresent'
    <2>1. \A b \in Attr : value'[b] = Absent => value[b] = Absent
      BY <1>4, WatchesAssumption
    <2>2. QED
      BY <2>1, <1>1, WatchFields DEF IInv, OwedIsPresent
  <1>7. NoTimerLeft' /\ TimersAttached' /\ Fresh'
    BY <1>1, <1>2 DEF IInv, NoTimerLeft, TimersAttached, Attached, Fresh, Unmade
  <1>8. HeldIsTimed'
    <2>1. \A w \in Watch : owed[w].due # None => value'[Watches[w].attr] = value[Watches[w].attr]
      BY <1>1, <1>2, <1>4, WatchFields, OwedProperties DEF IInv, OwedIsPresent
    <2>2. QED
      BY <2>1, <1>1, <1>2 DEF IInv, HeldIsTimed
  <1>9. QED
    BY <1>3, <1>5, <1>6, <1>7, <1>8 DEF IInv

LEMMA DeviceUpdateKeeps ==
  ASSUME IInv, NEW a \in Attr, NEW new \in Values, DeviceUpdate(a, new)
  PROVE  IInv'
  <1>0. PICK W : W = Matching(a, value[a], new)
    OBVIOUS
  <1>1. /\ value[a] \notin {Absent, new}
        /\ forTimer' = [g \in Regs |->
             IF Told(g) /\ W # {} THEN [forTimer[g] EXCEPT ![a] = Timed(g, a, new, W)]
             ELSE forTimer[g]]
        /\ owed' = [w \in Watch |->
             IF Watches[w].attr # a THEN owed[w]
             ELSE IF w \in W /\ Told(current)
                  THEN [due |-> now + Watches[w].for, reg |-> current] ELSE NotOwed]
        /\ value' = [value EXCEPT ![a] = new] /\ since' = [since EXCEPT ![a] = now]
        /\ UNCHANGED <<clock, row, sunTimer, returned, fired>>
    BY <1>0 DEF DeviceUpdate
  <1>2. /\ TypeOK /\ UNCHANGED <<now, midnight, made, current, index, overlap>>
        /\ now \in Nat /\ now \in 0 .. MaxTime
    BY <1>1, BoundsAssumption DEF IInv, clock, row, TypeOK
  <1>3. /\ W \subseteq Watch
        /\ \A w \in Watch : w \in W <=>
             /\ Watches[w].attr = a
             /\ Watches[w].from = Any \/ Watches[w].from = value[a]
             /\ Watches[w].to = Any \/ Watches[w].to = new
    BY <1>0, <1>1, MatchingProperties
  <1>4. W # {} => \A g : LET tm == Timed(g, a, new, W) IN
          /\ tm \in Timer /\ tm.due = now + Watches[tm.watch].for /\ tm.due >= now
          /\ tm.watch = Last(W) /\ Last(W) \in W /\ tm.val = new
    BY <1>2, <1>3, TimedProperties
  <1>5. \A g \in Regs, b \in Attr :
          forTimer'[g][b] = IF Told(g) /\ W # {} /\ b = a THEN Timed(g, a, new, W) ELSE forTimer[g][b]
    BY <1>1, <1>2 DEF TypeOK
  <1>6. \A b \in Attr : /\ value'[b] = IF b = a THEN new ELSE value[b]
                        /\ since'[b] = IF b = a THEN now ELSE since[b]
    BY <1>1, <1>2 DEF TypeOK
  <1>7. TypeOK' /\ OneEach' /\ OneAtATime'
    <2>1. forTimer' \in [Regs -> [Attr -> Timer \cup {NoTimer}]]
      <3>1. \A g \in Regs : forTimer'[g] \in [Attr -> Timer \cup {NoTimer}]
        BY <1>1, <1>2, <1>4 DEF TypeOK
      <3>2. QED
        BY <3>1, <1>1
    <2>2. owed' \in [Watch -> [due : Nat, reg : Regs] \cup {NotOwed}]
      <3>1. \A w \in Watch : now + Watches[w].for \in Nat
        BY <1>2, WatchFields
      <3>2. Told(current) => current \in Regs
        BY <1>2 DEF TypeOK, Told
      <3>3. QED
        BY <3>1, <3>2, <1>1, <1>2 DEF TypeOK
    <2>3. \A g \in Regs, b \in Attr : forTimer'[g][b] = forTimer[g][b] \/ forTimer'[g][b].due >= now
      BY <1>4, <1>5
    <2>4. QED
      BY <2>1, <2>2, <2>3, <1>1, ValueStep
  <1>8. AllMatched'
    <2>1. SUFFICES ASSUME NEW g \in Regs, NEW b \in Attr, forTimer'[g][b] # NoTimer
                   PROVE  Matched(g, b)'
      BY DEF AllMatched, Matched
    <2>2. CASE Told(g) /\ W # {} /\ b = a
      <3> DEFINE tm == Timed(g, a, new, W)
      <3>1. forTimer'[g][b] = tm
        BY <2>2, <1>5
      <3>2. tm.watch \in W /\ tm.watch \in Watch /\ tm.val = new /\ tm.due = now + Watches[tm.watch].for
        BY <2>2, <1>3, <1>4
      <3> HIDE DEF tm
      <3>3. since'[b] + Watches[tm.watch].for <= tm.due
        BY <3>2, <2>2, <1>2, <1>6, WatchFields
      <3>4. QED
        BY <3>1, <3>2, <3>3, <2>2, <1>1, <1>2, <1>3 DEF Matched
    <2>3. CASE ~(Told(g) /\ W # {} /\ b = a)
      <3>1. forTimer'[g][b] = forTimer[g][b] /\ Matched(g, b)
        BY <2>3, <1>5 DEF IInv, AllMatched
      <3>2. CASE b # a
        BY <3>1, <3>2, <1>1, <1>2, <1>6 DEF Matched
      <3>3. CASE b = a
        <4>1. g \in index => W = {}
          <5>1. forTimer[g] # NoFor
            BY <2>1, <3>1 DEF NoFor
          <5>2. QED
            BY <5>1, <2>3, <3>3 DEF IInv, TimersAttached, Told
        <4>2. ASSUME g \in index, Watches[forTimer[g][b].watch].from = Any, value'[b] = forTimer[g][b].val
              PROVE  FALSE
          <5>1. forTimer[g][b].val = new /\ forTimer[g][b].watch \in Watch
            BY <4>2, <2>1, <3>1, <3>3, <1>6 DEF Matched
          <5>2. forTimer[g][b].watch \in W
            BY <5>1, <4>2, <2>1, <3>1, <3>3, <1>3 DEF Matched
          <5>3. QED
            BY <5>2, <4>1, <4>2
        <4>3. QED
          BY <4>2, <3>1, <1>1, <1>2 DEF Matched
      <3>4. QED
        BY <3>2, <3>3
    <2>4. QED
      BY <2>2, <2>3
  <1>9. OwedIsPresent'
    BY <1>1, <1>6, WatchFields, WatchesAssumption DEF IInv, OwedIsPresent
  <1>13. TimersAttached'
    BY <1>1, <1>2 DEF IInv, TimersAttached, Attached, Told, TypeOK
  <1>14. Fresh'
    <2>1. SUFFICES ASSUME NEW g \in Regs, g > made PROVE Unmade(g)'
      BY <1>2 DEF Fresh
    <2>2. Unmade(g)
      BY <2>1 DEF IInv, Fresh
    <2>3. ASSUME NEW w \in Watch PROVE owed'[w].reg # g
      <3>1. owed'[w] \in {owed[w], [due |-> now + Watches[w].for, reg |-> current], NotOwed}
        BY <1>1
      <3>2. NotOwed.reg # g
        BY NoneIsNoDay DEF NotOwed, Regs, None
      <3>3. QED
        BY <3>1, <3>2, <2>2 DEF Unmade
    <2>4. QED
      BY <2>2, <2>3, <1>1, <1>2 DEF Unmade, Told
  <1>10. NoTimerLeft'
    <2>1. SUFFICES ASSUME NEW g \in Regs \ {current}, ~overlap
                   PROVE  g \notin index /\ sunTimer'[g] = NoSun /\ forTimer'[g] = NoFor
      BY <1>2 DEF NoTimerLeft
    <2>2. g \notin index /\ sunTimer[g] = NoSun /\ forTimer[g] = NoFor
      BY <2>1 DEF IInv, NoTimerLeft
    <2>3. QED
      BY <2>2, <1>1 DEF Told
  <1>11. HeldIsTimed'
    <2>1. SUFFICES ASSUME NEW w \in Watch, owed'[w].due # None, owed'[w].reg = current,
                          \A v \in Watch \ {w} : Watches[v].attr # Watches[w].attr
                   PROVE  forTimer'[current][Watches[w].attr]
                            = [due |-> owed'[w].due, watch |-> w, val |-> value'[Watches[w].attr]]
      BY <1>2 DEF HeldIsTimed
    <2>2. current \in Regs /\ Watches[w].attr \in Attr
      BY <2>1, <1>2, <1>7, WatchFields DEF TypeOK, NotOwed
    <2>3. CASE Watches[w].attr # a
      <3>1. owed'[w] = owed[w] /\ value'[Watches[w].attr] = value[Watches[w].attr]
        BY <2>2, <2>3, <1>1, <1>6
      <3>2. forTimer'[current][Watches[w].attr] = forTimer[current][Watches[w].attr]
        BY <2>2, <2>3, <1>5
      <3>3. QED
        BY <3>1, <3>2, <2>1 DEF IInv, HeldIsTimed
    <2>4. CASE Watches[w].attr = a
      <3>1. w \in W /\ Told(current) /\ owed'[w].due = now + Watches[w].for
        BY <2>1, <2>4, <1>1 DEF NotOwed
      <3>2. \A v \in W : v = w
        BY <2>1, <2>4, <1>3
      <3>3. Last(W) = w
        BY <3>1, <3>2, <1>4
      <3>4. forTimer'[current][a] = Timed(current, a, new, W)
        BY <3>1, <2>2, <2>4, <1>5
      <3>5. QED
        BY <3>1, <3>3, <3>4, <2>2, <2>4, <1>6 DEF Timed
    <2>5. QED
      BY <2>3, <2>4
  <1>12. QED
    BY <1>7, <1>8, <1>9, <1>10, <1>11, <1>13, <1>14 DEF IInv

LEMMA ForEndsKeeps ==
  ASSUME IInv, NEW g \in Regs, NEW a \in Attr, ForEnds(g, a)
  PROVE  IInv'
  <1>1. PICK w : w = forTimer[g][a].watch
    OBVIOUS
  <1>2. /\ forTimer[g][a].due = now
        /\ forTimer' = [forTimer EXCEPT ![g][a] = NoTimer]
        /\ fired' = (IF Holds(g, a) THEN [fired EXCEPT ![w] = now] ELSE fired)
        /\ owed' = (IF g = owed[w].reg THEN [owed EXCEPT ![w] = NotOwed] ELSE owed)
        /\ UNCHANGED <<now, located, coords, loading, midnight, enabled, calls, made, current, index,
                       overlap, sunTimer, value, since, returned>>
    BY <1>1 DEF ForEnds, ForDue, clock, row, store
  <1>3. TypeOK /\ now \in Nat /\ now \in 0 .. now
    BY BoundsAssumption DEF IInv, TypeOK
  <1>4. forTimer[g][a] # NoTimer /\ w \in Watch /\ Watches[w].attr = a
    <2>1. forTimer[g][a] # NoTimer
      BY <1>2, <1>3, TimerIsNotNone, NoneIsNoDay
    <2>2. QED
      BY <2>1, <1>1 DEF IInv, AllMatched, Matched
  <1>5. \A h \in Regs, b \in Attr :
          forTimer'[h][b] = IF h = g /\ b = a THEN NoTimer ELSE forTimer[h][b]
    BY <1>2, <1>3 DEF TypeOK
  <1>6. forTimer' \in [Regs -> [Attr -> Timer \cup {NoTimer}]]
    BY <1>2, <1>3 DEF TypeOK
  <1>7. TypeOK'
    <2>1. fired' \in [Watch -> {None} \cup 0 .. now] /\ owed' \in [Watch -> [due : Nat, reg : Regs] \cup {NotOwed}]
      BY <1>2, <1>3, <1>4 DEF TypeOK
    <2>2. \A h \in Regs, b \in Attr : forTimer'[h][b] # NoTimer => forTimer'[h][b].due >= now
      BY <1>5, <1>3 DEF TypeOK
    <2>3. QED
      BY <2>1, <2>2, <1>2, <1>3, <1>6 DEF TypeOK
  <1>8. OneEach' /\ OneAtATime'
    BY <1>2 DEF IInv, OneEach, Over, OneAtATime
  <1>9. AllMatched'
    BY <1>2, <1>5 DEF IInv, AllMatched, Matched
  <1>10. \A v \in Watch : owed'[v] = owed[v] \/ owed'[v] = NotOwed
    BY <1>2, <1>3, <1>4 DEF TypeOK
  <1>11. OwedIsPresent'
    BY <1>2, <1>10 DEF IInv, OwedIsPresent
  <1>15. TimersAttached' /\ Fresh'
    <2>1. \A h \in Regs : forTimer[h] = NoFor => forTimer'[h] = NoFor
      BY <1>2, <1>3 DEF TypeOK, NoFor
    <2>2. \A v \in Watch, h \in Regs : owed'[v].reg = h => owed[v].reg = h
      BY <1>10, NoneIsNoDay DEF NotOwed, Regs, None
    <2>3. TimersAttached'
      BY <2>1, <1>2, <1>3 DEF IInv, TimersAttached, Attached, TypeOK
    <2>4. QED
      BY <2>1, <2>2, <2>3, <1>2 DEF IInv, Fresh, Unmade
  <1>12. NoTimerLeft'
    <2>1. \A h \in Regs : forTimer[h] = NoFor => forTimer'[h] = NoFor
      BY <1>2, <1>3 DEF TypeOK, NoFor
    <2>2. QED
      BY <2>1, <1>2 DEF IInv, NoTimerLeft
  <1>13. HeldIsTimed'
    <2>1. SUFFICES ASSUME NEW v \in Watch, owed'[v].due # None, owed'[v].reg = current,
                          \A u \in Watch \ {v} : Watches[u].attr # Watches[v].attr
                   PROVE  forTimer'[current][Watches[v].attr]
                            = [due |-> owed'[v].due, watch |-> v, val |-> value[Watches[v].attr]]
      BY <1>2 DEF HeldIsTimed
    <2>3. owed'[v] = owed[v]
      BY <2>1, <1>10 DEF NotOwed
    <2>2. current \in Regs /\ Watches[v].attr \in Attr
      BY <2>1, <2>3, <1>3, WatchFields, OwedProperties
    <2>4. forTimer[current][Watches[v].attr]
            = [due |-> owed[v].due, watch |-> v, val |-> value[Watches[v].attr]]
      BY <2>1, <2>3 DEF IInv, HeldIsTimed
    <2>5. ~(current = g /\ Watches[v].attr = a)
      <3>1. SUFFICES ASSUME current = g, Watches[v].attr = a PROVE FALSE
        OBVIOUS
      <3>2. w = v
        BY <3>1, <2>4, <1>1
      <3>3. owed'[v] = NotOwed
        BY <3>1, <3>2, <2>1, <2>3, <1>2, <1>3, <1>4 DEF TypeOK
      <3>4. QED
        BY <3>3, <2>1 DEF NotOwed
    <2>6. QED
      BY <2>2, <2>3, <2>4, <2>5, <1>5
  <1>14. QED
    BY <1>7, <1>8, <1>9, <1>11, <1>12, <1>13, <1>15 DEF IInv

-----------------------------------------------------------------------------
(* The invariant holds.                                                    *)

LEMMA InitIInv == Init => IInv
  <1>1. SUFFICES ASSUME Init PROVE IInv
    OBVIOUS
  <1>2. 0 \in 0 .. MaxTime /\ 0 \in 0 .. MaxReloads + 1 /\ 0 \in 0 .. 0
    BY BoundsAssumption
  <1>3. /\ sunTimer \in [Regs -> [Sun -> Days \cup {None}]]
        /\ forTimer \in [Regs -> [Attr -> Timer \cup {NoTimer}]]
        /\ \A g \in Regs : sunTimer[g] = NoSun /\ forTimer[g] = NoFor
        /\ \A g \in Regs, t \in Sun : sunTimer[g][t] = None
        /\ \A g \in Regs, a \in Attr : forTimer[g][a] = NoTimer
    BY <1>1 DEF Init, NoSun, NoFor
  <1>4. \A w \in Watch : owed[w] = NotOwed /\ owed[w].due = None /\ owed[w].reg = None
    BY <1>1 DEF Init, NotOwed
  <1>5. TypeOK
    BY <1>1, <1>2, <1>3 DEF Init, TypeOK
  <1>6. OneEach
    <2>1. Over = {} /\ made = 0
      BY <1>1 DEF Init, Over
    <2>2. QED
      BY <2>1, FS_EmptySet DEF OneEach
  <1>7. OneAtATime
    BY <1>1 DEF Init, OneAtATime
  <1>8. AllMatched /\ NoTimerLeft
    BY <1>1, <1>3 DEF Init, AllMatched, Matched, NoTimerLeft
  <1>9. OwedIsPresent /\ HeldIsTimed
    BY <1>4 DEF OwedIsPresent, HeldIsTimed
  <1>11. TimersAttached /\ Fresh
    BY <1>1, <1>3, <1>4, NoneIsNoDay DEF Init, TimersAttached, Fresh, Unmade, Regs, None
  <1>10. QED
    BY <1>5, <1>6, <1>7, <1>8, <1>9, <1>11 DEF IInv

LEMMA StutterKeeps == IInv /\ UNCHANGED vars => IInv'
  <1>1. SUFFICES ASSUME IInv, UNCHANGED vars PROVE IInv'
    OBVIOUS
  <1>2. /\ now' = now /\ loading' = loading /\ coords' = coords
        /\ enabled' = enabled /\ located' = located /\ midnight' = midnight /\ sunTimer' = sunTimer
        /\ UNCHANGED <<calls, made, current, index, overlap, forTimer, device>>
    BY <1>1 DEF vars, clock, row
  <1>3. QED
    BY <1>1, <1>2, SunStep DEF IInv, TypeOK

LEMMA NextIInv == IInv /\ [Next]_vars => IInv'
  <1>1. SUFFICES ASSUME IInv, [Next]_vars PROVE IInv'
    OBVIOUS
  <1>2. CASE Tick \/ Midnight \/ CoordinatesLoaded \/ Edit \/ Start \/ Stop
    BY <1>1, <1>2, TickKeeps, MidnightKeeps, CoordinatesLoadedKeeps, EditKeeps, StartKeeps, StopKeeps
  <1>3. ASSUME NEW p \in Calls, Reload(p) \/ Loaded(p) PROVE IInv'
    BY <1>1, <1>3, ReloadKeeps, LoadedKeeps
  <1>4. ASSUME NEW g \in Regs, NEW t \in Sun, SunFires(g, t) PROVE IInv'
    BY <1>1, <1>4, SunFiresKeeps
  <1>5. ASSUME NEW g \in Regs, NEW a \in Attr, ForEnds(g, a) PROVE IInv'
    BY <1>1, <1>5, ForEndsKeeps
  <1>6. ASSUME NEW a \in Attr, Remove(a) PROVE IInv'
    BY <1>1, <1>6, RemoveKeeps
  <1>7. ASSUME NEW a \in Attr, NEW v \in Values, DeviceUpdate(a, v) \/ Return(a, v) PROVE IInv'
    BY <1>1, <1>7, DeviceUpdateKeeps, ReturnKeeps
  <1>8. CASE UNCHANGED vars
    BY <1>1, <1>8, StutterKeeps
  <1>9. QED
    BY <1>1, <1>2, <1>3, <1>4, <1>5, <1>6, <1>7, <1>8 DEF Next

LEMMA Invariance == Spec => []IInv
  BY InitIInv, NextIInv, PTL DEF Spec

-----------------------------------------------------------------------------
\* Every variable keeps its type and no timer is overdue, whatever the targets, the
\* durations and the length of a day (registerSunTrigger, handleDeviceUpdate).
THEOREM TypeCorrect == Spec => []TypeOK
  <1>1. IInv => TypeOK
    BY DEF IInv
  <1>2. QED
    BY <1>1, Invariance, PTL

\* As long as no two loads overlap and no load precedes the engine's start, no timer and no
\* index entry outlives its registration, for any number of reloads and a stop at any point
\* (start, reload, stop, register, teardown).
THEOREM NothingOutlives == Spec => []NoTimerLeft
  <1>1. IInv => NoTimerLeft
    BY DEF IInv
  <1>2. QED
    BY <1>1, Invariance, PTL

\* As long as its registration is in force, a trigger that is alone on its attribute and has
\* matched in it keeps the timer of that match while its value is held (handleDeviceUpdate).
THEOREM HeldKeepsTimer == Spec => []HeldIsTimed
  <1>1. IInv => HeldIsTimed
    BY DEF IInv
  <1>2. QED
    BY <1>1, Invariance, PTL

LEMMA FiringStep ==
  ASSUME IInv, Next, NEW w \in Watch, fired'[w] # fired[w], Watches[w].from = Any,
         \A g \in Regs \ index : forTimer'[g] = forTimer[g]
  PROVE  LET x == Watches[w] IN
         since[x.attr] + x.for <= now \/ returned[x.attr] + x.for > now
  <1>1. PICK g \in Regs, a \in Attr : ForEnds(g, a)
    <2>1. fired' # fired
      OBVIOUS
    <2>2. ~Tick /\ ~Midnight /\ ~CoordinatesLoaded /\ ~Edit /\ ~Start /\ ~Stop
      BY <2>1 DEF Tick, Midnight, CoordinatesLoaded, Edit, Start, Stop, device
    <2>3. \A p \in Calls : ~Reload(p) /\ ~Loaded(p)
      BY <2>1 DEF Reload, Loaded, device
    <2>4. \A g \in Regs, t \in Sun : ~SunFires(g, t)
      BY <2>1 DEF SunFires, device
    <2>5. \A a \in Attr : ~Remove(a) /\ \A v \in Values : ~DeviceUpdate(a, v) /\ ~Return(a, v)
      BY <2>1 DEF Remove, DeviceUpdate, Return
    <2>6. QED
      BY <2>2, <2>3, <2>4, <2>5 DEF Next
  <1>2. /\ forTimer[g][a].due = now /\ now \in Nat /\ TypeOK
        /\ fired' = IF Holds(g, a) THEN [fired EXCEPT ![forTimer[g][a].watch] = now] ELSE fired
    BY <1>1, BoundsAssumption DEF ForEnds, ForDue, IInv, TypeOK
  <1>3. Holds(g, a) /\ forTimer[g][a].watch = w
    BY <1>2 DEF TypeOK
  <1>4. forTimer[g][a] # NoTimer
    BY <1>2, TimerIsNotNone, NoneIsNoDay
  <1>5. Matched(g, a)
    BY DEF IInv, AllMatched
  <1>6. g \in index
    <2>1. forTimer' = [forTimer EXCEPT ![g][a] = NoTimer]
      BY <1>1 DEF ForEnds
    <2>2. forTimer'[g] # forTimer[g]
      BY <2>1, <1>2, <1>4 DEF TypeOK
    <2>3. QED
      BY <2>2
  <1>7. QED
    BY <1>2, <1>3, <1>4, <1>5, <1>6 DEF Matched, Holds

\* A for trigger without a from constraint fires only for a value that has been held for
\* its full duration, unless its device was away in that time or the registration has lost
\* its place in the index (handleDeviceUpdate).
THEOREM FiringWasHeld == Spec => FiredWasHeld
  <1>1. IInv /\ [Next]_vars =>
          [\A w \in Watch :
             LET x == Watches[w] IN
             fired'[w] # fired[w] /\ x.from = Any /\ (\A g \in Regs \ index : forTimer'[g] = forTimer[g])
               => since[x.attr] + x.for <= now \/ returned[x.attr] + x.for > now]_vars
    BY FiringStep
  <1>2. QED
    BY <1>1, Invariance, PTL DEF Spec, FiredWasHeld
=============================================================================
