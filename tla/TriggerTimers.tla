--------------------------- MODULE TriggerTimers ---------------------------
(***************************************************************************)
(* The timers behind one automation's triggers: a timer per sun trigger,   *)
(* set for the next sunrise or sunset and recalculated every midnight, and *)
(* a timer per watched attribute for triggers with a `for' duration.  They *)
(* belong to a registration of the automation; a reload tears one down,    *)
(* reads the row and makes the next, and two reloads may overlap.  They    *)
(* also come before the engine has started and after it has stopped.       *)
(*                                                                         *)
(* Time is counted in ticks, with Day of them to a day.  A tick passes     *)
(* only when no timer is due: timers are late by less than a tick, and     *)
(* what happens in a tick happens in any order.                            *)
(*                                                                         *)
(* Which runs the triggers start is AutomationEngine's matter; here a      *)
(* trigger fires.  Triggers without a duration fire at once and have no    *)
(* timer.                                                                  *)
(***************************************************************************)
EXTENDS Integers, FiniteSets, Sequences

CONSTANTS
  Sun,        \* the sun triggers
  Target,     \* Target[t][d]: when t is due on day d, offset included
  Watches,    \* the device triggers in order, records [attr, from, to, for]
  Attr,       \* watched attributes, each of a device of its own
  Values,     \* values of an attribute
  Any,        \* no from, or no to, constraint
  Absent,     \* value of an attribute whose device is not in the state store
  Day,        \* ticks in a day
  MaxTime,    \* bound: the last tick
  MaxReloads  \* bound: reloads of the automation

Days == 0 .. MaxTime \div Day + 1
Watch == DOMAIN Watches
Calls == 0 .. MaxReloads           \* call 0 is start()
Regs == 1 .. MaxReloads + 1        \* registrations
None == -1

ASSUME BoundsAssumption == Day \in Nat \ {0} /\ MaxTime \in Nat /\ MaxReloads \in Nat
ASSUME SunAssumption == IsFiniteSet(Sun)
ASSUME TargetAssumption == Target \in [Sun -> [Days -> Int]]
ASSUME WatchesAssumption ==
  /\ Watches \in Seq([attr : Attr, from : Values \cup {Any}, to : Values \cup {Any}, for : Nat \ {0}])
  /\ Any \notin Values /\ Absent \notin Values

VARIABLES
  now,
  located,   \* setting home_location has a place in it
  coords,    \* this.homeCoords: "undefined", "null" or "known"
  loading,   \* how many queries loadHomeCoordinates is waiting for
  midnight,  \* when the midnight timer is due, or None
  enabled,   \* the automation's row is enabled
  calls,     \* of each reload: "idle", "loading", "done"
  made,      \* how many registrations were made
  current,   \* the one in this.runtimes, or None
  index,     \* those in this.deviceIndex
  sunTimer,  \* sunTimer[g][t]: the day whose target g's timer for t waits for, or None
  forTimer,  \* forTimer[g][a]: [due, watch, val], or NoTimer
  value,     \* the state store
  \* history, read by no guard
  overlap,   \* two loads were under way together, or start() found a registration
  since,     \* when each attribute took its value
  returned,  \* when its device last came back after a removal, or None
  owed,      \* owed[w]: when w is due if its value holds, and by which registration
  fired      \* fired[w]: when w has last fired after its duration, or None

clock == <<now, located, coords, loading, midnight>>
row == <<enabled, calls, made, current, index, overlap>>
store == <<value, since, returned>>
device == <<store, owed, fired>>
vars == <<clock, row, sunTimer, forTimer, device>>

NoTimer == [due |-> None, watch |-> None, val |-> Absent]
NoSun == [t \in Sun |-> None]
NoFor == [a \in Attr |-> NoTimer]
NotOwed == [due |-> None, reg |-> None]

\* The listener of device updates, which start() and stop() set and clear together with
\* the midnight timer.
Attached == midnight # None

Init ==
  /\ now = 0 /\ located \in BOOLEAN /\ coords = "undefined" /\ loading = 0
  /\ midnight = None /\ enabled \in BOOLEAN
  /\ calls = [p \in Calls |-> "idle"]
  /\ made = 0 /\ current = None /\ index = {} /\ overlap = FALSE
  /\ sunTimer = [g \in Regs |-> NoSun] /\ forTimer = [g \in Regs |-> NoFor]
  /\ value \in [Attr -> Values] /\ since = [a \in Attr |-> 0]
  /\ returned = [a \in Attr |-> None]
  /\ owed = [w \in Watch |-> NotOwed] /\ fired = [w \in Watch |-> None]
-----------------------------------------------------------------------------
\* The sun triggers.

Today == now \div Day

\* registerSunTrigger with known coordinates: today's target, or tomorrow's when that has
\* passed, if it is less than a day away.
NextDay(t) == IF Target[t][Today] <= now THEN Today + 1 ELSE Today
Armed(t) ==
  LET delay == Target[t][NextDay(t)] - now IN
  IF delay > 0 /\ delay < Day THEN NextDay(t) ELSE None

\* ... and without them nothing is set, and getHomeCoordinates starts a query each time.
RegisterSun(c) == IF c = "known" THEN [t \in Sun |-> Armed(t)] ELSE NoSun
Loads(c) == IF c = "undefined" THEN loading + Cardinality(Sun) ELSE loading

ThisMidnight == Today * Day  \* mutant

\* scheduleMidnightRecalc.
NextMidnight == (Today + 1) * Day

Midnight ==
  /\ midnight = now
  /\ coords' = "undefined" /\ midnight' = NextMidnight
  /\ IF current = None THEN UNCHANGED <<sunTimer, loading>>
     ELSE /\ sunTimer' = [sunTimer EXCEPT ![current] = RegisterSun(coords')]
          /\ loading' = Loads(coords')
  /\ UNCHANGED <<now, located, row, forTimer, device>>

\* loadHomeCoordinates; a query that fails leaves null.
CoordinatesLoaded ==
  /\ loading > 0 /\ loading' = loading - 1
  /\ coords' \in IF located THEN {"known", "null"} ELSE {"null"}
  /\ UNCHANGED <<now, located, midnight, row, sunTimer, forTimer, device>>

SunDue(g, t) == sunTimer[g][t] # None /\ Target[t][sunTimer[g][t]] = now

SunFires(g, t) ==
  /\ SunDue(g, t)
  /\ sunTimer' = [sunTimer EXCEPT ![g][t] = None]
  /\ UNCHANGED <<clock, row, forTimer, device>>
-----------------------------------------------------------------------------
\* The device triggers.

Matches(w, old, new) ==
  LET x == Watches[w] IN
  old # new /\ (x.from = Any \/ x.from = old) /\ (x.to = Any \/ x.to = new)

Matching(a, old, new) == {w \in Watch : Watches[w].attr = a /\ Matches(w, old, new)}

Last(W) == CHOOSE w \in W : \A v \in W : v <= w

KeepsFirst(g, a, new, W) ==  \* mutant
  IF forTimer[g][a] # NoTimer THEN forTimer[g][a]
  ELSE [due |-> now + Watches[Last(W)].for, watch |-> Last(W), val |-> new]

\* A match replaces the timer under the attribute's key, of whichever trigger it is; of
\* several matches the last remains.
Timed(g, a, new, W) ==
  [due |-> now + Watches[Last(W)].for, watch |-> Last(W), val |-> new]

\* handleDeviceUpdate, from the state store's update of a device it has.
Told(g) == Attached /\ g \in index
DeviceUpdate(a, new) ==
  /\ value[a] \notin {Absent, new}
  /\ LET W == Matching(a, value[a], new) IN
     /\ forTimer' = [g \in Regs |->
          IF Told(g) /\ W # {} THEN [forTimer[g] EXCEPT ![a] = Timed(g, a, new, W)]
          ELSE forTimer[g]]
     /\ owed' = [w \in Watch |->
          IF Watches[w].attr # a THEN owed[w]
          ELSE IF w \in W /\ Told(current)
               THEN [due |-> now + Watches[w].for, reg |-> current] ELSE NotOwed]
  /\ value' = [value EXCEPT ![a] = new] /\ since' = [since EXCEPT ![a] = now]
  /\ UNCHANGED <<clock, row, sunTimer, returned, fired>>

\* A device leaves the store, which the engine is not told, ...
Remove(a) ==
  /\ value[a] # Absent
  /\ value' = [value EXCEPT ![a] = Absent] /\ since' = [since EXCEPT ![a] = now]
  /\ owed' = [w \in Watch |-> IF Watches[w].attr = a THEN NotOwed ELSE owed[w]]
  /\ UNCHANGED <<clock, row, sunTimer, forTimer, returned, fired>>

\* ... and comes back in an update without a previous state, which matches nothing.
Return(a, new) ==
  /\ value[a] = Absent
  /\ value' = [value EXCEPT ![a] = new] /\ since' = [since EXCEPT ![a] = now]
  /\ returned' = [returned EXCEPT ![a] = now]
  /\ UNCHANGED <<clock, row, sunTimer, forTimer, owed, fired>>

ForDue(g, a) == forTimer[g][a].due = now

Unchecked(g, a) == TRUE  \* mutant
Holds(g, a) == value[a] = forTimer[g][a].val

\* The end of a for timer: the trigger fires if the value is the one it was set for.
ForEnds(g, a) ==
  /\ ForDue(g, a)
  /\ forTimer' = [forTimer EXCEPT ![g][a] = NoTimer]
  /\ LET w == forTimer[g][a].watch IN
     /\ fired' = IF Holds(g, a) THEN [fired EXCEPT ![w] = now] ELSE fired
     /\ owed' = IF g = owed[w].reg THEN [owed EXCEPT ![w] = NotOwed] ELSE owed
  /\ UNCHANGED <<clock, row, sunTimer, store>>
-----------------------------------------------------------------------------
\* Registration.

Edit ==
  /\ enabled' = ~enabled
  /\ UNCHANGED <<clock, calls, made, current, index, overlap, sunTimer, forTimer, device>>

KeepsFor(g) == UNCHANGED forTimer  \* mutant
ClearsFor(g) == forTimer' = [forTimer EXCEPT ![g] = NoFor]

\* teardown.
Teardown(g) == sunTimer' = [sunTimer EXCEPT ![g] = NoSun] /\ ClearsFor(g)

Reading == \E q \in Calls : calls[q] = "loading"

\* start() up to the read of the rows.  It tears down nothing of what a request loaded
\* before it.
Start ==
  /\ calls[0] = "idle" /\ calls' = [calls EXCEPT ![0] = "loading"]
  /\ overlap' = (overlap \/ Reading \/ current # None)
  /\ UNCHANGED <<clock, enabled, made, current, index, sunTimer, forTimer, device>>

\* reload up to the read: of this automation, or of all, which empties the index.
Reload(p) ==
  /\ p # 0 /\ calls[p] = "idle" /\ calls' = [calls EXCEPT ![p] = "loading"]
  /\ overlap' = (overlap \/ Reading)
  /\ IF current = None THEN UNCHANGED <<sunTimer, forTimer>> ELSE Teardown(current)
  /\ current' = None /\ index' \in {index \ {current}, {}}
  /\ UNCHANGED <<clock, enabled, made, device>>

\* stop, which the signal handlers call once start() has returned.  A reload under way, or
\* a later one, registers all the same.
Stop ==
  /\ calls[0] = "done"
  /\ IF current = None THEN UNCHANGED <<sunTimer, forTimer>> ELSE Teardown(current)
  /\ current' = None /\ index' = {} /\ midnight' = None
  /\ UNCHANGED <<now, located, coords, loading, enabled, calls, made, overlap, device>>

\* The row is there: register, and in start() the listener and the midnight timer.
Loaded(p) ==
  /\ calls[p] = "loading"
  /\ calls' = [calls EXCEPT ![p] = "done"]
  /\ IF enabled
     THEN /\ made' = made + 1 /\ current' = made' /\ index' = index \cup {made'}
          /\ sunTimer' = [sunTimer EXCEPT ![made'] = RegisterSun(coords)]
          /\ loading' = Loads(coords)
     ELSE UNCHANGED <<made, current, index, sunTimer, loading>>
  /\ midnight' = IF p = 0 THEN NextMidnight ELSE midnight
  /\ UNCHANGED <<now, located, coords, enabled, overlap, forTimer, device>>

Tick ==
  /\ now < MaxTime /\ now # midnight
  /\ \A g \in Regs : (\A t \in Sun : ~SunDue(g, t)) /\ (\A a \in Attr : ~ForDue(g, a))
  /\ now' = now + 1
  /\ UNCHANGED <<located, coords, loading, midnight, row, sunTimer, forTimer, device>>
-----------------------------------------------------------------------------
Next ==
  \/ Tick \/ Midnight \/ CoordinatesLoaded \/ Edit \/ Start \/ Stop
  \/ \E p \in Calls : Reload(p) \/ Loaded(p)
  \/ \E g \in Regs : (\E t \in Sun : SunFires(g, t)) \/ (\E a \in Attr : ForEnds(g, a))
  \/ \E a \in Attr : Remove(a) \/ \E v \in Values : DeviceUpdate(a, v) \/ Return(a, v)

Spec == Init /\ [][Next]_vars
-----------------------------------------------------------------------------
Timer == [due : Nat, watch : Watch, val : Values]

\* Every variable keeps its type, and no timer is overdue.
TypeOK ==
  /\ now \in 0 .. MaxTime /\ located \in BOOLEAN /\ loading \in Nat
  /\ coords \in {"undefined", "null", "known"}
  /\ midnight = None \/ midnight \in now .. now + Day
  /\ enabled \in BOOLEAN /\ calls \in [Calls -> {"idle", "loading", "done"}]
  /\ made \in 0 .. MaxReloads + 1 /\ current \in Regs \cup {None} /\ index \subseteq Regs
  /\ sunTimer \in [Regs -> [Sun -> Days \cup {None}]]
  /\ \A g \in Regs, t \in Sun : sunTimer[g][t] # None => Target[t][sunTimer[g][t]] >= now
  /\ forTimer \in [Regs -> [Attr -> Timer \cup {NoTimer}]]
  /\ \A g \in Regs, a \in Attr : forTimer[g][a] # NoTimer => forTimer[g][a].due >= now
  /\ value \in [Attr -> Values \cup {Absent}] /\ overlap \in BOOLEAN
  /\ since \in [Attr -> 0 .. now] /\ returned \in [Attr -> {None} \cup 0 .. now]
  /\ owed \in [Watch -> [due : Nat, reg : Regs] \cup {NotOwed}]
  /\ fired \in [Watch -> {None} \cup 0 .. now]

\* Only the registration in force has timers and is told of updates, so a trigger of an
\* edited, disabled or stopped automation does not fire.  Two loads that overlap register
\* twice, and so does start() after an early reload: the first registration then stays for
\* good (start, reload, stop, register, teardown).
NoTimerLeft ==
  \A g \in Regs \ {current} :
    g \in index \/ sunTimer[g] # NoSun \/ forTimer[g] # NoFor => overlap

\* "Duration the state must be held before firing" (automations.ts) is true of triggers
\* without a from constraint, while the device stays in the store: the value that lets the
\* trigger fire was entered a full duration ago, though leaving it cancels nothing and the
\* check at the end compares values only (handleDeviceUpdate).  Excused is a registration
\* that overlapping loads left behind and that a full reload or stop has made deaf.
FiredWasHeld ==
  [][\A w \in Watch :
       LET x == Watches[w] IN
       fired'[w] # fired[w] /\ x.from = Any /\ (\A g \in Regs \ index : forTimer'[g] = forTimer[g])
         => since[x.attr] + x.for <= now \/ returned[x.attr] + x.for > now]_vars

\* In the registration in force a state that is held after a match has its timer, until it
\* fires: no other update, of this attribute or another, takes the timer away or puts it
\* off, except a match of another trigger on the same attribute, which shares its key
\* (handleDeviceUpdate, the key).  A match lives no longer than its registration: a reload
\* or stop clears the timer though the state is still held, and nothing sets it again.
HeldIsTimed ==
  \A w \in Watch :
    LET x == Watches[w]
        o == owed[w] IN
    o.due # None /\ o.reg = current /\ (\A v \in Watch \ {w} : Watches[v].attr # x.attr) =>
      forTimer[current][x.attr] = [due |-> o.due, watch |-> w, val |-> value[x.attr]]

\* engine.ts, at the midnight timer: "Recalculate all sun triggers".  After it every sun
\* trigger of a registered automation has a timer for its target in the day that begins.
RecalculatesAll ==
  [][midnight = now /\ midnight' # midnight /\ current # None /\ coords = "known" =>
       \A t \in Sun : sunTimer'[current][t] = Armed(t)]_vars
=============================================================================
