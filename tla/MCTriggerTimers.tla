-------------------------- MODULE MCTriggerTimers --------------------------
(***************************************************************************)
(* A small instance of TriggerTimers: three ticks to a day, a sun trigger  *)
(* that comes one tick into the day, a trigger on one attribute that holds *)
(* a value for two ticks, and two triggers that share another attribute,   *)
(* one with a from constraint, the other without any.                      *)
(***************************************************************************)
EXTENDS TriggerTimers

CONSTANTS sunset, a1, a2, on, off

TargetOf == [t \in {sunset} |-> [d \in Days |-> 3 * d + 1]]
Single == [attr |-> a1, from |-> Any, to |-> on, for |-> 2]
FromOff == [attr |-> a2, from |-> off, to |-> Any, for |-> 2]
Changes == [attr |-> a2, from |-> Any, to |-> Any, for |-> 1]
WatchesOf == <<Single, FromOff, Changes>>

\* A behaviour is about the sun trigger or about one of the two attributes, which share
\* nothing but the registration, and every attribute starts with the same value.
OneKind ==
  /\ \A a \in Attr : since[a] = 0 => value[a] = off
  /\ IF located THEN \A a \in Attr : since[a] = 0 ELSE \E a \in Attr : since[a] = 0
=============================================================================
