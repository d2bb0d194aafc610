------------------------- MODULE MCAutomationCalls -------------------------
(* Automation a calls b, in the modes whose callers wait; b calls nothing.  *)
EXTENDS AutomationEngine

CONSTANTS a, b, t1

Delay == [type |-> "delay"]
CallB == [type |-> "call_automation", target |-> b]
MCAction == {Delay, CallB}

Row(mode, actions) ==
  [mode |-> mode, enabled |-> TRUE, conditional |-> FALSE,
   scheduled |-> TRUE, listens |-> <<>>, actions |-> actions]

MCIds == {a, b}
ModePairs == {<<"queued", "queued">>, <<"restart", "queued">>,
              <<"queued", "restart">>}
Table(p) == [i \in MCIds |-> IF i = a THEN Row(p[1], <<Delay, CallB>>)
                                      ELSE Row(p[2], <<Delay>>)]
MCStored == {Table(p) : p \in ModePairs}
MCRows == UNION {{t[a], t[b]} : t \in MCStored}
=============================================================================
