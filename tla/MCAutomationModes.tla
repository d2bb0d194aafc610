------------------------- MODULE MCAutomationModes -------------------------
(* Two automations: in pairs of modes, the first watching one device with   *)
(* two triggers and calling the second; a single-mode one that changes the  *)
(* helper it listens to; and two disabled ones that call each other, which  *)
(* only run by hand.                                                        *)
EXTENDS AutomationEngine

CONSTANTS a, b, d, t1

Command == [type |-> "device_command"]
Helper  == [type |-> "helper_command", device |-> d]
Delay   == [type |-> "delay"]
CallA   == [type |-> "call_automation", target |-> a]
CallB   == [type |-> "call_automation", target |-> b]
Branch  == [type |-> "condition", then |-> <<Command>>, else |-> <<>>]
LogIt   == [type |-> "log"]

MCIds == {a, b}
MCDevices == {d}
MCAction == {Command, Helper, Delay, CallA, CallB, Branch, LogIt}

Row(mode, actions) ==
  [mode |-> mode, enabled |-> TRUE, conditional |-> FALSE,
   scheduled |-> FALSE, listens |-> <<>>, actions |-> actions]
RowA(mode) == [Row(mode, <<Branch, CallB>>) EXCEPT !.listens = <<d, d>>]
RowB(mode) == [Row(mode, <<Delay, LogIt>>) EXCEPT !.scheduled = TRUE,
                                                  !.conditional = TRUE]
Echo == [Row("single", <<Helper, Command>>) EXCEPT !.listens = <<d>>]
Off(action) == [Row("single", <<action>>) EXCEPT !.enabled = FALSE]

ModePairs == {<<"single", "queued">>, <<"queued", "queued">>,
              <<"restart", "restart">>, <<"parallel", "parallel">>,
              <<"queued", "parallel">>, <<"restart", "queued">>,
              <<"parallel", "single">>, <<"single", "restart">>}
Table(rowA, rowB) == [i \in MCIds |-> IF i = a THEN rowA ELSE rowB]
MCStored == {Table(RowA(p[1]), RowB(p[2])) : p \in ModePairs}
            \cup {Table(Echo, RowB("queued")), Table(Off(CallB), Off(CallA))}
MCRows == UNION {{t[a], t[b]} : t \in MCStored}
=============================================================================
