------------------------ MODULE MCAutomationReload ------------------------
(* One automation is created, edited, disabled and deleted, and everything
   reloaded, by two requests at once, one of them before start(), while its
   runs are under way.                                                      *)
EXTENDS AutomationEngine, TLC

CONSTANTS a, d, t1, t2

Delay == [type |-> "delay"]
MCAction == {Delay}

Row(mode, enabled, listens) ==
  [mode |-> mode, enabled |-> enabled, conditional |-> FALSE,
   scheduled |-> listens = <<>>, listens |-> listens, actions |-> <<Delay>>]

Old == Row("queued", TRUE, <<d>>)
New == Row("single", TRUE, <<>>)
Off == Row("queued", FALSE, <<d>>)
MCRows == {Old, New, Off}
MCStored == {[i \in {a} |-> Old]}
MCEdits == {a} \X (MCRows \cup {NoRow})
TaskSymmetry == Permutations({t1, t2})

\* What is left in an object nothing refers to does not tell states apart.
LiveView ==
  <<db, runtimes, [x \in RtIds |-> IF Unreferenced(x) THEN {} ELSE {rts[x]}],
    runs, stack, woken, tasks, listening, overlapped, unread>>
=============================================================================
