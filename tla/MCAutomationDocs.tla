-------------------------- MODULE MCAutomationDocs --------------------------
(* Automations on which the engine and what is said of it disagree.         *)
EXTENDS AutomationEngine

CONSTANTS a, d, t1

Command  == [type |-> "device_command"]
Delay    == [type |-> "delay"]
CallSelf == [type |-> "call_automation", target |-> a]
MCAction == {Command, Delay, CallSelf}

Row(mode, listens, actions) ==
  [mode |-> mode, enabled |-> TRUE, conditional |-> FALSE,
   scheduled |-> FALSE, listens |-> listens, actions |-> actions]
Restarted == Row("restart", <<d>>, <<Command>>)
Recursive == Row("queued", <<d>>, <<Delay, CallSelf>>)

MCRows == {Restarted, Recursive}
RestartStored == {[i \in {a} |-> Restarted]}
SelfCallStored == {[i \in {a} |-> Recursive]}
=============================================================================
