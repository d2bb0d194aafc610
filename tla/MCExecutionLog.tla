--------------------------- MODULE MCExecutionLog ---------------------------
(***************************************************************************)
(* A small instance of ExecutionLog: two runs, each of an automation of    *)
(* its own, and a buffer that is full with three entries, so that a batch  *)
(* may hold both entries of a run, one of them, or one of each of two.     *)
(***************************************************************************)
EXTENDS ExecutionLog

CONSTANTS r1, r2, a1, a2

OwnerOf == [r \in Run |-> IF r = r1 THEN a1 ELSE a2]
=============================================================================
