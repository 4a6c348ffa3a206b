----------------------------- MODULE MCConsole -----------------------------
(* Five keys, four while the invoker opens a file, or few keys and a second   *)
(* thread that opens files beside the invoker.                                *)
EXTENDS Console

MCBudget(k, own, others) ==
  [keys |-> k, opens |-> [t \in Threads |-> IF t = Invoker THEN own ELSE others]]

MCBudgets == {MCBudget(5, 0, 0), MCBudget(4, 1, 0), MCBudget(2, 1, 1), MCBudget(1, 2, 1)}
============================================================================
