-------------------------- MODULE TaskExecutionMC --------------------------
(* A small instance of TaskExecution for TLC. *)
EXTENDS TaskExecution, TLC

(* A named artifact, a nameless one, and an output without parts. *)
SomeOutputs ==
    {[name |-> n, parts |-> TRUE] : n \in Names \cup {NoName}}
       \cup {[name |-> n, parts |-> FALSE] : n \in Names}

Symmetry == Permutations(Executions)
=============================================================================
