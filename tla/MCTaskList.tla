----------------------------- MODULE MCTaskList -----------------------------
(* An instance of TaskList for TLC. *)
EXTENDS TaskList, TLC

Symmetry == Permutations(Agents)
=============================================================================
