---------------------------- MODULE MCTaskQueue ----------------------------
(***************************************************************************)
(* TaskQueue on small instances.  Tasks are interchangeable; the safety    *)
(* runs use that.                                                          *)
(***************************************************************************)
EXTENDS TaskQueue, TLC

Symmetry == Permutations(Tasks)

=============================================================================
