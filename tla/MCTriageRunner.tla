---------------------------- MODULE MCTriageRunner ----------------------------
(***************************************************************************)
(* TriageRunner for TLC: two loops, two attempts, a few faults.             *)
(***************************************************************************)
EXTENDS TriageRunner, TLC

\* Loops are interchangeable: no definition orders or names them.
LoopSymmetry == Permutations(Loops)
=============================================================================
