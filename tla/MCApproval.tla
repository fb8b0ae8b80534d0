------------------------------ MODULE MCApproval ------------------------------
(* Instances of Approval.tla: the loops of one worker process. *)
EXTENDS Approval, TLC

OneProcess == [l \in Loops |-> "worker"]

LoopSymmetry == Permutations(Loops)
=============================================================================
