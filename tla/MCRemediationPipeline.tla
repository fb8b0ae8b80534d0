------------------------ MODULE MCRemediationPipeline ------------------------
(* Instances of RemediationPipeline.tla: one required check of two. *)
EXTENDS RemediationPipeline, TLC

LoopSymmetry == Permutations(Loops)
=============================================================================
