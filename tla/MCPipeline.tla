----------------------------- MODULE MCPipeline -----------------------------
(* Instances of Pipeline for TLC. *)
EXTENDS Pipeline, TLC

PipelineSymmetry ==
  Permutations(Sessions) \cup Permutations(Applications)
    \cup Permutations(Jobs) \cup Permutations(Candidates)
=============================================================================
