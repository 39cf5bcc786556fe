----------------------------- MODULE MCPipeline -----------------------------
(***************************************************************************)
(* Pipeline for TLC.  Workers and jobs are interchangeable in the safety   *)
(* run.                                                                    *)
(***************************************************************************)
EXTENDS Pipeline, TLC

PipelineSymmetry == Permutations(Workers) \cup Permutations(Jobs)
=============================================================================
