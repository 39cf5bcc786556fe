----------------------------- MODULE MCJobStore -----------------------------
(***************************************************************************)
(* JobStore for TLC.  Jobs and processes are interchangeable in the safety *)
(* run.                                                                    *)
(***************************************************************************)
EXTENDS JobStore, TLC

StoreSymmetry ==
    Permutations(Jobs) \cup Permutations(Callers) \cup Permutations(Runners)
=============================================================================
