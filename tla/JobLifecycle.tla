---------------------------- MODULE JobLifecycle ----------------------------
(***************************************************************************)
(* What an observer may rely on of one job, whoever writes its row: it is  *)
(* handed to workers from the queue only, it comes (back) to the queue on  *)
(* its submission, from a scheduled retry or from the dead letters, and no *)
(* outcome is reported before a first run.  Anything else may be written   *)
(* over any state, since cancels, retries and results do not look at the   *)
(* state they overwrite.                                                   *)
(***************************************************************************)
EXTENDS Naturals

VARIABLES
    state,   \* the state of the row, "absent" before there is one
    runs     \* how often the job was dispatched

vars == <<state, runs>>

Init == state = "absent" /\ runs = 0

Submit ==
    /\ state = "absent"
    /\ state' = "queued"
    /\ UNCHANGED runs

Dispatch ==
    /\ state = "queued"
    /\ state' = "dispatched"
    /\ runs' = runs + 1

PutBack ==
    /\ state \in {"retry_scheduled", "dead_lettered"}
    /\ state' = "queued"
    /\ UNCHANGED runs

CancelOrRetry ==
    /\ state # "absent"
    /\ state' \in {"canceled", "retry_scheduled"}
    /\ UNCHANGED runs

Report ==
    /\ runs > 0
    /\ state # "absent"
    /\ state' \in {"succeeded", "failed", "retry_scheduled", "dead_lettered"}
    /\ UNCHANGED runs

Next == Submit \/ Dispatch \/ PutBack \/ CancelOrRetry \/ Report

Spec == Init /\ [][Next]_vars
=============================================================================
