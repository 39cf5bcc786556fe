------------------------------ MODULE JobState ------------------------------
(***************************************************************************)
(* The job lifecycle of control_plane/kernelq/job_state.py: the states a   *)
(* job row may be in, the terminal ones, and the table of transitions that *)
(* the API consults before it writes.                                      *)
(***************************************************************************)

JobStates == {"created", "queued", "dispatched", "running", "succeeded",
              "failed", "retry_scheduled", "dead_lettered", "canceled"}

TerminalStates == {"succeeded", "dead_lettered", "canceled"}

AllowedTransitions ==
    [s \in JobStates |->
        CASE s = "created"         -> {"queued", "canceled"}
          [] s = "queued"          -> {"dispatched", "canceled"}
          [] s = "dispatched"      -> {"running", "queued"}
          [] s = "running"         -> {"succeeded", "failed", "canceled"}
          [] s = "retry_scheduled" -> {"queued", "canceled"}
          [] s = "failed"          -> {"retry_scheduled", "dead_lettered"}
          [] OTHER                 -> {}]

CanTransition(from, to) ==
    /\ from \notin TerminalStates
    /\ to \in AllowedTransitions[from]
=============================================================================
