----------------------------- MODULE JobBuffer -----------------------------
(***************************************************************************)
(* What every in-memory scheduler promises, whatever its policy: it holds  *)
(* the jobs it accepted and no others, gives each of them back exactly     *)
(* once, and says "full" only when it is.                                  *)
(***************************************************************************)
EXTENDS Naturals

CONSTANTS
    Job,        \* the jobs that may be offered
    Refusals    \* answers of an enqueue that takes nothing

VARIABLES
    limit,    \* how many jobs the buffer holds at most
    size,     \* how many it holds
    held,     \* how often it holds each job: equal jobs may wait together
    answer    \* what the last call returned

vars == <<limit, size, held, answer>>

Init ==
    /\ limit \in Nat \ {0}
    /\ size = 0
    /\ held = [job \in Job |-> 0]
    /\ answer = [status |-> "none"]

Accept(job) ==
    /\ size < limit
    /\ size' = size + 1
    /\ held' = [held EXCEPT ![job] = @ + 1]
    /\ answer' = [status |-> "accepted"]

Refuse(why) ==
    /\ why = "rejected_full" => size = limit
    /\ answer' = [status |-> why]
    /\ UNCHANGED <<size, held>>

(* The caller is given one of the jobs held.                               *)
Release(job) ==
    /\ held[job] > 0
    /\ size' = size - 1
    /\ held' = [held EXCEPT ![job] = @ - 1]
    /\ answer' = [status |-> "dequeued", job |-> job]

Next ==
    /\ UNCHANGED limit
    /\ \/ \E job \in Job : Accept(job) \/ Release(job)
       \/ \E why \in Refusals : Refuse(why)

Spec == Init /\ [][Next]_vars
=============================================================================
