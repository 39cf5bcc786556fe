--------------------------- MODULE MCSchedulers ---------------------------
(***************************************************************************)
(* Schedulers for TLC.  Three tenants whose jobs are all alike show the    *)
(* turns; jobs that differ in every field the ranking looks at show the    *)
(* order within a lane; blank ids and unknown tenants show the admission.  *)
(***************************************************************************)
EXTENDS Schedulers

CONSTANTS ta, tb, tc

ThreeTenants == <<ta, tb, tc>>

WeightsOf(a, b, c) == [t \in Tenants |-> CASE t = ta -> a [] t = tb -> b [] OTHER -> c]

(* A common divisor of all, of two only, or none; equal weights.           *)
WeightChoices == {WeightsOf(2, 4, 2), WeightsOf(4, 2, 3), WeightsOf(1, 3, 2), WeightsOf(2, 2, 2)}

JobsOf(tenants, ids, priorities, times) ==
    [job_id : ids, tenant_id : tenants, priority : priorities, created_at : times]

Turns ==
    [policy : PerTenant, weights : WeightChoices, jobs : {JobsOf(Tenants, {1}, {0}, {0})}]

Orders ==
    [policy : Policies, weights : {WeightsOf(1, 1, 1)},
     jobs : {JobsOf({ta}, {1, 2}, {0, 1}, {0, 1})}]

Admissions ==
    [policy : Policies, weights : {WeightsOf(2, 1, 1)},
     jobs : {JobsOf({ta, tb, Blank}, {0, 1}, {0}, {0})}]

AllSetups == Turns \cup Orders \cup Admissions
=============================================================================
