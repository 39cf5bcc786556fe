----------------------------- MODULE Schedulers -----------------------------
(***************************************************************************)
(* One in-memory scheduler under any sequence of enqueue, peek and dequeue *)
(* calls.  Which policy it follows, the weights it was built with and the  *)
(* jobs its callers offer are chosen at the start, so that one run covers  *)
(* them all.                                                               *)
(***************************************************************************)
EXTENDS SchedulerPolicies

CONSTANTS
    Setups,     \* choices of [policy, weights, jobs]
    Capacity,   \* of BoundedQueue and ComposedScheduler
    MaxSize     \* bound: jobs waiting in a scheduler without capacity

ASSUME CapacityAssumption == Capacity \in Nat \ {0} /\ MaxSize \in Nat \ {0}
ASSUME SetupAssumption ==
    \A s \in Setups :
        /\ s.policy \in Policies
        /\ s.weights \in [Tenants -> Nat \ {0}]
        /\ \A job \in s.jobs :
              job.job_id \in Int /\ job.priority \in Int /\ job.created_at \in Int

VARIABLES
    setup,
    queues,    \* queues[l]: what waits in lane l
    cycle,     \* _cycle
    pos,       \* _cycle_pos
    answer,    \* what the last enqueue or dequeue returned
    wait,      \* history: dequeues since tenant t was served or had nothing
    lap        \* history: who was served, lap by lap

vars == <<setup, queues, cycle, pos, answer, wait, lap>>

Job == UNION {s.jobs : s \in Setups}
Size == SizeOf(queues)
Bounded == setup.policy \in {"bounded", "composed"}

TypeOK ==
    /\ setup \in Setups
    /\ queues \in [Lanes -> Seq(setup.jobs)]
    /\ Bounded => Size <= Capacity
    /\ cycle = CycleOf(setup.policy, setup.weights)
    /\ pos \in 0 .. Len(cycle) - 1
    /\ answer \in [status : EnqueueAnswers \cup {"none"}]
                   \cup [status : {"dequeued"}, job : setup.jobs]
    /\ wait \in [Tenants -> Nat]
    /\ lap \in Lap

Init ==
    /\ setup \in Setups
    /\ queues = NoJobs
    /\ cycle = CycleOf(setup.policy, setup.weights)
    /\ pos = 0
    /\ answer = [status |-> "none"]
    /\ wait = [t \in Tenants |-> 0]
    /\ lap = FirstLap

Enqueue(job) ==
    /\ Bounded \/ Size < MaxSize
    /\ LET status == Admission(setup.policy, job, Size, Capacity) IN
         /\ answer' = [status |-> status]
         /\ queues' = IF status = "accepted"
                      THEN [queues EXCEPT ![Lane(setup.policy, job)] = Append(@, job)]
                      ELSE queues
    /\ UNCHANGED <<setup, cycle, pos, wait, lap>>

(* Where dequeue looks now, and what it finds there.                       *)
NextLane == NextTenant(cycle, pos, queues)
NextIndex == JobIndex(setup.policy, queues[NextLane])

(* What peek answers on a scheduler that is not empty.                     *)
Peek == LET l == PeekTenant(cycle, pos, queues) IN queues[l][JobIndex(setup.policy, queues[l])]

(* On an empty scheduler dequeue returns None and changes nothing.         *)
DequeueLeaving(lanes) ==
    /\ Size > 0
    /\ answer' = [status |-> "dequeued", job |-> queues[NextLane][NextIndex]]
    /\ queues' = lanes
    /\ wait' = WaitAfterDequeue(wait, queues, NextLane)
    /\ pos' = Advance(cycle, pos, queues)
    /\ lap' = IF setup.policy \in PerTenant
              THEN LapAfterDequeue(lap, cycle, pos, queues) ELSE lap
    /\ UNCHANGED <<setup, cycle>>

(* Mutant: it returns tenant_jobs[index], as peek does, and pops nothing.   *)
DequeueWithoutPop == DequeueLeaving(queues)

Dequeue == DequeueLeaving([queues EXCEPT ![NextLane] = RemoveAt(@, NextIndex)])

Next == (\E job \in setup.jobs : Enqueue(job)) \/ Dequeue

Spec == Init /\ [][Next]_vars

(***************************************************************************)
(* Properties.                                                             *)
(***************************************************************************)

(* No starvation: while a tenant has jobs, others are served at most as     *)
(* often as their reduced weights add up to before its turn comes, from     *)
(* wherever the pointer stands and whichever tenants run empty.             *)
NoTenantStarves ==
    setup.policy \in PerTenant =>
        \A t \in Tenants :
            wait[t] * GcdOfWeights(setup.weights)
                <= TotalWeight(setup.weights) - setup.weights[t]

(* Shares follow the weights: over a lap in which every tenant has jobs,    *)
(* the numbers of jobs served are proportional to the weights and no lap is *)
(* longer than it must be.                                                  *)
SharesFollowWeights ==
    setup.policy \in PerTenant =>
        /\ \A t, u \in Tenants :
              lap.last[t] * setup.weights[u] = lap.last[u] * setup.weights[t]
        /\ \A t \in Tenants :
              lap.last[t] * GcdOfWeights(setup.weights) <= setup.weights[t]

(* The job that leaves is the one peek announced and the one to run: where  *)
(* priorities count nothing in its lane is more important, or as important  *)
(* and older; elsewhere nothing in its lane came before it.  The jobs that  *)
(* stay keep their order.                                                   *)
RightJobLeaves ==
    [][Size' < Size =>
          /\ answer'.job = Peek
          /\ LET l == Lane(setup.policy, answer'.job) IN
               /\ setup.policy \in {"priority", "composed"} =>
                     \A i \in 1 .. Len(queues[l]) : ~Better(queues[l][i], answer'.job)
               /\ \E i \in 1 .. Len(queues[l]) :
                     /\ setup.policy \notin {"priority", "composed"} => i = 1
                     /\ queues[l] = SubSeq(queues'[l], 1, i - 1) \o <<answer'.job>>
                                      \o SubSeq(queues'[l], i, Len(queues'[l]))
               /\ \A m \in Lanes \ {l} : queues'[m] = queues[m]]_vars

PlacesOf(job) == {p \in Places(queues) : queues[p[1]][p[2]] = job}

(* Every policy implements the buffer: no job is lost, doubled or made up,  *)
(* and REJECTED_FULL is said by a full scheduler only.                      *)
Buffer == INSTANCE JobBuffer WITH
    limit <- IF Bounded THEN Capacity ELSE MaxSize,
    Refusals <- EnqueueAnswers \ {"accepted"},
    size <- Size,
    held <- [job \in Job |-> Cardinality(PlacesOf(job))]

ImplementsBuffer == Buffer!Spec

(***************************************************************************)
(* The inductive invariant.                                                *)
(***************************************************************************)

(* A job waits in its own lane, and that lane has slots in the cycle.      *)
JobsInLane ==
    \A l \in Lanes : \A i \in 1 .. Len(queues[l]) :
        /\ Lane(setup.policy, queues[l][i]) = l
        /\ setup.policy \in PerTenant => l \in Tenants

(* Every dequeue that passes a tenant over brings its next slot closer.    *)
WaitsInTurn ==
    setup.policy \in PerTenant =>
        \A t \in Tenants :
            wait[t] + Ahead(cycle, pos, t) <= Len(cycle) - SlotsUpTo(cycle, Len(cycle), t)

(* In a lap without gaps each slot served its own tenant.                  *)
LapsCounted ==
    setup.policy \in PerTenant =>
        /\ lap.busy => \A t \in Tenants : lap.served[t] = SlotsUpTo(cycle, pos, t)
        /\ \/ lap.last = NoLap
           \/ \A t \in Tenants : lap.last[t] = SlotsUpTo(cycle, Len(cycle), t)

SchedulersInv ==
    /\ TypeOK
    /\ IsFiniteSet(Places(queues))
    /\ JobsInLane
    /\ WaitsInTurn
    /\ LapsCounted
=============================================================================
