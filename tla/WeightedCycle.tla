--------------------------- MODULE WeightedCycle ---------------------------
(***************************************************************************)
(* The weighted round-robin lap that ComposedScheduler and                 *)
(* WeightedRoundRobinScheduler share (each file has its own copy of the    *)
(* code): how weights become a cycle of tenants, and how the pointer walks *)
(* it past tenants with nothing queued.  Positions count from 0, as in the *)
(* code.                                                                   *)
(***************************************************************************)
EXTENDS Naturals, Sequences, FiniteSets, SequencesExt

CONSTANT TenantOrder   \* tenant ids in the order of the weights dict

Tenants == Range(TenantOrder)

ASSUME TenantAssumption ==
    TenantOrder \in Seq(Tenants) /\ TenantOrder # <<>> /\ IsInjective(TenantOrder)

(* reduce(math.gcd, values)                                                *)
GcdOfWeights(weights) ==
    Max({d \in 1 .. Min({weights[t] : t \in Tenants}) :
            \A t \in Tenants : weights[t] % d = 0})

(* Mutant: divided by the least weight, rounding down.                      *)
BuildWeightCycleByLeast(weights) ==
    FlattenSeq([i \in 1 .. Len(TenantOrder) |->
                  [k \in 1 .. weights[TenantOrder[i]] \div Min({weights[t] : t \in Tenants}) |->
                      TenantOrder[i]]])

BuildWeightCycle(weights) ==
    FlattenSeq([i \in 1 .. Len(TenantOrder) |->
                  [k \in 1 .. weights[TenantOrder[i]] \div GcdOfWeights(weights) |->
                      TenantOrder[i]]])

(* The walk of _next_tenant_advance: how many slots are passed over before *)
(* one whose tenant has jobs.  Only asked when some tenant has.            *)
SlotAt(cycle, pos) == cycle[(pos % Len(cycle)) + 1]

Skipped(cycle, pos, queues) ==
    Min({k \in 0 .. Len(cycle) - 1 : queues[SlotAt(cycle, pos + k)] # <<>>})

NextTenant(cycle, pos, queues) == SlotAt(cycle, pos + Skipped(cycle, pos, queues))

(* Mutant: the pointer stays on the slot it served.                         *)
AdvanceToServed(cycle, pos, queues) == (pos + Skipped(cycle, pos, queues)) % Len(cycle)

(* The pointer moves past every slot looked at.                            *)
Advance(cycle, pos, queues) == (pos + Skipped(cycle, pos, queues) + 1) % Len(cycle)

(* The walk of _next_tenant_no_advance, a loop of its own over the slots   *)
(* that a copy of the pointer comes by; the pointer itself stays.          *)
FirstWithJobs(walk, queues) ==
    walk[Min({k \in DOMAIN walk : queues[walk[k]] # <<>>})]

(* Mutant: the copied pointer is moved before the first look.              *)
PeekTenantPast(cycle, pos, queues) ==
    FirstWithJobs([k \in 1 .. Len(cycle) |-> SlotAt(cycle, pos + k)], queues)

PeekTenant(cycle, pos, queues) ==
    FirstWithJobs([k \in 1 .. Len(cycle) |-> SlotAt(cycle, pos + (k - 1))], queues)

(***************************************************************************)
(* History for the fairness properties: since when a tenant waits, and who *)
(* was served in the current lap and in the last one, if every tenant had  *)
(* jobs throughout.                                                        *)
(***************************************************************************)
NoLap == [t \in Tenants |-> 0]

WaitAfterDequeue(wait, queues, served) ==
    [t \in Tenants |-> IF t = served \/ queues[t] = <<>> THEN 0 ELSE wait[t] + 1]

(* A lap of the pointer in which a tenant had nothing queued, or that a    *)
(* dequeue entered past its first slot, is not counted.                    *)
Lap == [busy : BOOLEAN, served : [Tenants -> Nat], last : [Tenants -> Nat]]
FirstLap == [busy |-> TRUE, served |-> NoLap, last |-> NoLap]

LapAfterDequeue(lap, cycle, pos, queues) ==
    LET busy   == lap.busy /\ \A t \in Tenants : queues[t] # <<>>
        served == [lap.served EXCEPT ![NextTenant(cycle, pos, queues)] = @ + 1]
        over   == pos + Skipped(cycle, pos, queues) + 1
    IN  IF over < Len(cycle) THEN [lap EXCEPT !.busy = busy, !.served = served]
        ELSE [busy |-> over = Len(cycle), served |-> NoLap,
              last |-> IF busy THEN served ELSE lap.last]

TotalWeight(weights) ==
    LET total[i \in 0 .. Len(TenantOrder)] ==
            IF i = 0 THEN 0 ELSE total[i - 1] + weights[TenantOrder[i]]
    IN  total[Len(TenantOrder)]

(* How many of the first n slots are tenant t's, and how many slots lie    *)
(* between the pointer and its next one.                                   *)
SlotsUpTo(cycle, n, t) == Cardinality({p \in 1 .. n : cycle[p] = t})
Ahead(cycle, pos, t) == Min({k \in 0 .. Len(cycle) - 1 : SlotAt(cycle, pos + k) = t})
=============================================================================
