-------------------------- MODULE SchedulersProofs --------------------------
(***************************************************************************)
(* Theorems about Schedulers, for any tenants and weights, any jobs and    *)
(* any capacity.                                                           *)
(***************************************************************************)
EXTENDS Schedulers, SchedulerPoliciesProofs

(***************************************************************************)
(* The setup, the cycle and the next job.                                  *)
(***************************************************************************)

(* What every setup provides.                                               *)
LEMMA SetupIs ==
    ASSUME setup \in Setups
    PROVE  /\ setup.policy \in Policies
           /\ setup.weights \in Weights
           /\ \A job \in setup.jobs : Comparable(job)
  BY SetupAssumption DEF Weights, Comparable

(* The cycle of the scheduler.                                              *)
LEMMA CycleOfIs ==
    ASSUME setup \in Setups, cycle = CycleOf(setup.policy, setup.weights)
    PROVE  /\ cycle \in Seq(Lanes)
           /\ Len(cycle) \in Nat \ {0}
           /\ setup.policy \in PerTenant =>
                 cycle = BuildWeightCycle(setup.weights) /\ cycle \in Seq(Tenants)
           /\ setup.policy \notin PerTenant => cycle = <<Everybody>>
  BY SetupIs, LapOfPolicy

(* The invariant keeps the scheduler in working order.                      *)
LEMMA SchedulerInOrder ==
    ASSUME TypeOK, JobsInLane
    PROVE  InOrder(setup.policy, setup.weights, setup.jobs, cycle, pos, queues)
  <1>1. /\ setup \in Setups /\ cycle = CycleOf(setup.policy, setup.weights)
        /\ pos \in 0 .. Len(cycle) - 1 /\ queues \in [Lanes -> Seq(setup.jobs)]
    BY DEF TypeOK
  <1>2. QED
    BY <1>1, SetupIs DEF InOrder, InOwnLane, JobsInLane

(* What dequeue takes, and where the pointer goes.                          *)
LEMMA NextJob ==
    ASSUME TypeOK, JobsInLane, Size > 0
    PROVE  /\ NextLane \in Lanes
           /\ setup.policy \in PerTenant => NextLane \in Tenants
           /\ NextIndex \in 1 .. Len(queues[NextLane])
           /\ queues[NextLane][NextIndex] \in setup.jobs
           /\ Lane(setup.policy, queues[NextLane][NextIndex]) = NextLane
           /\ Advance(cycle, pos, queues) \in 0 .. Len(cycle) - 1
           /\ setup.policy \in {"priority", "composed"} =>
                 \A i \in 1 .. Len(queues[NextLane]) :
                    ~Better(queues[NextLane][i], queues[NextLane][NextIndex])
           /\ setup.policy \notin {"priority", "composed"} => NextIndex = 1
  <1>1. InOrder(setup.policy, setup.weights, setup.jobs, cycle, pos, queues)
    BY SchedulerInOrder
  <1>2. SizeOf(queues) > 0 /\ NextLane = NextTenant(cycle, pos, queues)
        /\ NextIndex = JobIndex(setup.policy, queues[NextLane])
    BY DEF Size, NextLane, NextIndex
  <1>3. /\ RunsNext(setup.policy, setup.jobs, queues, NextLane, NextIndex)
        /\ Advance(cycle, pos, queues) \in 0 .. Len(cycle) - 1
    BY <1>1, <1>2, NextJobIs, Zenon
  <1>4. QED
    BY <1>3 DEF RunsNext

(* The loops of peek and of dequeue end at the same job.                    *)
LEMMA PeekFinds ==
    ASSUME TypeOK, JobsInLane, Size > 0
    PROVE  Peek = queues[NextLane][NextIndex]
  <1>1. InOrder(setup.policy, setup.weights, setup.jobs, cycle, pos, queues)
    BY SchedulerInOrder
  <1>2. SizeOf(queues) > 0
    BY DEF Size
  <1>3. PeekTenant(cycle, pos, queues) = NextTenant(cycle, pos, queues)
    <2>1. PICK p, wt, J, c, n, q : /\ p = setup.policy /\ wt = setup.weights /\ J = setup.jobs
                                   /\ c = cycle /\ n = pos /\ q = queues
      OBVIOUS
    <2>2. InOrder(p, wt, J, c, n, q) /\ SizeOf(q) > 0
      BY <1>1, <1>2, <2>1, Zenon
    <2>3. PeekTenant(c, n, q) = NextTenant(c, n, q)
      BY <2>2, WalksAgree
    <2>4. QED
      BY <2>1, <2>3, Zenon
  <1>4. QED
    BY <1>3, Zenon DEF Peek, NextLane, NextIndex

(***************************************************************************)
(* The invariant.                                                          *)
(***************************************************************************)

(* A new scheduler satisfies the invariant.                                 *)
LEMMA InitSchedulersInv == Init => SchedulersInv
  <1> SUFFICES ASSUME Init PROVE SchedulersInv
    OBVIOUS
  <1>1. /\ setup \in Setups /\ cycle = CycleOf(setup.policy, setup.weights)
        /\ queues = NoJobs /\ pos = 0 /\ answer = [status |-> "none"]
        /\ wait = [t \in Tenants |-> 0] /\ lap = FirstLap
    BY DEF Init
  <1>2. Len(cycle) \in Nat \ {0}
    BY <1>1, CycleOfIs
  <1>3. IsFiniteSet(Places(queues)) /\ Size = 0
    BY <1>1, NoPlaces, FS_EmptySet DEF Size, SizeOf
  <1>4. NoLap \in [Tenants -> Nat]
    BY DEF NoLap
  <1>5. TypeOK
    <2>1. queues \in [Lanes -> Seq(setup.jobs)]
      BY <1>1 DEF NoJobs
    <2>2. Bounded => Size <= Capacity
      BY <1>3, CapacityAssumption
    <2>3. pos \in 0 .. Len(cycle) - 1
      BY <1>1, <1>2
    <2>4. lap \in Lap
      BY <1>1, <1>4 DEF FirstLap, Lap
    <2>5. wait \in [Tenants -> Nat]
      BY <1>1
    <2>6. answer \in [status : EnqueueAnswers \cup {"none"}]
      BY <1>1
    <2>7. QED
      BY <1>1, <2>1, <2>2, <2>3, <2>4, <2>5, <2>6 DEF TypeOK
  <1>6. JobsInLane
    BY <1>1 DEF JobsInLane, NoJobs
  <1>7. WaitsInTurn
    <2> SUFFICES ASSUME setup.policy \in PerTenant, NEW t \in Tenants
                 PROVE  wait[t] + Ahead(cycle, pos, t)
                          <= Len(cycle) - SlotsUpTo(cycle, Len(cycle), t)
      BY DEF WaitsInTurn
    <2>1. cycle = BuildWeightCycle(setup.weights) /\ setup.weights \in Weights
      BY <1>1, CycleOfIs, SetupIs
    <2>2. 0 \in 0 .. Len(cycle) - 1
      BY <1>2
    <2>3. /\ Ahead(cycle, 0, t) \in 0 .. Len(cycle) - 1
          /\ Ahead(cycle, 0, t) <= Len(cycle) - Share(setup.weights, t)
      BY <2>1, <2>2, AheadIs
    <2>4. SlotsUpTo(cycle, Len(cycle), t) = Share(setup.weights, t)
      BY <2>1, SlotsAll
    <2>5. wait[t] = 0 /\ 0 + Ahead(cycle, 0, t) = Ahead(cycle, 0, t)
      BY <1>1, <1>2, <2>3
    <2>6. QED
      BY <1>1, <2>3, <2>4, <2>5
  <1>8. LapsCounted
    <2>1. \A t \in Tenants : SlotsUpTo(cycle, 0, t) = 0
      BY SlotsNext
    <2>2. lap.served = NoLap /\ lap.last = NoLap
      BY <1>1 DEF FirstLap
    <2>3. QED
      BY <1>1, <2>1, <2>2 DEF LapsCounted, NoLap
  <1>9. QED
    BY <1>3, <1>5, <1>6, <1>7, <1>8 DEF SchedulersInv

(* What the answer of an enqueue means.                                     *)
LEMMA AdmissionIs ==
    ASSUME NEW policy, NEW job, NEW size \in Nat, NEW status,
           status = Admission(policy, job, size, Capacity)
    PROVE  /\ status \in EnqueueAnswers
           /\ status = "accepted" =>
                 /\ policy \in {"bounded", "composed"} => size < Capacity
                 /\ policy \in PerTenant => job.tenant_id \in Tenants
           /\ status = "rejected_full" =>
                 policy \in {"bounded", "composed"} /\ size >= Capacity
  <1>1. Capacity \in Nat
    BY CapacityAssumption
  <1>2. QED
    BY <1>1 DEF Admission, AdmissionIf, Invalid, EnqueueAnswers, PerTenant

(* An enqueue that is refused leaves the lanes alone; one that is accepted  *)
(* puts the job at the end of its own lane.                                 *)
LEMMA EnqueueIs ==
    ASSUME SchedulersInv, NEW job \in setup.jobs, Enqueue(job)
    PROVE  /\ Size \in Nat
           /\ answer'.status \in EnqueueAnswers /\ answer' = [status |-> answer'.status]
           /\ answer'.status # "accepted" => queues' = queues
           /\ answer'.status = "rejected_full" => Bounded /\ Size = Capacity
           /\ answer'.status = "accepted" =>
                 /\ Size < IF Bounded THEN Capacity ELSE MaxSize
                 /\ Lane(setup.policy, job) \in Lanes
                 /\ setup.policy \in PerTenant => Lane(setup.policy, job) \in Tenants
                 /\ queues' = [queues EXCEPT ![Lane(setup.policy, job)] = Append(@, job)]
           /\ setup' = setup /\ cycle' = cycle /\ pos' = pos /\ wait' = wait /\ lap' = lap
  <1> DEFINE status == Admission(setup.policy, job, Size, Capacity)
  <1>1. Size \in Nat
    BY FS_CardinalityType DEF SchedulersInv, Size, SizeOf
  <1>2. /\ status \in EnqueueAnswers
        /\ status = "accepted" =>
              /\ setup.policy \in {"bounded", "composed"} => Size < Capacity
              /\ setup.policy \in PerTenant => job.tenant_id \in Tenants
        /\ status = "rejected_full" =>
              setup.policy \in {"bounded", "composed"} /\ Size >= Capacity
    BY <1>1, AdmissionIs
  <1>3. /\ Bounded \/ Size < MaxSize
        /\ answer' = [status |-> status]
        /\ queues' = IF status = "accepted"
                     THEN [queues EXCEPT ![Lane(setup.policy, job)] = Append(@, job)]
                     ELSE queues
        /\ setup' = setup /\ cycle' = cycle /\ pos' = pos /\ wait' = wait /\ lap' = lap
    BY DEF Enqueue
  <1>4. Bounded => Size <= Capacity
    BY DEF SchedulersInv, TypeOK
  <1>5. status = "accepted" =>
           /\ Lane(setup.policy, job) \in Lanes
           /\ setup.policy \in PerTenant => Lane(setup.policy, job) \in Tenants
    BY <1>2 DEF Lane, Lanes
  <1> HIDE DEF status
  <1>6. answer'.status = status
    BY <1>3
  <1>7. status = "rejected_full" => Bounded /\ Size = Capacity
    BY <1>1, <1>2, <1>4, CapacityAssumption DEF Bounded
  <1>8. status = "accepted" => Size < IF Bounded THEN Capacity ELSE MaxSize
    BY <1>2, <1>3 DEF Bounded
  <1>9. QED
    BY <1>1, <1>2, <1>3, <1>5, <1>6, <1>7, <1>8

(* What an accepted enqueue does to the lanes.                              *)
LEMMA EnqueueAppends ==
    ASSUME SchedulersInv, NEW job \in setup.jobs, Enqueue(job), answer'.status = "accepted"
    PROVE  /\ queues' \in [Lanes -> Seq(setup.jobs)]
           /\ Appended(queues, queues', Lane(setup.policy, job), job)
  <1>1. PICK q : q = queues
    OBVIOUS
  <1>2. PICK r : r = queues'
    OBVIOUS
  <1>3. PICK J : J = setup.jobs
    OBVIOUS
  <1>4. PICK h \in Lanes : h = Lane(setup.policy, job)
    BY EnqueueIs
  <1>5. r = [q EXCEPT ![h] = Append(@, job)]
    BY <1>1, <1>2, <1>4, EnqueueIs
  <1>6. q \in [Lanes -> Seq(J)] /\ job \in J
    BY <1>1, <1>3 DEF SchedulersInv, TypeOK
  <1>7. r \in [Lanes -> Seq(J)] /\ Appended(q, r, h, job)
    BY <1>5, <1>6 DEF Appended
  <1>8. QED
    BY <1>1, <1>2, <1>3, <1>4, <1>7

(* Enqueue keeps the invariant: the capacity was looked at in the same      *)
(* step.                                                                    *)
LEMMA EnqueueKeeps ==
    ASSUME SchedulersInv, NEW job \in setup.jobs, Enqueue(job)
    PROVE  SchedulersInv'
  <1>1. /\ Size \in Nat
        /\ answer'.status \in EnqueueAnswers /\ answer' = [status |-> answer'.status]
        /\ setup' = setup /\ cycle' = cycle /\ pos' = pos /\ wait' = wait /\ lap' = lap
    BY EnqueueIs
  <1>2. /\ setup \in Setups /\ queues \in [Lanes -> Seq(setup.jobs)]
        /\ Bounded => Size <= Capacity
        /\ cycle = CycleOf(setup.policy, setup.weights) /\ pos \in 0 .. Len(cycle) - 1
        /\ wait \in [Tenants -> Nat] /\ lap \in Lap
        /\ IsFiniteSet(Places(queues)) /\ InOwnLane(setup.policy, queues)
    BY DEF SchedulersInv, TypeOK, JobsInLane, InOwnLane
  <1>3. /\ queues' \in [Lanes -> Seq(setup.jobs)]
        /\ Bounded => Size' <= Capacity
        /\ IsFiniteSet(Places(queues'))
        /\ InOwnLane(setup.policy, queues')
    <2>1. CASE answer'.status # "accepted"
      <3>1. queues' = queues
        BY <2>1, EnqueueIs
      <3>2. Size' = Size
        BY <3>1 DEF Size
      <3>3. QED
        BY <1>2, <3>1, <3>2
    <2>2. CASE answer'.status = "accepted"
      <3>1. PICK h \in Lanes : h = Lane(setup.policy, job)
        BY <2>2, EnqueueIs
      <3>2. /\ setup.policy \in PerTenant => h \in Tenants
            /\ Bounded => Size < Capacity
        BY <2>2, <3>1, EnqueueIs
      <3>3. queues' \in [Lanes -> Seq(setup.jobs)] /\ Appended(queues, queues', h, job)
        BY <2>2, <3>1, EnqueueAppends
      <3>a. OneMore(queues, queues', job, job)
        BY <1>2, <3>3, AppendCounts
      <3>4. /\ IsFiniteSet(Places(queues'))
            /\ Cardinality(Places(queues')) = Cardinality(Places(queues)) + 1
        BY <3>a DEF OneMore
      <3>5. Size' = Size + 1
        BY <3>4 DEF Size, SizeOf
      <3>6. Bounded => Size' <= Capacity
        BY <1>1, <3>2, <3>5, CapacityAssumption
      <3>7. InOwnLane(setup.policy, queues')
        BY <1>2, <3>1, <3>2, <3>3, AppendKeepsLanes
      <3>8. QED
        BY <3>3, <3>4, <3>6, <3>7
    <2>3. QED
      BY <2>1, <2>2
  <1>4. Bounded' = Bounded
    BY <1>1 DEF Bounded
  <1>5. answer' \in [status : EnqueueAnswers \cup {"none"}]
    BY <1>1
  <1>6. TypeOK'
    BY <1>1, <1>2, <1>3, <1>4, <1>5 DEF TypeOK
  <1>7. JobsInLane'
    BY <1>1, <1>3 DEF JobsInLane, InOwnLane
  <1>8. WaitsInTurn' /\ LapsCounted'
    BY <1>1 DEF SchedulersInv, WaitsInTurn, LapsCounted
  <1>9. QED
    BY <1>3, <1>6, <1>7, <1>8 DEF SchedulersInv

(* What a dequeue does to the lanes.                                        *)
LEMMA DequeueRemoves ==
    ASSUME SchedulersInv, Dequeue
    PROVE  /\ Size > 0
           /\ queues' \in [Lanes -> Seq(setup.jobs)]
           /\ Removed(queues, queues', NextLane, NextIndex)
           /\ answer' = [status |-> "dequeued", job |-> queues[NextLane][NextIndex]]
           /\ setup' = setup /\ cycle' = cycle
           /\ pos' = Advance(cycle, pos, queues)
           /\ wait' = WaitAfterDequeue(wait, queues, NextLane)
           /\ lap' = IF setup.policy \in PerTenant
                     THEN LapAfterDequeue(lap, cycle, pos, queues) ELSE lap
  <1>1. /\ Size > 0
        /\ answer' = [status |-> "dequeued", job |-> queues[NextLane][NextIndex]]
        /\ queues' = [queues EXCEPT ![NextLane] = RemoveAt(@, NextIndex)]
        /\ setup' = setup /\ cycle' = cycle
        /\ pos' = Advance(cycle, pos, queues)
        /\ wait' = WaitAfterDequeue(wait, queues, NextLane)
        /\ lap' = IF setup.policy \in PerTenant
                  THEN LapAfterDequeue(lap, cycle, pos, queues) ELSE lap
    BY DEF Dequeue, DequeueLeaving
  <1>2. TypeOK /\ JobsInLane
    BY DEF SchedulersInv
  <1>3. PICK h \in Lanes : h = NextLane
    BY <1>1, <1>2, NextJob
  <1>4. PICK n \in 1 .. Len(queues[h]) : n = NextIndex
    BY <1>1, <1>2, <1>3, NextJob
  <1>5. PICK q : q = queues
    OBVIOUS
  <1>6. PICK r : r = queues'
    OBVIOUS
  <1>7. PICK J : J = setup.jobs
    OBVIOUS
  <1>8. q \in [Lanes -> Seq(J)] /\ n \in 1 .. Len(q[h])
    BY <1>2, <1>4, <1>5, <1>7 DEF TypeOK
  <1>9. r = [q EXCEPT ![h] = RemoveAt(q[h], n)]
    BY <1>1, <1>3, <1>4, <1>5, <1>6
  <1>10. r \in [Lanes -> Seq(J)] /\ Removed(q, r, h, n)
    BY <1>8, <1>9, RemoveShifts
  <1>11. QED
    BY <1>1, <1>3, <1>4, <1>5, <1>6, <1>7, <1>10

(* A tenant with jobs that is passed over has come closer to its turn; one  *)
(* that was served or has none starts anew.                                 *)
LEMMA DequeueKeepsTurns ==
    ASSUME SchedulersInv, Dequeue, setup.policy \in PerTenant, NEW t \in Tenants
    PROVE  wait'[t] + Ahead(cycle, pos', t) <= Len(cycle) - SlotsUpTo(cycle, Len(cycle), t)
  <1>1. /\ setup \in Setups /\ cycle = CycleOf(setup.policy, setup.weights)
        /\ pos \in 0 .. Len(cycle) - 1 /\ wait \in [Tenants -> Nat]
    BY DEF SchedulersInv, TypeOK
  <1>2. cycle = BuildWeightCycle(setup.weights) /\ setup.weights \in Weights
    BY <1>1, CycleOfIs, SetupIs
  <1>3. pos' = Advance(cycle, pos, queues) /\ pos' \in 0 .. Len(cycle) - 1
    BY DequeueRemoves, NextJob DEF SchedulersInv
  <1>4. SlotsUpTo(cycle, Len(cycle), t) = Share(setup.weights, t)
    BY <1>2, SlotsAll
  <1>5. Share(setup.weights, t) \in Nat \ {0}
    BY <1>2, ShareIs
  <1>6. wait'[t] = IF t = NextLane \/ queues[t] = <<>> THEN 0 ELSE wait[t] + 1
    BY DequeueRemoves DEF WaitAfterDequeue
  <1>7. PICK L \in Nat : L = Len(cycle)
    BY <1>1, CycleOfIs
  <1>8. PICK S \in Nat : S = Share(setup.weights, t)
    BY <1>5
  <1>9. /\ Ahead(cycle, pos', t) \in 0 .. Len(cycle) - 1
        /\ Ahead(cycle, pos', t) <= Len(cycle) - Share(setup.weights, t)
    BY <1>2, <1>3, AheadIs
  <1>10. PICK b \in Nat : b = Ahead(cycle, pos', t) /\ b <= L - S
    BY <1>7, <1>8, <1>9
  <1>11. CASE t = NextLane \/ queues[t] = <<>>
    <2>1. wait'[t] = 0 /\ 0 + b <= L - S
      BY <1>6, <1>10, <1>11
    <2>2. QED
      BY <1>4, <1>7, <1>8, <1>10, <2>1, Zenon
  <1>12. CASE ~(t = NextLane \/ queues[t] = <<>>)
    <2>1. NextTenant(cycle, pos, queues) # t /\ queues[t] # <<>>
      BY <1>12 DEF NextLane
    <2>2. Ahead(cycle, Advance(cycle, pos, queues), t) + 1 <= Ahead(cycle, pos, t)
      BY <1>1, <1>2, <2>1, WalkBringsCloser
    <2>3. Ahead(cycle, pos, t) \in 0 .. Len(cycle) - 1
      BY <1>1, <1>2, AheadIs
    <2>4. wait[t] + Ahead(cycle, pos, t) <= Len(cycle) - SlotsUpTo(cycle, Len(cycle), t)
      BY DEF SchedulersInv, WaitsInTurn
    <2>5. PICK a \in Nat : a = Ahead(cycle, pos, t)
      BY <1>7, <2>3
    <2>6. PICK w \in Nat : w = wait[t]
      BY <1>1
    <2>7. b + 1 <= a
      BY <1>3, <1>10, <2>2, <2>5
    <2>8. w + a <= L - S
      BY <1>4, <1>7, <1>8, <2>4, <2>5, <2>6
    <2>9. wait'[t] = w + 1 /\ (w + 1) + b <= L - S
      BY <1>6, <1>12, <2>6, <2>7, <2>8
    <2>10. QED
      BY <1>4, <1>7, <1>8, <1>10, <2>9, Zenon
  <1>13. QED
    BY <1>11, <1>12

(* A lap that stays busy still serves each slot its own tenant.             *)
LEMMA DequeueKeepsLaps ==
    ASSUME SchedulersInv, Dequeue
    PROVE  /\ lap' \in Lap
           /\ setup.policy \in PerTenant => Counted(lap', cycle, pos')
  <1>1. /\ setup \in Setups /\ cycle = CycleOf(setup.policy, setup.weights)
        /\ pos \in 0 .. Len(cycle) - 1 /\ lap \in Lap
        /\ TypeOK /\ JobsInLane /\ LapsCounted
    BY DEF SchedulersInv, TypeOK
  <1>2. /\ Size > 0 /\ pos' = Advance(cycle, pos, queues)
        /\ lap' = IF setup.policy \in PerTenant
                  THEN LapAfterDequeue(lap, cycle, pos, queues) ELSE lap
    BY DequeueRemoves
  <1>3. CASE setup.policy \in PerTenant
    <2>1. cycle = BuildWeightCycle(setup.weights) /\ setup.weights \in Weights
      BY <1>1, <1>3, CycleOfIs, SetupIs
    <2>2. cycle \in Seq(Tenants) /\ Len(cycle) \in Nat \ {0}
      BY <2>1, CycleFacts
    <2>3. \E k \in 0 .. Len(cycle) - 1 : queues[SlotAt(cycle, pos + k)] # <<>>
      <3>1. InOrder(setup.policy, setup.weights, setup.jobs, cycle, pos, queues)
        BY SchedulerInOrder DEF SchedulersInv
      <3>2. SizeOf(queues) > 0
        BY <1>2 DEF Size
      <3>3. QED
        BY <3>1, <3>2, SlotFound
    <2>4. Counted(lap, cycle, pos)
      BY <1>1, <1>3 DEF LapsCounted, Counted
    <2>5. /\ LapAfterDequeue(lap, cycle, pos, queues) \in Lap
          /\ Counted(LapAfterDequeue(lap, cycle, pos, queues), cycle,
                     Advance(cycle, pos, queues))
      BY <1>1, <2>2, <2>3, <2>4, LapKept
    <2>6. QED
      BY <1>2, <1>3, <2>5
  <1>4. CASE setup.policy \notin PerTenant
    BY <1>1, <1>2, <1>4
  <1>5. QED
    BY <1>3, <1>4

(* Dequeue keeps the invariant.                                             *)
LEMMA DequeueKeeps ==
    ASSUME SchedulersInv, Dequeue
    PROVE  SchedulersInv'
  <1>1. /\ Size > 0
        /\ queues' \in [Lanes -> Seq(setup.jobs)]
        /\ Removed(queues, queues', NextLane, NextIndex)
        /\ answer' = [status |-> "dequeued", job |-> queues[NextLane][NextIndex]]
        /\ setup' = setup /\ cycle' = cycle
        /\ pos' = Advance(cycle, pos, queues)
        /\ wait' = WaitAfterDequeue(wait, queues, NextLane)
    BY DequeueRemoves
  <1>2. /\ setup \in Setups /\ queues \in [Lanes -> Seq(setup.jobs)]
        /\ Bounded => Size <= Capacity
        /\ cycle = CycleOf(setup.policy, setup.weights)
        /\ wait \in [Tenants -> Nat]
        /\ IsFiniteSet(Places(queues)) /\ InOwnLane(setup.policy, queues)
        /\ TypeOK /\ JobsInLane
    BY DEF SchedulersInv, TypeOK, JobsInLane, InOwnLane
  <1>3. /\ NextLane \in Lanes /\ NextIndex \in 1 .. Len(queues[NextLane])
        /\ queues[NextLane][NextIndex] \in setup.jobs
        /\ pos' \in 0 .. Len(cycle) - 1
    BY <1>1, <1>2, NextJob
  <1>4. OneLess(queues, queues', queues[NextLane][NextIndex], queues[NextLane][NextIndex])
    BY <1>1, <1>2, <1>3, RemoveCounts
  <1>5. IsFiniteSet(Places(queues')) /\ Size \in Nat /\ Size' = Size - 1
    BY <1>4 DEF OneLess, Size, SizeOf
  <1>6. Bounded' = Bounded
    BY <1>1 DEF Bounded
  <1>7. Bounded' => Size' <= Capacity
    BY <1>2, <1>5, <1>6, CapacityAssumption
  <1>8. InOwnLane(setup.policy, queues')
    BY <1>1, <1>2, <1>3, RemoveKeepsLanes
  <1>9. answer' \in [status : {"dequeued"}, job : setup.jobs]
    BY <1>1, <1>3
  <1>10. wait' \in [Tenants -> Nat]
    BY <1>1, <1>2 DEF WaitAfterDequeue
  <1>11. TypeOK'
    BY <1>1, <1>2, <1>3, <1>7, <1>9, <1>10, DequeueKeepsLaps DEF TypeOK
  <1>12. JobsInLane'
    BY <1>1, <1>8 DEF JobsInLane, InOwnLane
  <1>13. WaitsInTurn'
    BY <1>1, DequeueKeepsTurns DEF WaitsInTurn
  <1>14. LapsCounted'
    BY <1>1, DequeueKeepsLaps DEF LapsCounted, Counted
  <1>15. QED
    BY <1>5, <1>11, <1>12, <1>13, <1>14 DEF SchedulersInv

(* Every step keeps the invariant.                                          *)
LEMMA NextSchedulersInv == SchedulersInv /\ [Next]_vars => SchedulersInv'
  <1> SUFFICES ASSUME SchedulersInv, [Next]_vars PROVE SchedulersInv'
    OBVIOUS
  <1>1. ASSUME NEW job \in setup.jobs, Enqueue(job) PROVE SchedulersInv'
    BY <1>1, EnqueueKeeps
  <1>2. CASE Dequeue
    BY <1>2, DequeueKeeps
  <1>3. CASE UNCHANGED vars
    BY <1>3 DEF vars, SchedulersInv, TypeOK, JobsInLane, WaitsInTurn, LapsCounted,
                Size, Bounded
  <1>4. QED
    BY <1>1, <1>2, <1>3 DEF Next

(* A scheduler of any policy never exceeds its capacity, keeps each job in  *)
(* the lane of its tenant, and its pointer walks the cycle of its weights.  *)
THEOREM SchedulersInvariant == Spec => []SchedulersInv
  BY InitSchedulersInv, NextSchedulersInv, PTL DEF Spec

(***************************************************************************)
(* Fairness.                                                               *)
(***************************************************************************)

(* Multiplication keeps the order.                                          *)
LEMMA Scaled ==
    ASSUME NEW a \in Nat, NEW b \in Nat, NEW g \in Nat, a <= b
    PROVE  a * g <= b * g
  <1>1. PICK d \in Nat : b = a + d
    <2>1. b - a \in Nat /\ b = a + (b - a)
      OBVIOUS
    <2>2. QED
      BY <2>1
  <1>2. b * g = a * g + d * g
    BY <1>1
  <1>3. a * g \in Nat /\ d * g \in Nat
    OBVIOUS
  <1>4. QED
    BY <1>2, <1>3

(* Weighted round robin starves nobody: a tenant with jobs sees at most as  *)
(* many others served as their reduced weights add up to.                   *)
THEOREM NoneStarve == Spec => []NoTenantStarves
  <1>1. SchedulersInv => NoTenantStarves
    <2> SUFFICES ASSUME SchedulersInv, setup.policy \in PerTenant, NEW t \in Tenants
                 PROVE  wait[t] * GcdOfWeights(setup.weights)
                          <= TotalWeight(setup.weights) - setup.weights[t]
      BY DEF NoTenantStarves
    <2>1. /\ setup \in Setups /\ cycle = CycleOf(setup.policy, setup.weights)
          /\ pos \in 0 .. Len(cycle) - 1 /\ wait \in [Tenants -> Nat]
      BY DEF SchedulersInv, TypeOK
    <2>2. cycle = BuildWeightCycle(setup.weights) /\ setup.weights \in Weights
      BY <2>1, CycleOfIs, SetupIs
    <2>3. wait[t] + Ahead(cycle, pos, t) <= Len(cycle) - SlotsUpTo(cycle, Len(cycle), t)
      BY DEF SchedulersInv, WaitsInTurn
    <2>4. SlotsUpTo(cycle, Len(cycle), t) = Share(setup.weights, t)
      BY <2>2, SlotsAll
    <2>5. PICK g \in Nat : g = GcdOfWeights(setup.weights)
      BY <2>2, GcdIs
    <2>6. PICK S \in Nat : S = Share(setup.weights, t)
      BY <2>2, ShareIs
    <2>7. PICK L \in Nat : L = Len(cycle)
      BY <2>1, CycleOfIs
    <2>8. PICK a \in Nat : a = Ahead(cycle, pos, t)
      BY <2>1, <2>2, AheadIs
    <2>9. PICK w \in Nat : w = wait[t]
      BY <2>1
    <2>10. w + a <= L - S
      BY <2>3, <2>4, <2>6, <2>7, <2>8, <2>9
    <2>11. w + S <= L
      BY <2>10
    <2>12. (w + S) * g <= L * g
      BY <2>11, Scaled
    <2>13. (w + S) * g = w * g + S * g
      OBVIOUS
    <2>14. L * g = TotalWeight(setup.weights)
      BY <2>2, <2>5, <2>7, CycleFacts
    <2>15. S * g = setup.weights[t]
      BY <2>2, <2>5, <2>6, ShareIs
    <2>16. w * g \in Nat /\ S * g \in Nat /\ L * g \in Nat
      OBVIOUS
    <2>17. w * g <= L * g - S * g
      BY <2>12, <2>13, <2>16
    <2>18. QED
      BY <2>5, <2>9, <2>14, <2>15, <2>17
  <1>2. QED
    BY <1>1, SchedulersInvariant, PTL

(* Over a lap in which everybody has jobs the weights are kept exactly.     *)
THEOREM SharesKept == Spec => []SharesFollowWeights
  <1>1. SchedulersInv => SharesFollowWeights
    <2> SUFFICES ASSUME SchedulersInv, setup.policy \in PerTenant
                 PROVE  /\ \A t, u \in Tenants :
                              lap.last[t] * setup.weights[u] = lap.last[u] * setup.weights[t]
                        /\ \A t \in Tenants :
                              lap.last[t] * GcdOfWeights(setup.weights) <= setup.weights[t]
      BY DEF SharesFollowWeights
    <2>1. setup \in Setups /\ cycle = CycleOf(setup.policy, setup.weights)
      BY DEF SchedulersInv, TypeOK
    <2>2. cycle = BuildWeightCycle(setup.weights) /\ setup.weights \in Weights
      BY <2>1, CycleOfIs, SetupIs
    <2>3. PICK g \in Nat : g = GcdOfWeights(setup.weights)
      BY <2>2, GcdIs
    <2>4. \A t \in Tenants : /\ Share(setup.weights, t) \in Nat
                             /\ setup.weights[t] = Share(setup.weights, t) * g
      BY <2>2, <2>3, ShareIs
    <2>5. CASE lap.last = NoLap
      <3>1. \A t \in Tenants : lap.last[t] = 0
        BY <2>5 DEF NoLap
      <3>2. \A t \in Tenants : setup.weights[t] \in Nat
        BY <2>4
      <3>3. QED
        BY <2>3, <3>1, <3>2
    <2>6. CASE lap.last # NoLap
      <3>1. \A t \in Tenants : lap.last[t] = SlotsUpTo(cycle, Len(cycle), t)
        BY <2>6 DEF SchedulersInv, LapsCounted
      <3>2. \A t \in Tenants : lap.last[t] = Share(setup.weights, t)
        BY <2>2, <3>1, SlotsAll
      <3>3. ASSUME NEW t \in Tenants, NEW u \in Tenants
            PROVE  lap.last[t] * setup.weights[u] = lap.last[u] * setup.weights[t]
        <4>1. PICK a \in Nat : a = Share(setup.weights, t) /\ setup.weights[t] = a * g
          BY <2>4
        <4>2. PICK b \in Nat : b = Share(setup.weights, u) /\ setup.weights[u] = b * g
          BY <2>4
        <4>3. a * (b * g) = b * (a * g)
          OBVIOUS
        <4>4. QED
          BY <3>2, <4>1, <4>2, <4>3
      <3>4. ASSUME NEW t \in Tenants
            PROVE  lap.last[t] * GcdOfWeights(setup.weights) <= setup.weights[t]
        <4>1. PICK a \in Nat : a = Share(setup.weights, t) /\ setup.weights[t] = a * g
          BY <2>4
        <4>2. a * g <= a * g
          OBVIOUS
        <4>3. QED
          BY <2>3, <3>2, <4>1, <4>2
      <3>5. QED
        BY <3>3, <3>4
    <2>7. QED
      BY <2>5, <2>6
  <1>2. QED
    BY <1>1, SchedulersInvariant, PTL

(***************************************************************************)
(* The job that leaves.                                                    *)
(***************************************************************************)

(* What a concatenation is.                                                 *)
LEMMA Concatenated ==
    ASSUME NEW J, NEW a \in Seq(J), NEW b \in Seq(J)
    PROVE  /\ a \o b \in Seq(J) /\ Len(a \o b) = Len(a) + Len(b)
           /\ \A k \in 1 .. Len(a) + Len(b) :
                 (a \o b)[k] = IF k <= Len(a) THEN a[k] ELSE b[k - Len(a)]
  OBVIOUS

(* Put back where it was taken from, a job restores its lane.               *)
LEMMA PutBack ==
    ASSUME NEW J, NEW s \in Seq(J), NEW r \in Seq(J), NEW n \in 1 .. Len(s),
           Len(s) = Len(r) + 1,
           \A k \in 1 .. Len(r) : r[k] = IF k < n THEN s[k] ELSE s[k + 1]
    PROVE  s = SubSeq(r, 1, n - 1) \o <<s[n]>> \o SubSeq(r, n, Len(r))
  <1>1. PICK z \in Nat : z = Len(r) /\ z + 1 = Len(s)
    OBVIOUS
  <1>2. n \in 1 .. z + 1
    BY <1>1
  <1> DEFINE a == SubSeq(r, 1, n - 1)
             b == <<s[n]>>
             c == SubSeq(r, n, Len(r))
  <1>3. a \in Seq(J) /\ Len(a) = n - 1 /\ \A k \in 1 .. n - 1 : a[k] = s[k]
    <2>1. a \in Seq(J) /\ Len(a) = n - 1 /\ \A k \in 1 .. n - 1 : a[k] = r[k]
      BY <1>1, <1>2
    <2>2. QED
      BY <1>1, <1>2, <2>1
  <1>4. b \in Seq(J) /\ Len(b) = 1 /\ b[1] = s[n]
    BY <1>1, <1>2
  <1>5. /\ c \in Seq(J) /\ Len(c) = z + 1 - n
        /\ \A k \in 1 .. z + 1 - n : c[k] = s[k + n]
    <2>1. /\ c \in Seq(J) /\ Len(c) = z + 1 - n
          /\ \A k \in 1 .. z + 1 - n : c[k] = r[k + n - 1]
      BY <1>1, <1>2
    <2>2. ASSUME NEW k \in 1 .. z + 1 - n PROVE c[k] = s[k + n]
      <3>1. k + n - 1 \in 1 .. z /\ ~(k + n - 1 < n) /\ (k + n - 1) + 1 = k + n
        BY <1>2
      <3>2. r[k + n - 1] = s[(k + n - 1) + 1]
        BY <1>1, <3>1
      <3>3. QED
        BY <2>1, <3>1, <3>2
    <2>3. QED
      BY <2>1, <2>2
  <1> HIDE DEF a, b, c
  <1>6. /\ a \o b \in Seq(J) /\ Len(a \o b) = n
        /\ \A k \in 1 .. n : (a \o b)[k] = s[k]
    <2>0. a \in Seq(J) /\ b \in Seq(J)
      BY <1>3, <1>4
    <2>1. a \o b \in Seq(J) /\ Len(a \o b) = Len(a) + Len(b)
      BY <2>0, Concatenated, Zenon
    <2>2. \A k \in 1 .. Len(a) + Len(b) :
             (a \o b)[k] = IF k <= Len(a) THEN a[k] ELSE b[k - Len(a)]
      BY <2>0, Concatenated, Zenon
    <2>3. Len(a) + Len(b) = n
      BY <1>2, <1>3, <1>4
    <2>4. ASSUME NEW k \in 1 .. n PROVE (a \o b)[k] = s[k]
      <3>1. CASE k <= n - 1
        <4>1. k \in 1 .. n - 1 /\ k \in 1 .. Len(a) + Len(b) /\ k <= Len(a)
          BY <1>2, <1>3, <2>3, <3>1
        <4>2. QED
          BY <1>3, <2>2, <4>1
      <3>2. CASE ~(k <= n - 1)
        <4>1. k = n /\ k \in 1 .. Len(a) + Len(b) /\ ~(k <= Len(a)) /\ k - Len(a) = 1
          BY <1>2, <1>3, <2>3, <3>2
        <4>2. QED
          BY <1>4, <2>2, <4>1
      <3>3. QED
        BY <3>1, <3>2
    <2>5. QED
      BY <2>1, <2>3, <2>4
  <1>7. PICK d \in Seq(J) : d = a \o b
    BY <1>6
  <1>8. /\ d \o c \in Seq(J) /\ Len(d \o c) = z + 1
        /\ \A k \in 1 .. z + 1 : (d \o c)[k] = s[k]
    <2>1. Len(d) = n /\ \A k \in 1 .. n : d[k] = s[k]
      BY <1>6, <1>7
    <2>0. d \o c \in Seq(J) /\ Len(d \o c) = Len(d) + Len(c)
      BY <1>5, Concatenated, Zenon
    <2>2. d \o c \in Seq(J) /\ Len(d \o c) = z + 1
      BY <1>2, <1>5, <2>0, <2>1
    <2>3. ASSUME NEW k \in 1 .. z + 1 PROVE (d \o c)[k] = s[k]
      <3>1. CASE k <= n
        BY <1>2, <1>5, <2>1, <3>1
      <3>2. CASE ~(k <= n)
        <4>1. k - n \in 1 .. z + 1 - n /\ (k - n) + n = k
          BY <1>2, <3>2
        <4>2. c[k - n] = s[k]
          BY <1>5, <4>1
        <4>3. (d \o c)[k] = c[k - n]
          BY <1>2, <1>5, <2>1, <3>2
        <4>4. QED
          BY <4>2, <4>3
      <3>3. QED
        BY <3>1, <3>2
    <2>4. QED
      BY <2>2, <2>3
  <1>9. s = d \o c
    BY <1>1, <1>8
  <1>10. QED
    BY <1>7, <1>9 DEF a, b, c

(* Only a dequeue makes a scheduler smaller.                                *)
LEMMA SmallerByDequeue ==
    ASSUME SchedulersInv, [Next]_vars, Size' < Size
    PROVE  Dequeue
  <1>1. ASSUME NEW job \in setup.jobs, Enqueue(job) PROVE FALSE
    <2>1. Size \in Nat
      BY <1>1, EnqueueIs
    <2>2. CASE answer'.status # "accepted"
      <3>1. queues' = queues
        BY <1>1, <2>2, EnqueueIs
      <3>2. QED
        BY <2>1, <3>1 DEF Size
    <2>3. CASE answer'.status = "accepted"
      <3>1. Lane(setup.policy, job) \in Lanes
        BY <1>1, <2>3, EnqueueIs
      <3>2. /\ queues' \in [Lanes -> Seq(setup.jobs)]
            /\ Appended(queues, queues', Lane(setup.policy, job), job)
        BY <1>1, <2>3, EnqueueAppends
      <3>3. queues \in [Lanes -> Seq(setup.jobs)] /\ IsFiniteSet(Places(queues))
        BY DEF SchedulersInv, TypeOK
      <3>4. OneMore(queues, queues', job, job)
        BY <3>1, <3>2, <3>3, AppendCounts
      <3>5. Size' = Size + 1
        BY <3>4 DEF OneMore, Size, SizeOf
      <3>6. QED
        BY <2>1, <3>5
    <2>4. QED
      BY <2>2, <2>3
  <1>2. CASE UNCHANGED vars
    <2>1. Size \in Nat
      BY FS_CardinalityType DEF SchedulersInv, Size, SizeOf
    <2>2. Size' = Size
      BY <1>2 DEF vars, Size
    <2>3. QED
      BY <2>1, <2>2
  <1>3. QED
    BY <1>1, <1>2 DEF Next

(* The job that leaves is the one peek announced, the best of its lane      *)
(* where priorities count and the first of it elsewhere, and the jobs that  *)
(* stay keep their order.                                                   *)
THEOREM RightJobTaken == Spec => RightJobLeaves
  <1> DEFINE Right == Size' < Size =>
          /\ answer'.job = Peek
          /\ LET l == Lane(setup.policy, answer'.job) IN
               /\ setup.policy \in {"priority", "composed"} =>
                     \A i \in 1 .. Len(queues[l]) : ~Better(queues[l][i], answer'.job)
               /\ \E i \in 1 .. Len(queues[l]) :
                     /\ setup.policy \notin {"priority", "composed"} => i = 1
                     /\ queues[l] = SubSeq(queues'[l], 1, i - 1) \o <<answer'.job>>
                                      \o SubSeq(queues'[l], i, Len(queues'[l]))
               /\ \A m \in Lanes \ {l} : queues'[m] = queues[m]
  <1>1. SchedulersInv /\ [Next]_vars => Right
    <2> SUFFICES ASSUME SchedulersInv, [Next]_vars, Size' < Size
                 PROVE  /\ answer'.job = Peek
                        /\ LET l == Lane(setup.policy, answer'.job) IN
                             /\ setup.policy \in {"priority", "composed"} =>
                                   \A i \in 1 .. Len(queues[l]) :
                                      ~Better(queues[l][i], answer'.job)
                             /\ \E i \in 1 .. Len(queues[l]) :
                                   /\ setup.policy \notin {"priority", "composed"} => i = 1
                                   /\ queues[l] = SubSeq(queues'[l], 1, i - 1)
                                                    \o <<answer'.job>>
                                                    \o SubSeq(queues'[l], i, Len(queues'[l]))
                             /\ \A m \in Lanes \ {l} : queues'[m] = queues[m]
      OBVIOUS
    <2>1. Dequeue
      BY SmallerByDequeue
    <2>2. PICK h : h = NextLane
      OBVIOUS
    <2>3. PICK n : n = NextIndex
      OBVIOUS
    <2>4. /\ queues' \in [Lanes -> Seq(setup.jobs)]
          /\ Removed(queues, queues', h, n)
          /\ answer'.job = queues[h][n]
      BY <2>1, <2>2, <2>3, DequeueRemoves
    <2>5. /\ h \in Lanes /\ n \in 1 .. Len(queues[h])
          /\ Lane(setup.policy, queues[h][n]) = h
          /\ setup.policy \in {"priority", "composed"} =>
                \A i \in 1 .. Len(queues[h]) : ~Better(queues[h][i], queues[h][n])
          /\ setup.policy \notin {"priority", "composed"} => n = 1
      BY <2>1, <2>2, <2>3, DequeueRemoves, NextJob DEF SchedulersInv
    <2>6. Lane(setup.policy, answer'.job) = h
      BY <2>4, <2>5
    <2>7. answer'.job = Peek
      BY <2>1, <2>2, <2>3, <2>4, DequeueRemoves, PeekFinds DEF SchedulersInv
    <2>8. queues[h] \in Seq(setup.jobs) /\ queues'[h] \in Seq(setup.jobs)
      BY <2>4, <2>5 DEF SchedulersInv, TypeOK
    <2>9. /\ Len(queues[h]) = Len(queues'[h]) + 1
          /\ \A k \in 1 .. Len(queues'[h]) :
                queues'[h][k] = IF k < n THEN queues[h][k] ELSE queues[h][k + 1]
          /\ \A m \in Lanes : m # h => queues'[m] = queues[m]
      BY <2>4 DEF Removed
    <2>10. queues[h] = SubSeq(queues'[h], 1, n - 1) \o <<queues[h][n]>>
                         \o SubSeq(queues'[h], n, Len(queues'[h]))
      <3>1. PICK J : J = setup.jobs
        OBVIOUS
      <3>2. PICK s \in Seq(J) : s = queues[h]
        BY <2>8, <3>1
      <3>3. PICK r \in Seq(J) : r = queues'[h]
        BY <2>8, <3>1
      <3>4. /\ n \in 1 .. Len(s) /\ Len(s) = Len(r) + 1
            /\ \A k \in 1 .. Len(r) : r[k] = IF k < n THEN s[k] ELSE s[k + 1]
        BY <2>5, <2>9, <3>2, <3>3
      <3>5. s = SubSeq(r, 1, n - 1) \o <<s[n]>> \o SubSeq(r, n, Len(r))
        BY <3>4, PutBack, Zenon
      <3>6. QED
        BY <3>2, <3>3, <3>5, Zenon
    <2>11. QED
      BY <2>4, <2>5, <2>6, <2>7, <2>9, <2>10, Zenon
  <1>2. QED
    BY <1>1, SchedulersInvariant, PTL DEF Spec, RightJobLeaves

(***************************************************************************)
(* The buffer.                                                             *)
(***************************************************************************)

(* How often each job is held.                                              *)
Held(q) == [any \in Job |-> Cardinality(Filling(q, any))]

(* The count of a job that is added grows by one.                           *)
LEMMA HeldMore ==
    ASSUME NEW q, NEW r, NEW job \in Job, \A any \in Job : OneMore(q, r, job, any)
    PROVE  Held(r) = [Held(q) EXCEPT ![job] = @ + 1]
  <1>1. \A any \in Job : /\ Cardinality(Filling(q, any)) \in Nat
                         /\ Cardinality(Filling(r, any)) = IF any = job
                              THEN Cardinality(Filling(q, any)) + 1
                              ELSE Cardinality(Filling(q, any))
    BY DEF OneMore
  <1>2. QED
    BY <1>1 DEF Held

(* The count of the job that leaves was positive and drops by one.          *)
LEMMA HeldLess ==
    ASSUME NEW q, NEW r, NEW job \in Job, \A any \in Job : OneLess(q, r, job, any)
    PROVE  Held(r) = [Held(q) EXCEPT ![job] = @ - 1] /\ Held(q)[job] > 0
  <1>1. \A any \in Job : /\ Cardinality(Filling(q, any)) \in Nat
                         /\ Cardinality(Filling(r, any)) = IF any = job
                              THEN Cardinality(Filling(q, any)) - 1
                              ELSE Cardinality(Filling(q, any))
    BY DEF OneLess
  <1>2. Cardinality(Filling(q, job)) > 0
    BY DEF OneLess
  <1>3. QED
    BY <1>1, <1>2 DEF Held

(* Every step of a scheduler is one of the buffer.                          *)
LEMMA StepBuffers == SchedulersInv /\ [Next]_vars => [Buffer!Next]_(Buffer!vars)
  <1> DEFINE limit == IF Bounded THEN Capacity ELSE MaxSize
             held == [job \in Job |-> Cardinality(PlacesOf(job))]
  <1> SUFFICES ASSUME SchedulersInv, [Next]_vars PROVE [Buffer!Next]_(Buffer!vars)
    OBVIOUS
  <1>1. held = Held(queues) /\ held' = Held(queues')
    BY DEF Held, Filling, PlacesOf
  <1>2. setup \in Setups /\ queues \in [Lanes -> Seq(setup.jobs)] /\ IsFiniteSet(Places(queues))
    BY DEF SchedulersInv, TypeOK
  <1>3. setup.jobs \subseteq Job
    BY <1>2 DEF Job
  <1>4. setup' = setup => limit' = limit
    BY DEF Bounded
  <1> HIDE DEF limit, held
  <1>5. ASSUME NEW job \in setup.jobs, Enqueue(job) PROVE Buffer!Next
    <2>1. limit' = limit /\ answer'.status \in EnqueueAnswers
          /\ answer' = [status |-> answer'.status]
      BY <1>4, <1>5, EnqueueIs
    <2>2. CASE answer'.status # "accepted"
      <3>1. queues' = queues
        BY <1>5, <2>2, EnqueueIs
      <3>2. Size' = Size /\ held' = held
        BY <1>1, <3>1 DEF Size
      <3>3. answer'.status = "rejected_full" => Size = limit
        BY <1>5, EnqueueIs DEF limit
      <3>4. answer'.status \in EnqueueAnswers \ {"accepted"}
        BY <2>1, <2>2
      <3>5. Buffer!Refuse(answer'.status)
        BY <2>1, <3>2, <3>3 DEF Buffer!Refuse, limit, held
      <3>6. QED
        BY <2>1, <3>4, <3>5 DEF Buffer!Next, limit
    <2>3. CASE answer'.status = "accepted"
      <3>1. Lane(setup.policy, job) \in Lanes /\ Size < limit
        BY <1>5, <2>3, EnqueueIs DEF limit
      <3>2. /\ queues' \in [Lanes -> Seq(setup.jobs)]
            /\ Appended(queues, queues', Lane(setup.policy, job), job)
        BY <1>5, <2>3, EnqueueAppends
      <3>3. ASSUME NEW any PROVE OneMore(queues, queues', job, any)
        BY <1>2, <3>1, <3>2, AppendCounts
      <3>4. Size' = Size + 1
        BY <3>3 DEF OneMore, Size, SizeOf
      <3>5. held' = [held EXCEPT ![job] = @ + 1]
        BY <1>1, <1>3, <3>3, HeldMore
      <3>6. Buffer!Accept(job)
        BY <2>1, <2>3, <3>1, <3>4, <3>5 DEF Buffer!Accept, limit, held
      <3>7. QED
        BY <1>3, <2>1, <3>6 DEF Buffer!Next, limit
    <2>4. QED
      BY <2>2, <2>3
  <1>6. CASE Dequeue
    <2>1. PICK h : h = NextLane
      OBVIOUS
    <2>2. PICK n : n = NextIndex
      OBVIOUS
    <2>3. PICK job : job = queues[h][n]
      OBVIOUS
    <2>4. /\ queues' \in [Lanes -> Seq(setup.jobs)]
          /\ Removed(queues, queues', h, n)
          /\ answer' = [status |-> "dequeued", job |-> job]
          /\ setup' = setup
      BY <1>6, <2>1, <2>2, <2>3, DequeueRemoves
    <2>5. h \in Lanes /\ n \in 1 .. Len(queues[h]) /\ job \in setup.jobs
      BY <1>6, <2>1, <2>2, <2>3, DequeueRemoves, NextJob DEF SchedulersInv
    <2>6. ASSUME NEW any PROVE OneLess(queues, queues', job, any)
      BY <1>2, <2>3, <2>4, <2>5, RemoveCounts
    <2>7. Size' = Size - 1
      BY <2>6 DEF OneLess, Size, SizeOf
    <2>8. held' = [held EXCEPT ![job] = @ - 1] /\ held[job] > 0
      BY <1>1, <1>3, <2>5, <2>6, HeldLess
    <2>9. Buffer!Release(job)
      BY <2>4, <2>7, <2>8 DEF Buffer!Release, held
    <2>10. QED
      BY <1>3, <1>4, <2>4, <2>5, <2>9 DEF Buffer!Next, limit
  <1>7. CASE UNCHANGED vars
    <2>1. setup' = setup /\ queues' = queues /\ answer' = answer
      BY <1>7 DEF vars
    <2>2. limit' = limit /\ held' = held /\ Size' = Size
      BY <1>1, <1>4, <2>1 DEF Size
    <2>3. QED
      BY <2>1, <2>2 DEF Buffer!vars, limit, held
  <1>8. QED
    BY <1>5, <1>6, <1>7 DEF Next

(* Every policy is a buffer: no job is lost, doubled or made up, and a      *)
(* bounded scheduler answers REJECTED_FULL only when it is full.            *)
THEOREM PoliciesAreBuffers == Spec => ImplementsBuffer
  <1>1. Init => Buffer!Init
    <2> SUFFICES ASSUME Init PROVE Buffer!Init
      OBVIOUS
    <2>1. queues = NoJobs /\ answer = [status |-> "none"]
      BY DEF Init
    <2>2. Places(queues) = {}
      BY <2>1, NoPlaces
    <2>3. Size = 0
      BY <2>2, FS_EmptySet DEF Size, SizeOf
    <2>4. \A job \in Job : PlacesOf(job) = {}
      BY <2>2 DEF PlacesOf
    <2>5. [job \in Job |-> Cardinality(PlacesOf(job))] = [job \in Job |-> 0]
      BY <2>4, FS_EmptySet
    <2>6. QED
      BY <2>1, <2>3, <2>5, CapacityAssumption DEF Buffer!Init
  <1>2. QED
    BY <1>1, SchedulersInvariant, StepBuffers, PTL DEF Spec, ImplementsBuffer, Buffer!Spec
=============================================================================
