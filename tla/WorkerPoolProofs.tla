-------------------------- MODULE WorkerPoolProofs --------------------------
(***************************************************************************)
(* Proofs about WorkerPool for every number of goroutines, every capacity, *)
(* every pair of watermarks and every number of messages.                  *)
(***************************************************************************)
EXTENDS WorkerPool, FiniteSetTheorems, TLAPS

(***************************************************************************)
(* Counting.                                                               *)
(***************************************************************************)
Fields == {"MessagesSeen", "MessagesProcessed", "MessageErrors", "WorkItemsEnqueued",
           "WorkQueueFullErrors", "DeadLettersPublished", "DeadLetterPublishErrors"}

(* Counted adds one to the counters it names and leaves the others alone.   *)
LEMMA CountedAdds ==
    ASSUME stats \in Stats, NEW fields \in SUBSET Fields, Counted(fields)
    PROVE  /\ stats' \in Stats
           /\ \A f \in Fields : stats'[f] = IF f \in fields THEN stats[f] + 1 ELSE stats[f]
  <1>1. DOMAIN stats = Fields /\ \A f \in Fields : stats[f] \in Nat
    BY DEF Stats, Fields
  <1>2. stats' = [f \in Fields |-> IF f \in fields THEN stats[f] + 1 ELSE stats[f]]
    BY <1>1 DEF Counted
  <1>3. stats' \in [Fields -> Nat]
    BY <1>1, <1>2
  <1>4. stats' = [MessagesSeen |-> stats'["MessagesSeen"],
                  MessagesProcessed |-> stats'["MessagesProcessed"],
                  MessageErrors |-> stats'["MessageErrors"],
                  WorkItemsEnqueued |-> stats'["WorkItemsEnqueued"],
                  WorkQueueFullErrors |-> stats'["WorkQueueFullErrors"],
                  DeadLettersPublished |-> stats'["DeadLettersPublished"],
                  DeadLetterPublishErrors |-> stats'["DeadLetterPublishErrors"]]
    BY <1>2 DEF Fields
  <1>5. stats' \in Stats
    BY <1>3, <1>4 DEF Fields, Stats
  <1>6. QED
    BY <1>2, <1>5

(***************************************************************************)
(* PoolInv, action by action.                                              *)
(***************************************************************************)
(* A step of maybeApplyBackpressure touches the gate and the pause flag.    *)
LEMMA GateSteps ==
    ASSUME PoolInv, NEW g \in Goroutines, GateStep(g)
    PROVE  /\ PoolInv'
           /\ UNCHANGED <<position, poll, queue, closed, worker, stats, dropped,
                          discarded, finished>>
  <1> USE DEF PoolInv
  <1>0. /\ \A h \in Goroutines \ {g} : gate'[h] = gate[h]
        /\ gate[g].pc # "off"
        /\ UNCHANGED <<position, canceled, poll, queue, closed, worker, stats, dropped,
                       discarded, finished>>
    BY DEF GateStep, GateDepth, GateMayPause, GateMayResume, GateSwitch, TypeOK
  <1>1. gate' \in [Goroutines -> GateStates]
    <2>1. Len(queue) \in 0 .. QueueCapacity
      BY CapacityAssumption DEF TypeOK
    <2>2. CASE GateDepth(g)
      BY <2>1, <2>2 DEF GateDepth, TypeOK, GateStates
    <2>3. CASE GateMayPause(g)
      BY <2>3 DEF GateMayPause, TypeOK, GateStates
    <2>4. CASE GateMayResume(g)
      <3>1. [gate[g] EXCEPT !.pc = "resuming"] \in GateStates /\ Off \in GateStates
        BY CapacityAssumption DEF TypeOK, GateStates, Off
      <3>2. QED
        BY <2>4, <3>1 DEF GateMayResume, TypeOK
    <2>5. CASE GateSwitch(g)
      BY <2>5, CapacityAssumption DEF GateSwitch, Off, TypeOK, GateStates
    <2>6. QED
      BY <2>2, <2>3, <2>4, <2>5 DEF GateStep
  <1>2. gate'[g].pc = "off" => gate'[g] = Off
    BY DEF GateStep, GateDepth, GateMayPause, GateMayResume, GateSwitch, TypeOK, Off,
           GateStates
  <1>3. paused' \in BOOLEAN
    BY DEF GateStep, GateDepth, GateMayPause, GateMayResume, GateSwitch, TypeOK
  <1>4. TypeOK'
    BY <1>0, <1>1, <1>3 DEF TypeOK
  <1>5. \A w \in Workers : worker[w].pc = "exited" => gate'[w] = Off
    BY <1>0 DEF Goroutines, Off
  <1>6. QED
    BY <1>0, <1>2, <1>4, <1>5 DEF Goroutines

(* CallGate opens the gate of its caller, if backpressure is enabled.       *)
LEMMA CallGateOpens ==
    ASSUME TypeOK, NEW g \in Goroutines, CallGate(g)
    PROVE  /\ gate' \in [Goroutines -> GateStates]
           /\ \A h \in Goroutines \ {g} : gate'[h] = gate[h]
           /\ gate'[g].pc = "off" => gate'[g] = gate[g]
  BY CapacityAssumption DEF CallGate, TypeOK, GateStates

(* The poll goroutine, before and after the message.                        *)
LEMMA LoopSteps ==
    ASSUME PoolInv, LoopTop \/ PollTimeout \/ PollError
    PROVE  /\ PoolInv'
           /\ poll' = At("returning") \/ poll' = At("poll") \/ poll' = At("top")
           /\ poll.msg = NoMsg
           /\ UNCHANGED <<position, queue, worker, stats, dropped, discarded, finished>>
  <1> USE DEF PoolInv
  <1>1. /\ poll' = At("returning") \/ poll' = At("poll") \/ poll' = At("top")
        /\ poll.pc \in {"top", "poll"}
        /\ UNCHANGED <<position, canceled, queue, closed, worker, paused, stats, dropped,
                       discarded, finished>>
    BY DEF LoopTop, PollTimeout, PollError, PollerAt, Return
  <1>2. gate' = gate \/ CallGate(Poller)
    BY DEF LoopTop, PollTimeout, PollError
  <1>3. /\ gate' \in [Goroutines -> GateStates]
        /\ \A w \in Workers : gate'[w] = gate[w]
        /\ \A g \in Goroutines : gate'[g].pc = "off" => gate'[g] = Off
    <2>1. Poller \in Goroutines /\ \A w \in Workers : w \in Goroutines \ {Poller}
      BY PollerAssumption DEF Goroutines
    <2>2. CASE gate' = gate
      BY <2>1, <2>2 DEF TypeOK
    <2>3. CASE CallGate(Poller)
      BY <2>1, <2>3, CallGateOpens
    <2>4. QED
      BY <1>2, <2>2, <2>3
  <1>4. TypeOK'
    BY <1>1, <1>3 DEF TypeOK, PollStates, At
  <1>5. QED
    BY <1>1, <1>3, <1>4 DEF At, NoMsg

(* Poll hands out a message.                                                *)
LEMMA PollMessageStep ==
    ASSUME PoolInv, PollMessage
    PROVE  PoolInv'
  <1>0. TypeOK /\ LastOffset \in Nat
    BY CapacityAssumption DEF PoolInv
  <1>1. /\ poll.pc = "poll" /\ poll.msg = NoMsg /\ discarded = {}
        /\ position \in Offsets /\ position' = position + 1
        /\ UNCHANGED <<canceled, queue, closed, worker, gate, paused, dropped, finished>>
    BY <1>0 DEF PoolInv, PollMessage, PollerAt, TypeOK, Offsets
  <1>2. stats' \in Stats
    BY <1>0, CountedAdds DEF PollMessage, TypeOK, Fields
  <1>3. \/ poll' = At("returning") /\ discarded' = {position}
        \/ poll' = [pc |-> "decode", msg |-> position] /\ discarded' = {}
    BY <1>1 DEF PollMessage, Return
  <1>4. position' \in 1 .. LastOffset + 1 /\ discarded' \subseteq Offsets
    BY <1>0, <1>1, <1>3 DEF TypeOK, Offsets
  <1>5. poll' \in PollStates
    BY <1>1, <1>3 DEF At, PollStates
  <1>6. TypeOK'
    BY <1>0, <1>1, <1>2, <1>4, <1>5 DEF TypeOK
  <1>7. \A w \in Workers : worker[w].msg \in Nat /\ worker[w].msg < position
    BY <1>0 DEF PoolInv, TypeOK, WorkerStates, Offsets, NoMsg
  <1>8. \A i \in 1 .. Len(queue) : queue[i] \in Nat /\ queue[i] < position
    BY <1>0 DEF PoolInv, TypeOK, Offsets
  <1>9. \A w \in Workers : worker[w].msg < position' /\ (poll'.msg # NoMsg => worker[w].msg < poll'.msg)
    BY <1>0, <1>1, <1>3, <1>7 DEF At, NoMsg, TypeOK, Offsets
  <1>10. \A i \in 1 .. Len(queue) :
            queue[i] < position' /\ (poll'.msg # NoMsg => queue[i] < poll'.msg)
    BY <1>0, <1>1, <1>3, <1>8 DEF At, NoMsg, TypeOK, Offsets
  <1>11. /\ poll'.msg # NoMsg <=> poll'.pc = "decode"
         /\ poll'.msg # NoMsg => poll'.msg = position' - 1
         /\ poll'.pc \in {"decode", "returning"}
         /\ discarded' # {} => poll'.pc = "returning" /\ discarded' = {position' - 1}
    BY <1>1, <1>3 DEF At, NoMsg, Offsets
  <1>12. QED
    BY <1>1, <1>6, <1>9, <1>10, <1>11 DEF PoolInv

(* ParseDispatchEvent.                                                      *)
LEMMA DecodeStep ==
    ASSUME PoolInv, NEW valid \in BOOLEAN, Decode(valid)
    PROVE  PoolInv'
  <1> USE DEF PoolInv
  <1>1. /\ poll.pc = "decode"
        /\ poll' = [poll EXCEPT !.pc = IF valid THEN "enqueue" ELSE "dead_letter"]
        /\ UNCHANGED <<position, canceled, queue, closed, worker, gate, paused, dropped,
                       discarded, finished>>
    BY DEF Decode, PollerAt
  <1>2. stats' \in Stats
    BY CountedAdds DEF Decode, TypeOK, Fields
  <1>3. poll'.msg = poll.msg /\ poll'.pc \in {"enqueue", "dead_letter"}
    BY <1>1 DEF TypeOK
  <1>4. TypeOK'
    BY <1>1, <1>2 DEF TypeOK, PollStates
  <1>5. QED
    BY <1>1, <1>3, <1>4

(* What a successful send does.                                             *)
LEMMA SendEffect ==
    ASSUME PoolInv, poll.pc \in {"enqueue", "sleep"}, Send
    PROVE  /\ poll' = At("top") /\ poll.msg \in Offsets /\ poll.msg = position - 1
           /\ queue' \in Seq(Offsets) /\ Len(queue') = Len(queue) + 1
           /\ Len(queue') <= QueueCapacity
           /\ \A i \in 1 .. Len(queue) : queue'[i] = queue[i]
           /\ queue'[Len(queue) + 1] = poll.msg
           /\ stats' \in Stats /\ dropped' = dropped
           /\ gate' \in [Goroutines -> GateStates]
           /\ \A w \in Workers : gate'[w] = gate[w]
           /\ \A g \in Goroutines : gate'[g].pc = "off" => gate'[g] = Off
  <1>0. TypeOK /\ QueueCapacity \in Nat
    BY CapacityAssumption DEF PoolInv
  <1>1. poll.msg \in Offsets /\ poll.msg = position - 1
    BY <1>0 DEF PoolInv, TypeOK, PollStates, Offsets, NoMsg
  <1>2. /\ queue' \in Seq(Offsets) /\ Len(queue') = Len(queue) + 1
        /\ Len(queue') <= QueueCapacity
        /\ \A i \in 1 .. Len(queue) : queue'[i] = queue[i]
        /\ queue'[Len(queue) + 1] = poll.msg
    BY <1>0, <1>1 DEF Send, TypeOK
  <1>3. stats' \in Stats
    BY <1>0, CountedAdds DEF Send, TypeOK, Fields
  <1>4. /\ gate' \in [Goroutines -> GateStates]
        /\ \A w \in Workers : gate'[w] = gate[w]
        /\ \A g \in Goroutines : gate'[g].pc = "off" => gate'[g] = Off
    <2>1. Poller \in Goroutines /\ \A w \in Workers : w \in Goroutines \ {Poller}
      BY PollerAssumption DEF Goroutines
    <2>2. QED
      BY <1>0, <2>1, CallGateOpens DEF Send, PoolInv
  <1>5. QED
    BY <1>1, <1>2, <1>3, <1>4 DEF Send

(* The first and the second attempt to enqueue.                             *)
LEMMA EnqueueSteps ==
    ASSUME PoolInv, Enqueue \/ EnqueueAgain
    PROVE  PoolInv'
  <1>0. /\ TypeOK /\ poll.pc \in {"enqueue", "sleep"}
        /\ poll.msg \in Offsets /\ poll.msg = position - 1
        /\ discarded = {} /\ ~closed /\ \A w \in Workers : worker[w].pc # "exited"
    BY DEF PoolInv, Enqueue, EnqueueAgain, PollerAt, TypeOK, PollStates, Offsets, NoMsg
  <1>1. UNCHANGED <<position, canceled, closed, worker, paused, discarded, finished>>
    BY DEF Enqueue, EnqueueAgain
  <1>2. CASE Send
    <2>1. TypeOK'
      BY <1>0, <1>1, <1>2, SendEffect DEF TypeOK, PollStates, At
    <2>2. \A i \in 1 .. Len(queue') : queue'[i] < position
      BY <1>0, <1>2, SendEffect DEF PoolInv, TypeOK, Offsets
    <2>3. poll'.msg = NoMsg /\ poll'.pc = "top"
      BY <1>0, <1>2, SendEffect DEF At
    <2>4. \A g \in Goroutines : gate'[g].pc = "off" => gate'[g] = Off
      BY <1>0, <1>2, SendEffect
    <2>5. QED
      BY <1>0, <1>1, <2>1, <2>2, <2>3, <2>4 DEF PoolInv
  <1>3. CASE ~Send
    <2>1. /\ UNCHANGED <<queue, gate>>
          /\ \/ poll' = [poll EXCEPT !.pc = "sleep"] /\ dropped' = dropped
             \/ poll' = At("top") /\ dropped' = dropped \cup {poll.msg}
      BY <1>3 DEF Enqueue, EnqueueAgain
    <2>2. stats' \in Stats
      BY <1>0, <1>3, CountedAdds DEF Enqueue, EnqueueAgain, TypeOK, Fields
    <2>3. \/ poll'.pc = "sleep" /\ poll'.msg = poll.msg
          \/ poll'.pc = "top" /\ poll'.msg = NoMsg
      BY <1>0, <2>1 DEF At, TypeOK, PollStates
    <2>4. TypeOK'
      BY <1>0, <1>1, <2>1, <2>2 DEF TypeOK, PollStates, At
    <2>5. QED
      BY <1>0, <1>1, <2>1, <2>3, <2>4 DEF PoolInv
  <1>4. QED
    BY <1>2, <1>3

(* A message that does not parse.                                           *)
LEMMA PollerDeadLettersStep ==
    ASSUME PoolInv, NEW published \in BOOLEAN, PollerDeadLetters(published)
    PROVE  PoolInv'
  <1>0. /\ TypeOK /\ poll.pc = "dead_letter" /\ poll.msg \in Offsets
        /\ discarded = {} /\ ~closed
    BY DEF PoolInv, PollerDeadLetters, PollerAt, TypeOK, PollStates, Offsets, NoMsg
  <1>1. /\ poll' = At("top") /\ finished' = finished \cup {poll.msg}
        /\ UNCHANGED <<position, canceled, queue, closed, worker, gate, paused,
                       dropped, discarded>>
    BY DEF PollerDeadLetters
  <1>2. stats' \in Stats
    BY <1>0, CountedAdds DEF PollerDeadLetters, TypeOK, Fields
  <1>3. TypeOK'
    BY <1>0, <1>1, <1>2 DEF TypeOK, PollStates, At
  <1>4. QED
    BY <1>0, <1>1, <1>3 DEF PoolInv, At

(* pool.Shutdown, its end, and the signal.                                  *)
LEMMA ShutdownSteps ==
    ASSUME PoolInv, Shutdown \/ Stopped \/ Signal
    PROVE  /\ PoolInv'
           /\ \/ poll' = poll
              \/ poll' \in {At("waiting"), At("stopped")} /\ poll.msg = NoMsg
           /\ UNCHANGED <<position, queue, worker, stats, dropped, discarded, finished>>
  <1>1. CASE Shutdown
    <2>1. TypeOK'
      BY <1>1 DEF PoolInv, Shutdown, TypeOK, PollStates, At
    <2>2. QED
      BY <1>1, <2>1 DEF PoolInv, Shutdown, PollerAt, At
  <1>2. CASE Stopped
    <2>1. TypeOK'
      BY <1>2 DEF PoolInv, Stopped, TypeOK, PollStates, At
    <2>2. QED
      BY <1>2, <2>1 DEF PoolInv, Stopped, PollerAt, At
  <1>3. CASE Signal
    BY <1>3 DEF PoolInv, Signal, TypeOK
  <1>4. QED
    BY <1>1, <1>2, <1>3

(* What receiving from the channel does.                                    *)
LEMMA TakeEffect ==
    ASSUME PoolInv, NEW w \in Workers, Take(w)
    PROVE  /\ worker[w].pc = "idle" /\ worker[w].msg = NoMsg
           /\ queue # <<>> /\ queue[1] \in Offsets
           /\ worker'[w] = [pc |-> "working", msg |-> queue[1]]
           /\ \A v \in Workers \ {w} : worker'[v] = worker[v]
           /\ worker' \in [Workers -> WorkerStates]
           /\ queue' \in Seq(Offsets) /\ Len(queue) \in Nat /\ Len(queue') = Len(queue) - 1
           /\ \A i \in 1 .. Len(queue') : queue'[i] = queue[i + 1]
           /\ UNCHANGED <<position, canceled, poll, closed, gate, paused, stats,
                          dropped, discarded, finished>>
  <1>0. TypeOK
    BY DEF PoolInv
  <1>1. worker[w].pc = "idle" /\ worker[w].msg = NoMsg
    BY DEF PoolInv, Take, WorkerAt
  <1>2. queue \in Seq(Offsets) /\ queue # <<>>
    BY <1>0 DEF Take, TypeOK
  <1>3. /\ queue[1] \in Offsets /\ queue' \in Seq(Offsets)
        /\ Len(queue) \in Nat /\ Len(queue') = Len(queue) - 1
        /\ \A i \in 1 .. Len(queue') : queue'[i] = queue[i + 1]
        /\ Head(queue) = queue[1]
    BY <1>2 DEF Take
  <1>4. /\ worker'[w] = [pc |-> "working", msg |-> queue[1]]
        /\ \A v \in Workers \ {w} : worker'[v] = worker[v]
        /\ worker' \in [Workers -> WorkerStates]
    BY <1>0, <1>3 DEF Take, TypeOK, WorkerStates
  <1>5. QED
    BY <1>1, <1>2, <1>3, <1>4 DEF Take

(* Take keeps the invariant: what a worker takes is the oldest message      *)
(* queued.                                                                  *)
LEMMA TakeStep ==
    ASSUME PoolInv, NEW w \in Workers, Take(w)
    PROVE  PoolInv'
  <1>0. TypeOK /\ Len(queue) \in Nat /\ Len(queue) >= 1 /\ position \in Nat /\ poll.msg \in Nat
    BY TakeEffect DEF PoolInv, TypeOK, PollStates, Offsets, NoMsg
  <1>1. TypeOK'
    BY <1>0, TakeEffect, CapacityAssumption DEF TypeOK
  <1>2. \A i \in 1 .. Len(queue') :
            queue'[i] < position /\ (poll.msg # NoMsg => queue'[i] < poll.msg)
    <2> TAKE i \in 1 .. Len(queue')
    <2>1. i + 1 \in 1 .. Len(queue) /\ queue'[i] = queue[i + 1]
      BY <1>0, TakeEffect
    <2>2. QED
      BY <2>1 DEF PoolInv
  <1>3. 1 \in 1 .. Len(queue)
    BY <1>0
  <1>4. \A v \in Workers : worker[v].pc # "exited"
    BY TakeEffect DEF PoolInv
  <1>5. \A v \in Workers :
          /\ worker'[v].msg # NoMsg <=> worker'[v].pc \in {"working", "dead_letter"}
          /\ worker'[v].msg < position
          /\ poll.msg # NoMsg => worker'[v].msg < poll.msg
          /\ worker'[v].pc # "exited"
    BY <1>3, <1>4, TakeEffect DEF PoolInv, Offsets, NoMsg
  <1>6. QED
    BY <1>1, <1>2, <1>4, <1>5, TakeEffect DEF PoolInv

(* A worker gets an answer from Handle, or from the dead-letter topic.      *)
Answered(w) ==
    \/ \E ok \in BOOLEAN : HandleReturns(w, ok)
    \/ \E published \in BOOLEAN : WorkerDeadLetters(w, published)

(* A worker that is done with its message keeps the invariant, and its      *)
(* message is finished or on its way to the dead-letter topic.              *)
LEMMA HandledSteps ==
    ASSUME PoolInv, NEW w \in Workers, Answered(w)
    PROVE  /\ PoolInv'
           /\ worker[w].msg \in Offsets
           /\ \A v \in Workers \ {w} : worker'[v] = worker[v]
           /\ \/ /\ worker'[w] = IdleWorker
                 /\ finished' = finished \cup {worker[w].msg}
              \/ /\ worker[w].pc = "working"
                 /\ worker'[w] = [pc |-> "dead_letter", msg |-> worker[w].msg]
                 /\ finished' = finished
           /\ UNCHANGED <<position, poll, queue, dropped, discarded>>
  <1>0. TypeOK /\ worker[w].pc \in {"working", "dead_letter"} /\ worker[w].msg \in Offsets
    BY DEF PoolInv, Answered, HandleReturns, WorkerDeadLetters, WorkerAt, TypeOK, WorkerStates, NoMsg
  <1>1. /\ \A v \in Workers \ {w} : worker'[v] = worker[v]
        /\ \/ /\ worker'[w] = IdleWorker
              /\ finished' = finished \cup {worker[w].msg}
           \/ /\ worker[w].pc = "working"
              /\ worker'[w] = [pc |-> "dead_letter", msg |-> worker[w].msg]
              /\ finished' = finished
        /\ worker' \in [Workers -> WorkerStates]
    BY <1>0 DEF Answered, HandleReturns, WorkerDeadLetters, WorkerAt, TypeOK, WorkerStates, IdleWorker
  <1>2. UNCHANGED <<position, canceled, poll, queue, closed, paused, dropped, discarded>>
    BY DEF Answered, HandleReturns, WorkerDeadLetters
  <1>3. stats' \in Stats
    BY <1>0, CountedAdds DEF Answered, HandleReturns, WorkerDeadLetters, TypeOK, Fields
  <1>4. /\ gate' \in [Goroutines -> GateStates]
        /\ \A v \in Workers \ {w} : gate'[v] = gate[v]
        /\ \A g \in Goroutines : gate'[g].pc = "off" => gate'[g] = Off
    <2>1. \A v \in Workers : v \in Goroutines
      BY DEF Goroutines
    <2>2. CASE gate' = gate
      BY <1>0, <2>1, <2>2 DEF PoolInv, TypeOK
    <2>3. CASE CallGate(w)
      BY <1>0, <2>1, <2>3, CallGateOpens DEF PoolInv
    <2>4. QED
      BY <2>2, <2>3 DEF Answered, HandleReturns, WorkerDeadLetters
  <1>5. TypeOK'
    BY <1>0, <1>1, <1>2, <1>3, <1>4 DEF TypeOK
  <1>6. position > 0 /\ (poll.msg # NoMsg => poll.msg > 0)
    BY <1>0 DEF TypeOK, PollStates, Offsets, NoMsg
  <1>7. \A v \in Workers :
          /\ worker'[v].msg # NoMsg <=> worker'[v].pc \in {"working", "dead_letter"}
          /\ worker'[v].msg < position
          /\ poll.msg # NoMsg => worker'[v].msg < poll.msg
          /\ worker'[v].pc = "exited" => closed /\ queue = <<>> /\ gate'[v] = Off
    BY <1>0, <1>1, <1>4, <1>6 DEF PoolInv, IdleWorker, NoMsg, Offsets
  <1>8. poll.pc # "stopped"
    BY <1>0 DEF PoolInv
  <1>9. PoolInv'
    BY <1>2, <1>4, <1>5, <1>7, <1>8 DEF PoolInv
  <1>10. QED
    BY <1>0, <1>1, <1>2, <1>9

(* The end of the range loop.                                               *)
LEMMA ExitStep ==
    ASSUME PoolInv, NEW w \in Workers, Exit(w)
    PROVE  /\ PoolInv'
           /\ worker[w].msg = NoMsg /\ worker[w].pc = "idle" /\ worker'[w] = At("exited")
           /\ \A v \in Workers \ {w} : worker'[v] = worker[v]
           /\ UNCHANGED <<position, poll, queue, stats, dropped, discarded, finished>>
  <1>0. /\ TypeOK /\ worker[w].pc = "idle" /\ worker[w].msg = NoMsg
        /\ gate[w] = Off /\ closed /\ queue = <<>>
    BY DEF PoolInv, Exit, WorkerAt, Goroutines
  <1>1. /\ \A v \in Workers \ {w} : worker'[v] = worker[v]
        /\ worker'[w] = At("exited")
        /\ worker' \in [Workers -> WorkerStates]
    BY <1>0 DEF Exit, At, TypeOK, WorkerStates
  <1>2. UNCHANGED <<position, canceled, poll, queue, closed, gate, paused,
                    stats, dropped, discarded, finished>>
    BY DEF Exit
  <1>3. TypeOK'
    BY <1>0, <1>1, <1>2 DEF TypeOK
  <1>4. \A v \in Workers :
          /\ worker'[v].msg # NoMsg <=> worker'[v].pc \in {"working", "dead_letter"}
          /\ worker'[v].msg < position
          /\ poll.msg # NoMsg => worker'[v].msg < poll.msg
          /\ worker'[v].pc = "exited" => closed /\ queue = <<>> /\ gate[v] = Off
          /\ worker[v].pc = "exited" => worker'[v].pc = "exited"
    BY <1>0, <1>1 DEF PoolInv, At
  <1>5. PoolInv'
    BY <1>2, <1>3, <1>4 DEF PoolInv
  <1>6. QED
    BY <1>0, <1>1, <1>2, <1>5

(***************************************************************************)
(* Steps that move no message: evaluating the watermarks, going round the  *)
(* poll loop, shutting down.                                               *)
(***************************************************************************)
Quiet ==
    \/ \E g \in Goroutines : GateStep(g)
    \/ LoopTop \/ PollTimeout \/ PollError
    \/ Shutdown \/ Stopped \/ Signal
    \/ \E w \in Workers : Exit(w)
    \/ UNCHANGED vars

(* A goroutine in one of these states has work left.                        *)
Busy == {"decode", "enqueue", "sleep", "working", "dead_letter"}

(* These steps keep the invariant and lose, take or count no message.       *)
LEMMA QuietSteps ==
    ASSUME PoolInv, Quiet
    PROVE  /\ PoolInv'
           /\ UNCHANGED <<position, queue, stats, dropped, discarded, finished>>
           /\ poll' = poll \/ (poll.pc \notin Busy /\ poll'.pc \notin Busy)
           /\ poll'.msg = poll.msg
           /\ \A v \in Workers : worker'[v].msg = worker[v].msg
           /\ \A v \in Workers :
                worker'[v] = worker[v] \/ (worker[v].pc \notin Busy /\ worker'[v].pc \notin Busy)
  <1> DEFINE Goal ==
           /\ PoolInv'
           /\ UNCHANGED <<position, queue, stats, dropped, discarded, finished>>
           /\ poll' = poll \/ (poll.pc \notin Busy /\ poll'.pc \notin Busy)
           /\ poll'.msg = poll.msg
           /\ \A v \in Workers : worker'[v].msg = worker[v].msg
           /\ \A v \in Workers :
                worker'[v] = worker[v] \/ (worker[v].pc \notin Busy /\ worker'[v].pc \notin Busy)
  <1>1. ASSUME NEW g \in Goroutines, GateStep(g) PROVE Goal
    BY <1>1, GateSteps
  <1>2. CASE LoopTop \/ PollTimeout \/ PollError
    <2>1. poll.pc \in {"top", "poll"}
      BY <1>2 DEF LoopTop, PollTimeout, PollError, PollerAt
    <2>2. QED
      BY <1>2, <2>1, LoopSteps DEF At, Busy
  <1>3. CASE Shutdown \/ Stopped \/ Signal
    <2>1. CASE poll' = poll
      BY <1>3, <2>1, ShutdownSteps
    <2>2. CASE poll' \in {At("waiting"), At("stopped")} /\ poll.msg = NoMsg
      <3>1. poll.pc \notin Busy
        <4>1. poll.pc \notin {"decode", "enqueue", "sleep", "dead_letter"}
          BY <2>2 DEF PoolInv
        <4>2. poll.pc # "working"
          BY DEF PoolInv, TypeOK, PollStates
        <4>3. QED
          BY <4>1, <4>2 DEF Busy
      <3>2. poll'.pc \notin Busy /\ poll'.msg = NoMsg
        BY <2>2 DEF At, Busy
      <3>3. QED
        BY <1>3, <2>2, <3>1, <3>2, ShutdownSteps
    <2>3. QED
      BY <1>3, <2>1, <2>2, ShutdownSteps
  <1>4. ASSUME NEW w \in Workers, Exit(w) PROVE Goal
    <2>1. \A v \in Workers :
             /\ worker'[v].msg = worker[v].msg
             /\ worker'[v] = worker[v] \/ (worker[v].pc \notin Busy /\ worker'[v].pc \notin Busy)
      BY <1>4, ExitStep DEF At, Busy
    <2>2. QED
      BY <1>4, <2>1, ExitStep
  <1>5. CASE UNCHANGED vars
    BY <1>5 DEF vars, PoolInv, TypeOK
  <1>6. QED
    BY <1>1, <1>2, <1>3, <1>4, <1>5 DEF Quiet

(* Every step is quiet or one of these.                                     *)
LEMMA Steps ==
    ASSUME [Next]_vars
    PROVE  \/ Quiet
           \/ PollMessage
           \/ \E valid \in BOOLEAN : Decode(valid)
           \/ Enqueue \/ EnqueueAgain
           \/ \E published \in BOOLEAN : PollerDeadLetters(published)
           \/ \E w \in Workers : Take(w) \/ Answered(w)
  BY DEF Next, PollerStep, WorkerStep, Quiet, Goroutines, Answered

(* A worker pool that starts has nothing in hand.                           *)
LEMMA InitPoolInv == Init => PoolInv
  <1> SUFFICES ASSUME Init PROVE PoolInv
    OBVIOUS
  <1>1. At("top") \in PollStates /\ IdleWorker \in WorkerStates /\ Off \in GateStates
    BY CapacityAssumption DEF At, PollStates, IdleWorker, WorkerStates, Off, GateStates
  <1>2. stats \in Stats
    BY DEF Init, Stats
  <1>3. /\ queue \in Seq(Offsets) /\ Len(queue) = 0 /\ 0 <= QueueCapacity
        /\ position \in 1 .. LastOffset + 1
    BY CapacityAssumption DEF Init
  <1>4. TypeOK
    BY <1>1, <1>2, <1>3 DEF Init, TypeOK
  <1>5. QED
    BY <1>3, <1>4 DEF Init, PoolInv, At, IdleWorker, NoMsg

(* PoolInv is inductive.                                                    *)
LEMMA NextPoolInv ==
    ASSUME PoolInv, [Next]_vars
    PROVE  PoolInv'
  BY Steps, QuietSteps, PollMessageStep, DecodeStep, EnqueueSteps, PollerDeadLettersStep,
     TakeStep, HandledSteps

(* PoolInv holds in every reachable state of the worker process, whatever   *)
(* the goroutines do to the queue, the gate and the channel.                *)
THEOREM PoolInvariant == Spec => []PoolInv
  BY InitPoolInv, NextPoolInv, PTL DEF Spec

(***************************************************************************)
(* The order of messages.                                                  *)
(***************************************************************************)
LEMMA OrderKept ==
    ASSUME PoolInv, PoolInv', TakenInOrder, [Next]_vars
    PROVE  TakenInOrder'
  <1>0. TypeOK /\ TypeOK'
    BY DEF PoolInv
  <1> DEFINE Behind ==
        /\ \A i, k \in 1 .. Len(queue) : i < k => queue[i] < queue[k]
        /\ \A v \in Workers : worker[v].msg # NoMsg =>
              /\ \A i \in 1 .. Len(queue) : worker[v].msg < queue[i]
              /\ \A w \in Workers \ {v} : worker[w].msg # worker[v].msg
  <1>1. SUFFICES Behind'
    BY DEF TakenInOrder
  <1>2. Behind
    BY DEF TakenInOrder
  <1>3. CASE queue' = queue /\ \A v \in Workers : worker'[v].msg = worker[v].msg
    BY <1>2, <1>3
  <1>4. CASE (Enqueue \/ EnqueueAgain) /\ Send
    <2>1. /\ poll.msg \in Offsets /\ Len(queue) \in Nat /\ Len(queue') = Len(queue) + 1
          /\ \A i \in 1 .. Len(queue) : queue'[i] = queue[i]
          /\ queue'[Len(queue) + 1] = poll.msg
          /\ worker' = worker
      BY <1>0, <1>4, SendEffect DEF Enqueue, EnqueueAgain, PollerAt, TypeOK
    <2>2. \A i \in 1 .. Len(queue) : queue[i] < poll.msg
      BY <2>1 DEF PoolInv, Offsets, NoMsg
    <2>3. \A v \in Workers : worker[v].msg < poll.msg
      BY <2>1 DEF PoolInv, Offsets, NoMsg
    <2>4. \A i, k \in 1 .. Len(queue') : i < k => queue'[i] < queue'[k]
      <3> SUFFICES ASSUME NEW i \in 1 .. Len(queue'), NEW k \in 1 .. Len(queue'), i < k
                   PROVE  queue'[i] < queue'[k]
        OBVIOUS
      <3>1. i \in 1 .. Len(queue)
        BY <2>1
      <3>2. CASE k = Len(queue) + 1
        BY <2>1, <2>2, <3>1, <3>2
      <3>3. CASE k \in 1 .. Len(queue)
        BY <1>2, <2>1, <3>1, <3>3
      <3>4. QED
        BY <2>1, <3>2, <3>3
    <2>5. \A v \in Workers : worker[v].msg # NoMsg =>
             \A i \in 1 .. Len(queue') : worker[v].msg < queue'[i]
      BY <1>2, <2>1, <2>3
    <2>6. QED
      BY <1>2, <2>1, <2>4, <2>5
  <1>5. ASSUME NEW w \in Workers, Take(w) PROVE Behind'
    <2>1. Len(queue) \in Nat /\ Len(queue) >= 1 /\ Len(queue') = Len(queue) - 1
      BY <1>0, <1>5, TakeEffect DEF TypeOK
    <2>2. \A i \in 1 .. Len(queue') : i + 1 \in 1 .. Len(queue) /\ queue'[i] = queue[i + 1]
      BY <1>5, <2>1, TakeEffect
    <2>3. worker'[w].msg = queue[1] /\ \A v \in Workers \ {w} : worker'[v] = worker[v]
      BY <1>5, TakeEffect
    <2>4. \A i, k \in 1 .. Len(queue') : i < k => queue'[i] < queue'[k]
      BY <1>2, <2>1, <2>2
    <2>5. \A i \in 1 .. Len(queue') : worker'[w].msg < queue'[i]
      BY <1>2, <2>1, <2>2, <2>3
    <2>6. \A v \in Workers \ {w} : worker[v].msg # NoMsg =>
             /\ worker[v].msg < worker'[w].msg
             /\ \A i \in 1 .. Len(queue') : worker[v].msg < queue'[i]
      BY <1>2, <2>1, <2>2, <2>3
    <2>7. worker'[w].msg \in Nat /\ \A v \in Workers : worker[v].msg \in Nat
      BY <1>0 DEF TypeOK, WorkerStates, Offsets, NoMsg
    <2>8. \A v, u \in Workers : v # u /\ worker'[v].msg # NoMsg => worker'[u].msg # worker'[v].msg
      <3> SUFFICES ASSUME NEW v \in Workers, NEW u \in Workers, v # u, worker'[v].msg # NoMsg
                   PROVE  worker'[u].msg # worker'[v].msg
        OBVIOUS
      <3>1. CASE v = w
        BY <2>3, <2>6, <2>7, <3>1
      <3>2. CASE u = w
        BY <2>3, <2>6, <2>7, <3>2
      <3>3. CASE v # w /\ u # w
        BY <1>2, <2>3, <3>3
      <3>4. QED
        BY <3>1, <3>2, <3>3
    <2>9. QED
      BY <2>3, <2>4, <2>5, <2>6, <2>8
  <1>6. ASSUME NEW w \in Workers, Answered(w) PROVE Behind'
    <2>1. /\ queue' = queue /\ \A v \in Workers \ {w} : worker'[v] = worker[v]
          /\ worker'[w].msg = NoMsg \/ worker'[w].msg = worker[w].msg
      <3>1. /\ queue' = queue /\ \A v \in Workers \ {w} : worker'[v] = worker[v]
            /\ \/ worker'[w] = IdleWorker
               \/ worker'[w] = [pc |-> "dead_letter", msg |-> worker[w].msg]
        BY <1>6, HandledSteps
      <3>2. QED
        BY <3>1 DEF IdleWorker
    <2>2. QED
      BY <1>2, <2>1
  <1>7. CASE PollMessage \/ (\E valid \in BOOLEAN : Decode(valid))
               \/ (\E published \in BOOLEAN : PollerDeadLetters(published))
    BY <1>3, <1>7 DEF PollMessage, Decode, PollerDeadLetters
  <1>8. CASE (Enqueue \/ EnqueueAgain) /\ ~Send
    BY <1>3, <1>8 DEF Enqueue, EnqueueAgain
  <1>9. CASE Quiet
    BY <1>3, <1>9, QuietSteps
  <1>10. QED
    BY <1>4, <1>5, <1>6, <1>7, <1>8, <1>9, Steps

(* Messages reach the handler in offset order, one goroutine each, for any  *)
(* number of goroutines and any capacity.                                   *)
THEOREM HandledInOrder == Spec => []TakenInOrder
  <1>1. Init => TakenInOrder
    BY DEF Init, TakenInOrder, IdleWorker, NoMsg, InHand, At
  <1>2. PoolInv /\ PoolInv' /\ TakenInOrder /\ [Next]_vars => TakenInOrder'
    BY OrderKept
  <1>3. QED
    BY <1>1, <1>2, PoolInvariant, PTL DEF Spec

(***************************************************************************)
(* Where the messages are.                                                 *)
(***************************************************************************)
Queued == {queue[i] : i \in 1 .. Len(queue)}
Hands == {worker[w].msg : w \in Workers}

(* How a step may move messages: nothing moves; Poll takes one in; one      *)
(* leaves memory for good.                                                  *)
LEMMA AliveKept ==
    ASSUME PoolInv, PoolInv', TakenInOrder, NoneLostAlive, [Next]_vars
    PROVE  NoneLostAlive'
  <1>0. TypeOK /\ TypeOK'
    BY DEF PoolInv
  <1>m. Memory = Queued \cup (({poll.msg} \cup Hands) \ {NoMsg})
    BY DEF Memory, Queued, Hands
  <1>n. Memory' = Queued' \cup (({poll'.msg} \cup Hands') \ {NoMsg})
    BY DEF Memory, Queued, Hands
  <1>1. CASE UNCHANGED <<position, finished, dropped, discarded>> /\ Memory' = Memory
    BY <1>1 DEF NoneLostAlive
  <1>2. ASSUME NEW m, m \in Memory, Memory' = Memory \ {m}, position' = position,
               discarded' = discarded,
               \/ finished' = finished \cup {m} /\ dropped' = dropped
               \/ dropped' = dropped \cup {m} /\ finished' = finished
        PROVE  NoneLostAlive'
    BY <1>2 DEF NoneLostAlive
  <1>3. CASE Quiet
    <2>1. Queued' = Queued /\ Hands' = Hands /\ poll'.msg = poll.msg
      BY <1>3, QuietSteps DEF Queued, Hands
    <2>2. QED
      BY <1>1, <1>3, <1>m, <1>n, <2>1, QuietSteps
  <1>4. CASE PollMessage
    <2>1. /\ position \in Nat \ {0} /\ position' = position + 1 /\ poll.msg = NoMsg
          /\ Queued' = Queued /\ Hands' = Hands /\ finished' = finished /\ dropped' = dropped
      BY <1>0, <1>4 DEF PollMessage, PollerAt, PoolInv, TypeOK, Queued, Hands
    <2>2. \/ poll'.msg = NoMsg /\ discarded' = discarded \cup {position}
          \/ poll'.msg = position /\ discarded' = discarded
      BY <1>4 DEF PollMessage, Return, At
    <2>3. 1 .. position' - 1 = (1 .. position - 1) \cup {position} /\ position \notin 1 .. position - 1
      BY <2>1
    <2>4. \/ Memory' = Memory /\ discarded' = discarded \cup {position}
          \/ Memory' = Memory \cup {position} /\ discarded' = discarded
      BY <1>m, <1>n, <2>1, <2>2 DEF NoMsg
    <2> HIDE DEF NoneLostAlive
    <2>5. QED
      BY <2>1, <2>3, <2>4 DEF NoneLostAlive
  <1>5. ASSUME NEW valid \in BOOLEAN, Decode(valid) PROVE NoneLostAlive'
    <2>1. /\ Queued' = Queued /\ Hands' = Hands /\ poll'.msg = poll.msg
          /\ UNCHANGED <<position, finished, dropped, discarded>>
      BY <1>0, <1>5 DEF Decode, TypeOK, PollStates, Queued, Hands
    <2>2. QED
      BY <1>1, <1>m, <1>n, <2>1
  <1>6. CASE Enqueue \/ EnqueueAgain
    <2>0. /\ poll.pc \in {"enqueue", "sleep"} /\ poll.msg \in Offsets
          /\ Hands' = Hands /\ UNCHANGED <<position, finished, discarded>>
      BY <1>0, <1>6 DEF Enqueue, EnqueueAgain, PollerAt, PoolInv, TypeOK, PollStates, Hands
    <2>1. CASE Send
      <3>1. /\ poll'.msg = NoMsg /\ dropped' = dropped
            /\ Len(queue) \in Nat /\ Len(queue') = Len(queue) + 1
            /\ \A i \in 1 .. Len(queue) : queue'[i] = queue[i]
            /\ queue'[Len(queue) + 1] = poll.msg
        BY <1>0, <2>0, <2>1, SendEffect DEF At, TypeOK
      <3>2. Queued' = Queued \cup {poll.msg}
        BY <3>1 DEF Queued
      <3>3. QED
        BY <1>1, <1>m, <1>n, <2>0, <3>1, <3>2 DEF Offsets, NoMsg
    <2>2. CASE ~Send
      <3>1. /\ Queued' = Queued
            /\ \/ poll'.msg = poll.msg /\ dropped' = dropped
               \/ poll'.msg = NoMsg /\ dropped' = dropped \cup {poll.msg}
        BY <1>0, <1>6, <2>2 DEF Enqueue, EnqueueAgain, At, TypeOK, PollStates, Queued
      <3>2. poll.msg \notin Queued /\ poll.msg \notin Hands /\ poll.msg # NoMsg
        BY <1>0, <2>0 DEF PoolInv, TypeOK, WorkerStates, Offsets, NoMsg, Queued, Hands
      <3>3. \/ Memory' = Memory /\ dropped' = dropped
            \/ Memory' = Memory \ {poll.msg} /\ dropped' = dropped \cup {poll.msg}
        BY <1>m, <1>n, <2>0, <3>1, <3>2
      <3>4. poll.msg \in Memory
        BY <1>m, <3>2
      <3>5. QED
        BY <1>1, <1>2, <2>0, <3>3, <3>4
    <2>3. QED
      BY <2>1, <2>2
  <1>7. ASSUME NEW published \in BOOLEAN, PollerDeadLetters(published) PROVE NoneLostAlive'
    <2>1. /\ poll.msg \in Offsets /\ poll'.msg = NoMsg /\ Hands' = Hands /\ Queued' = Queued
          /\ finished' = finished \cup {poll.msg}
          /\ UNCHANGED <<position, dropped, discarded>>
      BY <1>0, <1>7 DEF PollerDeadLetters, PollerAt, PoolInv, TypeOK, PollStates, Hands, Queued, At
    <2>2. poll.msg \notin Queued /\ poll.msg \notin Hands /\ poll.msg # NoMsg
      BY <1>0, <2>1 DEF PoolInv, TypeOK, WorkerStates, Offsets, NoMsg, Queued, Hands
    <2>3. Memory' = Memory \ {poll.msg} /\ poll.msg \in Memory
      BY <1>m, <1>n, <2>1, <2>2
    <2>4. QED
      BY <1>2, <2>1, <2>3
  <1>8. ASSUME NEW w \in Workers, Take(w) PROVE NoneLostAlive'
    <2>1. /\ Len(queue) \in Nat /\ Len(queue) >= 1 /\ Len(queue') = Len(queue) - 1
          /\ queue[1] \in Offsets /\ worker'[w].msg = queue[1] /\ worker[w].msg = NoMsg
          /\ \A v \in Workers \ {w} : worker'[v] = worker[v]
          /\ \A i \in 1 .. Len(queue') : queue'[i] = queue[i + 1]
          /\ UNCHANGED <<position, poll, finished, dropped, discarded>>
      BY <1>0, <1>8, TakeEffect DEF TypeOK
    <2>2. Queued = Queued' \cup {queue[1]}
      <3>1. \A i \in 1 .. Len(queue) : i = 1 \/ (i - 1 \in 1 .. Len(queue') /\ queue'[i - 1] = queue[i])
        BY <2>1
      <3>2. \A i \in 1 .. Len(queue') : i + 1 \in 1 .. Len(queue) /\ queue'[i] = queue[i + 1]
        BY <2>1
      <3>3. 1 \in 1 .. Len(queue)
        BY <2>1
      <3>4. QED
        BY <3>1, <3>2, <3>3 DEF Queued
    <2>3. Hands' \ {NoMsg} = (Hands \ {NoMsg}) \cup {queue[1]}
      BY <2>1 DEF Hands, Offsets, NoMsg
    <2>4. QED
      BY <1>1, <1>m, <1>n, <2>1, <2>2, <2>3 DEF Offsets, NoMsg
  <1>9. ASSUME NEW w \in Workers, Answered(w) PROVE NoneLostAlive'
    <2>1. /\ worker[w].msg \in Offsets
          /\ \A v \in Workers \ {w} : worker'[v] = worker[v]
          /\ \/ worker'[w] = IdleWorker /\ finished' = finished \cup {worker[w].msg}
             \/ /\ worker'[w] = [pc |-> "dead_letter", msg |-> worker[w].msg]
                /\ finished' = finished
          /\ UNCHANGED <<position, poll, queue, dropped, discarded>>
      BY <1>9, HandledSteps
    <2>2. Queued' = Queued
      BY <2>1 DEF Queued
    <2>3. CASE worker'[w] = IdleWorker /\ finished' = finished \cup {worker[w].msg}
      <3>1. worker'[w].msg = NoMsg
        BY <2>3 DEF IdleWorker
      <3>2. \A v \in Workers \ {w} : worker[v].msg # worker[w].msg
        BY <2>1 DEF TakenInOrder, Offsets, NoMsg
      <3>3. Hands' \ {NoMsg} = (Hands \ {NoMsg}) \ {worker[w].msg}
        BY <2>1, <3>1, <3>2 DEF Hands
      <3>4. worker[w].msg \notin Queued /\ worker[w].msg # poll.msg /\ worker[w].msg # NoMsg
        <4>1. /\ worker[w].msg \in Nat \ {0}
              /\ poll.msg \in Nat
              /\ \A i \in 1 .. Len(queue) : queue[i] \in Nat
          <5>0. worker[w].msg \in Offsets
            BY <2>1
          <5>1. \A m \in Offsets : m \in Nat /\ m # 0
            BY DEF Offsets
          <5>2. poll.msg \in Offsets \cup {0}
            BY <1>0 DEF TypeOK, PollStates, NoMsg
          <5>3. \A i \in 1 .. Len(queue) : queue[i] \in Offsets
            BY <1>0 DEF TypeOK
          <5>4. QED
            BY <5>0, <5>1, <5>2, <5>3
        <4>2. \A i \in 1 .. Len(queue) : worker[w].msg < queue[i]
          BY <4>1 DEF TakenInOrder, NoMsg
        <4>3. poll.msg # NoMsg => worker[w].msg < poll.msg
          BY DEF PoolInv
        <4>4. QED
          BY <4>1, <4>2, <4>3 DEF NoMsg, Queued
      <3>5. worker[w].msg \in Hands
        BY DEF Hands
      <3>6. Memory' = Memory \ {worker[w].msg} /\ worker[w].msg \in Memory
        BY <1>m, <1>n, <2>1, <2>2, <3>3, <3>4, <3>5
      <3>7. QED
        BY <1>2, <2>1, <2>3, <3>6
    <2>4. CASE /\ worker'[w] = [pc |-> "dead_letter", msg |-> worker[w].msg]
               /\ finished' = finished
      <3>1. Hands' = Hands
        BY <2>1, <2>4 DEF Hands
      <3>2. QED
        BY <1>1, <1>m, <1>n, <2>1, <2>2, <2>4, <3>1
    <2>5. QED
      BY <2>1, <2>3, <2>4
  <1>10. QED
    BY <1>3, <1>4, <1>5, <1>6, <1>7, <1>8, <1>9, Steps

(* No message is lost or doubled while the process lives: each one polled   *)
(* is in exactly one place.                                                 *)
THEOREM NoneLost == Spec => []NoneLostAlive
  <1>1. Init => NoneLostAlive
    <2> SUFFICES ASSUME Init PROVE NoneLostAlive
      OBVIOUS
    <2>1. Memory = {}
      BY DEF Init, Memory, IdleWorker, At, NoMsg
    <2>2. QED
      BY <2>1 DEF Init, NoneLostAlive
  <1>2. PoolInv /\ PoolInv' /\ TakenInOrder /\ NoneLostAlive /\ [Next]_vars => NoneLostAlive'
    BY AliveKept
  <1>3. QED
    BY <1>1, <1>2, PoolInvariant, HandledInOrder, PTL DEF Spec

(***************************************************************************)
(* The shutdown summary.                                                   *)
(***************************************************************************)
One(b) == IF b THEN 1 ELSE 0

(* The counters as the provers see them: one number each.                   *)
LEMMA CountedFields ==
    ASSUME stats \in Stats, NEW fields \in SUBSET Fields, Counted(fields)
    PROVE  /\ stats'.MessagesSeen = stats.MessagesSeen + One("MessagesSeen" \in fields)
           /\ stats'.MessagesProcessed
                 = stats.MessagesProcessed + One("MessagesProcessed" \in fields)
           /\ stats'.MessageErrors = stats.MessageErrors + One("MessageErrors" \in fields)
           /\ stats'.WorkQueueFullErrors
                 = stats.WorkQueueFullErrors + One("WorkQueueFullErrors" \in fields)
           /\ stats'.DeadLettersPublished
                 = stats.DeadLettersPublished + One("DeadLettersPublished" \in fields)
           /\ stats'.DeadLetterPublishErrors
                 = stats.DeadLetterPublishErrors + One("DeadLetterPublishErrors" \in fields)
  <1>1. \A f \in Fields : stats[f] \in Nat
    BY DEF Stats, Fields
  <1>2. \A f \in Fields : stats'[f] = stats[f] + One(f \in fields)
    BY <1>1, CountedAdds DEF One
  <1>3. QED
    BY <1>2 DEF Fields

(* The sets that are counted are finite.                                    *)
LEMMA CountedSets ==
    ASSUME TypeOK
    PROVE  /\ IsFiniteSet(dropped) /\ Cardinality(dropped) \in Nat
           /\ IsFiniteSet(discarded) /\ Cardinality(discarded) \in Nat
           /\ IsFiniteSet(Working) /\ Cardinality(Working) \in Nat
           /\ IsFiniteSet(DeadLettering) /\ Cardinality(DeadLettering) \in Nat
  <1>1. IsFiniteSet(Offsets)
    BY CapacityAssumption, FS_Interval DEF Offsets
  <1>2. IsFiniteSet(Goroutines)
    BY WorkersAssumption, FS_AddElement DEF Goroutines
  <1>3. Working \in SUBSET Workers /\ DeadLettering \in SUBSET Goroutines
    BY DEF Working, DeadLettering
  <1>4. dropped \in SUBSET Offsets /\ discarded \in SUBSET Offsets
    BY DEF TypeOK
  <1>5. QED
    BY <1>1, <1>2, <1>3, <1>4, WorkersAssumption, FS_Subset, FS_CardinalityType

(* Pointwise: who is dead-lettering.                                        *)
LEMMA DeadLetteringIs ==
    DeadLettering = {w \in Workers : worker[w].pc = "dead_letter"}
                      \cup (IF poll.pc = "dead_letter" THEN {Poller} ELSE {})
  BY PollerAssumption DEF DeadLettering, Goroutines

(* Every step moves as much between the counters as it moves between queue  *)
(* and workers.                                                             *)
LEMMA StatsKept ==
    ASSUME PoolInv, PoolInv', NoneLostAlive, StatsAddUp, [Next]_vars
    PROVE  StatsAddUp'
  <1>0. TypeOK /\ TypeOK'
    BY DEF PoolInv
  <1>t. /\ stats \in Stats /\ position \in Nat /\ Len(queue) \in Nat
        /\ stats.MessagesSeen \in Nat /\ stats.MessagesProcessed \in Nat
        /\ stats.MessageErrors \in Nat /\ stats.WorkQueueFullErrors \in Nat
        /\ stats.DeadLettersPublished \in Nat /\ stats.DeadLetterPublishErrors \in Nat
    BY <1>0 DEF TypeOK, Stats
  <1>f. /\ IsFiniteSet(dropped) /\ Cardinality(dropped) \in Nat
        /\ IsFiniteSet(discarded) /\ Cardinality(discarded) \in Nat
        /\ IsFiniteSet(Working) /\ Cardinality(Working) \in Nat
        /\ IsFiniteSet(DeadLettering) /\ Cardinality(DeadLettering) \in Nat
    BY <1>0, CountedSets
  <1>d. DeadLettering' = {w \in Workers : worker'[w].pc = "dead_letter"}
                           \cup (IF poll'.pc = "dead_letter" THEN {Poller} ELSE {})
    BY PollerAssumption DEF DeadLettering, Goroutines
  <1>w. Working' = {w \in Workers : worker'[w].pc = "working"}
    BY DEF Working
  <1>h. HandCount \in Nat /\ SleepCount \in Nat
    BY DEF HandCount, SleepCount
  <1>a. SeenOrDiscarded /\ stats.MessagesSeen \in Nat /\ Cardinality(discarded) \in Nat
    BY <1>t, <1>f DEF StatsAddUp
  <1>b. /\ SeenBalance /\ stats.MessagesSeen \in Nat /\ stats.MessagesProcessed \in Nat
        /\ stats.MessageErrors \in Nat /\ Cardinality(dropped) \in Nat
        /\ Len(queue) \in Nat /\ Cardinality(Working) \in Nat /\ HandCount \in Nat
    BY <1>t, <1>f, <1>h DEF StatsAddUp
  <1>n. PICK seen \in Nat, done \in Nat, err \in Nat, drop \in Nat, depth \in Nat,
             work \in Nat, hand \in Nat :
          /\ stats.MessagesSeen = seen /\ stats.MessagesProcessed = done
          /\ stats.MessageErrors = err /\ Cardinality(dropped) = drop
          /\ Len(queue) = depth /\ Cardinality(Working) = work /\ HandCount = hand
    BY <1>b
  <1>m. seen = done + err + drop + depth + work + hand
    BY <1>b, <1>n DEF SeenBalance
  <1>c. /\ ErrorBalance /\ stats.MessageErrors \in Nat /\ stats.DeadLettersPublished \in Nat
        /\ stats.DeadLetterPublishErrors \in Nat /\ Cardinality(DeadLettering) \in Nat
    BY <1>t, <1>f DEF StatsAddUp
  <1>e. /\ DropsCounted /\ Cardinality(dropped) \in Nat /\ stats.WorkQueueFullErrors \in Nat
        /\ SleepCount \in Nat
    BY <1>t, <1>f, <1>h DEF StatsAddUp
  <1>1. CASE Quiet
    <2>1. Working' = Working /\ DeadLettering' = DeadLettering
      BY <1>1, <1>d, <1>w, QuietSteps, DeadLetteringIs DEF Working, Busy
    <2>2. HandCount' = HandCount /\ SleepCount' = SleepCount
      BY <1>1, QuietSteps DEF InHand, Busy, HandCount, SleepCount
    <2>3. QED
      BY <1>1, <2>1, <2>2, QuietSteps
         DEF StatsAddUp, SeenOrDiscarded, SeenBalance, ErrorBalance, DropsCounted
  <1>2. CASE PollMessage
    <2>1. /\ poll.pc = "poll" /\ position' = position + 1 /\ dropped' = dropped
          /\ queue' = queue /\ worker' = worker /\ position \notin discarded
      BY <1>2, <1>t DEF PollMessage, PollerAt, PoolInv
    <2>2. Working' = Working
      BY <2>1 DEF Working
    <2>3. CASE canceled
      <3>1. /\ discarded' = discarded \cup {position} /\ poll'.pc = "returning" /\ stats' = stats
        BY <1>2, <2>3 DEF PollMessage, Return, At
      <3>2. Cardinality(discarded') = Cardinality(discarded) + 1
        BY <1>f, <2>1, <3>1, FS_AddElement
      <3>3. /\ DeadLettering' = DeadLettering /\ HandCount = 0 /\ HandCount' = 0
            /\ SleepCount = 0 /\ SleepCount' = 0
        BY <1>d, <2>1, <3>1, DeadLetteringIs DEF InHand, HandCount, SleepCount
      <3>4. /\ position' = position + 1 /\ Cardinality(discarded') = Cardinality(discarded) + 1
            /\ Cardinality(dropped') = Cardinality(dropped) /\ Len(queue') = Len(queue)
            /\ Cardinality(Working') = Cardinality(Working)
            /\ Cardinality(DeadLettering') = Cardinality(DeadLettering)
            /\ stats'.MessagesSeen = stats.MessagesSeen
            /\ stats'.MessagesProcessed = stats.MessagesProcessed
            /\ stats'.MessageErrors = stats.MessageErrors
            /\ stats'.WorkQueueFullErrors = stats.WorkQueueFullErrors
            /\ stats'.DeadLettersPublished = stats.DeadLettersPublished
            /\ stats'.DeadLetterPublishErrors = stats.DeadLetterPublishErrors
        BY <2>1, <2>2, <3>1, <3>2, <3>3
      <3>5. SeenOrDiscarded'
        <4>1. /\ position' = position + 1 /\ stats'.MessagesSeen = stats.MessagesSeen
              /\ Cardinality(discarded') = Cardinality(discarded) + 1
          BY <3>3, <3>4
        <4>2. QED
          BY <1>a, <4>1 DEF SeenOrDiscarded
      <3>6. SeenBalance'
        <4>1. /\ stats'.MessagesSeen = stats.MessagesSeen
              /\ stats'.MessagesProcessed = stats.MessagesProcessed
              /\ stats'.MessageErrors = stats.MessageErrors
              /\ Cardinality(dropped') = Cardinality(dropped) /\ Len(queue') = Len(queue)
              /\ Cardinality(Working') = Cardinality(Working) /\ HandCount = 0
              /\ HandCount' = 0
          BY <3>3, <3>4
        <4>2. QED
          BY <1>b, <4>1 DEF SeenBalance
      <3>7. ErrorBalance'
        <4>1. /\ stats'.MessageErrors = stats.MessageErrors
              /\ stats'.DeadLettersPublished = stats.DeadLettersPublished
              /\ stats'.DeadLetterPublishErrors = stats.DeadLetterPublishErrors
              /\ Cardinality(DeadLettering') = Cardinality(DeadLettering)
          BY <3>3, <3>4
        <4>2. QED
          BY <1>c, <4>1 DEF ErrorBalance
      <3>8. DropsCounted'
        <4>1. /\ Cardinality(dropped') = Cardinality(dropped)
              /\ stats'.WorkQueueFullErrors = stats.WorkQueueFullErrors /\ SleepCount = 0
              /\ SleepCount' = 0
          BY <3>3, <3>4
        <4>2. QED
          BY <1>e, <4>1 DEF DropsCounted
      <3>9. QED
        BY <3>5, <3>6, <3>7, <3>8 DEF StatsAddUp
    <2>4. CASE ~canceled
      <3>1. poll'.pc = "decode" /\ discarded' = discarded /\ Counted({"MessagesSeen"})
        BY <1>2, <2>4 DEF PollMessage
      <3>2. /\ stats'.MessagesSeen = stats.MessagesSeen + 1
            /\ stats'.MessagesProcessed = stats.MessagesProcessed
            /\ stats'.MessageErrors = stats.MessageErrors
            /\ stats'.WorkQueueFullErrors = stats.WorkQueueFullErrors
            /\ stats'.DeadLettersPublished = stats.DeadLettersPublished
            /\ stats'.DeadLetterPublishErrors = stats.DeadLetterPublishErrors
        BY <1>t, <3>1, CountedFields DEF Fields, One
      <3>3. /\ DeadLettering' = DeadLettering /\ HandCount = 0 /\ HandCount' = 1
            /\ SleepCount = 0 /\ SleepCount' = 0
        BY <1>d, <2>1, <3>1, DeadLetteringIs DEF InHand, HandCount, SleepCount
      <3>4. /\ position' = position + 1 /\ Cardinality(discarded') = Cardinality(discarded)
            /\ Cardinality(dropped') = Cardinality(dropped) /\ Len(queue') = Len(queue)
            /\ Cardinality(Working') = Cardinality(Working)
            /\ Cardinality(DeadLettering') = Cardinality(DeadLettering)
        BY <2>1, <2>2, <3>1, <3>2, <3>3
      <3>5. SeenOrDiscarded'
        <4>1. /\ position' = position + 1 /\ stats'.MessagesSeen = stats.MessagesSeen + 1
              /\ Cardinality(discarded') = Cardinality(discarded)
          BY <3>2, <3>3, <3>4
        <4>2. QED
          BY <1>a, <4>1 DEF SeenOrDiscarded
      <3>6. SeenBalance'
        <4>1. /\ stats'.MessagesSeen = stats.MessagesSeen + 1
              /\ stats'.MessagesProcessed = stats.MessagesProcessed
              /\ stats'.MessageErrors = stats.MessageErrors
              /\ Cardinality(dropped') = Cardinality(dropped) /\ Len(queue') = Len(queue)
              /\ Cardinality(Working') = Cardinality(Working) /\ HandCount = 0
              /\ HandCount' = 1
          BY <3>2, <3>3, <3>4
        <4>2. QED
          BY <1>b, <4>1 DEF SeenBalance
      <3>7. ErrorBalance'
        <4>1. /\ stats'.MessageErrors = stats.MessageErrors
              /\ stats'.DeadLettersPublished = stats.DeadLettersPublished
              /\ stats'.DeadLetterPublishErrors = stats.DeadLetterPublishErrors
              /\ Cardinality(DeadLettering') = Cardinality(DeadLettering)
          BY <3>2, <3>3, <3>4
        <4>2. QED
          BY <1>c, <4>1 DEF ErrorBalance
      <3>8. DropsCounted'
        <4>1. /\ Cardinality(dropped') = Cardinality(dropped)
              /\ stats'.WorkQueueFullErrors = stats.WorkQueueFullErrors /\ SleepCount = 0
              /\ SleepCount' = 0
          BY <3>2, <3>3, <3>4
        <4>2. QED
          BY <1>e, <4>1 DEF DropsCounted
      <3>9. QED
        BY <3>5, <3>6, <3>7, <3>8 DEF StatsAddUp
    <2>5. QED
      BY <2>3, <2>4
  <1>3. ASSUME NEW valid \in BOOLEAN, Decode(valid) PROVE StatsAddUp'
    <2>1. /\ poll.pc = "decode"
          /\ UNCHANGED <<position, queue, worker, dropped, discarded>>
      BY <1>3 DEF Decode, PollerAt
    <2>2. Working' = Working /\ Poller \notin DeadLettering
      BY <2>1, PollerAssumption, DeadLetteringIs DEF Working
    <2>3. CASE valid
      <3>1. poll'.pc = "enqueue" /\ stats' = stats
        BY <1>0, <1>3, <2>3 DEF Decode, TypeOK, PollStates
      <3>2. /\ DeadLettering' = DeadLettering /\ HandCount = 1 /\ HandCount' = 1
            /\ SleepCount = 0 /\ SleepCount' = 0
        BY <1>d, <2>1, <3>1, DeadLetteringIs DEF InHand, HandCount, SleepCount
      <3>3. /\ position' = position /\ Cardinality(discarded') = Cardinality(discarded)
            /\ Cardinality(dropped') = Cardinality(dropped) /\ Len(queue') = Len(queue)
            /\ Cardinality(Working') = Cardinality(Working)
            /\ Cardinality(DeadLettering') = Cardinality(DeadLettering)
            /\ stats'.MessagesSeen = stats.MessagesSeen
            /\ stats'.MessagesProcessed = stats.MessagesProcessed
            /\ stats'.MessageErrors = stats.MessageErrors
            /\ stats'.WorkQueueFullErrors = stats.WorkQueueFullErrors
            /\ stats'.DeadLettersPublished = stats.DeadLettersPublished
            /\ stats'.DeadLetterPublishErrors = stats.DeadLetterPublishErrors
        BY <2>1, <2>2, <3>1, <3>2
      <3>4. SeenOrDiscarded'
        <4>1. /\ position' = position /\ stats'.MessagesSeen = stats.MessagesSeen
              /\ Cardinality(discarded') = Cardinality(discarded)
          BY <3>2, <3>3
        <4>2. QED
          BY <1>a, <4>1 DEF SeenOrDiscarded
      <3>5. SeenBalance'
        <4>1. /\ stats'.MessagesSeen = stats.MessagesSeen
              /\ stats'.MessagesProcessed = stats.MessagesProcessed
              /\ stats'.MessageErrors = stats.MessageErrors
              /\ Cardinality(dropped') = Cardinality(dropped) /\ Len(queue') = Len(queue)
              /\ Cardinality(Working') = Cardinality(Working) /\ HandCount = 1
              /\ HandCount' = 1
          BY <3>2, <3>3
        <4>2. QED
          BY <1>b, <4>1 DEF SeenBalance
      <3>6. ErrorBalance'
        <4>1. /\ stats'.MessageErrors = stats.MessageErrors
              /\ stats'.DeadLettersPublished = stats.DeadLettersPublished
              /\ stats'.DeadLetterPublishErrors = stats.DeadLetterPublishErrors
              /\ Cardinality(DeadLettering') = Cardinality(DeadLettering)
          BY <3>2, <3>3
        <4>2. QED
          BY <1>c, <4>1 DEF ErrorBalance
      <3>7. DropsCounted'
        <4>1. /\ Cardinality(dropped') = Cardinality(dropped)
              /\ stats'.WorkQueueFullErrors = stats.WorkQueueFullErrors /\ SleepCount = 0
              /\ SleepCount' = 0
          BY <3>2, <3>3
        <4>2. QED
          BY <1>e, <4>1 DEF DropsCounted
      <3>8. QED
        BY <3>4, <3>5, <3>6, <3>7 DEF StatsAddUp
    <2>4. CASE ~valid
      <3>1. poll'.pc = "dead_letter" /\ Counted({"MessageErrors"})
        BY <1>0, <1>3, <2>4 DEF Decode, TypeOK, PollStates
      <3>2. /\ stats'.MessagesSeen = stats.MessagesSeen
            /\ stats'.MessagesProcessed = stats.MessagesProcessed
            /\ stats'.MessageErrors = stats.MessageErrors + 1
            /\ stats'.WorkQueueFullErrors = stats.WorkQueueFullErrors
            /\ stats'.DeadLettersPublished = stats.DeadLettersPublished
            /\ stats'.DeadLetterPublishErrors = stats.DeadLetterPublishErrors
        BY <1>t, <3>1, CountedFields DEF Fields, One
      <3>3. /\ DeadLettering' = DeadLettering \cup {Poller} /\ HandCount = 1 /\ HandCount' = 0
            /\ SleepCount = 0 /\ SleepCount' = 0
        BY <1>d, <2>1, <3>1, DeadLetteringIs DEF InHand, HandCount, SleepCount
      <3>4. Cardinality(DeadLettering') = Cardinality(DeadLettering) + 1
        BY <1>f, <2>2, <3>3, FS_AddElement
      <3>5. /\ position' = position /\ Cardinality(discarded') = Cardinality(discarded)
            /\ Cardinality(dropped') = Cardinality(dropped) /\ Len(queue') = Len(queue)
            /\ Cardinality(Working') = Cardinality(Working)
            /\ Cardinality(DeadLettering') = Cardinality(DeadLettering) + 1
        BY <2>1, <2>2, <3>1, <3>2, <3>3, <3>4
      <3>6. SeenOrDiscarded'
        <4>1. /\ position' = position /\ stats'.MessagesSeen = stats.MessagesSeen
              /\ Cardinality(discarded') = Cardinality(discarded)
          BY <3>2, <3>3, <3>5
        <4>2. QED
          BY <1>a, <4>1 DEF SeenOrDiscarded
      <3>7. SeenBalance'
        <4>1. /\ stats'.MessagesSeen = stats.MessagesSeen
              /\ stats'.MessagesProcessed = stats.MessagesProcessed
              /\ stats'.MessageErrors = stats.MessageErrors + 1
              /\ Cardinality(dropped') = Cardinality(dropped) /\ Len(queue') = Len(queue)
              /\ Cardinality(Working') = Cardinality(Working) /\ HandCount = 1
              /\ HandCount' = 0
          BY <3>2, <3>3, <3>5
        <4>2. QED
          BY <1>b, <4>1 DEF SeenBalance
      <3>8. ErrorBalance'
        <4>1. /\ stats'.MessageErrors = stats.MessageErrors + 1
              /\ stats'.DeadLettersPublished = stats.DeadLettersPublished
              /\ stats'.DeadLetterPublishErrors = stats.DeadLetterPublishErrors
              /\ Cardinality(DeadLettering') = Cardinality(DeadLettering) + 1
          BY <3>2, <3>3, <3>5
        <4>2. QED
          BY <1>c, <4>1 DEF ErrorBalance
      <3>9. DropsCounted'
        <4>1. /\ Cardinality(dropped') = Cardinality(dropped)
              /\ stats'.WorkQueueFullErrors = stats.WorkQueueFullErrors /\ SleepCount = 0
              /\ SleepCount' = 0
          BY <3>2, <3>3, <3>5
        <4>2. QED
          BY <1>e, <4>1 DEF DropsCounted
      <3>10. QED
        BY <3>6, <3>7, <3>8, <3>9 DEF StatsAddUp
    <2>5. QED
      BY <2>3, <2>4
  <1>4. CASE Enqueue \/ EnqueueAgain
    <2>1. /\ poll.pc \in {"enqueue", "sleep"} /\ poll.msg # NoMsg
          /\ UNCHANGED <<position, worker, discarded>>
      BY <1>4 DEF Enqueue, EnqueueAgain, PollerAt, PoolInv
    <2>2. Working' = Working /\ HandCount = 1
      BY <2>1 DEF Working, InHand, HandCount, SleepCount
    <2>3. CASE Send
      <3>1. /\ poll'.pc = "top" /\ Len(queue') = Len(queue) + 1 /\ dropped' = dropped
            /\ Counted({"WorkItemsEnqueued"})
        BY <2>1, <2>3, SendEffect DEF At, Send
      <3>2. /\ stats'.MessagesSeen = stats.MessagesSeen
            /\ stats'.MessagesProcessed = stats.MessagesProcessed
            /\ stats'.MessageErrors = stats.MessageErrors
            /\ stats'.WorkQueueFullErrors = stats.WorkQueueFullErrors
            /\ stats'.DeadLettersPublished = stats.DeadLettersPublished
            /\ stats'.DeadLetterPublishErrors = stats.DeadLetterPublishErrors
        BY <1>t, <3>1, CountedFields DEF Fields, One
      <3>3. DeadLettering' = DeadLettering /\ HandCount' = 0 /\ SleepCount' = 0
        BY <1>d, <2>1, <3>1, DeadLetteringIs DEF InHand, HandCount, SleepCount
      <3>4. /\ position' = position /\ Cardinality(discarded') = Cardinality(discarded)
            /\ Cardinality(dropped') = Cardinality(dropped) /\ Len(queue') = Len(queue) + 1
            /\ Cardinality(Working') = Cardinality(Working)
            /\ Cardinality(DeadLettering') = Cardinality(DeadLettering)
        BY <2>1, <2>2, <3>1, <3>2, <3>3
      <3>5. SeenOrDiscarded'
        <4>1. /\ position' = position /\ stats'.MessagesSeen = stats.MessagesSeen
              /\ Cardinality(discarded') = Cardinality(discarded)
          BY <2>2, <3>2, <3>3, <3>4
        <4>2. QED
          BY <1>a, <4>1 DEF SeenOrDiscarded
      <3>6. SeenBalance'
        <4>1. /\ stats'.MessagesSeen = seen /\ stats'.MessagesProcessed = done
              /\ stats'.MessageErrors = err /\ Cardinality(dropped') = drop
              /\ Len(queue') = depth + 1 /\ Cardinality(Working') = work
              /\ HandCount' = 0
          BY <2>2, <3>2, <3>3, <3>4, <1>n
        <4>2. seen = done + err + drop + (depth + 1) + work + 0
          BY <1>m, <1>n, <2>2
        <4>3. QED
          BY <4>1, <4>2 DEF SeenBalance
      <3>7. ErrorBalance'
        <4>1. /\ stats'.MessageErrors = stats.MessageErrors
              /\ stats'.DeadLettersPublished = stats.DeadLettersPublished
              /\ stats'.DeadLetterPublishErrors = stats.DeadLetterPublishErrors
              /\ Cardinality(DeadLettering') = Cardinality(DeadLettering)
          BY <2>2, <3>2, <3>3, <3>4
        <4>2. QED
          BY <1>c, <4>1 DEF ErrorBalance
      <3>8. DropsCounted'
        <4>1. /\ Cardinality(dropped') = Cardinality(dropped)
              /\ stats'.WorkQueueFullErrors = stats.WorkQueueFullErrors /\ SleepCount' = 0
          BY <2>2, <3>2, <3>3, <3>4
        <4>2. QED
          BY <1>e, <4>1 DEF DropsCounted
      <3>9. QED
        BY <3>5, <3>6, <3>7, <3>8 DEF StatsAddUp
    <2>4. CASE Enqueue /\ ~Send
      <3>1. /\ poll.pc = "enqueue" /\ poll'.pc = "sleep" /\ queue' = queue /\ dropped' = dropped
            /\ Counted({"WorkQueueFullErrors"})
        BY <1>0, <2>4 DEF Enqueue, PollerAt, TypeOK, PollStates
      <3>2. /\ stats'.MessagesSeen = stats.MessagesSeen
            /\ stats'.MessagesProcessed = stats.MessagesProcessed
            /\ stats'.MessageErrors = stats.MessageErrors
            /\ stats'.WorkQueueFullErrors = stats.WorkQueueFullErrors + 1
            /\ stats'.DeadLettersPublished = stats.DeadLettersPublished
            /\ stats'.DeadLetterPublishErrors = stats.DeadLetterPublishErrors
        BY <1>t, <3>1, CountedFields DEF Fields, One
      <3>3. /\ DeadLettering' = DeadLettering /\ HandCount' = 1
            /\ SleepCount = 0 /\ SleepCount' = 1
        BY <1>d, <2>1, <3>1, DeadLetteringIs DEF InHand, HandCount, SleepCount
      <3>4. /\ position' = position /\ Cardinality(discarded') = Cardinality(discarded)
            /\ Cardinality(dropped') = Cardinality(dropped) /\ Len(queue') = Len(queue)
            /\ Cardinality(Working') = Cardinality(Working)
            /\ Cardinality(DeadLettering') = Cardinality(DeadLettering)
        BY <2>1, <2>2, <3>1, <3>2, <3>3
      <3>5. SeenOrDiscarded'
        <4>1. /\ position' = position /\ stats'.MessagesSeen = stats.MessagesSeen
              /\ Cardinality(discarded') = Cardinality(discarded)
          BY <2>2, <3>2, <3>3, <3>4
        <4>2. QED
          BY <1>a, <4>1 DEF SeenOrDiscarded
      <3>6. SeenBalance'
        <4>1. /\ stats'.MessagesSeen = stats.MessagesSeen
              /\ stats'.MessagesProcessed = stats.MessagesProcessed
              /\ stats'.MessageErrors = stats.MessageErrors
              /\ Cardinality(dropped') = Cardinality(dropped) /\ Len(queue') = Len(queue)
              /\ Cardinality(Working') = Cardinality(Working) /\ HandCount = 1
              /\ HandCount' = 1
          BY <2>2, <3>2, <3>3, <3>4
        <4>2. QED
          BY <1>b, <4>1 DEF SeenBalance
      <3>7. ErrorBalance'
        <4>1. /\ stats'.MessageErrors = stats.MessageErrors
              /\ stats'.DeadLettersPublished = stats.DeadLettersPublished
              /\ stats'.DeadLetterPublishErrors = stats.DeadLetterPublishErrors
              /\ Cardinality(DeadLettering') = Cardinality(DeadLettering)
          BY <2>2, <3>2, <3>3, <3>4
        <4>2. QED
          BY <1>c, <4>1 DEF ErrorBalance
      <3>8. DropsCounted'
        <4>1. /\ Cardinality(dropped') = Cardinality(dropped)
              /\ stats'.WorkQueueFullErrors = stats.WorkQueueFullErrors + 1
              /\ SleepCount = 0 /\ SleepCount' = 1
          BY <2>2, <3>2, <3>3, <3>4
        <4>2. QED
          BY <1>e, <4>1 DEF DropsCounted
      <3>9. QED
        BY <3>5, <3>6, <3>7, <3>8 DEF StatsAddUp
    <2>5. CASE EnqueueAgain /\ ~Send
      <3>1. /\ poll.pc = "sleep" /\ poll'.pc = "top" /\ queue' = queue /\ stats' = stats
            /\ dropped' = dropped \cup {poll.msg}
        BY <1>0, <2>5 DEF EnqueueAgain, PollerAt, At
      <3>2. poll.msg \notin dropped
        BY <2>1 DEF NoneLostAlive, Memory
      <3>3. Cardinality(dropped') = Cardinality(dropped) + 1
        BY <1>f, <3>1, <3>2, FS_AddElement
      <3>4. /\ DeadLettering' = DeadLettering /\ HandCount' = 0
            /\ SleepCount = 1 /\ SleepCount' = 0
        BY <1>d, <2>1, <3>1, DeadLetteringIs DEF InHand, HandCount, SleepCount
      <3>5. /\ position' = position /\ Cardinality(discarded') = Cardinality(discarded)
            /\ Cardinality(dropped') = Cardinality(dropped) + 1 /\ Len(queue') = Len(queue)
            /\ Cardinality(Working') = Cardinality(Working)
            /\ Cardinality(DeadLettering') = Cardinality(DeadLettering)
            /\ stats'.MessagesSeen = stats.MessagesSeen
            /\ stats'.MessagesProcessed = stats.MessagesProcessed
            /\ stats'.MessageErrors = stats.MessageErrors
            /\ stats'.WorkQueueFullErrors = stats.WorkQueueFullErrors
            /\ stats'.DeadLettersPublished = stats.DeadLettersPublished
            /\ stats'.DeadLetterPublishErrors = stats.DeadLetterPublishErrors
        BY <2>1, <2>2, <3>1, <3>3, <3>4
      <3>6. SeenOrDiscarded'
        <4>1. /\ position' = position /\ stats'.MessagesSeen = stats.MessagesSeen
              /\ Cardinality(discarded') = Cardinality(discarded)
          BY <2>2, <3>4, <3>5
        <4>2. QED
          BY <1>a, <4>1 DEF SeenOrDiscarded
      <3>7. SeenBalance'
        <4>1. /\ stats'.MessagesSeen = stats.MessagesSeen
              /\ stats'.MessagesProcessed = stats.MessagesProcessed
              /\ stats'.MessageErrors = stats.MessageErrors
              /\ Cardinality(dropped') = Cardinality(dropped) + 1
              /\ Len(queue') = Len(queue) /\ Cardinality(Working') = Cardinality(Working)
              /\ HandCount = 1 /\ HandCount' = 0
          BY <2>2, <3>4, <3>5
        <4>2. QED
          BY <1>b, <4>1 DEF SeenBalance
      <3>8. ErrorBalance'
        <4>1. /\ stats'.MessageErrors = stats.MessageErrors
              /\ stats'.DeadLettersPublished = stats.DeadLettersPublished
              /\ stats'.DeadLetterPublishErrors = stats.DeadLetterPublishErrors
              /\ Cardinality(DeadLettering') = Cardinality(DeadLettering)
          BY <2>2, <3>4, <3>5
        <4>2. QED
          BY <1>c, <4>1 DEF ErrorBalance
      <3>9. DropsCounted'
        <4>1. /\ Cardinality(dropped') = Cardinality(dropped) + 1
              /\ stats'.WorkQueueFullErrors = stats.WorkQueueFullErrors /\ SleepCount = 1
              /\ SleepCount' = 0
          BY <2>2, <3>4, <3>5
        <4>2. QED
          BY <1>e, <4>1 DEF DropsCounted
      <3>10. QED
        BY <3>6, <3>7, <3>8, <3>9 DEF StatsAddUp
    <2>6. QED
      BY <1>4, <2>3, <2>4, <2>5
  <1>5. ASSUME NEW published \in BOOLEAN, PollerDeadLetters(published) PROVE StatsAddUp'
    <2>1. /\ poll.pc = "dead_letter" /\ poll'.pc = "top"
          /\ UNCHANGED <<position, queue, worker, dropped, discarded>>
          /\ Counted(IF published THEN {"DeadLettersPublished"} ELSE {"DeadLetterPublishErrors"})
      BY <1>5 DEF PollerDeadLetters, PollerAt, At
    <2>2. /\ stats'.MessagesSeen = stats.MessagesSeen
          /\ stats'.MessagesProcessed = stats.MessagesProcessed
          /\ stats'.MessageErrors = stats.MessageErrors
          /\ stats'.WorkQueueFullErrors = stats.WorkQueueFullErrors
          /\ stats'.DeadLettersPublished = stats.DeadLettersPublished + One(published)
          /\ stats'.DeadLetterPublishErrors = stats.DeadLetterPublishErrors + One(~published)
      <3>1. CASE published
        BY <1>t, <2>1, <3>1, CountedFields DEF Fields, One
      <3>2. CASE ~published
        BY <1>t, <2>1, <3>2, CountedFields DEF Fields, One
      <3>3. QED
        BY <3>1, <3>2
    <2>3. DeadLettering' = DeadLettering \ {Poller} /\ Poller \in DeadLettering
      BY <1>d, <2>1, DeadLetteringIs, PollerAssumption
    <2>4. Cardinality(DeadLettering') = Cardinality(DeadLettering) - 1
      BY <1>f, <2>3, FS_RemoveElement
    <2>5. /\ Working' = Working /\ HandCount = 0 /\ HandCount' = 0
          /\ SleepCount = 0 /\ SleepCount' = 0
      BY <2>1 DEF Working, InHand, HandCount, SleepCount
    <2>6. /\ position' = position /\ Cardinality(discarded') = Cardinality(discarded)
          /\ Cardinality(dropped') = Cardinality(dropped) /\ Len(queue') = Len(queue)
          /\ Cardinality(Working') = Cardinality(Working)
          /\ Cardinality(DeadLettering') = Cardinality(DeadLettering) - 1
      BY <2>1, <2>2, <2>4, <2>5
    <2>7. SeenOrDiscarded'
      <3>1. /\ position' = position /\ stats'.MessagesSeen = stats.MessagesSeen
            /\ Cardinality(discarded') = Cardinality(discarded)
        BY <2>2, <2>5, <2>6
      <3>2. QED
        BY <1>a, <3>1 DEF SeenOrDiscarded
    <2>8. SeenBalance'
      <3>1. /\ stats'.MessagesSeen = stats.MessagesSeen
            /\ stats'.MessagesProcessed = stats.MessagesProcessed
            /\ stats'.MessageErrors = stats.MessageErrors
            /\ Cardinality(dropped') = Cardinality(dropped) /\ Len(queue') = Len(queue)
            /\ Cardinality(Working') = Cardinality(Working) /\ HandCount = 0
            /\ HandCount' = 0
        BY <2>2, <2>5, <2>6
      <3>2. QED
        BY <1>b, <3>1 DEF SeenBalance
    <2>9. ErrorBalance'
      <3>1. /\ stats'.MessageErrors = stats.MessageErrors
            /\ stats'.DeadLettersPublished = stats.DeadLettersPublished + One(published)
            /\ stats'.DeadLetterPublishErrors = stats.DeadLetterPublishErrors + One(~published)
            /\ Cardinality(DeadLettering') = Cardinality(DeadLettering) - 1
        BY <2>2, <2>5, <2>6
      <3>2. CASE published
        BY <1>c, <3>1, <3>2 DEF ErrorBalance, One
      <3>3. CASE ~published
        BY <1>c, <3>1, <3>3 DEF ErrorBalance, One
      <3>4. QED
        BY <3>2, <3>3
    <2>10. DropsCounted'
      <3>1. /\ Cardinality(dropped') = Cardinality(dropped)
            /\ stats'.WorkQueueFullErrors = stats.WorkQueueFullErrors /\ SleepCount = 0
            /\ SleepCount' = 0
        BY <2>2, <2>5, <2>6
      <3>2. QED
        BY <1>e, <3>1 DEF DropsCounted
    <2>11. QED
      BY <2>7, <2>8, <2>9, <2>10 DEF StatsAddUp
  <1>6. ASSUME NEW w \in Workers, Take(w) PROVE StatsAddUp'
    <2>1. /\ worker[w].pc = "idle" /\ worker'[w].pc = "working"
          /\ \A v \in Workers \ {w} : worker'[v] = worker[v]
          /\ Len(queue') = Len(queue) - 1
          /\ UNCHANGED <<position, poll, stats, dropped, discarded>>
      BY <1>6, TakeEffect
    <2>2. Working' = Working \cup {w} /\ w \notin Working /\ DeadLettering' = DeadLettering
      BY <1>d, <1>w, <2>1, DeadLetteringIs DEF Working
    <2>3. Cardinality(Working') = Cardinality(Working) + 1
      BY <1>f, <2>2, FS_AddElement
    <2>4. HandCount' = HandCount /\ SleepCount' = SleepCount
      BY <2>1 DEF InHand, HandCount, SleepCount
    <2>5. /\ position' = position /\ Cardinality(discarded') = Cardinality(discarded)
          /\ Cardinality(dropped') = Cardinality(dropped) /\ Len(queue') = Len(queue) - 1
          /\ Cardinality(Working') = Cardinality(Working) + 1
          /\ Cardinality(DeadLettering') = Cardinality(DeadLettering)
          /\ stats'.MessagesSeen = stats.MessagesSeen
          /\ stats'.MessagesProcessed = stats.MessagesProcessed
          /\ stats'.MessageErrors = stats.MessageErrors
          /\ stats'.WorkQueueFullErrors = stats.WorkQueueFullErrors
          /\ stats'.DeadLettersPublished = stats.DeadLettersPublished
          /\ stats'.DeadLetterPublishErrors = stats.DeadLetterPublishErrors
      BY <2>1, <2>2, <2>3, <2>4
    <2>6. SeenOrDiscarded'
      <3>1. /\ position' = position /\ stats'.MessagesSeen = stats.MessagesSeen
            /\ Cardinality(discarded') = Cardinality(discarded)
        BY <2>4, <2>5
      <3>2. QED
        BY <1>a, <3>1 DEF SeenOrDiscarded
    <2>7. SeenBalance'
      <3>1. /\ stats'.MessagesSeen = seen /\ stats'.MessagesProcessed = done
            /\ stats'.MessageErrors = err /\ Cardinality(dropped') = drop
            /\ Len(queue') = depth - 1 /\ Cardinality(Working') = work + 1
            /\ HandCount' = hand
        BY <2>4, <2>5, <1>n
      <3>2. seen = done + err + drop + (depth - 1) + (work + 1) + hand
        BY <1>m
      <3>3. QED
        BY <3>1, <3>2 DEF SeenBalance
    <2>8. ErrorBalance'
      <3>1. /\ stats'.MessageErrors = stats.MessageErrors
            /\ stats'.DeadLettersPublished = stats.DeadLettersPublished
            /\ stats'.DeadLetterPublishErrors = stats.DeadLetterPublishErrors
            /\ Cardinality(DeadLettering') = Cardinality(DeadLettering)
        BY <2>4, <2>5
      <3>2. QED
        BY <1>c, <3>1 DEF ErrorBalance
    <2>9. DropsCounted'
      <3>1. /\ Cardinality(dropped') = Cardinality(dropped)
            /\ stats'.WorkQueueFullErrors = stats.WorkQueueFullErrors
            /\ SleepCount' = SleepCount
        BY <2>4, <2>5
      <3>2. QED
        BY <1>e, <3>1 DEF DropsCounted
    <2>10. QED
      BY <2>6, <2>7, <2>8, <2>9 DEF StatsAddUp
  <1>7. ASSUME NEW w \in Workers, NEW ok \in BOOLEAN, HandleReturns(w, ok) PROVE StatsAddUp'
    <2>1. /\ worker[w].pc = "working" /\ \A v \in Workers \ {w} : worker'[v] = worker[v]
          /\ worker'[w].pc = IF ok THEN "idle" ELSE "dead_letter"
          /\ UNCHANGED <<position, poll, queue, dropped, discarded>>
          /\ Counted(IF ok THEN {"MessagesProcessed"} ELSE {"MessageErrors"})
      BY <1>0, <1>7 DEF HandleReturns, WorkerAt, IdleWorker, TypeOK, WorkerStates
    <2>2. Working' = Working \ {w} /\ w \in Working
      BY <1>w, <2>1 DEF Working
    <2>3. Cardinality(Working') = Cardinality(Working) - 1
      BY <1>f, <2>2, FS_RemoveElement
    <2>4. HandCount' = HandCount /\ SleepCount' = SleepCount
      BY <2>1 DEF InHand, HandCount, SleepCount
    <2>5. CASE ok
      <3>1. /\ stats'.MessagesSeen = stats.MessagesSeen
            /\ stats'.MessagesProcessed = stats.MessagesProcessed + 1
            /\ stats'.MessageErrors = stats.MessageErrors
            /\ stats'.WorkQueueFullErrors = stats.WorkQueueFullErrors
            /\ stats'.DeadLettersPublished = stats.DeadLettersPublished
            /\ stats'.DeadLetterPublishErrors = stats.DeadLetterPublishErrors
        BY <1>t, <2>1, <2>5, CountedFields DEF Fields, One
      <3>2. DeadLettering' = DeadLettering
        BY <1>d, <2>1, <2>5, DeadLetteringIs
      <3>3. /\ position' = position /\ Cardinality(discarded') = Cardinality(discarded)
            /\ Cardinality(dropped') = Cardinality(dropped) /\ Len(queue') = Len(queue)
            /\ Cardinality(Working') = Cardinality(Working) - 1
            /\ Cardinality(DeadLettering') = Cardinality(DeadLettering)
        BY <2>1, <2>3, <2>4, <3>1, <3>2
      <3>4. SeenOrDiscarded'
        <4>1. /\ position' = position /\ stats'.MessagesSeen = stats.MessagesSeen
              /\ Cardinality(discarded') = Cardinality(discarded)
          BY <2>4, <3>1, <3>3
        <4>2. QED
          BY <1>a, <4>1 DEF SeenOrDiscarded
      <3>5. SeenBalance'
        <4>1. /\ stats'.MessagesSeen = seen /\ stats'.MessagesProcessed = done + 1
              /\ stats'.MessageErrors = err /\ Cardinality(dropped') = drop
              /\ Len(queue') = depth /\ Cardinality(Working') = work - 1
              /\ HandCount' = hand
          BY <2>4, <3>1, <3>3, <1>n
        <4>2. seen = (done + 1) + err + drop + depth + (work - 1) + hand
          BY <1>m
        <4>3. QED
          BY <4>1, <4>2 DEF SeenBalance
      <3>6. ErrorBalance'
        <4>1. /\ stats'.MessageErrors = stats.MessageErrors
              /\ stats'.DeadLettersPublished = stats.DeadLettersPublished
              /\ stats'.DeadLetterPublishErrors = stats.DeadLetterPublishErrors
              /\ Cardinality(DeadLettering') = Cardinality(DeadLettering)
          BY <2>4, <3>1, <3>3
        <4>2. QED
          BY <1>c, <4>1 DEF ErrorBalance
      <3>7. DropsCounted'
        <4>1. /\ Cardinality(dropped') = Cardinality(dropped)
              /\ stats'.WorkQueueFullErrors = stats.WorkQueueFullErrors
              /\ SleepCount' = SleepCount
          BY <2>4, <3>1, <3>3
        <4>2. QED
          BY <1>e, <4>1 DEF DropsCounted
      <3>8. QED
        BY <3>4, <3>5, <3>6, <3>7 DEF StatsAddUp
    <2>6. CASE ~ok
      <3>1. /\ stats'.MessagesSeen = stats.MessagesSeen
            /\ stats'.MessagesProcessed = stats.MessagesProcessed
            /\ stats'.MessageErrors = stats.MessageErrors + 1
            /\ stats'.WorkQueueFullErrors = stats.WorkQueueFullErrors
            /\ stats'.DeadLettersPublished = stats.DeadLettersPublished
            /\ stats'.DeadLetterPublishErrors = stats.DeadLetterPublishErrors
        BY <1>t, <2>1, <2>6, CountedFields DEF Fields, One
      <3>2. DeadLettering' = DeadLettering \cup {w} /\ w \notin DeadLettering
        BY <1>d, <2>1, <2>6, DeadLetteringIs, PollerAssumption
      <3>3. Cardinality(DeadLettering') = Cardinality(DeadLettering) + 1
        BY <1>f, <3>2, FS_AddElement
      <3>4. /\ position' = position /\ Cardinality(discarded') = Cardinality(discarded)
            /\ Cardinality(dropped') = Cardinality(dropped) /\ Len(queue') = Len(queue)
            /\ Cardinality(Working') = Cardinality(Working) - 1
            /\ Cardinality(DeadLettering') = Cardinality(DeadLettering) + 1
        BY <2>1, <2>3, <2>4, <3>1, <3>3
      <3>5. SeenOrDiscarded'
        <4>1. /\ position' = position /\ stats'.MessagesSeen = stats.MessagesSeen
              /\ Cardinality(discarded') = Cardinality(discarded)
          BY <2>4, <3>1, <3>4
        <4>2. QED
          BY <1>a, <4>1 DEF SeenOrDiscarded
      <3>6. SeenBalance'
        <4>1. /\ stats'.MessagesSeen = seen /\ stats'.MessagesProcessed = done
              /\ stats'.MessageErrors = err + 1 /\ Cardinality(dropped') = drop
              /\ Len(queue') = depth /\ Cardinality(Working') = work - 1
              /\ HandCount' = hand
          BY <2>4, <3>1, <3>4, <1>n
        <4>2. seen = done + (err + 1) + drop + depth + (work - 1) + hand
          BY <1>m
        <4>3. QED
          BY <4>1, <4>2 DEF SeenBalance
      <3>7. ErrorBalance'
        <4>1. /\ stats'.MessageErrors = stats.MessageErrors + 1
              /\ stats'.DeadLettersPublished = stats.DeadLettersPublished
              /\ stats'.DeadLetterPublishErrors = stats.DeadLetterPublishErrors
              /\ Cardinality(DeadLettering') = Cardinality(DeadLettering) + 1
          BY <2>4, <3>1, <3>4
        <4>2. QED
          BY <1>c, <4>1 DEF ErrorBalance
      <3>8. DropsCounted'
        <4>1. /\ Cardinality(dropped') = Cardinality(dropped)
              /\ stats'.WorkQueueFullErrors = stats.WorkQueueFullErrors
              /\ SleepCount' = SleepCount
          BY <2>4, <3>1, <3>4
        <4>2. QED
          BY <1>e, <4>1 DEF DropsCounted
      <3>9. QED
        BY <3>5, <3>6, <3>7, <3>8 DEF StatsAddUp
    <2>7. QED
      BY <2>5, <2>6
  <1>8. ASSUME NEW w \in Workers, NEW published \in BOOLEAN, WorkerDeadLetters(w, published)
        PROVE  StatsAddUp'
    <2>1. /\ worker[w].pc = "dead_letter" /\ worker'[w].pc = "idle"
          /\ \A v \in Workers \ {w} : worker'[v] = worker[v]
          /\ UNCHANGED <<position, poll, queue, dropped, discarded>>
          /\ Counted(IF published THEN {"DeadLettersPublished"} ELSE {"DeadLetterPublishErrors"})
      BY <1>0, <1>8 DEF WorkerDeadLetters, WorkerAt, IdleWorker, TypeOK
    <2>2. /\ stats'.MessagesSeen = stats.MessagesSeen
          /\ stats'.MessagesProcessed = stats.MessagesProcessed
          /\ stats'.MessageErrors = stats.MessageErrors
          /\ stats'.WorkQueueFullErrors = stats.WorkQueueFullErrors
          /\ stats'.DeadLettersPublished = stats.DeadLettersPublished + One(published)
          /\ stats'.DeadLetterPublishErrors = stats.DeadLetterPublishErrors + One(~published)
      <3>1. CASE published
        BY <1>t, <2>1, <3>1, CountedFields DEF Fields, One
      <3>2. CASE ~published
        BY <1>t, <2>1, <3>2, CountedFields DEF Fields, One
      <3>3. QED
        BY <3>1, <3>2
    <2>3. DeadLettering' = DeadLettering \ {w} /\ w \in DeadLettering
      BY <1>d, <2>1, DeadLetteringIs, PollerAssumption
    <2>4. Cardinality(DeadLettering') = Cardinality(DeadLettering) - 1
      BY <1>f, <2>3, FS_RemoveElement
    <2>5. Working' = Working /\ HandCount' = HandCount /\ SleepCount' = SleepCount
      BY <1>w, <2>1 DEF Working, InHand, HandCount, SleepCount
    <2>6. /\ position' = position /\ Cardinality(discarded') = Cardinality(discarded)
          /\ Cardinality(dropped') = Cardinality(dropped) /\ Len(queue') = Len(queue)
          /\ Cardinality(Working') = Cardinality(Working)
          /\ Cardinality(DeadLettering') = Cardinality(DeadLettering) - 1
      BY <2>1, <2>2, <2>4, <2>5
    <2>7. SeenOrDiscarded'
      <3>1. /\ position' = position /\ stats'.MessagesSeen = stats.MessagesSeen
            /\ Cardinality(discarded') = Cardinality(discarded)
        BY <2>2, <2>5, <2>6
      <3>2. QED
        BY <1>a, <3>1 DEF SeenOrDiscarded
    <2>8. SeenBalance'
      <3>1. /\ stats'.MessagesSeen = stats.MessagesSeen
            /\ stats'.MessagesProcessed = stats.MessagesProcessed
            /\ stats'.MessageErrors = stats.MessageErrors
            /\ Cardinality(dropped') = Cardinality(dropped) /\ Len(queue') = Len(queue)
            /\ Cardinality(Working') = Cardinality(Working) /\ HandCount' = HandCount
        BY <2>2, <2>5, <2>6
      <3>2. QED
        BY <1>b, <3>1 DEF SeenBalance
    <2>9. ErrorBalance'
      <3>1. /\ stats'.MessageErrors = stats.MessageErrors
            /\ stats'.DeadLettersPublished = stats.DeadLettersPublished + One(published)
            /\ stats'.DeadLetterPublishErrors = stats.DeadLetterPublishErrors + One(~published)
            /\ Cardinality(DeadLettering') = Cardinality(DeadLettering) - 1
        BY <2>2, <2>5, <2>6
      <3>2. CASE published
        BY <1>c, <3>1, <3>2 DEF ErrorBalance, One
      <3>3. CASE ~published
        BY <1>c, <3>1, <3>3 DEF ErrorBalance, One
      <3>4. QED
        BY <3>2, <3>3
    <2>10. DropsCounted'
      <3>1. /\ Cardinality(dropped') = Cardinality(dropped)
            /\ stats'.WorkQueueFullErrors = stats.WorkQueueFullErrors
            /\ SleepCount' = SleepCount
        BY <2>2, <2>5, <2>6
      <3>2. QED
        BY <1>e, <3>1 DEF DropsCounted
    <2>11. QED
      BY <2>7, <2>8, <2>9, <2>10 DEF StatsAddUp
  <1>9. QED
    BY <1>1, <1>2, <1>3, <1>4, <1>5, <1>6, <1>7, <1>8, Steps DEF Answered

(* The counters of the shutdown summary account for every message, at every *)
(* moment and for any number of goroutines that count without a common      *)
(* lock.                                                                    *)
THEOREM SummaryAddsUp == Spec => []StatsAddUp
  <1>1. Init => StatsAddUp
    <2> SUFFICES ASSUME Init PROVE StatsAddUp
      OBVIOUS
    <2>1. Working = {} /\ DeadLettering = {} /\ HandCount = 0 /\ SleepCount = 0
      BY PollerAssumption DEF Init, Working, DeadLettering, Goroutines, InHand, HandCount,
                              SleepCount, IdleWorker, At
    <2>2. QED
      BY <2>1, FS_EmptySet DEF Init, StatsAddUp, SeenOrDiscarded, SeenBalance, ErrorBalance,
                             DropsCounted
  <1>2. PoolInv /\ PoolInv' /\ NoneLostAlive /\ StatsAddUp /\ [Next]_vars => StatsAddUp'
    BY StatsKept
  <1>3. QED
    BY <1>1, <1>2, PoolInvariant, NoneLost, PTL DEF Spec

(* Run returns with nothing left behind, wherever in the loop the signal or *)
(* the error of Poll came.                                                  *)
THEOREM StopsDrained == Spec => []DrainedAtStop
  <1>1. PoolInv /\ StatsAddUp => DrainedAtStop
    <2> SUFFICES ASSUME PoolInv, StatsAddUp, poll.pc = "stopped"
                 PROVE  /\ queue = <<>>
                        /\ \A w \in Workers : worker[w].pc = "exited" /\ gate[w] = Off
                        /\ stats.MessagesSeen = stats.MessagesProcessed + stats.MessageErrors
                                                  + Cardinality(dropped)
                        /\ Cardinality(discarded) <= 1
                        /\ \A m \in discarded : m = position - 1
      BY DEF DrainedAtStop
    <2>1. /\ \A w \in Workers : worker[w].pc = "exited" /\ gate[w] = Off
          /\ queue = <<>>
      BY WorkersAssumption DEF PoolInv
    <2>2. Cardinality(Working) = 0 /\ HandCount = 0 /\ Len(queue) = 0
      <3>1. Working = {}
        BY <2>1 DEF Working
      <3>2. QED
        BY <2>1, <3>1, FS_EmptySet DEF InHand, HandCount
    <2>3. stats.MessagesSeen = stats.MessagesProcessed + stats.MessageErrors
                                 + Cardinality(dropped)
      BY <2>2, CountedSets DEF StatsAddUp, SeenBalance, PoolInv, TypeOK, Stats
    <2>4. Cardinality(discarded) <= 1 /\ \A m \in discarded : m = position - 1
      <3>1. discarded = {} \/ discarded = {position - 1}
        BY DEF PoolInv
      <3>2. Cardinality(discarded) \in {0, 1}
        BY <3>1, FS_EmptySet, FS_Singleton
      <3>3. QED
        BY <3>1, <3>2
    <2>5. QED
      BY <2>1, <2>3, <2>4
  <1>2. QED
    BY <1>1, PoolInvariant, SummaryAddsUp, PTL
=============================================================================
