--------------------------- MODULE ToolCallsProofs ---------------------------
(***************************************************************************)
(* Proofs about the parts of MCToolCalls: the gate, for any set of threads *)
(* and any number of updates, with the refinement of UpdateDelivery, and   *)
(* the batch, for any number of calls and any choice of exclusive tools.   *)
(* Each part has an inductive invariant of its own, GateInv and BatchInv.  *)
(***************************************************************************)
EXTENDS MCToolCalls, SeqFacts

-----------------------------------------------------------------------------
(* The progress updates of a call.                                         *)

LEMMA InitInv == Init => GateInv
<1> SUFFICES ASSUME Init
             PROVE  GateInv
  OBVIOUS
<1>1. << >> \in Seq(Updates) /\ Len(<< >>) = 0
  BY EmptySeq
<1>2. TypeOK
  BY <1>1, MaxUpdatesAssumption
  DEF Init, TypeOK, WorkerPcs, ExecPcs, WaiterState
<1>3. WorkerHolds /\ ExecutorHolds
  BY DEF Init, WorkerHolds, ExecutorHolds
<1>4. Conservation
  BY <1>1, EmptyUnit DEF Init, Conservation, InGate
<1>5. QED
  BY <1>2, <1>3, <1>4 DEF GateInv

\* A step keeps every variable in its type.
LEMMA TypeStep == GateInv /\ [Next]_vars => TypeOK'
<1> SUFFICES ASSUME TypeOK, WorkerHolds, [Next]_vars
             PROVE  TypeOK'
  BY DEF GateInv
<1>0. << >> \in Seq(Updates)
  BY EmptySeq
<1> USE <1>0, MaxUpdatesAssumption
    DEF TypeOK, WorkerPcs, ExecPcs, WaiterState, vars, gate, worker,
        exec, hist, WorkerAt, ExecAt, Arm, Disarm, NotifyWaiters
<1>1. ASSUME NEW t \in Threads, TryEnqueue(t)
      PROVE  TypeOK'
  <2>1. calls + 1 \in Updates /\ calls + 1 \in 0 .. MaxUpdates
    BY <1>1 DEF TryEnqueue, Updates
  <2>2. /\ Append(queue, calls + 1) \in Seq(Updates)
        /\ Append(accepted, calls + 1) \in Seq(Updates)
    BY <2>1, AppendProperties
  <2>3. QED
    BY <1>1, <2>1, <2>2 DEF TryEnqueue
<1>2. ASSUME NEW t \in Threads, ThreadWake(t)
      PROVE  TypeOK'
  BY <1>2 DEF ThreadWake
<1>3. ASSUME Worker
      PROVE  TypeOK'
  <2>1. CASE PopForSend
    BY <2>1, HeadTailProperties DEF PopForSend
  <2>2. CASE WorkerDeliver
    BY <2>2, ConcatProperties DEF WorkerDeliver
  <2>3. CASE CompleteSend
    BY <2>3 DEF CompleteSend
  <2>4. CASE PopNone \/ WorkerCheckSleep
    BY <2>4 DEF PopNone, WorkerCheckSleep
  <2>5. CASE CompleteSendWake \/ WorkerArm \/ WorkerCheckMore
    BY <2>5 DEF CompleteSendWake, WorkerArm, WorkerCheckMore
  <2>6. CASE WorkerCheckDone \/ WorkerWoken
    BY <2>6 DEF WorkerCheckDone, WorkerWoken
  <2>7. QED
    BY <1>3, <2>1, <2>2, <2>3, <2>4, <2>5, <2>6 DEF Worker
<1>4. ASSUME ToolReturns
      PROVE  TypeOK'
  BY <1>4 DEF ToolReturns
<1>5. ASSUME Executor
      PROVE  TypeOK'
  <2>1. CASE CloseAndDrain
    BY <2>1 DEF CloseAndDrain
  <2>2. CASE DrainDeliver
    BY <2>2, HeadTailProperties, AppendProperties DEF DrainDeliver
  <2>3. CASE CloseWake \/ DrainArm \/ DrainReady \/ DrainWoken \/ DropWake
    BY <2>3 DEF CloseWake, DrainArm, DrainReady, DrainWoken, DropWake
  <2>4. CASE DrainSleep \/ DrainDone \/ Join \/ DropClose
    BY <2>4 DEF DrainSleep, DrainDone, Join, DropClose
  <2>5. QED
    BY <1>5, <2>1, <2>2, <2>3, <2>4 DEF Executor
<1>6. ASSUME DropFuture
      PROVE  TypeOK'
  BY <1>6 DEF DropFuture
<1>7. CASE UNCHANGED vars
  BY <1>7
<1>8. QED
  BY <1>1, <1>2, <1>3, <1>4, <1>5, <1>6, <1>7 DEF Next, Thread

\* A step keeps the bookkeeping of who holds what: the worker's item and the
\* count of updates in flight, and what the executor's phase says of the
\* queue, the drained updates and the worker.
LEMMA HoldsStep == GateInv /\ [Next]_vars => WorkerHolds' /\ ExecutorHolds'
<1> SUFFICES ASSUME TypeOK, WorkerHolds, ExecutorHolds, [Next]_vars
             PROVE  WorkerHolds' /\ ExecutorHolds'
  BY DEF GateInv
<1> USE DEF WorkerHolds, ExecutorHolds, vars, gate, worker, exec, hist,
            WorkerAt, ExecAt
<1>1. ASSUME NEW t \in Threads, TryEnqueue(t)
      PROVE  WorkerHolds' /\ ExecutorHolds'
  BY <1>1 DEF TryEnqueue
<1>2. ASSUME NEW t \in Threads, ThreadWake(t)
      PROVE  WorkerHolds' /\ ExecutorHolds'
  BY <1>2 DEF ThreadWake
<1>3. ASSUME Worker
      PROVE  WorkerHolds' /\ ExecutorHolds'
  <2>1. CASE PopForSend
    <3>1. inFlight = 0 /\ inFlight' = 1
      BY <2>1 DEF PopForSend
    <3>2. Len(item') = 1
      BY <2>1 DEF PopForSend
    <3>3. QED
      BY <2>1, <3>1, <3>2 DEF PopForSend
  <2>2. CASE WorkerDeliver
    BY <2>2 DEF WorkerDeliver
  <2>3. CASE CompleteSend
    BY <2>3 DEF CompleteSend
  <2>4. CASE PopNone \/ WorkerCheckSleep
    BY <2>4 DEF PopNone, WorkerCheckSleep
  <2>5. CASE CompleteSendWake \/ WorkerArm \/ WorkerCheckMore
    BY <2>5 DEF CompleteSendWake, WorkerArm, WorkerCheckMore
  <2>6. CASE WorkerCheckDone \/ WorkerWoken
    BY <2>6 DEF WorkerCheckDone, WorkerWoken
  <2>7. QED
    BY <1>3, <2>1, <2>2, <2>3, <2>4, <2>5, <2>6 DEF Worker
<1>4. ASSUME ToolReturns
      PROVE  WorkerHolds' /\ ExecutorHolds'
  BY <1>4 DEF ToolReturns
<1>5. ASSUME Executor
      PROVE  WorkerHolds' /\ ExecutorHolds'
  <2>1. CASE CloseAndDrain
    BY <2>1 DEF CloseAndDrain
  <2>2. CASE DrainDeliver
    BY <2>2 DEF DrainDeliver
  <2>3. CASE CloseWake \/ DrainArm \/ DrainReady \/ DrainWoken \/ DropWake
    BY <2>3 DEF CloseWake, DrainArm, DrainReady, DrainWoken, DropWake
  <2>4. CASE DrainSleep \/ DrainDone \/ Join \/ DropClose
    BY <2>4 DEF DrainSleep, DrainDone, Join, DropClose
  <2>5. QED
    BY <1>5, <2>1, <2>2, <2>3, <2>4 DEF Executor
<1>6. ASSUME DropFuture
      PROVE  WorkerHolds' /\ ExecutorHolds'
  BY <1>6 DEF DropFuture
<1>7. CASE UNCHANGED vars
  BY <1>7
<1>8. QED
  BY <1>1, <1>2, <1>3, <1>4, <1>5, <1>6, <1>7 DEF Next, Thread

\* An empty item is the empty sequence.
LEMMA ItemEmpty ==
  ASSUME TypeOK, WorkerHolds, workerPc # "sending"
  PROVE  item = << >>
BY EmptySeq DEF TypeOK, WorkerHolds

\* Only these steps touch the updates in the gate or their history.
LEMMA GateMoves ==
  ASSUME [Next]_vars,
         ~(\E t \in Threads : TryEnqueue(t)),
         ~PopForSend, ~WorkerDeliver, ~CloseAndDrain, ~DrainDeliver,
         ~DropFuture
  PROVE  /\ UNCHANGED << item, remaining, queue, accepted, delivered, lost >>
         /\ accepting' => accepting
         /\ Dropped => Dropped'
         /\ accepting' = accepting \/ DropClose
<1> USE DEF vars, gate, worker, exec, hist, WorkerAt, ExecAt, Dropped
<1>1. CASE \E t \in Threads : ThreadWake(t)
  BY <1>1 DEF ThreadWake
<1>2. CASE Worker
  BY <1>2 DEF Worker, PopNone, CompleteSend, CompleteSendWake, WorkerArm,
              WorkerCheckSleep, WorkerCheckMore, WorkerCheckDone, WorkerWoken
<1>3. CASE ToolReturns
  BY <1>3 DEF ToolReturns
<1>4. CASE Executor
  BY <1>4 DEF Executor, CloseWake, DrainArm, DrainReady, DrainSleep,
              DrainWoken, DrainDone, Join, DropClose, DropWake
<1>5. CASE UNCHANGED vars
  BY <1>5
<1>6. QED
  BY <1>1, <1>2, <1>3, <1>4, <1>5 DEF Next, Thread

\* A step keeps the account of every accepted update.
LEMMA ConservationStep == GateInv /\ [Next]_vars => Conservation'
<1> SUFFICES ASSUME TypeOK, TypeOK', WorkerHolds, ExecutorHolds,
                    Conservation, [Next]_vars
             PROVE  Conservation'
  BY TypeStep DEF GateInv
<1> DEFINE Held == remaining \o queue
<1>1. /\ item \in Seq(Updates) /\ remaining \in Seq(Updates)
      /\ queue \in Seq(Updates) /\ lost \in Seq(Updates)
      /\ delivered \in Seq(Updates) /\ << >> \in Seq(Updates)
      /\ Held \in Seq(Updates) /\ InGate \in Seq(Updates)
  BY EmptySeq, ConcatProperties DEF TypeOK, InGate
<1>2. ASSUME NEW t \in Threads, TryEnqueue(t)
      PROVE  Conservation'
  <2>1. CASE ~accepting
    BY <1>2, <2>1 DEF TryEnqueue, Conservation, InGate, Dropped, exec, worker
  <2>2. CASE accepting
    <3>1. calls + 1 \in Updates
      BY <1>2, MaxUpdatesAssumption DEF TryEnqueue, Updates, TypeOK
    <3>2. /\ queue' = Append(queue, calls + 1)
          /\ accepted' = Append(accepted, calls + 1)
          /\ UNCHANGED << item, remaining, delivered, lost >>
      BY <1>2, <2>2 DEF TryEnqueue, exec, worker
    <3>3. lost = << >>
      BY <2>2 DEF Conservation
    <3>4. InGate' = Append(InGate, calls + 1)
      <4>1. remaining \o queue' = Append(Held, calls + 1)
        BY <1>1, <3>1, <3>2, AppendLast, SMTT(30)
      <4>2. item \o Append(Held, calls + 1) = Append(item \o Held, calls + 1)
        BY <1>1, <3>1, AppendLast
      <4>3. QED
        BY <3>2, <4>1, <4>2 DEF InGate
    <3>5. accepted = delivered \o InGate
      BY <1>1, <3>3, EmptyUnit DEF Conservation
    <3>6. accepted' = delivered' \o InGate'
      <4>1. \A g \in Seq(Updates) :
              delivered \o Append(g, calls + 1)
                = Append(delivered \o g, calls + 1)
        BY <1>1, <3>1, AppendLast
      <4>2. delivered \o Append(InGate, calls + 1)
              = Append(delivered \o InGate, calls + 1)
        BY <1>1, <4>1, Zenon
      <4>3. QED
        BY <3>2, <3>4, <3>5, <4>2
    <3>7. InGate' \in Seq(Updates)
      BY <1>1, <3>1, <3>4, AppendProperties
    <3>8. QED
      BY <3>2, <3>3, <3>6, <3>7, EmptyUnit DEF Conservation
  <2>3. QED
    BY <2>1, <2>2
<1>3. CASE PopForSend
  <2>1. item = << >> /\ remaining = << >>
    BY <1>3, ItemEmpty DEF PopForSend, WorkerAt, ExecutorHolds, TypeOK
  <2>2. /\ item' = << Head(queue) >> /\ queue' = Tail(queue)
        /\ UNCHANGED << remaining, accepted, delivered, lost, accepting,
                        execPc >>
    BY <1>3 DEF PopForSend, exec, hist
  <2>3. queue' \in Seq(Updates) /\ queue = item' \o queue'
    BY <1>1, <1>3, <2>2, HeadThenTail DEF PopForSend
  <2>4. InGate = queue /\ InGate' = item' \o queue'
    BY <1>1, <2>1, <2>2, <2>3, EmptyUnit DEF InGate
  <2>5. QED
    BY <2>2, <2>3, <2>4 DEF Conservation, Dropped
<1>4. CASE WorkerDeliver
  <2>1. /\ delivered' = delivered \o item /\ item' = << >>
        /\ UNCHANGED << remaining, queue, accepted, lost, accepting, execPc >>
    BY <1>4 DEF WorkerDeliver, gate, exec
  <2>2. InGate' = Held
    BY <1>1, <2>1, EmptyUnit DEF InGate
  <2>3. (delivered \o item) \o (Held \o lost)
          = delivered \o ((item \o Held) \o lost)
    <3>1. \A h \in Seq(Updates) :
            (delivered \o item) \o (h \o lost)
              = delivered \o ((item \o h) \o lost)
      BY <1>1, SMTT(60)
    <3>2. QED
      BY <1>1, <3>1, Zenon
  <2>4. QED
    BY <2>1, <2>2, <2>3 DEF Conservation, InGate, Dropped
<1>5. CASE CloseAndDrain
  <2>1. /\ remaining = << >> /\ remaining' = queue /\ queue' = << >>
        /\ accepting' = FALSE /\ execPc = "closing" /\ lost = << >>
        /\ UNCHANGED << item, accepted, delivered, lost >>
    BY <1>5 DEF CloseAndDrain, ExecAt, ExecutorHolds, Conservation, Dropped,
                worker, hist
  <2>2. InGate' = InGate
    BY <1>1, <2>1, EmptyUnit DEF InGate
  <2>3. QED
    BY <2>1, <2>2 DEF Conservation
<1>6. CASE DrainDeliver
  <2>1. /\ execPc = "drain" /\ execPc' = "drain" /\ remaining # << >>
        /\ delivered' = Append(delivered, Head(remaining))
        /\ remaining' = Tail(remaining)
        /\ UNCHANGED << item, queue, accepted, lost, accepting >>
    BY <1>6 DEF DrainDeliver, gate, worker
  <2>2. item = << >> /\ queue = << >> /\ lost = << >>
    <3>1. workerPc # "sending"
      BY <2>1 DEF ExecutorHolds, WorkerHolds
    <3>2. QED
      BY <2>1, <3>1, ItemEmpty DEF ExecutorHolds, Conservation, Dropped
  <2>3. delivered' \o remaining' = delivered \o remaining
    <3>1. Append(delivered, Head(remaining)) \o Tail(remaining)
            = delivered \o remaining
      BY <1>1, <2>1, MoveHeadOfTwo
    <3>2. QED
      BY <2>1, <3>1
  <2>4. remaining' \in Seq(Updates)
    BY DEF TypeOK
  <2>5. /\ InGate = remaining /\ InGate' = remaining'
        /\ InGate \o lost = remaining /\ InGate' \o lost' = remaining'
    BY <1>1, <2>1, <2>2, <2>4, EmptyUnit DEF InGate
  <2>6. QED
    BY <2>1, <2>2, <2>3, <2>5 DEF Conservation
<1>7. CASE DropFuture
  <2>1. /\ lost = << >> /\ remaining' = << >> /\ lost' = remaining
        /\ Dropped'
        /\ UNCHANGED << item, queue, accepted, delivered, accepting >>
    BY <1>7 DEF DropFuture, FutureHeld, Conservation, Dropped, gate, worker
  <2>2. CASE remaining = << >>
    BY <2>1, <2>2 DEF Conservation, InGate
  <2>3. CASE remaining # << >>
    <3>1. queue = << >> /\ ~accepting
      BY <2>3 DEF ExecutorHolds
    <3>2. InGate = item \o remaining /\ InGate' = item
      BY <1>1, <2>1, <3>1, EmptyUnit DEF InGate
    <3>3. InGate \o lost = InGate' \o lost'
      BY <1>1, <2>1, <3>2, EmptyUnit
    <3>4. QED
      BY <2>1, <3>1, <3>3 DEF Conservation
  <2>4. QED
    BY <2>2, <2>3
<1>8. CASE /\ ~(\E t \in Threads : TryEnqueue(t))
           /\ ~PopForSend /\ ~WorkerDeliver /\ ~CloseAndDrain
           /\ ~DrainDeliver /\ ~DropFuture
  BY <1>8, GateMoves DEF Conservation, InGate
<1>9. QED
  BY <1>2, <1>3, <1>4, <1>5, <1>6, <1>7, <1>8

\* A step of the whole is one of the gate, or leaves the gate alone.
LEMMA GateSteps == [CallsNext]_callsVars => [Next]_vars
  BY DEF CallsNext, callsVars, gateVars

\* GateInv holds in every reachable state.
THEOREM GateInvariant == CallsSpec => []GateInv
<1>1. GateInv /\ [CallsNext]_callsVars => GateInv'
  BY GateSteps, TypeStep, HoldsStep, ConservationStep DEF GateInv
<1>2. QED
  BY InitInv, <1>1, PTL DEF CallsSpec, CallsInit

\* Every variable keeps its type.
THEOREM TypeCorrect == CallsSpec => []TypeOK
<1>1. GateInv => TypeOK
  BY DEF GateInv
<1>2. QED
  BY GateInvariant, <1>1, PTL

\* try_enqueue's promise: an accepted update is sent in order or still held,
\* unless its call is dropped after the tool returned.
THEOREM UpdatesConserved == CallsSpec => []Conservation
<1>1. GateInv => Conservation
  BY DEF GateInv
<1>2. QED
  BY GateInvariant, <1>1, PTL

\* close_and_drain's promise: when the call returns nothing is left to send.
THEOREM AllSent == CallsSpec => []AllSentOnReturn
<1>1. GateInv => AllSentOnReturn
  <2> SUFFICES ASSUME GateInv, execPc = "returned"
               PROVE  delivered = accepted
    BY DEF AllSentOnReturn
  <2>1. item = << >> /\ remaining = << >> /\ queue = << >> /\ lost = << >>
    BY ItemEmpty DEF GateInv, ExecutorHolds, Conservation, Dropped
  <2>2. delivered \in Seq(Updates) /\ << >> \in Seq(Updates)
    BY EmptySeq DEF GateInv, TypeOK
  <2>3. QED
    BY <2>1, <2>2, EmptyUnit DEF GateInv, Conservation, InGate
<1>2. QED
  BY GateInvariant, <1>1, PTL

\* No update is sent once the call has returned.
THEOREM NothingLate == CallsSpec => NoLateUpdate
<1>1. GateInv /\ [Next]_vars => [execPc = "returned" =>
                                   delivered' = delivered]_vars
  <2> SUFFICES ASSUME GateInv, [Next]_vars, execPc = "returned"
               PROVE  delivered' = delivered
    OBVIOUS
  <2>1. ~WorkerDeliver /\ ~DrainDeliver /\ ~CloseAndDrain /\ ~DropFuture
        /\ ~PopForSend
    BY DEF GateInv, ExecutorHolds, WorkerDeliver, WorkerAt, DrainDeliver,
           CloseAndDrain, ExecAt, DropFuture, FutureHeld, PopForSend
  <2>2. CASE \E t \in Threads : TryEnqueue(t)
    BY <2>2 DEF TryEnqueue
  <2>3. QED
    BY <2>1, <2>2, GateMoves
<1>2. QED
  BY GateInvariant, GateSteps, <1>1, PTL DEF CallsSpec, NoLateUpdate

(***************************************************************************)
(* Refinement of UpdateDelivery.                                           *)
(***************************************************************************)

LEMMA ChannelStep ==
  GateInv /\ GateInv' /\ [Next]_vars => [Channel!Next]_(Channel!vars)
<1> SUFFICES ASSUME GateInv, GateInv', [Next]_vars
             PROVE  Channel!Next \/ UNCHANGED Channel!vars
  OBVIOUS
<1> USE DEF Channel!vars
<1>1. /\ item \in Seq(Updates) /\ remaining \in Seq(Updates)
      /\ queue \in Seq(Updates) /\ delivered \in Seq(Updates)
      /\ << >> \in Seq(Updates)
      /\ remaining \o queue \in Seq(Updates) /\ InGate \in Seq(Updates)
  BY EmptySeq, ConcatProperties DEF GateInv, TypeOK, InGate
<1>2. ASSUME NEW t \in Threads, TryEnqueue(t)
      PROVE  Channel!Next \/ UNCHANGED Channel!vars
  <2>1. CASE ~accepting
    BY <1>2, <2>1 DEF TryEnqueue, InGate, exec, worker
  <2>2. CASE accepting
    <3>1. calls + 1 \in Updates
      BY <1>2, MaxUpdatesAssumption DEF TryEnqueue, Updates, GateInv, TypeOK
    <3>2. /\ queue' = Append(queue, calls + 1)
          /\ UNCHANGED << accepting, item, remaining, execPc, delivered >>
      BY <1>2, <2>2 DEF TryEnqueue, exec, worker
    <3>3. remaining \o queue' = Append(remaining \o queue, calls + 1)
      BY <1>1, <3>1, <3>2, AppendLast
    <3>4. item \o Append(remaining \o queue, calls + 1)
            = Append(item \o (remaining \o queue), calls + 1)
      BY <1>1, <3>1, AppendLast
    <3>5. InGate' = Append(InGate, calls + 1)
      BY <3>2, <3>3, <3>4 DEF InGate
    <3>6. Channel!Accept
      BY <2>2, <3>1, <3>2, <3>5 DEF Channel!Accept
    <3>7. QED
      BY <3>6 DEF Channel!Next
  <2>3. QED
    BY <2>1, <2>2
<1>3. CASE PopForSend
  <2>1. item = << >> /\ remaining = << >>
    BY <1>3, ItemEmpty DEF PopForSend, WorkerAt, GateInv, ExecutorHolds
  <2>2. /\ item' = << Head(queue) >> /\ queue' = Tail(queue)
        /\ UNCHANGED << remaining, delivered, accepting, execPc >>
    BY <1>3 DEF PopForSend, exec, hist
  <2>3. queue' \in Seq(Updates) /\ queue = item' \o queue'
    BY <1>1, <1>3, <2>2, HeadThenTail DEF PopForSend
  <2>4. InGate' = InGate
    BY <1>1, <2>1, <2>2, <2>3, EmptyUnit DEF InGate
  <2>5. QED
    BY <2>2, <2>4
<1>4. CASE WorkerDeliver
  <2>1. /\ delivered' = delivered \o item /\ item' = << >> /\ Len(item) = 1
        /\ UNCHANGED << remaining, queue, accepting, execPc >>
    BY <1>4 DEF WorkerDeliver, WorkerAt, gate, exec, GateInv, WorkerHolds
  <2>2. PICK u \in Updates : item = << u >>
    <3>1. Len(item) = 1
      BY <2>1
    <3>2. QED
      BY <1>1, <3>1, Singleton
  <2>3. PICK rest \in Seq(Updates) : rest = remaining \o queue
    BY <1>1
  <2>4. InGate' = rest
    BY <2>1, <2>3, EmptyUnit DEF InGate
  <2>5. << u >> \o rest # << >> /\ Head(<< u >> \o rest) = u
        /\ Tail(<< u >> \o rest) = rest
    BY SMTT(30)
  <2>6. delivered' = Append(delivered, u)
    BY <1>1, <2>1, <2>2, AppendIsConcat
  <2>7. Channel!Deliver
    BY <2>1, <2>2, <2>3, <2>4, <2>5, <2>6 DEF Channel!Deliver, InGate
  <2>8. QED
    BY <2>7 DEF Channel!Next
<1>5. CASE CloseAndDrain
  <2>1. /\ remaining = << >> /\ remaining' = queue /\ queue' = << >>
        /\ accepting' = FALSE
        /\ execPc # "returned" /\ execPc' # "returned"
        /\ UNCHANGED << item, delivered >>
    BY <1>5 DEF CloseAndDrain, ExecAt, GateInv, ExecutorHolds, worker, hist
  <2>2. InGate' = InGate
    BY <1>1, <2>1, EmptyUnit DEF InGate
  <2>3. accepting \in BOOLEAN
    BY DEF GateInv, TypeOK
  <2>4. QED
    BY <2>1, <2>2, <2>3 DEF Channel!Next, Channel!Close
<1>6. CASE DrainDeliver
  <2>1. /\ execPc = "drain" /\ execPc' = "drain" /\ remaining # << >>
        /\ delivered' = Append(delivered, Head(remaining))
        /\ remaining' = Tail(remaining)
        /\ UNCHANGED << item, queue, accepting >>
    BY <1>6 DEF DrainDeliver, gate, worker
  <2>2. item = << >> /\ queue = << >>
    BY <2>1, ItemEmpty DEF GateInv, ExecutorHolds, WorkerHolds
  <2>3. remaining' \in Seq(Updates)
    BY DEF GateInv, TypeOK
  <2>4. InGate = remaining /\ InGate' = remaining'
    BY <1>1, <2>1, <2>2, <2>3, EmptyUnit DEF InGate
  <2>5. Channel!Deliver
    BY <2>1, <2>4 DEF Channel!Deliver
  <2>6. QED
    BY <2>5 DEF Channel!Next
<1>7. CASE DropFuture
  <2>1. /\ remaining' = << >>
        /\ execPc # "returned" /\ execPc' # "returned"
        /\ UNCHANGED << item, queue, delivered, accepting >>
    BY <1>7 DEF DropFuture, FutureHeld, gate, worker
  <2>2. CASE remaining = << >>
    BY <2>1, <2>2 DEF InGate
  <2>3. CASE remaining # << >>
    <3>1. queue = << >>
      BY <2>3 DEF GateInv, ExecutorHolds
    <3>2. InGate = item \o remaining /\ InGate' = item
      BY <1>1, <2>1, <3>1, EmptyUnit DEF InGate
    <3>3. /\ Len(item) \in 0 .. Len(item \o remaining)
          /\ SubSeq(item \o remaining, 1, Len(item)) = item
      BY <1>1, SMTT(30)
    <3>4. Channel!Abandon
      BY <2>1, <3>2, <3>3 DEF Channel!Abandon
    <3>5. QED
      BY <3>4 DEF Channel!Next
  <2>4. QED
    BY <2>2, <2>3
<1>8. CASE Join
  <2>1. InGate = << >> /\ ~accepting
    BY <1>1, <1>8, ItemEmpty, EmptyUnit
    DEF Join, ExecAt, GateInv, ExecutorHolds, InGate
  <2>2. /\ execPc' = "returned"
        /\ UNCHANGED << accepting, delivered >> /\ InGate' = InGate
    BY <1>8 DEF Join, ExecAt, gate, worker, hist, InGate
  <2>3. Channel!End
    BY <2>1, <2>2 DEF Channel!End
  <2>4. QED
    BY <2>3 DEF Channel!Next
<1>9. CASE DropClose
  <2>1. /\ accepting' = FALSE
        /\ execPc # "returned" /\ execPc' # "returned"
        /\ UNCHANGED delivered /\ InGate' = InGate
    BY <1>9 DEF DropClose, ExecAt, worker, hist, InGate
  <2>2. accepting \in BOOLEAN
    BY DEF GateInv, TypeOK
  <2>3. QED
    BY <2>1, <2>2 DEF Channel!Next, Channel!Close
<1>10. CASE /\ ~(\E t \in Threads : TryEnqueue(t))
            /\ ~PopForSend /\ ~WorkerDeliver /\ ~CloseAndDrain
            /\ ~DrainDeliver /\ ~DropFuture /\ ~Join /\ ~DropClose
  <2>1. /\ UNCHANGED << item, remaining, queue, delivered >>
        /\ accepting' = accepting
    BY <1>10, GateMoves
  <2>2. (execPc' = "returned") = (execPc = "returned")
    BY <1>10
    DEF Next, Thread, TryEnqueue, ThreadWake, Worker, PopNone, CompleteSend,
        CompleteSendWake, WorkerArm, WorkerCheckSleep, WorkerCheckMore,
        WorkerCheckDone, WorkerWoken, ToolReturns, Executor, CloseWake,
        DrainArm, DrainReady, DrainSleep, DrainWoken, DrainDone, DropWake,
        ExecAt, WorkerAt, vars, gate, worker, exec, hist
  <2>3. QED
    BY <2>1, <2>2 DEF InGate
<1>11. QED
  BY <1>2, <1>3, <1>4, <1>5, <1>6, <1>7, <1>8, <1>9, <1>10

\* The gate implements the channel: every accepted update comes out once, in
\* order, before the call returns.
THEOREM GateImplementsChannel == CallsSpec => ImplementsChannel
<1>1. Init => Channel!Init
  <2> SUFFICES ASSUME Init
               PROVE  Channel!Init
    OBVIOUS
  <2>1. InGate = << >>
    BY EmptySeq, EmptyUnit DEF Init, InGate
  <2>2. QED
    BY <2>1 DEF Init, Channel!Init
<1>2. QED
  BY <1>1, ChannelStep, GateInvariant, GateSteps, PTL
  DEF CallsSpec, CallsInit, ImplementsChannel, Channel!Spec

-----------------------------------------------------------------------------
(* The batch of calls.                                                     *)

\* pending_tool_calls holds the calls that have started and not ended, and
\* the dispatching loop has passed exactly the calls below next.
Dispatching ==
  /\ pending = { c \in B!Calls : st[c] \in { "started", "prepared",
      "running" } }
  /\ \A c \in B!Calls : c > next => st[c] = "waiting"
  /\ \A c \in B!Calls : c < next => st[c] \notin { "waiting", "started" }
  /\ phase \notin { "dispatch", "failed" } => next = NCalls \/ cancelled

\* The results are those of the first calls, in their order.
InOrder == \A i \in DOMAIN results : results[i] = i

\* The sequential form finishes with a call before it turns to the next.
OneByOne ==
  ~B!Parallel =>
    /\ phase \notin { "run", "commit" }
    /\ \A c \in B!Calls : c < next => st[c] = "ended"
    /\ st[next] # "prepared"
    /\ Len(results) \in { next - 1, next }
    /\ Len(results) = next \/ phase = "failed" => st[next] = "ended"

\* The parallel form dispatches all, runs all, and only then commits.
InStages ==
  B!Parallel =>
    /\ phase \in { "dispatch", "run" } => results = << >>
    /\ phase = "dispatch" => \A c \in B!Calls : st[c] # "running"
    /\ phase = "run" => st[next] \notin { "waiting", "started" }
    /\ phase \in { "commit", "done", "failed" } =>
         /\ \A c \in B!Calls : c <= next => st[c] = "ended"
         /\ Len(results) <= next

Outcome ==
  /\ phase = "done" => Len(results) = next
  /\ terminate => phase = "done" /\ \A i \in 1 .. Len(results) : i \in stops

BatchInv ==
  B!TypeOK /\ Dispatching /\ InOrder /\ OneByOne /\ InStages /\ Outcome

LEMMA BatchInit == B!Init => BatchInv
<1> SUFFICES ASSUME B!Init
             PROVE  BatchInv
  OBVIOUS
<1> USE NCallsAssumption
<1>1. << >> \in Seq(B!Calls) /\ Len(<< >>) = 0
  BY EmptySeq
<1>2. truncated \in BOOLEAN /\ terminate \in BOOLEAN /\ cancelled \in BOOLEAN
  BY DEF B!Init
<1>3. B!TypeOK
  BY <1>1, <1>2 DEF B!Init, B!TypeOK, B!Calls, B!States
<1>4. Dispatching
  BY DEF B!Init, Dispatching, B!Calls
<1>5. InOrder /\ OneByOne /\ InStages /\ Outcome
  BY <1>1 DEF B!Init, InOrder, OneByOne, InStages, Outcome, B!Calls
<1>6. QED
  BY <1>3, <1>4, <1>5 DEF BatchInv

\* A step keeps every variable in its type.
LEMMA BatchTypeStep == BatchInv /\ [B!Next]_batchVars => B!TypeOK'
<1> SUFFICES ASSUME BatchInv, [B!Next]_batchVars
             PROVE  B!TypeOK'
  OBVIOUS
<1> USE NCallsAssumption
    DEF BatchInv, B!TypeOK, B!States, batchVars, B!vars, B!setup
<1>1. CASE B!Start \/ B!AnsweredAtOnce \/ B!Prepared
  BY <1>1 DEF B!Start, B!AnsweredAtOnce, B!Prepared, B!Ends, B!Moves
<1>2. ASSUME NEW c \in B!Calls, B!RunTask(c) \/ B!ToolReturns(c)
      PROVE  B!TypeOK'
  BY <1>2 DEF B!RunTask, B!ToolReturns, B!Ends, B!Moves
<1>3. CASE B!NextCall
  <2>1. terminate' \in BOOLEAN
    BY <1>3 DEF B!NextCall, B!Advance
  <2>2. next' \in B!Calls
    BY <1>3 DEF B!NextCall, B!Advance, B!Calls
  <2>3. QED
    BY <1>3, <2>1, <2>2 DEF B!NextCall, B!Advance
<1>4. CASE B!JoinAll \/ B!CommitFails
  BY <1>4 DEF B!JoinAll, B!CommitFails
<1>5. CASE B!CommitResult
  <2>1. PICK c \in B!Calls : B!Due(c) /\ results' = Append(results, c)
    BY <1>5 DEF B!CommitResult
  <2>2. results' \in Seq(B!Calls) /\ Len(results') = c
    BY <2>1, AppendProperties DEF B!Due
  <2>3. QED
    BY <1>5, <2>2 DEF B!CommitResult, B!Calls
<1>6. CASE B!BatchReturns
  <2>1. terminate' \in BOOLEAN
    BY <1>6 DEF B!BatchReturns, B!ShouldTerminate
  <2>2. QED
    BY <1>6, <2>1 DEF B!BatchReturns
<1>7. CASE B!Cancel \/ UNCHANGED batchVars
  BY <1>7 DEF B!Cancel
<1>8. QED
  BY <1>1, <1>2, <1>3, <1>4, <1>5, <1>6, <1>7 DEF B!Next, B!BatchStep

\* The five parts of the invariant beside the types.
BatchRest == Dispatching /\ InOrder /\ OneByOne /\ InStages /\ Outcome

\* A call that moves on, with pending_tool_calls following it.
LEMMA CallStep ==
  ASSUME BatchInv, NEW c \in B!Calls,
         B!Start \/ B!AnsweredAtOnce \/ B!Prepared \/ B!RunTask(c)
             \/ B!ToolReturns(c)
  PROVE  BatchRest'
<1> USE NCallsAssumption
<1> DEFINE Active == { "started", "prepared", "running" }
<1>0. /\ next \in B!Calls /\ next \in Nat /\ \A d \in B!Calls : d \in Nat
      /\ st \in [ B!Calls -> B!States ]
  BY DEF BatchInv, B!TypeOK, B!Calls
<1>1. PICK d \in B!Calls, from \in B!States, to \in B!States :
        /\ B!Moves(d, from, to)
        /\ phase \in { "dispatch", "run" } \/ from = "running"
        /\ \/ phase = "dispatch" /\ d = next /\ from = "waiting"
              /\ to = "started"
           \/ phase = "dispatch" /\ d = next /\ from = "started"
              /\ to = "ended"
           \/ phase = "dispatch" /\ d = next /\ from = "started"
              /\ to = (IF B!Parallel THEN "prepared" ELSE "running")
           \/ phase = "run" /\ from = "prepared" /\ to \in { "running",
               "ended" }
           \/ from = "running" /\ to = "ended"
        /\ pending' = IF to = "ended" THEN pending \ { d }
                      ELSE pending \cup { d }
  <2>1. Dispatching
    BY DEF BatchInv
  <2>2. CASE B!Start
    BY <1>0, <2>2 DEF B!Start, B!States
  <2>3. CASE B!AnsweredAtOnce
    BY <1>0, <2>3 DEF B!AnsweredAtOnce, B!Ends, B!States
  <2>4. CASE B!Prepared
    <3>1. next \in pending
      BY <1>0, <2>1, <2>4 DEF B!Prepared, B!Moves, Dispatching
    <3>2. pending' = pending \cup { next }
      BY <2>4, <3>1 DEF B!Prepared
    <3>3. QED
      BY <1>0, <2>4, <3>2 DEF B!Prepared, B!States
  <2>5. CASE B!RunTask(c)
    <3>1. CASE B!Moves(c, "prepared", "running") /\ UNCHANGED pending
      <4>1. c \in pending
        BY <2>1, <3>1 DEF B!Moves, Dispatching
      <4>2. pending' = pending \cup { c }
        BY <3>1, <4>1
      <4>3. QED
        BY <2>5, <3>1, <4>2 DEF B!RunTask, B!States
    <3>2. CASE B!Ends(c, "prepared", FALSE)
      BY <2>5, <3>2 DEF B!RunTask, B!Ends, B!States
    <3>3. QED
      BY <2>5, <3>1, <3>2 DEF B!RunTask
  <2>6. CASE B!ToolReturns(c)
    BY <2>6 DEF B!ToolReturns, B!Ends, B!States
  <2>7. QED
    BY <2>2, <2>3, <2>4, <2>5, <2>6
<1>2. /\ st[d] = from /\ st' = [ st EXCEPT ![d] = to ]
      /\ UNCHANGED << B!setup, phase, next, results, terminate, cancelled >>
      /\ B!Parallel' = B!Parallel
  BY <1>1 DEF B!Moves, B!Parallel, B!setup
<1>3. stops \subseteq stops'
  BY DEF B!Start, B!AnsweredAtOnce, B!Prepared, B!RunTask, B!ToolReturns,
      B!Ends
<1>4. d <= next
  BY <1>0, <1>1, <1>2 DEF BatchInv, Dispatching
<1>5. Dispatching'
  <2>1. pending' = { e \in B!Calls : st'[e] \in Active }
    BY <1>0, <1>1, <1>2 DEF BatchInv, Dispatching
  <2>2. \A e \in B!Calls : e > next => st'[e] = "waiting"
    BY <1>0, <1>2, <1>4 DEF BatchInv, Dispatching
  <2>3. \A e \in B!Calls : e < next => st'[e] \notin { "waiting", "started" }
    BY <1>0, <1>1, <1>2 DEF BatchInv, Dispatching
  <2>4. QED
    BY <1>2, <2>1, <2>2, <2>3 DEF BatchInv, Dispatching
<1>6. InOrder' /\ Outcome'
  BY <1>2, <1>3 DEF BatchInv, InOrder, Outcome
<1>7. OneByOne'
  BY <1>0, <1>1, <1>2, <1>4 DEF BatchInv, OneByOne, Dispatching
<1>8. InStages'
  BY <1>0, <1>1, <1>2, <1>4 DEF BatchInv, InStages
<1>9. QED
  BY <1>5, <1>6, <1>7, <1>8 DEF BatchRest

\* The dispatching loop goes to the next call, or out.
LEMMA AdvanceStep == BatchInv /\ B!NextCall => BatchRest'
<1> SUFFICES ASSUME BatchInv, B!NextCall
             PROVE  BatchRest'
  OBVIOUS
<1> USE NCallsAssumption
<1>0. /\ next \in B!Calls /\ next \in Nat /\ \A d \in B!Calls : d \in Nat
      /\ Len(results) \in Nat /\ NCalls \in Nat
  BY DEF BatchInv, B!TypeOK, B!Calls
<1>1. /\ phase = "dispatch"
      /\ UNCHANGED << B!setup, st, pending, stops, results, cancelled >>
      /\ B!Parallel' = B!Parallel
      /\ terminate' = (phase' = "done" /\ B!ShouldTerminate(results))
  BY DEF B!NextCall, B!Advance, B!setup, B!Parallel
<1>2. /\ B!Parallel => st[next] \in { "prepared", "ended" }
      /\ ~B!Parallel => B!Committed(next)
  BY DEF B!NextCall, B!Advance
<1>3. \/ next' = next + 1 /\ phase' = phase
      \/ /\ next' = next
         /\ next = NCalls \/ cancelled
         /\ phase' = IF B!Parallel THEN "run" ELSE "done"
  BY DEF B!NextCall, B!Advance
<1>4. ~B!Parallel => Len(results) = next /\ st[next] = "ended"
  <2> SUFFICES ASSUME ~B!Parallel
               PROVE  Len(results) = next /\ st[next] = "ended"
    OBVIOUS
  <2>1. next \in DOMAIN results
    BY <1>2 DEF B!Committed, BatchInv, InOrder
  <2>2. Len(results) >= next
    BY <1>0, <2>1 DEF BatchInv, B!TypeOK
  <2>3. QED
    BY <1>0, <2>2 DEF BatchInv, OneByOne
<1>5. st[next] \notin { "waiting", "started" }
  BY <1>2, <1>4
<1>6. Dispatching'
  BY <1>0, <1>1, <1>3, <1>5 DEF BatchInv, Dispatching
<1>7. InOrder' /\ Outcome'
  <2>1. InOrder'
    BY <1>1 DEF BatchInv, InOrder
  <2>2. phase' = "done" => Len(results') = next'
    BY <1>1, <1>3, <1>4
  <2>3. terminate' =>
          phase' = "done" /\ \A i \in 1 .. Len(results') : i \in stops'
    <3> SUFFICES ASSUME terminate'
                 PROVE  phase' = "done"
                        /\ \A i \in 1 .. Len(results) : i \in stops
      BY <1>1
    <3>1. phase' = "done" /\ \A i \in DOMAIN results : results[i] \in stops
      BY <1>1 DEF B!ShouldTerminate
    <3>2. QED
      BY <3>1 DEF BatchInv, InOrder, B!TypeOK
  <2>4. QED
    BY <2>1, <2>2, <2>3 DEF Outcome
<1>8. OneByOne'
  <2>1. CASE B!Parallel
    BY <1>1, <2>1 DEF OneByOne
  <2>2. CASE ~B!Parallel /\ next' = next
    BY <1>1, <1>3, <1>4, <2>2 DEF BatchInv, OneByOne
  <2>3. CASE ~B!Parallel /\ next' = next + 1
    <3>1. next' \in B!Calls
      BY BatchTypeStep DEF B!Next, B!BatchStep, B!TypeOK
    <3>2. st[next'] = "waiting"
      BY <1>0, <2>3, <3>1 DEF BatchInv, Dispatching
    <3>3. \A c \in B!Calls : c < next' => st[c] = "ended"
      BY <1>0, <1>4, <2>3 DEF BatchInv, OneByOne
    <3>4. phase' = "dispatch"
      BY <1>0, <1>1, <1>3, <2>3
    <3>5. QED
      BY <1>0, <1>1, <1>4, <2>3, <3>2, <3>3, <3>4 DEF OneByOne
  <2>4. QED
    BY <1>3, <2>1, <2>2, <2>3
<1>9. InStages'
  BY <1>0, <1>1, <1>3, <1>5 DEF BatchInv, InStages
<1>10. QED
  BY <1>6, <1>7, <1>8, <1>9 DEF BatchRest

\* Joining, committing and returning.
LEMMA BatchEndStep ==
  BatchInv /\ (B!JoinAll \/ B!CommitResult \/ B!CommitFails
      \/ B!BatchReturns) => BatchRest'
<1> SUFFICES ASSUME BatchInv,
                    B!JoinAll \/ B!CommitResult \/ B!CommitFails
                        \/ B!BatchReturns
             PROVE  BatchRest'
  OBVIOUS
<1> USE NCallsAssumption
<1>0. /\ next \in B!Calls /\ next \in Nat /\ \A d \in B!Calls : d \in Nat
      /\ Len(results) \in Nat /\ NCalls \in Nat /\ results \in Seq(B!Calls)
  BY DEF BatchInv, B!TypeOK, B!Calls
<1>1. CASE B!JoinAll
  <2>1. /\ phase = "run" /\ phase' = "commit"
        /\ UNCHANGED << B!setup, next, st, pending, stops, results, terminate,
                        cancelled >>
        /\ B!Parallel' = B!Parallel /\ B!Parallel
    BY <1>1 DEF B!JoinAll, B!setup, B!Parallel, BatchInv, OneByOne
  <2>2. \A c \in B!Calls : c <= next => st[c] = "ended"
    <3> SUFFICES ASSUME NEW c \in B!Calls, c <= next
                 PROVE  st[c] = "ended"
      OBVIOUS
    <3>1. st[c] # "waiting"
      BY <1>0, <2>1 DEF BatchInv, Dispatching, InStages
    <3>2. QED
      BY <1>1, <3>1 DEF B!JoinAll, B!Slots
  <2>3. results = << >>
    BY <2>1 DEF BatchInv, InStages
  <2>4. Len(results) <= next
    BY <1>0, <2>3, EmptySeq
  <2>5. Dispatching' /\ InOrder' /\ Outcome' /\ OneByOne'
    BY <2>1 DEF BatchInv, Dispatching, InOrder, Outcome, OneByOne
  <2>6. InStages'
    BY <2>1, <2>2, <2>4 DEF InStages
  <2>7. QED
    BY <2>5, <2>6 DEF BatchRest
<1>2. ASSUME NEW c \in B!Calls, B!Due(c)
      PROVE  /\ c = Len(results) + 1 /\ c <= next /\ st[c] = "ended"
             /\ \/ phase = "commit"
                \/ phase = "dispatch" /\ ~B!Parallel /\ c = next
  <2>1. CASE phase = "commit" /\ c \in B!Slots
    <3>1. B!Parallel /\ c = Len(results) + 1 /\ st[c] # "waiting"
      BY <1>2, <2>1 DEF B!Due, BatchInv, OneByOne, B!Slots
    <3>2. c <= next
      BY <1>0, <3>1 DEF BatchInv, Dispatching
    <3>3. QED
      BY <2>1, <3>1, <3>2 DEF BatchInv, InStages
  <2>2. CASE phase = "dispatch" /\ ~B!Parallel /\ st[c] = "ended"
    <3>1. c = Len(results) + 1 /\ c <= next
      BY <1>0, <1>2, <2>2 DEF B!Due, BatchInv, Dispatching
    <3>2. QED
      BY <1>0, <2>2, <3>1 DEF BatchInv, OneByOne
  <2>3. QED
    BY <1>2, <2>1, <2>2 DEF B!Due
<1>3. CASE B!CommitResult
  <2>1. PICK c \in B!Calls : B!Due(c) /\ results' = Append(results, c)
    BY <1>3 DEF B!CommitResult
  <2>2. /\ c = Len(results) + 1 /\ c <= next /\ st[c] = "ended"
        /\ \/ phase = "commit"
           \/ phase = "dispatch" /\ ~B!Parallel /\ c = next
    BY <1>2, <2>1
  <2>3. /\ UNCHANGED << B!setup, phase, next, st, pending, stops, terminate,
                        cancelled >>
        /\ B!Parallel' = B!Parallel
    BY <1>3 DEF B!CommitResult, B!setup, B!Parallel
  <2>4. /\ Len(results') = c /\ DOMAIN results' = 1 .. c
        /\ \A i \in 1 .. Len(results) : results'[i] = results[i]
        /\ results'[c] = c
    BY <1>0, <2>1, <2>2, AppendProperties
  <2>5. InOrder'
    BY <1>0, <2>2, <2>4 DEF BatchInv, InOrder
  <2>6. Dispatching' /\ Outcome'
    BY <2>2, <2>3 DEF BatchInv, Dispatching, Outcome
  <2>7. OneByOne'
    BY <1>0, <2>2, <2>3, <2>4 DEF BatchInv, OneByOne
  <2>8. InStages'
    BY <1>0, <2>2, <2>3, <2>4 DEF BatchInv, InStages, OneByOne
  <2>9. QED
    BY <2>5, <2>6, <2>7, <2>8 DEF BatchRest
<1>4. CASE B!CommitFails
  <2>1. PICK c \in B!Calls : B!Due(c)
    BY <1>4 DEF B!CommitFails
  <2>2. /\ c <= next /\ st[c] = "ended"
        /\ \/ phase = "commit"
           \/ phase = "dispatch" /\ ~B!Parallel /\ c = next
    BY <1>2, <2>1
  <2>3. /\ UNCHANGED << B!setup, next, st, pending, stops, results, terminate,
                        cancelled >>
        /\ B!Parallel' = B!Parallel /\ phase' = "failed"
    BY <1>4 DEF B!CommitFails, B!setup, B!Parallel
  <2>4. Dispatching' /\ InOrder' /\ Outcome'
    BY <2>2, <2>3 DEF BatchInv, Dispatching, InOrder, Outcome
  <2>5. OneByOne' /\ InStages'
    BY <1>0, <2>2, <2>3 DEF BatchInv, OneByOne, InStages
  <2>6. QED
    BY <2>4, <2>5 DEF BatchRest
<1>5. CASE B!BatchReturns
  <2>1. /\ UNCHANGED << B!setup, next, st, pending, stops, results,
                        cancelled >>
        /\ B!Parallel' = B!Parallel /\ phase' = "done" /\ phase = "commit"
        /\ terminate' = B!ShouldTerminate(results)
    BY <1>5 DEF B!BatchReturns, B!setup, B!Parallel
  <2>2. B!Parallel
    BY <2>1 DEF BatchInv, OneByOne
  <2>3. Len(results) = next
    <3>1. Len(results) <= next
      BY <2>1, <2>2 DEF BatchInv, InStages
    <3>2. CASE Len(results) + 1 <= next
      <4>1. Len(results) + 1 \in B!Calls
        BY <1>0, <3>2 DEF B!Calls
      <4>2. st[Len(results) + 1] = "ended"
        BY <2>1, <2>2, <3>2, <4>1 DEF BatchInv, InStages
      <4>3. Len(results) + 1 \in B!Slots
        BY <4>1, <4>2 DEF B!Slots
      <4>4. QED
        BY <1>5, <4>3 DEF B!BatchReturns
    <3>3. QED
      BY <1>0, <3>1, <3>2
  <2>4. terminate' => \A i \in 1 .. Len(results) : i \in stops
    <3> SUFFICES ASSUME terminate'
                 PROVE  \A i \in 1 .. Len(results) : i \in stops
      OBVIOUS
    <3>1. \A i \in DOMAIN results : results[i] \in stops
      BY <2>1 DEF B!ShouldTerminate
    <3>2. QED
      BY <1>0, <3>1 DEF BatchInv, InOrder
  <2>5. Dispatching' /\ InOrder'
    BY <2>1 DEF BatchInv, Dispatching, InOrder
  <2>6. Outcome'
    BY <2>1, <2>3, <2>4 DEF Outcome
  <2>7. OneByOne' /\ InStages'
    BY <2>1, <2>2 DEF BatchInv, OneByOne, InStages
  <2>8. QED
    BY <2>5, <2>6, <2>7 DEF BatchRest
<1>6. QED
  BY <1>1, <1>3, <1>4, <1>5

LEMMA CancelStep == BatchInv /\ (B!Cancel
    \/ UNCHANGED batchVars) => BatchRest'
<1> SUFFICES ASSUME BatchInv, B!Cancel \/ UNCHANGED batchVars
             PROVE  BatchRest'
  OBVIOUS
<1>1. /\ UNCHANGED << B!setup, phase, next, st, pending, stops, results,
                      terminate >>
      /\ cancelled => cancelled'
  BY DEF B!Cancel, batchVars, B!vars, B!setup, B!Parallel
<1>2. B!Parallel' = B!Parallel
  BY <1>1 DEF B!setup, B!Parallel
<1>3. QED
  BY <1>1, <1>2
  DEF BatchRest, BatchInv, Dispatching, InOrder, Outcome, OneByOne, InStages

LEMMA BatchInvariant == CallsSpec => []BatchInv
<1>1. BatchInv /\ [CallsNext]_callsVars => BatchInv'
  <2> SUFFICES ASSUME BatchInv, [B!Next]_batchVars
               PROVE  BatchInv'
    BY DEF CallsNext, callsVars
  <2>1. B!TypeOK'
    BY BatchTypeStep
  <2>2. B!Calls # { }
    BY NCallsAssumption DEF B!Calls
  <2>3. BatchRest'
    BY <2>2, CallStep, AdvanceStep, BatchEndStep, CancelStep
    DEF B!Next, B!BatchStep
  <2>4. QED
    BY <2>1, <2>3 DEF BatchInv, BatchRest
<1>2. QED
  BY <1>1, BatchInit, PTL DEF CallsSpec, CallsInit

-----------------------------------------------------------------------------
\* Every variable keeps its type, for any number of calls.
THEOREM BatchTypeCorrect == CallsSpec => []B!TypeOK
<1>1. BatchInv => B!TypeOK
  BY DEF BatchInv
<1>2. QED
  BY <1>1, BatchInvariant, PTL

\* However a batch ends, no call it started is left without its end event or
\* in pending_tool_calls.
THEOREM NoCallLeftOpen == CallsSpec => []StartedCallsEnd
<1>1. BatchInv => StartedCallsEnd
  <2> SUFFICES ASSUME BatchInv
               PROVE  B!StartedCallsEnd
    BY DEF StartedCallsEnd
  <2>0. next \in Nat /\ Len(results) \in Nat /\ \A c \in B!Calls : c \in Nat
    BY NCallsAssumption DEF BatchInv, B!TypeOK, B!Calls
  <2>1. ASSUME NEW c \in B!Calls, c < next \/ c = next, B!Over
        PROVE  st[c] = "ended"
    BY <2>0, <2>1 DEF B!Over, BatchInv, OneByOne, InStages, Outcome
  <2>2. B!Over => \A c \in B!Slots : st[c] = "ended"
    BY <2>0, <2>1 DEF B!Slots, BatchInv, Dispatching
  <2>3. B!Over => pending = { }
    BY <2>2 DEF B!Slots, BatchInv, Dispatching
  <2>4. ASSUME NEW c \in B!Calls, B!Committed(c)
        PROVE  c \notin pending
    <3>1. results # << >> /\ c \in 1 .. Len(results)
      BY <2>4 DEF B!Committed, BatchInv, InOrder, B!TypeOK
    <3>2. Len(results) <= next
      BY <2>0, <3>1
      DEF BatchInv, OneByOne, InStages, B!TypeOK
    <3>3. CASE B!Parallel
      BY <2>0, <3>1, <3>2, <3>3
      DEF BatchInv, InStages, Dispatching, B!TypeOK
    <3>4. CASE ~B!Parallel
      BY <2>0, <3>1, <3>2, <3>4
      DEF BatchInv, OneByOne, Dispatching
    <3>5. QED
      BY <3>3, <3>4
  <2>5. QED
    BY <2>2, <2>3, <2>4 DEF B!StartedCallsEnd
<1>2. QED
  BY <1>1, BatchInvariant, PTL

\* Results are committed in the order of the calls, and a batch that returns
\* has one for each call it started.
THEOREM ResultsInOrder == CallsSpec => []ResultsMatchCalls
<1>1. BatchInv => ResultsMatchCalls
  <2> SUFFICES ASSUME BatchInv
               PROVE  B!ResultsMatchCalls
    BY DEF ResultsMatchCalls
  <2>0. next \in Nat /\ Len(results) \in Nat /\ next \in B!Calls
    BY NCallsAssumption DEF BatchInv, B!TypeOK, B!Calls
  <2>1. ASSUME phase = "done"
        PROVE  B!Slots = 1 .. next /\ (~cancelled => next = NCalls)
    <3>1. st[next] = "ended"
      BY <2>0, <2>1 DEF BatchInv, OneByOne, InStages, Outcome
    <3>2. \A c \in B!Calls : st[c] # "waiting" <=> c <= next
      BY <2>0, <3>1, NCallsAssumption DEF BatchInv, Dispatching, B!Calls
    <3>3. QED
      BY <2>0, <2>1, <3>2, NCallsAssumption
      DEF B!Slots, B!Calls, BatchInv, Dispatching
  <2>2. QED
    BY <2>1 DEF B!ResultsMatchCalls, BatchInv, InOrder, Outcome
<1>2. QED
  BY <1>1, BatchInvariant, PTL

\* A tool that asks for sequential execution has the batch to itself.
THEOREM ExclusiveAlone == CallsSpec => []B!ExclusiveRunsAlone
<1>1. BatchInv => B!ExclusiveRunsAlone
  <2> SUFFICES ASSUME BatchInv, NEW c \in B!Calls, NEW d \in B!Calls, c # d,
                      st[c] = "running", c \in exclusive,
                      st[d] = "running"
               PROVE  FALSE
    BY DEF B!ExclusiveRunsAlone
  <2>0. next \in Nat /\ \A e \in B!Calls : e \in Nat
    BY NCallsAssumption DEF BatchInv, B!TypeOK, B!Calls
  <2>1. ~B!Parallel
    BY DEF B!Parallel
  <2>2. c = next /\ d = next
    BY <2>0, <2>1 DEF BatchInv, OneByOne, Dispatching
  <2>3. QED
    BY <2>2
<1>2. QED
  BY <1>1, BatchInvariant, PTL

\* A batch that was not cancelled stops the loop only if every call says so.
THEOREM StopNeedsAll == CallsSpec => []B!StopsOnlyIfAllStop
<1>1. BatchInv => B!StopsOnlyIfAllStop
  <2> SUFFICES ASSUME BatchInv, terminate, ~cancelled
               PROVE  stops = B!Calls
    BY DEF B!StopsOnlyIfAllStop
  <2>1. next = NCalls /\ Len(results) = NCalls
    BY DEF BatchInv, Outcome, Dispatching
  <2>2. \A c \in B!Calls : c \in stops
    BY <2>1 DEF BatchInv, Outcome, B!Calls
  <2>3. QED
    BY <2>2 DEF BatchInv, B!TypeOK
<1>2. QED
  BY <1>1, BatchInvariant, PTL
=============================================================================
