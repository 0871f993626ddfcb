--------------------------- MODULE ToolUpdateGate ---------------------------
(***************************************************************************)
(* The progress channel of one running tool call                           *)
(* (crates/pi-agent/src/agent_loop.rs, execute_prepared_tool_call and      *)
(* ToolUpdateGate).                                                        *)
(*                                                                         *)
(* Three kinds of process share the gate: the tool's threads call          *)
(* on_update, a spawned worker sends queued updates to the event sink, and *)
(* the executor runs the tool, then closes and drains the gate and joins   *)
(* the worker.  Every critical section of the gate's mutex is one action;  *)
(* `notify_waiters`, which is called after the unlock, is another.  An     *)
(* update is known by the number of the call that produced it.             *)
(***************************************************************************)
EXTENDS Naturals, Sequences, Notify

CONSTANTS
  Threads,      \* threads or tasks of the tool that hold the callback
  MaxUpdates    \* bound: calls of the callback in one behaviour

ASSUME MaxUpdatesAssumption == MaxUpdates \in Nat

VARIABLES
  accepting, queue, inFlight,   \* UpdateGateState, guarded by the mutex
  waiters,                      \* the futures of gate.notify
  threadPc,                     \* where each thread is in try_enqueue
  workerPc, item,               \* the worker and the update it holds
  execPc, remaining,            \* the executor and its drained updates
  calls, accepted, delivered,   \* history: calls made, taken in, sent,
  lost                          \* and dropped together with the call

gate   == << accepting, queue, inFlight >>
worker == << workerPc, item >>
exec   == << execPc, remaining >>
hist   == << calls, accepted, delivered, lost >>
vars   == << gate, waiters, threadPc, worker, exec, hist >>

Updates == 1 .. MaxUpdates

WorkerPcs ==
  { "pop", "sending", "complete", "wake", "arm", "check", "sleep", "done" }

ExecPcs ==
  { "running", "closing", "wake", "arm", "check", "sleep", "drain", "join",
    "returned", "dropClose", "dropWake", "dropped" }

TypeOK ==
  /\ accepting \in BOOLEAN
  /\ queue \in Seq(Updates)
  /\ inFlight \in Nat
  /\ waiters \in [ { "worker", "exec" } -> WaiterState ]
  /\ threadPc \in [ Threads -> { "idle", "wake" } ]
  /\ workerPc \in WorkerPcs
  /\ item \in Seq(Updates)
  /\ execPc \in ExecPcs
  /\ remaining \in Seq(Updates)
  /\ calls \in 0 .. MaxUpdates
  /\ accepted \in Seq(Updates)
  /\ delivered \in Seq(Updates)
  /\ lost \in Seq(Updates)

Init ==
  /\ accepting = TRUE
  /\ queue = << >>
  /\ inFlight = 0
  /\ waiters = [ p \in { "worker", "exec" } |-> "none" ]
  /\ threadPc = [ t \in Threads |-> "idle" ]
  /\ workerPc = "pop"
  /\ item = << >>
  /\ execPc = "running"
  /\ remaining = << >>
  /\ calls = 0
  /\ accepted = << >>
  /\ delivered = << >>
  /\ lost = << >>

-----------------------------------------------------------------------------
(* The tool's threads: on_update -> try_enqueue.                           *)

\* Slips: the update is queued after the lock that checked `accepting` was
\* released, and queueing that wakes nobody.
TryEnqueueUnchecked(t) ==
  /\ threadPc[t] = "idle"
  /\ calls < MaxUpdates
  /\ calls' = calls + 1
  /\ queue' = Append(queue, calls + 1)
  /\ accepted' = Append(accepted, calls + 1)
  /\ threadPc' = [ threadPc EXCEPT ![t] = "wake" ]
  /\ UNCHANGED << accepting, inFlight, waiters, worker, exec, delivered,
                  lost >>

TryEnqueueSilently(t) ==
  /\ threadPc[t] = "idle"
  /\ accepting
  /\ calls < MaxUpdates
  /\ calls' = calls + 1
  /\ queue' = Append(queue, calls + 1)
  /\ accepted' = Append(accepted, calls + 1)
  /\ UNCHANGED << accepting, inFlight, waiters, threadPc, worker, exec,
                  delivered, lost >>

TryEnqueue(t) ==
  /\ threadPc[t] = "idle"
  /\ calls < MaxUpdates
  /\ calls' = calls + 1
  /\ \/ /\ accepting
        /\ queue' = Append(queue, calls + 1)
        /\ accepted' = Append(accepted, calls + 1)
        /\ threadPc' = [ threadPc EXCEPT ![t] = "wake" ]
     \/ /\ ~accepting
        /\ UNCHANGED << queue, accepted, threadPc >>
  /\ UNCHANGED << accepting, inFlight, waiters, worker, exec, delivered,
                  lost >>

ThreadWake(t) ==
  /\ threadPc[t] = "wake"
  /\ threadPc' = [ threadPc EXCEPT ![t] = "idle" ]
  /\ waiters' = NotifyWaiters(waiters)
  /\ UNCHANGED << gate, worker, exec, hist >>

-----------------------------------------------------------------------------
(* The worker.                                                             *)

WorkerAt(from, to) ==
  /\ workerPc = from
  /\ workerPc' = to

PopForSend ==
  /\ queue # << >>
  /\ WorkerAt("pop", "sending")
  /\ item' = << Head(queue) >>
  /\ queue' = Tail(queue)
  /\ inFlight' = inFlight + 1
  /\ UNCHANGED << accepting, waiters, threadPc, exec, hist >>

PopNone ==
  /\ queue = << >>
  /\ WorkerAt("pop", "arm")
  /\ UNCHANGED << gate, waiters, threadPc, item, exec, hist >>

\* The sink runs; a panic in it is caught by deliver_tool_update.
WorkerDeliver ==
  /\ WorkerAt("sending", "complete")
  /\ delivered' = delivered \o item
  /\ item' = << >>
  /\ UNCHANGED << gate, waiters, threadPc, exec, calls, accepted,
                  lost >>

\* A slip: the drop guard forgets to notify.
CompleteSendSilently ==
  /\ WorkerAt("complete", "pop")
  /\ inFlight' = IF inFlight = 0 THEN 0 ELSE inFlight - 1
  /\ UNCHANGED << accepting, queue, waiters, threadPc, item, exec, hist >>

CompleteSend ==
  /\ WorkerAt("complete", "wake")
  /\ inFlight' = IF inFlight = 0 THEN 0 ELSE inFlight - 1
  /\ UNCHANGED << accepting, queue, waiters, threadPc, item, exec, hist >>

CompleteSendWake ==
  /\ WorkerAt("wake", "pop")
  /\ waiters' = NotifyWaiters(waiters)
  /\ UNCHANGED << gate, threadPc, item, exec, hist >>

WorkerArm ==
  /\ WorkerAt("arm", "check")
  /\ waiters' = Arm(waiters, "worker")
  /\ UNCHANGED << gate, threadPc, item, exec, hist >>

WorkerCheckSleep ==
  /\ queue = << >>
  /\ accepting
  /\ WorkerAt("check", "sleep")
  /\ UNCHANGED << gate, waiters, threadPc, item, exec, hist >>

WorkerCheckMore ==
  /\ queue # << >>
  /\ WorkerAt("check", "pop")
  /\ waiters' = Disarm(waiters, "worker")
  /\ UNCHANGED << gate, threadPc, item, exec, hist >>

WorkerCheckDone ==
  /\ queue = << >>
  /\ ~accepting
  /\ WorkerAt("check", "done")
  /\ waiters' = Disarm(waiters, "worker")
  /\ UNCHANGED << gate, threadPc, item, exec, hist >>

WorkerWoken ==
  /\ waiters["worker"] = "fired"
  /\ WorkerAt("sleep", "pop")
  /\ waiters' = Disarm(waiters, "worker")
  /\ UNCHANGED << gate, threadPc, item, exec, hist >>

-----------------------------------------------------------------------------
(* The executor: run the tool, close_and_drain, join the worker.           *)

ExecAt(from, to) ==
  /\ execPc = from
  /\ execPc' = to

\* The tool's future resolves, fails or panics: all three end up here.
ToolReturns ==
  /\ ExecAt("running", "closing")
  /\ UNCHANGED << gate, waiters, threadPc, worker, remaining, hist >>

CloseAndDrain ==
  /\ ExecAt("closing", "wake")
  /\ accepting' = FALSE
  /\ remaining' = queue
  /\ queue' = << >>
  /\ UNCHANGED << inFlight, waiters, threadPc, worker, hist >>

CloseWake ==
  /\ ExecAt("wake", "arm")
  /\ waiters' = NotifyWaiters(waiters)
  /\ UNCHANGED << gate, threadPc, worker, remaining, hist >>

DrainArm ==
  /\ ExecAt("arm", "check")
  /\ waiters' = Arm(waiters, "exec")
  /\ UNCHANGED << gate, threadPc, worker, remaining, hist >>

\* Slips: the drain does not wait for the update being sent, or returns at
\* once when it has nothing of its own to send.
DrainUnguarded ==
  /\ ExecAt("check", "drain")
  /\ waiters' = Disarm(waiters, "exec")
  /\ UNCHANGED << gate, threadPc, worker, remaining, hist >>

DrainReady ==
  /\ inFlight = 0
  /\ ExecAt("check", "drain")
  /\ waiters' = Disarm(waiters, "exec")
  /\ UNCHANGED << gate, threadPc, worker, remaining, hist >>

DrainSleep ==
  /\ inFlight # 0
  /\ ExecAt("check", "sleep")
  /\ UNCHANGED << gate, waiters, threadPc, worker, remaining, hist >>

DrainWoken ==
  /\ waiters["exec"] = "fired"
  /\ ExecAt("sleep", "arm")
  /\ waiters' = Disarm(waiters, "exec")
  /\ UNCHANGED << gate, threadPc, worker, remaining, hist >>

DrainDeliver ==
  /\ execPc = "drain"
  /\ remaining # << >>
  /\ delivered' = Append(delivered, Head(remaining))
  /\ remaining' = Tail(remaining)
  /\ UNCHANGED << gate, waiters, threadPc, worker, execPc, calls, accepted,
                  lost >>

DrainDone ==
  /\ remaining = << >>
  /\ ExecAt("drain", "join")
  /\ UNCHANGED << gate, waiters, threadPc, worker, remaining, hist >>

\* worker_handle.await, then the drop guard closes a gate already closed.
Join ==
  /\ workerPc = "done"
  /\ ExecAt("join", "returned")
  /\ UNCHANGED << gate, waiters, threadPc, worker, remaining, hist >>

-----------------------------------------------------------------------------
(* The executing future is dropped before it returned: its locals go, the  *)
(* drop guard closes the gate, the worker is detached and runs on.         *)

FutureHeld ==
  execPc \notin { "returned", "dropClose", "dropWake", "dropped" }

DropFuture ==
  /\ FutureHeld
  /\ execPc' = "dropClose"
  /\ remaining' = << >>
  /\ lost' = remaining
  /\ waiters' = Disarm(waiters, "exec")
  /\ UNCHANGED << gate, threadPc, worker, calls, accepted, delivered >>

DropClose ==
  /\ ExecAt("dropClose", "dropWake")
  /\ accepting' = FALSE
  /\ UNCHANGED << queue, inFlight, waiters, threadPc, worker, remaining,
                  hist >>

DropWake ==
  /\ ExecAt("dropWake", "dropped")
  /\ waiters' = NotifyWaiters(waiters)
  /\ UNCHANGED << gate, threadPc, worker, remaining, hist >>

-----------------------------------------------------------------------------
Thread(t) == TryEnqueue(t) \/ ThreadWake(t)

Worker ==
  \/ PopForSend
  \/ PopNone
  \/ WorkerDeliver
  \/ CompleteSend
  \/ CompleteSendWake
  \/ WorkerArm
  \/ WorkerCheckSleep
  \/ WorkerCheckMore
  \/ WorkerCheckDone
  \/ WorkerWoken

\* What the executor does once the tool has returned or the call is dropped.
Executor ==
  \/ CloseAndDrain
  \/ CloseWake
  \/ DrainArm
  \/ DrainReady
  \/ DrainSleep
  \/ DrainWoken
  \/ DrainDeliver
  \/ DrainDone
  \/ Join
  \/ DropClose
  \/ DropWake

Next ==
  \/ \E t \in Threads : Thread(t)
  \/ Worker
  \/ ToolReturns
  \/ Executor
  \/ DropFuture

\* Spawned tasks and running threads make progress; a tool need not return
\* and nobody has to call on_update or to drop the call.
Fairness ==
  /\ \A t \in Threads : WF_vars(ThreadWake(t))
  /\ WF_vars(Worker)
  /\ WF_vars(Executor)

Spec == Init /\ [][Next]_vars /\ Fairness

-----------------------------------------------------------------------------
(* Properties.                                                             *)

\* Updates that are in the gate, in the order they will be sent.
InGate == item \o (remaining \o queue)

Dropped == execPc \in { "dropClose", "dropWake", "dropped" }

\* Every update that try_enqueue accepted is, in the order of acceptance,
\* sent or still held by the worker, the executor or the queue: none is
\* lost, sent twice or overtaken, whichever of the worker and the draining
\* executor sends it.  Only a call dropped after its tool has returned loses
\* updates, and then the latest ones.
Conservation ==
  /\ accepted = delivered \o (InGate \o lost)
  /\ lost # << >> => Dropped /\ ~accepting

\* When the executor returns, and so before tool_execution_end is emitted,
\* every accepted update has been sent.
AllSentOnReturn == execPc = "returned" => delivered = accepted

\* No update reaches the subscriber after the executor has returned: the
\* late progress event that ToolUpdateGate was written to rule out.
NoLateUpdate == [][execPc = "returned" => delivered' = delivered]_vars

\* An update accepted while the tool is still running is sent without waiting
\* for the tool to return.
PromptDelivery ==
  \A n \in Updates :
    (Len(accepted) >= n) ~> (Len(delivered) >= n \/ lost # << >>)

\* Once the tool has returned the executor gets through drain and join.
DrainTerminates == (execPc = "closing") ~> (execPc = "returned" \/ Dropped)

\* No wake-up is lost, neither the worker's between its look at the queue and
\* its sleep, nor that of the executor between its look at in_flight and its
\* wait.
NoWakeUpLost == PromptDelivery /\ DrainTerminates

\* The inductive invariant behind Conservation.  The worker holds an update
\* exactly while it sends it and is counted in flight until it has reported;
\* the drained updates and a non-empty queue never coexist; and from the
\* drain on nothing is in flight, so the executor is the only sender.
WorkerHolds ==
  /\ Len(item) = (IF workerPc = "sending" THEN 1 ELSE 0)
  /\ inFlight = (IF workerPc \in { "sending", "complete" } THEN 1 ELSE 0)
  /\ workerPc = "done" => ~accepting /\ queue = << >>

ExecutorHolds ==
  /\ execPc \in { "wake", "arm", "check", "sleep", "drain", "join",
                   "returned" } => ~accepting /\ queue = << >>
  /\ execPc \notin { "wake", "arm", "check", "sleep", "drain" } =>
       remaining = << >>
  /\ execPc \in { "drain", "join", "returned" } => inFlight = 0
  /\ execPc = "returned" => workerPc = "done"

GateInv == TypeOK /\ WorkerHolds /\ ExecutorHolds /\ Conservation

\* Every step of the gate is a step of the channel or none: updates come out
\* in acceptance order and the call returns only when all are out.
Channel ==
  INSTANCE UpdateDelivery WITH
    open <- accepting, pending <- InGate, out <- delivered,
    ended <- (execPc = "returned")

ImplementsChannel == Channel!Spec
=============================================================================
