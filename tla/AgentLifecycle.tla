--------------------------- MODULE AgentLifecycle ---------------------------
(***************************************************************************)
(* Who may run an agent, and who learns of it (crates/pi-agent/src/        *)
(* agent.rs: prompt, continue_run, run_with_lifecycle, finish_run,         *)
(* abort, PromptWaitGuard, wait_for_idle and reset).                       *)
(*                                                                         *)
(* Callers start runs and wait for them, and may be dropped while they     *)
(* wait; a spawned task owns each run; other tasks abort, wait for         *)
(* idleness and reset.  What a run does is AgentLoop's subject; here it    *)
(* writes to the transcript and ends.  Each critical section of the        *)
(* active_run lock is one action (the state lock is only taken inside it). *)
(***************************************************************************)
EXTENDS Naturals, Sequences, FiniteSets, Notify

CONSTANTS
  Callers,      \* tasks that prompt or continue
  IdleWaiters,  \* tasks that call wait_for_idle
  MaxRuns,      \* bound: run ids handed out
  MaxWrites     \* bound: transcript writes of one run before it ends

ASSUME MaxRunsAssumption == MaxRuns \in Nat
ASSUME MaxWritesAssumption == MaxWrites \in Nat

NoRun == 0
RunIds == 1 .. MaxRuns

VARIABLES
  active, isStreaming,           \* active_run and state.is_streaming
  nextRunId,                     \* the atomic counter
  cancelled,                     \* runs whose cancel token is cancelled
  taskPc, writes,                \* the spawned task of each run
  transcript,                    \* which run wrote each message
  callerPc, callerRun,           \* callers of prompt and continue_run
  abortRun,                      \* the token an abort has read, not used
  waitPc, waitRun, waitSlot,     \* callers of wait_for_idle
  replied                        \* history: runs whose caller has a result

task   == << taskPc, writes >>
caller == << callerPc, callerRun >>
waiter == << waitPc, waitRun, waitSlot >>
vars   == << active, isStreaming, nextRunId, cancelled, task, transcript,
             caller, abortRun, waiter, replied >>

TaskPcs ==
  { "none", "body", "failing", "finish", "notify", "done", "over" }
CallerPcs == { "idle", "prompt", "continue", "waiting" }
WaitPcs == { "idle", "read", "arm", "recheck", "sleep" }

TypeOK ==
  /\ active \in RunIds \cup { NoRun }
  /\ isStreaming \in BOOLEAN
  /\ nextRunId \in 1 .. MaxRuns + 1
  /\ cancelled \subseteq RunIds
  /\ taskPc \in [ RunIds -> TaskPcs ]
  /\ writes \in [ RunIds -> 0 .. MaxWrites ]
  /\ transcript \in Seq(RunIds)
  /\ callerPc \in [ Callers -> CallerPcs ]
  /\ callerRun \in [ Callers -> RunIds \cup { NoRun } ]
  /\ abortRun \in RunIds \cup { NoRun }
  /\ waitPc \in [ IdleWaiters -> WaitPcs ]
  /\ waitRun \in [ IdleWaiters -> RunIds \cup { NoRun } ]
  /\ waitSlot \in [ IdleWaiters -> WaiterState ]
  /\ replied \subseteq RunIds

Init ==
  /\ active = NoRun
  /\ isStreaming = FALSE
  /\ nextRunId = 1
  /\ cancelled = { }
  /\ taskPc = [ r \in RunIds |-> "none" ]
  /\ writes = [ r \in RunIds |-> 0 ]
  /\ transcript = << >>
  /\ callerPc = [ c \in Callers |-> "idle" ]
  /\ callerRun = [ c \in Callers |-> NoRun ]
  /\ abortRun = NoRun
  /\ waitPc = [ w \in IdleWaiters |-> "idle" ]
  /\ waitRun = [ w \in IdleWaiters |-> NoRun ]
  /\ waitSlot = [ w \in IdleWaiters |-> "none" ]
  /\ replied = { }

-----------------------------------------------------------------------------
(* Callers.                                                                *)

\* run_with_lifecycle takes a run id before it takes the lock.
TakeRunId(c, pc) ==
  /\ callerPc[c] = "idle"
  /\ nextRunId <= MaxRuns
  /\ callerRun' = [ callerRun EXCEPT ![c] = nextRunId ]
  /\ callerPc' = [ callerPc EXCEPT ![c] = pc ]
  /\ nextRunId' = nextRunId + 1
  /\ UNCHANGED << active, isStreaming, cancelled, task, transcript, abortRun,
                  waiter, replied >>

\* prompt's own check refuses early, without taking an id.
Prompt(c) == active = NoRun /\ TakeRunId(c, "prompt")

ContinueRun(c) == TakeRunId(c, "continue")

CallReturns(c) ==
  /\ callerPc' = [ callerPc EXCEPT ![c] = "idle" ]
  /\ callerRun' = [ callerRun EXCEPT ![c] = NoRun ]

\* Slips: admission trusts the check that prompt made before, or takes the
\* run id from the counter once more.
AdmitUnchecked(c) ==
  /\ callerPc[c] \in { "prompt", "continue" }
  /\ active' = callerRun[c]
  /\ isStreaming' = TRUE
  /\ taskPc' = [ taskPc EXCEPT ![callerRun[c]] = "body" ]
  /\ callerPc' = [ callerPc EXCEPT ![c] = "waiting" ]
  /\ UNCHANGED << nextRunId, cancelled, writes, transcript,
                  callerRun, abortRun, waiter, replied >>

Admit(c) ==
  /\ callerPc[c] \in { "prompt", "continue" }
  /\ active = NoRun
  /\ active' = callerRun[c]
  /\ isStreaming' = TRUE
  /\ taskPc' = [ taskPc EXCEPT ![callerRun[c]] = "body" ]
  /\ callerPc' = [ callerPc EXCEPT ![c] = "waiting" ]
  /\ UNCHANGED << nextRunId, cancelled, writes, transcript,
                  callerRun, abortRun, waiter, replied >>

\* Another run is active, or a continuation has nothing to continue from.
Refuse(c) ==
  /\ \/ callerPc[c] \in { "prompt", "continue" } /\ active # NoRun
     \/ callerPc[c] = "continue"
  /\ CallReturns(c)
  /\ UNCHANGED << active, isStreaming, nextRunId, cancelled, task,
                  transcript, abortRun, waiter, replied >>

Receive(c) ==
  /\ callerPc[c] = "waiting"
  /\ taskPc[callerRun[c]] = "over"
  /\ replied' = replied \cup { callerRun[c] }
  /\ CallReturns(c)
  /\ UNCHANGED << active, isStreaming, nextRunId, cancelled, task,
                  transcript, abortRun, waiter >>

\* The caller's future is dropped: PromptWaitGuard aborts that run, if it is
\* still the active one.
DropWait(c) ==
  /\ callerPc[c] = "waiting"
  /\ cancelled' = IF active = callerRun[c] THEN cancelled \cup { active }
                                           ELSE cancelled
  /\ CallReturns(c)
  /\ UNCHANGED << active, isStreaming, nextRunId, task, transcript,
                  abortRun, waiter, replied >>

-----------------------------------------------------------------------------
(* The task that owns run r.                                               *)

TaskAt(r, from, to) ==
  /\ taskPc[r] = from
  /\ taskPc' = [ taskPc EXCEPT ![r] = to ]

\* process_event with a message: ignored unless r is the active run.
Write(r) ==
  /\ taskPc[r] = "body"
  /\ writes[r] < MaxWrites
  /\ writes' = [ writes EXCEPT ![r] = @ + 1 ]
  /\ transcript' = IF active = r THEN Append(transcript, r) ELSE transcript
  /\ UNCHANGED << active, isStreaming, nextRunId, cancelled, taskPc,
                  caller, abortRun, waiter, replied >>

\* The executor returns Ok, or Err, or panics, which counts as Err.
BodyEnds(r) ==
  /\ TaskAt(r, "body", "finish") \/ TaskAt(r, "body", "failing")
  /\ UNCHANGED << active, isStreaming, nextRunId, cancelled, writes,
                  transcript, caller, abortRun, waiter, replied >>

\* handle_run_failure adds a failure message, unless the run had already
\* ended its event sequence.
ReportFailure(r) ==
  /\ TaskAt(r, "failing", "finish")
  /\ \/ /\ active = r
        /\ transcript' = Append(transcript, r)
     \/ UNCHANGED transcript
  /\ UNCHANGED << active, isStreaming, nextRunId, cancelled, writes,
                  caller, abortRun, waiter, replied >>

\* A slip: the result is sent and the run is never taken out of active_run.
FinishWithoutClearing(r) ==
  /\ TaskAt(r, "finish", "over")
  /\ UNCHANGED << active, isStreaming, nextRunId, cancelled, writes,
                  transcript, caller, abortRun, waiter, replied >>

FinishRun(r) ==
  /\ TaskAt(r, "finish", "notify")
  /\ IF active = r
       THEN active' = NoRun /\ isStreaming' = FALSE
       ELSE UNCHANGED << active, isStreaming >>
  /\ UNCHANGED << nextRunId, cancelled, writes, transcript, caller,
                  abortRun, waiter, replied >>

\* idle_notify belongs to run r: it wakes only those who wait for r.
NotifyIdle(r) ==
  /\ TaskAt(r, "notify", "done")
  /\ waitSlot' = [ w \in IdleWaiters |->
       IF waitRun[w] = r THEN NotifyWaiters(waitSlot)[w] ELSE waitSlot[w] ]
  /\ UNCHANGED << active, isStreaming, nextRunId, cancelled, writes,
                  transcript, caller, abortRun, waitPc, waitRun, replied >>

\* A slip: an aborted run sends no result.
SendResultUnlessAborted(r) ==
  /\ r \notin cancelled
  /\ TaskAt(r, "done", "over")
  /\ UNCHANGED << active, isStreaming, nextRunId, cancelled, writes,
                  transcript, caller, abortRun, waiter, replied >>

\* done_tx.send
SendResult(r) ==
  /\ TaskAt(r, "done", "over")
  /\ UNCHANGED << active, isStreaming, nextRunId, cancelled, writes,
                  transcript, caller, abortRun, waiter, replied >>

-----------------------------------------------------------------------------
(* Everybody else: abort, reset, wait_for_idle.                            *)

\* abort reads the token under the lock and cancels it after the unlock.
AbortRead ==
  /\ active # NoRun
  /\ abortRun' = active
  /\ UNCHANGED << active, isStreaming, nextRunId, cancelled, task,
                  transcript, caller, waiter, replied >>

AbortCancel ==
  /\ abortRun # NoRun
  /\ cancelled' = cancelled \cup { abortRun }
  /\ abortRun' = NoRun
  /\ UNCHANGED << active, isStreaming, nextRunId, task, transcript, caller,
                  waiter, replied >>

\* A slip: reset does not look at active_run.
ResetUnchecked ==
  /\ transcript' = << >>
  /\ isStreaming' = FALSE
  /\ UNCHANGED << active, nextRunId, cancelled, task, caller, abortRun,
                  waiter, replied >>

Reset ==
  /\ active = NoRun
  /\ transcript' = << >>
  /\ isStreaming' = FALSE
  /\ UNCHANGED << active, nextRunId, cancelled, task, caller, abortRun,
                  waiter, replied >>

WaiterMoves(w, from, to) ==
  /\ waitPc[w] = from
  /\ waitPc' = [ waitPc EXCEPT ![w] = to ]
  /\ UNCHANGED << active, isStreaming, nextRunId, cancelled, task,
                  transcript, caller, abortRun, replied >>

WaitForIdle(w) ==
  /\ WaiterMoves(w, "idle", "read")
  /\ UNCHANGED << waitRun, waitSlot >>

WaitRead(w) ==
  /\ \/ active = NoRun /\ WaiterMoves(w, "read", "idle")
     \/ active # NoRun /\ WaiterMoves(w, "read", "arm")
  /\ waitRun' = [ waitRun EXCEPT ![w] = active ]
  /\ UNCHANGED waitSlot

WaitArm(w) ==
  /\ WaiterMoves(w, "arm", "recheck")
  /\ waitSlot' = Arm(waitSlot, w)
  /\ UNCHANGED waitRun

\* A slip: active_run is not looked at again once the future exists.
WaitWithoutRecheck(w) ==
  /\ WaiterMoves(w, "recheck", "sleep")
  /\ UNCHANGED << waitRun, waitSlot >>

WaitRecheck(w) ==
  /\ \/ /\ active = waitRun[w]
        /\ WaiterMoves(w, "recheck", "sleep")
        /\ UNCHANGED waitSlot
     \/ /\ active # waitRun[w]
        /\ WaiterMoves(w, "recheck", "read")
        /\ waitSlot' = Disarm(waitSlot, w)
  /\ UNCHANGED waitRun

WaitWake(w) ==
  /\ waitSlot[w] = "fired"
  /\ WaiterMoves(w, "sleep", "read")
  /\ waitSlot' = Disarm(waitSlot, w)
  /\ UNCHANGED waitRun

-----------------------------------------------------------------------------
Caller(c) ==
  \/ Prompt(c)
  \/ ContinueRun(c)
  \/ Admit(c)
  \/ Refuse(c)
  \/ Receive(c)
  \/ DropWait(c)

Task(r) ==
  \/ Write(r)
  \/ BodyEnds(r)
  \/ ReportFailure(r)
  \/ FinishRun(r)
  \/ NotifyIdle(r)
  \/ SendResult(r)

Waiter(w) ==
  \/ WaitForIdle(w)
  \/ WaitRead(w)
  \/ WaitArm(w)
  \/ WaitRecheck(w)
  \/ WaitWake(w)

Next ==
  \/ \E c \in Callers : Caller(c)
  \/ \E r \in RunIds : Task(r)
  \/ \E w \in IdleWaiters : Waiter(w)
  \/ AbortRead
  \/ AbortCancel
  \/ Reset

\* Tasks that can take a step do.  A run ends by itself only once its token
\* is cancelled: an uncancelled provider stream may stay open for ever.
Fairness ==
  /\ \A r \in RunIds :
       /\ WF_vars(r \in cancelled /\ BodyEnds(r))
       /\ WF_vars(ReportFailure(r) \/ FinishRun(r) \/ NotifyIdle(r)
                    \/ SendResult(r))
  /\ \A c \in Callers : WF_vars(Admit(c) \/ Refuse(c) \/ Receive(c))
  /\ \A w \in IdleWaiters :
       WF_vars(WaitRead(w) \/ WaitArm(w) \/ WaitRecheck(w) \/ WaitWake(w))
  /\ WF_vars(AbortCancel)

Spec == Init /\ [][Next]_vars /\ Fairness

-----------------------------------------------------------------------------
(* Properties.                                                             *)

Live(r) == taskPc[r] \in { "body", "failing", "finish" }

\* The active run is the one whose task is at work, there is no other, and
\* is_streaming says whether there is one.
OneRun ==
  /\ \A r \in RunIds : Live(r) <=> active = r
  /\ isStreaming <=> active # NoRun

\* A run under way owns the tail of the transcript: everything it wrote is
\* there, and no other run and no reset cut into it.
LiveRunOwnsTail ==
  \A r \in RunIds : Live(r) =>
    /\ writes[r] <= Len(transcript)
    /\ \A i \in Len(transcript) - writes[r] + 1 .. Len(transcript) :
         transcript[i] = r

\* When prompt returns, its run has left active_run and is_streaming, so the
\* next prompt of the same caller is not refused because of it.
ReturnsAfterCleanup ==
  [][\A r \in replied' \ replied : active # r]_vars

\* Nobody sleeps through the end of the run it waits for: a caller gets the
\* answer of its run, and wait_for_idle misses no notification.  There are
\* MaxRuns runs, so that whoever is still waiting in the end waits for ever.
WaitsForEnded ==
  \/ \E c \in Callers :
       callerPc[c] = "waiting" /\ callerRun[c] \in RunIds /\ ~Live(callerRun[c])
  \/ \E w \in IdleWaiters :
       /\ waitPc[w] # "idle" /\ waitRun[w] \in RunIds
       /\ taskPc[waitRun[w]] = "over"

WaitersWake == <>[]~WaitsForEnded

\* Admission implements SerialRuns.
Serial ==
  INSTANCE SerialRuns WITH
    Runs <- RunIds, running <- active,
    settled <- { r \in RunIds : taskPc[r] \in { "notify", "done", "over" } }

ImplementsSerialRuns == Serial!Spec
=============================================================================
