------------------------ MODULE AgentLifecycleProofs ------------------------
(***************************************************************************)
(* Proofs about AgentLifecycle for any callers, waiters and bounds: the    *)
(* inductive invariant LifecycleInv, the safety properties that follow     *)
(* from it, and the refinement of SerialRuns.                              *)
(***************************************************************************)
EXTENDS AgentLifecycle, SeqFacts

\* A run id is handed to one call; until that call is admitted, nothing has
\* happened to the run.
IdsAreFresh ==
  /\ \A r \in RunIds : r >= nextRunId => taskPc[r] = "none"
  /\ \A c \in Callers : callerPc[c] # "idle" =>
       callerRun[c] \in RunIds /\ callerRun[c] < nextRunId
  /\ \A c, d \in Callers :
       callerPc[c] # "idle" /\ callerPc[d] # "idle"
         /\ callerRun[c] = callerRun[d] => c = d
  /\ \A c \in Callers : callerPc[c] \in { "prompt", "continue" } =>
       taskPc[callerRun[c]] = "none"

UnstartedWroteNothing ==
  \A r \in RunIds : taskPc[r] = "none" => writes[r] = 0

\* A result has been received only from a run that sent it, and by nobody
\* who is still waiting for it.
RepliesAreLate ==
  /\ \A r \in replied : taskPc[r] = "over"
  /\ \A c \in Callers : callerPc[c] # "idle" => callerRun[c] \notin replied

LifecycleInv ==
  /\ TypeOK
  /\ IdsAreFresh
  /\ UnstartedWroteNothing
  /\ RepliesAreLate
  /\ OneRun
  /\ LiveRunOwnsTail

LEMMA InitInv == Init => LifecycleInv
<1> SUFFICES ASSUME Init
             PROVE  LifecycleInv
  OBVIOUS
<1> USE MaxRunsAssumption, MaxWritesAssumption
<1>0. << >> \in Seq(RunIds)
  BY EmptySeq
<1>1. isStreaming \in BOOLEAN
  BY DEF Init
<1>2. TypeOK
  BY <1>0, <1>1
  DEF Init, TypeOK, TaskPcs, CallerPcs, WaitPcs, WaiterState
<1>3. IdsAreFresh /\ UnstartedWroteNothing /\ RepliesAreLate
  BY DEF Init, IdsAreFresh, UnstartedWroteNothing, RepliesAreLate, RunIds
<1>4. OneRun /\ LiveRunOwnsTail
  BY DEF Init, OneRun, LiveRunOwnsTail, Live, RunIds, NoRun
<1>5. QED
  BY <1>2, <1>3, <1>4 DEF LifecycleInv

\* A step keeps every variable in its type.
LEMMA TypeStep == LifecycleInv /\ [Next]_vars => TypeOK'
<1> SUFFICES ASSUME LifecycleInv, [Next]_vars
             PROVE  TypeOK'
  OBVIOUS
<1> USE MaxRunsAssumption, MaxWritesAssumption
    DEF LifecycleInv, TypeOK, TaskPcs, CallerPcs, WaitPcs, WaiterState,
        vars, task, caller, waiter
<1>1. ASSUME NEW c \in Callers, Caller(c)
      PROVE  TypeOK'
  <2>1. CASE Prompt(c) \/ ContinueRun(c)
    <3>1. nextRunId \in RunIds /\ nextRunId + 1 \in 1 .. MaxRuns + 1
      BY <2>1 DEF Prompt, ContinueRun, TakeRunId, RunIds
    <3>2. QED
      BY <2>1, <3>1 DEF Prompt, ContinueRun, TakeRunId
  <2>2. CASE Admit(c)
    <3>1. callerRun[c] \in RunIds
      BY <2>2 DEF Admit, IdsAreFresh
    <3>2. QED
      BY <2>2, <3>1 DEF Admit
  <2>3. CASE Refuse(c) \/ DropWait(c)
    <3>1. callerRun[c] \in RunIds
      BY <2>3 DEF Refuse, DropWait, IdsAreFresh
    <3>2. QED
      BY <2>3, <3>1 DEF Refuse, DropWait, CallReturns
  <2>4. CASE Receive(c)
    <3>1. callerRun[c] \in RunIds
      BY <2>4 DEF Receive, IdsAreFresh
    <3>2. QED
      BY <2>4, <3>1 DEF Receive, CallReturns, NoRun
  <2>5. QED
    BY <1>1, <2>1, <2>2, <2>3, <2>4 DEF Caller
<1>2. ASSUME NEW r \in RunIds, Task(r)
      PROVE  TypeOK'
  <2>1. Append(transcript, r) \in Seq(RunIds)
    BY AppendProperties
  <2>2. CASE Write(r)
    BY <2>1, <2>2 DEF Write
  <2>3. CASE BodyEnds(r) \/ SendResult(r) \/ FinishRun(r)
    BY <2>3 DEF BodyEnds, SendResult, FinishRun, TaskAt, NoRun
  <2>4. CASE ReportFailure(r)
    BY <2>1, <2>4 DEF ReportFailure, TaskAt
  <2>5. CASE NotifyIdle(r)
    BY <2>5 DEF NotifyIdle, TaskAt, NotifyWaiters
  <2>6. QED
    BY <1>2, <2>2, <2>3, <2>4, <2>5 DEF Task
<1>3. ASSUME NEW w \in IdleWaiters, Waiter(w)
      PROVE  TypeOK'
  <2>1. CASE WaitForIdle(w) \/ WaitRead(w) \/ WaitArm(w)
    BY <2>1, ZenonT(60) DEF WaitForIdle, WaitRead, WaitArm, WaiterMoves, Arm
  <2>2. CASE WaitRecheck(w) \/ WaitWake(w)
    BY <2>2 DEF WaitRecheck, WaitWake, WaiterMoves, Disarm
  <2>3. QED
    BY <1>3, <2>1, <2>2 DEF Waiter
<1>4. CASE AbortRead \/ AbortCancel
  BY <1>4 DEF AbortRead, AbortCancel, NoRun
<1>5. CASE Reset
  <2>1. << >> \in Seq(RunIds)
    BY EmptySeq
  <2>2. QED
    BY <1>5, <2>1 DEF Reset
<1>6. CASE UNCHANGED vars
  BY <1>6
<1>7. QED
  BY <1>1, <1>2, <1>3, <1>4, <1>5, <1>6 DEF Next

\* A step keeps what the invariant says of run ids and of callers.
LEMMA IdsStep ==
  LifecycleInv /\ [Next]_vars
    => IdsAreFresh' /\ UnstartedWroteNothing' /\ RepliesAreLate'
<1> SUFFICES ASSUME LifecycleInv, [Next]_vars
             PROVE  IdsAreFresh' /\ UnstartedWroteNothing' /\ RepliesAreLate'
  OBVIOUS
<1> USE MaxRunsAssumption, MaxWritesAssumption
    DEF LifecycleInv, TypeOK, IdsAreFresh, UnstartedWroteNothing,
        RepliesAreLate, TaskPcs, CallerPcs, vars, task, caller
<1>0. \A r \in RunIds : r \in Nat
  BY DEF RunIds
<1>1. ASSUME NEW c \in Callers, Caller(c)
      PROVE  IdsAreFresh' /\ UnstartedWroteNothing' /\ RepliesAreLate'
  <2>1. CASE Prompt(c) \/ ContinueRun(c)
    <3>1. /\ callerPc[c] = "idle"
          /\ nextRunId \in RunIds
          /\ nextRunId' = nextRunId + 1
          /\ callerRun' = [ callerRun EXCEPT ![c] = nextRunId ]
          /\ \/ callerPc' = [ callerPc EXCEPT ![c] = "prompt" ]
             \/ callerPc' = [ callerPc EXCEPT ![c] = "continue" ]
          /\ UNCHANGED << taskPc, writes, replied >>
      BY <2>1 DEF Prompt, ContinueRun, TakeRunId, RunIds
    <3>2. nextRunId \notin replied /\ taskPc[nextRunId] = "none"
      BY <3>1
    <3>3. \A r \in RunIds : r >= nextRunId' => r >= nextRunId
      BY <3>1 DEF RunIds
    <3>4. \A d \in Callers : callerPc'[d] # "idle" =>
            \/ d = c /\ callerRun'[d] = nextRunId
            \/ /\ d # c
               /\ callerPc[d] # "idle" /\ callerPc'[d] = callerPc[d]
               /\ callerRun'[d] = callerRun[d]
      BY <3>1
    <3>5. \A d \in Callers : callerPc[d] # "idle" =>
            callerRun[d] \in RunIds /\ callerRun[d] < nextRunId
                                    /\ callerRun[d] < nextRunId + 1
      BY <3>1 DEF RunIds
    <3>6. QED
      BY <3>1, <3>2, <3>3, <3>4, <3>5
  <2>2. CASE Admit(c)
    <3>1. /\ callerRun[c] \in RunIds /\ callerRun[c] < nextRunId
          /\ callerPc[c] # "idle" /\ callerRun[c] \notin replied
      BY <2>2 DEF Admit
    <3>2. /\ \A r \in RunIds : taskPc'[r] =
                 IF r = callerRun[c] THEN "body" ELSE taskPc[r]
          /\ \A d \in Callers : callerPc'[d] =
                 IF d = c THEN "waiting" ELSE callerPc[d]
          /\ UNCHANGED << callerRun, nextRunId, writes, replied >>
      BY <2>2 DEF Admit
    <3>3. UnstartedWroteNothing' /\ RepliesAreLate'
      BY <3>1, <3>2
    <3>4. \A r \in RunIds : r >= nextRunId' => taskPc'[r] = "none"
      BY <1>0, <3>1, <3>2
    <3>5. \A d \in Callers : callerPc'[d] # "idle" => callerPc[d] # "idle"
      BY <3>1, <3>2
    <3>6. \A d \in Callers : callerPc'[d] \in { "prompt", "continue" } =>
            /\ callerPc[d] = callerPc'[d]
            /\ callerRun[d] # callerRun[c] /\ callerRun[d] \in RunIds
      BY <3>1, <3>2
    <3>7. \A d \in Callers : callerPc'[d] \in { "prompt", "continue" } =>
            taskPc'[callerRun[d]] = "none"
      BY <3>2, <3>6
    <3>8. IdsAreFresh'
      BY <3>2, <3>4, <3>5, <3>7
    <3>9. QED
      BY <3>3, <3>8
  <2>3. CASE Refuse(c) \/ DropWait(c) \/ Receive(c)
    <3>1. \A d \in Callers : callerPc'[d] # "idle" =>
            /\ d # c /\ callerPc[d] # "idle"
            /\ callerPc'[d] = callerPc[d] /\ callerRun'[d] = callerRun[d]
      BY <2>3 DEF Refuse, DropWait, Receive, CallReturns
    <3>2. callerPc[c] # "idle" /\ UNCHANGED << nextRunId, taskPc, writes >>
      BY <2>3 DEF Refuse, DropWait, Receive
    <3>3. \A r \in replied' :
            r \in replied \/ (r = callerRun[c] /\ taskPc[r] = "over")
      BY <2>3 DEF Refuse, DropWait, Receive
    <3>4. RepliesAreLate'
      BY <3>1, <3>2, <3>3
    <3>5. IdsAreFresh' /\ UnstartedWroteNothing'
      BY <1>0, <3>1, <3>2, SMTT(30)
    <3>6. QED
      BY <3>4, <3>5
  <2>4. QED
    BY <1>1, <2>1, <2>2, <2>3 DEF Caller
<1>2. ASSUME NEW r \in RunIds, Task(r)
      PROVE  IdsAreFresh' /\ UnstartedWroteNothing' /\ RepliesAreLate'
  <2>1. CASE Write(r)
    BY <2>1 DEF Write
  <2>2. CASE ~Write(r)
    BY <1>2, <2>2
    DEF Task, BodyEnds, ReportFailure, FinishRun, NotifyIdle, SendResult,
        TaskAt
  <2>3. QED
    BY <2>1, <2>2
<1>3. ASSUME NEW w \in IdleWaiters, Waiter(w)
      PROVE  IdsAreFresh' /\ UnstartedWroteNothing' /\ RepliesAreLate'
  BY <1>3 DEF Waiter, WaitForIdle, WaitRead, WaitArm, WaitRecheck, WaitWake,
              WaiterMoves
<1>4. CASE AbortRead \/ AbortCancel \/ Reset \/ UNCHANGED vars
  BY <1>4 DEF AbortRead, AbortCancel, Reset
<1>5. QED
  BY <1>1, <1>2, <1>3, <1>4 DEF Next

\* Admission waits for an empty active_run, and only the task of the active
\* run empties it.
LEMMA OneRunStep == LifecycleInv /\ [Next]_vars => OneRun'
<1> SUFFICES ASSUME LifecycleInv, [Next]_vars
             PROVE  OneRun'
  OBVIOUS
<1> USE MaxRunsAssumption
    DEF LifecycleInv, TypeOK, OneRun, Live, TaskPcs, CallerPcs, RunIds,
        NoRun, vars, task, caller
<1>1. ASSUME NEW c \in Callers, Admit(c)
      PROVE  OneRun'
  <2>1. callerRun[c] \in RunIds /\ callerRun[c] # NoRun
    BY <1>1 DEF Admit, IdsAreFresh
  <2>2. QED
    BY <1>1, <2>1 DEF Admit
<1>2. ASSUME NEW c \in Callers, Caller(c), ~Admit(c)
      PROVE  OneRun'
  BY <1>2 DEF Caller, Prompt, ContinueRun, TakeRunId, Refuse, Receive,
              DropWait, CallReturns
<1>3. ASSUME NEW r \in RunIds, Task(r)
      PROVE  OneRun'
  <2>1. CASE FinishRun(r)
    BY <2>1 DEF FinishRun, TaskAt
  <2>2. CASE ~FinishRun(r)
    <3>1. UNCHANGED << active, isStreaming >>
      BY <1>3, <2>2 DEF Task, Write, BodyEnds, ReportFailure, NotifyIdle,
                        SendResult, TaskAt
    <3>2. \A s \in RunIds : Live(s)' <=> Live(s)
      BY <1>3, <2>2 DEF Task, Write, BodyEnds, ReportFailure, NotifyIdle,
                        SendResult, TaskAt
    <3>3. QED
      BY <3>1, <3>2
  <2>3. QED
    BY <2>1, <2>2
<1>4. ASSUME NEW w \in IdleWaiters, Waiter(w)
      PROVE  OneRun'
  BY <1>4 DEF Waiter, WaitForIdle, WaitRead, WaitArm, WaitRecheck, WaitWake,
              WaiterMoves
<1>5. CASE AbortRead \/ AbortCancel \/ Reset \/ UNCHANGED vars
  BY <1>5, SMTT(30) DEF AbortRead, AbortCancel, Reset
<1>6. QED
  BY <1>1, <1>2, <1>3, <1>4, <1>5 DEF Next

\* Nobody but the run under way writes, and nobody resets meanwhile.
LEMMA TailStep == LifecycleInv /\ [Next]_vars => LiveRunOwnsTail'
<1> SUFFICES ASSUME LifecycleInv, [Next]_vars
             PROVE  LiveRunOwnsTail'
  OBVIOUS
<1> USE MaxWritesAssumption DEF LifecycleInv
<1>0. transcript \in Seq(RunIds) /\ writes \in [ RunIds -> Nat ]
  BY DEF TypeOK
<1>1. ASSUME UNCHANGED << writes, transcript >>,
             \A s \in RunIds : Live(s)' => Live(s)
      PROVE  LiveRunOwnsTail'
  BY <1>1 DEF LiveRunOwnsTail
<1>2. ASSUME NEW r \in RunIds, active = r, Live(r),
             \A s \in RunIds : Live(s)' => Live(s),
             transcript' = Append(transcript, r),
             writes'[r] \in { writes[r], writes[r] + 1 }
      PROVE  LiveRunOwnsTail'
  <2>1. Len(transcript) \in Nat /\ writes[r] \in Nat
    BY <1>0
  <2>2. /\ Len(transcript') = Len(transcript) + 1
        /\ \A i \in 1 .. Len(transcript) : transcript'[i] = transcript[i]
        /\ transcript'[Len(transcript) + 1] = r
    BY <1>0, <1>2, AppendProperties
  <2>3. /\ writes[r] <= Len(transcript)
        /\ \A i \in Len(transcript) - writes[r] + 1 .. Len(transcript) :
             transcript[i] = r
    BY <1>2 DEF LiveRunOwnsTail
  <2>4. writes'[r] <= Len(transcript')
    BY <1>2, <2>1, <2>2, <2>3
  <2>5. ASSUME NEW i \in Len(transcript') - writes'[r] + 1 .. Len(transcript')
        PROVE  transcript'[i] = r
    <3>1. CASE i = Len(transcript) + 1
      BY <2>2, <3>1
    <3>2. CASE i # Len(transcript) + 1
      <4>1. i \in Len(transcript) - writes[r] + 1 .. Len(transcript)
        BY <1>2, <2>1, <2>2, <3>2
      <4>2. i \in 1 .. Len(transcript)
        BY <2>1, <2>3, <4>1
      <4>3. QED
        BY <2>2, <2>3, <4>1, <4>2
    <3>3. QED
      BY <3>1, <3>2
  <2>6. \A s \in RunIds : Live(s)' => s = r
    BY <1>2 DEF OneRun
  <2>7. QED
    BY <2>4, <2>5, <2>6 DEF LiveRunOwnsTail
<1>3. ASSUME NEW c \in Callers, Admit(c)
      PROVE  LiveRunOwnsTail'
  <2>1. /\ active = NoRun /\ callerRun[c] \in RunIds
        /\ taskPc[callerRun[c]] = "none"
    BY <1>3 DEF Admit, IdsAreFresh
  <2>2. \A s \in RunIds : ~Live(s)
    BY <2>1 DEF OneRun, RunIds, NoRun
  <2>3. \A s \in RunIds : Live(s)' => s = callerRun[c]
    BY <1>3, <2>2 DEF Admit, Live, TypeOK
  <2>4. UNCHANGED << writes, transcript >> /\ writes[callerRun[c]] = 0
    BY <1>3, <2>1 DEF Admit, UnstartedWroteNothing
  <2>5. QED
    BY <1>0, <2>3, <2>4 DEF LiveRunOwnsTail
<1>4. ASSUME NEW c \in Callers, Caller(c), ~Admit(c)
      PROVE  LiveRunOwnsTail'
  BY <1>1, <1>4 DEF Caller, Prompt, ContinueRun, TakeRunId, Refuse, Receive,
                    DropWait, CallReturns, Live, task
<1>5. ASSUME NEW r \in RunIds, Task(r)
      PROVE  LiveRunOwnsTail'
  <2>1. \A s \in RunIds : Live(s)' => Live(s)
    BY <1>5 DEF Task, Write, BodyEnds, ReportFailure, FinishRun, NotifyIdle,
                SendResult, TaskAt, Live, TypeOK
  <2>2. CASE Write(r)
    <3>1. active = r /\ Live(r)
      BY <2>2 DEF Write, Live, OneRun
    <3>2. transcript' = Append(transcript, r) /\ writes'[r] = writes[r] + 1
      BY <1>0, <2>2, <3>1 DEF Write
    <3>3. QED
      BY <1>2, <2>1, <3>1, <3>2
  <2>3. CASE ReportFailure(r)
    <3>1. active = r /\ Live(r) /\ UNCHANGED writes
      BY <2>3 DEF ReportFailure, TaskAt, Live, OneRun
    <3>2. transcript' = Append(transcript, r) \/ UNCHANGED transcript
      BY <2>3 DEF ReportFailure
    <3>3. QED
      BY <1>1, <1>2, <2>1, <3>1, <3>2
  <2>4. CASE BodyEnds(r) \/ FinishRun(r) \/ NotifyIdle(r) \/ SendResult(r)
    BY <1>1, <2>1, <2>4 DEF BodyEnds, FinishRun, NotifyIdle, SendResult
  <2>5. QED
    BY <1>5, <2>2, <2>3, <2>4 DEF Task
<1>6. ASSUME NEW w \in IdleWaiters, Waiter(w)
      PROVE  LiveRunOwnsTail'
  BY <1>1, <1>6 DEF Waiter, WaitForIdle, WaitRead, WaitArm, WaitRecheck,
                    WaitWake, WaiterMoves, Live, task
<1>7. CASE Reset
  <2>1. \A s \in RunIds : ~Live(s)'
    BY <1>7 DEF Reset, OneRun, Live, RunIds, NoRun, task
  <2>2. QED
    BY <2>1 DEF LiveRunOwnsTail
<1>8. CASE AbortRead \/ AbortCancel \/ UNCHANGED vars
  BY <1>1, <1>8 DEF AbortRead, AbortCancel, Live, vars, task
<1>9. QED
  BY <1>3, <1>4, <1>5, <1>6, <1>7, <1>8 DEF Next

LEMMA LifecycleInvariant == Spec => []LifecycleInv
<1>1. LifecycleInv /\ [Next]_vars => LifecycleInv'
  BY TypeStep, IdsStep, OneRunStep, TailStep DEF LifecycleInv
<1>2. QED
  BY <1>1, InitInv, PTL DEF Spec

-----------------------------------------------------------------------------
\* Every variable keeps its type, in every behaviour of the specification.
THEOREM TypeCorrect == Spec => []TypeOK
<1>1. LifecycleInv => TypeOK
  BY DEF LifecycleInv
<1>2. QED
  BY <1>1, LifecycleInvariant, PTL

\* The run in active_run is the one whose task is at work, and is_streaming
\* agrees, however calls, aborts and resets interleave.
THEOREM OneRunAtATime == Spec => []OneRun
<1>1. LifecycleInv => OneRun
  BY DEF LifecycleInv
<1>2. QED
  BY <1>1, LifecycleInvariant, PTL

\* What a run under way has written is the tail of the transcript.
THEOREM TranscriptTail == Spec => []LiveRunOwnsTail
<1>1. LifecycleInv => LiveRunOwnsTail
  BY DEF LifecycleInv
<1>2. QED
  BY <1>1, LifecycleInvariant, PTL

\* A caller has its result only after its run left active_run.
THEOREM RepliesFollowCleanup == Spec => ReturnsAfterCleanup
<1>1. LifecycleInv /\ [Next]_vars =>
        [\A r \in replied' \ replied : active # r]_vars
  <2> SUFFICES ASSUME LifecycleInv, Next, NEW r \in replied' \ replied
               PROVE  active # r
    OBVIOUS
  <2>1. PICK c \in Callers : Receive(c)
    BY DEF Next, Caller, Prompt, ContinueRun, TakeRunId, Admit, Refuse,
           DropWait, Task, Write, BodyEnds, ReportFailure, FinishRun,
           NotifyIdle, SendResult, Waiter, WaitForIdle, WaitRead, WaitArm,
           WaitRecheck, WaitWake, WaiterMoves, AbortRead, AbortCancel, Reset
  <2>2. r = callerRun[c] /\ r \in RunIds /\ taskPc[r] = "over"
    BY <2>1 DEF Receive, LifecycleInv, IdsAreFresh
  <2>3. QED
    BY <2>2 DEF LifecycleInv, OneRun, Live
<1>2. QED
  BY <1>1, LifecycleInvariant, PTL DEF Spec, ReturnsAfterCleanup

-----------------------------------------------------------------------------
Settled == { r \in RunIds : taskPc[r] \in { "notify", "done", "over" } }

LEMMA SerialStep ==
  LifecycleInv /\ [Next]_vars
    => [Serial!Next]_<< active, Settled, replied >>
<1> SUFFICES ASSUME LifecycleInv, [Next]_vars
             PROVE  [Serial!Next]_<< active, Settled, replied >>
  OBVIOUS
<1> USE DEF LifecycleInv
<1>0. taskPc \in [ RunIds -> TaskPcs ] /\ NoRun \notin RunIds
  BY DEF TypeOK, NoRun, RunIds
<1>1. ASSUME NEW c \in Callers, Admit(c)
      PROVE  Serial!Next
  <2>1. /\ active = NoRun /\ active' = callerRun[c]
        /\ callerRun[c] \in RunIds /\ taskPc[callerRun[c]] = "none"
        /\ taskPc' = [ taskPc EXCEPT ![callerRun[c]] = "body" ]
        /\ UNCHANGED replied
    BY <1>1 DEF Admit, IdsAreFresh
  <2>2. Settled' = Settled /\ callerRun[c] \notin Settled
    BY <1>0, <2>1 DEF Settled
  <2>3. Serial!Begin(callerRun[c])
    BY <2>1, <2>2 DEF Serial!Begin, Settled
  <2>4. QED
    BY <2>1, <2>3 DEF Serial!Next
<1>2. ASSUME NEW c \in Callers, Receive(c)
      PROVE  Serial!Next
  <2>1. /\ callerRun[c] \in Settled \ replied
        /\ replied' = replied \cup { callerRun[c] }
        /\ UNCHANGED << active, taskPc >>
    BY <1>2 DEF Receive, IdsAreFresh, RepliesAreLate, Settled, task
  <2>2. Serial!Reply(callerRun[c])
    BY <2>1 DEF Serial!Reply, Settled
  <2>3. callerRun[c] \in RunIds
    BY <2>1 DEF Settled
  <2>4. QED
    BY <2>2, <2>3 DEF Serial!Next
<1>3. ASSUME NEW r \in RunIds, FinishRun(r)
      PROVE  Serial!Next
  <2>1. active = r /\ active' = NoRun /\ UNCHANGED replied
    BY <1>3 DEF FinishRun, TaskAt, OneRun, Live
  <2>2. taskPc' = [ taskPc EXCEPT ![r] = "notify" ]
    BY <1>3 DEF FinishRun, TaskAt
  <2>3. Settled' = Settled \cup { r }
    BY <1>0, <2>2 DEF Settled
  <2>4. Serial!Settle
    BY <1>0, <2>1, <2>3 DEF Serial!Settle, Settled
  <2>5. QED
    BY <2>4 DEF Serial!Next
<1>4. ASSUME NEW r \in RunIds, Task(r), ~FinishRun(r)
      PROVE  UNCHANGED << active, Settled, replied >>
  <2>1. UNCHANGED << active, replied >>
    BY <1>4 DEF Task, Write, BodyEnds, ReportFailure, NotifyIdle,
                SendResult, TaskAt
  <2>2. \A s \in RunIds : taskPc'[s] \in { "notify", "done", "over" }
                            <=> taskPc[s] \in { "notify", "done", "over" }
    BY <1>0, <1>4 DEF Task, Write, BodyEnds, ReportFailure, NotifyIdle,
                      SendResult, TaskAt
  <2>3. QED
    BY <2>1, <2>2 DEF Settled
<1>5. ASSUME NEW c \in Callers, Caller(c), ~Admit(c), ~Receive(c)
      PROVE  UNCHANGED << active, Settled, replied >>
  BY <1>5 DEF Caller, Prompt, ContinueRun, TakeRunId, Refuse, DropWait,
              Settled, task
<1>6. ASSUME NEW w \in IdleWaiters, Waiter(w)
      PROVE  UNCHANGED << active, Settled, replied >>
  BY <1>6 DEF Waiter, WaitForIdle, WaitRead, WaitArm, WaitRecheck, WaitWake,
              WaiterMoves, Settled, task
<1>7. CASE AbortRead \/ AbortCancel \/ Reset \/ UNCHANGED vars
  BY <1>7 DEF AbortRead, AbortCancel, Reset, Settled, vars, task
<1>8. QED
  BY <1>1, <1>2, <1>3, <1>4, <1>5, <1>6, <1>7 DEF Next

\* Admission implements SerialRuns: one run at a time, each settling once,
\* each result received once and only after its run has settled.
THEOREM LifecycleImplementsSerialRuns == Spec => ImplementsSerialRuns
<1>1. Init => Serial!Init
  BY DEF Init, Serial!Init
<1>2. LifecycleInv /\ [Next]_vars => [Serial!Next]_Serial!vars
  BY SerialStep DEF Serial!vars, Settled
<1>3. QED
  BY <1>1, <1>2, LifecycleInvariant, PTL
  DEF Spec, ImplementsSerialRuns, Serial!Spec
=============================================================================
