--------------------------- MODULE DeliveryProofs ---------------------------
(***************************************************************************)
(* Proofs about InputDelivery, for any calls and inputs, however often a   *)
(* call repeats an input and whichever saves and commits fail.             *)
(***************************************************************************)
EXTENDS InputDelivery, SeqFacts

LEMMA InputsOfCalls == InputOf \in [ Calls -> Inputs ]
BY InputDeliveryAssumption DEF InputOf

-----------------------------------------------------------------------------
(* The queue of the agent and the lists of deferred calls.                 *)

LEMMA AppendedQueue ==
  ASSUME NEW S, NEW q \in Seq(S), NEW i \in S
  PROVE  /\ Append(q, i) \in Seq(S)
         /\ \A k \in DOMAIN Append(q, i) :
              \/ k \in DOMAIN q /\ Append(q, i)[k] = q[k]
              \/ k = Len(q) + 1 /\ k \notin DOMAIN q /\ Append(q, i)[k] = i
BY SMTT(30)

LEMMA ShorterQueue ==
  ASSUME NEW S, NEW q \in Seq(S), q # << >>
  PROVE  /\ Head(q) \in S /\ Tail(q) \in Seq(S)
         /\ 1 \in DOMAIN q /\ Head(q) = q[1]
         /\ \A k \in DOMAIN Tail(q) :
              /\ k \in Nat /\ k + 1 \in DOMAIN q /\ k + 1 # 1
              /\ Tail(q)[k] = q[k + 1]
BY SMTT(30)

LEMMA NoQueue ==
  ASSUME NEW S
  PROVE  << >> \in Seq(S) /\ DOMAIN << >> = { }
OBVIOUS

-----------------------------------------------------------------------------
LEMMA DeliveryStarts == Init => DeliveryInv
<1> SUFFICES ASSUME Init
             PROVE  DeliveryInv
  OBVIOUS
<1>1. Typed
  BY NoQueue DEF Init, Typed, Statuses, Stages, Replies
<1>2. OneCarrier
  BY NoQueue DEF Init, OneCarrier, Carries, CarryStages
<1>3. CommittingInv
  BY DEF Init, CommittingInv
<1>4. LogInv
  BY DEF Init, LogInv, Truthful, Final
<1>5. AnswersInv /\ DownInv
  BY DEF Init, AnswersInv, DownInv, AfterCommit
<1>6. QED
  BY <1>1, <1>2, <1>3, <1>4, <1>5 DEF DeliveryInv

-----------------------------------------------------------------------------
(* Steps that move a call and touch neither the log nor the file.          *)

\* Nobody starts to carry an input, or to run the agent, by such a step.
LEMMA CallMoves ==
  ASSUME DeliveryInv, Typed', up,
         UNCHANGED << up, mem, disk, stored, keyed, committing, queued >>,
         \A c \in Calls : Carries(c)' => Carries(c),
         \A c \in Calls : pc'[c] = "accept" => pc[c] = "accept",
         \A c, d \in Calls :
           { pc'[c], pc'[d] } \subseteq { "own", "accept", "loop" } => c = d,
         AnswersInv'
  PROVE  DeliveryInv'
<1>1. OneCarrier'
  BY DEF DeliveryInv, OneCarrier, Undelivered
<1>2. CommittingInv'
  BY DEF DeliveryInv, CommittingInv
<1>3. LogInv'
  BY DEF DeliveryInv, LogInv, Truthful
<1>4. DownInv'
  BY DEF DownInv
<1>5. QED
  BY <1>1, <1>2, <1>3, <1>4 DEF DeliveryInv

LEMMA MoveSteps ==
  ASSUME DeliveryInv, NEW c \in Calls,
         \/ Call(c) \/ Defer(c) \/ HookPasses(c) \/ HookFails(c) \/ Abandon(c)
         \/ Route(c) \/ Admit(c) \/ Refuse(c) \/ Prepared(c)
         \/ LoopEnds(c) \/ ClearActive(c) \/ BroadcastStarts(c)
         \/ BroadcastEnds(c) \/ Drain(c) \/ RunDeferred(c)
         \/ DeferredReturned(c) \/ DeferredDone(c) \/ Leave(c) \/ LeaveLast(c)
         \/ Submit(c)
  PROVE  DeliveryInv'
<1> USE DEF At, Go, Return, Answered, log, session, run, settle
<1>1. up /\ UNCHANGED << up, mem, disk, stored, keyed, committing, queued >>
  BY DEF Call, Defer, HookPasses, HookFails, Abandon, Route, Admit, Refuse,
         Prepared, LoopEnds, ClearActive, BroadcastStarts, BroadcastEnds,
         Drain, RunDeferred, DeferredReturned, DeferredDone, Leave, LeaveLast,
         Submit
<1>2. /\ up \in BOOLEAN /\ pc \in [ Calls -> Stages ]
      /\ reply \in [ Calls -> Replies ]
  BY DEF DeliveryInv, Typed
<1>3. Typed'
  <2>1. pc' \in [ Calls -> Stages ] /\ reply' \in [ Calls -> Replies ]
    BY <1>2
    DEF Call, Defer, HookPasses, HookFails, Abandon, Route, Admit, Refuse,
        Prepared, LoopEnds, ClearActive, BroadcastStarts, BroadcastEnds,
        Drain, RunDeferred, DeferredReturned, DeferredDone, Leave, LeaveLast,
        Submit, Stages, WorkerStages, OwnerStages, Replies
  <2>2. QED
    BY <1>1, <2>1 DEF DeliveryInv, Typed
<1>4. \A d \in Calls : Carries(d)' => Carries(d)
  BY <1>2
  DEF Call, Defer, HookPasses, HookFails, Abandon, Route, Admit, Refuse,
      Prepared, LoopEnds, ClearActive, BroadcastStarts, BroadcastEnds,
      Drain, RunDeferred, DeferredReturned, DeferredDone, Leave, LeaveLast,
      Submit, Carries, CarryStages
<1>5. \A d \in Calls : pc'[d] \in { "own", "accept", "loop" } =>
        \/ pc'[d] = pc[d]
        \/ d = c /\ pc'[d] = "own" /\ ~AgentBusy(c)
  BY <1>2
  DEF Call, Defer, HookPasses, HookFails, Abandon, Route, Admit, Refuse,
      Prepared, LoopEnds, ClearActive, BroadcastStarts, BroadcastEnds,
      Drain, RunDeferred, DeferredReturned, DeferredDone, Leave, LeaveLast,
      Submit
<1>6. \A d, e \in Calls :
        { pc'[d], pc'[e] } \subseteq { "own", "accept", "loop" } => d = e
  BY <1>5 DEF DeliveryInv, CommittingInv, AgentBusy
<1>7. \A d \in Calls :
        /\ reply'[d] \in { "started", "dupAccepted" } =>
             \/ reply[d] = reply'[d]
             \/ pc[d] \in AfterCommit /\ reply[d] = "none"
        /\ pc'[d] \in AfterCommit /\ reply'[d] = "none" =>
             pc[d] \in AfterCommit /\ reply[d] = "none"
        /\ reply'[d] \in { "handled", "dupHandled", "dupFailed" } =>
             reply[d] = reply'[d]
  BY <1>2
  DEF Call, Defer, HookPasses, HookFails, Abandon, Route, Admit, Refuse,
      Prepared, LoopEnds, ClearActive, BroadcastStarts, BroadcastEnds,
      Drain, RunDeferred, DeferredReturned, DeferredDone, Leave, LeaveLast,
      Submit, AfterCommit
<1>8. AnswersInv'
  BY <1>1, <1>7 DEF DeliveryInv, AnswersInv
<1>9. QED
  BY <1>1, <1>3, <1>4, <1>5, <1>6, <1>8, CallMoves

-----------------------------------------------------------------------------
(* Steps that save the log.                                                *)

\* What a save of the log leaves, when it changes the status of one input.
LEMMA SavedLog ==
  ASSUME DeliveryInv, NEW i \in Inputs, NEW status \in Statuses,
         SaveOk(Set(i, status)) \/ SaveFails(Set(i, status))
  PROVE  /\ mem' \in [ Inputs -> Statuses ] /\ disk' \in [ Inputs -> Statuses ]
         /\ \A j \in Inputs :
              j # i => mem'[j] = mem[j] /\ disk'[j] \in { disk[j], mem[j] }
         /\ mem'[i] \in { mem[i], status } /\ disk'[i] \in { disk[i], status }
         /\ mem'[i] # mem[i] => disk'[i] = mem'[i]
         /\ SaveOk(Set(i, status)) => mem'[i] = status /\ disk'[i] = status
BY DEF DeliveryInv, Typed, SaveOk, SaveFails, Set

\* The log stays true if the new status is, and the old one was not final.
LEMMA SavedLogIsTrue ==
  ASSUME DeliveryInv, up, UNCHANGED << up, stored, keyed >>,
         NEW i \in Inputs, NEW status \in Statuses,
         SaveOk(Set(i, status)) \/ SaveFails(Set(i, status)),
         mem[i] \notin Final, Truthful(status, i)
  PROVE  LogInv' /\ \A j \in Inputs : mem[j] \in Final => mem'[j] = mem[j]
<1>1. /\ \A j \in Inputs :
           j # i => mem'[j] = mem[j] /\ disk'[j] \in { disk[j], mem[j] }
      /\ mem'[i] \in { mem[i], status } /\ disk'[i] \in { disk[i], status }
      /\ mem'[i] # mem[i] => disk'[i] = mem'[i]
  BY SavedLog
<1>2. LogInv
  BY DEF DeliveryInv
<1>3. \A j \in Inputs, s \in Statuses : Truthful(s, j)' <=> Truthful(s, j)
  BY DEF Truthful
<1>4. \A j \in Inputs : Truthful(mem[j], j) /\ Truthful(disk[j], j)
  BY <1>2 DEF LogInv
<1>5. ASSUME NEW j \in Inputs
      PROVE  /\ Truthful(mem'[j], j) /\ Truthful(disk'[j], j)
             /\ mem'[j] \in Final => disk'[j] = mem'[j]
             /\ mem[j] \in Final => mem'[j] = mem[j]
  <2>1. CASE j # i
    BY <1>1, <1>2, <1>4, <2>1 DEF LogInv
  <2>2. CASE j = i
    BY <1>1, <1>2, <1>4, <2>2 DEF LogInv
  <2>3. QED
    BY <2>1, <2>2
<1>6. QED
  BY <1>2, <1>5 DEF LogInv, Truthful

\* The same when the save adds nothing about inputs.
LEMMA SavedAgain ==
  ASSUME DeliveryInv, up, UNCHANGED << up, stored, keyed >>,
         SaveOk(mem) \/ SaveFails(mem)
  PROVE  /\ LogInv' /\ mem' = mem
         /\ disk' \in { disk, mem } /\ disk' \in [ Inputs -> Statuses ]
BY DEF DeliveryInv, Typed, LogInv, Truthful, SaveOk, SaveFails

\* A step by which nobody starts to run the agent.
LEMMA CommittingKept ==
  ASSUME DeliveryInv, UNCHANGED committing,
         \A d \in Calls :
           pc'[d] \in { "own", "accept", "loop" } => pc'[d] = pc[d],
         \A j \in Inputs :
           mem[j] = "delivering" /\ disk[j] = "delivering" /\ stored[j] = 1 /\ j \in keyed
           => mem'[j] = "delivering" /\ disk'[j] = "delivering"
              /\ stored'[j] = 1 /\ j \in keyed'
  PROVE  CommittingInv'
BY DEF DeliveryInv, CommittingInv

\* A step by which nobody is told that an input is in the file.
LEMMA AnswersKept ==
  ASSUME DeliveryInv,
         \A j \in Inputs :
           /\ stored[j] = 1 /\ j \in keyed => stored'[j] = 1 /\ j \in keyed'
           /\ mem[j] \in Final => mem'[j] = mem[j],
         \A d \in Calls :
           /\ reply'[d] \in { "started", "dupAccepted" } => reply[d] = reply'[d]
           /\ pc'[d] \in AfterCommit /\ reply'[d] = "none" =>
                pc[d] \in AfterCommit /\ reply[d] = "none"
           /\ reply'[d] \in { "handled", "dupHandled", "dupFailed" } =>
                \/ reply[d] = reply'[d]
                \/ mem'[InputOf[d]] \in { "handled", "failed" }
  PROVE  AnswersInv'
<1>1. \A d \in Calls : InputOf[d] \in Inputs
  BY InputDeliveryAssumption, InputsOfCalls
<1>2. \A j \in Inputs : mem[j] \in { "handled", "failed" } => mem'[j] = mem[j]
  BY DEF Final
<1>3. QED
  BY <1>1, <1>2 DEF DeliveryInv, AnswersInv

LEMMA BeginStep ==
  ASSUME DeliveryInv, NEW c \in Calls, Begin(c)
  PROVE  DeliveryInv'
<1> DEFINE i == InputOf[c]
<1>0. /\ i \in Inputs /\ up /\ pc[c] = "begin"
      /\ UNCHANGED << up, stored, keyed, queued, committing >>
  BY InputDeliveryAssumption, InputsOfCalls DEF Begin, At, session
<1> HIDE DEF i
<1>1. CASE ~fatal /\ mem[i] = "none"
  <2>1. SaveOk(Set(i, "delivering")) \/ SaveFails(Set(i, "delivering"))
    BY <1>1 DEF Begin, log, i
  <2>2. /\ mem' \in [ Inputs -> Statuses ] /\ disk' \in [ Inputs -> Statuses ]
        /\ \A j \in Inputs :
             j # i => mem'[j] = mem[j] /\ disk'[j] \in { disk[j], mem[j] }
        /\ SaveOk(Set(i, "delivering")) =>
             mem'[i] = "delivering" /\ disk'[i] = "delivering"
    BY <1>0, <2>1, SavedLog DEF Statuses
  <2>3. LogInv' /\ \A j \in Inputs : mem[j] \in Final => mem'[j] = mem[j]
    BY <1>0, <1>1, <2>1, SavedLogIsTrue DEF Statuses, Final, Truthful
  <2>4. stored[i] = 0 /\ i \notin keyed
    BY <1>0, <1>1 DEF DeliveryInv, LogInv, Truthful
  <2>5. \/ /\ SaveOk(Set(i, "delivering")) /\ pc' = [ pc EXCEPT ![c] = "hook" ]
           /\ reply' = reply
        \/ /\ pc' = [ pc EXCEPT ![c] = "returned" ]
           /\ reply' = Answered(c, "error")
    BY <1>1 DEF Begin, log, i, Go, Return
  <2>6. Typed'
    BY <1>0, <2>2, <2>5
    DEF DeliveryInv, Typed, Answered, Replies, Stages
  <2>7. \A d \in Calls : Carries(d) => InputOf[d] # i
    BY <1>1 DEF DeliveryInv, OneCarrier, Undelivered
  <2>8. \A k \in DOMAIN queued : queued[k] # i /\ queued[k] \in Inputs
    BY <1>1 DEF DeliveryInv, Typed, OneCarrier, Undelivered
  <2>9. \A d \in Calls :
          Carries(d)' => Carries(d) \/ (d = c /\ SaveOk(Set(i, "delivering")))
    BY <2>5 DEF DeliveryInv, Typed, Carries, CarryStages
  <2>10. OneCarrier'
    BY <1>0, <2>2, <2>4, <2>7, <2>8, <2>9, InputDeliveryAssumption, InputsOfCalls
    DEF DeliveryInv, OneCarrier, Undelivered, i
  <2>11. CommittingInv'
    <3>1. \A d \in Calls :
            pc'[d] \in { "own", "accept", "loop" } => pc'[d] = pc[d]
      BY <2>5 DEF DeliveryInv, Typed
    <3>2. QED
      BY <1>0, <1>1, <2>2, <3>1, CommittingKept
  <2>12. AnswersInv'
    <3>1. \A d \in Calls :
            /\ reply'[d] = reply[d] \/ reply'[d] = "error"
            /\ pc'[d] = pc[d] \/ pc'[d] \notin AfterCommit
      BY <2>5 DEF DeliveryInv, Typed, Answered, AfterCommit
    <3>2. \A d \in Calls : reply'[d] = "none" => reply[d] = "none"
      BY <3>1
    <3>3. QED
      BY <1>0, <2>3, <3>1, <3>2, AnswersKept
  <2>13. QED
    BY <1>0, <2>3, <2>6, <2>10, <2>11, <2>12 DEF DeliveryInv, DownInv
<1>2. CASE fatal \/ mem[i] # "none"
  <2>1. /\ UNCHANGED << mem, disk >> /\ pc' = [ pc EXCEPT ![c] = "returned" ]
        /\ \/ reply' = Answered(c, "error")
           \/ mem[i] # "none" /\ reply' = Answered(c, DuplicateAnswer(mem[i]))
    BY <1>2 DEF Begin, log, i, Go, Return
  <2>2. mem[i] \in Statuses /\ Truthful(mem[i], i)
    BY <1>0 DEF DeliveryInv, Typed, LogInv
  <2>3. mem[i] # "none" =>
          /\ DuplicateAnswer(mem[i]) \in Replies
          /\ DuplicateAnswer(mem[i]) \notin { "started", "handled" }
          /\ DuplicateAnswer(mem[i]) = "dupAccepted" => mem[i] = "accepted"
          /\ DuplicateAnswer(mem[i]) \in { "dupHandled", "dupFailed" } =>
               mem[i] \in { "handled", "failed" }
    BY <2>2 DEF DuplicateAnswer, Statuses, Replies
  <2>4. mem[i] = "accepted" => stored[i] = 1 /\ i \in keyed
    BY <2>2 DEF Truthful
  <2>5. Typed'
    BY <1>0, <2>1, <2>3 DEF DeliveryInv, Typed, Answered, Replies, Stages
  <2>6. AnswersInv'
    BY <1>0, <2>1, <2>3, <2>4
    DEF DeliveryInv, Typed, AnswersInv, Answered, AfterCommit, i
  <2>7. QED
    BY <1>0, <2>1, <2>5, <2>6, CallMoves
    DEF DeliveryInv, Typed, CommittingInv, Carries, CarryStages
<1>3. QED
  BY <1>1, <1>2

\* A call that gives up its input and marks it in the log.
LEMMA GivesUp ==
  ASSUME DeliveryInv, NEW c \in Calls, up, Carries(c),
         NEW status \in { "handled", "failed" }, NEW answer \in Replies,
         NEW stage \in { "returned", "leave" },
         \/ SaveOk(Set(InputOf[c], status))
         \/ SaveFails(Set(InputOf[c], status)) /\ answer = "error",
         Go(c, stage), reply' = Answered(c, answer),
         answer \in { "handled", "error" },
         UNCHANGED << up, stored, keyed, queued, committing >>
  PROVE  DeliveryInv'
<1> DEFINE i == InputOf[c]
<1>0. i \in Inputs
  BY InputDeliveryAssumption, InputsOfCalls
<1>1. mem[i] = "delivering" /\ stored[i] = 0
  BY DEF DeliveryInv, OneCarrier, Undelivered
<1>2. /\ mem' \in [ Inputs -> Statuses ] /\ disk' \in [ Inputs -> Statuses ]
      /\ \A j \in Inputs :
           j # i => mem'[j] = mem[j] /\ disk'[j] \in { disk[j], mem[j] }
      /\ SaveOk(Set(i, status)) => mem'[i] = status
  BY <1>0, SavedLog DEF Statuses
<1>3. LogInv' /\ \A j \in Inputs : mem[j] \in Final => mem'[j] = mem[j]
  BY <1>0, <1>1, SavedLogIsTrue DEF Statuses, Final, Truthful
<1> HIDE DEF i
<1>4. Typed'
  BY <1>2 DEF DeliveryInv, Typed, Go, Answered, Replies, Stages, WorkerStages
<1>5. OneCarrier'
  <2>1. \A d \in Calls : Carries(d)' => Carries(d) /\ d # c
    BY DEF DeliveryInv, Typed, Carries, CarryStages, Go
  <2>2. \A d \in Calls : Carries(d)' => InputOf[d] # i /\ InputOf[d] \in Inputs
    BY <2>1, InputDeliveryAssumption, InputsOfCalls DEF DeliveryInv, OneCarrier, i
  <2>3. \A k \in DOMAIN queued : queued[k] # i /\ queued[k] \in Inputs
    BY DEF DeliveryInv, Typed, OneCarrier, i
  <2>4. QED
    BY <1>2, <2>1, <2>2, <2>3 DEF DeliveryInv, OneCarrier, Undelivered
<1>6. CommittingInv'
  <2>1. \A d \in Calls :
          pc'[d] \in { "own", "accept", "loop" } => pc'[d] = pc[d]
    BY DEF DeliveryInv, Typed, Go
  <2>2. QED
    BY <1>1, <1>2, <2>1, CommittingKept
<1>7. AnswersInv'
  <2>1. \A d \in Calls :
          /\ reply'[d] \in { "started", "dupAccepted" } => reply[d] = reply'[d]
          /\ pc'[d] \in AfterCommit /\ reply'[d] = "none" =>
               pc[d] \in AfterCommit /\ reply[d] = "none"
    BY DEF DeliveryInv, Typed, Answered, AfterCommit, Go
  <2>2. \A d \in Calls :
          reply'[d] \in { "handled", "dupHandled", "dupFailed" } =>
            \/ reply[d] = reply'[d]
            \/ d = c /\ SaveOk(Set(InputOf[c], status))
    BY DEF DeliveryInv, Typed, Answered
  <2>3. QED
    BY <1>2, <1>3, <2>1, <2>2, AnswersKept DEF i
<1>8. QED
  BY <1>3, <1>4, <1>5, <1>6, <1>7 DEF DeliveryInv, DownInv

LEMMA MarkSteps ==
  ASSUME DeliveryInv, NEW c \in Calls,
         Handled(c) \/ Rejected(c) \/ PrepareFails(c)
  PROVE  DeliveryInv'
<1>1. up /\ Carries(c)
  BY DEF Handled, Rejected, PrepareFails, At, Carries, CarryStages
<1>2. UNCHANGED << up, stored, keyed, queued, committing >>
  BY DEF Handled, Rejected, PrepareFails, session
<1>3. CASE Handled(c)
  BY <1>1, <1>2, <1>3, GivesUp DEF Handled, Return, Replies
<1>4. CASE Rejected(c)
  BY <1>1, <1>2, <1>4, GivesUp DEF Rejected, MarkFailed, Return, Replies
<1>5. CASE PrepareFails(c)
  BY <1>1, <1>2, <1>5, GivesUp DEF PrepareFails, MarkFailed, Replies
<1>6. QED
  BY <1>3, <1>4, <1>5

\* The log is saved at both ends of a run, with nothing new about inputs.
LEMMA RunSaves ==
  ASSUME DeliveryInv, NEW c \in Calls, StartRun(c) \/ FinishRun(c)
  PROVE  DeliveryInv'
<1>1. /\ up /\ UNCHANGED << up, stored, keyed, queued, committing >>
      /\ pc[c] \in { "log", "finish" }
  BY DEF StartRun, FinishRun, At, session
<1>2. \/ UNCHANGED << mem, disk >> \/ SaveOk(mem) \/ SaveFails(mem)
  BY DEF StartRun, FinishRun, log
<1>3. /\ LogInv' /\ mem' = mem
      /\ disk' \in { disk, mem } /\ disk' \in [ Inputs -> Statuses ]
  BY <1>1, <1>2, SavedAgain DEF DeliveryInv, Typed, LogInv, Truthful
<1>4. \/ pc[c] = "log" /\ pc' = [ pc EXCEPT ![c] = "submit" ] /\ reply' = reply
      \/ /\ pc[c] = "log" /\ pc' = [ pc EXCEPT ![c] = "leave" ]
         /\ reply' = Answered(c, "error")
      \/ pc[c] = "finish" /\ pc' = [ pc EXCEPT ![c] = "settle" ] /\ reply' = reply
  BY DEF StartRun, FinishRun, At, Go
<1>5. Typed'
  BY <1>1, <1>3, <1>4
  DEF DeliveryInv, Typed, Answered, Replies, Stages, WorkerStages, OwnerStages
<1>6. \A d \in Calls : Carries(d)' => Carries(d)
  BY <1>4 DEF DeliveryInv, Typed, Carries, CarryStages
<1>7. OneCarrier'
  <2>1. \A j \in Inputs : Undelivered(j) => Undelivered(j)'
    BY <1>1, <1>3 DEF Undelivered
  <2>2. /\ \A d \in Calls : InputOf[d] \in Inputs
        /\ \A k \in DOMAIN queued : queued[k] \in Inputs
    BY InputDeliveryAssumption, InputsOfCalls DEF DeliveryInv, Typed
  <2>3. QED
    BY <1>1, <1>6, <2>1, <2>2 DEF DeliveryInv, OneCarrier
<1>8. CommittingInv'
  BY <1>1, <1>3, <1>4 DEF DeliveryInv, Typed, CommittingInv
<1>9. AnswersInv'
  BY <1>1, <1>3, <1>4 DEF DeliveryInv, Typed, AnswersInv, Answered, AfterCommit
<1>10. QED
  BY <1>1, <1>3, <1>5, <1>7, <1>8, <1>9 DEF DeliveryInv, DownInv

-----------------------------------------------------------------------------
(* Steps that bring an input to the session file.                          *)

LEMMA StoredOnce ==
  ASSUME DeliveryInv, NEW i \in Inputs, Undelivered(i), Stores(i),
         UNCHANGED << up, mem, disk >>
  PROVE  /\ LogInv'
         /\ stored' \in [ Inputs -> Nat ] /\ keyed' \in SUBSET Inputs
         /\ stored'[i] = 1 /\ i \in keyed'
         /\ \A j \in Inputs :
              /\ j # i => stored'[j] = stored[j] /\ (j \in keyed' <=> j \in keyed)
              /\ stored[j] = 1 /\ j \in keyed => stored'[j] = 1 /\ j \in keyed'
<1>1. /\ mem[i] = "delivering" /\ disk[i] = "delivering" /\ stored[i] = 0
      /\ stored \in [ Inputs -> Nat ] /\ keyed \subseteq Inputs
  BY DEF Undelivered, DeliveryInv, Typed
<1>2. /\ stored' \in [ Inputs -> Nat ] /\ keyed' \in SUBSET Inputs
      /\ stored'[i] = 1 /\ i \in keyed'
      /\ \A j \in Inputs :
           j # i => stored'[j] = stored[j] /\ (j \in keyed' <=> j \in keyed)
  BY <1>1 DEF Stores
<1>3. LogInv'
  BY <1>1, <1>2 DEF DeliveryInv, LogInv, Truthful, Final
<1>4. QED
  BY <1>1, <1>2, <1>3

\* The step from a call's hands to the agent's queue.
LEMMA EnqueueStep ==
  ASSUME DeliveryInv, NEW c \in Calls, Enqueue(c)
  PROVE  DeliveryInv'
<1> DEFINE i == InputOf[c]
<1>0. i \in Inputs /\ \A d \in Calls : InputOf[d] \in Inputs
  BY InputDeliveryAssumption, InputsOfCalls
<1>1. /\ up /\ pc[c] = "enqueue" /\ Carries(c)
      /\ UNCHANGED << up, mem, disk, stored, keyed, committing >>
      /\ pc' = [ pc EXCEPT ![c] = "returned" ]
      /\ reply' = Answered(c, "queued")
  BY DEF Enqueue, At, log, session, Return, Go, Carries, CarryStages
<1>2. queued' = Append(queued, i) /\ queued \in Seq(Inputs)
  BY DEF Enqueue, DeliveryInv, Typed
<1>3. PICK q \in Seq(Inputs) :
        /\ q = queued'
        /\ \A k \in DOMAIN q :
             \/ k \in DOMAIN queued /\ q[k] = queued[k]
             \/ k = Len(queued) + 1 /\ q[k] = i
  <2> HIDE DEF i
  <2>1. QED
    BY <1>0, <1>2, AppendedQueue, Zenon
<1>4. /\ Undelivered(i)
      /\ \A k \in DOMAIN queued : queued[k] # i
      /\ \A d \in Calls : Carries(d) /\ d # c => InputOf[d] # i
  BY <1>1 DEF DeliveryInv, OneCarrier
<1> HIDE DEF i
<1>5. Typed'
  BY <1>1, <1>3 DEF DeliveryInv, Typed, Answered, Replies, Stages
<1>6. \A d \in Calls : Carries(d)' => Carries(d) /\ d # c
  BY <1>1 DEF DeliveryInv, Typed, Carries, CarryStages
<1>7. OneCarrier'
  <2>1. /\ \A d \in Calls : Carries(d)' =>
             /\ Undelivered(InputOf[d])
             /\ \A k \in DOMAIN q : q[k] # InputOf[d]
        /\ \A k \in DOMAIN q : Undelivered(q[k])
        /\ \A j, k \in DOMAIN q : q[j] = q[k] => j = k
    BY <1>3, <1>4, <1>6 DEF DeliveryInv, OneCarrier
  <2>2. QED
    BY <1>1, <1>3, <1>6, <2>1 DEF DeliveryInv, OneCarrier, Undelivered
<1>8. CommittingInv'
  <2>1. \A d \in Calls : pc'[d] \in { "own", "accept", "loop" } => pc'[d] = pc[d]
    BY <1>1 DEF DeliveryInv, Typed
  <2>2. QED
    BY <1>1, <2>1, CommittingKept
<1>9. AnswersInv'
  <2>1. \A d \in Calls :
          /\ reply'[d] = reply[d] \/ reply'[d] = "queued"
          /\ reply'[d] = "none" => reply[d] = "none"
          /\ pc'[d] = pc[d] \/ pc'[d] \notin AfterCommit
    BY <1>1 DEF DeliveryInv, Typed, Answered, AfterCommit
  <2>2. QED
    BY <1>1, <2>1, AnswersKept
<1>10. LogInv'
  BY <1>1 DEF DeliveryInv, LogInv, Truthful
<1>11. QED
  BY <1>1, <1>5, <1>7, <1>8, <1>9, <1>10 DEF DeliveryInv, DownInv

\* A call that runs the agent brings its own input.
LEMMA CommitOwnStep ==
  ASSUME DeliveryInv, NEW c \in Calls, CommitOwn(c) \/ CommitOwnFails(c)
  PROVE  DeliveryInv'
<1> DEFINE i == InputOf[c]
<1>0. i \in Inputs /\ \A d \in Calls : InputOf[d] \in Inputs
  BY InputDeliveryAssumption, InputsOfCalls
<1>1. /\ up /\ pc[c] = "own" /\ Carries(c)
      /\ UNCHANGED << up, mem, disk, queued >>
  BY DEF CommitOwn, CommitOwnFails, At, log, Carries, CarryStages
<1>2. /\ Undelivered(i)
      /\ \A k \in DOMAIN queued : queued[k] # i /\ queued[k] \in Inputs
      /\ \A d \in Calls : Carries(d) /\ d # c => InputOf[d] # i
  BY <1>1 DEF DeliveryInv, Typed, OneCarrier
<1>3. /\ LogInv'
      /\ stored' \in [ Inputs -> Nat ] /\ keyed' \in SUBSET Inputs
      /\ \A j \in Inputs :
           /\ j # i => stored'[j] = stored[j] /\ (j \in keyed' <=> j \in keyed)
           /\ stored[j] = 1 /\ j \in keyed => stored'[j] = 1 /\ j \in keyed'
      /\ CommitOwn(c) => stored'[i] = 1 /\ i \in keyed'
  <2>1. CASE Stores(i)
    BY <1>0, <1>1, <1>2, <2>1, StoredOnce
  <2>2. CASE UNCHANGED session /\ ~CommitOwn(c)
    BY <1>1, <2>2 DEF session, DeliveryInv, Typed, LogInv, Truthful
  <2>3. QED
    BY <2>1, <2>2 DEF CommitOwn, CommitOwnFails, Commit, CommitFails, At, Stores, Go, session
<1>4. /\ \/ /\ CommitOwn(c) /\ pc' = [ pc EXCEPT ![c] = "accept" ]
            /\ reply' = reply /\ committing' = i
         \/ /\ pc' = [ pc EXCEPT ![c] = "finish" ] /\ committing' = committing
            /\ reply' = Answered(c, "error")
  BY DEF CommitOwn, CommitOwnFails, Commit, Go
<1> HIDE DEF i
<1>5. Typed'
  BY <1>1, <1>3, <1>4
  DEF DeliveryInv, Typed, Answered, Replies, Stages, WorkerStages, OwnerStages
<1>6. \A d \in Calls : Carries(d)' => Carries(d) /\ d # c
  BY <1>4 DEF DeliveryInv, Typed, Carries, CarryStages
<1>7. OneCarrier'
  <2>1. \A j \in Inputs : j # i /\ Undelivered(j) => Undelivered(j)'
    BY <1>1, <1>3 DEF Undelivered
  <2>2. QED
    BY <1>0, <1>1, <1>2, <1>6, <2>1 DEF DeliveryInv, OneCarrier
<1>8. CommittingInv'
  <2>1. \A d \in Calls \ { c } : pc[d] \notin { "own", "accept", "loop" }
    BY <1>1 DEF DeliveryInv, CommittingInv
  <2>2. \A d \in Calls : pc'[d] \in { "own", "accept", "loop" } =>
          d = c /\ CommitOwn(c) /\ committing' = i
    BY <1>4, <2>1 DEF DeliveryInv, Typed
  <2>3. QED
    BY <1>0, <1>1, <1>2, <1>3, <2>2 DEF CommittingInv, Undelivered
<1>9. AnswersInv'
  <2>1. CASE CommitOwn(c) /\ reply' = reply /\ pc' = [ pc EXCEPT ![c] = "accept" ]
    BY <1>0, <1>1, <1>3, <2>1 DEF DeliveryInv, Typed, AnswersInv, AfterCommit, i
  <2>2. CASE reply' = Answered(c, "error") /\ pc' = [ pc EXCEPT ![c] = "finish" ]
    <3>1. /\ reply'[c] # "none"
          /\ \A d \in Calls : reply'[d] = reply[d] \/ reply'[d] = "error"
          /\ \A d \in Calls \ { c } : reply'[d] = reply[d] /\ pc'[d] = pc[d]
      BY <2>2 DEF DeliveryInv, Typed, Answered
    <3>2. QED
      BY <1>0, <1>1, <1>3, <3>1, AnswersKept
  <2>3. QED
    BY <1>4, <2>1, <2>2
<1>10. QED
  BY <1>1, <1>3, <1>5, <1>7, <1>8, <1>9 DEF DeliveryInv, DownInv

\* The run brings the next input of the queue.
LEMMA CommitQueuedStep ==
  ASSUME DeliveryInv, NEW c \in Calls, CommitQueued(c) \/ CommitQueuedFails(c)
  PROVE  DeliveryInv'
<1>0. queued # << >> /\ queued \in Seq(Inputs) /\ queued' = Tail(queued)
  BY DEF CommitQueued, CommitQueuedFails, DeliveryInv, Typed
<1>1. PICK i \in Inputs, q \in Seq(Inputs) :
        /\ i = Head(queued) /\ q = queued'
        /\ 1 \in DOMAIN queued /\ i = queued[1]
        /\ \A k \in DOMAIN q :
             /\ k \in Nat /\ k + 1 \in DOMAIN queued /\ k + 1 # 1
             /\ q[k] = queued[k + 1]
  <2>1. /\ Head(queued) \in Inputs /\ Tail(queued) \in Seq(Inputs)
        /\ 1 \in DOMAIN queued /\ Head(queued) = queued[1]
        /\ \A k \in DOMAIN Tail(queued) :
             /\ k \in Nat /\ k + 1 \in DOMAIN queued /\ k + 1 # 1
             /\ Tail(queued)[k] = queued[k + 1]
    BY <1>0, ShorterQueue
  <2>2. QED
    BY <1>0, <2>1, Zenon
<1>2. /\ up /\ pc[c] = "loop"
      /\ UNCHANGED << up, mem, disk >>
  BY DEF CommitQueued, CommitQueuedFails, At, log
<1>3. /\ Undelivered(i)
      /\ \A k \in DOMAIN q : q[k] # i /\ q[k] \in Inputs /\ Undelivered(q[k])
      /\ \A d \in Calls : Carries(d) => InputOf[d] # i
      /\ \A d \in Calls, k \in DOMAIN q : Carries(d) => q[k] # InputOf[d]
      /\ \A j, k \in DOMAIN q : q[j] = q[k] => j = k
  BY <1>1 DEF DeliveryInv, Typed, OneCarrier
<1>4. /\ LogInv'
      /\ stored' \in [ Inputs -> Nat ] /\ keyed' \in SUBSET Inputs
      /\ \A j \in Inputs :
           /\ j # i => stored'[j] = stored[j] /\ (j \in keyed' <=> j \in keyed)
           /\ stored[j] = 1 /\ j \in keyed => stored'[j] = 1 /\ j \in keyed'
      /\ CommitQueued(c) => stored'[i] = 1 /\ i \in keyed'
  <2>1. CASE Stores(i)
    BY <1>2, <1>3, <2>1, StoredOnce
  <2>2. CASE UNCHANGED session /\ ~CommitQueued(c)
    BY <1>2, <2>2 DEF session, DeliveryInv, Typed, LogInv, Truthful
  <2>3. QED
    BY <1>1, <2>1, <2>2 DEF CommitQueued, CommitQueuedFails, Commit, CommitFails
<1>5. /\ \/ /\ CommitQueued(c) /\ pc' = [ pc EXCEPT ![c] = "accept" ]
            /\ reply' = reply /\ committing' = i
         \/ /\ pc' = [ pc EXCEPT ![c] = "finish" ] /\ committing' = committing
            /\ reply' = Answered(c, "error")
  BY <1>1 DEF CommitQueued, CommitQueuedFails, Commit, Go
<1>6. Typed'
  BY <1>1, <1>2, <1>4, <1>5
  DEF DeliveryInv, Typed, Answered, Replies, Stages, WorkerStages, OwnerStages
<1>7. OneCarrier'
  <2>1. \A d \in Calls : Carries(d)' => Carries(d) /\ InputOf[d] \in Inputs
    BY <1>5, InputDeliveryAssumption, InputsOfCalls DEF DeliveryInv, Typed, Carries, CarryStages
  <2>2. \A j \in Inputs : j # i /\ Undelivered(j) => Undelivered(j)'
    BY <1>2, <1>4 DEF Undelivered
  <2>3. /\ \A d \in Calls : Carries(d)' =>
             /\ Undelivered(InputOf[d])'
             /\ \A k \in DOMAIN q : q[k] # InputOf[d]
        /\ \A d, e \in Calls :
             Carries(d)' /\ Carries(e)' /\ InputOf[d] = InputOf[e] => d = e
    BY <1>3, <2>1, <2>2 DEF DeliveryInv, OneCarrier
  <2>4. \A k \in DOMAIN q : Undelivered(q[k])'
    BY <1>3, <2>2
  <2>5. QED
    BY <1>1, <1>3, <2>3, <2>4 DEF OneCarrier
<1>8. CommittingInv'
  <2>1. \A d \in Calls \ { c } : pc[d] \notin { "own", "accept", "loop" }
    BY <1>2 DEF DeliveryInv, CommittingInv
  <2>2. \A d \in Calls : pc'[d] \in { "own", "accept", "loop" } =>
          d = c /\ CommitQueued(c) /\ committing' = i
    BY <1>5, <2>1 DEF DeliveryInv, Typed
  <2>3. QED
    BY <1>2, <1>3, <1>4, <2>2 DEF CommittingInv, Undelivered
<1>9. AnswersInv'
  <2>1. \A d \in Calls :
          /\ reply'[d] = reply[d] \/ reply'[d] = "error"
          /\ reply'[d] = "none" => reply[d] = "none"
          /\ pc'[d] = pc[d] \/ pc[d] \in AfterCommit
    BY <1>2, <1>5 DEF DeliveryInv, Typed, Answered, AfterCommit
  <2>2. QED
    BY <1>2, <1>4, <2>1, AnswersKept
<1>10. QED
  BY <1>2, <1>4, <1>6, <1>7, <1>8, <1>9 DEF DeliveryInv, DownInv

\* The log learns that the input is in the file.
LEMMA AcceptStep ==
  ASSUME DeliveryInv, NEW c \in Calls, AcceptInput(c)
  PROVE  DeliveryInv'
<1> DEFINE i == committing
<1>1. /\ up /\ pc[c] = "accept" /\ UNCHANGED << up, stored, keyed, queued >>
      /\ SaveOk(Set(i, "accepted")) \/ SaveFails(Set(i, "accepted"))
      /\ \/ pc' = [ pc EXCEPT ![c] = "loop" ] /\ reply' = reply
         \/ /\ pc' = [ pc EXCEPT ![c] = "finish" ]
            /\ reply' = Answered(c, "error")
  BY DEF AcceptInput, At, session, Go
<1>2. /\ i \in Inputs /\ mem[i] = "delivering" /\ stored[i] = 1 /\ i \in keyed
      /\ \A d \in Calls \ { c } : pc[d] \notin { "own", "accept", "loop" }
  BY <1>1 DEF DeliveryInv, CommittingInv
<1> HIDE DEF i
<1>3. /\ mem' \in [ Inputs -> Statuses ] /\ disk' \in [ Inputs -> Statuses ]
      /\ \A j \in Inputs :
           j # i => mem'[j] = mem[j] /\ disk'[j] \in { disk[j], mem[j] }
  BY <1>1, <1>2, SavedLog DEF Statuses
<1>4. LogInv' /\ \A j \in Inputs : mem[j] \in Final => mem'[j] = mem[j]
  BY <1>1, <1>2, SavedLogIsTrue DEF Statuses, Final, Truthful
<1>5. Typed'
  BY <1>1, <1>3
  DEF DeliveryInv, Typed, Answered, Replies, Stages, WorkerStages, OwnerStages
<1>6. OneCarrier'
  <2>1. \A d \in Calls : Carries(d)' => Carries(d) /\ InputOf[d] \in Inputs
    BY <1>1, InputDeliveryAssumption, InputsOfCalls DEF DeliveryInv, Typed, Carries, CarryStages
  <2>2. \A j \in Inputs : Undelivered(j) => Undelivered(j)'
    BY <1>1, <1>2, <1>3 DEF Undelivered
  <2>3. \A k \in DOMAIN queued : queued[k] \in Inputs
    BY DEF DeliveryInv, Typed
  <2>4. QED
    BY <1>1, <2>1, <2>2, <2>3 DEF DeliveryInv, OneCarrier
<1>7. CommittingInv'
  BY <1>1, <1>2 DEF DeliveryInv, Typed, CommittingInv
<1>8. AnswersInv'
  <2>1. \A d \in Calls :
          /\ reply'[d] = reply[d] \/ reply'[d] = "error"
          /\ reply'[d] = "none" => reply[d] = "none"
          /\ pc'[d] = pc[d] \/ pc[d] \in AfterCommit
    BY <1>1 DEF DeliveryInv, Typed, Answered, AfterCommit
  <2>2. QED
    BY <1>1, <1>4, <2>1, AnswersKept
<1>9. QED
  BY <1>1, <1>4, <1>5, <1>6, <1>7, <1>8 DEF DeliveryInv, DownInv

-----------------------------------------------------------------------------
(* What happens around the calls.                                          *)

LEMMA AroundSteps ==
  ASSUME DeliveryInv, Abort \/ ClearQueue
  PROVE  DeliveryInv'
<1>1. /\ up
      /\ UNCHANGED << up, mem, disk, stored, keyed, pc, reply, committing >>
      /\ queued' \in { queued, << >> }
  BY DEF Abort, ClearQueue, log, session
<1>2. DOMAIN << >> = { } /\ queued' \in Seq(Inputs)
  BY <1>1, NoQueue DEF DeliveryInv, Typed
<1>3. Typed' /\ LogInv'
  BY <1>1, <1>2 DEF DeliveryInv, Typed, LogInv, Truthful
<1>4. OneCarrier'
  BY <1>1, <1>2 DEF DeliveryInv, OneCarrier, Carries, Undelivered
<1>5. CommittingInv' /\ AnswersInv' /\ DownInv'
  BY <1>1 DEF DeliveryInv, CommittingInv, AnswersInv, DownInv
<1>6. QED
  BY <1>3, <1>4, <1>5 DEF DeliveryInv

\* A crash loses what was on its way and nothing that was recorded.
LEMMA CrashSteps ==
  ASSUME DeliveryInv,
         Crash \/ \E c \in Calls : CrashInFirstCommit(c)
  PROVE  DeliveryInv'
<1>1. /\ up' = FALSE /\ queued' = << >> /\ UNCHANGED << mem, disk, keyed, reply >>
      /\ pc' = [ c \in Calls |->
                   IF pc[c] \in { "idle", "returned", "gone" } THEN pc[c]
                   ELSE "lost" ]
  BY DEF Crash, CrashInFirstCommit, Fall, log, session
<1>2. \/ stored' = stored
      \/ \E i \in Inputs :
           Undelivered(i) /\ stored' = [ stored EXCEPT ![i] = @ + 1 ]
  BY InputDeliveryAssumption, InputsOfCalls
  DEF Crash, CrashInFirstCommit, session, DeliveryInv, OneCarrier, Carries,
      CarryStages, At
<1>3. Typed'
  <2>1. pc' \in [ Calls -> Stages ]
    BY <1>1 DEF DeliveryInv, Typed, Stages
  <2>2. stored' \in [ Inputs -> Nat ]
    BY <1>2 DEF DeliveryInv, Typed
  <2>3. QED
    BY <1>1, <2>1, <2>2, NoQueue DEF DeliveryInv, Typed
<1>4. OneCarrier' /\ CommittingInv' /\ DownInv'
  BY <1>1, NoQueue
  DEF OneCarrier, CommittingInv, DownInv, Carries, CarryStages
<1>5. LogInv'
  BY <1>1, <1>2
  DEF DeliveryInv, Typed, LogInv, Truthful, Undelivered, Final
<1>6. AnswersInv'
  <2>1. \A j \in Inputs : stored[j] = 1 => stored'[j] = 1
    BY <1>2 DEF DeliveryInv, Typed, Undelivered
  <2>2. \A d \in Calls : pc'[d] \notin AfterCommit
    BY <1>1 DEF AfterCommit
  <2>3. QED
    BY <1>1, <2>1, <2>2, AnswersKept
<1>7. QED
  BY <1>3, <1>4, <1>5, <1>6 DEF DeliveryInv

LEMMA ReopenStep ==
  ASSUME DeliveryInv, Reopen
  PROVE  DeliveryInv' /\ \A i \in Inputs : mem[i] \in Final => mem'[i] = mem[i]
<1>1. /\ ~up /\ up' \in BOOLEAN
      /\ UNCHANGED << stored, keyed, pc, reply, committing, queued >>
  BY DEF Reopen, session, DeliveryInv, Typed
<1>2. /\ \A c \in Calls : pc[c] \in { "idle", "returned", "gone", "lost" }
      /\ queued = << >> /\ DOMAIN << >> = { }
  BY <1>1, NoQueue DEF DeliveryInv, DownInv
<1>3. /\ Reconciled \in [ Inputs -> Statuses ]
      /\ \A i \in Inputs :
           /\ Truthful(Reconciled[i], i)
           /\ disk[i] \in Final => Reconciled[i] = disk[i]
  BY DEF Reconciled, Statuses, Final, DeliveryInv, Typed, LogInv, Truthful
<1>4. \/ mem' = Reconciled /\ disk' = Reconciled
      \/ ~up' /\ mem' = mem /\ disk' \in { disk, Reconciled }
  BY <1>1 DEF Reopen, SaveOk, SaveFails
<1>5. \A i \in Inputs : mem[i] \in Final =>
        mem'[i] = mem[i] /\ disk'[i] = mem[i]
  BY <1>3, <1>4 DEF DeliveryInv, LogInv
<1>6. Typed'
  BY <1>1, <1>3, <1>4 DEF DeliveryInv, Typed
<1>7. OneCarrier' /\ CommittingInv' /\ DownInv'
  BY <1>1, <1>2 DEF OneCarrier, CommittingInv, DownInv, Carries, CarryStages
<1>8. LogInv'
  BY <1>1, <1>3, <1>4, <1>5 DEF DeliveryInv, LogInv, Truthful
<1>9. AnswersInv'
  BY <1>1, <1>5, AnswersKept
<1>10. QED
  BY <1>5, <1>6, <1>7, <1>8, <1>9 DEF DeliveryInv

-----------------------------------------------------------------------------
LEMMA DeliveryStep == DeliveryInv /\ [Next]_vars => DeliveryInv'
<1> SUFFICES ASSUME DeliveryInv, [Next]_vars
             PROVE  DeliveryInv'
  OBVIOUS
<1>1. ASSUME NEW c \in Calls, Call(c) \/ CallStep(c) \/ Abandon(c)
      PROVE  DeliveryInv'
  BY <1>1, MoveSteps, BeginStep, MarkSteps, RunSaves, EnqueueStep,
     CommitOwnStep, CommitQueuedStep, AcceptStep, Zenon DEF CallStep
<1>2. CASE UNCHANGED vars
  BY <1>2
  DEF vars, log, session, DeliveryInv, Typed, OneCarrier, CommittingInv, LogInv,
      AnswersInv, DownInv, Carries, Undelivered, Truthful
<1>3. QED
  BY <1>1, <1>2, AroundSteps, CrashSteps, ReopenStep DEF Next

\* For any calls and inputs, however often an input comes again: its message is
\* in the session file once at the most, and the log in memory and on disk, the
\* file and every answer ever given agree, wherever a save or a commit fails.
THEOREM RecordsAlwaysAgree == Spec => []RecordsAgree
<1>1. DeliveryInv => LogMatchesFile
  BY DEF DeliveryInv, LogInv, LogMatchesFile
<1>2. DeliveryInv => RepliesStayTrue
  <2> SUFFICES ASSUME DeliveryInv, NEW c \in Calls,
                      reply[c] \in { "handled", "dupHandled", "dupFailed" }
               PROVE  stored[InputOf[c]] = 0
    BY DEF DeliveryInv, AnswersInv, RepliesStayTrue
  <2>1. InputOf[c] \in Inputs /\ mem[InputOf[c]] \in { "handled", "failed" }
    BY InputDeliveryAssumption, InputsOfCalls DEF DeliveryInv, AnswersInv
  <2>2. Truthful(mem[InputOf[c]], InputOf[c])
    BY <2>1 DEF DeliveryInv, LogInv, Final
  <2>3. QED
    BY <2>1, <2>2 DEF Truthful
<1>3. DeliveryInv => RecordsAgree
  BY <1>1, <1>2 DEF RecordsAgree, AtMostOnce, DeliveryInv, LogInv
<1>4. QED
  BY <1>3, DeliveryStarts, DeliveryStep, PTL DEF Spec

\* A save changes only inputs that nobody has been told an outcome of.
LEMMA FinalStep ==
  ASSUME DeliveryInv, [Next]_vars
  PROVE  \A i \in Inputs : mem[i] \in Final => mem'[i] = mem[i]
<1> DEFINE Kept == \A i \in Inputs : mem[i] \in Final => mem'[i] = mem[i]
<1>1. ASSUME NEW i \in Inputs, NEW status \in Statuses, mem[i] \notin Final,
             SaveOk(Set(i, status)) \/ SaveFails(Set(i, status))
      PROVE  Kept
  BY <1>1, SavedLog, Zenon
<1>2. SaveOk(mem) \/ SaveFails(mem) => Kept
  BY DEF SaveOk, SaveFails
<1>3. ASSUME NEW c \in Calls, CallStep(c), ~UNCHANGED mem
      PROVE  Kept
  <2>0. InputOf[c] \in Inputs
    BY InputDeliveryAssumption, InputsOfCalls
  <2>1. ASSUME Begin(c)
        PROVE  Kept
    BY <1>1, <1>3, <2>0, <2>1 DEF Begin, log, Statuses, Final
  <2>2. ASSUME Handled(c) \/ Rejected(c) \/ PrepareFails(c)
        PROVE  Kept
    <3>1. mem[InputOf[c]] = "delivering"
      BY <2>2
      DEF Handled, Rejected, PrepareFails, At, DeliveryInv, OneCarrier,
          Undelivered, Carries, CarryStages
    <3>2. QED
      BY <1>1, <2>0, <2>2, <3>1
      DEF Handled, Rejected, PrepareFails, MarkFailed, Statuses, Final
  <2>3. ASSUME AcceptInput(c)
        PROVE  Kept
    <3>1. committing \in Inputs /\ mem[committing] = "delivering"
      BY <2>3 DEF AcceptInput, At, DeliveryInv, CommittingInv
    <3>2. QED
      BY <1>1, <2>3, <3>1 DEF AcceptInput, Statuses, Final
  <2>4. ASSUME StartRun(c) \/ FinishRun(c)
        PROVE  Kept
    BY <1>2, <1>3, <2>4 DEF StartRun, FinishRun, log
  <2>5. QED
    BY <1>3, <2>1, <2>2, <2>3, <2>4
    DEF CallStep, Defer, HookPasses, HookFails, Route, Enqueue, Admit, Refuse,
        Prepared, Submit, CommitOwn, CommitOwnFails, CommitQueued,
        CommitQueuedFails, LoopEnds, ClearActive, BroadcastStarts,
        BroadcastEnds, Drain, RunDeferred, DeferredReturned, DeferredDone,
        Leave, LeaveLast, log
<1>4. QED
  BY <1>3, ReopenStep
  DEF Next, Call, Abandon, CrashInFirstCommit, Abort, ClearQueue, Crash, vars,
      log

\* For any calls and inputs: what the log says an input came to is never
\* revised, by no save that fails half way and no crash and reconciliation.
THEOREM OutcomesNeverChange == Spec => OutcomesAreFinal
<1>1. DeliveryInv /\ [Next]_vars =>
        [\A i \in Inputs : mem[i] \in Final => mem'[i] = mem[i]]_vars
  BY FinalStep
<1>2. QED
  BY <1>1, DeliveryStarts, DeliveryStep, PTL DEF Spec, OutcomesAreFinal

-----------------------------------------------------------------------------
(* The active flag has an owner.                                           *)

\* A call that is in no list moves on.
LEMMA ListsKept ==
  ASSUME FlagInv, slot' \in BOOLEAN, UNCHANGED << deferred, drained >>,
         NEW c \in Calls, NEW stage \in Stages \ { "idle", "awaiting" },
         pc' = [ pc EXCEPT ![c] = stage ],
         pc[c] \notin { "deferred", "awaiting" },
         stage = "defer" => pc[c] = "idle"
  PROVE  ListsTyped' /\ ListedInv'
<1>1. /\ pc \in [ Calls -> Stages ]
      /\ \A d \in Calls : d # c => pc'[d] = pc[d]
      /\ pc'[c] = stage
  BY DEF FlagInv, ListsTyped
<1>2. ListsTyped'
  BY DEF FlagInv, ListsTyped
<1>3. /\ \A k \in DOMAIN deferred : deferred[k] \in Calls
      /\ \A d \in Calls : \A k \in DOMAIN drained[d] : drained[d][k] \in Calls
  BY DEF FlagInv, ListsTyped
<1>4. /\ \A k \in DOMAIN deferred : pc'[deferred[k]] = "deferred"
      /\ \A d \in Calls : \A k \in DOMAIN drained[d] :
           /\ Awaited(d, k)' \/ pc'[drained[d][k]] = "deferred"
           /\ pc'[drained[d][k]] \notin { "idle", "defer" }
  BY <1>1, <1>3 DEF FlagInv, ListedInv, Awaited
<1>5. QED
  BY <1>2, <1>4 DEF FlagInv, ListedInv

\* Steps of a call that leave the lists alone.
LEMMA FlagMoves ==
  ASSUME FlagInv, NEW c \in Calls,
         \/ Call(c) \/ Abandon(c) \/ Begin(c)
         \/ Handled(c) \/ HookPasses(c) \/ HookFails(c) \/ Rejected(c)
         \/ Route(c) \/ Enqueue(c) \/ Admit(c) \/ Refuse(c)
         \/ PrepareFails(c) \/ Prepared(c) \/ StartRun(c) \/ Submit(c)
         \/ CommitOwn(c) \/ CommitOwnFails(c)
         \/ CommitQueued(c) \/ CommitQueuedFails(c)
         \/ AcceptInput(c) \/ LoopEnds(c) \/ FinishRun(c)
         \/ ClearActive(c) \/ BroadcastStarts(c) \/ BroadcastEnds(c)
         \/ DeferredDone(c) \/ Leave(c) \/ LeaveLast(c)
  PROVE  FlagInv'
<1> USE DEF At, Go, Return, run, settle
<1>1. /\ UNCHANGED << deferred, drained >>
      /\ pc[c] \notin { "deferred", "awaiting" }
      /\ \E s \in Stages \ { "idle", "awaiting" } :
           /\ pc' = [ pc EXCEPT ![c] = s ]
           /\ s = "defer" => pc[c] = "idle"
           /\ \/ slot' = FALSE
              \/ slot' = slot /\ (pc[c] \in OwnerStages => s \in OwnerStages)
              \/ slot' = TRUE /\ s = "prepare"
  BY DEF Call, Abandon, Begin, Handled, HookPasses, HookFails, Rejected, Route,
         Enqueue, Admit, Refuse, PrepareFails, Prepared, StartRun, Submit,
         CommitOwn, CommitOwnFails, CommitQueued, CommitQueuedFails,
         AcceptInput, LoopEnds, FinishRun, ClearActive, BroadcastStarts,
         BroadcastEnds, DeferredDone, Leave, LeaveLast,
         Stages, WorkerStages, OwnerStages
<1>2. PICK s \in Stages \ { "idle", "awaiting" } :
        /\ pc' = [ pc EXCEPT ![c] = s ]
        /\ s = "defer" => pc[c] = "idle"
        /\ \/ slot' = FALSE
           \/ slot' = slot /\ (pc[c] \in OwnerStages => s \in OwnerStages)
           \/ slot' = TRUE /\ s = "prepare"
  BY <1>1, Zenon
<1>3. ListsTyped' /\ ListedInv'
  BY <1>1, <1>2, ListsKept DEF FlagInv, ListsTyped
<1>4. ActiveFlagHasOwner'
  BY <1>2 DEF FlagInv, ListsTyped, ActiveFlagHasOwner, OwnerStages
<1>5. QED
  BY <1>3, <1>4 DEF FlagInv

LEMMA DeferStep ==
  ASSUME FlagInv, NEW c \in Calls, Defer(c)
  PROVE  FlagInv'
<1>1. /\ pc[c] = "defer" /\ pc' = [ pc EXCEPT ![c] = "deferred" ]
      /\ deferred' = Append(deferred, c) /\ deferred \in Seq(Calls)
      /\ drained' = drained /\ slot' = slot /\ pc \in [ Calls -> Stages ]
  BY DEF Defer, At, Go, run, FlagInv, ListsTyped
<1>2. PICK q \in Seq(Calls) :
        /\ q = deferred'
        /\ \A k \in DOMAIN q :
             \/ k \in DOMAIN deferred /\ q[k] = deferred[k]
             \/ k = Len(deferred) + 1 /\ q[k] = c
  <2>1. /\ Append(deferred, c) \in Seq(Calls)
        /\ \A k \in DOMAIN Append(deferred, c) :
             \/ k \in DOMAIN deferred /\ Append(deferred, c)[k] = deferred[k]
             \/ k = Len(deferred) + 1 /\ Append(deferred, c)[k] = c
    BY <1>1, AppendedQueue
  <2>2. QED
    BY <1>1, <2>1, Zenon
<1>3. /\ \A k \in DOMAIN deferred : deferred[k] \in Calls /\ deferred[k] # c
      /\ \A d \in Calls : \A k \in DOMAIN drained[d] :
           drained[d][k] \in Calls /\ drained[d][k] # c
  BY <1>1 DEF FlagInv, ListsTyped, ListedInv
<1>4. ListsTyped'
  BY <1>1, <1>2 DEF FlagInv, ListsTyped, Stages
<1>5. ListedInv'
  <2>1. /\ \A k \in DOMAIN q : pc'[q[k]] = "deferred"
        /\ \A j, k \in DOMAIN q : q[j] = q[k] => j = k
    BY <1>1, <1>2, <1>3 DEF FlagInv, ListedInv
  <2>2. \A d \in Calls : \A k \in DOMAIN drained[d] :
          /\ Awaited(d, k)' \/ pc'[drained[d][k]] = "deferred"
          /\ pc'[drained[d][k]] \notin { "idle", "defer" }
          /\ \A j \in DOMAIN q : q[j] # drained[d][k]
    BY <1>1, <1>2, <1>3 DEF FlagInv, ListedInv, Awaited
  <2>3. QED
    BY <1>1, <1>2, <2>1, <2>2 DEF FlagInv, ListedInv
<1>6. ActiveFlagHasOwner'
  BY <1>1
  DEF FlagInv, ActiveFlagHasOwner, OwnerStages
<1>7. QED
  BY <1>4, <1>5, <1>6 DEF FlagInv

\* The worker takes the list and wakes its calls one after the other.
LEMMA DrainSteps ==
  ASSUME FlagInv, NEW c \in Calls, Drain(c) \/ DeferredReturned(c)
  PROVE  FlagInv'
<1>0. /\ pc \in [ Calls -> Stages ] /\ deferred \in Seq(Calls)
      /\ drained \in [ Calls -> Seq(Calls) ] /\ slot' = slot
      /\ pc[c] \in { "drain", "awaiting" }
      /\ pc' = [ pc EXCEPT ![c] = "deferring" ]
  BY DEF FlagInv, ListsTyped, Drain, DeferredReturned, At, Go, run
<1>1. ActiveFlagHasOwner'
  BY <1>0 DEF FlagInv, ActiveFlagHasOwner, OwnerStages
<1>2. PICK e \in Seq(Calls) : e = << >> /\ DOMAIN e = { }
  <2>1. << >> \in Seq(Calls) /\ DOMAIN << >> = { }
    BY NoQueue
  <2>2. QED
    BY <2>1, Zenon
<1>3. CASE Drain(c)
  <2>1. /\ pc[c] = "drain" /\ deferred' = e
        /\ drained' = [ drained EXCEPT ![c] = deferred ]
    BY <1>2, <1>3, Zenon DEF Drain, At
  <2>2. ListsTyped'
    BY <1>0, <2>1 DEF FlagInv, ListsTyped, Stages, WorkerStages
  <2>3. /\ \A k \in DOMAIN deferred : deferred[k] \in Calls
        /\ \A d \in Calls : \A k \in DOMAIN drained[d] : drained[d][k] \in Calls
    BY <1>0
  <2>4. /\ \A d \in Calls : d # c => drained'[d] = drained[d] /\ pc'[d] = pc[d]
        /\ drained'[c] = deferred /\ pc'[c] = "deferring"
    BY <1>0, <2>1
  <2>5. \A d \in Calls : \A k \in DOMAIN drained'[d] :
          /\ Awaited(d, k)' \/ pc'[drained'[d][k]] = "deferred"
          /\ pc'[drained'[d][k]] \notin { "idle", "defer" }
    BY <2>1, <2>3, <2>4 DEF FlagInv, ListedInv, Awaited
  <2>6. \A d, f \in Calls :
          \A j \in DOMAIN drained'[d], k \in DOMAIN drained'[f] :
            drained'[d][j] = drained'[f][k] => d = f /\ j = k
    BY <2>4 DEF FlagInv, ListedInv
  <2>7. \A d \in Calls : pc'[d] = "awaiting" => drained'[d] # << >>
    BY <2>4 DEF FlagInv, ListedInv
  <2>8. ListedInv'
    BY <1>2, <2>1, <2>5, <2>6, <2>7 DEF ListedInv
  <2>9. QED
    BY <1>1, <2>2, <2>8 DEF FlagInv
<1>4. CASE DeferredReturned(c)
  <2>1. /\ pc[c] = "awaiting" /\ deferred' = deferred
        /\ drained' = [ drained EXCEPT ![c] = Tail(@) ]
        /\ drained[c] # << >> /\ drained[c] \in Seq(Calls)
    BY <1>0, <1>4 DEF DeferredReturned, At, FlagInv, ListedInv
  <2>2. PICK q \in Seq(Calls) :
          /\ q = Tail(drained[c])
          /\ \A k \in DOMAIN q :
               /\ k \in Nat /\ k + 1 \in DOMAIN drained[c] /\ k + 1 # 1
               /\ q[k] = drained[c][k + 1]
    <3>1. /\ Tail(drained[c]) \in Seq(Calls)
          /\ \A k \in DOMAIN Tail(drained[c]) :
               /\ k \in Nat /\ k + 1 \in DOMAIN drained[c] /\ k + 1 # 1
               /\ Tail(drained[c])[k] = drained[c][k + 1]
      BY <2>1, ShorterQueue
    <3>2. QED
      BY <3>1, Zenon
  <2>3. /\ \A d \in Calls : d # c => drained'[d] = drained[d] /\ pc'[d] = pc[d]
        /\ drained'[c] = q /\ pc'[c] = "deferring"
        /\ drained' \in [ Calls -> Seq(Calls) ]
    BY <1>0, <2>1, <2>2
  <2>4. ListsTyped'
    BY <1>0, <2>1, <2>3 DEF FlagInv, ListsTyped, Stages, WorkerStages
  <2>5. /\ \A k \in DOMAIN deferred : deferred[k] \in Calls
        /\ \A d \in Calls : \A k \in DOMAIN drained[d] : drained[d][k] \in Calls
    BY <1>0
  <2>6. \A k \in DOMAIN deferred : pc'[deferred[k]] = "deferred"
    BY <2>1, <2>3, <2>5 DEF FlagInv, ListedInv
  <2>7. \A k \in DOMAIN q : q[k] \in Calls /\ pc[q[k]] = "deferred"
    BY <2>2, <2>5 DEF FlagInv, ListedInv, Awaited
  <2>8. \A d \in Calls : \A k \in DOMAIN drained'[d] :
          /\ Awaited(d, k)' \/ pc'[drained'[d][k]] = "deferred"
          /\ pc'[drained'[d][k]] \notin { "idle", "defer" }
          /\ \A j \in DOMAIN deferred : deferred[j] # drained'[d][k]
    <3> SUFFICES ASSUME NEW d \in Calls, NEW k \in DOMAIN drained'[d]
                 PROVE  /\ Awaited(d, k)' \/ pc'[drained'[d][k]] = "deferred"
                        /\ pc'[drained'[d][k]] \notin { "idle", "defer" }
                        /\ \A j \in DOMAIN deferred :
                             deferred[j] # drained'[d][k]
      OBVIOUS
    <3>1. CASE d = c
      <4>1. q[k] \in Calls /\ pc[q[k]] = "deferred" /\ q[k] # c
        BY <2>1, <2>3, <2>7, <3>1
      <4>2. k + 1 \in DOMAIN drained[c] /\ q[k] = drained[c][k + 1]
        BY <2>2, <2>3, <3>1
      <4>3. \A j \in DOMAIN deferred : deferred[j] # q[k]
        BY <4>2 DEF FlagInv, ListedInv
      <4>4. QED
        BY <2>3, <3>1, <4>1, <4>3
    <3>2. CASE d # c
      <4>1. drained'[d] = drained[d] /\ pc'[d] = pc[d] /\ drained[d][k] \in Calls
        BY <2>3, <2>5, <3>2
      <4>2. /\ Awaited(d, k) \/ pc[drained[d][k]] = "deferred"
            /\ pc[drained[d][k]] \notin { "idle", "defer" }
            /\ \A j \in DOMAIN deferred : deferred[j] # drained[d][k]
        BY <2>3, <3>2, <4>1 DEF FlagInv, ListedInv
      <4>3. QED
        BY <2>1, <2>3, <4>1, <4>2 DEF Awaited
    <3>3. QED
      BY <3>1, <3>2
  <2>9. \A d, f \in Calls :
          \A j \in DOMAIN drained'[d], k \in DOMAIN drained'[f] :
            drained'[d][j] = drained'[f][k] => d = f /\ j = k
    <3> SUFFICES ASSUME NEW d \in Calls, NEW f \in Calls,
                        NEW j \in DOMAIN drained'[d], NEW k \in DOMAIN drained'[f],
                        drained'[d][j] = drained'[f][k]
                 PROVE  d = f /\ j = k
      OBVIOUS
    <3> DEFINE i == IF d = c THEN j + 1 ELSE j
               l == IF f = c THEN k + 1 ELSE k
    <3>1. i \in DOMAIN drained[d] /\ drained[d][i] = drained'[d][j]
      BY <2>2, <2>3
    <3>2. l \in DOMAIN drained[f] /\ drained[f][l] = drained'[f][k]
      BY <2>2, <2>3
    <3>3. d = f /\ i = l
      <4> HIDE DEF i, l
      <4>1. QED
        BY <3>1, <3>2 DEF FlagInv, ListedInv
    <3>4. CASE d = c
      <4>1. j \in Nat /\ k \in Nat /\ j + 1 = k + 1
        BY <2>2, <2>3, <3>3, <3>4
      <4>2. QED
        BY <3>3, <4>1
    <3>5. CASE d # c
      BY <3>3, <3>5
    <3>6. QED
      BY <3>4, <3>5
  <2>10. \A d \in Calls : pc'[d] = "awaiting" => drained'[d] # << >>
    BY <2>3 DEF FlagInv, ListedInv
  <2>11. ListedInv'
    BY <2>1, <2>6, <2>8, <2>9, <2>10, SMTT(30) DEF FlagInv, ListedInv
  <2>12. QED
    BY <1>1, <2>4, <2>11 DEF FlagInv
<1>5. QED
  BY <1>3, <1>4

LEMMA WakeStep ==
  ASSUME FlagInv, NEW c \in Calls, RunDeferred(c)
  PROVE  FlagInv'
<1> DEFINE h == Head(drained[c])
<1>1. /\ pc \in [ Calls -> Stages ] /\ drained \in [ Calls -> Seq(Calls) ]
      /\ drained[c] \in Seq(Calls)
      /\ pc[c] = "deferring" /\ drained[c] # << >>
      /\ pc' = [ pc EXCEPT ![c] = "awaiting", ![h] = "begin" ]
      /\ UNCHANGED << slot, deferred, drained >>
  BY DEF RunDeferred, At, run, settle, FlagInv, ListsTyped
<1>2. h \in Calls /\ 1 \in DOMAIN drained[c] /\ h = drained[c][1]
  BY <1>1, ShorterQueue
<1>3. pc[h] = "deferred" /\ h # c
  BY <1>1, <1>2 DEF FlagInv, ListedInv, Awaited
<1> HIDE DEF h
<1>4. /\ pc'[c] = "awaiting" /\ pc'[h] = "begin"
      /\ \A d \in Calls : d # c /\ d # h => pc'[d] = pc[d]
      /\ pc' \in [ Calls -> Stages ]
  BY <1>1, <1>2, <1>3 DEF Stages, WorkerStages
<1>5. /\ \A k \in DOMAIN deferred : deferred[k] \in Calls
      /\ \A d \in Calls : \A k \in DOMAIN drained[d] : drained[d][k] \in Calls
  BY <1>1 DEF FlagInv, ListsTyped
<1>6. ListsTyped'
  BY <1>1, <1>4 DEF FlagInv, ListsTyped
<1>7. \A k \in DOMAIN deferred : pc'[deferred[k]] = "deferred"
  BY <1>1, <1>2, <1>4, <1>5 DEF FlagInv, ListedInv
<1>8. \A d \in Calls : \A k \in DOMAIN drained[d] :
        /\ Awaited(d, k)' \/ pc'[drained[d][k]] = "deferred"
        /\ pc'[drained[d][k]] \notin { "idle", "defer" }
  <2> SUFFICES ASSUME NEW d \in Calls, NEW k \in DOMAIN drained[d]
               PROVE  /\ Awaited(d, k)' \/ pc'[drained[d][k]] = "deferred"
                      /\ pc'[drained[d][k]] \notin { "idle", "defer" }
    OBVIOUS
  <2>1. CASE drained[d][k] = h
    <3>1. d = c /\ k = 1
      BY <1>2, <2>1 DEF FlagInv, ListedInv
    <3>2. QED
      BY <1>4, <2>1, <3>1 DEF Awaited
  <2>2. CASE drained[d][k] # h
    <3>1. drained[d][k] \in Calls
      BY <1>5
    <3>2. Awaited(d, k) => Awaited(d, k)'
      BY <1>3, <1>4 DEF Awaited
    <3>3. CASE drained[d][k] = c
      BY <1>1, <1>4, <3>2, <3>3 DEF FlagInv, ListedInv
    <3>4. CASE drained[d][k] # c
      BY <1>4, <2>2, <3>1, <3>2, <3>4 DEF FlagInv, ListedInv
    <3>5. QED
      BY <3>3, <3>4
  <2>3. QED
    BY <2>1, <2>2
<1>9. \A d \in Calls : pc'[d] = "awaiting" => drained[d] # << >>
  BY <1>1, <1>4 DEF FlagInv, ListedInv
<1>10. ListedInv'
  <2>1. deferred' = deferred /\ drained' = drained
    BY <1>1
  <2>2. /\ \A j, k \in DOMAIN deferred : deferred[j] = deferred[k] => j = k
        /\ \A d \in Calls : \A k \in DOMAIN drained[d] :
             \A j \in DOMAIN deferred : deferred[j] # drained[d][k]
        /\ \A d, f \in Calls :
             \A j \in DOMAIN drained[d], k \in DOMAIN drained[f] :
               drained[d][j] = drained[f][k] => d = f /\ j = k
    BY DEF FlagInv, ListedInv
  <2>3. QED
    BY <1>7, <1>8, <1>9, <2>1, <2>2 DEF ListedInv
<1>11. ActiveFlagHasOwner'
  BY <1>1, <1>3, <1>4 DEF FlagInv, ActiveFlagHasOwner, OwnerStages
<1>12. QED
  BY <1>6, <1>10, <1>11 DEF FlagInv

LEMMA NoLists ==
  ASSUME NEW f, f = [ c \in Calls |-> << >> ]
  PROVE  /\ f \in [ Calls -> Seq(Calls) ]
         /\ \A c \in Calls : DOMAIN f[c] = { }
<1>1. PICK e \in Seq(Calls) : e = << >> /\ DOMAIN e = { }
  <2>1. << >> \in Seq(Calls) /\ DOMAIN << >> = { }
    BY NoQueue
  <2>2. QED
    BY <2>1, Zenon
<1>2. f = [ c \in Calls |-> e ]
  BY <1>1, Zenon
<1>3. QED
  BY <1>1, <1>2

LEMMA FlagStarts == Init => FlagInv
<1> SUFFICES ASSUME Init
             PROVE  FlagInv
  OBVIOUS
<1>1. /\ << >> \in Seq(Calls) /\ DOMAIN << >> = { }
      /\ drained \in [ Calls -> Seq(Calls) ]
      /\ \A c \in Calls : DOMAIN drained[c] = { }
  BY NoQueue, NoLists DEF Init
<1>2. ListsTyped
  BY <1>1 DEF Init, ListsTyped, Stages
<1>3. ListedInv
  BY <1>1 DEF Init, ListedInv
<1>4. ActiveFlagHasOwner
  BY DEF Init, ActiveFlagHasOwner
<1>5. QED
  BY <1>2, <1>3, <1>4 DEF FlagInv

LEMMA FlagStep == FlagInv /\ [Next]_vars => FlagInv'
<1> SUFFICES ASSUME FlagInv, [Next]_vars
             PROVE  FlagInv'
  OBVIOUS
<1>1. ASSUME NEW c \in Calls, Call(c) \/ CallStep(c) \/ Abandon(c)
      PROVE  FlagInv'
  BY <1>1, FlagMoves, DeferStep, DrainSteps, WakeStep, Zenon DEF CallStep
<1>2. ASSUME Fall
      PROVE  FlagInv'
  <2>1. /\ << >> \in Seq(Calls) /\ DOMAIN << >> = { }
        /\ drained' \in [ Calls -> Seq(Calls) ]
        /\ \A c \in Calls : DOMAIN drained'[c] = { }
    BY <1>2, NoQueue, NoLists DEF Fall
  <2>2. pc' \in [ Calls -> Stages ] /\ \A c \in Calls : pc'[c] # "awaiting"
    BY <1>2 DEF Fall, FlagInv, ListsTyped, Stages
  <2>3. ListsTyped'
    BY <1>2, <2>1, <2>2 DEF Fall, ListsTyped
  <2>4. ListedInv'
    BY <1>2, <2>1, <2>2 DEF Fall, ListedInv
  <2>5. QED
    BY <1>2, <2>3, <2>4 DEF Fall, FlagInv, ActiveFlagHasOwner
<1>3. CASE Abort \/ ClearQueue \/ Reopen \/ UNCHANGED vars
  <2>1. UNCHANGED << pc, slot, deferred, drained >>
    BY <1>3 DEF Abort, ClearQueue, Reopen, vars, run, settle
  <2>2. QED
    BY <2>1
    DEF FlagInv, ListsTyped, ListedInv, Awaited, ActiveFlagHasOwner
<1>4. QED
  BY <1>1, <1>2, <1>3 DEF Next, Crash, CrashInFirstCommit

\* For any calls and inputs: the flag that a run is active is set only while
\* the worker of some call has still to clear it.
THEOREM FlagIsOwned == Spec => []ActiveFlagHasOwner
<1>1. FlagInv => ActiveFlagHasOwner
  BY DEF FlagInv
<1>2. QED
  BY <1>1, FlagStarts, FlagStep, PTL DEF Spec

=============================================================================
