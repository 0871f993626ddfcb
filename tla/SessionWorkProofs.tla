-------------------------- MODULE SessionWorkProofs --------------------------
(***************************************************************************)
(* Proofs about SessionWork, for any operations in any mix: that a session *)
(* is closed only when its work is over, that an abort reaches the run it  *)
(* found, and that no bash result parts a tool call from its result.       *)
(***************************************************************************)
EXTENDS SessionWork, FiniteSetTheorems, TLAPS

-----------------------------------------------------------------------------
(* What the variables hold.                                                *)

WorkTyped ==
  /\ kind \in [ Ops -> Kinds ] /\ pc = [ q \in Procs |-> pc[q] ]
  /\ pendBash \in Seq(Ops) /\ pendCustom \in Seq(Ops)
  /\ \A i \in DOMAIN pendCustom : kind[pendCustom[i]] = "custom"
  /\ targets \in [ Procs -> SUBSET Ops ]

\* Every work that counts has its slot, and workers are counted.
Working == { r \in Ops : kind[r] = "run" /\ pc[r] \in WorkerStages }

BashStages == { "work", "record", "unrecorded" }
Held(o) ==
  /\ At(o, "run", "hook") => o \in inputs
  /\ At(o, "navigate", "work") => branch = Own(o)
  /\ At(o, "reload", "work") => reload = Own(o)
  /\ kind[o] = "bash" /\ pc[o] \in BashStages => o \in bashes

SlotsInv ==
  /\ IsFiniteSet(Working) /\ workers = Cardinality(Working)
  /\ \A o \in Ops : Held(o)

\* The session is open until its closer starts; the closer goes on only when
\* it has seen the session at rest, and no work begins then.
ClosingInv ==
  /\ lifecycle = "Open" <=> pc[Closer] = "new"
  /\ pc[Closer] \in { "ready", "returned" } => \A o \in Ops : ~AtWork(o)
  /\ lifecycle = "Closed" => pc[Closer] = "returned"

\* A run of the agent belongs to the run of the session that is in it.
AgentStages ==
  { "agentStart", "turn", "tool", "turnEnd", "answer", "broken" }
AgentInv ==
  /\ \A r \in Ops : kind[r] = "run" /\ pc[r] \in AgentStages => agentRun = r
  /\ toolCall = "open" => \E r \in Ops : At(r, "run", "tool")

Before == { "new", "input", "hook", "admit" }
Admitted(r) == r \in Ops /\ kind[r] = "run" /\ pc[r] \notin Before

RetryStages == { "retryLook", "retryOmit", "retrySleep" }

\* The lone run is the one unsettled, and what was found was admitted.
LoneInv ==
  /\ \A r \in Ops : runToken = Own(r) => Admitted(r)
  /\ \A p \in Procs : \A r \in targets[p] : Admitted(r)
  /\ \A r \in alone :
       /\ Admitted(r) /\ Unsettled \subseteq { r }
       /\ pc[r] \in RetryStages => retryToken = << r, "retry" >>

\* An abort on its way, and what it has done so far.
Cancelling == { "cancelRest", "agentIdle", "look", "lookAgain", "parked" }
AbortInv ==
  \A p \in Procs : \A r \in targets[p] \cap alone :
    active /\ pc[p] \in Cancelling =>
      /\ abortReq
      /\ pc[p] # "cancelRest" =>
           /\ pc[r] \in { "retryOmit", "retrySleep" }
                => << r, "retry" >> \in cancelled
           /\ pc[r] \in AgentStages \ { "agentStart" } => agentAborted

WorkInv ==
  WorkTyped /\ SlotsInv /\ ClosingInv /\ AgentInv /\ LoneInv /\ AbortInv

-----------------------------------------------------------------------------
(* Most steps move one process on and leave most of this alone.  What a    *)
(* step may do without disturbing a part of the invariant:                 *)

PcStep(p) ==
  /\ p \in Procs /\ kind' = kind
  /\ pc' = [ q \in Procs |-> pc'[q] ]
  /\ \A q \in Procs : q # p => pc'[q] = pc[q]

TypedStep(p) ==
  /\ PcStep(p) /\ UNCHANGED targets
  /\ pendBash' \in Seq(Ops) /\ pendCustom' \in Seq(Ops)
  /\ \A i \in DOMAIN pendCustom' : kind[pendCustom'[i]] = "custom"

SlotsStep(p) ==
  /\ PcStep(p)
  /\ UNCHANGED << workers, inputs, branch, reload, bashes >>
  /\ p \in Ops =>
       /\ kind[p] = "run" =>
            /\ pc'[p] \in WorkerStages <=> pc[p] \in WorkerStages
            /\ pc'[p] # "hook"
       /\ kind[p] \in { "navigate", "reload" } => pc'[p] # "work"
       /\ kind[p] = "bash" =>
            (pc'[p] \in BashStages => pc[p] \in BashStages)

ClosingStep(p) ==
  /\ PcStep(p) /\ UNCHANGED lifecycle
  /\ p = Closer =>
       /\ pc[p] \notin { "new", "returned" }
       /\ pc'[p] \notin { "new", "ready", "returned" }
  /\ p \in Ops => (AtWork(p)' => AtWork(p) \/ lifecycle = "Open")

AgentStep(p) ==
  /\ PcStep(p) /\ UNCHANGED agentRun
  /\ toolCall' = "open" => toolCall = "open"
  /\ p \in Ops /\ kind[p] = "run" =>
       /\ pc'[p] \in AgentStages => pc[p] \in AgentStages
       /\ pc[p] = "tool" => toolCall' # "open"

UnsettledStages == WorkerStages \ { "settled", "leave" }

LoneStep(p) ==
  /\ PcStep(p) /\ UNCHANGED << runToken, targets, alone, retryToken >>
  /\ p \in Ops /\ kind[p] = "run" =>
       /\ pc'[p] \in Before => pc[p] \in Before
       /\ pc'[p] \in UnsettledStages => pc[p] \in UnsettledStages
       /\ pc'[p] \in RetryStages => pc[p] \in RetryStages

Warned == { "retryOmit", "retrySleep" }
Turning == AgentStages \ { "agentStart" }

AbortStep(p) ==
  /\ PcStep(p) /\ UNCHANGED << targets, alone >>
  /\ active' => active
  /\ abortReq => abortReq'
  /\ agentAborted => agentAborted'
  /\ \A q \in Ops :
       << q, "retry" >> \in cancelled => << q, "retry" >> \in cancelled'
  /\ pc'[p] \in Cancelling => pc[p] \in Cancelling \ { "cancelRest" }
  /\ p \in Ops /\ kind[p] = "run" =>
       /\ pc'[p] \in Warned => pc[p] \in Warned
       /\ pc'[p] \in Turning => pc[p] \in Turning

\* A step that keeps to one of the frames keeps that part of the invariant.
LEMMA TypedKept ==
  ASSUME WorkTyped, NEW p, TypedStep(p)
  PROVE  WorkTyped'
BY DEF WorkTyped, TypedStep, PcStep

LEMMA PcAfter ==
  ASSUME WorkTyped, NEW p, PcStep(p)
  PROVE  /\ kind' = kind
         /\ \A q \in Procs : q # p => pc'[q] = pc[q]
BY DEF WorkTyped, PcStep

LEMMA SlotsKept ==
  ASSUME WorkTyped, SlotsInv, NEW p, SlotsStep(p)
  PROVE  SlotsInv'
<1>1. \A q \in Procs : q # p => pc'[q] = pc[q]
  BY PcAfter DEF SlotsStep
<1>2. Working' = Working
  BY <1>1 DEF SlotsStep, PcStep, Working, Procs
<1>3. \A o \in Ops : Held(o)'
  BY <1>1 DEF SlotsInv, Held, SlotsStep, PcStep, At, Procs, BashStages, Own
<1>4. QED
  BY <1>2, <1>3 DEF SlotsInv, SlotsStep

LEMMA ClosingKept ==
  ASSUME WorkTyped, ClosingInv, NEW p, ClosingStep(p)
  PROVE  ClosingInv'
<1>1. \A q \in Procs : q # p => pc'[q] = pc[q]
  BY PcAfter DEF ClosingStep
<1>2. \A o \in Ops : AtWork(o)' => AtWork(o) \/ lifecycle = "Open"
  BY <1>1 DEF ClosingStep, PcStep, AtWork, Procs
<1>3. pc'[Closer] = "new" <=> pc[Closer] = "new"
  BY <1>1 DEF ClosingStep, Procs
<1>4. pc'[Closer] \in { "ready", "returned" } => pc'[Closer] = pc[Closer]
  BY <1>1 DEF ClosingStep, Procs
<1>5. pc[Closer] = "returned" => pc'[Closer] = "returned"
  BY <1>1 DEF ClosingStep, Procs
<1>6. QED
  BY <1>2, <1>3, <1>4, <1>5 DEF ClosingInv, ClosingStep

LEMMA AgentKept ==
  ASSUME WorkTyped, AgentInv, NEW p, AgentStep(p)
  PROVE  AgentInv'
<1>1. \A q \in Procs : q # p => pc'[q] = pc[q]
  BY PcAfter DEF AgentStep
<1>2. QED
  BY <1>1 DEF AgentInv, AgentStep, PcStep, At, Procs

LEMMA LoneKept ==
  ASSUME WorkTyped, LoneInv, NEW p, LoneStep(p)
  PROVE  LoneInv'
<1>1. \A q \in Procs : q # p => pc'[q] = pc[q]
  BY PcAfter DEF LoneStep
<1>2. Unsettled' \subseteq Unsettled
  BY <1>1 DEF LoneStep, PcStep, Unsettled, UnsettledStages, Procs
<1>3. \A r : Admitted(r) => Admitted(r)'
  BY <1>1 DEF LoneStep, PcStep, Admitted, Procs
<1>4. \A r \in alone : pc'[r] \in RetryStages => pc[r] \in RetryStages
  BY <1>1 DEF LoneInv, LoneStep, PcStep, Admitted, Procs
<1>5. QED
  BY <1>2, <1>3, <1>4 DEF LoneInv, LoneStep, Own

LEMMA AbortKept ==
  ASSUME WorkTyped, LoneInv, AbortInv, NEW p, AbortStep(p)
  PROVE  AbortInv'
<1>1. \A q \in Procs : q # p => pc'[q] = pc[q]
  BY PcAfter DEF AbortStep
<1>2. \A q \in Procs :
        pc'[q] \in Cancelling =>
          /\ pc[q] \in Cancelling
          /\ pc'[q] # "cancelRest" => pc[q] # "cancelRest"
  BY <1>1 DEF AbortStep
<1>3. \A r \in alone :
        /\ r \in Ops
        /\ pc'[r] \in Warned => pc[r] \in Warned
        /\ pc'[r] \in Turning => pc[r] \in Turning
  BY <1>1 DEF AbortStep, LoneInv, Admitted, Procs
<1>4. QED
  BY <1>2, <1>3 DEF AbortInv, AbortStep, Warned, Turning

\* A step that disturbs nothing.
Quiet(p) ==
  /\ TypedStep(p) /\ SlotsStep(p) /\ ClosingStep(p) /\ AgentStep(p)
  /\ LoneStep(p) /\ AbortStep(p)

LEMMA QuietKept ==
  ASSUME WorkInv, NEW p, Quiet(p)
  PROVE  WorkInv'
BY TypedKept, SlotsKept, ClosingKept, AgentKept, LoneKept, AbortKept
DEF WorkInv, Quiet

-----------------------------------------------------------------------------
(* The steps that disturb nothing.                                         *)

\* A step that changes data only as far as the frames allow, ...
CalmStep(p) ==
  /\ PcStep(p)
  /\ UNCHANGED << lifecycle, workers, runToken, retryToken, branch, reload,
                  inputs, bashes, agentRun, targets, alone >>
  /\ toolCall' = "open" => toolCall = "open"
  /\ active' => active
  /\ abortReq => abortReq'
  /\ agentAborted => agentAborted'
  /\ \A q \in Ops :
       << q, "retry" >> \in cancelled => << q, "retry" >> \in cancelled'
  /\ pendBash' \in Seq(Ops) /\ pendCustom' \in Seq(Ops)
  /\ \A i \in DOMAIN pendCustom' : kind[pendCustom'[i]] = "custom"

\* ... and the stages a run may pass between, ...
RunGoes(r) ==
  /\ kind[r] = "run"
  /\ pc'[r] \in WorkerStages <=> pc[r] \in WorkerStages
  /\ pc'[r] \notin InputStages
  /\ pc'[r] \in UnsettledStages => pc[r] \in UnsettledStages
  /\ pc'[r] \in Before => pc[r] \in Before
  /\ pc'[r] \in AgentStages => pc[r] \in AgentStages
  /\ pc'[r] \in Turning => pc[r] \in Turning
  /\ pc[r] = "tool" => toolCall' # "open"
  /\ pc'[r] \in RetryStages => pc[r] \in RetryStages
  /\ pc'[r] \in Warned => pc[r] \in Warned
  /\ pc'[r] \notin Cancelling

LEMMA CalmRun ==
  ASSUME WorkInv, NEW r \in Ops, CalmStep(r), RunGoes(r)
  PROVE  Quiet(r)
<1>1. TypedStep(r)
  BY DEF CalmStep, TypedStep
<1>2. SlotsStep(r)
  BY DEF CalmStep, RunGoes, SlotsStep, InputStages
<1>3. ClosingStep(r)
  BY SessionWorkAssumption
  DEF CalmStep, RunGoes, ClosingStep, AtWork, PcStep
<1>4. AgentStep(r)
  BY DEF CalmStep, RunGoes, AgentStep
<1>5. LoneStep(r)
  BY DEF CalmStep, RunGoes, LoneStep
<1>6. AbortStep(r)
  BY DEF CalmStep, RunGoes, AbortStep
<1>7. QED
  BY <1>1, <1>2, <1>3, <1>4, <1>5, <1>6 DEF Quiet

\* A flush empties the deferred messages and takes no request back.
LEMMA FlushIsCalm ==
  ASSUME WorkTyped, Flush \/ FlushCustom
  PROVE  /\ pendBash' \in Seq(Ops) /\ pendCustom' \in Seq(Ops)
         /\ \A i \in DOMAIN pendCustom' : kind[pendCustom'[i]] = "custom"
         /\ abortReq => abortReq'
         /\ agentAborted => agentAborted'
<1>1. pendBash' \in Seq(Ops)
  <2>1. CASE Flush
    BY <2>1 DEF WorkTyped, Flush
  <2>2. CASE FlushCustom
    BY <2>2 DEF WorkTyped, FlushCustom
  <2>3. QED
    BY <2>1, <2>2
<1>2. ASSUME NEW b, NEW c, FlushFrom(b, c)
      PROVE  (abortReq => abortReq') /\ (agentAborted => agentAborted')
  BY <1>2 DEF FlushFrom, SetFatal
<1>3. pendCustom' = << >>
  BY DEF Flush, FlushCustom
<1>4. QED
  BY <1>1, <1>2, <1>3 DEF Flush, FlushCustom

\* A fatal error takes no request back.
LEMMA FatalIsCalm ==
  ASSUME SetFatal \/ UNCHANGED << abortReq, agentAborted >>
  PROVE  (abortReq => abortReq') /\ (agentAborted => agentAborted')
<1>1. CASE SetFatal
  BY <1>1 DEF SetFatal
<1>2. CASE UNCHANGED << abortReq, agentAborted >>
  BY <1>2
<1>3. QED
  BY <1>1, <1>2

\* Most steps of a run disturb nothing, ...
LEMMA RunIsQuiet ==
  ASSUME WorkInv, NEW r \in Ops,
         \/ RunCalled(r) \/ Refuse(r) \/ PrepareCompacts(r)
         \/ PrepareCompacted(r) \/ Prepared(r) \/ PrepareCancelled(r)
         \/ PrepareFlushes(r) \/ StartLogged(r) \/ Submit(r) \/ ToolEnds(r)
         \/ TurnEnds(r) \/ PostRun(r) \/ PostCompacts(r) \/ PostCompacted(r)
         \/ FinishRun(r) \/ ClearActive(r) \/ Settled(r) \/ LeaveClears(r)
         \/ Left(r) \/ FinalizeRefused(r) \/ FinalizeFails(r)
  PROVE  Quiet(r)
<1> USE DEF CalmStep, RunGoes, PcStep, WorkTyped, Go, Return, At, Procs,
         bounds, life, flags, slots, agent, notes, ids, found,
         WorkerStages, InputStages, UnsettledStages, AgentStages, Before,
         RetryStages, Warned, Turning, Cancelling
<1>0. WorkTyped
  BY DEF WorkInv
<1>1. ASSUME RunCalled(r)
     PROVE  CalmStep(r) /\ RunGoes(r)
  BY <1>0, <1>1 DEF RunCalled
<1>2. ASSUME Refuse(r)
     PROVE  CalmStep(r) /\ RunGoes(r)
  BY <1>0, <1>2 DEF Refuse
<1>3. ASSUME PrepareCompacts(r)
     PROVE  CalmStep(r) /\ RunGoes(r)
  BY <1>0, <1>3 DEF PrepareCompacts, AutoCompact
<1>4. ASSUME PrepareCompacted(r)
     PROVE  CalmStep(r) /\ RunGoes(r)
  BY <1>0, <1>4 DEF PrepareCompacted, AutoCompactEnds
<1>5. ASSUME Prepared(r)
     PROVE  CalmStep(r) /\ RunGoes(r)
  BY <1>0, <1>5, FlushIsCalm DEF Prepared
<1>6. ASSUME PrepareCancelled(r)
     PROVE  CalmStep(r) /\ RunGoes(r)
  BY <1>0, <1>6 DEF PrepareCancelled
<1>7. ASSUME PrepareFlushes(r)
     PROVE  CalmStep(r) /\ RunGoes(r)
  BY <1>0, <1>7, FlushIsCalm DEF PrepareFlushes
<1>8. ASSUME StartLogged(r)
     PROVE  CalmStep(r) /\ RunGoes(r)
  <2>1. CalmStep(r)
    <3>1. PcStep(r) /\ kind' = kind /\ UNCHANGED << targets, alone >>
      BY <1>0, <1>8 DEF StartLogged
    <3>2. active' => active
      BY <1>8 DEF StartLogged
    <3>3. QED
      BY <1>0, <1>8, <3>1, <3>2 DEF StartLogged
  <2>2. RunGoes(r)
    BY <1>0, <1>8, <2>1 DEF StartLogged
  <2>3. QED
    BY <2>1, <2>2
<1>9. ASSUME Submit(r)
     PROVE  CalmStep(r) /\ RunGoes(r)
  BY <1>0, <1>9 DEF Submit
<1>10. ASSUME ToolEnds(r)
     PROVE  CalmStep(r) /\ RunGoes(r)
  BY <1>0, <1>10 DEF ToolEnds
<1>11. ASSUME TurnEnds(r)
     PROVE  CalmStep(r) /\ RunGoes(r)
  <2>1. CalmStep(r)
    <3>1. CASE FlushCustom
      BY <1>0, <1>11, <3>1, FlushIsCalm DEF TurnEnds
    <3>2. CASE UNCHANGED << notes, fatal, abortReq, agentAborted >>
      BY <1>0, <1>11, <3>2 DEF TurnEnds
    <3>3. QED
      BY <1>11, <3>1, <3>2 DEF TurnEnds
  <2>2. RunGoes(r)
    BY <1>0, <1>11, <2>1 DEF TurnEnds
  <2>3. QED
    BY <2>1, <2>2
<1>12. ASSUME PostRun(r)
     PROVE  CalmStep(r) /\ RunGoes(r)
  BY <1>0, <1>12 DEF PostRun
<1>13. ASSUME PostCompacts(r)
     PROVE  CalmStep(r) /\ RunGoes(r)
  BY <1>0, <1>13 DEF PostCompacts, AutoCompact
<1>14. ASSUME PostCompacted(r)
     PROVE  CalmStep(r) /\ RunGoes(r)
  BY <1>0, <1>14 DEF PostCompacted, AutoCompactEnds
<1>15. ASSUME FinishRun(r)
     PROVE  CalmStep(r) /\ RunGoes(r)
  BY <1>0, <1>15, FlushIsCalm DEF FinishRun
<1>16. ASSUME ClearActive(r)
     PROVE  CalmStep(r) /\ RunGoes(r)
  BY <1>0, <1>16 DEF ClearActive
<1>17. ASSUME Settled(r)
     PROVE  CalmStep(r) /\ RunGoes(r)
  BY <1>0, <1>17 DEF Settled
<1>18. ASSUME LeaveClears(r)
     PROVE  CalmStep(r) /\ RunGoes(r)
  BY <1>0, <1>18 DEF LeaveClears
<1>19. ASSUME Left(r)
     PROVE  CalmStep(r) /\ RunGoes(r)
  BY <1>0, <1>19 DEF Left
<1>20. ASSUME FinalizeRefused(r)
     PROVE  CalmStep(r) /\ RunGoes(r)
  BY <1>0, <1>20 DEF FinalizeRefused
<1>21. ASSUME FinalizeFails(r)
     PROVE  CalmStep(r) /\ RunGoes(r)
  <2>1. (abortReq => abortReq') /\ (agentAborted => agentAborted')
    BY <1>21, FatalIsCalm DEF FinalizeFails
  <2>2. CalmStep(r)
    BY <1>0, <1>21, <2>1 DEF FinalizeFails
  <2>3. RunGoes(r)
    BY <1>0, <1>21, <2>2 DEF FinalizeFails
  <2>4. QED
    BY <2>2, <2>3
<1>22. QED
  BY CalmRun, <1>1, <1>2, <1>3, <1>4, <1>5, <1>6, <1>7, <1>8, <1>9, <1>10,
     <1>11, <1>12, <1>13, <1>14, <1>15, <1>16, <1>17, <1>18, <1>19,
     <1>20, <1>21

\* ... or any other process.
OtherGoes(p) ==
  /\ p \in Ops /\ kind[p] = "run" =>
       \A s \in { pc[p], pc'[p] } :
         s \notin WorkerStages \cup InputStages \cup Before
  /\ p \in Ops /\ kind[p] \in { "navigate", "reload" } => pc'[p] # "work"
  /\ p \in Ops /\ kind[p] = "bash" =>
       (pc'[p] \in BashStages => pc[p] \in BashStages)
  /\ p = Closer =>
       /\ pc[p] \notin { "new", "returned" }
       /\ pc'[p] \notin { "new", "ready", "returned" }
  /\ pc'[p] \in Cancelling => pc[p] \in Cancelling \ { "cancelRest" }

LEMMA CalmOther ==
  ASSUME WorkInv, NEW p \in Procs, CalmStep(p), OtherGoes(p)
  PROVE  Quiet(p)
<1>1. TypedStep(p)
  BY DEF CalmStep, TypedStep
<1>2. SlotsStep(p)
  BY DEF CalmStep, OtherGoes, SlotsStep, InputStages
<1>3. ClosingStep(p)
  BY SessionWorkAssumption
  DEF CalmStep, OtherGoes, ClosingStep, AtWork, PcStep, BashStages
<1>4. AgentStep(p)
  BY DEF CalmStep, OtherGoes, AgentStep, AgentStages, WorkerStages
<1>5. LoneStep(p)
  BY
  DEF CalmStep, OtherGoes, LoneStep, UnsettledStages, WorkerStages, RetryStages
<1>6. AbortStep(p)
  BY DEF CalmStep, OtherGoes, AbortStep, WorkerStages, Warned, Turning,
     AgentStages
<1>7. QED
  BY <1>1, <1>2, <1>3, <1>4, <1>5, <1>6 DEF Quiet

\* ... and most steps of the other operations.
LEMMA OtherIsQuiet ==
  ASSUME WorkInv, NEW p \in Procs,
         \/ AgentIsIdle(p) \/ Woken(p) \/ AbortReturns(p) \/ CompactAdmitted(p)
         \/ CompactEnds(p) \/ BashEnds(p) \/ Record(p) \/ CustomLooks(p)
         \/ CustomSent(p) \/ ReplaceAsked(p) \/ Replaced(p) \/ Rotated(p)
         \/ ShutdownReturns(p) \/ (p \in Ops /\ Begin(p))
  PROVE  Quiet(p)
<1> USE SessionWorkAssumption
    DEF CalmStep, OtherGoes, PcStep, WorkTyped, Go, Return, At, Procs,
        bounds, life, flags, slots, agent, notes, ids, found,
        WorkerStages, InputStages, Before, Cancelling, BashStages
<1>0. WorkTyped
  BY DEF WorkInv
<1>1. ASSUME AgentIsIdle(p)
     PROVE  CalmStep(p) /\ OtherGoes(p)
  BY <1>0, <1>1 DEF AgentIsIdle
<1>2. ASSUME Woken(p)
     PROVE  CalmStep(p) /\ OtherGoes(p)
  BY <1>0, <1>2 DEF Woken
<1>3. ASSUME AbortReturns(p)
     PROVE  CalmStep(p) /\ OtherGoes(p)
  BY <1>0, <1>3 DEF AbortReturns
<1>4. ASSUME CompactAdmitted(p)
     PROVE  CalmStep(p) /\ OtherGoes(p)
  BY <1>0, <1>4 DEF CompactAdmitted
<1>5. ASSUME CompactEnds(p)
     PROVE  CalmStep(p) /\ OtherGoes(p)
  BY <1>0, <1>5 DEF CompactEnds
<1>6. ASSUME BashEnds(p)
     PROVE  CalmStep(p) /\ OtherGoes(p)
  BY <1>0, <1>6 DEF BashEnds
<1>7. ASSUME Record(p)
     PROVE  CalmStep(p) /\ OtherGoes(p)
  <2>1. pendBash' \in Seq(Ops)
    <3>1. CASE pendBash' = Append(pendBash, p)
      BY <1>0, <1>7, <3>1 DEF Record
    <3>2. CASE pendBash' = pendBash
      BY <1>0, <3>2
    <3>3. QED
      BY <1>7, <3>1, <3>2 DEF Record
  <2>2. PcStep(p) /\ OtherGoes(p)
    BY <1>0, <1>7 DEF Record
  <2>3. UNCHANGED << life, flags, slots, cancelled, agent, pendCustom, ids,
                     found, kind >>
    BY <1>7 DEF Record
  <2>4. QED
    BY <1>0, <2>1, <2>2, <2>3
<1>8. ASSUME CustomLooks(p)
     PROVE  CalmStep(p) /\ OtherGoes(p)
  BY <1>0, <1>8 DEF CustomLooks
<1>9. ASSUME CustomSent(p)
     PROVE  CalmStep(p) /\ OtherGoes(p)
  <2>1. /\ pendCustom' \in Seq(Ops)
        /\ \A i \in DOMAIN pendCustom' : kind[pendCustom'[i]] = "custom"
    <3>1. CASE pendCustom' = Append(pendCustom, p)
      BY <1>0, <1>9, <3>1 DEF CustomSent
    <3>2. CASE pendCustom' = pendCustom
      BY <1>0, <3>2
    <3>3. QED
      BY <1>9, <3>1, <3>2 DEF CustomSent
  <2>2. PcStep(p) /\ OtherGoes(p)
    BY <1>0, <1>9 DEF CustomSent
  <2>3. UNCHANGED << life, flags, slots, cancelled, agent, pendBash, ids,
                     found, kind >>
    BY <1>9 DEF CustomSent
  <2>4. QED
    BY <1>0, <2>1, <2>2, <2>3
<1>10. ASSUME ReplaceAsked(p)
     PROVE  CalmStep(p) /\ OtherGoes(p)
  BY <1>0, <1>10 DEF ReplaceAsked
<1>11. ASSUME Replaced(p)
     PROVE  CalmStep(p) /\ OtherGoes(p)
  <2>1. PcStep(p) /\ OtherGoes(p)
    BY <1>0, <1>11 DEF Replaced
  <2>2. toolCall' = "open" => toolCall = "open"
    BY <1>11 DEF Replaced
  <2>3. UNCHANGED << lifecycle, flags, slots, cancelled, agentRun,
                     agentAborted, notes, found, kind >>
    BY <1>11 DEF Replaced
  <2>4. QED
    BY <1>0, <2>1, <2>2, <2>3
<1>12. ASSUME Rotated(p)
     PROVE  CalmStep(p) /\ OtherGoes(p)
  <2>1. PcStep(p) /\ OtherGoes(p)
    BY <1>0, <1>12 DEF Rotated
  <2>0. SetFatal \/ UNCHANGED << abortReq, agentAborted >>
    BY <1>12 DEF Rotated
  <2>2. (abortReq => abortReq') /\ (agentAborted => agentAborted')
    BY <2>0, FatalIsCalm
  <2>3. UNCHANGED << lifecycle, active, workers, slots, cancelled, agentRun,
                     toolCall, notes, found, kind >>
    BY <1>12 DEF Rotated
  <2>4. QED
    BY <1>0, <2>1, <2>2, <2>3
<1>13. ASSUME ShutdownReturns(p)
     PROVE  CalmStep(p) /\ OtherGoes(p)
  BY <1>0, <1>13 DEF ShutdownReturns
<1>14. ASSUME p \in Ops, Begin(p)
     PROVE  CalmStep(p) /\ OtherGoes(p)
  BY <1>0, <1>14 DEF Begin, AbortsFirst
<1>15. QED
  BY CalmOther, <1>1, <1>2, <1>3, <1>4, <1>5, <1>6, <1>7, <1>8, <1>9, <1>10,
     <1>11, <1>12, <1>13, <1>14

-----------------------------------------------------------------------------
(* The steps that disturb one part or two.                                 *)

\* A token in a slot tells whose it is.
LEMMA OwnIsOne ==
  /\ \A q, r \in Ops : Own(q) = Own(r) => q = r
  /\ \A q \in Ops : Own(q) # None
BY SessionWorkAssumption DEF Own

\* The slots of the other work, taken and given back.
LEMMA SlotIsTaken ==
  ASSUME WorkInv, NEW o \in Ops,
         \/ InputAdmitted(o) \/ InputEnds(o) \/ NavigateAdmitted(o)
         \/ NavigateEnds(o) \/ ReloadAdmitted(o) \/ ReloadEnds(o)
         \/ BashAdmitted(o) \/ BashLeaves(o)
  PROVE  WorkInv'
<1> USE SessionWorkAssumption
<1> USE DEF PcStep, Go, Return, At, Procs, bounds, life, flags, agent, notes,
            ids, found, ExternalOpen
<1> DEFINE Frames ==
      /\ TypedStep(o) /\ ClosingStep(o) /\ AgentStep(o) /\ LoneStep(o)
      /\ AbortStep(o)
<1>0. WorkTyped /\ pc = [ q \in Procs |-> pc[q] ]
  BY DEF WorkInv, WorkTyped
<1>1. ASSUME Frames, Working' = Working, workers' = workers,
             \A q \in Ops : Held(q)'
      PROVE  WorkInv'
  <2>1. SlotsInv'
    BY <1>1 DEF WorkInv, SlotsInv
  <2>2. QED
    BY <1>1, <2>1, TypedKept, ClosingKept, AgentKept, LoneKept, AbortKept
    DEF WorkInv
<1> USE DEF WorkTyped, Working, TypedStep, ClosingStep, AgentStep,
            LoneStep, AbortStep, AtWork, WorkerStages, InputStages, Before,
            UnsettledStages, AgentStages, RetryStages, Warned, Turning,
            Cancelling
<1>2. /\ IsFiniteSet(Working) /\ workers = Cardinality(Working)
      /\ \A q \in Ops : Held(q)
  BY DEF WorkInv, SlotsInv
<1>3. CASE InputAdmitted(o)
  <2>1. Frames
    BY <1>0, <1>3 DEF InputAdmitted, slots
  <2>2. Working' = Working /\ workers' = workers
    BY <1>0, <1>3 DEF InputAdmitted, flags
  <2>3. \A q \in Ops : Held(q)'
    BY <1>0, <1>3, <1>2, OwnIsOne DEF Held, BashStages, InputAdmitted, slots
  <2>4. QED
    BY <1>1, <1>2, <2>1, <2>2, <2>3
<1>4. CASE InputEnds(o)
  <2>1. Frames
    BY <1>0, <1>4 DEF InputEnds, slots
  <2>2. Working' = Working /\ workers' = workers
    BY <1>0, <1>4 DEF InputEnds, flags
  <2>3. \A q \in Ops : Held(q)'
    BY <1>0, <1>4, <1>2, OwnIsOne DEF Held, BashStages, InputEnds, slots
  <2>4. QED
    BY <1>1, <1>2, <2>1, <2>2, <2>3
<1>5. CASE NavigateAdmitted(o)
  <2>1. Frames
    BY <1>0, <1>5 DEF NavigateAdmitted, slots
  <2>2. Working' = Working /\ workers' = workers
    BY <1>0, <1>5 DEF NavigateAdmitted, flags
  <2>3. \A q \in Ops : Held(q)'
    BY <1>0, <1>5, <1>2, OwnIsOne
    DEF Held, BashStages, NavigateAdmitted, Compacting, slots
  <2>4. QED
    BY <1>1, <1>2, <2>1, <2>2, <2>3
<1>6. CASE NavigateEnds(o)
  <2>1. Frames
    BY <1>0, <1>6 DEF NavigateEnds, slots
  <2>2. Working' = Working /\ workers' = workers
    BY <1>0, <1>6 DEF NavigateEnds, flags
  <2>3. \A q \in Ops : Held(q)'
    BY <1>0, <1>6, <1>2, OwnIsOne, ZenonT(60) DEF Held, BashStages, NavigateEnds, slots
  <2>4. QED
    BY <1>1, <1>2, <2>1, <2>2, <2>3
<1>7. CASE ReloadAdmitted(o)
  <2>1. Frames
    BY <1>0, <1>7 DEF ReloadAdmitted, slots
  <2>2. Working' = Working /\ workers' = workers
    BY <1>0, <1>7 DEF ReloadAdmitted, flags
  <2>3. \A q \in Ops : Held(q)'
    BY <1>0, <1>7, <1>2, OwnIsOne DEF Held, BashStages, ReloadAdmitted, slots
  <2>4. QED
    BY <1>1, <1>2, <2>1, <2>2, <2>3
<1>8. CASE ReloadEnds(o)
  <2>1. Frames
    BY <1>0, <1>8 DEF ReloadEnds, slots
  <2>2. Working' = Working /\ workers' = workers
    BY <1>0, <1>8 DEF ReloadEnds, flags
  <2>3. \A q \in Ops : Held(q)'
    BY <1>0, <1>8, <1>2, OwnIsOne, ZenonT(60) DEF Held, BashStages, ReloadEnds, slots
  <2>4. QED
    BY <1>1, <1>2, <2>1, <2>2, <2>3
<1>9. CASE BashAdmitted(o)
  <2>1. Frames
    BY <1>0, <1>9 DEF BashAdmitted, slots
  <2>2. Working' = Working /\ workers' = workers
    BY <1>0, <1>9 DEF BashAdmitted, flags
  <2>3. \A q \in Ops : Held(q)'
    BY <1>0, <1>9, <1>2, OwnIsOne DEF Held, BashStages, BashAdmitted, slots
  <2>4. QED
    BY <1>1, <1>2, <2>1, <2>2, <2>3
<1>10. CASE BashLeaves(o)
  <2>1. Frames
    BY <1>0, <1>10 DEF BashLeaves, slots
  <2>2. Working' = Working /\ workers' = workers
    BY <1>0, <1>10 DEF BashLeaves, flags
  <2>3. \A q \in Ops : Held(q)'
    BY <1>0, <1>10, <1>2, OwnIsOne DEF Held, BashStages, BashLeaves, slots
  <2>4. QED
    BY <1>1, <1>2, <2>1, <2>2, <2>3
<1>11. QED
  BY <1>3, <1>4, <1>5, <1>6, <1>7, <1>8, <1>9, <1>10

\* A run that is admitted is counted, and nobody has found it yet, ...
LEMMA RunIsAdmitted ==
  ASSUME WorkInv, NEW r \in Ops, Admit(r)
  PROVE  WorkInv'
<1> USE SessionWorkAssumption
    DEF PcStep, Go, At, Procs, bounds, life, flags, agent, notes, ids
<1>0. WorkTyped /\ pc = [ q \in Procs |-> pc[q] ]
  BY DEF WorkInv, WorkTyped
<1>1. /\ PcStep(r) /\ pc[r] = "admit" /\ pc'[r] = "prepare"
      /\ kind[r] = "run" /\ lifecycle = "Open" /\ UNCHANGED kind
  BY <1>0 DEF Admit, ExternalOpen
<1>2. TypedStep(r) /\ ClosingStep(r) /\ AgentStep(r)
  BY <1>0, <1>1
  DEF Admit, WorkTyped, TypedStep, ClosingStep, AgentStep, AgentStages
<1>3. SlotsInv'
  <2>1. Working' = Working \cup { r } /\ r \notin Working
    BY <1>1 DEF Working, WorkerStages
  <2>2. IsFiniteSet(Working') /\ workers' = Cardinality(Working')
    BY <2>1, FS_AddElement DEF WorkInv, SlotsInv, Admit
  <2>3. \A q \in Ops : Held(q)'
    BY <1>1 DEF WorkInv, SlotsInv, Held, Admit, BashStages, Own
  <2>4. QED
    BY <2>2, <2>3 DEF SlotsInv
<1>4. \A q : Admitted(q) => Admitted(q)' /\ q # r
  BY <1>1 DEF Admitted, Before
<1>5. LoneInv'
  <2>1. \A q \in Ops : runToken' = Own(q) => Admitted(q)'
    BY <1>1, OwnIsOne DEF Admit, Admitted, Before
  <2>2. \A p \in Procs : \A q \in targets'[p] : Admitted(q)'
    BY <1>4 DEF WorkInv, LoneInv, Admit
  <2>3. ASSUME NEW q \in alone'
        PROVE  /\ Admitted(q)' /\ Unsettled' \subseteq { q }
               /\ pc'[q] \in RetryStages => retryToken' = << q, "retry" >>
    <3>1. q = r /\ Unsettled = { }
      BY <2>3 DEF Admit
    <3>2. Unsettled' \subseteq { r }
      BY <1>1, <3>1 DEF Unsettled
    <3>3. QED
      BY <1>1, <3>1, <3>2 DEF Admitted, Before, RetryStages
  <2>4. QED
    BY <2>1, <2>2, <2>3 DEF LoneInv
<1>6. AbortInv'
  <2>1. \A p \in Procs : targets'[p] \cap alone' = { }
    BY <1>4 DEF WorkInv, LoneInv, Admit
  <2>2. QED
    BY <2>1 DEF AbortInv
<1>7. QED
  BY <1>2, <1>3, <1>5, <1>6, TypedKept, ClosingKept, AgentKept DEF WorkInv

\* ... and counted off again.
LEMMA RunLeaves ==
  ASSUME WorkInv, NEW r \in Ops, Leave(r)
  PROVE  WorkInv'
<1> USE SessionWorkAssumption
    DEF PcStep, Go, At, Procs, bounds, life, agent, notes, ids, found
<1>0. WorkTyped /\ pc = [ q \in Procs |-> pc[q] ]
  BY DEF WorkInv, WorkTyped
<1>1. /\ PcStep(r) /\ pc[r] = "leave" /\ pc'[r] \in { "leaveLast", "left" }
      /\ kind[r] = "run" /\ UNCHANGED kind
  BY <1>0 DEF Leave
<1>2. TypedStep(r) /\ ClosingStep(r) /\ AgentStep(r)
  BY <1>0, <1>1
  DEF Leave, WorkTyped, TypedStep, ClosingStep, AgentStep, AgentStages, AtWork,
      WorkerStages, InputStages
<1>3. LoneStep(r) /\ AbortStep(r)
  BY <1>0, <1>1
  DEF Leave, slots, LoneStep, AbortStep, Before, UnsettledStages, WorkerStages,
      RetryStages, Cancelling, Warned, Turning, AgentStages
<1>4. SlotsInv'
  <2>1. Working' = Working \ { r } /\ r \in Working
    BY <1>1 DEF Working, WorkerStages
  <2>2. IsFiniteSet(Working') /\ workers' = Cardinality(Working')
    BY <2>1, FS_RemoveElement DEF WorkInv, SlotsInv, Leave
  <2>3. \A q \in Ops : Held(q)'
    BY <1>1 DEF WorkInv, SlotsInv, Held, Leave, slots, BashStages, Own
  <2>4. QED
    BY <2>2, <2>3 DEF SlotsInv
<1>5. QED
  BY <1>2, <1>3, <1>4, TypedKept, ClosingKept, AgentKept, LoneKept, AbortKept
  DEF WorkInv

\* The agent's run begins when it has none, and is the only one.
LEMMA AgentMoves ==
  ASSUME WorkInv, NEW r \in Ops,
         \/ AgentStarts(r) \/ AgentStarted(r) \/ CallsTool(r) \/ AgentEnds(r)
  PROVE  WorkInv'
<1> USE SessionWorkAssumption
    DEF PcStep, Go, At, Procs, bounds, life, flags, slots, agent, notes, ids,
        found
<1>0. WorkTyped /\ pc = [ q \in Procs |-> pc[q] ]
  BY DEF WorkInv, WorkTyped
<1>1. /\ PcStep(r) /\ kind[r] = "run" /\ UNCHANGED kind
      /\ pc[r] \in { "prompt", "agentStart", "turn", "answer", "broken" }
      /\ pc'[r] \in { "finish", "loop", "agentStart", "turn", "tool" }
      /\ pc'[r] = "agentStart" => pc[r] = "prompt"
      /\ pc'[r] = "turn" => pc[r] = "agentStart"
      /\ pc'[r] = "tool" => pc[r] = "turn"
  BY <1>0 DEF AgentStarts, AgentStarted, CallsTool, AgentEnds
<1>2. UNCHANGED << kind, life, flags, slots, cancelled, notes, found >>
  BY DEF AgentStarts, AgentStarted, CallsTool, AgentEnds
<1>3. TypedStep(r) /\ SlotsStep(r) /\ ClosingStep(r) /\ LoneStep(r)
  BY <1>0, <1>1, <1>2
  DEF WorkTyped, TypedStep, SlotsStep, ClosingStep, LoneStep, AtWork,
      WorkerStages, InputStages, Before, UnsettledStages, RetryStages
<1>4. \A q \in Ops : q # None
  OBVIOUS
<1>5. /\ \A q \in Ops :
           kind[q] = "run" /\ pc[q] \in AgentStages => agentRun = q
      /\ toolCall = "open" => \E q \in Ops : At(q, "run", "tool")
  BY DEF WorkInv, AgentInv
<1>6. AgentInv'
  <2>1. CASE AgentStarts(r)
    BY <1>1, <1>4, <1>5, <2>1 DEF AgentStarts, AgentInv, AgentStages
  <2>2. CASE AgentStarted(r)
    BY <1>1, <1>5, <2>2 DEF AgentStarted, AgentInv, AgentStages
  <2>3. CASE CallsTool(r)
    BY <1>1, <1>5, <2>3 DEF CallsTool, AgentInv, AgentStages
  <2>4. CASE AgentEnds(r)
    BY <1>1, <1>5, <2>4 DEF AgentEnds, AgentInv, AgentStages
  <2>5. QED
    BY <2>1, <2>2, <2>3, <2>4
<1>7. AbortInv'
  <2>1. ASSUME NEW p \in Procs, NEW q \in targets'[p] \cap alone',
               active', pc'[p] \in Cancelling
        PROVE  /\ q \in targets[p] \cap alone /\ q \in Ops /\ kind[q] = "run"
               /\ active /\ pc[p] \in Cancelling /\ pc'[p] = pc[p]
               /\ abortReq /\ abortReq'
    <3>1. q \in targets[p] \cap alone /\ active
      BY <1>2, <2>1
    <3>2. Admitted(q)
      BY <3>1 DEF WorkInv, LoneInv
    <3>3. p # r
      BY <1>1, <2>1 DEF Cancelling
    <3>4. QED
      BY <1>1, <1>2, <2>1, <3>1, <3>2, <3>3
      DEF WorkInv, AbortInv, Admitted, Cancelling
  <2>2. ASSUME NEW p \in Procs, NEW q \in targets'[p] \cap alone',
               active', pc'[p] \in Cancelling, pc'[p] # "cancelRest",
               pc'[q] \in { "retryOmit", "retrySleep" }
        PROVE  << q, "retry" >> \in cancelled'
    BY <1>1, <1>2, <2>1, <2>2 DEF WorkInv, AbortInv
  <2>3. ASSUME NEW p \in Procs, NEW q \in targets'[p] \cap alone',
               active', pc'[p] \in Cancelling, pc'[p] # "cancelRest",
               pc'[q] \in AgentStages \ { "agentStart" }
        PROVE  agentAborted'
    <3>1. q \in Ops /\ kind[q] = "run" /\ pc[q] \in AgentStages /\ abortReq
      BY <1>1, <2>1, <2>3 DEF AgentStages
    <3>2. pc[q] # "agentStart" => agentAborted
      BY <2>1, <2>3, <3>1 DEF WorkInv, AbortInv
    <3>3. agentRun = q
      BY <1>5, <3>1
    <3>4. CASE AgentStarts(r)
      <4>1. agentAborted' = agentAborted /\ pc[r] = "prompt"
        BY <1>4, <3>1, <3>3, <3>4 DEF AgentStarts
      <4>2. pc'[q] = pc[q]
        BY <1>1, <3>1, <4>1 DEF AgentStages
      <4>3. QED
        BY <2>3, <3>2, <4>1, <4>2
    <3>5. CASE AgentStarted(r)
      BY <1>0, <1>1, <1>5, <3>1, <3>3, <3>5 DEF AgentStarted, AgentStages
    <3>6. CASE CallsTool(r)
      BY <1>0, <1>1, <1>5, <3>1, <3>2, <3>3, <3>6 DEF CallsTool, AgentStages
    <3>7. CASE AgentEnds(r)
      BY <1>0, <1>1, <2>3, <3>1, <3>3, <3>7 DEF AgentEnds, AgentStages
    <3>8. QED
      BY <3>4, <3>5, <3>6, <3>7
  <2>4. QED
    BY <2>1, <2>2, <2>3 DEF AbortInv
<1>8. QED
  BY <1>3, <1>6, <1>7, TypedKept, SlotsKept, ClosingKept, LoneKept DEF WorkInv

\* A retry takes the slot, which only the lone run is sure to keep.
LEMMA RetryMoves ==
  ASSUME WorkInv, NEW r \in Ops,
         \/ RetryTakesSlot(r) \/ RetryLooks(r) \/ RetryOmits(r)
         \/ RetrySlept(r)
  PROVE  WorkInv'
<1> USE SessionWorkAssumption
    DEF PcStep, Go, At, Procs, bounds, life, flags, slots, agent, notes, ids,
        found
<1>0. WorkTyped /\ pc = [ q \in Procs |-> pc[q] ]
  BY DEF WorkInv, WorkTyped
<1>1. /\ PcStep(r) /\ kind[r] = "run" /\ UNCHANGED kind
      /\ pc[r] \in { "retry", "retryLook", "retryOmit", "retrySleep" }
      /\ pc'[r] \in { "retryLook", "retryOmit", "retrySleep", "finish",
                      "prompt" }
      /\ pc'[r] = "retryLook" => pc[r] = "retry"
      /\ pc'[r] = "retryOmit" => pc[r] = "retryLook"
      /\ pc'[r] = "retrySleep" => pc[r] = "retryOmit"
  BY <1>0 DEF RetryTakesSlot, RetryLooks, RetryOmits, RetrySlept
<1>2. UNCHANGED << kind, lifecycle, active, workers, runToken, branch, reload,
                   inputs, bashes, agentRun, toolCall, notes, found >>
  BY DEF RetryTakesSlot, RetryLooks, RetryOmits, RetrySlept
<1>3. (abortReq => abortReq') /\ (agentAborted => agentAborted')
  <2>1. SetFatal \/ UNCHANGED << abortReq, agentAborted >>
    BY DEF RetryTakesSlot, RetryLooks, RetryOmits, RetrySlept
  <2>2. QED
    BY <2>1, FatalIsCalm
<1>4. TypedStep(r) /\ SlotsStep(r) /\ ClosingStep(r) /\ AgentStep(r)
  BY <1>0, <1>1, <1>2
  DEF WorkTyped, TypedStep, SlotsStep, ClosingStep, AgentStep, AtWork,
      WorkerStages, InputStages, AgentStages
<1>5. \A q \in alone : q = r
  BY <1>1 DEF WorkInv, LoneInv, Unsettled, WorkerStages
<1>6. LoneInv'
  <2>1. \A q : Admitted(q) => Admitted(q)'
    BY <1>1 DEF Admitted, Before
  <2>2. Unsettled' \subseteq Unsettled
    BY <1>1 DEF Unsettled, WorkerStages
  <2>3. ASSUME r \in alone, pc'[r] \in RetryStages
        PROVE  retryToken' = << r, "retry" >>
    <3>1. CASE RetryTakesSlot(r)
      BY <3>1 DEF RetryTakesSlot
    <3>2. CASE pc[r] \in RetryStages /\ retryToken' = retryToken
      BY <2>3, <3>2 DEF WorkInv, LoneInv
    <3>3. QED
      BY <1>0, <1>1, <2>3, <3>1, <3>2
      DEF RetryLooks, RetryOmits, RetrySlept, RetryStages
  <2>4. QED
    BY <1>2, <1>5, <2>1, <2>2, <2>3 DEF WorkInv, LoneInv
<1>7. AbortInv'
  <2>1. ASSUME NEW p \in Procs, r \in targets[p] \cap alone, active,
               pc'[p] \in Cancelling
        PROVE  /\ abortReq /\ abortReq' /\ pc'[p] = pc[p]
               /\ pc'[p] # "cancelRest" /\ pc'[r] \in Warned
                    => << r, "retry" >> \in cancelled'
    <3>1. pc'[p] = pc[p]
      BY <1>1, <2>1 DEF Cancelling
    <3>2. abortReq /\ abortReq'
      BY <1>3, <2>1, <3>1 DEF WorkInv, AbortInv
    <3>3. CASE RetryLooks(r)
      BY <3>1, <3>2, <3>3 DEF RetryLooks
    <3>4. ASSUME pc'[p] # "cancelRest", pc'[r] \in Warned,
                 pc[r] = "retryOmit"
          PROVE  << r, "retry" >> \in cancelled'
      <4>1. << r, "retry" >> \in cancelled
        BY <2>1, <3>1, <3>4 DEF WorkInv, AbortInv
      <4>2. QED
        BY <3>4, <4>1 DEF RetryTakesSlot, RetryLooks, RetryOmits, RetrySlept
    <3>5. QED
      BY <1>1, <3>1, <3>2, <3>3, <3>4
      DEF RetryTakesSlot, RetryOmits, RetrySlept, Warned
  <2>2. ASSUME NEW p \in Procs, r \in targets[p] \cap alone, active,
               pc'[p] \in Cancelling, pc'[p] # "cancelRest",
               pc'[r] \in Turning
        PROVE  agentAborted'
    BY <1>1, <2>2 DEF Turning, AgentStages
  <2>3. QED
    BY <1>2, <1>5, <2>1, <2>2 DEF AbortInv, Warned, Turning
<1>8. QED
  BY <1>4, <1>6, <1>7, TypedKept, SlotsKept, ClosingKept, AgentKept
  DEF WorkInv

\* An abort: what it cancels, and what it waits for.
LEMMA AbortMoves ==
  ASSUME WorkInv, NEW p \in Procs,
         CancelRun(p) \/ CancelFlag(p) \/ CancelRest(p)
  PROVE  WorkInv'
<1> USE SessionWorkAssumption
    DEF PcStep, Go, At, Procs, bounds, life, flags, slots, agent, notes, ids,
        found
<1>0. WorkTyped /\ pc = [ q \in Procs |-> pc[q] ]
  BY DEF WorkInv, WorkTyped
<1>1. /\ PcStep(p) /\ UNCHANGED kind
      /\ pc[p] \in { "cancel", "cancelFlag", "cancelRest" }
      /\ pc'[p] \in { "cancelFlag", "cancelRest", "agentIdle" }
  BY <1>0 DEF CancelRun, CancelFlag, CancelRest
<1>2. UNCHANGED << kind, life, slots, active, workers, agentRun, toolCall,
                   notes, alone >>
  BY DEF CancelRun, CancelFlag, CancelRest
<1>3. WorkTyped'
  BY <1>0, <1>1, <1>2 DEF WorkTyped, CancelRun, CancelFlag, CancelRest
<1>4. SlotsStep(p) /\ ClosingStep(p) /\ AgentStep(p)
  BY <1>0, <1>1, <1>2
  DEF SlotsStep, ClosingStep, AgentStep, AtWork, BashStages,
      WorkerStages, InputStages, AgentStages
<1>5. LoneInv'
  <2>1. \A r : Admitted(r) => Admitted(r)'
    BY <1>1 DEF Admitted, Before
  <2>2. Unsettled' \subseteq Unsettled
    BY <1>1 DEF Unsettled, WorkerStages
  <2>3. \A q \in Procs : \A r \in targets'[q] :
          r \in targets[q] \/ (r \in Ops /\ runToken = Own(r))
    BY <1>0 DEF WorkTyped, CancelRun, CancelFlag, CancelRest
  <2>4. \A q \in Procs : \A r \in targets'[q] : Admitted(r)
    BY <2>3 DEF WorkInv, LoneInv
  <2>5. \A r \in Ops : pc'[r] \in RetryStages => pc[r] \in RetryStages
    BY <1>1 DEF RetryStages
  <2>6. \A r \in alone : r \in Ops
    BY DEF WorkInv, LoneInv, Admitted
  <2>7. QED
    BY <1>2, <2>1, <2>2, <2>4, <2>5, <2>6 DEF WorkInv, LoneInv, Own
<1>6. CASE CancelRun(p)
  <2>1. \A q \in Procs : pc'[q] \in Cancelling => q # p /\ pc'[q] = pc[q]
    BY <1>0, <1>1, <1>6 DEF CancelRun, Cancelling
  <2>2. \A q \in Procs : q # p => targets'[q] = targets[q]
    BY <1>0, <1>6 DEF CancelRun, WorkTyped
  <2>3. \A r \in Ops : pc'[r] \in Warned \cup Turning => pc'[r] = pc[r]
    BY <1>1 DEF Warned, Turning, AgentStages
  <2>4. \A q \in Procs : \A r \in targets[q] : r \in Ops
    BY DEF WorkInv, LoneInv, Admitted
  <2>5. UNCHANGED << abortReq, agentAborted >> /\ cancelled \subseteq cancelled'
    BY <1>6 DEF CancelRun
  <2>6. AbortInv'
    BY <1>2, <2>1, <2>2, <2>3, <2>4, <2>5
    DEF WorkInv, AbortInv, Warned, Turning
  <2>7. QED
    BY <1>3, <1>4, <1>5, <2>6, SlotsKept, ClosingKept, AgentKept DEF WorkInv
<1>7. CASE CancelFlag(p) \/ CancelRest(p)
  <2>1. UNCHANGED targets /\ cancelled \subseteq cancelled'
    BY <1>7 DEF CancelFlag, CancelRest
  <2>2. \A r \in Ops : pc'[r] \in Warned \cup Turning => pc'[r] = pc[r]
    BY <1>1 DEF Warned, Turning, AgentStages
  <2>3. (abortReq => abortReq') /\ (agentAborted => agentAborted')
    <3>1. CASE CancelFlag(p)
      BY <3>1 DEF CancelFlag
    <3>2. CASE CancelRest(p)
      BY <3>2 DEF CancelRest
    <3>3. QED
      BY <1>7, <3>1, <3>2
  <2>4. ASSUME NEW q \in Procs, q # p, NEW r \in targets[q] \cap alone,
               active, pc'[q] \in Cancelling
        PROVE  /\ abortReq'
               /\ pc'[q] # "cancelRest" =>
                    /\ pc'[r] \in Warned => << r, "retry" >> \in cancelled'
                    /\ pc'[r] \in Turning => agentAborted'
    <3>1. pc'[q] = pc[q]
      BY <1>1, <2>4
    <3>2. r \in Ops
      BY <2>4 DEF WorkInv, LoneInv, Admitted
    <3>3. /\ abortReq
          /\ pc[q] # "cancelRest" =>
               /\ pc[r] \in Warned => << r, "retry" >> \in cancelled
               /\ pc[r] \in Turning => agentAborted
      BY <2>4, <3>1 DEF WorkInv, AbortInv, Warned, Turning
    <3>4. QED
      BY <2>1, <2>2, <2>3, <3>1, <3>2, <3>3
  <2>5. ASSUME NEW r \in targets[p] \cap alone, active,
               pc'[p] \in Cancelling
        PROVE  /\ abortReq'
               /\ pc'[p] # "cancelRest" =>
                    /\ pc'[r] \in Warned => << r, "retry" >> \in cancelled'
                    /\ pc'[r] \in Turning => agentAborted'
    <3>1. r \in Ops /\ kind[r] = "run"
      BY <2>5 DEF WorkInv, LoneInv, Admitted
    <3>2. CASE CancelFlag(p)
      <4>1. abortReq' /\ pc'[p] = "cancelRest"
        BY <1>0, <2>5, <3>2 DEF CancelFlag
      <4>2. QED
        BY <4>1
    <3>3. CASE CancelRest(p)
      <4>1. pc[p] = "cancelRest" /\ abortReq' = abortReq
        BY <3>3 DEF CancelRest
      <4>2. abortReq
        BY <2>5, <4>1 DEF WorkInv, AbortInv, Cancelling
      <4>3. pc'[r] \in Warned => << r, "retry" >> \in cancelled'
        <5>1. pc[r] \in Warned => retryToken = << r, "retry" >>
          BY <2>5 DEF WorkInv, LoneInv, Warned, RetryStages
        <5>2. << r, "retry" >> # None
          BY <3>1
        <5>3. QED
          BY <2>2, <3>1, <3>3, <5>1, <5>2 DEF CancelRest
      <4>4. pc'[r] \in Turning => agentAborted'
        <5>1. pc[r] \in Turning => agentRun = r
          BY <3>1 DEF WorkInv, AgentInv, Turning
        <5>2. r # None
          BY <3>1
        <5>3. QED
          BY <2>2, <3>1, <3>3, <5>1, <5>2 DEF CancelRest
      <4>5. QED
        BY <4>1, <4>2, <4>3, <4>4
    <3>4. QED
      BY <1>7, <3>2, <3>3
  <2>6. AbortInv'
    BY <1>2, <2>1, <2>4, <2>5 DEF AbortInv, Warned, Turning
  <2>7. QED
    BY <1>3, <1>4, <1>5, <2>6, SlotsKept, ClosingKept, AgentKept DEF WorkInv
<1>8. QED
  BY <1>6, <1>7

\* Who waits sees the session at rest only when it is: every work that counts
\* would be seen, by its slot or among the workers.
LEMMA RestIsRest ==
  ASSUME WorkInv, IsIdle
  PROVE  \A o \in Ops : ~AtWork(o)
<1>1. Working = { }
  BY FS_EmptySet DEF WorkInv, SlotsInv, IsIdle
<1>2. ASSUME NEW o \in Ops, AtWork(o)
      PROVE  FALSE
  <2>1. Held(o) /\ Own(o) # None
    BY OwnIsOne DEF WorkInv, SlotsInv
  <2>2. ~(kind[o] = "run" /\ pc[o] \in WorkerStages)
    BY <1>1 DEF Working
  <2>3. QED
    BY <1>2, <2>1, <2>2
    DEF AtWork, Held, At, IsIdle, IsIdleByFlags, Compacting, InputStages,
        BashStages
<1>3. QED
  BY <1>2

\* Both looks of wait_for_idle.
LEMMA WaitMoves ==
  ASSUME WorkInv, NEW p \in Procs, LookAndArm(p) \/ LookAgain(p)
  PROVE  WorkInv'
<1> USE SessionWorkAssumption
    DEF PcStep, Go, At, Procs, bounds, life, flags, slots, agent, notes, ids,
        found
<1>0. WorkTyped /\ pc = [ q \in Procs |-> pc[q] ]
  BY DEF WorkInv, WorkTyped
<1>1. /\ PcStep(p) /\ UNCHANGED kind
      /\ pc[p] \in { "look", "lookAgain" }
      /\ pc'[p] \in { "ready", "lookAgain", "parked" }
      /\ pc'[p] = "ready" => IsIdle
  BY <1>0 DEF LookAndArm, LookAgain
<1>2. UNCHANGED << kind, life, flags, slots, cancelled, agent, notes, found >>
  BY DEF LookAndArm, LookAgain
<1>3. TypedStep(p) /\ SlotsStep(p) /\ AgentStep(p)
  BY <1>0, <1>1, <1>2
  DEF WorkTyped, TypedStep, SlotsStep, AgentStep, BashStages, WorkerStages,
      AgentStages
<1>4. LoneStep(p) /\ AbortStep(p)
  BY <1>1, <1>2
  DEF LoneStep, AbortStep, Before, UnsettledStages, WorkerStages,
      RetryStages, Cancelling, Warned, Turning, AgentStages
<1>5. ClosingInv'
  <2>1. \A o \in Ops : AtWork(o)' => AtWork(o)
    BY <1>1 DEF AtWork, WorkerStages, InputStages
  <2>2. pc'[Closer] \in { "ready", "returned" } =>
          IsIdle \/ pc'[Closer] = pc[Closer]
    BY <1>1
  <2>3. /\ pc'[Closer] = "new" <=> pc[Closer] = "new"
        /\ pc[Closer] = "returned" => pc'[Closer] = "returned"
    BY <1>1
  <2>4. QED
    BY <1>2, <2>1, <2>2, <2>3, RestIsRest DEF WorkInv, ClosingInv
<1>6. QED
  BY <1>3, <1>4, <1>5, TypedKept, SlotsKept, AgentKept, LoneKept, AbortKept
  DEF WorkInv

\* The shutdown starts once, and closes what it has seen at rest.
LEMMA ShutdownMoves ==
  ASSUME WorkInv, NEW o \in Ops, ShutdownStarts(o)
  PROVE  WorkInv'
<1> USE SessionWorkAssumption
    DEF Go, At, Procs, bounds, life, flags, slots, agent, notes, ids, found
<1>0. WorkTyped /\ pc = [ q \in Procs |-> pc[q] ]
  BY DEF WorkInv, WorkTyped
<1>1. UNCHANGED << kind, flags, slots, cancelled, agent, notes, found >>
  BY DEF ShutdownStarts
<1>2. /\ pc' = [ q \in Procs |-> pc'[q] ]
      /\ kind[o] = "shutdown"
      /\ \A q \in Ops : q # o => pc'[q] = pc[q]
      /\ pc[o] = "new" /\ pc'[o] = "joined"
      /\ IF pc[Closer] = "new"
         THEN pc'[Closer] = "cancel" /\ lifecycle' = "Closing"
         ELSE pc'[Closer] = pc[Closer] /\ lifecycle' = lifecycle
  BY <1>0 DEF ShutdownStarts
<1>3. WorkTyped'
  BY <1>0, <1>1, <1>2 DEF WorkTyped
<1>4. \A q \in Ops : kind[q] # "shutdown" => pc'[q] = pc[q]
  BY <1>2
<1>5. SlotsInv'
  <2>1. Working' = Working
    BY <1>1, <1>4 DEF Working
  <2>2. \A q \in Ops : Held(q)'
    BY <1>1, <1>4 DEF WorkInv, SlotsInv, Held, Own
  <2>3. QED
    BY <1>1, <2>1, <2>2 DEF WorkInv, SlotsInv
<1>6. ClosingInv'
  <2>1. \A q \in Ops : AtWork(q)' => AtWork(q)
    BY <1>1, <1>4 DEF AtWork
  <2>2. QED
    BY <1>2, <2>1 DEF WorkInv, ClosingInv
<1>7. AgentInv'
  <2>1. \A q \in Ops : kind[q] = "run" => pc'[q] = pc[q]
    BY <1>4
  <2>2. QED
    BY <1>1, <2>1 DEF WorkInv, AgentInv
<1>8. LoneInv'
  <2>1. \A q : Admitted(q) => Admitted(q)' /\ pc'[q] = pc[q]
    BY <1>1, <1>4 DEF Admitted
  <2>2. Unsettled' = Unsettled
    BY <1>1, <1>4 DEF Unsettled
  <2>3. QED
    BY <1>1, <2>1, <2>2 DEF WorkInv, LoneInv, Own
<1>9. AbortInv'
  <2>1. \A q \in alone : pc'[q] = pc[q]
    BY <1>4 DEF WorkInv, LoneInv, Admitted
  <2>2. \A q \in Procs : pc'[q] \in Cancelling => pc'[q] = pc[q]
    BY <1>2 DEF Cancelling
  <2>3. QED
    BY <1>1, <2>1, <2>2 DEF WorkInv, AbortInv
<1>10. QED
  BY <1>3, <1>5, <1>6, <1>7, <1>8, <1>9 DEF WorkInv

\* The closer has seen the session at rest, and closes it.
LEMMA CloseMoves ==
  ASSUME WorkInv, Close
  PROVE  WorkInv'
<1> USE SessionWorkAssumption
    DEF PcStep, Go, At, Procs, bounds, flags, slots, agent, notes, ids, found
<1>0. WorkTyped /\ pc = [ q \in Procs |-> pc[q] ]
  BY DEF WorkInv, WorkTyped
<1>1. /\ PcStep(Closer) /\ UNCHANGED kind
      /\ pc[Closer] = "ready" /\ pc'[Closer] = "returned"
  BY <1>0 DEF Close
<1>2. TypedStep(Closer) /\ SlotsStep(Closer) /\ AgentStep(Closer)
  BY <1>0, <1>1 DEF Close, WorkTyped, TypedStep, SlotsStep, AgentStep
<1>3. LoneStep(Closer) /\ AbortStep(Closer)
  BY <1>0, <1>1 DEF Close, LoneStep, AbortStep, Cancelling
<1>4. ClosingInv'
  <2>1. \A o \in Ops : AtWork(o)' => AtWork(o)
    BY <1>1 DEF AtWork
  <2>2. QED
    BY <1>1, <2>1 DEF Close, WorkInv, ClosingInv
<1>5. QED
  BY <1>2, <1>3, <1>4, TypedKept, SlotsKept, AgentKept, LoneKept, AbortKept
  DEF WorkInv

-----------------------------------------------------------------------------
(* The invariant.                                                          *)

\* The invariant holds at first, ...
LEMMA WorkInit ==
  ASSUME Init
  PROVE  WorkInv
<1>1. WorkTyped
  BY SessionWorkAssumption DEF Init, WorkTyped
<1>2. /\ \A p \in Procs : pc[p] = "new" /\ targets[p] = { }
      /\ Closer \in Procs /\ Ops \subseteq Procs
  BY DEF Init, Procs
<1>3. Working = { } /\ Unsettled = { }
  BY <1>2 DEF Working, Unsettled, WorkerStages
<1>4. SlotsInv
  BY <1>2, <1>3, FS_EmptySet DEF Init, SlotsInv, Held, At, BashStages
<1>5. ClosingInv /\ AgentInv
  BY <1>2 DEF Init, ClosingInv, AgentInv, AgentStages
<1>6. LoneInv
  BY <1>2, OwnIsOne DEF Init, LoneInv
<1>7. AbortInv
  BY <1>2 DEF AbortInv
<1>8. QED
  BY <1>1, <1>4, <1>5, <1>6, <1>7 DEF WorkInv

\* ... and every step keeps it.
LEMMA WorkNext ==
  ASSUME WorkInv, [Next]_vars
  PROVE  WorkInv'
<1>1. ASSUME NEW o \in Ops, RunStep(o) \/ RunChoice(o)
      PROVE  WorkInv'
  BY <1>1, RunIsQuiet, QuietKept, SlotIsTaken, RunIsAdmitted, RunLeaves,
     AgentMoves, RetryMoves DEF RunStep, RunChoice
<1>2. ASSUME NEW o \in Ops, WorkStep(o) \/ CallerStep(o) \/ BashEnds(o)
      PROVE  WorkInv'
  <2>1. o \in Procs
    BY DEF Procs
  <2>2. CASE WorkStep(o)
    <3>1. CASE NavigateEnds(o) \/ ReloadAdmitted(o) \/ ReloadEnds(o)
                 \/ BashLeaves(o)
      BY <3>1, SlotIsTaken
    <3>2. CASE \/ CompactAdmitted(o) \/ CompactEnds(o) \/ Record(o)
               \/ CustomSent(o) \/ ReplaceAsked(o) \/ Replaced(o)
               \/ Rotated(o) \/ AbortReturns(o) \/ ShutdownReturns(o)
      <4>1. Quiet(o)
        BY <2>1, <3>2, OtherIsQuiet
      <4>2. QED
        BY <4>1, QuietKept
    <3>3. QED
      BY <2>2, <3>1, <3>2 DEF WorkStep
  <2>3. CASE CallerStep(o)
    <3>1. CASE Begin(o) \/ CustomLooks(o)
      BY <2>1, <3>1, OtherIsQuiet, QuietKept
    <3>2. CASE NavigateAdmitted(o) \/ BashAdmitted(o)
      BY <3>2, SlotIsTaken
    <3>3. QED
      BY <2>3, <3>1, <3>2, ShutdownMoves DEF CallerStep
  <2>4. CASE BashEnds(o)
    BY <2>1, <2>4, OtherIsQuiet, QuietKept
  <2>5. QED
    BY <1>2, <2>2, <2>3, <2>4
<1>3. ASSUME NEW p \in Procs, Aborting(p)
      PROVE  WorkInv'
  BY <1>3, OtherIsQuiet, QuietKept, AbortMoves, WaitMoves DEF Aborting
<1>4. CASE UNCHANGED vars
  BY <1>4, ZenonT(60)
  DEF vars, bounds, life, flags, slots, agent, notes, ids, found, WorkInv,
      WorkTyped, SlotsInv, Working, Held, At, Own, ClosingInv, AtWork,
      AgentInv, LoneInv, Admitted, Unsettled, AbortInv
<1>5. QED
  BY <1>1, <1>2, <1>3, <1>4, CloseMoves DEF Next

LEMMA WorkInvHolds == Spec => []WorkInv
BY WorkInit, WorkNext, PTL DEF Spec

\* The session is closed only after every run, input hook, navigation, reload
\* and bash command has ended: finish_shutdown (agent_session.rs) waits for
\* the session to be idle, and admits nothing meanwhile.
THEOREM WorkEndsFirst == Spec => []ClosedAfterWork
<1>1. WorkInv => ClosedAfterWork
  BY DEF WorkInv, ClosingInv, ClosedAfterWork
<1>2. QED
  BY <1>1, WorkInvHolds, PTL

\* An abort that has cancelled all it cancels reaches the run it found, if
\* that was admitted alone and its flag is set: cancel_active_operations on one
\* side, prepare_retry and handle_agent_event on the other.
THEOREM AbortsReach == Spec => []AbortReachesRun
<1>1. WorkInv => AbortReachesRun
  BY DEF WorkInv, AbortInv, AbortReachesRun, Cancelling, AgentStages
<1>2. QED
  BY <1>1, WorkInvHolds, PTL

-----------------------------------------------------------------------------
(* What is appended to the file, and when.                                 *)

Flushes(r) == Prepared(r) \/ PrepareFlushes(r) \/ FinishRun(r)

\* Messages reach the file by a flush, a bash result or a custom message.
LEMMA NotedBySome ==
  ASSUME Next
  PROVE  \/ noted' = noted
         \/ \E r \in Ops :
              Flushes(r) \/ TurnEnds(r) \/ Record(r) \/ CustomSent(r)
<1> USE DEF notes, Flushes
<1>1. ASSUME NEW o \in Ops, RunStep(o) \/ RunChoice(o)
      PROVE  noted' = noted \/ Flushes(o) \/ TurnEnds(o)
  BY <1>1
  DEF RunStep, RunChoice, RunCalled, InputAdmitted, InputEnds, Admit, Refuse,
      PrepareCompacts, PostCompacts, AutoCompact, PrepareCompacted,
      PostCompacted, AutoCompactEnds, PrepareCancelled, StartLogged, Submit,
      AgentStarts, AgentStarted, CallsTool, ToolEnds, FinalizeRefused,
      FinalizeFails, AgentEnds, PostRun, RetryTakesSlot, RetryLooks, RetryOmits, RetrySlept, ClearActive,
      Settled, Leave, LeaveClears, Left
<1>2. ASSUME NEW o \in Ops, WorkStep(o) \/ CallerStep(o) \/ BashEnds(o)
      PROVE  noted' = noted \/ Record(o) \/ CustomSent(o)
  BY <1>2
  DEF WorkStep, CallerStep, BashEnds, CompactAdmitted, CompactEnds,
      NavigateEnds, ReloadAdmitted, ReloadEnds, BashLeaves, ReplaceAsked,
      Replaced, Rotated, AbortReturns, ShutdownReturns, Begin,
      NavigateAdmitted, BashAdmitted, CustomLooks, ShutdownStarts
<1>3. ASSUME NEW p \in Procs, Aborting(p)
      PROVE  noted' = noted
  BY <1>3
  DEF Aborting, CancelRun, CancelFlag, CancelRest, AgentIsIdle, LookAndArm,
      LookAgain, Woken
<1>4. CASE Close
  BY <1>4 DEF Close
<1>5. QED
  BY <1>1, <1>2, <1>3, <1>4 DEF Next

\* The result of a bash command never comes between a tool call and its result
\* (record_bash_result_checked and the flushes of a run), unless two runs are
\* unsettled.
THEOREM PairsAreKept == Spec => BashKeepsPairs
<1> DEFINE Keeps ==
      \A o \in Ops :
        kind[o] = "bash" /\ o \in noted' \ noted =>
          toolCall # "open" \/ \E r, q \in Unsettled : r # q
<1>1. ASSUME WorkInv, [Next]_vars
      PROVE  [Keeps]_vars
  <2>1. SUFFICES ASSUME Next, NEW o \in Ops, kind[o] = "bash",
                        o \in noted' \ noted, toolCall = "open"
                 PROVE  \E r, q \in Unsettled : r # q
    BY <1>1
  <2>2. PICK t \in Ops : At(t, "run", "tool") /\ agentRun = t
    BY <1>1, <2>1 DEF WorkInv, AgentInv, AgentStages, At
  <2>3. t \in Unsettled
    BY <2>2 DEF At, Unsettled, WorkerStages
  <2>4. ASSUME NEW r \in Ops, Flushes(r)
        PROVE  r \in Unsettled /\ r # t
    BY <2>2, <2>4
    DEF Flushes, Prepared, PrepareFlushes, FinishRun, At, Unsettled,
        WorkerStages
  <2>5. ASSUME NEW r \in Ops, TurnEnds(r)
        PROVE  FALSE
    <3>1. \E i \in DOMAIN pendCustom : o = pendCustom[i]
      <4>1. noted' # noted
        BY <2>1
      <4>2. FlushFrom(<< >>, pendCustom)
        BY <2>5, <4>1 DEF TurnEnds, FlushCustom, notes
      <4>3. PICK b \in 0 .. Len(<< >>), c \in 0 .. Len(pendCustom) :
              noted' = noted \cup { << >>[i] : i \in 1 .. b }
                             \cup { pendCustom[i] : i \in 1 .. c }
        BY <4>2 DEF FlushFrom
      <4>4. pendCustom \in Seq(Ops) /\ b = 0
        BY <1>1, <4>3 DEF WorkInv, WorkTyped
      <4>5. PICK i \in 1 .. c : o = pendCustom[i]
        BY <2>1, <4>3, <4>4
      <4>6. i \in DOMAIN pendCustom
        BY <4>3, <4>4, <4>5
      <4>7. QED
        BY <4>5, <4>6
    <3>2. QED
      BY <1>1, <2>1, <3>1 DEF WorkInv, WorkTyped
  <2>6. ASSUME NEW r \in Ops, Record(r)
        PROVE  FALSE
    BY <2>1, <2>2, <2>6, SessionWorkAssumption DEF Record, Streaming
  <2>7. ASSUME NEW r \in Ops, CustomSent(r)
        PROVE  FALSE
    BY <2>1, <2>7 DEF CustomSent, At
  <2>8. QED
    BY <2>1, <2>3, <2>4, <2>5, <2>6, <2>7, NotedBySome
<1>2. QED
  BY <1>1, WorkInvHolds, PTL DEF Spec, BashKeepsPairs
=============================================================================
