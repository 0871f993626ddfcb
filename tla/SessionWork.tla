----------------------------- MODULE SessionWork -----------------------------
(***************************************************************************)
(* The work an AgentSession has under way and how it is admitted, aborted, *)
(* waited for and shut down (crates/pi-session/src/agent_session.rs):      *)
(* runs with their retries and automatic compactions, manual compaction,   *)
(* tree navigation, reload, bash commands, custom messages, replacement of *)
(* the session, abort() and shutdown().                                    *)
(*                                                                         *)
(* Every kind of work owns a slot with its cancellation token.  Slots are  *)
(* taken under operation_admission, but the flags an operation looks at    *)
(* before, and what abort() and the runs themselves do, are not under it.  *)
(* InputDelivery has what a prompt writes to the execution log and the     *)
(* deferred prompts; a run here is what the other operations see of it.    *)
(***************************************************************************)
EXTENDS Naturals, Sequences, FiniteSets, Notify

CONSTANTS
  Ops,       \* calls of the session's operations
  Closer,    \* the detached task of start_shutdown
  Mixes,     \* which operation each call may be: functions from Ops to Kinds
  MaxLaps,   \* bound: agent runs within a session run
  None

Kinds == { "none", "run", "compact", "navigate", "reload", "bash", "custom",
           "replace", "abort", "shutdown" }

ASSUME SessionWorkAssumption ==
  /\ Closer \notin Ops
  /\ None \notin Ops /\ None \notin Ops \X { "work", "auto", "retry" }
  /\ Mixes \subseteq [ Ops -> Kinds ]
  /\ MaxLaps \in Nat

VARIABLES
  kind, pc,
  lifecycle, storeOpen, fatal,
  active, workers, abortReq,       \* is_agent_run_active, active_run_workers,
                                   \* agent_run_abort_requested
  runToken, retryToken,            \* run_cancel, retry_cancel
  compaction, branch, reload,      \* the *_cancel slots
  inputs, bashes,                  \* active_input_cancels, active_bash_cancels
  cancelled,                       \* the tokens that were cancelled
  agentRun, agentAborted,          \* the agent's own run, if any
  toolCall,                        \* the last tool call in the file: "none"
                                   \* without its result, "open", "refused"
  pendBash, pendCustom, noted,     \* deferred messages; calls in the file
  session, seen,                   \* session id; the one a bash call began in
  laps,                            \* agent runs a session run has had
  targets,                         \* history: the run that an abort found
  alone,                           \* history: the last run that was admitted,
                                   \* if no other was unsettled then
  waiters                          \* idle_notify

life   == << lifecycle, storeOpen, fatal >>
flags  == << active, workers, abortReq >>
slots  == << runToken, retryToken, compaction, branch, reload, inputs,
             bashes >>
agent  == << agentRun, agentAborted, toolCall >>
notes  == << pendBash, pendCustom, noted >>
ids    == << session, seen >>
bounds == << kind, laps >>
found  == << targets, alone >>
vars   == << bounds, pc, life, flags, slots, cancelled, agent, notes, ids,
             found, waiters >>

Procs == Ops \cup { Closer }
Tokens == Ops \X { "work", "auto", "retry" }
Own(o) == << o, "work" >>

Init ==
  /\ kind \in Mixes /\ laps = [ o \in Ops |-> 0 ]
  /\ pc = [ p \in Procs |-> "new" ]
  /\ lifecycle = "Open" /\ storeOpen = TRUE /\ fatal = FALSE
  /\ active = FALSE /\ workers = 0 /\ abortReq = FALSE
  /\ runToken = None /\ retryToken = None
  /\ compaction = None /\ branch = None /\ reload = None
  /\ inputs = { } /\ bashes = { } /\ cancelled = { }
  /\ agentRun = None /\ agentAborted = FALSE /\ toolCall = "none"
  /\ pendBash = << >> /\ pendCustom = << >> /\ noted = { }
  /\ session = 0 /\ seen = [ o \in Ops |-> 0 ]
  /\ targets = [ p \in Procs |-> { } ] /\ alone = { }
  /\ waiters = [ p \in Procs |-> "none" ]

-----------------------------------------------------------------------------
(* What operations look at.                                                *)

ExternalOpen == lifecycle = "Open" /\ ~fatal
Writable     == lifecycle # "Closed" /\ ~fatal
Streaming    == active \/ agentRun # None
Compacting   == compaction # None \/ branch # None

\* A slip: active_run_workers is not asked.
IsIdleByFlags ==
  /\ ~Streaming /\ ~Compacting
  /\ bashes = { } /\ inputs = { } /\ reload = None

IsIdle == IsIdleByFlags /\ workers = 0

InputStages == { "hook" }
WorkerStages ==
  { "prepare", "prepareCompact", "prepareHooks", "unprepared", "start",
    "submit", "prompt", "agentStart", "turn", "tool", "turnEnd", "answer",
    "broken", "loop", "retry", "retryLook", "retryOmit", "retrySleep",
    "compactAfter", "compacting", "finish", "settle", "settled", "leave" }

\* The runs that were admitted and have still to clear the flag, or to flush.
\* There are two only if the flag of one was cleared behind its back: by the
\* last worker of an earlier run, as it leaves, or, before its last flush, by
\* the run itself when its preparation was cancelled.
Unsettled ==
  { r \in Ops :
      kind[r] = "run" /\ pc[r] \in WorkerStages \ { "settled", "leave" } }

At(p, k, stage) == p \in Ops /\ kind[p] = k /\ pc[p] = stage
Go(p, stage) == pc' = [ pc EXCEPT ![p] = stage ]
Return(p) == Go(p, "returned")
Wake == waiters' = NotifyWaiters(waiters)

\* set_fatal_runtime_error
SetFatal ==
  /\ fatal' = TRUE /\ abortReq' = TRUE
  /\ agentAborted' = (agentAborted \/ agentRun # None)

\* Deferred messages are drained, and appended one after the other until one
\* fails; what is behind it is dropped, and the failure is fatal.
FlushFrom(bash, custom) ==
  \E b \in 0 .. Len(bash), c \in 0 .. Len(custom) :
    /\ noted' = noted \cup { bash[i] : i \in 1 .. b }
                      \cup { custom[i] : i \in 1 .. c }
    /\ IF b = Len(bash) /\ c = Len(custom)
       THEN UNCHANGED << fatal, abortReq, agentAborted >>
       ELSE SetFatal

Flush ==
  /\ FlushFrom(pendBash, pendCustom)
  /\ pendBash' = << >> /\ pendCustom' = << >>

FlushCustom ==
  /\ FlushFrom(<< >>, pendCustom)
  /\ pendCustom' = << >> /\ UNCHANGED pendBash

-----------------------------------------------------------------------------
(* abort(): cancel_active_operations, then both waits.  It is part of      *)
(* compact(), reload(), the replacements and the shutdown.                 *)

AbortsFirst == { "compact", "reload", "replace", "abort" }

\* A slip: bash commands are left to end by themselves.
CancelAllButBash(p) ==
  /\ pc[p] = "cancelRest"
  /\ cancelled' = cancelled \cup
       ({ retryToken, compaction, branch, reload } \ { None }) \cup
       { Own(o) : o \in inputs }
  /\ agentAborted' = (agentAborted \/ agentRun # None)
  /\ Go(p, "agentIdle")
  /\ UNCHANGED << bounds, life, flags, slots, agentRun, toolCall, notes, ids,
                  found, waiters >>

\* run_cancel's token, ...
CancelRun(p) ==
  /\ pc[p] = "cancel"
  /\ cancelled' = cancelled \cup ({ runToken } \ { None })
  /\ targets' = [ targets EXCEPT ![p] =
       { r \in Ops : kind[r] = "run" /\ runToken = Own(r) /\ active } ]
  /\ Go(p, "cancelFlag")
  /\ UNCHANGED << bounds, life, flags, slots, agent, notes, ids, alone,
                  waiters >>

\* ... the flag of the active run, ...
CancelFlag(p) ==
  /\ pc[p] = "cancelFlag"
  /\ abortReq' = (abortReq \/ active)
  /\ Go(p, "cancelRest")
  /\ UNCHANGED << bounds, life, active, workers, slots, cancelled, agent,
                  notes, ids, found, waiters >>

\* ... the tokens of the other slots, and the agent's run.
CancelRest(p) ==
  /\ pc[p] = "cancelRest"
  /\ cancelled' = cancelled \cup
       ({ retryToken, compaction, branch, reload } \ { None }) \cup
       { Own(o) : o \in inputs \cup bashes }
  /\ agentAborted' = (agentAborted \/ agentRun # None)
  /\ Go(p, "agentIdle")
  /\ UNCHANGED << bounds, life, flags, slots, agentRun, toolCall, notes, ids,
                  found, waiters >>

\* agent.wait_for_idle()
AgentIsIdle(p) ==
  /\ pc[p] = "agentIdle" /\ agentRun = None
  /\ Go(p, "look")
  /\ UNCHANGED << bounds, life, flags, slots, cancelled, agent, notes, ids,
                  found, waiters >>

\* wait_for_idle(): look, create the future, look again, await it.
LookAndArm(p) ==
  /\ pc[p] = "look"
  /\ \/ IsIdle /\ Go(p, "ready") /\ UNCHANGED waiters
     \/ ~IsIdle /\ Go(p, "lookAgain") /\ waiters' = Arm(waiters, p)
  /\ UNCHANGED << bounds, life, flags, slots, cancelled, agent, notes, ids,
                  found >>

LookAgain(p) ==
  /\ pc[p] = "lookAgain"
  /\ \/ IsIdle /\ Go(p, "ready") /\ waiters' = Disarm(waiters, p)
     \/ ~IsIdle /\ Go(p, "parked") /\ UNCHANGED waiters
  /\ UNCHANGED << bounds, life, flags, slots, cancelled, agent, notes, ids,
                  found >>

Woken(p) ==
  /\ pc[p] = "parked" /\ waiters[p] = "fired"
  /\ waiters' = Disarm(waiters, p)
  /\ Go(p, "look")
  /\ UNCHANGED << bounds, life, flags, slots, cancelled, agent, notes, ids,
                  found >>

AbortReturns(o) ==
  /\ At(o, "abort", "ready")
  /\ Return(o)
  /\ UNCHANGED << bounds, life, flags, slots, cancelled, agent, notes, ids,
                  found, waiters >>

Aborting(p) ==
  \/ CancelRun(p) \/ CancelFlag(p) \/ CancelRest(p) \/ AgentIsIdle(p)
  \/ LookAndArm(p) \/ LookAgain(p) \/ Woken(p)

\* The operations that look at the lifecycle and abort before anything else.
Begin(o) ==
  /\ pc[o] = "new" /\ kind[o] \in AbortsFirst
  /\ \/ ~ExternalOpen /\ kind[o] # "abort" /\ Return(o)
     \/ /\ ExternalOpen \/ kind[o] = "abort"
        /\ Go(o, IF kind[o] = "replace" THEN "before" ELSE "cancel")
  /\ UNCHANGED << bounds, life, flags, slots, cancelled, agent, notes, ids,
                  found, waiters >>

-----------------------------------------------------------------------------
(* Runs: prompt() or continue_run(), then the worker of run_admitted.      *)

\* The checks of prompt(), made before anything is admitted.
RunCalled(r) ==
  /\ At(r, "run", "new")
  /\ \/ (~ExternalOpen \/ Compacting) /\ Return(r)
     \/ ExternalOpen /\ ~Compacting /\ (Go(r, "input") \/ Go(r, "admit"))
  /\ UNCHANGED << bounds, life, flags, slots, cancelled, agent, notes, ids,
                  found, waiters >>

\* emit_input_cancellable takes a slot of its own ...
InputAdmitted(r) ==
  /\ At(r, "run", "input")
  /\ \/ ~ExternalOpen /\ Return(r) /\ UNCHANGED inputs
     \/ ExternalOpen /\ inputs' = inputs \cup { r } /\ Go(r, "hook")
  /\ UNCHANGED << bounds, life, flags, runToken, retryToken, compaction,
                  branch, reload, bashes, cancelled, agent, notes, ids,
                  found, waiters >>

\* ... which ActiveInputGuard gives back: the hook was cancelled or dealt with
\* the input, or let it pass; while a run is active the message is queued.
InputEnds(r) ==
  /\ At(r, "run", "hook")
  /\ inputs' = inputs \ { r } /\ Wake
  /\ \/ Return(r)
     \/ ExternalOpen /\ ~Streaming /\ Own(r) \notin cancelled /\ Go(r, "admit")
  /\ UNCHANGED << bounds, life, flags, runToken, retryToken, compaction,
                  branch, reload, bashes, cancelled, agent, notes, ids,
                  found >>

\* start_session_run under operation_admission.
Admit(r) ==
  /\ At(r, "run", "admit")
  /\ ExternalOpen /\ reload = None /\ ~active
  /\ active' = TRUE /\ workers' = workers + 1 /\ abortReq' = FALSE
  /\ runToken' = Own(r)
  /\ alone' = IF Unsettled = { } THEN { r } ELSE { }
  /\ Go(r, "prepare")
  /\ UNCHANGED << bounds, life, retryToken, compaction, branch, reload,
                  inputs, bashes, cancelled, agent, notes, ids, targets,
                  waiters >>

Refuse(r) ==
  /\ At(r, "run", "admit")
  /\ ~ExternalOpen \/ reload # None \/ active
  /\ Return(r)
  /\ UNCHANGED << bounds, life, flags, slots, cancelled, agent, notes, ids,
                  found, waiters >>

\* run_auto_compaction takes the slot whatever is in it.
AutoCompact(r, from, to) ==
  /\ At(r, "run", from)
  /\ compaction' = << r, "auto" >>
  /\ cancelled' = cancelled \ { << r, "auto" >> }
  /\ Go(r, to)
  /\ UNCHANGED << bounds, life, flags, runToken, retryToken, branch, reload,
                  inputs, bashes, agent, notes, ids, found, waiters >>

AutoCompactEnds(r, from, next) ==
  /\ At(r, "run", from)
  /\ compaction' = None /\ Wake
  /\ \E to \in next : Go(r, to)
  /\ UNCHANGED << bounds, life, flags, runToken, retryToken, branch, reload,
                  inputs, bashes, cancelled, agent, notes, ids, found >>

\* prepare_run: a compaction the last answer calls for, and the hooks.
PrepareCompacts(r) == AutoCompact(r, "prepare", "prepareCompact")
PrepareCompacted(r) ==
  AutoCompactEnds(r, "prepareCompact", { "prepareHooks" })

Prepared(r) ==
  /\ pc[r] \in { "prepare", "prepareHooks" } /\ kind[r] = "run"
  /\ Own(r) \notin cancelled
  /\ Flush
  /\ Go(r, "start")
  /\ UNCHANGED << bounds, lifecycle, storeOpen, active, workers, slots,
                  cancelled, agentRun, toolCall, ids, found, waiters >>

\* The select of run_admitted drops prepare_run where it stands when the run
\* is cancelled: what that had put in the compaction slot stays there.
PrepareCancelled(r) ==
  /\ pc[r] \in { "prepare", "prepareCompact", "prepareHooks" }
  /\ kind[r] = "run"
  /\ Own(r) \in cancelled
  /\ active' = FALSE
  /\ Go(r, "unprepared")
  /\ UNCHANGED << bounds, life, workers, abortReq, slots, cancelled, agent,
                  notes, ids, found, waiters >>

PrepareFlushes(r) ==
  /\ At(r, "run", "unprepared")
  /\ Flush /\ Wake
  /\ Go(r, "leave")
  /\ UNCHANGED << bounds, lifecycle, storeOpen, active, workers, slots,
                  cancelled, agentRun, toolCall, ids, found >>

\* log.start_run, whose failure ends the run.
StartLogged(r) ==
  /\ At(r, "run", "start")
  /\ \/ Go(r, "submit") /\ UNCHANGED << active, waiters >>
     \/ active' = FALSE /\ Wake /\ Go(r, "leave")
  /\ UNCHANGED << bounds, life, workers, abortReq, slots, cancelled, agent,
                  notes, ids, found >>

\* The last look at the token, then agent.prompt: two steps.
Submit(r) ==
  /\ At(r, "run", "submit")
  /\ Go(r, IF Own(r) \in cancelled THEN "finish" ELSE "prompt")
  /\ UNCHANGED << bounds, life, flags, slots, cancelled, agent, notes, ids,
                  found, waiters >>

\* agent.prompt, agent.continue_run: refused while the agent has a run.
AgentStarts(r) ==
  /\ At(r, "run", "prompt")
  /\ \/ agentRun # None /\ Go(r, "finish")
        /\ UNCHANGED << agentRun, agentAborted, laps >>
     \/ /\ agentRun = None /\ laps[r] < MaxLaps
        /\ agentRun' = r /\ agentAborted' = FALSE
        /\ laps' = [ laps EXCEPT ![r] = @ + 1 ]
        /\ Go(r, "agentStart")
  /\ UNCHANGED << kind, life, flags, slots, cancelled, toolCall, notes, ids,
                  found, waiters >>

\* A slip: the agent's start is not asked whether it still is wanted.
AgentStartUnasked(r) ==
  /\ At(r, "run", "agentStart")
  /\ Go(r, "turn")
  /\ UNCHANGED << bounds, life, flags, slots, cancelled, agent, notes, ids,
                  found, waiters >>

\* The AgentStart event: an abort that came before there was an agent's run
\* to abort is made good here.
AgentStarted(r) ==
  /\ At(r, "run", "agentStart")
  /\ agentAborted' = (agentAborted \/ abortReq)
  /\ Go(r, "turn")
  /\ UNCHANGED << bounds, life, flags, slots, cancelled, agentRun, toolCall,
                  notes, ids, found, waiters >>

\* An assistant message with a tool call is in the file, ...
CallsTool(r) ==
  /\ At(r, "run", "turn") /\ ~agentAborted /\ ~fatal
  /\ toolCall' = "open"
  /\ Go(r, "tool")
  /\ UNCHANGED << bounds, life, flags, slots, cancelled, agentRun,
                  agentAborted, notes, ids, found, waiters >>

\* ... then its result; the end of the turn flushes the custom messages.
ToolEnds(r) ==
  /\ At(r, "run", "tool") /\ ~fatal
  /\ toolCall' = "none"
  /\ Go(r, "turnEnd")
  /\ UNCHANGED << bounds, life, flags, slots, cancelled, agentRun,
                  agentAborted, notes, ids, found, waiters >>

\* handle_finalize_message takes no message of a fatal session: the agent's
\* run ends in an error, and a result that was refused never comes.
FinalizeRefused(r) ==
  /\ kind[r] = "run" /\ pc[r] \in { "turn", "tool", "answer" } /\ fatal
  /\ toolCall' = IF pc[r] = "tool" THEN "refused" ELSE toolCall
  /\ Go(r, "broken")
  /\ UNCHANGED << bounds, life, flags, slots, cancelled, agentRun,
                  agentAborted, notes, ids, found, waiters >>

\* Or it cannot store the message, or settle the call in the log.
FinalizeFails(r) ==
  /\ kind[r] = "run" /\ pc[r] \in { "turn", "tool", "answer" } /\ ~fatal
  /\ toolCall' \in IF pc[r] = "tool" THEN { "none", "refused" }
                                     ELSE { toolCall }
  /\ SetFatal
  /\ Go(r, "broken")
  /\ UNCHANGED << bounds, lifecycle, storeOpen, active, workers, slots,
                  cancelled, agentRun, notes, ids, found, waiters >>

TurnEnds(r) ==
  /\ At(r, "run", "turnEnd")
  /\ \/ ~fatal /\ FlushCustom
     \/ fatal /\ UNCHANGED << notes, fatal, abortReq, agentAborted >>
  /\ Go(r, "answer")
  /\ UNCHANGED << bounds, lifecycle, storeOpen, active, workers, slots,
                  cancelled, agentRun, toolCall, ids, found, waiters >>

\* The agent's run is over, as a success or not.
AgentEnds(r) ==
  /\ pc[r] \in { "turn", "answer", "broken" } /\ kind[r] = "run"
  /\ agentRun = r
  /\ agentRun' = None /\ agentAborted' = FALSE
  /\ \/ Go(r, "finish")
     \/ pc[r] # "broken" /\ Go(r, "loop")
  /\ UNCHANGED << bounds, life, flags, slots, cancelled, toolCall, notes, ids,
                  found, waiters >>

GivenUp == abortReq \/ fatal

\* handle_post_agent_run, and the settle boundary: the answer calls for a
\* retry, for a compaction, there is more to do, or nothing.
PostRun(r) ==
  /\ At(r, "run", "loop")
  /\ \/ Go(r, "finish")
     \/ ~GivenUp /\ laps[r] < MaxLaps
        /\ (Go(r, "retry") \/ Go(r, "compactAfter") \/ Go(r, "prompt"))
  /\ UNCHANGED << bounds, life, flags, slots, cancelled, agent, notes, ids,
                  found, waiters >>

\* prepare_retry: its token first, then a look at the flags, ...
RetryTakesSlot(r) ==
  /\ At(r, "run", "retry")
  /\ retryToken' = << r, "retry" >>
  /\ cancelled' = cancelled \ { << r, "retry" >> }
  /\ Go(r, "retryLook")
  /\ UNCHANGED << bounds, life, flags, runToken, compaction, branch, reload,
                  inputs, bashes, agent, notes, ids, found, waiters >>

RetryLooks(r) ==
  /\ At(r, "run", "retryLook")
  /\ cancelled' = cancelled \cup
       (IF lifecycle # "Open" \/ abortReq THEN { << r, "retry" >> } ELSE { })
  /\ Go(r, "retryOmit")
  /\ UNCHANGED << bounds, life, flags, slots, agent, notes, ids, found,
                  waiters >>

\* ... the failed attempt is omitted from the context, which may fail, ...
RetryOmits(r) ==
  /\ At(r, "run", "retryOmit")
  /\ \/ /\ Go(r, "retrySleep")
        /\ UNCHANGED << fatal, abortReq, agentAborted, retryToken >>
     \/ SetFatal /\ retryToken' = None /\ Go(r, "finish")
  /\ UNCHANGED << bounds, lifecycle, storeOpen, active, workers, runToken,
                  compaction, branch, reload, inputs, bashes, cancelled,
                  agentRun, toolCall, notes, ids, found, waiters >>

\* ... and the delay, which the token cuts short.
RetrySlept(r) ==
  /\ At(r, "run", "retrySleep")
  /\ retryToken' = None
  /\ \/ << r, "retry" >> \in cancelled /\ Go(r, "finish")
     \/ << r, "retry" >> \notin cancelled
        /\ Go(r, IF GivenUp THEN "finish" ELSE "prompt")
  /\ UNCHANGED << bounds, life, flags, runToken, compaction, branch, reload,
                  inputs, bashes, cancelled, agent, notes, ids, found,
                  waiters >>

\* check_compaction after a run.
PostCompacts(r) == AutoCompact(r, "compactAfter", "compacting")
PostCompacted(r) ==
  AutoCompactEnds(r, "compacting",
                  IF GivenUp THEN { "finish" } ELSE { "finish", "prompt" })

\* log.finish_run, whose failure is fatal, and the last flush.
FinishRun(r) ==
  /\ At(r, "run", "finish")
  /\ Flush
  /\ Go(r, "settle")
  /\ UNCHANGED << bounds, lifecycle, storeOpen, active, workers, slots,
                  cancelled, agentRun, toolCall, ids, found, waiters >>

\* emit_agent_settled: the flag, the listeners and deferred actions.
ClearActive(r) ==
  /\ At(r, "run", "settle")
  /\ active' = FALSE
  /\ Go(r, "settled")
  /\ UNCHANGED << bounds, life, workers, abortReq, slots, cancelled, agent,
                  notes, ids, found, waiters >>

Settled(r) ==
  /\ At(r, "run", "settled")
  /\ Wake
  /\ Go(r, "leave")
  /\ UNCHANGED << bounds, life, flags, slots, cancelled, agent, notes, ids,
                  found >>

\* A slip: the worker that is not the last does not wake who waits.
LeaveQuietly(r) ==
  /\ At(r, "run", "leave")
  /\ workers' = workers - 1
  /\ Return(r)
  /\ UNCHANGED << bounds, life, active, abortReq, slots, cancelled, agent,
                  notes, ids, found, waiters >>

\* ActiveRunGuard: counted off; the last one clears the flag, then all wake.
Leave(r) ==
  /\ At(r, "run", "leave")
  /\ workers' = workers - 1
  /\ Go(r, IF workers = 1 THEN "leaveLast" ELSE "left")
  /\ UNCHANGED << bounds, life, active, abortReq, slots, cancelled, agent,
                  notes, ids, found, waiters >>

LeaveClears(r) ==
  /\ At(r, "run", "leaveLast")
  /\ active' = FALSE
  /\ Go(r, "left")
  /\ UNCHANGED << bounds, life, workers, abortReq, slots, cancelled, agent,
                  notes, ids, found, waiters >>

Left(r) ==
  /\ At(r, "run", "left")
  /\ Wake /\ Return(r)
  /\ UNCHANGED << bounds, life, flags, slots, cancelled, agent, notes, ids,
                  found >>

RunStep(r) ==
  \/ InputAdmitted(r) \/ InputEnds(r) \/ Admit(r) \/ Refuse(r)
  \/ PrepareCompacted(r) \/ Prepared(r) \/ PrepareCancelled(r)
  \/ PrepareFlushes(r) \/ StartLogged(r) \/ Submit(r) \/ AgentStarts(r)
  \/ AgentStarted(r) \/ ToolEnds(r) \/ FinalizeRefused(r) \/ TurnEnds(r)
  \/ AgentEnds(r) \/ PostRun(r) \/ RetryTakesSlot(r) \/ RetryLooks(r) \/ RetryOmits(r)
  \/ RetrySlept(r) \/ PostCompacts(r) \/ PostCompacted(r) \/ FinishRun(r)
  \/ ClearActive(r) \/ Settled(r) \/ Leave(r) \/ LeaveClears(r) \/ Left(r)

\* Steps a run may take and need not.
RunChoice(r) ==
  \/ RunCalled(r) \/ PrepareCompacts(r) \/ CallsTool(r) \/ FinalizeFails(r)

-----------------------------------------------------------------------------
(* The other work.                                                         *)

\* compact(): its last look is under operation_admission.
CompactAdmitted(o) ==
  /\ At(o, "compact", "ready")
  /\ \/ ExternalOpen /\ ~Compacting
        /\ compaction' = Own(o) /\ Go(o, "work")
     \/ (~ExternalOpen \/ Compacting) /\ Return(o) /\ UNCHANGED compaction
  /\ UNCHANGED << bounds, life, flags, runToken, retryToken, branch, reload,
                  inputs, bashes, cancelled, agent, notes, ids, found,
                  waiters >>

\* ActiveAuxiliaryGuard empties the slot, whoever has it by now.
CompactEnds(o) ==
  /\ At(o, "compact", "work")
  /\ compaction' = None /\ Wake
  /\ Return(o)
  /\ UNCHANGED << bounds, life, flags, runToken, retryToken, branch, reload,
                  inputs, bashes, cancelled, agent, notes, ids, found >>

\* navigate_tree(): neither during a run nor during a compaction.
NavigateAdmitted(o) ==
  /\ At(o, "navigate", "new")
  /\ \/ ExternalOpen /\ ~Streaming /\ ~Compacting
        /\ branch' = Own(o) /\ Go(o, "work")
     \/ (~ExternalOpen \/ Streaming \/ Compacting)
        /\ Return(o) /\ UNCHANGED branch
  /\ UNCHANGED << bounds, life, flags, runToken, retryToken, compaction,
                  reload, inputs, bashes, cancelled, agent, notes, ids,
                  found, waiters >>

NavigateEnds(o) ==
  /\ At(o, "navigate", "work")
  /\ branch' = None /\ Wake
  /\ Return(o)
  /\ UNCHANGED << bounds, life, flags, runToken, retryToken, compaction,
                  reload, inputs, bashes, cancelled, agent, notes, ids,
                  found >>

\* start_reload
ReloadAdmitted(o) ==
  /\ At(o, "reload", "ready")
  /\ \/ ExternalOpen /\ reload = None
        /\ reload' = Own(o) /\ Go(o, "work")
     \/ (~ExternalOpen \/ reload # None) /\ Return(o) /\ UNCHANGED reload
  /\ UNCHANGED << bounds, life, flags, runToken, retryToken, compaction,
                  branch, inputs, bashes, cancelled, agent, notes, ids,
                  found, waiters >>

\* reload_internal swaps the runner unless it was cancelled or the session
\* closed; either way ActiveReloadGuard frees the slot.
ReloadEnds(o) ==
  /\ At(o, "reload", "work")
  /\ reload' = None /\ Wake
  /\ Return(o)
  /\ UNCHANGED << bounds, life, flags, runToken, retryToken, compaction,
                  branch, inputs, bashes, cancelled, agent, notes, ids,
                  found >>

\* execute_bash
BashAdmitted(o) ==
  /\ At(o, "bash", "new")
  /\ \/ /\ ExternalOpen
        /\ bashes' = bashes \cup { o } /\ seen' = [ seen EXCEPT ![o] = session ]
        /\ Go(o, "work")
     \/ ~ExternalOpen /\ Return(o) /\ UNCHANGED << bashes, seen >>
  /\ UNCHANGED << bounds, life, flags, runToken, retryToken, compaction,
                  branch, reload, inputs, cancelled, agent, notes, session,
                  found, waiters >>

\* The command ends by itself, or is cancelled; either may leave a result,
\* which is recorded if the session still is the one it began in.
BashEnds(o) ==
  /\ At(o, "bash", "work")
  /\ \/ Go(o, "unrecorded")
     \/ seen[o] = session /\ Go(o, "record")
  /\ UNCHANGED << bounds, life, flags, slots, cancelled, agent, notes, ids,
                  found, waiters >>

\* A slip: the result is appended whatever the session does.
RecordAtOnce(o) ==
  /\ At(o, "bash", "record")
  /\ \/ ~Writable /\ UNCHANGED << pendBash, noted >>
     \/ /\ Writable
        /\ noted' = noted \cup { o } /\ UNCHANGED pendBash
  /\ Go(o, "unrecorded")
  /\ UNCHANGED << bounds, life, flags, slots, cancelled, agent, pendCustom,
                  ids, found, waiters >>

\* record_bash_result_checked under operation_admission: no run can begin
\* between its look and its append.  An append that fails leaves nothing.
Record(o) ==
  /\ At(o, "bash", "record")
  /\ \/ ~Writable /\ UNCHANGED << pendBash, noted >>
     \/ /\ Writable /\ Streaming
        /\ pendBash' = Append(pendBash, o) /\ UNCHANGED noted
     \/ /\ Writable /\ ~Streaming
        /\ noted' \in { noted, noted \cup { o } } /\ UNCHANGED pendBash
  /\ Go(o, "unrecorded")
  /\ UNCHANGED << bounds, life, flags, slots, cancelled, agent, pendCustom,
                  ids, found, waiters >>

\* ActiveBashGuard
BashLeaves(o) ==
  /\ At(o, "bash", "unrecorded")
  /\ bashes' = bashes \ { o } /\ Wake
  /\ Return(o)
  /\ UNCHANGED << bounds, life, flags, runToken, retryToken, compaction,
                  branch, reload, inputs, cancelled, agent, notes, ids,
                  found >>

\* send_custom_message without a turn: no lock is held from the look at the
\* flags to what is done about them.
CustomLooks(o) ==
  /\ At(o, "custom", "new")
  /\ \/ ~ExternalOpen /\ Return(o)
     \/ ExternalOpen /\ Go(o, IF Streaming THEN "defer" ELSE "append")
  /\ UNCHANGED << bounds, life, flags, slots, cancelled, agent, notes, ids,
                  found, waiters >>

CustomSent(o) ==
  /\ \/ /\ At(o, "custom", "defer")
        /\ pendCustom' = Append(pendCustom, o) /\ UNCHANGED noted
     \/ /\ At(o, "custom", "append")
        /\ noted' \in { noted, noted \cup (IF storeOpen THEN { o } ELSE { }) }
        /\ UNCHANGED pendCustom
  /\ Return(o)
  /\ UNCHANGED << bounds, life, flags, slots, cancelled, agent, pendBash, ids,
                  found, waiters >>

\* fork, new_session, switch_session: the extensions may refuse it; after the
\* abort the manager is replaced without another look at the lifecycle.
ReplaceAsked(o) ==
  /\ At(o, "replace", "before")
  /\ Return(o) \/ Go(o, "cancel")
  /\ UNCHANGED << bounds, life, flags, slots, cancelled, agent, notes, ids,
                  found, waiters >>

Replaced(o) ==
  /\ At(o, "replace", "ready")
  /\ \/ Return(o) /\ UNCHANGED << session, storeOpen, toolCall >>
     \/ /\ session' = session + 1 /\ storeOpen' = TRUE /\ toolCall' = "none"
        /\ Go(o, "rotate")
  /\ UNCHANGED << bounds, lifecycle, fatal, flags, slots, cancelled, agentRun,
                  agentAborted, notes, seen, found, waiters >>

\* rotate_extension_runner_after_session_replacement: the new log may not
\* open, or not be reconciled, which also an active run prevents.
Rotated(o) ==
  /\ At(o, "replace", "rotate")
  /\ \/ SetFatal
     \/ ~Streaming /\ fatal' = FALSE /\ UNCHANGED << abortReq, agentAborted >>
  /\ Return(o)
  /\ UNCHANGED << bounds, lifecycle, storeOpen, active, workers, slots,
                  cancelled, agentRun, toolCall, notes, ids, found, waiters >>

-----------------------------------------------------------------------------
(* shutdown() and dispose(): start_shutdown once, then its detached task.  *)

ShutdownStarts(o) ==
  /\ At(o, "shutdown", "new")
  /\ IF pc[Closer] = "new"
     THEN /\ lifecycle' = "Closing"
          /\ pc' = [ pc EXCEPT ![o] = "joined", ![Closer] = "cancel" ]
     ELSE Go(o, "joined") /\ UNCHANGED lifecycle
  /\ UNCHANGED << bounds, storeOpen, fatal, flags, slots, cancelled, agent,
                  notes, ids, found, waiters >>

ShutdownReturns(o) ==
  /\ At(o, "shutdown", "joined") /\ pc[Closer] = "returned"
  /\ Return(o)
  /\ UNCHANGED << bounds, life, flags, slots, cancelled, agent, notes, ids,
                  found, waiters >>

\* finish_shutdown after its waits: the extensions hear of it and are
\* invalidated, then the stores are released and the session is closed.
Close ==
  /\ pc[Closer] = "ready"
  /\ storeOpen' = FALSE /\ lifecycle' = "Closed" /\ Wake
  /\ Go(Closer, "returned")
  /\ UNCHANGED << bounds, fatal, flags, slots, cancelled, agent, notes, ids,
                  found >>

\* What goes on by itself once begun, ...
WorkStep(o) ==
  \/ CompactAdmitted(o) \/ CompactEnds(o) \/ NavigateEnds(o)
  \/ ReloadAdmitted(o) \/ ReloadEnds(o) \/ Record(o) \/ BashLeaves(o)
  \/ CustomSent(o) \/ ReplaceAsked(o) \/ Replaced(o) \/ Rotated(o)
  \/ AbortReturns(o) \/ ShutdownReturns(o)

\* ... and what a caller does or a command does in its own time.
CallerStep(o) ==
  \/ Begin(o) \/ NavigateAdmitted(o) \/ BashAdmitted(o) \/ CustomLooks(o)
  \/ ShutdownStarts(o)

Done == \A o \in Ops : pc[o] = "returned" \/ kind[o] = "none"

Next ==
  \/ \E o \in Ops : RunStep(o) \/ RunChoice(o) \/ WorkStep(o) \/ CallerStep(o)
                    \/ BashEnds(o)
  \/ \E p \in Procs : Aborting(p)
  \/ Close

Spec == Init /\ [][Next]_vars

\* The runtime runs every task; a turn, a compaction, a navigation, a hook and
\* a delay end (streams and requests have timeouts), a bash command only if
\* it is cancelled.
FairSpec ==
  /\ Spec
  /\ \A o \in Ops :
       /\ WF_vars(RunStep(o)) /\ WF_vars(WorkStep(o))
       /\ WF_vars(Own(o) \in cancelled /\ BashEnds(o))
  /\ \A p \in Procs : WF_vars(Aborting(p))
  /\ WF_vars(Close)

-----------------------------------------------------------------------------
(* Properties.                                                             *)

\* What takes part in is_idle and is not done yet; a worker that was counted
\* off has only its guard left to run.
AtWork(o) ==
  \/ kind[o] = "run" /\ pc[o] \in WorkerStages \cup InputStages
  \/ kind[o] \in { "navigate", "reload" } /\ pc[o] = "work"
  \/ kind[o] = "bash" /\ pc[o] \in { "work", "record", "unrecorded" }

\* The session is closed only after every run, input hook, navigation, reload
\* and bash command has ended (finish_shutdown waits for it; a manual
\* compaction is not among them: a run may have emptied its slot).
ClosedAfterWork == lifecycle = "Closed" => \A o \in Ops : ~AtWork(o)

\* An abort that has cancelled all it cancels reaches the run it found, at
\* whatever point between two looks at the flags that was: its retry delay is
\* cut short, its agent's run is aborted (prepare_retry, handle_agent_event).
\* It does unless the flag of the run was cleared behind its back, or the run
\* was admitted beside another one whose flag was (Unsettled).
AbortReachesRun ==
  \A p \in Procs : \A r \in targets[p] \cap alone :
    pc[p] \in { "agentIdle", "look", "lookAgain", "parked" } /\ active =>
      /\ pc[r] = "retrySleep" => << r, "retry" >> \in cancelled
      /\ pc[r] \in { "turn", "tool", "turnEnd", "answer" } => agentAborted

\* The result of a bash command never comes between a tool call and the
\* result that its run is still to store (record_bash_result_checked), unless
\* two runs are unsettled, one of which flushes what was deferred for the
\* other.  A call whose result was refused, the session being fatal, has no
\* result to be parted from: what the run flushes as it ends (run_admitted)
\* follows such a call, and an answer that the next start-up adds comes last.
BashKeepsPairs ==
  [][ \A o \in Ops :
        kind[o] = "bash" /\ o \in noted' \ noted =>
          toolCall # "open" \/ \E r, q \in Unsettled : r # q ]_vars

\* Nobody sleeps in wait_for_idle while the session is idle, but for the wake
\* that a worker already counted off still owes.
IdleWaitersWake ==
  IsIdle => \A p \in Procs :
    pc[p] = "parked" /\ waiters[p] = "armed" =>
      \E r \in Ops : kind[r] = "run" /\ pc[r] \in { "leaveLast", "left" }

\* The slot of a preparation that was dropped in its compaction.
Orphaned ==
  /\ compaction # None /\ compaction[2] = "auto"
  /\ pc[compaction[1]] \notin { "prepareCompact", "compacting" }

\* shutdown() closes the session, unless a compaction slot was orphaned.
ShutdownEnds == lifecycle = "Closing" ~> (lifecycle = "Closed" \/ Orphaned)

\* What shutdown()'s comment says (agent_session.rs:1571): it goes to Closed.
ShutdownAlwaysEnds == lifecycle = "Closing" ~> lifecycle = "Closed"

\* What it says of the lock: no store is held by a closed session.
ClosedReleasesStore == lifecycle = "Closed" => ~storeOpen
=============================================================================
