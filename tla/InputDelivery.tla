---------------------------- MODULE InputDelivery ----------------------------
(***************************************************************************)
(* How an AgentSession delivers a client's input exactly as often as it    *)
(* says it does (crates/pi-session/src/agent_session.rs, prompt to         *)
(* emit_agent_settled, and the inputs of execution_log.rs).                *)
(*                                                                         *)
(* A call of prompt() carries the client's id of its input; a client that  *)
(* saw no reply, or a process that crashed, calls again with the same id.  *)
(* The execution log is written before an input is handed to the agent and *)
(* after its message is in the session file.  A call that is admitted runs *)
(* the agent in a worker, which commits its input and whatever was queued. *)
(*                                                                         *)
(* The session file is the abstraction SessionStore justifies: a commit is *)
(* in it as a whole or not at all, except the one that creates the file.   *)
(***************************************************************************)
EXTENDS Naturals, Sequences, FiniteSets

CONSTANTS
  Calls,      \* calls of prompt(), over all lives of the process
  Inputs,     \* the clients' message ids: of each, the calls that carry it
  NoCall, NoInput

ASSUME InputDeliveryAssumption ==
  /\ \A c \in Calls : \E i \in Inputs : c \in i
  /\ \A i, j \in Inputs : i # j => i \cap j = { }
  /\ NoCall \notin Calls /\ NoInput \notin Inputs

InputOf == [ c \in Calls |-> CHOOSE i \in Inputs : c \in i ]

VARIABLES
  up,                 \* a process has the session open
  mem, disk,          \* the execution log in memory and on disk
  stored, keyed,      \* session file: user messages, correlation entries
  fileExists,
  pc, reply,          \* of each call; reply "none" until it is known
  slot,               \* is_agent_run_active
  workers,            \* active_run_workers
  token, cancelled,   \* run_cancel: whose it is; runs whose token is cancelled
  committing,         \* in the file, not yet accepted in the log
  queued,             \* the agent's steering and follow-up queues
  settling,           \* is_emitting_agent_settled
  deferred, drained,  \* deferred_settled_actions; what a worker took of them
  fatal               \* fatal_runtime_error

log     == << mem, disk >>
session == << stored, keyed, fileExists >>
run     == << slot, workers, token, cancelled >>
settle  == << settling, deferred, drained >>
vars    == << up, log, session, pc, reply, run, committing, queued, settle,
              fatal >>

Statuses ==
  { "none", "delivering", "accepted", "handled", "failed", "uncertain" }
Final == { "accepted", "handled", "failed", "uncertain" }

\* From its admission until emit_agent_settled clears the flag.
OwnerStages == { "prepare", "log", "submit", "own", "accept", "loop",
                 "finish", "settle" }
WorkerStages == OwnerStages \cup
  { "broadcast", "settled", "drain", "deferring", "awaiting", "leave",
    "leaveLast" }
Stages == WorkerStages \cup
  { "idle", "defer", "deferred", "begin", "hook", "route", "enqueue", "admit",
    "returned", "gone", "lost" }
Replies ==
  { "none", "deferred", "queued", "started", "handled", "error",
    "dupAccepted", "dupHandled", "dupPending", "dupFailed", "dupUncertain" }

TypeOK ==
  /\ up \in BOOLEAN /\ fatal \in BOOLEAN
  /\ mem \in [ Inputs -> Statuses ] /\ disk \in [ Inputs -> Statuses ]
  /\ stored \in [ Inputs -> Nat ] /\ keyed \subseteq Inputs
  /\ fileExists \in BOOLEAN
  /\ pc \in [ Calls -> Stages ] /\ reply \in [ Calls -> Replies ]
  /\ slot \in BOOLEAN /\ workers \in Nat
  /\ token \in Calls \cup { NoCall } /\ cancelled \subseteq Calls
  /\ committing \in Inputs \cup { NoInput } /\ queued \in Seq(Inputs)
  /\ settling \in BOOLEAN
  /\ deferred \in Seq(Calls) /\ drained \in [ Calls -> Seq(Calls) ]

Init ==
  /\ up = TRUE /\ fatal = FALSE
  /\ mem = [ i \in Inputs |-> "none" ] /\ disk = mem
  /\ stored = [ i \in Inputs |-> 0 ] /\ keyed = { } /\ fileExists = FALSE
  /\ pc = [ c \in Calls |-> "idle" ] /\ reply = [ c \in Calls |-> "none" ]
  /\ slot = FALSE /\ workers = 0 /\ token = NoCall /\ cancelled = { }
  /\ committing = NoInput /\ queued = << >>
  /\ settling = FALSE
  /\ deferred = << >> /\ drained = [ c \in Calls |-> << >> ]

-----------------------------------------------------------------------------
(* The execution log.  A save writes all of the log; one that fails leaves *)
(* memory as it was, and the disk too unless the new file was already in   *)
(* place when the sync of its directory failed.                            *)

SaveOk(next) == mem' = next /\ disk' = next
SaveFails(next) == mem' = mem /\ disk' \in { disk, next }

Set(i, status) == [ mem EXCEPT ![i] = status ]

\* mark_input_failed, whose own failure its callers ignore.
MarkFailed(i) == SaveOk(Set(i, "failed")) \/ SaveFails(Set(i, "failed"))

\* A slip: the session file is not asked.
ReconciledUnasked ==
  [ i \in Inputs |-> IF disk[i] = "delivering" THEN "uncertain" ELSE disk[i] ]

\* reconcile_on_startup
Reconciled ==
  [ i \in Inputs |->
      IF disk[i] # "delivering" THEN disk[i]
      ELSE IF i \in keyed THEN "accepted" ELSE "uncertain" ]

-----------------------------------------------------------------------------
(* Calls.                                                                  *)

At(c, stage) == up /\ pc[c] = stage
Go(c, stage) == pc' = [ pc EXCEPT ![c] = stage ]

\* The first answer is what the caller gets: a deferred call has had its own.
Answered(c, answer) ==
  IF reply[c] = "none" THEN [ reply EXCEPT ![c] = answer ] ELSE reply
Return(c, answer) == Go(c, "returned") /\ reply' = Answered(c, answer)

\* The answer to an input the log already knows.
DuplicateAnswer(status) ==
  CASE status = "accepted" -> "dupAccepted"
    [] status = "handled" -> "dupHandled"
    [] status = "delivering" -> "dupPending"
    [] status = "failed" -> "dupFailed"
    [] OTHER -> "dupUncertain"

\* prompt(): refused, or to be deferred as agent_settled is being broadcast.
Call(c) ==
  /\ At(c, "idle")
  /\ \/ fatal /\ Return(c, "error")
     \/ ~fatal /\ settling /\ Go(c, "defer") /\ UNCHANGED reply
     \/ ~fatal /\ ~settling /\ Go(c, "begin") /\ UNCHANGED reply
  /\ UNCHANGED << up, log, session, run, committing, queued, settle, fatal >>

\* deferred_settled_actions.push: the flag was read before.
Defer(c) ==
  /\ At(c, "defer")
  /\ Go(c, "deferred")
  /\ reply' = Answered(c, "deferred")
  /\ deferred' = Append(deferred, c)
  /\ UNCHANGED << up, log, session, run, committing, queued, settling,
                  drained, fatal >>

\* Slips: an input under way, or one that failed, may be tried again.
BeginUnless(c, known) ==
  LET i == InputOf[c] IN
  /\ At(c, "begin") /\ ~fatal
  /\ \/ /\ mem[i] \in known
        /\ Return(c, DuplicateAnswer(mem[i])) /\ UNCHANGED log
     \/ /\ mem[i] \notin known
        /\ SaveOk(Set(i, "delivering")) /\ Go(c, "hook") /\ UNCHANGED reply
  /\ UNCHANGED << up, session, run, committing, queued, settle, fatal >>

BeginUnlessFinal(c) == BeginUnless(c, Final)
BeginUnlessUnderWay(c) == BeginUnless(c, Statuses \ { "none", "failed" })

\* begin_input_delivery
Begin(c) ==
  LET i == InputOf[c] IN
  /\ At(c, "begin")
  /\ \/ fatal /\ Return(c, "error") /\ UNCHANGED log
     \/ /\ ~fatal /\ mem[i] # "none"
        /\ Return(c, DuplicateAnswer(mem[i])) /\ UNCHANGED log
     \/ /\ ~fatal /\ mem[i] = "none"
        /\ SaveOk(Set(i, "delivering")) /\ Go(c, "hook") /\ UNCHANGED reply
     \/ /\ ~fatal /\ mem[i] = "none"
        /\ SaveFails(Set(i, "delivering")) /\ Return(c, "error")
  /\ UNCHANGED << up, session, run, committing, queued, settle, fatal >>

\* An extension command or the input hook: it deals with the input itself, ...
Handled(c) ==
  LET next == Set(InputOf[c], "handled") IN
  /\ At(c, "hook")
  /\ \/ SaveOk(next) /\ Return(c, "handled") /\ UNCHANGED fatal
     \/ SaveFails(next) /\ Return(c, "error") /\ fatal' = TRUE
  /\ UNCHANGED << up, session, run, committing, queued, settle >>

\* ... lets it pass, ...
HookPasses(c) ==
  /\ At(c, "hook") /\ ~fatal
  /\ Go(c, "route")
  /\ UNCHANGED << up, log, session, reply, run, committing, queued, settle,
                  fatal >>

\* ... or is cancelled, or the session closes or fails under it.
HookFails(c) ==
  /\ At(c, "hook")
  /\ Return(c, "error")
  /\ UNCHANGED << up, log, session, run, committing, queued, settle, fatal >>

\* The caller drops the call while it waits for the hook.
Abandon(c) ==
  /\ At(c, "hook") /\ reply[c] = "none"
  /\ Go(c, "gone")
  /\ UNCHANGED << up, log, session, reply, run, committing, queued, settle,
                  fatal >>

\* Compaction in progress, no streaming_behavior while a run is active, no
\* model: refused and marked so.
Rejected(c) ==
  /\ At(c, "hook") \/ At(c, "route")
  /\ MarkFailed(InputOf[c])
  /\ Return(c, "error")
  /\ UNCHANGED << up, session, run, committing, queued, settle, fatal >>

Route(c) ==
  /\ At(c, "route")
  /\ Go(c, IF slot THEN "enqueue" ELSE "admit")
  /\ UNCHANGED << up, log, session, reply, run, committing, queued, settle,
                  fatal >>

\* queue_steer_correlated, queue_follow_up_correlated
Enqueue(c) ==
  /\ At(c, "enqueue")
  /\ queued' = Append(queued, InputOf[c])
  /\ Return(c, "queued")
  /\ UNCHANGED << up, log, session, run, committing, settle, fatal >>

\* start_session_run under operation_admission; a reload refuses it as well.
Admit(c) ==
  /\ At(c, "admit") /\ ~fatal /\ ~slot
  /\ slot' = TRUE /\ workers' = workers + 1 /\ token' = c
  /\ Go(c, "prepare")
  /\ UNCHANGED << up, log, session, reply, cancelled, committing, queued,
                  settle, fatal >>

Refuse(c) ==
  /\ At(c, "admit")
  /\ Return(c, "error")
  /\ UNCHANGED << up, log, session, run, committing, queued, settle, fatal >>

-----------------------------------------------------------------------------
(* The worker of an admitted call: run_admitted.                           *)

\* A slip: the flag is left to ActiveRunGuard.
PrepareFailsHeld(c) ==
  /\ At(c, "prepare")
  /\ MarkFailed(InputOf[c])
  /\ Go(c, "leave") /\ reply' = Answered(c, "error")
  /\ UNCHANGED << up, session, run, committing, queued, settle, fatal >>

PrepareFails(c) ==
  /\ At(c, "prepare")
  /\ MarkFailed(InputOf[c])
  /\ slot' = FALSE
  /\ Go(c, "leave") /\ reply' = Answered(c, "error")
  /\ UNCHANGED << up, session, workers, token, cancelled, committing, queued,
                  settle, fatal >>

Prepared(c) ==
  /\ At(c, "prepare") /\ c \notin cancelled
  /\ Go(c, "log")
  /\ UNCHANGED << up, log, session, reply, run, committing, queued, settle,
                  fatal >>

\* log.start_run: what it adds to the log is of no concern here.
StartRun(c) ==
  /\ At(c, "log")
  /\ \/ SaveOk(mem) /\ Go(c, "submit") /\ UNCHANGED << reply, slot >>
     \/ /\ SaveFails(mem) /\ slot' = FALSE
        /\ Go(c, "leave") /\ reply' = Answered(c, "error")
  /\ UNCHANGED << up, session, workers, token, cancelled, committing, queued,
                  settle, fatal >>

\* agent.prompt refuses while the agent has another run.
AgentBusy(c) == \E d \in Calls \ { c } : pc[d] \in { "own", "accept", "loop" }

\* A slip: a run that was cancelled before it began is a run like any other.
SubmitCancelledQuietly(c) ==
  /\ At(c, "submit")
  /\ Go(c, IF c \in cancelled THEN "finish" ELSE "own")
  /\ UNCHANGED << up, log, session, reply, run, committing, queued, settle,
                  fatal >>

Submit(c) ==
  /\ At(c, "submit")
  /\ \/ /\ c \in cancelled \/ AgentBusy(c)
        /\ Go(c, "finish") /\ reply' = Answered(c, "error")
     \/ /\ c \notin cancelled /\ ~AgentBusy(c)
        /\ Go(c, "own") /\ UNCHANGED reply
  /\ UNCHANGED << up, log, session, run, committing, queued, settle, fatal >>

\* append_queued_user_message in handle_finalize_message, which refuses every
\* message once the session failed.
Stores(i) ==
  /\ ~fatal
  /\ stored' = [ stored EXCEPT ![i] = @ + 1 ]
  /\ keyed' = keyed \cup { i }
  /\ fileExists' = TRUE

Commit(i) == Stores(i) /\ committing' = i

\* A hook fails or panics before; or the append fails, which is fatal: the
\* file is as it was, or the new one is in place and could not be synced.
CommitFails(i) ==
  \/ fatal' \in { fatal, TRUE } /\ UNCHANGED session
  \/ fatal' = TRUE /\ Stores(i)

CommitOwn(c) ==
  /\ At(c, "own")
  /\ Commit(InputOf[c])
  /\ Go(c, "accept")
  /\ UNCHANGED << up, log, reply, run, queued, settle, fatal >>

CommitOwnFails(c) ==
  /\ At(c, "own")
  /\ CommitFails(InputOf[c])
  /\ Go(c, "finish") /\ reply' = Answered(c, "error")
  /\ UNCHANGED << up, log, run, committing, queued, settle >>

CommitQueued(c) ==
  /\ At(c, "loop") /\ queued # << >>
  /\ Commit(Head(queued))
  /\ queued' = Tail(queued)
  /\ Go(c, "accept")
  /\ UNCHANGED << up, log, reply, run, settle, fatal >>

\* The message was taken from its queue and is not committed.
CommitQueuedFails(c) ==
  /\ At(c, "loop") /\ queued # << >>
  /\ queued' = Tail(queued)
  /\ CommitFails(Head(queued))
  /\ Go(c, "finish") /\ reply' = Answered(c, "error")
  /\ UNCHANGED << up, log, run, committing, settle >>

\* accept_input: mark_input_accepted finds the correlation entry there.
AcceptInput(c) ==
  LET next == Set(committing, "accepted") IN
  /\ At(c, "accept")
  /\ committing' = NoInput
  /\ \/ SaveOk(next) /\ Go(c, "loop") /\ UNCHANGED << reply, fatal >>
     \/ /\ SaveFails(next) /\ fatal' = TRUE
        /\ Go(c, "finish") /\ reply' = Answered(c, "error")
  /\ UNCHANGED << up, session, run, queued, settle >>

\* The agent is done with the run, was aborted or failed; messages may still
\* be in its queues.
LoopEnds(c) ==
  /\ At(c, "loop")
  /\ Go(c, "finish")
  /\ reply' \in { reply, Answered(c, "error") }
  /\ UNCHANGED << up, log, session, run, committing, queued, settle, fatal >>

\* log.finish_run
FinishRun(c) ==
  /\ At(c, "finish")
  /\ Go(c, "settle")
  /\ \/ fatal /\ UNCHANGED << log, fatal >>
     \/ ~fatal /\ SaveOk(mem) /\ UNCHANGED fatal
     \/ ~fatal /\ SaveFails(mem) /\ fatal' = TRUE
  /\ UNCHANGED << up, session, reply, run, committing, queued, settle >>

\* emit_agent_settled: two flags, the listeners, then the deferred actions.
ClearActive(c) ==
  /\ At(c, "settle")
  /\ slot' = FALSE /\ Go(c, "broadcast")
  /\ UNCHANGED << up, log, session, reply, workers, token, cancelled,
                  committing, queued, settle, fatal >>

BroadcastStarts(c) ==
  /\ At(c, "broadcast")
  /\ settling' = TRUE /\ Go(c, "settled")
  /\ UNCHANGED << up, log, session, reply, run, committing, queued, deferred,
                  drained, fatal >>

BroadcastEnds(c) ==
  /\ At(c, "settled")
  /\ settling' = FALSE /\ Go(c, "drain")
  /\ UNCHANGED << up, log, session, reply, run, committing, queued, deferred,
                  drained, fatal >>

Drain(c) ==
  /\ At(c, "drain")
  /\ drained' = [ drained EXCEPT ![c] = deferred ]
  /\ deferred' = << >> /\ Go(c, "deferring")
  /\ UNCHANGED << up, log, session, reply, run, committing, queued, settling,
                  fatal >>

\* The worker awaits the deferred calls one after the other.
RunDeferred(c) ==
  /\ At(c, "deferring") /\ drained[c] # << >>
  /\ pc' = [ pc EXCEPT ![c] = "awaiting", ![Head(drained[c])] = "begin" ]
  /\ UNCHANGED << up, log, session, reply, run, committing, queued, settle,
                  fatal >>

DeferredReturned(c) ==
  /\ At(c, "awaiting") /\ pc[Head(drained[c])] = "returned"
  /\ drained' = [ drained EXCEPT ![c] = Tail(@) ]
  /\ Go(c, "deferring")
  /\ UNCHANGED << up, log, session, reply, run, committing, queued, settling,
                  deferred, fatal >>

\* A slip: the worker waits for an idle session, of which it is a part.
DeferredDoneWhenIdle(c) ==
  /\ At(c, "deferring") /\ drained[c] = << >>
  /\ ~slot /\ workers = 0
  /\ Go(c, "leave")
  /\ UNCHANGED << up, log, session, reply, run, committing, queued, settle,
                  fatal >>

DeferredDone(c) ==
  /\ At(c, "deferring") /\ drained[c] = << >>
  /\ Go(c, "leave")
  /\ UNCHANGED << up, log, session, reply, run, committing, queued, settle,
                  fatal >>

\* The reply is made when the run is over, then ActiveRunGuard is dropped: the
\* worker is counted off, ...
Leave(c) ==
  /\ At(c, "leave")
  /\ reply' = Answered(c, IF fatal THEN "error" ELSE "started")
  /\ workers' = workers - 1
  /\ Go(c, IF workers = 1 THEN "leaveLast" ELSE "returned")
  /\ UNCHANGED << up, log, session, slot, token, cancelled, committing, queued,
                  settle, fatal >>

\* ... and the last one clears the flag, whoever has set it since.
LeaveLast(c) ==
  /\ At(c, "leaveLast")
  /\ slot' = FALSE
  /\ Go(c, "returned")
  /\ UNCHANGED << up, log, session, reply, workers, token, cancelled,
                  committing, queued, settle, fatal >>

-----------------------------------------------------------------------------
(* What happens around the calls.                                          *)

\* cancel_active_operations cancels the token that is in run_cancel.
Abort ==
  /\ up /\ token # NoCall
  /\ cancelled' = cancelled \cup { token }
  /\ UNCHANGED << up, log, session, pc, reply, slot, workers, token,
                  committing, queued, settle, fatal >>

\* clear_queue hands the texts back to the user.
ClearQueue ==
  /\ up /\ queued # << >>
  /\ queued' = << >>
  /\ UNCHANGED << up, log, session, pc, reply, run, committing, settle,
                  fatal >>

Fall ==
  /\ up' = FALSE
  /\ pc' = [ c \in Calls |->
               IF pc[c] \in { "idle", "returned", "gone" } THEN pc[c]
               ELSE "lost" ]
  /\ slot' = FALSE /\ workers' = 0 /\ token' = NoCall /\ cancelled' = { }
  /\ committing' = NoInput /\ queued' = << >>
  /\ settling' = FALSE
  /\ deferred' = << >> /\ drained' = [ c \in Calls |-> << >> ]
  /\ fatal' = FALSE

\* Memory is lost with the process; `mem` keeps what it was, and is not read.
Crash ==
  /\ up /\ Fall
  /\ UNCHANGED << log, session, reply >>

\* The commit that creates the session file is written in place: a crash may
\* leave its message without the correlation entry.
CrashInFirstCommit(c) ==
  /\ At(c, "own") /\ ~fatal /\ ~fileExists
  /\ stored' = [ stored EXCEPT ![InputOf[c]] = @ + 1 ]
  /\ fileExists' = TRUE
  /\ Fall
  /\ UNCHANGED << log, keyed, reply >>

\* The session is opened again: reconcile_on_startup, whose save may fail.
Reopen ==
  /\ ~up
  /\ \/ SaveOk(Reconciled) /\ up' = TRUE
     \/ SaveFails(Reconciled) /\ UNCHANGED up
  /\ UNCHANGED << session, pc, reply, run, committing, queued, settle,
                  fatal >>

-----------------------------------------------------------------------------
CallStep(c) ==
  \/ Defer(c) \/ Begin(c)
  \/ Handled(c) \/ HookPasses(c) \/ HookFails(c) \/ Rejected(c)
  \/ Route(c) \/ Enqueue(c) \/ Admit(c) \/ Refuse(c)
  \/ PrepareFails(c) \/ Prepared(c) \/ StartRun(c) \/ Submit(c)
  \/ CommitOwn(c) \/ CommitOwnFails(c)
  \/ CommitQueued(c) \/ CommitQueuedFails(c)
  \/ AcceptInput(c) \/ LoopEnds(c) \/ FinishRun(c)
  \/ ClearActive(c) \/ BroadcastStarts(c) \/ BroadcastEnds(c)
  \/ Drain(c) \/ RunDeferred(c) \/ DeferredReturned(c) \/ DeferredDone(c)
  \/ Leave(c) \/ LeaveLast(c)

Next ==
  \/ \E c \in Calls :
       Call(c) \/ CallStep(c) \/ Abandon(c) \/ CrashInFirstCommit(c)
  \/ Abort \/ ClearQueue \/ Crash \/ Reopen

\* Some task goes on, and the hooks, the preparation and the agent's loop it
\* waits for come to an end (AgentLoop: a run does, once it is cancelled).
Fairness == WF_vars(\E c \in Calls : CallStep(c))

Spec == Init /\ [][Next]_vars /\ Fairness
-----------------------------------------------------------------------------
(* What the session promises.                                              *)

\* However often a client repeats an input, over crashes and over failing
\* saves, its message is in the session file at most once (the promise of
\* begin_input_delivery).
AtMostOnce == \A i \in Inputs : stored[i] <= 1

\* The log and the session file tell the same story, in memory and on disk,
\* at every point where a crash may make the log the only witness: an
\* accepted input is in the file with its key, one that was refused, handled
\* or never seen is not, and one with a key is not called uncertain.
Truthful(status, i) ==
  CASE status = "accepted" -> stored[i] = 1 /\ i \in keyed
    [] status \in { "none", "handled", "failed" } -> stored[i] = 0
    [] status = "uncertain" -> i \notin keyed
    [] OTHER -> TRUE

LogMatchesFile ==
  \A i \in Inputs :
    (up => Truthful(mem[i], i)) /\ (mem[i] \in Final => Truthful(disk[i], i))

\* What a caller was told stays true for ever: a run that started, or an
\* input reported accepted, is in the session file; one reported failed or
\* handled never gets there.
RepliesStayTrue ==
  \A c \in Calls :
    /\ reply[c] \in { "started", "dupAccepted" } =>
         stored[InputOf[c]] = 1 /\ InputOf[c] \in keyed
    /\ reply[c] \in { "handled", "dupHandled", "dupFailed" } =>
         stored[InputOf[c]] = 0

\* However inputs are repeated and whatever fails between the commit of one and
\* the save of the log, an input arrives once at the most, and the log, the
\* session file and the answers given agree about it.
RecordsAgree == AtMostOnce /\ LogMatchesFile /\ RepliesStayTrue

\* The active flag never outlives its run, whatever workers overlap, fail or
\* are cancelled: one that stayed set would turn every later prompt into a
\* queued message nobody takes (run_admitted, emit_agent_settled).
ActiveFlagHasOwner == slot => \E c \in Calls : pc[c] \in OwnerStages

\* An outcome the log reported is never revised, not by a later save that
\* fails half way, nor by a crash and the reconciliation after it.
OutcomesAreFinal ==
  [][\A i \in Inputs : mem[i] \in Final => mem'[i] = mem[i]]_vars

\* The workers return, although each awaits the calls deferred to its end,
\* which may run the agent and wait for calls deferred to their own: once no
\* further prompts are made the session comes to rest.
WorkersReturn ==
  (\E c \in Calls : pc[c] \in WorkerStages)
    ~> (\A c \in Calls : pc[c] \notin WorkerStages)

-----------------------------------------------------------------------------
(* Why the active flag has an owner: a worker at the end of a run wakes    *)
(* calls that were deferred, never one that has a run of its own.  A call  *)
(* that is listed waits, unless it is the one its worker awaits.           *)

ListsTyped ==
  /\ pc \in [ Calls -> Stages ] /\ slot \in BOOLEAN
  /\ deferred \in Seq(Calls) /\ drained \in [ Calls -> Seq(Calls) ]

Awaited(c, k) == pc[c] = "awaiting" /\ k = 1

ListedInv ==
  /\ \A k \in DOMAIN deferred : pc[deferred[k]] = "deferred"
  /\ \A j, k \in DOMAIN deferred : deferred[j] = deferred[k] => j = k
  /\ \A c \in Calls : pc[c] = "awaiting" => drained[c] # << >>
  /\ \A c \in Calls : \A k \in DOMAIN drained[c] :
       /\ Awaited(c, k) \/ pc[drained[c][k]] = "deferred"
       /\ pc[drained[c][k]] \notin { "idle", "defer" }
       /\ \A j \in DOMAIN deferred : deferred[j] # drained[c][k]
  /\ \A c, d \in Calls :
       \A j \in DOMAIN drained[c], k \in DOMAIN drained[d] :
         drained[c][j] = drained[d][k] => c = d /\ j = k

FlagInv == ListsTyped /\ ListedInv /\ ActiveFlagHasOwner

-----------------------------------------------------------------------------
(* Why the records agree: while an input is on its way there is one call,  *)
(* or one place in the agent's queues, that carries it, and nothing of it  *)
(* is in the session file; when its message is there nobody carries it.    *)

CarryStages ==
  { "hook", "route", "enqueue", "admit", "prepare", "log", "submit", "own" }
Carries(c) == pc[c] \in CarryStages

Undelivered(i) ==
  mem[i] = "delivering" /\ disk[i] = "delivering" /\ stored[i] = 0 /\ i \notin keyed

Typed ==
  /\ up \in BOOLEAN
  /\ mem \in [ Inputs -> Statuses ] /\ disk \in [ Inputs -> Statuses ]
  /\ stored \in [ Inputs -> Nat ] /\ keyed \subseteq Inputs
  /\ pc \in [ Calls -> Stages ] /\ reply \in [ Calls -> Replies ]
  /\ queued \in Seq(Inputs)

OneCarrier ==
  /\ \A c \in Calls : Carries(c) =>
       /\ Undelivered(InputOf[c])
       /\ \A k \in DOMAIN queued : queued[k] # InputOf[c]
  /\ \A c, d \in Calls :
       Carries(c) /\ Carries(d) /\ InputOf[c] = InputOf[d] => c = d
  /\ \A k \in DOMAIN queued : Undelivered(queued[k])
  /\ \A j, k \in DOMAIN queued : queued[j] = queued[k] => j = k

\* Between the commit of an input and the save of the log.
CommittingInv ==
  /\ \A c \in Calls : pc[c] = "accept" =>
       /\ committing \in Inputs
       /\ mem[committing] = "delivering" /\ disk[committing] = "delivering"
       /\ stored[committing] = 1 /\ committing \in keyed
  /\ \A c, d \in Calls :
       { pc[c], pc[d] } \subseteq { "own", "accept", "loop" } => c = d

\* The disk is at least as truthful as memory, which a crash may forget.
LogInv ==
  \A i \in Inputs :
    /\ stored[i] <= 1 /\ (i \in keyed => stored[i] = 1)
    /\ up => Truthful(mem[i], i)
    /\ Truthful(disk[i], i)
    /\ mem[i] \in Final => disk[i] = mem[i]

AfterCommit == { "accept", "loop", "finish", "settle", "broadcast", "settled",
                 "drain", "deferring", "awaiting", "leave" }

\* A worker that has not answered has its input in the file.
AnswersInv ==
  \A c \in Calls :
    /\ \/ reply[c] \in { "started", "dupAccepted" }
       \/ pc[c] \in AfterCommit /\ reply[c] = "none"
       => stored[InputOf[c]] = 1 /\ InputOf[c] \in keyed
    /\ reply[c] \in { "handled", "dupHandled", "dupFailed" } =>
         mem[InputOf[c]] \in { "handled", "failed" }

DownInv ==
  ~up => /\ \A c \in Calls : pc[c] \in { "idle", "returned", "gone", "lost" }
         /\ queued = << >>

DeliveryInv ==
  /\ Typed /\ OneCarrier /\ CommittingInv /\ LogInv /\ AnswersInv /\ DownInv
=============================================================================
