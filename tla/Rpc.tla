--------------------------------- MODULE Rpc ---------------------------------
(***************************************************************************)
(* The JSON Lines mode (pi-runtime/src/modes/rpc_mode.rs): a pump that     *)
(* reads frames and never waits for anything but input, a queue and tasks  *)
(* for control commands, a queue and one worker for the others, dialogs    *)
(* that commands hold with the client, and one writer behind a bounded     *)
(* queue of output.                                                        *)
(*                                                                         *)
(* What a command does to the session is in other modules: here it works,  *)
(* asks, and ends.  The budgets of events and of bytes are one number of   *)
(* records, and closed and failure, always set together, one flag.         *)
(***************************************************************************)
EXTENDS Naturals, Sequences, FiniteSets

CONSTANTS
  Commands, KindOf,
  Dialogs,
  MaxQueue, MaxTasks, MaxOut,  \* 64, 16 and 256 in the code
  MaxEvents,                   \* bound: records no command waits for
  None

VARIABLES
  main,       \* what run_rpc_mode() does
  ctrl, work, \* the queues of commands
  tasks,      \* control commands that are handled
  worker,     \* the command that the worker handles
  at,         \* of a command
  reply,      \* the answer that a command is sending
  answers,    \* those that a command has put into the queue of output
  out, events, failed,
  writer,
  workCancel,
  generation, uiClosed,
  dialog      \* of a dialog: its state, who asks, its generation

vars == << main, ctrl, work, tasks, worker, at, reply, answers, out,
           events, failed, writer, workCancel, generation, uiClosed, dialog >>

queueVars == << ctrl, work, tasks, worker >>
commandVars == << at, reply, answers >>
outVars == << out, events, failed, writer >>
uiVars == << generation, uiClosed, dialog >>
mainVars == << main, workCancel >>

Control(c) == KindOf[c] \in { "steer", "abort" }
Cancellable(c) == KindOf[c] \in { "prompt", "steer" }

NoDialog == [ is |-> "none", of |-> None, gen |-> 0 ]
Over == [ NoDialog EXCEPT !.is = "ended" ]

Init ==
  /\ main = "reading" /\ workCancel = FALSE
  /\ ctrl = << >> /\ work = << >> /\ tasks = { } /\ worker = None
  /\ at = [ c \in Commands |-> "unsent" ]
  /\ reply = [ c \in Commands |-> None ]
  /\ answers = [ c \in Commands |-> << >> ]
  /\ out = << >> /\ events = 0 /\ failed = FALSE /\ writer = "runs"
  /\ generation = 1 /\ uiClosed = FALSE
  /\ dialog = [ d \in Dialogs |-> NoDialog ]

-----------------------------------------------------------------------------
(* BoundedStdoutQueue: send_text() waits for room, try_send_text() fails   *)
(* the whole connection when there is none.                                *)

Room == Len(out) < MaxOut
Put(record) == out' = Append(out, record) /\ UNCHANGED failed
TryPut(record) ==
  IF failed THEN UNCHANGED << out, failed >>
  ELSE IF Room THEN Put(record)
  ELSE failed' = TRUE /\ UNCHANGED out

\* An event of the session waits, until the mode has unsubscribed; a
\* notification of an extension does not, until the bridge is closed.
Event ==
  /\ events < MaxEvents /\ events' = events + 1
  /\ \/ main \in { "reading", "joining" } /\ Room /\ ~failed /\ Put("event")
     \/ ~uiClosed /\ TryPut("event")
  /\ UNCHANGED << queueVars, commandVars, uiVars, mainVars, writer >>

\* The writer: after finish it closes the queue and drains it.  A write fails
\* when the client is gone, or the connection has failed.
FinishAtOnce == TRUE
FinishDrains == out = << >>

Write ==
  /\ writer = "runs"
  /\ \/ /\ out # << >> /\ ~failed
        /\ out' = Tail(out)
        /\ dialog' = [ d \in Dialogs |-> IF Head(out) = d /\ dialog[d].is = "pending"
                                         THEN [ dialog[d] EXCEPT !.is = "shown" ]
                                         ELSE dialog[d] ]
        /\ UNCHANGED << failed, writer, uiClosed >>
     \/ /\ main = "finishing" /\ FinishDrains
        /\ writer' = "ended"
        /\ UNCHANGED << out, failed, uiClosed, dialog >>
  /\ UNCHANGED << queueVars, commandVars, mainVars, events, generation >>

Waits(d) == dialog[d].is \in { "pending", "shown" }
Cleared == [ d \in Dialogs |-> IF Waits(d)
                               THEN [ dialog[d] EXCEPT !.is = "cleared" ]
                               ELSE dialog[d] ]
WriteFails ==
  /\ writer = "runs" /\ out # << >>
  /\ writer' = "ended" /\ failed' = TRUE
  /\ uiClosed' = TRUE /\ dialog' = Cleared
  /\ UNCHANGED << queueVars, commandVars, mainVars, out, events, generation >>

-----------------------------------------------------------------------------
(* The pump.                                                               *)

Reading == main = "reading" /\ ~failed

\* A command for which there is no room is answered at once.
Queue(c, queue) ==
  IF Len(queue) < MaxQueue
  THEN /\ queue' = Append(queue, c)
       /\ at' = [ at EXCEPT ![c] = "queued" ]
       /\ UNCHANGED << answers, out, failed >>
  ELSE /\ UNCHANGED queue
       /\ TryPut(c)
       /\ at' = [ at EXCEPT ![c] = "ended" ]
       /\ answers' = IF Room THEN [ answers EXCEPT ![c] = << "result" >> ]
                     ELSE answers

ReadCommand(c) ==
  /\ Reading
  /\ at[c] = "unsent"
  \* While a run is streaming, a prompt may be a control command too.
  /\ \/ (Control(c) \/ KindOf[c] = "prompt") /\ Queue(c, ctrl) /\ UNCHANGED work
     \/ ~Control(c) /\ Queue(c, work) /\ UNCHANGED ctrl
  \* abort: clear_all_pending() before anything waits.
  /\ dialog' = IF KindOf[c] = "abort" THEN Cleared ELSE dialog
  /\ UNCHANGED << tasks, worker, reply, events, writer, mainVars, generation,
                  uiClosed >>

\* handle_response(): it compares generations twice, around taking the dialog
\* out, and in between the dialog can only have been cleared.
ReadAnswer(d) ==
  /\ Reading /\ ~uiClosed
  /\ dialog[d].is = "shown" /\ dialog[d].gen = generation
  /\ dialog' = [ dialog EXCEPT ![d].is = "answered" ]
  /\ UNCHANGED << queueVars, commandVars, outVars, mainVars, generation,
                  uiClosed >>

-----------------------------------------------------------------------------
(* Handlers.                                                               *)

TakeControl ==
  /\ ctrl # << >> /\ Cardinality(tasks) < MaxTasks
  /\ ctrl' = Tail(ctrl) /\ tasks' = tasks \cup { Head(ctrl) }
  /\ at' = [ at EXCEPT ![Head(ctrl)] = "works" ]
  /\ UNCHANGED << work, worker, reply, answers, outVars, uiVars, mainVars >>

\* The worker: what is left when the input closes is refused.
Refusal == "result"
TakeWork ==
  /\ work # << >> /\ worker = None
  /\ work' = Tail(work) /\ worker' = Head(work)
  /\ IF workCancel
     THEN /\ at' = [ at EXCEPT ![Head(work)] = "refuses" ]
          /\ reply' = [ reply EXCEPT ![Head(work)] = Refusal ]
     ELSE /\ at' = [ at EXCEPT ![Head(work)] = "works" ]
          /\ UNCHANGED reply
  /\ UNCHANGED << ctrl, tasks, answers, outVars, uiVars, mainVars >>

Holds(c) == { d \in Dialogs : dialog[d].of = c }

\* A command ends, with an answer; a prompt may be admitted first, and then has
\* another answer only if it fails.
Answer(c) ==
  /\ at[c] = "works" /\ Holds(c) = { }
  /\ \E r \in { "result", "admission" } :
       /\ r = "admission" => KindOf[c] = "prompt"
       /\ reply' = [ reply EXCEPT ![c] = r ]
  /\ at' = [ at EXCEPT ![c] = "replies" ]
  /\ UNCHANGED << queueVars, answers, outVars, uiVars, mainVars >>

RunEnds(c) ==
  /\ at[c] = "admitted" /\ Holds(c) = { }
  /\ \/ /\ at' = [ at EXCEPT ![c] = "ended" ] /\ UNCHANGED reply
     \/ /\ at' = [ at EXCEPT ![c] = "replies" ]
        /\ reply' = [ reply EXCEPT ![c] = "result" ]
  /\ UNCHANGED << queueVars, answers, outVars, uiVars, mainVars >>

\* send_json() of an answer; it is lost only with the connection.
Send(c) ==
  /\ at[c] \in { "replies", "refuses" }
  /\ at' = [ at EXCEPT ![c] = IF reply[c] = "admission" THEN "admitted"
                              ELSE "ended" ]
  /\ reply' = [ reply EXCEPT ![c] = None ]
  /\ \/ failed /\ UNCHANGED << answers, out, failed >>
     \/ /\ Room /\ ~failed /\ Put(c)
        /\ answers' = [ answers EXCEPT ![c] = Append(@, reply[c]) ]
  /\ UNCHANGED << queueVars, events, writer, uiVars, mainVars >>

\* The handler's future is dropped, with the dialogs it holds.
Cancel(c) ==
  /\ workCancel /\ Cancellable(c)
  /\ at[c] \in { "works", "admitted", "replies" }
  /\ at' = [ at EXCEPT ![c] = "refuses" ]
  /\ reply' = [ reply EXCEPT ![c] = Refusal ]
  /\ dialog' = [ d \in Dialogs |-> IF d \in Holds(c)
                                   THEN Over ELSE dialog[d] ]
  /\ UNCHANGED << queueVars, answers, outVars, mainVars, generation, uiClosed >>

HandlerEnds(c) ==
  /\ at[c] = "ended"
  /\ \/ c \in tasks /\ tasks' = tasks \ { c } /\ UNCHANGED worker
     \/ worker = c /\ worker' = None /\ UNCHANGED tasks
  /\ UNCHANGED << ctrl, work, commandVars, outVars, uiVars, mainVars >>

\* A session is replaced: before_session_invalidate, that is,
\* bump_generation_and_clear().
Switch(c) ==
  /\ at[c] = "works" /\ KindOf[c] = "switch" /\ generation = 1
  /\ generation' = generation + 1
  /\ dialog' = Cleared
  /\ UNCHANGED << queueVars, commandVars, outVars, mainVars, uiClosed >>

-----------------------------------------------------------------------------
(* request_dialog().                                                       *)

Ask(c, d) ==
  /\ at[c] \in { "works", "admitted" } /\ KindOf[c] \in { "prompt", "switch" }
  /\ Holds(c) = { } /\ dialog[d].is = "none" /\ ~uiClosed
  /\ dialog' = [ dialog EXCEPT ![d] =
                   [ is |-> "asking", of |-> c, gen |-> generation ] ]
  /\ UNCHANGED << queueVars, commandVars, outVars, mainVars, generation,
                  uiClosed >>

\* Under the lock of the pending dialogs.
RegisterLate(d) == generation = dialog[d].gen
MayRegister(d) == ~uiClosed /\ generation = dialog[d].gen

Register(d) ==
  /\ dialog[d].is = "asking"
  /\ dialog' = [ dialog EXCEPT ![d] =
                   IF MayRegister(d) THEN [ @ EXCEPT !.is = "pending" ] ELSE Over ]
  /\ UNCHANGED << queueVars, commandVars, outVars, mainVars, generation,
                  uiClosed >>

Show(d) ==
  /\ dialog[d].is = "pending" /\ \A i \in DOMAIN out : out[i] # d
  /\ Room /\ ~failed /\ Put(d)
  /\ UNCHANGED << queueVars, commandVars, events, writer, uiVars, mainVars >>

\* Whether the answer is used, the code decides by the generation again.  A
\* dialog ends too when its time is over.
DialogEnds(d) ==
  /\ \/ dialog[d].is \in { "answered", "cleared" }
     \/ Waits(d) /\ failed
  /\ dialog' = [ dialog EXCEPT ![d] = Over ]
  /\ UNCHANGED << queueVars, commandVars, outVars, mainVars, generation,
                  uiClosed >>
TimesOut(d) ==
  /\ Waits(d)
  /\ dialog' = [ dialog EXCEPT ![d] = Over ]
  /\ UNCHANGED << queueVars, commandVars, outVars, mainVars, generation,
                  uiClosed >>

-----------------------------------------------------------------------------
(* The end of run_rpc_mode().                                              *)

\* The client has closed its end, or the connection has failed.
StopReading ==
  /\ main = "reading"
  /\ main' = "joining" /\ workCancel' = TRUE
  /\ uiClosed' = TRUE /\ dialog' = Cleared
  /\ UNCHANGED << queueVars, commandVars, outVars, generation >>

\* Both handles are joined, then the runtime is disposed of.
JoinHandlers ==
  /\ main = "joining"
  /\ ctrl = << >> /\ tasks = { } /\ work = << >> /\ worker = None
  /\ main' = "finishing"
  /\ UNCHANGED << queueVars, commandVars, outVars, uiVars, workCancel >>

JoinWriter ==
  /\ main = "finishing" /\ writer = "ended" /\ main' = "ended"
  /\ UNCHANGED << queueVars, commandVars, outVars, uiVars, workCancel >>

-----------------------------------------------------------------------------
Handle(c) ==
  Answer(c) \/ RunEnds(c) \/ Send(c) \/ Cancel(c) \/ HandlerEnds(c)
Converse(d) == Register(d) \/ DialogEnds(d)

Next ==
  \/ Event \/ Write \/ WriteFails
  \/ TakeControl \/ TakeWork
  \/ StopReading \/ JoinHandlers \/ JoinWriter
  \/ \E c \in Commands : ReadCommand(c) \/ Handle(c) \/ Switch(c)
  \/ \E d \in Dialogs : ReadAnswer(d) \/ Show(d) \/ TimesOut(d) \/ Converse(d)
  \/ \E c \in Commands, d \in Dialogs : Ask(c, d)

\* Tasks are scheduled, what a command does ends when its dialogs have, and the
\* client reads what is written, or is gone.  Nothing makes it answer.
Fairness ==
  /\ WF_vars(Write \/ WriteFails)
  /\ WF_vars(TakeControl) /\ WF_vars(TakeWork)
  /\ WF_vars(failed /\ StopReading) /\ WF_vars(JoinHandlers \/ JoinWriter)
  /\ \A c \in Commands : WF_vars(Handle(c))
  /\ \A d \in Dialogs : WF_vars(Converse(d))

Spec == Init /\ [][Next]_vars /\ Fairness

-----------------------------------------------------------------------------
Stages == { "unsent", "queued", "works", "replies", "refuses", "admitted",
            "ended" }
TypeOK ==
  /\ at \in [ Commands -> Stages ]
  /\ Len(ctrl) <= MaxQueue /\ Len(work) <= MaxQueue /\ Len(out) <= MaxOut
  /\ Cardinality(tasks) <= MaxTasks
  /\ \A d \in Dialogs :
       dialog[d].is \in { "none", "asking", "pending", "shown", "answered", "cleared",
                          "ended" }

\* Every command that was read has its answer, whatever was cancelled and
\* wherever it was when the input closed: one, but that a prompt which was
\* admitted may fail later.  When the mode has ended, the client has been
\* given all of them, unless the connection failed (the queue of output, the
\* worker's refusals and the writer's last round).
CommandsAreAnswered ==
  /\ \A c \in Commands :
       answers[c] \in { << >>, << "result" >>, << "admission" >>,
                        << "admission", "result" >> }
  /\ main = "ended" /\ ~failed =>
       /\ out = << >>
       /\ \A c \in Commands : at[c] # "unsent" => answers[c] # << >>

\* When the client has closed its end, or the connection fails, the mode ends: no
\* dialog is left waiting behind the bridge that was closed, and no sender
\* behind a queue that nobody empties (run_rpc_mode, request_dialog).
RpcEnds == (main = "joining" \/ failed) ~> main = "ended"
=============================================================================
