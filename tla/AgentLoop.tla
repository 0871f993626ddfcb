----------------------------- MODULE AgentLoop -----------------------------
(***************************************************************************)
(* The agent's double loop (crates/pi-agent/src/agent_loop.rs: run_loop,   *)
(* its entry points and stream_assistant_response) with the parts of       *)
(* agent.rs it works against: the steering and follow-up queues, the event *)
(* bookkeeping of process_event and handle_run_failure.                    *)
(*                                                                         *)
(* One run at a time (AgentLifecycle); other tasks steer, queue follow-ups,*)
(* clear the queues and abort at any moment.  The loop's steps are cut at  *)
(* its reads of the queues, at hooks and at the provider's answer, the     *)
(* points where another task can act or a callback can panic.  The queue   *)
(* modes stay as they are at the start.  A message is its number: the      *)
(* order in which messages were handed to the agent.                       *)
(***************************************************************************)
EXTENDS Naturals, Sequences, FiniteSets

CONSTANTS
  MaxMsgs,    \* bound: messages handed to the agent, of all kinds
  Settings    \* pairs of queue modes: of steering and of follow-ups

Modes == { "all", "one-at-a-time" }

Ids == 1 .. MaxMsgs
Kinds == { "prompt", "steering", "followUp", "prepared" }

VARIABLES
  pc,
  steering, followUp,            \* the two PendingMessageQueues
  steeringMode, followUpMode,
  pending,                       \* pending_messages
  batch,                         \* messages still to be committed this turn
  skip,                          \* skip_initial_steering_poll
  hasMore,                       \* has_more_tool_calls
  explicit,                      \* explicit_continuation
  lastTurn,                      \* last_completed_turn is Some
  cancelled,                     \* the run's cancel token
  seen,                          \* ActiveRun flags and streaming_message
  committed, tail,               \* user messages of the transcript; last role
  kind,                          \* history: kind of each message so far
  dropped, lost,                 \* history: cleared; drained by a failed run
  turnMark,                      \* history: Len(committed) at TurnStart
  frame,                         \* history: nesting a subscriber has seen
  hookFailed                     \* history: a finalize_message hook failed

queues == << steering, followUp >>
modes  == << steeringMode, followUpMode >>
loop   == << pending, batch, skip, hasMore, explicit, lastTurn >>
book   == << committed, tail >>
events == << seen, frame, turnMark >>
fate   == << dropped, lost >>
vars   == << pc, queues, modes, loop, cancelled, events, book, kind, fate,
             hookFailed >>

Elems(s) == { s[i] : i \in DOMAIN s }

-----------------------------------------------------------------------------
(* Queues.                                                                 *)

\* PendingMessageQueue::drain takes everything, or the oldest message.
Taken(q, mode) ==
  IF mode = "all" \/ q = << >> THEN q ELSE << Head(q) >>
Left(q, mode) ==
  IF mode = "all" \/ q = << >> THEN << >> ELSE Tail(q)

-----------------------------------------------------------------------------
(* Events.                                                                 *)

\* What process_event remembers of the events of a run.
Fresh == [ start |-> FALSE, turn |-> FALSE, end |-> FALSE, message |-> FALSE ]

Track(s, e) ==
  [ start   |-> e = "AgentStart" \/ s.start,
    turn    |-> IF e \in { "TurnStart", "TurnEnd" } THEN e = "TurnStart"
                                                  ELSE s.turn,
    end     |-> e = "AgentEnd" \/ s.end,
    message |-> IF e \in { "MessageStart", "MessageEnd", "AgentEnd" }
                THEN e = "MessageStart" ELSE s.message ]

\* The nesting of events: messages in turns, turns in one agent sequence.
Nest(f, e) ==
  CASE e = "AgentStart" /\ f = "none" -> "agent"
    [] e = "TurnStart" /\ f = "agent" -> "turn"
    [] e = "MessageStart" /\ f = "turn" -> "message"
    [] e = "MessageEnd" /\ f = "message" -> "turn"
    [] e = "TurnEnd" /\ f = "turn" -> "agent"
    [] e = "AgentEnd" /\ f = "agent" -> "closed"
    [] OTHER -> "broken"
Frames == { "none", "agent", "turn", "message", "closed", "broken" }

\* What is known of the events so far, and after one more.
View == [ seen |-> seen, frame |-> frame ]
NoEvents == [ seen |-> Fresh, frame |-> "none" ]
See(view, e) ==
  [ seen |-> Track(view.seen, e), frame |-> Nest(view.frame, e) ]

Emitted(view) == seen' = view.seen /\ frame' = view.frame
Emit(e) == Emitted(See(View, e)) /\ UNCHANGED turnMark
EmitBoth(d, e) == Emitted(See(See(View, d), e)) /\ UNCHANGED turnMark

-----------------------------------------------------------------------------
TypeOK ==
  /\ pc \in { "idle", "opening", "firstPoll", "check", "prepare", "repoll",
              "commit", "request", "streaming", "finishError", "tools",
              "finish", "poll", "followUps", "failing", "settle" }
  /\ { steering, followUp, pending, batch, committed } \subseteq Seq(Ids)
  /\ { steeringMode, followUpMode } \subseteq Modes
  /\ { skip, hasMore, explicit, lastTurn, cancelled, hookFailed }
       \subseteq BOOLEAN
  /\ seen \in [ start : BOOLEAN, turn : BOOLEAN, end : BOOLEAN,
              message : BOOLEAN ]
  /\ frame \in Frames
  /\ tail \in { "none", "user", "assistant", "tool" }
  /\ kind \in Seq(Kinds) /\ Len(kind) <= MaxMsgs
  /\ dropped \subseteq Ids /\ lost \subseteq Ids
  /\ turnMark \in Nat

Init ==
  /\ pc = "idle"
  /\ steering = << >> /\ followUp = << >>
  /\ \E s \in Settings : steeringMode = s[1] /\ followUpMode = s[2]
  /\ pending = << >> /\ batch = << >>
  /\ skip = FALSE /\ hasMore = FALSE /\ explicit = FALSE /\ lastTurn = FALSE
  /\ cancelled = FALSE
  /\ seen = Fresh /\ frame = "none" /\ turnMark = 0
  /\ committed = << >> /\ tail = "none"
  /\ kind = << >>
  /\ dropped = { } /\ lost = { }
  /\ hookFailed = FALSE

-----------------------------------------------------------------------------
(* Other tasks.                                                            *)

NextId == Len(kind) + 1
Hand(k) == NextId <= MaxMsgs /\ kind' = Append(kind, k)

Steer ==
  /\ Hand("steering")
  /\ steering' = Append(steering, NextId)
  /\ UNCHANGED << pc, followUp, modes, loop, cancelled, events, book, fate,
                  hookFailed >>

FollowUp ==
  /\ Hand("followUp")
  /\ followUp' = Append(followUp, NextId)
  /\ UNCHANGED << pc, steering, modes, loop, cancelled, events, book, fate,
                  hookFailed >>

\* clear_steering_queue, clear_follow_up_queue and clear_all_queues.
ClearQueues ==
  /\ \E cs, cf \in BOOLEAN :
       /\ steering' = IF cs THEN << >> ELSE steering
       /\ followUp' = IF cf THEN << >> ELSE followUp
  /\ dropped' = dropped \cup ((Elems(steering) \cup Elems(followUp))
                                \ (Elems(steering') \cup Elems(followUp')))
  /\ UNCHANGED << pc, modes, loop, cancelled, events, book, kind, lost,
                  hookFailed >>

Abort ==
  /\ pc # "idle"
  /\ cancelled' = TRUE
  /\ UNCHANGED << pc, queues, modes, loop, events, book, kind, fate,
                  hookFailed >>

-----------------------------------------------------------------------------
(* Beginning a run.                                                        *)

BeginRun(prompts, skipPoll) ==
  /\ pc = "idle"
  /\ batch' = prompts
  /\ pc' = IF prompts = << >> THEN "firstPoll" ELSE "opening"
  /\ skip' = skipPoll
  /\ explicit' = FALSE /\ lastTurn' = FALSE /\ cancelled' = FALSE
  /\ hookFailed' = FALSE
  /\ Emitted(See(See(NoEvents, "AgentStart"), "TurnStart"))
  /\ turnMark' = Len(committed)
  /\ UNCHANGED << modes, pending, hasMore, book, fate >>

Prompt ==
  /\ Hand("prompt")
  /\ BeginRun(<< NextId >>, FALSE)
  /\ UNCHANGED queues

\* A slip: the run polls the steering queue it was started from.
ContinueSteeringPolls ==
  /\ tail = "assistant" /\ steering # << >>
  /\ BeginRun(Taken(steering, steeringMode), FALSE)
  /\ steering' = Left(steering, steeringMode)
  /\ UNCHANGED << followUp, kind >>

\* continue_run after an assistant message starts from a queue, steering
\* first; it is refused, and takes nothing, when both are empty.
ContinueSteering ==
  /\ tail = "assistant" /\ steering # << >>
  /\ BeginRun(Taken(steering, steeringMode), TRUE)
  /\ steering' = Left(steering, steeringMode)
  /\ UNCHANGED << followUp, kind >>

ContinueFollowUp ==
  /\ tail = "assistant" /\ steering = << >> /\ followUp # << >>
  /\ BeginRun(Taken(followUp, followUpMode), FALSE)
  /\ followUp' = Left(followUp, followUpMode)
  /\ UNCHANGED << steering, kind >>

ContinueTail ==
  /\ tail \in { "user", "tool" }
  /\ BeginRun(<< >>, FALSE)
  /\ UNCHANGED << queues, kind >>
-----------------------------------------------------------------------------
(* Committing the messages of a turn.                                      *)

\* MessageStart, finalize_message, MessageEnd.
CommitMessage ==
  /\ pc \in { "opening", "commit" } /\ batch # << >>
  /\ committed' = Append(committed, Head(batch))
  /\ tail' = "user"
  /\ batch' = Tail(batch)
  /\ EmitBoth("MessageStart", "MessageEnd")
  /\ UNCHANGED << pc, queues, modes, pending, skip, hasMore, explicit,
                  lastTurn, cancelled, kind, fate, hookFailed >>

\* finalize_message fails: the token is cancelled, AgentEnd is emitted after
\* what was viewed and the run returns Err with what it still held.
FinalizeFails(view) ==
  /\ cancelled' = TRUE
  /\ hookFailed' = TRUE
  /\ lost' = lost \cup Elems(batch) \cup Elems(pending)
  /\ batch' = << >> /\ pending' = << >>
  /\ pc' = "failing"
  /\ Emitted(See(view, "AgentEnd")) /\ UNCHANGED turnMark
  /\ UNCHANGED << queues, modes, skip, hasMore, explicit, lastTurn, book,
                  kind, dropped >>

CommitFails ==
  /\ pc \in { "opening", "commit" } /\ batch # << >>
  /\ FinalizeFails(See(View, "MessageStart"))

CommitDone ==
  /\ pc \in { "opening", "commit" } /\ batch = << >>
  /\ pc' = IF pc = "opening" THEN "firstPoll" ELSE "request"
  /\ UNCHANGED << queues, modes, loop, cancelled, events, book, kind, fate,
                  hookFailed >>

\* A callback that the loop does not guard panics: the task of the run turns
\* it into Err, with what the loop still held.
HookPanics ==
  /\ pc \in { "prepare", "request", "streaming", "finishError", "finish" }
  /\ lost' = lost \cup Elems(batch) \cup Elems(pending)
  /\ batch' = << >> /\ pending' = << >>
  /\ pc' = "failing"
  /\ UNCHANGED << queues, modes, skip, hasMore, explicit, lastTurn,
                  cancelled, events, book, kind, dropped, hookFailed >>

-----------------------------------------------------------------------------
(* The loops.                                                              *)

FirstPoll ==
  /\ pc = "firstPoll"
  /\ pending' = IF skip THEN << >> ELSE Taken(steering, steeringMode)
  /\ steering' = IF skip THEN steering ELSE Left(steering, steeringMode)
  /\ skip' = FALSE
  /\ hasMore' = TRUE
  /\ pc' = "check"
  /\ UNCHANGED << followUp, modes, batch, explicit, lastTurn, cancelled,
                  events, book, kind, fate, hookFailed >>

\* The condition of the inner loop; the first turn has no preparation and
\* its TurnStart is out already.
Check ==
  /\ pc = "check"
  /\ \/ /\ ~hasMore /\ pending = << >>
        /\ pc' = "followUps"
        /\ UNCHANGED << batch, pending >>
     \/ /\ (hasMore \/ pending # << >>) /\ lastTurn
        /\ pc' = "prepare"
        /\ UNCHANGED << batch, pending >>
     \/ /\ (hasMore \/ pending # << >>) /\ ~lastTurn
        /\ pc' = "commit"
        /\ batch' = pending /\ pending' = << >>
  /\ UNCHANGED << queues, modes, skip, hasMore, explicit, lastTurn,
                  cancelled, events, book, kind, fate, hookFailed >>

\* prepare_next_turn may add a message; it goes before the pending ones.
Prepare ==
  /\ pc = "prepare"
  /\ \/ Hand("prepared") /\ batch' = << NextId >>
     \/ batch' = << >> /\ UNCHANGED kind
  /\ pc' = "repoll"
  /\ UNCHANGED << queues, modes, pending, skip, hasMore, explicit, lastTurn,
                  cancelled, events, book, fate, hookFailed >>

\* A slip: what the second poll takes goes first.
RepollAhead ==
  /\ pc = "repoll"
  /\ batch' = batch \o Taken(steering, steeringMode) \o pending
  /\ steering' = Left(steering, steeringMode)
  /\ pending' = << >>
  /\ Emitted(See(View, "TurnStart")) /\ turnMark' = Len(committed)
  /\ pc' = "commit"
  /\ UNCHANGED << followUp, modes, skip, hasMore, explicit, lastTurn,
                  cancelled, book, kind, fate, hookFailed >>

Repoll ==
  /\ pc = "repoll"
  /\ \/ /\ pending # << >>
        /\ batch' = batch \o pending
        /\ UNCHANGED steering
     \/ /\ pending = << >>
        /\ batch' = batch \o Taken(steering, steeringMode)
        /\ steering' = Left(steering, steeringMode)
  /\ pending' = << >>
  /\ Emitted(See(View, "TurnStart")) /\ turnMark' = Len(committed)
  /\ pc' = "commit"
  /\ UNCHANGED << followUp, modes, skip, hasMore, explicit, lastTurn,
                  cancelled, book, kind, fate, hookFailed >>

\* The provider's first event opens the assistant message.
Request ==
  /\ pc = "request"
  /\ pc' = "streaming"
  /\ Emit("MessageStart")
  /\ UNCHANGED << queues, modes, loop, cancelled, book, kind, fate,
                  hookFailed >>

Answer(next) ==
  /\ pc = "streaming"
  /\ pc' = next
  /\ tail' = "assistant"
  /\ hasMore' = FALSE
  /\ Emit("MessageEnd")
  /\ UNCHANGED << queues, modes, pending, batch, skip, explicit, lastTurn,
                  cancelled, committed, kind, fate, hookFailed >>

\* An answer counts even on a cancelled token if it comes within the grace.
AnswerComplete ==
  \/ Answer("finish")     \* no tool calls
  \/ Answer("tools")
AnswerError == Answer("finishError")

\* The provider honours the token, or the grace period ends.
AnswerAborted == cancelled /\ Answer("finishError")

AnswerFails == pc = "streaming" /\ FinalizeFails(View)

\* A batch has at least one result; ToolBatch says which.  A truncated
\* answer's calls all fail and never terminate the batch.
Tools ==
  /\ pc = "tools"
  /\ pc' = "finish"
  /\ tail' = "tool"
  /\ hasMore' \in BOOLEAN
  /\ EmitBoth("MessageStart", "MessageEnd")
  /\ UNCHANGED << queues, modes, pending, batch, skip, explicit, lastTurn,
                  cancelled, committed, kind, fate, hookFailed >>

\* finalize_message is asked about a tool result before its MessageStart.
ToolsFail == pc = "tools" /\ FinalizeFails(View)

\* After Error or Aborted finish_turn is called, its decision ignored.
FinishError ==
  /\ pc = "finishError"
  /\ EmitBoth("TurnEnd", "AgentEnd")
  /\ pc' = "settle"
  /\ UNCHANGED << queues, modes, loop, cancelled, book, kind, fate,
                  hookFailed >>

Finish ==
  /\ pc = "finish"
  /\ \E decision \in { "none", "continue", "end" } :
       IF decision = "end"
         THEN /\ EmitBoth("TurnEnd", "AgentEnd")
              /\ pc' = "settle"
              /\ UNCHANGED << explicit, lastTurn >>
         ELSE /\ Emit("TurnEnd")
              /\ pc' = "poll"
              /\ explicit' = (decision = "continue")
              /\ lastTurn' = TRUE
  /\ UNCHANGED << queues, modes, pending, batch, skip, hasMore, cancelled,
                  book, kind, fate, hookFailed >>

Poll ==
  /\ pc = "poll"
  /\ pending' = Taken(steering, steeringMode)
  /\ steering' = Left(steering, steeringMode)
  /\ explicit' = (explicit /\ ~hasMore /\ pending' = << >>)
  /\ pc' = "check"
  /\ UNCHANGED << followUp, modes, batch, skip, hasMore, lastTurn, cancelled,
                  events, book, kind, fate, hookFailed >>

\* The outer loop: follow-ups, then an explicit continuation, then the end.
FollowUps ==
  /\ pc = "followUps"
  /\ pending' = Taken(followUp, followUpMode)
  /\ followUp' = Left(followUp, followUpMode)
  /\ explicit' = FALSE
  /\ \/ /\ pending' # << >> \/ explicit
        /\ hasMore' = TRUE
        /\ pc' = "check"
        /\ UNCHANGED events
     \/ /\ pending' = << >> /\ ~explicit
        /\ Emit("AgentEnd")
        /\ pc' = "settle"
        /\ UNCHANGED hasMore
  /\ UNCHANGED << steering, modes, batch, skip, lastTurn, cancelled, book,
                  kind, fate, hookFailed >>

-----------------------------------------------------------------------------
(* The end of a run.                                                       *)

\* The end of a report of a failure: an empty message with the error.
ReportedIn(turn) ==
  LET message ==
        IF seen.message THEN turn ELSE See(turn, "MessageStart")
  IN  See(See(See(message, "MessageEnd"), "TurnEnd"), "AgentEnd")

\* A slip: the failure is reported as if a turn were always open.
RunFailureInOpenTurn ==
  /\ pc = "failing"
  /\ pc' = "settle"
  /\ IF seen.end
       THEN UNCHANGED << events, tail >>
       ELSE tail' = "assistant" /\ Emitted(ReportedIn(View)) /\ UNCHANGED turnMark
  /\ UNCHANGED << queues, modes, loop, cancelled, committed, kind, fate,
                  hookFailed >>

\* handle_run_failure completes the event sequence, unless AgentEnd is out.
HandleRunFailure ==
  LET agent == IF seen.start THEN View ELSE See(View, "AgentStart")
      turn  == IF seen.turn THEN agent ELSE See(agent, "TurnStart")
  IN  /\ pc = "failing"
      /\ pc' = "settle"
      /\ IF seen.end
           THEN UNCHANGED << events, tail >>
           ELSE /\ tail' = "assistant"
                /\ Emitted(ReportedIn(turn))
                /\ turnMark' = IF seen.turn THEN turnMark ELSE Len(committed)
      /\ UNCHANGED << queues, modes, loop, cancelled, committed, kind, fate,
                      hookFailed >>

\* finish_run, after the listeners of AgentEnd have returned.
FinishRun ==
  /\ pc = "settle"
  /\ pc' = "idle"
  /\ UNCHANGED << queues, modes, loop, cancelled, events, book, kind, fate,
                  hookFailed >>

Others == Steer \/ FollowUp \/ ClearQueues \/ Abort
Begin == Prompt \/ ContinueSteering \/ ContinueFollowUp \/ ContinueTail
LoopStep ==
  \/ CommitMessage \/ CommitFails \/ CommitDone \/ HookPanics
  \/ FirstPoll \/ Check \/ Prepare \/ Repoll
  \/ Request \/ AnswerComplete \/ AnswerError \/ AnswerAborted \/ AnswerFails
  \/ Tools \/ ToolsFail
  \/ FinishError \/ Finish \/ Poll \/ FollowUps
  \/ HandleRunFailure \/ FinishRun

Next == Others \/ Begin \/ LoopStep

\* Hooks, tools and listeners return.  The provider may answer as it likes,
\* but not for ever within the grace period of a cancelled token.
Fairness == WF_vars(LoopStep) /\ SF_vars(AnswerAborted)

Spec == Init /\ [][Next]_vars /\ Fairness

-----------------------------------------------------------------------------
(* Properties.                                                             *)

\* Everything the agent holds, in the order in which it is to be committed.
Held == committed \o batch \o pending \o steering \o followUp

Sent(m, k) == kind[m] = k
SameQueue(m, n) ==
  kind[m] = kind[n] /\ (Sent(m, "steering") \/ Sent(m, "followUp"))

\* Every message handed to the agent is somewhere: in a queue, held by the
\* loop, committed, or else cleared or lost with a failed run, not both.
Conservation ==
  /\ Elems(Held) \cup dropped \cup lost = 1 .. Len(kind)
  /\ Elems(Held) \cap (dropped \cup lost) = { }
  /\ dropped \cap lost = { }

\* No message is held twice, and steering messages enter the transcript in the
\* order they were given, and so do follow-ups, through every poll,
\* continuation and failure.
QueueOrder ==
  \A i, j \in DOMAIN Held :
    i < j => /\ Held[i] # Held[j]
             /\ SameQueue(Held[i], Held[j]) => Held[i] < Held[j]

\* What is handed to an agent reaches its transcript once and in order,
\* whichever poll takes it (run_loop, get_steering_messages).
MessagesOnceInOrder == Conservation /\ QueueOrder

\* In one-at-a-time mode a turn takes at most one steering message: the
\* polls at the end of one turn and the start of the next do not add up.
OneSteeringPerTurn ==
  LET turn == committed \o batch IN
  steeringMode = "one-at-a-time" =>
    \A i, j \in turnMark + 1 .. Len(turn) :
      Sent(turn[i], "steering") /\ Sent(turn[j], "steering") => i = j

\* A run in which no finalize_message fails shows its subscribers properly
\* nested events with AgentEnd last and once, whichever callback panics.
ClosedUnlessFinalizeFails ==
  \/ hookFailed
  \/ frame # "broken" /\ (pc = "idle" => frame \in { "none", "closed" })

-----------------------------------------------------------------------------
(* Why the invariants hold.                                                *)

\* Where the loop holds messages: from a poll until they are committed.
HeldWhere ==
  /\ pc \notin { "opening", "repoll", "commit" } => batch = << >>
  /\ pc \notin { "check", "prepare", "repoll" } => pending = << >>

\* Each queue has the messages that were put into it.
KindsOfQueues ==
  /\ \A m \in Elems(steering) : Sent(m, "steering")
  /\ \A m \in Elems(followUp) : Sent(m, "followUp")

\* Where the loop is in its first turn and where it is past it.
FirstTurn ==
  /\ pc \in { "opening", "firstPoll" } => ~lastTurn
  /\ pc \in { "prepare", "repoll", "poll", "followUps" } => lastTurn
  /\ pc = "check" => hasMore \/ lastTurn

\* The messages of the turn, and how many of a set have been steered in.
InTurn == { committed[i] : i \in turnMark + 1 .. Len(committed) } \cup Elems(batch)
NoSteering(S) == \A m \in S : ~Sent(m, "steering")
OneSteering(S) ==
  \A m, n \in S : Sent(m, "steering") /\ Sent(n, "steering") => m = n

\* A poll brings one steering message, and a turn that has one polls no more.
SteeringInv ==
  /\ turnMark <= Len(committed)
  /\ steeringMode = "one-at-a-time" =>
       /\ OneSteering(InTurn) /\ OneSteering(Elems(pending))
       /\ pc \in { "opening", "firstPoll" } => skip \/ NoSteering(InTurn)
       /\ pc = "check" /\ ~lastTurn => OneSteering(InTurn \cup Elems(pending))
       /\ pc = "repoll" => NoSteering(Elems(batch))

\* The events that are out fit the place of the loop, and the agent's record
\* of them fits the events.
FrameInv ==
  ~hookFailed =>
    /\ frame # "broken"
    /\ seen.start <=> frame # "none"
    /\ seen.turn <=> frame \in { "turn", "message" }
    /\ seen.end <=> frame = "closed"
    /\ seen.message <=> frame = "message"
    /\ pc = "idle" => frame \in { "none", "closed" }
    /\ pc \in { "opening", "firstPoll", "commit", "request", "tools", "finish",
               "finishError" } => frame = "turn"
    /\ pc = "streaming" => frame = "message"
    /\ pc \in { "prepare", "repoll", "poll", "followUps" } => frame = "agent"
    /\ pc = "check" => frame = IF lastTurn THEN "agent" ELSE "turn"
    /\ pc = "settle" => frame = "closed"
    /\ pc = "failing" => frame \in { "agent", "turn", "message" }

LoopInv ==
  /\ TypeOK /\ HeldWhere /\ KindsOfQueues /\ FirstTurn
  /\ MessagesOnceInOrder /\ SteeringInv /\ FrameInv

-----------------------------------------------------------------------------
\* A cancelled run comes to an end.
Cancelled == cancelled /\ pc # "idle"
Idle == pc = "idle"

CancelledRunSettles == Cancelled ~> Idle
=============================================================================
