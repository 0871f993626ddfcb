----------------------------- MODULE AnswerQueue -----------------------------
(***************************************************************************)
(* The stream of events between who makes an answer and who wants it       *)
(* (AssistantMessageEventStream of pi-ai/src/types.rs; EventStream of      *)
(* pi-agent/src/event_stream.rs is the same): a queue with one reader,     *)
(* and a result that others wait for.                                      *)
(*                                                                         *)
(* push, end, a poll and a look at the result hold the lock: each is one   *)
(* step.  result() is not: it arms its notification, looks, and waits.     *)
(***************************************************************************)
EXTENDS Naturals, SequencesExt

CONSTANTS MaxEvents, Waiters

VARIABLES
  queue, discard, done, result,  \* the state that the lock protects
  waker,                         \* has the reader left its waker?
  writer,                        \* runs, or ended
  reader,                        \* polls, sleeps, ended or gone
  waiter,                        \* of each: starts, armed, sleeps, has
  told,                          \* of each waiter: notified since it armed
  pushed, got, has               \* history: the events, and what came of them

locked == << queue, discard, done, result, waker >>
history == << pushed, got, has >>
vars == << locked, writer, reader, waiter, told, history >>

Init ==
  /\ queue = << >> /\ discard = FALSE /\ done = FALSE /\ result = 0
  /\ waker = FALSE /\ writer = "runs" /\ reader = "polls"
  /\ waiter = [ w \in Waiters |-> "starts" ] /\ told = [ w \in Waiters |-> FALSE ]
  /\ pushed = << >> /\ got = << >> /\ has = [ w \in Waiters |-> 0 ]

-----------------------------------------------------------------------------
SleepsOn == UNCHANGED << waker, reader >>
Wake ==
  /\ waker' = FALSE
  /\ reader' = IF waker /\ reader = "sleeps" THEN "polls" ELSE reader

\* Who has armed its notification is told as well as who sleeps.
NotifyWaiters == told' = [ w \in Waiters |-> told[w] \/ waiter[w] \in { "armed", "sleeps" } ]

\* An event is its number; that of the last one is the result.
Push(last) ==
  LET e == Len(pushed) + 1 IN
  /\ writer = "runs" /\ ~done /\ e <= MaxEvents
  /\ pushed' = Append(pushed, e)
  /\ queue' = IF discard THEN queue ELSE Append(queue, e)
  /\ IF last THEN done' = TRUE /\ result' = e /\ NotifyWaiters
             ELSE UNCHANGED << done, result, told >>
  /\ Wake
  /\ UNCHANGED << discard, writer, waiter, got, has >>

\* The writer's last call; of the agent's stream it may bring the result.
End(r) ==
  /\ writer = "runs" /\ writer' = "ended" /\ done' = TRUE
  /\ done \/ r # 0
  /\ IF r # 0 /\ result = 0 THEN result' = r /\ NotifyWaiters
                            ELSE UNCHANGED << result, told >>
  /\ Wake
  /\ UNCHANGED << queue, discard, waiter, history >>

Poll ==
  /\ reader = "polls"
  /\ IF queue # << >>
     THEN /\ got' = Append(got, Head(queue)) /\ queue' = Tail(queue)
          /\ UNCHANGED << reader, waker >>
     ELSE /\ UNCHANGED << queue, got >>
          /\ IF done THEN reader' = "ended" /\ UNCHANGED waker
                     ELSE reader' = "sleeps" /\ waker' = TRUE
  /\ UNCHANGED << discard, done, result, writer, waiter, told, pushed, has >>

\* Who wants the result only has the events thrown away.
DiscardQueuedEvents ==
  /\ ~discard /\ reader = "polls" /\ got = << >>
  /\ discard' = TRUE /\ queue' = << >> /\ reader' = "gone"
  /\ UNCHANGED << done, result, waker, writer, waiter, told, history >>

-----------------------------------------------------------------------------
Goes(w, to) == waiter' = [ waiter EXCEPT ![w] = to ]

\* A notification counts from the moment that it is made.
Arm(w) ==
  /\ waiter[w] = "starts" /\ Goes(w, "armed") /\ told' = [ told EXCEPT ![w] = FALSE ]
  /\ UNCHANGED << locked, writer, reader, history >>

Look(w) ==
  /\ waiter[w] = "armed"
  /\ IF result # 0 THEN Goes(w, "has") /\ has' = [ has EXCEPT ![w] = result ]
                   ELSE Goes(w, "sleeps") /\ UNCHANGED has
  /\ UNCHANGED << locked, writer, reader, told, pushed, got >>

LookAgain(w) ==
  /\ waiter[w] = "sleeps" /\ told[w] /\ Goes(w, "starts")
  /\ UNCHANGED << locked, writer, reader, told, history >>

Next ==
  \/ \E last \in BOOLEAN : Push(last)
  \/ \E r \in { 0, MaxEvents + 1 } : End(r)
  \/ Poll \/ DiscardQueuedEvents
  \/ \E w \in Waiters : Arm(w) \/ Look(w) \/ LookAgain(w)

Spec == Init /\ [][Next]_vars

-----------------------------------------------------------------------------
\* The reader has the events in order, each once, and all of them when the
\* stream ends for it; who waits has the one result; and nobody sleeps on when
\* there is something to wake for.
EventsArrive ==
  /\ IsPrefix(got, pushed)
  /\ reader = "ended" => got = pushed
  /\ reader = "sleeps" => queue = << >> /\ ~done
  /\ \A w \in Waiters :
       /\ waiter[w] = "has" => has[w] = result /\ done
       /\ waiter[w] = "sleeps" /\ result # 0 => told[w]
=============================================================================
