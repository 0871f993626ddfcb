------------------------------ MODULE WebInbox ------------------------------
(***************************************************************************)
(* The inbox of a web session (web/server/session/inbox.ts), with the      *)
(* executor that server/api.ts gives it.                                   *)
(*                                                                         *)
(* An input is kept in a file before it is handed to the session, and is   *)
(* marked before and after.  Every change of the inbox is a transaction:   *)
(* one after the other, a look at what is held and a save that may fail.   *)
(* The drain hands inputs over: its look and its save are two steps here,  *)
(* since the session may start or end a run between them.  The server may  *)
(* die at any point.  The session belongs to a library: a run starts or is *)
(* refused, takes the messages that wait as steers, and ends.  Its         *)
(* messages come without the ids of inputs: input-messages.ts gives each   *)
(* the oldest id that it was told of and no message began for.             *)
(***************************************************************************)
EXTENDS Naturals, Sequences, SequencesExt

CONSTANTS
  Items,       \* inputs, by the id the browser gives them
  NoItem,
  MaxMishaps   \* bound: crashes, failed saves, calls that throw after they
               \* began a run, and runs that the inbox did not start

VARIABLES
  held,        \* data: [items, paused], once loaded
  loaded,
  file,        \* the same in the file
  drain,       \* "off", "look", "save", or "wait" for a steer
  plan,        \* what the drain saves, and then waits for
  wakeRequested,
  prompting,
  out,         \* deliveries: the stage of an item's
  awaited,     \* InputMessages.pending: ids that no message began for
  ids,         \* InputMessages.ids: those that a message was given
  steers,      \* items handed over as a steer, until the session takes them
  session,     \* who runs: an item, "foreign" or NoItem
  nudge,       \* wake-ups that setTimeout holds
  closed,
  taken,       \* history: how often the session took an item, up to twice
  mistaken,    \* history: items whose message was not given their id
  spoiled,     \* history: the last drain ended by a failed save, or none began
  mishaps

inbox   == << held, loaded, file >>
drainer == << drain, plan, wakeRequested, prompting >>
names   == << awaited, ids >>
sdk     == << session, steers, nudge >>
history == << taken, mistaken >>
vars == << inbox, drainer, names, sdk, out, closed, history, spoiled,
           mishaps >>

Deliveries == { "queue", "steer", "direct" }
Statuses == { "pending", "delivering", "delivered", "failed", "cancelled" }
ItemType == [ id : Items, delivery : Deliveries, status : Statuses,
              uncertain : BOOLEAN ]
DataType == [ items : Seq(ItemType), paused : BOOLEAN ]

DataTyped ==
  /\ held \in DataType /\ file \in DataType /\ loaded \in BOOLEAN
  /\ drain \in { "off", "look", "save", "wait" }
  /\ plan \in [ item : Items \cup { NoItem }, steering : BOOLEAN ]
  /\ { wakeRequested, prompting, nudge, closed, spoiled } \subseteq BOOLEAN
  /\ session \in Items \cup { "foreign", NoItem }
  /\ out \in [ Items -> { "none", "calling", "running", "completed",
                         "refused", "broken" } ]
  /\ steers \subseteq Items
  /\ taken \in [ Items -> 0 .. 2 ] /\ mistaken \subseteq Items

TypeOK == DataTyped /\ awaited \in Seq(Items) /\ ids \subseteq Items

Empty == [ items |-> << >>, paused |-> FALSE ]

Convert == [ item |-> NoItem, steering |-> FALSE ]

Init ==
  /\ held = Empty /\ loaded = FALSE /\ file = Empty
  /\ drain = "off" /\ plan = Convert
  /\ wakeRequested = FALSE /\ prompting = FALSE
  /\ out = [ i \in Items |-> "none" ] /\ steers = { }
  /\ awaited = << >> /\ ids = { }
  /\ session = NoItem /\ nudge = FALSE /\ closed = FALSE
  /\ taken = [ i \in Items |-> 0 ] /\ mistaken = { } /\ spoiled = FALSE
  /\ mishaps = 0

-----------------------------------------------------------------------------
(* The data, and transactions.                                             *)

Ids(data) == { data.items[n].id : n \in DOMAIN data.items }
Some(data, Test(_)) == \E n \in DOMAIN data.items : Test(data.items[n])
IsPending(x) == x.status = "pending"
IsFailed(x) == x.status = "failed"
IsOut(x) == x.status = "delivering"

\* The items with those of the given ids changed.
Edit(data, S, Change(_)) ==
  [ data EXCEPT !.items =
      [ n \in DOMAIN @ |-> IF @[n].id \in S THEN Change(@[n]) ELSE @[n] ] ]

\* load(): an item that was being delivered when the server died may have
\* reached the model.
Loaded(data) ==
  Edit(data, Items, LAMBDA x :
         IF IsOut(x) THEN [ x EXCEPT !.uncertain = TRUE ] ELSE x)
Current == IF loaded THEN held ELSE Loaded(file)

Mishap == mishaps < MaxMishaps /\ mishaps' = mishaps + 1

Locked == drain = "save"

\* A transaction that ends with the data `next` saved.
Save(next) == ~Locked /\ loaded' = TRUE /\ held' = next /\ file' = next

\* schedule(): a drain that runs looks once more when it ends.
Schedule ==
  /\ drain' = IF drain = "off" /\ ~closed THEN "look" ELSE drain
  /\ wakeRequested' = (wakeRequested \/ (drain # "off" /\ ~closed))
  /\ spoiled' = (spoiled /\ closed)

\* The end of a drain.
Ended ==
  /\ drain' = IF wakeRequested /\ ~closed THEN "look" ELSE "off"
  /\ wakeRequested' = FALSE

-----------------------------------------------------------------------------
(* Requests of the browser.                                                *)

\* accept(): the same id again only looks whether there is work.
Accept(i, delivery) ==
  LET direct == /\ delivery = "queue" /\ ~Current.paused
                /\ ~prompting /\ session = NoItem
                /\ ~Some(Current, LAMBDA x : IsPending(x) \/ IsOut(x))
      added == [ id |-> i, status |-> "pending", uncertain |-> FALSE,
                 delivery |-> IF direct THEN "direct" ELSE delivery ]
  IN /\ IF i \in Ids(Current)
        THEN /\ ~Locked /\ loaded' = TRUE /\ held' = Current
             /\ UNCHANGED file
        ELSE Save([ items |-> Append(Current.items, added), paused |-> FALSE ])
     /\ Schedule
     /\ UNCHANGED << names, sdk, plan, prompting, out, closed, history,
                     mishaps >>

Pause ==
  /\ Save([ Current EXCEPT !.paused = TRUE ])
  /\ UNCHANGED << drainer, names, sdk, out, closed, history, spoiled,
                  mishaps >>

\* change(): an edit of the text alters nothing that is modelled.
Changed(x, edit) ==
  [ x EXCEPT !.status = IF edit = "remove" THEN "cancelled"
                        ELSE IF edit = "retry" THEN "pending" ELSE @,
             !.delivery = IF edit = "steer" THEN "steer"
                          ELSE IF edit = "retry" /\ @ = "direct" THEN "queue"
                          ELSE @ ]

\* A slip: an item whose fate is unknown may be sent again.
RetriableUncertain(x, edit) ==
  CASE edit = "remove" -> IsPending(x) \/ IsFailed(x)
    [] edit = "retry" -> IsFailed(x) \/ x.uncertain
    [] edit = "steer" -> IsPending(x)

Changeable(x, edit) ==
  CASE edit = "remove" -> IsPending(x) \/ IsFailed(x)
    [] edit = "retry" -> IsFailed(x)
    [] edit = "steer" -> IsPending(x)

ChangeItem(i, edit) ==
  /\ Some(Current, LAMBDA x : x.id = i /\ Changeable(x, edit))
  /\ Save([ Edit(Current, { i }, LAMBDA x : Changed(x, edit)) EXCEPT
              !.paused = @ /\ edit # "retry" ])
  /\ Schedule
  /\ UNCHANGED << names, sdk, plan, prompting, out, closed, history, mishaps >>

\* reorder(): the pending queue items change places among themselves.
Reorder ==
  LET Movable(n) == /\ Current.items[n].status = "pending"
                    /\ Current.items[n].delivery = "queue"
  IN /\ \E m, n \in DOMAIN Current.items :
          /\ m < n /\ Movable(m) /\ Movable(n)
          /\ Save([ Current EXCEPT !.items =
                      [ @ EXCEPT ![m] = Current.items[n],
                                 ![n] = Current.items[m] ] ])
     /\ UNCHANGED << drainer, names, sdk, out, closed, history, spoiled,
                     mishaps >>

\* A request whose save fails is refused and changes nothing.
RequestFails ==
  /\ Mishap
  /\ ~Locked
  /\ loaded' = TRUE /\ held' = Current
  /\ UNCHANGED << drainer, names, sdk, file, out, closed, history, spoiled >>

-----------------------------------------------------------------------------
(* drain(): look, save, hand over.                                         *)

\* What the drain would do now: hand over an item, turn the direct items into
\* queued ones (Convert), or nothing.
Plans ==
  LET busy == prompting \/ session # NoItem
      failed == Some(Current, IsFailed)
      Fit(x) == /\ IsPending(x)
                /\ IF failed THEN x.delivery = "direct" /\ ~busy
                             ELSE x.delivery = "steer" \/ ~busy
      fit == { n \in DOMAIN Current.items : Fit(Current.items[n]) }
  IN IF Current.paused \/ (prompting /\ session = NoItem) THEN { }
     ELSE IF busy /\ Some(Current, LAMBDA x :
                              IsPending(x) /\ x.delivery = "direct")
          THEN { Convert }
     ELSE { [ item |-> Current.items[n].id,
              steering |-> busy /\ Current.items[n].delivery = "steer" ] :
            n \in { n \in fit : \A m \in fit : n <= m } }

\* A drain that close() overtakes may still get one look.
Look ==
  /\ drain = "look"
  /\ loaded' = TRUE /\ held' = Current
  /\ \/ /\ Plans = { } \/ closed
        /\ Ended /\ UNCHANGED plan
     \/ drain' = "save" /\ plan' \in Plans /\ UNCHANGED wakeRequested
  /\ UNCHANGED << names, sdk, file, prompting, out, closed, history, spoiled,
                  mishaps >>

Commit(next) == held' = next /\ file' = next /\ UNCHANGED loaded

SaveConvert ==
  /\ drain = "save" /\ plan = Convert
  /\ Commit(Edit(held, Items, LAMBDA x :
              IF IsPending(x) /\ x.delivery = "direct"
              THEN [ x EXCEPT !.delivery = "queue" ] ELSE x))
  /\ drain' = IF closed THEN "off" ELSE "look"
  /\ wakeRequested' = FALSE
  /\ UNCHANGED << names, sdk, plan, prompting, out, closed, history, spoiled,
                  mishaps >>

HandOver ==
  /\ drain = "save" /\ plan # Convert
  /\ Commit(Edit(held, { plan.item },
                 LAMBDA x : [ x EXCEPT !.status = "delivering" ]))
  /\ prompting' = (prompting \/ ~plan.steering)
  /\ out' = [ out EXCEPT ![plan.item] = "calling" ]
  /\ awaited' = Append(awaited, plan.item)
  /\ IF plan.steering THEN drain' = "wait" /\ UNCHANGED wakeRequested
     ELSE IF closed THEN Ended ELSE drain' = "look" /\ UNCHANGED wakeRequested
  /\ UNCHANGED << ids, sdk, plan, closed, history, spoiled, mishaps >>

DrainSaveFails ==
  /\ Mishap
  /\ drain = "save"
  /\ Ended /\ spoiled' = (drain' = "off")
  /\ UNCHANGED << inbox, names, sdk, plan, prompting, out, closed, history >>

-----------------------------------------------------------------------------
(* deliver(), and the session.                                             *)

IsSteer(i) == drain = "wait" /\ plan.item = i

\* The call ends before the session took anything: an image cannot be read,
\* the session runs something else, the model has no key.
CallRefused(i) ==
  /\ out[i] \in { "calling" }
  /\ out' = [ out EXCEPT ![i] = "refused" ]
  /\ awaited' = Remove(awaited, i)
  /\ UNCHANGED << inbox, drainer, ids, sdk, closed, history, spoiled,
                  mishaps >>

\* message_start: the message is given the first id awaited.
MessageBegins ==
  /\ awaited' = IF awaited = << >> THEN awaited ELSE Tail(awaited)
  /\ ids' = IF awaited = << >> THEN ids ELSE ids \cup { Head(awaited) }

Take(i) ==
  /\ taken' = [ taken EXCEPT ![i] = IF @ = 2 THEN 2 ELSE @ + 1 ]
  /\ MessageBegins
  /\ mistaken' = IF i \in ids' THEN mistaken ELSE mistaken \cup { i }

\* A prompt starts a run; so does a steer with a skill, if nothing runs.
CallStartsRun(i) ==
  /\ out[i] = "calling" /\ session = NoItem
  /\ session' = i /\ nudge' = TRUE /\ Take(i)
  /\ out' = [ out EXCEPT ![i] = "running" ]
  /\ UNCHANGED << inbox, drainer, steers, closed, spoiled, mishaps >>

\* A steer waits in the session for a run to take it, now or later.
CallSteers(i) ==
  /\ out[i] = "calling" /\ IsSteer(i)
  /\ steers' = steers \cup { i }
  /\ out' = [ out EXCEPT ![i] = "completed" ]
  /\ UNCHANGED << inbox, drainer, names, session, nudge, closed, history,
                  spoiled, mishaps >>

TakeSteer(i) ==
  /\ session # NoItem /\ i \in steers
  /\ steers' = steers \ { i } /\ Take(i)
  /\ UNCHANGED << inbox, drainer, out, session, nudge, closed, spoiled,
                  mishaps >>

\* A run of the session that the inbox has no part in, with or without a
\* message of a user.
ForeignRun ==
  /\ Mishap
  /\ session = NoItem
  /\ session' = "foreign" /\ nudge' = TRUE
  /\ MessageBegins \/ UNCHANGED names
  /\ UNCHANGED << inbox, drainer, out, steers, closed, history, spoiled >>

\* The call of the item that began the run returns, or throws after all;
\* agent_end forgets the ids that are awaited.
RunEnds ==
  /\ session # NoItem
  /\ session' = NoItem /\ nudge' = TRUE
  /\ \E stage \in { "completed", "broken" } :
       /\ IF stage = "broken" /\ session \in Items THEN Mishap
                                                  ELSE UNCHANGED mishaps
       /\ out' = [ i \in Items |-> IF i = session THEN stage ELSE out[i] ]
  /\ awaited' = << >>
  /\ UNCHANGED << inbox, drainer, ids, steers, closed, history, spoiled >>

\* agent_start and agent_settled wake the inbox, a little later.
Wake ==
  /\ nudge /\ nudge' = FALSE
  /\ Schedule
  /\ UNCHANGED << inbox, names, plan, prompting, out, session, steers,
                  closed, history, mishaps >>

\* A slip: the outcome of the call alone decides.
AcceptedByOutcome(i) == out[i] = "completed"

\* completed, or wasAccepted() of an item whose id was given to a message.
WasAccepted(i) == out[i] = "completed" \/ i \in ids

\* A slip: the events of the session are trusted to wake the drain.
WakeByEvents(delivered) == UNCHANGED << drain, wakeRequested, spoiled >>

WakeAfter(delivered) ==
  IF delivered THEN Schedule ELSE UNCHANGED << drain, wakeRequested, spoiled >>

\* The task of a delivery is over; a drain that waited for it goes on if it
\* was delivered.
TaskEnds(i, delivered) ==
  /\ out' = [ out EXCEPT ![i] = "none" ]
  /\ prompting' = (prompting /\ IsSteer(i))
  /\ IF ~IsSteer(i)
     THEN WakeAfter(delivered)
     ELSE /\ IF delivered /\ ~closed
             THEN drain' = "look" /\ wakeRequested' = TRUE
             ELSE Ended
          /\ UNCHANGED spoiled
  /\ UNCHANGED << names, sdk, plan, closed, history >>

Delivered(i) ==
  /\ out[i] = "completed"
  /\ Save(Edit(Current, { i }, LAMBDA x : [ x EXCEPT !.status = "delivered" ]))
  /\ TaskEnds(i, TRUE)
  /\ UNCHANGED mishaps

Outcome(i) ==
  Edit(Current, { i }, LAMBDA x :
    [ x EXCEPT !.status = IF WasAccepted(i) THEN "delivering" ELSE "failed",
               !.uncertain = WasAccepted(i) ])

\* The call failed, or the save after it.
NotDelivered(i) ==
  /\ out[i] \in { "refused", "broken" }
  /\ Save(Outcome(i))
  /\ TaskEnds(i, FALSE)
  /\ UNCHANGED mishaps

\* That save fails too: what the session accepted is marked in memory at least.
NotSaved(i) ==
  /\ Mishap
  /\ out[i] \in { "completed", "refused", "broken" } /\ ~Locked
  /\ loaded' = TRUE
  /\ held' = IF WasAccepted(i) THEN Outcome(i) ELSE Current
  /\ file' \in IF out[i] = "completed" THEN { file, Outcome(i) } ELSE { file }
  /\ TaskEnds(i, FALSE)

-----------------------------------------------------------------------------

Close ==
  /\ ~closed /\ closed' = TRUE
  /\ UNCHANGED << inbox, drainer, names, sdk, out, history, spoiled, mishaps >>

\* The server dies and is started again; nothing is dispatched on load.  The
\* session keeps the ids that its messages were given.
Crash ==
  /\ Mishap
  /\ held' = Empty /\ loaded' = FALSE
  /\ drain' = "off" /\ plan' = Convert
  /\ wakeRequested' = FALSE /\ prompting' = FALSE
  /\ out' = [ i \in Items |-> "none" ] /\ steers' = { } /\ awaited' = << >>
  /\ session' = NoItem /\ nudge' = FALSE /\ closed' = FALSE
  /\ spoiled' = TRUE
  /\ UNCHANGED << file, ids, history >>

Handing(i) == CallRefused(i) \/ CallStartsRun(i) \/ CallSteers(i)
Settling(i) == Delivered(i) \/ NotDelivered(i) \/ NotSaved(i)

Request ==
  \/ \E i \in Items, d \in { "queue", "steer" } : Accept(i, d)
  \/ \E i \in Items, e \in { "remove", "retry", "steer" } : ChangeItem(i, e)
  \/ Pause \/ Reorder \/ RequestFails
Drain == Look \/ SaveConvert \/ HandOver \/ DrainSaveFails

Next ==
  \/ Request \/ Drain \/ Wake
  \/ \E i \in Items : Handing(i) \/ TakeSteer(i) \/ Settling(i)
  \/ ForeignRun \/ RunEnds \/ Close \/ Crash

Spec == Init /\ [][Next]_vars

-----------------------------------------------------------------------------

\* The session takes an input once, however often the server dies, saves fail
\* and the user retries: what may have been taken cannot be sent again.  The
\* exception is an input whose message was given the id of another one, or
\* none: wasAccepted() does not know it, and if its call throws after all it
\* counts as failed.
TakenOnce == \A i \in Items : i \notin mistaken => taken[i] <= 1

\* When everything has come to rest, what may be sent has been: a pending
\* input waits only for a user who paused the queue or left an input behind
\* whose delivery failed or is unknown, or for the next submission or run
\* after a crash or a failed save.
NoWakeLost ==
  LET quiet == /\ drain = "off" /\ ~nudge /\ session = NoItem /\ ~closed
               /\ \A i \in Items : out[i] = "none"
  IN quiet /\ ~spoiled /\ ~Current.paused
       /\ ~Some(Current, LAMBDA x : IsFailed(x) \/ IsOut(x))
     => ~Some(Current, IsPending)

-----------------------------------------------------------------------------
(* Why these hold.  An input that may be sent (again) is one that nobody   *)
(* has, in memory as in the file; and an inbox at rest has looked since    *)
(* the last change that could give it work.                                *)

\* Nobody has the input, and the session never took it, as far as ids tell.
Unsent(i) ==
  out[i] = "none" /\ i \notin steers /\ (taken[i] = 0 \/ i \in mistaken)

Has(data, i) == \E n \in DOMAIN data.items : data.items[n].id = i
IsAt(data, i, S) ==
  \E n \in DOMAIN data.items : data.items[n].id = i /\ data.items[n].status \in S

\* What is pending or may be retried has not been sent.
Honest(data) ==
  \A i \in Items : IsAt(data, i, { "pending", "failed" }) => Unsent(i)

\* The inbox, in memory and in its file, knows what was sent.
KnowsSent ==
  /\ Honest(file) /\ Honest(held)
  /\ \A i \in Items :
       /\ ~Unsent(i) => Has(file, i) /\ (loaded => Has(held, i))
       /\ out[i] # "none" => loaded /\ IsAt(held, i, { "delivering" })

\* The executor and the session agree on who has an input, and what the drain
\* is about to save is about an input that was not sent.
HandlingInv ==
  /\ \A i \in Items :
       /\ i \in steers => out[i] \in { "none", "completed" }
       /\ session = i => out[i] = "running"
  /\ drain = "save" => loaded
  /\ drain = "save" /\ plan # Convert =>
       plan.item \in Items /\ Unsent(plan.item) /\ Has(held, plan.item)
  /\ prompting => \E i \in Items : out[i] # "none" /\ ~IsSteer(i)

\* An input the session took has its id, unless ids were given wrongly.
TakenInv ==
  \A i \in Items : i \notin mistaken =>
    /\ taken[i] <= 1
    /\ taken[i] > 0 => i \in ids
    /\ out[i] = "calling" \/ i \in steers => taken[i] = 0

InboxInv == DataTyped /\ KnowsSent /\ HandlingInv /\ TakenInv /\ NoWakeLost
=============================================================================
