----------------------------- MODULE NestedCalls -----------------------------
(***************************************************************************)
(* Nested tool calls (crates/pi-session/src/nested_calls.rs).              *)
(*                                                                         *)
(* A tool may call tools.  NestedToolCallRunner records the calls made     *)
(* under a top-level call for its result, and runs the ones that must not  *)
(* overlap ("exclusive") one after the other: each                         *)
(* waits for a channel that the one before it in the queue holds the other *)
(* end of.  A call made inside an exclusive one does not queue.  All it    *)
(* knows of a call that is running is the scope under the call's id.       *)
(*                                                                         *)
(* A top-level tool may return while calls it made still run: the codemode *)
(* tool does, when its script times out or is done.  No tool of the        *)
(* repository drops a nested call it waits for, and none does here.        *)
(***************************************************************************)
EXTENDS Naturals, FiniteSets

CONSTANTS
  Roots,         \* top-level tool calls
  Calls,         \* nested tool calls
  Caller,        \* who makes a nested call
  Sequential,    \* calls of a sequential tool, or all, if the session is
  MaxRecorded,   \* NESTED_MAX_CALLS
  None

VARIABLES
  pc,          \* of every call
  scopes,      \* call id -> CallScope, for some of the calls
  tail,        \* queue_tail: the last call that queued
  before,      \* the call that a queued call waits for
  holds,       \* caller_holds_queue, as a call read it when it began
  recordedBy,  \* the root whose recorder a call got
  listed,      \* calls in a recorder
  truncated,   \* recorders that left out something
  summary,     \* of a root, when its result was made
  forgotten    \* history: calls whose scope AgentEnd cleared

vars == << pc, scopes, tail, before, holds, recordedBy, listed, truncated,
           summary, forgotten >>

NoScope == [ open |-> FALSE, holdsQueue |-> FALSE, recorder |-> None ]
Scope(holdsQueue, recorder) ==
  [ open |-> TRUE, holdsQueue |-> holdsQueue, recorder |-> recorder ]

Active == { "begun", "waiting", "running" }
Over == { "ended", "done" }
CallStages == { "idle" } \cup Active \cup Over
RootStages == { "idle", "running", "returned", "taken" }

Exclusive(c) == c \in Sequential /\ ~holds[c]
Nested(x) == { c \in Calls : Caller[c] = x }

\* Calls made, directly or not, by x.
Descendants(x) ==
  LET Step(S) == S \cup { c \in Calls : Caller[c] \in S }
      Reach[n \in 0 .. Cardinality(Calls)] ==
        IF n = 0 THEN Nested(x) ELSE Step(Reach[n - 1])
  IN Reach[Cardinality(Calls)]

TypeOK ==
  /\ \A c \in Calls : pc[c] \in CallStages
  /\ \A r \in Roots : pc[r] \in RootStages
  /\ scopes \in [ Roots \cup Calls ->
       [ open : BOOLEAN, holdsQueue : BOOLEAN, recorder : Roots \cup { None } ] ]
  /\ tail \in Calls \cup { None }
  /\ before \in [ Calls -> Calls \cup { None } ]
  /\ holds \in [ Calls -> BOOLEAN ]
  /\ recordedBy \in [ Calls -> Roots \cup { None } ]
  /\ listed \subseteq Calls /\ truncated \subseteq Roots \cup { None }
  /\ summary \in [ Roots -> { "none", "complete", "incomplete" } ]
  /\ forgotten \subseteq Calls

Init ==
  /\ pc = [ x \in Roots \cup Calls |-> "idle" ]
  /\ scopes = [ x \in Roots \cup Calls |-> NoScope ]
  /\ tail = None /\ before = [ c \in Calls |-> None ]
  /\ holds = [ c \in Calls |-> FALSE ]
  /\ recordedBy = [ c \in Calls |-> None ]
  /\ listed = { } /\ truncated = { }
  /\ summary = [ r \in Roots |-> "none" ]
  /\ forgotten = { }

Go(x, stage) == pc' = [ pc EXCEPT ![x] = stage ]

-----------------------------------------------------------------------------
(* NestedToolCallRunner::execute.                                          *)

\* A slip: whoever lacks a scope starts a record of its own.
ScopeOfItself(x) ==
  IF scopes[x].open THEN scopes[x] ELSE Scope(FALSE, x)

\* The caller's scope, made on the spot when there is none; the record in it
\* is read by nobody once that of the top-level call was taken.
ScopeOf(x) ==
  IF scopes[x].open THEN scopes[x]
  ELSE Scope(FALSE, IF x \in Roots /\ pc[x] # "taken" THEN x ELSE None)

\* NestedCallRecorder::start; arguments that are too long are left out.
RecorderStart(c, recorder) ==
  LET full == Cardinality({ d \in listed : recordedBy[d] = recorder })
                >= MaxRecorded
  IN /\ listed' = IF full THEN listed ELSE listed \cup { c }
     /\ IF full THEN truncated' = truncated \cup { recorder }
        ELSE truncated' \in { truncated, truncated \cup { recorder } }

\* A root that returns may leave behind a task that has yet to make its call.
Begin(c) ==
  LET caller == Caller[c]
      scope == ScopeOf(caller)
  IN /\ pc[c] = "idle"
     /\ IF caller \in Roots THEN pc[caller] # "idle"
                            ELSE pc[caller] = "running"
     /\ scopes' = [ scopes EXCEPT ![caller] = scope ]
     /\ holds' = [ holds EXCEPT ![c] = scope.holdsQueue ]
     /\ recordedBy' = [ recordedBy EXCEPT ![c] = scope.recorder ]
     /\ RecorderStart(c, scope.recorder)
     /\ Go(c, "begun")
     /\ UNCHANGED << tail, before, summary, forgotten >>

\* A slip: only calls made inside the holder of the queue are marked.
ScopeOpensUnmarked(c) ==
  scopes' = [ scopes EXCEPT ![c] = Scope(holds[c], recordedBy[c]) ]

ScopeOpens(c) ==
  scopes' = [ scopes EXCEPT ![c] =
                Scope(holds[c] \/ Exclusive(c), recordedBy[c]) ]

\* A slip: the receiver is taken out and no new one put in its place.
EnqueueTakes(c) ==
  /\ pc[c] = "begun" /\ Exclusive(c)
  /\ before' = [ before EXCEPT ![c] = tail ]
  /\ tail' = None
  /\ Go(c, "waiting")
  /\ UNCHANGED << scopes, holds, recordedBy, listed, truncated, summary,
                  forgotten >>

Enqueue(c) ==
  /\ pc[c] = "begun" /\ Exclusive(c)
  /\ before' = [ before EXCEPT ![c] = tail ]
  /\ tail' = c
  /\ Go(c, "waiting")
  /\ UNCHANGED << scopes, holds, recordedBy, listed, truncated, summary,
                  forgotten >>

EnterAtOnce(c) ==
  /\ pc[c] = "begun" /\ ~Exclusive(c)
  /\ ScopeOpens(c)
  /\ Go(c, "running")
  /\ UNCHANGED << tail, before, holds, recordedBy, listed, truncated,
                  summary, forgotten >>

\* prev.await: the sender was used or dropped.
Enter(c) ==
  /\ pc[c] = "waiting"
  /\ before[c] # None => pc[before[c]] \in Over
  /\ ScopeOpens(c)
  /\ Go(c, "running")
  /\ UNCHANGED << tail, before, holds, recordedBy, listed, truncated,
                  summary, forgotten >>

\* run_tool_call is over; a nested tool waits for the calls it made.
Return(c) ==
  /\ pc[c] = "running"
  /\ \A d \in Nested(c) : pc[d] \notin Active
  /\ scopes' = [ scopes EXCEPT ![c] = NoScope ]
  /\ Go(c, "ended")
  /\ UNCHANGED << tail, before, holds, recordedBy, listed, truncated,
                  summary, forgotten >>

\* NestedCallRecorder::finish
RecorderFinish(c) ==
  /\ pc[c] = "ended"
  /\ Go(c, "done")
  /\ UNCHANGED << scopes, tail, before, holds, recordedBy, listed, truncated,
                  summary, forgotten >>

-----------------------------------------------------------------------------
(* Top-level calls and the end of the agent's run.                         *)

RootStarts(r) ==
  /\ pc[r] = "idle"
  /\ Go(r, "running")
  /\ UNCHANGED << scopes, tail, before, holds, recordedBy, listed, truncated,
                  summary, forgotten >>

RootReturns(r) ==
  /\ pc[r] = "running"
  /\ Go(r, "returned")
  /\ UNCHANGED << scopes, tail, before, holds, recordedBy, listed, truncated,
                  summary, forgotten >>

\* A slip: a call without a final status does not make the record incomplete.
SnapshotOfWhatFits(r) ==
  IF r \in truncated THEN "incomplete" ELSE "complete"

\* NestedCallRecorder::snapshot
Snapshot(r) ==
  IF r \in truncated \/ \E c \in listed : recordedBy[c] = r /\ pc[c] # "done"
  THEN "incomplete" ELSE "complete"

\* take_record, as the result of the root is finalised
TakeRecord(r) ==
  /\ pc[r] = "returned"
  /\ Go(r, "taken")
  /\ summary' = [ summary EXCEPT ![r] =
                    IF scopes[r].open THEN Snapshot(r) ELSE "none" ]
  /\ scopes' = [ scopes EXCEPT ![r] = NoScope ]
  /\ UNCHANGED << tail, before, holds, recordedBy, listed, truncated,
                  forgotten >>

\* The handler of AgentEvent::AgentEnd clears the runner's scopes.  A batch
\* that failed leaves results that nobody takes the record of.
AgentEnd ==
  /\ \A r \in Roots : pc[r] # "running"
  /\ \E x \in Roots \cup Calls : scopes[x].open
  /\ scopes' = [ x \in Roots \cup Calls |-> NoScope ]
  /\ forgotten' = forgotten \cup { c \in Calls : scopes[c].open }
  /\ pc' = [ x \in Roots \cup Calls |->
               IF x \in Roots /\ pc[x] = "returned" THEN "taken" ELSE pc[x] ]
  /\ UNCHANGED << tail, before, holds, recordedBy, listed, truncated,
                  summary >>

-----------------------------------------------------------------------------
Step(c) == Enqueue(c) \/ EnterAtOnce(c) \/ Enter(c) \/ Return(c)
             \/ RecorderFinish(c)

Next ==
  \/ \E c \in Calls : Begin(c) \/ Step(c)
  \/ \E r \in Roots : RootStarts(r) \/ RootReturns(r) \/ TakeRecord(r)
  \/ AgentEnd

Spec == Init /\ [][Next]_vars

\* Tasks go on, and tools return once the calls they wait for have.  No task
\* can go on for ever, so it is enough that some task does.
FairSpec == Spec /\ WF_vars(\E c \in Calls : Step(c))

-----------------------------------------------------------------------------
(* What the runner promises.                                               *)

\* The queue serialises: two exclusive calls are never in their tools at the
\* same time, and any sequential call that is, is inside the one that holds
\* the queue.
ExclusiveRunsAlone ==
  \A c, d \in Sequential :
    pc[c] = "running" /\ pc[d] = "running" /\ c # d =>
      \E h \in Calls :
        Exclusive(h) /\ { c, d } \subseteq Descendants(h) \cup { h }

\* A record that calls itself complete is trusted to clear the in-flight
\* entries of the calls in it: at that time and later, every call that was
\* given its recorder has ended and is in it.
CompleteRecordsAreComplete ==
  \A r \in Roots : summary[r] = "complete" =>
    \A c \in Calls : recordedBy[c] = r => pc[c] = "done" /\ c \in listed

\* Exclusive tools take their turns, and a record that says it is complete is.
TurnsAndRecords == ExclusiveRunsAlone /\ CompleteRecordsAreComplete

\* A nested call returns: neither the queue nor re-entry can block it for
\* good, so in the end every call that began is over.  The exception is a call
\* that AgentEnd found running: the runner no longer knows that it holds the
\* queue, and a call it makes queues behind it.
NestedCallsReturn ==
  <>[](\/ \A c \in Calls : pc[c] \in { "idle" } \cup Over
       \/ \E d \in forgotten : pc[d] = "running")
=============================================================================
