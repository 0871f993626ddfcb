----------------------------- MODULE ToolBatch -----------------------------
(***************************************************************************)
(* The tool calls of one assistant message (crates/pi-agent/src/           *)
(* agent_loop.rs: execute_tool_calls, its sequential and parallel forms,   *)
(* fail_tool_calls_from_truncated_message, prepare_tool_call).             *)
(*                                                                         *)
(* AgentLoop's Tools step stands for a whole batch.  A call is started,    *)
(* prepared (which may answer it at once), run, ended, and its result      *)
(* message is committed; the token may be cancelled at any moment.         *)
(* ToolUpdateGate models what happens while one call runs.                 *)
(***************************************************************************)
EXTENDS Naturals, Sequences

CONSTANT NCalls     \* tool calls of the message, one at least, numbered in order

Calls == 1 .. NCalls

VARIABLES
  config, exclusive,   \* tool_execution; calls to tools that are Sequential
  truncated,           \* the message stopped for Length
  phase,               \* "dispatch", "run", "commit", "done", "failed"
  next,                \* the call the dispatching loop is at
  st,                  \* where each call is
  pending,             \* pending_tool_calls
  stops,               \* calls whose outcome says terminate
  results,             \* tool_results, as calls
  terminate,           \* what the batch returns
  cancelled

setup == << config, exclusive, truncated >>
vars  == << setup, phase, next, st, pending, stops, results, terminate,
            cancelled >>

States == { "waiting", "started", "prepared", "running", "ended" }
Committed(c) == \E i \in DOMAIN results : results[i] = c

TypeOK ==
  /\ config \in { "sequential", "parallel" }
  /\ exclusive \subseteq Calls
  /\ phase \in { "dispatch", "run", "commit", "done", "failed" }
  /\ next \in Calls
  /\ st \in [ Calls -> States ]
  /\ pending \subseteq Calls /\ stops \subseteq Calls
  /\ results \in Seq(Calls) /\ Len(results) <= NCalls
  /\ { truncated, terminate, cancelled } \subseteq BOOLEAN

Init ==
  /\ config \in { "sequential", "parallel" }
  /\ exclusive \in SUBSET Calls
  /\ truncated \in BOOLEAN
  /\ phase = "dispatch" /\ next = 1
  /\ st = [ c \in Calls |-> "waiting" ]
  /\ pending = { } /\ stops = { } /\ results = << >>
  /\ terminate = FALSE
  /\ cancelled \in BOOLEAN

\* A slip: only the configuration decides.
ParallelByConfig == ~truncated /\ config = "parallel"

\* One sequential tool makes the whole batch sequential.
Parallel == ~truncated /\ config = "parallel" /\ exclusive = { }

Cancel ==
  /\ phase \notin { "done", "failed" }
  /\ cancelled' = TRUE
  /\ UNCHANGED << setup, phase, next, st, pending, stops, results,
                  terminate >>

-----------------------------------------------------------------------------
(* Steps of a call.                                                        *)

Moves(c, from, to) ==
  /\ st[c] = from
  /\ st' = [ st EXCEPT ![c] = to ]
  /\ UNCHANGED << setup, phase, next, results, terminate, cancelled >>

\* emit_tool_execution_end with a result that may say terminate.
Ends(c, from, stop) ==
  /\ Moves(c, from, "ended")
  /\ pending' = pending \ { c }
  /\ stops' = IF stop THEN stops \cup { c } ELSE stops

Start ==
  /\ phase = "dispatch"
  /\ Moves(next, "waiting", "started")
  /\ pending' = pending \cup { next }
  /\ UNCHANGED stops

\* prepare_tool_call answers by itself: unknown tool, bad arguments, a hook
\* that fails or blocks (and may ask to terminate), a cancelled token.
AnsweredAtOnce ==
  /\ phase = "dispatch"
  /\ \E stop \in BOOLEAN :
       (stop => ~truncated) /\ Ends(next, "started", stop)

\* It lets the call pass: the sequential form runs it right away.
Prepared ==
  /\ phase = "dispatch" /\ ~truncated /\ ~cancelled
  /\ Moves(next, "started", IF Parallel THEN "prepared" ELSE "running")
  /\ UNCHANGED << pending, stops >>

\* A slip: a call that is not run any more is simply skipped.
RunTaskSkips(c) ==
  /\ phase = "run"
  /\ \/ ~cancelled /\ Moves(c, "prepared", "running")
     \/ cancelled /\ Moves(c, "prepared", "ended")
  /\ UNCHANGED << pending, stops >>

\* A slip: such a call is not answered.
RunTaskDrops(c) ==
  /\ phase = "run" /\ ~cancelled
  /\ Moves(c, "prepared", "running")
  /\ UNCHANGED << pending, stops >>

\* The parallel form looks at the token again when a task begins.
RunTask(c) ==
  /\ phase = "run"
  /\ \/ /\ ~cancelled
        /\ Moves(c, "prepared", "running")
        /\ UNCHANGED << pending, stops >>
     \/ cancelled /\ Ends(c, "prepared", FALSE)

\* The tool and after_tool_call have returned, or failed.
ToolReturns(c) == \E stop \in BOOLEAN : Ends(c, "running", stop)

-----------------------------------------------------------------------------
(* Steps of the batch.                                                     *)

ShouldTerminate(calls) ==
  ~truncated /\ calls # << >> /\ \A i \in DOMAIN calls : calls[i] \in stops

\* The dispatching loop is done with call next.
Advance(handled, after) ==
  /\ phase = "dispatch"
  /\ handled
  /\ IF next = NCalls \/ (cancelled /\ ~truncated)
       THEN phase' = after /\ UNCHANGED next
       ELSE next' = next + 1 /\ UNCHANGED phase
  /\ terminate' = (phase' = "done" /\ ShouldTerminate(results))
  /\ UNCHANGED << setup, st, pending, stops, results, cancelled >>

NextCall ==
  IF Parallel THEN Advance(st[next] \in { "prepared", "ended" }, "run")
              ELSE Advance(Committed(next), "done")

Slots == { c \in Calls : st[c] # "waiting" }

JoinAll ==
  /\ phase = "run"
  /\ \A c \in Slots : st[c] = "ended"
  /\ phase' = "commit"
  /\ UNCHANGED << setup, next, st, pending, stops, results, terminate,
                  cancelled >>

\* The call whose result message is due, if it can be made now.
Due(c) ==
  /\ c = Len(results) + 1
  /\ \/ phase = "commit" /\ c \in Slots
     \/ phase = "dispatch" /\ ~Parallel /\ st[c] = "ended"

\* A slip: results are committed as the calls end.
CommitResultAsEnded ==
  /\ \E c \in Calls : /\ ~Committed(c) /\ st[c] = "ended"
                      /\ results' = Append(results, c)
  /\ UNCHANGED << setup, phase, next, st, pending, stops, terminate,
                  cancelled >>

CommitResult ==
  /\ \E c \in Calls : Due(c) /\ results' = Append(results, c)
  /\ UNCHANGED << setup, phase, next, st, pending, stops, terminate,
                  cancelled >>

\* finalize_message fails on a result: the batch returns Err.
CommitFails ==
  /\ \E c \in Calls : Due(c)
  /\ phase' = "failed"
  /\ UNCHANGED << setup, next, st, pending, stops, results, terminate,
                  cancelled >>

BatchReturns ==
  /\ phase = "commit"
  /\ Len(results) + 1 \notin Slots
  /\ phase' = "done"
  /\ terminate' = ShouldTerminate(results)
  /\ UNCHANGED << setup, next, st, pending, stops, results, cancelled >>

BatchStep ==
  \/ Start \/ AnsweredAtOnce \/ Prepared \/ NextCall
  \/ \E c \in Calls : RunTask(c) \/ ToolReturns(c)
  \/ JoinAll \/ CommitResult \/ CommitFails \/ BatchReturns

Next == BatchStep \/ Cancel

Spec == Init /\ [][Next]_vars /\ WF_vars(BatchStep)

-----------------------------------------------------------------------------
(* Properties.                                                             *)

Over == phase \in { "done", "failed" }

\* However the batch ends, every call that was started has ended, so that no
\* subscriber shows a tool at work and pending_tool_calls is empty.
StartedCallsEnd ==
  /\ Over => pending = { } /\ \A c \in Slots : st[c] = "ended"
  /\ \A c \in Calls : Committed(c) => c \notin pending

\* Results enter the transcript in the order of the calls, whatever order the
\* tools finish in, and a batch that returns has one for every call it
\* started; without cancellation, for every call of the message.
ResultsMatchCalls ==
  /\ \A i \in DOMAIN results : results[i] = i
  /\ phase = "done" => /\ Slots = 1 .. Len(results)
                       /\ ~cancelled => Len(results) = NCalls

\* A tool that must run alone never runs beside another call of the batch.
ExclusiveRunsAlone ==
  \A c, d \in Calls :
    (c # d /\ st[c] = "running" /\ c \in exclusive) => st[d] # "running"

\* The batch tells the loop to stop only if every call of the message was
\* answered with terminate, or the run was cancelled.
StopsOnlyIfAllStop == terminate => stops = Calls \/ cancelled

\* The batch ends once its tools have returned.
BatchEnds == <>Over
=============================================================================
