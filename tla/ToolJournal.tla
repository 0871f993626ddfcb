----------------------------- MODULE ToolJournal -----------------------------
(***************************************************************************)
(* The journal of tool calls (crates/pi-session/src/execution_log.rs).     *)
(*                                                                         *)
(* A tool call may have effects on the machine, so before it executes it   *)
(* is entered in the execution log on disk, and it is taken out only when  *)
(* its result is in the session file.  What is left when a run ends is     *)
(* kept as interrupted; when a session is opened, what a dead process left *)
(* is compared with the session file and reported, and nothing is ever     *)
(* replayed.                                                               *)
(*                                                                         *)
(* A top-level call may make nested ones and return before they do, which  *)
(* cancels them.  Its result carries the record of the nested calls        *)
(* (NestedCalls), complete or not.  A commit to the session file is one    *)
(* step here (SessionStore), and so is a save of the log, whose file is    *)
(* written beside the old one and renamed; either may fail, with its       *)
(* effect on disk or without.                                              *)
(***************************************************************************)
EXTENDS Naturals, FiniteSets

CONSTANTS
  Roots,      \* top-level tool calls
  Calls,      \* nested tool calls
  RootOf      \* the top-level call that a nested call is made under

ASSUME ToolJournalAssumption ==
  Roots \cap Calls = { } /\ RootOf \in [ Calls -> Roots ]

VARIABLES
  up,          \* the session is open
  fatal,       \* fatal_runtime_error
  run,         \* between start_run and the end of the run
  pc,          \* of every call
  mem, disk,   \* the execution log
  truncated,   \* roots whose recorder left something out
  summary,     \* of a root: the record that goes into its result
  file,        \* of a root: the result in the session file
  report,      \* calls that the last start-up reported as interrupted
  ran          \* history: calls that executed

vars == << up, fatal, run, pc, mem, disk, truncated, summary, file, report,
           ran >>

All == Roots \cup Calls
Nested(r) == { c \in Calls : RootOf[c] = r }
Root(x) == IF x \in Roots THEN x ELSE RootOf[x]

\* active_run and the calls in it, and the calls in history_runs that were
\* interrupted.  A run that is in the history as Running is never looked at.
Log == [ active : BOOLEAN, tools : SUBSET All, interrupted : SUBSET All ]
EmptyLog == [ active |-> FALSE, tools |-> { }, interrupted |-> { } ]
Logged(l) == l.tools \cup l.interrupted

\* The nested_calls of a tool result: the calls with a final status.
Record == [ complete : BOOLEAN, calls : SUBSET Calls ]
Result == [ stored : BOOLEAN, record : Record ]
NoRecord == [ complete |-> TRUE, calls |-> { } ]
NoResult == [ stored |-> FALSE, record |-> NoRecord ]

NotYet == { "idle" }
Active == { "begun", "recorded", "running" }
Stages == NotYet \cup Active \cup
            { "ended", "done", "taken", "stored", "cleared", "lost" }

TypeOK ==
  /\ up \in BOOLEAN /\ fatal \in BOOLEAN /\ run \in BOOLEAN
  /\ pc \in [ All -> Stages ]
  /\ mem \in Log /\ disk \in Log
  /\ truncated \subseteq Roots
  /\ summary \in [ Roots -> Record ]
  /\ file \in [ Roots -> Result ]
  /\ report \subseteq All /\ ran \subseteq All

Init ==
  /\ up = TRUE /\ fatal = FALSE /\ run = FALSE
  /\ pc = [ x \in All |-> "idle" ]
  /\ mem = EmptyLog /\ disk = EmptyLog
  /\ truncated = { }
  /\ summary = [ r \in Roots |-> NoRecord ]
  /\ file = [ r \in Roots |-> NoResult ]
  /\ report = { } /\ ran = { }

Go(x, from, to) == up /\ pc[x] = from /\ pc' = [ pc EXCEPT ![x] = to ]

\* JsonFileExecutionStateStore::save.  The memory follows the disk; a save
\* that fails after the rename leaves the new state on disk all the same.
SaveOk(l) == mem' = l /\ disk' = l
SaveFails(l) == mem' = mem /\ disk' \in { disk, l }

-----------------------------------------------------------------------------
(* The run.                                                                *)

Running(tools) ==
  [ active |-> TRUE, tools |-> tools, interrupted |-> mem.interrupted ]

\* A run that is still active goes into the history as it is.
StartRun ==
  /\ up /\ ~fatal /\ ~run
  /\ \/ SaveOk(Running({ })) /\ run' = TRUE
     \/ SaveFails(Running({ })) /\ run' = FALSE
  /\ UNCHANGED << up, fatal, pc, truncated, summary, file, report, ran >>

Finished ==
  [ active |-> FALSE, tools |-> { },
    interrupted |-> mem.interrupted \cup mem.tools ]

\* The loop has returned: every result is finalised, unless that failed.
FinishRun ==
  /\ up /\ run
  /\ \A r \in Roots : pc[r] \notin Active
  /\ fatal \/ \A r \in Roots : pc[r] \notin { "ended", "taken", "stored" }
  /\ run' = FALSE
  /\ IF fatal THEN UNCHANGED << mem, disk, fatal >>
     ELSE \/ SaveOk(Finished) /\ UNCHANGED fatal
          \/ SaveFails(Finished) /\ fatal' = TRUE
  /\ UNCHANGED << up, pc, truncated, summary, file, report, ran >>

-----------------------------------------------------------------------------
(* One call: handle_before_tool_call, execution, the recorder.             *)

\* The loop starts a top-level call, or a running tool makes a nested one,
\* which the recorder notes down or, at its limits, leaves out.
Begin(x) ==
  /\ IF x \in Roots THEN run ELSE pc[Root(x)] = "running"
  /\ Go(x, "idle", "begun")
  /\ \/ UNCHANGED truncated
     \/ x \in Calls /\ truncated' = truncated \cup { Root(x) }
  /\ UNCHANGED << up, fatal, run, mem, disk, summary, file, report, ran >>

\* A hook blocks the call, the session is in failure, or the token of the
\* call is cancelled, before it is entered or after.
Blocked(x) ==
  /\ Go(x, "begun", "ended") \/ Go(x, "recorded", "ended")
  /\ UNCHANGED << up, fatal, run, mem, disk, truncated, summary, file,
                  report, ran >>

\* record_tool_start makes up a run if there is none.
Entered(x) == Running((IF mem.active THEN mem.tools ELSE { }) \cup { x })

\* The hooks have returned; a nested call may by then have lost its caller,
\* and even the run.
RecordStart(x) ==
  /\ ~fatal
  /\ \/ SaveOk(Entered(x)) /\ Go(x, "begun", "recorded") /\ UNCHANGED fatal
     \/ SaveFails(Entered(x)) /\ Go(x, "begun", "ended") /\ fatal' = TRUE
  /\ UNCHANGED << up, run, truncated, summary, file, report, ran >>

\* The token is checked once more.  That of a nested call is cancelled when
\* its caller returns.
Execute(x) ==
  /\ x \in Calls => pc[Root(x)] = "running"
  /\ Go(x, "recorded", "running")
  /\ ran' = ran \cup { x }
  /\ UNCHANGED << up, fatal, run, mem, disk, truncated, summary, file,
                  report >>

\* The tool returns; what it did on the machine is done.
Return(x) ==
  /\ Go(x, "running", "ended")
  /\ UNCHANGED << up, fatal, run, mem, disk, truncated, summary, file,
                  report, ran >>

\* NestedCallRecorder::finish
RecorderFinish(c) ==
  /\ Go(c, "ended", "done")
  /\ UNCHANGED << up, fatal, run, mem, disk, truncated, summary, file,
                  report, ran >>

-----------------------------------------------------------------------------
(* The result of a top-level call: handle_finalize_message.                *)

Snapshot(r) ==
  [ complete |-> /\ r \notin truncated
                 /\ \A c \in Nested(r) : pc[c] \in NotYet \cup { "done" },
    calls |-> { c \in Nested(r) : pc[c] = "done" } ]

TakeRecord(r) ==
  /\ ~fatal
  /\ Go(r, "ended", "taken")
  /\ summary' = [ summary EXCEPT ![r] = Snapshot(r) ]
  /\ UNCHANGED << up, fatal, run, mem, disk, truncated, file, report, ran >>

\* The result is committed to the session file, or that fails and the
\* session with it, with the result in the file or not.
Stored(r) ==
  [ file EXCEPT ![r] = [ stored |-> TRUE, record |-> summary[r] ] ]

Persist(r) ==
  /\ Go(r, "taken", "stored")
  /\ file' = Stored(r)
  /\ UNCHANGED << up, fatal, run, mem, disk, truncated, summary, report, ran >>

PersistFails(r) ==
  /\ Go(r, "taken", "lost")
  /\ file' \in { file, Stored(r) }
  /\ fatal' = TRUE
  /\ UNCHANGED << up, run, mem, disk, truncated, summary, report, ran >>

\* A slip: the nested calls are taken out with the call that made them.
AnsweredWithNested(r) == { r } \cup Nested(r)

\* A slip: only the call itself is taken out.
AnsweredAlone(r) == { r }

\* clear_persisted_tool_result takes out the call and the nested calls that
\* a complete record has.
Answered(r) ==
  { r } \cup IF summary[r].complete THEN summary[r].calls ELSE { }

Cleared(r) ==
  [ mem EXCEPT !.tools = IF mem.active THEN @ \ Answered(r) ELSE @ ]

Clear(r) ==
  /\ \/ SaveOk(Cleared(r)) /\ Go(r, "stored", "cleared") /\ UNCHANGED fatal
     \/ SaveFails(Cleared(r)) /\ Go(r, "stored", "lost") /\ fatal' = TRUE
  /\ UNCHANGED << up, run, truncated, summary, file, report, ran >>

-----------------------------------------------------------------------------
(* The process dies, and the session is opened again.                      *)

Crash ==
  /\ up
  /\ up' = FALSE /\ fatal' = FALSE /\ run' = FALSE
  /\ pc' = [ x \in All |-> IF pc[x] = "idle" THEN "idle" ELSE "lost" ]
  /\ mem' = EmptyLog
  /\ UNCHANGED << disk, truncated, summary, file, report, ran >>

\* is_tool_record_persisted_and_complete
PersistedAndComplete(x) ==
  /\ file[Root(x)].stored /\ file[Root(x)].record.complete
  /\ x \in Calls => x \in file[Root(x)].record.calls

Unresolved == { x \in Logged(disk) : ~PersistedAndComplete(x) }

\* A slip: only the run that was active is looked at.
ReconciledActive ==
  [ active |-> FALSE, tools |-> { },
    interrupted |-> { x \in disk.tools : ~PersistedAndComplete(x) } ]

Reconciled ==
  [ active |-> FALSE, tools |-> { }, interrupted |-> Unresolved ]

\* reconcile_on_startup.  When the mark of the crash cannot be appended to
\* the session or the log cannot be saved, the session does not open.
Reopen ==
  /\ ~up
  /\ SaveOk(Reconciled)
  /\ up' = TRUE
  /\ report' = Reconciled.interrupted
  /\ UNCHANGED << fatal, run, pc, truncated, summary, file, ran >>

ReopenFails ==
  /\ ~up
  /\ SaveFails(Reconciled)
  /\ UNCHANGED << up, fatal, run, pc, truncated, summary, file, report, ran >>

-----------------------------------------------------------------------------
CallStep(x) ==
  Begin(x) \/ Blocked(x) \/ RecordStart(x) \/ Execute(x) \/ Return(x)

ResultStep(r) ==
  TakeRecord(r) \/ Persist(r) \/ PersistFails(r) \/ Clear(r)

Next ==
  \/ StartRun \/ FinishRun
  \/ \E x \in All : CallStep(x)
  \/ \E c \in Calls : RecorderFinish(c)
  \/ \E r \in Roots : ResultStep(r)
  \/ Crash \/ Reopen \/ ReopenFails

Spec == Init /\ [][Next]_vars

-----------------------------------------------------------------------------
(* What the journal promises.                                              *)

\* The session file says how the call ended: it has its result, or that of
\* its caller with a complete record in which it is.
OutcomeKnown(x) ==
  IF x \in Roots THEN file[x].stored ELSE PersistedAndComplete(x)

\* At every moment, and so whenever the process dies, a call that executed
\* and whose outcome is not in the session file is in the log on disk, as
\* running or interrupted, through failing saves, runs that end before the
\* calls made in them, and any number of crashes and reconciliations.
NoEffectUnaccounted ==
  \A x \in ran : OutcomeKnown(x) \/ x \in Logged(disk)

\* Whoever opens the session is told of every such call, also of those that
\* earlier starts have reported.
EveryStartReports ==
  [][~up /\ up' => { x \in ran : ~OutcomeKnown(x) } \subseteq report']_vars

\* Nobody is sent after a call that is settled: unless the session is in
\* failure, a call whose outcome is known leaves the log with the result
\* that tells it, whatever was entered in between.
SettledCallsLeave ==
  up /\ ~fatal =>
    \A x \in Logged(mem) :
      PersistedAndComplete(x) => pc[Root(x)] = "stored"
=============================================================================
