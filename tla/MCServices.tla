----------------------------- MODULE MCServices -----------------------------
(***************************************************************************)
(* Parts of the system that work in the background of a run: nested tool   *)
(* calls, the telemetry pipeline and the JSON Lines mode that serves a     *)
(* client.  They share no state: a behaviour is one of one part, the       *)
(* others rest in their initial states, and each module is checked as it   *)
(* would be alone.                                                         *)
(***************************************************************************)
EXTENDS TLC

CONSTANTS
  Roots, Calls, Caller, Sequential, MaxRecorded, None,
  Owner, Others, Senders, MaxUse, MaxRevision, MaxFaults,
  Commands, KindOf, Dialogs, MaxQueue, MaxTasks, MaxOut, MaxEvents

CONSTANTS r1, r2, a, b, c, o, p, q, dlg

\* The first root calls a, which calls b; the other root calls c.
MCCaller == a :> r1 @@ b :> a @@ c :> r2

\* A prompt, an abort and the replacement of the session.
MCKindOf == p :> "prompt" @@ q :> "abort" @@ o :> "switch"

VARIABLES
  part,
  pc, scopes, tail, before, holds, recordedBy, listed, truncated, summary,
  forgotten,
  alive, use, revision, chain, closing, finalizing, submitted, draft, queue,
  recovery, delivery, received, saved, faults,
  main, ctrl, work, tasks, worker, at, reply, answers, out, events, failed,
  writer, workCancel, generation, uiClosed, dialog

N == INSTANCE NestedCalls
T == INSTANCE Telemetry
R == INSTANCE Rpc

nestedVars == << pc, scopes, tail, before, holds, recordedBy, listed,
                 truncated, summary, forgotten >>
telemetryVars == << alive, use, revision, chain, closing, finalizing,
                    submitted, draft, queue, recovery, delivery, received,
                    saved, faults >>
rpcVars == << main, ctrl, work, tasks, worker, at, reply, answers, out, events,
              failed, writer, workCancel, generation, uiClosed, dialog >>
vars == << part, nestedVars, telemetryVars, rpcVars >>

Init ==
  /\ part \in { "nested", "telemetry", "rpc" }
  /\ N!Init /\ T!Init /\ R!Init

Next ==
  /\ UNCHANGED part
  /\ \/ part = "nested" /\ N!Next
        /\ UNCHANGED << telemetryVars, rpcVars >>
     \/ part = "telemetry" /\ T!Next
        /\ UNCHANGED << nestedVars, rpcVars >>
     \/ part = "rpc" /\ R!Next
        /\ UNCHANGED << nestedVars, telemetryVars >>

\* The fairness that the parts state; see there.
Fairness ==
  /\ WF_nestedVars(part = "nested" /\ \E y \in Calls : N!Step(y))
  /\ WF_telemetryVars(part = "telemetry" /\ T!Finalize)
  /\ WF_telemetryVars(part = "telemetry" /\ T!Work)
  /\ \A y \in Others : WF_telemetryVars(part = "telemetry" /\ T!Recover(y))
  /\ \A y \in Senders :
       /\ WF_telemetryVars(part = "telemetry" /\ T!Deliver(y))
       /\ WF_telemetryVars(part = "telemetry" /\ T!Retried(y))
  /\ WF_rpcVars(part = "rpc" /\ (R!Write \/ R!WriteFails))
  /\ WF_rpcVars(part = "rpc" /\ R!TakeControl)
  /\ WF_rpcVars(part = "rpc" /\ R!TakeWork)
  /\ WF_rpcVars(part = "rpc" /\ failed /\ R!StopReading)
  /\ WF_rpcVars(part = "rpc" /\ (R!JoinHandlers \/ R!JoinWriter))
  /\ \A y \in Commands : WF_rpcVars(part = "rpc" /\ R!Handle(y))
  /\ \A y \in Dialogs : WF_rpcVars(part = "rpc" /\ R!Converse(y))

Spec == Init /\ [][Next]_vars /\ Fairness

-----------------------------------------------------------------------------
(* What each part promises; the properties are explained in their modules. *)

\* Two exclusive nested calls never run at once, a record that says it is
\* complete is, and every nested call returns, unless its caller's run ended
\* first.
NestedCallsKept ==
  []N!TurnsAndRecords /\ (part = "nested" => N!NestedCallsReturn)

\* One revision of a telemetry record has one content, and what was saved is
\* reported in the end, as long as the queue stays below its limits.
ReportsArrive == []T!RevisionsAreUnique /\ T!SavedIsReported

\* Every command that was read has its answer, the client is given it, and the
\* mode ends when its client is gone.
RpcServes == []R!CommandsAreAnswered /\ R!RpcEnds
=============================================================================
