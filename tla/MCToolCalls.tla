----------------------------- MODULE MCToolCalls -----------------------------
(***************************************************************************)
(* The tool calls of a message: the progress updates of one call, and the  *)
(* batch of calls.  They share no state: a behaviour is one of one part,   *)
(* the other rests in its initial state, and each module is checked as it  *)
(* would be alone.                                                         *)
(***************************************************************************)
EXTENDS ToolUpdateGate

CONSTANT NCalls

VARIABLES
  part,
  config, exclusive, truncated, phase, next, st, pending, stops, results,
  terminate, cancelled

B == INSTANCE ToolBatch

ASSUME NCallsAssumption == NCalls \in Nat \ { 0 }

gateVars == vars
batchVars == << config, exclusive, truncated, phase, next, st, pending, stops,
                results, terminate, cancelled >>
callsVars == << part, gateVars, batchVars >>

CallsInit ==
  /\ part \in { "gate", "batch" }
  /\ Init /\ B!Init
  /\ part = "gate" =>
       config = "sequential" /\ exclusive = { } /\ ~truncated /\ ~cancelled

CallsNext ==
  /\ UNCHANGED part
  /\ \/ part = "gate" /\ Next /\ UNCHANGED batchVars
     \/ part = "batch" /\ B!Next /\ UNCHANGED gateVars

\* Each part is scheduled fairly when it is the one that runs.
CallsFairness ==
  /\ \A t \in Threads : WF_gateVars(part = "gate" /\ ThreadWake(t))
  /\ WF_gateVars(part = "gate" /\ Worker)
  /\ WF_gateVars(part = "gate" /\ Executor)
  /\ WF_batchVars(part = "batch" /\ B!BatchStep)

CallsSpec == CallsInit /\ [][CallsNext]_callsVars /\ CallsFairness

-----------------------------------------------------------------------------
(* What the batch promises; the properties are explained in ToolBatch, and *)
(* those of the gate in ToolUpdateGate.                                    *)

\* No call that the batch started is left open.
StartedCallsEnd == B!StartedCallsEnd

\* Results enter the transcript in the order of the calls.
ResultsMatchCalls == B!ResultsMatchCalls

\* The batch ends once its tools have returned.
BatchEnds == part = "batch" => B!BatchEnds
=============================================================================
