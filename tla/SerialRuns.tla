----------------------------- MODULE SerialRuns -----------------------------
(***************************************************************************)
(* What admission to an agent promises: runs happen one at a time, each    *)
(* run settles once, and the call that started a run learns its result     *)
(* only when the run has settled, and at most once.                        *)
(***************************************************************************)
CONSTANTS
  Runs,
  NoRun       \* not a member of Runs

VARIABLES
  running,    \* the run under way, or NoRun
  settled,    \* runs that have come to an end
  replied     \* settled runs whose caller has the result

vars == << running, settled, replied >>

TypeOK ==
  /\ running \in Runs \cup { NoRun }
  /\ settled \subseteq Runs
  /\ replied \subseteq Runs

Init ==
  /\ running = NoRun
  /\ settled = { }
  /\ replied = { }

Begin(r) ==
  /\ running = NoRun
  /\ r \notin settled
  /\ running' = r
  /\ UNCHANGED << settled, replied >>

Settle ==
  /\ running # NoRun
  /\ settled' = settled \cup { running }
  /\ running' = NoRun
  /\ UNCHANGED replied

Reply(r) ==
  /\ r \in settled \ replied
  /\ replied' = replied \cup { r }
  /\ UNCHANGED << running, settled >>

Next ==
  \/ \E r \in Runs : Begin(r) \/ Reply(r)
  \/ Settle

Spec == Init /\ [][Next]_vars
=============================================================================
