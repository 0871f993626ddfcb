----------------------------- MODULE Telemetry ------------------------------
(***************************************************************************)
(* The statistics of one session instance on their way to an endpoint      *)
(* (telemetry/submission.ts, draft.ts, outbox.ts, delivery.ts).            *)
(*                                                                         *)
(* The process that runs the instance keeps a draft of them, queues them   *)
(* as they grow and once more, finally, when the instance is closed.  If   *)
(* it dies, another process finds the draft, completes it and queues it.   *)
(* Every process sends what is queued; the endpoint keeps the newest       *)
(* revision.  Draft and queue are files that a lock protects (FileLock),   *)
(* so each of their changes is one step.  Any of them may fail, and so may *)
(* any delivery; a timer tries again.                                      *)
(***************************************************************************)
EXTENDS Naturals, Sequences, FiniteSets

CONSTANTS
  Owner,       \* the process that runs the instance
  Others,      \* processes that look for drafts
  Senders,     \* processes whose deliveries are followed
  None,
  MaxUse,      \* how much the instance is used
  MaxRevision, \* snapshots the owner takes
  MaxFaults

VARIABLES
  alive,      \* the owner
  use,        \* what there is to report
  revision,   \* of the last snapshot
  chain,      \* the owner's tasks, in order
  closing,    \* the final snapshot, once finalize() took one
  finalizing, \* the task of finalize() is queued or done
  submitted,  \* what the last submit() queued
  draft,      \* the draft: a snapshot, and whether the owner is named in it
  queue,      \* the snapshot that waits for the endpoint
  recovery,   \* of another process: its stage, and the draft it found
  delivery,   \* of a process
  received,   \* what the endpoint has got
  saved,      \* history: the most that was ever saved
  faults

vars == << alive, use, revision, chain, closing, finalizing, submitted, draft,
           queue, recovery, delivery, received, saved, faults >>

Processes == { Owner } \cup Others

\* A snapshot: what was used until then, and what a lookup of bills by one of
\* the processes may have added.
Snapshots == [ revision : 1 .. MaxRevision + 3, use : 0 .. MaxUse,
               final : BOOLEAN, bill : Processes \cup { None } ]
Tasks == [ kind : { "checkpoint", "submit", "queue", "final", "seal",
                    "last", "gone" },
           snapshot : Snapshots ]

TypeOK ==
  /\ draft \in [ snapshot : Snapshots, owned : BOOLEAN ] \cup { None }
  /\ queue \in Snapshots \cup { None }
  /\ chain \in Seq(Tasks)
  /\ received \subseteq Snapshots

Idle == [ stage |-> "idle", found |-> None, sealed |-> None ]
Resting == [ batch |-> None, inflight |-> FALSE, rerun |-> FALSE,
             stopped |-> FALSE ]

Init ==
  /\ alive = TRUE /\ use = 0 /\ revision = 0
  /\ chain = << >> /\ closing = None /\ finalizing = FALSE /\ submitted = 0
  /\ draft = None /\ queue = None
  /\ recovery = [ p \in Others |-> Idle ]
  /\ delivery = [ p \in Senders |-> Resting ]
  /\ received = { } /\ saved = 0 /\ faults = 0

instance == << alive, use, revision, chain, closing, finalizing, submitted >>

Fault == faults < MaxFaults /\ faults' = faults + 1

-----------------------------------------------------------------------------
(* Queue and delivery.                                                     *)

\* appendRecord(): an older revision never replaces a newer one.
Queued(s) ==
  IF queue # None /\ queue.revision >= s.revision THEN queue ELSE s

\* flushEndpoint(): a delivery that is under way is asked to look once more.
Flush(p) ==
  delivery' = IF p \notin Senders \/ delivery[p].stopped THEN delivery
              ELSE [ delivery EXCEPT ![p] =
                       IF @.inflight THEN [ @ EXCEPT !.rerun = TRUE ]
                                     ELSE [ @ EXCEPT !.inflight = TRUE ] ]

Running(p) == p = Owner => alive

\* readAll(): send what is there, or look again if asked to, or end.
TakeBatch(p) ==
  LET d == delivery[p] IN
  /\ Running(p) /\ d.inflight /\ d.batch = None
  /\ delivery' = [ delivery EXCEPT ![p] =
       IF queue # None THEN [ d EXCEPT !.batch = queue, !.rerun = FALSE ]
       ELSE [ d EXCEPT !.rerun = FALSE, !.inflight = d.rerun ] ]
  /\ UNCHANGED << instance, draft, queue, recovery, received, saved, faults >>

\* A slip: what was sent is removed by the instance it is about.
RemoveByInstance(batch) == None

\* removeRecords(): only the very snapshot that was sent.
RemoveSent(batch) == IF queue = batch THEN None ELSE queue

\* The endpoint got the batch and acknowledged it.
Acknowledged(p) ==
  LET d == delivery[p] IN
  /\ Running(p) /\ d.batch # None
  /\ received' = received \cup { d.batch }
  /\ queue' = RemoveSent(d.batch)
  /\ delivery' = [ delivery EXCEPT ![p].batch = None ]
  /\ UNCHANGED << instance, draft, recovery, saved, faults >>

\* Nothing, or not the acknowledgement, comes through, or the endpoint says
\* that it is gone.  Whoever asked for another look meanwhile asked in vain.
Failed(p) ==
  LET d == delivery[p] IN
  /\ Running(p) /\ d.batch # None /\ Fault
  /\ received' \in { received, received \cup { d.batch } }
  /\ \E stopped \in BOOLEAN :
       delivery' = [ delivery EXCEPT ![p] =
                       [ d EXCEPT !.batch = None, !.inflight = FALSE,
                                  !.stopped = stopped ] ]
  /\ UNCHANGED << instance, draft, queue, recovery, saved >>

\* Every thirty seconds; nothing comes of it when nothing is queued.
FlushTimer(p) ==
  /\ Running(p) /\ queue # None /\ Flush(p)
  /\ UNCHANGED << instance, draft, queue, recovery, received, saved, faults >>

-----------------------------------------------------------------------------
(* SessionSubmission.                                                      *)

Snapshot(used, final) ==
  [ revision |-> revision + 1, use |-> used, final |-> final, bill |-> None ]

\* A snapshot is taken at once; its task waits for those before it.
Capture(kind, s) ==
  /\ revision' = s.revision
  /\ chain' = Append(chain, [ kind |-> kind, snapshot |-> s ])

\* A turn of the agent ends.
Turn ==
  /\ alive /\ closing = None /\ use < MaxUse /\ revision < MaxRevision
  /\ use' = use + 1 /\ Capture("checkpoint", Snapshot(use + 1, FALSE))
  /\ UNCHANGED << alive, closing, finalizing, submitted, draft, queue,
                  recovery,
                  delivery, received, saved, faults >>

\* When the agent settles, and by the timer.
Submit ==
  /\ alive /\ closing = None /\ use > 0 /\ revision < MaxRevision
  /\ Capture("submit", Snapshot(use, FALSE))
  /\ UNCHANGED << alive, use, closing, finalizing, submitted, draft, queue,
                  recovery, delivery, received, saved, faults >>

\* finalize(); again, by the timer, if an earlier attempt failed.
Finalize ==
  /\ alive /\ use > 0 /\ ~finalizing /\ finalizing' = TRUE
  /\ closing' = IF closing = None THEN Snapshot(use, TRUE) ELSE closing
  /\ Capture("final", closing')
  /\ UNCHANGED << alive, use, submitted, draft, queue, recovery, delivery,
                  received, saved, faults >>

Persist(s) ==
  /\ draft' = [ snapshot |-> s, owned |-> TRUE ]
  /\ saved' = IF s.use > saved THEN s.use ELSE saved
Done == chain' = Tail(chain)
GoOn(kind, s) ==
  chain' = << [ kind |-> kind, snapshot |-> s ] >> \o Tail(chain)

\* The bills changed the snapshot, which may have been sent.
Settled(s) == [ s EXCEPT !.revision = @ + 1, !.bill = Owner ]

\* The first step of a task, and of the last one the look at the bills.
Task ==
  /\ alive /\ chain # << >>
  /\ LET t == Head(chain) IN
     \/ /\ t.kind = "submit" /\ submitted = t.snapshot.use
        /\ Done /\ UNCHANGED << draft, saved, revision, closing >>
     \/ /\ t.kind = "checkpoint" /\ Persist(t.snapshot) /\ Done
        /\ UNCHANGED << revision, closing >>
     \/ /\ t.kind = "submit" /\ submitted # t.snapshot.use
        /\ Persist(t.snapshot) /\ GoOn("queue", t.snapshot)
        /\ UNCHANGED << revision, closing >>
     \/ /\ t.kind = "final" /\ Persist(t.snapshot) /\ GoOn("seal", t.snapshot)
        /\ UNCHANGED << revision, closing >>
     \/ /\ t.kind = "seal" /\ GoOn("last", t.snapshot)
        /\ UNCHANGED << draft, saved, revision, closing >>
     \/ /\ t.kind = "seal" /\ t.snapshot.bill = None
        /\ LET s == Settled(t.snapshot)
           IN closing' = s /\ revision' = s.revision
              /\ Persist(s) /\ GoOn("last", s)
  /\ UNCHANGED << alive, use, finalizing, submitted, queue, recovery, delivery,
                  received, faults >>

QueueTask ==
  /\ alive /\ chain # << >>
  /\ LET t == Head(chain) IN
     /\ t.kind = "queue"
     /\ queue' = Queued(t.snapshot) /\ submitted' = t.snapshot.use
  /\ Done /\ Flush(Owner)
  /\ UNCHANGED << alive, use, revision, closing, finalizing, draft, recovery,
                  received, saved, faults >>

\* The final snapshot is queued; then the draft may go.
LastTask ==
  /\ alive /\ chain # << >>
  /\ LET t == Head(chain) IN
     \/ t.kind = "last" /\ queue' = Queued(t.snapshot)
        /\ GoOn("gone", t.snapshot) /\ UNCHANGED << draft, delivery >>
     \/ t.kind = "gone" /\ draft' = None /\ Done /\ Flush(Owner)
        /\ UNCHANGED queue
  /\ UNCHANGED << alive, use, revision, closing, finalizing, submitted,
                  recovery,
                  received, saved, faults >>

\* A step that writes fails.  finalize() may then be called again.
TaskFails ==
  /\ alive /\ chain # << >> /\ Fault
  /\ LET t == Head(chain) IN
     /\ t.kind # "gone"
     /\ finalizing' = /\ finalizing
                       /\ t.kind \in { "checkpoint", "submit", "queue" }
  /\ Done
  /\ UNCHANGED << alive, use, revision, closing, submitted, draft, queue,
                  recovery, delivery, received, saved >>

\* The process dies, or ends: after finalize() or without it.
Die ==
  /\ alive /\ alive' = FALSE
  /\ UNCHANGED << use, revision, chain, closing, finalizing, submitted, draft,
                  queue, recovery, delivery, received, saved, faults >>

-----------------------------------------------------------------------------
(* recoverDrafts() of another process.                                     *)

Recovering(p, stage, to) ==
  /\ recovery[p].stage = stage
  /\ recovery' = [ recovery EXCEPT ![p] = to ]
  /\ UNCHANGED << instance, received >>

\* crashRecord(), after a lookup of bills; a final snapshot stays as it is.
Completed(s, p) ==
  IF s.final THEN { s }
  ELSE { [ s EXCEPT !.revision = @ + 1, !.final = TRUE, !.bill = b ] :
         b \in { s.bill, p } }

Find(p) ==
  /\ draft # None /\ ~(draft.owned /\ alive)
  /\ \E s \in Completed(draft.snapshot, p) :
       Recovering(p, "idle",
                  [ stage |-> "found", found |-> draft, sealed |-> s ])
  /\ UNCHANGED << draft, queue, delivery, saved, faults >>

\* A slip: what another process did to the draft meanwhile is written over.
SealAnyway(p) == draft # None

Unchanged(p) == draft = recovery[p].found

\* The draft takes the completed snapshot, unless it changed since.
Seal(p) ==
  LET r == recovery[p]
      sealed == [ snapshot |-> r.sealed, owned |-> FALSE ]
  IN /\ IF Unchanged(p)
        THEN /\ draft' = sealed
             /\ Recovering(p, "found", [ r EXCEPT !.stage = "sealed" ])
        ELSE Recovering(p, "found", Idle) /\ UNCHANGED draft
     /\ UNCHANGED << queue, delivery, saved, faults >>

QueueRecovered(p) ==
  /\ Recovering(p, "sealed", [ recovery[p] EXCEPT !.stage = "queued" ])
  /\ queue' = Queued(recovery[p].sealed)
  /\ UNCHANGED << draft, delivery, saved, faults >>

RemoveRecovered(p) ==
  /\ draft' = IF draft = [ snapshot |-> recovery[p].sealed, owned |-> FALSE ]
              THEN None ELSE draft
  /\ Recovering(p, "queued", Idle) /\ Flush(p)
  /\ UNCHANGED << queue, saved, faults >>

\* A step fails, or the process dies and another one takes its place.
RecoveryFails(p) ==
  /\ Fault /\ recovery[p] # Idle
  /\ Recovering(p, recovery[p].stage, Idle)
  /\ delivery' \in { delivery, [ q \in Senders |->
                       IF q = p THEN Resting ELSE delivery[q] ] }
  /\ UNCHANGED << draft, queue, saved >>

Recover(p) == Find(p) \/ Seal(p) \/ QueueRecovered(p) \/ RemoveRecovered(p)
Work == Task \/ QueueTask \/ LastTask
Deliver(p) == TakeBatch(p) \/ Acknowledged(p)

Next ==
  \/ Turn \/ Submit \/ Finalize \/ Work \/ TaskFails \/ Die
  \/ \E p \in Others : Recover(p) \/ RecoveryFails(p)
  \/ \E p \in Senders : Deliver(p) \/ Failed(p) \/ FlushTimer(p)

Spec == Init /\ [][Next]_vars

\* The steps of every process are taken, sessions end, drafts are looked for.
\* The flush timer is relied on only once something failed or died.
Retried(p) == (faults > 0 \/ ~alive) /\ FlushTimer(p)

FairSpec ==
  /\ Spec /\ WF_vars(Finalize) /\ WF_vars(Work)
  /\ \A p \in Others : WF_vars(Recover(p))
  /\ \A p \in Senders : WF_vars(Deliver(p)) /\ WF_vars(Retried(p))

-----------------------------------------------------------------------------

\* A revision stands for one content, wherever it is: a process that completes
\* a draft never does so a second time, and what may have been sent is not
\* changed but followed by a newer revision.
RevisionsAreUnique ==
  LET all == received \cup { x \in { queue } : x # None }
  IN \A s, t \in all : s.revision = t.revision => s = t

\* What was saved once reaches the endpoint, as part of a final snapshot,
\* whatever fails and whoever dies, unless the endpoint told some process that
\* it is gone.  It holds of a queue below its limits, which are not modelled:
\* of more than 200 records the oldest go, and one over a megabyte is not
\* queued (outbox.ts).
SavedIsReported ==
  \A n \in 1 .. MaxUse :
    saved >= n ~> \/ \E s \in received : s.final /\ s.use >= n
                 \/ \E p \in Senders : delivery[p].stopped
=============================================================================
