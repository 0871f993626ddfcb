----------------------------- MODULE CacheWarmer ----------------------------
(***************************************************************************)
(* Keeping the cache of a provider warm (pi-runtime/src/cache_warmer.rs).  *)
(*                                                                         *)
(* Every request of the session to a provider makes the warmer replay that *)
(* request from time to time, until a newer request replaces it or it is   *)
(* stopped.  A run is the schedule of one request; it is called by the     *)
(* place of its request among those of the session.  The calls that start  *)
(* runs may overtake one another.  A refresh is a task that looks at the   *)
(* run under a lock, then waits for a decision, a replay and a commit      *)
(* while runs are started and stopped.  Times and costs are choices.       *)
(***************************************************************************)
EXTENDS Naturals, FiniteSets

CONSTANT MaxRequests

VARIABLES
  latest,     \* latest_request
  active,     \* the request of active_run, or 0
  refreshing, \* of active_run
  cancelled,  \* runs whose token is cancelled
  task,       \* of a run: what its start, timer or refresh does next
  mode,       \* "off", "streaming" or "idle"
  settled,    \* active_run is in the phase after the agent settled
  stale,      \* requests whose context has changed
  stopping    \* runs that a caller has decided to stop, out of the lock

vars == << latest, active, refreshing, cancelled, task, mode, settled, stale,
           stopping >>

Doings == { "new", "schedule", "timer", "woken", "check", "decide", "decided",
            "replay", "replied", "commit", "again", "none" }
Numbers == 1 .. MaxRequests
Runs == Numbers \cup { 0 }

TypeOK ==
  /\ latest \in Runs /\ active \in Runs /\ refreshing \in BOOLEAN
  /\ task \in [ Numbers -> Doings ]
  /\ cancelled \subseteq Numbers /\ stale \subseteq Numbers
  /\ stopping \subseteq Numbers

Init ==
  /\ latest = 0 /\ active = 0 /\ refreshing = FALSE /\ cancelled = { }
  /\ task = [ r \in Numbers |-> "new" ]
  /\ mode = "streaming" /\ settled = FALSE
  /\ stale = { } /\ stopping = { }

Go(r, from, to) == task[r] = from /\ task' = [ task EXCEPT ![r] = to ]

\* active_run is taken out and its token cancelled.
Take ==
  /\ active' = 0
  /\ cancelled' = cancelled \cup ({ active } \ { 0 })
Keep == UNCHANGED << active, cancelled >>

\* stop_run(): unless another run has come since.
Stop(r) == IF active = r THEN Take ELSE Keep

-----------------------------------------------------------------------------
(* start() and schedule_run().                                             *)

Overtaken(r) == latest >= r

\* A request that cannot be replayed ends the run before it all the same.
Start(r) ==
  /\ task[r] = "new"
  /\ IF Overtaken(r)
     THEN Go(r, "new", "none")
          /\ UNCHANGED << latest, active, refreshing, cancelled, settled >>
     ELSE /\ latest' = r
          /\ cancelled' = cancelled \cup ({ active } \ { 0 })
          /\ \/ mode # "off" /\ Go(r, "new", "schedule") /\ active' = r
             \/ Go(r, "new", "none") /\ active' = 0
          /\ refreshing' = FALSE /\ settled' = FALSE
  /\ UNCHANGED << mode, stale, stopping >>

\* The next refresh is due in time, or too late for the age of the run.
Schedule(r) ==
  /\ \/ active # r /\ Go(r, "schedule", "none") /\ UNCHANGED refreshing
     \/ active = r /\ Go(r, "schedule", "timer") /\ refreshing' = FALSE
     \/ active = r /\ Go(r, "schedule", "none") /\ refreshing' = FALSE
  /\ IF active = r /\ task'[r] = "none" THEN Stop(r) ELSE Keep
  /\ UNCHANGED << latest, mode, settled, stale, stopping >>

Timer(r) ==
  /\ \/ Go(r, "timer", "woken")
     \/ r \in cancelled /\ Go(r, "timer", "none")
  /\ UNCHANGED << latest, active, refreshing, cancelled, mode, settled, stale,
                  stopping >>

-----------------------------------------------------------------------------
(* refresh_run().                                                          *)

Refresh(r) ==
  /\ IF active = r THEN Go(r, "woken", "check") /\ refreshing' = TRUE
                   ELSE Go(r, "woken", "none") /\ UNCHANGED refreshing
  /\ UNCHANGED << latest, active, cancelled, mode, settled, stale, stopping >>

ModeStops == mode = "off" \/ (mode = "streaming" /\ settled)

\* validate_run(), and the deadline of the refresh: go on, or end, and end the
\* run too if it is still this one.
Validate(r, from, to) ==
  /\ UNCHANGED << latest, refreshing, mode, settled, stale, stopping >>
  /\ \/ active = r /\ ~ModeStops /\ r \notin stale /\ Go(r, from, to) /\ Keep
     \/ Go(r, from, "none") /\ Stop(r)

Check(r) == Validate(r, "check", "decide")

Decide(r) ==
  /\ \/ r \notin cancelled /\ Go(r, "decide", "decided")
     \/ r \in cancelled /\ Go(r, "decide", "none")
  /\ UNCHANGED << latest, active, refreshing, cancelled, mode, settled, stale,
                  stopping >>

\* Stopping, for the cost or by an extension, is among the ends of Validate.
Decided(r) == Validate(r, "decided", "replay")

\* A cancelled run is not replayed, nor is the answer to its replay used.
Replay(r) ==
  /\ \/ r \notin cancelled /\ Go(r, "replay", "replied")
     \/ r \in cancelled /\ Go(r, "replay", "none")
  /\ UNCHANGED << latest, active, refreshing, cancelled, mode, settled, stale,
                  stopping >>

Replied(r) == Validate(r, "replied", "commit")

\* A slip: an answer that is an error ends the task.
ErrorEnds(r) == Go(r, "commit", "none") /\ Keep

\* An answer that is an error is not recorded, and the run goes on.
ErrorPasses(r) == Go(r, "commit", "again") /\ Keep

\* append_usage() looks at the context once more; it may fail.
Commit(r) ==
  /\ task[r] = "commit"
  /\ \/ ErrorPasses(r)
     \/ r \notin stale /\ Go(r, "commit", "again") /\ Keep
     \/ Go(r, "commit", "none") /\ Stop(r)
  /\ UNCHANGED << latest, refreshing, mode, settled, stale, stopping >>

Again(r) ==
  /\ Go(r, "again", IF active = r THEN "schedule" ELSE "none")
  /\ UNCHANGED << latest, active, refreshing, cancelled, mode, settled, stale,
                  stopping >>

-----------------------------------------------------------------------------
(* The session around it.                                                  *)

Decides(to) == stopping' = IF to THEN stopping \cup ({ active } \ { 0 })
                                 ELSE stopping

\* on_agent_settled(): the run is stopped, at once or for its age, or goes on.
Settles ==
  /\ active # 0
  /\ \/ mode = "streaming" /\ Decides(TRUE) /\ UNCHANGED settled
     \/ mode # "streaming" /\ settled' = TRUE
        /\ \E old \in BOOLEAN : Decides(old)
  /\ UNCHANGED << latest, active, refreshing, cancelled, task, mode, stale >>

\* on_mode_changed().
ModeChanges(m) ==
  /\ mode # m /\ mode' = m
  /\ Decides(m = "off" \/ (m = "streaming" /\ settled))
  /\ UNCHANGED << latest, active, refreshing, cancelled, task, settled,
                  stale >>

StopDecided(r) ==
  /\ r \in stopping /\ stopping' = stopping \ { r }
  /\ Stop(r)
  /\ UNCHANGED << latest, refreshing, task, mode, settled, stale >>

\* cancel(), when the session closes.
CancelWarming ==
  /\ active # 0 /\ Take
  /\ UNCHANGED << latest, refreshing, task, mode, settled, stale, stopping >>

\* The conversation moves on from a request.
ContextChanges(r) ==
  /\ r \notin stale /\ stale' = stale \cup { r }
  /\ UNCHANGED << latest, active, refreshing, cancelled, task, mode, settled,
                  stopping >>

TaskStep(r) ==
  \/ Start(r) \/ Schedule(r) \/ Timer(r) \/ Refresh(r) \/ Check(r) \/ Decide(r)
  \/ Decided(r) \/ Replay(r) \/ Replied(r) \/ Commit(r) \/ Again(r)

Next ==
  \/ \E r \in Numbers : TaskStep(r) \/ StopDecided(r) \/ ContextChanges(r)
  \/ Settles \/ CancelWarming
  \/ \E m \in { "off", "streaming", "idle" } : ModeChanges(m)

Spec == Init /\ [][Next]_vars

-----------------------------------------------------------------------------

\* However the calls overtake one another, the run there is belongs to the
\* newest request that came, and something works for it: no run stays behind
\* that is shown as scheduled or refreshing and never warms again.
RunIsNewestAndDriven ==
  active # 0 => active = latest /\ task[active] \notin { "new", "none" }
                /\ active \notin cancelled

\* Inductive, because only runs of requests that came are ever cancelled.
WarmerInv ==
  TypeOK /\ RunIsNewestAndDriven /\ \A r \in cancelled : r <= latest
=============================================================================
