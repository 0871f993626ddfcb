--------------------------- MODULE SessionRuntime ---------------------------
(***************************************************************************)
(* The host that keeps one session and replaces it by another              *)
(* (pi-runtime/src/runtime.rs): each replacement, and the disposal, is a   *)
(* task of its own, that outlives who asked for it.  They take turns with  *)
(* a lock.  A task asks the extensions, prepares its target, shuts the old *)
(* session down, has the new one made, commits it to the slot, and then,   *)
(* without the lock, tells its host (rebind_session).                      *)
(*                                                                         *)
(* A task makes one session at most, which bears the task's name here, as  *)
(* does the file that it creates.  Before its session is made, a file that *)
(* a task holds is held by its SessionManager.                             *)
(***************************************************************************)
CONSTANTS
  Tasks,     \* the replacements and disposals that are asked for
  KindOf,    \* of a task: what is asked for
  Target,    \* of a task that switches: the file
  First,     \* the session of the beginning
  Nobody

Kinds == { "switch", "new", "fork", "import", "dispose" }
Sessions == Tasks \cup { First }

\* The files of the sessions; that of the first is called as it is.
Files == Sessions \cup { Target[t] : t \in Tasks }
FileOf(s) ==
  IF s # First /\ KindOf[s] = "switch" THEN Target[s] ELSE s

VARIABLES
  slot,      \* active, failed or disposed, and of which session (RuntimeSlot)
  life,      \* of a session: open, closing, closed, broken (with an error)
  held,      \* of a file: who has its lock
  pc,        \* of a task
  turn,      \* transition_lock
  cancelled, \* the tasks whose tokens are cancelled
  disposing,
  bound,     \* unsub_holder of the host: the session it listens to
  ears,      \* the sessions that have a listener of the host
  unheard    \* sessions whose callbacks were cancelled or failed

taskVars == << pc, turn, cancelled, disposing >>
hostVars == << bound, ears, unheard >>
vars == << slot, life, held, taskVars, hostVars >>

Init ==
  /\ slot = [ is |-> "active", session |-> First ]
  /\ life = [ s \in Sessions |-> IF s = First THEN "open" ELSE "none" ]
  /\ held = [ f \in Files |-> IF f = First THEN First ELSE Nobody ]
  /\ pc = [ t \in Tasks |-> "idle" ] /\ turn = Nobody
  /\ cancelled = { } /\ disposing = FALSE
  /\ bound = First /\ ears = { First } /\ unheard = { }

Goes(t, to) == pc' = [ pc EXCEPT ![t] = to ]

\* A task that ends gives the lock back, and takes its token out.
Ends(t) ==
  Goes(t, "ended") /\ turn' = (IF turn = t THEN Nobody ELSE turn)

Dispose(t) == KindOf[t] = "dispose"
Registered == { t \in Tasks : pc[t] \notin { "idle", "ended" } }
SameFile(t) == KindOf[t] = "switch" /\ Target[t] = FileOf(slot.session)
Ended(s) == life[s] \in { "closed", "broken" }
Holds(t) == held[FileOf(t)] = t
Released(t) == [ f \in Files |-> IF held[f] = t THEN Nobody ELSE held[f] ]

-----------------------------------------------------------------------------
(* Asking (spawn_transition).  A replacement that is asked for from the    *)
(* callbacks of one is refused at once, and does not appear here.          *)

\* ensure_not_reentrant_or_disposed: under the lock of the registry, and
\* again once it is the task's turn.
TakenAnyway == TRUE
MayGoOn == ~disposing /\ slot.is # "disposed"

Ask(t) ==
  /\ pc[t] = "idle" /\ ~Dispose(t)
  /\ IF MayGoOn THEN Goes(t, "queues") ELSE Goes(t, "ended")
  /\ UNCHANGED << slot, life, held, turn, cancelled, disposing, hostVars >>

\* Under that same lock: no task is registered after this without seeing it.
Stops ==
  disposing' = TRUE /\ cancelled' = cancelled \cup Registered

AskDispose(t) ==
  /\ pc[t] = "idle" /\ Dispose(t) /\ Goes(t, "queues") /\ Stops
  /\ UNCHANGED << slot, life, held, turn, hostVars >>

PrepareDispose ==
  /\ ~disposing /\ Stops
  /\ UNCHANGED << slot, life, held, pc, turn, hostVars >>

RequestCancel ==
  /\ ~(Registered \subseteq cancelled) /\ cancelled' = cancelled \cup Registered
  /\ UNCHANGED << slot, life, held, pc, turn, disposing, hostVars >>

-----------------------------------------------------------------------------
(* A task.                                                                 *)

\* lock_transition: a cancelled task leaves the queue, a disposal does not.
Leaves(t) == pc[t] = "queues" /\ t \in cancelled /\ ~Dispose(t)
LeaveQueue(t) ==
  /\ Leaves(t) /\ Ends(t)
  /\ UNCHANGED << slot, life, held, cancelled, disposing, hostVars >>

\* The extensions of an active session are asked.  There is none to ask after
\* a failure, nor anything to fork.
IsNext(t) ==
  pc[t] = "queues" /\ turn = Nobody /\ (Dispose(t) \/ t \notin cancelled)
Turn(t) ==
  /\ IsNext(t)
  /\ LET next ==
           IF Dispose(t) THEN IF slot.is = "disposed" THEN "ended" ELSE "tears"
           ELSE IF ~MayGoOn THEN "ended"
           ELSE IF slot.is = "active" THEN "asks"
           ELSE IF KindOf[t] = "fork" THEN "ended" ELSE "prepares"
     IN /\ Goes(t, next)
        /\ turn' = IF next = "ended" THEN Nobody ELSE t
  /\ UNCHANGED << slot, life, held, cancelled, disposing, hostVars >>

\* session_before_switch or session_before_fork: extensions may take as long
\* as they like, and may veto.
Asked(t) ==
  /\ pc[t] = "asks" /\ t \notin cancelled
  /\ \/ Goes(t, "prepares") /\ UNCHANGED turn
     \/ Ends(t)
  /\ UNCHANGED << slot, life, held, cancelled, disposing, hostVars >>

\* What may fail is done while the old session is open: another file is
\* opened and locked, with its execution log; a new one, or the copy of an
\* import, is created.  The session's own file and a fork can only be looked
\* at as yet.
Prepare(t) ==
  /\ pc[t] = "prepares"
  /\ \/ Ends(t) /\ UNCHANGED held
     \/ /\ Goes(t, "tears") /\ UNCHANGED turn
        /\ IF SameFile(t) \/ KindOf[t] = "fork" THEN UNCHANGED held
           ELSE /\ held[FileOf(t)] = Nobody
                /\ held' = [ held EXCEPT ![FileOf(t)] = t ]
  /\ UNCHANGED << slot, life, cancelled, disposing, hostVars >>

\* teardown_current starts the shutdown of the session, or joins it; it waits
\* for that whatever is cancelled.
Starts(s) ==
  life' = [ life EXCEPT ![s] = IF @ = "open" THEN "closing" ELSE @ ]
Next1(t) == IF Holds(t) THEN "creates" ELSE "reopens"

Tear(t) ==
  /\ pc[t] = "tears"
  /\ IF slot.is = "active"
     THEN Starts(slot.session) /\ Goes(t, "closes") /\ UNCHANGED << slot, turn >>
     ELSE /\ UNCHANGED life
          /\ IF Dispose(t) THEN Ends(t) /\ slot' = [ slot EXCEPT !.is = "disposed" ]
             ELSE Goes(t, Next1(t)) /\ UNCHANGED << slot, turn >>
  /\ UNCHANGED << held, cancelled, disposing, hostVars >>

\* With an error of the shutdown the replacement fails, and gives its target
\* back.
AtOnce(t) == TRUE
TornDown(t) == Ended(slot.session)

Torn(t) ==
  /\ pc[t] = "closes" /\ TornDown(t)
  /\ slot' = [ slot EXCEPT !.is = IF Dispose(t) THEN "disposed" ELSE "failed" ]
  /\ IF Dispose(t) \/ life[slot.session] = "broken"
     THEN Ends(t) /\ held' = Released(t)
     ELSE Goes(t, Next1(t)) /\ UNCHANGED << turn, held >>
  /\ UNCHANGED << life, cancelled, disposing, hostVars >>

\* The session's own file, and the fork from the closed session's entries.
Reopen(t) ==
  /\ pc[t] = "reopens"
  /\ \/ Ends(t) /\ UNCHANGED held
     \/ /\ held[FileOf(t)] = Nobody /\ Goes(t, "creates") /\ UNCHANGED turn
        /\ held' = [ held EXCEPT ![FileOf(t)] = t ]
  /\ UNCHANGED << slot, life, cancelled, disposing, hostVars >>

\* create_target and commit_active: the factory may take its time, or fail.
Create(t) ==
  /\ pc[t] = "creates" /\ t \notin cancelled
  /\ \/ /\ life' = [ life EXCEPT ![t] = "open" ]
        /\ slot' = [ is |-> "active", session |-> t ]
        /\ Goes(t, "tells") /\ turn' = Nobody /\ UNCHANGED held
     \/ Ends(t) /\ held' = Released(t) /\ UNCHANGED << life, slot >>
  /\ UNCHANGED << cancelled, disposing, hostVars >>

\* cancellable_hook: what the extensions or the factory still do is dropped,
\* and with it the target, which gives its file back.
KeptTarget(t) == held
DroppedTarget(t) == Released(t)

Dropped(t) == pc[t] \in { "asks", "creates" } /\ t \in cancelled
Drop(t) ==
  /\ Dropped(t)
  /\ Ends(t) /\ held' = DroppedTarget(t)
  /\ UNCHANGED << slot, life, cancelled, disposing, hostVars >>

-----------------------------------------------------------------------------
(* The callbacks after the commit: other tasks may be anywhere meanwhile.  *)

\* A setup that fails, or a token that is cancelled, leaves the new session
\* as it is, and the host not told.
NotTold(t) ==
  /\ pc[t] = "tells" /\ (t \in cancelled \/ KindOf[t] = "new") /\ Ends(t)
  /\ unheard' = unheard \cup { t }
  /\ UNCHANGED << slot, life, held, cancelled, disposing, bound, ears >>

\* rebind_session: the listener on the session before is taken off ...
Unbind(t) ==
  /\ pc[t] = "tells" /\ t \notin cancelled /\ Goes(t, "binds")
  /\ bound' = Nobody
  /\ ears' = ears \ { bound }
  /\ UNCHANGED << slot, life, held, turn, cancelled, disposing, unheard >>

\* ... and another put, not on the session that the task made, but on the one
\* that is in the slot by now.
TheTasksOwn(t) == t
Current(t) == slot.session

Bind(t) ==
  /\ pc[t] = "binds" /\ Ends(t)
  /\ IF slot.is = "active"
     THEN /\ bound' = Current(t)
          /\ ears' = IF Ended(Current(t)) THEN ears \ { Current(t) }
                    ELSE ears \cup { Current(t) }
     ELSE UNCHANGED << bound, ears >>
  /\ UNCHANGED << slot, life, held, cancelled, disposing, unheard >>

-----------------------------------------------------------------------------
(* Sessions.                                                               *)

\* Somebody else disposes of the session in the slot (a mode whose output
\* failed, the embedder).
CloseElsewhere ==
  /\ slot.is = "active" /\ life[slot.session] = "open" /\ Starts(slot.session)
  /\ UNCHANGED << slot, held, taskVars, hostVars >>

\* finish_shutdown: all listeners go, and the lock of the file.
Closed(s) ==
  /\ life[s] = "closing"
  /\ \E how \in { "closed", "broken" } : life' = [ life EXCEPT ![s] = how ]
  /\ held' = Released(s) /\ ears' = ears \ { s }
  /\ UNCHANGED << slot, taskVars, bound, unheard >>

-----------------------------------------------------------------------------
\* What a task does on its own, and when it can; what extensions and the
\* factory do is apart.
Moves(t) ==
  \/ LeaveQueue(t) \/ Turn(t) \/ Prepare(t) \/ Tear(t) \/ Torn(t) \/ Reopen(t)
  \/ Drop(t) \/ Unbind(t) \/ Bind(t)
CanMove(t) ==
  \/ Leaves(t) \/ IsNext(t) \/ Dropped(t)
  \/ pc[t] \in { "prepares", "tears", "reopens", "binds" }
  \/ pc[t] = "closes" /\ TornDown(t)
  \/ pc[t] = "tells" /\ t \notin cancelled

Next ==
  \/ PrepareDispose \/ RequestCancel \/ CloseElsewhere
  \/ \E s \in Sessions : Closed(s)
  \/ \E t \in Tasks :
       Ask(t) \/ AskDispose(t) \/ Asked(t) \/ Create(t) \/ NotTold(t) \/ Moves(t)

Spec == Init /\ [][Next]_vars

-----------------------------------------------------------------------------
Places ==
  { "idle", "queues", "asks", "prepares", "tears", "closes", "reopens",
    "creates", "tells", "binds", "ended" }

TypeOK ==
  /\ slot \in [ is : { "active", "failed", "disposed" }, session : Sessions ]
  /\ life \in [ Sessions -> { "none", "open", "closing", "closed", "broken" } ]
  /\ pc \in [ Tasks -> Places ] /\ disposing \in BOOLEAN
  /\ ears \subseteq Sessions
  /\ held \in [ Files -> Sessions \cup { Nobody } ]
  /\ turn \in Tasks \cup { Nobody } /\ cancelled \subseteq Tasks
  /\ bound \in Sessions \cup { Nobody } /\ unheard \subseteq Tasks

Live == { s \in Sessions : life[s] \in { "open", "closing" } }

\* There is never more than one session at work, and one that is open is the
\* one in the slot, with its file: a caller of try_session is not given one
\* that was replaced, nor does a session go on that nobody can reach.
OneSession ==
  /\ \A s \in Live : slot = [ is |-> "active", session |-> s ]
  /\ \A s \in Live : held[FileOf(s)] = s

\* A file stays locked for no one: who holds it is at work, or is the task
\* whose turn it is (release_persistent_store on every way out).
LocksHaveOwners ==
  \A f \in Files : held[f] \in Live \cup { Nobody, turn }

\* When all is quiet the host listens to the session in the slot, though the
\* callbacks of two replacements may run in any order; unless they were
\* cancelled, or failed.
HostListens ==
  /\ \A t \in Tasks : pc[t] \in { "idle", "ended" }
  /\ slot.is = "active" /\ life[slot.session] = "open"
  /\ slot.session \notin unheard
  => slot.session \in ears

\* A disposal is never kept waiting by what extensions and factories are still
\* doing: there is a step that ends one of the tasks before it, or a session
\* that closes, once started (see SessionWork for when that is so).  Every step
\* is one forward, so that the disposal ends.
DisposalGoesOn ==
  (\E t \in Registered : Dispose(t)) =>
    \/ \E t \in Tasks : CanMove(t)
    \/ \E s \in Sessions : life[s] = "closing"

\* Nothing comes after a disposal.
DisposedForGood ==
  slot.is = "disposed" => Live = { } /\ \A f \in Files : held[f] = Nobody

\* The runtime serves one session, with its file and its host, and lets go of
\* it when it is disposed of.
RuntimeServesOne ==
  /\ OneSession /\ LocksHaveOwners /\ HostListens
  /\ DisposalGoesOn /\ DisposedForGood

-----------------------------------------------------------------------------
(* The inductive invariant behind it.                                      *)

\* The task whose turn it is is between its turn and its commit.
InTurn == { "asks", "prepares", "tears", "closes", "reopens", "creates" }
TurnsAreTaken ==
  /\ turn # Nobody => pc[turn] \in InTurn
  /\ \A t \in Tasks : pc[t] \in InTurn =>
       turn = t /\ life[t] = "none" /\ slot.is # "disposed"
  /\ \A t \in Tasks : pc[t] \in { "idle", "queues" } => life[t] = "none"

\* A disposal neither asks nor makes anything, and cancels all who do.
DisposalsStop == \A t \in Tasks :
  /\ Dispose(t) => pc[t] \in { "idle", "queues", "tears", "closes", "ended" }
  /\ Dispose(t) /\ pc[t] \notin { "idle", "ended" } => disposing
  /\ disposing /\ t \in Registered => Dispose(t) \/ t \in cancelled

\* Before a session is made the old one is shut down, and its own file held.
OldIsDown == \A t \in Tasks :
  /\ pc[t] = "closes" => slot.is = "active" /\ life[slot.session] # "open"
  /\ pc[t] \in { "reopens", "creates" } => slot.is = "failed"
  /\ pc[t] = "creates" => Holds(t)
  /\ pc[t] = "reopens" => ~Holds(t)

\* Whoever holds a file holds its own, and is at work or will make a session.
HoldersWork == \A f \in Files : held[f] # Nobody =>
  /\ f = FileOf(held[f])
  /\ \/ held[f] \in Live
     \/ /\ held[f] \in Tasks /\ ~Dispose(held[f])
        /\ pc[held[f]] \in { "tears", "closes", "reopens", "creates" }

\* The host listens, or one of the callbacks under way will make it listen.
ListensSoon ==
  slot.is = "active" /\ life[slot.session] = "open" /\ slot.session \notin unheard
  => \/ slot.session \in ears
     \/ slot.session \in Tasks /\ pc[slot.session] = "tells"
     \/ \E t \in Tasks : pc[t] = "binds"

RuntimeInv ==
  /\ TypeOK /\ TurnsAreTaken /\ DisposalsStop /\ OldIsDown /\ OneSession
  /\ HoldersWork /\ ListensSoon /\ (slot.is = "active" => life[slot.session] # "none")
=============================================================================
