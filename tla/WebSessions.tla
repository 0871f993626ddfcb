----------------------------- MODULE WebSessions -----------------------------
(***************************************************************************)
(* The sessions of the web server (web/server/session/sessions.ts,         *)
(* runtime/owner.ts; the requests are those of server/api.ts): a pool that *)
(* opens a session for whoever asks, creates, deletes and closes them.     *)
(*                                                                         *)
(* The server has one thread: whatever is between two awaits is one step.  *)
(* What an await read may be old when it is used.  The pool is lost when   *)
(* the process dies; what it wrote, and the kernel's rule of one owner per *)
(* session, stay.  A session has one key: see MutationReceipts for why a   *)
(* key creates no two.                                                     *)
(***************************************************************************)
CONSTANTS
  Requests, KindOf, IdOf,  \* get, write, create or delete; of which session
  RequestSets,             \* the sets of requests that are made together
  Saved,                   \* the sessions that are on disk from the beginning
  Shared,                  \* those that another process opens, too
  Nobody, Other            \* Other is that process

Ids == { IdOf[r] : r \in Requests }

VARIABLES
  saved,     \* the sessions with a file of their own
  created,   \* created.json: of a key none, the id, or deleted (null)
  tombs,     \* web-inbox/deleted
  owner,     \* of an id: who has its name: the request that opened it, Other
  slots, opening, removed, closed,  \* of the pool; by id, who opened it
  chain,     \* who has createdWrites
  writes,    \* of an id: who has the lock of its writes
  life,      \* of the session that a request opens
  pc,
  seen,      \* the requests whose last await found what it looked for
  snap,      \* of a request: the created.json that it read
  slot,      \* of a request: the session it was given
  running,   \* the sessions with a run
  closer,    \* close(): none, waits, idle
  late,      \* history: requests begun after the session's tombstone
  lost,      \* history: keys that a write of an older created.json dropped
  crashed    \* bound: one crash

disk == << saved, created, tombs >>
pool == << slots, opening, removed, closed >>
locks == << chain, writes >>
requests == << pc, seen, snap, slot >>
history == << late, lost, crashed >>
vars == << disk, owner, pool, locks, life, requests, running, closer, history >>

All(x) == [ id \in Ids |-> x ]
Each(x) == [ r \in Requests |-> x ]

Init ==
  /\ saved = Saved /\ created = All("none") /\ tombs = { }
  /\ owner = All({ })
  /\ slots = All(Nobody) /\ opening = All(Nobody) /\ removed = { }
  /\ closed = FALSE /\ chain = Nobody /\ writes = All(Nobody)
  /\ life = Each("none") /\ seen = { }
  /\ \E some \in RequestSets :
       pc = [ r \in Requests |-> IF r \in some THEN "idle" ELSE "refused" ]
  /\ snap = Each(created) /\ slot = Each(Nobody)
  /\ running = { } /\ closer = "none"
  /\ late = { } /\ lost = { } /\ crashed = FALSE

-----------------------------------------------------------------------------
Id(r) == IdOf[r]
Goes(r, to) == pc' = [ pc EXCEPT ![r] = to ]
Sees(r, what) == seen' = IF what THEN seen \cup { r } ELSE seen \ { r }
Unlocked(r) == [ id \in Ids |-> IF writes[id] = r THEN Nobody ELSE writes[id] ]

\* A request is answered, or refused.
Ends(r, how) == Goes(r, how) /\ writes' = Unlocked(r)
Writes(r) == KindOf[r] \in { "write", "delete" }

\* openSaved has come to its end: who only asked for that has its answer.
Served(r) ==
  IF Writes(r) THEN Goes(r, "has") /\ UNCHANGED writes ELSE Ends(r, "answered")
Given(r, s) == Served(r) /\ slot' = [ slot EXCEPT ![r] = s ]

-----------------------------------------------------------------------------
(* openSaved.                                                              *)

\* The checks before its first await; writes of a session wait for each other.
Begin(r) ==
  /\ pc[r] = "idle" /\ KindOf[r] # "create"
  /\ Writes(r) => writes[Id(r)] = Nobody
  /\ late' = IF Id(r) \in tombs THEN late \cup { r } ELSE late
  /\ IF closed \/ Id(r) \in removed
     THEN Goes(r, "refused") /\ UNCHANGED writes
     ELSE /\ Goes(r, "stats")
          /\ writes' = IF Writes(r) THEN [ writes EXCEPT ![Id(r)] = r ] ELSE writes
  /\ UNCHANGED << disk, owner, pool, chain, life, seen, snap, slot, running,
                  closer, lost, crashed >>

IsRemoved(r) == Id(r) \in removed
IsDeleted(r) == Id(r) \in tombs

Stat(r) ==
  /\ pc[r] = "stats" /\ Goes(r, "stated") /\ Sees(r, IsDeleted(r))
  /\ UNCHANGED << disk, owner, pool, locks, life, snap, slot, running, closer,
                  history >>

\* The session is open, is being opened, or is looked for.
Stated(r) ==
  /\ pc[r] = "stated"
  /\ IF r \in seen THEN Ends(r, "refused") /\ UNCHANGED slot
     ELSE IF slots[Id(r)] # Nobody THEN Given(r, slots[Id(r)])
     ELSE /\ UNCHANGED writes
          /\ IF opening[Id(r)] # Nobody
             THEN Goes(r, "joins") /\ slot' = [ slot EXCEPT ![r] = opening[Id(r)] ]
             ELSE Goes(r, "lists") /\ UNCHANGED slot
  /\ UNCHANGED << disk, owner, pool, chain, life, seen, snap, running, closer,
                  history >>

\* Among the files; and then among the keys, for one that has no file yet.
List(r) ==
  /\ pc[r] = "lists" /\ Sees(r, Id(r) \in saved)
  /\ Goes(r, IF Id(r) \in saved THEN "listed" ELSE "reads")
  /\ UNCHANGED << disk, owner, pool, locks, life, snap, slot, running, closer,
                  history >>

Read(r) ==
  /\ pc[r] = "reads" /\ Goes(r, "read") /\ Sees(r, created[Id(r)] = "id")
  /\ UNCHANGED << disk, owner, pool, locks, life, snap, slot, running, closer,
                  history >>

\* open(): the session in the pool, the one that is being opened, or a new
\* one.
Open(r) ==
  /\ pc[r] \in { "listed", "read" }
  /\ IF r \notin seen \/ closed
     THEN Ends(r, "refused") /\ UNCHANGED << slot, opening >>
     ELSE IF slots[Id(r)] # Nobody
     THEN Given(r, slots[Id(r)]) /\ UNCHANGED opening
     ELSE /\ UNCHANGED writes
          /\ IF opening[Id(r)] # Nobody
             THEN /\ Goes(r, "joins") /\ UNCHANGED opening
                  /\ slot' = [ slot EXCEPT ![r] = opening[Id(r)] ]
             ELSE /\ Goes(r, IF pc[r] = "read" THEN "owns" ELSE "owns the file")
                  /\ opening' = [ opening EXCEPT ![Id(r)] = r ]
                  /\ UNCHANGED slot
  /\ UNCHANGED << disk, owner, slots, removed, closed, chain, life, seen, snap,
                  running, closer, history >>

NotOpened(r) ==
  /\ Ends(r, "refused") /\ opening' = [ opening EXCEPT ![Id(r)] = Nobody ]

\* ownSession: the name of the session is taken from the kernel.
AnyMayOwn(r) == TRUE
MayOwn(r) == owner[Id(r)] = { }

Own(r) ==
  /\ pc[r] \in { "owns", "owns the file" }
  /\ IF MayOwn(r)
     THEN /\ owner' = [ owner EXCEPT ![Id(r)] = @ \cup { r } ]
          /\ life' = [ life EXCEPT ![r] = "made" ]
          /\ Goes(r, IF pc[r] = "owns" THEN "builds" ELSE "builds from the file")
          /\ UNCHANGED << writes, opening >>
     ELSE NotOpened(r) /\ UNCHANGED << owner, life >>
  /\ UNCHANGED << disk, slots, removed, closed, chain, seen, snap, slot,
                  running, closer, history >>

\* buildOwned: what was made is disposed of if anything fails, if the pool
\* closes, or if the file that was listed is gone (the session has another id
\* then); its owner lets go.
Leave(some) == owner' = [ id \in Ids |-> owner[id] \ some ]

Build(r) ==
  /\ pc[r] \in { "builds", "builds from the file" }
  /\ \/ /\ ~closed /\ (pc[r] = "builds" \/ Id(r) \in saved)
        /\ life' = [ life EXCEPT ![r] = "live" ]
        /\ slots' = [ slots EXCEPT ![Id(r)] = r ]
        /\ opening' = [ opening EXCEPT ![Id(r)] = Nobody ]
        /\ Given(r, r) /\ UNCHANGED owner
     \/ /\ life' = [ life EXCEPT ![r] = "gone" ]
        /\ Leave({ r })
        /\ NotOpened(r) /\ UNCHANGED << slots, slot >>
  /\ UNCHANGED << disk, removed, closed, chain, seen, snap, running, closer,
                  history >>

\* Who joined has what came of it.
Join(r) ==
  /\ pc[r] = "joins" /\ opening[Id(r)] # slot[r]
  /\ IF life[slot[r]] = "live" THEN Served(r) ELSE Ends(r, "refused")
  /\ UNCHANGED << disk, owner, pool, chain, life, seen, snap, slot, running,
                  closer, history >>

-----------------------------------------------------------------------------
(* What a request does with its session.                                   *)

\* A run begins: the inbox, which the exit pauses, a compaction or a
\* navigation; the session has a file with the first message of the run.
Write(r) ==
  /\ pc[r] = "has" /\ KindOf[r] = "write" /\ Ends(r, "answered")
  /\ running' = running \cup { slot[r] }
  /\ UNCHANGED << disk, owner, pool, chain, life, seen, snap, slot, closer,
                  history >>

RunEnds(s) ==
  /\ s \in running /\ running' = running \ { s }
  /\ saved' = saved \cup { Id(s) }
  /\ UNCHANGED << created, tombs, owner, pool, locks, life, requests, closer,
                  history >>

-----------------------------------------------------------------------------
(* createWithKey: one after the other the keys are looked up, and entered. *)

Reserve(r) ==
  /\ pc[r] = "idle" /\ KindOf[r] = "create"
  /\ IF closed THEN Goes(r, "refused") /\ UNCHANGED << chain, snap >>
     ELSE /\ chain = Nobody /\ chain' = r
          /\ snap' = [ snap EXCEPT ![r] = created ] /\ Goes(r, "reserves")
  /\ UNCHANGED << disk, owner, pool, writes, life, seen, slot, running, closer,
                  history >>

Overwrites(r, entries) ==
  /\ created' = entries
  /\ lost' = lost \cup { id \in Ids : created[id] = "id" /\ entries[id] = "none" }

\* The write may fail; the session is opened once it is done.
Reserved(r) ==
  /\ pc[r] = "reserves" /\ chain' = Nobody
  /\ \/ Ends(r, "refused") /\ UNCHANGED << created, lost >>
     \/ /\ created' = [ snap[r] EXCEPT ![Id(r)] = "id" ] /\ UNCHANGED << lost, writes >>
        /\ Goes(r, IF closed THEN "refused" ELSE "stats")
  /\ UNCHANGED << saved, tombs, owner, pool, life, seen, snap, slot, running,
                  closer, late, crashed >>

-----------------------------------------------------------------------------
(* deleteSaved.                                                            *)

\* The id is refused from here on, in this process.
Delete(r) ==
  /\ pc[r] = "has" /\ KindOf[r] = "delete"
  /\ IF slot[r] \in running THEN Ends(r, "refused") /\ UNCHANGED removed
     ELSE /\ removed' = removed \cup { Id(r) } /\ Goes(r, "deletes")
          /\ UNCHANGED writes
  /\ UNCHANGED << disk, owner, slots, opening, closed, chain, life, seen, snap,
                  slot, running, closer, history >>

\* The tombstone is first on the disk.
Bury(r) ==
  /\ pc[r] = "deletes" /\ Sees(r, Id(r) \in saved)
  /\ \/ /\ Goes(r, "buried") /\ tombs' = tombs \cup { Id(r) }
        /\ UNCHANGED << removed, writes >>
     \/ /\ Ends(r, "refused") /\ removed' = removed \ { Id(r) }
        /\ UNCHANGED tombs
  /\ UNCHANGED << saved, created, owner, slots, opening, closed, chain, life,
                  snap, slot, running, closer, history >>

\* After the telemetry had its time, or failed: the session goes.
Forgotten(r) == [ slots EXCEPT ![Id(r)] = Nobody ]
Unlink(r) ==
  /\ pc[r] = "buried"
  /\ \/ /\ Goes(r, "unlinks") /\ UNCHANGED writes
        /\ life' = [ life EXCEPT ![slot[r]] = "gone" ]
        /\ Leave({ slot[r] })
        /\ slots' = Forgotten(r) /\ running' = running \ { slot[r] }
     \/ Ends(r, "refused") /\ UNCHANGED << life, owner, slots, running >>
  /\ UNCHANGED << disk, opening, removed, closed, chain, seen, snap, slot,
                  closer, history >>

\* Then its file, and then its key: not among the writes of createWithKey.
Removes(r) ==
  /\ pc[r] = "unlinks"
  /\ \/ Goes(r, "unkeys") /\ saved' = (IF r \in seen THEN saved \ { Id(r) } ELSE saved)
        /\ UNCHANGED writes
     \/ Ends(r, "refused") /\ UNCHANGED saved
  /\ UNCHANGED << created, tombs, owner, pool, chain, life, seen, snap, slot,
                  running, closer, history >>
ReadKeys(r) ==
  /\ pc[r] = "unkeys" /\ Goes(r, "keyless")
  /\ snap' = [ snap EXCEPT ![r] = created ]
  /\ UNCHANGED << disk, owner, pool, locks, life, seen, slot, running, closer,
                  history >>
WriteKeys(r) ==
  /\ pc[r] = "keyless"
  /\ \/ /\ Ends(r, "answered")
        /\ Overwrites(r, [ snap[r] EXCEPT ![Id(r)] = IF @ = "id" THEN "deleted" ELSE @ ])
     \/ Ends(r, "refused") /\ UNCHANGED << created, lost >>
  /\ UNCHANGED << saved, tombs, owner, pool, chain, life, seen, snap, slot,
                  running, closer, late, crashed >>

-----------------------------------------------------------------------------
(* The process.                                                            *)

\* close(): nothing is opened any more; it waits for what is being opened and
\* created, stops the runs, and gives up if a session is not idle then.
Close ==
  /\ closer = "none" /\ ~closed /\ closed' = TRUE /\ closer' = "waits"
  /\ UNCHANGED << disk, owner, slots, opening, removed, locks, life, requests,
                  running, history >>
Stop ==
  /\ closer = "waits" /\ chain = Nobody /\ opening = All(Nobody)
  /\ \/ closer' = "idle" /\ running' = { } /\ UNCHANGED closed
     \/ running # { } /\ closer' = "none" /\ closed' = FALSE /\ UNCHANGED running
  /\ saved' = saved \cup { Id(s) : s \in running }
  /\ UNCHANGED << created, tombs, owner, slots, opening, removed, locks, life,
                  requests, history >>
DisposeAll ==
  /\ closer = "idle" /\ closer' = "closed"
  /\ life' = [ r \in Requests |->
                 IF r \in { slots[id] : id \in Ids } THEN "gone" ELSE life[r] ]
  /\ Leave({ slots[id] : id \in Ids })
  /\ slots' = All(Nobody) /\ running' = { }
  /\ UNCHANGED << disk, opening, removed, closed, locks, requests, history >>

\* The process dies at any point, and another is started.
Restart ==
  /\ ~crashed /\ crashed' = TRUE
  /\ slots' = All(Nobody) /\ opening' = All(Nobody) /\ removed' = { }
  /\ closed' = FALSE /\ closer' = "none" /\ running' = { }
  /\ chain' = Nobody /\ writes' = All(Nobody)
  /\ Leave(Requests)
  /\ life' = [ r \in Requests |-> IF life[r] = "none" THEN "none" ELSE "gone" ]
  /\ pc' = [ r \in Requests |->
               IF pc[r] \in { "idle", "answered", "refused" } THEN pc[r]
               ELSE "refused" ]
  /\ UNCHANGED << disk, seen, snap, slot, late, lost >>

\* Another process opens the session, or closes it.
OtherOwns(id) ==
  /\ \/ owner[id] = { } /\ owner' = [ owner EXCEPT ![id] = { Other } ]
     \/ Other \in owner[id] /\ owner' = [ owner EXCEPT ![id] = @ \ { Other } ]
  /\ UNCHANGED << disk, pool, locks, life, requests, running, closer, history >>

-----------------------------------------------------------------------------
Opens(r) ==
  \/ Begin(r) \/ Stat(r) \/ Stated(r) \/ List(r) \/ Read(r) \/ Open(r)
  \/ Own(r) \/ Build(r) \/ Join(r)
Deletes(r) ==
  Delete(r) \/ Bury(r) \/ Unlink(r) \/ Removes(r) \/ ReadKeys(r) \/ WriteKeys(r)

Next ==
  \/ \E r \in Requests :
       \/ Opens(r) \/ Write(r) \/ RunEnds(r)
       \/ Reserve(r) \/ Reserved(r) \/ Deletes(r)
  \/ Close \/ Stop \/ DisposeAll \/ Restart
  \/ \E id \in Shared : OtherOwns(id)

Spec == Init /\ [][Next]_vars

-----------------------------------------------------------------------------
Places ==
  { "idle", "stats", "stated", "lists", "listed", "reads", "read", "joins",
    "owns", "owns the file", "builds", "builds from the file", "has",
    "answered", "refused", "reserves", "deletes", "buried", "unlinks",
    "unkeys", "keyless" }
Keys == [ Ids -> { "none", "id", "deleted" } ]
MaybeRequest == Requests \cup { Nobody }

TypeOK ==
  /\ saved \subseteq Ids /\ tombs \subseteq Ids /\ removed \subseteq Ids
  /\ created \in Keys
  /\ owner \in [ Ids -> SUBSET (Requests \cup { Other }) ]
  /\ life \in [ Requests -> { "none", "made", "live", "gone" } ]
  /\ pc \in [ Requests -> Places ]
  /\ slots \in [ Ids -> MaybeRequest ] /\ opening \in [ Ids -> MaybeRequest ]
  /\ writes \in [ Ids -> MaybeRequest ]
  /\ slot \in [ Requests -> MaybeRequest ] /\ chain \in MaybeRequest
  /\ snap \in [ Requests -> Keys ]
  /\ seen \subseteq Requests /\ running \subseteq Requests
  /\ late \subseteq Requests

\* One session object at most writes a session's file, and no other process
\* meanwhile; and one that the pool gives out is not disposed of.
OneWriter ==
  /\ \A r \in Requests : life[r] \in { "made", "live" } => owner[Id(r)] = { r }
  /\ \A id \in Ids : slots[id] # Nobody => life[slots[id]] = "live"

\* What is deleted stays so, though the process may die half way: no request
\* that comes after the tombstone is given the session.
DeletedStaysDeleted == \A r \in late : slot[r] = Nobody

\* A session whose creation was answered can be opened ever after, in the next
\* process too, until it is deleted; unless a deletion, which does not wait
\* for its turn, wrote what it had read of the keys before.
CreatedIsFound ==
  \A r \in Requests :
    KindOf[r] = "create" /\ pc[r] = "answered" =>
      Id(r) \in saved \cup tombs \cup lost \/ created[Id(r)] = "id"

\* The sessions of the web server have one writer, and are there as long as
\* its clients were told.
WebSessionsKept == OneWriter /\ DeletedStaysDeleted /\ CreatedIsFound

-----------------------------------------------------------------------------
(* The inductive invariant behind it.                                      *)

\* Nobody has a session of another id.
OwnIds ==
  /\ \A id \in Ids :
       /\ slots[id] # Nobody => Id(slots[id]) = id
       /\ opening[id] # Nobody => Id(opening[id]) = id
  /\ \A r \in Requests : slot[r] # Nobody => Id(slot[r]) = Id(r)

\* A request makes one session, and a session has been live when another
\* request works with it.
Early ==
  { "idle", "reserves", "stats", "stated", "lists", "listed", "reads", "read",
    "owns", "owns the file" }
Deleting == { "buried", "unlinks", "unkeys", "keyless" }
OneOf(r) ==
  /\ pc[r] \in Early => life[r] = "none"
  /\ pc[r] \in { "builds", "builds from the file" } => life[r] = "made"
  /\ pc[r] \in { "has", "deletes" } \cup Deleting =>
       slot[r] # Nobody /\ life[slot[r]] \in { "live", "gone" }
  /\ pc[r] = "joins" => slot[r] # Nobody
  /\ pc[r] \in { "idle", "reserves", "stats", "stated" } => slot[r] = Nobody
OneEach == \A r \in Requests : OneOf(r)

\* Who comes after the tombstone does not get far.
LateAreRefused ==
  \A r \in late :
    /\ slot[r] = Nobody /\ Id(r) \in tombs
    /\ pc[r] \in { "stats", "stated", "refused" }
    /\ pc[r] = "stated" => r \in seen

\* What is found, or is not for a known reason, remains so.
Settled(id) == id \in saved \cup tombs \cup lost
Buried ==
  /\ \A r \in Requests : pc[r] \in Deleting => Id(r) \in tombs
  /\ \A id \in Ids : created[id] = "deleted" => id \in tombs
  /\ \A r \in Requests, id \in Ids : snap[r][id] = "deleted" => id \in tombs

\* The keys that one who creates has read have all there are, as the others
\* wait for the chain; those that one who deletes has read have none that is
\* gone since.  Neither brings a key back or drops one unnoticed.
KeysAgree ==
  \A r \in Requests :
    /\ pc[r] = "reserves" => chain = r
    /\ \A id \in Ids : ~Settled(id) =>
         /\ pc[r] = "reserves" /\ created[id] = "id" => snap[r][id] = "id"
         /\ pc[r] = "keyless" /\ snap[r][id] = "id" => created[id] = "id"

EnteredIsFound ==
  \A r \in Requests :
    KindOf[r] = "create" /\ pc[r] \notin { "idle", "reserves", "refused" } =>
      Settled(Id(r)) \/ created[Id(r)] = "id"

WebInv ==
  /\ TypeOK /\ OwnIds /\ OneEach /\ OneWriter
  /\ LateAreRefused /\ Buried /\ KeysAgree /\ EnteredIsFound
=============================================================================
