---------------------------- MODULE SessionStore ----------------------------
(***************************************************************************)
(* A session and its JSONL file (crates/pi-session/src/session_store.rs,   *)
(* JsonlSessionStore, and the persistence methods of session_manager.rs).  *)
(*                                                                         *)
(* One process at a time has the session open (the writer's lock).  It     *)
(* writes a line at a time, or a whole snapshot, through steps that can    *)
(* fail or be cut short by a crash.  `file` is what the file system shows; *)
(* `survivors` are the images a crash now may leave, that is what is not   *)
(* yet synced and how far it got.  An image is the complete lines and what *)
(* follows the last newline: nothing ("clean"), a complete line without    *)
(* its newline ("nonl"), a fragment ("torn"); "bad" ends in a line that is *)
(* complete and no entry.                                                  *)
(***************************************************************************)
EXTENDS Naturals, Sequences, FiniteSets

CONSTANT MaxEntries     \* bound: entries ever created, a natural number

VARIABLES
  file, survivors,
  status,             \* "down", "opening", "open", "refused"
  mem,                \* state.file_entries
  flushed, poisoned,
  op,                 \* the store call under way
  nextId,             \* entries are numbered as they are created
  acked,              \* history: entries a caller knows to be stored
  refused,            \* history: entries a caller knows to be not stored
  batches             \* history: entries that one snapshot replace brought

disk    == << file, survivors >>
manager == << status, mem, flushed, poisoned >>
history == << acked, refused, batches >>
vars    == << disk, manager, op, nextId, history >>

Kinds == { "header", "message", "input", "key", "note" }
Entries == [ id : 0 .. MaxEntries, kind : Kinds ]
Header == [ id |-> 0, kind |-> "header" ]
Ids(entries) == { entries[i].id : i \in DOMAIN entries }

Absent == [ entries |-> << >>, tail |-> "absent" ]
Stored(entries) == [ entries |-> entries, tail |-> "clean" ]
Images ==
  [ entries : Seq(Entries),
    tail : { "absent", "clean", "nonl", "torn", "bad" } ]

Ops ==
  [ kind : { "none", "append", "create", "replace", "appending", "creating",
             "replacing" },
    base : Images, want : Seq(Entries) ]
NoOp == [ kind |-> "none", base |-> Absent, want |-> << >> ]

TypeOK ==
  /\ file \in Images /\ survivors \subseteq Images /\ file \in survivors
  /\ status \in { "down", "opening", "open", "refused" }
  /\ mem \in Seq(Entries)
  /\ flushed \in BOOLEAN /\ poisoned \in BOOLEAN
  /\ op \in Ops
  /\ nextId \in 1 .. MaxEntries + 1
  /\ acked \subseteq 0 .. MaxEntries /\ refused \subseteq 0 .. MaxEntries
  /\ batches \subseteq SUBSET (0 .. MaxEntries)

Init ==
  /\ file = Absent /\ survivors = { Absent }
  /\ status = "down" /\ mem = << >> /\ flushed = FALSE /\ poisoned = FALSE
  /\ op = NoOp
  /\ nextId = 1
  /\ acked = { } /\ refused = { } /\ batches = { }

-----------------------------------------------------------------------------
(* Images.                                                                 *)

\* Every prefix of the bytes of `entries` behind the complete lines `base`.
WritePrefixes(base, entries) ==
  LET Cut(k, tail) ==
        [ entries |-> base \o SubSeq(entries, 1, k), tail |-> tail ]
  IN  { Cut(k, "clean") : k \in 0 .. Len(entries) }
        \cup { Cut(k, "nonl") : k \in 1 .. Len(entries) }
        \cup { Cut(k, "torn") : k \in 0 .. Len(entries) - 1 }

\* A line behind an unfinished one runs into it: neither can be read.
Appended(image, entry) ==
  CASE image.tail = "nonl" ->
         [ entries |-> SubSeq(image.entries, 1, Len(image.entries) - 1),
           tail |-> "bad" ]
    [] image.tail = "torn" -> [ image EXCEPT !.tail = "bad" ]
    [] OTHER -> Stored(Append(image.entries, entry))

AppendPrefixes(image, entry) ==
  { image, Appended(image, entry) }
    \cup IF image.tail \in { "nonl", "torn" } THEN { }
         ELSE WritePrefixes(image.entries, << entry >>)

\* load_entries accepts a file that starts with a complete header line and
\* whose last complete line is an entry.
Readable(image) ==
  /\ image.tail # "bad"
  /\ image.entries = << >> => image.tail # "torn"

\* A slip: only fragments are repaired.
RepairedFragment(image) ==
  IF image.tail = "torn" THEN Stored(image.entries) ELSE image

\* Tail repair: a fragment is cut off, a missing newline is added.
Repaired(image) ==
  IF image.tail = "absent" THEN image ELSE Stored(image.entries)

-----------------------------------------------------------------------------
(* Opening and closing.                                                    *)

\* What was left behind unsynced is written back before the session is
\* opened again: an assumption on the operating system.
WriteBack ==
  /\ status = "down"
  /\ survivors # { file }
  /\ survivors' = { file }
  /\ UNCHANGED << file, manager, op, nextId, history >>

\* SessionManager::open: a missing file is a new session, an empty one gets
\* a header, anything else is read, repaired and loaded.
Open ==
  /\ status = "down" /\ survivors = { file }
  /\ \/ /\ file = Absent
        /\ status' = "open" /\ mem' = << Header >> /\ flushed' = FALSE
        /\ UNCHANGED << disk, op >>
     \/ /\ file = Stored(<< >>)
        /\ status' = "opening"
        /\ op' = [ kind |-> "replace", base |-> file, want |-> << Header >> ]
        /\ UNCHANGED << disk, mem, flushed >>
     \/ /\ file.entries # << >> /\ Readable(file)
        /\ file' = Repaired(file) /\ survivors' = { file' }
        /\ status' = "open" /\ mem' = file.entries /\ flushed' = TRUE
        /\ UNCHANGED op
     \/ /\ ~Readable(file)
        /\ status' = "refused"
        /\ UNCHANGED << disk, mem, flushed, op >>
  /\ UNCHANGED << poisoned, nextId, history >>

\* The repair fails, before or after the file changed: no session.
RepairFails ==
  /\ status = "down" /\ survivors = { file }
  /\ file.entries # << >> /\ file.tail \in { "nonl", "torn" }
  /\ file' \in { file, Repaired(file) }
  /\ survivors' = { file, Repaired(file) }
  /\ UNCHANGED << manager, op, nextId, history >>

Forget ==
  /\ status' = "down" /\ mem' = << >> /\ flushed' = FALSE /\ poisoned' = FALSE
  /\ op' = NoOp

Close ==
  /\ status \in { "open", "refused" } /\ op = NoOp
  /\ Forget
  /\ UNCHANGED << disk, nextId, history >>

\* The process or the machine stops, at any moment.
Crash ==
  /\ Forget
  /\ file' \in survivors
  /\ survivors' = { file' }
  /\ UNCHANGED << nextId, history >>

-----------------------------------------------------------------------------
(* The session manager commits entries.                                    *)

Writable == status = "open" /\ op = NoOp /\ ~poisoned

\* A slip: the first number is skipped.
FreshOffByOne(kinds) ==
  [ i \in DOMAIN kinds |-> [ id |-> nextId + i, kind |-> kinds[i] ] ]

Fresh(kinds) ==
  [ i \in DOMAIN kinds |-> [ id |-> nextId + i - 1, kind |-> kinds[i] ] ]

\* Candidate entries of the given kinds, handed to the store as `kind`.
Begin(kind, kinds) ==
  /\ Writable
  /\ nextId + Len(kinds) <= MaxEntries + 1
  /\ nextId' = nextId + Len(kinds)
  /\ op' = [ kind |-> kind, base |-> file, want |-> mem \o Fresh(kinds) ]
  /\ batches' = IF kind = "replace"
                  THEN batches \cup { Ids(Fresh(kinds)) } ELSE batches
  /\ UNCHANGED << disk, manager, acked, refused >>

\* commit_single_entry and commit_boundary_drafts before there is a file
\* and a conversation: only memory changes.
CommitInMemory(kinds) ==
  /\ Writable /\ ~flushed
  /\ nextId + Len(kinds) <= MaxEntries + 1
  /\ nextId' = nextId + Len(kinds)
  /\ mem' = mem \o Fresh(kinds)
  /\ UNCHANGED << disk, status, flushed, poisoned, op, history >>

\* append_message and the other single entries
CommitMessage ==
  \/ flushed /\ Begin("append", << "message" >>)
  \/ ~flushed /\ Begin("create", << "message" >>)

CommitNote ==
  \/ flushed /\ Begin("append", << "note" >>)
  \/ CommitInMemory(<< "note" >>)

\* append_queued_user_message: an input and its correlation entry
CommitQueuedInput ==
  \/ flushed /\ Begin("replace", << "input", "key" >>)
  \/ ~flushed /\ Begin("create", << "input", "key" >>)

\* commit_boundary_drafts
CommitDrafts ==
  \/ flushed /\ Begin("replace", << "note", "note" >>)
  \/ CommitInMemory(<< "note", "note" >>)

-----------------------------------------------------------------------------
(* The store carries the call out.                                         *)

Succeed ==
  /\ survivors' = { file }
  /\ mem' = op.want /\ flushed' = TRUE /\ status' = "open"
  /\ acked' = acked \cup Ids(op.want)
  /\ op' = NoOp
  /\ UNCHANGED << file, poisoned, nextId, refused, batches >>

New == Ids(op.want) \ (Ids(mem) \cup { Header.id })

\* An error that leaves the store usable; during open the store is dropped.
Fail ==
  /\ status' = IF status = "opening" THEN "down" ELSE status
  /\ refused' = refused \cup New
  /\ op' = NoOp
  /\ UNCHANGED << mem, flushed, poisoned, nextId, acked, batches >>

\* StorageUncertain: the store refuses everything from now on.
Poison ==
  /\ status' = IF status = "opening" THEN "down" ELSE status
  /\ poisoned' = (status # "opening")
  /\ op' = NoOp
  /\ UNCHANGED << mem, flushed, nextId, history >>

Step(from, to) ==
  /\ op.kind = from
  /\ op' = [ op EXCEPT !.kind = to ]
  /\ UNCHANGED << manager, nextId, history >>

\* append_entry: the line reaches the file, or a part of it.
AppendWrite ==
  /\ Step("append", "appending")
  /\ survivors' = AppendPrefixes(file, op.want[Len(op.want)])
  /\ file' \in survivors'

AppendSynced ==
  /\ op.kind = "appending"
  /\ file = Appended(op.base, op.want[Len(op.want)])
  /\ Succeed

\* Slips: the file is left as the failed write left it; memory keeps what
\* the file does not have.
AppendGivesUp ==
  /\ op.kind = "appending"
  /\ Fail
  /\ UNCHANGED disk

AppendUndoneInFileOnly ==
  /\ op.kind = "appending"
  /\ file' = op.base /\ survivors' = { op.base }
  /\ mem' = op.want
  /\ op' = NoOp
  /\ UNCHANGED << status, flushed, poisoned, nextId, history >>

\* Write or sync failed: back to the old length.
AppendUndone ==
  /\ op.kind = "appending"
  /\ file' = op.base /\ survivors' = { op.base }
  /\ Fail

AppendUndoFails ==
  /\ op.kind = "appending"
  /\ Poison
  /\ file' \in { file, op.base }
  /\ UNCHANGED survivors

\* rewrite_all with exclusive create: the snapshot goes into a new file.
CreateWrite ==
  /\ Step("create", "creating")
  /\ survivors' = { Absent } \cup WritePrefixes(<< >>, op.want)
  /\ file' \in survivors' \ { Absent }

CreateSynced ==
  /\ op.kind = "creating"
  /\ file = Stored(op.want)
  /\ Succeed

\* The partial file is removed.
CreateUndone ==
  /\ op.kind = "creating"
  /\ file' = Absent /\ survivors' = { Absent }
  /\ Fail

\* Removing it, or syncing the directory, fails.
CreateUncertain ==
  /\ op.kind = "creating"
  /\ Poison
  /\ file' \in { file, Absent }
  /\ UNCHANGED survivors

\* A slip: the snapshot is written over the old one.
ReplaceInPlace ==
  /\ Step("replace", "replacing")
  /\ survivors' = { file } \cup WritePrefixes(<< >>, op.want)
  /\ file' = Stored(op.want)

\* rewrite_all without: a synced temporary file is renamed over the old one.
ReplaceRename ==
  /\ Step("replace", "replacing")
  /\ file' = Stored(op.want)
  /\ survivors' = { file, file' }

ReplaceFails ==
  /\ op.kind = "replace"
  /\ Fail
  /\ UNCHANGED disk

ReplaceSynced ==
  /\ op.kind = "replacing"
  /\ Succeed

ReplaceUncertain ==
  /\ op.kind = "replacing"
  /\ Poison
  /\ UNCHANGED disk

-----------------------------------------------------------------------------
Commit == CommitMessage \/ CommitNote \/ CommitQueuedInput \/ CommitDrafts

Store ==
  \/ AppendWrite \/ AppendSynced \/ AppendUndone \/ AppendUndoFails
  \/ CreateWrite \/ CreateSynced \/ CreateUndone \/ CreateUncertain
  \/ ReplaceRename \/ ReplaceFails \/ ReplaceSynced \/ ReplaceUncertain

Next ==
  \/ WriteBack \/ Open \/ RepairFails \/ Close \/ Crash
  \/ Commit \/ Store

Spec == Init /\ [][Next]_vars

-----------------------------------------------------------------------------
(* Properties.                                                             *)

Increasing(entries) ==
  \A i \in DOMAIN entries, j \in DOMAIN entries :
    i < j => entries[i].id < entries[j].id

\* An entry whose commit was reported as stored is in the session after any
\* crash from then on, in its place; a session with such entries can always
\* be opened.
AcknowledgedSurvives ==
  \A image \in survivors :
    /\ acked \subseteq Ids(image.entries)
    /\ acked # { } => Readable(image)
    /\ Increasing(image.entries)

\* Between two calls a usable session and its file say the same, and the
\* file is synced and ends in a newline, so that the next append starts a
\* line of its own.
MemoryMatchesFile ==
  Writable =>
    survivors = { IF flushed THEN Stored(mem) ELSE Absent }

\* An entry that was refused with an ordinary error is not in the file and
\* will not come back: the caller may commit it again.
RefusedLeavesNoTrace ==
  \A image \in survivors : refused \cap Ids(image.entries) = { }

\* Entries that are committed together into an existing file are stored
\* together or not at all, whatever fails.
BatchesAreAtomic ==
  \A image \in survivors, batch \in batches :
    batch \subseteq Ids(image.entries) \/ batch \cap Ids(image.entries) = { }

\* What the session file holds after a crash at any moment is what its callers
\* were told: all that was stored, nothing that was refused, no half of a
\* batch; and between two calls it is what the session has in memory.
CrashesKeepPromises ==
  /\ AcknowledgedSurvives /\ RefusedLeavesNoTrace /\ BatchesAreAtomic
  /\ MemoryMatchesFile

\* The comment at append_correlated_user_message: a crash cannot leave a
\* delivered user message without its deduplication key.
InputKeepsItsKey ==
  \A image \in survivors : \A i \in DOMAIN image.entries :
    image.entries[i].kind = "input"
      => image.entries[i].id + 1 \in Ids(image.entries)

-----------------------------------------------------------------------------
(* Why crashes keep the promises.                                          *)

\* What is true of the entries of any image, of memory and of what is to be
\* written: in order, none of the future, none refused, no half of a batch.
Sound(entries) ==
  /\ Increasing(entries) /\ Ids(entries) \subseteq 0 .. nextId - 1
  /\ refused \cap Ids(entries) = { }
  /\ \A batch \in batches :
       batch \subseteq Ids(entries) \/ batch \cap Ids(entries) = { }

\* Whatever a crash may leave is sound and has what was acknowledged; since
\* lines are only added behind whole ones, none runs into another.
ImagesInv ==
  \A image \in survivors :
    /\ Sound(image.entries) /\ acked \subseteq Ids(image.entries)
    /\ image.tail # "bad" /\ (image.tail = "absent" => image = Absent)

HistoryInv ==
  /\ refused \subseteq 1 .. nextId - 1
  /\ \A batch \in batches : batch \subseteq 1 .. nextId - 1

\* A session that is not open holds nothing; one without a file has written
\* no batch.
MemoryInv ==
  /\ Sound(mem)
  /\ status # "open" => mem = << >> /\ ~flushed /\ ~poisoned
  /\ ~flushed => \A batch \in batches : batch \cap Ids(mem) = { }

\* What a call of the store has to go back to, and where it may have got to.
OpInv ==
  /\ op.kind = "none" => op = NoOp
  /\ op.kind # "none" => status \in { "opening", "open" } /\ ~poisoned /\ Sound(op.want)
  /\ status = "opening" =>
       op.kind \in { "replace", "replacing" } /\ op.want = << Header >>
  /\ op.kind \in { "append", "create", "replace" } =>
       survivors = { file } /\ op.base = file
  /\ op.kind \in { "append", "appending" } =>
       /\ flushed /\ op.base = Stored(mem) /\ op.base \in survivors
       /\ \E entry \in Entries : op.want = Append(mem, entry)
  /\ op.kind \in { "create", "creating" } =>
       /\ status = "open" /\ ~flushed /\ op.base = Absent /\ Absent \in survivors
       /\ \A batch \in batches : batch \cap Ids(op.want) = { }
  /\ op.kind = "replace" /\ status = "open" => flushed /\ op.base = Stored(mem)
  /\ op.kind = "replace" => acked \subseteq Ids(op.want)
  /\ op.kind = "replacing" => file = Stored(op.want)

StoreInv ==
  /\ TypeOK /\ ImagesInv /\ HistoryInv /\ MemoryInv /\ OpInv
  /\ MemoryMatchesFile
=============================================================================
