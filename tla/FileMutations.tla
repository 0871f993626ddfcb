--------------------------- MODULE FileMutations ---------------------------
(***************************************************************************)
(* Calls of the edit and write tools that change one file                  *)
(* (file_mutation_queue.rs, edit.rs, write.rs).  Each runs in a task of    *)
(* its own, which holds the lock of the file until it is done, whether its *)
(* caller still waits or not.  The file may be named by a symbolic link;   *)
(* the map of locks holds them weakly.  What is in the file is the calls   *)
(* that wrote it, a write beginning anew.                                  *)
(***************************************************************************)
EXTENDS Naturals, SequencesExt

CONSTANTS
  Calls, KindOf,  \* "edit" or "write"
  NameOf,         \* "file", or "link" to it
  MaxFailures     \* bound: reads, matches and writes that fail

VARIABLES
  at,         \* where the task of a call is
  caller,     \* "waits", "gone" or "has" the result
  cancelled,  \* the tokens
  key, lock,  \* of a task: its path, and the lock it has found
  locks,      \* the map: the last lock made for a path
  queue,      \* of a lock: who waits for it, first who holds it
  seen,       \* what an edit has read
  file,       \* what the file holds, or NoFile
  result, written, \* what a call came to, and the calls that wrote, in order
  failures

vars == << at, caller, cancelled, key, lock, locks, queue, seen, file, result,
           written, failures >>

Paths == { "file", "link" }
NoLock == "none"
NoFile == << "no file" >>
Torn == << "torn" >>

Init ==
  /\ at = [ c \in Calls |-> "idle" ]
  /\ caller = [ c \in Calls |-> "waits" ]
  /\ cancelled = { }
  /\ key = [ c \in Calls |-> NoLock ] /\ lock = key
  /\ locks = [ p \in Paths |-> NoLock ]
  /\ queue = [ l \in Calls |-> << >> ]
  /\ seen = [ c \in Calls |-> << >> ]
  /\ file \in { NoFile, << >> }
  /\ result = [ c \in Calls |-> "none" ] /\ written = << >>
  /\ failures = 0

Goes(c, from, to) == at[c] = from /\ at' = [ at EXCEPT ![c] = to ]

\* A slip: a task that nobody waits for keeps the lock.
EndsForItsCaller(c, outcome) ==
  /\ at' = [ at EXCEPT ![c] = "done" ]
  /\ result' = [ result EXCEPT ![c] = outcome ]
  /\ caller' = [ caller EXCEPT ![c] = IF @ = "waits" THEN "has" ELSE @ ]
  /\ queue' = [ queue EXCEPT ![lock[c]] = IF caller[c] = "waits" THEN Tail(@) ELSE @ ]

Ends(c, outcome) ==
  /\ at' = [ at EXCEPT ![c] = "done" ]
  /\ result' = [ result EXCEPT ![c] = outcome ]
  /\ caller' = [ caller EXCEPT ![c] = IF @ = "waits" THEN "has" ELSE @ ]
  /\ queue' = [ queue EXCEPT ![lock[c]] = Tail(@) ]

-----------------------------------------------------------------------------
(* The caller *)

Begin(c) ==
  /\ Goes(c, "idle", "keys")
  /\ UNCHANGED << caller, cancelled, key, lock, locks, queue, seen, file,
                  result, written, failures >>

\* The run is aborted, or the future of the call is dropped; its task goes on.
Cancel(c) ==
  /\ c \notin cancelled /\ caller[c] = "waits" /\ at[c] # "idle"
  /\ cancelled' = cancelled \cup { c }
  /\ caller' \in { caller, [ caller EXCEPT ![c] = "gone" ] }
  /\ UNCHANGED << at, key, lock, locks, queue, seen, file, result, written,
                  failures >>

-----------------------------------------------------------------------------
(* The lock *)

\* resolve_mutation_queue_key: a link is followed if there is a file.
Resolve(c) ==
  /\ Goes(c, "keys", "finds")
  /\ key' = [ key EXCEPT ![c] = IF file = NoFile THEN NameOf[c] ELSE "file" ]
  /\ UNCHANGED << caller, cancelled, lock, locks, queue, seen, file, result,
                  written, failures >>

Held(l) == l # NoLock /\ \E c \in Calls : lock[c] = l /\ at[c] # "done"

\* A slip: a lock for each call.
FoundAnew(c) == c

\* get_lock_for_key: the lock of the path if anybody still has it, or a new one.
Found(c) == IF Held(locks[key[c]]) THEN locks[key[c]] ELSE c

Find(c) ==
  /\ Goes(c, "finds", "queues")
  /\ lock' = [ lock EXCEPT ![c] = Found(c) ]
  /\ locks' = [ p \in Paths |->
       IF p = key[c] THEN Found(c) ELSE IF Held(locks[p]) THEN locks[p] ELSE NoLock ]
  /\ queue' = [ queue EXCEPT ![Found(c)] = Append(@, c) ]
  /\ UNCHANGED << caller, cancelled, key, seen, file, result, written, failures >>

\* Inside, a call may find itself cancelled.
Aborts(c) == c \in cancelled /\ Ends(c, "aborted") /\ UNCHANGED << seen, file, written, failures >>

Fails(c) ==
  /\ failures < MaxFailures /\ failures' = failures + 1
  /\ Ends(c, "failed") /\ UNCHANGED << seen, written >>

Enter(c) ==
  /\ at[c] = "queues" /\ Head(queue[lock[c]]) = c
  /\ \/ Aborts(c)
     \/ /\ c \notin cancelled /\ at' = [ at EXCEPT ![c] = "prepares" ]
        /\ UNCHANGED << caller, queue, seen, file, result, written, failures >>
  /\ UNCHANGED << cancelled, key, lock, locks >>

-----------------------------------------------------------------------------
(* The change *)

\* An edit reads the file and looks for its text; a write makes the directory.
Prepare(c) ==
  /\ at[c] = "prepares"
  /\ \/ Fails(c) /\ UNCHANGED file
     \/ /\ KindOf[c] = "edit" /\ file = NoFile /\ Ends(c, "failed")
        /\ UNCHANGED << seen, file, written, failures >>
     \/ /\ KindOf[c] = "edit" => file # NoFile
        /\ at' = [ at EXCEPT ![c] = "decides" ]
        /\ seen' = [ seen EXCEPT ![c] = IF KindOf[c] = "edit" THEN file ELSE << >> ]
        /\ UNCHANGED << caller, queue, file, result, written, failures >>
  /\ UNCHANGED << cancelled, key, lock, locks >>

\* Writing empties the file before it fills it, and may fail in between.
Decide(c) ==
  /\ at[c] = "decides"
  /\ \/ Aborts(c)
     \/ /\ c \notin cancelled /\ at' = [ at EXCEPT ![c] = "writes" ]
        /\ file' = Torn
        /\ UNCHANGED << caller, queue, seen, result, written, failures >>
  /\ UNCHANGED << cancelled, key, lock, locks >>

Write(c) ==
  /\ at[c] = "writes"
  /\ \/ Fails(c) /\ file' = Torn
     \/ /\ at' = [ at EXCEPT ![c] = "tells" ]
        /\ file' = Append(seen[c], c) /\ written' = Append(written, c)
        /\ UNCHANGED << caller, queue, seen, result, failures >>
  /\ UNCHANGED << cancelled, key, lock, locks >>

Tell(c) ==
  /\ at[c] = "tells"
  /\ \/ Aborts(c)
     \/ /\ c \notin cancelled /\ Ends(c, "ok")
        /\ UNCHANGED << seen, file, written, failures >>
  /\ UNCHANGED << cancelled, key, lock, locks >>

Task(c) ==
  Resolve(c) \/ Find(c) \/ Enter(c) \/ Prepare(c) \/ Decide(c) \/ Write(c) \/ Tell(c)

Next == \E c \in Calls : Begin(c) \/ Cancel(c) \/ Task(c)

\* The tasks go on, whether anybody waits for them or not.
Fairness == \A c \in Calls : WF_vars(Task(c))

Spec == Init /\ [][Next]_vars /\ Fairness

-----------------------------------------------------------------------------
\* The calls that wrote since the last one that began anew.
Since(log) ==
  LET anew == { i \in DOMAIN log : KindOf[log[i]] = "write" }
  IN IF anew = { } THEN log ELSE SubSeq(log, Max(anew), Len(log))

\* A write failed in the middle, and no write has begun anew since.
Spoilt(content) == content # << >> /\ Head(content) \in { "torn", "no file" }

\* A call by a link, begun before there was a file, has a lock of its own.
Apart == \E c \in Calls : key[c] = "link"

\* Between the changes the file holds every edit since the last write, also of
\* calls that were dropped or told that they were aborted; no edit has read
\* what another has overwritten since; who was told of success has written.
NoChangeLost ==
  ~ Apart =>
    /\ (\A c \in Calls : at[c] # "writes") => Spoilt(file) \/ file = Since(written)
    /\ Spoilt(file) /\ file # NoFile =>
         failures > 0 \/ \E c \in Calls : at[c] = "writes"
    /\ \A c \in Calls :
         /\ at[c] \in { "decides", "writes" } /\ KindOf[c] = "edit" =>
              Spoilt(seen[c]) \/ seen[c] = Since(written)
         /\ result[c] = "ok" => Contains(written, c)

-----------------------------------------------------------------------------
(* The inductive invariant behind it.                                      *)

Places ==
  { "idle", "keys", "finds", "queues", "prepares", "decides", "writes",
    "tells", "done" }
MaybeLock == Calls \cup { NoLock }
Contents == Seq(Calls \cup { "torn", "no file" })

TypeOK ==
  /\ at \in [ Calls -> Places ]
  /\ key \in [ Calls -> Paths \cup { NoLock } ]
  /\ lock \in [ Calls -> MaybeLock ] /\ locks \in [ Paths -> MaybeLock ]
  /\ seen \in [ Calls -> Contents ] /\ file \in Contents
  /\ result \in [ Calls -> { "none", "ok", "aborted", "failed" } ]
  /\ written \in Seq(Calls) /\ failures \in Nat
  /\ \A c \in Calls : at[c] \in { "idle", "keys" } <=> key[c] = NoLock

\* Who waits for a lock, or has it, has that of the map: there is one.
Inside == { "prepares", "decides", "writes", "tells" }
Queued == Inside \cup { "queues" }
OneLock ==
  \A c \in Calls :
    /\ at[c] \in { "idle", "keys", "finds" } => lock[c] = NoLock
    /\ at[c] \in Queued => lock[c] = locks["file"] /\ lock[c] # NoLock

\* In its queue is who waits for it, once, and first who has it.
IsIn(c, l) == \E i \in 1 .. Len(queue[l]) : queue[l][i] = c
Queues ==
  /\ queue \in [ Calls -> Seq(Calls) ]
  /\ \A l \in Calls : \A i, j \in 1 .. Len(queue[l]) :
       queue[l][i] = queue[l][j] => i = j
  /\ \A l, c \in Calls : IsIn(c, l) <=> lock[c] = l /\ at[c] \in Queued
  /\ \A c \in Calls : at[c] \in Inside => Head(queue[lock[c]]) = c

\* What a call has read is what there is.
ReadsAreFresh ==
  \A c \in Calls : at[c] \in { "decides", "writes" } =>
    IF KindOf[c] = "write" THEN seen[c] = << >>
    ELSE IF Spoilt(seen[c]) THEN failures > 0 ELSE seen[c] = Since(written)
FileAgrees ==
  /\ (\A c \in Calls : at[c] # "writes") => Spoilt(file) \/ file = Since(written)
  /\ Spoilt(file) /\ file # NoFile =>
       failures > 0 \/ \E c \in Calls : at[c] = "writes"
ToldHaveWritten ==
  \A c \in Calls : at[c] = "tells" \/ result[c] = "ok" => Contains(written, c)

FileInv ==
  /\ TypeOK
  /\ ~ Apart =>
       OneLock /\ Queues /\ ReadsAreFresh /\ FileAgrees /\ ToldHaveWritten

-----------------------------------------------------------------------------
\* Once a call has begun there comes a time when all that began have ended,
\* whoever before it was dropped.
Begun == \E c \in Calls : at[c] = "keys"
Settled == \A c \in Calls : at[c] \in { "idle", "done" }

CallsSettle == Begun ~> Settled
=============================================================================
