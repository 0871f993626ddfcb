------------------------------ MODULE FileLock ------------------------------
(***************************************************************************)
(* A lock between processes that is a directory                            *)
(* (telemetry/file-lock.ts): whoever makes it holds it, and then names     *)
(* itself in it.  A lock whose holder is dead is moved away by a process   *)
(* that has made a second directory, after another look.  A process may    *)
(* die at any point.                                                       *)
(*                                                                         *)
(* A lock without a name counts as abandoned once it is two minutes old:   *)
(* no live process is taken to need that long to write its name.           *)
(***************************************************************************)
CONSTANTS Processes, Nobody

VARIABLES
  at,        \* where a process is
  lock,      \* who made the directory
  named,     \* whether it holds a name
  clearer,   \* who made the second directory
  dead

vars == << at, lock, named, clearer, dead >>

Places == { "out", "naming", "inside", "claiming", "looking", "moving",
            "clearing" }

TypeOK ==
  /\ at \in [ Processes -> Places ]
  /\ { lock, clearer } \subseteq Processes \cup { Nobody }
  /\ named \in BOOLEAN /\ dead \subseteq Processes

Init ==
  /\ at = [ p \in Processes |-> "out" ]
  /\ lock = Nobody /\ named = FALSE /\ clearer = Nobody /\ dead = { }

Go(p, from, to) ==
  /\ at[p] = from /\ p \notin dead
  /\ at' = [ at EXCEPT ![p] = to ]

\* abandonedLock(): there is a lock, and its maker is gone.
Abandoned == lock # Nobody /\ lock \in dead

Make(p) ==
  /\ Go(p, "out", "naming") /\ lock = Nobody
  /\ lock' = p /\ named' = FALSE
  /\ UNCHANGED << clearer, dead >>

\* Writing the name may fail; the directory goes again.
Name(p) ==
  \/ /\ Go(p, "naming", "inside")
     /\ named' = TRUE /\ UNCHANGED << lock, clearer, dead >>
  \/ /\ Go(p, "naming", "out")
     /\ lock' = Nobody /\ named' = FALSE /\ UNCHANGED << clearer, dead >>

Leave(p) ==
  /\ Go(p, "inside", "out")
  /\ lock' = Nobody /\ named' = FALSE
  /\ UNCHANGED << clearer, dead >>

\* The directory exists: a first look at who holds it.
Meet(p) ==
  /\ lock # Nobody
  /\ Go(p, "out", IF Abandoned THEN "claiming" ELSE "out")
  /\ UNCHANGED << lock, named, clearer, dead >>

\* Only one process may clear up; the others try again later.
Claim(p) ==
  /\ IF clearer = Nobody THEN Go(p, "claiming", "looking") /\ clearer' = p
                          ELSE Go(p, "claiming", "out") /\ UNCHANGED clearer
  /\ UNCHANGED << lock, named, dead >>

\* A slip: the first look is trusted.
TrustFirstLook(p) == Go(p, "looking", "moving")

SecondLook(p) == Go(p, "looking", IF Abandoned THEN "moving" ELSE "clearing")

LookAgain(p) == SecondLook(p) /\ UNCHANGED << lock, named, clearer, dead >>

\* rename() moves whatever is there.
Move(p) ==
  /\ Go(p, "moving", "clearing")
  /\ lock' = Nobody /\ named' = FALSE
  /\ UNCHANGED << clearer, dead >>

Clear(p) ==
  /\ Go(p, "clearing", "out") /\ clearer' = Nobody
  /\ UNCHANGED << lock, named, dead >>

Die(p) ==
  /\ p \notin dead /\ dead' = dead \cup { p }
  /\ UNCHANGED << at, lock, named, clearer >>

Step(p) ==
  \/ Make(p) \/ Name(p) \/ Leave(p) \/ Meet(p)
  \/ Claim(p) \/ LookAgain(p) \/ Move(p) \/ Clear(p)

Next == \E p \in Processes : Step(p) \/ Die(p)

Spec == Init /\ [][Next]_vars

\* A live process that is inside holds the lock, so no other is inside: what
\* is moved away was never a lock that somebody had taken meanwhile.
LockIsExclusive ==
  \A p \in Processes :
    at[p] \in { "naming", "inside" } /\ p \notin dead => lock = p

\* Why it holds: one live process at a time clears up, and the lock that it has
\* found abandoned at its second look stays so until it moves it away.
LockInv ==
  /\ TypeOK /\ LockIsExclusive
  /\ \A p \in Processes \ dead :
       /\ at[p] \in { "looking", "moving", "clearing" } => clearer = p
       /\ at[p] = "moving" => Abandoned
=============================================================================
