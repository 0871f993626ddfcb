------------------------------ MODULE MCTools -------------------------------
(***************************************************************************)
(* What happens in the turns of the agent: the double loop itself, the     *)
(* journal of the tool calls, what a shell tool keeps of its output, and   *)
(* the changes of a file.  The parts share no state: a behaviour is one of *)
(* one part, the others rest in their initial states, and each module is   *)
(* checked as it would be alone.                                           *)
(***************************************************************************)
EXTENDS ToolJournal, TLC

CONSTANTS
  MaxMsgs, Settings,
  LineLimits, ByteLimits, MaxOutput, MaxPiece, MaxFull,
  Changes, KindOf, NameOf, MaxFailures

CONSTANTS r1, r2, a, b, e, f, w

\* The first top-level call makes two nested ones, the other makes none.
MCRootOf == a :> r1 @@ b :> r1

\* Each mode of each queue, next to the other mode of the other queue.
MCSettings == { << "all", "one-at-a-time" >>, << "one-at-a-time", "all" >> }

\* Two edits, one of them by a link, and a write.
MCKindOf == e :> "edit" @@ f :> "edit" @@ w :> "write"
MCNameOf == e :> "file" @@ f :> "link" @@ w :> "file"

VARIABLES
  part,
  step, steering, followUp, steeringMode, followUpMode, pending, batch, skip,
  hasMore, explicit, lastTurn, aborted, seen, committed, tail, kind, dropped,
  lost, turnMark, frame, hookFailed,
  limit, output, text, incomplete, kept, whole, completed, current, open,
  chunks, saved, stored, finished,
  at, client, undone, key, lock, locks, queue, known, content, result, written,
  failures

L == INSTANCE AgentLoop WITH pc <- step, cancelled <- aborted
O == INSTANCE OutputAccumulator WITH tail <- kept, file <- saved, disk <- stored
F == INSTANCE FileMutations WITH
       Calls <- Changes, caller <- client, cancelled <- undone, seen <- known,
       file <- content

ASSUME ToolsAssumption ==
  /\ MaxMsgs \in Nat /\ Settings \subseteq L!Modes \X L!Modes
  /\ LineLimits \cup ByteLimits \subseteq Nat \ { 0 }
  /\ KindOf \in [ Changes -> { "edit", "write" } ]
  /\ NameOf \in [ Changes -> { "file", "link" } ]
  /\ Changes \cap { "none", "torn", "no file" } = { }
  /\ { MaxOutput, MaxPiece, MaxFull, MaxFailures } \subseteq Nat

loopVars == << step, steering, followUp, steeringMode, followUpMode, pending,
               batch, skip, hasMore, explicit, lastTurn, aborted, seen,
               committed, tail, kind, dropped, lost, turnMark, frame,
               hookFailed >>
outputVars == << limit, output, text, incomplete, kept, whole, completed,
                 current, open, chunks, saved, stored, finished >>
fileVars == << at, client, undone, key, lock, locks, queue, known, content,
               result, written, failures >>
journalVars == vars
toolsVars == << part, loopVars, journalVars, outputVars, fileVars >>

ToolsInit ==
  /\ part \in { "loop", "journal", "output", "file" }
  /\ L!Init /\ Init /\ O!Init /\ F!Init
  /\ part # "loop" =>
       << steeringMode, followUpMode >> = CHOOSE s \in Settings : TRUE
  /\ part # "output" => limit.lines = CHOOSE n \in LineLimits : TRUE
  /\ part # "file" => content = F!NoFile

ToolsNext ==
  /\ UNCHANGED part
  /\ \/ /\ part = "loop" /\ L!Next
        /\ UNCHANGED << journalVars, outputVars, fileVars >>
     \/ /\ part = "journal" /\ Next
        /\ UNCHANGED << loopVars, outputVars, fileVars >>
     \/ /\ part = "output" /\ O!Next
        /\ UNCHANGED << loopVars, journalVars, fileVars >>
     \/ /\ part = "file" /\ F!Next
        /\ UNCHANGED << loopVars, journalVars, outputVars >>

\* Each part is scheduled fairly when it is the one that runs.
ToolsFairness ==
  /\ WF_loopVars(part = "loop" /\ L!LoopStep)
  /\ SF_loopVars(part = "loop" /\ L!AnswerAborted)
  /\ \A c \in Changes : WF_fileVars(part = "file" /\ F!Task(c))

ToolsSpec == ToolsInit /\ [][ToolsNext]_toolsVars /\ ToolsFairness

-----------------------------------------------------------------------------
(* What each part promises; the properties are explained in their modules. *)

\* Messages enter the transcript once, in order and no more of them in a turn
\* than its queue's mode says, and the events that subscribers see are properly
\* nested and closed.
LoopIsOrderly ==
  L!MessagesOnceInOrder /\ L!OneSteeringPerTurn /\ L!ClosedUnlessFinalizeFails

\* The output of a command is told rightly, and no change of a file is lost.
NothingIsLost == O!OutputIsTold /\ F!NoChangeLost

\* A cancelled run and the changes of a file come to an end.  A behaviour is
\* one of one part, so that this says what the parts' own properties say
\* together (CancelledRunSettles, CallsSettle).
TurnsEnd ==
  \/ part = "loop" /\ L!Cancelled
  \/ part = "file" /\ F!Begun
  ~>
  \/ part = "loop" /\ L!Idle
  \/ part = "file" /\ F!Settled
=============================================================================
