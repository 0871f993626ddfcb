---------------------------- MODULE ToolsProofs ----------------------------
(***************************************************************************)
(* Proofs about the parts of MCTools: the journal, for any number of       *)
(* top-level and nested calls, the double loop, for any number of          *)
(* messages, the changes of a file, for any number of calls, and what is   *)
(* kept of the output of a command, for any output, pieces and limits.     *)
(***************************************************************************)
EXTENDS MCTools, SeqFacts, FiniteSetTheorems, WellFoundedInduction

-----------------------------------------------------------------------------
(* The journal.  The log on disk is right because the log in memory is:    *)
(* every save is computed from the memory, and memory and disk each        *)
(* account for every call that executed, also while they differ.           *)

\* A log has every executed call whose outcome is not in the session file.
Accounts(l) == \A x \in ran : OutcomeKnown(x) \/ x \in Logged(l)

\* The memory accounts for what executed, as the disk does.
MemoryAccounts == up => Accounts(mem)

\* A log has every call that may still execute.
HasEntered(l) ==
  \A x \in All : pc[x] = "recorded" /\ pc[Root(x)] \in Active => x \in Logged(l)

\* A call that may still execute is in both logs.
EnteredBeforeExecution ==
  /\ \A x \in ran : pc[x] \notin { "idle", "begun", "recorded" }
  /\ \A x \in All : pc[x] \in Active => pc[Root(x)] # "idle"
  /\ HasEntered(mem)
  /\ HasEntered(disk)

\* Between runs no top-level call is under way, and what a left-over call has
\* entered since need not be kept.
BetweenRuns ==
  /\ ~up => ~run /\ ~fatal
  /\ run => mem.active
  /\ ~run => \A r \in Roots : pc[r] \notin Active
  /\ up /\ ~run /\ ~fatal => \A x \in mem.tools : x \in ran => OutcomeKnown(x)

\* The result of a call goes into the file once, with the record it was given.
ResultsInFile ==
  \A r \in Roots :
    /\ pc[r] \in { "idle", "begun", "recorded", "running", "ended", "taken" } =>
         ~file[r].stored
    /\ pc[r] = "stored" => file[r].stored /\ file[r].record = summary[r]
    /\ summary[r].calls \subseteq Nested(r)

JournalInv ==
  /\ TypeOK
  /\ NoEffectUnaccounted
  /\ MemoryAccounts
  /\ EnteredBeforeExecution
  /\ BetweenRuns
  /\ ResultsInFile

-----------------------------------------------------------------------------
LEMMA RootType == \A x \in All : Root(x) \in Roots
BY ToolJournalAssumption DEF All, Root

LEMMA LogType ==
  ASSUME TypeOK
  PROVE  /\ EmptyLog \in Log
         /\ \A S \in SUBSET All : Running(S) \in Log
         /\ \A x \in All : Entered(x) \in Log
         /\ Finished \in Log
         /\ \A r \in Roots : Cleared(r) \in Log
         /\ Reconciled \in Log
<1> USE DEF TypeOK, Log
<1>1. EmptyLog \in Log
  BY DEF EmptyLog
<1>2. \A S \in SUBSET All : Running(S) \in Log
  BY DEF Running
<1>3. \A x \in All : Entered(x) \in Log
  BY DEF Running, Entered
<1>4. Finished \in Log
  BY DEF Finished
<1>5. ASSUME NEW r \in Roots
      PROVE  Cleared(r) \in Log
  <2>1. mem = [ active |-> mem.active, tools |-> mem.tools,
                interrupted |-> mem.interrupted ]
    OBVIOUS
  <2>2. Cleared(r).tools \in SUBSET All
    BY DEF Cleared
  <2>3. QED
    BY <2>2 DEF Cleared
<1>6. Reconciled \in Log
  BY DEF Reconciled, Unresolved, Logged
<1>7. QED
  BY <1>1, <1>2, <1>3, <1>4, <1>5, <1>6

LEMMA InitInv == Init => JournalInv
<1> SUFFICES ASSUME Init
             PROVE  JournalInv
  OBVIOUS
<1> USE DEF Init
<1>1. TypeOK
  BY DEF TypeOK, Log, EmptyLog, Stages, NotYet, Record, Result, NoRecord,
         NoResult
<1>2. NoEffectUnaccounted /\ MemoryAccounts
  BY DEF NoEffectUnaccounted, MemoryAccounts, Accounts
<1>3. EnteredBeforeExecution
  BY RootType DEF EnteredBeforeExecution, HasEntered, Active
<1>4. BetweenRuns
  BY DEF BetweenRuns, Active, All
<1>5. ResultsInFile
  BY DEF ResultsInFile, NoResult, NoRecord, All
<1>6. QED
  BY <1>1, <1>2, <1>3, <1>4, <1>5 DEF JournalInv

-----------------------------------------------------------------------------
(* Types.                                                                  *)

LEMMA SnapshotType ==
  ASSUME TypeOK, NEW r \in Roots
  PROVE  Snapshot(r) \in Record /\ Stored(r) \in [ Roots -> Result ]
<1>1. Snapshot(r) \in Record
  BY DEF Snapshot, Record, Nested
<1>2. [ stored |-> TRUE, record |-> summary[r] ] \in Result
  BY DEF TypeOK, Result
<1>3. QED
  BY <1>1, <1>2 DEF Stored, TypeOK

LEMMA TypeStep == TypeOK /\ [Next]_vars => TypeOK'
<1> SUFFICES ASSUME TypeOK, [Next]_vars
             PROVE  TypeOK'
  OBVIOUS
<1> USE DEF TypeOK
<1>0. ASSUME NEW x \in All, NEW from, NEW to \in Stages, Go(x, from, to)
      PROVE  pc' \in [ All -> Stages ]
  BY <1>0 DEF Go
<1>S. { "idle", "begun", "recorded", "running", "ended", "done", "taken",
        "stored", "cleared", "lost" } \subseteq Stages
  BY DEF Stages, NotYet, Active
<1>1. CASE StartRun
  <2>1. Running({ }) \in Log
    BY LogType
  <2>2. QED
    BY <1>1, <2>1 DEF StartRun, SaveOk, SaveFails
<1>2. CASE FinishRun
  <2>1. Finished \in Log
    BY LogType
  <2>2. QED
    BY <1>2, <2>1 DEF FinishRun, SaveOk, SaveFails
<1>3. ASSUME NEW x \in All, CallStep(x)
      PROVE  TypeOK'
  <2> USE <1>S
  <2>1. CASE Begin(x)
    <3>1. x \in Calls => Root(x) \in Roots
      BY RootType
    <3>2. pc' \in [ All -> Stages ]
      BY <2>1, <1>0 DEF Begin
    <3>3. QED
      BY <2>1, <3>1, <3>2 DEF Begin
  <2>2. CASE Blocked(x)
    <3>1. pc' \in [ All -> Stages ]
      BY <2>2, <1>0 DEF Blocked
    <3>2. QED
      BY <2>2, <3>1 DEF Blocked
  <2>3. CASE RecordStart(x)
    <3>1. pc' \in [ All -> Stages ]
      BY <2>3, <1>0 DEF RecordStart
    <3>2. Entered(x) \in Log
      BY LogType
    <3>3. QED
      BY <2>3, <3>1, <3>2 DEF RecordStart, SaveOk, SaveFails
  <2>4. CASE Execute(x)
    <3>1. pc' \in [ All -> Stages ]
      BY <2>4, <1>0 DEF Execute
    <3>2. QED
      BY <2>4, <3>1 DEF Execute
  <2>5. CASE Return(x)
    <3>1. pc' \in [ All -> Stages ]
      BY <2>5, <1>0 DEF Return
    <3>2. QED
      BY <2>5, <3>1 DEF Return
  <2>6. QED
    BY <1>3, <2>1, <2>2, <2>3, <2>4, <2>5 DEF CallStep
<1>4. ASSUME NEW c \in Calls, RecorderFinish(c)
      PROVE  TypeOK'
  <2>1. pc' \in [ All -> Stages ]
    BY <1>4, <1>0, <1>S DEF RecorderFinish, All
  <2>2. QED
    BY <1>4, <2>1 DEF RecorderFinish
<1>5. ASSUME NEW r \in Roots, ResultStep(r)
      PROVE  TypeOK'
  <2>0. r \in All
    BY DEF All
  <2>1. CASE TakeRecord(r)
    <3>1. pc' \in [ All -> Stages ]
      BY <2>0, <2>1, <1>0, <1>S DEF TakeRecord
    <3>2. QED
      BY <2>1, <3>1, SnapshotType DEF TakeRecord
  <2>2. CASE Persist(r)
    <3>1. pc' \in [ All -> Stages ]
      BY <2>0, <2>2, <1>0, <1>S DEF Persist
    <3>2. QED
      BY <2>2, <3>1, SnapshotType DEF Persist
  <2>3. CASE PersistFails(r)
    <3>1. pc' \in [ All -> Stages ]
      BY <2>0, <2>3, <1>0, <1>S DEF PersistFails
    <3>2. QED
      BY <2>3, <3>1, SnapshotType DEF PersistFails
  <2>4. CASE Clear(r)
    <3>1. pc' \in [ All -> Stages ]
      BY <2>0, <2>4, <1>0, <1>S DEF Clear
    <3>2. Cleared(r) \in Log
      BY LogType
    <3>3. QED
      BY <2>4, <3>1, <3>2 DEF Clear, SaveOk, SaveFails
  <2>5. QED
    BY <1>5, <2>1, <2>2, <2>3, <2>4 DEF ResultStep
<1>6. CASE Crash
  <2>1. pc' \in [ All -> Stages ]
    BY <1>6, <1>S DEF Crash
  <2>2. EmptyLog \in Log
    BY LogType
  <2>3. QED
    BY <1>6, <2>1, <2>2 DEF Crash
<1>7. CASE Reopen \/ ReopenFails
  <2>1. Reconciled \in Log
    BY LogType
  <2>2. Reconciled.interrupted \in SUBSET All
    BY DEF Reconciled, Unresolved, Logged, Log
  <2>3. QED
    BY <1>7, <2>1, <2>2 DEF Reopen, ReopenFails, SaveOk, SaveFails
<1>8. CASE UNCHANGED vars
  BY <1>8 DEF vars
<1>9. QED
  BY <1>1, <1>2, <1>3, <1>4, <1>5, <1>6, <1>7, <1>8 DEF Next

-----------------------------------------------------------------------------
(* Every log that is saved accounts for what executed.                     *)

LEMMA LoggedCalls ==
  /\ \A S : Logged(Running(S)) = S \cup mem.interrupted
  /\ Logged(Finished) = Logged(mem)
  /\ Logged(Reconciled) = Unresolved
BY DEF Logged, Running, Finished, Reconciled

LEMMA LoggedCleared ==
  ASSUME TypeOK, NEW r \in Roots
  PROVE  Logged(mem) \ Answered(r) \subseteq Logged(Cleared(r))
<1>1. /\ mem.tools \ Answered(r) \subseteq Cleared(r).tools
      /\ Cleared(r).interrupted = mem.interrupted
  BY DEF TypeOK, Log, Cleared
<1>2. QED
  BY <1>1 DEF Logged

LEMMA AnsweredKnown ==
  ASSUME JournalInv, NEW r \in Roots, pc[r] = "stored", NEW x \in Answered(r)
  PROVE  OutcomeKnown(x) /\ Root(x) = r
<1>1. /\ file[r].stored /\ file[r].record = summary[r]
      /\ summary[r].calls \subseteq Nested(r)
  BY DEF JournalInv, ResultsInFile
<1>2. CASE x = r
  BY <1>1, <1>2 DEF OutcomeKnown, Root
<1>3. CASE x # r
  <2>1. summary[r].complete /\ x \in summary[r].calls
    BY <1>3 DEF Answered
  <2>2. x \in Calls /\ RootOf[x] = r
    BY <1>1, <2>1 DEF Nested
  <2>3. x \notin Roots
    BY <2>2, ToolJournalAssumption
  <2>4. QED
    BY <1>1, <2>1, <2>2, <2>3 DEF OutcomeKnown, PersistedAndComplete, Root
<1>4. QED
  BY <1>2, <1>3

LEMMA SavesAccount ==
  ASSUME JournalInv
  PROVE  /\ up /\ ~fatal /\ ~run => Accounts(Running({ }))
         /\ up => Accounts(Finished)
         /\ up /\ ~fatal => \A x \in All : Accounts(Entered(x))
         /\ up => \A r \in Roots : pc[r] = "stored" => Accounts(Cleared(r))
         /\ Accounts(Reconciled)
<1> USE DEF JournalInv, Accounts
<1>1. ASSUME up, ~fatal, ~run
      PROVE  Accounts(Running({ }))
  BY <1>1, LoggedCalls DEF MemoryAccounts, BetweenRuns, Logged
<1>2. ASSUME up
      PROVE  Accounts(Finished)
  BY <1>2, LoggedCalls DEF MemoryAccounts
<1>3. ASSUME up, ~fatal, NEW x \in All
      PROVE  Accounts(Entered(x))
  <2>1. CASE mem.active
    BY <1>3, <2>1, LoggedCalls DEF MemoryAccounts, Entered, Logged
  <2>2. CASE ~mem.active
    BY <1>3, <2>2, LoggedCalls DEF MemoryAccounts, BetweenRuns, Entered, Logged
  <2>3. QED
    BY <2>1, <2>2
<1>4. ASSUME up, NEW r \in Roots, pc[r] = "stored"
      PROVE  Accounts(Cleared(r))
  <2>1. \A x \in Answered(r) : OutcomeKnown(x)
    BY <1>4, AnsweredKnown
  <2>2. Logged(mem) \ Answered(r) \subseteq Logged(Cleared(r))
    BY LoggedCleared
  <2>3. QED
    BY <1>4, <2>1, <2>2 DEF MemoryAccounts
<1>5. Accounts(Reconciled)
  BY LoggedCalls
     DEF NoEffectUnaccounted, OutcomeKnown, PersistedAndComplete, Unresolved,
         TypeOK, Root
<1>6. QED
  BY <1>1, <1>2, <1>3, <1>4, <1>5

LEMMA SavesHaveEntered ==
  ASSUME JournalInv
  PROVE  /\ ~run => \A l : HasEntered(l)
         /\ HasEntered(Finished)
         /\ \A x \in All : HasEntered(Entered(x))
         /\ \A r \in Roots : pc[r] = "stored" => HasEntered(Cleared(r))
<1> USE DEF JournalInv, HasEntered
<1>1. ~run => \A l : HasEntered(l)
  BY RootType DEF BetweenRuns
<1>2. HasEntered(Finished)
  BY LoggedCalls DEF EnteredBeforeExecution
<1>3. ASSUME NEW x \in All
      PROVE  HasEntered(Entered(x))
  <2>1. CASE run
    BY <2>1, LoggedCalls
       DEF BetweenRuns, EnteredBeforeExecution, Entered, Logged
  <2>2. QED
    BY <1>1, <2>1
<1>4. ASSUME NEW r \in Roots, pc[r] = "stored"
      PROVE  HasEntered(Cleared(r))
  <2>1. "stored" \notin Active
    BY DEF Active
  <2>2. \A x \in Answered(r) : pc[Root(x)] \notin Active
    BY <1>4, <2>1, AnsweredKnown
  <2>3. QED
    BY <2>2, LoggedCleared DEF EnteredBeforeExecution
<1>5. QED
  BY <1>1, <1>2, <1>3, <1>4

-----------------------------------------------------------------------------
(* The steps.                                                              *)

LEMMA KnownStays ==
  ASSUME JournalInv, NEW r \in Roots,
         file' = file \/ (pc[r] = "taken" /\ file' = Stored(r)),
         NEW x \in All, OutcomeKnown(x)
  PROVE  OutcomeKnown(x)'
<1> USE DEF JournalInv, OutcomeKnown, PersistedAndComplete
<1>1. CASE file' = file
  BY <1>1
<1>2. CASE pc[r] = "taken" /\ file' = Stored(r)
  <2>1. ~file[r].stored
    BY <1>2 DEF ResultsInFile
  <2>2. Root(x) # r
    BY <2>1 DEF Root
  <2>3. file'[Root(x)] = file[Root(x)]
    BY <1>2, <2>2, RootType DEF Stored, TypeOK
  <2>4. QED
    BY <2>3, RootType DEF Root
<1>3. QED
  BY <1>1, <1>2

\* A save leaves two logs that account for what executed.
LEMMA SaveAccounts ==
  ASSUME JournalInv, file' = file, ran' = ran, up' => up \/ mem' = disk',
         NEW l, Accounts(l), SaveOk(l) \/ SaveFails(l)
  PROVE  NoEffectUnaccounted' /\ MemoryAccounts'
<1> USE DEF JournalInv
<1>1. \A x : OutcomeKnown(x)' = OutcomeKnown(x)
  BY DEF OutcomeKnown, PersistedAndComplete
<1>2. \A x \in ran : OutcomeKnown(x) \/ x \in Logged(disk')
  BY DEF NoEffectUnaccounted, Accounts, SaveOk, SaveFails
<1>3. up' => \A x \in ran : OutcomeKnown(x) \/ x \in Logged(mem')
  BY <1>2 DEF MemoryAccounts, Accounts, SaveOk, SaveFails
<1>4. Logged(disk)' = Logged(disk') /\ Logged(mem)' = Logged(mem')
  BY DEF Logged
<1>5. QED
  BY <1>1, <1>2, <1>3, <1>4 DEF NoEffectUnaccounted, MemoryAccounts, Accounts

\* So does a step that saves nothing and executes nothing.
LEMMA UnsavedAccounts ==
  ASSUME JournalInv, up' = up, mem' = mem, disk' = disk, ran' = ran,
         NEW r \in Roots,
         file' = file \/ (pc[r] = "taken" /\ file' = Stored(r))
  PROVE  NoEffectUnaccounted' /\ MemoryAccounts'
<1>1. \A x \in All : OutcomeKnown(x) => OutcomeKnown(x)'
  BY KnownStays
<1>2. ran \subseteq All
  BY DEF JournalInv, TypeOK
<1>3. Logged(disk)' = Logged(disk) /\ Logged(mem)' = Logged(mem)
  BY DEF Logged
<1>4. QED
  BY <1>1, <1>2, <1>3
     DEF JournalInv, NoEffectUnaccounted, MemoryAccounts, Accounts

\* A save leaves two logs that have every call that may still execute, if the
\* step lets none execute that could not before.
LEMMA SaveHasEntered ==
  ASSUME JournalInv,
         \A x \in All : pc'[x] = "recorded" /\ pc'[Root(x)] \in Active =>
                         pc[x] = "recorded" /\ pc[Root(x)] \in Active,
         NEW l, HasEntered(l), SaveOk(l) \/ SaveFails(l)
  PROVE  HasEntered(mem)' /\ HasEntered(disk)'
<1>1. Logged(disk)' = Logged(disk') /\ Logged(mem)' = Logged(mem')
  BY DEF Logged
<1>2. (disk' = l \/ disk' = disk) /\ (mem' = l \/ mem' = mem)
  BY DEF SaveOk, SaveFails
<1>3. QED
  BY <1>1, <1>2 DEF JournalInv, EnteredBeforeExecution, HasEntered

LEMMA StartRunInv ==
  ASSUME JournalInv, StartRun
  PROVE  NoEffectUnaccounted' /\ MemoryAccounts' /\ EnteredBeforeExecution'
           /\ BetweenRuns' /\ ResultsInFile'
<1> USE DEF JournalInv, StartRun
<1>1. SaveOk(Running({ })) \/ SaveFails(Running({ }))
  OBVIOUS
<1>2. NoEffectUnaccounted' /\ MemoryAccounts'
  BY <1>1, SavesAccount, SaveAccounts
<1>3. EnteredBeforeExecution'
  <2>1. HasEntered(Running({ }))
    BY SavesHaveEntered
  <2>2. HasEntered(mem)' /\ HasEntered(disk)'
    BY <1>1, <2>1, SaveHasEntered
  <2>3. QED
    BY <2>2 DEF EnteredBeforeExecution
<1>4. BetweenRuns'
  BY DEF BetweenRuns, SaveOk, SaveFails, Running, OutcomeKnown,
         PersistedAndComplete
<1>5. ResultsInFile'
  BY DEF ResultsInFile
<1>6. QED
  BY <1>2, <1>3, <1>4, <1>5

LEMMA FinishRunInv ==
  ASSUME JournalInv, FinishRun
  PROVE  NoEffectUnaccounted' /\ MemoryAccounts' /\ EnteredBeforeExecution'
           /\ BetweenRuns' /\ ResultsInFile'
<1> USE DEF JournalInv, FinishRun
<1>1. CASE fatal
  <2>1. NoEffectUnaccounted' /\ MemoryAccounts'
    BY <1>1
       DEF NoEffectUnaccounted, MemoryAccounts, Accounts, Logged, OutcomeKnown,
           PersistedAndComplete
  <2>2. EnteredBeforeExecution'
    BY <1>1 DEF EnteredBeforeExecution, HasEntered, Logged
  <2>3. BetweenRuns'
    BY <1>1 DEF BetweenRuns
  <2>4. QED
    BY <2>1, <2>2, <2>3 DEF ResultsInFile
<1>2. CASE ~fatal
  <2>1. SaveOk(Finished) \/ SaveFails(Finished)
    BY <1>2
  <2>2. NoEffectUnaccounted' /\ MemoryAccounts'
    BY <2>1, SavesAccount, SaveAccounts
  <2>3. EnteredBeforeExecution'
    <3>1. HasEntered(mem)' /\ HasEntered(disk)'
      BY <2>1, SavesHaveEntered, SaveHasEntered
    <3>2. QED
      BY <3>1 DEF EnteredBeforeExecution
  <2>4. BetweenRuns'
    BY <1>2 DEF BetweenRuns, SaveOk, SaveFails, Finished
  <2>5. QED
    BY <2>2, <2>3, <2>4 DEF ResultsInFile
<1>3. QED
  BY <1>1, <1>2

\* What a step of call x leaves alone, and what it asks of the run.
LEMMA CallFrame ==
  ASSUME JournalInv, NEW x \in All, NEW from, NEW to, Go(x, from, to)
  PROVE  /\ pc'[x] = to
         /\ \A y \in All : y # x => pc'[y] = pc[y]
         /\ pc[x] = from /\ up
BY DEF JournalInv, TypeOK, Go

LEMMA BeginInv ==
  ASSUME JournalInv, NEW x \in All, Begin(x)
  PROVE  NoEffectUnaccounted' /\ MemoryAccounts' /\ EnteredBeforeExecution'
           /\ BetweenRuns' /\ ResultsInFile'
<1> USE DEF JournalInv, Begin
<1>0. /\ pc'[x] = "begun" /\ pc[x] = "idle"
      /\ \A y \in All : y # x => pc'[y] = pc[y]
  BY CallFrame
<1>1. NoEffectUnaccounted' /\ MemoryAccounts'
  BY RootType, UnsavedAccounts DEF Go
<1>2. EnteredBeforeExecution'
  <2>1. \A y \in ran : pc'[y] \notin { "idle", "begun", "recorded" }
    BY <1>0 DEF EnteredBeforeExecution, TypeOK
  <2>2. \A y \in All : pc'[y] \in Active => pc'[Root(y)] # "idle"
    BY <1>0, RootType DEF EnteredBeforeExecution, Root, All
  <2>3. \A y \in All : pc'[y] = "recorded" => pc[Root(y)] # "idle"
    BY <1>0 DEF EnteredBeforeExecution, Active
  <2>4. \A y \in All : pc'[y] = "recorded" /\ pc'[Root(y)] \in Active =>
                        pc[y] = "recorded" /\ pc[Root(y)] \in Active
    BY <1>0, <2>3, RootType DEF All
  <2>5. QED
    BY <2>1, <2>2, <2>4 DEF EnteredBeforeExecution, HasEntered, Logged
<1>3. BetweenRuns'
  <2>1. x \in Calls \/ run
    BY DEF All
  <2>2. ~run => \A r \in Roots : pc'[r] = pc[r]
    BY <1>0, <2>1, ToolJournalAssumption DEF All
  <2>3. QED
    BY <2>2 DEF BetweenRuns, OutcomeKnown, PersistedAndComplete
<1>4. ResultsInFile'
  BY <1>0 DEF ResultsInFile, All
<1>5. QED
  BY <1>1, <1>2, <1>3, <1>4

LEMMA EndInv ==
  ASSUME JournalInv, NEW x \in All,
         Blocked(x) \/ Return(x) \/ (x \in Calls /\ RecorderFinish(x))
  PROVE  NoEffectUnaccounted' /\ MemoryAccounts' /\ EnteredBeforeExecution'
           /\ BetweenRuns' /\ ResultsInFile'
<1> USE DEF JournalInv
<1>u. UNCHANGED << up, fatal, run, mem, disk, truncated, summary, file,
                   report, ran >>
  BY DEF Blocked, Return, RecorderFinish
<1>0. /\ \/ pc[x] \in { "begun", "recorded", "running" } /\ pc'[x] = "ended"
         \/ x \in Calls /\ pc[x] = "ended" /\ pc'[x] = "done"
      /\ \A y \in All : y # x => pc'[y] = pc[y]
  BY DEF Blocked, Return, RecorderFinish, Go, TypeOK
<1>1. NoEffectUnaccounted' /\ MemoryAccounts'
  BY <1>u, RootType, UnsavedAccounts
<1>t. pc'[x] \notin Active \cup { "idle", "begun", "recorded" }
  BY <1>0 DEF Active
<1>2. EnteredBeforeExecution'
  BY <1>0, <1>t, <1>u, RootType
     DEF EnteredBeforeExecution, HasEntered, Logged, TypeOK, All
<1>3. BetweenRuns'
  BY <1>0, <1>t, <1>u DEF BetweenRuns, OutcomeKnown, PersistedAndComplete, All
<1>4. ResultsInFile'
  <2>1. x \in Roots => pc[x] \in { "begun", "recorded", "running" }
                         /\ pc'[x] = "ended"
    BY <1>0, ToolJournalAssumption
  <2>2. QED
    BY <1>0, <1>u, <2>1 DEF ResultsInFile, All, Nested
<1>5. QED
  BY <1>1, <1>2, <1>3, <1>4

LEMMA RecordStartInv ==
  ASSUME JournalInv, NEW x \in All, RecordStart(x)
  PROVE  NoEffectUnaccounted' /\ MemoryAccounts' /\ EnteredBeforeExecution'
           /\ BetweenRuns' /\ ResultsInFile'
<1> USE DEF JournalInv, RecordStart
<1>0. /\ pc'[x] \in { "recorded", "ended" } /\ pc[x] = "begun" /\ up
      /\ \A y \in All : y # x => pc'[y] = pc[y]
  BY CallFrame
<1>s. SaveOk(Entered(x)) \/ SaveFails(Entered(x))
  OBVIOUS
<1>n. x \notin ran
  BY <1>0 DEF EnteredBeforeExecution
<1>1. NoEffectUnaccounted' /\ MemoryAccounts'
  BY <1>0, <1>s, SavesAccount, SaveAccounts
<1>2. EnteredBeforeExecution'
  <2>1. \A y \in ran' : pc'[y] \notin { "idle", "begun", "recorded" }
    BY <1>0, <1>n DEF EnteredBeforeExecution, TypeOK
  <2>2. \A y \in All : pc'[y] \in Active => pc'[Root(y)] # "idle"
    BY <1>0, RootType DEF EnteredBeforeExecution, Active, All
  <2>3. \A y \in All : pc'[Root(y)] \in Active => pc[Root(y)] \in Active
    BY <1>0, RootType DEF Active, All
  <2>4. \A y \in All : y # x /\ pc'[y] = "recorded" /\ pc'[Root(y)] \in Active =>
                        y \in Logged(mem) /\ y \in Logged(disk)
                          /\ y \in Logged(Entered(x))
    BY <1>0, <2>3, SavesHaveEntered DEF EnteredBeforeExecution, HasEntered
  <2>5. x \in Logged(Entered(x))
    BY LoggedCalls DEF Entered
  <2>6. pc'[x] = "recorded" => SaveOk(Entered(x))
    BY CallFrame
  <2>7. HasEntered(mem)' /\ HasEntered(disk)'
    BY <1>s, <2>4, <2>5, <2>6 DEF HasEntered, SaveOk, SaveFails, Logged
  <2>8. QED
    BY <2>1, <2>2, <2>7 DEF EnteredBeforeExecution
<1>3. BetweenRuns'
  <2>1. \A r \in Roots : pc[r] \notin Active => pc'[r] \notin Active
    BY <1>0 DEF Active, All
  <2>2. mem'.tools \subseteq mem.tools \cup { x } /\ (mem.active => mem'.active)
    BY <1>s DEF SaveOk, SaveFails, Entered, Running
  <2>3. \A y : OutcomeKnown(y)' = OutcomeKnown(y)
    BY DEF OutcomeKnown, PersistedAndComplete
  <2>4. QED
    BY <1>0, <1>n, <2>1, <2>2, <2>3 DEF BetweenRuns
<1>4. ResultsInFile'
  BY <1>0 DEF ResultsInFile, All
<1>5. QED
  BY <1>1, <1>2, <1>3, <1>4

LEMMA ExecuteInv ==
  ASSUME JournalInv, NEW x \in All, Execute(x)
  PROVE  NoEffectUnaccounted' /\ MemoryAccounts' /\ EnteredBeforeExecution'
           /\ BetweenRuns' /\ ResultsInFile'
<1> USE DEF JournalInv, Execute
<1>0. /\ pc'[x] = "running" /\ pc[x] = "recorded" /\ up
      /\ \A y \in All : y # x => pc'[y] = pc[y]
  BY CallFrame
<1>r. pc[Root(x)] \in Active
  BY <1>0 DEF Active, All, Root
<1>k. \A y : OutcomeKnown(y)' = OutcomeKnown(y)
  BY DEF OutcomeKnown, PersistedAndComplete
<1>1. NoEffectUnaccounted' /\ MemoryAccounts'
  <2>1. x \in Logged(mem) /\ x \in Logged(disk)
    BY <1>0, <1>r DEF EnteredBeforeExecution, HasEntered
  <2>2. QED
    BY <1>k, <2>1 DEF NoEffectUnaccounted, MemoryAccounts, Accounts, Logged
<1>2. EnteredBeforeExecution'
  <2>1. \A y \in All : pc'[Root(y)] \in Active => pc[Root(y)] \in Active
    BY <1>0, RootType DEF Active, All
  <2>2. HasEntered(mem)' /\ HasEntered(disk)'
    BY <1>0, <2>1 DEF EnteredBeforeExecution, HasEntered, Logged
  <2>3. \A y \in All : pc'[y] \in Active => pc'[Root(y)] # "idle"
    BY <1>0, RootType DEF EnteredBeforeExecution, Active, All
  <2>4. QED
    BY <1>0, <2>2, <2>3 DEF EnteredBeforeExecution, TypeOK
<1>3. BetweenRuns'
  <2>1. run
    BY <1>r, RootType DEF BetweenRuns
  <2>2. QED
    BY <1>0, <2>1 DEF BetweenRuns
<1>4. ResultsInFile'
  BY <1>0 DEF ResultsInFile, All
<1>5. QED
  BY <1>1, <1>2, <1>3, <1>4

\* A call that can no longer execute moves on, and no log is saved.
LEMMA PastExecution ==
  ASSUME JournalInv, NEW x \in All,
         pc[x] \notin Active \cup { "idle" }, pc'[x] \notin Active \cup { "idle" },
         \A y \in All : y # x => pc'[y] = pc[y],
         mem' = mem, disk' = disk, ran' = ran
  PROVE  EnteredBeforeExecution'
<1> USE DEF JournalInv
<1>1. \A y \in All : pc'[y] \in Active => y # x /\ pc[y] \in Active
  OBVIOUS
<1>2. \A y \in All : pc'[y] \in Active => pc'[Root(y)] # "idle"
  BY <1>1, RootType DEF EnteredBeforeExecution, All
<1>3. HasEntered(mem)' /\ HasEntered(disk)'
  <2>1. "recorded" \in Active
    BY DEF Active
  <2>2. \A y \in All : Root(y) \in All
    BY RootType DEF All
  <2>3. \A y \in All : pc'[y] = "recorded" /\ pc'[Root(y)] \in Active =>
                        pc[y] = "recorded" /\ pc[Root(y)] \in Active
    BY <1>1, <2>1, <2>2
  <2>4. QED
    BY <2>3 DEF EnteredBeforeExecution, HasEntered, Logged
<1>4. \A y \in ran : pc'[y] \notin { "idle", "begun", "recorded" }
  BY DEF EnteredBeforeExecution, Active, TypeOK
<1>5. QED
  BY <1>2, <1>3, <1>4 DEF EnteredBeforeExecution

LEMMA TakeRecordInv ==
  ASSUME JournalInv, NEW r \in Roots, TakeRecord(r)
  PROVE  NoEffectUnaccounted' /\ MemoryAccounts' /\ EnteredBeforeExecution'
           /\ BetweenRuns' /\ ResultsInFile'
<1> USE DEF JournalInv, TakeRecord
<1>0. /\ r \in All /\ pc'[r] = "taken" /\ pc[r] = "ended" /\ up
      /\ \A y \in All : y # r => pc'[y] = pc[y]
  BY CallFrame DEF All
<1>1. NoEffectUnaccounted' /\ MemoryAccounts'
  BY UnsavedAccounts DEF Go
<1>2. EnteredBeforeExecution'
  BY <1>0, PastExecution DEF Active
<1>3. BetweenRuns'
  BY <1>0 DEF BetweenRuns, OutcomeKnown, PersistedAndComplete, Active, All
<1>4. ResultsInFile'
  <2>1. Snapshot(r).calls \subseteq Nested(r)
    BY DEF Snapshot
  <2>2. \A s \in Roots : summary'[s].calls \subseteq Nested(s)
    BY <2>1 DEF TypeOK, ResultsInFile
  <2>3. \A s \in Roots : s # r => summary'[s] = summary[s]
    BY DEF TypeOK
  <2>4. QED
    BY <1>0, <2>2, <2>3 DEF ResultsInFile, All, Nested
<1>5. QED
  BY <1>1, <1>2, <1>3, <1>4

LEMMA PersistInv ==
  ASSUME JournalInv, NEW r \in Roots, Persist(r) \/ PersistFails(r)
  PROVE  NoEffectUnaccounted' /\ MemoryAccounts' /\ EnteredBeforeExecution'
           /\ BetweenRuns' /\ ResultsInFile'
<1> USE DEF JournalInv, Persist, PersistFails
<1>0. /\ r \in All /\ pc'[r] \in { "stored", "lost" } /\ pc[r] = "taken" /\ up
      /\ \A y \in All : y # r => pc'[y] = pc[y]
  BY CallFrame DEF All
<1>f. file' = file \/ file' = Stored(r)
  OBVIOUS
<1>1. NoEffectUnaccounted' /\ MemoryAccounts'
  BY <1>0, <1>f, UnsavedAccounts DEF Go
<1>2. EnteredBeforeExecution'
  BY <1>0, PastExecution DEF Active
<1>3. BetweenRuns'
  <2>1. \A x \in All : OutcomeKnown(x) => OutcomeKnown(x)'
    BY <1>0, <1>f, KnownStays
  <2>2. mem.tools \subseteq All
    BY DEF TypeOK, Log
  <2>3. \A s \in Roots : pc'[s] \in Active => pc[s] \in Active
    BY <1>0 DEF Active, All
  <2>4. /\ run' = run /\ mem' = mem /\ ran' = ran /\ up' = up
        /\ fatal => fatal'
    OBVIOUS
  <2>5. QED
    BY <1>0, <2>1, <2>2, <2>3, <2>4 DEF BetweenRuns
<1>4. ResultsInFile'
  <2>1. \A s \in Roots : s # r => file'[s] = file[s]
    BY <1>f DEF Stored, TypeOK
  <2>2. pc'[r] = "stored" => Persist(r)
    <3>1. PersistFails(r) => Go(r, "taken", "lost")
      OBVIOUS
    <3>2. Go(r, "taken", "lost") => pc'[r] = "lost"
      BY <1>0, CallFrame
    <3>3. QED
      BY <3>1, <3>2
  <2>3. Persist(r) => file'[r].stored /\ file'[r].record = summary[r]
    BY DEF Stored, TypeOK
  <2>4. \A s \in Roots : s # r => pc'[s] = pc[s]
    BY <1>0 DEF All
  <2>5. summary' = summary
    OBVIOUS
  <2>6. QED
    <3>1. \A s \in Roots : Nested(s)' = Nested(s)
      BY DEF Nested
    <3>2. ASSUME NEW s \in Roots, s # r
          PROVE  pc'[s] = pc[s] /\ file'[s] = file[s] /\ summary'[s] = summary[s]
      BY <2>1, <2>4, <2>5, <3>2
    <3>3. summary'[r].calls \subseteq Nested(r)
      BY <2>5 DEF ResultsInFile
    <3>4. summary'[r] = summary[r]
      BY <2>5
    <3>5. QED
      BY <1>0, <2>2, <2>3, <3>1, <3>2, <3>3, <3>4 DEF ResultsInFile
<1>5. QED
  BY <1>1, <1>2, <1>3, <1>4

LEMMA ClearInv ==
  ASSUME JournalInv, NEW r \in Roots, Clear(r)
  PROVE  NoEffectUnaccounted' /\ MemoryAccounts' /\ EnteredBeforeExecution'
           /\ BetweenRuns' /\ ResultsInFile'
<1> USE DEF JournalInv, Clear
<1>0. /\ r \in All /\ pc'[r] \in { "cleared", "lost" } /\ pc[r] = "stored" /\ up
      /\ \A y \in All : y # r => pc'[y] = pc[y]
  BY CallFrame DEF All
<1>s. SaveOk(Cleared(r)) \/ SaveFails(Cleared(r))
  OBVIOUS
<1>1. NoEffectUnaccounted' /\ MemoryAccounts'
  BY <1>0, <1>s, SavesAccount, SaveAccounts
<1>a. \A y \in All : pc'[y] \in Active => pc[y] \in Active /\ y # r
  BY <1>0 DEF Active
<1>2. EnteredBeforeExecution'
  <2>1. \A y \in All : pc'[y] = "recorded" /\ pc'[Root(y)] \in Active =>
                        pc[y] = "recorded" /\ pc[Root(y)] \in Active
    BY <1>0, <1>a, RootType DEF All
  <2>2. HasEntered(mem)' /\ HasEntered(disk)'
    BY <1>0, <1>s, <2>1, SavesHaveEntered, SaveHasEntered
  <2>3. QED
    <3>1. \A y \in All : pc'[y] \in Active => pc'[Root(y)] # "idle"
      BY <1>0, <1>a, RootType DEF EnteredBeforeExecution, All
    <3>2. \A y \in ran : pc'[y] \notin { "idle", "begun", "recorded" }
      BY <1>0 DEF EnteredBeforeExecution, TypeOK
    <3>3. QED
      BY <2>2, <3>1, <3>2 DEF EnteredBeforeExecution
<1>3. BetweenRuns'
  <2>1. mem'.tools \subseteq mem.tools /\ mem'.active = mem.active
    BY <1>s DEF SaveOk, SaveFails, Cleared, TypeOK, Log
  <2>2. \A y : OutcomeKnown(y)' = OutcomeKnown(y)
    BY DEF OutcomeKnown, PersistedAndComplete
  <2>3. QED
    BY <1>0, <1>a, <2>1, <2>2 DEF BetweenRuns, All
<1>4. ResultsInFile'
  BY <1>0 DEF ResultsInFile, All
<1>5. QED
  BY <1>1, <1>2, <1>3, <1>4

LEMMA CrashInv ==
  ASSUME JournalInv, Crash
  PROVE  NoEffectUnaccounted' /\ MemoryAccounts' /\ EnteredBeforeExecution'
           /\ BetweenRuns' /\ ResultsInFile'
<1> USE DEF JournalInv, Crash
<1>0. \A x \in All : pc'[x] = IF pc[x] = "idle" THEN "idle" ELSE "lost"
  OBVIOUS
<1>1. NoEffectUnaccounted' /\ MemoryAccounts'
  BY DEF NoEffectUnaccounted, MemoryAccounts, Logged, OutcomeKnown,
         PersistedAndComplete
<1>2. EnteredBeforeExecution'
  BY <1>0 DEF EnteredBeforeExecution, HasEntered, Active, TypeOK
<1>3. BetweenRuns'
  BY <1>0 DEF BetweenRuns, Active, All
<1>4. ResultsInFile'
  BY <1>0 DEF ResultsInFile, All
<1>5. QED
  BY <1>1, <1>2, <1>3, <1>4

LEMMA ReopenInv ==
  ASSUME JournalInv, Reopen \/ ReopenFails
  PROVE  NoEffectUnaccounted' /\ MemoryAccounts' /\ EnteredBeforeExecution'
           /\ BetweenRuns' /\ ResultsInFile'
<1> USE DEF JournalInv, Reopen, ReopenFails
<1>s. SaveOk(Reconciled) \/ SaveFails(Reconciled)
  OBVIOUS
<1>1. NoEffectUnaccounted' /\ MemoryAccounts'
  <2>1. up' => up \/ mem' = disk'
    BY DEF SaveOk
  <2>2. QED
    BY <1>s, <2>1, SavesAccount, SaveAccounts
<1>2. EnteredBeforeExecution'
  <2>1. HasEntered(Reconciled)
    BY SavesHaveEntered DEF BetweenRuns
  <2>2. HasEntered(mem)' /\ HasEntered(disk)'
    BY <1>s, <2>1, SaveHasEntered
  <2>3. QED
    BY <2>2 DEF EnteredBeforeExecution
<1>3. BetweenRuns'
  BY DEF BetweenRuns, SaveOk, Reconciled
<1>4. ResultsInFile'
  BY DEF ResultsInFile
<1>5. QED
  BY <1>1, <1>2, <1>3, <1>4

LEMMA StepInv == JournalInv /\ [Next]_vars => JournalInv'
<1> SUFFICES ASSUME JournalInv, [Next]_vars
             PROVE  JournalInv'
  OBVIOUS
<1>t. TypeOK'
  BY TypeStep DEF JournalInv
<1> SUFFICES NoEffectUnaccounted' /\ MemoryAccounts' /\ EnteredBeforeExecution'
               /\ BetweenRuns' /\ ResultsInFile'
  BY <1>t DEF JournalInv
<1>1. CASE StartRun \/ FinishRun
  BY <1>1, StartRunInv, FinishRunInv
<1>2. ASSUME NEW x \in All, CallStep(x)
      PROVE  NoEffectUnaccounted' /\ MemoryAccounts' /\ EnteredBeforeExecution'
               /\ BetweenRuns' /\ ResultsInFile'
  <2>1. CASE Begin(x)
    BY <2>1, BeginInv
  <2>2. CASE Blocked(x)
    BY <2>2, EndInv
  <2>3. CASE RecordStart(x)
    BY <2>3, RecordStartInv
  <2>4. CASE Execute(x)
    BY <2>4, ExecuteInv
  <2>5. CASE Return(x)
    BY <2>5, EndInv
  <2>6. QED
    BY <1>2, <2>1, <2>2, <2>3, <2>4, <2>5 DEF CallStep
<1>3. ASSUME NEW c \in Calls, RecorderFinish(c)
      PROVE  NoEffectUnaccounted' /\ MemoryAccounts' /\ EnteredBeforeExecution'
               /\ BetweenRuns' /\ ResultsInFile'
  <2>1. c \in All
    BY DEF All
  <2>2. QED
    BY <1>3, <2>1, EndInv
<1>4. ASSUME NEW r \in Roots, ResultStep(r)
      PROVE  NoEffectUnaccounted' /\ MemoryAccounts' /\ EnteredBeforeExecution'
               /\ BetweenRuns' /\ ResultsInFile'
  <2>1. CASE TakeRecord(r)
    BY <2>1, TakeRecordInv
  <2>2. CASE Persist(r) \/ PersistFails(r)
    BY <2>2, PersistInv
  <2>3. CASE Clear(r)
    BY <2>3, ClearInv
  <2>4. QED
    BY <1>4, <2>1, <2>2, <2>3 DEF ResultStep
<1>5. CASE Crash \/ Reopen \/ ReopenFails
  BY <1>5, CrashInv, ReopenInv
<1>6. CASE UNCHANGED vars
  BY <1>6
     DEF vars, JournalInv, NoEffectUnaccounted, MemoryAccounts, Accounts,
         EnteredBeforeExecution, HasEntered, BetweenRuns, ResultsInFile, Logged,
         OutcomeKnown, PersistedAndComplete
<1>7. QED
  BY <1>1, <1>2, <1>3, <1>4, <1>5, <1>6 DEF Next

-----------------------------------------------------------------------------
(* The theorems.                                                           *)

\* Memory, disk, session file and the calls under way fit together as the
\* inductive invariant says.
THEOREM InvHolds == Spec => []JournalInv
<1>1. QED
  BY InitInv, StepInv, PTL DEF Spec

\* Every variable stays in its type (the log and the session file as
\* execution_log.rs and session_store.rs write them).
THEOREM TypeCorrect == Spec => []TypeOK
<1>1. JournalInv => TypeOK
  BY DEF JournalInv
<1>2. QED
  BY <1>1, InvHolds, PTL

\* At every moment, so also when the process dies, a call that executed is in
\* the log on disk or its outcome is in the session file: the order in which
\* handle_before_tool_call, handle_finalize_message and finish_run write.
THEOREM EffectsAccounted == Spec => []NoEffectUnaccounted
<1>1. JournalInv => NoEffectUnaccounted
  BY DEF JournalInv
<1>2. QED
  BY <1>1, InvHolds, PTL

LEMMA ReopenReports ==
  JournalInv /\ [Next]_vars =>
    [~up /\ up' => { x \in ran : ~OutcomeKnown(x) } \subseteq report']_vars
<1> SUFFICES ASSUME JournalInv, Next, ~up, up'
             PROVE  { x \in ran : ~OutcomeKnown(x) } \subseteq report'
  OBVIOUS
<1>1. Reopen
  <2>1. ~(StartRun \/ FinishRun \/ Crash \/ ReopenFails)
    BY DEF StartRun, FinishRun, Crash, ReopenFails
  <2>2. ~\E x \in All : CallStep(x)
    BY DEF CallStep, Begin, Blocked, RecordStart, Execute, Return, Go
  <2>3. ~\E c \in Calls : RecorderFinish(c)
    BY DEF RecorderFinish, Go
  <2>4. ~\E r \in Roots : ResultStep(r)
    BY DEF ResultStep, TakeRecord, Persist, PersistFails, Clear, Go
  <2>5. QED
    BY <2>1, <2>2, <2>3, <2>4 DEF Next
<1>2. report' = Logged(Reconciled)
  BY <1>1 DEF Reopen, Logged, Reconciled
<1>3. QED
  BY <1>2, SavesAccount DEF Accounts

\* Every start-up reports every executed call whose outcome is not in the
\* session file (reconcile_on_startup).
THEOREM StartsReport == Spec => EveryStartReports
<1>1. QED
  BY InvHolds, ReopenReports, PTL DEF Spec, EveryStartReports

-----------------------------------------------------------------------------
(* The double loop.  LoopInv (AgentLoop) is inductive.  What the agent     *)
(* holds is one sequence of five parts, and a step moves messages between  *)
(* neighbouring parts, empties parts or puts a new message where nothing   *)
(* of its queue follows.  The one step that lets messages overtake others  *)
(* takes follow-ups past steering messages, which are not of their queue:  *)
(* that is why each queue's kind is part of the invariant.  To bound the   *)
(* steering messages of a turn it takes what each place of the loop may    *)
(* have polled already; that the events nest takes the frame that belongs  *)
(* to each place and the agent's record of what is out.                    *)

Fit(k, m, n) ==
  /\ m # n
  /\ k[m] = k[n] /\ k[m] \in { "steering", "followUp" } => m < n

InOrder(k, s) == \A i, j \in DOMAIN s : i < j => Fit(k, s[i], s[j])
Before(k, A, B) == \A m \in A, n \in B : Fit(k, m, n)

LEMMA ElemsOfConcat ==
  ASSUME NEW S, NEW s \in Seq(S), NEW t \in Seq(S)
  PROVE  /\ s \o t \in Seq(S)
         /\ L!Elems(s \o t) = L!Elems(s) \cup L!Elems(t)
<1>1. PICK u \in Seq(S) : u = s \o t
  BY ConcatProperties, ZenonT(40)
<1>2. /\ Len(u) = Len(s) + Len(t)
      /\ \A i \in 1 .. Len(s) : u[i] = s[i]
      /\ \A i \in 1 .. Len(t) : u[i + Len(s)] = t[i]
  BY <1>1, ConcatProperties
<1>3. L!Elems(u) \subseteq L!Elems(s) \cup L!Elems(t)
  <2> SUFFICES ASSUME NEW i \in 1 .. Len(u)
               PROVE  u[i] \in L!Elems(s) \cup L!Elems(t)
    BY SMTT(30) DEF L!Elems
  <2>1. CASE i \in 1 .. Len(s)
    BY <1>2, <2>1 DEF L!Elems
  <2>2. CASE i - Len(s) \in 1 .. Len(t)
    <3>1. u[i] = t[i - Len(s)]
      BY <1>2, <2>2
    <3>2. QED
      BY <2>2, <3>1 DEF L!Elems
  <2>3. QED
    BY <1>2, <2>1, <2>2
<1>4. L!Elems(s) \cup L!Elems(t) \subseteq L!Elems(u)
  <2>1. ASSUME NEW i \in 1 .. Len(s)
        PROVE  s[i] \in L!Elems(u)
    BY <1>2 DEF L!Elems
  <2>2. ASSUME NEW i \in 1 .. Len(t)
        PROVE  t[i] \in L!Elems(u)
    <3>1. i + Len(s) \in 1 .. Len(u) /\ u[i + Len(s)] = t[i]
      BY <1>2
    <3>2. QED
      BY <3>1 DEF L!Elems
  <2>3. QED
    BY <2>1, <2>2, SMTT(30) DEF L!Elems
<1>5. QED
  BY <1>1, <1>3, <1>4, ZenonT(40)

LEMMA InOrderConcat ==
  ASSUME NEW k, NEW S, NEW s \in Seq(S), NEW t \in Seq(S)
  PROVE  InOrder(k, s \o t) <=>
           InOrder(k, s) /\ InOrder(k, t) /\ Before(k, L!Elems(s), L!Elems(t))
<1>1. PICK u \in Seq(S) : u = s \o t
  BY ConcatProperties, ZenonT(40)
<1>2. /\ Len(u) = Len(s) + Len(t)
      /\ \A i \in 1 .. Len(s) : u[i] = s[i]
      /\ \A i \in 1 .. Len(t) : u[i + Len(s)] = t[i]
  BY <1>1, ConcatProperties
<1>3. ASSUME InOrder(k, u)
      PROVE  InOrder(k, s) /\ InOrder(k, t) /\ Before(k, L!Elems(s), L!Elems(t))
  <2>1. ASSUME NEW i \in 1 .. Len(s), NEW j \in 1 .. Len(s), i < j
        PROVE  Fit(k, s[i], s[j])
    BY <1>2, <1>3, <2>1, SMTT(30) DEF InOrder
  <2>2. ASSUME NEW i \in 1 .. Len(t), NEW j \in 1 .. Len(t), i < j
        PROVE  Fit(k, t[i], t[j])
    <3>1. /\ i + Len(s) \in 1 .. Len(u) /\ j + Len(s) \in 1 .. Len(u)
          /\ i + Len(s) < j + Len(s)
          /\ u[i + Len(s)] = t[i] /\ u[j + Len(s)] = t[j]
      BY <1>2, <2>2
    <3>2. QED
      BY <1>3, <3>1 DEF InOrder
  <2>3. ASSUME NEW i \in 1 .. Len(s), NEW j \in 1 .. Len(t)
        PROVE  Fit(k, s[i], t[j])
    <3>1. /\ i \in 1 .. Len(u) /\ j + Len(s) \in 1 .. Len(u)
          /\ i < j + Len(s)
          /\ u[i] = s[i] /\ u[j + Len(s)] = t[j]
      BY <1>2
    <3>2. QED
      BY <1>3, <3>1 DEF InOrder
  <2>4. InOrder(k, s) /\ InOrder(k, t)
    <3>1. DOMAIN s = 1 .. Len(s) /\ DOMAIN t = 1 .. Len(t)
      OBVIOUS
    <3>2. InOrder(k, s)
      BY <2>1, <3>1, ZenonT(40) DEF InOrder
    <3>3. InOrder(k, t)
      BY <2>2, <3>1, ZenonT(40) DEF InOrder
    <3>4. QED
      BY <3>2, <3>3
  <2>5. Before(k, L!Elems(s), L!Elems(t))
    BY <2>3, SMTT(30) DEF Before, L!Elems
  <2>6. QED
    BY <2>4, <2>5
<1>4. ASSUME InOrder(k, s), InOrder(k, t), Before(k, L!Elems(s), L!Elems(t))
      PROVE  InOrder(k, u)
  <2> SUFFICES ASSUME NEW i \in 1 .. Len(u), NEW j \in 1 .. Len(u), i < j
               PROVE  Fit(k, u[i], u[j])
    BY DEF InOrder
  <2>1. CASE j \in 1 .. Len(s)
    BY <1>2, <1>4, <2>1 DEF InOrder
  <2>2. CASE i - Len(s) \in 1 .. Len(t)
    <3>1. j - Len(s) \in 1 .. Len(t) /\ i - Len(s) < j - Len(s)
      BY <1>2, <2>2
    <3>2. u[(i - Len(s)) + Len(s)] = t[i - Len(s)]
      BY <1>2, <2>2
    <3>3. u[(j - Len(s)) + Len(s)] = t[j - Len(s)]
      BY <1>2, <3>1
    <3>4. (i - Len(s)) + Len(s) = i /\ (j - Len(s)) + Len(s) = j
      OBVIOUS
    <3>5. Fit(k, t[i - Len(s)], t[j - Len(s)])
      BY <1>4, <2>2, <3>1 DEF InOrder
    <3>6. QED
      BY <3>2, <3>3, <3>4, <3>5
  <2>3. CASE i \in 1 .. Len(s) /\ j - Len(s) \in 1 .. Len(t)
    <3>1. u[i] = s[i] /\ u[j] = t[j - Len(s)]
      BY <1>2, <2>3
    <3>2. QED
      BY <1>4, <2>3, <3>1 DEF Before, L!Elems
  <2>4. QED
    BY <1>2, <2>1, <2>2, <2>3
<1>5. QED
  BY <1>1, <1>3, <1>4, ZenonT(40)

LEMMA BeforeUnion ==
  ASSUME NEW k, NEW A, NEW B, NEW C
  PROVE  Before(k, A \cup B, C) <=> Before(k, A, C) /\ Before(k, B, C)
BY DEF Before

\* The five places of messages and what they hold together.
Five(c, d, p, s, g) == c \o d \o p \o s \o g

LEMMA ElemsOfFive ==
  ASSUME NEW S, NEW c \in Seq(S), NEW d \in Seq(S), NEW p \in Seq(S),
         NEW s \in Seq(S), NEW g \in Seq(S)
  PROVE  /\ Five(c, d, p, s, g) \in Seq(S)
         /\ L!Elems(Five(c, d, p, s, g)) =
              L!Elems(c) \cup L!Elems(d) \cup L!Elems(p) \cup L!Elems(s)
                \cup L!Elems(g)
<1>1. PICK x \in Seq(S) : x = c \o d /\ L!Elems(x) = L!Elems(c) \cup L!Elems(d)
  BY ElemsOfConcat, ZenonT(40)
<1>2. PICK y \in Seq(S) : y = x \o p /\ L!Elems(y) = L!Elems(x) \cup L!Elems(p)
  BY ElemsOfConcat, ZenonT(40)
<1>3. PICK z \in Seq(S) : z = y \o s /\ L!Elems(z) = L!Elems(y) \cup L!Elems(s)
  BY ElemsOfConcat, ZenonT(40)
<1>4. z \o g \in Seq(S) /\ L!Elems(z \o g) = L!Elems(z) \cup L!Elems(g)
  BY ElemsOfConcat, ZenonT(40)
<1>5. QED
  BY <1>1, <1>2, <1>3, <1>4, ZenonT(40) DEF Five

LEMMA OrderOfFive ==
  ASSUME NEW k, NEW S, NEW c \in Seq(S), NEW d \in Seq(S), NEW p \in Seq(S),
         NEW s \in Seq(S), NEW g \in Seq(S)
  PROVE  InOrder(k, Five(c, d, p, s, g)) <=>
              /\ InOrder(k, c) /\ InOrder(k, d) /\ InOrder(k, p)
              /\ InOrder(k, s) /\ InOrder(k, g)
              /\ Before(k, L!Elems(c), L!Elems(d))
              /\ Before(k, L!Elems(c), L!Elems(p)) /\ Before(k, L!Elems(d), L!Elems(p))
              /\ Before(k, L!Elems(c), L!Elems(s)) /\ Before(k, L!Elems(d), L!Elems(s))
              /\ Before(k, L!Elems(p), L!Elems(s))
              /\ Before(k, L!Elems(c), L!Elems(g)) /\ Before(k, L!Elems(d), L!Elems(g))
              /\ Before(k, L!Elems(p), L!Elems(g)) /\ Before(k, L!Elems(s), L!Elems(g))
<1>1. PICK x \in Seq(S) : x = c \o d /\ L!Elems(x) = L!Elems(c) \cup L!Elems(d)
  BY ElemsOfConcat, ZenonT(40)
<1>2. PICK y \in Seq(S) : y = x \o p /\ L!Elems(y) = L!Elems(x) \cup L!Elems(p)
  BY ElemsOfConcat, ZenonT(40)
<1>3. PICK z \in Seq(S) : z = y \o s /\ L!Elems(z) = L!Elems(y) \cup L!Elems(s)
  BY ElemsOfConcat, ZenonT(40)
<1>5. InOrder(k, x) <=> InOrder(k, c) /\ InOrder(k, d) /\ Before(k, L!Elems(c), L!Elems(d))
  BY <1>1, InOrderConcat, ZenonT(40)
<1>6. InOrder(k, y) <=> /\ InOrder(k, x) /\ InOrder(k, p)
                        /\ Before(k, L!Elems(c), L!Elems(p))
                        /\ Before(k, L!Elems(d), L!Elems(p))
  BY <1>1, <1>2, InOrderConcat, BeforeUnion, ZenonT(40)
<1>a. Before(k, L!Elems(y), L!Elems(s)) <=>
        /\ Before(k, L!Elems(c), L!Elems(s)) /\ Before(k, L!Elems(d), L!Elems(s))
        /\ Before(k, L!Elems(p), L!Elems(s))
  BY <1>1, <1>2, BeforeUnion, ZenonT(40)
<1>b. Before(k, L!Elems(z), L!Elems(g)) <=>
        /\ Before(k, L!Elems(y), L!Elems(g)) /\ Before(k, L!Elems(s), L!Elems(g))
  BY <1>3, BeforeUnion, ZenonT(40)
<1>c. Before(k, L!Elems(y), L!Elems(g)) <=>
        /\ Before(k, L!Elems(c), L!Elems(g)) /\ Before(k, L!Elems(d), L!Elems(g))
        /\ Before(k, L!Elems(p), L!Elems(g))
  BY <1>1, <1>2, BeforeUnion, ZenonT(40)
<1>7. InOrder(k, z) <=> /\ InOrder(k, y) /\ InOrder(k, s)
                        /\ Before(k, L!Elems(c), L!Elems(s))
                        /\ Before(k, L!Elems(d), L!Elems(s))
                        /\ Before(k, L!Elems(p), L!Elems(s))
  BY <1>3, <1>a, InOrderConcat, ZenonT(40)
<1>8. InOrder(k, z \o g) <=> /\ InOrder(k, z) /\ InOrder(k, g)
                        /\ Before(k, L!Elems(c), L!Elems(g))
                        /\ Before(k, L!Elems(d), L!Elems(g))
                        /\ Before(k, L!Elems(p), L!Elems(g))
                        /\ Before(k, L!Elems(s), L!Elems(g))
  BY <1>b, <1>c, InOrderConcat, ZenonT(40)
<1>9. Five(c, d, p, s, g) = z \o g
  BY <1>1, <1>2, <1>3, ZenonT(40) DEF Five
<1>10. QED
  BY <1>5, <1>6, <1>7, <1>8, <1>9, ZenonT(40)

LEMMA TakenThenLeft ==
  ASSUME NEW S, NEW q \in Seq(S), NEW mode
  PROVE  /\ L!Taken(q, mode) \in Seq(S) /\ L!Left(q, mode) \in Seq(S)
         /\ L!Taken(q, mode) \o L!Left(q, mode) = q
         /\ L!Elems(q) = L!Elems(L!Taken(q, mode)) \cup L!Elems(L!Left(q, mode))
         /\ mode = "one-at-a-time" =>
              \A m, n \in L!Elems(L!Taken(q, mode)) : m = n
<1>e. << >> \in Seq(S) /\ L!Elems(<< >>) = { }
  BY DEF L!Elems
<1>1. CASE q = << >>
  BY <1>e, <1>1, EmptyUnit DEF L!Taken, L!Left
<1>2. CASE q # << >> /\ mode = "all"
  BY <1>e, <1>2, EmptyUnit DEF L!Taken, L!Left
<1>3. CASE q # << >> /\ mode # "all"
  <2>1. L!Taken(q, mode) = << Head(q) >> /\ L!Left(q, mode) = Tail(q)
    BY <1>3 DEF L!Taken, L!Left
  <2>2. << Head(q) >> \in Seq(S) /\ Tail(q) \in Seq(S) /\ q = << Head(q) >> \o Tail(q)
    BY <1>3, HeadThenTail
  <2>3. L!Elems(<< Head(q) >> \o Tail(q)) = L!Elems(<< Head(q) >>) \cup L!Elems(Tail(q))
    BY <2>2, ElemsOfConcat, ZenonT(40)
  <2>4. \A m, n \in L!Elems(<< Head(q) >>) : m = n
    BY DEF L!Elems
  <2>5. QED
    BY <2>1, <2>2, <2>3, <2>4, ZenonT(40)
<1>4. QED
  BY <1>1, <1>2, <1>3

\* Messages that were handed over before another have the kinds they had.
LEMMA OlderFit ==
  ASSUME NEW k \in Seq(L!Kinds), NEW x \in L!Kinds,
         NEW m \in 1 .. Len(k), NEW n \in 1 .. Len(k)
  PROVE  Fit(Append(k, x), m, n) <=> Fit(k, m, n)
BY DEF Fit

LEMMA OlderOrder ==
  ASSUME NEW k \in Seq(L!Kinds), NEW x \in L!Kinds,
         NEW s \in Seq(Nat), L!Elems(s) \subseteq 1 .. Len(k)
  PROVE  InOrder(Append(k, x), s) <=> InOrder(k, s)
<1>1. \A i \in DOMAIN s : s[i] \in 1 .. Len(k)
  BY DEF L!Elems
<1>2. \A i, j \in DOMAIN s : Fit(Append(k, x), s[i], s[j]) <=> Fit(k, s[i], s[j])
  BY <1>1, OlderFit
<1>3. QED
  BY <1>2 DEF InOrder

LEMMA OlderBefore ==
  ASSUME NEW k \in Seq(L!Kinds), NEW x \in L!Kinds,
         NEW A \in SUBSET (1 .. Len(k)), NEW B \in SUBSET (1 .. Len(k))
  PROVE  Before(Append(k, x), A, B) <=> Before(k, A, B)
BY OlderFit DEF Before

\* What is promised of all messages: h are held, D cleared and X lost.
Orderly(k, h, D, X) ==
  /\ L!Elems(h) \cup D \cup X = 1 .. Len(k)
  /\ L!Elems(h) \cap (D \cup X) = { }
  /\ D \cap X = { }
  /\ InOrder(k, h)

\* A new message may enter where no message of its queue follows.
LEMMA HandedOver ==
  ASSUME NEW k \in Seq(L!Kinds), NEW x \in L!Kinds, NEW D, NEW X,
         NEW u \in Seq(Nat), NEW v \in Seq(Nat),
         Orderly(k, u \o v, D, X),
         x \in { "steering", "followUp" } => \A m \in L!Elems(v) : k[m] # x
  PROVE  Orderly(Append(k, x), Append(u, Len(k) + 1) \o v, D, X)
<1> DEFINE n == Len(k) + 1
<1> DEFINE j == Append(k, x)
<1>0. /\ L!Elems(u \o v) = L!Elems(u) \cup L!Elems(v)
  BY ElemsOfConcat, ZenonT(40)
<1>1. InOrder(k, u) /\ InOrder(k, v) /\ Before(k, L!Elems(u), L!Elems(v))
  BY InOrderConcat, ZenonT(40) DEF Orderly
<1>2. L!Elems(u) \subseteq 1 .. Len(k) /\ L!Elems(v) \subseteq 1 .. Len(k)
  BY <1>0 DEF Orderly
<1>3. /\ n \in Nat /\ Len(j) = n /\ j[n] = x /\ 1 .. n = (1 .. Len(k)) \cup { n }
      /\ n \notin 1 .. Len(k) /\ \A m \in 1 .. Len(k) : j[m] = k[m] /\ m < n
  OBVIOUS
<1>4. PICK o \in Seq(Nat) : o = << n >> /\ L!Elems(o) = { n } /\ InOrder(j, o)
  <2>1. << n >> \in Seq(Nat) /\ L!Elems(<< n >>) = { n } /\ InOrder(j, << n >>)
    BY <1>3 DEF L!Elems, InOrder
  <2>2. QED
    BY <2>1, ZenonT(40)
<1>5. Append(u, n) = u \o o
  BY <1>3, <1>4, AppendIsConcat
<1> HIDE DEF n, j
<1>6. PICK w1 \in Seq(Nat) : w1 = u \o o /\ L!Elems(w1) = L!Elems(u) \cup { n }
  <2>1. u \o o \in Seq(Nat) /\ L!Elems(u \o o) = L!Elems(u) \cup L!Elems(o)
    BY ElemsOfConcat, ZenonT(40)
  <2>2. L!Elems(o) = { n }
    BY <1>4
  <2>3. QED
    BY <2>1, <2>2, ZenonT(40)
<1>7. L!Elems(w1 \o v) = (L!Elems(u) \cup { n }) \cup L!Elems(v)
  <2>1. L!Elems(w1 \o v) = L!Elems(w1) \cup L!Elems(v)
    BY ElemsOfConcat, ZenonT(40)
  <2>2. QED
    BY <1>6, <2>1, ZenonT(40)
<1>8. Before(j, L!Elems(u), { n })
  BY <1>2, <1>3 DEF Before, Fit
<1>9. Before(j, { n }, L!Elems(v))
  BY <1>2, <1>3 DEF Before, Fit
<1>10. Before(j, L!Elems(u), L!Elems(v)) /\ InOrder(j, u) /\ InOrder(j, v)
  BY <1>1, <1>2, OlderBefore, OlderOrder DEF j
<1>11. InOrder(j, w1)
  BY <1>4, <1>6, <1>8, <1>10, InOrderConcat, ZenonT(60)
<1>12. Before(j, L!Elems(w1), L!Elems(v))
  BY <1>6, <1>9, <1>10, BeforeUnion, ZenonT(40)
<1>13. InOrder(j, w1 \o v)
  BY <1>10, <1>11, <1>12, InOrderConcat, ZenonT(40)
<1>14. Orderly(j, w1 \o v, D, X)
  <2>1. n \notin D \cup X
    BY <1>3 DEF Orderly
  <2>2. L!Elems(w1 \o v) \cup D \cup X = 1 .. Len(j)
    BY <1>0, <1>3, <1>7 DEF Orderly
  <2>3. L!Elems(w1 \o v) \cap (D \cup X) = { }
    BY <1>0, <1>7, <2>1 DEF Orderly
  <2>4. QED
    BY <1>13, <2>2, <2>3 DEF Orderly
<1>15. Append(u, n) \o v = w1 \o v
  BY <1>5, <1>6, ZenonT(40)
<1>16. QED
  BY <1>14, <1>15 DEF n, j

LEMMA BeforeApart == \A k, A, B : Before(k, A, B) => A \cap B = { }
BY DEF Before, Fit

\* What is left of a sequence when it is emptied, or is not.
Remains(k, r, s) ==
  /\ r \in Seq(Nat)
  /\ L!Elems(r) \subseteq L!Elems(s)
  /\ InOrder(k, s) => InOrder(k, r)

LEMMA EmptiedOrNot ==
  ASSUME NEW k, NEW s \in Seq(Nat)
  PROVE  Remains(k, s, s) /\ Remains(k, << >>, s)
BY DEF Remains, L!Elems, InOrder

\* Of the five places, the last four may be emptied; what they had is gone.
LEMMA Emptied ==
  ASSUME NEW k, NEW c \in Seq(Nat), NEW d \in Seq(Nat), NEW p \in Seq(Nat),
         NEW s \in Seq(Nat), NEW g \in Seq(Nat), NEW D, NEW X,
         Orderly(k, Five(c, d, p, s, g), D, X),
         NEW d1, Remains(k, d1, d), NEW p1, Remains(k, p1, p),
         NEW s1, Remains(k, s1, s), NEW g1, Remains(k, g1, g),
         NEW D1, NEW X1, D1 \cap X1 = { },
         D1 \cup X1 = D \cup X \cup (L!Elems(d) \ L!Elems(d1))
                       \cup (L!Elems(p) \ L!Elems(p1))
                       \cup (L!Elems(s) \ L!Elems(s1))
                       \cup (L!Elems(g) \ L!Elems(g1))
  PROVE  Orderly(k, Five(c, d1, p1, s1, g1), D1, X1)
<1>1. /\ d1 \in Seq(Nat) /\ p1 \in Seq(Nat) /\ s1 \in Seq(Nat) /\ g1 \in Seq(Nat)
      /\ L!Elems(d1) \subseteq L!Elems(d) /\ L!Elems(p1) \subseteq L!Elems(p)
      /\ L!Elems(s1) \subseteq L!Elems(s) /\ L!Elems(g1) \subseteq L!Elems(g)
      /\ InOrder(k, d) => InOrder(k, d1)
      /\ InOrder(k, p) => InOrder(k, p1)
      /\ InOrder(k, s) => InOrder(k, s1)
      /\ InOrder(k, g) => InOrder(k, g1)
  BY DEF Remains
<1>2. PICK Ec, Ed, Ep, Es, Eg :
        /\ Ec = L!Elems(c) /\ Ed = L!Elems(d) /\ Ep = L!Elems(p)
        /\ Es = L!Elems(s) /\ Eg = L!Elems(g)
  OBVIOUS
<1>3. PICK Fd, Fp, Fs, Fg :
        /\ Fd = L!Elems(d1) /\ Fp = L!Elems(p1)
        /\ Fs = L!Elems(s1) /\ Fg = L!Elems(g1)
        /\ Fd \subseteq Ed /\ Fp \subseteq Ep
        /\ Fs \subseteq Es /\ Fg \subseteq Eg
  BY <1>1, <1>2
<1>4. /\ L!Elems(Five(c, d, p, s, g)) = Ec \cup Ed \cup Ep \cup Es \cup Eg
      /\ L!Elems(Five(c, d1, p1, s1, g1)) = Ec \cup Fd \cup Fp \cup Fs \cup Fg
  <2>1. L!Elems(Five(c, d, p, s, g)) =
          L!Elems(c) \cup L!Elems(d) \cup L!Elems(p) \cup L!Elems(s) \cup L!Elems(g)
    BY ElemsOfFive
  <2>2. L!Elems(Five(c, d1, p1, s1, g1)) =
          L!Elems(c) \cup L!Elems(d1) \cup L!Elems(p1) \cup L!Elems(s1) \cup L!Elems(g1)
    BY <1>1, ElemsOfFive
  <2>3. QED
    BY <1>2, <1>3, <2>1, <2>2, ZenonT(40)
<1>5. /\ InOrder(k, c) /\ InOrder(k, d) /\ InOrder(k, p) /\ InOrder(k, s)
      /\ InOrder(k, g)
      /\ Before(k, Ec, Ed) /\ Before(k, Ec, Ep) /\ Before(k, Ed, Ep)
      /\ Before(k, Ec, Es) /\ Before(k, Ed, Es) /\ Before(k, Ep, Es)
      /\ Before(k, Ec, Eg) /\ Before(k, Ed, Eg) /\ Before(k, Ep, Eg)
      /\ Before(k, Es, Eg)
  <2>1. InOrder(k, Five(c, d, p, s, g))
    BY DEF Orderly
  <2>2. /\ InOrder(k, c) /\ InOrder(k, d) /\ InOrder(k, p)
        /\ InOrder(k, s) /\ InOrder(k, g)
        /\ Before(k, L!Elems(c), L!Elems(d))
        /\ Before(k, L!Elems(c), L!Elems(p)) /\ Before(k, L!Elems(d), L!Elems(p))
        /\ Before(k, L!Elems(c), L!Elems(s)) /\ Before(k, L!Elems(d), L!Elems(s))
        /\ Before(k, L!Elems(p), L!Elems(s))
        /\ Before(k, L!Elems(c), L!Elems(g)) /\ Before(k, L!Elems(d), L!Elems(g))
        /\ Before(k, L!Elems(p), L!Elems(g)) /\ Before(k, L!Elems(s), L!Elems(g))
    BY <2>1, OrderOfFive
  <2>3. QED
    BY <1>2, <2>2, ZenonT(40)
<1>6. \A A, B, Y, Z : Before(k, A, B) /\ Y \subseteq A /\ Z \subseteq B => Before(k, Y, Z)
  BY DEF Before
<1>7. Fd \subseteq Ed /\ Fp \subseteq Ep /\ Fs \subseteq Es /\ Fg \subseteq Eg
  BY <1>3
<1>8. /\ Before(k, Ec, Fd) /\ Before(k, Ec, Fp) /\ Before(k, Fd, Fp)
      /\ Before(k, Ec, Fs) /\ Before(k, Fd, Fs) /\ Before(k, Fp, Fs)
      /\ Before(k, Ec, Fg) /\ Before(k, Fd, Fg) /\ Before(k, Fp, Fg)
      /\ Before(k, Fs, Fg)
  BY <1>5, <1>6, <1>7
<1>9. InOrder(k, Five(c, d1, p1, s1, g1))
  <2>1. /\ InOrder(k, c) /\ InOrder(k, d1) /\ InOrder(k, p1)
        /\ InOrder(k, s1) /\ InOrder(k, g1)
    BY <1>1, <1>5
  <2>2. /\ Before(k, L!Elems(c), L!Elems(d1))
        /\ Before(k, L!Elems(c), L!Elems(p1)) /\ Before(k, L!Elems(d1), L!Elems(p1))
        /\ Before(k, L!Elems(c), L!Elems(s1)) /\ Before(k, L!Elems(d1), L!Elems(s1))
        /\ Before(k, L!Elems(p1), L!Elems(s1))
        /\ Before(k, L!Elems(c), L!Elems(g1)) /\ Before(k, L!Elems(d1), L!Elems(g1))
        /\ Before(k, L!Elems(p1), L!Elems(g1)) /\ Before(k, L!Elems(s1), L!Elems(g1))
    BY <1>2, <1>3, <1>8, ZenonT(40)
  <2>3. QED
    BY <1>1, <2>1, <2>2, OrderOfFive
<1>10. /\ Ec \cap Ed = { } /\ Ec \cap Ep = { } /\ Ed \cap Ep = { }
       /\ Ec \cap Es = { } /\ Ed \cap Es = { } /\ Ep \cap Es = { }
       /\ Ec \cap Eg = { } /\ Ed \cap Eg = { } /\ Ep \cap Eg = { }
       /\ Es \cap Eg = { }
  BY <1>5, BeforeApart
<1>11. PICK R : /\ R = (Ed \ Fd) \cup (Ep \ Fp) \cup (Es \ Fs) \cup (Eg \ Fg)
                /\ D1 \cup X1 = (D \cup X) \cup R
  <2>1. D1 \cup X1 = D \cup X \cup (Ed \ Fd) \cup (Ep \ Fp) \cup (Es \ Fs) \cup (Eg \ Fg)
    BY <1>2, <1>3, ZenonT(40)
  <2>2. D1 \cup X1 = (D \cup X) \cup
                    ((Ed \ Fd) \cup (Ep \ Fp) \cup (Es \ Fs) \cup (Eg \ Fg))
    BY <2>1
  <2>3. QED
    BY <2>2, ZenonT(40)
<1>12. /\ (Ec \cup Fd \cup Fp \cup Fs \cup Fg) \cup R = Ec \cup Ed \cup Ep \cup Es \cup Eg
       /\ (Ec \cup Fd \cup Fp \cup Fs \cup Fg) \cap R = { }
  BY <1>7, <1>10, <1>11
<1>13. PICK E, Y : /\ E = Ec \cup Ed \cup Ep \cup Es \cup Eg
                   /\ Y = Ec \cup Fd \cup Fp \cup Fs \cup Fg
                   /\ Y \cup R = E /\ Y \cap R = { }
  BY <1>12
<1>14. E \cup D \cup X = 1 .. Len(k) /\ E \cap (D \cup X) = { }
  BY <1>4, <1>13 DEF Orderly
<1>15. Y \cup D1 \cup X1 = 1 .. Len(k) /\ Y \cap (D1 \cup X1) = { }
  BY <1>11, <1>13, <1>14
<1>16. QED
  BY <1>4, <1>9, <1>13, <1>15 DEF Orderly

\* Follow-ups may go before steering messages: they are not of one queue.
LEMMA FollowUpsFirst ==
  ASSUME NEW k, NEW c \in Seq(Nat), NEW d \in Seq(Nat), NEW p \in Seq(Nat),
         NEW s \in Seq(Nat), NEW u \in Seq(Nat), NEW D, NEW X,
         Orderly(k, Five(c, d, p, s, u), D, X),
         NEW t \in Seq(Nat), NEW g \in Seq(Nat),
         L!Elems(p) = { },
         L!Elems(u) = L!Elems(t) \cup L!Elems(g),
         InOrder(k, u) => /\ InOrder(k, t) /\ InOrder(k, g)
                          /\ Before(k, L!Elems(t), L!Elems(g)),
         \A m \in L!Elems(s) : k[m] = "steering",
         \A m \in L!Elems(t) : k[m] = "followUp"
  PROVE  Orderly(k, Five(c, d, t, s, g), D, X)
<1>1. InOrder(k, Five(c, d, p, s, u))
  BY DEF Orderly
<1>2. /\ InOrder(k, c) /\ InOrder(k, d) /\ InOrder(k, p)
      /\ InOrder(k, s) /\ InOrder(k, u)
      /\ Before(k, L!Elems(c), L!Elems(d))
      /\ Before(k, L!Elems(c), L!Elems(p)) /\ Before(k, L!Elems(d), L!Elems(p))
      /\ Before(k, L!Elems(c), L!Elems(s)) /\ Before(k, L!Elems(d), L!Elems(s))
      /\ Before(k, L!Elems(p), L!Elems(s))
      /\ Before(k, L!Elems(c), L!Elems(u)) /\ Before(k, L!Elems(d), L!Elems(u))
      /\ Before(k, L!Elems(p), L!Elems(u)) /\ Before(k, L!Elems(s), L!Elems(u))
  BY <1>1, OrderOfFive
<1>3. /\ Before(k, L!Elems(c), L!Elems(t)) /\ Before(k, L!Elems(d), L!Elems(t))
      /\ Before(k, L!Elems(c), L!Elems(g)) /\ Before(k, L!Elems(d), L!Elems(g))
      /\ Before(k, L!Elems(s), L!Elems(g)) /\ Before(k, L!Elems(s), L!Elems(t))
  BY <1>2 DEF Before
<1>4. Before(k, L!Elems(t), L!Elems(s))
  BY <1>3 DEF Before, Fit
<1>5. /\ InOrder(k, t) /\ InOrder(k, g) /\ Before(k, L!Elems(t), L!Elems(g))
  BY <1>2, ZenonT(40)
<1>6. InOrder(k, Five(c, d, t, s, g))
  BY <1>2, <1>3, <1>4, <1>5, OrderOfFive
<1>7. L!Elems(Five(c, d, t, s, g)) = L!Elems(c) \cup L!Elems(d) \cup L!Elems(t)
                                        \cup L!Elems(s) \cup L!Elems(g)
  BY ElemsOfFive
<1>8. L!Elems(Five(c, d, p, s, u)) = L!Elems(c) \cup L!Elems(d) \cup L!Elems(p)
                                        \cup L!Elems(s) \cup L!Elems(u)
  BY ElemsOfFive
<1>9. L!Elems(Five(c, d, t, s, g)) = L!Elems(Five(c, d, p, s, u))
  BY <1>7, <1>8
<1>10. QED
  BY <1>6, <1>9, ZenonT(40) DEF Orderly

-----------------------------------------------------------------------------
(* Messages once and in order.                                             *)

\* The agent's variables in these terms.
LEMMA OrderlyMeans ==
  /\ L!Held = Five(committed, batch, pending, steering, followUp)
  /\ L!MessagesOnceInOrder <=> Orderly(kind, L!Held, dropped, lost)
  /\ L!MessagesOnceInOrder' <=> Orderly(kind', L!Held', dropped', lost')
<1>1. L!QueueOrder <=> InOrder(kind, L!Held)
  BY DEF L!QueueOrder, L!SameQueue, L!Sent, InOrder, Fit
<1>2. L!QueueOrder' <=> InOrder(kind', L!Held')
  BY DEF L!QueueOrder, L!SameQueue, L!Sent, InOrder, Fit
<1>3. L!MessagesOnceInOrder <=> Orderly(kind, L!Held, dropped, lost)
  BY <1>1, ZenonT(40) DEF L!MessagesOnceInOrder, L!Conservation, Orderly
<1>4. L!MessagesOnceInOrder' <=> Orderly(kind', L!Held', dropped', lost')
  BY <1>2, ZenonT(40) DEF L!MessagesOnceInOrder, L!Conservation, Orderly
<1>5. QED
  BY <1>3, <1>4 DEF L!Held, Five

LEMMA LoopTyped ==
  ASSUME L!TypeOK
  PROVE  /\ committed \in Seq(Nat) /\ batch \in Seq(Nat) /\ pending \in Seq(Nat)
         /\ steering \in Seq(Nat) /\ followUp \in Seq(Nat)
         /\ kind \in Seq(L!Kinds)
<1>1. L!Ids \subseteq Nat
  BY DEF L!Ids
<1>2. ASSUME NEW s \in Seq(L!Ids)
      PROVE  s \in Seq(Nat)
  BY <1>1, SeqMonotonic
<1>3. QED
  BY <1>2 DEF L!TypeOK

\* Messages that only change places stay in order.
LEMMA SameHeld ==
  ASSUME L!MessagesOnceInOrder, L!Held' = L!Held,
         kind' = kind, dropped' = dropped, lost' = lost
  PROVE  L!MessagesOnceInOrder'
BY OrderlyMeans, ZenonT(40)

\* A message that enters a queue is the last of its queue.
LEMMA EnteredQueue ==
  ASSUME NEW u \in Seq(Nat), NEW s \in Seq(Nat), NEW n \in Nat
  PROVE  u \o Append(s, n) = Append(u \o s, n)
BY AppendLast, SMT

\* A message that enters the batch is behind what is committed.
Rest(p, s, g) == p \o s \o g
Nothing(d) == d = << >>
Just(d, n) == d = << n >>
Parts(h, u, v) == h = u \o v
PartsWith(h, u, n, v) == h = Append(u, n) \o v

LEMMA EnteredBatch ==
  ASSUME NEW c \in Seq(Nat), NEW p \in Seq(Nat), NEW s \in Seq(Nat),
         NEW g \in Seq(Nat), NEW d
  PROVE  /\ Rest(p, s, g) \in Seq(Nat)
         /\ \A n \in Nat : Just(d, n) => PartsWith(Five(c, d, p, s, g), c, n, Rest(p, s, g))
         /\ Nothing(d) => Parts(Five(c, d, p, s, g), c, Rest(p, s, g))
<1>0. \A x, y \in Seq(Nat) : x \o y \in Seq(Nat)
  BY ConcatProperties
<1>1. \A x, y, z \in Seq(Nat) : (x \o y) \o z = x \o (y \o z)
  <2>1. ASSUME NEW x \in Seq(Nat), NEW y \in Seq(Nat), NEW z \in Seq(Nat)
        PROVE  (x \o y) \o z = x \o (y \o z)
    BY ConcatAssociative, SMTT(30)
  <2>2. QED
    BY <2>1
<1>2. /\ \A n \in Nat : Append(c, n) \in Seq(Nat) /\ c \o << n >> = Append(c, n)
      /\ c \o << >> = c
  BY AppendIsConcat, EmptyUnit
<1>3. ASSUME NEW x \in Seq(Nat)
      PROVE  x \o p \o s \o g = x \o (p \o s \o g)
  <2>1. x \o p \in Seq(Nat) /\ x \o p \o s \in Seq(Nat) /\ p \o s \in Seq(Nat)
    BY <1>0, ZenonT(40)
  <2>2. x \o p \o s = x \o (p \o s)
    BY <1>1, ZenonT(40)
  <2>3. (x \o (p \o s)) \o g = x \o ((p \o s) \o g)
    BY <1>1, <2>1, ZenonT(40)
  <2>4. QED
    BY <2>2, <2>3, ZenonT(40)
<1>4. p \o s \o g \in Seq(Nat)
  BY <1>0, ZenonT(40)
<1>5. QED
  BY <1>2, <1>3, <1>4, ZenonT(40) DEF Five, Rest, Nothing, Just, Parts, PartsWith

LEMMA SteerInOrder ==
  ASSUME L!LoopInv, L!Steer \/ L!FollowUp
  PROVE  L!MessagesOnceInOrder'
<1> USE DEF L!LoopInv
<1>1. /\ committed \in Seq(Nat) /\ batch \in Seq(Nat) /\ pending \in Seq(Nat)
      /\ steering \in Seq(Nat) /\ followUp \in Seq(Nat) /\ kind \in Seq(L!Kinds)
  BY LoopTyped
<1>2. PICK n \in Nat : n = Len(kind) + 1
  BY <1>1
<1>3. PICK u \in Seq(Nat) : u = committed \o batch \o pending
  <2>1. committed \o batch \in Seq(Nat)
    BY <1>1, ConcatProperties
  <2>2. committed \o batch \o pending \in Seq(Nat)
    BY <1>1, <2>1, ConcatProperties
  <2>3. QED
    BY <2>2, ZenonT(40)
<1>4. PICK x \in Seq(Nat) : x = u \o steering
  BY <1>1, ConcatProperties, ZenonT(40)
<1>5. PICK h \in Seq(Nat) : h = x \o followUp
  BY <1>1, ConcatProperties, ZenonT(40)
<1>6. h = L!Held
  BY <1>3, <1>4, <1>5, ZenonT(40) DEF L!Held
<1>7. Orderly(kind, x \o followUp, dropped, lost)
  BY <1>5, <1>6, OrderlyMeans, ZenonT(40)
<1>8. CASE L!Steer
  <2>1. kind' = Append(kind, "steering") /\ dropped' = dropped /\ lost' = lost
    BY <1>8 DEF L!Steer, L!Hand, L!fate
  <2>2. Orderly(Append(kind, "steering"), Append(x, Len(kind) + 1) \o followUp, dropped, lost)
    <3>1. \A m \in L!Elems(followUp) : kind[m] # "steering"
      BY DEF L!KindsOfQueues, L!Sent
    <3>2. QED
      BY <1>1, <1>7, <3>1, HandedOver DEF L!Kinds
  <2>3. Append(x, n) = u \o Append(steering, n)
    <3>1. u \o Append(steering, n) = Append(u \o steering, n)
      BY <1>1, <1>2, EnteredQueue
    <3>2. QED
      BY <1>4, <3>1, ZenonT(40)
  <2>4. L!Held' = Append(x, n) \o followUp
    <3>1. L!Held' = u \o Append(steering, n) \o followUp
      BY <1>2, <1>3, <1>8, ZenonT(40) DEF L!Steer, L!Held, L!book, L!loop, L!NextId
    <3>2. QED
      BY <2>3, <3>1, ZenonT(40)
  <2>5. QED
    BY <1>2, <2>1, <2>2, <2>4, OrderlyMeans, ZenonT(40)
<1>9. CASE L!FollowUp
  <2>1. kind' = Append(kind, "followUp") /\ dropped' = dropped /\ lost' = lost
    BY <1>9 DEF L!FollowUp, L!Hand, L!fate
  <2>e. PICK e0 \in Seq(Nat) : e0 = << >> /\ L!Elems(e0) = { }
    <3>1. << >> \in Seq(Nat) /\ L!Elems(<< >>) = { }
      BY DEF L!Elems
    <3>2. QED
      BY <3>1, ZenonT(40)
  <2>2. h \o e0 = h /\ Append(h, n) \o e0 = Append(h, n)
    <3>1. Append(h, n) \in Seq(Nat)
      OBVIOUS
    <3>2. QED
      BY <2>e, <3>1, EmptyUnit
  <2>3. Orderly(kind, h \o e0, dropped, lost)
    BY <1>5, <1>7, <2>2, ZenonT(40)
  <2>4. Orderly(Append(kind, "followUp"), Append(h, Len(kind) + 1) \o e0, dropped, lost)
    BY <1>1, <2>3, <2>e, HandedOver DEF L!Kinds
  <2>5. Append(h, n) = x \o Append(followUp, n)
    <3>1. x \o Append(followUp, n) = Append(x \o followUp, n)
      BY <1>1, <1>2, EnteredQueue
    <3>2. QED
      BY <1>5, <3>1, ZenonT(40)
  <2>6. L!Held' = Append(h, n)
    <3>1. L!Held' = x \o Append(followUp, n)
      BY <1>2, <1>3, <1>4, <1>9, ZenonT(40) DEF L!FollowUp, L!Held, L!book, L!loop, L!NextId
    <3>2. QED
      BY <2>5, <3>1, ZenonT(40)
  <2>7. QED
    BY <1>2, <2>1, <2>2, <2>4, <2>6, OrderlyMeans, ZenonT(40)
<1>10. QED
  BY <1>8, <1>9

\* A message that is put into an empty batch is of no queue.
LEMMA BatchInOrder ==
  ASSUME L!LoopInv, Nothing(batch), NEW x \in { "prompt", "prepared" },
         kind' = Append(kind, x), Just(batch', Len(kind) + 1),
         committed' = committed, pending' = pending, steering' = steering,
         followUp' = followUp, dropped' = dropped, lost' = lost
  PROVE  L!MessagesOnceInOrder'
<1>1. /\ committed \in Seq(Nat) /\ pending \in Seq(Nat)
      /\ steering \in Seq(Nat) /\ followUp \in Seq(Nat) /\ kind \in Seq(L!Kinds)
  BY LoopTyped DEF L!LoopInv
<1>2. PICK n \in Nat : n = Len(kind) + 1
  BY <1>1
<1>3. PICK v \in Seq(Nat) :
        Parts(L!Held, committed, v) /\ PartsWith(L!Held', committed, n, v)
  <2>1. L!Held' = Five(committed, batch', pending, steering, followUp)
    BY ZenonT(40) DEF L!Held, Five
  <2>2. L!Held = Five(committed, batch, pending, steering, followUp)
    BY ZenonT(40) DEF L!Held, Five
  <2>3. Just(batch', n)
    BY <1>2
  <2>4. /\ Rest(pending, steering, followUp) \in Seq(Nat)
        /\ Parts(L!Held, committed, Rest(pending, steering, followUp))
    BY <1>1, <2>2, EnteredBatch
  <2>5. PartsWith(L!Held', committed, n, Rest(pending, steering, followUp))
    BY <1>1, <2>1, <2>3, EnteredBatch
  <2>6. QED
    BY <2>4, <2>5
<1>4. Orderly(kind, committed \o v, dropped, lost)
  BY <1>3, OrderlyMeans, ZenonT(40) DEF L!LoopInv, Parts
<1>5. Orderly(Append(kind, x), Append(committed, Len(kind) + 1) \o v, dropped, lost)
  BY <1>1, <1>4, HandedOver DEF L!Kinds
<1>6. QED
  BY <1>2, <1>3, <1>5, OrderlyMeans, ZenonT(40) DEF PartsWith

LEMMA Concatenations ==
  /\ \A x, y \in Seq(Nat) : x \o y \in Seq(Nat)
  /\ \A x, y, z \in Seq(Nat) : (x \o y) \o z = x \o (y \o z)
  /\ \A x \in Seq(Nat) : x \o << >> = x
<1>1. \A x, y \in Seq(Nat) : x \o y \in Seq(Nat)
  BY ConcatProperties
<1>2. ASSUME NEW x \in Seq(Nat), NEW y \in Seq(Nat), NEW z \in Seq(Nat)
      PROVE  (x \o y) \o z = x \o (y \o z)
  BY ConcatAssociative, SMTT(30)
<1>3. \A x \in Seq(Nat) : x \o << >> = x
  BY EmptyUnit
<1>4. QED
  BY <1>1, <1>2, <1>3

LEMMA TakenOfNat ==
  ASSUME NEW q \in Seq(Nat), NEW mode
  PROVE  /\ L!Taken(q, mode) \in Seq(Nat) /\ L!Left(q, mode) \in Seq(Nat)
         /\ \A x \in Seq(Nat) :
              (x \o L!Taken(q, mode)) \o L!Left(q, mode) = x \o q
<1>1. /\ L!Taken(q, mode) \in Seq(Nat) /\ L!Left(q, mode) \in Seq(Nat)
      /\ L!Taken(q, mode) \o L!Left(q, mode) = q
  BY TakenThenLeft
<1>2. PICK t \in Seq(Nat), r \in Seq(Nat) :
        t = L!Taken(q, mode) /\ r = L!Left(q, mode) /\ t \o r = q
  BY <1>1, ZenonT(40)
<1>3. \A x \in Seq(Nat) : (x \o t) \o r = x \o (t \o r)
  <2>1. ASSUME NEW x \in Seq(Nat)
        PROVE  (x \o t) \o r = x \o (t \o r)
    BY ConcatAssociative, SMTT(30)
  <2>2. QED
    BY <2>1
<1>4. QED
  BY <1>1, <1>2, <1>3, ZenonT(40)

\* A batch is committed message by message.
LEMMA HeldAtCommit ==
  ASSUME L!LoopInv, batch # << >>,
         committed' = Append(committed, Head(batch)), batch' = Tail(batch),
         pending' = pending, steering' = steering, followUp' = followUp
  PROVE  L!Held' = L!Held
<1>1. committed \in Seq(Nat) /\ batch \in Seq(Nat)
  BY LoopTyped DEF L!LoopInv
<1>2. Append(committed, Head(batch)) \o Tail(batch) = committed \o batch
  BY <1>1, MoveHeadOfTwo
<1>3. committed' \o batch' = committed \o batch
  BY <1>2, ZenonT(40)
<1>4. QED
  BY <1>3, ZenonT(40) DEF L!Held

\* Pending messages become a batch.
LEMMA HeldAtTurn ==
  ASSUME L!LoopInv, batch = << >>, batch' = pending, pending' = << >>,
         committed' = committed, steering' = steering, followUp' = followUp
  PROVE  L!Held' = L!Held
<1>1. committed \in Seq(Nat) /\ pending \in Seq(Nat)
  BY LoopTyped DEF L!LoopInv
<1>2. committed \o << >> = committed
  BY <1>1, Concatenations, ZenonT(40)
<1>3. (committed \o pending) \o << >> = committed \o pending
  BY <1>1, Concatenations, ZenonT(40)
<1>4. QED
  BY <1>2, <1>3, ZenonT(40) DEF L!Held

\* A poll of the steering queue.
LEMMA HeldAtPoll ==
  ASSUME L!LoopInv, pending = << >>,
         pending' = L!Taken(steering, steeringMode),
         steering' = L!Left(steering, steeringMode),
         committed' = committed, batch' = batch, followUp' = followUp
  PROVE  L!Held' = L!Held
<1>1. committed \in Seq(Nat) /\ batch \in Seq(Nat) /\ steering \in Seq(Nat)
  BY LoopTyped DEF L!LoopInv
<1>2. PICK x \in Seq(Nat) : x = committed \o batch
  BY <1>1, Concatenations, ZenonT(40)
<1>3. x \o << >> = x
  BY Concatenations, ZenonT(40)
<1>4. (x \o pending') \o steering' = x \o steering
  BY <1>1, TakenOfNat, ZenonT(40)
<1>5. QED
  BY <1>2, <1>3, <1>4, ZenonT(40) DEF L!Held

\* What is pending, or else a second poll, joins the message of the hook.
LEMMA HeldAtRepoll ==
  ASSUME L!LoopInv, L!Repoll
  PROVE  L!Held' = L!Held
<1> USE DEF L!Repoll
<1>1. /\ committed \in Seq(Nat) /\ batch \in Seq(Nat) /\ pending \in Seq(Nat)
      /\ steering \in Seq(Nat)
  BY LoopTyped DEF L!LoopInv
<1>2. PICK x \in Seq(Nat) : x = committed \o batch
  BY <1>1, Concatenations, ZenonT(40)
<1>3. \A t \in Seq(Nat) : (committed \o (batch \o t)) \o << >> = x \o t
  <2>1. ASSUME NEW t \in Seq(Nat)
        PROVE  (committed \o (batch \o t)) \o << >> = x \o t
    <3>1. x \o t = committed \o (batch \o t) /\ x \o t \in Seq(Nat)
      BY <1>1, <1>2, Concatenations, ZenonT(40)
    <3>2. (x \o t) \o << >> = x \o t
      BY <3>1, Concatenations, ZenonT(40)
    <3>3. QED
      BY <3>1, <3>2, ZenonT(40)
  <2>2. QED
    BY <2>1
<1>4. committed' = committed /\ followUp' = followUp /\ pending' = << >>
  BY DEF L!book
<1>5. CASE pending # << >>
  <2>1. batch' = batch \o pending /\ steering' = steering
    BY <1>5
  <2>2. (committed \o (batch \o pending)) \o << >> = x \o pending
    BY <1>1, <1>3
  <2>3. QED
    BY <1>2, <1>4, <2>1, <2>2, ZenonT(40) DEF L!Held
<1>6. CASE pending = << >>
  <2>1. batch' = batch \o L!Taken(steering, steeringMode)
          /\ steering' = L!Left(steering, steeringMode)
    BY <1>6
  <2>2. PICK t \in Seq(Nat) : t = L!Taken(steering, steeringMode)
    BY <1>1, TakenOfNat, ZenonT(40)
  <2>3. (committed \o (batch \o t)) \o << >> = x \o t
    BY <1>3
  <2>4. (x \o t) \o steering' = x \o steering
    BY <1>1, <2>1, <2>2, TakenOfNat, ZenonT(40)
  <2>5. x \o << >> = x
    BY Concatenations, ZenonT(40)
  <2>6. L!Held' = (x \o t) \o steering' \o followUp
    BY <1>4, <2>1, <2>2, <2>3, ZenonT(40) DEF L!Held
  <2>7. L!Held = x \o steering \o followUp
    BY <1>2, <1>6, <2>5, ZenonT(40) DEF L!Held
  <2>8. QED
    BY <2>4, <2>6, <2>7, ZenonT(40)
<1>7. QED
  BY <1>5, <1>6

\* A run that is started from a queue.
LEMMA HeldAtContinue ==
  ASSUME L!LoopInv, L!ContinueSteering \/ L!ContinueFollowUp
  PROVE  L!Held' = L!Held
<1>1. committed \in Seq(Nat) /\ steering \in Seq(Nat) /\ followUp \in Seq(Nat)
  BY LoopTyped DEF L!LoopInv
<1>2. committed \o << >> = committed
  BY <1>1, Concatenations, ZenonT(40)
<1>3. /\ batch = << >> /\ pending = << >> /\ pending' = pending
      /\ committed' = committed
  BY DEF L!LoopInv, L!HeldWhere, L!ContinueSteering, L!ContinueFollowUp, L!BeginRun,
         L!book
<1>4. CASE L!ContinueSteering
  <2>1. /\ batch' = L!Taken(steering, steeringMode)
        /\ steering' = L!Left(steering, steeringMode) /\ followUp' = followUp
    BY <1>4 DEF L!ContinueSteering, L!BeginRun
  <2>2. PICK t \in Seq(Nat) : t = L!Taken(steering, steeringMode)
    BY <1>1, TakenOfNat, ZenonT(40)
  <2>3. (committed \o t) \o << >> = committed \o t
    BY <1>1, Concatenations, ZenonT(40)
  <2>4. (committed \o t) \o steering' = committed \o steering
    BY <1>1, <2>1, <2>2, TakenOfNat, ZenonT(40)
  <2>5. L!Held' = (committed \o t) \o steering' \o followUp
    BY <1>3, <2>1, <2>2, <2>3, ZenonT(40) DEF L!Held
  <2>6. L!Held = committed \o steering \o followUp
    BY <1>2, <1>3, ZenonT(40) DEF L!Held
  <2>7. QED
    BY <2>4, <2>5, <2>6, ZenonT(40)
<1>5. CASE L!ContinueFollowUp
  <2>1. /\ batch' = L!Taken(followUp, followUpMode) /\ steering = << >>
        /\ followUp' = L!Left(followUp, followUpMode) /\ steering' = << >>
    BY <1>5 DEF L!ContinueFollowUp, L!BeginRun
  <2>2. PICK t \in Seq(Nat) : t = L!Taken(followUp, followUpMode)
    BY <1>1, TakenOfNat, ZenonT(40)
  <2>3. (committed \o t) \o << >> = committed \o t
    BY <1>1, Concatenations, ZenonT(40)
  <2>4. (committed \o t) \o followUp' = committed \o followUp
    BY <1>1, <2>1, <2>2, TakenOfNat, ZenonT(40)
  <2>5. L!Held' = (committed \o t) \o followUp'
    BY <1>3, <2>1, <2>2, <2>3, ZenonT(40) DEF L!Held
  <2>6. L!Held = committed \o followUp
    BY <1>2, <1>3, <2>1, ZenonT(40) DEF L!Held
  <2>7. QED
    BY <2>4, <2>5, <2>6, ZenonT(40)
<1>6. QED
  BY <1>4, <1>5

\* A run that fails, or a cleared queue, lets go of what it holds.
LEMMA LostInOrder ==
  ASSUME L!LoopInv, batch' = << >>, pending' = << >>,
         lost' = lost \cup L!Elems(batch) \cup L!Elems(pending),
         committed' = committed, steering' = steering, followUp' = followUp,
         kind' = kind, dropped' = dropped
  PROVE  L!MessagesOnceInOrder'
<1>1. /\ committed \in Seq(Nat) /\ batch \in Seq(Nat) /\ pending \in Seq(Nat)
      /\ steering \in Seq(Nat) /\ followUp \in Seq(Nat)
  BY LoopTyped DEF L!LoopInv
<1>2. Orderly(kind, Five(committed, batch, pending, steering, followUp), dropped, lost)
  BY OrderlyMeans, ZenonT(40) DEF L!LoopInv
<1>3. /\ Remains(kind, batch', batch) /\ Remains(kind, pending', pending)
      /\ Remains(kind, steering, steering) /\ Remains(kind, followUp, followUp)
  BY <1>1, EmptiedOrNot
<1>4. L!Elems(batch') = { } /\ L!Elems(pending') = { }
  BY DEF L!Elems
<1>5. L!Elems(L!Held) =
        L!Elems(committed) \cup L!Elems(batch) \cup L!Elems(pending)
          \cup L!Elems(steering) \cup L!Elems(followUp)
  BY <1>1, ElemsOfFive, OrderlyMeans
<1>6. dropped \cap lost' = { }
  BY <1>5 DEF L!LoopInv, L!MessagesOnceInOrder, L!Conservation
<1>7. dropped \cup lost' =
        dropped \cup lost \cup (L!Elems(batch) \ L!Elems(batch'))
                \cup (L!Elems(pending) \ L!Elems(pending'))
                \cup (L!Elems(steering) \ L!Elems(steering))
                \cup (L!Elems(followUp) \ L!Elems(followUp))
  BY <1>4
<1>8. Orderly(kind, Five(committed, batch', pending', steering, followUp), dropped, lost')
  BY <1>1, <1>2, <1>3, <1>6, <1>7, Emptied
<1>9. L!Held' = Five(committed, batch', pending', steering, followUp)
  BY ZenonT(40) DEF L!Held, Five
<1>10. QED
  BY <1>8, <1>9, OrderlyMeans, ZenonT(40)

LEMMA ClearedInOrder ==
  ASSUME L!LoopInv, L!ClearQueues
  PROVE  L!MessagesOnceInOrder'
<1> USE DEF L!ClearQueues
<1>1. /\ committed \in Seq(Nat) /\ batch \in Seq(Nat) /\ pending \in Seq(Nat)
      /\ steering \in Seq(Nat) /\ followUp \in Seq(Nat)
  BY LoopTyped DEF L!LoopInv
<1>2. Orderly(kind, Five(committed, batch, pending, steering, followUp), dropped, lost)
  BY OrderlyMeans, ZenonT(40) DEF L!LoopInv
<1>3. /\ steering' \in { steering, << >> } /\ followUp' \in { followUp, << >> }
      /\ committed' = committed /\ batch' = batch /\ pending' = pending
      /\ kind' = kind /\ lost' = lost
      /\ dropped' = dropped \cup ((L!Elems(steering) \cup L!Elems(followUp))
                                    \ (L!Elems(steering') \cup L!Elems(followUp')))
  BY DEF L!book, L!loop
<1>4. /\ Remains(kind, batch, batch) /\ Remains(kind, pending, pending)
      /\ Remains(kind, steering', steering) /\ Remains(kind, followUp', followUp)
  BY <1>1, <1>3, EmptiedOrNot
<1>5. /\ L!Elems(steering') \in { L!Elems(steering), { } }
      /\ L!Elems(followUp') \in { L!Elems(followUp), { } }
  BY <1>3 DEF L!Elems
<1>6. L!Elems(L!Held) =
        L!Elems(committed) \cup L!Elems(batch) \cup L!Elems(pending)
          \cup L!Elems(steering) \cup L!Elems(followUp)
  BY <1>1, ElemsOfFive, OrderlyMeans
<1>7. dropped' \cap lost = { }
  BY <1>3, <1>6 DEF L!LoopInv, L!MessagesOnceInOrder, L!Conservation
<1>8. L!Elems(steering) \cap L!Elems(followUp) = { }
  BY DEF L!LoopInv, L!KindsOfQueues, L!Sent
<1>9. dropped' \cup lost =
        dropped \cup lost \cup (L!Elems(batch) \ L!Elems(batch))
                \cup (L!Elems(pending) \ L!Elems(pending))
                \cup (L!Elems(steering) \ L!Elems(steering'))
                \cup (L!Elems(followUp) \ L!Elems(followUp'))
  BY <1>3, <1>5, <1>8
<1>10. Orderly(kind, Five(committed, batch, pending, steering', followUp'), dropped', lost)
  BY <1>1, <1>2, <1>4, <1>7, <1>9, Emptied
<1>11. L!Held' = Five(committed, batch, pending, steering', followUp')
  BY <1>3, ZenonT(40) DEF L!Held, Five
<1>12. QED
  BY <1>3, <1>10, <1>11, OrderlyMeans, ZenonT(40)

LEMMA FollowUpsInOrder ==
  ASSUME L!LoopInv, L!FollowUps
  PROVE  L!MessagesOnceInOrder'
<1> USE DEF L!FollowUps
<1>1. /\ committed \in Seq(Nat) /\ batch \in Seq(Nat) /\ pending \in Seq(Nat)
      /\ steering \in Seq(Nat) /\ followUp \in Seq(Nat)
  BY LoopTyped DEF L!LoopInv
<1>2. Orderly(kind, Five(committed, batch, pending, steering, followUp), dropped, lost)
  BY OrderlyMeans, ZenonT(40) DEF L!LoopInv
<1>3. L!Elems(pending) = { }
  BY DEF L!LoopInv, L!HeldWhere, L!Elems
<1>4. PICK t \in Seq(Nat), r \in Seq(Nat) :
        /\ pending' = t /\ followUp' = r /\ t \o r = followUp
  BY <1>1, TakenThenLeft
<1>5. L!Elems(followUp) = L!Elems(t) \cup L!Elems(r)
  <2>1. L!Elems(t \o r) = L!Elems(t) \cup L!Elems(r)
    BY ElemsOfConcat, ZenonT(40)
  <2>2. QED
    BY <1>4, <2>1, ZenonT(40)
<1>6. InOrder(kind, followUp) =>
        InOrder(kind, t) /\ InOrder(kind, r) /\ Before(kind, L!Elems(t), L!Elems(r))
  BY <1>4, InOrderConcat, ZenonT(40)
<1>7. /\ \A m \in L!Elems(steering) : kind[m] = "steering"
      /\ \A m \in L!Elems(t) : kind[m] = "followUp"
  BY <1>5 DEF L!LoopInv, L!KindsOfQueues, L!Sent
<1>8. Orderly(kind, Five(committed, batch, t, steering, r), dropped, lost)
  BY <1>1, <1>2, <1>3, <1>5, <1>6, <1>7, FollowUpsFirst
<1>9. /\ committed' = committed /\ batch' = batch /\ steering' = steering
      /\ kind' = kind /\ dropped' = dropped /\ lost' = lost
  BY DEF L!book, L!fate
<1>10. L!Held' = Five(committed, batch, t, steering, r)
  BY <1>4, <1>9, ZenonT(40) DEF L!Held, Five
<1>11. QED
  BY <1>8, <1>9, <1>10, OrderlyMeans, ZenonT(40)

messages == << committed, batch, pending, steering, followUp, kind, dropped, lost >>

LEMMA OrderStep == L!LoopInv /\ [L!Next]_loopVars => L!MessagesOnceInOrder'
<1> SUFFICES ASSUME L!LoopInv, [L!Next]_loopVars
             PROVE  L!MessagesOnceInOrder'
  OBVIOUS
<1>a. L!MessagesOnceInOrder /\ L!HeldWhere
  BY DEF L!LoopInv
<1>b. ASSUME UNCHANGED messages
      PROVE  L!MessagesOnceInOrder'
  <2>1. L!Held' = L!Held
    BY <1>b, ZenonT(40) DEF messages, L!Held
  <2>2. QED
    BY <1>a, <1>b, <2>1, SameHeld DEF messages
<1>c. ASSUME L!Held' = L!Held, kind' = kind, L!fate' = L!fate
      PROVE  L!MessagesOnceInOrder'
  BY <1>a, <1>c, SameHeld DEF L!fate
<1>1. CASE L!Others
  <2>1. CASE L!Steer \/ L!FollowUp
    BY <2>1, SteerInOrder
  <2>2. CASE L!ClearQueues
    BY <2>2, ClearedInOrder
  <2>3. CASE L!Abort
    BY <1>b, <2>3 DEF L!Abort, messages, L!queues, L!loop, L!book, L!fate
  <2>4. QED
    BY <1>1, <2>1, <2>2, <2>3 DEF L!Others
<1>2. CASE L!Begin
  <2>1. CASE L!Prompt
    <3>1. Nothing(batch)
      BY <1>a, <2>1 DEF L!Prompt, L!BeginRun, L!HeldWhere, Nothing
    <3>2. Just(batch', Len(kind) + 1)
      BY <2>1 DEF L!Prompt, L!BeginRun, L!NextId, Just
    <3>3. kind' = Append(kind, "prompt")
      BY <2>1 DEF L!Prompt, L!Hand
    <3>4. /\ committed' = committed /\ pending' = pending /\ steering' = steering
          /\ followUp' = followUp /\ dropped' = dropped /\ lost' = lost
      BY <2>1 DEF L!Prompt, L!BeginRun, L!queues, L!book, L!fate
    <3>5. QED
      BY <3>1, <3>2, <3>3, <3>4, BatchInOrder
  <2>2. CASE L!ContinueSteering \/ L!ContinueFollowUp
    <3>1. kind' = kind /\ L!fate' = L!fate
      BY <2>2 DEF L!ContinueSteering, L!ContinueFollowUp, L!BeginRun
    <3>2. QED
      BY <1>c, <2>2, <3>1, HeldAtContinue
  <2>3. CASE L!ContinueTail
    BY <1>a, <1>b, <2>3
       DEF L!ContinueTail, L!BeginRun, L!HeldWhere, messages, L!queues, L!book, L!fate
  <2>4. QED
    BY <1>2, <2>1, <2>2, <2>3 DEF L!Begin
<1>3. CASE L!CommitMessage
  <2>1. L!Held' = L!Held
    BY <1>3, HeldAtCommit DEF L!CommitMessage, L!queues
  <2>2. QED
    BY <1>3, <1>c, <2>1 DEF L!CommitMessage
<1>4. CASE L!CommitFails \/ L!AnswerFails \/ L!ToolsFail \/ L!HookPanics
  <2>1. /\ batch' = << >> /\ pending' = << >>
        /\ lost' = lost \cup L!Elems(batch) \cup L!Elems(pending)
        /\ committed' = committed /\ steering' = steering /\ followUp' = followUp
        /\ kind' = kind /\ dropped' = dropped
    BY <1>4
       DEF L!CommitFails, L!AnswerFails, L!ToolsFail, L!HookPanics, L!FinalizeFails,
           L!book, L!queues
  <2>2. QED
    BY <2>1, LostInOrder
<1>5. CASE L!CommitDone \/ L!Request \/ L!FinishError \/ L!Finish
           \/ L!HandleRunFailure \/ L!FinishRun
  <2>1. UNCHANGED messages
    BY <1>5
       DEF L!CommitDone, L!Request, L!FinishError, L!Finish, L!HandleRunFailure,
           L!FinishRun, messages, L!queues, L!loop, L!book, L!fate
  <2>2. QED
    BY <1>b, <2>1
<1>6. CASE L!AnswerComplete \/ L!AnswerError \/ L!AnswerAborted \/ L!Tools
  <2>1. UNCHANGED messages
    BY <1>6
       DEF L!AnswerComplete, L!AnswerError, L!AnswerAborted, L!Answer, L!Tools,
           messages, L!queues, L!fate
  <2>2. QED
    BY <1>b, <2>1
<1>7. CASE L!FirstPoll
  <2>1. CASE skip
    BY <1>a, <1>7, <1>b, <2>1 DEF L!FirstPoll, L!HeldWhere, messages, L!book, L!fate
  <2>2. CASE ~skip
    <3>1. L!Held' = L!Held
      BY <1>a, <1>7, <2>2, HeldAtPoll DEF L!FirstPoll, L!HeldWhere, L!book
    <3>2. QED
      BY <1>7, <1>c, <3>1 DEF L!FirstPoll
  <2>3. QED
    BY <2>1, <2>2
<1>8. CASE L!Check
  <2>1. CASE UNCHANGED << batch, pending >>
    BY <1>8, <1>b, <2>1 DEF L!Check, messages, L!queues, L!book, L!fate
  <2>2. CASE batch' = pending /\ pending' = << >>
    <3>1. L!Held' = L!Held
      BY <1>a, <1>8, <2>2, HeldAtTurn DEF L!Check, L!HeldWhere, L!queues, L!book
    <3>2. QED
      BY <1>8, <1>c, <3>1 DEF L!Check
  <2>3. QED
    BY <1>8, <2>1, <2>2 DEF L!Check
<1>9. CASE L!Prepare
  <2>1. batch = << >>
    BY <1>a, <1>9 DEF L!Prepare, L!HeldWhere
  <2>2. /\ committed' = committed /\ pending' = pending /\ steering' = steering
        /\ followUp' = followUp /\ dropped' = dropped /\ lost' = lost
    BY <1>9 DEF L!Prepare, L!queues, L!book, L!fate
  <2>3. CASE L!Hand("prepared") /\ batch' = << L!NextId >>
    <3>1. Nothing(batch) /\ Just(batch', Len(kind) + 1)
      BY <2>1, <2>3 DEF L!NextId, Nothing, Just
    <3>2. QED
      BY <2>2, <2>3, <3>1, BatchInOrder DEF L!Hand
  <2>4. CASE batch' = << >> /\ UNCHANGED kind
    BY <1>b, <2>1, <2>2, <2>4 DEF messages
  <2>5. QED
    BY <1>9, <2>3, <2>4 DEF L!Prepare
<1>10. CASE L!Repoll
  BY <1>10, <1>c, HeldAtRepoll DEF L!Repoll
<1>11. CASE L!Poll
  <2>1. L!Held' = L!Held
    BY <1>a, <1>11, HeldAtPoll DEF L!Poll, L!HeldWhere, L!book
  <2>2. QED
    BY <1>11, <1>c, <2>1 DEF L!Poll
<1>12. CASE L!FollowUps
  BY <1>12, FollowUpsInOrder
<1>13. CASE UNCHANGED loopVars
  BY <1>13, <1>b DEF loopVars, messages
<1>14. QED
  BY <1>1, <1>2, <1>3, <1>4, <1>5, <1>6, <1>7, <1>8, <1>9, <1>10, <1>11, <1>12,
     <1>13
     DEF L!Next, L!LoopStep

-----------------------------------------------------------------------------
(* Types and places.                                                       *)

IsView(v) ==
  /\ v.seen \in [ start : BOOLEAN, turn : BOOLEAN, end : BOOLEAN, message : BOOLEAN ]
  /\ v.frame \in L!Frames

LEMMA SeeType ==
  /\ IsView(L!NoEvents)
  /\ L!TypeOK => IsView(L!View)
  /\ \A v, x : IsView(v) => IsView(L!See(v, x))
<1>1. IsView(L!NoEvents)
  BY DEF IsView, L!NoEvents, L!Fresh, L!Frames
<1>2. L!TypeOK => IsView(L!View)
  BY DEF L!TypeOK, L!View, IsView
<1>3. ASSUME NEW v, NEW x, IsView(v)
      PROVE  IsView(L!See(v, x))
  <2>1. L!Track(v.seen, x) \in [ start : BOOLEAN, turn : BOOLEAN, end : BOOLEAN,
                                message : BOOLEAN ]
    BY <1>3 DEF L!Track, IsView
  <2>2. L!Nest(v.frame, x) \in L!Frames
    BY DEF L!Nest, L!Frames
  <2>3. QED
    BY <2>1, <2>2 DEF L!See, IsView
<1>4. QED
  BY <1>1, <1>2, <1>3

LEMMA EventsType ==
  ASSUME L!TypeOK
  PROVE  /\ \A v : IsView(v) /\ L!Emitted(v) =>
               /\ seen' \in [ start : BOOLEAN, turn : BOOLEAN, end : BOOLEAN,
                              message : BOOLEAN ]
               /\ frame' \in L!Frames
         /\ \A x : L!Emit(x) => \E v : IsView(v) /\ L!Emitted(v) /\ turnMark' = turnMark
         /\ \A x, y : L!EmitBoth(x, y) =>
               \E v : IsView(v) /\ L!Emitted(v) /\ turnMark' = turnMark
BY SeeType DEF L!Emitted, L!Emit, L!EmitBoth, IsView

\* What is true of the events after every step.
EventsTyped ==
  /\ seen \in [ start : BOOLEAN, turn : BOOLEAN, end : BOOLEAN, message : BOOLEAN ]
  /\ frame \in L!Frames
  /\ turnMark \in Nat

LEMMA EventsTypeStep ==
  ASSUME L!TypeOK, [L!Next]_loopVars
  PROVE  EventsTyped'
<1>a. ASSUME NEW v, IsView(v), L!Emitted(v), turnMark' \in Nat
      PROVE  EventsTyped'
  BY <1>a, EventsType DEF EventsTyped
<1>b. ASSUME NEW x, L!Emit(x)
      PROVE  EventsTyped'
  BY <1>b, EventsType DEF EventsTyped, L!TypeOK
<1>c. ASSUME NEW x, NEW y, L!EmitBoth(x, y)
      PROVE  EventsTyped'
  BY <1>c, EventsType DEF EventsTyped, L!TypeOK
<1>d. ASSUME UNCHANGED << seen, frame, turnMark >>
      PROVE  EventsTyped'
  BY <1>d DEF EventsTyped, L!TypeOK
<1>e. Len(committed) \in Nat
  BY DEF L!TypeOK
<1>1. CASE L!Others
  BY <1>1, <1>d
     DEF L!Others, L!Steer, L!FollowUp, L!ClearQueues, L!Abort, L!events
<1>2. CASE L!Begin
  <2>1. /\ L!Emitted(L!See(L!See(L!NoEvents, "AgentStart"), "TurnStart"))
        /\ turnMark' = Len(committed)
    BY <1>2 DEF L!Begin, L!Prompt, L!ContinueSteering, L!ContinueFollowUp,
                L!ContinueTail, L!BeginRun
  <2>2. IsView(L!See(L!See(L!NoEvents, "AgentStart"), "TurnStart"))
    BY SeeType
  <2>3. QED
    BY <1>a, <1>e, <2>1, <2>2
<1>3. CASE L!CommitMessage \/ L!Tools
  BY <1>3, <1>c DEF L!CommitMessage, L!Tools
<1>4. CASE L!CommitFails \/ L!AnswerFails \/ L!ToolsFail
  <2>1. ASSUME NEW v, IsView(v), L!FinalizeFails(v)
        PROVE  EventsTyped'
    <3>1. IsView(L!See(v, "AgentEnd"))
      BY <2>1, SeeType
    <3>2. QED
      BY <1>a, <2>1, <3>1 DEF L!FinalizeFails, L!TypeOK
  <2>2. IsView(L!View) /\ IsView(L!See(L!View, "MessageStart"))
    BY SeeType
  <2>3. QED
    BY <1>4, <2>1, <2>2 DEF L!CommitFails, L!AnswerFails, L!ToolsFail
<1>5. CASE L!HookPanics \/ L!CommitDone \/ L!FirstPoll \/ L!Check \/ L!Prepare
           \/ L!Poll \/ L!FinishRun
  BY <1>5, <1>d
     DEF L!HookPanics, L!CommitDone, L!FirstPoll, L!Check, L!Prepare, L!Poll,
         L!FinishRun, L!events
<1>6. CASE L!Repoll
  <2>1. L!Emitted(L!See(L!View, "TurnStart")) /\ turnMark' = Len(committed)
    BY <1>6 DEF L!Repoll
  <2>2. QED
    BY <1>a, <1>e, <2>1, SeeType
<1>7. CASE L!Request \/ L!AnswerComplete \/ L!AnswerError \/ L!AnswerAborted
  BY <1>7, <1>b
     DEF L!Request, L!AnswerComplete, L!AnswerError, L!AnswerAborted, L!Answer
<1>8. CASE L!FinishError \/ L!Finish
  BY <1>8, <1>b, <1>c DEF L!FinishError, L!Finish
<1>9. CASE L!FollowUps
  BY <1>9, <1>b, <1>d DEF L!FollowUps, L!events
<1>10. CASE L!HandleRunFailure
  <2>1. ASSUME NEW v, IsView(v)
        PROVE  IsView(L!ReportedIn(v))
    <3>1. IsView(IF seen.message THEN v ELSE L!See(v, "MessageStart"))
      BY <2>1, SeeType
    <3>2. QED
      BY <3>1, SeeType, ZenonT(40) DEF L!ReportedIn
  <2>2. PICK g : g = (IF seen.start THEN L!View ELSE L!See(L!View, "AgentStart"))
    OBVIOUS
  <2>3. PICK t : t = (IF seen.turn THEN g ELSE L!See(g, "TurnStart"))
    OBVIOUS
  <2>4. IsView(t)
    BY <2>2, <2>3, SeeType
  <2>5. \/ UNCHANGED << seen, frame, turnMark >>
        \/ L!Emitted(L!ReportedIn(t)) /\ turnMark' \in { turnMark, Len(committed) }
    BY <1>10, <2>2, <2>3 DEF L!HandleRunFailure, L!events
  <2>6. turnMark \in Nat
    BY DEF L!TypeOK
  <2>7. QED
    BY <1>a, <1>d, <1>e, <2>1, <2>4, <2>5, <2>6
<1>11. CASE UNCHANGED loopVars
  BY <1>11, <1>d DEF loopVars
<1>12. QED
  BY <1>1, <1>2, <1>3, <1>4, <1>5, <1>6, <1>7, <1>8, <1>9, <1>10, <1>11
     DEF L!Next, L!LoopStep

MessagesTyped ==
  /\ steering \in Seq(L!Ids) /\ followUp \in Seq(L!Ids) /\ pending \in Seq(L!Ids)
  /\ batch \in Seq(L!Ids) /\ committed \in Seq(L!Ids)
  /\ kind \in Seq(L!Kinds) /\ Len(kind) <= MaxMsgs
  /\ dropped \subseteq L!Ids /\ lost \subseteq L!Ids

LEMMA MessagesTypeStep ==
  ASSUME L!TypeOK, [L!Next]_loopVars
  PROVE  MessagesTyped'
<1>a. MessagesTyped
  BY DEF MessagesTyped, L!TypeOK
<1>b. << >> \in Seq(L!Ids)
  OBVIOUS
<1>c. ASSUME NEW q \in Seq(L!Ids), NEW mode
      PROVE  L!Taken(q, mode) \in Seq(L!Ids) /\ L!Left(q, mode) \in Seq(L!Ids)
  BY TakenThenLeft
<1>d. \A s \in Seq(L!Ids) : L!Elems(s) \subseteq L!Ids
  BY DEF L!Elems
<1>e. ASSUME NEW x \in L!Kinds, L!Hand(x)
      PROVE  /\ L!NextId \in L!Ids /\ << L!NextId >> \in Seq(L!Ids)
             /\ kind' \in Seq(L!Kinds) /\ Len(kind') <= MaxMsgs
  <2>1. MaxMsgs \in Nat /\ Len(kind) \in Nat
    <3>1. MaxMsgs \in Nat
      BY ToolsAssumption, Zenon
    <3> QED
      BY <1>a, <3>1 DEF MessagesTyped
  <2>2. L!NextId \in L!Ids
    BY <1>e, <2>1 DEF L!Hand, L!NextId, L!Ids
  <2>3. kind' \in Seq(L!Kinds) /\ Len(kind') <= MaxMsgs
    BY <1>a, <1>e, <2>1 DEF L!Hand, L!NextId, MessagesTyped
  <2>4. QED
    BY <2>2, <2>3
<1>f. ASSUME UNCHANGED messages
      PROVE  MessagesTyped'
  BY <1>a, <1>f DEF MessagesTyped, messages
<1>1. CASE L!Others
  <2>1. CASE L!Steer
    <3>1. L!NextId \in L!Ids /\ kind' \in Seq(L!Kinds) /\ Len(kind') <= MaxMsgs
      BY <1>e, <2>1 DEF L!Steer, L!Kinds
    <3>2. steering' \in Seq(L!Ids)
      BY <1>a, <2>1, <3>1 DEF L!Steer, MessagesTyped
    <3>3. QED
      BY <1>a, <2>1, <3>1, <3>2 DEF L!Steer, L!loop, L!book, L!fate, MessagesTyped
  <2>2. CASE L!FollowUp
    <3>1. L!NextId \in L!Ids /\ kind' \in Seq(L!Kinds) /\ Len(kind') <= MaxMsgs
      BY <1>e, <2>2 DEF L!FollowUp, L!Kinds
    <3>2. followUp' \in Seq(L!Ids)
      BY <1>a, <2>2, <3>1 DEF L!FollowUp, MessagesTyped
    <3>3. QED
      BY <1>a, <2>2, <3>1, <3>2 DEF L!FollowUp, L!loop, L!book, L!fate, MessagesTyped
  <2>3. CASE L!ClearQueues
    <3>1. steering' \in Seq(L!Ids) /\ followUp' \in Seq(L!Ids)
      BY <1>a, <1>b, <2>3 DEF L!ClearQueues, MessagesTyped
    <3>2. dropped' \subseteq L!Ids
      BY <1>a, <1>d, <2>3 DEF L!ClearQueues, MessagesTyped
    <3>3. QED
      BY <1>a, <2>3, <3>1, <3>2 DEF L!ClearQueues, L!loop, L!book, MessagesTyped
  <2>4. CASE L!Abort
    BY <1>f, <2>4 DEF L!Abort, messages, L!queues, L!loop, L!book, L!fate
  <2>5. QED
    BY <1>1, <2>1, <2>2, <2>3, <2>4 DEF L!Others
<1>2. CASE L!Begin
  <2>1. /\ pending' = pending /\ committed' = committed
        /\ dropped' = dropped /\ lost' = lost
    BY <1>2 DEF L!Begin, L!Prompt, L!ContinueSteering, L!ContinueFollowUp,
                L!ContinueTail, L!BeginRun, L!book, L!fate
  <2>2. CASE L!Prompt
    <3>1. /\ << L!NextId >> \in Seq(L!Ids)
          /\ kind' \in Seq(L!Kinds) /\ Len(kind') <= MaxMsgs
      BY <1>e, <2>2 DEF L!Prompt, L!Kinds
    <3>2. batch' = << L!NextId >> /\ steering' = steering /\ followUp' = followUp
      BY <2>2 DEF L!Prompt, L!BeginRun, L!queues
    <3>3. QED
      BY <1>a, <2>1, <3>1, <3>2 DEF MessagesTyped
  <2>3. CASE L!ContinueSteering
    <3>1. /\ batch' = L!Taken(steering, steeringMode)
          /\ steering' = L!Left(steering, steeringMode)
          /\ followUp' = followUp /\ kind' = kind
      BY <2>3 DEF L!ContinueSteering, L!BeginRun
    <3>2. QED
      BY <1>a, <1>c, <2>1, <3>1 DEF MessagesTyped
  <2>4. CASE L!ContinueFollowUp
    <3>1. /\ batch' = L!Taken(followUp, followUpMode)
          /\ followUp' = L!Left(followUp, followUpMode)
          /\ steering' = steering /\ kind' = kind
      BY <2>4 DEF L!ContinueFollowUp, L!BeginRun
    <3>2. QED
      BY <1>a, <1>c, <2>1, <3>1 DEF MessagesTyped
  <2>5. CASE L!ContinueTail
    BY <1>a, <1>b, <2>1, <2>5 DEF L!ContinueTail, L!BeginRun, L!queues, MessagesTyped
  <2>6. QED
    BY <1>2, <2>2, <2>3, <2>4, <2>5 DEF L!Begin
<1>3. CASE L!CommitMessage
  <2>1. Head(batch) \in L!Ids /\ Tail(batch) \in Seq(L!Ids)
    BY <1>a, <1>3, HeadTailProperties DEF L!CommitMessage, MessagesTyped
  <2>2. committed' \in Seq(L!Ids) /\ batch' \in Seq(L!Ids)
    BY <1>a, <1>3, <2>1 DEF L!CommitMessage, MessagesTyped
  <2>3. QED
    BY <1>a, <1>3, <2>2 DEF L!CommitMessage, L!queues, L!fate, MessagesTyped
<1>4. CASE L!CommitFails \/ L!AnswerFails \/ L!ToolsFail \/ L!HookPanics
  <2>1. /\ batch' = << >> /\ pending' = << >>
        /\ lost' = lost \cup L!Elems(batch) \cup L!Elems(pending)
        /\ committed' = committed /\ steering' = steering /\ followUp' = followUp
        /\ kind' = kind /\ dropped' = dropped
    BY <1>4
       DEF L!CommitFails, L!AnswerFails, L!ToolsFail, L!HookPanics, L!FinalizeFails,
           L!book, L!queues
  <2>2. lost' \subseteq L!Ids
    BY <1>a, <1>d, <2>1 DEF MessagesTyped
  <2>3. QED
    BY <1>a, <1>b, <2>1, <2>2 DEF MessagesTyped
<1>5. CASE L!CommitDone \/ L!Request \/ L!FinishError \/ L!Finish
           \/ L!HandleRunFailure \/ L!FinishRun
  BY <1>5, <1>f
     DEF L!CommitDone, L!Request, L!FinishError, L!Finish, L!HandleRunFailure,
         L!FinishRun, messages, L!queues, L!loop, L!book, L!fate
<1>6. CASE L!AnswerComplete \/ L!AnswerError \/ L!AnswerAborted \/ L!Tools
  BY <1>6, <1>f
     DEF L!AnswerComplete, L!AnswerError, L!AnswerAborted, L!Answer, L!Tools,
         messages, L!queues, L!fate
<1>7. CASE L!FirstPoll \/ L!Poll
  <2>1. /\ pending' \in { << >>, L!Taken(steering, steeringMode) }
        /\ steering' \in { steering, L!Left(steering, steeringMode) }
        /\ committed' = committed /\ batch' = batch /\ followUp' = followUp
        /\ kind' = kind /\ dropped' = dropped /\ lost' = lost
    BY <1>7 DEF L!FirstPoll, L!Poll, L!book, L!fate
  <2>2. QED
    BY <1>a, <1>b, <1>c, <2>1 DEF MessagesTyped
<1>8. CASE L!Check
  BY <1>a, <1>b, <1>8 DEF L!Check, L!queues, L!book, L!fate, MessagesTyped
<1>9. CASE L!Prepare
  <2>1. /\ committed' = committed /\ pending' = pending /\ steering' = steering
        /\ followUp' = followUp /\ dropped' = dropped /\ lost' = lost
    BY <1>9 DEF L!Prepare, L!queues, L!book, L!fate
  <2>2. CASE L!Hand("prepared") /\ batch' = << L!NextId >>
    BY <1>a, <1>e, <2>1, <2>2 DEF L!Kinds, MessagesTyped
  <2>3. CASE batch' = << >> /\ UNCHANGED kind
    BY <1>a, <1>b, <2>1, <2>3 DEF MessagesTyped
  <2>4. QED
    BY <1>9, <2>2, <2>3 DEF L!Prepare
<1>10. CASE L!Repoll
  <2>1. \A s, t \in Seq(L!Ids) : s \o t \in Seq(L!Ids)
    BY ConcatProperties
  <2>2. PICK t \in Seq(L!Ids) :
          /\ batch' = batch \o t
          /\ steering' \in { steering, L!Left(steering, steeringMode) }
    BY <1>a, <1>c, <1>10 DEF L!Repoll, MessagesTyped
  <2>3. batch' \in Seq(L!Ids) /\ steering' \in Seq(L!Ids)
    BY <1>a, <1>c, <2>1, <2>2 DEF MessagesTyped
  <2>4. QED
    BY <1>a, <1>b, <1>10, <2>3 DEF L!Repoll, L!book, L!fate, MessagesTyped
<1>11. CASE L!FollowUps
  <2>1. pending' \in Seq(L!Ids) /\ followUp' \in Seq(L!Ids)
    BY <1>a, <1>c, <1>11 DEF L!FollowUps, MessagesTyped
  <2>2. QED
    BY <1>a, <1>11, <2>1 DEF L!FollowUps, L!book, L!fate, MessagesTyped
<1>12. CASE UNCHANGED loopVars
  BY <1>12, <1>f DEF loopVars, messages
<1>13. QED
  BY <1>1, <1>2, <1>3, <1>4, <1>5, <1>6, <1>7, <1>8, <1>9, <1>10, <1>11, <1>12
     DEF L!Next, L!LoopStep

\* TypeOK in the order in which its parts are proved.
FlagsTyped ==
  /\ step \in { "idle", "opening", "firstPoll", "check", "prepare", "repoll",
               "commit", "request", "streaming", "finishError", "tools",
               "finish", "poll", "followUps", "failing", "settle" }
  /\ steeringMode \in L!Modes /\ followUpMode \in L!Modes
  /\ skip \in BOOLEAN /\ hasMore \in BOOLEAN /\ explicit \in BOOLEAN
  /\ lastTurn \in BOOLEAN /\ aborted \in BOOLEAN /\ hookFailed \in BOOLEAN
  /\ tail \in { "none", "user", "assistant", "tool" }

LEMMA TypeParts ==
  /\ L!TypeOK <=> FlagsTyped /\ MessagesTyped /\ EventsTyped
  /\ L!TypeOK' <=> FlagsTyped' /\ MessagesTyped' /\ EventsTyped'
<1>1. L!TypeOK <=> FlagsTyped /\ MessagesTyped /\ EventsTyped
  BY DEF L!TypeOK, FlagsTyped, MessagesTyped, EventsTyped
<1>2. L!TypeOK' <=> FlagsTyped' /\ MessagesTyped' /\ EventsTyped'
  BY DEF L!TypeOK, FlagsTyped, MessagesTyped, EventsTyped
<1>3. QED
  BY <1>1, <1>2

LEMMA FlagsTypeStep ==
  ASSUME L!TypeOK, [L!Next]_loopVars
  PROVE  FlagsTyped'
<1>a. FlagsTyped
  BY TypeParts
<1> USE DEF FlagsTyped
<1>1. CASE L!Others
  BY <1>a, <1>1, ZenonT(60)
     DEF L!Others, L!Steer, L!FollowUp, L!ClearQueues, L!Abort, L!modes, L!loop, L!book
<1>2. CASE L!Begin
  <2>1. ASSUME NEW prompts, NEW skipPoll \in BOOLEAN, L!BeginRun(prompts, skipPoll)
        PROVE  FlagsTyped'
    BY <1>a, <2>1 DEF L!BeginRun, L!modes, L!book
  <2>2. QED
    BY <1>2, <2>1
       DEF L!Begin, L!Prompt, L!ContinueSteering, L!ContinueFollowUp, L!ContinueTail
<1>3. CASE L!CommitMessage \/ L!CommitDone \/ L!HookPanics
  BY <1>a, <1>3 DEF L!CommitMessage, L!CommitDone, L!HookPanics, L!modes, L!loop, L!book
<1>4. CASE L!CommitFails \/ L!AnswerFails \/ L!ToolsFail
  BY <1>a, <1>4
     DEF L!CommitFails, L!AnswerFails, L!ToolsFail, L!FinalizeFails, L!modes, L!book
<1>5. CASE L!FirstPoll \/ L!Check \/ L!Prepare \/ L!Repoll
  BY <1>a, <1>5, ZenonT(60) DEF L!FirstPoll, L!Check, L!Prepare, L!Repoll, L!modes, L!book
<1>6. CASE L!Request \/ L!AnswerComplete \/ L!AnswerError \/ L!AnswerAborted
  BY <1>a, <1>6
     DEF L!Request, L!AnswerComplete, L!AnswerError, L!AnswerAborted, L!Answer,
         L!modes, L!loop, L!book
<1>7. CASE L!Tools \/ L!FinishError \/ L!Finish
  BY <1>a, <1>7, ZenonT(60) DEF L!Tools, L!FinishError, L!Finish, L!modes, L!loop, L!book
<1>8. CASE L!Poll \/ L!FollowUps
  BY <1>a, <1>8 DEF L!Poll, L!FollowUps, L!modes, L!book
<1>9. CASE L!HandleRunFailure \/ L!FinishRun
  BY <1>a, <1>9 DEF L!HandleRunFailure, L!FinishRun, L!modes, L!loop, L!book
<1>10. CASE UNCHANGED loopVars
  BY <1>a, <1>10 DEF loopVars
<1>11. QED
  BY <1>1, <1>2, <1>3, <1>4, <1>5, <1>6, <1>7, <1>8, <1>9, <1>10
     DEF L!Next, L!LoopStep

LEMMA TypeStepOfLoop ==
  ASSUME L!TypeOK, [L!Next]_loopVars
  PROVE  L!TypeOK'
BY FlagsTypeStep, MessagesTypeStep, EventsTypeStep, TypeParts

LEMMA PlacesStep ==
  ASSUME L!LoopInv, [L!Next]_loopVars
  PROVE  L!HeldWhere' /\ L!FirstTurn'
<1> USE DEF L!LoopInv, L!HeldWhere, L!FirstTurn
<1>1. CASE L!Others
  BY <1>1
     DEF L!Others, L!Steer, L!FollowUp, L!ClearQueues, L!Abort, L!loop
<1>2. CASE L!Begin
  <2>1. ASSUME NEW prompts, NEW skipPoll, L!BeginRun(prompts, skipPoll)
        PROVE  L!HeldWhere' /\ L!FirstTurn'
    BY <2>1 DEF L!BeginRun
  <2>2. QED
    BY <1>2, <2>1
       DEF L!Begin, L!Prompt, L!ContinueSteering, L!ContinueFollowUp, L!ContinueTail
<1>3. CASE L!CommitMessage \/ L!CommitDone \/ L!HookPanics
  BY <1>3 DEF L!CommitMessage, L!CommitDone, L!HookPanics, L!loop
<1>4. CASE L!CommitFails \/ L!AnswerFails \/ L!ToolsFail
  BY <1>4 DEF L!CommitFails, L!AnswerFails, L!ToolsFail, L!FinalizeFails
<1>5. CASE L!FirstPoll \/ L!Check \/ L!Prepare \/ L!Repoll
  BY <1>5 DEF L!FirstPoll, L!Check, L!Prepare, L!Repoll
<1>6. CASE L!Request \/ L!AnswerComplete \/ L!AnswerError \/ L!AnswerAborted
  BY <1>6
     DEF L!Request, L!AnswerComplete, L!AnswerError, L!AnswerAborted, L!Answer, L!loop
<1>7. CASE L!Tools \/ L!FinishError \/ L!Finish
  BY <1>7 DEF L!Tools, L!FinishError, L!Finish, L!loop
<1>8. CASE L!Poll \/ L!FollowUps
  BY <1>8 DEF L!Poll, L!FollowUps
<1>9. CASE L!HandleRunFailure \/ L!FinishRun
  BY <1>9 DEF L!HandleRunFailure, L!FinishRun, L!loop
<1>10. CASE UNCHANGED loopVars
  BY <1>10 DEF loopVars
<1>11. QED
  BY <1>1, <1>2, <1>3, <1>4, <1>5, <1>6, <1>7, <1>8, <1>9, <1>10
     DEF L!Next, L!LoopStep

LEMMA QueuesStep ==
  ASSUME L!LoopInv, [L!Next]_loopVars
  PROVE  L!KindsOfQueues'
<1>a. /\ \A m \in L!Elems(steering) : m \in 1 .. Len(kind) /\ kind[m] = "steering"
      /\ \A m \in L!Elems(followUp) : m \in 1 .. Len(kind) /\ kind[m] = "followUp"
  <2>1. L!Elems(steering) \cup L!Elems(followUp) \subseteq L!Elems(L!Held)
    BY LoopTyped, ElemsOfFive, OrderlyMeans DEF L!LoopInv
  <2>2. QED
    BY <2>1
       DEF L!LoopInv, L!KindsOfQueues, L!Sent, L!MessagesOnceInOrder, L!Conservation
<1>k. kind \in Seq(L!Kinds)
  BY LoopTyped DEF L!LoopInv
<1>b. ASSUME \/ kind' = kind
             \/ \E x \in L!Kinds : kind' = Append(kind, x),
             \A m \in L!Elems(steering') :
               m \in L!Elems(steering) \/ kind'[m] = "steering",
             \A m \in L!Elems(followUp') :
               m \in L!Elems(followUp) \/ kind'[m] = "followUp"
      PROVE  L!KindsOfQueues'
  <2>1. \A m \in 1 .. Len(kind) : kind'[m] = kind[m]
    BY <1>b, <1>k
  <2>2. QED
    BY <1>a, <1>b, <2>1 DEF L!KindsOfQueues, L!Sent
<1>c. \A mode : /\ L!Elems(L!Left(steering, mode)) \subseteq L!Elems(steering)
                /\ L!Elems(L!Left(followUp, mode)) \subseteq L!Elems(followUp)
  BY LoopTyped, TakenThenLeft DEF L!LoopInv
<1>1. CASE L!Steer
  <2>1. \A m \in L!Elems(steering') : m \in L!Elems(steering) \/ m = Len(kind) + 1
    BY <1>1, LoopTyped DEF L!LoopInv, L!Steer, L!NextId, L!Elems
  <2>2. kind' = Append(kind, "steering") /\ followUp' = followUp
    BY <1>1 DEF L!Steer, L!Hand
  <2>3. QED
    BY <1>b, <1>k, <2>1, <2>2 DEF L!Kinds
<1>2. CASE L!FollowUp
  <2>1. \A m \in L!Elems(followUp') : m \in L!Elems(followUp) \/ m = Len(kind) + 1
    BY <1>2, LoopTyped DEF L!LoopInv, L!FollowUp, L!NextId, L!Elems
  <2>2. kind' = Append(kind, "followUp") /\ steering' = steering
    BY <1>2 DEF L!FollowUp, L!Hand
  <2>3. QED
    BY <1>b, <1>k, <2>1, <2>2 DEF L!Kinds
<1>3. CASE L!ClearQueues
  <2>1. L!Elems(<< >>) = { }
    BY DEF L!Elems
  <2>2. QED
    BY <1>3, <1>b, <2>1 DEF L!ClearQueues
<1>4. CASE L!Prompt \/ L!Prepare
  <2>1. steering' = steering /\ followUp' = followUp
    BY <1>4 DEF L!Prompt, L!Prepare, L!queues
  <2>2. kind' = kind \/ \E x \in L!Kinds : kind' = Append(kind, x)
    BY <1>4 DEF L!Prompt, L!Prepare, L!Hand, L!Kinds
  <2>3. QED
    BY <1>b, <2>1, <2>2
<1>5. CASE L!ContinueSteering \/ L!FirstPoll \/ L!Repoll \/ L!Poll
  <2>1. /\ steering' \in { steering, L!Left(steering, steeringMode) }
        /\ followUp' = followUp /\ kind' = kind
    BY <1>5 DEF L!ContinueSteering, L!FirstPoll, L!Repoll, L!Poll
  <2>2. QED
    BY <1>b, <1>c, <2>1
<1>6. CASE L!ContinueFollowUp \/ L!FollowUps
  <2>1. /\ steering' = steering /\ kind' = kind
        /\ followUp' = L!Left(followUp, followUpMode)
    BY <1>6 DEF L!ContinueFollowUp, L!FollowUps
  <2>2. QED
    BY <1>b, <1>c, <2>1
<1>7. CASE UNCHANGED << steering, followUp, kind >>
  BY <1>7, <1>b
<1>8. CASE L!LoopStep /\ ~(L!FirstPoll \/ L!Repoll \/ L!Poll \/ L!Prepare \/ L!FollowUps)
  <2>1. UNCHANGED << steering, followUp, kind >>
    BY <1>8
       DEF L!LoopStep, L!CommitMessage, L!CommitFails, L!CommitDone, L!HookPanics,
           L!Check, L!Request, L!AnswerComplete, L!AnswerError, L!AnswerAborted,
           L!AnswerFails, L!Tools, L!ToolsFail, L!FinishError, L!Finish,
           L!HandleRunFailure, L!FinishRun, L!Answer, L!FinalizeFails, L!queues
  <2>2. QED
    BY <1>7, <2>1
<1>9. CASE L!Abort \/ L!ContinueTail \/ UNCHANGED loopVars
  BY <1>7, <1>9 DEF L!Abort, L!ContinueTail, L!queues, loopVars
<1>10. QED
  BY <1>1, <1>2, <1>3, <1>4, <1>5, <1>6, <1>8, <1>9
     DEF L!Next, L!Others, L!Begin

-----------------------------------------------------------------------------
(* Events.                                                                 *)

\* What is known when the events are at a frame.
At(v, x) ==
  /\ v.frame = x
  /\ v.seen.start <=> x # "none"
  /\ v.seen.turn <=> x \in { "turn", "message" }
  /\ v.seen.end <=> x = "closed"
  /\ v.seen.message <=> x = "message"

LEMMA SeeAt ==
  /\ At(L!NoEvents, "none")
  /\ \A v : At(v, "none") => At(L!See(v, "AgentStart"), "agent")
  /\ \A v : At(v, "agent") => At(L!See(v, "TurnStart"), "turn")
  /\ \A v : At(v, "turn") => At(L!See(v, "MessageStart"), "message")
  /\ \A v : At(v, "message") => At(L!See(v, "MessageEnd"), "turn")
  /\ \A v : At(v, "turn") => At(L!See(v, "TurnEnd"), "agent")
  /\ \A v : At(v, "agent") => At(L!See(v, "AgentEnd"), "closed")
<1> USE DEF At, L!See, L!Track, L!Nest
<1>1. At(L!NoEvents, "none")
  BY DEF L!NoEvents, L!Fresh
<1>2. \A v : At(v, "none") => At(L!See(v, "AgentStart"), "agent")
  OBVIOUS
<1>3. \A v : At(v, "agent") => At(L!See(v, "TurnStart"), "turn")
  OBVIOUS
<1>4. \A v : At(v, "turn") => At(L!See(v, "MessageStart"), "message")
  OBVIOUS
<1>5. \A v : At(v, "message") => At(L!See(v, "MessageEnd"), "turn")
  OBVIOUS
<1>6. \A v : At(v, "turn") => At(L!See(v, "TurnEnd"), "agent")
  OBVIOUS
<1>7. \A v : At(v, "agent") => At(L!See(v, "AgentEnd"), "closed")
  OBVIOUS
<1>8. QED
  BY <1>1, <1>2, <1>3, <1>4, <1>5, <1>6, <1>7

\* FrameInv in these terms.
Framed ==
  ~hookFailed =>
    /\ frame # "broken" /\ At(L!View, frame)
    /\ step = "idle" => frame \in { "none", "closed" }
    /\ step \in { "opening", "firstPoll", "commit", "request", "tools", "finish",
                 "finishError" } => frame = "turn"
    /\ step = "streaming" => frame = "message"
    /\ step \in { "prepare", "repoll", "poll", "followUps" } => frame = "agent"
    /\ step = "check" => frame = IF lastTurn THEN "agent" ELSE "turn"
    /\ step = "settle" => frame = "closed"
    /\ step = "failing" => frame \in { "agent", "turn", "message" }

LEMMA FramedMeans == (L!FrameInv <=> Framed) /\ (L!FrameInv' <=> Framed')
<1>1. L!FrameInv <=> Framed
  BY DEF L!FrameInv, Framed, At, L!View
<1>2. L!FrameInv' <=> Framed'
  BY DEF L!FrameInv, Framed, At, L!View
<1>3. QED
  BY <1>1, <1>2

LEMMA EmittedAt ==
  ASSUME NEW v, NEW x, L!Emitted(v), At(v, x)
  PROVE  frame' = x /\ At(L!View, x)'
BY DEF L!Emitted, At, L!View

LEMMA FrameStep ==
  ASSUME L!LoopInv, [L!Next]_loopVars
  PROVE  L!FrameInv'
<1>a. Framed /\ L!FirstTurn /\ L!TypeOK
  BY FramedMeans DEF L!LoopInv
<1> SUFFICES Framed'
  BY FramedMeans
<1>1. CASE L!Others
  BY <1>a, <1>1
     DEF L!Others, L!Steer, L!FollowUp, L!ClearQueues, L!Abort, L!loop, L!events, Framed,
         At, L!View
<1>2. CASE L!Begin
  <2>1. ASSUME NEW prompts, NEW skipPoll, L!BeginRun(prompts, skipPoll)
        PROVE  Framed'
    <3>1. PICK v : L!Emitted(v) /\ At(v, "turn")
      BY <2>1, SeeAt, ZenonT(40) DEF L!BeginRun
    <3>2. frame' = "turn" /\ At(L!View, "turn")'
      BY <3>1, EmittedAt
    <3>3. step' \in { "opening", "firstPoll" }
      BY <2>1 DEF L!BeginRun
    <3>4. QED
      BY <3>2, <3>3 DEF Framed
  <2>2. QED
    BY <1>2, <2>1
       DEF L!Begin, L!Prompt, L!ContinueSteering, L!ContinueFollowUp, L!ContinueTail
<1>3. CASE L!CommitDone \/ L!HookPanics \/ L!FirstPoll \/ L!Check \/ L!Prepare
           \/ L!Poll \/ L!FinishRun
  BY <1>a, <1>3
     DEF L!CommitDone, L!HookPanics, L!FirstPoll, L!Check, L!Prepare, L!Poll,
         L!FinishRun, L!loop, L!events, L!FirstTurn, L!TypeOK, Framed, At, L!View
<1>4. CASE L!CommitFails \/ L!AnswerFails \/ L!ToolsFail
  BY <1>4
     DEF L!CommitFails, L!AnswerFails, L!ToolsFail, L!FinalizeFails, Framed
<1>5. CASE L!CommitMessage \/ L!Tools
  <2>1. CASE hookFailed
    BY <1>5, <2>1 DEF L!CommitMessage, L!Tools, Framed
  <2>2. CASE ~hookFailed
    <3>1. At(L!View, "turn")
      BY <1>a, <1>5, <2>2 DEF L!CommitMessage, L!Tools, Framed
    <3>2. PICK v : L!Emitted(v) /\ At(v, "turn")
      BY <1>5, <3>1, SeeAt, ZenonT(40) DEF L!CommitMessage, L!Tools, L!EmitBoth
    <3>3. step' \in { "opening", "commit", "finish" }
      BY <1>5 DEF L!CommitMessage, L!Tools
    <3>4. QED
      BY <3>2, <3>3, EmittedAt DEF Framed
  <2>3. QED
    BY <2>1, <2>2
<1>6. CASE L!Repoll
  <2>1. CASE hookFailed
    BY <1>6, <2>1 DEF L!Repoll, Framed
  <2>2. CASE ~hookFailed
    <3>1. At(L!View, "agent")
      BY <1>a, <1>6, <2>2 DEF L!Repoll, Framed
    <3>2. PICK v : L!Emitted(v) /\ At(v, "turn")
      BY <1>6, <3>1, SeeAt, ZenonT(40) DEF L!Repoll
    <3>3. step' = "commit"
      BY <1>6 DEF L!Repoll
    <3>4. QED
      BY <3>2, <3>3, EmittedAt DEF Framed
  <2>3. QED
    BY <2>1, <2>2
<1>7. CASE L!Request
  <2>1. CASE hookFailed
    BY <1>7, <2>1 DEF L!Request, Framed
  <2>2. CASE ~hookFailed
    <3>1. At(L!View, "turn")
      BY <1>a, <1>7, <2>2 DEF L!Request, Framed
    <3>2. PICK v : L!Emitted(v) /\ At(v, "message")
      BY <1>7, <3>1, SeeAt, ZenonT(40) DEF L!Request, L!Emit
    <3>3. step' = "streaming"
      BY <1>7 DEF L!Request
    <3>4. QED
      BY <3>2, <3>3, EmittedAt DEF Framed
  <2>3. QED
    BY <2>1, <2>2
<1>8. CASE L!AnswerComplete \/ L!AnswerError \/ L!AnswerAborted
  <2>0. PICK next \in { "finish", "tools", "finishError" } : L!Answer(next)
    BY <1>8 DEF L!AnswerComplete, L!AnswerError, L!AnswerAborted
  <2>1. CASE hookFailed
    BY <2>0, <2>1 DEF L!Answer, Framed
  <2>2. CASE ~hookFailed
    <3>1. At(L!View, "message")
      BY <1>a, <2>0, <2>2 DEF L!Answer, Framed
    <3>2. PICK v : L!Emitted(v) /\ At(v, "turn")
      BY <2>0, <3>1, SeeAt, ZenonT(40) DEF L!Answer, L!Emit
    <3>3. step' = next
      BY <2>0 DEF L!Answer
    <3>4. QED
      BY <3>2, <3>3, EmittedAt DEF Framed
  <2>3. QED
    BY <2>1, <2>2
<1>9. CASE L!FinishError \/ L!Finish
  <2>1. CASE hookFailed
    BY <1>9, <2>1 DEF L!FinishError, L!Finish, Framed
  <2>2. CASE ~hookFailed
    <3>1. At(L!View, "turn")
      BY <1>a, <1>9, <2>2 DEF L!FinishError, L!Finish, Framed
    <3>2. \/ L!EmitBoth("TurnEnd", "AgentEnd") /\ step' = "settle"
          \/ L!Emit("TurnEnd") /\ step' = "poll"
      BY <1>9 DEF L!FinishError, L!Finish
    <3>3. CASE L!EmitBoth("TurnEnd", "AgentEnd") /\ step' = "settle"
      <4>1. PICK v : L!Emitted(v) /\ At(v, "closed")
        BY <3>1, <3>3, SeeAt, ZenonT(40) DEF L!EmitBoth
      <4>2. QED
        BY <3>3, <4>1, EmittedAt DEF Framed
    <3>4. CASE L!Emit("TurnEnd") /\ step' = "poll"
      <4>1. PICK v : L!Emitted(v) /\ At(v, "agent")
        BY <3>1, <3>4, SeeAt, ZenonT(40) DEF L!Emit
      <4>2. QED
        BY <3>4, <4>1, EmittedAt DEF Framed
    <3>5. QED
      BY <3>2, <3>3, <3>4
  <2>3. QED
    BY <2>1, <2>2
<1>10. CASE L!FollowUps
  <2>1. CASE hookFailed
    BY <1>10, <2>1 DEF L!FollowUps, Framed
  <2>2. CASE ~hookFailed
    <3>1. At(L!View, "agent") /\ frame = "agent" /\ lastTurn
      BY <1>a, <1>10, <2>2 DEF L!FollowUps, L!FirstTurn, Framed
    <3>2. CASE step' = "check" /\ UNCHANGED L!events
      BY <1>a, <1>10, <2>2, <3>1, <3>2 DEF L!FollowUps, L!events, Framed, At, L!View
    <3>3. CASE L!Emit("AgentEnd") /\ step' = "settle"
      <4>1. PICK v : L!Emitted(v) /\ At(v, "closed")
        BY <3>1, <3>3, SeeAt, ZenonT(40) DEF L!Emit
      <4>2. QED
        BY <3>3, <4>1, EmittedAt DEF Framed
    <3>4. QED
      BY <1>10, <3>2, <3>3 DEF L!FollowUps
  <2>3. QED
    BY <2>1, <2>2
<1>11. CASE L!HandleRunFailure
  <2>1. CASE hookFailed
    BY <1>11, <2>1 DEF L!HandleRunFailure, Framed
  <2>2. CASE ~hookFailed
    <3>1. frame \in { "agent", "turn", "message" } /\ At(L!View, frame)
      BY <1>a, <1>11, <2>2 DEF L!HandleRunFailure, Framed
    <3>2. /\ seen.start /\ ~seen.end
          /\ seen.turn <=> frame \in { "turn", "message" }
          /\ seen.message <=> frame = "message"
      BY <3>1 DEF At, L!View
    <3>3. PICK t : t = IF seen.turn THEN L!View ELSE L!See(L!View, "TurnStart")
      OBVIOUS
    <3>4. L!Emitted(L!ReportedIn(t)) /\ step' = "settle"
      BY <1>11, <3>2, <3>3 DEF L!HandleRunFailure
    <3>5. At(t, IF frame = "message" THEN "message" ELSE "turn")
      BY <3>1, <3>2, <3>3, SeeAt
    <3>6. At(L!ReportedIn(t), "closed")
      <4>1. At(IF seen.message THEN t ELSE L!See(t, "MessageStart"), "message")
        BY <3>2, <3>5, SeeAt
      <4>2. QED
        BY <4>1, SeeAt, ZenonT(40) DEF L!ReportedIn
    <3>7. PICK v : L!Emitted(v) /\ At(v, "closed")
      BY <3>4, <3>6, ZenonT(40)
    <3>8. QED
      BY <3>4, <3>7, EmittedAt DEF Framed
  <2>3. QED
    BY <2>1, <2>2
<1>12. CASE UNCHANGED loopVars
  BY <1>a, <1>12 DEF loopVars, Framed, At, L!View
<1>13. QED
  BY <1>1, <1>2, <1>3, <1>4, <1>5, <1>6, <1>7, <1>8, <1>9, <1>10, <1>11, <1>12
     DEF L!Next, L!LoopStep

-----------------------------------------------------------------------------
(* Steering messages of a turn.                                            *)

\* How many of a set of messages were steered in: k has the kind of each.
None(k, S) == \A m \in S : k[m] # "steering"
One(k, S) == \A m, n \in S : k[m] = "steering" /\ k[n] = "steering" => m = n

LEMMA OneOrNone ==
  /\ \A k : None(k, { }) /\ One(k, { })
  /\ \A k, A, B : A \subseteq B => (One(k, B) => One(k, A)) /\ (None(k, B) => None(k, A))
  /\ \A k, A, B : None(k, A) /\ One(k, B) => One(k, A \cup B)
  /\ \A k, A : None(k, A) => One(k, A)
BY DEF None, One

\* Messages that were handed over before others have the kinds they had.
LEMMA OlderSteering ==
  ASSUME NEW k \in Seq(L!Kinds), NEW x \in L!Kinds, NEW S \in SUBSET (1 .. Len(k))
  PROVE  (One(Append(k, x), S) <=> One(k, S)) /\ (None(Append(k, x), S) <=> None(k, S))
<1>1. \A m \in S : Append(k, x)[m] = k[m]
  OBVIOUS
<1>2. QED
  BY <1>1 DEF One, None

\* SteeringInv in these terms.
Steered ==
  /\ turnMark <= Len(committed)
  /\ steeringMode = "one-at-a-time" =>
       /\ One(kind, L!InTurn) /\ One(kind, L!Elems(pending))
       /\ step \in { "opening", "firstPoll" } => skip \/ None(kind, L!InTurn)
       /\ step = "check" /\ ~lastTurn => One(kind, L!InTurn \cup L!Elems(pending))
       /\ step = "repoll" => None(kind, L!Elems(batch))

LEMMA SteeredMeans == (L!SteeringInv <=> Steered) /\ (L!SteeringInv' <=> Steered')
<1>1. L!SteeringInv <=> Steered
  BY DEF L!SteeringInv, Steered, L!OneSteering, L!NoSteering, L!Sent, One, None
<1>2. L!SteeringInv' <=> Steered'
  BY DEF L!SteeringInv, Steered, L!OneSteering, L!NoSteering, L!Sent, One, None
<1>3. QED
  BY <1>1, <1>2

\* What is of the turn is in the transcript or to be committed.
LEMMA InTurnHeld ==
  ASSUME L!TypeOK
  PROVE  /\ L!InTurn \subseteq L!Elems(committed) \cup L!Elems(batch)
         /\ L!Elems(batch) \subseteq L!InTurn
BY LoopTyped DEF L!InTurn, L!Elems, L!TypeOK

\* A committed message was of the turn already.
LEMMA InTurnCommits ==
  ASSUME L!TypeOK, L!CommitMessage, turnMark <= Len(committed)
  PROVE  L!InTurn' \subseteq L!InTurn /\ turnMark' <= Len(committed')
<1>1. /\ batch # << >> /\ turnMark' = turnMark /\ batch' = Tail(batch)
      /\ committed' = Append(committed, Head(batch))
  BY DEF L!CommitMessage, L!EmitBoth
<1>2. committed \in Seq(Nat) /\ batch \in Seq(Nat) /\ turnMark \in Nat
  BY LoopTyped DEF L!TypeOK
<1>3. Head(batch) \in L!Elems(batch) /\ L!Elems(Tail(batch)) \subseteq L!Elems(batch)
  BY <1>1, <1>2 DEF L!Elems
<1>4. { committed'[i] : i \in turnMark + 1 .. Len(committed') }
        \subseteq { committed[i] : i \in turnMark + 1 .. Len(committed) } \cup { Head(batch) }
  BY <1>1, <1>2
<1>5. L!Elems(batch') \subseteq L!Elems(batch)
  BY <1>1, <1>3
<1>6. turnMark' <= Len(committed')
  BY <1>1, <1>2
<1>7. { committed'[i] : i \in turnMark' + 1 .. Len(committed') }
        \subseteq { committed[i] : i \in turnMark + 1 .. Len(committed) } \cup { Head(batch) }
  BY <1>1, <1>4
<1>8. L!InTurn' \subseteq L!InTurn
  BY <1>3, <1>5, <1>7 DEF L!InTurn
<1>9. QED
  BY <1>6, <1>8

\* A turn begins with what is to be committed in it.
LEMMA InTurnBegins ==
  ASSUME L!TypeOK, committed' = committed, turnMark' = Len(committed)
  PROVE  L!InTurn' = L!Elems(batch)' /\ turnMark' <= Len(committed')
<1>1. committed \in Seq(Nat)
  BY LoopTyped
<1>2. Len(committed) + 1 .. Len(committed) = { }
  BY <1>1
<1>3. QED
  BY <1>1, <1>2 DEF L!InTurn

\* What a turn has of steering messages after a step.
LEMMA SteeringStep ==
  ASSUME L!LoopInv, [L!Next]_loopVars
  PROVE  L!SteeringInv'
<1>a. L!TypeOK /\ L!HeldWhere /\ L!FirstTurn /\ L!KindsOfQueues /\ Steered
  BY SteeredMeans DEF L!LoopInv
<1> SUFFICES Steered'
  BY SteeredMeans
<1>b. /\ L!InTurn \subseteq 1 .. Len(kind) /\ L!Elems(batch) \subseteq 1 .. Len(kind)
      /\ L!Elems(pending) \subseteq 1 .. Len(kind)
      /\ L!Elems(steering) \subseteq 1 .. Len(kind)
      /\ L!Elems(followUp) \subseteq 1 .. Len(kind)
  <2>1. L!Elems(L!Held) \subseteq 1 .. Len(kind)
    BY DEF L!LoopInv, L!MessagesOnceInOrder, L!Conservation
  <2>2. L!Elems(committed) \cup L!Elems(batch) \cup L!Elems(pending)
          \cup L!Elems(steering) \cup L!Elems(followUp) \subseteq L!Elems(L!Held)
    BY <1>a, LoopTyped, ElemsOfFive, OrderlyMeans
  <2>3. QED
    BY <1>a, <2>1, <2>2, InTurnHeld
<1>c. kind \in Seq(L!Kinds)
  BY <1>a, LoopTyped
<1>d. ASSUME kind' = kind \/ \E x \in L!Kinds : kind' = Append(kind, x),
             NEW S \in SUBSET (1 .. Len(kind))
      PROVE  (One(kind', S) <=> One(kind, S)) /\ (None(kind', S) <=> None(kind, S))
  BY <1>c, <1>d, OlderSteering, ZenonT(60)
<1>e. L!Elems(<< >>) = { }
  BY DEF L!Elems
\* What one poll takes, and what comes from the other queue.
<1>p. ASSUME steeringMode = "one-at-a-time"
      PROVE  One(kind, L!Elems(L!Taken(steering, steeringMode)))
  BY <1>a, <1>p, LoopTyped, TakenThenLeft DEF One
<1>f. None(kind, L!Elems(L!Taken(followUp, followUpMode)))
  <2>1. L!Elems(L!Taken(followUp, followUpMode)) \subseteq L!Elems(followUp)
    BY <1>a, LoopTyped, TakenThenLeft
  <2>2. None(kind, L!Elems(followUp))
    BY <1>a DEF L!KindsOfQueues, L!Sent, None
  <2>3. QED
    BY <2>1, <2>2, OneOrNone
\* A step that adds nothing to the turn, to a place that asks for no more.
<1>s. ASSUME kind' = kind \/ \E x \in L!Kinds : kind' = Append(kind, x),
             turnMark' <= Len(committed'), steeringMode' = steeringMode,
             L!InTurn' \subseteq L!InTurn, L!Elems(pending)' \subseteq L!Elems(pending),
             \/ step' \notin { "opening", "firstPoll", "check", "repoll" }
             \/ /\ step' = step /\ skip' = skip /\ lastTurn' = lastTurn
                /\ L!Elems(batch)' \subseteq L!Elems(batch)
             \/ step' = "firstPoll" /\ step = "opening" /\ skip' = skip
      PROVE  Steered'
  <2>1. CASE steeringMode # "one-at-a-time"
    BY <1>s, <2>1 DEF Steered
  <2>2. CASE steeringMode = "one-at-a-time"
    <3>1. One(kind', L!InTurn') /\ One(kind', L!Elems(pending)')
      BY <1>a, <1>b, <1>d, <1>s, <2>2, OneOrNone DEF Steered
    <3>2. step' \in { "opening", "firstPoll" } => skip' \/ None(kind', L!InTurn')
      <4>1. None(kind, L!InTurn) => None(kind', L!InTurn')
        BY <1>b, <1>d, <1>s, OneOrNone
      <4>2. step' \in { "opening", "firstPoll" } =>
              step \in { "opening", "firstPoll" } /\ skip' = skip
        BY <1>s
      <4>3. QED
        BY <1>a, <2>2, <4>1, <4>2 DEF Steered
    <3>3. step' = "check" /\ ~lastTurn' => One(kind', L!InTurn' \cup L!Elems(pending)')
      <4>1. L!InTurn' \cup L!Elems(pending)' \subseteq L!InTurn \cup L!Elems(pending)
        BY <1>s
      <4>2. L!InTurn \cup L!Elems(pending) \subseteq 1 .. Len(kind)
        BY <1>b
      <4>3. QED
        BY <1>a, <1>d, <1>s, <2>2, <4>1, <4>2, OneOrNone DEF Steered
    <3>4. step' = "repoll" => None(kind', L!Elems(batch)')
      BY <1>a, <1>b, <1>d, <1>s, <2>2, OneOrNone DEF Steered
    <3>5. QED
      BY <1>s, <3>1, <3>2, <3>3, <3>4 DEF Steered
  <2>3. QED
    BY <2>1, <2>2
<1>1. CASE L!Others
  <2>1. kind' = kind \/ \E x \in L!Kinds : kind' = Append(kind, x)
    BY <1>1 DEF L!Others, L!Steer, L!FollowUp, L!ClearQueues, L!Abort, L!Hand, L!Kinds
  <2>2. UNCHANGED << step, committed, batch, pending, turnMark, steeringMode, skip, lastTurn >>
    BY <1>1
       DEF L!Others, L!Steer, L!FollowUp, L!ClearQueues, L!Abort, L!loop, L!book,
           L!events, L!modes
  <2>3. L!InTurn' = L!InTurn /\ L!Elems(pending)' = L!Elems(pending)
        /\ L!Elems(batch)' = L!Elems(batch)
    BY <2>2 DEF L!InTurn
  <2>4. QED
    BY <1>a, <1>s, <2>1, <2>2, <2>3 DEF Steered
<1>2. CASE L!CommitMessage
  <2>1. /\ L!InTurn' \subseteq L!InTurn /\ turnMark' <= Len(committed')
    BY <1>2, <1>a, InTurnCommits DEF Steered
  <2>2. /\ UNCHANGED << step, pending, kind, steeringMode, skip, lastTurn >>
        /\ L!Elems(batch)' \subseteq L!Elems(batch) /\ L!Elems(pending)' = L!Elems(pending)
    BY <1>2, <1>a, LoopTyped, SMTT(30) DEF L!CommitMessage, L!modes, L!Elems
  <2>3. QED
    BY <1>s, <2>1, <2>2
<1>3. CASE L!CommitFails \/ L!AnswerFails \/ L!ToolsFail \/ L!HookPanics
  <2>1. /\ UNCHANGED << committed, turnMark, kind, steeringMode >>
        /\ step' = "failing" /\ batch' = << >> /\ pending' = << >>
    BY <1>3
       DEF L!CommitFails, L!AnswerFails, L!ToolsFail, L!FinalizeFails, L!HookPanics,
           L!book, L!modes, L!events
  <2>2. L!InTurn' \subseteq L!InTurn /\ L!Elems(pending)' \subseteq L!Elems(pending)
    BY <1>e, <2>1 DEF L!InTurn
  <2>3. QED
    BY <1>a, <1>s, <2>1, <2>2 DEF Steered
<1>4. CASE \/ L!CommitDone \/ L!Request \/ L!AnswerComplete \/ L!AnswerError
           \/ L!AnswerAborted \/ L!Tools \/ L!FinishError \/ L!Finish \/ L!FinishRun
           \/ UNCHANGED loopVars
  <2>1. /\ UNCHANGED << committed, turnMark, batch, pending, kind, steeringMode, skip >>
        /\ \/ step' \notin { "opening", "firstPoll", "check", "repoll" }
           \/ step' = step /\ lastTurn' = lastTurn
           \/ step' = "firstPoll" /\ step = "opening"
    BY <1>4
       DEF L!CommitDone, L!Request, L!AnswerComplete, L!AnswerError, L!AnswerAborted,
           L!Answer, L!Tools, L!FinishError, L!Finish, L!FinishRun, L!Emit, L!EmitBoth,
           L!book, L!modes, L!events, L!loop, loopVars
  <2>2. L!InTurn' = L!InTurn /\ L!Elems(pending)' = L!Elems(pending)
        /\ L!Elems(batch)' = L!Elems(batch)
    BY <2>1 DEF L!InTurn
  <2>3. QED
    BY <1>a, <1>s, <2>1, <2>2 DEF Steered
<1>5. CASE L!HandleRunFailure
  <2>1. UNCHANGED << committed, batch, pending, kind, steeringMode >> /\ step' = "settle"
    BY <1>5 DEF L!HandleRunFailure, L!modes, L!loop
  <2>2. turnMark' \in { turnMark, Len(committed) }
    BY <1>5 DEF L!HandleRunFailure, L!events
  <2>3. L!InTurn' \subseteq L!InTurn /\ turnMark' <= Len(committed')
    <3>1. CASE turnMark' = turnMark
      BY <1>a, <2>1, <3>1 DEF L!InTurn, Steered
    <3>2. CASE turnMark' = Len(committed)
      <4>1. L!InTurn' = L!Elems(batch)' /\ turnMark' <= Len(committed')
        BY <1>a, <2>1, <3>2, InTurnBegins
      <4>2. L!Elems(batch)' = L!Elems(batch)
        BY <2>1
      <4>3. QED
        BY <1>a, <4>1, <4>2, InTurnHeld
    <3>3. QED
      BY <2>2, <3>1, <3>2
  <2>4. QED
    BY <1>s, <2>1, <2>3
<1>6. CASE L!Begin
  <2>1. ASSUME NEW prompts, NEW skipPoll, L!BeginRun(prompts, skipPoll),
               kind' = kind \/ \E x \in L!Kinds : kind' = Append(kind, x),
               L!Elems(prompts) \subseteq 1 .. Len(kind'),
               steeringMode = "one-at-a-time" =>
                 /\ One(kind', L!Elems(prompts))
                 /\ skipPoll \/ None(kind', L!Elems(prompts))
        PROVE  Steered'
    <3>1. /\ UNCHANGED << committed, pending, steeringMode >>
          /\ turnMark' = Len(committed) /\ batch' = prompts /\ skip' = skipPoll
          /\ step' \notin { "check", "repoll" }
      BY <2>1 DEF L!BeginRun, L!book, L!modes
    <3>2. L!InTurn' = L!Elems(prompts) /\ turnMark' <= Len(committed')
      <4>1. L!Elems(batch)' = L!Elems(prompts)
        BY <3>1
      <4>2. QED
        BY <1>a, <3>1, <4>1, InTurnBegins
    <3>3. L!Elems(pending)' = { }
      BY <1>a, <1>e, <2>1, <3>1 DEF L!BeginRun, L!HeldWhere
    <3>4. QED
      BY <2>1, <3>1, <3>2, <3>3, OneOrNone DEF Steered
  <2>2. CASE L!Prompt
    <3>1. /\ L!BeginRun(<< Len(kind) + 1 >>, FALSE) /\ kind' = Append(kind, "prompt")
      BY <2>2 DEF L!Prompt, L!Hand, L!NextId
    <3>2. L!Elems(<< Len(kind) + 1 >>) = { Len(kind) + 1 }
      BY DEF L!Elems
    <3>3. /\ L!Elems(<< Len(kind) + 1 >>) \subseteq 1 .. Len(kind')
          /\ None(kind', L!Elems(<< Len(kind) + 1 >>))
      BY <1>c, <3>1, <3>2 DEF None
    <3>4. One(kind', L!Elems(<< Len(kind) + 1 >>)) /\ "prompt" \in L!Kinds
      BY <3>3, OneOrNone DEF L!Kinds
    <3>5. QED
      BY <2>1, <3>1, <3>3, <3>4
  <2>3. CASE L!ContinueSteering
    <3>1. /\ L!BeginRun(L!Taken(steering, steeringMode), TRUE) /\ kind' = kind
      BY <2>3 DEF L!ContinueSteering
    <3>2. L!Elems(L!Taken(steering, steeringMode)) \subseteq 1 .. Len(kind')
      <4>1. L!Elems(L!Taken(steering, steeringMode)) \subseteq L!Elems(steering)
        BY <1>a, LoopTyped, TakenThenLeft
      <4>2. QED
        BY <1>b, <3>1, <4>1
    <3>3. QED
      BY <1>p, <2>1, <3>1, <3>2
  <2>4. CASE L!ContinueFollowUp
    <3>1. /\ L!BeginRun(L!Taken(followUp, followUpMode), FALSE) /\ kind' = kind
      BY <2>4 DEF L!ContinueFollowUp
    <3>2. L!Elems(L!Taken(followUp, followUpMode)) \subseteq 1 .. Len(kind')
      BY <1>a, <1>b, <3>1, LoopTyped, TakenThenLeft
    <3>3. QED
      BY <1>f, <2>1, <3>1, <3>2, OneOrNone
  <2>5. CASE L!ContinueTail
    <3>1. L!BeginRun(<< >>, FALSE) /\ kind' = kind
      BY <2>5 DEF L!ContinueTail
    <3>2. QED
      BY <1>e, <2>1, <3>1, OneOrNone
  <2>6. QED
    BY <1>6, <2>2, <2>3, <2>4, <2>5 DEF L!Begin
\* A poll at a place where the turn has begun.
<1>7. ASSUME UNCHANGED << committed, turnMark, batch, kind, steeringMode >>,
             step' = "check",
             steeringMode = "one-at-a-time" =>
               /\ One(kind, L!Elems(pending)')
               /\ lastTurn' \/ One(kind, L!InTurn \cup L!Elems(pending)')
      PROVE  Steered'
  <2>1. L!InTurn' = L!InTurn
    BY <1>7 DEF L!InTurn
  <2>2. QED
    BY <1>a, <1>7, <2>1 DEF Steered
<1>8. CASE L!FirstPoll
  <2>1. /\ UNCHANGED << committed, turnMark, batch, kind, steeringMode >>
        /\ step = "firstPoll" /\ step' = "check"
        /\ pending' = IF skip THEN << >> ELSE L!Taken(steering, steeringMode)
    BY <1>8 DEF L!FirstPoll, L!book, L!modes, L!events
  <2>2. ASSUME steeringMode = "one-at-a-time"
        PROVE  One(kind, L!Elems(pending)') /\ One(kind, L!InTurn \cup L!Elems(pending)')
    <3>1. CASE skip
      <4>1. L!Elems(pending)' = { }
        BY <1>e, <2>1, <3>1
      <4>2. L!InTurn \cup L!Elems(pending)' = L!InTurn
        BY <4>1
      <4>3. One(kind, L!InTurn)
        BY <1>a, <2>2 DEF Steered
      <4>4. QED
        BY <4>1, <4>2, <4>3, OneOrNone
    <3>2. CASE ~skip
      <4>1. L!Elems(pending)' = L!Elems(L!Taken(steering, steeringMode))
        BY <2>1, <3>2
      <4>2. None(kind, L!InTurn)
        BY <1>a, <2>1, <2>2, <3>2 DEF Steered
      <4>3. One(kind, L!Elems(pending)')
        BY <1>p, <2>2, <4>1
      <4>4. QED
        BY <4>2, <4>3, OneOrNone
    <3>3. QED
      BY <3>1, <3>2
  <2>3. QED
    BY <1>7, <2>1, <2>2
<1>9. CASE L!Poll \/ (L!FollowUps /\ step' = "check")
  <2>1. /\ UNCHANGED << committed, turnMark, batch, kind, steeringMode, lastTurn >>
        /\ step \in { "poll", "followUps" } /\ step' = "check"
        /\ pending' \in { L!Taken(steering, steeringMode), L!Taken(followUp, followUpMode) }
    BY <1>9 DEF L!Poll, L!FollowUps, L!book, L!modes, L!events, L!Emit
  <2>2. L!Elems(pending)' \in { L!Elems(L!Taken(steering, steeringMode)),
                                L!Elems(L!Taken(followUp, followUpMode)) }
    BY <2>1
  <2>3. lastTurn'
    BY <1>a, <2>1 DEF L!FirstTurn
  <2>4. QED
    BY <1>7, <1>f, <1>p, <2>1, <2>2, <2>3, OneOrNone
<1>10. CASE L!FollowUps /\ step' # "check"
  <2>1. /\ UNCHANGED << committed, turnMark, batch, kind, steeringMode >>
        /\ step' = "settle"
    BY <1>10 DEF L!FollowUps, L!book, L!modes, L!Emit
  <2>2. L!InTurn' = L!InTurn
    BY <2>1 DEF L!InTurn
  <2>3. pending' = << >>
    BY <1>10 DEF L!FollowUps
  <2>4. L!Elems(pending)' \subseteq L!Elems(pending)
    BY <1>e, <2>3
  <2>5. QED
    BY <1>a, <1>s, <2>1, <2>2, <2>4 DEF Steered
<1>11. CASE L!Check
  <2>1. /\ UNCHANGED << committed, turnMark, kind, steeringMode, lastTurn, skip >>
        /\ step = "check"
    BY <1>11 DEF L!Check, L!book, L!modes, L!events
  <2>2. CASE step' \in { "followUps", "prepare" } /\ UNCHANGED << batch, pending >>
    <3>1. L!InTurn' = L!InTurn /\ L!Elems(pending)' = L!Elems(pending)
      BY <2>1, <2>2 DEF L!InTurn
    <3>2. QED
      BY <1>a, <1>s, <2>1, <2>2, <3>1 DEF Steered
  <2>3. CASE step' = "commit" /\ ~lastTurn /\ batch' = pending /\ pending' = << >>
    <3>1. L!Elems(pending)' = { } /\ L!Elems(batch)' = L!Elems(pending)
      BY <1>e, <2>3
    <3>2. L!InTurn' \subseteq L!InTurn \cup L!Elems(pending)
      BY <2>1, <3>1 DEF L!InTurn
    <3>3. steeringMode = "one-at-a-time" => One(kind, L!InTurn')
      BY <1>a, <2>1, <2>3, <3>2, OneOrNone DEF Steered
    <3>4. QED
      BY <1>a, <2>1, <2>3, <3>1, <3>3, OneOrNone DEF Steered
  <2>4. QED
    BY <1>11, <2>2, <2>3 DEF L!Check
<1>12. CASE L!Prepare
  <2>1. /\ UNCHANGED << committed, turnMark, pending, steeringMode, lastTurn, skip >>
        /\ step = "prepare" /\ step' = "repoll"
    BY <1>12 DEF L!Prepare, L!book, L!modes, L!events
  <2>2. /\ kind' = kind \/ \E x \in L!Kinds : kind' = Append(kind, x)
        /\ None(kind', L!Elems(batch)')
    <3>1. CASE batch' = << >> /\ kind' = kind
      <4>1. L!Elems(batch)' = { }
        BY <1>e, <3>1
      <4>2. QED
        BY <3>1, <4>1, OneOrNone
    <3>2. CASE batch' = << Len(kind) + 1 >> /\ kind' = Append(kind, "prepared")
      <4>1. L!Elems(batch)' = { Len(kind) + 1 }
        BY <3>2 DEF L!Elems
      <4>2. QED
        BY <1>c, <3>2, <4>1 DEF None, L!Kinds
    <3>3. QED
      BY <1>12, <3>1, <3>2 DEF L!Prepare, L!Hand, L!NextId
  <2>3. L!InTurn' \subseteq L!Elems(batch)' \cup L!InTurn
    BY <2>1 DEF L!InTurn
  <2>4. L!Elems(pending)' = L!Elems(pending)
    BY <2>1
  <2>5. ASSUME steeringMode = "one-at-a-time"
        PROVE  One(kind', L!InTurn') /\ One(kind', L!Elems(pending)')
    <3>1. One(kind', L!InTurn) /\ One(kind', L!Elems(pending))
      BY <1>a, <1>b, <1>d, <2>2, <2>5 DEF Steered
    <3>2. One(kind', L!Elems(batch)' \cup L!InTurn)
      BY <2>2, <3>1, OneOrNone
    <3>3. QED
      BY <2>3, <2>4, <3>1, <3>2, OneOrNone
  <2>6. QED
    BY <1>a, <2>1, <2>2, <2>5 DEF Steered
<1>13. CASE L!Repoll
  <2>1. /\ UNCHANGED << committed, kind, steeringMode, lastTurn, skip >>
        /\ turnMark' = Len(committed) /\ pending' = << >>
        /\ step = "repoll" /\ step' = "commit"
    BY <1>13 DEF L!Repoll, L!book, L!modes
  <2>2. L!InTurn' = L!Elems(batch)' /\ turnMark' <= Len(committed')
    BY <1>a, <2>1, InTurnBegins
  <2>3. PICK s \in { pending, L!Taken(steering, steeringMode) } : batch' = batch \o s
    BY <1>13 DEF L!Repoll
  <2>4. L!Elems(batch)' = L!Elems(batch) \cup L!Elems(s)
    <3>1. batch \in Seq(Nat) /\ s \in Seq(Nat)
      BY <1>a, <2>3, LoopTyped, TakenThenLeft
    <3>2. L!Elems(batch \o s) = L!Elems(batch) \cup L!Elems(s)
      BY <3>1, ElemsOfConcat
    <3>3. QED
      BY <2>3, <3>2
  <2>5. ASSUME steeringMode = "one-at-a-time"
        PROVE  One(kind, L!InTurn')
    <3>1. None(kind, L!Elems(batch)) /\ One(kind, L!Elems(s))
      BY <1>a, <1>p, <2>1, <2>3, <2>5 DEF Steered
    <3>2. QED
      BY <2>2, <2>4, <3>1, OneOrNone
  <2>6. L!Elems(pending)' = { }
    BY <1>e, <2>1
  <2>7. QED
    BY <2>1, <2>2, <2>5, <2>6, OneOrNone DEF Steered
<1>14. QED
  BY <1>1, <1>2, <1>3, <1>4, <1>5, <1>6, <1>8, <1>9, <1>10, <1>11, <1>12, <1>13
     DEF L!Next, L!LoopStep

-----------------------------------------------------------------------------
(* The invariant and the property.                                         *)

LEMMA LoopInitially == L!Init /\ Settings \in SUBSET (L!Modes \X L!Modes) => L!LoopInv
<1> SUFFICES ASSUME L!Init, Settings \in SUBSET (L!Modes \X L!Modes)
             PROVE  L!LoopInv
  OBVIOUS
<1>e. L!Elems(<< >>) = { } /\ << >> \in Seq(L!Ids) /\ << >> \in Seq(L!Kinds)
      /\ Len(<< >>) = 0 /\ << >> \o << >> = << >>
  BY DEF L!Elems
<1>1. L!TypeOK
  <2>1. steeringMode \in L!Modes /\ followUpMode \in L!Modes
    BY DEF L!Init
  <2>2. MaxMsgs >= 0
    <3>1. MaxMsgs \in Nat
      BY ToolsAssumption, Zenon
    <3> QED
      BY <3>1
  <2>3. QED
    BY <1>e, <2>1, <2>2 DEF L!Init, L!TypeOK, L!Fresh, L!Frames
<1>2. L!HeldWhere /\ L!FirstTurn
  BY DEF L!Init, L!HeldWhere, L!FirstTurn
<1>3. L!KindsOfQueues
  BY <1>e DEF L!Init, L!KindsOfQueues
<1>4. L!MessagesOnceInOrder
  <2>1. L!Held = << >>
    BY <1>e DEF L!Init, L!Held
  <2>2. L!QueueOrder
    BY <2>1 DEF L!QueueOrder
  <2>3. 1 .. Len(kind) = { }
    BY <1>e DEF L!Init
  <2>4. L!Conservation
    BY <1>e, <2>1, <2>3 DEF L!Init, L!Conservation
  <2>5. QED
    BY <2>2, <2>4 DEF L!MessagesOnceInOrder
<1>5. L!SteeringInv
  <2>1. L!InTurn = { } /\ L!Elems(pending) = { } /\ L!Elems(batch) = { }
    BY <1>e DEF L!Init, L!InTurn
  <2>2. turnMark <= Len(committed)
    BY <1>e DEF L!Init
  <2>3. QED
    BY <2>1, <2>2, OneOrNone, SteeredMeans DEF Steered, L!Init
<1>6. L!FrameInv
  BY DEF L!Init, L!FrameInv, L!Fresh
<1>7. QED
  BY <1>1, <1>2, <1>3, <1>4, <1>5, <1>6 DEF L!LoopInv

LEMMA LoopNext == L!LoopInv /\ [L!Next]_loopVars => L!LoopInv'
BY TypeStepOfLoop, PlacesStep, QueuesStep, OrderStep, SteeringStep, FrameStep, ZenonT(40)
   DEF L!LoopInv

\* What is held is the turn's messages and those before it, then the rest.
LEMMA HeldInTwo ==
  ASSUME committed \in Seq(Nat), batch \in Seq(Nat), pending \in Seq(Nat),
         steering \in Seq(Nat), followUp \in Seq(Nat)
  PROVE  L!Held = (committed \o batch) \o (pending \o steering \o followUp)
<1>1. PICK h \in Seq(Nat) : h = committed \o batch
  BY Concatenations, ZenonT(40)
<1>2. (h \o pending) \o steering = h \o (pending \o steering)
  BY ConcatAssociative, SMTT(30)
<1>3. pending \o steering \in Seq(Nat)
  BY Concatenations, ZenonT(40)
<1>4. PICK r \in Seq(Nat) : r = pending \o steering
  BY <1>3
<1>5. (h \o r) \o followUp = h \o (r \o followUp)
  BY ConcatAssociative, SMTT(30)
<1>6. L!Held = h \o pending \o steering \o followUp
  BY <1>1, ZenonT(40) DEF L!Held
<1>7. QED
  BY <1>1, <1>2, <1>4, <1>5, <1>6, ZenonT(40)

\* A place of a sequence in two parts is in the first or in the second.
LEMMA PlaceInTwo ==
  ASSUME NEW S, NEW s \in Seq(S), NEW t \in Seq(S),
         NEW n \in 1 .. Len(s \o t)
  PROVE  \/ n \in DOMAIN s /\ (s \o t)[n] = s[n]
         \/ n - Len(s) \in DOMAIN t /\ (s \o t)[n] = t[n - Len(s)]
<1>1. /\ Len(s) \in Nat /\ Len(t) \in Nat
      /\ DOMAIN s = 1 .. Len(s) /\ DOMAIN t = 1 .. Len(t)
  BY LenProperties
<1>2. n \in 1 .. Len(s) + Len(t)
  BY ConcatProperties
<1>3. (s \o t)[n] = IF n <= Len(s) THEN s[n] ELSE t[n - Len(s)]
  BY <1>2, ConcatProperties
<1>4. QED
  BY <1>1, <1>2, <1>3

\* Two steering messages of a turn are the same, and a message has one place.
LEMMA OneSteeringOfTurn == L!LoopInv => L!OneSteeringPerTurn
<1> DEFINE turn == committed \o batch
<1> SUFFICES ASSUME L!LoopInv, steeringMode = "one-at-a-time",
                    NEW i \in turnMark + 1 .. Len(turn), NEW j \in turnMark + 1 .. Len(turn),
                    kind[turn[i]] = "steering", kind[turn[j]] = "steering"
             PROVE  i = j
  BY DEF L!OneSteeringPerTurn, L!Sent
<1>1. /\ committed \in Seq(Nat) /\ batch \in Seq(Nat) /\ pending \in Seq(Nat)
      /\ steering \in Seq(Nat) /\ followUp \in Seq(Nat) /\ turnMark \in Nat
  BY LoopTyped DEF L!LoopInv, L!TypeOK
<1>2. ASSUME NEW n \in turnMark + 1 .. Len(turn)
      PROVE  turn[n] \in L!InTurn
  <2>1. n \in 1 .. Len(turn)
    BY <1>1
  <2>2. \/ n \in DOMAIN committed /\ turn[n] = committed[n]
        \/ n - Len(committed) \in DOMAIN batch
           /\ turn[n] = batch[n - Len(committed)]
    BY <1>1, <2>1, PlaceInTwo
  <2>3. DOMAIN committed = 1 .. Len(committed) /\ n > turnMark
    BY <1>1, LenProperties
  <2>4. QED
    BY <1>1, <2>2, <2>3, SMTT(30) DEF L!InTurn, L!Elems
<1>3. turn[i] = turn[j]
  BY <1>2, SteeredMeans DEF L!LoopInv, Steered, One
<1>4. PICK rest : rest = pending \o steering \o followUp
  OBVIOUS
<1>5. rest \in Seq(Nat) /\ turn \in Seq(Nat)
  BY <1>1, <1>4
<1>6. L!Held = turn \o rest
  BY <1>1, <1>4, HeldInTwo, ZenonT(40)
<1>7. ASSUME NEW n \in turnMark + 1 .. Len(turn)
      PROVE  n \in DOMAIN L!Held /\ L!Held[n] = turn[n]
  <2> HIDE DEF turn
  <2>1. QED
    BY <1>1, <1>5, <1>6
<1>8. \A m, n \in DOMAIN L!Held : m < n => L!Held[m] # L!Held[n]
  BY DEF L!LoopInv, L!MessagesOnceInOrder, L!QueueOrder
<1>9. ~(i < j) /\ ~(j < i)
  BY <1>3, <1>7, <1>8
<1>10. QED
  BY <1>1, <1>9

LEMMA LoopInvMeans == L!LoopInv => LoopIsOrderly
<1>1. L!FrameInv => L!ClosedUnlessFinalizeFails
  BY DEF L!FrameInv, L!ClosedUnlessFinalizeFails
<1>2. QED
  BY <1>1, OneSteeringOfTurn DEF LoopIsOrderly, L!LoopInv

\* Where the loop holds messages, what it has polled and which events are out
\* fit together at every moment, for any number of messages and any modes.
THEOREM LoopInvHolds == ToolsSpec => []L!LoopInv
<1>1. ToolsInit => L!LoopInv
  BY LoopInitially, ToolsAssumption DEF ToolsInit
<1>2. L!LoopInv /\ [ToolsNext]_toolsVars => L!LoopInv'
  BY LoopNext DEF ToolsNext, toolsVars
<1>3. QED
  BY <1>1, <1>2, PTL DEF ToolsSpec

\* Messages reach the transcript once and in the order of their queue, a turn
\* takes one steering message in one-at-a-time mode, and the events a
\* subscriber sees nest and are closed unless a finalize_message hook failed:
\* through polls, continuations, clears, aborts, panics and failures
\* (run_loop, PendingMessageQueue, process_event, handle_run_failure).
THEOREM LoopKeepsOrder == ToolsSpec => []LoopIsOrderly
<1>1. QED
  BY LoopInvHolds, LoopInvMeans, PTL

-----------------------------------------------------------------------------
(* The changes of a file.                                                  *)

\* Natural numbers that do not exceed a bound have a greatest.
LEMMA GreatestNumber ==
  ASSUME NEW n \in Nat, NEW T \in SUBSET (1 .. n), T # { }
  PROVE  \E m \in T : \A i \in T : m >= i
<1> DEFINE U == { n - i : i \in T }
<1>1. U \in SUBSET Nat /\ U # { }
  <2>1. \A i \in T : i \in 1 .. n /\ n - i \in Nat
    <3>1. \A i \in 1 .. n : n - i \in Nat
      OBVIOUS
    <3> QED
      BY <3>1, Zenon
  <2>2. PICK t : t \in T
    OBVIOUS
  <2>3. n - t \in U
    BY <2>2, Zenon
  <2> QED
    BY <2>1, <2>3, Zenon
<1>2. PICK less : IsWellFoundedOn(less, Nat) /\ less = { ss \in Nat \X Nat : ss[1] < ss[2] }
  <2>1. IsWellFoundedOn(OpToRel(<, Nat), Nat)
    BY NatLessThanWellFounded
  <2>2. QED
    BY <2>1, Zenon DEF OpToRel
<1>3. PICK u \in U : \A x \in U : << x, u >> \notin less
  BY <1>1, <1>2, WFMin, Zenon
<1>4. PICK m \in T : u = n - m
  BY <1>3
<1>5. ASSUME NEW i \in T
      PROVE  m >= i
  <2>1. n - i \in U /\ n - i \in Nat /\ n - m \in Nat /\ m \in Nat /\ i \in Nat
    OBVIOUS
  <2>2. ~(n - i < n - m)
    BY <1>2, <1>3, <1>4, <2>1
  <2>3. QED
    BY <2>1, <2>2
<1>6. QED
  BY <1>5

\* The first and the rest of a sequence that is not empty.
LEMMA SequenceEnds ==
  ASSUME NEW S, NEW s \in Seq(S), s # << >>
  PROVE  /\ Len(s) \in Nat \ { 0 } /\ Head(s) = s[1] /\ Head(s) \in S
         /\ Tail(s) \in Seq(S) /\ Len(Tail(s)) = Len(s) - 1
         /\ \A i \in 1 .. Len(s) - 1 : Tail(s)[i] = s[i + 1]
<1>1. Len(s) \in Nat \ { 0 } /\ Head(s) = s[1]
  OBVIOUS
<1>2. /\ Head(s) \in S /\ Tail(s) \in Seq(S) /\ Len(Tail(s)) = Len(s) - 1
      /\ \A i \in 1 .. Len(Tail(s)) : Tail(s)[i] = s[i + 1]
  BY HeadTailProperties
<1> QED
  BY <1>1, <1>2

LEMMA OneElement ==
  ASSUME NEW S, NEW x \in S
  PROVE  << x >> \in Seq(S) /\ Len(<< x >>) = 1 /\ << x >>[1] = x /\ Head(<< x >>) = x
         /\ << x >> # << >>
  OBVIOUS

\* The calls since the last write, when one more has written.
LEMMA SinceWrite ==
  ASSUME NEW log \in Seq(Changes), NEW c \in Changes, KindOf[c] = "write"
  PROVE  F!Since(Append(log, c)) = << c >>
<1> DEFINE new == Append(log, c)
           n == Len(log) + 1
           anew == { i \in DOMAIN new : KindOf[new[i]] = "write" }
<1>1. /\ new \in Seq(Changes) /\ Len(new) = n /\ new[n] = c /\ n \in Nat
      /\ DOMAIN new = 1 .. n
  BY AppendProperties, LenProperties
<1>2. n \in anew /\ anew \subseteq 1 .. n
  BY <1>1
<1>3. F!Max(anew) = n
  <2>1. \A x \in anew : (\A y \in anew : x >= y) => x = n
    BY <1>1, <1>2
  <2>2. \A y \in anew : n >= y
    BY <1>1, <1>2
  <2> QED
    BY <1>2, <2>1, <2>2, Zenon DEF F!Max
<1>4. SubSeq(new, n, n) = << c >>
  <2>1. \A i \in n .. n : new[i] \in Changes
    BY <1>1
  <2>2. /\ SubSeq(new, n, n) \in Seq(Changes) /\ Len(SubSeq(new, n, n)) = 1
        /\ SubSeq(new, n, n)[1] = new[n]
    <3> HIDE DEF new, n
    <3>1. /\ SubSeq(new, n, n) \in Seq(Changes)
          /\ Len(SubSeq(new, n, n)) = IF n <= n THEN n - n + 1 ELSE 0
          /\ \A i \in 1 .. n - n + 1 : SubSeq(new, n, n)[i] = new[n + i - 1]
      BY <1>1, <2>1, SubSeqProperties
    <3> QED
      BY <1>1, <3>1
  <2>3. PICK x \in Changes : SubSeq(new, n, n) = << x >>
    BY <2>2, Singleton, Zenon
  <2>4. << x >>[1] = x
    OBVIOUS
  <2> QED
    BY <1>1, <2>2, <2>3, <2>4, Zenon
<1> QED
  BY <1>1, <1>2, <1>3, <1>4 DEF F!Since

LEMMA SinceEdit ==
  ASSUME NEW log \in Seq(Changes), NEW c \in Changes, KindOf[c] # "write"
  PROVE  F!Since(Append(log, c)) = Append(F!Since(log), c)
<1> DEFINE new == Append(log, c)
           n == Len(log)
           anew == { i \in DOMAIN log : KindOf[log[i]] = "write" }
           anewer == { i \in DOMAIN new : KindOf[new[i]] = "write" }
<1>1. /\ new \in Seq(Changes) /\ Len(new) = n + 1 /\ new[n + 1] = c /\ n \in Nat
      /\ \A i \in 1 .. n : new[i] = log[i]
      /\ DOMAIN new = 1 .. n + 1 /\ DOMAIN log = 1 .. n
  BY AppendProperties, LenProperties
<1>2. anewer = anew
  BY <1>1
<1>3. CASE anew = { }
  BY <1>2, <1>3 DEF F!Since
<1>4. CASE anew # { }
  <2>1. F!Max(anew) \in 1 .. n
    <3>1. anew \subseteq 1 .. n
      BY <1>1
    <3>2. \E m \in anew : \A i \in anew : m >= i
      BY <1>1, <1>4, <3>1, GreatestNumber
    <3> QED
      BY <3>1, <3>2, Zenon DEF F!Max
  <2>2. PICK m \in 1 .. n : m = F!Max(anew)
    BY <2>1
  <2>3. SubSeq(new, m, n + 1) = Append(SubSeq(log, m, n), c)
    <3>1. /\ SubSeq(new, m, n + 1) \in Seq(Changes)
          /\ Len(SubSeq(new, m, n + 1)) = n + 2 - m
          /\ \A i \in 1 .. n + 2 - m : SubSeq(new, m, n + 1)[i] = new[m + i - 1]
      BY <1>1, SubSeqProperties
    <3>2. /\ SubSeq(log, m, n) \in Seq(Changes)
          /\ Len(SubSeq(log, m, n)) = n + 1 - m
          /\ \A i \in 1 .. n + 1 - m : SubSeq(log, m, n)[i] = log[m + i - 1]
      BY <1>1, SubSeqProperties
    <3> DEFINE short == SubSeq(log, m, n)
               long == SubSeq(new, m, n + 1)
    <3> HIDE DEF short, long
    <3>3. /\ Append(short, c) \in Seq(Changes)
          /\ Len(Append(short, c)) = n + 2 - m
          /\ Append(short, c)[n + 2 - m] = c
          /\ \A i \in 1 .. n + 1 - m : Append(short, c)[i] = log[m + i - 1]
      BY <3>2, AppendProperties DEF short
    <3>4. /\ long \in Seq(Changes) /\ Len(long) = n + 2 - m
          /\ long[n + 2 - m] = c
          /\ \A i \in 1 .. n + 1 - m : long[i] = log[m + i - 1]
      BY <1>1, <3>1 DEF long
    <3>5. \A i \in 1 .. n + 2 - m : long[i] = Append(short, c)[i]
      <4>1. \A i \in 1 .. n + 2 - m : i \in 1 .. n + 1 - m \/ i = n + 2 - m
        BY <1>1
      <4> QED
        BY <3>3, <3>4, <4>1, ZenonT(30)
    <3>6. long = Append(short, c)
      BY <3>3, <3>4, <3>5, SeqEqual
    <3> QED
      BY <3>6 DEF long, short
  <2> QED
    BY <1>1, <1>2, <1>4, <2>2, <2>3 DEF F!Since
<1> QED
  BY <1>3, <1>4

\* What is spoilt stays so until a write begins anew.
LEMMA SpoiltAfter ==
  ASSUME NEW s \in F!Contents, NEW c \in Changes
  PROVE  F!Spoilt(Append(s, c)) <=> F!Spoilt(s)
<1>1. c \notin { "torn", "no file" }
  BY ToolsAssumption
<1>2. /\ Append(s, c) # << >>
      /\ Head(Append(s, c)) = IF s = << >> THEN c ELSE Head(s)
  <2> DEFINE S == Changes \cup { "torn", "no file" }
  <2>1. s \in Seq(S) /\ c \in S
    BY DEF F!Contents
  <2> HIDE DEF S
  <2> QED
    BY <2>1, AppendProperties, HeadTailAppend
<1> QED
  BY <1>1, <1>2, Zenon DEF F!Spoilt

-----------------------------------------------------------------------------
\* A step of a change keeps the types.
LEMMA FileTypes == F!TypeOK /\ F!Next => F!TypeOK'
<1> SUFFICES ASSUME F!TypeOK, NEW c \in Changes,
                    F!Begin(c) \/ F!Cancel(c) \/ F!Task(c)
             PROVE  F!TypeOK'
  BY DEF F!Next
<1> USE DEF F!TypeOK, F!Places, F!MaybeLock, F!NoLock, F!Paths, F!Goes
<1>a. /\ NameOf \in [ Changes -> { "file", "link" } ] /\ "none" \notin Changes
      /\ KindOf[c] \in { "edit", "write" }
  BY ToolsAssumption
<1>0. F!Torn \in F!Contents /\ << >> \in F!Contents
  <2> DEFINE S == Changes \cup { "torn", "no file" }
  <2>1. "torn" \in S
    OBVIOUS
  <2>2. << "torn" >> \in Seq(S) /\ << >> \in Seq(S)
    <3> HIDE DEF S
    <3> QED
      BY <2>1, OneElement
  <2> QED
    BY <2>2, Zenon DEF F!Torn, F!Contents
<1>e. ASSUME NEW how \in { "ok", "aborted", "failed" }, F!Ends(c, how)
      PROVE  /\ at' = [ at EXCEPT ![c] = "done" ]
             /\ result' \in [ Changes -> { "none", "ok", "aborted", "failed" } ]
  <2>1. /\ at' = [ at EXCEPT ![c] = "done" ]
        /\ result' = [ result EXCEPT ![c] = how ]
    BY <1>e DEF F!Ends
  <2> QED
    BY <2>1
\* A call that is over, or goes on past the lock, keeps its path.
<1>k. ASSUME NEW to \in F!Places \ { "idle", "keys" },
             at[c] \notin { "idle", "keys" }, at' = [ at EXCEPT ![c] = to ],
             UNCHANGED key
      PROVE  /\ at' \in [ Changes -> F!Places ]
             /\ key' \in [ Changes -> F!Paths \cup { F!NoLock } ]
             /\ \A d \in Changes : at'[d] \in { "idle", "keys" } <=> key'[d] = F!NoLock
  <2>1. \A d \in Changes : at'[d] = IF d = c THEN to ELSE at[d]
    BY <1>k
  <2> QED
    BY <1>k, <2>1
<1>1. CASE F!Begin(c)
  <2>1. \A d \in Changes : at'[d] = IF d = c THEN "keys" ELSE at[d]
    BY <1>1 DEF F!Begin
  <2> QED
    BY <1>1, <2>1 DEF F!Begin
<1>2. CASE F!Cancel(c)
  BY <1>2 DEF F!Cancel
<1>3. CASE F!Resolve(c)
  <2>1. \E p \in F!Paths : key' = [ key EXCEPT ![c] = p ]
    BY <1>3, <1>a DEF F!Resolve
  <2>2. \A d \in Changes : at'[d] = IF d = c THEN "finds" ELSE at[d]
    BY <1>3 DEF F!Resolve
  <2> QED
    BY <1>3, <2>1, <2>2 DEF F!Resolve
<1>4. CASE F!Find(c)
  <2>1. F!Found(c) \in F!MaybeLock /\ key[c] \in F!Paths
    BY <1>4 DEF F!Find, F!Found
  <2> QED
    BY <1>4, <1>k, <2>1 DEF F!Find
<1>n. ASSUME UNCHANGED << lock, locks, key >>, failures' \in { failures, failures + 1 },
             at[c] \notin { "idle", "keys" },
             \/ \E how \in { "ok", "aborted", "failed" } : F!Ends(c, how)
             \/ UNCHANGED result /\ \E to \in F!Inside : at' = [ at EXCEPT ![c] = to ],
             known' \in [ Changes -> F!Contents ], content' \in F!Contents,
             written' \in Seq(Changes)
      PROVE  F!TypeOK'
  <2>1. failures' \in Nat
    BY <1>n
  <2>2. CASE \E how \in { "ok", "aborted", "failed" } : F!Ends(c, how)
    <3>1. /\ at' = [ at EXCEPT ![c] = "done" ]
          /\ result' \in [ Changes -> { "none", "ok", "aborted", "failed" } ]
      BY <1>e, <2>2
    <3>2. /\ at' \in [ Changes -> F!Places ]
          /\ key' \in [ Changes -> F!Paths \cup { F!NoLock } ]
          /\ \A d \in Changes : at'[d] \in { "idle", "keys" } <=> key'[d] = F!NoLock
      BY <1>k, <1>n, <3>1
    <3> QED
      BY <1>n, <2>1, <3>1, <3>2
  <2>3. CASE UNCHANGED result /\ \E to \in F!Inside : at' = [ at EXCEPT ![c] = to ]
    <3>1. PICK to \in F!Inside : at' = [ at EXCEPT ![c] = to ]
      BY <2>3
    <3>2. /\ at' \in [ Changes -> F!Places ]
          /\ key' \in [ Changes -> F!Paths \cup { F!NoLock } ]
          /\ \A d \in Changes : at'[d] \in { "idle", "keys" } <=> key'[d] = F!NoLock
      BY <1>k, <1>n, <3>1 DEF F!Inside
    <3> QED
      BY <1>n, <2>1, <2>3, <3>2
  <2> QED
    BY <1>n, <2>2, <2>3
<1>5. CASE F!Enter(c)
  BY <1>5, <1>n DEF F!Enter, F!Aborts, F!Inside
<1>6. CASE F!Prepare(c)
  <2>1. known' \in [ Changes -> F!Contents ] /\ content' \in F!Contents
    <3>1. \/ UNCHANGED << known, content >>
          \/ /\ known' = [ known EXCEPT ![c] = IF KindOf[c] = "edit" THEN content ELSE << >> ]
             /\ UNCHANGED content
      BY <1>6 DEF F!Prepare, F!Fails
    <3> QED
      BY <1>0, <3>1
  <2> QED
    BY <1>6, <1>n, <2>1 DEF F!Prepare, F!Fails, F!Inside
<1>7. CASE F!Decide(c)
  BY <1>0, <1>7, <1>n DEF F!Decide, F!Aborts, F!Inside
<1>8. CASE F!Write(c)
  <2>1. Append(known[c], c) \in F!Contents /\ Append(written, c) \in Seq(Changes)
    BY AppendProperties DEF F!Contents
  <2> QED
    BY <1>0, <1>8, <1>n, <2>1 DEF F!Write, F!Fails, F!Inside
<1>9. CASE F!Tell(c)
  BY <1>9, <1>n DEF F!Tell, F!Aborts, F!Inside
<1> QED
  BY <1>1, <1>2, <1>3, <1>4, <1>5, <1>6, <1>7, <1>8, <1>9 DEF F!Task

\* One call at most is inside.
LEMMA OneInside ==
  ASSUME F!OneLock, F!Queues, NEW c \in Changes, NEW d \in Changes,
         at[c] \in F!Inside, at[d] \in F!Inside
  PROVE  c = d
  BY DEF F!OneLock, F!Queues, F!Queued

\* A call moves on with the queue as it is.
LEMMA TurnKept ==
  ASSUME F!TypeOK, F!OneLock, F!Queues, NEW c \in Changes, NEW to,
         at' = [ at EXCEPT ![c] = to ],
         UNCHANGED << lock, locks, queue >>,
         at[c] \in F!Queued <=> to \in F!Queued,
         to \in F!Inside => Head(queue[lock[c]]) = c,
         to \in { "idle", "keys", "finds" } => lock[c] = F!NoLock
  PROVE  F!OneLock' /\ F!Queues'
<1>1. \A d \in Changes : at'[d] = IF d = c THEN to ELSE at[d]
  BY DEF F!TypeOK
<1>2. F!OneLock'
  BY <1>1 DEF F!OneLock, F!NoLock
<1>3. queue' = queue /\ lock' = lock
  OBVIOUS
<1>4. \A d \in Changes : at'[d] \in F!Queued <=> at[d] \in F!Queued
  BY <1>1
<1>5. \A l, d \in Changes : F!IsIn(d, l)' <=> lock'[d] = l /\ at'[d] \in F!Queued
  BY <1>3, <1>4 DEF F!Queues, F!IsIn
<1>6. \A d \in Changes : at'[d] \in F!Inside => Head(queue'[lock'[d]]) = d
  BY <1>1, <1>3 DEF F!Queues
<1>7. F!Queues'
  <2>1. /\ queue' \in [ Changes -> Seq(Changes) ]
        /\ \A l \in Changes : \A i, j \in 1 .. Len(queue'[l]) :
             queue'[l][i] = queue'[l][j] => i = j
    BY <1>3 DEF F!Queues
  <2> QED
    BY <1>5, <1>6, <2>1, Zenon DEF F!Queues
<1> QED
  BY <1>2, <1>7

\* The first in the queue goes; nobody else was inside.
LEMMA TurnEnds ==
  ASSUME F!TypeOK, F!OneLock, F!Queues, NEW c \in Changes, NEW how,
         at[c] \in F!Queued, Head(queue[lock[c]]) = c, F!Ends(c, how),
         UNCHANGED << lock, locks >>
  PROVE  F!OneLock' /\ F!Queues'
<1>1. PICK l \in Changes, q \in Seq(Changes) :
        l = lock[c] /\ q = queue[l] /\ F!IsIn(c, l) /\ Head(q) = c
  <2>1. lock[c] \in Changes
    BY DEF F!OneLock, F!TypeOK, F!MaybeLock
  <2>2. F!IsIn(c, lock[c]) /\ queue[lock[c]] \in Seq(Changes)
    BY <2>1 DEF F!Queues
  <2> QED
    BY <2>1, <2>2, Zenon
<1>2. /\ \A d \in Changes : at'[d] = IF d = c THEN "done" ELSE at[d]
      /\ queue' = [ queue EXCEPT ![l] = Tail(q) ]
      /\ \A d \in Changes : lock'[d] = lock[d]
  BY <1>1 DEF F!Ends, F!TypeOK
<1>3. PICK n \in Nat \ { 0 } :
        /\ n = Len(q) /\ q[1] = c
        /\ Tail(q) \in Seq(Changes) /\ Len(Tail(q)) = n - 1
        /\ \A i \in 1 .. n - 1 : Tail(q)[i] = q[i + 1]
  <2>1. q # << >>
    BY <1>1 DEF F!IsIn
  <2> QED
    BY <1>1, <2>1, SequenceEnds
<1>4. F!OneLock'
  BY <1>2 DEF F!OneLock, F!Queued, F!Inside
<1>5. /\ queue' \in [ Changes -> Seq(Changes) ]
      /\ queue'[l] = Tail(q)
      /\ \A m \in Changes \ { l } : queue'[m] = queue[m]
  BY <1>2, <1>3 DEF F!Queues
<1>o. /\ \A i, j \in 1 .. n : q[i] = q[j] => i = j
      /\ \A d \in Changes : (\E i \in 1 .. n : q[i] = d) <=> lock[d] = l /\ at[d] \in F!Queued
  <2>1. \A i, j \in 1 .. n : q[i] = q[j] => i = j
    <3>1. n = Len(queue[l]) /\ q = queue[l]
      BY <1>1, <1>3
    <3>2. \A i, j \in 1 .. Len(queue[l]) : queue[l][i] = queue[l][j] => i = j
      BY DEF F!Queues
    <3> QED
      BY <3>1, <3>2
  <2>2. \A d \in Changes : F!IsIn(d, l) <=> lock[d] = l /\ at[d] \in F!Queued
    BY DEF F!Queues
  <2>3. \A d \in Changes : F!IsIn(d, l) <=> \E i \in 1 .. n : q[i] = d
    BY <1>1, <1>3, Zenon DEF F!IsIn
  <2> QED
    BY <2>1, <2>2, <2>3, Zenon
<1>6. ASSUME NEW m \in Changes, NEW i \in 1 .. Len(queue'[m]),
             NEW j \in 1 .. Len(queue'[m]), queue'[m][i] = queue'[m][j]
      PROVE  i = j
  <2>1. CASE m = l
    <3>1. i \in 1 .. n - 1 /\ j \in 1 .. n - 1 /\ Tail(q)[i] = Tail(q)[j]
      BY <1>3, <1>5, <1>6, <2>1
    <3>2. i + 1 \in 1 .. n /\ j + 1 \in 1 .. n /\ q[i + 1] = q[j + 1]
      BY <1>3, <3>1
    <3>3. i + 1 = j + 1
      BY <1>o, <3>2, Zenon
    <3> QED
      BY <3>1, <3>3
  <2>2. CASE m # l
    <3>1. queue'[m] = queue[m]
      BY <1>5, <2>2
    <3> QED
      BY <1>6, <3>1 DEF F!Queues
  <2> QED
    BY <2>1, <2>2
<1>7. ASSUME NEW m \in Changes, NEW d \in Changes
      PROVE  F!IsIn(d, m)' <=> lock'[d] = m /\ at'[d] \in F!Queued
  <2>1. F!IsIn(d, m) <=> lock[d] = m /\ at[d] \in F!Queued
    BY DEF F!Queues
  <2>2. CASE m # l
    BY <1>1, <1>2, <1>5, <2>1, <2>2 DEF F!IsIn
  <2>3. CASE m = l /\ d # c
    <3>1. (\E i \in 1 .. n - 1 : Tail(q)[i] = d) <=> \E i \in 1 .. n : q[i] = d
      <4>1. ASSUME NEW i \in 1 .. n, q[i] = d
            PROVE  i - 1 \in 1 .. n - 1 /\ Tail(q)[i - 1] = d
        BY <1>3, <2>3, <4>1
      <4>2. ASSUME NEW i \in 1 .. n - 1, Tail(q)[i] = d
            PROVE  i + 1 \in 1 .. n /\ q[i + 1] = d
        BY <1>3, <4>2
      <4> QED
        BY <4>1, <4>2, Zenon
    <3>2. F!IsIn(d, m)' <=> \E i \in 1 .. n - 1 : Tail(q)[i] = d
      BY <1>3, <1>5, <2>3 DEF F!IsIn
    <3> QED
      BY <1>2, <1>o, <2>3, <3>1, <3>2
  <2>4. CASE m = l /\ d = c
    <3>1. \A i \in 1 .. n - 1 : Tail(q)[i] # c
      <4>1. ASSUME NEW i \in 1 .. n - 1
            PROVE  Tail(q)[i] # c
        <5>1. i + 1 \in 1 .. n /\ 1 \in 1 .. n /\ i + 1 # 1
          BY <1>3
        <5>2. q[i + 1] # q[1]
          BY <1>o, <5>1, ZenonT(30)
        <5> QED
          BY <1>3, <5>2
      <4> QED
        BY <4>1
    <3> QED
      BY <1>2, <1>3, <1>5, <2>4, <3>1 DEF F!IsIn, F!Queued, F!Inside
  <2> QED
    BY <2>2, <2>3, <2>4
<1>8. ASSUME NEW d \in Changes
      PROVE  at'[d] \notin F!Inside
  <2>1. CASE d = c
    BY <1>2, <2>1 DEF F!Inside
  <2>2. CASE d # c
    <3>1. at[d] \in F!Inside => lock[d] = l /\ Head(queue[lock[d]]) = d
      BY <1>1 DEF F!OneLock, F!Queues, F!Queued, F!Inside
    <3> QED
      BY <1>1, <1>2, <2>2, <3>1
  <2> QED
    BY <2>1, <2>2
<1> QED
  BY <1>4, <1>5, <1>6, <1>7, <1>8 DEF F!Queues

\* A call finds the lock of who is before it, or makes one that nobody has.
LEMMA TurnFound ==
  ASSUME F!TypeOK, F!OneLock, F!Queues, NEW c \in Changes, F!Find(c),
         key[c] = "file"
  PROVE  F!OneLock' /\ F!Queues'
<1>1. /\ F!Found(c) \in Changes /\ F!Found(c) # F!NoLock
      /\ \A d \in Changes : at[d] \in F!Queued => lock[d] = F!Found(c)
  <2>1. F!NoLock \notin Changes
    BY ToolsAssumption DEF F!NoLock
  <2>2. CASE F!Held(locks["file"])
    BY <2>1, <2>2 DEF F!Found, F!Held, F!OneLock, F!TypeOK, F!MaybeLock, F!Paths
  <2>3. CASE ~F!Held(locks["file"])
    <3>1. \A d \in Changes : at[d] \notin F!Queued
      BY <2>3 DEF F!Held, F!OneLock, F!Queued, F!Inside
    <3> QED
      BY <2>1, <2>3, <3>1 DEF F!Found
  <2> QED
    BY <2>2, <2>3
<1>2. PICK l \in Changes, q \in Seq(Changes) :
        /\ l = F!Found(c) /\ q = queue[l] /\ l # F!NoLock
        /\ \A d \in Changes : at[d] \in F!Queued => lock[d] = l
  <2>1. queue[F!Found(c)] \in Seq(Changes)
    BY <1>1 DEF F!Queues
  <2> QED
    BY <1>1, <2>1, Zenon
<1>3. /\ at[c] = "finds" /\ lock[c] = F!NoLock
      /\ \A d \in Changes : at'[d] = IF d = c THEN "queues" ELSE at[d]
      /\ \A d \in Changes : lock'[d] = IF d = c THEN l ELSE lock[d]
      /\ locks'["file"] = l
      /\ queue' = [ queue EXCEPT ![l] = Append(q, c) ]
  BY <1>2 DEF F!Find, F!Goes, F!TypeOK, F!OneLock, F!Paths
<1>4. PICK n \in Nat :
        /\ n = Len(q)
        /\ Append(q, c) \in Seq(Changes) /\ Len(Append(q, c)) = n + 1
        /\ \A i \in 1 .. n : Append(q, c)[i] = q[i]
        /\ Append(q, c)[n + 1] = c
  BY AppendProperties, LenProperties
<1>5. F!OneLock'
  BY <1>2, <1>3 DEF F!OneLock, F!Queued, F!Inside
<1>6. /\ queue' \in [ Changes -> Seq(Changes) ]
      /\ queue'[l] = Append(q, c)
      /\ \A m \in Changes \ { l } : queue'[m] = queue[m]
  BY <1>3, <1>4 DEF F!Queues
<1>7. /\ \A i, j \in 1 .. n : q[i] = q[j] => i = j
      /\ \A d \in Changes : (\E i \in 1 .. n : q[i] = d) <=> lock[d] = l /\ at[d] \in F!Queued
  <2>1. \A i, j \in 1 .. n : q[i] = q[j] => i = j
    <3>1. n = Len(queue[l]) /\ q = queue[l]
      BY <1>2, <1>4
    <3>2. \A i, j \in 1 .. Len(queue[l]) : queue[l][i] = queue[l][j] => i = j
      BY DEF F!Queues
    <3> QED
      BY <3>1, <3>2
  <2>2. \A d \in Changes : F!IsIn(d, l) <=> lock[d] = l /\ at[d] \in F!Queued
    BY DEF F!Queues
  <2>3. \A d \in Changes : F!IsIn(d, l) <=> \E i \in 1 .. n : q[i] = d
    BY <1>2, <1>4, Zenon DEF F!IsIn
  <2> QED
    BY <2>1, <2>2, <2>3, Zenon
<1>8. \A i \in 1 .. n : q[i] # c
  BY <1>3, <1>7 DEF F!Queued, F!Inside
<1>9. ASSUME NEW m \in Changes, NEW i \in 1 .. Len(queue'[m]),
             NEW j \in 1 .. Len(queue'[m]), queue'[m][i] = queue'[m][j]
      PROVE  i = j
  <2>1. CASE m = l
    <3>1. i \in 1 .. n + 1 /\ j \in 1 .. n + 1 /\ Append(q, c)[i] = Append(q, c)[j]
      BY <1>4, <1>6, <1>9, <2>1
    <3>2. CASE i = n + 1 \/ j = n + 1
      BY <1>4, <1>8, <3>1, <3>2
    <3>3. CASE i # n + 1 /\ j # n + 1
      <4>1. i \in 1 .. n /\ j \in 1 .. n /\ q[i] = q[j]
        BY <1>4, <3>1, <3>3
      <4> QED
        BY <1>7, <4>1, Zenon
    <3> QED
      BY <3>2, <3>3
  <2>2. CASE m # l
    <3>1. queue'[m] = queue[m]
      BY <1>6, <2>2
    <3> QED
      BY <1>9, <3>1 DEF F!Queues
  <2> QED
    BY <2>1, <2>2
<1>10. ASSUME NEW m \in Changes, NEW d \in Changes
       PROVE  F!IsIn(d, m)' <=> lock'[d] = m /\ at'[d] \in F!Queued
  <2>1. F!IsIn(d, m) <=> lock[d] = m /\ at[d] \in F!Queued
    BY DEF F!Queues
  <2>2. CASE m # l
    <3>1. F!IsIn(d, m)' <=> F!IsIn(d, m)
      BY <1>6, <2>2 DEF F!IsIn
    <3> QED
      BY <1>3, <2>1, <2>2, <3>1 DEF F!Queued, F!Inside
  <2>3. CASE m = l
    <3>1. F!IsIn(d, m)' <=> \E i \in 1 .. n + 1 : Append(q, c)[i] = d
      BY <1>4, <1>6, <2>3 DEF F!IsIn
    <3>2. (\E i \in 1 .. n + 1 : Append(q, c)[i] = d) <=>
            d = c \/ \E i \in 1 .. n : q[i] = d
      <4>1. ASSUME NEW i \in 1 .. n + 1, Append(q, c)[i] = d, d # c
            PROVE  i \in 1 .. n /\ q[i] = d
        BY <1>4, <4>1
      <4>2. ASSUME NEW i \in 1 .. n, q[i] = d
            PROVE  i \in 1 .. n + 1 /\ Append(q, c)[i] = d
        BY <1>4, <4>2
      <4>3. n + 1 \in 1 .. n + 1 /\ Append(q, c)[n + 1] = c
        BY <1>4
      <4> QED
        BY <4>1, <4>2, <4>3, Zenon
    <3> QED
      BY <1>3, <1>7, <2>3, <3>1, <3>2 DEF F!Queued
  <2> QED
    BY <2>2, <2>3
<1>11. ASSUME NEW d \in Changes, at'[d] \in F!Inside
       PROVE  Head(queue'[lock'[d]]) = d
  <2>1. d # c /\ at[d] \in F!Inside /\ lock'[d] = l /\ lock[d] = l
    BY <1>2, <1>3, <1>11 DEF F!Inside, F!Queued
  <2>2. Head(q) = d /\ \E i \in 1 .. n : q[i] = d
    BY <1>2, <1>7, <2>1 DEF F!Queues, F!Queued
  <2>3. q # << >>
    BY <1>4, <2>2
  <2>4. Head(Append(q, c)) = Head(q)
    BY <2>3, HeadTailAppend
  <2> QED
    BY <1>6, <2>1, <2>2, <2>4
<1> QED
  BY <1>5, <1>6, <1>9, <1>10, <1>11 DEF F!Queues

\* The lock is handed on in order, whatever becomes of who had it.
LEMMA TurnsStep ==
  ASSUME F!TypeOK, F!OneLock, F!Queues, NEW c \in Changes,
         F!Begin(c) \/ F!Cancel(c) \/ F!Task(c), ~F!Apart
  PROVE  F!OneLock' /\ F!Queues'
<1> USE DEF F!Goes, F!Queued, F!Inside
<1>1. CASE F!Begin(c)
  <2>1. at' = [ at EXCEPT ![c] = "keys" ] /\ lock[c] = F!NoLock
    BY <1>1 DEF F!Begin, F!OneLock
  <2> QED
    BY <1>1, <2>1, TurnKept DEF F!Begin
<1>2. CASE F!Cancel(c)
  BY <1>2 DEF F!Cancel, F!OneLock, F!Queues, F!IsIn
<1>3. CASE F!Resolve(c)
  <2>1. at' = [ at EXCEPT ![c] = "finds" ] /\ lock[c] = F!NoLock
    BY <1>3 DEF F!Resolve, F!OneLock
  <2> QED
    BY <1>3, <2>1, TurnKept DEF F!Resolve
<1>4. CASE F!Find(c)
  <2>1. key[c] = "file"
    BY <1>4 DEF F!Find, F!TypeOK, F!Apart, F!Paths, F!NoLock
  <2> QED
    BY <1>4, <2>1, TurnFound
<1>5. CASE F!Enter(c)
  <2>1. at[c] = "queues" /\ Head(queue[lock[c]]) = c /\ UNCHANGED << lock, locks >>
    BY <1>5 DEF F!Enter
  <2>2. CASE F!Aborts(c)
    BY <2>1, <2>2, TurnEnds DEF F!Aborts
  <2>3. CASE at' = [ at EXCEPT ![c] = "prepares" ] /\ UNCHANGED queue
    BY <2>1, <2>3, TurnKept
  <2> QED
    BY <1>5, <2>2, <2>3 DEF F!Enter
<1>6. ASSUME at[c] \in F!Inside
      PROVE  Head(queue[lock[c]]) = c
  BY <1>6 DEF F!Queues
<1>7. ASSUME at[c] \in F!Inside, UNCHANGED << lock, locks >>,
             \/ F!Aborts(c)
             \/ F!Fails(c)
             \/ F!Ends(c, "failed")
             \/ F!Ends(c, "ok")
             \/ \E to \in F!Inside : at' = [ at EXCEPT ![c] = to ] /\ UNCHANGED queue
      PROVE  F!OneLock' /\ F!Queues'
  <2>1. ASSUME NEW how, F!Ends(c, how)
        PROVE  F!OneLock' /\ F!Queues'
    BY <1>6, <1>7, <2>1, TurnEnds
  <2>2. ASSUME NEW to \in F!Inside, at' = [ at EXCEPT ![c] = to ], UNCHANGED queue
        PROVE  F!OneLock' /\ F!Queues'
    BY <1>6, <1>7, <2>2, TurnKept
  <2> QED
    BY <1>7, <2>1, <2>2 DEF F!Aborts, F!Fails
<1>8. CASE F!Prepare(c)
  BY <1>7, <1>8 DEF F!Prepare
<1>9. CASE F!Decide(c)
  BY <1>7, <1>9 DEF F!Decide
<1>10. CASE F!Write(c)
  BY <1>7, <1>10 DEF F!Write
<1>11. CASE F!Tell(c)
  BY <1>7, <1>11 DEF F!Tell
<1> QED
  BY <1>1, <1>2, <1>3, <1>4, <1>5, <1>8, <1>9, <1>10, <1>11 DEF F!Task

-----------------------------------------------------------------------------
\* A step that neither reads nor writes leaves what is true of the file.
LEMMA ContentKept ==
  ASSUME F!ReadsAreFresh, F!FileAgrees, F!ToldHaveWritten,
         UNCHANGED << known, content, written >>,
         failures \in Nat, failures' \in { failures, failures + 1 },
         \A d \in Changes :
           /\ at'[d] \in { "decides", "writes" } => at'[d] = at[d]
           /\ at[d] = "writes" => at'[d] = "writes"
           /\ at'[d] = "tells" \/ result'[d] = "ok" =>
                at[d] = "tells" \/ result[d] = "ok"
  PROVE  F!ReadsAreFresh' /\ F!FileAgrees' /\ F!ToldHaveWritten'
<1>1. F!ReadsAreFresh'
  BY DEF F!ReadsAreFresh
<1>2. F!FileAgrees'
  BY DEF F!FileAgrees
<1>3. F!ToldHaveWritten'
  BY DEF F!ToldHaveWritten
<1> QED
  BY <1>1, <1>2, <1>3

\* The file agrees with what the calls read and wrote, as one is inside.
LEMMA ContentStep ==
  ASSUME F!TypeOK, F!OneLock, F!Queues, F!ReadsAreFresh, F!FileAgrees,
         F!ToldHaveWritten, NEW c \in Changes,
         F!Begin(c) \/ F!Cancel(c) \/ F!Task(c)
  PROVE  F!ReadsAreFresh' /\ F!FileAgrees' /\ F!ToldHaveWritten'
<1> DEFINE Kept == F!ReadsAreFresh' /\ F!FileAgrees' /\ F!ToldHaveWritten'
<1>0. /\ at \in [ Changes -> F!Places ] /\ failures \in Nat
      /\ result \in [ Changes -> { "none", "ok", "aborted", "failed" } ]
  BY DEF F!TypeOK
<1>1. ASSUME NEW to \in F!Places \ { "decides", "writes", "tells" },
             at[c] # "writes", at' = [ at EXCEPT ![c] = to ],
             failures' \in { failures, failures + 1 },
             UNCHANGED << known, content, written, result >>
      PROVE  Kept
  BY <1>0, <1>1, ContentKept
<1>2. ASSUME NEW how \in { "aborted", "failed", "ok" }, F!Ends(c, how),
             at[c] # "writes", how = "ok" => at[c] = "tells",
             failures' \in { failures, failures + 1 },
             UNCHANGED << known, content, written >>
      PROVE  Kept
  <2>1. /\ at' = [ at EXCEPT ![c] = "done" ]
        /\ result' = [ result EXCEPT ![c] = how ]
    BY <1>2 DEF F!Ends
  <2> QED
    BY <1>0, <1>2, <2>1, ContentKept
<1>3. CASE F!Begin(c) \/ F!Resolve(c) \/ F!Find(c)
  BY <1>1, <1>3 DEF F!Begin, F!Resolve, F!Find, F!Goes, F!Places
<1>4. CASE F!Cancel(c)
  BY <1>0, <1>4, ContentKept DEF F!Cancel
<1>5. CASE F!Enter(c)
  BY <1>1, <1>2, <1>5 DEF F!Enter, F!Aborts, F!Places
<1>6. CASE F!Prepare(c)
  <2>1. CASE F!Fails(c) /\ UNCHANGED content
    BY <1>2, <1>6, <2>1 DEF F!Prepare, F!Fails
  <2>2. CASE F!Ends(c, "failed") /\ UNCHANGED << known, content, written, failures >>
    BY <1>2, <1>6, <2>2 DEF F!Prepare
  <2>3. CASE /\ KindOf[c] = "edit" => content # F!NoFile
             /\ at' = [ at EXCEPT ![c] = "decides" ]
             /\ known' = [ known EXCEPT ![c] =
                             IF KindOf[c] = "edit" THEN content ELSE << >> ]
             /\ UNCHANGED << content, result, written, failures >>
    <3>1. \A d \in Changes : at[d] # "writes"
      BY <1>6, OneInside DEF F!Prepare, F!Inside
    <3>2. F!ReadsAreFresh'
      <4>1. F!Spoilt(content) \/ content = F!Since(written)
        BY <3>1 DEF F!FileAgrees
      <4>2. KindOf[c] = "edit" /\ F!Spoilt(content) => failures > 0
        BY <2>3, <3>1 DEF F!FileAgrees
      <4>3. KindOf[c] \in { "edit", "write" }
        BY ToolsAssumption
      <4> QED
        BY <1>0, <2>3, <4>1, <4>2, <4>3 DEF F!ReadsAreFresh, F!TypeOK
    <3>3. F!FileAgrees' /\ F!ToldHaveWritten'
      BY <1>0, <2>3, <3>1 DEF F!FileAgrees, F!ToldHaveWritten
    <3> QED
      BY <3>2, <3>3
  <2> QED
    BY <1>6, <2>1, <2>2, <2>3 DEF F!Prepare
<1>7. CASE F!Decide(c)
  <2>1. CASE F!Aborts(c)
    BY <1>2, <1>7, <2>1 DEF F!Decide, F!Aborts
  <2>2. CASE /\ at' = [ at EXCEPT ![c] = "writes" ] /\ content' = F!Torn
             /\ UNCHANGED << known, result, written, failures >>
    <3>1. F!ReadsAreFresh' /\ F!ToldHaveWritten'
      BY <1>0, <1>7, <2>2 DEF F!Decide, F!ReadsAreFresh, F!ToldHaveWritten
    <3>2. F!FileAgrees'
      BY <1>0, <2>2 DEF F!FileAgrees
    <3> QED
      BY <3>1, <3>2
  <2> QED
    BY <1>7, <2>1, <2>2 DEF F!Decide
<1>8. CASE F!Write(c)
  <2>1. at[c] = "writes" /\ \A d \in Changes \ { c } : at[d] \notin F!Inside
    <3>1. at[c] = "writes" /\ at[c] \in F!Inside
      BY <1>8 DEF F!Write, F!Inside
    <3> QED
      BY <3>1, OneInside
  <2>2. CASE F!Fails(c) /\ content' = F!Torn
    <3>1. /\ at' = [ at EXCEPT ![c] = "done" ]
          /\ result' = [ result EXCEPT ![c] = "failed" ]
          /\ failures' = failures + 1 /\ UNCHANGED << known, written >>
      BY <2>2 DEF F!Fails, F!Ends
    <3>2. F!Spoilt(F!Torn)
      BY DEF F!Spoilt, F!Torn
    <3>3. F!ReadsAreFresh' /\ F!ToldHaveWritten'
      BY <1>0, <2>1, <3>1 DEF F!ReadsAreFresh, F!ToldHaveWritten, F!Inside
    <3>4. F!FileAgrees'
      BY <1>0, <2>2, <3>1, <3>2 DEF F!FileAgrees
    <3> QED
      BY <3>3, <3>4
  <2>3. CASE /\ at' = [ at EXCEPT ![c] = "tells" ]
             /\ content' = Append(known[c], c) /\ written' = Append(written, c)
             /\ UNCHANGED << known, result, failures >>
    <3>1. \A d \in Changes : at'[d] \notin { "decides", "writes" }
      BY <1>0, <2>1, <2>3 DEF F!Inside
    <3>2. /\ known[c] \in F!Contents /\ written \in Seq(Changes)
          /\ KindOf[c] \in { "edit", "write" }
      BY ToolsAssumption DEF F!TypeOK
    <3>3. F!Spoilt(content') <=> F!Spoilt(known[c])
      BY <2>3, <3>2, SpoiltAfter
    <3>4. F!Spoilt(content') \/ content' = F!Since(written')
      <4>1. CASE KindOf[c] = "write"
        <5>1. known[c] = << >>
          BY <2>1, <4>1 DEF F!ReadsAreFresh
        <5> QED
          BY <2>3, <3>2, <4>1, <5>1, SinceWrite
      <4>2. CASE KindOf[c] # "write" /\ ~F!Spoilt(known[c])
        <5>1. known[c] = F!Since(written)
          BY <2>1, <4>2 DEF F!ReadsAreFresh
        <5> QED
          BY <2>3, <3>2, <4>2, <5>1, SinceEdit
      <4> QED
        BY <3>3, <4>1, <4>2
    <3>5. F!Spoilt(known[c]) => failures > 0
      BY <2>1 DEF F!ReadsAreFresh, F!Spoilt
    <3>6. F!FileAgrees'
      BY <2>3, <3>1, <3>3, <3>4, <3>5 DEF F!FileAgrees
    <3>7. F!ReadsAreFresh'
      BY <3>1 DEF F!ReadsAreFresh
    <3>8. F!ToldHaveWritten'
      <4>1. /\ F!Contains(written', c)
            /\ \A d \in Changes : F!Contains(written, d) => F!Contains(written', d)
        BY <2>3, <3>2, AppendProperties, LenProperties, SMTT(30) DEF F!Contains
      <4> QED
        BY <1>0, <2>3, <4>1 DEF F!ToldHaveWritten
    <3> QED
      BY <3>6, <3>7, <3>8
  <2> QED
    BY <1>8, <2>2, <2>3 DEF F!Write
<1>9. CASE F!Tell(c)
  BY <1>2, <1>9 DEF F!Tell, F!Aborts
<1> QED
  BY <1>3, <1>4, <1>5, <1>6, <1>7, <1>8, <1>9 DEF F!Task

LEMMA FileInit == F!Init => F!FileInv
<1> SUFFICES ASSUME F!Init
             PROVE  F!FileInv
  OBVIOUS
<1> USE DEF F!Init
<1>a. "none" \notin Changes
  BY ToolsAssumption
<1>0. /\ Len(<< >>) = 0 /\ << >> \in Seq(Changes) /\ << >> \in F!Contents
      /\ F!NoFile \in F!Contents
  <2> DEFINE S == Changes \cup { "torn", "no file" }
  <2>1. "no file" \in S
    OBVIOUS
  <2>2. << "no file" >> \in Seq(S) /\ << >> \in Seq(S)
    <3> HIDE DEF S, F!Init
    <3>1. << "no file" >> \in Seq(S)
      BY <2>1, OneElement
    <3>2. << >> \in Seq(S)
      OBVIOUS
    <3> QED
      BY <3>1, <3>2
  <2>3. Len(<< >>) = 0 /\ << >> \in Seq(Changes)
    OBVIOUS
  <2> QED
    BY <2>2, <2>3, Zenon DEF F!NoFile, F!Contents
<1>1. F!TypeOK
  BY <1>0, <1>a DEF F!TypeOK, F!Places, F!Paths, F!NoLock, F!MaybeLock
<1>2. F!OneLock
  BY DEF F!OneLock, F!Queued, F!Inside
<1>3. F!Queues
  <2>1. /\ queue \in [ Changes -> Seq(Changes) ]
        /\ \A l \in Changes : Len(queue[l]) = 0
    BY <1>0
  <2>2. \A c \in Changes : at[c] = "idle"
    OBVIOUS
  <2> HIDE DEF F!Init
  <2> QED
    BY <2>1, <2>2 DEF F!Queues, F!IsIn, F!Queued, F!Inside
<1>4. F!ReadsAreFresh /\ F!ToldHaveWritten
  BY DEF F!ReadsAreFresh, F!ToldHaveWritten
<1>5. F!FileAgrees
  <2>1. F!Since(<< >>) = << >>
    <3>1. DOMAIN << >> = { }
      OBVIOUS
    <3>2. { i \in DOMAIN << >> : KindOf[<< >>[i]] = "write" } = { }
      BY <3>1, Zenon
    <3> QED
      BY <3>2, Zenon DEF F!Since
  <2>2. F!Spoilt(F!NoFile) /\ ~F!Spoilt(<< >>)
    <3>1. << "no file" >> # << >> /\ Head(<< "no file" >>) = "no file"
      BY OneElement
    <3> QED
      BY <3>1, Zenon DEF F!Spoilt, F!NoFile
  <2> QED
    BY <2>1, <2>2 DEF F!FileAgrees
<1> QED
  BY <1>1, <1>2, <1>3, <1>4, <1>5 DEF F!FileInv

\* A call by a link remains one, so that the others need only be looked at
\* while there is none.
LEMMA FileStep == F!FileInv /\ [F!Next]_fileVars => F!FileInv'
<1>1. F!FileInv /\ F!Next => F!FileInv'
  <2> SUFFICES ASSUME F!FileInv, NEW c \in Changes,
                      F!Begin(c) \/ F!Cancel(c) \/ F!Task(c)
               PROVE  F!FileInv'
    BY DEF F!Next
  <2>1. F!TypeOK'
    BY FileTypes DEF F!FileInv, F!Next
  <2>2. F!Apart => F!Apart'
    <3>1. key' = key \/ (at[c] = "keys" /\ \A d \in Changes \ { c } : key'[d] = key[d])
      BY DEF F!Begin, F!Cancel, F!Task, F!Resolve, F!Find, F!Enter, F!Prepare,
             F!Decide, F!Write, F!Tell, F!Goes, F!FileInv, F!TypeOK
    <3> QED
      BY <3>1 DEF F!Apart, F!FileInv, F!TypeOK, F!NoLock
  <2>3. CASE ~F!Apart
    BY <2>1, <2>3, TurnsStep, ContentStep DEF F!FileInv
  <2> QED
    BY <2>1, <2>2, <2>3 DEF F!FileInv
<1>2. F!FileInv /\ UNCHANGED fileVars => F!FileInv'
  <2> SUFFICES ASSUME F!FileInv, UNCHANGED fileVars
               PROVE  F!FileInv'
    OBVIOUS
  <2> USE DEF fileVars
  <2>1. F!TypeOK' /\ (F!Apart' <=> F!Apart)
    BY DEF F!FileInv, F!TypeOK, F!Apart
  <2>2. F!OneLock => F!OneLock'
    BY DEF F!OneLock
  <2>3. F!Queues => F!Queues'
    <3>1. queue' = queue /\ at' = at /\ lock' = lock
      OBVIOUS
    <3>2. \A l, c \in Changes : F!IsIn(c, l)' <=> F!IsIn(c, l)
      BY <3>1 DEF F!IsIn
    <3> QED
      BY <3>1, <3>2, Zenon DEF F!Queues
  <2>4. F!ReadsAreFresh => F!ReadsAreFresh'
    BY DEF F!ReadsAreFresh
  <2>5. (F!FileAgrees => F!FileAgrees') /\ (F!ToldHaveWritten => F!ToldHaveWritten')
    BY DEF F!FileAgrees, F!ToldHaveWritten
  <2> QED
    BY <2>1, <2>2, <2>3, <2>4, <2>5 DEF F!FileInv
<1> QED
  BY <1>1, <1>2

\* For any number of calls that edit and write a file, cancelled and dropped at
\* any point, with reads, matches and writes that fail: between the changes
\* the file holds every edit since the last write, no edit has read what
\* another has overwritten since, and who was told of success has written;
\* unless a call came by a link before there was a file.
THEOREM ChangesAreKept == ToolsSpec => []F!NoChangeLost
<1>1. ToolsInit => F!FileInv
  BY FileInit DEF ToolsInit
<1>2. F!FileInv /\ [ToolsNext]_toolsVars => F!FileInv'
  BY FileStep DEF ToolsNext, toolsVars
<1>3. F!FileInv => F!NoChangeLost
  <2>1. F!ReadsAreFresh => \A c \in Changes :
          at[c] \in { "decides", "writes" } /\ KindOf[c] = "edit" =>
            F!Spoilt(known[c]) \/ known[c] = F!Since(written)
    BY DEF F!ReadsAreFresh
  <2> QED
    BY <2>1 DEF F!NoChangeLost, F!FileInv, F!FileAgrees, F!ToldHaveWritten
<1>4. QED
  BY <1>1, <1>2, <1>3, PTL DEF ToolsSpec

-----------------------------------------------------------------------------
(* The end of a text.                                                      *)

\* Natural numbers have a least.
LEMMA LeastIs ==
  ASSUME NEW T \in SUBSET Nat, T # { }
  PROVE  O!Min(T) \in T /\ \A i \in T : O!Min(T) <= i
<1>1. PICK less : IsWellFoundedOn(less, Nat) /\ less = { ss \in Nat \X Nat : ss[1] < ss[2] }
  <2>1. IsWellFoundedOn(OpToRel(<, Nat), Nat)
    BY NatLessThanWellFounded
  <2>2. QED
    BY <2>1, Zenon DEF OpToRel
<1>2. PICK m \in T : \A x \in T : << x, m >> \notin less
  BY <1>1, WFMin, Zenon
<1>3. ASSUME NEW i \in T
      PROVE  m <= i
  <2>1. i \in Nat /\ m \in Nat
    OBVIOUS
  <2>2. ~(i < m)
    BY <1>1, <1>2, <2>1
  <2> QED
    BY <2>1, <2>2
<1> QED
  BY <1>2, <1>3, Zenon DEF O!Min

\* A number of a set that is at most every other is what Min chooses.
LEMMA LeastIsOne ==
  ASSUME NEW T \in SUBSET Nat, NEW m \in T, \A i \in T : m <= i
  PROVE  O!Min(T) = m
<1>1. O!Min(T) \in T /\ O!Min(T) <= m
  BY LeastIs
<1>2. m <= O!Min(T) /\ m \in Nat /\ O!Min(T) \in Nat
  BY <1>1
<1> QED
  BY <1>1, <1>2

\* The parts count with the same Cardinality as this module.
LEMMA CountIsCardinality == \A S : O!Cardinality(S) = Cardinality(S)
  BY Zenon DEF O!Cardinality, Cardinality

\* As many numbers when they are moved.
LEMMA MovedCount ==
  ASSUME NEW n \in Nat, NEW A \in SUBSET (1 .. n), NEW k \in Int
  PROVE  /\ IsFiniteSet(A) /\ IsFiniteSet({ x + k : x \in A })
         /\ Cardinality({ x + k : x \in A }) = Cardinality(A)
<1> DEFINE B == { x + k : x \in A }
           move == [ x \in A |-> x + k ]
<1>1. IsFiniteSet(A)
  <2>1. IsFiniteSet(1 .. n)
    BY FS_Interval
  <2> QED
    BY <2>1, FS_Subset, Zenon
<1>2. move \in [ A -> B ]
  BY Zenon
<1>3. \A x, y \in A : move[x] = move[y] => x = y
  <2>1. \A x, y \in 1 .. n : x + k = y + k => x = y
    OBVIOUS
  <2>2. \A x \in A : x \in 1 .. n /\ move[x] = x + k
    OBVIOUS
  <2> QED
    BY <2>1, <2>2, Zenon
<1>4. \A y \in B : \E x \in A : move[x] = y
  OBVIOUS
<1>5. ExistsBijection(A, B)
  <2> HIDE DEF B, move
  <2> QED
    BY <1>2, <1>3, <1>4, Zenon DEF ExistsBijection, Bijection, Injection, IsInjective, Surjection
<1> HIDE DEF B, move
<1>6. IsFiniteSet(B) /\ Cardinality(B) = Cardinality(A)
  BY <1>1, <1>5, FS_Bijection, Zenon
<1> QED
  BY <1>1, <1>6 DEF B

\* What follows from a place on.
LEMMA FromIs ==
  ASSUME NEW S, NEW t \in Seq(S), NEW n \in Nat, n = Len(t), NEW i \in 1 .. n + 1
  PROVE  /\ O!From(t, i) \in Seq(S) /\ Len(O!From(t, i)) = n + 1 - i
         /\ \A m \in 1 .. n + 1 - i : O!From(t, i)[m] = t[i + m - 1]
<1>1. i \in Int /\ \A m \in i .. n : t[m] \in S
  OBVIOUS
<1>3. /\ SubSeq(t, i, n) \in Seq(S)
      /\ Len(SubSeq(t, i, n)) = IF i <= n THEN n - i + 1 ELSE 0
      /\ \A m \in 1 .. n - i + 1 : SubSeq(t, i, n)[m] = t[i + m - 1]
  BY <1>1, SubSeqProperties
<1> QED
  BY <1>3 DEF O!From

\* The same for every text: what From gives, its length and its bytes.
LEMMA FromFacts ==
  \A S : \A t \in Seq(S) : \A i \in 1 .. Len(t) + 1 :
    /\ O!From(t, i) \in Seq(S) /\ Len(O!From(t, i)) = Len(t) + 1 - i
    /\ \A m \in 1 .. Len(t) + 1 - i : O!From(t, i)[m] = t[i + m - 1]
<1> SUFFICES ASSUME NEW S, NEW t \in Seq(S), NEW i \in 1 .. Len(t) + 1
             PROVE  /\ O!From(t, i) \in Seq(S) /\ Len(O!From(t, i)) = Len(t) + 1 - i
                    /\ \A m \in 1 .. Len(t) + 1 - i : O!From(t, i)[m] = t[i + m - 1]
  OBVIOUS
<1>1. Len(t) \in Nat
  OBVIOUS
<1> QED
  BY <1>1, FromIs

\* Two texts of the same length that agree at every place.
LEMMA SameText ==
  \A S : \A t, u \in Seq(S) :
    Len(t) = Len(u) /\ (\A i \in 1 .. Len(t) : t[i] = u[i]) => t = u
BY SeqEqual

\* The end of an end is an end.
LEMMA FromFrom ==
  ASSUME NEW S, NEW t \in Seq(S), NEW i \in 1 .. Len(t) + 1,
         NEW j \in 1 .. Len(t) + 2 - i
  PROVE  O!From(O!From(t, i), j) = O!From(t, i + j - 1)
<1>1. PICK k \in Int : k = i + j - 1
  OBVIOUS
<1>n. Len(t) \in Nat
  OBVIOUS
<1>2. /\ O!From(t, i) \in Seq(S) /\ Len(O!From(t, i)) = Len(t) + 1 - i
      /\ \A m \in 1 .. Len(t) + 1 - i : O!From(t, i)[m] = t[i + m - 1]
  BY FromFacts, Zenon
<1>3. PICK u \in Seq(S) : u = O!From(t, i)
  BY <1>2, Zenon
<1>4. /\ Len(u) = Len(t) + 1 - i
      /\ \A m \in 1 .. Len(t) + 1 - i : u[m] = t[i + m - 1]
  BY <1>2, <1>3, Zenon
<1>5. j \in 1 .. Len(u) + 1 /\ k \in 1 .. Len(t) + 1
  BY <1>n, <1>1, <1>4
<1>6. /\ O!From(u, j) \in Seq(S) /\ Len(O!From(u, j)) = Len(u) + 1 - j
      /\ \A m \in 1 .. Len(u) + 1 - j : O!From(u, j)[m] = u[j + m - 1]
  BY <1>5, FromFacts, Zenon
<1>7. /\ O!From(t, k) \in Seq(S) /\ Len(O!From(t, k)) = Len(t) + 1 - k
      /\ \A m \in 1 .. Len(t) + 1 - k : O!From(t, k)[m] = t[k + m - 1]
  BY <1>5, FromFacts, Zenon
<1>8. PICK x \in Seq(S), y \in Seq(S) : x = O!From(u, j) /\ y = O!From(t, k)
  BY <1>6, <1>7, Zenon
<1>9. /\ Len(x) = Len(u) + 1 - j /\ Len(y) = Len(t) + 1 - k
      /\ \A m \in 1 .. Len(u) + 1 - j : x[m] = u[j + m - 1]
      /\ \A m \in 1 .. Len(t) + 1 - k : y[m] = t[k + m - 1]
  BY <1>6, <1>7, <1>8, Zenon
<1>10. PICK l \in Nat, n \in Nat : l = Len(u) /\ n = Len(t)
  OBVIOUS
<1>11. l = n + 1 - i /\ j \in 1 .. l + 1 /\ i \in 1 .. n + 1
  BY <1>4, <1>5, <1>10
<1>12. ASSUME NEW m \in 1 .. l + 1 - j
       PROVE  x[m] = y[m]
  <2>1. /\ j + m - 1 \in 1 .. n + 1 - i /\ m \in 1 .. n + 1 - k
        /\ i + (j + m - 1) - 1 = k + m - 1
    BY <1>1, <1>11
  <2>2. x[m] = u[j + m - 1]
    BY <1>9, <1>10
  <2>3. u[j + m - 1] = t[i + (j + m - 1) - 1]
    BY <1>4, <1>10, <2>1
  <2>4. y[m] = t[k + m - 1]
    BY <1>9, <1>10, <2>1
  <2> QED
    BY <2>1, <2>2, <2>3, <2>4
<1>13. Len(x) = l + 1 - j /\ Len(x) = Len(y)
  BY <1>1, <1>9, <1>10, <1>11
<1>14. x = y
  BY <1>12, <1>13, SameText
<1> QED
  BY <1>1, <1>3, <1>8, <1>14, Zenon

\* From the first byte on, that is all of the text.
LEMMA FromFirst ==
  ASSUME NEW S, NEW t \in Seq(S)
  PROVE  O!From(t, 1) = t
<1>1. Len(t) \in Nat /\ 1 \in 1 .. Len(t) + 1
  OBVIOUS
<1>2. /\ O!From(t, 1) \in Seq(S) /\ Len(O!From(t, 1)) = Len(t) + 1 - 1
      /\ \A m \in 1 .. Len(t) + 1 - 1 : O!From(t, 1)[m] = t[1 + m - 1]
  BY <1>1, FromFacts, Zenon
<1>3. PICK u \in Seq(S) : u = O!From(t, 1)
  BY <1>2, Zenon
<1>4. Len(u) = Len(t) + 1 - 1 /\ \A m \in 1 .. Len(t) + 1 - 1 : u[m] = t[1 + m - 1]
  BY <1>2, <1>3, Zenon
<1>5. Len(u) = Len(t) /\ \A m \in 1 .. Len(u) : u[m] = t[m]
  BY <1>1, <1>4
<1>6. u = t
  BY <1>5, SameText
<1> QED
  BY <1>3, <1>6

\* The parts of two texts in a row.
LEMMA RowFacts ==
  \A S : \A t, u \in Seq(S) :
    /\ t \o u \in Seq(S) /\ Len(t \o u) = Len(t) + Len(u)
    /\ \A i \in 1 .. Len(t) : (t \o u)[i] = t[i]
    /\ \A i \in 1 .. Len(u) : (t \o u)[Len(t) + i] = u[i]
<1> SUFFICES ASSUME NEW S, NEW t \in Seq(S), NEW u \in Seq(S)
             PROVE  /\ t \o u \in Seq(S) /\ Len(t \o u) = Len(t) + Len(u)
                    /\ \A i \in 1 .. Len(t) : (t \o u)[i] = t[i]
                    /\ \A i \in 1 .. Len(u) : (t \o u)[Len(t) + i] = u[i]
  OBVIOUS
<1>1. PICK v : v = t \o u
  OBVIOUS
<1>2. /\ v \in Seq(S) /\ Len(v) = Len(t) + Len(u)
      /\ \A i \in 1 .. Len(t) + Len(u) : v[i] = IF i <= Len(t) THEN t[i] ELSE u[i - Len(t)]
  BY <1>1, ConcatProperties
<1>3. PICK n \in Nat, k \in Nat : n = Len(t) /\ k = Len(u)
  OBVIOUS
<1>4. \A i \in 1 .. n + k : v[i] = IF i <= n THEN t[i] ELSE u[i - n]
  BY <1>2, <1>3
<1>5. /\ \A i \in 1 .. k : n + i \in 1 .. n + k /\ ~(n + i <= n) /\ (n + i) - n = i
      /\ \A i \in 1 .. n : i \in 1 .. n + k /\ i <= n
  OBVIOUS
<1>6. (\A i \in 1 .. n : v[i] = t[i]) /\ \A i \in 1 .. k : v[n + i] = u[i]
  BY <1>4, <1>5
<1> QED
  BY <1>1, <1>2, <1>3, <1>6, Zenon

\* What is appended to the end of a text is appended to the text.
LEMMA FromConcat ==
  ASSUME NEW S, NEW t \in Seq(S), NEW u \in Seq(S), NEW i \in 1 .. Len(t) + 1
  PROVE  O!From(t, i) \o u = O!From(t \o u, i)
<1>1. PICK n \in Nat, k \in Nat : n = Len(t) /\ k = Len(u)
  OBVIOUS
<1>2. PICK v \in Seq(S) : v = t \o u
  BY RowFacts, Zenon
<1>3. /\ Len(v) = Len(t) + Len(u)
      /\ \A m \in 1 .. Len(t) : v[m] = t[m]
      /\ \A m \in 1 .. Len(u) : v[Len(t) + m] = u[m]
  <2>1. /\ Len(t \o u) = Len(t) + Len(u)
        /\ \A m \in 1 .. Len(t) : (t \o u)[m] = t[m]
        /\ \A m \in 1 .. Len(u) : (t \o u)[Len(t) + m] = u[m]
    BY RowFacts
  <2> QED
    BY <1>2, <2>1, Zenon
<1>4. Len(v) = n + k /\ i \in 1 .. n + 1
  BY <1>1, <1>3
<1>5. i \in 1 .. Len(v) + 1
  BY <1>4
<1>6. PICK h \in Seq(S), x \in Seq(S) : h = O!From(t, i) /\ x = O!From(v, i)
  BY <1>5, FromFacts, Zenon
<1>7. /\ Len(h) = Len(t) + 1 - i /\ Len(x) = Len(v) + 1 - i
      /\ \A m \in 1 .. Len(t) + 1 - i : h[m] = t[i + m - 1]
      /\ \A m \in 1 .. Len(v) + 1 - i : x[m] = v[i + m - 1]
  <2>1. /\ Len(O!From(t, i)) = Len(t) + 1 - i
        /\ \A m \in 1 .. Len(t) + 1 - i : O!From(t, i)[m] = t[i + m - 1]
    BY FromFacts, SMTT(30)
  <2>2. /\ Len(O!From(v, i)) = Len(v) + 1 - i
        /\ \A m \in 1 .. Len(v) + 1 - i : O!From(v, i)[m] = v[i + m - 1]
    BY <1>5, FromFacts, SMTT(30)
  <2> QED
    BY <1>6, <2>1, <2>2, Zenon
<1>8. PICK g \in Seq(S) : g = h \o u
  BY RowFacts, Zenon
<1>9. /\ Len(g) = Len(h) + Len(u)
      /\ \A m \in 1 .. Len(h) : g[m] = h[m]
      /\ \A m \in 1 .. Len(u) : g[Len(h) + m] = u[m]
  <2>1. /\ Len(h \o u) = Len(h) + Len(u)
        /\ \A m \in 1 .. Len(h) : (h \o u)[m] = h[m]
        /\ \A m \in 1 .. Len(u) : (h \o u)[Len(h) + m] = u[m]
    BY RowFacts
  <2> QED
    BY <1>8, <2>1, Zenon
<1>10. PICK l \in Nat : l = Len(h) /\ l = n + 1 - i
  <2>1. PICK l \in Nat : l = Len(h)
    OBVIOUS
  <2> QED
    BY <1>1, <1>7, <2>1
<1>11. /\ \A m \in 1 .. n : v[m] = t[m]
       /\ \A m \in 1 .. k : v[n + m] = u[m]
       /\ \A m \in 1 .. l : h[m] = t[i + m - 1]
       /\ \A m \in 1 .. n + k + 1 - i : x[m] = v[i + m - 1]
       /\ \A m \in 1 .. l : g[m] = h[m]
       /\ \A m \in 1 .. k : g[l + m] = u[m]
  BY <1>1, <1>3, <1>4, <1>7, <1>9, <1>10
<1>12. Len(g) = l + k /\ Len(x) = l + k
  BY <1>1, <1>4, <1>7, <1>9, <1>10
<1>13. ASSUME NEW m \in 1 .. l + k
       PROVE  g[m] = x[m]
  <2>1. m \in 1 .. n + k + 1 - i /\ x[m] = v[i + m - 1]
    BY <1>4, <1>10, <1>11
  <2>2. CASE m \in 1 .. l
    <3>1. i + m - 1 \in 1 .. n
      BY <1>4, <1>10, <2>2
    <3> QED
      BY <1>11, <2>1, <2>2, <3>1
  <2>3. CASE m \notin 1 .. l
    <3>1. m - l \in 1 .. k /\ m = l + (m - l) /\ i + m - 1 = n + (m - l)
      BY <1>4, <1>10, <2>3
    <3>2. PICK z \in 1 .. k : m = l + z /\ i + m - 1 = n + z
      BY <3>1
    <3> QED
      BY <1>11, <2>1, <3>2
  <2> QED
    BY <2>2, <2>3
<1>14. g = x
  <2>1. Len(g) = Len(x) /\ \A m \in 1 .. Len(g) : g[m] = x[m]
    BY <1>12, <1>13
  <2> QED
    BY <2>1, SameText
<1> QED
  BY <1>2, <1>6, <1>8, <1>14, Zenon

-----------------------------------------------------------------------------
(* Lines.                                                                  *)

\* What comes before the end of the last line.
LEMMA BodyFacts ==
  \A S : \A t \in Seq(S) :
    /\ O!Body(t) \in Seq(S)
    /\ Len(O!Body(t)) = IF t # << >> /\ t[Len(t)] = "nl" THEN Len(t) - 1 ELSE Len(t)
    /\ \A m \in 1 .. Len(O!Body(t)) : O!Body(t)[m] = t[m]
<1> SUFFICES ASSUME NEW S, NEW t \in Seq(S)
             PROVE  /\ O!Body(t) \in Seq(S)
                    /\ Len(O!Body(t)) = IF t # << >> /\ t[Len(t)] = "nl" THEN Len(t) - 1 ELSE Len(t)
                    /\ \A m \in 1 .. Len(O!Body(t)) : O!Body(t)[m] = t[m]
  OBVIOUS
<1>1. CASE t # << >> /\ t[Len(t)] = "nl"
  <2>1. O!Body(t) = SubSeq(t, 1, Len(t) - 1)
    BY <1>1 DEF O!Body, O!Last, O!Front
  <2>2. PICK bt \in Seq(S) : bt = SubSeq(t, 1, Len(t) - 1) /\ Len(bt) = Len(t) - 1
                            /\ \A m \in 1 .. Len(bt) : bt[m] = t[m]
    <3>1. PICK n \in Nat : n = Len(t) /\ n > 0
      BY <1>1, EmptySeq
    <3>2. 1 \in Int /\ n - 1 \in Int /\ \A m \in 1 .. n - 1 : t[m] \in S
      BY <3>1
    <3>3. /\ SubSeq(t, 1, n - 1) \in Seq(S)
          /\ Len(SubSeq(t, 1, n - 1)) = IF 1 <= n - 1 THEN (n - 1) - 1 + 1 ELSE 0
          /\ \A m \in 1 .. (n - 1) - 1 + 1 : SubSeq(t, 1, n - 1)[m] = t[1 + m - 1]
      BY <3>2, SubSeqProperties
    <3>4. PICK bt \in Seq(S) : bt = SubSeq(t, 1, n - 1)
      BY <3>3, Zenon
    <3>5. /\ Len(bt) = IF 1 <= n - 1 THEN (n - 1) - 1 + 1 ELSE 0
          /\ \A m \in 1 .. (n - 1) - 1 + 1 : bt[m] = t[1 + m - 1]
      BY <3>3, <3>4, Zenon
    <3>6. Len(bt) = n - 1 /\ \A m \in 1 .. n - 1 : bt[m] = t[m]
      BY <3>1, <3>5
    <3> QED
      BY <3>1, <3>4, <3>6, Zenon
  <2> QED
    BY <1>1, <2>1, <2>2, Zenon
<1>2. CASE ~(t # << >> /\ t[Len(t)] = "nl")
  <2>1. O!Body(t) = t
    BY <1>2 DEF O!Body, O!Last
  <2> QED
    BY <1>2, <2>1, Zenon
<1> QED
  BY <1>1, <1>2, Zenon

\* The body of the end is the end of the body.
LEMMA BodyFrom ==
  ASSUME NEW S, NEW t \in Seq(S), NEW i \in 1 .. Len(t)
  PROVE  /\ O!Body(O!From(t, i)) = O!From(O!Body(t), i)
         /\ i \in 1 .. Len(O!Body(t)) + 1
<1>1. PICK n \in Nat : n = Len(t)
  OBVIOUS
<1>2. i \in 1 .. Len(t) + 1
  BY <1>1
<1>3. PICK s \in Seq(S) : s = O!From(t, i)
  BY <1>2, FromFacts, Zenon
<1>4. Len(s) = Len(t) + 1 - i /\ \A m \in 1 .. Len(t) + 1 - i : s[m] = t[i + m - 1]
  BY <1>2, <1>3, FromFacts, Zenon
<1>5. PICK bt \in Seq(S), bs \in Seq(S) : bt = O!Body(t) /\ bs = O!Body(s)
  BY BodyFacts, Zenon
<1>6. /\ Len(bt) = IF t # << >> /\ t[Len(t)] = "nl" THEN Len(t) - 1 ELSE Len(t)
      /\ \A m \in 1 .. Len(bt) : bt[m] = t[m]
  BY <1>5, BodyFacts, Zenon
<1>7. /\ Len(bs) = IF s # << >> /\ s[Len(s)] = "nl" THEN Len(s) - 1 ELSE Len(s)
      /\ \A m \in 1 .. Len(bs) : bs[m] = s[m]
  BY <1>5, BodyFacts, Zenon
<1>8. PICK l \in Nat, x \in Nat, y \in Nat : l = Len(s) /\ x = Len(bt) /\ y = Len(bs)
  OBVIOUS
<1>9. /\ l = n + 1 - i /\ i \in 1 .. n
      /\ \A m \in 1 .. n + 1 - i : s[m] = t[i + m - 1]
  BY <1>1, <1>4, <1>8
<1>10. s # << >> /\ t # << >>
  <2>1. Len(s) # 0 /\ Len(t) # 0
    BY <1>1, <1>8, <1>9
  <2>2. Len(<< >>) = 0
    OBVIOUS
  <2> QED
    BY <2>1, <2>2, Zenon
<1>11. s[l] = t[n]
  <2>1. l \in 1 .. n + 1 - i /\ i + l - 1 = n
    BY <1>9
  <2> QED
    BY <1>9, <2>1
<1>12. /\ x = IF t[n] = "nl" THEN n - 1 ELSE n
       /\ y = IF t[n] = "nl" THEN l - 1 ELSE l
  BY <1>1, <1>6, <1>7, <1>8, <1>10, <1>11
<1>13. i \in 1 .. x + 1 /\ y = x + 1 - i
  BY <1>9, <1>12
<1>14. i \in 1 .. Len(bt) + 1
  BY <1>8, <1>13
<1>15. PICK g \in Seq(S) : g = O!From(bt, i)
  BY <1>14, FromFacts, Zenon
<1>16. Len(g) = Len(bt) + 1 - i /\ \A m \in 1 .. Len(bt) + 1 - i : g[m] = bt[i + m - 1]
  BY <1>14, <1>15, FromFacts, Zenon
<1>17. Len(bs) = Len(g) /\ \A m \in 1 .. Len(bs) : bs[m] = g[m]
  <2>1. Len(g) = x + 1 - i /\ \A m \in 1 .. x + 1 - i : g[m] = bt[i + m - 1]
    BY <1>8, <1>16
  <2>2. Len(bs) = Len(g)
    BY <1>8, <1>13, <2>1
  <2>3. ASSUME NEW m \in 1 .. y
        PROVE  bs[m] = g[m]
    <3>1. m \in 1 .. n + 1 - i /\ m \in 1 .. x + 1 - i /\ i + m - 1 \in 1 .. x
      BY <1>9, <1>12, <1>13
    <3>2. bs[m] = s[m] /\ s[m] = t[i + m - 1]
      BY <1>7, <1>8, <1>9, <3>1
    <3>3. g[m] = bt[i + m - 1] /\ bt[i + m - 1] = t[i + m - 1]
      BY <1>6, <1>8, <2>1, <3>1
    <3> QED
      BY <3>2, <3>3
  <2> QED
    BY <1>8, <2>2, <2>3
<1>18. bs = g
  BY <1>17, SameText
<1> QED
  BY <1>3, <1>5, <1>14, <1>15, <1>18, Zenon

\* Where lines begin.
LEMMA StartsAre ==
  \A S : \A t \in Seq(S) :
    /\ O!LineStarts(t) = { i \in 1 .. Len(t) : i = 1 \/ t[i - 1] = "nl" }
    /\ O!LineStarts(t) \subseteq 1 .. Len(t)
<1> SUFFICES ASSUME NEW S, NEW t \in Seq(S)
             PROVE  O!LineStarts(t) = { i \in 1 .. Len(t) : i = 1 \/ t[i - 1] = "nl" }
  BY Zenon
<1>1. CASE t = << >>
  <2>1. 1 .. Len(t) = { }
    BY <1>1
  <2> QED
    BY <1>1, <2>1, Zenon DEF O!LineStarts
<1>2. CASE t # << >>
  <2>1. PICK n \in Nat : n = Len(t) /\ n > 0
    BY <1>2, EmptySeq
  <2>2. O!LineStarts(t) = { 1 } \cup { i \in 2 .. n : t[i - 1] = "nl" }
    BY <1>2, <2>1 DEF O!LineStarts
  <2>3. \A i : i \in 1 .. n <=> i = 1 \/ i \in 2 .. n
    BY <2>1
  <2>4. 1 \notin 2 .. n
    OBVIOUS
  <2>5. O!LineStarts(t) = { i \in 1 .. n : i = 1 \/ t[i - 1] = "nl" }
    BY <2>2, <2>3, <2>4, Zenon
  <2> QED
    BY <2>1, <2>5
<1> QED
  BY <1>1, <1>2

\* The lines of the end are those of the whole, from the end of a line on.
LEMMA StartsFrom ==
  ASSUME NEW S, NEW t \in Seq(S), NEW d \in 1 .. Len(t), d < Len(t), t[d] = "nl"
  PROVE  \A i \in Int : i \in O!LineStarts(O!From(t, d + 1)) <=>
                          i >= 1 /\ i + d \in O!LineStarts(t)
<1>1. PICK n \in Nat, k \in Nat : n = Len(t) /\ k = d + 1 /\ d \in 1 .. n - 1
  OBVIOUS
<1>2. k \in 1 .. Len(t) + 1
  BY <1>1
<1>3. PICK s \in Seq(S) : s = O!From(t, k)
  BY <1>2, FromFacts, Zenon
<1>4. Len(s) = Len(t) + 1 - k /\ \A m \in 1 .. Len(t) + 1 - k : s[m] = t[k + m - 1]
  BY <1>2, <1>3, FromFacts, Zenon
<1>5. Len(s) = n - d /\ \A m \in 1 .. n - d : s[m] = t[k + m - 1]
  BY <1>1, <1>4
<1>6. /\ O!LineStarts(t) = { i \in 1 .. Len(t) : i = 1 \/ t[i - 1] = "nl" }
      /\ O!LineStarts(s) = { i \in 1 .. Len(s) : i = 1 \/ s[i - 1] = "nl" }
  BY StartsAre, Zenon
<1>7. /\ \A i : i \in O!LineStarts(t) <=> i \in 1 .. n /\ (i = 1 \/ t[i - 1] = "nl")
      /\ \A i : i \in O!LineStarts(s) <=> i \in 1 .. n - d /\ (i = 1 \/ s[i - 1] = "nl")
  BY <1>1, <1>5, <1>6
<1>8. ASSUME NEW i \in Int
      PROVE  i \in O!LineStarts(s) <=> i >= 1 /\ i + d \in O!LineStarts(t)
  <2>1. i \in 1 .. n - d <=> i >= 1 /\ i + d \in 1 .. n
    BY <1>1
  <2>2. CASE i \notin 1 .. n - d
    BY <1>7, <2>1, <2>2
  <2>3. CASE i = 1 /\ i \in 1 .. n - d
    <3>1. i + d - 1 = d /\ i + d \in 1 .. n
      BY <1>1, <2>3
    <3> QED
      BY <1>7, <2>3, <3>1
  <2>4. CASE i # 1 /\ i \in 1 .. n - d
    <3>1. /\ i - 1 \in 1 .. n - d /\ k + (i - 1) - 1 = i + d - 1
          /\ i + d # 1 /\ i + d \in 1 .. n
      BY <1>1, <2>4
    <3>2. s[i - 1] = t[i + d - 1]
      <4>1. s[i - 1] = t[k + (i - 1) - 1]
        BY <1>5, <3>1
      <4> QED
        BY <3>1, <4>1
    <3>3. i + d \in O!LineStarts(t) <=>
            i + d \in 1 .. n /\ (i + d = 1 \/ t[i + d - 1] = "nl")
      BY <1>7
    <3>5. i \in O!LineStarts(s) <=> i \in 1 .. n - d /\ (i = 1 \/ s[i - 1] = "nl")
      BY <1>7
    <3>4. i >= 1
      BY <2>4
    <3> QED
      BY <2>4, <3>1, <3>2, <3>3, <3>4, <3>5, Zenon
  <2> QED
    BY <2>2, <2>3, <2>4, Zenon
<1> QED
  BY <1>1, <1>3, <1>8, Zenon

\* A text is its body, or has the end of its last line.
LEMMA BodyOrEnd ==
  \A S : \A t \in Seq(S) : t = O!Body(t) \/ t = O!Body(t) \o << "nl" >>
<1> SUFFICES ASSUME NEW S, NEW t \in Seq(S)
             PROVE  t = O!Body(t) \/ t = O!Body(t) \o << "nl" >>
  OBVIOUS
<1>1. CASE t # << >> /\ t[Len(t)] = "nl"
  <2>1. PICK n \in Nat : n = Len(t) /\ n > 0
    BY <1>1, EmptySeq
  <2>2. PICK bt \in Seq(S) : bt = O!Body(t)
    BY BodyFacts, Zenon
  <2>3. Len(bt) = n - 1 /\ \A m \in 1 .. Len(bt) : bt[m] = t[m]
    BY <1>1, <2>1, <2>2, BodyFacts
  <2>4. "nl" \in S
    <3>1. t[Len(t)] \in S
      BY <2>1
    <3> QED
      BY <1>1, <3>1
  <2>5. PICK e1 \in Seq(S) : e1 = << "nl" >> /\ Len(e1) = 1 /\ e1[1] = "nl"
    <3>1. /\ << "nl" >> \in Seq(S) /\ Len(<< "nl" >>) = 1 /\ << "nl" >>[1] = "nl"
      BY <2>4
    <3> QED
      BY <3>1, Zenon
  <2>6. PICK v \in Seq(S) : v = bt \o e1
    BY RowFacts, Zenon
  <2>7. /\ Len(v) = Len(bt) + Len(e1)
        /\ \A i \in 1 .. Len(bt) : v[i] = bt[i]
        /\ \A i \in 1 .. Len(e1) : v[Len(bt) + i] = e1[i]
    BY <2>6, RowFacts
  <2>8. Len(v) = n /\ (\A i \in 1 .. n - 1 : v[i] = bt[i]) /\ v[n - 1 + 1] = "nl"
    BY <2>1, <2>3, <2>5, <2>7
  <2>9. Len(v) = Len(t) /\ \A i \in 1 .. Len(v) : v[i] = t[i]
    BY <1>1, <2>1, <2>3, <2>8
  <2>10. v = t
    BY <2>9, SameText
  <2> QED
    BY <2>2, <2>5, <2>6, <2>10, Zenon
<1>2. CASE ~(t # << >> /\ t[Len(t)] = "nl")
  BY <1>2 DEF O!Body, O!Last
<1> QED
  BY <1>1, <1>2

\* Those from a place on are as many.
LEMMA CountFrom ==
  ASSUME NEW S, NEW t \in Seq(S), NEW d \in 1 .. Len(t), d < Len(t), t[d] = "nl",
         NEW i \in Int, i >= 1
  PROVE  O!Cardinality({ r \in O!LineStarts(O!From(t, d + 1)) : r >= i })
           = O!Cardinality({ r \in O!LineStarts(t) : r >= i + d })
<1> DEFINE s == O!From(t, d + 1)
           A == { r \in O!LineStarts(s) : r >= i }
           B == { r \in O!LineStarts(t) : r >= i + d }
<1>1. \A r \in Int : r \in O!LineStarts(s) <=> r >= 1 /\ r + d \in O!LineStarts(t)
  BY StartsFrom
<1>2. PICK n \in Nat : n = Len(t)
  OBVIOUS
<1>3. d + 1 \in 1 .. Len(t) + 1
  BY <1>2
<1>4. s \in Seq(S)
  BY <1>3, FromFacts, Zenon
<1>5. PICK k \in Nat : k = Len(s)
  BY <1>4
<1> HIDE DEF s
<1>6. O!LineStarts(t) \subseteq 1 .. n /\ O!LineStarts(s) \subseteq 1 .. k
  BY <1>2, <1>4, <1>5, StartsAre
<1>7. A \in SUBSET (1 .. k) /\ A \subseteq Int /\ B \subseteq Int
  BY <1>6
<1>8. B = { x + d : x \in A }
  <2>1. ASSUME NEW x \in A
        PROVE  x + d \in B
    BY <1>1, <1>7
  <2>2. ASSUME NEW y \in B
        PROVE  \E x \in A : y = x + d
    <3>1. PICK x \in Int : x = y - d
      BY <1>7
    <3>2. y = x + d /\ x >= i /\ x >= 1
      BY <1>7, <3>1
    <3>3. x \in A
      BY <1>1, <3>2
    <3> QED
      BY <3>2, <3>3
  <2> QED
    BY <2>1, <2>2
<1>9. Cardinality({ x + d : x \in A }) = Cardinality(A)
  <2> HIDE DEF A, B
  <2>1. d \in Int
    OBVIOUS
  <2> QED
    BY <1>7, <2>1, MovedCount
<1>10. Cardinality(A) = Cardinality(B)
  <2> HIDE DEF A, B
  <2> QED
    BY <1>8, <1>9
<1>11. O!Cardinality(A) = O!Cardinality(B)
  BY <1>10, CountIsCardinality, Zenon
<1> QED
  BY <1>11 DEF s

\* What fits of the end is what fits of the whole, and begins there.
LEMMA FitsFrom ==
  ASSUME NEW S, NEW t \in Seq(S), NEW d \in 1 .. Len(t), d < Len(t), t[d] = "nl",
         limit.bytes \in Nat, NEW i \in Int
  PROVE  i \in O!Fits(O!From(t, d + 1)) <=> i >= 1 /\ i + d \in O!Fits(t)
<1> DEFINE s == O!From(t, d + 1)
<1>1. PICK n \in Nat, k \in Nat : n = Len(t) /\ k = d + 1 /\ k \in 1 .. n
  OBVIOUS
<1>2. O!Body(s) = O!From(O!Body(t), k) /\ k \in 1 .. Len(O!Body(t)) + 1
  BY <1>1, BodyFrom
<1>3. O!Body(t) \in Seq(S)
  BY BodyFacts, Zenon
<1>4. Len(O!Body(s)) = Len(O!Body(t)) + 1 - k
  BY <1>2, <1>3, FromFacts
<1>5. PICK x \in Nat : x = Len(O!Body(t))
  BY <1>3
<1>6. Len(O!Body(s)) = x - d
  BY <1>1, <1>4, <1>5
<1>7. i \in O!LineStarts(s) <=> i >= 1 /\ i + d \in O!LineStarts(t)
  BY StartsFrom
<1>8. i >= 1 => O!Cardinality({ r \in O!LineStarts(s) : r >= i })
                  = O!Cardinality({ r \in O!LineStarts(t) : r >= i + d })
  BY CountFrom, ZenonT(30)
<1> HIDE DEF s
<1>9. (x - d) + 1 - i <= limit.bytes <=> x + 1 - (i + d) <= limit.bytes
  BY <1>1
<1>10. i \in O!Fits(s) <=>
        /\ i \in O!LineStarts(s) /\ (x - d) + 1 - i <= limit.bytes
        /\ O!Cardinality({ r \in O!LineStarts(s) : r >= i }) <= limit.lines
  BY <1>6, Zenon DEF O!Fits
<1>11. i + d \in O!Fits(t) <=>
        /\ i + d \in O!LineStarts(t) /\ x + 1 - (i + d) <= limit.bytes
        /\ O!Cardinality({ r \in O!LineStarts(t) : r >= i + d }) <= limit.lines
  BY <1>5, Zenon DEF O!Fits
<1>12. i \in O!Fits(s) <=> i >= 1 /\ i + d \in O!Fits(t)
  BY <1>7, <1>8, <1>9, <1>10, <1>11, Zenon
<1> QED
  BY <1>12 DEF s

-----------------------------------------------------------------------------
(* Characters.                                                             *)

\* The first character from a place on, and no other is.
LEMMA CharFromIs ==
  \A S : \A t \in Seq(S) : \A i \in 1 .. Len(t) + 1 :
    /\ O!CharFrom(t, i) \in i .. Len(t) + 1
    /\ O!CharFrom(t, i) = Len(t) + 1 \/ t[O!CharFrom(t, i)] # "tail"
    /\ \A j \in i .. O!CharFrom(t, i) - 1 : t[j] = "tail"
<1> SUFFICES ASSUME NEW S, NEW t \in Seq(S), NEW i \in 1 .. Len(t) + 1
             PROVE  /\ O!CharFrom(t, i) \in i .. Len(t) + 1
                    /\ O!CharFrom(t, i) = Len(t) + 1 \/ t[O!CharFrom(t, i)] # "tail"
                    /\ \A j \in i .. O!CharFrom(t, i) - 1 : t[j] = "tail"
  OBVIOUS
<1>1. PICK n \in Nat : n = Len(t)
  OBVIOUS
<1>2. PICK T : T = { j \in i .. n + 1 : j = n + 1 \/ t[j] # "tail" }
  OBVIOUS
<1>3. T \in SUBSET Nat /\ T # { }
  <2>1. n + 1 \in T
    BY <1>1, <1>2
  <2> QED
    BY <1>1, <1>2, <2>1
<1>4. PICK m : m = O!Min(T)
  OBVIOUS
<1>5. m \in T /\ \A j \in T : m <= j
  BY <1>3, <1>4, LeastIs
<1>6. O!CharFrom(t, i) = m
  BY <1>1, <1>2, <1>4 DEF O!CharFrom
<1>7. m \in i .. n + 1 /\ (m = n + 1 \/ t[m] # "tail")
  BY <1>2, <1>5
<1>8. \A j \in i .. m - 1 : t[j] = "tail"
  <2>1. ASSUME NEW j \in i .. m - 1, t[j] # "tail"
        PROVE  FALSE
    <3>1. j \in i .. n + 1
      BY <1>1, <1>7, <2>1
    <3>2. j \in T /\ m <= j
      BY <1>2, <1>5, <2>1, <3>1
    <3> QED
      BY <1>1, <1>7, <2>1, <3>2
  <2> QED
    BY <2>1
<1> QED
  BY <1>1, <1>6, <1>7, <1>8

\* The first place where a character begins is the only one with none before.
LEMMA CharFromOne ==
  ASSUME NEW S, NEW t \in Seq(S), NEW n \in Nat, n = Len(t), NEW i \in 1 .. n + 1,
         NEW m \in i .. n + 1, m = n + 1 \/ t[m] # "tail",
         \A j \in i .. m - 1 : t[j] = "tail"
  PROVE  O!CharFrom(t, i) = m
<1>1. i \in 1 .. Len(t) + 1
  OBVIOUS
<1>2. PICK q : q = O!CharFrom(t, i)
  OBVIOUS
<1>3. /\ q \in i .. Len(t) + 1 /\ (q = Len(t) + 1 \/ t[q] # "tail")
      /\ \A j \in i .. q - 1 : t[j] = "tail"
  BY <1>1, <1>2, CharFromIs, Zenon
<1>4. ~(q < m)
  BY <1>3
<1>5. ~(m < q)
  BY <1>3
<1> QED
  BY <1>2, <1>3, <1>4, <1>5

\* Where the next character begins does not depend on what was cut off.
LEMMA CharFromFrom ==
  ASSUME NEW S, NEW t \in Seq(S), NEW k \in 1 .. Len(t) + 1,
         NEW i \in 1 .. Len(t) + 2 - k
  PROVE  O!CharFrom(t, i + k - 1) = O!CharFrom(O!From(t, k), i) + k - 1
<1>1. PICK n \in Nat : n = Len(t)
  OBVIOUS
<1>2. PICK s \in Seq(S) : s = O!From(t, k)
  BY FromFacts, Zenon
<1>3. Len(s) = Len(t) + 1 - k /\ \A m \in 1 .. Len(t) + 1 - k : s[m] = t[k + m - 1]
  BY <1>2, FromFacts, Zenon
<1>4. PICK l \in Nat : l = Len(s)
  OBVIOUS
<1>5. /\ l = n + 1 - k /\ k \in 1 .. n + 1 /\ i \in 1 .. l + 1
      /\ \A m \in 1 .. l : s[m] = t[k + m - 1]
  BY <1>1, <1>3, <1>4
<1>6. i \in 1 .. Len(s) + 1
  BY <1>4, <1>5
<1>7. PICK q : q = O!CharFrom(s, i)
  OBVIOUS
<1>8. /\ q \in i .. Len(s) + 1 /\ (q = Len(s) + 1 \/ s[q] # "tail")
      /\ \A j \in i .. q - 1 : s[j] = "tail"
  BY <1>6, <1>7, CharFromIs, Zenon
<1>9. PICK m \in Nat, h \in Nat : m = q + k - 1 /\ h = i + k - 1
  BY <1>4, <1>5, <1>8
<1>10. h \in 1 .. n + 1 /\ m \in h .. n + 1
  BY <1>4, <1>5, <1>8, <1>9
<1>11. m = n + 1 \/ t[m] # "tail"
  <2>1. CASE q = l + 1
    BY <1>5, <1>9, <2>1
  <2>2. CASE q # l + 1
    <3>1. q \in 1 .. l /\ s[q] # "tail" /\ k + q - 1 = m
      BY <1>4, <1>5, <1>8, <1>9, <2>2
    <3> QED
      BY <1>5, <3>1
  <2> QED
    BY <2>1, <2>2
<1>12. ASSUME NEW j \in h .. m - 1
       PROVE  t[j] = "tail"
  <2>0. j - k + 1 \in Int
    BY <1>5, <1>10, SMTT(30)
  <2>1. PICK z \in Int : z = j - k + 1
    BY <2>0, Zenon
  <2>2. z \in i .. q - 1 /\ z \in 1 .. l /\ k + z - 1 = j
    BY <1>4, <1>5, <1>8, <1>9, <2>1
  <2> QED
    BY <1>5, <1>8, <2>2
<1>13. O!CharFrom(t, h) = m
  BY <1>1, <1>10, <1>11, <1>12, CharFromOne
<1> QED
  BY <1>2, <1>7, <1>9, <1>13, Zenon

-----------------------------------------------------------------------------
(* What is shown of the end of a text is what is shown of the text.        *)

\* Numbers up to n have a greatest.
LEMMA GreatestIs ==
  ASSUME NEW n \in Nat, NEW T \in SUBSET (1 .. n), T # { }
  PROVE  \E m \in T : \A i \in T : i <= m
<1> DEFINE U == { n - x : x \in T }
<1>1. U \in SUBSET Nat /\ U # { }
  <2>1. \A x \in T : n - x \in Nat
    OBVIOUS
  <2>2. PICK x : x \in T
    OBVIOUS
  <2>3. n - x \in U
    BY <2>2
  <2>4. \A y \in U : y \in Nat
    BY <2>1
  <2> QED
    BY <2>3, <2>4
<1>2. PICK l : l \in U /\ \A y \in U : l <= y
  <2> HIDE DEF U
  <2>1. O!Min(U) \in U /\ \A y \in U : O!Min(U) <= y
    BY <1>1, LeastIs
  <2> QED
    BY <2>1, Zenon
<1>3. PICK m \in T : l = n - m
  BY <1>2
<1>4. ASSUME NEW i \in T
      PROVE  i <= m
  <2>1. l <= n - i /\ i \in Int /\ m \in Int
    BY <1>2
  <2> QED
    BY <1>3, <2>1
<1> QED
  BY <1>4

\* If no line fits, the last one is too long.
LEMMA LastLineLong ==
  ASSUME NEW S, NEW t \in Seq(S), t # << >>, O!Fits(t) = { },
         limit.bytes \in Nat, limit.lines \in Nat \ { 0 }
  PROVE  Len(O!Body(t)) + 1 - limit.bytes \in 1 .. Len(O!Body(t)) + 1
<1>1. PICK n \in Nat, x \in Nat : n = Len(t) /\ x = Len(O!Body(t))
  BY BodyFacts
<1>2. n > 0
  BY <1>1, EmptySeq
<1>3. /\ O!LineStarts(t) = { i \in 1 .. Len(t) : i = 1 \/ t[i - 1] = "nl" }
      /\ O!LineStarts(t) \subseteq 1 .. Len(t)
  BY StartsAre, Zenon
<1>4. 1 \in O!LineStarts(t) /\ O!LineStarts(t) \in SUBSET (1 .. n)
  BY <1>1, <1>2, <1>3
<1>5. PICK m \in O!LineStarts(t) : \A i \in O!LineStarts(t) : i <= m
  <2> DEFINE T == O!LineStarts(t)
  <2>1. T \in SUBSET (1 .. n) /\ T # { }
    BY <1>4
  <2> HIDE DEF T
  <2>2. \E m \in T : \A i \in T : i <= m
    BY <2>1, GreatestIs
  <2> QED
    BY <2>2 DEF T
<1>6. { r \in O!LineStarts(t) : r >= m } = { m }
  BY <1>4, <1>5
<1>7. O!Cardinality({ r \in O!LineStarts(t) : r >= m }) = 1
  <2>1. Cardinality({ m }) = 1
    BY FS_Singleton
  <2> QED
    BY <1>6, <2>1, CountIsCardinality, Zenon
<1>8. 1 <= limit.lines
  OBVIOUS
<1>9. O!Cardinality({ r \in O!LineStarts(t) : r >= m }) <= limit.lines
  BY <1>7, <1>8, Zenon
<1>10. ~(x + 1 - m <= limit.bytes)
  BY <1>1, <1>9, Zenon DEF O!Fits
<1>11. m \in 1 .. n
  BY <1>4
<1>12. x + 1 - limit.bytes \in 1 .. x + 1
  BY <1>10, <1>11
<1> QED
  BY <1>1, <1>12

\* A text that may be shown entirely fits from its beginning on.
LEMMA WholeFits ==
  ASSUME NEW S, NEW t \in Seq(S), t # << >>,
         limit.bytes \in Nat, limit.lines \in Nat,
         O!Cardinality(O!LineStarts(t)) <= limit.lines, Len(t) <= limit.bytes
  PROVE  1 \in O!Fits(t)
<1>1. PICK n \in Nat, x \in Nat : n = Len(t) /\ x = Len(O!Body(t))
  BY BodyFacts
<1>2. n > 0
  BY <1>1, EmptySeq
<1>3. /\ O!LineStarts(t) = { i \in 1 .. Len(t) : i = 1 \/ t[i - 1] = "nl" }
      /\ O!LineStarts(t) \subseteq 1 .. Len(t)
  BY StartsAre, Zenon
<1>4. 1 \in O!LineStarts(t) /\ \A r \in O!LineStarts(t) : r >= 1
  BY <1>1, <1>2, <1>3
<1>5. { r \in O!LineStarts(t) : r >= 1 } = O!LineStarts(t)
  BY <1>4, Zenon
<1>6. x <= n
  <2>1. x = IF t # << >> /\ t[Len(t)] = "nl" THEN n - 1 ELSE n
    BY <1>1, BodyFacts
  <2> QED
    BY <2>1
<1>7. x + 1 - 1 <= limit.bytes
  BY <1>1, <1>6
<1> QED
  BY <1>1, <1>4, <1>5, <1>7, Zenon DEF O!Fits

\* The end of a text from the end of a line on, if the lines before are too
\* long.
LEMMA LinesShown ==
  ASSUME NEW S, NEW t \in Seq(S), NEW d \in 1 .. Len(t), d < Len(t), t[d] = "nl",
         limit.bytes \in Nat \ { 0 }, limit.lines \in Nat \ { 0 },
         Len(t) > limit.bytes,
         \A i \in O!LineStarts(t) : i <= d => Len(O!Body(t)) + 1 - i > limit.bytes,
         NEW s \in Seq(S), s = O!From(t, d + 1)
  PROVE  \/ O!TruncateTail(s) = O!TruncateTail(t)
         \/ O!TruncateTail(s) = O!TruncateTail(t) \o << "nl" >>
<1>1. PICK n \in Nat, k \in Nat : n = Len(t) /\ k = d + 1 /\ k \in 1 .. n /\ k \in 1 .. n + 1
  OBVIOUS
<1>2. Len(s) = n - d /\ s # << >>
  <2>1. Len(s) = Len(t) + 1 - k
    BY <1>1, FromFacts
  <2>2. Len(s) = n - d
    BY <1>1, <2>1
  <2> QED
    BY <1>1, <2>2, EmptySeq
<1>3. PICK bt \in Seq(S), bs \in Seq(S), x \in Nat, y \in Nat :
        bt = O!Body(t) /\ bs = O!Body(s) /\ x = Len(bt) /\ y = Len(bs)
  BY BodyFacts
<1>4. bs = O!From(bt, k) /\ k \in 1 .. Len(bt) + 1
  BY <1>1, <1>3, BodyFrom
<1>5. y = x - d
  <2>1. Len(O!From(bt, k)) = Len(bt) + 1 - k
    BY <1>4, FromFacts
  <2>2. y = Len(O!From(bt, k))
    BY <1>3, <1>4, Zenon
  <2>3. y = x + 1 - k
    BY <1>3, <2>1, <2>2, Zenon
  <2> QED
    BY <1>1, <2>3
<1>6. \A i \in Int : i \in O!Fits(s) <=> i >= 1 /\ i + d \in O!Fits(t)
  <2>1. ASSUME NEW i \in Int
        PROVE  i \in O!Fits(O!From(t, d + 1)) <=> i >= 1 /\ i + d \in O!Fits(t)
    BY FitsFrom
  <2> QED
    BY <2>1, Zenon
<1>7. /\ O!Fits(t) \subseteq O!LineStarts(t) /\ O!Fits(s) \subseteq O!LineStarts(s)
      /\ O!LineStarts(t) \subseteq 1 .. n /\ O!LineStarts(s) \subseteq 1 .. (n - d)
  <2>1. O!LineStarts(t) \subseteq 1 .. n /\ O!LineStarts(s) \subseteq 1 .. (n - d)
    BY <1>1, <1>2, StartsAre
  <2> QED
    BY <2>1, Zenon DEF O!Fits
<1>8. ASSUME NEW i \in O!Fits(t)
      PROVE  i \in Nat /\ i > d /\ i - d \in O!Fits(s)
  <2>1. i \in 1 .. n /\ i \in O!LineStarts(t)
    BY <1>7
  <2>2. Len(O!Body(t)) + 1 - i <= limit.bytes
    BY DEF O!Fits
  <2>3. ~(i <= d)
    BY <1>3, <2>1, <2>2
  <2>4. PICK j \in Int : j = i - d /\ j >= 1 /\ j + d = i
    BY <2>1, <2>3
  <2>5. j \in O!Fits(s)
    BY <1>6, <2>4
  <2> QED
    BY <2>1, <2>3, <2>4, <2>5
<1>9. ~(Len(t) <= limit.bytes)
  OBVIOUS
<1>10. O!TruncateTail(t) =
         IF O!Fits(t) # { } THEN O!From(bt, O!Min(O!Fits(t)))
         ELSE O!From(bt, O!CharFrom(bt, x + 1 - limit.bytes))
  BY <1>3, <1>9, Zenon DEF O!TruncateTail
<1> DEFINE Entire == O!Cardinality(O!LineStarts(s)) <= limit.lines /\ Len(s) <= limit.bytes
<1>11. O!TruncateTail(s) =
         IF Entire THEN s
         ELSE IF O!Fits(s) # { } THEN O!From(bs, O!Min(O!Fits(s)))
         ELSE O!From(bs, O!CharFrom(bs, y + 1 - limit.bytes))
  BY <1>3, Zenon DEF O!TruncateTail
<1>12. Entire => 1 \in O!Fits(s)
  BY <1>2, WholeFits
<1> HIDE DEF Entire
<1>13. CASE O!Fits(s) # { }
  <2>1. PICK m : m = O!Min(O!Fits(s)) /\ m \in O!Fits(s) /\ \A i \in O!Fits(s) : m <= i
    <3>1. O!Fits(s) \in SUBSET Nat
      BY <1>7
    <3> DEFINE T == O!Fits(s)
    <3>2. T \in SUBSET Nat /\ T # { }
      BY <1>13, <3>1
    <3> HIDE DEF T
    <3>3. O!Min(T) \in T /\ \A i \in T : O!Min(T) <= i
      BY <3>2, LeastIs
    <3> QED
      BY <3>3, Zenon DEF T
  <2>2. m \in 1 .. n - d
    BY <1>7, <2>1
  <2>3. m + d \in O!Fits(t)
    BY <1>6, <2>1, <2>2
  <2>4. \A i \in O!Fits(t) : m + d <= i
    BY <1>8, <2>1, <2>2
  <2>5. O!Min(O!Fits(t)) = m + d
    <3> DEFINE T == O!Fits(t)
    <3>1. T \in SUBSET Nat /\ m + d \in T /\ \A i \in T : m + d <= i
      BY <1>8, <2>3, <2>4
    <3> HIDE DEF T
    <3>2. O!Min(T) = m + d
      BY <3>1, LeastIsOne
    <3> QED
      BY <3>2 DEF T
  <2>6. m <= y + 1
    <3>1. n - d - 1 <= y
      <4>1. Len(bs) = IF s # << >> /\ s[Len(s)] = "nl" THEN Len(s) - 1 ELSE Len(s)
        BY <1>3, BodyFacts
      <4> QED
        BY <1>1, <1>2, <1>3, <4>1
    <3> QED
      BY <1>1, <1>3, <2>2, <3>1
  <2>7. O!From(bs, m) = O!From(bt, m + d)
    <3>1. m \in 1 .. Len(bt) + 2 - k /\ k + m - 1 = m + d
      BY <1>1, <1>3, <1>5, <2>2, <2>6
    <3>2. O!From(O!From(bt, k), m) = O!From(bt, k + m - 1)
      BY <1>4, <3>1, FromFrom
    <3> QED
      BY <1>4, <3>1, <3>2
  <2>8. O!TruncateTail(t) = O!From(bs, m)
    <3>1. O!Fits(t) # { }
      BY <2>3
    <3> QED
      BY <1>10, <2>5, <2>7, <3>1, Zenon
  <2>9. CASE ~ Entire
    BY <1>11, <1>13, <2>1, <2>8, <2>9, Zenon
  <2>10. CASE Entire
    <3>1. m = 1
      BY <1>12, <2>1, <2>2, <2>10
    <3>2. O!TruncateTail(t) = bs
      BY <2>8, <3>1, FromFirst
    <3>3. O!TruncateTail(s) = s
      BY <1>11, <2>10, Zenon
    <3>4. s = bs \/ s = bs \o << "nl" >>
      BY <1>3, BodyOrEnd
    <3> QED
      BY <3>2, <3>3, <3>4, Zenon
  <2> QED
    BY <2>9, <2>10
<1>14. CASE O!Fits(s) = { }
  <2>1. O!Fits(t) = { }
    BY <1>8, <1>14
  <2>2. ~ Entire
    BY <1>12, <1>14
  <2>3. y + 1 - limit.bytes \in 1 .. y + 1
    BY <1>2, <1>3, <1>14, LastLineLong
  <2>4. PICK i \in Int : i = y + 1 - limit.bytes /\ i \in 1 .. y + 1
    BY <2>3
  <2>5. i \in 1 .. Len(bt) + 2 - k /\ x + 1 - limit.bytes = i + k - 1
    <3>0. x \in Int /\ y \in Int /\ k \in Int /\ d \in Int /\ limit.bytes \in Int
      OBVIOUS
    <3>a. k = d + 1 /\ y = x - d
      BY <1>1, <1>5, Zenon
    <3>1. x = y + k - 1 /\ x \in Int /\ y \in Int /\ k \in Int /\ limit.bytes \in Int
      BY <3>0, <3>a
    <3>2. PICK z \in Int : z = limit.bytes
      BY <3>1, Zenon
    <3>5. i = y + 1 - z /\ i \in 1 .. y + 1 /\ i \in Int
      BY <2>4, <3>2, Zenon
    <3>4. i \in 1 .. x + 2 - k /\ x + 1 - z = i + k - 1
      BY <3>1, <3>5
    <3> QED
      BY <1>3, <3>2, <3>4, Zenon
  <2>6. O!CharFrom(bt, i + k - 1) = O!CharFrom(bs, i) + k - 1
    <3>1. O!CharFrom(bt, i + k - 1) = O!CharFrom(O!From(bt, k), i) + k - 1
      BY <1>4, <2>5, CharFromFrom
    <3> QED
      BY <1>4, <3>1
  <2>7. PICK q : q = O!CharFrom(bs, i)
    OBVIOUS
  <2>8. i \in 1 .. Len(bs) + 1
    BY <1>3, <2>4
  <2>9. q \in i .. Len(bs) + 1
    BY <2>7, <2>8, CharFromIs, Zenon
  <2>10. q \in 1 .. Len(bt) + 2 - k /\ k + q - 1 = q + k - 1
    BY <1>1, <1>3, <1>5, <2>4, <2>9
  <2>11. O!From(bs, q) = O!From(bt, q + k - 1)
    <3>1. O!From(O!From(bt, k), q) = O!From(bt, k + q - 1)
      BY <1>4, <2>10, FromFrom
    <3> QED
      BY <1>4, <2>10, <3>1
  <2>12. O!TruncateTail(t) = O!From(bt, q + k - 1)
    BY <1>10, <2>1, <2>5, <2>6, <2>7, Zenon
  <2>13. O!TruncateTail(s) = O!From(bs, q)
    BY <1>11, <1>14, <2>2, <2>4, <2>7, Zenon
  <2> QED
    BY <2>11, <2>12, <2>13
<1> QED
  BY <1>13, <1>14

\* The end of a text from within its last line on, which is too long.
LEMMA LineShown ==
  ASSUME NEW S, NEW t \in Seq(S), NEW k \in 2 .. Len(t),
         \A j \in k - 1 .. Len(t) : t[j] # "nl", t[k] # "tail",
         limit.bytes \in Nat \ { 0 }, limit.lines \in Nat \ { 0 },
         Len(t) > limit.bytes, Len(t) + 1 - k >= 2 * limit.bytes - 1,
         NEW s \in Seq(S), s = O!From(t, k)
  PROVE  O!TruncateTail(s) = O!TruncateTail(t)
<1>1. PICK n \in Nat, z \in Nat :
        n = Len(t) /\ z = limit.bytes /\ z >= 1 /\ n + 1 - k >= 2 * z - 1 /\ k \in 2 .. n
  BY SMTT(30)
<1>2. k \in 1 .. Len(t) + 1
  BY <1>1
<1>3. Len(s) = Len(t) + 1 - k /\ \A m \in 1 .. Len(t) + 1 - k : s[m] = t[k + m - 1]
  BY <1>2, FromFacts, ZenonT(30)
<1>4. PICK l \in Nat : l = Len(s)
  OBVIOUS
<1>5. l = n + 1 - k /\ \A m \in 1 .. l : s[m] = t[k + m - 1]
  BY <1>1, <1>3, <1>4
<1>6. t[n] # "nl" /\ \A m \in 1 .. l : s[m] # "nl"
  <2>1. n \in k - 1 .. n /\ \A m \in 1 .. l : k + m - 1 \in k - 1 .. n
    BY <1>1, <1>5
  <2> QED
    BY <1>1, <1>5, <2>1
<1>7. s # << >> /\ l >= 1
  <2>1. l >= 1
    BY <1>1, <1>5
  <2> QED
    BY <1>4, <2>1, EmptySeq
<1>8. O!Body(t) = t /\ O!Body(s) = s
  <2>1. s[l] # "nl"
    BY <1>6, <1>7
  <2> QED
    BY <1>1, <1>4, <1>6, <2>1 DEF O!Body, O!Last
<1>9. /\ O!LineStarts(t) = { i \in 1 .. Len(t) : i = 1 \/ t[i - 1] = "nl" }
      /\ O!LineStarts(s) = { i \in 1 .. Len(s) : i = 1 \/ s[i - 1] = "nl" }
  BY StartsAre, Zenon
<1>10. O!LineStarts(s) = { 1 }
  <2>1. 1 \in 1 .. l /\ \A i \in 1 .. l : i # 1 => i - 1 \in 1 .. l
    BY <1>7
  <2>2. \A i \in 1 .. l : i # 1 => s[i - 1] # "nl"
    BY <1>6, <2>1
  <2>3. O!LineStarts(s) = { i \in 1 .. l : i = 1 \/ s[i - 1] = "nl" }
    BY <1>4, <1>9
  <2> QED
    BY <2>1, <2>2, <2>3, Zenon
<1>11. O!Fits(t) = { }
  <2>1. ASSUME NEW i \in O!LineStarts(t)
        PROVE  ~(Len(O!Body(t)) + 1 - i <= limit.bytes)
    <3>1. i \in 1 .. n /\ (i = 1 \/ t[i - 1] = "nl")
      BY <1>1, <1>9
    <3>2. i <= k - 1
      <4>1. CASE i = 1
        BY <1>1, <4>1
      <4>2. CASE t[i - 1] = "nl" /\ ~(i <= k - 1)
        <5>1. i - 1 \in k - 1 .. n
          BY <1>1, <3>1, <4>2
        <5> QED
          BY <1>1, <4>2, <5>1
      <4> QED
        BY <3>1, <4>1, <4>2
    <3>3. ~(n + 1 - i <= z)
      BY <1>1, <3>1, <3>2
    <3> QED
      BY <1>1, <1>8, <3>3
  <2> QED
    BY <2>1, Zenon DEF O!Fits
<1>12. O!TruncateTail(t) = O!From(t, O!CharFrom(t, Len(t) + 1 - limit.bytes))
  <2>1. ~(Len(t) <= limit.bytes)
    OBVIOUS
  <2> QED
    BY <1>8, <1>11, <2>1, Zenon DEF O!TruncateTail
<1>13. O!Cardinality(O!LineStarts(s)) <= limit.lines
  <2>1. Cardinality({ 1 }) = 1
    BY FS_Singleton
  <2>2. O!Cardinality(O!LineStarts(s)) = 1
    BY <1>10, <2>1, CountIsCardinality, Zenon
  <2>3. 1 <= limit.lines
    OBVIOUS
  <2> QED
    BY <2>2, <2>3, Zenon
<1>14. CASE l <= z
  <2>1. z = 1 /\ l = 1 /\ k = n
    BY <1>1, <1>5, <1>7, <1>14
  <2>2. O!TruncateTail(s) = s
    <3>1. Len(s) <= limit.bytes
      BY <1>1, <1>4, <1>14
    <3> QED
      BY <1>13, <3>1, Zenon DEF O!TruncateTail
  <2>3. O!CharFrom(t, n) = n
    <3>1. n \in 1 .. n + 1 /\ n \in n .. n + 1 /\ t[n] # "tail" /\ n - 1 \in Int
      BY <1>1, <2>1
    <3>2. \A j \in n .. n - 1 : t[j] = "tail"
      BY <1>1
    <3> QED
      BY <1>1, <3>1, <3>2, CharFromOne
  <2>4. Len(t) + 1 - limit.bytes = n
    BY <1>1, <2>1
  <2>5. O!TruncateTail(t) = O!From(t, k)
    BY <1>12, <2>1, <2>3, <2>4, Zenon
  <2> QED
    BY <2>2, <2>5
<1>15. CASE l > z
  <2>1. O!Fits(s) = { }
    <3>1. \A i \in O!LineStarts(s) : ~(Len(O!Body(s)) + 1 - i <= limit.bytes)
      <4>1. ~(l + 1 - 1 <= z)
        BY <1>15
      <4>2. ~(Len(O!Body(s)) + 1 - 1 <= limit.bytes)
        BY <1>1, <1>4, <1>8, <4>1
      <4> QED
        BY <1>10, <4>2
    <3> QED
      BY <3>1, Zenon DEF O!Fits
  <2>2. ~(Len(s) <= limit.bytes)
    BY <1>1, <1>4, <1>15
  <2>3. PICK i \in Int : i = l + 1 - z
    <3>1. l + 1 - z \in Int
      OBVIOUS
    <3> QED
      BY <3>1, Zenon
  <2>a. n \in Int /\ k \in Int /\ z \in Int /\ l \in Int /\ n = l + k - 1 /\ z >= 1 /\ k >= 1
    <3>1. k \in Int /\ k >= 1 /\ z >= 1
      BY <1>1
    <3>2. l = n + 1 - k
      BY <1>5
    <3> QED
      BY <3>1, <3>2
  <2>4. i \in 1 .. Len(t) + 2 - k /\ i \in 1 .. Len(s) + 1
    <3>1. i \in 1 .. n + 2 - k /\ i \in 1 .. l + 1
      BY <1>15, <2>3, <2>a
    <3> QED
      BY <1>1, <1>4, <3>1, Zenon
  <2>5. Len(t) + 1 - limit.bytes = i + k - 1 /\ Len(s) + 1 - limit.bytes = i
    <3>1. n + 1 - z = i + k - 1
      BY <2>3, <2>a
    <3> QED
      BY <1>1, <1>4, <2>3, <3>1, Zenon
  <2>6. PICK q : q = O!CharFrom(s, i)
    OBVIOUS
  <2>7. O!CharFrom(t, i + k - 1) = q + k - 1
    <3>1. O!CharFrom(t, i + k - 1) = O!CharFrom(O!From(t, k), i) + k - 1
      BY <1>2, <2>4, CharFromFrom
    <3> QED
      BY <2>6, <3>1, Zenon
  <2>8. q \in i .. Len(s) + 1
    BY <2>4, <2>6, CharFromIs, Zenon
  <2>9. q \in 1 .. Len(t) + 2 - k /\ k + q - 1 = q + k - 1
    <3>1. q \in i .. l + 1
      BY <1>4, <2>8
    <3>2. q \in 1 .. n + 2 - k /\ k + q - 1 = q + k - 1
      BY <1>1, <1>5, <1>15, <2>3, <3>1, SMTT(30)
    <3> QED
      BY <1>1, <3>2, Zenon
  <2>10. O!From(s, q) = O!From(t, q + k - 1)
    <3>1. O!From(O!From(t, k), q) = O!From(t, k + q - 1)
      BY <1>2, <2>9, FromFrom
    <3> QED
      BY <2>9, <3>1, Zenon
  <2>11. O!TruncateTail(s) = O!From(s, q)
    BY <1>8, <2>1, <2>2, <2>5, <2>6, Zenon DEF O!TruncateTail
  <2>12. O!TruncateTail(t) = O!From(t, q + k - 1)
    BY <1>12, <2>5, <2>7, Zenon
  <2> QED
    BY <2>10, <2>11, <2>12, Zenon
<1> QED
  BY <1>14, <1>15, <1>1, <1>4

-----------------------------------------------------------------------------
(* The inductive invariant says what was promised.                         *)

\* The limits are positive, and what is kept is twice what is shown.
LEMMA LimitsAre ==
  O!TypeOK => /\ limit.bytes \in Nat \ { 0 } /\ limit.lines \in Nat \ { 0 }
              /\ O!Rolling = 2 * limit.bytes
<1>1. ASSUME O!TypeOK
      PROVE  limit.bytes \in Nat \ { 0 } /\ limit.lines \in Nat \ { 0 }
  <2>1. limit.bytes \in ByteLimits /\ limit.lines \in LineLimits
    BY <1>1 DEF O!TypeOK
  <2> QED
    BY <2>1, ToolsAssumption
<1> QED
  BY <1>1 DEF O!Rolling

\* All that is kept is a text.
LEMMA TextTypes ==
  O!TypeOK => /\ output \in Seq(O!Byte) /\ text \in Seq(O!Byte) /\ incomplete \in Seq(O!Byte)
              /\ kept \in Seq(O!Byte) /\ chunks \in Seq(O!Byte) /\ stored \in Seq(O!Byte)
BY DEF O!TypeOK

\* What is kept is the end of the text that begins at CutOff + 1.
LEMMA KeptIs ==
  ASSUME O!TypeOK, O!TailIsEnd
  PROVE  \E c \in Nat, n \in Nat, l \in Nat :
           /\ c = O!CutOff /\ n = Len(text) /\ l = Len(kept) /\ n = c + l
           /\ c + 1 \in 1 .. Len(text) + 1 /\ kept = O!From(text, c + 1)
           /\ \A m \in 1 .. l : kept[m] = text[c + m]
<1>1. text \in Seq(O!Byte) /\ kept \in Seq(O!Byte)
  BY TextTypes
<1>2. PICK n \in Nat, l \in Nat : n = Len(text) /\ l = Len(kept)
  BY <1>1
<1>3. n - l >= 0 /\ n - l \in Int /\ O!CutOff = n - l
  BY <1>2 DEF O!TailIsEnd, O!CutOff
<1>4. PICK c \in Nat : c = n - l
  BY <1>3
<1>5. n = c + l /\ O!CutOff = c
  BY <1>3, <1>4
<1>6. kept = O!From(text, c + 1)
  BY <1>5 DEF O!TailIsEnd
<1>7. c + 1 \in 1 .. n + 1
  BY <1>5
<1>8. PICK k \in 1 .. Len(text) + 1 : k = c + 1
  BY <1>2, <1>7
<1>9. \A m \in 1 .. Len(text) + 1 - k : O!From(text, k)[m] = text[k + m - 1]
  BY <1>1, <1>8, FromFacts, SMTT(30)
<1>10. \A m \in 1 .. Len(text) + 1 - k : kept[m] = text[k + m - 1]
  BY <1>6, <1>8, <1>9, Zenon
<1>11. \A m \in 1 .. l : m \in 1 .. n + 1 - k /\ k + m - 1 = c + m
  BY <1>5, <1>8
<1>12. \A m \in 1 .. l : kept[m] = text[c + m]
  BY <1>2, <1>10, <1>11
<1> QED
  BY <1>2, <1>5, <1>6, <1>7, <1>12

\* What is shown is the end of the output, unless a long line has just ended.
LEMMA EndIsShown ==
  ASSUME O!TypeOK, O!TailIsEnd
  PROVE  O!LongLineEnded \/ O!ShowsEnd
<1>1. text \in Seq(O!Byte) /\ kept \in Seq(O!Byte)
  BY TextTypes
<1>2. /\ limit.bytes \in Nat \ { 0 } /\ limit.lines \in Nat \ { 0 }
      /\ O!Rolling = 2 * limit.bytes
  BY LimitsAre
<1>3. PICK c \in Nat, n \in Nat, l \in Nat :
        /\ c = O!CutOff /\ n = Len(text) /\ l = Len(kept) /\ n = c + l
        /\ c + 1 \in 1 .. Len(text) + 1 /\ kept = O!From(text, c + 1)
        /\ \A m \in 1 .. l : kept[m] = text[c + m]
  BY KeptIs
<1>4. PICK z \in Nat : z = limit.bytes /\ z >= 1
  BY <1>2
<1>5. /\ whole <=> c = 0 \/ text[c] = "nl"
      /\ c > 0 =>
           /\ n > z
           /\ whole => l >= 2 * z
           /\ IF kept = << >> THEN finished
              ELSE l >= 2 * z - 1 /\ kept[1] # "tail"
  <2>1. /\ whole <=> O!CutOff = 0 \/ text[O!CutOff] = "nl"
        /\ O!CutOff > 0 =>
             /\ Len(text) > limit.bytes
             /\ whole => Len(kept) >= O!Rolling
             /\ IF kept = << >> THEN finished
                ELSE Len(kept) >= O!Rolling - 1 /\ kept[1] # "tail"
    BY Zenon DEF O!TailIsEnd
  <2> QED
    BY <1>2, <1>3, <1>4, <2>1
<1>6. DOMAIN kept = 1 .. l
  BY <1>1, <1>3
<1>7. O!SnapshotText =
        IF whole \/ \A i \in 1 .. l : kept[i] # "nl" THEN kept
        ELSE O!From(kept, 1 + O!Min({ i \in 1 .. l : kept[i] = "nl" }))
  BY <1>6, Zenon DEF O!SnapshotText
<1>8. PICK x \in Nat : x = Len(O!Body(text)) /\ x >= n - 1
  <2>1. Len(O!Body(text)) = IF text # << >> /\ text[Len(text)] = "nl" THEN n - 1 ELSE n
    BY <1>1, <1>3, BodyFacts
  <2>2. PICK x \in Nat : x = Len(O!Body(text))
    BY <1>1, BodyFacts
  <2> QED
    BY <2>1, <2>2
<1>9. CASE c = 0
  <2>1. O!SnapshotText = kept
    BY <1>5, <1>7, <1>9, Zenon
  <2>2. kept = text
    <3>1. kept = O!From(text, 1)
      BY <1>3, <1>9
    <3> QED
      BY <1>1, <3>1, FromFirst
  <2> QED
    BY <2>1, <2>2, Zenon DEF O!ShowsEnd, O!Shown
<1>10. ASSUME NEW d \in c .. n - 1, d >= 1, text[d] = "nl", c > 0, n > z, l > z,
              \A i \in O!LineStarts(text) : i <= d => i <= c,
              O!SnapshotText = O!From(text, d + 1)
       PROVE  O!ShowsEnd
  <2>1. d \in 1 .. Len(text) /\ d < Len(text) /\ d + 1 \in 1 .. Len(text) + 1
    BY <1>3, <1>10
  <2>2. PICK s \in Seq(O!Byte) : s = O!From(text, d + 1)
    BY <1>1, <2>1, FromFacts, Zenon
  <2>3. ASSUME NEW i \in O!LineStarts(text), i <= d
        PROVE  Len(O!Body(text)) + 1 - i > limit.bytes
    <3>1. i \in 1 .. Len(text)
      BY <1>1, StartsAre
    <3>2. i <= c
      BY <1>10, <2>3
    <3>3. x + 1 - i > z
      BY <1>3, <1>8, <1>10, <3>1, <3>2
    <3> QED
      BY <1>4, <1>8, <3>3
  <2>4. Len(text) > limit.bytes
    BY <1>3, <1>4, <1>10
  <2>5. \/ O!TruncateTail(s) = O!TruncateTail(text)
        \/ O!TruncateTail(s) = O!TruncateTail(text) \o << "nl" >>
    BY <1>1, <1>2, <1>10, <2>1, <2>2, <2>3, <2>4, LinesShown
  <2> QED
    BY <1>10, <2>2, <2>5, Zenon DEF O!ShowsEnd, O!Shown
<1>11. CASE c > 0 /\ whole
  <2>1. text[c] = "nl" /\ n > z /\ l >= 2 * z
    BY <1>5, <1>11
  <2>2. c \in c .. n - 1 /\ c >= 1 /\ l > z
    BY <1>3, <1>4, <1>11, <2>1
  <2>3. O!SnapshotText = O!From(text, c + 1)
    BY <1>3, <1>7, <1>11, Zenon
  <2> QED
    BY <1>10, <1>11, <2>1, <2>2, <2>3
<1>12. CASE c > 0 /\ ~ whole /\ \A i \in 1 .. l : kept[i] # "nl"
  <2>1. O!SnapshotText = kept
    BY <1>7, <1>12, Zenon
  <2>2. CASE kept = << >>
    BY <1>12, <2>1, <2>2, Zenon DEF O!LongLineEnded
  <2>3. CASE kept # << >>
    <3>1. l >= 1
      BY <1>1, <1>3, <2>3, EmptySeq
    <3>2. text[c] # "nl" /\ n > z /\ l >= 2 * z - 1 /\ kept[1] # "tail"
      BY <1>5, <1>12, <2>3
    <3>3. PICK k \in 2 .. Len(text) : k = c + 1
      BY <1>3, <1>12, <3>1
    <3>4. text[k] # "tail"
      BY <1>3, <3>1, <3>2, <3>3
    <3>5. \A j \in k - 1 .. Len(text) : text[j] # "nl"
      <4>1. ASSUME NEW j \in c .. n
            PROVE  text[j] # "nl"
        <5>1. CASE j = c
          BY <3>2, <5>1
        <5>2. CASE j # c
          <6>1. PICK m \in 1 .. l : j = c + m
            <7>1. j - c \in 1 .. l /\ j = c + (j - c)
              BY <1>3, <5>2
            <7> QED
              BY <7>1
          <6> QED
            BY <1>3, <1>12, <6>1
        <5> QED
          BY <5>1, <5>2
      <4> QED
        BY <1>3, <3>3, <4>1
    <3>6. kept = O!From(text, k) /\ Len(text) > limit.bytes
          /\ Len(text) + 1 - k >= 2 * limit.bytes - 1
      BY <1>3, <1>4, <3>2, <3>3
    <3>7. O!TruncateTail(kept) = O!TruncateTail(text)
      BY <1>1, <1>2, <3>4, <3>5, <3>6, LineShown
    <3> QED
      BY <2>1, <3>7, Zenon DEF O!ShowsEnd, O!Shown
  <2> QED
    BY <2>2, <2>3
<1>13. CASE c > 0 /\ ~ whole /\ ~ \A i \in 1 .. l : kept[i] # "nl"
  <2>1. PICK T : T = { i \in 1 .. l : kept[i] = "nl" }
    OBVIOUS
  <2>2. T \in SUBSET Nat /\ T # { }
    BY <1>13, <2>1
  <2>3. PICK p : p = O!Min(T) /\ p \in T /\ \A i \in T : p <= i
    BY <2>2, LeastIs
  <2>4. p \in 1 .. l /\ kept[p] = "nl" /\ \A i \in 1 .. p - 1 : kept[i] # "nl"
    <3>1. p \in 1 .. l /\ kept[p] = "nl"
      BY <2>1, <2>3
    <3>2. ASSUME NEW i \in 1 .. p - 1, kept[i] = "nl"
          PROVE  FALSE
      <4>1. i \in 1 .. l
        BY <3>1
      <4>2. i \in T /\ p <= i
        BY <2>1, <2>3, <3>2, <4>1
      <4> QED
        BY <3>1, <4>2
    <3> QED
      BY <3>1, <3>2
  <2>5. PICK d \in Nat : d = c + p /\ text[d] = "nl"
    BY <1>3, <2>4
  <2>6. O!SnapshotText = O!From(kept, 1 + p)
    BY <1>7, <1>13, <2>1, <2>3, Zenon
  <2>7. O!SnapshotText = O!From(text, d + 1)
    <3>1. PICK k \in 1 .. Len(text) + 1, j \in Nat : k = c + 1 /\ j = 1 + p
      BY <1>3, <2>4
    <3>2. j \in 1 .. Len(text) + 2 - k /\ k + j - 1 = d + 1
      BY <1>3, <2>4, <2>5, <3>1
    <3>3. O!From(O!From(text, k), j) = O!From(text, k + j - 1)
      BY <1>1, <3>2, FromFrom
    <3> QED
      BY <1>3, <2>6, <3>1, <3>2, <3>3, Zenon
  <2>8. CASE d = n
    <3>1. d + 1 \in 1 .. Len(text) + 1 /\ Len(text) + 1 - (d + 1) = 0
      BY <1>3, <2>8
    <3>2. O!From(text, d + 1) \in Seq(O!Byte) /\ Len(O!From(text, d + 1)) = 0
      BY <1>1, <3>1, FromFacts
    <3>3. O!From(text, d + 1) = << >>
      BY <3>2, EmptySeq
    <3> QED
      BY <1>13, <2>7, <3>3, Zenon DEF O!LongLineEnded
  <2>9. CASE d # n
    <3>1. d \in c .. n - 1 /\ d >= 1 /\ l >= 2
      <4>1. n = c + l /\ d = c + p
        BY <1>3, <2>5, Zenon
      <4>2. p \in 1 .. l
        BY <2>4
      <4>3. p < l
        BY <2>9, <4>1, <4>2
      <4> QED
        BY <4>1, <4>2, <4>3
    <3>2. kept # << >>
      <4>1. Len(kept) # 0 /\ Len(<< >>) = 0
        BY <1>3, <3>1
      <4> QED
        BY <4>1, Zenon
    <3>3. n > z /\ l >= 2 * z - 1 /\ text[c] # "nl"
      BY <1>5, <1>13, <3>2
    <3>4. l > z
      BY <1>4, <3>1, <3>3
    <3>5. ASSUME NEW i \in O!LineStarts(text), i <= d
          PROVE  i <= c
      <4>1. O!LineStarts(text) = { q \in 1 .. Len(text) : q = 1 \/ text[q - 1] = "nl" }
        BY <1>1, StartsAre, Zenon
      <4>2. i \in 1 .. n /\ (i = 1 \/ text[i - 1] = "nl")
        BY <1>3, <4>1
      <4>3. ASSUME i > c
            PROVE  FALSE
        <5>1. i # 1 /\ text[i - 1] = "nl" /\ i - 1 # c
          BY <1>13, <3>3, <4>2, <4>3
        <5>2. PICK m \in Int : m = (i - 1) - c
          <6>1. (i - 1) - c \in Int
            BY <4>2
          <6> QED
            BY <6>1, Zenon
        <5>3. m \in 1 .. p - 1 /\ m \in 1 .. l /\ i - 1 = c + m
          BY <2>4, <2>5, <3>5, <4>2, <4>3, <5>1, <5>2
        <5>4. kept[m] # "nl" /\ kept[m] = text[c + m]
          BY <1>3, <2>4, <5>3
        <5> QED
          BY <5>1, <5>3, <5>4
      <4> QED
        BY <4>2, <4>3
    <3>6. O!ShowsEnd
      BY <1>10, <1>13, <2>5, <2>7, <3>1, <3>3, <3>4, <3>5
    <3> QED
      BY <3>6
  <2> QED
    BY <2>8, <2>9
<1> QED
  BY <1>3, <1>9, <1>11, <1>12, <1>13

\* A line begins where one has ended and something follows.
LEMMA LinesOf ==
  ASSUME NEW S, NEW t \in Seq(S)
  PROVE  /\ IsFiniteSet(O!LineEnds(t)) /\ Cardinality(O!LineEnds(t)) \in Nat
         /\ Cardinality(O!LineStarts(t)) =
              Cardinality(O!LineEnds(t)) + IF t # << >> /\ t[Len(t)] # "nl" THEN 1 ELSE 0
<1>1. PICK n \in Nat : n = Len(t)
  OBVIOUS
<1>2. O!LineEnds(t) = { i \in 1 .. n : t[i] = "nl" }
  BY <1>1 DEF O!LineEnds
<1>3. IsFiniteSet(O!LineEnds(t)) /\ Cardinality(O!LineEnds(t)) \in Nat
  <2>1. IsFiniteSet(1 .. n) /\ O!LineEnds(t) \subseteq 1 .. n
    BY <1>2, FS_Interval
  <2>2. IsFiniteSet(O!LineEnds(t))
    BY <2>1, FS_Subset, Zenon
  <2> QED
    BY <2>2, FS_CardinalityType, Zenon
<1>4. O!LineStarts(t) = { i \in 1 .. n : i = 1 \/ t[i - 1] = "nl" }
  BY <1>1, StartsAre
<1>5. CASE t = << >>
  <2>1. n = 0
    BY <1>1, <1>5
  <2>2. O!LineStarts(t) = { } /\ O!LineEnds(t) = { }
    BY <1>2, <1>4, <2>1
  <2>3. Cardinality({ }) = 0
    BY FS_EmptySet
  <2>4. Cardinality(O!LineStarts(t)) = 0 /\ Cardinality(O!LineEnds(t)) = 0
    BY <2>2, <2>3, Zenon
  <2>5. ~(t # << >> /\ t[Len(t)] # "nl") /\ 0 = 0 + 0
    BY <1>5
  <2>6. Cardinality(O!LineStarts(t)) = Cardinality(O!LineEnds(t)) + 0
    BY <2>4, <2>5, Zenon
  <2> QED
    BY <1>3, <2>5, <2>6, Zenon
<1>6. CASE t # << >>
  <2>1. n >= 1
    BY <1>1, <1>6, EmptySeq
  <2>2. PICK A \in SUBSET (1 .. n) : A = { i \in 1 .. n : i # n /\ t[i] = "nl" }
    OBVIOUS
  <2>3. PICK B : B = { i + 1 : i \in A }
    OBVIOUS
  <2>4. O!LineStarts(t) = B \cup { 1 } /\ 1 \notin B
    <3>1. ASSUME NEW i \in A
          PROVE  i + 1 \in O!LineStarts(t) /\ i + 1 # 1
      <4>1. i \in 1 .. n /\ i # n /\ t[i] = "nl"
        BY <2>2
      <4>2. i + 1 \in 1 .. n /\ (i + 1) - 1 = i /\ i + 1 # 1
        BY <4>1
      <4> QED
        BY <1>4, <4>1, <4>2
    <3>2. 1 \in O!LineStarts(t)
      BY <1>4, <2>1
    <3>3. ASSUME NEW j \in O!LineStarts(t), j # 1
          PROVE  j \in B
      <4>1. j \in 1 .. n /\ t[j - 1] = "nl"
        BY <1>4, <3>3
      <4>2. j - 1 \in 1 .. n /\ j - 1 # n /\ (j - 1) + 1 = j
        BY <3>3, <4>1
      <4>3. j - 1 \in A
        BY <2>2, <4>1, <4>2
      <4> QED
        BY <2>3, <4>2, <4>3
    <3> QED
      BY <2>3, <3>1, <3>2, <3>3
  <2>5. IsFiniteSet(A) /\ IsFiniteSet(B) /\ Cardinality(B) = Cardinality(A)
    <3>1. 1 \in Int
      OBVIOUS
    <3>2. /\ IsFiniteSet(A) /\ IsFiniteSet({ x + 1 : x \in A })
          /\ Cardinality({ x + 1 : x \in A }) = Cardinality(A)
      BY <3>1, MovedCount
    <3> QED
      BY <2>3, <3>2
  <2>6. Cardinality(O!LineStarts(t)) = Cardinality(A) + 1
    <3>1. Cardinality(B \cup { 1 }) = Cardinality(B) + 1
      BY <2>4, <2>5, FS_AddElement
    <3> QED
      BY <2>4, <2>5, <3>1, Zenon
  <2>7. Cardinality(A) \in Nat
    BY <2>5, FS_CardinalityType, Zenon
  <2>8. CASE t[n] = "nl"
    <3>1. O!LineEnds(t) = A \cup { n } /\ n \notin A
      BY <1>2, <2>1, <2>2, <2>8
    <3>2. Cardinality(A \cup { n }) = Cardinality(A) + 1
      BY <2>5, <3>1, FS_AddElement
    <3>3. Cardinality(O!LineEnds(t)) = Cardinality(A) + 1
      BY <3>1, <3>2, Zenon
    <3>4. Cardinality(O!LineStarts(t)) = Cardinality(O!LineEnds(t)) + 0
      BY <1>3, <2>6, <2>7, <3>3
    <3> QED
      BY <1>1, <1>3, <2>8, <3>4, Zenon
  <2>9. CASE t[n] # "nl"
    <3>1. O!LineEnds(t) = A
      <4>1. \A i \in 1 .. n : t[i] = "nl" => i # n
        BY <2>9
      <4> QED
        BY <1>2, <2>2, <4>1, Zenon
    <3>2. Cardinality(O!LineStarts(t)) = Cardinality(O!LineEnds(t)) + 1
      BY <2>6, <3>1, Zenon
    <3> QED
      BY <1>1, <1>3, <1>6, <2>9, <3>2, Zenon
  <2> QED
    BY <2>8, <2>9
<1> QED
  BY <1>5, <1>6

\* The lines that are counted are those of the text.
LEMMA LinesAgree ==
  ASSUME O!TypeOK, O!LinesAreCounted
  PROVE  O!TotalLines = O!Cardinality(O!LineStarts(text))
<1>1. text \in Seq(O!Byte)
  BY TextTypes
<1>2. /\ completed = Cardinality(O!LineEnds(text))
      /\ open <=> text # << >> /\ text[Len(text)] # "nl"
  BY CountIsCardinality, Zenon DEF O!LinesAreCounted, O!Last
<1>3. Cardinality(O!LineStarts(text)) =
        Cardinality(O!LineEnds(text)) + IF text # << >> /\ text[Len(text)] # "nl" THEN 1 ELSE 0
  BY <1>1, LinesOf
<1>4. Cardinality(O!LineStarts(text)) = O!TotalLines
  BY <1>2, <1>3, Zenon DEF O!TotalLines
<1> QED
  BY <1>4, CountIsCardinality, Zenon

\* What is not cut off is shown and given as it is.
LEMMA AllIsKept ==
  ASSUME O!TypeOK, O!TailIsEnd, Len(text) <= Len(kept) \/ Len(text) <= limit.bytes
  PROVE  kept = text /\ O!SnapshotText = text
<1>1. text \in Seq(O!Byte) /\ kept \in Seq(O!Byte)
  BY TextTypes
<1>2. PICK c \in Nat, n \in Nat, l \in Nat :
        /\ c = O!CutOff /\ n = Len(text) /\ l = Len(kept) /\ n = c + l
        /\ c + 1 \in 1 .. Len(text) + 1 /\ kept = O!From(text, c + 1)
        /\ \A m \in 1 .. l : kept[m] = text[c + m]
  BY KeptIs
<1>3. limit.bytes \in Nat
  BY LimitsAre
<1>4. c = 0
  <2>1. O!CutOff > 0 => Len(text) > limit.bytes
    BY Zenon DEF O!TailIsEnd
  <2> QED
    BY <1>2, <1>3, <2>1
<1>5. kept = text
  <2>1. kept = O!From(text, 1)
    BY <1>2, <1>4
  <2> QED
    BY <1>1, <2>1, FromFirst
<1>6. whole
  BY <1>2, <1>4, Zenon DEF O!TailIsEnd
<1> QED
  BY <1>5, <1>6, Zenon DEF O!SnapshotText

\* What the inductive invariant says implies what the tools promise.
LEMMA OutputInvTells ==
  ASSUME O!OutputInv
  PROVE  O!OutputIsTold
<1> USE DEF O!OutputInv
<1>1. text \in Seq(O!Byte) /\ kept \in Seq(O!Byte) /\ output \in Seq(O!Byte)
  BY TextTypes
<1>2. limit.bytes \in Nat \ { 0 } /\ limit.lines \in Nat \ { 0 }
  BY LimitsAre
<1>3. O!TotalLines = O!Cardinality(O!LineStarts(text))
  BY LinesAgree
<1>4. O!Truncated \/ O!Shown = text
  <2>1. ASSUME ~ O!Truncated
        PROVE  O!Shown = text
    <3>1. O!TotalLines \in Nat /\ Len(text) \in Nat
      BY <1>1 DEF O!TotalLines, O!TypeOK
    <3>2. O!TotalLines <= limit.lines /\ Len(text) <= limit.bytes
      BY <1>2, <2>1, <3>1 DEF O!Truncated
    <3>3. O!SnapshotText = text
      BY <3>2, AllIsKept
    <3> QED
      BY <1>3, <3>2, <3>3, Zenon DEF O!Shown, O!TruncateTail
  <2> QED
    BY <2>1
<1>5. finished /\ ~ O!FullOutput.truncated => O!FullOutput.content = text
  <2>1. ASSUME finished, ~ O!FullOutput.truncated
        PROVE  O!FullOutput.content = text
    <3>1. finished = TRUE
      BY <2>1 DEF O!TypeOK
    <3>2. << text, incomplete >> = O!Decoded(output, TRUE)
      BY <3>1, Zenon DEF O!TextIsRead
    <3>3. O!Decoded(output, TRUE)[1] = text
      <4>1. << text, incomplete >>[1] = text
        OBVIOUS
      <4> QED
        BY <3>2, <4>1, Zenon
    <3>4. CASE saved \in { "open", "closed" }
      <4>1. stored = output
        BY <3>4 DEF O!FileHolds
      <4>2. O!FullOutput = [ content |-> O!Decoded(stored, TRUE)[1],
                             truncated |-> Len(stored) > MaxFull ]
        BY <3>4, Zenon DEF O!FullOutput
      <4>3. O!FullOutput.content = O!Decoded(stored, TRUE)[1]
        BY <4>2
      <4> QED
        BY <3>3, <4>1, <4>3, Zenon
    <3>5. CASE saved \notin { "open", "closed" } /\ chunks # << >>
      <4>1. saved = "none" /\ chunks = output
        BY <3>5 DEF O!FileHolds, O!TypeOK
      <4>2. O!FullOutput = [ content |-> O!Decoded(chunks, TRUE)[1],
                             truncated |-> Len(O!Decoded(chunks, TRUE)[1]) > MaxFull ]
        BY <3>5, Zenon DEF O!FullOutput
      <4>3. O!FullOutput.content = O!Decoded(chunks, TRUE)[1]
        BY <4>2
      <4> QED
        BY <3>3, <4>1, <4>3, Zenon
    <3>6. CASE saved \notin { "open", "closed" } /\ chunks = << >>
      <4>1. O!FullOutput = [ content |-> O!SnapshotText,
                             truncated |-> Len(text) > Len(kept) \/ Len(O!SnapshotText) > MaxFull ]
        BY <3>6, Zenon DEF O!FullOutput
      <4>2. /\ O!FullOutput.content = O!SnapshotText
            /\ O!FullOutput.truncated = (Len(text) > Len(kept) \/ Len(O!SnapshotText) > MaxFull)
        BY <4>1
      <4>3. ~(Len(text) > Len(kept))
        BY <2>1, <4>2, Zenon
      <4>4. Len(text) <= Len(kept)
        BY <1>1, <4>3
      <4> QED
        BY <4>2, <4>4, AllIsKept
    <3> QED
      BY <3>4, <3>5, <3>6
  <2> QED
    BY <2>1
<1>6. O!LongLineEnded \/ O!ShowsEnd
  BY EndIsShown
<1>7. /\ saved \in { "open", "closed" } => stored = output
      /\ O!Truncated => saved # "none"
  BY DEF O!FileHolds
<1> QED
  BY <1>3, <1>4, <1>5, <1>6, <1>7, Zenon DEF O!OutputIsTold

-----------------------------------------------------------------------------
(* Every step keeps the invariant.                                         *)

\* What is kept, in the end: text u of which t is the end after c, as what the
\* invariant says of the two.
LEMMA TailFrom ==
  ASSUME O!TypeOK', limit' = limit, NEW c \in Nat, NEW n \in Nat, NEW l \in Nat,
         n = Len(text'), l = Len(kept'), n = c + l,
         kept' = O!From(text', c + 1),
         whole' <=> c = 0 \/ text'[c] = "nl",
         c > 0 => /\ n > limit.bytes
                  /\ whole' => l >= 2 * limit.bytes
                  /\ IF kept' = << >> THEN finished'
                     ELSE l >= 2 * limit.bytes - 1 /\ kept'[1] # "tail"
  PROVE  O!TailIsEnd'
<1>1. O!CutOff' = c
  <2>1. Len(text') - Len(kept') = c
    OBVIOUS
  <2> QED
    BY <2>1 DEF O!CutOff
<1>2. c >= 0
  OBVIOUS
<1>3. O!Rolling' = 2 * limit.bytes
  BY DEF O!Rolling
<1>4. c > 0 => /\ Len(text') > limit'.bytes
               /\ whole' => Len(kept') >= 2 * limit.bytes
               /\ IF kept' = << >> THEN finished'
                  ELSE Len(kept') >= 2 * limit.bytes - 1 /\ kept'[1] # "tail"
  OBVIOUS
<1> QED
  BY <1>1, <1>2, <1>3, <1>4, Zenon DEF O!TailIsEnd

\* No two halves of a character follow each other, but for the last two of a
\* character that was never whole.
HalvesApart(u, over) ==
  \A i \in 1 .. Len(u) - 1 :
    u[i] = "tail" /\ u[i + 1] = "tail" => i + 1 = Len(u) /\ over

\* append_decoded_text and trim_tail keep the end of the text, and enough of it.
LEMMA KeepsTail ==
  ASSUME O!TypeOK, O!TypeOK', O!TailIsEnd, limit' = limit, ~ finished,
         NEW new \in Seq(O!Byte), new # << >>, text' = text \o new,
         O!TrimTail(kept \o new), HalvesApart(text', finished')
  PROVE  O!TailIsEnd'
<1>1. text \in Seq(O!Byte) /\ kept \in Seq(O!Byte)
  BY TextTypes
<1>2. PICK z \in Nat : z = limit.bytes /\ z >= 1 /\ O!Rolling = 2 * z
  BY LimitsAre
<1>z. z >= 1
  BY <1>2
<1>3. PICK c \in Nat, n \in Nat, l \in Nat :
        /\ c = O!CutOff /\ n = Len(text) /\ l = Len(kept) /\ n = c + l
        /\ c + 1 \in 1 .. Len(text) + 1 /\ kept = O!From(text, c + 1)
        /\ \A m \in 1 .. l : kept[m] = text[c + m]
  BY KeptIs
<1>4. PICK k \in Nat : k = Len(new) /\ k >= 1
  <2>1. PICK k \in Nat : k = Len(new)
    OBVIOUS
  <2>2. k # 0
    BY <2>1, EmptySeq
  <2> QED
    BY <2>1, <2>2
<1>5. PICK t \in Seq(O!Byte), u \in Seq(O!Byte) : t = kept \o new /\ u = text \o new
  BY <1>1, RowFacts, Zenon
<1>6. Len(t) = l + k /\ Len(u) = n + k /\ Len(u) = c + Len(t)
  <2>1. Len(t) = Len(kept) + Len(new) /\ Len(u) = Len(text) + Len(new)
    BY <1>1, <1>5, RowFacts
  <2>2. Len(t) = l + k /\ Len(u) = n + k
    BY <1>3, <1>4, <2>1, Zenon
  <2> QED
    BY <1>3, <2>2
<1>7. t = O!From(u, c + 1) /\ c + 1 \in 1 .. Len(u) + 1
  <2>1. O!From(text, c + 1) \o new = O!From(text \o new, c + 1)
    BY <1>1, <1>3, FromConcat
  <2> QED
    BY <1>3, <1>5, <1>6, <2>1, SMTT(30)
<1>8. /\ \A m \in 1 .. l : t[m] = kept[m]
      /\ \A m \in 1 .. n : u[m] = text[m]
  <2>1. /\ \A m \in 1 .. Len(kept) : (kept \o new)[m] = kept[m]
        /\ \A m \in 1 .. Len(text) : (text \o new)[m] = text[m]
    BY <1>1, RowFacts
  <2> QED
    BY <1>3, <1>5, <2>1, Zenon
<1>9. /\ whole <=> c = 0 \/ text[c] = "nl"
      /\ c > 0 =>
           /\ n > z
           /\ whole => l >= 2 * z
           /\ kept # << >> /\ l >= 2 * z - 1 /\ kept[1] # "tail"
  <2>1. /\ whole <=> O!CutOff = 0 \/ text[O!CutOff] = "nl"
        /\ O!CutOff > 0 =>
             /\ Len(text) > limit.bytes
             /\ whole => Len(kept) >= O!Rolling
             /\ IF kept = << >> THEN finished
                ELSE Len(kept) >= O!Rolling - 1 /\ kept[1] # "tail"
    BY Zenon DEF O!TailIsEnd
  <2> QED
    BY <1>2, <1>3, <2>1
<1>10. PICK L1 \in Nat, N1 \in Nat : L1 = Len(t) /\ N1 = Len(u) /\ N1 = c + L1 /\ L1 = l + k
  BY <1>6
<1>s. N1 = c + L1 /\ L1 = l + k /\ n = c + l /\ k >= 1
  BY <1>3, <1>4, <1>10, Zenon
<1>11. \A m \in 1 .. L1 : t[m] = u[c + m]
  <2>1. PICK i \in 1 .. Len(u) + 1 : i = c + 1
    BY <1>7
  <2>2. \A m \in 1 .. Len(u) + 1 - i : O!From(u, i)[m] = u[i + m - 1]
    BY <2>1, FromFacts, ZenonT(30)
  <2>3. \A m \in 1 .. Len(u) + 1 - i : t[m] = u[i + m - 1]
    BY <1>7, <2>1, <2>2, Zenon
  <2>4. \A m \in 1 .. L1 : m \in 1 .. N1 + 1 - i /\ i + m - 1 = c + m
    BY <1>10, <2>1
  <2> QED
    BY <1>10, <2>3, <2>4
<1>12. text' = u
  BY <1>5
<1>13. CASE L1 <= 4 * z
  <2>1. kept' = t /\ whole' = whole
    <3>1. Len(t) <= 2 * (2 * z)
      BY <1>10, <1>13
    <3> QED
      BY <1>2, <1>5, <3>1 DEF O!TrimTail
  <2>2. c = 0 \/ u[c] = text[c]
    BY <1>3, <1>8
  <2>3. kept' # << >>
    <3>1. Len(t) # 0 /\ Len(<< >>) = 0
      BY <1>4, <1>10
    <3> QED
      BY <2>1, <3>1, Zenon
  <2>4. c > 0 => /\ N1 > z /\ (whole => L1 >= 2 * z) /\ L1 >= 2 * z - 1 /\ t[1] # "tail"
    <3>1. ASSUME c > 0
          PROVE  /\ N1 > z /\ (whole => L1 >= 2 * z) /\ L1 >= 2 * z - 1 /\ t[1] # "tail"
      <4>1. 1 \in 1 .. l
        BY <1>2, <1>9, <3>1, <1>1, <1>3, EmptySeq
      <4>2. t[1] = kept[1]
        BY <1>8, <4>1
      <4> QED
        <5>1. n > z /\ (whole => l >= 2 * z) /\ l >= 2 * z - 1 /\ kept[1] # "tail"
          BY <1>9, <3>1
        <5>2. N1 > z /\ (l >= 2 * z => L1 >= 2 * z) /\ L1 >= 2 * z - 1
          BY <1>s, <5>1
        <5> QED
          BY <4>2, <5>1, <5>2, Zenon
    <3> QED
      BY <3>1
  <2>5. /\ N1 = Len(text') /\ L1 = Len(kept') /\ kept' = O!From(text', c + 1)
        /\ whole' <=> c = 0 \/ text'[c] = "nl"
        /\ c > 0 => /\ N1 > limit.bytes
                    /\ whole' => L1 >= 2 * limit.bytes
                    /\ IF kept' = << >> THEN finished'
                       ELSE L1 >= 2 * limit.bytes - 1 /\ kept'[1] # "tail"
    BY <1>2, <1>7, <1>9, <1>10, <1>12, <2>1, <2>2, <2>3, <2>4, Zenon
  <2> QED
    BY <1>10, <2>5, TailFrom
<1>14. CASE L1 > 4 * z
  <2>1. PICK p \in Nat : p = L1 + 1 - 2 * z /\ p >= 2 /\ p + 1 <= L1
    <3>1. L1 + 1 - 2 * z \in Nat /\ L1 + 1 - 2 * z >= 2 /\ L1 + 1 - 2 * z + 1 <= L1
      BY <1>z, <1>14
    <3>2. PICK p \in Nat : p = L1 + 1 - 2 * z
      BY <3>1, Zenon
    <3> QED
      BY <3>1, <3>2, Zenon
  <2>2. PICK q : q = O!CharFrom(t, p)
    OBVIOUS
  <2>3. /\ q \in p .. L1 + 1 /\ (q = L1 + 1 \/ t[q] # "tail")
        /\ \A j \in p .. q - 1 : t[j] = "tail"
    <3>1. p \in 1 .. Len(t) + 1
      BY <1>10, <2>1
    <3>2. /\ q \in p .. Len(t) + 1 /\ (q = Len(t) + 1 \/ t[q] # "tail")
          /\ \A j \in p .. q - 1 : t[j] = "tail"
      BY <2>2, <3>1, CharFromIs, Zenon
    <3> QED
      BY <1>10, <3>2, Zenon
  <2>4. kept' = O!From(t, q) /\ whole' = (t[q - 1] = "nl")
    <3>1. ~(Len(t) <= 2 * (2 * z))
      BY <1>10, <1>14
    <3>2. /\ kept' = O!From(t, O!CharFrom(t, Len(t) + 1 - O!Rolling))
          /\ whole' = (t[O!CharFrom(t, Len(t) + 1 - O!Rolling) - 1] = "nl")
      BY <1>2, <1>5, <3>1 DEF O!TrimTail
    <3> QED
      BY <1>2, <1>10, <2>1, <2>2, <3>2, Zenon
  <2>5. \/ q = p
        \/ q = p + 1 /\ t[q - 1] = "tail"
        \/ q = L1 + 1 /\ t[q - 1] = "tail" /\ finished'
    <3>1. CASE q \notin { p, p + 1 }
      <4>1. q > p + 1 /\ t[p] = "tail" /\ t[p + 1] = "tail"
        BY <2>1, <2>3, <3>1
      <4>2. t[p] = u[c + p] /\ t[p + 1] = u[c + p + 1]
        <5>1. p \in 1 .. L1 /\ p + 1 \in 1 .. L1 /\ c + (p + 1) = c + p + 1
          BY <2>1
        <5> QED
          BY <1>11, <5>1
      <4>3. PICK i \in Nat : i = c + p
        BY <2>1
      <4>4. i \in 1 .. Len(u) - 1 /\ u[i] = "tail" /\ u[i + 1] = "tail"
        BY <1>10, <2>1, <4>1, <4>2, <4>3
      <4>5. i + 1 = Len(u) /\ finished'
        BY <1>12, <4>4 DEF HalvesApart
      <4>6. p + 1 = L1
        BY <1>10, <4>3, <4>5
      <4>7. q = L1 + 1 /\ t[q - 1] = "tail"
        <5>1. q = L1 + 1 /\ q - 1 \in p .. q - 1
          BY <2>3, <4>1, <4>6
        <5> QED
          BY <2>3, <5>1
      <4> QED
        BY <4>5, <4>7
    <3>2. CASE q = p + 1
      <4>1. p \in p .. q - 1 /\ q - 1 = p
        BY <2>1, <3>2
      <4> QED
        BY <2>3, <3>2, <4>1
    <3> QED
      BY <3>1, <3>2
  <2>6. PICK d \in Nat, y \in Nat : d = c + q - 1 /\ y = L1 + 1 - q /\ N1 = d + y /\ d > 0
    <3>1. q \in Nat /\ q >= 2 /\ c + q - 1 \in Nat /\ L1 + 1 - q \in Nat
      BY <2>1, <2>3
    <3>2. PICK d \in Nat, y \in Nat : d = c + q - 1 /\ y = L1 + 1 - q
      BY <3>1, Zenon
    <3> QED
      BY <1>10, <3>1, <3>2
  <2>7. q \in 1 .. Len(t) + 1
    BY <1>10, <2>1, <2>3
  <2>8. Len(kept') = y /\ \A m \in 1 .. y : kept'[m] = t[q + m - 1]
    <3>1. /\ Len(O!From(t, q)) = Len(t) + 1 - q
          /\ \A m \in 1 .. Len(t) + 1 - q : O!From(t, q)[m] = t[q + m - 1]
      BY <2>7, FromFacts
    <3> QED
      BY <1>10, <2>4, <2>6, <3>1, Zenon
  <2>9. kept' = O!From(u, d + 1)
    <3>1. PICK i \in 1 .. Len(u) + 1 : i = c + 1
      BY <1>7
    <3>2. q \in 1 .. Len(u) + 2 - i /\ i + q - 1 = d + 1
      BY <1>10, <2>3, <2>1, <2>6, <3>1
    <3>3. O!From(O!From(u, i), q) = O!From(u, i + q - 1)
      BY <3>2, FromFrom
    <3> QED
      BY <1>7, <2>4, <3>1, <3>2, <3>3, Zenon
  <2>10. t[q - 1] = u[d]
    <3>1. q - 1 \in 1 .. L1 /\ c + (q - 1) = d
      BY <2>1, <2>3, <2>6
    <3> QED
      BY <1>11, <3>1
  <2>11. N1 > z
    BY <1>2, <1>10, <1>14
  <2>12. whole' => y >= 2 * z
    <3>1. ASSUME whole'
          PROVE  q = p
      BY <2>4, <2>5, <3>1
    <3> QED
      BY <2>1, <2>6, <3>1
  <2>x. d # 0
    BY <2>6
  <2>13. CASE kept' = << >>
    <3>1. y = 0
      BY <2>8, <2>13
    <3>2. q = L1 + 1
      BY <2>3, <2>6, <3>1, <2>1
    <3>3. finished'
      <4>1. q # p /\ q # p + 1
        BY <2>1, <3>2, <1>z
      <4> QED
        BY <2>5, <4>1, Zenon
    <3>4. /\ N1 = Len(text') /\ y = Len(kept') /\ kept' = O!From(text', d + 1)
          /\ whole' <=> d = 0 \/ text'[d] = "nl"
          /\ d > 0 => /\ N1 > limit.bytes
                      /\ whole' => y >= 2 * limit.bytes
                      /\ IF kept' = << >> THEN finished'
                         ELSE y >= 2 * limit.bytes - 1 /\ kept'[1] # "tail"
      BY <1>2, <1>10, <1>12, <2>4, <2>8, <2>9, <2>10, <2>11, <2>12, <2>x, <2>13, <3>3, Zenon
    <3> QED
      BY <2>6, <3>4, TailFrom
  <2>14. CASE kept' # << >>
    <3>1. y >= 1
      BY <2>8, <2>14, EmptySeq
    <3>2. q # L1 + 1
      BY <2>6, <3>1
    <3>3. kept'[1] # "tail" /\ y >= 2 * z - 1
      <4>1. q + 1 - 1 = q /\ 1 \in 1 .. y
        BY <2>3, <3>1
      <4>2. kept'[1] = t[q]
        BY <2>8, <4>1
      <4>3. y >= 2 * z - 1
        <5>1. (q = p \/ q = p + 1) /\ p = L1 + 1 - 2 * z /\ y = L1 + 1 - q
          BY <2>1, <2>5, <2>6, <3>2, Zenon
        <5> QED
          BY <5>1
      <4> QED
        BY <2>3, <3>2, <4>2, <4>3
    <3>4. /\ N1 = Len(text') /\ y = Len(kept') /\ kept' = O!From(text', d + 1)
          /\ whole' <=> d = 0 \/ text'[d] = "nl"
          /\ d > 0 => /\ N1 > limit.bytes
                      /\ whole' => y >= 2 * limit.bytes
                      /\ IF kept' = << >> THEN finished'
                         ELSE y >= 2 * limit.bytes - 1 /\ kept'[1] # "tail"
      BY <1>2, <1>10, <1>12, <2>4, <2>8, <2>9, <2>10, <2>11, <2>12, <2>x, <2>14, <3>3, Zenon
    <3> QED
      BY <2>6, <3>4, TailFrom
  <2> QED
    BY <2>13, <2>14
<1> QED
  BY <1>13, <1>14

-----------------------------------------------------------------------------
(* What was decoded.                                                       *)

\* The last byte of a text that is not empty, and what comes before.
LEMMA LastFacts ==
  \A S : \A t \in Seq(S) : t # << >> =>
    /\ O!Front(t) \in Seq(S) /\ Len(O!Front(t)) = Len(t) - 1
    /\ \A m \in 1 .. Len(t) - 1 : O!Front(t)[m] = t[m]
    /\ O!Last(t) = t[Len(t)] /\ t[Len(t)] \in S /\ Len(t) >= 1
<1> SUFFICES ASSUME NEW S, NEW t \in Seq(S), t # << >>
             PROVE  /\ O!Front(t) \in Seq(S) /\ Len(O!Front(t)) = Len(t) - 1
                    /\ \A m \in 1 .. Len(t) - 1 : O!Front(t)[m] = t[m]
                    /\ O!Last(t) = t[Len(t)] /\ t[Len(t)] \in S /\ Len(t) >= 1
  OBVIOUS
<1>1. PICK n \in Nat : n = Len(t) /\ n >= 1
  <2>1. PICK n \in Nat : n = Len(t)
    OBVIOUS
  <2>2. n # 0
    BY <2>1, EmptySeq
  <2> QED
    BY <2>1, <2>2
<1>2. 1 \in Int /\ n - 1 \in Int /\ \A m \in 1 .. n - 1 : t[m] \in S
  BY <1>1
<1>3. /\ SubSeq(t, 1, n - 1) \in Seq(S)
      /\ Len(SubSeq(t, 1, n - 1)) = IF 1 <= n - 1 THEN (n - 1) - 1 + 1 ELSE 0
      /\ \A m \in 1 .. (n - 1) - 1 + 1 : SubSeq(t, 1, n - 1)[m] = t[1 + m - 1]
  BY <1>2, SubSeqProperties
<1>4. PICK g \in Seq(S) : g = O!Front(t)
  BY <1>1, <1>3, Zenon DEF O!Front
<1>5. /\ Len(g) = IF 1 <= n - 1 THEN (n - 1) - 1 + 1 ELSE 0
      /\ \A m \in 1 .. (n - 1) - 1 + 1 : g[m] = t[1 + m - 1]
  BY <1>1, <1>3, <1>4, Zenon DEF O!Front
<1>6. Len(g) = n - 1 /\ \A m \in 1 .. n - 1 : g[m] = t[m]
  BY <1>1, <1>5
<1>7. t[n] \in S
  BY <1>1
<1> QED
  BY <1>1, <1>4, <1>6, <1>7, Zenon DEF O!Last

\* The last of two texts in a row, and what comes before it.
LEMMA LastOfRow ==
  ASSUME NEW S, NEW t \in Seq(S), NEW u \in Seq(S), u # << >>
  PROVE  /\ t \o u # << >> /\ O!Last(t \o u) = O!Last(u)
         /\ O!Front(t \o u) = t \o O!Front(u)
<1>1. PICK v \in Seq(S) : v = t \o u
  BY RowFacts, Zenon
<1>2. /\ Len(v) = Len(t) + Len(u)
      /\ \A m \in 1 .. Len(t) : v[m] = t[m]
      /\ \A m \in 1 .. Len(u) : v[Len(t) + m] = u[m]
  BY <1>1, RowFacts
<1>3. PICK n \in Nat, k \in Nat : n = Len(t) /\ k = Len(u) /\ k >= 1
  BY LastFacts
<1>4. /\ Len(v) = n + k
      /\ \A m \in 1 .. n : v[m] = t[m]
      /\ \A m \in 1 .. k : v[n + m] = u[m]
  BY <1>2, <1>3
<1>5. v # << >>
  <2>1. Len(v) # 0 /\ Len(<< >>) = 0
    BY <1>3, <1>4
  <2> QED
    BY <2>1, Zenon
<1>6. O!Last(v) = O!Last(u)
  <2>1. O!Last(v) = v[Len(v)] /\ O!Last(u) = u[Len(u)]
    BY Zenon DEF O!Last
  <2>2. v[n + k] = u[k]
    <3>1. k \in 1 .. k
      BY <1>3
    <3> QED
      BY <1>4, <3>1
  <2> QED
    BY <1>3, <1>4, <2>1, <2>2
<1>7. PICK x \in Seq(S), y \in Seq(S) : x = O!Front(v) /\ y = O!Front(u)
  BY <1>5, LastFacts
<1>8. /\ Len(x) = Len(v) - 1 /\ Len(y) = Len(u) - 1
      /\ \A m \in 1 .. Len(v) - 1 : x[m] = v[m]
      /\ \A m \in 1 .. Len(u) - 1 : y[m] = u[m]
  <2>1. /\ Len(O!Front(v)) = Len(v) - 1 /\ Len(O!Front(u)) = Len(u) - 1
        /\ \A m \in 1 .. Len(v) - 1 : O!Front(v)[m] = v[m]
        /\ \A m \in 1 .. Len(u) - 1 : O!Front(u)[m] = u[m]
    BY <1>5, LastFacts
  <2> QED
    BY <1>7, <2>1, Zenon
<1>9. PICK z \in Seq(S) : z = t \o y
  BY RowFacts, Zenon
<1>10. /\ Len(z) = Len(t) + Len(y)
       /\ \A m \in 1 .. Len(t) : z[m] = t[m]
       /\ \A m \in 1 .. Len(y) : z[Len(t) + m] = y[m]
  BY <1>9, RowFacts
<1>11. /\ Len(x) = n + k - 1 /\ Len(z) = n + k - 1
       /\ \A m \in 1 .. n + k - 1 : x[m] = v[m]
       /\ \A m \in 1 .. k - 1 : y[m] = u[m]
       /\ \A m \in 1 .. n : z[m] = t[m]
       /\ \A m \in 1 .. k - 1 : z[n + m] = y[m]
  <2>1. Len(y) = k - 1 /\ Len(x) = n + k - 1
    BY <1>3, <1>4, <1>8
  <2>2. Len(z) = n + k - 1
    BY <1>3, <1>10, <2>1
  <2> QED
    BY <1>3, <1>4, <1>8, <1>10, <2>1, <2>2
<1>12. ASSUME NEW m \in 1 .. n + k - 1
       PROVE  x[m] = z[m]
  <2>1. CASE m \in 1 .. n
    BY <1>4, <1>11, <2>1
  <2>2. CASE m \notin 1 .. n
    <3>1. m - n \in 1 .. k - 1 /\ m - n \in 1 .. k /\ n + (m - n) = m
      BY <1>3, <2>2
    <3>2. PICK j \in 1 .. k - 1 : j \in 1 .. k /\ n + j = m
      BY <3>1
    <3> QED
      BY <1>4, <1>11, <3>2
  <2> QED
    BY <2>1, <2>2
<1>13. x = z
  <2>1. Len(x) = Len(z) /\ \A m \in 1 .. Len(x) : x[m] = z[m]
    BY <1>11, <1>12
  <2> QED
    BY <2>1, SameText
<1> QED
  BY <1>1, <1>5, <1>6, <1>7, <1>9, <1>13, Zenon

\* A text that is not empty is what comes before its last byte, and that byte.
LEMMA FrontThenLast ==
  ASSUME NEW S, NEW t \in Seq(S), t # << >>
  PROVE  t = O!Front(t) \o << O!Last(t) >>
<1>1. PICK n \in Nat : n = Len(t) /\ n >= 1
  BY LastFacts
<1>2. PICK g \in Seq(S) : g = O!Front(t)
  BY LastFacts
<1>3. Len(g) = n - 1 /\ \A m \in 1 .. n - 1 : g[m] = t[m]
  BY <1>1, <1>2, LastFacts
<1>4. PICK x \in S : x = O!Last(t) /\ x = t[n]
  BY <1>1, LastFacts
<1>5. PICK h \in Seq(S) : h = << x >> /\ Len(h) = 1 /\ h[1] = x
  <2>1. << x >> \in Seq(S) /\ Len(<< x >>) = 1 /\ << x >>[1] = x
    OBVIOUS
  <2> QED
    BY <2>1, Zenon
<1>6. PICK v \in Seq(S) : v = g \o h
  BY RowFacts, Zenon
<1>7. /\ Len(v) = Len(g) + Len(h)
      /\ \A i \in 1 .. Len(g) : v[i] = g[i]
      /\ \A i \in 1 .. Len(h) : v[Len(g) + i] = h[i]
  BY <1>6, RowFacts
<1>8. Len(v) = n /\ (\A i \in 1 .. n - 1 : v[i] = g[i]) /\ v[n - 1 + 1] = x
  BY <1>1, <1>3, <1>5, <1>7
<1>9. Len(v) = Len(t) /\ \A i \in 1 .. Len(v) : v[i] = t[i]
  BY <1>1, <1>3, <1>4, <1>8
<1>10. v = t
  BY <1>9, SameText
<1> QED
  BY <1>2, <1>4, <1>5, <1>6, <1>10, Zenon

\* Parentheses do not matter.
LEMMA RowOfThree ==
  \A S : \A t, u, v \in Seq(S) : (t \o u) \o v = t \o (u \o v)
BY ConcatAssociative

\* The beginning of a character, and no byte at all, are texts.
LEMMA LeadIs == << "lead" >> \in Seq(O!Byte) /\ << >> \in Seq(O!Byte)
BY DEF O!Byte

\* What waits is decoded with what comes next as it would be at once.
ReadsOn(all, done, rest, more) ==
  \A new, wait :
    ( /\ new = O!Decoded(rest \o more, FALSE)[1]
      /\ wait = O!Decoded(rest \o more, FALSE)[2] ) =>
    /\ << done \o new, wait >> = O!Decoded(all \o more, FALSE)
    /\ new \in Seq(O!Byte) /\ wait \in Seq(O!Byte)
    /\ done \o new = all \o more \/ done \o new = O!Front(all \o more)

\* What was decoded, with what is decoded now, is what is decoded of all.
LEMMA DecodedOfRow ==
  \A all, done, rest, more \in Seq(O!Byte) :
    << done, rest >> = O!Decoded(all, FALSE) /\ more # << >> =>
      ReadsOn(all, done, rest, more)
<1> USE DEF ReadsOn
<1> TAKE all, done, rest, more \in Seq(O!Byte)
<1> HAVE << done, rest >> = O!Decoded(all, FALSE) /\ more # << >>
<1> TAKE new, wait
<1> HAVE /\ new = O!Decoded(rest \o more, FALSE)[1]
         /\ wait = O!Decoded(rest \o more, FALSE)[2]
<1>1. done \o rest = all
  <2>1. CASE all = << >> \/ O!Last(all) # "lead"
    <3>1. << done, rest >> = << all, << >> >>
      BY <2>1, Zenon DEF O!Decoded
    <3>2. done = all /\ rest = << >>
      BY <3>1
    <3> QED
      BY <3>2, ConcatEmptySeq
  <2>2. CASE ~(all = << >> \/ O!Last(all) # "lead")
    <3>1. << done, rest >> = << O!Front(all), << "lead" >> >>
      BY <2>2, Zenon DEF O!Decoded
    <3>2. done = O!Front(all) /\ rest = << "lead" >>
      BY <3>1
    <3>3. all = O!Front(all) \o << O!Last(all) >> /\ O!Last(all) = "lead"
      BY <2>2, FrontThenLast
    <3> QED
      BY <3>2, <3>3
  <2> QED
    BY <2>1, <2>2
<1>2. /\ rest \o more # << >> /\ O!Last(rest \o more) = O!Last(more)
      /\ O!Front(rest \o more) = rest \o O!Front(more)
      /\ all \o more # << >> /\ O!Last(all \o more) = O!Last(more)
      /\ O!Front(all \o more) = all \o O!Front(more)
  BY LastOfRow
<1>3. O!Front(more) \in Seq(O!Byte)
  BY LastFacts
<1>4. /\ rest \o more \in Seq(O!Byte) /\ rest \o O!Front(more) \in Seq(O!Byte)
  BY <1>3, RowFacts, Zenon
<1>5. CASE O!Last(more) # "lead"
  <2>1. O!Decoded(rest \o more, FALSE) = << rest \o more, << >> >>
    BY <1>2, <1>5, Zenon DEF O!Decoded
  <2>2. O!Decoded(all \o more, FALSE) = << all \o more, << >> >>
    BY <1>2, <1>5, Zenon DEF O!Decoded
  <2>3. new = rest \o more /\ wait = << >>
    <3>1. << rest \o more, << >> >>[1] = rest \o more /\ << rest \o more, << >> >>[2] = << >>
      OBVIOUS
    <3> QED
      BY <2>1, <3>1, Zenon
  <2>4. (done \o rest) \o more = done \o (rest \o more)
    BY RowOfThree
  <2> QED
    BY <1>1, <1>4, <2>2, <2>3, <2>4, LeadIs, Zenon
<1>6. CASE O!Last(more) = "lead"
  <2>1. O!Decoded(rest \o more, FALSE) = << rest \o O!Front(more), << "lead" >> >>
    BY <1>2, <1>6, Zenon DEF O!Decoded
  <2>2. O!Decoded(all \o more, FALSE) = << all \o O!Front(more), << "lead" >> >>
    BY <1>2, <1>6, Zenon DEF O!Decoded
  <2>3. new = rest \o O!Front(more) /\ wait = << "lead" >>
    <3>1. /\ << rest \o O!Front(more), << "lead" >> >>[1] = rest \o O!Front(more)
          /\ << rest \o O!Front(more), << "lead" >> >>[2] = << "lead" >>
      OBVIOUS
    <3> QED
      BY <2>1, <3>1, Zenon
  <2>4. (done \o rest) \o O!Front(more) = done \o (rest \o O!Front(more))
    BY <1>3, RowOfThree, SMTT(30)
  <2> QED
    BY <1>1, <1>2, <1>4, <2>2, <2>3, <2>4, LeadIs, Zenon
<1> QED
  BY <1>5, <1>6

\* The beginning of a character that does not come any more stands for one.
BadChar == << "lead", "tail", "tail" >>

\* When nothing comes any more, a beginning that waits is replaced.
LEMMA DecodedAtLast ==
  \A all, done, rest \in Seq(O!Byte) :
    << done, rest >> = O!Decoded(all, FALSE) =>
      \A new : new = O!Decoded(rest, TRUE)[1] =>
        /\ << done \o new, << >> >> = O!Decoded(all, TRUE)
        /\ new = << >> \/ new = BadChar
        /\ done = all \/ (all # << >> /\ done = O!Front(all))
<1> SUFFICES ASSUME NEW all \in Seq(O!Byte), NEW done \in Seq(O!Byte), NEW rest \in Seq(O!Byte),
                      << done, rest >> = O!Decoded(all, FALSE),
                      NEW new, new = O!Decoded(rest, TRUE)[1]
               PROVE  /\ << done \o new, << >> >> = O!Decoded(all, TRUE)
                      /\ new = << >> \/ new = BadChar
                      /\ done = all \/ (all # << >> /\ done = O!Front(all))
  OBVIOUS
<1>1. CASE all = << >> \/ O!Last(all) # "lead"
  <2>1. << done, rest >> = << all, << >> >> /\ O!Decoded(all, TRUE) = << all, << >> >>
    BY <1>1, Zenon DEF O!Decoded
  <2>2. done = all /\ rest = << >>
    BY <2>1
  <2>3. O!Decoded(rest, TRUE) = << rest, << >> >>
    BY <2>2, Zenon DEF O!Decoded
  <2>4. new = << >>
    <3>1. << rest, << >> >>[1] = rest
      OBVIOUS
    <3> QED
      BY <2>2, <2>3, <3>1, Zenon
  <2>5. done \o new = all
    BY <2>2, <2>4, ConcatEmptySeq
  <2> QED
    BY <2>1, <2>2, <2>4, <2>5, Zenon
<1>2. CASE ~(all = << >> \/ O!Last(all) # "lead")
  <2>1. /\ << done, rest >> = << O!Front(all), << "lead" >> >>
        /\ O!Decoded(all, TRUE) = << O!Front(all) \o BadChar, << >> >>
    BY <1>2, Zenon DEF O!Decoded, BadChar
  <2>2. done = O!Front(all) /\ rest = << "lead" >>
    BY <2>1
  <2>3. rest # << >> /\ O!Last(rest) = "lead" /\ O!Front(rest) = << >>
    <3>1. rest # << >> /\ Len(rest) = 1 /\ rest[1] = "lead"
      BY <2>2
    <3>2. Len(O!Front(rest)) = 1 - 1 /\ O!Front(rest) \in Seq(O!Byte)
      BY <3>1, LastFacts
    <3>3. O!Front(rest) = << >>
      BY <3>2, EmptySeq
    <3> QED
      BY <3>1, <3>3, Zenon DEF O!Last
  <2>4. O!Decoded(rest, TRUE) = << << >> \o BadChar, << >> >>
    BY <2>3, Zenon DEF O!Decoded, BadChar
  <2>5. << >> \o BadChar = BadChar
    <3>1. BadChar \in Seq(O!Byte)
      BY DEF BadChar, O!Byte
    <3> QED
      BY <3>1, ConcatEmptySeq
  <2>6. new = BadChar
    <3>1. << << >> \o BadChar, << >> >>[1] = << >> \o BadChar
      OBVIOUS
    <3> QED
      BY <2>4, <2>5, <3>1, Zenon
  <2> QED
    BY <1>2, <2>1, <2>2, <2>6, Zenon
<1> QED
  BY <1>1, <1>2

-----------------------------------------------------------------------------
(* Characters and lines of what comes.                                     *)

\* A piece is a text that is not empty.
LEMMA PieceIs ==
  ASSUME NEW n \in 1 .. MaxPiece, NEW data \in [ 1 .. n -> O!Byte ]
  PROVE  data \in Seq(O!Byte) /\ Len(data) = n /\ data # << >>
<1>1. MaxPiece \in Nat
  BY ToolsAssumption
<1>2. n \in Nat /\ n >= 1
  BY <1>1
<1>3. data \in Seq(O!Byte) /\ Len(data) = n
  <2>1. data \in Seq(O!Byte)
    <3>1. data \in UNION { [ 1 .. m -> O!Byte ] : m \in Nat }
      BY <1>2, Zenon
    <3> QED
      BY <3>1, SeqDef, Zenon
  <2> QED
    BY <1>2, <2>1
<1>4. Len(<< >>) = 0
  OBVIOUS
<1>5. n # 0
  BY <1>2
<1> QED
  BY <1>3, <1>4, <1>5, Zenon

\* A piece that continues the characters of the output leaves them whole.
LEMMA WholeAgain ==
  ASSUME O!WholeChars, output \in Seq(O!Byte),
         NEW data \in Seq(O!Byte), output' = output \o data,
         \A i \in 1 .. Len(data) :
           (data[i] = "tail") =
             (O!Last(<< "x" >> \o output \o SubSeq(data, 1, i - 1)) = "lead")
  PROVE  O!WholeChars'
<1>1. PICK N0 \in Nat, n \in Nat : N0 = Len(output) /\ n = Len(data)
  OBVIOUS
<1>2. PICK v \in Seq(O!Byte) : v = output \o data
  BY RowFacts, Zenon
<1>3. /\ Len(v) = Len(output) + Len(data)
      /\ \A m \in 1 .. Len(output) : v[m] = output[m]
      /\ \A m \in 1 .. Len(data) : v[Len(output) + m] = data[m]
  BY <1>2, RowFacts
<1>4. /\ Len(v) = N0 + n
      /\ \A m \in 1 .. N0 : v[m] = output[m]
      /\ \A m \in 1 .. n : v[N0 + m] = data[m]
  BY <1>1, <1>3
<1>5. \A i \in 1 .. N0 : output[i] = "tail" <=> i > 1 /\ output[i - 1] = "lead"
  BY <1>1 DEF O!WholeChars
<1>6. ASSUME NEW j \in 1 .. n
      PROVE  O!Last(<< "x" >> \o output \o SubSeq(data, 1, j - 1)) =
               IF N0 + j > 1 THEN v[N0 + j - 1] ELSE "x"
  <2> DEFINE Prior == IF N0 + j > 1 THEN v[N0 + j - 1] ELSE "x"
  <2>1. PICK o \in Seq(O!Byte) : o = << "x" >> /\ Len(o) = 1 /\ o[1] = "x"
    <3>1. << "x" >> \in Seq(O!Byte) /\ Len(<< "x" >>) = 1 /\ << "x" >>[1] = "x"
      BY DEF O!Byte
    <3> QED
      BY <3>1, Zenon
  <2>2. PICK g \in Seq(O!Byte) :
          /\ g = SubSeq(data, 1, j - 1) /\ Len(g) = j - 1
          /\ \A m \in 1 .. j - 1 : g[m] = data[m]
    <3>1. 1 \in Int /\ j - 1 \in Int /\ \A m \in 1 .. j - 1 : data[m] \in O!Byte
      BY <1>1
    <3>2. /\ SubSeq(data, 1, j - 1) \in Seq(O!Byte)
          /\ Len(SubSeq(data, 1, j - 1)) = IF 1 <= j - 1 THEN (j - 1) - 1 + 1 ELSE 0
          /\ \A m \in 1 .. (j - 1) - 1 + 1 : SubSeq(data, 1, j - 1)[m] = data[1 + m - 1]
      BY <3>1, SubSeqProperties
    <3>3. PICK g \in Seq(O!Byte) : g = SubSeq(data, 1, j - 1)
      BY <3>2, Zenon
    <3>4. /\ Len(g) = IF 1 <= j - 1 THEN (j - 1) - 1 + 1 ELSE 0
          /\ \A m \in 1 .. (j - 1) - 1 + 1 : g[m] = data[1 + m - 1]
      BY <3>2, <3>3, Zenon
    <3>5. Len(g) = j - 1 /\ \A m \in 1 .. j - 1 : g[m] = data[m]
      BY <3>4
    <3> QED
      BY <3>3, <3>5, Zenon
  <2>3. PICK x \in Seq(O!Byte) : x = o \o output
    BY RowFacts, Zenon
  <2>4. Len(x) = 1 + N0 /\ x[1] = "x" /\ \A m \in 1 .. N0 : x[1 + m] = output[m]
    <3>1. /\ Len(x) = Len(o) + Len(output)
          /\ \A m \in 1 .. Len(o) : x[m] = o[m]
          /\ \A m \in 1 .. Len(output) : x[Len(o) + m] = output[m]
      BY <2>3, RowFacts
    <3> QED
      BY <1>1, <2>1, <3>1
  <2>5. PICK y \in Seq(O!Byte) : y = x \o g
    BY RowFacts, Zenon
  <2>6. /\ Len(y) = 1 + N0 + (j - 1)
        /\ \A m \in 1 .. 1 + N0 : y[m] = x[m]
        /\ \A m \in 1 .. j - 1 : y[1 + N0 + m] = g[m]
    <3>1. /\ Len(y) = Len(x) + Len(g)
          /\ \A m \in 1 .. Len(x) : y[m] = x[m]
          /\ \A m \in 1 .. Len(g) : y[Len(x) + m] = g[m]
      BY <2>5, RowFacts, SMTT(30)
    <3> QED
      BY <2>2, <2>4, <3>1
  <2>7. O!Last(y) = y[N0 + j]
    <3>1. 1 + N0 + (j - 1) = N0 + j
      OBVIOUS
    <3> QED
      BY <2>6, <3>1, Zenon DEF O!Last
  <2>8. ASSUME j = 1, N0 = 0
        PROVE  O!Last(y) = Prior
    <3>1. N0 + j = 1 /\ ~(N0 + j > 1) /\ 1 \in 1 .. 1 + N0
      BY <2>8
    <3>2. y[N0 + j] = "x"
      BY <2>4, <2>6, <3>1
    <3> QED
      BY <2>7, <3>1, <3>2, Zenon
  <2>9. ASSUME j = 1, N0 # 0
        PROVE  O!Last(y) = Prior
    <3>1. N0 + j = 1 + N0 /\ N0 + j \in 1 .. 1 + N0 /\ N0 \in 1 .. N0 /\ N0 + j - 1 = N0
          /\ N0 + j > 1
      BY <2>9
    <3>2. y[N0 + j] = output[N0] /\ v[N0] = output[N0]
      BY <1>4, <2>4, <2>6, <3>1
    <3> QED
      BY <2>7, <3>1, <3>2, Zenon
  <2>10. ASSUME j # 1
         PROVE  O!Last(y) = Prior
    <3>1. /\ j - 1 \in 1 .. j - 1 /\ j - 1 \in 1 .. n /\ 1 + N0 + (j - 1) = N0 + j
          /\ N0 + (j - 1) = N0 + j - 1 /\ N0 + j > 1
      BY <2>10
    <3>2. y[N0 + j] = data[j - 1]
      BY <2>2, <2>6, <3>1
    <3>3. v[N0 + j - 1] = data[j - 1]
      BY <1>4, <3>1
    <3> QED
      BY <2>7, <3>1, <3>2, <3>3, Zenon
  <2>11. O!Last(y) = Prior
    BY <2>8, <2>9, <2>10, Zenon
  <2> QED
    BY <2>1, <2>2, <2>3, <2>5, <2>11, Zenon
<1>7. ASSUME NEW i \in 1 .. N0 + n
      PROVE  v[i] = "tail" <=> i > 1 /\ v[i - 1] = "lead"
  <2>1. CASE i \in 1 .. N0
    <3>1. v[i] = output[i] /\ (i > 1 => v[i - 1] = output[i - 1])
      <4>1. i > 1 => i - 1 \in 1 .. N0
        BY <2>1
      <4> QED
        BY <1>4, <2>1, <4>1
    <3> QED
      BY <1>5, <2>1, <3>1
  <2>2. CASE i \notin 1 .. N0
    <3>1. PICK j \in 1 .. n : i = N0 + j
      <4>1. i - N0 \in 1 .. n /\ i = N0 + (i - N0)
        BY <2>2
      <4> QED
        BY <4>1
    <3>2. v[i] = data[j]
      BY <1>4, <3>1
    <3>3. (data[j] = "tail") = ((IF N0 + j > 1 THEN v[N0 + j - 1] ELSE "x") = "lead")
      <4>1. (data[j] = "tail") =
              (O!Last(<< "x" >> \o output \o SubSeq(data, 1, j - 1)) = "lead")
        BY <1>1
      <4> QED
        BY <1>6, <4>1, Zenon
    <3>4. CASE i > 1
      <4>1. N0 + j > 1 /\ v[N0 + j - 1] = v[i - 1]
        BY <3>1, <3>4
      <4> QED
        BY <3>2, <3>3, <3>4, <4>1
    <3>5. CASE ~(i > 1)
      <4>1. ~(N0 + j > 1)
        BY <3>1, <3>5
      <4> QED
        BY <3>2, <3>3, <3>5, <4>1
    <3> QED
      BY <3>4, <3>5
  <2> QED
    BY <2>1, <2>2
<1>8. output' = v
  BY <1>2
<1> QED
  BY <1>4, <1>7, <1>8 DEF O!WholeChars

\* No half follows another in a beginning of the output, ...
LEMMA BeginningApart ==
  ASSUME NEW all \in Seq(O!Byte), NEW part0 \in Seq(O!Byte), NEW over,
         \A i \in 1 .. Len(all) : all[i] = "tail" <=> i > 1 /\ all[i - 1] = "lead",
         part0 = all \/ (all # << >> /\ part0 = O!Front(all))
  PROVE  /\ HalvesApart(part0, over)
         /\ \A i \in 1 .. Len(part0) - 1 : ~(part0[i] = "tail" /\ part0[i + 1] = "tail")
<1>1. PICK n \in Nat, k \in Nat : n = Len(all) /\ k = Len(part0)
  OBVIOUS
<1>2. k <= n /\ \A m \in 1 .. k : part0[m] = all[m]
  <2>1. CASE part0 = all
    BY <1>1, <2>1
  <2>2. CASE all # << >> /\ part0 = O!Front(all)
    <3>1. /\ Len(O!Front(all)) = Len(all) - 1
          /\ \A m \in 1 .. Len(all) - 1 : O!Front(all)[m] = all[m]
      BY <2>2, LastFacts
    <3>2. Len(part0) = Len(all) - 1 /\ \A m \in 1 .. Len(all) - 1 : part0[m] = all[m]
      BY <2>2, <3>1, Zenon
    <3>3. k = n - 1 /\ \A m \in 1 .. n - 1 : part0[m] = all[m]
      BY <1>1, <3>2, Zenon
    <3> QED
      BY <3>3
  <2> QED
    BY <2>1, <2>2
<1>3. \A i \in 1 .. n : all[i] = "tail" <=> i > 1 /\ all[i - 1] = "lead"
  BY <1>1
<1>4. ASSUME NEW i \in 1 .. k - 1, part0[i] = "tail", part0[i + 1] = "tail"
      PROVE  FALSE
  <2>1. i \in 1 .. k /\ i + 1 \in 1 .. k /\ i + 1 \in 1 .. n /\ (i + 1) - 1 = i
    BY <1>2
  <2>2. all[i] = "tail" /\ all[i + 1] = "tail"
    BY <1>2, <1>4, <2>1
  <2>3. all[i] = "lead"
    <3>1. all[(i + 1) - 1] = "lead"
      BY <1>3, <2>1, <2>2
    <3> QED
      BY <2>1, <3>1
  <2> QED
    BY <2>2, <2>3
<1>5. \A i \in 1 .. Len(part0) - 1 : ~(part0[i] = "tail" /\ part0[i + 1] = "tail")
  BY <1>1, <1>4
<1> QED
  BY <1>5, Zenon DEF HalvesApart

\* ... nor in what is decoded at last, but at its end.
LEMMA BadApart ==
  ASSUME NEW t \in Seq(O!Byte), NEW over, over,
         \A i \in 1 .. Len(t) - 1 : ~(t[i] = "tail" /\ t[i + 1] = "tail")
  PROVE  HalvesApart(t \o BadChar, over)
<1>1. PICK o \in Seq(O!Byte) :
        /\ o = BadChar /\ Len(o) = 3 /\ o[1] = "lead" /\ o[2] = "tail" /\ o[3] = "tail"
  <2>1. /\ BadChar \in Seq(O!Byte) /\ Len(BadChar) = 3
        /\ BadChar[1] = "lead" /\ BadChar[2] = "tail" /\ BadChar[3] = "tail"
    BY DEF BadChar, O!Byte
  <2> QED
    BY <2>1, Zenon
<1>2. PICK n \in Nat : n = Len(t)
  OBVIOUS
<1>3. PICK v \in Seq(O!Byte) : v = t \o o
  BY RowFacts, Zenon
<1>4. /\ Len(v) = Len(t) + Len(o)
      /\ \A m \in 1 .. Len(t) : v[m] = t[m]
      /\ \A m \in 1 .. Len(o) : v[Len(t) + m] = o[m]
  BY <1>3, RowFacts
<1>5. Len(v) = n + 3 /\ (\A m \in 1 .. n : v[m] = t[m]) /\ v[n + 1] = "lead"
  <2>1. 1 \in 1 .. 3
    OBVIOUS
  <2> QED
    BY <1>1, <1>2, <1>4, <2>1
<1>6. ASSUME NEW i \in 1 .. n + 2, v[i] = "tail", v[i + 1] = "tail"
      PROVE  i + 1 = n + 3
  <2>1. i # n + 1 /\ i + 1 # n + 1
    BY <1>5, <1>6
  <2>2. ASSUME i < n
        PROVE  FALSE
    <3>1. i \in 1 .. n - 1 /\ i \in 1 .. n /\ i + 1 \in 1 .. n
      BY <2>2
    <3>2. t[i] = "tail" /\ t[i + 1] = "tail"
      BY <1>5, <1>6, <3>1
    <3> QED
      BY <1>2, <3>1, <3>2
  <2> QED
    BY <2>1, <2>2
<1>7. HalvesApart(v, over)
  <2>1. ASSUME NEW i \in 1 .. Len(v) - 1, v[i] = "tail", v[i + 1] = "tail"
        PROVE  i + 1 = Len(v) /\ over
    <3>1. i \in 1 .. n + 2
      BY <1>5
    <3>2. i + 1 = n + 3
      BY <1>6, <2>1, <3>1
    <3> QED
      BY <1>5, <3>2
  <2> QED
    BY <2>1 DEF HalvesApart
<1> QED
  BY <1>1, <1>3, <1>7, Zenon

-----------------------------------------------------------------------------
(* The lines of what comes.                                                *)

\* The lines that end in two texts in a row.
LEMMA EndsOfRow ==
  ASSUME NEW S, NEW t \in Seq(S), NEW u \in Seq(S)
  PROVE  Cardinality(O!LineEnds(t \o u)) =
           Cardinality(O!LineEnds(t)) + Cardinality(O!LineEnds(u))
<1>1. PICK n \in Nat, k \in Nat : n = Len(t) /\ k = Len(u)
  OBVIOUS
<1>2. PICK v \in Seq(S) : v = t \o u
  BY RowFacts, Zenon
<1>3. /\ Len(v) = Len(t) + Len(u)
      /\ \A m \in 1 .. Len(t) : v[m] = t[m]
      /\ \A m \in 1 .. Len(u) : v[Len(t) + m] = u[m]
  BY <1>2, RowFacts
<1>4. /\ Len(v) = n + k
      /\ \A m \in 1 .. n : v[m] = t[m]
      /\ \A m \in 1 .. k : v[n + m] = u[m]
  BY <1>1, <1>3
<1>5. PICK A \in SUBSET (1 .. n), C \in SUBSET (1 .. k) :
        /\ A = { i \in 1 .. n : t[i] = "nl" } /\ A = O!LineEnds(t)
        /\ C = { i \in 1 .. k : u[i] = "nl" } /\ C = O!LineEnds(u)
  BY <1>1, Zenon DEF O!LineEnds
<1>6. PICK B : B = { x + n : x \in C }
  OBVIOUS
<1>7. O!LineEnds(v) = { i \in 1 .. n + k : v[i] = "nl" }
  BY <1>4, Zenon DEF O!LineEnds
<1>8. O!LineEnds(v) = A \cup B /\ A \cap B = { }
  <2>1. ASSUME NEW i \in A
        PROVE  i \in 1 .. n + k /\ v[i] = "nl" /\ i \notin B
    <3>1. i \in 1 .. n /\ t[i] = "nl"
      BY <1>5
    <3>2. \A x \in C : x \in 1 .. k
      BY <1>5
    <3> QED
      BY <1>4, <1>6, <3>1, <3>2
  <2>2. ASSUME NEW x \in C
        PROVE  x + n \in 1 .. n + k /\ v[x + n] = "nl"
    <3>1. x \in 1 .. k /\ u[x] = "nl" /\ n + x = x + n
      BY <1>5
    <3> QED
      BY <1>4, <3>1
  <2>3. ASSUME NEW i \in 1 .. n + k, v[i] = "nl", i \notin A
        PROVE  i \in B
    <3>1. i \notin 1 .. n
      BY <1>4, <1>5, <2>3
    <3>2. i - n \in 1 .. k /\ n + (i - n) = i /\ (i - n) + n = i
      BY <3>1
    <3>3. u[i - n] = "nl"
      BY <1>4, <2>3, <3>2
    <3>4. i - n \in C
      BY <1>5, <3>2, <3>3
    <3> QED
      BY <1>6, <3>2, <3>4
  <2> QED
    BY <1>6, <1>7, <2>1, <2>2, <2>3
<1>9. /\ IsFiniteSet(A) /\ IsFiniteSet(B) /\ Cardinality(B) = Cardinality(C)
      /\ Cardinality(A) \in Nat /\ Cardinality(C) \in Nat
  <2>1. IsFiniteSet(A) /\ Cardinality(A) \in Nat
    BY <1>5, LinesOf, Zenon
  <2>2. Cardinality(C) \in Nat
    BY <1>5, LinesOf, Zenon
  <2>3. n \in Int
    OBVIOUS
  <2>4. /\ IsFiniteSet({ x + n : x \in C })
        /\ Cardinality({ x + n : x \in C }) = Cardinality(C)
    BY <2>3, MovedCount
  <2> QED
    BY <1>6, <2>1, <2>2, <2>4, Zenon
<1>10. Cardinality(A \cup B) = Cardinality(A) + Cardinality(B) - Cardinality(A \cap B)
  BY <1>9, FS_Union
<1>11. Cardinality(A \cap B) = 0
  <2>1. Cardinality({ }) = 0
    BY FS_EmptySet
  <2> QED
    BY <1>8, <2>1, Zenon
<1>12. Cardinality(A \cup B) = Cardinality(A) + Cardinality(C)
  BY <1>9, <1>10, <1>11
<1> QED
  BY <1>2, <1>5, <1>8, <1>12, Zenon

\* A line is open when no end of one comes last.
LEMMA OpenIs ==
  ASSUME NEW S, NEW u \in Seq(S), u # << >>
  PROVE  (O!LineEnds(u) = { } \/ O!Max(O!LineEnds(u)) < Len(u)) <=> O!Last(u) # "nl"
<1>1. PICK k \in Nat : k = Len(u) /\ k >= 1
  BY LastFacts
<1>2. PICK C \in SUBSET (1 .. k) : C = { i \in 1 .. k : u[i] = "nl" } /\ C = O!LineEnds(u)
  BY <1>1, Zenon DEF O!LineEnds
<1>3. C # { } => O!Max(C) \in C /\ \A i \in C : i <= O!Max(C)
  <2> SUFFICES ASSUME C # { }
               PROVE  O!Max(C) \in C /\ \A i \in C : i <= O!Max(C)
    OBVIOUS
  <2>1. \E m \in C : \A i \in C : m >= i
    <3>1. PICK m \in C : \A i \in C : i <= m
      BY GreatestIs
    <3>2. \A i \in C : m >= i
      BY <3>1
    <3> QED
      BY <3>2
  <2>2. O!Max(C) \in C /\ \A i \in C : O!Max(C) >= i
    BY <2>1, Zenon DEF O!Max
  <2>3. PICK g : g = O!Max(C)
    OBVIOUS
  <2>4. g \in C /\ \A i \in C : g >= i
    BY <2>2, <2>3, Zenon
  <2>5. \A i \in C : i \in Int
    OBVIOUS
  <2>6. \A i \in C : i <= g
    BY <2>4, <2>5
  <2> QED
    BY <2>3, <2>4, <2>6, Zenon
<1>4. O!Last(u) = u[k]
  BY <1>1, Zenon DEF O!Last
<1>5. (C = { } \/ O!Max(C) < k) <=> u[k] # "nl"
  <2>1. ASSUME u[k] = "nl"
        PROVE  ~(C = { } \/ O!Max(C) < k)
    <3>1. k \in C
      BY <1>1, <1>2, <2>1
    <3>2. k <= O!Max(C) /\ O!Max(C) \in 1 .. k
      BY <1>3, <3>1
    <3> QED
      BY <3>1, <3>2
  <2>2. ASSUME u[k] # "nl", C # { }
        PROVE  O!Max(C) < k
    <3>1. O!Max(C) \in 1 .. k /\ u[O!Max(C)] = "nl"
      BY <1>2, <1>3, <2>2
    <3>2. O!Max(C) # k
      BY <2>2, <3>1
    <3> QED
      BY <3>1, <3>2
  <2> QED
    BY <2>1, <2>2
<1> QED
  BY <1>1, <1>2, <1>4, <1>5, Zenon

\* The lines are counted as the pieces come: those that end, and an open one.
LEMMA LinesAgain ==
  ASSUME O!TypeOK, O!LinesAreCounted, NEW new \in Seq(O!Byte), new # << >>,
         text' = text \o new,
         completed' = completed + O!Cardinality({ i \in DOMAIN new : new[i] = "nl" }),
         open' = ( \/ { i \in DOMAIN new : new[i] = "nl" } = { }
                   \/ O!Max({ i \in DOMAIN new : new[i] = "nl" }) < Len(new) )
  PROVE  /\ O!LinesAreCounted' /\ completed' \in Nat /\ open' \in BOOLEAN
         /\ completed' >= completed
<1>1. text \in Seq(O!Byte) /\ completed \in Nat
  BY DEF O!TypeOK
<1>2. { i \in DOMAIN new : new[i] = "nl" } = O!LineEnds(new)
  BY DEF O!LineEnds
<1>3. PICK C : C = O!LineEnds(new) /\ Cardinality(C) \in Nat
  BY LinesOf
<1>4. completed' = completed + Cardinality(C) /\ (open' <=> O!Last(new) # "nl")
  <2>1. /\ completed' = completed + Cardinality(C)
        /\ open' = (C = { } \/ O!Max(C) < Len(new))
    BY <1>2, <1>3, CountIsCardinality, Zenon
  <2>2. (C = { } \/ O!Max(C) < Len(new)) <=> O!Last(new) # "nl"
    BY <1>3, OpenIs, Zenon
  <2> QED
    BY <2>1, <2>2, Zenon
<1>5. Cardinality(O!LineEnds(text \o new)) = completed + Cardinality(C)
  <2>1. Cardinality(O!LineEnds(text \o new)) =
          Cardinality(O!LineEnds(text)) + Cardinality(O!LineEnds(new))
    BY <1>1, EndsOfRow
  <2>2. completed = Cardinality(O!LineEnds(text))
    BY CountIsCardinality, Zenon DEF O!LinesAreCounted
  <2> QED
    BY <1>3, <2>1, <2>2, Zenon
<1>6. text' # << >> /\ O!Last(text') = O!Last(new)
  BY <1>1, LastOfRow, Zenon
<1>7. completed' = O!Cardinality(O!LineEnds(text'))
  BY <1>4, <1>5, CountIsCardinality, Zenon
<1>8. O!LinesAreCounted'
  BY <1>4, <1>6, <1>7, Zenon DEF O!LinesAreCounted
<1>9. completed' \in Nat /\ completed' >= completed
  BY <1>1, <1>3, <1>4
<1>10. open' \in BOOLEAN
  OBVIOUS
<1> QED
  BY <1>8, <1>9, <1>10

-----------------------------------------------------------------------------
(* What is kept of a piece, and what the file holds.                       *)

\* append_decoded_text gives texts, and counts.
LEMMA KeepTypes ==
  ASSUME O!TypeOK, O!LinesAreCounted, NEW new \in Seq(O!Byte), O!Keep(new)
  PROVE  /\ text' = text \o new /\ text' \in Seq(O!Byte) /\ kept' \in Seq(O!Byte)
         /\ whole' \in BOOLEAN /\ open' \in BOOLEAN /\ completed' \in Nat
         /\ O!LinesAreCounted'
<1>1. text \in Seq(O!Byte) /\ kept \in Seq(O!Byte) /\ whole \in BOOLEAN
      /\ open \in BOOLEAN /\ completed \in Nat
  BY DEF O!TypeOK
<1>2. text' = text \o new
  BY Zenon DEF O!Keep
<1>3. text' \in Seq(O!Byte)
  BY <1>1, <1>2, RowFacts, Zenon
<1>4. CASE new = << >>
  <2>1. UNCHANGED << kept, whole, completed, open >>
    BY <1>4, Zenon DEF O!Keep
  <2>2. text' = text
    BY <1>1, <1>2, <1>4, ConcatEmptySeq
  <2>3. O!LinesAreCounted'
    BY <2>1, <2>2 DEF O!LinesAreCounted
  <2> QED
    BY <1>1, <1>2, <1>3, <2>1, <2>3, Zenon
<1>5. CASE new # << >>
  <2>1. /\ O!TrimTail(kept \o new)
        /\ completed' = completed + O!Cardinality({ i \in DOMAIN new : new[i] = "nl" })
        /\ open' = ( \/ { i \in DOMAIN new : new[i] = "nl" } = { }
                     \/ O!Max({ i \in DOMAIN new : new[i] = "nl" }) < Len(new) )
    BY <1>5, Zenon DEF O!Keep
  <2>2. O!LinesAreCounted' /\ completed' \in Nat /\ open' \in BOOLEAN
    BY <1>2, <1>5, <2>1, LinesAgain
  <2>3. PICK t \in Seq(O!Byte) : t = kept \o new
    BY <1>1, RowFacts, Zenon
  <2>4. CASE Len(t) <= 2 * O!Rolling
    <3>1. kept' = t /\ whole' = whole
      BY <2>1, <2>3, <2>4, Zenon DEF O!TrimTail
    <3> QED
      BY <1>1, <1>2, <1>3, <2>2, <3>1, Zenon
  <2>5. CASE ~(Len(t) <= 2 * O!Rolling)
    <3>1. PICK z \in Nat : z >= 1 /\ O!Rolling = 2 * z
      BY LimitsAre
    <3>2. PICK l \in Nat : l = Len(t)
      OBVIOUS
    <3>3. l + 1 - 2 * z \in 1 .. l + 1
      <4>1. ~(l <= 2 * (2 * z))
        BY <2>5, <3>1, <3>2
      <4> QED
        BY <4>1
    <3>4. PICK q : q = O!CharFrom(t, Len(t) + 1 - O!Rolling)
      OBVIOUS
    <3>5. q \in 1 .. Len(t) + 1
      <4>1. PICK p \in 1 .. l + 1 : p = l + 1 - 2 * z
        BY <3>3
      <4>2. p \in 1 .. Len(t) + 1 /\ p = Len(t) + 1 - O!Rolling
        BY <3>1, <3>2, <4>1
      <4>3. q \in p .. Len(t) + 1
        BY <3>4, <4>2, CharFromIs, Zenon
      <4> QED
        BY <3>2, <4>1, <4>3
    <3>6. kept' = O!From(t, q) /\ whole' = (t[q - 1] = "nl")
      BY <2>1, <2>3, <2>5, <3>4, Zenon DEF O!TrimTail
    <3>7. kept' \in Seq(O!Byte)
      BY <3>5, <3>6, FromFacts, Zenon
    <3>8. whole' \in BOOLEAN
      BY <3>6
    <3> QED
      BY <1>2, <1>3, <2>2, <3>7, <3>8, Zenon
  <2> QED
    BY <2>4, <2>5
<1> QED
  BY <1>4, <1>5

\* What is kept stays the end of the text, also when no new text came.
LEMMA TailAgain ==
  ASSUME O!TypeOK, O!TypeOK', O!TailIsEnd, limit' = limit, ~ finished,
         NEW new \in Seq(O!Byte), O!Keep(new), HalvesApart(text', finished')
  PROVE  O!TailIsEnd'
<1>1. text' = text \o new /\ text \in Seq(O!Byte)
  BY TextTypes, Zenon DEF O!Keep
<1>2. CASE new = << >>
  <2>1. kept' = kept /\ whole' = whole
    BY <1>2, Zenon DEF O!Keep
  <2>2. text' = text
    BY <1>1, <1>2, ConcatEmptySeq
  <2>3. O!CutOff' = O!CutOff /\ O!Rolling' = O!Rolling
    BY <2>1, <2>2 DEF O!CutOff, O!Rolling
  <2> QED
    BY <2>1, <2>2, <2>3, Zenon DEF O!TailIsEnd
<1>3. CASE new # << >>
  <2>1. O!TrimTail(kept \o new)
    BY <1>3, Zenon DEF O!Keep
  <2> QED
    BY <1>1, <1>3, <2>1, KeepsTail
<1> QED
  BY <1>2, <1>3

\* There are never fewer lines.
LEMMA StartsGrow ==
  ASSUME NEW S, NEW t \in Seq(S), NEW u \in Seq(S)
  PROVE  /\ Cardinality(O!LineStarts(t)) \in Nat
         /\ Cardinality(O!LineStarts(t \o u)) \in Nat
         /\ Cardinality(O!LineStarts(t)) <= Cardinality(O!LineStarts(t \o u))
<1>1. PICK n \in Nat, k \in Nat : n = Len(t) /\ k = Len(u)
  OBVIOUS
<1>2. PICK v \in Seq(S) : v = t \o u
  BY RowFacts, Zenon
<1>3. Len(v) = n + k /\ \A m \in 1 .. n : v[m] = t[m]
  <2>1. Len(v) = Len(t) + Len(u) /\ \A m \in 1 .. Len(t) : v[m] = t[m]
    BY <1>2, RowFacts
  <2> QED
    BY <1>1, <2>1
<1>4. /\ O!LineStarts(t) = { i \in 1 .. n : i = 1 \/ t[i - 1] = "nl" }
      /\ O!LineStarts(v) = { i \in 1 .. n + k : i = 1 \/ v[i - 1] = "nl" }
  <2>1. /\ O!LineStarts(t) = { i \in 1 .. Len(t) : i = 1 \/ t[i - 1] = "nl" }
        /\ O!LineStarts(v) = { i \in 1 .. Len(v) : i = 1 \/ v[i - 1] = "nl" }
    BY StartsAre
  <2> QED
    BY <1>1, <1>3, <2>1, Zenon
<1>5. ASSUME NEW i \in O!LineStarts(t)
      PROVE  i \in O!LineStarts(v)
  <2>1. i \in 1 .. n /\ (i = 1 \/ t[i - 1] = "nl")
    BY <1>4
  <2>2. i \in 1 .. n + k /\ (i # 1 => i - 1 \in 1 .. n)
    BY <2>1
  <2> QED
    BY <1>3, <1>4, <2>1, <2>2
<1>6. IsFiniteSet(O!LineStarts(v))
  <2>1. IsFiniteSet(1 .. n + k) /\ O!LineStarts(v) \subseteq 1 .. n + k
    BY <1>4, FS_Interval
  <2> QED
    BY <2>1, FS_Subset, Zenon
<1>7. O!LineStarts(t) \subseteq O!LineStarts(v)
  BY <1>5
<1>8. /\ IsFiniteSet(O!LineStarts(t))
      /\ Cardinality(O!LineStarts(t)) <= Cardinality(O!LineStarts(v))
  BY <1>6, <1>7, FS_Subset, Zenon
<1>9. Cardinality(O!LineStarts(t)) \in Nat /\ Cardinality(O!LineStarts(v)) \in Nat
  BY <1>6, <1>8, FS_CardinalityType, Zenon
<1> QED
  BY <1>2, <1>8, <1>9, Zenon

\* The lines that have ended, and an open one, are all the lines.
LEMMA LinesTold ==
  ASSUME NEW t \in Seq(O!Byte), NEW c, NEW p,
         c = O!Cardinality(O!LineEnds(t)), p <=> t # << >> /\ O!Last(t) # "nl"
  PROVE  c + (IF p THEN 1 ELSE 0) = Cardinality(O!LineStarts(t))
<1>1. p <=> t # << >> /\ t[Len(t)] # "nl"
  BY Zenon DEF O!Last
<1>2. Cardinality(O!LineStarts(t)) =
        Cardinality(O!LineEnds(t)) + IF t # << >> /\ t[Len(t)] # "nl" THEN 1 ELSE 0
  BY LinesOf
<1>3. c = Cardinality(O!LineEnds(t))
  BY CountIsCardinality, Zenon
<1>4. CASE p
  BY <1>1, <1>2, <1>3, <1>4, Zenon
<1>5. CASE ~ p
  BY <1>1, <1>2, <1>3, <1>5, Zenon
<1> QED
  BY <1>4, <1>5

\* The total of the lines does not shrink.
LEMMA LinesGrow ==
  ASSUME O!TypeOK, O!LinesAreCounted, O!LinesAreCounted', NEW new \in Seq(O!Byte),
         text' = text \o new
  PROVE  O!TotalLines \in Nat /\ O!TotalLines' \in Nat /\ O!TotalLines <= O!TotalLines'
<1>1. text \in Seq(O!Byte)
  BY TextTypes
<1>2. text' \in Seq(O!Byte)
  BY <1>1, RowFacts, Zenon
<1>3. O!TotalLines = Cardinality(O!LineStarts(text))
  <2>1. /\ completed = O!Cardinality(O!LineEnds(text))
        /\ open <=> text # << >> /\ O!Last(text) # "nl"
    BY Zenon DEF O!LinesAreCounted
  <2>2. completed + (IF open THEN 1 ELSE 0) = Cardinality(O!LineStarts(text))
    BY <1>1, <2>1, LinesTold
  <2> QED
    BY <2>2, Zenon DEF O!TotalLines
<1>4. O!TotalLines' = Cardinality(O!LineStarts(text'))
  <2>1. /\ completed' = O!Cardinality(O!LineEnds(text'))
        /\ open' <=> text' # << >> /\ O!Last(text') # "nl"
    BY Zenon DEF O!LinesAreCounted
  <2>2. completed' + (IF open' THEN 1 ELSE 0) = Cardinality(O!LineStarts(text'))
    BY <1>2, <2>1, LinesTold
  <2> QED
    BY <2>2, Zenon DEF O!TotalLines
<1>5. /\ Cardinality(O!LineStarts(text)) \in Nat
      /\ Cardinality(O!LineStarts(text \o new)) \in Nat
      /\ Cardinality(O!LineStarts(text)) <= Cardinality(O!LineStarts(text \o new))
  BY <1>1, StartsGrow
<1> QED
  BY <1>3, <1>4, <1>5, Zenon

\* The file holds all that there was once there is one, and there is one once
\* something is not shown.
LEMMA FileAgain ==
  ASSUME O!TypeOK, O!FileHolds, ~ finished, limit' = limit,
         NEW data \in Seq(O!Byte), NEW new \in Seq(O!Byte),
         output' = output \o data, text' = text \o new,
         O!TotalLines \in Nat, O!TotalLines' \in Nat, O!TotalLines <= O!TotalLines',
         NEW state \in { "open", "closed" }, state = "closed" => finished',
         IF saved = "open" \/ O!UsesFile THEN O!SaveAs(state, data)
         ELSE chunks' = chunks \o data /\ UNCHANGED << saved, stored >>
  PROVE  /\ O!FileHolds' /\ saved' \in { "none", "open", "closed", "failed" }
         /\ chunks' \in Seq(O!Byte) /\ stored' \in Seq(O!Byte)
<1>1. /\ text \in Seq(O!Byte) /\ output \in Seq(O!Byte)
      /\ chunks \in Seq(O!Byte) /\ stored \in Seq(O!Byte)
  BY TextTypes
<1>2. PICK z \in Nat, h \in Nat : z = limit.bytes /\ h = limit.lines
  BY LimitsAre
<1>3. PICK big, big2 :
        /\ big = (O!Truncated \/ Len(output) > limit.bytes)
        /\ big2 = (O!Truncated' \/ Len(output') > limit'.bytes)
        /\ big \in BOOLEAN /\ big2 \in BOOLEAN
  OBVIOUS
<1>4. /\ Len(text) \in Nat /\ Len(text') \in Nat /\ Len(text) <= Len(text')
      /\ Len(output) \in Nat /\ Len(output') \in Nat /\ Len(output) <= Len(output')
  <2>1. /\ Len(text') = Len(text) + Len(new)
        /\ Len(output') = Len(output) + Len(data)
    BY <1>1, RowFacts
  <2> QED
    BY <1>1, <2>1
<1>5. big => big2
  <2>1. big = \/ O!TotalLines > limit.lines
              \/ Len(text) > limit.bytes
              \/ Len(output) > limit.bytes
    BY <1>3, Zenon DEF O!Truncated
  <2>2. big2 = \/ O!TotalLines' > limit'.lines
               \/ Len(text') > limit'.bytes
               \/ Len(output') > limit'.bytes
    BY <1>3, Zenon DEF O!Truncated
  <2>3. big = (O!TotalLines > h \/ Len(text) > z \/ Len(output) > z)
    BY <1>2, <2>1, Zenon
  <2>4. big2 = (O!TotalLines' > h \/ Len(text') > z \/ Len(output') > z)
    BY <1>2, <2>2, Zenon
  <2>5. /\ O!TotalLines > h => O!TotalLines' > h
        /\ Len(text) > z => Len(text') > z
        /\ Len(output) > z => Len(output') > z
    <3>1. \A x, y, w0 \in Nat : x <= y /\ x > w0 => y > w0
      OBVIOUS
    <3> QED
      BY <1>4, <3>1, Zenon
  <2> QED
    BY <2>3, <2>4, <2>5, Zenon
<1>6. O!UsesFile <=> big2
  BY <1>3, Zenon DEF O!UsesFile, O!Truncated
<1>7. saved = "none" <=> ~ big
  <2>1. saved = "none" <=> ~ O!Truncated /\ Len(output) <= limit.bytes
    BY Zenon DEF O!FileHolds
  <2>2. Len(output) <= limit.bytes <=> ~(Len(output) > limit.bytes)
    BY <1>2, <1>4
  <2> QED
    BY <1>3, <2>1, <2>2, Zenon
<1>8. saved \in { "none", "open", "failed" }
  BY DEF O!TypeOK, O!FileHolds
<1>9. /\ saved = "none" => chunks = output
      /\ saved = "open" => stored = output
      /\ saved = "failed" => chunks = << >>
  BY DEF O!FileHolds
<1>10. << >> \in Seq(O!Byte) /\ chunks \o data \in Seq(O!Byte) /\ stored \o data \in Seq(O!Byte)
  BY <1>1, LeadIs, RowFacts, Zenon
<1> DEFINE Held == /\ saved' \in { "none", "open", "closed", "failed" }
                   /\ chunks' \in Seq(O!Byte) /\ stored' \in Seq(O!Byte)
                   /\ saved' = "none" => chunks' = output'
                   /\ saved' \in { "open", "closed" } => stored' = output'
                   /\ saved' = "failed" => chunks' = << >>
                   /\ saved' = "closed" => finished'
                   /\ saved' = "none" <=> ~ big2
<1>11. Held
  <2>1. CASE saved = "open" \/ O!UsesFile
    <3> USE DEF O!SaveAs, O!Fail
    <3>1. big2
      BY <1>5, <1>6, <1>7, <2>1
    <3>2. O!SaveAs(state, data)
      BY <2>1, Zenon
    <3>3. ASSUME saved = "none", saved' = state, stored' = chunks \o data, chunks' = << >>
          PROVE  Held
      BY <1>9, <1>10, <3>1, <3>3
    <3>4. ASSUME saved = "open", saved' = state, stored' = stored \o data, chunks' = chunks
          PROVE  Held
      BY <1>1, <1>9, <1>10, <3>1, <3>4
    <3>5. ASSUME saved' = "failed", stored' = << >>, chunks' = << >>
          PROVE  Held
      BY <1>10, <3>1, <3>5
    <3>6. ASSUME saved = "failed", saved' = saved, stored' = stored, chunks' = chunks
          PROVE  Held
      BY <1>1, <1>9, <3>1, <3>6
    <3> QED
      BY <3>2, <3>3, <3>4, <3>5, <3>6
  <2>2. CASE ~(saved = "open" \/ O!UsesFile)
    <3>1. chunks' = chunks \o data /\ saved' = saved /\ stored' = stored
      BY <2>2, Zenon
    <3>2. ~ big2 /\ saved = "none"
      BY <1>3, <1>5, <1>6, <1>7, <2>2, Zenon
    <3> QED
      BY <1>1, <1>9, <1>10, <3>1, <3>2
  <2> QED
    BY <2>1, <2>2
<1>12. saved' = "none" <=> ~ O!Truncated' /\ Len(output') <= limit'.bytes
  <2>1. Len(output') <= limit'.bytes <=> ~(Len(output') > limit'.bytes)
    BY <1>2, <1>4
  <2> QED
    BY <1>3, <1>11, <2>1, Zenon
<1> QED
  BY <1>11, <1>12, Zenon DEF O!FileHolds

-----------------------------------------------------------------------------
(* The steps.                                                              *)

\* append_data keeps the invariant.
LEMMA AppendKeeps ==
  ASSUME O!OutputInv, NEW n \in 1 .. MaxPiece,
         NEW data \in [ 1 .. n -> { "x", "nl", "lead", "tail" } ],
         \A i \in 1 .. n :
           (data[i] = "tail") =
             (O!Last(<< "x" >> \o output \o SubSeq(data, 1, i - 1)) = "lead"),
         O!AppendData(data)
  PROVE  O!OutputInv'
<1>1. /\ O!TypeOK /\ O!WholeChars /\ O!TextIsRead /\ O!LinesAreCounted
      /\ O!TailIsEnd /\ O!FileHolds
  BY Zenon DEF O!OutputInv
<1>2. data \in Seq(O!Byte) /\ Len(data) = n /\ data # << >>
  <2>1. data \in [ 1 .. n -> O!Byte ]
    BY DEF O!Byte
  <2> QED
    BY <2>1, PieceIs
<1>3. /\ text \in Seq(O!Byte) /\ output \in Seq(O!Byte) /\ incomplete \in Seq(O!Byte)
      /\ finished = FALSE
  <2>1. ~ finished
    BY DEF O!AppendData
  <2> QED
    BY <1>1, <2>1, TextTypes DEF O!TypeOK
<1>4. PICK new, wait :
        /\ new = O!Decoded(incomplete \o data, FALSE)[1]
        /\ wait = O!Decoded(incomplete \o data, FALSE)[2]
  OBVIOUS
<1>5. /\ output' = output \o data /\ O!Keep(new) /\ incomplete' = wait
      /\ limit' = limit /\ finished' = finished
      /\ IF saved = "open" \/ O!UsesFile THEN O!SaveAs("open", data)
         ELSE chunks' = chunks \o data /\ UNCHANGED << saved, stored >>
  BY <1>4, Zenon DEF O!AppendData
<1>6. /\ << text \o new, wait >> = O!Decoded(output \o data, FALSE)
      /\ new \in Seq(O!Byte) /\ wait \in Seq(O!Byte)
      /\ text \o new = output \o data \/ text \o new = O!Front(output \o data)
  <2>1. << text, incomplete >> = O!Decoded(output, FALSE)
    BY <1>1, <1>3, Zenon DEF O!TextIsRead
  <2>2. ReadsOn(output, text, incomplete, data)
    BY <1>2, <1>3, <2>1, DecodedOfRow, Zenon
  <2> QED
    BY <1>4, <2>2, Zenon DEF ReadsOn
<1>7. O!WholeChars'
  BY <1>1, <1>2, <1>3, <1>5, WholeAgain
<1>8. /\ text' = text \o new /\ text' \in Seq(O!Byte) /\ kept' \in Seq(O!Byte)
      /\ whole' \in BOOLEAN /\ open' \in BOOLEAN /\ completed' \in Nat
      /\ O!LinesAreCounted'
  BY <1>1, <1>5, <1>6, KeepTypes
<1>9. O!TextIsRead'
  BY <1>3, <1>5, <1>6, <1>8, Zenon DEF O!TextIsRead
<1>10. output' \in Seq(O!Byte) /\ output' # << >>
  <2>1. output \o data # << >>
    BY <1>2, <1>3, LastOfRow
  <2> QED
    BY <1>2, <1>3, <1>5, <2>1, RowFacts, Zenon
<1>11. HalvesApart(text', finished')
  <2>1. \A i \in 1 .. Len(output') :
          output'[i] = "tail" <=> i > 1 /\ output'[i - 1] = "lead"
    BY <1>7, Zenon DEF O!WholeChars
  <2>2. text' = output' \/ (output' # << >> /\ text' = O!Front(output'))
    BY <1>5, <1>6, <1>8, <1>10, Zenon
  <2> QED
    BY <1>8, <1>10, <2>1, <2>2, BeginningApart
<1>12. /\ O!FileHolds' /\ saved' \in { "none", "open", "closed", "failed" }
       /\ chunks' \in Seq(O!Byte) /\ stored' \in Seq(O!Byte)
  <2>1. O!TotalLines \in Nat /\ O!TotalLines' \in Nat /\ O!TotalLines <= O!TotalLines'
    BY <1>1, <1>6, <1>8, LinesGrow
  <2>2. "open" \in { "open", "closed" } /\ ("open" = "closed" => finished') /\ ~ finished
    BY <1>3
  <2> QED
    BY <1>1, <1>2, <1>5, <1>6, <1>8, <2>1, <2>2, FileAgain
<1>13. O!TypeOK'
  <2>1. limit \in [ lines : LineLimits, bytes : ByteLimits ]
    BY <1>1 DEF O!TypeOK
  <2>2. { whole', open', finished' } \subseteq BOOLEAN
    BY <1>3, <1>5, <1>8
  <2> QED
    BY <1>5, <1>6, <1>8, <1>10, <1>12, <2>1, <2>2, Zenon DEF O!TypeOK
<1>14. O!TailIsEnd'
  BY <1>1, <1>3, <1>5, <1>6, <1>11, <1>13, TailAgain
<1> QED
  BY <1>7, <1>8, <1>9, <1>12, <1>13, <1>14, Zenon DEF O!OutputInv

\* finish keeps the invariant.
LEMMA FinishKeeps ==
  ASSUME O!OutputInv, O!Finish
  PROVE  O!OutputInv'
<1>1. /\ O!TypeOK /\ O!WholeChars /\ O!TextIsRead /\ O!LinesAreCounted
      /\ O!TailIsEnd /\ O!FileHolds
  BY Zenon DEF O!OutputInv
<1>2. PICK none : none = << >> /\ none \in Seq(O!Byte)
  BY LeadIs
<1>3. /\ text \in Seq(O!Byte) /\ output \in Seq(O!Byte) /\ incomplete \in Seq(O!Byte)
      /\ chunks \in Seq(O!Byte) /\ finished = FALSE
  <2>1. ~ finished
    BY DEF O!Finish
  <2> QED
    BY <1>1, <2>1, TextTypes DEF O!TypeOK
<1>4. PICK new : new = O!Decoded(incomplete, TRUE)[1]
  OBVIOUS
<1>5. /\ output' = output /\ O!Keep(new) /\ incomplete' = none
      /\ limit' = limit /\ finished' = TRUE
      /\ IF saved = "open" \/ O!UsesFile THEN O!SaveAs("closed", none)
         ELSE UNCHANGED << saved, stored, chunks >>
  BY <1>2, <1>4, Zenon DEF O!Finish
<1>6. output' = output \o none /\ chunks \o none = chunks
  BY <1>2, <1>3, <1>5, ConcatEmptySeq
<1>7. /\ << text \o new, none >> = O!Decoded(output, TRUE)
      /\ new = none \/ new = BadChar
      /\ text = output \/ (output # << >> /\ text = O!Front(output))
  <2>1. << text, incomplete >> = O!Decoded(output, FALSE)
    BY <1>1, <1>3, Zenon DEF O!TextIsRead
  <2>2. \A x : x = O!Decoded(incomplete, TRUE)[1] =>
          /\ << text \o x, << >> >> = O!Decoded(output, TRUE)
          /\ x = << >> \/ x = BadChar
          /\ text = output \/ (output # << >> /\ text = O!Front(output))
    BY <1>3, <2>1, DecodedAtLast, Zenon
  <2> QED
    BY <1>2, <1>4, <2>2, Zenon
<1>8. new \in Seq(O!Byte)
  <2>1. BadChar \in Seq(O!Byte)
    BY DEF BadChar, O!Byte
  <2> QED
    BY <1>2, <1>7, <2>1, Zenon
<1>9. O!WholeChars'
  BY <1>1, <1>5, Zenon DEF O!WholeChars
<1>10. /\ text' = text \o new /\ text' \in Seq(O!Byte) /\ kept' \in Seq(O!Byte)
       /\ whole' \in BOOLEAN /\ open' \in BOOLEAN /\ completed' \in Nat
       /\ O!LinesAreCounted'
  BY <1>1, <1>5, <1>8, KeepTypes
<1>11. O!TextIsRead'
  BY <1>5, <1>7, <1>10, Zenon DEF O!TextIsRead
<1>12. HalvesApart(text', finished')
  <2>1. \A i \in 1 .. Len(output) : output[i] = "tail" <=> i > 1 /\ output[i - 1] = "lead"
    BY <1>1, Zenon DEF O!WholeChars
  <2>2. /\ HalvesApart(text, TRUE)
        /\ \A i \in 1 .. Len(text) - 1 : ~(text[i] = "tail" /\ text[i + 1] = "tail")
    BY <1>3, <1>7, <2>1, BeginningApart
  <2>3. CASE new = none
    <3>1. text' = text
      BY <1>2, <1>3, <1>10, <2>3, ConcatEmptySeq
    <3> QED
      BY <1>5, <2>2, <3>1, Zenon
  <2>4. CASE new = BadChar
    <3>1. HalvesApart(text \o BadChar, TRUE)
      BY <1>3, <2>2, BadApart
    <3> QED
      BY <1>5, <1>10, <2>4, <3>1, Zenon
  <2> QED
    BY <1>7, <2>3, <2>4
<1>13. /\ O!FileHolds' /\ saved' \in { "none", "open", "closed", "failed" }
       /\ chunks' \in Seq(O!Byte) /\ stored' \in Seq(O!Byte)
  <2>1. O!TotalLines \in Nat /\ O!TotalLines' \in Nat /\ O!TotalLines <= O!TotalLines'
    BY <1>1, <1>8, <1>10, LinesGrow
  <2>2. "closed" \in { "open", "closed" } /\ finished' /\ ~ finished
    BY <1>3, <1>5
  <2>3. IF saved = "open" \/ O!UsesFile THEN O!SaveAs("closed", none)
        ELSE chunks' = chunks \o none /\ UNCHANGED << saved, stored >>
    BY <1>5, <1>6, Zenon
  <2> QED
    BY <1>1, <1>2, <1>5, <1>6, <1>8, <1>10, <2>1, <2>2, <2>3, FileAgain
<1>14. O!TypeOK'
  <2>1. limit \in [ lines : LineLimits, bytes : ByteLimits ]
    BY <1>1 DEF O!TypeOK
  <2>2. { whole', open', finished' } \subseteq BOOLEAN
    BY <1>5, <1>10
  <2> QED
    BY <1>2, <1>3, <1>5, <1>10, <1>13, <2>1, <2>2, Zenon DEF O!TypeOK
<1>15. O!TailIsEnd'
  BY <1>1, <1>3, <1>5, <1>8, <1>12, <1>14, TailAgain
<1> QED
  BY <1>9, <1>10, <1>11, <1>13, <1>14, <1>15, Zenon DEF O!OutputInv

\* The invariant holds of an accumulator that is new.
LEMMA OutputStarts ==
  ASSUME O!Init
  PROVE  O!OutputInv
<1> USE DEF O!Init
<1>1. << >> \in Seq(O!Byte) /\ Len(<< >>) = 0
  BY LeadIs
<1>2. O!TypeOK
  BY <1>1, Zenon DEF O!TypeOK
<1>3. O!WholeChars
  BY DEF O!WholeChars
<1>4. O!TextIsRead
  BY Zenon DEF O!TextIsRead, O!Decoded
<1>5. O!LinesAreCounted
  <2>1. O!LineEnds(text) = { }
    BY DEF O!LineEnds
  <2>2. Cardinality({ }) = 0
    BY FS_EmptySet
  <2> QED
    BY <2>1, <2>2, CountIsCardinality, Zenon DEF O!LinesAreCounted
<1>6. O!TailIsEnd
  <2>1. O!CutOff = 0
    BY DEF O!CutOff
  <2>2. O!From(text, 0 + 1) = << >>
    <3>1. 0 + 1 = 1
      OBVIOUS
    <3> QED
      BY <1>1, <3>1, FromFirst
  <2>3. 0 >= 0 /\ ~(0 > 0)
    OBVIOUS
  <2> QED
    BY <2>1, <2>2, <2>3, Zenon DEF O!TailIsEnd
<1>7. O!FileHolds
  <2>1. O!TotalLines = 0 + 0
    BY DEF O!TotalLines
  <2>2. limit.bytes \in Nat /\ limit.lines \in Nat
    BY <1>2, LimitsAre
  <2>3. ~ O!Truncated
    BY <1>1, <2>1, <2>2 DEF O!Truncated
  <2>4. Len(output) <= limit.bytes
    BY <1>1, <2>2
  <2> QED
    BY <2>3, <2>4 DEF O!FileHolds
<1> QED
  BY <1>2, <1>3, <1>4, <1>5, <1>6, <1>7, Zenon DEF O!OutputInv

\* The invariant does not depend on the other parts.
LEMMA OutputRests ==
  ASSUME O!OutputInv, UNCHANGED outputVars
  PROVE  O!OutputInv'
<1> USE DEF outputVars
<1>1. O!TypeOK'
  BY DEF O!OutputInv, O!TypeOK
<1>2. O!WholeChars'
  BY Zenon DEF O!OutputInv, O!WholeChars
<1>3. O!TextIsRead'
  BY Zenon DEF O!OutputInv, O!TextIsRead
<1>4. O!LinesAreCounted'
  BY Zenon DEF O!OutputInv, O!LinesAreCounted
<1>5. O!TailIsEnd'
  BY DEF O!OutputInv, O!TailIsEnd, O!CutOff, O!Rolling
<1>6. O!FileHolds'
  BY DEF O!OutputInv, O!FileHolds, O!Truncated, O!TotalLines
<1> QED
  BY <1>1, <1>2, <1>3, <1>4, <1>5, <1>6, Zenon DEF O!OutputInv

\* Every step of the accumulator keeps the invariant.
LEMMA OutputStep ==
  ASSUME O!OutputInv, O!Next
  PROVE  O!OutputInv'
<1>1. CASE O!Finish
  BY <1>1, FinishKeeps
<1>2. ASSUME NEW n \in 1 .. MaxPiece,
             NEW data \in [ 1 .. n -> { "x", "nl", "lead", "tail" } ],
             \A i \in 1 .. n :
               (data[i] = "tail") =
                 (O!Last(<< "x" >> \o output \o SubSeq(data, 1, i - 1)) = "lead"),
             O!AppendData(data)
      PROVE  O!OutputInv'
  BY <1>2, AppendKeeps
<1> QED
  BY <1>1, <1>2, Zenon DEF O!Next

-----------------------------------------------------------------------------
(* The output and the changes together.                                    *)

\* What the inductive invariant says of the output holds always: what is kept
\* of the text is its end, with at least what is shown, the lines are counted
\* as they are, and the file, or what is held back, has all of the output.
THEOREM OutputInvHolds == ToolsSpec => []O!OutputInv
<1>1. ToolsInit => O!OutputInv
  BY OutputStarts DEF ToolsInit
<1>2. O!OutputInv /\ [ToolsNext]_toolsVars => O!OutputInv'
  <2> SUFFICES ASSUME O!OutputInv, [ToolsNext]_toolsVars
               PROVE  O!OutputInv'
    OBVIOUS
  <2>1. O!Next \/ UNCHANGED outputVars
    BY DEF ToolsNext, toolsVars
  <2> QED
    BY <2>1, OutputStep, OutputRests
<1> QED
  BY <1>1, <1>2, PTL DEF ToolsSpec

\* However the output of a command is cut into pieces and whatever becomes of
\* the file, the caller is shown the end of all of it and told rightly whether
\* that is all, and what is given as the whole is; and, unless a call came by
\* a link before there was a file, the changes of a file are in it, no edit is
\* decided on what has changed since, and who was told of success has written.
THEOREM NothingGetsLost == ToolsSpec => []NothingIsLost
<1>1. O!OutputInv => O!OutputIsTold
  BY OutputInvTells
<1>2. O!OutputIsTold /\ F!NoChangeLost => NothingIsLost
  BY DEF NothingIsLost
<1> QED
  BY <1>1, <1>2, OutputInvHolds, ChangesAreKept, PTL
=============================================================================
