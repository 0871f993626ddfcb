--------------------------- MODULE SessionsProofs ---------------------------
(***************************************************************************)
(* Proofs about the parts of MCSessions, for any set of tasks, requests,   *)
(* sessions and runners.  A step of the whole is a step of one part, so    *)
(* that each part has its own inductive invariant, and the last theorems   *)
(* only say that the other parts leave it alone.                           *)
(***************************************************************************)
EXTENDS MCSessions, TLAPS

-----------------------------------------------------------------------------
(* The cache warmer.                                                       *)

LEMMA WarmerInit == C!Init => C!WarmerInv
  BY SessionsAssumption
  DEF C!Init, C!WarmerInv, C!TypeOK, C!RunIsNewestAndDriven, C!Runs,
      C!Numbers, C!Doings

\* A step of the warmer keeps its invariant.
LEMMA WarmerStep == C!WarmerInv /\ [C!Next]_warmerVars => C!WarmerInv'
<1> SUFFICES ASSUME C!WarmerInv, [C!Next]_warmerVars
             PROVE  C!WarmerInv'
  OBVIOUS
<1>0. MaxRequests \in Nat
  BY SessionsAssumption
<1> USE <1>0
    DEF C!WarmerInv, C!TypeOK, C!RunIsNewestAndDriven, C!Runs, C!Numbers,
        C!Doings, C!Go, C!Take, C!Keep, C!Stop
<1>1. ASSUME NEW r \in C!Numbers, C!Start(r)
      PROVE  C!WarmerInv'
  <2>1. C!TypeOK'
    BY <1>1 DEF C!Start, C!Overtaken
  <2>2. C!RunIsNewestAndDriven'
    BY <1>1 DEF C!Start, C!Overtaken
  <2>3. /\ latest' = latest \/ latest' > latest
        /\ outdated' \subseteq outdated \cup ({ latest } \ { 0 })
    BY <1>1 DEF C!Start, C!Overtaken
  <2>4. \A q \in outdated' : q <= latest'
    BY <2>1, <2>3
  <2>5. QED
    BY <2>1, <2>2, <2>4
<1>2. ASSUME NEW r \in C!Numbers, C!Schedule(r) \/ C!Timer(r) \/ C!Refresh(r)
      PROVE  C!WarmerInv'
  <2>1. C!TypeOK'
    BY <1>2 DEF C!Schedule, C!Timer, C!Refresh
  <2>2. C!RunIsNewestAndDriven'
    BY <1>2 DEF C!Schedule, C!Timer, C!Refresh
  <2>3. /\ latest' = latest \/ latest' > latest
        /\ outdated' \subseteq outdated \cup ({ latest } \ { 0 })
    BY <1>2 DEF C!Schedule, C!Timer, C!Refresh
  <2>4. \A q \in outdated' : q <= latest'
    BY <2>1, <2>3
  <2>5. QED
    BY <2>1, <2>2, <2>4
<1>3. ASSUME NEW r \in C!Numbers, NEW from,
             NEW to \in { "decide", "replay", "commit" }, C!Validate(r, from, to)
      PROVE  C!WarmerInv'
  <2>1. C!TypeOK'
    BY <1>3 DEF C!Validate
  <2>2. C!RunIsNewestAndDriven'
    BY <1>3 DEF C!Validate
  <2>3. /\ latest' = latest \/ latest' > latest
        /\ outdated' \subseteq outdated \cup ({ latest } \ { 0 })
    BY <1>3 DEF C!Validate
  <2>4. \A q \in outdated' : q <= latest'
    BY <2>1, <2>3
  <2>5. QED
    BY <2>1, <2>2, <2>4
<1>4. ASSUME NEW r \in C!Numbers, C!Decide(r) \/ C!Replay(r) \/ C!Again(r)
      PROVE  C!WarmerInv'
  BY <1>4, ZenonT(60) DEF C!Decide, C!Replay, C!Again
<1>5. ASSUME NEW r \in C!Numbers, C!Commit(r)
      PROVE  C!WarmerInv'
  <2>1. C!TypeOK'
    BY <1>5, ZenonT(60) DEF C!Commit, C!ErrorPasses
  <2>2. C!RunIsNewestAndDriven'
    BY <1>5 DEF C!Commit, C!ErrorPasses
  <2>3. /\ latest' = latest \/ latest' > latest
        /\ outdated' \subseteq outdated \cup ({ latest } \ { 0 })
    BY <1>5 DEF C!Commit, C!ErrorPasses
  <2>4. \A q \in outdated' : q <= latest'
    BY <2>1, <2>3
  <2>5. QED
    BY <2>1, <2>2, <2>4
<1>6. ASSUME NEW r \in C!Numbers, C!StopDecided(r) \/ C!ContextChanges(r)
      PROVE  C!WarmerInv'
  <2>1. C!TypeOK'
    BY <1>6 DEF C!StopDecided, C!ContextChanges
  <2>2. C!RunIsNewestAndDriven'
    BY <1>6 DEF C!StopDecided, C!ContextChanges
  <2>3. /\ latest' = latest \/ latest' > latest
        /\ outdated' \subseteq outdated \cup ({ latest } \ { 0 })
    BY <1>6 DEF C!StopDecided, C!ContextChanges
  <2>4. \A q \in outdated' : q <= latest'
    BY <2>1, <2>3
  <2>5. QED
    BY <2>1, <2>2, <2>4
<1>7. CASE C!Settles \/ C!CancelWarming
  <2>1. C!TypeOK'
    BY <1>7 DEF C!Settles, C!CancelWarming, C!Decides
  <2>2. C!RunIsNewestAndDriven'
    BY <1>7 DEF C!Settles, C!CancelWarming, C!Decides
  <2>3. /\ latest' = latest \/ latest' > latest
        /\ outdated' \subseteq outdated \cup ({ latest } \ { 0 })
    BY <1>7 DEF C!Settles, C!CancelWarming, C!Decides
  <2>4. \A q \in outdated' : q <= latest'
    BY <2>1, <2>3
  <2>5. QED
    BY <2>1, <2>2, <2>4
<1>8. ASSUME NEW m \in { "off", "streaming", "idle" }, C!ModeChanges(m)
      PROVE  C!WarmerInv'
  BY <1>8 DEF C!ModeChanges, C!Decides
<1>9. CASE UNCHANGED warmerVars
  BY <1>9 DEF warmerVars
<1>10. QED
  BY <1>1, <1>2, <1>3, <1>4, <1>5, <1>6, <1>7, <1>8, <1>9
  DEF C!Next, C!TaskStep, C!Check, C!Decided, C!Replied

\* For any number of requests, in whatever order the calls that start their
\* runs, their timers, answers and stops come: the run there is belongs to the
\* newest request, is not cancelled and has a task that drives it.
THEOREM NewestRunIsDriven == Spec => []RunIsNewestAndDriven
<1>1. Init => C!WarmerInv
  BY WarmerInit DEF Init
<1>2. C!WarmerInv /\ [Next]_vars => C!WarmerInv'
  BY WarmerStep DEF Next, vars, warmerVars
<1>3. C!WarmerInv => RunIsNewestAndDriven
  BY DEF C!WarmerInv, RunIsNewestAndDriven
<1>4. QED
  BY <1>1, <1>2, <1>3, PTL DEF Spec

-----------------------------------------------------------------------------
(* The host of a session.                                                  *)

\* Every session has a file, and it is known.
LEMMA FileOfSession == \A s \in H!Sessions : H!FileOf(s) \in H!Files
  BY SessionsAssumption DEF H!FileOf, H!Files, H!Sessions

LEMMA HostInit == H!Init => H!RuntimeInv
<1> SUFFICES ASSUME H!Init
             PROVE  H!RuntimeInv
  OBVIOUS
<1>1. H!FileOf(First) = First
  BY DEF H!FileOf
<1>2. QED
  BY <1>1, FileOfSession, SessionsAssumption
  DEF H!Init, H!RuntimeInv, H!TypeOK, H!Places, H!InTurn, H!Sessions,
      H!Live, H!Holds, H!Registered, H!Dispose, H!TurnsAreTaken,
      H!DisposalsStop, H!OldIsDown, H!OneSession, H!HoldersWork, H!ListensSoon

\* A step keeps every variable in its type.
LEMMA HostTypes == H!RuntimeInv /\ [H!Next]_hostVars => H!TypeOK'
<1> SUFFICES ASSUME H!TypeOK, H!OldIsDown, [H!Next]_hostVars
             PROVE  H!TypeOK'
  BY DEF H!RuntimeInv
<1> USE SessionsAssumption DEF H!TypeOK, H!Places, H!Sessions, H!hostVars, H!taskVars
<1>1. CASE H!PrepareDispose
  BY <1>1 DEF H!PrepareDispose, H!Stops, H!Registered
<1>2. CASE H!RequestCancel
  BY <1>2 DEF H!RequestCancel, H!Registered
<1>3. CASE H!CloseElsewhere
  BY <1>3 DEF H!CloseElsewhere, H!Starts
<1>4. ASSUME NEW s \in H!Sessions, H!Closed(s)
      PROVE  H!TypeOK'
  BY <1>4 DEF H!Closed, H!Released
<1>5. ASSUME NEW t \in Tasks, H!Ask(t)
      PROVE  H!TypeOK'
  BY <1>5 DEF H!Ask, H!Goes, H!MayGoOn
<1>6. ASSUME NEW t \in Tasks, H!AskDispose(t)
      PROVE  H!TypeOK'
  BY <1>6 DEF H!AskDispose, H!Goes, H!Stops, H!Registered
<1>7. ASSUME NEW t \in Tasks, H!LeaveQueue(t)
      PROVE  H!TypeOK'
  BY <1>7 DEF H!LeaveQueue, H!Leaves, H!Ends, H!Goes
<1>8. ASSUME NEW t \in Tasks, H!Turn(t)
      PROVE  H!TypeOK'
  BY <1>8 DEF H!Turn, H!IsNext, H!Goes, H!MayGoOn
<1>9. ASSUME NEW t \in Tasks, H!Asked(t)
      PROVE  H!TypeOK'
  BY <1>9 DEF H!Asked, H!Ends, H!Goes
<1>10. ASSUME NEW t \in Tasks, H!Prepare(t)
      PROVE  H!TypeOK'
  BY <1>10 DEF H!Prepare, H!Ends, H!Goes, H!SameFile
<1>11. ASSUME NEW t \in Tasks, H!Tear(t)
      PROVE  H!TypeOK'
  BY <1>11 DEF H!Tear, H!Starts, H!Ends, H!Goes, H!Next1
<1>12. ASSUME NEW t \in Tasks, H!Torn(t)
      PROVE  H!TypeOK'
  BY <1>12 DEF H!Torn, H!TornDown, H!Ended, H!Ends, H!Goes, H!Released, H!Next1
<1>13. ASSUME NEW t \in Tasks, H!Reopen(t)
      PROVE  H!TypeOK'
  BY <1>13 DEF H!Reopen, H!Ends, H!Goes
<1>14. ASSUME NEW t \in Tasks, H!Create(t)
      PROVE  H!TypeOK'
  BY <1>14 DEF H!Create, H!Goes, H!Ends, H!Released
<1>15. ASSUME NEW t \in Tasks, H!Drop(t)
      PROVE  H!TypeOK'
  BY <1>15 DEF H!Drop, H!Dropped, H!Ends, H!Goes, H!DroppedTarget, H!Released
<1>16. ASSUME NEW t \in Tasks, H!NotTold(t)
      PROVE  H!TypeOK'
  BY <1>16 DEF H!NotTold, H!Ends, H!Goes
<1>17. ASSUME NEW t \in Tasks, H!Unbind(t)
      PROVE  H!TypeOK'
  BY <1>17 DEF H!Unbind, H!Goes
<1>18. ASSUME NEW t \in Tasks, H!Bind(t)
      PROVE  H!TypeOK'
  BY <1>18 DEF H!Bind, H!Ends, H!Goes, H!Current, H!Ended
<1>19. CASE UNCHANGED hostVars
  BY <1>19 DEF hostVars
<1>20. QED
  BY <1>1, <1>2, <1>3, <1>4, <1>5, <1>6, <1>7, <1>8, <1>9, <1>10, <1>11, <1>12, <1>13, <1>14, <1>15, <1>16, <1>17, <1>18, <1>19
  DEF H!Next, H!Moves

\* A step keeps the invariant of the host.
LEMMA HostStep == H!RuntimeInv /\ [H!Next]_hostVars => H!RuntimeInv'
<1> SUFFICES ASSUME H!RuntimeInv, [H!Next]_hostVars
             PROVE  H!RuntimeInv'
  OBVIOUS
<1>0. H!TypeOK'
  BY HostTypes
<1> USE <1>0, SessionsAssumption, FileOfSession
    DEF H!RuntimeInv, H!TypeOK, H!Places, H!InTurn, H!Sessions, H!Live, H!Dispose,
      H!hostVars, H!taskVars
<1>1. CASE H!PrepareDispose
  <2>1. H!TurnsAreTaken'
    BY <1>1 DEF H!PrepareDispose, H!Stops, H!TurnsAreTaken, H!DisposalsStop, H!OldIsDown, H!OneSession, H!HoldersWork, H!ListensSoon, H!Registered
  <2>2. H!DisposalsStop'
    BY <1>1 DEF H!PrepareDispose, H!Stops, H!TurnsAreTaken, H!DisposalsStop, H!OldIsDown, H!OneSession, H!HoldersWork, H!ListensSoon, H!Registered
  <2>3. H!OldIsDown'
    BY <1>1 DEF H!PrepareDispose, H!Stops, H!TurnsAreTaken, H!DisposalsStop, H!OldIsDown, H!OneSession, H!HoldersWork, H!ListensSoon, H!Holds, H!Registered
  <2>4. H!OneSession'
    BY <1>1 DEF H!PrepareDispose, H!Stops, H!TurnsAreTaken, H!DisposalsStop, H!OldIsDown, H!OneSession, H!HoldersWork, H!ListensSoon, H!Registered
  <2>5. H!HoldersWork'
    BY <1>1 DEF H!PrepareDispose, H!Stops, H!TurnsAreTaken, H!DisposalsStop, H!OldIsDown, H!OneSession, H!HoldersWork, H!ListensSoon, H!Registered, H!Holds
  <2>6. H!ListensSoon'
    BY <1>1 DEF H!PrepareDispose, H!Stops, H!TurnsAreTaken, H!DisposalsStop, H!OldIsDown, H!OneSession, H!HoldersWork, H!ListensSoon, H!Registered
  <2>7. (host.is = "active" => hosted[host.session] # "none")'
    BY <1>1 DEF H!PrepareDispose, H!Stops, H!Registered
  <2>8. QED
    BY <2>1, <2>2, <2>3, <2>4, <2>5, <2>6, <2>7
<1>2. CASE H!RequestCancel
  <2>1. H!TurnsAreTaken'
    BY <1>2 DEF H!RequestCancel, H!TurnsAreTaken, H!DisposalsStop, H!OldIsDown, H!OneSession, H!HoldersWork, H!ListensSoon, H!Registered
  <2>2. H!DisposalsStop'
    BY <1>2 DEF H!RequestCancel, H!TurnsAreTaken, H!DisposalsStop, H!OldIsDown, H!OneSession, H!HoldersWork, H!ListensSoon, H!Registered
  <2>3. H!OldIsDown'
    BY <1>2 DEF H!RequestCancel, H!TurnsAreTaken, H!DisposalsStop, H!OldIsDown, H!OneSession, H!HoldersWork, H!ListensSoon, H!Holds, H!Registered
  <2>4. H!OneSession'
    BY <1>2 DEF H!RequestCancel, H!TurnsAreTaken, H!DisposalsStop, H!OldIsDown, H!OneSession, H!HoldersWork, H!ListensSoon, H!Registered
  <2>5. H!HoldersWork'
    BY <1>2 DEF H!RequestCancel, H!TurnsAreTaken, H!DisposalsStop, H!OldIsDown, H!OneSession, H!HoldersWork, H!ListensSoon, H!Registered, H!Holds
  <2>6. H!ListensSoon'
    BY <1>2 DEF H!RequestCancel, H!TurnsAreTaken, H!DisposalsStop, H!OldIsDown, H!OneSession, H!HoldersWork, H!ListensSoon, H!Registered
  <2>7. (host.is = "active" => hosted[host.session] # "none")'
    BY <1>2 DEF H!RequestCancel, H!Registered
  <2>8. QED
    BY <2>1, <2>2, <2>3, <2>4, <2>5, <2>6, <2>7
<1>3. CASE H!CloseElsewhere
  <2>1. H!TurnsAreTaken'
    BY <1>3 DEF H!CloseElsewhere, H!Starts, H!TurnsAreTaken, H!DisposalsStop, H!OldIsDown, H!OneSession, H!HoldersWork, H!ListensSoon
  <2>2. H!DisposalsStop'
    BY <1>3 DEF H!CloseElsewhere, H!Starts, H!TurnsAreTaken, H!DisposalsStop, H!OldIsDown, H!OneSession, H!HoldersWork, H!ListensSoon, H!Registered
  <2>3. H!OldIsDown'
    BY <1>3 DEF H!CloseElsewhere, H!Starts, H!TurnsAreTaken, H!DisposalsStop, H!OldIsDown, H!OneSession, H!HoldersWork, H!ListensSoon, H!Holds
  <2>4. H!OneSession'
    BY <1>3 DEF H!CloseElsewhere, H!Starts, H!TurnsAreTaken, H!DisposalsStop, H!OldIsDown, H!OneSession, H!HoldersWork, H!ListensSoon
  <2>5. H!HoldersWork'
    BY <1>3 DEF H!CloseElsewhere, H!Starts, H!TurnsAreTaken, H!DisposalsStop, H!OldIsDown, H!OneSession, H!HoldersWork, H!ListensSoon, H!Holds
  <2>6. H!ListensSoon'
    BY <1>3 DEF H!CloseElsewhere, H!Starts, H!TurnsAreTaken, H!DisposalsStop, H!OldIsDown, H!OneSession, H!HoldersWork, H!ListensSoon
  <2>7. (host.is = "active" => hosted[host.session] # "none")'
    BY <1>3 DEF H!CloseElsewhere, H!Starts, H!Registered
  <2>8. QED
    BY <2>1, <2>2, <2>3, <2>4, <2>5, <2>6, <2>7
<1>4. ASSUME NEW s \in H!Sessions, H!Closed(s)
      PROVE  H!RuntimeInv'
  <2>1. H!TurnsAreTaken'
    BY <1>4 DEF H!Closed, H!Released, H!TurnsAreTaken, H!DisposalsStop, H!OldIsDown, H!OneSession, H!HoldersWork, H!ListensSoon
  <2>2. H!DisposalsStop'
    BY <1>4 DEF H!Closed, H!Released, H!TurnsAreTaken, H!DisposalsStop, H!OldIsDown, H!OneSession, H!HoldersWork, H!ListensSoon, H!Registered
  <2>3. H!OldIsDown'
    BY <1>4 DEF H!Closed, H!Released, H!TurnsAreTaken, H!DisposalsStop, H!OldIsDown, H!OneSession, H!HoldersWork, H!ListensSoon, H!Holds
  <2>4. H!OneSession'
    BY <1>4 DEF H!Closed, H!Released, H!TurnsAreTaken, H!DisposalsStop, H!OldIsDown, H!OneSession, H!HoldersWork, H!ListensSoon
  <2>5. H!HoldersWork'
    BY <1>4 DEF H!Closed, H!Released, H!TurnsAreTaken, H!DisposalsStop, H!OldIsDown, H!OneSession, H!HoldersWork, H!ListensSoon, H!Holds
  <2>6. H!ListensSoon'
    BY <1>4 DEF H!Closed, H!Released, H!TurnsAreTaken, H!DisposalsStop, H!OldIsDown, H!OneSession, H!HoldersWork, H!ListensSoon
  <2>7. (host.is = "active" => hosted[host.session] # "none")'
    BY <1>4 DEF H!Closed, H!Released, H!Registered
  <2>8. QED
    BY <2>1, <2>2, <2>3, <2>4, <2>5, <2>6, <2>7
<1>5. ASSUME NEW t \in Tasks, H!Ask(t)
      PROVE  H!RuntimeInv'
  <2>1. H!TurnsAreTaken'
    BY <1>5 DEF H!Ask, H!Goes, H!MayGoOn, H!TurnsAreTaken, H!DisposalsStop, H!OldIsDown, H!OneSession, H!HoldersWork, H!ListensSoon
  <2>2. H!DisposalsStop'
    BY <1>5 DEF H!Ask, H!Goes, H!MayGoOn, H!TurnsAreTaken, H!DisposalsStop, H!OldIsDown, H!OneSession, H!HoldersWork, H!ListensSoon, H!Registered
  <2>3. H!OldIsDown'
    BY <1>5 DEF H!Ask, H!Goes, H!MayGoOn, H!TurnsAreTaken, H!DisposalsStop, H!OldIsDown, H!OneSession, H!HoldersWork, H!ListensSoon, H!Holds
  <2>4. H!OneSession'
    BY <1>5 DEF H!Ask, H!Goes, H!MayGoOn, H!TurnsAreTaken, H!DisposalsStop, H!OldIsDown, H!OneSession, H!HoldersWork, H!ListensSoon
  <2>5. H!HoldersWork'
    BY <1>5 DEF H!Ask, H!Goes, H!MayGoOn, H!TurnsAreTaken, H!DisposalsStop, H!OldIsDown, H!OneSession, H!HoldersWork, H!ListensSoon, H!Holds
  <2>6. H!ListensSoon'
    BY <1>5 DEF H!Ask, H!Goes, H!MayGoOn, H!TurnsAreTaken, H!DisposalsStop, H!OldIsDown, H!OneSession, H!HoldersWork, H!ListensSoon
  <2>7. (host.is = "active" => hosted[host.session] # "none")'
    BY <1>5 DEF H!Ask, H!Goes, H!MayGoOn, H!Registered
  <2>8. QED
    BY <2>1, <2>2, <2>3, <2>4, <2>5, <2>6, <2>7
<1>6. ASSUME NEW t \in Tasks, H!AskDispose(t)
      PROVE  H!RuntimeInv'
  <2>1. H!TurnsAreTaken'
    BY <1>6 DEF H!AskDispose, H!Goes, H!Stops, H!TurnsAreTaken, H!DisposalsStop, H!OldIsDown, H!OneSession, H!HoldersWork, H!ListensSoon, H!Registered
  <2>2. H!DisposalsStop'
    BY <1>6 DEF H!AskDispose, H!Goes, H!Stops, H!TurnsAreTaken, H!DisposalsStop, H!OldIsDown, H!OneSession, H!HoldersWork, H!ListensSoon, H!Registered
  <2>3. H!OldIsDown'
    BY <1>6 DEF H!AskDispose, H!Goes, H!Stops, H!TurnsAreTaken, H!DisposalsStop, H!OldIsDown, H!OneSession, H!HoldersWork, H!ListensSoon, H!Holds, H!Registered
  <2>4. H!OneSession'
    BY <1>6 DEF H!AskDispose, H!Goes, H!Stops, H!TurnsAreTaken, H!DisposalsStop, H!OldIsDown, H!OneSession, H!HoldersWork, H!ListensSoon, H!Registered
  <2>5. H!HoldersWork'
    BY <1>6 DEF H!AskDispose, H!Goes, H!Stops, H!TurnsAreTaken, H!DisposalsStop, H!OldIsDown, H!OneSession, H!HoldersWork, H!ListensSoon, H!Registered, H!Holds
  <2>6. H!ListensSoon'
    BY <1>6 DEF H!AskDispose, H!Goes, H!Stops, H!TurnsAreTaken, H!DisposalsStop, H!OldIsDown, H!OneSession, H!HoldersWork, H!ListensSoon, H!Registered
  <2>7. (host.is = "active" => hosted[host.session] # "none")'
    BY <1>6 DEF H!AskDispose, H!Goes, H!Stops, H!Registered
  <2>8. QED
    BY <2>1, <2>2, <2>3, <2>4, <2>5, <2>6, <2>7
<1>7. ASSUME NEW t \in Tasks, H!LeaveQueue(t)
      PROVE  H!RuntimeInv'
  <2>1. H!TurnsAreTaken'
    BY <1>7 DEF H!LeaveQueue, H!Leaves, H!Ends, H!Goes, H!TurnsAreTaken, H!DisposalsStop, H!OldIsDown, H!OneSession, H!HoldersWork, H!ListensSoon
  <2>2. H!DisposalsStop'
    BY <1>7 DEF H!LeaveQueue, H!Leaves, H!Ends, H!Goes, H!TurnsAreTaken, H!DisposalsStop, H!OldIsDown, H!OneSession, H!HoldersWork, H!ListensSoon, H!Registered
  <2>3. H!OldIsDown'
    BY <1>7 DEF H!LeaveQueue, H!Leaves, H!Ends, H!Goes, H!TurnsAreTaken, H!DisposalsStop, H!OldIsDown, H!OneSession, H!HoldersWork, H!ListensSoon, H!Holds
  <2>4. H!OneSession'
    BY <1>7 DEF H!LeaveQueue, H!Leaves, H!Ends, H!Goes, H!TurnsAreTaken, H!DisposalsStop, H!OldIsDown, H!OneSession, H!HoldersWork, H!ListensSoon
  <2>5. H!HoldersWork'
    BY <1>7 DEF H!LeaveQueue, H!Leaves, H!Ends, H!Goes, H!TurnsAreTaken, H!DisposalsStop, H!OldIsDown, H!OneSession, H!HoldersWork, H!ListensSoon, H!Holds
  <2>6. H!ListensSoon'
    BY <1>7 DEF H!LeaveQueue, H!Leaves, H!Ends, H!Goes, H!TurnsAreTaken, H!DisposalsStop, H!OldIsDown, H!OneSession, H!HoldersWork, H!ListensSoon
  <2>7. (host.is = "active" => hosted[host.session] # "none")'
    BY <1>7 DEF H!LeaveQueue, H!Leaves, H!Ends, H!Goes, H!Registered
  <2>8. QED
    BY <2>1, <2>2, <2>3, <2>4, <2>5, <2>6, <2>7
<1>8. ASSUME NEW t \in Tasks, H!Turn(t)
      PROVE  H!RuntimeInv'
  <2>1. H!TurnsAreTaken'
    BY <1>8 DEF H!Turn, H!IsNext, H!Goes, H!MayGoOn, H!TurnsAreTaken, H!DisposalsStop, H!OldIsDown, H!OneSession, H!HoldersWork, H!ListensSoon
  <2>2. H!DisposalsStop'
    BY <1>8 DEF H!Turn, H!IsNext, H!Goes, H!MayGoOn, H!TurnsAreTaken, H!DisposalsStop, H!OldIsDown, H!OneSession, H!HoldersWork, H!ListensSoon, H!Registered
  <2>3. H!OldIsDown'
    BY <1>8 DEF H!Turn, H!IsNext, H!Goes, H!MayGoOn, H!TurnsAreTaken, H!DisposalsStop, H!OldIsDown, H!OneSession, H!HoldersWork, H!ListensSoon, H!Holds
  <2>4. H!OneSession'
    BY <1>8 DEF H!Turn, H!IsNext, H!Goes, H!MayGoOn, H!TurnsAreTaken, H!DisposalsStop, H!OldIsDown, H!OneSession, H!HoldersWork, H!ListensSoon
  <2>5. H!HoldersWork'
    BY <1>8 DEF H!Turn, H!IsNext, H!Goes, H!MayGoOn, H!TurnsAreTaken, H!DisposalsStop, H!OldIsDown, H!OneSession, H!HoldersWork, H!ListensSoon, H!Holds
  <2>6. H!ListensSoon'
    BY <1>8 DEF H!Turn, H!IsNext, H!Goes, H!MayGoOn, H!TurnsAreTaken, H!DisposalsStop, H!OldIsDown, H!OneSession, H!HoldersWork, H!ListensSoon
  <2>7. (host.is = "active" => hosted[host.session] # "none")'
    BY <1>8 DEF H!Turn, H!IsNext, H!Goes, H!MayGoOn, H!Registered
  <2>8. QED
    BY <2>1, <2>2, <2>3, <2>4, <2>5, <2>6, <2>7
<1>9. ASSUME NEW t \in Tasks, H!Asked(t)
      PROVE  H!RuntimeInv'
  <2>1. H!TurnsAreTaken'
    BY <1>9 DEF H!Asked, H!Ends, H!Goes, H!TurnsAreTaken, H!DisposalsStop, H!OldIsDown, H!OneSession, H!HoldersWork, H!ListensSoon
  <2>2. H!DisposalsStop'
    BY <1>9 DEF H!Asked, H!Ends, H!Goes, H!TurnsAreTaken, H!DisposalsStop, H!OldIsDown, H!OneSession, H!HoldersWork, H!ListensSoon, H!Registered
  <2>3. H!OldIsDown'
    BY <1>9 DEF H!Asked, H!Ends, H!Goes, H!TurnsAreTaken, H!DisposalsStop, H!OldIsDown, H!OneSession, H!HoldersWork, H!ListensSoon, H!Holds
  <2>4. H!OneSession'
    BY <1>9 DEF H!Asked, H!Ends, H!Goes, H!TurnsAreTaken, H!DisposalsStop, H!OldIsDown, H!OneSession, H!HoldersWork, H!ListensSoon
  <2>5. H!HoldersWork'
    BY <1>9 DEF H!Asked, H!Ends, H!Goes, H!TurnsAreTaken, H!DisposalsStop, H!OldIsDown, H!OneSession, H!HoldersWork, H!ListensSoon, H!Holds
  <2>6. H!ListensSoon'
    BY <1>9 DEF H!Asked, H!Ends, H!Goes, H!TurnsAreTaken, H!DisposalsStop, H!OldIsDown, H!OneSession, H!HoldersWork, H!ListensSoon
  <2>7. (host.is = "active" => hosted[host.session] # "none")'
    BY <1>9 DEF H!Asked, H!Ends, H!Goes, H!Registered
  <2>8. QED
    BY <2>1, <2>2, <2>3, <2>4, <2>5, <2>6, <2>7
<1>10. ASSUME NEW t \in Tasks, H!Prepare(t)
      PROVE  H!RuntimeInv'
  <2>1. H!TurnsAreTaken'
    BY <1>10 DEF H!Prepare, H!Ends, H!Goes, H!SameFile, H!TurnsAreTaken, H!DisposalsStop, H!OldIsDown, H!OneSession, H!HoldersWork, H!ListensSoon
  <2>2. H!DisposalsStop'
    BY <1>10 DEF H!Prepare, H!Ends, H!Goes, H!SameFile, H!TurnsAreTaken, H!DisposalsStop, H!OldIsDown, H!OneSession, H!HoldersWork, H!ListensSoon, H!Registered
  <2>3. H!OldIsDown'
    BY <1>10 DEF H!Prepare, H!Ends, H!Goes, H!SameFile, H!TurnsAreTaken, H!DisposalsStop, H!OldIsDown, H!OneSession, H!HoldersWork, H!ListensSoon, H!Holds
  <2>4. H!OneSession'
    BY <1>10 DEF H!Prepare, H!Ends, H!Goes, H!SameFile, H!TurnsAreTaken, H!DisposalsStop, H!OldIsDown, H!OneSession, H!HoldersWork, H!ListensSoon
  <2>5. H!HoldersWork'
    BY <1>10 DEF H!Prepare, H!Ends, H!Goes, H!SameFile, H!TurnsAreTaken, H!DisposalsStop, H!OldIsDown, H!OneSession, H!HoldersWork, H!ListensSoon, H!Holds
  <2>6. H!ListensSoon'
    BY <1>10 DEF H!Prepare, H!Ends, H!Goes, H!SameFile, H!TurnsAreTaken, H!DisposalsStop, H!OldIsDown, H!OneSession, H!HoldersWork, H!ListensSoon
  <2>7. (host.is = "active" => hosted[host.session] # "none")'
    BY <1>10 DEF H!Prepare, H!Ends, H!Goes, H!SameFile, H!Registered
  <2>8. QED
    BY <2>1, <2>2, <2>3, <2>4, <2>5, <2>6, <2>7
<1>11. ASSUME NEW t \in Tasks, H!Tear(t)
      PROVE  H!RuntimeInv'
  <2>1. H!TurnsAreTaken'
    BY <1>11 DEF H!Tear, H!Starts, H!Ends, H!Goes, H!Next1, H!TurnsAreTaken, H!DisposalsStop, H!OldIsDown, H!OneSession, H!HoldersWork, H!ListensSoon, H!Holds
  <2>2. H!DisposalsStop'
    BY <1>11 DEF H!Tear, H!Starts, H!Ends, H!Goes, H!Next1, H!TurnsAreTaken, H!DisposalsStop, H!OldIsDown, H!OneSession, H!HoldersWork, H!ListensSoon, H!Registered, H!Holds
  <2>3. H!OldIsDown'
    BY <1>11 DEF H!Tear, H!Starts, H!Ends, H!Goes, H!Next1, H!TurnsAreTaken, H!DisposalsStop, H!OldIsDown, H!OneSession, H!HoldersWork, H!ListensSoon, H!Holds
  <2>4. H!OneSession'
    BY <1>11 DEF H!Tear, H!Starts, H!Ends, H!Goes, H!Next1, H!TurnsAreTaken, H!DisposalsStop, H!OldIsDown, H!OneSession, H!HoldersWork, H!ListensSoon, H!Holds
  <2>5. H!HoldersWork'
    BY <1>11 DEF H!Tear, H!Starts, H!Ends, H!Goes, H!Next1, H!TurnsAreTaken, H!DisposalsStop, H!OldIsDown, H!OneSession, H!HoldersWork, H!ListensSoon, H!Holds
  <2>6. H!ListensSoon'
    BY <1>11 DEF H!Tear, H!Starts, H!Ends, H!Goes, H!Next1, H!TurnsAreTaken, H!DisposalsStop, H!OldIsDown, H!OneSession, H!HoldersWork, H!ListensSoon, H!Holds
  <2>7. (host.is = "active" => hosted[host.session] # "none")'
    BY <1>11 DEF H!Tear, H!Starts, H!Ends, H!Goes, H!Next1, H!Registered
  <2>8. QED
    BY <2>1, <2>2, <2>3, <2>4, <2>5, <2>6, <2>7
<1>12. ASSUME NEW t \in Tasks, H!Torn(t)
      PROVE  H!RuntimeInv'
  <2>1. H!TurnsAreTaken'
    BY <1>12 DEF H!Torn, H!TornDown, H!Ended, H!Ends, H!Goes, H!Released, H!Next1, H!TurnsAreTaken, H!DisposalsStop, H!OldIsDown, H!OneSession, H!HoldersWork, H!ListensSoon, H!Holds
  <2>2. H!DisposalsStop'
    BY <1>12 DEF H!Torn, H!TornDown, H!Ended, H!Ends, H!Goes, H!Released, H!Next1, H!TurnsAreTaken, H!DisposalsStop, H!OldIsDown, H!OneSession, H!HoldersWork, H!ListensSoon, H!Registered, H!Holds
  <2>3. H!OldIsDown'
    BY <1>12 DEF H!Torn, H!TornDown, H!Ended, H!Ends, H!Goes, H!Released, H!Next1, H!TurnsAreTaken, H!DisposalsStop, H!OldIsDown, H!OneSession, H!HoldersWork, H!ListensSoon, H!Holds
  <2>4. H!OneSession'
    BY <1>12 DEF H!Torn, H!TornDown, H!Ended, H!Ends, H!Goes, H!Released, H!Next1, H!TurnsAreTaken, H!DisposalsStop, H!OldIsDown, H!OneSession, H!HoldersWork, H!ListensSoon, H!Holds
  <2>5. H!HoldersWork'
    BY <1>12 DEF H!Torn, H!TornDown, H!Ended, H!Ends, H!Goes, H!Released, H!Next1, H!TurnsAreTaken, H!DisposalsStop, H!OldIsDown, H!OneSession, H!HoldersWork, H!ListensSoon, H!Holds
  <2>6. H!ListensSoon'
    BY <1>12 DEF H!Torn, H!TornDown, H!Ended, H!Ends, H!Goes, H!Released, H!Next1, H!TurnsAreTaken, H!DisposalsStop, H!OldIsDown, H!OneSession, H!HoldersWork, H!ListensSoon, H!Holds
  <2>7. (host.is = "active" => hosted[host.session] # "none")'
    BY <1>12 DEF H!Torn, H!TornDown, H!Ended, H!Ends, H!Goes, H!Released, H!Next1, H!Registered
  <2>8. QED
    BY <2>1, <2>2, <2>3, <2>4, <2>5, <2>6, <2>7
<1>13. ASSUME NEW t \in Tasks, H!Reopen(t)
      PROVE  H!RuntimeInv'
  <2>1. H!TurnsAreTaken'
    BY <1>13 DEF H!Reopen, H!Ends, H!Goes, H!TurnsAreTaken, H!DisposalsStop, H!OldIsDown, H!OneSession, H!HoldersWork, H!ListensSoon
  <2>2. H!DisposalsStop'
    BY <1>13 DEF H!Reopen, H!Ends, H!Goes, H!TurnsAreTaken, H!DisposalsStop, H!OldIsDown, H!OneSession, H!HoldersWork, H!ListensSoon, H!Registered
  <2>3. H!OldIsDown'
    BY <1>13 DEF H!Reopen, H!Ends, H!Goes, H!TurnsAreTaken, H!DisposalsStop, H!OldIsDown, H!OneSession, H!HoldersWork, H!ListensSoon, H!Holds
  <2>4. H!OneSession'
    BY <1>13 DEF H!Reopen, H!Ends, H!Goes, H!TurnsAreTaken, H!DisposalsStop, H!OldIsDown, H!OneSession, H!HoldersWork, H!ListensSoon
  <2>5. H!HoldersWork'
    BY <1>13 DEF H!Reopen, H!Ends, H!Goes, H!TurnsAreTaken, H!DisposalsStop, H!OldIsDown, H!OneSession, H!HoldersWork, H!ListensSoon, H!Holds
  <2>6. H!ListensSoon'
    BY <1>13 DEF H!Reopen, H!Ends, H!Goes, H!TurnsAreTaken, H!DisposalsStop, H!OldIsDown, H!OneSession, H!HoldersWork, H!ListensSoon
  <2>7. (host.is = "active" => hosted[host.session] # "none")'
    BY <1>13 DEF H!Reopen, H!Ends, H!Goes, H!Registered
  <2>8. QED
    BY <2>1, <2>2, <2>3, <2>4, <2>5, <2>6, <2>7
<1>14. ASSUME NEW t \in Tasks, H!Create(t)
      PROVE  H!RuntimeInv'
  <2>0. \A s \in H!Sessions : hosted[s] \notin { "open", "closing" }
    BY <1>14 DEF H!Create, H!OldIsDown, H!OneSession
  <2>1. H!TurnsAreTaken'
    BY <1>14 DEF H!Create, H!Goes, H!Ends, H!Released, H!TurnsAreTaken, H!DisposalsStop, H!OldIsDown, H!OneSession, H!HoldersWork, H!ListensSoon
  <2>2. H!DisposalsStop'
    BY <1>14 DEF H!Create, H!Goes, H!Ends, H!Released, H!TurnsAreTaken, H!DisposalsStop, H!OldIsDown, H!OneSession, H!HoldersWork, H!ListensSoon, H!Registered
  <2>3. H!OldIsDown'
    BY <1>14 DEF H!Create, H!Goes, H!Ends, H!Released, H!TurnsAreTaken, H!DisposalsStop, H!OldIsDown, H!OneSession, H!HoldersWork, H!ListensSoon, H!Holds
  <2>4. H!OneSession'
    <3>1. CASE hosted' = [ hosted EXCEPT ![t] = "open" ] /\ held' = held
               /\ host' = [ is |-> "active", session |-> t ]
      BY <1>14, <2>0, <3>1 DEF H!Create, H!OldIsDown, H!OneSession, H!Holds
    <3>2. CASE hosted' = hosted
      BY <1>14, <2>0, <3>2 DEF H!OneSession
    <3>3. QED
      BY <1>14, <3>1, <3>2 DEF H!Create
  <2>5. H!HoldersWork'
    BY <1>14 DEF H!Create, H!Goes, H!Ends, H!Released, H!TurnsAreTaken, H!DisposalsStop, H!OldIsDown, H!OneSession, H!HoldersWork, H!ListensSoon, H!Holds
  <2>6. H!ListensSoon'
    BY <1>14 DEF H!Create, H!Goes, H!Ends, H!Released, H!TurnsAreTaken, H!DisposalsStop, H!OldIsDown, H!OneSession, H!HoldersWork, H!ListensSoon
  <2>7. (host.is = "active" => hosted[host.session] # "none")'
    BY <1>14 DEF H!Create, H!Goes, H!Ends, H!Released, H!Registered
  <2>8. QED
    BY <2>1, <2>2, <2>3, <2>4, <2>5, <2>6, <2>7
<1>15. ASSUME NEW t \in Tasks, H!Drop(t)
      PROVE  H!RuntimeInv'
  <2>1. H!TurnsAreTaken'
    BY <1>15 DEF H!Drop, H!Dropped, H!Ends, H!Goes, H!DroppedTarget, H!Released, H!TurnsAreTaken, H!DisposalsStop, H!OldIsDown, H!OneSession, H!HoldersWork, H!ListensSoon
  <2>2. H!DisposalsStop'
    BY <1>15 DEF H!Drop, H!Dropped, H!Ends, H!Goes, H!DroppedTarget, H!Released, H!TurnsAreTaken, H!DisposalsStop, H!OldIsDown, H!OneSession, H!HoldersWork, H!ListensSoon, H!Registered
  <2>3. H!OldIsDown'
    BY <1>15 DEF H!Drop, H!Dropped, H!Ends, H!Goes, H!DroppedTarget, H!Released, H!TurnsAreTaken, H!DisposalsStop, H!OldIsDown, H!OneSession, H!HoldersWork, H!ListensSoon, H!Holds
  <2>4. H!OneSession'
    BY <1>15 DEF H!Drop, H!Dropped, H!Ends, H!Goes, H!DroppedTarget, H!Released, H!TurnsAreTaken, H!DisposalsStop, H!OldIsDown, H!OneSession, H!HoldersWork, H!ListensSoon
  <2>5. H!HoldersWork'
    BY <1>15 DEF H!Drop, H!Dropped, H!Ends, H!Goes, H!DroppedTarget, H!Released, H!TurnsAreTaken, H!DisposalsStop, H!OldIsDown, H!OneSession, H!HoldersWork, H!ListensSoon, H!Holds
  <2>6. H!ListensSoon'
    BY <1>15 DEF H!Drop, H!Dropped, H!Ends, H!Goes, H!DroppedTarget, H!Released, H!TurnsAreTaken, H!DisposalsStop, H!OldIsDown, H!OneSession, H!HoldersWork, H!ListensSoon
  <2>7. (host.is = "active" => hosted[host.session] # "none")'
    BY <1>15 DEF H!Drop, H!Dropped, H!Ends, H!Goes, H!DroppedTarget, H!Released, H!Registered
  <2>8. QED
    BY <2>1, <2>2, <2>3, <2>4, <2>5, <2>6, <2>7
<1>16. ASSUME NEW t \in Tasks, H!NotTold(t)
      PROVE  H!RuntimeInv'
  <2>1. H!TurnsAreTaken'
    BY <1>16 DEF H!NotTold, H!Ends, H!Goes, H!TurnsAreTaken, H!DisposalsStop, H!OldIsDown, H!OneSession, H!HoldersWork, H!ListensSoon
  <2>2. H!DisposalsStop'
    BY <1>16 DEF H!NotTold, H!Ends, H!Goes, H!TurnsAreTaken, H!DisposalsStop, H!OldIsDown, H!OneSession, H!HoldersWork, H!ListensSoon, H!Registered
  <2>3. H!OldIsDown'
    BY <1>16 DEF H!NotTold, H!Ends, H!Goes, H!TurnsAreTaken, H!DisposalsStop, H!OldIsDown, H!OneSession, H!HoldersWork, H!ListensSoon, H!Holds
  <2>4. H!OneSession'
    BY <1>16 DEF H!NotTold, H!Ends, H!Goes, H!TurnsAreTaken, H!DisposalsStop, H!OldIsDown, H!OneSession, H!HoldersWork, H!ListensSoon
  <2>5. H!HoldersWork'
    BY <1>16 DEF H!NotTold, H!Ends, H!Goes, H!TurnsAreTaken, H!DisposalsStop, H!OldIsDown, H!OneSession, H!HoldersWork, H!ListensSoon, H!Holds
  <2>6. H!ListensSoon'
    BY <1>16 DEF H!NotTold, H!Ends, H!Goes, H!TurnsAreTaken, H!DisposalsStop, H!OldIsDown, H!OneSession, H!HoldersWork, H!ListensSoon
  <2>7. (host.is = "active" => hosted[host.session] # "none")'
    BY <1>16 DEF H!NotTold, H!Ends, H!Goes, H!Registered
  <2>8. QED
    BY <2>1, <2>2, <2>3, <2>4, <2>5, <2>6, <2>7
<1>17. ASSUME NEW t \in Tasks, H!Unbind(t)
      PROVE  H!RuntimeInv'
  <2>1. H!TurnsAreTaken'
    BY <1>17 DEF H!Unbind, H!Goes, H!TurnsAreTaken, H!DisposalsStop, H!OldIsDown, H!OneSession, H!HoldersWork, H!ListensSoon
  <2>2. H!DisposalsStop'
    BY <1>17 DEF H!Unbind, H!Goes, H!TurnsAreTaken, H!DisposalsStop, H!OldIsDown, H!OneSession, H!HoldersWork, H!ListensSoon, H!Registered
  <2>3. H!OldIsDown'
    BY <1>17 DEF H!Unbind, H!Goes, H!TurnsAreTaken, H!DisposalsStop, H!OldIsDown, H!OneSession, H!HoldersWork, H!ListensSoon, H!Holds
  <2>4. H!OneSession'
    BY <1>17 DEF H!Unbind, H!Goes, H!TurnsAreTaken, H!DisposalsStop, H!OldIsDown, H!OneSession, H!HoldersWork, H!ListensSoon
  <2>5. H!HoldersWork'
    BY <1>17 DEF H!Unbind, H!Goes, H!TurnsAreTaken, H!DisposalsStop, H!OldIsDown, H!OneSession, H!HoldersWork, H!ListensSoon, H!Holds
  <2>6. H!ListensSoon'
    BY <1>17 DEF H!Unbind, H!Goes, H!TurnsAreTaken, H!DisposalsStop, H!OldIsDown, H!OneSession, H!HoldersWork, H!ListensSoon
  <2>7. (host.is = "active" => hosted[host.session] # "none")'
    BY <1>17 DEF H!Unbind, H!Goes, H!Registered
  <2>8. QED
    BY <2>1, <2>2, <2>3, <2>4, <2>5, <2>6, <2>7
<1>18. ASSUME NEW t \in Tasks, H!Bind(t)
      PROVE  H!RuntimeInv'
  <2>1. H!TurnsAreTaken'
    BY <1>18 DEF H!Bind, H!Ends, H!Goes, H!Current, H!Ended, H!TurnsAreTaken, H!DisposalsStop, H!OldIsDown, H!OneSession, H!HoldersWork, H!ListensSoon
  <2>2. H!DisposalsStop'
    BY <1>18 DEF H!Bind, H!Ends, H!Goes, H!Current, H!Ended, H!TurnsAreTaken, H!DisposalsStop, H!OldIsDown, H!OneSession, H!HoldersWork, H!ListensSoon, H!Registered
  <2>3. H!OldIsDown'
    BY <1>18 DEF H!Bind, H!Ends, H!Goes, H!Current, H!Ended, H!TurnsAreTaken, H!DisposalsStop, H!OldIsDown, H!OneSession, H!HoldersWork, H!ListensSoon, H!Holds
  <2>4. H!OneSession'
    BY <1>18 DEF H!Bind, H!Ends, H!Goes, H!Current, H!Ended, H!TurnsAreTaken, H!DisposalsStop, H!OldIsDown, H!OneSession, H!HoldersWork, H!ListensSoon
  <2>5. H!HoldersWork'
    BY <1>18 DEF H!Bind, H!Ends, H!Goes, H!Current, H!Ended, H!TurnsAreTaken, H!DisposalsStop, H!OldIsDown, H!OneSession, H!HoldersWork, H!ListensSoon, H!Holds
  <2>6. H!ListensSoon'
    BY <1>18 DEF H!Bind, H!Ends, H!Goes, H!Current, H!Ended, H!TurnsAreTaken, H!DisposalsStop, H!OldIsDown, H!OneSession, H!HoldersWork, H!ListensSoon
  <2>7. (host.is = "active" => hosted[host.session] # "none")'
    BY <1>18 DEF H!Bind, H!Ends, H!Goes, H!Current, H!Ended, H!Registered
  <2>8. QED
    BY <2>1, <2>2, <2>3, <2>4, <2>5, <2>6, <2>7
<1>19. CASE UNCHANGED hostVars
  BY <1>19 DEF hostVars, H!TurnsAreTaken, H!DisposalsStop, H!OldIsDown, H!OneSession, H!HoldersWork, H!ListensSoon, H!Registered, H!Holds
<1>20. QED
  BY <1>1, <1>2, <1>3, <1>4, <1>5, <1>6, <1>7, <1>8, <1>9, <1>10, <1>11, <1>12, <1>13, <1>14, <1>15, <1>16, <1>17, <1>18, <1>19
  DEF H!Next, H!Moves

\* The disposal that waits is next, or the task before it can move or waits for
\* the old session to close.
LEMMA DisposalMoves == H!RuntimeInv => H!DisposalGoesOn
<1> SUFFICES ASSUME H!RuntimeInv,
                    NEW d \in Tasks, d \in H!Registered, H!Dispose(d)
             PROVE  \/ \E t \in Tasks : H!CanMove(t)
                    \/ \E s \in H!Sessions : hosted[s] = "closing"
  BY DEF H!DisposalGoesOn, H!Registered
<1> USE SessionsAssumption
    DEF H!RuntimeInv, H!TypeOK, H!TurnsAreTaken, H!DisposalsStop, H!OldIsDown,
        H!InTurn, H!Places, H!Registered
<1>1. disposing /\ taskPc[d] \in { "queues", "tears", "closes" }
  OBVIOUS
<1>2. CASE turn = Nobody
  <2>1. taskPc[d] = "queues"
    BY <1>1, <1>2
  <2>2. H!CanMove(d)
    BY <1>2, <2>1 DEF H!CanMove, H!IsNext
  <2>3. QED
    BY <2>2
<1>3. CASE turn # Nobody
  <2>1. turn \in Tasks /\ taskPc[turn] \in H!InTurn
    BY <1>3
  <2>2. CASE taskPc[turn] \in { "asks", "creates" }
    <3>1. turn \in tokens
      BY <1>1, <2>1, <2>2
    <3>2. QED
      BY <2>1, <2>2, <3>1 DEF H!CanMove, H!Dropped
  <2>3. CASE taskPc[turn] \in { "prepares", "tears", "reopens" }
    BY <2>1, <2>3 DEF H!CanMove
  <2>4. CASE taskPc[turn] = "closes"
    <3>1. /\ host.session \in H!Sessions
          /\ hosted[host.session] \in { "closing", "closed", "broken" }
      BY <2>1, <2>4
    <3>2. QED
      BY <2>1, <2>4, <3>1 DEF H!CanMove, H!TornDown, H!Ended
  <2>5. QED
    BY <2>1, <2>2, <2>3, <2>4
<1>4. QED
  BY <1>2, <1>3

\* For any set of replacements and disposals, whoever cancels, vetoes or fails:
\* one session at most is at work, the one in the slot, with its file; no file
\* stays locked for no one; the host listens to the session in the slot; and a
\* disposal is not kept waiting and is for good.
THEOREM OneIsServed == Spec => []RuntimeServesOne
<1>1. Init => H!RuntimeInv
  BY HostInit DEF Init
<1>2. H!RuntimeInv /\ [Next]_vars => H!RuntimeInv'
  BY HostStep DEF Next, vars, hostVars
<1>3. H!RuntimeInv => RuntimeServesOne
  <2> SUFFICES ASSUME H!RuntimeInv
               PROVE  H!RuntimeServesOne
    BY DEF RuntimeServesOne
  <2> USE SessionsAssumption DEF H!RuntimeInv
  <2>1. H!LocksHaveOwners
    BY DEF H!HoldersWork, H!TurnsAreTaken, H!InTurn, H!LocksHaveOwners
  <2>2. H!HostListens
    BY DEF H!ListensSoon, H!HostListens
  <2>3. H!DisposedForGood
    BY DEF H!HoldersWork, H!TurnsAreTaken, H!InTurn, H!OneSession, H!Live,
           H!DisposedForGood
  <2>4. QED
    BY <2>1, <2>2, <2>3, DisposalMoves DEF H!RuntimeServesOne
<1>4. QED
  BY <1>1, <1>2, <1>3, PTL DEF Spec

-----------------------------------------------------------------------------
(* The tools of an MCP server.                                             *)

LEMMA ServersInit == M!Init => M!ServersInv
  BY SessionsAssumption
  DEF M!Init, M!ServersInv, M!TypeOK, M!Runners, M!States, M!Works, M!Active,
      M!NotYet, M!OwnersCancel, M!StatesAreOwned, M!TasksFollow, M!Hears,
      M!NewestPublishes, M!ClientsAreClosed, M!Nothing

\* A step keeps every variable in its type.
LEMMA ServersTypes == M!ServersInv /\ [M!Next]_mcpVars => M!TypeOK'
<1> SUFFICES ASSUME M!ServersInv, [M!Next]_mcpVars
             PROVE  M!TypeOK'
  OBVIOUS
<1>0. /\ bounds' = bounds /\ bounds.states \in Nat /\ bounds.states <= MaxStates
      /\ MaxRunners \in Nat \ { 0 } /\ MaxStates \in Nat /\ bounds.versions \in Nat
  BY SessionsAssumption DEF M!Next, mcpVars, M!ServersInv, M!TypeOK
<1> USE <1>0
    DEF M!ServersInv, M!TypeOK, M!Runners, M!States, M!Works, M!Active,
      M!runnerVars, M!stateVars, M!taskVars, M!ownerVars
<1>1. CASE M!SessionStart
  <2>0. (made' = made /\ UNCHANGED owns) \/ (made + 1 \in M!States /\ M!Owns(runner, made + 1))
    BY <1>1 DEF M!SessionStart, M!Started, M!Stale, M!Start, M!Goes,
      M!OwnerIs, M!Owns
  <2>1. (bounds \in Bounds /\ runner \in M!Runners /\ made \in 0 .. bounds.states /\ current = made)'
    BY <1>1 DEF M!SessionStart, M!Started, M!Stale, M!Start, M!Goes,
      M!OwnerIs, M!Owns
  <2>2. (of \in [ M!States -> M!Runners \cup { 0 } ])'
    BY <1>1, SMTT(30) DEF M!SessionStart, M!Started, M!Stale, M!Start, M!Goes,
      M!OwnerIs, M!Owns
  <2>3. (cancelled \subseteq M!States /\ notice \subseteq M!States)'
    BY <1>1 DEF M!SessionStart, M!Started, M!Stale, M!Start, M!Goes,
      M!OwnerIs, M!Owns
  <2>4. (client \in [ M!States -> { "none", "open", "closed" } ])'
    BY <1>1 DEF M!SessionStart, M!Started, M!Stale, M!Start, M!Goes,
      M!OwnerIs, M!Owns
  <2>5. (task \in [ M!States -> { "none", "resolves", "connects", "publishes",
                             "waits", "lists", "republishes", "ended" } ])'
    BY <1>1 DEF M!SessionStart, M!Started, M!Stale, M!Start, M!Goes,
      M!OwnerIs, M!Owns
  <2>6. (version \in Nat \ { 0 } /\ got \in [ M!States -> Nat ])'
    BY <1>1 DEF M!SessionStart, M!Started, M!Stale, M!Start, M!Goes,
      M!OwnerIs, M!Owns
  <2>7. (does \in [ M!Runners -> M!Works \cup { "none", "ended" } ])'
    BY <1>1 DEF M!SessionStart, M!Started, M!Stale, M!Start, M!Goes,
      M!OwnerIs, M!Owns
  <2>8. (owns \in [ M!Runners -> M!States \cup { 0 } ])'
    BY <2>0 DEF M!TypeOK, M!Goes, M!Owns
  <2>9. (closer \in [ does : { "none", "closes", "ended" }, owns : M!States \cup { 0 } ])'
    BY <1>1 DEF M!SessionStart, M!Started, M!Stale, M!Start, M!Goes,
      M!OwnerIs, M!Owns
  <2>10. QED
    BY <2>1, <2>2, <2>3, <2>4, <2>5, <2>6, <2>7, <2>8, <2>9
<1>2. CASE M!Rotate
  BY <1>2 DEF M!Rotate
<1>3. CASE M!ShutdownBegins
  <2>1. (bounds \in Bounds /\ runner \in M!Runners /\ made \in 0 .. bounds.states /\ current = made)'
    BY <1>3 DEF M!ShutdownBegins, M!Cancels
  <2>2. (of \in [ M!States -> M!Runners \cup { 0 } ])'
    BY <1>3 DEF M!ShutdownBegins, M!Cancels
  <2>3. (cancelled \subseteq M!States /\ notice \subseteq M!States)'
    BY <1>3 DEF M!ShutdownBegins, M!Cancels, M!NotYet, M!OwnersCancel,
      M!NewestPublishes
  <2>4. (client \in [ M!States -> { "none", "open", "closed" } ])'
    BY <1>3 DEF M!ShutdownBegins, M!Cancels
  <2>5. (task \in [ M!States -> { "none", "resolves", "connects", "publishes",
                             "waits", "lists", "republishes", "ended" } ])'
    BY <1>3 DEF M!ShutdownBegins, M!Cancels
  <2>6. (version \in Nat \ { 0 } /\ got \in [ M!States -> Nat ])'
    BY <1>3 DEF M!ShutdownBegins, M!Cancels
  <2>7. (does \in [ M!Runners -> M!Works \cup { "none", "ended" } ])'
    BY <1>3 DEF M!ShutdownBegins, M!Cancels
  <2>8. (owns \in [ M!Runners -> M!States \cup { 0 } ])'
    BY <1>3 DEF M!ShutdownBegins, M!Cancels
  <2>9. (closer \in [ does : { "none", "closes", "ended" }, owns : M!States \cup { 0 } ])'
    BY <1>3 DEF M!ShutdownBegins, M!Cancels, M!NotYet, M!OwnersCancel,
      M!NewestPublishes
  <2>10. QED
    BY <2>1, <2>2, <2>3, <2>4, <2>5, <2>6, <2>7, <2>8, <2>9
<1>4. CASE M!ShutdownCloses
  BY <1>4 DEF M!ShutdownCloses, M!ClosesClients
<1>5. CASE M!Invalidate
  BY <1>5 DEF M!Invalidate
<1>6. CASE M!Reconnect
  BY <1>6 DEF M!Reconnect, M!Subscribed
<1>7. CASE M!ServerChanges
  <2>1. (bounds \in Bounds /\ runner \in M!Runners /\ made \in 0 .. bounds.states /\ current = made)'
    BY <1>7 DEF M!ServerChanges
  <2>2. (of \in [ M!States -> M!Runners \cup { 0 } ])'
    BY <1>7 DEF M!ServerChanges
  <2>3. (cancelled \subseteq M!States /\ notice \subseteq M!States)'
    BY <1>7 DEF M!ServerChanges
  <2>4. (client \in [ M!States -> { "none", "open", "closed" } ])'
    BY <1>7 DEF M!ServerChanges
  <2>5. (task \in [ M!States -> { "none", "resolves", "connects", "publishes",
                             "waits", "lists", "republishes", "ended" } ])'
    BY <1>7 DEF M!ServerChanges
  <2>6. (version \in Nat \ { 0 } /\ got \in [ M!States -> Nat ])'
    BY <1>7 DEF M!ServerChanges
  <2>7. (does \in [ M!Runners -> M!Works \cup { "none", "ended" } ])'
    BY <1>7 DEF M!ServerChanges
  <2>8. (owns \in [ M!Runners -> M!States \cup { 0 } ])'
    BY <1>7 DEF M!ServerChanges
  <2>9. (closer \in [ does : { "none", "closes", "ended" }, owns : M!States \cup { 0 } ])'
    BY <1>7 DEF M!ServerChanges
  <2>10. QED
    BY <2>1, <2>2, <2>3, <2>4, <2>5, <2>6, <2>7, <2>8, <2>9
<1>8. ASSUME NEW s \in M!States, M!Dropped(s)
      PROVE  M!TypeOK'
  BY <1>8 DEF M!Dropped, M!Ends, M!Goes
<1>9. ASSUME NEW s \in M!States, M!Enter(s)
      PROVE  M!TypeOK'
  <2>1. (bounds \in Bounds /\ runner \in M!Runners /\ made \in 0 .. bounds.states /\ current = made)'
    BY <1>9 DEF M!Enter, M!MayEnter, M!Ends, M!Goes
  <2>2. (of \in [ M!States -> M!Runners \cup { 0 } ])'
    BY <1>9 DEF M!Enter, M!MayEnter, M!Ends, M!Goes
  <2>3. (cancelled \subseteq M!States /\ notice \subseteq M!States)'
    BY <1>9 DEF M!Enter, M!MayEnter, M!Ends, M!Goes
  <2>4. (client \in [ M!States -> { "none", "open", "closed" } ])'
    BY <1>9 DEF M!Enter, M!MayEnter, M!Ends, M!Goes
  <2>5. (task \in [ M!States -> { "none", "resolves", "connects", "publishes",
                             "waits", "lists", "republishes", "ended" } ])'
    BY <1>9, SMTT(30) DEF M!Enter, M!MayEnter, M!Ends, M!Goes
  <2>6. (version \in Nat \ { 0 } /\ got \in [ M!States -> Nat ])'
    BY <1>9, SMTT(30) DEF M!Enter, M!MayEnter, M!Ends, M!Goes
  <2>7. (does \in [ M!Runners -> M!Works \cup { "none", "ended" } ])'
    BY <1>9 DEF M!Enter, M!MayEnter, M!Ends, M!Goes
  <2>8. (owns \in [ M!Runners -> M!States \cup { 0 } ])'
    BY <1>9 DEF M!Enter, M!MayEnter, M!Ends, M!Goes
  <2>9. (closer \in [ does : { "none", "closes", "ended" }, owns : M!States \cup { 0 } ])'
    BY <1>9 DEF M!Enter, M!MayEnter, M!Ends, M!Goes
  <2>10. QED
    BY <2>1, <2>2, <2>3, <2>4, <2>5, <2>6, <2>7, <2>8, <2>9
<1>10. ASSUME NEW s \in M!States, M!Lists(s)
      PROVE  M!TypeOK'
  <2>1. (bounds \in Bounds /\ runner \in M!Runners /\ made \in 0 .. bounds.states /\ current = made)'
    BY <1>10 DEF M!Lists, M!Ends, M!Goes
  <2>2. (of \in [ M!States -> M!Runners \cup { 0 } ])'
    BY <1>10 DEF M!Lists, M!Ends, M!Goes
  <2>3. (cancelled \subseteq M!States /\ notice \subseteq M!States)'
    BY <1>10 DEF M!Lists, M!Ends, M!Goes
  <2>4. (client \in [ M!States -> { "none", "open", "closed" } ])'
    BY <1>10 DEF M!Lists, M!Ends, M!Goes
  <2>5. (task \in [ M!States -> { "none", "resolves", "connects", "publishes",
                             "waits", "lists", "republishes", "ended" } ])'
    BY <1>10 DEF M!Lists, M!Ends, M!Goes
  <2>6. (version \in Nat \ { 0 } /\ got \in [ M!States -> Nat ])'
    BY <1>10 DEF M!Lists, M!Ends, M!Goes
  <2>7. (does \in [ M!Runners -> M!Works \cup { "none", "ended" } ])'
    BY <1>10 DEF M!Lists, M!Ends, M!Goes
  <2>8. (owns \in [ M!Runners -> M!States \cup { 0 } ])'
    BY <1>10 DEF M!Lists, M!Ends, M!Goes
  <2>9. (closer \in [ does : { "none", "closes", "ended" }, owns : M!States \cup { 0 } ])'
    BY <1>10 DEF M!Lists, M!Ends, M!Goes
  <2>10. QED
    BY <2>1, <2>2, <2>3, <2>4, <2>5, <2>6, <2>7, <2>8, <2>9
<1>11. ASSUME NEW s \in M!States, M!Publish(s)
      PROVE  M!TypeOK'
  <2>0. M!Goes(s, "waits") \/ M!Goes(s, "ended")
    BY <1>11 DEF M!Publish, M!MayPublish, M!Ends, M!Goes
  <2>1. (bounds \in Bounds /\ runner \in M!Runners /\ made \in 0 .. bounds.states /\ current = made)'
    BY <1>11 DEF M!Publish, M!MayPublish, M!Ends, M!Goes
  <2>2. (of \in [ M!States -> M!Runners \cup { 0 } ])'
    BY <1>11 DEF M!Publish, M!MayPublish, M!Ends, M!Goes
  <2>3. (cancelled \subseteq M!States /\ notice \subseteq M!States)'
    BY <1>11 DEF M!Publish, M!MayPublish, M!Ends, M!Goes
  <2>4. (client \in [ M!States -> { "none", "open", "closed" } ])'
    BY <1>11 DEF M!Publish, M!MayPublish, M!Ends, M!Goes
  <2>5. (task \in [ M!States -> { "none", "resolves", "connects", "publishes",
                             "waits", "lists", "republishes", "ended" } ])'
    BY <2>0 DEF M!TypeOK, M!Goes
  <2>6. (version \in Nat \ { 0 } /\ got \in [ M!States -> Nat ])'
    BY <1>11 DEF M!Publish, M!MayPublish, M!Ends, M!Goes
  <2>7. (does \in [ M!Runners -> M!Works \cup { "none", "ended" } ])'
    BY <1>11 DEF M!Publish, M!MayPublish, M!Ends, M!Goes
  <2>8. (owns \in [ M!Runners -> M!States \cup { 0 } ])'
    BY <1>11 DEF M!Publish, M!MayPublish, M!Ends, M!Goes
  <2>9. (closer \in [ does : { "none", "closes", "ended" }, owns : M!States \cup { 0 } ])'
    BY <1>11 DEF M!Publish, M!MayPublish, M!Ends, M!Goes
  <2>10. QED
    BY <2>1, <2>2, <2>3, <2>4, <2>5, <2>6, <2>7, <2>8, <2>9
<1>12. ASSUME NEW s \in M!States, M!ReadNotice(s)
      PROVE  M!TypeOK'
  BY <1>12 DEF M!ReadNotice, M!Goes
<1>13. ASSUME NEW s \in M!States, M!Relists(s)
      PROVE  M!TypeOK'
  <2>0. version' = version /\ (got' = [ got EXCEPT ![s] = version ] \/ got' = [ got EXCEPT ![s] = 0 ])
    BY <1>13 DEF M!Relists, M!Goes
  <2>1. (bounds \in Bounds /\ runner \in M!Runners /\ made \in 0 .. bounds.states /\ current = made)'
    BY <1>13 DEF M!Relists, M!Goes
  <2>2. (of \in [ M!States -> M!Runners \cup { 0 } ])'
    BY <1>13 DEF M!Relists, M!Goes
  <2>3. (cancelled \subseteq M!States /\ notice \subseteq M!States)'
    BY <1>13 DEF M!Relists, M!Goes
  <2>4. (client \in [ M!States -> { "none", "open", "closed" } ])'
    BY <1>13 DEF M!Relists, M!Goes
  <2>5. (task \in [ M!States -> { "none", "resolves", "connects", "publishes",
                             "waits", "lists", "republishes", "ended" } ])'
    BY <1>13 DEF M!Relists, M!Goes
  <2>6. (version \in Nat \ { 0 } /\ got \in [ M!States -> Nat ])'
    <3>1. CASE got' = [ got EXCEPT ![s] = version ]
      BY <2>0, <3>1 DEF M!TypeOK
    <3>2. CASE got' = [ got EXCEPT ![s] = 0 ]
      BY <2>0, <3>2 DEF M!TypeOK
    <3>3. QED
      BY <2>0, <3>1, <3>2
  <2>7. (does \in [ M!Runners -> M!Works \cup { "none", "ended" } ])'
    BY <1>13 DEF M!Relists, M!Goes
  <2>8. (owns \in [ M!Runners -> M!States \cup { 0 } ])'
    BY <1>13 DEF M!Relists, M!Goes
  <2>9. (closer \in [ does : { "none", "closes", "ended" }, owns : M!States \cup { 0 } ])'
    BY <1>13 DEF M!Relists, M!Goes
  <2>10. QED
    BY <2>1, <2>2, <2>3, <2>4, <2>5, <2>6, <2>7, <2>8, <2>9
<1>14. ASSUME NEW r \in M!Runners, M!OwnerWakes(r)
      PROVE  M!TypeOK'
  <2>0. owns[r] \in M!States /\ M!Cancels(owns[r]) /\ notice' = notice
    BY <1>14 DEF M!OwnerWakes, M!OwnerIs, M!Cancels, M!OwnersCancel
  <2>1. (bounds \in Bounds /\ runner \in M!Runners /\ made \in 0 .. bounds.states /\ current = made)'
    BY <1>14 DEF M!OwnerWakes, M!OwnerIs, M!Cancels
  <2>2. (of \in [ M!States -> M!Runners \cup { 0 } ])'
    BY <1>14 DEF M!OwnerWakes, M!OwnerIs, M!Cancels
  <2>3. (cancelled \subseteq M!States /\ notice \subseteq M!States)'
    BY <2>0 DEF M!TypeOK, M!Cancels
  <2>4. (client \in [ M!States -> { "none", "open", "closed" } ])'
    BY <1>14 DEF M!OwnerWakes, M!OwnerIs, M!Cancels
  <2>5. (task \in [ M!States -> { "none", "resolves", "connects", "publishes",
                             "waits", "lists", "republishes", "ended" } ])'
    BY <1>14 DEF M!OwnerWakes, M!OwnerIs, M!Cancels
  <2>6. (version \in Nat \ { 0 } /\ got \in [ M!States -> Nat ])'
    BY <1>14 DEF M!OwnerWakes, M!OwnerIs, M!Cancels
  <2>7. (does \in [ M!Runners -> M!Works \cup { "none", "ended" } ])'
    BY <1>14 DEF M!OwnerWakes, M!OwnerIs, M!Cancels
  <2>8. (owns \in [ M!Runners -> M!States \cup { 0 } ])'
    BY <1>14 DEF M!OwnerWakes, M!OwnerIs, M!Cancels
  <2>9. (closer \in [ does : { "none", "closes", "ended" }, owns : M!States \cup { 0 } ])'
    BY <1>14 DEF M!OwnerWakes, M!OwnerIs, M!Cancels
  <2>10. QED
    BY <2>1, <2>2, <2>3, <2>4, <2>5, <2>6, <2>7, <2>8, <2>9
<1>15. ASSUME NEW r \in M!Runners, M!OwnerCloses(r)
      PROVE  M!TypeOK'
  BY <1>15 DEF M!OwnerCloses, M!ClosesClients, M!OwnerIs, M!Owns
<1>16. ASSUME NEW r \in M!Runners, M!OwnerReplaces(r)
      PROVE  M!TypeOK'
  <2>0. UNCHANGED owns \/ (made + 1 \in M!States /\ M!Owns(r, made + 1))
    BY <1>16 DEF M!OwnerReplaces, M!MayReplace, M!OwnerIs, M!Owns
  <2>1. (bounds \in Bounds /\ runner \in M!Runners /\ made \in 0 .. bounds.states /\ current = made)'
    BY <1>16 DEF M!OwnerReplaces, M!MayReplace, M!OwnerIs, M!Owns
  <2>2. (of \in [ M!States -> M!Runners \cup { 0 } ])'
    BY <1>16 DEF M!OwnerReplaces, M!MayReplace, M!OwnerIs, M!Owns
  <2>3. (cancelled \subseteq M!States /\ notice \subseteq M!States)'
    BY <1>16 DEF M!OwnerReplaces, M!MayReplace, M!OwnerIs, M!Owns
  <2>4. (client \in [ M!States -> { "none", "open", "closed" } ])'
    BY <1>16 DEF M!OwnerReplaces, M!MayReplace, M!OwnerIs, M!Owns
  <2>5. (task \in [ M!States -> { "none", "resolves", "connects", "publishes",
                             "waits", "lists", "republishes", "ended" } ])'
    BY <1>16 DEF M!OwnerReplaces, M!MayReplace, M!OwnerIs, M!Owns
  <2>6. (version \in Nat \ { 0 } /\ got \in [ M!States -> Nat ])'
    BY <1>16 DEF M!OwnerReplaces, M!MayReplace, M!OwnerIs, M!Owns
  <2>7. (does \in [ M!Runners -> M!Works \cup { "none", "ended" } ])'
    BY <1>16, SMTT(30) DEF M!OwnerReplaces, M!MayReplace, M!OwnerIs, M!Owns
  <2>8. (owns \in [ M!Runners -> M!States \cup { 0 } ])'
    BY <2>0 DEF M!TypeOK, M!Owns
  <2>9. (closer \in [ does : { "none", "closes", "ended" }, owns : M!States \cup { 0 } ])'
    BY <1>16 DEF M!OwnerReplaces, M!MayReplace, M!OwnerIs, M!Owns
  <2>10. QED
    BY <2>1, <2>2, <2>3, <2>4, <2>5, <2>6, <2>7, <2>8, <2>9
<1>17. ASSUME NEW r \in M!Runners, M!OwnerStarts(r)
      PROVE  M!TypeOK'
  BY <1>17 DEF M!OwnerStarts, M!Start, M!Goes, M!OwnerIs
<1>18. CASE UNCHANGED mcpVars
  BY <1>18 DEF mcpVars
<1>19. QED
  BY <1>1, <1>2, <1>3, <1>4, <1>5, <1>6, <1>7, <1>8, <1>9, <1>10, <1>11, <1>12, <1>13, <1>14, <1>15, <1>16, <1>17, <1>18
  DEF M!Next, M!Task, M!Owner

\* A step keeps the invariant.
LEMMA ServersStep == M!ServersInv /\ [M!Next]_mcpVars => M!ServersInv'
<1> SUFFICES ASSUME M!ServersInv, [M!Next]_mcpVars
             PROVE  M!ServersInv'
  OBVIOUS
<1>0. M!TypeOK'
  BY ServersTypes
<1>b. /\ bounds' = bounds /\ bounds.states \in Nat /\ bounds.states <= MaxStates
      /\ MaxRunners \in Nat \ { 0 } /\ MaxStates \in Nat
  BY SessionsAssumption DEF M!Next, mcpVars, M!ServersInv, M!TypeOK
<1> USE <1>0, <1>b
    DEF M!ServersInv, M!TypeOK, M!Runners, M!States, M!Works, M!Active,
      M!runnerVars, M!stateVars, M!taskVars, M!ownerVars
<1>c. \A x \in M!States : M!Active(of[x]) /\ x \notin cancelled => owns[runner] = x
  <2>1. SUFFICES ASSUME NEW x \in M!States, of[x] = runner, x \notin cancelled
                 PROVE  owns[runner] = x
    OBVIOUS
  <2>2. of[x] # 0
    BY <2>1
  <2>3. QED
    BY <2>1, <2>2 DEF M!StatesAreOwned
<1>1. CASE M!SessionStart
  <2>a. ~(M!Started /\ ~M!Stale)
    BY <1>1 DEF M!SessionStart, M!Started, M!Stale, M!NotYet
  <2>0. /\ made + 1 \in M!States /\ current' = made + 1 /\ made' = made + 1
        /\ started' /\ active /\ ~started
        /\ of' = [ of EXCEPT ![made + 1] = runner ]
        /\ does' = [ does EXCEPT ![runner] = "waits" ]
        /\ owns' = [ owns EXCEPT ![runner] = made + 1 ]
        /\ tools' = << made + 1, 0 >>
        /\ UNCHANGED << runner, active, cancelled, client, closer >>
    BY <1>1, <2>a DEF M!SessionStart, M!Start, M!OwnerIs, M!Owns
  <2>1. M!NotYet'
    <3>1. (\A x \in M!States : x > made => of[x] = 0 /\ x \notin cancelled)'
      BY <1>1, SMTT(30) DEF M!SessionStart, M!Started, M!Stale, M!Start, M!Goes,
        M!OwnerIs, M!Owns, M!NotYet, M!OwnersCancel, M!StatesAreOwned,
        M!TasksFollow, M!NewestPublishes, M!ClientsAreClosed
    <3>2. (\A x \in M!States : x > made => \A q \in M!Runners : owns[q] # x)'
      BY <1>1 DEF M!SessionStart, M!Started, M!Stale, M!Start, M!Goes,
        M!OwnerIs, M!Owns, M!NotYet, M!OwnersCancel, M!StatesAreOwned,
        M!TasksFollow, M!NewestPublishes, M!ClientsAreClosed
    <3>3. (\A x \in M!States : of[x] = 0 => task[x] = "none" /\ client[x] = "none")'
      BY <1>1, SMTT(30) DEF M!SessionStart, M!Started, M!Stale, M!Start, M!Goes,
        M!OwnerIs, M!Owns, M!NotYet, M!OwnersCancel, M!StatesAreOwned,
        M!TasksFollow, M!NewestPublishes, M!ClientsAreClosed
    <3>4. (\A q \in M!Runners : (q > runner \/ (q = runner /\ ~started)) => does[q] = "none")'
      BY <1>1 DEF M!SessionStart, M!Started, M!Stale, M!Start, M!Goes,
        M!OwnerIs, M!Owns, M!NotYet, M!OwnersCancel, M!StatesAreOwned,
        M!TasksFollow, M!NewestPublishes, M!ClientsAreClosed
    <3>5. (\A q \in M!Runners : (q > runner \/ (q = runner /\ ~started)) => \A x \in M!States : of[x] # q)'
      BY <1>1 DEF M!SessionStart, M!Started, M!Stale, M!Start, M!Goes,
        M!OwnerIs, M!Owns, M!NotYet, M!OwnersCancel, M!StatesAreOwned,
        M!TasksFollow, M!NewestPublishes, M!ClientsAreClosed
    <3>6. (started => does[runner] # "none")'
      BY <1>1 DEF M!SessionStart, M!Started, M!Stale, M!Start, M!Goes,
        M!OwnerIs, M!Owns, M!NotYet, M!OwnersCancel, M!StatesAreOwned,
        M!TasksFollow, M!NewestPublishes, M!ClientsAreClosed
    <3>7. QED
      BY <3>1, <3>2, <3>3, <3>4, <3>5, <3>6 DEF M!NotYet
  <2>2. M!OwnersCancel'
    <3>1. (\A q \in M!Runners : does[q] \in M!Works <=> owns[q] # 0)'
      BY <1>1, SMTT(30) DEF M!SessionStart, M!Started, M!Stale, M!Start, M!Goes,
        M!OwnerIs, M!Owns, M!NotYet, M!OwnersCancel, M!StatesAreOwned,
        M!TasksFollow, M!NewestPublishes, M!ClientsAreClosed
    <3>2. (\A q \in M!Runners : does[q] \in { "waits", "closes", "replaces", "leaves" } => of[owns[q]] = q)'
      BY <2>0 DEF M!NotYet, M!OwnersCancel, M!StatesAreOwned, M!TasksFollow,
        M!NewestPublishes, M!ClientsAreClosed
    <3>3. (\A q \in M!Runners : does[q] = "starts" => of[owns[q]] = 0)'
      BY <2>0 DEF M!NotYet, M!OwnersCancel, M!StatesAreOwned, M!TasksFollow,
        M!NewestPublishes, M!ClientsAreClosed
    <3>4. (\A q \in M!Runners : does[q] \in { "closes", "replaces", "leaves" } => owns[q] \in cancelled)'
      BY <1>1 DEF M!SessionStart, M!Started, M!Stale, M!Start, M!Goes,
        M!OwnerIs, M!Owns, M!NotYet, M!OwnersCancel, M!StatesAreOwned,
        M!TasksFollow, M!NewestPublishes, M!ClientsAreClosed
    <3>5. (\A q \in M!Runners : does[q] = "replaces" => client[owns[q]] # "open")'
      BY <1>1, SMTT(30) DEF M!SessionStart, M!Started, M!Stale, M!Start, M!Goes,
        M!OwnerIs, M!Owns, M!NotYet, M!OwnersCancel, M!StatesAreOwned,
        M!TasksFollow, M!NewestPublishes, M!ClientsAreClosed
    <3>6. (\A q \in M!Runners : does[q] \in { "leaves", "ended" } => ~M!Active(q))'
      BY <1>1 DEF M!SessionStart, M!Started, M!Stale, M!Start, M!Goes,
        M!OwnerIs, M!Owns, M!NotYet, M!OwnersCancel, M!StatesAreOwned,
        M!TasksFollow, M!NewestPublishes, M!ClientsAreClosed
    <3>7. QED
      BY <3>1, <3>2, <3>3, <3>4, <3>5, <3>6 DEF M!OwnersCancel
  <2>3. M!StatesAreOwned'
    <3>1. (\A x, q \in M!Runners : owns[x] = owns[q] /\ owns[x] # 0 => x = q)'
      BY <2>0, SMTT(30) DEF M!NotYet, M!OwnersCancel, M!StatesAreOwned, M!TasksFollow,
        M!NewestPublishes, M!ClientsAreClosed
    <3>2. (\A x \in M!States : of[x] # 0 /\ x \notin cancelled => owns[of[x]] = x)'
      BY <1>1, SMTT(30) DEF M!SessionStart, M!Started, M!Stale, M!Start, M!Goes,
        M!OwnerIs, M!Owns, M!NotYet, M!OwnersCancel, M!StatesAreOwned,
        M!TasksFollow, M!NewestPublishes, M!ClientsAreClosed
    <3>3. (closer.does = "closes" => closer.owns \in cancelled)'
      BY <1>1 DEF M!SessionStart, M!Started, M!Stale, M!Start, M!Goes,
        M!OwnerIs, M!Owns, M!NotYet, M!OwnersCancel, M!StatesAreOwned,
        M!TasksFollow, M!NewestPublishes, M!ClientsAreClosed
    <3>4. QED
      BY <3>1, <3>2, <3>3 DEF M!StatesAreOwned
  <2>4. M!TasksFollow'
    <3>1. (\A x \in M!States \ cancelled : M!Hears(x) => client[x] = "open")'
      BY <1>1, SMTT(30) DEF M!SessionStart, M!Started, M!Stale, M!Start, M!Goes,
        M!OwnerIs, M!Owns, M!NotYet, M!OwnersCancel, M!StatesAreOwned,
        M!TasksFollow, M!NewestPublishes, M!ClientsAreClosed, M!Hears
    <3>2. (\A x \in M!States \ cancelled :
         task[x] \in { "publishes", "republishes", "waits" } /\ x \notin notice /\ got[x] # 0
           => got[x] = version)'
      BY <1>1, SMTT(30) DEF M!SessionStart, M!Started, M!Stale, M!Start, M!Goes,
        M!OwnerIs, M!Owns, M!NotYet, M!OwnersCancel, M!StatesAreOwned,
        M!TasksFollow, M!NewestPublishes, M!ClientsAreClosed, M!Hears
    <3>3. (\A x \in M!States \ cancelled :
         task[x] = "waits" /\ got[x] # 0 /\ M!Active(of[x]) => tools = << x, got[x] >>)'
      BY <1>1 DEF M!SessionStart, M!Started, M!Stale, M!Start, M!Goes,
        M!OwnerIs, M!Owns, M!NotYet, M!OwnersCancel, M!StatesAreOwned,
        M!TasksFollow, M!NewestPublishes, M!ClientsAreClosed, M!Hears
    <3>4. QED
      BY <3>1, <3>2, <3>3 DEF M!TasksFollow
  <2>5. M!NewestPublishes'
    BY <1>1 DEF M!SessionStart, M!Started, M!Stale, M!Start, M!Goes,
      M!OwnerIs, M!Owns, M!NotYet, M!OwnersCancel, M!StatesAreOwned,
      M!TasksFollow, M!NewestPublishes, M!ClientsAreClosed
  <2>6. M!ClientsAreClosed'
    <3>1. owns[runner] = 0
      BY <2>0 DEF M!NotYet, M!OwnersCancel
    <3>2. \A r \in M!Runners : owns[r] # 0 => owns'[r] = owns[r]
      BY <2>0, <3>1
    <3>3. QED
      BY <2>0, <3>2 DEF M!ClientsAreClosed
  <2>7. QED
    BY <2>1, <2>2, <2>3, <2>4, <2>5, <2>6
<1>2. CASE M!Rotate
  <2>1. M!NotYet'
    BY <1>2 DEF M!Rotate, M!NotYet, M!OwnersCancel, M!StatesAreOwned,
      M!TasksFollow, M!NewestPublishes, M!ClientsAreClosed
  <2>2. M!OwnersCancel'
    BY <1>2 DEF M!Rotate, M!NotYet, M!OwnersCancel, M!StatesAreOwned,
      M!TasksFollow, M!NewestPublishes, M!ClientsAreClosed
  <2>3. M!StatesAreOwned'
    BY <1>2 DEF M!Rotate, M!NotYet, M!OwnersCancel, M!StatesAreOwned,
      M!TasksFollow, M!NewestPublishes, M!ClientsAreClosed
  <2>4. M!TasksFollow'
    BY <1>2 DEF M!Rotate, M!NotYet, M!OwnersCancel, M!StatesAreOwned,
      M!TasksFollow, M!NewestPublishes, M!ClientsAreClosed, M!Hears
  <2>5. M!NewestPublishes'
    BY <1>2 DEF M!Rotate, M!NotYet, M!OwnersCancel, M!StatesAreOwned,
      M!TasksFollow, M!NewestPublishes, M!ClientsAreClosed, M!Started
  <2>6. M!ClientsAreClosed'
    BY <1>2 DEF M!Rotate, M!NotYet, M!OwnersCancel, M!StatesAreOwned,
      M!TasksFollow, M!NewestPublishes, M!ClientsAreClosed
  <2>7. QED
    BY <2>1, <2>2, <2>3, <2>4, <2>5, <2>6
<1>3. CASE M!ShutdownBegins
  <2>1. M!NotYet'
    BY <1>3 DEF M!ShutdownBegins, M!Cancels, M!NotYet, M!OwnersCancel,
      M!StatesAreOwned, M!TasksFollow, M!NewestPublishes, M!ClientsAreClosed
  <2>2. M!OwnersCancel'
    BY <1>3 DEF M!ShutdownBegins, M!Cancels, M!NotYet, M!OwnersCancel,
      M!StatesAreOwned, M!TasksFollow, M!NewestPublishes, M!ClientsAreClosed
  <2>3. M!StatesAreOwned'
    BY <1>3 DEF M!ShutdownBegins, M!Cancels, M!NotYet, M!OwnersCancel,
      M!StatesAreOwned, M!TasksFollow, M!NewestPublishes, M!ClientsAreClosed
  <2>4. M!TasksFollow'
    BY <1>3 DEF M!ShutdownBegins, M!Cancels, M!NotYet, M!OwnersCancel,
      M!StatesAreOwned, M!TasksFollow, M!NewestPublishes,
      M!ClientsAreClosed, M!Hears
  <2>5. M!NewestPublishes'
    BY <1>3 DEF M!ShutdownBegins, M!Cancels, M!NotYet, M!OwnersCancel,
      M!StatesAreOwned, M!TasksFollow, M!NewestPublishes,
      M!ClientsAreClosed, M!Started
  <2>6. M!ClientsAreClosed'
    BY <1>3 DEF M!ShutdownBegins, M!Cancels, M!NotYet, M!OwnersCancel,
      M!StatesAreOwned, M!TasksFollow, M!NewestPublishes, M!ClientsAreClosed
  <2>7. QED
    BY <2>1, <2>2, <2>3, <2>4, <2>5, <2>6
<1>4. CASE M!ShutdownCloses
  <2>1. M!NotYet'
    BY <1>4 DEF M!ShutdownCloses, M!ClosesClients, M!NotYet,
      M!OwnersCancel, M!StatesAreOwned, M!TasksFollow, M!NewestPublishes,
      M!ClientsAreClosed
  <2>2. M!OwnersCancel'
    BY <1>4 DEF M!ShutdownCloses, M!ClosesClients, M!NotYet,
      M!OwnersCancel, M!StatesAreOwned, M!TasksFollow, M!NewestPublishes,
      M!ClientsAreClosed
  <2>3. M!StatesAreOwned'
    BY <1>4 DEF M!ShutdownCloses, M!ClosesClients, M!NotYet,
      M!OwnersCancel, M!StatesAreOwned, M!TasksFollow, M!NewestPublishes,
      M!ClientsAreClosed
  <2>4. M!TasksFollow'
    BY <1>4 DEF M!ShutdownCloses, M!ClosesClients, M!NotYet,
      M!OwnersCancel, M!StatesAreOwned, M!TasksFollow, M!NewestPublishes,
      M!ClientsAreClosed, M!Hears
  <2>5. M!NewestPublishes'
    BY <1>4 DEF M!ShutdownCloses, M!ClosesClients, M!NotYet,
      M!OwnersCancel, M!StatesAreOwned, M!TasksFollow, M!NewestPublishes,
      M!ClientsAreClosed, M!Started
  <2>6. M!ClientsAreClosed'
    BY <1>4 DEF M!ShutdownCloses, M!ClosesClients, M!NotYet,
      M!OwnersCancel, M!StatesAreOwned, M!TasksFollow, M!NewestPublishes,
      M!ClientsAreClosed
  <2>7. QED
    BY <2>1, <2>2, <2>3, <2>4, <2>5, <2>6
<1>5. CASE M!Invalidate
  <2>1. M!NotYet'
    BY <1>5 DEF M!Invalidate, M!NotYet, M!OwnersCancel, M!StatesAreOwned,
      M!TasksFollow, M!NewestPublishes, M!ClientsAreClosed
  <2>2. M!OwnersCancel'
    BY <1>5 DEF M!Invalidate, M!NotYet, M!OwnersCancel, M!StatesAreOwned,
      M!TasksFollow, M!NewestPublishes, M!ClientsAreClosed
  <2>3. M!StatesAreOwned'
    BY <1>5 DEF M!Invalidate, M!NotYet, M!OwnersCancel, M!StatesAreOwned,
      M!TasksFollow, M!NewestPublishes, M!ClientsAreClosed
  <2>4. M!TasksFollow'
    BY <1>5 DEF M!Invalidate, M!NotYet, M!OwnersCancel, M!StatesAreOwned,
      M!TasksFollow, M!NewestPublishes, M!ClientsAreClosed, M!Hears
  <2>5. M!NewestPublishes'
    BY <1>5 DEF M!Invalidate, M!NotYet, M!OwnersCancel, M!StatesAreOwned,
      M!TasksFollow, M!NewestPublishes, M!ClientsAreClosed, M!Started
  <2>6. M!ClientsAreClosed'
    BY <1>5 DEF M!Invalidate, M!NotYet, M!OwnersCancel, M!StatesAreOwned,
      M!TasksFollow, M!NewestPublishes, M!ClientsAreClosed
  <2>7. QED
    BY <2>1, <2>2, <2>3, <2>4, <2>5, <2>6
<1>6. CASE M!Reconnect
  <2>1. M!NotYet'
    BY <1>6 DEF M!Reconnect, M!Subscribed, M!NotYet, M!OwnersCancel,
      M!StatesAreOwned, M!TasksFollow, M!NewestPublishes, M!ClientsAreClosed
  <2>2. M!OwnersCancel'
    BY <1>6 DEF M!Reconnect, M!Subscribed, M!NotYet, M!OwnersCancel,
      M!StatesAreOwned, M!TasksFollow, M!NewestPublishes, M!ClientsAreClosed
  <2>3. M!StatesAreOwned'
    BY <1>6 DEF M!Reconnect, M!Subscribed, M!NotYet, M!OwnersCancel,
      M!StatesAreOwned, M!TasksFollow, M!NewestPublishes, M!ClientsAreClosed
  <2>4. M!TasksFollow'
    BY <1>6 DEF M!Reconnect, M!Subscribed, M!NotYet, M!OwnersCancel,
      M!StatesAreOwned, M!TasksFollow, M!NewestPublishes,
      M!ClientsAreClosed, M!Hears
  <2>5. M!NewestPublishes'
    BY <1>6 DEF M!Reconnect, M!Subscribed, M!NotYet, M!OwnersCancel,
      M!StatesAreOwned, M!TasksFollow, M!NewestPublishes,
      M!ClientsAreClosed, M!Started
  <2>6. M!ClientsAreClosed'
    BY <1>6 DEF M!Reconnect, M!Subscribed, M!NotYet, M!OwnersCancel,
      M!StatesAreOwned, M!TasksFollow, M!NewestPublishes, M!ClientsAreClosed
  <2>7. QED
    BY <2>1, <2>2, <2>3, <2>4, <2>5, <2>6
<1>7. CASE M!ServerChanges
  <2>1. M!NotYet'
    BY <1>7 DEF M!ServerChanges, M!NotYet, M!OwnersCancel,
      M!StatesAreOwned, M!TasksFollow, M!NewestPublishes, M!ClientsAreClosed
  <2>2. M!OwnersCancel'
    BY <1>7 DEF M!ServerChanges, M!NotYet, M!OwnersCancel,
      M!StatesAreOwned, M!TasksFollow, M!NewestPublishes, M!ClientsAreClosed
  <2>3. M!StatesAreOwned'
    BY <1>7 DEF M!ServerChanges, M!NotYet, M!OwnersCancel,
      M!StatesAreOwned, M!TasksFollow, M!NewestPublishes, M!ClientsAreClosed
  <2>4. M!TasksFollow'
    BY <1>7 DEF M!ServerChanges, M!NotYet, M!OwnersCancel,
      M!StatesAreOwned, M!TasksFollow, M!NewestPublishes,
      M!ClientsAreClosed, M!Hears
  <2>5. M!NewestPublishes'
    BY <1>7 DEF M!ServerChanges, M!NotYet, M!OwnersCancel,
      M!StatesAreOwned, M!TasksFollow, M!NewestPublishes,
      M!ClientsAreClosed, M!Started
  <2>6. M!ClientsAreClosed'
    BY <1>7 DEF M!ServerChanges, M!NotYet, M!OwnersCancel,
      M!StatesAreOwned, M!TasksFollow, M!NewestPublishes, M!ClientsAreClosed
  <2>7. QED
    BY <2>1, <2>2, <2>3, <2>4, <2>5, <2>6
<1>8. ASSUME NEW s \in M!States, M!Dropped(s)
      PROVE  M!ServersInv'
  <2>1. M!NotYet'
    BY <1>8, SMTT(30) DEF M!Dropped, M!Ends, M!Goes, M!NotYet, M!OwnersCancel,
      M!StatesAreOwned, M!TasksFollow, M!NewestPublishes, M!ClientsAreClosed
  <2>2. M!OwnersCancel'
    BY <1>8 DEF M!Dropped, M!Ends, M!Goes, M!NotYet, M!OwnersCancel,
      M!StatesAreOwned, M!TasksFollow, M!NewestPublishes, M!ClientsAreClosed
  <2>3. M!StatesAreOwned'
    BY <1>8 DEF M!Dropped, M!Ends, M!Goes, M!NotYet, M!OwnersCancel,
      M!StatesAreOwned, M!TasksFollow, M!NewestPublishes, M!ClientsAreClosed
  <2>4. M!TasksFollow'
    BY <1>8 DEF M!Dropped, M!Ends, M!Goes, M!NotYet, M!OwnersCancel,
      M!StatesAreOwned, M!TasksFollow, M!NewestPublishes,
      M!ClientsAreClosed, M!Hears
  <2>5. M!NewestPublishes'
    BY <1>8 DEF M!Dropped, M!Ends, M!Goes, M!NotYet, M!OwnersCancel,
      M!StatesAreOwned, M!TasksFollow, M!NewestPublishes,
      M!ClientsAreClosed, M!Started
  <2>6. M!ClientsAreClosed'
    BY <1>8 DEF M!Dropped, M!Ends, M!Goes, M!NotYet, M!OwnersCancel,
      M!StatesAreOwned, M!TasksFollow, M!NewestPublishes, M!ClientsAreClosed
  <2>7. QED
    BY <2>1, <2>2, <2>3, <2>4, <2>5, <2>6
<1>9. ASSUME NEW s \in M!States, M!Enter(s)
      PROVE  M!ServersInv'
  <2>1. M!NotYet'
    <3>1. (\A x \in M!States : x > made => of[x] = 0 /\ x \notin cancelled)'
      BY <1>9 DEF M!Enter, M!MayEnter, M!Ends, M!Goes, M!NotYet,
        M!OwnersCancel, M!StatesAreOwned, M!TasksFollow, M!NewestPublishes,
        M!ClientsAreClosed
    <3>2. (\A x \in M!States : x > made => \A q \in M!Runners : owns[q] # x)'
      BY <1>9 DEF M!Enter, M!MayEnter, M!Ends, M!Goes, M!NotYet,
        M!OwnersCancel, M!StatesAreOwned, M!TasksFollow, M!NewestPublishes,
        M!ClientsAreClosed
    <3>3. (\A x \in M!States : of[x] = 0 => task[x] = "none" /\ client[x] = "none")'
      BY <1>9 DEF M!Enter, M!MayEnter, M!Ends, M!Goes, M!NotYet,
        M!OwnersCancel, M!StatesAreOwned, M!TasksFollow, M!NewestPublishes,
        M!ClientsAreClosed
    <3>4. (\A q \in M!Runners : (q > runner \/ (q = runner /\ ~started)) => does[q] = "none")'
      BY <1>9 DEF M!Enter, M!MayEnter, M!Ends, M!Goes, M!NotYet,
        M!OwnersCancel, M!StatesAreOwned, M!TasksFollow, M!NewestPublishes,
        M!ClientsAreClosed
    <3>5. (\A q \in M!Runners : (q > runner \/ (q = runner /\ ~started)) => \A x \in M!States : of[x] # q)'
      BY <1>9 DEF M!Enter, M!MayEnter, M!Ends, M!Goes, M!NotYet,
        M!OwnersCancel, M!StatesAreOwned, M!TasksFollow, M!NewestPublishes,
        M!ClientsAreClosed
    <3>6. (started => does[runner] # "none")'
      BY <1>9 DEF M!Enter, M!MayEnter, M!Ends, M!Goes, M!NotYet,
        M!OwnersCancel, M!StatesAreOwned, M!TasksFollow, M!NewestPublishes,
        M!ClientsAreClosed
    <3>7. QED
      BY <3>1, <3>2, <3>3, <3>4, <3>5, <3>6 DEF M!NotYet
  <2>2. M!OwnersCancel'
    BY <1>9, SMTT(30) DEF M!Enter, M!MayEnter, M!Ends, M!Goes, M!NotYet,
      M!OwnersCancel, M!StatesAreOwned, M!TasksFollow, M!NewestPublishes,
      M!ClientsAreClosed
  <2>3. M!StatesAreOwned'
    BY <1>9 DEF M!Enter, M!MayEnter, M!Ends, M!Goes, M!NotYet,
      M!OwnersCancel, M!StatesAreOwned, M!TasksFollow, M!NewestPublishes,
      M!ClientsAreClosed
  <2>4. M!TasksFollow'
    <3>1. \A x \in M!States \ { s } :
            /\ task'[x] = task[x] /\ got'[x] = got[x] /\ client'[x] = client[x]
            /\ x \in notice' <=> x \in notice
      BY <1>9 DEF M!Enter, M!MayEnter, M!Ends, M!Goes
    <3>2. task'[s] = "ended" \/ (task'[s] = "connects" /\ client'[s] = "open")
      BY <1>9 DEF M!Enter, M!MayEnter, M!Ends, M!Goes, M!TasksFollow,
      M!Hears
    <3>3. UNCHANGED << version, cancelled, of, runner, active, tools >>
      BY <1>9 DEF M!Enter, M!MayEnter, M!Ends, M!Goes
    <3>4. ASSUME NEW x \in M!States, x \notin cancelled
          PROVE  /\ M!Hears(x)' => client'[x] = "open"
                 /\ task'[x] \in { "publishes", "republishes", "waits" } /\ x \notin notice' /\ got'[x] # 0
                    => got'[x] = version'
                 /\ task'[x] = "waits" /\ got'[x] # 0 /\ M!Active(of[x])' => tools' = << x, got'[x] >>
      <4>1. CASE x = s
        BY <3>2, <3>3, <3>4, <4>1 DEF M!TasksFollow, M!Hears
      <4>2. CASE x # s
        BY <3>1, <3>3, <3>4, <4>2 DEF M!TasksFollow, M!Hears
      <4>3. QED
        BY <4>1, <4>2
    <3>5. QED
      BY <3>3, <3>4 DEF M!TasksFollow, M!Hears
  <2>5. M!NewestPublishes'
    BY <1>9 DEF M!Enter, M!MayEnter, M!Ends, M!Goes, M!NotYet,
      M!OwnersCancel, M!StatesAreOwned, M!TasksFollow, M!NewestPublishes,
      M!ClientsAreClosed, M!Started
  <2>6. M!ClientsAreClosed'
    BY <1>9 DEF M!Enter, M!MayEnter, M!Ends, M!Goes, M!NotYet,
      M!OwnersCancel, M!StatesAreOwned, M!TasksFollow, M!NewestPublishes,
      M!ClientsAreClosed
  <2>7. QED
    BY <2>1, <2>2, <2>3, <2>4, <2>5, <2>6
<1>10. ASSUME NEW s \in M!States, M!Lists(s)
      PROVE  M!ServersInv'
  <2>1. M!NotYet'
    <3>1. (\A x \in M!States : x > made => of[x] = 0 /\ x \notin cancelled)'
      BY <1>10 DEF M!Lists, M!Ends, M!Goes, M!NotYet, M!OwnersCancel,
        M!StatesAreOwned, M!TasksFollow, M!NewestPublishes, M!ClientsAreClosed
    <3>2. (\A x \in M!States : x > made => \A q \in M!Runners : owns[q] # x)'
      BY <1>10 DEF M!Lists, M!Ends, M!Goes, M!NotYet, M!OwnersCancel,
        M!StatesAreOwned, M!TasksFollow, M!NewestPublishes, M!ClientsAreClosed
    <3>3. (\A x \in M!States : of[x] = 0 => task[x] = "none" /\ client[x] = "none")'
      BY <1>10 DEF M!Lists, M!Ends, M!Goes, M!NotYet, M!OwnersCancel,
        M!StatesAreOwned, M!TasksFollow, M!NewestPublishes, M!ClientsAreClosed
    <3>4. (\A q \in M!Runners : (q > runner \/ (q = runner /\ ~started)) => does[q] = "none")'
      BY <1>10 DEF M!Lists, M!Ends, M!Goes, M!NotYet, M!OwnersCancel,
        M!StatesAreOwned, M!TasksFollow, M!NewestPublishes, M!ClientsAreClosed
    <3>5. (\A q \in M!Runners : (q > runner \/ (q = runner /\ ~started)) => \A x \in M!States : of[x] # q)'
      BY <1>10 DEF M!Lists, M!Ends, M!Goes, M!NotYet, M!OwnersCancel,
        M!StatesAreOwned, M!TasksFollow, M!NewestPublishes, M!ClientsAreClosed
    <3>6. (started => does[runner] # "none")'
      BY <1>10 DEF M!Lists, M!Ends, M!Goes, M!NotYet, M!OwnersCancel,
        M!StatesAreOwned, M!TasksFollow, M!NewestPublishes, M!ClientsAreClosed
    <3>7. QED
      BY <3>1, <3>2, <3>3, <3>4, <3>5, <3>6 DEF M!NotYet
  <2>2. M!OwnersCancel'
    BY <1>10, SMTT(30) DEF M!Lists, M!Ends, M!Goes, M!NotYet, M!OwnersCancel,
      M!StatesAreOwned, M!TasksFollow, M!NewestPublishes, M!ClientsAreClosed
  <2>3. M!StatesAreOwned'
    BY <1>10 DEF M!Lists, M!Ends, M!Goes, M!NotYet, M!OwnersCancel,
      M!StatesAreOwned, M!TasksFollow, M!NewestPublishes, M!ClientsAreClosed
  <2>4. M!TasksFollow'
    <3>1. \A x \in M!States \ { s } :
            /\ task'[x] = task[x] /\ got'[x] = got[x] /\ client'[x] = client[x]
            /\ x \in notice' <=> x \in notice
      BY <1>10, SMTT(30) DEF M!Lists, M!Ends, M!Goes
    <3>2. /\ task'[s] = "ended" \/ (task'[s] = "publishes" /\ got'[s] = version)
          /\ s \notin cancelled => task'[s] = "ended" \/ client'[s] = "open"
      BY <1>10 DEF M!Lists, M!Ends, M!Goes, M!TasksFollow, M!Hears
    <3>3. UNCHANGED << version, cancelled, of, runner, active, tools >>
      BY <1>10 DEF M!Lists, M!Ends, M!Goes
    <3>4. ASSUME NEW x \in M!States, x \notin cancelled
          PROVE  /\ M!Hears(x)' => client'[x] = "open"
                 /\ task'[x] \in { "publishes", "republishes", "waits" } /\ x \notin notice' /\ got'[x] # 0
                    => got'[x] = version'
                 /\ task'[x] = "waits" /\ got'[x] # 0 /\ M!Active(of[x])' => tools' = << x, got'[x] >>
      <4>1. CASE x = s
        BY <3>2, <3>3, <3>4, <4>1 DEF M!TasksFollow, M!Hears
      <4>2. CASE x # s
        BY <3>1, <3>3, <3>4, <4>2 DEF M!TasksFollow, M!Hears
      <4>3. QED
        BY <4>1, <4>2
    <3>5. QED
      BY <3>3, <3>4 DEF M!TasksFollow, M!Hears
  <2>5. M!NewestPublishes'
    BY <1>10 DEF M!Lists, M!Ends, M!Goes, M!NotYet, M!OwnersCancel,
      M!StatesAreOwned, M!TasksFollow, M!NewestPublishes,
      M!ClientsAreClosed, M!Started
  <2>6. M!ClientsAreClosed'
    BY <1>10 DEF M!Lists, M!Ends, M!Goes, M!NotYet, M!OwnersCancel,
      M!StatesAreOwned, M!TasksFollow, M!NewestPublishes, M!ClientsAreClosed
  <2>7. QED
    BY <2>1, <2>2, <2>3, <2>4, <2>5, <2>6
<1>11. ASSUME NEW s \in M!States, M!Publish(s)
      PROVE  M!ServersInv'
  <2>1. M!NotYet'
    BY <1>11, SMTT(30) DEF M!Publish, M!MayPublish, M!Ends, M!Goes, M!NotYet,
      M!OwnersCancel, M!StatesAreOwned, M!TasksFollow, M!NewestPublishes,
      M!ClientsAreClosed
  <2>2. M!OwnersCancel'
    BY <1>11 DEF M!Publish, M!MayPublish, M!Ends, M!Goes, M!NotYet,
      M!OwnersCancel, M!StatesAreOwned, M!TasksFollow, M!NewestPublishes,
      M!ClientsAreClosed
  <2>3. M!StatesAreOwned'
    BY <1>11 DEF M!Publish, M!MayPublish, M!Ends, M!Goes, M!NotYet,
      M!OwnersCancel, M!StatesAreOwned, M!TasksFollow, M!NewestPublishes,
      M!ClientsAreClosed
  <2>4. M!TasksFollow'
    <3>1. \A x \in M!States \ { s } :
            /\ task'[x] = task[x] /\ got'[x] = got[x] /\ client'[x] = client[x]
            /\ x \in notice' <=> x \in notice
      BY <1>11 DEF M!Publish, M!MayPublish, M!Ends, M!Goes
    <3>2. \/ task'[s] = "ended" /\ tools' = tools
          \/ /\ task'[s] = "waits" /\ got'[s] = got[s] /\ notice' = notice
             /\ tools' = << s, got[s] >> /\ client' = client /\ task[s] \in { "publishes", "republishes" }
             /\ M!Active(of[s]) /\ s \notin cancelled
      BY <1>11 DEF M!Publish, M!MayPublish, M!Ends, M!Goes, M!TasksFollow,
      M!Hears
    <3>3. UNCHANGED << version, cancelled, of, runner, active >>
      BY <1>11 DEF M!Publish, M!MayPublish, M!Ends, M!Goes
    <3>4. ASSUME NEW x \in M!States, x \notin cancelled
          PROVE  /\ M!Hears(x)' => client'[x] = "open"
                 /\ task'[x] \in { "publishes", "republishes", "waits" } /\ x \notin notice' /\ got'[x] # 0
                    => got'[x] = version'
                 /\ task'[x] = "waits" /\ got'[x] # 0 /\ M!Active(of[x])' => tools' = << x, got'[x] >>
      <4>1. CASE x = s
        BY <3>2, <3>3, <3>4, <4>1 DEF M!TasksFollow, M!Hears
      <4>2. CASE x # s
        <5>1. M!Hears(x)' => client'[x] = "open"
          BY <3>1, <3>3, <3>4, <4>2 DEF M!TasksFollow, M!Hears
        <5>2. task'[x] \in { "publishes", "republishes", "waits" } /\ x \notin notice'
              /\ got'[x] # 0 => got'[x] = version'
          BY <3>1, <3>3, <3>4, <4>2 DEF M!TasksFollow
        <5>3. M!Active(of[s]) /\ s \notin cancelled => ~M!Active(of[x])
          <6>1. M!Active(of[s]) /\ s \notin cancelled => owns[runner] = s
            BY <1>c
          <6>2. M!Active(of[x]) => owns[runner] = x
            BY <1>c, <3>4
          <6>3. QED
            BY <4>2, <6>1, <6>2
        <5>4. QED
          BY <3>1, <3>2, <3>3, <3>4, <4>2, <5>1, <5>2, <5>3 DEF M!TasksFollow
      <4>3. QED
        BY <4>1, <4>2
    <3>5. QED
      BY <3>3, <3>4 DEF M!TasksFollow, M!Hears
  <2>5. M!NewestPublishes'
    BY <1>11 DEF M!Publish, M!MayPublish, M!Ends, M!Goes, M!NotYet,
      M!OwnersCancel, M!StatesAreOwned, M!TasksFollow, M!NewestPublishes,
      M!ClientsAreClosed, M!Started
  <2>6. M!ClientsAreClosed'
    BY <1>11 DEF M!Publish, M!MayPublish, M!Ends, M!Goes, M!NotYet,
      M!OwnersCancel, M!StatesAreOwned, M!TasksFollow, M!NewestPublishes,
      M!ClientsAreClosed
  <2>7. QED
    BY <2>1, <2>2, <2>3, <2>4, <2>5, <2>6
<1>12. ASSUME NEW s \in M!States, M!ReadNotice(s)
      PROVE  M!ServersInv'
  <2>1. M!NotYet'
    BY <1>12 DEF M!ReadNotice, M!Goes, M!NotYet, M!OwnersCancel,
      M!StatesAreOwned, M!TasksFollow, M!NewestPublishes, M!ClientsAreClosed
  <2>2. M!OwnersCancel'
    BY <1>12 DEF M!ReadNotice, M!Goes, M!NotYet, M!OwnersCancel,
      M!StatesAreOwned, M!TasksFollow, M!NewestPublishes, M!ClientsAreClosed
  <2>3. M!StatesAreOwned'
    BY <1>12 DEF M!ReadNotice, M!Goes, M!NotYet, M!OwnersCancel,
      M!StatesAreOwned, M!TasksFollow, M!NewestPublishes, M!ClientsAreClosed
  <2>4. M!TasksFollow'
    BY <1>12 DEF M!ReadNotice, M!Goes, M!NotYet, M!OwnersCancel,
      M!StatesAreOwned, M!TasksFollow, M!NewestPublishes,
      M!ClientsAreClosed, M!Hears
  <2>5. M!NewestPublishes'
    BY <1>12 DEF M!ReadNotice, M!Goes, M!NotYet, M!OwnersCancel,
      M!StatesAreOwned, M!TasksFollow, M!NewestPublishes,
      M!ClientsAreClosed, M!Started
  <2>6. M!ClientsAreClosed'
    BY <1>12 DEF M!ReadNotice, M!Goes, M!NotYet, M!OwnersCancel,
      M!StatesAreOwned, M!TasksFollow, M!NewestPublishes, M!ClientsAreClosed
  <2>7. QED
    BY <2>1, <2>2, <2>3, <2>4, <2>5, <2>6
<1>13. ASSUME NEW s \in M!States, M!Relists(s)
      PROVE  M!ServersInv'
  <2>1. M!NotYet'
    <3>1. (\A x \in M!States : x > made => of[x] = 0 /\ x \notin cancelled)'
      BY <1>13 DEF M!Relists, M!Goes, M!NotYet, M!OwnersCancel,
        M!StatesAreOwned, M!TasksFollow, M!NewestPublishes, M!ClientsAreClosed
    <3>2. (\A x \in M!States : x > made => \A q \in M!Runners : owns[q] # x)'
      BY <1>13 DEF M!Relists, M!Goes, M!NotYet, M!OwnersCancel,
        M!StatesAreOwned, M!TasksFollow, M!NewestPublishes, M!ClientsAreClosed
    <3>3. (\A x \in M!States : of[x] = 0 => task[x] = "none" /\ client[x] = "none")'
      BY <1>13 DEF M!Relists, M!Goes, M!NotYet, M!OwnersCancel,
        M!StatesAreOwned, M!TasksFollow, M!NewestPublishes, M!ClientsAreClosed
    <3>4. (\A q \in M!Runners : (q > runner \/ (q = runner /\ ~started)) => does[q] = "none")'
      BY <1>13 DEF M!Relists, M!Goes, M!NotYet, M!OwnersCancel,
        M!StatesAreOwned, M!TasksFollow, M!NewestPublishes, M!ClientsAreClosed
    <3>5. (\A q \in M!Runners : (q > runner \/ (q = runner /\ ~started)) => \A x \in M!States : of[x] # q)'
      BY <1>13 DEF M!Relists, M!Goes, M!NotYet, M!OwnersCancel,
        M!StatesAreOwned, M!TasksFollow, M!NewestPublishes, M!ClientsAreClosed
    <3>6. (started => does[runner] # "none")'
      BY <1>13 DEF M!Relists, M!Goes, M!NotYet, M!OwnersCancel,
        M!StatesAreOwned, M!TasksFollow, M!NewestPublishes, M!ClientsAreClosed
    <3>7. QED
      BY <3>1, <3>2, <3>3, <3>4, <3>5, <3>6 DEF M!NotYet
  <2>2. M!OwnersCancel'
    BY <1>13 DEF M!Relists, M!Goes, M!NotYet, M!OwnersCancel,
      M!StatesAreOwned, M!TasksFollow, M!NewestPublishes, M!ClientsAreClosed
  <2>3. M!StatesAreOwned'
    BY <1>13 DEF M!Relists, M!Goes, M!NotYet, M!OwnersCancel,
      M!StatesAreOwned, M!TasksFollow, M!NewestPublishes, M!ClientsAreClosed
  <2>4. M!TasksFollow'
    <3>1. \A x \in M!States \ { s } :
            /\ task'[x] = task[x] /\ got'[x] = got[x] /\ client'[x] = client[x]
            /\ x \in notice' <=> x \in notice
      BY <1>13 DEF M!Relists, M!Goes
    <3>2. /\ client' = client /\ task[s] = "lists"
          /\ \/ task'[s] = "republishes" /\ got'[s] = version
             \/ task'[s] = "waits" /\ got'[s] = 0
      BY <1>13 DEF M!Relists, M!Goes, M!TasksFollow, M!Hears
    <3>3. UNCHANGED << version, cancelled, of, runner, active, tools >>
      BY <1>13 DEF M!Relists, M!Goes
    <3>4. ASSUME NEW x \in M!States, x \notin cancelled
          PROVE  /\ M!Hears(x)' => client'[x] = "open"
                 /\ task'[x] \in { "publishes", "republishes", "waits" } /\ x \notin notice' /\ got'[x] # 0
                    => got'[x] = version'
                 /\ task'[x] = "waits" /\ got'[x] # 0 /\ M!Active(of[x])' => tools' = << x, got'[x] >>
      <4>1. CASE x = s
        BY <3>2, <3>3, <3>4, <4>1 DEF M!TasksFollow, M!Hears
      <4>2. CASE x # s
        BY <3>1, <3>3, <3>4, <4>2 DEF M!TasksFollow, M!Hears
      <4>3. QED
        BY <4>1, <4>2
    <3>5. QED
      BY <3>3, <3>4 DEF M!TasksFollow, M!Hears
  <2>5. M!NewestPublishes'
    BY <1>13 DEF M!Relists, M!Goes, M!NotYet, M!OwnersCancel,
      M!StatesAreOwned, M!TasksFollow, M!NewestPublishes,
      M!ClientsAreClosed, M!Started
  <2>6. M!ClientsAreClosed'
    BY <1>13 DEF M!Relists, M!Goes, M!NotYet, M!OwnersCancel,
      M!StatesAreOwned, M!TasksFollow, M!NewestPublishes, M!ClientsAreClosed
  <2>7. QED
    BY <2>1, <2>2, <2>3, <2>4, <2>5, <2>6
<1>14. ASSUME NEW r \in M!Runners, M!OwnerWakes(r)
      PROVE  M!ServersInv'
  <2>1. M!NotYet'
    BY <1>14 DEF M!OwnerWakes, M!OwnerIs, M!Cancels, M!NotYet,
      M!OwnersCancel, M!StatesAreOwned, M!TasksFollow, M!NewestPublishes,
      M!ClientsAreClosed
  <2>2. M!OwnersCancel'
    BY <1>14 DEF M!OwnerWakes, M!OwnerIs, M!Cancels, M!NotYet,
      M!OwnersCancel, M!StatesAreOwned, M!TasksFollow, M!NewestPublishes,
      M!ClientsAreClosed
  <2>3. M!StatesAreOwned'
    BY <1>14 DEF M!OwnerWakes, M!OwnerIs, M!Cancels, M!NotYet,
      M!OwnersCancel, M!StatesAreOwned, M!TasksFollow, M!NewestPublishes,
      M!ClientsAreClosed
  <2>4. M!TasksFollow'
    BY <1>14 DEF M!OwnerWakes, M!OwnerIs, M!Cancels, M!NotYet,
      M!OwnersCancel, M!StatesAreOwned, M!TasksFollow, M!NewestPublishes,
      M!ClientsAreClosed, M!Hears
  <2>5. M!NewestPublishes'
    BY <1>14 DEF M!OwnerWakes, M!OwnerIs, M!Cancels, M!NotYet,
      M!OwnersCancel, M!StatesAreOwned, M!TasksFollow, M!NewestPublishes,
      M!ClientsAreClosed, M!Started
  <2>6. M!ClientsAreClosed'
    BY <1>14 DEF M!OwnerWakes, M!OwnerIs, M!Cancels, M!NotYet,
      M!OwnersCancel, M!StatesAreOwned, M!TasksFollow, M!NewestPublishes,
      M!ClientsAreClosed
  <2>7. QED
    BY <2>1, <2>2, <2>3, <2>4, <2>5, <2>6
<1>15. ASSUME NEW r \in M!Runners, M!OwnerCloses(r)
      PROVE  M!ServersInv'
  <2>0. \/ owns' = owns
        \/ owns' = [ owns EXCEPT ![r] = 0 ]
    BY <1>15 DEF M!OwnerCloses, M!ClosesClients, M!OwnerIs, M!Owns
  <2>1. M!NotYet'
    BY <1>15, SMTT(30) DEF M!OwnerCloses, M!ClosesClients, M!OwnerIs, M!Owns,
      M!NotYet, M!OwnersCancel, M!StatesAreOwned, M!TasksFollow,
      M!NewestPublishes, M!ClientsAreClosed
  <2>2. M!OwnersCancel'
    BY <1>15, SMTT(30) DEF M!OwnerCloses, M!ClosesClients, M!OwnerIs, M!Owns,
      M!NotYet, M!OwnersCancel, M!StatesAreOwned, M!TasksFollow,
      M!NewestPublishes, M!ClientsAreClosed
  <2>3. M!StatesAreOwned'
    <3>1. (\A x, q \in M!Runners : owns[x] = owns[q] /\ owns[x] # 0 => x = q)'
      <4>1. CASE owns' = owns
        BY <2>0, <4>1
        DEF M!NotYet, M!OwnersCancel, M!StatesAreOwned, M!TasksFollow,
            M!NewestPublishes, M!ClientsAreClosed
      <4>2. CASE owns' = [ owns EXCEPT ![r] = 0 ]
        BY <2>0, <4>2
        DEF M!NotYet, M!OwnersCancel, M!StatesAreOwned, M!TasksFollow,
            M!NewestPublishes, M!ClientsAreClosed
      <4>3. QED
        BY <2>0, <4>1, <4>2
    <3>2. (\A x \in M!States : of[x] # 0 /\ x \notin cancelled => owns[of[x]] = x)'
      BY <1>15 DEF M!OwnerCloses, M!ClosesClients, M!OwnerIs, M!Owns,
        M!NotYet, M!OwnersCancel, M!StatesAreOwned, M!TasksFollow,
        M!NewestPublishes, M!ClientsAreClosed
    <3>3. (closer.does = "closes" => closer.owns \in cancelled)'
      BY <1>15 DEF M!OwnerCloses, M!ClosesClients, M!OwnerIs, M!Owns,
        M!NotYet, M!OwnersCancel, M!StatesAreOwned, M!TasksFollow,
        M!NewestPublishes, M!ClientsAreClosed
    <3>4. QED
      BY <3>1, <3>2, <3>3 DEF M!StatesAreOwned
  <2>4. M!TasksFollow'
    BY <1>15 DEF M!OwnerCloses, M!ClosesClients, M!OwnerIs, M!Owns,
      M!NotYet, M!OwnersCancel, M!StatesAreOwned, M!TasksFollow,
      M!NewestPublishes, M!ClientsAreClosed, M!Hears
  <2>5. M!NewestPublishes'
    BY <1>15 DEF M!OwnerCloses, M!ClosesClients, M!OwnerIs, M!Owns,
      M!NotYet, M!OwnersCancel, M!StatesAreOwned, M!TasksFollow,
      M!NewestPublishes, M!ClientsAreClosed, M!Started
  <2>6. M!ClientsAreClosed'
    BY <1>15 DEF M!OwnerCloses, M!ClosesClients, M!OwnerIs, M!Owns,
      M!NotYet, M!OwnersCancel, M!StatesAreOwned, M!TasksFollow,
      M!NewestPublishes, M!ClientsAreClosed
  <2>7. QED
    BY <2>1, <2>2, <2>3, <2>4, <2>5, <2>6
<1>16. ASSUME NEW r \in M!Runners, M!OwnerReplaces(r)
      PROVE  M!ServersInv'
  <2>0. /\ UNCHANGED << runner, active, started, of, cancelled, client, closer >>
        /\ does[r] = "replaces"
        /\ \/ /\ does' = [ does EXCEPT ![r] = "leaves" ] /\ ~M!Active(r)
              /\ UNCHANGED << owns, made, current >>
           \/ /\ does' = [ does EXCEPT ![r] = "starts" ]
              /\ owns' = [ owns EXCEPT ![r] = made + 1 ]
              /\ made + 1 \in M!States /\ made' = made + 1 /\ current' = made + 1 /\ r = runner /\ active
    BY <1>16 DEF M!OwnerReplaces, M!MayReplace, M!OwnerIs, M!Owns
  <2>a. /\ owns[r] \in M!States /\ of[owns[r]] = r /\ owns[r] \in cancelled
    BY <2>0 DEF M!OwnersCancel
  <2>d. UNCHANGED << of, cancelled, client, runner, active >> /\ does[r] = "replaces"
    BY <2>0
  <2>b. \A q \in M!Runners \ { r } : does'[q] = does[q] /\ owns'[q] = owns[q]
    BY <2>0
  <2>c. \/ does'[r] = "leaves" /\ owns'[r] = owns[r] /\ ~M!Active(r)
        \/ /\ does'[r] = "starts" /\ owns'[r] = made + 1 /\ made + 1 \in M!States
           /\ of[made + 1] = 0 /\ \A q \in M!Runners : owns[q] # made + 1
    <3>1. CASE ~M!Active(r)
      BY <2>0, <3>1
    <3>2. CASE M!Active(r)
      BY <2>0, <3>2 DEF M!NotYet
    <3>3. QED
      BY <3>1, <3>2
  <2>1. M!NotYet'
    BY <1>16, SMTT(30) DEF M!OwnerReplaces, M!MayReplace, M!OwnerIs, M!Owns,
      M!NotYet, M!OwnersCancel, M!StatesAreOwned, M!TasksFollow,
      M!NewestPublishes, M!ClientsAreClosed
  <2>2. M!OwnersCancel'
    <3>1. ASSUME NEW q \in M!Runners
          PROVE  /\ does'[q] \in M!Works <=> owns'[q] # 0
                 /\ does'[q] \in { "waits", "closes", "replaces", "leaves" } =>
                      of[owns'[q]] = q
                 /\ does'[q] = "starts" => of[owns'[q]] = 0
                 /\ does'[q] \in { "closes", "replaces", "leaves" } =>
                      owns'[q] \in cancelled
                 /\ does'[q] = "replaces" => client[owns'[q]] # "open"
                 /\ does'[q] \in { "leaves", "ended" } => ~M!Active(q)
      <4>1. CASE q # r
        BY <2>b, <4>1 DEF M!OwnersCancel
      <4>2. CASE q = r /\ owns'[r] = owns[r]
        <5>1. /\ does'[r] = "leaves" /\ ~M!Active(r) /\ owns[r] # 0
              /\ of[owns[r]] = r /\ owns[r] \in cancelled
          BY <2>a, <2>c, <4>2
        <5>2. QED
          BY <4>2, <5>1
      <4>3. CASE q = r /\ owns'[r] # owns[r]
        <5>1. /\ does'[r] = "starts" /\ owns'[r] = made + 1
              /\ made + 1 # 0 /\ of[made + 1] = 0
          BY <2>c, <4>3
        <5>2. QED
          BY <4>3, <5>1
      <4>4. QED
        BY <4>1, <4>2, <4>3
    <3>2. QED
      BY <2>d, <3>1 DEF M!OwnersCancel
  <2>3. M!StatesAreOwned'
    <3>1. (\A x, q \in M!Runners : owns[x] = owns[q] /\ owns[x] # 0 => x = q)'
      <4>1. SUFFICES ASSUME NEW x \in M!Runners, NEW q \in M!Runners, x # q,
                            owns'[x] = owns'[q], owns'[x] # 0
                     PROVE  FALSE
        OBVIOUS
      <4>2. CASE x # r /\ q # r
        BY <2>b, <4>1, <4>2 DEF M!StatesAreOwned
      <4>3. \A p \in M!Runners \ { r } : owns[p] # owns'[r]
        BY <2>a, <2>c DEF M!StatesAreOwned
      <4>4. QED
        BY <2>b, <4>1, <4>2, <4>3
    <3>2. (\A x \in M!States : of[x] # 0 /\ x \notin cancelled => owns[of[x]] = x)'
      BY <1>16 DEF M!OwnerReplaces, M!MayReplace, M!OwnerIs, M!Owns,
        M!NotYet, M!OwnersCancel, M!StatesAreOwned, M!TasksFollow,
        M!NewestPublishes, M!ClientsAreClosed
    <3>3. (closer.does = "closes" => closer.owns \in cancelled)'
      BY <1>16 DEF M!OwnerReplaces, M!MayReplace, M!OwnerIs, M!Owns,
        M!NotYet, M!OwnersCancel, M!StatesAreOwned, M!TasksFollow,
        M!NewestPublishes, M!ClientsAreClosed
    <3>4. QED
      BY <3>1, <3>2, <3>3 DEF M!StatesAreOwned
  <2>4. M!TasksFollow'
    BY <1>16 DEF M!OwnerReplaces, M!MayReplace, M!OwnerIs, M!Owns,
      M!NotYet, M!OwnersCancel, M!StatesAreOwned, M!TasksFollow,
      M!NewestPublishes, M!ClientsAreClosed, M!Hears
  <2>5. M!NewestPublishes'
    BY <1>16, SMTT(30) DEF M!OwnerReplaces, M!MayReplace, M!OwnerIs, M!Owns,
      M!NotYet, M!OwnersCancel, M!StatesAreOwned, M!TasksFollow,
      M!NewestPublishes, M!ClientsAreClosed, M!Started
  <2>6. M!ClientsAreClosed'
    BY <1>16 DEF M!OwnerReplaces, M!MayReplace, M!OwnerIs, M!Owns,
      M!NotYet, M!OwnersCancel, M!StatesAreOwned, M!TasksFollow,
      M!NewestPublishes, M!ClientsAreClosed
  <2>7. QED
    BY <2>1, <2>2, <2>3, <2>4, <2>5, <2>6
<1>17. ASSUME NEW r \in M!Runners, M!OwnerStarts(r)
      PROVE  M!ServersInv'
  <2>1. M!NotYet'
    BY <1>17, SMTT(30) DEF M!OwnerStarts, M!Start, M!Goes, M!OwnerIs, M!NotYet,
      M!OwnersCancel, M!StatesAreOwned, M!TasksFollow, M!NewestPublishes,
      M!ClientsAreClosed
  <2>2. M!OwnersCancel'
    BY <1>17 DEF M!OwnerStarts, M!Start, M!Goes, M!OwnerIs, M!NotYet,
      M!OwnersCancel, M!StatesAreOwned, M!TasksFollow, M!NewestPublishes,
      M!ClientsAreClosed
  <2>3. M!StatesAreOwned'
    BY <1>17, SMTT(30) DEF M!OwnerStarts, M!Start, M!Goes, M!OwnerIs, M!NotYet,
      M!OwnersCancel, M!StatesAreOwned, M!TasksFollow, M!NewestPublishes,
      M!ClientsAreClosed
  <2>4. M!TasksFollow'
    BY <1>17 DEF M!OwnerStarts, M!Start, M!Goes, M!OwnerIs, M!NotYet,
      M!OwnersCancel, M!StatesAreOwned, M!TasksFollow, M!NewestPublishes,
      M!ClientsAreClosed, M!Hears
  <2>5. M!NewestPublishes'
    BY <1>17 DEF M!OwnerStarts, M!Start, M!Goes, M!OwnerIs, M!NotYet,
      M!OwnersCancel, M!StatesAreOwned, M!TasksFollow, M!NewestPublishes,
      M!ClientsAreClosed, M!Started
  <2>6. M!ClientsAreClosed'
    BY <1>17 DEF M!OwnerStarts, M!Start, M!Goes, M!OwnerIs, M!NotYet,
      M!OwnersCancel, M!StatesAreOwned, M!TasksFollow, M!NewestPublishes,
      M!ClientsAreClosed
  <2>7. QED
    BY <2>1, <2>2, <2>3, <2>4, <2>5, <2>6
<1>18. CASE UNCHANGED mcpVars
  BY <1>18 DEF mcpVars, M!NotYet, M!OwnersCancel, M!StatesAreOwned, M!TasksFollow,
      M!NewestPublishes, M!ClientsAreClosed, M!Hears, M!Started
<1>19. QED
  BY <1>1, <1>2, <1>3, <1>4, <1>5, <1>6, <1>7, <1>8, <1>9, <1>10, <1>11, <1>12, <1>13, <1>14, <1>15, <1>16, <1>17, <1>18
  DEF M!Next, M!Task, M!Owner

\* The newest state of a session is owned by the task of its newest runner,
\* which started it: what its own task last published is what the session has.
LEMMA NewestCatchesUp == M!ServersInv => M!ToolsCatchUp
<1> SUFFICES ASSUME M!ServersInv, active, started, task[current] = "waits",
                    current \notin cancelled \cup notice, got[current] # 0
             PROVE  tools = << current, version >>
  BY DEF M!ToolsCatchUp
<1> USE SessionsAssumption
<1>1. /\ runner \in M!Runners /\ current = owns[runner]
      /\ does[runner] \in { "waits", "closes", "replaces", "starts" }
      /\ current \in M!States
  BY DEF M!ServersInv, M!TypeOK, M!NewestPublishes, M!NotYet, M!OwnersCancel,
         M!Works, M!Active
<1>2. of[current] # 0
  BY <1>1 DEF M!ServersInv, M!NotYet
<1>3. of[current] = runner
  BY <1>1, <1>2 DEF M!ServersInv, M!OwnersCancel
<1>4. tools = << current, got[current] >> /\ got[current] = version
  BY <1>1, <1>3 DEF M!ServersInv, M!TasksFollow, M!Active
<1>5. QED
  BY <1>4

\* For any number of runners and of states of a server, however its clients
\* fail and whenever the configuration changes, the session is replaced or shut
\* down: what the session has of the server is its newest connection, no older
\* one publishes, no open connection is without an owner, and no change that
\* was announced is lost.
THEOREM ToolsFollow == Spec => []ToolsFollowServer
<1>1. Init => M!ServersInv
  BY ServersInit DEF Init
<1>2. M!ServersInv /\ [Next]_vars => M!ServersInv'
  BY ServersStep DEF Next, vars, mcpVars
<1>3. M!ServersInv => ToolsFollowServer
  BY NewestCatchesUp
  DEF ToolsFollowServer, M!ToolsFollowServer, M!ServersInv
<1>4. QED
  BY <1>1, <1>2, <1>3, PTL DEF Spec

-----------------------------------------------------------------------------
(* The sessions of the web server.                                         *)

LEMMA WebInit == W!Init => W!WebInv
<1> SUFFICES ASSUME W!Init
             PROVE  W!WebInv
  OBVIOUS
<1> USE WebAssumption
    DEF W!Init, W!All, W!Each, W!Ids
<1>1. W!TypeOK
  BY DEF W!TypeOK, W!Places, W!Keys, W!MaybeRequest
<1>2. W!OwnIds /\ W!LateAreRefused
  BY DEF W!OwnIds, W!LateAreRefused
<1>3. \A r \in Requests :
        pc[r] \in { "idle", "refused" } /\ life[r] = "none" /\ slot[r] = Nobody
  OBVIOUS
<1>4. W!OneEach /\ W!OneWriter
  BY <1>3 DEF W!OneEach, W!OneOf, W!Early, W!Deleting, W!OneWriter
<1>5. W!Buried
  BY <1>3 DEF W!Buried, W!Deleting
<1>6. W!KeysAgree /\ W!EnteredIsFound
  BY <1>3 DEF W!KeysAgree, W!EnteredIsFound
<1> QED
  BY <1>1, <1>2, <1>4, <1>5, <1>6 DEF W!WebInv


\* What a request that goes on, or ends, does to the types.
LEMMA TypesOfMoves ==
  ASSUME W!TypeOK, NEW r \in Requests
  PROVE  /\ \A to \in W!Places :
              W!Goes(r, to) => pc' \in [ Requests -> W!Places ]
         /\ \A how \in W!Places : W!Ends(r, how) =>
              /\ pc' \in [ Requests -> W!Places ]
              /\ writes' \in [ W!Ids -> W!MaybeRequest ]
         /\ W!Served(r) =>
              /\ pc' \in [ Requests -> W!Places ]
              /\ writes' \in [ W!Ids -> W!MaybeRequest ]
         /\ \A s \in W!MaybeRequest : W!Given(r, s) =>
              /\ pc' \in [ Requests -> W!Places ]
              /\ writes' \in [ W!Ids -> W!MaybeRequest ]
              /\ slot' \in [ Requests -> W!MaybeRequest ]
<1>1. \A to \in W!Places : W!Goes(r, to) => pc' \in [ Requests -> W!Places ]
  BY DEF W!Goes, W!TypeOK
<1>2. W!Unlocked(r) \in [ W!Ids -> W!MaybeRequest ]
  BY DEF W!Unlocked, W!TypeOK, W!MaybeRequest
<1>3. \A how \in W!Places : W!Ends(r, how) =>
        /\ pc' \in [ Requests -> W!Places ]
        /\ writes' \in [ W!Ids -> W!MaybeRequest ]
  BY <1>1, <1>2 DEF W!Ends
<1>4. "has" \in W!Places /\ "answered" \in W!Places
  BY DEF W!Places
<1>5. W!Served(r) =>
        /\ pc' \in [ Requests -> W!Places ]
        /\ writes' \in [ W!Ids -> W!MaybeRequest ]
  BY <1>1, <1>3, <1>4 DEF W!Served, W!TypeOK
<1> QED
  BY <1>1, <1>3, <1>5 DEF W!Given, W!TypeOK

\* A step of the pool keeps the types.
LEMMA WebTypes == W!TypeOK /\ W!OneEach /\ W!Next => W!TypeOK'
<1> SUFFICES ASSUME W!TypeOK, W!OneEach, W!Next PROVE W!TypeOK'
  OBVIOUS
<1> USE WebAssumption
    DEF W!TypeOK, W!disk, W!pool, W!locks, W!requests, W!history, W!Id
<1>0. /\ \A r \in Requests : IdOf[r] \in W!Ids
      /\ Requests \subseteq W!MaybeRequest /\ Nobody \in W!MaybeRequest
  BY DEF W!Ids, W!MaybeRequest
<1>1. ASSUME NEW r \in Requests, W!Begin(r)
      PROVE  W!TypeOK'
  <2>1. UNCHANGED << saved, tombs, removed, created, named, life, slots,
                     opening, slot, chain, snap, seen, running >>
    BY <1>1 DEF W!Begin, W!Writes
  <2>2. pc' \in [ Requests -> W!Places ]
    BY <1>0, <1>1, TypesOfMoves DEF W!Begin, W!Writes, W!Places
  <2>3. writes' \in [ W!Ids -> W!MaybeRequest ]
    BY <1>0, <1>1, TypesOfMoves DEF W!Begin, W!Writes, W!Places
  <2>4. late' \subseteq Requests
    BY <1>0, <1>1, TypesOfMoves DEF W!Begin, W!Writes
  <2> QED
    BY <2>1, <2>2, <2>3, <2>4
<1>2. ASSUME NEW r \in Requests, W!Stat(r)
      PROVE  W!TypeOK'
  <2>1. UNCHANGED << saved, tombs, removed, created, named, life, slots,
                     opening, writes, slot, chain, snap, running, late >>
    BY <1>2 DEF W!Stat, W!Sees, W!IsDeleted
  <2>2. pc' \in [ Requests -> W!Places ]
    BY <1>0, <1>2, TypesOfMoves DEF W!Stat, W!Sees, W!IsDeleted, W!Places
  <2>3. seen' \subseteq Requests
    BY <1>0, <1>2, TypesOfMoves DEF W!Stat, W!Sees, W!IsDeleted
  <2> QED
    BY <2>1, <2>2, <2>3
<1>3. ASSUME NEW r \in Requests, W!Stated(r)
      PROVE  W!TypeOK'
  <2>1. UNCHANGED << saved, tombs, removed, created, named, life, slots,
                     opening, chain, snap, seen, running, late >>
    BY <1>3 DEF W!Stated, W!Writes
  <2>2. pc' \in [ Requests -> W!Places ]
    BY <1>0, <1>3, TypesOfMoves DEF W!Stated, W!Writes, W!Places
  <2>3. slot' \in [ Requests -> W!MaybeRequest ]
    <3>1. /\ slots[W!Id(r)] \in W!MaybeRequest
          /\ opening[W!Id(r)] \in W!MaybeRequest
      BY <1>0
    <3>2. \/ UNCHANGED slot \/ W!Given(r, slots[W!Id(r)])
          \/ slot' = [ slot EXCEPT ![r] = opening[W!Id(r)] ]
      BY <1>3 DEF W!Stated, W!Writes
    <3> QED
      BY <3>1, <3>2, TypesOfMoves
  <2>4. writes' \in [ W!Ids -> W!MaybeRequest ]
    BY <1>0, <1>3, TypesOfMoves DEF W!Stated, W!Writes, W!Places
  <2> QED
    BY <2>1, <2>2, <2>3, <2>4
<1>4. ASSUME NEW r \in Requests, W!List(r)
      PROVE  W!TypeOK'
  <2>1. UNCHANGED << saved, tombs, removed, created, named, life, slots,
                     opening, writes, slot, chain, snap, running, late >>
    BY <1>4 DEF W!List, W!Sees
  <2>2. pc' \in [ Requests -> W!Places ]
    BY <1>0, <1>4, TypesOfMoves DEF W!List, W!Sees, W!Places
  <2>3. seen' \subseteq Requests
    BY <1>0, <1>4, TypesOfMoves DEF W!List, W!Sees
  <2> QED
    BY <2>1, <2>2, <2>3
<1>5. ASSUME NEW r \in Requests, W!Read(r)
      PROVE  W!TypeOK'
  <2>1. UNCHANGED << saved, tombs, removed, created, named, life, slots,
                     opening, writes, slot, chain, snap, running, late >>
    BY <1>5 DEF W!Read, W!Sees
  <2>2. pc' \in [ Requests -> W!Places ]
    BY <1>0, <1>5, TypesOfMoves DEF W!Read, W!Sees, W!Places
  <2>3. seen' \subseteq Requests
    BY <1>0, <1>5, TypesOfMoves DEF W!Read, W!Sees
  <2> QED
    BY <2>1, <2>2, <2>3
<1>6. ASSUME NEW r \in Requests, W!Open(r)
      PROVE  W!TypeOK'
  <2>1. UNCHANGED << saved, tombs, removed, created, named, life, slots,
                     chain, snap, seen, running, late >>
    BY <1>6 DEF W!Open, W!Writes
  <2>2. pc' \in [ Requests -> W!Places ]
    BY <1>0, <1>6, TypesOfMoves DEF W!Open, W!Writes, W!Places
  <2>3. slot' \in [ Requests -> W!MaybeRequest ]
    <3>1. /\ slots[W!Id(r)] \in W!MaybeRequest
          /\ opening[W!Id(r)] \in W!MaybeRequest
      BY <1>0
    <3>2. \/ UNCHANGED slot \/ W!Given(r, slots[W!Id(r)])
          \/ slot' = [ slot EXCEPT ![r] = opening[W!Id(r)] ]
      BY <1>6 DEF W!Open, W!Writes
    <3> QED
      BY <3>1, <3>2, TypesOfMoves
  <2>4. writes' \in [ W!Ids -> W!MaybeRequest ]
    BY <1>0, <1>6, TypesOfMoves DEF W!Open, W!Writes, W!Places
  <2>5. opening' \in [ W!Ids -> W!MaybeRequest ]
    <3>1. opening' = [ opening EXCEPT ![W!Id(r)] = r ] \/ UNCHANGED opening
      BY <1>6 DEF W!Open
    <3> QED
      BY <1>0, <3>1
  <2> QED
    BY <2>1, <2>2, <2>3, <2>4, <2>5
<1>7. ASSUME NEW r \in Requests, W!Own(r)
      PROVE  W!TypeOK'
  <2>1. UNCHANGED << saved, tombs, removed, created, slots, slot, chain, snap,
                     seen, running, late >>
    BY <1>7 DEF W!Own, W!MayOwn, W!NotOpened
  <2>2. pc' \in [ Requests -> W!Places ]
    BY <1>0, <1>7, TypesOfMoves DEF W!Own, W!MayOwn, W!NotOpened, W!Places
  <2>3. named' \in [ W!Ids -> SUBSET (Requests \cup { Other }) ]
    <3>1. CASE named[W!Id(r)] = { }
      <4>1. named' = [ named EXCEPT ![W!Id(r)] = named[W!Id(r)] \cup { r } ]
        BY <1>7, <3>1 DEF W!Own, W!MayOwn, W!NotOpened
      <4> QED
        BY <1>0, <4>1
    <3> QED
      BY <1>7, <3>1 DEF W!Own, W!MayOwn, W!NotOpened
  <2>4. life' \in [ Requests -> { "none", "made", "live", "gone" } ]
    BY <1>0, <1>7, TypesOfMoves DEF W!Own, W!MayOwn, W!NotOpened
  <2>5. writes' \in [ W!Ids -> W!MaybeRequest ]
    BY <1>0, <1>7, TypesOfMoves DEF W!Own, W!MayOwn, W!NotOpened, W!Places
  <2>6. opening' \in [ W!Ids -> W!MaybeRequest ]
    <3>1. opening' = [ opening EXCEPT ![W!Id(r)] = Nobody ] \/ UNCHANGED opening
      BY <1>7 DEF W!Own, W!MayOwn, W!NotOpened
    <3> QED
      BY <1>0, <3>1
  <2> QED
    BY <2>1, <2>2, <2>3, <2>4, <2>5, <2>6
<1>8. ASSUME NEW r \in Requests, W!Build(r)
      PROVE  W!TypeOK'
  <2>1. UNCHANGED << saved, tombs, removed, created, chain, snap, seen,
                     running, late >>
    BY <1>8 DEF W!Build, W!NotOpened, W!Leave, W!Writes
  <2>2. pc' \in [ Requests -> W!Places ]
    BY <1>0, <1>8, TypesOfMoves
    DEF W!Build, W!NotOpened, W!Leave, W!Writes, W!Places
  <2>3. writes' \in [ W!Ids -> W!MaybeRequest ]
    BY <1>0, <1>8, TypesOfMoves
    DEF W!Build, W!NotOpened, W!Leave, W!Writes, W!Places
  <2>4. opening' \in [ W!Ids -> W!MaybeRequest ]
    <3>1. \/ opening' = [ opening EXCEPT ![W!Id(r)] = Nobody ]
      BY <1>8 DEF W!Build, W!NotOpened, W!Leave, W!Writes
    <3> QED
      BY <1>0, <3>1
  <2>5. slot' \in [ Requests -> W!MaybeRequest ]
    BY <1>0, <1>8, TypesOfMoves
    DEF W!Build, W!NotOpened, W!Leave, W!Writes, W!Places
  <2>6. slots' \in [ W!Ids -> W!MaybeRequest ]
    <3>1. \/ slots' = [ slots EXCEPT ![W!Id(r)] = r ] \/ UNCHANGED slots
      BY <1>8 DEF W!Build, W!NotOpened, W!Leave, W!Writes
    <3> QED
      BY <1>0, <3>1
  <2>7. life' \in [ Requests -> { "none", "made", "live", "gone" } ]
    BY <1>0, <1>8, TypesOfMoves DEF W!Build, W!NotOpened, W!Leave, W!Writes
  <2>8. named' \in [ W!Ids -> SUBSET (Requests \cup { Other }) ]
    <3>1. \/ named' = [ id \in W!Ids |-> named[id] \ { r } ] \/ UNCHANGED named
      BY <1>8 DEF W!Build, W!NotOpened, W!Leave, W!Writes
    <3> QED
      BY <1>0, <3>1
  <2> QED
    BY <2>1, <2>2, <2>3, <2>4, <2>5, <2>6, <2>7, <2>8
<1>9. ASSUME NEW r \in Requests, W!Join(r)
      PROVE  W!TypeOK'
  <2>1. UNCHANGED << saved, tombs, removed, created, named, life, slots,
                     opening, slot, chain, snap, seen, running, late >>
    BY <1>9 DEF W!Join, W!Writes
  <2>2. pc' \in [ Requests -> W!Places ]
    BY <1>0, <1>9, TypesOfMoves DEF W!Join, W!Writes, W!Places
  <2>3. writes' \in [ W!Ids -> W!MaybeRequest ]
    BY <1>0, <1>9, TypesOfMoves DEF W!Join, W!Writes, W!Places
  <2> QED
    BY <2>1, <2>2, <2>3
<1>10. ASSUME NEW r \in Requests, W!Write(r)
       PROVE  W!TypeOK'
  <2>1. UNCHANGED << saved, tombs, removed, created, named, life, slots,
                     opening, slot, chain, snap, seen, late >>
    BY <1>10 DEF W!Write
  <2>2. pc' \in [ Requests -> W!Places ]
    BY <1>0, <1>10, TypesOfMoves DEF W!Write, W!Places
  <2>3. writes' \in [ W!Ids -> W!MaybeRequest ]
    BY <1>0, <1>10, TypesOfMoves DEF W!Write, W!Places
  <2>4. running' \subseteq Requests
    <3>1. W!OneOf(r)
      BY DEF W!OneEach
    <3>2. slot[r] \in Requests
      BY <1>10, <3>1 DEF W!Write, W!OneOf, W!MaybeRequest
    <3> QED
      BY <1>10, <3>2 DEF W!Write
  <2> QED
    BY <2>1, <2>2, <2>3, <2>4
<1>11. ASSUME NEW r \in Requests, W!RunEnds(r)
       PROVE  W!TypeOK'
  <2>1. UNCHANGED << tombs, removed, created, named, life, pc, slots, opening,
                     writes, slot, chain, snap, seen, late >>
    BY <1>11 DEF W!RunEnds
  <2>2. saved' \subseteq W!Ids
    BY <1>0, <1>11, TypesOfMoves DEF W!RunEnds
  <2>3. running' \subseteq Requests
    BY <1>0, <1>11, TypesOfMoves DEF W!RunEnds
  <2> QED
    BY <2>1, <2>2, <2>3
<1>12. ASSUME NEW r \in Requests, W!Reserve(r)
       PROVE  W!TypeOK'
  <2>1. UNCHANGED << saved, tombs, removed, created, named, life, slots,
                     opening, writes, slot, seen, running, late >>
    BY <1>12 DEF W!Reserve
  <2>2. pc' \in [ Requests -> W!Places ]
    BY <1>0, <1>12, TypesOfMoves DEF W!Reserve, W!Places
  <2>3. chain' \in W!MaybeRequest
    BY <1>0, <1>12, TypesOfMoves DEF W!Reserve
  <2>4. snap' \in [ Requests -> W!Keys ]
    BY <1>0, <1>12, TypesOfMoves DEF W!Reserve
  <2> QED
    BY <2>1, <2>2, <2>3, <2>4
<1>13. ASSUME NEW r \in Requests, W!Reserved(r)
       PROVE  W!TypeOK'
  <2>1. UNCHANGED << saved, tombs, removed, named, life, slots, opening, slot,
                     snap, seen, running, late >>
    BY <1>13 DEF W!Reserved
  <2>2. pc' \in [ Requests -> W!Places ]
    BY <1>0, <1>13, TypesOfMoves DEF W!Reserved, W!Places
  <2>3. chain' \in W!MaybeRequest
    BY <1>0, <1>13, TypesOfMoves DEF W!Reserved
  <2>4. created' \in W!Keys
    BY <1>0, <1>13, TypesOfMoves DEF W!Reserved, W!Keys
  <2>5. writes' \in [ W!Ids -> W!MaybeRequest ]
    BY <1>0, <1>13, TypesOfMoves DEF W!Reserved, W!Places
  <2> QED
    BY <2>1, <2>2, <2>3, <2>4, <2>5
<1>14. ASSUME NEW r \in Requests, W!Delete(r)
       PROVE  W!TypeOK'
  <2>1. UNCHANGED << saved, tombs, created, named, life, slots, opening, slot,
                     chain, snap, seen, running, late >>
    BY <1>14 DEF W!Delete
  <2>2. pc' \in [ Requests -> W!Places ]
    BY <1>0, <1>14, TypesOfMoves DEF W!Delete, W!Places
  <2>3. removed' \subseteq W!Ids
    BY <1>0, <1>14, TypesOfMoves DEF W!Delete
  <2>4. writes' \in [ W!Ids -> W!MaybeRequest ]
    BY <1>0, <1>14, TypesOfMoves DEF W!Delete, W!Places
  <2> QED
    BY <2>1, <2>2, <2>3, <2>4
<1>15. ASSUME NEW r \in Requests, W!Bury(r)
       PROVE  W!TypeOK'
  <2>1. UNCHANGED << saved, created, named, life, slots, opening, slot, chain,
                     snap, running, late >>
    BY <1>15 DEF W!Bury, W!Sees
  <2>2. pc' \in [ Requests -> W!Places ]
    BY <1>0, <1>15, TypesOfMoves DEF W!Bury, W!Sees, W!Places
  <2>3. seen' \subseteq Requests
    BY <1>0, <1>15, TypesOfMoves DEF W!Bury, W!Sees
  <2>4. tombs' \subseteq W!Ids
    BY <1>0, <1>15, TypesOfMoves DEF W!Bury, W!Sees
  <2>5. removed' \subseteq W!Ids
    BY <1>0, <1>15, TypesOfMoves DEF W!Bury, W!Sees
  <2>6. writes' \in [ W!Ids -> W!MaybeRequest ]
    BY <1>0, <1>15, TypesOfMoves DEF W!Bury, W!Sees, W!Places
  <2> QED
    BY <2>1, <2>2, <2>3, <2>4, <2>5, <2>6
<1>16. ASSUME NEW r \in Requests, W!Unlink(r)
       PROVE  W!TypeOK'
  <2>1. UNCHANGED << saved, tombs, removed, created, opening, slot, chain,
                     snap, seen, late >>
    BY <1>16 DEF W!Unlink, W!Leave, W!Forgotten
  <2>2. pc' \in [ Requests -> W!Places ]
    BY <1>0, <1>16, TypesOfMoves DEF W!Unlink, W!Leave, W!Forgotten, W!Places
  <2>3. writes' \in [ W!Ids -> W!MaybeRequest ]
    BY <1>0, <1>16, TypesOfMoves DEF W!Unlink, W!Leave, W!Forgotten, W!Places
  <2>4. life' \in [ Requests -> { "none", "made", "live", "gone" } ]
    BY <1>0, <1>16, TypesOfMoves DEF W!Unlink, W!Leave, W!Forgotten
  <2>5. named' \in [ W!Ids -> SUBSET (Requests \cup { Other }) ]
    BY <1>0, <1>16, TypesOfMoves DEF W!Unlink, W!Leave, W!Forgotten
  <2>6. slots' \in [ W!Ids -> W!MaybeRequest ]
    BY <1>0, <1>16, TypesOfMoves DEF W!Unlink, W!Leave, W!Forgotten
  <2>7. running' \subseteq Requests
    BY <1>0, <1>16, TypesOfMoves DEF W!Unlink, W!Leave, W!Forgotten
  <2> QED
    BY <2>1, <2>2, <2>3, <2>4, <2>5, <2>6, <2>7
<1>17. ASSUME NEW r \in Requests, W!Removes(r)
       PROVE  W!TypeOK'
  <2>1. UNCHANGED << tombs, removed, created, named, life, slots, opening,
                     slot, chain, snap, seen, running, late >>
    BY <1>17 DEF W!Removes
  <2>2. pc' \in [ Requests -> W!Places ]
    BY <1>0, <1>17, TypesOfMoves DEF W!Removes, W!Places
  <2>3. saved' \subseteq W!Ids
    BY <1>0, <1>17, TypesOfMoves DEF W!Removes
  <2>4. writes' \in [ W!Ids -> W!MaybeRequest ]
    BY <1>0, <1>17, TypesOfMoves DEF W!Removes, W!Places
  <2> QED
    BY <2>1, <2>2, <2>3, <2>4
<1>18. ASSUME NEW r \in Requests, W!ReadKeys(r)
       PROVE  W!TypeOK'
  <2>1. UNCHANGED << saved, tombs, removed, created, named, life, slots,
                     opening, writes, slot, chain, seen, running, late >>
    BY <1>18 DEF W!ReadKeys
  <2>2. pc' \in [ Requests -> W!Places ]
    BY <1>0, <1>18, TypesOfMoves DEF W!ReadKeys, W!Places
  <2>3. snap' \in [ Requests -> W!Keys ]
    BY <1>0, <1>18, TypesOfMoves DEF W!ReadKeys
  <2> QED
    BY <2>1, <2>2, <2>3
<1>19. ASSUME NEW r \in Requests, W!WriteKeys(r)
       PROVE  W!TypeOK'
  <2>1. UNCHANGED << saved, tombs, removed, named, life, slots, opening, slot,
                     chain, snap, seen, running, late >>
    BY <1>19 DEF W!WriteKeys, W!Overwrites
  <2>2. pc' \in [ Requests -> W!Places ]
    BY <1>0, <1>19, TypesOfMoves DEF W!WriteKeys, W!Overwrites, W!Places
  <2>3. writes' \in [ W!Ids -> W!MaybeRequest ]
    BY <1>0, <1>19, TypesOfMoves DEF W!WriteKeys, W!Overwrites, W!Places
  <2>4. created' \in W!Keys
    <3>1. snap[r] \in W!Keys
      OBVIOUS
    <3>2. [ snap[r] EXCEPT ![W!Id(r)] =
              IF @ = "id" THEN "deleted" ELSE @ ] \in W!Keys
      BY <3>1 DEF W!Keys
    <3> QED
      BY <1>19, <3>2 DEF W!WriteKeys, W!Overwrites
  <2> QED
    BY <2>1, <2>2, <2>3, <2>4
<1>20. ASSUME W!Close
       PROVE  W!TypeOK'
  <2>1. UNCHANGED << saved, tombs, removed, created, named, life, pc, slots,
                     opening, writes, slot, chain, snap, seen, running, late
                     >>
    BY <1>20 DEF W!Close
  <2> QED
    BY <2>1
<1>21. ASSUME W!Stop
       PROVE  W!TypeOK'
  <2>1. UNCHANGED << tombs, removed, created, named, life, pc, slots, opening,
                     writes, slot, chain, snap, seen, late >>
    BY <1>21 DEF W!Stop, W!All
  <2>2. saved' \subseteq W!Ids
    BY <1>0, <1>21 DEF W!Stop, W!All
  <2>3. running' \subseteq Requests
    BY <1>0, <1>21 DEF W!Stop, W!All
  <2> QED
    BY <2>1, <2>2, <2>3
<1>22. ASSUME W!DisposeAll
       PROVE  W!TypeOK'
  <2>1. UNCHANGED << saved, tombs, removed, created, pc, opening, writes,
                     slot, chain, snap, seen, late >>
    BY <1>22 DEF W!DisposeAll, W!Leave, W!All
  <2>2. running' \subseteq Requests
    BY <1>0, <1>22 DEF W!DisposeAll, W!Leave, W!All
  <2>3. life' \in [ Requests -> { "none", "made", "live", "gone" } ]
    BY <1>0, <1>22 DEF W!DisposeAll, W!Leave, W!All
  <2>4. named' \in [ W!Ids -> SUBSET (Requests \cup { Other }) ]
    BY <1>0, <1>22 DEF W!DisposeAll, W!Leave, W!All
  <2>5. slots' \in [ W!Ids -> W!MaybeRequest ]
    BY <1>0, <1>22 DEF W!DisposeAll, W!Leave, W!All
  <2> QED
    BY <2>1, <2>2, <2>3, <2>4, <2>5
<1>23. ASSUME W!Restart
       PROVE  W!TypeOK'
  <2>1. UNCHANGED << saved, tombs, created, slot, snap, seen, late >>
    BY <1>23 DEF W!Restart, W!Leave, W!All
  <2>2. running' \subseteq Requests
    BY <1>0, <1>23 DEF W!Restart, W!Leave, W!All
  <2>3. slots' \in [ W!Ids -> W!MaybeRequest ]
    BY <1>0, <1>23 DEF W!Restart, W!Leave, W!All
  <2>4. opening' \in [ W!Ids -> W!MaybeRequest ]
    BY <1>0, <1>23 DEF W!Restart, W!Leave, W!All
  <2>5. removed' \subseteq W!Ids
    BY <1>0, <1>23 DEF W!Restart, W!Leave, W!All
  <2>6. chain' \in W!MaybeRequest
    BY <1>0, <1>23 DEF W!Restart, W!Leave, W!All
  <2>7. writes' \in [ W!Ids -> W!MaybeRequest ]
    BY <1>0, <1>23 DEF W!Restart, W!Leave, W!All, W!Places
  <2>8. named' \in [ W!Ids -> SUBSET (Requests \cup { Other }) ]
    BY <1>0, <1>23 DEF W!Restart, W!Leave, W!All
  <2>9. life' \in [ Requests -> { "none", "made", "live", "gone" } ]
    BY <1>0, <1>23 DEF W!Restart, W!Leave, W!All
  <2>10. pc' \in [ Requests -> W!Places ]
    BY <1>0, <1>23 DEF W!Restart, W!Leave, W!All, W!Places
  <2> QED
    BY <2>1, <2>2, <2>3, <2>4, <2>5, <2>6, <2>7, <2>8, <2>9, <2>10
<1>24. ASSUME NEW id \in Shared, W!OtherOwns(id)
       PROVE  W!TypeOK'
  <2>1. UNCHANGED << saved, tombs, removed, created, life, pc, slots, opening,
                     writes, slot, chain, snap, seen, running, late >>
    BY <1>24 DEF W!OtherOwns
  <2>2. named' \in [ W!Ids -> SUBSET (Requests \cup { Other }) ]
    BY <1>0, <1>24, TypesOfMoves DEF W!OtherOwns
  <2> QED
    BY <2>1, <2>2
<1> QED
  BY <1>1, <1>2, <1>3, <1>4, <1>5, <1>6, <1>7, <1>8, <1>9, <1>10, <1>11,
     <1>12, <1>13, <1>14, <1>15, <1>16, <1>17, <1>18, <1>19, <1>20, <1>21,
     <1>22, <1>23, <1>24
  DEF W!Next, W!Opens, W!Deletes

\* Only the request moves, from one of these places to another.
Moves(r, from, to) ==
  /\ pc[r] \in from /\ pc'[r] \in to
  /\ \A q \in Requests \ { r } : pc'[q] = pc[q]

\* Where each operation takes its request.
LEMMA RequestMoves ==
  ASSUME W!TypeOK, NEW r \in Requests
  PROVE
  /\ W!Begin(r) => Moves(r, { "idle" }, { "stats", "refused" })
  /\ W!Stat(r) => Moves(r, { "stats" }, { "stated" })
  /\ W!Stated(r) =>
       Moves(r, { "stated" },
             { "has", "answered", "refused", "joins", "lists" })
  /\ W!List(r) => Moves(r, { "lists" }, { "listed", "reads" })
  /\ W!Read(r) => Moves(r, { "reads" }, { "read" })
  /\ W!Open(r) =>
       Moves(r, { "listed", "read" },
             { "refused", "has", "answered", "joins", "owns",
               "owns the file" })
  /\ W!Own(r) =>
       Moves(r, { "owns", "owns the file" },
             { "builds", "builds from the file", "refused" })
  /\ W!Build(r) =>
       Moves(r, { "builds", "builds from the file" },
             { "has", "answered", "refused" })
  /\ W!Join(r) => Moves(r, { "joins" }, { "has", "answered", "refused" })
  /\ W!Write(r) => Moves(r, { "has" }, { "answered" })
  /\ W!Reserve(r) => Moves(r, { "idle" }, { "reserves", "refused" })
  /\ W!Reserved(r) => Moves(r, { "reserves" }, { "refused", "stats" })
  /\ W!Delete(r) => Moves(r, { "has" }, { "refused", "deletes" })
  /\ W!Bury(r) => Moves(r, { "deletes" }, { "buried", "refused" })
  /\ W!Unlink(r) => Moves(r, { "buried" }, { "unlinks", "refused" })
  /\ W!Removes(r) => Moves(r, { "unlinks" }, { "unkeys", "refused" })
  /\ W!ReadKeys(r) => Moves(r, { "unkeys" }, { "keyless" })
  /\ W!WriteKeys(r) => Moves(r, { "keyless" }, { "answered", "refused" })
<1> USE DEF Moves, W!TypeOK, W!Goes
<1>1. /\ \A to : W!Goes(r, to) \/ W!Ends(r, to) =>
           pc'[r] = to /\ \A q \in Requests \ { r } : pc'[q] = pc[q]
      /\ W!Served(r) =>
           /\ pc'[r] \in { "has", "answered" }
           /\ \A q \in Requests \ { r } : pc'[q] = pc[q]
  BY DEF W!Ends, W!Served
<1>2. W!Begin(r) => Moves(r, { "idle" }, { "stats", "refused" })
  BY <1>1 DEF W!Begin
<1>3. W!Stat(r) => Moves(r, { "stats" }, { "stated" })
  BY <1>1 DEF W!Stat
<1>4. W!Stated(r) =>
        Moves(r, { "stated" },
              { "has", "answered", "refused", "joins", "lists" })
  BY <1>1 DEF W!Stated, W!Given
<1>5. W!List(r) => Moves(r, { "lists" }, { "listed", "reads" })
  BY <1>1 DEF W!List
<1>6. W!Read(r) => Moves(r, { "reads" }, { "read" })
  BY <1>1 DEF W!Read
<1>7. W!Open(r) =>
        Moves(r, { "listed", "read" },
              { "refused", "has", "answered", "joins", "owns",
               "owns the file" })
  BY <1>1 DEF W!Open, W!Given
<1>8. W!Own(r) =>
        Moves(r, { "owns", "owns the file" },
              { "builds", "builds from the file", "refused" })
  BY <1>1 DEF W!Own, W!NotOpened
<1>9. W!Build(r) =>
        Moves(r, { "builds", "builds from the file" },
              { "has", "answered", "refused" })
  BY <1>1 DEF W!Build, W!Given, W!NotOpened
<1>10. W!Join(r) => Moves(r, { "joins" }, { "has", "answered", "refused" })
  BY <1>1 DEF W!Join
<1>11. W!Write(r) => Moves(r, { "has" }, { "answered" })
  BY <1>1 DEF W!Write
<1>12. W!Reserve(r) => Moves(r, { "idle" }, { "reserves", "refused" })
  BY <1>1 DEF W!Reserve
<1>13. W!Reserved(r) => Moves(r, { "reserves" }, { "refused", "stats" })
  BY <1>1 DEF W!Reserved
<1>14. W!Delete(r) => Moves(r, { "has" }, { "refused", "deletes" })
  BY <1>1 DEF W!Delete
<1>15. W!Bury(r) => Moves(r, { "deletes" }, { "buried", "refused" })
  BY <1>1 DEF W!Bury
<1>16. W!Unlink(r) => Moves(r, { "buried" }, { "unlinks", "refused" })
  BY <1>1 DEF W!Unlink
<1>17. W!Removes(r) => Moves(r, { "unlinks" }, { "unkeys", "refused" })
  BY <1>1 DEF W!Removes
<1>18. W!ReadKeys(r) => Moves(r, { "unkeys" }, { "keyless" })
  BY <1>1 DEF W!ReadKeys
<1>19. W!WriteKeys(r) => Moves(r, { "keyless" }, { "answered", "refused" })
  BY <1>1 DEF W!WriteKeys
<1> QED
  BY <1>2, <1>3, <1>4, <1>5, <1>6, <1>7, <1>8, <1>9, <1>10, <1>11, <1>12,
     <1>13, <1>14, <1>15, <1>16, <1>17, <1>18, <1>19

\* What is not settled is still entered after somebody wrote the keys, for
\* what a write drops is lost, and what it marks has a tombstone.
LEMMA KeysRemain ==
  ASSUME W!WebInv, NEW r \in Requests, W!Reserved(r) \/ W!WriteKeys(r)
  PROVE  \A id \in W!Ids : ~W!Settled(id)' =>
           ~W!Settled(id) /\ (created[id] = "id" => created'[id] = "id")
<1> USE DEF W!WebInv, W!Id, W!disk, W!pool
<1> SUFFICES ASSUME NEW id \in W!Ids, ~W!Settled(id)'
             PROVE  /\ ~W!Settled(id)
                    /\ created[id] = "id" => created'[id] = "id"
  OBVIOUS
<1>1. ~W!Settled(id)
  BY DEF W!Reserved, W!WriteKeys, W!Overwrites, W!Settled
<1>2. ASSUME W!Reserved(r), created[id] = "id"
      PROVE  created'[id] = "id"
  BY <1>1, <1>2 DEF W!Reserved, W!KeysAgree, W!TypeOK, W!Keys
<1>3. ASSUME W!WriteKeys(r), created[id] = "id"
      PROVE  created'[id] = "id"
  <2>1. IdOf[r] \in tombs /\ id # IdOf[r]
    BY <1>1, <1>3 DEF W!WriteKeys, W!Buried, W!Deleting, W!Settled, W!Ids
  <2>2. CASE UNCHANGED created
    BY <1>3, <2>2
  <2>3. CASE W!Overwrites(r, [ snap[r] EXCEPT ![W!Id(r)] =
                                  IF @ = "id" THEN "deleted" ELSE @ ])
    <3>1. created'[id] = snap[r][id]
      BY <2>1, <2>3 DEF W!Overwrites, W!TypeOK, W!Keys
    <3>2. snap[r][id] # "deleted"
      BY <1>1 DEF W!Buried, W!Settled
    <3>3. snap[r][id] # "none"
      BY <1>3, <2>1, <2>3 DEF W!Overwrites, W!Settled, W!TypeOK, W!Keys
    <3> QED
      BY <3>1, <3>2, <3>3 DEF W!TypeOK, W!Keys
  <2> QED
    BY <1>3, <2>2, <2>3 DEF W!WriteKeys
<1> QED
  BY <1>1, <1>2, <1>3

\* And a deletion enters nothing that was not.
LEMMA KeysReturn ==
  ASSUME W!WebInv, NEW r \in Requests, W!WriteKeys(r)
  PROVE  \A id \in W!Ids : ~W!Settled(id)' =>
           (created'[id] = "id" => created[id] = "id")
<1> USE DEF W!WebInv, W!Id
<1> SUFFICES ASSUME NEW id \in W!Ids, ~W!Settled(id)', created'[id] = "id"
             PROVE  created[id] = "id"
  OBVIOUS
<1>1. ~W!Settled(id) /\ pc[r] = "keyless"
  BY DEF W!WriteKeys, W!Overwrites, W!Settled
<1>2. \/ UNCHANGED created
      \/ created' = [ snap[r] EXCEPT ![IdOf[r]] =
                         IF @ = "id" THEN "deleted" ELSE @ ]
  BY DEF W!WriteKeys, W!Overwrites
<1>3. UNCHANGED created \/ snap[r][id] = "id"
  BY <1>2 DEF W!TypeOK, W!Keys
<1> QED
  BY <1>1, <1>3 DEF W!KeysAgree

\* Who has a session was given one that is live.
LEMMA GivenIsLive ==
  ASSUME W!WebInv, NEW r \in Requests,
         W!Stated(r) \/ W!Open(r) \/ W!Build(r) \/ W!Join(r)
  PROVE  /\ pc'[r] = "has" => slot'[r] \in Requests /\ life'[slot'[r]] = "live"
         /\ pc'[r] = "joins" => slot'[r] # Nobody
<1> USE WebAssumption
    DEF W!WebInv, W!Id, W!Ids, W!TypeOK, W!MaybeRequest, W!Goes
<1>1. /\ \A to : W!Goes(r, to) => pc'[r] = to
      /\ \A to : W!Ends(r, to) => pc'[r] = to
  BY DEF W!Ends
<1>2. slots[IdOf[r]] # Nobody =>
        slots[IdOf[r]] \in Requests /\ life[slots[IdOf[r]]] = "live"
  BY DEF W!OneWriter
<1>3. ASSUME W!Stated(r)
      PROVE  /\ pc'[r] = "has" =>
                  slot'[r] \in Requests /\ life'[slot'[r]] = "live"
             /\ pc'[r] = "joins" => slot'[r] # Nobody
  <2>1. CASE r \in seen
    BY <1>1, <1>3, <2>1 DEF W!Stated
  <2>2. CASE r \notin seen /\ slots[IdOf[r]] # Nobody
    BY <1>1, <1>2, <1>3, <2>2 DEF W!Stated, W!Given, W!Served
  <2>3. CASE r \notin seen /\ slots[IdOf[r]] = Nobody
    BY <1>1, <1>3, <2>3 DEF W!Stated
  <2> QED
    BY <2>1, <2>2, <2>3
<1>4. ASSUME W!Open(r)
      PROVE  /\ pc'[r] = "has" =>
                  slot'[r] \in Requests /\ life'[slot'[r]] = "live"
             /\ pc'[r] = "joins" => slot'[r] # Nobody
  <2>1. CASE r \notin seen \/ closed
    BY <1>1, <1>4, <2>1 DEF W!Open
  <2>2. CASE ~(r \notin seen \/ closed) /\ slots[IdOf[r]] # Nobody
    BY <1>1, <1>2, <1>4, <2>2 DEF W!Open, W!Given, W!Served
  <2>3. CASE ~(r \notin seen \/ closed) /\ slots[IdOf[r]] = Nobody
    BY <1>1, <1>4, <2>3 DEF W!Open
  <2> QED
    BY <2>1, <2>2, <2>3
<1>5. ASSUME W!Build(r)
      PROVE  /\ pc'[r] = "has" =>
                  slot'[r] \in Requests /\ life'[slot'[r]] = "live"
             /\ pc'[r] = "joins" => slot'[r] # Nobody
  <2>1. CASE W!Given(r, r) /\ life' = [ life EXCEPT ![r] = "live" ]
    BY <1>1, <2>1 DEF W!Given, W!Served
  <2>2. CASE W!NotOpened(r)
    BY <1>1, <2>2 DEF W!NotOpened
  <2> QED
    BY <1>5, <2>1, <2>2 DEF W!Build
<1>6. ASSUME W!Join(r)
      PROVE  /\ pc'[r] = "has" =>
                  slot'[r] \in Requests /\ life'[slot'[r]] = "live"
             /\ pc'[r] = "joins" => slot'[r] # Nobody
  <2>1. W!OneOf(r)
    BY DEF W!OneEach
  <2>2. slot[r] \in Requests /\ UNCHANGED << slot, life >>
    BY <1>6, <2>1 DEF W!Join, W!OneOf
  <2>3. CASE life[slot[r]] = "live"
    BY <1>6, <2>2, <2>3 DEF W!Join, W!Served
  <2>4. CASE life[slot[r]] # "live"
    <3>1. pc'[r] = "refused"
      BY <1>1, <1>6, <2>4 DEF W!Join
    <3> QED
      BY <3>1
  <2> QED
    BY <2>3, <2>4
<1> QED
  BY <1>3, <1>4, <1>5, <1>6

\* No session of one id is given out under another.
LEMMA WebOwnIds == W!WebInv /\ W!Next => W!OwnIds'
<1> SUFFICES ASSUME W!WebInv, W!Next
             PROVE  W!OwnIds'
  OBVIOUS
<1> USE DEF W!WebInv, W!Id
<1>0. /\ Other \notin Requests /\ Nobody \notin Requests
      /\ \A r \in Requests : IdOf[r] \in W!Ids
  BY WebAssumption DEF W!Ids
<1> USE <1>0
<1>1. ASSUME UNCHANGED << slots, opening, slot >>
      PROVE  W!OwnIds'
  BY <1>1 DEF W!OwnIds
<1>2. ASSUME NEW r \in Requests, W!Stated(r)
      PROVE  W!OwnIds'
  BY <1>2 DEF W!Stated, W!Given, W!pool, W!OwnIds, W!TypeOK
<1>3. ASSUME NEW r \in Requests, W!Open(r)
      PROVE  W!OwnIds'
  <2>1. UNCHANGED slots
    BY <1>3 DEF W!Open
  <2>2. \/ UNCHANGED opening
        \/ opening' = [ opening EXCEPT ![IdOf[r]] = r ]
    BY <1>3 DEF W!Open
  <2>3. \/ UNCHANGED slot
        \/ slot' = [ slot EXCEPT ![r] = slots[IdOf[r]] ]
        \/ slot' = [ slot EXCEPT ![r] = opening[IdOf[r]] ]
    BY <1>3 DEF W!Open, W!Given
  <2>4. \A id \in W!Ids : opening'[id] # Nobody => IdOf[opening'[id]] = id
    BY <2>2 DEF W!OwnIds, W!TypeOK
  <2> QED
    BY <2>1, <2>3, <2>4 DEF W!OwnIds, W!TypeOK
<1>4. ASSUME NEW r \in Requests, W!Own(r)
      PROVE  W!OwnIds'
  BY <1>4 DEF W!Own, W!MayOwn, W!NotOpened, W!OwnIds, W!TypeOK
<1>5. ASSUME NEW r \in Requests, W!Build(r)
      PROVE  W!OwnIds'
  <2>1. \/ UNCHANGED << slots, slot >>
        \/ /\ slots' = [ slots EXCEPT ![IdOf[r]] = r ]
           /\ slot' = [ slot EXCEPT ![r] = r ]
    BY <1>5 DEF W!Build, W!Given
  <2>2. opening' = [ opening EXCEPT ![IdOf[r]] = Nobody ]
    BY <1>5 DEF W!Build, W!NotOpened
  <2> QED
    BY <2>1, <2>2 DEF W!OwnIds, W!TypeOK
<1>6. ASSUME NEW r \in Requests, W!Unlink(r)
      PROVE  W!OwnIds'
  BY <1>6 DEF W!Unlink, W!Leave, W!Forgotten, W!OwnIds, W!TypeOK
<1>7. ASSUME W!DisposeAll
      PROVE  W!OwnIds'
  BY <1>7 DEF W!DisposeAll, W!Leave, W!All, W!requests, W!OwnIds, W!TypeOK
<1>8. ASSUME W!Restart
      PROVE  W!OwnIds'
  BY <1>8 DEF W!Restart, W!Leave, W!All, W!OwnIds, W!TypeOK
<1>9. ASSUME NEW r \in Requests,
             W!Begin(r) \/ W!Stat(r) \/ W!List(r) \/ W!Read(r) \/
             W!Join(r) \/ W!Write(r) \/ W!RunEnds(r) \/
             W!Reserve(r) \/ W!Reserved(r) \/ W!Delete(r) \/
             W!Bury(r) \/ W!Removes(r) \/ W!ReadKeys(r) \/
             W!WriteKeys(r)
      PROVE  W!OwnIds'
  BY <1>1, <1>9 DEF W!Begin, W!Stat, W!List, W!Read, W!Join, W!Write,
    W!RunEnds, W!Reserve, W!Reserved, W!Delete, W!Bury, W!Removes, W!ReadKeys,
    W!WriteKeys, W!disk, W!pool, W!locks, W!requests, W!history
<1>10. ASSUME W!Close \/ W!Stop \/ (\E id \in Shared : W!OtherOwns(id))
      PROVE  W!OwnIds'
  BY <1>1, <1>10 DEF W!Close, W!Stop, W!OtherOwns, W!disk, W!pool, W!locks,
    W!requests, W!history
<1> QED
  BY <1>2, <1>3, <1>4, <1>5, <1>6, <1>7, <1>8, <1>9, <1>10
  DEF W!Next, W!Opens, W!Deletes

\* One request moves: the others have what they had.
LEMMA OthersKeep ==
  ASSUME W!TypeOK, W!OneEach, NEW r \in Requests, NEW from, NEW to,
         Moves(r, from, to),
         \A q \in Requests \ { r } : slot'[q] = slot[q],
         \A q \in Requests \ { r } :
           life'[q] = life[q] \/ (life[q] = "live" /\ life'[q] = "gone"),
         life[r] \in { "live", "gone" } => life'[r] \in { "live", "gone" },
         W!OneOf(r)'
  PROVE  W!OneEach'
<1> SUFFICES ASSUME NEW q \in Requests \ { r }
             PROVE  W!OneOf(q)'
  BY DEF W!OneEach
<1>1. /\ pc'[q] = pc[q] /\ slot'[q] = slot[q]
      /\ life[q] # "live" => life'[q] = life[q]
  BY DEF Moves
<1>2. slot[q] \in Requests \cup { Nobody }
  BY DEF W!TypeOK, W!MaybeRequest
<1>3. slot[q] # Nobody /\ life[slot[q]] \in { "live", "gone" } =>
        life'[slot[q]] \in { "live", "gone" }
  BY <1>2
<1>4. W!OneOf(q)
  BY DEF W!OneEach
<1> QED
  BY <1>1, <1>3, <1>4 DEF W!OneOf

\* A request makes one session, which others work with when it was live.
LEMMA WebOneEach == W!WebInv /\ W!Next => W!OneEach'
<1> SUFFICES ASSUME W!WebInv, W!Next PROVE W!OneEach'
  OBVIOUS
<1> USE DEF W!WebInv
<1>0. /\ Other \notin Requests /\ Nobody \notin Requests
      /\ \A r \in Requests : IdOf[r] \in W!Ids
  BY WebAssumption DEF W!Ids
<1>1. ASSUME NEW r \in Requests, W!Begin(r)
      PROVE  W!OneEach'
  <2>1. Moves(r, { "idle" }, { "stats", "refused" })
    BY <1>1, RequestMoves
  <2>2. UNCHANGED << life, slot >>
    BY <1>1 DEF W!Begin
  <2>3. W!OneOf(r)'
    BY <2>1, <2>2 DEF W!OneEach, W!OneOf, Moves, W!Deleting, W!Early
  <2> QED
    BY <2>1, <2>2, <2>3, OthersKeep
<1>2. ASSUME NEW r \in Requests, W!Stat(r)
      PROVE  W!OneEach'
  <2>1. Moves(r, { "stats" }, { "stated" })
    BY <1>2, RequestMoves
  <2>2. UNCHANGED << life, slot >>
    BY <1>2 DEF W!Stat
  <2>3. W!OneOf(r)'
    BY <2>1, <2>2 DEF W!OneEach, W!OneOf, Moves, W!Deleting, W!Early
  <2> QED
    BY <2>1, <2>2, <2>3, OthersKeep
<1>3. ASSUME NEW r \in Requests, W!Stated(r)
      PROVE  W!OneEach'
  <2>1. Moves(r, { "stated" },
              { "has", "answered", "refused", "joins", "lists" })
    BY <1>3, RequestMoves
  <2>2. UNCHANGED life /\ \A q \in Requests \ { r } : slot'[q] = slot[q]
    BY <1>3 DEF W!Stated, W!Given, W!TypeOK
  <2>3. W!OneOf(r)'
    <3>1. pc'[r] \in W!Early => life[r] = "none"
      BY <2>1 DEF W!OneEach, W!OneOf, Moves, W!Early
    <3>2. W!OneEach => W!OneOf(r)
      BY DEF W!OneEach
    <3> QED
      BY <1>0, <1>3, <2>1, <2>2, <3>1, GivenIsLive
      DEF W!OneOf, Moves, W!Deleting
  <2> QED
    BY <2>1, <2>2, <2>3, OthersKeep
<1>4. ASSUME NEW r \in Requests, W!List(r)
      PROVE  W!OneEach'
  <2>1. Moves(r, { "lists" }, { "listed", "reads" })
    BY <1>4, RequestMoves
  <2>2. UNCHANGED << life, slot >>
    BY <1>4 DEF W!List
  <2>3. W!OneOf(r)'
    BY <2>1, <2>2 DEF W!OneEach, W!OneOf, Moves, W!Deleting, W!Early
  <2> QED
    BY <2>1, <2>2, <2>3, OthersKeep
<1>5. ASSUME NEW r \in Requests, W!Read(r)
      PROVE  W!OneEach'
  <2>1. Moves(r, { "reads" }, { "read" })
    BY <1>5, RequestMoves
  <2>2. UNCHANGED << life, slot >>
    BY <1>5 DEF W!Read
  <2>3. W!OneOf(r)'
    BY <2>1, <2>2 DEF W!OneEach, W!OneOf, Moves, W!Deleting, W!Early
  <2> QED
    BY <2>1, <2>2, <2>3, OthersKeep
<1>6. ASSUME NEW r \in Requests, W!Open(r)
      PROVE  W!OneEach'
  <2>1. Moves(r, { "listed", "read" },
              { "refused", "has", "answered", "joins", "owns",
               "owns the file" })
    BY <1>6, RequestMoves
  <2>2. UNCHANGED life /\ \A q \in Requests \ { r } : slot'[q] = slot[q]
    BY <1>6 DEF W!Open, W!Given, W!TypeOK
  <2>3. W!OneOf(r)'
    <3>1. pc'[r] \in W!Early => life[r] = "none"
      BY <2>1 DEF W!OneEach, W!OneOf, Moves, W!Early
    <3>2. W!OneEach => W!OneOf(r)
      BY DEF W!OneEach
    <3> QED
      BY <1>0, <1>6, <2>1, <2>2, <3>1, GivenIsLive
      DEF W!OneOf, Moves, W!Deleting
  <2> QED
    BY <2>1, <2>2, <2>3, OthersKeep
<1>7. ASSUME NEW r \in Requests, W!Own(r)
      PROVE  W!OneEach'
  <2>1. Moves(r, { "owns", "owns the file" },
              { "builds", "builds from the file", "refused" })
    BY <1>7, RequestMoves
  <2>2. /\ \A q \in Requests \ { r } : life'[q] = life[q] /\ slot'[q] = slot[q]
        /\ life[r] = "none"
    <3>1. W!OneOf(r)
      BY DEF W!OneEach
    <3>2. life[r] = "none"
      BY <1>7, <3>1 DEF W!Own, W!OneOf, W!Early
    <3> QED
      BY <1>7, <3>2 DEF W!Own, W!TypeOK
  <2>3. pc'[r] # "refused" => life'[r] = "made"
    BY <1>7 DEF W!Own, W!NotOpened, W!Ends, W!Goes, W!TypeOK
  <2>4. W!OneOf(r)'
    BY <2>1, <2>3 DEF W!OneOf, Moves, W!Deleting, W!Early
  <2> QED
    BY <2>1, <2>2, <2>4, OthersKeep
<1>8. ASSUME NEW r \in Requests, W!Build(r)
      PROVE  W!OneEach'
  <2>1. Moves(r, { "builds", "builds from the file" },
              { "has", "answered", "refused" })
    BY <1>8, RequestMoves
  <2>2. /\ \A q \in Requests \ { r } : life'[q] = life[q] /\ slot'[q] = slot[q]
        /\ life[r] = "made"
    <3>1. W!OneOf(r)
      BY DEF W!OneEach
    <3>2. life[r] = "made"
      BY <1>8, <3>1 DEF W!Build, W!OneOf
    <3> QED
      BY <1>8, <3>2 DEF W!Build, W!Given, W!TypeOK
  <2>3. W!OneOf(r)'
    BY <1>0, <1>8, <2>1, GivenIsLive DEF W!OneOf, Moves, W!Deleting, W!Early
  <2> QED
    BY <2>1, <2>2, <2>3, OthersKeep
<1>9. ASSUME NEW r \in Requests, W!Join(r)
      PROVE  W!OneEach'
  <2>1. Moves(r, { "joins" }, { "has", "answered", "refused" })
    BY <1>9, RequestMoves
  <2>2. UNCHANGED life /\ \A q \in Requests \ { r } : slot'[q] = slot[q]
    BY <1>9 DEF W!Join, W!Given, W!TypeOK
  <2>3. W!OneOf(r)'
    <3>1. pc'[r] \in W!Early => life[r] = "none"
      BY <2>1 DEF W!OneEach, W!OneOf, Moves, W!Early
    <3>2. W!OneEach => W!OneOf(r)
      BY DEF W!OneEach
    <3> QED
      BY <1>0, <1>9, <2>1, <2>2, <3>1, GivenIsLive
      DEF W!OneOf, Moves, W!Deleting
  <2> QED
    BY <2>1, <2>2, <2>3, OthersKeep
<1>10. ASSUME NEW r \in Requests, W!Write(r)
       PROVE  W!OneEach'
  <2>1. Moves(r, { "has" }, { "answered" })
    BY <1>10, RequestMoves
  <2>2. UNCHANGED << life, slot >>
    BY <1>10 DEF W!Write
  <2>3. W!OneOf(r)'
    BY <2>1, <2>2 DEF W!OneEach, W!OneOf, Moves, W!Deleting, W!Early
  <2> QED
    BY <2>1, <2>2, <2>3, OthersKeep
<1>11. ASSUME NEW r \in Requests, W!RunEnds(r)
       PROVE  W!OneEach'
  <2>1. UNCHANGED << pc, life, slot >>
    BY <1>11 DEF W!RunEnds, W!requests
  <2> QED
    BY <2>1 DEF W!OneEach, W!OneOf
<1>12. ASSUME NEW r \in Requests, W!Reserve(r)
       PROVE  W!OneEach'
  <2>1. Moves(r, { "idle" }, { "reserves", "refused" })
    BY <1>12, RequestMoves
  <2>2. UNCHANGED << life, slot >>
    BY <1>12 DEF W!Reserve
  <2>3. W!OneOf(r)'
    BY <2>1, <2>2 DEF W!OneEach, W!OneOf, Moves, W!Deleting, W!Early
  <2> QED
    BY <2>1, <2>2, <2>3, OthersKeep
<1>13. ASSUME NEW r \in Requests, W!Reserved(r)
       PROVE  W!OneEach'
  <2>1. Moves(r, { "reserves" }, { "refused", "stats" })
    BY <1>13, RequestMoves
  <2>2. UNCHANGED << life, slot >>
    BY <1>13 DEF W!Reserved
  <2>3. W!OneOf(r)'
    BY <2>1, <2>2 DEF W!OneEach, W!OneOf, Moves, W!Deleting, W!Early
  <2> QED
    BY <2>1, <2>2, <2>3, OthersKeep
<1>14. ASSUME NEW r \in Requests, W!Delete(r)
       PROVE  W!OneEach'
  <2>1. Moves(r, { "has" }, { "refused", "deletes" })
    BY <1>14, RequestMoves
  <2>2. UNCHANGED << life, slot >>
    BY <1>14 DEF W!Delete
  <2>3. W!OneOf(r)'
    BY <2>1, <2>2 DEF W!OneEach, W!OneOf, Moves, W!Deleting, W!Early
  <2> QED
    BY <2>1, <2>2, <2>3, OthersKeep
<1>15. ASSUME NEW r \in Requests, W!Bury(r)
       PROVE  W!OneEach'
  <2>1. Moves(r, { "deletes" }, { "buried", "refused" })
    BY <1>15, RequestMoves
  <2>2. UNCHANGED << life, slot >>
    BY <1>15 DEF W!Bury
  <2>3. W!OneOf(r)'
    BY <2>1, <2>2 DEF W!OneEach, W!OneOf, Moves, W!Deleting, W!Early
  <2> QED
    BY <2>1, <2>2, <2>3, OthersKeep
<1>16. ASSUME NEW r \in Requests, W!Unlink(r)
       PROVE  W!OneEach'
  <2>1. Moves(r, { "buried" }, { "unlinks", "refused" })
    BY <1>16, RequestMoves
  <2>2. /\ UNCHANGED slot /\ slot[r] \in Requests
        /\ life[slot[r]] \in { "live", "gone" }
    <3>1. W!OneOf(r)
      BY DEF W!OneEach
    <3>2. slot[r] # Nobody /\ life[slot[r]] \in { "live", "gone" }
      BY <1>16, <3>1 DEF W!Unlink, W!OneOf, W!Deleting
    <3> QED
      BY <1>16, <3>2 DEF W!Unlink, W!TypeOK, W!MaybeRequest
  <2>3. UNCHANGED life \/ life' = [ life EXCEPT ![slot[r]] = "gone" ]
    BY <1>16 DEF W!Unlink
  <2>4. /\ \A q \in Requests : life'[q] = life[q] \/
             (life[q] \in { "live", "gone" } /\ life'[q] = "gone")
        /\ life'[slot[r]] \in { "live", "gone" }
    BY <2>2, <2>3 DEF W!TypeOK
  <2>5. W!OneOf(r)'
    BY <1>0, <2>1, <2>2, <2>4 DEF W!OneOf, Moves, W!Deleting, W!Early
  <2> QED
    BY <2>1, <2>2, <2>4, <2>5, OthersKeep
<1>17. ASSUME NEW r \in Requests, W!Removes(r)
       PROVE  W!OneEach'
  <2>1. Moves(r, { "unlinks" }, { "unkeys", "refused" })
    BY <1>17, RequestMoves
  <2>2. UNCHANGED << life, slot >>
    BY <1>17 DEF W!Removes
  <2>3. W!OneOf(r)'
    BY <2>1, <2>2 DEF W!OneEach, W!OneOf, Moves, W!Deleting, W!Early
  <2> QED
    BY <2>1, <2>2, <2>3, OthersKeep
<1>18. ASSUME NEW r \in Requests, W!ReadKeys(r)
       PROVE  W!OneEach'
  <2>1. Moves(r, { "unkeys" }, { "keyless" })
    BY <1>18, RequestMoves
  <2>2. UNCHANGED << life, slot >>
    BY <1>18 DEF W!ReadKeys
  <2>3. W!OneOf(r)'
    BY <2>1, <2>2 DEF W!OneEach, W!OneOf, Moves, W!Deleting, W!Early
  <2> QED
    BY <2>1, <2>2, <2>3, OthersKeep
<1>19. ASSUME NEW r \in Requests, W!WriteKeys(r)
       PROVE  W!OneEach'
  <2>1. Moves(r, { "keyless" }, { "answered", "refused" })
    BY <1>19, RequestMoves
  <2>2. UNCHANGED << life, slot >>
    BY <1>19 DEF W!WriteKeys
  <2>3. W!OneOf(r)'
    BY <2>1, <2>2 DEF W!OneEach, W!OneOf, Moves, W!Deleting, W!Early
  <2> QED
    BY <2>1, <2>2, <2>3, OthersKeep
<1>20. ASSUME W!Close
       PROVE  W!OneEach'
  <2>1. UNCHANGED << pc, life, slot >>
    BY <1>20 DEF W!Close, W!requests
  <2> QED
    BY <2>1 DEF W!OneEach, W!OneOf
<1>21. ASSUME W!Stop
       PROVE  W!OneEach'
  <2>1. UNCHANGED << pc, life, slot >>
    BY <1>21 DEF W!Stop, W!requests
  <2> QED
    BY <2>1 DEF W!OneEach, W!OneOf
<1>22. ASSUME W!DisposeAll
       PROVE  W!OneEach'
  <2>1. UNCHANGED << pc, slot >>
    BY <1>22 DEF W!DisposeAll, W!requests
  <2>2. \A q \in Requests :
          life'[q] = life[q] \/ (life'[q] = "gone" /\ life[q] = "live")
    BY <1>0, <1>22 DEF W!DisposeAll, W!OneWriter, W!TypeOK, W!MaybeRequest
  <2> SUFFICES ASSUME NEW q \in Requests
               PROVE  W!OneOf(q)'
    BY DEF W!OneEach
  <2>3. W!OneOf(q) /\ slot[q] \in Requests \cup { Nobody }
    BY DEF W!OneEach, W!TypeOK, W!MaybeRequest
  <2> QED
    BY <2>1, <2>2, <2>3 DEF W!OneOf, W!Early
<1>23. ASSUME W!Restart
       PROVE  W!OneEach'
  <2>1. /\ UNCHANGED slot
        /\ \A q \in Requests :
             /\ life'[q] = IF life[q] = "none" THEN "none" ELSE "gone"
             /\ pc'[q] \in { pc[q], "refused" }
             /\ pc'[q] \in { "idle", "answered", "refused" }
    BY <1>23 DEF W!Restart
  <2> SUFFICES ASSUME NEW q \in Requests
               PROVE  W!OneOf(q)'
    BY DEF W!OneEach
  <2>2. W!OneOf(q)
    BY DEF W!OneEach
  <2> QED
    BY <2>1, <2>2 DEF W!OneOf, W!Early, W!Deleting
<1>24. ASSUME NEW id \in Shared, W!OtherOwns(id)
       PROVE  W!OneEach'
  <2>1. UNCHANGED << pc, life, slot >>
    BY <1>24 DEF W!OtherOwns, W!requests
  <2> QED
    BY <2>1 DEF W!OneEach, W!OneOf
<1> QED
  BY <1>1, <1>2, <1>3, <1>4, <1>5, <1>6, <1>7, <1>8, <1>9, <1>10, <1>11,
     <1>12, <1>13, <1>14, <1>15, <1>16, <1>17, <1>18, <1>19, <1>20, <1>21,
     <1>22, <1>23, <1>24
  DEF W!Next, W!Opens, W!Deletes

\* A session has its name from the kernel until it is gone.
LEMMA WebOneWriter == W!WebInv /\ W!Next => W!OneWriter'
<1> SUFFICES ASSUME W!WebInv, W!Next
             PROVE  W!OneWriter'
  OBVIOUS
<1> USE DEF W!WebInv, W!Id
<1>0. /\ Other \notin Requests /\ Nobody \notin Requests
      /\ \A r \in Requests : IdOf[r] \in W!Ids
  BY WebAssumption DEF W!Ids
<1> USE <1>0
<1>1. ASSUME UNCHANGED << life, named, slots >>
      PROVE  W!OneWriter'
  BY <1>1 DEF W!OneWriter
<1>2. ASSUME NEW r \in Requests, W!Own(r)
      PROVE  W!OneWriter'
  <2>1. UNCHANGED slots /\ life[r] = "none"
    BY <1>2 DEF W!Own, W!OneEach, W!OneOf, W!Early
  <2>2. CASE named[IdOf[r]] = { }
    <3>1. /\ named' = [ named EXCEPT ![IdOf[r]] = named[IdOf[r]] \cup { r } ]
          /\ life' = [ life EXCEPT ![r] = "made" ]
      BY <1>2, <2>2 DEF W!Own, W!MayOwn
    <3>2. \A q \in Requests : life'[q] \in { "made", "live" } =>
            named'[IdOf[q]] = { q }
      BY <2>2, <3>1 DEF W!OneWriter, W!TypeOK
    <3>3. \A id \in W!Ids : slots[id] # Nobody => life'[slots[id]] = "live"
      BY <2>1, <3>1 DEF W!OneWriter, W!TypeOK, W!MaybeRequest
    <3> QED
      BY <2>1, <3>2, <3>3 DEF W!OneWriter
  <2>3. CASE named[IdOf[r]] # { }
    BY <1>2, <2>1, <2>3 DEF W!Own, W!MayOwn, W!OneWriter
  <2> QED
    BY <2>2, <2>3
<1>3. ASSUME NEW r \in Requests, W!Build(r)
      PROVE  W!OneWriter'
  <2>1. life[r] = "made"
    BY <1>3 DEF W!Build, W!OneEach, W!OneOf
  <2>2. CASE /\ life' = [ life EXCEPT ![r] = "live" ]
             /\ slots' = [ slots EXCEPT ![IdOf[r]] = r ] /\ UNCHANGED named
    BY <2>1, <2>2 DEF W!OneWriter, W!TypeOK, W!MaybeRequest
  <2>3. CASE /\ life' = [ life EXCEPT ![r] = "gone" ]
             /\ named' = [ id \in W!Ids |-> named[id] \ { r } ]
             /\ UNCHANGED slots
    BY <2>1, <2>3 DEF W!OneWriter, W!TypeOK, W!MaybeRequest
  <2> QED
    BY <1>3, <2>2, <2>3 DEF W!Build, W!Leave
<1>4. ASSUME NEW r \in Requests, W!Unlink(r)
      PROVE  W!OneWriter'
  <2>1. slot[r] \in Requests /\ IdOf[slot[r]] = IdOf[r]
    <3>1. W!OneOf(r)
      BY DEF W!OneEach
    <3>2. slot[r] \in Requests
      BY <1>4, <3>1
      DEF W!Unlink, W!OneOf, W!Deleting, W!TypeOK, W!MaybeRequest
    <3> QED
      BY <3>2 DEF W!OwnIds
  <2>2. CASE UNCHANGED << life, named, slots >>
    BY <2>2 DEF W!OneWriter
  <2>3. CASE /\ life' = [ life EXCEPT ![slot[r]] = "gone" ]
             /\ named' = [ id \in W!Ids |-> named[id] \ { slot[r] } ]
             /\ slots' = [ slots EXCEPT ![IdOf[r]] = Nobody ]
    <3>1. \A q \in Requests : life'[q] \in { "made", "live" } =>
            named'[IdOf[q]] = { q }
      BY <2>1, <2>3 DEF W!OneWriter, W!TypeOK
    <3>2. \A id \in W!Ids : slots'[id] # Nobody =>
            /\ slots[id] \in Requests /\ slots'[id] = slots[id]
            /\ slots[id] # slot[r]
      BY <2>1, <2>3 DEF W!OwnIds, W!TypeOK, W!MaybeRequest
    <3>3. \A id \in W!Ids : slots'[id] # Nobody => life'[slots'[id]] = "live"
      BY <2>1, <2>3, <3>2 DEF W!OneWriter, W!TypeOK
    <3> QED
      BY <3>1, <3>3 DEF W!OneWriter
  <2> QED
    BY <1>4, <2>2, <2>3 DEF W!Unlink, W!Leave, W!Forgotten
<1>5. ASSUME W!DisposeAll
      PROVE  W!OneWriter'
  <2>1. /\ slots' = [ id \in W!Ids |-> Nobody ]
        /\ \A q \in Requests : life'[q] \in { life[q], "gone" }
        /\ \A q \in Requests :
             (\E id \in W!Ids : q = slots[id]) => life'[q] = "gone"
        /\ \A id \in W!Ids : \A q \in named[id] :
             (\A x \in W!Ids : q # slots[x]) => q \in named'[id]
        /\ \A id \in W!Ids : named'[id] \subseteq named[id]
    BY <1>5 DEF W!DisposeAll, W!Leave, W!All
  <2> QED
    BY <2>1 DEF W!OneWriter, W!TypeOK
<1>6. ASSUME W!Restart
      PROVE  W!OneWriter'
  BY <1>6
  DEF W!Restart, W!Leave, W!All, W!OneWriter, W!OneEach, W!TypeOK,
      W!MaybeRequest
<1>7. ASSUME NEW id \in Shared, W!OtherOwns(id)
      PROVE  W!OneWriter'
  <2>1. UNCHANGED << life, slots >>
    BY <1>7 DEF W!OtherOwns, W!pool
  <2>2. \A x \in W!Ids : x # id => named'[x] = named[x]
    BY <1>7 DEF W!OtherOwns, W!TypeOK
  <2>3. named[id] = { } \/ Other \in named[id]
    BY <1>7 DEF W!OtherOwns
  <2> QED
    BY <2>1, <2>2, <2>3 DEF W!OneWriter
<1>8. ASSUME NEW r \in Requests,
             W!Begin(r) \/ W!Stat(r) \/ W!Stated(r) \/ W!List(r)
             \/ W!Read(r) \/ W!Open(r) \/ W!Join(r) \/ W!Write(r)
             \/ W!RunEnds(r) \/ W!Reserve(r) \/ W!Reserved(r) \/
             W!Delete(r) \/ W!Bury(r) \/ W!Removes(r) \/
             W!ReadKeys(r) \/ W!WriteKeys(r)
      PROVE  W!OneWriter'
  BY <1>1, <1>8 DEF W!Begin, W!Stat, W!Stated, W!List, W!Read, W!Open, W!Join,
    W!Write, W!RunEnds, W!Reserve, W!Reserved, W!Delete, W!Bury, W!Removes,
    W!ReadKeys, W!WriteKeys, W!disk, W!pool, W!locks, W!requests, W!history
<1>9. ASSUME W!Close \/ W!Stop
      PROVE  W!OneWriter'
  BY <1>1, <1>9 DEF W!Close, W!Stop, W!disk, W!pool, W!locks, W!requests,
    W!history
<1> QED
  BY <1>2, <1>3, <1>4, <1>5, <1>6, <1>7, <1>8, <1>9
  DEF W!Next, W!Opens, W!Deletes

\* A request that moves is not late: it has got further than those.
LEMMA LateAreLeft ==
  ASSUME W!LateAreRefused, NEW r \in Requests, NEW from, NEW to,
         Moves(r, from, to), r \notin late, UNCHANGED late,
         late \subseteq Requests,
         \A q \in Requests \ { r } :
           slot'[q] = slot[q] /\ (q \in seen => q \in seen'),
         tombs \subseteq tombs'
  PROVE  W!LateAreRefused'
  BY DEF W!LateAreRefused, Moves, W!Id

\* Who comes after the tombstone is refused.
LEMMA WebLateAreRefused == W!WebInv /\ W!Next => W!LateAreRefused'
<1> SUFFICES ASSUME W!WebInv, W!Next PROVE W!LateAreRefused'
  OBVIOUS
<1> USE DEF W!WebInv, W!disk, W!pool, W!locks, W!requests, W!history, W!Id
<1>0. /\ Other \notin Requests /\ Nobody \notin Requests
      /\ \A r \in Requests : IdOf[r] \in W!Ids
  BY WebAssumption DEF W!Ids
<1> USE <1>0
<1>1. ASSUME NEW r \in Requests, W!Begin(r)
      PROVE  W!LateAreRefused'
  <2>1. Moves(r, { "idle" }, { "stats", "refused" })
    BY <1>1, RequestMoves
  <2>2. UNCHANGED << slot, tombs, seen >> /\ slot[r] = Nobody
    <3>1. W!OneOf(r)
      BY DEF W!OneEach
    <3> QED
      BY <1>1, <3>1 DEF W!Begin, W!OneOf
  <2>3. late' = late \/ (late' = late \cup { r } /\ IdOf[r] \in tombs)
    BY <1>1 DEF W!Begin
  <2> QED
    BY <2>1, <2>2, <2>3 DEF W!LateAreRefused, Moves, W!TypeOK
<1>2. ASSUME NEW r \in Requests, W!Stat(r)
      PROVE  W!LateAreRefused'
  <2>1. Moves(r, { "stats" }, { "stated" })
    BY <1>2, RequestMoves
  <2>2. /\ UNCHANGED << late, slot, tombs >>
        /\ seen' = IF IdOf[r] \in tombs THEN seen \cup { r } ELSE seen \ { r }
    BY <1>2 DEF W!Stat, W!Sees, W!IsDeleted
  <2> QED
    BY <2>1, <2>2 DEF W!LateAreRefused, Moves, W!TypeOK
<1>3. ASSUME NEW r \in Requests, W!Stated(r)
      PROVE  W!LateAreRefused'
  <2>1. Moves(r, { "stated" },
             { "has", "answered", "refused", "joins", "lists" })
    BY <1>3, RequestMoves
  <2>2. UNCHANGED << late, seen, tombs >>
    BY <1>3 DEF W!Stated
  <2>3. CASE r \in seen
    BY <1>3, <2>1, <2>2, <2>3
    DEF W!Stated, W!LateAreRefused, W!Ends, W!Goes, Moves, W!TypeOK
  <2>4. CASE r \notin seen
    <3>1. r \notin late
      BY <2>1, <2>4 DEF W!LateAreRefused, Moves
    <3>2. \A q \in Requests \ { r } : slot'[q] = slot[q]
      BY <1>3 DEF W!Stated, W!Given, W!TypeOK
    <3> QED
      BY <2>1, <2>2, <3>1, <3>2 DEF W!LateAreRefused, Moves, W!TypeOK
  <2> QED
    BY <2>3, <2>4
<1>4. ASSUME NEW r \in Requests, W!List(r)
      PROVE  W!LateAreRefused'
  <2>1. Moves(r, { "lists" }, { "listed", "reads" })
    BY <1>4, RequestMoves
  <2>2. r \notin late
    BY <2>1 DEF W!LateAreRefused, Moves
  <2>3. /\ UNCHANGED late /\ late \subseteq Requests
        /\ \A q \in Requests \ { r } :
             slot'[q] = slot[q] /\ (q \in seen => q \in seen')
        /\ tombs \subseteq tombs'
    BY <1>4 DEF W!List, W!Sees, W!Given, W!TypeOK
  <2> QED
    BY <2>1, <2>2, <2>3, LateAreLeft
<1>5. ASSUME NEW r \in Requests, W!Read(r)
      PROVE  W!LateAreRefused'
  <2>1. Moves(r, { "reads" }, { "read" })
    BY <1>5, RequestMoves
  <2>2. r \notin late
    BY <2>1 DEF W!LateAreRefused, Moves
  <2>3. /\ UNCHANGED late /\ late \subseteq Requests
        /\ \A q \in Requests \ { r } :
             slot'[q] = slot[q] /\ (q \in seen => q \in seen')
        /\ tombs \subseteq tombs'
    BY <1>5 DEF W!Read, W!Sees, W!Given, W!TypeOK
  <2> QED
    BY <2>1, <2>2, <2>3, LateAreLeft
<1>6. ASSUME NEW r \in Requests, W!Open(r)
      PROVE  W!LateAreRefused'
  <2>1. Moves(r, { "listed", "read" },
              { "refused", "has", "answered", "joins", "owns",
               "owns the file" })
    BY <1>6, RequestMoves
  <2>2. r \notin late
    BY <2>1 DEF W!LateAreRefused, Moves
  <2>3. /\ UNCHANGED late /\ late \subseteq Requests
        /\ \A q \in Requests \ { r } :
             slot'[q] = slot[q] /\ (q \in seen => q \in seen')
        /\ tombs \subseteq tombs'
    BY <1>6 DEF W!Open, W!Sees, W!Given, W!TypeOK
  <2> QED
    BY <2>1, <2>2, <2>3, LateAreLeft
<1>7. ASSUME NEW r \in Requests, W!Own(r)
      PROVE  W!LateAreRefused'
  <2>1. Moves(r, { "owns", "owns the file" },
              { "builds", "builds from the file", "refused" })
    BY <1>7, RequestMoves
  <2>2. r \notin late
    BY <2>1 DEF W!LateAreRefused, Moves
  <2>3. /\ UNCHANGED late /\ late \subseteq Requests
        /\ \A q \in Requests \ { r } :
             slot'[q] = slot[q] /\ (q \in seen => q \in seen')
        /\ tombs \subseteq tombs'
    BY <1>7 DEF W!Own, W!Sees, W!Given, W!TypeOK
  <2> QED
    BY <2>1, <2>2, <2>3, LateAreLeft
<1>8. ASSUME NEW r \in Requests, W!Build(r)
      PROVE  W!LateAreRefused'
  <2>1. Moves(r, { "builds", "builds from the file" },
              { "has", "answered", "refused" })
    BY <1>8, RequestMoves
  <2>2. r \notin late
    BY <2>1 DEF W!LateAreRefused, Moves
  <2>3. /\ UNCHANGED late /\ late \subseteq Requests
        /\ \A q \in Requests \ { r } :
             slot'[q] = slot[q] /\ (q \in seen => q \in seen')
        /\ tombs \subseteq tombs'
    BY <1>8 DEF W!Build, W!Sees, W!Given, W!TypeOK
  <2> QED
    BY <2>1, <2>2, <2>3, LateAreLeft
<1>9. ASSUME NEW r \in Requests, W!Join(r)
      PROVE  W!LateAreRefused'
  <2>1. Moves(r, { "joins" }, { "has", "answered", "refused" })
    BY <1>9, RequestMoves
  <2>2. r \notin late
    BY <2>1 DEF W!LateAreRefused, Moves
  <2>3. /\ UNCHANGED late /\ late \subseteq Requests
        /\ \A q \in Requests \ { r } :
             slot'[q] = slot[q] /\ (q \in seen => q \in seen')
        /\ tombs \subseteq tombs'
    BY <1>9 DEF W!Join, W!Sees, W!Given, W!TypeOK
  <2> QED
    BY <2>1, <2>2, <2>3, LateAreLeft
<1>10. ASSUME NEW r \in Requests, W!Write(r)
       PROVE  W!LateAreRefused'
  <2>1. Moves(r, { "has" }, { "answered" })
    BY <1>10, RequestMoves
  <2>2. r \notin late
    BY <2>1 DEF W!LateAreRefused, Moves
  <2>3. /\ UNCHANGED late /\ late \subseteq Requests
        /\ \A q \in Requests \ { r } :
             slot'[q] = slot[q] /\ (q \in seen => q \in seen')
        /\ tombs \subseteq tombs'
    BY <1>10 DEF W!Write, W!Sees, W!Given, W!TypeOK
  <2> QED
    BY <2>1, <2>2, <2>3, LateAreLeft
<1>11. ASSUME NEW r \in Requests, W!RunEnds(r)
       PROVE  W!LateAreRefused'
  <2>1. UNCHANGED << late, slot, seen, tombs, pc >>
    BY <1>11 DEF W!RunEnds
  <2> QED
    BY <2>1 DEF W!LateAreRefused
<1>12. ASSUME NEW r \in Requests, W!Reserve(r)
       PROVE  W!LateAreRefused'
  <2>1. Moves(r, { "idle" }, { "reserves", "refused" })
    BY <1>12, RequestMoves
  <2>2. r \notin late
    BY <2>1 DEF W!LateAreRefused, Moves
  <2>3. /\ UNCHANGED late /\ late \subseteq Requests
        /\ \A q \in Requests \ { r } :
             slot'[q] = slot[q] /\ (q \in seen => q \in seen')
        /\ tombs \subseteq tombs'
    BY <1>12 DEF W!Reserve, W!Sees, W!Given, W!TypeOK
  <2> QED
    BY <2>1, <2>2, <2>3, LateAreLeft
<1>13. ASSUME NEW r \in Requests, W!Reserved(r)
       PROVE  W!LateAreRefused'
  <2>1. Moves(r, { "reserves" }, { "refused", "stats" })
    BY <1>13, RequestMoves
  <2>2. r \notin late
    BY <2>1 DEF W!LateAreRefused, Moves
  <2>3. /\ UNCHANGED late /\ late \subseteq Requests
        /\ \A q \in Requests \ { r } :
             slot'[q] = slot[q] /\ (q \in seen => q \in seen')
        /\ tombs \subseteq tombs'
    BY <1>13 DEF W!Reserved, W!Sees, W!Given, W!TypeOK
  <2> QED
    BY <2>1, <2>2, <2>3, LateAreLeft
<1>14. ASSUME NEW r \in Requests, W!Delete(r)
       PROVE  W!LateAreRefused'
  <2>1. Moves(r, { "has" }, { "refused", "deletes" })
    BY <1>14, RequestMoves
  <2>2. r \notin late
    BY <2>1 DEF W!LateAreRefused, Moves
  <2>3. /\ UNCHANGED late /\ late \subseteq Requests
        /\ \A q \in Requests \ { r } :
             slot'[q] = slot[q] /\ (q \in seen => q \in seen')
        /\ tombs \subseteq tombs'
    BY <1>14 DEF W!Delete, W!Sees, W!Given, W!TypeOK
  <2> QED
    BY <2>1, <2>2, <2>3, LateAreLeft
<1>15. ASSUME NEW r \in Requests, W!Bury(r)
       PROVE  W!LateAreRefused'
  <2>1. Moves(r, { "deletes" }, { "buried", "refused" })
    BY <1>15, RequestMoves
  <2>2. r \notin late
    BY <2>1 DEF W!LateAreRefused, Moves
  <2>3. /\ UNCHANGED late /\ late \subseteq Requests
        /\ \A q \in Requests \ { r } :
             slot'[q] = slot[q] /\ (q \in seen => q \in seen')
        /\ tombs \subseteq tombs'
    BY <1>15 DEF W!Bury, W!Sees, W!Given, W!TypeOK
  <2> QED
    BY <2>1, <2>2, <2>3, LateAreLeft
<1>16. ASSUME NEW r \in Requests, W!Unlink(r)
       PROVE  W!LateAreRefused'
  <2>1. Moves(r, { "buried" }, { "unlinks", "refused" })
    BY <1>16, RequestMoves
  <2>2. r \notin late
    BY <2>1 DEF W!LateAreRefused, Moves
  <2>3. /\ UNCHANGED late /\ late \subseteq Requests
        /\ \A q \in Requests \ { r } :
             slot'[q] = slot[q] /\ (q \in seen => q \in seen')
        /\ tombs \subseteq tombs'
    BY <1>16 DEF W!Unlink, W!Sees, W!Given, W!TypeOK
  <2> QED
    BY <2>1, <2>2, <2>3, LateAreLeft
<1>17. ASSUME NEW r \in Requests, W!Removes(r)
       PROVE  W!LateAreRefused'
  <2>1. Moves(r, { "unlinks" }, { "unkeys", "refused" })
    BY <1>17, RequestMoves
  <2>2. r \notin late
    BY <2>1 DEF W!LateAreRefused, Moves
  <2>3. /\ UNCHANGED late /\ late \subseteq Requests
        /\ \A q \in Requests \ { r } :
             slot'[q] = slot[q] /\ (q \in seen => q \in seen')
        /\ tombs \subseteq tombs'
    BY <1>17 DEF W!Removes, W!Sees, W!Given, W!TypeOK
  <2> QED
    BY <2>1, <2>2, <2>3, LateAreLeft
<1>18. ASSUME NEW r \in Requests, W!ReadKeys(r)
       PROVE  W!LateAreRefused'
  <2>1. Moves(r, { "unkeys" }, { "keyless" })
    BY <1>18, RequestMoves
  <2>2. r \notin late
    BY <2>1 DEF W!LateAreRefused, Moves
  <2>3. /\ UNCHANGED late /\ late \subseteq Requests
        /\ \A q \in Requests \ { r } :
             slot'[q] = slot[q] /\ (q \in seen => q \in seen')
        /\ tombs \subseteq tombs'
    BY <1>18 DEF W!ReadKeys, W!Sees, W!Given, W!TypeOK
  <2> QED
    BY <2>1, <2>2, <2>3, LateAreLeft
<1>19. ASSUME NEW r \in Requests, W!WriteKeys(r)
       PROVE  W!LateAreRefused'
  <2>1. Moves(r, { "keyless" }, { "answered", "refused" })
    BY <1>19, RequestMoves
  <2>2. r \notin late
    BY <2>1 DEF W!LateAreRefused, Moves
  <2>3. /\ UNCHANGED late /\ late \subseteq Requests
        /\ \A q \in Requests \ { r } :
             slot'[q] = slot[q] /\ (q \in seen => q \in seen')
        /\ tombs \subseteq tombs'
    BY <1>19 DEF W!WriteKeys, W!Sees, W!Given, W!TypeOK
  <2> QED
    BY <2>1, <2>2, <2>3, LateAreLeft
<1>20. ASSUME W!Close
       PROVE  W!LateAreRefused'
  <2>1. UNCHANGED << late, slot, seen, tombs, pc >>
    BY <1>20 DEF W!Close
  <2> QED
    BY <2>1 DEF W!LateAreRefused
<1>21. ASSUME W!Stop
       PROVE  W!LateAreRefused'
  <2>1. UNCHANGED << late, slot, seen, tombs, pc >>
    BY <1>21 DEF W!Stop
  <2> QED
    BY <2>1 DEF W!LateAreRefused
<1>22. ASSUME W!DisposeAll
       PROVE  W!LateAreRefused'
  <2>1. UNCHANGED << late, slot, seen, tombs, pc >>
    BY <1>22 DEF W!DisposeAll
  <2> QED
    BY <2>1 DEF W!LateAreRefused
<1>23. ASSUME W!Restart
       PROVE  W!LateAreRefused'
  <2>1. /\ UNCHANGED << late, slot, seen, tombs >>
        /\ \A q \in Requests :
             /\ pc'[q] \in { pc[q], "refused" }
             /\ pc'[q] \in { "idle", "answered", "refused" }
    BY <1>23 DEF W!Restart
  <2> QED
    BY <2>1 DEF W!LateAreRefused, W!TypeOK
<1>24. ASSUME NEW id \in Shared, W!OtherOwns(id)
       PROVE  W!LateAreRefused'
  <2>1. UNCHANGED << late, slot, seen, tombs, pc >>
    BY <1>24 DEF W!OtherOwns
  <2> QED
    BY <2>1 DEF W!LateAreRefused
<1> QED
  BY <1>1, <1>2, <1>3, <1>4, <1>5, <1>6, <1>7, <1>8, <1>9, <1>10, <1>11,
     <1>12, <1>13, <1>14, <1>15, <1>16, <1>17, <1>18, <1>19, <1>20, <1>21,
     <1>22, <1>23, <1>24
  DEF W!Next, W!Opens, W!Deletes

\* What a request knows of the keys, and what is entered among them, is left
\* alone by a step that neither writes nor reads them.
LEMMA KeysAreLeft ==
  ASSUME W!Buried, W!KeysAgree, W!EnteredIsFound,
         UNCHANGED << created, snap, chain >>, tombs \subseteq tombs',
         \A id \in W!Ids : ~W!Settled(id)' => ~W!Settled(id),
         \A q \in Requests :
           /\ IdOf[q] \in W!Ids
           /\ pc'[q] \in W!Deleting => IdOf[q] \in tombs'
           /\ pc'[q] \in { "reserves", "keyless" } => pc'[q] = pc[q]
           /\ RequestKind[q] = "create" /\
              pc'[q] \notin { "idle", "reserves", "refused" } =>
                pc[q] \notin { "idle", "reserves", "refused" }
  PROVE  W!Buried' /\ W!KeysAgree' /\ W!EnteredIsFound'
<1>1. W!Buried'
  BY DEF W!Buried, W!Id
<1>2. W!KeysAgree'
  BY DEF W!KeysAgree
<1>3. W!EnteredIsFound'
  BY DEF W!EnteredIsFound, W!Id
<1> QED
  BY <1>1, <1>2, <1>3

\* What is entered among the keys is found; nobody brings a key back.
LEMMA WebKeys ==
  W!WebInv /\ W!Next => W!Buried' /\ W!KeysAgree' /\ W!EnteredIsFound'
<1> DEFINE Kept == W!Buried' /\ W!KeysAgree' /\ W!EnteredIsFound'
<1> SUFFICES ASSUME W!WebInv, W!Next
             PROVE  Kept
  OBVIOUS
<1> USE DEF W!WebInv, W!Id, W!disk, W!locks, W!history
<1>0. /\ Other \notin Requests /\ Nobody \notin Requests
      /\ \A r \in Requests : IdOf[r] \in W!Ids
  BY WebAssumption DEF W!Ids
<1> USE <1>0
<1>1. ASSUME NEW r \in Requests, W!Begin(r)
      PROVE  Kept
  <2>1. Moves(r, { "idle" }, { "stats", "refused" })
    BY <1>1, RequestMoves
  <2>2. UNCHANGED << created, snap, chain >> /\ tombs \subseteq tombs'
    BY <1>1 DEF W!Begin
  <2>3. \A id \in W!Ids : ~W!Settled(id)' => ~W!Settled(id)
    BY <1>1 DEF W!Begin, W!Settled
  <2>4. RequestKind[r] # "create"
    BY <1>1 DEF W!Begin
  <2> QED
    BY <2>1, <2>2, <2>3, <2>4, KeysAreLeft DEF Moves, W!Deleting, W!Buried
<1>2. ASSUME NEW r \in Requests, W!Stat(r)
      PROVE  Kept
  <2>1. Moves(r, { "stats" }, { "stated" })
    BY <1>2, RequestMoves
  <2>2. UNCHANGED << created, snap, chain >> /\ tombs \subseteq tombs'
    BY <1>2 DEF W!Stat
  <2>3. \A id \in W!Ids : ~W!Settled(id)' => ~W!Settled(id)
    BY <1>2 DEF W!Stat, W!Settled
  <2> QED
    BY <2>1, <2>2, <2>3, KeysAreLeft DEF Moves, W!Deleting, W!Buried
<1>3. ASSUME NEW r \in Requests, W!Stated(r)
      PROVE  Kept
  <2>1. Moves(r, { "stated" },
             { "has", "answered", "refused", "joins", "lists" })
    BY <1>3, RequestMoves
  <2>2. UNCHANGED << created, snap, chain >> /\ tombs \subseteq tombs'
    BY <1>3 DEF W!Stated
  <2>3. \A id \in W!Ids : ~W!Settled(id)' => ~W!Settled(id)
    BY <1>3 DEF W!Stated, W!Settled
  <2> QED
    BY <2>1, <2>2, <2>3, KeysAreLeft DEF Moves, W!Deleting, W!Buried
<1>4. ASSUME NEW r \in Requests, W!List(r)
      PROVE  Kept
  <2>1. Moves(r, { "lists" }, { "listed", "reads" })
    BY <1>4, RequestMoves
  <2>2. UNCHANGED << created, snap, chain >> /\ tombs \subseteq tombs'
    BY <1>4 DEF W!List
  <2>3. \A id \in W!Ids : ~W!Settled(id)' => ~W!Settled(id)
    BY <1>4 DEF W!List, W!Settled
  <2> QED
    BY <2>1, <2>2, <2>3, KeysAreLeft DEF Moves, W!Deleting, W!Buried
<1>5. ASSUME NEW r \in Requests, W!Read(r)
      PROVE  Kept
  <2>1. Moves(r, { "reads" }, { "read" })
    BY <1>5, RequestMoves
  <2>2. UNCHANGED << created, snap, chain >> /\ tombs \subseteq tombs'
    BY <1>5 DEF W!Read
  <2>3. \A id \in W!Ids : ~W!Settled(id)' => ~W!Settled(id)
    BY <1>5 DEF W!Read, W!Settled
  <2> QED
    BY <2>1, <2>2, <2>3, KeysAreLeft DEF Moves, W!Deleting, W!Buried
<1>6. ASSUME NEW r \in Requests, W!Open(r)
      PROVE  Kept
  <2>1. Moves(r, { "listed", "read" },
             { "refused", "has", "answered", "joins", "owns",
               "owns the file" })
    BY <1>6, RequestMoves
  <2>2. UNCHANGED << created, snap, chain >> /\ tombs \subseteq tombs'
    BY <1>6 DEF W!Open
  <2>3. \A id \in W!Ids : ~W!Settled(id)' => ~W!Settled(id)
    BY <1>6 DEF W!Open, W!Settled
  <2> QED
    BY <2>1, <2>2, <2>3, KeysAreLeft DEF Moves, W!Deleting, W!Buried
<1>7. ASSUME NEW r \in Requests, W!Own(r)
      PROVE  Kept
  <2>1. Moves(r, { "owns", "owns the file" },
             { "builds", "builds from the file", "refused" })
    BY <1>7, RequestMoves
  <2>2. UNCHANGED << created, snap, chain >> /\ tombs \subseteq tombs'
    BY <1>7 DEF W!Own
  <2>3. \A id \in W!Ids : ~W!Settled(id)' => ~W!Settled(id)
    BY <1>7 DEF W!Own, W!Settled
  <2> QED
    BY <2>1, <2>2, <2>3, KeysAreLeft DEF Moves, W!Deleting, W!Buried
<1>8. ASSUME NEW r \in Requests, W!Build(r)
      PROVE  Kept
  <2>1. Moves(r, { "builds", "builds from the file" },
             { "has", "answered", "refused" })
    BY <1>8, RequestMoves
  <2>2. UNCHANGED << created, snap, chain >> /\ tombs \subseteq tombs'
    BY <1>8 DEF W!Build
  <2>3. \A id \in W!Ids : ~W!Settled(id)' => ~W!Settled(id)
    BY <1>8 DEF W!Build, W!Settled
  <2> QED
    BY <2>1, <2>2, <2>3, KeysAreLeft DEF Moves, W!Deleting, W!Buried
<1>9. ASSUME NEW r \in Requests, W!Join(r)
      PROVE  Kept
  <2>1. Moves(r, { "joins" }, { "has", "answered", "refused" })
    BY <1>9, RequestMoves
  <2>2. UNCHANGED << created, snap, chain >> /\ tombs \subseteq tombs'
    BY <1>9 DEF W!Join
  <2>3. \A id \in W!Ids : ~W!Settled(id)' => ~W!Settled(id)
    BY <1>9 DEF W!Join, W!Settled
  <2> QED
    BY <2>1, <2>2, <2>3, KeysAreLeft DEF Moves, W!Deleting, W!Buried
<1>10. ASSUME NEW r \in Requests, W!Write(r)
      PROVE  Kept
  <2>1. Moves(r, { "has" }, { "answered" })
    BY <1>10, RequestMoves
  <2>2. UNCHANGED << created, snap, chain >> /\ tombs \subseteq tombs'
    BY <1>10 DEF W!Write
  <2>3. \A id \in W!Ids : ~W!Settled(id)' => ~W!Settled(id)
    BY <1>10 DEF W!Write, W!Settled
  <2> QED
    BY <2>1, <2>2, <2>3, KeysAreLeft DEF Moves, W!Deleting, W!Buried
<1>11. ASSUME NEW r \in Requests, W!RunEnds(r)
      PROVE  Kept
  <2>1. UNCHANGED << created, snap, chain, pc, tombs >>
    BY <1>11 DEF W!RunEnds, W!requests
  <2>2. \A id \in W!Ids : ~W!Settled(id)' => ~W!Settled(id)
    BY <1>11 DEF W!RunEnds, W!Settled
  <2> QED
    BY <2>1, <2>2, KeysAreLeft DEF W!Buried
<1>12. ASSUME NEW r \in Requests, W!Reserve(r)
      PROVE  Kept
  <2>1. W!Buried'
    <3>1. Moves(r, { "idle" }, { "reserves", "refused" })
      BY <1>12, RequestMoves
    <3>2. /\ UNCHANGED << created, tombs >>
          /\ snap' = snap \/ snap' = [ snap EXCEPT ![r] = created ]
      BY <1>12 DEF W!Reserve
    <3> QED
      BY <3>1, <3>2 DEF W!Buried, W!Deleting, Moves, W!TypeOK
  <2>2. W!KeysAgree'
    <3>1. UNCHANGED << created, saved, tombs, lost >>
      BY <1>12 DEF W!Reserve
    <3>2. CASE closed
      <4>1. pc' = [ pc EXCEPT ![r] = "refused" ] /\ UNCHANGED << chain, snap >>
        BY <1>12, <3>2 DEF W!Reserve, W!Goes
      <4> QED
        BY <3>1, <4>1 DEF W!KeysAgree, W!Settled, W!TypeOK
    <3>3. CASE ~closed
      <4>1. /\ chain = Nobody /\ chain' = r
            /\ snap' = [ snap EXCEPT ![r] = created ]
            /\ pc' = [ pc EXCEPT ![r] = "reserves" ]
        BY <1>12, <3>3 DEF W!Reserve, W!Goes
      <4>2. \A q \in Requests : pc[q] # "reserves"
        BY <4>1 DEF W!KeysAgree
      <4> QED
        BY <3>1, <4>1, <4>2 DEF W!KeysAgree, W!Settled, W!TypeOK
    <3> QED
      BY <3>2, <3>3
  <2>3. W!EnteredIsFound'
    <3>1. Moves(r, { "idle" }, { "reserves", "refused" })
      BY <1>12, RequestMoves
    <3>2. UNCHANGED << created, saved, tombs, lost >>
      BY <1>12 DEF W!Reserve
    <3> QED
      BY <3>1, <3>2 DEF W!EnteredIsFound, W!Settled, Moves
  <2> QED
    BY <2>1, <2>2, <2>3
<1>13. ASSUME NEW r \in Requests, W!Reserved(r)
      PROVE  Kept
  <2>1. W!Buried'
    <3>1. Moves(r, { "reserves" }, { "refused", "stats" })
      BY <1>13, RequestMoves
    <3>2. UNCHANGED << tombs, snap >>
      BY <1>13 DEF W!Reserved
    <3>3. \A id \in W!Ids : created'[id] = "deleted" =>
            created[id] = "deleted" \/ snap[r][id] = "deleted"
      BY <1>13 DEF W!Reserved, W!TypeOK, W!Keys
    <3> QED
      BY <3>1, <3>2, <3>3 DEF W!Buried, W!Deleting, Moves
  <2>2. W!KeysAgree'
    <3>1. Moves(r, { "reserves" }, { "refused", "stats" })
      BY <1>13, RequestMoves
    <3>2. UNCHANGED << saved, tombs, lost, snap >>
      BY <1>13 DEF W!Reserved
    <3>3. \A q \in Requests : pc'[q] # "reserves"
      BY <3>1 DEF W!KeysAgree, Moves
    <3> QED
      BY <1>13, <3>1, <3>2, <3>3, KeysRemain
      DEF W!KeysAgree, W!Settled, Moves, W!TypeOK
  <2>3. W!EnteredIsFound'
    <3>1. Moves(r, { "reserves" }, { "refused", "stats" })
      BY <1>13, RequestMoves
    <3>2. pc'[r] # "refused" => created'[IdOf[r]] = "id"
      <4>1. CASE created' = [ snap[r] EXCEPT ![IdOf[r]] = "id" ]
        BY <4>1 DEF W!TypeOK, W!Keys
      <4>2. CASE W!Ends(r, "refused")
        BY <4>2 DEF W!Ends, W!Goes, W!TypeOK
      <4> QED
        BY <1>13, <4>1, <4>2 DEF W!Reserved
    <3> QED
      BY <1>13, <3>1, <3>2, KeysRemain DEF W!EnteredIsFound, Moves, W!TypeOK
  <2> QED
    BY <2>1, <2>2, <2>3
<1>14. ASSUME NEW r \in Requests, W!Delete(r)
      PROVE  Kept
  <2>1. Moves(r, { "has" }, { "refused", "deletes" })
    BY <1>14, RequestMoves
  <2>2. UNCHANGED << created, snap, chain >> /\ tombs \subseteq tombs'
    BY <1>14 DEF W!Delete
  <2>3. \A id \in W!Ids : ~W!Settled(id)' => ~W!Settled(id)
    BY <1>14 DEF W!Delete, W!Settled
  <2> QED
    BY <2>1, <2>2, <2>3, KeysAreLeft DEF Moves, W!Deleting, W!Buried
<1>15. ASSUME NEW r \in Requests, W!Bury(r)
      PROVE  Kept
  <2>1. Moves(r, { "deletes" }, { "buried", "refused" })
    BY <1>15, RequestMoves
  <2>2. UNCHANGED << created, snap, chain >> /\ tombs \subseteq tombs'
    BY <1>15 DEF W!Bury
  <2>3. \A id \in W!Ids : ~W!Settled(id)' => ~W!Settled(id)
    BY <1>15 DEF W!Bury, W!Settled
  <2>4. pc'[r] = "buried" => IdOf[r] \in tombs'
    BY <1>15 DEF W!Bury, W!Ends, W!Goes, W!TypeOK
  <2> QED
    BY <2>1, <2>2, <2>3, <2>4, KeysAreLeft DEF Moves, W!Deleting, W!Buried
<1>16. ASSUME NEW r \in Requests, W!Unlink(r)
      PROVE  Kept
  <2>1. Moves(r, { "buried" }, { "unlinks", "refused" })
    BY <1>16, RequestMoves
  <2>2. UNCHANGED << created, snap, chain >> /\ tombs \subseteq tombs'
    BY <1>16 DEF W!Unlink
  <2>3. \A id \in W!Ids : ~W!Settled(id)' => ~W!Settled(id)
    BY <1>16 DEF W!Unlink, W!Settled
  <2> QED
    BY <2>1, <2>2, <2>3, KeysAreLeft DEF Moves, W!Deleting, W!Buried
<1>17. ASSUME NEW r \in Requests, W!Removes(r)
      PROVE  Kept
  <2>1. Moves(r, { "unlinks" }, { "unkeys", "refused" })
    BY <1>17, RequestMoves
  <2>2. UNCHANGED << created, snap, chain >> /\ tombs \subseteq tombs'
    BY <1>17 DEF W!Removes
  <2>3. \A id \in W!Ids : ~W!Settled(id)' => ~W!Settled(id)
    BY <1>17 DEF W!Removes, W!Settled, W!Buried, W!Deleting
  <2> QED
    BY <2>1, <2>2, <2>3, KeysAreLeft DEF Moves, W!Deleting, W!Buried
<1>18. ASSUME NEW r \in Requests, W!ReadKeys(r)
      PROVE  Kept
  <2>1. W!Buried'
    <3>1. Moves(r, { "unkeys" }, { "keyless" })
      BY <1>18, RequestMoves
    <3>2. UNCHANGED << created, tombs >> /\ snap' = [ snap EXCEPT ![r] = created ]
      BY <1>18 DEF W!ReadKeys
    <3> QED
      BY <3>1, <3>2 DEF W!Buried, W!Deleting, Moves, W!TypeOK
  <2>2. W!KeysAgree'
    <3>1. Moves(r, { "unkeys" }, { "keyless" })
      BY <1>18, RequestMoves
    <3>2. UNCHANGED << created, saved, tombs, lost, chain >>
      BY <1>18 DEF W!ReadKeys
    <3>3. snap' = [ snap EXCEPT ![r] = created ]
      BY <1>18 DEF W!ReadKeys
    <3> QED
      BY <3>1, <3>2, <3>3 DEF W!KeysAgree, W!Settled, Moves, W!TypeOK
  <2>3. W!EnteredIsFound'
    <3>1. Moves(r, { "unkeys" }, { "keyless" })
      BY <1>18, RequestMoves
    <3>2. UNCHANGED << created, saved, tombs, lost >>
      BY <1>18 DEF W!ReadKeys
    <3> QED
      BY <3>1, <3>2 DEF W!EnteredIsFound, W!Settled, Moves
  <2> QED
    BY <2>1, <2>2, <2>3
<1>19. ASSUME NEW r \in Requests, W!WriteKeys(r)
      PROVE  Kept
  <2>1. W!Buried'
    <3>1. Moves(r, { "keyless" }, { "answered", "refused" })
      BY <1>19, RequestMoves
    <3>2. UNCHANGED << tombs, snap >>
      BY <1>19 DEF W!WriteKeys
    <3>3. \A id \in W!Ids : created'[id] = "deleted" =>
            id = IdOf[r] \/ created[id] = "deleted" \/ snap[r][id] = "deleted"
      BY <1>19 DEF W!WriteKeys, W!Overwrites, W!TypeOK, W!Keys
    <3> QED
      BY <3>1, <3>2, <3>3 DEF W!Buried, W!Deleting, Moves
  <2>2. W!KeysAgree'
    <3>1. Moves(r, { "keyless" }, { "answered", "refused" })
      BY <1>19, RequestMoves
    <3>2. UNCHANGED << snap, chain >>
      BY <1>19 DEF W!WriteKeys
    <3> QED
      BY <1>19, <3>1, <3>2, KeysRemain, KeysReturn
      DEF W!KeysAgree, Moves, W!TypeOK
  <2>3. W!EnteredIsFound'
    <3>1. Moves(r, { "keyless" }, { "answered", "refused" })
      BY <1>19, RequestMoves
    <3> QED
      BY <1>19, <3>1, KeysRemain DEF W!EnteredIsFound, Moves, W!TypeOK
  <2> QED
    BY <2>1, <2>2, <2>3
<1>20. ASSUME W!Close
      PROVE  Kept
  <2>1. UNCHANGED << created, snap, chain, pc, tombs >>
    BY <1>20 DEF W!Close, W!requests
  <2>2. \A id \in W!Ids : ~W!Settled(id)' => ~W!Settled(id)
    BY <1>20 DEF W!Close, W!Settled
  <2> QED
    BY <2>1, <2>2, KeysAreLeft DEF W!Buried
<1>21. ASSUME W!Stop
      PROVE  Kept
  <2>1. UNCHANGED << created, snap, chain, pc, tombs >>
    BY <1>21 DEF W!Stop, W!requests
  <2>2. \A id \in W!Ids : ~W!Settled(id)' => ~W!Settled(id)
    BY <1>21 DEF W!Stop, W!Settled
  <2> QED
    BY <2>1, <2>2, KeysAreLeft DEF W!Buried
<1>22. ASSUME W!DisposeAll
      PROVE  Kept
  <2>1. UNCHANGED << created, snap, chain, pc, tombs >>
    BY <1>22 DEF W!DisposeAll, W!requests
  <2>2. \A id \in W!Ids : ~W!Settled(id)' => ~W!Settled(id)
    BY <1>22 DEF W!DisposeAll, W!Settled
  <2> QED
    BY <2>1, <2>2, KeysAreLeft DEF W!Buried
<1>23. ASSUME W!Restart
      PROVE  Kept
  <2>1. /\ UNCHANGED << created, saved, tombs, lost, snap >>
        /\ \A q \in Requests :
             /\ pc'[q] \in { "idle", "answered", "refused" }
             /\ pc'[q] = "answered" => pc[q] = "answered"
    BY <1>23 DEF W!Restart
  <2> QED
    BY <2>1
    DEF W!Buried, W!KeysAgree, W!EnteredIsFound, W!Settled, W!Deleting
<1>24. ASSUME NEW id \in Shared, W!OtherOwns(id)
      PROVE  Kept
  <2>1. UNCHANGED << created, snap, chain, pc, tombs >>
    BY <1>24 DEF W!OtherOwns, W!requests
  <2>2. \A x \in W!Ids : ~W!Settled(x)' => ~W!Settled(x)
    BY <1>24 DEF W!OtherOwns, W!Settled
  <2> QED
    BY <2>1, <2>2, KeysAreLeft DEF W!Buried
<1> QED
  BY <1>1, <1>2, <1>3, <1>4, <1>5, <1>6, <1>7, <1>8, <1>9, <1>10, <1>11,
    <1>12, <1>13, <1>14, <1>15, <1>16, <1>17, <1>18, <1>19, <1>20, <1>21,
    <1>22, <1>23, <1>24
  DEF W!Next, W!Opens, W!Deletes

\* Every part of the invariant is kept.
LEMMA WebStep == W!WebInv /\ [W!Next]_webVars => W!WebInv'
<1>1. W!WebInv /\ W!Next => W!WebInv'
  BY WebTypes, WebOwnIds, WebOneEach, WebOneWriter, WebLateAreRefused,
     WebKeys
  DEF W!WebInv
<1>2. W!WebInv /\ UNCHANGED webVars => W!WebInv'
  <2> SUFFICES ASSUME W!WebInv, UNCHANGED webVars
               PROVE  W!WebInv'
    OBVIOUS
  <2> USE DEF webVars, W!WebInv
  <2>1. W!TypeOK' /\ W!OwnIds'
    BY DEF W!TypeOK, W!OwnIds
  <2>2. W!OneEach' /\ W!OneWriter'
    BY DEF W!OneEach, W!OneOf, W!OneWriter
  <2>3. W!LateAreRefused' /\ W!Buried'
    BY DEF W!LateAreRefused, W!Buried
  <2>4. W!KeysAgree' /\ W!EnteredIsFound'
    BY DEF W!KeysAgree, W!EnteredIsFound, W!Settled
  <2> QED
    BY <2>1, <2>2, <2>3, <2>4
<1> QED
  BY <1>1, <1>2

\* For any requests for any sessions, made in any order beside another process,
\* and a crash at any point: a session file has one writer, which the pool has
\* not disposed of; who asks for a session after its tombstone was written is
\* not given it; and a session whose creation was answered is found until it
\* is deleted, or its key is dropped by a deletion that did not wait.
THEOREM WebSessionsAreKept == Spec => []WebSessionsKept
<1>1. Init => W!WebInv
  BY WebInit DEF Init
<1>2. W!WebInv /\ [Next]_vars => W!WebInv'
  BY WebStep DEF Next, vars
<1>3. W!WebInv => WebSessionsKept
  <2>1. W!LateAreRefused => W!DeletedStaysDeleted
    BY DEF W!LateAreRefused, W!DeletedStaysDeleted
  <2>2. W!EnteredIsFound => W!CreatedIsFound
    BY DEF W!EnteredIsFound, W!CreatedIsFound, W!Settled
  <2>3. QED
    BY <2>1, <2>2 DEF WebSessionsKept, W!WebSessionsKept, W!WebInv
<1>4. QED
  BY <1>1, <1>2, <1>3, PTL DEF Spec
=============================================================================
