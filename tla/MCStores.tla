------------------------------ MODULE MCStores ------------------------------
(***************************************************************************)
(* The parts of the system whose promise is about files and crashes: the   *)
(* session store, the web server's inbox and its receipts, the lock of the *)
(* telemetry files, and the credentials of a provider.  They share no      *)
(* state: a behaviour is one of one part, the others rest in their initial *)
(* states, and each module is checked as it would be alone.                *)
(***************************************************************************)
EXTENDS Naturals, TLC

CONSTANTS
  MaxEntries,
  Items, NoItem, MaxMishaps,
  Requests, SignatureOf, NoRequest,
  Processes, Nobody,
  Users, UserKind, ProcessOf, Unlocked, MaxTokens, MaxFaults

ASSUME MaxEntriesAssumption == MaxEntries \in Nat

\* Nobody is a process, no request or input is missing, no input is a run of
\* other origin, and no signature is an answer.
ASSUME NamesAssumption ==
  /\ Nobody \notin Processes /\ NoRequest \notin Requests
  /\ NoItem \notin Items /\ "foreign" \notin Items
  /\ { SignatureOf[r] : r \in Requests } \cap { "none", "error", "conflict" } = { }

\* No task is the one that holds a free lock.
ASSUME CredentialsAssumption ==
  /\ UserKind \in [ Users -> { "request", "login", "logout" } ]
  /\ Unlocked \notin Users
  /\ MaxTokens \in Nat \ { 0 } /\ MaxFaults \in Nat

CONSTANTS
  i1, i2, k1, k2, k3, o, p, q, uFirst, uSecond, uLogin, uLogout, pFirst, pOther

\* The third request comes with the key of the others, but another body.
MCSignatureOf == k1 :> "one" @@ k2 :> "one" @@ k3 :> "other"

\* A request of each of two processes, a login and a logout.
MCUserKind ==
  uFirst :> "request" @@ uSecond :> "request" @@ uLogin :> "login" @@
  uLogout :> "logout"
MCProcessOf ==
  uFirst :> pFirst @@ uSecond :> pOther @@ uLogin :> pFirst @@
  uLogout :> pOther

VARIABLES
  part,
  file, survivors, status, mem, flushed, poisoned, op, nextId, acked, refused,
  batches,
  held, loaded, inboxFile, drain, plan, wakeRequested, prompting, out, awaited,
  ids, steers, session, nudge, closed, taken, mistaken, spoiled, mishaps,
  stage, receipt, work, joined, result, effects,
  at, lock, named, clearer, dead,
  auth, ran, latest, guard, fileGuard, unsure, task, token, told, sent, spoilt,
  gone, faults

S == INSTANCE SessionStore
W == INSTANCE WebInbox WITH file <- inboxFile
R == INSTANCE MutationReceipts
L == INSTANCE FileLock
C == INSTANCE Credentials WITH at <- task

storeVars == << file, survivors, status, mem, flushed, poisoned, op, nextId,
                acked, refused, batches >>
inboxVars == << held, loaded, inboxFile, drain, plan, wakeRequested,
                prompting, out, awaited, ids, steers, session, nudge, closed,
                taken, mistaken, spoiled, mishaps >>
receiptsVars == << stage, receipt, work, joined, result, effects >>
lockVars == << at, lock, named, clearer, dead >>
authVars == << auth, ran, latest, guard, fileGuard, unsure, task, token, told,
               sent, spoilt, gone, faults >>
vars == << part, storeVars, inboxVars, receiptsVars, lockVars, authVars >>

Init ==
  /\ part \in { "store", "inbox", "receipts", "lock", "auth" }
  /\ S!Init /\ W!Init /\ R!Init /\ L!Init /\ C!Init

Next ==
  /\ UNCHANGED part
  /\ \/ /\ part = "store" /\ S!Next
        /\ UNCHANGED << inboxVars, receiptsVars, lockVars, authVars >>
     \/ /\ part = "inbox" /\ W!Next
        /\ UNCHANGED << storeVars, receiptsVars, lockVars, authVars >>
     \/ /\ part = "receipts" /\ R!Next
        /\ UNCHANGED << storeVars, inboxVars, lockVars, authVars >>
     \/ /\ part = "lock" /\ L!Next
        /\ UNCHANGED << storeVars, inboxVars, receiptsVars, authVars >>
     \/ /\ part = "auth" /\ C!Next
        /\ UNCHANGED << storeVars, inboxVars, receiptsVars, lockVars >>

Spec == Init /\ [][Next]_vars

-----------------------------------------------------------------------------
(* What each part promises; the properties are explained in their modules. *)

\* A crash leaves what callers were told: all that was stored, nothing that was
\* refused, no half of a batch, and what the session has in memory.
CrashesKeepPromises == S!CrashesKeepPromises

\* The web session takes an input of the inbox at most once, and none is left
\* pending in an inbox at rest for want of a wake-up.
InboxDelivers == W!TakenOnce /\ W!NoWakeLost

\* What a receipt's key stands for happens at most once.
KeyActsOnce == R!KeyActsOnce

\* A live process inside the lock holds it.
LockIsExclusive == L!LockIsExclusive

\* The credential in the file can be used, and a logout lasts.
CredentialsKept == C!CredentialsKept
=============================================================================
