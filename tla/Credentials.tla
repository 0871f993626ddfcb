---------------------------- MODULE Credentials -----------------------------
(***************************************************************************)
(* The credential of one provider in auth.json (FileAuthStorage), and what *)
(* is done with it: requests that refresh it when it has run out           *)
(* (resolve_provider_auth, refresh_stored_oauth_credential), logins and    *)
(* logouts, by several tasks of several processes.                         *)
(*                                                                         *)
(* The server rotates the tokens: a token can be exchanged once, for its   *)
(* successor.  A token is << login, n >>; the server knows the last n of   *)
(* every login.  Runs of a process may end, a reply may be lost, a write   *)
(* may fail, or may be done although the directory could not be synced.    *)
(***************************************************************************)
EXTENDS Naturals, FiniteSets

CONSTANTS
  Users,       \* tasks that ask for, make or drop the credential
  UserKind,    \* what each does: "request", "login" or "logout"
  ProcessOf,   \* the process of each
  Unlocked,    \* no task
  MaxTokens,   \* bound on the exchanges of a login
  MaxFaults    \* bound on crashes, lost replies and failed writes

Procs == { ProcessOf[t] : t \in Users }
Logins == { t \in Users : UserKind[t] = "login" }
NoToken == << Unlocked, 0 >>

VARIABLES
  auth,       \* the token in the file
  ran,        \* tokens that have run out
  latest,     \* by login: the server's last token
  guard,      \* by process: the task that holds its lock
  fileGuard,  \* the task that holds the lock between processes
  unsure,     \* processes whose last write may not last
  at,         \* where a task is
  token,      \* the token a task holds
  told,       \* what the caller was told
  sent,       \* tokens that were offered for exchange, and by whom
  spoilt,     \* logins whose successor was lost
  gone,       \* a logout was answered, and no login saved since
  faults

vars == << auth, ran, latest, guard, fileGuard, unsure, at, token, told, sent,
           spoilt, gone, faults >>

Tokens == { NoToken } \cup (Logins \X (1 .. MaxTokens))

TypeOK ==
  /\ auth \in Tokens /\ ran \subseteq Tokens
  /\ latest \in [ Logins -> 0 .. MaxTokens ]
  /\ guard \in [ Procs -> Users \cup { Unlocked } ]
  /\ fileGuard \in Users \cup { Unlocked } /\ unsure \subseteq Procs
  /\ at \in [ Users -> { "idle", "asking", "waiting", "locking", "inside",
                         "sent", "writing", "over" } ]
  /\ token \in [ Users -> Tokens ]
  /\ told \in [ Users -> { "nothing", "done", "failed", "aborted" } ]
  /\ sent \subseteq Tokens \X Users /\ spoilt \subseteq Logins
  /\ gone \in BOOLEAN /\ faults \in 0 .. MaxFaults

Init ==
  /\ auth = NoToken /\ ran = { } /\ latest = [ l \in Logins |-> 0 ]
  /\ guard = [ p \in Procs |-> Unlocked ] /\ fileGuard = Unlocked
  /\ unsure = { } /\ at = [ t \in Users |-> "idle" ]
  /\ token = [ t \in Users |-> NoToken ]
  /\ told = [ t \in Users |-> "nothing" ]
  /\ sent = { } /\ spoilt = { } /\ gone = FALSE /\ faults = 0

Go(t, from, to) == at[t] = from /\ at' = [ at EXCEPT ![t] = to ]

\* The first answer is the one the caller has.
Tell(t, what) ==
  told' = [ told EXCEPT ![t] = IF @ = "nothing" THEN what ELSE @ ]

Leave(t) ==
  /\ guard' = [ guard EXCEPT ![ProcessOf[t]] = IF @ = t THEN Unlocked ELSE @ ]
  /\ fileGuard' = IF fileGuard = t THEN Unlocked ELSE fileGuard

Over(t, from, what) == Go(t, from, "over") /\ Tell(t, what) /\ Leave(t)

Faulty(l) ==
  /\ faults < MaxFaults /\ faults' = faults + 1
  /\ spoilt' = spoilt \cup ({ l } \cap Logins)

-----------------------------------------------------------------------------
(* Asking, and the two locks.                                              *)

\* A token runs out, or is found to within the time a request needs.
Expire ==
  /\ auth # NoToken /\ auth \notin ran
  /\ ran' = ran \cup { auth }
  /\ UNCHANGED << auth, latest, guard, fileGuard, unsure, at, token, told,
                  sent, spoilt, gone, faults >>

\* resolve_provider_auth reads the file: a token that has not run out is used.
Resolve(t) ==
  /\ UserKind[t] = "request" /\ guard[ProcessOf[t]] = Unlocked
  /\ IF auth \in ran
     THEN Go(t, "idle", "waiting") /\ UNCHANGED << told, guard, fileGuard >>
     ELSE Over(t, "idle", "done")
  /\ token' = [ token EXCEPT ![t] = auth ]
  /\ UNCHANGED << auth, ran, latest, unsure, sent, spoilt, gone, faults >>

\* A login is made with the user, at the server, before any lock is taken.
AskUser(t) ==
  /\ UserKind[t] = "login" /\ Go(t, "idle", "asking")
  /\ UNCHANGED << auth, ran, latest, guard, fileGuard, unsure, token, told,
                  sent, spoilt, gone, faults >>

UserAnswers(t) ==
  /\ Go(t, "asking", "waiting")
  /\ latest' = [ latest EXCEPT ![t] = 1 ]
  /\ token' = [ token EXCEPT ![t] = << t, 1 >> ]
  /\ UNCHANGED << auth, ran, guard, fileGuard, unsure, told, sent, spoilt,
                  gone, faults >>

AskLogout(t) ==
  /\ UserKind[t] = "logout" /\ Go(t, "idle", "waiting")
  /\ UNCHANGED << auth, ran, latest, guard, fileGuard, unsure, token, told,
                  sent, spoilt, gone, faults >>

\* The lock of the process first, then the one between processes.
Lock(t) ==
  /\ guard[ProcessOf[t]] = Unlocked /\ Go(t, "waiting", "locking")
  /\ guard' = [ guard EXCEPT ![ProcessOf[t]] = t ]
  /\ UNCHANGED << auth, ran, latest, fileGuard, unsure, token, told, sent,
                  spoilt, gone, faults >>

AnyEnters(t) == TRUE
MayEnter(t) == fileGuard = Unlocked

LockFile(t) ==
  /\ MayEnter(t) /\ Go(t, "locking", "inside")
  /\ fileGuard' = t
  /\ UNCHANGED << auth, ran, latest, guard, unsure, token, told, sent, spoilt,
                  gone, faults >>

\* Thirty seconds are all that is waited for the lock between processes.
LockTimesOut(t) ==
  /\ fileGuard # Unlocked /\ Over(t, "locking", "failed")
  /\ UNCHANGED << auth, ran, latest, unsure, token, sent, spoilt, gone, faults >>

\* After a write that may not last, the process must reload before it writes.
Refuse(t) ==
  /\ ProcessOf[t] \in unsure /\ Over(t, "inside", "failed")
  /\ UNCHANGED << auth, ran, latest, unsure, token, sent, spoilt, gone, faults >>

Reload(p) ==
  /\ p \in unsure /\ guard[p] = Unlocked /\ fileGuard = Unlocked
  /\ unsure' = unsure \ { p }
  /\ UNCHANGED << auth, ran, latest, guard, fileGuard, at, token, told, sent,
                  spoilt, gone, faults >>

-----------------------------------------------------------------------------
(* The exchange of a token.                                                *)

\* Under the locks the file is read again: another may have been first.
AsBefore(t) == token[t]
Current(t) == auth

\* The old token is on its way; from here on nothing is cancelled.
Offer(t) ==
  /\ UserKind[t] = "request" /\ ProcessOf[t] \notin unsure
  /\ told[t] # "aborted"
  /\ IF Current(t) # NoToken /\ Current(t) \in ran
     THEN /\ Go(t, "inside", "sent")
          /\ token' = [ token EXCEPT ![t] = Current(t) ]
          /\ sent' = sent \cup { << Current(t), t >> }
          /\ UNCHANGED << told, guard, fileGuard >>
     ELSE Over(t, "inside", "done") /\ UNCHANGED << token, sent >>
  /\ UNCHANGED << auth, ran, latest, unsure, spoilt, gone, faults >>

\* The server gives a token its successor once.
Known(k) == k[2] = latest[k[1]]

Successor(k) == << k[1], k[2] + 1 >>

Exchange(t) ==
  /\ Go(t, "sent", "writing")
  /\ Known(token[t]) /\ token[t][2] < MaxTokens
  /\ latest' = [ latest EXCEPT ![token[t][1]] = @ + 1 ]
  /\ token' = [ token EXCEPT ![t] = Successor(@) ]
  /\ UNCHANGED << auth, ran, guard, fileGuard, unsure, told, sent, spoilt,
                  gone, faults >>

\* It refuses a token it does not know.
Refused(t) ==
  /\ Over(t, "sent", "failed") /\ ~Known(token[t])
  /\ UNCHANGED << auth, ran, latest, unsure, token, sent, spoilt, gone, faults >>

\* The time runs out: the token may have been exchanged all the same.
Unanswered(t) ==
  /\ Over(t, "sent", "failed")
  /\ \/ UNCHANGED << latest, spoilt, faults >>
     \/ /\ Known(token[t]) /\ token[t][2] < MaxTokens
        /\ latest' = [ latest EXCEPT ![token[t][1]] = @ + 1 ]
        /\ Faulty(token[t][1])
  /\ UNCHANGED << auth, ran, unsure, token, sent, gone >>

-----------------------------------------------------------------------------
(* Writing.                                                                *)

\* A login looks once more whether it was cancelled, and is written.
SaveLogin(t) ==
  /\ UserKind[t] = "login" /\ ProcessOf[t] \notin unsure
  /\ Go(t, "inside", "writing")
  /\ UNCHANGED << auth, ran, latest, guard, fileGuard, unsure, token, told,
                  sent, spoilt, gone, faults >>

Drop(t) ==
  /\ UserKind[t] = "logout" /\ ProcessOf[t] \notin unsure
  /\ IF auth = NoToken
     THEN /\ Over(t, "inside", "done") /\ gone' = TRUE
          /\ UNCHANGED token
     ELSE /\ Go(t, "inside", "writing")
          /\ token' = [ token EXCEPT ![t] = NoToken ]
          /\ UNCHANGED << told, guard, fileGuard, gone >>
  /\ UNCHANGED << auth, ran, latest, unsure, sent, spoilt, faults >>

Saved(t) ==
  /\ auth' = token[t]
  /\ gone' = CASE UserKind[t] = "login" -> FALSE
               [] UserKind[t] = "logout" -> TRUE
               [] OTHER -> gone

\* A file beside it is written, synced and renamed.
Write(t) ==
  /\ Saved(t) /\ Over(t, "writing", "done")
  /\ UNCHANGED << ran, latest, unsure, token, sent, spoilt, faults >>

\* It was renamed, but the directory was not synced.
WriteUnsure(t) ==
  /\ faults < MaxFaults /\ faults' = faults + 1
  /\ Saved(t) /\ Over(t, "writing", "failed")
  /\ unsure' = unsure \cup { ProcessOf[t] }
  /\ UNCHANGED << ran, latest, token, sent, spoilt >>

WriteFails(t) ==
  /\ Over(t, "writing", "failed")
  /\ Faulty(IF UserKind[t] = "request" THEN token[t][1] ELSE Unlocked)
  /\ UNCHANGED << auth, ran, latest, unsure, token, sent, gone >>

-----------------------------------------------------------------------------
(* Cancellation and crashes.                                               *)

\* The work of a request that was sent goes on; everything else is dropped.
IsDropped(t) == FALSE
GoesOn(t) == UserKind[t] = "request" /\ at[t] \in { "sent", "writing" }

\* A write of the file is not interrupted: a login is dropped before it.
Cancel(t) ==
  /\ UserKind[t] \in { "request", "login" } /\ told[t] = "nothing"
  /\ at[t] \notin { "idle", "over" }
  /\ UserKind[t] = "login" => at[t] # "writing"
  /\ Tell(t, "aborted")
  /\ IF GoesOn(t)
     THEN UNCHANGED << at, guard, fileGuard >>
     ELSE at' = [ at EXCEPT ![t] = "over" ] /\ Leave(t)
  /\ UNCHANGED << auth, ran, latest, unsure, token, sent, spoilt, gone, faults >>

\* A process dies: its locks are free, what it had received is lost.
Crash(p) ==
  LET Of(t) == ProcessOf[t] = p
      lost == { token[t][1] : t \in { u \in Users :
                  Of(u) /\ UserKind[u] = "request" /\ at[u] = "writing" } } IN
  /\ faults < MaxFaults /\ faults' = faults + 1
  /\ spoilt' = spoilt \cup lost
  /\ at' = [ t \in Users |-> IF Of(t) THEN "over" ELSE at[t] ]
  /\ told' = [ t \in Users |->
                 IF Of(t) /\ told[t] = "nothing" THEN "failed" ELSE told[t] ]
  /\ guard' = [ guard EXCEPT ![p] = Unlocked ]
  /\ fileGuard' = IF fileGuard # Unlocked /\ Of(fileGuard)
                  THEN Unlocked ELSE fileGuard
  /\ unsure' = unsure \ { p }
  /\ UNCHANGED << auth, ran, latest, token, sent, gone >>

Next ==
  \/ Expire
  \/ \E p \in Procs : Reload(p) \/ Crash(p)
  \/ \E t \in Users :
       \/ Resolve(t) \/ AskUser(t) \/ UserAnswers(t) \/ AskLogout(t)
       \/ Lock(t) \/ LockFile(t) \/ LockTimesOut(t) \/ Refuse(t)
       \/ Offer(t) \/ Exchange(t) \/ Refused(t) \/ Unanswered(t)
       \/ SaveLogin(t) \/ Drop(t) \/ Write(t) \/ WriteUnsure(t)
       \/ WriteFails(t) \/ Cancel(t)

Spec == Init /\ [][Next]_vars

-----------------------------------------------------------------------------
(* What the users of a credential rely on.                                 *)

\* Nobody is logged out by two requests that refresh at once or by one that
\* is cancelled: when no task has it in hand, the token in the file is the
\* one the server gave last, unless its successor was lost in a fault.
TokenIsUsable ==
  LET l == auth[1] IN
  \/ auth = NoToken \/ l \in spoilt \/ auth[2] = latest[l]
  \/ \E t \in Users : at[t] \in { "sent", "writing" } /\ token[t][1] = l

\* A token is offered for exchange by one task, again only after a fault or
\* an attempt that brought nothing.
OfferedOnce ==
  \A x, y \in sent :
    x[1] = y[1] /\ x[2] # y[2] =>
      \/ x[1][1] \in spoilt
      \/ \E t \in { x[2], y[2] } : told[t] \in { "failed", "aborted" }

\* A logout is not undone by a request that was refreshing.
LogoutLasts == gone => auth = NoToken

\* A login that was cancelled is not in the file.
CancelledLoginIsNotSaved ==
  auth # NoToken => told[auth[1]] # "aborted"

CredentialsKept ==
  TokenIsUsable /\ OfferedOnce /\ LogoutLasts /\ CancelledLoginIsNotSaved

-----------------------------------------------------------------------------
(* The inductive invariant behind it.                                      *)

\* Who works on the file holds the lock between processes.
OneWorks ==
  \A t \in Users : at[t] \in { "inside", "sent", "writing" } => fileGuard = t

\* What a task holds: the token in the file while it offers that, then its
\* successor, which is the server's last; a login has the first of its own.
InHand ==
  \A t \in Users :
    /\ at[t] = "asking" => UserKind[t] = "login"
    /\ at[t] = "sent" =>
         UserKind[t] = "request" /\ auth # NoToken /\ token[t] = auth
    /\ at[t] = "writing" =>
         CASE UserKind[t] = "request" ->
                /\ auth # NoToken /\ token[t] = Successor(auth)
                /\ token[t][2] = latest[auth[1]]
           [] UserKind[t] = "logout" -> token[t] = NoToken
           [] OTHER -> TRUE
    /\ UserKind[t] = "login"
         /\ at[t] \in { "waiting", "locking", "inside", "sent", "writing" } =>
         token[t] = << t, 1 >> /\ latest[t] = 1

\* Only who is over has an answer, but for a request that was cancelled.
Answered ==
  \A t \in Users : at[t] # "over" =>
    \/ told[t] = "nothing"
    \/ told[t] = "aborted" /\ UserKind[t] = "request"

\* The token in the file is the server's last while none has its successor; its
\* login is over, and so no login writes a second time.
FileIsLatest ==
  auth # NoToken =>
    /\ at[auth[1]] = "over"
    /\ \/ auth[1] \in spoilt \/ auth[2] = latest[auth[1]]
       \/ \E t \in Users : at[t] = "writing" /\ UserKind[t] = "request"

\* Who offered a token has it in hand, or its successor; or it failed, or the
\* token is not in the file again.
Passed(k) == k[1] = auth[1] => k[2] < auth[2]
Offers ==
  \A x \in sent : LET k == x[1] t == x[2] IN
    /\ k # NoToken /\ at[k[1]] = "over"
    /\ at[t] \in { "sent", "writing", "over" }
    /\ at[t] \in { "sent", "writing" } => k = auth
    /\ at[t] = "over" =>
         told[t] \in { "failed", "aborted" } \/ k[1] \in spoilt \/ Passed(k)

CredentialsInv ==
  /\ TypeOK /\ OneWorks /\ InHand /\ Answered /\ FileIsLatest /\ Offers
  /\ OfferedOnce /\ LogoutLasts /\ CancelledLoginIsNotSaved
=============================================================================
