---------------------------- MODULE ModelCatalog ----------------------------
(***************************************************************************)
(* The models of a provider that asks its server for them (Models::refresh)*)
(* and the snapshot of models and credentials that the sessions read       *)
(* (ModelRuntime).  Refreshes, logins, registrations and readers overlap   *)
(* on several threads.                                                     *)
(*                                                                         *)
(* A provider is registered as an instance, which holds its models in      *)
(* memory; another copy, the cache, is kept in a file.  A list of models   *)
(* is a number: the server's lists get larger numbers, 0 is no list.       *)
(***************************************************************************)
EXTENDS Naturals

CONSTANTS
  Jobs,         \* the tasks
  JobKind,      \* what each is: see Kinds
  JobSets,      \* which of them there are
  NoJob,        \* no task
  MaxLists,     \* bound on the server's lists
  MaxFailures   \* bound on failed changes of the cache

Kinds == { "refresh", "login", "register", "rotate", "read" }

VARIABLES
  instance,    \* the registered instance
  dynamic,     \* by instance: its models
  cache,       \* the list in the file, and the generation that wrote it
  listed,      \* the server's list
  generation,  \* of the provider's refreshes: the older are cancelled
  publishing,  \* the task that holds the publication lock
  changes,     \* ModelRuntime.refresh_generation
  secret,      \* the credential: how often it has changed
  credentials, \* the credentials' generation
  views,       \* how many snapshots were begun
  snapshot,    \* the snapshot
  step,        \* where a task is
  its,         \* what a task has: see NoneOfIts
  stale,       \* the generation that wrote it, if it was not the newest then
  passed,      \* a refresh left the snapshot to a change that overlapped it
  failures     \* changes of the cache that failed: writes and deletions

vars == << instance, dynamic, cache, listed, generation, publishing, changes,
           secret, credentials, views, snapshot, step, its, stale, passed,
           failures >>

\* A task's instance, generation, list and count of changes, while it
\* refreshes; then what the snapshot it makes will hold.
NoneOfIts == [ of |-> 0, generation |-> 0, list |-> 0, changes |-> 0,
               view |-> 0, credentials |-> 0, models |-> 0, secret |-> 0 ]

TypeOK ==
  /\ instance \in Nat /\ DOMAIN dynamic = 0 .. instance
  /\ cache.list \in 0 .. MaxLists /\ listed \in 0 .. MaxLists
  /\ { generation, changes, secret, credentials, views } \subseteq Nat
  /\ publishing \in Jobs \cup { NoJob }
  /\ step \in [ Jobs -> { "idle", "saved", "changed", "collected", "locking",
                          "reading", "restoring", "fetching", "fetched",
                          "publishing", "writing", "checking", "refreshed",
                          "viewing", "models", "secrets", "view", "over" } ]
  /\ passed \in BOOLEAN
  /\ failures \in [ { "write", "delete" } -> 0 .. MaxFailures ]

Init ==
  /\ instance = 0 /\ dynamic = [ i \in { 0 } |-> 0 ]
  /\ cache = [ list |-> 0, by |-> 0 ] /\ listed = 0 /\ generation = 0
  /\ publishing = NoJob /\ changes = 0 /\ secret = 0 /\ credentials = 0
  /\ views = 0 /\ snapshot = [ models |-> 0, secret |-> 0, credentials |-> 0 ]
  /\ \E set \in JobSets :
       step = [ j \in Jobs |-> IF j \in set THEN "idle" ELSE "over" ]
  /\ its = [ j \in Jobs |-> NoneOfIts ]
  /\ stale = { } /\ passed = FALSE
  /\ failures = [ what \in { "write", "delete" } |-> 0 ]

Go(j, from, to) == step[j] = from /\ step' = [ step EXCEPT ![j] = to ]

catalog == << instance, dynamic, cache, generation, publishing, stale, failures >>
shown == << views, snapshot >>

-----------------------------------------------------------------------------
(* What begins.                                                            *)

\* set_provider: an instance without models; older refreshes are cancelled.
Replace ==
  /\ instance' = instance + 1 /\ generation' = generation + 1
  /\ dynamic' = [ i \in 0 .. instance + 1 |->
                    IF i = instance + 1 THEN 0 ELSE dynamic[i] ]
  /\ UNCHANGED << cache, publishing, stale, failures >>

\* The server's list changes.
List ==
  /\ listed < MaxLists /\ listed' = listed + 1
  /\ UNCHANGED << catalog, changes, secret, credentials, shown, step, its, passed >>

Counts(j) ==
  /\ changes' = changes + 1
  /\ its' = [ its EXCEPT ![j].changes = changes + 1 ]

\* ModelRuntime::refresh: with a models.json, the provider is composed anew:
\* it is the same instance or another, registered again in both cases.
Refresh(j) ==
  /\ JobKind[j] = "refresh" /\ Go(j, "idle", "changed") /\ Counts(j)
  /\ \/ UNCHANGED catalog
     \/ /\ generation' = generation + 1
        /\ UNCHANGED << instance, dynamic, cache, publishing, stale, failures >>
     \/ Replace
  /\ UNCHANGED << listed, secret, credentials, shown, passed >>

\* The file is written before the generation of the credentials moves.
ChangeSecret(j) ==
  /\ JobKind[j] \in { "login", "rotate" } /\ Go(j, "idle", "saved")
  /\ secret' = secret + 1
  /\ UNCHANGED << catalog, listed, changes, credentials, shown, its, passed >>

\* A token that was exchanged is not followed by a refresh, a login is.
SecretChanged(j) ==
  /\ JobKind[j] \in { "login", "rotate" }
  /\ Go(j, "saved", IF JobKind[j] = "login" THEN "changed" ELSE "over")
  /\ credentials' = credentials + 1
  /\ IF JobKind[j] = "login" THEN Counts(j) ELSE UNCHANGED << changes, its >>
  /\ UNCHANGED << catalog, listed, secret, shown, passed >>

Register(j) ==
  /\ JobKind[j] = "register" /\ Go(j, "idle", "viewing")
  /\ Replace /\ Counts(j)
  /\ UNCHANGED << listed, secret, credentials, shown, passed >>

\* ensure_credential_snapshot
Look(j) ==
  /\ JobKind[j] = "read" /\ snapshot.credentials # credentials
  /\ Go(j, "idle", "viewing")
  /\ UNCHANGED << catalog, listed, changes, secret, credentials, shown, its, passed >>

-----------------------------------------------------------------------------
(* Models::refresh, for the provider.                                      *)

IsCurrent(j) == its[j].generation = generation

Collect(j) ==
  /\ Go(j, "changed", "collected")
  /\ its' = [ its EXCEPT ![j].of = instance ]
  /\ UNCHANGED << catalog, listed, changes, secret, credentials, shown, passed >>

\* A provider that was replaced meanwhile is left out.
Enlist(j) ==
  /\ IF its[j].of = instance
     THEN /\ Go(j, "collected", "locking")
          /\ generation' = generation + 1
          /\ its' = [ its EXCEPT ![j].generation = generation + 1 ]
     ELSE Go(j, "collected", "refreshed") /\ UNCHANGED << generation, its >>
  /\ UNCHANGED << instance, dynamic, cache, publishing, stale, failures,
                  listed, changes, secret, credentials, shown, passed >>

\* Where a refresh waits, a newer one makes it end.
Overtaken(j) ==
  /\ step[j] \in { "locking", "reading", "fetching", "fetched" }
  /\ ~IsCurrent(j)
  /\ step' = [ step EXCEPT ![j] = "refreshed" ]
  /\ publishing' = IF publishing = j THEN NoJob ELSE publishing
  /\ UNCHANGED << instance, dynamic, cache, generation, stale, failures,
                  listed, changes, secret, credentials, shown, its, passed >>

LockCache(j) ==
  /\ publishing = NoJob /\ IsCurrent(j) /\ Go(j, "locking", "reading")
  /\ publishing' = j
  /\ UNCHANGED << instance, dynamic, cache, generation, stale, failures,
                  listed, changes, secret, credentials, shown, its, passed >>

ReadCache(j) ==
  /\ IsCurrent(j) /\ Go(j, "reading", "restoring")
  /\ its' = [ its EXCEPT ![j].list = cache.list ]
  /\ UNCHANGED << catalog, listed, changes, secret, credentials, shown, passed >>

\* Without the network, or a credential for it, the cache is all there is.
Restore(j) ==
  /\ \/ Go(j, "restoring", "refreshed")
     \/ JobKind[j] = "refresh" /\ Go(j, "restoring", "fetching")
  /\ dynamic' = IF its[j].list = 0 THEN dynamic
                ELSE [ dynamic EXCEPT ![its[j].of] = its[j].list ]
  /\ publishing' = NoJob /\ its' = [ its EXCEPT ![j].list = 0 ]
  /\ UNCHANGED << instance, cache, generation, stale, failures, listed,
                  changes, secret, credentials, shown, passed >>

Fetch(j) ==
  /\ IsCurrent(j)
  /\ \/ Go(j, "fetching", "fetched")
     \/ Go(j, "fetching", "refreshed")
  /\ its' = [ its EXCEPT ![j].list = listed ]
  /\ UNCHANGED << catalog, listed, changes, secret, credentials, shown, passed >>

WhenFree(j) == publishing = NoJob
MayPublish(j) == publishing = NoJob /\ IsCurrent(j)

LockModels(j) ==
  /\ MayPublish(j) /\ Go(j, "fetched", "publishing")
  /\ publishing' = j
  /\ UNCHANGED << instance, dynamic, cache, generation, stale, failures,
                  listed, changes, secret, credentials, shown, its, passed >>

Publish(j) ==
  /\ Go(j, "publishing", "writing")
  /\ dynamic' = [ dynamic EXCEPT ![its[j].of] = its[j].list ]
  /\ UNCHANGED << instance, cache, generation, publishing, stale, failures,
                  listed, changes, secret, credentials, shown, its, passed >>

\* The file of the cache cannot be changed.
CacheFails(what) ==
  /\ failures["write"] + failures["delete"] < MaxFailures
  /\ failures' = [ failures EXCEPT ![what] = @ + 1 ]
  /\ UNCHANGED cache

\* The write of the cache is not cancelled; it may fail.
WriteCache(j) ==
  /\ Go(j, "writing", "checking")
  /\ \/ /\ cache' = [ list |-> its[j].list, by |-> its[j].generation ]
        /\ stale' = IF IsCurrent(j) THEN { } ELSE { its[j].generation }
        /\ UNCHANGED failures
     \/ CacheFails("write") /\ UNCHANGED stale
  /\ UNCHANGED << instance, dynamic, generation, publishing, listed, changes,
                  secret, credentials, shown, its, passed >>

\* Another refresh was begun meanwhile: what was written goes, unless that
\* fails, which is reported and not tried again.
LeavesIt(j) == FALSE
Withdraws(j) == ~IsCurrent(j)

CheckCache(j) ==
  /\ Go(j, "checking", "refreshed") /\ publishing' = NoJob
  /\ \/ /\ cache' = IF Withdraws(j) THEN [ list |-> 0, by |-> 0 ] ELSE cache
        /\ UNCHANGED failures
     \/ Withdraws(j) /\ CacheFails("delete")
  /\ UNCHANGED << instance, dynamic, generation, stale, listed, changes,
                  secret, credentials, shown, its, passed >>

\* A refresh during which something changed leaves the snapshot to that.
Refreshed(j) ==
  LET mine == JobKind[j] = "login" \/ its[j].changes = changes IN
  /\ Go(j, "refreshed", IF mine THEN "viewing" ELSE "over")
  /\ passed' = (passed \/ ~mine)
  /\ its' = [ its EXCEPT ![j] = NoneOfIts ]
  /\ UNCHANGED << catalog, listed, changes, secret, credentials, shown >>

-----------------------------------------------------------------------------
(* refresh_snapshot_sync                                                   *)

View(j) ==
  /\ Go(j, "viewing", "models") /\ views' = views + 1
  /\ its' = [ its EXCEPT ![j] = [ NoneOfIts EXCEPT !.view = views + 1,
                                    !.credentials = credentials ] ]
  /\ UNCHANGED << catalog, listed, changes, secret, credentials, snapshot, passed >>

ViewModels(j) ==
  /\ Go(j, "models", "secrets")
  /\ its' = [ its EXCEPT ![j].models = dynamic[instance] ]
  /\ UNCHANGED << catalog, listed, changes, secret, credentials, shown, passed >>

ViewSecret(j) ==
  /\ Go(j, "secrets", "view")
  /\ its' = [ its EXCEPT ![j].secret = secret ]
  /\ UNCHANGED << catalog, listed, changes, secret, credentials, shown, passed >>

\* Only the newest is shown, and not if a credential changed meanwhile.
AnyShows(j) == TRUE
Shows(j) == its[j].view = views /\ its[j].credentials = credentials

Show(j) ==
  /\ Go(j, "view", "over")
  /\ snapshot' = IF Shows(j)
                 THEN [ models |-> its[j].models, secret |-> its[j].secret,
                        credentials |-> its[j].credentials ]
                 ELSE snapshot
  /\ its' = [ its EXCEPT ![j] = NoneOfIts ]
  /\ UNCHANGED << catalog, listed, changes, secret, credentials, views, passed >>

Next ==
  \/ List
  \/ \E j \in Jobs :
       \/ Refresh(j) \/ ChangeSecret(j) \/ SecretChanged(j) \/ Register(j)
       \/ Look(j) \/ Collect(j) \/ Enlist(j) \/ Overtaken(j)
       \/ LockCache(j) \/ ReadCache(j) \/ Restore(j) \/ Fetch(j)
       \/ LockModels(j) \/ Publish(j) \/ WriteCache(j) \/ CheckCache(j)
       \/ Refreshed(j) \/ View(j) \/ ViewModels(j) \/ ViewSecret(j) \/ Show(j)

Spec == Init /\ [][Next]_vars

-----------------------------------------------------------------------------
(* What the sessions rely on.                                              *)

\* An older answer of the server never replaces a newer one in memory, unless
\* the newer one could not be written to the cache.
ModelsDoNotGoBack ==
  [][ failures'["write"] > 0 \/
      \A i \in DOMAIN dynamic : dynamic'[i] >= dynamic[i] ]_vars

\* What a refresh wrote after a newer one was begun does not stay, unless it
\* could not be deleted: then it stays until another refresh publishes.
StaleCacheIsWithdrawn ==
  publishing = NoJob /\ cache.by \in stale => failures["delete"] > 0

\* When everything has ended, the snapshot shows the models and the
\* credential as they are, or is made anew by whoever reads it.  A refresh
\* that a change overlapped leaves the snapshot to the change, which may have
\* read the models before the refresh published: then they may be missing.
SnapshotCatchesUp ==
  (\A j \in Jobs : step[j] \in { "idle", "over" }) =>
    \/ snapshot.credentials # credentials
    \/ /\ snapshot.secret = secret
       /\ passed \/ snapshot.models = dynamic[instance]

CatalogIsCurrent ==
  ModelsDoNotGoBack /\ [](StaleCacheIsWithdrawn /\ SnapshotCatchesUp)
=============================================================================
