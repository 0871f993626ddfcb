----------------------------- MODULE MCSessions -----------------------------
(***************************************************************************)
(* The parts of the system that make, keep and serve a session: its tree   *)
(* of entries, the host that replaces it, the MCP servers that lend it     *)
(* tools, the warmer of its provider's cache and the pool of the web       *)
(* server.  They share no state: a behaviour is one of one part, the       *)
(* others rest in their initial states, and each module is checked as it   *)
(* would be alone.                                                         *)
(***************************************************************************)
EXTENDS Naturals, TLC

CONSTANTS
  Limits, MaxCalls,
  MaxRunners, MaxStates, Bounds,
  Tasks, TaskKind, Target, First, Nobody,
  MaxRequests,
  Requests, RequestKind, IdOf, RequestSets, Saved, Shared, Other

CONSTANTS
  sFirst, tSwitch, tNew, tFork, tDispose,
  rWrite, rDelete, rGet, rCreate, idOld, idNew

\* The kinds of SessionTree.
EntryKinds ==
  { "user", "custom", "answer", "calls", "failed", "result", "note", "label",
    "edit", "summary", "compaction" }

Only(some) ==
  [ k \in EntryKinds \cup { "move" } |-> IF k \in DOMAIN some THEN some[k] ELSE 0 ]

\* Failed attempts, with the results of their calls, before compactions.
Recovery ==
  Only("user" :> 2 @@ "calls" :> 1 @@ "result" :> 2 @@ "failed" :> 1 @@
       "edit" :> 3 @@ "compaction" :> 1 @@ "move" :> 1)

\* Compactions upon compactions, anchored at entries nobody sees.
Anchors ==
  Only("user" :> 2 @@ "answer" :> 1 @@ "note" :> 1 @@ "label" :> 1 @@
       "compaction" :> 2 @@ "move" :> 1)

\* Branches left with a summary.
Branches ==
  Only("user" :> 2 @@ "answer" :> 1 @@ "custom" :> 1 @@ "summary" :> 1 @@
       "compaction" :> 1 @@ "move" :> 2)

MCLimits == { Recovery, Anchors, Branches }

\* Three states of a server, or two whose tools change.
MCBounds ==
  { [ states |-> 3, versions |-> 1 ], [ states |-> 2, versions |-> 2 ] }

\* The session's own file is opened again, among others.
MCTaskKind ==
  tSwitch :> "switch" @@ tNew :> "new" @@ tFork :> "fork" @@
  tDispose :> "dispose"
MCTarget == [ t \in Tasks |-> sFirst ]

\* A session that is on disk, used and deleted, while another is created.
MCRequestKind ==
  rWrite :> "write" @@ rDelete :> "delete" @@ rGet :> "get" @@
  rCreate :> "create"
MCRequestSets == { { rWrite, rDelete, rGet }, { rDelete, rGet, rCreate } }
MCIdOf ==
  rWrite :> idOld @@ rDelete :> idOld @@ rGet :> idOld @@ rCreate :> idNew

VARIABLES
  part,
  ent, leaf, run, prep, nav, torn, limit, moves,
  bounds, runner, active, tools, started, current, made, of, cancelled, client, task,
  got, notice, version, does, owns, change, closer,
  host, hosted, held, taskPc, turn, tokens, disposing, bound, ears, unheard,
  saved, created, tombs, named, slots, opening, removed, closed, chain, writes,
  latest, warming, refreshing, outdated, timer, mode, settled, stale, stopping,
  life, pc, seen, snap, slot, running, closing, late, lost, crashed

T == INSTANCE SessionTree
M == INSTANCE McpServers
H == INSTANCE SessionRuntime
       WITH KindOf <- TaskKind, slot <- host, life <- hosted, pc <- taskPc,
            cancelled <- tokens
C == INSTANCE CacheWarmer
       WITH active <- warming, cancelled <- outdated, task <- timer
W == INSTANCE WebSessions
       WITH KindOf <- RequestKind, owner <- named, closer <- closing

ASSUME SessionsAssumption ==
  /\ MaxCalls \in Nat \ { 0 } /\ MaxRequests \in Nat
  /\ Limits \subseteq [ T!Kinds \cup { "move" } -> Nat ]
  /\ MaxRunners \in Nat \ { 0 } /\ MaxStates \in Nat
  /\ Bounds \subseteq [ states : 0 .. MaxStates, versions : Nat ]
  /\ TaskKind \in [ Tasks -> { "switch", "new", "fork", "import", "dispose" } ]
  /\ First \notin Tasks /\ Nobody \notin Tasks \cup { First }

\* The other process is none of the requests, nor is nobody.
ASSUME WebAssumption ==
  Saved \subseteq W!Ids /\ Other \notin Requests /\ Nobody \notin Requests

treeVars == << ent, leaf, run, prep, nav, torn, limit, moves >>
mcpVars == << bounds, runner, active, tools, started, current, made, of,
              cancelled, client, task, got, notice, version, does, owns, change, closer >>
hostVars == << host, hosted, held, taskPc, turn, tokens, disposing, bound,
               ears, unheard >>
warmerVars == << latest, warming, refreshing, outdated, timer, mode, settled,
                 stale, stopping >>
webVars == << saved, created, tombs, named, slots, opening, removed, closed,
              chain, writes, life, pc, seen, snap, slot, running, closing,
              late, lost, crashed >>
vars == << part, treeVars, mcpVars, hostVars, warmerVars, webVars >>

Init ==
  /\ part \in { "tree", "mcp", "host", "warmer", "web" }
  /\ T!Init /\ M!Init /\ H!Init /\ C!Init /\ W!Init
  /\ part # "tree" => limit = CHOOSE x \in Limits : TRUE
  /\ part # "mcp" => bounds = CHOOSE x \in Bounds : TRUE
  /\ part # "web" => \A r \in CHOOSE x \in RequestSets : TRUE : pc[r] = "idle"

Next ==
  /\ UNCHANGED part
  /\ \/ part = "tree" /\ T!Next
        /\ UNCHANGED << mcpVars, hostVars, warmerVars, webVars >>
     \/ part = "mcp" /\ M!Next
        /\ UNCHANGED << treeVars, hostVars, warmerVars, webVars >>
     \/ part = "host" /\ H!Next
        /\ UNCHANGED << treeVars, mcpVars, warmerVars, webVars >>
     \/ part = "warmer" /\ C!Next
        /\ UNCHANGED << treeVars, mcpVars, hostVars, webVars >>
     \/ part = "web" /\ W!Next
        /\ UNCHANGED << treeVars, mcpVars, hostVars, warmerVars >>

Spec == Init /\ [][Next]_vars

-----------------------------------------------------------------------------
(* What each part promises; the properties are explained in their modules. *)

\* The model is shown every message of the branch once, or a summary of it; a
\* fork has its branch's entries, and a branch summary covers what is left,
\* as far as its token budget goes.
HistoryIsKept ==
  part = "tree" => T!NothingLostOrRepeated /\ T!BranchesLoseNothing

\* What the model is shown is a transcript that it can answer.
ContextCanBeAnswered == part = "tree" => T!ContextCanBeAnswered

\* What a session has of an MCP server is its newest connection, up to date.
ToolsFollowServer == M!ToolsFollowServer

\* The host serves one session, with its file, and a disposal ends.
RuntimeServesOne == part = "host" => H!RuntimeServesOne

\* The warmer's active run is the newest one, and has a task.
RunIsNewestAndDriven == C!RunIsNewestAndDriven

\* A web session has one writer, is found when its creation was answered, and
\* is not when its deletion was.
WebSessionsKept == W!WebSessionsKept
=============================================================================
