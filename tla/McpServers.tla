----------------------------- MODULE McpServers -----------------------------
(***************************************************************************)
(* The tools that an MCP server lends to a session                         *)
(* (pi-runtime/src/extensions/mcp_runtime.rs, mcp/client.rs): a state (an  *)
(* McpRuntime) per configuration, each with a task that connects, lists    *)
(* the tools, publishes them and then follows the changes that the server  *)
(* announces; a task per runner of extensions that owns the newest state   *)
(* and replaces it when the configuration changes; and runners that        *)
(* replace one another when the session does.                              *)
(*                                                                         *)
(* There is one server: servers share no more than the lock of publishing. *)
(* What a client asks is one step, and may fail.                           *)
(***************************************************************************)
EXTENDS Naturals

CONSTANTS
  MaxRunners,
  MaxStates,
  Bounds      \* how many states and versions of the tools a behaviour has

VARIABLES
  bounds,    \* of this behaviour
  runner,    \* the newest runner; those before are invalidated
  active,    \* and so may the newest be, when the session closes
  tools,     \* in the newest runner: the state they are of, their version
  started,   \* whether the newest runner's session_start is over
  current,   \* the state that all handlers share; 0 is the one installed
  made,      \* the states made since
  of,        \* of a state: the runner that started it, or 0
  cancelled, \* the states that are
  client,    \* of a state: none, open, closed
  task,      \* of a state: what the connecting, later refreshing task does
  got,       \* of a state: the version that its task has listed, or 0
  notice,    \* the states with an announcement that their task has not read
  version,   \* the version of the server's tools
  does,      \* of a runner: what its task does, which owns a state
  owns,      \* of a runner: that state, or 0
  change,    \* of a runner: mcp_servers_change, not read by the owner
  closer     \* the session_shutdown handler

runnerVars == << runner, active, started, tools >>
stateVars == << current, made, of, cancelled, client >>
taskVars == << task, got, notice >>
ownerVars == << does, owns, change, closer >>
vars == << bounds, runnerVars, stateVars, taskVars, version, ownerVars >>

Runners == 1 .. MaxRunners
States == 1 .. MaxStates

Active(r) == r = runner /\ active
Nothing == [ does |-> "none", owns |-> 0 ]

Init ==
  /\ bounds \in Bounds
  /\ runner = 1 /\ active = TRUE /\ started = FALSE /\ tools = << 0, 0 >>
  /\ current = 0 /\ made = 0 /\ of = [ s \in States |-> 0 ]
  /\ cancelled = { }
  /\ client = [ s \in States |-> "none" ]
  /\ task = [ s \in States |-> "none" ] /\ got = [ s \in States |-> 0 ]
  /\ notice = { }
  /\ version = 1
  /\ does = [ r \in Runners |-> "none" ] /\ owns = [ r \in Runners |-> 0 ]
  /\ change = [ r \in Runners |-> FALSE ]
  /\ closer = Nothing

-----------------------------------------------------------------------------
(* The task of a state: connect(), then the refreshes.                     *)

Goes(s, to) == task' = [ task EXCEPT ![s] = to ]
Ends(s) ==
  /\ Goes(s, "ended") /\ got' = [ got EXCEPT ![s] = 0 ]
  /\ notice' = notice \ { s }

\* start(): the tools without the server's, and a task that connects.
Start(s, r) ==
  /\ of' = [ of EXCEPT ![s] = r ]
  /\ IF Active(r) THEN tools' = << s, 0 >> /\ Goes(s, "resolves")
     ELSE UNCHANGED << tools, task >>

\* The select! around connect(), and those of the refreshes, drop what they
\* wait for when the state is cancelled.
Dropped(s) ==
  /\ s \in cancelled
  /\ task[s] \in { "resolves", "connects", "publishes", "waits", "lists" }
  /\ Ends(s)
  /\ UNCHANGED << runnerVars, stateVars, version, ownerVars >>

\* The client enters the list of clients under its lock, unless the state is
\* cancelled, and is subscribed to before it connects.
EntersUnasked(s) == TRUE
MayEnter(s) == s \notin cancelled

Enter(s) ==
  /\ task[s] = "resolves"
  /\ IF MayEnter(s)
     THEN /\ client' = [ client EXCEPT ![s] = "open" ] /\ Goes(s, "connects")
          /\ UNCHANGED << got, notice >>
     ELSE Ends(s) /\ UNCHANGED client
  /\ UNCHANGED << runnerVars, current, made, of, cancelled, version, ownerVars >>

\* initialize and list_tools(), or a failure, which closes the client.
Lists(s) ==
  /\ task[s] = "connects"
  /\ \/ /\ client[s] = "open"
        /\ got' = [ got EXCEPT ![s] = version ] /\ Goes(s, "publishes")
        /\ UNCHANGED << client, notice >>
     \/ client' = [ client EXCEPT ![s] = "closed" ] /\ Ends(s)
  /\ UNCHANGED << runnerVars, current, made, of, cancelled, version, ownerVars >>

\* Under the lock of publishing, after a look at the runner and the token.
PublishesIfActive(s) == Active(of[s])
MayPublish(s) == Active(of[s]) /\ s \notin cancelled

Publish(s) ==
  /\ task[s] \in { "publishes", "republishes" }
  /\ IF MayPublish(s)
     THEN /\ tools' = << s, got[s] >> /\ Goes(s, "waits")
          /\ UNCHANGED << got, notice >>
     ELSE Ends(s) /\ UNCHANGED tools
  /\ UNCHANGED << runner, active, started, stateVars, version, ownerVars >>

\* An announcement is read before the tools are listed again.
ReadNotice(s) ==
  /\ task[s] = "waits" /\ s \in notice
  /\ notice' = notice \ { s } /\ Goes(s, "lists")
  /\ UNCHANGED << runnerVars, stateVars, got, version, ownerVars >>

\* A list that fails leaves the tools as they are until the next
\* announcement.
Relists(s) ==
  /\ task[s] = "lists"
  /\ \/ /\ client[s] = "open"
        /\ got' = [ got EXCEPT ![s] = version ] /\ Goes(s, "republishes")
     \/ got' = [ got EXCEPT ![s] = 0 ] /\ Goes(s, "waits")
  /\ UNCHANGED << runnerVars, stateVars, notice, version, ownerVars >>

\* The server's tools change: the clients that it has are told, and those of
\* their tasks that have subscribed.
HearsWhenPublished(s) == task[s] \in { "waits", "lists", "republishes" }
Hears(s) == task[s] \in { "connects", "publishes", "waits", "lists", "republishes" }

ServerChanges ==
  /\ version < bounds.versions /\ version' = version + 1
  /\ notice' = notice \cup { s \in States : client[s] = "open" /\ Hears(s) }
  /\ UNCHANGED << runnerVars, stateVars, task, got, ownerVars >>

-----------------------------------------------------------------------------
(* close() of a state: it cancels; then, under the lock of publishing, it  *)
(* closes the clients.  Who waits for the lock meanwhile finds the state   *)
(* cancelled, so that the clients may be closed in one step.               *)

Cancels(s) == cancelled' = cancelled \cup { s }
ClosesClients(s) ==
  client' = [ client EXCEPT ![s] = IF @ = "open" THEN "closed" ELSE @ ]

-----------------------------------------------------------------------------
(* Runners.                                                                *)

OwnerIs(r, what) == does' = [ does EXCEPT ![r] = what ]
Owns(r, s) == owns' = [ owns EXCEPT ![r] = s ]

\* session_start: a new state, unless one was started already for a runner
\* that is active still.
Started == current # 0 /\ of[current] # 0
Stale == ~Active(of[current])
SessionStart ==
  /\ active /\ ~started /\ started' = TRUE
  /\ IF Started /\ ~Stale
     THEN UNCHANGED << current, made, of, tools, task, does, owns >>
     ELSE /\ made < bounds.states
          /\ made' = made + 1 /\ current' = made + 1
          /\ Start(made + 1, runner)
          /\ OwnerIs(runner, "waits") /\ Owns(runner, made + 1)
  /\ UNCHANGED << runner, active, cancelled, client, got, notice, version,
                  change, closer >>

\* The session is replaced, or reloads: its runner is invalidated and another
\* takes its place, with the tools of the one before.
Rotate ==
  /\ active /\ runner < MaxRunners /\ closer = Nothing
  /\ runner' = runner + 1 /\ started' = FALSE
  /\ UNCHANGED << active, tools, stateVars, taskVars, version, ownerVars >>

\* The session shuts down: the handler closes the state that is current then,
\* and the runner is invalidated afterwards, or, when the session is dropped,
\* without it.
ShutdownBegins ==
  /\ active /\ started /\ closer = Nothing
  /\ closer' = [ does |-> "closes", owns |-> current ] /\ Cancels(current)
  /\ UNCHANGED << runnerVars, current, made, of, client, taskVars, version,
                  does, owns, change >>
ShutdownCloses ==
  /\ closer.does = "closes" /\ ClosesClients(closer.owns)
  /\ closer' = [ does |-> "ended", owns |-> 0 ]
  /\ UNCHANGED << runnerVars, current, made, of, cancelled, taskVars, version,
                  does, owns, change >>
Invalidate ==
  /\ active /\ closer.does # "closes" /\ active' = FALSE
  /\ UNCHANGED << runner, started, tools, stateVars, taskVars, version,
                  ownerVars >>

\* /mcp reconnect, or a change of the configuration: an event on the bus that
\* all runners share.
Subscribed(r) == does[r] \in { "waits", "closes", "replaces", "starts" }
Reconnect ==
  /\ active /\ made < bounds.states
  /\ \E r \in Runners : Subscribed(r) /\ ~change[r]
  /\ change' = [ r \in Runners |-> change[r] \/ Subscribed(r) ]
  /\ UNCHANGED << runnerVars, stateVars, taskVars, version, does, owns, closer >>

-----------------------------------------------------------------------------
(* The task of a runner that owns a state.                                 *)

\* Biased: it looks at the invalidation first.
OwnerWakes(r) ==
  /\ does[r] = "waits" /\ (~Active(r) \/ change[r])
  /\ OwnerIs(r, IF Active(r) THEN "closes" ELSE "leaves")
  /\ change' = [ change EXCEPT ![r] = FALSE ]
  /\ Cancels(owns[r])
  /\ UNCHANGED << runnerVars, current, made, of, client, taskVars, version,
                  owns, closer >>

OwnerCloses(r) ==
  /\ does[r] \in { "closes", "leaves" } /\ ClosesClients(owns[r])
  /\ IF does[r] = "closes"
     THEN OwnerIs(r, "replaces") /\ UNCHANGED << owns, change >>
     ELSE /\ OwnerIs(r, "ended") /\ Owns(r, 0)
          /\ change' = [ change EXCEPT ![r] = FALSE ]
  /\ UNCHANGED << runnerVars, current, made, of, cancelled, taskVars, version,
                  closer >>

\* Under the lock of the shared state, after a look at the runner.
ReplacesUnasked(r) == TRUE
MayReplace(r) == Active(r)

OwnerReplaces(r) ==
  /\ does[r] = "replaces"
  /\ IF MayReplace(r)
     THEN /\ made < bounds.states /\ made' = made + 1 /\ current' = made + 1
          /\ OwnerIs(r, "starts") /\ Owns(r, made + 1)
     ELSE OwnerIs(r, "leaves") /\ UNCHANGED << made, current, owns >>
  /\ UNCHANGED << runnerVars, of, cancelled, client, taskVars, version, change,
                  closer >>

OwnerStarts(r) ==
  /\ does[r] = "starts" /\ Start(owns[r], r) /\ OwnerIs(r, "waits")
  /\ UNCHANGED << runner, active, started, current, made, cancelled, client,
                  got, notice, version, owns, change, closer >>

-----------------------------------------------------------------------------
Task(s) ==
  \/ Dropped(s) \/ Enter(s) \/ Lists(s) \/ Publish(s) \/ ReadNotice(s)
  \/ Relists(s)
Owner(r) ==
  OwnerWakes(r) \/ OwnerCloses(r) \/ OwnerReplaces(r) \/ OwnerStarts(r)

Next ==
  /\ UNCHANGED bounds
  /\ \/ ServerChanges \/ Reconnect
     \/ SessionStart \/ Rotate \/ ShutdownBegins \/ ShutdownCloses \/ Invalidate
     \/ \E s \in States : Task(s)
     \/ \E r \in Runners : Owner(r)

Spec == Init /\ [][Next]_vars

-----------------------------------------------------------------------------
Works == { "waits", "closes", "replaces", "starts", "leaves" }

TypeOK ==
  /\ bounds \in Bounds
  /\ runner \in Runners /\ made \in 0 .. bounds.states /\ current = made
  /\ of \in [ States -> Runners \cup { 0 } ]
  /\ cancelled \subseteq States /\ notice \subseteq States
  /\ client \in [ States -> { "none", "open", "closed" } ]
  /\ task \in [ States -> { "none", "resolves", "connects", "publishes",
                           "waits", "lists", "republishes", "ended" } ]
  /\ version \in Nat \ { 0 } /\ got \in [ States -> Nat ]
  /\ does \in [ Runners -> Works \cup { "none", "ended" } ]
  /\ owns \in [ Runners -> States \cup { 0 } ]
  /\ closer \in [ does : { "none", "closes", "ended" },
                  owns : States \cup { 0 } ]

\* The tools of a session are those of the newest state, and its owner is the
\* task of the newest runner: nothing that an older state or runner still has
\* under way gets through (publish, check_active, the lock of the generation).
NewestPublishes ==
  /\ active /\ started /\ Started /\ of[current] = runner =>
       tools[1] = current
  /\ active /\ started => current = owns[runner]

\* No connection is forgotten: while a client is open, a task that will close
\* it owns its state (close, the drop of connect, session_shutdown).
ClientsAreClosed ==
  \A s \in States : client[s] = "open" =>
    \E r \in Runners : owns[r] = s

\* When nothing is under way, the tools are those that the server has: a
\* change between a list and its publication is not lost.
ToolsCatchUp ==
  /\ active /\ started /\ task[current] = "waits"
  /\ current \notin cancelled \cup notice /\ got[current] # 0
  => tools = << current, version >>

\* What a session has of an MCP server is its newest connection, up to date,
\* and nothing else.
ToolsFollowServer == NewestPublishes /\ ClientsAreClosed /\ ToolsCatchUp

-----------------------------------------------------------------------------
(* The inductive invariant behind it.                                      *)

\* What is still to be made, and the runners that have not started.
NotYet ==
  /\ \A s \in States : s > made =>
       of[s] = 0 /\ s \notin cancelled /\ \A r \in Runners : owns[r] # s
  /\ \A s \in States : of[s] = 0 => task[s] = "none" /\ client[s] = "none"
  /\ \A r \in Runners : r > runner \/ (r = runner /\ ~started) =>
       does[r] = "none" /\ \A s \in States : of[s] # r
  /\ started => does[runner] # "none"

\* Who owns a state started it, or is about to, and cancels it before anything
\* else; it has closed its client before it takes another.
OwnersCancel == \A r \in Runners :
  /\ does[r] \in Works <=> owns[r] # 0
  /\ does[r] \in { "waits", "closes", "replaces", "leaves" } => of[owns[r]] = r
  /\ does[r] = "starts" => of[owns[r]] = 0
  /\ does[r] \in { "closes", "replaces", "leaves" } => owns[r] \in cancelled
  /\ does[r] = "replaces" => client[owns[r]] # "open"
  /\ does[r] \in { "leaves", "ended" } => ~Active(r)

\* A state has one owner, from its start until it is cancelled.
StatesAreOwned ==
  /\ \A r, q \in Runners :
       owns[r] = owns[q] /\ owns[r] # 0 => r = q
  /\ \A s \in States : of[s] # 0 /\ s \notin cancelled => owns[of[s]] = s
  /\ closer.does = "closes" => closer.owns \in cancelled

\* While a state is not cancelled its client is open and what its task has
\* listed is what the server has, or is announced; once it has published that,
\* those are the session's tools.
TasksFollow == \A s \in States \ cancelled :
  /\ Hears(s) => client[s] = "open"
  /\ /\ task[s] \in { "publishes", "republishes", "waits" }
     /\ s \notin notice /\ got[s] # 0
     => got[s] = version
  /\ task[s] = "waits" /\ got[s] # 0 /\ Active(of[s]) => tools = << s, got[s] >>

ServersInv ==
  /\ TypeOK /\ NotYet /\ OwnersCancel /\ StatesAreOwned /\ TasksFollow
  /\ NewestPublishes /\ ClientsAreClosed
=============================================================================
