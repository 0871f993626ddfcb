----------------------------- MODULE SessionTree -----------------------------
(***************************************************************************)
(* The history of a session as a tree of entries, and what the model gets  *)
(* to see of it (crates/pi-session: session_manager.rs, compaction.rs,     *)
(* branch_summary.rs, the retries and navigation of agent_session.rs; the  *)
(* last transformation is pi-ai's transform_messages.rs).                  *)
(*                                                                         *)
(* Entries are only ever appended.  The leaf says which branch is active;  *)
(* compactions, edits and branch summaries are entries that change what    *)
(* the branch they are on means.  Ids stand for the random short ids and   *)
(* are in file order, so the last entry of the file is the greatest.       *)
(* SessionStore has what happens to the file; here a commit succeeds or    *)
(* leaves nothing.                                                         *)
(***************************************************************************)
EXTENDS Naturals, Sequences, FiniteSets, SequencesExt, FiniteSetsExt

CONSTANTS
  Limits,     \* bounds: how many entries of each kind and moves there may be
  MaxCalls    \* tool calls in a message

\* A model or thinking level change, a duration or another entry of which the
\* model sees nothing is a "note"; an assistant message is an "answer", one
\* that "calls" tools, or one that "failed" with an error.
Kinds == { "user", "custom", "answer", "calls", "failed", "result", "note",
           "label", "edit", "summary", "compaction" }

VARIABLES
  ent,       \* the entries of the file, by id
  leaf,      \* the leaf, 0 if there is none
  run,       \* what the run of the session does next
  prep,      \* a compaction that is being summarised
  nav,       \* a navigation that is being summarised
  torn,      \* the leaf was put where half an omission is behind it
  limit,     \* of Limits, the one of this behaviour
  moves      \* navigations, forks and restarts so far

vars == << ent, leaf, run, prep, nav, torn, limit, moves >>

None == [ kind |-> "none" ]
Idle == [ does |-> "idle" ]

-----------------------------------------------------------------------------
(* Entries and branches.  An entry has a kind, a parent, the entry it      *)
(* refers to (the message a result answers, an edit hides, a label marks,  *)
(* the first one a compaction keeps), a number, and the messages a summary *)
(* was made of: the last only to be able to say what must not be lost.     *)

Ids == DOMAIN ent
Fresh(e) == IF DOMAIN e = { } THEN 1 ELSE Max(DOMAIN e) + 1

Entry(kind, parent, ref, n, covers) ==
  [ kind |-> kind, parent |-> parent, ref |-> ref, n |-> n, covers |-> covers ]

\* push_entry_in_memory
Pushed(e, entry) ==
  [ id \in DOMAIN e \cup { Fresh(e) } |-> IF id \in DOMAIN e THEN e[id]
                                          ELSE entry ]

\* get_branch, build_session_path
Path(e, from) ==
  LET upTo[id \in DOMAIN e \cup { 0 }] ==
        IF id = 0 THEN << >> ELSE Append(upTo[e[id].parent], id)
  IN upTo[from]

\* session_entry_to_context_messages has something for it.
Visible(entry) == entry.kind \notin { "note", "label", "edit" }
Assistant(entry) == entry.kind \in { "answer", "calls", "failed" }
Editable(entry) ==
  entry.kind \in { "user", "custom", "answer", "calls", "failed", "result" }

FirstAt(path, id) == SelectInSeq(path, LAMBDA x : x = id)

-----------------------------------------------------------------------------
(* What the model sees of a branch.                                        *)

\* build_context_entries: the latest compaction comes first, then what it
\* keeps, then what came after it.
ContextEntries(e, path) ==
  LET at == SelectLastInSeq(path, LAMBDA id : e[id].kind = "compaction")
  IN IF at = 0 THEN path
     ELSE LET kept == FirstAt(SubSeq(path, 1, at - 1), e[path[at]].ref)
          IN << path[at] >>
             \o (IF kept = 0 THEN << >> ELSE SubSeq(path, kept, at - 1))
             \o SubSeq(path, at + 1, Len(path))

Hidden(e, ids) == { e[id].ref : id \in { i \in ids : e[i].kind = "edit" } }

\* build_session_projection: edits hide messages, and of the compactions only
\* the one in front is shown.
Shown(e, context) ==
  { i \in DOMAIN context :
      /\ Visible(e[context[i]])
      /\ e[context[i]].kind = "compaction" => i = 1
      /\ context[i] \notin Hidden(e, ToSet(context)) }

Messages(e, from) ==
  LET context == ContextEntries(e, Path(e, from))
      shown == Shown(e, context)
  IN [ k \in 1 .. Cardinality(shown) |->
         context[CHOOSE i \in shown : Cardinality({ j \in shown : j <= i }) = k] ]

-----------------------------------------------------------------------------
(* Where a compaction cuts: find_projected_cut_point.  The token budget    *)
(* ends at some message, or at none if it is not used up.                  *)

\* A slip: a result may be the first message that is kept.
IsCutPointOrResult(entry) == entry.kind # "compaction"
IsCutPoint(entry) == entry.kind \notin { "compaction", "result" }

\* The entries after the cut are a failed attempt that is hidden already.
IsOmittedAttempt(e, context, shown, cut) ==
  LET suffix == cut + 1 .. Len(context)
      omitted(i) == Visible(e[context[i]]) /\ i \notin shown
  IN /\ \E i \in suffix : Assistant(e[context[i]]) /\ omitted(i)
     /\ \A i \in suffix :
          /\ e[context[i]].kind # "compaction"
          /\ Visible(e[context[i]]) => omitted(i)

CutPoint(e, context, shown, start, budgetEnd) ==
  LET cuts == { i \in shown : i >= start /\ IsCutPoint(e[context[i]]) }
      atOrAfter == { i \in cuts : i >= budgetEnd }
      byBudget == IF atOrAfter # { } THEN Min(atOrAfter) ELSE Max(cuts)
      cut == IF budgetEnd # 0 /\ byBudget < Len(context)
                /\ IsOmittedAttempt(e, context, shown, byBudget)
             THEN byBudget + 1 ELSE byBudget
  IN IF cuts = { } THEN start
     ELSE Min({ i \in start .. cut : \A j \in i .. cut - 1 :
                  e[context[j]].kind # "compaction" /\ j \notin shown })

\* What the summary in front was made of is in the next one too.
Covered(e, context) ==
  IF context # << >> /\ e[Head(context)].kind = "compaction"
  THEN e[Head(context)].covers ELSE { }

\* A slip: the summary in front is not part of the next one.
PreparedAfresh(e, context, budgetEnd) ==
  LET shown == Shown(e, context)
      start == IF 1 \in shown /\ e[context[1]].kind = "compaction" THEN 2 ELSE 1
      cut == CutPoint(e, context, shown, start, budgetEnd)
  IN [ kind |-> "compaction", ref |-> context[cut],
       covers |-> { context[i] : i \in { j \in shown : start <= j /\ j < cut } } ]

\* prepare_compaction: the anchor, and the messages that are summarised.
Prepared(e, context, budgetEnd) ==
  LET shown == Shown(e, context)
      start == IF 1 \in shown /\ e[context[1]].kind = "compaction" THEN 2 ELSE 1
      cut == CutPoint(e, context, shown, start, budgetEnd)
  IN [ kind |-> "compaction", ref |-> context[cut],
       covers |-> Covered(e, context) \cup
         { context[i] : i \in { j \in shown : start <= j /\ j < cut } } ]

\* Nothing to compact: the branch ends in a compaction, or there is nothing
\* before the cut.
Preparations(e, path) ==
  LET context == ContextEntries(e, path)
      shown == Shown(e, context)
      start == IF 1 \in shown /\ e[context[1]].kind = "compaction" THEN 2 ELSE 1
  IN IF path = << >> \/ Len(context) < start
        \/ e[Last(path)].kind = "compaction"
     THEN { }
     ELSE { p \in { Prepared(e, context, b) :
                      b \in { 0 } \cup { i \in shown : i >= start } } :
              p.covers # Covered(e, context) }

-----------------------------------------------------------------------------
(* transform_messages: attempts that failed are left out and calls without *)
(* result get one.  A message is its entry, its role, and the number of    *)
(* calls it makes or the call it answers.                                  *)

NoPending == [ id |-> 0, calls |-> { }, have |-> { } ]

Sent(id, role, n) == [ id |-> id, role |-> role, n |-> n ]

Closed(out, open) ==
  out \o [ k \in 1 .. Cardinality(open.calls \ open.have) |->
             Sent(open.id, "result",
                  CHOOSE n \in open.calls \ open.have :
                    Cardinality({ m \in open.calls \ open.have : m <= n }) = k) ]

Transformed(e, messages) ==
  LET upTo[i \in 0 .. Len(messages)] ==
        IF i = 0 THEN [ out |-> << >>, open |-> NoPending ]
        ELSE
          LET acc == upTo[i - 1]
              id == messages[i]
              m == e[id]
          IN CASE m.kind = "result" ->
                    [ out |-> Append(acc.out, Sent(m.ref, "result", m.n)),
                      open |-> [ acc.open EXCEPT !.have =
                                   IF m.ref = acc.open.id THEN @ \cup { m.n }
                                   ELSE @ ] ]
               [] m.kind = "failed" ->
                    [ out |-> Closed(acc.out, acc.open), open |-> NoPending ]
               [] m.kind = "calls" ->
                    [ out |-> Append(Closed(acc.out, acc.open),
                                     Sent(id, "assistant", m.n)),
                      open |-> [ id |-> id, calls |-> 1 .. m.n, have |-> { } ] ]
               [] m.kind = "answer" ->
                    [ out |-> Append(Closed(acc.out, acc.open),
                                     Sent(id, "assistant", 0)),
                      open |-> NoPending ]
               [] OTHER ->
                    [ out |-> Append(Closed(acc.out, acc.open),
                                     Sent(id, "user", 0)),
                      open |-> NoPending ]
      end == upTo[Len(messages)]
  IN Closed(end.out, end.open)

-----------------------------------------------------------------------------
(* Forks: create_branched_session.                                         *)

\* rebuild_index: the leaf is the last entry, the last label of an entry counts.
LastId(e) == IF DOMAIN e = { } THEN 0 ELSE Max(DOMAIN e)
Labels(e) ==
  { t \in DOMAIN e :
      LET marks == { id \in DOMAIN e : e[id].kind = "label" /\ e[id].ref = t }
      IN marks # { } /\ e[Max(marks)].n = 1 }

NotLabels(e, path) == SelectSeq(path, LAMBDA id : e[id].kind # "label")

\* The entry that takes the place of one that is left out: the next that is
\* not a label.
AfterLabels(e, path, id) ==
  LET later == { j \in DOMAIN path :
                   j > FirstAt(path, id) /\ e[path[j]].kind # "label" }
  IN path[Min(later)]

\* A slip: the first entry a compaction keeps may be a label that is gone.
AnchorKept(e, path, id) == e[id].ref

\* Labels are left out of the branch; an anchor moves to what follows it.
Anchor(e, path, id) ==
  LET ref == e[id].ref
  IN IF e[id].kind = "compaction" /\ ref \in ToSet(path)
        /\ e[ref].kind = "label"
     THEN AfterLabels(e, path, ref) ELSE ref

Forked(e, from) ==
  LET path == Path(e, from)
      kept == NotLabels(e, path)
      marks == SetToSortSeq(Labels(e) \cap ToSet(kept), <)
      base == [ id \in ToSet(kept) |->
                  LET i == FirstAt(kept, id)
                  IN [ e[id] EXCEPT !.parent = IF i = 1 THEN 0 ELSE kept[i - 1],
                                    !.ref = Anchor(e, path, id) ] ]
      first == Fresh(base)
      new == first .. first + Len(marks) - 1
  IN [ id \in ToSet(kept) \cup new |->
         IF id \in new
         THEN Entry("label",
                    IF id > first THEN id - 1
                    ELSE IF kept = << >> THEN 0 ELSE Last(kept),
                    marks[id - first + 1], 1, { })
         ELSE base[id] ]

-----------------------------------------------------------------------------
(* Branch summaries: collect_entries_for_branch_summary.                   *)

\* A slip: the first entry the branches share, not the last.
ShallowestShared(e, old, target) ==
  LET shared == ToSet(Path(e, old)) \cap ToSet(Path(e, target))
  IN IF shared = { } THEN 0 ELSE Min(shared)

CommonAncestor(e, old, target) ==
  LET shared == ToSet(Path(e, old)) \cap ToSet(Path(e, target))
  IN IF shared = { } THEN 0 ELSE Max(shared)

\* From the old leaf up to, and without, the deepest entry both paths have.
Collected(e, old, target) ==
  LET path == Path(e, old)
      top == FirstAt(path, CommonAncestor(e, old, target))
  IN { path[i] : i \in top + 1 .. Len(path) }

\* prepare_branch_entries: of what was collected, the messages that are not
\* results and not omitted there, ...
Told(e, entries) ==
  { id \in entries : Visible(e[id]) /\ e[id].kind # "result" }
    \ Hidden(e, entries)

\* ... from the newest on, as far as the token budget goes.
Tellings(e, entries) ==
  { { id \in Told(e, entries) : id >= from } :
      from \in entries \cup { Fresh(e) } }

-----------------------------------------------------------------------------
(* The session at work.                                                    *)

Init ==
  /\ ent = << >> /\ leaf = 0
  /\ run = Idle
  /\ prep = None /\ nav = None
  /\ torn = FALSE
  /\ limit \in Limits /\ moves = 0

Count(kind) == Cardinality({ id \in Ids : ent[id].kind = kind })
Room(kind) == Count(kind) < limit[kind]

\* commit_single_entry: the entry is behind the leaf and becomes the leaf.
Append1(kind, ref, n, covers) ==
  /\ Room(kind)
  /\ ent' = Pushed(ent, Entry(kind, leaf, ref, n, covers))
  /\ leaf' = Fresh(ent)

\* A prompt, or a message from the queues between two turns.
Prompt ==
  /\ run.does \in { "idle", "turn" } /\ nav = None
  /\ Append1("user", 0, 0, { })
  /\ run' = [ does |-> "turn" ]
  /\ UNCHANGED << prep, nav, torn, limit, moves >>

\* The answer of the model: the run is over, ...
Answer ==
  /\ run.does = "turn"
  /\ Append1("answer", 0, 0, { })
  /\ run' = Idle
  /\ UNCHANGED << prep, nav, torn, limit, moves >>

\* ... failed, ...
Fail ==
  /\ run.does = "turn"
  /\ Append1("failed", 0, 0, { })
  /\ run' = [ does |-> "failed", of |-> Fresh(ent) ]
  /\ UNCHANGED << prep, nav, torn, limit, moves >>

\* ... or goes on with tools, ...
CallTools ==
  /\ run.does = "turn"
  /\ \E n \in 1 .. MaxCalls : Append1("calls", 0, n, { })
  /\ run' = [ does |-> "tools", of |-> Fresh(ent), next |-> 1 ]
  /\ UNCHANGED << prep, nav, torn, limit, moves >>

\* ... whose results are in the order of the calls.  After the last there is
\* another turn, or the message is found to have overflowed the context.
ToolResult ==
  /\ run.does = "tools"
  /\ Append1("result", run.of, run.next, { })
  /\ IF run.next < ent[run.of].n
     THEN run' = [ run EXCEPT !.next = @ + 1 ]
     ELSE run' \in { [ does |-> "turn" ], [ does |-> "failed", of |-> run.of ] }
  /\ UNCHANGED << prep, nav, torn, limit, moves >>

\* The run ends where it is: given up, aborted, or a commit failed.
RunEnds ==
  /\ run.does \in { "turn", "failed", "tools" }
  /\ run' = Idle
  /\ UNCHANGED << ent, leaf, prep, nav, torn, limit, moves >>

\* omit_recovery_attempt: the message and the results of its calls, ...
Attempt(e, of) ==
  << of >> \o SetToSortSeq({ id \in DOMAIN e : e[id].kind = "result"
                                              /\ e[id].ref = of }, <)

Omit ==
  /\ run.does = "failed"
  /\ run' = [ does |-> "omit", of |-> Attempt(ent, run.of) ]
  /\ UNCHANGED << ent, leaf, prep, nav, torn, limit, moves >>

\* ... one entry after the other, then the attempt is repeated (continue_run).
OmitOne ==
  /\ run.does = "omit"
  /\ Append1("edit", Head(run.of), 0, { })
  /\ run' = IF Len(run.of) = 1 THEN [ does |-> "retry" ]
            ELSE [ run EXCEPT !.of = Tail(@) ]
  /\ UNCHANGED << prep, nav, torn, limit, moves >>

Retry ==
  /\ run.does = "retry"
  /\ run' \in { [ does |-> "turn" ], Idle }
  /\ UNCHANGED << ent, leaf, prep, nav, torn, limit, moves >>

\* Messages of extensions and bash commands, which may come between runs or
\* turns, and entries the model does not see, which may come at any time.
Custom ==
  /\ run.does \in { "idle", "turn" }
  /\ Append1("custom", 0, 0, { })
  /\ UNCHANGED << run, prep, nav, torn, limit, moves >>

Note ==
  /\ Append1("note", 0, 0, { })
  /\ UNCHANGED << run, prep, nav, torn, limit, moves >>

\* append_label_change sets a label, or clears one.
Label ==
  /\ \E id \in Ids :
       Append1("label", id, IF id \in Labels(ent) THEN 0 ELSE 1, { })
  /\ UNCHANGED << run, prep, nav, torn, limit, moves >>

-----------------------------------------------------------------------------
(* Compaction: by hand, or by the run between two turns or before a retry. *)

Prepare ==
  /\ run.does \in { "idle", "turn", "retry" } /\ prep = None /\ nav = None
  /\ Room("compaction")
  /\ prep' \in Preparations(ent, Path(ent, leaf))
  /\ UNCHANGED << ent, leaf, run, nav, torn, limit, moves >>

\* append_compaction: whatever came in between is behind the anchor.
Compact ==
  /\ prep # None
  /\ prep.ref \in ToSet(Path(ent, leaf))
  /\ Append1("compaction", prep.ref, 0, prep.covers)
  /\ prep' = None
  /\ UNCHANGED << run, nav, torn, limit, moves >>

CompactFails ==
  /\ prep # None
  /\ prep' = None
  /\ UNCHANGED << ent, leaf, run, nav, torn, limit, moves >>

-----------------------------------------------------------------------------
(* Navigation, forks and restarts.                                         *)

\* The leaf a navigation ends at: before a message that is to be edited.
NewLeaf(target) ==
  IF ent[target].kind \in { "user", "custom" } THEN ent[target].parent
  ELSE target

\* Of an attempt that is left out some results are not.
HalfOmitted(e, path) ==
  \E id \in ToSet(path) :
    /\ e[id].kind = "result"
    /\ id \notin Hidden(e, ToSet(path)) /\ e[id].ref \in Hidden(e, ToSet(path))

\* The leaf is moved.
Moved ==
  /\ moves < limit["move"]
  /\ moves' = moves + 1
  /\ torn' = (torn \/ HalfOmitted(ent', Path(ent', leaf')))
  /\ UNCHANGED limit

MayMove == run = Idle /\ prep = None /\ nav = None

\* navigate_tree without a summary.
Navigate ==
  /\ MayMove
  /\ \E target \in Ids \ { leaf } : leaf' = NewLeaf(target)
  /\ UNCHANGED << ent, run, prep, nav >>
  /\ Moved

\* With one: what is left behind is collected, and what of it the budget
\* allows is summarised, ...
NavigateCollects ==
  /\ MayMove /\ leaf # 0 /\ moves < limit["move"]
  /\ \E target \in Ids \ { leaf } :
       LET entries == Collected(ent, leaf, target)
       IN \E covers \in IF entries = { } THEN { { } }
                         ELSE Tellings(ent, entries) :
            nav' = [ kind |-> "summary", target |-> target, old |-> leaf,
                     entries |-> entries, covers |-> covers ]
  /\ UNCHANGED << ent, leaf, run, prep, torn, limit, moves >>

\* ... and the summary is put where the other branch goes on.
NavigateCommits ==
  /\ nav # None
  /\ Room("summary")
  /\ nav.entries # { }
  /\ ent' = Pushed(ent, Entry("summary", NewLeaf(nav.target), nav.old, 0,
                             nav.covers))
  /\ leaf' = Fresh(ent)
  /\ nav' = None
  /\ UNCHANGED << run, prep >>
  /\ Moved

\* Nothing to summarise; or it is cancelled, or fails.
NavigateEnds ==
  /\ nav # None
  /\ nav' = None
  /\ leaf' \in { leaf } \cup
       (IF nav.entries = { } THEN { NewLeaf(nav.target) } ELSE { })
  /\ UNCHANGED << ent, run, prep >>
  /\ Moved

\* fork: the session goes on in a new file, at or before an entry.
Fork ==
  /\ MayMove
  /\ \E id \in Ids :
       \E from \in { id, ent[id].parent } :
         /\ ent' = Forked(ent, from)
         /\ leaf' = LastId(Forked(ent, from))
  /\ UNCHANGED << run, prep, nav >>
  /\ Moved

\* The process dies and the session is opened again: load_entries and
\* rebuild_index.
Restart ==
  /\ UNCHANGED ent /\ leaf' = LastId(ent)
  /\ run' = Idle /\ prep' = None /\ nav' = None
  /\ Moved

Next ==
  \/ Prompt \/ Answer \/ Fail \/ CallTools \/ ToolResult \/ RunEnds
  \/ Omit \/ OmitOne \/ Retry \/ Custom \/ Note \/ Label
  \/ Prepare \/ Compact \/ CompactFails
  \/ Navigate \/ NavigateCollects \/ NavigateCommits \/ NavigateEnds
  \/ Fork \/ Restart

Spec == Init /\ [][Next]_vars

-----------------------------------------------------------------------------
(* What must be true of a history.                                         *)

\* Every message of the active branch is shown to the model, or is in the
\* summary in front, or was omitted, and never two of it: no compaction loses
\* a message or repeats what it summarised, none brings an omitted attempt
\* back, whatever was compacted, hidden or added while it was summarised
\* (find_projected_cut_point, build_session_projection).
NothingLostOrRepeated ==
  LET path == Path(ent, leaf)
      shown == ToSet(Messages(ent, leaf))
      gone == Hidden(ent, ToSet(path)) \cup Covered(ent, ContextEntries(ent, path))
  IN \A id \in ToSet(path) :
       Visible(ent[id]) /\ ent[id].kind # "compaction" =>
         (id \in shown) = (id \notin gone)

\* What is sent to the model is well formed: behind a message that calls
\* tools there is one result for each call, and a result is nowhere else.
WellFormed(out) ==
  \A i \in DOMAIN out :
    /\ out[i].role = "assistant" =>
         \A n \in 1 .. out[i].n :
           i + n \in DOMAIN out /\ out[i + n] = Sent(out[i].id, "result", n)
    /\ out[i].role = "result" =>
         i > out[i].n /\ out[i - out[i].n].id = out[i].id
                      /\ out[i - out[i].n].role = "assistant"

\* The model gets a transcript it can answer: calls are paired with results
\* (is_cut_point_message, omit_recovery_attempt, transform_messages), and
\* after an omission the run can go on: the model is not asked to answer its
\* own answer, nor nothing at all (run_continuation).  The exception is a
\* leaf put in the middle of an omission: by a crash, after which the file
\* ends there, or by a user who goes to such an entry.
ContextCanBeAnswered ==
  LET messages == Messages(ent, leaf)
  IN /\ torn \/ run.does = "omit" \/ WellFormed(Transformed(ent, messages))
     /\ run.does = "retry" => messages # << >> /\ ~Assistant(ent[Last(messages)])

\* A fork shows the model what the branch it was made from does, and keeps
\* the labels of its entries (create_branched_session).
ForkKeepsBranch ==
  \A id \in Ids :
    LET fork == Forked(ent, id)
    IN /\ Messages(fork, LastId(fork)) = Messages(ent, id)
       /\ Labels(fork) = Labels(ent) \cap ToSet(NotLabels(ent, Path(ent, id)))

\* Leaving a branch with a summary repeats nothing, and loses only what the
\* code gives up: each message of it is on the new branch or in the summary,
\* and none in both (collect_entries_for_branch_summary), but for the message
\* that is to be edited, results and omitted messages, and what is older than
\* all the token budget left room for (prepare_branch_entries).
SummaryMeetsBranch ==
  nav # None =>
    LET old == ToSet(Path(ent, nav.old))
        new == ToSet(Path(ent, NewLeaf(nav.target)))
        given == { id \in old : /\ Visible(ent[id]) /\ ent[id].kind # "result"
                                /\ id \notin Hidden(ent, old) }
    IN /\ nav.covers \subseteq given /\ new \cap nav.covers = { }
       /\ \A id \in given \ (new \cup nav.covers \cup { nav.target }) :
            \A told \in nav.covers : id < told

\* Who leaves a branch, by a fork or with a summary, takes all of it along.
BranchesLoseNothing == ForkKeepsBranch /\ SummaryMeetsBranch
=============================================================================
