--------------------------- MODULE ProviderStream ---------------------------
(***************************************************************************)
(* One request to a model provider and the events made of its answer:      *)
(* pi-ai/src/api.rs sends it, anthropic_messages.rs, openai_responses.rs,  *)
(* openai_completions.rs and google_generative_ai.rs read what comes back, *)
(* and pi-agent/src/proxy.rs reads it from a proxy.                        *)
(*                                                                         *)
(* A provider says blocks (texts, thoughts, calls, and kinds that the      *)
(* client does not know), piece by piece, and at last why it stops.  Its   *)
(* connection may end or fail at any moment and the user may cancel.  A    *)
(* piece is a unit: a block is told by how many it has.  What a network    *)
(* chunk holds makes no difference to what follows: every read may be of   *)
(* one event (see SseParser).                                              *)
(***************************************************************************)
EXTENDS Naturals, FiniteSets, SequencesExt

CONSTANTS
  Apis,       \* the wire formats
  MaxBlocks, MaxPieces, MaxRetries

\* An OpenAI compatible provider that gives no finish_reason is Api "silent".
AllApis == { "anthropic", "responses", "completions", "silent", "google", "proxy" }

VARIABLES
  api,
  said,       \* the blocks of the provider: [kind, n, open]
  why,        \* why the provider stopped, "none" before
  pc,         \* sending, sleeping, reading, over
  retries,
  cancelled,
  answer,     \* the client's message and what it keeps to build it
  heard       \* what a listener made of the events

vars == << api, said, why, pc, retries, cancelled, answer, heard >>

Kinds == { "text", "think", "call", "other" }

Init ==
  /\ api \in Apis
  /\ said = << >> /\ why = "none"
  /\ pc = "sending" /\ retries = 0 /\ cancelled = FALSE
  /\ answer = [ content |-> << >>, slots |-> << >>, unfinished |-> { },
                stop |-> "pending", terminal |-> FALSE, events |-> << >> ]
  /\ heard = [ begun |-> FALSE, blocks |-> << >>, over |-> "no", sane |-> TRUE ]

-----------------------------------------------------------------------------
(* The listener: a consumer of the events, who rebuilds the message.       *)

\* The events of a stream that was ended are dropped.
Hear(h, e) ==
  IF h.over # "no" THEN h
  ELSE CASE e.type = "start" ->
         [ h EXCEPT !.blocks = Append(@, [ n |-> 0, open |-> TRUE ]),
                    !.sane = @ /\ h.begun /\ e.at = Len(h.blocks) + 1 ]
       [] e.type = "delta" ->
         IF e.at \in DOMAIN h.blocks
         THEN [ h EXCEPT !.blocks[e.at].n = @ + 1,
                         !.sane = @ /\ h.blocks[e.at].open ]
         ELSE [ h EXCEPT !.sane = FALSE ]
       [] e.type = "end" ->
         IF e.at \in DOMAIN h.blocks
         THEN [ h EXCEPT !.blocks[e.at] = [ n |-> e.n, open |-> FALSE ],
                         !.sane = @ /\ h.blocks[e.at].open ]
         ELSE [ h EXCEPT !.sane = FALSE ]
       [] OTHER -> [ h EXCEPT !.over = e.type ]

\* The message is m now, and its new events are pushed.
Pushes(m) ==
  /\ answer' = [ m EXCEPT !.events = << >> ]
  /\ heard' = FoldLeft(Hear, heard, m.events)

-----------------------------------------------------------------------------
(* The blocks of the message.                                              *)

Event(type, at, n) == [ type |-> type, at |-> at, n |-> n ]
Tell(m, e) == [ m EXCEPT !.events = Append(@, e) ]

\* A slot of the provider's block k; a kind that is not known gets none.
Create(m, k, kind) ==
  IF kind = "other" THEN m
  ELSE LET i == Len(m.content) + 1 IN
       Tell([ m EXCEPT
                !.content = Append(@, [ of |-> k, kind |-> kind, n |-> 0, done |-> FALSE ]),
                !.slots = [ x \in DOMAIN @ \cup { k } |-> IF x = k THEN i ELSE @[x] ],
                !.unfinished = IF kind = "call" THEN @ \cup { i } ELSE @ ],
            Event("start", i, 0))

More(m, k) ==
  IF k \notin DOMAIN m.slots THEN m
  ELSE Tell([ m EXCEPT !.content[m.slots[k]].n = @ + 1 ],
            Event("delta", m.slots[k], 1))

Without(f, k) == [ x \in DOMAIN f \ { k } |-> f[x] ]

\* The block is left as it is, or takes what the provider says it is, n.
EndAs(m, k, n) ==
  IF k \notin DOMAIN m.slots THEN m
  ELSE LET i == m.slots[k] IN
       Tell([ m EXCEPT !.content[i].n = n, !.content[i].done = TRUE,
                       !.slots = Without(@, k), !.unfinished = @ \ { i } ],
            Event("end", i, n))
End(m, k) == IF k \in DOMAIN m.slots THEN EndAs(m, k, m.content[m.slots[k]].n) ELSE m

\* The open block of a kind, for the formats that have one at most.
EndKind(m, kind) ==
  LET ks == { k \in DOMAIN m.slots : m.content[m.slots[k]].kind = kind } IN
  IF ks = { } THEN m ELSE End(m, CHOOSE k \in ks : TRUE)

Ensure(m, k, kind) == IF k \in DOMAIN m.slots THEN m ELSE Create(m, k, kind)

HasCalls(m) == \E i \in DOMAIN m.content : m.content[i].kind = "call"
StopForCalls(m, stop) == IF HasCalls(m) /\ stop = "stop" THEN "toolUse" ELSE stop

-----------------------------------------------------------------------------
(* What the formats make of what the provider says.                        *)

Fails(w) == IF w = "filter" THEN "error" ELSE w
Stops(m, w) == [ m EXCEPT !.stop = Fails(w), !.terminal = TRUE ]

\* Anthropic's blocks have an index, which is not that of the message's.
AnthropicBegins(m, k, kind) == Create(m, k, kind)
AnthropicPiece(m, k) == More(m, k)
AnthropicEnds(m, k) == End(m, k)
AnthropicStops(m, w) == Stops(m, w)

\* So have the items of OpenAI's responses; a text of the final phase sets the
\* reason, too, and the end of an item tells all of it, whether it began or not.
ResponsesBegins(m, k, kind, final) ==
  Create(IF kind = "text" /\ final THEN [ m EXCEPT !.stop = "stop" ] ELSE m, k, kind)
ResponsesPiece(m, k) == More(m, k)
ResponsesEnds(m, k, kind, n) == EndAs(Ensure(m, k, kind), k, n)
ResponsesStops(m, w) == Stops(m, StopForCalls(m, w))

\* OpenAI's completions have no beginnings and ends; a text ends the thought
\* before it.
CompletionsPiece(m, k, kind) ==
  More(Ensure(IF kind = "text" THEN EndKind(m, "think") ELSE m, k, kind), k)
CompletionsStops(m, w) == Stops(m, w)

\* Nor have Google's parts; a call is one part.
GoogleEndsKinds(m) == EndKind(EndKind(m, "think"), "text")
GooglePiece(m, k, kind) ==
  CASE kind = "text" -> More(Ensure(EndKind(m, "think"), k, kind), k)
    [] kind = "think" -> More(Ensure(EndKind(m, "text"), k, kind), k)
    [] kind = "call" -> End(More(Create(GoogleEndsKinds(m), k, "call"), k), k)
GoogleStops(m, w) == Stops(m, w)

\* A proxy passes the events of another listener on, and their positions.
ProxyBegins(m, k, kind) == Create(m, k, kind)
ProxyPiece(m, k) == More(m, k)
ProxyEnds(m, k) == End(m, k)
ProxyStops(m, w) ==
  Tell(Stops(m, w), Event(IF Fails(w) = "error" THEN "error" ELSE "done", 0, 0))

ReadBegin(m, k, kind, final) ==
  CASE api = "anthropic" -> AnthropicBegins(m, k, kind)
    [] api = "responses" -> ResponsesBegins(m, k, kind, final)
    [] api = "proxy" -> ProxyBegins(m, k, kind)

ReadPiece(m, k, kind) ==
  CASE api = "anthropic" -> AnthropicPiece(m, k)
    [] api = "responses" -> ResponsesPiece(m, k)
    [] api = "proxy" -> ProxyPiece(m, k)
    [] api = "google" -> GooglePiece(m, k, kind)
    [] OTHER -> CompletionsPiece(m, k, kind)

ReadEnd(m, k, kind, n) ==
  CASE api = "anthropic" -> AnthropicEnds(m, k)
    [] api = "responses" -> ResponsesEnds(m, k, kind, n)
    [] api = "proxy" -> ProxyEnds(m, k)

ReadStop(m, w) ==
  CASE api = "anthropic" -> AnthropicStops(m, w)
    [] api = "responses" -> ResponsesStops(m, w)
    [] api = "proxy" -> ProxyStops(m, w)
    [] api = "google" -> GoogleStops(m, w)
    [] OTHER -> CompletionsStops(m, w)

-----------------------------------------------------------------------------
(* The connection is at its end: is there an answer?                       *)

Ready(m) == m.stop \notin { "pending", "error" }
UnlessFailed(m) == m.stop # "error"

AnthropicAccepts(m) == Ready(m)

UnlessUnfinished(m) == ~(m.stop = "toolUse" /\ m.unfinished # { }) /\ Ready(m)
ResponsesAccepts(m) == m.terminal /\ UnlessUnfinished(m)

\* What is open ends; a silent provider's reason is made up.
StaysOpen(m) == [ m EXCEPT !.stop = StopForCalls(m, @) ]
CompletionsFinish(m) ==
  LET all == FoldSet(LAMBDA k, acc : End(acc, k), m, DOMAIN m.slots) IN
  [ all EXCEPT !.stop =
      StopForCalls(all, IF api = "silent" /\ ~all.terminal THEN "stop" ELSE @) ]

GoogleFinish(m) ==
  LET all == GoogleEndsKinds(m) IN [ all EXCEPT !.stop = StopForCalls(all, @) ]

Finish(m) ==
  CASE api \in { "completions", "silent" } -> CompletionsFinish(m)
    [] api = "google" -> GoogleFinish(m)
    [] OTHER -> m

Accepts(m) ==
  CASE api = "anthropic" -> AnthropicAccepts(m)
    [] api = "responses" -> ResponsesAccepts(m)
    [] api = "proxy" -> m.terminal
    [] OTHER -> Ready(m)

-----------------------------------------------------------------------------
(* The request.                                                            *)

Ends(m, how) ==
  /\ pc' = "over"
  /\ Pushes(IF api = "proxy" /\ how = "done" THEN m ELSE Tell(m, Event(how, 0, 0)))

\* The user's cancellation makes any error one of its own.
Errs(m) == Ends(m, IF cancelled THEN "aborted" ELSE "error")

Cancel ==
  /\ pc # "over" /\ ~cancelled /\ cancelled' = TRUE
  /\ UNCHANGED << api, said, why, pc, retries, answer, heard >>

\* send_with_retry: the token is looked at before every attempt.
Send ==
  /\ pc = "sending" /\ ~cancelled
  /\ pc' = "reading" /\ heard' = [ heard EXCEPT !.begun = TRUE ]
  /\ UNCHANGED << api, said, why, retries, cancelled, answer >>

\* A status or an error that may go away; its delay is not too long.
Retry ==
  /\ pc = "sending" /\ api # "proxy" /\ retries < MaxRetries
  /\ retries' = retries + 1 /\ pc' = "sleeping"
  /\ UNCHANGED << api, said, why, cancelled, answer, heard >>

Wake ==
  /\ pc = "sleeping" /\ pc' = "sending"
  /\ UNCHANGED << api, said, why, retries, cancelled, answer, heard >>

\* A cancellation is seen, a request is refused, the connection fails, what it
\* brought is no event or says that something failed, a callback panics.
Break ==
  /\ pc \in { "sending", "sleeping", "reading" }
  /\ pc = "sleeping" => cancelled
  /\ ~(api = "responses" /\ answer.terminal)
  /\ Errs(answer)
  /\ UNCHANGED << api, said, why, retries, cancelled >>

Reading == pc = "reading" /\ why = "none" /\ ~(api = "responses" /\ answer.terminal)
Reads(m) == Pushes(m) /\ UNCHANGED << api, pc, retries, cancelled >>
KnownTo(a) == IF a \in { "anthropic", "responses" } THEN Kinds ELSE Kinds \ { "other" }
Framed == { "anthropic", "responses", "proxy" }
Open(k) == said[k].open
Says(kind, n, open) == Append(said, [ kind |-> kind, n |-> n, open |-> open ])

\* Several items of a response may be open at a time.
Begin(kind, final) ==
  /\ Reading /\ api \in Framed /\ Len(said) < MaxBlocks /\ kind \in KnownTo(api)
  /\ api # "responses" => \A k \in DOMAIN said : ~Open(k)
  /\ said' = Says(kind, 0, TRUE)
  /\ Reads(ReadBegin(answer, Len(said'), kind, final)) /\ UNCHANGED why

Piece(k) ==
  /\ Reading /\ Open(k) /\ said[k].n < MaxPieces
  /\ said' = [ said EXCEPT ![k].n = @ + 1 ]
  /\ Reads(ReadPiece(answer, k, said[k].kind)) /\ UNCHANGED why

\* The first piece of a block that has no beginning; one text and one thought.
FirstPiece(kind) ==
  /\ Reading /\ api \notin Framed /\ Len(said) < MaxBlocks /\ kind \in KnownTo(api)
  /\ kind = "call" => api # "google"
  /\ kind # "call" => \A k \in DOMAIN said : said[k].kind # kind
  /\ said' = Says(kind, 1, TRUE)
  /\ Reads(ReadPiece(answer, Len(said'), kind)) /\ UNCHANGED why

BlockEnds(k) ==
  /\ Reading /\ api \in Framed /\ Open(k)
  /\ said' = [ said EXCEPT ![k].open = FALSE ]
  /\ Reads(ReadEnd(answer, k, said[k].kind, said[k].n)) /\ UNCHANGED why

\* A block that is told at once: an item whose beginning was left out, a call.
Whole(kind) ==
  /\ Reading /\ Len(said) < MaxBlocks
  /\ said' = Says(kind, 1, FALSE)
  /\ \/ api = "responses" /\ Reads(ReadEnd(answer, Len(said'), kind, 1))
     \/ api = "google" /\ kind = "call" /\ Reads(ReadPiece(answer, Len(said'), kind))
  /\ UNCHANGED why

Called == \E k \in DOMAIN said : said[k].kind = "call"

\* The reasons of a provider that has said what it wanted to, and the others.
Reasons ==
  { "length", "filter" } \cup
    IF ~Called \/ api \in { "google", "responses" } THEN { "stop" }
    ELSE IF api = "completions" THEN { "toolUse", "stop" } ELSE { "toolUse" }

Stop(w) ==
  /\ Reading /\ w \in Reasons /\ api # "silent"
  /\ api \in Framed /\ ~(api = "responses" /\ w \in { "length", "filter" }) =>
       \A k \in DOMAIN said : ~Open(k)
  /\ why' = w /\ Reads(ReadStop(answer, w)) /\ UNCHANGED said

\* The connection ends; the Responses format does not wait for that.
Close ==
  /\ pc = "reading"
  /\ LET m == Finish(answer) IN IF Accepts(m) THEN Ends(m, "done") ELSE Errs(m)
  /\ UNCHANGED << api, said, why, retries, cancelled >>

Next ==
  \/ Cancel \/ Send \/ Retry \/ Wake \/ Break \/ Close
  \/ \E kind \in Kinds : FirstPiece(kind) \/ Whole(kind)
                       \/ \E final \in BOOLEAN : Begin(kind, final)
  \/ \E k \in DOMAIN said : Piece(k) \/ BlockEnds(k)
  \/ \E w \in { "stop", "toolUse", "length", "filter" } : Stop(w)

Spec == Init /\ [][Next]_vars

-----------------------------------------------------------------------------
(* Properties.                                                             *)

\* Events come in order: a block's pieces after its start and before its end,
\* blocks one after the other, nothing before the first event of all.
HeardInOrder == heard.sane

\* A request has one end, and says it was aborted only when it was.
EndsOnce ==
  /\ pc = "over" => heard.over # "no"
  /\ heard.over = "aborted" => cancelled

Pieces(k) ==
  LET n(i) == IF answer.content[i].of = k THEN answer.content[i].n ELSE 0 IN
  FoldFunction(+, 0, [ i \in DOMAIN answer.content |-> n(i) ])

\* An answer that is acted upon, whose calls are run, is all that the provider
\* said: it came to its end, no piece went to the wrong block and each call is
\* complete; and who listened has the same.  An answer at its length is not
\* acted upon.  Of a silent provider nobody can tell.
Acted == heard.over = "done" /\ answer.stop # "length"
ActedIsWhole ==
  Acted =>
    /\ api = "silent" \/ why \in { "stop", "toolUse" }
    /\ \A k \in DOMAIN said : said[k].kind # "other" => Pieces(k) = said[k].n
    /\ \A i \in DOMAIN answer.content :
         /\ answer.content[i].kind = "call" => i \notin answer.unfinished
         /\ heard.blocks[i] = [ n |-> answer.content[i].n, open |-> FALSE ]
    /\ Len(heard.blocks) = Len(answer.content)
    /\ HasCalls(answer) => answer.stop = "toolUse"

AnswersAreWhole == HeardInOrder /\ EndsOnce /\ ActedIsWhole
=============================================================================
