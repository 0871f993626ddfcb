------------------------------ MODULE SseParser ------------------------------
(***************************************************************************)
(* The incremental parser of server-sent events (pi-ai/src/api.rs): the    *)
(* bytes of an answer come in chunks that end anywhere, in a line or in a  *)
(* character of several bytes, and the events must be those of the whole.  *)
(*                                                                         *)
(* A byte is a field's name with its colon ("data", "event"), the first or *)
(* the second byte of a character ("lead", "tail"), a carriage return, the *)
(* end of a line, or any other ("x").  A line that begins with none of the *)
(* two names is a comment or a field that nobody reads.                    *)
(***************************************************************************)
EXTENDS Naturals, SequencesExt

CONSTANTS Bytes, MaxBytes, MaxChunk

VARIABLES
  fed,      \* all the bytes there were
  parser,   \* [partial, buffer, event, data]
  events,   \* what it gave
  ended

vars == << fed, parser, events, ended >>

None == << "none" >>
New == [ partial |-> << >>, buffer |-> << >>, event |-> None, data |-> << >> ]

Init == fed = << >> /\ parser = New /\ events = << >> /\ ended = FALSE

-----------------------------------------------------------------------------
\* A step of the parser is p and the events of the step.
Result(p, es) == [ p |-> p, es |-> es ]

\* The characters of the bytes, and the byte that is not a character yet.
Decode(bytes) ==
  LET Read(r, b) ==
        CASE r.partial # << >> /\ b = "tail" ->
               [ text |-> Append(r.text, "char"), partial |-> << >> ]
          [] b = "lead" ->
               [ text |-> IF r.partial = << >> THEN r.text ELSE Append(r.text, "bad"),
                 partial |-> << b >> ]
          [] OTHER ->
               [ text |-> (IF r.partial = << >> THEN r.text ELSE Append(r.text, "bad"))
                            \o << IF b = "tail" THEN "bad" ELSE b >>,
                 partial |-> << >> ]
  IN FoldLeft(Read, [ text |-> << >>, partial |-> << >> ], bytes)

\* Only what was told is an event: data of one empty line is not.
FlushEvent(p) ==
  LET data == FlattenSeq([ i \in DOMAIN p.data |->
                IF i = 1 THEN p.data[i] ELSE << "nl" >> \o p.data[i] ]) IN
  Result([ p EXCEPT !.event = None, !.data = << >> ],
         IF data = << >> /\ p.event = None THEN << >>
         ELSE << [ event |-> p.event, data |-> data ] >>)

ProcessLine(p, line) ==
  IF line = << >> THEN FlushEvent(p)
  ELSE Result(CASE Head(line) = "event" -> [ p EXCEPT !.event = Tail(line) ]
                [] Head(line) = "data" -> [ p EXCEPT !.data = Append(@, Tail(line)) ]
                [] OTHER -> p,
              << >>)

WithoutReturn(line) ==
  IF line # << >> /\ line[Len(line)] = "cr" THEN Front(line) ELSE line

\* The lines that are complete; the rest stays in the buffer.
DrainLines(p) ==
  LET Read(r, c) ==
        IF c # "nl"
        THEN Result([ r.p EXCEPT !.buffer = Append(@, c) ], r.es)
        ELSE LET line == WithoutReturn(r.p.buffer)
                 next == ProcessLine([ r.p EXCEPT !.buffer = << >> ], line)
             IN Result(next.p, r.es \o next.es)
  IN FoldLeft(Read, Result([ p EXCEPT !.buffer = << >> ], << >>), p.buffer)

ForgetPartial(p, bytes) ==
  LET text == Decode(bytes) IN
  DrainLines([ p EXCEPT !.partial = text.partial, !.buffer = @ \o text.text ])

FeedBytes(p, bytes) ==
  LET text == Decode(p.partial \o bytes) IN
  DrainLines([ p EXCEPT !.partial = text.partial, !.buffer = @ \o text.text ])

\* A line or an event that was not ended counts.
Finish(p) ==
  LET buffer == p.buffer \o (IF p.partial = << >> THEN << >> ELSE << "bad" >>)
      q == [ p EXCEPT !.buffer = << >>, !.partial = << >> ]
      last == IF buffer = << >> THEN Result(q, << >>)
              ELSE ProcessLine(q, WithoutReturn(buffer))
      flushed == FlushEvent(last.p)
  IN Result(flushed.p, last.es \o flushed.es)

-----------------------------------------------------------------------------
Chunk(bytes) ==
  /\ ~ended /\ Len(fed) + Len(bytes) <= MaxBytes
  /\ fed' = fed \o bytes
  /\ LET r == FeedBytes(parser, bytes) IN parser' = r.p /\ events' = events \o r.es
  /\ UNCHANGED ended

End ==
  /\ ~ended /\ ended' = TRUE
  /\ LET r == Finish(parser) IN parser' = r.p /\ events' = events \o r.es
  /\ UNCHANGED fed

Next == End \/ \E n \in 1..MaxChunk : \E bytes \in [ 1..n -> Bytes ] : Chunk(bytes)

Spec == Init /\ [][Next]_vars

-----------------------------------------------------------------------------
\* Where the chunks end makes no difference: the events are those of all the
\* bytes in one chunk, and each event is told once.
ChunksMakeNoDifference ==
  LET whole == FeedBytes(New, fed) IN
  IF ended THEN events = whole.es \o Finish(whole.p).es
  ELSE events = whole.es /\ parser = whole.p
=============================================================================
