-------------------------- MODULE OutputAccumulator --------------------------
(***************************************************************************)
(* What the shell tools keep of the output of a command (truncate.rs): the *)
(* last part of it in memory, and all of it in a temporary file once it is *)
(* longer than what is shown.  Bytes are "x", "nl" (the end of a line) and *)
(* "lead" with "tail", the two of a wide character; output may end inside  *)
(* one.  Bytes that are no UTF-8 at all are left out.                      *)
(***************************************************************************)
EXTENDS Naturals, SequencesExt

CONSTANTS
  LineLimits, ByteLimits,  \* of what is shown
  MaxOutput, \* bound: bytes of output
  MaxPiece,  \* bound: bytes of a piece of it
  MaxFull    \* STRUCTURED_OUTPUT_MAX_BYTES

VARIABLES
  limit,          \* [lines, bytes]
  output, text,   \* all bytes there were, and the text they are
  incomplete,     \* the beginning of a wide character
  tail, whole,    \* tail_text, tail_starts_at_line_boundary
  completed, current, open,  \* lines
  chunks,         \* raw_chunks
  file, disk,     \* the temporary file: "none", "open", "closed", "failed"
  finished

vars == << limit, output, text, incomplete, tail, whole, completed, current,
           open, chunks, file, disk, finished >>

Init ==
  /\ limit \in [ lines : LineLimits, bytes : ByteLimits ]
  /\ output = << >> /\ text = << >> /\ incomplete = << >>
  /\ tail = << >> /\ whole = TRUE
  /\ completed = 0 /\ current = 0 /\ open = FALSE
  /\ chunks = << >> /\ file = "none" /\ disk = << >> /\ finished = FALSE

-----------------------------------------------------------------------------
(* Text *)

From(t, i) == SubSeq(t, i, Len(t))

\* The first place from i on where a character begins.
CharFrom(t, i) == Min({ j \in i .. Len(t) + 1 : j = Len(t) + 1 \/ t[j] # "tail" })

Body(t) == IF t # << >> /\ Last(t) = "nl" THEN Front(t) ELSE t
LineStarts(t) ==
  IF t = << >> THEN { }
  ELSE { 1 } \cup { i \in 2 .. Len(t) : t[i - 1] = "nl" }

\* Where to begin so that what follows, with its lines, can be shown.
Fits(t) ==
  { s \in LineStarts(t) :
      /\ Len(Body(t)) + 1 - s <= limit.bytes
      /\ Cardinality({ r \in LineStarts(t) : r >= s }) <= limit.lines }

\* truncate_tail: the last lines that fit, or the end of the last one.
TruncateTail(t) ==
  IF Cardinality(LineStarts(t)) <= limit.lines /\ Len(t) <= limit.bytes THEN t
  ELSE IF Fits(t) # { } THEN From(Body(t), Min(Fits(t)))
  ELSE From(Body(t), CharFrom(Body(t), Len(Body(t)) + 1 - limit.bytes))

-----------------------------------------------------------------------------
(* Keeping it *)

Rolling == 2 * limit.bytes

\* decode_streaming_utf8: what can be read, and what must wait.
Decoded(bytes, flush) ==
  IF bytes = << >> \/ Last(bytes) # "lead" THEN << bytes, << >> >>
  ELSE IF flush THEN << Front(bytes) \o << "lead", "tail", "tail" >>, << >> >>
  ELSE << Front(bytes), << "lead" >> >>

TrimTail(t) ==
  IF Len(t) <= 2 * Rolling THEN tail' = t /\ UNCHANGED whole
  ELSE LET start == CharFrom(t, Len(t) + 1 - Rolling)
       IN tail' = From(t, start) /\ whole' = (t[start - 1] = "nl")

\* append_decoded_text.
Keep(new) ==
  LET ends == { i \in DOMAIN new : new[i] = "nl" }
  IN /\ text' = text \o new
     /\ IF new = << >> THEN UNCHANGED << tail, whole, completed, current, open >>
        ELSE /\ TrimTail(tail \o new)
             /\ completed' = completed + Cardinality(ends)
             /\ current' = IF ends = { } THEN current + Len(new) ELSE Len(new) - Max(ends)
             /\ open' = (ends = { } \/ Max(ends) < Len(new))

TotalLines == completed + IF open THEN 1 ELSE 0

\* should_use_temp_file, after the text was kept.
UsesFile ==
  Len(output') > limit.bytes \/ Len(text') > limit.bytes \/ TotalLines' > limit.lines

Fail == file' = "failed" /\ disk' = << >> /\ chunks' = << >>

\* A slip: the file begins with the piece that made it necessary.
SaveAsFromHere(state, bytes) ==
  \/ file = "none" /\ file' = state /\ disk' = bytes /\ chunks' = << >>
  \/ file = "open" /\ file' = state /\ disk' = disk \o bytes /\ UNCHANGED chunks
  \/ file \in { "none", "open" } /\ Fail
  \/ file = "failed" /\ UNCHANGED << file, disk, chunks >>

\* ensure_temp_file and write_to_temp_file: what was held back comes first.
SaveAs(state, bytes) ==
  \/ file = "none" /\ file' = state /\ disk' = chunks \o bytes /\ chunks' = << >>
  \/ file = "open" /\ file' = state /\ disk' = disk \o bytes /\ UNCHANGED chunks
  \/ file \in { "none", "open" } /\ Fail
  \/ file = "failed" /\ UNCHANGED << file, disk, chunks >>

AppendData(data) ==
  /\ ~ finished
  /\ output' = output \o data
  /\ LET d == Decoded(incomplete \o data, FALSE)
     IN Keep(d[1]) /\ incomplete' = d[2]
  /\ IF file = "open" \/ UsesFile THEN SaveAs("open", data)
     ELSE chunks' = chunks \o data /\ UNCHANGED << file, disk >>
  /\ UNCHANGED << limit, finished >>

Finish ==
  /\ ~ finished /\ finished' = TRUE
  /\ Keep(Decoded(incomplete, TRUE)[1]) /\ incomplete' = << >>
  /\ UNCHANGED << limit, output >>
  /\ IF file = "open" \/ UsesFile THEN SaveAs("closed", << >>)
     ELSE UNCHANGED << file, disk, chunks >>

Next ==
  \/ \E n \in 1 .. MaxPiece : \E data \in [ 1 .. n -> { "x", "nl", "lead", "tail" } ] :
       /\ Len(output) + n <= MaxOutput
       /\ \A i \in 1 .. n :
            (data[i] = "tail") =
              (Last(<< "x" >> \o output \o SubSeq(data, 1, i - 1)) = "lead")
       /\ AppendData(data)
  \/ Finish

Spec == Init /\ [][Next]_vars

-----------------------------------------------------------------------------
(* What is shown and given *)

\* get_snapshot_text: no beginning of which a part is missing.
SnapshotText ==
  IF whole \/ \A i \in DOMAIN tail : tail[i] # "nl" THEN tail
  ELSE From(tail, 1 + Min({ i \in DOMAIN tail : tail[i] = "nl" }))

Shown == TruncateTail(SnapshotText)
Truncated == TotalLines > limit.lines \/ Len(text) > limit.bytes

\* read_full_output: [content, truncated].
FullOutput ==
  IF file \in { "open", "closed" }
  THEN [ content |-> Decoded(disk, TRUE)[1], truncated |-> Len(disk) > MaxFull ]
  ELSE IF chunks # << >>
  THEN [ content |-> Decoded(chunks, TRUE)[1],
         truncated |-> Len(Decoded(chunks, TRUE)[1]) > MaxFull ]
  ELSE [ content |-> SnapshotText,
         truncated |-> Len(text) > Len(tail) \/ Len(SnapshotText) > MaxFull ]

\* "Output is truncated to last 2000 lines or 50KB" (bash.rs:621): what is
\* shown of a command is the end of its output, with or without the end of
\* the last line.
ShowsEnd ==
  LET end == TruncateTail(text) IN Shown \in { end, end \o << "nl" >> }

\* A line longer than what is kept, and nothing after it.
LongLineEnded == ~ whole /\ SnapshotText = << >>

\* However the output is cut into pieces and whatever becomes of the file, the
\* command's caller is shown the last lines of all of it, and is told rightly
\* whether that is all; a file that is named holds everything, and what is
\* given as the whole output is.  After a long line that has ended the code
\* shows nothing.
OutputIsTold ==
  /\ LongLineEnded \/ ShowsEnd
  /\ Truncated \/ Shown = text
  /\ TotalLines = Cardinality(LineStarts(text))
  /\ file \in { "open", "closed" } => disk = output
  /\ Truncated => file # "none"
  /\ finished /\ ~ FullOutput.truncated => FullOutput.content = text

-----------------------------------------------------------------------------
(* The inductive invariant behind it.                                      *)

Byte == { "x", "nl", "lead", "tail" }

TypeOK ==
  /\ limit \in [ lines : LineLimits, bytes : ByteLimits ]
  /\ output \in Seq(Byte) /\ text \in Seq(Byte) /\ incomplete \in Seq(Byte)
  /\ tail \in Seq(Byte) /\ chunks \in Seq(Byte) /\ disk \in Seq(Byte)
  /\ { whole, open, finished } \subseteq BOOLEAN /\ completed \in Nat
  /\ file \in { "none", "open", "closed", "failed" }

\* A wide character is two bytes, and its text is what was decoded of all.
WholeChars ==
  \A i \in 1 .. Len(output) :
    output[i] = "tail" <=> i > 1 /\ output[i - 1] = "lead"
TextIsRead == << text, incomplete >> = Decoded(output, finished)

LineEnds(t) == { i \in 1 .. Len(t) : t[i] = "nl" }
LinesAreCounted ==
  /\ completed = Cardinality(LineEnds(text))
  /\ open <=> text # << >> /\ Last(text) # "nl"

\* What is kept is the end of the text, from a character on, and at least what
\* is shown with what one character is too long.
CutOff == Len(text) - Len(tail)
TailIsEnd ==
  /\ CutOff >= 0 /\ tail = From(text, CutOff + 1)
  /\ whole <=> CutOff = 0 \/ text[CutOff] = "nl"
  /\ CutOff > 0 =>
       /\ Len(text) > limit.bytes
       /\ whole => Len(tail) >= Rolling
       /\ IF tail = << >> THEN finished
          ELSE Len(tail) >= Rolling - 1 /\ tail[1] # "tail"

\* All that there was is held back, or in the file once that is needed.
FileHolds ==
  /\ file = "none" => chunks = output
  /\ file \in { "open", "closed" } => disk = output
  /\ file = "failed" => chunks = << >>
  /\ file = "closed" => finished
  /\ file = "none" <=> ~ Truncated /\ Len(output) <= limit.bytes

OutputInv ==
  /\ TypeOK /\ WholeChars /\ TextIsRead /\ LinesAreCounted /\ TailIsEnd
  /\ FileHolds

=============================================================================
