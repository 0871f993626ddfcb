--------------------------- MODULE UpdateDelivery ---------------------------
(***************************************************************************)
(* What the progress channel of one tool call promises to the code that    *)
(* runs the tool: updates taken in while the channel is open come out in   *)
(* the order they went in, each at most once, and the channel ends only    *)
(* when it is closed and empty.  Abandoning the call (its future is        *)
(* dropped) may lose a suffix of what is pending, never reorder it.        *)
(***************************************************************************)
EXTENDS Naturals, Sequences

CONSTANT Updates

VARIABLES
  open,       \* updates are still taken in
  pending,    \* taken in, not yet handed to the subscriber
  out,        \* handed to the subscriber, in that order
  ended       \* the call returned to its caller

vars == << open, pending, out, ended >>

TypeOK ==
  /\ open \in BOOLEAN
  /\ pending \in Seq(Updates)
  /\ out \in Seq(Updates)
  /\ ended \in BOOLEAN

Init ==
  /\ open = TRUE
  /\ pending = << >>
  /\ out = << >>
  /\ ended = FALSE

Accept ==
  /\ open
  /\ \E u \in Updates : pending' = Append(pending, u)
  /\ UNCHANGED << open, out, ended >>

Deliver ==
  /\ pending # << >>
  /\ out' = Append(out, Head(pending))
  /\ pending' = Tail(pending)
  /\ UNCHANGED << open, ended >>

Close ==
  /\ open
  /\ open' = FALSE
  /\ UNCHANGED << pending, out, ended >>

\* The caller goes away: a suffix of what is pending may be lost.
Abandon ==
  /\ ~ended
  /\ \E n \in 0 .. Len(pending) : pending' = SubSeq(pending, 1, n)
  /\ UNCHANGED << open, out, ended >>

End ==
  /\ ~open
  /\ pending = << >>
  /\ ended' = TRUE
  /\ UNCHANGED << open, pending, out >>

Next ==
  \/ Accept
  \/ Deliver
  \/ Close
  \/ Abandon
  \/ End

Spec == Init /\ [][Next]_vars
=============================================================================
