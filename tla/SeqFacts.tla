------------------------------ MODULE SeqFacts ------------------------------
(***************************************************************************)
(* Facts about concatenation that the proofs about queues rest on: what    *)
(* moves between the parts of a sequence without changing the whole.       *)
(***************************************************************************)
EXTENDS Naturals, Sequences, SequenceTheorems, TLAPS

\* Parentheses do not matter in a concatenation of four parts.
LEMMA Regroup ==
  ASSUME NEW S, NEW s \in Seq(S), NEW h \in Seq(S), NEW r \in Seq(S),
         NEW u \in Seq(S)
  PROVE  (s \o h) \o (r \o u) = s \o ((h \o r) \o u)
BY SMTT(60)

\* A sequence that is not empty is its head followed by its tail.
LEMMA HeadThenTail ==
  ASSUME NEW S, NEW t \in Seq(S), t # << >>
  PROVE  /\ Head(t) \in S
         /\ Tail(t) \in Seq(S)
         /\ << Head(t) >> \in Seq(S)
         /\ t = << Head(t) >> \o Tail(t)
<1>1. Head(t) \in S /\ Tail(t) \in Seq(S)
  BY HeadTailProperties
<1>2. t = << Head(t) >> \o Tail(t)
  BY SMTT(30)
<1>3. QED
  BY <1>1, <1>2

\* Moving the head of the second part to the end of the first changes
\* nothing: how an element travels from a queue to where it is delivered.
LEMMA MoveHeadOfTwo ==
  ASSUME NEW S, NEW s \in Seq(S), NEW t \in Seq(S), t # << >>
  PROVE  /\ Append(s, Head(t)) \o Tail(t) = s \o t
         /\ Tail(t) \in Seq(S)
<1>1. PICK h \in Seq(S), r \in Seq(S) :
        h = << Head(t) >> /\ r = Tail(t) /\ t = h \o r
  BY HeadThenTail
<1>2. (s \o h) \o r = s \o (h \o r)
  BY ConcatAssociative, SMTT(30)
<1>3. Append(s, Head(t)) = s \o h
  BY <1>1, HeadThenTail, AppendIsConcat
<1>4. QED
  BY <1>1, <1>2, <1>3, Zenon

\* Appending to the last part appends to the whole.
LEMMA AppendLast ==
  ASSUME NEW S, NEW s \in Seq(S), NEW t \in Seq(S), NEW e \in S
  PROVE  s \o Append(t, e) = Append(s \o t, e)
<1>0. << e >> \in Seq(S)
  OBVIOUS
<1>1. PICK l \in Seq(S) : l = << e >>
  BY <1>0, Zenon
<1>2. s \o (t \o l) = (s \o t) \o l
  BY ConcatAssociative, SMTT(30)
<1>3. Append(t, e) = t \o l /\ Append(s \o t, e) = (s \o t) \o l
  BY <1>1, AppendIsConcat, ConcatProperties
<1>4. QED
  BY <1>2, <1>3, Zenon

\* The empty sequence is a unit.
LEMMA EmptyUnit ==
  ASSUME NEW S, NEW s \in Seq(S)
  PROVE  s \o << >> = s /\ << >> \o s = s
BY ConcatEmptySeq

\* A sequence of length one.
LEMMA Singleton ==
  ASSUME NEW S, NEW s \in Seq(S), Len(s) = 1
  PROVE  \E e \in S : s = << e >>
<1>1. s[1] \in S
  OBVIOUS
<1>2. << s[1] >> \in Seq(S) /\ Len(<< s[1] >>) = 1 /\ << s[1] >>[1] = s[1]
  BY <1>1
<1>3. PICK t \in Seq(S) : t = << s[1] >> /\ Len(t) = 1 /\ t[1] = s[1]
  BY <1>2, Zenon
<1>4. s = t
  BY <1>3, SeqEqual
<1>5. QED
  BY <1>1, <1>3, <1>4
=============================================================================
