--------------------------- MODULE StoresProofs -----------------------------
(***************************************************************************)
(* Proofs about the parts of MCStores, for any set of processes, requests  *)
(* and entries.  A step of the whole is a step of one part, so that each   *)
(* part has its own inductive invariant, and the last theorems only say    *)
(* that the other parts leave it alone.                                    *)
(***************************************************************************)
EXTENDS MCStores, SeqFacts, WellFoundedInduction

-----------------------------------------------------------------------------
(* The lock that is a directory.                                           *)

LEMMA LockInit == L!Init => L!LockInv
  BY NamesAssumption
  DEF L!Init, L!LockInv, L!TypeOK, L!LockIsExclusive, L!Places

LEMMA LockStep == L!LockInv /\ [L!Next]_lockVars => L!LockInv'
<1> SUFFICES ASSUME L!LockInv, [L!Next]_lockVars
             PROVE  L!LockInv'
  OBVIOUS
<1> USE NamesAssumption
    DEF L!LockInv, L!TypeOK, L!LockIsExclusive, L!Places, L!Abandoned, L!Go
<1>1. ASSUME NEW x \in Processes, L!Make(x) \/ L!Meet(x)
      PROVE  L!LockInv'
  BY <1>1, ZenonT(60) DEF L!Make, L!Meet
<1>2. ASSUME NEW x \in Processes, L!Name(x) \/ L!Leave(x)
      PROVE  L!LockInv'
  BY <1>2, ZenonT(60) DEF L!Name, L!Leave
<1>3. ASSUME NEW x \in Processes, L!Claim(x) \/ L!LookAgain(x)
      PROVE  L!LockInv'
  BY <1>3 DEF L!Claim, L!LookAgain, L!SecondLook
<1>4. ASSUME NEW x \in Processes, L!Move(x) \/ L!Clear(x)
      PROVE  L!LockInv'
  BY <1>4, ZenonT(60) DEF L!Move, L!Clear
<1>5. ASSUME NEW x \in Processes, L!Die(x)
      PROVE  L!LockInv'
  BY <1>5 DEF L!Die
<1>6. CASE UNCHANGED lockVars
  BY <1>6 DEF lockVars
<1>7. QED
  BY <1>1, <1>2, <1>3, <1>4, <1>5, <1>6 DEF L!Next, L!Step

\* For any set of processes that die when they like: a live process inside the
\* lock of the telemetry files is the one that made the directory, so that no
\* other is inside, and clearing up moves only locks of the dead.
THEOREM OneHolder == Spec => []LockIsExclusive
<1>1. Init => L!LockInv
  BY LockInit DEF Init
<1>2. L!LockInv /\ [Next]_vars => L!LockInv'
  BY LockStep DEF Next, vars, lockVars
<1>3. L!LockInv => LockIsExclusive
  BY DEF L!LockInv, LockIsExclusive
<1>4. QED
  BY <1>1, <1>2, <1>3, PTL DEF Spec

-----------------------------------------------------------------------------
(* The receipts of the web server.                                         *)

LEMMA ReceiptInit == R!Init => R!ReceiptInv
<1> SUFFICES ASSUME R!Init
             PROVE  R!ReceiptInv
  OBVIOUS
<1>1. << >> \in Seq(R!Signatures) /\ Len(<< >>) = 0
  OBVIOUS
<1>2. R!ReceiptsTyped
  BY <1>1, NamesAssumption
  DEF R!Init, R!ReceiptsTyped, R!TypeOK, R!Stages, R!Missing
<1>3. R!OwnerInv /\ R!FileInv /\ R!AnswerInv
  BY <1>1, NamesAssumption
  DEF R!Init, R!OwnerInv, R!FileInv, R!AnswerInv, R!Missing, R!Signatures
<1>4. QED
  BY <1>2, <1>3 DEF R!ReceiptInv

\* Only the request that does the work changes the file and its effects.
LEMMA ReceiptTyped ==
  ASSUME R!ReceiptsTyped, [R!Next]_receiptsVars
  PROVE  R!ReceiptsTyped'
<1> USE DEF R!ReceiptsTyped, R!TypeOK, R!Stages, R!Go, R!Settle
<1>1. \A x \in Requests : SignatureOf[x] \in R!Signatures
  BY DEF R!Signatures
<1>2. ASSUME NEW x \in Requests, R!Begin(x) \/ R!Join(x)
      PROVE  R!ReceiptsTyped'
  BY <1>2 DEF R!Begin, R!Join
<1>3. ASSUME NEW x \in Requests, R!Read(x)
      PROVE  R!ReceiptsTyped'
  BY <1>1, <1>3 DEF R!Read, R!ReadReceipt, R!Missing
<1>4. ASSUME NEW x \in Requests, R!Reserve(x) \/ R!Complete(x) \/ R!SaveFails(x)
      PROVE  R!ReceiptsTyped'
  BY <1>1, <1>4 DEF R!Reserve, R!Complete, R!SaveFails, R!Saved
<1>5. ASSUME NEW x \in Requests, R!Act(x)
      PROVE  R!ReceiptsTyped'
  <2>1. effects' \in Seq(R!Signatures)
    BY <1>1, <1>5 DEF R!Act
  <2>2. QED
    BY <1>5, <2>1 DEF R!Act
<1>6. ASSUME NEW x \in Requests, R!Reply(x) \/ R!JoinerWakes(x) \/ R!JoinerReplies(x)
      PROVE  R!ReceiptsTyped'
  BY <1>6 DEF R!Reply, R!JoinerWakes, R!JoinerChecks, R!JoinerReplies, R!Answer
<1>7. CASE R!Crash \/ UNCHANGED receiptsVars
  BY <1>7 DEF R!Crash, receiptsVars, R!Replied
<1>8. QED
  BY <1>2, <1>3, <1>4, <1>5, <1>6, <1>7 DEF R!Next, R!Step

LEMMA ReceiptStep == R!ReceiptInv /\ [R!Next]_receiptsVars => R!ReceiptInv'
<1> SUFFICES ASSUME R!ReceiptInv, [R!Next]_receiptsVars
             PROVE  R!ReceiptInv'
  OBVIOUS
<1>1. R!ReceiptsTyped /\ R!ReceiptsTyped'
  BY ReceiptTyped DEF R!ReceiptInv
<1>2. \A x \in Requests : SignatureOf[x] \in R!Signatures
  BY DEF R!Signatures
<1>3. R!Signatures \cap { "none", "error", "conflict" } = { }
  BY NamesAssumption DEF R!Signatures
<1>4. R!OwnerInv /\ R!FileInv /\ R!AnswerInv
  BY DEF R!ReceiptInv
<1> SUFFICES R!OwnerInv' /\ R!FileInv' /\ R!AnswerInv'
  BY <1>1 DEF R!ReceiptInv
<1> USE <1>1, <1>2, <1>3, <1>4, NamesAssumption
    DEF R!ReceiptsTyped, R!TypeOK, R!Go, R!Settle, R!OwnerInv, R!FileInv,
        R!AnswerInv, R!Missing
<1>5. ASSUME NEW x \in Requests, R!Begin(x) \/ R!Join(x)
      PROVE  R!OwnerInv' /\ R!FileInv' /\ R!AnswerInv'
  BY <1>5 DEF R!Begin, R!Join
<1>6. ASSUME NEW x \in Requests, R!Read(x)
      PROVE  R!OwnerInv' /\ R!FileInv' /\ R!AnswerInv'
  BY <1>6 DEF R!Read, R!ReadReceipt
<1>7. ASSUME NEW x \in Requests, R!Reserve(x) \/ R!Complete(x)
      PROVE  R!OwnerInv' /\ R!FileInv' /\ R!AnswerInv'
  BY <1>7 DEF R!Reserve, R!Complete, R!Saved
<1>8. ASSUME NEW x \in Requests, R!SaveFails(x)
      PROVE  R!OwnerInv' /\ R!FileInv' /\ R!AnswerInv'
  BY <1>8 DEF R!SaveFails
<1>9. ASSUME NEW x \in Requests, R!Act(x)
      PROVE  R!OwnerInv' /\ R!FileInv' /\ R!AnswerInv'
  <2>1. effects = << >> /\ receipt.status = "started" /\ work = x
    BY <1>9 DEF R!Act
  <2>2. Append(effects, SignatureOf[x]) = << SignatureOf[x] >>
    BY <2>1
  <2>3. Len(<< >>) = 0 /\ Len(<< SignatureOf[x] >>) = 1 /\ << >> # << SignatureOf[x] >>
    OBVIOUS
  <2>4. CASE effects' = << >> /\ stage' = [ stage EXCEPT ![x] = "settled" ]
                             /\ result' = [ result EXCEPT ![x] = "error" ]
    BY <1>9, <2>1, <2>3, <2>4 DEF R!Act
  <2>5. CASE effects' = << SignatureOf[x] >>
    BY <1>9, <2>1, <2>2, <2>3, <2>5 DEF R!Act
  <2>6. QED
    BY <1>9, <2>1, <2>2, <2>4, <2>5 DEF R!Act
<1>10. ASSUME NEW x \in Requests, R!Reply(x)
       PROVE  R!OwnerInv' /\ R!FileInv' /\ R!AnswerInv'
  BY <1>10 DEF R!Reply, R!Answer
<1>11. ASSUME NEW x \in Requests, R!JoinerWakes(x) \/ R!JoinerReplies(x)
       PROVE  R!OwnerInv' /\ R!FileInv' /\ R!AnswerInv'
  BY <1>11 DEF R!JoinerWakes, R!JoinerChecks, R!JoinerReplies, R!Answer
<1>12. CASE R!Crash \/ UNCHANGED receiptsVars
  BY <1>12 DEF R!Crash, receiptsVars, R!Replied
<1>13. QED
  BY <1>5, <1>6, <1>7, <1>8, <1>9, <1>10, <1>11, <1>12 DEF R!Next, R!Step

\* For any number of requests with one key, whatever crashes, fails or comes
\* again with another body: what the key stands for happens at most once, and
\* only a request that asked for just that is told that it is done.
THEOREM KeysActOnce == Spec => []KeyActsOnce
<1>1. Init => R!ReceiptInv
  BY ReceiptInit DEF Init
<1>2. R!ReceiptInv /\ [Next]_vars => R!ReceiptInv'
  BY ReceiptStep DEF Next, vars, receiptsVars
<1>3. R!ReceiptInv => KeyActsOnce
  BY DEF R!ReceiptInv, R!FileInv, R!AnswerInv, KeyActsOnce, R!KeyActsOnce
<1>4. QED
  BY <1>1, <1>2, <1>3, PTL DEF Spec

-----------------------------------------------------------------------------
(* The session store: facts about entries.                                 *)

LEMMA IdsOfConcat ==
  ASSUME NEW s \in Seq(S!Entries), NEW t \in Seq(S!Entries)
  PROVE  S!Ids(s \o t) = S!Ids(s) \cup S!Ids(t)
<1>1. /\ Len(s) \in Nat /\ Len(t) \in Nat /\ DOMAIN s = 1 .. Len(s)
      /\ DOMAIN t = 1 .. Len(t) /\ DOMAIN (s \o t) = 1 .. Len(s) + Len(t)
      /\ \A i \in 1 .. Len(s) : (s \o t)[i] = s[i]
      /\ \A i \in 1 .. Len(t) : (s \o t)[i + Len(s)] = t[i]
  BY ConcatProperties
<1>2. S!Ids(s \o t) \subseteq S!Ids(s) \cup S!Ids(t)
  <2> SUFFICES ASSUME NEW i \in 1 .. Len(s) + Len(t)
               PROVE  (s \o t)[i].id \in S!Ids(s) \cup S!Ids(t)
    BY <1>1 DEF S!Ids
  <2>1. CASE i \in 1 .. Len(s)
    BY <1>1, <2>1 DEF S!Ids
  <2>2. CASE i \notin 1 .. Len(s)
    <3>1. i - Len(s) \in 1 .. Len(t) /\ i = (i - Len(s)) + Len(s)
      BY <1>1, <2>2
    <3>2. (s \o t)[i] = t[i - Len(s)]
      BY <1>1, <3>1
    <3>3. QED
      BY <1>1, <3>1, <3>2 DEF S!Ids
  <2>3. QED
    BY <2>1, <2>2
<1>3. S!Ids(s) \cup S!Ids(t) \subseteq S!Ids(s \o t)
  <2>1. ASSUME NEW i \in 1 .. Len(s)
        PROVE  s[i].id \in S!Ids(s \o t)
    BY <1>1 DEF S!Ids
  <2>2. ASSUME NEW i \in 1 .. Len(t)
        PROVE  t[i].id \in S!Ids(s \o t)
    <3>1. i + Len(s) \in 1 .. Len(s) + Len(t)
      BY <1>1
    <3>2. QED
      BY <1>1, <3>1 DEF S!Ids
  <2>3. QED
    BY <1>1, <2>1, <2>2 DEF S!Ids
<1>4. QED
  BY <1>2, <1>3

\* Later entries behind earlier ones are in order.
LEMMA IncreasingConcat ==
  ASSUME NEW s \in Seq(S!Entries), NEW t \in Seq(S!Entries),
         S!Increasing(s), S!Increasing(t),
         \A x \in S!Ids(s), y \in S!Ids(t) : x < y
  PROVE  S!Increasing(s \o t)
<1>1. /\ Len(s) \in Nat /\ Len(t) \in Nat /\ DOMAIN s = 1 .. Len(s)
      /\ DOMAIN t = 1 .. Len(t) /\ DOMAIN (s \o t) = 1 .. Len(s) + Len(t)
      /\ \A i \in 1 .. Len(s) : (s \o t)[i] = s[i]
      /\ \A i \in 1 .. Len(t) : (s \o t)[i + Len(s)] = t[i]
  BY ConcatProperties
<1>2. \A i \in 1 .. Len(s) + Len(t) :
        i \notin 1 .. Len(s) => /\ i - Len(s) \in 1 .. Len(t)
                                /\ (s \o t)[i] = t[i - Len(s)]
  <2> SUFFICES ASSUME NEW i \in 1 .. Len(s) + Len(t), i \notin 1 .. Len(s)
               PROVE  i - Len(s) \in 1 .. Len(t) /\ (s \o t)[i] = t[i - Len(s)]
    OBVIOUS
  <2>1. i - Len(s) \in 1 .. Len(t) /\ i = (i - Len(s)) + Len(s)
    BY <1>1
  <2>2. QED
    BY <1>1, <2>1
<1> SUFFICES ASSUME NEW i \in 1 .. Len(s) + Len(t),
                    NEW j \in 1 .. Len(s) + Len(t), i < j
             PROVE  (s \o t)[i].id < (s \o t)[j].id
  BY <1>1 DEF S!Increasing
<1>3. CASE j \in 1 .. Len(s)
  BY <1>1, <1>3 DEF S!Increasing
<1>4. CASE i \in 1 .. Len(s) /\ j \notin 1 .. Len(s)
  <2>1. s[i].id \in S!Ids(s) /\ t[j - Len(s)].id \in S!Ids(t)
    BY <1>1, <1>2, <1>4 DEF S!Ids
  <2>2. QED
    BY <1>1, <1>2, <1>4, <2>1
<1>5. CASE i \notin 1 .. Len(s) /\ j \notin 1 .. Len(s)
  <2>1. i - Len(s) < j - Len(s)
    BY <1>1
  <2>2. t[i - Len(s)].id < t[j - Len(s)].id
    BY <1>1, <1>2, <1>5, <2>1 DEF S!Increasing
  <2>3. QED
    BY <1>2, <1>5, <2>2
<1>6. QED
  BY <1>1, <1>3, <1>4, <1>5

\* What a snapshot that is cut short still has.
LEMMA PrefixOfEntries ==
  ASSUME NEW s \in Seq(S!Entries), NEW k \in 0 .. Len(s)
  PROVE  /\ SubSeq(s, 1, k) \in Seq(S!Entries)
         /\ S!Ids(SubSeq(s, 1, k)) \subseteq S!Ids(s)
         /\ S!Increasing(s) => S!Increasing(SubSeq(s, 1, k))
<1>1. /\ SubSeq(s, 1, k) \in Seq(S!Entries) /\ DOMAIN SubSeq(s, 1, k) = 1 .. k
      /\ \A i \in 1 .. k : SubSeq(s, 1, k)[i] = s[i]
      /\ DOMAIN s = 1 .. Len(s) /\ k <= Len(s) /\ k \in Nat
  OBVIOUS
<1>2. QED
  BY <1>1 DEF S!Ids, S!Increasing

LEMMA NoEntries ==
  << >> \in Seq(S!Entries) /\ S!Ids(<< >>) = { } /\ S!Increasing(<< >>)
BY DEF S!Ids, S!Increasing

LEMMA NoOpTyped == S!NoOp \in S!Ops /\ S!NoOp.kind = "none"
<1>1. S!Absent \in S!Images
  BY NoEntries DEF S!Absent, S!Images
<1>2. QED
  BY <1>1, NoEntries DEF S!NoOp, S!Ops

LEMMA OneEntry ==
  ASSUME NEW e \in S!Entries
  PROVE  << e >> \in Seq(S!Entries) /\ S!Ids(<< e >>) = { e.id }
         /\ S!Increasing(<< e >>)
<1>1. << e >> \in Seq(S!Entries) /\ DOMAIN << e >> = { 1 } /\ << e >>[1] = e
  OBVIOUS
<1>2. QED
  BY <1>1 DEF S!Ids, S!Increasing

LEMMA WholeOfOne ==
  ASSUME NEW e \in S!Entries
  PROVE  SubSeq(<< e >>, 1, 1) = << e >>
<1>1. PICK one \in Seq(S!Entries) : one = << e >> /\ Len(one) = 1
  <2>1. << e >> \in Seq(S!Entries) /\ Len(<< e >>) = 1
    OBVIOUS
  <2>2. QED
    BY <2>1, Zenon
<1>2. /\ SubSeq(one, 1, 1) \in Seq(S!Entries) /\ Len(SubSeq(one, 1, 1)) = 1
      /\ SubSeq(one, 1, 1)[1] = one[1]
  BY <1>1
<1>3. \A i \in 1 .. 1 : SubSeq(one, 1, 1)[i] = one[i]
  BY <1>2
<1>4. SubSeq(one, 1, 1) = one
  BY <1>1, <1>2, <1>3, SeqEqual
<1>5. QED
  BY <1>1, <1>4

LEMMA HeaderEntry == S!Header \in S!Entries /\ S!Header.id = 0
BY MaxEntriesAssumption DEF S!Header, S!Entries, S!Kinds

\* New entries have the next numbers.
LEMMA FreshEntries ==
  ASSUME NEW kinds \in Seq(S!Kinds), nextId \in 1 .. MaxEntries + 1,
         nextId + Len(kinds) <= MaxEntries + 1
  PROVE  /\ S!Fresh(kinds) \in Seq(S!Entries)
         /\ S!Ids(S!Fresh(kinds)) = nextId .. nextId + Len(kinds) - 1
         /\ S!Increasing(S!Fresh(kinds))
         /\ Len(S!Fresh(kinds)) = Len(kinds)
<1>1. Len(kinds) \in Nat /\ DOMAIN kinds = 1 .. Len(kinds)
      /\ \A i \in 1 .. Len(kinds) : kinds[i] \in S!Kinds
  OBVIOUS
<1>2. \A i \in 1 .. Len(kinds) :
        [ id |-> nextId + i - 1, kind |-> kinds[i] ] \in S!Entries
  BY <1>1, MaxEntriesAssumption DEF S!Entries
<1>3. S!Fresh(kinds) \in [ 1 .. Len(kinds) -> S!Entries ]
  BY <1>1, <1>2 DEF S!Fresh
<1>4. S!Fresh(kinds) \in Seq(S!Entries)
  BY <1>1, <1>3
<1>5. DOMAIN S!Fresh(kinds) = 1 .. Len(kinds)
      /\ \A i \in 1 .. Len(kinds) : S!Fresh(kinds)[i].id = nextId + i - 1
  BY <1>1 DEF S!Fresh
<1>6. S!Increasing(S!Fresh(kinds))
  BY <1>1, <1>5 DEF S!Increasing
<1>7. S!Ids(S!Fresh(kinds)) = nextId .. nextId + Len(kinds) - 1
  <2>1. ASSUME NEW x \in nextId .. nextId + Len(kinds) - 1
        PROVE  x \in S!Ids(S!Fresh(kinds))
    <3>1. x - nextId + 1 \in 1 .. Len(kinds) /\ x = nextId + (x - nextId + 1) - 1
      BY <1>1, MaxEntriesAssumption
    <3>2. QED
      BY <1>5, <3>1 DEF S!Ids
  <2>2. S!Ids(S!Fresh(kinds)) \subseteq nextId .. nextId + Len(kinds) - 1
    BY <1>1, <1>5 DEF S!Ids
  <2>3. QED
    BY <2>1, <2>2
<1>8. Len(S!Fresh(kinds)) = Len(kinds)
  BY <1>1, <1>4, <1>5
<1>9. QED
  BY <1>4, <1>6, <1>7, <1>8

-----------------------------------------------------------------------------
(* The session store: every step keeps StoreInv.                           *)

LEMMA StoreInit == S!Init => S!StoreInv
<1> SUFFICES ASSUME S!Init
             PROVE  S!StoreInv
  OBVIOUS
<1> USE NoEntries, MaxEntriesAssumption DEF S!Init
<1>1. S!Absent \in S!Images /\ S!Absent.entries = << >> /\ S!Absent.tail = "absent"
  BY DEF S!Absent, S!Images
<1>2. S!TypeOK
  <2>1. op \in S!Ops
    BY NoOpTyped
  <2>2. nextId \in 1 .. MaxEntries + 1
    OBVIOUS
  <2>3. QED
    BY <1>1, <2>1, <2>2 DEF S!TypeOK
<1>3. S!ImagesInv /\ S!HistoryInv /\ S!MemoryInv
  BY <1>1 DEF S!ImagesInv, S!HistoryInv, S!MemoryInv, S!Sound
<1>4. S!OpInv /\ S!MemoryMatchesFile
  BY DEF S!OpInv, S!MemoryMatchesFile, S!Writable, S!NoOp
<1>5. QED
  BY <1>2, <1>3, <1>4 DEF S!StoreInv

\* A step that only settles what the file is keeps the images sound.
LEMMA ImagesKept ==
  ASSUME S!ImagesInv, S!HistoryInv, UNCHANGED << nextId, acked, refused, batches >>,
         \A image \in survivors' : \E old \in survivors :
           /\ image.entries = old.entries
           /\ image.tail # "bad" /\ (image.tail = "absent" => image = S!Absent)
  PROVE  S!ImagesInv' /\ S!HistoryInv'
<1>1. S!HistoryInv'
  BY DEF S!HistoryInv
<1>2. ASSUME NEW image \in survivors'
      PROVE  /\ S!Increasing(image.entries)
             /\ S!Ids(image.entries) \subseteq 0 .. nextId' - 1
             /\ refused' \cap S!Ids(image.entries) = { }
             /\ \A batch \in batches' : \/ batch \subseteq S!Ids(image.entries)
                                        \/ batch \cap S!Ids(image.entries) = { }
             /\ acked' \subseteq S!Ids(image.entries)
             /\ image.tail # "bad" /\ (image.tail = "absent" => image = S!Absent)
  BY DEF S!ImagesInv, S!Sound
<1>3. S!ImagesInv'
  BY <1>2 DEF S!ImagesInv, S!Sound
<1>4. QED
  BY <1>1, <1>3

\* Nothing in memory and nothing under way.
LEMMA DownKept ==
  ASSUME S!TypeOK, S!HistoryInv', status' \in { "down", "refused" },
         mem' = << >>, flushed' = FALSE, poisoned' = FALSE, op' = S!NoOp,
         nextId' \in Nat
  PROVE  S!MemoryInv' /\ S!OpInv' /\ S!MemoryMatchesFile'
<1>1. S!MemoryInv'
  BY NoEntries DEF S!MemoryInv, S!Sound, S!HistoryInv
<1>2. S!OpInv'
  BY DEF S!OpInv, S!NoOp
<1>3. S!MemoryMatchesFile'
  BY DEF S!MemoryMatchesFile, S!Writable
<1>4. QED
  BY <1>1, <1>2, <1>3

LEMMA StoreClosing ==
  ASSUME S!StoreInv, S!WriteBack \/ S!RepairFails \/ S!Close \/ S!Crash
  PROVE  S!StoreInv'
<1> USE DEF S!StoreInv, S!Images
<1>1. S!TypeOK /\ S!NoOp.base \in S!Images /\ S!NoOp.want \in Seq(S!Entries)
      /\ S!NoOp.kind = "none"
  BY NoEntries DEF S!NoOp, S!Absent
<1>2. S!Repaired(file) \in S!Images /\ S!Repaired(file).entries = file.entries
      /\ S!Repaired(file).tail # "bad"
      /\ (S!Repaired(file).tail = "absent" => S!Repaired(file) = S!Absent)
  BY <1>1 DEF S!TypeOK, S!ImagesInv, S!Repaired, S!Stored
<1>3. nextId' = nextId /\ nextId \in Nat
  BY <1>1, MaxEntriesAssumption
  DEF S!TypeOK, S!WriteBack, S!RepairFails, S!Close, S!Crash
<1>4. S!ImagesInv' /\ S!HistoryInv'
  <2>1. UNCHANGED << nextId, acked, refused, batches >>
    BY DEF S!WriteBack, S!RepairFails, S!Close, S!Crash, S!history
  <2>2. \A image \in survivors' : image \in survivors \/ image = S!Repaired(file)
    BY <1>1 DEF S!TypeOK, S!WriteBack, S!RepairFails, S!Close, S!Crash, S!disk
  <2>3. file \in survivors
    BY <1>1 DEF S!TypeOK
  <2>4. \A image \in survivors' : \E old \in survivors :
           /\ image.entries = old.entries
           /\ image.tail # "bad" /\ (image.tail = "absent" => image = S!Absent)
    BY <1>2, <2>2, <2>3 DEF S!ImagesInv
  <2>5. QED
    BY <2>1, <2>4, ImagesKept
<1>5. S!TypeOK'
  BY <1>1, <1>2, NoEntries, NoOpTyped
  DEF S!TypeOK, S!WriteBack, S!RepairFails, S!Close, S!Crash, S!Forget, S!disk,
      S!manager, S!history
<1>6. CASE S!Close \/ S!Crash
  BY <1>1, <1>3, <1>4, <1>5, <1>6, DownKept DEF S!Close, S!Crash, S!Forget
<1>7. CASE S!WriteBack \/ S!RepairFails
  <2>1. status = "down" /\ op = S!NoOp /\ UNCHANGED << status, mem, flushed, poisoned, op >>
    BY <1>7 DEF S!WriteBack, S!RepairFails, S!manager, S!OpInv
  <2>2. mem = << >> /\ flushed = FALSE /\ poisoned = FALSE
    BY <1>1, <2>1 DEF S!MemoryInv, S!TypeOK
  <2>3. QED
    BY <1>1, <1>3, <1>4, <1>5, <2>1, <2>2, DownKept
<1>8. QED
  BY <1>6, <1>7

LEMMA StoreOpen ==
  ASSUME S!StoreInv, S!Open
  PROVE  S!StoreInv'
<1> USE DEF S!StoreInv
<1>1. S!TypeOK /\ status = "down" /\ survivors = { file } /\ file \in S!Images
      /\ UNCHANGED << poisoned, nextId, acked, refused, batches >>
  BY DEF S!Open, S!TypeOK, S!history
<1>2. mem = << >> /\ flushed = FALSE /\ poisoned = FALSE /\ op = S!NoOp
      /\ op.kind = "none" /\ op.base = S!Absent /\ op.want = << >>
  BY <1>1 DEF S!MemoryInv, S!OpInv, S!TypeOK, S!NoOp
<1>3. /\ S!Sound(file.entries) /\ acked \subseteq S!Ids(file.entries)
      /\ file.tail # "bad" /\ (file.tail = "absent" => file = S!Absent)
  BY <1>1 DEF S!ImagesInv
<1>4. << S!Header >> \in Seq(S!Entries) /\ S!Ids(<< S!Header >>) = { 0 }
      /\ S!Increasing(<< S!Header >>)
  BY HeaderEntry, OneEntry
<1>5. nextId \in Nat /\ nextId >= 1
  BY <1>1, MaxEntriesAssumption DEF S!TypeOK
<1>6. S!Sound(<< S!Header >>)
  BY <1>4, <1>5 DEF S!Sound, S!HistoryInv
<1>7. CASE /\ file = S!Absent /\ status' = "open" /\ mem' = << S!Header >>
           /\ flushed' = FALSE /\ UNCHANGED << file, survivors, op >>
  <2>1. S!TypeOK'
    BY <1>1, <1>4, <1>7 DEF S!TypeOK
  <2>2. S!ImagesInv' /\ S!HistoryInv'
    BY <1>1, <1>3, <1>7, ImagesKept
  <2>3. S!MemoryInv'
    BY <1>1, <1>4, <1>5, <1>6, <1>7 DEF S!MemoryInv, S!Sound, S!HistoryInv
  <2>4. S!OpInv'
    BY <1>2, <1>7 DEF S!OpInv
  <2>5. S!MemoryMatchesFile'
    BY <1>1, <1>7 DEF S!MemoryMatchesFile
  <2>6. QED
    BY <2>1, <2>2, <2>3, <2>4, <2>5
<1>8. CASE /\ file = S!Stored(<< >>) /\ status' = "opening"
           /\ op' = [ kind |-> "replace", base |-> file, want |-> << S!Header >> ]
           /\ UNCHANGED << file, survivors, mem, flushed >>
  <2>1. S!TypeOK'
    BY <1>1, <1>4, <1>8 DEF S!TypeOK, S!Ops
  <2>2. S!ImagesInv' /\ S!HistoryInv'
    BY <1>1, <1>3, <1>8, ImagesKept
  <2>3. S!MemoryInv'
    BY <1>1, <1>2, <1>8, NoEntries DEF S!MemoryInv, S!Sound, S!HistoryInv
  <2>4. S!OpInv'
    <3>1. acked = { }
      BY <1>3, <1>8, NoEntries DEF S!Stored
    <3>2. op'.kind = "replace" /\ op'.base = file /\ op'.want = << S!Header >>
      BY <1>8
    <3>3. QED
      BY <1>1, <1>2, <1>6, <1>8, <3>1, <3>2 DEF S!OpInv, S!Sound
  <2>5. S!MemoryMatchesFile'
    BY <1>8 DEF S!MemoryMatchesFile, S!Writable
  <2>6. QED
    BY <2>1, <2>2, <2>3, <2>4, <2>5
<1>9. CASE /\ file.entries # << >> /\ S!Readable(file)
           /\ file' = S!Repaired(file) /\ survivors' = { file' }
           /\ status' = "open" /\ mem' = file.entries /\ flushed' = TRUE
           /\ UNCHANGED op
  <2>1. file.tail # "absent"
    BY <1>3, <1>9 DEF S!Absent
  <2>2. S!Repaired(file) = S!Stored(file.entries)
    BY <2>1 DEF S!Repaired
  <2>3. file' = S!Stored(file.entries) /\ file' \in S!Images
        /\ file'.entries = file.entries /\ file'.tail = "clean"
        /\ file.entries \in Seq(S!Entries)
    BY <1>1, <1>9, <2>2 DEF S!Stored, S!Images
  <2>4. S!TypeOK'
    BY <1>1, <1>9, <2>3 DEF S!TypeOK
  <2>5. S!ImagesInv' /\ S!HistoryInv'
    BY <1>1, <1>3, <1>9, <2>3, ImagesKept
  <2>6. S!MemoryInv'
    BY <1>1, <1>3, <1>9 DEF S!MemoryInv, S!Sound
  <2>7. S!OpInv'
    BY <1>2, <1>9 DEF S!OpInv
  <2>8. S!MemoryMatchesFile'
    BY <1>9, <2>3 DEF S!MemoryMatchesFile, S!Stored
  <2>9. QED
    BY <2>4, <2>5, <2>6, <2>7, <2>8
<1>10. CASE /\ status' = "refused"
            /\ UNCHANGED << file, survivors, mem, flushed, op >>
  <2>1. S!TypeOK'
    BY <1>1, <1>10 DEF S!TypeOK
  <2>2. S!ImagesInv' /\ S!HistoryInv'
    BY <1>1, <1>3, <1>10, ImagesKept
  <2>3. S!MemoryInv' /\ S!OpInv' /\ S!MemoryMatchesFile'
    BY <1>1, <1>2, <1>5, <1>10, <2>2, DownKept
  <2>4. QED
    BY <2>1, <2>2, <2>3
<1>11. QED
  BY <1>7, <1>8, <1>9, <1>10 DEF S!Open, S!disk

\* Memory and its new entries together are sound.
LEMMA WithFresh ==
  ASSUME S!StoreInv, NEW kinds \in Seq(S!Kinds), S!Writable,
         nextId + Len(kinds) <= MaxEntries + 1
  PROVE  /\ mem \o S!Fresh(kinds) \in Seq(S!Entries)
         /\ S!Ids(mem \o S!Fresh(kinds)) = S!Ids(mem) \cup S!Ids(S!Fresh(kinds))
         /\ S!Increasing(mem \o S!Fresh(kinds))
         /\ S!Ids(S!Fresh(kinds)) = nextId .. nextId + Len(kinds) - 1
         /\ S!Ids(mem) \subseteq 0 .. nextId - 1
         /\ nextId \in Nat /\ nextId >= 1 /\ Len(kinds) \in Nat
<1>1. nextId \in 1 .. MaxEntries + 1 /\ mem \in Seq(S!Entries)
      /\ nextId \in Nat /\ nextId >= 1 /\ Len(kinds) \in Nat
  BY MaxEntriesAssumption DEF S!StoreInv, S!TypeOK
<1>2. S!Ids(mem) \subseteq 0 .. nextId - 1 /\ S!Increasing(mem)
  BY DEF S!StoreInv, S!MemoryInv, S!Sound
<1>3. /\ S!Fresh(kinds) \in Seq(S!Entries)
      /\ S!Ids(S!Fresh(kinds)) = nextId .. nextId + Len(kinds) - 1
      /\ S!Increasing(S!Fresh(kinds))
  BY <1>1, FreshEntries
<1>4. mem \o S!Fresh(kinds) \in Seq(S!Entries)
  BY <1>1, <1>3, ConcatProperties
<1>5. S!Ids(mem \o S!Fresh(kinds)) = S!Ids(mem) \cup S!Ids(S!Fresh(kinds))
  BY <1>1, <1>3, IdsOfConcat
<1>6. \A x \in S!Ids(mem), y \in S!Ids(S!Fresh(kinds)) : x < y
  BY <1>1, <1>2, <1>3
<1>7. S!Increasing(mem \o S!Fresh(kinds))
  BY <1>1, <1>2, <1>3, <1>6, IncreasingConcat
<1>8. QED
  BY <1>1, <1>2, <1>3, <1>4, <1>5, <1>7

LEMMA StoreInMemory ==
  ASSUME S!StoreInv, NEW kinds \in Seq(S!Kinds), S!CommitInMemory(kinds)
  PROVE  S!StoreInv'
<1> DEFINE fresh == S!Fresh(kinds)
<1>1. /\ mem \o fresh \in Seq(S!Entries)
      /\ S!Ids(mem \o fresh) = S!Ids(mem) \cup S!Ids(fresh)
      /\ S!Increasing(mem \o fresh)
      /\ S!Ids(fresh) = nextId .. nextId + Len(kinds) - 1
      /\ S!Ids(mem) \subseteq 0 .. nextId - 1
      /\ nextId \in Nat /\ nextId >= 1 /\ Len(kinds) \in Nat
  BY WithFresh DEF S!CommitInMemory
<1> HIDE DEF fresh
<1>2. /\ S!Writable /\ ~flushed /\ nextId + Len(kinds) <= MaxEntries + 1
      /\ nextId' = nextId + Len(kinds) /\ mem' = mem \o fresh
      /\ UNCHANGED << file, survivors, status, flushed, poisoned, op, acked, refused, batches >>
  BY DEF S!CommitInMemory, S!disk, S!history, fresh
<1>3. status = "open" /\ op = S!NoOp /\ ~poisoned
  BY <1>2 DEF S!Writable
<1> USE DEF S!StoreInv
<1>4. S!TypeOK'
  BY <1>1, <1>2, MaxEntriesAssumption DEF S!TypeOK
<1>5. S!HistoryInv'
  BY <1>1, <1>2 DEF S!HistoryInv
<1>6. S!ImagesInv'
  <2>1. 0 .. nextId - 1 \subseteq 0 .. nextId' - 1
    BY <1>1, <1>2
  <2>2. \A image \in survivors : S!Ids(image.entries) \subseteq 0 .. nextId' - 1
    BY <2>1 DEF S!ImagesInv, S!Sound
  <2>3. QED
    BY <1>2, <2>2 DEF S!ImagesInv, S!Sound
<1>7. S!Ids(mem') = S!Ids(mem) \cup S!Ids(fresh) /\ S!Increasing(mem')
  BY <1>1, <1>2
<1>8. \A batch \in batches : batch \cap S!Ids(mem') = { }
  BY <1>1, <1>2, <1>7 DEF S!MemoryInv, S!HistoryInv
<1>9. refused \cap S!Ids(mem') = { } /\ S!Ids(mem') \subseteq 0 .. nextId' - 1
  BY <1>1, <1>2, <1>7 DEF S!MemoryInv, S!HistoryInv, S!Sound
<1>10. S!MemoryInv'
  BY <1>2, <1>3, <1>7, <1>8, <1>9 DEF S!MemoryInv, S!Sound
<1>11. S!OpInv'
  BY <1>2, <1>3 DEF S!OpInv, S!NoOp
<1>12. S!MemoryMatchesFile'
  BY <1>2, <1>3 DEF S!MemoryMatchesFile, S!Writable
<1>13. QED
  BY <1>4, <1>5, <1>6, <1>10, <1>11, <1>12

LEMMA StoreBegin ==
  ASSUME S!StoreInv, NEW kind \in { "append", "create", "replace" },
         NEW kinds \in Seq(S!Kinds), S!Begin(kind, kinds),
         kind = "create" <=> ~flushed, kind = "append" => Len(kinds) = 1
  PROVE  S!StoreInv'
<1> DEFINE fresh == S!Fresh(kinds)
           want == mem \o fresh
<1>1. /\ want \in Seq(S!Entries) /\ S!Ids(want) = S!Ids(mem) \cup S!Ids(fresh)
      /\ S!Increasing(want)
      /\ S!Ids(fresh) = nextId .. nextId + Len(kinds) - 1
      /\ S!Ids(mem) \subseteq 0 .. nextId - 1
      /\ nextId \in Nat /\ nextId >= 1 /\ Len(kinds) \in Nat
  BY WithFresh DEF S!Begin
<1>2. kind = "append" => \E entry \in S!Entries : want = Append(mem, entry)
  <2> SUFFICES ASSUME kind = "append"
               PROVE  \E entry \in S!Entries : want = Append(mem, entry)
    OBVIOUS
  <2>1. mem \in Seq(S!Entries) /\ nextId + 1 <= MaxEntries + 1
        /\ nextId \in 1 .. MaxEntries + 1
    BY DEF S!Begin, S!StoreInv, S!TypeOK
  <2>2. fresh \in Seq(S!Entries) /\ Len(fresh) = 1
    BY <2>1, FreshEntries DEF S!Fresh, S!Begin
  <2>3. PICK entry \in S!Entries : fresh = << entry >>
    BY <2>2, Singleton
  <2>4. mem \o << entry >> = Append(mem, entry)
    BY <2>1, AppendIsConcat
  <2>5. QED
    BY <2>3, <2>4
<1> HIDE DEF fresh, want
<1>3. /\ S!Writable /\ nextId + Len(kinds) <= MaxEntries + 1
      /\ nextId' = nextId + Len(kinds)
      /\ op' = [ kind |-> kind, base |-> file, want |-> want ]
      /\ batches' = IF kind = "replace" THEN batches \cup { S!Ids(fresh) } ELSE batches
      /\ UNCHANGED << file, survivors, status, mem, flushed, poisoned, acked, refused >>
  BY DEF S!Begin, S!disk, S!manager, fresh, want
<1>4. status = "open" /\ ~poisoned
  BY <1>3 DEF S!Writable
<1> USE DEF S!StoreInv
<1>5. S!TypeOK /\ file \in survivors /\ survivors = { IF flushed THEN S!Stored(mem) ELSE S!Absent }
  BY <1>3 DEF S!TypeOK, S!MemoryMatchesFile
<1>6. /\ op'.kind = kind /\ op'.base = file /\ op'.want = want
      /\ file = IF flushed THEN S!Stored(mem) ELSE S!Absent
      /\ S!Stored(mem).entries = mem /\ S!Absent.entries = << >>
  BY <1>3, <1>5 DEF S!Stored, S!Absent
<1>7. batches' \subseteq batches \cup { nextId .. nextId + Len(kinds) - 1 }
  BY <1>1, <1>3
<1>8. S!TypeOK'
  <2>1. nextId .. nextId + Len(kinds) - 1 \subseteq 0 .. MaxEntries
    BY <1>1, <1>3, MaxEntriesAssumption
  <2>2. batches' \subseteq SUBSET (0 .. MaxEntries)
    BY <1>5, <1>7, <2>1 DEF S!TypeOK
  <2>3. nextId' \in 1 .. MaxEntries + 1
    BY <1>1, <1>3, MaxEntriesAssumption
  <2>4. file \in S!Images
    BY <1>5 DEF S!TypeOK
  <2>5. QED
    BY <1>1, <1>3, <1>5, <1>6, <2>2, <2>3, <2>4 DEF S!TypeOK, S!Ops
<1>9. S!HistoryInv'
  <2>1. 1 .. nextId - 1 \subseteq 1 .. nextId' - 1
        /\ nextId .. nextId + Len(kinds) - 1 \subseteq 1 .. nextId' - 1
    BY <1>1, <1>3
  <2>2. QED
    BY <1>3, <1>7, <2>1 DEF S!HistoryInv
<1>10. /\ S!Ids(mem) \subseteq 0 .. nextId' - 1 /\ S!Ids(want) \subseteq 0 .. nextId' - 1
       /\ \A x \in S!Ids(fresh) : x \notin S!Ids(mem)
       /\ \A x \in S!Ids(fresh) : x \notin 1 .. nextId - 1
  BY <1>1, <1>3
<1>11. /\ refused \cap S!Ids(want) = { } /\ refused \cap S!Ids(mem) = { }
       /\ \A batch \in batches : /\ batch \subseteq S!Ids(mem) \/ batch \cap S!Ids(mem) = { }
                                 /\ batch \subseteq S!Ids(want) \/ batch \cap S!Ids(want) = { }
       /\ S!Increasing(mem)
  BY <1>1, <1>10 DEF S!MemoryInv, S!Sound, S!HistoryInv
<1>12. \A batch \in batches' :
         /\ batch \subseteq S!Ids(mem) \/ batch \cap S!Ids(mem) = { }
         /\ batch \subseteq S!Ids(want) \/ batch \cap S!Ids(want) = { }
  BY <1>1, <1>3, <1>10, <1>11, SMTT(30)
<1>13. S!ImagesInv'
  <2>1. \A image \in survivors :
          /\ image.entries = mem \/ image.entries = << >>
          /\ acked \subseteq S!Ids(image.entries)
          /\ image.tail # "bad" /\ (image.tail = "absent" => image = S!Absent)
    BY <1>5, <1>6 DEF S!ImagesInv
  <2>2. QED
    BY <1>3, <1>10, <1>11, <1>12, <2>1, NoEntries DEF S!ImagesInv, S!Sound
<1>14. S!MemoryInv'
  <2>1. ~flushed => batches' = batches
    BY <1>3
  <2>2. QED
    BY <1>3, <1>4, <1>10, <1>11, <1>12, <2>1 DEF S!MemoryInv, S!Sound
<1>15. S!OpInv'
  <2>1. S!Increasing(want) /\ refused \cap S!Ids(want) = { }
    BY <1>1, <1>11
  <2>2. ~flushed => \A batch \in batches' : batch \cap S!Ids(want) = { }
    BY <1>1, <1>3, <1>10 DEF S!MemoryInv, S!HistoryInv
  <2>3. acked \subseteq S!Ids(want)
    BY <1>1, <1>5, <1>6, NoEntries DEF S!ImagesInv
  <2>4. QED
    BY <1>2, <1>3, <1>4, <1>5, <1>6, <1>10, <1>12, <2>1, <2>2, <2>3
    DEF S!OpInv, S!Sound
<1>16. S!MemoryMatchesFile'
  <2>1. op' # S!NoOp
    BY <1>6 DEF S!NoOp
  <2>2. QED
    BY <2>1 DEF S!MemoryMatchesFile, S!Writable
<1>17. QED
  BY <1>8, <1>9, <1>13, <1>14, <1>15, <1>16

LEMMA StoreCommit ==
  ASSUME S!StoreInv, S!Commit
  PROVE  S!StoreInv'
<1>1. /\ << "message" >> \in Seq(S!Kinds) /\ << "note" >> \in Seq(S!Kinds)
      /\ << "input", "key" >> \in Seq(S!Kinds) /\ << "note", "note" >> \in Seq(S!Kinds)
      /\ Len(<< "message" >>) = 1 /\ Len(<< "note" >>) = 1
  BY DEF S!Kinds
<1>2. CASE S!CommitMessage
  <2>1. CASE flushed /\ S!Begin("append", << "message" >>)
    BY <1>1, <2>1, StoreBegin
  <2>2. CASE ~flushed /\ S!Begin("create", << "message" >>)
    BY <1>1, <2>2, StoreBegin
  <2>3. QED
    BY <1>2, <2>1, <2>2 DEF S!CommitMessage
<1>3. CASE S!CommitNote
  <2>1. CASE flushed /\ S!Begin("append", << "note" >>)
    BY <1>1, <2>1, StoreBegin
  <2>2. CASE S!CommitInMemory(<< "note" >>)
    BY <1>1, <2>2, StoreInMemory
  <2>3. QED
    BY <1>3, <2>1, <2>2 DEF S!CommitNote
<1>4. CASE S!CommitQueuedInput
  <2>1. CASE flushed /\ S!Begin("replace", << "input", "key" >>)
    BY <1>1, <2>1, StoreBegin
  <2>2. CASE ~flushed /\ S!Begin("create", << "input", "key" >>)
    BY <1>1, <2>2, StoreBegin
  <2>3. QED
    BY <1>4, <2>1, <2>2 DEF S!CommitQueuedInput
<1>5. CASE S!CommitDrafts
  <2>1. CASE flushed /\ S!Begin("replace", << "note", "note" >>)
    BY <1>1, <2>1, StoreBegin
  <2>2. CASE S!CommitInMemory(<< "note", "note" >>)
    BY <1>1, <2>2, StoreInMemory
  <2>3. QED
    BY <1>5, <2>1, <2>2 DEF S!CommitDrafts
<1>6. QED
  BY <1>2, <1>3, <1>4, <1>5 DEF S!Commit

\* The entries are in the file, and synced.
LEMMA StoreSucceeds ==
  ASSUME S!StoreInv, S!Succeed, op.kind # "none", file = S!Stored(op.want)
  PROVE  S!StoreInv'
<1> USE DEF S!StoreInv
<1>1. /\ survivors' = { file } /\ mem' = op.want /\ flushed' = TRUE
      /\ status' = "open" /\ acked' = acked \cup S!Ids(op.want) /\ op' = S!NoOp
      /\ UNCHANGED << file, poisoned, nextId, refused, batches >>
  BY DEF S!Succeed
<1>2. S!TypeOK /\ file \in survivors /\ file.entries = op.want /\ file.tail = "clean"
  BY DEF S!TypeOK, S!Stored
<1>3. S!Sound(op.want) /\ acked \subseteq S!Ids(op.want)
  BY <1>2 DEF S!ImagesInv
<1>4. op'.kind = "none" /\ op'.base = S!Absent /\ op'.want = << >>
      /\ S!Absent \in S!Images
  BY <1>1, NoEntries DEF S!NoOp, S!Absent, S!Images
<1>5. S!TypeOK'
  <2>1. S!Ids(op.want) \subseteq 0 .. MaxEntries
    BY <1>2, <1>3, MaxEntriesAssumption DEF S!Sound, S!TypeOK
  <2>2. QED
    BY <1>1, <1>2, <1>4, <2>1, NoEntries, NoOpTyped DEF S!TypeOK, S!Ops
<1>6. S!ImagesInv' /\ S!HistoryInv' /\ S!MemoryInv'
  BY <1>1, <1>2, <1>3 DEF S!ImagesInv, S!HistoryInv, S!MemoryInv, S!Sound
<1>7. S!OpInv' /\ S!MemoryMatchesFile'
  BY <1>1, <1>4 DEF S!OpInv, S!MemoryMatchesFile
<1>8. QED
  BY <1>5, <1>6, <1>7

\* An ordinary error, after which the file is as it was before.
LEMMA StoreFails ==
  ASSUME S!StoreInv, S!Fail, op.kind # "none", survivors' = { file' },
         status = "open" => file' = IF flushed THEN S!Stored(mem) ELSE S!Absent,
         status = "opening" => file' = file,
         \E old \in survivors : file'.entries = old.entries,
         file' \in S!Images
  PROVE  S!StoreInv'
<1> USE DEF S!StoreInv
<1>1. /\ status' = IF status = "opening" THEN "down" ELSE status
      /\ refused' = refused \cup S!New /\ op' = S!NoOp
      /\ UNCHANGED << mem, flushed, poisoned, nextId, acked, batches >>
  BY DEF S!Fail
<1>2. S!TypeOK /\ status \in { "opening", "open" } /\ S!Sound(op.want)
  BY DEF S!OpInv
<1>3. op'.kind = "none" /\ op'.base = S!Absent /\ op'.want = << >>
      /\ S!Absent \in S!Images
  BY <1>1, NoEntries DEF S!NoOp, S!Absent, S!Images
<1>4. S!New \subseteq 1 .. nextId - 1 /\ S!New \cap S!Ids(mem) = { }
      /\ nextId \in 1 .. MaxEntries + 1
  BY <1>2, HeaderEntry, MaxEntriesAssumption DEF S!New, S!Sound, S!TypeOK
<1>5. S!TypeOK'
  <2>1. refused' \subseteq 0 .. MaxEntries
    BY <1>1, <1>2, <1>4, MaxEntriesAssumption DEF S!TypeOK
  <2>2. QED
    BY <1>1, <1>2, <1>3, <2>1, NoEntries, NoOpTyped DEF S!TypeOK
<1>6. S!HistoryInv' /\ S!MemoryInv'
  BY <1>1, <1>2, <1>4 DEF S!HistoryInv, S!MemoryInv, S!Sound
<1>7. S!OpInv'
  BY <1>1, <1>2, <1>3 DEF S!OpInv
<1>8. S!MemoryMatchesFile'
  BY <1>1, <1>2 DEF S!MemoryMatchesFile, S!Writable
<1>9. CASE status = "open"
  <2>1. /\ file'.entries = mem \/ file'.entries = << >>
        /\ file'.tail # "bad" /\ (file'.tail = "absent" => file' = S!Absent)
    BY <1>9 DEF S!Stored, S!Absent
  <2>2. acked \subseteq S!Ids(file'.entries)
    BY DEF S!ImagesInv
  <2>3. S!ImagesInv'
    BY <1>1, <1>4, <1>6, <2>1, <2>2, NoEntries
    DEF S!ImagesInv, S!MemoryInv, S!Sound
  <2>4. QED
    BY <1>5, <1>6, <1>7, <1>8, <2>3
<1>10. CASE status = "opening"
  <2>1. S!New = { }
    <3>1. op.want = << S!Header >>
      BY <1>10 DEF S!OpInv
    <3>2. S!Ids(op.want) = { 0 }
      BY <3>1, HeaderEntry, OneEntry
    <3>3. QED
      BY <3>2, HeaderEntry DEF S!New
  <2>2. refused' = refused /\ survivors' \subseteq survivors
    BY <1>1, <1>2, <1>10, <2>1 DEF S!TypeOK
  <2>3. S!ImagesInv'
    BY <1>1, <2>2, ImagesKept DEF S!ImagesInv
  <2>4. QED
    BY <1>5, <1>6, <1>7, <1>8, <2>3
<1>11. QED
  BY <1>2, <1>9, <1>10

\* Nobody knows what the file is: it may be any of the survivors.
LEMMA StorePoisoned ==
  ASSUME S!StoreInv, S!Poison, op.kind # "none", survivors' = survivors,
         file' \in survivors
  PROVE  S!StoreInv'
<1> USE DEF S!StoreInv
<1>1. /\ status' = IF status = "opening" THEN "down" ELSE status
      /\ poisoned' = (status # "opening") /\ op' = S!NoOp
      /\ UNCHANGED << mem, flushed, nextId, acked, refused, batches >>
  BY DEF S!Poison, S!history
<1>2. S!TypeOK /\ status \in { "opening", "open" }
  BY DEF S!OpInv
<1>3. op'.kind = "none" /\ op'.base = S!Absent /\ op'.want = << >>
      /\ S!Absent \in S!Images
  BY <1>1, NoEntries DEF S!NoOp, S!Absent, S!Images
<1>4. S!TypeOK'
  BY <1>1, <1>2, <1>3, NoEntries, NoOpTyped DEF S!TypeOK
<1>5. S!ImagesInv' /\ S!HistoryInv'
  BY <1>1, ImagesKept DEF S!ImagesInv
<1>6. S!MemoryInv'
  BY <1>1, <1>2 DEF S!MemoryInv, S!Sound
<1>7. S!OpInv' /\ S!MemoryMatchesFile'
  BY <1>1, <1>2, <1>3 DEF S!OpInv, S!MemoryMatchesFile, S!Writable
<1>8. QED
  BY <1>4, <1>5, <1>6, <1>7

-----------------------------------------------------------------------------
(* The session store: writing.                                             *)

\* What a write that is cut short leaves behind what was there.
LEMMA CutShort ==
  ASSUME NEW base \in Seq(S!Entries), NEW entries \in Seq(S!Entries),
         NEW image, image \in S!WritePrefixes(base, entries)
  PROVE  /\ image \in S!Images /\ image.tail \in { "clean", "nonl", "torn" }
         /\ base = << >> =>
              /\ S!Ids(image.entries) \subseteq S!Ids(entries)
              /\ S!Increasing(entries) => S!Increasing(image.entries)
         /\ Len(entries) = 1 =>
              image.entries = base \/ image.entries = base \o entries
<1> DEFINE Cut(k, tail) ==
             [ entries |-> base \o SubSeq(entries, 1, k), tail |-> tail ]
<1>1. \/ image \in { Cut(k, "clean") : k \in 0 .. Len(entries) }
      \/ image \in { Cut(k, "nonl") : k \in 1 .. Len(entries) }
      \/ image \in { Cut(k, "torn") : k \in 0 .. Len(entries) - 1 }
  BY Zenon DEF S!WritePrefixes
<1> HIDE DEF Cut
<1>2. \E k \in 0 .. Len(entries) :
        \E tail \in { "clean", "nonl", "torn" } : image = Cut(k, tail)
  BY <1>1
<1>3. PICK k \in 0 .. Len(entries) :
        \E tail \in { "clean", "nonl", "torn" } : image = Cut(k, tail)
  BY <1>2
<1>4. PICK tail \in { "clean", "nonl", "torn" } : image = Cut(k, tail)
  BY <1>3
<1>5. /\ image = [ entries |-> base \o SubSeq(entries, 1, k), tail |-> tail ]
      /\ base \o SubSeq(entries, 1, k) \in Seq(S!Entries)
  BY <1>4, PrefixOfEntries, ConcatProperties DEF Cut
<1>6. ASSUME base = << >>
      PROVE  /\ S!Ids(image.entries) \subseteq S!Ids(entries)
             /\ S!Increasing(entries) => S!Increasing(image.entries)
  <2>1. /\ SubSeq(entries, 1, k) \in Seq(S!Entries)
        /\ S!Ids(SubSeq(entries, 1, k)) \subseteq S!Ids(entries)
        /\ S!Increasing(entries) => S!Increasing(SubSeq(entries, 1, k))
    BY PrefixOfEntries
  <2>2. image.entries = SubSeq(entries, 1, k)
    BY <1>5, <1>6, <2>1, EmptyUnit
  <2>3. QED
    BY <2>1, <2>2
<1>7. ASSUME Len(entries) = 1
      PROVE  image.entries = base \/ image.entries = base \o entries
  <2>1. PICK entry \in S!Entries : entries = << entry >>
    BY <1>7, Singleton
  <2>2. SubSeq(entries, 1, 1) = entries
    BY <2>1, WholeOfOne
  <2>3. SubSeq(entries, 1, 0) = << >> /\ base \o << >> = base
    BY EmptyUnit
  <2>4. k = 0 \/ k = 1
    BY <1>7
  <2>5. image.entries = base \o SubSeq(entries, 1, k)
    BY <1>5
  <2>6. QED
    BY <2>2, <2>3, <2>4, <2>5, Zenon
<1>8. QED
  BY <1>5, <1>6, <1>7 DEF S!Images

LEMMA StoreWrites ==
  ASSUME S!StoreInv, op.kind # "none",
         NEW to \in { "appending", "creating", "replacing" },
         op' = [ op EXCEPT !.kind = to ],
         UNCHANGED << status, mem, flushed, poisoned, nextId, acked, refused, batches >>,
         file' \in survivors',
         \A image \in survivors' :
           /\ image \in S!Images /\ image.tail # "bad"
           /\ image.tail = "absent" => image = S!Absent
           /\ S!Sound(image.entries) /\ acked \subseteq S!Ids(image.entries),
         S!OpInv'
  PROVE  S!StoreInv'
<1> USE DEF S!StoreInv
<1>1. op'.kind = to /\ op'.base = op.base /\ op'.want = op.want
  BY DEF S!TypeOK, S!Ops
<1>2. S!TypeOK'
  <2>1. op' \in S!Ops
    BY DEF S!TypeOK, S!Ops
  <2>2. QED
    BY <2>1 DEF S!TypeOK
<1>3. S!ImagesInv' /\ S!HistoryInv' /\ S!MemoryInv'
  BY DEF S!ImagesInv, S!HistoryInv, S!MemoryInv, S!Sound
<1>4. op' # S!NoOp
  BY <1>1 DEF S!NoOp
<1>5. S!MemoryMatchesFile'
  BY <1>4 DEF S!MemoryMatchesFile, S!Writable
<1>6. QED
  BY <1>2, <1>3, <1>5

LEMMA StoreAppends ==
  ASSUME S!StoreInv, S!AppendWrite
  PROVE  S!StoreInv'
<1> USE DEF S!StoreInv
<1>1. /\ op.kind = "append" /\ op' = [ op EXCEPT !.kind = "appending" ]
      /\ survivors' = S!AppendPrefixes(file, op.want[Len(op.want)])
      /\ file' \in survivors'
      /\ UNCHANGED << status, mem, flushed, poisoned, nextId, acked, refused, batches >>
  BY DEF S!AppendWrite, S!Step, S!manager, S!history
<1>2. PICK entry \in S!Entries : op.want = Append(mem, entry)
  BY <1>1 DEF S!OpInv
<1>3. /\ survivors = { file } /\ op.base = file /\ file = S!Stored(mem) /\ flushed
      /\ status \in { "opening", "open" } /\ ~poisoned /\ S!Sound(op.want)
  BY <1>1 DEF S!OpInv
<1>4. mem \in Seq(S!Entries) /\ op.want[Len(op.want)] = entry
      /\ op.want \in Seq(S!Entries) /\ op.want = mem \o << entry >>
      /\ << entry >> \in Seq(S!Entries) /\ Len(<< entry >>) = 1
  BY <1>2 DEF S!TypeOK
<1>5. file.entries = mem /\ file.tail = "clean"
  BY <1>3 DEF S!Stored
<1>6. S!Appended(file, entry) = S!Stored(op.want)
  BY <1>2, <1>5 DEF S!Appended
<1>7. ASSUME NEW image \in survivors'
      PROVE  /\ image.entries = mem \/ image.entries = op.want
             /\ image.tail \in { "clean", "nonl", "torn" }
             /\ image \in S!Images
  <2>1. CASE image \in { file, S!Appended(file, entry) }
    <3>1. image = S!Stored(mem) \/ image = S!Stored(op.want)
      BY <1>3, <1>6, <2>1, Zenon
    <3>2. /\ S!Stored(mem) \in S!Images /\ S!Stored(mem).entries = mem
          /\ S!Stored(op.want) \in S!Images /\ S!Stored(op.want).entries = op.want
          /\ S!Stored(mem).tail = "clean" /\ S!Stored(op.want).tail = "clean"
      BY <1>4 DEF S!Stored, S!Images
    <3>3. QED
      BY <3>1, <3>2, Zenon
  <2>2. CASE image \in S!WritePrefixes(mem, << entry >>)
    <3>1. PICK one \in Seq(S!Entries) : one = << entry >>
      BY <1>4, Zenon
    <3>2. Len(one) = 1 /\ op.want = mem \o one /\ image \in S!WritePrefixes(mem, one)
      BY <1>4, <2>2, <3>1, Zenon
    <3>3. QED
      BY <1>4, <3>2, CutShort
  <2>3. file.tail \notin { "nonl", "torn" }
    BY <1>5
  <2>4. survivors' = { file, S!Appended(file, entry) }
                       \cup S!WritePrefixes(mem, << entry >>)
    BY <1>1, <1>4, <1>5, <2>3, Zenon DEF S!AppendPrefixes
  <2>5. QED
    BY <2>1, <2>2, <2>4, Zenon
<1>8. S!Sound(mem) /\ acked \subseteq S!Ids(mem) /\ acked \subseteq S!Ids(op.want)
  <2>1. S!Sound(mem) /\ acked \subseteq S!Ids(mem)
    BY <1>3, <1>5 DEF S!ImagesInv
  <2>2. S!Ids(op.want) = S!Ids(mem) \cup S!Ids(<< entry >>)
    BY <1>4, IdsOfConcat
  <2>3. QED
    BY <2>1, <2>2
<1>9. op'.kind = "appending" /\ op'.base = op.base /\ op'.want = op.want
  BY <1>1 DEF S!TypeOK, S!Ops
<1>10. file \in survivors'
  BY <1>1 DEF S!AppendPrefixes
<1>11. S!OpInv'
  BY <1>1, <1>2, <1>3, <1>9, <1>10 DEF S!OpInv, S!Sound
<1>12. QED
  BY <1>1, <1>3, <1>7, <1>8, <1>11, StoreWrites

LEMMA StoreCreates ==
  ASSUME S!StoreInv, S!CreateWrite
  PROVE  S!StoreInv'
<1> USE DEF S!StoreInv
<1>1. /\ op.kind = "create" /\ op' = [ op EXCEPT !.kind = "creating" ]
      /\ survivors' = { S!Absent } \cup S!WritePrefixes(<< >>, op.want)
      /\ file' \in survivors'
      /\ UNCHANGED << status, mem, flushed, poisoned, nextId, acked, refused, batches >>
  BY DEF S!CreateWrite, S!Step, S!manager, S!history
<1>2. /\ status = "open" /\ ~flushed /\ ~poisoned /\ S!Sound(op.want)
      /\ op.base = S!Absent /\ S!Absent \in survivors
      /\ \A batch \in batches : batch \cap S!Ids(op.want) = { }
  BY <1>1 DEF S!OpInv
<1>3. op.want \in Seq(S!Entries) /\ Len(op.want) \in Nat
  BY DEF S!TypeOK, S!Ops
<1>4. S!Absent \in S!Images /\ S!Absent.entries = << >> /\ acked = { }
      /\ S!Absent.tail = "absent"
  BY <1>2, NoEntries DEF S!Absent, S!Images, S!ImagesInv
<1>5. ASSUME NEW image \in S!WritePrefixes(<< >>, op.want)
      PROVE  /\ image \in S!Images /\ image.tail \in { "clean", "nonl", "torn" }
             /\ S!Sound(image.entries)
  <2>1. /\ image \in S!Images /\ image.tail \in { "clean", "nonl", "torn" }
        /\ S!Ids(image.entries) \subseteq S!Ids(op.want)
        /\ S!Increasing(image.entries)
    BY <1>2, <1>3, NoEntries, CutShort DEF S!Sound
  <2>2. S!Sound(image.entries)
    BY <1>2, <2>1 DEF S!Sound
  <2>3. QED
    BY <2>1, <2>2
<1>6. S!Sound(<< >>)
  BY NoEntries DEF S!Sound
<1>7. op'.kind = "creating" /\ op'.base = op.base /\ op'.want = op.want
  BY <1>1 DEF S!TypeOK, S!Ops
<1>8. S!OpInv'
  BY <1>1, <1>2, <1>7 DEF S!OpInv, S!Sound
<1>9. QED
  BY <1>1, <1>4, <1>5, <1>6, <1>8, StoreWrites

LEMMA StoreReplaces ==
  ASSUME S!StoreInv, S!ReplaceRename
  PROVE  S!StoreInv'
<1> USE DEF S!StoreInv
<1>1. /\ op.kind = "replace" /\ op' = [ op EXCEPT !.kind = "replacing" ]
      /\ file' = S!Stored(op.want) /\ survivors' = { file, file' }
      /\ UNCHANGED << status, mem, flushed, poisoned, nextId, acked, refused, batches >>
  BY DEF S!ReplaceRename, S!Step, S!manager, S!history
<1>2. /\ survivors = { file } /\ op.base = file /\ S!Sound(op.want) /\ ~poisoned
      /\ status \in { "opening", "open" }
  BY <1>1 DEF S!OpInv
<1>3. op'.kind = "replacing" /\ op'.base = op.base /\ op'.want = op.want
  BY <1>1 DEF S!TypeOK, S!Ops
<1>4. file'.entries = op.want /\ file'.tail = "clean" /\ file' \in S!Images
  BY <1>1 DEF S!Stored, S!Images, S!TypeOK, S!Ops
<1>5. /\ file \in S!Images /\ S!Sound(file.entries) /\ acked \subseteq S!Ids(file.entries)
      /\ file.tail # "bad" /\ (file.tail = "absent" => file = S!Absent)
  BY <1>2 DEF S!ImagesInv, S!TypeOK
<1>6. acked \subseteq S!Ids(op.want)
  BY <1>1 DEF S!OpInv
<1>7. S!OpInv'
  BY <1>1, <1>2, <1>3 DEF S!OpInv, S!Sound
<1>8. QED
  BY <1>1, <1>2, <1>4, <1>5, <1>6, <1>7, StoreWrites

LEMMA StoreEnds ==
  ASSUME S!StoreInv, S!Store
  PROVE  S!StoreInv'
<1> USE DEF S!StoreInv
<1>1. CASE S!AppendWrite \/ S!CreateWrite \/ S!ReplaceRename
  BY <1>1, StoreAppends, StoreCreates, StoreReplaces
<1>2. S!TypeOK /\ file \in survivors /\ file \in S!Images /\ op.base \in S!Images
      /\ mem \in Seq(S!Entries) /\ op.want \in Seq(S!Entries) /\ S!Absent \in S!Images
  BY NoEntries DEF S!TypeOK, S!Ops, S!Absent, S!Images
<1>3. CASE S!AppendSynced
  <2>1. /\ op.base = S!Stored(mem)
        /\ \E entry \in S!Entries : op.want = Append(mem, entry)
    BY <1>3 DEF S!AppendSynced, S!OpInv
  <2>2. PICK entry \in S!Entries : op.want = Append(mem, entry)
    BY <2>1
  <2>3. op.want[Len(op.want)] = entry
    BY <1>2, <2>2
  <2>4. S!Appended(op.base, entry) = S!Stored(op.want)
    BY <2>1, <2>2 DEF S!Appended, S!Stored
  <2>5. QED
    BY <1>3, <2>3, <2>4, StoreSucceeds DEF S!AppendSynced
<1>4. CASE S!CreateSynced \/ S!ReplaceSynced
  <2>1. op.kind # "none" /\ file = S!Stored(op.want) /\ S!Succeed
    BY <1>4 DEF S!CreateSynced, S!ReplaceSynced, S!OpInv
  <2>2. QED
    BY <2>1, StoreSucceeds
<1>5. CASE S!AppendUndone \/ S!CreateUndone \/ S!ReplaceFails
  <2>1. S!Fail /\ op.kind # "none" /\ survivors' = { file' }
    BY <1>5 DEF S!AppendUndone, S!CreateUndone, S!ReplaceFails, S!OpInv, S!disk
  <2>2. status = "open" => file' = IF flushed THEN S!Stored(mem) ELSE S!Absent
    BY <1>5 DEF S!AppendUndone, S!CreateUndone, S!ReplaceFails, S!OpInv, S!disk
  <2>3. status = "opening" => file' = file
    BY <1>5 DEF S!AppendUndone, S!CreateUndone, S!ReplaceFails, S!OpInv, S!disk
  <2>4. file' \in survivors
    BY <1>2, <1>5 DEF S!AppendUndone, S!CreateUndone, S!ReplaceFails, S!OpInv, S!disk
  <2>5. file' \in S!Images
    BY <1>2, <2>4 DEF S!TypeOK
  <2>6. QED
    BY <2>1, <2>2, <2>3, <2>4, <2>5, StoreFails
<1>6. CASE S!AppendUndoFails \/ S!CreateUncertain \/ S!ReplaceUncertain
  <2>1. S!Poison /\ op.kind # "none" /\ survivors' = survivors
    BY <1>6 DEF S!AppendUndoFails, S!CreateUncertain, S!ReplaceUncertain, S!disk
  <2>2. file' \in survivors
    BY <1>2, <1>6
    DEF S!AppendUndoFails, S!CreateUncertain, S!ReplaceUncertain, S!OpInv, S!disk
  <2>3. QED
    BY <2>1, <2>2, StorePoisoned
<1>7. QED
  BY <1>1, <1>3, <1>4, <1>5, <1>6 DEF S!Store

LEMMA StoreStep == S!StoreInv /\ [S!Next]_storeVars => S!StoreInv'
<1> SUFFICES ASSUME S!StoreInv, [S!Next]_storeVars
             PROVE  S!StoreInv'
  OBVIOUS
<1>1. CASE S!WriteBack \/ S!RepairFails \/ S!Close \/ S!Crash
  BY <1>1, StoreClosing
<1>2. CASE S!Open
  BY <1>2, StoreOpen
<1>3. CASE S!Commit
  BY <1>3, StoreCommit
<1>4. CASE S!Store
  BY <1>4, StoreEnds
<1>5. CASE UNCHANGED storeVars
  BY <1>5
  DEF storeVars, S!StoreInv, S!TypeOK, S!ImagesInv, S!HistoryInv, S!MemoryInv,
      S!OpInv, S!MemoryMatchesFile, S!Writable, S!Sound
<1>6. QED
  BY <1>1, <1>2, <1>3, <1>4, <1>5 DEF S!Next

\* For any number of entries, whatever steps fail and whenever the process or
\* the machine stops: what the session file holds afterwards is what callers
\* were told.  All that was reported as stored is there, in order and in a file
\* that can be opened; nothing that was refused; no half of a batch; and between
\* two calls the file is what the session has in memory.
THEOREM StoreKeepsPromises == Spec => []CrashesKeepPromises
<1>1. Init => S!StoreInv
  BY StoreInit DEF Init
<1>2. S!StoreInv /\ [Next]_vars => S!StoreInv'
  BY StoreStep DEF Next, vars, storeVars
<1>3. S!StoreInv => CrashesKeepPromises
  <2> SUFFICES ASSUME S!StoreInv
               PROVE  S!CrashesKeepPromises
    BY DEF CrashesKeepPromises
  <2>1. ASSUME NEW image \in survivors
        PROVE  /\ acked \subseteq S!Ids(image.entries)
               /\ acked # { } => S!Readable(image)
               /\ S!Increasing(image.entries)
    BY NoEntries DEF S!StoreInv, S!ImagesInv, S!Sound, S!Readable
  <2>2. S!RefusedLeavesNoTrace /\ S!BatchesAreAtomic /\ S!MemoryMatchesFile
    BY DEF S!StoreInv, S!ImagesInv, S!Sound, S!RefusedLeavesNoTrace, S!BatchesAreAtomic
  <2>3. QED
    BY <2>1, <2>2 DEF S!CrashesKeepPromises, S!AcknowledgedSurvives
<1>4. QED
  BY <1>1, <1>2, <1>3, PTL DEF Spec

-----------------------------------------------------------------------------
(* The inbox of a web session.                                             *)

\* The same items in the same places.
SameItems(d, e) ==
  /\ e \in W!DataType /\ e.paused = d.paused /\ DOMAIN e.items = DOMAIN d.items
  /\ \A n \in DOMAIN d.items : e.items[n].id = d.items[n].id

\* As before, but that the items of one id have a status.
SetTo(d, e, i, v) ==
  /\ SameItems(d, e)
  /\ \A n \in DOMAIN d.items :
       e.items[n].status = IF d.items[n].id = i THEN v ELSE d.items[n].status

SameStatuses(d, e) ==
  /\ SameItems(d, e)
  /\ \A n \in DOMAIN d.items : e.items[n].status = d.items[n].status

LEMMA ItemsOf ==
  ASSUME NEW d \in W!DataType
  PROVE  /\ d.paused \in BOOLEAN /\ d.items \in Seq(W!ItemType)
         /\ \A n \in DOMAIN d.items :
              /\ d.items[n] \in W!ItemType
              /\ d.items[n].id \in Items /\ d.items[n].status \in W!Statuses
<1>1. d.paused \in BOOLEAN /\ d.items \in Seq(W!ItemType)
  BY DEF W!DataType
<1>2. ASSUME NEW n \in DOMAIN d.items
      PROVE  d.items[n] \in W!ItemType
  BY <1>1
<1>3. ASSUME NEW x \in W!ItemType
      PROVE  x.id \in Items /\ x.status \in W!Statuses
  BY DEF W!ItemType
<1>4. QED
  BY <1>1, <1>2, <1>3

\* What an edit gives is data, if it gives items.
LEMMA EditedData ==
  ASSUME NEW d \in W!DataType, NEW g \in [ DOMAIN d.items -> W!ItemType ]
  PROVE  /\ [ d EXCEPT !.items = g ] \in W!DataType
         /\ [ d EXCEPT !.items = g ].items = g
         /\ [ d EXCEPT !.items = g ].paused = d.paused
<1>1. PICK m \in Nat : DOMAIN d.items = 1 .. m
  BY ItemsOf
<1>2. g \in Seq(W!ItemType)
  BY <1>1, IsASeq
<1>3. QED
  BY <1>2 DEF W!DataType

LEMMA LoadedData ==
  ASSUME NEW d \in W!DataType
  PROVE  SameStatuses(d, W!Loaded(d))
<1> DEFINE g == [ n \in DOMAIN d.items |->
                    IF d.items[n].id \in Items
                    THEN IF d.items[n].status = "delivering"
                         THEN [ d.items[n] EXCEPT !.uncertain = TRUE ]
                         ELSE d.items[n]
                    ELSE d.items[n] ]
<1>1. W!Loaded(d) = [ d EXCEPT !.items = g ]
  BY DEF W!Loaded, W!Edit, W!IsOut
<1>2. g \in [ DOMAIN d.items -> W!ItemType ]
  BY ItemsOf DEF W!ItemType
<1>3. \A n \in DOMAIN d.items : g[n].id = d.items[n].id /\ g[n].status = d.items[n].status
  BY ItemsOf DEF W!ItemType
<1> HIDE DEF g
<1>4. QED
  BY <1>1, <1>2, <1>3, EditedData DEF SameStatuses, SameItems

LEMMA ConvertedData ==
  ASSUME NEW d \in W!DataType
  PROVE  \A e : e = W!Edit(d, Items, LAMBDA x :
               IF W!IsPending(x) /\ x.delivery = "direct"
               THEN [ x EXCEPT !.delivery = "queue" ] ELSE x)
           => SameStatuses(d, e)
<1> DEFINE g == [ n \in DOMAIN d.items |->
                    IF d.items[n].id \in Items
                    THEN IF d.items[n].status = "pending" /\ d.items[n].delivery = "direct"
                         THEN [ d.items[n] EXCEPT !.delivery = "queue" ]
                         ELSE d.items[n]
                    ELSE d.items[n] ]
<1>1. W!Edit(d, Items, LAMBDA x :
               IF W!IsPending(x) /\ x.delivery = "direct"
               THEN [ x EXCEPT !.delivery = "queue" ] ELSE x) = [ d EXCEPT !.items = g ]
  BY DEF W!Edit, W!IsPending
<1>2. g \in [ DOMAIN d.items -> W!ItemType ]
  BY ItemsOf DEF W!ItemType, W!Deliveries
<1>3. \A n \in DOMAIN d.items : g[n].id = d.items[n].id /\ g[n].status = d.items[n].status
  BY ItemsOf DEF W!ItemType
<1> HIDE DEF g
<1>4. PICK f \in W!DataType : f = [ d EXCEPT !.items = g ] /\ f.items = g /\ f.paused = d.paused
  BY <1>2, EditedData
<1>5. SameStatuses(d, f)
  BY <1>2, <1>3, <1>4 DEF SameStatuses, SameItems
<1>6. QED
  BY <1>1, <1>4, <1>5, Zenon

LEMMA StatusData ==
  ASSUME NEW d \in W!DataType, NEW i, NEW v \in W!Statuses
  PROVE  \A e : e = W!Edit(d, { i }, LAMBDA x : [ x EXCEPT !.status = v ])
           => SetTo(d, e, i, v)
<1> DEFINE g == [ n \in DOMAIN d.items |->
                    IF d.items[n].id \in { i }
                    THEN [ d.items[n] EXCEPT !.status = v ]
                    ELSE d.items[n] ]
<1>1. W!Edit(d, { i }, LAMBDA x : [ x EXCEPT !.status = v ]) = [ d EXCEPT !.items = g ]
  BY DEF W!Edit
<1>2. g \in [ DOMAIN d.items -> W!ItemType ]
  BY ItemsOf DEF W!ItemType
<1>3. \A n \in DOMAIN d.items :
        /\ g[n].id = d.items[n].id
        /\ g[n].status = IF d.items[n].id = i THEN v ELSE d.items[n].status
  BY ItemsOf DEF W!ItemType
<1> HIDE DEF g
<1>4. PICK f \in W!DataType : f = [ d EXCEPT !.items = g ] /\ f.items = g /\ f.paused = d.paused
  BY <1>2, EditedData
<1>5. SetTo(d, f, i, v)
  BY <1>2, <1>3, <1>4 DEF SetTo, SameItems
<1>6. QED
  BY <1>1, <1>4, <1>5, Zenon

LEMMA OutcomeData ==
  ASSUME NEW d \in W!DataType, NEW i, NEW v \in W!Statuses, NEW u \in BOOLEAN
  PROVE  \A e : e = W!Edit(d, { i }, LAMBDA x : [ x EXCEPT !.status = v, !.uncertain = u ])
           => SetTo(d, e, i, v)
<1> DEFINE g == [ n \in DOMAIN d.items |->
                    IF d.items[n].id \in { i }
                    THEN [ d.items[n] EXCEPT !.status = v, !.uncertain = u ]
                    ELSE d.items[n] ]
<1>1. W!Edit(d, { i }, LAMBDA x : [ x EXCEPT !.status = v, !.uncertain = u ])
        = [ d EXCEPT !.items = g ]
  BY DEF W!Edit
<1>2. g \in [ DOMAIN d.items -> W!ItemType ]
  BY ItemsOf DEF W!ItemType
<1>3. \A n \in DOMAIN d.items :
        /\ g[n].id = d.items[n].id
        /\ g[n].status = IF d.items[n].id = i THEN v ELSE d.items[n].status
  BY ItemsOf DEF W!ItemType
<1> HIDE DEF g
<1>4. PICK f \in W!DataType : f = [ d EXCEPT !.items = g ] /\ f.items = g /\ f.paused = d.paused
  BY <1>2, EditedData
<1>5. SetTo(d, f, i, v)
  BY <1>2, <1>3, <1>4 DEF SetTo, SameItems
<1>6. QED
  BY <1>1, <1>4, <1>5, Zenon

-----------------------------------------------------------------------------
(* What a reader of the data sees.                                         *)

AnyAt(d, s) == \E n \in DOMAIN d.items : d.items[n].status = s

\* The same inputs, at the same statuses.
SameInputs(d, e) ==
  /\ e \in W!DataType
  /\ \A i : W!Has(e, i) <=> W!Has(d, i)
  /\ \A i, T : W!IsAt(e, i, T) <=> W!IsAt(d, i, T)
Alike(d, e) ==
  /\ SameInputs(d, e)
  /\ e.paused = d.paused /\ \A s : AnyAt(e, s) <=> AnyAt(d, s)

\* The other inputs are as they were, and this one is not lost.
Alters(d, e, i) ==
  /\ e \in W!DataType
  /\ \A j : j # i => /\ W!Has(e, j) <=> W!Has(d, j)
                     /\ \A T : W!IsAt(e, j, T) <=> W!IsAt(d, j, T)
  /\ W!Has(d, i) => W!Has(e, i)

LEMMA AlikeIfSame ==
  ASSUME NEW d, NEW e, SameStatuses(d, e)
  PROVE  Alike(d, e)
BY DEF SameStatuses, SameItems, Alike, SameInputs, W!Has, W!IsAt, AnyAt

LEMMA AlikeTwice ==
  ASSUME NEW d, NEW e, NEW f, Alike(d, e), Alike(e, f)
  PROVE  Alike(d, f)
BY Zenon DEF Alike, SameInputs

LEMMA SeenAfterSet ==
  ASSUME NEW d, NEW e, NEW i, NEW v, SetTo(d, e, i, v)
  PROVE  /\ Alters(d, e, i) /\ e.paused = d.paused
         /\ \A T : W!IsAt(e, i, T) => v \in T
         /\ W!Has(d, i) => /\ AnyAt(e, v)
                           /\ \A T : v \in T => W!IsAt(e, i, T)
BY DEF SetTo, SameItems, Alters, W!Has, W!IsAt, AnyAt

LEMMA SeenAfterChange ==
  ASSUME NEW d \in W!DataType, NEW i, NEW edit \in { "remove", "retry", "steer" }
  PROVE  \A e : e = [ W!Edit(d, { i }, LAMBDA x : W!Changed(x, edit)) EXCEPT
                        !.paused = @ /\ edit # "retry" ]
                => Alters(d, e, i)
<1> DEFINE g == [ n \in DOMAIN d.items |->
                    IF d.items[n].id \in { i } THEN W!Changed(d.items[n], edit)
                                              ELSE d.items[n] ]
<1>1. W!Edit(d, { i }, LAMBDA x : W!Changed(x, edit)) = [ d EXCEPT !.items = g ]
  BY DEF W!Edit
<1>2. g \in [ DOMAIN d.items -> W!ItemType ]
  <2>1. ASSUME NEW x \in W!ItemType
        PROVE  W!Changed(x, edit) \in W!ItemType
    BY DEF W!ItemType, W!Changed, W!Statuses, W!Deliveries
  <2>2. QED
    BY <2>1, ItemsOf
<1>3. \A n \in DOMAIN d.items :
        /\ g[n].id = d.items[n].id
        /\ d.items[n].id # i => g[n].status = d.items[n].status
  BY ItemsOf DEF W!ItemType, W!Changed
<1> HIDE DEF g
<1>4. PICK f \in W!DataType : f = [ d EXCEPT !.items = g ] /\ f.items = g
  BY <1>2, EditedData
<1>5. f = W!Edit(d, { i }, LAMBDA x : W!Changed(x, edit))
  BY <1>1, <1>4, Zenon
<1>6. PICK h \in W!DataType : h = [ f EXCEPT !.paused = @ /\ edit # "retry" ] /\ h.items = g
  <2>1. PICK v \in BOOLEAN : v = (f.paused /\ edit # "retry")
    BY <1>4, ItemsOf
  <2>2. [ f EXCEPT !.paused = v ] \in W!DataType /\ [ f EXCEPT !.paused = v ].items = g
    BY <1>4, <2>1 DEF W!DataType
  <2>3. QED
    BY <2>1, <2>2, Zenon
<1>7. h = [ W!Edit(d, { i }, LAMBDA x : W!Changed(x, edit)) EXCEPT
              !.paused = @ /\ edit # "retry" ]
  BY <1>5, <1>6, Zenon
<1>8. /\ DOMAIN h.items = DOMAIN d.items
      /\ \A n \in DOMAIN d.items :
           /\ h.items[n].id = d.items[n].id
           /\ d.items[n].id # i => h.items[n].status = d.items[n].status
  BY <1>2, <1>3, <1>6
<1>9. Alters(d, h, i)
  BY <1>6, <1>8 DEF Alters, W!Has, W!IsAt
<1>10. QED
  BY <1>7, <1>9, Zenon

LEMMA SeenAfterAppend ==
  ASSUME NEW d \in W!DataType, NEW x \in W!ItemType
  PROVE  \A e : e = [ items |-> Append(d.items, x), paused |-> FALSE ]
                => Alters(d, e, x.id) /\ W!Has(e, x.id)
<1>0. PICK s \in Seq(W!ItemType) : s = d.items
  BY ItemsOf
<1>1. PICK m \in Nat : m = Len(s) /\ DOMAIN s = 1 .. m
  BY <1>0
<1>2. PICK g \in Seq(W!ItemType) : g = Append(s, x)
  BY <1>0, AppendProperties, Zenon
<1>3. DOMAIN g = 1 .. (m + 1) /\ g[m + 1] = x /\ \A n \in 1 .. m : g[n] = s[n]
  BY <1>1, <1>2
<1>4. PICK e : e = [ items |-> g, paused |-> FALSE ]
  OBVIOUS
<1>5. e \in W!DataType /\ e.items = g
  BY <1>2, <1>4 DEF W!DataType
<1>6. \A n : n \in DOMAIN g <=> n \in DOMAIN d.items \/ n = m + 1
  BY <1>0, <1>1, <1>3
<1>7. Alters(d, e, x.id) /\ W!Has(e, x.id)
  BY <1>0, <1>1, <1>3, <1>5, <1>6 DEF Alters, W!Has, W!IsAt
<1>8. QED
  BY <1>0, <1>2, <1>4, <1>7, Zenon

LEMMA SwapAlike ==
  ASSUME NEW d \in W!DataType, NEW m \in DOMAIN d.items, NEW n \in DOMAIN d.items,
         d.items[m].status = d.items[n].status
  PROVE  \A e : e = [ d EXCEPT !.items = [ @ EXCEPT ![m] = d.items[n], ![n] = d.items[m] ] ]
                => Alike(d, e)
<1> DEFINE g == [ d.items EXCEPT ![m] = d.items[n], ![n] = d.items[m] ]
<1>1. g \in [ DOMAIN d.items -> W!ItemType ]
  BY ItemsOf
<1>2. /\ DOMAIN g = DOMAIN d.items /\ g[n] = d.items[m]
      /\ m # n => g[m] = d.items[n]
      /\ \A l \in DOMAIN d.items : l # m /\ l # n => g[l] = d.items[l]
  BY ItemsOf
<1>3. [ d EXCEPT !.items = [ @ EXCEPT ![m] = d.items[n], ![n] = d.items[m] ] ]
        = [ d EXCEPT !.items = g ]
  OBVIOUS
<1> HIDE DEF g
<1>4. PICK f \in W!DataType : f = [ d EXCEPT !.items = g ] /\ f.items = g /\ f.paused = d.paused
  BY <1>1, EditedData
<1>5. \A i : W!Has(f, i) <=> W!Has(d, i)
  BY <1>2, <1>4 DEF W!Has
<1>6. \A i, T : W!IsAt(f, i, T) <=> W!IsAt(d, i, T)
  BY <1>2, <1>4 DEF W!IsAt
<1>7. \A s : AnyAt(f, s) <=> AnyAt(d, s)
  BY <1>2, <1>4 DEF AnyAt
<1>8. Alike(d, f)
  BY <1>4, <1>5, <1>6, <1>7 DEF Alike, SameInputs
<1>9. QED
  BY <1>3, <1>4, <1>8, Zenon

-----------------------------------------------------------------------------
(* What the inbox holds, and types.                                        *)

Base == IF loaded THEN held ELSE inboxFile

LEMMA CurrentData ==
  ASSUME W!DataTyped
  PROVE  Base \in W!DataType /\ W!Current \in W!DataType /\ Alike(Base, W!Current)
<1>1. Base \in W!DataType
  BY DEF W!DataTyped, Base
<1>2. CASE loaded
  BY <1>1, <1>2 DEF W!Current, Base, Alike, SameInputs
<1>3. CASE ~loaded
  <2>1. Alike(Base, W!Loaded(Base))
    BY <1>1, LoadedData, AlikeIfSame
  <2>2. QED
    BY <1>1, <1>3, <2>1 DEF W!Current, Base, Alike, SameInputs
<1>4. QED
  BY <1>2, <1>3

\* The item of a plan.
LEMMA PlanItem ==
  ASSUME W!DataTyped, NEW x \in W!Plans
  PROVE  \/ x = W!Convert
         \/ /\ x.item \in Items /\ x.steering \in BOOLEAN
            /\ x = [ item |-> x.item, steering |-> x.steering ]
            /\ W!IsAt(W!Current, x.item, { "pending", "failed" })
<1>1. W!Current \in W!DataType
  BY CurrentData
<1>2. PICK d : d = W!Current
  OBVIOUS
<1>3. x = W!Convert \/ \E n \in DOMAIN d.items, b \in BOOLEAN :
        x = [ item |-> d.items[n].id, steering |-> b ] /\ d.items[n].status = "pending"
  BY <1>2 DEF W!Plans, W!IsPending
<1>4. ASSUME NEW n \in DOMAIN d.items, NEW b \in BOOLEAN,
             x = [ item |-> d.items[n].id, steering |-> b ], d.items[n].status = "pending"
      PROVE  /\ x.item \in Items /\ x.steering \in BOOLEAN
             /\ x = [ item |-> x.item, steering |-> x.steering ]
             /\ W!IsAt(d, x.item, { "pending", "failed" })
  BY <1>1, <1>2, <1>4, ItemsOf DEF W!IsAt
<1>5. QED
  BY <1>2, <1>3, <1>4

\* What the steps that save do to the data.
LEMMA AcceptData ==
  ASSUME W!DataTyped, NEW i \in Items, NEW d \in { "queue", "steer" }, W!Accept(i, d)
  PROVE  /\ ~W!Locked /\ loaded'
         /\ \/ held' = W!Current /\ inboxFile' = inboxFile
            \/ /\ ~W!Has(W!Current, i) /\ inboxFile' = held'
               /\ Alters(W!Current, held', i) /\ W!Has(held', i)
<1>1. PICK c \in W!DataType : c = W!Current
  BY CurrentData
<1>2. PICK w \in W!Deliveries :
        \/ held' = c /\ inboxFile' = inboxFile
        \/ /\ i \notin W!Ids(c) /\ inboxFile' = held'
           /\ held' = [ items |-> Append(c.items,
                           [ id |-> i, status |-> "pending", uncertain |-> FALSE,
                             delivery |-> w ]), paused |-> FALSE ]
  BY <1>1 DEF W!Accept, W!Save, W!Deliveries
<1>3. PICK x \in W!ItemType : x = [ id |-> i, status |-> "pending", uncertain |-> FALSE,
                                   delivery |-> w ] /\ x.id = i
  <2>1. [ id |-> i, status |-> "pending", uncertain |-> FALSE, delivery |-> w ]
          \in W!ItemType
    BY DEF W!ItemType, W!Statuses
  <2>2. [ id |-> i, status |-> "pending", uncertain |-> FALSE, delivery |-> w ].id = i
    OBVIOUS
  <2>3. QED
    BY <2>1, <2>2, Zenon
<1>4. CASE /\ i \notin W!Ids(c) /\ inboxFile' = held'
           /\ held' = [ items |-> Append(c.items,
                           [ id |-> i, status |-> "pending", uncertain |-> FALSE,
                             delivery |-> w ]), paused |-> FALSE ]
  <2>1. held' = [ items |-> Append(c.items, x), paused |-> FALSE ]
    BY <1>3, <1>4, Zenon
  <2>2. Alters(c, held', i) /\ W!Has(held', i)
    BY <1>3, <2>1, SeenAfterAppend, Zenon
  <2>3. ~W!Has(c, i)
    BY <1>4 DEF W!Ids, W!Has
  <2>4. QED
    BY <1>1, <1>4, <2>2, <2>3 DEF W!Accept, W!Save
<1>5. QED
  BY <1>1, <1>2, <1>4 DEF W!Accept, W!Save

LEMMA ChangeData ==
  ASSUME W!DataTyped, NEW i \in Items, NEW edit \in { "remove", "retry", "steer" },
         W!ChangeItem(i, edit)
  PROVE  /\ ~W!Locked /\ loaded' /\ inboxFile' = held' /\ Alters(W!Current, held', i)
         /\ W!IsAt(W!Current, i, { "pending", "failed" })
<1>1. PICK c \in W!DataType : c = W!Current
  BY CurrentData
<1>2. /\ ~W!Locked /\ loaded' = TRUE /\ inboxFile' = held'
      /\ held' = [ W!Edit(c, { i }, LAMBDA x : W!Changed(x, edit)) EXCEPT
                     !.paused = @ /\ edit # "retry" ]
  BY <1>1 DEF W!ChangeItem, W!Save
<1>3. Alters(c, held', i)
  BY <1>2, SeenAfterChange, Zenon
<1>4. W!Some(c, LAMBDA x : x.id = i /\ W!Changeable(x, edit))
  BY <1>1 DEF W!ChangeItem
<1>5. W!IsAt(c, i, { "pending", "failed" })
  BY <1>4 DEF W!Some, W!Changeable, W!IsPending, W!IsFailed, W!IsAt
<1>6. QED
  BY <1>1, <1>2, <1>3, <1>5

LEMMA ReorderData ==
  ASSUME W!DataTyped, W!Reorder
  PROVE  ~W!Locked /\ loaded' /\ inboxFile' = held' /\ Alike(W!Current, held')
<1>1. W!Current \in W!DataType
  BY CurrentData
<1>2. PICK m, n \in DOMAIN W!Current.items :
        /\ W!Current.items[m].status = W!Current.items[n].status
        /\ W!Save([ W!Current EXCEPT !.items =
                      [ @ EXCEPT ![m] = W!Current.items[n],
                                 ![n] = W!Current.items[m] ] ])
  BY DEF W!Reorder
<1>3. /\ ~W!Locked /\ loaded' = TRUE /\ inboxFile' = held'
      /\ held' = [ W!Current EXCEPT !.items =
                     [ @ EXCEPT ![m] = W!Current.items[n], ![n] = W!Current.items[m] ] ]
  BY <1>2, Zenon DEF W!Save
<1>4. Alike(W!Current, held')
  BY <1>1, <1>2, <1>3, SwapAlike, Zenon
<1>5. QED
  BY <1>3, <1>4, Zenon

LEMMA ConvertData ==
  ASSUME W!DataTyped, W!SaveConvert
  PROVE  inboxFile' = held' /\ loaded' = loaded /\ Alike(held, held')
<1>1. PICK h \in W!DataType : h = held
  BY DEF W!DataTyped
<1>2. /\ inboxFile' = held' /\ loaded' = loaded
      /\ held' = W!Edit(h, Items, LAMBDA x :
                    IF W!IsPending(x) /\ x.delivery = "direct"
                    THEN [ x EXCEPT !.delivery = "queue" ] ELSE x)
  BY <1>1 DEF W!SaveConvert, W!Commit
<1>3. SameStatuses(h, held')
  BY <1>2, ConvertedData, Zenon
<1>4. QED
  BY <1>1, <1>2, <1>3, AlikeIfSame

LEMMA HandOverData ==
  ASSUME W!DataTyped, W!HandOver
  PROVE  /\ inboxFile' = held' /\ loaded' = loaded
         /\ SetTo(held, held', plan.item, "delivering")
<1>1. PICK h \in W!DataType : h = held
  BY DEF W!DataTyped
<1>2. /\ inboxFile' = held' /\ loaded' = loaded
      /\ held' = W!Edit(h, { plan.item }, LAMBDA x : [ x EXCEPT !.status = "delivering" ])
  BY <1>1 DEF W!HandOver, W!Commit
<1>3. "delivering" \in W!Statuses
  BY DEF W!Statuses
<1>4. SetTo(h, held', plan.item, "delivering")
  BY <1>2, <1>3, StatusData, Zenon
<1>5. QED
  BY <1>1, <1>2, <1>4

LEMMA DeliveredData ==
  ASSUME W!DataTyped, NEW i \in Items, W!Delivered(i)
  PROVE  /\ ~W!Locked /\ loaded' /\ inboxFile' = held'
         /\ SetTo(W!Current, held', i, "delivered")
<1>1. PICK c \in W!DataType : c = W!Current
  BY CurrentData
<1>2. /\ ~W!Locked /\ loaded' = TRUE /\ inboxFile' = held'
      /\ held' = W!Edit(c, { i }, LAMBDA x : [ x EXCEPT !.status = "delivered" ])
  BY <1>1 DEF W!Delivered, W!Save
<1>3. "delivered" \in W!Statuses
  BY DEF W!Statuses
<1>4. SetTo(c, held', i, "delivered")
  BY <1>2, <1>3, StatusData, Zenon
<1>5. QED
  BY <1>1, <1>2, <1>4

LEMMA OutcomeSets ==
  ASSUME W!DataTyped, NEW i \in Items
  PROVE  SetTo(W!Current, W!Outcome(i), i,
               IF W!WasAccepted(i) THEN "delivering" ELSE "failed")
<1>1. PICK c \in W!DataType : c = W!Current
  BY CurrentData
<1>2. PICK v \in W!Statuses : v = IF W!WasAccepted(i) THEN "delivering" ELSE "failed"
  BY DEF W!Statuses
<1>3. PICK u \in BOOLEAN : u = W!WasAccepted(i)
  BY DEF W!WasAccepted
<1>4. W!Outcome(i) = W!Edit(c, { i }, LAMBDA x : [ x EXCEPT !.status = v, !.uncertain = u ])
  BY <1>1, <1>2, <1>3 DEF W!Outcome
<1>5. SetTo(c, W!Outcome(i), i, v)
  BY <1>4, OutcomeData, Zenon
<1>6. QED
  BY <1>1, <1>2, <1>5, Zenon

-----------------------------------------------------------------------------
(* Who has an input.                                                       *)

Sendable == { "pending", "failed" }
OnItsWay == { "delivering" }

\* Of an input nothing is taken and nothing handed over.
Untouched(i) == (W!Unsent(i) => W!Unsent(i)') /\ (out'[i] # "none" <=> out[i] # "none")

LEMMA KnowsCurrent ==
  ASSUME W!DataTyped, W!KnowsSent
  PROVE  /\ W!Honest(W!Current)
         /\ \A i \in Items :
              /\ ~W!Unsent(i) => W!Has(W!Current, i)
              /\ out[i] # "none" => loaded /\ W!IsAt(W!Current, i, OnItsWay)
<1>1. Alike(Base, W!Current)
  BY CurrentData
<1>2. /\ W!Honest(Base)
      /\ \A i \in Items :
           /\ ~W!Unsent(i) => W!Has(Base, i)
           /\ out[i] # "none" => loaded /\ W!IsAt(Base, i, OnItsWay)
  BY DEF W!KnowsSent, Base, OnItsWay
<1>3. QED
  BY <1>1, <1>2 DEF Alike, SameInputs, W!Honest

\* The data may be read and rewritten without a change of what is told.
LEMMA KnowsAlike ==
  ASSUME W!DataTyped, W!KnowsSent, loaded', \A i \in Items : Untouched(i),
         SameInputs(W!Current, held'), inboxFile' \in { inboxFile, held' }
  PROVE  W!KnowsSent'
<1>1. /\ W!Honest(held)'
      /\ \A i \in Items :
           /\ ~W!Unsent(i) => W!Has(held', i)
           /\ out[i] # "none" => W!IsAt(held', i, OnItsWay)
  BY KnowsCurrent DEF Untouched, Alike, SameInputs, W!Honest
<1>2. /\ W!Honest(inboxFile)'
      /\ \A i \in Items : ~W!Unsent(i) => W!Has(inboxFile', i)
  BY <1>1 DEF Untouched, W!KnowsSent, W!Honest
<1>3. QED
  BY <1>1, <1>2 DEF Untouched, W!KnowsSent, OnItsWay

\* One item changes, and what is told of it is true.
LEMMA KnowsAlters ==
  ASSUME W!DataTyped, W!KnowsSent, NEW i \in Items, loaded',
         \A j \in Items : j # i => Untouched(j),
         Alters(W!Current, held', i), W!Has(W!Current, i) \/ W!Has(held', i),
         \/ inboxFile' = held'
         \/ inboxFile' = inboxFile /\ (W!Unsent(i) => W!Unsent(i)') /\ W!Has(inboxFile, i),
         W!IsAt(held', i, Sendable) => W!Unsent(i)',
         out'[i] # "none" => W!IsAt(held', i, OnItsWay)
  PROVE  W!KnowsSent'
<1>1. /\ W!Honest(held)'
      /\ \A j \in Items :
           /\ ~W!Unsent(j)' => W!Has(held', j)
           /\ out'[j] # "none" => W!IsAt(held', j, OnItsWay)
  BY KnowsCurrent DEF Untouched, Alters, W!Honest, Sendable
<1>2. /\ W!Honest(inboxFile)'
      /\ \A j \in Items : ~W!Unsent(j)' => W!Has(inboxFile', j)
  BY <1>1 DEF Untouched, W!KnowsSent, W!Honest, Sendable
<1>3. QED
  BY <1>1, <1>2 DEF Untouched, W!KnowsSent, OnItsWay

\* The session and the executor go on without the inbox.
LEMMA KnowsStill ==
  ASSUME W!KnowsSent, held' = held, loaded' = loaded, inboxFile' = inboxFile,
         \A i \in Items : Untouched(i)
  PROVE  W!KnowsSent'
<1>1. W!Honest(held)' /\ W!Honest(inboxFile)'
  BY DEF Untouched, W!KnowsSent, W!Honest
<1>2. ASSUME NEW i \in Items
      PROVE  /\ ~W!Unsent(i)' => W!Has(inboxFile, i)' /\ (loaded' => W!Has(held, i)')
             /\ out'[i] # "none" => loaded' /\ W!IsAt(held, i, { "delivering" })'
  BY DEF Untouched, W!KnowsSent
<1>3. QED
  BY <1>1, <1>2 DEF W!KnowsSent

-----------------------------------------------------------------------------
(* Types.                                                                  *)

LEMMA SettledData ==
  ASSUME W!DataTyped, NEW i \in Items, W!NotDelivered(i) \/ W!NotSaved(i)
  PROVE  /\ ~W!Locked /\ loaded' /\ inboxFile' \in { inboxFile, W!Outcome(i) }
         /\ held' = W!Outcome(i) \/ (held' = W!Current /\ ~W!WasAccepted(i))
         /\ inboxFile' = held' \/ inboxFile' = inboxFile
BY DEF W!NotDelivered, W!NotSaved, W!Save, W!WasAccepted

LEMMA DataStep ==
  ASSUME W!DataTyped, [W!Next]_inboxVars
  PROVE  held' \in W!DataType /\ inboxFile' \in W!DataType /\ loaded' \in BOOLEAN
<1>0. /\ W!Current \in W!DataType /\ held \in W!DataType /\ inboxFile \in W!DataType
      /\ loaded \in BOOLEAN
  BY CurrentData DEF W!DataTyped
<1>1. ASSUME NEW i \in Items, NEW d \in { "queue", "steer" }, W!Accept(i, d)
      PROVE  held' \in W!DataType /\ inboxFile' \in W!DataType /\ loaded'
  BY <1>0, <1>1, AcceptData DEF Alters
<1>2. ASSUME NEW i \in Items, NEW edit \in { "remove", "retry", "steer" },
             W!ChangeItem(i, edit)
      PROVE  held' \in W!DataType /\ inboxFile' \in W!DataType /\ loaded'
  BY <1>2, ChangeData DEF Alters
<1>3. CASE W!Pause
  BY <1>0, <1>3 DEF W!Pause, W!Save, W!DataType
<1>4. CASE W!Reorder \/ W!SaveConvert
  BY <1>0, <1>4, ReorderData, ConvertData DEF Alike, SameInputs
<1>5. CASE W!RequestFails \/ W!Look
  BY <1>0, <1>5 DEF W!RequestFails, W!Look
<1>6. CASE W!HandOver
  BY <1>0, <1>6, HandOverData DEF SetTo, SameItems
<1>7. ASSUME NEW i \in Items, W!Settling(i)
      PROVE  held' \in W!DataType /\ inboxFile' \in W!DataType /\ loaded'
  <2>1. CASE W!Delivered(i)
    BY <2>1, DeliveredData DEF SetTo, SameItems
  <2>2. CASE W!NotDelivered(i) \/ W!NotSaved(i)
    <3>1. W!Outcome(i) \in W!DataType
      BY OutcomeSets DEF SetTo, SameItems
    <3>2. QED
      BY <1>0, <2>2, <3>1, SettledData
  <2>3. QED
    BY <1>7, <2>1, <2>2 DEF W!Settling
<1>8. CASE W!Crash
  <2>1. W!Empty \in W!DataType
    BY DEF W!Empty, W!DataType
  <2>2. QED
    BY <1>0, <1>8, <2>1 DEF W!Crash
<1>9. ASSUME NEW i \in Items, W!Handing(i) \/ W!TakeSteer(i)
      PROVE  UNCHANGED << held, loaded, inboxFile >>
  BY <1>9
     DEF W!Handing, W!CallRefused, W!CallStartsRun, W!CallSteers, W!TakeSteer, W!inbox
<1>10. CASE W!DrainSaveFails \/ W!Wake \/ W!ForeignRun \/ W!RunEnds \/ W!Close
           \/ UNCHANGED inboxVars
  BY <1>0, <1>10
     DEF W!DrainSaveFails, W!Wake, W!ForeignRun, W!RunEnds, W!Close, W!inbox, inboxVars
<1>11. QED
  BY <1>0, <1>1, <1>2, <1>3, <1>4, <1>5, <1>6, <1>7, <1>8, <1>9, <1>10
     DEF W!Next, W!Request, W!Drain

Drained ==
  /\ drain' \in { "off", "look", "save", "wait" }
  /\ plan' \in [ item : Items \cup { NoItem }, steering : BOOLEAN ]
  /\ wakeRequested' \in BOOLEAN /\ prompting' \in BOOLEAN /\ closed' \in BOOLEAN
  /\ spoiled' \in BOOLEAN

LEMMA DrainStep ==
  ASSUME W!DataTyped, [W!Next]_inboxVars
  PROVE  Drained
<1>0. W!DataTyped
  OBVIOUS
<1> USE DEF W!DataTyped, Drained
<1>1. ASSUME NEW i \in Items, NEW d \in { "queue", "steer" }, W!Accept(i, d)
      PROVE  Drained
  BY <1>0, <1>1 DEF W!Accept, W!Schedule
<1>2. ASSUME NEW i \in Items, NEW edit \in { "remove", "retry", "steer" },
             W!ChangeItem(i, edit)
      PROVE  Drained
  BY <1>0, <1>2 DEF W!ChangeItem, W!Schedule
<1>3. CASE W!Pause \/ W!Reorder \/ W!RequestFails
  BY <1>0, <1>3 DEF W!Pause, W!Reorder, W!RequestFails, W!drainer
<1>4. CASE W!Look
  <2>1. CASE plan' \in W!Plans /\ drain' = "save" /\ wakeRequested' = wakeRequested
    <3>1. plan' \in [ item : Items \cup { NoItem }, steering : BOOLEAN ]
      <4>1. CASE plan' = W!Convert
        BY <4>1 DEF W!Convert
      <4>2. CASE \E i \in Items, b \in BOOLEAN : plan' = [ item |-> i, steering |-> b ]
        BY <4>2
      <4>3. QED
        BY <1>0, <2>1, <4>1, <4>2, PlanItem, Zenon
    <3>2. QED
      BY <1>0, <1>4, <2>1, <3>1 DEF W!Look
  <2>2. CASE W!Ended /\ plan' = plan
    BY <1>0, <1>4, <2>2 DEF W!Look, W!Ended
  <2>3. QED
    BY <1>4, <2>1, <2>2 DEF W!Look
<1>5. CASE W!SaveConvert \/ W!HandOver \/ W!DrainSaveFails
  BY <1>0, <1>5 DEF W!SaveConvert, W!HandOver, W!DrainSaveFails, W!Ended
<1>6. ASSUME NEW i \in Items, W!Handing(i) \/ W!TakeSteer(i)
      PROVE  Drained
  BY <1>0, <1>6
     DEF W!Handing, W!CallRefused, W!CallStartsRun, W!CallSteers, W!TakeSteer, W!drainer
<1>7. ASSUME NEW i \in Items, W!Settling(i)
      PROVE  Drained
  BY <1>0, <1>7
     DEF W!Settling, W!Delivered, W!NotDelivered, W!NotSaved, W!TaskEnds, W!WakeAfter,
         W!Schedule, W!Ended
<1>8. CASE W!Wake \/ W!ForeignRun \/ W!RunEnds \/ W!Close \/ UNCHANGED inboxVars
  BY <1>0, <1>8
     DEF W!Wake, W!ForeignRun, W!RunEnds, W!Close, W!Schedule, W!drainer, inboxVars
<1>9. CASE W!Crash
  BY <1>0, <1>9 DEF W!Crash, W!Convert
<1>10. QED
  BY <1>1, <1>2, <1>3, <1>4, <1>5, <1>6, <1>7, <1>8, <1>9 DEF W!Next, W!Request, W!Drain

Driven ==
  /\ session' \in Items \cup { "foreign", NoItem } /\ nudge' \in BOOLEAN
  /\ out' \in [ Items -> { "none", "calling", "running", "completed", "refused",
                         "broken" } ]
  /\ steers' \subseteq Items
  /\ taken' \in [ Items -> 0 .. 2 ] /\ mistaken' \subseteq Items

LEMMA DriveStep ==
  ASSUME W!DataTyped, [W!Next]_inboxVars
  PROVE  Driven
<1>0. W!DataTyped
  OBVIOUS
<1> USE DEF W!DataTyped, Driven
<1>1. CASE W!Request \/ W!Look \/ W!SaveConvert \/ W!DrainSaveFails
  BY <1>0, <1>1
     DEF W!Request, W!Accept, W!ChangeItem, W!Pause, W!Reorder, W!RequestFails, W!Look,
         W!SaveConvert, W!DrainSaveFails, W!sdk, W!history
<1>2. CASE W!HandOver
  BY <1>0, <1>2 DEF W!HandOver, W!sdk, W!history
<1>3. ASSUME NEW i \in Items, W!Take(i)
      PROVE  taken' \in [ Items -> 0 .. 2 ] /\ mistaken' \subseteq Items
  BY <1>0, <1>3 DEF W!Take
<1>4. ASSUME NEW i \in Items, W!Handing(i) \/ W!TakeSteer(i)
      PROVE  Driven
  BY <1>0, <1>3, <1>4
     DEF W!Handing, W!CallRefused, W!CallStartsRun, W!CallSteers, W!TakeSteer, W!sdk,
         W!history
<1>5. ASSUME NEW i \in Items, W!Settling(i)
      PROVE  Driven
  BY <1>0, <1>5
     DEF W!Settling, W!Delivered, W!NotDelivered, W!NotSaved, W!TaskEnds, W!sdk, W!history
<1>6. CASE W!RunEnds
  BY <1>0, <1>6 DEF W!RunEnds, W!history
<1>7. CASE W!Wake \/ W!ForeignRun \/ W!Close \/ UNCHANGED inboxVars
  BY <1>0, <1>7
     DEF W!Wake, W!ForeignRun, W!Close, W!sdk, W!history, inboxVars
<1>8. CASE W!Crash
  BY <1>0, <1>8 DEF W!Crash, W!history
<1>9. QED
  BY <1>1, <1>2, <1>4, <1>5, <1>6, <1>7, <1>8 DEF W!Next, W!Drain

LEMMA InboxTypeStep ==
  ASSUME W!DataTyped, [W!Next]_inboxVars
  PROVE  W!DataTyped'
BY DataStep, DrainStep, DriveStep DEF W!DataTyped, Drained, Driven

-----------------------------------------------------------------------------
(* What the inbox knows.                                                   *)

LEMMA TakeTouches ==
  ASSUME W!DataTyped, NEW i \in Items, W!Take(i)
  PROVE  /\ \A j \in Items : j # i => taken'[j] = taken[j] /\ (j \in mistaken' <=> j \in mistaken)
         /\ taken'[i] # 0
         /\ i \in ids' \/ i \in mistaken'
         /\ i \in mistaken => i \in mistaken'
BY DEF W!Take, W!DataTyped

\* Neither a hand-over, nor the end of one, nor a crash.
Gentle ==
  \/ W!Request \/ W!Look \/ W!SaveConvert \/ W!DrainSaveFails \/ W!Wake
  \/ W!ForeignRun \/ W!RunEnds \/ W!Close \/ UNCHANGED inboxVars
  \/ \E i \in Items : W!Handing(i) \/ W!TakeSteer(i)

LEMMA StepTouches ==
  ASSUME W!DataTyped, W!KnowsSent, W!HandlingInv
  PROVE  /\ Gentle => \A j \in Items : Untouched(j)
         /\ \A i \in Items : W!Settling(i) => \A j \in Items : j # i => Untouched(j)
<1>0. W!DataTyped /\ W!HandlingInv
  OBVIOUS
<1>1. ASSUME UNCHANGED << out, steers, taken, mistaken >>
      PROVE  \A j \in Items : Untouched(j)
  BY <1>1 DEF Untouched, W!Unsent
<1>2. W!Request \/ W!Look \/ W!SaveConvert \/ W!DrainSaveFails \/ W!Wake \/ W!ForeignRun
        \/ W!Close \/ UNCHANGED inboxVars => UNCHANGED << out, steers, taken, mistaken >>
  BY DEF W!Request, W!Accept, W!ChangeItem, W!Pause, W!Reorder, W!RequestFails, W!Look,
         W!SaveConvert, W!DrainSaveFails, W!sdk, W!history, W!Wake, W!ForeignRun,
         W!Close, inboxVars
<1>3. ASSUME W!RunEnds
      PROVE  \A j \in Items : Untouched(j)
  BY <1>0, <1>3 DEF W!RunEnds, W!history, W!DataTyped, W!HandlingInv, Untouched, W!Unsent
<1>4. ASSUME NEW i \in Items, W!CallRefused(i)
      PROVE  \A j \in Items : Untouched(j)
  BY <1>0, <1>4 DEF W!CallRefused, W!sdk, W!history, W!DataTyped, Untouched, W!Unsent
<1>5. ASSUME NEW i \in Items, W!CallSteers(i)
      PROVE  \A j \in Items : Untouched(j)
  BY <1>0, <1>5 DEF W!CallSteers, W!history, W!DataTyped, Untouched, W!Unsent
<1>6. ASSUME NEW i \in Items, W!CallStartsRun(i)
      PROVE  \A j \in Items : Untouched(j)
  BY <1>0, <1>6, TakeTouches DEF W!CallStartsRun, W!DataTyped, Untouched, W!Unsent
<1>7. ASSUME NEW i \in Items, W!TakeSteer(i)
      PROVE  \A j \in Items : Untouched(j)
  BY <1>0, <1>7, TakeTouches
     DEF W!TakeSteer, W!DataTyped, W!HandlingInv, Untouched, W!Unsent
<1>8. ASSUME NEW i \in Items, W!Settling(i)
      PROVE  \A j \in Items : j # i => Untouched(j)
  BY <1>0, <1>8
     DEF W!Settling, W!Delivered, W!NotDelivered, W!NotSaved, W!TaskEnds, W!sdk,
         W!history, W!DataTyped, Untouched, W!Unsent
<1>9. QED
  BY <1>1, <1>2, <1>3, <1>4, <1>5, <1>6, <1>7, <1>8 DEF W!Handing, Gentle

LEMMA KnowsStep ==
  ASSUME W!DataTyped, W!KnowsSent, W!HandlingInv, W!TakenInv, [W!Next]_inboxVars
  PROVE  W!KnowsSent'
<1>0. W!DataTyped /\ W!KnowsSent /\ W!HandlingInv /\ W!TakenInv
  OBVIOUS
<1>c. W!Current \in W!DataType /\ SameInputs(W!Current, W!Current)
  BY CurrentData DEF SameInputs
<1>1. ASSUME NEW i \in Items, NEW d \in { "queue", "steer" }, W!Accept(i, d)
      PROVE  W!KnowsSent'
  <2>1. \A j \in Items : Untouched(j)
    BY <1>1, StepTouches DEF Gentle, W!Request
  <2>2. CASE held' = W!Current /\ inboxFile' = inboxFile
    BY <1>c, <1>1, <2>1, <2>2, AcceptData, KnowsAlike
  <2>3. CASE /\ ~W!Has(W!Current, i) /\ inboxFile' = held'
             /\ Alters(W!Current, held', i) /\ W!Has(held', i)
    <3>1. W!Unsent(i) /\ W!Unsent(i)' /\ out'[i] = "none"
      BY <2>1, <2>3, KnowsCurrent DEF Untouched, W!Unsent
    <3>2. loaded'
      BY <1>1, AcceptData
    <3>3. QED
      BY <2>1, <2>3, <3>1, <3>2, KnowsAlters
  <2>4. QED
    BY <1>1, <2>2, <2>3, AcceptData
<1>2. ASSUME NEW i \in Items, NEW edit \in { "remove", "retry", "steer" },
             W!ChangeItem(i, edit)
      PROVE  W!KnowsSent'
  <2>1. \A j \in Items : Untouched(j)
    BY <1>2, StepTouches DEF Gentle, W!Request
  <2>2. /\ loaded' /\ inboxFile' = held' /\ Alters(W!Current, held', i)
        /\ W!IsAt(W!Current, i, Sendable)
    BY <1>2, ChangeData DEF Sendable
  <2>3. W!Has(W!Current, i)
    BY <2>2 DEF W!IsAt, W!Has
  <2>4. W!Unsent(i) /\ W!Unsent(i)' /\ out'[i] = "none"
    BY <2>1, <2>2, KnowsCurrent DEF Untouched, W!Unsent, W!Honest, Sendable
  <2>5. QED
    BY <2>1, <2>2, <2>3, <2>4, KnowsAlters
<1>3. CASE W!Pause \/ W!Reorder \/ W!RequestFails \/ W!Look
  <2>1. \A j \in Items : Untouched(j)
    BY <1>3, StepTouches DEF Gentle, W!Request
  <2>2. CASE W!Pause
    <3>1. loaded' /\ inboxFile' = held' /\ held' = [ W!Current EXCEPT !.paused = TRUE ]
      BY <2>2 DEF W!Pause, W!Save
    <3>2. held' \in W!DataType /\ held'.items = W!Current.items
      BY <1>c, <3>1 DEF W!DataType
    <3>3. SameInputs(W!Current, held')
      BY <3>2 DEF SameInputs, W!Has, W!IsAt
    <3>4. QED
      BY <2>1, <3>1, <3>3, KnowsAlike
  <2>3. CASE W!Reorder
    BY <2>1, <2>3, ReorderData, KnowsAlike DEF Alike
  <2>4. CASE W!RequestFails \/ W!Look
    <3>1. loaded' /\ held' = W!Current /\ inboxFile' = inboxFile
      BY <2>4 DEF W!RequestFails, W!Look
    <3>2. QED
      BY <1>c, <2>1, <3>1, KnowsAlike
  <2>5. QED
    BY <1>3, <2>2, <2>3, <2>4
<1>4. CASE W!SaveConvert
  <2>1. \A j \in Items : Untouched(j)
    BY <1>4, StepTouches DEF Gentle
  <2>2. loaded /\ W!Current = held
    BY <1>0, <1>4 DEF W!SaveConvert, W!HandlingInv, W!Current
  <2>3. QED
    BY <1>4, <2>1, <2>2, ConvertData, KnowsAlike DEF Alike
<1>5. CASE W!HandOver
  <2>1. /\ loaded /\ W!Current = held /\ plan.item \in Items
        /\ W!Has(held, plan.item)
    BY <1>0, <1>5 DEF W!HandOver, W!HandlingInv, W!Current
  <2>2. \A j \in Items : j # plan.item => Untouched(j)
    BY <1>0, <1>5 DEF W!HandOver, W!DataTyped, W!sdk, W!history, Untouched, W!Unsent
  <2>3. loaded' /\ inboxFile' = held' /\ SetTo(W!Current, held', plan.item, "delivering")
    BY <1>5, <2>1, HandOverData
  <2>4. /\ Alters(W!Current, held', plan.item) /\ ~W!IsAt(held', plan.item, Sendable)
        /\ W!IsAt(held', plan.item, OnItsWay)
    BY <2>1, <2>3, SeenAfterSet DEF Sendable, OnItsWay
  <2>5. QED
    BY <2>1, <2>2, <2>3, <2>4, KnowsAlters
<1>6. ASSUME NEW i \in Items, W!Settling(i)
      PROVE  W!KnowsSent'
  <2>1. \A j \in Items : j # i => Untouched(j)
    BY <1>6, StepTouches
  <2>2. out[i] \in { "completed", "refused", "broken" } /\ out'[i] = "none"
    BY <1>0, <1>6
       DEF W!Settling, W!Delivered, W!NotDelivered, W!NotSaved, W!TaskEnds, W!DataTyped
  <2>3. ~W!Unsent(i) /\ W!Has(W!Current, i) /\ W!Has(inboxFile, i)
    BY <1>0, <2>2, KnowsCurrent DEF W!Unsent, W!KnowsSent
  <2>4. CASE W!Delivered(i)
    <3>1. loaded' /\ inboxFile' = held' /\ SetTo(W!Current, held', i, "delivered")
      BY <2>4, DeliveredData
    <3>2. Alters(W!Current, held', i) /\ ~W!IsAt(held', i, Sendable)
      BY <3>1, SeenAfterSet DEF Sendable
    <3>3. QED
      BY <2>1, <2>2, <2>3, <3>1, <3>2, KnowsAlters
  <2>5. CASE W!NotDelivered(i) \/ W!NotSaved(i)
    <3>1. ~W!WasAccepted(i) => W!Unsent(i)'
      <4>1. steers' = steers /\ taken' = taken /\ mistaken' = mistaken
        BY <2>5 DEF W!NotDelivered, W!NotSaved, W!TaskEnds, W!sdk, W!history
      <4>2. CASE ~W!WasAccepted(i)
        <5>1. i \notin ids /\ i \notin steers
          BY <1>0, <2>2, <4>2 DEF W!WasAccepted, W!HandlingInv
        <5>2. taken[i] = 0 \/ i \in mistaken
          BY <1>0, <5>1 DEF W!TakenInv, W!DataTyped
        <5>3. QED
          BY <2>2, <4>1, <5>1, <5>2 DEF W!Unsent
      <4>3. QED
        BY <4>2
    <3>2. Alters(W!Current, held', i) /\ (W!IsAt(held', i, Sendable) => W!Unsent(i)')
      <4>1. CASE held' = W!Outcome(i)
        BY <3>1, <4>1, OutcomeSets, SeenAfterSet DEF Sendable
      <4>2. CASE held' = W!Current /\ ~W!WasAccepted(i)
        BY <1>c, <3>1, <4>2 DEF Alters
      <4>3. QED
        BY <2>5, <4>1, <4>2, SettledData
    <3>3. loaded' /\ (inboxFile' = held' \/ inboxFile' = inboxFile)
      BY <2>5, SettledData
    <3>4. QED
      BY <2>1, <2>2, <2>3, <3>2, <3>3, KnowsAlters
  <2>6. QED
    BY <1>6, <2>4, <2>5 DEF W!Settling
<1>7. CASE \/ W!DrainSaveFails \/ W!Wake \/ W!ForeignRun \/ W!RunEnds \/ W!Close
           \/ UNCHANGED inboxVars
           \/ \E i \in Items : W!Handing(i) \/ W!TakeSteer(i)
  <2>1. \A j \in Items : Untouched(j)
    BY <1>7, StepTouches DEF Gentle
  <2>2. held' = held /\ loaded' = loaded /\ inboxFile' = inboxFile
    BY <1>7
       DEF W!DrainSaveFails, W!Wake, W!ForeignRun, W!RunEnds, W!Close, inboxVars, W!inbox,
           W!Handing, W!CallRefused, W!CallStartsRun, W!CallSteers, W!TakeSteer
  <2>3. QED
    BY <2>1, <2>2, KnowsStill
<1>8. CASE W!Crash
  <2>1. \A i \in Items : (W!Unsent(i) => W!Unsent(i)') /\ out'[i] = "none"
    BY <1>8 DEF W!Crash, W!history, W!Unsent
  <2>2. inboxFile' = inboxFile /\ ~loaded' /\ held' = W!Empty
    BY <1>8 DEF W!Crash
  <2>3. \A i, T : ~W!IsAt(W!Empty, i, T)
    BY DEF W!IsAt, W!Empty
  <2>4. W!Honest(held)' /\ W!Honest(inboxFile)'
    BY <1>0, <2>1, <2>2, <2>3 DEF W!KnowsSent, W!Honest
  <2>5. QED
    BY <1>0, <2>1, <2>2, <2>4 DEF W!KnowsSent
<1>9. QED
  BY <1>1, <1>2, <1>3, <1>4, <1>5, <1>6, <1>7, <1>8
     DEF W!Next, W!Request, W!Drain

-----------------------------------------------------------------------------
(* Who is handing over what.                                               *)

Agreed ==
  \A i \in Items : /\ i \in steers => out[i] \in { "none", "completed" }
                   /\ session = i => out[i] = "running"
Planned ==
  drain = "save" =>
    /\ loaded
    /\ plan # W!Convert =>
         plan.item \in Items /\ W!Unsent(plan.item) /\ W!Has(held, plan.item)
Prompted == prompting => \E i \in Items : out[i] # "none" /\ ~W!IsSteer(i)

LEMMA HandlingMeans ==
  /\ W!HandlingInv <=> Agreed /\ Planned /\ Prompted
  /\ W!HandlingInv' <=> Agreed' /\ Planned' /\ Prompted'
<1>1. W!HandlingInv <=> Agreed /\ Planned /\ Prompted
  BY DEF W!HandlingInv, Agreed, Planned, Prompted
<1>2. W!HandlingInv' <=> Agreed' /\ Planned' /\ Prompted'
  BY DEF W!HandlingInv, Agreed, Planned, Prompted
<1>3. QED
  BY <1>1, <1>2

\* A hand-over is of an input that nobody had.
LEMMA HandOverUnsent ==
  ASSUME W!HandlingInv, W!HandOver
  PROVE  plan.item \in Items /\ W!Unsent(plan.item) /\ out[plan.item] = "none"
BY DEF W!HandlingInv, W!HandOver, W!Unsent

LEMMA AgreedStep ==
  ASSUME W!DataTyped, W!HandlingInv, [W!Next]_inboxVars
  PROVE  Agreed'
<1>0. W!DataTyped /\ Agreed
  BY HandlingMeans
<1> USE DEF Agreed
<1>1. CASE \/ W!Request \/ W!Look \/ W!SaveConvert \/ W!DrainSaveFails \/ W!Wake
           \/ W!Close \/ UNCHANGED inboxVars
  <2>1. out' = out /\ steers' = steers /\ session' = session
    BY <1>1
       DEF W!Request, W!Accept, W!ChangeItem, W!Pause, W!Reorder, W!RequestFails, W!Look,
           W!SaveConvert, W!DrainSaveFails, W!Wake, W!Close, W!sdk, inboxVars
  <2>2. QED
    BY <1>0, <2>1
<1>2. CASE W!HandOver
  BY <1>0, <1>2, HandOverUnsent DEF W!HandOver, W!sdk, W!DataTyped, W!Unsent
<1>3. CASE W!ForeignRun
  BY <1>0, <1>3, NamesAssumption DEF W!ForeignRun
<1>4. CASE W!RunEnds
  BY <1>0, <1>4, NamesAssumption DEF W!RunEnds, W!DataTyped
<1>5. CASE W!Crash
  BY <1>5, NamesAssumption DEF W!Crash
<1>6. ASSUME NEW i \in Items, W!CallRefused(i)
      PROVE  Agreed'
  BY <1>0, <1>6 DEF W!CallRefused, W!sdk, W!DataTyped
<1>7. ASSUME NEW i \in Items, W!CallStartsRun(i)
      PROVE  Agreed'
  BY <1>0, <1>7 DEF W!CallStartsRun, W!DataTyped
<1>8. ASSUME NEW i \in Items, W!CallSteers(i)
      PROVE  Agreed'
  BY <1>0, <1>8 DEF W!CallSteers, W!DataTyped
<1>9. ASSUME NEW i \in Items, W!TakeSteer(i)
      PROVE  Agreed'
  BY <1>0, <1>9 DEF W!TakeSteer
<1>10. ASSUME NEW i \in Items, W!Settling(i)
       PROVE  Agreed'
  BY <1>0, <1>10
     DEF W!Settling, W!Delivered, W!NotDelivered, W!NotSaved, W!TaskEnds, W!sdk, W!DataTyped
<1>11. QED
  BY <1>1, <1>2, <1>3, <1>4, <1>5, <1>6, <1>7, <1>8, <1>9, <1>10
     DEF W!Next, W!Drain, W!Handing

LEMMA PlannedStep ==
  ASSUME W!DataTyped, W!KnowsSent, W!HandlingInv, [W!Next]_inboxVars
  PROVE  Planned'
<1>0. W!DataTyped /\ Planned
  BY HandlingMeans
<1> SUFFICES ASSUME drain' = "save"
             PROVE  /\ loaded'
                    /\ \A x : x = plan' /\ x # W!Convert =>
                         x.item \in Items /\ W!Unsent(x.item)' /\ W!Has(held', x.item)
  BY DEF Planned
<1>1. CASE W!Look
  <2>1. plan' \in W!Plans /\ held' = W!Current /\ loaded'
    BY <1>1 DEF W!Look, W!Ended
  <2>2. \A i \in Items : Untouched(i)
    BY <1>1, StepTouches DEF Gentle
  <2>3. PICK x : x = plan'
    OBVIOUS
  <2>4. CASE /\ x.item \in Items
             /\ W!IsAt(W!Current, x.item, { "pending", "failed" })
    <3>1. W!Unsent(x.item)
      BY <2>4, KnowsCurrent DEF W!Honest
    <3>2. W!Has(W!Current, x.item)
      BY <2>4 DEF W!IsAt, W!Has
    <3>3. W!Unsent(x.item)'
      BY <2>2, <2>4, <3>1 DEF Untouched
    <3>4. QED
      BY <2>1, <2>3, <2>4, <3>2, <3>3
  <2>5. QED
    BY <2>1, <2>3, <2>4, PlanItem
<1>2. CASE /\ drain = "save" /\ plan' = plan /\ held' = held /\ loaded' = loaded
           /\ \A i \in Items : Untouched(i)
  BY <1>0, <1>2 DEF Planned, Untouched, W!Unsent
<1>3. CASE W!Request
  <2>1. drain' \in { drain, "look" } /\ (~W!Locked \/ drain' # "save")
    BY <1>3
       DEF W!Request, W!Accept, W!ChangeItem, W!Pause, W!Reorder, W!RequestFails, W!Save,
           W!Schedule, W!drainer
  <2>2. QED
    BY <2>1 DEF W!Locked
<1>4. CASE W!SaveConvert \/ W!HandOver \/ W!DrainSaveFails \/ W!Crash
  BY <1>4 DEF W!SaveConvert, W!HandOver, W!DrainSaveFails, W!Crash, W!Ended
<1>5. ASSUME NEW i \in Items, W!Settling(i)
      PROVE  FALSE
  BY <1>5
     DEF W!Settling, W!Delivered, W!NotDelivered, W!NotSaved, W!TaskEnds, W!Save,
         W!Locked, W!WakeAfter, W!Schedule, W!Ended
<1>6. CASE \/ W!Wake \/ W!ForeignRun \/ W!RunEnds \/ W!Close \/ UNCHANGED inboxVars
           \/ \E i \in Items : W!Handing(i) \/ W!TakeSteer(i)
  <2>1. \A i \in Items : Untouched(i)
    BY <1>6, StepTouches DEF Gentle
  <2>2. drain = "save" /\ plan' = plan /\ held' = held /\ loaded' = loaded
    BY <1>6
       DEF W!Wake, W!ForeignRun, W!RunEnds, W!Close, W!Schedule, inboxVars, W!inbox,
           W!drainer, W!Handing, W!CallRefused, W!CallStartsRun, W!CallSteers, W!TakeSteer
  <2>3. QED
    BY <1>2, <2>1, <2>2
<1>7. QED
  BY <1>1, <1>3, <1>4, <1>5, <1>6 DEF W!Next, W!Drain

\* The drain waits for an input that it saved, until its task ends.
LEMMA WaitStep ==
  ASSUME [W!Next]_inboxVars, ~W!HandOver
  PROVE  drain' = "wait" => drain = "wait" /\ plan' = plan
<1>1. CASE W!Request \/ W!Look \/ W!SaveConvert \/ W!DrainSaveFails \/ W!Wake
  BY <1>1
     DEF W!Request, W!Accept, W!ChangeItem, W!Pause, W!Reorder, W!RequestFails, W!Look,
         W!SaveConvert, W!DrainSaveFails, W!Wake, W!Schedule, W!Ended, W!drainer
<1>2. CASE \/ W!ForeignRun \/ W!RunEnds \/ W!Close \/ W!Crash \/ UNCHANGED inboxVars
           \/ \E i \in Items : W!Handing(i) \/ W!TakeSteer(i)
  BY <1>2
     DEF W!ForeignRun, W!RunEnds, W!Close, W!Crash, inboxVars, W!drainer, W!Handing,
         W!CallRefused, W!CallStartsRun, W!CallSteers, W!TakeSteer
<1>3. ASSUME NEW i \in Items, W!Settling(i)
      PROVE  drain' = "wait" => drain = "wait" /\ plan' = plan
  BY <1>3
     DEF W!Settling, W!Delivered, W!NotDelivered, W!NotSaved, W!TaskEnds, W!WakeAfter,
         W!Schedule, W!Ended
<1>4. QED
  BY <1>1, <1>2, <1>3 DEF W!Next, W!Drain

LEMMA PromptedStep ==
  ASSUME W!DataTyped, W!KnowsSent, W!HandlingInv, [W!Next]_inboxVars
  PROVE  Prompted'
<1>0. W!DataTyped /\ Prompted
  BY HandlingMeans
<1>1. CASE Gentle
  <2>1. prompting' = prompting
    BY <1>1
       DEF Gentle, W!Request, W!Accept, W!ChangeItem, W!Pause, W!Reorder, W!RequestFails,
           W!Look, W!SaveConvert, W!DrainSaveFails, W!Wake, W!ForeignRun, W!RunEnds,
           W!Close, inboxVars, W!drainer, W!Handing, W!CallRefused, W!CallStartsRun,
           W!CallSteers, W!TakeSteer
  <2>2. \A i \in Items : out[i] # "none" => out'[i] # "none"
    BY <1>1, StepTouches DEF Untouched
  <2>3. CASE ~W!HandOver
    BY <1>0, <2>1, <2>2, <2>3, WaitStep DEF Prompted, W!IsSteer
  <2>4. CASE W!HandOver
    <3>1. out'[plan.item] # "none" /\ out[plan.item] = "none" /\ plan.item \in Items
      BY <1>0, <2>4, HandOverUnsent DEF W!HandOver, W!DataTyped
    <3>2. QED
      BY <1>1, <3>1, StepTouches DEF Untouched
  <2>5. QED
    BY <2>3, <2>4
<1>2. CASE W!HandOver
  <2>1. /\ plan.item \in Items /\ out[plan.item] = "none"
        /\ out' = [ out EXCEPT ![plan.item] = "calling" ] /\ plan' = plan
        /\ prompting' = (prompting \/ ~plan.steering)
        /\ plan.steering \/ drain' # "wait"
    BY <1>0, <1>2, HandOverUnsent DEF W!HandOver, W!Ended
  <2>2. CASE plan.steering
    BY <1>0, <2>1, <2>2 DEF W!DataTyped, Prompted, W!IsSteer
  <2>3. CASE ~plan.steering
    BY <1>0, <2>1, <2>3 DEF W!DataTyped, Prompted, W!IsSteer
  <2>4. QED
    BY <2>2, <2>3
<1>3. ASSUME NEW i \in Items, W!Settling(i)
      PROVE  Prompted'
  <2>1. /\ out' = [ out EXCEPT ![i] = "none" ]
        /\ prompting' = (prompting /\ W!IsSteer(i)) /\ plan' = plan
    BY <1>3 DEF W!Settling, W!Delivered, W!NotDelivered, W!NotSaved, W!TaskEnds
  <2>2. W!IsSteer(i) => drain' # "wait"
    BY <1>3
       DEF W!Settling, W!Delivered, W!NotDelivered, W!NotSaved, W!TaskEnds, W!Ended
  <2>3. QED
    BY <1>0, <2>1, <2>2 DEF W!DataTyped, Prompted, W!IsSteer
<1>4. CASE W!Crash
  BY <1>4 DEF W!Crash, Prompted
<1>5. QED
  BY <1>1, <1>2, <1>3, <1>4 DEF W!Next, W!Drain, Gentle

LEMMA HandlingStep ==
  ASSUME W!DataTyped, W!KnowsSent, W!HandlingInv, [W!Next]_inboxVars
  PROVE  W!HandlingInv'
BY AgreedStep, PlannedStep, PromptedStep, HandlingMeans

-----------------------------------------------------------------------------
(* What the session took.                                                  *)

LEMMA TakenStep ==
  ASSUME W!DataTyped, W!HandlingInv, W!TakenInv, [W!Next]_inboxVars
  PROVE  W!TakenInv'
<1>0. W!DataTyped /\ W!HandlingInv /\ W!TakenInv
  OBVIOUS
<1> USE DEF W!TakenInv
<1>1. ASSUME taken' = taken, mistaken' = mistaken, ids \subseteq ids',
             steers' \subseteq steers,
             \A i \in Items : out'[i] = "calling" => out[i] = "calling"
      PROVE  W!TakenInv'
  BY <1>0, <1>1
<1>2. CASE \/ W!Request \/ W!Look \/ W!SaveConvert \/ W!DrainSaveFails \/ W!Wake
           \/ W!Close \/ UNCHANGED inboxVars
  <2>1. /\ out' = out /\ steers' = steers /\ taken' = taken /\ mistaken' = mistaken
        /\ ids' = ids
    BY <1>2
       DEF W!Request, W!Accept, W!ChangeItem, W!Pause, W!Reorder, W!RequestFails, W!Look,
           W!SaveConvert, W!DrainSaveFails, W!Wake, W!Close, W!sdk, W!names, W!history,
           inboxVars
  <2>2. QED
    BY <1>1, <2>1
<1>3. CASE W!HandOver
  <2>1. /\ plan.item \in Items /\ W!Unsent(plan.item)
        /\ out' = [ out EXCEPT ![plan.item] = "calling" ]
        /\ steers' = steers /\ taken' = taken /\ mistaken' = mistaken /\ ids' = ids
    BY <1>0, <1>3, HandOverUnsent DEF W!HandOver, W!sdk, W!history
  <2>2. QED
    BY <1>0, <2>1 DEF W!DataTyped, W!Unsent
<1>4. CASE W!ForeignRun \/ W!RunEnds
  <2>1. /\ steers' = steers /\ taken' = taken /\ mistaken' = mistaken
        /\ ids \subseteq ids'
    BY <1>4 DEF W!ForeignRun, W!RunEnds, W!MessageBegins, W!names, W!history
  <2>2. \A i \in Items : out'[i] = "calling" => out[i] = "calling"
    BY <1>0, <1>4 DEF W!ForeignRun, W!RunEnds, W!DataTyped
  <2>3. QED
    BY <1>1, <2>1, <2>2
<1>5. CASE W!Crash
  BY <1>1, <1>5 DEF W!Crash, W!history
<1>6. ASSUME NEW i \in Items, W!CallRefused(i) \/ W!Settling(i)
      PROVE  W!TakenInv'
  <2>1. taken' = taken /\ mistaken' = mistaken /\ ids' = ids /\ steers' = steers
    BY <1>6
       DEF W!CallRefused, W!Settling, W!Delivered, W!NotDelivered, W!NotSaved,
           W!TaskEnds, W!sdk, W!names, W!history
  <2>2. \A j \in Items : out'[j] = "calling" => out[j] = "calling"
    BY <1>0, <1>6
       DEF W!CallRefused, W!Settling, W!Delivered, W!NotDelivered, W!NotSaved,
           W!TaskEnds, W!DataTyped
  <2>3. QED
    BY <1>1, <2>1, <2>2
<1>7. ASSUME NEW i \in Items, W!CallSteers(i)
      PROVE  W!TakenInv'
  BY <1>0, <1>7 DEF W!CallSteers, W!DataTyped, W!names, W!history
<1>8. ASSUME NEW i \in Items, W!Take(i), out[i] = "calling" \/ i \in steers,
             \A j \in Items : out'[j] = "calling" => out[j] = "calling" /\ j # i,
             steers' \subseteq steers \ { i }
      PROVE  W!TakenInv'
  <2>1. /\ taken' = [ taken EXCEPT ![i] = IF @ = 2 THEN 2 ELSE @ + 1 ]
        /\ ids \subseteq ids' /\ mistaken \subseteq mistaken'
        /\ i \in ids' \/ i \in mistaken'
    BY <1>8 DEF W!Take, W!MessageBegins
  <2>2. i \notin mistaken => taken[i] = 0
    BY <1>0, <1>8
  <2>3. ASSUME NEW j \in Items, j \notin mistaken'
        PROVE  /\ taken'[j] <= 1 /\ (taken'[j] > 0 => j \in ids')
               /\ out'[j] = "calling" \/ j \in steers' => taken'[j] = 0
    BY <1>0, <1>8, <2>1, <2>2, <2>3 DEF W!DataTyped
  <2>4. QED
    BY <2>3
<1>9. ASSUME NEW i \in Items, W!CallStartsRun(i)
      PROVE  W!TakenInv'
  BY <1>0, <1>8, <1>9 DEF W!CallStartsRun, W!HandlingInv, W!DataTyped
<1>10. ASSUME NEW i \in Items, W!TakeSteer(i)
       PROVE  W!TakenInv'
  BY <1>0, <1>8, <1>10 DEF W!TakeSteer, W!HandlingInv, W!DataTyped
<1>11. QED
  BY <1>2, <1>3, <1>4, <1>5, <1>6, <1>7, <1>9, <1>10 DEF W!Next, W!Drain, W!Handing

-----------------------------------------------------------------------------
(* An inbox at rest.                                                       *)

Quiet ==
  /\ drain = "off" /\ ~nudge /\ session = NoItem /\ ~closed
  /\ \A i \in Items : out[i] = "none"

\* Nothing pending that may be sent without the user.
Stuck(d) ==
  d.paused \/ AnyAt(d, "failed") \/ AnyAt(d, "delivering") \/ ~AnyAt(d, "pending")

Rest == Quiet /\ ~spoiled => Stuck(W!Current)

LEMMA RestMeans == (W!NoWakeLost <=> Rest) /\ (W!NoWakeLost' <=> Rest')
<1>1. W!NoWakeLost <=> Rest
  BY DEF W!NoWakeLost, Rest, Quiet, Stuck, AnyAt, W!Some, W!IsPending, W!IsFailed, W!IsOut
<1>2. W!NoWakeLost' <=> Rest'
  BY DEF W!NoWakeLost, Rest, Quiet, Stuck, AnyAt, W!Some, W!IsPending, W!IsFailed, W!IsOut
<1>3. QED
  BY <1>1, <1>2

\* Numbers have a least one among them.
LEMMA LeastNumber ==
  ASSUME NEW T \in SUBSET Nat, T # { }
  PROVE  \E n \in T : \A m \in T : n <= m
<1>1. PICK less : IsWellFoundedOn(less, Nat) /\ less = { ss \in Nat \X Nat : ss[1] < ss[2] }
  <2>1. IsWellFoundedOn(OpToRel(<, Nat), Nat)
    BY NatLessThanWellFounded
  <2>2. QED
    BY <2>1, Zenon DEF OpToRel
<1>2. PICK n \in T : \A m \in T : << m, n >> \notin less
  BY <1>1, WFMin, Zenon
<1>3. \A m \in Nat, k \in Nat : m < k => << m, k >> \in less
  BY <1>1
<1>4. ASSUME NEW m \in T
      PROVE  n <= m
  <2>1. m \in Nat /\ n \in Nat
    OBVIOUS
  <2>2. ~(m < n)
    BY <1>2, <1>3, <2>1, Zenon
  <2>3. QED
    BY <2>1, <2>2
<1>5. QED
  BY <1>4

\* A drain that finds nothing to do leaves nothing to do.
LEMMA NothingToDo ==
  ASSUME W!DataTyped, W!Plans = { }, ~prompting, session = NoItem
  PROVE  Stuck(W!Current)
<1>1. PICK c \in W!DataType : c = W!Current
  BY CurrentData
<1>2. SUFFICES ASSUME ~c.paused, ~AnyAt(c, "failed"), AnyAt(c, "pending")
               PROVE  FALSE
  BY <1>1 DEF Stuck
<1>3. PICK T : T = { n \in DOMAIN c.items : c.items[n].status = "pending" }
  OBVIOUS
<1>4. T \in SUBSET Nat /\ T # { }
  BY <1>2, <1>3, ItemsOf DEF AnyAt
<1>5. PICK n \in T : \A m \in T : n <= m
  BY <1>4, LeastNumber
<1>6. ~W!Some(c, W!IsFailed)
  BY <1>2 DEF AnyAt, W!Some, W!IsFailed
<1>7. W!Plans = { [ item |-> c.items[k].id, steering |-> FALSE ] :
                  k \in { k \in T : \A m \in T : k <= m } }
  BY <1>1, <1>2, <1>3, <1>6, ZenonT(60) DEF W!Plans, W!IsPending
<1>8. QED
  BY <1>5, <1>7

LEMMA StuckAlike ==
  ASSUME NEW d, NEW e, Alike(d, e), Stuck(d)
  PROVE  Stuck(e)
BY DEF Alike, Stuck

\* A delivery that ends without an answer leaves an item to the user.
LEMMA SettledStuck ==
  ASSUME W!DataTyped, W!KnowsSent, NEW i \in Items,
         W!NotDelivered(i) \/ W!NotSaved(i)
  PROVE  loaded' /\ Stuck(held')
<1>1. out[i] # "none"
  BY DEF W!NotDelivered, W!NotSaved
<1>2. W!IsAt(W!Current, i, OnItsWay)
  BY <1>1, KnowsCurrent
<1>3. W!Has(W!Current, i) /\ AnyAt(W!Current, "delivering")
  BY <1>2 DEF W!IsAt, W!Has, AnyAt, OnItsWay
<1>4. CASE held' = W!Outcome(i)
  <2>1. AnyAt(W!Outcome(i), IF W!WasAccepted(i) THEN "delivering" ELSE "failed")
    BY <1>3, OutcomeSets, SeenAfterSet
  <2>2. QED
    BY <1>4, <2>1, SettledData DEF Stuck
<1>5. CASE held' = W!Current
  BY <1>3, <1>5, SettledData DEF Stuck
<1>6. QED
  BY <1>4, <1>5, SettledData

LEMMA RestStep ==
  ASSUME W!DataTyped, W!KnowsSent, W!HandlingInv, W!NoWakeLost, [W!Next]_inboxVars
  PROVE  W!NoWakeLost'
<1>0. W!DataTyped /\ Rest /\ Prompted
  BY RestMeans, HandlingMeans
<1> SUFFICES ASSUME Quiet', ~spoiled'
             PROVE  Stuck(W!Current)'
  BY RestMeans DEF Rest
<1>q. /\ drain' = "off" /\ ~nudge' /\ session' = NoItem /\ ~closed' /\ ~spoiled'
      /\ \A i \in Items : out'[i] = "none"
  BY DEF Quiet
<1>c. loaded' /\ Stuck(held') => Stuck(W!Current)'
  BY DEF W!Current, Stuck, AnyAt
<1>1. ASSUME W!Schedule, closed' = closed
      PROVE  FALSE
  BY <1>q, <1>1 DEF W!Schedule
<1>2. ASSUME NEW i \in Items, NEW d \in { "queue", "steer" }, W!Accept(i, d)
      PROVE  FALSE
  BY <1>1, <1>2 DEF W!Accept
<1>3. ASSUME NEW i \in Items, NEW edit \in { "remove", "retry", "steer" },
             W!ChangeItem(i, edit)
      PROVE  FALSE
  BY <1>1, <1>3 DEF W!ChangeItem
<1>4. CASE W!Wake
  BY <1>1, <1>4 DEF W!Wake
<1>5. CASE W!Pause
  <2>1. loaded' /\ held' = [ W!Current EXCEPT !.paused = TRUE ]
    BY <1>5 DEF W!Pause, W!Save
  <2>2. held'.paused
    BY <2>1, CurrentData DEF W!DataType
  <2>3. QED
    BY <1>c, <2>1, <2>2 DEF Stuck
<1>6. CASE W!Reorder \/ W!RequestFails
  <2>1. Quiet /\ ~spoiled
    BY <1>q, <1>6
       DEF W!Reorder, W!RequestFails, W!drainer, W!sdk, Quiet
  <2>2. Stuck(W!Current)
    BY <1>0, <2>1 DEF Rest
  <2>3. CASE W!Reorder
    BY <1>c, <2>2, <2>3, ReorderData, StuckAlike
  <2>4. CASE W!RequestFails
    BY <1>c, <2>2, <2>4 DEF W!RequestFails
  <2>5. QED
    BY <1>6, <2>3, <2>4
<1>7. CASE W!Look
  <2>1. /\ loaded' /\ held' = W!Current /\ W!Plans = { } /\ session = NoItem
        /\ out' = out /\ prompting' = prompting
    BY <1>q, <1>7 DEF W!Look, W!Ended, W!sdk
  <2>2. ~prompting
    BY <1>0, <1>q, <2>1 DEF Prompted
  <2>3. QED
    BY <1>c, <2>1, <2>2, NothingToDo
<1>8. CASE W!SaveConvert \/ W!HandOver \/ W!DrainSaveFails
  <2>1. CASE W!HandOver
    BY <1>0, <1>q, <2>1, HandOverUnsent DEF W!HandOver, W!DataTyped
  <2>2. CASE W!SaveConvert
    BY <1>q, <2>2 DEF W!SaveConvert
  <2>3. CASE W!DrainSaveFails
    <3>1. spoiled' <=> drain' = "off"
      BY <2>3, Zenon DEF W!DrainSaveFails
    <3>2. QED
      BY <1>q, <3>1
  <2>4. QED
    BY <1>8, <2>1, <2>2, <2>3
<1>9. ASSUME NEW i \in Items, W!Handing(i) \/ W!TakeSteer(i)
      PROVE  FALSE
  <2>1. CASE W!CallRefused(i) \/ W!CallSteers(i) \/ W!CallStartsRun(i)
    BY <1>0, <1>q, <2>1 DEF W!CallRefused, W!CallSteers, W!CallStartsRun, W!DataTyped
  <2>2. CASE W!TakeSteer(i)
    BY <1>q, <2>2 DEF W!TakeSteer
  <2>3. QED
    BY <1>9, <2>1, <2>2 DEF W!Handing
<1>10. ASSUME NEW i \in Items, W!Settling(i)
       PROVE  Stuck(W!Current)'
  <2>1. CASE W!Delivered(i)
    <3>1. closed' = closed
      BY <2>1 DEF W!Delivered, W!TaskEnds
    <3>2. CASE W!IsSteer(i)
      BY <1>q, <2>1, <3>1, <3>2 DEF W!Delivered, W!TaskEnds
    <3>3. CASE ~W!IsSteer(i)
      BY <1>1, <2>1, <3>1, <3>3 DEF W!Delivered, W!TaskEnds, W!WakeAfter
    <3>4. QED
      BY <3>2, <3>3
  <2>2. CASE W!NotDelivered(i) \/ W!NotSaved(i)
    BY <1>c, <2>2, SettledStuck
  <2>3. QED
    BY <1>10, <2>1, <2>2 DEF W!Settling
<1>11. CASE W!ForeignRun \/ W!RunEnds \/ W!Close \/ W!Crash
  BY <1>q, <1>11 DEF W!ForeignRun, W!RunEnds, W!Close, W!Crash
<1>12. CASE UNCHANGED inboxVars
  <2>1. Quiet /\ ~spoiled /\ W!Current' = W!Current
    BY <1>q, <1>12 DEF inboxVars, Quiet, W!Current
  <2>2. QED
    BY <1>0, <2>1 DEF Rest, Stuck, AnyAt
<1>13. QED
  BY <1>2, <1>3, <1>4, <1>5, <1>6, <1>7, <1>8, <1>9, <1>10, <1>11, <1>12
     DEF W!Next, W!Request, W!Drain

-----------------------------------------------------------------------------

LEMMA InboxInit ==
  ASSUME W!Init
  PROVE  W!InboxInv
<1>1. W!Empty \in W!DataType /\ \A i, T : ~W!IsAt(W!Empty, i, T)
  BY DEF W!Empty, W!DataType, W!IsAt
<1>2. W!DataTyped
  <2>1. plan \in [ item : Items \cup { NoItem }, steering : BOOLEAN ]
    BY DEF W!Init, W!Convert
  <2>2. taken \in [ Items -> 0 .. 2 ]
    BY DEF W!Init
  <2>3. QED
    BY <1>1, <2>1, <2>2 DEF W!Init, W!DataTyped
<1>3. W!KnowsSent
  BY <1>1 DEF W!Init, W!KnowsSent, W!Honest, W!Unsent
<1>4. W!HandlingInv
  BY NamesAssumption DEF W!Init, W!HandlingInv
<1>5. W!TakenInv
  BY DEF W!Init, W!TakenInv
<1>6. W!NoWakeLost
  <2>1. Stuck(W!Current)
    <3>1. W!Current = W!Loaded(W!Empty)
      BY DEF W!Init, W!Current
    <3>2. Alike(W!Empty, W!Loaded(W!Empty))
      BY <1>1, LoadedData, AlikeIfSame
    <3>3. Stuck(W!Empty)
      BY DEF Stuck, AnyAt, W!Empty
    <3>4. QED
      BY <3>1, <3>2, <3>3, StuckAlike
  <2>2. QED
    BY <2>1, RestMeans DEF Rest
<1>7. QED
  BY <1>2, <1>3, <1>4, <1>5, <1>6 DEF W!InboxInv

LEMMA InboxStep ==
  ASSUME W!InboxInv, [W!Next]_inboxVars
  PROVE  W!InboxInv'
BY InboxTypeStep, KnowsStep, HandlingStep, TakenStep, RestStep DEF W!InboxInv

\* For any set of inputs, however often the server dies, saves fail and the user
\* retries: the session takes an input of the inbox at most once, unless its
\* message was given another's id, and no pending input is left behind by an
\* inbox at rest for want of a wake-up (inbox.ts, drain and deliver).
THEOREM InboxHands == Spec => []InboxDelivers
<1>1. Init => W!InboxInv
  BY InboxInit DEF Init
<1>2. W!InboxInv /\ [Next]_vars => W!InboxInv'
  <2>1. [Next]_vars => [W!Next]_inboxVars
    BY DEF Next, vars, inboxVars
  <2>2. QED
    BY <2>1, InboxStep
<1>3. W!InboxInv => InboxDelivers
  BY DEF W!InboxInv, W!TakenInv, W!TakenOnce, InboxDelivers
<1>4. QED
  BY <1>1, <1>2, <1>3, PTL DEF Spec

-----------------------------------------------------------------------------
(* The credentials of a provider.                                          *)

\* What a token is made of, and that no login is the one that holds nothing.
LEMMA TokenParts ==
  /\ C!NoToken \in C!Tokens /\ C!NoToken[1] = Unlocked
  /\ \A l \in C!Logins, n \in 1 .. MaxTokens :
       << l, n >> \in C!Tokens /\ << l, n >> # C!NoToken
  /\ \A k \in C!Tokens : k # C!NoToken =>
       /\ k[1] \in C!Logins /\ k[2] \in 1 .. MaxTokens
       /\ k = << k[1], k[2] >>
  /\ C!Logins \subseteq Users /\ Unlocked \notin C!Logins
  BY CredentialsAssumption DEF C!Tokens, C!NoToken, C!Logins

LEMMA AuthInit == C!Init => C!CredentialsInv
<1> SUFFICES ASSUME C!Init
             PROVE  C!CredentialsInv
  OBVIOUS
<1>1. C!TypeOK
  <2>1. 0 \in 0 .. MaxTokens /\ 0 \in 0 .. MaxFaults
    BY CredentialsAssumption
  <2>2. QED
    BY <2>1, TokenParts DEF C!Init, C!TypeOK
<1>2. QED
  BY <1>1, TokenParts
  DEF C!Init, C!CredentialsInv, C!TypeOK, C!OneWorks, C!InHand, C!Answered,
      C!FileIsLatest, C!Offers, C!OfferedOnce, C!LogoutLasts,
      C!CancelledLoginIsNotSaved

\* A task that ends leaves its place, its answer and the locks well typed.
LEMMA OverTyped ==
  ASSUME C!TypeOK, NEW t \in Users, NEW from,
         NEW what \in { "done", "failed" }, C!Over(t, from, what)
  PROVE  /\ task' \in [ Users -> { "idle", "asking", "waiting", "locking",
                                  "inside", "sent", "writing", "over" } ]
         /\ told' \in [ Users -> { "nothing", "done", "failed", "aborted" } ]
         /\ guard' \in [ C!Procs -> Users \cup { Unlocked } ]
         /\ fileGuard' \in Users \cup { Unlocked }
  BY DEF C!TypeOK, C!Over, C!Go, C!Tell, C!Leave

\* A step keeps every variable in its type.
LEMMA AuthTypes == C!CredentialsInv /\ [C!Next]_authVars => C!TypeOK'
<1> SUFFICES ASSUME C!TypeOK, C!InHand, [C!Next]_authVars
             PROVE  C!TypeOK'
  BY DEF C!CredentialsInv
<1> USE CredentialsAssumption, TokenParts DEF C!TypeOK
<1>1. CASE C!Expire
  BY <1>1 DEF C!Expire
<1>2. ASSUME NEW x \in C!Procs, C!Reload(x)
      PROVE  C!TypeOK'
  BY <1>2 DEF C!Reload
<1>3. ASSUME NEW x \in C!Procs, C!Crash(x)
      PROVE  C!TypeOK'
  <2>1. \A t \in Users : task[t] = "writing" /\ UserKind[t] = "request" =>
          token[t][1] \in C!Logins
    BY DEF C!InHand, C!Successor
  <2>2. spoilt' \subseteq C!Logins
    BY <1>3, <2>1 DEF C!Crash
  <2>3. QED
    BY <1>3, <2>2 DEF C!Crash
<1>4. ASSUME NEW t \in Users, C!Resolve(t)
      PROVE  C!TypeOK'
  <2>1. CASE auth \in ran
    BY <1>4, <2>1 DEF C!Resolve, C!Go
  <2>2. CASE auth \notin ran
    BY <1>4, <2>2, OverTyped DEF C!Resolve
  <2>3. QED
    BY <2>1, <2>2
<1>5. ASSUME NEW t \in Users, C!AskUser(t)
      PROVE  C!TypeOK'
  BY <1>5 DEF C!AskUser, C!Go
<1>6. ASSUME NEW t \in Users, C!UserAnswers(t)
      PROVE  C!TypeOK'
  <2>1. t \in C!Logins /\ 1 \in 0 .. MaxTokens /\ << t, 1 >> \in C!Tokens
    BY <1>6 DEF C!UserAnswers, C!Go, C!InHand, C!Logins
  <2>2. QED
    BY <1>6, <2>1 DEF C!UserAnswers, C!Go
<1>7. ASSUME NEW t \in Users, C!AskLogout(t)
      PROVE  C!TypeOK'
  BY <1>7 DEF C!AskLogout, C!Go
<1>8. ASSUME NEW t \in Users, C!Lock(t)
      PROVE  C!TypeOK'
  BY <1>8 DEF C!Lock, C!Go
<1>9. ASSUME NEW t \in Users, C!LockFile(t)
      PROVE  C!TypeOK'
  BY <1>9 DEF C!LockFile, C!Go
<1>10. ASSUME NEW t \in Users, C!LockTimesOut(t)
      PROVE  C!TypeOK'
  BY <1>10, OverTyped DEF C!LockTimesOut
<1>11. ASSUME NEW t \in Users, C!Refuse(t)
      PROVE  C!TypeOK'
  BY <1>11, OverTyped DEF C!Refuse
<1>12. ASSUME NEW t \in Users, C!Offer(t)
      PROVE  C!TypeOK'
  BY <1>12, OverTyped DEF C!Offer, C!Go, C!Current
<1>13. ASSUME NEW t \in Users, C!Exchange(t)
      PROVE  C!TypeOK'
  BY <1>13 DEF C!Exchange, C!Go, C!Known, C!Successor, C!InHand
<1>14. ASSUME NEW t \in Users, C!Refused(t)
      PROVE  C!TypeOK'
  BY <1>14, OverTyped DEF C!Refused
<1>15. ASSUME NEW t \in Users, C!Unanswered(t)
      PROVE  C!TypeOK'
  BY <1>15, OverTyped DEF C!Unanswered, C!Known, C!Faulty
<1>16. ASSUME NEW t \in Users, C!SaveLogin(t)
      PROVE  C!TypeOK'
  BY <1>16 DEF C!SaveLogin, C!Go
<1>17. ASSUME NEW t \in Users, C!Drop(t)
      PROVE  C!TypeOK'
  <2>1. CASE auth = C!NoToken
    BY <1>17, <2>1, OverTyped DEF C!Drop
  <2>2. CASE auth # C!NoToken
    BY <1>17, <2>2 DEF C!Drop, C!Go
  <2>3. QED
    BY <2>1, <2>2
<1>18. ASSUME NEW t \in Users, C!Write(t)
      PROVE  C!TypeOK'
  BY <1>18, OverTyped DEF C!Write, C!Saved
<1>19. ASSUME NEW t \in Users, C!WriteUnsure(t)
      PROVE  C!TypeOK'
  <2>1. unsure' \subseteq C!Procs /\ faults' \in 0 .. MaxFaults
    BY <1>19 DEF C!WriteUnsure, C!Procs
  <2>2. auth' \in C!Tokens /\ gone' \in BOOLEAN
    BY <1>19 DEF C!WriteUnsure, C!Saved
  <2>3. QED
    BY <1>19, <2>1, <2>2, OverTyped DEF C!WriteUnsure
<1>20. ASSUME NEW t \in Users, C!WriteFails(t)
      PROVE  C!TypeOK'
  BY <1>20, OverTyped DEF C!WriteFails, C!Faulty
<1>21. ASSUME NEW t \in Users, C!Cancel(t)
      PROVE  C!TypeOK'
  BY <1>21 DEF C!Cancel, C!Leave, C!Tell
<1>22. CASE UNCHANGED authVars
  BY <1>22 DEF authVars
<1>23. QED
  BY <1>1, <1>2, <1>3, <1>4, <1>5, <1>6, <1>7, <1>8, <1>9, <1>10, <1>11, <1>12, <1>13, <1>14, <1>15, <1>16, <1>17, <1>18, <1>19, <1>20, <1>21, <1>22
  DEF C!Next

\* A step keeps the invariant of the credentials.
LEMMA AuthStep == C!CredentialsInv /\ [C!Next]_authVars => C!CredentialsInv'
<1> SUFFICES ASSUME C!CredentialsInv, [C!Next]_authVars
             PROVE  C!CredentialsInv'
  OBVIOUS
<1>0. C!TypeOK'
  BY AuthTypes
<1> USE <1>0, CredentialsAssumption, TokenParts
    DEF C!CredentialsInv, C!TypeOK, C!OneWorks, C!InHand, C!Answered,
      C!FileIsLatest, C!Offers, C!OfferedOnce, C!LogoutLasts,
      C!CancelledLoginIsNotSaved, C!Passed, C!Go, C!Tell, C!Leave, C!Over, C!Successor
<1>1. CASE C!Expire
  BY <1>1 DEF C!Expire
<1>2. ASSUME NEW x \in C!Procs, C!Reload(x)
      PROVE  C!CredentialsInv'
  BY <1>2 DEF C!Reload
<1>3. ASSUME NEW x \in C!Procs, C!Crash(x)
      PROVE  C!CredentialsInv'
  BY <1>3 DEF C!Crash, C!Procs
<1>4. ASSUME NEW t \in Users, C!Resolve(t)
      PROVE  C!CredentialsInv'
  BY <1>4 DEF C!Resolve
<1>5. ASSUME NEW t \in Users, C!AskUser(t)
      PROVE  C!CredentialsInv'
  BY <1>5 DEF C!AskUser
<1>6. ASSUME NEW t \in Users, C!UserAnswers(t)
      PROVE  C!CredentialsInv'
  <2>0. t \in C!Logins /\ 1 \in 0 .. MaxTokens /\ << t, 1 >> \in C!Tokens
    BY <1>6 DEF C!UserAnswers, C!Logins
  <2>2. C!OneWorks'
    BY <1>6 DEF C!UserAnswers
  <2>3. C!InHand'
    BY <1>6, <2>0 DEF C!UserAnswers
  <2>4. C!Answered'
    BY <1>6 DEF C!UserAnswers
  <2>5. C!FileIsLatest'
    BY <1>6 DEF C!UserAnswers
  <2>6. C!Offers'
    BY <1>6 DEF C!UserAnswers
  <2>7. C!OfferedOnce'
    BY <1>6 DEF C!UserAnswers
  <2>8. C!LogoutLasts'/\C!CancelledLoginIsNotSaved'
    BY <1>6 DEF C!UserAnswers
  <2>9. QED
    BY <1>0, <2>2, <2>3, <2>4, <2>5, <2>6, <2>7, <2>8
<1>7. ASSUME NEW t \in Users, C!AskLogout(t)
      PROVE  C!CredentialsInv'
  BY <1>7 DEF C!AskLogout
<1>8. ASSUME NEW t \in Users, C!Lock(t)
      PROVE  C!CredentialsInv'
  <2>2. C!OneWorks'
    BY <1>8 DEF C!Lock
  <2>3. C!InHand'
    BY <1>8 DEF C!Lock
  <2>4. C!Answered'
    BY <1>8 DEF C!Lock
  <2>5. C!FileIsLatest'
    BY <1>8 DEF C!Lock
  <2>6. C!Offers'
    BY <1>8 DEF C!Lock
  <2>7. C!OfferedOnce'
    BY <1>8 DEF C!Lock
  <2>8. C!LogoutLasts'/\C!CancelledLoginIsNotSaved'
    BY <1>8 DEF C!Lock
  <2>9. QED
    BY <1>0, <2>2, <2>3, <2>4, <2>5, <2>6, <2>7, <2>8
<1>9. ASSUME NEW t \in Users, C!LockFile(t)
      PROVE  C!CredentialsInv'
  BY <1>9 DEF C!LockFile, C!MayEnter
<1>10. ASSUME NEW t \in Users, C!LockTimesOut(t)
      PROVE  C!CredentialsInv'
  <2>2. C!OneWorks'
    BY <1>10 DEF C!LockTimesOut
  <2>3. C!InHand'
    BY <1>10 DEF C!LockTimesOut
  <2>4. C!Answered'
    BY <1>10 DEF C!LockTimesOut
  <2>5. C!FileIsLatest'
    BY <1>10 DEF C!LockTimesOut
  <2>6. C!Offers'
    BY <1>10 DEF C!LockTimesOut
  <2>7. C!OfferedOnce'
    BY <1>10 DEF C!LockTimesOut
  <2>8. C!LogoutLasts'/\C!CancelledLoginIsNotSaved'
    BY <1>10 DEF C!LockTimesOut
  <2>9. QED
    BY <1>0, <2>2, <2>3, <2>4, <2>5, <2>6, <2>7, <2>8
<1>11. ASSUME NEW t \in Users, C!Refuse(t)
      PROVE  C!CredentialsInv'
  BY <1>11 DEF C!Refuse
<1>12. ASSUME NEW t \in Users, C!Offer(t)
      PROVE  C!CredentialsInv'
  <2>2. C!OneWorks'
    BY <1>12 DEF C!Offer, C!Current
  <2>3. C!InHand'
    BY <1>12 DEF C!Offer, C!Current
  <2>4. C!Answered'
    BY <1>12 DEF C!Offer, C!Current
  <2>5. C!FileIsLatest'
    BY <1>12 DEF C!Offer, C!Current
  <2>6. C!Offers'
    BY <1>12 DEF C!Offer, C!Current
  <2>7. C!OfferedOnce'
    BY <1>12 DEF C!Offer, C!Current
  <2>8. C!LogoutLasts'/\C!CancelledLoginIsNotSaved'
    BY <1>12 DEF C!Offer, C!Current
  <2>9. QED
    BY <1>0, <2>2, <2>3, <2>4, <2>5, <2>6, <2>7, <2>8
<1>13. ASSUME NEW t \in Users, C!Exchange(t)
      PROVE  C!CredentialsInv'
  BY <1>13 DEF C!Exchange, C!Known
<1>14. ASSUME NEW t \in Users, C!Refused(t)
      PROVE  C!CredentialsInv'
  <2>2. C!OneWorks'
    BY <1>14 DEF C!Refused, C!Known
  <2>3. C!InHand'
    BY <1>14 DEF C!Refused, C!Known
  <2>4. C!Answered'
    BY <1>14 DEF C!Refused, C!Known
  <2>5. C!FileIsLatest'
    BY <1>14 DEF C!Refused, C!Known
  <2>6. C!Offers'
    BY <1>14 DEF C!Refused, C!Known
  <2>7. C!OfferedOnce'
    BY <1>14 DEF C!Refused, C!Known
  <2>8. C!LogoutLasts'/\C!CancelledLoginIsNotSaved'
    BY <1>14 DEF C!Refused, C!Known
  <2>9. QED
    BY <1>0, <2>2, <2>3, <2>4, <2>5, <2>6, <2>7, <2>8
<1>15. ASSUME NEW t \in Users, C!Unanswered(t)
      PROVE  C!CredentialsInv'
  <2>2. C!OneWorks'
    BY <1>15 DEF C!Unanswered, C!Known, C!Faulty
  <2>3. C!InHand'
    BY <1>15 DEF C!Unanswered, C!Known, C!Faulty
  <2>4. C!Answered'
    BY <1>15 DEF C!Unanswered, C!Known, C!Faulty
  <2>5. C!FileIsLatest'
    BY <1>15 DEF C!Unanswered, C!Known, C!Faulty
  <2>6. C!Offers'
    BY <1>15 DEF C!Unanswered, C!Known, C!Faulty
  <2>7. C!OfferedOnce'
    BY <1>15 DEF C!Unanswered, C!Known, C!Faulty
  <2>8. C!LogoutLasts'/\C!CancelledLoginIsNotSaved'
    BY <1>15 DEF C!Unanswered, C!Known, C!Faulty
  <2>9. QED
    BY <1>0, <2>2, <2>3, <2>4, <2>5, <2>6, <2>7, <2>8
<1>16. ASSUME NEW t \in Users, C!SaveLogin(t)
      PROVE  C!CredentialsInv'
  BY <1>16 DEF C!SaveLogin
<1>17. ASSUME NEW t \in Users, C!Drop(t)
      PROVE  C!CredentialsInv'
  <2>2. C!OneWorks'
    BY <1>17 DEF C!Drop
  <2>3. C!InHand'
    BY <1>17 DEF C!Drop
  <2>4. C!Answered'
    BY <1>17 DEF C!Drop
  <2>5. C!FileIsLatest'
    BY <1>17 DEF C!Drop
  <2>6. C!Offers'
    BY <1>17 DEF C!Drop
  <2>7. C!OfferedOnce'
    BY <1>17 DEF C!Drop
  <2>8. C!LogoutLasts'/\C!CancelledLoginIsNotSaved'
    BY <1>17 DEF C!Drop
  <2>9. QED
    BY <1>0, <2>2, <2>3, <2>4, <2>5, <2>6, <2>7, <2>8
<1>18. ASSUME NEW t \in Users, C!Write(t)
      PROVE  C!CredentialsInv'
  <2>2. C!OneWorks'
    BY <1>18 DEF C!Write, C!Saved
  <2>3. C!InHand'
    BY <1>18 DEF C!Write, C!Saved
  <2>4. C!Answered'
    BY <1>18 DEF C!Write, C!Saved
  <2>5. C!FileIsLatest'
    BY <1>18 DEF C!Write, C!Saved
  <2>6. C!Offers'
    BY <1>18 DEF C!Write, C!Saved
  <2>7. C!OfferedOnce'
    BY <1>18 DEF C!Write, C!Saved
  <2>8. C!LogoutLasts'/\C!CancelledLoginIsNotSaved'
    BY <1>18 DEF C!Write, C!Saved
  <2>9. QED
    BY <1>0, <2>2, <2>3, <2>4, <2>5, <2>6, <2>7, <2>8
<1>19. ASSUME NEW t \in Users, C!WriteUnsure(t)
      PROVE  C!CredentialsInv'
  <2>2. C!OneWorks'
    BY <1>19 DEF C!WriteUnsure, C!Saved
  <2>3. C!InHand'
    BY <1>19 DEF C!WriteUnsure, C!Saved
  <2>4. C!Answered'
    BY <1>19 DEF C!WriteUnsure, C!Saved
  <2>5. C!FileIsLatest'
    BY <1>19 DEF C!WriteUnsure, C!Saved
  <2>6. C!Offers'
    BY <1>19 DEF C!WriteUnsure, C!Saved
  <2>7. C!OfferedOnce'
    BY <1>19 DEF C!WriteUnsure, C!Saved
  <2>8. C!LogoutLasts'/\C!CancelledLoginIsNotSaved'
    BY <1>19 DEF C!WriteUnsure, C!Saved
  <2>9. QED
    BY <1>0, <2>2, <2>3, <2>4, <2>5, <2>6, <2>7, <2>8
<1>20. ASSUME NEW t \in Users, C!WriteFails(t)
      PROVE  C!CredentialsInv'
  <2>2. C!OneWorks'
    BY <1>20 DEF C!WriteFails, C!Faulty
  <2>3. C!InHand'
    BY <1>20 DEF C!WriteFails, C!Faulty
  <2>4. C!Answered'
    BY <1>20 DEF C!WriteFails, C!Faulty
  <2>5. C!FileIsLatest'
    BY <1>20 DEF C!WriteFails, C!Faulty
  <2>6. C!Offers'
    BY <1>20 DEF C!WriteFails, C!Faulty
  <2>7. C!OfferedOnce'
    BY <1>20 DEF C!WriteFails, C!Faulty
  <2>8. C!LogoutLasts'/\C!CancelledLoginIsNotSaved'
    BY <1>20 DEF C!WriteFails, C!Faulty
  <2>9. QED
    BY <1>0, <2>2, <2>3, <2>4, <2>5, <2>6, <2>7, <2>8
<1>21. ASSUME NEW t \in Users, C!Cancel(t)
      PROVE  C!CredentialsInv'
  BY <1>21 DEF C!Cancel, C!GoesOn
<1>22. CASE UNCHANGED authVars
  BY <1>22 DEF authVars
<1>23. QED
  BY <1>1, <1>2, <1>3, <1>4, <1>5, <1>6, <1>7, <1>8, <1>9, <1>10, <1>11, <1>12,
     <1>13, <1>14, <1>15, <1>16, <1>17, <1>18, <1>19, <1>20, <1>21, <1>22
  DEF C!Next

\* For any tasks of any processes, however they are cancelled, crash, time out
\* or fail to write: the token in the file can be used unless a fault lost its
\* successor, none is offered twice for exchange without one, and neither a
\* refresh undoes a logout nor is a cancelled login saved.
THEOREM CredentialsStay == Spec => []CredentialsKept
<1>1. Init => C!CredentialsInv
  BY AuthInit DEF Init
<1>2. C!CredentialsInv /\ [Next]_vars => C!CredentialsInv'
  BY AuthStep DEF Next, vars, authVars
<1>3. C!CredentialsInv => C!TokenIsUsable
  BY TokenParts
  DEF C!CredentialsInv, C!TypeOK, C!FileIsLatest, C!InHand, C!TokenIsUsable,
      C!Successor
<1>4. C!CredentialsInv => CredentialsKept
  BY <1>3 DEF C!CredentialsInv, CredentialsKept, C!CredentialsKept
<1>5. QED
  BY <1>1, <1>2, <1>4, PTL DEF Spec
=============================================================================
