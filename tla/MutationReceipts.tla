-------------------------- MODULE MutationReceipts --------------------------
(***************************************************************************)
(* A request of the browser that changes something carries a key           *)
(* (web/server/session/receipts.ts, and writeOnce of web/server/api.ts).   *)
(* The key is reserved in a file before the action and completed after it; *)
(* requests that come with the key meanwhile wait for the first.  The      *)
(* browser may send a request again at any time, with another body too.    *)
(***************************************************************************)
EXTENDS Naturals, Sequences

CONSTANTS
  Requests,    \* requests, all with the same key
  SignatureOf, \* of a request: its method, path and body
  NoRequest

VARIABLES
  stage,    \* of a request
  receipt,  \* the file of the key: its status and signature
  work,     \* the request whose job others wait for
  joined,   \* the request a joiner waits for
  result,   \* of a job that settled: the signature of what it did, or "error"
  effects   \* history: the signatures of the actions that had an effect

vars == << stage, receipt, work, joined, result, effects >>

Stages == { "new", "read", "reserve", "act", "complete", "settled", "joined",
            "check", "done", "conflict", "failed", "dropped" }
Replied == { "done", "conflict", "failed" }
Signatures == { SignatureOf[r] : r \in Requests }
Missing == [ status |-> "missing", signature |-> NoRequest ]

TypeOK ==
  /\ stage \in [ Requests -> Stages ]
  /\ receipt \in [ status : { "missing", "started", "done" },
                   signature : Signatures \cup { NoRequest } ]
  /\ work \in Requests \cup { NoRequest }
  /\ joined \in [ Requests -> Requests \cup { NoRequest } ]

Init ==
  /\ stage = [ r \in Requests |-> "new" ]
  /\ receipt = Missing /\ work = NoRequest
  /\ joined = [ r \in Requests |-> NoRequest ]
  /\ result = [ r \in Requests |-> "none" ]
  /\ effects = << >>

Go(r, s) == stage' = [ stage EXCEPT ![r] = s ]

\* The job of r is over: with an answer, or with an error.
Settle(r, answer) ==
  /\ Go(r, "settled") /\ result' = [ result EXCEPT ![r] = answer ]

-----------------------------------------------------------------------------
(* once().                                                                 *)

Begin(r) ==
  /\ stage[r] = "new" /\ work = NoRequest
  /\ Go(r, "read") /\ work' = r
  /\ UNCHANGED << receipt, joined, result, effects >>

Join(r) ==
  /\ stage[r] = "new" /\ work # NoRequest
  /\ Go(r, "joined") /\ joined' = [ joined EXCEPT ![r] = work ]
  /\ UNCHANGED << receipt, work, result, effects >>

\* A slip: a reservation without an end is taken over.
ReadUnlessDone(r) ==
  IF receipt.status = "done"
  THEN IF receipt.signature = SignatureOf[r] THEN Settle(r, receipt.signature)
                                             ELSE Settle(r, "conflict")
  ELSE Go(r, "reserve") /\ UNCHANGED result

\* What the file says of the key decides whether there is anything to do.
ReadReceipt(r) ==
  IF receipt = Missing THEN Go(r, "reserve") /\ UNCHANGED result
  ELSE IF receipt.signature # SignatureOf[r] \/ receipt.status # "done"
       THEN Settle(r, "conflict")
       ELSE Settle(r, receipt.signature)

Read(r) ==
  /\ stage[r] = "read" /\ ReadReceipt(r)
  /\ UNCHANGED << receipt, work, joined, effects >>

Saved(r, status) ==
  receipt' = [ status |-> status, signature |-> SignatureOf[r] ]

Reserve(r) ==
  /\ stage[r] = "reserve"
  /\ Saved(r, "started") /\ Go(r, "act")
  /\ UNCHANGED << work, joined, result, effects >>

\* The action, which waits for its turn at the session, and may throw before
\* or after it changed something.
Act(r) ==
  /\ stage[r] = "act"
  /\ effects' \in { effects, Append(effects, SignatureOf[r]) }
  /\ \/ effects' # effects /\ Go(r, "complete") /\ UNCHANGED result
     \/ Settle(r, "error")
  /\ UNCHANGED << receipt, work, joined >>

Complete(r) ==
  /\ stage[r] = "complete"
  /\ Saved(r, "done") /\ Settle(r, SignatureOf[r])
  /\ UNCHANGED << work, joined, effects >>

SaveFails(r) ==
  /\ stage[r] \in { "reserve", "complete" }
  /\ Settle(r, "error")
  /\ UNCHANGED << receipt, work, joined, effects >>

\* The stage of a request that is answered with what a job came to.
Answer(answer) ==
  IF answer \in Signatures THEN "done"
  ELSE IF answer = "conflict" THEN "conflict" ELSE "failed"

\* The job's own request answers, and forgets the job.
Reply(r) ==
  /\ stage[r] = "settled"
  /\ Go(r, Answer(result[r])) /\ work' = NoRequest
  /\ UNCHANGED << receipt, joined, result, effects >>

\* A slip: a joiner answers as the job did.
JoinerTrusts(r) == Go(r, Answer(result[joined[r]])) /\ UNCHANGED joined

\* A joiner fails with the job, or else reads the file once more.
JoinerChecks(r) ==
  /\ UNCHANGED joined
  /\ IF result[joined[r]] \in Signatures THEN Go(r, "check")
     ELSE Go(r, Answer(result[joined[r]]))

JoinerWakes(r) ==
  /\ stage[r] = "joined" /\ result[joined[r]] # "none"
  /\ JoinerChecks(r)
  /\ UNCHANGED << receipt, work, result, effects >>

JoinerReplies(r) ==
  /\ stage[r] = "check"
  /\ Go(r, IF receipt.signature = SignatureOf[r] THEN "done" ELSE "conflict")
  /\ UNCHANGED << receipt, work, joined, result, effects >>

-----------------------------------------------------------------------------

\* The server dies; requests that were not answered get none.
Crash ==
  /\ stage' = [ r \in Requests |->
                  IF stage[r] \in Replied \cup { "new" } THEN stage[r]
                                                        ELSE "dropped" ]
  /\ work' = NoRequest
  /\ UNCHANGED << receipt, joined, result, effects >>

Step(r) ==
  \/ Begin(r) \/ Join(r) \/ Read(r) \/ Reserve(r) \/ Act(r) \/ Complete(r)
  \/ SaveFails(r) \/ Reply(r) \/ JoinerWakes(r) \/ JoinerReplies(r)

Next == Crash \/ \E r \in Requests : Step(r)

Spec == Init /\ [][Next]_vars

-----------------------------------------------------------------------------

\* What a key stands for happens at most once, whoever sends it and however
\* often, and a request is only told that it is done if it is what happened.
KeyActsOnce ==
  /\ Len(effects) <= 1
  /\ \A r \in Requests : stage[r] = "done" => effects = << SignatureOf[r] >>

\* Why it holds: only the request that does the work writes the file, and what
\* the file says of the key tells how far the work has come.
ReceiptsTyped ==
  /\ TypeOK
  /\ result \in [ Requests -> Signatures \cup { "none", "error", "conflict" } ]
  /\ effects \in Seq(Signatures)

OwnerInv ==
  \A r \in Requests :
    /\ stage[r] \in { "read", "reserve", "act", "complete", "settled" } => work = r
    /\ stage[r] = "reserve" => receipt = Missing
    /\ stage[r] = "act" => receipt.status = "started" /\ effects = << >>
    /\ stage[r] = "complete" =>
         receipt.status = "started" /\ effects = << SignatureOf[r] >>

FileInv ==
  /\ Len(effects) <= 1
  /\ receipt.status = "missing" => receipt = Missing /\ effects = << >>
  /\ receipt.status = "done" => effects = << receipt.signature >>

AnswerInv ==
  \A r \in Requests :
    /\ stage[r] = "joined" => joined[r] \in Requests
    /\ result[r] \in Signatures =>
         receipt = [ status |-> "done", signature |-> SignatureOf[r] ]
    /\ stage[r] = "check" => receipt.status = "done"
    /\ stage[r] = "done" => effects = << SignatureOf[r] >>

ReceiptInv == ReceiptsTyped /\ OwnerInv /\ FileInv /\ AnswerInv
=============================================================================
