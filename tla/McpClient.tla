----------------------------- MODULE McpClient ------------------------------
(***************************************************************************)
(* Requests to an MCP server over one connection (McpClient::request, the  *)
(* receiving task of connect, close).  A request is entered in the table   *)
(* of those that wait, sent, and ended by its reply, by cancellation, by   *)
(* its deadline or by the end of the connection.  Progress notifications   *)
(* put the deadline off.                                                   *)
(***************************************************************************)
EXTENDS Naturals, FiniteSets

CONSTANTS
  Calls,         \* the requests, each with an id of its own
  MaxProgress    \* bound on progress notifications

VARIABLES
  place,      \* where a request is
  table,      \* the requests that wait, by id
  answers,    \* by request: what was put into its channel
  ended,      \* by request: what its caller was told
  forsaken,   \* requests whose caller has cancelled
  reset,      \* requests whose deadline is to be put off
  server,     \* requests the server has and has not answered
  wire,       \* replies on their way
  hand,       \* requests whose reply the receiver has just taken out
  receiver,   \* "on", "ending" or "off"
  link,       \* "up", "closing" or "down"
  progress

vars == << place, table, answers, ended, forsaken, reset, server, wire, hand,
           receiver, link, progress >>

TypeOK ==
  /\ place \in [ Calls -> { "idle", "ready", "entered", "sent", "over" } ]
  /\ { table, forsaken, reset, server, wire, hand } \subseteq SUBSET Calls
  /\ answers \in [ Calls -> { "none", "reply", "closed" } ]
  /\ ended \in [ Calls -> { "none", "reply", "closed", "aborted", "late" } ]
  /\ receiver \in { "on", "ending", "off" }
  /\ link \in { "up", "closing", "down" } /\ progress \in 0 .. MaxProgress

Init ==
  /\ place = [ c \in Calls |-> "idle" ] /\ table = { }
  /\ answers = [ c \in Calls |-> "none" ] /\ ended = [ c \in Calls |-> "none" ]
  /\ forsaken = { } /\ reset = { } /\ server = { } /\ wire = { } /\ hand = { }
  /\ receiver = "on" /\ link = "up" /\ progress = 0

Go(c, from, to) == place[c] = from /\ place' = [ place EXCEPT ![c] = to ]

outside == << server, wire, hand, receiver, link, progress >>

\* However a request ends, it leaves the table (PendingRequestGuard).
Stays(c) == table
Leaves(c) == table \ { c }

Over(c, what) ==
  /\ place' = [ place EXCEPT ![c] = "over" ]
  /\ ended' = [ ended EXCEPT ![c] = what ]
  /\ table' = Leaves(c) /\ reset' = reset \ { c }

-----------------------------------------------------------------------------
(* A request.                                                              *)

\* It takes the connection, if there is one and it was not cancelled ...
Begin(c) ==
  /\ IF link # "down"
     THEN Go(c, "idle", "ready") /\ UNCHANGED << table, reset, ended >>
     ELSE place[c] = "idle" /\ Over(c, "closed")
  /\ UNCHANGED << answers, forsaken, outside >>

\* ... enters itself, and is sent.  The connection may be closed meanwhile.
Enter(c) ==
  /\ Go(c, "ready", "entered") /\ table' = table \cup { c }
  /\ UNCHANGED << answers, ended, forsaken, reset, outside >>

Send(c) ==
  /\ place[c] = "entered" /\ answers[c] = "none"
  /\ IF link # "down"
     THEN /\ Go(c, "entered", "sent") /\ server' = server \cup { c }
          /\ UNCHANGED << table, reset, ended >>
     ELSE Over(c, "closed") /\ UNCHANGED server
  /\ UNCHANGED << answers, forsaken, wire, hand, receiver, link, progress >>

\* What is in the channel is looked at before anything else.
WaitsBlindly(c) == place[c] \in { "entered", "sent" }
Waits(c) == place[c] \in { "entered", "sent" } /\ answers[c] = "none"

End(c) ==
  /\ place[c] \in { "entered", "sent" } /\ answers[c] # "none"
  /\ Over(c, answers[c]) /\ UNCHANGED << answers, forsaken, outside >>

GiveUp(c) ==
  /\ place[c] # "over" /\ forsaken' = forsaken \cup { c }
  /\ UNCHANGED << place, table, answers, ended, reset, outside >>

Abort(c) ==
  /\ c \in forsaken /\ (Waits(c) \/ place[c] = "idle") /\ Over(c, "aborted")
  /\ UNCHANGED << answers, forsaken, outside >>

\* A progress notification is served before the deadline.
PutOff(c) ==
  /\ Waits(c) /\ c \notin forsaken /\ c \in reset
  /\ reset' = reset \ { c }
  /\ UNCHANGED << place, table, answers, ended, forsaken, outside >>

Deadline(c) ==
  /\ Waits(c) /\ c \notin forsaken /\ c \notin reset /\ Over(c, "late")
  /\ UNCHANGED << answers, forsaken, outside >>

-----------------------------------------------------------------------------
(* The server, and the task that receives.                                 *)

Reply(c) ==
  /\ link # "down" /\ c \in server
  /\ server' = server \ { c } /\ wire' = wire \cup { c }
  /\ UNCHANGED << place, table, answers, ended, forsaken, reset, hand,
                  receiver, link, progress >>

Progress(c) ==
  /\ receiver = "on" /\ c \in server /\ c \in table
  /\ progress < MaxProgress /\ progress' = progress + 1
  /\ reset' = reset \cup { c }
  /\ UNCHANGED << place, table, answers, ended, forsaken, server, wire, hand,
                  receiver, link >>

\* A reply whose request is not in the table any more is passed over.
Receive(c) ==
  /\ receiver = "on" /\ hand = { } /\ c \in wire
  /\ wire' = wire \ { c } /\ table' = table \ { c }
  /\ hand' = IF c \in table THEN { c } ELSE { }
  /\ UNCHANGED << place, answers, ended, forsaken, reset, server, receiver,
                  link, progress >>

Puts(c, what) ==
  answers' = [ d \in Calls |->
                 IF d \in c /\ answers[d] = "none" THEN what ELSE answers[d] ]

Deliver ==
  /\ hand # { } /\ hand' = { } /\ Puts(hand, "reply")
  /\ UNCHANGED << place, table, ended, forsaken, reset, server, wire,
                  receiver, link, progress >>

\* The server goes away: its last replies are still read.
Dies ==
  /\ link = "up" /\ link' = "down" /\ server' = { }
  /\ UNCHANGED << place, table, answers, ended, forsaken, reset, wire, hand,
                  receiver, progress >>

\* When nothing more can come, or the client was closed, those that are in
\* the table are told.
EndReceiving ==
  /\ receiver \in { "on", "ending" } /\ hand = { }
  /\ receiver = "ending" \/ (link = "down" /\ wire = { })
  /\ receiver' = "off" /\ Puts(table, "closed") /\ table' = { }
  /\ UNCHANGED << place, ended, forsaken, reset, server, wire, hand, link,
                  progress >>

\* close(): the receiver is to stop, those in the table are told ...
Close ==
  /\ link # "closing" /\ receiver = "on"
  /\ receiver' = "ending" /\ Puts(table, "closed") /\ table' = { }
  /\ link' = IF link = "up" THEN "closing" ELSE link
  /\ UNCHANGED << place, ended, forsaken, reset, server, wire, hand, progress >>

\* ... and the connection is closed.
CloseLink ==
  /\ link = "closing" /\ link' = "down" /\ server' = { }
  /\ UNCHANGED << place, table, answers, ended, forsaken, reset, wire, hand,
                  receiver, progress >>

Next ==
  \/ \E c \in Calls :
       \/ Begin(c) \/ Enter(c) \/ Send(c) \/ End(c) \/ GiveUp(c) \/ Abort(c)
       \/ PutOff(c) \/ Deadline(c) \/ Reply(c) \/ Progress(c) \/ Receive(c)
  \/ Deliver \/ Dies \/ EndReceiving \/ Close \/ CloseLink

\* A task that can go on does, and so does the clock.
Fairness ==
  \A c \in Calls :
    /\ WF_vars(Enter(c)) /\ WF_vars(Send(c)) /\ WF_vars(End(c))
    /\ WF_vars(Abort(c)) /\ WF_vars(PutOff(c)) /\ WF_vars(Deadline(c))

Spec == Init /\ [][Next]_vars /\ Fairness

-----------------------------------------------------------------------------
(* What the callers rely on.                                               *)

\* A request that has begun ends, also one that entered the table when the
\* connection had told everyone in it that it was closed.
CallsEnd ==
  \A c \in Calls : place[c] = "ready" ~> place[c] = "over"

\* No request that has ended is kept in the table, and a reply is for a
\* request that waits for it: nobody is told of a reply of another.
NothingIsKept ==
  /\ \A c \in table : place[c] \in { "entered", "sent" }
  /\ \A c \in Calls :
       /\ ended[c] = "reply" => answers[c] = "reply"
       /\ answers[c] = "reply" => c \notin server \cup wire \cup hand

\* A reply that was put into the channel in time is not reported as missing:
\* the channel is looked at before the clock and the caller's cancellation.
RepliesCount ==
  [][ \A c \in Calls : answers[c] = "reply" /\ ended[c] = "none" =>
        ended'[c] \in { "none", "reply" } ]_vars

McpCallsEnd == [] NothingIsKept /\ RepliesCount /\ CallsEnd
=============================================================================
