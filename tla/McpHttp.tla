------------------------------ MODULE McpHttp -------------------------------
(***************************************************************************)
(* Messages to an MCP server over HTTP, in a session that the server may   *)
(* forget at any time (StreamableHttpTransport).  A message that meets a   *)
(* forgotten session has the session made anew, once for all who meet it,  *)
(* and is sent again; a stream of the server's own messages is read beside *)
(* them.  The first session has been made.                                 *)
(***************************************************************************)
EXTENDS Naturals

CONSTANTS
  Messages,
  NoMessage,
  MaxTries,    \* reconnect_max_retries: fruitless attempts at the stream
  MaxForgets,  \* bound on the sessions the server forgets
  MaxBreaks    \* bound on requests whose answer is lost or not waited for

VARIABLES
  id,         \* the session the transport knows, 0: none
  expired,    \* it must be made anew before anything is sent
  gate,       \* the message that makes it anew
  live,       \* the session the server knows, 0: none
  given,      \* how many sessions the server has given
  stand,      \* where a message is
  tag,        \* the session it was sent with, or wants to leave
  again,      \* it was sent a second time
  handled,    \* how often the server handled it
  fate,       \* what its sender was told
  stream,     \* the stream of the server's messages: see Streams
  shut,       \* the transport was closed
  forgets, breaks

vars == << id, expired, gate, live, given, stand, tag, again, handled, fate,
           stream, shut, forgets, breaks >>

\* A stream that is given up is asked for again only in another session.
Streams == { "off", "asking", "open", "quit" }

Sessions == 0 .. 1 + MaxForgets + MaxBreaks

TypeOK ==
  /\ { id, live, given } \subseteq Sessions /\ expired \in BOOLEAN
  /\ gate \in Messages \cup { NoMessage }
  /\ stand \in [ Messages -> { "idle", "ready", "posted", "waiting", "making",
                               "made", "telling", "over" } ]
  /\ tag \in [ Messages -> Sessions ] /\ again \in [ Messages -> BOOLEAN ]
  /\ fate \in [ Messages -> { "none", "ok", "refused", "unknown" } ]
  /\ stream \in [ is : Streams, of : Sessions, tries : 0 .. MaxTries ]
  /\ shut \in BOOLEAN /\ forgets \in 0 .. MaxForgets /\ breaks \in 0 .. MaxBreaks

Off == [ is |-> "off", of |-> 0, tries |-> 0 ]
Asking(n) == [ is |-> "asking", of |-> 0, tries |-> n ]

Init ==
  /\ id = 1 /\ live = 1 /\ given = 1 /\ expired = FALSE /\ gate = NoMessage
  /\ stand = [ m \in Messages |-> "idle" ] /\ tag = [ m \in Messages |-> 0 ]
  /\ again = [ m \in Messages |-> FALSE ]
  /\ handled = [ m \in Messages |-> 0 ]
  /\ fate = [ m \in Messages |-> "none" ]
  /\ stream = Asking(0)
  /\ shut = FALSE /\ forgets = 0 /\ breaks = 0

Go(m, from, to) == stand[m] = from /\ stand' = [ stand EXCEPT ![m] = to ]

Over(m, from, what) ==
  /\ Go(m, from, "over") /\ fate' = [ fate EXCEPT ![m] = what ]
  /\ gate' = IF gate = m THEN NoMessage ELSE gate

server == << live, given, handled, forgets, breaks >>

-----------------------------------------------------------------------------
(* A message.                                                              *)

\* Before it is sent: is the session to be made anew?
Check(m) ==
  /\ ~shut /\ Go(m, "idle", IF expired THEN "waiting" ELSE "ready")
  /\ UNCHANGED << id, expired, gate, server, tag, again, fate, stream, shut >>

\* The session is looked up when the request is put together.
Post(m) ==
  /\ Go(m, "ready", "posted") /\ tag' = [ tag EXCEPT ![m] = id ]
  /\ UNCHANGED << id, expired, gate, server, again, fate, stream, shut >>

\* The server knows the session and handles the message.
Handle(m) ==
  /\ tag[m] = live /\ live # 0 /\ Over(m, "posted", "ok")
  /\ handled' = [ handled EXCEPT ![m] = @ + 1 ]
  /\ UNCHANGED << id, expired, live, given, tag, again, stream, shut, forgets,
                  breaks >>

\* It does not know it: the first time, the session is made anew.
SentAgain(m) == ~again[m] /\ tag[m] # 0

NotFound(m) ==
  /\ stand[m] = "posted" /\ (tag[m] # live \/ live = 0)
  /\ IF SentAgain(m)
     THEN /\ Go(m, "posted", "waiting")
          /\ again' = [ again EXCEPT ![m] = TRUE ]
          /\ UNCHANGED << fate, gate >>
     ELSE Over(m, "posted", "refused") /\ UNCHANGED again
  /\ UNCHANGED << id, expired, server, tag, stream, shut >>

-----------------------------------------------------------------------------
(* Making the session anew, one at a time.                                 *)

\* Another message has done it meanwhile.
NeverRenewed(m) == FALSE
Renewed(m) == ~expired /\ id # (IF again[m] THEN tag[m] ELSE 0)

Gate(m) ==
  /\ gate = NoMessage
  /\ IF Renewed(m)
     THEN /\ Go(m, "waiting", "ready")
          /\ UNCHANGED << id, expired, gate, stream >>
     ELSE /\ Go(m, "waiting", "making") /\ gate' = m
          /\ id' = 0 /\ expired' = TRUE
          /\ stream' = Off
  /\ UNCHANGED << server, tag, again, fate, shut >>

\* The server gives a session ...
Given(m) ==
  /\ Go(m, "making", "made") /\ given < MaxForgets + MaxBreaks + 1
  /\ live' = given + 1 /\ given' = given + 1
  /\ tag' = [ tag EXCEPT ![m] = given + 1 ]
  /\ UNCHANGED << id, expired, gate, handled, again, fate, stream, shut,
                  forgets, breaks >>

Take(m) ==
  /\ Go(m, "made", "telling") /\ id' = tag[m]
  /\ UNCHANGED << expired, gate, server, tag, again, fate, stream, shut >>

\* ... and is told that the client has it.  Only then is the session good.
Told(m) ==
  /\ IF live = id
     THEN /\ Go(m, "telling", "ready") /\ gate' = NoMessage
          /\ expired' = FALSE /\ stream' = Asking(0)
          /\ UNCHANGED fate
     ELSE Over(m, "telling", "refused") /\ UNCHANGED << expired, stream >>
  /\ UNCHANGED << id, server, tag, again, shut >>

-----------------------------------------------------------------------------
(* The stream of the server's own messages.                                *)

\* start_get(): one stream at a time.
Ask ==
  /\ stream.is = "asking" /\ stream.of = 0 /\ ~shut /\ id # 0
  /\ stream' = [ stream EXCEPT !.of = id ]
  /\ UNCHANGED << id, expired, gate, server, stand, tag, again, fate, shut >>

\* A stream that finds the session forgotten leaves that to the next message.
Answered ==
  /\ stream.is = "asking" /\ stream.of # 0
  /\ IF stream.of = live
     THEN stream' = [ stream EXCEPT !.is = "open" ] /\ UNCHANGED << id, expired >>
     ELSE /\ stream' = Off
          /\ IF id = stream.of THEN id' = 0 /\ expired' = TRUE
             ELSE UNCHANGED << id, expired >>
  /\ UNCHANGED << gate, server, stand, tag, again, fate, shut >>

\* The server has no such stream, or its answer cannot be read: the stream is
\* given up for good.
GivenUp == [ stream EXCEPT !.is = "quit", !.tries = 0 ]

StreamRefused ==
  /\ \/ stream.is = "asking" /\ stream.of # 0
     \/ stream.is = "open"
  /\ stream' = GivenUp
  /\ UNCHANGED << id, expired, gate, server, stand, tag, again, fate, shut >>

\* The request fails, or the stream ends with nothing read: it is asked for
\* again, but not for ever.
StreamFails ==
  /\ \/ stream.is = "asking" /\ stream.of # 0
     \/ stream.is = "open"
  /\ stream' = IF stream.tries < MaxTries THEN Asking(stream.tries + 1)
                ELSE GivenUp
  /\ UNCHANGED << id, expired, gate, server, stand, tag, again, fate, shut >>

\* It ends after something was read.
StreamEnds ==
  /\ stream.is = "open" /\ stream' = Asking(0)
  /\ UNCHANGED << id, expired, gate, server, stand, tag, again, fate, shut >>

-----------------------------------------------------------------------------
(* What goes wrong, and the end.                                           *)

Forget ==
  /\ forgets < MaxForgets /\ live # 0
  /\ live' = 0 /\ forgets' = forgets + 1
  /\ UNCHANGED << id, expired, gate, given, stand, tag, again, handled, fate,
                  stream, shut, breaks >>

Running == { "ready", "posted", "waiting", "making", "made", "telling" }

\* The answer is lost, or the caller waits no longer: the server may have
\* handled the message, or have given a session nobody knows of.
Break(m) ==
  /\ breaks < MaxBreaks /\ breaks' = breaks + 1
  /\ stand[m] \in Running /\ Over(m, stand[m], "unknown")
  /\ \/ UNCHANGED << handled, live, given >>
     \/ /\ stand[m] = "posted" /\ tag[m] = live /\ live # 0
        /\ handled' = [ handled EXCEPT ![m] = @ + 1 ]
        /\ UNCHANGED << live, given >>
     \/ /\ stand[m] = "making" /\ given < MaxForgets + MaxBreaks + 1
        /\ live' = given + 1 /\ given' = given + 1
        /\ UNCHANGED handled
  /\ UNCHANGED << id, expired, tag, again, stream, shut, forgets >>

\* What runs is dropped, and the session that is known is given back.
Close ==
  /\ ~shut /\ shut' = TRUE
  /\ stand' = [ m \in Messages |-> "over" ]
  /\ fate' = [ m \in Messages |->
                 IF stand[m] \in Running THEN "unknown" ELSE fate[m] ]
  /\ gate' = NoMessage /\ stream' = Off /\ id' = 0
  /\ live' = IF live = id THEN 0 ELSE live
  /\ UNCHANGED << expired, given, tag, again, handled, forgets, breaks >>

Next ==
  \/ \E m \in Messages :
       \/ Check(m) \/ Post(m) \/ Handle(m) \/ NotFound(m) \/ Gate(m)
       \/ Given(m) \/ Take(m) \/ Told(m) \/ Break(m)
  \/ Ask \/ Answered \/ StreamRefused \/ StreamFails \/ StreamEnds
  \/ Forget \/ Close

Spec == Init /\ [][Next]_vars

-----------------------------------------------------------------------------
(* What the callers rely on.                                               *)

\* A call runs at most once, did run if its sender was given an answer, and
\* did not if its sender was told that it was refused.
CallsRunOnce ==
  \A m \in Messages :
    /\ handled[m] <= 1
    /\ fate[m] = "ok" => handled[m] = 1
    /\ fate[m] = "refused" => handled[m] = 0

\* Several messages that meet a forgotten session have one made, not one
\* each: every session but the first stands for one that was forgotten or
\* for an attempt that was broken off.
OneSessionForAll == given <= 1 + forgets + breaks

\* Once everything has come to rest with a good session, the server's own
\* messages are read in it, are asked for, or were given up in this very
\* session: what became of the stream in an earlier one does not count.
StreamFollowsSession ==
  (\A m \in Messages : stand[m] \in { "idle", "over" }) /\ ~shut =>
    \/ expired \/ live # id
    \/ stream.is # "off" /\ stream.of \in { 0, id }

CallsInSession == CallsRunOnce /\ OneSessionForAll /\ StreamFollowsSession
=============================================================================
