----------------------------- MODULE MCClients ------------------------------
(***************************************************************************)
(* The parts of the system that talk to servers and other programs: the    *)
(* answers of a model provider, from the bytes to who wants them, the      *)
(* models of a provider, the requests to an MCP server and the commands    *)
(* that are run.  They share no state: a behaviour is one of one part, the *)
(* others rest in their initial states, and each module is checked as it   *)
(* would be alone.                                                         *)
(***************************************************************************)
EXTENDS Naturals, TLC

CONSTANTS
  Apis, MaxBlocks, MaxPieces, MaxRetries,
  Bytes, MaxBytes, MaxChunk,
  MaxEvents, Waiters,
  Jobs, JobKind, JobSets, NoJob, MaxLists, MaxFailures,
  Calls, MaxProgress,
  Messages, NoMessage, MaxTries, MaxForgets, MaxBreaks,
  Uses, MaxWrites

CONSTANTS
  jFirst, jSecond, jLogin, jRegister, jRotate, jRead

MCApis ==
  { "anthropic", "responses", "completions", "silent", "google", "proxy" }

\* Every byte but the one that stands for any other.
MCBytes == { "data", "event", "lead", "tail", "cr", "nl" }

\* Two refreshes; a refresh or a login beside other changes, and a reader.
MCJobKind ==
  jFirst :> "refresh" @@ jSecond :> "refresh" @@ jLogin :> "login" @@
  jRegister :> "register" @@ jRotate :> "rotate" @@ jRead :> "read"
MCJobSets ==
  { { jFirst, jSecond }, { jFirst, jRegister, jRead },
    { jFirst, jLogin }, { jLogin, jRegister, jRotate } }

VARIABLES
  part,
  api, said, why, pc, retries, cancelled, answer, heard,
  fed, parser, events, fedAll,
  queue, discard, done, result, waker, writer, reader, waiter, notified,
  pushed, got, has,
  instance, dynamic, cache, listed, generation, publishing, changes, secret,
  credentials, views, snapshot, step, its, stale, passed, failures,
  place, table, answers, ended, forsaken, reset, server, wire, hand, receiver,
  link, progress,
  id, expired, gate, live, given, stand, tag, again, handled, fate, stream,
  shut, forgets, breaks,
  use, limited, caller, main, ending, aborted, late, over, shell, kin, stray,
  wrote, read, handed, drain, stop, failed, broken

A == INSTANCE ProviderStream
S == INSTANCE SseParser WITH ended <- fedAll
Q == INSTANCE AnswerQueue WITH told <- notified
G == INSTANCE ModelCatalog
R == INSTANCE McpClient
H == INSTANCE McpHttp
P == INSTANCE ChildProcess WITH
       why <- ending, cancelled <- aborted, given <- handed, reader <- drain

ASSUME ClientsAssumption ==
  /\ Apis \subseteq A!AllApis
  /\ JobKind \in [ Jobs -> G!Kinds ] /\ JobSets # { }
  /\ \A set \in JobSets : set \subseteq Jobs
  /\ Bytes \subseteq { "data", "event", "lead", "tail", "cr", "nl", "x" }
  /\ Uses \subseteq { "shell", "config", "search" } /\ MaxWrites \in Nat
  /\ NoJob \notin Jobs /\ NoMessage \notin Messages
  /\ MaxChunk \in Nat \ { 0 }
  /\ { MaxBlocks, MaxPieces, MaxRetries, MaxBytes, MaxEvents,
       MaxLists, MaxFailures, MaxProgress, MaxTries, MaxForgets,
       MaxBreaks } \subseteq Nat

answerVars == << api, said, why, pc, retries, cancelled, answer, heard >>
parserVars == << fed, parser, events, fedAll >>
queueVars == << queue, discard, done, result, waker, writer, reader, waiter,
                notified, pushed, got, has >>
modelVars == << instance, dynamic, cache, listed, generation, publishing,
                changes, secret, credentials, views, snapshot, step, its,
                stale, passed, failures >>
callVars == << place, table, answers, ended, forsaken, reset, server, wire,
               hand, receiver, link, progress >>
httpVars == << id, expired, gate, live, given, stand, tag, again, handled,
               fate, stream, shut, forgets, breaks >>
commandVars == << use, limited, caller, main, ending, aborted, late, over,
                  shell, kin, stray, wrote, read, handed, drain, stop, failed,
                  broken >>
vars == << part, answerVars, parserVars, queueVars, modelVars,
           callVars, httpVars, commandVars >>

Init ==
  /\ part \in { "answer", "parser", "queue", "models", "calls", "http",
             "command" }
  /\ A!Init /\ S!Init /\ Q!Init /\ G!Init /\ R!Init /\ H!Init
  /\ P!Init
  /\ part # "answer" => api = CHOOSE x \in Apis : TRUE
  /\ part # "models" =>
       \A j \in CHOOSE x \in JobSets : TRUE : step[j] = "idle"
  /\ part # "command" => use = (CHOOSE u \in Uses : TRUE) /\ limited

Next ==
  /\ UNCHANGED part
  /\ \/ /\ part = "answer" /\ A!Next
        /\ UNCHANGED << parserVars, queueVars, modelVars, callVars, httpVars, commandVars >>
     \/ /\ part = "parser" /\ S!Next
        /\ UNCHANGED << answerVars, queueVars, modelVars, callVars, httpVars, commandVars >>
     \/ /\ part = "queue" /\ Q!Next
        /\ UNCHANGED << answerVars, parserVars, modelVars, callVars, httpVars, commandVars >>
     \/ /\ part = "models" /\ G!Next
        /\ UNCHANGED << answerVars, parserVars, queueVars, callVars, httpVars, commandVars >>
     \/ /\ part = "calls" /\ R!Next
        /\ UNCHANGED << answerVars, parserVars, queueVars, modelVars, httpVars, commandVars >>
     \/ /\ part = "http" /\ H!Next
        /\ UNCHANGED << answerVars, parserVars, queueVars, modelVars, callVars, commandVars >>
     \/ /\ part = "command" /\ P!Next
        /\ UNCHANGED << answerVars, parserVars, queueVars, modelVars, callVars, httpVars >>

\* Requests and commands are scheduled fairly when they are what runs.
Fairness ==
  /\ R!Fairness
  /\ WF_commandVars(part = "command" /\ P!Thread)
  /\ WF_commandVars(part = "command" /\ P!TimePasses)
  /\ \A p \in P!Pipes :
       WF_commandVars(part = "command" /\ (P!Read(p) \/ P!Hand(p)))

Spec == Init /\ [][Next]_vars /\ Fairness

-----------------------------------------------------------------------------
(* What each part promises; the properties are explained in their modules. *)

\* An answer that is acted upon is all that the provider said; its bytes make
\* the same events whatever the chunks, and the events reach who wants them.
AnswersArrive ==
  /\ part = "answer" => A!AnswersAreWhole
  /\ part = "parser" => S!ChunksMakeNoDifference
  /\ part = "queue" => Q!EventsArrive

\* The models that are shown are those that were asked for last.
CatalogIsCurrent == G!CatalogIsCurrent

\* A request to an MCP server ends, with its own reply if that came in time,
\* and runs once at most in a session that the server forgets.
McpServesCalls == R!McpCallsEnd /\ [](part = "http" => H!CallsInSession)

\* A command ends, leaves nothing of its group behind and is heard to the end.
CommandsEndCleanly ==
  part = "command" => []P!CleanEnd /\ P!CommandsEnd
=============================================================================
