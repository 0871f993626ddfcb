---------------------------- MODULE ChildProcess ----------------------------
(***************************************************************************)
(* A command that runs in a process group of its own, as the shell tools,  *)
(* the values of the configuration and the external search run them        *)
(* (bash.rs, config_value.rs, search_process.rs): a thread that polls the  *)
(* child, one reader for each of its pipes, the caller that waits for the  *)
(* answer and may cancel it or drop it.  A descendant of the command may   *)
(* stay in the group (kin) or leave it (stray) and keep the pipes open.    *)
(* That the kernel gives the number of a group to others is left out.      *)
(***************************************************************************)
EXTENDS Naturals

CONSTANTS
  Uses,      \* who runs the command
  MaxWrites  \* bound: chunks that are written

Pipes == { "out", "err" }

VARIABLES
  use, limited,          \* who runs it, and whether it has a time limit
  caller,                \* "waits", "gone" or "has" the answer
  main, why,             \* the thread and how the command ended for it
  cancelled, late, over, \* the token, the time limit and the drain's
  shell, kin, stray,     \* the processes
  wrote, read, given,    \* chunks of a pipe: written, read, handed over
  reader,                \* "polls", "hands" over, or "done"
  stop, failed,          \* stop_readers; callback_failed, or `stopped`
  broken                 \* a poll or a read failed

vars == << use, limited, caller, main, why, cancelled, late, over, shell, kin,
           stray, wrote, read, given, reader, stop, failed, broken >>

processes == << shell, kin, stray, wrote >>
threads == << read, given, reader, broken >>

\* Configuration commands and searches have no pipe for errors.
UsedPipes == IF use = "shell" THEN Pipes ELSE { "out" }

Init ==
  /\ use \in Uses /\ limited \in BOOLEAN
  /\ use # "shell" => limited
  /\ caller = "waits" /\ main = "starts" /\ why = "none"
  /\ cancelled = FALSE /\ late = FALSE /\ over = FALSE
  /\ shell = "none" /\ kin = FALSE /\ stray = FALSE
  /\ wrote = [ p \in Pipes |-> 0 ] /\ read = wrote /\ given = wrote
  /\ reader = [ p \in Pipes |-> "none" ]
  /\ stop = FALSE /\ failed = FALSE /\ broken = FALSE

-----------------------------------------------------------------------------
(* The command and its descendants *)

Writing == shell = "runs" \/ kin \/ stray

Write ==
  /\ Writing /\ \E p \in UsedPipes :
       /\ wrote["out"] + wrote["err"] < MaxWrites
       /\ wrote' = [ wrote EXCEPT ![p] = @ + 1 ]
  /\ UNCHANGED << use, limited, caller, main, why, cancelled, late, over,
                  shell, kin, stray, threads, stop, failed >>

Fork ==
  /\ shell = "runs" /\ ~ kin /\ ~ stray
  /\ kin' \in BOOLEAN /\ stray' \in BOOLEAN /\ (kin' \/ stray')
  /\ UNCHANGED << use, limited, caller, main, why, cancelled, late, over,
                  shell, wrote, threads, stop, failed >>

Exit ==
  /\ \/ shell = "runs" /\ shell' = "exited" /\ UNCHANGED << kin, stray >>
     \/ kin /\ kin' = FALSE /\ UNCHANGED << shell, stray >>
     \/ stray /\ stray' = FALSE /\ UNCHANGED << shell, kin >>
  /\ UNCHANGED << use, limited, caller, main, why, cancelled, late, over,
                  wrote, threads, stop, failed >>

-----------------------------------------------------------------------------
(* The caller and the clock *)

Cancel ==
  /\ ~ cancelled /\ main # "ends" /\ cancelled' = TRUE
  /\ UNCHANGED << use, limited, caller, main, why, late, over, processes,
                  threads, stop, failed >>

\* The guard cancels the token of the command: nobody waits for it any more.
Drop ==
  /\ caller = "waits" /\ caller' = "gone" /\ cancelled' = TRUE
  /\ UNCHANGED << use, limited, main, why, late, over, processes, threads,
                  stop, failed >>

TimePasses ==
  /\ \/ /\ limited /\ ~ late /\ main \in { "polls", "tries" }
        /\ late' = TRUE /\ UNCHANGED over
     \/ /\ main = "drains" /\ ~ over /\ over' = TRUE /\ UNCHANGED late
  /\ UNCHANGED << use, limited, caller, main, why, cancelled, processes,
                  threads, stop, failed >>

-----------------------------------------------------------------------------
(* The thread of the command *)

Answers(outcome) ==
  /\ main' = "ends" /\ why' = outcome
  /\ caller' = IF caller = "waits" THEN "has" ELSE caller

Start ==
  /\ main = "starts"
  /\ \/ cancelled /\ Answers("aborted") /\ UNCHANGED << shell, reader >>
     \/ ~ cancelled /\ Answers("not started") /\ UNCHANGED << shell, reader >>
     \/ /\ ~ cancelled /\ main' = "polls" /\ shell' = "runs"
        /\ reader' = [ p \in Pipes |-> IF p \in UsedPipes THEN "polls" ELSE "none" ]
        /\ UNCHANGED << caller, why >>
  /\ UNCHANGED << use, limited, cancelled, late, over, kin, stray, wrote, read,
                  given, stop, failed, broken >>

\* The command of a configuration value looks at its clock only after the
\* child, so that a child that has ended in time is not late.
Poll ==
  /\ main = "polls"
  /\ IF cancelled \/ failed
     THEN main' = "kills" /\ why' = IF failed THEN "failed" ELSE "aborted"
     ELSE IF late /\ use # "config"
     THEN main' = "kills" /\ why' = "timeout"
     ELSE main' = "tries" /\ UNCHANGED why
  /\ UNCHANGED << use, limited, caller, cancelled, late, over, processes,
                  threads, stop, failed >>

Try ==
  /\ main = "tries"
  /\ \/ /\ shell = "exited" /\ shell' = "reaped"
        /\ main' = "kills" /\ why' = "exit"
     \/ /\ shell = "runs" /\ UNCHANGED shell
        /\ IF late /\ use = "config"
           THEN main' = "kills" /\ why' = "timeout"
           ELSE main' = "polls" /\ UNCHANGED why
     \/ main' = "kills" /\ why' = "lost" /\ UNCHANGED shell
  /\ UNCHANGED << use, limited, caller, cancelled, late, over, kin, stray,
                  wrote, threads, stop, failed >>

\* kill_process_tree_sync, however the command ended: the group dies.
Kill ==
  /\ main = "kills" /\ main' = "reaps"
  /\ kin' = FALSE
  /\ shell' = IF shell = "runs" THEN "exited" ELSE shell
  /\ UNCHANGED << use, limited, caller, why, cancelled, late, over, stray,
                  wrote, threads, stop, failed >>

Reap ==
  /\ main = "reaps" /\ main' = "drains" /\ shell' = "reaped"
  /\ UNCHANGED << use, limited, caller, why, cancelled, late, over, kin, stray,
                  wrote, threads, stop, failed >>

AllRead == \A p \in UsedPipes : reader[p] = "done"

\* A slip: whoever holds the pipe is waited for.
DrainedWhenRead == AllRead

\* A slip: what is still in the pipe is left there.
DrainedAtOnce == TRUE

\* finish_pipe_readers: the rest of the output is waited for, but not for ever.
Drained == AllRead \/ over

Drain ==
  /\ main = "drains" /\ Drained
  /\ main' = "joins" /\ stop' = TRUE
  /\ UNCHANGED << use, limited, caller, why, cancelled, late, over, processes,
                  threads, failed >>

\* What the command came to, once its readers have ended.  A search looks at
\* its token and its clock again, and takes a record that nobody wants to be
\* the end.
Outcome ==
  IF use = "search" /\ cancelled THEN "aborted"
  ELSE IF use = "search" /\ late THEN "timeout"
  ELSE IF use = "search" /\ failed THEN "enough"
  ELSE IF use = "shell" /\ failed /\ why \in { "exit", "aborted" } THEN "failed"
  ELSE why

Join ==
  /\ main = "joins" /\ AllRead
  /\ Answers(Outcome)
  /\ UNCHANGED << use, limited, cancelled, late, over, processes, threads,
                  stop, failed >>

-----------------------------------------------------------------------------
(* The readers *)

Read(p) ==
  /\ reader[p] = "polls"
  /\ \/ stop /\ reader' = [ reader EXCEPT ![p] = "done" ] /\ UNCHANGED << read, broken >>
     \/ /\ read[p] < wrote[p]
        /\ read' = [ read EXCEPT ![p] = @ + 1 ]
        /\ reader' = [ reader EXCEPT ![p] = "hands" ] /\ UNCHANGED broken
     \/ /\ read[p] = wrote[p] /\ ~ Writing
        /\ reader' = [ reader EXCEPT ![p] = "done" ] /\ UNCHANGED << read, broken >>
     \/ /\ ~ broken /\ broken' = TRUE   \* poll was interrupted, or read failed
        /\ reader' = [ reader EXCEPT ![p] = "done" ] /\ UNCHANGED read
  /\ UNCHANGED << use, limited, caller, main, why, cancelled, late, over,
                  processes, given, stop, failed >>

\* on_data may panic, a search may want no more records.  A shell's readers
\* stop then; the reader of a search goes on until the thread stops it.
Hand(p) ==
  /\ reader[p] = "hands" /\ reader' = [ reader EXCEPT ![p] = "polls" ]
  /\ given' = [ given EXCEPT ![p] = @ + 1 ]
  /\ \/ UNCHANGED << stop, failed >>
     \/ use = "shell" /\ failed' = TRUE /\ stop' = TRUE
     \/ use = "search" /\ failed' = TRUE /\ UNCHANGED stop
  /\ UNCHANGED << use, limited, caller, main, why, cancelled, late, over,
                  processes, read, broken >>

Thread == Start \/ Poll \/ Try \/ Kill \/ Reap \/ Drain \/ Join
Readers == \E p \in Pipes : Read(p) \/ Hand(p)

Next ==
  \/ Write \/ Fork \/ Exit \/ Cancel \/ Drop \/ TimePasses \/ Thread \/ Readers

\* The threads go on and time passes; the processes need not do anything.
Fairness ==
  /\ WF_vars(Thread) /\ WF_vars(TimePasses)
  /\ \A p \in Pipes : WF_vars(Read(p) \/ Hand(p))

Spec == Init /\ [][Next]_vars /\ Fairness

-----------------------------------------------------------------------------
\* When the call has ended, its shell is reaped and nothing of its group
\* lives, nobody reads any more, and a command that ended by itself was heard
\* to the end: unless a process outside the group kept the pipe open for too
\* long, or reading failed.
CleanEnd ==
  main = "ends" =>
    /\ shell \in { "none", "reaped" } /\ ~ kin
    /\ \A p \in UsedPipes : reader[p] \in { "none", "done" }
    /\ why = "exit" /\ ~ over /\ ~ broken => given = wrote

\* A command that has ended, is cancelled, dropped or late, or whose output
\* nobody wants is over some time later, whoever holds its pipes.
Over == shell = "exited" \/ cancelled \/ late \/ failed
Ended == main = "ends"

CommandsEnd == Over ~> Ended
=============================================================================
