---------------------------- MODULE Orchestrator ----------------------------
(***************************************************************************)
(* orchestrator_SFC1.py: in every round it runs a number of traffic senders, *)
(* each as a process with a reader thread, and waits for all of them.  The   *)
(* readers add the rates that the senders print to shared_sum, and a thread  *)
(* posts the sum to the monitor once a second and resets it, with the lock   *)
(* of the sum held during the POST, which has no timeout.                    *)
(* A reader looks at the timeout of its sender only between two lines.  A    *)
(* line that is no number raises twice and ends its sender.                  *)
(* Rates are counted, not added; the senders and the passing of time are     *)
(* the environment.                                                         *)
(***************************************************************************)
EXTENDS Integers, Sequences

CONSTANTS
    Script,         \* the senders that a round may run
    Rounds,         \* per round, the senders it runs
    MaxPipe,        \* bound: lines in a pipe
    MaxOwed         \* bound: the senders print nothing while so many rates are owed

ASSUME OrchAssumption ==
    /\ Rounds \in Seq(SUBSET Script)
    /\ MaxPipe \in Nat /\ MaxOwed \in Nat

VARIABLES
    round,          \* rounds begun
    process,        \* per sender: is it running, its stdout, is its time over
    reader,         \* per sender: the place of its thread in run_script
    shared_sum,
    poster,         \* print_shared_sum: its place and the sum it is posting
    owed            \* history: rates added by readers and not in a POST that ended

orchVars == <<round, process, reader, shared_sum, poster, owed>>

-----------------------------------------------------------------------------
(* The senders and the clock                                               *)

\* A sender prints a rate, or the text of an exception.
PrintLine(s, line) ==
    /\ process[s].running
    /\ Len(process[s].pipe) < MaxPipe /\ owed < MaxOwed
    /\ process' = [process EXCEPT ![s].pipe = Append(@, line)]
    /\ UNCHANGED <<round, reader, shared_sum, poster, owed>>

Exit(s) ==
    /\ process[s].running
    /\ process' = [process EXCEPT ![s].running = FALSE]
    /\ UNCHANGED <<round, reader, shared_sum, poster, owed>>

\* The timeout of the sender has passed.
RunsOut(s) ==
    /\ process[s].running /\ ~process[s].late
    /\ process' = [process EXCEPT ![s].late = TRUE]
    /\ UNCHANGED <<round, reader, shared_sum, poster, owed>>

-----------------------------------------------------------------------------
(* The rounds and the readers                                              *)

Over == \A s \in Script : reader[s] = "done"

\* All futures of the last round have completed.
run_multiple_scripts ==
    /\ Over
    /\ round < Len(Rounds)
    /\ round' = round + 1
    /\ reader' = [s \in Script |-> IF s \in Rounds[round + 1] THEN "start" ELSE "done"]
    /\ UNCHANGED <<process, shared_sum, poster, owed>>

Goto(s, pc) == reader' = [reader EXCEPT ![s] = pc]

StartScript(s) ==
    /\ reader[s] = "start"
    /\ process' = [process EXCEPT ![s] = [running |-> TRUE, pipe |-> <<>>, late |-> FALSE]]
    /\ Goto(s, "read")
    /\ UNCHANGED <<round, shared_sum, poster, owed>>

\* readline waits for a line, whatever the time.
ReadLine(s) ==
    /\ reader[s] = "read"
    /\ process[s].pipe # <<>>
    /\ Goto(s, IF Head(process[s].pipe) = "rate" THEN "add" ELSE "invalid")
    /\ process' = [process EXCEPT ![s].pipe = Tail(@)]
    /\ UNCHANGED <<round, shared_sum, poster, owed>>

\* The sender is gone and its pipe empty: readline returns at once.
ReadEnd(s) ==
    /\ reader[s] = "read"
    /\ process[s].pipe = <<>> /\ ~process[s].running
    /\ Goto(s, "check")
    /\ UNCHANGED <<round, process, shared_sum, poster, owed>>

\* Mutant: the sum is changed without the lock.
AddUnlocked(s) ==
    /\ reader[s] = "add"
    /\ shared_sum' = shared_sum + 1
    /\ owed' = owed + 1
    /\ Goto(s, "check")
    /\ UNCHANGED <<round, process, poster>>

\* The lock is taken for long by the POST only.
Add(s) ==
    /\ reader[s] = "add"
    /\ poster.pc # "post"
    /\ shared_sum' = shared_sum + 1
    /\ owed' = owed + 1
    /\ Goto(s, "check")
    /\ UNCHANGED <<round, process, poster>>

\* terminate, and the future is complete; what is left in the pipe is not read.
Terminate(s) ==
    /\ process' = [process EXCEPT ![s] = [running |-> FALSE, pipe |-> <<>>, late |-> FALSE]]
    /\ Goto(s, "done")
    /\ UNCHANGED <<round, shared_sum, poster, owed>>

\* float(output) raises again in the handler of the first exception.
Invalid(s) == reader[s] = "invalid" /\ Terminate(s)

\* Mutant: the timeout is not looked at.
ExitedOnly(s) == ~process[s].running

ExitedOrLate(s) == ~process[s].running \/ process[s].late

Stop(s) == reader[s] = "check" /\ ExitedOrLate(s) /\ Terminate(s)

ReadOn(s) ==
    /\ reader[s] = "check"
    /\ ~ExitedOrLate(s)
    /\ Goto(s, "read")
    /\ UNCHANGED <<round, process, shared_sum, poster, owed>>

run_script(s) ==
    StartScript(s) \/ ReadLine(s) \/ ReadEnd(s) \/ Add(s) \/ Invalid(s) \/ Stop(s) \/ ReadOn(s)

-----------------------------------------------------------------------------
(* print_shared_sum                                                        *)

\* Mutant: a sum of nothing is posted.
PostAnything ==
    /\ poster.pc = "sleep"
    /\ poster' = [pc |-> "post", sum |-> shared_sum]
    /\ UNCHANGED <<round, process, reader, shared_sum, owed>>

PostSum ==
    /\ poster.pc = "sleep"
    /\ shared_sum # 0
    /\ poster' = [pc |-> "post", sum |-> shared_sum]
    /\ UNCHANGED <<round, process, reader, shared_sum, owed>>

\* The POST is answered or fails: either way the sum begins anew.
PostEnds ==
    /\ poster.pc = "post"
    /\ shared_sum' = 0
    /\ owed' = owed - poster.sum
    /\ poster' = [pc |-> "sleep", sum |-> 0]
    /\ UNCHANGED <<round, process, reader>>

-----------------------------------------------------------------------------
OrchInit ==
    /\ round = 0
    /\ process = [s \in Script |-> [running |-> FALSE, pipe |-> <<>>, late |-> FALSE]]
    /\ reader = [s \in Script |-> "done"]
    /\ shared_sum = 0
    /\ poster = [pc |-> "sleep", sum |-> 0]
    /\ owed = 0

Environment(s) == PrintLine(s, "rate") \/ PrintLine(s, "text") \/ Exit(s) \/ RunsOut(s)

OrchNext ==
    \/ \E s \in Script : run_script(s) \/ Environment(s)
    \/ run_multiple_scripts
    \/ PostSum \/ PostEnds

OrchSpec == OrchInit /\ [][OrchNext]_orchVars

\* The orchestrator's threads run on, the lock of a poster that sleeps a second
\* between two POSTs is got in the end, and time passes.  Nothing is assumed of the
\* monitor's answer nor of the senders.
OrchFairness ==
    /\ \A s \in Script : WF_orchVars(run_script(s)) /\ SF_orchVars(Add(s)) /\ WF_orchVars(RunsOut(s))
    /\ WF_orchVars(run_multiple_scripts)
    /\ WF_orchVars(PostSum)

-----------------------------------------------------------------------------
(* Properties                                                              *)

\* A sum that is posted is not zero.
OrchTypeOK ==
    /\ round \in 0..Len(Rounds)
    /\ process \in [Script -> [running : BOOLEAN, pipe : Seq({"rate", "text"}), late : BOOLEAN]]
    /\ reader \in [Script -> {"done", "start", "read", "add", "invalid", "check"}]
    /\ shared_sum \in Nat
    /\ poster \in [pc : {"sleep"}, sum : {0}] \cup [pc : {"post"}, sum : Nat \ {0}]
    /\ owed \in Nat

\* Every rate that a reader added is in exactly one POST: the reset after a POST takes
\* away what was posted and nothing that was added meanwhile.
RatesAddUp == shared_sum = owed

\* The monitor's answers, and every sender's lines unless it ends, keep coming.
Responsive ==
    /\ []<>(poster.pc = "sleep")
    /\ \A s \in Script : []<>(process[s].pipe # <<>> \/ ~process[s].running)

\* If the monitor answers every POST and no sender falls silent, all rounds are run:
\* the lock held during a POST, the timeouts and senders that print text, end, or run
\* on for ever keep no reader and no round from its end.
AllRoundsRun == Responsive => <>(round = Len(Rounds) /\ Over)
=============================================================================
