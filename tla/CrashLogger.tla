---------------------------- MODULE CrashLogger ----------------------------
(***************************************************************************)
(* class CrashLogger of Monitor_performance_VNF.py: per application a       *)
(* bounded history of the values logged for it, one value per poll of the   *)
(* crash thread, and their sum over the episode.  The crash thread writes   *)
(* it; the tasks of the logging loop read it.                               *)
(***************************************************************************)
EXTENDS Integers, Sequences, SequencesExt

CONSTANTS
    App,            \* the applications a history is kept for
    HistoryLength,  \* maxlen of the deques
    VnfNames,       \* the order in which the crash thread logs them
    None,           \* Python's None
    MaxPolls        \* bound: polls of the crash thread

ASSUME LoggerAssumption ==
    /\ HistoryLength \in Nat \ {0}
    /\ App # {}
    /\ VnfNames \in Seq(App)
    /\ \A app \in App : \E i \in 1..Len(VnfNames) : VnfNames[i] = app
    /\ \A i, j \in 1..Len(VnfNames) : VnfNames[i] = VnfNames[j] => i = j
    /\ None \notin Nat
    /\ MaxPolls \in Nat

VARIABLES crash_history, episode_crash_count

loggerVars == <<crash_history, episode_crash_count>>

LoggerTypeOK ==
    /\ crash_history \in [App -> Seq(Nat)]
    /\ \A app \in App : Len(crash_history[app]) <= HistoryLength
    /\ episode_crash_count \in [App -> Nat]

LoggerInit ==
    /\ crash_history = [app \in App |-> <<>>]
    /\ episode_crash_count = [app \in App |-> 0]

\* Mutant: a full deque keeps its values and refuses the new one.
AppendedUnlessFull(history, value) ==
    IF Len(history) < HistoryLength THEN Append(history, value) ELSE history

\* deque.append on a deque with a maxlen: the oldest value falls out.
Appended(history, value) ==
    IF Len(history) < HistoryLength
    THEN Append(history, value)
    ELSE Append(Tail(history), value)

\* Every caller passes a known application.
log_crash(app, value) ==
    /\ crash_history' = [crash_history EXCEPT ![app] = Appended(@, value)]
    /\ episode_crash_count' = [episode_crash_count EXCEPT ![app] = @ + value]

Total(history) == FoldSeq(LAMBDA value, sum : value + sum, 0, history)

get_count(app) == Total(crash_history[app])
=============================================================================
