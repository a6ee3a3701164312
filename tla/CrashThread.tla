---------------------------- MODULE CrashThread ----------------------------
(***************************************************************************)
(* The crash thread of Monitor_performance_VNF.py as those see it who read  *)
(* the CrashLogger: poll after poll it logs one value per VNF, one VNF      *)
(* after the other.  CrashMonitor says which value; it implements ThreadSpec.*)
(***************************************************************************)
EXTENDS CrashLogger

VARIABLE turn   \* number of the poll, index of the VNF logged next

threadVars == <<loggerVars, turn>>

\* Number of polls that have logged a value for app.
PollsOf(app) ==
    IF \E i \in 1..(turn.i - 1) : VnfNames[i] = app THEN turn.n ELSE turn.n - 1

ThreadInit == LoggerInit /\ turn = [n |-> 1, i |-> 1]

LogNext(value) ==
    /\ turn.n <= MaxPolls
    /\ log_crash(VnfNames[turn.i], value)
    /\ turn' = IF turn.i < Len(VnfNames)
               THEN [turn EXCEPT !.i = @ + 1]
               ELSE [n |-> turn.n + 1, i |-> 1]

\* A poll may log any number of crashes.
ThreadSpec == ThreadInit /\ [][\E value \in Nat : LogNext(value)]_threadVars
=============================================================================
