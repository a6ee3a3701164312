---------------------------- MODULE LoggingLoop ----------------------------
(***************************************************************************)
(* logging_pod_resources of Monitor_performance_VNF.py: the loop that turns *)
(* what the monitor knows into rows of VNFs_performance_dataset.db.         *)
(*                                                                         *)
(* A cycle runs seven tasks in parallel: six get_pod_details, one per VNF,  *)
(* whose crash column is get_count at the moment the task gets there, and   *)
(* read_from_database.  When they have all returned, one row is inserted.   *)
(* A get_pod_details first calls the Kubernetes API, once or twice, without *)
(* a request timeout: a call that is never answered holds up the cycle, and *)
(* with it all rows.                                                        *)
(* Meanwhile the crash thread logs one value per VNF and poll, and a crash  *)
(* leaves the bounded history after HistoryLength more polls, stored or     *)
(* not.  The two loops are paced by sleeps and API calls of their own:      *)
(* nothing synchronises them.                                              *)
(***************************************************************************)
EXTENDS CrashThread

CONSTANT
    MaxCrashes      \* bound: crashes a poll logs for a VNF

ASSUME LoopAssumption == MaxCrashes \in Nat

VARIABLES
    cycle,          \* the logging loop: pc, the tasks' results, polls they saw
    rows,           \* the table: VNF |-> its crash columns, and the polls behind them
    logged          \* history: VNF |-> the values logged for it, poll after poll

loopVars == <<threadVars, cycle, rows, logged>>

-----------------------------------------------------------------------------
(* The crash thread                                                        *)

PollLogs(value) ==
    /\ LogNext(value)
    /\ logged' = [logged EXCEPT ![VnfNames[turn.i]] = Append(@, value)]
    /\ UNCHANGED <<cycle, rows>>

\* The bound of the model is reached; the crash thread goes on.
BoundReached == turn.n > MaxPolls /\ UNCHANGED loopVars

-----------------------------------------------------------------------------
(* The logging loop                                                        *)

\* Between cycles the loop sleeps.
Sleeping ==
    [pc |-> "sleep", crash |-> [app \in App |-> None], seen |-> [app \in App |-> 0],
     answered |-> [app \in App |-> FALSE], kpis |-> "running"]

CycleStart ==
    /\ cycle.pc = "sleep"
    /\ cycle' = [Sleeping EXCEPT !.pc = "tasks"]
    /\ UNCHANGED <<threadVars, rows, logged>>

\* list_namespaced_pod, and get_namespaced_custom_object if a pod is listed,
\* have returned or raised.  This is the cluster's step, and may never come.
ClusterAnswers(app) ==
    /\ cycle.pc = "tasks"
    /\ ~cycle.answered[app]
    /\ cycle' = [cycle EXCEPT !.answered[app] = TRUE]
    /\ UNCHANGED <<threadVars, rows, logged>>

\* get_pod_details never raises: every path from the answers ends with get_count.
get_pod_details(app) ==
    /\ cycle.pc = "tasks"
    /\ cycle.answered[app]
    /\ cycle.crash[app] = None
    /\ cycle' = [cycle EXCEPT !.crash[app] = get_count(app), !.seen[app] = PollsOf(app)]
    /\ UNCHANGED <<threadVars, rows, logged>>

KpisReturn ==
    /\ cycle.pc = "tasks"
    /\ cycle.kpis = "running"
    /\ \E outcome \in {"returned", "raised"} : cycle' = [cycle EXCEPT !.kpis = outcome]
    /\ UNCHANGED <<threadVars, rows, logged>>

\* Mutant: the results are collected without waiting for the tasks.
NoWait == TRUE

\* Mutant: an exception is waited for like a result.
AllReturned == cycle.kpis = "returned" /\ \A app \in App : cycle.crash[app] # None

\* The executor waits for every task, also when one of them raises.
TasksDone == cycle.kpis # "running" /\ \A app \in App : cycle.crash[app] # None

\* future_kpis.result() raises: the whole row is given up.
CycleRaises ==
    /\ cycle.pc = "tasks"
    /\ TasksDone
    /\ cycle.kpis = "raised"
    /\ cycle' = Sleeping
    /\ UNCHANGED <<threadVars, rows, logged>>

TasksReturn ==
    /\ cycle.pc = "tasks"
    /\ TasksDone
    /\ cycle.kpis = "returned"
    /\ cycle' = [cycle EXCEPT !.pc = "insert"]
    /\ UNCHANGED <<threadVars, rows, logged>>

InsertRow ==
    /\ cycle.pc = "insert"
    /\ rows' = [app \in App |->
                  rows[app] \cup {[seen |-> cycle.seen[app], crash |-> cycle.crash[app]]}]
    /\ cycle' = Sleeping
    /\ UNCHANGED <<threadVars, logged>>

\* An exception of sqlite3 is printed; the row is lost.
InsertFails ==
    /\ cycle.pc = "insert"
    /\ cycle' = Sleeping
    /\ UNCHANGED <<threadVars, rows, logged>>

-----------------------------------------------------------------------------
LoopInit ==
    /\ ThreadInit
    /\ cycle = Sleeping
    /\ rows = [app \in App |-> {}]
    /\ logged = [app \in App |-> <<>>]

Loop ==
    \/ CycleStart
    \/ \E app \in App : get_pod_details(app)
    \/ KpisReturn
    \/ CycleRaises
    \/ TasksReturn
    \/ InsertRow
    \/ InsertFails

LoopNext ==
    \/ \E value \in 0..MaxCrashes : PollLogs(value)
    \/ \E app \in App : ClusterAnswers(app)
    \/ Loop
    \/ BoundReached

LoopSpec == LoopInit /\ [][LoopNext]_loopVars

\* The loop's threads run, and every wait for SQLite ends.  Nothing is assumed of
\* the crash thread or of the cluster.
FairLoopSpec == LoopSpec /\ WF_loopVars(Loop)

-----------------------------------------------------------------------------
(* Properties                                                              *)

LoopTypeOK ==
    /\ LoggerTypeOK
    /\ turn \in [n : 1..(MaxPolls + 1), i : 1..Len(VnfNames)]
    /\ cycle \in [pc : {"sleep", "tasks", "insert"}, crash : [App -> Nat \cup {None}],
                 seen : [App -> Nat], answered : [App -> BOOLEAN],
                 kpis : {"running", "returned", "raised"}]
    /\ rows \in [App -> SUBSET [seen : Nat, crash : Nat]]
    /\ logged \in [App -> Seq(Nat)]

\* The values polls n - HistoryLength + 1 to n logged for app, as far as there are any.
Window(app, n) ==
    SubSeq(logged[app], IF n > HistoryLength THEN n - HistoryLength + 1 ELSE 1, n)

\* A stored crash column is the sum of what the last HistoryLength polls had
\* logged when the VNF's own task read it: the crash thread running on, the
\* other tasks, and rows that were given up do not blur it.
ColumnTellsWindow ==
    \A app \in App : \A row \in rows[app] :
        /\ row.seen <= Len(logged[app])
        /\ row.crash = Total(Window(app, row.seen))

\* The cluster answers what every task of a cycle asks it.
ClusterResponds == \A app \in App : (cycle.pc = "tasks") ~> cycle.answered[app]

\* If the cluster answers, a cycle ends, with a row or without: a task or a read
\* that raises holds nothing up.
CycleEnds == ClusterResponds => ((cycle.pc = "tasks") ~> (cycle.pc = "sleep"))
=============================================================================
