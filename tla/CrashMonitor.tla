---------------------------- MODULE CrashMonitor ----------------------------
(***************************************************************************)
(* The crash thread of Monitor_performance_VNF.py: run_get_crash_status     *)
(* polls get_pods_status, compares every VNF's restart count with the one   *)
(* of the poll before, and logs how often the VNF crashed in between.       *)
(*                                                                         *)
(* get_pods_status asks the API server once per label, so the cluster       *)
(* moves on between two labels, and between a listing and its evaluation.   *)
(* The cluster is external: what list_namespaced_pod returns for a label    *)
(* is the sequence of the VNF's pods, of which the code reads the first.    *)
(***************************************************************************)
EXTENDS CrashLogger

CONSTANTS
    MaxPods,        \* bound: pods a VNF has at a time (two during a rollout)
    MaxEvents       \* bound: events of the cluster

\* The labels, listed and evaluated in the order of VnfNames.
Vnf == App

\* Pending: no container status yet.  Evicted: container statuses are gone, the
\* pod stays listed.  Running stands for every other state of no concern here.
PodStatus == {"Pending", "Running", "Error", "OOMKilled", "CrashLoopBackOff", "Evicted"}

ASSUME MonitorAssumption ==
    /\ MaxPods \in Nat /\ MaxEvents \in Nat
    /\ None \notin [status : PodStatus, restart_count : Nat]

VARIABLES
    pods,                   \* the cluster: VNF |-> its pods, in list order
    events,                 \* number of cluster events so far
    prev_restart_counts,    \* restart count of the last poll, or None
    seen_once,
    poll,                   \* the crash thread's current poll
    polls,                  \* number of polls begun
    baseline,               \* history: the restart count first observed
    churned,                \* history: was a pod created, removed or evicted since?
    calm,                   \* history: no event since the VNF was last listed
    calmAtListing,          \* history: calm, when the VNF was last listed
    restartsAtListing       \* history: restarts of the pod that was listed

clusterVars == <<pods, events>>
monitorVars == <<prev_restart_counts, seen_once, crash_history, episode_crash_count>>
historyVars == <<baseline, churned, calm, calmAtListing, restartsAtListing>>
vars == <<clusterVars, monitorVars, historyVars, poll, polls>>

-----------------------------------------------------------------------------
(* The cluster (external)                                                  *)

Pod == [restarts : Nat, status : PodStatus]

Event(v) ==
    /\ events < MaxEvents
    /\ events' = events + 1
    /\ calm' = [calm EXCEPT ![v] = FALSE]
    /\ UNCHANGED <<monitorVars, poll, polls, baseline, calmAtListing, restartsAtListing>>

\* The kubelet moves pod i of v from one of the states From to state to.
Move(v, i, From, to, started) ==
    /\ pods[v][i].status \in From
    /\ pods' = [pods EXCEPT ![v][i] = [restarts |-> @.restarts + started, status |-> to]]
    /\ Event(v)

StartContainer(v, i) == Move(v, i, {"Pending"}, "Running", 0) /\ UNCHANGED churned

ContainerDies(v, i) ==
    /\ \E how \in {"Error", "OOMKilled"} : Move(v, i, {"Running"}, how, 0)
    /\ UNCHANGED churned

BackOff(v, i) ==
    Move(v, i, {"Error", "OOMKilled"}, "CrashLoopBackOff", 0) /\ UNCHANGED churned

RestartContainer(v, i) ==
    /\ Move(v, i, {"Error", "OOMKilled", "CrashLoopBackOff"}, "Running", 1)
    /\ UNCHANGED churned

Churn(v) == churned' = [churned EXCEPT ![v] = TRUE]

Evict(v, i) == Move(v, i, PodStatus \ {"Evicted"}, "Evicted", 0) /\ Churn(v)

\* A new pod's random name places it before or after the others.
CreatePod(v) ==
    /\ Len(pods[v]) < MaxPods
    /\ LET pod == <<[restarts |-> 0, status |-> "Pending"]>>
       IN  \E list \in {pod \o pods[v], pods[v] \o pod} : pods' = [pods EXCEPT ![v] = list]
    /\ Event(v)
    /\ Churn(v)

DeletePod(v, i) ==
    /\ pods' = [pods EXCEPT ![v] = RemoveAt(@, i)]
    /\ Event(v)
    /\ Churn(v)

PodStep(v, i) ==
    \/ StartContainer(v, i)
    \/ ContainerDies(v, i)
    \/ BackOff(v, i)
    \/ RestartContainer(v, i)
    \/ Evict(v, i)
    \/ DeletePod(v, i)

Cluster ==
    \/ \E v \in Vnf : CreatePod(v)
    \/ \E v \in Vnf : \E i \in DOMAIN pods[v] : PodStep(v, i)

-----------------------------------------------------------------------------
(* get_pods_status                                                         *)

NoInfo == [v \in Vnf |-> None]

Idle == [pc |-> "idle", i |-> 1, pod_status |-> NoInfo, failed |-> FALSE]

\* Without container statuses the code reports "Running" and 0 restarts.
Info(pod) ==
    IF pod.status \in {"Pending", "Evicted"}
    THEN [status |-> "Running", restart_count |-> 0]
    ELSE [status |-> pod.status, restart_count |-> pod.restarts]

\* A poll whose load_kube_config raises is over before it has begun: it lists and
\* logs nothing, and the next one starts a second later.
PollStart ==
    /\ poll.pc = "idle"
    /\ polls < MaxPolls
    /\ polls' = polls + 1
    /\ poll' = [Idle EXCEPT !.pc = "list"]
    /\ UNCHANGED <<clusterVars, monitorVars, historyVars>>

AtLast == poll.i = Len(VnfNames)

Listed(info) ==
    poll' = [poll EXCEPT !.pc = IF AtLast THEN "log" ELSE "list",
                         !.i = IF AtLast THEN 1 ELSE @ + 1,
                         !.pod_status[VnfNames[poll.i]] = info]

ListPods ==
    /\ poll.pc = "list"
    /\ LET v == VnfNames[poll.i]
           pod == Head(pods[v])
       IN  /\ pods[v] # <<>>
           /\ Listed(Info(pod))
           /\ churned' = [churned EXCEPT ![v] =
                             IF seen_once[v] THEN @ ELSE pod.status = "Evicted"]
           /\ calm' = [calm EXCEPT ![v] = TRUE]
           /\ calmAtListing' = [calmAtListing EXCEPT ![v] = calm[v]]
           /\ restartsAtListing' = [restartsAtListing EXCEPT ![v] = pod.restarts]
    /\ UNCHANGED <<clusterVars, monitorVars, polls, baseline>>

ListNoPods ==
    /\ poll.pc = "list"
    /\ pods[VnfNames[poll.i]] = <<>>
    /\ Listed(None)
    /\ UNCHANGED <<clusterVars, monitorVars, polls, historyVars>>

\* An exception ends the listing; what was listed so far is returned.
ListFails ==
    /\ poll.pc = "list"
    /\ poll' = [poll EXCEPT !.pc = "log", !.i = 1, !.failed = TRUE]
    /\ UNCHANGED <<clusterVars, monitorVars, polls, historyVars>>

-----------------------------------------------------------------------------
(* run_get_crash_status                                                    *)

BadStates == {"CrashLoopBackOff", "Error", "Failed"}

\* Mutant: any number of restarts counts as one crash.
RestartedAtAll(diff) == IF diff > 0 THEN 1 ELSE 0

\* Mutant: without max(..., 0).
SignedRestarts(diff) == diff

CountedRestarts(diff) == IF diff > 0 THEN diff ELSE 0

CrashDetected(v, info) ==
    LET counted == CountedRestarts(info.restart_count - prev_restart_counts[v])
    IN  IF counted = 0 /\ info.status \in BadStates THEN 1 ELSE counted

Evaluated ==
    poll' = IF AtLast
            THEN [Idle EXCEPT !.failed = poll.failed]
            ELSE [poll EXCEPT !.i = @ + 1]

LogMissing(v) ==
    /\ poll.pod_status[v] = None
    /\ log_crash(v, IF seen_once[v] THEN 1 ELSE 0)
    /\ UNCHANGED <<prev_restart_counts, seen_once, baseline>>

LogBaseline(v) ==
    /\ poll.pod_status[v] # None
    /\ prev_restart_counts[v] = None
    /\ prev_restart_counts' = [prev_restart_counts EXCEPT ![v] = poll.pod_status[v].restart_count]
    /\ seen_once' = [seen_once EXCEPT ![v] = TRUE]
    /\ baseline' = [baseline EXCEPT ![v] = poll.pod_status[v].restart_count]
    /\ log_crash(v, 0)

\* Mutant: the restart count of the first poll is kept for good.
LogSinceFirstPoll(v) ==
    /\ poll.pod_status[v] # None
    /\ prev_restart_counts[v] # None
    /\ log_crash(v, CrashDetected(v, poll.pod_status[v]))
    /\ UNCHANGED <<prev_restart_counts, seen_once, baseline>>

LogCrashes(v) ==
    /\ poll.pod_status[v] # None
    /\ prev_restart_counts[v] # None
    /\ log_crash(v, CrashDetected(v, poll.pod_status[v]))
    /\ prev_restart_counts' = [prev_restart_counts EXCEPT ![v] = poll.pod_status[v].restart_count]
    /\ seen_once' = [seen_once EXCEPT ![v] = TRUE]
    /\ UNCHANGED baseline

Evaluate(v) ==
    /\ poll.pc = "log"
    /\ v = VnfNames[poll.i]
    /\ LogMissing(v) \/ LogBaseline(v) \/ LogCrashes(v)
    /\ Evaluated
    /\ UNCHANGED <<clusterVars, polls, churned, calm, calmAtListing, restartsAtListing>>

\* The bounds of the model are reached; the program goes on.
BoundsReached ==
    /\ polls = MaxPolls /\ poll.pc = "idle"
    /\ UNCHANGED vars

-----------------------------------------------------------------------------
\* The monitor may find a VNF without a pod or with restarts of the past.
Init ==
    /\ LoggerInit
    /\ pods \in [Vnf -> {<<>>, <<[restarts |-> 1, status |-> "Running"]>>}]
    /\ events = 0
    /\ prev_restart_counts = [v \in Vnf |-> None]
    /\ seen_once = [v \in Vnf |-> FALSE]
    /\ poll = Idle
    /\ polls = 0
    /\ baseline = [v \in Vnf |-> None]
    /\ churned = [v \in Vnf |-> FALSE]
    /\ calm = [v \in Vnf |-> TRUE]
    /\ calmAtListing = [v \in Vnf |-> TRUE]
    /\ restartsAtListing = [v \in Vnf |-> 0]

Poll ==
    \/ PollStart
    \/ ListPods
    \/ ListNoPods
    \/ ListFails
    \/ \E v \in Vnf : Evaluate(v)

Next == Cluster \/ Poll \/ BoundsReached

Spec == Init /\ [][Next]_vars

-----------------------------------------------------------------------------
\* What the logger's readers see of the polls: the values of CrashThread.
Thread ==
    INSTANCE CrashThread
    WITH turn <- [n |-> IF poll.pc = "idle" THEN polls + 1 ELSE polls,
                  i |-> IF poll.pc = "log" THEN poll.i ELSE 1]

-----------------------------------------------------------------------------
(* Properties                                                              *)

TypeOK ==
    /\ LoggerTypeOK
    /\ pods \in [Vnf -> Seq(Pod)]
    /\ events \in Nat
    /\ prev_restart_counts \in [Vnf -> Nat \cup {None}]
    /\ seen_once \in [Vnf -> BOOLEAN]
    /\ poll \in [pc : {"idle", "list", "log"}, i : 1..Len(VnfNames),
                pod_status : [Vnf -> [status : PodStatus, restart_count : Nat] \cup {None}],
                failed : BOOLEAN]
    /\ polls \in Nat
    /\ baseline \in [Vnf -> Nat \cup {None}]
    /\ churned \in [Vnf -> BOOLEAN]
    /\ calm \in [Vnf -> BOOLEAN]
    /\ calmAtListing \in [Vnf -> BOOLEAN]
    /\ restartsAtListing \in [Vnf -> Nat]

\* After a poll whose listing was complete, the crashes logged for a VNF make up
\* for every restart its pod had gone through when it was listed, counted from
\* the first observation: restarts that fall between two polls, while the poll
\* is under way, or before a poll that failed, are not lost.  Only a VNF whose
\* pods were created, deleted or evicted since is excepted.
CaughtUp ==
    (poll.pc = "idle" /\ ~poll.failed) =>
        \A v \in Vnf : (baseline[v] # None /\ ~churned[v]) =>
            episode_crash_count[v] >= restartsAtListing[v] - baseline[v]

\* Nothing happened to v since a poll listed it before this one did, or, when this one
\* did not list it, since a poll listed it last.
Quiet(v) == IF poll.pod_status[v] = None THEN calm[v] ELSE calmAtListing[v]

InBadState(v) == poll.pod_status[v] # None /\ poll.pod_status[v].status \in BadStates

\* A VNF that is quiet is logged as crashed in two cases only, and once by each poll: it is
\* listed in one of the bad states, or the listing was cut off before it by an exception
\* of the API, although nothing is wrong with it.  In every other poll it is logged with
\* no crash: no restart is counted twice, whatever became of the polls in between.
QuietVnfFlaggedForCause ==
    [][\A v \in Vnf :
         (Evaluate(v) /\ seen_once[v] /\ Quiet(v)) =>
            LET cutOff == poll.pod_status[v] = None /\ poll.failed
            IN  episode_crash_count'[v] =
                    episode_crash_count[v] + IF cutOff \/ InBadState(v) THEN 1 ELSE 0]_vars

\* README: "Monitors pod restarts, OOMKilled events, ... to instantly flag
\* reliability issues".  A poll that reads OOMKilled for a VNF it has seen
\* before logs a crash.
OOMKilledIsFlagged ==
    [][\A v \in Vnf :
         LET info == poll.pod_status[v]
         IN  (Evaluate(v) /\ info # None /\ info.status = "OOMKilled" /\ seen_once[v])
               => episode_crash_count'[v] > episode_crash_count[v]]_vars
=============================================================================
