--------------------------- MODULE Monitor_proofs ---------------------------
(* Theorems about the crash thread and the logging loop of the monitor      *)
(* (CrashMonitor and LoggingLoop), for any VNFs, any length of the history, *)
(* any number of pods, events, crashes and polls.                          *)
EXTENDS CrashMonitor, LoggingLoop, SequenceTheorems, FiniteSetTheorems,
        WellFoundedInduction, TLAPS

USE DEF Vnf

-----------------------------------------------------------------------------
(* CrashMonitor: type correctness.                                         *)

InfoType == [status : PodStatus, restart_count : Nat]

PollType ==
    [pc : {"idle", "list", "log"}, i : 1..Len(VnfNames),
     pod_status : [Vnf -> InfoType \cup {None}], failed : BOOLEAN]

\* A pod that is still pending has not restarted.
SeenPod == {pod \in Pod : pod.status = "Pending" => pod.restarts = 0}

\* seen_once, the previous restart count and the baseline are set together.
Baselined ==
    \A v \in Vnf : /\ seen_once[v] <=> prev_restart_counts[v] # None
                   /\ seen_once[v] <=> baseline[v] # None

TypeInv == TypeOK /\ pods \in [Vnf -> Seq(SeenPod)] /\ Baselined

\* The labels are listed in a non-empty order that names every VNF.
LEMMA NamesFacts ==
    /\ Len(VnfNames) \in Nat \ {0}
    /\ \A i \in 1..Len(VnfNames) : VnfNames[i] \in Vnf
  <1>1. PICK v \in Vnf : TRUE
    BY MonitorAssumption, LoggerAssumption
  <1>2. PICK i \in 1..Len(VnfNames) : VnfNames[i] = v
    BY <1>1, MonitorAssumption, LoggerAssumption
  <1>3. VnfNames \in Seq(Vnf)
    BY MonitorAssumption, LoggerAssumption
  <1> QED BY <1>2, <1>3

LEMMA SeenPods ==
    ASSUME NEW f \in [Vnf -> Seq(SeenPod)]
    PROVE  f \in [Vnf -> Seq(Pod)]
  BY SeqMonotonic DEF SeenPod

\* A pod is reported with a known state, and never with restarts it has not had.
LEMMA InfoFacts ==
    ASSUME NEW pod \in SeenPod
    PROVE  /\ Info(pod) \in InfoType /\ Info(pod) # None
           /\ pod.status # "Evicted" => Info(pod).restart_count = pod.restarts
  <1>1. pod.restarts \in Nat /\ pod.status \in PodStatus
    BY DEF SeenPod, Pod
  <1>2. Info(pod) \in InfoType
    BY <1>1 DEF Info, InfoType, PodStatus
  <1>3. None \notin InfoType
    BY MonitorAssumption, LoggerAssumption DEF InfoType
  <1> QED BY <1>1, <1>2, <1>3 DEF Info, SeenPod

LEMMA IdleType == Idle \in PollType
  BY NamesFacts DEF Idle, PollType, NoInfo

\* Appending to a bounded history keeps it a bounded history.
LEMMA AppendedType ==
    ASSUME NEW h \in Seq(Nat), Len(h) <= HistoryLength, NEW value \in Nat
    PROVE  Appended(h, value) \in Seq(Nat) /\ Len(Appended(h, value)) <= HistoryLength
  <1>1. CASE Len(h) < HistoryLength
    BY <1>1, LoggerAssumption, AppendProperties DEF Appended
  <1>2. CASE Len(h) >= HistoryLength
    <2>1. h # <<>> /\ Len(h) \in Nat
      BY <1>2, LoggerAssumption, EmptySeq, LenProperties
    <2>2. Tail(h) \in Seq(Nat) /\ Len(Tail(h)) = Len(h) - 1
      BY <2>1, HeadTailProperties
    <2>3. Append(Tail(h), value) \in Seq(Nat) /\ Len(Append(Tail(h), value)) = Len(h)
      BY <2>1, <2>2, AppendProperties
    <2> QED BY <1>2, <2>1, <2>3, LoggerAssumption DEF Appended
  <1>3. Len(h) \in Nat
    BY LenProperties
  <1> QED BY <1>1, <1>2, <1>3, LoggerAssumption

\* log_crash adds to one application's count and keeps the logger's types.
LEMMA LogCrashFacts ==
    ASSUME LoggerTypeOK, NEW app \in App, NEW value \in Nat, log_crash(app, value)
    PROVE  /\ LoggerTypeOK'
           /\ episode_crash_count'[app] = episode_crash_count[app] + value
           /\ \A other \in App \ {app} :
                episode_crash_count'[other] = episode_crash_count[other]
  <1> USE DEF LoggerTypeOK, log_crash
  <1>1. /\ Appended(crash_history[app], value) \in Seq(Nat)
        /\ Len(Appended(crash_history[app], value)) <= HistoryLength
    BY AppendedType
  <1> QED BY <1>1

\* Taking a pod out of a list leaves a list of pods.
LEMMA RemoveAtType ==
    ASSUME NEW S, NEW s \in Seq(S), NEW i \in DOMAIN s
    PROVE  RemoveAt(s, i) \in Seq(S)
  <1>1. Len(s) \in Nat /\ i \in 1..Len(s)
    BY LenProperties
  <1>2. SubSeq(s, 1, i - 1) \in Seq(S)
    BY <1>1, SubSeqProperties, ElementOfSeq, Z3
  <1>3. SubSeq(s, i + 1, Len(s)) \in Seq(S)
    BY <1>1, SubSeqProperties, ElementOfSeq, Z3
  <1> QED BY <1>2, <1>3, ConcatProperties DEF RemoveAt

LEMMA TypeInit == Init => TypeInv
  <1> SUFFICES ASSUME Init
               PROVE  TypeInv
    OBVIOUS
  <1>1. LoggerTypeOK
    BY LoggerAssumption, EmptySeq DEF Init, LoggerInit, LoggerTypeOK
  <1>2. pods \in [Vnf -> Seq(SeenPod)]
    <2>1. [restarts |-> 1, status |-> "Running"] \in SeenPod
      BY DEF SeenPod, Pod, PodStatus
    <2>2. <<[restarts |-> 1, status |-> "Running"]>> \in Seq(SeenPod) /\ <<>> \in Seq(SeenPod)
      BY <2>1
    <2> QED BY <2>2 DEF Init
  <1>3. pods \in [Vnf -> Seq(Pod)]
    BY <1>2, SeenPods
  <1>4. poll \in PollType
    BY IdleType DEF Init
  <1>5. Baselined
    BY DEF Init, Baselined
  <1>6. /\ prev_restart_counts \in [Vnf -> Nat \cup {None}]
        /\ baseline \in [Vnf -> Nat \cup {None}]
        /\ restartsAtListing \in [Vnf -> Nat]
        /\ events \in Nat /\ polls \in Nat
    BY DEF Init
  <1>7. /\ seen_once \in [Vnf -> BOOLEAN]
        /\ churned \in [Vnf -> BOOLEAN]
        /\ calm \in [Vnf -> BOOLEAN]
        /\ calmAtListing \in [Vnf -> BOOLEAN]
    BY DEF Init
  <1> QED BY <1>1, <1>2, <1>3, <1>4, <1>5, <1>6, <1>7 DEF TypeInv, TypeOK, PollType, InfoType

\* A step of the cluster changes nothing of the monitor's.
LEMMA ClusterType == TypeInv /\ Cluster => TypeInv'
  <1> SUFFICES ASSUME TypeInv, Cluster
               PROVE  TypeInv'
    OBVIOUS
  <1> USE DEF TypeInv, TypeOK
  <1>1. ASSUME NEW v \in Vnf, Event(v),
               churned' \in [Vnf -> BOOLEAN], pods' \in [Vnf -> Seq(SeenPod)]
        PROVE  TypeInv'
    <2>1. pods' \in [Vnf -> Seq(Pod)]
      BY <1>1, SeenPods
    <2>2. calm' \in [Vnf -> BOOLEAN] /\ events' \in Nat
      BY <1>1 DEF Event
    <2> QED BY <1>1, <2>1, <2>2 DEF Event, monitorVars, LoggerTypeOK, Baselined
  <1>2. ASSUME NEW v \in Vnf, NEW i \in DOMAIN pods[v], NEW From, NEW to \in PodStatus \ {"Pending"},
               NEW started \in Nat, Move(v, i, From, to, started), churned' \in [Vnf -> BOOLEAN]
        PROVE  TypeInv'
    <2>1. pods[v] \in Seq(SeenPod) /\ i \in 1..Len(pods[v])
      BY <1>2, LenProperties
    <2>2. [restarts |-> pods[v][i].restarts + started, status |-> to] \in SeenPod
      BY <2>1, ElementOfSeq DEF SeenPod, Pod
    <2> DEFINE e == [restarts |-> pods[v][i].restarts + started, status |-> to]
    <2>3. [pods[v] EXCEPT ![i] = e] \in Seq(SeenPod)
      <3> HIDE DEF e
      <3> QED BY <2>1, <2>2, ExceptSeq DEF e
    <2>4. pods' = [pods EXCEPT ![v] = [pods[v] EXCEPT ![i] = e]]
      BY <1>2, <2>1 DEF Move
    <2>5. pods' \in [Vnf -> Seq(SeenPod)]
      <3> HIDE DEF e
      <3> QED BY <2>3, <2>4
    <2>6. pods' \in [Vnf -> Seq(Pod)]
      BY <2>5, SeenPods
    <2>7. calm' \in [Vnf -> BOOLEAN] /\ events' \in Nat
      BY <1>2 DEF Event, Move
    <2> QED BY <1>2, <2>5, <2>6, <2>7 DEF Event, Move, monitorVars, LoggerTypeOK, Baselined
  <1>3. ASSUME NEW v \in Vnf, CreatePod(v)
        PROVE  TypeInv'
    <2> DEFINE pod == <<[restarts |-> 0, status |-> "Pending"]>>
    <2>1. pod \in Seq(SeenPod)
      BY DEF SeenPod, Pod, PodStatus
    <2>2. pod \o pods[v] \in Seq(SeenPod) /\ pods[v] \o pod \in Seq(SeenPod)
      <3> HIDE DEF pod
      <3> QED BY <2>1, ConcatProperties
    <2>3. pods' \in [Vnf -> Seq(SeenPod)]
      <3>1. PICK list \in {pod \o pods[v], pods[v] \o pod} : pods' = [pods EXCEPT ![v] = list]
        BY <1>3 DEF CreatePod
      <3> HIDE DEF pod
      <3> QED BY <2>2, <3>1
    <2>4. churned' \in [Vnf -> BOOLEAN]
      BY <1>3 DEF CreatePod, Churn
    <2> QED BY <1>1, <1>3, <2>3, <2>4 DEF CreatePod
  <1>4. ASSUME NEW v \in Vnf, NEW i \in DOMAIN pods[v], DeletePod(v, i)
        PROVE  TypeInv'
    <2>1. pods' \in [Vnf -> Seq(SeenPod)]
      BY <1>4, RemoveAtType DEF DeletePod
    <2>2. churned' \in [Vnf -> BOOLEAN]
      BY <1>4 DEF DeletePod, Churn
    <2> QED BY <1>1, <1>4, <2>1, <2>2 DEF DeletePod
  <1>5. ASSUME NEW v \in Vnf, NEW i \in DOMAIN pods[v], PodStep(v, i)
        PROVE  TypeInv'
    <2> USE DEF PodStatus
    <2>1. CASE StartContainer(v, i)
      BY <1>2, <2>1 DEF StartContainer
    <2>2. CASE ContainerDies(v, i)
      BY <1>2, <2>2 DEF ContainerDies
    <2>3. CASE BackOff(v, i)
      BY <1>2, <2>3 DEF BackOff
    <2>4. CASE RestartContainer(v, i)
      BY <1>2, <2>4 DEF RestartContainer
    <2>5. CASE Evict(v, i)
      <3>1. churned' \in [Vnf -> BOOLEAN]
        BY <2>5 DEF Evict, Churn
      <3> QED BY <1>2, <2>5, <3>1 DEF Evict
    <2>6. CASE DeletePod(v, i)
      BY <1>4, <2>6
    <2> QED BY <1>5, <2>1, <2>2, <2>3, <2>4, <2>5, <2>6 DEF PodStep
  <1> QED BY <1>3, <1>5 DEF Cluster

\* Listing a label keeps the types.
LEMMA ListedType ==
    ASSUME poll \in PollType, NEW info \in InfoType \cup {None}, Listed(info)
    PROVE  poll' \in PollType
  <1> DEFINE f == [poll.pod_status EXCEPT ![VnfNames[poll.i]] = info]
             pc == IF AtLast THEN "log" ELSE "list"
             i == IF AtLast THEN 1 ELSE poll.i + 1
  <1>1. f \in [Vnf -> InfoType \cup {None}]
    BY DEF PollType
  <1>2. pc \in {"log", "list"} /\ i \in 1..Len(VnfNames)
    BY NamesFacts DEF AtLast, PollType
  <1>3. poll' = [poll EXCEPT !.pc = pc, !.i = i, !.pod_status = f]
    BY DEF Listed, PollType
  <1> HIDE DEF f, pc, i
  <1> QED BY <1>1, <1>2, <1>3 DEF PollType

LEMMA EvaluatedType ==
    ASSUME poll \in PollType, Evaluated
    PROVE  poll' \in PollType
  <1>1. CASE AtLast
    <2>1. poll' = [Idle EXCEPT !.failed = poll.failed] /\ poll.failed \in BOOLEAN
      BY <1>1 DEF Evaluated, PollType
    <2> QED BY <2>1, IdleType DEF PollType
  <1>2. CASE ~AtLast
    <2>1. poll.i + 1 \in 1..Len(VnfNames)
      BY <1>2, NamesFacts DEF AtLast, PollType
    <2>2. poll' = [poll EXCEPT !.i = poll.i + 1]
      BY <1>2 DEF Evaluated
    <2> QED BY <2>1, <2>2 DEF PollType
  <1> QED BY <1>1, <1>2

\* The crashes counted for a VNF are a natural number.
LEMMA CrashDetectedType ==
    ASSUME TypeInv, NEW v \in Vnf, poll.pod_status[v] # None, prev_restart_counts[v] # None
    PROVE  /\ CrashDetected(v, poll.pod_status[v]) \in Nat
           /\ poll.pod_status[v] \in InfoType
           /\ poll.pod_status[v].restart_count \in Nat
           /\ prev_restart_counts[v] \in Nat
           /\ CrashDetected(v, poll.pod_status[v]) >=
                  poll.pod_status[v].restart_count - prev_restart_counts[v]
  <1>1. poll \in PollType /\ prev_restart_counts \in [Vnf -> Nat \cup {None}]
    BY DEF TypeInv, TypeOK, PollType, InfoType
  <1>2. poll.pod_status[v] \in InfoType /\ prev_restart_counts[v] \in Nat
    BY <1>1 DEF PollType
  <1>3. poll.pod_status[v].restart_count \in Nat
    BY <1>2 DEF InfoType
  <1> QED BY <1>2, <1>3 DEF CrashDetected, CountedRestarts

LEMMA PollTypeStep == TypeInv /\ Poll => TypeInv'
  <1> SUFFICES ASSUME TypeInv, Poll
               PROVE  TypeInv'
    OBVIOUS
  <1>a. poll \in PollType
    BY DEF TypeInv, TypeOK, PollType, InfoType
  <1>b. ASSUME poll' \in PollType, UNCHANGED <<clusterVars, monitorVars, baseline>>,
               polls' \in Nat, churned' \in [Vnf -> BOOLEAN], calm' \in [Vnf -> BOOLEAN],
               calmAtListing' \in [Vnf -> BOOLEAN], restartsAtListing' \in [Vnf -> Nat]
        PROVE  TypeInv'
    BY <1>b DEF TypeInv, TypeOK, PollType, InfoType, LoggerTypeOK, Baselined, clusterVars, monitorVars
  <1>c. /\ polls \in Nat
        /\ churned \in [Vnf -> BOOLEAN] /\ calm \in [Vnf -> BOOLEAN]
        /\ calmAtListing \in [Vnf -> BOOLEAN] /\ restartsAtListing \in [Vnf -> Nat]
        /\ pods \in [Vnf -> Seq(SeenPod)]
    BY DEF TypeInv, TypeOK
  <1>1. CASE PollStart
    <2>1. poll' \in PollType
      BY <1>1, IdleType DEF PollStart, PollType
    <2> QED BY <1>1, <1>b, <1>c, <2>1 DEF PollStart, historyVars
  <1>2. CASE ListPods
    <2> DEFINE v == VnfNames[poll.i]
               pod == Head(pods[v])
    <2>1. v \in Vnf /\ pods[v] \in Seq(SeenPod) /\ pods[v] # <<>>
      BY <1>2, <1>a, <1>c, NamesFacts DEF ListPods, PollType
    <2>2. pod \in SeenPod
      BY <2>1, HeadTailProperties
    <2>3. Info(pod) \in InfoType /\ pod.restarts \in Nat
      BY <2>2, InfoFacts DEF SeenPod, Pod
    <2>4. poll' \in PollType
      BY <1>2, <1>a, <2>3, ListedType DEF ListPods
    <2>5. churned' \in [Vnf -> BOOLEAN]
      <3>1. PICK b \in BOOLEAN : churned' = [churned EXCEPT ![v] = b]
        <4>1. seen_once \in [Vnf -> BOOLEAN]
          BY DEF TypeInv, TypeOK
        <4> QED BY <1>2, <1>c, <2>1, <4>1 DEF ListPods
      <3> QED BY <1>c, <3>1
    <2>6. calm' \in [Vnf -> BOOLEAN]
      BY <1>2, <1>c DEF ListPods
    <2>7. calmAtListing' \in [Vnf -> BOOLEAN]
      <3>1. calmAtListing' = [calmAtListing EXCEPT ![v] = calm[v]] /\ calm[v] \in BOOLEAN
        BY <1>2, <1>c, <2>1 DEF ListPods
      <3> QED BY <1>c, <3>1
    <2>8. restartsAtListing' \in [Vnf -> Nat]
      <3>1. restartsAtListing' = [restartsAtListing EXCEPT ![v] = pod.restarts]
        BY <1>2 DEF ListPods
      <3> QED BY <1>c, <2>3, <3>1
    <2> QED BY <1>2, <1>b, <1>c, <2>4, <2>5, <2>6, <2>7, <2>8 DEF ListPods
  <1>3. CASE ListNoPods
    <2>1. poll' \in PollType
      BY <1>3, <1>a, ListedType DEF ListNoPods
    <2> QED BY <1>3, <1>b, <1>c, <2>1 DEF ListNoPods, historyVars
  <1>4. CASE ListFails
    <2>1. poll' \in PollType
      <3>1. PICK b \in BOOLEAN :
              poll' = [poll EXCEPT !.pc = "log", !.i = 1, !.failed = b]
        BY <1>4 DEF ListFails
      <3>2. 1 \in 1..Len(VnfNames)
        BY NamesFacts
      <3> QED BY <1>a, <3>1, <3>2 DEF PollType
    <2>2. UNCHANGED <<clusterVars, monitorVars, polls, historyVars>>
      BY <1>4 DEF ListFails
    <2> QED BY <1>b, <1>c, <2>1, <2>2 DEF historyVars
  <1>5. ASSUME NEW v \in Vnf, Evaluate(v)
        PROVE  TypeInv'
    <2> USE <1>5
    <2>a. LoggerTypeOK /\ v \in App
      BY DEF TypeInv, TypeOK, Vnf
    <2>1. poll' \in PollType
      BY <1>a, EvaluatedType DEF Evaluate
    <2>2. ASSUME LoggerTypeOK', Baselined',
                 prev_restart_counts' \in [Vnf -> Nat \cup {None}],
                 baseline' \in [Vnf -> Nat \cup {None}],
                 seen_once' \in [Vnf -> BOOLEAN]
          PROVE  TypeInv'
      BY <2>1, <2>2 DEF TypeInv, TypeOK, PollType, InfoType, Evaluate, clusterVars
    <2>3. /\ prev_restart_counts \in [Vnf -> Nat \cup {None}]
          /\ baseline \in [Vnf -> Nat \cup {None}]
          /\ seen_once \in [Vnf -> BOOLEAN]
          /\ Baselined
      BY DEF TypeInv, TypeOK
    <2>4. CASE LogMissing(v)
      <3>1. LoggerTypeOK'
        BY <2>a, <2>4, LogCrashFacts DEF LogMissing
      <3> QED BY <2>2, <2>3, <2>4, <3>1 DEF LogMissing, Baselined
    <2>b. poll.pod_status[v] # None => poll.pod_status[v].restart_count \in Nat
      BY <1>a DEF PollType, InfoType
    <2>5. CASE LogBaseline(v)
      <3>1. LoggerTypeOK'
        BY <2>a, <2>5, LogCrashFacts DEF LogBaseline
      <3>2. poll.pod_status[v].restart_count # None
        BY <2>5, <2>b, MonitorAssumption, LoggerAssumption DEF LogBaseline
      <3>3. Baselined'
        BY <2>3, <2>5, <3>2 DEF LogBaseline, Baselined
      <3>4. /\ prev_restart_counts' \in [Vnf -> Nat \cup {None}]
            /\ baseline' \in [Vnf -> Nat \cup {None}]
        BY <2>3, <2>5, <2>b DEF LogBaseline
      <3>5. seen_once' \in [Vnf -> BOOLEAN]
        BY <2>3, <2>5 DEF LogBaseline
      <3> QED BY <2>2, <3>1, <3>3, <3>4, <3>5
    <2>6. CASE LogCrashes(v)
      <3>1. LoggerTypeOK'
        BY <2>a, <2>6, LogCrashFacts, CrashDetectedType DEF LogCrashes
      <3>2. poll.pod_status[v].restart_count # None
        BY <2>6, <2>b, MonitorAssumption, LoggerAssumption DEF LogCrashes
      <3>3. Baselined'
        BY <2>3, <2>6, <3>2 DEF LogCrashes, Baselined
      <3>4. prev_restart_counts' \in [Vnf -> Nat \cup {None}] /\ baseline' = baseline
        BY <2>3, <2>6, <2>b DEF LogCrashes
      <3>5. seen_once' \in [Vnf -> BOOLEAN]
        BY <2>3, <2>6 DEF LogCrashes
      <3> QED BY <2>2, <2>3, <3>1, <3>3, <3>4, <3>5
    <2> QED BY <2>4, <2>5, <2>6 DEF Evaluate
  <1> QED BY <1>1, <1>2, <1>3, <1>4, <1>5 DEF Poll

LEMMA TypeStep == TypeInv /\ [Next]_vars => TypeInv'
  <1>1. ASSUME TypeInv, UNCHANGED vars
        PROVE  TypeInv'
    BY <1>1 DEF TypeInv, TypeOK, LoggerTypeOK, Baselined, vars, clusterVars, monitorVars, historyVars
  <1> QED BY <1>1, ClusterType, PollTypeStep DEF Next, BoundsReached

\* The crash thread's state keeps its types: in particular no count of crashes
\* and no restart count ever becomes negative, whatever the cluster does.
THEOREM TypeCorrect == Spec => []TypeOK
  <1>1. TypeInv => TypeOK
    BY DEF TypeInv
  <1> QED BY TypeInit, TypeStep, <1>1, PTL DEF Spec

-----------------------------------------------------------------------------
(* CrashMonitor: CaughtUp.                                                               *)

\* v is among the labels the crash thread is done with in this phase.
Passed(v) == \E j \in 1..(poll.i - 1) : VnfNames[j] = v

\* The crashes logged make up for the restarts observed.
Accounted(v) ==
    prev_restart_counts[v] # None =>
        episode_crash_count[v] >= prev_restart_counts[v] - baseline[v]

\* v still has the pod of the first observation, with at least n restarts.
Alive(v, n) ==
    /\ pods[v] # <<>>
    /\ Head(pods[v]).status # "Evicted"
    /\ Head(pods[v]).restarts >= n

\* The cluster is never behind what was observed of it.
Ahead(v) ==
    (prev_restart_counts[v] # None /\ ~churned[v]) => Alive(v, prev_restart_counts[v])

\* The same of what the current poll has listed.
Reported(v) ==
    LET info == poll.pod_status[v]
    IN  (info # None /\ ~churned[v]) =>
            /\ Alive(v, info.restart_count)
            /\ info.restart_count >= restartsAtListing[v]
            /\ prev_restart_counts[v] # None => info.restart_count >= prev_restart_counts[v]

\* A listing that has passed v without an exception has found it.
Complete(v) ==
    (/\ prev_restart_counts[v] # None
     /\ ~churned[v]
     /\ (poll.pc = "list" /\ Passed(v)) \/ (poll.pc = "log" /\ ~poll.failed))
    => poll.pod_status[v] # None

\* An evaluation that has passed v has taken over what was listed.
Current(v) ==
    (/\ prev_restart_counts[v] # None
     /\ ~churned[v]
     /\ ~poll.failed
     /\ poll.pc = "idle" \/ (poll.pc = "log" /\ Passed(v)))
    => prev_restart_counts[v] >= restartsAtListing[v]

CaughtUpParts(v) == Accounted(v) /\ Ahead(v) /\ Reported(v) /\ Complete(v) /\ Current(v)

CaughtUpInv == \A v \in Vnf : CaughtUpParts(v)

LEMMA CaughtUpInit == Init => CaughtUpInv
  BY DEF Init, CaughtUpInv, CaughtUpParts, Accounted, Ahead, Reported, Complete,
         Current, Idle, NoInfo

\* The first pod of a VNF whose pods are not created, deleted or evicted stays
\* first, and its restart count does not fall.
LEMMA HeadsGrow ==
    ASSUME TypeInv, Cluster, NEW v \in Vnf, NEW n \in Nat, Alive(v, n), ~churned'[v]
    PROVE  ~churned[v] /\ Alive(v, n)'
  <1>a. /\ pods \in [Vnf -> Seq(SeenPod)]
        /\ churned \in [Vnf -> BOOLEAN]
    BY DEF TypeInv, TypeOK
  <1>b. pods[v] \in Seq(SeenPod) /\ Len(pods[v]) \in Nat \ {0} /\ Head(pods[v]) = pods[v][1]
    BY <1>a, EmptySeq DEF Alive
  <1>1. ASSUME NEW w \in Vnf, Churn(w)
        PROVE  w # v /\ churned'[v] = churned[v]
    BY <1>1, <1>a DEF Churn
  <1>2. ASSUME UNCHANGED churned, pods'[v] = pods[v]
        PROVE  ~churned[v] /\ Alive(v, n)'
    BY <1>2 DEF Alive
  <1>3. ASSUME NEW w \in Vnf, NEW i \in DOMAIN pods[w], NEW From, NEW to, to # "Evicted",
               NEW started \in Nat, Move(w, i, From, to, started), UNCHANGED churned
        PROVE  ~churned[v] /\ Alive(v, n)'
    <2>1. CASE w # v
      BY <1>2, <1>3, <1>a, <2>1 DEF Move
    <2>2. CASE w = v
      <3> DEFINE e == [restarts |-> pods[v][i].restarts + started, status |-> to]
      <3>1. pods'[v] = [pods[v] EXCEPT ![i] = e] /\ i \in 1..Len(pods[v])
        BY <1>3, <1>a, <1>b, <2>2, LenProperties DEF Move
      <3>2. pods[v][1].restarts \in Nat /\ pods[v][i].restarts \in Nat
        BY <1>b, <3>1, ElementOfSeq DEF SeenPod, Pod
      <3>3. Len(pods'[v]) = Len(pods[v]) /\ pods'[v][1] = IF i = 1 THEN e ELSE pods[v][1]
        <4> HIDE DEF e
        <4> QED BY <1>b, <3>1
      <3>4. pods'[v] # <<>> /\ Head(pods'[v]) = pods'[v][1]
        <4> HIDE DEF e
        <4> QED BY <1>b, <3>1, <3>3
      <3>5. CASE i = 1
        BY <1>3, <1>b, <3>2, <3>3, <3>4, <3>5 DEF Alive
      <3>6. CASE i # 1
        BY <1>3, <1>b, <3>3, <3>4, <3>6 DEF Alive
      <3> QED BY <3>5, <3>6
    <2> QED BY <2>1, <2>2
  <1>4. ASSUME NEW w \in Vnf, CreatePod(w)
        PROVE  ~churned[v] /\ Alive(v, n)'
    BY <1>1, <1>4, <1>a DEF CreatePod, Alive
  <1>5. ASSUME NEW w \in Vnf, NEW i \in DOMAIN pods[w], PodStep(w, i)
        PROVE  ~churned[v] /\ Alive(v, n)'
    <2>1. CASE StartContainer(w, i)
      BY <1>3, <2>1 DEF StartContainer
    <2>2. CASE ContainerDies(w, i)
      BY <1>3, <2>2 DEF ContainerDies
    <2>3. CASE BackOff(w, i)
      BY <1>3, <2>3 DEF BackOff
    <2>4. CASE RestartContainer(w, i)
      BY <1>3, <2>4 DEF RestartContainer
    <2>5. CASE Evict(w, i)
      BY <1>1, <1>a, <2>5 DEF Evict, Move, Alive
    <2>6. CASE DeletePod(w, i)
      BY <1>1, <1>a, <2>6 DEF DeletePod, Alive
    <2> QED BY <1>5, <2>1, <2>2, <2>3, <2>4, <2>5, <2>6 DEF PodStep
  <1> QED BY <1>4, <1>5 DEF Cluster

\* The last index stands for all names.
LEMMA PassedAll ==
    ASSUME poll \in PollType, AtLast, NEW v \in Vnf, v # VnfNames[poll.i]
    PROVE  Passed(v)
  <1>1. PICK j \in 1..Len(VnfNames) : VnfNames[j] = v
    BY MonitorAssumption, LoggerAssumption
  <1>2. j # poll.i /\ poll.i = Len(VnfNames)
    BY <1>1 DEF AtLast
  <1> QED BY <1>1, <1>2, NamesFacts DEF Passed

\* What a step of the listing does to the poll.
LEMMA ListedFacts ==
    ASSUME poll \in PollType, NEW info, Listed(info)
    PROVE  LET w == VnfNames[poll.i]
           IN  /\ w \in Vnf
               /\ poll'.pod_status = [poll.pod_status EXCEPT ![w] = info]
               /\ poll'.failed = poll.failed
               /\ poll'.pc \in {"list", "log"}
               /\ poll'.pc = "list" => \A v \in Vnf \ {w} : Passed(v)' => Passed(v)
               /\ poll'.pc = "log" => /\ \A v \in Vnf \ {w} : Passed(v)
                                     /\ \A v \in Vnf : ~Passed(v)'
  <1> DEFINE w == VnfNames[poll.i]
  <1>1. w \in Vnf /\ poll.i \in Nat
    BY NamesFacts DEF PollType
  <1>2. /\ poll'.pod_status = [poll.pod_status EXCEPT ![w] = info]
        /\ poll'.failed = poll.failed
        /\ poll'.pc = IF AtLast THEN "log" ELSE "list"
        /\ poll'.i = IF AtLast THEN 1 ELSE poll.i + 1
    BY DEF Listed, PollType
  <1>3. CASE AtLast
    <2>1. \A v \in Vnf \ {w} : Passed(v)
      BY <1>3, PassedAll
    <2>2. \A v \in Vnf : ~Passed(v)'
      BY <1>2, <1>3 DEF Passed
    <2> QED BY <1>1, <1>2, <1>3, <2>1, <2>2
  <1>4. CASE ~AtLast
    <2>1. \A v \in Vnf \ {w} : Passed(v)' => Passed(v)
      BY <1>1, <1>2, <1>4 DEF Passed
    <2> QED BY <1>1, <1>2, <1>4, <2>1
  <1> QED BY <1>3, <1>4

\* What a step of the evaluation does to the poll.
LEMMA EvaluatedFacts ==
    ASSUME poll \in PollType, poll.pc = "log", Evaluated
    PROVE  LET w == VnfNames[poll.i]
           IN  /\ poll'.failed = poll.failed
               /\ poll'.pc \in {"idle", "log"}
               /\ poll'.pc = "idle" => /\ poll'.pod_status = NoInfo
                                      /\ \A v \in Vnf \ {w} : Passed(v)
               /\ poll'.pc = "log" => /\ poll'.pod_status = poll.pod_status
                                     /\ \A v \in Vnf \ {w} : Passed(v)' => Passed(v)
  <1>1. CASE AtLast
    <2>1. poll' = [Idle EXCEPT !.failed = poll.failed]
      BY <1>1 DEF Evaluated
    <2>2. poll'.failed = poll.failed /\ poll'.pc = "idle" /\ poll'.pod_status = NoInfo
      BY <2>1 DEF Idle
    <2> QED BY <1>1, <2>2, PassedAll
  <1>2. CASE ~AtLast
    <2>1. /\ poll'.i = poll.i + 1 /\ poll'.pc = "log" /\ poll'.failed = poll.failed
          /\ poll'.pod_status = poll.pod_status
      BY <1>2 DEF Evaluated, PollType
    <2>2. poll.i \in Nat
      BY DEF PollType
    <2>3. \A v \in Vnf \ {VnfNames[poll.i]} : Passed(v)' => Passed(v)
      BY <2>1, <2>2 DEF Passed
    <2> QED BY <2>1, <2>3
  <1> QED BY <1>1, <1>2

\* The cluster does not touch the monitor.
LEMMA ClusterFrame ==
    ASSUME Cluster
    PROVE  /\ UNCHANGED <<prev_restart_counts, seen_once, crash_history, episode_crash_count,
                          poll, polls, baseline, calmAtListing, restartsAtListing>>
           /\ \E v \in Vnf : calm' = [calm EXCEPT ![v] = FALSE]
  BY DEF Cluster, PodStep, CreatePod, DeletePod, StartContainer, ContainerDies, BackOff,
         RestartContainer, Evict, Move, Event, monitorVars

LEMMA CaughtUpCluster == TypeInv /\ CaughtUpInv /\ Cluster => CaughtUpInv'
  <1> SUFFICES ASSUME TypeInv, CaughtUpInv, Cluster, NEW v \in Vnf
               PROVE  CaughtUpParts(v)'
    BY DEF CaughtUpInv
  <1>a. CaughtUpParts(v)
    BY DEF CaughtUpInv
  <1>b. UNCHANGED <<prev_restart_counts, episode_crash_count, poll, baseline, restartsAtListing>>
    BY ClusterFrame
  <1>c. churned[v] => churned'[v]
    BY DEF TypeInv, TypeOK, Cluster, PodStep, CreatePod, DeletePod, StartContainer,
           ContainerDies, BackOff, RestartContainer, Evict, Churn
  <1>d. /\ prev_restart_counts[v] # None => prev_restart_counts[v] \in Nat
        /\ poll.pod_status[v] # None => poll.pod_status[v].restart_count \in Nat
    BY DEF TypeInv, TypeOK
  <1>1. Accounted(v)'
    BY <1>a, <1>b DEF CaughtUpParts, Accounted
  <1>2. Ahead(v)'
    BY <1>a, <1>b, <1>c, <1>d, HeadsGrow DEF CaughtUpParts, Ahead, Alive
  <1>3. Reported(v)'
    BY <1>a, <1>b, <1>c, <1>d, HeadsGrow DEF CaughtUpParts, Reported, Alive
  <1>4. Complete(v)' /\ Current(v)'
    BY <1>a, <1>b, <1>c DEF CaughtUpParts, Complete, Current, Passed
  <1> QED BY <1>1, <1>2, <1>3, <1>4 DEF CaughtUpParts

\* What an evaluation step of w does to the crash thread's records.
LEMMA EvaluateFacts ==
    ASSUME TypeInv, NEW w \in Vnf, Evaluate(w)
    PROVE  LET info == poll.pod_status[w]
           IN  /\ \A v \in Vnf \ {w} : /\ prev_restart_counts'[v] = prev_restart_counts[v]
                                       /\ baseline'[v] = baseline[v]
                                       /\ episode_crash_count'[v] = episode_crash_count[v]
               /\ \/ /\ info = None
                     /\ prev_restart_counts'[w] = prev_restart_counts[w]
                     /\ baseline'[w] = baseline[w]
                     /\ episode_crash_count'[w] >= episode_crash_count[w]
                  \/ /\ info # None /\ prev_restart_counts[w] = None
                     /\ prev_restart_counts'[w] = info.restart_count
                     /\ baseline'[w] = info.restart_count
                     /\ episode_crash_count'[w] = episode_crash_count[w]
                  \/ /\ info # None /\ prev_restart_counts[w] # None
                     /\ prev_restart_counts'[w] = info.restart_count
                     /\ baseline'[w] = baseline[w]
                     /\ episode_crash_count'[w] = episode_crash_count[w] + CrashDetected(w, info)
  <1> DEFINE info == poll.pod_status[w]
  <1>a. LoggerTypeOK /\ w \in App /\ episode_crash_count[w] \in Nat
    BY DEF TypeInv, TypeOK, Vnf, LoggerTypeOK
  <1>b. /\ prev_restart_counts \in [Vnf -> Nat \cup {None}]
        /\ baseline \in [Vnf -> Nat \cup {None}]
    BY DEF TypeInv, TypeOK
  <1>1. CASE LogMissing(w)
    <2>1. PICK value \in Nat : log_crash(w, value)
      BY <1>1 DEF LogMissing
    <2>2. /\ episode_crash_count'[w] >= episode_crash_count[w]
          /\ \A v \in App \ {w} : episode_crash_count'[v] = episode_crash_count[v]
      BY <1>a, <2>1, LogCrashFacts
    <2> QED BY <1>1, <2>2 DEF LogMissing, Vnf
  <1>2. CASE LogBaseline(w)
    <2>1. /\ episode_crash_count'[w] = episode_crash_count[w]
          /\ \A v \in App \ {w} : episode_crash_count'[v] = episode_crash_count[v]
      BY <1>a, <1>2, LogCrashFacts DEF LogBaseline
    <2> QED BY <1>2, <1>b, <2>1 DEF LogBaseline, Vnf
  <1>3. CASE LogCrashes(w)
    <2>1. CrashDetected(w, info) \in Nat
      BY <1>3, CrashDetectedType DEF LogCrashes
    <2>2. /\ episode_crash_count'[w] = episode_crash_count[w] + CrashDetected(w, info)
          /\ \A v \in App \ {w} : episode_crash_count'[v] = episode_crash_count[v]
      BY <1>a, <1>3, <2>1, LogCrashFacts DEF LogCrashes
    <2> QED BY <1>3, <1>b, <2>2 DEF LogCrashes, Vnf
  <1> QED BY <1>1, <1>2, <1>3 DEF Evaluate

LEMMA CaughtUpPoll == TypeInv /\ CaughtUpInv /\ Poll => CaughtUpInv'
  <1> SUFFICES ASSUME TypeInv, CaughtUpInv, Poll, NEW v \in Vnf
               PROVE  CaughtUpParts(v)'
    BY DEF CaughtUpInv
  <1>a. CaughtUpParts(v)
    BY DEF CaughtUpInv
  <1>b. poll \in PollType
    BY DEF TypeInv, TypeOK, PollType, InfoType
  <1>c. /\ pods \in [Vnf -> Seq(SeenPod)]
        /\ churned \in [Vnf -> BOOLEAN]
        /\ restartsAtListing \in [Vnf -> Nat]
        /\ seen_once[v] <=> prev_restart_counts[v] # None
        /\ prev_restart_counts[v] # None => prev_restart_counts[v] \in Nat
        /\ baseline[v] # None => baseline[v] \in Nat
        /\ prev_restart_counts[v] # None <=> baseline[v] # None
        /\ episode_crash_count[v] \in Nat
    BY DEF TypeInv, TypeOK, Baselined, LoggerTypeOK, Vnf
  <1>d. poll.pod_status[v] # None => poll.pod_status[v].restart_count \in Nat
    BY <1>b DEF PollType, InfoType
  <1>1. CASE PollStart
    <2>1. /\ poll'.pc = "list" /\ poll'.pod_status[v] = None /\ ~Passed(v)'
          /\ UNCHANGED <<pods, prev_restart_counts, episode_crash_count, baseline, churned,
                         restartsAtListing>>
      BY <1>1 DEF PollStart, Idle, NoInfo, Passed, clusterVars, monitorVars, historyVars
    <2> QED
      BY <1>a, <2>1
      DEF CaughtUpParts, Accounted, Ahead, Alive, Reported, Complete, Current
  <1>2. CASE ListPods
    <2> DEFINE w == VnfNames[poll.i]
               pod == Head(pods[w])
    <2>1. /\ poll.pc = "list" /\ w \in Vnf /\ pods[w] # <<>>
          /\ UNCHANGED <<pods, prev_restart_counts, episode_crash_count, baseline>>
          /\ churned' = [churned EXCEPT ![w] = IF seen_once[w] THEN @ ELSE pod.status = "Evicted"]
          /\ restartsAtListing' = [restartsAtListing EXCEPT ![w] = pod.restarts]
      BY <1>2, <1>b, ListedFacts DEF ListPods, clusterVars, monitorVars
    <2>2. /\ poll'.pod_status = [poll.pod_status EXCEPT ![w] = Info(pod)]
          /\ poll'.failed = poll.failed
          /\ poll'.pc \in {"list", "log"}
          /\ poll'.pc = "list" => \A u \in Vnf \ {w} : Passed(u)' => Passed(u)
          /\ poll'.pc = "log" => /\ \A u \in Vnf \ {w} : Passed(u)
                                /\ \A u \in Vnf : ~Passed(u)'
      BY <1>2, <1>b, ListedFacts DEF ListPods
    <2>3. CASE v = w
      <3>1. pod \in SeenPod
        BY <1>c, <2>1, HeadTailProperties
      <3>2. /\ pod.restarts \in Nat /\ Info(pod) # None
            /\ pod.status # "Evicted" => Info(pod).restart_count = pod.restarts
        BY <3>1, InfoFacts DEF SeenPod, Pod
      <3>3. poll'.pod_status[v] = Info(pod)
        BY <1>b, <2>2, <2>3 DEF PollType
      <3>4. restartsAtListing'[v] = pod.restarts
        BY <1>c, <2>1, <2>3
      <3>5. ~churned'[v] => /\ pod.status # "Evicted"
                            /\ prev_restart_counts[v] # None =>
                                  ~churned[v] /\ pod.restarts >= prev_restart_counts[v]
        <4>1. CASE seen_once[v]
          <5>1. churned'[v] = churned[v]
            BY <1>c, <2>1, <2>3, <4>1
          <5> QED BY <1>a, <1>c, <2>3, <4>1, <5>1 DEF CaughtUpParts, Ahead, Alive
        <4>2. CASE ~seen_once[v]
          <5>1. churned'[v] = (pod.status = "Evicted")
            BY <1>c, <2>1, <2>3, <4>2
          <5> QED BY <1>c, <4>2, <5>1
        <4> QED BY <4>1, <4>2
      <3>6. Accounted(v)'
        BY <1>a, <2>1 DEF CaughtUpParts, Accounted
      <3>7. Ahead(v)'
        BY <2>1, <2>3, <3>5 DEF Ahead, Alive
      <3>8. Reported(v)'
        BY <2>1, <2>3, <3>2, <3>3, <3>4, <3>5 DEF Reported, Alive
      <3>9. Complete(v)'
        BY <3>2, <3>3 DEF Complete
      <3>10. Current(v)'
        BY <2>2 DEF Current
      <3> QED BY <3>6, <3>7, <3>8, <3>9, <3>10 DEF CaughtUpParts
    <2>4. CASE v # w
      <3>1. /\ poll'.pod_status[v] = poll.pod_status[v]
            /\ churned'[v] = churned[v]
            /\ restartsAtListing'[v] = restartsAtListing[v]
        BY <1>b, <1>c, <2>1, <2>2, <2>4 DEF PollType
      <3> HIDE DEF w, pod
      <3>2. Accounted(v)' /\ Ahead(v)'
        BY <1>a, <2>1, <3>1 DEF CaughtUpParts, Accounted, Ahead, Alive
      <3>3. Reported(v)'
        BY <1>a, <2>1, <3>1 DEF CaughtUpParts, Reported, Alive
      <3>4. Complete(v)' /\ Current(v)'
        BY <1>a, <2>1, <2>2, <2>4, <3>1 DEF CaughtUpParts, Complete, Current
      <3> QED BY <3>2, <3>3, <3>4 DEF CaughtUpParts
    <2> QED BY <2>3, <2>4
  <1>3. CASE ListNoPods
    <2> DEFINE w == VnfNames[poll.i]
    <2>1. /\ poll.pc = "list" /\ w \in Vnf /\ pods[w] = <<>>
          /\ UNCHANGED <<pods, prev_restart_counts, episode_crash_count, baseline, churned,
                         restartsAtListing>>
      BY <1>3, <1>b, ListedFacts DEF ListNoPods, clusterVars, monitorVars, historyVars
    <2>2. /\ poll'.pod_status = [poll.pod_status EXCEPT ![w] = None]
          /\ poll'.failed = poll.failed
          /\ poll'.pc \in {"list", "log"}
          /\ poll'.pc = "list" => \A u \in Vnf \ {w} : Passed(u)' => Passed(u)
          /\ poll'.pc = "log" => /\ \A u \in Vnf \ {w} : Passed(u)
                                /\ \A u \in Vnf : ~Passed(u)'
      BY <1>3, <1>b, ListedFacts DEF ListNoPods
    <2>3. Accounted(v)' /\ Ahead(v)'
      BY <1>a, <2>1 DEF CaughtUpParts, Accounted, Ahead, Alive
    <2>4. CASE v = w
      <3>1. poll'.pod_status[v] = None
        BY <1>b, <2>2, <2>4 DEF PollType
      <3>2. prev_restart_counts[v] = None \/ churned[v]
        BY <1>a, <2>1, <2>4 DEF CaughtUpParts, Ahead, Alive
      <3> QED BY <2>1, <2>3, <3>1, <3>2 DEF CaughtUpParts, Reported, Complete, Current
    <2>5. CASE v # w
      <3>1. poll'.pod_status[v] = poll.pod_status[v]
        BY <1>b, <2>2, <2>5 DEF PollType
      <3> HIDE DEF w
      <3>3. Reported(v)'
        BY <1>a, <2>1, <3>1 DEF CaughtUpParts, Reported, Alive
      <3>4. Complete(v)' /\ Current(v)'
        BY <1>a, <2>1, <2>2, <2>5, <3>1 DEF CaughtUpParts, Complete, Current
      <3> QED BY <2>3, <3>3, <3>4 DEF CaughtUpParts
    <2> QED BY <2>4, <2>5
  <1>4. CASE ListFails
    <2>1. /\ poll'.pc = "log" /\ poll'.failed /\ poll'.pod_status = poll.pod_status
          /\ UNCHANGED <<pods, prev_restart_counts, episode_crash_count, baseline, churned,
                         restartsAtListing>>
      BY <1>4, <1>b DEF ListFails, PollType, clusterVars, monitorVars, historyVars
    <2> QED
      BY <1>a, <2>1
      DEF CaughtUpParts, Accounted, Ahead, Alive, Reported, Complete, Current
  <1>5. ASSUME NEW w \in Vnf, Evaluate(w)
        PROVE  CaughtUpParts(v)'
    <2> DEFINE info == poll.pod_status[w]
    <2>1. /\ poll.pc = "log" /\ w = VnfNames[poll.i]
          /\ UNCHANGED <<pods, churned, restartsAtListing>>
      BY <1>5 DEF Evaluate, clusterVars
    <2>2. /\ poll'.failed = poll.failed
          /\ poll'.pc \in {"idle", "log"}
          /\ poll'.pc = "idle" => /\ poll'.pod_status = NoInfo
                                 /\ \A u \in Vnf \ {w} : Passed(u)
          /\ poll'.pc = "log" => /\ poll'.pod_status = poll.pod_status
                                /\ \A u \in Vnf \ {w} : Passed(u)' => Passed(u)
      BY <1>5, <1>b, <2>1, EvaluatedFacts DEF Evaluate
    <2>3. poll'.pod_status[v] = None \/ poll'.pod_status[v] = poll.pod_status[v]
      BY <2>2 DEF NoInfo
    <2>4. CASE v # w
      <3>1. /\ prev_restart_counts'[v] = prev_restart_counts[v]
            /\ baseline'[v] = baseline[v]
            /\ episode_crash_count'[v] = episode_crash_count[v]
        BY <1>5, <2>4, EvaluateFacts
      <3>2. Accounted(v)' /\ Ahead(v)'
        BY <1>a, <2>1, <3>1 DEF CaughtUpParts, Accounted, Ahead, Alive
      <3>3. Reported(v)'
        BY <1>a, <2>1, <2>3, <3>1 DEF CaughtUpParts, Reported, Alive
      <3>4. Complete(v)' /\ Current(v)'
        BY <1>a, <2>1, <2>2, <2>4, <3>1 DEF CaughtUpParts, Complete, Current
      <3> QED BY <3>2, <3>3, <3>4 DEF CaughtUpParts
    <2>5. CASE v = w /\ info = None
      <3>1. /\ prev_restart_counts'[v] = prev_restart_counts[v]
            /\ baseline'[v] = baseline[v]
            /\ episode_crash_count'[v] >= episode_crash_count[v]
            /\ episode_crash_count'[v] \in Nat
        BY <1>5, <2>5, EvaluateFacts, PollTypeStep DEF TypeInv, TypeOK, LoggerTypeOK, Vnf
      <3>2. poll'.pod_status[v] = None
        BY <2>3, <2>5
      <3>3. prev_restart_counts[v] = None \/ churned[v] \/ poll.failed
        BY <1>a, <2>1, <2>5 DEF CaughtUpParts, Complete
      <3>4. Accounted(v)'
        BY <1>a, <1>c, <3>1 DEF CaughtUpParts, Accounted
      <3>5. Ahead(v)'
        BY <1>a, <2>1, <3>1 DEF CaughtUpParts, Ahead, Alive
      <3>6. Reported(v)' /\ Complete(v)' /\ Current(v)'
        BY <2>1, <2>2, <3>1, <3>2, <3>3 DEF Reported, Complete, Current
      <3> QED BY <3>4, <3>5, <3>6 DEF CaughtUpParts
    <2>6. CASE v = w /\ info # None
      <3>1. /\ prev_restart_counts'[v] = info.restart_count
            /\ info.restart_count \in Nat
            /\ poll.pod_status[v] = info
        BY <1>5, <1>d, <2>6, EvaluateFacts
      <3>2. Accounted(v)'
        <4>1. CASE prev_restart_counts[v] = None
          <5>1. /\ baseline'[v] = info.restart_count
                /\ episode_crash_count'[v] = episode_crash_count[v]
            BY <1>5, <2>6, <4>1, EvaluateFacts
          <5> QED BY <1>c, <3>1, <5>1 DEF Accounted
        <4>2. CASE prev_restart_counts[v] # None
          <5>1. /\ baseline'[v] = baseline[v]
                /\ episode_crash_count'[v] = episode_crash_count[v] + CrashDetected(v, info)
            BY <1>5, <2>6, <4>2, EvaluateFacts
          <5>2. /\ CrashDetected(v, info) \in Nat
                /\ CrashDetected(v, info) >= info.restart_count - prev_restart_counts[v]
            BY <2>6, <4>2, CrashDetectedType
          <5>3. episode_crash_count[v] >= prev_restart_counts[v] - baseline[v]
            BY <1>a, <4>2 DEF CaughtUpParts, Accounted
          <5> HIDE DEF info
          <5> QED BY <1>c, <3>1, <4>2, <5>1, <5>2, <5>3 DEF Accounted
        <4> QED BY <4>1, <4>2
      <3>3. ~churned[v] => Alive(v, info.restart_count) /\ info.restart_count >= restartsAtListing[v]
        BY <1>a, <2>6 DEF CaughtUpParts, Reported
      <3> HIDE DEF info
      <3>4. Ahead(v)'
        BY <2>1, <3>1, <3>3 DEF Ahead, Alive
      <3>5. Reported(v)'
        BY <2>1, <2>3, <3>1, <3>3 DEF Reported, Alive
      <3>6. Complete(v)' /\ Current(v)'
        BY <2>1, <2>2, <2>6, <3>1, <3>3 DEF Complete, Current
      <3> QED BY <3>2, <3>4, <3>5, <3>6 DEF CaughtUpParts
    <2> QED BY <2>4, <2>5, <2>6
  <1> QED BY <1>1, <1>2, <1>3, <1>4, <1>5 DEF Poll

\* However the cluster's events fall between the steps of the polls, and however
\* many polls failed before, a complete poll accounts for every restart.
THEOREM RestartsAccounted == Spec => []CaughtUp
  <1>1. TypeInv /\ CaughtUpInv /\ [Next]_vars => CaughtUpInv'
    <2>1. ASSUME CaughtUpInv, UNCHANGED vars
          PROVE  CaughtUpInv'
      BY <2>1
      DEF CaughtUpInv, CaughtUpParts, Accounted, Ahead, Alive, Reported, Complete, Current,
          Passed, vars, clusterVars, monitorVars, historyVars
    <2> QED BY <2>1, CaughtUpCluster, CaughtUpPoll DEF Next, BoundsReached
  <1>2. TypeInv /\ CaughtUpInv => CaughtUp
    <2> SUFFICES ASSUME TypeInv, CaughtUpInv, poll.pc = "idle", ~poll.failed,
                        NEW v \in Vnf, baseline[v] # None, ~churned[v]
                 PROVE  episode_crash_count[v] >= restartsAtListing[v] - baseline[v]
      BY DEF CaughtUp
    <2>1. prev_restart_counts[v] # None
      BY DEF TypeInv, Baselined
    <2>a. Accounted(v) /\ Current(v)
      BY DEF CaughtUpInv, CaughtUpParts
    <2>2. /\ prev_restart_counts[v] >= restartsAtListing[v]
          /\ episode_crash_count[v] >= prev_restart_counts[v] - baseline[v]
      BY <2>1, <2>a DEF Current, Accounted
    <2>3. /\ prev_restart_counts[v] \in Nat /\ baseline[v] \in Nat
          /\ restartsAtListing[v] \in Nat /\ episode_crash_count[v] \in Nat
      BY <2>1 DEF TypeInv, TypeOK, LoggerTypeOK, Vnf
    <2> QED BY <2>2, <2>3
  <1> QED BY TypeInit, TypeStep, CaughtUpInit, <1>1, <1>2, PTL DEF Spec

-----------------------------------------------------------------------------
(* QuietVnfFlaggedForCause.                                                *)

\* v was listed and waits for its evaluation.
Held(v) ==
    /\ poll.pod_status[v] # None
    /\ poll.pc = "list" \/ (poll.pc = "log" /\ ~Passed(v))

\* Read now, v's first pod would be reported with this restart count.
Shows(v, count) == pods[v] # <<>> /\ Info(Head(pods[v])).restart_count = count

\* What is not listed yet holds nothing of an earlier poll.
Unlisted(v) ==
    (poll.pc = "idle" \/ (poll.pc = "list" /\ ~Passed(v))) => poll.pod_status[v] = None

\* While v is calm, the cluster still shows the count that was listed last,
\* whether it waits in the poll or was taken over by the evaluation.
StillShown(v) ==
    calm[v] =>
        /\ Held(v) => Shows(v, poll.pod_status[v].restart_count)
        /\ (~Held(v) /\ prev_restart_counts[v] # None) => Shows(v, prev_restart_counts[v])

\* A VNF that was calm when it was listed was listed with the previous count.
ListedAgain(v) ==
    (Held(v) /\ calmAtListing[v] /\ prev_restart_counts[v] # None) =>
        poll.pod_status[v].restart_count = prev_restart_counts[v]

QuietParts(v) == Unlisted(v) /\ StillShown(v) /\ ListedAgain(v)

QuietInv == \A v \in Vnf : QuietParts(v)

LEMMA QuietInit == Init => QuietInv
  BY DEF Init, QuietInv, QuietParts, Unlisted, StillShown, ListedAgain, Held, Idle, NoInfo

\* An event of the cluster concerns one VNF, which is calm no longer.
LEMMA EventsEndCalm ==
    ASSUME TypeInv, Cluster, NEW v \in Vnf, calm'[v]
    PROVE  calm[v] /\ pods'[v] = pods[v]
  <1>a. pods \in [Vnf -> Seq(SeenPod)] /\ calm \in [Vnf -> BOOLEAN]
    BY DEF TypeInv, TypeOK
  <1>1. ASSUME NEW w \in Vnf, Event(w)
        PROVE  w # v /\ calm[v]
    BY <1>1, <1>a DEF Event
  <1>2. ASSUME NEW w \in Vnf, CreatePod(w)
        PROVE  calm[v] /\ pods'[v] = pods[v]
    <2>1. PICK list : pods' = [pods EXCEPT ![w] = list]
      BY <1>2 DEF CreatePod
    <2> QED BY <1>1, <1>2, <1>a, <2>1 DEF CreatePod
  <1>3. ASSUME NEW w \in Vnf, NEW i \in DOMAIN pods[w], PodStep(w, i)
        PROVE  calm[v] /\ pods'[v] = pods[v]
    <2>1. Event(w)
      BY <1>3 DEF PodStep, StartContainer, ContainerDies, BackOff, RestartContainer, Evict,
                  DeletePod, Move
    <2>2. PICK list : pods' = [pods EXCEPT ![w] = list]
      BY <1>3, <1>a DEF PodStep, StartContainer, ContainerDies, BackOff, RestartContainer, Evict,
                        DeletePod, Move
    <2> QED BY <1>1, <1>a, <2>1, <2>2
  <1> QED BY <1>2, <1>3 DEF Cluster

LEMMA QuietCluster == TypeInv /\ QuietInv /\ Cluster => QuietInv'
  <1> SUFFICES ASSUME TypeInv, QuietInv, Cluster, NEW v \in Vnf
               PROVE  QuietParts(v)'
    BY DEF QuietInv
  <1>1. UNCHANGED <<prev_restart_counts, poll, calmAtListing>>
    BY ClusterFrame
  <1>2. calm'[v] => calm[v] /\ pods'[v] = pods[v]
    BY EventsEndCalm
  <1>3. QuietParts(v)
    BY DEF QuietInv
  <1> QED
    BY <1>1, <1>2, <1>3
    DEF QuietParts, Unlisted, StillShown, ListedAgain, Held, Shows, Passed

\* The name at the current index is not among those passed, and is once the
\* index has moved on; the others stay on their side.
LEMMA PassedOnce ==
    ASSUME poll \in PollType, NEW w \in Vnf, w = VnfNames[poll.i]
    PROVE  /\ ~Passed(w)
           /\ poll'.i = poll.i + 1 => /\ Passed(w)'
                                     /\ \A v \in Vnf \ {w} : Passed(v)' <=> Passed(v)
  <1>1. poll.i \in 1..Len(VnfNames) /\ Len(VnfNames) \in Nat
    BY NamesFacts DEF PollType
  <1>2. ASSUME NEW j \in 1..(poll.i - 1), VnfNames[j] = w
        PROVE  FALSE
    <2>1. j \in 1..Len(VnfNames) /\ j # poll.i
      BY <1>1
    <2> QED BY <1>1, <1>2, <2>1, MonitorAssumption, LoggerAssumption
  <1>3. ASSUME poll'.i = poll.i + 1
        PROVE  /\ Passed(w)'
               /\ \A v \in Vnf \ {w} : Passed(v)' <=> Passed(v)
    <2>1. 1..(poll'.i - 1) = 1..(poll.i - 1) \cup {poll.i}
      BY <1>1, <1>3
    <2> QED BY <2>1 DEF Passed
  <1> QED BY <1>2, <1>3 DEF Passed

\* A step that leaves v's place in the poll alone.
Aside(v) ==
    /\ Held(v)' <=> Held(v)
    /\ Held(v) => poll'.pod_status[v] = poll.pod_status[v]
    /\ Unlisted(v) => Unlisted(v)'

LEMMA OthersListed ==
    ASSUME poll \in PollType, poll.pc = "list", NEW info, Listed(info),
           NEW v \in Vnf, v # VnfNames[poll.i]
    PROVE  Aside(v)
  <1>1. /\ poll'.pod_status = [poll.pod_status EXCEPT ![VnfNames[poll.i]] = info]
        /\ poll'.pc = IF AtLast THEN "log" ELSE "list"
        /\ poll'.i = IF AtLast THEN 1 ELSE poll.i + 1
    BY DEF Listed, PollType
  <1>2. poll'.pod_status[v] = poll.pod_status[v]
    BY <1>1 DEF PollType
  <1>3. CASE AtLast
    BY <1>1, <1>2, <1>3 DEF Aside, Held, Unlisted, Passed
  <1>4. CASE ~AtLast
    <2>1. Passed(v)' <=> Passed(v)
      BY <1>1, <1>4, NamesFacts, PassedOnce DEF PollType
    <2> QED BY <1>1, <1>2, <1>4, <2>1 DEF Aside, Held, Unlisted
  <1> QED BY <1>3, <1>4

LEMMA OthersEvaluated ==
    ASSUME poll \in PollType, poll.pc = "log", Evaluated,
           NEW v \in Vnf, v # VnfNames[poll.i]
    PROVE  Aside(v)
  <1>1. CASE AtLast
    <2>1. poll'.pc = "idle" /\ poll'.pod_status = NoInfo
      BY <1>1 DEF Evaluated, Idle
    <2>2. Passed(v)
      BY <1>1, PassedAll
    <2> QED BY <2>1, <2>2 DEF Aside, Held, Unlisted, NoInfo
  <1>2. CASE ~AtLast
    <2>1. poll'.pc = "log" /\ poll'.i = poll.i + 1 /\ poll'.pod_status = poll.pod_status
      BY <1>2 DEF Evaluated, PollType
    <2>2. Passed(v)' <=> Passed(v)
      BY <2>1, NamesFacts, PassedOnce DEF PollType
    <2> QED BY <2>1, <2>2 DEF Aside, Held, Unlisted
  <1> QED BY <1>1, <1>2

LEMMA QuietPoll == TypeInv /\ QuietInv /\ Poll => QuietInv'
  <1> SUFFICES ASSUME TypeInv, QuietInv, Poll, NEW v \in Vnf
               PROVE  QuietParts(v)'
    BY DEF QuietInv
  <1>a. QuietParts(v)
    BY DEF QuietInv
  <1>b. poll \in PollType
    BY DEF TypeInv, TypeOK, PollType, InfoType
  <1>c. calm \in [Vnf -> BOOLEAN] /\ calmAtListing \in [Vnf -> BOOLEAN]
    BY DEF TypeInv, TypeOK
  <1>1. CASE PollStart
    <2>1. /\ poll'.pc = "list" /\ poll'.pod_status[v] = None
          /\ UNCHANGED <<pods, prev_restart_counts, calm, calmAtListing>>
      BY <1>1 DEF PollStart, Idle, NoInfo, clusterVars, monitorVars, historyVars
    <2>2. ~Held(v) /\ ~Held(v)'
      BY <1>1, <2>1 DEF PollStart, Held
    <2> QED
      BY <1>a, <2>1, <2>2 DEF QuietParts, Unlisted, StillShown, ListedAgain, Shows
  <1>2. ASSUME Aside(v), pods' = pods, prev_restart_counts'[v] = prev_restart_counts[v],
               calm'[v] = calm[v], calmAtListing'[v] = calmAtListing[v]
        PROVE  QuietParts(v)'
    BY <1>2, <1>a DEF Aside, QuietParts, StillShown, ListedAgain, Shows
  <1>3. ASSUME v = VnfNames[poll.i], poll.pc = "list", NEW info, Listed(info)
        PROVE  /\ poll'.pod_status[v] = info
               /\ Unlisted(v)'
               /\ Held(v)' <=> info # None
               /\ ~Held(v)
    <2>1. poll'.pod_status = [poll.pod_status EXCEPT ![v] = info]
      BY <1>3 DEF Listed, PollType
    <2>2. poll'.pod_status[v] = info
      BY <1>b, <2>1 DEF PollType
    <2>3. ~Passed(v) /\ ~Held(v)
      BY <1>3, <1>a, <1>b, PassedOnce DEF QuietParts, Unlisted, Held
    <2>4. CASE AtLast
      <3>1. poll'.pc = "log" /\ poll'.i = 1
        BY <1>3, <1>b, <2>4 DEF Listed, PollType
      <3> QED BY <2>2, <2>3, <3>1 DEF Held, Unlisted, Passed
    <2>5. CASE ~AtLast
      <3>1. poll'.pc = "list" /\ poll'.i = poll.i + 1
        BY <1>3, <1>b, <2>5 DEF Listed, PollType
      <3>2. Passed(v)'
        BY <1>3, <1>b, <3>1, PassedOnce
      <3> QED BY <2>2, <2>3, <3>1, <3>2 DEF Held, Unlisted
    <2> QED BY <2>4, <2>5
  <1>4. CASE ListPods
    <2> DEFINE w == VnfNames[poll.i]
               pod == Head(pods[w])
    <2>1. /\ poll.pc = "list" /\ w \in Vnf /\ pods[w] # <<>> /\ Listed(Info(pod))
          /\ UNCHANGED <<pods, prev_restart_counts>>
          /\ calm' = [calm EXCEPT ![w] = TRUE]
          /\ calmAtListing' = [calmAtListing EXCEPT ![w] = calm[w]]
      BY <1>4, <1>b, ListedFacts DEF ListPods, clusterVars, monitorVars
    <2>2. CASE v # w
      <3>1. Aside(v)
        BY <1>b, <2>1, <2>2, OthersListed
      <3> QED BY <1>2, <1>c, <2>1, <2>2, <3>1
    <2>3. CASE v = w
      <3>1. pod \in SeenPod
        BY <2>1, HeadTailProperties DEF TypeInv
      <3>2. Info(pod) # None
        BY <3>1, InfoFacts
      <3>3. /\ poll'.pod_status[v] = Info(pod)
            /\ Unlisted(v)' /\ Held(v)' /\ ~Held(v)
        BY <1>3, <2>1, <2>3, <3>2
      <3>4. calmAtListing'[v] = calm[v]
        BY <1>c, <2>1, <2>3
      <3>5. StillShown(v)'
        BY <2>1, <2>3, <3>3 DEF StillShown, Shows
      <3>6. ListedAgain(v)'
        BY <1>a, <2>1, <2>3, <3>3, <3>4 DEF QuietParts, StillShown, Shows, ListedAgain
      <3> QED BY <3>3, <3>5, <3>6 DEF QuietParts
    <2> QED BY <2>2, <2>3
  <1>5. CASE ListNoPods
    <2>1. /\ poll.pc = "list" /\ Listed(None)
          /\ UNCHANGED <<pods, prev_restart_counts, calm, calmAtListing>>
      BY <1>5 DEF ListNoPods, clusterVars, monitorVars, historyVars
    <2>2. CASE v # VnfNames[poll.i]
      <3>1. Aside(v)
        BY <1>b, <2>1, <2>2, OthersListed
      <3> QED BY <1>2, <2>1, <3>1
    <2>3. CASE v = VnfNames[poll.i]
      <3>1. Unlisted(v)' /\ ~Held(v)' /\ ~Held(v)
        BY <1>3, <2>1, <2>3
      <3> QED BY <1>a, <2>1, <3>1 DEF QuietParts, StillShown, ListedAgain, Shows
    <2> QED BY <2>2, <2>3
  <1>6. CASE ListFails
    <2>1. /\ poll.pc = "list" /\ poll'.pc = "log" /\ poll'.i = 1
          /\ poll'.pod_status = poll.pod_status
          /\ UNCHANGED <<pods, prev_restart_counts, calm, calmAtListing>>
      BY <1>6, <1>b DEF ListFails, PollType, clusterVars, monitorVars, historyVars
    <2>2. ~Passed(v)'
      BY <2>1 DEF Passed
    <2>3. Held(v)' <=> Held(v)
      BY <2>1, <2>2 DEF Held
    <2> QED BY <1>a, <2>1, <2>3 DEF QuietParts, Unlisted, StillShown, ListedAgain, Shows
  <1>7. ASSUME NEW w \in Vnf, Evaluate(w)
        PROVE  QuietParts(v)'
    <2> DEFINE info == poll.pod_status[w]
    <2>1. /\ poll.pc = "log" /\ w = VnfNames[poll.i] /\ Evaluated
          /\ UNCHANGED <<pods, calm, calmAtListing>>
      BY <1>7 DEF Evaluate, clusterVars
    <2>2. CASE v # w
      <3>1. prev_restart_counts'[v] = prev_restart_counts[v]
        BY <1>7, <2>2, EvaluateFacts
      <3>2. Aside(v)
        BY <1>b, <2>1, <2>2, OthersEvaluated
      <3> QED BY <1>2, <2>1, <3>1, <3>2
    <2>3. CASE v = w
      <3>1. ~Passed(v) /\ (Held(v) <=> info # None)
        BY <1>b, <2>1, <2>3, PassedOnce DEF Held
      <3>2. ~Held(v)' /\ Unlisted(v)'
        <4>1. CASE AtLast
          <5>1. poll'.pc = "idle" /\ poll'.pod_status = NoInfo
            BY <2>1, <4>1 DEF Evaluated, Idle
          <5> QED BY <5>1 DEF Held, Unlisted, NoInfo
        <4>2. CASE ~AtLast
          <5>1. poll'.pc = "log" /\ poll'.i = poll.i + 1
            BY <2>1, <1>b, <4>2 DEF Evaluated, PollType
          <5>2. Passed(v)'
            BY <1>b, <2>1, <2>3, <5>1, PassedOnce
          <5> QED BY <5>1, <5>2 DEF Held, Unlisted
        <4> QED BY <4>1, <4>2
      <3>3. prev_restart_counts'[v] = IF info = None THEN prev_restart_counts[v]
                                                     ELSE info.restart_count
        BY <1>7, <2>3, EvaluateFacts
      <3>4. StillShown(v)'
        BY <1>a, <2>1, <2>3, <3>1, <3>2, <3>3 DEF QuietParts, StillShown, Shows
      <3>5. ListedAgain(v)'
        BY <3>2 DEF ListedAgain
      <3> QED BY <3>2, <3>4, <3>5 DEF QuietParts
    <2> QED BY <2>2, <2>3
  <1> QED BY <1>1, <1>4, <1>5, <1>6, <1>7 DEF Poll

\* A VNF that was evaluated has a restart count to be compared with.
SeenHasCount(v) == seen_once[v] => prev_restart_counts[v] # None

\* A calm VNF has a pod, so a listing that comes to it finds it.
FoundUnlessCutOff(v) ==
    (/\ calm[v] /\ seen_once[v] /\ poll.pod_status[v] = None
     /\ poll.pc = "log" \/ (poll.pc = "list" /\ Passed(v)))
    => poll.failed

SkippedInv == \A v \in Vnf : SeenHasCount(v) /\ FoundUnlessCutOff(v)

LEMMA SkippedInit == Init => SkippedInv
  BY DEF Init, SkippedInv, SeenHasCount, FoundUnlessCutOff, Idle

LEMMA SkippedPoll == TypeInv /\ QuietInv /\ SkippedInv /\ Poll => SkippedInv'
  <1> SUFFICES ASSUME TypeInv, QuietInv, SkippedInv, Poll, NEW v \in Vnf
               PROVE  (SeenHasCount(v) /\ FoundUnlessCutOff(v))'
    BY DEF SkippedInv
  <1>a. SeenHasCount(v) /\ FoundUnlessCutOff(v) /\ QuietParts(v)
    BY DEF SkippedInv, QuietInv
  <1>b. poll \in PollType
    BY DEF TypeInv, TypeOK, PollType, InfoType
  <1>c. calm \in [Vnf -> BOOLEAN] /\ seen_once \in [Vnf -> BOOLEAN]
    BY DEF TypeInv, TypeOK
  <1>1. CASE PollStart
    <2>1. poll'.pc = "list" /\ poll'.i = 1 /\ UNCHANGED <<prev_restart_counts, seen_once>>
      BY <1>1 DEF PollStart, Idle, monitorVars
    <2>2. ~Passed(v)'
      BY <2>1 DEF Passed
    <2> QED BY <1>a, <2>1, <2>2 DEF SeenHasCount, FoundUnlessCutOff
  <1>2. ASSUME poll.pc = "list", NEW info, Listed(info), v # VnfNames[poll.i],
               calm'[v] = calm[v], UNCHANGED <<prev_restart_counts, seen_once>>
        PROVE  (SeenHasCount(v) /\ FoundUnlessCutOff(v))'
    <2> DEFINE w == VnfNames[poll.i]
    <2>1. /\ poll'.pod_status = [poll.pod_status EXCEPT ![w] = info]
          /\ poll'.failed = poll.failed /\ poll'.pc \in {"list", "log"}
          /\ poll'.pc = "list" => (Passed(v)' => Passed(v))
          /\ poll'.pc = "log" => Passed(v)
      BY <1>2, <1>b, ListedFacts
    <2>2. poll'.pod_status[v] = poll.pod_status[v]
      BY <1>2, <1>b, <2>1 DEF PollType
    <2> QED BY <1>2, <1>a, <2>1, <2>2 DEF SeenHasCount, FoundUnlessCutOff
  <1>3. CASE ListPods
    <2> DEFINE w == VnfNames[poll.i]
    <2>1. /\ poll.pc = "list" /\ w \in Vnf /\ pods[w] # <<>> /\ Listed(Info(Head(pods[w])))
          /\ UNCHANGED <<prev_restart_counts, seen_once>>
          /\ calm' = [calm EXCEPT ![w] = TRUE]
      BY <1>3, <1>b, ListedFacts DEF ListPods, monitorVars
    <2>2. CASE v # w
      BY <1>2, <1>c, <2>1, <2>2
    <2>3. CASE v = w
      <3>1. Info(Head(pods[w])) # None
        BY <2>1, HeadTailProperties, InfoFacts DEF TypeInv
      <3>2. poll'.pod_status[v] = Info(Head(pods[w]))
        <4>1. poll'.pod_status = [poll.pod_status EXCEPT ![v] = Info(Head(pods[w]))]
          BY <2>1, <2>3 DEF Listed
        <4> QED BY <1>b, <4>1 DEF PollType
      <3> QED BY <1>a, <2>1, <3>1, <3>2 DEF SeenHasCount, FoundUnlessCutOff
    <2> QED BY <2>2, <2>3
  <1>4. CASE ListNoPods
    <2>1. /\ poll.pc = "list" /\ pods[VnfNames[poll.i]] = <<>> /\ Listed(None)
          /\ UNCHANGED <<prev_restart_counts, seen_once, calm>>
      BY <1>4 DEF ListNoPods, monitorVars, historyVars
    <2>2. CASE v # VnfNames[poll.i]
      BY <1>2, <2>1, <2>2
    <2>3. CASE v = VnfNames[poll.i]
      <3>1. ~Passed(v)
        BY <1>b, <2>3, PassedOnce
      <3>2. ~Held(v)
        BY <1>a, <2>1, <3>1 DEF QuietParts, Unlisted, Held
      <3>3. ~(calm[v] /\ seen_once[v])
        BY <1>a, <2>1, <2>3, <3>2 DEF QuietParts, StillShown, Shows, SeenHasCount
      <3> QED BY <1>a, <2>1, <3>3 DEF SeenHasCount, FoundUnlessCutOff
    <2> QED BY <2>2, <2>3
  <1>5. CASE ListFails
    <2>1. poll'.failed /\ UNCHANGED <<prev_restart_counts, seen_once>>
      BY <1>5, <1>b DEF ListFails, PollType, monitorVars
    <2> QED BY <1>a, <2>1 DEF SeenHasCount, FoundUnlessCutOff
  <1>6. ASSUME NEW w \in Vnf, Evaluate(w)
        PROVE  (SeenHasCount(v) /\ FoundUnlessCutOff(v))'
    <2> DEFINE info == poll.pod_status[w]
    <2>1. poll.pc = "log" /\ Evaluated /\ calm' = calm
      BY <1>6 DEF Evaluate
    <2>2. \/ poll'.pc = "idle"
          \/ poll'.pc = "log" /\ poll'.pod_status = poll.pod_status /\ poll'.failed = poll.failed
      <3>1. CASE AtLast
        BY <2>1, <3>1 DEF Evaluated, Idle
      <3>2. CASE ~AtLast
        BY <1>b, <2>1, <3>2 DEF Evaluated, PollType
      <3> QED BY <3>1, <3>2
    <2>3. \/ UNCHANGED <<prev_restart_counts, seen_once>>
          \/ /\ info # None
             /\ prev_restart_counts' = [prev_restart_counts EXCEPT ![w] = info.restart_count]
             /\ seen_once' = [seen_once EXCEPT ![w] = TRUE]
      BY <1>6 DEF Evaluate, LogMissing, LogBaseline, LogCrashes
    <2>4. SeenHasCount(v)'
      <3>1. info # None => info.restart_count # None
        <4>1. info # None => info \in InfoType
          BY <1>b DEF PollType
        <4> QED BY <4>1, LoggerAssumption DEF InfoType
      <3>2. prev_restart_counts \in [Vnf -> Nat \cup {None}]
        BY DEF TypeInv, TypeOK
      <3> QED BY <1>a, <1>c, <2>3, <3>1, <3>2 DEF SeenHasCount
    <2>5. FoundUnlessCutOff(v)'
      <3>1. (seen_once'[v] /\ poll.pod_status[v] = None) => seen_once[v]
        BY <1>c, <2>3
      <3> QED BY <1>a, <2>1, <2>2, <3>1 DEF FoundUnlessCutOff
    <2> QED BY <2>4, <2>5
  <1> QED BY <1>1, <1>3, <1>4, <1>5, <1>6 DEF Poll

LEMMA SkippedStep == TypeInv /\ QuietInv /\ SkippedInv /\ [Next]_vars => SkippedInv'
  <1> SUFFICES ASSUME TypeInv, QuietInv, SkippedInv, [Next]_vars
               PROVE  SkippedInv'
    OBVIOUS
  <1>1. CASE Cluster
    <2>1. UNCHANGED <<prev_restart_counts, seen_once, poll>>
      BY <1>1, ClusterFrame
    <2>2. \A v \in Vnf : calm'[v] => calm[v]
      BY <1>1, EventsEndCalm
    <2> QED BY <2>1, <2>2 DEF SkippedInv, SeenHasCount, FoundUnlessCutOff, Passed
  <1>2. CASE UNCHANGED vars
    <2>1. UNCHANGED <<prev_restart_counts, seen_once, poll, calm>>
      BY <1>2 DEF vars, monitorVars, historyVars
    <2> QED BY <2>1 DEF SkippedInv, SeenHasCount, FoundUnlessCutOff, Passed
  <1> QED BY <1>1, <1>2, SkippedPoll DEF Next, BoundsReached

\* The evaluation of a quiet VNF logs one crash if the VNF is missing or in a bad state,
\* and none otherwise.
LEMMA QuietEvaluation ==
    ASSUME TypeInv, QuietInv, SkippedInv, NEW v \in Vnf, Evaluate(v), seen_once[v], Quiet(v)
    PROVE  LET cutOff == poll.pod_status[v] = None /\ poll.failed
           IN  episode_crash_count'[v] =
                   episode_crash_count[v] + IF cutOff \/ InBadState(v) THEN 1 ELSE 0
  <1>1. poll \in PollType
    BY DEF TypeInv, TypeOK, PollType, InfoType
  <1>2. prev_restart_counts[v] # None
    BY DEF SkippedInv, SeenHasCount
  <1>3. CASE poll.pod_status[v] = None
    <2>1. poll.failed
      BY <1>3 DEF SkippedInv, FoundUnlessCutOff, Quiet, Evaluate
    <2>2. log_crash(v, 1)
      BY <1>3 DEF Evaluate, LogMissing, LogBaseline, LogCrashes
    <2>3. episode_crash_count'[v] = episode_crash_count[v] + 1
      BY <2>2, LogCrashFacts DEF TypeInv, TypeOK, Vnf
    <2> QED BY <1>3, <2>1, <2>3
  <1>4. CASE poll.pod_status[v] # None
    <2>1. Held(v)
      BY <1>1, <1>4, PassedOnce DEF Evaluate, Held
    <2>2. poll.pod_status[v].restart_count = prev_restart_counts[v]
      BY <1>2, <1>4, <2>1 DEF QuietInv, QuietParts, ListedAgain, Quiet
    <2>3. prev_restart_counts[v] \in Nat
      BY <1>2, <1>4, CrashDetectedType
    <2>4. CrashDetected(v, poll.pod_status[v]) = IF InBadState(v) THEN 1 ELSE 0
      BY <1>4, <2>2, <2>3 DEF CrashDetected, CountedRestarts, InBadState
    <2>5. episode_crash_count'[v] = episode_crash_count[v] + CrashDetected(v, poll.pod_status[v])
      BY <1>2, <1>4, EvaluateFacts
    <2> QED BY <1>4, <2>4, <2>5
  <1> QED BY <1>3, <1>4

\* For any VNFs, events and polls: a VNF that is quiet is logged as crashed only if it is
\* listed in a bad state or an exception of the API cut the listing off before it, and
\* then once by each such poll; every other poll logs no crash of it.  So a restart is
\* counted once, however many polls were cut off in between.
THEOREM QuietVnfsFlaggedForCause == Spec => QuietVnfFlaggedForCause
  <1> DEFINE Logged(v) ==
        (Evaluate(v) /\ seen_once[v] /\ Quiet(v)) =>
           LET cutOff == poll.pod_status[v] = None /\ poll.failed
           IN  episode_crash_count'[v] =
                   episode_crash_count[v] + IF cutOff \/ InBadState(v) THEN 1 ELSE 0
  <1>1. TypeInv /\ QuietInv /\ [Next]_vars => QuietInv'
    <2>1. ASSUME QuietInv, UNCHANGED vars
          PROVE  QuietInv'
      BY <2>1
      DEF QuietInv, QuietParts, Unlisted, StillShown, ListedAgain, Held, Shows, Passed,
          vars, clusterVars, monitorVars, historyVars
    <2> QED BY <2>1, QuietCluster, QuietPoll DEF Next, BoundsReached
  <1>2. TypeInv /\ QuietInv /\ SkippedInv /\ [Next]_vars => [\A v \in Vnf : Logged(v)]_vars
    BY QuietEvaluation
  <1>3. Spec => [][\A v \in Vnf : Logged(v)]_vars
    BY TypeInit, TypeStep, QuietInit, SkippedInit, SkippedStep, <1>1, <1>2, PTL DEF Spec
  <1> QED BY <1>3 DEF QuietVnfFlaggedForCause

-----------------------------------------------------------------------------
(* CrashMonitor implements CrashThread.                                    *)

\* An evaluation logs a natural number for its VNF.
LEMMA EvaluateLogs ==
    ASSUME TypeInv, NEW v \in Vnf, Evaluate(v)
    PROVE  \E value \in Nat : log_crash(v, value)
  <1>1. CASE LogMissing(v)
    BY <1>1 DEF LogMissing
  <1>2. CASE LogBaseline(v)
    BY <1>2 DEF LogBaseline
  <1>3. CASE LogCrashes(v)
    BY <1>3, CrashDetectedType DEF LogCrashes
  <1> QED BY <1>1, <1>2, <1>3 DEF Evaluate

PollsBounded == polls <= MaxPolls

LEMMA ThreadInitially == Init => Thread!ThreadInit
  BY DEF Init, Idle, LoggerInit, Thread!ThreadInit, Thread!LoggerInit

\* The readers of the logger take no notice of a listing.
LEMMA ThreadStutters ==
    ASSUME TypeInv, Cluster \/ PollStart \/ ListPods \/ ListNoPods \/ ListFails
    PROVE  UNCHANGED Thread!threadVars
  <1> USE DEF Thread!threadVars, Thread!loggerVars
  <1>a. poll \in PollType
    BY DEF TypeInv, TypeOK, PollType, InfoType
  <1>1. CASE Cluster
    BY <1>1, ClusterFrame
  <1>2. CASE PollStart
    BY <1>2 DEF PollStart, Idle, monitorVars
  <1>3. ASSUME poll.pc = "list", NEW info, Listed(info), UNCHANGED <<polls, monitorVars>>
        PROVE  UNCHANGED Thread!threadVars
    BY <1>3, <1>a DEF Listed, PollType, monitorVars
  <1>4. CASE ListPods
    BY <1>3, <1>4 DEF ListPods
  <1>5. CASE ListNoPods
    BY <1>3, <1>5 DEF ListNoPods
  <1>6. CASE ListFails
    BY <1>6, <1>a DEF ListFails, PollType, monitorVars
  <1> QED BY <1>1, <1>2, <1>4, <1>5, <1>6

\* An evaluation is the thread's next value.
LEMMA ThreadLogs ==
    ASSUME TypeInv, PollsBounded, NEW v \in Vnf, Evaluate(v)
    PROVE  \E value \in Nat : Thread!LogNext(value)
  <1>a. poll \in PollType /\ polls \in Nat /\ poll.pc = "log" /\ v = VnfNames[poll.i]
        /\ polls' = polls
    BY DEF TypeInv, TypeOK, PollType, InfoType, Evaluate
  <1>1. PICK value \in Nat : log_crash(v, value)
    BY EvaluateLogs
  <1>2. Thread!log_crash(VnfNames[poll.i], value)
    BY <1>a, <1>1 DEF log_crash, Appended, Thread!log_crash, Thread!Appended
  <1>3. CASE AtLast
    <2>1. poll'.pc = "idle" /\ poll.i = Len(VnfNames)
      BY <1>3 DEF Evaluate, Evaluated, Idle, AtLast
    <2> QED BY <1>a, <1>1, <1>2, <2>1, NamesFacts DEF Thread!LogNext, PollsBounded
  <1>4. CASE ~AtLast
    <2>1. poll'.pc = "log" /\ poll'.i = poll.i + 1 /\ poll.i < Len(VnfNames)
      BY <1>a, <1>4, NamesFacts DEF Evaluate, Evaluated, AtLast, PollType
    <2> QED BY <1>a, <1>1, <1>2, <2>1 DEF Thread!LogNext, PollsBounded
  <1> QED BY <1>3, <1>4

\* Whatever happens to the listings, the crash thread logs one value per VNF and
\* poll, VNF after VNF: what the windows of the logging loop rest on.
THEOREM ImplementsThread == Spec => Thread!ThreadSpec
  <1>1. Init => PollsBounded
    BY LoggerAssumption DEF Init, PollsBounded
  <1>2. TypeInv /\ PollsBounded /\ [Next]_vars => PollsBounded'
    <2> SUFFICES ASSUME TypeInv, PollsBounded, [Next]_vars
                 PROVE  PollsBounded'
      OBVIOUS
    <2>1. polls \in Nat /\ MaxPolls \in Nat
      BY LoggerAssumption DEF TypeInv, TypeOK
    <2>2. CASE Cluster
      BY <2>2, ClusterFrame DEF PollsBounded
    <2>3. CASE Poll
      BY <2>1, <2>3
      DEF Poll, PollStart, ListPods, ListNoPods, ListFails, Evaluate, PollsBounded
    <2> QED BY <2>2, <2>3 DEF Next, BoundsReached, PollsBounded, vars
  <1>3. ASSUME UNCHANGED vars
        PROVE  UNCHANGED Thread!threadVars
    BY <1>3 DEF vars, monitorVars, Thread!threadVars, Thread!loggerVars
  <1>4. TypeInv /\ PollsBounded /\ [Next]_vars =>
            [\E value \in Nat : Thread!LogNext(value)]_(Thread!threadVars)
    BY <1>3, ThreadStutters, ThreadLogs DEF Next, Poll, BoundsReached
  <1> QED
    BY TypeInit, TypeStep, ThreadInitially, <1>1, <1>2, <1>4, PTL DEF Spec, Thread!ThreadSpec

-----------------------------------------------------------------------------
(* The sum a deque's values make up: a fold, of which the provers know      *)
(* nothing but its definition.                                             *)

\* A set of naturals that is not empty has a least element.
LEMMA LeastNat ==
    ASSUME NEW T \in SUBSET Nat, T # {}
    PROVE  \E n \in T : \A m \in T : n <= m
  <1>1. PICK n \in T : \A m \in T : <<m, n>> \notin OpToRel(<, Nat)
    BY NatLessThanWellFounded, WFMin, Zenon
  <1>2. \A m \in T : ~(m < n)
    BY <1>1 DEF OpToRel
  <1> QED BY <1>2

\* Picked(t) is the element a fold takes out of t first.
Picked(t) == CHOOSE x \in t : TRUE

LEMMA PickedFacts ==
    ASSUME NEW D, IsFiniteSet(D), NEW t \in SUBSET D
    PROVE  /\ Cardinality(t) \in Nat
           /\ t = {} <=> Cardinality(t) = 0
           /\ t # {} => /\ Picked(t) \in t
                        /\ t \ {Picked(t)} \in SUBSET D
                        /\ Cardinality(t \ {Picked(t)}) = Cardinality(t) - 1
  <1>1. IsFiniteSet(t)
    BY FS_Subset
  <1>2. Cardinality(t) \in Nat /\ (t = {} <=> Cardinality(t) = 0)
    BY <1>1, FS_CardinalityType, FS_EmptySet
  <1>3. ASSUME t # {}
        PROVE  /\ Picked(t) \in t
               /\ Cardinality(t \ {Picked(t)}) = Cardinality(t) - 1
    <2>1. Picked(t) \in t
      BY <1>3 DEF Picked
    <2> QED BY <1>1, <2>1, FS_RemoveElement
  <1> QED BY <1>2, <1>3

\* The partial sums of a fold over s, for the sets of at most m indices.
Upto(D, m) == {t \in SUBSET D : Cardinality(t) <= m}

Sums(s, S, g) ==
    \A t \in S : g[t] = IF t = {} THEN 0 ELSE s[Picked(t)] + g[t \ {Picked(t)}]

LEMMA SumsExist ==
    ASSUME NEW D, IsFiniteSet(D), NEW s \in [D -> Nat], NEW m \in Nat
    PROVE  \E g \in [Upto(D, m) -> Nat] : Sums(s, Upto(D, m), g)
  <1> DEFINE Without == {k \in Nat : ~ \E g \in [Upto(D, k) -> Nat] : Sums(s, Upto(D, k), g)}
  <1>1. SUFFICES ASSUME Without # {}
                 PROVE  FALSE
    OBVIOUS
  <1>2. PICK n \in Without : \A k \in Without : n <= k
    <2> HIDE DEF Without
    <2>1. Without \in SUBSET Nat
      BY DEF Without
    <2> QED BY <1>1, <2>1, LeastNat
  <1>3. n \in Nat /\ ~ \E g \in [Upto(D, n) -> Nat] : Sums(s, Upto(D, n), g)
    BY <1>2
  <1>4. n # 0
    <2> SUFFICES ASSUME n = 0
                 PROVE  FALSE
      OBVIOUS
    <2> DEFINE g == [t \in Upto(D, 0) |-> 0]
    <2>1. g \in [Upto(D, 0) -> Nat]
      OBVIOUS
    <2>2. ASSUME NEW t \in Upto(D, 0)
          PROVE  t = {}
      <3>1. t \in SUBSET D /\ Cardinality(t) <= 0
        BY DEF Upto
      <3>2. Cardinality(t) \in Nat /\ (t = {} <=> Cardinality(t) = 0)
        BY <3>1, PickedFacts, Zenon
      <3> QED BY <3>1, <3>2
    <2>3. Sums(s, Upto(D, 0), g)
      BY <2>2 DEF Sums
    <2> QED BY <1>3, <2>1, <2>3
  <1>5. n - 1 \in Nat /\ n - 1 \notin Without
    BY <1>2, <1>3, <1>4
  <1>6. PICK g \in [Upto(D, n - 1) -> Nat] : Sums(s, Upto(D, n - 1), g)
    BY <1>5
  <1> DEFINE h == [t \in Upto(D, n) |-> IF t = {} THEN 0 ELSE s[Picked(t)] + g[t \ {Picked(t)}]]
  <1>7. ASSUME NEW t \in Upto(D, n), t # {}
        PROVE  /\ t \ {Picked(t)} \in Upto(D, n - 1)
               /\ t \ {Picked(t)} \in Upto(D, n)
               /\ s[Picked(t)] \in Nat
    <2>1. t \in SUBSET D /\ Cardinality(t) <= n
      BY DEF Upto
    <2> QED BY <1>3, <1>7, <2>1, PickedFacts DEF Upto
  <1>8. h \in [Upto(D, n) -> Nat]
    <2>1. ASSUME NEW t \in Upto(D, n)
          PROVE  (IF t = {} THEN 0 ELSE s[Picked(t)] + g[t \ {Picked(t)}]) \in Nat
      <3>1. CASE t # {}
        <4>1. g[t \ {Picked(t)}] \in Nat /\ s[Picked(t)] \in Nat
          BY <1>7, <3>1
        <4> QED BY <3>1, <4>1
      <3> QED BY <3>1
    <2> QED BY <2>1
  <1>9. ASSUME NEW t \in Upto(D, n - 1)
        PROVE  h[t] = g[t]
    <2>1. t \in SUBSET D /\ Cardinality(t) <= n - 1
      BY DEF Upto
    <2>2. Cardinality(t) \in Nat
      BY <2>1, PickedFacts, Zenon
    <2>3. t \in Upto(D, n)
      BY <1>3, <2>1, <2>2 DEF Upto
    <2> QED BY <1>6, <2>3 DEF Sums
  <1>10. Sums(s, Upto(D, n), h)
    BY <1>7, <1>9 DEF Sums
  <1> QED BY <1>3, <1>8, <1>10

\* A sum of natural numbers is one.
LEMMA TotalType ==
    ASSUME NEW s \in Seq(Nat)
    PROVE  Total(s) \in Nat
  <1> DEFINE D == DOMAIN s
             Step(g) == [t \in SUBSET D |-> IF t = {} THEN 0
                                            ELSE s[Picked(t)] + g[t \ {Picked(t)}]]
             sums == CHOOSE g : g = Step(g)
  <1>1. Total(s) = sums[D]
    BY DEF Total, FoldSeq, FoldFunction, FoldFunctionOnSet, MapThenFoldSet, Picked
  <1>2. IsFiniteSet(D) /\ s \in [D -> Nat]
    BY FS_Interval, LenProperties
  <1>3. Cardinality(D) \in Nat /\ Upto(D, Cardinality(D)) = SUBSET D
    BY <1>2, FS_CardinalityType, FS_Subset DEF Upto
  <1>4. PICK g \in [SUBSET D -> Nat] : Sums(s, SUBSET D, g)
    <2> HIDE DEF D
    <2>1. PICK g \in [Upto(D, Cardinality(D)) -> Nat] : Sums(s, Upto(D, Cardinality(D)), g)
      BY <1>2, <1>3, SumsExist
    <2> QED BY <1>3, <2>1
  <1>5. g = Step(g)
    BY <1>4 DEF Sums
  <1>6. sums = Step(sums)
    <2> HIDE DEF Step
    <2> QED BY <1>5
  <1> HIDE DEF sums
  <1>7. \A t \in SUBSET D : sums[t] = IF t = {} THEN 0 ELSE s[Picked(t)] + sums[t \ {Picked(t)}]
    BY <1>6
  <1> DEFINE Odd == {n \in Nat : \E t \in SUBSET D : Cardinality(t) = n /\ sums[t] \notin Nat}
  <1> HIDE DEF D
  <1>8. Odd = {}
    <2> SUFFICES ASSUME Odd # {}
                 PROVE  FALSE
      OBVIOUS
    <2>1. PICK n \in Odd : \A k \in Odd : n <= k
      <3>1. Odd \in SUBSET Nat
        OBVIOUS
      <3> HIDE DEF Odd
      <3> QED BY <3>1, LeastNat
    <2>2. PICK t \in SUBSET D : Cardinality(t) = n /\ sums[t] \notin Nat
      BY <2>1
    <2>3. t # {}
      <3>1. sums[t] = IF t = {} THEN 0 ELSE s[Picked(t)] + sums[t \ {Picked(t)}]
        BY <1>7
      <3> QED BY <2>2, <3>1
    <2> DEFINE u == t \ {Picked(t)}
    <2>4. Picked(t) \in D /\ u \in SUBSET D /\ Cardinality(u) = n - 1 /\ n - 1 \in Nat
      <3>1. /\ Cardinality(t) \in Nat \ {0} /\ Picked(t) \in t /\ u \in SUBSET D
            /\ Cardinality(u) = Cardinality(t) - 1
        BY <1>2, <2>3, PickedFacts
      <3> QED BY <2>2, <3>1
    <2>5. sums[u] \in Nat
      BY <2>1, <2>4
    <2>6. sums[t] = s[Picked(t)] + sums[u] /\ s[Picked(t)] \in Nat
      BY <1>2, <1>7, <2>3, <2>4
    <2> QED BY <2>2, <2>5, <2>6
  <1>9. sums[D] \in Nat
    BY <1>3, <1>8
  <1> QED BY <1>1, <1>9

-----------------------------------------------------------------------------
(* LoggingLoop.                                                            *)

CycleType ==
    [pc : {"sleep", "tasks", "insert"}, crash : [App -> Nat \cup {None}],
     seen : [App -> Nat], answered : [App -> BOOLEAN],
     kpis : {"running", "returned", "raised"}]

TurnType == [n : 1..(MaxPolls + 1), i : 1..Len(VnfNames)]

\* Every poll logs one value per VNF.
OnePerPoll(app) == Len(logged[app]) = PollsOf(app)

\* The deque holds what the last polls have logged.
HistoryTells(app) == crash_history[app] = Window(app, Len(logged[app]))

\* What a task has read, and a row holds, is the sum of a window.
Tells(app, seen, crash) == seen <= Len(logged[app]) /\ crash = Total(Window(app, seen))

TasksTell(app) ==
    cycle.crash[app] # None => Tells(app, cycle.seen[app], cycle.crash[app])

RowsTell(app) == \A row \in rows[app] : Tells(app, row.seen, row.crash)

LoopParts(app) == OnePerPoll(app) /\ HistoryTells(app) /\ TasksTell(app) /\ RowsTell(app)

AllTell == \A app \in App : TasksTell(app) /\ RowsTell(app)

\* A row is inserted with the results of all tasks.
AllBack == cycle.pc = "insert" => \A app \in App : cycle.crash[app] # None

LoopInv ==
    /\ LoopTypeOK
    /\ AllBack
    /\ \A app \in App : LoopParts(app)

\* The last n values of a sequence, or all of it.
Recent(s, n) == SubSeq(s, IF Len(s) > n THEN Len(s) - n + 1 ELSE 1, Len(s))

\* A deque to which every value is appended holds the last ones.
LEMMA AppendedIsRecent ==
    ASSUME NEW s \in Seq(Nat), NEW value \in Nat
    PROVE  Appended(Recent(s, HistoryLength), value) = Recent(Append(s, value), HistoryLength)
  <1> DEFINE h == HistoryLength
             t == Append(s, value)
             from == IF Len(s) > h THEN Len(s) - h + 1 ELSE 1
             then == IF Len(t) > h THEN Len(t) - h + 1 ELSE 1
             left == Recent(s, h)
  <1>1. h \in Nat \ {0} /\ Len(s) \in Nat
    BY LoggerAssumption, LenProperties
  <1>2. t \in Seq(Nat) /\ Len(t) = Len(s) + 1 /\ t[Len(t)] = value
        /\ \A i \in 1..Len(s) : t[i] = s[i]
    BY <1>1, AppendProperties
  <1>3. /\ left \in Seq(Nat)
        /\ Len(left) = Len(s) - from + 1
        /\ \A i \in 1..Len(left) : left[i] = s[from + i - 1]
    <2>1. from \in Nat \ {0} /\ from <= Len(s) + 1
      BY <1>1
    <2>2. \A i \in from..Len(s) : s[i] \in Nat
      BY <2>1, ElementOfSeq
    <2> HIDE DEF from
    <2>3. left = SubSeq(s, from, Len(s))
      BY DEF Recent, from
    <2> QED BY <1>1, <2>1, <2>2, <2>3, SubSeqProperties
  <1>4. /\ Recent(t, h) \in Seq(Nat)
        /\ Len(Recent(t, h)) = Len(t) - then + 1
        /\ \A i \in 1..Len(Recent(t, h)) : Recent(t, h)[i] = t[then + i - 1]
    <2>1. then \in Nat \ {0} /\ then <= Len(t) + 1 /\ Len(t) \in Nat
      BY <1>1, <1>2
    <2>2. \A i \in then..Len(t) : t[i] \in Nat
      <3> HIDE DEF t, then
      <3> QED BY <1>2, <2>1, ElementOfSeq
    <2> HIDE DEF then, t
    <2>3. Recent(t, h) = SubSeq(t, then, Len(t))
      BY DEF Recent, then
    <2> QED BY <1>2, <2>1, <2>2, <2>3, SubSeqProperties
  <1>5. CASE Len(s) < h
    <2>1. from = 1 /\ then = 1
      BY <1>1, <1>2, <1>5
    <2>2. Appended(left, value) = Append(left, value)
      <3> HIDE DEF left, from
      <3>1. Len(left) < HistoryLength
        BY <1>1, <1>3, <1>5, <2>1
      <3> QED BY <3>1 DEF Appended
    <2> HIDE DEF left, t, from, then, h
    <2>3. /\ Append(left, value) \in Seq(Nat) /\ Len(Append(left, value)) = Len(s) + 1
          /\ \A i \in 1..Len(s) : Append(left, value)[i] = s[i]
          /\ Append(left, value)[Len(s) + 1] = value
      BY <1>1, <1>3, <2>1, AppendProperties
    <2>4. Len(Recent(t, h)) = Len(s) + 1 /\ \A i \in 1..(Len(s) + 1) : Recent(t, h)[i] = t[i]
      BY <1>1, <1>2, <1>4, <2>1
    <2>5. Append(left, value) = Recent(t, h)
      BY <1>1, <1>2, <1>4, <2>3, <2>4, SeqEqual
    <2> QED BY <2>2, <2>5 DEF left, h, t
  <1>6. CASE Len(s) >= h
    <2>1. then = Len(s) - h + 2 /\ (Len(s) > h => from = Len(s) - h + 1)
          /\ (Len(s) = h => from = 1)
      BY <1>1, <1>2, <1>6
    <2>2. Len(left) = h /\ from = Len(s) - h + 1
      BY <1>1, <1>3, <1>6, <2>1
    <2>3. Appended(left, value) = Append(Tail(left), value)
      BY <1>1, <2>2 DEF Appended
    <2> HIDE DEF left, t, from, then, h
    <2>4. Tail(left) \in Seq(Nat) /\ Len(Tail(left)) = h - 1
          /\ \A i \in 1..(h - 1) : Tail(left)[i] = left[i + 1]
      <3>1. left # <<>>
        BY <1>1, <1>3, <2>2, EmptySeq
      <3> QED BY <1>3, <2>2, <3>1, HeadTailProperties
    <2>5. \A i \in 1..(h - 1) : Tail(left)[i] = s[from + i]
      BY <1>1, <1>3, <2>2, <2>4
    <2>6. /\ Append(Tail(left), value) \in Seq(Nat) /\ Len(Append(Tail(left), value)) = h
          /\ \A i \in 1..(h - 1) : Append(Tail(left), value)[i] = s[from + i]
          /\ Append(Tail(left), value)[h] = value
      BY <1>1, <2>4, <2>5, AppendProperties
    <2>7. /\ Len(Recent(t, h)) = h
          /\ \A i \in 1..(h - 1) : Recent(t, h)[i] = s[from + i]
          /\ Recent(t, h)[h] = value
      <3>1. Len(Recent(t, h)) = h
        BY <1>1, <1>2, <1>4, <2>1
      <3>2. ASSUME NEW i \in 1..(h - 1)
            PROVE  Recent(t, h)[i] = s[from + i]
        <4>1. then + i - 1 = from + i /\ from + i \in 1..Len(s) /\ i \in 1..Len(Recent(t, h))
          BY <1>1, <1>6, <2>1, <2>2, <3>1
        <4> QED BY <1>2, <1>4, <4>1
      <3>3. Recent(t, h)[h] = value
        <4>1. then + h - 1 = Len(t) /\ h \in 1..Len(Recent(t, h))
          BY <1>1, <1>2, <2>1, <3>1
        <4> QED BY <1>2, <1>4, <4>1
      <3> QED BY <3>1, <3>2, <3>3
    <2>8. \A i \in 1..h : Append(Tail(left), value)[i] = Recent(t, h)[i]
      BY <1>1, <2>6, <2>7
    <2>9. Append(Tail(left), value) = Recent(t, h)
      BY <1>4, <2>6, <2>7, <2>8, SeqEqual
    <2> QED BY <2>3, <2>9 DEF left, h, t
  <1> QED BY <1>1, <1>5, <1>6

\* A window lies in the past: what is logged later does not change it.
LEMMA PastStays ==
    ASSUME NEW s \in Seq(Nat), NEW value \in Nat, NEW m \in Nat \ {0}, NEW n \in Nat, n <= Len(s)
    PROVE  SubSeq(Append(s, value), m, n) = SubSeq(s, m, n)
  <1> DEFINE t == Append(s, value)
  <1>1. Len(s) \in Nat /\ \A i \in m..n : s[i] \in Nat /\ t[i] = s[i]
    BY LenProperties, ElementOfSeq, AppendProperties
  <1> HIDE DEF t
  <1>2. /\ SubSeq(s, m, n) \in Seq(Nat)
        /\ Len(SubSeq(s, m, n)) = IF m <= n THEN n - m + 1 ELSE 0
        /\ \A i \in 1..(n - m + 1) : SubSeq(s, m, n)[i] = s[m + i - 1]
    BY <1>1, SubSeqProperties
  <1>3. /\ SubSeq(t, m, n) \in Seq(Nat)
        /\ Len(SubSeq(t, m, n)) = IF m <= n THEN n - m + 1 ELSE 0
        /\ \A i \in 1..(n - m + 1) : SubSeq(t, m, n)[i] = t[m + i - 1]
    <2>1. \A i \in m..n : t[i] \in Nat
      BY <1>1
    <2> QED BY <2>1, SubSeqProperties
  <1>4. \A i \in 1..(n - m + 1) : t[m + i - 1] = s[m + i - 1]
    BY <1>1
  <1>5. \A i \in 1..Len(SubSeq(s, m, n)) : SubSeq(t, m, n)[i] = SubSeq(s, m, n)[i]
    BY <1>2, <1>3, <1>4
  <1>6. SubSeq(t, m, n) = SubSeq(s, m, n)
    BY <1>2, <1>3, <1>5, SeqEqual
  <1> QED BY <1>6 DEF t

\* The assumptions one by one.
LEMMA LoggerFacts ==
    /\ HistoryLength \in Nat \ {0}
    /\ MaxPolls \in Nat
    /\ None \notin Nat
  BY LoggerAssumption

LEMMA NamesDiffer ==
    ASSUME NEW i \in 1..Len(VnfNames), NEW j \in 1..Len(VnfNames), VnfNames[i] = VnfNames[j]
    PROVE  i = j
  BY LoggerAssumption, Zenon

LEMMA SleepingType == Sleeping \in CycleType
  BY DEF Sleeping, CycleType

LEMMA LoopInitially == LoopInit => LoopInv
  <1> SUFFICES ASSUME LoopInit
               PROVE  LoopInv
    OBVIOUS
  <1> USE DEF LoopInit, ThreadInit
  <1>1. LoggerTypeOK
    BY LoggerAssumption, EmptySeq DEF LoggerInit, LoggerTypeOK
  <1>2. turn \in TurnType
    BY NamesFacts, LoggerAssumption DEF TurnType
  <1>3. cycle \in CycleType /\ cycle.pc = "sleep" /\ \A app \in App : cycle.crash[app] = None
    BY SleepingType DEF Sleeping
  <1>4. logged \in [App -> Seq(Nat)] /\ rows \in [App -> SUBSET [seen : Nat, crash : Nat]]
    BY EmptySeq
  <1>5. ASSUME NEW app \in App
        PROVE  LoopParts(app)
    <2>1. logged[app] = <<>> /\ Len(logged[app]) = 0 /\ crash_history[app] = <<>>
      BY <1>5 DEF LoggerInit
    <2>2. OnePerPoll(app)
      BY <2>1 DEF OnePerPoll, PollsOf
    <2>3. HistoryTells(app)
      <3>1. SubSeq(<<>>, 1, 0) = <<>>
        BY SubSeqEmpty
      <3> QED BY <2>1, <3>1, LoggerAssumption DEF HistoryTells, Window
    <2> QED BY <1>3, <1>5, <2>2, <2>3 DEF LoopParts, TasksTell, RowsTell
  <1> QED BY <1>1, <1>2, <1>3, <1>4, <1>5 DEF LoopInv, LoopTypeOK, CycleType, TurnType, AllBack

\* Which polls have logged for a VNF moves on with the VNF logged.
LEMMA TurnFacts ==
    ASSUME turn \in TurnType, NEW value, LogNext(value), NEW app \in App
    PROVE  /\ turn' \in TurnType
           /\ VnfNames[turn.i] \in App
           /\ PollsOf(app)' = IF app = VnfNames[turn.i] THEN PollsOf(app) + 1 ELSE PollsOf(app)
  <1> DEFINE first(k) == 1..(k - 1)
             before(k) == \E i \in first(k) : VnfNames[i] = app
  <1>1. turn.i \in 1..Len(VnfNames) /\ turn.n \in Nat \ {0} /\ Len(VnfNames) \in Nat
    BY NamesFacts, LoggerFacts DEF TurnType
  <1>2. app = VnfNames[turn.i] => ~before(turn.i)
    <2> SUFFICES ASSUME app = VnfNames[turn.i], NEW i \in first(turn.i), VnfNames[i] = app
                 PROVE  FALSE
      OBVIOUS
    <2>1. i \in 1..Len(VnfNames) /\ i # turn.i
      BY <1>1
    <2> QED BY <1>1, <2>1, NamesDiffer
  <1>3. CASE turn.i < Len(VnfNames)
    <2>1. turn' = [turn EXCEPT !.i = turn.i + 1]
      BY <1>3 DEF LogNext
    <2>2. turn' \in TurnType /\ turn'.n = turn.n /\ turn'.i = turn.i + 1
      BY <1>1, <1>3, <2>1 DEF TurnType
    <2>3. before(turn.i + 1) <=> (app = VnfNames[turn.i] \/ before(turn.i))
      <3>1. first(turn.i + 1) = first(turn.i) \cup {turn.i}
        BY <1>1
      <3> HIDE DEF first
      <3> QED BY <3>1
    <2> QED BY <1>1, <1>2, <2>2, <2>3, NamesFacts DEF PollsOf
  <1>4. CASE ~(turn.i < Len(VnfNames))
    <2>1. turn' = [n |-> turn.n + 1, i |-> 1] /\ turn.n <= MaxPolls
      BY <1>4 DEF LogNext
    <2>2. turn' \in TurnType
      BY <1>1, <2>1, LoggerFacts DEF TurnType
    <2>3. PollsOf(app)' = turn.n
      BY <1>1, <2>1 DEF PollsOf
    <2>4. PICK j \in 1..Len(VnfNames) : VnfNames[j] = app
      BY LoggerAssumption
    <2>5. app # VnfNames[turn.i] => before(turn.i)
      BY <1>1, <1>4, <2>4
    <2> QED BY <1>1, <1>2, <2>2, <2>3, <2>5, NamesFacts DEF PollsOf
  <1> QED BY <1>3, <1>4

\* What was told of the past stays told.
LEMMA ToldStays ==
    ASSUME logged \in [App -> Seq(Nat)], NEW app \in App, NEW value \in Nat,
           logged'[app] = logged[app] \/ logged'[app] = Append(logged[app], value),
           NEW seen \in Nat, NEW crash, Tells(app, seen, crash)
    PROVE  Tells(app, seen, crash)'
  <1> DEFINE from == IF seen > HistoryLength THEN seen - HistoryLength + 1 ELSE 1
  <1>1. from \in Nat \ {0} /\ seen <= Len(logged[app]) /\ Len(logged[app]) \in Nat
    BY LoggerFacts, LenProperties DEF Tells
  <1>2. Window(app, seen) = SubSeq(logged[app], from, seen)
    BY DEF Window
  <1>3. Window(app, seen)' = SubSeq(logged'[app], from, seen)
    BY DEF Window
  <1> HIDE DEF from
  <1>4. CASE logged'[app] = logged[app]
    BY <1>1, <1>2, <1>3, <1>4 DEF Tells
  <1>5. CASE logged'[app] = Append(logged[app], value)
    <2>1. Window(app, seen)' = Window(app, seen)
      BY <1>1, <1>2, <1>3, <1>5, PastStays
    <2>2. seen <= Len(logged'[app])
      BY <1>1, <1>5, AppendProperties
    <2> QED BY <2>1, <2>2 DEF Tells
  <1> QED BY <1>4, <1>5

LEMMA PollLogsKeeps ==
    ASSUME LoopInv, NEW value \in Nat, PollLogs(value)
    PROVE  LoopInv'
  <1>a. /\ turn \in TurnType /\ LoggerTypeOK /\ logged \in [App -> Seq(Nat)]
        /\ UNCHANGED <<cycle, rows>> /\ LogNext(value)
        /\ cycle \in CycleType /\ rows \in [App -> SUBSET [seen : Nat, crash : Nat]]
    BY DEF LoopInv, LoopTypeOK, TurnType, CycleType, PollLogs
  <1> DEFINE now == VnfNames[turn.i]
  <1>b. now \in App /\ turn' \in TurnType /\ log_crash(now, value)
    <2>1. PICK app \in App : TRUE
      BY LoggerAssumption
    <2> QED BY <1>a, <2>1, TurnFacts DEF LogNext
  <1>c. logged' = [logged EXCEPT ![now] = Append(logged[now], value)]
    BY DEF PollLogs
  <1>1. LoggerTypeOK'
    BY <1>a, <1>b, LogCrashFacts
  <1>2. logged' \in [App -> Seq(Nat)]
    BY <1>a, <1>b, <1>c, AppendProperties
  <1>3. ASSUME NEW app \in App
        PROVE  LoopParts(app)'
    <2>a. LoopParts(app) /\ logged[app] \in Seq(Nat) /\ Len(logged[app]) \in Nat
      BY <1>a, <1>3, LenProperties DEF LoopInv
    <2>1. logged'[app] = IF app = now THEN Append(logged[app], value) ELSE logged[app]
      BY <1>a, <1>b, <1>c
    <2>2. OnePerPoll(app)'
      <3>1. PollsOf(app)' = IF app = now THEN PollsOf(app) + 1 ELSE PollsOf(app)
        BY <1>a, TurnFacts
      <3>2. Len(logged'[app]) = IF app = now THEN Len(logged[app]) + 1 ELSE Len(logged[app])
        BY <2>a, <2>1, AppendProperties
      <3> QED BY <2>a, <3>1, <3>2 DEF LoopParts, OnePerPoll
    <2>3. HistoryTells(app)'
      <3>1. crash_history[app] = Recent(logged[app], HistoryLength)
        BY <2>a DEF LoopParts, HistoryTells, Window, Recent
      <3>2. crash_history'[app] = IF app = now THEN Appended(crash_history[app], value)
                                               ELSE crash_history[app]
        BY <1>a, <1>b DEF log_crash, LoggerTypeOK
      <3>3. crash_history'[app] = Recent(logged'[app], HistoryLength)
        BY <2>a, <2>1, <3>1, <3>2, AppendedIsRecent
      <3> QED BY <3>3 DEF HistoryTells, Window, Recent
    <2>4. TasksTell(app)'
      <3>1. SUFFICES ASSUME cycle.crash[app] # None
                     PROVE  Tells(app, cycle.seen[app], cycle.crash[app])'
        BY <1>a DEF TasksTell
      <3>2. Tells(app, cycle.seen[app], cycle.crash[app]) /\ cycle.seen[app] \in Nat
        BY <1>a, <2>a, <3>1 DEF LoopParts, TasksTell, CycleType
      <3> DEFINE seen == cycle.seen[app]
                 crash == cycle.crash[app]
      <3>3. PICK n \in Nat, c \in {crash} : n = seen /\ c = crash
        BY <3>2
      <3>4. Tells(app, n, c)'
        BY <1>a, <2>1, <3>2, <3>3, ToldStays
      <3>5. cycle'.seen[app] = n /\ cycle'.crash[app] = c
        BY <1>a, <3>3
      <3> QED BY <3>4, <3>5 DEF Tells, Window
    <2>5. RowsTell(app)'
      <3>1. SUFFICES ASSUME NEW row \in rows[app]
                     PROVE  Tells(app, row.seen, row.crash)'
        BY <1>a DEF RowsTell
      <3>2. Tells(app, row.seen, row.crash) /\ row.seen \in Nat
        BY <1>a, <2>a, <3>1 DEF LoopParts, RowsTell
      <3> QED BY <1>a, <2>1, <3>2, ToldStays
    <2> QED BY <2>2, <2>3, <2>4, <2>5 DEF LoopParts
  <1> QED BY <1>a, <1>b, <1>1, <1>2, <1>3 DEF LoopInv, LoopTypeOK, TurnType, CycleType, AllBack

\* What the loop's own steps leave alone.
LEMMA LoopKeeps ==
    ASSUME LoopInv, UNCHANGED <<threadVars, logged>>,
           cycle' \in CycleType, rows' \in [App -> SUBSET [seen : Nat, crash : Nat]],
           AllBack', AllTell'
    PROVE  LoopInv'
  <1>1. ASSUME NEW app \in App
        PROVE  OnePerPoll(app)' /\ HistoryTells(app)'
    <2>1. OnePerPoll(app) /\ HistoryTells(app)
      BY <1>1 DEF LoopInv, LoopParts
    <2> QED BY <2>1 DEF OnePerPoll, HistoryTells, Window, PollsOf, threadVars, loggerVars
  <1> QED
    BY <1>1
    DEF LoopInv, LoopParts, AllTell, LoopTypeOK, CycleType, LoggerTypeOK, threadVars, loggerVars

LEMMA LoopStep == LoopInv /\ (Loop \/ \E app \in App : ClusterAnswers(app)) => LoopInv'
  <1> SUFFICES ASSUME LoopInv, Loop \/ \E app \in App : ClusterAnswers(app)
               PROVE  LoopInv'
    OBVIOUS
  <1>a. /\ cycle \in CycleType /\ rows \in [App -> SUBSET [seen : Nat, crash : Nat]]
        /\ logged \in [App -> Seq(Nat)] /\ LoggerTypeOK
        /\ \A app \in App : LoopParts(app)
        /\ AllBack
    BY DEF LoopInv, LoopTypeOK, CycleType
  <1>b. ASSUME UNCHANGED logged, UNCHANGED rows
        PROVE  \A app \in App : RowsTell(app)'
    BY <1>a, <1>b DEF LoopParts, RowsTell, Tells, Window
  <1>c. ASSUME UNCHANGED logged, NEW app \in App, cycle'.crash[app] = cycle.crash[app],
               cycle'.seen[app] = cycle.seen[app]
        PROVE  TasksTell(app)'
    BY <1>a, <1>c DEF LoopParts, TasksTell, Tells, Window
  <1>1. ASSUME UNCHANGED <<threadVars, logged, rows>>, cycle' \in CycleType,
               AllBack',
               \A app \in App : cycle'.crash[app] = None \/
                   (cycle'.crash[app] = cycle.crash[app] /\ cycle'.seen[app] = cycle.seen[app])
        PROVE  LoopInv'
    <2>1. \A app \in App : TasksTell(app)'
      BY <1>1, <1>c DEF TasksTell
    <2>2. AllTell'
      BY <1>1, <1>b, <2>1 DEF AllTell
    <2> QED BY <1>1, <1>a, <2>2, LoopKeeps
  <1>2. CASE CycleStart
    <2>1. cycle' \in CycleType /\ cycle'.pc = "tasks" /\ \A app \in App : cycle'.crash[app] = None
      BY <1>2, SleepingType DEF CycleStart, CycleType, Sleeping
    <2> QED BY <1>1, <1>2, <2>1 DEF CycleStart, AllBack
  <1>3. ASSUME NEW app \in App, get_pod_details(app)
        PROVE  LoopInv'
    <2> DEFINE n == PollsOf(app)
               c == get_count(app)
    <2>1. /\ n = Len(logged[app]) /\ n \in Nat
          /\ crash_history[app] = Window(app, n)
      BY <1>a, <1>3, LenProperties DEF LoopParts, OnePerPoll, HistoryTells
    <2>2. c = Total(Window(app, n)) /\ c \in Nat
      BY <1>a, <1>3, <2>1, TotalType DEF get_count, LoggerTypeOK
    <2>3. /\ UNCHANGED <<threadVars, logged, rows>> /\ cycle.pc = "tasks"
          /\ cycle' = [cycle EXCEPT !.crash[app] = c, !.seen[app] = n]
      BY <1>3 DEF get_pod_details
    <2> HIDE DEF n, c
    <2>4. /\ cycle' \in CycleType /\ cycle'.pc = "tasks"
          /\ cycle'.crash[app] = c /\ cycle'.seen[app] = n
          /\ \A other \in App \ {app} : /\ cycle'.crash[other] = cycle.crash[other]
                                        /\ cycle'.seen[other] = cycle.seen[other]
      BY <1>a, <1>3, <2>1, <2>2, <2>3 DEF CycleType
    <2>5. TasksTell(app)'
      <3>1. PICK k \in Nat, d \in Nat : k = n /\ d = c
        BY <2>1, <2>2
      <3>2. Window(app, k)' = Window(app, k)
        BY <2>3 DEF Window
      <3>3. d = Total(Window(app, k)') /\ k <= Len(logged'[app])
        BY <2>1, <2>2, <2>3, <3>1, <3>2
      <3> QED BY <2>4, <3>1, <3>3 DEF TasksTell, Tells, Window
    <2>6. \A other \in App : TasksTell(other)'
      BY <1>c, <2>3, <2>4, <2>5
    <2>7. AllTell' /\ AllBack'
      BY <1>b, <2>3, <2>4, <2>6 DEF AllTell, AllBack
    <2> QED BY <1>a, <2>3, <2>4, <2>7, LoopKeeps
  <1>8. ASSUME NEW app \in App, ClusterAnswers(app)
        PROVE  LoopInv'
    <2>1. cycle' = [cycle EXCEPT !.answered[app] = TRUE]
      BY <1>8 DEF ClusterAnswers
    <2>2. /\ cycle' \in CycleType /\ cycle'.pc = cycle.pc /\ cycle'.crash = cycle.crash
          /\ cycle'.seen = cycle.seen
      BY <1>a, <2>1 DEF CycleType
    <2> QED BY <1>1, <1>8, <1>a, <2>2 DEF ClusterAnswers, AllBack
  <1>4. CASE KpisReturn
    <2>1. PICK outcome \in {"returned", "raised"} : cycle' = [cycle EXCEPT !.kpis = outcome]
      BY <1>4 DEF KpisReturn
    <2>2. /\ cycle' \in CycleType /\ cycle'.pc = cycle.pc /\ cycle'.crash = cycle.crash
          /\ cycle'.seen = cycle.seen
      BY <1>a, <2>1 DEF CycleType
    <2> QED BY <1>1, <1>4, <1>a, <2>2 DEF KpisReturn, AllBack
  <1>5. CASE cycle' = Sleeping /\ UNCHANGED <<threadVars, logged, rows>>
    <2>1. cycle' \in CycleType /\ cycle'.pc = "sleep" /\ \A app \in App : cycle'.crash[app] = None
      BY <1>5, SleepingType DEF Sleeping
    <2> QED BY <1>1, <1>5, <2>1 DEF AllBack
  <1>6. CASE TasksReturn
    <2>1. /\ cycle' = [cycle EXCEPT !.pc = "insert"] /\ \A app \in App : cycle.crash[app] # None
      BY <1>6 DEF TasksReturn, TasksDone
    <2>2. cycle' \in CycleType /\ cycle'.crash = cycle.crash /\ cycle'.seen = cycle.seen
      BY <1>a, <2>1 DEF CycleType
    <2> QED BY <1>1, <1>6, <2>1, <2>2 DEF TasksReturn, AllBack
  <1>7. CASE InsertRow
    <2>1. /\ UNCHANGED <<threadVars, logged>> /\ cycle' = Sleeping
          /\ rows' = [app \in App |->
                        rows[app] \cup {[seen |-> cycle.seen[app], crash |-> cycle.crash[app]]}]
      BY <1>7 DEF InsertRow
    <2>2. cycle' \in CycleType /\ cycle'.pc = "sleep" /\ \A app \in App : cycle'.crash[app] = None
      BY <2>1, SleepingType DEF Sleeping
    <2>3. ASSUME NEW app \in App
          PROVE  [seen |-> cycle.seen[app], crash |-> cycle.crash[app]] \in [seen : Nat, crash : Nat]
      BY <1>7, <1>a, <2>3 DEF InsertRow, CycleType, AllBack
    <2>4. rows' \in [App -> SUBSET [seen : Nat, crash : Nat]]
      BY <1>a, <2>1, <2>3
    <2>5. ASSUME NEW app \in App
          PROVE  RowsTell(app)'
      <3>1. SUFFICES ASSUME NEW row \in rows'[app]
                     PROVE  Tells(app, row.seen, row.crash)'
        BY DEF RowsTell
      <3>2. Tells(app, row.seen, row.crash)
        <4>1. CASE row \in rows[app]
          BY <1>a, <2>5, <4>1 DEF LoopParts, RowsTell
        <4>2. CASE row = [seen |-> cycle.seen[app], crash |-> cycle.crash[app]]
          BY <1>7, <1>a, <2>5, <4>2 DEF InsertRow, LoopParts, TasksTell, AllBack
        <4> QED BY <2>1, <2>5, <3>1, <4>1, <4>2
      <3> QED BY <2>1, <3>2 DEF Tells, Window
    <2>6. \A app \in App : TasksTell(app)'
      BY <2>2 DEF TasksTell
    <2>7. AllTell' /\ AllBack'
      BY <2>2, <2>5, <2>6 DEF AllTell, AllBack
    <2> QED BY <2>1, <2>2, <2>4, <2>7, LoopKeeps
  <1> QED
    BY <1>2, <1>3, <1>4, <1>5, <1>6, <1>7, <1>8 DEF Loop, CycleRaises, InsertFails

LEMMA LoopInductive == LoopInv /\ [LoopNext]_loopVars => LoopInv'
  <1>1. ASSUME LoopInv, UNCHANGED loopVars
        PROVE  LoopInv'
    BY <1>1
    DEF LoopInv, LoopTypeOK, AllBack, LoggerTypeOK, LoopParts, OnePerPoll, HistoryTells, TasksTell,
        RowsTell, Tells, Window, PollsOf, loopVars, threadVars, loggerVars
  <1>2. ASSUME LoopInv, NEW value \in 0..MaxCrashes, PollLogs(value)
        PROVE  LoopInv'
    <2>1. value \in Nat
      BY LoopAssumption
    <2> QED BY <1>2, <2>1, PollLogsKeeps
  <1> QED BY <1>1, <1>2, LoopStep DEF LoopNext, BoundReached

\* The loop stores numbers only: no row is made of a task that has not returned.
THEOREM LoopTypeCorrect == LoopSpec => []LoopTypeOK
  <1>1. LoopInv => LoopTypeOK
    BY DEF LoopInv
  <1> QED BY LoopInitially, LoopInductive, <1>1, PTL DEF LoopSpec

\* However the crash thread and the tasks of the loop interleave, every stored
\* crash column is the sum of what the polls of its window have logged.
THEOREM ColumnsTellWindows == LoopSpec => []ColumnTellsWindow
  <1>1. LoopInv => ColumnTellsWindow
    BY DEF LoopInv, LoopParts, RowsTell, Tells, ColumnTellsWindow
  <1> QED BY LoopInitially, LoopInductive, <1>1, PTL DEF LoopSpec

=============================================================================
