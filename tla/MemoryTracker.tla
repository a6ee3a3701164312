--------------------------- MODULE MemoryTracker ---------------------------
(***************************************************************************)
(* VNFMemoryTracker, of which every VNF has an instance: the threads that    *)
(* process packets record each of them in a connection table and in a log of *)
(* the last WINDOW_SECONDS, and a cleanup thread evicts idle flows and trims *)
(* the log from its head.  record_packet reads the clock before it takes the *)
(* two locks, one after the other, so a thread may be overtaken between the  *)
(* three: last_seen may go back and the log need not be in order.            *)
(* What the locks protect is one step each.  Payloads and counts are left    *)
(* out, and so is the length of the cleanup thread's sleep.                  *)
(***************************************************************************)
EXTENDS Integers, Sequences, FiniteSets

CONSTANTS
    Thread,             \* the threads that record packets
    Flow,
    WINDOW_SECONDS,
    FLOW_EXPIRY_SECONDS,
    Absent,             \* "not in the connection table"
    MaxStamp            \* bound: no packet is recorded after this time

ASSUME TrackerAssumption ==
    /\ IsFiniteSet(Thread) /\ Thread # {}
    /\ WINDOW_SECONDS \in Nat /\ FLOW_EXPIRY_SECONDS \in Nat
    /\ Absent \notin Nat
    /\ MaxStamp \in Nat

VARIABLES
    clock,          \* time.time(), which does not go back
    conn_table,     \* per flow, last_seen
    packet_log,     \* the timestamps of the log
    caller,         \* per thread: its place in record_packet, its now and its flow
    cleaner         \* the cleanup thread: its place in the loop and its now

vars == <<clock, conn_table, packet_log, caller, cleaner>>

-----------------------------------------------------------------------------
(* record_packet                                                           *)

Idle == [pc |-> "idle", now |-> 0, flow |-> Absent]

Stamp(t, flow) ==
    /\ caller[t].pc = "idle"
    /\ clock <= MaxStamp
    /\ caller' = [caller EXCEPT ![t] = [pc |-> "table", now |-> clock, flow |-> flow]]
    /\ UNCHANGED <<clock, conn_table, packet_log, cleaner>>

\* Mutant: the time at which the flow expires is stored as last_seen.
StoreDeadline(t) ==
    /\ caller[t].pc = "table"
    /\ conn_table' = [conn_table EXCEPT ![caller[t].flow] = caller[t].now + FLOW_EXPIRY_SECONDS]
    /\ caller' = [caller EXCEPT ![t].pc = "log"]
    /\ UNCHANGED <<clock, packet_log, cleaner>>

UpdateTable(t) ==
    /\ caller[t].pc = "table"
    /\ conn_table' = [conn_table EXCEPT ![caller[t].flow] = caller[t].now]
    /\ caller' = [caller EXCEPT ![t].pc = "log"]
    /\ UNCHANGED <<clock, packet_log, cleaner>>

AppendLog(t) ==
    /\ caller[t].pc = "log"
    /\ packet_log' = Append(packet_log, caller[t].now)
    /\ caller' = [caller EXCEPT ![t] = Idle]
    /\ UNCHANGED <<clock, conn_table, cleaner>>

-----------------------------------------------------------------------------
(* _cleanup_loop                                                           *)

Asleep == [pc |-> "sleep", now |-> 0]

Wake ==
    /\ cleaner.pc = "sleep"
    /\ cleaner' = [pc |-> "evict", now |-> clock]
    /\ UNCHANGED <<clock, conn_table, packet_log, caller>>

Expired(flow) ==
    conn_table[flow] # Absent /\ cleaner.now - conn_table[flow] > FLOW_EXPIRY_SECONDS

AfterEviction == [f \in Flow |-> IF Expired(f) THEN Absent ELSE conn_table[f]]

\* Mutant: with nothing to evict the round is over.
EvictOrSleep ==
    /\ cleaner.pc = "evict"
    /\ conn_table' = AfterEviction
    /\ cleaner' = IF \E f \in Flow : Expired(f) THEN [cleaner EXCEPT !.pc = "trim"] ELSE Asleep
    /\ UNCHANGED <<clock, packet_log, caller>>

EvictIdle ==
    /\ cleaner.pc = "evict"
    /\ conn_table' = AfterEviction
    /\ cleaner' = [cleaner EXCEPT !.pc = "trim"]
    /\ UNCHANGED <<clock, packet_log, caller>>

Cutoff == cleaner.now - WINDOW_SECONDS

\* How many entries of the log are popped: those before the first one that is
\* not older than the cutoff.
Trimmed(n) ==
    /\ n \in 0..Len(packet_log)
    /\ \A i \in 1..n : packet_log[i] < Cutoff
    /\ n < Len(packet_log) => packet_log[n + 1] >= Cutoff

\* Mutant: one entry per round.
TrimOne ==
    /\ cleaner.pc = "trim"
    /\ packet_log' = IF packet_log # <<>> /\ packet_log[1] < Cutoff
                     THEN Tail(packet_log) ELSE packet_log
    /\ cleaner' = Asleep
    /\ UNCHANGED <<clock, conn_table, caller>>

TrimLog ==
    /\ cleaner.pc = "trim"
    /\ \E n \in 0..Len(packet_log) :
          Trimmed(n) /\ packet_log' = SubSeq(packet_log, n + 1, Len(packet_log))
    /\ cleaner' = Asleep
    /\ UNCHANGED <<clock, conn_table, caller>>

-----------------------------------------------------------------------------
\* The clock runs until everything that was recorded is out of date.
MaxTime == MaxStamp + WINDOW_SECONDS + FLOW_EXPIRY_SECONDS + 1

Tick ==
    /\ clock < MaxTime
    /\ clock' = clock + 1
    /\ UNCHANGED <<conn_table, packet_log, caller, cleaner>>

Init ==
    /\ clock = 0
    /\ conn_table = [f \in Flow |-> Absent]
    /\ packet_log = <<>>
    /\ caller = [t \in Thread |-> Idle]
    /\ cleaner = Asleep

record_packet(t) == (\E flow \in Flow : Stamp(t, flow)) \/ UpdateTable(t) \/ AppendLog(t)

cleanup == Wake \/ EvictIdle \/ TrimLog

Next == (\E t \in Thread : record_packet(t)) \/ cleanup \/ Tick

Spec == Init /\ [][Next]_vars

\* Time passes, the cleanup thread wakes again, and a call that has begun ends.
Fairness ==
    /\ WF_vars(Tick) /\ WF_vars(cleanup)
    /\ \A t \in Thread : WF_vars(UpdateTable(t) \/ AppendLog(t))

FairSpec == Spec /\ Fairness

-----------------------------------------------------------------------------
(* Properties                                                              *)

\* No timestamp lies in the future.
TypeOK ==
    /\ clock \in Nat
    /\ conn_table \in [Flow -> (0..clock) \cup {Absent}]
    /\ packet_log \in Seq(0..clock)
    /\ caller \in [Thread -> [pc : {"idle", "table", "log"}, now : 0..clock,
                             flow : Flow \cup {Absent}]]
    /\ cleaner \in [pc : {"sleep", "evict", "trim"}, now : 0..clock]

\* The entries of a log that are older than a time.
Older(log, time) == {i \in DOMAIN log : log[i] < time}

\* A trim stops at the first entry that is young enough, and older ones may stand
\* behind it.  They are few: each belongs to a call that was overtaken by the entry
\* at the head, so there are fewer of them than threads, however long the log is.
SweepLeavesFew ==
    [][TrimLog => Cardinality(Older(packet_log', Cutoff)) < Cardinality(Thread)]_vars

\* When the traffic stops, the table and the log become empty and stay so.
MemoryIsReturned ==
    <>[](packet_log = <<>> /\ \A f \in Flow : conn_table[f] = Absent)
=============================================================================
