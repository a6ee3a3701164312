------------------------ MODULE MemoryTracker_proofs ------------------------
(***************************************************************************)
(* Theorems about the memory tracker, for any number of threads and flows    *)
(* and any window: its timestamps, and what a trim leaves in the log.        *)
(***************************************************************************)
EXTENDS MemoryTracker, SequenceTheorems, FiniteSetTheorems, TLAPS

-----------------------------------------------------------------------------
(* Type correctness: the clock does not go back, so no stamp is ahead of it. *)

CallType(time) ==
    [pc : {"idle", "table", "log"}, now : 0..time, flow : Flow \cup {Absent}]

\* A thread in a call has a flow.
InCall == \A t \in Thread : caller[t].pc # "idle" => caller[t].flow \in Flow

TrackInv == TypeOK /\ InCall

LEMMA TrackInit == Init => TrackInv
  <1> SUFFICES ASSUME Init
               PROVE  TrackInv
    OBVIOUS
  <1>1. <<>> \in Seq(0..0) /\ Idle \in CallType(0)
    BY EmptySeq DEF Idle, CallType
  <1> QED BY <1>1 DEF Init, TrackInv, TypeOK, InCall, Idle, Asleep, CallType

\* A call's steps.
LEMMA TrackRecord ==
    ASSUME TrackInv, NEW t \in Thread, record_packet(t)
    PROVE  TrackInv'
  <1>1. clock \in Nat /\ caller \in [Thread -> CallType(clock)] /\ packet_log \in Seq(0..clock)
        /\ conn_table \in [Flow -> (0..clock) \cup {Absent}]
    BY DEF TrackInv, TypeOK, CallType
  <1>2. clock' = clock /\ cleaner' = cleaner
    BY DEF record_packet, Stamp, UpdateTable, AppendLog
  <1>3. caller[t] \in CallType(clock) /\ caller[t].now \in 0..clock
    BY <1>1 DEF CallType
  <1>4. ASSUME NEW flow \in Flow, Stamp(t, flow)
        PROVE  TrackInv'
    <2> DEFINE new == [pc |-> "table", now |-> clock, flow |-> flow]
    <2>1. new \in CallType(clock)
      BY <1>1 DEF CallType
    <2>2. caller' = [caller EXCEPT ![t] = new] /\ UNCHANGED <<conn_table, packet_log>>
      BY <1>4 DEF Stamp
    <2>3. caller' \in [Thread -> CallType(clock)] /\ InCall'
      BY <1>1, <2>1, <2>2 DEF TrackInv, InCall
    <2> QED BY <1>2, <2>2, <2>3 DEF TrackInv, TypeOK, CallType
  <1>5. CASE UpdateTable(t)
    <2>1. caller[t].flow \in Flow
      BY <1>5 DEF UpdateTable, TrackInv, InCall
    <2>2. conn_table' = [conn_table EXCEPT ![caller[t].flow] = caller[t].now]
          /\ caller' = [caller EXCEPT ![t].pc = "log"] /\ packet_log' = packet_log
      BY <1>5 DEF UpdateTable
    <2>3. conn_table' \in [Flow -> (0..clock) \cup {Absent}]
      BY <1>1, <1>3, <2>1, <2>2
    <2>4. caller' \in [Thread -> CallType(clock)] /\ InCall'
      BY <1>1, <2>1, <2>2 DEF CallType, TrackInv, InCall
    <2> QED BY <1>2, <2>2, <2>3, <2>4 DEF TrackInv, TypeOK, CallType
  <1>6. CASE AppendLog(t)
    <2>1. packet_log' \in Seq(0..clock)
      BY <1>1, <1>3, <1>6, AppendProperties DEF AppendLog
    <2>2. Idle \in CallType(clock)
      BY <1>1 DEF Idle, CallType
    <2>3. caller' = [caller EXCEPT ![t] = Idle] /\ conn_table' = conn_table
      BY <1>6 DEF AppendLog
    <2>4. caller' \in [Thread -> CallType(clock)] /\ InCall'
      BY <1>1, <2>2, <2>3 DEF TrackInv, InCall, Idle
    <2> QED BY <1>2, <2>1, <2>3, <2>4 DEF TrackInv, TypeOK, CallType
  <1> QED BY <1>4, <1>5, <1>6 DEF record_packet

\* What is left of the log after a trim.
LEMMA TrimmedLog ==
    ASSUME TypeOK, NEW n \in 0..Len(packet_log)
    PROVE  LET rest == SubSeq(packet_log, n + 1, Len(packet_log))
           IN  /\ Len(packet_log) \in Nat /\ DOMAIN packet_log = 1..Len(packet_log)
               /\ rest \in Seq(0..clock) /\ Len(rest) = Len(packet_log) - n
               /\ DOMAIN rest = 1..(Len(packet_log) - n)
               /\ \A i \in 1..(Len(packet_log) - n) : rest[i] = packet_log[i + n]
  <1> DEFINE size == Len(packet_log)
             rest == SubSeq(packet_log, n + 1, size)
  <1>1. packet_log \in Seq(0..clock)
    BY DEF TypeOK
  <1>2. size \in Nat /\ DOMAIN packet_log = 1..size /\ \A i \in 1..size : packet_log[i] \in 0..clock
    BY <1>1, LenProperties, ElementOfSeq
  <1>3. n \in Nat /\ n <= size
    BY <1>2
  <1> HIDE DEF size
  <1>4. \A i \in (n + 1)..size : packet_log[i] \in 0..clock
    BY <1>2, <1>3
  <1>5. rest \in Seq(0..clock) /\ Len(rest) = (IF n + 1 <= size THEN size - (n + 1) + 1 ELSE 0)
        /\ \A i \in 1..(size - (n + 1) + 1) : rest[i] = packet_log[(n + 1) + i - 1]
    BY <1>2, <1>3, <1>4, SubSeqProperties
  <1> HIDE DEF rest
  <1>6. Len(rest) = size - n
    BY <1>2, <1>3, <1>5
  <1>7. \A i \in 1..(size - n) : rest[i] = packet_log[i + n]
    BY <1>2, <1>3, <1>5
  <1>8. DOMAIN rest = 1..(size - n)
    BY <1>5, <1>6, LenProperties
  <1> QED BY <1>2, <1>5, <1>6, <1>7, <1>8 DEF rest, size

LEMMA TrackCleanup ==
    ASSUME TrackInv, cleanup
    PROVE  TrackInv'
  <1>1. clock \in Nat /\ conn_table \in [Flow -> (0..clock) \cup {Absent}]
        /\ cleaner \in [pc : {"sleep", "evict", "trim"}, now : 0..clock]
    BY DEF TrackInv, TypeOK
  <1>2. UNCHANGED <<clock, caller>>
    BY DEF cleanup, Wake, EvictIdle, TrimLog
  <1>3. CASE Wake
    BY <1>1, <1>2, <1>3 DEF Wake, TrackInv, TypeOK, InCall
  <1>4. CASE EvictIdle
    <2>1. AfterEviction \in [Flow -> (0..clock) \cup {Absent}]
      BY <1>1 DEF AfterEviction
    <2> QED BY <1>1, <1>2, <1>4, <2>1 DEF EvictIdle, TrackInv, TypeOK, InCall
  <1>5. CASE TrimLog
    <2>1. packet_log' \in Seq(0..clock)
      BY <1>5, TrimmedLog DEF TrimLog, TrackInv
    <2> QED BY <1>1, <1>2, <1>5, <2>1 DEF TrimLog, Asleep, TrackInv, TypeOK, InCall
  <1> QED BY <1>3, <1>4, <1>5 DEF cleanup

LEMMA TrackTick ==
    ASSUME TrackInv, Tick
    PROVE  TrackInv'
  <1>1. clock \in Nat /\ clock' = clock + 1
        /\ UNCHANGED <<conn_table, packet_log, caller, cleaner>>
    BY DEF TrackInv, TypeOK, Tick
  <1>2. 0..clock \subseteq 0..clock'
    BY <1>1
  <1>3. packet_log \in Seq(0..clock)
    BY DEF TrackInv, TypeOK
  <1>4. packet_log' \in Seq(0..clock')
    BY <1>1, <1>2, <1>3, SeqMonotonic
  <1>5. caller' \in [Thread -> CallType(clock')]
    BY <1>1, <1>2 DEF TrackInv, TypeOK, CallType
  <1>6. cleaner' \in [pc : {"sleep", "evict", "trim"}, now : 0..clock']
    BY <1>1, <1>2 DEF TrackInv, TypeOK
  <1> QED BY <1>1, <1>2, <1>4, <1>5, <1>6 DEF TrackInv, TypeOK, InCall, CallType

LEMMA TrackStep == TrackInv /\ [Next]_vars => TrackInv'
  <1>1. TrackInv /\ UNCHANGED vars => TrackInv'
    BY DEF TrackInv, TypeOK, InCall, vars
  <1> QED BY <1>1, TrackRecord, TrackCleanup, TrackTick DEF Next

\* The tracker's types; no timestamp lies in the future.
THEOREM TypeCorrect == Spec => []TypeOK
  <1>1. TrackInv => TypeOK
    BY DEF TrackInv
  <1> QED BY <1>1, TrackInit, TrackStep, PTL DEF Spec

-----------------------------------------------------------------------------
(* What a trim leaves.  An entry stands behind a younger one only if its call *)
(* was stamped before the younger one's and was overtaken by it, so that at   *)
(* the younger one's stamp each of these calls occupied a thread of its own.  *)

\* The older entries behind entry i.
Overtaken(i) == {k \in DOMAIN packet_log : k > i /\ packet_log[k] < packet_log[i]}

\* The threads that may still append an entry older than time.
Late(time) == {t \in Thread : caller[t].pc # "idle" /\ caller[t].now < time}

Few(i) == Cardinality(Overtaken(i)) + Cardinality(Late(packet_log[i])) < Cardinality(Thread)

FewInv == \A i \in DOMAIN packet_log : Few(i)

LEMMA ThreadCount == IsFiniteSet(Thread) /\ Cardinality(Thread) \in Nat \ {0}
  BY TrackerAssumption, FS_CardinalityType, FS_EmptySet DEF TrackerAssumption

\* The numbers that Few adds.
LEMMA FewNumbers ==
    ASSUME TypeOK, NEW i \in DOMAIN packet_log
    PROVE  /\ Len(packet_log) \in Nat /\ DOMAIN packet_log = 1..Len(packet_log)
           /\ packet_log[i] \in 0..clock
           /\ IsFiniteSet(Overtaken(i)) /\ Cardinality(Overtaken(i)) \in Nat
           /\ IsFiniteSet(Late(packet_log[i])) /\ Cardinality(Late(packet_log[i])) \in Nat
  <1>1. Len(packet_log) \in Nat /\ DOMAIN packet_log = 1..Len(packet_log)
        /\ packet_log[i] \in 0..clock
    BY LenProperties, ElementOfSeq DEF TypeOK
  <1>2. IsFiniteSet(1..Len(packet_log)) /\ Overtaken(i) \in SUBSET (1..Len(packet_log))
    BY <1>1, FS_Interval DEF Overtaken
  <1>3. IsFiniteSet(Overtaken(i))
    BY <1>2, FS_Subset
  <1>4. Late(packet_log[i]) \in SUBSET Thread
    BY DEF Late
  <1>5. IsFiniteSet(Late(packet_log[i]))
    BY <1>4, ThreadCount, FS_Subset
  <1> QED BY <1>1, <1>3, <1>5, FS_CardinalityType

\* A step that leaves the log alone and makes no thread late.
LEMMA FewKept ==
    ASSUME TypeOK, FewInv, packet_log' = packet_log,
           \A i \in DOMAIN packet_log : Late(packet_log[i])' = Late(packet_log[i])
    PROVE  FewInv'
  BY DEF FewInv, Few, Overtaken

\* A call that begins is stamped with a time at which every entry was there.
LEMMA FewStamp ==
    ASSUME TrackInv, FewInv, NEW t \in Thread, NEW flow \in Flow, Stamp(t, flow)
    PROVE  FewInv'
  <1>1. TypeOK /\ clock \in Nat
    BY DEF TrackInv, TypeOK
  <1>2. packet_log' = packet_log /\ caller[t].pc = "idle"
        /\ caller' = [caller EXCEPT ![t] = [pc |-> "table", now |-> clock, flow |-> flow]]
    BY DEF Stamp
  <1>3. caller'[t].now = clock /\ \A v \in Thread : v # t => caller'[v] = caller[v]
    BY <1>1, <1>2 DEF TypeOK
  <1>4. ASSUME NEW i \in DOMAIN packet_log
        PROVE  Late(packet_log[i])' = Late(packet_log[i])
    <2>1. packet_log[i] \in 0..clock
      BY <1>1, FewNumbers
    <2>2. ~(caller'[t].now < packet_log[i])
      BY <1>1, <1>3, <2>1
    <2> QED BY <1>2, <1>3, <2>2 DEF Late
  <1> QED BY <1>1, <1>2, <1>4, FewKept

\* An entry that is appended leaves its thread free: what it adds to the older entries
\* behind another one, it takes from the threads that may add one.
LEMMA FewAppend ==
    ASSUME TrackInv, FewInv, NEW t \in Thread, AppendLog(t)
    PROVE  FewInv'
  <1> DEFINE stamp == caller[t].now
  <1>0. PICK n \in Nat : n = Len(packet_log)
    BY LenProperties DEF TrackInv, TypeOK
  <1>1. TypeOK /\ packet_log \in Seq(0..clock) /\ stamp \in 0..clock /\ clock \in Nat
        /\ caller[t].pc = "log"
    BY DEF TrackInv, TypeOK, AppendLog
  <1>2. n \in Nat /\ DOMAIN packet_log = 1..n
    BY <1>0, <1>1, LenProperties
  <1>3. packet_log' = Append(packet_log, stamp) /\ caller' = [caller EXCEPT ![t] = Idle]
    BY DEF AppendLog
  <1>4. /\ DOMAIN packet_log' = 1..(n + 1) /\ packet_log'[n + 1] = stamp
        /\ \A i \in 1..n : packet_log'[i] = packet_log[i]
    BY <1>0, <1>1, <1>3, AppendProperties, LenProperties
  <1>5. caller'[t].pc = "idle" /\ \A v \in Thread : v # t => caller'[v] = caller[v]
    BY <1>1, <1>3 DEF TypeOK, Idle
  <1>6. ASSUME NEW i \in 1..n
        PROVE  Few(i)'
    <2> DEFINE older == Overtaken(i)
               late == Late(packet_log[i])
               olderNext == Overtaken(i)'
               lateNext == Late(packet_log[i])'
    <2>1. /\ older = {k \in 1..n : k > i /\ packet_log[k] < packet_log[i]}
          /\ olderNext = {k \in 1..(n + 1) : k > i /\ packet_log'[k] < packet_log[i]}
      BY <1>2, <1>4, <1>6 DEF Overtaken
    <2>2. /\ late = {v \in Thread : caller[v].pc # "idle" /\ caller[v].now < packet_log[i]}
          /\ lateNext = {v \in Thread : caller'[v].pc # "idle" /\ caller'[v].now < packet_log[i]}
      BY <1>4, <1>6 DEF Late
    <2>3. /\ IsFiniteSet(older) /\ Cardinality(older) \in Nat
          /\ IsFiniteSet(late) /\ Cardinality(late) \in Nat
          /\ packet_log[i] \in 0..clock
      BY <1>1, <1>2, <1>6, FewNumbers
    <2>4. Cardinality(older) + Cardinality(late) < Cardinality(Thread)
      BY <1>2, <1>6 DEF FewInv, Few
    <2> HIDE DEF older, late, olderNext, lateNext
    <2>5. Cardinality(olderNext) + Cardinality(lateNext) < Cardinality(Thread)
      <3>1. CASE stamp < packet_log[i]
        <4>1. olderNext = older \cup {n + 1} /\ n + 1 \notin older
          BY <1>2, <1>4, <1>6, <2>1, <3>1
        <4>2. lateNext = late \ {t} /\ t \in late
          BY <1>1, <1>5, <2>2, <3>1
        <4>3. Cardinality(olderNext) = Cardinality(older) + 1
          BY <2>3, <4>1, FS_AddElement
        <4>4. Cardinality(lateNext) = Cardinality(late) - 1
          BY <2>3, <4>2, FS_RemoveElement
        <4> QED BY <2>3, <2>4, <4>3, <4>4, ThreadCount
      <3>2. CASE ~(stamp < packet_log[i])
        <4>1. olderNext = older
          BY <1>2, <1>4, <1>6, <2>1, <3>2
        <4>2. lateNext = late
          BY <1>5, <2>2, <3>2
        <4> QED BY <2>4, <4>1, <4>2
      <3> QED BY <3>1, <3>2
    <2>6. packet_log'[i] = packet_log[i]
      BY <1>4, <1>6
    <2> QED BY <2>5, <2>6 DEF Few, olderNext, lateNext, Late
  <1>7. Few(n + 1)'
    <2>1. Overtaken(n + 1)' = {}
      BY <1>2, <1>4 DEF Overtaken
    <2> DEFINE lateNext == Late(packet_log[n + 1])'
    <2>2. lateNext \in SUBSET (Thread \ {t})
      BY <1>5 DEF Late
    <2> HIDE DEF lateNext
    <2>3. IsFiniteSet(Thread \ {t}) /\ Cardinality(Thread \ {t}) = Cardinality(Thread) - 1
      BY ThreadCount, FS_RemoveElement
    <2>4. Cardinality(lateNext) <= Cardinality(Thread) - 1 /\ Cardinality(lateNext) \in Nat
      BY <2>2, <2>3, FS_Subset, FS_CardinalityType
    <2>5. Cardinality(Overtaken(n + 1)') = 0
      BY <2>1, FS_EmptySet
    <2>6. 0 + Cardinality(lateNext) < Cardinality(Thread)
      BY <2>4, ThreadCount
    <2> QED BY <2>5, <2>6 DEF Few, lateNext
  <1>8. \A i \in 1..(n + 1) : i \in 1..n \/ i = n + 1
    BY <1>2
  <1> QED BY <1>4, <1>6, <1>7, <1>8 DEF FewInv

\* T are the places of S, all moved up by m.
MovedUp(len, m, S, T) ==
    /\ S \in SUBSET (1..len) /\ T \in SUBSET (1..(len - m))
    /\ \A s \in S : s > m /\ s - m \in T
    /\ \A t \in T : t + m \in S

LEMMA ShiftedPlaces ==
    ASSUME NEW len \in Nat, NEW m \in Nat, NEW S, NEW T, MovedUp(len, m, S, T)
    PROVE  Cardinality(T) = Cardinality(S)
  <1> USE DEF MovedUp
  <1> DEFINE f == [s \in S |-> s - m]
  <1>1. \A s \in S : s \in Int /\ s - m \in T /\ (s - m) + m = s
    OBVIOUS
  <1>2. f \in [S -> T]
    BY <1>1
  <1>3. \A a, b \in S : f[a] = f[b] => a = b
    BY <1>1
  <1>4. ASSUME NEW t \in T
        PROVE  \E s \in S : f[s] = t
    <2>1. t + m \in S /\ (t + m) - m = t
      OBVIOUS
    <2> QED BY <2>1
  <1> HIDE DEF f
  <1>5. f \in Bijection(S, T)
    <2>1. f \in Injection(S, T)
      BY <1>2, <1>3 DEF Injection, IsInjective
    <2>2. f \in Surjection(S, T)
      BY <1>2, <1>4 DEF Surjection
    <2> QED BY <2>1, <2>2 DEF Bijection
  <1>6. IsFiniteSet(S)
    <2>1. IsFiniteSet(1..len)
      BY FS_Interval
    <2> QED BY <2>1, FS_Subset
  <1> QED BY <1>5, <1>6, FS_Bijection DEF ExistsBijection

\* What is behind an entry stays behind it.
LEMMA FewTrim ==
    ASSUME TrackInv, FewInv, TrimLog
    PROVE  FewInv'
  <1>1. PICK m \in 0..Len(packet_log) :
             packet_log' = SubSeq(packet_log, m + 1, Len(packet_log)) /\ caller' = caller
    BY DEF TrimLog
  <1>2. TypeOK
    BY DEF TrackInv
  <1>3. PICK n \in Nat : n = Len(packet_log) - m
    <2>1. Len(packet_log) \in Nat
      BY <1>2, LenProperties DEF TypeOK
    <2>2. Len(packet_log) - m \in Nat
      BY <2>1
    <2> QED BY <2>2
  <1>4. /\ m \in Nat /\ DOMAIN packet_log = 1..(n + m) /\ DOMAIN packet_log' = 1..n
        /\ \A i \in 1..n : packet_log'[i] = packet_log[i + m]
    BY <1>1, <1>2, <1>3, TrimmedLog
  <1>5. SUFFICES ASSUME NEW i \in 1..n
                 PROVE  Few(i)'
    BY <1>4 DEF FewInv
  <1> DEFINE older == Overtaken(i + m)
             olderNext == Overtaken(i)'
  <1>6. i + m \in 1..(n + m) /\ packet_log'[i] = packet_log[i + m]
    BY <1>4, <1>5
  <1>7. /\ older = {k \in 1..(n + m) : k > i + m /\ packet_log[k] < packet_log[i + m]}
        /\ olderNext = {k \in 1..n : k > i /\ packet_log'[k] < packet_log'[i]}
    BY <1>4, <1>6 DEF Overtaken
  <1> HIDE DEF older, olderNext
  <1>8. /\ older \in SUBSET (1..(n + m)) /\ olderNext \in SUBSET (1..n)
        /\ \A s \in older : s > m
        /\ \A k \in 1..n : k \in olderNext <=> k + m \in older
    <2>1. older \in SUBSET (1..(n + m)) /\ olderNext \in SUBSET (1..n)
      BY <1>7
    <2>2. \A s \in older : s > m
      BY <1>4, <1>5, <1>7
    <2>3. ASSUME NEW k \in 1..n
          PROVE  k \in olderNext <=> k + m \in older
      <3>1. packet_log'[k] = packet_log[k + m] /\ k + m \in 1..(n + m)
        BY <1>4
      <3>2. k > i <=> k + m > i + m
        BY <1>4, <1>5
      <3> QED BY <1>6, <1>7, <3>1, <3>2
    <2> QED BY <2>1, <2>2, <2>3
  <1>9. Cardinality(olderNext) = Cardinality(older)
    <2>1. PICK S, T : S = older /\ T = olderNext
      OBVIOUS
    <2>2. PICK len \in Nat : len = n + m
      BY <1>4
    <2>3. m \in Nat /\ S \in SUBSET (1..len) /\ T \in SUBSET (1..n)
      BY <1>4, <1>8, <2>1, <2>2
    <2>4. \A s \in S : s > m /\ s - m \in T
      <3>1. ASSUME NEW s \in S
            PROVE  s > m /\ s - m \in T
        <4>1. s \in Int /\ s > m /\ s <= n + m
          BY <1>4, <1>8, <2>1, <2>2, <2>3
        <4>2. s - m \in 1..n /\ (s - m) + m = s
          BY <2>3, <4>1
        <4> QED BY <1>8, <2>1, <4>1, <4>2
      <3> QED BY <3>1
    <2>5. \A t \in T : t + m \in S
      BY <1>8, <2>1, <2>3
    <2>6. MovedUp(len, m, S, T)
      <3>1. len - m = n
        BY <2>2, <2>3
      <3> QED BY <2>3, <2>4, <2>5, <3>1 DEF MovedUp
    <2>7. Cardinality(T) = Cardinality(S)
      BY <2>2, <2>3, <2>6, ShiftedPlaces
    <2> QED BY <2>1, <2>7
  <1>10. Late(packet_log[i])' = Late(packet_log[i + m])
    BY <1>1, <1>6 DEF Late
  <1>11. Cardinality(older) + Cardinality(Late(packet_log[i + m])) < Cardinality(Thread)
    BY <1>4, <1>6 DEF FewInv, Few, older
  <1>12. Cardinality(olderNext) + Cardinality(Late(packet_log[i])') < Cardinality(Thread)
    BY <1>9, <1>10, <1>11
  <1> QED BY <1>12 DEF Few, olderNext

LEMMA FewStep == TrackInv /\ FewInv /\ [Next]_vars => FewInv'
  <1> SUFFICES ASSUME TrackInv, FewInv, [Next]_vars
               PROVE  FewInv'
    OBVIOUS
  <1>1. TypeOK
    BY DEF TrackInv
  <1>2. CASE Wake \/ EvictIdle \/ Tick \/ UNCHANGED vars
    <2>1. packet_log' = packet_log /\ caller' = caller
      BY <1>2 DEF Wake, EvictIdle, Tick, vars
    <2> QED BY <1>1, <2>1, FewKept DEF Late
  <1>3. ASSUME NEW t \in Thread, UpdateTable(t)
        PROVE  FewInv'
    <2>1. packet_log' = packet_log /\ caller[t].pc = "table"
          /\ caller' = [caller EXCEPT ![t].pc = "log"]
      BY <1>3 DEF UpdateTable
    <2>2. \A v \in Thread : caller'[v].now = caller[v].now
                            /\ (caller'[v].pc # "idle" <=> caller[v].pc # "idle")
      BY <1>1, <2>1 DEF TypeOK
    <2> QED BY <1>1, <2>1, <2>2, FewKept DEF Late
  <1> QED
    BY <1>2, <1>3, FewStamp, FewAppend, FewTrim DEF Next, record_packet, cleanup

LEMMA FewInit == Init => FewInv
  BY DEF Init, FewInv

LEMMA FewInvariant == Spec => [](TrackInv /\ FewInv)
  BY TrackInit, TrackStep, FewInit, FewStep, PTL DEF Spec

\* The trim stops at an entry that is young enough; what is older stands behind it.
LEMMA TrimLeavesFew ==
    ASSUME TrackInv, FewInv', TrackInv', TrimLog
    PROVE  Cardinality(Older(packet_log', Cutoff)) < Cardinality(Thread)
  <1>1. PICK m \in 0..Len(packet_log) :
             Trimmed(m) /\ packet_log' = SubSeq(packet_log, m + 1, Len(packet_log))
    BY DEF TrimLog
  <1>2. TypeOK
    BY DEF TrackInv
  <1>3. PICK n \in Nat : n = Len(packet_log) - m
    <2>1. Len(packet_log) \in Nat
      BY <1>2, LenProperties DEF TypeOK
    <2>2. Len(packet_log) - m \in Nat
      BY <2>1
    <2> QED BY <2>2
  <1>4. /\ m \in Nat /\ DOMAIN packet_log' = 1..n /\ Len(packet_log) = n + m
        /\ \A i \in 1..n : packet_log'[i] = packet_log[i + m]
    BY <1>1, <1>2, <1>3, TrimmedLog
  <1>5. Cutoff \in Int
    BY <1>2, TrackerAssumption DEF Cutoff, TypeOK, TrackerAssumption
  <1> DEFINE old == Older(packet_log', Cutoff)
  <1>6. old = {k \in 1..n : packet_log'[k] < Cutoff}
    BY <1>4 DEF Older
  <1>7. CASE n = 0
    <2>1. old = {}
      BY <1>6, <1>7
    <2>2. Cardinality(old) = 0
      BY <2>1, FS_EmptySet
    <2> HIDE DEF old
    <2>3. Cardinality(old) < Cardinality(Thread)
      BY <2>2, ThreadCount
    <2> QED BY <2>3 DEF old
  <1>8. CASE n # 0
    <2> DEFINE behind == Overtaken(1)'
    <2>1. 1 \in 1..n /\ packet_log'[1] = packet_log[m + 1]
      BY <1>4, <1>8
    <2>2. packet_log'[1] >= Cutoff
      BY <1>1, <1>4, <1>8, <2>1 DEF Trimmed
    <2>3. \A k \in 1..n : packet_log'[k] \in Int
      <3>1. packet_log' \in Seq(0..clock')
        BY DEF TrackInv, TypeOK
      <3>2. clock' \in Nat
        BY DEF TrackInv, TypeOK
      <3>3. Len(packet_log') \in Nat /\ DOMAIN packet_log' = 1..Len(packet_log')
        BY <3>1, LenProperties
      <3>4. \A k \in 1..n : packet_log'[k] \in 0..clock'
        BY <1>4, <3>1, <3>3, ElementOfSeq
      <3> QED BY <3>2, <3>4
    <2>4. behind = {k \in 1..n : k > 1 /\ packet_log'[k] < packet_log'[1]}
      BY <1>4 DEF Overtaken
    <2> HIDE DEF old, behind
    <2>5. old \in SUBSET behind
      BY <1>5, <1>6, <2>1, <2>2, <2>3, <2>4
    <2>6. IsFiniteSet(behind) /\ Cardinality(behind) \in Nat
      <3>1. IsFiniteSet(1..n) /\ behind \in SUBSET (1..n)
        BY <2>4, FS_Interval
      <3> QED BY <3>1, FS_Subset, FS_CardinalityType
    <2>7. Cardinality(old) <= Cardinality(behind) /\ Cardinality(old) \in Nat
      BY <2>5, <2>6, FS_Subset, FS_CardinalityType
    <2> DEFINE late == Late(packet_log[1])'
    <2>8. Cardinality(behind) + Cardinality(late) < Cardinality(Thread)
      BY <1>4, <2>1 DEF FewInv, Few, behind
    <2>9. Cardinality(late) \in Nat
      <3>1. late \in SUBSET Thread
        BY DEF Late
      <3> HIDE DEF late
      <3> QED BY <3>1, ThreadCount, FS_Subset, FS_CardinalityType
    <2> HIDE DEF late
    <2>10. Cardinality(old) < Cardinality(Thread)
      BY <2>6, <2>7, <2>8, <2>9, ThreadCount
    <2> QED BY <2>10 DEF old
  <1> QED BY <1>7, <1>8

\* However long the log and however the threads are delayed, a trim leaves fewer
\* outdated entries than there are threads.
THEOREM TrimsLeaveFew == Spec => SweepLeavesFew
  <1> DEFINE Inv == TrackInv /\ FewInv
  <1>1. Inv /\ Inv' /\ [Next]_vars
          => [TrimLog => Cardinality(Older(packet_log', Cutoff)) < Cardinality(Thread)]_vars
    BY TrimLeavesFew
  <1>2. Spec => []Inv
    BY FewInvariant
  <1> QED BY <1>1, <1>2, PTL DEF Spec, SweepLeavesFew
=============================================================================
