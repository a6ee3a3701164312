--------------------------- MODULE Traffic_proofs ---------------------------
(***************************************************************************)
(* Proofs about the traffic generator: what the orchestrator does with the   *)
(* rates of its senders, and the buffer of a sender.                         *)
(***************************************************************************)
EXTENDS TrafficSender, Orchestrator, SequenceTheorems, FiniteSetTheorems,
        WellFoundedInduction, TLAPS

-----------------------------------------------------------------------------
(* The orchestrator                                                        *)

\* The sum does not change while it is posted.
PostedIsSum == poster.pc = "post" => poster.sum = shared_sum

OrchInv == OrchTypeOK /\ RatesAddUp /\ PostedIsSum

\* Nothing is owed before the first sender runs.
LEMMA OrchInitial == OrchInit => OrchInv
  BY DEF OrchInit, OrchInv, OrchTypeOK, RatesAddUp, PostedIsSum, OrchAssumption

\* A sender's process changes its record only.
LEMMA EnvironmentKeeps ==
  ASSUME OrchInv, NEW s \in Script, Environment(s)
  PROVE  OrchInv'
  <1> USE DEF OrchInv, OrchTypeOK, RatesAddUp, PostedIsSum
  <1>1. process' \in [Script -> [running : BOOLEAN, pipe : Seq({"rate", "text"}), late : BOOLEAN]]
    <2>1. ASSUME NEW line \in {"rate", "text"}, PrintLine(s, line)
          PROVE  process' \in [Script -> [running : BOOLEAN, pipe : Seq({"rate", "text"}),
                                          late : BOOLEAN]]
      <3>1. Append(process[s].pipe, line) \in Seq({"rate", "text"})
        OBVIOUS
      <3>2. process' = [process EXCEPT ![s].pipe = Append(process[s].pipe, line)]
        BY <2>1 DEF PrintLine
      <3> QED BY <3>1, <3>2
    <2>2. CASE Exit(s)
      BY <2>2 DEF Exit
    <2>3. CASE RunsOut(s)
      BY <2>3 DEF RunsOut
    <2> QED BY <2>1, <2>2, <2>3 DEF Environment
  <1>2. UNCHANGED <<round, reader, shared_sum, poster, owed>>
    BY DEF Environment, PrintLine, Exit, RunsOut
  <1> QED BY <1>1, <1>2

\* A reader adds to the sum only while it is not posted.
LEMMA ReaderKeeps ==
  ASSUME OrchInv, NEW s \in Script, run_script(s)
  PROVE  OrchInv'
  <1> USE DEF OrchInv, OrchTypeOK, RatesAddUp, PostedIsSum, Goto
  <1>1. CASE StartScript(s)
    BY <1>1 DEF StartScript
  <1>2. CASE ReadLine(s)
    <2>1. process[s].pipe \in Seq({"rate", "text"}) /\ process[s].pipe # <<>>
      BY <1>2 DEF ReadLine
    <2>2. Tail(process[s].pipe) \in Seq({"rate", "text"})
      BY <2>1
    <2>3. process' = [process EXCEPT ![s].pipe = Tail(process[s].pipe)]
      BY <1>2 DEF ReadLine
    <2>4. process' \in [Script -> [running : BOOLEAN, pipe : Seq({"rate", "text"}), late : BOOLEAN]]
      BY <2>2, <2>3
    <2>5. reader' \in [Script -> {"done", "start", "read", "add", "invalid", "check"}]
      BY <1>2 DEF ReadLine
    <2> QED BY <1>2, <2>4, <2>5 DEF ReadLine
  <1>3. CASE ReadEnd(s)
    BY <1>3 DEF ReadEnd
  <1>4. CASE Add(s)
    BY <1>4 DEF Add
  <1>5. CASE Invalid(s)
    BY <1>5 DEF Invalid, Terminate
  <1>6. CASE Stop(s)
    BY <1>6 DEF Stop, Terminate
  <1>7. CASE ReadOn(s)
    BY <1>7 DEF ReadOn
  <1> QED BY <1>1, <1>2, <1>3, <1>4, <1>5, <1>6, <1>7 DEF run_script

\* No step of the orchestrator or of its environment breaks the invariant.
LEMMA OrchStep == OrchInv /\ [OrchNext]_orchVars => OrchInv'
  <1> SUFFICES ASSUME OrchInv, [OrchNext]_orchVars
               PROVE  OrchInv'
    OBVIOUS
  <1>1. CASE run_multiple_scripts
    BY <1>1, OrchAssumption DEF OrchInv, OrchTypeOK, RatesAddUp, PostedIsSum, run_multiple_scripts,
       OrchAssumption
  <1>2. CASE PostSum
    BY <1>2 DEF OrchInv, OrchTypeOK, RatesAddUp, PostedIsSum, PostSum
  <1>3. CASE PostEnds
    BY <1>3 DEF OrchInv, OrchTypeOK, RatesAddUp, PostedIsSum, PostEnds
  <1>4. CASE UNCHANGED orchVars
    BY <1>4 DEF OrchInv, OrchTypeOK, RatesAddUp, PostedIsSum, orchVars
  <1> QED BY <1>1, <1>2, <1>3, <1>4, ReaderKeeps, EnvironmentKeeps DEF OrchNext

LEMMA OrchInvariant == OrchSpec => []OrchInv
  BY OrchInitial, OrchStep, PTL DEF OrchSpec

\* Type correctness of the orchestrator, and no POST of a sum of nothing.
THEOREM OrchTypeCorrect == OrchSpec => []OrchTypeOK
  <1>1. OrchInv => OrchTypeOK
    BY DEF OrchInv
  <1> QED BY <1>1, OrchInvariant, PTL

\* Every rate that a reader added is in one POST exactly, for any number of senders
\* and rounds: the sum is what was added since the last POST ended.
THEOREM SumIsOwed == OrchSpec => []RatesAddUp
  <1>1. OrchInv => RatesAddUp
    BY DEF OrchInv
  <1> QED BY <1>1, OrchInvariant, PTL

-----------------------------------------------------------------------------
(* The buffer of a sender                                                  *)

\* The devices that have decided to append.
Pending == {d \in Device : device[d] = "append"}

\* The limit is overshot by those that have decided and not yet appended.
PendingBounded == Len(buffer) + Cardinality(Pending) < buffer_size + Cardinality(Device)

\* As long as no device acted on a length that was out of date, the batch that was
\* measured is there to be taken.
BatchIsThere ==
    history.stale = {} => /\ batcher.pc = "take" => batcher.want <= Len(buffer)
                          /\ batcher.pc # "dead"

\* What the two need of the types.
BufferTypes ==
    /\ buffer \in Seq(Nat)
    /\ device \in [Device -> {"check", "remove", "append"}]
    /\ batcher = [pc |-> batcher.pc, want |-> batcher.want, batch |-> batcher.batch,
                  datagram |-> batcher.datagram, sent |-> batcher.sent]
    /\ batcher.want \in 0..data_batch_size
    /\ history = [put |-> history.put, removed |-> history.removed, stale |-> history.stale,
                  died |-> history.died, unsent |-> history.unsent, left |-> history.left,
                  printed |-> history.printed]
    /\ history.put \in Nat

BufferInv == BufferTypes /\ PendingBounded /\ BatchIsThere

\* There are finitely many devices, and at least one.
LEMMA DeviceCount == Cardinality(Device) \in Nat \ {0}
  BY TrafficAssumption, FS_CardinalityType, FS_EmptySet DEF TrafficAssumption

\* However the devices stand, those that are to append are some of them.
LEMMA PendingCount ==
  /\ IsFiniteSet(Pending) /\ IsFiniteSet(Pending')
  /\ Cardinality(Pending) \in Nat /\ Cardinality(Pending) <= Cardinality(Device)
  /\ Cardinality(Pending') \in Nat /\ Cardinality(Pending') <= Cardinality(Device)
  <1>1. Pending \subseteq Device /\ Pending' \subseteq Device
    BY DEF Pending
  <1>2. IsFiniteSet(Pending) /\ Cardinality(Pending) <= Cardinality(Device)
    BY <1>1, TrafficAssumption, FS_Subset DEF TrafficAssumption
  <1>3. IsFiniteSet(Pending') /\ Cardinality(Pending') <= Cardinality(Device)
    BY <1>1, TrafficAssumption, FS_Subset DEF TrafficAssumption
  <1> QED BY <1>2, <1>3, FS_CardinalityType

\* The buffer is empty when the threads start.
LEMMA BufferInitial == TrafficInit => BufferInv
  <1> SUFFICES ASSUME TrafficInit PROVE BufferInv
    OBVIOUS
  <1>1. BufferTypes /\ BatchIsThere
    BY TrafficAssumption DEF TrafficInit, BufferTypes, BatchIsThere, TrafficAssumption
  <1>2. Pending = {}
    BY DEF TrafficInit, Pending
  <1>3. Len(buffer) = 0 /\ Cardinality(Pending) = 0
    BY <1>2, FS_EmptySet DEF TrafficInit
  <1> QED BY <1>1, <1>3, DeviceCount, TrafficAssumption
          DEF BufferInv, PendingBounded, TrafficAssumption

\* A device that looks at the length decides to append only below the limit.
LEMMA CheckKeeps ==
  ASSUME BufferInv, NEW d \in Device, CheckLength(d)
  PROVE  BufferInv'
  <1>1. BufferTypes' /\ BatchIsThere'
    BY DEF BufferInv, BufferTypes, BatchIsThere, CheckLength
  <1>2. CASE Len(buffer) >= buffer_size
    <2>1. Pending' = Pending
      BY <1>2 DEF BufferInv, BufferTypes, CheckLength, Pending
    <2> QED BY <1>1, <2>1 DEF BufferInv, PendingBounded, CheckLength
  <1>3. CASE ~(Len(buffer) >= buffer_size)
    <2>1. Len(buffer) \in Nat /\ Len(buffer) < buffer_size /\ buffer' = buffer
      BY <1>3, TrafficAssumption DEF BufferInv, BufferTypes, CheckLength, TrafficAssumption
    <2> QED BY <1>1, <2>1, PendingCount, DeviceCount, TrafficAssumption
            DEF BufferInv, PendingBounded, TrafficAssumption
  <1> QED BY <1>2, <1>3

\* The oldest message goes and the device is one more that appends.
LEMMA RemoveKeeps ==
  ASSUME BufferInv, NEW d \in Device, RemoveOldest(d)
  PROVE  BufferInv'
  <1> USE TrafficAssumption DEF TrafficAssumption
  <1>1. buffer' \in Seq(Nat) /\ Len(buffer') = Len(buffer) - 1 /\ Len(buffer) \in Nat
    BY DEF BufferInv, BufferTypes, RemoveOldest
  <1>2. BufferTypes'
    BY <1>1 DEF BufferInv, BufferTypes, RemoveOldest
  <1>3. BatchIsThere'
    <2>1. CASE Len(buffer) >= buffer_size
      BY <1>1, <2>1 DEF BufferInv, BufferTypes, BatchIsThere, RemoveOldest
    <2>2. CASE ~(Len(buffer) >= buffer_size)
      BY <2>2 DEF BufferInv, BufferTypes, BatchIsThere, RemoveOldest
    <2> QED BY <2>1, <2>2
  <1>4. Pending' = Pending \cup {d} /\ d \notin Pending
    BY DEF BufferInv, BufferTypes, RemoveOldest, Pending
  <1>5. Cardinality(Pending') = Cardinality(Pending) + 1
    BY <1>4, PendingCount, FS_AddElement
  <1> QED BY <1>1, <1>2, <1>3, <1>5, PendingCount, DeviceCount DEF BufferInv, PendingBounded

\* A device that appends is pending no longer.
LEMMA PutKeeps ==
  ASSUME BufferInv, NEW d \in Device, Put(d)
  PROVE  BufferInv'
  <1>1. buffer' \in Seq(Nat) /\ Len(buffer') = Len(buffer) + 1 /\ Len(buffer) \in Nat
    BY DEF BufferInv, BufferTypes, Put
  <1>2. BufferTypes'
    <2>1. /\ history' = [put |-> history.put + 1, removed |-> history.removed,
                         stale |-> history.stale, died |-> history.died,
                         unsent |-> history.unsent, left |-> history.left,
                         printed |-> history.printed]
          /\ history.put + 1 \in Nat
      <3> DEFINE next == history.put + 1
      <3>1. history' = [history EXCEPT !.put = next] /\ next \in Nat
        BY DEF BufferInv, BufferTypes, Put
      <3>2. history = [put |-> history.put, removed |-> history.removed,
                       stale |-> history.stale, died |-> history.died,
                       unsent |-> history.unsent, left |-> history.left,
                       printed |-> history.printed]
        BY DEF BufferInv, BufferTypes
      <3> HIDE DEF next
      <3>3. history' = [put |-> next, removed |-> history.removed,
                        stale |-> history.stale, died |-> history.died,
                        unsent |-> history.unsent, left |-> history.left,
                        printed |-> history.printed]
        BY ONLY <3>1, <3>2
      <3> QED BY <3>1, <3>3 DEF next
    <2>2. batcher' = batcher /\ device' \in [Device -> {"check", "remove", "append"}]
      BY DEF BufferInv, BufferTypes, Put
    <2> QED BY <1>1, <2>1, <2>2 DEF BufferInv, BufferTypes
  <1>3. BatchIsThere'
    BY <1>1 DEF BufferInv, BufferTypes, BatchIsThere, Put
  <1>4. Pending' = Pending \ {d} /\ d \in Pending
    BY DEF BufferInv, BufferTypes, Put, Pending
  <1>5. Cardinality(Pending') = Cardinality(Pending) - 1
    BY <1>4, PendingCount, FS_RemoveElement
  <1> QED BY <1>1, <1>2, <1>3, <1>5, PendingCount, DeviceCount, TrafficAssumption
          DEF BufferInv, PendingBounded, TrafficAssumption

\* A device that found nothing to remove starts anew.
LEMMA NothingToRemoveKeeps ==
  ASSUME BufferInv, NEW d \in Device, NothingToRemove(d)
  PROVE  BufferInv'
  <1>1. BufferTypes' /\ BatchIsThere'
    BY DEF BufferInv, BufferTypes, BatchIsThere, NothingToRemove
  <1>2. Pending' = Pending
    BY DEF BufferInv, BufferTypes, NothingToRemove, Pending
  <1> QED BY <1>1, <1>2 DEF BufferInv, PendingBounded, NothingToRemove

\* The batching thread takes messages out and measures before it does.
LEMMA BatcherKeeps ==
  ASSUME BufferInv, batch_and_send_1
  PROVE  BufferInv'
  <1> USE TrafficAssumption DEF TrafficAssumption
  <1>1. Len(buffer) \in Nat
    BY DEF BufferInv, BufferTypes
  <1>2. CASE Measure
    <2> DEFINE want == IF Len(buffer) < data_batch_size THEN Len(buffer) ELSE data_batch_size
    <2>1. want \in 0..data_batch_size /\ want <= Len(buffer)
      BY <1>1
    <2> HIDE DEF want
    <2>2. batcher' = [pc |-> "take", want |-> want, batch |-> batcher.batch,
                     datagram |-> batcher.datagram, sent |-> batcher.sent]
      BY <1>2 DEF BufferInv, BufferTypes, Measure, want
    <2>3. UNCHANGED <<buffer, device, history>> /\ batcher.pc = "measure"
      BY <1>2 DEF Measure, deviceVars
    <2>4. BufferTypes'
      BY <2>1, <2>2, <2>3 DEF BufferInv, BufferTypes
    <2>5. BatchIsThere'
      BY <2>1, <2>2, <2>3 DEF BufferInv, BatchIsThere
    <2>6. PendingBounded'
      BY <2>3 DEF BufferInv, PendingBounded, Pending
    <2> QED BY <2>4, <2>5, <2>6 DEF BufferInv
  <1>3. CASE TakeMessage
    <2>1. buffer' \in Seq(Nat) /\ Len(buffer') = Len(buffer) - 1
      BY <1>3 DEF BufferInv, BufferTypes, TakeMessage
    <2>2. batcher' = [pc |-> "take", want |-> batcher.want - 1,
                     batch |-> Append(batcher.batch, Head(buffer)), datagram |-> batcher.datagram,
                     sent |-> batcher.sent]
      BY <1>3 DEF BufferInv, BufferTypes, TakeMessage
    <2>3. UNCHANGED <<device, history>> /\ batcher.pc = "take"
          /\ batcher.want \in 0..data_batch_size /\ batcher.want > 0
      BY <1>3 DEF BufferInv, BufferTypes, TakeMessage
    <2>4. BufferTypes' /\ BatchIsThere'
      <3>1. BufferTypes'
        BY <2>1, <2>2, <2>3 DEF BufferInv, BufferTypes
      <3>2. history.stale = {} => batcher.want <= Len(buffer)
        BY <2>3 DEF BufferInv, BatchIsThere
      <3>3. batcher'.pc = "take" /\ batcher'.want = batcher.want - 1
        BY <2>2
      <3> QED BY <1>1, <2>1, <2>3, <3>1, <3>2, <3>3 DEF BatchIsThere
    <2>5. Pending' = Pending
      BY <1>3 DEF Pending, TakeMessage
    <2> QED BY <1>1, <2>1, <2>4, <2>5, PendingCount, DeviceCount DEF BufferInv, PendingBounded
  <1>4. CASE NothingToTake
    <2>1. BufferTypes'
      <3>1. batcher' = [pc |-> "dead", want |-> batcher.want, batch |-> <<>>,
                       datagram |-> batcher.datagram, sent |-> batcher.sent]
        BY <1>4 DEF BufferInv, BufferTypes, NothingToTake
      <3>2. history' = [put |-> history.put, removed |-> history.removed,
                       stale |-> history.stale, died |-> history.died \cup ToSet(batcher.batch),
                       unsent |-> history.unsent, left |-> history.left,
                       printed |-> history.printed]
        BY <1>4 DEF BufferInv, BufferTypes, NothingToTake
      <3> QED BY <1>4, <3>1, <3>2 DEF BufferInv, BufferTypes, NothingToTake, deviceVars
    <2>2. BatchIsThere'
      <3>1. history'.stale = history.stale /\ history.stale # {}
        <4>1. Len(buffer) = 0
          BY <1>4, EmptySeq DEF NothingToTake
        <4> QED BY <1>4, <4>1 DEF BufferInv, BufferTypes, BatchIsThere, NothingToTake
      <3> QED BY <3>1 DEF BatchIsThere
    <2> QED BY <1>4, <2>1, <2>2 DEF BufferInv, PendingBounded, Pending, NothingToTake, deviceVars
  <1>5. CASE BeginBatch \/ SplitBatch \/ BeginSending \/ send_packets
    <2>1. UNCHANGED <<buffer, device>>
      BY <1>5 DEF BeginBatch, SplitBatch, BeginSending, send_packets, TakeDatagram, SendFirst,
         SendSecond, CountDatagram, PrintRate, NotDue, EndSending, deviceVars
    <2>2. BufferTypes' /\ BatchIsThere'
      <3>1. CASE BeginBatch \/ SplitBatch \/ BeginSending \/ TakeDatagram \/ NotDue \/ EndSending
        BY <2>1, <3>1 DEF BufferInv, BufferTypes, BatchIsThere, BeginBatch, SplitBatch,
           BeginSending, TakeDatagram, NotDue, EndSending
      <3>2. CASE SendFirst \/ SendSecond \/ CountDatagram \/ PrintRate
        BY <2>1, <3>2 DEF BufferInv, BufferTypes, BatchIsThere, SendFirst, SendSecond,
           CountDatagram, PrintRate
      <3> QED BY <1>5, <3>1, <3>2 DEF send_packets
    <2> QED BY <2>1, <2>2 DEF BufferInv, PendingBounded, Pending
  <1> QED BY <1>2, <1>3, <1>4, <1>5 DEF batch_and_send_1

LEMMA BufferInvariant == TrafficSpec => []BufferInv
  <1>1. ASSUME BufferInv, [TrafficNext]_trafficVars
        PROVE  BufferInv'
    <2>1. CASE UNCHANGED trafficVars
      BY <1>1, <2>1 DEF BufferInv, BufferTypes, PendingBounded, BatchIsThere, Pending,
         trafficVars, deviceVars
    <2> QED BY <1>1, <2>1, CheckKeeps, RemoveKeeps, NothingToRemoveKeeps, PutKeeps, BatcherKeeps
            DEF TrafficNext, generate_messages
  <1> QED BY <1>1, BufferInitial, PTL DEF TrafficSpec

\* For any number of devices and any limit, the buffer overshoots its limit by less
\* than the number of devices.
THEOREM Overshoot == TrafficSpec => []BufferBounded
  <1>1. BufferInv => BufferBounded
    BY PendingCount, DeviceCount, TrafficAssumption
       DEF BufferInv, BufferTypes, PendingBounded, BufferBounded, TrafficAssumption
  <1> QED BY <1>1, BufferInvariant, PTL

\* The batching thread dies only after a device removed a message from a buffer that
\* had room.
THEOREM StaleRemovalKills == TrafficSpec => []DiesOfStaleRemovalOnly
  <1>1. BufferInv => DiesOfStaleRemovalOnly
    BY DEF BufferInv, BatchIsThere, DiesOfStaleRemovalOnly
  <1> QED BY <1>1, BufferInvariant, PTL
-----------------------------------------------------------------------------
(* The flattening of packets: a recursive function, of which the provers    *)
(* know nothing but its definition.                                        *)

\* A set of naturals that is not empty has a least element.
LEMMA LeastNat ==
  ASSUME NEW T \in SUBSET Nat, T # {}
  PROVE  \E n \in T : \A m \in T : n <= m
  <1>1. PICK n \in T : \A m \in T : <<m, n>> \notin OpToRel(<, Nat)
    BY NatLessThanWellFounded, WFMin, Zenon
  <1>2. \A m \in T : ~(m < n)
    BY <1>1 DEF OpToRel
  <1> QED BY <1>2

\* g joins the first sequences of s, up to n of them.
Joins(s, n, g) == g = [i \in 1..n |-> IF i = 1 THEN s[i] ELSE g[i - 1] \o s[i]]

\* The sequences begin with the same n elements.
Agree(s, t, n) == \A i \in 1..n : s[i] = t[i]

LEMMA MessagesAssociate ==
  ASSUME NEW s \in Seq(Nat), NEW t \in Seq(Nat), NEW u \in Seq(Nat)
  PROVE  (s \o t) \o u = s \o (t \o u)
  BY ConcatAssociative

LEMMA PacketsAssociate ==
  ASSUME NEW s \in Seq(Seq(Nat)), NEW t \in Seq(Seq(Nat)), NEW u \in Seq(Seq(Nat))
  PROVE  (s \o t) \o u = s \o (t \o u)
  BY ConcatAssociative

LEMMA JoinsFacts ==
  ASSUME NEW s, NEW n, NEW g, Joins(s, n, g), NEW i \in 1..n
  PROVE  g[i] = IF i = 1 THEN s[i] ELSE g[i - 1] \o s[i]
  <1> DEFINE next(j) == IF j = 1 THEN s[j] ELSE g[j - 1] \o s[j]
  <1>1. g = [j \in 1..n |-> next(j)]
    BY DEF Joins
  <1>2. g[i] = next(i)
    <2> HIDE DEF next
    <2> QED BY <1>1
  <1> QED BY <1>2

LEMMA JoinsExist ==
  ASSUME NEW s, NEW n \in Nat
  PROVE  \E g : Joins(s, n, g)
  <1> DEFINE Without == {k \in Nat : ~ \E g : Joins(s, k, g)}
  <1>1. SUFFICES ASSUME Without # {}
                 PROVE  FALSE
    OBVIOUS
  <1>2. PICK k \in Without : \A m \in Without : k <= m
    <2>1. Without \in SUBSET Nat
      OBVIOUS
    <2> HIDE DEF Without
    <2> QED BY <1>1, <2>1, LeastNat
  <1>3. k \in Nat /\ ~ \E g : Joins(s, k, g)
    BY <1>2
  <1>4. k # 0
    <2>1. Joins(s, 0, [i \in 1..0 |-> s])
      BY DEF Joins
    <2> QED BY <1>3, <2>1
  <1>5. k - 1 \in Nat /\ k - 1 \notin Without
    BY <1>2, <1>3, <1>4
  <1>6. PICK g : Joins(s, k - 1, g)
    BY <1>5
  <1> DEFINE next(i) == IF i = 1 THEN s[i] ELSE g[i - 1] \o s[i]
             h == [i \in 1..k |-> next(i)]
  <1>7. \A i \in 1..(k - 1) : h[i] = g[i]
    <2>1. \A i \in 1..(k - 1) : i \in 1..k /\ g[i] = next(i)
      BY <1>3, <1>6, JoinsFacts
    <2> HIDE DEF next
    <2> QED BY <2>1
  <1>8. \A i \in 1..k : next(i) = IF i = 1 THEN s[i] ELSE h[i - 1] \o s[i]
    <2>1. \A i \in 1..k : i # 1 => i - 1 \in 1..(k - 1)
      BY <1>3
    <2>2. \A i \in 1..k : i # 1 => h[i - 1] = g[i - 1]
      <3> HIDE DEF h
      <3> QED BY <1>7, <2>1
    <2> HIDE DEF h
    <2> QED BY <2>2
  <1>9. h = [i \in 1..k |-> IF i = 1 THEN s[i] ELSE h[i - 1] \o s[i]]
    <2> DEFINE further(i) == IF i = 1 THEN s[i] ELSE h[i - 1] \o s[i]
    <2>1. \A i \in 1..k : next(i) = further(i)
      BY <1>8
    <2>2. h = [i \in 1..k |-> next(i)]
      OBVIOUS
    <2> HIDE DEF next, h, further
    <2>3. h = [i \in 1..k |-> further(i)]
      BY <2>1, <2>2
    <2> QED BY <2>3 DEF further
  <1> HIDE DEF h
  <1>10. Joins(s, k, h)
    BY <1>9 DEF Joins
  <1> QED BY <1>3, <1>10

\* Two joins of sequences with the same beginning agree there.
LEMMA JoinsAgree ==
  ASSUME NEW s, NEW t, NEW n \in Nat, NEW m \in Nat, n <= m,
         Agree(s, t, n),
         NEW g, Joins(s, n, g), NEW h, Joins(t, m, h)
  PROVE  Agree(g, h, n)
  <1> DEFINE Differ == {i \in 1..n : g[i] # h[i]}
  <1>1. SUFFICES ASSUME Differ # {}
                 PROVE  FALSE
    BY DEF Agree
  <1>2. PICK i \in Differ : \A j \in Differ : i <= j
    <2>1. Differ \in SUBSET Nat
      OBVIOUS
    <2> HIDE DEF Differ
    <2> QED BY <1>1, <2>1, LeastNat
  <1>3. i \in 1..n /\ g[i] # h[i]
    BY <1>2
  <1>4. /\ g[i] = IF i = 1 THEN s[i] ELSE g[i - 1] \o s[i]
        /\ h[i] = IF i = 1 THEN t[i] ELSE h[i - 1] \o t[i]
    <2>1. i \in 1..m
      BY <1>3
    <2> QED BY <1>3, <2>1, JoinsFacts
  <1>5. CASE i = 1
    BY <1>3, <1>4, <1>5 DEF Agree
  <1>6. CASE i # 1
    <2>1. i - 1 \in 1..n /\ i - 1 \notin Differ
      BY <1>2, <1>3, <1>6
    <2> QED BY <1>3, <1>4, <1>6, <2>1 DEF Agree
  <1> QED BY <1>5, <1>6

\* What is joined is a sequence.
LEMMA JoinsType ==
  ASSUME NEW s \in Seq(Seq(Nat)), NEW g, Joins(s, Len(s), g)
  PROVE  \A i \in 1..Len(s) : g[i] \in Seq(Nat)
  <1> DEFINE Odd == {i \in 1..Len(s) : g[i] \notin Seq(Nat)}
  <1>1. SUFFICES ASSUME Odd # {}
                 PROVE  FALSE
    OBVIOUS
  <1>2. PICK i \in Odd : \A j \in Odd : i <= j
    <2>1. Odd \in SUBSET Nat
      OBVIOUS
    <2> HIDE DEF Odd
    <2> QED BY <1>1, <2>1, LeastNat
  <1>3. i \in 1..Len(s) /\ g[i] \notin Seq(Nat) /\ Len(s) \in Nat
    BY <1>2
  <1>4. g[i] = IF i = 1 THEN s[i] ELSE g[i - 1] \o s[i]
    BY <1>3, JoinsFacts
  <1>5. s[i] \in Seq(Nat)
    BY <1>3, ElementOfSeq
  <1>6. CASE i # 1
    <2>1. i - 1 \in 1..Len(s) /\ i - 1 \notin Odd
      BY <1>2, <1>3, <1>6
    <2>2. g[i - 1] \in Seq(Nat)
      BY <2>1
    <2> QED BY <1>3, <1>4, <1>5, <1>6, <2>2, ConcatProperties
  <1> QED BY <1>3, <1>4, <1>5, <1>6

\* FlattenSeq joins them all.
LEMMA FlattenJoins ==
  ASSUME NEW s, Len(s) \in Nat \ {0}
  PROVE  \E g : Joins(s, Len(s), g) /\ FlattenSeq(s) = g[Len(s)]
  <1> DEFINE Step(g) == [i \in 1..Len(s) |-> IF i = 1 THEN s[i] ELSE g[i - 1] \o s[i]]
             flatten == CHOOSE g : g = Step(g)
  <1>1. FlattenSeq(s) = flatten[Len(s)]
    BY DEF FlattenSeq
  <1>2. PICK g : Joins(s, Len(s), g)
    BY JoinsExist
  <1>3. g = Step(g)
    BY <1>2 DEF Joins
  <1>4. flatten = Step(flatten)
    <2> HIDE DEF Step
    <2> QED BY <1>3
  <1> HIDE DEF flatten
  <1> QED BY <1>1, <1>4 DEF Joins

LEMMA FlattenEmpty ==
  ASSUME NEW s, s = <<>>
  PROVE  FlattenSeq(s) = <<>>
  <1>1. Len(s) = 0
    BY EmptySeq
  <1> QED BY <1>1, Zenon DEF FlattenSeq

LEMMA FlattenType ==
  ASSUME NEW s \in Seq(Seq(Nat))
  PROVE  FlattenSeq(s) \in Seq(Nat)
  <1>1. CASE s = <<>>
    BY <1>1, FlattenEmpty, EmptySeq
  <1>2. CASE s # <<>>
    <2>1. Len(s) \in Nat \ {0}
      BY <1>2, EmptySeq
    <2>2. PICK g : Joins(s, Len(s), g) /\ FlattenSeq(s) = g[Len(s)]
      BY <2>1, FlattenJoins
    <2> QED BY <2>1, <2>2, JoinsType
  <1> QED BY <1>1, <1>2

LEMMA FlattenAppend ==
  ASSUME NEW s \in Seq(Seq(Nat)), NEW e \in Seq(Nat)
  PROVE  FlattenSeq(Append(s, e)) = FlattenSeq(s) \o e
  <1> DEFINE n == Len(s)
             t == Append(s, e)
  <1>1. /\ n \in Nat /\ Len(t) = n + 1 /\ t \in Seq(Seq(Nat))
        /\ \A i \in 1..n : t[i] = s[i]
        /\ t[n + 1] = e
    BY AppendProperties, LenProperties
  <1> HIDE DEF t
  <1>2. PICK h : Joins(t, n + 1, h) /\ FlattenSeq(t) = h[n + 1]
    <2>1. Len(t) \in Nat \ {0}
      BY <1>1
    <2>2. PICK h : Joins(t, Len(t), h) /\ FlattenSeq(t) = h[Len(t)]
      BY <2>1, FlattenJoins
    <2> QED BY <1>1, <2>2
  <1>3. h[n + 1] = IF n = 0 THEN t[n + 1] ELSE h[n] \o t[n + 1]
    <2>1. n + 1 \in 1..(n + 1) /\ n + 1 - 1 = n /\ (n + 1 = 1 <=> n = 0)
      BY <1>1
    <2>2. h[n + 1] = IF n + 1 = 1 THEN t[n + 1] ELSE h[n + 1 - 1] \o t[n + 1]
      <3> DEFINE m == n + 1
      <3>1. Joins(t, m, h) /\ m \in 1..m
        BY <1>2, <2>1
      <3> HIDE DEF m
      <3>2. h[m] = IF m = 1 THEN t[m] ELSE h[m - 1] \o t[m]
        BY <3>1, JoinsFacts
      <3> QED BY <3>2 DEF m
    <2> QED BY <2>1, <2>2
  <1>4. CASE n = 0
    <2>1. FlattenSeq(s) = <<>>
      BY <1>4, EmptySeq, FlattenEmpty
    <2> QED BY <1>1, <1>2, <1>3, <1>4, <2>1, ConcatEmptySeq DEF t
  <1>5. CASE n # 0
    <2>1. PICK g : Joins(s, n, g) /\ FlattenSeq(s) = g[n]
      BY <1>1, <1>5, FlattenJoins
    <2>2. n \in 1..n /\ n + 1 \in Nat /\ n <= n + 1
      BY <1>1, <1>5
    <2>3. \A i \in 1..n : s[i] = t[i]
      BY <1>1
    <2> HIDE DEF n
    <2>4. \A i \in 1..n : g[i] = h[i]
      <3> DEFINE m == n + 1
      <3>1. n \in Nat /\ m \in Nat /\ n <= m /\ Joins(s, n, g) /\ Joins(t, m, h)
        BY <1>1, <1>2, <2>1, <2>2
      <3> HIDE DEF m
      <3>2. Agree(s, t, n)
        BY <2>3 DEF Agree
      <3>3. Agree(g, h, n)
        BY <3>1, <3>2, JoinsAgree
      <3> QED BY <3>3 DEF Agree
    <2>5. g[n] = h[n]
      BY <2>2, <2>4
    <2> QED BY <1>1, <1>2, <1>3, <1>5, <2>1, <2>5 DEF t
  <1> QED BY <1>4, <1>5

LEMMA AppendToConcat ==
  ASSUME NEW s \in Seq(Seq(Nat)), NEW t \in Seq(Seq(Nat)), NEW e \in Seq(Nat)
  PROVE  s \o Append(t, e) = Append(s \o t, e)
  <1> DEFINE w == <<e>>
  <1>1. w \in Seq(Seq(Nat)) /\ s \o t \in Seq(Seq(Nat))
    BY ConcatProperties
  <1>2. Append(t, e) = t \o w /\ Append(s \o t, e) = (s \o t) \o w
    BY <1>1, AppendIsConcat
  <1> HIDE DEF w
  <1> QED BY <1>1, <1>2, PacketsAssociate

LEMMA FlattenConcat ==
  ASSUME NEW s \in Seq(Seq(Nat)), NEW t \in Seq(Seq(Nat))
  PROVE  FlattenSeq(s \o t) = FlattenSeq(s) \o FlattenSeq(t)
  <1> DEFINE Odd == {n \in Nat : \E u \in Seq(Seq(Nat)) :
                        /\ Len(u) = n
                        /\ FlattenSeq(s \o u) # FlattenSeq(s) \o FlattenSeq(u)}
  <1>1. SUFFICES ASSUME Odd # {}
                 PROVE  FALSE
    BY LenProperties
  <1>2. PICK n \in Odd : \A m \in Odd : n <= m
    <2>1. Odd \in SUBSET Nat
      OBVIOUS
    <2> HIDE DEF Odd
    <2> QED BY <1>1, <2>1, LeastNat
  <1>3. PICK u \in Seq(Seq(Nat)) : /\ Len(u) = n
                                   /\ FlattenSeq(s \o u) # FlattenSeq(s) \o FlattenSeq(u)
    BY <1>2
  <1>4. u # <<>>
    <2> SUFFICES ASSUME u = <<>>
                 PROVE  FALSE
      OBVIOUS
    <2>1. FlattenSeq(u) = <<>>
      BY FlattenEmpty
    <2>2. s \o u = s /\ FlattenSeq(s) \o <<>> = FlattenSeq(s)
      BY ConcatEmptySeq, FlattenType
    <2> QED BY <1>3, <2>1, <2>2
  <1>5. PICK v \in Seq(Seq(Nat)), e \in Seq(Nat) : u = Append(v, e)
    BY <1>4, SequenceEmptyOrAppend
  <1>6. Len(v) \in Nat /\ Len(v) = n - 1
    BY <1>3, <1>5, AppendProperties, LenProperties
  <1>7. FlattenSeq(s \o v) = FlattenSeq(s) \o FlattenSeq(v)
    <2>1. Len(v) \notin Odd
      BY <1>2, <1>6
    <2> QED BY <1>6, <2>1
  <1>8. s \o u = Append(s \o v, e) /\ s \o v \in Seq(Seq(Nat))
    <2>1. s \o v \in Seq(Seq(Nat))
      BY ConcatProperties
    <2> QED BY <1>5, <2>1, AppendToConcat
  <1>9. FlattenSeq(s \o u) = (FlattenSeq(s) \o FlattenSeq(v)) \o e
    BY <1>7, <1>8, FlattenAppend
  <1>10. (FlattenSeq(s) \o FlattenSeq(v)) \o e = FlattenSeq(s) \o (FlattenSeq(v) \o e)
    <2>1. FlattenSeq(s) \in Seq(Nat) /\ FlattenSeq(v) \in Seq(Nat)
      BY FlattenType
    <2> QED BY <1>5, <2>1, MessagesAssociate
  <1> QED BY <1>3, <1>5, <1>9, <1>10, FlattenAppend

-----------------------------------------------------------------------------
(* The packets of a batch: a fold, from the first message to the last.      *)

\* The element that a fold from the left takes out of t first.
Greatest(t) == CHOOSE i \in t : \A j \in t : i >= j

LEMMA GreatestFacts ==
  ASSUME NEW n \in Nat, NEW t \in SUBSET (1..n), t # {}
  PROVE  /\ Greatest(t) \in t /\ \A j \in t : Greatest(t) >= j
         /\ t \ {Greatest(t)} \in SUBSET (1..(n - 1))
  <1> DEFINE Above == {n - i : i \in t}
  <1>0. \A i \in t : i \in 1..n
    OBVIOUS
  <1>1. Above \in SUBSET Nat /\ Above # {}
    <2>1. \A i \in t : n - i \in Nat
      BY <1>0
    <2> QED BY <2>1
  <1>2. PICK k \in Above : \A m \in Above : k <= m
    <2> HIDE DEF Above
    <2> QED BY <1>1, LeastNat
  <1>3. PICK i \in t : k = n - i
    BY <1>2
  <1>4. \A j \in t : i >= j
    <2> SUFFICES ASSUME NEW j \in t
                 PROVE  i >= j
      OBVIOUS
    <2>1. n - j \in Above
      OBVIOUS
    <2>2. n - i <= n - j
      BY <1>2, <1>3, <2>1
    <2> QED BY <1>0, <2>2
  <1>5. Greatest(t) \in t /\ \A j \in t : Greatest(t) >= j
    BY <1>3, <1>4 DEF Greatest
  <1>6. \A j \in t : j # Greatest(t) => j \in 1..(n - 1)
    <2> DEFINE top == Greatest(t)
    <2>1. top \in 1..n /\ \A j \in t : j \in 1..n /\ top >= j
      BY <1>0, <1>5
    <2> HIDE DEF top
    <2>2. \A j \in t : j # top => j \in 1..(n - 1)
      BY <2>1
    <2> QED BY <2>2 DEF top
  <1> QED BY <1>5, <1>6

LEMMA GreatestOfPrefix ==
  ASSUME NEW n \in Nat, n # 0
  PROVE  Greatest(1..n) = n /\ (1..n) \ {n} = 1..(n - 1)
  <1>1. 1..n # {} /\ n \in 1..n /\ 1..n \in SUBSET (1..n)
    OBVIOUS
  <1>2. Greatest(1..n) \in 1..n /\ Greatest(1..n) >= n
    BY <1>1, GreatestFacts
  <1> QED BY <1>2

Unpacked == [done |-> <<>>, packet |-> <<>>, size |-> 0]

\* g packs the messages of a batch at the places in t, for all t of the first n places.
PackedAt(batch, g, t) ==
  IF t = {} THEN Unpacked
  ELSE PutInPacket(g[t \ {Greatest(t)}], batch[Greatest(t)])

Packs(batch, n, g) == g = [t \in SUBSET (1..n) |-> PackedAt(batch, g, t)]

LEMMA PacksFacts ==
  ASSUME NEW batch, NEW n, NEW g, Packs(batch, n, g), NEW t \in SUBSET (1..n)
  PROVE  g[t] = PackedAt(batch, g, t)
  BY DEF Packs

LEMMA PacksExist ==
  ASSUME NEW batch, NEW n \in Nat
  PROVE  \E g : Packs(batch, n, g)
  <1> DEFINE Without == {k \in Nat : ~ \E g : Packs(batch, k, g)}
  <1>1. SUFFICES ASSUME Without # {}
                 PROVE  FALSE
    OBVIOUS
  <1>2. PICK k \in Without : \A m \in Without : k <= m
    <2>1. Without \in SUBSET Nat
      OBVIOUS
    <2> HIDE DEF Without
    <2> QED BY <1>1, <2>1, LeastNat
  <1>3. k \in Nat /\ ~ \E g : Packs(batch, k, g)
    BY <1>2
  <1>4. k # 0
    <2> DEFINE g == [t \in SUBSET (1..0) |-> Unpacked]
    <2>1. \A t \in SUBSET (1..0) : Unpacked = PackedAt(batch, g, t)
      BY DEF PackedAt
    <2>2. g = [t \in SUBSET (1..0) |-> PackedAt(batch, g, t)]
      BY <2>1
    <2> HIDE DEF g
    <2>3. Packs(batch, 0, g)
      BY <2>2 DEF Packs
    <2> QED BY <1>3, <2>3
  <1>5. k - 1 \in Nat /\ k - 1 \notin Without
    BY <1>2, <1>3, <1>4
  <1>6. PICK g : Packs(batch, k - 1, g)
    BY <1>5
  <1> DEFINE h == [t \in SUBSET (1..k) |-> PackedAt(batch, g, t)]
  <1>7. \A t \in SUBSET (1..(k - 1)) : t \in SUBSET (1..k) /\ g[t] = PackedAt(batch, g, t)
    BY <1>3, <1>6, PacksFacts
  <1>8. \A t \in SUBSET (1..(k - 1)) : h[t] = g[t]
    BY <1>7
  <1>9. \A t \in SUBSET (1..k) : PackedAt(batch, g, t) = PackedAt(batch, h, t)
    <2> HIDE DEF h
    <2> SUFFICES ASSUME NEW t \in SUBSET (1..k), t # {}
                 PROVE  PackedAt(batch, g, t) = PackedAt(batch, h, t)
      BY DEF PackedAt
    <2>1. t \ {Greatest(t)} \in SUBSET (1..(k - 1))
      BY <1>3, GreatestFacts
    <2>2. h[t \ {Greatest(t)}] = g[t \ {Greatest(t)}]
      BY <1>8, <2>1
    <2> QED BY <2>2 DEF PackedAt
  <1>10. h = [t \in SUBSET (1..k) |-> PackedAt(batch, h, t)]
    BY <1>9
  <1> HIDE DEF h
  <1>11. Packs(batch, k, h)
    BY <1>10 DEF Packs
  <1> QED BY <1>3, <1>11

\* p holds the messages of b, in their order.
Packing(p, b) ==
  /\ p = [done |-> p.done, packet |-> p.packet, size |-> p.size]
  /\ p.done \in Seq(Seq(Nat)) /\ p.packet \in Seq(Nat)
  /\ FlattenSeq(p.done) \o p.packet = b

LEMMA PutInPacketKeeps ==
  ASSUME NEW p, NEW b \in Seq(Nat), Packing(p, b), NEW n \in Nat
  PROVE  Packing(PutInPacket(p, n), Append(b, n))
  <1> DEFINE q == PutInPacket(p, n)
  <1>1. /\ p.done \in Seq(Seq(Nat)) /\ p.packet \in Seq(Nat)
        /\ FlattenSeq(p.done) \in Seq(Nat)
        /\ FlattenSeq(p.done) \o p.packet = b
    BY FlattenType DEF Packing
  <1>2. <<n>> \in Seq(Nat) /\ Append(b, n) = b \o <<n>>
    BY AppendIsConcat
  <1>3. CASE p.size + Size[n] > max_packet_size
    <2>1. CASE p.packet = <<>>
      <3>1. q = [done |-> p.done, packet |-> <<n>>, size |-> Size[n]]
        BY <1>3, <2>1 DEF PutInPacket
      <3>2. b = FlattenSeq(p.done)
        BY <1>1, <2>1, ConcatEmptySeq
      <3> QED BY <1>1, <1>2, <3>1, <3>2 DEF Packing
    <2>2. CASE p.packet # <<>>
      <3>1. q = [done |-> Append(p.done, p.packet), packet |-> <<n>>, size |-> Size[n]]
        BY <1>3, <2>2 DEF PutInPacket
      <3>2. Append(p.done, p.packet) \in Seq(Seq(Nat))
        BY <1>1, AppendProperties
      <3>3. FlattenSeq(Append(p.done, p.packet)) = b
        BY <1>1, FlattenAppend
      <3> QED BY <1>2, <3>1, <3>2, <3>3 DEF Packing
    <2> QED BY <2>1, <2>2
  <1>4. CASE ~(p.size + Size[n] > max_packet_size)
    <2>1. q = [done |-> p.done, packet |-> Append(p.packet, n), size |-> p.size + Size[n]]
      BY <1>4 DEF PutInPacket, Packing
    <2>2. Append(p.packet, n) = p.packet \o <<n>> /\ Append(p.packet, n) \in Seq(Nat)
      BY <1>1, AppendIsConcat, AppendProperties
    <2>3. FlattenSeq(p.done) \o (p.packet \o <<n>>) = b \o <<n>>
      BY <1>1, <1>2, MessagesAssociate
    <2> HIDE DEF q
    <2>4. q.done = p.done /\ q.packet = p.packet \o <<n>> /\ q.size = p.size + Size[n]
      BY <2>1, <2>2
    <2>5. FlattenSeq(q.done) \o q.packet = Append(b, n)
      BY <1>2, <2>3, <2>4
    <2>6. q.done \in Seq(Seq(Nat)) /\ q.packet \in Seq(Nat)
      BY <1>1, <2>2, <2>4
    <2>7. Packing(q, Append(b, n))
      BY <2>1, <2>2, <2>4, <2>5, <2>6 DEF Packing
    <2> QED BY <2>7 DEF q
  <1> QED BY <1>3, <1>4

\* The packets hold the messages of the batch, all of them and in their order.
LEMMA PacketsHoldBatch ==
  ASSUME NEW batch \in Seq(Nat)
  PROVE  Packets(batch) \in Seq(Seq(Nat)) /\ FlattenSeq(Packets(batch)) = batch
  <1> DEFINE n == Len(batch)
             Step(g) == [t \in SUBSET (1..n) |-> PackedAt(batch, g, t)]
             iter == CHOOSE g : g = Step(g)
             packed == iter[1..n]
  <1>1. n \in Nat /\ DOMAIN batch = 1..n
    BY LenProperties
  <1>2. FoldLeft(PutInPacket, Unpacked, batch) = packed
    BY <1>1 DEF FoldLeft, MapThenFoldSet, Max, PackedAt, Greatest
  <1>3. PICK g : Packs(batch, n, g)
    BY <1>1, PacksExist
  <1>4. g = Step(g)
    BY <1>3 DEF Packs
  <1>5. iter = Step(iter)
    <2> HIDE DEF Step
    <2> QED BY <1>4
  <1> HIDE DEF iter
  <1>6. Packs(batch, n, iter)
    BY <1>5 DEF Packs
  <1> DEFINE Odd == {k \in 0..n : ~ Packing(iter[1..k], SubSeq(batch, 1, k))}
  <1>7. Odd = {}
    <2> SUFFICES ASSUME Odd # {}
                 PROVE  FALSE
      OBVIOUS
    <2>1. PICK k \in Odd : \A m \in Odd : k <= m
      <3>1. Odd \in SUBSET Nat
        OBVIOUS
      <3> HIDE DEF Odd
      <3> QED BY <3>1, LeastNat
    <2>2. k \in 0..n /\ ~ Packing(iter[1..k], SubSeq(batch, 1, k))
      BY <2>1
    <2>3. 1..k \in SUBSET (1..n)
      BY <1>1, <2>2
    <2>4. iter[1..k] = PackedAt(batch, iter, 1..k)
      BY <1>6, <2>3, PacksFacts
    <2>5. k # 0
      <3> SUFFICES ASSUME k = 0
                   PROVE  FALSE
        OBVIOUS
      <3>1. iter[1..k] = Unpacked
        BY <2>4 DEF PackedAt
      <3>2. SubSeq(batch, 1, k) = <<>>
        BY SubSeqEmpty
      <3>3. Packing(Unpacked, <<>>)
        BY FlattenEmpty, EmptySeq, ConcatEmptySeq DEF Packing, Unpacked
      <3> QED BY <2>2, <3>1, <3>2, <3>3
    <2>6. k - 1 \in 0..n /\ k \in Nat /\ k \in 1..n /\ k - 1 \notin Odd
      BY <1>1, <2>1, <2>2, <2>5
    <2>7. Packing(iter[1..(k - 1)], SubSeq(batch, 1, k - 1))
      BY <2>6
    <2>8. iter[1..k] = PutInPacket(iter[1..(k - 1)], batch[k])
      <3>1. Greatest(1..k) = k /\ (1..k) \ {k} = 1..(k - 1) /\ 1..k # {}
        BY <2>5, <2>6, GreatestOfPrefix
      <3> QED BY <2>4, <3>1, Zenon DEF PackedAt
    <2>9. /\ SubSeq(batch, 1, k - 1) \in Seq(Nat) /\ batch[k] \in Nat
          /\ SubSeq(batch, 1, k) = Append(SubSeq(batch, 1, k - 1), batch[k])
      <3>1. batch[k] \in Nat /\ \A i \in 1..(k - 1) : batch[i] \in Nat
        BY <1>1, <2>6, ElementOfSeq
      <3>2. SubSeq(batch, 1, k - 1) \in Seq(Nat)
        BY <2>6, <3>1, SubSeqProperties
      <3>3. SubSeq(batch, 1, k) = SubSeq(batch, 1, k - 1) \o <<batch[k]>>
        <4>1. 1 \in 1..Len(batch) /\ k \in 1..Len(batch)
          BY <1>1, <2>6
        <4> QED BY <4>1, SubSeqRecursiveSecond, Zenon
      <3> QED BY <3>1, <3>2, <3>3, AppendIsConcat
    <2> QED BY <2>2, <2>7, <2>8, <2>9, PutInPacketKeeps
  <1>8. Packing(packed, batch)
    <2>1. n \in 0..n /\ SubSeq(batch, 1, n) = batch
      BY <1>1, SubSeqFull
    <2> QED BY <1>7, <2>1
  <1>9. Packets(batch) = IF packed.packet = <<>> THEN packed.done
                         ELSE Append(packed.done, packed.packet)
    BY <1>2 DEF Packets, Unpacked
  <1> HIDE DEF packed
  <1>10. CASE packed.packet = <<>>
    <2>1. FlattenSeq(packed.done) \o <<>> = FlattenSeq(packed.done)
      BY <1>8, FlattenType, ConcatEmptySeq DEF Packing
    <2> QED BY <1>8, <1>9, <1>10, <2>1 DEF Packing
  <1>11. CASE packed.packet # <<>>
    <2>1. packed.done \in Seq(Seq(Nat)) /\ packed.packet \in Seq(Nat)
      BY <1>8 DEF Packing
    <2>2. Append(packed.done, packed.packet) \in Seq(Seq(Nat))
      BY <2>1, AppendProperties
    <2> QED BY <1>8, <1>9, <1>11, <2>1, <2>2, FlattenAppend DEF Packing
  <1> QED BY <1>10, <1>11

-----------------------------------------------------------------------------
(* Each message once                                                       *)

\* The messages of f are in the order of the buffer, and with those that are gone they
\* are all that were put.
Ordered(f) == \A i, j \in DOMAIN f : i < j => f[i] < f[j]

InPlace(f, put, gone) ==
  /\ Ordered(f)
  /\ ToSet(f) \cup gone = 1..put
  /\ ToSet(f) \cap gone = {}

DatagramOnlyWhileSent ==
  batcher.pc \notin {"first", "second", "count"} => batcher.datagram = <<>>

RatesBounded == history.printed + total <= Len(history.left) + Cardinality(history.unsent)

MessageInv ==
  /\ TrafficTypeOK
  /\ InPlace(Flight, history.put, Lost)
  /\ LostOnce
  /\ DatagramOnlyWhileSent
  /\ RatesBounded

LEMMA SetOfSeq ==
  ASSUME NEW s \in Seq(Nat)
  PROVE  /\ ToSet(s) = {s[i] : i \in 1..Len(s)} /\ Len(s) \in Nat
         /\ Ordered(s) <=> \A i, j \in 1..Len(s) : i < j => s[i] < s[j]
  <1>1. DOMAIN s = 1..Len(s) /\ Len(s) \in Nat
    BY LenProperties
  <1> QED BY <1>1 DEF ToSet, Ordered

LEMMA SetOfNumbers ==
  ASSUME NEW s \in Seq(Nat)
  PROVE  ToSet(s) \in SUBSET Nat
  BY SetOfSeq, ElementOfSeq

LEMMA ConcatParts ==
  ASSUME NEW s \in Seq(Nat), NEW t \in Seq(Nat)
  PROVE  /\ s \o t \in Seq(Nat) /\ Len(s \o t) = Len(s) + Len(t)
         /\ Len(s) \in Nat /\ Len(t) \in Nat
         /\ \A i \in 1..Len(s) : (s \o t)[i] = s[i]
         /\ \A i \in 1..Len(t) : (s \o t)[Len(s) + i] = t[i]
  <1> DEFINE k == Len(s)
             n == Len(t)
             f == s \o t
  <1>1. /\ f \in Seq(Nat) /\ Len(f) = k + n /\ k \in Nat /\ n \in Nat
        /\ \A i \in 1..(k + n) : f[i] = IF i <= k THEN s[i] ELSE t[i - k]
    BY ConcatProperties, LenProperties
  <1> HIDE DEF k, n, f
  <1>2. \A i \in 1..k : f[i] = s[i]
    BY <1>1
  <1>3. ASSUME NEW i \in 1..n
        PROVE  f[k + i] = t[i]
    <2>1. k + i \in 1..(k + n) /\ ~(k + i <= k) /\ (k + i) - k = i
      BY <1>1
    <2>2. f[k + i] = t[(k + i) - k]
      BY <1>1, <2>1
    <2> QED BY <2>1, <2>2
  <1> QED BY <1>1, <1>2, <1>3 DEF k, n, f

\* Messages in the middle go: they are in order, and the others stay where they are.
LEMMA DropMiddle ==
  ASSUME NEW p \in Seq(Nat), NEW m \in Seq(Nat), NEW s \in Seq(Nat), NEW put, NEW gone,
         InPlace((p \o m) \o s, put, gone)
  PROVE  /\ InPlace(p \o s, put, gone \cup ToSet(m))
         /\ ToSet(m) \cap gone = {}
         /\ Ordered(m)
  <1> DEFINE f == (p \o m) \o s
             g == p \o s
             k == Len(p)
             l == Len(m)
             n == Len(s)
  <1>1. /\ k \in Nat /\ l \in Nat /\ n \in Nat
        /\ f \in Seq(Nat) /\ Len(f) = (k + l) + n
        /\ g \in Seq(Nat) /\ Len(g) = k + n
    BY ConcatParts
  <1>2. /\ \A i \in 1..k : f[i] = p[i]
        /\ \A i \in 1..l : f[k + i] = m[i]
        /\ \A i \in 1..n : f[(k + l) + i] = s[i]
    <2> DEFINE q == p \o m
    <2>1. /\ q \in Seq(Nat) /\ Len(q) = k + l
          /\ \A i \in 1..k : q[i] = p[i]
          /\ \A i \in 1..l : q[k + i] = m[i]
      BY ConcatParts
    <2> HIDE DEF q
    <2>2. /\ \A i \in 1..(k + l) : (q \o s)[i] = q[i]
          /\ \A i \in 1..n : (q \o s)[(k + l) + i] = s[i]
      BY <2>1, ConcatParts
    <2>3. (\A i \in 1..k : i \in 1..(k + l)) /\ \A i \in 1..l : k + i \in 1..(k + l)
      BY <1>1
    <2>4. f = q \o s
      BY DEF q
    <2> HIDE DEF f, k, l, n
    <2> QED BY <2>1, <2>2, <2>3, <2>4
  <1>3. /\ \A i \in 1..k : g[i] = p[i]
        /\ \A i \in 1..n : g[k + i] = s[i]
    BY ConcatParts
  <1>4. InPlace(f, put, gone)
    OBVIOUS
  <1> HIDE DEF f, g, k, l, n
  <1> DEFINE at(i) == IF i <= k THEN i ELSE i + l
  <1>5. ASSUME NEW i \in 1..Len(g)
        PROVE  at(i) \in 1..Len(f) /\ g[i] = f[at(i)] /\ at(i) \notin (k + 1)..(k + l)
    <2>1. CASE i <= k
      <3>1. /\ i \in 1..k /\ at(i) = i /\ i \in 1..Len(f) /\ i \notin (k + 1)..(k + l)
        BY <1>1, <2>1
      <3>2. f[i] = p[i] /\ g[i] = p[i]
        BY <1>2, <1>3, <3>1
      <3> QED BY <3>1, <3>2
    <2>2. CASE i > k
      <3>1. PICK j \in 1..n : i = k + j
        <4>1. i - k \in 1..n /\ i = k + (i - k)
          BY <1>1, <2>2
        <4> QED BY <4>1
      <3>2. at(i) = (k + l) + j
        BY <1>1, <2>2, <3>1
      <3>3. g[i] = s[j] /\ f[(k + l) + j] = s[j]
        BY <1>2, <1>3, <3>1
      <3>4. (k + l) + j \in 1..Len(f) /\ (k + l) + j \notin (k + 1)..(k + l)
        BY <1>1, <3>1
      <3> QED BY <3>2, <3>3, <3>4
    <2> QED BY <1>1, <2>1, <2>2
  <1>6. ASSUME NEW i \in 1..Len(f)
        PROVE  (\E j \in 1..Len(g) : f[i] = g[j]) \/ (\E j \in 1..l : f[i] = m[j])
    <2>1. CASE i <= k
      <3>1. i \in 1..k /\ i \in 1..Len(g)
        BY <1>1, <2>1
      <3>2. f[i] = g[i]
        BY <1>2, <1>3, <3>1
      <3> QED BY <3>1, <3>2
    <2>2. CASE i > k /\ i <= k + l
      <3>1. i - k \in 1..l /\ i = k + (i - k)
        BY <1>1, <2>2
      <3> QED BY <1>2, <3>1
    <2>3. CASE i > k + l
      <3>1. PICK j \in 1..n : i = (k + l) + j
        <4>1. i - (k + l) \in 1..n /\ i = (k + l) + (i - (k + l))
          BY <1>1, <2>3
        <4> QED BY <4>1
      <3>2. f[i] = s[j] /\ g[k + j] = s[j] /\ k + j \in 1..Len(g)
        BY <1>1, <1>2, <1>3, <3>1
      <3> QED BY <3>2
    <2> QED BY <1>1, <2>1, <2>2, <2>3
  <1>7. /\ \A i, j \in 1..Len(f) : i < j => f[i] < f[j]
        /\ \A i \in 1..Len(f) : f[i] \in Nat
        /\ ToSet(f) \cup gone = 1..put /\ ToSet(f) \cap gone = {}
        /\ ToSet(f) = {f[i] : i \in 1..Len(f)} /\ ToSet(g) = {g[i] : i \in 1..Len(g)}
        /\ ToSet(m) = {m[i] : i \in 1..l}
    BY <1>1, <1>4, SetOfSeq, ElementOfSeq DEF InPlace, l
  <1>8. Ordered(g)
    <2> SUFFICES ASSUME NEW i \in 1..Len(g), NEW j \in 1..Len(g), i < j
                 PROVE  g[i] < g[j]
      BY <1>1, SetOfSeq
    <2>1. at(i) < at(j)
      BY <1>1
    <2> HIDE DEF at
    <2> QED BY <1>5, <1>7, <2>1
  <1>9. Ordered(m)
    <2> SUFFICES ASSUME NEW i \in 1..l, NEW j \in 1..l, i < j
                 PROVE  m[i] < m[j]
      BY SetOfSeq DEF l
    <2>1. k + i \in 1..Len(f) /\ k + j \in 1..Len(f) /\ k + i < k + j
      BY <1>1
    <2>2. f[k + i] < f[k + j]
      BY <1>7, <2>1
    <2> QED BY <1>2, <2>2
  <1>10. ToSet(f) = ToSet(g) \cup ToSet(m)
    <2>1. \A i \in 1..l : m[i] \in ToSet(f)
      <3>1. \A i \in 1..l : k + i \in 1..Len(f) /\ m[i] = f[k + i]
        BY <1>1, <1>2
      <3> QED BY <1>7, <3>1
    <2>2. \A i \in 1..Len(g) : g[i] \in ToSet(f)
      <3> HIDE DEF at
      <3> QED BY <1>5, <1>7
    <2> QED BY <1>6, <1>7, <2>1, <2>2
  <1>11. ToSet(g) \cap ToSet(m) = {}
    <2> SUFFICES ASSUME NEW i \in 1..Len(g), NEW j \in 1..l, g[i] = m[j]
                 PROVE  FALSE
      BY <1>7
    <2>1. /\ at(i) \in 1..Len(f) /\ k + j \in 1..Len(f)
          /\ f[at(i)] = f[k + j] /\ at(i) # k + j
      <3>1. k + j \in 1..Len(f) /\ k + j \in (k + 1)..(k + l)
        BY <1>1
      <3> HIDE DEF at
      <3> QED BY <1>2, <1>5, <3>1
    <2> HIDE DEF at
    <2>2. at(i) < k + j \/ k + j < at(i)
      <3>1. \A x, y \in 1..Len(f) : x # y => x < y \/ y < x
        BY <1>1
      <3> QED BY <2>1, <3>1, Zenon
    <2>3. f[at(i)] < f[k + j] \/ f[k + j] < f[at(i)]
      BY <1>7, <2>1, <2>2
    <2>4. f[at(i)] \in Nat
      BY <1>7, <2>1
    <2> QED BY <2>1, <2>3, <2>4
  <1>12. InPlace(g, put, gone \cup ToSet(m))
    BY <1>7, <1>8, <1>10, <1>11 DEF InPlace
  <1>13. ToSet(m) \cap gone = {}
    BY <1>7, <1>10
  <1> QED BY <1>9, <1>12, <1>13 DEF g

\* Messages in order are as many as there are places.
LEMMA OrderedCount ==
  ASSUME NEW s \in Seq(Nat), Ordered(s)
  PROVE  IsFiniteSet(ToSet(s)) /\ Cardinality(ToSet(s)) = Len(s)
  <1> DEFINE n == Len(s)
  <1>1. /\ n \in Nat /\ DOMAIN s = 1..n /\ ToSet(s) = {s[i] : i \in 1..n}
        /\ \A i, j \in 1..n : i < j => s[i] < s[j]
        /\ \A i \in 1..n : s[i] \in Nat
    BY SetOfSeq, LenProperties, ElementOfSeq
  <1>2. s \in [1..n -> ToSet(s)]
    <2>1. s \in [1..n -> Nat]
      BY LenProperties
    <2> QED BY <1>1, <2>1
  <1> HIDE DEF n
  <1>3. \A i, j \in 1..n : s[i] = s[j] => i = j
    <2> SUFFICES ASSUME NEW i \in 1..n, NEW j \in 1..n, s[i] = s[j], i # j
                 PROVE  FALSE
      OBVIOUS
    <2>1. i < j \/ j < i
      BY <1>1
    <2> QED BY <1>1, <2>1
  <1>4. s \in Bijection(1..n, ToSet(s))
    BY <1>1, <1>2, <1>3 DEF Bijection, Injection, Surjection, IsInjective
  <1>5. IsFiniteSet(1..n) /\ Cardinality(1..n) = n
    BY <1>1, FS_Interval
  <1>6. ExistsBijection(1..n, ToSet(s))
    BY <1>4 DEF ExistsBijection
  <1> QED BY <1>5, <1>6, FS_Bijection DEF n

\* The next message is put behind all that are on their way.
LEMMA PutNext ==
  ASSUME NEW f \in Seq(Nat), NEW put \in Nat, NEW gone, InPlace(f, put, gone)
  PROVE  InPlace(Append(f, put + 1), put + 1, gone)
  <1> DEFINE g == Append(f, put + 1)
             n == Len(f)
  <1>1. /\ n \in Nat /\ g \in Seq(Nat) /\ Len(g) = n + 1
        /\ \A i \in 1..n : g[i] = f[i]
        /\ g[n + 1] = put + 1
    BY AppendProperties, LenProperties
  <1> HIDE DEF g
  <1>2. Ordered(f) /\ ToSet(f) \cup gone = 1..put /\ ToSet(f) \cap gone = {}
    BY DEF InPlace
  <1>3. /\ \A i, j \in 1..n : i < j => f[i] < f[j]
        /\ ToSet(f) = {f[i] : i \in 1..n}
        /\ ToSet(g) = {g[i] : i \in 1..(n + 1)}
    BY <1>1, <1>2, SetOfSeq
  <1>4. \A i \in 1..n : f[i] \in 1..put
    BY <1>2, <1>3
  <1>5. Ordered(g)
    <2> SUFFICES ASSUME NEW i \in 1..(n + 1), NEW j \in 1..(n + 1), i < j
                 PROVE  g[i] < g[j]
      BY <1>1, SetOfSeq
    <2> HIDE DEF n
    <2>0. i \in 1..n
      BY <1>1
    <2>1. g[i] = f[i] /\ f[i] \in 1..put
      BY <1>1, <1>4, <2>0
    <2>2. CASE j = n + 1
      BY <1>1, <2>1, <2>2
    <2>3. CASE j # n + 1
      <3>1. j \in 1..n
        BY <1>1, <2>3
      <3> QED BY <1>1, <1>3, <2>0, <2>1, <3>1
    <2> QED BY <2>2, <2>3
  <1>6. ToSet(g) = ToSet(f) \cup {put + 1}
    <2>1. 1..(n + 1) = (1..n) \cup {n + 1}
      BY <1>1
    <2> HIDE DEF n
    <2> QED BY <1>1, <1>3, <2>1
  <1>7. put + 1 \notin 1..put /\ 1..(put + 1) = (1..put) \cup {put + 1}
    OBVIOUS
  <1>8. InPlace(g, put + 1, gone)
    BY <1>2, <1>5, <1>6, <1>7 DEF InPlace
  <1> QED BY <1>8 DEF g

LEMMA HeadThenTail ==
  ASSUME NEW s \in Seq(Nat), s # <<>>
  PROVE  s = <<Head(s)>> \o Tail(s)
  <1> DEFINE w == <<Head(s)>>
  <1>1. /\ Head(s) \in Nat /\ Tail(s) \in Seq(Nat) /\ Len(Tail(s)) = Len(s) - 1
        /\ \A i \in 1..(Len(s) - 1) : Tail(s)[i] = s[i + 1]
        /\ Len(s) \in Nat \ {0} /\ Head(s) = s[1]
    BY HeadTailProperties, EmptySeq
  <1>2. w \in Seq(Nat) /\ Len(w) = 1 /\ w[1] = s[1]
    BY <1>1
  <1> HIDE DEF w
  <1>3. /\ w \o Tail(s) \in Seq(Nat) /\ Len(w \o Tail(s)) = Len(s)
        /\ \A i \in 1..Len(s) : (w \o Tail(s))[i] = IF i <= 1 THEN w[i] ELSE Tail(s)[i - 1]
    <2> DEFINE t == Tail(s)
    <2>1. t \in Seq(Nat) /\ Len(w) + Len(t) = Len(s)
      BY <1>1, <1>2
    <2> HIDE DEF t
    <2>2. /\ w \o t \in Seq(Nat) /\ Len(w \o t) = Len(w) + Len(t)
          /\ \A i \in 1..(Len(w) + Len(t)) : (w \o t)[i] = IF i <= Len(w) THEN w[i]
                                                           ELSE t[i - Len(w)]
      BY <1>2, <2>1, ConcatProperties
    <2>3. /\ w \o t \in Seq(Nat) /\ Len(w \o t) = Len(s)
          /\ \A i \in 1..Len(s) : (w \o t)[i] = IF i <= 1 THEN w[i] ELSE t[i - 1]
      BY <1>2, <2>1, <2>2
    <2> QED BY <2>3 DEF t
  <1>4. ASSUME NEW i \in 1..Len(s)
        PROVE  (w \o Tail(s))[i] = s[i]
    <2>1. CASE i = 1
      BY <1>2, <1>3, <2>1
    <2>2. CASE i # 1
      <3>1. i - 1 \in 1..(Len(s) - 1) /\ ~(i <= 1) /\ i - 1 + 1 = i
        BY <1>1, <2>2
      <3> QED BY <1>1, <1>3, <3>1
    <2> QED BY <2>1, <2>2
  <1>5. w \o Tail(s) = s
    BY <1>3, <1>4, SeqEqual
  <1> QED BY <1>5 DEF w

\* The oldest message of the buffer goes.
LEMMA DropHead ==
  ASSUME NEW p \in Seq(Nat), NEW b \in Seq(Nat), b # <<>>, NEW put, NEW gone,
         InPlace(p \o b, put, gone)
  PROVE  InPlace(p \o Tail(b), put, gone \cup {Head(b)}) /\ Head(b) \notin gone
  <1> DEFINE w == <<Head(b)>>
             r == Tail(b)
  <1>1. Head(b) \in Nat /\ r \in Seq(Nat)
    BY HeadTailProperties
  <1>2. w \in Seq(Nat) /\ ToSet(w) = {Head(b)}
    BY <1>1 DEF ToSet
  <1>3. b = w \o r
    BY HeadThenTail
  <1> HIDE DEF w, r
  <1>4. p \o b = (p \o w) \o r
    BY <1>1, <1>2, <1>3, MessagesAssociate
  <1>5. InPlace((p \o w) \o r, put, gone)
    BY <1>4
  <1>6. InPlace(p \o r, put, gone \cup ToSet(w)) /\ ToSet(w) \cap gone = {}
    BY <1>1, <1>2, <1>5, DropMiddle
  <1> QED BY <1>2, <1>6 DEF r

HistoryRecord ==
  [put : Nat, removed : SUBSET Nat, stale : SUBSET Nat, died : SUBSET Nat,
   unsent : SUBSET Nat, left : Seq(Nat), printed : Nat]

LEMMA MessagesInitial == TrafficInit => MessageInv
  <1> SUFFICES ASSUME TrafficInit
               PROVE  MessageInv
    OBVIOUS
  <1>1. TrafficTypeOK
    BY TrafficAssumption DEF TrafficInit, TrafficTypeOK, TrafficAssumption
  <1>2. Flight = <<>>
    <2>1. FlattenSeq(packets_1) = <<>>
      BY FlattenEmpty DEF TrafficInit
    <2>2. <<>> \in Seq(Nat) /\ <<>> \o <<>> = <<>>
      BY ConcatEmptySeq
    <2> QED BY <2>1, <2>2 DEF TrafficInit, Flight
  <1>3. InPlace(<<>>, 0, {})
    BY DEF InPlace, Ordered, ToSet
  <1>4. history.put = 0 /\ Lost = {} /\ LostOnce
    BY DEF TrafficInit, Lost, LostOnce
  <1>5. DatagramOnlyWhileSent /\ RatesBounded
    BY EmptySeq, FS_EmptySet DEF TrafficInit, DatagramOnlyWhileSent, RatesBounded
  <1> QED BY <1>1, <1>2, <1>3, <1>4, <1>5 DEF MessageInv

\* What is on its way before the buffer.
Ahead == history.left \o batcher.datagram \o FlattenSeq(packets_1) \o batcher.batch

LEMMA FlightParts ==
  ASSUME TrafficTypeOK
  PROVE  /\ FlattenSeq(packets_1) \in Seq(Nat)
         /\ history.left \o batcher.datagram \in Seq(Nat)
         /\ history.left \o batcher.datagram \o FlattenSeq(packets_1) \in Seq(Nat)
         /\ Ahead \in Seq(Nat) /\ Flight = Ahead \o buffer /\ Flight \in Seq(Nat)
  <1>1. /\ FlattenSeq(packets_1) \in Seq(Nat) /\ history.left \in Seq(Nat)
        /\ batcher.datagram \in Seq(Nat) /\ batcher.batch \in Seq(Nat) /\ buffer \in Seq(Nat)
    BY FlattenType DEF TrafficTypeOK
  <1>2. history.left \o batcher.datagram \in Seq(Nat)
    BY <1>1, ConcatProperties
  <1>3. history.left \o batcher.datagram \o FlattenSeq(packets_1) \in Seq(Nat)
    BY <1>1, <1>2, ConcatProperties
  <1>4. Ahead \in Seq(Nat)
    BY <1>1, <1>3, ConcatProperties DEF Ahead
  <1>5. Flight = Ahead \o buffer
    BY DEF Ahead, Flight
  <1>6. Flight \in Seq(Nat)
    BY <1>1, <1>4, <1>5, ConcatProperties
  <1> QED BY <1>1, <1>2, <1>3, <1>4, <1>5, <1>6

\* A device takes the oldest message out of the buffer, or puts the next one in.
LEMMA DeviceKeepsMessages ==
  ASSUME MessageInv, NEW d \in Device, generate_messages(d)
  PROVE  MessageInv'
  <1>0. TrafficTypeOK /\ UNCHANGED <<batcher, packets_1, total>>
    BY DEF MessageInv, generate_messages, CheckLength, RemoveOldest, NothingToRemove, Put
  <1>1. CASE CheckLength(d) \/ NothingToRemove(d)
    <2>1. UNCHANGED <<buffer, batcher, packets_1, total, history>>
      BY <1>1 DEF CheckLength, NothingToRemove
    <2>2. TrafficTypeOK'
      BY <1>0, <1>1, <2>1 DEF TrafficTypeOK, CheckLength, NothingToRemove
    <2> QED BY <2>1, <2>2 DEF MessageInv, Flight, Lost, LostOnce, DatagramOnlyWhileSent,
               RatesBounded
  <1>2. CASE RemoveOldest(d)
    <2>1. /\ buffer # <<>> /\ buffer' = Tail(buffer) /\ buffer \in Seq(Nat)
          /\ Tail(buffer) \in Seq(Nat) /\ Head(buffer) \in Nat
      BY <1>0, <1>2, HeadTailProperties DEF RemoveOldest, TrafficTypeOK
    <2>2. InPlace(Ahead \o Tail(buffer), history.put, Lost \cup {Head(buffer)})
          /\ Head(buffer) \notin Lost
      <3>1. Ahead \in Seq(Nat) /\ InPlace(Ahead \o buffer, history.put, Lost)
        BY <1>0, FlightParts DEF MessageInv
      <3> QED BY <2>1, <3>1, DropHead
    <2>3. /\ history' \in HistoryRecord
          /\ history'.put = history.put /\ history'.left = history.left
          /\ history'.unsent = history.unsent /\ history'.printed = history.printed
          /\ Lost' = Lost \cup {Head(buffer)} /\ LostOnce'
      <3>0. LostOnce /\ Head(buffer) \notin history.removed /\ Head(buffer) \notin history.stale
            /\ Head(buffer) \notin history.died /\ Head(buffer) \notin history.unsent
        BY <2>2 DEF MessageInv, Lost
      <3>1. CASE Len(buffer) >= buffer_size
        <4>1. history' = [history EXCEPT !.removed = history.removed \cup {Head(buffer)}]
          BY <1>2, <3>1 DEF RemoveOldest
        <4>2. history \in HistoryRecord
          BY <1>0 DEF TrafficTypeOK, HistoryRecord
        <4>3. history' \in HistoryRecord
          BY <2>1, <4>1, <4>2 DEF HistoryRecord
        <4>4. /\ history'.removed = history.removed \cup {Head(buffer)} /\ history'.stale = history.stale
              /\ history'.died = history.died /\ history'.unsent = history.unsent
              /\ history'.put = history.put /\ history'.left = history.left
              /\ history'.printed = history.printed
          BY <4>1, <4>2 DEF HistoryRecord
        <4> QED BY <3>0, <4>3, <4>4 DEF Lost, LostOnce
      <3>2. CASE ~(Len(buffer) >= buffer_size)
        <4>1. history' = [history EXCEPT !.stale = history.stale \cup {Head(buffer)}]
          BY <1>2, <3>2 DEF RemoveOldest
        <4>2. history \in HistoryRecord
          BY <1>0 DEF TrafficTypeOK, HistoryRecord
        <4>3. history' \in HistoryRecord
          BY <2>1, <4>1, <4>2 DEF HistoryRecord
        <4>4. /\ history'.stale = history.stale \cup {Head(buffer)} /\ history'.removed = history.removed
              /\ history'.died = history.died /\ history'.unsent = history.unsent
              /\ history'.put = history.put /\ history'.left = history.left
              /\ history'.printed = history.printed
          BY <4>1, <4>2 DEF HistoryRecord
        <4> QED BY <3>0, <4>3, <4>4 DEF Lost, LostOnce
      <3> QED BY <3>1, <3>2
    <2>4. TrafficTypeOK'
      BY <1>0, <1>2, <2>1, <2>3 DEF TrafficTypeOK, HistoryRecord, RemoveOldest
    <2>5. Flight' = Ahead \o Tail(buffer)
      BY <1>0, <2>1, <2>3 DEF Flight, Ahead
    <2>6. (InPlace(Flight, history.put, Lost))'
      BY <2>2, <2>3, <2>5
    <2> QED BY <1>0, <2>3, <2>4, <2>6 DEF MessageInv, DatagramOnlyWhileSent, RatesBounded
  <1>3. CASE Put(d)
    <2>1. /\ buffer' = Append(buffer, history.put + 1) /\ buffer \in Seq(Nat)
          /\ history.put \in Nat /\ buffer' \in Seq(Nat)
      BY <1>0, <1>3, AppendProperties DEF Put, TrafficTypeOK
    <2>2. /\ history' \in HistoryRecord
          /\ history'.put = history.put + 1 /\ history'.left = history.left
          /\ history'.unsent = history.unsent /\ history'.printed = history.printed
          /\ Lost' = Lost /\ LostOnce'
      <3>1. /\ history' = [history EXCEPT !.put = history.put + 1]
            /\ history \in HistoryRecord /\ LostOnce
        BY <1>0, <1>3 DEF Put, MessageInv, TrafficTypeOK, HistoryRecord
      <3>2. history.put + 1 \in Nat
        BY <2>1
      <3> QED BY <3>1, <3>2 DEF Lost, LostOnce, HistoryRecord
    <2>3. TrafficTypeOK'
      BY <1>0, <1>3, <2>1, <2>2 DEF TrafficTypeOK, HistoryRecord, Put
    <2>4. Flight' = Append(Flight, history.put + 1) /\ Flight \in Seq(Nat)
      <3> DEFINE next == history.put + 1
                 w == <<next>>
      <3>0. next \in Nat /\ buffer' = Append(buffer, next)
        BY <2>1
      <3> HIDE DEF next
      <3>1. w \in Seq(Nat) /\ buffer' = buffer \o w
        BY <2>1, <3>0, AppendIsConcat
      <3>2. /\ Flight' = Ahead \o buffer' /\ Flight = Ahead \o buffer
            /\ Flight \in Seq(Nat) /\ Ahead \in Seq(Nat)
        BY <1>0, <2>1, <2>2, FlightParts DEF Flight, Ahead
      <3>3. Append(Flight, next) = Flight \o w
        BY <3>0, <3>2, AppendIsConcat
      <3> HIDE DEF w
      <3>4. (Ahead \o buffer) \o w = Ahead \o (buffer \o w)
        BY <2>1, <3>1, <3>2, MessagesAssociate
      <3>5. Flight' = Append(Flight, next)
        BY <3>1, <3>2, <3>3, <3>4
      <3> QED BY <3>2, <3>5 DEF next
    <2>5. InPlace(Flight', history.put + 1, Lost)
      BY <2>1, <2>4, PutNext DEF MessageInv
    <2>6. (InPlace(Flight, history.put, Lost))'
      BY <2>2, <2>5
    <2> QED BY <1>0, <2>2, <2>3, <2>6 DEF MessageInv, DatagramOnlyWhileSent, RatesBounded
  <1> QED BY <1>1, <1>2, <1>3 DEF generate_messages

\* Packets that are cut in two make up what they were.
LEMMA CutPackets ==
  ASSUME NEW s \in Seq(Seq(Nat)), NEW n \in 1..Len(s)
  PROVE  SubSeq(s, 1, n) \o SubSeq(s, n + 1, Len(s)) = s
  <1> DEFINE k == Len(s)
  <1>1. k \in Nat /\ SubSeq(s, 1, k) = s
    BY LenProperties, SubSeqFull
  <1>2. 1 \in 1..(Len(s) + 1) /\ n \in (1 - 1)..Len(s) /\ k \in n..Len(s)
    BY <1>1
  <1> HIDE DEF k
  <1>3. SubSeq(s, 1, n) \o SubSeq(s, n + 1, k) = SubSeq(s, 1, k)
    BY <1>2, ConcatAdjacentSubSeq
  <1> QED BY <1>1, <1>3, Zenon DEF k

\* A datagram takes packets from the front.
LEMMA DatagramFacts ==
  ASSUME TrafficTypeOK, TakeDatagram
  PROVE  /\ batcher' = [batcher EXCEPT !.pc = "first", !.datagram = batcher'.datagram]
         /\ batcher'.datagram \in Seq(Nat)
         /\ packets_1' \in Seq(Seq(Nat))
         /\ FlattenSeq(packets_1) = batcher'.datagram \o FlattenSeq(packets_1')
  <1> DEFINE n == IF Len(packets_1) < DatagramPackets THEN Len(packets_1) ELSE DatagramPackets
             front == SubSeq(packets_1, 1, n)
             rest == SubSeq(packets_1, n + 1, Len(packets_1))
  <1>1. packets_1 \in Seq(Seq(Nat)) /\ packets_1 # <<>> /\ Len(packets_1) \in Nat \ {0}
    BY EmptySeq DEF TrafficTypeOK, TakeDatagram
  <1>2. n \in 1..Len(packets_1)
    BY <1>1, TrafficAssumption DEF TrafficAssumption
  <1>3. /\ batcher' = [batcher EXCEPT !.pc = "first", !.datagram = FlattenSeq(front)]
        /\ packets_1' = rest
    BY DEF TakeDatagram
  <1> HIDE DEF n
  <1>4. \A i \in 1..Len(packets_1) : packets_1[i] \in Seq(Nat)
    BY <1>1, ElementOfSeq
  <1>5. front \in Seq(Seq(Nat))
    <2>1. \A i \in 1..n : packets_1[i] \in Seq(Nat)
      BY <1>1, <1>2, <1>4
    <2> QED BY <1>2, <2>1, SubSeqProperties
  <1>6. rest \in Seq(Seq(Nat))
    <2>1. \A i \in (n + 1)..Len(packets_1) : packets_1[i] \in Seq(Nat)
      BY <1>1, <1>2, <1>4
    <2> QED BY <1>1, <1>2, <2>1, SubSeqProperties
  <1>7. front \o rest = packets_1
    BY <1>1, <1>2, CutPackets
  <1> HIDE DEF front, rest
  <1>8. FlattenSeq(packets_1) = FlattenSeq(front) \o FlattenSeq(rest)
    BY <1>5, <1>6, <1>7, FlattenConcat
  <1>9. batcher'.datagram = FlattenSeq(front) /\ FlattenSeq(front) \in Seq(Nat)
    BY <1>3, <1>5, FlattenType DEF TrafficTypeOK
  <1> QED BY <1>3, <1>6, <1>8, <1>9

BatcherRecord ==
  [pc : {"check", "measure", "take", "datagram", "first", "second", "count", "report", "dead"},
   want : 0..data_batch_size, batch : Seq(Nat), datagram : Seq(Nat), sent : BOOLEAN]

LEMMA RecordChanges ==
  ASSUME NEW b \in BatcherRecord
  PROVE  /\ \A sent \in BOOLEAN : [b EXCEPT !.pc = "second", !.sent = sent] \in BatcherRecord
         /\ \A sent \in BOOLEAN : [b EXCEPT !.pc = "count", !.sent = b.sent \/ sent] \in BatcherRecord
         /\ [b EXCEPT !.pc = "check", !.batch = <<>>] \in BatcherRecord
         /\ [b EXCEPT !.pc = "dead", !.batch = <<>>] \in BatcherRecord
         /\ [b EXCEPT !.pc = "report", !.datagram = <<>>, !.sent = FALSE] \in BatcherRecord
  <1>1. <<>> \in Seq(Nat)
    BY EmptySeq
  <1> QED BY <1>1 DEF BatcherRecord

\* The batching thread keeps the types.
LEMMA BatcherType ==
  ASSUME MessageInv, batch_and_send_1
  PROVE  TrafficTypeOK'
  <1> USE TrafficAssumption DEF MessageInv, TrafficTypeOK, deviceVars, TrafficAssumption
  <1>1. CASE BeginBatch
    BY <1>1 DEF BeginBatch
  <1>2. CASE Measure
    <2> DEFINE want == IF Len(buffer) < data_batch_size THEN Len(buffer) ELSE data_batch_size
    <2>1. want \in 0..data_batch_size
      OBVIOUS
    <2>2. batcher' = [batcher EXCEPT !.pc = "take", !.want = want]
      BY <1>2 DEF Measure
    <2> HIDE DEF want
    <2> QED BY <1>2, <2>1, <2>2 DEF Measure
  <1>3. CASE TakeMessage
    <2>1. /\ Tail(buffer) \in Seq(Nat) /\ Head(buffer) \in Nat
          /\ Append(batcher.batch, Head(buffer)) \in Seq(Nat)
      BY <1>3, HeadTailProperties, AppendProperties DEF TakeMessage
    <2>2. batcher.want - 1 \in 0..data_batch_size
      BY <1>3 DEF TakeMessage
    <2>3. batcher' = [batcher EXCEPT !.want = batcher.want - 1,
                                     !.batch = Append(batcher.batch, Head(buffer))]
      BY <1>3 DEF TakeMessage
    <2> QED BY <1>3, <2>1, <2>2, <2>3 DEF TakeMessage
  <1>4. CASE NothingToTake
    <2>1. /\ UNCHANGED <<buffer, device, packets_1, total>>
          /\ batcher' = [batcher EXCEPT !.pc = "dead", !.batch = <<>>]
          /\ history' = [history EXCEPT !.died = history.died \cup ToSet(batcher.batch)]
      BY <1>4 DEF NothingToTake
    <2>2. batcher \in BatcherRecord
      BY DEF BatcherRecord
    <2>3. batcher' \in BatcherRecord
      BY <2>1, <2>2, RecordChanges, Zenon
    <2>4. ToSet(batcher.batch) \in SUBSET Nat
      BY SetOfNumbers
    <2>5. history' \in HistoryRecord
      BY <2>1, <2>4 DEF HistoryRecord
    <2> QED BY <2>1, <2>3, <2>5 DEF BatcherRecord, HistoryRecord
  <1>5. CASE SplitBatch
    <2>1. Packets(batcher.batch) \in Seq(Seq(Nat))
      BY PacketsHoldBatch
    <2>2. packets_1' \in Seq(Seq(Nat))
      BY <1>5, <2>1, ConcatProperties DEF SplitBatch
    <2>3. batcher' = [batcher EXCEPT !.pc = "check", !.batch = <<>>] /\ <<>> \in Seq(Nat)
      BY <1>5, EmptySeq DEF SplitBatch
    <2>4. batcher' \in BatcherRecord
      <3>1. batcher \in BatcherRecord
        BY DEF BatcherRecord
      <3> QED BY <2>3, <3>1, RecordChanges, Zenon
    <2>5. UNCHANGED <<buffer, device, total, history>>
      BY <1>5 DEF SplitBatch
    <2> QED BY <2>2, <2>4, <2>5 DEF BatcherRecord
  <1>6. CASE BeginSending
    BY <1>6 DEF BeginSending
  <1>7. CASE TakeDatagram
    BY <1>7, DatagramFacts DEF TakeDatagram
  <1>8. CASE SendFirst \/ SendSecond
    <2>1. UNCHANGED <<buffer, device, packets_1, total, history>>
      BY <1>8 DEF SendFirst, SendSecond
    <2>2. batcher \in BatcherRecord
      BY DEF BatcherRecord
    <2>3. batcher' \in BatcherRecord
      <3>1. CASE SendFirst
        <4>1. PICK sent \in BOOLEAN : batcher' = [batcher EXCEPT !.pc = "second", !.sent = sent]
          BY <3>1 DEF SendFirst
        <4> QED BY <2>2, <4>1, RecordChanges, Zenon
      <3>2. CASE SendSecond
        <4>1. PICK sent \in BOOLEAN :
                batcher' = [batcher EXCEPT !.pc = "count", !.sent = batcher.sent \/ sent]
          BY <3>2 DEF SendSecond
        <4> QED BY <2>2, <4>1, RecordChanges, Zenon
      <3> QED BY <1>8, <3>1, <3>2
    <2> QED BY <2>1, <2>3 DEF BatcherRecord
  <1>9. CASE CountDatagram
    <2>1. total + Len(batcher.datagram) \in Nat /\ history.left \o batcher.datagram \in Seq(Nat)
      BY LenProperties, ConcatProperties
    <2>2. ToSet(batcher.datagram) \in SUBSET Nat
      BY SetOfNumbers
    <2>3. history' \in HistoryRecord
      <3>1. CASE batcher.sent
        <4>1. history' = [history EXCEPT !.left = history.left \o batcher.datagram]
          BY <1>9, <3>1 DEF CountDatagram
        <4> QED BY <2>1, <4>1 DEF HistoryRecord
      <3>2. CASE ~batcher.sent
        <4>1. history' = [history EXCEPT !.unsent = history.unsent \cup ToSet(batcher.datagram)]
          BY <1>9, <3>2 DEF CountDatagram
        <4> QED BY <2>2, <4>1 DEF HistoryRecord
      <3> QED BY <3>1, <3>2
    <2>4. batcher' \in BatcherRecord
      <3>1. batcher \in BatcherRecord
        BY DEF BatcherRecord
      <3>2. batcher' = [batcher EXCEPT !.pc = "report", !.datagram = <<>>, !.sent = FALSE]
        BY <1>9 DEF CountDatagram
      <3> QED BY <3>1, <3>2, RecordChanges, Zenon
    <2>5. UNCHANGED <<buffer, device, packets_1>> /\ total' = total + Len(batcher.datagram)
      BY <1>9 DEF CountDatagram
    <2> QED BY <2>1, <2>3, <2>4, <2>5 DEF BatcherRecord, HistoryRecord
  <1>10. CASE PrintRate
    <2>1. history.printed + total \in Nat
      OBVIOUS
    <2>2. history' = [history EXCEPT !.printed = history.printed + total]
      BY <1>10 DEF PrintRate
    <2>3. history' \in HistoryRecord
      BY <2>1, <2>2 DEF HistoryRecord
    <2> QED BY <1>10, <2>3 DEF PrintRate, HistoryRecord
  <1>11. CASE NotDue
    BY <1>11 DEF NotDue
  <1>12. CASE EndSending
    BY <1>12 DEF EndSending
  <1> QED BY <1>1, <1>2, <1>3, <1>4, <1>5, <1>6, <1>7, <1>8, <1>9, <1>10, <1>11, <1>12
          DEF batch_and_send_1, send_packets

\* Nothing that the batching thread moves is lost, doubled or overtaken, as long as it
\* does not die and one of the sends succeeds.
LEMMA BatcherMoves ==
  ASSUME MessageInv, batch_and_send_1, ~NothingToTake, CountDatagram => batcher.sent
  PROVE  Flight' = Flight /\ history'.put = history.put /\ Lost' = Lost /\ LostOnce'
  <1> DEFINE L == history.left
             D == batcher.datagram
             F == FlattenSeq(packets_1)
             B == batcher.batch
  <1>0. /\ TrafficTypeOK
        /\ L \in Seq(Nat) /\ D \in Seq(Nat) /\ F \in Seq(Nat) /\ B \in Seq(Nat)
        /\ buffer \in Seq(Nat) /\ packets_1 \in Seq(Seq(Nat))
        /\ L \o D \in Seq(Nat) /\ (L \o D) \o F \in Seq(Nat)
        /\ ((L \o D) \o F) \o B \in Seq(Nat)
        /\ Flight = (((L \o D) \o F) \o B) \o buffer
    BY FlightParts DEF MessageInv, TrafficTypeOK, Flight, Ahead
  <1> HIDE DEF L, D, F, B
  <1>1. history'.put = history.put /\ Lost' = Lost /\ LostOnce'
    <2>0. LostOnce
      BY DEF MessageInv
    <2>1. CASE UNCHANGED history
      BY <2>0, <2>1 DEF Lost, LostOnce
    <2>2. CASE CountDatagram
      <3>1. history' = [history EXCEPT !.left = L \o D]
        BY <2>2 DEF CountDatagram, L, D
      <3> QED BY <1>0, <2>0, <3>1 DEF TrafficTypeOK, Lost, LostOnce
    <2>3. CASE PrintRate
      BY <1>0, <2>0, <2>3 DEF TrafficTypeOK, PrintRate, Lost, LostOnce
    <2> QED BY <2>1, <2>2, <2>3 DEF batch_and_send_1, send_packets, BeginBatch, Measure,
               TakeMessage, SplitBatch, BeginSending, TakeDatagram, SendFirst, SendSecond, NotDue,
               EndSending
  <1>2. CASE \/ BeginBatch \/ Measure \/ BeginSending
             \/ SendFirst \/ SendSecond \/ PrintRate \/ NotDue \/ EndSending
    <2>1. /\ buffer' = buffer /\ packets_1' = packets_1
          /\ batcher'.batch = batcher.batch /\ batcher'.datagram = batcher.datagram
      BY <1>0, <1>2 DEF TrafficTypeOK, BeginBatch, Measure, BeginSending, SendFirst,
         SendSecond, PrintRate, NotDue, EndSending, deviceVars
    <2>2. history'.left = history.left
      BY <1>0, <1>2 DEF TrafficTypeOK, BeginBatch, Measure, BeginSending, SendFirst,
         SendSecond, PrintRate, NotDue, EndSending
    <2> QED BY <1>1, <2>1, <2>2 DEF Flight
  <1>3. CASE TakeMessage
    <2> DEFINE w == <<Head(buffer)>>
               P == (L \o D) \o F
    <2>1. /\ buffer # <<>> /\ buffer' = Tail(buffer) /\ batcher'.datagram = batcher.datagram
          /\ batcher'.batch = Append(batcher.batch, Head(buffer))
          /\ packets_1' = packets_1 /\ history' = history
      BY <1>0, <1>3 DEF TakeMessage, TrafficTypeOK
    <2>2. Tail(buffer) \in Seq(Nat) /\ Head(buffer) \in Nat
      BY <1>0, <2>1, HeadTailProperties
    <2>3. w \in Seq(Nat) /\ Append(B, Head(buffer)) = B \o w
      BY <1>0, <2>2, AppendIsConcat
    <2>4. buffer = w \o Tail(buffer)
      BY <1>0, <2>1, HeadThenTail
    <2>5. Flight' = (P \o (B \o w)) \o Tail(buffer)
      BY <2>1, <2>3 DEF Flight, L, D, F, B
    <2>6. Flight = (P \o B) \o (w \o Tail(buffer)) /\ P \in Seq(Nat) /\ P \o B \in Seq(Nat)
      BY <1>0, <2>4
    <2> HIDE DEF w, P
    <2>7. P \o (B \o w) = (P \o B) \o w
      <3>1. P \in Seq(Nat) /\ B \in Seq(Nat) /\ w \in Seq(Nat)
        BY <1>0, <2>3, <2>6
      <3> QED BY <3>1, MessagesAssociate
    <2>8. ((P \o B) \o w) \o Tail(buffer) = (P \o B) \o (w \o Tail(buffer))
      BY <2>2, <2>3, <2>6, MessagesAssociate
    <2> QED BY <1>1, <2>5, <2>6, <2>7, <2>8
  <1>4. CASE SplitBatch
    <2> DEFINE P == L \o D
    <2>1. /\ buffer' = buffer /\ batcher'.datagram = batcher.datagram /\ batcher'.batch = <<>>
          /\ packets_1' = packets_1 \o Packets(batcher.batch) /\ history' = history
      BY <1>0, <1>4 DEF SplitBatch, TrafficTypeOK, deviceVars
    <2>2. FlattenSeq(packets_1') = F \o B
      <3> DEFINE Q == Packets(batcher.batch)
      <3>1. Q \in Seq(Seq(Nat)) /\ FlattenSeq(Q) = B
        BY <1>0, PacketsHoldBatch DEF B
      <3>2. packets_1' = packets_1 \o Q /\ packets_1 \in Seq(Seq(Nat))
        BY <1>0, <2>1
      <3> HIDE DEF Q
      <3> QED BY <3>1, <3>2, FlattenConcat DEF F
    <2>3. Flight' = ((P \o (F \o B)) \o <<>>) \o buffer
      BY <2>1, <2>2 DEF Flight, L, D
    <2>4. P \o (F \o B) = (P \o F) \o B
      <3> HIDE DEF P
      <3>1. P \in Seq(Nat) /\ F \in Seq(Nat) /\ B \in Seq(Nat)
        BY <1>0 DEF P
      <3> QED BY <3>1, MessagesAssociate
    <2>5. ((P \o F) \o B) \o <<>> = (P \o F) \o B
      BY <1>0, ConcatEmptySeq
    <2> QED BY <1>0, <1>1, <2>3, <2>4, <2>5
  <1>5. CASE TakeDatagram
    <2> DEFINE G == FlattenSeq(packets_1')
               E == batcher'.datagram
    <2>1. /\ buffer' = buffer /\ batcher'.batch = batcher.batch /\ history' = history
          /\ batcher.pc = "datagram"
      BY <1>0, <1>5 DEF TakeDatagram, TrafficTypeOK, deviceVars
    <2>2. F = E \o G /\ E \in Seq(Nat) /\ G \in Seq(Nat)
      BY <1>0, <1>5, DatagramFacts, FlattenType DEF F
    <2>3. D = <<>>
      BY <2>1 DEF D, MessageInv, DatagramOnlyWhileSent
    <2>4. Flight' = (((L \o E) \o G) \o B) \o buffer
      BY <2>1 DEF Flight, L, B
    <2>5. L \o D = L
      BY <1>0, <2>3, ConcatEmptySeq
    <2>6. (L \o E) \o G = L \o F
      <3> HIDE DEF E, G
      <3>1. L \in Seq(Nat) /\ E \in Seq(Nat) /\ G \in Seq(Nat) /\ F = E \o G
        BY <1>0, <2>2
      <3> QED BY <3>1, MessagesAssociate
    <2> QED BY <1>0, <1>1, <2>4, <2>5, <2>6
  <1>6. CASE CountDatagram
    <2>1. /\ buffer' = buffer /\ batcher'.datagram = <<>> /\ batcher'.batch = batcher.batch
          /\ packets_1' = packets_1 /\ history'.left = L \o D
      BY <1>0, <1>6 DEF CountDatagram, TrafficTypeOK, deviceVars, L, D
    <2>2. Flight' = ((((L \o D) \o <<>>) \o F) \o B) \o buffer
      BY <2>1 DEF Flight, F, B
    <2>3. (L \o D) \o <<>> = L \o D
      BY <1>0, ConcatEmptySeq
    <2> QED BY <1>0, <1>1, <2>2, <2>3
  <1> QED BY <1>2, <1>3, <1>4, <1>5, <1>6 DEF batch_and_send_1, send_packets

\* A thread that dies takes its batch with it.
LEMMA BatchDies ==
  ASSUME MessageInv, NothingToTake
  PROVE  InPlace(Flight, history.put, Lost)' /\ LostOnce'
  <1> DEFINE P == history.left \o batcher.datagram \o FlattenSeq(packets_1)
             B == batcher.batch
  <1>0. /\ TrafficTypeOK /\ LostOnce /\ P \in Seq(Nat) /\ B \in Seq(Nat) /\ buffer \in Seq(Nat)
        /\ Flight = (P \o B) \o buffer /\ InPlace(Flight, history.put, Lost)
    BY FlightParts DEF MessageInv, TrafficTypeOK, Flight
  <1>1. /\ UNCHANGED <<buffer, packets_1>>
        /\ batcher'.datagram = batcher.datagram /\ batcher'.batch = <<>>
        /\ history' = [history EXCEPT !.died = history.died \cup ToSet(B)]
    BY <1>0 DEF NothingToTake, TrafficTypeOK, deviceVars
  <1>2. /\ history'.left = history.left /\ history'.put = history.put
        /\ Lost' = Lost \cup ToSet(B)
    BY <1>0, <1>1 DEF TrafficTypeOK, Lost
  <1>3. Flight' = (P \o <<>>) \o buffer
    BY <1>1, <1>2 DEF Flight
  <1> HIDE DEF P, B
  <1>4. P \o <<>> = P
    BY <1>0, ConcatEmptySeq
  <1>5. InPlace(P \o buffer, history.put, Lost \cup ToSet(B)) /\ ToSet(B) \cap Lost = {}
    <2>1. InPlace((P \o B) \o buffer, history.put, Lost)
      BY <1>0
    <2> QED BY <1>0, <2>1, DropMiddle
  <1>6. LostOnce'
    BY <1>0, <1>1, <1>5 DEF TrafficTypeOK, Lost, LostOnce
  <1> QED BY <1>2, <1>3, <1>4, <1>5, <1>6

\* A datagram of which both sends failed is lost: its messages were not lost before, and
\* they are as many as are counted.
LEMMA DatagramLost ==
  ASSUME MessageInv, CountDatagram, ~batcher.sent
  PROVE  /\ InPlace(Flight, history.put, Lost)' /\ LostOnce'
         /\ IsFiniteSet(ToSet(batcher.datagram)) /\ ToSet(batcher.datagram) \cap Lost = {}
         /\ Cardinality(ToSet(batcher.datagram)) = Len(batcher.datagram)
  <1> DEFINE L == history.left
             D == batcher.datagram
             F == FlattenSeq(packets_1)
             B == batcher.batch
             R == (F \o B) \o buffer
  <1>0. /\ TrafficTypeOK /\ LostOnce /\ InPlace(Flight, history.put, Lost)
        /\ L \in Seq(Nat) /\ D \in Seq(Nat) /\ F \in Seq(Nat) /\ B \in Seq(Nat)
        /\ buffer \in Seq(Nat)
        /\ Flight = (((L \o D) \o F) \o B) \o buffer
    BY FlightParts DEF MessageInv, TrafficTypeOK, Flight
  <1>1. /\ UNCHANGED <<buffer, packets_1>>
        /\ batcher'.batch = B /\ batcher'.datagram = <<>>
        /\ history' = [history EXCEPT !.unsent = history.unsent \cup ToSet(D)]
    BY <1>0 DEF CountDatagram, TrafficTypeOK, deviceVars
  <1>2. history'.left = L /\ history'.put = history.put /\ Lost' = Lost \cup ToSet(D)
    BY <1>0, <1>1 DEF TrafficTypeOK, Lost
  <1>3. Flight' = (((L \o <<>>) \o F) \o B) \o buffer
    BY <1>1, <1>2 DEF Flight
  <1> HIDE DEF L, D, F, B
  <1>4. L \o <<>> = L
    BY <1>0, ConcatEmptySeq
  <1>5. R \in Seq(Nat) /\ \A s \in Seq(Nat) : ((s \o F) \o B) \o buffer = s \o R
    <2>1. F \o B \in Seq(Nat) /\ R \in Seq(Nat)
      BY <1>0, ConcatProperties
    <2>2. ASSUME NEW s \in Seq(Nat)
          PROVE  ((s \o F) \o B) \o buffer = s \o R
      <3>1. (s \o F) \o B = s \o (F \o B)
        BY <1>0, MessagesAssociate
      <3>2. (s \o (F \o B)) \o buffer = s \o ((F \o B) \o buffer)
        BY <1>0, <2>1, MessagesAssociate
      <3> QED BY <3>1, <3>2
    <2> QED BY <2>1, <2>2
  <1>6. Flight = (L \o D) \o R /\ Flight' = L \o R
    <2>1. L \o D \in Seq(Nat)
      BY <1>0, ConcatProperties
    <2> HIDE DEF R
    <2> QED BY <1>0, <1>3, <1>4, <1>5, <2>1
  <1> HIDE DEF R
  <1>7. /\ InPlace(L \o R, history.put, Lost \cup ToSet(D))
        /\ ToSet(D) \cap Lost = {} /\ Ordered(D)
    <2>1. InPlace((L \o D) \o R, history.put, Lost)
      BY <1>0, <1>6
    <2> QED BY <1>0, <1>5, <2>1, DropMiddle
  <1>8. LostOnce'
    BY <1>0, <1>1, <1>7 DEF TrafficTypeOK, Lost, LostOnce
  <1>9. IsFiniteSet(ToSet(D)) /\ Cardinality(ToSet(D)) = Len(D)
    BY <1>0, <1>7, OrderedCount
  <1> QED BY <1>2, <1>6, <1>7, <1>8, <1>9 DEF D

\* The batching thread counts what a datagram holds once and prints it once.
LEMMA BatcherCounts ==
  ASSUME MessageInv, batch_and_send_1
  PROVE  DatagramOnlyWhileSent' /\ RatesBounded'
  <1> DEFINE l == Len(history.left)
             u == Cardinality(history.unsent)
             d == Len(batcher.datagram)
  <1>0. /\ TrafficTypeOK
        /\ l \in Nat /\ d \in Nat /\ u \in Nat /\ total \in Nat /\ history.printed \in Nat
        /\ IsFiniteSet(history.unsent)
        /\ history.left \in Seq(Nat) /\ batcher.datagram \in Seq(Nat)
        /\ batcher.pc \notin {"first", "second", "count"} => batcher.datagram = <<>>
        /\ history.printed + total <= l + u
    <2>1. TrafficTypeOK /\ history.unsent \in SUBSET (1..history.put) /\ history.put \in Nat
      BY DEF MessageInv, TrafficTypeOK, InPlace, Lost
    <2>2. IsFiniteSet(history.unsent) /\ u \in Nat
      <3>1. IsFiniteSet(1..history.put)
        BY <2>1, FS_Interval
      <3>2. IsFiniteSet(history.unsent)
        BY <2>1, <3>1, FS_Subset
      <3> QED BY <3>2, FS_CardinalityType
    <2>3. l \in Nat /\ d \in Nat
      BY <2>1, LenProperties DEF TrafficTypeOK
    <2> QED BY <2>1, <2>2, <2>3 DEF MessageInv, TrafficTypeOK, DatagramOnlyWhileSent, RatesBounded
  <1>1. CASE BeginBatch \/ Measure \/ TakeMessage \/ SplitBatch \/ EndSending
             \/ NotDue \/ BeginSending
    <2>1. /\ history' = history /\ batcher'.datagram = batcher.datagram
          /\ batcher.pc \notin {"first", "second", "count"}
          /\ batcher'.pc \notin {"first", "second", "count"}
          /\ total' \in {0, total}
      BY <1>0, <1>1 DEF TrafficTypeOK, BeginBatch, Measure, TakeMessage, SplitBatch,
         EndSending, NotDue, BeginSending
    <2> QED BY <1>0, <2>1 DEF DatagramOnlyWhileSent, RatesBounded
  <1>2. CASE NothingToTake
    <2>1. /\ history'.left = history.left /\ history'.unsent = history.unsent
          /\ history'.printed = history.printed /\ total' = total
          /\ batcher'.datagram = batcher.datagram /\ batcher.pc = "take"
      BY <1>0, <1>2 DEF TrafficTypeOK, NothingToTake
    <2> QED BY <1>0, <2>1 DEF DatagramOnlyWhileSent, RatesBounded
  <1>3. CASE TakeDatagram \/ SendFirst \/ SendSecond
    <2>1. /\ history' = history /\ total' = total /\ batcher'.pc \in {"first", "second", "count"}
      BY <1>0, <1>3 DEF TrafficTypeOK, TakeDatagram, SendFirst, SendSecond
    <2> QED BY <1>0, <2>1 DEF DatagramOnlyWhileSent, RatesBounded
  <1>4. CASE CountDatagram
    <2>1. /\ history'.printed = history.printed /\ total' = total + d
          /\ batcher'.datagram = <<>>
      BY <1>0, <1>4 DEF TrafficTypeOK, CountDatagram
    <2>2. Len(history'.left) + Cardinality(history'.unsent) = (l + u) + d
      <3>1. CASE batcher.sent
        <4>1. history'.left = history.left \o batcher.datagram /\ history'.unsent = history.unsent
          BY <1>0, <1>4, <3>1 DEF TrafficTypeOK, CountDatagram
        <4>2. Len(history'.left) = l + d
          BY <1>0, <4>1, ConcatProperties
        <4> HIDE DEF l, d
        <4> QED BY <1>0, <4>1, <4>2
      <3>2. CASE ~batcher.sent
        <4> DEFINE E == ToSet(batcher.datagram)
        <4>1. history'.left = history.left /\ history'.unsent = history.unsent \cup E
          BY <1>0, <1>4, <3>2 DEF TrafficTypeOK, CountDatagram
        <4>2. IsFiniteSet(E) /\ Cardinality(E) = d /\ history.unsent \cap E = {}
          BY <1>4, <3>2, DatagramLost DEF Lost
        <4> HIDE DEF E, d
        <4>3. Cardinality(history.unsent \cup E) = u + d - Cardinality({})
          BY <1>0, <4>2, FS_Union
        <4>4. Cardinality({}) = 0
          BY FS_EmptySet
        <4> HIDE DEF l, u
        <4> QED BY <1>0, <4>1, <4>3, <4>4 DEF l
      <3> QED BY <3>1, <3>2
    <2> HIDE DEF l, u, d
    <2>3. history.printed + (total + d) <= (l + u) + d
      BY <1>0
    <2> QED BY <2>1, <2>2, <2>3 DEF DatagramOnlyWhileSent, RatesBounded
  <1>5. CASE PrintRate
    <2>1. /\ history'.printed = history.printed + total /\ history'.unsent = history.unsent
          /\ history'.left = history.left /\ total' = 0
          /\ batcher'.datagram = batcher.datagram /\ batcher.pc = "report"
      BY <1>0, <1>5 DEF TrafficTypeOK, PrintRate
    <2> QED BY <1>0, <2>1 DEF DatagramOnlyWhileSent, RatesBounded
  <1> QED BY <1>1, <1>2, <1>3, <1>4, <1>5 DEF batch_and_send_1, send_packets

LEMMA MessageInvariant == TrafficSpec => []MessageInv
  <1>1. ASSUME MessageInv, [TrafficNext]_trafficVars
        PROVE  MessageInv'
    <2>1. CASE UNCHANGED trafficVars
      <3>1. UNCHANGED <<buffer, device, batcher, packets_1, total, history>>
        BY <2>1 DEF trafficVars, deviceVars
      <3>2. TrafficTypeOK'
        BY <1>1, <3>1 DEF MessageInv, TrafficTypeOK
      <3>3. /\ Flight' = Flight /\ Lost' = Lost /\ history'.put = history.put
            /\ LostOnce' = LostOnce
        BY <3>1 DEF Flight, Lost, LostOnce
      <3>4. DatagramOnlyWhileSent' /\ RatesBounded'
        BY <1>1, <3>1 DEF MessageInv, DatagramOnlyWhileSent, RatesBounded
      <3> QED BY <1>1, <3>2, <3>3, <3>4 DEF MessageInv
    <2>2. CASE batch_and_send_1
      <3>1. TrafficTypeOK' /\ DatagramOnlyWhileSent' /\ RatesBounded'
        BY <1>1, <2>2, BatcherType, BatcherCounts
      <3>2. (InPlace(Flight, history.put, Lost))' /\ LostOnce'
        <4>1. CASE NothingToTake
          BY <1>1, <4>1, BatchDies
        <4>2. CASE CountDatagram /\ ~batcher.sent
          BY <1>1, <4>2, DatagramLost
        <4>3. CASE ~NothingToTake /\ (CountDatagram => batcher.sent)
          <5>1. Flight' = Flight /\ history'.put = history.put /\ Lost' = Lost /\ LostOnce'
            BY <1>1, <2>2, <4>3, BatcherMoves
          <5> QED BY <1>1, <5>1 DEF MessageInv
        <4> QED BY <4>1, <4>2, <4>3
      <3> QED BY <3>1, <3>2 DEF MessageInv
    <2> QED BY <1>1, <2>1, <2>2, DeviceKeepsMessages DEF TrafficNext
  <1> QED BY <1>1, MessagesInitial, PTL DEF TrafficSpec

\* Type correctness of a traffic sender: what it joins to packets and datagrams are
\* sequences of messages.
THEOREM TrafficTypeCorrect == TrafficSpec => []TrafficTypeOK
  <1>1. MessageInv => TrafficTypeOK
    BY DEF MessageInv
  <1> QED BY <1>1, MessageInvariant, PTL

\* For any devices, buffer, batches and packets: each message that was put is in one
\* place.  It left, it waits (with a batching thread that may be dead), or it is lost in
\* one of four ways: a device removed it from a full buffer, or by mistake from one that
\* had room again, the thread died with it in its batch, or both sends of its datagram
\* failed.  None overtakes another, and the printed rates count none twice, the unsent
\* ones like those that left.
THEOREM MessagesOnce == TrafficSpec => []EachMessageOnce
  <1>1. MessageInv => EachMessageOnce
    BY DEF MessageInv, InPlace, Ordered, RatesBounded, EachMessageOnce
  <1> QED BY <1>1, MessageInvariant, PTL

=============================================================================
