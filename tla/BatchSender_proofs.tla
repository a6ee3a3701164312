------------------------- MODULE BatchSender_proofs -------------------------
(* Theorems about BatchSender, for any threads, destinations, payloads and  *)
(* batch sizes.                                                            *)
EXTENDS BatchSender, SequenceTheorems, TLAPS

-----------------------------------------------------------------------------
(* Type correctness.                                                       *)

FlushType ==
    [by : Thread \cup {Flusher, Nobody}, dest : Dest, batch : Seq(Packet),
     next : 1..(Len(Targets) + 1)]

\* While nobody holds the lock, no batch is on its way.
IdleWhenFree == send_queue_lock = Nobody => flush.batch = <<>>

TypeInv == SenderTypeOK /\ IdleWhenFree

\* The destinations are what Targets names, by index.
LEMMA TargetFacts ==
    /\ Len(Targets) \in Nat \ {0}
    /\ \A i \in 1..Len(Targets) : Targets[i] \in Dest
  BY SenderAssumption, LenProperties, ElementOfSeq

\* The lock free: no batch, and nothing left of a round.
LEMMA FreeType == Free \in FlushType
  <1>1. Targets[1] \in Dest
    BY TargetFacts
  <1>2. <<>> \in Seq(Packet)
    BY EmptySeq
  <1> QED BY <1>1, <1>2, TargetFacts DEF Free, FlushType

\* A flush begun on one destination.
LEMMA FlushingType ==
    ASSUME NEW t \in Thread \cup {Flusher}, NEW d \in Dest, NEW queue \in Seq(Packet),
           NEW next \in 1..(Len(Targets) + 1)
    PROVE  /\ Flushing(t, d, queue, next) \in FlushType
           /\ Flushing(t, d, queue, next).by # Nobody
  BY SenderAssumption DEF Flushing, FlushType

\* What batch_send_to_target puts at the end of the queue.
LEMMA PacketType ==
    ASSUME SenderTypeOK, NEW d \in Dest, NEW load \in Payload
    PROVE  [n |-> handed[d] + 1, load |-> load] \in Packet
  BY DEF SenderTypeOK, Packet

\* A queue grown by a packet.
LEMMA GrownQueue ==
    ASSUME SenderTypeOK, NEW d \in Dest, NEW load \in Payload
    PROVE  LET p == [n |-> handed[d] + 1, load |-> load]
           IN  /\ Append(send_queues[d], p) \in Seq(Packet)
               /\ Len(Append(send_queues[d], p)) = Len(send_queues[d]) + 1
  <1> DEFINE p == [n |-> handed[d] + 1, load |-> load]
  <1>1. p \in Packet
    BY PacketType
  <1>2. send_queues[d] \in Seq(Packet)
    BY DEF SenderTypeOK
  <1> HIDE DEF p
  <1>3. /\ Append(send_queues[d], p) \in Seq(Packet)
        /\ Len(Append(send_queues[d], p)) = Len(send_queues[d]) + 1
    BY <1>1, <1>2, AppendProperties
  <1> QED BY <1>3 DEF p

LEMMA TypeInit == SenderInit => TypeInv
  <1> SUFFICES ASSUME SenderInit
               PROVE  TypeInv
    OBVIOUS
  <1>1. <<>> \in Seq(Packet)
    BY EmptySeq
  <1>2. SenderTypeOK
    BY <1>1, FreeType DEF SenderInit, SenderTypeOK, FlushType
  <1>3. IdleWhenFree
    BY DEF SenderInit, IdleWhenFree, Free
  <1> QED BY <1>2, <1>3 DEF TypeInv

\* Appending and, if the batch is full, flushing.
LEMMA HandoverType ==
    ASSUME TypeInv, NEW t \in Thread, NEW d \in Dest, NEW load \in Payload,
           batch_send_to_target(t, d, load)
    PROVE  TypeInv'
  <1> DEFINE queue == Append(send_queues[d], [n |-> handed[d] + 1, load |-> load])
  <1>1. queue \in Seq(Packet)
    BY GrownQueue DEF TypeInv
  <1>2. Queued(t, d, queue) /\ UNCHANGED <<wire, lost>>
        /\ handed' = [handed EXCEPT ![d] = @ + 1]
    BY DEF batch_send_to_target
  <1> HIDE DEF queue
  <1>3. send_queues' \in [Dest -> Seq(Packet)]
    BY <1>1, <1>2, EmptySeq DEF Queued, TypeInv, SenderTypeOK
  <1>4. flush' \in FlushType /\ (flush'.by = Nobody => flush'.batch = <<>>)
    <2>1. Flushing(t, d, queue, Len(Targets) + 1) \in FlushType
          /\ Flushing(t, d, queue, Len(Targets) + 1).by # Nobody
      BY <1>1, TargetFacts, FlushingType
    <2>2. flush \in FlushType /\ (flush.by = Nobody => flush.batch = <<>>)
      BY DEF TypeInv, SenderTypeOK, FlushType, IdleWhenFree, send_queue_lock
    <2> QED BY <1>2, <2>1, <2>2 DEF Queued
  <1>5. wire' \in [Dest -> Seq(Packet)] /\ lost' \in [Dest -> SUBSET Packet]
        /\ handed' \in [Dest -> Nat]
    BY <1>2 DEF TypeInv, SenderTypeOK
  <1> QED BY <1>3, <1>4, <1>5
          DEF TypeInv, SenderTypeOK, FlushType, IdleWhenFree, send_queue_lock

\* Taking over the queue of the i-th destination.
LEMMA FlushTargetType ==
    ASSUME TypeInv, NEW t \in Thread \cup {Flusher}, NEW i \in 1..Len(Targets),
           FlushTarget(t, i)
    PROVE  TypeInv'
  <1>1. Targets[i] \in Dest /\ i + 1 \in 1..(Len(Targets) + 1)
    BY TargetFacts
  <1>2. send_queues[Targets[i]] \in Seq(Packet)
    BY <1>1 DEF TypeInv, SenderTypeOK
  <1>3. flush' \in FlushType /\ flush'.by # Nobody
    BY <1>1, <1>2, FlushingType DEF FlushTarget
  <1>4. send_queues' \in [Dest -> Seq(Packet)]
    BY <1>1, EmptySeq DEF FlushTarget, TypeInv, SenderTypeOK
  <1>5. wire' \in [Dest -> Seq(Packet)] /\ lost' \in [Dest -> SUBSET Packet]
        /\ handed' \in [Dest -> Nat]
    BY DEF FlushTarget, TypeInv, SenderTypeOK
  <1> QED BY <1>3, <1>4, <1>5
          DEF TypeInv, SenderTypeOK, FlushType, IdleWhenFree, send_queue_lock

LEMMA FlushStepType ==
    ASSUME TypeInv, FlushStep
    PROVE  TypeInv'
  <1>0. flush \in FlushType /\ flush.dest \in Dest /\ flush.batch \in Seq(Packet)
    BY DEF TypeInv, SenderTypeOK, FlushType
  <1>1. CASE SendNext
    <2>1. Head(flush.batch) \in Packet /\ Tail(flush.batch) \in Seq(Packet)
      BY <1>0, <1>1, HeadTailProperties DEF SendNext
    <2>2. Append(wire[flush.dest], Head(flush.batch)) \in Seq(Packet)
      BY <1>0, <2>1, AppendProperties DEF TypeInv, SenderTypeOK
    <2>3. wire' \in [Dest -> Seq(Packet)]
      BY <1>0, <1>1, <2>2 DEF SendNext, TypeInv, SenderTypeOK
    <2>4. flush' \in FlushType /\ flush'.by = flush.by /\ flush.by # Nobody
      BY <1>0, <1>1, <2>1 DEF SendNext, FlushType, TypeInv, IdleWhenFree, send_queue_lock
    <2> QED BY <1>1, <2>3, <2>4
            DEF SendNext, TypeInv, SenderTypeOK, FlushType, IdleWhenFree, send_queue_lock
  <1>2. CASE SendFails
    <2>1. ToSet(flush.batch) \subseteq Packet
      BY <1>0, LenProperties DEF ToSet
    <2>2. lost' \in [Dest -> SUBSET Packet]
      BY <1>0, <1>2, <2>1 DEF SendFails, TypeInv, SenderTypeOK
    <2>3. flush' \in FlushType /\ flush'.batch = <<>>
      BY <1>0, <1>2, EmptySeq DEF SendFails, FlushType
    <2> QED BY <1>2, <2>2, <2>3
            DEF SendFails, TypeInv, SenderTypeOK, FlushType, IdleWhenFree, send_queue_lock
  <1>3. CASE BatchDone
    <2>1. CASE flush.next <= Len(Targets)
      <3>1. flush.by \in Thread \cup {Flusher} /\ flush.next \in 1..Len(Targets)
        BY <1>0, <1>3, <2>1, TargetFacts DEF BatchDone, FlushType, send_queue_lock
      <3> QED BY <1>3, <2>1, <3>1, FlushTargetType DEF BatchDone
    <2>2. CASE ~(flush.next <= Len(Targets))
      <3>1. flush' = Free /\ UNCHANGED <<send_queues, wire, lost, handed>>
        BY <1>3, <2>2 DEF BatchDone
      <3>2. Free.batch = <<>>
        BY DEF Free
      <3> QED BY <3>1, <3>2, FreeType
              DEF TypeInv, SenderTypeOK, FlushType, IdleWhenFree, send_queue_lock
    <2> QED BY <2>1, <2>2
  <1> QED BY <1>1, <1>2, <1>3 DEF FlushStep

LEMMA TypeStep == TypeInv /\ [SenderNext]_senderVars => TypeInv'
  <1> SUFFICES ASSUME TypeInv, [SenderNext]_senderVars
               PROVE  TypeInv'
    OBVIOUS
  <1>1. ASSUME NEW t \in Thread, NEW d \in Dest, NEW load \in Payload,
               batch_send_to_target(t, d, load)
        PROVE  TypeInv'
    BY <1>1, HandoverType
  <1>2. CASE flush_all_batches
    <2>1. 1 \in 1..Len(Targets)
      BY TargetFacts
    <2> QED BY <1>2, <2>1, FlushTargetType DEF flush_all_batches
  <1>3. CASE FlushStep
    BY <1>3, FlushStepType
  <1>4. CASE UNCHANGED senderVars
    BY <1>4 DEF senderVars, TypeInv, SenderTypeOK, IdleWhenFree, send_queue_lock
  <1> QED BY <1>1, <1>2, <1>3, <1>4 DEF SenderNext

\* The types of the sender's state hold in every behaviour.
THEOREM TypeCorrect == SenderSpec => []SenderTypeOK
  <1>1. TypeInv => SenderTypeOK
    BY DEF TypeInv
  <1> QED BY TypeInit, TypeStep, <1>1, PTL DEF SenderSpec

-----------------------------------------------------------------------------
(* BacklogBounded.  The queues stay short while the lock is held too: nobody *)
(* appends to them, and a batch leaves its own queue empty.                 *)

ShortQueues == \A d \in Dest : Len(send_queues[d]) < BATCH_SIZE

ShortFlush == Len(flush.batch) + Len(send_queues[flush.dest]) <= BATCH_SIZE

BacklogInv == ShortQueues /\ ShortFlush

LEMMA BacklogInit == SenderInit => BacklogInv
  <1>1. Targets[1] \in Dest /\ BATCH_SIZE \in Nat \ {0}
    BY TargetFacts, SenderAssumption
  <1>2. Len(<<>>) = 0
    BY EmptySeq
  <1> QED BY <1>1, <1>2 DEF SenderInit, BacklogInv, ShortQueues, ShortFlush, Free

LEMMA BacklogHandover ==
    ASSUME TypeInv, BacklogInv, NEW t \in Thread, NEW d \in Dest, NEW load \in Payload,
           batch_send_to_target(t, d, load)
    PROVE  BacklogInv'
  <1> DEFINE queue == Append(send_queues[d], [n |-> handed[d] + 1, load |-> load])
  <1>1. queue \in Seq(Packet) /\ Len(queue) = Len(send_queues[d]) + 1
    BY GrownQueue DEF TypeInv
  <1>2. Queued(t, d, queue)
    BY DEF batch_send_to_target
  <1>3. flush.batch = <<>> /\ flush.dest \in Dest
    BY DEF batch_send_to_target, TypeInv, IdleWhenFree, SenderTypeOK
  <1>4. Len(<<>>) = 0 /\ BATCH_SIZE \in Nat /\ BATCH_SIZE > 0
    BY SenderAssumption, EmptySeq
  <1>5. \A e \in Dest : Len(send_queues[e]) \in Nat /\ Len(send_queues[e]) < BATCH_SIZE
    BY LenProperties DEF TypeInv, SenderTypeOK, BacklogInv, ShortQueues
  <1>6. send_queues \in [Dest -> Seq(Packet)]
    BY DEF TypeInv, SenderTypeOK
  <1> HIDE DEF queue
  <1>7. CASE Len(queue) >= BATCH_SIZE
    <2>1. send_queues' = [send_queues EXCEPT ![d] = <<>>]
      BY <1>2, <1>7 DEF Queued
    <2>2. flush'.batch = queue /\ flush'.dest = d
      BY <1>2, <1>7 DEF Queued, Flushing
    <2>3. ShortQueues'
      BY <2>1, <1>4, <1>5, <1>6 DEF ShortQueues
    <2>4. Len(queue) <= BATCH_SIZE /\ Len(queue) \in Nat
      BY <1>1, <1>4, <1>5
    <2>5. send_queues'[d] = <<>>
      BY <2>1, <1>6
    <2>6. ShortFlush'
      BY <2>2, <2>4, <2>5, <1>4 DEF ShortFlush
    <2> QED BY <2>3, <2>6 DEF BacklogInv
  <1>8. CASE ~(Len(queue) >= BATCH_SIZE)
    <2>1. send_queues' = [send_queues EXCEPT ![d] = queue] /\ flush' = flush
      BY <1>2, <1>8 DEF Queued
    <2>2. \A e \in Dest : Len(send_queues'[e]) \in Nat /\ Len(send_queues'[e]) < BATCH_SIZE
      BY <2>1, <1>1, <1>4, <1>5, <1>6, <1>8
    <2>3. ShortFlush'
      BY <2>1, <2>2, <1>3, <1>4 DEF ShortFlush
    <2> QED BY <2>2, <2>3 DEF BacklogInv, ShortQueues
  <1> QED BY <1>7, <1>8

LEMMA BacklogFlushTarget ==
    ASSUME TypeInv, BacklogInv, NEW t \in Thread \cup {Flusher}, NEW i \in 1..Len(Targets),
           FlushTarget(t, i)
    PROVE  BacklogInv'
  <1>1. Targets[i] \in Dest
    BY TargetFacts
  <1>2. flush'.batch = send_queues[Targets[i]] /\ flush'.dest = Targets[i]
    BY DEF FlushTarget, Flushing
  <1>3. send_queues' = [send_queues EXCEPT ![Targets[i]] = <<>>]
        /\ send_queues \in [Dest -> Seq(Packet)]
    BY DEF FlushTarget, TypeInv, SenderTypeOK
  <1>4. Len(<<>>) = 0 /\ BATCH_SIZE \in Nat /\ BATCH_SIZE > 0
    BY SenderAssumption, EmptySeq
  <1>5. \A e \in Dest : Len(send_queues[e]) \in Nat /\ Len(send_queues[e]) < BATCH_SIZE
    BY <1>3, LenProperties DEF BacklogInv, ShortQueues
  <1>6. ShortQueues'
    BY <1>3, <1>4, <1>5 DEF ShortQueues
  <1>7. ShortFlush'
    BY <1>1, <1>2, <1>3, <1>4, <1>5 DEF ShortFlush
  <1> QED BY <1>6, <1>7 DEF BacklogInv

LEMMA BacklogFlushStep ==
    ASSUME TypeInv, BacklogInv, FlushStep
    PROVE  BacklogInv'
  <1>0. flush \in FlushType /\ flush.dest \in Dest /\ flush.batch \in Seq(Packet)
    BY DEF TypeInv, SenderTypeOK, FlushType
  <1>1. Len(<<>>) = 0 /\ BATCH_SIZE \in Nat /\ BATCH_SIZE > 0
    BY SenderAssumption, EmptySeq
  <1>2. \A e \in Dest : Len(send_queues[e]) \in Nat /\ Len(send_queues[e]) < BATCH_SIZE
    BY LenProperties DEF TypeInv, SenderTypeOK, BacklogInv, ShortQueues
  <1>3. CASE SendNext
    <2>1. Len(flush.batch) \in Nat /\ Len(Tail(flush.batch)) = Len(flush.batch) - 1
      BY <1>0, <1>3, LenProperties, HeadTailProperties DEF SendNext
    <2>2. flush'.batch = Tail(flush.batch) /\ flush'.dest = flush.dest
          /\ send_queues' = send_queues
      BY <1>0, <1>3 DEF SendNext, FlushType
    <2>3. Len(flush.batch) + Len(send_queues[flush.dest]) <= BATCH_SIZE
          /\ Len(send_queues[flush.dest]) \in Nat
      BY <1>0, <1>2 DEF BacklogInv, ShortFlush
    <2>4. Len(Tail(flush.batch)) + Len(send_queues[flush.dest]) <= BATCH_SIZE
      <3> DEFINE rest == Len(Tail(flush.batch))
                 unsent == Len(flush.batch)
                 queued == Len(send_queues[flush.dest])
      <3>1. unsent \in Nat /\ rest = unsent - 1 /\ queued \in Nat
            /\ unsent + queued <= BATCH_SIZE /\ BATCH_SIZE \in Nat
        BY <2>1, <2>3, <1>1
      <3> HIDE DEF rest, unsent, queued
      <3>2. rest + queued <= BATCH_SIZE
        BY <3>1
      <3> QED BY <3>2 DEF rest, queued
    <2>5. ShortFlush'
      BY <2>2, <2>4 DEF ShortFlush
    <2>6. ShortQueues'
      BY <2>2, <1>2 DEF ShortQueues
    <2> QED BY <2>5, <2>6 DEF BacklogInv
  <1>4. CASE SendFails
    <2>1. flush'.batch = <<>> /\ flush'.dest = flush.dest /\ send_queues' = send_queues
      BY <1>0, <1>4 DEF SendFails, FlushType
    <2> QED BY <2>1, <1>0, <1>1, <1>2 DEF BacklogInv, ShortQueues, ShortFlush
  <1>5. CASE BatchDone
    <2>1. CASE flush.next <= Len(Targets)
      <3>1. flush.by \in Thread \cup {Flusher} /\ flush.next \in 1..Len(Targets)
        BY <1>0, <1>5, <2>1, TargetFacts DEF BatchDone, FlushType, send_queue_lock
      <3> QED BY <1>5, <2>1, <3>1, BacklogFlushTarget DEF BatchDone
    <2>2. CASE ~(flush.next <= Len(Targets))
      <3>1. flush'.batch = <<>> /\ flush'.dest \in Dest /\ send_queues' = send_queues
        BY <1>5, <2>2, TargetFacts DEF BatchDone, Free
      <3> QED BY <3>1, <1>1, <1>2 DEF BacklogInv, ShortQueues, ShortFlush
    <2> QED BY <2>1, <2>2
  <1> QED BY <1>3, <1>4, <1>5 DEF FlushStep

LEMMA BacklogStep == TypeInv /\ BacklogInv /\ [SenderNext]_senderVars => BacklogInv'
  <1> SUFFICES ASSUME TypeInv, BacklogInv, [SenderNext]_senderVars
               PROVE  BacklogInv'
    OBVIOUS
  <1>1. ASSUME NEW t \in Thread, NEW d \in Dest, NEW load \in Payload,
               batch_send_to_target(t, d, load)
        PROVE  BacklogInv'
    BY <1>1, BacklogHandover
  <1>2. CASE flush_all_batches
    <2>1. 1 \in 1..Len(Targets)
      BY TargetFacts
    <2> QED BY <1>2, <2>1, BacklogFlushTarget DEF flush_all_batches
  <1>3. CASE FlushStep
    BY <1>3, BacklogFlushStep
  <1>4. CASE UNCHANGED senderVars
    BY <1>4 DEF senderVars, BacklogInv, ShortQueues, ShortFlush
  <1> QED BY <1>1, <1>2, <1>3, <1>4 DEF SenderNext

\* However many threads append, a queue is short of a batch whenever the lock is
\* free, and a flush in progress and its queue hold one batch at most.
THEOREM Bounded == SenderSpec => []BacklogBounded
  <1>1. BacklogInv => BacklogBounded
    BY DEF BacklogInv, ShortQueues, ShortFlush, BacklogBounded
  <1> QED BY TypeInit, TypeStep, BacklogInit, BacklogStep, <1>1, PTL DEF SenderSpec

-----------------------------------------------------------------------------
(* What a step does to the packets of a destination.                        *)

\* Nothing changes for d,
Kept(d) ==
    /\ Pipeline(d)' = Pipeline(d)
    /\ lost'[d] = lost[d] /\ handed'[d] = handed[d]

\* or the next packet joins at the end,
Grown(d) ==
    /\ \E p \in Packet : p.n = handed[d] + 1 /\ Pipeline(d)' = Append(Pipeline(d), p)
    /\ lost'[d] = lost[d] /\ handed'[d] = handed[d] + 1

\* or a batch is cut out of the middle.
CutOut(d) ==
    \E w, b, q \in Seq(Packet) :
        /\ Pipeline(d) = w \o b \o q
        /\ Pipeline(d)' = w \o q
        /\ lost'[d] = lost[d] \cup ToSet(b) /\ handed'[d] = handed[d]

PipelineStep(d) == Kept(d) \/ Grown(d) \/ CutOut(d)

\* A sequence without its first element, behind that element, is the sequence.
LEMMA FirstAndRest ==
    ASSUME NEW S, NEW w \in Seq(S), NEW b \in Seq(S), b # <<>>
    PROVE  Append(w, Head(b)) \o Tail(b) = w \o b
  <1>1. Head(b) \in S /\ Tail(b) \in Seq(S) /\ Len(Tail(b)) = Len(b) - 1
        /\ \A i \in 1..Len(Tail(b)) : Tail(b)[i] = b[i + 1]
    BY HeadTailProperties
  <1>2. Head(b) = b[1]
    OBVIOUS
  <1>3. Len(w) \in Nat /\ Len(b) \in Nat /\ Len(b) > 0
    BY LenProperties, EmptySeq
  <1> DEFINE v == Append(w, Head(b))
             r == Tail(b)
  <1>4. v \in Seq(S) /\ Len(v) = Len(w) + 1
        /\ (\A i \in 1..Len(w) : v[i] = w[i]) /\ v[Len(w) + 1] = b[1]
    BY <1>1, <1>2, AppendProperties
  <1>5. r \in Seq(S) /\ Len(r) = Len(b) - 1 /\ \A i \in 1..Len(r) : r[i] = b[i + 1]
    BY <1>1
  <1> HIDE DEF v, r
  <1>6. v \o r \in Seq(S) /\ Len(v \o r) = Len(w) + Len(b)
        /\ \A i \in 1..(Len(w) + Len(b)) :
             (v \o r)[i] = IF i <= Len(w) + 1 THEN v[i] ELSE r[i - (Len(w) + 1)]
    <2>1. v \o r \in Seq(S) /\ Len(v \o r) = Len(v) + Len(r)
          /\ \A i \in 1..(Len(v) + Len(r)) :
               (v \o r)[i] = IF i <= Len(v) THEN v[i] ELSE r[i - Len(v)]
      BY <1>4, <1>5, ConcatProperties
    <2>2. Len(v) = Len(w) + 1 /\ Len(v) + Len(r) = Len(w) + Len(b)
      BY <1>3, <1>4, <1>5
    <2> QED BY <2>1, <2>2
  <1>7. w \o b \in Seq(S) /\ Len(w \o b) = Len(w) + Len(b)
        /\ \A i \in 1..(Len(w) + Len(b)) :
             (w \o b)[i] = IF i <= Len(w) THEN w[i] ELSE b[i - Len(w)]
    BY ConcatProperties
  <1>8. ASSUME NEW i \in 1..(Len(w) + Len(b))
        PROVE  (v \o r)[i] = (w \o b)[i]
    <2>1. CASE i <= Len(w)
      BY <2>1, <1>3, <1>4, <1>6, <1>7
    <2>2. CASE i = Len(w) + 1
      BY <2>2, <1>3, <1>4, <1>6, <1>7
    <2>3. CASE i > Len(w) + 1
      <3>1. i - (Len(w) + 1) \in 1..Len(r) /\ i - (Len(w) + 1) + 1 = i - Len(w)
        BY <2>3, <1>3, <1>5
      <3>2. (v \o r)[i] = r[i - (Len(w) + 1)]
        BY <2>3, <1>3, <1>6
      <3>3. r[i - (Len(w) + 1)] = b[i - Len(w)]
        BY <3>1, <1>5
      <3>4. (w \o b)[i] = b[i - Len(w)]
        BY <2>3, <1>3, <1>7
      <3> QED BY <3>2, <3>3, <3>4
    <2>4. i <= Len(w) \/ i = Len(w) + 1 \/ i > Len(w) + 1
      BY <1>3
    <2> QED BY ONLY <2>1, <2>2, <2>3, <2>4
  <1>9. v \o r = w \o b
    BY <1>6, <1>7, <1>8, SeqEqual
  <1> QED BY <1>9 DEF v, r

\* Appending to the last of two sequences is appending to both together.
LEMMA AppendLast ==
    ASSUME NEW S, NEW w \in Seq(S), NEW q \in Seq(S), NEW p \in S
    PROVE  w \o Append(q, p) = Append(w \o q, p)
  <1>1. <<p>> \in Seq(S)
    OBVIOUS
  <1>2. Append(q, p) = q \o <<p>> /\ w \o q \in Seq(S)
    BY AppendIsConcat, ConcatProperties
  <1>3. Append(w \o q, p) = (w \o q) \o <<p>>
    BY <1>2, AppendIsConcat
  <1> QED BY <1>1, <1>2, <1>3, ConcatAssociative

\* The three parts of a pipeline are sequences of packets.
LEMMA PartTypes ==
    ASSUME TypeInv, NEW d \in Dest
    PROVE  /\ wire[d] \in Seq(Packet)
           /\ send_queues[d] \in Seq(Packet)
           /\ InTransit(d) \in Seq(Packet)
           /\ Pipeline(d) \in Seq(Packet)
  <1>1. wire[d] \in Seq(Packet) /\ send_queues[d] \in Seq(Packet)
    BY DEF TypeInv, SenderTypeOK
  <1>2. InTransit(d) \in Seq(Packet)
    BY EmptySeq DEF TypeInv, SenderTypeOK, InTransit
  <1>3. wire[d] \o InTransit(d) \in Seq(Packet)
    BY <1>1, <1>2, ConcatProperties
  <1>4. Pipeline(d) \in Seq(Packet)
    BY <1>1, <1>3, ConcatProperties DEF Pipeline
  <1> QED BY <1>1, <1>2, <1>4

\* With nothing in transit, a pipeline is the wire and the queue.
LEMMA QuietPipeline ==
    ASSUME TypeInv, NEW d \in Dest, InTransit(d) = <<>>
    PROVE  Pipeline(d) = wire[d] \o send_queues[d]
  <1>1. wire[d] \o <<>> = wire[d]
    BY PartTypes, ConcatEmptySeq
  <1> QED BY <1>1 DEF Pipeline

\* A packet that is handed over joins the pipeline of its destination at the end.
LEMMA Joined ==
    ASSUME TypeInv, NEW t \in Thread, NEW d \in Dest, NEW load \in Payload,
           batch_send_to_target(t, d, load), NEW e \in Dest
    PROVE  /\ e = d => /\ Pipeline(d)' = Append(Pipeline(d), [n |-> handed[d] + 1, load |-> load])
                       /\ lost'[d] = lost[d] /\ handed'[d] = handed[d] + 1
           /\ e # d => Kept(e)
  <1> DEFINE p == [n |-> handed[d] + 1, load |-> load]
             queue == Append(send_queues[d], p)
  <1>1. p \in Packet /\ p.n = handed[d] + 1
    BY PacketType DEF TypeInv
  <1>2. Queued(t, d, queue) /\ wire' = wire /\ lost' = lost
        /\ handed' = [handed EXCEPT ![d] = @ + 1]
    BY DEF batch_send_to_target
  <1>3. flush.batch = <<>>
    BY DEF batch_send_to_target, TypeInv, IdleWhenFree
  <1>4. send_queues \in [Dest -> Seq(Packet)] /\ handed \in [Dest -> Nat]
    BY DEF TypeInv, SenderTypeOK
  <1>5. InTransit(e) = <<>>
    BY <1>3 DEF InTransit
  <1>6. queue \in Seq(Packet)
    BY <1>1, <1>4, AppendProperties
  <1>7. wire[e] \in Seq(Packet) /\ send_queues[e] \in Seq(Packet)
        /\ Pipeline(e) = wire[e] \o send_queues[e]
    BY <1>5, PartTypes, QuietPipeline
  <1> HIDE DEF p
  <1>8. CASE e = d
    <2>1. wire[d] \o queue = Append(Pipeline(d), p)
      <3>1. wire[d] \in Seq(Packet) /\ send_queues[d] \in Seq(Packet)
            /\ Pipeline(d) = wire[d] \o send_queues[d]
        BY <1>7, <1>8
      <3>2. wire[d] \o Append(send_queues[d], p) = Append(wire[d] \o send_queues[d], p)
        <4>1. p \in Packet
          BY <1>1
        <4>2. \A w, q \in Seq(Packet), x \in Packet : w \o Append(q, x) = Append(w \o q, x)
          BY AppendLast
        <4> QED BY ONLY <3>1, <4>1, <4>2
      <3> QED BY <3>1, <3>2
    <2>2. wire[d] \o queue \in Seq(Packet)
      BY <1>6, <1>7, <1>8, ConcatProperties
    <2> HIDE DEF queue
    <2>3. Pipeline(d)' = wire[d] \o queue
      <3>1. CASE Len(queue) >= BATCH_SIZE
        <4>1. flush'.batch = queue /\ flush'.dest = d /\ send_queues'[d] = <<>>
          BY <1>2, <1>4, <3>1 DEF Queued, Flushing
        <4>2. Pipeline(d)' = wire[d] \o queue \o <<>>
          BY <4>1, <1>2 DEF Pipeline, InTransit
        <4> QED BY <4>2, <2>2, ConcatEmptySeq
      <3>2. CASE ~(Len(queue) >= BATCH_SIZE)
        <4>1. flush'.batch = <<>> /\ send_queues'[d] = queue
          BY <1>2, <1>3, <1>4, <3>2 DEF Queued
        <4>2. Pipeline(d)' = wire[d] \o <<>> \o queue
          BY <4>1, <1>2 DEF Pipeline, InTransit
        <4>3. wire[d] \o <<>> = wire[d]
          BY <1>7, <1>8, ConcatEmptySeq
        <4> QED BY <4>2, <4>3
      <3> QED BY <3>1, <3>2
    <2>4. lost'[d] = lost[d] /\ handed'[d] = handed[d] + 1
      BY <1>2, <1>4
    <2> QED BY <1>8, <2>1, <2>3, <2>4 DEF p
  <1>9. CASE e # d
    <2> HIDE DEF queue
    <2>1. send_queues'[e] = send_queues[e] /\ (flush'.dest = e => flush'.batch = <<>>)
      BY <1>2, <1>3, <1>4, <1>9 DEF Queued, Flushing
    <2>2. Pipeline(e)' = wire[e] \o <<>> \o send_queues[e]
      BY <2>1, <1>2 DEF Pipeline, InTransit
    <2>3. wire[e] \o <<>> = wire[e]
      BY <1>7, ConcatEmptySeq
    <2>4. lost'[e] = lost[e] /\ handed'[e] = handed[e]
      BY <1>2, <1>4, <1>9
    <2> QED BY <2>2, <2>3, <2>4, <1>7, <1>9 DEF Kept
  <1> QED BY <1>8, <1>9

LEMMA HandoverPipeline ==
    ASSUME TypeInv, NEW t \in Thread, NEW d \in Dest, NEW load \in Payload,
           batch_send_to_target(t, d, load), NEW e \in Dest
    PROVE  PipelineStep(e)
  <1> DEFINE p == [n |-> handed[d] + 1, load |-> load]
  <1>1. p \in Packet /\ p.n = handed[d] + 1
    BY PacketType DEF TypeInv
  <1>2. /\ e = d => /\ Pipeline(d)' = Append(Pipeline(d), p)
                    /\ lost'[d] = lost[d] /\ handed'[d] = handed[d] + 1
        /\ e # d => Kept(e)
    BY Joined
  <1> HIDE DEF p
  <1> QED BY <1>1, <1>2 DEF PipelineStep, Grown

LEMMA FlushTargetPipeline ==
    ASSUME TypeInv, flush.batch = <<>>, NEW t, NEW i \in 1..Len(Targets),
           FlushTarget(t, i), NEW e \in Dest
    PROVE  PipelineStep(e)
  <1>1. Targets[i] \in Dest
    BY TargetFacts
  <1>2. flush'.batch = send_queues[Targets[i]] /\ flush'.dest = Targets[i]
        /\ send_queues' = [send_queues EXCEPT ![Targets[i]] = <<>>]
        /\ wire' = wire /\ lost' = lost /\ handed' = handed
    BY DEF FlushTarget, Flushing
  <1>3. wire[e] \in Seq(Packet) /\ send_queues[e] \in Seq(Packet)
        /\ Pipeline(e) = wire[e] \o send_queues[e]
    BY PartTypes, QuietPipeline DEF InTransit
  <1>4. send_queues \in [Dest -> Seq(Packet)]
    BY DEF TypeInv, SenderTypeOK
  <1>5. Pipeline(e)' = Pipeline(e)
    <2>1. CASE e = Targets[i]
      <3>1. Pipeline(e)' = wire[e] \o send_queues[e] \o <<>>
        BY <1>1, <1>2, <1>4, <2>1 DEF Pipeline, InTransit
      <3>2. wire[e] \o send_queues[e] \in Seq(Packet)
        BY <1>3, ConcatProperties
      <3> QED BY <3>1, <3>2, <1>3, ConcatEmptySeq
    <2>2. CASE e # Targets[i]
      <3>1. Pipeline(e)' = wire[e] \o <<>> \o send_queues[e]
        BY <1>2, <1>4, <2>2 DEF Pipeline, InTransit
      <3>2. wire[e] \o <<>> = wire[e]
        BY <1>3, ConcatEmptySeq
      <3> QED BY <3>1, <3>2, <1>3
    <2> QED BY <2>1, <2>2
  <1> QED BY <1>2, <1>5 DEF PipelineStep, Kept

LEMMA FlushStepPipeline ==
    ASSUME TypeInv, FlushStep, NEW e \in Dest
    PROVE  PipelineStep(e)
  <1>0. flush \in FlushType /\ flush.dest \in Dest /\ flush.batch \in Seq(Packet)
        /\ wire \in [Dest -> Seq(Packet)] /\ lost \in [Dest -> SUBSET Packet]
    BY DEF TypeInv, SenderTypeOK, FlushType
  <1>1. wire[e] \in Seq(Packet) /\ send_queues[e] \in Seq(Packet)
    BY PartTypes
  <1>2. CASE SendNext
    <2>1. flush'.batch = Tail(flush.batch) /\ flush'.dest = flush.dest
          /\ wire' = [wire EXCEPT ![flush.dest] = Append(@, Head(flush.batch))]
          /\ send_queues' = send_queues /\ lost' = lost /\ handed' = handed
      BY <1>0, <1>2 DEF SendNext, FlushType
    <2>2. Pipeline(e)' = Pipeline(e)
      <3>1. CASE e = flush.dest
        <4>1. Append(wire[e], Head(flush.batch)) \o Tail(flush.batch)
                = wire[e] \o flush.batch
          BY <1>0, <1>1, <1>2, FirstAndRest DEF SendNext
        <4>2. Pipeline(e)' = Append(wire[e], Head(flush.batch)) \o Tail(flush.batch)
                               \o send_queues[e]
          BY <1>0, <2>1, <3>1 DEF Pipeline, InTransit
        <4>3. Pipeline(e) = wire[e] \o flush.batch \o send_queues[e]
          BY <3>1 DEF Pipeline, InTransit
        <4> QED BY <4>1, <4>2, <4>3
      <3>2. CASE e # flush.dest
        BY <1>0, <2>1, <3>2 DEF Pipeline, InTransit
      <3> QED BY <3>1, <3>2
    <2> QED BY <2>1, <2>2 DEF PipelineStep, Kept
  <1>3. CASE SendFails
    <2>1. flush'.batch = <<>> /\ flush'.dest = flush.dest
          /\ lost' = [lost EXCEPT ![flush.dest] = @ \cup ToSet(flush.batch)]
          /\ send_queues' = send_queues /\ wire' = wire /\ handed' = handed
      BY <1>0, <1>3 DEF SendFails, FlushType
    <2>2. CASE e = flush.dest
      <3>1. Pipeline(e) = wire[e] \o flush.batch \o send_queues[e]
        BY <2>2 DEF Pipeline, InTransit
      <3>2. Pipeline(e)' = wire[e] \o <<>> \o send_queues[e]
        BY <2>1, <2>2 DEF Pipeline, InTransit
      <3>3. Pipeline(e)' = wire[e] \o send_queues[e]
        BY <3>2, <1>1, ConcatEmptySeq
      <3>4. lost'[e] = lost[e] \cup ToSet(flush.batch) /\ handed'[e] = handed[e]
        BY <1>0, <2>1, <2>2
      <3> QED BY <1>0, <1>1, <3>1, <3>3, <3>4 DEF PipelineStep, CutOut
    <2>3. CASE e # flush.dest
      <3>1. Pipeline(e)' = Pipeline(e)
        BY <2>1, <2>3 DEF Pipeline, InTransit
      <3>2. lost'[e] = lost[e] /\ handed'[e] = handed[e]
        BY <1>0, <2>1, <2>3
      <3> QED BY <3>1, <3>2 DEF PipelineStep, Kept
    <2> QED BY <2>2, <2>3
  <1>4. CASE BatchDone
    <2>1. CASE flush.next <= Len(Targets)
      <3>1. flush.next \in 1..Len(Targets)
        BY <1>0, <2>1, TargetFacts DEF FlushType
      <3> QED BY <1>4, <2>1, <3>1, FlushTargetPipeline DEF BatchDone
    <2>2. CASE ~(flush.next <= Len(Targets))
      <3>1. flush.batch = <<>> /\ flush'.batch = <<>> /\ send_queues' = send_queues
            /\ wire' = wire /\ lost' = lost /\ handed' = handed
        BY <1>4, <2>2 DEF BatchDone, Free
      <3>2. Pipeline(e)' = Pipeline(e)
        BY <3>1 DEF Pipeline, InTransit
      <3> QED BY <3>1, <3>2 DEF PipelineStep, Kept
    <2> QED BY <2>1, <2>2
  <1> QED BY <1>2, <1>3, <1>4 DEF FlushStep

LEMMA PipelineSteps ==
    ASSUME TypeInv, [SenderNext]_senderVars, NEW e \in Dest
    PROVE  PipelineStep(e)
  <1>1. ASSUME NEW t \in Thread, NEW d \in Dest, NEW load \in Payload,
               batch_send_to_target(t, d, load)
        PROVE  PipelineStep(e)
    BY <1>1, HandoverPipeline
  <1>2. CASE flush_all_batches
    <2>1. 1 \in 1..Len(Targets) /\ flush.batch = <<>>
      BY <1>2, TargetFacts DEF flush_all_batches, TypeInv, IdleWhenFree
    <2> QED BY <1>2, <2>1, FlushTargetPipeline DEF flush_all_batches
  <1>3. CASE FlushStep
    BY <1>3, FlushStepPipeline
  <1>4. CASE UNCHANGED senderVars
    BY <1>4 DEF senderVars, PipelineStep, Kept, Pipeline, InTransit
  <1> QED BY <1>1, <1>2, <1>3, <1>4 DEF SenderNext

-----------------------------------------------------------------------------
(* SentInOrder.                                                            *)

Ascending(d) ==
    \A i, j \in 1..Len(Pipeline(d)) : i < j => Pipeline(d)[i].n < Pipeline(d)[j].n

\* No packet has a number that was not handed out yet.
Numbered(d) == \A i \in 1..Len(Pipeline(d)) : Pipeline(d)[i].n <= handed[d]

OrderInv == \A d \in Dest : Ascending(d) /\ Numbered(d)

\* Where an element of w \o q stands in w \o b \o q.
Place(w, b, i) == IF i <= Len(w) THEN i ELSE i + Len(b)

LEMMA CutPlaces ==
    ASSUME NEW w \in Seq(Packet), NEW b \in Seq(Packet), NEW q \in Seq(Packet)
    PROVE  /\ w \o q \in Seq(Packet) /\ w \o b \o q \in Seq(Packet)
           /\ Len(w) \in Nat /\ Len(b) \in Nat /\ Len(q) \in Nat
           /\ Len(w \o q) = Len(w) + Len(q)
           /\ Len(w \o b \o q) = Len(w) + Len(b) + Len(q)
           /\ \A i \in 1..(Len(w) + Len(q)) :
                 (w \o q)[i] = (w \o b \o q)[Place(w, b, i)]
           /\ \A j \in 1..Len(b) : (w \o b \o q)[Len(w) + j] = b[j]
  <1>1. Len(w) \in Nat /\ Len(b) \in Nat /\ Len(q) \in Nat
    BY LenProperties
  <1> DEFINE wb == w \o b
             cut == w \o q
             all == wb \o q
  <1>2. wb \in Seq(Packet) /\ Len(wb) = Len(w) + Len(b)
        /\ \A i \in 1..(Len(w) + Len(b)) :
             wb[i] = IF i <= Len(w) THEN w[i] ELSE b[i - Len(w)]
    BY ConcatProperties
  <1>3. cut \in Seq(Packet) /\ Len(cut) = Len(w) + Len(q)
        /\ \A i \in 1..(Len(w) + Len(q)) :
             cut[i] = IF i <= Len(w) THEN w[i] ELSE q[i - Len(w)]
    BY ConcatProperties
  <1> HIDE DEF wb, cut
  <1>4. all \in Seq(Packet) /\ Len(all) = Len(wb) + Len(q)
        /\ \A i \in 1..(Len(wb) + Len(q)) :
             all[i] = IF i <= Len(wb) THEN wb[i] ELSE q[i - Len(wb)]
    <2>1. \A x, y \in Seq(Packet) :
            /\ x \o y \in Seq(Packet) /\ Len(x \o y) = Len(x) + Len(y)
            /\ \A i \in 1..(Len(x) + Len(y)) :
                 (x \o y)[i] = IF i <= Len(x) THEN x[i] ELSE y[i - Len(x)]
      BY ConcatProperties
    <2>2. wb \in Seq(Packet)
      BY <1>2
    <2> QED BY ONLY <2>1, <2>2, q \in Seq(Packet)
  <1> HIDE DEF all
  <1>5. Len(all) = Len(w) + Len(b) + Len(q)
    BY <1>2, <1>4
  <1>6. ASSUME NEW i \in 1..(Len(w) + Len(q))
        PROVE  cut[i] = all[Place(w, b, i)]
    <2>1. CASE i <= Len(w)
      <3>1. i \in 1..(Len(w) + Len(b)) /\ i \in 1..(Len(wb) + Len(q)) /\ i <= Len(wb)
        BY <1>1, <1>2, <2>1
      <3> QED BY <3>1, <1>2, <1>3, <1>4, <2>1 DEF Place
    <2>2. CASE ~(i <= Len(w))
      <3>1. i + Len(b) \in 1..(Len(wb) + Len(q)) /\ ~(i + Len(b) <= Len(wb))
            /\ i + Len(b) - Len(wb) = i - Len(w)
        BY <1>1, <1>2, <2>2
      <3>2. all[i + Len(b)] = q[i - Len(w)]
        BY <3>1, <1>4
      <3>3. cut[i] = q[i - Len(w)]
        BY <1>3, <2>2
      <3> QED BY <3>2, <3>3, <2>2 DEF Place
    <2> QED BY <2>1, <2>2
  <1>7. ASSUME NEW j \in 1..Len(b)
        PROVE  all[Len(w) + j] = b[j]
    <2>1. Len(w) + j \in 1..(Len(w) + Len(b)) /\ Len(w) + j <= Len(wb)
          /\ Len(w) + j \in 1..(Len(wb) + Len(q)) /\ ~(Len(w) + j <= Len(w))
          /\ Len(w) + j - Len(w) = j
      BY <1>1, <1>2
    <2>2. all[Len(w) + j] = wb[Len(w) + j]
      BY <2>1, <1>4
    <2>3. wb[Len(w) + j] = b[j]
      BY <2>1, <1>2
    <2> QED BY <2>2, <2>3
  <1> QED BY <1>1, <1>3, <1>4, <1>5, <1>6, <1>7 DEF wb, cut, all

LEMMA OrderInit == SenderInit => OrderInv
  <1> SUFFICES ASSUME SenderInit, NEW d \in Dest
               PROVE  Ascending(d) /\ Numbered(d)
    BY DEF OrderInv
  <1>1. InTransit(d) = <<>> /\ wire[d] = <<>> /\ send_queues[d] = <<>>
    BY DEF SenderInit, Free, InTransit
  <1>2. <<>> \in Seq(Packet)
    BY EmptySeq
  <1>3. <<>> \o <<>> = <<>>
    BY <1>2, ConcatEmptySeq
  <1>4. Pipeline(d) = <<>>
    BY <1>1, <1>3 DEF Pipeline
  <1>5. Len(Pipeline(d)) = 0
    BY <1>4, EmptySeq
  <1> QED BY <1>5 DEF Ascending, Numbered

LEMMA OrderStep ==
    ASSUME TypeInv, OrderInv, NEW d \in Dest, PipelineStep(d)
    PROVE  Ascending(d)' /\ Numbered(d)'
  <1>1. Ascending(d) /\ Numbered(d)
    BY DEF OrderInv
  <1>2. Pipeline(d) \in Seq(Packet) /\ handed[d] \in Nat
    BY PartTypes DEF TypeInv, SenderTypeOK
  <1>3. Len(Pipeline(d)) \in Nat
    BY <1>2, LenProperties
  <1>4. CASE Kept(d)
    BY <1>1, <1>4 DEF Kept, Ascending, Numbered
  <1>5. CASE Grown(d)
    <2>1. PICK p \in Packet : p.n = handed[d] + 1 /\ Pipeline(d)' = Append(Pipeline(d), p)
      BY <1>5 DEF Grown
    <2> DEFINE s == Pipeline(d)
               t == Pipeline(d)'
    <2>2. Len(t) = Len(s) + 1 /\ (\A i \in 1..Len(s) : t[i] = s[i]) /\ t[Len(s) + 1] = p
      BY <1>2, <2>1, AppendProperties
    <2>3. \A i \in 1..Len(s) : s[i].n \in Nat /\ s[i].n <= handed[d]
      <3>1. \A i \in 1..Len(s) : s[i] \in Packet
        BY <1>2, ElementOfSeq
      <3>2. \A i \in 1..Len(s) : s[i].n <= handed[d]
        BY <1>1 DEF Numbered
      <3> HIDE DEF s
      <3> QED BY <3>1, <3>2 DEF Packet
    <2>4. \A i, j \in 1..Len(s) : i < j => s[i].n < s[j].n
      BY <1>1 DEF Ascending
    <2>5. handed'[d] = handed[d] + 1
      BY <1>5 DEF Grown
    <2> HIDE DEF s, t
    <2>6. \A i, j \in 1..Len(t) : i < j => t[i].n < t[j].n
      <3> SUFFICES ASSUME NEW i \in 1..Len(t), NEW j \in 1..Len(t), i < j
                   PROVE  t[i].n < t[j].n
        OBVIOUS
      <3>0. Len(s) \in Nat
        BY <1>3 DEF s
      <3>1. i \in 1..Len(s) /\ t[i] = s[i]
        BY <2>2, <3>0
      <3>2. CASE j = Len(s) + 1
        BY <3>1, <3>2, <2>1, <2>2, <2>3, <1>2
      <3>3. CASE j # Len(s) + 1
        <4>1. j \in 1..Len(s) /\ t[j] = s[j]
          BY <3>3, <2>2, <3>0
        <4> QED BY <3>1, <4>1, <2>4
      <3> QED BY <3>2, <3>3
    <2>7. \A i \in 1..Len(t) : t[i].n <= handed'[d]
      <3> SUFFICES ASSUME NEW i \in 1..Len(t)
                   PROVE  t[i].n <= handed'[d]
        OBVIOUS
      <3>1. CASE i = Len(s) + 1
        BY <3>1, <2>1, <2>2, <2>5, <1>2
      <3>2. CASE i # Len(s) + 1
        <4>0. Len(s) \in Nat
          BY <1>3 DEF s
        <4>1. i \in 1..Len(s) /\ t[i] = s[i]
          BY <3>2, <2>2, <4>0
        <4> QED BY <4>1, <2>3, <2>5, <1>2
      <3> QED BY <3>1, <3>2
    <2> QED BY <2>6, <2>7 DEF t, Ascending, Numbered
  <1>6. CASE CutOut(d)
    <2>1. PICK w, b, q \in Seq(Packet) :
             Pipeline(d) = w \o b \o q /\ Pipeline(d)' = w \o q /\ handed'[d] = handed[d]
      BY <1>6 DEF CutOut
    <2> DEFINE s == Pipeline(d)
               t == Pipeline(d)'
    <2>2. /\ Len(w) \in Nat /\ Len(b) \in Nat /\ Len(q) \in Nat
          /\ Len(t) = Len(w) + Len(q) /\ Len(s) = Len(w) + Len(b) + Len(q)
          /\ \A i \in 1..(Len(w) + Len(q)) : t[i] = s[Place(w, b, i)]
      <3>1. /\ Len(w) \in Nat /\ Len(b) \in Nat /\ Len(q) \in Nat
            /\ Len(w \o q) = Len(w) + Len(q)
            /\ Len(w \o b \o q) = Len(w) + Len(b) + Len(q)
            /\ \A i \in 1..(Len(w) + Len(q)) :
                  (w \o q)[i] = (w \o b \o q)[Place(w, b, i)]
        BY CutPlaces
      <3>2. s = w \o b \o q /\ t = w \o q
        BY <2>1
      <3> QED BY ONLY <3>1, <3>2
    <2>3. \A i \in 1..Len(t) : Place(w, b, i) \in 1..Len(s) /\ t[i] = s[Place(w, b, i)]
      BY <2>2 DEF Place
    <2>4. \A i, j \in 1..Len(t) : i < j => Place(w, b, i) < Place(w, b, j)
      BY <2>2 DEF Place
    <2>5. (\A i \in 1..Len(s) : s[i].n <= handed[d])
          /\ \A i, j \in 1..Len(s) : i < j => s[i].n < s[j].n
      BY <1>1 DEF Ascending, Numbered
    <2> HIDE DEF s, t
    <2>6. \A i, j \in 1..Len(t) : i < j => t[i].n < t[j].n
      BY <2>3, <2>4, <2>5
    <2>7. \A i \in 1..Len(t) : t[i].n <= handed'[d]
      BY <2>1, <2>3, <2>5
    <2> QED BY <2>6, <2>7 DEF t, Ascending, Numbered
  <1> QED BY <1>4, <1>5, <1>6 DEF PipelineStep

LEMMA OrderInvStep == TypeInv /\ OrderInv /\ [SenderNext]_senderVars => OrderInv'
  <1> SUFFICES ASSUME TypeInv, OrderInv, [SenderNext]_senderVars, NEW d \in Dest
               PROVE  Ascending(d)' /\ Numbered(d)'
    BY DEF OrderInv
  <1> QED BY PipelineSteps, OrderStep

\* The packets of a destination leave in the order in which they were handed over,
\* and none leaves twice, whichever threads flush and whichever batches are given up.
THEOREM InOrder == SenderSpec => []SentInOrder
  <1>1. OrderInv => SentInOrder
    BY DEF OrderInv, Ascending, SentInOrder
  <1> QED BY TypeInit, TypeStep, OrderInit, OrderInvStep, <1>1, PTL DEF SenderSpec

-----------------------------------------------------------------------------
(* NoneVanishes.                                                           *)

Accounted(d) == {p.n : p \in ToSet(Pipeline(d)) \cup lost[d]} = 1..handed[d]

Apart(d) == ToSet(Pipeline(d)) \cap lost[d] = {}

VanishInv == \A d \in Dest : Accounted(d) /\ Apart(d)

\* The elements of a sequence with one more element,
LEMMA ToSetAppend ==
    ASSUME NEW S, NEW s \in Seq(S), NEW p \in S
    PROVE  ToSet(Append(s, p)) = ToSet(s) \cup {p}
  <1> DEFINE t == Append(s, p)
  <1>1. Len(s) \in Nat /\ DOMAIN s = 1..Len(s)
    BY LenProperties
  <1>2. t \in Seq(S) /\ Len(t) = Len(s) + 1
        /\ (\A i \in 1..Len(s) : t[i] = s[i]) /\ t[Len(s) + 1] = p
    BY AppendProperties
  <1> HIDE DEF t
  <1>3. DOMAIN t = 1..(Len(s) + 1)
    BY <1>2, LenProperties
  <1>4. DOMAIN t = DOMAIN s \cup {Len(s) + 1}
    BY <1>1, <1>3
  <1>5. ToSet(t) = ToSet(s) \cup {p}
    BY <1>1, <1>2, <1>4 DEF ToSet
  <1> QED BY <1>5 DEF t

\* and with a part cut out.
LEMMA ToSetCut ==
    ASSUME NEW w \in Seq(Packet), NEW b \in Seq(Packet), NEW q \in Seq(Packet)
    PROVE  ToSet(w \o b \o q) = ToSet(w \o q) \cup ToSet(b)
  <1>1. \A x, y \in Seq(Packet) : ToSet(x \o y) = ToSet(x) \cup ToSet(y)
    <2>1. \A x, y \in Seq(Packet) : Range(x \o y) = Range(x) \cup Range(y)
      BY RangeConcatenation
    <2>2. \A x : ToSet(x) = Range(x)
      BY DEF Range, ToSet
    <2> QED BY <2>1, <2>2
  <1>2. w \o b \in Seq(Packet)
    BY ConcatProperties
  <1>3. ToSet(w \o b \o q) = ToSet(w) \cup ToSet(b) \cup ToSet(q)
    BY <1>1, <1>2
  <1>4. ToSet(w \o q) = ToSet(w) \cup ToSet(q)
    BY <1>1
  <1> QED BY <1>3, <1>4

\* In an ascending sequence, what is cut out occurs nowhere else.
LEMMA CutApart ==
    ASSUME NEW w \in Seq(Packet), NEW b \in Seq(Packet), NEW q \in Seq(Packet),
           \A i, j \in 1..Len(w \o b \o q) :
              i < j => (w \o b \o q)[i].n < (w \o b \o q)[j].n
    PROVE  ToSet(w \o q) \cap ToSet(b) = {}
  <1> SUFFICES ASSUME NEW p, p \in ToSet(w \o q), p \in ToSet(b)
               PROVE  FALSE
    OBVIOUS
  <1> DEFINE all == w \o b \o q
             cut == w \o q
  <1>1. /\ cut \in Seq(Packet) /\ all \in Seq(Packet)
        /\ Len(w) \in Nat /\ Len(b) \in Nat /\ Len(q) \in Nat
        /\ Len(cut) = Len(w) + Len(q)
        /\ Len(all) = Len(w) + Len(b) + Len(q)
        /\ \A i \in 1..(Len(w) + Len(q)) : cut[i] = all[Place(w, b, i)]
        /\ \A j \in 1..Len(b) : all[Len(w) + j] = b[j]
    BY CutPlaces
  <1>2. \A i, j \in 1..Len(all) : i < j => all[i].n < all[j].n
    OBVIOUS
  <1>3. p \in ToSet(cut)
    OBVIOUS
  <1> HIDE DEF all, cut
  <1>4. PICK i \in 1..(Len(w) + Len(q)) : p = cut[i]
    <2>1. DOMAIN cut = 1..(Len(w) + Len(q))
      BY <1>1, LenProperties
    <2> QED BY <1>3, <2>1 DEF ToSet
  <1>5. PICK j \in 1..Len(b) : p = b[j]
    <2>1. DOMAIN b = 1..Len(b)
      BY LenProperties
    <2> QED BY <2>1 DEF ToSet
  <1> DEFINE k == Place(w, b, i)
             l == Len(w) + j
  <1>6. k \in 1..Len(all) /\ l \in 1..Len(all) /\ (k < l \/ l < k)
    BY <1>1 DEF Place
  <1>7. all[k] = p /\ all[l] = p
    BY <1>1, <1>4, <1>5
  <1> HIDE DEF k, l
  <1>8. p \in Packet
    BY <1>1, <1>6, <1>7, ElementOfSeq
  <1>9. p.n < p.n
    BY <1>2, <1>6, <1>7
  <1> QED BY <1>8, <1>9 DEF Packet

LEMMA VanishInit == SenderInit => VanishInv
  <1> SUFFICES ASSUME SenderInit, NEW d \in Dest
               PROVE  Accounted(d) /\ Apart(d)
    BY DEF VanishInv
  <1>1. InTransit(d) = <<>> /\ wire[d] = <<>> /\ send_queues[d] = <<>>
        /\ lost[d] = {} /\ handed[d] = 0
    BY DEF SenderInit, Free, InTransit
  <1>2. <<>> \in Seq(Packet)
    BY EmptySeq
  <1>3. Pipeline(d) = <<>>
    BY <1>1, <1>2, ConcatEmptySeq DEF Pipeline
  <1>4. ToSet(<<>>) = {}
    BY DEF ToSet
  <1> QED BY <1>1, <1>3, <1>4 DEF Accounted, Apart

LEMMA VanishStep ==
    ASSUME TypeInv, OrderInv, VanishInv, NEW d \in Dest, PipelineStep(d)
    PROVE  Accounted(d)' /\ Apart(d)'
  <1>1. Accounted(d) /\ Apart(d) /\ handed[d] \in Nat
    BY DEF VanishInv, TypeInv, SenderTypeOK
  <1>2. CASE Kept(d)
    BY <1>1, <1>2 DEF Kept, Accounted, Apart
  <1>3. CASE Grown(d)
    <2>1. PICK p \in Packet : p.n = handed[d] + 1 /\ Pipeline(d)' = Append(Pipeline(d), p)
      BY <1>3 DEF Grown
    <2>2. lost'[d] = lost[d] /\ handed'[d] = handed[d] + 1
      BY <1>3 DEF Grown
    <2>3. ToSet(Pipeline(d)') = ToSet(Pipeline(d)) \cup {p}
      BY <2>1, PartTypes, ToSetAppend
    <2>4. {x.n : x \in ToSet(Pipeline(d)) \cup {p} \cup lost[d]}
            = (1..handed[d]) \cup {handed[d] + 1}
      BY <1>1, <2>1 DEF Accounted
    <2>5. (1..handed[d]) \cup {handed[d] + 1} = 1..(handed[d] + 1)
      BY <1>1
    <2>6. p \notin lost[d]
      <3>1. \A x \in lost[d] : x.n \in 1..handed[d]
        BY <1>1 DEF Accounted
      <3> QED BY <3>1, <2>1, <1>1
    <2>7. Accounted(d)'
      BY <2>2, <2>3, <2>4, <2>5 DEF Accounted
    <2>8. Apart(d)'
      BY <1>1, <2>2, <2>3, <2>6 DEF Apart
    <2> QED BY <2>7, <2>8
  <1>4. CASE CutOut(d)
    <2>1. PICK w, b, q \in Seq(Packet) :
             /\ Pipeline(d) = w \o b \o q /\ Pipeline(d)' = w \o q
             /\ lost'[d] = lost[d] \cup ToSet(b) /\ handed'[d] = handed[d]
      BY <1>4 DEF CutOut
    <2>2. ToSet(Pipeline(d)) = ToSet(Pipeline(d)') \cup ToSet(b)
      BY <2>1, ToSetCut
    <2>3. ToSet(Pipeline(d)') \cap ToSet(b) = {}
      <3>1. Ascending(d)
        BY DEF OrderInv
      <3> QED BY <2>1, <3>1, CutApart DEF Ascending
    <2>4. Accounted(d)'
      <3>1. ToSet(Pipeline(d)') \cup lost'[d] = ToSet(Pipeline(d)) \cup lost[d]
        BY <2>1, <2>2
      <3> QED BY <1>1, <2>1, <3>1 DEF Accounted
    <2>5. Apart(d)'
      BY <1>1, <2>1, <2>2, <2>3 DEF Apart
    <2> QED BY <2>4, <2>5
  <1> QED BY <1>2, <1>3, <1>4 DEF PipelineStep

LEMMA VanishInvStep ==
    TypeInv /\ OrderInv /\ VanishInv /\ [SenderNext]_senderVars => VanishInv'
  <1> SUFFICES ASSUME TypeInv, OrderInv, VanishInv, [SenderNext]_senderVars, NEW d \in Dest
               PROVE  Accounted(d)' /\ Apart(d)'
    BY DEF VanishInv
  <1> QED BY PipelineSteps, VanishStep

\* Every packet that was handed over is on the wire, in a batch, in a queue, or in
\* a batch that was given up, and in one of them only.
THEOREM Complete == SenderSpec => []NoneVanishes
  <1>1. VanishInv => NoneVanishes
    BY DEF VanishInv, Accounted, Apart, NoneVanishes
  <1> QED BY TypeInit, TypeStep, OrderInit, OrderInvStep, VanishInit, VanishInvStep, <1>1, PTL
          DEF SenderSpec
=============================================================================
