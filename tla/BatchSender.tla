----------------------------- MODULE BatchSender -----------------------------
(***************************************************************************)
(* The batched sending that every VNF has a copy of: worker threads append  *)
(* packets to a send queue per destination and flush it when it is full, and *)
(* batch_sender_thread flushes the rest every few milliseconds.  A flush     *)
(* empties the queue first and then sends packet by packet, all of it under  *)
(* send_queue_lock; an exception of sendto gives up what is left of the      *)
(* batch.  DPI has one queue per destination under one lock; NAT,            *)
(* Encryption, Compression and the firewalls have one destination.           *)
(***************************************************************************)
EXTENDS Integers, Sequences, SequencesExt, FiniteSets

CONSTANTS
    Thread,         \* the threads that hand packets over
    Flusher,        \* batch_sender_thread
    Targets,        \* the destinations in the order of SFC_TARGETS
    Payload,        \* what a packet carries, as far as a caller cares
    BATCH_SIZE,
    Nobody            \* "send_queue_lock is free"

Dest == ToSet(Targets)

ASSUME SenderAssumption ==
    /\ BATCH_SIZE \in Nat \ {0}
    /\ Flusher \notin Thread
    /\ Nobody \notin Thread \cup {Flusher}
    /\ Targets \in Seq(Dest)
    /\ Len(Targets) > 0
    /\ IsInjective(Targets)

VARIABLES
    send_queues,
    flush,          \* the flush in progress: its thread, destination, unsent packets
    wire,           \* per destination, the packets sendto was called with
    lost,           \* history: per destination, packets of batches given up
    handed          \* history: per destination, the number of packets handed over

senderVars == <<send_queues, flush, wire, lost, handed>>

-----------------------------------------------------------------------------
\* n numbers the packets of a destination in the order they were handed over.
Packet == [n : Nat \ {0}, load : Payload]

Free == [by |-> Nobody, dest |-> Targets[1], batch |-> <<>>, next |-> Len(Targets) + 1]

\* Whoever flushes holds the lock until its batch is sent.
send_queue_lock == flush.by

\* _flush_locked up to the loop: the queue is copied and cleared.  next is where
\* flush_all_batches goes on in Targets; a worker flushes one queue only.
Flushing(t, d, queue, next) ==
    [by |-> t, dest |-> d, batch |-> queue, next |-> next]

\* Mutant: the batch is flushed one packet late.
FlushLate(t, d, queue) ==
    IF Len(queue) > BATCH_SIZE
    THEN /\ send_queues' = [send_queues EXCEPT ![d] = <<>>]
         /\ flush' = Flushing(t, d, queue, Len(Targets) + 1)
    ELSE /\ send_queues' = [send_queues EXCEPT ![d] = queue]
         /\ UNCHANGED flush

\* The queue of d with the packet appended: flush it when it makes a batch.
Queued(t, d, queue) ==
    IF Len(queue) >= BATCH_SIZE
    THEN /\ send_queues' = [send_queues EXCEPT ![d] = <<>>]
         /\ flush' = Flushing(t, d, queue, Len(Targets) + 1)
    ELSE /\ send_queues' = [send_queues EXCEPT ![d] = queue]
         /\ UNCHANGED flush

\* Mutant: the lock is not taken.
SendUnlocked(t, d, load) ==
    /\ Queued(t, d, Append(send_queues[d], [n |-> handed[d] + 1, load |-> load]))
    /\ handed' = [handed EXCEPT ![d] = @ + 1]
    /\ UNCHANGED <<wire, lost>>

batch_send_to_target(t, d, load) ==
    /\ send_queue_lock = Nobody
    /\ Queued(t, d, Append(send_queues[d], [n |-> handed[d] + 1, load |-> load]))
    /\ handed' = [handed EXCEPT ![d] = @ + 1]
    /\ UNCHANGED <<wire, lost>>

SendNext ==
    /\ flush.batch # <<>>
    /\ wire' = [wire EXCEPT ![flush.dest] = Append(@, Head(flush.batch))]
    /\ flush' = [flush EXCEPT !.batch = Tail(@)]
    /\ UNCHANGED <<send_queues, lost, handed>>

\* sendto raises: the exception is logged, the rest of the batch is gone.
SendFails ==
    /\ flush.batch # <<>>
    /\ lost' = [lost EXCEPT ![flush.dest] = @ \cup ToSet(flush.batch)]
    /\ flush' = [flush EXCEPT !.batch = <<>>]
    /\ UNCHANGED <<send_queues, wire, handed>>

\* Mutant: the queue is sent but not cleared.
FlushUncleared(t, i) ==
    /\ flush' = Flushing(t, Targets[i], send_queues[Targets[i]], i + 1)
    /\ UNCHANGED <<send_queues, wire, lost, handed>>

\* Start with the i-th destination of the round of flush_all_batches.
FlushTarget(t, i) ==
    /\ flush' = Flushing(t, Targets[i], send_queues[Targets[i]], i + 1)
    /\ send_queues' = [send_queues EXCEPT ![Targets[i]] = <<>>]
    /\ UNCHANGED <<wire, lost, handed>>

\* Mutant: only the first destination is flushed.
ReleaseAfterFirst ==
    /\ send_queue_lock # Nobody
    /\ flush.batch = <<>>
    /\ flush' = Free
    /\ UNCHANGED <<send_queues, wire, lost, handed>>

\* Mutant: the round runs on behind the last destination.
RunsOn ==
    /\ send_queue_lock # Nobody
    /\ flush.batch = <<>>
    /\ IF flush.next <= Len(Targets)
       THEN FlushTarget(flush.by, flush.next)
       ELSE /\ flush' = [flush EXCEPT !.by = Nobody, !.next = @ + 1]
            /\ UNCHANGED <<send_queues, wire, lost, handed>>

\* The batch is done: on to the next destination, or release the lock.
BatchDone ==
    /\ send_queue_lock # Nobody
    /\ flush.batch = <<>>
    /\ IF flush.next <= Len(Targets)
       THEN FlushTarget(flush.by, flush.next)
       ELSE flush' = Free /\ UNCHANGED <<send_queues, wire, lost, handed>>

\* The timeout of batch_sender_thread; with nothing to send it has no effect.
flush_all_batches ==
    /\ send_queue_lock = Nobody
    /\ \E d \in Dest : send_queues[d] # <<>>
    /\ FlushTarget(Flusher, 1)

-----------------------------------------------------------------------------
SenderInit ==
    /\ send_queues = [d \in Dest |-> <<>>]
    /\ flush = Free
    /\ wire = [d \in Dest |-> <<>>]
    /\ lost = [d \in Dest |-> {}]
    /\ handed = [d \in Dest |-> 0]

\* What the thread that holds the lock does next.
FlushStep == SendNext \/ SendFails \/ BatchDone

SenderNext ==
    \/ \E t \in Thread, d \in Dest, load \in Payload : batch_send_to_target(t, d, load)
    \/ flush_all_batches
    \/ FlushStep

SenderSpec == SenderInit /\ [][SenderNext]_senderVars

\* sendto returns, and batch_sender_thread gets the lock in spite of the workers.
SenderFairness == WF_senderVars(FlushStep) /\ SF_senderVars(flush_all_batches)

-----------------------------------------------------------------------------
(* Properties                                                              *)

SenderTypeOK ==
    /\ send_queues \in [Dest -> Seq(Packet)]
    /\ flush \in [by : Thread \cup {Flusher, Nobody}, dest : Dest, batch : Seq(Packet),
                  next : 1..(Len(Targets) + 1)]
    /\ wire \in [Dest -> Seq(Packet)]
    /\ lost \in [Dest -> SUBSET Packet]
    /\ handed \in [Dest -> Nat]

\* The batch in transit to d.
InTransit(d) == IF flush.dest = d THEN flush.batch ELSE <<>>

\* Everything handed over for d that was not given up, from the wire backwards.
Pipeline(d) == wire[d] \o InTransit(d) \o send_queues[d]

\* The packets of a destination leave in the order in which they were handed
\* over, and none leaves twice, whichever threads flush.
SentInOrder ==
    \A d \in Dest : \A i, j \in 1..Len(Pipeline(d)) :
        i < j => Pipeline(d)[i].n < Pipeline(d)[j].n

\* A packet that was handed over is on the wire, in the batch, in the queue, or
\* in a batch given up after an exception of sendto; it is in one of them only.
NoneVanishes ==
    \A d \in Dest :
        {p.n : p \in ToSet(Pipeline(d)) \cup lost[d]} = 1..handed[d]
        /\ ToSet(Pipeline(d)) \cap lost[d] = {}

\* Whenever the lock is free, every queue is short of a batch: however many
\* threads append, the memory the sender holds is bounded.
BacklogBounded ==
    /\ send_queue_lock = Nobody => \A d \in Dest : Len(send_queues[d]) < BATCH_SIZE
    /\ Len(flush.batch) + Len(send_queues[flush.dest]) <= BATCH_SIZE

\* A queue with a packet is emptied, also when the traffic to its destination
\* stops before the batch is full and the other destinations are busy.
QueueDrains == \A d \in Dest : send_queues[d] # <<>> ~> send_queues[d] = <<>>
=============================================================================
