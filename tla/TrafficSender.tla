--------------------------- MODULE TrafficSender ---------------------------
(***************************************************************************)
(* sender_SFC1.py, a traffic sender: a thread per simulated device puts      *)
(* messages into one buffer, dropping the oldest when it is full, and        *)
(* batch_and_send_1 takes them out in batches, splits a batch into packets   *)
(* and sends the packets, up to twenty in a datagram and each datagram       *)
(* twice.  No thread takes the lock that the file declares for the buffer:   *)
(* a length that was read may be out of date when it is used, and popleft    *)
(* of an empty buffer raises.                                               *)
(* A message is its number in the order of the buffer; of its text there is  *)
(* the size only.  Time is left out: a report of the rate may be due after   *)
(* any datagram.                                                           *)
(***************************************************************************)
EXTENDS Integers, Sequences, SequencesExt, FiniteSets

CONSTANTS
    Device,             \* software_IoT_devices
    Size,               \* of every message, in the packet it is put in
    buffer_size,
    data_batch_size,
    max_packet_size,
    DatagramPackets,    \* packets joined to a datagram: 20
    MaxMessages         \* bound: messages put into the buffer

ASSUME TrafficAssumption ==
    /\ IsFiniteSet(Device) /\ Device # {}
    /\ MaxMessages \in Nat /\ Size \in [1..MaxMessages -> Nat]
    /\ data_batch_size \in Nat \ {0}
    /\ buffer_size \in Nat /\ buffer_size > data_batch_size
    /\ max_packet_size \in Nat
    /\ DatagramPackets \in Nat \ {0}

VARIABLES
    buffer,
    device,         \* per device: its place in the loop of generate_messages
    batcher,        \* batch_and_send_1: pc, messages still to take, batch, datagram and
                    \* whether one of its sends succeeded
    packets_1,
    total,          \* total_bytes_sent_in_last_second, in messages
    history         \* messages put; removed from the buffer by devices, because it
                    \* was full or stale: when it was not; died with the batching
                    \* thread; unsent: both sends failed; left; in printed rates

deviceVars == <<buffer, device>>

trafficVars == <<deviceVars, batcher, packets_1, total, history>>

-----------------------------------------------------------------------------
(* generate_messages                                                       *)

\* Mutant: the limit is not looked at.
AppendAnyway(d) ==
    /\ device[d] = "check"
    /\ history.put + Cardinality({c \in Device : device[c] # "check"}) < MaxMessages
    /\ device' = [device EXCEPT ![d] = "append"]
    /\ UNCHANGED <<buffer, batcher, packets_1, total, history>>

CheckLength(d) ==
    /\ device[d] = "check"
    /\ history.put + Cardinality({c \in Device : device[c] # "check"}) < MaxMessages
    /\ device' = [device EXCEPT ![d] = IF Len(buffer) >= buffer_size THEN "remove" ELSE "append"]
    /\ UNCHANGED <<buffer, batcher, packets_1, total, history>>

RemoveOldest(d) ==
    /\ device[d] = "remove"
    /\ buffer # <<>>
    /\ buffer' = Tail(buffer)
    /\ device' = [device EXCEPT ![d] = "append"]
    /\ history' = IF Len(buffer) >= buffer_size
                  THEN [history EXCEPT !.removed = @ \cup {Head(buffer)}]
                  ELSE [history EXCEPT !.stale = @ \cup {Head(buffer)}]
    /\ UNCHANGED <<batcher, packets_1, total>>

\* IndexError: the device puts nothing more, until it is run again.
NothingToRemove(d) ==
    /\ device[d] = "remove"
    /\ buffer = <<>>
    /\ device' = [device EXCEPT ![d] = "check"]
    /\ UNCHANGED <<buffer, batcher, packets_1, total, history>>

Put(d) ==
    /\ device[d] = "append"
    /\ buffer' = Append(buffer, history.put + 1)
    /\ history' = [history EXCEPT !.put = @ + 1]
    /\ device' = [device EXCEPT ![d] = "check"]
    /\ UNCHANGED <<batcher, packets_1, total>>

generate_messages(d) == CheckLength(d) \/ RemoveOldest(d) \/ NothingToRemove(d) \/ Put(d)

-----------------------------------------------------------------------------
(* batch_and_send_1: batches and packets                                   *)

BeginBatch ==
    /\ batcher.pc = "check"
    /\ Len(buffer) >= data_batch_size
    /\ batcher' = [batcher EXCEPT !.pc = "measure"]
    /\ UNCHANGED <<deviceVars, packets_1, total, history>>

\* Mutant: the limit of a batch is forgotten.
MeasureAll ==
    /\ batcher.pc = "measure"
    /\ batcher' = [batcher EXCEPT !.pc = "take", !.want = Len(buffer)]
    /\ UNCHANGED <<deviceVars, packets_1, total, history>>

\* Mutant: one message more than there are.
MeasureOneMore ==
    /\ batcher.pc = "measure"
    /\ batcher' = [batcher EXCEPT !.pc = "take", !.want = Len(buffer) + 1]
    /\ UNCHANGED <<deviceVars, packets_1, total, history>>

Measure ==
    /\ batcher.pc = "measure"
    /\ batcher' = [batcher EXCEPT !.pc = "take",
                     !.want = IF Len(buffer) < data_batch_size THEN Len(buffer) ELSE data_batch_size]
    /\ UNCHANGED <<deviceVars, packets_1, total, history>>

\* Mutant: the batch is copied and the whole buffer cleared.
CopyAndClear ==
    /\ batcher.pc = "take" /\ batcher.want > 0
    /\ Len(buffer) >= batcher.want
    /\ batcher' = [batcher EXCEPT !.want = 0, !.batch = SubSeq(buffer, 1, batcher.want)]
    /\ buffer' = <<>>
    /\ UNCHANGED <<device, packets_1, total, history>>

TakeMessage ==
    /\ batcher.pc = "take" /\ batcher.want > 0
    /\ buffer # <<>>
    /\ batcher' = [batcher EXCEPT !.want = @ - 1, !.batch = Append(@, Head(buffer))]
    /\ buffer' = Tail(buffer)
    /\ UNCHANGED <<device, packets_1, total, history>>

\* IndexError: the thread is gone, with the messages it had taken.
NothingToTake ==
    /\ batcher.pc = "take" /\ batcher.want > 0
    /\ buffer = <<>>
    /\ batcher' = [batcher EXCEPT !.pc = "dead", !.batch = <<>>]
    /\ history' = [history EXCEPT !.died = @ \cup ToSet(batcher.batch)]
    /\ UNCHANGED <<deviceVars, packets_1, total>>

\* Message n goes into the last packet, or into a new one when it does not fit; a
\* message that is larger than a packet gets one of its own.
PutInPacket(packed, n) ==
    IF packed.size + Size[n] > max_packet_size
    THEN [done |-> IF packed.packet = <<>> THEN packed.done ELSE Append(packed.done, packed.packet),
          packet |-> <<n>>, size |-> Size[n]]
    ELSE [packed EXCEPT !.packet = Append(@, n), !.size = @ + Size[n]]

Packets(batch) ==
    LET packed == FoldLeft(PutInPacket, [done |-> <<>>, packet |-> <<>>, size |-> 0], batch)
    IN  IF packed.packet = <<>> THEN packed.done ELSE Append(packed.done, packed.packet)

SplitBatch ==
    /\ batcher.pc = "take" /\ batcher.want = 0
    /\ packets_1' = packets_1 \o Packets(batcher.batch)
    /\ batcher' = [batcher EXCEPT !.pc = "check", !.batch = <<>>]
    /\ UNCHANGED <<deviceVars, total, history>>

-----------------------------------------------------------------------------
(* send_packets                                                            *)

\* The buffer is short of a batch: send what there is.
BeginSending ==
    /\ batcher.pc = "check"
    /\ Len(buffer) < data_batch_size
    /\ packets_1 # <<>>
    /\ batcher' = [batcher EXCEPT !.pc = "datagram"]
    /\ total' = 0
    /\ UNCHANGED <<deviceVars, packets_1, history>>

TakeDatagram ==
    /\ batcher.pc = "datagram" /\ packets_1 # <<>>
    /\ LET n == IF Len(packets_1) < DatagramPackets THEN Len(packets_1) ELSE DatagramPackets
       IN  /\ batcher' = [batcher EXCEPT !.pc = "first",
                                         !.datagram = FlattenSeq(SubSeq(packets_1, 1, n))]
           /\ packets_1' = SubSeq(packets_1, n + 1, Len(packets_1))
    /\ UNCHANGED <<deviceVars, total, history>>

\* The datagram is sent twice; the exception of a send is printed.
SendFirst ==
    /\ batcher.pc = "first"
    /\ \E sent \in BOOLEAN : batcher' = [batcher EXCEPT !.pc = "second", !.sent = sent]
    /\ UNCHANGED <<deviceVars, packets_1, total, history>>

SendSecond ==
    /\ batcher.pc = "second"
    /\ \E sent \in BOOLEAN : batcher' = [batcher EXCEPT !.pc = "count", !.sent = @ \/ sent]
    /\ UNCHANGED <<deviceVars, packets_1, total, history>>

\* The datagram is counted once, also when neither send succeeded.
CountDatagram ==
    /\ batcher.pc = "count"
    /\ total' = total + Len(batcher.datagram)
    /\ history' = IF batcher.sent
                  THEN [history EXCEPT !.left = @ \o batcher.datagram]
                  ELSE [history EXCEPT !.unsent = @ \cup ToSet(batcher.datagram)]
    /\ batcher' = [batcher EXCEPT !.pc = "report", !.datagram = <<>>, !.sent = FALSE]
    /\ UNCHANGED <<deviceVars, packets_1>>

PrintRate ==
    /\ batcher.pc = "report"
    /\ history' = [history EXCEPT !.printed = @ + total]
    /\ total' = 0
    /\ batcher' = [batcher EXCEPT !.pc = "datagram"]
    /\ UNCHANGED <<deviceVars, packets_1>>

\* Less than a second since the last report.
NotDue ==
    /\ batcher.pc = "report"
    /\ batcher' = [batcher EXCEPT !.pc = "datagram"]
    /\ UNCHANGED <<deviceVars, packets_1, total, history>>

EndSending ==
    /\ batcher.pc = "datagram" /\ packets_1 = <<>>
    /\ batcher' = [batcher EXCEPT !.pc = "check"]
    /\ UNCHANGED <<deviceVars, packets_1, total, history>>

send_packets ==
    TakeDatagram \/ SendFirst \/ SendSecond \/ CountDatagram \/ PrintRate \/ NotDue \/ EndSending

batch_and_send_1 ==
    \/ BeginBatch \/ Measure \/ TakeMessage \/ NothingToTake \/ SplitBatch
    \/ BeginSending
    \/ send_packets

-----------------------------------------------------------------------------
TrafficInit ==
    /\ buffer = <<>>
    /\ device = [d \in Device |-> "check"]
    /\ batcher = [pc |-> "check", want |-> 0, batch |-> <<>>, datagram |-> <<>>, sent |-> FALSE]
    /\ packets_1 = <<>>
    /\ total = 0
    /\ history = [put |-> 0, removed |-> {}, stale |-> {}, died |-> {}, unsent |-> {},
                  left |-> <<>>, printed |-> 0]

TrafficNext == (\E d \in Device : generate_messages(d)) \/ batch_and_send_1

TrafficSpec == TrafficInit /\ [][TrafficNext]_trafficVars

-----------------------------------------------------------------------------
(* Properties                                                              *)

TrafficTypeOK ==
    /\ buffer \in Seq(Nat)
    /\ device \in [Device -> {"check", "remove", "append"}]
    /\ batcher \in [pc : {"check", "measure", "take", "datagram", "first", "second", "count",
                          "report", "dead"},
                    want : 0..data_batch_size, batch : Seq(Nat), datagram : Seq(Nat), sent : BOOLEAN]
    /\ packets_1 \in Seq(Seq(Nat))
    /\ total \in Nat
    /\ history \in [put : Nat, removed : SUBSET Nat, stale : SUBSET Nat, died : SUBSET Nat,
                   unsent : SUBSET Nat, left : Seq(Nat), printed : Nat]

\* The devices look at the limit one by one and append later, all without a lock.
\* Together they overshoot it by less than their number.
BufferBounded == Len(buffer) < buffer_size + Cardinality(Device)

\* Messages from the first that left to the last that was put.
Flight ==
    history.left \o batcher.datagram \o FlattenSeq(packets_1) \o batcher.batch \o buffer

\* The four ways in which a message is lost.
Lost == history.removed \cup history.stale \cup history.died \cup history.unsent

LostOnce ==
    /\ history.removed \cap history.stale = {}
    /\ (history.removed \cup history.stale) \cap history.died = {}
    /\ (history.removed \cup history.stale \cup history.died) \cap history.unsent = {}

\* Every message that was put is in one place only.  It left, in one datagram; or it
\* waits, in the buffer or with the batching thread, for ever once that thread is dead;
\* or it is lost, in one way: a device removed it from a full buffer, or from one that
\* had been full, the batching thread died with it in its batch, or both sends of its
\* datagram failed.  No message overtakes another, and each is in one printed rate at
\* most, the unsent ones like those that left.
EachMessageOnce ==
    /\ \A i, j \in DOMAIN Flight : i < j => Flight[i] < Flight[j]
    /\ ToSet(Flight) \cup Lost = 1..history.put
    /\ ToSet(Flight) \cap Lost = {}
    /\ LostOnce
    /\ history.printed + total <= Len(history.left) + Cardinality(history.unsent)

\* The batching thread takes what it measured a moment ago.  It runs into an empty
\* buffer only if a device acted on a length that was out of date: a device that finds
\* the buffer full when it removes the oldest message never harms it.
DiesOfStaleRemovalOnly == batcher.pc = "dead" => history.stale # {}
=============================================================================
