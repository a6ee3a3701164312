---------------------------- MODULE VnfPipeline ----------------------------
(***************************************************************************)
(* The process of a VNF: packets come in, worker threads count them, work on *)
(* them and hand them to the batch sender, and a timer reports the KPIs of a *)
(* window to the monitor.  The five VNFs are variations of it, and vnf_name  *)
(* says which one runs:                                                      *)
(*   - Compression, NAT and DPI have a bounded queue and a pool of workers;  *)
(*     Encryption works in its receiver's thread, the firewall in sniff's,   *)
(*     and their queue is the buffer of the kernel's socket;                 *)
(*   - DPI counts a packet after sending it, the others before;              *)
(*   - an exception ends a worker of Compression and NAT, DPI and Encryption *)
(*     catch it;                                                             *)
(*   - the firewall reads its KPI window, posts it and closes it, all under  *)
(*     the lock that counting needs; the others close it before they post.   *)
(* What a payload becomes and the memory tracker (MemoryTracker) are left    *)
(* out; NatVnf adds NAT's translation.                                       *)
(***************************************************************************)
EXTENDS BatchSender

CONSTANTS
    VnfName,        \* the VNFs the process may be
    Raw,            \* packets, as far as the VNFs tell them apart
    Malformed,      \* a packet without an IP layer or, where one is needed, payload
    NoPacket,
    Route,          \* DPI: SFC_TARGETS, from a packet to its destination
    MainThread,     \* the thread that receives, in a VNF without workers
    QUEUE_SIZE,
    MaxAccepted,    \* bound, per VNF: packets accepted by the receiver
    MaxRaises,      \* bound: packets whose processing raises
    MaxWindows      \* bound: KPI windows

ASSUME VnfAssumption ==
    /\ VnfName \subseteq {"firewall", "dpi", "encryption", "compression", "nat"}
    /\ Malformed \in Raw /\ NoPacket \notin Raw
    /\ Route \in [Raw \ {Malformed} -> Dest]
    /\ IsFiniteSet(Thread) /\ MainThread \in Thread
    /\ QUEUE_SIZE \in Nat \ {0}
    /\ MaxAccepted \in [VnfName -> Nat] /\ MaxRaises \in Nat /\ MaxWindows \in Nat

VARIABLES
    vnf_name,       \* the VNF that this process is
    packet_queue,
    worker,         \* per worker: pc and the packet it has not handed over yet
    traffic_bytes, processing_times,    \* the KPI window: packets and delays in it
    kpi,            \* the timer thread: its pc and the window it is posting
    vnf             \* history: per destination, packets accepted and ended without
                    \* being handed over; raised, counted; bytes and delays reported

kpiVars == <<traffic_bytes, processing_times, kpi>>

pipelineVars == <<senderVars, vnf_name, packet_queue, worker, kpiVars, vnf>>

-----------------------------------------------------------------------------
(* What the VNFs do with a packet: from each step to the next one           *)

FirewallSteps == [get |-> "count", count |-> "send", send |-> "record"]

DpiSteps == [get |-> "send", send |-> "count", count |-> "record"]

EncryptionSteps == [get |-> "count", count |-> "send", send |-> "record"]

CompressionSteps == [get |-> "count", count |-> "send", send |-> "record"]

NatSteps == [get |-> "count", count |-> "translate", translate |-> "send", send |-> "record"]

Steps == [firewall |-> FirewallSteps, dpi |-> DpiSteps, encryption |-> EncryptionSteps,
          compression |-> CompressionSteps, nat |-> NatSteps]

\* The threads that take packets.
Workers == IF vnf_name \in {"firewall", "encryption"} THEN {MainThread} ELSE Thread

RouteOf(packet) == IF vnf_name = "dpi" THEN Route[packet] ELSE Targets[1]

\* AF_PACKET shows DPI every frame, and it looks at what comes from a firewall only.
\* The other VNFs stand in one chain, and some packets they get are not IP.
PassesFilter(packet) ==
    IF vnf_name = "dpi" THEN packet # Malformed
    ELSE packet # Malformed => Route[packet] = Targets[1]

\* Mutant: the firewall's POST is outside the lock, the window's reset is not.
LockNotHeld == TRUE

\* The lock of the KPI window is held for long by the firewall's POST only.
LockFree == vnf_name = "firewall" => kpi.pc = "timer"

-----------------------------------------------------------------------------
(* The receiver and the workers                                            *)

Waiting == [pc |-> "get", packet |-> NoPacket]

Continue(w) == worker' = [worker EXCEPT ![w].pc = Steps[vnf_name][@]]

\* recvfrom and put_nowait: a full queue drops the packet and changes nothing,
\* and neither does a packet that is not for this VNF.
Receive(packet) ==
    /\ vnf.received < MaxAccepted[vnf_name]
    /\ Len(packet_queue) < QUEUE_SIZE
    /\ PassesFilter(packet)
    /\ packet_queue' = Append(packet_queue, packet)
    /\ vnf' = [vnf EXCEPT !.received = @ + 1, !.accepted[RouteOf(packet)] = @ + 1]
    /\ UNCHANGED <<senderVars, vnf_name, worker, kpiVars>>

\* Mutant: the packet stays in the queue while a worker has it.
GetShared(w) ==
    /\ w \in Workers
    /\ worker[w].pc = "get"
    /\ packet_queue # <<>>
    /\ worker' = [worker EXCEPT ![w] = [pc |-> Steps[vnf_name].get, packet |-> Head(packet_queue)]]
    /\ UNCHANGED <<senderVars, vnf_name, packet_queue, kpiVars, vnf>>

Get(w) ==
    /\ w \in Workers
    /\ worker[w].pc = "get"
    /\ packet_queue # <<>>
    /\ worker' = [worker EXCEPT ![w] = [pc |-> Steps[vnf_name].get, packet |-> Head(packet_queue)]]
    /\ packet_queue' = Tail(packet_queue)
    /\ UNCHANGED <<senderVars, vnf_name, kpiVars, vnf>>

\* The worker's packet ends without being handed over.
Ended(w) == [vnf EXCEPT !.ended[RouteOf(worker[w].packet)] = @ + 1]

\* Mutant: a malformed packet ends the worker's loop.
DiscardAndBreak(w) ==
    /\ worker[w].pc = "count"
    /\ worker[w].packet = Malformed
    /\ worker' = [worker EXCEPT ![w] = [Waiting EXCEPT !.pc = "dead"]]
    /\ vnf' = Ended(w)
    /\ UNCHANGED <<senderVars, vnf_name, packet_queue, kpiVars>>

\* The processing returns at once.
Discard(w) ==
    /\ worker[w].pc = "count"
    /\ worker[w].packet = Malformed
    /\ worker' = [worker EXCEPT ![w] = Waiting]
    /\ vnf' = Ended(w)
    /\ UNCHANGED <<senderVars, vnf_name, packet_queue, kpiVars>>

\* A worker that flushed a batch is back when it has released the lock.
CountBytes(w) ==
    /\ worker[w].pc = "count"
    /\ worker[w].packet # Malformed
    /\ send_queue_lock # w
    /\ LockFree
    /\ traffic_bytes' = traffic_bytes + 1
    /\ vnf' = [vnf EXCEPT !.counted = @ + 1]
    /\ Continue(w)
    /\ UNCHANGED <<senderVars, vnf_name, packet_queue, processing_times, kpi>>

HandOver(w, load) ==
    /\ worker[w].pc = "send"
    /\ batch_send_to_target(w, RouteOf(worker[w].packet), load)
    /\ worker' = [worker EXCEPT ![w] = [pc |-> Steps[vnf_name].send, packet |-> NoPacket]]
    /\ UNCHANGED <<vnf_name, packet_queue, kpiVars, vnf>>

RecordDelay(w) ==
    /\ worker[w].pc = "record"
    /\ send_queue_lock # w
    /\ LockFree
    /\ processing_times' = processing_times + 1
    /\ worker' = [worker EXCEPT ![w] = Waiting]
    /\ UNCHANGED <<senderVars, vnf_name, packet_queue, traffic_bytes, kpi, vnf>>

-----------------------------------------------------------------------------
(* Exceptions of the processing, before the packet is handed over            *)

RaiseTo(w, pc) ==
    /\ worker[w].pc = "send"
    /\ vnf.raised < MaxRaises
    /\ worker' = [worker EXCEPT ![w] = [Waiting EXCEPT !.pc = pc]]
    /\ vnf' = [Ended(w) EXCEPT !.raised = @ + 1]
    /\ UNCHANGED <<senderVars, vnf_name, packet_queue, kpiVars>>

\* Nothing catches it: the worker's thread is gone.
WorkerDies(w) == vnf_name \in {"compression", "nat"} /\ RaiseTo(w, "dead")

\* The loop of udp_receiver goes on; the packet leaves no delay.
ReceiverCatches(w) == vnf_name = "encryption" /\ RaiseTo(w, "get")

\* The finally clause leaves the delay of a packet whose bytes were not counted.
DpiCatches(w) == vnf_name = "dpi" /\ RaiseTo(w, "record")

Raise(w) == WorkerDies(w) \/ ReceiverCatches(w) \/ DpiCatches(w)

-----------------------------------------------------------------------------
(* KPI reports                                                             *)

\* The locked part of send_kpi_data: the window is read and a new one begun.
CloseWindow ==
    /\ vnf_name # "firewall" /\ kpi.pc = "timer" /\ vnf.windows < MaxWindows
    /\ kpi' = [kpi EXCEPT !.pc = "post"]
    /\ vnf' = [vnf EXCEPT !.windows = @ + 1, !.bytes = @ + traffic_bytes,
                          !.delays = @ + processing_times]
    /\ traffic_bytes' = 0
    /\ processing_times' = 0
    /\ UNCHANGED <<senderVars, vnf_name, packet_queue, worker>>

\* The report is answered or fails after two seconds; the next timer is started.
Posted ==
    /\ vnf_name # "firewall" /\ kpi.pc = "post"
    /\ kpi' = [kpi EXCEPT !.pc = "timer"]
    /\ UNCHANGED <<senderVars, vnf_name, packet_queue, worker, traffic_bytes,
                   processing_times, vnf>>

\* The firewall reads the window and posts it, with the lock.
PostWindow ==
    /\ vnf_name = "firewall" /\ kpi.pc = "timer" /\ vnf.windows < MaxWindows
    /\ kpi' = [pc |-> "post", bytes |-> traffic_bytes, delays |-> processing_times]
    /\ vnf' = [vnf EXCEPT !.windows = @ + 1]
    /\ UNCHANGED <<senderVars, vnf_name, packet_queue, worker, traffic_bytes, processing_times>>

\* Answered or failed: the window is closed, whatever was added to it meanwhile.
CloseAfterPost ==
    /\ vnf_name = "firewall" /\ kpi.pc = "post"
    /\ vnf' = [vnf EXCEPT !.bytes = @ + kpi.bytes, !.delays = @ + kpi.delays]
    /\ traffic_bytes' = 0
    /\ processing_times' = 0
    /\ kpi' = [pc |-> "timer", bytes |-> 0, delays |-> 0]
    /\ UNCHANGED <<senderVars, vnf_name, packet_queue, worker>>

PostEnds == Posted \/ CloseAfterPost

Report == CloseWindow \/ PostWindow \/ PostEnds

-----------------------------------------------------------------------------
PipelineInit ==
    /\ SenderInit
    /\ vnf_name \in VnfName
    /\ packet_queue = <<>>
    /\ worker = [w \in Thread |-> Waiting]
    /\ traffic_bytes = 0
    /\ processing_times = 0
    /\ kpi = [pc |-> "timer", bytes |-> 0, delays |-> 0]
    /\ vnf = [received |-> 0, accepted |-> [d \in Dest |-> 0], ended |-> [d \in Dest |-> 0],
              raised |-> 0, counted |-> 0, windows |-> 0, bytes |-> 0, delays |-> 0]

\* A step of the batch sender alone.
Sender(action) == action /\ UNCHANGED <<vnf_name, packet_queue, worker, kpiVars, vnf>>

\* The steps for which a worker needs a lock.
Locking(w) == CountBytes(w) \/ HandOver(w, worker[w].packet) \/ RecordDelay(w)

Work(w) == Get(w) \/ Discard(w) \/ Locking(w)

PipelineNext ==
    \/ \E packet \in Raw : Receive(packet)
    \/ \E w \in Thread : Work(w) \/ Raise(w)
    \/ Sender(flush_all_batches)
    \/ Sender(FlushStep)
    \/ Report

PipelineSpec == PipelineInit /\ [][PipelineNext]_pipelineVars

\* Each thread runs on and gets the locks it asks for, and a POST ends, by its
\* timeout if not by an answer.  Nothing is assumed of the receiver, of when the timer
\* fires, or of what the processing raises.
PipelineFairness ==
    /\ \A w \in Thread : WF_pipelineVars(Work(w)) /\ SF_pipelineVars(Locking(w))
    /\ WF_pipelineVars(Sender(FlushStep))
    /\ SF_pipelineVars(Sender(flush_all_batches))
    /\ WF_pipelineVars(PostEnds)

-----------------------------------------------------------------------------
(* Properties                                                              *)

PipelineTypeOK ==
    /\ SenderTypeOK
    /\ vnf_name \in VnfName
    /\ packet_queue \in Seq(Raw)
    /\ worker \in [Thread -> [pc : {"get", "count", "translate", "send", "record", "dead"},
                             packet : Raw \cup {NoPacket}]]
    /\ traffic_bytes \in Nat
    /\ processing_times \in Nat
    /\ kpi \in [pc : {"timer", "post"}, bytes : Nat, delays : Nat]
    /\ vnf \in [received : Nat, accepted : [Dest -> Nat], ended : [Dest -> Nat], raised : Nat,
               counted : Nat, windows : Nat, bytes : Nat, delays : Nat]

At(pcs) == {w \in Thread : worker[w].pc \in pcs}

Holding == {w \in Thread : worker[w].packet # NoPacket}

\* Every packet the receiver accepted for a destination is in the queue, with one
\* worker, handed over to that destination's batch, or ended before that: none is
\* processed twice, none disappears, none goes to the other chain.
EachProcessedOnce ==
    \A d \in Dest :
        vnf.accepted[d] =
            Cardinality({i \in DOMAIN packet_queue : RouteOf(packet_queue[i]) = d})
            + Cardinality({w \in Holding : RouteOf(worker[w].packet) = d})
            + vnf.ended[d] + handed[d]

\* However fast packets arrive and however slow the workers and the socket are,
\* the packets on their way through the VNF are at most a full queue, one per worker
\* and, per destination, a batch but one: a batch is complete only when the worker
\* that completed it is busy sending it.  It does not bound the process's memory: the
\* memory tracker keeps a copy of every packet for thirty seconds, without a limit.
HeldPacketsBounded ==
    \A d \in Dest :
        Len(packet_queue) + Cardinality(Holding) + Len(send_queues[d]) + Len(InTransit(d))
            <= QUEUE_SIZE + Cardinality(Workers) + BATCH_SIZE - 1

\* The workers whose packet is counted and has not left its delay yet.
Counted == IF vnf_name = "dpi" THEN At({"record"}) ELSE At({"translate", "send", "record"})

\* What the KPI windows report adds up: each counted packet is in exactly one
\* window, and so is each delay, although workers count while windows are read,
\* posted and reset.  A packet that raised leaves no delay, in DPI a delay only.
KpisAddUp ==
    /\ vnf.bytes + traffic_bytes = vnf.counted
    /\ vnf.delays + processing_times + Cardinality(Counted) =
         IF vnf_name = "dpi" THEN vnf.counted + vnf.raised ELSE vnf.counted - vnf.raised

\* As long as one worker is alive, every accepted packet is processed, and a monitor
\* that does not answer stops no VNF for good.
QueueIsServed == packet_queue # <<>> ~> packet_queue = <<>>
=============================================================================
