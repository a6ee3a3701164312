------------------------- MODULE VnfPipeline_proofs -------------------------
(***************************************************************************)
(* Theorems about the process of a VNF, for any of the five VNFs, any number *)
(* of workers and packets, any queue and batch size.  Its batch sender is the *)
(* one of BatchSender, whose theorems carry over.                            *)
(***************************************************************************)
EXTENDS VnfPipeline, BatchSender_proofs, FiniteSetTheorems

-----------------------------------------------------------------------------
(* Type correctness, and where packets may be.                             *)

Sendable == Raw \ {Malformed}

\* The batch sender carries what the workers hand over.
Carried == Sendable \subseteq Payload

WorkerType ==
    [pc : {"get", "count", "translate", "send", "record", "dead"}, packet : Raw \cup {NoPacket}]

VnfType ==
    [received : Nat, accepted : [Dest -> Nat], ended : [Dest -> Nat], raised : Nat,
     counted : Nat, windows : Nat, bytes : Nat, delays : Nat]

\* DPI counts a packet that it has handed over, the others count it before.
PacketAt(w) ==
    /\ worker[w].pc \in {"get", "record", "dead"} => worker[w].packet = NoPacket
    /\ worker[w].pc \in {"send", "translate"} => worker[w].packet \in Sendable
    /\ worker[w].pc = "count" =>
         IF vnf_name = "dpi" THEN worker[w].packet = NoPacket ELSE worker[w].packet \in Raw

\* DPI's capture takes no frame that it could not route.
QueueRoutable == vnf_name = "dpi" => \A i \in DOMAIN packet_queue : packet_queue[i] # Malformed

\* The bound of queue.Queue.
QueueInBounds == Len(packet_queue) <= QUEUE_SIZE

PipeTypes ==
    /\ vnf_name \in VnfName
    /\ packet_queue \in Seq(Raw)
    /\ worker \in [Thread -> WorkerType]
    /\ traffic_bytes \in Nat /\ processing_times \in Nat
    /\ kpi \in [pc : {"timer", "post"}, bytes : Nat, delays : Nat]
    /\ vnf \in VnfType

\* The steps of a VNF that may hand over more than the packet, as NAT does with the port
\* that it gives a packet between counting and sending it.
HandsOver(w) == \E load \in Payload : HandOver(w, load)

Translates(w) ==
    /\ vnf_name = "nat" /\ worker[w].pc = "translate"
    /\ Continue(w)
    /\ UNCHANGED <<senderVars, vnf_name, packet_queue, kpiVars, vnf>>

AnyWork(w) ==
    Get(w) \/ Discard(w) \/ CountBytes(w) \/ HandsOver(w) \/ RecordDelay(w) \/ Raise(w)
      \/ Translates(w)

AnyNext ==
    \/ \E packet \in Raw : Receive(packet)
    \/ \E w \in Thread : AnyWork(w)
    \/ Sender(flush_all_batches)
    \/ Sender(FlushStep)
    \/ Report

PipeInv ==
    /\ TypeInv
    /\ PipeTypes
    /\ \A w \in Thread : PacketAt(w)
    /\ QueueRoutable /\ QueueInBounds

\* The places that follow one another, as far as the proofs tell the VNFs apart.
LEMMA StepsFacts ==
    ASSUME vnf_name \in VnfName
    PROVE  /\ Steps[vnf_name].get = IF vnf_name = "dpi" THEN "send" ELSE "count"
           /\ Steps[vnf_name].send = IF vnf_name = "dpi" THEN "count" ELSE "record"
           /\ Steps[vnf_name]["count"] = CASE vnf_name = "dpi" -> "record"
                                           [] vnf_name = "nat" -> "translate"
                                           [] OTHER -> "send"
           /\ vnf_name = "nat" => Steps[vnf_name].translate = "send"
  <1>1. vnf_name \in {"firewall", "dpi", "encryption", "compression", "nat"}
    BY VnfAssumption DEF VnfAssumption
  <1> QED
    BY <1>1 DEF Steps, FirewallSteps, DpiSteps, EncryptionSteps, CompressionSteps, NatSteps

\* Every packet has a destination.
LEMMA RouteFacts ==
    ASSUME vnf_name \in VnfName, NEW p \in Raw, vnf_name = "dpi" => p # Malformed
    PROVE  RouteOf(p) \in Dest
  <1>1. Targets[1] \in Dest
    BY TargetFacts
  <1>2. p # Malformed => Route[p] \in Dest
    BY VnfAssumption DEF VnfAssumption
  <1> QED BY <1>1, <1>2 DEF RouteOf

LEMMA PipeInit == PipelineInit => PipeInv
  <1> SUFFICES ASSUME PipelineInit
               PROVE  PipeInv
    OBVIOUS
  <1>1. TypeInv
    BY TypeInit DEF PipelineInit
  <1>2. PipeTypes
    BY DEF PipelineInit, PipeTypes, WorkerType, VnfType, Waiting
  <1>3. \A w \in Thread : PacketAt(w)
    BY DEF PipelineInit, PacketAt, Waiting
  <1>4. packet_queue = <<>> /\ Len(<<>>) = 0 /\ DOMAIN packet_queue = {}
    BY DEF PipelineInit
  <1>5. QueueRoutable /\ QueueInBounds
    BY <1>4, VnfAssumption DEF QueueRoutable, QueueInBounds, VnfAssumption
  <1> QED BY <1>1, <1>2, <1>3, <1>5 DEF PipeInv

\* A worker that moves on keeps the others where they are.
LEMMA WorkerMoves ==
    ASSUME PipeInv, NEW w \in Thread, NEW new \in WorkerType, vnf_name' = vnf_name,
           worker' = [worker EXCEPT ![w] = new], PacketAt(w)'
    PROVE  /\ worker' \in [Thread -> WorkerType]
           /\ \A v \in Thread : PacketAt(v)'
  BY DEF PipeInv, PipeTypes, PacketAt

LEMMA ReceiveKeeps ==
    ASSUME PipeInv, NEW packet \in Raw, Receive(packet)
    PROVE  PipeInv'
  <1>1. TypeInv'
    BY DEF PipeInv, Receive, TypeInv, SenderTypeOK, IdleWhenFree, senderVars, send_queue_lock
  <1>2. vnf_name \in VnfName /\ packet_queue \in Seq(Raw)
    BY DEF PipeInv, PipeTypes
  <1>3. vnf_name = "dpi" => packet # Malformed
    BY DEF Receive, PassesFilter
  <1>4. /\ packet_queue' \in Seq(Raw)
        /\ Len(packet_queue') = Len(packet_queue) + 1
        /\ \A i \in 1..Len(packet_queue') :
              packet_queue'[i] = IF i <= Len(packet_queue) THEN packet_queue[i] ELSE packet
    BY <1>2, AppendProperties DEF Receive
  <1>5. Len(packet_queue) \in Nat /\ DOMAIN packet_queue = 1..Len(packet_queue)
        /\ DOMAIN packet_queue' = 1..Len(packet_queue')
    BY <1>2, <1>4, LenProperties
  <1>6. QueueInBounds'
    BY <1>4, <1>5, VnfAssumption DEF Receive, QueueInBounds, VnfAssumption
  <1>7. QueueRoutable'
    BY <1>3, <1>4, <1>5 DEF PipeInv, QueueRoutable, Receive
  <1>8. vnf' \in VnfType
    <2> DEFINE accepted == [vnf.accepted EXCEPT ![RouteOf(packet)] = @ + 1]
    <2>1. vnf \in VnfType /\ vnf.received + 1 \in Nat
      BY DEF PipeInv, PipeTypes, VnfType
    <2>2. accepted \in [Dest -> Nat]
      BY <1>2, <1>3, <2>1, RouteFacts DEF VnfType
    <2>3. vnf' = [vnf EXCEPT !.received = @ + 1, !.accepted = accepted]
      BY <2>1 DEF Receive, VnfType
    <2> HIDE DEF accepted
    <2> QED BY <2>1, <2>2, <2>3 DEF VnfType
  <1>9. PipeTypes' /\ \A w \in Thread : PacketAt(w)'
    BY <1>4, <1>8 DEF PipeInv, PipeTypes, PacketAt, Receive, kpiVars
  <1> QED BY <1>1, <1>6, <1>7, <1>9 DEF PipeInv

\* A step that leaves the sender alone.
LEMMA SenderKept == TypeInv /\ UNCHANGED senderVars => TypeInv'
  BY DEF TypeInv, SenderTypeOK, IdleWhenFree, senderVars, send_queue_lock

\* The packet at the head goes to a worker.
LEMMA GetKeeps ==
    ASSUME PipeInv, NEW w \in Thread, Get(w)
    PROVE  PipeInv'
  <1> DEFINE new == [pc |-> Steps[vnf_name].get, packet |-> Head(packet_queue)]
  <1>1. vnf_name \in VnfName /\ packet_queue \in Seq(Raw) /\ packet_queue # <<>>
    BY DEF PipeInv, PipeTypes, Get
  <1>2. /\ Head(packet_queue) \in Raw /\ Tail(packet_queue) \in Seq(Raw)
        /\ Len(Tail(packet_queue)) = Len(packet_queue) - 1
        /\ \A i \in 1..Len(Tail(packet_queue)) : Tail(packet_queue)[i] = packet_queue[i + 1]
    BY <1>1, HeadTailProperties
  <1>3. /\ Len(packet_queue) \in Nat \ {0} /\ DOMAIN packet_queue = 1..Len(packet_queue)
        /\ Head(packet_queue) = packet_queue[1]
        /\ DOMAIN Tail(packet_queue) = 1..Len(Tail(packet_queue))
    BY <1>1, <1>2, LenProperties, EmptySeq
  <1>4. QueueRoutable' /\ QueueInBounds'
    BY <1>2, <1>3, VnfAssumption
       DEF PipeInv, QueueRoutable, QueueInBounds, Get, VnfAssumption
  <1>5. new.pc = (IF vnf_name = "dpi" THEN "send" ELSE "count") /\ new.packet \in Raw
        /\ new \in WorkerType
    BY <1>1, <1>2, StepsFacts DEF WorkerType
  <1>6. vnf_name = "dpi" => new.packet # Malformed
    BY <1>3 DEF PipeInv, QueueRoutable
  <1>7. worker' = [worker EXCEPT ![w] = new] /\ vnf_name' = vnf_name
    BY DEF Get
  <1>8. worker'[w] = new
    BY <1>7 DEF PipeInv, PipeTypes
  <1> HIDE DEF new
  <1>9. PacketAt(w)'
    BY <1>5, <1>6, <1>7, <1>8 DEF PacketAt, Sendable
  <1>10. worker' \in [Thread -> WorkerType] /\ \A v \in Thread : PacketAt(v)'
    BY <1>5, <1>7, <1>9, WorkerMoves
  <1>11. TypeInv' /\ PipeTypes'
    BY <1>2, <1>10, SenderKept DEF PipeInv, PipeTypes, Get, kpiVars
  <1> QED BY <1>4, <1>10, <1>11 DEF PipeInv

\* A packet of a worker that ends is ended once more for its destination.
LEMMA EndedType ==
    ASSUME PipeInv, NEW w \in Thread, worker[w].packet \in Raw,
           vnf_name = "dpi" => worker[w].packet # Malformed
    PROVE  /\ Ended(w) \in VnfType
           /\ \A d \in Dest : Ended(w).ended[d] = vnf.ended[d] +
                                IF d = RouteOf(worker[w].packet) THEN 1 ELSE 0
           /\ \E e \in [Dest -> Nat] : Ended(w) = [vnf EXCEPT !.ended = e]
  <1> DEFINE e == [vnf.ended EXCEPT ![RouteOf(worker[w].packet)] = @ + 1]
  <1>1. vnf \in VnfType /\ vnf.ended \in [Dest -> Nat]
    BY DEF PipeInv, PipeTypes, VnfType
  <1>2. RouteOf(worker[w].packet) \in Dest
    BY RouteFacts DEF PipeInv, PipeTypes
  <1>3. e \in [Dest -> Nat]
        /\ \A d \in Dest : e[d] = vnf.ended[d] + IF d = RouteOf(worker[w].packet) THEN 1 ELSE 0
    BY <1>1, <1>2
  <1>4. Ended(w) = [vnf EXCEPT !.ended = e]
    BY <1>1 DEF Ended, VnfType
  <1> HIDE DEF e
  <1>5. Ended(w) \in VnfType /\ Ended(w).ended = e
    BY <1>1, <1>3, <1>4 DEF VnfType
  <1> QED BY <1>3, <1>4, <1>5

\* DPI never sees a malformed packet here.
LEMMA DiscardKeeps ==
    ASSUME PipeInv, NEW w \in Thread, Discard(w)
    PROVE  PipeInv'
  <1>1. worker[w].packet = Malformed /\ worker[w].packet \in Raw /\ vnf_name # "dpi"
    BY VnfAssumption DEF PipeInv, PacketAt, Discard, VnfAssumption
  <1>2. Waiting \in WorkerType
    BY DEF Waiting, WorkerType
  <1>3. worker' = [worker EXCEPT ![w] = Waiting] /\ vnf_name' = vnf_name
        /\ vnf' = Ended(w) /\ worker'[w] = Waiting
    BY DEF Discard, PipeInv, PipeTypes
  <1>4. PacketAt(w)'
    BY <1>3 DEF PacketAt, Waiting
  <1>5. worker' \in [Thread -> WorkerType] /\ \A v \in Thread : PacketAt(v)'
    BY <1>2, <1>3, <1>4, WorkerMoves
  <1>6. vnf' \in VnfType
    BY <1>1, <1>3, EndedType
  <1>7. TypeInv' /\ PipeTypes' /\ QueueRoutable' /\ QueueInBounds'
    BY <1>5, <1>6, SenderKept
       DEF PipeInv, PipeTypes, Discard, kpiVars, QueueRoutable, QueueInBounds
  <1> QED BY <1>5, <1>7 DEF PipeInv

\* The packet stays with the worker that counts it.
LEMMA CountKeeps ==
    ASSUME PipeInv, NEW w \in Thread, CountBytes(w)
    PROVE  PipeInv'
  <1> DEFINE new == [worker[w] EXCEPT !.pc = Steps[vnf_name]["count"]]
  <1>1. worker[w] \in WorkerType /\ vnf_name \in VnfName /\ worker[w].pc = "count"
    BY DEF PipeInv, PipeTypes, CountBytes
  <1>2. new \in WorkerType /\ new.packet = worker[w].packet
        /\ new.pc = CASE vnf_name = "dpi" -> "record" [] vnf_name = "nat" -> "translate"
                      [] OTHER -> "send"
    BY <1>1, StepsFacts DEF WorkerType
  <1>3. worker' = [worker EXCEPT ![w] = new] /\ vnf_name' = vnf_name
    BY <1>1 DEF CountBytes, Continue, WorkerType
  <1>4. worker'[w] = new
    BY <1>3 DEF PipeInv, PipeTypes
  <1> HIDE DEF new
  <1>5. IF vnf_name = "dpi" THEN worker[w].packet = NoPacket ELSE worker[w].packet \in Sendable
    BY <1>1 DEF PipeInv, PacketAt, Sendable, CountBytes
  <1>6. PacketAt(w)'
    BY <1>2, <1>3, <1>4, <1>5 DEF PacketAt
  <1>7. worker' \in [Thread -> WorkerType] /\ \A v \in Thread : PacketAt(v)'
    BY <1>2, <1>3, <1>6, WorkerMoves
  <1>8. vnf' \in VnfType /\ traffic_bytes' \in Nat
    <2>1. vnf \in VnfType /\ vnf.counted + 1 \in Nat /\ traffic_bytes + 1 \in Nat
      BY DEF PipeInv, PipeTypes, VnfType
    <2>2. vnf' = [vnf EXCEPT !.counted = vnf.counted + 1] /\ traffic_bytes' = traffic_bytes + 1
      BY DEF CountBytes
    <2> QED BY <2>1, <2>2 DEF VnfType
  <1>9. TypeInv' /\ PipeTypes' /\ QueueRoutable' /\ QueueInBounds'
    BY <1>7, <1>8, SenderKept DEF PipeInv, PipeTypes, CountBytes, QueueRoutable, QueueInBounds
  <1> QED BY <1>7, <1>9 DEF PipeInv

\* The packet goes to the batch of its destination.
LEMMA HandOverKeeps ==
    ASSUME PipeInv, NEW w \in Thread, NEW load \in Payload, HandOver(w, load)
    PROVE  /\ PipeInv'
           /\ worker[w].packet \in Sendable /\ RouteOf(worker[w].packet) \in Dest
           /\ batch_send_to_target(w, RouteOf(worker[w].packet), load)
  <1> DEFINE p == worker[w].packet
             new == [pc |-> Steps[vnf_name].send, packet |-> NoPacket]
  <1>1. p \in Sendable /\ p \in Raw /\ p # Malformed
    BY DEF PipeInv, PacketAt, HandOver, Sendable
  <1>2. vnf_name \in VnfName /\ RouteOf(p) \in Dest
    BY <1>1, RouteFacts DEF PipeInv, PipeTypes
  <1>3. batch_send_to_target(w, RouteOf(p), load)
    BY DEF HandOver
  <1>4. TypeInv'
    BY <1>1, <1>2, <1>3, HandoverType DEF PipeInv
  <1>5. new \in WorkerType /\ new.packet = NoPacket
        /\ new.pc = IF vnf_name = "dpi" THEN "count" ELSE "record"
    BY <1>2, StepsFacts DEF WorkerType
  <1>6. worker' = [worker EXCEPT ![w] = new] /\ vnf_name' = vnf_name
    BY DEF HandOver
  <1>7. worker'[w] = new
    BY <1>6 DEF PipeInv, PipeTypes
  <1> HIDE DEF new
  <1>8. PacketAt(w)'
    BY <1>5, <1>6, <1>7 DEF PacketAt
  <1>9. worker' \in [Thread -> WorkerType] /\ \A v \in Thread : PacketAt(v)'
    BY <1>5, <1>6, <1>8, WorkerMoves
  <1>10. PipeTypes' /\ QueueRoutable' /\ QueueInBounds'
    BY <1>9 DEF PipeInv, PipeTypes, HandOver, kpiVars, QueueRoutable, QueueInBounds
  <1> QED BY <1>1, <1>2, <1>3, <1>4, <1>9, <1>10 DEF PipeInv

\* The packet that gets its port stays with its worker.
LEMMA TranslateKeeps ==
    ASSUME PipeInv, NEW w \in Thread, Translates(w)
    PROVE  /\ PipeInv'
           /\ worker' = [worker EXCEPT ![w] = [worker[w] EXCEPT !.pc = "send"]]
           /\ [worker[w] EXCEPT !.pc = "send"] \in WorkerType
           /\ worker[w].packet \in Sendable
  <1> DEFINE new == [worker[w] EXCEPT !.pc = "send"]
  <1>1. /\ worker[w] \in WorkerType /\ vnf_name \in VnfName /\ worker[w].pc = "translate"
        /\ worker[w].packet \in Sendable
    BY DEF PipeInv, PipeTypes, PacketAt, Translates
  <1>2. new \in WorkerType /\ new.packet = worker[w].packet /\ new.pc = "send"
    BY <1>1 DEF WorkerType
  <1>3. worker' = [worker EXCEPT ![w] = new] /\ vnf_name' = vnf_name
    <2>1. Steps[vnf_name].translate = "send"
      BY <1>1, StepsFacts DEF Translates
    <2> QED BY <1>1, <2>1 DEF Translates, Continue, WorkerType
  <1>4. worker'[w] = new
    BY <1>3 DEF PipeInv, PipeTypes
  <1>5. PacketAt(w)'
    <2> HIDE DEF new
    <2> QED BY <1>1, <1>2, <1>3, <1>4 DEF PacketAt
  <1>6. worker' \in [Thread -> WorkerType] /\ \A v \in Thread : PacketAt(v)'
    <2> HIDE DEF new
    <2> QED BY <1>2, <1>3, <1>5, WorkerMoves
  <1>7. TypeInv' /\ PipeTypes' /\ QueueRoutable' /\ QueueInBounds'
    BY <1>6, SenderKept DEF PipeInv, PipeTypes, Translates, kpiVars, QueueRoutable, QueueInBounds
  <1> QED BY <1>1, <1>2, <1>3, <1>6, <1>7 DEF PipeInv

\* The worker is back at the queue.
LEMMA RecordKeeps ==
    ASSUME PipeInv, NEW w \in Thread, RecordDelay(w)
    PROVE  PipeInv'
  <1>1. Waiting \in WorkerType
    BY DEF Waiting, WorkerType
  <1>2. worker' = [worker EXCEPT ![w] = Waiting] /\ vnf_name' = vnf_name /\ worker'[w] = Waiting
    BY DEF RecordDelay, PipeInv, PipeTypes
  <1>3. PacketAt(w)'
    BY <1>2 DEF PacketAt, Waiting
  <1>4. worker' \in [Thread -> WorkerType] /\ \A v \in Thread : PacketAt(v)'
    BY <1>1, <1>2, <1>3, WorkerMoves
  <1>5. TypeInv' /\ PipeTypes' /\ QueueRoutable' /\ QueueInBounds'
    BY <1>4, SenderKept DEF PipeInv, PipeTypes, RecordDelay, QueueRoutable, QueueInBounds
  <1> QED BY <1>4, <1>5 DEF PipeInv

\* What an exception of the processing does, whoever catches it.
LEMMA RaiseFacts ==
    ASSUME PipeInv, NEW w \in Thread, Raise(w)
    PROVE  /\ worker[w].packet \in Sendable
           /\ \E pc \in {"get", "record", "dead"} :
                /\ vnf_name = "dpi" <=> pc = "record"
                /\ RaiseTo(w, pc)
  <1>1. vnf_name \in VnfName
    BY DEF PipeInv, PipeTypes
  <1>2. \E pc \in {"get", "record", "dead"} : (vnf_name = "dpi" <=> pc = "record") /\ RaiseTo(w, pc)
    BY <1>1 DEF Raise, WorkerDies, ReceiverCatches, DpiCatches
  <1> QED BY <1>2 DEF RaiseTo, PipeInv, PacketAt

LEMMA RaiseKeeps ==
    ASSUME PipeInv, NEW w \in Thread, Raise(w)
    PROVE  PipeInv'
  <1>1. PICK pc \in {"get", "record", "dead"} : RaiseTo(w, pc)
    BY RaiseFacts
  <1> DEFINE new == [Waiting EXCEPT !.pc = pc]
  <1>2. worker[w].packet \in Raw /\ worker[w].packet # Malformed
    BY RaiseFacts DEF Sendable
  <1>3. new \in WorkerType /\ new.pc = pc /\ new.packet = NoPacket
    BY DEF Waiting, WorkerType
  <1>4. worker' = [worker EXCEPT ![w] = new] /\ vnf_name' = vnf_name
    BY <1>1 DEF RaiseTo
  <1>5. worker'[w] = new
    BY <1>4 DEF PipeInv, PipeTypes
  <1> HIDE DEF new
  <1>6. PacketAt(w)'
    BY <1>3, <1>4, <1>5 DEF PacketAt
  <1>7. worker' \in [Thread -> WorkerType] /\ \A v \in Thread : PacketAt(v)'
    BY <1>3, <1>4, <1>6, WorkerMoves
  <1>8. vnf' \in VnfType
    <2>1. Ended(w) \in VnfType
      BY <1>2, EndedType
    <2>2. vnf' = [Ended(w) EXCEPT !.raised = @ + 1]
      BY <1>1 DEF RaiseTo
    <2> QED BY <2>1, <2>2 DEF VnfType
  <1>9. TypeInv' /\ PipeTypes' /\ QueueRoutable' /\ QueueInBounds'
    BY <1>1, <1>7, <1>8, SenderKept
       DEF PipeInv, PipeTypes, RaiseTo, kpiVars, QueueRoutable, QueueInBounds
  <1> QED BY <1>7, <1>9 DEF PipeInv

\* A window more is reported.
LEMMA WindowType ==
    ASSUME vnf \in VnfType, NEW windows \in Nat, NEW bytes \in Nat, NEW delays \in Nat
    PROVE  [vnf EXCEPT !.windows = windows, !.bytes = bytes, !.delays = delays] \in VnfType
  BY DEF VnfType

\* The timer thread reads the window and begins a new one.
LEMMA ReportKeeps ==
    ASSUME PipeInv, Report
    PROVE  PipeInv'
  <1>1. vnf \in VnfType /\ traffic_bytes \in Nat /\ processing_times \in Nat
        /\ kpi \in [pc : {"timer", "post"}, bytes : Nat, delays : Nat]
    BY DEF PipeInv, PipeTypes
  <1> DEFINE Reported == /\ vnf' \in VnfType /\ traffic_bytes' \in Nat /\ processing_times' \in Nat
                         /\ kpi' \in [pc : {"timer", "post"}, bytes : Nat, delays : Nat]
                         /\ UNCHANGED <<senderVars, vnf_name, packet_queue, worker>>
  <1>2. Reported
    <2>1. CASE CloseWindow
      <3>1. vnf' = [vnf EXCEPT !.windows = vnf.windows + 1, !.bytes = vnf.bytes + traffic_bytes,
                               !.delays = vnf.delays + processing_times]
        BY <2>1 DEF CloseWindow
      <3>2. vnf.windows + 1 \in Nat /\ vnf.bytes + traffic_bytes \in Nat
            /\ vnf.delays + processing_times \in Nat
        BY <1>1 DEF VnfType
      <3>3. vnf' \in VnfType
        BY <1>1, <3>1, <3>2, WindowType
      <3> QED BY <1>1, <2>1, <3>3 DEF CloseWindow
    <2>2. CASE Posted
      BY <1>1, <2>2 DEF Posted
    <2>3. CASE PostWindow
      <3>1. vnf' \in VnfType
        BY <1>1, <2>3 DEF PostWindow, VnfType
      <3> QED BY <1>1, <2>3, <3>1 DEF PostWindow
    <2>4. CASE CloseAfterPost
      <3>1. vnf' = [vnf EXCEPT !.windows = vnf.windows, !.bytes = vnf.bytes + kpi.bytes,
                               !.delays = vnf.delays + kpi.delays]
        BY <1>1, <2>4 DEF CloseAfterPost, VnfType
      <3>2. vnf.windows \in Nat /\ vnf.bytes + kpi.bytes \in Nat
            /\ vnf.delays + kpi.delays \in Nat
        BY <1>1 DEF VnfType
      <3>3. vnf' \in VnfType
        BY <1>1, <3>1, <3>2, WindowType
      <3> QED BY <1>1, <2>4, <3>3 DEF CloseAfterPost
    <2> QED BY <2>1, <2>2, <2>3, <2>4 DEF Report, PostEnds
  <1> QED
    BY <1>2, SenderKept DEF PipeInv, PipeTypes, PacketAt, QueueRoutable, QueueInBounds

\* The batch sender's own steps.
LEMMA SenderKeeps ==
    ASSUME PipeInv, Sender(flush_all_batches) \/ Sender(FlushStep)
    PROVE  PipeInv' /\ [SenderNext]_senderVars
  <1>1. [SenderNext]_senderVars /\ UNCHANGED <<vnf_name, packet_queue, worker, kpiVars, vnf>>
    BY DEF Sender, SenderNext
  <1>2. TypeInv'
    BY <1>1, TypeStep DEF PipeInv
  <1> QED
    BY <1>1, <1>2 DEF PipeInv, PipeTypes, PacketAt, QueueRoutable, QueueInBounds, kpiVars

LEMMA AnyStep == PipeInv /\ [AnyNext]_pipelineVars => PipeInv'
  <1> SUFFICES ASSUME PipeInv, [AnyNext]_pipelineVars
               PROVE  PipeInv'
    OBVIOUS
  <1>1. CASE UNCHANGED pipelineVars
    BY <1>1, SenderKept
       DEF PipeInv, PipeTypes, PacketAt, QueueRoutable, QueueInBounds, pipelineVars, kpiVars
  <1>2. ASSUME NEW w \in Thread, AnyWork(w)
        PROVE  PipeInv'
    BY <1>2, GetKeeps, DiscardKeeps, CountKeeps, HandOverKeeps, RecordKeeps, RaiseKeeps,
       TranslateKeeps DEF AnyWork, HandsOver
  <1> QED BY <1>1, <1>2, ReceiveKeeps, SenderKeeps, ReportKeeps DEF AnyNext

\* A step of the plain pipeline hands over the packet itself.
LEMMA PlainStep == Carried /\ PipeInv /\ [PipelineNext]_pipelineVars => [AnyNext]_pipelineVars
  <1> SUFFICES ASSUME Carried, PipeInv, PipelineNext
               PROVE  AnyNext
    OBVIOUS
  <1>1. ASSUME NEW w \in Thread, HandOver(w, worker[w].packet)
        PROVE  HandsOver(w)
    BY <1>1 DEF PipeInv, PacketAt, HandOver, Carried, HandsOver
  <1>2. ASSUME NEW w \in Thread, Work(w) \/ Raise(w)
        PROVE  AnyWork(w)
    BY <1>1, <1>2 DEF Work, Locking, AnyWork
  <1> QED BY <1>2 DEF PipelineNext, AnyNext

LEMMA PipeStep == Carried /\ PipeInv /\ [PipelineNext]_pipelineVars => PipeInv'
  BY PlainStep, AnyStep

LEMMA PipeInvariant == ASSUME Carried PROVE PipelineSpec => []PipeInv
  BY PipeInit, PipeStep, PTL DEF PipelineSpec

\* Type correctness of a VNF's process.
THEOREM PipelineTypeCorrect == ASSUME Carried PROVE PipelineSpec => []PipelineTypeOK
  <1>1. PipeInv => PipelineTypeOK
    BY DEF PipeInv, TypeInv, PipeTypes, WorkerType, VnfType, PipelineTypeOK
  <1> QED BY <1>1, PipeInvariant, PTL

-----------------------------------------------------------------------------
(* The batch sender within the process                                     *)

LEMMA StepSends == PipeInv /\ [AnyNext]_pipelineVars => [SenderNext]_senderVars
  <1> SUFFICES ASSUME PipeInv, [AnyNext]_pipelineVars
               PROVE  [SenderNext]_senderVars
    OBVIOUS
  <1>1. CASE UNCHANGED pipelineVars
    BY <1>1 DEF pipelineVars
  <1>2. ASSUME NEW packet \in Raw, Receive(packet)
        PROVE  UNCHANGED senderVars
    BY <1>2 DEF Receive
  <1>3. ASSUME NEW w \in Thread, HandsOver(w)
        PROVE  SenderNext
    <2>1. PICK load \in Payload : HandOver(w, load)
      BY <1>3 DEF HandsOver
    <2> QED BY <2>1, HandOverKeeps DEF SenderNext
  <1>4. ASSUME NEW w \in Thread,
               Get(w) \/ Discard(w) \/ CountBytes(w) \/ RecordDelay(w) \/ Translates(w)
        PROVE  UNCHANGED senderVars
    BY <1>4 DEF Get, Discard, CountBytes, RecordDelay, Translates
  <1>5. ASSUME NEW w \in Thread, Raise(w)
        PROVE  UNCHANGED senderVars
    BY <1>5, RaiseFacts DEF RaiseTo
  <1>6. CASE Report
    BY <1>6 DEF Report, CloseWindow, PostWindow, PostEnds, Posted, CloseAfterPost
  <1> QED BY <1>1, <1>2, <1>3, <1>4, <1>5, <1>6, SenderKeeps DEF AnyNext, AnyWork

\* The process of a VNF implements the batch sender: whatever its receiver, workers and
\* timer do, the sender sees the calls and flushes that its specification allows.
THEOREM SendsAsSpecified == ASSUME Carried PROVE PipelineSpec => SenderSpec
  <1>1. PipelineInit => SenderInit
    BY DEF PipelineInit
  <1> QED BY <1>1, PipeInvariant, PlainStep, StepSends, PTL DEF PipelineSpec, SenderSpec

\* Packets of a destination leave the VNF in the order in which the workers handed them
\* over, and none leaves twice.
THEOREM VnfSendsInOrder == ASSUME Carried PROVE PipelineSpec => []SentInOrder
  BY SendsAsSpecified, InOrder, PTL

\* No packet that a worker handed over disappears unseen.
THEOREM VnfLosesNone == ASSUME Carried PROVE PipelineSpec => []NoneVanishes
  BY SendsAsSpecified, Complete, PTL

-----------------------------------------------------------------------------
(* KpisAddUp.  While the firewall posts its window, nobody adds to it.      *)

PostedIsWindow ==
    vnf_name = "firewall" /\ kpi.pc = "post" => kpi.bytes = traffic_bytes
                                                /\ kpi.delays = processing_times

KpiInv == KpisAddUp /\ PostedIsWindow

\* A set of workers of which one changes.
LEMMA OneMoves ==
    ASSUME NEW S \in SUBSET Thread, NEW T \in SUBSET Thread, NEW w \in Thread,
           \A v \in Thread : v # w => (v \in S <=> v \in T)
    PROVE  /\ Cardinality(S) \in Nat /\ Cardinality(T) \in Nat
           /\ w \in S /\ w \notin T => Cardinality(T) = Cardinality(S) - 1
           /\ w \notin S /\ w \in T => Cardinality(T) = Cardinality(S) + 1
           /\ (w \in S <=> w \in T) => T = S
  <1>1. IsFiniteSet(S) /\ IsFiniteSet(T)
    BY VnfAssumption, FS_Subset DEF VnfAssumption
  <1>2. Cardinality(S) \in Nat /\ Cardinality(T) \in Nat
    BY <1>1, FS_CardinalityType
  <1>3. ASSUME w \in S, w \notin T
        PROVE  Cardinality(T) = Cardinality(S) - 1
    <2>1. T = S \ {w}
      BY <1>3
    <2> QED BY <1>1, <1>3, <2>1, FS_RemoveElement
  <1>4. ASSUME w \notin S, w \in T
        PROVE  Cardinality(T) = Cardinality(S) + 1
    <2>1. T = S \cup {w}
      BY <1>4
    <2> QED BY <1>1, <1>4, <2>1, FS_AddElement
  <1> QED BY <1>2, <1>3, <1>4

\* The places at which a packet is counted and its delay is not.
CountedAt == IF vnf_name = "dpi" THEN {"record"} ELSE {"translate", "send", "record"}

\* What a worker's move does to the number of counted packets.
LEMMA CountedMoves ==
    ASSUME PipeInv, NEW w \in Thread, NEW new \in WorkerType,
           worker' = [worker EXCEPT ![w] = new], vnf_name' = vnf_name
    PROVE  /\ Cardinality(Counted) \in Nat /\ Cardinality(Counted)' \in Nat
           /\ worker[w].pc \in CountedAt /\ new.pc \notin CountedAt =>
                Cardinality(Counted)' = Cardinality(Counted) - 1
           /\ worker[w].pc \notin CountedAt /\ new.pc \in CountedAt =>
                Cardinality(Counted)' = Cardinality(Counted) + 1
           /\ (worker[w].pc \in CountedAt <=> new.pc \in CountedAt) =>
                Cardinality(Counted)' = Cardinality(Counted)
  <1> DEFINE now == Counted
             next == Counted'
  <1>1. now = {v \in Thread : worker[v].pc \in CountedAt}
    BY DEF Counted, At, CountedAt
  <1>2. next = {v \in Thread : worker'[v].pc \in CountedAt}
    BY DEF Counted, At, CountedAt
  <1>3. worker'[w] = new /\ \A v \in Thread : v # w => worker'[v] = worker[v]
    BY DEF PipeInv, PipeTypes
  <1> HIDE DEF now, next
  <1>4. now \in SUBSET Thread /\ next \in SUBSET Thread
        /\ (w \in now <=> worker[w].pc \in CountedAt) /\ (w \in next <=> new.pc \in CountedAt)
        /\ \A v \in Thread : v # w => (v \in now <=> v \in next)
    BY <1>1, <1>2, <1>3
  <1>5. /\ Cardinality(now) \in Nat /\ Cardinality(next) \in Nat
        /\ w \in now /\ w \notin next => Cardinality(next) = Cardinality(now) - 1
        /\ w \notin now /\ w \in next => Cardinality(next) = Cardinality(now) + 1
        /\ (w \in now <=> w \in next) => next = now
    BY <1>4, OneMoves
  <1> QED BY <1>4, <1>5 DEF now, next

LEMMA CountedSame ==
    ASSUME worker' = worker, vnf_name' = vnf_name
    PROVE  Cardinality(Counted)' = Cardinality(Counted)
  BY DEF Counted, At

\* The numbers that KpisAddUp adds.
LEMMA KpiNumbers ==
    ASSUME PipeInv
    PROVE  /\ vnf \in VnfType
           /\ vnf.counted \in Nat /\ vnf.raised \in Nat /\ vnf.bytes \in Nat /\ vnf.delays \in Nat
           /\ traffic_bytes \in Nat /\ processing_times \in Nat
           /\ kpi.bytes \in Nat /\ kpi.delays \in Nat
  BY DEF PipeInv, PipeTypes, VnfType

\* A step that touches neither the window nor a counted packet.
LEMMA KpiKept ==
    ASSUME PipeInv, KpiInv, UNCHANGED <<vnf_name, kpiVars>>,
           Cardinality(Counted)' = Cardinality(Counted),
           vnf'.counted = vnf.counted, vnf'.raised = vnf.raised,
           vnf'.bytes = vnf.bytes, vnf'.delays = vnf.delays
    PROVE  KpiInv'
  BY DEF KpiInv, KpisAddUp, PostedIsWindow, kpiVars

LEMMA KpiReceive ==
    ASSUME PipeInv, KpiInv, NEW packet \in Raw, Receive(packet)
    PROVE  KpiInv'
  <1>1. worker' = worker /\ UNCHANGED <<vnf_name, kpiVars>>
    BY DEF Receive
  <1>2. vnf'.counted = vnf.counted /\ vnf'.raised = vnf.raised
        /\ vnf'.bytes = vnf.bytes /\ vnf'.delays = vnf.delays
    BY KpiNumbers DEF Receive, VnfType
  <1> QED BY <1>1, <1>2, CountedSame, KpiKept

LEMMA KpiGet ==
    ASSUME PipeInv, KpiInv, NEW w \in Thread, Get(w)
    PROVE  KpiInv'
  <1> DEFINE new == [pc |-> Steps[vnf_name].get, packet |-> Head(packet_queue)]
  <1>1. vnf_name \in VnfName /\ Head(packet_queue) \in Raw
    BY HeadTailProperties DEF PipeInv, PipeTypes, Get
  <1>2. new.pc = (IF vnf_name = "dpi" THEN "send" ELSE "count") /\ new \in WorkerType
    BY <1>1, StepsFacts DEF WorkerType
  <1>3. worker' = [worker EXCEPT ![w] = new] /\ worker[w].pc = "get"
        /\ UNCHANGED <<vnf_name, kpiVars, vnf>>
    BY DEF Get
  <1> HIDE DEF new
  <1>4. Cardinality(Counted)' = Cardinality(Counted)
    BY <1>2, <1>3, CountedMoves DEF CountedAt
  <1> QED BY <1>3, <1>4, KpiKept

LEMMA KpiDiscard ==
    ASSUME PipeInv, KpiInv, NEW w \in Thread, Discard(w)
    PROVE  KpiInv'
  <1>1. Waiting \in WorkerType /\ Waiting.pc = "get"
    BY DEF Waiting, WorkerType
  <1>2. worker' = [worker EXCEPT ![w] = Waiting] /\ worker[w].pc = "count"
        /\ UNCHANGED <<vnf_name, kpiVars>>
    BY DEF Discard
  <1>3. Cardinality(Counted)' = Cardinality(Counted)
    BY <1>1, <1>2, CountedMoves DEF CountedAt
  <1>4. vnf'.counted = vnf.counted /\ vnf'.raised = vnf.raised
        /\ vnf'.bytes = vnf.bytes /\ vnf'.delays = vnf.delays
    BY KpiNumbers DEF Discard, Ended, VnfType
  <1> QED BY <1>2, <1>3, <1>4, KpiKept

\* The packet is in the window, and its delay is awaited.
LEMMA KpiCount ==
    ASSUME PipeInv, KpiInv, NEW w \in Thread, CountBytes(w)
    PROVE  KpiInv'
  <1> DEFINE new == [worker[w] EXCEPT !.pc = Steps[vnf_name]["count"]]
  <1>1. worker[w] \in WorkerType /\ vnf_name \in VnfName /\ worker[w].pc = "count"
    BY DEF PipeInv, PipeTypes, CountBytes
  <1>2. new \in WorkerType
        /\ new.pc = CASE vnf_name = "dpi" -> "record" [] vnf_name = "nat" -> "translate"
                      [] OTHER -> "send"
    BY <1>1, StepsFacts DEF WorkerType
  <1>3. worker' = [worker EXCEPT ![w] = new] /\ vnf_name' = vnf_name
    BY <1>1 DEF CountBytes, Continue, WorkerType
  <1> HIDE DEF new
  <1>4. Cardinality(Counted) \in Nat /\ Cardinality(Counted)' = Cardinality(Counted) + 1
    BY <1>1, <1>2, <1>3, CountedMoves DEF CountedAt
  <1>5. vnf'.counted = vnf.counted + 1 /\ vnf'.raised = vnf.raised
        /\ vnf'.bytes = vnf.bytes /\ vnf'.delays = vnf.delays
        /\ traffic_bytes' = traffic_bytes + 1 /\ UNCHANGED <<processing_times, kpi>>
    BY KpiNumbers DEF CountBytes, VnfType
  <1>6. KpisAddUp'
    BY <1>3, <1>4, <1>5, KpiNumbers DEF KpiInv, KpisAddUp
  <1>7. PostedIsWindow'
    BY <1>1, <1>3, <1>5 DEF PipeInv, PipeTypes, CountBytes, LockFree, PostedIsWindow
  <1> QED BY <1>6, <1>7 DEF KpiInv

LEMMA KpiHandOver ==
    ASSUME PipeInv, KpiInv, NEW w \in Thread, HandsOver(w)
    PROVE  KpiInv'
  <1> DEFINE new == [pc |-> Steps[vnf_name].send, packet |-> NoPacket]
  <1>1. vnf_name \in VnfName
    BY DEF PipeInv, PipeTypes
  <1>2. new \in WorkerType /\ new.pc = IF vnf_name = "dpi" THEN "count" ELSE "record"
    BY <1>1, StepsFacts DEF WorkerType
  <1>3. worker' = [worker EXCEPT ![w] = new] /\ worker[w].pc = "send"
        /\ UNCHANGED <<vnf_name, kpiVars, vnf>>
    BY DEF HandsOver, HandOver
  <1> HIDE DEF new
  <1>4. Cardinality(Counted)' = Cardinality(Counted)
    BY <1>2, <1>3, CountedMoves DEF CountedAt
  <1> QED BY <1>3, <1>4, KpiKept

LEMMA KpiTranslate ==
    ASSUME PipeInv, KpiInv, NEW w \in Thread, Translates(w)
    PROVE  KpiInv'
  <1> DEFINE new == [worker[w] EXCEPT !.pc = "send"]
  <1>1. new \in WorkerType /\ new.pc = "send"
    BY TranslateKeeps DEF WorkerType, PipeInv, PipeTypes
  <1>2. /\ worker' = [worker EXCEPT ![w] = new] /\ worker[w].pc = "translate"
        /\ vnf_name = "nat" /\ UNCHANGED <<vnf_name, kpiVars, vnf>>
    BY TranslateKeeps DEF Translates
  <1> HIDE DEF new
  <1>3. Cardinality(Counted)' = Cardinality(Counted)
    BY <1>1, <1>2, CountedMoves DEF CountedAt
  <1> QED BY <1>2, <1>3, KpiKept

\* The delay is in the window.
LEMMA KpiRecord ==
    ASSUME PipeInv, KpiInv, NEW w \in Thread, RecordDelay(w)
    PROVE  KpiInv'
  <1>1. Waiting \in WorkerType /\ Waiting.pc = "get"
    BY DEF Waiting, WorkerType
  <1>2. worker' = [worker EXCEPT ![w] = Waiting] /\ worker[w].pc = "record"
        /\ processing_times' = processing_times + 1
        /\ UNCHANGED <<vnf_name, traffic_bytes, kpi, vnf>>
    BY DEF RecordDelay
  <1>3. Cardinality(Counted) \in Nat /\ Cardinality(Counted)' \in Nat
        /\ Cardinality(Counted)' = Cardinality(Counted) - 1
    BY <1>1, <1>2, CountedMoves DEF CountedAt
  <1>4. KpisAddUp'
    BY <1>2, <1>3, KpiNumbers DEF KpiInv, KpisAddUp
  <1>5. PostedIsWindow'
    BY <1>2 DEF PipeInv, PipeTypes, RecordDelay, LockFree, PostedIsWindow
  <1> QED BY <1>4, <1>5 DEF KpiInv

\* Without a delay, in DPI without bytes.
LEMMA KpiRaise ==
    ASSUME PipeInv, KpiInv, NEW w \in Thread, Raise(w)
    PROVE  KpiInv'
  <1>1. PICK pc \in {"get", "record", "dead"} :
          (vnf_name = "dpi" <=> pc = "record") /\ RaiseTo(w, pc)
    BY RaiseFacts
  <1> DEFINE new == [Waiting EXCEPT !.pc = pc]
  <1>2. new \in WorkerType /\ new.pc = pc
    BY DEF Waiting, WorkerType
  <1>3. worker' = [worker EXCEPT ![w] = new] /\ worker[w].pc = "send"
        /\ UNCHANGED <<vnf_name, kpiVars>>
    BY <1>1 DEF RaiseTo
  <1> HIDE DEF new
  <1>4. Cardinality(Counted) \in Nat /\ Cardinality(Counted)' \in Nat
        /\ Cardinality(Counted)' =
             IF vnf_name = "dpi" THEN Cardinality(Counted) + 1 ELSE Cardinality(Counted) - 1
    BY <1>1, <1>2, <1>3, CountedMoves DEF CountedAt
  <1>5. vnf'.counted = vnf.counted /\ vnf'.raised = vnf.raised + 1
        /\ vnf'.bytes = vnf.bytes /\ vnf'.delays = vnf.delays
    BY <1>1, KpiNumbers DEF RaiseTo, Ended, VnfType
  <1>6. KpisAddUp'
    BY <1>3, <1>4, <1>5, KpiNumbers DEF KpiInv, KpisAddUp, kpiVars
  <1>7. PostedIsWindow'
    BY <1>3 DEF KpiInv, PostedIsWindow, kpiVars
  <1> QED BY <1>6, <1>7 DEF KpiInv

\* What the window loses the report has.
LEMMA KpiReport ==
    ASSUME PipeInv, KpiInv, Report
    PROVE  KpiInv'
  <1>1. worker' = worker /\ vnf_name' = vnf_name
    BY DEF Report, CloseWindow, PostWindow, PostEnds, Posted, CloseAfterPost
  <1>2. Cardinality(Counted)' = Cardinality(Counted)
    BY <1>1, CountedSame
  <1>3. CASE CloseWindow
    <2>1. vnf'.counted = vnf.counted /\ vnf'.raised = vnf.raised
          /\ vnf'.bytes = vnf.bytes + traffic_bytes /\ vnf'.delays = vnf.delays + processing_times
          /\ traffic_bytes' = 0 /\ processing_times' = 0
      BY <1>3, KpiNumbers DEF CloseWindow, VnfType
    <2>2. KpisAddUp'
      BY <1>1, <1>2, <2>1, KpiNumbers DEF KpiInv, KpisAddUp
    <2>3. PostedIsWindow'
      BY <1>3 DEF CloseWindow, PostedIsWindow
    <2> QED BY <2>2, <2>3 DEF KpiInv
  <1>4. CASE Posted
    BY <1>2, <1>4 DEF Posted, KpiInv, KpisAddUp, PostedIsWindow
  <1>5. CASE PostWindow
    <2>1. vnf'.counted = vnf.counted /\ vnf'.raised = vnf.raised
          /\ vnf'.bytes = vnf.bytes /\ vnf'.delays = vnf.delays
          /\ UNCHANGED <<traffic_bytes, processing_times>>
      BY <1>5, KpiNumbers DEF PostWindow, VnfType
    <2>2. KpisAddUp'
      BY <1>1, <1>2, <2>1 DEF KpiInv, KpisAddUp
    <2>3. PostedIsWindow'
      BY <1>5 DEF PostWindow, PostedIsWindow
    <2> QED BY <2>2, <2>3 DEF KpiInv
  <1>6. CASE CloseAfterPost
    <2>1. vnf'.counted = vnf.counted /\ vnf'.raised = vnf.raised
          /\ vnf'.bytes = vnf.bytes + kpi.bytes /\ vnf'.delays = vnf.delays + kpi.delays
          /\ traffic_bytes' = 0 /\ processing_times' = 0
      BY <1>6, KpiNumbers DEF CloseAfterPost, VnfType
    <2>2. kpi.bytes = traffic_bytes /\ kpi.delays = processing_times
      BY <1>6 DEF CloseAfterPost, KpiInv, PostedIsWindow
    <2>3. KpisAddUp'
      BY <1>1, <1>2, <2>1, <2>2, KpiNumbers DEF KpiInv, KpisAddUp
    <2>4. PostedIsWindow'
      BY <1>6 DEF CloseAfterPost, PostedIsWindow
    <2> QED BY <2>3, <2>4 DEF KpiInv
  <1> QED BY <1>3, <1>4, <1>5, <1>6 DEF Report, PostEnds

LEMMA KpiStep == PipeInv /\ KpiInv /\ [AnyNext]_pipelineVars => KpiInv'
  <1> SUFFICES ASSUME PipeInv, KpiInv, [AnyNext]_pipelineVars
               PROVE  KpiInv'
    OBVIOUS
  <1>1. CASE UNCHANGED pipelineVars \/ Sender(flush_all_batches) \/ Sender(FlushStep)
    <2>1. worker' = worker /\ UNCHANGED <<vnf_name, kpiVars, vnf>>
      BY <1>1 DEF pipelineVars, Sender
    <2> QED BY <2>1, CountedSame, KpiKept
  <1>2. ASSUME NEW w \in Thread, AnyWork(w)
        PROVE  KpiInv'
    BY <1>2, KpiGet, KpiDiscard, KpiCount, KpiHandOver, KpiRecord, KpiRaise, KpiTranslate
       DEF AnyWork
  <1> QED BY <1>1, <1>2, KpiReceive, KpiReport DEF AnyNext

LEMMA KpiInit == PipelineInit => KpiInv
  <1> SUFFICES ASSUME PipelineInit
               PROVE  KpiInv
    OBVIOUS
  <1>1. Counted = {}
    BY DEF PipelineInit, Counted, At, Waiting
  <1>2. Cardinality(Counted) = 0
    BY <1>1, FS_EmptySet
  <1> QED BY <1>2 DEF PipelineInit, KpiInv, KpisAddUp, PostedIsWindow

\* What the KPI windows report adds up, for each of the VNFs and any number of workers
\* and windows: no packet and no delay is reported twice or not at all.
THEOREM ReportsAddUp == ASSUME Carried PROVE PipelineSpec => []KpisAddUp
  <1>1. KpiInv => KpisAddUp
    BY DEF KpiInv
  <1> QED BY <1>1, KpiInit, PlainStep, KpiStep, PipeInvariant, PTL DEF PipelineSpec

-----------------------------------------------------------------------------
(* HeldPacketsBounded.  A worker that sends a batch holds no packet, and a   *)
(* batch of the timeout is short of a full one.                              *)

SenderIsEmptyHanded ==
    send_queue_lock \in Thread => /\ worker[send_queue_lock].packet = NoPacket
                                  /\ worker[send_queue_lock].pc \in {"count", "record"}

\* Threads that are no workers of this VNF do nothing.
OthersWait == \A w \in Thread \ Workers : worker[w] = Waiting

FlusherShort ==
    send_queue_lock = Flusher => Len(flush.batch) + Len(send_queues[flush.dest]) < BATCH_SIZE

HeldInv == SenderIsEmptyHanded /\ OthersWait /\ FlusherShort

LEMMA HeldInit == PipelineInit => HeldInv
  <1> SUFFICES ASSUME PipelineInit
               PROVE  HeldInv
    OBVIOUS
  <1>1. send_queue_lock = Nobody /\ Nobody \notin Thread \cup {Flusher}
    BY SenderAssumption DEF PipelineInit, SenderInit, Free, send_queue_lock, SenderAssumption
  <1>2. \A w \in Thread : worker[w] = Waiting
    BY DEF PipelineInit
  <1> QED
    BY <1>1, <1>2 DEF HeldInv, SenderIsEmptyHanded, OthersWait, FlusherShort

\* Steps of the process that leave the sender alone, and the holder of the lock too.
LEMMA HeldKept ==
    ASSUME PipeInv, HeldInv, UNCHANGED <<senderVars, vnf_name>>,
           NEW w \in Workers, NEW new \in WorkerType,
           worker' = worker \/ (worker' = [worker EXCEPT ![w] = new] /\ send_queue_lock # w)
    PROVE  HeldInv'
  <1>1. send_queue_lock' = send_queue_lock /\ Workers' = Workers /\ FlusherShort'
    BY DEF senderVars, send_queue_lock, Workers, HeldInv, FlusherShort
  <1>2. worker \in [Thread -> WorkerType] /\ w \in Thread
    BY VnfAssumption DEF PipeInv, PipeTypes, Workers, VnfAssumption
  <1>3. \A v \in Thread : v # w \/ v = send_queue_lock => worker'[v] = worker[v]
    BY <1>2
  <1> QED
    BY <1>1, <1>3 DEF HeldInv, SenderIsEmptyHanded, OthersWait

\* Nobody who holds the lock gets or discards a packet or raises: it has none.
LEMMA HeldWork ==
    ASSUME PipeInv, HeldInv, NEW w \in Thread,
           Get(w) \/ Discard(w) \/ CountBytes(w) \/ RecordDelay(w) \/ Raise(w) \/ Translates(w)
    PROVE  HeldInv'
  <1>1. UNCHANGED <<senderVars, vnf_name>>
    BY RaiseFacts DEF Get, Discard, CountBytes, RecordDelay, RaiseTo, Translates
  <1>2. \E new : worker' = [worker EXCEPT ![w] = new]
    <2>1. CASE Get(w)
      BY <2>1 DEF Get
    <2>2. CASE Discard(w) \/ RecordDelay(w)
      BY <2>2 DEF Discard, RecordDelay
    <2>3. CASE CountBytes(w)
      <3> DEFINE new == [worker[w] EXCEPT !.pc = Steps[vnf_name]["count"]]
      <3>1. worker' = [worker EXCEPT ![w] = new]
        BY <2>3 DEF CountBytes, Continue, PipeInv, PipeTypes, WorkerType
      <3> HIDE DEF new
      <3> QED BY <3>1
    <2>4. CASE Raise(w)
      <3>1. PICK pc \in {"get", "record", "dead"} : RaiseTo(w, pc)
        BY <2>4, RaiseFacts
      <3>2. worker' = [worker EXCEPT ![w] = [Waiting EXCEPT !.pc = pc]]
        BY <3>1 DEF RaiseTo
      <3> QED BY <3>2
    <2>5. CASE Translates(w)
      <3> DEFINE new == [worker[w] EXCEPT !.pc = "send"]
      <3>1. worker' = [worker EXCEPT ![w] = new]
        BY <2>5, TranslateKeeps
      <3> HIDE DEF new
      <3> QED BY <3>1
    <2> QED BY <2>1, <2>2, <2>3, <2>4, <2>5
  <1>3. worker \in [Thread -> WorkerType] /\ worker' \in [Thread -> WorkerType]
    BY GetKeeps, DiscardKeeps, CountKeeps, RecordKeeps, RaiseKeeps, TranslateKeeps
       DEF PipeInv, PipeTypes
  <1>4. \E new \in WorkerType : worker' = [worker EXCEPT ![w] = new]
    BY <1>2, <1>3
  <1>5. send_queue_lock # w
    <2>1. CASE Get(w) \/ CountBytes(w) \/ RecordDelay(w)
      BY <2>1 DEF Get, CountBytes, RecordDelay, HeldInv, SenderIsEmptyHanded
    <2>2. CASE Discard(w)
      BY <2>2, VnfAssumption DEF Discard, HeldInv, SenderIsEmptyHanded, VnfAssumption
    <2>3. CASE Raise(w)
      BY <2>3, RaiseFacts DEF RaiseTo, HeldInv, SenderIsEmptyHanded
    <2>4. CASE Translates(w)
      BY <2>4 DEF Translates, HeldInv, SenderIsEmptyHanded
    <2> QED BY <2>1, <2>2, <2>3, <2>4
  <1>6. w \in Workers
    <2>1. Get(w) \/ worker[w].pc # "get"
      BY RaiseFacts DEF Discard, CountBytes, RecordDelay, RaiseTo, Translates
    <2> QED BY <2>1 DEF Get, HeldInv, OthersWait, Waiting
  <1> QED BY <1>1, <1>4, <1>5, <1>6, HeldKept

\* A worker that completes a batch has handed its packet over.
LEMMA HeldHandOver ==
    ASSUME PipeInv, HeldInv, NEW w \in Thread, NEW load \in Payload, HandOver(w, load)
    PROVE  HeldInv'
  <1> DEFINE new == [pc |-> Steps[vnf_name].send, packet |-> NoPacket]
             d == RouteOf(worker[w].packet)
             queue == Append(send_queues[d], [n |-> handed[d] + 1, load |-> load])
  <1>1. send_queue_lock = Nobody /\ Queued(w, d, queue) /\ worker[w].pc = "send"
    BY DEF HandOver, batch_send_to_target
  <1>2. vnf_name \in VnfName
    BY DEF PipeInv, PipeTypes
  <1>3. new.packet = NoPacket /\ new.pc \in {"count", "record"}
    BY <1>2, StepsFacts
  <1>4. worker' = [worker EXCEPT ![w] = new] /\ vnf_name' = vnf_name
    BY DEF HandOver
  <1> HIDE DEF new
  <1>5. worker'[w] = new /\ \A v \in Thread : v # w => worker'[v] = worker[v]
    BY <1>4 DEF PipeInv, PipeTypes
  <1>6. send_queue_lock' \in {Nobody, w}
    BY <1>1 DEF Queued, Flushing, send_queue_lock
  <1>7. SenderIsEmptyHanded' /\ FlusherShort'
    BY <1>3, <1>5, <1>6, SenderAssumption DEF SenderIsEmptyHanded, FlusherShort, SenderAssumption
  <1>8. w \in Workers
    BY <1>1 DEF HeldInv, OthersWait, Waiting
  <1>9. OthersWait'
    BY <1>4, <1>5, <1>8 DEF HeldInv, OthersWait, Workers
  <1> QED BY <1>7, <1>9 DEF HeldInv

\* What batch_sender_thread takes is a queue, and queues are short.
LEMMA HeldSender ==
    ASSUME PipeInv, HeldInv, BacklogInv, Sender(flush_all_batches) \/ Sender(FlushStep)
    PROVE  HeldInv'
  <1>1. worker' = worker /\ vnf_name' = vnf_name /\ Workers' = Workers
    BY DEF Sender, Workers
  <1>2. flush \in FlushType /\ send_queues \in [Dest -> Seq(Packet)] /\ TypeInv
    BY DEF PipeInv, TypeInv, SenderTypeOK, FlushType
  <1>3. ASSUME NEW i \in 1..Len(Targets), NEW t, FlushTarget(t, i)
        PROVE  Len(flush'.batch) + Len(send_queues'[flush'.dest]) < BATCH_SIZE
    <2>1. Targets[i] \in Dest
      BY TargetFacts
    <2>2. flush'.batch = send_queues[Targets[i]] /\ flush'.dest = Targets[i]
          /\ send_queues'[Targets[i]] = <<>>
      BY <1>2, <1>3, <2>1 DEF FlushTarget, Flushing
    <2>3. Len(send_queues[Targets[i]]) \in Nat /\ Len(send_queues[Targets[i]]) < BATCH_SIZE
      BY <1>2, <2>1, LenProperties DEF BacklogInv, ShortQueues
    <2>4. Len(<<>>) = 0
      BY EmptySeq
    <2> QED BY <2>2, <2>3, <2>4
  <1>4. CASE flush_all_batches
    <2>1. FlushTarget(Flusher, 1) /\ 1 \in 1..Len(Targets)
      BY <1>4, TargetFacts DEF flush_all_batches
    <2>2. send_queue_lock' = Flusher
      BY <2>1 DEF FlushTarget, Flushing, send_queue_lock
    <2> QED
      BY <1>1, <1>3, <2>1, <2>2, SenderAssumption
         DEF HeldInv, SenderIsEmptyHanded, OthersWait, FlusherShort, SenderAssumption
  <1>5. CASE SendNext \/ SendFails
    <2>1. flush.batch # <<>> /\ flush.batch \in Seq(Packet) /\ flush.dest \in Dest
      BY <1>2, <1>5 DEF SendNext, SendFails, FlushType
    <2>2. Len(Tail(flush.batch)) = Len(flush.batch) - 1 /\ Len(<<>>) = 0
          /\ Len(flush.batch) \in Nat \ {0} /\ Len(send_queues[flush.dest]) \in Nat
      BY <1>2, <2>1, HeadTailProperties, EmptySeq, LenProperties
    <2>3. send_queue_lock' = send_queue_lock /\ flush'.dest = flush.dest
          /\ flush'.batch \in {Tail(flush.batch), <<>>} /\ send_queues' = send_queues
      BY <1>2, <1>5 DEF SendNext, SendFails, FlushType, send_queue_lock
    <2>4. Len(flush'.batch) \in Nat /\ Len(flush'.batch) <= Len(flush.batch)
          /\ Len(send_queues'[flush'.dest]) \in Nat
          /\ Len(send_queues'[flush'.dest]) <= Len(send_queues[flush.dest])
      BY <2>2, <2>3
    <2>5. BATCH_SIZE \in Nat
      BY SenderAssumption DEF SenderAssumption
    <2>6. ASSUME send_queue_lock' = Flusher
          PROVE  Len(flush'.batch) + Len(send_queues'[flush'.dest]) < BATCH_SIZE
      <3>1. Len(flush.batch) + Len(send_queues[flush.dest]) < BATCH_SIZE
        BY <2>3, <2>6 DEF HeldInv, FlusherShort
      <3> DEFINE b == Len(flush'.batch)
                 q == Len(send_queues'[flush'.dest])
                 c == Len(flush.batch)
                 r == Len(send_queues[flush.dest])
      <3>2. b \in Nat /\ q \in Nat /\ c \in Nat /\ r \in Nat /\ b <= c /\ q <= r
        BY <2>2, <2>4
      <3>3. c + r < BATCH_SIZE
        BY <3>1
      <3> HIDE DEF b, q, c, r
      <3>4. b + q < BATCH_SIZE
        BY <2>5, <3>2, <3>3
      <3> QED BY <3>4 DEF b, q
    <2> QED BY <1>1, <2>3, <2>6 DEF HeldInv, SenderIsEmptyHanded, OthersWait, FlusherShort
  <1>6. CASE BatchDone
    <2>1. CASE flush.next <= Len(Targets)
      <3>1. FlushTarget(flush.by, flush.next) /\ flush.next \in 1..Len(Targets)
        BY <1>2, <1>6, <2>1, TargetFacts DEF BatchDone, FlushType
      <3>2. send_queue_lock' = send_queue_lock
        BY <3>1 DEF FlushTarget, Flushing, send_queue_lock
      <3> QED
        BY <1>1, <1>3, <3>1, <3>2 DEF HeldInv, SenderIsEmptyHanded, OthersWait, FlusherShort
    <2>2. CASE ~(flush.next <= Len(Targets))
      <3>1. send_queue_lock' = Nobody
        BY <1>6, <2>2 DEF BatchDone, Free, send_queue_lock
      <3> QED
        BY <1>1, <3>1, SenderAssumption
           DEF HeldInv, SenderIsEmptyHanded, OthersWait, FlusherShort, SenderAssumption
    <2> QED BY <2>1, <2>2
  <1> QED BY <1>4, <1>5, <1>6 DEF Sender, FlushStep

LEMMA HeldStep == PipeInv /\ BacklogInv /\ HeldInv /\ [AnyNext]_pipelineVars => HeldInv'
  <1> SUFFICES ASSUME PipeInv, BacklogInv, HeldInv, [AnyNext]_pipelineVars
               PROVE  HeldInv'
    OBVIOUS
  <1>1. CASE UNCHANGED pipelineVars \/ Report \/ \E packet \in Raw : Receive(packet)
    <2>1. UNCHANGED <<senderVars, vnf_name, worker>>
      BY <1>1 DEF pipelineVars, Receive, Report, CloseWindow, PostWindow, PostEnds, Posted,
         CloseAfterPost
    <2> QED
      BY <2>1 DEF senderVars, send_queue_lock, Workers, HeldInv, SenderIsEmptyHanded,
         OthersWait, FlusherShort
  <1>2. ASSUME NEW w \in Thread, AnyWork(w)
        PROVE  HeldInv'
    BY <1>2, HeldWork, HeldHandOver DEF AnyWork, HandsOver
  <1> QED BY <1>1, <1>2, HeldSender DEF AnyNext

\* Each worker but the one that sends a full batch may hold a packet.
LEMMA HeldBound == PipeInv /\ BacklogInv /\ HeldInv => HeldPacketsBounded
  <1> SUFFICES ASSUME PipeInv, BacklogInv, HeldInv, NEW d \in Dest
               PROVE  Len(packet_queue) + Cardinality(Holding) + Len(send_queues[d])
                        + Len(InTransit(d)) <= QUEUE_SIZE + Cardinality(Workers) + BATCH_SIZE - 1
    BY DEF HeldPacketsBounded
  <1>1. IsFiniteSet(Workers) /\ Cardinality(Workers) \in Nat /\ Workers \subseteq Thread
    <2>1. Workers \subseteq Thread
      BY VnfAssumption DEF Workers, VnfAssumption
    <2> QED BY <2>1, VnfAssumption, FS_Subset, FS_CardinalityType DEF VnfAssumption
  <1>2. Holding \in SUBSET Workers
    BY DEF Holding, HeldInv, OthersWait, Waiting
  <1>3. IsFiniteSet(Holding) /\ Cardinality(Holding) \in Nat
        /\ Cardinality(Holding) <= Cardinality(Workers)
    BY <1>1, <1>2, FS_Subset, FS_CardinalityType
  <1>4. /\ flush \in FlushType /\ send_queues \in [Dest -> Seq(Packet)]
        /\ packet_queue \in Seq(Raw) /\ IdleWhenFree
    BY DEF PipeInv, PipeTypes, TypeInv, SenderTypeOK, FlushType
  <1>5. /\ Len(packet_queue) \in Nat /\ Len(packet_queue) <= QUEUE_SIZE /\ QUEUE_SIZE \in Nat
        /\ Len(send_queues[d]) \in Nat /\ Len(send_queues[d]) < BATCH_SIZE
        /\ BATCH_SIZE \in Nat /\ Len(<<>>) = 0
    BY <1>4, LenProperties, EmptySeq, SenderAssumption, VnfAssumption
       DEF PipeInv, QueueInBounds, BacklogInv, ShortQueues, SenderAssumption, VnfAssumption
  <1>6. /\ flush.by \in Thread \cup {Flusher, Nobody} /\ flush.dest \in Dest
        /\ Len(flush.batch) \in Nat
    BY <1>4, LenProperties DEF FlushType
  <1>7. CASE flush.dest # d \/ flush.by = Nobody
    <2>1. Len(InTransit(d)) = 0
      BY <1>4, <1>5, <1>7 DEF InTransit, IdleWhenFree, send_queue_lock
    <2> QED BY <1>1, <1>3, <1>5, <2>1
  <1>8. CASE flush.dest = d /\ flush.by = Flusher
    <2>1. Len(InTransit(d)) \in Nat
          /\ Len(InTransit(d)) + Len(send_queues[d]) < BATCH_SIZE
      BY <1>6, <1>8 DEF InTransit, HeldInv, FlusherShort, send_queue_lock
    <2> QED BY <1>1, <1>3, <1>5, <1>6, <2>1
  <1>9. CASE flush.dest = d /\ flush.by \in Thread
    <2>1. Len(InTransit(d)) \in Nat
          /\ Len(InTransit(d)) + Len(send_queues[d]) <= BATCH_SIZE
      BY <1>6, <1>9 DEF InTransit, BacklogInv, ShortFlush
    <2>2. flush.by \in Workers /\ flush.by \notin Holding
      BY <1>9 DEF HeldInv, SenderIsEmptyHanded, OthersWait, Waiting, send_queue_lock, Holding
    <2>3. Holding \in SUBSET (Workers \ {flush.by})
      BY <1>2, <2>2
    <2>4. IsFiniteSet(Workers \ {flush.by})
          /\ Cardinality(Workers \ {flush.by}) = Cardinality(Workers) - 1
      BY <1>1, <2>2, FS_RemoveElement
    <2>5. Cardinality(Holding) <= Cardinality(Workers) - 1
      BY <2>3, <2>4, FS_Subset
    <2> QED BY <1>1, <1>3, <1>5, <1>6, <2>1, <2>5
  <1> QED BY <1>6, <1>7, <1>8, <1>9

\* The bound on the packets a VNF holds, for any queue and batch size and any number of
\* workers.
THEOREM HoldsFew == ASSUME Carried PROVE PipelineSpec => []HeldPacketsBounded
  <1>1. PipelineSpec => []BacklogInv
    BY SendsAsSpecified, TypeInit, TypeStep, BacklogInit, BacklogStep, PTL DEF SenderSpec
  <1> QED BY <1>1, HeldInit, PlainStep, HeldStep, HeldBound, PipeInvariant, PTL DEF PipelineSpec

-----------------------------------------------------------------------------
(* EachProcessedOnce                                                       *)

\* The places of the queue, and the workers, with a packet for d.
InQueue(d) == {i \in DOMAIN packet_queue : RouteOf(packet_queue[i]) = d}

WithWorker(d) == {w \in Holding : RouteOf(worker[w].packet) = d}

OnceInv ==
    \A d \in Dest :
        vnf.accepted[d] =
            Cardinality(InQueue(d)) + Cardinality(WithWorker(d)) + vnf.ended[d] + handed[d]

\* The numbers that OnceInv adds.
LEMMA OnceNumbers ==
    ASSUME PipeInv, NEW d \in Dest
    PROVE  /\ InQueue(d) \in SUBSET (1..Len(packet_queue)) /\ Len(packet_queue) \in Nat
           /\ IsFiniteSet(InQueue(d)) /\ Cardinality(InQueue(d)) \in Nat
           /\ WithWorker(d) \in SUBSET Thread /\ Cardinality(WithWorker(d)) \in Nat
           /\ vnf.accepted[d] \in Nat /\ vnf.ended[d] \in Nat /\ handed[d] \in Nat
  <1>1. Len(packet_queue) \in Nat /\ DOMAIN packet_queue = 1..Len(packet_queue)
    BY LenProperties DEF PipeInv, PipeTypes
  <1>2. InQueue(d) \in SUBSET (1..Len(packet_queue)) /\ WithWorker(d) \in SUBSET Thread
    BY <1>1 DEF InQueue, WithWorker, Holding
  <1>3. IsFiniteSet(1..Len(packet_queue)) /\ IsFiniteSet(Thread)
    BY <1>1, FS_Interval, VnfAssumption DEF VnfAssumption
  <1>4. IsFiniteSet(InQueue(d)) /\ IsFiniteSet(WithWorker(d))
    BY <1>2, <1>3, FS_Subset
  <1>5. Cardinality(InQueue(d)) \in Nat /\ Cardinality(WithWorker(d)) \in Nat
    BY <1>4, FS_CardinalityType
  <1> QED
    BY <1>1, <1>2, <1>4, <1>5 DEF PipeInv, PipeTypes, VnfType, TypeInv, SenderTypeOK

\* What a worker's move does to the packets that workers have for d.
LEMMA WorkerTakes ==
    ASSUME PipeInv, NEW w \in Thread, NEW new \in WorkerType,
           worker' = [worker EXCEPT ![w] = new], vnf_name' = vnf_name, NEW d \in Dest
    PROVE  LET had == worker[w].packet # NoPacket /\ RouteOf(worker[w].packet) = d
               has == new.packet # NoPacket /\ RouteOf(new.packet) = d
           IN  /\ Cardinality(WithWorker(d))' \in Nat
               /\ had /\ ~has => Cardinality(WithWorker(d))' = Cardinality(WithWorker(d)) - 1
               /\ ~had /\ has => Cardinality(WithWorker(d))' = Cardinality(WithWorker(d)) + 1
               /\ (had <=> has) => Cardinality(WithWorker(d))' = Cardinality(WithWorker(d))
  <1> DEFINE had == worker[w].packet # NoPacket /\ RouteOf(worker[w].packet) = d
             has == new.packet # NoPacket /\ RouteOf(new.packet) = d
             now == WithWorker(d)
             next == WithWorker(d)'
  <1>1. now = {v \in Thread : worker[v].packet # NoPacket /\ RouteOf(worker[v].packet) = d}
    BY DEF WithWorker, Holding
  <1>2. next = {v \in Thread : worker'[v].packet # NoPacket /\ RouteOf(worker'[v].packet) = d}
    <2>1. \A p : RouteOf(p)' = RouteOf(p)
      BY DEF RouteOf
    <2> QED BY <2>1 DEF WithWorker, Holding
  <1>3. worker'[w] = new /\ \A v \in Thread : v # w => worker'[v] = worker[v]
    BY DEF PipeInv, PipeTypes
  <1> HIDE DEF now, next
  <1>4. now \in SUBSET Thread /\ next \in SUBSET Thread
        /\ \A v \in Thread : v # w => (v \in now <=> v \in next)
    BY <1>1, <1>2, <1>3
  <1>5. /\ Cardinality(now) \in Nat /\ Cardinality(next) \in Nat
        /\ w \in now /\ w \notin next => Cardinality(next) = Cardinality(now) - 1
        /\ w \notin now /\ w \in next => Cardinality(next) = Cardinality(now) + 1
        /\ (w \in now <=> w \in next) => next = now
    BY <1>4, OneMoves
  <1>6. (w \in now <=> had) /\ (w \in next <=> has)
    BY <1>1, <1>2, <1>3
  <1> QED BY <1>5, <1>6 DEF now, next

\* The queue has one packet more at its end.
LEMMA OnceReceive ==
    ASSUME PipeInv, OnceInv, NEW packet \in Raw, Receive(packet)
    PROVE  OnceInv'
  <1> SUFFICES ASSUME NEW d \in Dest
               PROVE  vnf'.accepted[d] = Cardinality(InQueue(d))' + Cardinality(WithWorker(d))'
                                           + vnf'.ended[d] + handed'[d]
    BY DEF OnceInv
  <1> DEFINE n == Len(packet_queue)
             more == IF RouteOf(packet) = d THEN 1 ELSE 0
             now == InQueue(d)
             next == InQueue(d)'
  <1>1. packet_queue \in Seq(Raw) /\ vnf_name \in VnfName
    BY DEF PipeInv, PipeTypes
  <1>2. packet_queue' = Append(packet_queue, packet) /\ UNCHANGED <<vnf_name, worker, handed>>
    BY DEF Receive, senderVars
  <1>3. /\ packet_queue' \in Seq(Raw) /\ Len(packet_queue') = n + 1 /\ n \in Nat
        /\ \A i \in 1..n : packet_queue'[i] = packet_queue[i]
        /\ packet_queue'[n + 1] = packet
    BY <1>1, <1>2, AppendProperties, LenProperties
  <1>4. DOMAIN packet_queue = 1..n /\ DOMAIN packet_queue' = 1..(n + 1)
    BY <1>1, <1>3, LenProperties
  <1>5. now = {i \in 1..n : RouteOf(packet_queue[i]) = d}
        /\ next = {i \in 1..(n + 1) : RouteOf(packet_queue'[i]) = d}
    BY <1>2, <1>4 DEF InQueue, RouteOf
  <1>6. now \in SUBSET (1..n) /\ IsFiniteSet(now) /\ Cardinality(now) \in Nat
    BY OnceNumbers
  <1> HIDE DEF now, next, n
  <1>7. next = IF RouteOf(packet) = d THEN now \cup {n + 1} ELSE now
    BY <1>3, <1>5
  <1>8. Cardinality(next) = Cardinality(now) + more
    <2>1. n + 1 \notin now
      BY <1>3, <1>6
    <2> QED BY <1>6, <1>7, <2>1, FS_AddElement
  <1>9. WithWorker(d)' = WithWorker(d)
    BY <1>2 DEF WithWorker, Holding, RouteOf
  <1>10. vnf'.accepted[d] = vnf.accepted[d] + more /\ vnf'.ended = vnf.ended
    <2>1. vnf \in VnfType /\ vnf.accepted \in [Dest -> Nat]
      BY DEF PipeInv, PipeTypes, VnfType
    <2> DEFINE accepted == [vnf.accepted EXCEPT ![RouteOf(packet)] = @ + 1]
    <2>2. vnf' = [vnf EXCEPT !.received = @ + 1, !.accepted = accepted]
      BY <2>1 DEF Receive, VnfType
    <2>3. accepted[d] = vnf.accepted[d] + more
      BY <2>1
    <2> HIDE DEF accepted
    <2>4. vnf'.accepted = accepted /\ vnf'.ended = vnf.ended
      BY <2>1, <2>2 DEF VnfType
    <2> QED BY <2>3, <2>4
  <1>11. vnf.accepted[d] = Cardinality(now) + Cardinality(WithWorker(d)) + vnf.ended[d] + handed[d]
    BY DEF OnceInv, now
  <1>12. vnf'.accepted[d] = Cardinality(next) + Cardinality(WithWorker(d)') + vnf'.ended[d] + handed'[d]
    <2>1. Cardinality(WithWorker(d)) \in Nat /\ vnf.ended[d] \in Nat /\ handed[d] \in Nat
      BY OnceNumbers
    <2> HIDE DEF more
    <2>2. more \in Nat
      BY DEF more
    <2> QED BY <1>2, <1>6, <1>8, <1>9, <1>10, <1>11, <2>1, <2>2
  <1> QED BY <1>12 DEF next

\* Places that all move up by one are as many as before.
LEMMA ShiftedPlaces ==
    ASSUME NEW n \in Nat, NEW S \in SUBSET (2..(n + 1)), NEW T \in SUBSET (1..n),
           \A i \in 1..n : i \in T <=> i + 1 \in S
    PROVE  Cardinality(T) = Cardinality(S)
  <1> DEFINE f == [s \in S |-> s - 1]
  <1>1. \A s \in S : s \in Int /\ s - 1 \in 1..n /\ (s - 1) + 1 = s
    OBVIOUS
  <1>2. f \in [S -> T]
    BY <1>1
  <1>3. \A a, b \in S : f[a] = f[b] => a = b
    BY <1>1
  <1>4. ASSUME NEW t \in T
        PROVE  \E s \in S : f[s] = t
    <2>1. t + 1 \in S /\ (t + 1) - 1 = t
      OBVIOUS
    <2> QED BY <2>1
  <1> HIDE DEF f
  <1>5. f \in Bijection(S, T)
    <2>1. f \in Injection(S, T)
      BY <1>2, <1>3 DEF Injection, IsInjective
    <2>2. f \in Surjection(S, T)
      BY <1>2, <1>4 DEF Surjection
    <2> QED BY <2>1, <2>2 DEF Bijection
  <1>6. IsFiniteSet(S)
    <2>1. IsFiniteSet(2..(n + 1))
      BY FS_Interval
    <2> QED BY <2>1, FS_Subset
  <1> QED BY <1>5, <1>6, FS_Bijection DEF ExistsBijection

\* The packet that leaves the queue is with the worker.
LEMMA OnceGet ==
    ASSUME PipeInv, OnceInv, NEW w \in Thread, Get(w)
    PROVE  OnceInv'
  <1> SUFFICES ASSUME NEW d \in Dest
               PROVE  vnf'.accepted[d] = Cardinality(InQueue(d))' + Cardinality(WithWorker(d))'
                                           + vnf'.ended[d] + handed'[d]
    BY DEF OnceInv
  <1> DEFINE new == [pc |-> Steps[vnf_name].get, packet |-> Head(packet_queue)]
             n == Len(packet_queue) - 1
             one == IF RouteOf(Head(packet_queue)) = d THEN 1 ELSE 0
             now == InQueue(d)
             rest == now \ {1}
             next == InQueue(d)'
  <1>1. packet_queue \in Seq(Raw) /\ packet_queue # <<>> /\ vnf_name \in VnfName
    BY DEF PipeInv, PipeTypes, Get
  <1>2. /\ packet_queue' = Tail(packet_queue) /\ worker' = [worker EXCEPT ![w] = new]
        /\ worker[w].pc = "get" /\ UNCHANGED <<vnf_name, vnf, handed>>
    BY DEF Get, senderVars
  <1>3. /\ Head(packet_queue) \in Raw /\ Head(packet_queue) = packet_queue[1]
        /\ Tail(packet_queue) \in Seq(Raw) /\ Len(Tail(packet_queue)) = n
        /\ \A i \in 1..n : Tail(packet_queue)[i] = packet_queue[i + 1]
    BY <1>1, HeadTailProperties
  <1>4. n \in Nat /\ DOMAIN packet_queue = 1..(n + 1) /\ DOMAIN packet_queue' = 1..n
    BY <1>1, <1>2, <1>3, LenProperties, EmptySeq
  <1>5. now = {i \in 1..(n + 1) : RouteOf(packet_queue[i]) = d}
        /\ next = {i \in 1..n : RouteOf(Tail(packet_queue)[i]) = d}
    <2>1. \A p : RouteOf(p)' = RouteOf(p)
      BY <1>2 DEF RouteOf
    <2> QED BY <1>2, <1>4, <2>1 DEF InQueue
  <1>6. new \in WorkerType /\ new.packet # NoPacket /\ new.packet = Head(packet_queue)
    BY <1>1, <1>3, StepsFacts, VnfAssumption DEF WorkerType, VnfAssumption
  <1>7. IsFiniteSet(now) /\ Cardinality(now) \in Nat
    BY OnceNumbers
  <1> HIDE DEF now, next, n, new
  <1>8. Cardinality(next) = Cardinality(rest)
    <2>1. rest \in SUBSET (2..(n + 1)) /\ next \in SUBSET (1..n)
      BY <1>4, <1>5
    <2>2. \A i \in 1..n : i \in next <=> i + 1 \in rest
      BY <1>3, <1>4, <1>5
    <2> HIDE DEF rest
    <2> QED BY <1>4, <2>1, <2>2, ShiftedPlaces
  <1>9. Cardinality(rest) = Cardinality(now) - one /\ Cardinality(rest) \in Nat
    <2>1. 1 \in now <=> RouteOf(Head(packet_queue)) = d
      BY <1>3, <1>4, <1>5
    <2>2. IsFiniteSet(rest)
          /\ Cardinality(rest) = IF 1 \in now THEN Cardinality(now) - 1 ELSE Cardinality(now)
      BY <1>7, FS_RemoveElement
    <2>3. Cardinality(rest) \in Nat
      BY <2>2, FS_CardinalityType
    <2> HIDE DEF rest
    <2> QED BY <1>7, <2>1, <2>2, <2>3
  <1>10. Cardinality(WithWorker(d))' = Cardinality(WithWorker(d)) + one
    <2>1. worker[w].packet = NoPacket
      BY <1>2 DEF PipeInv, PacketAt
    <2>2. Cardinality(WithWorker(d)) \in Nat
      BY OnceNumbers
    <2>3. /\ RouteOf(new.packet) = d =>
                Cardinality(WithWorker(d))' = Cardinality(WithWorker(d)) + 1
          /\ RouteOf(new.packet) # d =>
                Cardinality(WithWorker(d))' = Cardinality(WithWorker(d))
      BY <1>2, <1>6, <2>1, WorkerTakes
    <2> QED BY <1>6, <2>2, <2>3
  <1>11. vnf.accepted[d] = Cardinality(now) + Cardinality(WithWorker(d)) + vnf.ended[d] + handed[d]
    BY DEF OnceInv, now
  <1>12. vnf'.accepted[d] = Cardinality(next) + Cardinality(WithWorker(d))' + vnf'.ended[d] + handed'[d]
    <2>1. Cardinality(WithWorker(d)) \in Nat /\ vnf.ended[d] \in Nat /\ handed[d] \in Nat
      BY OnceNumbers
    <2> HIDE DEF one, rest
    <2>2. one \in Nat
      BY DEF one
    <2> QED BY <1>2, <1>7, <1>8, <1>9, <1>10, <1>11, <2>1, <2>2
  <1> QED BY <1>12 DEF next

\* The sum of OnceInv, when the queue stays as it is.
LEMMA OnceSum ==
    ASSUME PipeInv, OnceInv, UNCHANGED <<vnf_name, packet_queue>>, NEW d \in Dest,
           NEW one \in {0, 1},
           Cardinality(WithWorker(d))' = Cardinality(WithWorker(d)) - one,
           vnf'.accepted[d] = vnf.accepted[d],
           vnf'.ended[d] + handed'[d] = vnf.ended[d] + handed[d] + one,
           vnf'.ended[d] \in Nat, handed'[d] \in Nat
    PROVE  vnf'.accepted[d] = Cardinality(InQueue(d))' + Cardinality(WithWorker(d))'
                                + vnf'.ended[d] + handed'[d]
  <1>1. InQueue(d)' = InQueue(d)
    BY DEF InQueue, RouteOf
  <1>2. vnf.accepted[d] = Cardinality(InQueue(d)) + Cardinality(WithWorker(d)) + vnf.ended[d] + handed[d]
    BY DEF OnceInv
  <1>3. Cardinality(InQueue(d)) \in Nat /\ Cardinality(WithWorker(d)) \in Nat
        /\ vnf.ended[d] \in Nat /\ handed[d] \in Nat
    BY OnceNumbers
  <1>4. vnf'.accepted[d] = Cardinality(InQueue(d)) + Cardinality(WithWorker(d))'
                                + vnf'.ended[d] + handed'[d]
    BY <1>2, <1>3
  <1> QED BY <1>1, <1>4

\* A worker's packet ends, and nothing else happens to the packets.
LEMMA OnceEnds ==
    ASSUME PipeInv, OnceInv, NEW w \in Thread, NEW new \in WorkerType,
           worker[w].packet \in Raw, vnf_name = "dpi" => worker[w].packet # Malformed,
           new.packet = NoPacket, worker' = [worker EXCEPT ![w] = new],
           UNCHANGED <<vnf_name, packet_queue, handed>>,
           vnf'.accepted = vnf.accepted, vnf'.ended = Ended(w).ended
    PROVE  OnceInv'
  <1> SUFFICES ASSUME NEW d \in Dest
               PROVE  vnf'.accepted[d] = Cardinality(InQueue(d))' + Cardinality(WithWorker(d))'
                                           + vnf'.ended[d] + handed'[d]
    BY DEF OnceInv
  <1> DEFINE one == IF RouteOf(worker[w].packet) = d THEN 1 ELSE 0
  <1>1. vnf'.ended[d] = vnf.ended[d] + one
    BY EndedType
  <1>2. Cardinality(WithWorker(d)) \in Nat /\ vnf.ended[d] \in Nat /\ handed[d] \in Nat
    BY OnceNumbers
  <1>3. worker[w].packet # NoPacket
    BY VnfAssumption DEF VnfAssumption
  <1>4. /\ RouteOf(worker[w].packet) = d =>
              Cardinality(WithWorker(d))' = Cardinality(WithWorker(d)) - 1
        /\ RouteOf(worker[w].packet) # d =>
              Cardinality(WithWorker(d))' = Cardinality(WithWorker(d))
    BY <1>3, WorkerTakes
  <1>5. one \in {0, 1} /\ Cardinality(WithWorker(d))' = Cardinality(WithWorker(d)) - one
    BY <1>2, <1>4
  <1> HIDE DEF one
  <1>6. vnf'.ended[d] + handed'[d] = vnf.ended[d] + handed[d] + one /\ vnf'.ended[d] \in Nat
    BY <1>1, <1>2, <1>5
  <1> QED BY <1>2, <1>5, <1>6, OnceSum

LEMMA OnceDiscard ==
    ASSUME PipeInv, OnceInv, NEW w \in Thread, Discard(w)
    PROVE  OnceInv'
  <1>1. worker[w].packet \in Raw /\ vnf_name # "dpi"
    BY VnfAssumption DEF PipeInv, PacketAt, Discard, VnfAssumption
  <1>2. Waiting \in WorkerType /\ Waiting.packet = NoPacket
    BY DEF Waiting, WorkerType
  <1>3. worker' = [worker EXCEPT ![w] = Waiting] /\ UNCHANGED <<vnf_name, packet_queue, handed>>
        /\ vnf' = Ended(w)
    BY DEF Discard, senderVars
  <1>4. vnf'.accepted = vnf.accepted
    BY <1>3, KpiNumbers DEF Ended, VnfType
  <1> QED BY <1>1, <1>2, <1>3, <1>4, OnceEnds

LEMMA OnceRaise ==
    ASSUME PipeInv, OnceInv, NEW w \in Thread, Raise(w)
    PROVE  OnceInv'
  <1>1. PICK pc \in {"get", "record", "dead"} : RaiseTo(w, pc)
    BY RaiseFacts
  <1> DEFINE new == [Waiting EXCEPT !.pc = pc]
  <1>2. new \in WorkerType /\ new.packet = NoPacket
    BY DEF Waiting, WorkerType
  <1>3. worker[w].packet \in Raw /\ worker[w].packet # Malformed
    BY RaiseFacts DEF Sendable
  <1>4. worker' = [worker EXCEPT ![w] = new] /\ UNCHANGED <<vnf_name, packet_queue, handed>>
        /\ vnf' = [Ended(w) EXCEPT !.raised = @ + 1]
    BY <1>1 DEF RaiseTo, senderVars
  <1>5. vnf'.accepted = vnf.accepted /\ vnf'.ended = Ended(w).ended
    BY <1>4, KpiNumbers DEF Ended, VnfType
  <1> HIDE DEF new
  <1> QED BY <1>2, <1>3, <1>4, <1>5, OnceEnds

\* A step with which no packet changes its place.
LEMMA OnceKept ==
    ASSUME PipeInv, OnceInv, UNCHANGED <<vnf_name, packet_queue, handed>>,
           vnf'.accepted = vnf.accepted, vnf'.ended = vnf.ended,
           \A v \in Thread : worker'[v].packet = worker[v].packet
    PROVE  OnceInv'
  <1>1. \A p : RouteOf(p)' = RouteOf(p)
    BY DEF RouteOf
  <1>2. \A d \in Dest : InQueue(d)' = InQueue(d) /\ WithWorker(d)' = WithWorker(d)
    BY <1>1 DEF InQueue, WithWorker, Holding
  <1> QED BY <1>2 DEF OnceInv

LEMMA OnceCount ==
    ASSUME PipeInv, OnceInv, NEW w \in Thread,
           CountBytes(w) \/ RecordDelay(w) \/ Translates(w)
    PROVE  OnceInv'
  <1>1. UNCHANGED <<vnf_name, packet_queue, handed>>
    BY DEF CountBytes, RecordDelay, Translates, senderVars
  <1>2. vnf'.accepted = vnf.accepted /\ vnf'.ended = vnf.ended
    BY KpiNumbers DEF CountBytes, RecordDelay, Translates, VnfType
  <1>3. \A v \in Thread : worker'[v].packet = worker[v].packet
    <2>1. CASE CountBytes(w)
      BY <2>1 DEF CountBytes, Continue, PipeInv, PipeTypes, WorkerType
    <2>2. CASE RecordDelay(w)
      BY <2>2 DEF RecordDelay, Waiting, PipeInv, PipeTypes, PacketAt
    <2>3. CASE Translates(w)
      <3>1. worker' = [worker EXCEPT ![w] = [worker[w] EXCEPT !.pc = "send"]]
        BY <2>3, TranslateKeeps
      <3> QED BY <3>1 DEF PipeInv, PipeTypes, WorkerType
    <2> QED BY <2>1, <2>2, <2>3
  <1> QED BY <1>1, <1>2, <1>3, OnceKept

\* The packet goes from its worker to the batch of its destination.
LEMMA OnceHandOver ==
    ASSUME PipeInv, OnceInv, NEW w \in Thread, NEW load \in Payload, HandOver(w, load)
    PROVE  OnceInv'
  <1> SUFFICES ASSUME NEW d \in Dest
               PROVE  vnf'.accepted[d] = Cardinality(InQueue(d))' + Cardinality(WithWorker(d))'
                                           + vnf'.ended[d] + handed'[d]
    BY DEF OnceInv
  <1> DEFINE new == [pc |-> Steps[vnf_name].send, packet |-> NoPacket]
             one == IF RouteOf(worker[w].packet) = d THEN 1 ELSE 0
  <1>1. new \in WorkerType /\ new.packet = NoPacket
    BY StepsFacts DEF PipeInv, PipeTypes, WorkerType
  <1>2. worker' = [worker EXCEPT ![w] = new] /\ UNCHANGED <<vnf_name, packet_queue, vnf>>
        /\ handed' = [handed EXCEPT ![RouteOf(worker[w].packet)] = @ + 1]
    BY DEF HandOver, batch_send_to_target
  <1>3. worker[w].packet # NoPacket
    BY HandOverKeeps, VnfAssumption DEF Sendable, VnfAssumption
  <1>4. handed'[d] = handed[d] + one
    <2>1. handed \in [Dest -> Nat] /\ RouteOf(worker[w].packet) \in Dest
      BY HandOverKeeps DEF PipeInv, TypeInv, SenderTypeOK
    <2> QED BY <1>2, <2>1
  <1>5. Cardinality(WithWorker(d)) \in Nat /\ vnf.ended[d] \in Nat /\ handed[d] \in Nat
    BY OnceNumbers
  <1> HIDE DEF new
  <1>6. /\ RouteOf(worker[w].packet) = d =>
              Cardinality(WithWorker(d))' = Cardinality(WithWorker(d)) - 1
        /\ RouteOf(worker[w].packet) # d =>
              Cardinality(WithWorker(d))' = Cardinality(WithWorker(d))
    BY <1>1, <1>2, <1>3, WorkerTakes
  <1>7. one \in {0, 1} /\ Cardinality(WithWorker(d))' = Cardinality(WithWorker(d)) - one
    BY <1>5, <1>6
  <1> HIDE DEF one
  <1>8. vnf'.ended[d] + handed'[d] = vnf.ended[d] + handed[d] + one
        /\ vnf'.ended[d] \in Nat /\ handed'[d] \in Nat
    BY <1>2, <1>4, <1>5, <1>7
  <1> QED BY <1>2, <1>7, <1>8, OnceSum

LEMMA OnceSender ==
    ASSUME PipeInv, OnceInv, Sender(flush_all_batches) \/ Sender(FlushStep)
    PROVE  OnceInv'
  <1>1. handed' = handed
    BY DEF Sender, flush_all_batches, FlushStep, SendNext, SendFails, BatchDone, FlushTarget
  <1> QED BY <1>1, OnceKept DEF Sender

LEMMA OnceReport ==
    ASSUME PipeInv, OnceInv, Report
    PROVE  OnceInv'
  <1>1. UNCHANGED <<vnf_name, packet_queue, handed, worker>>
    BY DEF Report, CloseWindow, PostWindow, PostEnds, Posted, CloseAfterPost, senderVars
  <1>2. vnf'.accepted = vnf.accepted /\ vnf'.ended = vnf.ended
    BY KpiNumbers
       DEF Report, CloseWindow, PostWindow, PostEnds, Posted, CloseAfterPost, VnfType
  <1> QED BY <1>1, <1>2, OnceKept

LEMMA OnceStep == PipeInv /\ OnceInv /\ [AnyNext]_pipelineVars => OnceInv'
  <1> SUFFICES ASSUME PipeInv, OnceInv, [AnyNext]_pipelineVars
               PROVE  OnceInv'
    OBVIOUS
  <1>1. CASE UNCHANGED pipelineVars
    BY <1>1, OnceKept DEF pipelineVars, senderVars
  <1>2. ASSUME NEW w \in Thread, AnyWork(w)
        PROVE  OnceInv'
    BY <1>2, OnceGet, OnceDiscard, OnceCount, OnceHandOver, OnceRaise DEF AnyWork, HandsOver
  <1> QED BY <1>1, <1>2, OnceReceive, OnceSender, OnceReport DEF AnyNext

LEMMA OnceInit == PipelineInit => OnceInv
  <1> SUFFICES ASSUME PipelineInit, NEW d \in Dest
               PROVE  vnf.accepted[d] = Cardinality(InQueue(d)) + Cardinality(WithWorker(d))
                                          + vnf.ended[d] + handed[d]
    BY DEF OnceInv
  <1>1. DOMAIN packet_queue = {} /\ Holding = {}
    BY DEF PipelineInit, Holding, Waiting
  <1>2. InQueue(d) = {} /\ WithWorker(d) = {}
    BY <1>1 DEF InQueue, WithWorker
  <1>3. Cardinality(InQueue(d)) = 0 /\ Cardinality(WithWorker(d)) = 0
    BY <1>2, FS_EmptySet
  <1> QED BY <1>3 DEF PipelineInit, SenderInit

\* Every packet that was accepted is in one place, for each of the VNFs, any number of
\* workers and destinations and any queue: with VnfLosesNone, from the receiver to the
\* wire.
THEOREM ProcessedOnce == ASSUME Carried PROVE PipelineSpec => []EachProcessedOnce
  <1>1. OnceInv => EachProcessedOnce
    BY DEF OnceInv, EachProcessedOnce, InQueue, WithWorker
  <1> QED BY <1>1, OnceInit, PlainStep, OnceStep, PipeInvariant, PTL DEF PipelineSpec
=============================================================================
