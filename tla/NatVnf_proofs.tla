----------------------------- MODULE NatVnf_proofs -----------------------------
(***************************************************************************)
(* Proofs about NAT.  First the translation table by itself: for every pool  *)
(* and every number of flows, it is one to one until the pool wraps, an      *)
(* answer is never translated to a flow that has another port, and a flow    *)
(* keeps its port.  Then the VNF: it allocates as the table promises and     *)
(* sends as the batch sender promises, and the packets that leave it, by     *)
(* whichever workers, keep the flows apart.                                  *)
(***************************************************************************)
EXTENDS NatVnf, VnfPipeline_proofs

-----------------------------------------------------------------------------
(* The table                                                               *)

\* The successor of a port of the pool is a port of the pool.
LEMMA SuccessorInPool ==
    ASSUME NEW port \in Port
    PROVE  Successor(port) \in Port
  BY PoolAssumption DEF Port, Successor

\* One call keeps the types.
LEMMA NatTypeStep == NatTypeOK /\ [NatNext]_natVars => NatTypeOK'
  <1> SUFFICES ASSUME NatTypeOK, [NatNext]_natVars
               PROVE  NatTypeOK'
    OBVIOUS
  <1>1. CASE UNCHANGED natVars
    BY <1>1 DEF NatTypeOK, natVars
  <1>2. ASSUME NEW key \in Key, AllocateNew(key)
        PROVE  NatTypeOK'
    <2>1. key[1] \in Endpoint /\ key[2] \in Proto
      BY DEF Key
    <2>2. nat_table' \in [Key -> Port \cup {None}]
      BY <1>2 DEF NatTypeOK, AllocateNew
    <2>3. nat_table_rev' \in [Port \X Proto -> Endpoint \cup {None}]
      BY <1>2, <2>1 DEF NatTypeOK, AllocateNew
    <2>4. next_port' \in Port
      BY <1>2, SuccessorInPool DEF NatTypeOK, AllocateNew
    <2>5. allocations' \in Nat
      BY <1>2 DEF NatTypeOK, AllocateNew
    <2> QED
      BY <2>2, <2>3, <2>4, <2>5 DEF NatTypeOK
  <1> QED
    BY <1>1, <1>2 DEF NatNext, allocate_nat_port

LEMMA NatTypeInit == NatInit => NatTypeOK
  BY PoolAssumption DEF NatInit, NatTypeOK, Port

\* The types of the table, of the reverse table, of the next port and of the
\* counter are kept by every call of allocate_nat_port.
THEOREM NatTypeCorrect == NatSpec => []NatTypeOK
  BY NatTypeInit, NatTypeStep, PTL DEF NatSpec

-----------------------------------------------------------------------------
(* Before the pool wraps.  The property alone is not inductive: a new flow  *)
(* gets a port of its own because every port in the table was handed out    *)
(* before next_port, which has moved by one per allocation.                *)

InjectiveBelow ==
    \A key, other \in Key :
        (nat_table[key] # None /\ nat_table[key] = nat_table[other]) => key = other

FoundInReverse ==
    \A key \in Key : nat_table[key] # None =>
        nat_table_rev[<<nat_table[key], key[2]>>] = key[1]

PortsHandedOut ==
    \A key \in Key : nat_table[key] # None =>
        nat_table[key] < PORT_POOL_START + allocations

BeforeWrap ==
    allocations <= PoolSize =>
        /\ allocations < PoolSize => next_port = PORT_POOL_START + allocations
        /\ PortsHandedOut
        /\ InjectiveBelow
        /\ FoundInReverse

\* An allocation before the pool wraps: next_port is a port nobody has.
LEMMA BeforeWrapStep ==
    ASSUME NatTypeOK, BeforeWrap, NEW key \in Key, AllocateNew(key)
    PROVE  BeforeWrap'
  <1> SUFFICES ASSUME allocations' <= PoolSize
               PROVE  /\ allocations' < PoolSize => next_port' = PORT_POOL_START + allocations'
                      /\ PortsHandedOut'
                      /\ InjectiveBelow'
                      /\ FoundInReverse'
    BY DEF BeforeWrap
  <1>1. /\ PORT_POOL_START \in Nat /\ PORT_POOL_END \in Nat
        /\ PoolSize = PORT_POOL_END - PORT_POOL_START + 1
        /\ allocations \in Nat
        /\ allocations' = allocations + 1
    BY PoolAssumption DEF PoolSize, NatTypeOK, AllocateNew
  <1>2. /\ next_port = PORT_POOL_START + allocations
        /\ PortsHandedOut
        /\ InjectiveBelow
        /\ FoundInReverse
    BY <1>1 DEF BeforeWrap
  <1>3. next_port \in Port /\ next_port # None
    BY PoolAssumption DEF NatTypeOK, Port
  <1>4. \A k \in Key : nat_table'[k] = IF k = key THEN next_port ELSE nat_table[k]
    BY DEF NatTypeOK, AllocateNew
  <1>5. \A k \in Key : nat_table[k] # None => nat_table[k] \in Port /\ nat_table[k] # next_port
    BY <1>1, <1>2 DEF NatTypeOK, PortsHandedOut, Port
  <1>6. allocations' < PoolSize => next_port' = PORT_POOL_START + allocations'
    BY <1>1, <1>2 DEF AllocateNew, Successor
  <1>7. PortsHandedOut'
    BY <1>1, <1>2, <1>4, <1>5 DEF PortsHandedOut, Port
  <1>8. InjectiveBelow'
    BY <1>2, <1>3, <1>4, <1>5 DEF InjectiveBelow
  <1>9. FoundInReverse'
    <2> SUFFICES ASSUME NEW k \in Key, nat_table'[k] # None
                 PROVE  nat_table_rev'[<<nat_table'[k], k[2]>>] = k[1]
      BY DEF FoundInReverse
    <2>1. \A slot \in Port \X Proto : nat_table_rev'[slot] =
            IF slot = <<next_port, key[2]>> THEN key[1] ELSE nat_table_rev[slot]
      BY DEF NatTypeOK, AllocateNew
    <2>2. key[2] \in Proto /\ k[2] \in Proto
      BY DEF Key
    <2>3. CASE k = key
      BY <1>3, <1>4, <2>1, <2>2, <2>3
    <2>4. CASE k # key
      <3>1. nat_table'[k] = nat_table[k] /\ nat_table[k] \in Port /\ nat_table[k] # next_port
        BY <1>4, <1>5, <2>4
      <3>2. <<nat_table[k], k[2]>> \in Port \X Proto
            /\ <<nat_table[k], k[2]>> # <<next_port, key[2]>>
        BY <3>1, <2>2
      <3>3. nat_table_rev'[<<nat_table[k], k[2]>>] = nat_table_rev[<<nat_table[k], k[2]>>]
        BY <3>2, <2>1
      <3> QED
        BY <1>2, <3>1, <3>3 DEF FoundInReverse
    <2> QED
      BY <2>3, <2>4
  <1> QED
    BY <1>6, <1>7, <1>8, <1>9

LEMMA BeforeWrapInit == NatInit => BeforeWrap
  <1> SUFFICES ASSUME NatInit PROVE BeforeWrap
    OBVIOUS
  <1>1. \A key \in Key : nat_table[key] = None
    BY DEF NatInit
  <1>2. next_port = PORT_POOL_START + allocations
    BY PoolAssumption DEF NatInit
  <1> QED
    BY <1>1, <1>2 DEF BeforeWrap, PortsHandedOut, InjectiveBelow, FoundInReverse

\* Until the pool of ports starts over, no two flows of either protocol share a
\* port and every flow is found in the reverse table.
THEOREM OneToOne == NatSpec => []OneToOneUntilWrap
  <1>1. NatTypeOK /\ BeforeWrap /\ [NatNext]_natVars => BeforeWrap'
    <2> SUFFICES ASSUME NatTypeOK, BeforeWrap, [NatNext]_natVars
                 PROVE  BeforeWrap'
      OBVIOUS
    <2>1. CASE UNCHANGED natVars
      BY <2>1 DEF natVars, BeforeWrap, PortsHandedOut, InjectiveBelow, FoundInReverse
    <2>2. ASSUME NEW key \in Key, AllocateNew(key)
          PROVE  BeforeWrap'
      BY <2>2, BeforeWrapStep
    <2> QED
      BY <2>1, <2>2 DEF NatNext, allocate_nat_port
  <1>2. BeforeWrap => OneToOneUntilWrap
    BY DEF BeforeWrap, OneToOneUntilWrap, InjectiveBelow, FoundInReverse
  <1> QED
    BY <1>1, <1>2, NatTypeCorrect, BeforeWrapInit, PTL DEF NatSpec

-----------------------------------------------------------------------------
\* An allocation takes a slot of the reverse table over from a flow that keeps
\* its port: every slot names an owner of its port.
LEMMA ReverseStep ==
    ASSUME NatTypeOK, ReverseOwnsPort, NEW key \in Key, AllocateNew(key)
    PROVE  ReverseOwnsPort'
  <1> SUFFICES ASSUME NEW port \in Port, NEW proto \in Proto,
                      nat_table_rev'[<<port, proto>>] # None
               PROVE  nat_table'[<<nat_table_rev'[<<port, proto>>], proto>>] = port
    BY DEF ReverseOwnsPort
  <1>1. key[1] \in Endpoint /\ key[2] \in Proto /\ key = <<key[1], key[2]>>
    BY DEF Key
  <1>2. \A k \in Key : nat_table'[k] = IF k = key THEN next_port ELSE nat_table[k]
    BY DEF NatTypeOK, AllocateNew
  <1>3. nat_table_rev'[<<port, proto>>] =
            IF <<port, proto>> = <<next_port, key[2]>> THEN key[1]
            ELSE nat_table_rev[<<port, proto>>]
    BY DEF NatTypeOK, AllocateNew
  <1>4. CASE <<port, proto>> = <<next_port, key[2]>>
    BY <1>1, <1>2, <1>3, <1>4
  <1>5. CASE <<port, proto>> # <<next_port, key[2]>>
    <2> DEFINE endpoint == nat_table_rev[<<port, proto>>]
    <2>1. nat_table_rev'[<<port, proto>>] = endpoint /\ endpoint # None
      BY <1>3, <1>5
    <2>2. endpoint \in Endpoint
      BY <2>1 DEF NatTypeOK
    <2>3. nat_table[<<endpoint, proto>>] = port
      BY <2>1 DEF ReverseOwnsPort
    <2>4. <<endpoint, proto>> \in Key /\ <<endpoint, proto>> # key
      <3>1. <<endpoint, proto>> \in Key
        BY <2>2 DEF Key
      <3>2. port # None /\ nat_table[key] = None
        BY PoolAssumption DEF Port, AllocateNew, Known
      <3> QED
        BY <3>1, <3>2, <2>3
    <2> QED
      BY <1>2, <2>1, <2>3, <2>4
  <1> QED
    BY <1>4, <1>5

\* After any number of wraps, the reverse entry of a port names a flow that has
\* that port.
THEOREM ReverseOwned == NatSpec => []ReverseOwnsPort
  <1>1. NatInit => ReverseOwnsPort
    BY DEF NatInit, ReverseOwnsPort
  <1>2. NatTypeOK /\ ReverseOwnsPort /\ [NatNext]_natVars => ReverseOwnsPort'
    <2> SUFFICES ASSUME NatTypeOK, ReverseOwnsPort, [NatNext]_natVars
                 PROVE  ReverseOwnsPort'
      OBVIOUS
    <2>1. CASE UNCHANGED natVars
      BY <2>1 DEF natVars, ReverseOwnsPort
    <2>2. ASSUME NEW key \in Key, AllocateNew(key)
          PROVE  ReverseOwnsPort'
      BY <2>2, ReverseStep
    <2> QED
      BY <2>1, <2>2 DEF NatNext, allocate_nat_port
  <1> QED
    BY <1>1, <1>2, NatTypeCorrect, PTL DEF NatSpec

\* A call changes no entry of the table.
LEMMA KnownStays ==
    ASSUME NatTypeOK, [NatNext]_natVars, NEW key \in Key, Known(key)
    PROVE  nat_table'[key] = nat_table[key]
  <1>1. CASE UNCHANGED natVars
    BY <1>1 DEF natVars
  <1>2. ASSUME NEW other \in Key, AllocateNew(other)
        PROVE  nat_table'[key] = nat_table[key]
    BY <1>2 DEF AllocateNew, Known, NatTypeOK
  <1> QED
    BY <1>1, <1>2 DEF NatNext, allocate_nat_port

\* A flow keeps the port it was given first, for good, whatever other flows are given.
THEOREM FlowKeepsPort == NatSpec => PortIsKept
  <1>1. NatTypeOK /\ [NatNext]_natVars =>
          [\A key \in Key : Known(key) => nat_table'[key] = nat_table[key]]_natVars
    BY KnownStays
  <1> QED
    BY <1>1, NatTypeCorrect, PTL DEF NatSpec, PortIsKept

-----------------------------------------------------------------------------
(* The VNF: its steps are steps of the table and of a pipeline that may hand *)
(* over more than the packet.                                              *)

Ports == new_port \in [Thread -> Port \cup {None}]

LEMMA VnfIsNat ==
    ASSUME PipeInv
    PROVE  vnf_name = "nat" /\ Target \in Dest /\ \A packet : RouteOf(packet) = Target
  <1>1. vnf_name = "nat"
    BY NatVnfAssumption DEF PipeInv, PipeTypes
  <1> QED BY <1>1, TargetFacts DEF RouteOf, Target

\* A worker translates the TCP and UDP packets and leaves the others alone.
LEMMA TranslateFacts ==
    ASSUME PipeInv, NatTypeOK, Ports, NEW w \in Thread, Translate(w)
    PROVE  /\ Translates(w)
           /\ worker[w].packet \in Key =>
                  /\ allocate_nat_port(worker[w].packet)
                  /\ new_port' = [new_port EXCEPT ![w] = nat_table'[worker[w].packet]]
           /\ worker[w].packet \notin Key => UNCHANGED <<natVars, new_port>>
  BY VnfIsNat DEF Translate, Translates

LEMMA PortsKeep == PipeInv /\ NatTypeOK /\ Ports /\ [Next]_vars => Ports'
  <1> SUFFICES ASSUME PipeInv, NatTypeOK, Ports, [Next]_vars
               PROVE  Ports'
    OBVIOUS
  <1>1. ASSUME NEW w \in Thread, Translate(w)
        PROVE  Ports'
    <2>1. CASE worker[w].packet \in Key
      <3>1. NatNext
        BY <1>1, <2>1, TranslateFacts DEF NatNext
      <3>2. nat_table'[worker[w].packet] \in Port \cup {None}
        BY <2>1, <3>1, NatTypeStep DEF NatTypeOK
      <3> QED BY <1>1, <2>1, <3>2, TranslateFacts DEF Ports
    <2>2. CASE worker[w].packet \notin Key
      BY <1>1, <2>2, TranslateFacts DEF Ports
    <2> QED BY <2>1, <2>2
  <1>2. ASSUME NEW w \in Thread, ForgetPort(w)
        PROVE  Ports'
    BY <1>2 DEF ForgetPort, Ports
  <1>3. CASE UNCHANGED new_port
    BY <1>3 DEF Ports
  <1> QED BY <1>1, <1>2, <1>3 DEF Next, NatWork, Plain, SendTranslated, CannotRebuild, vars

\* What the worker hands over: the packet with its port.
LEMMA LoadType ==
    ASSUME PipeInv, Ports, NEW w \in Thread, worker[w].pc = "send"
    PROVE  [key |-> worker[w].packet, port |-> new_port[w]] \in Payload
  <1>1. worker[w].packet \in Key \cup {Other}
    BY NatVnfAssumption DEF PipeInv, PacketAt, Sendable
  <1>2. new_port[w] \in Port \cup {None}
    BY DEF Ports
  <1> QED BY <1>1, <1>2, NatVnfAssumption

LEMMA StepPipes == PipeInv /\ NatTypeOK /\ Ports /\ [Next]_vars => [AnyNext]_pipelineVars
  <1> SUFFICES ASSUME PipeInv, NatTypeOK, Ports, [Next]_vars
               PROVE  [AnyNext]_pipelineVars
    OBVIOUS
  <1>1. CASE UNCHANGED vars
    BY <1>1 DEF vars
  <1>2. ASSUME NEW w \in Thread, SendTranslated(w)
        PROVE  HandsOver(w)
    BY <1>2, LoadType DEF SendTranslated, HandOver, HandsOver
  <1>3. ASSUME NEW w \in Thread, NatWork(w) \/ CannotRebuild(w)
        PROVE  AnyWork(w)
    BY <1>2, <1>3, TranslateFacts DEF NatWork, CannotRebuild, Plain, AnyWork, Raise
  <1>4. ASSUME NEW packet \in Raw, Plain(Receive(packet))
        PROVE  AnyNext
    BY <1>4 DEF Plain, AnyNext
  <1>5. CASE Plain(Sender(flush_all_batches)) \/ Plain(Sender(FlushStep))
    BY <1>5 DEF Plain, AnyNext
  <1>6. CASE Plain(CloseWindow \/ Posted)
    BY <1>6 DEF Plain, AnyNext, Report, PostEnds
  <1> QED BY <1>1, <1>3, <1>4, <1>5, <1>6 DEF Next, AnyNext

LEMMA StepAllocates == [Next]_vars => [NatNext]_natVars
  <1> SUFFICES ASSUME [Next]_vars
               PROVE  [NatNext]_natVars
    OBVIOUS
  <1>1. ASSUME NEW w \in Thread, Translate(w)
        PROVE  [NatNext]_natVars
    BY <1>1 DEF Translate, NatNext
  <1> QED BY <1>1 DEF Next, NatWork, Plain, SendTranslated, CannotRebuild, ForgetPort, vars

\* The table within the VNF: whatever the workers, the receiver, the timers and the
\* sender do, it goes only through calls of allocate_nat_port.
THEOREM AllocatesAsSpecified == Spec => NatSpec
  BY StepAllocates, PTL DEF Spec, Init, NatSpec

VnfInv == PipeInv /\ NatTypeOK /\ Ports

LEMMA VnfInit == Init => VnfInv
  BY PipeInit, NatTypeInit DEF Init, VnfInv, Ports

LEMMA VnfStep == VnfInv /\ [Next]_vars => VnfInv'
  BY StepPipes, AnyStep, StepAllocates, NatTypeStep, PortsKeep DEF VnfInv

LEMMA VnfInvariant == Spec => []VnfInv
  BY VnfInit, VnfStep, PTL DEF Spec

\* Type correctness of the NAT VNF.
THEOREM NatVnfTypeCorrect == Spec => []TypeOK
  <1>1. VnfInv => TypeOK
    BY DEF VnfInv, PipeInv, TypeInv, PipeTypes, WorkerType, VnfType, PipelineTypeOK, Ports,
       TypeOK
  <1> QED BY <1>1, VnfInvariant, PTL

LEMMA StepPipesInv == VnfInv /\ [Next]_vars => PipeInv /\ [AnyNext]_pipelineVars
  BY StepPipes DEF VnfInv

\* The translation leaves the batched sending as it is: what BatchSender promises of the
\* order and of the losses holds of translated packets.
THEOREM TranslatedSendsAsSpecified == Spec => SenderSpec
  <1>1. Init => SenderInit
    BY DEF Init, PipelineInit
  <1>2. VnfInv /\ [Next]_vars => [SenderNext]_senderVars
    BY StepPipesInv, StepSends
  <1> QED BY <1>1, <1>2, VnfInvariant, PTL DEF Spec, SenderSpec

\* Every packet that NAT accepted is queued, with one worker, handed over, or ended:
\* translating it neither loses nor doubles it.
THEOREM TranslatedOnce == Spec => []EachProcessedOnce
  <1>1. OnceInv => EachProcessedOnce
    BY DEF OnceInv, EachProcessedOnce, InQueue, WithWorker
  <1>2. Init => OnceInv
    BY OnceInit DEF Init
  <1>3. VnfInv /\ OnceInv /\ [Next]_vars => OnceInv'
    BY StepPipesInv, OnceStep
  <1> QED BY <1>1, <1>2, <1>3, VnfInvariant, PTL DEF Spec

\* However fast packets arrive, NAT too holds a full queue, a packet per worker and a
\* batch but one: a packet that is translated is held by its worker as before.
THEOREM TranslatedHoldsFew == Spec => []HeldPacketsBounded
  <1>1. Spec => []BacklogInv
    BY TranslatedSendsAsSpecified, TypeInit, TypeStep, BacklogInit, BacklogStep, PTL
       DEF SenderSpec
  <1>2. Init => HeldInv
    BY HeldInit DEF Init
  <1>3. VnfInv /\ BacklogInv /\ HeldInv /\ [Next]_vars => HeldInv'
    BY StepPipesInv, HeldStep
  <1>4. VnfInv => PipeInv
    BY DEF VnfInv
  <1> QED BY <1>1, <1>2, <1>3, <1>4, HeldBound, VnfInvariant, PTL DEF Spec

\* What NAT reports adds up: a packet on its way through the translation is counted, and
\* its delay is still to come.
THEOREM TranslatedReportsAddUp == Spec => []KpisAddUp
  <1>1. KpiInv => KpisAddUp
    BY DEF KpiInv
  <1>2. Init => KpiInv
    BY KpiInit DEF Init
  <1>3. VnfInv /\ KpiInv /\ [Next]_vars => KpiInv'
    BY StepPipesInv, KpiStep
  <1> QED BY <1>1, <1>2, <1>3, VnfInvariant, PTL DEF Spec

\* A flow keeps its port, the reverse entry of a port names an owner of it, and until
\* the pool wraps no two flows share a port, with any number of workers translating.
THEOREM TranslatesAsSpecified ==
    Spec => []OneToOneUntilWrap /\ []ReverseOwnsPort /\ PortIsKept
  BY AllocatesAsSpecified, OneToOne, ReverseOwned, FlowKeepsPort, PTL

-----------------------------------------------------------------------------
(* FlowsStayApart.  A packet has the port of its flow from its translation   *)
(* on, and the table never changes a port that it has given.               *)

RightPort(key, port) ==
    IF key \in Key THEN nat_table[key] # None /\ port = nat_table[key] ELSE port = None

LoadsRight == \A p \in ToSet(Pipeline(Target)) : RightPort(p.load.key, p.load.port)

WorkerRight(w) ==
    IF worker[w].pc = "send" THEN RightPort(worker[w].packet, new_port[w]) ELSE new_port[w] = None

WorkersRight == \A w \in Thread : WorkerRight(w)

ApartInv == LoadsRight /\ WorkersRight

\* What the table has told stays true.
LEMMA RightStays ==
    ASSUME NatTypeOK, [NatNext]_natVars, NEW key, NEW port, RightPort(key, port)
    PROVE  RightPort(key, port)'
  <1>1. CASE key \in Key
    <2>1. Known(key)
      BY <1>1 DEF RightPort, Known
    <2>2. nat_table'[key] = nat_table[key]
      BY <1>1, <2>1, KnownStays
    <2> QED BY <1>1, <2>1, <2>2 DEF RightPort, Known
  <1>2. CASE key \notin Key
    BY <1>2 DEF RightPort
  <1> QED BY <1>1, <1>2

\* A call leaves the flow with a port.
LEMMA CallTells ==
    ASSUME NatTypeOK, NEW key \in Key, allocate_nat_port(key)
    PROVE  nat_table'[key] # None
  <1>1. CASE AllocateNew(key)
    <2>1. next_port # None
      BY PoolAssumption DEF NatTypeOK, Port
    <2> QED BY <1>1, <2>1 DEF AllocateNew, NatTypeOK
  <1>2. CASE Known(key) /\ UNCHANGED natVars
    BY <1>2 DEF Known, natVars
  <1> QED BY <1>1, <1>2 DEF allocate_nat_port

\* A packet enters the pipeline with its number and its load, and only by the last step
\* of a worker.
LEMMA NothingJoins ==
    ASSUME TypeInv, [SenderNext]_senderVars, NEW d \in Dest, handed'[d] = handed[d]
    PROVE  ToSet(Pipeline(d))' \subseteq ToSet(Pipeline(d))
  <1>1. handed[d] \in Nat
    BY DEF TypeInv, SenderTypeOK
  <1>2. CASE Kept(d)
    BY <1>2 DEF Kept
  <1>3. CASE CutOut(d)
    <2>1. PICK w, b, q \in Seq(Packet) : Pipeline(d) = w \o b \o q /\ Pipeline(d)' = w \o q
      BY <1>3 DEF CutOut
    <2>2. ToSet(w \o b \o q) = ToSet(w \o q) \cup ToSet(b)
      BY ToSetCut
    <2> QED BY <2>1, <2>2
  <1>4. ~Grown(d)
    BY <1>1 DEF Grown
  <1> QED BY <1>2, <1>3, <1>4, PipelineSteps DEF PipelineStep

LEMMA LoadJoins ==
    ASSUME TypeInv, NEW w \in Thread, NEW d \in Dest, NEW load \in Payload,
           batch_send_to_target(w, d, load), NEW p \in ToSet(Pipeline(d))'
    PROVE  p \in ToSet(Pipeline(d)) \/ p.load = load
  <1> DEFINE new == [n |-> handed[d] + 1, load |-> load]
  <1>1. new \in Packet /\ new.load = load
    BY PacketType DEF TypeInv
  <1>2. Pipeline(d)' = Append(Pipeline(d), new)
    BY Joined
  <1> HIDE DEF new
  <1>3. Pipeline(d) \in Seq(Packet)
    BY PartTypes
  <1>4. ToSet(Append(Pipeline(d), new)) = ToSet(Pipeline(d)) \cup {new}
    BY <1>1, <1>3, ToSetAppend
  <1> QED BY <1>1, <1>2, <1>4

\* Steps with which no packet joins the pipeline.
LEMMA LoadsStay ==
    ASSUME VnfInv, LoadsRight, [Next]_vars, handed'[Target] = handed[Target]
    PROVE  LoadsRight'
  <1>1. [SenderNext]_senderVars /\ [NatNext]_natVars /\ TypeInv /\ Target \in Dest /\ NatTypeOK
    BY StepPipesInv, StepSends, StepAllocates, VnfIsNat DEF VnfInv, PipeInv
  <1>2. ToSet(Pipeline(Target))' \subseteq ToSet(Pipeline(Target))
    BY <1>1, NothingJoins
  <1>3. ASSUME NEW p \in ToSet(Pipeline(Target))'
        PROVE  RightPort(p.load.key, p.load.port)'
    <2>1. RightPort(p.load.key, p.load.port)
      BY <1>2 DEF LoadsRight
    <2> QED BY <1>1, <2>1, RightStays
  <1> QED BY <1>3 DEF LoadsRight

LEMMA ApartSend ==
    ASSUME VnfInv, ApartInv, NEW w \in Thread, SendTranslated(w)
    PROVE  ApartInv'
  <1> DEFINE load == [key |-> worker[w].packet, port |-> new_port[w]]
  <1>1. HandOver(w, load) /\ ForgetPort(w) /\ worker[w].pc = "send" /\ PipeInv /\ Ports
    BY DEF SendTranslated, HandOver, VnfInv
  <1>2. load \in Payload /\ load.key = worker[w].packet /\ load.port = new_port[w]
    BY <1>1, LoadType
  <1>3. RightPort(load.key, load.port)
    BY <1>1, <1>2 DEF ApartInv, WorkersRight, WorkerRight
  <1> HIDE DEF load
  <1>4. nat_table' = nat_table
    BY <1>1 DEF ForgetPort, natVars
  <1>5. \A key, port : RightPort(key, port)' <=> RightPort(key, port)
    BY <1>4 DEF RightPort
  <1>6. LoadsRight'
    <2>1. batch_send_to_target(w, Target, load) /\ Target \in Dest /\ TypeInv
      BY <1>1, VnfIsNat DEF HandOver, PipeInv
    <2>2. ASSUME NEW p \in ToSet(Pipeline(Target))'
          PROVE  RightPort(p.load.key, p.load.port)'
      <3>1. p \in ToSet(Pipeline(Target)) \/ p.load = load
        BY <1>2, <2>1, LoadJoins
      <3> QED BY <1>3, <1>5, <3>1 DEF ApartInv, LoadsRight
    <2> QED BY <2>2 DEF LoadsRight
  <1>7. WorkersRight'
    <2>1. worker' = [worker EXCEPT ![w] = [pc |-> Steps[vnf_name].send, packet |-> NoPacket]]
          /\ worker \in [Thread -> WorkerType] /\ new_port \in [Thread -> Port \cup {None}]
          /\ new_port' = [new_port EXCEPT ![w] = None]
      BY <1>1 DEF HandOver, ForgetPort, PipeInv, PipeTypes, Ports
    <2>2. worker'[w].pc = "record" /\ new_port'[w] = None
      BY <1>1, <2>1, VnfIsNat, StepsFacts DEF PipeInv, PipeTypes
    <2>3. \A v \in Thread : v # w => worker'[v] = worker[v] /\ new_port'[v] = new_port[v]
      BY <2>1
    <2> QED BY <1>5, <2>2, <2>3 DEF ApartInv, WorkersRight, WorkerRight
  <1> QED BY <1>6, <1>7 DEF ApartInv

\* A step of a worker that leaves it elsewhere than before sending.
LEMMA WorkersMove ==
    ASSUME VnfInv, WorkersRight, [NatNext]_natVars, NEW w \in Thread, NEW new \in WorkerType,
           worker' = [worker EXCEPT ![w] = new], new.pc # "send", new_port'[w] = None,
           \A v \in Thread : v # w => new_port'[v] = new_port[v]
    PROVE  WorkersRight'
  <1>1. worker'[w] = new /\ \A v \in Thread : v # w => worker'[v] = worker[v]
    BY DEF VnfInv, PipeInv, PipeTypes
  <1>2. ASSUME NEW v \in Thread, v # w
        PROVE  WorkerRight(v)'
    <2>1. worker'[v] = worker[v] /\ new_port'[v] = new_port[v] /\ WorkerRight(v)
      BY <1>1, <1>2 DEF WorkersRight
    <2>2. CASE worker[v].pc = "send"
      <3>1. RightPort(worker[v].packet, new_port[v])'
        <4>1. \A key, port : RightPort(key, port) => RightPort(key, port)'
          BY RightStays DEF VnfInv
        <4> QED BY <2>1, <2>2, <4>1 DEF WorkerRight, RightPort
      <3> QED BY <2>1, <2>2, <3>1 DEF WorkerRight
    <2>3. CASE worker[v].pc # "send"
      BY <2>1, <2>3 DEF WorkerRight
    <2> QED BY <2>2, <2>3
  <1>3. WorkerRight(w)'
    BY <1>1 DEF WorkerRight
  <1> QED BY <1>2, <1>3 DEF WorkersRight

LEMMA ApartTranslate ==
    ASSUME VnfInv, ApartInv, NEW w \in Thread, Translate(w), [Next]_vars
    PROVE  ApartInv'
  <1> DEFINE packet == worker[w].packet
  <1>1. /\ PipeInv /\ NatTypeOK /\ Ports /\ Translates(w)
        /\ packet \in Key => /\ allocate_nat_port(packet)
                             /\ new_port' = [new_port EXCEPT ![w] = nat_table'[packet]]
        /\ packet \notin Key => UNCHANGED <<natVars, new_port>>
    BY TranslateFacts DEF VnfInv
  <1>2. worker[w].pc = "translate" /\ new_port[w] = None
    BY <1>1 DEF Translates, ApartInv, WorkersRight, WorkerRight
  <1>3. worker' = [worker EXCEPT ![w] = [worker[w] EXCEPT !.pc = "send"]]
    BY <1>1, TranslateKeeps
  <1>4. worker'[w].pc = "send" /\ worker'[w].packet = packet
        /\ \A v \in Thread : v # w => worker'[v] = worker[v]
    BY <1>1, <1>3 DEF PipeInv, PipeTypes, WorkerType
  <1> HIDE DEF packet
  <1>5. LoadsRight'
    <2>1. handed' = handed
      BY <1>1 DEF Translates, senderVars
    <2> QED BY <2>1, LoadsStay DEF ApartInv
  <1>6. WorkerRight(w)'
    <2>1. CASE packet \in Key
      <3>1. nat_table'[packet] # None /\ new_port'[w] = nat_table'[packet]
        BY <1>1, <2>1, CallTells DEF Ports
      <3> QED BY <1>4, <2>1, <3>1 DEF WorkerRight, RightPort
    <2>2. CASE packet \notin Key
      BY <1>1, <1>2, <1>4, <2>2 DEF WorkerRight, RightPort
    <2> QED BY <2>1, <2>2
  <1>7. ASSUME NEW v \in Thread, v # w
        PROVE  WorkerRight(v)'
    <2>1. new_port'[v] = new_port[v]
      BY <1>1, <1>7 DEF Ports
    <2>2. [NatNext]_natVars /\ WorkerRight(v) /\ worker'[v] = worker[v]
      BY <1>4, <1>7, StepAllocates DEF ApartInv, WorkersRight
    <2>3. CASE worker[v].pc = "send"
      <3>1. RightPort(worker[v].packet, new_port[v])
        BY <2>2, <2>3 DEF WorkerRight
      <3>2. \A key, port : RightPort(key, port) => RightPort(key, port)'
        BY <1>1, <2>2, RightStays
      <3> QED BY <2>1, <2>2, <2>3, <3>1, <3>2 DEF WorkerRight, RightPort
    <2>4. CASE worker[v].pc # "send"
      BY <2>1, <2>2, <2>4 DEF WorkerRight
    <2> QED BY <2>3, <2>4
  <1> QED BY <1>5, <1>6, <1>7 DEF ApartInv, WorkersRight

\* The other steps of a worker.
LEMMA ApartWork ==
    ASSUME VnfInv, ApartInv, [Next]_vars, NEW w \in Thread,
           \/ Plain(Get(w) \/ Discard(w) \/ CountBytes(w) \/ RecordDelay(w))
           \/ CannotRebuild(w)
    PROVE  ApartInv'
  <1>1. PipeInv /\ NatTypeOK /\ Ports /\ vnf_name = "nat"
    BY VnfIsNat DEF VnfInv
  <1>2. UNCHANGED senderVars
    BY DEF Plain, Get, Discard, CountBytes, RecordDelay, CannotRebuild, WorkerDies, RaiseTo
  <1>3. LoadsRight'
    BY <1>2, LoadsStay DEF ApartInv, senderVars
  <1>4. new_port'[w] = None /\ \A v \in Thread : v # w => new_port'[v] = new_port[v]
    <2>1. CASE CannotRebuild(w)
      BY <1>1, <2>1 DEF CannotRebuild, ForgetPort, Ports
    <2>2. CASE Plain(Get(w) \/ Discard(w) \/ CountBytes(w) \/ RecordDelay(w))
      <3>1. worker[w].pc # "send" /\ new_port' = new_port
        BY <2>2 DEF Plain, Get, Discard, CountBytes, RecordDelay
      <3> QED BY <3>1 DEF ApartInv, WorkersRight, WorkerRight
    <2> QED BY <2>1, <2>2
  <1>5. PICK new \in WorkerType : worker' = [worker EXCEPT ![w] = new] /\ new.pc # "send"
    <2>1. CASE Plain(Get(w))
      <3> DEFINE new == [pc |-> "count", packet |-> Head(packet_queue)]
      <3>1. new \in WorkerType
        BY <1>1, <2>1 DEF Plain, Get, PipeInv, PipeTypes, WorkerType
      <3>2. Steps[vnf_name].get = "count"
        BY <1>1, StepsFacts DEF PipeInv, PipeTypes
      <3> QED BY <2>1, <3>1, <3>2 DEF Plain, Get
    <2>2. CASE Plain(Discard(w)) \/ Plain(RecordDelay(w))
      <3>1. Waiting \in WorkerType /\ Waiting.pc # "send"
        BY DEF Waiting, WorkerType
      <3> QED BY <2>2, <3>1 DEF Plain, Discard, RecordDelay
    <2>3. CASE Plain(CountBytes(w))
      <3> DEFINE new == [worker[w] EXCEPT !.pc = "translate"]
      <3>1. worker[w] \in WorkerType /\ worker[w].pc = "count"
        BY <1>1, <2>3 DEF Plain, CountBytes, PipeInv, PipeTypes
      <3>2. new \in WorkerType /\ new.pc # "send"
        BY <3>1 DEF WorkerType
      <3>3. Steps[vnf_name]["count"] = "translate"
        BY <1>1, StepsFacts DEF PipeInv, PipeTypes
      <3>4. worker' = [worker EXCEPT ![w] = new]
        BY <1>1, <2>3, <3>1, <3>3 DEF Plain, CountBytes, Continue, PipeInv, PipeTypes
      <3> HIDE DEF new
      <3> QED BY <3>2, <3>4
    <2>4. CASE CannotRebuild(w)
      <3> DEFINE new == [Waiting EXCEPT !.pc = "dead"]
      <3>1. new \in WorkerType /\ new.pc # "send"
        BY DEF Waiting, WorkerType
      <3> QED BY <2>4, <3>1 DEF CannotRebuild, WorkerDies, RaiseTo
    <2> QED BY <2>1, <2>2, <2>3, <2>4 DEF Plain
  <1>6. WorkersRight'
    BY <1>4, <1>5, WorkersMove, StepAllocates DEF ApartInv
  <1> QED BY <1>3, <1>6 DEF ApartInv

\* The receiver, the timers and the sender.
LEMMA ApartElsewhere ==
    ASSUME VnfInv, ApartInv, [Next]_vars,
           UNCHANGED <<worker, new_port, natVars>>, handed' = handed
    PROVE  ApartInv'
  <1>1. LoadsRight'
    BY LoadsStay DEF ApartInv
  <1>2. WorkersRight'
    BY DEF ApartInv, WorkersRight, WorkerRight, RightPort, natVars
  <1> QED BY <1>1, <1>2 DEF ApartInv

LEMMA ApartStep == VnfInv /\ ApartInv /\ [Next]_vars => ApartInv'
  <1> SUFFICES ASSUME VnfInv, ApartInv, [Next]_vars
               PROVE  ApartInv'
    OBVIOUS
  <1>1. CASE UNCHANGED vars
    BY <1>1, ApartElsewhere DEF vars, pipelineVars, senderVars
  <1>2. ASSUME NEW w \in Thread, NatWork(w) \/ CannotRebuild(w)
        PROVE  ApartInv'
    BY <1>2, ApartTranslate, ApartSend, ApartWork DEF NatWork
  <1>3. ASSUME NEW packet \in Raw, Plain(Receive(packet))
        PROVE  ApartInv'
    BY <1>3, ApartElsewhere DEF Plain, Receive, senderVars
  <1>4. CASE Plain(Sender(flush_all_batches)) \/ Plain(Sender(FlushStep))
    <2>1. handed' = handed /\ UNCHANGED <<worker, new_port, natVars>>
      BY <1>4 DEF Plain, Sender, flush_all_batches, FlushStep, SendNext, SendFails, BatchDone,
         FlushTarget
    <2> QED BY <2>1, ApartElsewhere
  <1>5. CASE Plain(CloseWindow \/ Posted)
    BY <1>5, ApartElsewhere DEF Plain, CloseWindow, Posted, senderVars
  <1> QED BY <1>1, <1>2, <1>3, <1>4, <1>5 DEF Next

LEMMA ApartInit == Init => ApartInv
  <1> SUFFICES ASSUME Init
               PROVE  ApartInv
    OBVIOUS
  <1>1. \A w \in Thread : worker[w].pc = "get" /\ new_port[w] = None
    BY DEF Init, PipelineInit, Waiting
  <1>2. ToSet(Pipeline(Target)) = {}
    <2>1. SenderInit /\ Target \in Dest
      BY TargetFacts DEF Init, PipelineInit, Target
    <2>2. wire[Target] = <<>> /\ InTransit(Target) = <<>> /\ send_queues[Target] = <<>>
      BY <2>1 DEF SenderInit, InTransit, Free
    <2>3. <<>> \in Seq(Packet) /\ <<>> \o <<>> = <<>>
      OBVIOUS
    <2> QED BY <2>2, <2>3 DEF Pipeline, ToSet
  <1> QED BY <1>1, <1>2 DEF ApartInv, LoadsRight, WorkersRight, WorkerRight

\* Each flow's packets leave with the flow's port, so before the pool wraps two flows are
\* told apart by their ports and one flow is never split over two, for any number of
\* workers that translate at the same time and of packets on their way.
THEOREM FlowsApart == Spec => []FlowsStayApart
  <1>1. PipeInv /\ ApartInv /\ OneToOneUntilWrap => FlowsStayApart
    BY DEF ApartInv, LoadsRight, RightPort, OneToOneUntilWrap, FlowsStayApart
  <1>2. VnfInv => PipeInv
    BY DEF VnfInv
  <1> QED BY <1>1, <1>2, ApartInit, ApartStep, VnfInvariant, TranslatesAsSpecified, PTL DEF Spec

=============================================================================
