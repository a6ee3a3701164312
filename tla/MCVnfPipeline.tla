--------------------------- MODULE MCVnfPipeline ---------------------------
(* Two workers, a queue of one, batches of two.  A process that raises or     *)
(* reports takes four packets, in DPI with its two destinations three; one    *)
(* that does neither is put under overload, with six: two more than a full    *)
(* queue, a packet for each of two workers and a batch but one.               *)
EXTENDS VnfPipeline

CONSTANTS w1, w2, fromSFC1, fromSFC2, d1, d2

MCThread == {w1, w2}
MCTargets == <<d1, d2>>
MCVnfName == {"firewall", "dpi", "encryption", "compression"}
MCRaw == {fromSFC1, fromSFC2, Malformed}
MCPayload == MCRaw \ {Malformed}
MCMaxAccepted == [v \in MCVnfName |-> 6]
MCRoute == [p \in MCPayload |-> IF p = fromSFC1 THEN d1 ELSE d2]

FewPackets == IF vnf_name = "dpi" THEN 3 ELSE 4

Overload == vnf.received > FewPackets

\* The bound of the model on the three together.  No thread that is running ever
\* waits for it: what it disables is a packet to come, a timer, an exception.
RaisesOrOverload == Overload => vnf.raised = 0 /\ vnf.windows = 0

\* The bound is reached: the receiver waits for packets, everything accepted is
\* processed, or nobody is left to process it, and the timer rests.
Quiet ==
    /\ vnf.received \in {FewPackets, MaxAccepted[vnf_name]} \/ Len(packet_queue) = QUEUE_SIZE
    /\ packet_queue = <<>> \/ \A w \in Workers : worker[w].pc = "dead"
    /\ (vnf.windows = MaxWindows \/ Overload) /\ kpi.pc = "timer"
    /\ At({"get", "dead"}) = Thread
    /\ \A d \in Dest : send_queues[d] = <<>>
    /\ send_queue_lock = Nobody
    /\ UNCHANGED pipelineVars

MCNext == PipelineNext /\ RaisesOrOverload'

MCSpec == PipelineInit /\ [][MCNext \/ Quiet]_pipelineVars

MCFairSpec == MCSpec /\ PipelineFairness
=============================================================================
