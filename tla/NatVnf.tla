------------------------------- MODULE NatVnf -------------------------------
(***************************************************************************)
(* The NAT VNF, vnfs/NAT/nat-vnf.py: the pipeline of VnfPipeline with the    *)
(* translation between counting a packet and sending it.  The NAT table      *)
(* (NatTable) and the sender (BatchSender) are shared by the workers under   *)
(* locks of their own, so a call of allocate_nat_port is one step.           *)
(***************************************************************************)
EXTENDS NatTable, VnfPipeline

CONSTANT Other      \* a packet that is neither TCP nor UDP: it is not translated

\* A packet, as far as NAT tells packets apart: by the flow to be translated.
ASSUME NatVnfAssumption ==
    /\ VnfName = {"nat"}
    /\ Malformed \notin Key /\ Other \notin Key \cup {Malformed}
    /\ Raw = Key \cup {Other, Malformed}
    /\ Payload = [key : Key \cup {Other}, port : Port \cup {None}]

VARIABLE new_port   \* per worker: the port its packet got

vars == <<natVars, pipelineVars, new_port>>

Target == Targets[1]

-----------------------------------------------------------------------------
\* Mutant: the port is read before the call that allocates it.
TranslateEarly(w) ==
    LET packet == worker[w].packet
    IN  /\ worker[w].pc = "translate"
        /\ IF packet \in Key
           THEN allocate_nat_port(packet) /\ new_port' = [new_port EXCEPT ![w] = next_port]
           ELSE UNCHANGED <<natVars, new_port>>
        /\ Continue(w)
        /\ UNCHANGED <<senderVars, vnf_name, packet_queue, kpiVars, vnf>>

Translate(w) ==
    LET packet == worker[w].packet
    IN  /\ worker[w].pc = "translate"
        /\ IF packet \in Key
           THEN /\ allocate_nat_port(packet)
                /\ new_port' = [new_port EXCEPT ![w] = nat_table'[packet]]
           ELSE UNCHANGED <<natVars, new_port>>
        /\ Continue(w)
        /\ UNCHANGED <<senderVars, vnf_name, packet_queue, kpiVars, vnf>>

\* The worker is done with its packet: sent on with its port, or given up.
ForgetPort(w) == new_port' = [new_port EXCEPT ![w] = None] /\ UNCHANGED natVars

SendTranslated(w) ==
    /\ HandOver(w, [key |-> worker[w].packet, port |-> new_port[w]])
    /\ ForgetPort(w)

\* scapy cannot rebuild the packet: the exception ends the worker's thread.
CannotRebuild(w) == WorkerDies(w) /\ ForgetPort(w)

-----------------------------------------------------------------------------
Init ==
    /\ NatInit
    /\ PipelineInit
    /\ new_port = [w \in Thread |-> None]

\* A step of the pipeline that is not about the translation.
Plain(action) == action /\ UNCHANGED <<natVars, new_port>>

NatWork(w) ==
    \/ Plain(Get(w) \/ Discard(w) \/ CountBytes(w) \/ RecordDelay(w))
    \/ Translate(w)
    \/ SendTranslated(w)

Next ==
    \/ \E packet \in Raw : Plain(Receive(packet))
    \/ \E w \in Thread : NatWork(w) \/ CannotRebuild(w)
    \/ Plain(Sender(flush_all_batches))
    \/ Plain(Sender(FlushStep))
    \/ Plain(CloseWindow \/ Posted)

Spec == Init /\ [][Next]_vars

-----------------------------------------------------------------------------
(* Properties                                                              *)

TypeOK ==
    /\ NatTypeOK
    /\ PipelineTypeOK
    /\ new_port \in [Thread -> Port \cup {None}]

\* As long as the port pool has not wrapped, two packets that leave the VNF have
\* the same port exactly if they belong to the same flow, whichever workers
\* translated them; a packet that is not translated has none.
FlowsStayApart ==
    allocations <= PoolSize =>
        \A p, q \in ToSet(Pipeline(Target)) :
            /\ p.load.port = None <=> p.load.key \notin Key
            /\ p.load.port # None => (p.load.port = q.load.port <=> p.load.key = q.load.key)
=============================================================================
