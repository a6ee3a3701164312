------------------------------ MODULE MCNatVnf ------------------------------
(* Two workers, a queue of two, batches of two, three flows over a pool of   *)
(* two ports, and the two kinds of packets that are not translated.          *)
EXTENDS NatVnf, TLC

CONSTANTS w1, w2, target, e1, e2, e3, tcp

MCWorker == {w1, w2}
MCTargets == <<target>>
MCEndpoint == {e1, e2, e3}
MCProto == {tcp}
MCRaw == (MCEndpoint \X MCProto) \cup {Other, Malformed}
MCPayload == [key : MCRaw \ {Malformed}, port : Port \cup {None}]
MCVnfName == {"nat"}
MCRoute == [packet \in MCRaw \ {Malformed} |-> target]
MCMaxAccepted == [v \in MCVnfName |-> 4]

\* NAT has workers: which thread would be MainThread makes no difference.
Symmetry == Permutations(MCWorker) \cup Permutations(MCEndpoint)

\* The bound of the model: the receiver waits for packets, everything accepted is
\* processed, and the timer rests.
Quiet ==
    /\ vnf.received = MaxAccepted["nat"] /\ vnf.windows = MaxWindows /\ kpi.pc = "timer"
    /\ packet_queue = <<>> \/ At({"dead"}) = Thread
    /\ At({"get", "dead"}) = Thread
    /\ \A d \in Dest : send_queues[d] = <<>>
    /\ send_queue_lock = Nobody
    /\ UNCHANGED vars

MCSpec == Init /\ [][Next \/ Quiet]_vars
=============================================================================
