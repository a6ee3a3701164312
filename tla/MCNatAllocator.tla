--------------------------- MODULE MCNatAllocator ---------------------------
(* Three workers, four flows and a pool of two ports: the third flow makes  *)
(* the pool wrap.                                                          *)
EXTENDS NatAllocator

CONSTANTS w1, w2, w3, e1, e2, tcp, udp

MCWorker == {w1, w2, w3}
MCEndpoint == {e1, e2}
MCProto == {tcp, udp}
=============================================================================
