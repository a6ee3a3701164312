-------------------------- MODULE MCTrafficSender --------------------------
(* Three devices, batches of two of a buffer of three messages; every third  *)
(* message has a packet of its own.                                         *)
EXTENDS TrafficSender, TLC

CONSTANTS s1, s2, s3

MCDevice == {s1, s2, s3}
MCSize == [n \in 1..MaxMessages |-> IF n % 3 = 0 THEN 3 ELSE 1]
Symmetry == Permutations(MCDevice)

\* The bound of the model: no device may put another message, and what is left does
\* not fill a batch, or nobody is there to take it.
Quiet ==
    /\ history.put = MaxMessages
    /\ \A d \in Device : device[d] = "check"
    /\ \/ batcher.pc = "check" /\ Len(buffer) < data_batch_size /\ packets_1 = <<>>
       \/ batcher.pc = "dead"
    /\ UNCHANGED trafficVars

MCSpec == TrafficInit /\ [][TrafficNext \/ Quiet]_trafficVars
=============================================================================
