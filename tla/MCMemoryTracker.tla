-------------------------- MODULE MCMemoryTracker --------------------------
(* Three threads that record packets of one flow until MaxStamp.             *)
EXTENDS MemoryTracker

CONSTANTS
    t1, t2, t3, f1,
    MaxLog          \* bound: entries of the log

MCThread == {t1, t2, t3}
MCFlow == {f1}

\* The bound of the model: a thread records no packet that would make the log
\* longer than MaxLog.
Room == Len(packet_log) + Cardinality({t \in Thread : caller[t].pc # "idle"}) < MaxLog

MCNext ==
    \/ \E t \in Thread, flow \in Flow : Room /\ Stamp(t, flow)
    \/ \E t \in Thread : UpdateTable(t) \/ AppendLog(t)
    \/ cleanup
    \/ Tick

MCSpec == Init /\ [][MCNext]_vars

MCFairSpec == MCSpec /\ Fairness
=============================================================================
