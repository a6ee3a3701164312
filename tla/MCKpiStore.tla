---------------------------- MODULE MCKpiStore ----------------------------
(* KpiStore on a small instance: one VNF, and the two orchestrators that   *)
(* share the transmission_rate, two request threads.  Two threads are what *)
(* it takes for a late request and its successor to be in progress         *)
(* together.                                                               *)
EXTENDS KpiStore, TLC

CONSTANTS v1, gen, o1, o2, h1, h2

MCVnf == {v1}
MCProbe == {gen}
MCClient == {v1, o1, o2}
MCReports == (v1 :> v1) @@ (o1 :> gen) @@ (o2 :> gen)
MCHandler == {h1, h2}

\* processing_delay_*, traffic_rate_*, then transmission_rate.
MCReadOrder == <<<<"processing_delay", v1>>, <<"traffic_rate", v1>>, <<"value", gen>>>>

\* Handler threads are interchangeable (used for the safety runs only).
HandlerSymmetry == Permutations(MCHandler)
=============================================================================
