--------------------------- MODULE MCOrchestrator ---------------------------
(* A round of one sender and one of two.                                     *)
EXTENDS Orchestrator

CONSTANTS s1, s2

MCScript == {s1, s2}
MCRounds == <<{s1}, {s1, s2}>>

\* The last round is over and everything is posted; the poster sleeps on.
Quiet ==
    /\ Over /\ round = Len(Rounds) /\ shared_sum = 0
    /\ UNCHANGED orchVars

MCSpec == OrchInit /\ [][OrchNext \/ Quiet]_orchVars

MCFairSpec == MCSpec /\ OrchFairness
=============================================================================
