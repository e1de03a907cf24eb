------------------------------ MODULE MCFleet ------------------------------
(* Instances of FleetRunner for TLC: all jobs of one runner ask for the    *)
(* same provider, and their priorities are in order.                       *)
EXTENDS FleetRunner

CONSTANTS j1, j2, j3, p1

MCProviderOf == [j \in Jobs |-> p1]
MCRank == [j \in Jobs |-> CASE j = j1 -> 1 [] j = j2 -> 2 [] OTHER -> 3]
=============================================================================
