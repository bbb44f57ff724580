----------------------------- MODULE MCSyncRemote -----------------------------
(* Two machines, the first with two universes, a timeline in each.  Stargates *)
(* 1 and 2, of delays 1 and 2, run between the machines, 3 inside the first.  *)
(* Global training tries the thresholds 1 and 2 for a unit each and keeps     *)
(* either: stargate 1 is synchronous, asynchronous, and then any of the two.  *)
EXTENDS CompositeSync

MC_machine == [u \in Universes |-> IF u = "u3" THEN "m2" ELSE "m1"]
MC_proc0 == [m \in Machines |-> IF m = "m1" THEN "u1" ELSE "u3"]
MC_universe == <<"u1", "u2", "u3">>
MC_source == <<2, 3, 1>>
MC_target == <<3, 1, 2>>
MC_min_delay == <<1, 2, 2>>
MC_none == [m \in Machines |-> 0]
MC_no_thresholds == [m \in Machines |-> <<>>]
MC_global_thresholds == <<1, 2>>
MC_InitEvents == <<{}, {3}, {0}>>
=============================================================================
