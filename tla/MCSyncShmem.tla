----------------------------- MODULE MCSyncShmem -----------------------------
(* One machine, two universes, three timelines: 1 and 3 share a universe.    *)
(* Stargates 1, 2 (between the universes) and 3 (inside one) have delay 1    *)
(* and are asynchronous, stargate 4 has delay 2 and is synchronous.          *)
EXTENDS CompositeSync

MC_machine == [u \in Universes |-> "m1"]
MC_proc0 == [m \in Machines |-> "u1"]
MC_universe == [t \in Timelines |-> IF t = 2 THEN "u2" ELSE "u1"]
MC_source == <<1, 2, 1, 2>>
MC_target == <<2, 1, 3, 3>>
MC_min_delay == <<1, 1, 1, 2>>
MC_none == [m \in Machines |-> 0]
MC_no_thresholds == [m \in Machines |-> <<>>]
MC_empty == <<>>
MC_InitEvents == [t \in Timelines |-> IF t = 1 THEN {0} ELSE {}]
=============================================================================
