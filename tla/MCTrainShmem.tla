----------------------------- MODULE MCTrainShmem -----------------------------
(* One machine, two universes: local training tries the thresholds 1 and 2,    *)
(* each for a round, and keeps either.                                         *)
EXTENDS CompositeSync

MC_machine == [u \in Universes |-> "m1"]
MC_proc0 == [m \in Machines |-> "u1"]
MC_universe == <<"u1", "u2">>
MC_source == <<1, 2, 1>>
MC_target == <<2, 1, 2>>
MC_min_delay == <<1, 1, 2>>
MC_local_thresholds == [m \in Machines |-> <<1, 2>>]
MC_local_round == [m \in Machines |-> 2]
MC_empty == <<>>
MC_InitEvents == <<{0, 4}, {}>>
=============================================================================
