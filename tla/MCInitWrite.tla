----------------------------- MODULE MCInitWrite ------------------------------
(* One machine, two universes, a timeline in each: Entity::init writes to the *)
(* asynchronous stargate 1; stargate 2 is synchronous.                        *)
EXTENDS CompositeSync

MC_machine == [u \in Universes |-> "m1"]
MC_proc0 == [m \in Machines |-> "u1"]
MC_universe == <<"u1", "u2">>
MC_source == <<1, 2>>
MC_target == <<2, 1>>
MC_min_delay == <<1, 2>>
MC_none == [m \in Machines |-> 0]
MC_no_thresholds == [m \in Machines |-> <<>>]
MC_empty == <<>>
MC_InitEvents == <<{}, {}>>
MC_InitWrites == {[sg |-> 1, n |-> 1, t |-> 1]}
=============================================================================
