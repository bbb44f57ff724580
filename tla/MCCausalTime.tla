----------------------------- MODULE MCCausalTime -----------------------------
(* Two timelines that send to each other, with different delays.             *)
EXTENDS CausalTime

MC_source == <<1, 2>>
MC_target == <<2, 1>>
MC_min_delay == <<1, 2>>
\* A local event of timeline 1 at time 0, and one message of each stargate,
\* that of stargate 2 perhaps for after the end.
MC_Event == {[sg |-> 0, n |-> 0, t |-> 0]} \cup [sg : {1}, n : {1}, t : {1, 2}]
              \cup [sg : {2}, n : {1}, t : {2, 4}]
=============================================================================
