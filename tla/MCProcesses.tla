----------------------------- MODULE MCProcesses -----------------------------
(* Two processes to begin with and one that may be made later; two events   *)
(* arrive, one of them at a time that timeouts may share.                   *)
EXTENDS Processes, TLC

MCInitProcesses == <<1, 2>>
MCInitCount == [s \in {"sem"} |-> 0]
MCArrivals == {[ic |-> "x", time |-> 1, n |-> 1], [ic |-> "y", time |-> 2, n |-> 2]}
=============================================================================
