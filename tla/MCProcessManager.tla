-------------------------- MODULE MCProcessManager --------------------------
(* A plain process and three of the operating system, one of which asks    *)
(* for a core; two cores.                                                  *)
EXTENDS ProcessManager, TLC

CONSTANTS pa, pb, pd, pe

MCProcess == {pa, pb, pd, pe}
MCOSProcess == {pb, pd, pe}
MCCores == {1, 2}
MCreq_res == (pb :> 1) @@ (pd :> None) @@ (pe :> None)
MCMaxLives == (pa :> 2) @@ (pb :> 1) @@ (pd :> 1) @@ (pe :> 1)
=============================================================================
