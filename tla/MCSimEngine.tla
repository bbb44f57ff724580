----------------------------- MODULE MCSimEngine -----------------------------
(* Two processes, whose entities schedule events before run() as well.     *)
EXTENDS SimEngine, TLC

MCProcs == {0, 1}
MCInitEvents == (0 :> {1}) @@ (1 :> {1})
MCInitMessages == (0 :> (0 :> <<>> @@ 1 :> <<2>>)) @@ (1 :> (0 :> <<>> @@ 1 :> <<>>))
MCMaxSend == (0 :> 2) @@ (1 :> 1)
=============================================================================
