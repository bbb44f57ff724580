------------------------------ MODULE MCBinQueue ------------------------------
(* More windows than bins.  MCBinQueue.cfg bounds the times so that the far  *)
(* future is reached only by a queue settled at time 0; in                   *)
(* MCBinQueueTrained.cfg also by one that is settled after training.         *)
EXTENDS BinQueue
=============================================================================
