---------------------------- MODULE CompositeSync ----------------------------
(***************************************************************************)
(* The composite synchronization of the minissf kernel.                    *)
(*                                                                         *)
(* Timelines (logical processes) are spread over universes (one worker     *)
(* thread each), universes over machines (one MPI process each).  A        *)
(* timeline may run up to its lbts, a lower bound on the time of whatever  *)
(* it may still receive.  The bound comes from two mechanisms at once:     *)
(*                                                                         *)
(*   - synchronous stargates (large delay) deliver only at the edges of    *)
(*     time windows, where all threads meet: "decades" for the stargates   *)
(*     inside a machine, "epochs" for those between machines;              *)
(*   - asynchronous stargates (small delay) carry a channel time that      *)
(*     their source advances with null messages (Chandy/Misra/Bryant).     *)
(*                                                                         *)
(* A thread's steps are separated wherever another thread can observe the  *)
(* difference: at every mailbox lock and every access to a channel time.   *)
(* Everything a thread does between two such points is one action.         *)
(* The reader and the writer thread of a machine (MPI_THREAD_MULTIPLE) are *)
(* the actions Writer and Reader.  Not here: emulation (pacing) and how    *)
(* BinQueue stores what it holds.                                          *)
(***************************************************************************)
EXTENDS Integers, Sequences, FiniteSets, Functions

CONSTANTS
  Machines, Universes,
  Timelines, Stargates,   \* finite sets of positive numbers, in the order in
                          \* which the sets and lists of the code hold them
  machine,          \* [Universes -> Machines]
  proc0,            \* [Machines -> Universes], processor 0 of each machine
  universe,         \* [Timelines -> Universes]
  source, target,   \* [Stargates -> Timelines]
  min_delay,        \* [Stargates -> Nat \ {0}]
  endtime, time_slice, Infinity,
  local_thresh, global_thresh,          \* used when there is no training
  local_thresholds,                     \* [Machines -> Seq(Nat)], to train with
  global_thresholds,                    \* Seq(Nat)
  local_round, local_length,            \* [Machines -> Nat], Nat
  global_round, global_length,          \* Nat
  InitEvents,       \* [Timelines -> set of times]: events scheduled by init
  InitWrites,       \* set of messages written to outchannels by Entity::init
  MaxSend,          \* bound: messages a stargate carries
  MaxWriteDelay     \* bound: write delay of a message, on top of min_delay

ASSUME TopologyAssumption ==
  /\ Timelines \subseteq Nat \ {0} /\ Stargates \subseteq Nat \ {0}
  /\ Machines # {}
  /\ machine \in [Universes -> Machines] /\ proc0 \in [Machines -> Universes]
  /\ IsFiniteSet(Universes) /\ \A m \in Machines : machine[proc0[m]] = m
  /\ universe \in [Timelines -> Universes]
  /\ source \in [Stargates -> Timelines] /\ target \in [Stargates -> Timelines]
  /\ min_delay \in [Stargates -> Nat \ {0}]
ASSUME ParameterAssumption ==
  /\ endtime \in Nat \ {0} /\ time_slice \in Nat \ {0}
  /\ Infinity \in Nat /\ endtime < Infinity
  /\ local_thresh \in Nat /\ global_thresh \in Nat
  /\ local_thresholds \in [Machines -> Seq(Nat)] /\ global_thresholds \in Seq(Nat)
  /\ local_round \in [Machines -> Nat] /\ local_length \in Nat
  /\ global_round \in Nat /\ global_length \in Nat
  /\ global_length > 0 => global_thresholds # <<>>
\* The length of the local training is that of its rounds, the maximum over the
\* machines, and rounded down when it is scaled (universe.cc:565-593).
ASSUME TrainingAssumption ==
  \A m \in Machines : local_length > 0 =>
     Len(local_thresholds[m]) * local_round[m] <= local_length
ASSUME InputAssumption ==
  /\ InitEvents \in [Timelines -> SUBSET Nat]
  /\ InitWrites \subseteq [sg : Stargates, n : Nat \ {0}, t : Nat]
  /\ IsFiniteSet(InitWrites)
  /\ MaxSend \in Nat /\ MaxWriteDelay \in Nat
\* Messages are numbered in the order in which they are written to a stargate.
ASSUME NumberAssumption ==
  \A e \in InitWrites : e.n <= Cardinality({f \in InitWrites : f.sg = e.sg})

VARIABLES
  simclock, lbts, state, key, evtlist,           \* timelines
  gate, rgate,       \* a stargate's in_sync and time; its remote receiving end
  inbound_async,     \* the stargates in their targets' lists of this name
  mailbox,           \* [Stargates -> set of messages]
  umailbox,          \* [Universes -> Seq(message or null message)]
  local_binque, global_binque, switch_board,     \* [Universes -> set of messages]
  remote_mailbox,    \* [Machines -> set of messages and null messages]
  net,               \* [Machines \X Machines -> Seq(batch)]
  synpoint, next_decade, next_epoch, decade_sync, epoch_sync,  \* universes
  decade_length, local_roundup, l_idx, local_reclassified,     \* machines
  epoch_length, global_roundup, g_idx, global_reclassified,    \* machines
  training_finished,                                           \* machines
  pc,                \* where each universe's thread is
  ctx,               \* its local variables
  scan,              \* and those of retrieve_incoming_and_calculate_lowerbound
  runnable,          \* [Universes -> SUBSET Timelines]
  sent               \* [Stargates -> 0 .. MaxSend]

tmlnVars   == <<simclock, lbts, state, key, evtlist>>
gateVars   == <<gate, rgate>>
mailVars   == <<mailbox, umailbox>>
binVars    == <<local_binque, global_binque, switch_board>>
netVars    == <<remote_mailbox, net>>
windowVars == <<synpoint, next_decade, next_epoch, decade_sync, epoch_sync,
                inbound_async>>
localVars  == <<decade_length, local_roundup, l_idx, local_reclassified>>
globalVars == <<epoch_length, global_roundup, g_idx, global_reclassified,
                training_finished>>
trainVars  == <<localVars, globalVars>>
threadVars == <<pc, ctx, scan, runnable>>
vars == <<tmlnVars, gateVars, mailVars, binVars, netVars, windowVars,
          trainVars, threadVars, sent>>

-----------------------------------------------------------------------------
(* Topology and small helpers.                                             *)

NoTimeline == 0
IsFirst(x, S) == x \in S /\ \A y \in S : x <= y
Least(S) == IF \E x \in S : IsFirst(x, S) THEN CHOOSE x \in S : IsFirst(x, S) ELSE Infinity
Lesser(a, b) == IF a < b THEN a ELSE b

UniversesOf(m) == {u \in Universes : machine[u] = m}
TimelinesOf(u) == {t \in Timelines : universe[t] = u}
SourceMachine(s) == machine[universe[source[s]]]
TargetMachine(s) == machine[universe[target[s]]]
Remote(s)        == SourceMachine(s) # TargetMachine(s)
SameUniverse(s)  == universe[source[s]] = universe[target[s]]
LocalGates(m)    == {s \in Stargates : ~Remote(s) /\ SourceMachine(s) = m}
RemoteGates      == {s \in Stargates : Remote(s)}

\* The receiving end of a stargate: an object of its own on a remote machine.
InGate(s) == IF Remote(s) THEN rgate[s] ELSE gate[s]
InboundAsync_Own(t) ==  \* mutant: only the stargates of the same universe
  {s \in Stargates : target[s] = t /\ s \in inbound_async /\ SameUniverse(s)}
InboundAsync(t)  == {s \in Stargates : target[s] = t /\ s \in inbound_async}
OutboundAsync(t) == {s \in Stargates : source[s] = t /\ ~gate[s].in_sync}

\* A message is the n-th of stargate s; n = 0 marks a null message.
Message(s, n, t) == [sg |-> s, n |-> n, t |-> t]
IsNull(e) == e.n = 0
Dest(e) == target[e.sg]

next_window(u) == Lesser(next_decade[u], next_epoch[u])
NextEventTime(t) == Least({e.t : e \in evtlist[t]})
Blocked_WithEvents(u) ==  \* mutant: forgets who has nothing to do
  {t \in TimelinesOf(u) : state[t] = "WAITING" /\ evtlist[t] # {}}
Blocked(u) == {t \in TimelinesOf(u) : state[t] = "WAITING"}

-----------------------------------------------------------------------------
(* Classification of stargates by a threshold, and the window lengths.     *)

Classify_Reset(g, S, thresh, now) ==  \* mutant: forgets the time of a synchronous one
  [s \in Stargates |->
     IF s \notin S THEN g[s]
     ELSE IF min_delay[s] < thresh
          THEN [in_sync |-> FALSE,
                time    |-> IF g[s].in_sync THEN now + min_delay[s] ELSE g[s].time]
          ELSE [in_sync |-> TRUE, time |-> 0]]
Classify(g, S, thresh, now) ==
  [s \in Stargates |->
     IF s \notin S THEN g[s]
     ELSE IF min_delay[s] < thresh
          THEN [in_sync |-> FALSE,
                time    |-> IF g[s].in_sync THEN now + min_delay[s] ELSE g[s].time]
          ELSE [g[s] EXCEPT !.in_sync = TRUE]]

WindowLength_Zero(S, thresh) ==  \* mutant: the minimum starts from 0
  LET D == {min_delay[s] : s \in {r \in S : min_delay[r] >= thresh}}
  IN  IF D = {} THEN 0 ELSE Least(D)
WindowLength_Above(S, thresh) ==  \* mutant: off by one
  Least({min_delay[s] : s \in {r \in S : min_delay[r] > thresh}})
WindowLength(S, thresh) == Least({min_delay[s] : s \in {r \in S : min_delay[r] >= thresh}})

NoLocalTraining  == local_length <= 0 \/ local_length >= endtime
NoGlobalTraining == global_length <= 0 \/ local_length + global_length >= endtime

\* The threshold, and whether it is a trial, that a run starts with.
StartLocal(m) ==
  IF NoLocalTraining \/ local_thresholds[m] = <<>>
  THEN [thresh |-> local_thresh, training |-> FALSE]
  ELSE [thresh |-> local_thresholds[m][1], training |-> TRUE]
StartGlobal ==
  IF ~NoLocalTraining THEN [thresh |-> local_length, training |-> TRUE]
  ELSE IF NoGlobalTraining THEN [thresh |-> global_thresh, training |-> FALSE]
  ELSE [thresh |-> global_thresholds[1], training |-> TRUE]

LocalLength(m, th) == IF th.training THEN th.thresh
                      ELSE WindowLength(LocalGates(m), th.thresh)
GlobalLength(th)   == IF th.training THEN th.thresh
                      ELSE WindowLength(RemoteGates, th.thresh)

\* The upper edge of a window: clipped by the end of the simulation and by
\* the end of the current training round.
Clip(t, roundup) == Lesser(Lesser(t, endtime), roundup)

-----------------------------------------------------------------------------
(* The state in which the main loop of run_continuation is entered.        *)

NoScan == [tl |-> NoTimeline, todo |-> {}, hold |-> 0, low |-> 0, ret |-> "sched"]
Idle   == [cur |-> NoTimeline, horizon |-> 0, out |-> {}, io |-> <<>>, open |-> {}]
Unclassified == [s \in Stargates |-> [in_sync |-> TRUE, time |-> 0]]

Init ==
  /\ simclock = [t \in Timelines |-> 0]
  /\ lbts = [t \in Timelines |-> 0]
  /\ state = [t \in Timelines |-> "START"]
  /\ key = [t \in Timelines |-> 0]
  /\ evtlist = [t \in Timelines |->
                  {Message(0, n, n) : n \in InitEvents[t]} \cup
                  {e \in InitWrites : Dest(e) = t /\ SameUniverse(e.sg)}]
  /\ gate = [s \in Stargates |->
               IF Remote(s)
               THEN Classify(Unclassified, RemoteGates, StartGlobal.thresh, 0)[s]
               ELSE LET m == SourceMachine(s)
                    IN  Classify(Unclassified, LocalGates(m), StartLocal(m).thresh, 0)[s]]
  /\ rgate = Classify(Unclassified, RemoteGates, StartGlobal.thresh, 0)
  /\ inbound_async = {s \in Stargates : ~InGate(s).in_sync}
  /\ mailbox = [s \in Stargates |-> {}]
  /\ umailbox = [u \in Universes |-> <<>>]
  /\ local_binque = [u \in Universes |->
       {e \in InitWrites : /\ universe[source[e.sg]] = u
                           /\ ~Remote(e.sg) /\ ~SameUniverse(e.sg)}]
  /\ global_binque = [u \in Universes |->
       {e \in InitWrites : universe[source[e.sg]] = u /\ Remote(e.sg)}]
  /\ switch_board = [u \in Universes |-> {}]
  /\ remote_mailbox = [m \in Machines |-> {}]
  /\ net = [mm \in Machines \X Machines |-> <<>>]
  /\ local_roundup = [m \in Machines |->
                        IF StartLocal(m).training THEN local_round[m] ELSE Infinity]
  /\ global_roundup = [m \in Machines |->
                         IF ~NoLocalTraining THEN local_length
                         ELSE IF NoGlobalTraining THEN Infinity ELSE global_round]
  /\ decade_length = [m \in Machines |-> LocalLength(m, StartLocal(m))]
  /\ epoch_length = [m \in Machines |-> GlobalLength(StartGlobal)]
  /\ l_idx = [m \in Machines |-> 1]
  /\ g_idx = [m \in Machines |-> 1]
  /\ local_reclassified = [m \in Machines |-> FALSE]
  /\ global_reclassified = [m \in Machines |-> FALSE]
  /\ training_finished = [m \in Machines |-> NoLocalTraining /\ NoGlobalTraining]
  /\ synpoint = [u \in Universes |-> 0]
  /\ next_decade = [u \in Universes |->
                      Clip(decade_length[machine[u]], local_roundup[machine[u]])]
  /\ next_epoch = [u \in Universes |->
                     Clip(epoch_length[machine[u]], global_roundup[machine[u]])]
  /\ decade_sync = [u \in Universes |-> FALSE]
  /\ epoch_sync = [u \in Universes |-> FALSE]
  /\ pc = [u \in Universes |-> "top"]
  /\ ctx = [u \in Universes |-> Idle]
  /\ scan = [u \in Universes |-> NoScan]
  /\ runnable = [u \in Universes |-> {}]
  /\ sent = [s \in Stargates |-> Cardinality({e \in InitWrites : e.sg = s})]

-----------------------------------------------------------------------------
(* Barriers, and the edge of a window (synchronize_events).                *)

Goto(u, label) == pc' = [pc EXCEPT ![u] = label]

\* ssf_barrier: the threads of a machine leave `here' together.  Processor 0
\* continues at `there0', the others at `there'.
Meet(m, here, there0, there) ==
  /\ \A u \in UniversesOf(m) : pc[u] = here
  /\ pc' = [u \in Universes |->
              IF machine[u] # m THEN pc[u]
              ELSE IF u = proc0[m] THEN there0 ELSE there]
  /\ UNCHANGED <<tmlnVars, gateVars, mailVars, binVars, netVars, windowVars,
                 trainVars, ctx, scan, runnable, sent>>

Barrier(m) ==
  \/ Meet(m, "top", "dispatch", "dispatch")
  \/ Meet(m, "dispatched", "collect", "collect")
  \/ Meet(m, "epoch sent", "reduce", "reduced")
  \/ Meet(m, "reduced", "drain", "drain")
  \/ Meet(m, "drained", "train", "trained")

Retrieved_Past(q, u, upper) ==  \* mutant: the window that ends, not the next
  {e \in q : e.t < synpoint[u]}
Retrieved_Settled(q, u, upper) ==  \* mutant: forgets the unsettled queue
  IF training_finished[machine[u]] THEN {e \in q : e.t < upper} ELSE {}
\* BinQueue::retrieve_events, up to upper once the queue is settled.
Retrieved(q, u, upper) ==
  IF training_finished[machine[u]] THEN {e \in q : e.t < upper} ELSE q

AfterLocalEdge(u) ==
  IF epoch_sync[u] /\ Cardinality(Machines) > 1 THEN "epoch"
  ELSE IF u = proc0[machine[u]] THEN "train" ELSE "trained"

Dispatch(u) ==
  /\ pc[u] = "dispatch"
  /\ IF (decade_sync[u] \/ epoch_sync[u]) /\ Cardinality(UniversesOf(machine[u])) > 1
     THEN LET out == Retrieved(local_binque[u], u, next_decade[u]) IN
          /\ local_binque' = [local_binque EXCEPT ![u] = @ \ out]
          /\ switch_board' = [v \in Universes |->
               switch_board[v] \cup {e \in out : universe[Dest(e)] = v}]
          /\ Goto(u, "dispatched")
     ELSE Goto(u, AfterLocalEdge(u)) /\ UNCHANGED <<local_binque, switch_board>>
  /\ UNCHANGED <<tmlnVars, gateVars, mailVars, global_binque, netVars, windowVars,
                 trainVars, ctx, scan, runnable, sent>>

Collect(u) ==
  /\ pc[u] = "collect"
  /\ evtlist' = [t \in Timelines |->
                   evtlist[t] \cup {e \in switch_board[u] : Dest(e) = t}]
  /\ switch_board' = [switch_board EXCEPT ![u] = {}]
  /\ Goto(u, AfterLocalEdge(u))
  /\ UNCHANGED <<simclock, lbts, state, key, gateVars, mailVars, local_binque,
                 global_binque, netVars, windowVars, trainVars, ctx, scan, runnable, sent>>

SendEpoch_Keep(u) ==  \* mutant: leaves in the queue what it sends
  /\ pc[u] = "epoch"
  /\ remote_mailbox' = [remote_mailbox EXCEPT
       ![machine[u]] = @ \cup Retrieved(global_binque[u], u, next_epoch[u])]
  /\ Goto(u, "epoch sent")
  /\ UNCHANGED <<tmlnVars, gateVars, mailVars, binVars, net, windowVars,
                 trainVars, ctx, scan, runnable, sent>>
SendEpoch(u) ==
  /\ pc[u] = "epoch"
  /\ LET out == Retrieved(global_binque[u], u, next_epoch[u]) IN
     /\ global_binque' = [global_binque EXCEPT ![u] = @ \ out]
     /\ remote_mailbox' = [remote_mailbox EXCEPT ![machine[u]] = @ \cup out]
  /\ Goto(u, "epoch sent")
  /\ UNCHANGED <<tmlnVars, gateVars, mailVars, local_binque, switch_board, net,
                 windowVars, trainVars, ctx, scan, runnable, sent>>

\* transport_reduce_message: the collective, which nobody leaves before
\* everybody has entered, ...
Reduce ==
  /\ \A m \in Machines : pc[proc0[m]] = "reduce"
  /\ pc' = [u \in Universes |-> IF u = proc0[machine[u]] THEN "await" ELSE pc[u]]
  /\ UNCHANGED <<tmlnVars, gateVars, mailVars, binVars, netVars, windowVars,
                 trainVars, ctx, scan, runnable, sent>>

\* ... and the wait until rcvcnt reaches what the other machines counted.
Counted(e) == IsNull(e) \/ e.t < endtime
Outstanding_Net(m) ==  \* mutant: counts what the writer has sent
  \E n \in Machines \ {m} : net[<<n, m>>] # <<>>
Outstanding(m) ==
  \E n \in Machines \ {m} :
     \/ net[<<n, m>>] # <<>>
     \/ \E e \in remote_mailbox[n] : Counted(e) /\ TargetMachine(e.sg) = m

Await(u) ==
  /\ pc[u] = "await"
  /\ ~Outstanding(machine[u])
  /\ Goto(u, "reduced")
  /\ UNCHANGED <<tmlnVars, gateVars, mailVars, binVars, netVars, windowVars,
                 trainVars, ctx, scan, runnable, sent>>

\* transport_barrier_message
MpiBarrier ==
  /\ \A m \in Machines : pc[proc0[m]] = "mpi barrier"
  /\ pc' = [u \in Universes |-> IF u = proc0[machine[u]] THEN "drained" ELSE pc[u]]
  /\ UNCHANGED <<tmlnVars, gateVars, mailVars, binVars, netVars, windowVars,
                 trainVars, ctx, scan, runnable, sent>>

-----------------------------------------------------------------------------
(* Training: processor 0 tries the thresholds of a list, one per round, and  *)
(* keeps the one whose round took least wall-clock time: any of them.        *)

TrainLocal(u) ==
  LET m == machine[u]
      Reclassify(thresh, training) ==
        /\ gate' = Classify(gate, LocalGates(m), thresh, synpoint[u])
        /\ decade_length' = [decade_length EXCEPT
             ![m] = LocalLength(m, [thresh |-> thresh, training |-> training])]
        /\ local_reclassified' = [local_reclassified EXCEPT ![m] = TRUE]
        /\ l_idx' = [l_idx EXCEPT ![m] = @ + 1]
  IN
  /\ pc[u] = "train"
  /\ IF decade_sync[u] /\ synpoint[u] = local_roundup[m]
     THEN \/ /\ l_idx[m] < Len(local_thresholds[m])
             /\ Reclassify(local_thresholds[m][l_idx[m] + 1], TRUE)
             /\ local_roundup' = [local_roundup EXCEPT ![m] = @ + local_round[m]]
          \/ /\ l_idx[m] >= Len(local_thresholds[m])
             /\ \E i \in DOMAIN local_thresholds[m] :
                  Reclassify(local_thresholds[m][i], FALSE)
             /\ local_roundup' = [local_roundup EXCEPT ![m] = Infinity]
     ELSE /\ local_reclassified' = [local_reclassified EXCEPT ![m] = FALSE]
          /\ UNCHANGED <<gate, decade_length, local_roundup, l_idx>>
  /\ global_reclassified' = [global_reclassified EXCEPT ![m] = FALSE]
  /\ Goto(u, IF epoch_sync[u] /\ synpoint[u] = global_roundup[m]
             THEN "train global" ELSE "trained")
  /\ UNCHANGED <<tmlnVars, rgate, mailVars, binVars, netVars, windowVars, epoch_length,
                 global_roundup, g_idx, training_finished, ctx, scan, runnable, sent>>

ClassifyGlobal(M, thresh, now) ==
  /\ gate' = Classify(gate, {s \in RemoteGates : SourceMachine(s) \in M}, thresh, now)
  /\ rgate' = Classify(rgate, {s \in RemoteGates : TargetMachine(s) \in M}, thresh, now)

StartingGlobal(m) == global_roundup[m] = local_length
LastGlobalRound(m) ==
  IF StartingGlobal(m) THEN NoGlobalTraining ELSE g_idx[m] >= Len(global_thresholds)

\* A trial threshold needs no agreement: each machine goes ahead by itself.
TrainGlobal(u) ==
  LET m == machine[u]
      i == IF StartingGlobal(m) THEN 1 ELSE g_idx[m] + 1
  IN
  /\ pc[u] = "train global"
  /\ ~LastGlobalRound(m)
  /\ ClassifyGlobal({m}, global_thresholds[i], synpoint[u])
  /\ epoch_length' = [epoch_length EXCEPT ![m] = global_thresholds[i]]
  /\ g_idx' = [g_idx EXCEPT ![m] = i]
  /\ global_roundup' = [global_roundup EXCEPT ![m] = @ + global_round]
  /\ global_reclassified' = [global_reclassified EXCEPT ![m] = TRUE]
  /\ Goto(u, "trained")
  /\ UNCHANGED <<tmlnVars, mailVars, binVars, netVars, windowVars, localVars,
                 training_finished, ctx, scan, runnable, sent>>

FinishGlobal_Own ==  \* mutant: each machine keeps its own epoch length
  /\ \A m \in Machines : pc[proc0[m]] = "train global" /\ LastGlobalRound(m)
  /\ \E thresh \in Range(global_thresholds) :
       /\ ClassifyGlobal(Machines, thresh, synpoint[proc0[CHOOSE m \in Machines : TRUE]])
       /\ epoch_length' = [m \in Machines |->
            WindowLength({s \in RemoteGates : SourceMachine(s) = m}, thresh)]
  /\ global_roundup' = [m \in Machines |-> Infinity]
  /\ training_finished' = [m \in Machines |-> TRUE]
  /\ global_reclassified' = [m \in Machines |-> TRUE]
  /\ pc' = [u \in Universes |-> IF pc[u] = "train global" THEN "trained" ELSE pc[u]]
  /\ UNCHANGED <<tmlnVars, mailVars, binVars, netVars, windowVars, localVars, g_idx,
                 ctx, scan, runnable, sent>>
\* The final threshold and the epoch length are agreed on by all machines
\* (MPI_Allreduce), so no machine leaves before all have classified.
FinishGlobal ==
  /\ \A m \in Machines : pc[proc0[m]] = "train global" /\ LastGlobalRound(m)
  /\ \E thresh \in IF \A m \in Machines : StartingGlobal(m) THEN {global_thresh}
                   ELSE Range(global_thresholds) :
       /\ ClassifyGlobal(Machines, thresh, synpoint[proc0[CHOOSE m \in Machines : TRUE]])
       /\ epoch_length' = [m \in Machines |->
                             GlobalLength([thresh |-> thresh, training |-> FALSE])]
  /\ global_roundup' = [m \in Machines |-> Infinity]
  /\ training_finished' = [m \in Machines |-> TRUE]
  /\ global_reclassified' = [m \in Machines |-> TRUE]
  /\ pc' = [u \in Universes |-> IF pc[u] = "train global" THEN "trained" ELSE pc[u]]
  /\ UNCHANGED <<tmlnVars, mailVars, binVars, netVars, windowVars, localVars, g_idx,
                 ctx, scan, runnable, sent>>

Reclassified(m) == local_reclassified[m] \/ global_reclassified[m]

Drained_Async(m) ==  \* mutant: empties the new ones
  {s \in Stargates : TargetMachine(s) = m /\ Reclassified(m) /\ ~InGate(s).in_sync}
\* classify_timeline_channels empties the mailboxes of the stargates that were
\* asynchronous, ...
Drained(m) ==
  {s \in Stargates : TargetMachine(s) = m /\ Reclassified(m) /\ s \in inbound_async}
\* ... and lists those that are so now.
Listed(m) ==
  {s \in Stargates : IF TargetMachine(s) = m /\ Reclassified(m)
                     THEN ~InGate(s).in_sync ELSE s \in inbound_async}

\* The two barriers that follow training, and what every thread does between
\* them: new window edges and the new lists of asynchronous stargates.
Trained(m) ==
  LET here(u) == machine[u] = m IN
  /\ \A u \in UniversesOf(m) : pc[u] = "trained"
  /\ next_decade' = [u \in Universes |->
       IF here(u) /\ Reclassified(m) /\ (local_reclassified[m] \/ training_finished[m])
       THEN Clip(synpoint[u] + decade_length[m], local_roundup[m]) ELSE next_decade[u]]
  /\ next_epoch' = [u \in Universes |->
       IF here(u) /\ Reclassified(m) /\ (global_reclassified[m] \/ training_finished[m])
       THEN Clip(synpoint[u] + epoch_length[m], global_roundup[m]) ELSE next_epoch[u]]
  /\ evtlist' = [t \in Timelines |->
       evtlist[t] \cup UNION {mailbox[s] : s \in {r \in Drained(m) : target[r] = t}}]
  /\ mailbox' = [s \in Stargates |-> IF s \in Drained(m) THEN {} ELSE mailbox[s]]
  /\ inbound_async' = Listed(m)
  /\ pc' = [u \in Universes |-> IF here(u) THEN "open" ELSE pc[u]]
  /\ ctx' = [u \in Universes |->
               IF here(u) THEN [ctx[u] EXCEPT !.open = TimelinesOf(u)] ELSE ctx[u]]
  /\ UNCHANGED <<simclock, lbts, state, key, gateVars, umailbox, binVars, netVars,
                 synpoint, decade_sync, epoch_sync, trainVars, scan, runnable, sent>>

-----------------------------------------------------------------------------
(* retrieve_incoming_and_calculate_lowerbound: for each asynchronous inbound *)
(* stargate read its time, then, in a second step, empty its mailbox.        *)

\* Start it for timeline t; `ret' says where the thread goes on afterwards.
BeginScan(u, t, ret) ==
  /\ scan' = [scan EXCEPT ![u] =
       [tl |-> t, todo |-> InboundAsync(t), hold |-> 0,
        low |-> next_window(u), ret |-> ret]]
  /\ Goto(u, "scan")

ReadTime_Only(u) ==  \* mutant: does not go on to empty the mailbox
  /\ pc[u] = "scan" /\ scan[u].hold = 0
  /\ \E s \in scan[u].todo :
       scan' = [scan EXCEPT ![u].low = Lesser(@, InGate(s).time), ![u].todo = @ \ {s}]
  /\ UNCHANGED <<tmlnVars, gateVars, mailVars, binVars, netVars, windowVars, trainVars,
                 pc, ctx, runnable, sent>>
ReadTime(u) ==
  /\ pc[u] = "scan" /\ scan[u].hold = 0
  /\ \E s \in scan[u].todo :
       /\ IsFirst(s, scan[u].todo)
       /\ scan' = [scan EXCEPT ![u].low = Lesser(@, InGate(s).time),
                               ![u].todo = @ \ {s},
                               ![u].hold = IF SameUniverse(s) THEN 0 ELSE s]
  /\ UNCHANGED <<tmlnVars, gateVars, mailVars, binVars, netVars, windowVars, trainVars,
                 pc, ctx, runnable, sent>>

ReceiveMessages(u) ==
  LET s == scan[u].hold IN
  /\ pc[u] = "scan" /\ s # 0
  /\ evtlist' = [evtlist EXCEPT ![target[s]] = @ \cup mailbox[s]]
  /\ mailbox' = [mailbox EXCEPT ![s] = {}]
  /\ scan' = [scan EXCEPT ![u].hold = 0]
  /\ UNCHANGED <<simclock, lbts, state, key, gateVars, umailbox, binVars, netVars,
                 windowVars, trainVars, pc, ctx, runnable, sent>>

\* make_timeline_runnable, for a timeline whose lower bound has become lb.
MakeRunnable(u, t, lb) ==
  IF simclock[t] < lb
  THEN /\ state' = [state EXCEPT ![t] = "RUNNING"]
       /\ key' = [key EXCEPT ![t] = NextEventTime(t)]
       /\ runnable' = [runnable EXCEPT ![u] = @ \cup {t}]
  ELSE state' = [state EXCEPT ![t] = "WAITING"] /\ UNCHANGED <<key, runnable>>

\* The bound is known: the timeline to run starts (Timeline::run) or leaves
\* the processor, a woken one becomes runnable.
EndScan(u) ==
  LET t  == scan[u].tl
      lb == scan[u].low
      starts == scan[u].ret = "sched" /\ simclock[t] < lb
  IN
  /\ pc[u] = "scan" /\ scan[u].hold = 0 /\ scan[u].todo = {}
  /\ lbts' = [lbts EXCEPT ![t] = lb]
  /\ scan' = [scan EXCEPT ![u] = NoScan]
  /\ IF scan[u].ret = "sched"
     THEN /\ ctx' = [ctx EXCEPT ![u] = [@ EXCEPT
               !.cur = IF starts THEN t ELSE NoTimeline,
               !.horizon = IF starts THEN Lesser(lb, simclock[t] + time_slice) ELSE 0]]
          /\ state' = [state EXCEPT ![t] = IF simclock[t] # lb THEN @
                                           ELSE IF simclock[t] < next_window(u) THEN "WAITING"
                                           ELSE IF next_window(u) >= endtime THEN "DONE"
                                           ELSE "ROUND"]
          /\ UNCHANGED <<key, runnable>>
     ELSE /\ IF scan[u].ret = "open" \/ lbts[t] < lb
             THEN MakeRunnable(u, t, lb)
             ELSE UNCHANGED <<state, key, runnable>>
          /\ UNCHANGED ctx
  /\ Goto(u, IF starts THEN "run" ELSE scan[u].ret)
  /\ UNCHANGED <<simclock, evtlist, gateVars, mailVars, binVars, netVars, windowVars,
                 trainVars, sent>>

-----------------------------------------------------------------------------
(* The scheduling loop of a window.                                        *)

\* Each timeline gets its first lower bound of the window.
OpenTimeline(u) ==
  /\ pc[u] = "open"
  /\ \E t \in ctx[u].open :
       /\ IsFirst(t, ctx[u].open)
       /\ ctx' = [ctx EXCEPT ![u].open = @ \ {t}]
       /\ BeginScan(u, t, "open")
  /\ UNCHANGED <<tmlnVars, gateVars, mailVars, binVars, netVars, windowVars, trainVars,
                 runnable, sent>>

Opened(u) ==
  /\ pc[u] = "open" /\ ctx[u].open = {}
  /\ Goto(u, "sched")
  /\ UNCHANGED <<tmlnVars, gateVars, mailVars, binVars, netVars, windowVars, trainVars,
                 ctx, scan, runnable, sent>>

\* deleteMin: a runnable timeline whose next event was earliest when queued.
Pick(u) ==
  /\ pc[u] = "sched"
  /\ \E t \in runnable[u] :
       /\ \A r \in runnable[u] : key[t] <= key[r]
       /\ runnable' = [runnable EXCEPT ![u] = @ \ {t}]
       /\ BeginScan(u, t, "sched")
  /\ UNCHANGED <<tmlnVars, gateVars, mailVars, binVars, netVars, windowVars, trainVars,
                 ctx, sent>>

\* The messages M that u's thread writes at once, each by its own route
\* (outChannel::write_event, Stargate::send_message).
Deliver(u, t, e, M) ==
  LET direct  == {x \in M : SameUniverse(x.sg)}
      synced  == {x \in M \ direct : gate[x.sg].in_sync}
      async   == (M \ direct) \ synced
      outside == {x \in M : Remote(x.sg)}
  IN
  /\ evtlist' = [r \in Timelines |->
       (IF r = t THEN evtlist[r] \ {e} ELSE evtlist[r]) \cup {x \in direct : Dest(x) = r}]
  /\ local_binque' = [local_binque EXCEPT ![u] = @ \cup (synced \ outside)]
  /\ global_binque' = [global_binque EXCEPT ![u] = @ \cup (synced \cap outside)]
  /\ mailbox' = [s \in Stargates |-> mailbox[s] \cup {x \in async \ outside : x.sg = s}]
  /\ remote_mailbox' = [remote_mailbox EXCEPT ![machine[u]] = @ \cup (async \cap outside)]

\* Timeline::run, one event: the earliest one within the horizon (inclusive).
\* The processes it activates may write to any of the timeline's stargates.
RunEvent(u) ==
  LET t == ctx[u].cur IN
  /\ pc[u] = "run"
  /\ \E e \in evtlist[t] :
       /\ e.t <= ctx[u].horizon
       /\ \A f \in evtlist[t] : e.t <= f.t
       /\ simclock' = [simclock EXCEPT ![t] = e.t]
       /\ \E S \in SUBSET {s \in Stargates : source[s] = t /\ sent[s] < MaxSend} :
          \E d \in [S -> 0 .. MaxWriteDelay] :
            /\ Deliver(u, t, e,
                       {Message(s, sent[s] + 1, e.t + min_delay[s] + d[s]) : s \in S})
            /\ sent' = [s \in Stargates |-> IF s \in S THEN sent[s] + 1 ELSE sent[s]]
  /\ UNCHANGED <<lbts, state, key, gateVars, umailbox, switch_board, net, windowVars,
                 trainVars, threadVars>>

\* The horizon is reached: a timeline cut short by the time slice is queued
\* again; then the subsequent timelines are updated.
RunEnd(u) ==
  LET t == ctx[u].cur IN
  /\ pc[u] = "run"
  /\ \A e \in evtlist[t] : e.t > ctx[u].horizon
  /\ IF ctx[u].horizon < lbts[t]
     THEN MakeRunnable(u, t, lbts[t])
     ELSE UNCHANGED <<state, key, runnable>>
  /\ simclock' = [simclock EXCEPT ![t] = ctx[u].horizon]
  /\ ctx' = [ctx EXCEPT ![u] = [@ EXCEPT !.out = OutboundAsync(t), !.horizon = 0]]
  /\ Goto(u, "update")
  /\ UNCHANGED <<lbts, evtlist, gateVars, mailVars, binVars, netVars, windowVars,
                 trainVars, scan, sent>>

\* Stargate::set_time, called by the sender, for its stargate s.
SetTime(u, s) ==
  LET d == target[s]
      now == simclock[ctx[u].cur] + min_delay[s]
      shared == ~Remote(s) /\ ~SameUniverse(s)
      wakes == SameUniverse(s) /\ state[d] = "WAITING" /\ gate[s].time = lbts[d]
      past == gate[s].time >= endtime
  IN
  /\ gate' = IF past THEN gate ELSE [gate EXCEPT ![s].time = now]
  /\ remote_mailbox' = IF past \/ ~Remote(s) THEN remote_mailbox
                       ELSE [remote_mailbox EXCEPT
                               ![machine[u]] = @ \cup {Message(s, 0, now)}]
  /\ IF ~past /\ shared
     THEN Goto(u, "notify") /\ UNCHANGED <<ctx, scan>>
     ELSE /\ ctx' = [ctx EXCEPT ![u].out = @ \ {s}]
          /\ IF ~past /\ wakes THEN BeginScan(u, d, "update") ELSE UNCHANGED <<pc, scan>>
  /\ UNCHANGED <<tmlnVars, rgate, mailVars, binVars, net, windowVars, trainVars,
                 runnable, sent>>

\* update_subsequent_timelines
UpdateTime(u) ==
  /\ pc[u] = "update"
  /\ \E s \in ctx[u].out : IsFirst(s, ctx[u].out) /\ SetTime(u, s)

\* A null message to the universe of a timeline of the same machine.
Notify(u) ==
  /\ pc[u] = "notify"
  /\ \E s \in ctx[u].out :
       /\ IsFirst(s, ctx[u].out)
       /\ umailbox' = [umailbox EXCEPT ![universe[target[s]]] =
                         Append(@, Message(s, 0, gate[s].time))]
       /\ ctx' = [ctx EXCEPT ![u].out = @ \ {s}]
  /\ Goto(u, "update")
  /\ UNCHANGED <<tmlnVars, gateVars, mailbox, binVars, netVars, windowVars, trainVars,
                 scan, runnable, sent>>

\* handle_io_events empties the universe's mailbox, ...
TakeMail(u, label) ==
  /\ ctx' = [ctx EXCEPT ![u].io = umailbox[u]]
  /\ umailbox' = [umailbox EXCEPT ![u] = <<>>]
  /\ Goto(u, label)
  /\ UNCHANGED <<tmlnVars, gateVars, mailbox, binVars, netVars, windowVars, trainVars,
                 scan, runnable, sent>>

PollMail(u) ==
  /\ pc[u] = "update" /\ ctx[u].out = {}
  /\ simclock[ctx[u].cur] >= lbts[ctx[u].cur]
  /\ TakeMail(u, "io")
WaitMail(u) ==
  /\ pc[u] = "sched" /\ runnable[u] = {} /\ Blocked(u) # {}
  /\ umailbox[u] # <<>>
  /\ TakeMail(u, "io")
DrainMail(u) == pc[u] = "drain" /\ TakeMail(u, "drain io")

\* ... and handles what was in it: Stargate::set_time, called by the receiver.
HandleNull(u, e) ==
  LET s == e.sg
      d == target[s]
      time == IF Remote(s) THEN e.t ELSE gate[s].time
      stale == InGate(s).in_sync \/ (Remote(s) /\ rgate[s].time >= e.t)
  IN
  /\ rgate' = IF stale \/ ~Remote(s) THEN rgate ELSE [rgate EXCEPT ![s].time = e.t]
  /\ IF ~stale /\ state[d] = "WAITING" /\ time > lbts[d]
     THEN BeginScan(u, d, pc[u])
     ELSE UNCHANGED <<pc, scan>>
  /\ UNCHANGED evtlist

HandleMail(u) ==
  LET e == Head(ctx[u].io) IN
  /\ pc[u] \in {"io", "drain io"} /\ ctx[u].io # <<>>
  /\ ctx' = [ctx EXCEPT ![u].io = Tail(@)]
  /\ IF IsNull(e) THEN HandleNull(u, e)
     ELSE /\ evtlist' = [evtlist EXCEPT ![Dest(e)] = @ \cup {e}]
          /\ UNCHANGED <<rgate, pc, scan>>
  /\ UNCHANGED <<simclock, lbts, state, key, gate, mailVars, binVars, netVars, windowVars,
                 trainVars, runnable, sent>>

\* All mail handled: the running timeline calculates its bound again.
AfterMail(u) ==
  IF pc[u] = "drain io"
  THEN /\ Goto(u, IF u = proc0[machine[u]] THEN "mpi barrier" ELSE "drained")
       /\ UNCHANGED scan
  ELSE IF ctx[u].cur # NoTimeline
  THEN BeginScan(u, ctx[u].cur, "sched")
  ELSE Goto(u, "sched") /\ UNCHANGED scan

EndMail_Any(u) ==  \* mutant: does not ask whether a timeline is running
  /\ pc[u] \in {"io", "drain io"} /\ ctx[u].io = <<>>
  /\ BeginScan(u, ctx[u].cur, "sched")
  /\ UNCHANGED <<tmlnVars, gateVars, mailVars, binVars, netVars, windowVars, trainVars,
                 ctx, runnable, sent>>
EndMail_Clear(u) ==  \* mutant: throws away what has arrived meanwhile
  /\ pc[u] \in {"io", "drain io"} /\ ctx[u].io = <<>>
  /\ AfterMail(u)
  /\ umailbox' = [umailbox EXCEPT ![u] = <<>>]
  /\ UNCHANGED <<tmlnVars, gateVars, mailbox, binVars, netVars, windowVars, trainVars,
                 ctx, runnable, sent>>
EndMail(u) ==
  /\ pc[u] \in {"io", "drain io"} /\ ctx[u].io = <<>>
  /\ AfterMail(u)
  /\ UNCHANGED <<tmlnVars, gateVars, mailVars, binVars, netVars, windowVars, trainVars,
                 ctx, runnable, sent>>

\* The timeline was cut short by the time slice: the loop breaks out.
Interrupted(u) ==
  /\ pc[u] = "update" /\ ctx[u].out = {}
  /\ simclock[ctx[u].cur] < lbts[ctx[u].cur]
  /\ ctx' = [ctx EXCEPT ![u].cur = NoTimeline]
  /\ Goto(u, "sched")
  /\ UNCHANGED <<tmlnVars, gateVars, mailVars, binVars, netVars, windowVars, trainVars,
                 scan, runnable, sent>>

\* No timeline runnable, blocked or paced: the window is over.
AdvanceWindow(u) ==
  LET m == machine[u]
      w == next_window(u)
  IN
  /\ pc[u] = "sched" /\ runnable[u] = {} /\ Blocked(u) = {}
  /\ synpoint' = [synpoint EXCEPT ![u] = w]
  /\ decade_sync' = [decade_sync EXCEPT ![u] = w = next_decade[u]]
  /\ next_decade' = [next_decade EXCEPT
       ![u] = IF w = @ THEN Clip(@ + decade_length[m], local_roundup[m]) ELSE @]
  /\ epoch_sync' = [epoch_sync EXCEPT ![u] = w = next_epoch[u]]
  /\ next_epoch' = [next_epoch EXCEPT
       ![u] = IF w = @ THEN Clip(@ + epoch_length[m], global_roundup[m]) ELSE @]
  /\ Goto(u, IF w < endtime THEN "top" ELSE "end")
  /\ UNCHANGED <<tmlnVars, gateVars, mailVars, binVars, netVars, inbound_async, trainVars,
                 ctx, scan, runnable, sent>>

-----------------------------------------------------------------------------
(* The writer and the reader thread of a machine.  MPI keeps the order of  *)
(* the batches between two machines.                                       *)

\* handle_outgoing_events: each machine gets a batch of its regular messages,
\* except those for after the end of the simulation, and of its null messages.
Writer(m) ==
  LET to(n) == {e \in remote_mailbox[m] : Counted(e) /\ TargetMachine(e.sg) = n}
      batch(n) == [regular |-> {e \in to(n) : ~IsNull(e)},
                   null    |-> {e \in to(n) : IsNull(e)}]
  IN
  /\ remote_mailbox[m] # {}
  /\ remote_mailbox' = [remote_mailbox EXCEPT ![m] = {}]
  /\ net' = [mn \in Machines \X Machines |->
               IF mn[1] = m /\ to(mn[2]) # {}
               THEN Append(net[mn], batch(mn[2])) ELSE net[mn]]
  /\ UNCHANGED <<tmlnVars, gateVars, mailVars, binVars, windowVars, trainVars,
                 threadVars, sent>>

Receivable_NullFirst(batch) ==  \* mutant: swapped order
  IF batch.null # {} THEN batch.null ELSE batch.regular
\* The next message of a batch: the null messages come last.
Receivable(batch) == IF batch.regular # {} THEN batch.regular ELSE batch.null
Without(batch, e) == [regular |-> batch.regular \ {e}, null |-> batch.null \ {e}]

\* handle_incoming_events, one message.
Reader(n, m) ==
  /\ net[<<n, m>>] # <<>>
  /\ \E e \in Receivable(Head(net[<<n, m>>])) :
       LET s == e.sg
           rest == Without(Head(net[<<n, m>>]), e)
       IN
       /\ net' = [net EXCEPT ![<<n, m>>] =
                    IF Receivable(rest) = {} THEN Tail(@) ELSE <<rest>> \o Tail(@)]
       /\ IF IsNull(e) \/ rgate[s].in_sync
          THEN /\ umailbox' = [umailbox EXCEPT ![universe[target[s]]] = Append(@, e)]
               /\ UNCHANGED mailbox
          ELSE /\ mailbox' = [mailbox EXCEPT ![s] = @ \cup {e}]
               /\ UNCHANGED umailbox
  /\ UNCHANGED <<tmlnVars, gateVars, binVars, remote_mailbox, windowVars, trainVars,
                 threadVars, sent>>

-----------------------------------------------------------------------------
Thread(u) ==
  \/ Dispatch(u) \/ Collect(u) \/ SendEpoch(u) \/ Await(u)
  \/ TrainLocal(u) \/ TrainGlobal(u)
  \/ OpenTimeline(u) \/ Opened(u) \/ Pick(u)
  \/ ReadTime(u) \/ ReceiveMessages(u) \/ EndScan(u)
  \/ RunEvent(u) \/ RunEnd(u) \/ UpdateTime(u) \/ Notify(u) \/ Interrupted(u)
  \/ PollMail(u) \/ WaitMail(u) \/ DrainMail(u) \/ HandleMail(u) \/ EndMail(u)
  \/ AdvanceWindow(u)

Collective == Reduce \/ MpiBarrier \/ FinishGlobal

Finished == (\A u \in Universes : pc[u] = "end") /\ UNCHANGED vars

Next ==
  \/ \E u \in Universes : Thread(u)
  \/ \E m \in Machines : Barrier(m) \/ Trained(m) \/ Writer(m)
  \/ \E n, m \in Machines : Reader(n, m)
  \/ Collective
  \/ Finished

\* Every thread is eventually scheduled by the operating system, and MPI
\* eventually delivers.
Fairness ==
  /\ \A u \in Universes : WF_vars(Thread(u))
  /\ \A m \in Machines : WF_vars(Barrier(m) \/ Trained(m)) /\ WF_vars(Writer(m))
  /\ \A n, m \in Machines : WF_vars(Reader(n, m))
  /\ WF_vars(Collective)

Spec == Init /\ [][Next]_vars /\ Fairness

-----------------------------------------------------------------------------
(* Properties.                                                             *)

\* Messages on their way: written, and not yet in an event list.
BetweenMachines ==
  {e \in (UNION {remote_mailbox[m] : m \in Machines})
        \cup UNION {UNION {b.regular : b \in Range(net[mn])} : mn \in Machines \X Machines} :
     ~IsNull(e)}
InFlight ==
  BetweenMachines \cup (UNION {mailbox[s] : s \in Stargates})
  \cup (UNION {local_binque[u] \cup global_binque[u] \cup switch_board[u] : u \in Universes})
  \cup UNION {{e \in Range(umailbox[u]) \cup Range(ctx[u].io) : ~IsNull(e)} : u \in Universes}

(* Every variable has its type, and a thread in the middle of a timeline has *)
(* a timeline.                                                             *)
GateType == [in_sync : BOOLEAN, time : Nat]
MessageType == [sg : Stargates, n : Nat, t : Nat]
EventType == [sg : Stargates \cup {0}, n : Nat, t : Nat]
BatchType == [regular : SUBSET MessageType, null : SUBSET MessageType]
TimelineTypeOK ==
  /\ simclock \in [Timelines -> Nat]
  /\ lbts \in [Timelines -> Nat]
  /\ state \in [Timelines -> {"START", "RUNNING", "WAITING", "ROUND", "DONE"}]
  /\ key \in [Timelines -> Nat]
  /\ evtlist \in [Timelines -> SUBSET EventType]
  /\ gate \in [Stargates -> GateType]
  /\ rgate \in [Stargates -> GateType]
MessageTypeOK ==
  /\ mailbox \in [Stargates -> SUBSET MessageType]
  /\ umailbox \in [Universes -> Seq(MessageType)]
  /\ local_binque \in [Universes -> SUBSET MessageType]
  /\ global_binque \in [Universes -> SUBSET MessageType]
  /\ switch_board \in [Universes -> SUBSET MessageType]
  /\ remote_mailbox \in [Machines -> SUBSET MessageType]
  /\ net \in [Machines \X Machines -> Seq(BatchType)]
  /\ sent \in [Stargates -> Nat]
WindowTypeOK ==
  /\ synpoint \in [Universes -> Nat]
  /\ next_decade \in [Universes -> Nat]
  /\ next_epoch \in [Universes -> Nat]
  /\ decade_sync \in [Universes -> BOOLEAN]
  /\ epoch_sync \in [Universes -> BOOLEAN]
  /\ inbound_async \in SUBSET Stargates
  /\ decade_length \in [Machines -> Nat]
  /\ local_roundup \in [Machines -> Nat]
  /\ l_idx \in [Machines -> Nat]
  /\ local_reclassified \in [Machines -> BOOLEAN]
  /\ epoch_length \in [Machines -> Nat]
  /\ global_roundup \in [Machines -> Nat]
  /\ g_idx \in [Machines -> Nat]
  /\ global_reclassified \in [Machines -> BOOLEAN]
  /\ training_finished \in [Machines -> BOOLEAN]
Labels == {"top", "dispatch", "dispatched", "collect", "epoch", "epoch sent", "reduce",
           "await", "reduced", "drain", "drain io", "mpi barrier", "drained", "train",
           "train global", "trained", "open", "scan", "sched", "run", "update",
           "notify", "io", "end"}
ContextType == [cur : Timelines \cup {NoTimeline}, horizon : Nat, out : SUBSET Stargates,
                io : Seq(MessageType), open : SUBSET Timelines]
ScanType == [tl : Timelines \cup {NoTimeline}, todo : SUBSET Stargates,
             hold : Stargates \cup {0}, low : Nat,
             ret : {"open", "sched", "update", "io", "drain io"}]
ThreadTypeOK ==
  /\ pc \in [Universes -> Labels]
  /\ ctx \in [Universes -> ContextType]
  /\ scan \in [Universes -> ScanType]
  /\ runnable \in [Universes -> SUBSET Timelines]
Running ==  \* a thread that runs a timeline, or computes its bound, has one
  \A u \in Universes :
    /\ pc[u] \in {"run", "update", "notify"} => ctx[u].cur \in Timelines
    /\ pc[u] = "scan" => /\ scan[u].tl \in Timelines
                         /\ scan[u].ret = "update" => ctx[u].cur \in Timelines
TypeOK == TimelineTypeOK /\ MessageTypeOK /\ WindowTypeOK /\ ThreadTypeOK /\ Running

(* The lower bound of a timeline holds: no message on its way to it, by     *)
(* whichever mechanism and in whatever order the threads move it, is for a  *)
(* time before the bound up to which the timeline may run.                  *)
LbtsSafe == \A e \in InFlight : lbts[Dest(e)] <= e.t

(* A message written to a channel is not overtaken: its receiver has not    *)
(* passed its arrival time while it is on its way, which would make         *)
(* Timeline::insert_event abort the simulation.                             *)
ArrivesOnTime == \A e \in InFlight : simclock[Dest(e)] <= e.t

(* Between two machines a channel time never overtakes a message that is    *)
(* still to be processed: what the sender wrote before a null message is    *)
(* delivered before the receiver believes that null message.  (A message    *)
(* for after the end of the simulation is not counted, and nobody waits for *)
(* it: the first channel time of a stargate that becomes asynchronous may   *)
(* pass it.)                                                                *)
ChannelTimeSafe ==
  \A e \in BetweenMachines :
     Counted(e) /\ ~rgate[e.sg].in_sync => rgate[e.sg].time <= e.t

(* A universe sleeps in the wait for its mailbox only if a notification is  *)
(* still to come for each of its timelines that could go on: a null message *)
(* sent while the timeline was being blocked is not lost.                   *)
Asleep(u) == pc[u] = "sched" /\ runnable[u] = {} /\ umailbox[u] = <<>>
Bound(t) == Lesser(next_window(universe[t]), Least({InGate(s).time : s \in InboundAsync(t)}))
NotificationDue(s) ==
  LET u == universe[source[s]] IN pc[u] = "notify" /\ IsFirst(s, ctx[u].out)
NoLostWakeup ==
  \A u \in Universes : Asleep(u) =>
     \A t \in Blocked(u) :
        lbts[t] < Bound(t) => \E s \in InboundAsync(t) : NotificationDue(s)

(* Synchronous messages are delivered in time: when a thread opens a window *)
(* no message of a synchronous stargate due inside it is still queued.      *)
DeliveredAtEdge ==
  \A u, v \in Universes :
    \A e \in local_binque[v] \cup switch_board[v] \cup global_binque[v] :
       /\ universe[Dest(e)] = u
       /\ pc[u] \in {"open", "sched", "run", "update", "notify", "io"}
       => next_window(u) <= e.t

(* A universe leaves a window only with all its timelines at the edge: none *)
(* is lost between the ready queue, the blocked set and the end of a round. *)
WindowComplete ==
  \A t \in Timelines : LET u == universe[t] IN
    pc[u] \in {"top", "end"} => simclock[t] = synpoint[u]

(* All threads are in the same window when they exchange messages: those of *)
(* a machine have the same edges, and so have the processors 0 of the       *)
(* machines, from one collective of an epoch to the next.  (Not the other   *)
(* threads: one that is slow to drain its mail is overtaken by another      *)
(* machine, which may have reached its next epoch.)                         *)
SameWindow ==
  /\ \A u, v \in Universes :
       machine[u] = machine[v] /\ {pc[u], pc[v]} \subseteq {"dispatch", "dispatched", "collect"}
       => synpoint[u] = synpoint[v] /\ next_decade[u] = next_decade[v]
  /\ \A m, n \in Machines :
       {pc[proc0[m]], pc[proc0[n]]}
         \subseteq {"await", "reduced", "drain", "drain io", "mpi barrier"}
       => /\ synpoint[proc0[m]] = synpoint[proc0[n]]
          /\ next_epoch[proc0[m]] = next_epoch[proc0[n]]

(* When every thread has left the main loop, every event for a time before  *)
(* the end of the simulation has been processed.                            *)
AllProcessed ==
  (\A u \in Universes : pc[u] = "end") =>
     \A e \in InFlight \cup UNION {evtlist[t] : t \in Timelines} : endtime <= e.t

(* A channel time never goes back, whatever reclassifies its stargate.      *)
ChannelTimeMonotone ==
  [][\A s \in Stargates : /\ gate[s].time <= gate'[s].time
                          /\ rgate[s].time <= rgate'[s].time]_gateVars

(* The simulation ends: the threads neither deadlock at a barrier or in the *)
(* wait for mail, nor wait on one another in a cycle of stargates.          *)
Termination == <>(\A u \in Universes : pc[u] = "end")

(* The threads implement CausalTime: nobody sees an event before another    *)
(* one that could have caused it, wherever the messages travel.             *)
Abs == INSTANCE CausalTime WITH
         Event <- [sg : Nat, n : Nat, t : Nat],
         clock <- simclock,
         pending <- [t \in Timelines |->
           {e \in evtlist[t] \cup {x \in InFlight : Dest(x) = t} : e.t < endtime}]
ImplementsCausalTime == Abs!Spec

=============================================================================
