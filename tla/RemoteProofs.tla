----------------------------- MODULE RemoteProofs -----------------------------
(***************************************************************************)
(* Messages between machines are on time, on any number of machines.       *)
(*                                                                         *)
(* A synchronous message waits at its sender for the edge of an epoch and  *)
(* is for after that edge (Waits); the machines count the messages of an   *)
(* epoch and leave it only when nothing sent before is outside (Passed).   *)
(* An asynchronous message goes its way among null messages, each of which *)
(* tells how far its sender has come: none tells what its sender has not   *)
(* announced (NullsTold), nor of a time after a message that is behind it  *)
(* (Orders), so that what the receiving end believes is never ahead of     *)
(* what is coming (Announced) nor of what is in its mailbox (Mailboxes).   *)
(* Training may turn a stargate from one kind into the other; it does at   *)
(* the edge of an epoch, when the lines are empty.                         *)
(*                                                                         *)
(* That is the premise RemoteSafe of LookaheadProofs, and so Lookahead     *)
(* holds, and with it the properties of the runs, in every system.         *)
(*                                                                         *)
(* Last, a message between machines is in one place only (FarOnce), and    *)
(* with that the composite synchronization implements the causal           *)
(* simulation of CausalTime.                                               *)
(***************************************************************************)
EXTENDS LookaheadProofs

-----------------------------------------------------------------------------
(* What a null message may tell.                                           *)

\* A null message tells no more than its sender has announced.
TimeKnown ==
  \A s \in Stargates : Remote(s) =>
     \/ rgate[s].time <= gate[s].time
     \/ rgate[s].time <= synpoint[There(s)] + min_delay[s]

LEMMA RemoteEnds ==
  ASSUME TypeOK, NEW s \in Stargates, Remote(s)
  PROVE  /\ Several
         /\ Here(s) \in Universes /\ There(s) \in Universes
         /\ machine[Here(s)] = TargetMachine(s) /\ machine[There(s)] = SourceMachine(s)
         /\ SourceMachine(s) \in Machines /\ TargetMachine(s) \in Machines
         /\ proc0[SourceMachine(s)] \in Mates(There(s)) /\ There(s) \in Mates(proc0[SourceMachine(s)])
         /\ proc0[TargetMachine(s)] \in Mates(Here(s)) /\ Here(s) \in Mates(proc0[TargetMachine(s)])
         /\ min_delay[s] \in Nat /\ gate[s].time \in Nat /\ rgate[s].time \in Nat
         /\ gate[s].in_sync \in BOOLEAN /\ rgate[s].in_sync \in BOOLEAN
         /\ InGate(s) = rgate[s]
         /\ simclock[source[s]] \in Nat /\ synpoint[There(s)] \in Nat /\ synpoint[Here(s)] \in Nat
         /\ next_epoch[There(s)] \in Nat /\ next_epoch[Here(s)] \in Nat
         /\ source[s] \in Timelines /\ target[s] \in Timelines
         /\ EpochAfter(Here(s)) \in Nat /\ EpochAfter(There(s)) \in Nat
<1>1. /\ Here(s) \in Universes /\ There(s) \in Universes
      /\ machine[Here(s)] = TargetMachine(s) /\ machine[There(s)] = SourceMachine(s)
      /\ SourceMachine(s) \in Machines /\ TargetMachine(s) \in Machines
      /\ min_delay[s] \in Nat /\ source[s] \in Timelines /\ target[s] \in Timelines
  BY LocalEnds DEF Here, There
<1>2. Several
  <2> SUFFICES ASSUME ~(Cardinality(Machines) > 1) PROVE FALSE
    BY DEF Several
  <2>1. SourceMachine(s) = TargetMachine(s)
    BY <1>1, OneMachine
  <2> QED BY <2>1 DEF Remote
<1>3. /\ proc0[SourceMachine(s)] \in Mates(There(s)) /\ There(s) \in Mates(proc0[SourceMachine(s)])
      /\ proc0[TargetMachine(s)] \in Mates(Here(s)) /\ Here(s) \in Mates(proc0[TargetMachine(s)])
  BY <1>1, TopologyAssumption DEF Mates
<1>4. /\ gate[s].time \in Nat /\ rgate[s].time \in Nat
      /\ gate[s].in_sync \in BOOLEAN /\ rgate[s].in_sync \in BOOLEAN
      /\ simclock[source[s]] \in Nat
  BY <1>1 DEF TypeOK, TimelineTypeOK, GateType
<1>5. /\ synpoint[There(s)] \in Nat /\ synpoint[Here(s)] \in Nat
      /\ next_epoch[There(s)] \in Nat /\ next_epoch[Here(s)] \in Nat
  BY <1>1 DEF TypeOK, WindowTypeOK
<1>6. InGate(s) = rgate[s]
  BY DEF InGate
<1>7. EpochAfter(Here(s)) \in Nat /\ EpochAfter(There(s)) \in Nat
  BY <1>5 DEF EpochAfter
<1> QED BY <1>1, <1>2, <1>3, <1>4, <1>5, <1>6, <1>7

\* The epoch that a machine is heading for, as its universes see it.
LEMMA EpochExpected ==
  ASSUME TypeOK, Meeting, NEW u \in Universes
  PROVE  LET m == machine[u] IN
         /\ ~(AtEpoch(m) /\ Stage(m) \in {"met", "training", "trained"}) =>
              Expected(m).epoch = EpochAfter(u) /\ Expected(m).length = epoch_length[m]
         /\ AtEpoch(m) /\ Stage(m) \in {"met", "training", "trained"} /\ training_finished[m] =>
              Expected(m).epoch = Onward(m)
<1> DEFINE m == machine[u]
           p == proc0[m]
<1>0. m \in Machines /\ p \in Universes /\ machine[p] = m /\ p \in Mates(u)
  BY TopologyAssumption DEF Mates
<1>1. EpochAfter(u) = EpochAfter(p)
  BY <1>0, EpochMates
<1>2. EpochAfter(p) = IF AtEpoch(m) THEN synpoint[p] ELSE next_epoch[p]
  BY DEF EpochAfter, AtEpoch
<1>3. ASSUME ~(AtEpoch(m) /\ Stage(m) \in {"met", "training", "trained"})
      PROVE  Expected(m).epoch = EpochAfter(u) /\ Expected(m).length = epoch_length[m]
  BY <1>1, <1>2, <1>3 DEF Expected, Journey
<1>4. ASSUME AtEpoch(m), Stage(m) \in {"met", "training", "trained"}, training_finished[m]
      PROVE  Expected(m).epoch = Onward(m)
  <2>1. synpoint[p] # global_roundup[m]
    <3>1. global_roundup[m] = Infinity
      BY <1>0, <1>4 DEF Meeting, Edges, Rounds
    <3>2. synpoint[p] <= next_epoch[p] /\ next_epoch[p] <= endtime
      BY <1>0 DEF Meeting, Edges, Bounds
    <3>3. synpoint[p] \in Nat /\ next_epoch[p] \in Nat
      BY <1>0 DEF TypeOK, WindowTypeOK
    <3> QED BY <3>1, <3>2, <3>3, ParameterAssumption
  <2> QED BY <1>4, <2>1 DEF Expected, Journey
<1> QED BY <1>3, <1>4

\* How far a timeline in a window may write to a channel between machines.
LEMMA EpochReach ==
  ASSUME TypeOK, Meeting, Agreement, Scheduling, ClocksInside, Promises,
         Passed, EpochLengths, EpochClasses, TimeKnown,
         NEW s \in Stargates, Remote(s), InWindow(There(s))
  PROVE  LET reach == simclock[source[s]] + min_delay[s] IN
         /\ gate[s].time <= reach
         /\ gate[s].in_sync => EpochAfter(There(s)) <= reach
         /\ rgate[s].in_sync => EpochAfter(Here(s)) <= reach
         /\ rgate[s].time <= reach
<1> DEFINE u == There(s)
           v == Here(s)
           n == SourceMachine(s)
           k == TargetMachine(s)
           reach == simclock[source[s]] + min_delay[s]
<1>0. /\ u \in Universes /\ v \in Universes /\ machine[u] = n /\ machine[v] = k
      /\ n \in Machines /\ k \in Machines /\ Several
      /\ synpoint[u] \in Nat /\ min_delay[s] \in Nat /\ simclock[source[s]] \in Nat
      /\ gate[s].time \in Nat /\ rgate[s].time \in Nat
      /\ EpochAfter(u) \in Nat /\ EpochAfter(v) \in Nat /\ next_epoch[u] \in Nat
      /\ v \in Mates(proc0[k]) /\ u \in Mates(proc0[n]) /\ proc0[n] \in Mates(u)
  BY RemoteEnds
<1>1. synpoint[u] <= simclock[source[s]] /\ gate[s].time <= reach
  <2>1. synpoint[u] <= simclock[source[s]]
    BY RemoteEnds DEF ClocksInside, There
  <2> QED BY <2>1 DEF Promises
<1>2. rgate[s].time <= reach
  <2>1. rgate[s].time <= gate[s].time \/ rgate[s].time <= synpoint[u] + min_delay[s]
    BY DEF TimeKnown
  <2> QED BY <1>0, <1>1, <2>1
<1>3. epoch_length[n] \in Nat /\ epoch_length[k] \in Nat
  BY <1>0 DEF TypeOK, WindowTypeOK
<1>4. EpochAfter(u) = next_epoch[u] /\ ~TrainerDone(n)
      /\ next_epoch[u] <= synpoint[u] + epoch_length[n]
  <2>1. ~TrainerDone(n)
    BY <1>0, InsideWindow
  <2> QED BY <1>0, <2>1 DEF EpochLengths, EpochAfter
<1>5. gate[s].in_sync => EpochAfter(u) <= reach
  <2>1. gate[s].in_sync => epoch_length[n] <= min_delay[s]
    BY DEF EpochClasses
  <2> QED BY <1>0, <1>1, <1>3, <1>4, <2>1
<1>6. ASSUME rgate[s].in_sync PROVE EpochAfter(v) <= reach
  <2>1. epoch_length[k] <= min_delay[s]
    BY <1>6 DEF EpochClasses
  <2>2. CASE AtEpoch(k) /\ Stage(k) \in {"meeting", "met", "training", "trained"}
    <3>1. synpoint[proc0[k]] <= synpoint[u]
      BY <1>0, <2>2 DEF Passed
    <3>2. proc0[k] \in Universes /\ v \in Mates(proc0[k])
      BY <1>0, TopologyAssumption
    <3>3. EpochAfter(v) = EpochAfter(proc0[k])
      BY <3>2, EpochMates
    <3>4. EpochAfter(proc0[k]) = synpoint[proc0[k]]
      BY <2>2 DEF AtEpoch, EpochAfter
    <3> QED BY <1>0, <1>1, <3>1, <3>3, <3>4
  <2>3. CASE ~(AtEpoch(k) /\ Stage(k) \in {"meeting", "met", "training", "trained"})
    <3>1. Expected(k).epoch = EpochAfter(v) /\ Expected(k).length = epoch_length[k]
      BY <1>0, <2>3, EpochExpected
    <3>2. ~AtEdge(proc0[n])
      BY <1>0, InsideWindow
    <3>3. Stage(n) = "away"
      BY <3>2 DEF Stage, AtEdge, WindowLabels
    <3>4. Expected(n).epoch = EpochAfter(u) /\ Expected(n).length = epoch_length[n]
      BY <1>0, <3>3, EpochExpected
    <3>5. Expected(n) = Expected(k)
      BY <1>0 DEF Agreement, SameJourney
    <3>6. EpochAfter(v) = EpochAfter(u) /\ epoch_length[n] = epoch_length[k]
      BY <3>1, <3>4, <3>5
    <3> QED BY <1>0, <1>1, <1>3, <1>4, <2>1, <3>6
  <2> QED BY <2>2, <2>3
<1> QED BY <1>1, <1>2, <1>5, <1>6

-----------------------------------------------------------------------------
(* Where the messages between machines are.                                *)

\* A message that matters: regular, and for before the end of the simulation.
Soon(e) == ~IsNull(e) /\ e.t < endtime
OnLine(s, e) ==
  \E b \in Range(net[<<SourceMachine(s), TargetMachine(s)>>]) : e \in b.regular
\* The messages of a stargate between machines, by where they are: waiting for
\* the edge of an epoch, still outside the universe they are for, in its
\* mailbox, or read from it.
Waiting(s) == {e \in MessageType : e.sg = s /\ Soon(e) /\ e \in global_binque[There(s)]}
Outside(s) ==
  {e \in MessageType : /\ e.sg = s /\ Soon(e)
                       /\ \/ e \in global_binque[There(s)]
                          \/ e \in remote_mailbox[SourceMachine(s)]
                          \/ OnLine(s, e)}
Arrived(s) == {e \in MessageType : e.sg = s /\ Soon(e) /\ e \in Range(umailbox[Here(s)])}
Read(s) == {e \in MessageType : e.sg = s /\ Soon(e) /\ e \in Range(ctx[Here(s)].io)}

\* Queues hold regular messages, the parts of a batch what they are named for.
Kinds ==
  /\ \A u \in Universes : \A e \in global_binque[u] : ~IsNull(e)
  /\ \A n, m \in Machines : \A b \in Range(net[<<n, m>>]) :
       (\A e \in b.regular : Soon(e)) /\ \A e \in b.null : IsNull(e)

\* Written in this step, by the thread of the source of the stargate.
JustWritten(s, e) ==
  /\ RunEvent(There(s)) /\ InWindow(There(s))
  /\ simclock[source[s]] + min_delay[s] <= e.t

\* What a reader takes from a line, and where it puts it.
LEMMA BatchRead ==
  ASSUME TypeOK, NEW n \in Machines, NEW m \in Machines, Reader(n, m)
  PROVE  \E e \in MessageType : \E r \in BatchType :
         LET q == net[<<n, m>>] IN
         /\ q \in Seq(BatchType) /\ q # <<>>
         /\ e \in Head(q).regular \/ (Head(q).regular = {} /\ e \in Head(q).null)
         /\ r.regular = Head(q).regular \ {e} /\ r.null \subseteq Head(q).null
         /\ (net'[<<n, m>>] = Tail(q) /\ r.regular = {}) \/ net'[<<n, m>>] = <<r>> \o Tail(q)
         /\ \A p \in Machines \X Machines : p # <<n, m>> => net'[p] = net[p]
         /\ IF IsNull(e) \/ rgate[e.sg].in_sync
            THEN /\ \A v \in Universes : umailbox'[v] =
                      IF v = Here(e.sg) THEN Append(umailbox[v], e) ELSE umailbox[v]
                 /\ mailbox' = mailbox
            ELSE /\ umailbox' = umailbox
                 /\ \A s \in Stargates : mailbox'[s] =
                      IF s = e.sg THEN mailbox[s] \cup {e} ELSE mailbox[s]
         /\ UNCHANGED <<tmlnVars, gateVars, binVars, remote_mailbox, windowVars, trainVars,
                        threadVars, sent>>
<1> DEFINE p == <<n, m>>
           b == Head(net[p])
<1>0. /\ net \in [Machines \X Machines -> Seq(BatchType)] /\ p \in Machines \X Machines
      /\ umailbox \in [Universes -> Seq(MessageType)]
      /\ mailbox \in [Stargates -> SUBSET MessageType]
  BY DEF TypeOK, MessageTypeOK
<1>1. net[p] \in Seq(BatchType) /\ net[p] # <<>>
  BY <1>0 DEF Reader
<1>2. b \in BatchType
  BY <1>1, SequenceType
<1>3. PICK e \in Receivable(b) :
        /\ net' = [net EXCEPT ![p] =
                     IF Receivable(Without(b, e)) = {} THEN Tail(@)
                     ELSE <<Without(b, e)>> \o Tail(@)]
        /\ IF IsNull(e) \/ rgate[e.sg].in_sync
           THEN /\ umailbox' = [umailbox EXCEPT ![universe[target[e.sg]]] = Append(@, e)]
                /\ UNCHANGED mailbox
           ELSE /\ mailbox' = [mailbox EXCEPT ![e.sg] = @ \cup {e}]
                /\ UNCHANGED umailbox
  BY DEF Reader
<1>4. e \in b.regular \/ (b.regular = {} /\ e \in b.null)
  BY <1>3 DEF Receivable
<1>5. e \in MessageType
  BY <1>2, <1>4 DEF BatchType
<1> DEFINE r == Without(b, e)
<1>6. r \in BatchType /\ r.regular = b.regular \ {e} /\ r.null \subseteq b.null
  BY <1>2 DEF Without, BatchType
<1> HIDE DEF r, b, p
<1>7. (net'[p] = Tail(net[p]) /\ r.regular = {}) \/ net'[p] = <<r>> \o Tail(net[p])
  BY <1>0, <1>3 DEF r, Receivable
<1>8. \A q \in Machines \X Machines : q # p => net'[q] = net[q]
  BY <1>0, <1>3
<1>9. IF IsNull(e) \/ rgate[e.sg].in_sync
      THEN /\ \A v \in Universes : umailbox'[v] =
                IF v = Here(e.sg) THEN Append(umailbox[v], e) ELSE umailbox[v]
           /\ mailbox' = mailbox
      ELSE /\ umailbox' = umailbox
           /\ \A s \in Stargates : mailbox'[s] =
                IF s = e.sg THEN mailbox[s] \cup {e} ELSE mailbox[s]
  BY <1>0, <1>3 DEF Here
<1>10. UNCHANGED <<tmlnVars, gateVars, binVars, remote_mailbox, windowVars, trainVars,
                   threadVars, sent>>
  BY DEF Reader
<1> QED BY <1>1, <1>4, <1>5, <1>6, <1>7, <1>8, <1>9, <1>10 DEF p, b

LEMMA RunWrites ==
  ASSUME TypeOK, Scheduling, Events, NEW u \in Universes, RunEvent(u),
         NEW s \in Stargates, Remote(s), NEW e \in MessageType, e.sg = s
  PROVE  /\ e \in global_binque'[There(s)] =>
              \/ e \in global_binque[There(s)]
              \/ gate[s].in_sync /\ ~IsNull(e) /\ JustWritten(s, e)
         /\ e \in remote_mailbox'[SourceMachine(s)] =>
              \/ e \in remote_mailbox[SourceMachine(s)]
              \/ ~gate[s].in_sync /\ ~IsNull(e) /\ JustWritten(s, e)
         /\ UNCHANGED <<umailbox, net, ctx, pc>>
<1>1. PICK t \in TimelinesOf(u) : \E x \in evtlist[t] : \E M \in SUBSET MessageType :
        EventWrites(u, t, x, M)
  BY EventDelivered
<1>2. PICK x \in evtlist[t] : \E M \in SUBSET MessageType : EventWrites(u, t, x, M)
  BY <1>1
<1>3. PICK M \in SUBSET MessageType : EventWrites(u, t, x, M)
  BY <1>2
<1>4. /\ There(s) \in Universes /\ SourceMachine(s) \in Machines /\ min_delay[s] \in Nat
      /\ simclock[source[s]] \in Nat /\ source[s] \in Timelines
  BY RemoteEnds
<1>5. ASSUME e \in M PROVE JustWritten(s, e) /\ ~IsNull(e)
  <2>1. source[s] = t /\ universe[t] = u /\ x.t + min_delay[s] <= e.t /\ ~IsNull(e)
        /\ x.t \in Nat /\ pc[u] = "run"
    BY <1>3, <1>5 DEF EventWrites
  <2>2. simclock[t] <= x.t
    BY <1>4, <2>1 DEF Events
  <2>3. e.t \in Nat
    BY MessageElim
  <2>4. There(s) = u
    BY <2>1 DEF There
  <2>5. InWindow(u)
    BY <2>1 DEF InWindow, WindowLabels, AtEdge
  <2>6. simclock[source[s]] + min_delay[s] <= e.t
    BY <1>4, <2>1, <2>2, <2>3
  <2> QED BY <2>1, <2>4, <2>5, <2>6 DEF JustWritten
<1>6. e \in global_binque'[There(s)] =>
              \/ e \in global_binque[There(s)]
              \/ gate[s].in_sync /\ e \in M
  BY <1>3, <1>4 DEF EventWrites
<1>7. e \in remote_mailbox'[SourceMachine(s)] =>
              \/ e \in remote_mailbox[SourceMachine(s)]
              \/ ~gate[s].in_sync /\ e \in M
  BY <1>3, <1>4 DEF EventWrites
<1>8. UNCHANGED <<umailbox, net, ctx, pc>>
  BY <1>3 DEF EventWrites, threadVars
<1> QED BY <1>5, <1>6, <1>7, <1>8

LEMMA ThreadMoves ==
  ASSUME TypeOK, Scheduling, Routes, Events, Kinds, NEW u \in Universes, Thread(u),
         NEW s \in Stargates, Remote(s), NEW e \in MessageType, e.sg = s, Soon(e)
  PROVE  /\ e \in global_binque'[There(s)] =>
              e \in global_binque[There(s)] \/ (gate[s].in_sync /\ JustWritten(s, e))
         /\ e \in remote_mailbox'[SourceMachine(s)] =>
              \/ e \in remote_mailbox[SourceMachine(s)] \/ e \in global_binque[There(s)]
              \/ JustWritten(s, e)
         /\ net' = net
         /\ e \in Range(umailbox'[Here(s)]) => e \in Range(umailbox[Here(s)])
         /\ e \in Range(ctx'[Here(s)].io) =>
              e \in Range(ctx[Here(s)].io) \/ e \in Range(umailbox[Here(s)])
<1>0. /\ There(s) \in Universes /\ Here(s) \in Universes /\ SourceMachine(s) \in Machines
      /\ ~IsNull(e)
  BY RemoteEnds DEF Soon
<1>1. net' = net
  BY ThreadFrame
<1>2. e \in Range(umailbox'[Here(s)]) => e \in Range(umailbox[Here(s)])
  BY <1>0, MailFrame
<1>3. e \in Range(ctx'[Here(s)].io) =>
        e \in Range(ctx[Here(s)].io) \/ e \in Range(umailbox[Here(s)])
  BY <1>0, MailFrame
<1>4. CASE RunEvent(u)
  BY <1>1, <1>2, <1>3, <1>4, RunWrites
<1>5. ASSUME ~RunEvent(u)
      PROVE  /\ e \in global_binque'[There(s)] => e \in global_binque[There(s)]
             /\ e \in remote_mailbox'[SourceMachine(s)] =>
                  \/ e \in remote_mailbox[SourceMachine(s)] \/ e \in global_binque[There(s)]
  <2>1. CASE SendEpoch(u)
    <3>1. /\ global_binque'[There(s)] \subseteq global_binque[There(s)]
          /\ e \in remote_mailbox'[SourceMachine(s)] =>
               e \in remote_mailbox[SourceMachine(s)] \/ e \in global_binque[u]
      BY <1>0, <2>1, Exchanging
    <3>2. e \in global_binque[u] => u = There(s)
      BY DEF Routes, QueueRoutes, There
    <3> QED BY <3>1, <3>2
  <2>2. CASE UpdateTime(u)
    <3>1. ~SendEpoch(u)
      BY <2>2 DEF UpdateTime, SendEpoch
    <3>2. global_binque' = global_binque
      BY <1>5, <3>1, ThreadFrame
    <3>3. e \in remote_mailbox'[SourceMachine(s)] => e \in remote_mailbox[SourceMachine(s)]
      BY <1>0, <2>2, NullSent
    <3> QED BY <3>2, <3>3
  <2>3. CASE ~SendEpoch(u) /\ ~UpdateTime(u)
    BY <1>5, <2>3, ThreadFrame
  <2> QED BY <2>1, <2>2, <2>3
<1> QED BY <1>1, <1>2, <1>3, <1>4, <1>5

LEMMA OtherMoves ==
  ASSUME TypeOK, Routes, Kinds,
         \/ \E m \in Machines : Barrier(m) \/ Trained(m) \/ Writer(m)
         \/ \E n, m \in Machines : Reader(n, m)
         \/ Collective \/ UNCHANGED vars,
         NEW s \in Stargates, Remote(s), NEW e \in MessageType, e.sg = s, Soon(e)
  PROVE  /\ global_binque' = global_binque
         /\ e \in remote_mailbox'[SourceMachine(s)] => e \in remote_mailbox[SourceMachine(s)]
         /\ OnLine(s, e)' => OnLine(s, e) \/ e \in remote_mailbox[SourceMachine(s)]
         /\ e \in Range(umailbox'[Here(s)]) => e \in Range(umailbox[Here(s)]) \/ OnLine(s, e)
         /\ ctx'[Here(s)].io = ctx[Here(s)].io
<1> DEFINE line == <<SourceMachine(s), TargetMachine(s)>>
<1>0. /\ There(s) \in Universes /\ Here(s) \in Universes
      /\ SourceMachine(s) \in Machines /\ TargetMachine(s) \in Machines
      /\ ~IsNull(e) /\ line \in Machines \X Machines
  BY RemoteEnds DEF Soon
<1>1. global_binque' = global_binque
  BY OtherFrame DEF binVars
<1>2. ctx'[Here(s)].io = ctx[Here(s)].io
  <2>1. CASE \E m \in Machines : Trained(m)
    BY <1>0, <2>1, TrainingEnds
  <2>2. CASE ~(\E m \in Machines : Trained(m))
    BY <2>2, OtherFrame
  <2> QED BY <2>1, <2>2
<1>3. ASSUME NEW m \in Machines, Writer(m)
      PROVE  /\ e \in remote_mailbox'[SourceMachine(s)] => e \in remote_mailbox[SourceMachine(s)]
             /\ OnLine(s, e)' => OnLine(s, e) \/ e \in remote_mailbox[SourceMachine(s)]
             /\ umailbox' = umailbox
  <2>1. umailbox' = umailbox
    BY <1>3, WriteBatch DEF mailVars
  <2>2. e \in remote_mailbox'[SourceMachine(s)] => e \in remote_mailbox[SourceMachine(s)]
    BY <1>0, <1>3, WriteBatch
  <2>3. ASSUME NEW b \in Range(net'[line]), e \in b.regular
        PROVE  OnLine(s, e) \/ e \in remote_mailbox[SourceMachine(s)]
    <3>1. b \in Range(net[line]) \/ (SourceMachine(s) = m /\ e \in remote_mailbox[m])
      BY <1>0, <1>3, <2>3, WriteBatch
    <3> QED BY <2>3, <3>1 DEF OnLine
  <2> QED BY <2>1, <2>2, <2>3 DEF OnLine, SourceMachine, TargetMachine
<1>4. ASSUME NEW n \in Machines, NEW m \in Machines, Reader(n, m)
      PROVE  /\ remote_mailbox' = remote_mailbox
             /\ OnLine(s, e)' => OnLine(s, e)
             /\ e \in Range(umailbox'[Here(s)]) => e \in Range(umailbox[Here(s)]) \/ OnLine(s, e)
  <2>1. PICK x \in MessageType :
         /\ \E b \in Range(net[<<n, m>>]) : x \in b.regular \cup b.null
         /\ \A p \in Machines \X Machines : \A b \in Range(net'[p]) :
              \E c \in Range(net[p]) : b.regular \subseteq c.regular /\ b.null \subseteq c.null
         /\ \A v \in Universes : \A y \in Range(umailbox'[v]) :
              y \in Range(umailbox[v]) \/ y = x
         /\ UNCHANGED <<tmlnVars, gateVars, binVars, remote_mailbox, windowVars, trainVars,
                        threadVars, sent>>
    BY <1>4, ReadMessage
  <2>2. OnLine(s, e)' => OnLine(s, e)
    BY <1>0, <2>1 DEF OnLine, SourceMachine, TargetMachine
  <2>3. ASSUME e = x PROVE OnLine(s, e)
    <3>1. PICK b \in Range(net[<<n, m>>]) : x \in b.regular \cup b.null
      BY <2>1
    <3>2. x \in b.regular
      BY <1>0, <2>3, <3>1 DEF Kinds
    <3>3. SourceMachine(s) = n /\ TargetMachine(s) = m
      BY <2>3, <3>1 DEF Routes, NetRoutes
    <3> QED BY <2>3, <3>2, <3>3 DEF OnLine
  <2> QED BY <1>0, <2>1, <2>2, <2>3
<1>5. ASSUME ~(\E m \in Machines : Writer(m)), ~(\E n, m \in Machines : Reader(n, m))
      PROVE  remote_mailbox' = remote_mailbox /\ net' = net /\ umailbox' = umailbox
  BY <1>5, OtherFrame DEF netVars
<1>6. ASSUME ~(\E m \in Machines : Writer(m)), ~(\E n, m \in Machines : Reader(n, m))
      PROVE  OnLine(s, e)' => OnLine(s, e)
  BY <1>5, <1>6 DEF OnLine, SourceMachine, TargetMachine
<1> QED BY <1>1, <1>2, <1>3, <1>4, <1>5, <1>6

\* How the messages of a stargate between machines move in a step.
LEMMA RemoteMoves ==
  ASSUME TypeOK, Scheduling, Routes, Events, Kinds, [Next]_vars,
         NEW s \in Stargates, Remote(s)
  PROVE  /\ \A e \in Waiting(s)' : e \in Waiting(s) \/ (gate[s].in_sync /\ JustWritten(s, e))
         /\ \A e \in Outside(s)' : e \in Outside(s) \/ JustWritten(s, e)
         /\ \A e \in Arrived(s)' : e \in Arrived(s) \/ e \in Outside(s)
         /\ \A e \in Read(s)' : e \in Read(s) \/ e \in Arrived(s)
<1>1. ASSUME NEW e \in MessageType, e.sg = s, Soon(e)
      PROVE  /\ e \in global_binque'[There(s)] =>
                  e \in global_binque[There(s)] \/ (gate[s].in_sync /\ JustWritten(s, e))
             /\ e \in remote_mailbox'[SourceMachine(s)] =>
                  \/ e \in remote_mailbox[SourceMachine(s)] \/ e \in global_binque[There(s)]
                  \/ JustWritten(s, e)
             /\ OnLine(s, e)' => OnLine(s, e) \/ e \in remote_mailbox[SourceMachine(s)]
             /\ e \in Range(umailbox'[Here(s)]) => e \in Range(umailbox[Here(s)]) \/ OnLine(s, e)
             /\ e \in Range(ctx'[Here(s)].io) =>
                  e \in Range(ctx[Here(s)].io) \/ e \in Range(umailbox[Here(s)])
  <2>1. CASE \E u \in Universes : Thread(u)
    <3>1. PICK u \in Universes : Thread(u)
      BY <2>1
    <3>2. OnLine(s, e)' => OnLine(s, e)
      BY <3>1, ThreadFrame DEF OnLine, SourceMachine, TargetMachine
    <3> QED BY <1>1, <3>1, <3>2, ThreadMoves
  <2>2. CASE ~(\E u \in Universes : Thread(u))
    <3>1. \/ \E m \in Machines : Barrier(m) \/ Trained(m) \/ Writer(m)
          \/ \E n, m \in Machines : Reader(n, m)
          \/ Collective \/ UNCHANGED vars
      BY <2>2 DEF Next, Finished
    <3> QED BY <1>1, <3>1, OtherMoves
  <2> QED BY <2>1, <2>2
<1>2. /\ There(s)' = There(s) /\ Here(s)' = Here(s) /\ SourceMachine(s)' = SourceMachine(s)
  BY DEF There, Here, SourceMachine
<1>3. \A e : Soon(e)' <=> Soon(e)
  BY DEF Soon, IsNull
<1>4. \A e \in Waiting(s)' : e \in Waiting(s) \/ (gate[s].in_sync /\ JustWritten(s, e))
  BY <1>1, <1>2, <1>3 DEF Waiting
<1>5. \A e \in Outside(s)' : e \in Outside(s) \/ JustWritten(s, e)
  <2> SUFFICES ASSUME NEW e \in Outside(s)' PROVE e \in Outside(s) \/ JustWritten(s, e)
    OBVIOUS
  <2>1. e \in MessageType /\ e.sg = s /\ Soon(e)
        /\ \/ e \in global_binque'[There(s)] \/ e \in remote_mailbox'[SourceMachine(s)]
           \/ OnLine(s, e)'
    BY <1>2, <1>3 DEF Outside
  <2> QED BY <1>1, <2>1 DEF Outside
<1>6. \A e \in Arrived(s)' : e \in Arrived(s) \/ e \in Outside(s)
  BY <1>1, <1>2, <1>3 DEF Arrived, Outside
<1>7. \A e \in Read(s)' : e \in Read(s) \/ e \in Arrived(s)
  BY <1>1, <1>2, <1>3 DEF Read, Arrived
<1> QED BY <1>4, <1>5, <1>6, <1>7

-----------------------------------------------------------------------------
(* What the null messages on their way tell.                               *)

\* The null messages of a stargate between machines that are on their way.
Told(s) ==
  {e \in MessageType :
     /\ e.sg = s /\ IsNull(e)
     /\ \/ e \in remote_mailbox[SourceMachine(s)]
        \/ \E b \in Range(net[<<SourceMachine(s), TargetMachine(s)>>]) : e \in b.null
        \/ e \in Range(umailbox[Here(s)]) \cup Range(ctx[Here(s)].io)}
\* None of them tells more than the source has announced.
NullsTold == \A s \in Stargates : Remote(s) => \A e \in Told(s) : e.t <= gate[s].time
\* A thread notifies the universes of its own machine only.
NotifiesInside ==
  \A u \in Universes : pc[u] = "notify" =>
     \A s \in ctx[u].out : IsFirst(s, ctx[u].out) => ~Remote(s)

LEMMA InitKinds == Init => Kinds /\ NullsTold /\ NotifiesInside
<1> SUFFICES ASSUME Init PROVE Kinds /\ NullsTold /\ NotifiesInside
  OBVIOUS
<1>1. /\ \A u \in Universes : global_binque[u] \subseteq InitWrites
      /\ \A p \in Machines \X Machines : net[p] = <<>>
      /\ \A u \in Universes : umailbox[u] = <<>> /\ ctx[u].io = <<>> /\ pc[u] = "top"
      /\ \A m \in Machines : remote_mailbox[m] = {}
  BY DEF Init, Idle
<1>2. \A e \in InitWrites : ~IsNull(e)
  BY InputAssumption DEF IsNull
<1>3. Kinds
  BY <1>1, <1>2, EmptyRange DEF Kinds
<1>4. ASSUME NEW s \in Stargates, Remote(s), NEW e \in Told(s) PROVE FALSE
  <2>1. /\ Here(s) \in Universes /\ SourceMachine(s) \in Machines
        /\ TargetMachine(s) \in Machines
    BY LocalEnds DEF Here
  <2> QED BY <1>1, <1>4, <2>1, EmptyRange DEF Told
<1>5. NotifiesInside
  BY <1>1 DEF NotifiesInside
<1> QED BY <1>3, <1>4, <1>5 DEF NullsTold

LEMMA NextKinds ==
  ASSUME TypeOK, Scheduling, Kinds, [Next]_vars
  PROVE  Kinds'
<1> DEFINE NetKinds(q) ==
      \A n, m \in Machines : \A b \in Range(q[<<n, m>>]) :
       (\A e \in b.regular : Soon(e)) /\ \A e \in b.null : IsNull(e)
<1>0. /\ \A u \in Universes : \A e \in global_binque[u] : ~IsNull(e)
      /\ NetKinds(net)
  BY DEF Kinds
<1>1. ASSUME NEW u \in Universes, Thread(u)
      PROVE  /\ \A v \in Universes : \A e \in global_binque'[v] : ~IsNull(e)
             /\ net' = net
  <2>1. net' = net
    BY <1>1, ThreadFrame
  <2>2. ASSUME NEW v \in Universes, NEW e \in global_binque'[v] PROVE ~IsNull(e)
    <3>1. CASE RunEvent(u)
      <4>1. PICK t \in TimelinesOf(u) : \E x \in evtlist[t] : \E M \in SUBSET MessageType :
              EventWrites(u, t, x, M)
        BY <3>1, EventDelivered
      <4>2. PICK x \in evtlist[t] : \E M \in SUBSET MessageType : EventWrites(u, t, x, M)
        BY <4>1
      <4>3. PICK M \in SUBSET MessageType : EventWrites(u, t, x, M)
        BY <4>2
      <4>4. e \in global_binque[v] \/ e \in M
        BY <2>2, <4>3 DEF EventWrites
      <4>5. e \in M => ~IsNull(e)
        BY <4>3 DEF EventWrites
      <4> QED BY <1>0, <4>4, <4>5
    <3>2. CASE SendEpoch(u)
      BY <1>0, <2>2, <3>2, Exchanging
    <3>3. CASE ~RunEvent(u) /\ ~SendEpoch(u)
      BY <1>0, <1>1, <2>2, <3>3, ThreadFrame
    <3> QED BY <3>1, <3>2, <3>3
  <2> QED BY <2>1, <2>2
<1>2. ASSUME ~(\E u \in Universes : Thread(u))
      PROVE  /\ global_binque' = global_binque
             /\ NetKinds(net')
  <2>1. \/ \E m \in Machines : Barrier(m) \/ Trained(m) \/ Writer(m)
        \/ \E n, m \in Machines : Reader(n, m)
        \/ Collective \/ UNCHANGED vars
    BY <1>2 DEF Next, Finished
  <2>2. global_binque' = global_binque
    BY <2>1, OtherFrame DEF binVars
  <2>3. ASSUME NEW m \in Machines, Writer(m) PROVE NetKinds(net')
    <3> DEFINE to(k) == {e \in remote_mailbox[m] : Counted(e) /\ TargetMachine(e.sg) = k}
               batch(k) == [regular |-> {e \in to(k) : ~IsNull(e)},
                            null    |-> {e \in to(k) : IsNull(e)}]
    <3>1. net' = [mn \in Machines \X Machines |->
                    IF mn[1] = m /\ to(mn[2]) # {}
                    THEN Append(net[mn], batch(mn[2])) ELSE net[mn]]
      BY <2>3 DEF Writer
    <3>2. ASSUME NEW k \in Machines
          PROVE  /\ batch(k) \in BatchType
                 /\ \A e \in batch(k).regular : Soon(e)
                 /\ \A e \in batch(k).null : IsNull(e)
      <4>1. remote_mailbox[m] \subseteq MessageType
        BY DEF TypeOK, MessageTypeOK
      <4> QED BY <4>1 DEF BatchType, Soon, Counted
    <3> HIDE DEF batch, to
    <3>3. ASSUME NEW n \in Machines, NEW k \in Machines, NEW b \in Range(net'[<<n, k>>])
          PROVE  b \in Range(net[<<n, k>>]) \/ b = batch(k)
      <4>1. net[<<n, k>>] \in Seq(BatchType)
        BY DEF TypeOK, MessageTypeOK
      <4>2. <<n, k>> \in Machines \X Machines /\ <<n, k>>[1] = n /\ <<n, k>>[2] = k
        OBVIOUS
      <4>3. net'[<<n, k>>] = net[<<n, k>>] \/ net'[<<n, k>>] = Append(net[<<n, k>>], batch(k))
        BY <3>1, <4>2
      <4>4. \A x \in Range(Append(net[<<n, k>>], batch(k))) : x \in Range(net[<<n, k>>]) \/ x = batch(k)
        BY <3>2, <4>1, AppendRange
      <4> QED BY <3>3, <4>3, <4>4
    <3> QED BY <1>0, <3>2, <3>3
  <2>4. ASSUME NEW n \in Machines, NEW m \in Machines, Reader(n, m) PROVE NetKinds(net')
    <3>1. \A p \in Machines \X Machines : \A b \in Range(net'[p]) :
              \E c \in Range(net[p]) : b.regular \subseteq c.regular /\ b.null \subseteq c.null
      BY <2>4, ReadMessage
    <3>2. ASSUME NEW j \in Machines, NEW k \in Machines, NEW b \in Range(net'[<<j, k>>])
          PROVE  (\A e \in b.regular : Soon(e)) /\ \A e \in b.null : IsNull(e)
      <4>1. <<j, k>> \in Machines \X Machines
        OBVIOUS
      <4>2. PICK c \in Range(net[<<j, k>>]) : b.regular \subseteq c.regular /\ b.null \subseteq c.null
        BY <3>1, <3>2, <4>1
      <4> QED BY <1>0, <4>2
    <3> QED BY <3>2
  <2>5. CASE ~(\E m \in Machines : Writer(m)) /\ ~(\E n, m \in Machines : Reader(n, m))
    <3>1. net' = net
      BY <2>1, <2>5, OtherFrame DEF netVars
    <3> QED BY <1>0, <2>2, <3>1
  <2> QED BY <2>2, <2>3, <2>4, <2>5
<1>3. (\A u \in Universes : \A e \in global_binque'[u] : ~IsNull(e)) /\ NetKinds(net')
  BY <1>0, <1>1, <1>2
<1>4. \A e : (Soon(e)' <=> Soon(e)) /\ (IsNull(e)' <=> IsNull(e))
  BY DEF Soon, IsNull
<1> QED BY <1>3, <1>4 DEF Kinds

LEMMA NextNotifiesInside ==
  ASSUME TypeOK, Meeting, Scheduling, NotifiesInside, [Next]_vars
  PROVE  NotifiesInside'
<1> SUFFICES ASSUME NEW u \in Universes, pc'[u] = "notify", NEW s \in ctx'[u].out,
                    IsFirst(s, ctx'[u].out)
             PROVE  ~Remote(s)
  BY DEF NotifiesInside, IsFirst, Remote, SourceMachine, TargetMachine
<1>1. CASE UpdateTime(u)
  <2>1. PICK r \in ctx[u].out : IsFirst(r, ctx[u].out) /\ SetTime(u, r)
    BY <1>1 DEF UpdateTime
  <2>2. pc \in [Universes -> Labels] /\ pc[u] = "update" /\ ctx[u].out \subseteq Stargates
    BY <1>1, ContextSet DEF UpdateTime, TypeOK, ThreadTypeOK
  <2>3. CASE ~(gate[r].time >= endtime) /\ ~Remote(r) /\ ~SameUniverse(r)
    <3>1. ctx' = ctx
      BY <2>1, <2>3 DEF SetTime
    <3>2. s \in Nat /\ r \in Nat /\ s <= r /\ r <= s
      BY <2>1, <2>2, <3>1, TopologyAssumption DEF IsFirst
    <3> QED BY <2>3, <3>2
  <2>4. CASE gate[r].time >= endtime \/ Remote(r) \/ SameUniverse(r)
    <3>1. (\E d : BeginScan(u, d, "update")) \/ pc' = pc
      BY <2>1, <2>4 DEF SetTime
    <3>2. ASSUME NEW d, BeginScan(u, d, "update") PROVE pc'[u] = "scan"
      BY <2>2, <3>2 DEF BeginScan, Goto
    <3> QED BY <2>2, <3>1, <3>2
  <2> QED BY <2>3, <2>4
<1>2. ASSUME ~UpdateTime(u) PROVE pc[u] = "notify" /\ ctx'[u].out = ctx[u].out
  <2>0. pc \in [Universes -> Labels] /\ scan \in [Universes -> ScanType]
        /\ ctx \in [Universes -> ContextType]
    BY DEF TypeOK, ThreadTypeOK
  <2>1. CASE \E v \in Universes \ {u} : Thread(v)
    BY <2>1, ThreadAlone, OthersStay
  <2>2. CASE Thread(u)
    <3>1. ~Notify(u) /\ pc[u] # "notify"
      BY <2>0, <2>2, ThreadNotifies DEF Notify, Goto
    <3>2. \/ EndScan(u) \/ \E t, r : BeginScan(u, t, r)
          \/ \E l \in Labels \ {"notify"} : pc' = [pc EXCEPT ![u] = l]
          \/ pc' = pc \/ pc'[u] # "notify"
      BY <1>2, <2>0, <2>2, <3>1 DEF Thread, Dispatch, Collect, SendEpoch, Await, TrainLocal,
           TrainGlobal, OpenTimeline, Opened, Pick, ReadTime, ReceiveMessages, RunEvent, RunEnd,
           threadVars, Interrupted, PollMail, WaitMail, DrainMail, TakeMail, HandleMail, HandleNull,
           EndMail, AfterMail, AdvanceWindow, Goto, AfterLocalEdge, Labels
    <3>3. EndScan(u) => pc'[u] # "notify"
      BY <2>0 DEF EndScan, Goto, ScanType
    <3>4. (\E t, r : BeginScan(u, t, r)) => pc'[u] # "notify"
      BY <2>0 DEF BeginScan, Goto
    <3> QED BY <2>0, <3>1, <3>2, <3>3, <3>4
  <2>3. CASE ~(\E v \in Universes : Thread(v))
    <3>1. ASSUME NEW m \in Machines, Trained(m) PROVE pc'[u] = pc[u] /\ ctx'[u].out = ctx[u].out
      <4>1. machine[u] # m /\ pc'[u] = pc[u]
        BY <3>1, TrainingEnds
      <4>2. ctx'[u] = ctx[u]
        BY <3>1, <4>1 DEF Trained
      <4> QED BY <4>1, <4>2
    <3>2. pc'[u] = pc[u] /\ ctx'[u].out = ctx[u].out
      <4>1. CASE \E m \in Machines : Barrier(m)
        BY <4>1 DEF Barrier, Meet
      <4>2. CASE Collective
        BY <4>2 DEF Collective, Reduce, MpiBarrier, FinishGlobal
      <4>3. CASE \E m \in Machines : Writer(m)
        BY <4>3 DEF Writer, threadVars
      <4>4. CASE \E n, m \in Machines : Reader(n, m)
        BY <4>4 DEF Reader, threadVars
      <4>5. CASE UNCHANGED vars
        BY <4>5 DEF vars, threadVars
      <4> QED BY <2>3, <3>1, <4>1, <4>2, <4>3, <4>4, <4>5 DEF Next, Finished
    <3> QED BY <3>2
  <2> QED BY <2>1, <2>2, <2>3
<1> QED BY <1>1, <1>2 DEF NotifiesInside

LEMMA ThreadTells ==
  ASSUME TypeOK, Scheduling, Events, Kinds, NEW u \in Universes, Thread(u),
         NEW s \in Stargates, Remote(s), NEW f \in MessageType, f.sg = s, IsNull(f)
  PROVE  /\ net' = net
         /\ f \in remote_mailbox'[SourceMachine(s)] =>
              f \in remote_mailbox[SourceMachine(s)] \/ f.t <= gate'[s].time
         /\ f \in Range(umailbox'[Here(s)]) =>
              f \in Range(umailbox[Here(s)]) \/ f.t <= gate'[s].time
         /\ f \in Range(ctx'[Here(s)].io) =>
              f \in Range(ctx[Here(s)].io) \/ f \in Range(umailbox[Here(s)])
<1>0. Here(s) \in Universes /\ SourceMachine(s) \in Machines /\ f.t \in Nat
  BY RemoteEnds, MessageElim
<1>1. net' = net
  BY ThreadFrame
<1>2. f \in Range(ctx'[Here(s)].io) =>
        f \in Range(ctx[Here(s)].io) \/ f \in Range(umailbox[Here(s)])
  BY <1>0, MailFrame
<1>3. f \in remote_mailbox'[SourceMachine(s)] =>
        f \in remote_mailbox[SourceMachine(s)] \/ f.t <= gate'[s].time
  <2>1. CASE RunEvent(u)
    BY <2>1, RunWrites
  <2>2. CASE SendEpoch(u)
    BY <1>0, <2>2, Exchanging DEF Kinds
  <2>3. CASE UpdateTime(u)
    BY <1>0, <2>3, NullSent
  <2>4. CASE ~RunEvent(u) /\ ~SendEpoch(u) /\ ~UpdateTime(u)
    BY <2>4, ThreadFrame
  <2> QED BY <2>1, <2>2, <2>3, <2>4
<1>4. f \in Range(umailbox'[Here(s)]) =>
        f \in Range(umailbox[Here(s)]) \/ f.t <= gate'[s].time
  <2>0. umailbox \in [Universes -> Seq(MessageType)] /\ gate \in [Stargates -> GateType]
    BY DEF TypeOK, MessageTypeOK, TimelineTypeOK
  <2>1. CASE Notify(u)
    <3>1. PICK r \in ctx[u].out :
            umailbox' = [umailbox EXCEPT ![universe[target[r]]] =
                           Append(@, Message(r, 0, gate[r].time))]
      BY <2>1 DEF Notify
    <3>2. gate' = gate /\ r \in Stargates
      BY <2>1, ContextSet DEF Notify, gateVars, TypeOK, ThreadTypeOK
    <3>3. Message(r, 0, gate[r].time) \in MessageType
      BY <2>0, <3>2, MessageIntro DEF GateType
    <3> DEFINE x == Message(r, 0, gate[r].time)
    <3>4. x.sg = r /\ x.t = gate[r].time
      BY DEF Message
    <3> HIDE DEF x
    <3>5. umailbox'[Here(s)] = umailbox[Here(s)] \/ umailbox'[Here(s)] = Append(umailbox[Here(s)], x)
      BY <1>0, <2>0, <3>1 DEF x
    <3>6. \A y \in Range(Append(umailbox[Here(s)], x)) : y \in Range(umailbox[Here(s)]) \/ y = x
      BY <1>0, <2>0, <3>3, AppendRange DEF x
    <3>7. f \in Range(umailbox'[Here(s)]) => f \in Range(umailbox[Here(s)]) \/ f = x
      BY <3>5, <3>6
    <3> QED BY <1>0, <3>2, <3>4, <3>7
  <2>2. CASE PollMail(u) \/ WaitMail(u) \/ DrainMail(u)
    <3>1. umailbox' = [umailbox EXCEPT ![u] = <<>>]
      BY <2>2 DEF PollMail, WaitMail, DrainMail, TakeMail
    <3>2. umailbox'[Here(s)] = umailbox[Here(s)] \/ umailbox'[Here(s)] = <<>>
      BY <1>0, <2>0, <3>1
    <3> QED BY <3>2, EmptyRange
  <2>3. CASE ~Notify(u) /\ ~PollMail(u) /\ ~WaitMail(u) /\ ~DrainMail(u)
    BY <2>3, ThreadFrame
  <2> QED BY <2>1, <2>2, <2>3
<1> QED BY <1>1, <1>2, <1>3, <1>4

LEMMA OtherTells ==
  ASSUME TypeOK, Routes, Kinds,
         \/ \E m \in Machines : Barrier(m) \/ Trained(m) \/ Writer(m)
         \/ \E n, m \in Machines : Reader(n, m)
         \/ Collective \/ UNCHANGED vars,
         NEW s \in Stargates, Remote(s), NEW f \in Told(s)'
  PROVE  f \in Told(s)
<1> DEFINE line == <<SourceMachine(s), TargetMachine(s)>>
           OnWire(q) == \E b \in Range(q[line]) : f \in b.null
<1>0. /\ Here(s) \in Universes /\ SourceMachine(s) \in Machines /\ TargetMachine(s) \in Machines
      /\ line \in Machines \X Machines
  BY RemoteEnds
<1>1. /\ f \in MessageType /\ f.sg = s /\ IsNull(f)
      /\ \/ f \in remote_mailbox'[SourceMachine(s)]
         \/ OnWire(net')
         \/ f \in Range(umailbox'[Here(s)]) \cup Range(ctx'[Here(s)].io)
  BY DEF Told, SourceMachine, TargetMachine, Here, IsNull
<1>2. ctx'[Here(s)].io = ctx[Here(s)].io
  <2>1. CASE \E m \in Machines : Trained(m)
    BY <1>0, <2>1, TrainingEnds
  <2>2. CASE ~(\E m \in Machines : Trained(m))
    BY <2>2, OtherFrame
  <2> QED BY <2>1, <2>2
<1>3. \/ f \in remote_mailbox[SourceMachine(s)] \/ OnWire(net)
      \/ f \in Range(umailbox[Here(s)]) \cup Range(ctx[Here(s)].io)
  <2>1. ASSUME NEW m \in Machines, Writer(m)
        PROVE  \/ f \in remote_mailbox[SourceMachine(s)] \/ OnWire(net)
               \/ f \in Range(umailbox[Here(s)]) \cup Range(ctx[Here(s)].io)
    <3>1. umailbox' = umailbox
      BY <2>1, WriteBatch DEF mailVars
    <3>2. f \in remote_mailbox'[SourceMachine(s)] => f \in remote_mailbox[SourceMachine(s)]
      BY <1>0, <2>1, WriteBatch
    <3>3. ASSUME NEW b \in Range(net'[line]), f \in b.null
          PROVE  OnWire(net) \/ f \in remote_mailbox[SourceMachine(s)]
      <4>1. b \in Range(net[line]) \/ (SourceMachine(s) = m /\ f \in remote_mailbox[m])
        BY <1>0, <2>1, <3>3, WriteBatch
      <4> QED BY <3>3, <4>1
    <3> QED BY <1>1, <1>2, <3>1, <3>2, <3>3
  <2>2. ASSUME NEW n \in Machines, NEW m \in Machines, Reader(n, m)
        PROVE  \/ f \in remote_mailbox[SourceMachine(s)] \/ OnWire(net)
               \/ f \in Range(umailbox[Here(s)]) \cup Range(ctx[Here(s)].io)
    <3>1. PICK x \in MessageType :
           /\ \E b \in Range(net[<<n, m>>]) : x \in b.regular \cup b.null
           /\ \A p \in Machines \X Machines : \A b \in Range(net'[p]) :
                \E c \in Range(net[p]) : b.regular \subseteq c.regular /\ b.null \subseteq c.null
           /\ \A v \in Universes : \A y \in Range(umailbox'[v]) :
                y \in Range(umailbox[v]) \/ y = x
           /\ UNCHANGED <<tmlnVars, gateVars, binVars, remote_mailbox, windowVars, trainVars,
                          threadVars, sent>>
      BY <2>2, ReadMessage
    <3>2. OnWire(net') => OnWire(net)
      BY <1>0, <3>1
    <3>3. ASSUME f = x PROVE OnWire(net)
      <4>1. PICK b \in Range(net[<<n, m>>]) : x \in b.regular \cup b.null
        BY <3>1
      <4>2. x \in b.null
        BY <1>1, <3>3, <4>1 DEF Kinds, Soon
      <4>3. SourceMachine(s) = n /\ TargetMachine(s) = m
        BY <1>1, <3>3, <4>1 DEF Routes, NetRoutes
      <4> QED BY <3>3, <4>2, <4>3
    <3> QED BY <1>0, <1>1, <1>2, <3>1, <3>2, <3>3
  <2>3. CASE ~(\E m \in Machines : Writer(m)) /\ ~(\E n, m \in Machines : Reader(n, m))
    <3>1. remote_mailbox' = remote_mailbox /\ net' = net /\ umailbox' = umailbox
      BY <2>3, OtherFrame DEF netVars
    <3> QED BY <1>1, <1>2, <3>1
  <2> QED BY <2>1, <2>2, <2>3
<1> QED BY <1>1, <1>3 DEF Told

LEMMA NextNullsTold ==
  ASSUME TypeOK, TypeOK', Meeting, Agreement, Scheduling, Routes, Events, Kinds, NullsTold,
         [Next]_vars
  PROVE  NullsTold'
<1> SUFFICES ASSUME NEW s \in Stargates, Remote(s), NEW f \in Told(s)'
             PROVE  f.t <= gate'[s].time
  BY DEF NullsTold, Remote, SourceMachine, TargetMachine
<1>1. f \in Told(s) \/ f.t <= gate'[s].time
  <2>1. ASSUME NEW u \in Universes, Thread(u) PROVE f \in Told(s) \/ f.t <= gate'[s].time
    <3>1. /\ f \in MessageType /\ f.sg = s /\ IsNull(f)
          /\ \/ f \in remote_mailbox'[SourceMachine(s)]
             \/ \E b \in Range(net'[<<SourceMachine(s), TargetMachine(s)>>]) : f \in b.null
             \/ f \in Range(umailbox'[Here(s)]) \cup Range(ctx'[Here(s)].io)
      BY DEF Told, SourceMachine, TargetMachine, Here, IsNull
    <3>2. /\ net' = net
          /\ f \in remote_mailbox'[SourceMachine(s)] =>
               f \in remote_mailbox[SourceMachine(s)] \/ f.t <= gate'[s].time
          /\ f \in Range(umailbox'[Here(s)]) =>
               f \in Range(umailbox[Here(s)]) \/ f.t <= gate'[s].time
          /\ f \in Range(ctx'[Here(s)].io) =>
               f \in Range(ctx[Here(s)].io) \/ f \in Range(umailbox[Here(s)])
      BY <2>1, <3>1, ThreadTells
    <3> QED BY <3>1, <3>2 DEF Told
  <2>2. CASE ~(\E u \in Universes : Thread(u))
    BY <2>2, OtherTells DEF Next, Finished
  <2> QED BY <2>1, <2>2
<1>2. f \in Told(s) => f.t <= gate[s].time
  BY DEF NullsTold
<1>3. gate[s].time <= gate'[s].time
  BY GateRises
<1>4. f \in MessageType /\ gate[s].time \in Nat /\ gate'[s].time \in Nat
  BY DEF Told, TypeOK, TimelineTypeOK, GateType
<1>5. f.t \in Nat
  BY <1>4, MessageElim
<1> QED BY <1>1, <1>2, <1>3, <1>4, <1>5

-----------------------------------------------------------------------------
(* The order of messages on a line.                                        *)

\* The null messages F have been sent before the messages E of their stargates.
Older(F, E) ==
  \A f \in F : \A e \in E : IsNull(f) /\ Soon(e) /\ f.sg = e.sg => f.t <= e.t
InOrder(q) == \A i, j \in DOMAIN q : i < j => Older({q[i]}, {q[j]})
BatchesInOrder(q) == \A i, j \in DOMAIN q : i < j => Older(q[i].null, q[j].regular)

LEMMA TailItems ==
  ASSUME NEW S, NEW q \in Seq(S), q # <<>>
  PROVE  /\ Head(q) = q[1] /\ 1 \in DOMAIN q
         /\ \A i \in DOMAIN Tail(q) : i + 1 \in DOMAIN q /\ Tail(q)[i] = q[i + 1]
         /\ DOMAIN Tail(q) \subseteq Nat \ {0} /\ DOMAIN q \subseteq Nat \ {0}
<1>1. Tail(q) \in Seq(S) /\ Len(Tail(q)) = Len(q) - 1 /\ Len(q) \in Nat /\ Len(q) > 0
  OBVIOUS
<1>2. DOMAIN Tail(q) = 1 .. Len(Tail(q)) /\ DOMAIN q = 1 .. Len(q)
  BY <1>1
<1>3. \A i \in 1 .. Len(Tail(q)) : Tail(q)[i] = q[i + 1]
  OBVIOUS
<1> QED BY <1>1, <1>2, <1>3

LEMMA ConsItems ==
  ASSUME NEW S, NEW q \in Seq(S), q # <<>>, NEW x \in S
  PROVE  /\ DOMAIN (<<x>> \o Tail(q)) = DOMAIN q
         /\ \A i \in DOMAIN q : (<<x>> \o Tail(q))[i] = IF i = 1 THEN x ELSE q[i]
<1> DEFINE r == <<x>> \o Tail(q)
<1>1. Tail(q) \in Seq(S) /\ Len(Tail(q)) = Len(q) - 1 /\ Len(q) \in Nat /\ Len(q) > 0
  OBVIOUS
<1>2. r \in Seq(S) /\ Len(r) = Len(q)
  BY <1>1
<1>3. \A i \in 1 .. Len(r) : r[i] = IF i = 1 THEN x ELSE Tail(q)[i - 1]
  BY <1>1
<1>4. \A i \in 1 .. Len(Tail(q)) : Tail(q)[i] = q[i + 1]
  OBVIOUS
<1>5. DOMAIN r = 1 .. Len(r) /\ DOMAIN q = 1 .. Len(q)
  BY <1>2
<1> HIDE DEF r
<1>6. ASSUME NEW i \in DOMAIN q PROVE r[i] = IF i = 1 THEN x ELSE q[i]
  <2>1. CASE i = 1
    BY <1>2, <1>3, <1>5, <1>6, <2>1
  <2>2. CASE i # 1
    <3>1. i - 1 \in 1 .. Len(Tail(q)) /\ (i - 1) + 1 = i
      BY <1>1, <1>5, <1>6, <2>2
    <3> QED BY <1>2, <1>3, <1>4, <1>5, <1>6, <2>2, <3>1
  <2> QED BY <2>1, <2>2
<1> QED BY <1>2, <1>5, <1>6 DEF r

LEMMA AppendItems ==
  ASSUME NEW S, NEW q \in Seq(S), NEW x \in S
  PROVE  \A i, j \in DOMAIN Append(q, x) : i < j =>
            /\ i \in DOMAIN q /\ Append(q, x)[i] = q[i]
            /\ \/ j \in DOMAIN q /\ Append(q, x)[j] = q[j]
               \/ Append(q, x)[j] = x
<1>1. Append(q, x) \in Seq(S) /\ Len(Append(q, x)) = Len(q) + 1 /\ Len(q) \in Nat
  OBVIOUS
<1>2. DOMAIN Append(q, x) = 1 .. Len(q) + 1 /\ DOMAIN q = 1 .. Len(q)
  BY <1>1
<1>3. \A i \in 1 .. Len(q) : Append(q, x)[i] = q[i]
  OBVIOUS
<1>4. Append(q, x)[Len(q) + 1] = x
  OBVIOUS
<1> QED BY <1>1, <1>2, <1>3, <1>4

LEMMA MailAppended ==
  ASSUME NEW S, NEW q \in Seq(S), NEW x \in S, InOrder(q), Older(Range(q), {x})
  PROVE  InOrder(Append(q, x))
<1> DEFINE r == Append(q, x)
<1>1. \A i, j \in DOMAIN r : i < j =>
        /\ i \in DOMAIN q /\ r[i] = q[i]
        /\ (j \in DOMAIN q /\ r[j] = q[j]) \/ r[j] = x
  BY AppendItems
<1> HIDE DEF r
<1>2. ASSUME NEW i \in DOMAIN r, NEW j \in DOMAIN r, i < j PROVE Older({r[i]}, {r[j]})
  <2>1. i \in DOMAIN q /\ r[i] = q[i] /\ ((j \in DOMAIN q /\ r[j] = q[j]) \/ r[j] = x)
    BY <1>1, <1>2
  <2>2. CASE j \in DOMAIN q /\ r[j] = q[j]
    BY <1>2, <2>1, <2>2 DEF InOrder
  <2>3. CASE r[j] = x
    <3>1. q[i] \in Range(q)
      BY <2>1 DEF Range
    <3> QED BY <2>1, <2>3, <3>1 DEF Older
  <2> QED BY <2>1, <2>2, <2>3
<1> QED BY <1>2 DEF InOrder, r

LEMMA MailTail ==
  ASSUME NEW S, NEW q \in Seq(S), q # <<>>, InOrder(q)
  PROVE  InOrder(Tail(q)) /\ Older({Head(q)}, Range(Tail(q)))
<1> DEFINE r == Tail(q)
<1>1. /\ Head(q) = q[1] /\ 1 \in DOMAIN q
      /\ \A i \in DOMAIN r : i + 1 \in DOMAIN q /\ r[i] = q[i + 1]
      /\ DOMAIN r \subseteq Nat \ {0}
  BY TailItems
<1> HIDE DEF r
<1>2. ASSUME NEW i \in DOMAIN r, NEW j \in DOMAIN r, i < j PROVE Older({r[i]}, {r[j]})
  <2>1. i + 1 \in DOMAIN q /\ j + 1 \in DOMAIN q /\ i + 1 < j + 1
        /\ r[i] = q[i + 1] /\ r[j] = q[j + 1]
    BY <1>1, <1>2
  <2> QED BY <2>1 DEF InOrder
<1>3. ASSUME NEW j \in DOMAIN r PROVE Older({Head(q)}, {r[j]})
  <2>1. j + 1 \in DOMAIN q /\ 1 < j + 1 /\ r[j] = q[j + 1]
    BY <1>1, <1>3
  <2> QED BY <1>1, <2>1 DEF InOrder
<1>4. Older({Head(q)}, Range(r))
  BY <1>3 DEF Older, Range
<1> QED BY <1>2, <1>4 DEF InOrder, r

LEMMA BatchAppended ==
  ASSUME NEW S, NEW q \in Seq(S), NEW x \in S, BatchesInOrder(q),
         \A b \in Range(q) : Older(b.null, x.regular)
  PROVE  BatchesInOrder(Append(q, x))
<1> DEFINE r == Append(q, x)
<1>1. \A i, j \in DOMAIN r : i < j =>
        /\ i \in DOMAIN q /\ r[i] = q[i]
        /\ (j \in DOMAIN q /\ r[j] = q[j]) \/ r[j] = x
  BY AppendItems
<1> HIDE DEF r
<1>2. ASSUME NEW i \in DOMAIN r, NEW j \in DOMAIN r, i < j PROVE Older(r[i].null, r[j].regular)
  <2>1. i \in DOMAIN q /\ r[i] = q[i] /\ ((j \in DOMAIN q /\ r[j] = q[j]) \/ r[j] = x)
    BY <1>1, <1>2
  <2>2. CASE j \in DOMAIN q /\ r[j] = q[j]
    BY <1>2, <2>1, <2>2 DEF BatchesInOrder
  <2>3. CASE r[j] = x
    <3>1. q[i] \in Range(q)
      BY <2>1 DEF Range
    <3> QED BY <2>1, <2>3, <3>1
  <2> QED BY <2>1, <2>2, <2>3
<1> QED BY <1>2 DEF BatchesInOrder, r

LEMMA BatchTaken ==
  ASSUME NEW S, NEW q \in Seq(S), q # <<>>, BatchesInOrder(q),
         NEW x \in S, x.null \subseteq Head(q).null
  PROVE  /\ BatchesInOrder(Tail(q)) /\ BatchesInOrder(<<x>> \o Tail(q))
         /\ \A b \in Range(Tail(q)) : Older(Head(q).null, b.regular)
<1> DEFINE r == Tail(q)
           c == <<x>> \o Tail(q)
<1>1. /\ Head(q) = q[1] /\ 1 \in DOMAIN q
      /\ \A i \in DOMAIN r : i + 1 \in DOMAIN q /\ r[i] = q[i + 1]
      /\ DOMAIN r \subseteq Nat \ {0} /\ DOMAIN q \subseteq Nat \ {0}
  BY TailItems
<1>2. DOMAIN c = DOMAIN q /\ \A i \in DOMAIN q : c[i] = IF i = 1 THEN x ELSE q[i]
  BY ConsItems
<1> HIDE DEF r, c
<1>3. ASSUME NEW i \in DOMAIN r, NEW j \in DOMAIN r, i < j PROVE Older(r[i].null, r[j].regular)
  <2>1. i + 1 \in DOMAIN q /\ j + 1 \in DOMAIN q /\ i + 1 < j + 1
        /\ r[i] = q[i + 1] /\ r[j] = q[j + 1]
    BY <1>1, <1>3
  <2> QED BY <2>1 DEF BatchesInOrder
<1>4. ASSUME NEW j \in DOMAIN r PROVE Older(Head(q).null, r[j].regular)
  <2>1. j + 1 \in DOMAIN q /\ 1 < j + 1 /\ r[j] = q[j + 1]
    BY <1>1, <1>4
  <2> QED BY <1>1, <2>1 DEF BatchesInOrder
<1>5. ASSUME NEW i \in DOMAIN c, NEW j \in DOMAIN c, i < j PROVE Older(c[i].null, c[j].regular)
  <2>1. i \in DOMAIN q /\ j \in DOMAIN q /\ j # 1 /\ c[j] = q[j]
    BY <1>1, <1>2, <1>5
  <2>2. c[i].null \subseteq q[i].null
    BY <1>1, <1>2, <2>1
  <2>3. Older(q[i].null, q[j].regular)
    BY <1>5, <2>1 DEF BatchesInOrder
  <2> QED BY <2>1, <2>2, <2>3 DEF Older
<1>6. \A b \in Range(r) : Older(Head(q).null, b.regular)
  BY <1>4 DEF Range
<1>7. BatchesInOrder(r)
  BY <1>3 DEF BatchesInOrder
<1>8. BatchesInOrder(c)
  BY <1>5 DEF BatchesInOrder
<1> QED BY <1>6, <1>7, <1>8 DEF r, c

\* What waits for the edge of an epoch is for a time after that edge.  Once the
\* messages of an epoch have been sent, it is for a time after the next one.
Waits ==
  \A s \in Stargates : Remote(s) => \A e \in Waiting(s) :
    /\ gate[s].in_sync /\ gate[s].time <= e.t
    /\ EpochAfter(There(s)) <= e.t
    /\ SentEpoch(There(s)) => /\ training_finished[SourceMachine(s)]
                              /\ Onward(SourceMachine(s)) <= e.t

Mails(u) == Range(ctx[u].io) \cup Range(umailbox[u])
MailOrder(u) ==
  InOrder(ctx[u].io) /\ InOrder(umailbox[u]) /\ Older(Range(ctx[u].io), Range(umailbox[u]))
\* No message overtakes a null message that was sent before it.
Orders ==
  /\ \A u \in Universes : MailOrder(u)
  /\ \A p \in Machines \X Machines : BatchesInOrder(net[p])
  /\ \A u \in Universes, p \in Machines \X Machines : \A b \in Range(net[p]) :
       Older(Mails(u), b.regular)
  /\ \A u \in Universes, k \in Machines : Older(Mails(u), remote_mailbox[k])
  /\ \A p \in Machines \X Machines, k \in Machines : \A b \in Range(net[p]) :
       Older(b.null, remote_mailbox[k])

LEMMA OldTold ==
  ASSUME TypeOK, Scheduling, Routes, Kinds
  PROVE  /\ \A u \in Universes : \A f \in Mails(u) : Remote(f.sg) /\ IsNull(f) => f \in Told(f.sg)
         /\ \A p \in Machines \X Machines : \A b \in Range(net[p]) : \A f \in b.null :
              f \in Told(f.sg) /\ Remote(f.sg)
<1>1. ASSUME NEW u \in Universes, NEW f \in Mails(u), Remote(f.sg), IsNull(f)
      PROVE  f \in Told(f.sg)
  <2>1. Owned(u)
    BY ThreadFacts
  <2>2. Here(f.sg) = u
    BY <1>1, <2>1 DEF Owned, Mails, Dest, Here
  <2>3. ctx[u].io \in Seq(MessageType) /\ umailbox[u] \in Seq(MessageType)
    BY ContextSet DEF TypeOK, ThreadTypeOK, MessageTypeOK
  <2>4. f \in MessageType
    BY <1>1, <2>3 DEF Mails, Range
  <2> QED BY <1>1, <2>2, <2>4 DEF Mails, Told
<1>2. ASSUME NEW p \in Machines \X Machines, NEW b \in Range(net[p]), NEW f \in b.null
      PROVE  f \in Told(f.sg) /\ Remote(f.sg)
  <2>1. PICK n \in Machines, m \in Machines : p = <<n, m>>
    OBVIOUS
  <2>2. SourceMachine(f.sg) = n /\ TargetMachine(f.sg) = m /\ n # m
    BY <1>2, <2>1 DEF Routes, NetRoutes
  <2>3. b \in BatchType
    BY <1>2 DEF TypeOK, MessageTypeOK, Range
  <2>4. f \in MessageType /\ IsNull(f)
    BY <1>2, <2>1, <2>3 DEF BatchType, Kinds
  <2> QED BY <1>2, <2>1, <2>2, <2>4 DEF Told, Remote
<1> QED BY <1>1, <1>2

\* What a thread puts into the mailbox for other machines.
LEMMA OutboxFresh ==
  ASSUME TypeOK, Scheduling, Routes, Events, Promises, Kinds, NullsTold, Waits, [Next]_vars,
         NEW u \in Universes, Thread(u), NEW k \in Machines, NEW e \in remote_mailbox'[k],
         TypeOK', Soon(e)
  PROVE  /\ SourceMachine(e.sg) = k /\ Remote(e.sg)
         /\ e \in remote_mailbox[k] \/ \A f \in Told(e.sg) : f.t <= e.t
<1> DEFINE s == e.sg
<1>1. SourceMachine(s) = k /\ Remote(s)
  BY NextRoutes DEF Routes, NetRoutes, SourceMachine, TargetMachine, Remote
<1>2. e \in MessageType /\ s \in Stargates /\ e.t \in Nat
  BY MessageElim DEF TypeOK, MessageTypeOK
<1>3. /\ There(s) \in Universes /\ min_delay[s] \in Nat
      /\ simclock[source[s]] \in Nat /\ gate[s].time \in Nat
  BY <1>1, <1>2, RemoteEnds
<1> HIDE DEF s
<1>4. e \in remote_mailbox[k] \/ e \in global_binque[There(s)] \/ JustWritten(s, e)
  BY <1>1, <1>2, ThreadMoves DEF s
<1>5. ASSUME e \in global_binque[There(s)] \/ JustWritten(s, e) PROVE gate[s].time <= e.t
  <2>1. CASE e \in global_binque[There(s)]
    <3>1. e \in Waiting(s)
      BY <1>2, <2>1 DEF Waiting, s
    <3> QED BY <1>1, <1>2, <3>1 DEF Waits
  <2>2. CASE JustWritten(s, e)
    BY <1>2, <1>3, <2>2 DEF JustWritten, Promises
  <2> QED BY <1>5, <2>1, <2>2
<1>6. ASSUME gate[s].time <= e.t, NEW f \in Told(s) PROVE f.t <= e.t
  <2>1. f.t <= gate[s].time
    BY <1>1, <1>2 DEF NullsTold
  <2>2. f.t \in Nat
    BY MessageElim DEF Told
  <2> QED BY <1>2, <1>3, <1>6, <2>1, <2>2
<1> QED BY <1>1, <1>4, <1>5, <1>6 DEF s

LEMMA ThreadMail ==
  ASSUME TypeOK, Scheduling, Wakeups, NotifiesInside, NEW u \in Universes, Thread(u),
         NEW v \in Universes
  PROVE  \/ ctx'[v].io = ctx[v].io /\ umailbox'[v] = umailbox[v]
         \/ \E x \in MessageType : /\ IsNull(x) /\ ~Remote(x.sg)
                                   /\ ctx'[v].io = ctx[v].io /\ umailbox'[v] = Append(umailbox[v], x)
         \/ ctx[v].io = <<>> /\ ctx'[v].io = umailbox[v] /\ umailbox'[v] = <<>>
         \/ /\ ctx[v].io # <<>> /\ ctx'[v].io = Tail(ctx[v].io)
            /\ umailbox'[v] = umailbox[v]
<1>0. /\ umailbox \in [Universes -> Seq(MessageType)] /\ ctx \in [Universes -> ContextType]
      /\ gate \in [Stargates -> GateType]
  BY DEF TypeOK, MessageTypeOK, ThreadTypeOK, TimelineTypeOK
<1>1. CASE Notify(u)
  <2>1. PICK r \in ctx[u].out :
          /\ IsFirst(r, ctx[u].out)
          /\ umailbox' = [umailbox EXCEPT ![universe[target[r]]] =
                           Append(@, Message(r, 0, gate[r].time))]
          /\ ctx' = [ctx EXCEPT ![u].out = @ \ {r}]
    BY <1>1 DEF Notify
  <2>2. r \in Stargates /\ ~Remote(r)
    BY <1>0, <1>1, <2>1, ContextSet DEF NotifiesInside, Notify
  <2> DEFINE x == Message(r, 0, gate[r].time)
  <2>3. x \in MessageType
    BY <1>0, <2>2, MessageIntro DEF GateType
  <2>4. IsNull(x) /\ x.sg = r
    BY DEF Message, IsNull
  <2>5. ctx'[v].io = ctx[v].io
    BY <1>0, <2>1 DEF ContextType
  <2>6. umailbox'[v] = umailbox[v] \/ umailbox'[v] = Append(umailbox[v], x)
    BY <1>0, <2>1
  <2> HIDE DEF x
  <2> QED BY <2>2, <2>3, <2>4, <2>5, <2>6
<1>2. CASE PollMail(u) \/ WaitMail(u) \/ DrainMail(u)
  <2>1. /\ ctx' = [ctx EXCEPT ![u].io = umailbox[u]]
        /\ umailbox' = [umailbox EXCEPT ![u] = <<>>]
        /\ pc[u] \in {"update", "sched", "drain"}
    BY <1>2 DEF PollMail, WaitMail, DrainMail, TakeMail
  <2>2. ctx[u].io = <<>>
    BY <2>1 DEF Wakeups, WakeupOK, HasMail, ScanFor
  <2>3. ctx'[u].io = umailbox[u] /\ umailbox'[u] = <<>>
    BY <1>0, <2>1 DEF ContextType
  <2>4. v # u => ctx'[v] = ctx[v] /\ umailbox'[v] = umailbox[v]
    BY <1>0, <2>1
  <2> QED BY <2>2, <2>3, <2>4
<1>3. CASE HandleMail(u)
  <2>1. ctx[u].io # <<>> /\ ctx' = [ctx EXCEPT ![u].io = Tail(@)]
    BY <1>3 DEF HandleMail
  <2>2. umailbox' = umailbox
    BY <1>3 DEF HandleMail, mailVars
  <2>3. ctx'[u].io = Tail(ctx[u].io) /\ (v # u => ctx'[v] = ctx[v])
    BY <1>0, <2>1 DEF ContextType
  <2> QED BY <2>1, <2>2, <2>3
<1>4. CASE ~Notify(u) /\ ~PollMail(u) /\ ~WaitMail(u) /\ ~DrainMail(u) /\ ~HandleMail(u)
  <2>1. umailbox' = umailbox
    BY <1>4, ThreadFrame
  <2>2. ctx'[u].io = ctx[u].io
    BY <1>4, IoStays
  <2>3. ASSUME v # u PROVE ctx'[v] = ctx[v]
    BY <1>0, <2>3 DEF Thread, Dispatch, Collect, SendEpoch, Await, TrainLocal,
           TrainGlobal, OpenTimeline, Opened, Pick, ReadTime, ReceiveMessages, EndScan, RunEvent,
           RunEnd, UpdateTime, SetTime, Interrupted, EndMail, AdvanceWindow, threadVars,
           Notify, PollMail, WaitMail, DrainMail, TakeMail, HandleMail
  <2> QED BY <2>1, <2>2, <2>3
<1> QED BY <1>1, <1>2, <1>3, <1>4

LEMMA SoonStays == \A e : (Soon(e)' <=> Soon(e)) /\ (IsNull(e)' <=> IsNull(e))
BY DEF Soon, IsNull

LEMMA MailStep ==
  ASSUME TypeOK, Scheduling, Wakeups, NotifiesInside, Orders, NEW u \in Universes, Thread(u),
         NEW v \in Universes
  PROVE  /\ MailOrder(v)'
         /\ \A f \in Mails(v)' : f \in Mails(v) \/ ~Remote(f.sg)
<1>0. /\ ctx[v].io \in Seq(MessageType) /\ umailbox[v] \in Seq(MessageType)
      /\ MailOrder(v)
  BY ContextSet DEF TypeOK, MessageTypeOK, ThreadTypeOK, Orders
<1> DEFINE Order(q, r) == InOrder(q) /\ InOrder(r) /\ Older(Range(q), Range(r))
<1>1. Order(ctx[v].io, umailbox[v])
  BY <1>0 DEF MailOrder
<1>2. Order(ctx'[v].io, umailbox'[v])
      /\ \A f \in Range(ctx'[v].io) \cup Range(umailbox'[v]) : f \in Mails(v) \/ ~Remote(f.sg)
  <2>1. CASE ctx'[v].io = ctx[v].io /\ umailbox'[v] = umailbox[v]
    BY <1>1, <2>1 DEF Mails
  <2>2. ASSUME NEW x \in MessageType, IsNull(x), ~Remote(x.sg),
               ctx'[v].io = ctx[v].io, umailbox'[v] = Append(umailbox[v], x)
        PROVE  Order(ctx'[v].io, umailbox'[v])
           /\ \A f \in Range(ctx'[v].io) \cup Range(umailbox'[v]) : f \in Mails(v) \/ ~Remote(f.sg)
    <3>1. \A y \in Range(umailbox'[v]) : y \in Range(umailbox[v]) \/ y = x
      BY <1>0, <2>2, AppendRange
    <3>2. Older(Range(umailbox[v]), {x})
      BY <2>2 DEF Older, Soon
    <3>3. InOrder(umailbox'[v])
      BY <1>0, <1>1, <2>2, <3>2, MailAppended
    <3>4. Older(Range(ctx[v].io), Range(umailbox'[v]))
      BY <1>1, <2>2, <3>1 DEF Older, Soon
    <3> QED BY <1>1, <2>2, <3>1, <3>3, <3>4 DEF Mails
  <2>3. CASE ctx[v].io = <<>> /\ ctx'[v].io = umailbox[v] /\ umailbox'[v] = <<>>
    <3>1. InOrder(<<>>) /\ Older(Range(umailbox[v]), Range(<<>>))
      BY EmptyRange DEF InOrder, Older
    <3> QED BY <1>1, <2>3, <3>1, EmptyRange DEF Mails
  <2>4. CASE ctx[v].io # <<>> /\ ctx'[v].io = Tail(ctx[v].io) /\ umailbox'[v] = umailbox[v]
    <3>1. InOrder(Tail(ctx[v].io))
      BY <1>0, <1>1, <2>4, MailTail
    <3>2. Range(Tail(ctx[v].io)) \subseteq Range(ctx[v].io)
      BY <1>0, <2>4, RangeFacts
    <3> QED BY <1>1, <2>4, <3>1, <3>2 DEF Mails, Older
  <2> QED BY <2>1, <2>2, <2>3, <2>4, ThreadMail
<1>3. \A q, r : (Order(q, r) <=> InOrder(q) /\ InOrder(r) /\ Older(Range(q), Range(r)))
  OBVIOUS
<1> HIDE DEF Order
<1>4. MailOrder(v)'
  BY <1>2, <1>3, SoonStays DEF MailOrder, InOrder, Older, Soon, IsNull
<1> QED BY <1>2, <1>4 DEF Mails

LEMMA ThreadOrders ==
  ASSUME TypeOK, TypeOK', Meeting, Scheduling, Wakeups, NotifiesInside, Routes, Events, Promises,
         Kinds, NullsTold, Waits, Orders, [Next]_vars, NEW u \in Universes, Thread(u)
  PROVE  Orders'
<1>1. net' = net
  BY ThreadFrame
<1>2. \A v \in Universes : MailOrder(v)' /\ \A f \in Mails(v)' : f \in Mails(v) \/ ~Remote(f.sg)
  BY MailStep
<1>3. \A p \in Machines \X Machines : \A b \in Range(net[p]) : \A e \in b.regular \cup b.null : Remote(e.sg)
  <2> SUFFICES ASSUME NEW n \in Machines, NEW m \in Machines, NEW b \in Range(net[<<n, m>>]),
                      NEW e \in b.regular \cup b.null
               PROVE  Remote(e.sg)
    OBVIOUS
  <2> QED BY DEF Routes, NetRoutes, Remote
<1>4. ASSUME NEW v \in Universes, NEW p \in Machines \X Machines, NEW b \in Range(net'[p])
      PROVE  Older(Mails(v)', b.regular)
  <2>1. b \in Range(net[p]) /\ Older(Mails(v), b.regular)
    BY <1>1, <1>4 DEF Orders
  <2> QED BY <1>2, <1>3, <2>1 DEF Older
<1>5. ASSUME NEW v \in Universes, NEW k \in Machines, NEW e \in remote_mailbox'[k],
             NEW f \in Mails(v)', IsNull(f), Soon(e), f.sg = e.sg
      PROVE  f.t <= e.t
  <2>1. /\ SourceMachine(e.sg) = k /\ Remote(e.sg)
        /\ e \in remote_mailbox[k] \/ \A x \in Told(e.sg) : x.t <= e.t
    BY <1>5, OutboxFresh
  <2>2. f \in Mails(v)
    BY <1>2, <1>5, <2>1
  <2>3. f \in Told(e.sg)
    BY <1>5, <2>1, <2>2, OldTold
  <2> QED BY <1>5, <2>1, <2>2, <2>3 DEF Orders, Older
<1>6. ASSUME NEW p \in Machines \X Machines, NEW k \in Machines, NEW b \in Range(net'[p]),
             NEW e \in remote_mailbox'[k], NEW f \in b.null, IsNull(f), Soon(e), f.sg = e.sg
      PROVE  f.t <= e.t
  <2>1. /\ SourceMachine(e.sg) = k /\ Remote(e.sg)
        /\ e \in remote_mailbox[k] \/ \A x \in Told(e.sg) : x.t <= e.t
    BY <1>6, OutboxFresh
  <2>2. b \in Range(net[p])
    BY <1>1, <1>6
  <2>3. f \in Told(e.sg)
    BY <1>6, <2>2, OldTold
  <2> QED BY <1>6, <2>1, <2>2, <2>3 DEF Orders, Older
<1>7. \A p \in Machines \X Machines : BatchesInOrder(net'[p])
  BY <1>1 DEF Orders
<1>8. \A v \in Universes : MailOrder(v)'
  BY <1>2
<1>9. \A v \in Universes, k \in Machines : Older(Mails(v)', remote_mailbox'[k])
  BY <1>5 DEF Older
<1>10. \A p \in Machines \X Machines, k \in Machines : \A b \in Range(net'[p]) :
          Older(b.null, remote_mailbox'[k])
  BY <1>6 DEF Older
<1>11. \A v \in Universes, p \in Machines \X Machines : \A b \in Range(net'[p]) :
          Older(Mails(v)', b.regular)
  BY <1>4
<1>12. /\ \A p : BatchesInOrder(net[p])' <=> BatchesInOrder(net'[p])
       /\ \A F, E : Older(F, E)' <=> Older(F, E)
  BY DEF BatchesInOrder, Older, Soon, IsNull
<1> QED BY <1>7, <1>8, <1>9, <1>10, <1>11, <1>12 DEF Orders

LEMMA OrdersKept ==
  ASSUME Orders, UNCHANGED <<umailbox, net, remote_mailbox>>,
         \A v \in Universes : ctx'[v].io = ctx[v].io
  PROVE  Orders'
<1>1. \A v \in Universes : Mails(v)' = Mails(v)
  BY DEF Mails
<1>2. \A v \in Universes : MailOrder(v)'
  BY DEF Orders, MailOrder, InOrder, Older, Soon, IsNull
<1>3. \A p : BatchesInOrder(net[p])' <=> BatchesInOrder(net[p])
  BY DEF BatchesInOrder, Older, Soon, IsNull
<1> QED BY <1>1, <1>2, <1>3 DEF Orders, Older, Soon, IsNull

LEMMA WriterOrders ==
  ASSUME TypeOK, Routes, Kinds, Orders, NEW m \in Machines, Writer(m)
  PROVE  Orders'
<1> DEFINE to(k) == {e \in remote_mailbox[m] : Counted(e) /\ TargetMachine(e.sg) = k}
           batch(k) == [regular |-> {e \in to(k) : ~IsNull(e)},
                        null    |-> {e \in to(k) : IsNull(e)}]
<1>1. /\ net' = [mn \in Machines \X Machines |->
                   IF mn[1] = m /\ to(mn[2]) # {}
                   THEN Append(net[mn], batch(mn[2])) ELSE net[mn]]
      /\ remote_mailbox' = [remote_mailbox EXCEPT ![m] = {}]
  BY DEF Writer
<1>2. UNCHANGED <<umailbox, ctx>>
  BY DEF Writer, mailVars, threadVars
<1>3. ASSUME NEW k \in Machines
      PROVE  /\ batch(k) \in BatchType
             /\ batch(k).regular \subseteq remote_mailbox[m]
             /\ batch(k).null \subseteq remote_mailbox[m]
  <2>1. remote_mailbox[m] \subseteq MessageType
    BY DEF TypeOK, MessageTypeOK
  <2> QED BY <2>1 DEF BatchType
<1> HIDE DEF batch, to
<1>4. \A k \in Machines : remote_mailbox'[k] = IF k = m THEN {} ELSE remote_mailbox[k]
  BY <1>1 DEF TypeOK, MessageTypeOK
<1>5. ASSUME NEW n \in Machines, NEW k \in Machines
      PROVE  /\ net[<<n, k>>] \in Seq(BatchType) /\ <<n, k>> \in Machines \X Machines
             /\ \/ net'[<<n, k>>] = net[<<n, k>>]
                \/ n = m /\ net'[<<n, k>>] = Append(net[<<n, k>>], batch(k))
  <2>1. <<n, k>> \in Machines \X Machines /\ <<n, k>>[1] = n /\ <<n, k>>[2] = k
    OBVIOUS
  <2>2. net[<<n, k>>] \in Seq(BatchType)
    BY <2>1 DEF TypeOK, MessageTypeOK
  <2> QED BY <1>1, <2>1, <2>2
<1>6. ASSUME NEW n \in Machines, NEW k \in Machines, NEW b \in Range(net'[<<n, k>>])
      PROVE  b \in Range(net[<<n, k>>]) \/ (n = m /\ b = batch(k))
  <2>1. \A x \in Range(Append(net[<<n, k>>], batch(k))) : x \in Range(net[<<n, k>>]) \/ x = batch(k)
    BY <1>3, <1>5, AppendRange
  <2> QED BY <1>5, <1>6, <2>1
<1>7. ASSUME NEW n \in Machines, NEW k \in Machines PROVE BatchesInOrder(net'[<<n, k>>])
  <2>1. <<n, k>> \in Machines \X Machines /\ BatchesInOrder(net[<<n, k>>])
    BY <1>5 DEF Orders
  <2>2. \A b \in Range(net[<<n, k>>]) : Older(b.null, remote_mailbox[m])
    BY <2>1 DEF Orders
  <2>3. \A b \in Range(net[<<n, k>>]) : Older(b.null, batch(k).regular)
    BY <1>3, <2>2 DEF Older
  <2>4. net[<<n, k>>] \in Seq(BatchType) /\ batch(k) \in BatchType
    BY <1>3, <1>5
  <2>5. BatchesInOrder(Append(net[<<n, k>>], batch(k)))
    BY <2>1, <2>3, <2>4, BatchAppended
  <2> QED BY <1>5, <2>1, <2>5
<1>8. ASSUME NEW v \in Universes, NEW n \in Machines, NEW k \in Machines,
             NEW b \in Range(net'[<<n, k>>])
      PROVE  Older(Mails(v), b.regular)
  <2>1. CASE b \in Range(net[<<n, k>>])
    BY <1>5, <2>1 DEF Orders
  <2>2. CASE b = batch(k)
    <3>1. Older(Mails(v), remote_mailbox[m])
      BY DEF Orders
    <3> QED BY <1>3, <2>2, <3>1 DEF Older
  <2> QED BY <1>6, <1>8, <2>1, <2>2
<1>9. ASSUME NEW v \in Universes, NEW k \in Machines PROVE Older(Mails(v), remote_mailbox'[k])
  BY <1>4 DEF Orders, Older
<1>10. ASSUME NEW n \in Machines, NEW k \in Machines, NEW b \in Range(net'[<<n, k>>]),
              NEW j \in Machines
       PROVE  Older(b.null, remote_mailbox'[j])
  <2>1. CASE j = m
    BY <1>4, <2>1 DEF Older
  <2>2. CASE j # m
    <3>1. remote_mailbox'[j] = remote_mailbox[j]
      BY <1>4, <2>2
    <3>2. CASE b \in Range(net[<<n, k>>])
      BY <1>5, <3>1, <3>2 DEF Orders
    <3>3. CASE b = batch(k)
      <4>1. ASSUME NEW f \in b.null, NEW e \in remote_mailbox[j] PROVE f.sg # e.sg
        <5>1. f \in remote_mailbox[m]
          BY <1>3, <3>3, <4>1
        <5> QED BY <2>2, <4>1, <5>1 DEF Routes, NetRoutes
      <4> QED BY <3>1, <4>1 DEF Older
    <3> QED BY <1>6, <1>10, <3>2, <3>3
  <2> QED BY <2>1, <2>2
<1>11. \A v \in Universes : MailOrder(v)' /\ Mails(v)' = Mails(v)
  BY <1>2 DEF Orders, MailOrder, InOrder, Older, Soon, IsNull, Mails
<1>12. /\ \A p : BatchesInOrder(net[p])' <=> BatchesInOrder(net'[p])
       /\ \A F, E : Older(F, E)' <=> Older(F, E)
  BY DEF BatchesInOrder, Older, Soon, IsNull
<1>13. \A p \in Machines \X Machines : BatchesInOrder(net'[p])
  BY <1>7
<1>14. \A v \in Universes, p \in Machines \X Machines : \A b \in Range(net'[p]) :
          Older(Mails(v), b.regular)
  BY <1>8
<1>15. \A p \in Machines \X Machines, j \in Machines : \A b \in Range(net'[p]) :
          Older(b.null, remote_mailbox'[j])
  BY <1>10
<1> QED BY <1>9, <1>11, <1>12, <1>13, <1>14, <1>15 DEF Orders

LEMMA ReaderOrders ==
  ASSUME TypeOK, Scheduling, Routes, Kinds, Orders, NEW n \in Machines, NEW m \in Machines,
         Reader(n, m)
  PROVE  Orders'
<1> DEFINE p == <<n, m>>
           q == net[p]
           h == Head(q)
<1>1. PICK x \in MessageType, r \in BatchType :
         /\ q \in Seq(BatchType) /\ q # <<>>
         /\ x \in h.regular \/ (h.regular = {} /\ x \in h.null)
         /\ r.regular = h.regular \ {x} /\ r.null \subseteq h.null
         /\ (net'[p] = Tail(q) /\ r.regular = {}) \/ net'[p] = <<r>> \o Tail(q)
         /\ \A o \in Machines \X Machines : o # p => net'[o] = net[o]
         /\ IF IsNull(x) \/ rgate[x.sg].in_sync
            THEN /\ \A v \in Universes : umailbox'[v] =
                      IF v = Here(x.sg) THEN Append(umailbox[v], x) ELSE umailbox[v]
                 /\ mailbox' = mailbox
            ELSE /\ umailbox' = umailbox
                 /\ \A s \in Stargates : mailbox'[s] =
                      IF s = x.sg THEN mailbox[s] \cup {x} ELSE mailbox[s]
         /\ UNCHANGED <<tmlnVars, gateVars, binVars, remote_mailbox, windowVars, trainVars,
                        threadVars, sent>>
  BY BatchRead
<1>2. p \in Machines \X Machines /\ h \in Range(q) /\ Range(Tail(q)) \subseteq Range(q)
  BY <1>1, RangeFacts
<1>3. SourceMachine(x.sg) = n /\ TargetMachine(x.sg) = m /\ Remote(x.sg)
  BY <1>1, <1>2 DEF Routes, NetRoutes, Remote
<1>4. ctx' = ctx /\ remote_mailbox' = remote_mailbox
  BY <1>1 DEF threadVars
<1>5. /\ BatchesInOrder(q)
      /\ BatchesInOrder(Tail(q)) /\ BatchesInOrder(<<r>> \o Tail(q))
      /\ \A b \in Range(Tail(q)) : Older(h.null, b.regular)
  <2>1. BatchesInOrder(q)
    BY <1>2 DEF Orders
  <2> HIDE DEF q
  <2> QED BY <1>1, <2>1, BatchTaken
<1>6. \A b \in Range(net'[p]) : b = r \/ b \in Range(Tail(q))
  <2>1. \A b \in Range(<<r>> \o Tail(q)) : b = r \/ b \in Range(Tail(q))
    <3> HIDE DEF q
    <3>1. /\ DOMAIN (<<r>> \o Tail(q)) = DOMAIN q
          /\ \A i \in DOMAIN q : (<<r>> \o Tail(q))[i] = IF i = 1 THEN r ELSE q[i]
      BY <1>1, ConsItems
    <3>2. DOMAIN Tail(q) = 1 .. Len(q) - 1 /\ DOMAIN q = 1 .. Len(q) /\ Len(q) \in Nat
      BY <1>1
    <3>3. \A i \in 1 .. Len(q) - 1 : Tail(q)[i] = q[i + 1]
      BY <1>1
    <3>4. ASSUME NEW i \in DOMAIN q, i # 1 PROVE q[i] \in Range(Tail(q))
      <4>1. i - 1 \in DOMAIN Tail(q) /\ Tail(q)[i - 1] = q[i]
        BY <3>2, <3>3, <3>4
      <4> QED BY <4>1 DEF Range
    <3> QED BY <3>1, <3>4 DEF Range
  <2> QED BY <1>1, <2>1
<1> HIDE DEF p, q, h
\* every batch is part of an old one
<1>7. ASSUME NEW o \in Machines \X Machines, NEW b \in Range(net'[o])
      PROVE  \E c \in Range(net[o]) : b.regular \subseteq c.regular /\ b.null \subseteq c.null
  <2>1. CASE o # p
    BY <1>1, <1>7, <2>1
  <2>2. CASE o = p
    <3>1. b = r \/ b \in Range(Tail(q))
      BY <1>6, <1>7, <2>2
    <3>2. h \in Range(net[o]) /\ Range(Tail(q)) \subseteq Range(net[o])
      BY <1>2, <2>2 DEF q
    <3> QED BY <1>1, <3>1, <3>2
  <2> QED BY <2>1, <2>2
<1>8. \A o \in Machines \X Machines : BatchesInOrder(net'[o])
  BY <1>1, <1>5 DEF Orders
\* the message is later than the null messages before it, and earlier than
\* what follows it
<1>9. ASSUME NEW v \in Universes PROVE Older(Mails(v), {x})
  <2>1. CASE x \in h.regular
    <3>1. Older(Mails(v), h.regular)
      BY <1>2 DEF Orders, q
    <3> QED BY <2>1, <3>1 DEF Older
  <2>2. CASE x \in h.null
    <3>1. IsNull(x)
      BY <1>2, <2>2 DEF Kinds, q, p
    <3> QED BY <3>1 DEF Older, Soon
  <2> QED BY <1>1, <2>1, <2>2
<1>10. ASSUME NEW o \in Machines \X Machines, NEW b \in Range(net'[o]) PROVE Older({x}, b.regular)
  <2>1. CASE IsNull(x) /\ o = p
    <3>1. ~(x \in h.regular)
      BY <1>2, <2>1 DEF Kinds, q, p, Soon
    <3>2. h.regular = {} /\ x \in h.null
      BY <1>1, <3>1
    <3>3. b = r \/ b \in Range(Tail(q))
      BY <1>6, <1>10, <2>1
    <3>4. r.regular = {}
      BY <1>1, <3>2
    <3> QED BY <1>5, <3>2, <3>3, <3>4 DEF Older
  <2>2. CASE ~IsNull(x)
    BY <2>2 DEF Older
  <2>3. CASE o # p
    <3>1. PICK c \in Range(net[o]) : b.regular \subseteq c.regular
      BY <1>7, <1>10
    <3>2. ASSUME NEW e \in c.regular, e.sg = x.sg PROVE FALSE
      <4>1. PICK j \in Machines, k \in Machines : o = <<j, k>>
        OBVIOUS
      <4>2. SourceMachine(e.sg) = j /\ TargetMachine(e.sg) = k
        BY <3>2, <4>1 DEF Routes, NetRoutes
      <4> QED BY <1>3, <2>3, <3>2, <4>1, <4>2 DEF p
    <3> QED BY <3>1, <3>2 DEF Older
  <2> QED BY <2>1, <2>2, <2>3
<1>11. ASSUME NEW k \in Machines PROVE Older({x}, remote_mailbox[k])
  <2>1. CASE IsNull(x)
    <3>1. ~(x \in h.regular)
      BY <1>2, <2>1 DEF Kinds, q, p, Soon
    <3>2. Older(h.null, remote_mailbox[k])
      BY <1>2 DEF Orders, q
    <3> QED BY <1>1, <3>1, <3>2 DEF Older
  <2>2. CASE ~IsNull(x)
    BY <2>2 DEF Older
  <2> QED BY <2>1, <2>2
<1>12. ASSUME NEW v \in Universes
       PROVE  /\ umailbox'[v] = umailbox[v] \/ umailbox'[v] = Append(umailbox[v], x)
              /\ umailbox[v] \in Seq(MessageType) /\ MailOrder(v)
              /\ \A y \in Range(umailbox'[v]) : y \in Range(umailbox[v]) \/ y = x
              /\ Mails(v)' \subseteq Mails(v) \cup {x}
  <2>1. umailbox'[v] = umailbox[v] \/ umailbox'[v] = Append(umailbox[v], x)
    BY <1>1
  <2>2. umailbox[v] \in Seq(MessageType)
    BY DEF TypeOK, MessageTypeOK
  <2>3. \A y \in Range(umailbox'[v]) : y \in Range(umailbox[v]) \/ y = x
    BY <2>1, <2>2, AppendRange
  <2> QED BY <1>4, <2>1, <2>2, <2>3 DEF Orders, Mails
<1>13. ASSUME NEW v \in Universes
       PROVE  InOrder(ctx[v].io) /\ InOrder(umailbox'[v])
              /\ Older(Range(ctx[v].io), Range(umailbox'[v]))
  <2>1. Older(Range(ctx[v].io), {x}) /\ Older(Range(umailbox[v]), {x})
    BY <1>9 DEF Mails, Older
  <2>2. InOrder(umailbox'[v])
    BY <1>12, <2>1, MailAppended DEF MailOrder
  <2>3. Older(Range(ctx[v].io), Range(umailbox'[v]))
    BY <1>12, <2>1 DEF MailOrder, Older
  <2> QED BY <1>12, <2>2, <2>3 DEF MailOrder
<1>14. /\ \A o : BatchesInOrder(net[o])' <=> BatchesInOrder(net'[o])
       /\ \A F, E : Older(F, E)' <=> Older(F, E)
  BY DEF BatchesInOrder, Older, Soon, IsNull
<1>15. \A v \in Universes : MailOrder(v)'
  BY <1>4, <1>13 DEF MailOrder, InOrder, Older, Soon, IsNull
<1>16. ASSUME NEW v \in Universes, NEW o \in Machines \X Machines, NEW b \in Range(net'[o])
       PROVE  Older(Mails(v)', b.regular)
  <2>1. PICK c \in Range(net[o]) : b.regular \subseteq c.regular
    BY <1>7, <1>16
  <2>2. Older(Mails(v), c.regular)
    BY DEF Orders
  <2>3. Older({x}, b.regular)
    BY <1>10, <1>16
  <2> QED BY <1>12, <2>1, <2>2, <2>3 DEF Older
<1>17. ASSUME NEW v \in Universes, NEW k \in Machines PROVE Older(Mails(v)', remote_mailbox[k])
  <2>1. Older(Mails(v), remote_mailbox[k])
    BY DEF Orders
  <2> QED BY <1>11, <1>12, <2>1 DEF Older
<1>18. ASSUME NEW o \in Machines \X Machines, NEW k \in Machines, NEW b \in Range(net'[o])
       PROVE  Older(b.null, remote_mailbox[k])
  <2>1. PICK c \in Range(net[o]) : b.null \subseteq c.null
    BY <1>7, <1>18
  <2>2. Older(c.null, remote_mailbox[k])
    BY DEF Orders
  <2> QED BY <2>1, <2>2 DEF Older
<1> QED BY <1>4, <1>8, <1>14, <1>15, <1>16, <1>17, <1>18 DEF Orders

LEMMA NextOrders ==
  ASSUME TypeOK, TypeOK', Meeting, Scheduling, Wakeups, NotifiesInside, Routes, Events, Promises,
         Kinds, NullsTold, Waits, Orders, [Next]_vars
  PROVE  Orders'
<1>1. CASE \E u \in Universes : Thread(u)
  BY <1>1, ThreadOrders
<1>2. CASE \E m \in Machines : Writer(m)
  BY <1>2, WriterOrders
<1>3. CASE \E n, m \in Machines : Reader(n, m)
  BY <1>3, ReaderOrders
<1>4. ASSUME NEW m \in Machines, Trained(m) PROVE Orders'
  <2>1. UNCHANGED <<umailbox, net, remote_mailbox>> /\ \A v \in Universes : ctx'[v].io = ctx[v].io
    BY <1>4, TrainingEnds DEF netVars
  <2> QED BY <2>1, OrdersKept
<1>5. CASE /\ (\E m \in Machines : Barrier(m)) \/ Collective \/ UNCHANGED vars
           /\ ~(\E m \in Machines : Writer(m) \/ Trained(m)) /\ ~(\E n, m \in Machines : Reader(n, m))
  <2>1. UNCHANGED <<umailbox, net, remote_mailbox, ctx>>
    BY <1>5, OtherFrame DEF netVars
  <2> QED BY <2>1, OrdersKept
<1> QED BY <1>1, <1>2, <1>3, <1>4, <1>5 DEF Next, Finished

LEMMA InitOrders == Init => Orders
<1> SUFFICES ASSUME Init PROVE Orders
  OBVIOUS
<1>1. /\ \A p \in Machines \X Machines : net[p] = <<>>
      /\ \A u \in Universes : umailbox[u] = <<>> /\ ctx[u].io = <<>>
  BY DEF Init, Idle
<1>2. \A u \in Universes : Mails(u) = {} /\ MailOrder(u)
  BY <1>1, EmptyRange DEF Mails, MailOrder, InOrder, Older
<1>3. \A p \in Machines \X Machines : BatchesInOrder(net[p]) /\ Range(net[p]) = {}
  BY <1>1, EmptyRange DEF BatchesInOrder
<1> QED BY <1>2, <1>3 DEF Orders, Older

-----------------------------------------------------------------------------
(* What the end of a training round does to both ends of a stargate.       *)

\* What the end of a round does to the two ends of a stargate between machines.
LEMMA RemoteReclassed ==
  ASSUME TypeOK, NEW M \in SUBSET Machines, NEW th \in [thresh : Nat, training : BOOLEAN],
         NEW now \in Nat, Reclassifies(M, th, now), NEW s \in Stargates, Remote(s)
  PROVE  /\ SourceMachine(s) \notin M => gate'[s] = gate[s]
         /\ TargetMachine(s) \notin M => rgate'[s] = rgate[s]
         /\ TargetMachine(s) \in M =>
              /\ rgate'[s].in_sync \in BOOLEAN
              /\ rgate'[s].time = rgate[s].time \/ rgate'[s].time = now + min_delay[s]
              /\ ~rgate'[s].in_sync /\ rgate[s].in_sync => rgate'[s].time = now + min_delay[s]
              /\ ~rgate[s].in_sync => rgate'[s].time = rgate[s].time
<1> DEFINE A == {r \in RemoteGates : SourceMachine(r) \in M}
           B == {r \in RemoteGates : TargetMachine(r) \in M}
<1>1. gate' = Classify(gate, A, th.thresh, now) /\ rgate' = Classify(rgate, B, th.thresh, now)
  BY DEF Reclassifies, ClassifyGlobal
<1>2. /\ s \in A <=> SourceMachine(s) \in M
      /\ s \in B <=> TargetMachine(s) \in M
  BY DEF RemoteGates
<1> HIDE DEF A, B
<1>3. s \notin A => gate'[s] = gate[s]
  BY <1>1 DEF Classify
<1>4. s \notin B => rgate'[s] = rgate[s]
  BY <1>1 DEF Classify
<1>5. rgate[s] \in GateType
  BY DEF TypeOK, TimelineTypeOK
<1>6. s \in B => rgate'[s] = IF min_delay[s] < th.thresh
          THEN [in_sync |-> FALSE,
                time    |-> IF rgate[s].in_sync THEN now + min_delay[s] ELSE rgate[s].time]
          ELSE [rgate[s] EXCEPT !.in_sync = TRUE]
  BY <1>1 DEF Classify
<1>7. s \in B =>
        /\ rgate'[s].in_sync \in BOOLEAN
        /\ rgate'[s].time = rgate[s].time \/ rgate'[s].time = now + min_delay[s]
        /\ ~rgate'[s].in_sync /\ rgate[s].in_sync => rgate'[s].time = now + min_delay[s]
        /\ ~rgate[s].in_sync => rgate'[s].time = rgate[s].time
  <2>1. CASE s \in B /\ min_delay[s] < th.thresh
    <3>1. rgate'[s] = [in_sync |-> FALSE,
                       time |-> IF rgate[s].in_sync THEN now + min_delay[s] ELSE rgate[s].time]
      BY <1>6, <2>1
    <3>2. /\ ~rgate'[s].in_sync /\ rgate'[s].in_sync \in BOOLEAN
          /\ rgate'[s].time = IF rgate[s].in_sync THEN now + min_delay[s] ELSE rgate[s].time
      BY <3>1
    <3>3. rgate[s].in_sync \in BOOLEAN
      BY <1>5 DEF GateType
    <3> QED BY <2>1, <3>2, <3>3
  <2>2. CASE s \in B /\ ~(min_delay[s] < th.thresh)
    <3>1. rgate'[s] = [rgate[s] EXCEPT !.in_sync = TRUE]
      BY <1>6, <2>2
    <3>2. rgate'[s].in_sync = TRUE /\ rgate'[s].time = rgate[s].time
      BY <1>5, <3>1 DEF GateType
    <3> QED BY <2>2, <3>2
  <2> QED BY <2>1, <2>2
<1> QED BY <1>2, <1>3, <1>4, <1>7

\* A machine whose round ends is at the edge of an epoch.
LEMMA RoundEdge ==
  ASSUME TypeOK, Meeting, Scheduling, Phases,
         NEW M \in SUBSET Machines, NEW th \in [thresh : Nat, training : BOOLEAN],
         NEW now \in Nat, Reclassifies(M, th, now), Several, NEW m \in M
  PROVE  /\ AtEpoch(m) /\ Stage(m) = "training" /\ synpoint[proc0[m]] = now
         /\ Waited(m) /\ ~training_finished[m]
         /\ \A u \in Universes : machine[u] = m =>
              /\ Phase(u) = "train" /\ SentEpoch(u) /\ Emptied(u) /\ AtEdge(u)
              /\ ~InWindow(u) /\ epoch_sync[u] /\ synpoint[u] = now
              /\ ~InWindow(u)' /\ epoch_sync'[u] /\ synpoint'[u] = now
<1>1. proc0[m] \in Universes /\ machine[proc0[m]] = m /\ m \in Machines
  BY TopologyAssumption
<1>2. /\ pc[proc0[m]] = "train global" /\ ~training_finished[m]
      /\ \A v \in Universes : machine[v] = m =>
           AtEdge(v) /\ ~InWindow(v) /\ epoch_sync[v] /\ synpoint[v] = now
      /\ \A v \in Universes : pc'[v] = pc[v] \/ (pc[v] = "train global" /\ pc'[v] = "trained")
      /\ UNCHANGED <<windowVars, scan>>
  BY DEF Reclassifies, TrainsGlobally
<1>3. AtEpoch(m) /\ synpoint[proc0[m]] = now
  BY <1>1, <1>2 DEF AtEpoch
<1>4. Stage(m) = "training" /\ Phase(proc0[m]) = "train"
  BY <1>1, <1>2, StagePhase DEF Phase, PhaseAt
<1>5. Waited(m)
  BY <1>3, <1>4 DEF Waited
<1>6. ASSUME NEW u \in Universes, machine[u] = m
      PROVE  Phase(u) = "train" /\ SentEpoch(u) /\ Emptied(u)
  <2>1. u \in Mates(proc0[m])
    BY <1>1, <1>6 DEF Mates
  <2>2. epoch_sync[proc0[m]] /\ AtEdge(proc0[m])
    BY <1>1, <1>2
  <2>3. Phase(u) = "train"
    BY <1>1, <1>4, <2>1, <2>2 DEF Phases
  <2> QED BY <1>2, <1>6, <2>3 DEF SentEpoch, Emptied
<1>7. ASSUME NEW u \in Universes, machine[u] = m
      PROVE  ~InWindow(u)' /\ epoch_sync'[u] /\ synpoint'[u] = now
  <2>1. ~InWindow(u)'
    BY <1>2, <1>7 DEF InWindow, AtEdge, WindowLabels
  <2> QED BY <1>2, <1>7, <2>1 DEF windowVars
<1> QED BY <1>1, <1>2, <1>3, <1>4, <1>5, <1>6, <1>7

\* How the receiving end hears of a channel time.
LEMMA TimeHeard ==
  ASSUME TypeOK, Scheduling, NEW u \in Universes, HandleMail(u),
         NEW s \in Stargates, Remote(s)
  PROVE  \/ rgate'[s] = rgate[s]
         \/ LET f == Head(ctx[u].io) IN
            /\ u = Here(s) /\ f.sg = s /\ IsNull(f) /\ f \in MessageType
            /\ ctx[u].io # <<>> /\ f \in Range(ctx[u].io) /\ ctx'[u].io = Tail(ctx[u].io)
            /\ rgate'[s].in_sync = rgate[s].in_sync /\ rgate'[s].time = f.t
<1> DEFINE f == Head(ctx[u].io)
<1>0. /\ ctx[u].io # <<>> /\ f \in Range(ctx[u].io)
      /\ ctx' = [ctx EXCEPT ![u].io = Tail(@)]
  BY NullHandled DEF HandleMail
<1>1. ctx \in [Universes -> ContextType] /\ ctx[u].io \in Seq(MessageType)
      /\ rgate \in [Stargates -> GateType]
  BY ContextSet DEF TypeOK, ThreadTypeOK, TimelineTypeOK
<1>2. f \in MessageType
  BY <1>0, <1>1 DEF Range
<1>3. ctx'[u].io = Tail(ctx[u].io)
  BY <1>0, <1>1 DEF ContextType
<1>4. Here(f.sg) = u
  BY <1>0, ThreadFacts DEF Owned, Here, Dest
<1>5. CASE ~IsNull(f)
  BY <1>5 DEF HandleMail
<1>6. CASE IsNull(f)
  <2>1. HandleNull(u, f)
    BY <1>6 DEF HandleMail
  <2>2. rgate' = rgate \/ rgate' = [rgate EXCEPT ![f.sg].time = f.t]
    BY <2>1 DEF HandleNull
  <2>3. f.sg \in Stargates
    BY <1>2, MessageElim
  <2>4. rgate'[s] = rgate[s] \/ (f.sg = s /\ rgate'[s].in_sync = rgate[s].in_sync /\ rgate'[s].time = f.t)
    BY <1>1, <2>2, <2>3 DEF GateType
  <2> QED BY <1>0, <1>2, <1>3, <1>4, <1>6, <2>4
<1> QED BY <1>5, <1>6

LEMMA NextTimeKnown ==
  ASSUME TypeOK, TypeOK', Meeting, Agreement, Scheduling, Phases, Passed, NullsTold, TimeKnown,
         [Next]_vars
  PROVE  TimeKnown'
<1> SUFFICES ASSUME NEW s \in Stargates, Remote(s)
             PROVE  \/ rgate'[s].time <= gate'[s].time
                    \/ rgate'[s].time <= synpoint'[There(s)] + min_delay[s]
  BY DEF TimeKnown, Remote, SourceMachine, TargetMachine, There
<1>0. /\ There(s) \in Universes /\ min_delay[s] \in Nat /\ Several
      /\ gate[s].time \in Nat /\ rgate[s].time \in Nat /\ synpoint[There(s)] \in Nat
      /\ gate'[s].time \in Nat /\ synpoint'[There(s)] \in Nat
  <2>1. gate'[s].time \in Nat
    BY DEF TypeOK, TimelineTypeOK, GateType
  <2>2. There(s) \in Universes
    BY RemoteEnds
  <2>3. synpoint'[There(s)] \in Nat
    BY <2>2 DEF TypeOK, WindowTypeOK
  <2> QED BY <2>1, <2>3, RemoteEnds
<1>1. gate[s].time <= gate'[s].time /\ synpoint[There(s)] <= synpoint'[There(s)]
  BY <1>0, GateRises, SynpointRises
<1>2. \/ rgate[s].time <= gate[s].time
      \/ rgate[s].time <= synpoint[There(s)] + min_delay[s]
  BY DEF TimeKnown
<1>3. ASSUME rgate'[s] = rgate[s]
      PROVE  \/ rgate'[s].time <= gate'[s].time
             \/ rgate'[s].time <= synpoint'[There(s)] + min_delay[s]
  BY <1>0, <1>1, <1>2, <1>3
<1>4. CASE GlobalStays
  <2>1. ASSUME NEW u \in Universes, HandleMail(u), rgate'[s] # rgate[s]
        PROVE  rgate'[s].time <= gate'[s].time
    <3>1. PICK f \in MessageType : /\ u = Here(s) /\ f.sg = s /\ IsNull(f)
                                   /\ f \in Range(ctx[u].io) /\ rgate'[s].time = f.t
      BY <2>1, TimeHeard
    <3>2. f \in Told(s)
      BY <3>1 DEF Told
    <3>3. f.t <= gate[s].time /\ f.t \in Nat
      BY <3>2, MessageElim DEF NullsTold
    <3> QED BY <1>0, <1>1, <3>1, <3>3
  <2> QED BY <1>3, <1>4, <2>1 DEF GlobalStays
<1>5. CASE GlobalRoundEnds
  <2>1. PICK M \in SUBSET Machines, th \in [thresh : Nat, training : BOOLEAN], now \in Nat :
          Reclassifies(M, th, now)
    BY <1>5 DEF GlobalRoundEnds
  <2>2. CASE TargetMachine(s) \notin M
    BY <1>3, <2>1, <2>2, RemoteReclassed
  <2>3. CASE TargetMachine(s) \in M
    <3>1. /\ AtEpoch(TargetMachine(s)) /\ Stage(TargetMachine(s)) = "training"
          /\ synpoint[proc0[TargetMachine(s)]] = now
      BY <1>0, <2>1, <2>3, RoundEdge
    <3>2. now <= synpoint[There(s)]
      BY <1>0, <2>3, <3>1 DEF Passed
    <3>3. rgate'[s].time = rgate[s].time \/ rgate'[s].time = now + min_delay[s]
      BY <2>1, <2>3, RemoteReclassed
    <3> QED BY <1>0, <1>1, <1>2, <3>2, <3>3
  <2> QED BY <2>2, <2>3
<1> QED BY <1>4, <1>5, GlobalFrame

-----------------------------------------------------------------------------
(* What waits for an epoch, and what the machines take out at one.         *)

LEMMA SentAtEdge ==
  ASSUME NEW u \in Universes, SentEpoch(u)'
  PROVE  AtEdge(u)' /\ epoch_sync'[u]
<1>1. epoch_sync'[u] /\ (pc'[u] = "epoch sent" \/ PhaseAt(pc'[u]) # "before")
  BY DEF SentEpoch, Phase
<1>2. pc'[u] \notin WindowLabels \cup {"top", "end"}
  BY <1>1, PhaseIs DEF WindowLabels
<1> QED BY <1>1, <1>2 DEF AtEdge

\* With the training over, what a machine keeps for later epochs is for after the next one.
LEMMA KeptForLater ==
  ASSUME TypeOK, TypeOK', Meeting, Meeting', Agreement, Scheduling, Scheduling', Phases,
         [Next]_vars, Several, NEW u \in Universes, NEW e \in MessageType,
         e \in global_binque[u], e \in global_binque'[u],
         SentEpoch(u) => training_finished[machine[u]] /\ Onward(machine[u]) <= e.t,
         SentEpoch(u)'
  PROVE  training_finished'[machine[u]] /\ Onward(machine[u])' <= e.t
<1> DEFINE m == machine[u]
           p == proc0[m]
<1>0. m \in Machines /\ p \in Universes /\ machine[p] = m /\ p \in Mates(u) /\ u \in Mates(p)
  BY TopologyAssumption DEF Mates
<1>1. AtEdge(u)' /\ epoch_sync'[u]
  BY SentAtEdge
<1>2. AtEdge(p)'
  BY <1>0, <1>1 DEF Meeting, Together, Mates
<1>3. epoch_sync[u] /\ (SentEpoch(u) \/ SendEpoch(u))
  BY <1>1, EpochMoves
<1>4. synpoint'[p] = synpoint[p]
  BY <1>0, <1>2, EdgeKept
<1>5. ASSUME training_finished[m], Onward(m) <= e.t
      PROVE  training_finished'[m] /\ Onward(m)' <= e.t
  BY <1>0, <1>4, <1>5, OnwardStays
<1>6. CASE SendEpoch(u)
  <2>1. training_finished[m] /\ ~(e.t < next_epoch[u]) /\ pc[u] = "epoch"
    BY <1>6 DEF SendEpoch, Retrieved, TypeOK, MessageTypeOK
  <2>2. AtEdge(u)
    BY <2>1 DEF AtEdge, WindowLabels
  <2>3. AtEdge(p) /\ ~InWindow(p) /\ SameEdge(u, p)
    BY <1>0, <2>2, MatesAtEdge
  <2>4. AtEpoch(m)
    BY <1>3, <2>3 DEF AtEpoch, SameEdge
  <2>5. Phase(p) = Phase(u)
    BY <1>0, <1>3, <2>3 DEF Phases, SameEdge
  <2>6. Stage(m) # "trained"
    <3>1. PhaseAt(pc[u]) = "before"
      BY <2>1, PhaseIs
    <3>2. PhaseAt(pc[p]) # "train"
      BY <2>5, <3>1 DEF Phase
    <3>3. pc[p] # "trained"
      BY <3>2, PhaseIs
    <3> QED BY <1>0, <3>3, StagePhase
  <2>7. next_epoch[p] = Onward(m)
    BY <1>0, <2>4, <2>6 DEF Agreement, Stages, StageOK
  <2>8. next_epoch[u] = Onward(m) /\ next_epoch[u] \in Nat /\ e.t \in Nat
    BY <2>3, <2>7, MessageElim DEF SameEdge, TypeOK, WindowTypeOK
  <2>9. Onward(m) <= e.t
    BY <2>1, <2>8
  <2> QED BY <1>5, <2>1, <2>9
<1> QED BY <1>3, <1>5, <1>6

LEMMA NextWaits ==
  ASSUME TypeOK, TypeOK', Meeting, Meeting', Agreement, Scheduling, Scheduling', ClocksInside,
         Promises, Routes, Events, Phases, Passed, EpochLengths, EpochClasses, TimeKnown, Kinds,
         Waits, [Next]_vars
  PROVE  Waits'
<1> SUFFICES ASSUME NEW s \in Stargates, Remote(s), NEW e \in Waiting(s)'
             PROVE  /\ gate'[s].in_sync /\ gate'[s].time <= e.t
                    /\ EpochAfter(There(s))' <= e.t
                    /\ SentEpoch(There(s))' => /\ training_finished'[SourceMachine(s)]
                                               /\ Onward(SourceMachine(s))' <= e.t
  BY DEF Waits, Remote, SourceMachine, TargetMachine, There
<1> DEFINE u == There(s)
           m == SourceMachine(s)
<1>0. /\ u \in Universes /\ m \in Machines /\ machine[u] = m /\ Several
      /\ e \in MessageType /\ e.t \in Nat /\ e.sg = s /\ e \in global_binque'[u]
  BY RemoteEnds, MessageElim DEF Waiting, There
<1>1. e \in Waiting(s) \/ (gate[s].in_sync /\ JustWritten(s, e))
  BY RemoteMoves
<1>2. ASSUME gate[s].in_sync, JustWritten(s, e)
      PROVE  /\ gate'[s].in_sync /\ gate'[s].time <= e.t
             /\ EpochAfter(u)' <= e.t /\ ~SentEpoch(u)'
  <2>1. RunEvent(u) /\ InWindow(u) /\ simclock[source[s]] + min_delay[s] <= e.t
    BY <1>2 DEF JustWritten
  <2>2. UNCHANGED <<gate, synpoint, next_epoch, epoch_sync, pc, scan>> /\ pc[u] = "run"
    BY <2>1 DEF RunEvent, gateVars, windowVars, threadVars
  <2>3. EpochAfter(u)' = EpochAfter(u)
    <3>1. InWindow(u)' <=> InWindow(u)
      BY <2>2 DEF InWindow, AtEdge
    <3> QED BY <2>2, <3>1 DEF EpochAfter
  <2>4. ~SentEpoch(u)'
    <3>1. pc'[u] = "run"
      BY <2>2
    <3>2. PhaseAt(pc'[u]) = "before"
      BY <3>1 DEF PhaseAt
    <3> QED BY <3>1, <3>2 DEF SentEpoch, Phase
  <2>5. /\ gate[s].time <= simclock[source[s]] + min_delay[s]
        /\ EpochAfter(u) <= simclock[source[s]] + min_delay[s]
    BY <1>2, <2>1, EpochReach
  <2>6. /\ simclock[source[s]] + min_delay[s] \in Nat /\ gate[s].time \in Nat
        /\ EpochAfter(u) \in Nat
    BY RemoteEnds
  <2>7. gate[s].time <= e.t /\ EpochAfter(u) <= e.t
    BY <1>0, <2>1, <2>5, <2>6
  <2> QED BY <1>2, <2>2, <2>3, <2>4, <2>7
<1>3. ASSUME e \in Waiting(s)
      PROVE  /\ gate'[s].in_sync /\ gate'[s].time <= e.t
             /\ EpochAfter(u)' <= e.t
             /\ SentEpoch(u)' => training_finished'[m] /\ Onward(m)' <= e.t
  <2>0. /\ gate[s].in_sync /\ gate[s].time <= e.t /\ EpochAfter(u) <= e.t
        /\ SentEpoch(u) => training_finished[m] /\ Onward(m) <= e.t
        /\ e \in global_binque[u]
    BY <1>3 DEF Waits, Waiting
  <2>1. gate'[s].in_sync /\ gate'[s].time <= e.t
    <3>1. CASE GlobalRoundEnds
      <4>1. PICK M \in SUBSET Machines, th \in [thresh : Nat, training : BOOLEAN], now \in Nat :
              Reclassifies(M, th, now)
        BY <3>1 DEF GlobalRoundEnds
      <4>2. m \notin M
        <5>1. SUFFICES ASSUME m \in M PROVE FALSE
          OBVIOUS
        <5>2. SentEpoch(u) /\ ~training_finished[m]
          <6> HIDE DEF m, u
          <6> QED BY <1>0, <4>1, <5>1, RoundEdge
        <5> QED BY <2>0, <5>2
      <4>3. gate'[s] = gate[s]
        BY <4>1, <4>2, RemoteReclassed
      <4> QED BY <2>0, <4>3
    <3>2. CASE GlobalStays
      <4>1. gate'[s] = gate[s] \/ \E v \in Universes : UpdateTime(v)
        BY <3>2 DEF GlobalStays
      <4>2. ASSUME NEW v \in Universes, UpdateTime(v) PROVE gate'[s] = gate[s]
        BY <2>0, <4>2, TimeSet
      <4> QED BY <2>0, <4>1, <4>2
    <3> QED BY <3>1, <3>2, GlobalFrame
  <2>2. EpochAfter(u)' <= e.t
    <3>1. CASE pc[u] = "trained" /\ epoch_sync[u] /\ EpochAfter(u)' = Onward(m)
      <4>1. SentEpoch(u)
        BY <3>1, PhaseIs DEF SentEpoch, Phase
      <4> QED BY <2>0, <3>1, <4>1
    <3>2. CASE EpochAfter(u)' = EpochAfter(u)
      BY <2>0, <3>2
    <3> QED BY <1>0, <3>1, <3>2, EpochAfterStays
  <2>3. SentEpoch(u)' => training_finished'[m] /\ Onward(m)' <= e.t
    BY <1>0, <2>0, KeptForLater
  <2> QED BY <2>1, <2>2, <2>3
<1> QED BY <1>1, <1>2, <1>3

\* A message that reaches machine m of stargate s at an epoch is for after the next one.
Fresh(m, s, e) ==
  \/ synpoint[proc0[m]] + min_delay[s] <= e.t
  \/ training_finished[m] /\ Onward(m) <= e.t
FreshMail ==
  \A s \in Stargates : Remote(s) =>
    /\ Waited(TargetMachine(s)) => \A e \in Outside(s) : Fresh(TargetMachine(s), s, e)
    /\ Emptied(Here(s)) => \A e \in Arrived(s) : Fresh(TargetMachine(s), s, e)

LEMMA WaitedEdge ==
  ASSUME NEW m \in Machines, Waited(m)'
  PROVE  AtEdge(proc0[m])' /\ epoch_sync'[proc0[m]]
<1> DEFINE p == proc0[m]
<1>1. epoch_sync'[p] /\ (pc'[p] = "reduced" \/ PhaseAt(pc'[p]) \in {"drain", "train"})
  BY DEF Waited, AtEpoch, Phase
<1>2. pc'[p] \notin WindowLabels \cup {"top", "end"}
  BY <1>1, PhaseIs DEF WindowLabels
<1> QED BY <1>1, <1>2 DEF AtEdge

LEMMA EmptiedEdge ==
  ASSUME NEW u \in Universes, Emptied(u)'
  PROVE  AtEdge(u)' /\ epoch_sync'[u]
<1>1. epoch_sync'[u]
      /\ (pc'[u] \in {"drain io", "mpi barrier", "drained"} \/ PhaseAt(pc'[u]) = "train")
  BY DEF Emptied, Phase
<1>2. pc'[u] \notin WindowLabels \cup {"top", "end"}
  BY <1>1, PhaseIs DEF WindowLabels
<1> QED BY <1>1, <1>2 DEF AtEdge

LEMMA EmptiedWaited ==
  ASSUME TypeOK, Meeting, Scheduling, Phases, NEW u \in Universes, Emptied(u)
  PROVE  Waited(machine[u])
<1> DEFINE m == machine[u]
           p == proc0[m]
<1>0. m \in Machines /\ p \in Universes /\ machine[p] = m /\ p \in Mates(u)
  BY TopologyAssumption DEF Mates
<1>1. epoch_sync[u] /\ Several /\ PhaseAt(pc[u]) \in {"drain", "train"}
  BY PhaseIs DEF Emptied, Phase
<1>2. AtEdge(u)
  BY <1>1, PhaseEdge DEF Phase
<1>3. AtEdge(p) /\ ~InWindow(p) /\ epoch_sync[p]
  BY <1>0, <1>1, <1>2, MatesAtEdge DEF SameEdge
<1>4. Phase(p) = Phase(u)
  BY <1>0, <1>1, <1>2 DEF Phases
<1> QED BY <1>1, <1>3, <1>4 DEF Waited, AtEpoch, Phase

\* Machines that meet go on to the same epoch, and what is kept back is for after it.
LEMMA KeptFresh ==
  ASSUME TypeOK, Meeting, Agreement, Scheduling, Phases, Waits, NEW s \in Stargates, Remote(s),
         Stage(TargetMachine(s)) = "meeting", NEW e \in Waiting(s)
  PROVE  Fresh(TargetMachine(s), s, e)
<1> DEFINE u == There(s)
           n == SourceMachine(s)
           m == TargetMachine(s)
<1>0. /\ u \in Universes /\ n \in Machines /\ m \in Machines /\ Several
      /\ u \in Mates(proc0[n]) /\ proc0[n] \in Universes /\ proc0[m] \in Universes
      /\ machine[proc0[n]] = n /\ machine[proc0[m]] = m
  BY RemoteEnds, TopologyAssumption
<1> HIDE DEF u, n, m
<1>1. Stage(n) = "meeting" /\ Stage(m) = "meeting"
  BY <1>0 DEF Agreement, MeetTogether, m
<1>2. \A k \in {n, m} : /\ AtEpoch(k) /\ AtEdge(proc0[k]) /\ Phase(proc0[k]) # "before"
                        /\ Expected(k) = Journey(k, synpoint[proc0[k]])
  <2> SUFFICES ASSUME NEW k \in {n, m}
               PROVE  /\ AtEpoch(k) /\ AtEdge(proc0[k]) /\ Phase(proc0[k]) # "before"
                      /\ Expected(k) = Journey(k, synpoint[proc0[k]])
    OBVIOUS
  <2>1. k \in Machines /\ proc0[k] \in Universes /\ Stage(k) = "meeting"
    BY <1>0, <1>1
  <2>2. Phase(proc0[k]) # "before"
    BY <2>1, StagePhase
  <2>3. AtEdge(proc0[k]) /\ ~InWindow(proc0[k])
    BY <2>1, <2>2, PhaseEdge
  <2>4. epoch_sync[proc0[k]]
    BY <2>1 DEF Agreement, Stages, StageOK
  <2>5. AtEpoch(k)
    BY <2>3, <2>4 DEF AtEpoch
  <2>6. Expected(k) = Journey(k, synpoint[proc0[k]])
    BY <2>1, <2>5 DEF Expected
  <2> QED BY <2>2, <2>3, <2>5, <2>6
<1>3. SentEpoch(u)
  <2>1. epoch_sync[proc0[n]] /\ AtEdge(proc0[n]) /\ Phase(proc0[n]) # "before"
    BY <1>2 DEF AtEpoch
  <2>2. epoch_sync[u]
    BY <1>0, <2>1, MatesAtEdge DEF SameEdge
  <2>3. Phase(u) # "before"
    BY <1>0, <2>1 DEF Phases
  <2> QED BY <2>2, <2>3 DEF SentEpoch
<1>4. training_finished[n] /\ Onward(n) <= e.t
  BY <1>3 DEF Waits, u, n
<1>5. /\ synpoint[proc0[m]] = synpoint[proc0[n]] /\ epoch_length[m] = epoch_length[n]
      /\ global_roundup[m] = global_roundup[n] /\ training_finished[m] = training_finished[n]
  BY <1>0, <1>2, SamePlace
<1>6. Onward(m) = Onward(n)
  BY <1>5 DEF Onward
<1> QED BY <1>4, <1>5, <1>6 DEF Fresh, m

LEMMA FreshStays ==
  ASSUME TypeOK, Meeting, Agreement, [Next]_vars, NEW m \in Machines, NEW s, NEW e,
         Fresh(m, s, e), synpoint'[proc0[m]] = synpoint[proc0[m]]
  PROVE  Fresh(m, s, e)'
<1>1. CASE synpoint[proc0[m]] + min_delay[s] <= e.t
  BY <1>1 DEF Fresh
<1>2. CASE training_finished[m] /\ Onward(m) <= e.t
  <2>1. training_finished'[m] /\ Onward(m)' = Onward(m)
    BY <1>2, OnwardStays
  <2> QED BY <1>2, <2>1 DEF Fresh
<1> QED BY <1>1, <1>2 DEF Fresh

\* When the wait of an epoch is over nothing sent before is left outside.
LEMMA NothingOutstanding ==
  ASSUME TypeOK, Scheduling, Routes, Kinds, NEW s \in Stargates, Remote(s), Await(proc0[TargetMachine(s)])
  PROVE  Outside(s) \subseteq Waiting(s)
<1> DEFINE n == SourceMachine(s)
           m == TargetMachine(s)
<1>0. n \in Machines /\ m \in Machines /\ n # m /\ machine[proc0[m]] = m
  BY RemoteEnds, TopologyAssumption DEF Remote
<1>1. ~Outstanding(m)
  BY <1>0 DEF Await
<1>2. net[<<n, m>>] = <<>> /\ \A e \in remote_mailbox[n] : ~(Counted(e) /\ TargetMachine(e.sg) = m)
  BY <1>0, <1>1 DEF Outstanding
<1>3. SUFFICES ASSUME NEW e \in Outside(s) PROVE e \in Waiting(s)
  OBVIOUS
<1>4. e \in MessageType /\ e.sg = s /\ Soon(e)
  BY DEF Outside
<1>5. ~OnLine(s, e)
  BY <1>2, EmptyRange DEF OnLine
<1>6. e \notin remote_mailbox[n]
  BY <1>2, <1>4 DEF Counted, Soon
<1>7. e \in global_binque[There(s)]
  BY <1>5, <1>6 DEF Outside
<1> QED BY <1>4, <1>7 DEF Waiting

-----------------------------------------------------------------------------
(* What is coming is not before what null messages announce.               *)

\* Once a machine has met the others no thread writes anything for before its next epoch.
LEMMA WrittenFresh ==
  ASSUME TypeOK, Scheduling, ClocksInside, Passed, NEW s \in Stargates, Remote(s),
         NEW e \in MessageType, JustWritten(s, e), AtEpoch(TargetMachine(s)),
         Stage(TargetMachine(s)) \in {"meeting", "met", "training", "trained"}
  PROVE  Fresh(TargetMachine(s), s, e)
<1> DEFINE m == TargetMachine(s)
<1>0. /\ There(s) \in Universes /\ m \in Machines /\ Several /\ e.t \in Nat
      /\ synpoint[There(s)] \in Nat /\ min_delay[s] \in Nat /\ simclock[source[s]] \in Nat
      /\ proc0[m] \in Universes
  BY RemoteEnds, MessageElim, TopologyAssumption
<1>1. synpoint[proc0[m]] <= synpoint[There(s)]
  BY <1>0 DEF Passed
<1>2. synpoint[There(s)] <= simclock[source[s]]
  BY RemoteEnds DEF ClocksInside, There
<1>3. simclock[source[s]] + min_delay[s] <= e.t
  BY DEF JustWritten
<1>4. synpoint[proc0[m]] \in Nat
  BY <1>0 DEF TypeOK, WindowTypeOK
<1>5. synpoint[proc0[m]] + min_delay[s] <= e.t
  BY <1>0, <1>1, <1>2, <1>3, <1>4
<1> QED BY <1>5 DEF Fresh

LEMMA WaitedFresh ==
  ASSUME TypeOK, TypeOK', Meeting, Agreement, Scheduling, Scheduling', ClocksInside, Routes,
         Events, Phases, Passed, Kinds, Waits, FreshMail, [Next]_vars,
         NEW s \in Stargates, Remote(s), Waited(TargetMachine(s))', NEW e \in Outside(s)'
  PROVE  Fresh(TargetMachine(s), s, e)'
<1> DEFINE m == TargetMachine(s)
           p == proc0[m]
<1>0. m \in Machines /\ p \in Universes /\ machine[p] = m /\ Several /\ e \in MessageType
  BY RemoteEnds, TopologyAssumption DEF Outside
<1>1. AtEdge(p)' /\ epoch_sync'[p]
  BY <1>0, WaitedEdge
<1>2. /\ synpoint'[p] = synpoint[p] /\ epoch_sync[p] /\ ~InWindow(p)
      /\ Waited(m) \/ Await(p)
  BY <1>0, <1>1, EdgeKept, EpochMoves
<1>3. Fresh(m, s, e)
  <2>1. e \in Outside(s) \/ JustWritten(s, e)
    BY RemoteMoves
  <2>2. AtEpoch(m)
    BY <1>2 DEF AtEpoch
  <2>3. Stage(m) \in {"meeting", "met", "training", "trained"} /\ (Await(p) => Stage(m) = "meeting")
    <3>1. CASE Waited(m) /\ ~Await(p)
      BY <1>0, <3>1, StagePhase
    <3>2. CASE Await(p)
      <4>1. Stage(m) = "meeting"
        BY <1>0, <3>2, StagePhase DEF Await
      <4> QED BY <4>1
    <3> QED BY <1>2, <3>1, <3>2
  <2>4. CASE JustWritten(s, e)
    BY <1>0, <2>2, <2>3, <2>4, WrittenFresh
  <2>5. CASE e \in Outside(s) /\ Waited(m)
    BY <2>5 DEF FreshMail
  <2>6. CASE e \in Outside(s) /\ Await(p)
    <3>1. e \in Waiting(s)
      BY <2>6, NothingOutstanding
    <3> QED BY <2>3, <2>6, <3>1, KeptFresh
  <2> QED BY <1>2, <2>1, <2>4, <2>5, <2>6
<1> QED BY <1>0, <1>2, <1>3, FreshStays

LEMMA EmptiedFresh ==
  ASSUME TypeOK, TypeOK', Meeting, Meeting', Agreement, Scheduling, Scheduling', Routes,
         Events, Phases, Kinds, FreshMail, [Next]_vars,
         NEW s \in Stargates, Remote(s), Emptied(Here(s))', NEW e \in Arrived(s)'
  PROVE  Fresh(TargetMachine(s), s, e)'
<1> DEFINE u == Here(s)
           m == TargetMachine(s)
           p == proc0[m]
<1>0. /\ m \in Machines /\ p \in Universes /\ machine[p] = m /\ Several
      /\ u \in Universes /\ p \in Mates(u) /\ machine[u] = m
  BY RemoteEnds, TopologyAssumption
<1> HIDE DEF u, m
<1>1. AtEdge(u)' /\ epoch_sync'[u]
  BY <1>0, EmptiedEdge DEF u
<1>2. AtEdge(p)'
  BY <1>0, <1>1 DEF Meeting, Together
<1>3. synpoint'[p] = synpoint[p] /\ (Emptied(u) \/ DrainMail(u))
  <2>1. synpoint'[p] = synpoint[p]
    BY <1>0, <1>2, EdgeKept
  <2>2. Emptied(u)'
    BY DEF u
  <2> QED BY <1>0, <1>1, <2>1, <2>2, EpochMoves
<1>4. CASE Emptied(u)
  <2>1. e \in Arrived(s) \/ e \in Outside(s)
    BY RemoteMoves
  <2>2. Waited(m)
    BY <1>0, <1>4, EmptiedWaited
  <2>3. Fresh(m, s, e)
    BY <1>4, <2>1, <2>2 DEF FreshMail, u, m
  <2> QED BY <1>0, <1>3, <2>3, FreshStays DEF m
<1>5. CASE DrainMail(u)
  <2>1. umailbox'[u] = <<>>
    BY <1>0, <1>5 DEF DrainMail, TakeMail, TypeOK, MessageTypeOK
  <2>2. e \in Range(umailbox'[u])
    BY DEF Arrived, u, Here
  <2> QED BY <2>1, <2>2, EmptyRange
<1> QED BY <1>3, <1>4, <1>5

LEMMA NextFreshMail ==
  ASSUME TypeOK, TypeOK', Meeting, Meeting', Agreement, Scheduling, Scheduling', ClocksInside,
         Routes, Events, Phases, Passed, Kinds, Waits, FreshMail, [Next]_vars
  PROVE  FreshMail'
<1> SUFFICES ASSUME NEW s \in Stargates, Remote(s)
             PROVE  /\ Waited(TargetMachine(s))' =>
                         \A e \in Outside(s)' : Fresh(TargetMachine(s), s, e)'
                    /\ Emptied(Here(s))' =>
                         \A e \in Arrived(s)' : Fresh(TargetMachine(s), s, e)'
  BY DEF FreshMail, Remote, SourceMachine, TargetMachine, Here
<1> QED BY WaitedFresh, EmptiedFresh

LEMMA InitFreshMail == Init => FreshMail
<1> SUFFICES ASSUME Init PROVE FreshMail
  OBVIOUS
<1>1. \A u \in Universes : pc[u] = "top"
  BY DEF Init
<1>2. \A u \in Universes : Phase(u) = "before" /\ ~Emptied(u)
  BY <1>1 DEF Phase, PhaseAt, Emptied
<1>3. \A m \in Machines : ~Waited(m)
  BY <1>1, <1>2, TopologyAssumption DEF Waited
<1>4. \A s \in Stargates : Here(s) \in Universes /\ TargetMachine(s) \in Machines
  BY LocalEnds DEF Here
<1> QED BY <1>2, <1>3, <1>4 DEF FreshMail

\* What is on its way to the receiving end of a stargate, and not in its mailbox.
Coming(s) == Outside(s) \cup Arrived(s) \cup Read(s)
DueIn(s, e) == IF rgate[s].in_sync THEN EpochAfter(Here(s)) <= e.t ELSE rgate[s].time <= e.t
Announced == \A s \in Stargates : Remote(s) => \A e \in Coming(s) : DueIn(s, e)

LEMMA ComingMoves ==
  ASSUME TypeOK, Scheduling, Routes, Events, Kinds, [Next]_vars,
         NEW s \in Stargates, Remote(s), NEW e \in Coming(s)'
  PROVE  /\ e \in Coming(s) \/ JustWritten(s, e)
         /\ e \in MessageType /\ e.sg = s /\ Soon(e)
<1>1. e \in Outside(s)' \/ e \in Arrived(s)' \/ e \in Read(s)'
  BY DEF Coming
<1>2. e \in Coming(s) \/ JustWritten(s, e)
  BY <1>1, RemoteMoves DEF Coming
<1>3. e \in MessageType /\ e.sg = s /\ Soon(e)'
  BY <1>1 DEF Outside, Arrived, Read
<1> QED BY <1>2, <1>3, SoonStays

\* A null message announces no later time than that of a message behind it.
LEMMA HeardInOrder ==
  ASSUME TypeOK, Scheduling, Routes, Kinds, NullsTold, Waits, Orders,
         NEW s \in Stargates, Remote(s), HandleMail(Here(s)), ctx[Here(s)].io # <<>>,
         ctx'[Here(s)].io = Tail(ctx[Here(s)].io),
         NEW f \in MessageType, f = Head(ctx[Here(s)].io), f.sg = s, IsNull(f),
         NEW e \in Coming(s)'
  PROVE  f.t <= e.t
<1> DEFINE u == Here(s)
           n == SourceMachine(s)
           m == TargetMachine(s)
<1>0. /\ u \in Universes /\ n \in Machines /\ m \in Machines
      /\ f.t \in Nat /\ ctx[u].io \in Seq(MessageType)
      /\ gate[s].time \in Nat
  BY RemoteEnds, MessageElim, ContextSet DEF TypeOK, ThreadTypeOK
<1>1. f \in Range(ctx[u].io) /\ f \in Mails(u)
  BY <1>0, RangeFacts DEF Mails
<1>2. UNCHANGED <<umailbox, global_binque, remote_mailbox, net>>
  BY DEF HandleMail, mailVars, binVars, netVars
<1>3. /\ e \in Outside(s)' \/ e \in Arrived(s)' \/ e \in Read(s)'
      /\ e \in MessageType /\ e.sg = s /\ Soon(e)
  <2>1. e \in Outside(s)' \/ e \in Arrived(s)' \/ e \in Read(s)'
    BY DEF Coming
  <2>2. e \in MessageType /\ e.sg = s /\ Soon(e)'
    BY <2>1 DEF Outside, Arrived, Read
  <2> QED BY <2>1, <2>2, SoonStays
<1>4. ASSUME NEW F, NEW E, f \in F, e \in E, Older(F, E)
      PROVE  f.t <= e.t
  BY <1>3, <1>4 DEF Older
<1>5. CASE e \in Read(s)'
  <2>1. e \in Range(Tail(ctx[u].io))
    BY <1>5 DEF Read, Here
  <2>2. Older({f}, Range(Tail(ctx[u].io)))
    BY <1>0, MailTail DEF Orders, MailOrder
  <2> QED BY <1>4, <2>1, <2>2
<1>6. CASE e \in Arrived(s)'
  <2>1. e \in Range(umailbox[u])
    BY <1>2, <1>6 DEF Arrived, Here
  <2>2. Older(Range(ctx[u].io), Range(umailbox[u]))
    BY <1>0 DEF Orders, MailOrder
  <2> QED BY <1>1, <1>4, <2>1, <2>2
<1>7. CASE e \in Outside(s)'
  <2>1. \/ e \in global_binque[There(s)] \/ e \in remote_mailbox[n]
        \/ \E b \in Range(net[<<n, m>>]) : e \in b.regular
    BY <1>2, <1>7 DEF Outside, OnLine, SourceMachine, TargetMachine, There
  <2>2. CASE e \in remote_mailbox[n]
    <3>1. Older(Mails(u), remote_mailbox[n])
      BY <1>0 DEF Orders
    <3> QED BY <1>1, <1>4, <2>2, <3>1
  <2>3. ASSUME NEW b \in Range(net[<<n, m>>]), e \in b.regular PROVE f.t <= e.t
    <3>1. <<n, m>> \in Machines \X Machines
      BY <1>0
    <3>2. Older(Mails(u), b.regular)
      BY <1>0, <2>3, <3>1 DEF Orders
    <3> QED BY <1>1, <1>4, <2>3, <3>2
  <2>4. CASE e \in global_binque[There(s)]
    <3>1. f \in Told(s)
      BY <1>1 DEF Told
    <3>2. f.t <= gate[s].time
      BY <3>1 DEF NullsTold
    <3>3. e \in Waiting(s)
      BY <1>3, <2>4 DEF Waiting
    <3>4. gate[s].time <= e.t /\ e.t \in Nat
      BY <1>3, <3>3, MessageElim DEF Waits
    <3> QED BY <1>0, <3>2, <3>4
  <2> QED BY <2>1, <2>2, <2>3, <2>4
<1> QED BY <1>3, <1>5, <1>6, <1>7

\* Nobody's mail is left over at the end of a training round.
LEMMA NoneRead ==
  ASSUME TypeOK, Wakeups, NEW s \in Stargates, Here(s) \in Universes,
         pc[Here(s)] \in {"train", "train global", "trained"}
  PROVE  Read(s) = {}
<1>1. ~HasMail(Here(s))
  BY DEF HasMail, ScanFor
<1>2. ctx[Here(s)].io = <<>>
  BY <1>1 DEF Wakeups, WakeupOK
<1> QED BY <1>2, EmptyRange DEF Read

\* So at that time all that is coming is for after the next epoch.
LEMMA RoundFresh ==
  ASSUME TypeOK, Meeting, Scheduling, Phases, Wakeups, FreshMail, NEW s \in Stargates, Remote(s),
         epoch_sync[Here(s)], Phase(Here(s)) = "train", NEW e \in Coming(s)
  PROVE  Fresh(TargetMachine(s), s, e)
<1>0. Here(s) \in Universes /\ Several /\ machine[Here(s)] = TargetMachine(s)
  BY RemoteEnds
<1>1. Emptied(Here(s))
  BY <1>0 DEF Emptied
<1>2. Waited(TargetMachine(s))
  BY <1>0, <1>1, EmptiedWaited
<1>3. pc[Here(s)] \in {"train", "train global", "trained"}
  BY PhaseIs DEF Phase
<1>4. e \in Outside(s) \/ e \in Arrived(s)
  BY <1>0, <1>3, NoneRead DEF Coming
<1> QED BY <1>1, <1>2, <1>4 DEF FreshMail

LEMMA RoundAnnounces ==
  ASSUME TypeOK, TypeOK', Meeting, Scheduling, Phases, Wakeups, FreshMail,
         NEW M \in SUBSET Machines, NEW th \in [thresh : Nat, training : BOOLEAN],
         NEW now \in Nat, Reclassifies(M, th, now),
         NEW s \in Stargates, Remote(s), TargetMachine(s) \in M,
         NEW e \in Coming(s), e.t \in Nat, DueIn(s, e)
  PROVE  DueIn(s, e)'
<1> DEFINE u == Here(s)
           m == TargetMachine(s)
<1>0. /\ u \in Universes /\ m \in Machines /\ machine[u] = m /\ Several
      /\ min_delay[s] \in Nat /\ rgate[s].in_sync \in BOOLEAN /\ rgate[s].time \in Nat
  BY RemoteEnds
<1> HIDE DEF u, m
<1>1. /\ ~training_finished[m] /\ synpoint[proc0[m]] = now
      /\ \A v \in Universes : machine[v] = m =>
           /\ Phase(v) = "train" /\ epoch_sync[v]
           /\ ~InWindow(v)' /\ epoch_sync'[v] /\ synpoint'[v] = now
  <2>1. m \in M
    BY DEF m
  <2>2. Reclassifies(M, th, now) /\ Several
    BY <1>0
  <2>3. ~training_finished[m] /\ synpoint[proc0[m]] = now
    BY <2>1, <2>2, RoundEdge
  <2>4. ASSUME NEW v \in Universes, machine[v] = m
        PROVE  /\ Phase(v) = "train" /\ epoch_sync[v]
               /\ ~InWindow(v)' /\ epoch_sync'[v] /\ synpoint'[v] = now
    BY <2>1, <2>2, <2>4, RoundEdge
  <2> QED BY <2>3, <2>4
<1>2. epoch_sync[u] /\ Phase(u) = "train" /\ ~InWindow(u)' /\ epoch_sync'[u] /\ synpoint'[u] = now
  BY <1>0, <1>1
<1>3. EpochAfter(u)' = now
  BY <1>2 DEF EpochAfter
<1>4. Fresh(m, s, e)
  BY <1>2, RoundFresh DEF u, m
<1>5. now + min_delay[s] <= e.t
  BY <1>1, <1>4 DEF Fresh
<1>6. /\ rgate'[s].time = rgate[s].time \/ rgate'[s].time = now + min_delay[s]
      /\ ~rgate'[s].in_sync /\ rgate[s].in_sync => rgate'[s].time = now + min_delay[s]
      /\ ~rgate[s].in_sync => rgate'[s].time = rgate[s].time
  BY RemoteReclassed
<1>7. CASE rgate'[s].in_sync
  <2>1. now <= e.t
    BY <1>0, <1>5
  <2>2. EpochAfter(Here(s))' = now
    BY <1>3 DEF u, Here
  <2> QED BY <1>7, <2>1, <2>2 DEF DueIn
<1>8. CASE ~rgate'[s].in_sync
  <2>1. rgate'[s].time <= e.t
    <3>1. CASE rgate[s].in_sync
      BY <1>5, <1>6, <1>8, <3>1
    <3>2. CASE ~rgate[s].in_sync
      BY <1>6, <3>2 DEF DueIn
    <3> QED BY <3>1, <3>2
  <2> QED BY <1>8, <2>1 DEF DueIn
<1> QED BY <1>7, <1>8

LEMMA OpenAnnounces ==
  ASSUME TypeOK, Meeting, Agreement, Scheduling, Phases, Wakeups, EpochClasses, FreshMail,
         NEW s \in Stargates, Remote(s), rgate[s].in_sync,
         pc[Here(s)] = "trained", epoch_sync[Here(s)], NEW e \in Coming(s), e.t \in Nat
  PROVE  Onward(TargetMachine(s)) <= e.t
<1> DEFINE m == TargetMachine(s)
           p == proc0[m]
<1>0. m \in Machines /\ p \in Universes /\ machine[p] = m /\ min_delay[s] \in Nat
  BY RemoteEnds, TopologyAssumption
<1> HIDE DEF m
<1>1. Phase(Here(s)) = "train"
  BY PhaseIs DEF Phase
<1>2. Fresh(m, s, e)
  BY <1>1, RoundFresh DEF m
<1>3. epoch_length[m] <= min_delay[s]
  BY DEF EpochClasses, m
<1>4. synpoint[p] \in Nat /\ epoch_length[m] \in Nat /\ global_roundup[m] \in Nat
  BY <1>0 DEF TypeOK, WindowTypeOK
<1>5. synpoint[p] + epoch_length[m] \in Nat
  BY <1>4
<1>6. Onward(m) \in Nat /\ Onward(m) <= synpoint[p] + epoch_length[m]
  BY <1>4, <1>5, ClipIs DEF Onward
<1>7. synpoint[p] + min_delay[s] <= e.t => Onward(m) <= e.t
  BY <1>0, <1>3, <1>4, <1>6
<1> QED BY <1>2, <1>7 DEF Fresh, m

LEMMA NextAnnounced ==
  ASSUME TypeOK, TypeOK', Meeting, Agreement, Scheduling, ClocksInside, Promises, Routes, Events,
         Wakeups, Phases, Passed, EpochLengths, EpochClasses, TimeKnown, Kinds, NullsTold, Waits,
         Orders, FreshMail, Announced, [Next]_vars
  PROVE  Announced'
<1> SUFFICES ASSUME NEW s \in Stargates, Remote(s), NEW e \in Coming(s)'
             PROVE  DueIn(s, e)'
  BY DEF Announced, Remote, SourceMachine, TargetMachine
<1> DEFINE u == Here(s)
           m == TargetMachine(s)
<1>0. /\ u \in Universes /\ m \in Machines /\ machine[u] = m /\ Several
      /\ rgate[s].in_sync \in BOOLEAN /\ rgate[s].time \in Nat /\ EpochAfter(u) \in Nat
      /\ simclock[source[s]] + min_delay[s] \in Nat
  BY RemoteEnds
<1>1. /\ e \in Coming(s) \/ JustWritten(s, e)
      /\ e \in MessageType /\ e.sg = s /\ Soon(e) /\ e.t \in Nat
  BY ComingMoves, MessageElim
<1>2. DueIn(s, e)
  <2>1. CASE e \in Coming(s)
    BY <2>1 DEF Announced
  <2>2. CASE JustWritten(s, e)
    <3>1. InWindow(There(s)) /\ simclock[source[s]] + min_delay[s] <= e.t
      BY <2>2 DEF JustWritten
    <3>2. /\ rgate[s].in_sync => EpochAfter(u) <= simclock[source[s]] + min_delay[s]
          /\ rgate[s].time <= simclock[source[s]] + min_delay[s]
      BY <3>1, EpochReach
    <3>3. (rgate[s].in_sync => EpochAfter(u) <= e.t) /\ rgate[s].time <= e.t
      BY <1>0, <1>1, <3>1, <3>2
    <3> QED BY <3>3 DEF DueIn
  <2> QED BY <1>1, <2>1, <2>2
<1>3. JustWritten(s, e) => pc' = pc /\ rgate' = rgate
  BY DEF JustWritten, RunEvent, threadVars, gateVars
<1>4. ASSUME rgate'[s].in_sync = rgate[s].in_sync, rgate'[s].time <= e.t \/ rgate'[s] = rgate[s]
      PROVE  DueIn(s, e)'
  <2>1. CASE ~rgate[s].in_sync
    BY <1>2, <1>4, <2>1 DEF DueIn
  <2>2. CASE rgate[s].in_sync
    <3>1. CASE EpochAfter(u)' = EpochAfter(u)
      <4>1. EpochAfter(Here(s))' = EpochAfter(u)
        BY <3>1 DEF Here
      <4> QED BY <1>2, <1>4, <2>2, <4>1 DEF DueIn
    <3>2. CASE Trained(m) /\ epoch_sync[u] /\ pc[u] = "trained" /\ EpochAfter(u)' = Onward(m)
      <4>1. pc'[u] = "open"
        BY <1>0, <3>2, TrainingEnds
      <4>2. e \in Coming(s)
        BY <1>1, <1>3, <3>2, <4>1
      <4>3. Onward(m) <= e.t
        BY <1>1, <2>2, <3>2, <4>2, OpenAnnounces
      <4>4. EpochAfter(Here(s))' = Onward(m)
        BY <3>2 DEF Here
      <4> QED BY <1>4, <2>2, <4>3, <4>4 DEF DueIn
    <3> QED BY <1>0, <3>1, <3>2, EpochAfterStays
  <2> QED BY <1>0, <2>1, <2>2
<1>5. CASE GlobalStays
  <2>1. rgate'[s].in_sync = rgate[s].in_sync
    BY <1>5 DEF GlobalStays
  <2>2. CASE rgate'[s] = rgate[s]
    BY <1>4, <2>1, <2>2
  <2>3. ASSUME NEW v \in Universes, HandleMail(v), rgate'[s] # rgate[s]
        PROVE  DueIn(s, e)'
    <3>1. LET f == Head(ctx[v].io) IN
          /\ v = u /\ f.sg = s /\ IsNull(f) /\ f \in MessageType
          /\ ctx[v].io # <<>> /\ ctx'[v].io = Tail(ctx[v].io)
          /\ rgate'[s].time = f.t
      BY <2>3, TimeHeard
    <3>2. rgate'[s].time <= e.t
      BY <2>3, <3>1, HeardInOrder
    <3> QED BY <1>4, <2>1, <3>2
  <2> QED BY <1>5, <2>2, <2>3 DEF GlobalStays
<1>6. CASE GlobalRoundEnds
  <2>1. PICK M \in SUBSET Machines, th \in [thresh : Nat, training : BOOLEAN], now \in Nat :
          Reclassifies(M, th, now)
    BY <1>6 DEF GlobalRoundEnds
  <2>2. CASE m \notin M
    <3>1. rgate'[s] = rgate[s]
      BY <2>1, <2>2, RemoteReclassed
    <3> QED BY <1>4, <3>1
  <2>3. CASE m \in M
    <3>1. pc'[proc0[m]] = "trained" /\ pc[proc0[m]] = "train global"
      BY <2>1, <2>3 DEF Reclassifies, TrainsGlobally
    <3>2. e \in Coming(s)
      BY <1>1, <1>3, <3>1
    <3> QED BY <1>1, <1>2, <2>1, <2>3, <3>2, RoundAnnounces
  <2> QED BY <2>2, <2>3
<1> QED BY <1>5, <1>6, GlobalFrame

-----------------------------------------------------------------------------
(* The mailboxes of stargates between machines.                            *)

\* The mailbox of the receiving end of a stargate between machines.
MailListed ==
  \A s \in Stargates : Remote(s) /\ mailbox[s] # {} => s \in inbound_async \/ ~rgate[s].in_sync
RemoteMail == \A s \in Stargates : Remote(s) => \A e \in mailbox[s] : lbts[target[s]] <= e.t
RemoteHeldBy(v) ==
  \A s \in InboundAsync(scan[v].tl) \ scan[v].todo :
    Remote(s) /\ s # scan[v].hold => \A e \in mailbox[s] : scan[v].low <= e.t
RemoteHeld == \A v \in Universes : pc[v] = "scan" => RemoteHeldBy(v)
Mailboxes == MailListed /\ RemoteMail /\ RemoteHeld

\* Only the reader thread adds to such a mailbox.
LEMMA RemoteMailed ==
  ASSUME TypeOK, Scheduling, Routes, Kinds, Announced, [Next]_vars,
         NEW s \in Stargates, Remote(s), NEW e \in mailbox'[s]
  PROVE  \/ e \in mailbox[s]
         \/ /\ ~rgate[s].in_sync /\ rgate[s].time <= e.t /\ e.t \in Nat
            /\ UNCHANGED <<lbts, rgate, inbound_async, pc, scan>>
<1>0. mailbox \in [Stargates -> SUBSET MessageType]
  BY DEF TypeOK, MessageTypeOK
<1>1. ASSUME NEW u \in Universes, Thread(u) PROVE e \in mailbox[s]
  <2>1. CASE RunEvent(u)
    <3>1. PICK t, f, M : EventWrites(u, t, f, M)
      BY <2>1, EventDelivered
    <3> QED BY <3>1 DEF EventWrites
  <2>2. CASE ReceiveMessages(u)
    <3>1. mailbox' = [mailbox EXCEPT ![scan[u].hold] = {}]
      BY <2>2 DEF ReceiveMessages
    <3> QED BY <1>0, <3>1
  <2>3. CASE ~RunEvent(u) /\ ~ReceiveMessages(u)
    BY <1>1, <2>3, ThreadFrame
  <2> QED BY <2>1, <2>2, <2>3
<1>2. ASSUME NEW m \in Machines, Trained(m) PROVE e \in mailbox[s]
  BY <1>2, TrainingEnds
<1>3. ASSUME NEW n \in Machines, NEW m \in Machines, Reader(n, m), e \notin mailbox[s]
      PROVE  /\ ~rgate[s].in_sync /\ rgate[s].time <= e.t /\ e.t \in Nat
             /\ UNCHANGED <<lbts, rgate, inbound_async, pc, scan>>
  <2>0. PICK f \in MessageType, r \in BatchType :
         LET q == net[<<n, m>>] IN
         /\ q \in Seq(BatchType) /\ q # <<>>
         /\ f \in Head(q).regular \/ (Head(q).regular = {} /\ f \in Head(q).null)
         /\ r.regular = Head(q).regular \ {f} /\ r.null \subseteq Head(q).null
         /\ (net'[<<n, m>>] = Tail(q) /\ r.regular = {}) \/ net'[<<n, m>>] = <<r>> \o Tail(q)
         /\ \A p \in Machines \X Machines : p # <<n, m>> => net'[p] = net[p]
         /\ IF IsNull(f) \/ rgate[f.sg].in_sync
            THEN /\ \A v \in Universes : umailbox'[v] =
                      IF v = Here(f.sg) THEN Append(umailbox[v], f) ELSE umailbox[v]
                 /\ mailbox' = mailbox
            ELSE /\ umailbox' = umailbox
                 /\ \A x \in Stargates : mailbox'[x] =
                      IF x = f.sg THEN mailbox[x] \cup {f} ELSE mailbox[x]
         /\ UNCHANGED <<tmlnVars, gateVars, binVars, remote_mailbox, windowVars, trainVars,
                        threadVars, sent>>
    BY <1>3, BatchRead
  <2>1. /\ net[<<n, m>>] \in Seq(BatchType) /\ net[<<n, m>>] # <<>>
        /\ f \in Head(net[<<n, m>>]).regular \cup Head(net[<<n, m>>]).null
        /\ IF IsNull(f) \/ rgate[f.sg].in_sync
           THEN mailbox' = mailbox
           ELSE \A x \in Stargates :
                  mailbox'[x] = IF x = f.sg THEN mailbox[x] \cup {f} ELSE mailbox[x]
        /\ UNCHANGED <<tmlnVars, gateVars, windowVars, threadVars>>
    BY <2>0
  <2>2. e = f /\ f.sg = s /\ ~IsNull(f) /\ ~rgate[s].in_sync
    BY <1>3, <2>1
  <2>3. Head(net[<<n, m>>]) \in Range(net[<<n, m>>])
    BY <2>1, RangeFacts
  <2>4. e \in Head(net[<<n, m>>]).regular /\ Soon(e)
    <3>1. \A x \in Head(net[<<n, m>>]).null : IsNull(x)
      BY <2>3 DEF Kinds
    <3>2. e \in Head(net[<<n, m>>]).regular
      BY <2>1, <2>2, <3>1
    <3> QED BY <2>3, <3>2 DEF Kinds
  <2>5. SourceMachine(s) = n /\ TargetMachine(s) = m
    BY <2>2, <2>3, <2>4 DEF Routes, NetRoutes
  <2>6. e \in Outside(s)
    BY <2>2, <2>3, <2>4, <2>5 DEF Outside, OnLine
  <2>7. rgate[s].time <= e.t
    BY <2>2, <2>6 DEF Announced, Coming, DueIn
  <2>8. UNCHANGED <<lbts, rgate, inbound_async, pc, scan>>
    BY <2>1 DEF tmlnVars, gateVars, windowVars, threadVars
  <2> QED BY <2>2, <2>7, <2>8, MessageElim
<1>4. CASE /\ ~(\E u \in Universes : Thread(u)) /\ ~(\E m \in Machines : Trained(m))
           /\ ~(\E n, m \in Machines : Reader(n, m))
  <2>1. mailbox' = mailbox
    BY <1>4, OtherFrame DEF Next, Finished
  <2> QED BY <2>1
<1> QED BY <1>1, <1>2, <1>3, <1>4

LEMMA ListedKept ==
  ASSUME [Next]_vars
  PROVE  (\E m \in Machines : Trained(m)) \/ inbound_async' = inbound_async
<1>1. ASSUME NEW u \in Universes, Thread(u) PROVE inbound_async' = inbound_async
  <2>1. AdvanceWindow(u) \/ inbound_async' = inbound_async
    BY <1>1, ThreadFrame DEF windowVars
  <2> QED BY <2>1 DEF AdvanceWindow
<1>2. CASE ~(\E u \in Universes : Thread(u))
  <2>1. (\E m \in Machines : Trained(m)) \/ UNCHANGED windowVars
    BY <1>2, OtherFrame DEF Next, Finished
  <2> QED BY <2>1 DEF windowVars
<1> QED BY <1>1, <1>2

LEMMA NextMailListed ==
  ASSUME TypeOK, Meeting, Agreement, Scheduling, Routes, Phases, Kinds, Announced, MailListed,
         [Next]_vars
  PROVE  MailListed'
<1> SUFFICES ASSUME NEW s \in Stargates, Remote(s), mailbox'[s] # {}
             PROVE  s \in inbound_async' \/ ~rgate'[s].in_sync
  BY DEF MailListed, Remote, SourceMachine, TargetMachine
<1> DEFINE m == TargetMachine(s)
<1>0. m \in Machines /\ Several
  BY RemoteEnds
<1>1. CASE mailbox[s] = {}
  <2>1. ~rgate[s].in_sync /\ rgate' = rgate
    BY <1>1, RemoteMailed
  <2> QED BY <2>1
<1>2. CASE mailbox[s] # {}
  <2>0. s \in inbound_async \/ ~rgate[s].in_sync
    BY <1>2 DEF MailListed
  <2>1. ASSUME NEW k \in Machines, Trained(k)
        PROVE  s \in inbound_async' \/ ~rgate'[s].in_sync
    <3>1. /\ mailbox'[s] = IF s \in Drained(k) THEN {} ELSE mailbox[s]
          /\ inbound_async' = Listed(k) /\ rgate' = rgate
      BY <2>1, TrainingEnds DEF gateVars
    <3>2. s \notin Drained(k)
      BY <3>1
    <3>3. CASE m = k /\ Reclassified(k)
      BY <2>0, <3>1, <3>2, <3>3 DEF Drained
    <3>4. CASE ~(m = k /\ Reclassified(k))
      BY <2>0, <3>1, <3>4 DEF Listed
    <3> QED BY <3>3, <3>4
  <2>2. ASSUME inbound_async' = inbound_async
        PROVE  s \in inbound_async' \/ ~rgate'[s].in_sync
    <3>1. CASE GlobalStays
      BY <2>0, <2>2, <3>1 DEF GlobalStays
    <3>2. CASE GlobalRoundEnds
      <4>1. PICK M \in SUBSET Machines, th \in [thresh : Nat, training : BOOLEAN], now \in Nat :
              Reclassifies(M, th, now)
        BY <3>2 DEF GlobalRoundEnds
      <4>2. CASE m \notin M
        BY <2>0, <2>2, <4>1, <4>2, RemoteReclassed
      <4>3. CASE m \in M
        <5>1. Stage(m) = "training"
          BY <1>0, <4>1, <4>3, RoundEdge
        <5>2. s \in inbound_async
          BY <2>0, <5>1 DEF Scheduling, RemoteListed, RemoteGates
        <5> QED BY <2>2, <5>2
      <4> QED BY <4>2, <4>3
    <3> QED BY <3>1, <3>2, GlobalFrame
  <2> QED BY <2>1, <2>2, ListedKept
<1> QED BY <1>1, <1>2

LEMMA NextRemoteMail ==
  ASSUME TypeOK, TypeOK', Meeting, Scheduling, Routes, Kinds, Announced, Mailboxes, [Next]_vars
  PROVE  RemoteMail'
<1> SUFFICES ASSUME NEW s \in Stargates, Remote(s), NEW e \in mailbox'[s]
             PROVE  lbts'[target[s]] <= e.t
  BY DEF RemoteMail, Remote, SourceMachine, TargetMachine
<1>0. /\ target[s] \in Timelines /\ lbts[target[s]] \in Nat /\ rgate[s].time \in Nat
      /\ InGate(s) = rgate[s]
  BY RemoteEnds, SchedulingFacts
<1>1. CASE e \notin mailbox[s]
  <2>1. ~rgate[s].in_sync /\ rgate[s].time <= e.t /\ e.t \in Nat /\ lbts' = lbts
    BY <1>1, RemoteMailed
  <2>2. lbts[target[s]] <= rgate[s].time
    BY <1>0, <2>1 DEF Scheduling, Gates
  <2> QED BY <1>0, <2>1, <2>2
<1>2. CASE e \in mailbox[s]
  <2>0. lbts[target[s]] <= e.t
    BY <1>2 DEF Mailboxes, RemoteMail
  <2>1. CASE lbts' = lbts
    BY <2>0, <2>1
  <2>2. ASSUME NEW u \in Universes, EndScan(u)
        PROVE  lbts'[target[s]] <= e.t
    <3>1. pc[u] = "scan" /\ scan[u].hold = 0 /\ scan[u].todo = {}
      BY <2>2 DEF EndScan
    <3>2. CASE target[s] = scan[u].tl
      <4>1. lbts'[target[s]] = scan[u].low /\ InWindow(u) /\ universe[target[s]] = u
        BY <2>2, <3>2, BoundTaken, BoundKnown
      <4>2. s \in inbound_async
        <5>1. s \in inbound_async <=> ~rgate[s].in_sync
          BY <1>0, <4>1, AsyncListed
        <5>2. s \in inbound_async \/ ~rgate[s].in_sync
          BY <1>2 DEF Mailboxes, MailListed
        <5> QED BY <5>1, <5>2
      <4>3. s \in InboundAsync(scan[u].tl) \ scan[u].todo /\ s # 0
        BY <3>1, <3>2, <4>2, TopologyAssumption DEF InboundAsync
      <4>4. scan[u].low <= e.t
        BY <1>2, <3>1, <4>3 DEF Mailboxes, RemoteHeld, RemoteHeldBy
      <4> QED BY <4>1, <4>4
    <3>3. CASE target[s] # scan[u].tl
      <4>1. lbts' = [lbts EXCEPT ![scan[u].tl] = scan[u].low] /\ lbts \in [Timelines -> Nat]
        BY <2>2 DEF EndScan, TypeOK, TimelineTypeOK
      <4>2. lbts'[target[s]] = lbts[target[s]]
        BY <1>0, <3>3, <4>1
      <4> QED BY <2>0, <4>2
    <3> QED BY <3>2, <3>3
  <2>3. (\E u \in Universes : EndScan(u)) \/ lbts' = lbts
    <3>1. CASE \E u \in Universes : Thread(u)
      BY <3>1, ThreadFrame
    <3>2. CASE ~(\E u \in Universes : Thread(u))
      BY <3>2, OtherFrame DEF Next, Finished
    <3> QED BY <3>1, <3>2
  <2> QED BY <2>1, <2>2, <2>3
<1> QED BY <1>1, <1>2

LEMMA RemoteHeldKept ==
  ASSUME TypeOK, Meeting, Scheduling, Routes, Kinds, Announced, Mailboxes, [Next]_vars,
         NEW v \in Universes, pc[v] = "scan", scan'[v] = scan[v],
         \A s \in Stargates : target[s] \in TimelinesOf(v) => (s \in inbound_async' <=> s \in inbound_async)
  PROVE  RemoteHeldBy(v)'
<1>1. scan[v].tl \in TimelinesOf(v)
  BY ThreadFacts DEF Owned
<1>2. InboundAsync(scan[v].tl)' = InboundAsync(scan[v].tl)
  BY <1>1 DEF InboundAsync
<1>3. ASSUME NEW s \in InboundAsync(scan[v].tl) \ scan[v].todo, Remote(s), s # scan[v].hold,
             NEW e \in mailbox'[s]
      PROVE  scan[v].low <= e.t
  <2>1. s \in Stargates /\ target[s] \in TimelinesOf(v)
    BY <1>1 DEF InboundAsync
  <2>2. CASE e \in mailbox[s]
    BY <1>3, <2>2 DEF Mailboxes, RemoteHeld, RemoteHeldBy
  <2>3. CASE e \notin mailbox[s]
    <3>1. rgate[s].time <= e.t /\ e.t \in Nat
      BY <1>3, <2>1, <2>3, RemoteMailed
    <3>2. scan[v].low <= InGate(s).time
      BY <1>3 DEF Scheduling, Scans, ScanOK
    <3>3. InGate(s) = rgate[s] /\ rgate[s].time \in Nat /\ scan[v].low \in Nat
      BY <1>3, <2>1, RemoteEnds, SchedulingFacts
    <3> QED BY <3>1, <3>2, <3>3
  <2> QED BY <2>2, <2>3
<1>4. \A s \in InboundAsync(scan[v].tl)' \ scan'[v].todo :
        Remote(s) /\ s # scan'[v].hold => \A e \in mailbox'[s] : scan'[v].low <= e.t
  BY <1>2, <1>3
<1> QED BY <1>4 DEF RemoteHeldBy, Remote, SourceMachine, TargetMachine

LEMMA NextRemoteHeld ==
  ASSUME TypeOK, TypeOK', Meeting, Scheduling, Routes, Kinds, Announced, Mailboxes, [Next]_vars
  PROVE  RemoteHeld'
<1> SUFFICES ASSUME NEW v \in Universes, pc'[v] = "scan" PROVE RemoteHeldBy(v)'
  BY DEF RemoteHeld
<1>0. mailbox \in [Stargates -> SUBSET MessageType]
  BY DEF TypeOK, MessageTypeOK
<1>1. ASSUME pc[v] = "scan", scan'[v] = scan[v],
             \A s \in Stargates : target[s] \in TimelinesOf(v) =>
               (s \in inbound_async' <=> s \in inbound_async)
      PROVE  RemoteHeldBy(v)'
  BY <1>1, RemoteHeldKept
<1>2. ASSUME NEW u \in Universes, Thread(u) PROVE inbound_async' = inbound_async
  <2>1. AdvanceWindow(u) \/ inbound_async' = inbound_async
    BY <1>2, ThreadFrame DEF windowVars
  <2> QED BY <2>1 DEF AdvanceWindow
<1>3. ASSUME NEW t, NEW r, BeginScan(v, t, r), Thread(v) PROVE RemoteHeldBy(v)'
  <2>1. scan'[v].tl = t /\ scan'[v].todo = InboundAsync(t)
    BY <1>3, ScanStarted
  <2>2. InboundAsync(scan[v].tl)' \ scan'[v].todo = {}
    BY <1>2, <1>3, <2>1 DEF InboundAsync
  <2> QED BY <2>2 DEF RemoteHeldBy
<1>4. ASSUME ReadTime(v) PROVE RemoteHeldBy(v)'
  <2>1. /\ pc[v] = "scan" /\ scan[v].hold = 0 /\ UNCHANGED <<mailbox, inbound_async>>
    BY <1>4 DEF ReadTime, mailVars, windowVars
  <2>2. PICK s \in scan[v].todo :
              /\ s \in Stargates
              /\ scan'[v].low = Lesser(scan[v].low, InGate(s).time)
              /\ scan'[v].todo = scan[v].todo \ {s}
              /\ scan'[v].hold = IF SameUniverse(s) THEN 0 ELSE s
              /\ scan'[v].tl = scan[v].tl
    BY <1>4, TimeRead
  <2>3. InboundAsync(scan[v].tl)' = InboundAsync(scan[v].tl)
    BY <2>1, <2>2 DEF InboundAsync
  <2>4. scan[v].low \in Nat /\ InGate(s).time \in Nat
    BY <2>2, SchedulingFacts
  <2>5. scan'[v].low \in Nat /\ scan'[v].low <= scan[v].low
    BY <2>2, <2>4 DEF Lesser
  <2>6. ASSUME NEW q \in InboundAsync(scan[v].tl) \ scan'[v].todo, Remote(q),
               q # scan'[v].hold, NEW e \in mailbox[q]
        PROVE  scan'[v].low <= e.t
    <3>1. q # s
      BY <2>2, <2>6 DEF Remote, SameUniverse, SourceMachine, TargetMachine
    <3>2. q \in InboundAsync(scan[v].tl) \ scan[v].todo
      BY <2>2, <2>6, <3>1
    <3>3. q \in Stargates /\ q # 0
      BY <3>2, TopologyAssumption DEF InboundAsync
    <3>4. scan[v].low <= e.t
      BY <2>1, <2>6, <3>2, <3>3 DEF Mailboxes, RemoteHeld, RemoteHeldBy
    <3>5. e.t \in Nat
      BY <1>0, <2>6, <3>3, MessageElim
    <3> QED BY <2>4, <2>5, <3>4, <3>5
  <2>7. \A q \in InboundAsync(scan[v].tl)' \ scan'[v].todo :
          Remote(q) /\ q # scan'[v].hold => \A e \in mailbox'[q] : scan'[v].low <= e.t
    BY <2>1, <2>3, <2>6
  <2> QED BY <2>7 DEF RemoteHeldBy, Remote, SourceMachine, TargetMachine
<1>5. ASSUME ReceiveMessages(v) PROVE RemoteHeldBy(v)'
  <2>1. /\ pc[v] = "scan" /\ inbound_async' = inbound_async
        /\ mailbox' = [mailbox EXCEPT ![scan[v].hold] = {}]
    BY <1>5 DEF ReceiveMessages, windowVars
  <2>2. /\ scan[v].hold \in Stargates
        /\ scan'[v].tl = scan[v].tl /\ scan'[v].low = scan[v].low
        /\ scan'[v].todo = scan[v].todo /\ scan'[v].hold = 0
    BY <1>5, MessagesReceived
  <2>3. InboundAsync(scan[v].tl)' = InboundAsync(scan[v].tl)
    BY <2>1, <2>2 DEF InboundAsync
  <2>4. ASSUME NEW q \in InboundAsync(scan[v].tl) \ scan[v].todo, Remote(q),
               NEW e \in mailbox'[q]
        PROVE  scan[v].low <= e.t
    <3>1. q \in Stargates
      BY <2>4 DEF InboundAsync
    <3>2. q # scan[v].hold /\ e \in mailbox[q]
      BY <1>0, <2>1, <2>2, <2>4, <3>1
    <3> QED BY <2>1, <2>4, <3>2 DEF Mailboxes, RemoteHeld, RemoteHeldBy
  <2>5. \A q \in InboundAsync(scan[v].tl)' \ scan'[v].todo :
          Remote(q) /\ q # scan'[v].hold => \A e \in mailbox'[q] : scan'[v].low <= e.t
    BY <2>2, <2>3, <2>4
  <2> QED BY <2>5 DEF RemoteHeldBy, Remote, SourceMachine, TargetMachine
<1>6. ASSUME NEW u \in Universes, Thread(u) PROVE RemoteHeldBy(v)'
  BY <1>1, <1>2, <1>3, <1>4, <1>5, <1>6, ScanStep
<1>7. ASSUME NEW m \in Machines, Trained(m) PROVE RemoteHeldBy(v)'
  <2>1. inbound_async' = Listed(m) /\ scan' = scan /\ machine[v] # m /\ pc'[v] = pc[v]
    BY <1>7, TrainingEnds
  <2>2. \A s \in Stargates : target[s] \in TimelinesOf(v) => TargetMachine(s) # m
    BY <2>1 DEF TimelinesOf, TargetMachine
  <2>3. \A s \in Stargates : target[s] \in TimelinesOf(v) =>
          (s \in inbound_async' <=> s \in inbound_async)
    BY <2>1, <2>2 DEF Listed
  <2> QED BY <1>1, <2>1, <2>3
<1>8. CASE ~(\E u \in Universes : Thread(u)) /\ ~(\E m \in Machines : Trained(m))
  <2>1. scan' = scan /\ UNCHANGED windowVars
    BY <1>8, OtherFrame DEF Next, Finished
  <2>2. pc[v] = "scan"
    BY <1>8, OtherScan
  <2> QED BY <1>1, <2>1, <2>2 DEF windowVars
<1> QED BY <1>6, <1>7, <1>8

LEMMA NextMailboxes ==
  ASSUME TypeOK, TypeOK', Meeting, Agreement, Scheduling, Routes, Phases, Kinds, Announced,
         Mailboxes, [Next]_vars
  PROVE  Mailboxes'
BY NextMailListed, NextRemoteMail, NextRemoteHeld DEF Mailboxes

LEMMA InitMailboxes == Init => Mailboxes
BY DEF Init, Mailboxes, MailListed, RemoteMail, RemoteHeld

-----------------------------------------------------------------------------
(* No message between machines is late.                                    *)

\* Where a message between machines is before it reaches the mailbox of its
\* stargate, if anybody waits for it.
LEMMA OnItsWay ==
  ASSUME TypeOK, Scheduling, Routes, Kinds, NEW e \in InFlight, Remote(e.sg)
  PROVE  /\ e \in MessageType
         /\ e \in mailbox[e.sg] \/ (~IsNull(e) /\ (Soon(e) => e \in Coming(e.sg)))
<1> DEFINE s == e.sg
<1>0. e \in MessageType /\ s \in Stargates /\ QueueRoutes /\ MailRoutes /\ NetRoutes
  BY InFlightType DEF MessageType, Routes
<1>1. CASE e \in BetweenMachines
  <2>1. ~IsNull(e)
    BY <1>1 DEF BetweenMachines
  <2>2. ASSUME NEW m \in Machines, e \in remote_mailbox[m], Soon(e)
        PROVE  e \in Outside(s)
    <3>1. SourceMachine(s) = m
      BY <1>0, <2>2 DEF NetRoutes
    <3> QED BY <1>0, <2>2, <3>1 DEF Outside
  <2>3. ASSUME NEW mn \in Machines \X Machines, NEW b \in Range(net[mn]), e \in b.regular, Soon(e)
        PROVE  e \in Outside(s)
    <3>1. PICK n \in Machines, m \in Machines : mn = <<n, m>>
      OBVIOUS
    <3>2. SourceMachine(s) = n /\ TargetMachine(s) = m
      BY <1>0, <2>3, <3>1 DEF NetRoutes
    <3>3. OnLine(s, e)
      BY <2>3, <3>1, <3>2 DEF OnLine
    <3> QED BY <1>0, <2>3, <3>3 DEF Outside
  <2>4. Soon(e) => e \in Outside(s)
    BY <1>1, <2>2, <2>3 DEF BetweenMachines
  <2> QED BY <1>0, <2>1, <2>4 DEF Coming
<1>2. ASSUME NEW u \in Universes, e \in (Range(umailbox[u]) \cup Range(ctx[u].io)), ~IsNull(e)
      PROVE  Soon(e) => e \in Coming(s)
  <2>1. Here(s) = u
    BY <1>2 DEF Scheduling, Threads, ThreadOK, Owned, Here, Dest
  <2> QED BY <1>0, <1>2, <2>1 DEF Coming, Arrived, Read
<1>3. ASSUME NEW u \in Universes, e \in local_binque[u] \/ e \in switch_board[u] PROVE FALSE
  BY <1>0, <1>3 DEF QueueRoutes
<1>4. ASSUME NEW u \in Universes, e \in global_binque[u]
      PROVE  ~IsNull(e) /\ (Soon(e) => e \in Coming(s))
  <2>1. There(s) = u /\ ~IsNull(e)
    BY <1>0, <1>4 DEF QueueRoutes, Kinds, There
  <2> QED BY <1>0, <1>4, <2>1 DEF Coming, Outside
<1>5. ASSUME NEW r \in Stargates, e \in mailbox[r] PROVE e \in mailbox[s]
  <2>1. r = s
    BY <1>0, <1>5 DEF MailRoutes
  <2> QED BY <1>5, <2>1
<1> QED BY <1>0, <1>1, <1>2, <1>3, <1>4, <1>5 DEF InFlight

\* No message from another machine is due before the bound of its timeline.
LEMMA RemoteBounds ==
  ASSUME TypeOK, Meeting, Scheduling, Routes, Kinds, Announced, Mailboxes
  PROVE  RemoteSafe
<1> SUFFICES ASSUME NEW e \in InFlight, Remote(e.sg)
             PROVE  lbts[Dest(e)] <= e.t
  BY DEF RemoteSafe
<1> DEFINE s == e.sg
           t == target[s]
           u == Here(s)
<1>0. e \in MessageType /\ s \in Stargates /\ e.t \in Nat /\ Dest(e) = t
  BY OnItsWay DEF MessageType, Dest
<1>1. /\ u \in Universes /\ t \in Timelines /\ universe[t] = u /\ EpochAfter(u) \in Nat
      /\ InGate(s) = rgate[s] /\ rgate[s].time \in Nat
  BY <1>0, RemoteEnds DEF Here
<1>2. /\ lbts[t] \in Nat
      /\ InWindow(u) => lbts[t] <= next_epoch[u]
      /\ ~InWindow(u) => lbts[t] = synpoint[u]
  BY <1>1, BoundInWindow
<1>3. synpoint[u] <= next_epoch[u] /\ next_epoch[u] <= endtime
  BY <1>1 DEF Meeting, Edges, Bounds
<1>4. synpoint[u] \in Nat /\ next_epoch[u] \in Nat /\ endtime \in Nat
  BY <1>1, ParameterAssumption DEF TypeOK, WindowTypeOK
<1> HIDE DEF u, t
<1>5. lbts[t] <= EpochAfter(u) /\ lbts[t] <= endtime
  BY <1>2, <1>3, <1>4 DEF EpochAfter
<1>6. CASE e \in mailbox[s]
  BY <1>0, <1>6 DEF Mailboxes, RemoteMail, t
<1>7. CASE e \notin mailbox[s]
  <2>1. ~IsNull(e) /\ (Soon(e) => DueIn(s, e))
    BY <1>0, <1>7, OnItsWay DEF Announced
  <2>2. CASE ~Soon(e)
    <3>1. endtime <= e.t
      BY <1>0, <1>4, <2>1, <2>2 DEF Soon
    <3> QED BY <1>0, <1>2, <1>4, <1>5, <3>1
  <2>3. CASE Soon(e) /\ rgate[s].in_sync
    <3>1. EpochAfter(u) <= e.t
      BY <2>1, <2>3 DEF DueIn, u
    <3> QED BY <1>0, <1>1, <1>2, <1>5, <3>1
  <2>4. CASE Soon(e) /\ ~rgate[s].in_sync
    <3>1. rgate[s].time <= e.t
      BY <2>1, <2>4 DEF DueIn
    <3>2. lbts[t] <= rgate[s].time
      BY <1>0, <1>1, <2>4 DEF Scheduling, Gates, t
    <3> QED BY <1>0, <1>1, <1>2, <3>1, <3>2
  <2> QED BY <2>2, <2>3, <2>4
<1> QED BY <1>6, <1>7

\* A message that waits for the edge of an epoch is for after the window of the
\* universe it is for.
LEMMA KeptForEdge ==
  ASSUME TypeOK, Meeting, Agreement, Scheduling, Routes, Phases, Kinds, Waits,
         NEW v \in Universes, NEW e \in global_binque[v], NEW u \in Universes,
         universe[Dest(e)] = u, InWindow(u)
  PROVE  next_window(u) <= e.t
<1> DEFINE s == e.sg
<1>0. e \in MessageType
  BY DEF TypeOK, MessageTypeOK
<1>1. s \in Stargates /\ e.t \in Nat /\ ~IsNull(e) /\ Remote(s) /\ There(s) = v /\ Here(s) = u
  BY <1>0 DEF MessageType, Routes, QueueRoutes, Kinds, There, Here, Dest
<1>2. /\ next_window(u) \in Nat /\ next_window(u) <= next_epoch[u]
      /\ next_epoch[u] \in Nat /\ endtime \in Nat /\ EpochAfter(v) \in Nat
  BY <1>1, WindowFacts, RemoteEnds, ParameterAssumption DEF TypeOK
<1>3. next_epoch[u] <= endtime
  BY DEF Meeting, Edges, Bounds
<1>4. CASE ~Soon(e)
  BY <1>1, <1>2, <1>3, <1>4 DEF Soon
<1>5. CASE Soon(e)
  <2>1. e \in Waiting(s)
    BY <1>0, <1>1, <1>5 DEF Waiting
  <2>2. /\ EpochAfter(v) <= e.t
        /\ SentEpoch(v) => training_finished[machine[v]] /\ Onward(machine[v]) <= e.t
    BY <1>1, <2>1, RemoteEnds DEF Waits
  <2>3. Stage(machine[u]) \notin {"met", "training", "trained"}
    <3>1. proc0[machine[u]] \in Mates(u) /\ proc0[machine[u]] \in Universes /\ u \in Mates(proc0[machine[u]])
      BY <1>1, RemoteEnds DEF Mates
    <3>2. ~AtEdge(proc0[machine[u]])
      BY <3>1 DEF Meeting, Together, InWindow
    <3>3. machine[u] \in Machines
      BY <1>1, RemoteEnds
    <3> QED BY <3>1, <3>2, <3>3, StagePhase, PhaseEdge, EdgeLabels DEF WindowLabels
  <2>4. Expected(machine[u]).epoch = next_epoch[u]
    BY <2>3, EpochExpected DEF EpochAfter
  <2>5. Expected(machine[u]) = Expected(machine[v])
    BY <1>1, RemoteEnds DEF Agreement, SameJourney
  <2>6. CASE ~(AtEpoch(machine[v]) /\ Stage(machine[v]) \in {"met", "training", "trained"})
    <3>1. Expected(machine[v]).epoch = EpochAfter(v)
      BY <2>6, EpochExpected
    <3> QED BY <1>1, <1>2, <2>2, <2>4, <2>5, <3>1
  <2>7. CASE AtEpoch(machine[v]) /\ Stage(machine[v]) \in {"met", "training", "trained"}
    <3>1. SentEpoch(v)
      <4>1. /\ proc0[machine[v]] \in Mates(v) /\ v \in Mates(proc0[machine[v]])
            /\ machine[v] \in Machines /\ Several
        BY <1>1, RemoteEnds
      <4>2. proc0[machine[v]] \in Universes
        BY <4>1 DEF Mates
      <4>3. Phase(proc0[machine[v]]) # "before" /\ epoch_sync[proc0[machine[v]]]
        BY <2>7, <4>1, StagePhase DEF AtEpoch
      <4>4. AtEdge(proc0[machine[v]])
        BY <4>2, <4>3, PhaseEdge
      <4>5. Phase(v) = Phase(proc0[machine[v]])
        BY <4>1, <4>2, <4>3, <4>4 DEF Phases
      <4>6. epoch_sync[v]
        BY <4>1, <4>2, <4>3, <4>4, MatesAtEdge DEF SameEdge
      <4> QED BY <4>3, <4>5, <4>6 DEF SentEpoch
    <3>2. training_finished[machine[v]] /\ Onward(machine[v]) <= e.t
      BY <2>2, <3>1
    <3>3. Expected(machine[v]).epoch = Onward(machine[v])
      BY <2>7, <3>2, EpochExpected
    <3>4. next_epoch[u] <= e.t
      BY <2>4, <2>5, <3>2, <3>3
    <3> QED BY <1>1, <1>2, <3>4
  <2> QED BY <2>6, <2>7
<1> QED BY <1>4, <1>5

-----------------------------------------------------------------------------
(* The first state.                                                        *)

\* What the entities write to stargates between machines during their
\* initialization: the delay of the stargate applies, and the first
\* classification leaves it synchronous.  (As inside a machine, nothing in the
\* code sees to an asynchronous one: see the run init_write.)
InitWritesAhead ==
  \A e \in InitWrites : Remote(e.sg) =>
    StartGlobal.thresh <= min_delay[e.sg] /\ min_delay[e.sg] <= e.t

LEMMA InitPlaces ==
  ASSUME Init, NEW s \in Stargates, Remote(s)
  PROVE  /\ gate[s] = Classify(Unclassified, RemoteGates, StartGlobal.thresh, 0)[s]
         /\ rgate[s] = gate[s]
         /\ rgate[s].time = 0 \/ ~rgate[s].in_sync
         /\ StartGlobal.thresh <= min_delay[s] => rgate[s].in_sync
         /\ \A u \in Universes :
              /\ pc[u] = "top" /\ synpoint[u] = 0 /\ ~epoch_sync[u] /\ umailbox[u] = <<>>
              /\ ctx[u].io = <<>>
              /\ next_epoch[u] = Clip(epoch_length[machine[u]], global_roundup[machine[u]])
              /\ global_binque[u] =
                   {e \in InitWrites : universe[source[e.sg]] = u /\ Remote(e.sg)}
         /\ \A m \in Machines : remote_mailbox[m] = {}
         /\ \A n, m \in Machines : net[<<n, m>>] = <<>>
<1>1. /\ gate[s] = Classify(Unclassified, RemoteGates, StartGlobal.thresh, 0)[s]
      /\ rgate[s] = Classify(Unclassified, RemoteGates, StartGlobal.thresh, 0)[s]
  BY DEF Init
<1>2. s \in RemoteGates
  BY DEF RemoteGates
<1>3. LET c == Classify(Unclassified, RemoteGates, StartGlobal.thresh, 0)[s] IN
      IF min_delay[s] < StartGlobal.thresh THEN ~c.in_sync ELSE c.in_sync /\ c.time = 0
  <2>1. Unclassified[s] \in GateType /\ Unclassified[s].time = 0
    BY DEF Unclassified, GateType
  <2>2. Classify(Unclassified, RemoteGates, StartGlobal.thresh, 0)[s] =
          IF min_delay[s] < StartGlobal.thresh
          THEN [in_sync |-> FALSE,
                time |-> IF Unclassified[s].in_sync THEN 0 + min_delay[s] ELSE Unclassified[s].time]
          ELSE [Unclassified[s] EXCEPT !.in_sync = TRUE]
    BY <1>2 DEF Classify
  <2>3. ASSUME NEW r \in GateType
        PROVE  [r EXCEPT !.in_sync = TRUE].in_sync /\ [r EXCEPT !.in_sync = TRUE].time = r.time
    BY DEF GateType
  <2>4. CASE min_delay[s] < StartGlobal.thresh
    BY <2>2, <2>4
  <2>5. CASE ~(min_delay[s] < StartGlobal.thresh)
    BY <2>1, <2>2, <2>3, <2>5
  <2> QED BY <2>4, <2>5
<1>4. StartGlobal.thresh \in Nat /\ min_delay[s] \in Nat
  BY StartType, TopologyAssumption
<1>5. /\ rgate[s].time = 0 \/ ~rgate[s].in_sync
      /\ StartGlobal.thresh <= min_delay[s] => rgate[s].in_sync
  BY <1>1, <1>3, <1>4
<1>6. \A u \in Universes :
        /\ pc[u] = "top" /\ synpoint[u] = 0 /\ ~epoch_sync[u] /\ umailbox[u] = <<>>
        /\ ctx[u].io = <<>>
  BY DEF Init, Idle
<1>7. \A u \in Universes :
        /\ next_epoch[u] = Clip(epoch_length[machine[u]], global_roundup[machine[u]])
        /\ global_binque[u] =
             {e \in InitWrites : universe[source[e.sg]] = u /\ Remote(e.sg)}
  BY DEF Init
<1>8. /\ \A m \in Machines : remote_mailbox[m] = {}
      /\ \A n, m \in Machines : net[<<n, m>>] = <<>>
  BY DEF Init
<1> QED BY <1>1, <1>5, <1>6, <1>7, <1>8

\* The first messages are for after the first epoch.
LEMMA InitAhead ==
  ASSUME InitWritesAhead, Init, NEW s \in Stargates, Remote(s), NEW e \in Coming(s)
  PROVE  /\ e \in Waiting(s) /\ rgate[s].in_sync /\ gate[s] = rgate[s] /\ e.t \in Nat
         /\ rgate[s].time = 0
         /\ next_epoch[There(s)] <= e.t /\ next_epoch[Here(s)] <= e.t
         /\ ~epoch_sync[There(s)] /\ ~epoch_sync[Here(s)]
         /\ pc[There(s)] = "top"
<1>0. TypeOK /\ EpochClasses
  BY InitType, InitEpochClasses
<1>1. /\ There(s) \in Universes /\ Here(s) \in Universes
      /\ SourceMachine(s) \in Machines /\ TargetMachine(s) \in Machines
      /\ machine[There(s)] = SourceMachine(s) /\ machine[Here(s)] = TargetMachine(s)
      /\ min_delay[s] \in Nat
      /\ next_epoch[There(s)] \in Nat /\ next_epoch[Here(s)] \in Nat
  BY <1>0, RemoteEnds
<1>2. e \in MessageType /\ e.sg = s /\ Soon(e) /\ e \in global_binque[There(s)]
  <2>1. ~OnLine(s, e) /\ e \notin remote_mailbox[SourceMachine(s)]
    BY <1>1, InitPlaces, EmptyRange DEF OnLine
  <2>2. e \notin Arrived(s) /\ e \notin Read(s)
    BY <1>1, InitPlaces, EmptyRange DEF Arrived, Read
  <2> QED BY <2>1, <2>2 DEF Coming, Outside
<1>3. e \in InitWrites /\ e.t \in Nat
  BY <1>1, <1>2, InitPlaces DEF MessageType
<1>4. StartGlobal.thresh <= min_delay[s] /\ min_delay[s] <= e.t
  BY <1>2, <1>3 DEF InitWritesAhead
<1>5. rgate[s].in_sync /\ gate[s] = rgate[s] /\ rgate[s].time = 0
  BY <1>4, InitPlaces
<1>6. /\ epoch_length[SourceMachine(s)] <= min_delay[s]
      /\ epoch_length[TargetMachine(s)] <= min_delay[s]
  BY <1>0, <1>5 DEF EpochClasses
<1>7. ASSUME NEW u \in Universes, epoch_length[machine[u]] <= min_delay[s], machine[u] \in Machines
      PROVE  next_epoch[u] <= e.t
  <2>1. next_epoch[u] = Clip(epoch_length[machine[u]], global_roundup[machine[u]])
    BY InitPlaces
  <2>2. /\ epoch_length[machine[u]] \in Nat /\ global_roundup[machine[u]] \in Nat /\ endtime \in Nat
    BY <1>0, <1>7, ParameterAssumption DEF TypeOK, WindowTypeOK
  <2>3. next_epoch[u] <= epoch_length[machine[u]]
    BY <2>1, <2>2, ClipIs
  <2>4. next_epoch[u] \in Nat
    BY <1>0 DEF TypeOK, WindowTypeOK
  <2> QED BY <1>1, <1>3, <1>4, <1>7, <2>2, <2>3, <2>4
<1>8. next_epoch[There(s)] <= e.t /\ next_epoch[Here(s)] <= e.t
  BY <1>1, <1>6, <1>7
<1>9. ~epoch_sync[There(s)] /\ ~epoch_sync[Here(s)] /\ pc[There(s)] = "top"
  BY <1>1, InitPlaces
<1> QED BY <1>2, <1>3, <1>5, <1>8, <1>9 DEF Waiting

LEMMA InitWaits == InitWritesAhead /\ Init => Waits /\ Announced
<1> SUFFICES ASSUME InitWritesAhead, Init PROVE Waits /\ Announced
  OBVIOUS
<1>1. Waits
  <2> SUFFICES ASSUME NEW s \in Stargates, Remote(s), NEW e \in Waiting(s)
               PROVE  /\ gate[s].in_sync /\ gate[s].time <= e.t
                      /\ EpochAfter(There(s)) <= e.t
                      /\ ~SentEpoch(There(s))
    BY DEF Waits
  <2>1. e \in Coming(s)
    BY DEF Coming, Waiting, Outside
  <2>2. /\ gate[s].in_sync /\ gate[s].time = 0 /\ e.t \in Nat
        /\ next_epoch[There(s)] <= e.t /\ ~epoch_sync[There(s)]
    BY <2>1, InitAhead
  <2>3. pc[There(s)] = "top"
    BY <2>1, InitAhead
  <2>4. gate[s].time <= e.t
    BY <2>2
  <2>5. EpochAfter(There(s)) <= e.t
    BY <2>2 DEF EpochAfter
  <2>6. ~SentEpoch(There(s))
    BY <2>2 DEF SentEpoch
  <2> QED BY <2>2, <2>4, <2>5, <2>6
<1>2. Announced
  <2> SUFFICES ASSUME NEW s \in Stargates, Remote(s), NEW e \in Coming(s)
               PROVE  DueIn(s, e)
    BY DEF Announced
  <2> QED BY InitAhead DEF DueIn, EpochAfter
<1> QED BY <1>1, <1>2

LEMMA InitRest == Init => Phases /\ Passed /\ TimeKnown
<1> SUFFICES ASSUME Init PROVE Phases /\ Passed /\ TimeKnown
  OBVIOUS
<1>1. /\ \A u \in Universes : pc[u] = "top" /\ ~epoch_sync[u]
  BY DEF Init
<1>2. Phases
  BY <1>1 DEF Phases
<1>3. Passed
  BY <1>1, TopologyAssumption DEF Passed, AtEpoch
<1>4. TimeKnown
  <2> SUFFICES ASSUME NEW s \in Stargates, Remote(s)
               PROVE  rgate[s].time <= gate[s].time
    BY DEF TimeKnown
  <2>1. rgate[s] = gate[s] /\ rgate[s].time \in Nat
    BY InitPlaces, InitType, RemoteEnds
  <2> QED BY <2>1
<1> QED BY <1>2, <1>3, <1>4

-----------------------------------------------------------------------------
(* The inductive invariant, and what follows from it.                      *)

\* How far the machines have come, and what they believe of one another.
Epochs == Phases /\ Passed /\ EpochLengths /\ EpochClasses /\ TimeKnown
\* Where the messages between them are.
Lines == /\ Kinds /\ NullsTold /\ NotifiesInside /\ Waits /\ Orders
         /\ FreshMail /\ Announced /\ Mailboxes
Journeys == /\ TypeOK /\ Meeting /\ Agreement /\ Scheduling /\ Wakeups /\ Lookahead
            /\ Epochs /\ Lines

LEMMA InitJourneys == InitWritesOnTime /\ InitWritesAhead /\ Init => Journeys
<1> SUFFICES ASSUME InitWritesOnTime, InitWritesAhead, Init PROVE Journeys
  OBVIOUS
<1>1. TypeOK /\ Meeting /\ Agreement /\ Scheduling /\ Wakeups /\ Lookahead
  BY InitType, InitMeeting, InitAgrees, InitScheduling, InitWakeups, InitLookahead
<1>2. Epochs
  BY InitRest, InitEpochLengths, InitEpochClasses DEF Epochs
<1>3. Lines
  BY InitKinds, InitWaits, InitOrders, InitFreshMail, InitMailboxes DEF Lines
<1> QED BY <1>1, <1>2, <1>3 DEF Journeys

LEMMA NextJourneys == Journeys /\ [Next]_vars => Journeys'
<1> SUFFICES ASSUME Journeys, [Next]_vars PROVE Journeys'
  OBVIOUS
<1>1. /\ TypeOK /\ Meeting /\ Agreement /\ Scheduling /\ Wakeups /\ Lookahead
      /\ Epochs /\ Lines
  BY DEF Journeys
<1>2. /\ Routes /\ Events /\ ClocksInside /\ Promises
      /\ Phases /\ Passed /\ EpochLengths /\ EpochClasses /\ TimeKnown
      /\ Kinds /\ NullsTold /\ NotifiesInside /\ Waits /\ Orders
      /\ FreshMail /\ Announced /\ Mailboxes
  BY <1>1 DEF Lookahead, Epochs, Lines
<1>3. RemoteSafe
  BY <1>1, <1>2, RemoteBounds
<1>4. TypeOK' /\ Meeting' /\ Agreement' /\ Scheduling' /\ Wakeups' /\ Lookahead'
  BY <1>1, <1>3, NextType, NextMeeting, NextAgrees, NextScheduling, NextWakeups, NextLookahead
<1>5. Phases' /\ Passed' /\ EpochLengths'
  BY <1>1, <1>2, <1>4, NextPhases, NextPassed, NextEpochLengths
<1>6. EpochClasses'
  BY <1>1, <1>2, NextEpochClasses
<1>7. TimeKnown'
  BY <1>1, <1>2, <1>4, NextTimeKnown
<1>8. Epochs'
  BY <1>5, <1>6, <1>7 DEF Epochs
<1>9. Kinds' /\ NullsTold' /\ NotifiesInside'
  BY <1>1, <1>2, <1>4, NextKinds, NextNullsTold, NextNotifiesInside
<1>10. Waits'
  BY <1>1, <1>2, <1>4, NextWaits
<1>11. Orders'
  BY <1>1, <1>2, <1>4, NextOrders
<1>12. FreshMail'
  BY <1>1, <1>2, <1>4, NextFreshMail
<1>13. Announced'
  BY <1>1, <1>2, <1>4, NextAnnounced
<1>14. Mailboxes'
  BY <1>1, <1>2, <1>4, NextMailboxes
<1>15. Lines'
  BY <1>9, <1>10, <1>11, <1>12, <1>13, <1>14 DEF Lines
<1> QED BY <1>4, <1>8, <1>15 DEF Journeys

(* Wherever the threads, readers and writers of all machines are in their   *)
(* loops: the machines have met at every epoch before they go on from it,   *)
(* and no null message tells of a time after a message that is behind it    *)
(* (mpi_barrier, send_remote_events, notify_appointment, writer_thread,     *)
(* reader_thread and process_remote_events together).                       *)
THEOREM JourneysHold ==
  ASSUME InitWritesOnTime, InitWritesAhead
  PROVE  Spec => []Journeys
<1>1. Init => Journeys
  BY InitJourneys, InitWritesOnTime, InitWritesAhead
<1> QED BY <1>1, NextJourneys, PTL DEF Spec

LEMMA JourneysGive ==
  ASSUME Journeys
  PROVE  /\ TypeOK /\ Meeting /\ Agreement /\ Scheduling /\ Lookahead /\ RemoteSafe
         /\ LbtsSafe /\ ArrivesOnTime
         /\ Routes /\ Phases /\ Kinds /\ Waits /\ Announced
<1>1. /\ TypeOK /\ Meeting /\ Agreement /\ Scheduling /\ Lookahead
      /\ Routes /\ Phases /\ Kinds /\ Waits /\ Announced /\ Mailboxes
  BY DEF Journeys, Epochs, Lines, Lookahead
<1>2. RemoteSafe
  BY <1>1, RemoteBounds
<1>3. LbtsSafe
  BY <1>1, <1>2, BoundsSafe
<1>4. ArrivesOnTime
  BY <1>1, <1>3, ClocksSafe
<1> QED BY <1>1, <1>2, <1>3, <1>4

(* The lower bound of a timeline holds between machines too: whatever its   *)
(* channels, whichever of them the training turns synchronous or            *)
(* asynchronous, and in whatever order the threads of all machines, the     *)
(* readers and the writers move the messages, none on its way to a timeline *)
(* is for a time before the bound up to which the timeline may run.         *)
THEOREM LbtsSafeHolds ==
  ASSUME InitWritesOnTime, InitWritesAhead
  PROVE  Spec => []LbtsSafe
<1>1. Journeys => LbtsSafe
  BY JourneysGive
<1> QED BY <1>1, JourneysHold, InitWritesOnTime, InitWritesAhead, PTL

(* So no message arrives in the past of the timeline it is for, from        *)
(* whichever machine: Timeline::insert_event never aborts the simulation.   *)
THEOREM ArrivesOnTimeHolds ==
  ASSUME InitWritesOnTime, InitWritesAhead
  PROVE  Spec => []ArrivesOnTime
<1>1. Journeys => ArrivesOnTime
  BY JourneysGive
<1> QED BY <1>1, JourneysHold, InitWritesOnTime, InitWritesAhead, PTL

(* What a machine believes of a channel from another one is never ahead of  *)
(* the messages on that channel: null messages do not overtake what was     *)
(* written before them, and a channel that becomes asynchronous starts      *)
(* behind the messages of its synchronous past (Universe::process_remote_   *)
(* events, writer_thread, mpi_barrier).                                     *)
THEOREM ChannelTimeSafeHolds ==
  ASSUME InitWritesOnTime, InitWritesAhead
  PROVE  Spec => []ChannelTimeSafe
<1>1. Journeys => ChannelTimeSafe
  <2> SUFFICES ASSUME Journeys, NEW e \in BetweenMachines, Counted(e), ~rgate[e.sg].in_sync
               PROVE  rgate[e.sg].time <= e.t
    BY DEF ChannelTimeSafe
  <2>1. TypeOK /\ Scheduling /\ Routes /\ Kinds /\ Announced
    BY JourneysGive
  <2>2. e \in InFlight /\ Soon(e)
    BY DEF InFlight, BetweenMachines, Counted, Soon
  <2>3. e \in MessageType /\ e.sg \in Stargates
    BY <2>1, <2>2, InFlightType DEF MessageType
  <2>4. Remote(e.sg)
    <3>1. ASSUME NEW m \in Machines, e \in remote_mailbox[m] PROVE Remote(e.sg)
      BY <2>1, <3>1 DEF Routes, NetRoutes
    <3>2. ASSUME NEW mn \in Machines \X Machines, NEW b \in Range(net[mn]), e \in b.regular
          PROVE  Remote(e.sg)
      <4>1. PICK n \in Machines, m \in Machines : mn = <<n, m>>
        OBVIOUS
      <4>2. SourceMachine(e.sg) # TargetMachine(e.sg)
        BY <2>1, <3>2, <4>1 DEF Routes, NetRoutes
      <4> QED BY <4>2 DEF Remote
    <3> QED BY <3>1, <3>2 DEF BetweenMachines
  <2>5. e \in Coming(e.sg)
    <3>1. ASSUME NEW m \in Machines, e \in remote_mailbox[m] PROVE e \in Coming(e.sg)
      <4>1. SourceMachine(e.sg) = m
        BY <2>1, <3>1 DEF Routes, NetRoutes
      <4> QED BY <2>2, <2>3, <3>1, <4>1 DEF Coming, Outside
    <3>2. ASSUME NEW mn \in Machines \X Machines, NEW b \in Range(net[mn]), e \in b.regular
          PROVE  e \in Coming(e.sg)
      <4>1. PICK n \in Machines, m \in Machines : mn = <<n, m>>
        OBVIOUS
      <4>2. SourceMachine(e.sg) = n /\ TargetMachine(e.sg) = m
        BY <2>1, <3>2, <4>1 DEF Routes, NetRoutes
      <4>3. OnLine(e.sg, e)
        BY <3>2, <4>1, <4>2 DEF OnLine
      <4> QED BY <2>2, <2>3, <4>3 DEF Coming, Outside
    <3> QED BY <3>1, <3>2 DEF BetweenMachines
  <2> QED BY <2>1, <2>3, <2>4, <2>5 DEF Announced, DueIn
<1> QED BY <1>1, JourneysHold, InitWritesOnTime, InitWritesAhead, PTL

(* Synchronous messages, those between machines included, are delivered at  *)
(* the edge before they are due: in a window no queue still holds one for a *)
(* time inside the window (dispatch_local_events, send_remote_events and    *)
(* the collectives of an epoch).                                            *)
THEOREM DeliveredAtEdgeHolds ==
  ASSUME InitWritesOnTime, InitWritesAhead
  PROVE  Spec => []DeliveredAtEdge
<1>1. Journeys => DeliveredAtEdge
  <2> SUFFICES ASSUME Journeys,
                      NEW u \in Universes, NEW v \in Universes,
                      NEW e \in local_binque[v] \cup switch_board[v] \cup global_binque[v],
                      universe[Dest(e)] = u,
                      pc[u] \in {"open", "sched", "run", "update", "notify", "io"}
               PROVE  next_window(u) <= e.t
    BY DEF DeliveredAtEdge
  <2>0. /\ TypeOK /\ Meeting /\ Agreement /\ Scheduling /\ Lookahead
        /\ Routes /\ Phases /\ Kinds /\ Waits
    BY JourneysGive
  <2>1. e \in MessageType
    BY <2>0 DEF TypeOK, MessageTypeOK
  <2>2. e.sg \in Stargates /\ e.t \in Nat
    BY <2>1 DEF MessageType
  <2>3. InWindow(u)
    BY DEF InWindow, AtEdge, WindowLabels
  <2>4. /\ next_window(u) \in Nat /\ next_decade[u] \in Nat /\ next_window(u) <= next_decade[u]
    BY <2>0, WindowFacts DEF TypeOK
  <2>5. CASE e \in local_binque[v]
    <3>1. next_decade[u] <= e.t
      BY <2>0, <2>3, <2>5 DEF Lookahead, Queues, DueAfter
    <3> QED BY <2>2, <2>4, <3>1
  <2>6. CASE e \in switch_board[v]
    <3>1. u = v /\ pc[v] \in {"dispatch", "dispatched", "collect"}
      BY <2>0, <2>6 DEF Lookahead, Routes, QueueRoutes, Boards
    <3> QED BY <3>1
  <2>7. CASE e \in global_binque[v]
    BY <2>0, <2>3, <2>7, KeptForEdge
  <2> QED BY <2>5, <2>6, <2>7
<1> QED BY <1>1, JourneysHold, InitWritesOnTime, InitWritesAhead, PTL

(* And nothing is left behind, on whichever line: when every thread of      *)
(* every machine has left the main loop, every event for a time before the  *)
(* end of the simulation has been processed.                                *)
THEOREM AllProcessedHolds ==
  ASSUME InitWritesOnTime, InitWritesAhead
  PROVE  Spec => []AllProcessed
<1>1. Journeys => AllProcessed
  BY JourneysGive, NothingLeft
<1> QED BY <1>1, JourneysHold, InitWritesOnTime, InitWritesAhead, PTL

-----------------------------------------------------------------------------
(* How far a timeline may be ahead of another machine.                     *)

\* A universe between two windows is at most the length of an epoch away from
\* the epoch its machine is heading for.
LEMMA ExpectedAhead ==
  ASSUME TypeOK, Meeting, Agreement, Scheduling, EpochLengths,
         NEW u \in Universes, ~InWindow(u), Expected(machine[u]).length \in Nat
  PROVE  Expected(machine[u]).epoch <= synpoint[u] + Expected(machine[u]).length
<1> DEFINE m == machine[u]
           p == proc0[m]
<1>0. /\ m \in Machines /\ p \in Universes /\ machine[p] = m
      /\ p \in Mates(u) /\ u \in Mates(p)
  BY TopologyAssumption DEF Mates
<1>1. /\ synpoint[u] \in Nat /\ next_epoch[u] \in Nat /\ epoch_length[m] \in Nat
      /\ synpoint[p] \in Nat /\ global_roundup[m] \in Nat
  BY <1>0 DEF TypeOK, WindowTypeOK
<1>2. CASE ~(AtEpoch(m) /\ Stage(m) \in {"met", "training", "trained"})
  <2>1. Expected(m).epoch = EpochAfter(u) /\ Expected(m).length = epoch_length[m]
    BY <1>2, EpochExpected
  <2>2. CASE epoch_sync[u]
    <3>1. EpochAfter(u) = synpoint[u]
      BY <2>2 DEF EpochAfter
    <3> QED BY <1>1, <2>1, <3>1
  <2>3. CASE ~epoch_sync[u]
    <3>1. EpochAfter(u) = next_epoch[u]
      BY <2>3 DEF EpochAfter
    <3>2. ~(TrainerDone(m) /\ global_reclassified[m])
      <4> SUFFICES ASSUME TrainerDone(m), global_reclassified[m] PROVE FALSE
        OBVIOUS
      <4>1. pc[p] \in {"train global", "trained"}
        BY DEF TrainerDone
      <4>2. Stage(m) \in {"training", "trained"} /\ AtEdge(p)
        BY <4>1 DEF Stage, AtEdge, WindowLabels
      <4>3. epoch_sync[p]
        <5>1. CASE pc[p] = "train global"
          BY <1>0, <5>1, AtGlobalTraining DEF TrainsGlobally
        <5>2. CASE pc[p] = "trained"
          <6>1. Stage(m) = "trained"
            BY <5>2 DEF Stage
          <6> QED BY <1>0, <6>1 DEF Agreement, Stages, StageOK
        <5> QED BY <4>1, <5>1, <5>2
      <4>4. ~InWindow(p)
        BY <4>2 DEF InWindow
      <4> QED BY <1>2, <4>2, <4>3, <4>4 DEF AtEpoch
    <3>3. next_epoch[u] <= synpoint[u] + epoch_length[m]
      BY <3>2 DEF EpochLengths
    <3> QED BY <2>1, <3>1, <3>3
  <2> QED BY <2>2, <2>3
<1>3. CASE AtEpoch(m) /\ Stage(m) \in {"met", "training", "trained"}
  <2>1. AtEdge(p)
    BY <1>3 DEF Stage, AtEdge, WindowLabels
  <2>2. synpoint[u] = synpoint[p]
    BY <1>0, <2>1, MatesAtEdge DEF SameEdge
  <2>3. CASE Expected(m) = Journey(m, Onward(m))
    <3>1. Onward(m) <= synpoint[p] + epoch_length[m]
      BY <1>1, ClipIs DEF Onward
    <3> QED BY <1>1, <2>2, <2>3, <3>1 DEF Journey
  <2>4. CASE Expected(m) = Journey(m, synpoint[p])
    BY <1>1, <2>2, <2>4 DEF Journey
  <2>5. CASE Expected(m) = TrialAhead(m)
    <3> DEFINE i == IF StartingGlobal(m) THEN 1 ELSE g_idx[m] + 1
               l == global_thresholds[i]
    <3>1. Expected(m).length = l
          /\ Expected(m).epoch = Clip(synpoint[p] + l, global_roundup[m] + global_round)
      BY <2>5 DEF TrialAhead
    <3>2. l \in Nat /\ global_round \in Nat
      BY <3>1, ParameterAssumption
    <3> HIDE DEF l
    <3>3. Clip(synpoint[p] + l, global_roundup[m] + global_round) <= synpoint[p] + l
      <4>1. synpoint[p] + l \in Nat /\ global_roundup[m] + global_round \in Nat
        BY <1>1, <3>2
      <4> QED BY <4>1, ClipIs
    <3> QED BY <2>2, <3>1, <3>3
  <2> QED BY <1>3, <2>3, <2>4, <2>5 DEF Expected
<1> QED BY <1>2, <1>3

\* The bound of a timeline is within the reach of every stargate to it, those
\* of other machines included.
LEMMA RemoteReach ==
  ASSUME TypeOK, Meeting, Agreement, Scheduling, ClocksInside, Promises,
         Passed, EpochLengths, EpochClasses, TimeKnown,
         NEW s \in Stargates, Remote(s), InWindow(Here(s))
  PROVE  lbts[target[s]] <= simclock[source[s]] + min_delay[s]
<1> DEFINE u == There(s)
           v == Here(s)
           n == SourceMachine(s)
           k == TargetMachine(s)
           reach == simclock[source[s]] + min_delay[s]
<1>0. /\ u \in Universes /\ v \in Universes /\ machine[u] = n /\ machine[v] = k
      /\ n \in Machines /\ k \in Machines
      /\ synpoint[u] \in Nat /\ min_delay[s] \in Nat /\ simclock[source[s]] \in Nat
      /\ gate[s].time \in Nat /\ rgate[s].time \in Nat /\ InGate(s) = rgate[s]
      /\ EpochAfter(u) \in Nat /\ EpochAfter(v) \in Nat /\ next_epoch[v] \in Nat
      /\ source[s] \in Timelines /\ target[s] \in Timelines
      /\ proc0[k] \in Mates(v) /\ v \in Mates(proc0[k])
  BY RemoteEnds
<1>1. lbts[target[s]] \in Nat /\ lbts[target[s]] <= next_epoch[v]
  BY <1>0, BoundInWindow DEF Here
<1>2. synpoint[u] <= simclock[source[s]] /\ gate[s].time <= reach
  BY <1>0 DEF ClocksInside, Promises, There
<1>3. CASE ~rgate[s].in_sync
  <2>1. lbts[target[s]] <= rgate[s].time
    BY <1>0, <1>3 DEF Scheduling, Gates
  <2>2. rgate[s].time <= gate[s].time \/ rgate[s].time <= synpoint[u] + min_delay[s]
    BY DEF TimeKnown
  <2> QED BY <1>0, <1>1, <1>2, <2>1, <2>2
<1>4. CASE rgate[s].in_sync
  <2>1. EpochAfter(v) = next_epoch[v]
    BY DEF EpochAfter
  <2>2. CASE InWindow(u)
    <3>1. EpochAfter(v) <= reach
      BY <1>4, <2>2, EpochReach
    <3> QED BY <1>0, <1>1, <2>1, <3>1
  <2>3. CASE ~InWindow(u)
    <3>1. epoch_length[k] <= min_delay[s] /\ epoch_length[k] \in Nat
      BY <1>0, <1>4 DEF EpochClasses, TypeOK, WindowTypeOK
    <3>2. ~(AtEpoch(k) /\ Stage(k) \in {"met", "training", "trained"})
      <4> SUFFICES ASSUME Stage(k) \in {"met", "training", "trained"} PROVE FALSE
        OBVIOUS
      <4>1. AtEdge(proc0[k]) /\ proc0[k] \in Universes
        BY <1>0, TopologyAssumption DEF Stage, AtEdge, WindowLabels
      <4>2. ~InWindow(v)
        BY <1>0, <4>1, MatesAtEdge
      <4> QED BY <4>2
    <3>3. Expected(k).epoch = next_epoch[v] /\ Expected(k).length = epoch_length[k]
      BY <1>0, <2>1, <3>2, EpochExpected
    <3>4. Expected(n) = Expected(k)
      BY <1>0 DEF Agreement, SameJourney
    <3>5. next_epoch[v] <= synpoint[u] + epoch_length[k]
      BY <1>0, <2>3, <3>1, <3>3, <3>4, ExpectedAhead
    <3> QED BY <1>0, <1>1, <1>2, <3>1, <3>5
  <2> QED BY <2>2, <2>3
<1> QED BY <1>0, <1>3, <1>4

\* Nobody is past the epoch that its machine is heading for.
LEMMA ClockExpected ==
  ASSUME TypeOK, Meeting, Scheduling, NEW t \in Timelines, NEW u, universe[t] = u,
         NEW m, machine[u] = m, Expected(m).length \in Nat
  PROVE  simclock[t] <= Expected(m).epoch
<1> DEFINE p == proc0[m]
<1>0. /\ u \in Universes /\ m \in Machines /\ p \in Universes /\ machine[p] = m
      /\ p \in Mates(u) /\ u \in Mates(p)
  BY TopologyAssumption DEF Mates
<1>1. /\ synpoint[u] \in Nat /\ next_epoch[u] \in Nat /\ epoch_length[m] \in Nat
      /\ synpoint[p] \in Nat /\ next_epoch[p] \in Nat /\ global_roundup[m] \in Nat
      /\ synpoint[u] <= next_epoch[u] /\ synpoint[p] <= next_epoch[p]
      /\ next_epoch[p] <= endtime /\ next_epoch[p] <= global_roundup[m]
  BY <1>0 DEF TypeOK, WindowTypeOK, Meeting, Edges, Bounds
<1>2. simclock[t] \in Nat /\ lbts[t] \in Nat
      /\ (InWindow(u) => simclock[t] <= next_epoch[u])
      /\ (~InWindow(u) => simclock[t] = synpoint[u])
  BY <1>1, BoundInWindow
<1>3. CASE ~(AtEpoch(m) /\ Stage(m) \in {"met", "training", "trained"})
  <2>1. Expected(m).epoch = EpochAfter(u)
    BY <1>0, <1>3, EpochExpected
  <2> QED BY <1>1, <1>2, <2>1 DEF EpochAfter
<1>4. CASE AtEpoch(m) /\ Stage(m) \in {"met", "training", "trained"}
  <2>1. AtEdge(p)
    BY <1>4 DEF Stage, AtEdge, WindowLabels
  <2>2. synpoint[u] = synpoint[p] /\ ~InWindow(u)
    BY <1>0, <2>1, MatesAtEdge DEF SameEdge
  <2>3. simclock[t] = synpoint[p]
    BY <1>2, <2>2
  <2>4. synpoint[p] <= endtime /\ synpoint[p] <= global_roundup[m] /\ endtime \in Nat
    BY <1>1, ParameterAssumption
  <2>5. CASE Expected(m) = Journey(m, Onward(m))
    <3>1. synpoint[p] + epoch_length[m] \in Nat /\ synpoint[p] <= synpoint[p] + epoch_length[m]
      BY <1>1
    <3>2. synpoint[p] <= Onward(m)
      BY <1>1, <2>4, <3>1, ClipIs DEF Onward
    <3> QED BY <2>3, <2>5, <3>2 DEF Journey
  <2>6. CASE Expected(m) = Journey(m, synpoint[p])
    BY <1>1, <2>3, <2>6 DEF Journey
  <2>7. CASE Expected(m) = TrialAhead(m)
    <3> DEFINE i == IF StartingGlobal(m) THEN 1 ELSE g_idx[m] + 1
               l == global_thresholds[i]
    <3>1. Expected(m).length = l
          /\ Expected(m).epoch = Clip(synpoint[p] + l, global_roundup[m] + global_round)
      BY <2>7 DEF TrialAhead
    <3>2. l \in Nat /\ global_round \in Nat
      BY <3>1, ParameterAssumption
    <3> HIDE DEF l
    <3>3. /\ synpoint[p] + l \in Nat /\ global_roundup[m] + global_round \in Nat
          /\ synpoint[p] <= synpoint[p] + l /\ synpoint[p] <= global_roundup[m] + global_round
      BY <1>1, <2>4, <3>2
    <3>4. synpoint[p] <= Clip(synpoint[p] + l, global_roundup[m] + global_round)
      BY <1>1, <2>4, <3>3, ClipIs
    <3> QED BY <2>3, <3>1, <3>4
  <2> QED BY <1>4, <2>5, <2>6, <2>7 DEF Expected
<1> QED BY <1>3, <1>4

\* What a machine has heard when it has been trained is within the next epoch.
Heard ==
  \A s \in Stargates : LET m == TargetMachine(s) IN
    Remote(s) /\ AtEpoch(m) /\ Stage(m) = "trained" => rgate[s].time <= Onward(m) + min_delay[s]

LEMMA HeardInEpoch ==
  ASSUME TypeOK, Meeting, Agreement, Scheduling, ClocksInside, Promises, TimeKnown
  PROVE  Heard
<1> SUFFICES ASSUME NEW s \in Stargates, Remote(s),
                    AtEpoch(TargetMachine(s)), Stage(TargetMachine(s)) = "trained"
             PROVE  rgate[s].time <= Onward(TargetMachine(s)) + min_delay[s]
  BY DEF Heard
<1> DEFINE n == SourceMachine(s)
           m == TargetMachine(s)
           t == source[s]
<1>0. /\ n \in Machines /\ m \in Machines /\ t \in Timelines /\ machine[universe[t]] = n
      /\ min_delay[s] \in Nat /\ simclock[t] \in Nat /\ synpoint[There(s)] \in Nat
      /\ gate[s].time \in Nat /\ rgate[s].time \in Nat
      /\ epoch_length[m] \in Nat /\ global_roundup[m] \in Nat /\ synpoint[proc0[m]] \in Nat
  BY RemoteEnds, TopologyAssumption DEF There, TypeOK, WindowTypeOK
<1>1. Expected(m).epoch = Onward(m) /\ Expected(m).length = epoch_length[m]
  BY DEF Expected, Journey
<1>2. Expected(n) = Expected(m)
  BY <1>0 DEF Agreement, SameJourney
<1>3. simclock[t] <= Onward(m)
  BY <1>0, <1>1, <1>2, ClockExpected
<1>4. Onward(m) \in Nat
  <2>1. synpoint[proc0[m]] + epoch_length[m] \in Nat
    BY <1>0
  <2> QED BY <1>0, <2>1, ClipIs DEF Onward
<1>5. gate[s].time <= simclock[t] + min_delay[s] /\ synpoint[There(s)] <= simclock[t]
  BY <1>0 DEF Promises, ClocksInside, There
<1>6. \/ rgate[s].time <= gate[s].time
      \/ rgate[s].time <= synpoint[There(s)] + min_delay[s]
  BY DEF TimeKnown
<1> QED BY <1>0, <1>3, <1>4, <1>5, <1>6

-----------------------------------------------------------------------------
(* A channel time never goes back.                                         *)

\* The epoch up to which a machine lets its threads run, as far as it knows:
\* the next one as soon as the training after the last one is over.
Ready(m) ==
  LET p == proc0[m] IN
  IF pc[p] = "trained" /\ epoch_sync[p] THEN Onward(m) ELSE EpochAfter(p)
\* The time of a synchronous channel stands still, and is not ahead of what
\* the channel would be given if it became asynchronous.
Frozen ==
  \A s \in Stargates : Remote(s) /\ rgate[s].in_sync =>
    rgate[s].time <= Ready(TargetMachine(s)) + min_delay[s]

\* A machine whose training is over waits for its threads.
LEMMA TrainedWaits ==
  ASSUME TypeOK, Meeting, [Next]_vars, NEW m \in Machines, NEW p, p = proc0[m],
         pc[p] = "trained", ~Trained(m)
  PROVE  /\ pc'[p] = "trained"
         /\ synpoint'[p] = synpoint[p] /\ epoch_sync'[p] = epoch_sync[p]
<1>0. p \in Universes /\ machine[p] = m /\ pc \in [Universes -> Labels]
  BY TopologyAssumption DEF TypeOK, ThreadTypeOK
<1>1. ASSUME NEW u \in Universes, Thread(u) PROVE pc'[p] = "trained"
  <2>1. CASE u # p
    BY <1>0, <1>1, <2>1, OthersStay
  <2>2. CASE u = p
    BY <1>1, <2>2 DEF Thread, Dispatch, Collect, SendEpoch, Await, TrainLocal, TrainGlobal,
       OpenTimeline, Opened, Pick, ReadTime, ReceiveMessages, EndScan, RunEvent, RunEnd, UpdateTime,
       Notify, Interrupted, PollMail, WaitMail, DrainMail, HandleMail, EndMail, AdvanceWindow
  <2> QED BY <2>1, <2>2
<1>2. ASSUME NEW n \in Machines, Barrier(n) PROVE pc'[p] = "trained"
  <2>1. \A here, a, b : Meet(n, here, a, b) => pc'[p] = pc[p] \/ pc[p] = here
    BY <1>0 DEF Meet, UniversesOf
  <2> QED BY <1>2, <2>1 DEF Barrier
<1>3. ASSUME NEW n \in Machines, Trained(n) PROVE pc'[p] = "trained"
  <2>1. machine[p] # n
    BY <1>0, <1>3
  <2> QED BY <1>0, <1>3, <2>1 DEF Trained
<1>4. ASSUME Collective PROVE pc'[p] = "trained"
  <2>1. ~Reduce /\ ~MpiBarrier
    <3>1. pc[proc0[m]] # "reduce" /\ pc[proc0[m]] # "mpi barrier"
      OBVIOUS
    <3> QED BY <3>1 DEF Reduce, MpiBarrier
  <2>2. pc'[p] = IF pc[p] = "train global" THEN "trained" ELSE pc[p]
    BY <1>0, <1>4, <2>1 DEF Collective, FinishGlobal
  <2> QED BY <2>2
<1>5. ASSUME \/ \E n \in Machines : Writer(n)
             \/ \E n, k \in Machines : Reader(n, k)
             \/ UNCHANGED vars
      PROVE  pc'[p] = "trained"
  BY <1>5 DEF Writer, Reader, vars, threadVars
<1>6. pc'[p] = "trained"
  BY <1>1, <1>2, <1>3, <1>4, <1>5 DEF Next, Finished
<1>7. ~AdvanceWindow(p)
  BY DEF AdvanceWindow
<1>8. synpoint'[p] = synpoint[p] /\ epoch_sync'[p] = epoch_sync[p]
  BY <1>0, <1>7, EpochStays
<1> QED BY <1>6, <1>8

LEMMA ClipAhead ==
  ASSUME NEW a \in Nat, NEW b \in Nat, NEW r \in Nat, a <= endtime, a <= r
  PROVE  Clip(a + b, r) \in Nat /\ a <= Clip(a + b, r)
<1>1. a + b \in Nat /\ a <= a + b
  OBVIOUS
<1> QED BY <1>1, ClipIs

LEMMA OnwardAhead ==
  ASSUME NEW m \in Machines
  PROVE  /\ TypeOK /\ Meeting => Onward(m) \in Nat /\ synpoint[proc0[m]] <= Onward(m)
         /\ TypeOK' /\ Meeting' => Onward(m)' \in Nat /\ synpoint'[proc0[m]] <= Onward(m)'
<1> DEFINE p == proc0[m]
<1>0. p \in Universes /\ machine[p] = m /\ endtime \in Nat
  BY TopologyAssumption, ParameterAssumption
<1>1. ASSUME TypeOK, Meeting PROVE Onward(m) \in Nat /\ synpoint[p] <= Onward(m)
  <2>1. /\ synpoint[p] \in Nat /\ next_epoch[p] \in Nat
        /\ epoch_length[m] \in Nat /\ global_roundup[m] \in Nat
        /\ synpoint[p] <= next_epoch[p] /\ next_epoch[p] <= endtime
        /\ next_epoch[p] <= global_roundup[m]
    BY <1>0, <1>1 DEF TypeOK, WindowTypeOK, Meeting, Edges, Bounds
  <2>2. synpoint[p] <= endtime /\ synpoint[p] <= global_roundup[m]
    BY <1>0, <2>1
  <2> QED BY <2>1, <2>2, ClipAhead DEF Onward
<1>2. ASSUME TypeOK', Meeting' PROVE Onward(m)' \in Nat /\ synpoint'[p] <= Onward(m)'
  <2>1. /\ synpoint'[p] \in Nat /\ next_epoch'[p] \in Nat
        /\ epoch_length'[m] \in Nat /\ global_roundup'[m] \in Nat
        /\ synpoint'[p] <= next_epoch'[p] /\ next_epoch'[p] <= endtime
        /\ next_epoch'[p] <= global_roundup'[m]
    BY <1>0, <1>2 DEF TypeOK, WindowTypeOK, Meeting, Edges, Bounds
  <2>2. synpoint'[p] <= endtime /\ synpoint'[p] <= global_roundup'[m]
    BY <1>0, <2>1
  <2> QED BY <2>1, <2>2, ClipAhead DEF Onward
<1> QED BY <1>1, <1>2

LEMMA ReadyRises ==
  ASSUME TypeOK, TypeOK', Meeting, Meeting', Agreement, Scheduling, Scheduling', [Next]_vars,
         NEW m \in Machines
  PROVE  Ready(m) \in Nat /\ Ready(m)' \in Nat /\ Ready(m) <= Ready(m)'
<1> DEFINE p == proc0[m]
<1>0. p \in Universes /\ machine[p] = m
  BY TopologyAssumption
<1>1. /\ Onward(m) \in Nat /\ Onward(m)' \in Nat /\ synpoint'[p] <= Onward(m)'
      /\ EpochAfter(p) \in Nat /\ EpochAfter(p)' \in Nat
  <2>1. Onward(m) \in Nat
    BY OnwardAhead
  <2>2. Onward(m)' \in Nat /\ synpoint'[p] <= Onward(m)'
    BY OnwardAhead
  <2>3. synpoint[p] \in Nat /\ next_epoch[p] \in Nat /\ synpoint'[p] \in Nat /\ next_epoch'[p] \in Nat
    BY <1>0 DEF TypeOK, WindowTypeOK
  <2> QED BY <2>1, <2>2, <2>3 DEF EpochAfter
<1>2. Ready(m) \in Nat /\ Ready(m)' \in Nat
  BY <1>1 DEF Ready
<1>3. CASE pc[p] = "trained" /\ epoch_sync[p]
  <2>1. Ready(m) = Onward(m)
    BY <1>3 DEF Ready
  <2>2. CASE Trained(m)
    <3>1. pc[p] = "trained" /\ pc'[p] = "open"
      BY <1>0, <2>2, TrainingEnds
    <3>2. InWindow(p)' /\ ~InWindow(p) /\ Stage(m) = "trained"
      BY <3>1 DEF InWindow, AtEdge, WindowLabels, Stage
    <3>3. next_epoch'[p] = IF Reclassified(m) /\ (global_reclassified[m] \/ training_finished[m])
                           THEN Onward(m) ELSE next_epoch[p]
      BY <1>0, <2>2 DEF Trained, Onward
    <3>4. StageOK(m) /\ AtEpoch(m)
      BY <1>3, <3>2 DEF Agreement, Stages, AtEpoch
    <3>5. global_reclassified[m] \/ next_epoch[p] = Onward(m)
      BY <3>2, <3>4 DEF StageOK
    <3>6. next_epoch'[p] = Onward(m)
      BY <3>3, <3>5 DEF Reclassified
    <3>7. Ready(m)' = next_epoch'[p]
      BY <3>1, <3>2 DEF Ready, EpochAfter
    <3> QED BY <1>2, <2>1, <3>6, <3>7
  <2>3. CASE ~Trained(m)
    <3>1. pc'[p] = "trained" /\ epoch_sync'[p] /\ synpoint'[p] = synpoint[p]
      BY <1>3, <2>3, TrainedWaits
    <3>2. epoch_length'[m] = epoch_length[m] /\ global_roundup'[m] = global_roundup[m]
      <4>1. CASE GlobalStays
        BY <4>1 DEF GlobalStays
      <4>2. CASE GlobalRoundEnds
        <5>1. PICK M \in SUBSET Machines, th \in [thresh : Nat, training : BOOLEAN], now \in Nat :
                Reclassifies(M, th, now)
          BY <4>2 DEF GlobalRoundEnds
        <5>2. m \notin M
          BY <1>3, <5>1 DEF Reclassifies, TrainsGlobally
        <5> QED BY <5>1, <5>2 DEF Reclassifies
      <4> QED BY <4>1, <4>2, GlobalFrame
    <3>3. Ready(m)' = Onward(m)'
      BY <3>1 DEF Ready
    <3>4. Onward(m)' = Onward(m)
      BY <3>1, <3>2 DEF Onward
    <3> QED BY <1>2, <2>1, <3>3, <3>4
  <2> QED BY <2>2, <2>3
<1>4. CASE ~(pc[p] = "trained" /\ epoch_sync[p])
  <2>1. Ready(m) = EpochAfter(p)
    BY <1>4 DEF Ready
  <2>2. EpochAfter(p)' = EpochAfter(p)
    BY <1>0, <1>4, EpochAfterStays
  <2>3. CASE pc'[p] = "trained" /\ epoch_sync'[p]
    <3>1. AtEdge(p)'
      BY <2>3 DEF AtEdge, WindowLabels
    <3>2. synpoint'[p] = synpoint[p] /\ epoch_sync[p] /\ ~InWindow(p)
      BY <1>0, <2>3, <3>1, EdgeKept
    <3>3. EpochAfter(p) = synpoint'[p]
      BY <3>2 DEF EpochAfter
    <3>4. Ready(m)' = Onward(m)'
      BY <2>3 DEF Ready
    <3> QED BY <1>1, <2>1, <3>3, <3>4
  <2>4. CASE ~(pc'[p] = "trained" /\ epoch_sync'[p])
    <3>1. Ready(m)' = EpochAfter(p)'
      BY <2>4 DEF Ready
    <3> QED BY <1>1, <2>1, <2>2, <3>1
  <2> QED BY <2>3, <2>4
<1> QED BY <1>2, <1>3, <1>4

\* A null message is believed only if it tells of a later time.
LEMMA NullRaises ==
  ASSUME TypeOK, NEW u \in Universes, HandleMail(u), NEW s \in Stargates
  PROVE  \/ rgate'[s] = rgate[s]
         \/ Remote(s) /\ ~rgate[s].in_sync /\ rgate[s].time <= rgate'[s].time
<1> DEFINE f == Head(ctx[u].io)
<1>1. /\ ctx[u].io # <<>> /\ ctx[u].io \in Seq(MessageType) /\ rgate \in [Stargates -> GateType]
  BY ContextSet DEF HandleMail, TypeOK, ThreadTypeOK, TimelineTypeOK
<1>2. f \in MessageType
  BY <1>1
<1>3. f.sg \in Stargates /\ f.t \in Nat /\ rgate[s].time \in Nat
  BY <1>1, <1>2, MessageElim DEF GateType
<1>4. CASE ~IsNull(f)
  BY <1>4 DEF HandleMail
<1>5. CASE IsNull(f)
  <2>1. HandleNull(u, f)
    BY <1>5 DEF HandleMail
  <2>2. \/ rgate' = rgate
        \/ /\ Remote(f.sg) /\ ~InGate(f.sg).in_sync /\ ~(rgate[f.sg].time >= f.t)
           /\ rgate' = [rgate EXCEPT ![f.sg].time = f.t]
    BY <2>1 DEF HandleNull
  <2>3. CASE rgate' = rgate
    BY <2>3
  <2>4. CASE /\ Remote(f.sg) /\ ~InGate(f.sg).in_sync /\ ~(rgate[f.sg].time >= f.t)
             /\ rgate' = [rgate EXCEPT ![f.sg].time = f.t]
    <3>1. CASE s = f.sg
      <4>1. rgate'[s].time = f.t /\ ~rgate[s].in_sync
        BY <1>1, <1>3, <2>4, <3>1 DEF GateType, InGate
      <4> QED BY <1>3, <2>4, <3>1, <4>1
    <3>2. CASE s # f.sg
      BY <1>1, <1>3, <2>4, <3>2
    <3> QED BY <3>1, <3>2
  <2> QED BY <2>2, <2>3, <2>4
<1> QED BY <1>4, <1>5

\* A synchronous channel that stays synchronous keeps its time.
LEMMA SyncStays ==
  ASSUME TypeOK, NEW M \in SUBSET Machines, NEW th \in [thresh : Nat, training : BOOLEAN],
         NEW now \in Nat, Reclassifies(M, th, now), NEW s \in Stargates,
         rgate[s].in_sync, rgate'[s].in_sync
  PROVE  rgate'[s] = rgate[s]
<1> DEFINE B == {r \in RemoteGates : TargetMachine(r) \in M}
<1>1. rgate' = Classify(rgate, B, th.thresh, now)
  BY DEF Reclassifies, ClassifyGlobal
<1> HIDE DEF B
<1>2. rgate[s] \in GateType
  BY DEF TypeOK, TimelineTypeOK
<1>3. CASE s \notin B
  BY <1>1, <1>3 DEF Classify
<1>4. CASE s \in B /\ min_delay[s] < th.thresh
  <2>1. rgate'[s].in_sync = FALSE
    BY <1>1, <1>4 DEF Classify
  <2> QED BY <2>1
<1>5. CASE s \in B /\ ~(min_delay[s] < th.thresh)
  <2>1. rgate'[s] = [rgate[s] EXCEPT !.in_sync = TRUE]
    BY <1>1, <1>5 DEF Classify
  <2>2. rgate[s].in_sync = TRUE
    BY <1>2 DEF GateType
  <2> QED BY <1>2, <2>1, <2>2 DEF GateType
<1> QED BY <1>3, <1>4, <1>5

\* What a step does to the receiving end of a stargate between machines.
LEMMA RemoteTimes ==
  ASSUME TypeOK, TypeOK', Meeting, Agreement, Scheduling, Phases, Frozen, [Next]_vars,
         NEW s \in Stargates, Remote(s), NEW n, TargetMachine(s) = n, NEW p, proc0[n] = p
  PROVE  \/ rgate'[s] = rgate[s]
         \/ ~rgate'[s].in_sync /\ rgate[s].time <= rgate'[s].time
         \/ /\ ~rgate[s].in_sync /\ rgate'[s].time = rgate[s].time
            /\ pc'[p] = "trained" /\ epoch_sync'[p]
            /\ AtEpoch(n)' /\ Stage(n)' = "trained"
<1>0. /\ n \in Machines /\ Several /\ min_delay[s] \in Nat /\ p \in Universes /\ machine[p] = n
      /\ rgate[s].time \in Nat /\ rgate'[s].time \in Nat
      /\ rgate[s].in_sync \in BOOLEAN /\ rgate'[s].in_sync \in BOOLEAN
  <2>1. rgate'[s].time \in Nat /\ rgate'[s].in_sync \in BOOLEAN
    BY DEF TypeOK, TimelineTypeOK, GateType
  <2>2. n \in Machines /\ Several /\ min_delay[s] \in Nat
        /\ rgate[s].time \in Nat /\ rgate[s].in_sync \in BOOLEAN
    BY RemoteEnds
  <2> QED BY <2>1, <2>2, TopologyAssumption
<1>1. CASE GlobalStays
  <2>1. rgate'[s].in_sync = rgate[s].in_sync
    BY <1>1 DEF GlobalStays
  <2>2. ASSUME NEW u \in Universes, HandleMail(u)
        PROVE  \/ rgate'[s] = rgate[s]
               \/ ~rgate'[s].in_sync /\ rgate[s].time <= rgate'[s].time
    BY <2>1, <2>2, NullRaises
  <2> QED BY <1>1, <2>2 DEF GlobalStays
<1>2. CASE GlobalRoundEnds
  <2>1. PICK M \in SUBSET Machines, th \in [thresh : Nat, training : BOOLEAN], now \in Nat :
          Reclassifies(M, th, now)
    BY <1>2 DEF GlobalRoundEnds
  <2>2. CASE n \notin M
    <3>1. rgate'[s] = rgate[s]
      BY <2>1, <2>2, RemoteReclassed
    <3> QED BY <3>1
  <2>3. CASE n \in M
    <3>1. /\ AtEpoch(n) /\ Stage(n) = "training" /\ synpoint[p] = now
          /\ epoch_sync[p] /\ ~InWindow(p) /\ ~InWindow(p)' /\ epoch_sync'[p]
      <4>1. AtEpoch(n) /\ Stage(n) = "training" /\ synpoint[proc0[n]] = now
        BY <1>0, <2>1, <2>3, RoundEdge
      <4>2. \A u \in Universes : machine[u] = n =>
              epoch_sync[u] /\ ~InWindow(u) /\ ~InWindow(u)' /\ epoch_sync'[u]
        BY <1>0, <2>1, <2>3, RoundEdge
      <4> QED BY <1>0, <4>1, <4>2
    <3>2. pc'[p] = "trained"
      BY <2>1, <2>3 DEF Reclassifies
    <3>3. AtEpoch(n)' /\ Stage(n)' = "trained"
      BY <3>1, <3>2 DEF AtEpoch, Stage
    <3>4. /\ rgate'[s].time = rgate[s].time \/ rgate'[s].time = now + min_delay[s]
          /\ ~rgate'[s].in_sync /\ rgate[s].in_sync => rgate'[s].time = now + min_delay[s]
          /\ ~rgate[s].in_sync => rgate'[s].time = rgate[s].time
      BY <2>1, <2>3, RemoteReclassed
    <3>5. rgate[s].in_sync => rgate[s].time <= now + min_delay[s]
      <4>1. pc[p] # "trained"
        BY <3>1 DEF Stage
      <4>2. Ready(n) = now
        BY <3>1, <4>1 DEF Ready, EpochAfter
      <4> QED BY <4>2 DEF Frozen
    <3>6. CASE rgate[s].in_sync /\ ~rgate'[s].in_sync
      BY <3>4, <3>5, <3>6
    <3>7. CASE ~rgate[s].in_sync /\ ~rgate'[s].in_sync
      BY <1>0, <3>4, <3>7
    <3>8. CASE ~rgate[s].in_sync /\ rgate'[s].in_sync
      BY <3>1, <3>2, <3>3, <3>4, <3>8
    <3>9. CASE rgate[s].in_sync /\ rgate'[s].in_sync
      BY <2>1, <2>3, <3>9, SyncStays
    <3> QED BY <1>0, <3>6, <3>7, <3>8, <3>9
  <2> QED BY <2>2, <2>3
<1> QED BY <1>1, <1>2, GlobalFrame

LEMMA NextFrozen ==
  ASSUME TypeOK, TypeOK', Meeting, Meeting', Agreement, Scheduling, Scheduling', Phases,
         Heard', Frozen, [Next]_vars
  PROVE  Frozen'
<1> SUFFICES ASSUME NEW s \in Stargates, Remote(s), rgate'[s].in_sync
             PROVE  rgate'[s].time <= Ready(TargetMachine(s))' + min_delay[s]
  BY DEF Frozen, Remote, SourceMachine, TargetMachine
<1> DEFINE m == TargetMachine(s)
<1>0. m \in Machines /\ min_delay[s] \in Nat /\ rgate[s].time \in Nat
  BY RemoteEnds
<1>1. Ready(m) \in Nat /\ Ready(m)' \in Nat /\ Ready(m) <= Ready(m)'
  BY <1>0, ReadyRises
<1>2. CASE rgate'[s] = rgate[s]
  <2>1. rgate[s].time <= Ready(m) + min_delay[s]
    BY <1>2 DEF Frozen
  <2> QED BY <1>0, <1>1, <1>2, <2>1
<1>3. CASE /\ pc'[proc0[m]] = "trained" /\ epoch_sync'[proc0[m]]
           /\ AtEpoch(m)' /\ Stage(m)' = "trained"
  <2>1. rgate'[s].time <= Onward(m)' + min_delay[s]
    BY <1>3 DEF Heard, Remote, SourceMachine, TargetMachine
  <2>2. Ready(m)' = Onward(m)'
    BY <1>3 DEF Ready
  <2> QED BY <2>1, <2>2
<1> QED BY <1>2, <1>3, RemoteTimes

LEMMA InitFrozen == Init => Frozen
<1> SUFFICES ASSUME Init, NEW s \in Stargates, Remote(s), rgate[s].in_sync
             PROVE  rgate[s].time <= Ready(TargetMachine(s)) + min_delay[s]
  BY DEF Frozen
<1> DEFINE p == proc0[TargetMachine(s)]
<1>1. TypeOK
  BY InitType
<1>2. rgate[s].time = 0 /\ pc[p] = "top"
  BY <1>1, InitPlaces, RemoteEnds, TopologyAssumption
<1>3. p \in Universes /\ min_delay[s] \in Nat
  BY <1>1, RemoteEnds, TopologyAssumption
<1>4. Ready(TargetMachine(s)) = EpochAfter(p)
  BY <1>2 DEF Ready
<1>5. EpochAfter(p) \in Nat
  BY <1>1, <1>3 DEF EpochAfter, TypeOK, WindowTypeOK
<1> QED BY <1>2, <1>3, <1>4, <1>5

\* The receiving end of a stargate inside a machine is not used.
LEMMA UnusedEnd ==
  ASSUME TypeOK, Meeting, Agreement, [Next]_vars, NEW s \in Stargates, ~Remote(s)
  PROVE  rgate'[s] = rgate[s]
<1>1. CASE GlobalStays
  <2>1. ASSUME NEW u \in Universes, HandleMail(u) PROVE rgate'[s] = rgate[s]
    BY <2>1, NullRaises
  <2> QED BY <1>1, <2>1 DEF GlobalStays
<1>2. CASE GlobalRoundEnds
  <2>1. PICK M \in SUBSET Machines, th \in [thresh : Nat, training : BOOLEAN], now \in Nat :
          Reclassifies(M, th, now)
    BY <1>2 DEF GlobalRoundEnds
  <2> DEFINE B == {r \in RemoteGates : TargetMachine(r) \in M}
  <2>2. rgate' = Classify(rgate, B, th.thresh, now) /\ s \notin B
    BY <2>1 DEF Reclassifies, ClassifyGlobal, RemoteGates
  <2> HIDE DEF B
  <2> QED BY <2>2 DEF Classify
<1> QED BY <1>1, <1>2, GlobalFrame

LEMMA TimesRise ==
  ASSUME Journeys, Journeys', Frozen, [Next]_vars, NEW s \in Stargates
  PROVE  gate[s].time <= gate'[s].time /\ rgate[s].time <= rgate'[s].time
<1>1. /\ TypeOK /\ TypeOK' /\ Meeting /\ Agreement /\ Scheduling /\ Phases
      /\ rgate[s].time \in Nat
  BY DEF Journeys, Epochs, TypeOK, TimelineTypeOK, GateType
<1>2. gate[s].time <= gate'[s].time
  BY <1>1, GateRises
<1>3. rgate[s].time <= rgate'[s].time
  BY <1>1, RemoteTimes, UnusedEnd
<1> QED BY <1>2, <1>3

(* A channel time never goes back: neither the sender's, nor what the other *)
(* machine believes of it, whatever the training makes of the channel in    *)
(* between.  A null message that is late is not believed, and when training *)
(* makes a channel asynchronous again, from the time of the meeting on, the *)
(* receiver cannot have heard of a later time before.                       *)
THEOREM ChannelTimeMonotoneHolds ==
  ASSUME InitWritesOnTime, InitWritesAhead
  PROVE  Spec => ChannelTimeMonotone
<1>1. Journeys => Heard
  BY HeardInEpoch DEF Journeys, Epochs, Lookahead
<1>2. Journeys /\ Journeys' /\ Heard' /\ Frozen /\ [Next]_vars => Frozen'
  BY NextFrozen DEF Journeys, Epochs
<1>3. Journeys /\ Journeys' /\ Frozen /\ [Next]_vars
      => [\A s \in Stargates : /\ gate[s].time <= gate'[s].time
                               /\ rgate[s].time <= rgate'[s].time]_gateVars
  BY TimesRise
<1> QED BY <1>1, <1>2, <1>3, InitFrozen, JourneysHold, InitWritesOnTime, InitWritesAhead, PTL
        DEF Spec, ChannelTimeMonotone

-----------------------------------------------------------------------------
(***************************************************************************)
(* The machines together implement CausalTime.  What is new to that is     *)
(* that a message between machines is in one place only: it waits for an   *)
(* epoch, is in the mailbox of the writer, in one batch of a line, or once *)
(* in the mail of the thread that will have it.                            *)
(***************************************************************************)

\* What two machines have to do with, and the places where it can be.
Cargo == {x \in MessageType : Remote(x.sg) /\ ~IsNull(x)}
Stored(x) == x \in global_binque[There(x.sg)]
Posted(x) == x \in remote_mailbox[SourceMachine(x.sg)]
Lined(x) == OnLine(x.sg, x)
Handed(x) == x \in Range(umailbox[Here(x.sg)])
Taken(x) == x \in Range(ctx[Here(x.sg)].io)
Far(x) == Stored(x) \/ Posted(x) \/ Lined(x) \/ Handed(x) \/ Taken(x)

\* It is in one of these places, and there once.
Alone(q, D) == \A i, j \in DOMAIN q : q[i] \in D /\ q[j] \in D => i = j
Carrying(x) == {b \in BatchType : x \in b.regular}
Apart(x) ==
  /\ Stored(x) => ~(Posted(x) \/ Lined(x) \/ Handed(x) \/ Taken(x))
  /\ Posted(x) => ~(Lined(x) \/ Handed(x) \/ Taken(x))
  /\ Lined(x) => ~(Handed(x) \/ Taken(x))
  /\ Handed(x) => ~Taken(x)
Alike(x) ==
  /\ Alone(net[<<SourceMachine(x.sg), TargetMachine(x.sg)>>], Carrying(x))
  /\ Alone(umailbox[Here(x.sg)], {x}) /\ Alone(ctx[Here(x.sg)].io, {x})
FarOnce ==
  \A x \in Cargo :
    /\ Apart(x) /\ Alike(x)
    /\ Far(x) => ~InMail(x) /\ ~Received(x) /\ x.n <= sent[x.sg]

LEMMA AloneTail ==
  ASSUME NEW S, NEW q \in Seq(S), q # <<>>, NEW D, Alone(q, D)
  PROVE  /\ Alone(Tail(q), D)
         /\ Head(q) \in D => \A z \in Range(Tail(q)) : z \notin D
<1> DEFINE r == Tail(q)
<1>1. /\ Head(q) = q[1] /\ 1 \in DOMAIN q
      /\ \A i \in DOMAIN r : i + 1 \in DOMAIN q /\ r[i] = q[i + 1]
      /\ DOMAIN r \subseteq Nat \ {0}
  BY TailItems
<1> HIDE DEF r
<1>2. ASSUME NEW i \in DOMAIN r, NEW j \in DOMAIN r, r[i] \in D, r[j] \in D PROVE i = j
  <2>1. i + 1 = j + 1
    BY <1>1, <1>2 DEF Alone
  <2> QED BY <1>1, <2>1
<1>3. ASSUME Head(q) \in D, NEW i \in DOMAIN r, r[i] \in D PROVE FALSE
  <2>1. 1 = i + 1
    BY <1>1, <1>3 DEF Alone
  <2> QED BY <1>1, <2>1
<1>4. Head(q) \in D => \A z \in Range(r) : z \notin D
  BY <1>3 DEF Range
<1> QED BY <1>2, <1>4 DEF Alone, r

LEMMA AloneAppend ==
  ASSUME NEW S, NEW q \in Seq(S), NEW x \in S, NEW D, Alone(q, D),
         x \in D => \A z \in Range(q) : z \notin D
  PROVE  Alone(Append(q, x), D)
<1> DEFINE r == Append(q, x)
<1>1. \A i, j \in DOMAIN r : i < j =>
        /\ i \in DOMAIN q /\ r[i] = q[i]
        /\ (j \in DOMAIN q /\ r[j] = q[j]) \/ r[j] = x
  BY AppendItems
<1>2. DOMAIN r \subseteq Nat
  OBVIOUS
<1> HIDE DEF r
<1>3. ASSUME NEW i \in DOMAIN r, NEW j \in DOMAIN r, i < j, r[i] \in D, r[j] \in D PROVE FALSE
  <2>1. i \in DOMAIN q /\ r[i] = q[i] /\ ((j \in DOMAIN q /\ r[j] = q[j]) \/ r[j] = x)
    BY <1>1, <1>3
  <2>2. CASE j \in DOMAIN q /\ r[j] = q[j]
    <3>1. i = j
      BY <1>3, <2>1, <2>2 DEF Alone
    <3> QED BY <1>2, <1>3, <3>1
  <2>3. CASE r[j] = x
    <3>1. q[i] \in Range(q)
      BY <2>1 DEF Range
    <3> QED BY <1>3, <2>1, <2>3, <3>1
  <2> QED BY <2>1, <2>2, <2>3
<1>4. \A i, j \in DOMAIN r : r[i] \in D /\ r[j] \in D => ~(i < j) /\ ~(j < i)
  BY <1>3
<1>5. \A i, j \in DOMAIN r : ~(i < j) /\ ~(j < i) => i = j
  BY <1>2
<1> QED BY <1>4, <1>5 DEF Alone, r

LEMMA AloneCons ==
  ASSUME NEW S, NEW q \in Seq(S), q # <<>>, NEW x \in S, NEW D, Alone(q, D),
         x \in D => Head(q) \in D
  PROVE  Alone(<<x>> \o Tail(q), D)
<1> DEFINE r == <<x>> \o Tail(q)
<1>1. DOMAIN r = DOMAIN q /\ \A i \in DOMAIN q : r[i] = IF i = 1 THEN x ELSE q[i]
  BY ConsItems
<1>2. Head(q) = q[1]
  BY TailItems
<1> HIDE DEF r
<1>3. \A i \in DOMAIN r : i \in DOMAIN q /\ (r[i] \in D => q[i] \in D)
  BY <1>1, <1>2
<1> QED BY <1>3 DEF Alone, r

LEMMA TailCons ==
  ASSUME NEW S, NEW q \in Seq(S), q # <<>>, NEW x \in S
  PROVE  /\ Range(q) = {Head(q)} \cup Range(Tail(q))
         /\ Range(<<x>> \o Tail(q)) = {x} \cup Range(Tail(q))
<1>1. ASSUME NEW y \in Seq(S), y # <<>> PROVE Range(y) = {Head(y)} \cup Range(Tail(y))
  <2>1. /\ Head(y) = y[1] /\ 1 \in DOMAIN y
        /\ \A i \in DOMAIN Tail(y) : i + 1 \in DOMAIN y /\ Tail(y)[i] = y[i + 1]
    BY <1>1, TailItems
  <2>2. ASSUME NEW i \in DOMAIN y, i # 1 PROVE \E j \in DOMAIN Tail(y) : Tail(y)[j] = y[i]
    <3>1. i - 1 \in DOMAIN Tail(y) /\ Tail(y)[i - 1] = y[i]
      BY <1>1, <2>2
    <3> QED BY <3>1
  <2> QED BY <2>1, <2>2 DEF Range
<1> DEFINE r == <<x>> \o Tail(q)
<1>2. r \in Seq(S) /\ r # <<>> /\ Head(r) = x /\ Tail(r) = Tail(q)
  OBVIOUS
<1> HIDE DEF r
<1>3. Range(r) = {x} \cup Range(Tail(q))
  BY <1>1, <1>2
<1> QED BY <1>1, <1>3 DEF r

LEMMA Appended ==
  ASSUME NEW S, NEW q \in Seq(S), NEW x \in S
  PROVE  Range(Append(q, x)) = Range(q) \cup {x}
<1> DEFINE a == Append(q, x)
<1>1. /\ \A i \in DOMAIN q : i \in DOMAIN a /\ a[i] = q[i]
      /\ \A i \in DOMAIN a : (i \in DOMAIN q /\ a[i] = q[i]) \/ a[i] = x
      /\ \E i \in DOMAIN a : a[i] = x
  <2>1. Len(q) + 1 \in DOMAIN a /\ a[Len(q) + 1] = x
    OBVIOUS
  <2> QED BY <2>1
<1> HIDE DEF a
<1> QED BY <1>1 DEF Range, a

\* A message between machines is inside a machine only in a mailbox.
LEMMA CargoFacts ==
  ASSUME TypeOK, Routes, NEW x \in Cargo
  PROVE  /\ x \in MessageType /\ x.sg \in Stargates /\ Remote(x.sg) /\ ~IsNull(x)
         /\ Here(x.sg) \in Universes /\ There(x.sg) \in Universes
         /\ SourceMachine(x.sg) \in Machines /\ TargetMachine(x.sg) \in Machines
         /\ SourceMachine(x.sg) # TargetMachine(x.sg)
         /\ machine[There(x.sg)] = SourceMachine(x.sg)
         /\ ~Queued(x) /\ ~OnBoard(x)
         /\ \A u \in Universes : x \in global_binque[u] => u = There(x.sg)
         /\ \A k \in Machines : x \in remote_mailbox[k] => k = SourceMachine(x.sg)
<1>1. x \in MessageType /\ x.sg \in Stargates /\ Remote(x.sg) /\ ~IsNull(x)
  BY DEF Cargo, MessageType
<1>2. QueueRoutes /\ NetRoutes
  BY DEF Routes
<1>3. ~Queued(x) /\ ~OnBoard(x)
  BY <1>1, <1>2 DEF QueueRoutes, Queued, OnBoard
<1>4. \A u \in Universes : x \in global_binque[u] => u = There(x.sg)
  BY <1>2 DEF QueueRoutes, There
<1>5. \A k \in Machines : x \in remote_mailbox[k] => k = SourceMachine(x.sg)
  BY <1>2 DEF NetRoutes
<1> QED BY <1>1, <1>3, <1>4, <1>5, RemoteEnds DEF Remote

\* A step leaves x where it is, or moves it on to its next place.
Settles(x) == Apart(x)' /\ Alike(x)' /\ (Far(x)' <=> Far(x))

LEMMA FarStays ==
  ASSUME TypeOK, Routes, NEW x \in Cargo, Apart(x), Alike(x),
         Stored(x)' <=> Stored(x), Posted(x)' <=> Posted(x), net' = net,
         umailbox'[Here(x.sg)] = umailbox[Here(x.sg)],
         ctx'[Here(x.sg)].io = ctx[Here(x.sg)].io
  PROVE  Settles(x)
<1>1. /\ (Lined(x)' <=> Lined(x)) /\ (Handed(x)' <=> Handed(x)) /\ (Taken(x)' <=> Taken(x))
  BY DEF Lined, OnLine, Handed, Taken, Here, SourceMachine, TargetMachine
<1>2. Alike(x)'
  BY DEF Alike, Alone, Carrying, Here, SourceMachine, TargetMachine
<1>3. Apart(x)'
  BY <1>1 DEF Apart
<1> QED BY <1>1, <1>2, <1>3 DEF Settles, Far

\* The messages of an epoch.
LEMMA SendFar ==
  ASSUME TypeOK, Routes, NEW x \in Cargo, Apart(x), Alike(x), NEW u \in Universes, SendEpoch(u)
  PROVE  Settles(x)
<1> DEFINE out == Retrieved(global_binque[u], u, next_epoch[u])
<1>0. /\ There(x.sg) \in Universes /\ SourceMachine(x.sg) \in Machines
      /\ \A v \in Universes : x \in global_binque[v] => v = There(x.sg)
      /\ machine[There(x.sg)] = SourceMachine(x.sg) /\ machine[u] \in Machines
  BY CargoFacts, TopologyAssumption
<1>1. /\ global_binque \in [Universes -> SUBSET MessageType]
      /\ remote_mailbox \in [Machines -> SUBSET MessageType]
  BY DEF TypeOK, MessageTypeOK
<1>2. /\ global_binque' = [global_binque EXCEPT ![u] = @ \ out]
      /\ remote_mailbox' = [remote_mailbox EXCEPT ![machine[u]] = @ \cup out]
      /\ net' = net /\ umailbox' = umailbox /\ ctx' = ctx
  BY DEF SendEpoch, mailVars
<1>3. out \subseteq global_binque[u]
  BY DEF Retrieved
<1> HIDE DEF out
<1>4. CASE x \in out
  <2>1. u = There(x.sg) /\ Stored(x)
    BY <1>0, <1>3, <1>4 DEF Stored
  <2>2. ~Stored(x)' /\ Posted(x)'
    BY <1>0, <1>1, <1>2, <1>4, <2>1 DEF Stored, Posted, There, SourceMachine
  <2>3. /\ (Lined(x)' <=> Lined(x)) /\ (Handed(x)' <=> Handed(x)) /\ (Taken(x)' <=> Taken(x))
    BY <1>2 DEF Lined, OnLine, Handed, Taken, Here, SourceMachine, TargetMachine
  <2>4. Alike(x)'
    BY <1>2 DEF Alike, Alone, Carrying, Here, SourceMachine, TargetMachine
  <2>5. Apart(x)'
    BY <2>1, <2>2, <2>3 DEF Apart
  <2> QED BY <2>1, <2>2, <2>3, <2>4, <2>5 DEF Settles, Far
<1>5. CASE x \notin out
  <2>1. Stored(x)' <=> Stored(x)
    BY <1>0, <1>1, <1>2, <1>5 DEF Stored, There
  <2>2. Posted(x)' <=> Posted(x)
    BY <1>0, <1>1, <1>2, <1>5 DEF Posted, SourceMachine
  <2> QED BY <1>2, <2>1, <2>2, FarStays
<1> QED BY <1>4, <1>5

\* A thread takes the mail when it has handled what it took before.
LEMMA TakeFar ==
  ASSUME TypeOK, Routes, Wakeups, NEW x \in Cargo, Apart(x), Alike(x), NEW u \in Universes,
         PollMail(u) \/ WaitMail(u) \/ DrainMail(u)
  PROVE  Settles(x)
<1> DEFINE v == Here(x.sg)
<1>0. v \in Universes
  BY CargoFacts
<1>1. /\ ctx' = [ctx EXCEPT ![u].io = umailbox[u]]
      /\ umailbox' = [umailbox EXCEPT ![u] = <<>>]
      /\ pc[u] \in {"update", "sched", "drain"}
      /\ UNCHANGED <<binVars, netVars>>
  BY DEF PollMail, WaitMail, DrainMail, TakeMail
<1>2. /\ ctx \in [Universes -> ContextType] /\ umailbox \in [Universes -> Seq(MessageType)]
  BY DEF TypeOK, ThreadTypeOK, MessageTypeOK
<1>3. ctx[u].io = <<>>
  BY <1>1 DEF Wakeups, WakeupOK, HasMail, ScanFor
<1>4. /\ (Stored(x)' <=> Stored(x)) /\ (Posted(x)' <=> Posted(x)) /\ net' = net
  BY <1>1 DEF Stored, Posted, There, SourceMachine, binVars, netVars
<1> HIDE DEF v
<1>5. CASE v # u
  <2>1. umailbox'[v] = umailbox[v] /\ ctx'[v].io = ctx[v].io
    BY <1>0, <1>1, <1>2, <1>5
  <2> QED BY <1>4, <2>1, FarStays DEF v
<1>6. CASE v = u
  <2>1. umailbox'[v] = <<>> /\ ctx'[v].io = umailbox[v] /\ ctx[v].io = <<>>
    BY <1>0, <1>1, <1>2, <1>3, <1>6 DEF ContextType
  <2>2. Range(<<>>) = {}
    BY EmptyRange
  <2>3. ~Handed(x)' /\ ~Taken(x) /\ (Taken(x)' <=> Handed(x))
    BY <2>1, <2>2 DEF Handed, Taken, Here, v
  <2>4. Lined(x)' <=> Lined(x)
    BY <1>4 DEF Lined, OnLine, SourceMachine, TargetMachine
  <2>5. Apart(x)'
    BY <1>4, <2>3, <2>4 DEF Apart
  <2>6. Alike(x)'
    <3>1. Alone(umailbox'[v], {x}) /\ Alone(ctx'[v].io, {x})
      BY <2>1 DEF Alike, Alone, v
    <3> QED BY <1>4, <3>1 DEF Alike, Alone, Carrying, Here, SourceMachine, TargetMachine, v
  <2>7. Far(x)' <=> Far(x)
    BY <1>4, <2>3, <2>4 DEF Far
  <2> QED BY <2>5, <2>6, <2>7 DEF Settles
<1> QED BY <1>5, <1>6

\* Null messages are not cargo.
LEMMA NotifyFar ==
  ASSUME TypeOK, Routes, NEW x \in Cargo, Apart(x), Alike(x), NEW u \in Universes, Notify(u)
  PROVE  Settles(x)
<1> DEFINE v == Here(x.sg)
<1>0. v \in Universes /\ ~IsNull(x)
  BY CargoFacts
<1>1. /\ ctx \in [Universes -> ContextType] /\ umailbox \in [Universes -> Seq(MessageType)]
      /\ gate \in [Stargates -> GateType]
  BY DEF TypeOK, ThreadTypeOK, MessageTypeOK, TimelineTypeOK
<1>2. PICK r \in ctx[u].out :
        /\ umailbox' = [umailbox EXCEPT ![universe[target[r]]] =
                         Append(@, Message(r, 0, gate[r].time))]
        /\ ctx' = [ctx EXCEPT ![u].out = @ \ {r}]
  BY DEF Notify
<1> DEFINE f == Message(r, 0, gate[r].time)
<1>3. f \in MessageType /\ f # x
  <2>1. r \in Stargates
    BY <1>1, ContextSet
  <2>2. f \in MessageType /\ IsNull(f)
    BY <1>1, <2>1, MessageIntro DEF GateType, Message, IsNull
  <2> QED BY <1>0, <2>2
<1>4. ctx'[v].io = ctx[v].io
  BY <1>0, <1>1, <1>2 DEF ContextType
<1>5. umailbox'[v] = umailbox[v] \/ umailbox'[v] = Append(umailbox[v], f)
  BY <1>0, <1>1, <1>2
<1>6. /\ (Stored(x)' <=> Stored(x)) /\ (Posted(x)' <=> Posted(x)) /\ net' = net
  BY DEF Notify, Stored, Posted, There, SourceMachine, binVars, netVars
<1> HIDE DEF f, v
<1>7. CASE umailbox'[v] = umailbox[v]
  BY <1>4, <1>6, <1>7, FarStays DEF v
<1>8. CASE umailbox'[v] = Append(umailbox[v], f)
  <2>1. umailbox[v] \in Seq(MessageType)
    BY <1>0, <1>1
  <2>2. Range(umailbox'[v]) = Range(umailbox[v]) \cup {f}
    BY <1>3, <1>8, <2>1, Appended
  <2>3. Alone(umailbox[v], {x})
    BY DEF Alike, v
  <2>4. Alone(umailbox'[v], {x})
    BY <1>3, <1>8, <2>1, <2>3, AloneAppend
  <2>5. /\ (Handed(x)' <=> Handed(x)) /\ (Taken(x)' <=> Taken(x)) /\ (Lined(x)' <=> Lined(x))
    BY <1>3, <1>4, <1>6, <2>2
       DEF Handed, Taken, Lined, OnLine, SourceMachine, TargetMachine, Here, v
  <2>6. Alike(x)'
    BY <1>4, <1>6, <2>4 DEF Alike, Alone, Carrying, Here, SourceMachine, TargetMachine, v
  <2>7. Apart(x)'
    BY <1>6, <2>5 DEF Apart
  <2>8. Far(x)' <=> Far(x)
    BY <1>6, <2>5 DEF Far
  <2> QED BY <2>6, <2>7, <2>8 DEF Settles
<1> QED BY <1>5, <1>7, <1>8

\* A timeline that announces its time writes nothing but null messages.
LEMMA UpdatePosts ==
  ASSUME TypeOK, Routes, NEW x \in Cargo, NEW u \in Universes, UpdateTime(u)
  PROVE  Posted(x)' <=> Posted(x)
<1>0. /\ remote_mailbox \in [Machines -> SUBSET MessageType] /\ ~IsNull(x)
      /\ SourceMachine(x.sg) \in Machines
  BY CargoFacts DEF TypeOK, MessageTypeOK
<1>1. PICK s \in ctx[u].out : SetTime(u, s)
  BY DEF UpdateTime
<1> DEFINE f == Message(s, 0, simclock[ctx[u].cur] + min_delay[s])
<1>2. remote_mailbox' = remote_mailbox
      \/ remote_mailbox' = [remote_mailbox EXCEPT ![machine[u]] = @ \cup {f}]
  BY <1>1 DEF SetTime
<1>3. f # x
  BY <1>0 DEF Message, IsNull
<1> HIDE DEF f
<1> QED BY <1>0, <1>2, <1>3 DEF Posted, SourceMachine

\* A thread handles the first message of its mail.
LEMMA HandleFar ==
  ASSUME TypeOK, Scheduling, Routes, NEW x \in Cargo, Apart(x), Alike(x),
         NEW u \in Universes, HandleMail(u)
  PROVE  /\ Apart(x)' /\ Alike(x)'
         /\ Far(x)' <=> Far(x) /\ x # Head(ctx[u].io)
         /\ x = Head(ctx[u].io) => Far(x)
<1> DEFINE v == Here(x.sg)
           q == ctx[u].io
<1>0. v \in Universes /\ ctx \in [Universes -> ContextType]
  BY CargoFacts DEF TypeOK, ThreadTypeOK
<1>1. /\ q # <<>> /\ q \in Seq(MessageType) /\ ctx' = [ctx EXCEPT ![u].io = Tail(@)]
      /\ umailbox' = umailbox /\ UNCHANGED <<binVars, netVars>>
  BY <1>0 DEF HandleMail, mailVars, ContextType
<1>2. ctx'[u].io = Tail(q) /\ (v # u => ctx'[v] = ctx[v])
  BY <1>0, <1>1 DEF ContextType
<1>3. /\ (Stored(x)' <=> Stored(x)) /\ (Posted(x)' <=> Posted(x)) /\ net' = net
      /\ (Handed(x)' <=> Handed(x)) /\ (Lined(x)' <=> Lined(x))
  BY <1>1 DEF Stored, Posted, Handed, Lined, OnLine, There, Here, SourceMachine, TargetMachine,
              binVars, netVars
<1>4. x = Head(q) => v = u
  <2>1. Head(q) \in Range(q)
    BY <1>1, RangeFacts
  <2>2. \A e \in Range(q) : universe[Dest(e)] = u
    BY DEF Scheduling, Threads, ThreadOK, Owned
  <2> QED BY <2>1, <2>2 DEF Here, Dest
<1> HIDE DEF v, q
<1>5. CASE v # u
  <2>1. umailbox'[v] = umailbox[v] /\ ctx'[v].io = ctx[v].io
    BY <1>1, <1>2, <1>5
  <2>2. Settles(x)
    BY <1>3, <2>1, FarStays DEF v
  <2>3. x # Head(ctx[u].io)
    BY <1>4, <1>5 DEF q
  <2> QED BY <2>2, <2>3 DEF Settles
<1>6. CASE v = u
  <2>1. Range(q) = {Head(q)} \cup Range(Tail(q))
    BY <1>1, CargoFacts, TailCons
  <2>2. Alone(q, {x})
    BY <1>6 DEF Alike, v, q
  <2>3. Alone(Tail(q), {x}) /\ (Head(q) = x => x \notin Range(Tail(q)))
    BY <1>1, <2>2, AloneTail
  <2>4. Taken(x)' <=> x \in Range(Tail(q))
    BY <1>2, <1>6 DEF Taken, Here, v
  <2>5. Taken(x) <=> x \in Range(q)
    BY <1>6 DEF Taken, v, q
  <2>6. (Taken(x)' <=> Taken(x) /\ x # Head(q)) /\ (x = Head(q) => Taken(x))
    BY <2>1, <2>3, <2>4, <2>5
  <2>7. Alike(x)'
    <3>1. Alone(ctx'[v].io, {x})
      BY <1>2, <1>6, <2>3
    <3> QED BY <1>1, <1>3, <3>1 DEF Alike, Alone, Carrying, Here, SourceMachine, TargetMachine, v
  <2>8. Apart(x)'
    BY <1>3, <2>6 DEF Apart
  <2>9. x = Head(q) => Far(x) /\ ~Far(x)'
    BY <1>3, <2>6 DEF Apart, Far
  <2>10. x # Head(q) => (Far(x)' <=> Far(x))
    BY <1>3, <2>6 DEF Far
  <2> QED BY <2>7, <2>8, <2>9, <2>10 DEF q
<1> QED BY <1>5, <1>6

\* The other steps of a thread but those that process events.
LEMMA ThreadFar ==
  ASSUME TypeOK, Routes, Wakeups, NEW x \in Cargo, Apart(x), Alike(x),
         NEW u \in Universes, Thread(u), ~RunEvent(u), ~HandleMail(u)
  PROVE  Settles(x)
<1> DEFINE v == Here(x.sg)
<1>0. v \in Universes /\ There(x.sg) \in Universes /\ SourceMachine(x.sg) \in Machines
  BY CargoFacts
<1>1. CASE SendEpoch(u)
  BY <1>1, SendFar
<1>2. CASE PollMail(u) \/ WaitMail(u) \/ DrainMail(u)
  BY <1>2, TakeFar
<1>3. CASE Notify(u)
  BY <1>3, NotifyFar
<1>4. CASE ~SendEpoch(u) /\ ~PollMail(u) /\ ~WaitMail(u) /\ ~DrainMail(u) /\ ~Notify(u)
  <2>1. global_binque' = global_binque /\ net' = net /\ umailbox' = umailbox
    BY <1>4, ThreadFrame
  <2>2. Posted(x)' <=> Posted(x)
    <3>1. CASE UpdateTime(u)
      BY <3>1, UpdatePosts
    <3>2. CASE ~UpdateTime(u)
      <4>1. remote_mailbox' = remote_mailbox
        BY <1>4, <3>2, ThreadFrame
      <4> QED BY <4>1 DEF Posted, SourceMachine
    <3> QED BY <3>1, <3>2
  <2>3. ctx'[v].io = ctx[v].io
    <3>1. CASE v = u
      BY <1>0, <1>4, <3>1, IoStays
    <3>2. CASE v # u
      <4>1. ctx \in [Universes -> ContextType]
        BY DEF TypeOK, ThreadTypeOK
      <4> HIDE DEF v
      <4>2. ctx'[v] = ctx[v]
        BY <1>0, <3>2, <4>1
           DEF Thread, Dispatch, Collect, SendEpoch, Await, TrainLocal,
           TrainGlobal, OpenTimeline, Opened, Pick, ReadTime, ReceiveMessages, EndScan, RunEvent,
           RunEnd, UpdateTime, SetTime, Interrupted, EndMail, AdvanceWindow, threadVars,
           Notify, PollMail, WaitMail, DrainMail, TakeMail, HandleMail
      <4> QED BY <4>2
    <3> QED BY <3>1, <3>2
  <2>4. Stored(x)' <=> Stored(x)
    BY <2>1 DEF Stored, There
  <2> QED BY <2>1, <2>2, <2>3, <2>4, FarStays
<1> QED BY <1>1, <1>2, <1>3, <1>4

\* The writer puts a message into one batch, unless nobody waits for it.
LEMMA WriterFar ==
  ASSUME TypeOK, Routes, NEW x \in Cargo, Apart(x), Alike(x), NEW m \in Machines, Writer(m)
  PROVE  /\ Apart(x)' /\ Alike(x)' /\ (Far(x)' => Far(x))
         /\ Far(x) /\ x.t < endtime => Far(x)'
<1> DEFINE k == SourceMachine(x.sg)
           l == TargetMachine(x.sg)
           to(n) == {e \in remote_mailbox[m] : Counted(e) /\ TargetMachine(e.sg) = n}
           batch(n) == [regular |-> {e \in to(n) : ~IsNull(e)},
                        null    |-> {e \in to(n) : IsNull(e)}]
           b == batch(l)
           q == net[<<k, l>>]
<1>0. /\ x \in MessageType /\ ~IsNull(x) /\ k \in Machines /\ l \in Machines
      /\ <<k, l>> \in Machines \X Machines
  BY CargoFacts
<1>1. /\ remote_mailbox \in [Machines -> SUBSET MessageType]
      /\ net \in [Machines \X Machines -> Seq(BatchType)]
  BY DEF TypeOK, MessageTypeOK
<1>2. /\ remote_mailbox' = [remote_mailbox EXCEPT ![m] = {}]
      /\ net' = [mn \in Machines \X Machines |->
                   IF mn[1] = m /\ to(mn[2]) # {}
                   THEN Append(net[mn], batch(mn[2])) ELSE net[mn]]
      /\ global_binque' = global_binque /\ umailbox' = umailbox /\ ctx' = ctx
  BY DEF Writer, binVars, mailVars, threadVars
<1>3. /\ Stored(x)' <=> Stored(x)
      /\ Handed(x)' <=> Handed(x)
      /\ Taken(x)' <=> Taken(x)
  BY <1>2 DEF Stored, Handed, Taken, There, Here
<1>4. CASE k # m
  <2>1. Posted(x)' <=> Posted(x)
    BY <1>0, <1>1, <1>2, <1>4 DEF Posted, SourceMachine
  <2>2. net'[<<k, l>>] = q
    BY <1>0, <1>2, <1>4
  <2> HIDE DEF k, l, q
  <2>3. Lined(x)' <=> Lined(x)
    BY <2>2 DEF Lined, OnLine, k, l, q, SourceMachine, TargetMachine
  <2>4. Alike(x)'
    BY <1>2, <2>2 DEF Alike, Alone, Carrying, k, l, q, SourceMachine, TargetMachine, Here
  <2> QED BY <1>3, <2>1, <2>3, <2>4 DEF Apart, Far
<1>5. CASE k = m
  <2>1. ~Posted(x)'
    BY <1>0, <1>1, <1>2, <1>5 DEF Posted, SourceMachine
  <2>2. q \in Seq(BatchType) /\ b \in BatchType
    BY <1>0, <1>1, <1>5 DEF BatchType
  <2>3. x \in b.regular <=> Posted(x) /\ x.t < endtime
    BY <1>0, <1>5 DEF Posted, Counted
  <2>4. \/ net'[<<k, l>>] = Append(q, b)
        \/ net'[<<k, l>>] = q /\ x \notin b.regular
    BY <1>0, <1>2, <1>5
  <2>5. Lined(x) <=> \E c \in Range(q) : x \in c.regular
    BY DEF Lined, OnLine
  <2>6. Lined(x)' <=> \E c \in Range(net'[<<k, l>>]) : x \in c.regular
    BY DEF Lined, OnLine, SourceMachine, TargetMachine
  <2>7. Alone(q, Carrying(x))
    BY DEF Alike
  <2> HIDE DEF k, l, q, b, to, batch
  <2>8. Range(Append(q, b)) = Range(q) \cup {b}
    BY <2>2, Appended
  <2>9. Lined(x)' <=> Lined(x) \/ x \in b.regular
    BY <2>4, <2>5, <2>6, <2>8
  <2>10. Alone(net'[<<k, l>>], Carrying(x))
    <3>1. b \in Carrying(x) => \A c \in Range(q) : c \notin Carrying(x)
      BY <2>3, <2>5 DEF Apart, Carrying
    <3>2. Alone(Append(q, b), Carrying(x))
      BY <2>2, <2>7, <3>1, AloneAppend
    <3> QED BY <2>4, <2>7, <3>2
  <2>11. Alike(x)'
    BY <1>2, <2>10 DEF Alike, Alone, Carrying, k, l, SourceMachine, TargetMachine, Here
  <2>12. Apart(x)'
    BY <1>3, <2>1, <2>3, <2>9 DEF Apart
  <2>13. /\ Far(x)' => Far(x)
         /\ Far(x) /\ x.t < endtime => Far(x)'
    BY <1>3, <2>1, <2>3, <2>9 DEF Far
  <2> QED BY <2>11, <2>12, <2>13
<1> QED BY <1>4, <1>5

\* The reader takes one message out of the first batch.
LEMMA ReaderFar ==
  ASSUME TypeOK, Scheduling, Routes, Kinds, NEW x \in Cargo, Apart(x), Alike(x),
         NEW n \in Machines, NEW m \in Machines, Reader(n, m)
  PROVE  /\ Apart(x)' /\ Alike(x)'
         /\ \/ Far(x)' <=> Far(x)
            \/ Far(x) /\ ~Far(x)'
         /\ InMail(x)' <=> InMail(x) \/ (Far(x) /\ ~Far(x)')
<1> DEFINE p == <<n, m>>
           q == net[p]
           h == Head(q)
           v == Here(x.sg)
           line == <<SourceMachine(x.sg), TargetMachine(x.sg)>>
<1>1. PICK e \in MessageType, r \in BatchType :
         /\ q \in Seq(BatchType) /\ q # <<>>
         /\ e \in h.regular \/ (h.regular = {} /\ e \in h.null)
         /\ r.regular = h.regular \ {e} /\ r.null \subseteq h.null
         /\ (net'[p] = Tail(q) /\ r.regular = {}) \/ net'[p] = <<r>> \o Tail(q)
         /\ \A o \in Machines \X Machines : o # p => net'[o] = net[o]
         /\ IF IsNull(e) \/ rgate[e.sg].in_sync
            THEN /\ \A w \in Universes : umailbox'[w] =
                      IF w = Here(e.sg) THEN Append(umailbox[w], e) ELSE umailbox[w]
                 /\ mailbox' = mailbox
            ELSE /\ umailbox' = umailbox
                 /\ \A s \in Stargates : mailbox'[s] =
                      IF s = e.sg THEN mailbox[s] \cup {e} ELSE mailbox[s]
         /\ UNCHANGED <<tmlnVars, gateVars, binVars, remote_mailbox, windowVars, trainVars,
                        threadVars, sent>>
  BY BatchRead
<1>2. p \in Machines \X Machines /\ h \in Range(q) /\ Range(Tail(q)) \subseteq Range(q)
  BY <1>1, RangeFacts
<1>3. SourceMachine(e.sg) = n /\ TargetMachine(e.sg) = m
  BY <1>1, <1>2 DEF Routes, NetRoutes
<1>4. /\ x \in MessageType /\ x.sg \in Stargates /\ ~IsNull(x) /\ v \in Universes
      /\ line \in Machines \X Machines
  BY CargoFacts
<1>5. umailbox \in [Universes -> Seq(MessageType)]
  BY DEF TypeOK, MessageTypeOK
<1>6. (Stored(x)' <=> Stored(x)) /\ (Posted(x)' <=> Posted(x)) /\ (Taken(x)' <=> Taken(x))
      /\ ctx' = ctx
  BY <1>1 DEF Stored, Posted, Taken, There, Here, SourceMachine, binVars, threadVars
\* What becomes of the line of x ...
<1>7. /\ Alone(net'[line], Carrying(x))
      /\ Lined(x)' <=> Lined(x) /\ x # e
      /\ x = e => Lined(x)
  <2>1. Lined(x) <=> \E c \in Range(net[line]) : x \in c.regular
    BY DEF Lined, OnLine
  <2>2. Lined(x)' <=> \E c \in Range(net'[line]) : x \in c.regular
    BY DEF Lined, OnLine, SourceMachine, TargetMachine
  <2>3. Alone(net[line], Carrying(x))
    BY DEF Alike
  <2>4. CASE line # p
    <3>1. x # e
      BY <1>3, <2>4
    <3>2. net'[line] = net[line]
      BY <1>1, <1>4, <2>4
    <3> QED BY <2>1, <2>2, <2>3, <3>1, <3>2
  <2>5. CASE line = p
    <3>1. \A c \in Range(q) : c \in BatchType
      BY <1>1 DEF Range
    <3>2. x = e => x \in h.regular
      <4>1. \A f \in h.null : IsNull(f)
        BY <1>2 DEF Kinds
      <4> QED BY <1>1, <1>4, <4>1
    <3> HIDE DEF q, h, line
    <3>3. Range(q) = {h} \cup Range(Tail(q)) /\ Range(<<r>> \o Tail(q)) = {r} \cup Range(Tail(q))
      BY <1>1, TailCons DEF h
    <3>4. Alone(q, Carrying(x))
      BY <2>3, <2>5 DEF q
    <3>5. /\ Alone(Tail(q), Carrying(x))
          /\ h \in Carrying(x) => \A z \in Range(Tail(q)) : z \notin Carrying(x)
      BY <1>1, <3>4, AloneTail DEF h
    <3>6. Alone(<<r>> \o Tail(q), Carrying(x))
      <4>1. r \in Carrying(x) => h \in Carrying(x)
        BY <1>1, <1>2, <3>1 DEF Carrying
      <4> QED BY <1>1, <3>4, <4>1, AloneCons DEF h
    <3>7. \A c \in Range(q) : c \in Carrying(x) <=> x \in c.regular
      BY <3>1 DEF Carrying
    <3>8. x \in h.regular => \A c \in Range(Tail(q)) : x \notin c.regular
      BY <1>2, <3>5, <3>7
    <3>9. (\E c \in Range(net'[p]) : x \in c.regular)
            <=> x \in r.regular \/ \E c \in Range(Tail(q)) : x \in c.regular
      BY <1>1, <3>3
    <3>10. (\E c \in Range(q) : x \in c.regular)
            <=> x \in h.regular \/ \E c \in Range(Tail(q)) : x \in c.regular
      BY <3>3
    <3>11. x \in r.regular <=> x \in h.regular /\ x # e
      BY <1>1
    <3> QED BY <1>1, <2>1, <2>2, <2>5, <3>2, <3>5, <3>6, <3>8, <3>9, <3>10, <3>11 DEF q
  <2> QED BY <2>4, <2>5
\* ... and of the mail.
<1>8. /\ Alone(umailbox'[v], {x})
      /\ Handed(x)' <=> Handed(x) \/ (x = e /\ rgate[e.sg].in_sync)
      /\ InMail(x)' <=> InMail(x) \/ (x = e /\ ~rgate[e.sg].in_sync)
  <2>1. (Handed(x) <=> x \in Range(umailbox[v])) /\ Alone(umailbox[v], {x})
    BY DEF Handed, Alike
  <2>2. Handed(x)' <=> x \in Range(umailbox'[v])
    BY DEF Handed, Here
  <2>3. InMail(x)' <=> \E s \in Stargates : x \in mailbox'[s]
    BY DEF InMail
  <2>4. x = e => ~Handed(x) /\ v = Here(e.sg)
    BY <1>7 DEF Apart
  <2>5. umailbox[v] \in Seq(MessageType)
    BY <1>4, <1>5
  <2> HIDE DEF v, q, h, p, line
  <2>6. Range(Append(umailbox[v], e)) = Range(umailbox[v]) \cup {e}
    BY <2>5, Appended
  <2>7. Alone(Append(umailbox[v], e), {x})
    BY <2>1, <2>4, <2>5, AloneAppend
  <2>8. CASE IsNull(e) \/ rgate[e.sg].in_sync
    <3>1. mailbox' = mailbox
          /\ umailbox'[v] = IF v = Here(e.sg) THEN Append(umailbox[v], e) ELSE umailbox[v]
      BY <1>1, <1>4, <2>8
    <3>2. IsNull(e) => x # e
      BY <1>4
    <3>3. InMail(x)' <=> InMail(x)
      BY <3>1 DEF InMail
    <3> QED BY <2>1, <2>2, <2>4, <2>6, <2>7, <2>8, <3>1, <3>2, <3>3
  <2>9. CASE ~(IsNull(e) \/ rgate[e.sg].in_sync)
    <3>1. umailbox' = umailbox /\ \A s \in Stargates : mailbox'[s] =
                      IF s = e.sg THEN mailbox[s] \cup {e} ELSE mailbox[s]
      BY <1>1, <2>9
    <3>2. InMail(x)' <=> InMail(x) \/ x = e
      BY <1>4, <2>3, <3>1 DEF InMail
    <3> QED BY <2>1, <2>2, <2>9, <3>1, <3>2
  <2> QED BY <2>8, <2>9
<1>9. Alike(x)'
  BY <1>6, <1>7, <1>8 DEF Alike, Alone, Carrying, SourceMachine, TargetMachine, Here
<1>10. Apart(x)'
  BY <1>6, <1>7, <1>8 DEF Apart
<1>11. x # e => (Far(x)' <=> Far(x))
  BY <1>6, <1>7, <1>8 DEF Far
<1>12. x = e => Far(x) /\ (Far(x)' <=> rgate[e.sg].in_sync)
  BY <1>6, <1>7, <1>8 DEF Far, Apart
<1>13. rgate[x.sg].in_sync \in BOOLEAN
  BY <1>4 DEF TypeOK, TimelineTypeOK, GateType
<1> QED BY <1>8, <1>9, <1>10, <1>11, <1>12, <1>13

-----------------------------------------------------------------------------
(* What a timeline has or will get.                                        *)

\* All that a timeline has or will get, from whichever machine, before the end.
Entire(t) == Whole(t) \cup {x \in Cargo : Far(x) /\ Dest(x) = t}
Ahead(t) == {e \in Entire(t) : e.t < endtime}

\* A step at which the messages of A come in, and no event is processed.
Brings(A) ==
  /\ A \subseteq Cargo /\ \A x \in A : Far(x)
  /\ \A x \in Cargo :
       /\ Apart(x)' /\ Alike(x)'
       /\ Far(x)' => Far(x) /\ x \notin A
       /\ Far(x) /\ x \notin A /\ x.t < endtime => Far(x)'
       /\ InMail(x)' \/ Received(x)' => InMail(x) \/ Received(x) \/ x \in A
  /\ \A t \in Timelines : Whole(t)' = Whole(t) \cup {x \in A : Dest(x) = t}

LEMMA ComeIn ==
  ASSUME FarOnce, sent' = sent, NEW A, Brings(A)
  PROVE  FarOnce' /\ \A t \in Timelines : Ahead(t)' = Ahead(t)
<1>0. Cargo' = Cargo
  BY DEF Cargo, Remote, SourceMachine, TargetMachine, IsNull
<1>1. FarOnce'
  <2> SUFFICES ASSUME NEW x \in Cargo
               PROVE  /\ Apart(x)' /\ Alike(x)'
                      /\ Far(x)' => ~InMail(x)' /\ ~Received(x)' /\ x.n <= sent'[x.sg]
    BY <1>0 DEF FarOnce
  <2>1. Far(x) => ~InMail(x) /\ ~Received(x) /\ x.n <= sent[x.sg]
    BY DEF FarOnce
  <2>2. /\ Apart(x)' /\ Alike(x)' /\ (Far(x)' => Far(x) /\ x \notin A)
        /\ InMail(x)' \/ Received(x)' => InMail(x) \/ Received(x) \/ x \in A
    BY DEF Brings
  <2> QED BY <2>1, <2>2
<1>2. ASSUME NEW t \in Timelines PROVE Ahead(t)' = Ahead(t)
  <2>1. Ahead(t)' = {e \in Whole(t)' \cup {x \in Cargo : Far(x)' /\ Dest(x) = t} : e.t < endtime}
    BY <1>0 DEF Ahead, Entire, Dest
  <2>2. Ahead(t) = {e \in Whole(t) \cup {x \in Cargo : Far(x) /\ Dest(x) = t} : e.t < endtime}
    BY DEF Ahead, Entire
  <2>3. Whole(t)' = Whole(t) \cup {x \in A : Dest(x) = t}
    BY DEF Brings
  <2>4. \A x \in Cargo : x.t < endtime => (Far(x)' <=> Far(x) /\ x \notin A)
    BY DEF Brings
  <2>5. A \subseteq Cargo /\ \A x \in A : Far(x)
    BY DEF Brings
  <2>6. ASSUME NEW e, e.t < endtime
        PROVE  e \in Whole(t)' \cup {x \in Cargo : Far(x)' /\ Dest(x) = t}
                 <=> e \in Whole(t) \cup {x \in Cargo : Far(x) /\ Dest(x) = t}
    BY <2>3, <2>4, <2>5, <2>6
  <2> QED BY <2>1, <2>2, <2>6
<1> QED BY <1>1, <1>2

\* Nothing comes in.
LEMMA NothingComes ==
  ASSUME \A x \in Cargo :
           /\ Apart(x)' /\ Alike(x)' /\ (Far(x)' => Far(x))
           /\ Far(x) /\ x.t < endtime => Far(x)'
           /\ InMail(x)' \/ Received(x)' => InMail(x) \/ Received(x),
         \A t \in Timelines : Whole(t)' = Whole(t)
  PROVE  Brings({})
BY DEF Brings

\* What is inside the machines stays where it is.
LEMMA LocalStays ==
  ASSUME Once, sent' = sent, UNCHANGED <<evtlist, mailbox, local_binque, switch_board>>
  PROVE  /\ Once'
         /\ \A t \in Timelines : Whole(t)' = Whole(t)
         /\ \A x \in MessageType : /\ InMail(x)' <=> InMail(x)
                                   /\ Received(x)' <=> Received(x)
<1>1. \A x : /\ InMail(x)' = InMail(x) /\ Queued(x)' = Queued(x)
             /\ OnBoard(x)' = OnBoard(x) /\ Received(x)' = Received(x)
  BY DEF InMail, Queued, OnBoard, Received
<1>2. Local' = Local
  BY <1>1 DEF Local
<1>3. Once'
  BY <1>1 DEF Once
<1> QED BY <1>1, <1>2, <1>3 DEF Whole, Dest

\* The mail a thread handles comes to the event list of its timeline.
LEMMA HandleBrings ==
  ASSUME TypeOK, Scheduling, Routes, Once, FarOnce, sent' = sent,
         NEW u \in Universes, HandleMail(u)
  PROVE  Once' /\ \E A : Brings(A)
<1> DEFINE h == Head(ctx[u].io)
           A == {x \in Cargo : x = h}
<1>0. /\ ctx \in [Universes -> ContextType] /\ evtlist \in [Timelines -> SUBSET EventType]
  BY DEF TypeOK, ThreadTypeOK, TimelineTypeOK
<1>1. /\ ctx[u].io # <<>> /\ ctx[u].io \in Seq(MessageType)
      /\ IF IsNull(h) THEN evtlist' = evtlist
         ELSE evtlist' = [evtlist EXCEPT ![Dest(h)] = @ \cup {h}]
      /\ UNCHANGED <<mailbox, local_binque, switch_board>>
  BY <1>0 DEF HandleMail, HandleNull, mailVars, binVars, ContextType
<1>2. h \in Range(ctx[u].io) /\ h \in MessageType
  BY <1>1, RangeFacts
<1>3. IsNull(h) \/ h \in Cargo
  BY <1>2 DEF Routes, MailRoutes, Cargo
<1>4. \A x \in Cargo : x \in MessageType /\ ~IsNull(x) /\ Dest(x) \in Timelines
  BY LocalEnds DEF Cargo, MessageType, Dest
<1>5. \A t \in Timelines : evtlist'[t] = evtlist[t] \cup {x \in A : Dest(x) = t}
  <2>1. CASE IsNull(h)
    BY <1>1, <1>4, <2>1
  <2>2. CASE ~IsNull(h)
    BY <1>0, <1>1, <1>3, <2>2
  <2> QED BY <2>1, <2>2
<1>6. \A x \in Cargo : /\ Apart(x)' /\ Alike(x)'
                       /\ Far(x)' <=> Far(x) /\ x \notin A
                       /\ x \in A => Far(x)
  <2> SUFFICES ASSUME NEW x \in Cargo
               PROVE  /\ Apart(x)' /\ Alike(x)'
                      /\ Far(x)' <=> Far(x) /\ x # h
                      /\ x = h => Far(x)
    OBVIOUS
  <2>1. Apart(x) /\ Alike(x)
    BY DEF FarOnce
  <2> QED BY <2>1, HandleFar
<1> HIDE DEF A, h
<1>7. \A x : /\ InMail(x)' = InMail(x) /\ Queued(x)' = Queued(x) /\ OnBoard(x)' = OnBoard(x)
  BY <1>1 DEF InMail, Queued, OnBoard
<1>8. A \subseteq Cargo
  BY DEF A
<1>9. \A x \in MessageType : Received(x)' <=> Received(x) \/ x \in A
  BY <1>4, <1>5, <1>8 DEF Received
<1>10. \A x \in A : /\ ~InMail(x) /\ ~Queued(x) /\ ~OnBoard(x) /\ x.n <= sent[x.sg]
  BY <1>6, <1>8, CargoFacts DEF FarOnce
<1>11. Once'
  <2> SUFFICES ASSUME NEW x \in MessageType
               PROVE  /\ InMail(x)' => ~Queued(x)' /\ ~OnBoard(x)'
                      /\ Queued(x)' => ~OnBoard(x)'
                      /\ Received(x)' => ~InMail(x)' /\ ~Queued(x)' /\ ~OnBoard(x)'
                      /\ InMail(x)' \/ Queued(x)' \/ OnBoard(x)' \/ Received(x)' => x.n <= sent'[x.sg]
    BY DEF Once
  <2> QED BY <1>7, <1>9, <1>10 DEF Once
<1>12. \A t \in Timelines : Whole(t)' = Whole(t) \cup {x \in A : Dest(x) = t}
  <2>1. Local' = Local
    BY <1>7 DEF Local
  <2> QED BY <1>5, <2>1 DEF Whole, Dest
<1>13. Brings(A)
  BY <1>4, <1>6, <1>7, <1>8, <1>9, <1>12 DEF Brings
<1> QED BY <1>11, <1>13

\* What the reader does not put into the mail of a thread comes to a mailbox.
LEMMA ReaderBrings ==
  ASSUME TypeOK, Scheduling, Routes, Kinds, Once, FarOnce, sent' = sent,
         NEW n \in Machines, NEW m \in Machines, Reader(n, m)
  PROVE  Once' /\ \E A : Brings(A)
<1> DEFINE A == {x \in Cargo : Far(x) /\ ~Far(x)'}
<1>1. UNCHANGED <<evtlist, local_binque, switch_board>>
  BY DEF Reader, tmlnVars, binVars
<1>2. ASSUME NEW x \in Cargo
      PROVE  /\ Apart(x)' /\ Alike(x)'
             /\ Far(x)' <=> Far(x) /\ x \notin A
             /\ InMail(x)' <=> InMail(x) \/ x \in A
  <2>1. Apart(x) /\ Alike(x)
    BY DEF FarOnce
  <2>2. /\ Apart(x)' /\ Alike(x)'
        /\ \/ Far(x)' <=> Far(x)
           \/ Far(x) /\ ~Far(x)'
        /\ InMail(x)' <=> InMail(x) \/ (Far(x) /\ ~Far(x)')
    BY <2>1, ReaderFar
  <2> QED BY <2>2
<1>3. ASSUME NEW x \in MessageType, x \notin Cargo PROVE InMail(x)' <=> InMail(x)
  <2>1. PICK e \in Receivable(Head(net[<<n, m>>])) :
          IF IsNull(e) \/ rgate[e.sg].in_sync THEN mailbox' = mailbox
          ELSE mailbox' = [mailbox EXCEPT ![e.sg] = @ \cup {e}]
    BY DEF Reader
  <2>2. CASE IsNull(e) \/ rgate[e.sg].in_sync
    BY <2>1, <2>2 DEF InMail
  <2>3. CASE ~(IsNull(e) \/ rgate[e.sg].in_sync)
    <3>1. mailbox' = [mailbox EXCEPT ![e.sg] = @ \cup {e}] /\ mailbox \in [Stargates -> SUBSET MessageType]
      BY <2>1, <2>3 DEF TypeOK, MessageTypeOK
    <3>2. e # x
      <4>1. net[<<n, m>>] \in Seq(BatchType) /\ net[<<n, m>>] # <<>>
        BY DEF Reader, TypeOK, MessageTypeOK
      <4>2. Head(net[<<n, m>>]) \in Range(net[<<n, m>>])
        BY <4>1, RangeFacts
      <4>3. SourceMachine(e.sg) # TargetMachine(e.sg)
        BY <4>2 DEF Receivable, Routes, NetRoutes
      <4> QED BY <1>3, <2>3, <4>3 DEF Cargo, Remote
    <3> QED BY <3>1, <3>2 DEF InMail
  <2> QED BY <2>2, <2>3
<1>4. \A x : /\ Queued(x)' = Queued(x) /\ OnBoard(x)' = OnBoard(x) /\ Received(x)' = Received(x)
  BY <1>1 DEF Queued, OnBoard, Received
<1>5. A \subseteq Cargo /\ \A x \in A : Far(x)
  OBVIOUS
<1> HIDE DEF A
<1>6. \A x \in MessageType : InMail(x)' <=> InMail(x) \/ x \in A
  BY <1>2, <1>3, <1>5
<1>7. \A x \in A : /\ ~Received(x) /\ ~Queued(x) /\ ~OnBoard(x) /\ x.n <= sent[x.sg]
  BY <1>5, CargoFacts DEF FarOnce
<1>8. Once'
  <2> SUFFICES ASSUME NEW x \in MessageType
               PROVE  /\ InMail(x)' => ~Queued(x)' /\ ~OnBoard(x)'
                      /\ Queued(x)' => ~OnBoard(x)'
                      /\ Received(x)' => ~InMail(x)' /\ ~Queued(x)' /\ ~OnBoard(x)'
                      /\ InMail(x)' \/ Queued(x)' \/ OnBoard(x)' \/ Received(x)' => x.n <= sent'[x.sg]
    BY DEF Once
  <2> QED BY <1>4, <1>6, <1>7 DEF Once
<1>9. \A t \in Timelines : Whole(t)' = Whole(t) \cup {x \in A : Dest(x) = t}
  <2>1. A \subseteq MessageType
    BY <1>5 DEF Cargo
  <2>2. Local' = Local \cup A
    BY <1>4, <1>6, <2>1 DEF Local
  <2> QED BY <1>1, <2>2 DEF Whole, Dest
<1>10. Brings(A)
  BY <1>2, <1>4, <1>5, <1>9 DEF Brings
<1> QED BY <1>8, <1>10

LEMMA WriterBrings ==
  ASSUME TypeOK, Routes, Once, FarOnce, sent' = sent, NEW m \in Machines, Writer(m)
  PROVE  Once' /\ \E A : Brings(A)
<1>1. UNCHANGED <<evtlist, mailbox, local_binque, switch_board>>
  BY DEF Writer, tmlnVars, mailVars, binVars
<1>2. /\ Once' /\ \A t \in Timelines : Whole(t)' = Whole(t)
      /\ \A x \in MessageType : (InMail(x)' <=> InMail(x)) /\ (Received(x)' <=> Received(x))
  BY <1>1, LocalStays
<1>3. ASSUME NEW x \in Cargo
      PROVE  /\ Apart(x)' /\ Alike(x)' /\ (Far(x)' => Far(x))
             /\ Far(x) /\ x.t < endtime => Far(x)'
             /\ InMail(x)' \/ Received(x)' => InMail(x) \/ Received(x)
  <2>1. Apart(x) /\ Alike(x) /\ x \in MessageType
    BY DEF FarOnce, Cargo
  <2> QED BY <1>2, <2>1, WriterFar
<1>4. Brings({})
  BY <1>2, <1>3, NothingComes
<1> QED BY <1>2, <1>4

\* A step after which every message between machines is away as before.
LEMMA SettledBrings ==
  ASSUME \A x \in Cargo : /\ Settles(x)
                          /\ InMail(x)' \/ Received(x)' => InMail(x) \/ Received(x),
         \A t \in Timelines : Whole(t)' = Whole(t)
  PROVE  Brings({})
BY NothingComes DEF Settles

LEMMA ThreadBrings ==
  ASSUME TypeOK, Scheduling, Routes, Wakeups, Once, FarOnce, sent' = sent,
         NEW u \in Universes, Thread(u), ~RunEvent(u)
  PROVE  Once' /\ \E A : Brings(A)
<1>1. CASE HandleMail(u)
  BY <1>1, HandleBrings
<1>2. CASE ~HandleMail(u)
  <2>1. \A x \in Cargo : Settles(x) /\ x \in MessageType /\ ~OnBoard(x)
    <3> SUFFICES ASSUME NEW x \in Cargo PROVE Settles(x) /\ x \in MessageType /\ ~OnBoard(x)
      OBVIOUS
    <3>1. Apart(x) /\ Alike(x)
      BY DEF FarOnce
    <3> QED BY <1>2, <3>1, ThreadFar, CargoFacts
  <2>2. /\ Once' /\ \A t \in Timelines : Whole(t)' = Whole(t)
        /\ \A x \in MessageType :
             InMail(x)' \/ Received(x)' => InMail(x) \/ Received(x) \/ OnBoard(x)
    <3>1. CASE Dispatch(u)
      <4>1. evtlist' = evtlist /\ mailbox' = mailbox
        BY <3>1 DEF Dispatch, tmlnVars, mailVars
      <4> QED BY <3>1, <4>1, DispatchMoves DEF InMail, Received
    <3>2. CASE Collect(u)
      <4>1. \A t \in Timelines : evtlist'[t] \subseteq evtlist[t] \cup switch_board[u]
        BY <3>2 DEF Collect
      <4>2. mailbox' = mailbox
        BY <3>2 DEF Collect, mailVars
      <4> QED BY <3>2, <4>1, <4>2, CollectMoves DEF InMail, Received, OnBoard
    <3>3. CASE ReceiveMessages(u)
      <4> DEFINE s == scan[u].hold
      <4>1. /\ s \in Stargates
            /\ evtlist' = [evtlist EXCEPT ![target[s]] = @ \cup mailbox[s]]
            /\ mailbox' = [mailbox EXCEPT ![s] = {}]
            /\ evtlist \in [Timelines -> SUBSET EventType]
            /\ mailbox \in [Stargates -> SUBSET MessageType]
        BY <3>3, MessagesReceived DEF ReceiveMessages, TypeOK, TimelineTypeOK, MessageTypeOK
      <4> HIDE DEF s
      <4>2. \A t \in Timelines : evtlist'[t] \subseteq evtlist[t] \cup mailbox[s]
        BY <4>1
      <4>3. \A r \in Stargates : mailbox'[r] \subseteq mailbox[r]
        BY <4>1
      <4> QED BY <3>3, <4>1, <4>2, <4>3, ReceiveMoves DEF InMail, Received
    <3>4. CASE ~Dispatch(u) /\ ~Collect(u) /\ ~ReceiveMessages(u)
      <4>1. UNCHANGED <<evtlist, mailbox, local_binque, switch_board>>
        BY <1>2, <3>4, ThreadFrame
      <4> QED BY <4>1, LocalStays
    <3> QED BY <3>1, <3>2, <3>3, <3>4
  <2>3. Brings({})
    BY <2>1, <2>2, SettledBrings
  <2> QED BY <2>2, <2>3
<1> QED BY <1>1, <1>2

LEMMA OtherBrings ==
  ASSUME TypeOK, Routes, Once, FarOnce, sent' = sent,
         \/ \E m \in Machines : Barrier(m) \/ Trained(m)
         \/ Collective \/ UNCHANGED vars
  PROVE  Once' /\ \E A : Brings(A)
<1>1. /\ UNCHANGED <<binVars, net, remote_mailbox, umailbox>>
      /\ \A v \in Universes : ctx'[v].io = ctx[v].io
  <2>1. CASE \E m \in Machines : Trained(m)
    BY <2>1, TrainingEnds DEF netVars
  <2>2. CASE ~(\E m \in Machines : Trained(m))
    <3>1. CASE \E m \in Machines : Barrier(m)
      BY <3>1 DEF Barrier, Meet, binVars, netVars, mailVars, threadVars
    <3>2. CASE Collective
      BY <3>2 DEF Collective, Reduce, MpiBarrier, FinishGlobal, binVars, netVars, mailVars
    <3>3. CASE UNCHANGED vars
      BY <3>3 DEF vars, binVars, netVars, mailVars, threadVars
    <3> QED BY <2>2, <3>1, <3>2, <3>3
  <2> QED BY <2>1, <2>2
<1>2. ASSUME NEW x \in Cargo PROVE Settles(x)
  <2>1. Apart(x) /\ Alike(x) /\ Here(x.sg) \in Universes
    BY CargoFacts DEF FarOnce
  <2>2. (Stored(x)' <=> Stored(x)) /\ (Posted(x)' <=> Posted(x))
    BY <1>1 DEF Stored, Posted, There, SourceMachine, binVars
  <2> QED BY <1>1, <2>1, <2>2, FarStays
<1>3. /\ Once' /\ \A t \in Timelines : Whole(t)' = Whole(t)
      /\ \A x \in MessageType :
           InMail(x)' \/ Received(x)' => InMail(x) \/ Received(x)
  <2>1. CASE \E m \in Machines : Trained(m)
    <3>1. PICK m \in Machines : Trained(m)
      BY <2>1
    <3>2. /\ \A s \in Stargates : mailbox'[s] \subseteq mailbox[s]
          /\ \A t \in Timelines : \A e \in evtlist'[t] :
               e \in evtlist[t] \/ \E s \in Stargates : e \in mailbox[s]
      BY <3>1, TrainingEnds DEF Drained
    <3> QED BY <3>1, <3>2, TrainedMoves DEF InMail, Received
  <2>2. CASE ~(\E m \in Machines : Trained(m))
    <3>1. UNCHANGED <<evtlist, mailbox>>
      <4>1. CASE \E m \in Machines : Barrier(m)
        BY <4>1 DEF Barrier, Meet, tmlnVars, mailVars
      <4>2. CASE Collective
        BY <4>2 DEF Collective, Reduce, MpiBarrier, FinishGlobal, tmlnVars, mailVars
      <4>3. CASE UNCHANGED vars
        BY <4>3 DEF vars, tmlnVars, mailVars
      <4> QED BY <2>2, <4>1, <4>2, <4>3
    <3> QED BY <1>1, <3>1, LocalStays DEF binVars
  <2> QED BY <2>1, <2>2
<1>4. \A x \in Cargo : x \in MessageType
  BY DEF Cargo
<1>5. Brings({})
  BY <1>2, <1>3, <1>4, SettledBrings
<1> QED BY <1>3, <1>5

\* Every step but one that processes an event leaves every timeline what it has
\* or will get, on whichever machine that is now.
LEMMA StepBrings ==
  ASSUME TypeOK, Scheduling, Routes, Kinds, Wakeups, Once, FarOnce, [Next]_vars,
         ~(\E u \in Universes : RunEvent(u))
  PROVE  Once' /\ FarOnce' /\ \A t \in Timelines : Ahead(t)' = Ahead(t)
<1>1. sent' = sent
  BY SentFrame
<1>2. Once' /\ \E A : Brings(A)
  <2>1. CASE \E u \in Universes : Thread(u)
    BY <1>1, <2>1, ThreadBrings
  <2>2. CASE \E m \in Machines : Writer(m)
    BY <1>1, <2>2, WriterBrings
  <2>3. CASE \E n, m \in Machines : Reader(n, m)
    BY <1>1, <2>3, ReaderBrings
  <2>4. CASE \/ \E m \in Machines : Barrier(m) \/ Trained(m)
             \/ Collective \/ UNCHANGED vars
    BY <1>1, <2>4, OtherBrings
  <2> QED BY <2>1, <2>2, <2>3, <2>4 DEF Next, Finished
<1> QED BY <1>1, <1>2, ComeIn

-----------------------------------------------------------------------------
(* An event that is processed.                                             *)

\* An event that is processed is not on its way as well, and its messages are
\* new ones.
EventMoves(t, e, M) ==
  /\ t \in Timelines /\ e \in evtlist[t] /\ e.t \in Nat
  /\ \A f \in evtlist[t] : e.t <= f.t
  /\ simclock' = [simclock EXCEPT ![t] = e.t]
  /\ \A x \in M : source[x.sg] = t /\ e.t + min_delay[x.sg] <= x.t
  /\ \A r \in Timelines :
       Entire(r)' = (IF r = t THEN Entire(r) \ {e} ELSE Entire(r)) \cup {x \in M : Dest(x) = r}

\* Where the new messages are put.
WritesOut(u, t, e, M) ==
  /\ t \in Timelines /\ universe[t] = u /\ e \in evtlist[t] /\ e.t \in Nat
  /\ \A f \in evtlist[t] : e.t <= f.t
  /\ simclock' = [simclock EXCEPT ![t] = e.t]
  /\ M \in SUBSET MessageType
  /\ \A x \in M : /\ source[x.sg] = t /\ e.t + min_delay[x.sg] <= x.t /\ ~IsNull(x)
                  /\ x.n = sent[x.sg] + 1 /\ x.n = sent'[x.sg]
  /\ \A s \in Stargates : sent[s] \in Nat /\ sent'[s] \in Nat /\ sent[s] <= sent'[s]
  /\ evtlist' = [r \in Timelines |->
       (IF r = t THEN evtlist[r] \ {e} ELSE evtlist[r]) \cup
       {x \in M : SameUniverse(x.sg) /\ Dest(x) = r}]
  /\ local_binque' = [local_binque EXCEPT ![u] = @ \cup
       {x \in M : ~SameUniverse(x.sg) /\ gate[x.sg].in_sync /\ ~Remote(x.sg)}]
  /\ global_binque' = [global_binque EXCEPT ![u] = @ \cup
       {x \in M : Remote(x.sg) /\ gate[x.sg].in_sync}]
  /\ mailbox' = [s \in Stargates |-> mailbox[s] \cup
       {x \in M : ~SameUniverse(x.sg) /\ ~gate[x.sg].in_sync /\ ~Remote(x.sg) /\ x.sg = s}]
  /\ remote_mailbox' = [remote_mailbox EXCEPT ![machine[u]] = @ \cup
       {x \in M : Remote(x.sg) /\ ~gate[x.sg].in_sync}]
  /\ UNCHANGED <<switch_board, umailbox, net, ctx>>

LEMMA RunIsWritten ==
  ASSUME TypeOK, Scheduling, NEW u \in Universes, RunEvent(u)
  PROVE  \E e, M : WritesOut(u, ctx[u].cur, e, M) /\ e.t <= ctx[u].horizon
<1> DEFINE t == ctx[u].cur
<1>1. t \in Timelines /\ universe[t] = u
  <2>1. t \in Timelines
    BY DEF RunEvent, TypeOK, Running
  <2>2. t \in TimelinesOf(u) \cup {NoTimeline}
    BY ThreadFacts DEF Owned
  <2> QED BY <2>1, <2>2, TopologyAssumption DEF NoTimeline, TimelinesOf
<1>2. PICK e \in evtlist[t] :
        /\ e.t <= ctx[u].horizon /\ \A f \in evtlist[t] : e.t <= f.t
        /\ simclock' = [simclock EXCEPT ![t] = e.t]
        /\ \E S \in SUBSET {s \in Stargates : source[s] = t /\ sent[s] < MaxSend} :
           \E d \in [S -> 0 .. MaxWriteDelay] :
             /\ Deliver(u, t, e, {Message(s, sent[s] + 1, e.t + min_delay[s] + d[s]) : s \in S})
             /\ sent' = [s \in Stargates |-> IF s \in S THEN sent[s] + 1 ELSE sent[s]]
  BY DEF RunEvent
<1>3. e.t \in Nat
  BY <1>1, <1>2, MessageElim DEF TypeOK, TimelineTypeOK
<1>4. PICK S \in SUBSET {s \in Stargates : source[s] = t /\ sent[s] < MaxSend} :
        \E d \in [S -> 0 .. MaxWriteDelay] :
           /\ Deliver(u, t, e, {Message(s, sent[s] + 1, e.t + min_delay[s] + d[s]) : s \in S})
           /\ sent' = [s \in Stargates |-> IF s \in S THEN sent[s] + 1 ELSE sent[s]]
  BY <1>2
<1>5. PICK d \in [S -> 0 .. MaxWriteDelay] :
        /\ Deliver(u, t, e, {Message(s, sent[s] + 1, e.t + min_delay[s] + d[s]) : s \in S})
        /\ sent' = [s \in Stargates |-> IF s \in S THEN sent[s] + 1 ELSE sent[s]]
  BY <1>4
<1> DEFINE M == {Message(s, sent[s] + 1, e.t + min_delay[s] + d[s]) : s \in S}
<1>6. \A x \in M : /\ x \in MessageType /\ source[x.sg] = t /\ x.sg \in S
                   /\ x.n = sent[x.sg] + 1 /\ e.t + min_delay[x.sg] <= x.t
  <2> SUFFICES ASSUME NEW s \in S,
                      NEW x, x = Message(s, sent[s] + 1, e.t + min_delay[s] + d[s])
               PROVE  /\ x \in MessageType /\ source[x.sg] = t /\ x.sg \in S
                      /\ x.n = sent[x.sg] + 1 /\ e.t + min_delay[x.sg] <= x.t
    OBVIOUS
  <2>1. s \in Stargates /\ source[s] = t /\ sent[s] \in Nat /\ min_delay[s] \in Nat
    BY TopologyAssumption DEF TypeOK, MessageTypeOK
  <2>2. d[s] \in Nat
    BY InputAssumption
  <2>3. x.sg = s /\ x.n = sent[s] + 1 /\ x.t = e.t + min_delay[s] + d[s]
    BY DEF Message
  <2>4. x \in MessageType
    BY <1>3, <2>1, <2>2, MessageIntro
  <2>5. e.t + min_delay[s] <= e.t + min_delay[s] + d[s]
    BY <1>3, <2>1, <2>2
  <2> QED BY <2>1, <2>3, <2>4, <2>5
<1>7. Deliver(u, t, e, M) /\ sent' = [s \in Stargates |-> IF s \in S THEN sent[s] + 1 ELSE sent[s]]
  BY <1>5
<1>8. UNCHANGED <<switch_board, umailbox, net, ctx>> /\ sent \in [Stargates -> Nat]
  BY DEF RunEvent, TypeOK, MessageTypeOK, threadVars
<1>9. \A s \in Stargates : /\ sent[s] \in Nat /\ sent'[s] \in Nat /\ sent[s] <= sent'[s]
                           /\ s \in S => sent'[s] = sent[s] + 1
  BY <1>7, <1>8
<1>10. /\ e.t <= ctx[u].horizon /\ \A f \in evtlist[t] : e.t <= f.t
       /\ simclock' = [simclock EXCEPT ![t] = e.t]
  BY <1>2
<1> HIDE DEF M, t
<1>11. \A x \in M : /\ source[x.sg] = t /\ e.t + min_delay[x.sg] <= x.t /\ ~IsNull(x)
                    /\ x.n = sent[x.sg] + 1 /\ x.n = sent'[x.sg]
  BY <1>6, <1>9 DEF IsNull, MessageType
<1>12. /\ evtlist' = [r \in Timelines |->
            (IF r = t THEN evtlist[r] \ {e} ELSE evtlist[r]) \cup
            {x \in M : SameUniverse(x.sg) /\ Dest(x) = r}]
       /\ local_binque' = [local_binque EXCEPT ![u] = @ \cup
            {x \in M : ~SameUniverse(x.sg) /\ gate[x.sg].in_sync /\ ~Remote(x.sg)}]
       /\ global_binque' = [global_binque EXCEPT ![u] = @ \cup
            {x \in M : Remote(x.sg) /\ gate[x.sg].in_sync}]
       /\ mailbox' = [s \in Stargates |-> mailbox[s] \cup
            {x \in M : ~SameUniverse(x.sg) /\ ~gate[x.sg].in_sync /\ ~Remote(x.sg) /\ x.sg = s}]
       /\ remote_mailbox' = [remote_mailbox EXCEPT ![machine[u]] = @ \cup
            {x \in M : Remote(x.sg) /\ ~gate[x.sg].in_sync}]
  <2> DEFINE direct == {x \in M : SameUniverse(x.sg)}
             synced == {x \in M \ direct : gate[x.sg].in_sync}
             async == (M \ direct) \ synced
             outside == {x \in M : Remote(x.sg)}
  <2>1. \A x \in M : Remote(x.sg) => ~SameUniverse(x.sg)
    BY DEF Remote, SameUniverse, SourceMachine, TargetMachine
  <2>2. /\ evtlist' = [r \in Timelines |->
            (IF r = t THEN evtlist[r] \ {e} ELSE evtlist[r]) \cup {x \in direct : Dest(x) = r}]
        /\ local_binque' = [local_binque EXCEPT ![u] = @ \cup (synced \ outside)]
        /\ global_binque' = [global_binque EXCEPT ![u] = @ \cup (synced \cap outside)]
        /\ mailbox' = [s \in Stargates |-> mailbox[s] \cup {x \in async \ outside : x.sg = s}]
        /\ remote_mailbox' = [remote_mailbox EXCEPT ![machine[u]] = @ \cup (async \cap outside)]
    BY <1>7 DEF Deliver
  <2>3. /\ \A r : {x \in direct : Dest(x) = r} = {x \in M : SameUniverse(x.sg) /\ Dest(x) = r}
        /\ synced \ outside
             = {x \in M : ~SameUniverse(x.sg) /\ gate[x.sg].in_sync /\ ~Remote(x.sg)}
        /\ synced \cap outside = {x \in M : Remote(x.sg) /\ gate[x.sg].in_sync}
        /\ \A s : {x \in async \ outside : x.sg = s}
             = {x \in M : ~SameUniverse(x.sg) /\ ~gate[x.sg].in_sync /\ ~Remote(x.sg) /\ x.sg = s}
        /\ async \cap outside = {x \in M : Remote(x.sg) /\ ~gate[x.sg].in_sync}
    BY <2>1
  <2> HIDE DEF direct, synced, async, outside, M
  <2>4. evtlist' = [r \in Timelines |->
            (IF r = t THEN evtlist[r] \ {e} ELSE evtlist[r]) \cup
            {x \in M : SameUniverse(x.sg) /\ Dest(x) = r}]
    BY <2>2, <2>3
  <2>5. mailbox' = [s \in Stargates |-> mailbox[s] \cup
            {x \in M : ~SameUniverse(x.sg) /\ ~gate[x.sg].in_sync /\ ~Remote(x.sg) /\ x.sg = s}]
    BY <2>2, <2>3
  <2>6. local_binque' = [local_binque EXCEPT ![u] = @ \cup
            {x \in M : ~SameUniverse(x.sg) /\ gate[x.sg].in_sync /\ ~Remote(x.sg)}]
    BY <2>2, <2>3
  <2>7. global_binque' = [global_binque EXCEPT ![u] = @ \cup
            {x \in M : Remote(x.sg) /\ gate[x.sg].in_sync}]
    BY <2>2, <2>3
  <2>8. remote_mailbox' = [remote_mailbox EXCEPT ![machine[u]] = @ \cup
            {x \in M : Remote(x.sg) /\ ~gate[x.sg].in_sync}]
    BY <2>2, <2>3
  <2> QED BY <2>4, <2>5, <2>6, <2>7, <2>8
<1>13. M \in SUBSET MessageType
  BY <1>6
<1>14. WritesOut(u, t, e, M) /\ e.t <= ctx[u].horizon
  BY <1>1, <1>2, <1>3, <1>8, <1>9, <1>10, <1>11, <1>12, <1>13 DEF WritesOut
<1> QED BY <1>14 DEF t

\* A message with a new number is nowhere yet.
LEMMA NewNowhere ==
  ASSUME Once, FarOnce, NEW u, NEW t, NEW e, NEW M, WritesOut(u, t, e, M), NEW x \in M
  PROVE  /\ x \in MessageType /\ x.sg \in Stargates
         /\ ~InMail(x) /\ ~Queued(x) /\ ~OnBoard(x) /\ ~Received(x)
         /\ x \in Cargo => ~Far(x)
<1>1. x \in MessageType /\ x.sg \in Stargates
  BY DEF WritesOut, MessageType
<1>2. x.n = sent[x.sg] + 1 /\ sent[x.sg] \in Nat
  BY <1>1 DEF WritesOut
<1>3. ~(x.n <= sent[x.sg])
  BY <1>2
<1> QED BY <1>1, <1>3 DEF Once, FarOnce

\* Those for other machines wait for an epoch, or for the writer.
LEMMA WrittenFar ==
  ASSUME TypeOK, Routes, Once, FarOnce, NEW u \in Universes, NEW t, NEW e, NEW M,
         WritesOut(u, t, e, M), NEW x \in Cargo
  PROVE  /\ Apart(x)' /\ Alike(x)'
         /\ Far(x)' <=> Far(x) \/ x \in M
<1>0. /\ x.sg \in Stargates /\ Remote(x.sg) /\ There(x.sg) \in Universes
      /\ SourceMachine(x.sg) \in Machines /\ machine[There(x.sg)] = SourceMachine(x.sg)
      /\ \A v \in Universes : x \in global_binque[v] => v = There(x.sg)
      /\ \A k \in Machines : x \in remote_mailbox[k] => k = SourceMachine(x.sg)
      /\ machine[u] \in Machines
  BY CargoFacts, TopologyAssumption
<1>1. Apart(x) /\ Alike(x) /\ (x \in M => ~Far(x))
  BY NewNowhere DEF FarOnce
<1>2. x \in M => There(x.sg) = u /\ SourceMachine(x.sg) = machine[u]
  BY <1>0 DEF WritesOut, There
<1>3. /\ global_binque \in [Universes -> SUBSET MessageType]
      /\ remote_mailbox \in [Machines -> SUBSET MessageType]
      /\ gate[x.sg].in_sync \in BOOLEAN
  BY <1>0 DEF TypeOK, MessageTypeOK, TimelineTypeOK, GateType
<1>4. Stored(x)' <=> Stored(x) \/ (x \in M /\ gate[x.sg].in_sync)
  <2>1. global_binque' = [global_binque EXCEPT ![u] = @ \cup
          {y \in M : Remote(y.sg) /\ gate[y.sg].in_sync}]
    BY DEF WritesOut
  <2> QED BY <1>0, <1>2, <1>3, <2>1 DEF Stored, There
<1>5. Posted(x)' <=> Posted(x) \/ (x \in M /\ ~gate[x.sg].in_sync)
  <2>1. remote_mailbox' = [remote_mailbox EXCEPT ![machine[u]] = @ \cup
          {y \in M : Remote(y.sg) /\ ~gate[y.sg].in_sync}]
    BY DEF WritesOut
  <2> QED BY <1>0, <1>2, <1>3, <2>1 DEF Posted, SourceMachine
<1>6. /\ (Lined(x)' <=> Lined(x)) /\ (Handed(x)' <=> Handed(x)) /\ (Taken(x)' <=> Taken(x))
      /\ Alike(x)'
  BY <1>1 DEF WritesOut, Lined, OnLine, Handed, Taken, Here, SourceMachine, TargetMachine, Alike,
     Alone, Carrying
<1>7. Apart(x)'
  BY <1>1, <1>4, <1>5, <1>6 DEF Apart, Far
<1> QED BY <1>3, <1>4, <1>5, <1>6, <1>7 DEF Far

\* The places of a message when an event is processed.
LEMMA WrittenPlaces ==
  ASSUME TypeOK, NEW u \in Universes, NEW t, NEW e, NEW M, WritesOut(u, t, e, M),
         NEW x \in MessageType
  PROVE  /\ InMail(x)' <=>
              \/ InMail(x)
              \/ x \in M /\ ~SameUniverse(x.sg) /\ ~gate[x.sg].in_sync /\ ~Remote(x.sg)
         /\ Queued(x)' <=>
              \/ Queued(x)
              \/ x \in M /\ ~SameUniverse(x.sg) /\ gate[x.sg].in_sync /\ ~Remote(x.sg)
         /\ OnBoard(x)' <=> OnBoard(x)
         /\ Received(x)' => Received(x) \/ (x \in M /\ SameUniverse(x.sg))
<1>1. x.sg \in Stargates
  BY DEF MessageType
<1>2. local_binque \in [Universes -> SUBSET MessageType]
  BY DEF TypeOK, MessageTypeOK
<1>3. /\ evtlist' = [r \in Timelines |->
           (IF r = t THEN evtlist[r] \ {e} ELSE evtlist[r]) \cup
           {y \in M : SameUniverse(y.sg) /\ Dest(y) = r}]
      /\ local_binque' = [local_binque EXCEPT ![u] = @ \cup
           {y \in M : ~SameUniverse(y.sg) /\ gate[y.sg].in_sync /\ ~Remote(y.sg)}]
      /\ mailbox' = [s \in Stargates |-> mailbox[s] \cup
           {y \in M : ~SameUniverse(y.sg) /\ ~gate[y.sg].in_sync /\ ~Remote(y.sg) /\ y.sg = s}]
      /\ switch_board' = switch_board
  BY DEF WritesOut
<1>4. InMail(x)' <=>
        \/ InMail(x)
        \/ x \in M /\ ~SameUniverse(x.sg) /\ ~gate[x.sg].in_sync /\ ~Remote(x.sg)
  BY <1>1, <1>3 DEF InMail
<1>5. Queued(x)' <=>
        \/ Queued(x)
        \/ x \in M /\ ~SameUniverse(x.sg) /\ gate[x.sg].in_sync /\ ~Remote(x.sg)
  BY <1>2, <1>3 DEF Queued
<1>6. OnBoard(x)' <=> OnBoard(x)
  BY <1>3 DEF OnBoard
<1>7. Received(x)' => Received(x) \/ (x \in M /\ SameUniverse(x.sg))
  BY <1>3 DEF Received
<1> QED BY <1>4, <1>5, <1>6, <1>7

LEMMA RunMoves ==
  ASSUME TypeOK, Scheduling, Routes, Once, FarOnce, NEW u \in Universes, RunEvent(u)
  PROVE  /\ Once' /\ FarOnce'
         /\ \E e, M : EventMoves(ctx[u].cur, e, M) /\ M \in SUBSET MessageType
                      /\ e.t <= ctx[u].horizon
<1> DEFINE t == ctx[u].cur
<1>1. PICK e, M : WritesOut(u, t, e, M) /\ e.t <= ctx[u].horizon
  BY RunIsWritten
<1> HIDE DEF t
<1>2. /\ t \in Timelines /\ e \in evtlist[t] /\ M \in SUBSET MessageType
      /\ \A x \in M : x.n = sent[x.sg] + 1 /\ x.n = sent'[x.sg] /\ ~IsNull(x)
      /\ \A s \in Stargates : sent[s] \in Nat /\ sent'[s] \in Nat /\ sent[s] <= sent'[s]
  BY <1>1 DEF WritesOut
<1>3. ASSUME NEW x \in M
      PROVE  /\ ~InMail(x) /\ ~Queued(x) /\ ~OnBoard(x) /\ ~Received(x)
             /\ x \in Cargo => ~Far(x)
  BY <1>1, <1>3, NewNowhere
<1>4. ASSUME NEW x \in MessageType
      PROVE  /\ InMail(x)' <=>
                  \/ InMail(x)
                  \/ x \in M /\ ~SameUniverse(x.sg) /\ ~gate[x.sg].in_sync /\ ~Remote(x.sg)
             /\ Queued(x)' <=>
                  \/ Queued(x)
                  \/ x \in M /\ ~SameUniverse(x.sg) /\ gate[x.sg].in_sync /\ ~Remote(x.sg)
             /\ OnBoard(x)' <=> OnBoard(x)
             /\ Received(x)' => Received(x) \/ (x \in M /\ SameUniverse(x.sg))
  BY <1>1, <1>4, WrittenPlaces
<1>5. ASSUME NEW x \in Cargo
      PROVE  /\ Apart(x)' /\ Alike(x)'
             /\ Far(x)' <=> Far(x) \/ x \in M
  BY <1>1, <1>5, WrittenFar
<1>6. \A x : Remote(x.sg) => ~SameUniverse(x.sg)
  BY DEF Remote, SameUniverse, SourceMachine, TargetMachine
<1>7. ASSUME NEW x \in MessageType, x.n <= sent[x.sg] \/ x \in M PROVE x.n <= sent'[x.sg]
  <2>1. x.sg \in Stargates /\ x.n \in Nat
    BY DEF MessageType
  <2>2. sent[x.sg] \in Nat /\ sent'[x.sg] \in Nat /\ sent[x.sg] <= sent'[x.sg]
    BY <1>2, <2>1
  <2>3. x \in M => x.n = sent'[x.sg]
    BY <1>2
  <2> QED BY <1>7, <2>1, <2>2, <2>3
<1>8. Once'
  <2> SUFFICES ASSUME NEW x \in MessageType
               PROVE  /\ InMail(x)' => ~Queued(x)' /\ ~OnBoard(x)'
                      /\ Queued(x)' => ~OnBoard(x)'
                      /\ Received(x)' => ~InMail(x)' /\ ~Queued(x)' /\ ~OnBoard(x)'
                      /\ InMail(x)' \/ Queued(x)' \/ OnBoard(x)' \/ Received(x)' => x.n <= sent'[x.sg]
    BY DEF Once
  <2>1. CASE x \in M
    <3>1. x.n <= sent'[x.sg]
      BY <1>7, <2>1
    <3>2. ~InMail(x) /\ ~Queued(x) /\ ~OnBoard(x) /\ ~Received(x)
      BY <1>3, <2>1
    <3> QED BY <1>4, <3>1, <3>2
  <2>2. CASE x \notin M
    <3>1. InMail(x) \/ Queued(x) \/ OnBoard(x) \/ Received(x) => x.n <= sent'[x.sg]
      BY <1>7 DEF Once
    <3> QED BY <1>4, <2>2, <3>1 DEF Once
  <2> QED BY <2>1, <2>2
<1>9. FarOnce'
  <2>1. Cargo' = Cargo
    BY DEF Cargo, Remote, SourceMachine, TargetMachine, IsNull
  <2> SUFFICES ASSUME NEW x \in Cargo
               PROVE  /\ Apart(x)' /\ Alike(x)'
                      /\ Far(x)' => ~InMail(x)' /\ ~Received(x)' /\ x.n <= sent'[x.sg]
    BY <2>1 DEF FarOnce
  <2>2. x \in MessageType /\ Remote(x.sg) /\ ~SameUniverse(x.sg)
    BY <1>6 DEF Cargo
  <2>3. (InMail(x)' => InMail(x)) /\ (Received(x)' => Received(x))
    BY <1>4, <2>2
  <2>4. Apart(x)' /\ Alike(x)' /\ (Far(x)' => Far(x) \/ x \in M)
    BY <1>5
  <2>5. Far(x) => ~InMail(x) /\ ~Received(x) /\ x.n <= sent[x.sg]
    BY DEF FarOnce
  <2>6. x \in M => ~InMail(x) /\ ~Received(x)
    BY <1>3
  <2>7. Far(x)' => x.n <= sent'[x.sg]
    BY <1>7, <2>2, <2>4, <2>5
  <2> QED BY <2>3, <2>4, <2>5, <2>6, <2>7
<1>10. e \in MessageType => Received(e)
  BY <1>2 DEF Received
<1>11. e \notin Local /\ (e \in Cargo => ~Far(e))
  <2>1. e \notin Local
    BY <1>10 DEF Once, Local
  <2>2. e \in Cargo => ~Far(e)
    BY <1>10 DEF FarOnce, Cargo
  <2> QED BY <2>1, <2>2
<1>12. ASSUME NEW r \in Timelines
       PROVE  Entire(r)' = (IF r = t THEN Entire(r) \ {e} ELSE Entire(r))
                             \cup {x \in M : Dest(x) = r}
  <2>1. Local' = Local \cup {x \in M : ~SameUniverse(x.sg) /\ ~Remote(x.sg)}
    <3>1. ASSUME NEW x \in MessageType
          PROVE  InMail(x)' \/ Queued(x)' \/ OnBoard(x)'
                   <=> \/ InMail(x) \/ Queued(x) \/ OnBoard(x)
                       \/ x \in M /\ ~SameUniverse(x.sg) /\ ~Remote(x.sg)
      <4>1. gate[x.sg].in_sync \in BOOLEAN
        BY DEF TypeOK, TimelineTypeOK, GateType, MessageType
      <4> QED BY <1>4, <4>1
    <3>2. Local' = {x \in MessageType : InMail(x)' \/ Queued(x)' \/ OnBoard(x)'}
      BY DEF Local
    <3> QED BY <1>2, <3>1, <3>2 DEF Local
  <2>2. {x \in Cargo : Far(x)'} = {x \in Cargo : Far(x)} \cup {x \in M : Remote(x.sg)}
    <3>1. \A x \in M : Remote(x.sg) => x \in Cargo
      BY <1>2 DEF Cargo
    <3>2. \A x \in Cargo : Remote(x.sg)
      BY DEF Cargo
    <3> QED BY <1>5, <3>1, <3>2
  <2>3. Cargo' = Cargo
    BY DEF Cargo, Remote, SourceMachine, TargetMachine, IsNull
  <2>4. Entire(r)' = evtlist'[r] \cup {x \in Local' : Dest(x) = r}
                       \cup {x \in {y \in Cargo : Far(y)'} : Dest(x) = r}
    BY <2>3 DEF Entire, Whole, Dest
  <2>5. Entire(r) = evtlist[r] \cup {x \in Local : Dest(x) = r}
                       \cup {x \in {y \in Cargo : Far(y)} : Dest(x) = r}
    BY DEF Entire, Whole
  <2>6. evtlist'[r] = (IF r = t THEN evtlist[r] \ {e} ELSE evtlist[r]) \cup
                      {x \in M : SameUniverse(x.sg) /\ Dest(x) = r}
    BY <1>1 DEF WritesOut
  <2>7. e \notin {y \in Cargo : Far(y)} /\ e \notin Local
    BY <1>11
  <2>8. {x \in M : SameUniverse(x.sg) /\ Dest(x) = r}
          \cup {x \in M : ~SameUniverse(x.sg) /\ ~Remote(x.sg) /\ Dest(x) = r}
          \cup {x \in M : Remote(x.sg) /\ Dest(x) = r} = {x \in M : Dest(x) = r}
    OBVIOUS
  <2>9. /\ {x \in Local' : Dest(x) = r} = {x \in Local : Dest(x) = r}
             \cup {x \in M : ~SameUniverse(x.sg) /\ ~Remote(x.sg) /\ Dest(x) = r}
        /\ {x \in {y \in Cargo : Far(y)'} : Dest(x) = r}
             = {x \in {y \in Cargo : Far(y)} : Dest(x) = r} \cup {x \in M : Remote(x.sg) /\ Dest(x) = r}
    BY <2>1, <2>2
  <2> QED BY <2>4, <2>5, <2>6, <2>7, <2>8, <2>9
<1>13. EventMoves(t, e, M)
  BY <1>1, <1>12 DEF EventMoves, WritesOut
<1> QED BY <1>1, <1>2, <1>8, <1>9, <1>13 DEF t

-----------------------------------------------------------------------------
(* What is pending, and the refinement.                                    *)

LEMMA InitFarOnce == InitWritesOnTime /\ Init => FarOnce
<1> SUFFICES ASSUME InitWritesOnTime, Init, NEW x \in Cargo
             PROVE  /\ Apart(x) /\ Alike(x)
                    /\ Far(x) => ~InMail(x) /\ ~Received(x) /\ x.n <= sent[x.sg]
  BY DEF FarOnce
<1> DEFINE s == x.sg
<1>0. TypeOK /\ Routes
  BY InitType, InitLookahead DEF Lookahead
<1>1. /\ x \in MessageType /\ s \in Stargates /\ Remote(s) /\ ~SameUniverse(s)
      /\ Here(s) \in Universes /\ There(s) \in Universes
      /\ SourceMachine(s) \in Machines /\ TargetMachine(s) \in Machines
  BY <1>0, CargoFacts DEF Remote, SameUniverse, SourceMachine, TargetMachine
<1>2. /\ global_binque[There(s)] = {e \in InitWrites : universe[source[e.sg]] = There(s) /\ Remote(e.sg)}
      /\ remote_mailbox[SourceMachine(s)] = {}
      /\ net[<<SourceMachine(s), TargetMachine(s)>>] = <<>>
      /\ umailbox[Here(s)] = <<>> /\ ctx[Here(s)].io = <<>>
  BY <1>1, InitPlaces
<1>3. ~Posted(x) /\ ~Lined(x) /\ ~Handed(x) /\ ~Taken(x)
  BY <1>2, RangeFacts DEF Posted, Lined, OnLine, Handed, Taken, Range
<1>4. Apart(x)
  BY <1>3 DEF Apart
<1>5. Alike(x)
  BY <1>2 DEF Alike, Alone
<1>6. ASSUME Far(x) PROVE ~InMail(x) /\ ~Received(x) /\ x.n <= sent[x.sg]
  <2>1. x \in InitWrites
    BY <1>2, <1>3, <1>6 DEF Far, Stored
  <2>2. ~InMail(x)
    BY DEF Init, InMail
  <2>3. ASSUME NEW t \in Timelines, x \in evtlist[t] PROVE FALSE
    <3>1. evtlist[t] = {Message(0, n, n) : n \in InitEvents[t]} \cup
                       {e \in InitWrites : Dest(e) = t /\ SameUniverse(e.sg)}
      BY DEF Init
    <3>2. x \notin {Message(0, n, n) : n \in InitEvents[t]}
      BY <1>1, TopologyAssumption DEF Message
    <3> QED BY <1>1, <2>3, <3>1, <3>2
  <2>4. x.n <= sent[x.sg]
    <3>1. sent[x.sg] = Cardinality({e \in InitWrites : e.sg = x.sg})
      BY <1>1 DEF Init
    <3> QED BY <2>1, <3>1, NumberAssumption
  <2> QED BY <2>2, <2>3, <2>4 DEF Received
<1> QED BY <1>4, <1>5, <1>6

\* What the invariants say together, for any number of machines.
Whereabouts == Journeys /\ Once /\ FarOnce

LEMMA StepIsSilent ==
  ASSUME Whereabouts, [Next]_vars, ~(\E u \in Universes : RunEvent(u))
  PROVE  /\ Once' /\ FarOnce'
         /\ \A t \in Timelines : Ahead(t)' = Ahead(t)
<1>1. TypeOK /\ Scheduling /\ Routes /\ Kinds /\ Wakeups /\ Once /\ FarOnce
  BY JourneysGive DEF Whereabouts, Journeys
<1> QED BY <1>1, StepBrings

(* A message is in one place at a time: in a queue, a mailbox, a batch on   *)
(* the line, the mail of a thread or an event list, on whichever machine.   *)
(* So none is delivered twice, although a batch that a reader takes from    *)
(* the line is handed on one message at a time.                             *)
THEOREM WhereaboutsHold ==
  ASSUME InitWritesOnTime, InitWritesAhead
  PROVE  Spec => []Whereabouts
<1>1. Spec => []Journeys
  BY JourneysHold, InitWritesOnTime, InitWritesAhead
<1>2. Init => Once /\ FarOnce
  BY InitOnce, InitFarOnce, InitWritesOnTime
<1>3. Journeys /\ (Once /\ FarOnce) /\ [Next]_vars => (Once /\ FarOnce)'
  <2> SUFFICES ASSUME Journeys, Once, FarOnce, [Next]_vars PROVE Once' /\ FarOnce'
    OBVIOUS
  <2>1. CASE \E u \in Universes : RunEvent(u)
    <3>1. PICK u \in Universes : RunEvent(u)
      BY <2>1
    <3>2. TypeOK /\ Scheduling /\ Routes
      BY JourneysGive
    <3> QED BY <3>1, <3>2, RunMoves
  <2>2. CASE ~(\E u \in Universes : RunEvent(u))
    BY <2>2, StepIsSilent DEF Whereabouts
  <2> QED BY <2>1, <2>2
<1> QED BY <1>1, <1>2, <1>3, PTL DEF Spec, Whereabouts

\* All that is in flight is inside a machine or between two.
LEMMA InFlightIs ==
  ASSUME TypeOK, Scheduling, Routes, Kinds
  PROVE  InFlight = Local \cup {x \in Cargo : Far(x)}
<1>0. QueueRoutes /\ MailRoutes /\ NetRoutes
  BY DEF Routes
<1>1. ASSUME NEW x \in InFlight PROVE x \in Local \cup {y \in Cargo : Far(y)}
  <2>0. x \in MessageType /\ x.sg \in Stargates
    BY InFlightType DEF MessageType
  <2>1. CASE x \in BetweenMachines
    <3>1. ~IsNull(x)
      BY <2>1 DEF BetweenMachines
    <3>2. ASSUME NEW m \in Machines, x \in remote_mailbox[m] PROVE x \in Cargo /\ Far(x)
      BY <1>0, <2>0, <3>1, <3>2 DEF NetRoutes, Cargo, Far, Posted
    <3>3. ASSUME NEW mn \in Machines \X Machines, NEW b \in Range(net[mn]), x \in b.regular
          PROVE  x \in Cargo /\ Far(x)
      <4>1. PICK n \in Machines, m \in Machines : mn = <<n, m>>
        OBVIOUS
      <4>2. SourceMachine(x.sg) = n /\ TargetMachine(x.sg) = m /\ n # m
        BY <1>0, <3>3, <4>1 DEF NetRoutes
      <4>3. Lined(x) /\ Remote(x.sg)
        BY <3>3, <4>1, <4>2 DEF Lined, OnLine, Remote
      <4> QED BY <2>0, <3>1, <4>3 DEF Cargo, Far
    <3> QED BY <2>1, <3>2, <3>3 DEF BetweenMachines
  <2>2. ASSUME NEW s \in Stargates, x \in mailbox[s] PROVE x \in Local
    BY <2>0, <2>2 DEF Local, InMail
  <2>3. ASSUME NEW u \in Universes, x \in local_binque[u] \/ x \in switch_board[u]
        PROVE  x \in Local
    BY <2>0, <2>3 DEF Local, Queued, OnBoard
  <2>4. ASSUME NEW u \in Universes, x \in global_binque[u] PROVE x \in Cargo /\ Far(x)
    <3>1. There(x.sg) = u /\ Remote(x.sg) /\ ~IsNull(x)
      BY <1>0, <2>4 DEF QueueRoutes, Kinds, There
    <3> QED BY <2>0, <2>4, <3>1 DEF Cargo, Far, Stored
  <2>5. ASSUME NEW u \in Universes, x \in Range(umailbox[u]) \cup Range(ctx[u].io), ~IsNull(x)
        PROVE  x \in Cargo /\ Far(x)
    <3>1. Here(x.sg) = u
      BY <2>5 DEF Scheduling, Threads, ThreadOK, Owned, Here, Dest
    <3>2. Remote(x.sg)
      BY <1>0, <2>5 DEF MailRoutes
    <3> QED BY <2>0, <2>5, <3>1, <3>2 DEF Cargo, Far, Handed, Taken
  <2> QED BY <2>1, <2>2, <2>3, <2>4, <2>5 DEF InFlight
<1>2. ASSUME NEW x \in Local PROVE x \in InFlight
  BY DEF InFlight, Local, InMail, Queued, OnBoard
<1>3. ASSUME NEW x \in Cargo, Far(x) PROVE x \in InFlight
  <2>0. /\ ~IsNull(x) /\ Here(x.sg) \in Universes /\ There(x.sg) \in Universes
        /\ SourceMachine(x.sg) \in Machines /\ TargetMachine(x.sg) \in Machines
    BY CargoFacts
  <2>1. CASE Stored(x)
    BY <2>0, <2>1 DEF Stored, InFlight
  <2>2. CASE Posted(x)
    BY <2>0, <2>2 DEF Posted, InFlight, BetweenMachines
  <2>3. CASE Lined(x)
    <3>1. <<SourceMachine(x.sg), TargetMachine(x.sg)>> \in Machines \X Machines
      BY <2>0
    <3> QED BY <2>0, <2>3, <3>1 DEF Lined, OnLine, InFlight, BetweenMachines
  <2>4. CASE Handed(x)
    BY <2>0, <2>4 DEF Handed, InFlight
  <2>5. CASE Taken(x)
    BY <2>0, <2>5 DEF Taken, InFlight
  <2> QED BY <1>3, <2>1, <2>2, <2>3, <2>4, <2>5 DEF Far
<1> QED BY <1>1, <1>2, <1>3

LEMMA PendingAhead ==
  ASSUME TypeOK, Scheduling, Routes, Kinds
  PROVE  AbsPending = [t \in Timelines |-> Ahead(t)]
<1>1. InFlight = Local \cup {x \in Cargo : Far(x)}
  BY InFlightIs
<1>2. ASSUME NEW t \in Timelines
      PROVE  {e \in evtlist[t] \cup {x \in InFlight : Dest(x) = t} : e.t < endtime} = Ahead(t)
  BY <1>1 DEF Ahead, Entire, Whole
<1> QED BY <1>2 DEF AbsPending

LEMMA WhereaboutsGive ==
  ASSUME Whereabouts
  PROVE  /\ TypeOK /\ Meeting /\ Agreement /\ Scheduling /\ Lookahead /\ LbtsSafe
         /\ Routes /\ Kinds /\ Epochs /\ Once /\ FarOnce
         /\ AbsPending = [t \in Timelines |-> Ahead(t)]
         /\ AbsPending \in [Timelines -> SUBSET [sg : Nat, n : Nat, t : Nat]]
<1>1. /\ TypeOK /\ Meeting /\ Agreement /\ Scheduling /\ Lookahead /\ LbtsSafe
      /\ Routes /\ Kinds /\ Epochs /\ Once /\ FarOnce
  BY JourneysGive DEF Whereabouts, Journeys
<1> QED BY <1>1, PendingAhead, PendingType

\* A timeline that stays below its bound, and has nothing to do before c, may
\* move to time c.
LEMMA MayMove ==
  ASSUME Whereabouts, NEW t \in Timelines, InWindow(universe[t]), NEW c \in Nat,
         simclock[t] <= c, c <= lbts[t], \A e \in evtlist[t] : c <= e.t
  PROVE  c \in 0 .. endtime /\ Abs!MayReach(t, c)
<1>0. /\ TypeOK /\ Meeting /\ Agreement /\ Scheduling /\ LbtsSafe
      /\ ClocksInside /\ Promises /\ Passed /\ EpochLengths /\ EpochClasses /\ TimeKnown
  BY WhereaboutsGive DEF Lookahead, Epochs
<1>1. c <= endtime
  <2>1. universe[t] \in Universes
    BY TopologyAssumption
  <2>2. lbts[t] \in Nat /\ lbts[t] <= next_decade[universe[t]]
    BY <1>0, BoundInWindow
  <2>3. next_decade[universe[t]] <= endtime /\ next_decade[universe[t]] \in Nat
    BY <1>0, <2>1, WindowFacts DEF TypeOK, Meeting, Edges, Bounds
  <2> QED BY <2>2, <2>3, ParameterAssumption
<1>2. \A e \in AbsPending[t] : c <= e.t
  <2> SUFFICES ASSUME NEW e \in InFlight, Dest(e) = t PROVE c <= e.t
    BY DEF AbsPending
  <2>1. lbts[t] <= e.t /\ e.t \in Nat /\ lbts[t] \in Nat
    BY <1>0, InFlightType, SchedulingFacts DEF LbtsSafe, MessageType
  <2> QED BY <2>1
<1>3. ASSUME NEW s \in Stargates, target[s] = t
      PROVE  c <= simclock[source[s]] + min_delay[s]
  <2>1. CASE ~Remote(s)
    <3>1. lbts[t] <= simclock[source[s]] + min_delay[s]
      BY <1>0, <1>3, <2>1, LocalReach
    <3>2. /\ lbts[t] \in Nat /\ source[s] \in Timelines /\ min_delay[s] \in Nat
          /\ simclock[source[s]] \in Nat
      BY <1>0, SchedulingFacts, TopologyAssumption
    <3> QED BY <3>1, <3>2
  <2>2. CASE Remote(s)
    <3>0. InWindow(Here(s))
      BY <1>3 DEF Here
    <3>1. lbts[t] <= simclock[source[s]] + min_delay[s]
      BY <1>0, <1>3, <2>2, <3>0, RemoteReach
    <3>2. /\ lbts[t] \in Nat /\ source[s] \in Timelines /\ min_delay[s] \in Nat
          /\ simclock[source[s]] \in Nat
      BY <1>0, SchedulingFacts, TopologyAssumption
    <3> QED BY <3>1, <3>2
  <2> QED BY <2>1, <2>2
<1>4. Abs!MayReach(t, c)
  BY <1>1, <1>2, <1>3 DEF Abs!MayReach, AbsPending
<1> QED BY <1>1, <1>4, ParameterAssumption

\* The thread that runs a timeline is inside its window.
LEMMA RunsInside ==
  ASSUME Whereabouts, NEW u \in Universes, pc[u] = "run"
  PROVE  /\ ctx[u].cur \in Timelines /\ universe[ctx[u].cur] = u /\ InWindow(u)
         /\ simclock[ctx[u].cur] \in Nat /\ ctx[u].horizon \in Nat /\ lbts[ctx[u].cur] \in Nat
         /\ simclock[ctx[u].cur] <= ctx[u].horizon /\ ctx[u].horizon <= lbts[ctx[u].cur]
<1>0. TypeOK /\ Meeting /\ Scheduling
  BY WhereaboutsGive
<1>1. ctx[u].cur \in Timelines /\ ctx[u].horizon \in Nat
  BY <1>0 DEF TypeOK, Running, ThreadTypeOK, ContextType
<1>2. ThreadOK(u)
  BY <1>0 DEF Scheduling, Threads
<1>3. universe[ctx[u].cur] = u
  <2>1. ctx[u].cur \in TimelinesOf(u) \cup {NoTimeline}
    BY <1>2 DEF ThreadOK, Owned
  <2> QED BY <1>1, <2>1, TopologyAssumption DEF NoTimeline, TimelinesOf
<1>4. InWindow(u)
  BY DEF InWindow, AtEdge, WindowLabels
<1>5. simclock[ctx[u].cur] <= ctx[u].horizon /\ ctx[u].horizon <= lbts[ctx[u].cur]
  BY <1>2 DEF ThreadOK, Control
<1> QED BY <1>0, <1>1, <1>3, <1>4, <1>5, SchedulingFacts

\* What the timelines have to do, before a step and after it.
LEMMA PendingNow ==
  Whereabouts => /\ AbsPending = [t \in Timelines |-> Ahead(t)]
              /\ AbsPending \in [Timelines -> SUBSET [sg : Nat, n : Nat, t : Nat]]
BY WhereaboutsGive

LEMMA PendingOnward ==
  Whereabouts' => /\ AbsPending' = [t \in Timelines |-> Ahead(t)']
               /\ AbsPending' \in [Timelines -> SUBSET [sg : Nat, n : Nat, t : Nat]]
<1>1. (Whereabouts => /\ AbsPending = [t \in Timelines |-> Ahead(t)]
                   /\ AbsPending \in [Timelines -> SUBSET [sg : Nat, n : Nat, t : Nat]])'
  BY PendingNow, PTL
<1> QED BY <1>1

\* The steps that move messages, or let a thread wait, are not seen.
LEMMA StepIsHidden ==
  ASSUME Whereabouts, Whereabouts', [Next]_vars, ~(\E u \in Universes : RunEvent(u))
  PROVE  AbsPending' = AbsPending
<1>1. \A t \in Timelines : Ahead(t)' = Ahead(t)
  BY StepIsSilent
<1>2. /\ AbsPending = [t \in Timelines |-> Ahead(t)]
      /\ AbsPending' = [t \in Timelines |-> Ahead(t)']
  BY PendingNow, PendingOnward
<1> QED BY <1>1, <1>2

\* A timeline that reaches its horizon moves there.
LEMMA RunEndAdvances ==
  ASSUME Whereabouts, Whereabouts', [Next]_vars, ~(\E v \in Universes : RunEvent(v)),
         NEW u \in Universes, RunEnd(u)
  PROVE  Abs!Next
<1> DEFINE t == ctx[u].cur
           c == ctx[u].horizon
<1>0. pc[u] = "run" /\ simclock' = [simclock EXCEPT ![t] = c] /\ \A e \in evtlist[t] : e.t > c
  BY DEF RunEnd
<1>1. /\ t \in Timelines /\ universe[t] = u /\ InWindow(universe[t]) /\ c \in Nat
      /\ simclock[t] <= c /\ c <= lbts[t]
  BY <1>0, RunsInside
<1>2. \A e \in evtlist[t] : c <= e.t
  <2> SUFFICES ASSUME NEW e \in evtlist[t] PROVE c <= e.t
    OBVIOUS
  <2>1. e.t \in Nat
    BY <1>1, WhereaboutsGive, MessageElim DEF TypeOK, TimelineTypeOK
  <2> QED BY <1>0, <1>1, <2>1
<1> HIDE DEF t, c
<1>3. c \in 0 .. endtime /\ Abs!MayReach(t, c)
  BY <1>1, <1>2, MayMove
<1>4. AbsPending' = AbsPending
  BY StepIsHidden
<1>5. Abs!Advance(t, c)
  BY <1>0, <1>3, <1>4 DEF Abs!Advance, AbsPending
<1> QED BY <1>1, <1>3, <1>5 DEF Abs!Next, Abs!Step

\* An event before the end of the simulation is processed; one at the end is
\* of no interest.
LEMMA RunEventProcesses ==
  ASSUME Whereabouts, Whereabouts', NEW u \in Universes, RunEvent(u)
  PROVE  Abs!Next
<1>0. pc[u] = "run"
  BY DEF RunEvent
<1>. PICK t \in Timelines : t = ctx[u].cur
  BY <1>0, RunsInside
<1>1. Routes /\ TypeOK /\ Scheduling /\ Once /\ FarOnce /\ Lookahead
  BY WhereaboutsGive
<1>2. PICK e, M : EventMoves(t, e, M) /\ M \in SUBSET MessageType /\ e.t <= ctx[u].horizon
  BY <1>1, RunMoves
<1>3. /\ t \in Timelines /\ universe[t] = u /\ InWindow(universe[t])
      /\ simclock[t] \in Nat /\ ctx[u].horizon \in Nat /\ lbts[t] \in Nat
      /\ ctx[u].horizon <= lbts[t]
  BY <1>0, RunsInside
<1>4. /\ e \in evtlist[t] /\ e.t \in Nat /\ \A f \in evtlist[t] : e.t <= f.t
      /\ simclock' = [simclock EXCEPT ![t] = e.t]
      /\ \A x \in M : source[x.sg] = t /\ e.t + min_delay[x.sg] <= x.t
      /\ \A r \in Timelines :
           Entire(r)' = (IF r = t THEN Entire(r) \ {e} ELSE Entire(r)) \cup {x \in M : Dest(x) = r}
  BY <1>2 DEF EventMoves
<1>5. simclock[t] <= e.t
  BY <1>1, <1>3, <1>4 DEF Lookahead, Events
<1>6. e.t <= lbts[t]
  BY <1>2, <1>3, <1>4
<1>7. e.t \in 0 .. endtime /\ Abs!MayReach(t, e.t)
  BY <1>3, <1>4, <1>5, <1>6, MayMove
<1>8. \A r \in Timelines : /\ AbsPending[r] = {x \in Entire(r) : x.t < endtime}
                           /\ AbsPending'[r] = {x \in Entire(r)' : x.t < endtime}
  <2>1. /\ AbsPending = [r \in Timelines |-> Ahead(r)]
        /\ AbsPending' = [r \in Timelines |-> Ahead(r)']
    BY PendingNow, PendingOnward
  <2>2. \A r \in Timelines : /\ Ahead(r) = {x \in Entire(r) : x.t < endtime}
                             /\ Ahead(r)' = {x \in Entire(r)' : x.t < endtime}
    BY DEF Ahead
  <2> QED BY <2>1, <2>2
<1>9. \A x \in M : x.sg \in Stargates /\ x.t \in Nat /\ min_delay[x.sg] \in Nat \ {0}
  BY <1>2, TopologyAssumption DEF MessageType
<1>10. CASE e.t < endtime
  <2>1. e \in AbsPending[t]
    BY <1>3, <1>4, <1>8, <1>10 DEF Entire, Whole
  <2>2. AbsPending' \in [Timelines -> SUBSET [sg : Nat, n : Nat, t : Nat]]
    BY PendingOnward
  <2>3. ASSUME NEW r \in Timelines
        PROVE  /\ (IF r = t THEN AbsPending[r] \ {e} ELSE AbsPending[r]) \subseteq AbsPending'[r]
               /\ \A x \in AbsPending'[r] \ (IF r = t THEN AbsPending[r] \ {e} ELSE AbsPending[r]) :
                    Abs!Sendable(x, t, e.t, r)
    <3>1. /\ AbsPending[r] = {x \in Entire(r) : x.t < endtime}
          /\ AbsPending'[r] = {x \in Entire(r)' : x.t < endtime}
          /\ Entire(r)' = (IF r = t THEN Entire(r) \ {e} ELSE Entire(r)) \cup {x \in M : Dest(x) = r}
      BY <1>4, <1>8
    <3>2. (IF r = t THEN AbsPending[r] \ {e} ELSE AbsPending[r]) \subseteq AbsPending'[r]
      BY <3>1
    <3>3. \A x \in AbsPending'[r] \ (IF r = t THEN AbsPending[r] \ {e} ELSE AbsPending[r]) :
             x \in M /\ Dest(x) = r
      BY <3>1
    <3>4. \A x \in M : Dest(x) = r => Abs!Sendable(x, t, e.t, r)
      BY <1>4, <1>9 DEF Abs!Sendable, Dest
    <3> QED BY <3>2, <3>3, <3>4
  <2>4. Abs!Process(t, e)
    BY <1>4, <1>7, <2>1, <2>2, <2>3 DEF Abs!Process, AbsPending
  <2>5. \E x \in AbsPending[t] : Abs!Process(t, x)
    BY <2>1, <2>4
  <2>6. Abs!Step(t)
    BY <2>5 DEF Abs!Step, AbsPending
  <2> QED BY <1>3, <2>6 DEF Abs!Next
<1>11. CASE ~(e.t < endtime)
  <2>1. e.t = endtime
    BY <1>4, <1>7, <1>11, ParameterAssumption
  <2>2. \A x \in M : ~(x.t < endtime)
    <3> SUFFICES ASSUME NEW x \in M PROVE ~(x.t < endtime)
      OBVIOUS
    <3>1. e.t + min_delay[x.sg] <= x.t
      BY <1>4
    <3> QED BY <1>4, <1>9, <2>1, <3>1
  <2>3. ASSUME NEW r \in Timelines PROVE AbsPending'[r] = AbsPending[r]
    BY <1>4, <1>8, <1>11, <2>2
  <2>4. AbsPending' = AbsPending
    BY <2>3 DEF AbsPending
  <2>5. Abs!Advance(t, e.t)
    BY <1>4, <1>7, <2>4 DEF Abs!Advance, AbsPending
  <2> QED BY <1>3, <1>7, <2>5 DEF Abs!Next, Abs!Step
<1> QED BY <1>10, <1>11

(* The machines together implement CausalTime: whichever way a message      *)
(* takes, inside a machine or between two, and however the threads, the     *)
(* readers and the writers interleave, a timeline moves only to a time      *)
(* before which nothing can still reach it, processes its events in the     *)
(* order of their times, and neither loses nor repeats one.                 *)
THEOREM ImplementsCausalTimeHolds ==
  ASSUME InitWritesOnTime, InitWritesAhead
  PROVE  Spec => ImplementsCausalTime
<1>1. Init => Abs!Init
  <2> SUFFICES ASSUME Init PROVE Abs!Init
    OBVIOUS
  <2>1. AbsPending \in [Timelines -> SUBSET [sg : Nat, n : Nat, t : Nat]]
    BY InitType, PendingType
  <2>2. simclock = [t \in Timelines |-> 0]
    BY DEF Init
  <2> QED BY <2>1, <2>2 DEF Abs!Init, AbsPending
<1>2. Whereabouts /\ Whereabouts' /\ [Next]_vars => [Abs!Next]_Abs!vars
  <2> SUFFICES ASSUME Whereabouts, Whereabouts', [Next]_vars PROVE [Abs!Next]_Abs!vars
    OBVIOUS
  <2>1. CASE \E u \in Universes : RunEvent(u)
    BY <2>1, RunEventProcesses
  <2>2. CASE ~(\E u \in Universes : RunEvent(u)) /\ \E u \in Universes : RunEnd(u)
    BY <2>2, RunEndAdvances
  <2>3. CASE ~(\E u \in Universes : RunEvent(u)) /\ ~(\E u \in Universes : RunEnd(u))
    <3>1. AbsPending' = AbsPending
      BY <2>3, StepIsHidden
    <3>2. simclock' = simclock
      <4>1. CASE \E u \in Universes : Thread(u)
        BY <2>3, <4>1, ThreadFrame
      <4>2. CASE ~(\E u \in Universes : Thread(u))
        BY <4>2, OtherFrame DEF Next, Finished
      <4> QED BY <4>1, <4>2
    <3> QED BY <3>1, <3>2 DEF Abs!vars, AbsPending
  <2> QED BY <2>1, <2>2, <2>3
<1>3. Spec => []Whereabouts
  BY WhereaboutsHold, InitWritesOnTime, InitWritesAhead
<1> QED BY <1>1, <1>2, <1>3, PTL DEF Spec, ImplementsCausalTime, Abs!Spec

=============================================================================
