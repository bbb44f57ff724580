-------------------------- MODULE CompositeSyncProofs --------------------------
(***************************************************************************)
(* Type correctness of CompositeSync, and that the threads of a machine go *)
(* from one time window to the next together and the machines from one     *)
(* epoch to the next, for every topology and every choice of its           *)
(* parameters.                                                             *)
(***************************************************************************)
EXTENDS CompositeSync, FiniteSetTheorems, WellFoundedInduction, TLAPS

USE TopologyAssumption

-----------------------------------------------------------------------------
(* Helpers.                                                                *)

LEMMA LeastType ==
  ASSUME NEW S, S \subseteq Nat
  PROVE  Least(S) \in Nat
<1>1. CASE \E x \in S : IsFirst(x, S)
  <2> DEFINE x == CHOOSE y \in S : IsFirst(y, S)
  <2>1. x \in S
    BY <1>1
  <2> QED BY <1>1, <2>1 DEF Least
<1>2. CASE ~\E x \in S : IsFirst(x, S)
  BY <1>2, ParameterAssumption DEF Least
<1> QED BY <1>1, <1>2

LEMMA LesserType ==
  ASSUME NEW a \in Nat, NEW b \in Nat
  PROVE  Lesser(a, b) \in Nat
BY DEF Lesser

LEMMA ClipType ==
  ASSUME NEW a \in Nat, NEW b \in Nat
  PROVE  Clip(a, b) \in Nat
BY ParameterAssumption DEF Clip, Lesser

LEMMA WindowLengthType ==
  ASSUME NEW S \in SUBSET Stargates, NEW thresh \in Nat
  PROVE  WindowLength(S, thresh) \in Nat
<1>1. {min_delay[s] : s \in {r \in S : min_delay[r] >= thresh}} \subseteq Nat
  OBVIOUS
<1> QED BY <1>1, LeastType DEF WindowLength

LEMMA LengthType ==
  ASSUME NEW th \in [thresh : Nat, training : BOOLEAN], NEW m \in Machines
  PROVE  LocalLength(m, th) \in Nat /\ GlobalLength(th) \in Nat
<1>1. LocalGates(m) \in SUBSET Stargates /\ RemoteGates \in SUBSET Stargates
  BY DEF LocalGates, RemoteGates
<1> QED BY <1>1, WindowLengthType DEF LocalLength, GlobalLength

LEMMA SequenceType ==
  ASSUME NEW S
  PROVE  /\ <<>> \in Seq(S)
         /\ \A q \in Seq(S), x \in S : Append(q, x) \in Seq(S) /\ <<x>> \o q \in Seq(S)
         /\ \A q \in Seq(S) : q # <<>> => Head(q) \in S /\ Tail(q) \in Seq(S)
OBVIOUS

LEMMA MessageIntro ==
  ASSUME NEW s \in Stargates, NEW n \in Nat, NEW t \in Nat
  PROVE  Message(s, n, t) \in MessageType
BY DEF Message, MessageType

LEMMA MessageElim ==
  /\ MessageType \subseteq EventType
  /\ \A e \in EventType : e.t \in Nat
  /\ \A e \in MessageType : e.sg \in Stargates /\ e.t \in Nat /\ Dest(e) \in Timelines
BY DEF MessageType, EventType, Dest

\* The fields of a thread's local variables can be set one by one.
LEMMA ContextSet ==
  ASSUME NEW c \in ContextType
  PROVE  /\ c.cur \in Timelines \cup {NoTimeline} /\ c.horizon \in Nat
         /\ c.out \subseteq Stargates /\ c.open \subseteq Timelines
         /\ c.io \in Seq(MessageType)
         /\ \A t \in Timelines \cup {NoTimeline} : [c EXCEPT !.cur = t] \in ContextType
         /\ \A t \in Timelines \cup {NoTimeline}, h \in Nat :
               [c EXCEPT !.cur = t, !.horizon = h] \in ContextType
         /\ \A S \in SUBSET Stargates : [c EXCEPT !.out = S] \in ContextType
         /\ \A S \in SUBSET Stargates, h \in Nat :
               [c EXCEPT !.out = S, !.horizon = h] \in ContextType
         /\ \A q \in Seq(MessageType) : [c EXCEPT !.io = q] \in ContextType
         /\ \A S \in SUBSET Timelines : [c EXCEPT !.open = S] \in ContextType
BY DEF ContextType

LEMMA ScanSet ==
  /\ NoScan \in ScanType
  /\ \A c \in ScanType : /\ [c EXCEPT !.hold = 0] \in ScanType
                         /\ c.low \in Nat /\ c.tl \in Timelines \cup {NoTimeline}
                         /\ c.hold \in Stargates \cup {0} /\ c.todo \subseteq Stargates
                         /\ c.ret \in {"open", "sched", "update", "io", "drain io"}
BY DEF ScanType, NoScan, NoTimeline

LEMMA BeginScanType ==
  ASSUME ThreadTypeOK, WindowTypeOK, NEW u \in Universes, NEW t \in Timelines,
         NEW ret \in {"open", "sched", "update", "io", "drain io"}, BeginScan(u, t, ret)
  PROVE  scan' \in [Universes -> ScanType] /\ pc' \in [Universes -> Labels]
<1>1. InboundAsync(t) \subseteq Stargates
  BY DEF InboundAsync
<1>2. next_window(u) \in Nat
  BY LesserType DEF next_window, WindowTypeOK
<1>3. [tl |-> t, todo |-> InboundAsync(t), hold |-> 0, low |-> next_window(u),
       ret |-> ret] \in ScanType
  BY <1>1, <1>2 DEF ScanType
<1> QED BY <1>3 DEF BeginScan, Goto, ThreadTypeOK, Labels

LEMMA ThresholdType ==
  /\ global_thresholds \in Seq(Nat)
  /\ \A i \in DOMAIN global_thresholds : global_thresholds[i] \in Nat
  /\ \A m \in Machines : /\ local_thresholds[m] \in Seq(Nat)
                         /\ \A i \in DOMAIN local_thresholds[m] : local_thresholds[m][i] \in Nat
<1>1. \A q \in Seq(Nat) : \A i \in DOMAIN q : q[i] \in Nat
  OBVIOUS
<1>2. global_thresholds \in Seq(Nat) /\ \A m \in Machines : local_thresholds[m] \in Seq(Nat)
  BY ParameterAssumption
<1> QED BY <1>1, <1>2

LEMMA FirstThreshold ==
  /\ global_length > 0 => global_thresholds[1] \in Nat
  /\ \A m \in Machines : local_thresholds[m] # <<>> => local_thresholds[m][1] \in Nat
<1>1. \A q \in Seq(Nat) : q # <<>> => 1 \in DOMAIN q
  OBVIOUS
<1> QED BY <1>1, ThresholdType, ParameterAssumption

LEMMA BeginScanRunning ==
  ASSUME ThreadTypeOK, Running, NEW u \in Universes, NEW t \in Timelines,
         NEW ret \in {"open", "sched", "io", "drain io"}, BeginScan(u, t, ret),
         \A v \in Universes : ctx'[v].cur = ctx[v].cur
  PROVE  Running'
<1>1. \A v \in Universes \ {u} : pc'[v] = pc[v] /\ scan'[v] = scan[v]
  BY DEF BeginScan, Goto, ThreadTypeOK
<1>2. pc'[u] = "scan" /\ scan'[u].tl = t /\ scan'[u].ret = ret
  BY DEF BeginScan, Goto, ThreadTypeOK
<1> QED BY <1>1, <1>2 DEF Running

LEMMA StartType ==
  /\ \A m \in Machines : StartLocal(m) \in [thresh : Nat, training : BOOLEAN]
  /\ StartGlobal \in [thresh : Nat, training : BOOLEAN]
<1>1. \A m \in Machines : StartLocal(m) \in [thresh : Nat, training : BOOLEAN]
  BY FirstThreshold, ParameterAssumption DEF StartLocal
<1>2. StartGlobal \in [thresh : Nat, training : BOOLEAN]
  <2>1. ~NoGlobalTraining => global_length > 0
    BY ParameterAssumption DEF NoGlobalTraining
  <2> QED BY <2>1, FirstThreshold, ParameterAssumption DEF StartGlobal
<1> QED BY <1>1, <1>2

LEMMA ClassifyType ==
  ASSUME NEW g \in [Stargates -> GateType], NEW S, NEW thresh \in Nat, NEW now \in Nat
  PROVE  Classify(g, S, thresh, now) \in [Stargates -> GateType]
<1> SUFFICES ASSUME NEW s \in Stargates
             PROVE  Classify(g, S, thresh, now)[s] \in GateType
  BY DEF Classify
<1>1. g[s] \in GateType /\ min_delay[s] \in Nat
  OBVIOUS
<1>2. \A t \in Nat : [in_sync |-> FALSE, time |-> t] \in GateType
  BY DEF GateType
<1>3. [g[s] EXCEPT !.in_sync = TRUE] \in GateType
  BY <1>1 DEF GateType
<1>4. g[s].time \in Nat /\ now + min_delay[s] \in Nat
  BY <1>1 DEF GateType
<1> QED BY <1>1, <1>2, <1>3, <1>4 DEF Classify

\* The next threshold to try, when there is one, is in the list.
LEMMA NextThreshold ==
  ASSUME NEW m \in Machines, WindowTypeOK, ~LastGlobalRound(m),
         NEW i, i = IF StartingGlobal(m) THEN 1 ELSE g_idx[m] + 1
  PROVE  i \in Nat /\ global_thresholds[i] \in Nat
<1>1. CASE StartingGlobal(m)
  <2>1. global_length > 0
    BY <1>1, ParameterAssumption DEF LastGlobalRound, NoGlobalTraining
  <2> QED BY <1>1, <2>1, FirstThreshold
<1>2. CASE ~StartingGlobal(m)
  <2>1. g_idx[m] \in Nat /\ ~(g_idx[m] >= Len(global_thresholds))
    BY <1>2 DEF LastGlobalRound, WindowTypeOK
  <2>2. i \in Nat /\ i \in DOMAIN global_thresholds
    BY <1>2, <2>1, ThresholdType
  <2> QED BY <2>2, ThresholdType
<1> QED BY <1>1, <1>2

\* Likewise for the thresholds of a machine.
LEMMA NextTrial ==
  ASSUME NEW m \in Machines, WindowTypeOK, l_idx[m] < Len(local_thresholds[m])
  PROVE  l_idx[m] + 1 \in DOMAIN local_thresholds[m]
<1>1. l_idx[m] \in Nat /\ local_thresholds[m] \in Seq(Nat)
  BY ThresholdType DEF WindowTypeOK
<1> QED BY <1>1

LEMMA NextEventTimeType ==
  ASSUME TimelineTypeOK, NEW t \in Timelines
  PROVE  NextEventTime(t) \in Nat
<1>1. {e.t : e \in evtlist[t]} \subseteq Nat
  BY MessageElim DEF TimelineTypeOK
<1> QED BY <1>1, LeastType DEF NextEventTime

\* A conjunct of TypeOK survives a step that leaves its variables alone.
LEMMA KeepTimelines ==
  ASSUME TimelineTypeOK, UNCHANGED <<tmlnVars, gateVars>>
  PROVE  TimelineTypeOK'
BY DEF TimelineTypeOK, tmlnVars, gateVars

LEMMA KeepMessages ==
  ASSUME MessageTypeOK, UNCHANGED <<mailVars, binVars, netVars, sent>>
  PROVE  MessageTypeOK'
BY DEF MessageTypeOK, mailVars, binVars, netVars

LEMMA KeepWindows ==
  ASSUME WindowTypeOK, UNCHANGED <<windowVars, trainVars>>
  PROVE  WindowTypeOK'
BY DEF WindowTypeOK, windowVars, trainVars, localVars, globalVars

LEMMA KeepThreads ==
  ASSUME ThreadTypeOK, Running, UNCHANGED threadVars
  PROVE  ThreadTypeOK' /\ Running'
BY DEF ThreadTypeOK, Running, threadVars

-----------------------------------------------------------------------------
(* One lemma per action.                                                   *)

\* A thread may be sent to any point where no timeline is at hand.
LEMMA JumpType ==
  ASSUME TypeOK, pc' \in [Universes -> Labels],
         \A u \in Universes : pc'[u] \in {"run", "update", "notify", "scan"} => pc'[u] = pc[u],
         UNCHANGED <<tmlnVars, gateVars, mailVars, binVars, netVars, windowVars, trainVars,
                     ctx, scan, runnable, sent>>
  PROVE  TypeOK'
<1>1. TimelineTypeOK' /\ MessageTypeOK' /\ WindowTypeOK'
  BY KeepTimelines, KeepMessages, KeepWindows DEF TypeOK
<1>2. ThreadTypeOK' /\ Running'
  BY DEF TypeOK, ThreadTypeOK, Running
<1> QED BY <1>1, <1>2 DEF TypeOK

LEMMA DispatchType ==
  ASSUME TypeOK, NEW u \in Universes, Dispatch(u)
  PROVE  TypeOK'
<1> USE DEF TypeOK
<1>1. TimelineTypeOK'
  BY KeepTimelines DEF Dispatch
<1>2. MessageTypeOK'
  <2>1. local_binque' \in [Universes -> SUBSET MessageType]
    <3> DEFINE out == Retrieved(local_binque[u], u, next_decade[u])
    <3>1. local_binque[u] \ out \in SUBSET MessageType
      BY DEF MessageTypeOK
    <3>2. \/ local_binque' = local_binque
          \/ local_binque' = [local_binque EXCEPT ![u] = @ \ out]
      BY DEF Dispatch
    <3> HIDE DEF out
    <3> QED BY <3>1, <3>2 DEF MessageTypeOK
  <2>2. switch_board' \in [Universes -> SUBSET MessageType]
    <3> DEFINE out == Retrieved(local_binque[u], u, next_decade[u])
    <3>1. out \subseteq MessageType
      BY DEF Retrieved, MessageTypeOK
    <3>2. \/ switch_board' = switch_board
          \/ switch_board' = [v \in Universes |->
               switch_board[v] \cup {e \in out : universe[Dest(e)] = v}]
      BY DEF Dispatch
    <3> HIDE DEF out
    <3> QED BY <3>1, <3>2 DEF MessageTypeOK
  <2> QED BY <2>1, <2>2 DEF Dispatch, MessageTypeOK, mailVars, binVars, netVars
<1>3. WindowTypeOK'
  BY KeepWindows DEF Dispatch
<1>4. ThreadTypeOK' /\ Running'
  <2>1. pc' \in [Universes -> Labels]
    <3>1. "dispatched" \in Labels /\ AfterLocalEdge(u) \in Labels
      BY DEF AfterLocalEdge, Labels
    <3>2. \E l \in Labels : pc' = [pc EXCEPT ![u] = l]
      BY <3>1 DEF Dispatch, Goto
    <3> QED BY <3>2 DEF ThreadTypeOK
  <2>2. Running'
    BY DEF Dispatch, Retrieved, AfterLocalEdge, Goto, Running, ThreadTypeOK
  <2> QED BY <2>1, <2>2 DEF Dispatch, ThreadTypeOK, threadVars
<1> QED BY <1>1, <1>2, <1>3, <1>4

LEMMA CollectType ==
  ASSUME TypeOK, NEW u \in Universes, Collect(u)
  PROVE  TypeOK'
<1> USE DEF TypeOK
<1>1. TimelineTypeOK'
  <2>1. evtlist' \in [Timelines -> SUBSET EventType]
    <3>1. switch_board[u] \subseteq EventType
      BY MessageElim DEF MessageTypeOK
    <3> QED BY <3>1 DEF Collect, TimelineTypeOK
  <2> QED BY <2>1 DEF Collect, TimelineTypeOK, tmlnVars, gateVars
<1>2. MessageTypeOK'
  <2>1. switch_board' \in [Universes -> SUBSET MessageType]
    BY DEF Collect, AfterLocalEdge, Goto, MessageTypeOK
  <2> QED BY <2>1 DEF Collect, MessageTypeOK, mailVars, binVars, netVars
<1>3. WindowTypeOK'
  BY KeepWindows DEF Collect
<1>4. ThreadTypeOK' /\ Running'
  <2>1. pc' \in [Universes -> Labels]
    BY DEF Collect, AfterLocalEdge, Goto, ThreadTypeOK, Labels
  <2>2. Running'
    BY DEF Collect, AfterLocalEdge, Goto, Running, ThreadTypeOK
  <2> QED BY <2>1, <2>2 DEF Collect, ThreadTypeOK, threadVars
<1> QED BY <1>1, <1>2, <1>3, <1>4

LEMMA SendEpochType ==
  ASSUME TypeOK, NEW u \in Universes, SendEpoch(u)
  PROVE  TypeOK'
<1> USE DEF TypeOK
<1>1. TimelineTypeOK'
  BY KeepTimelines DEF SendEpoch
<1>2. MessageTypeOK'
  <2>1. global_binque' \in [Universes -> SUBSET MessageType]
    BY DEF SendEpoch, Retrieved, Goto, MessageTypeOK
  <2>2. remote_mailbox' \in [Machines -> SUBSET MessageType]
    BY DEF SendEpoch, Retrieved, Goto, MessageTypeOK
  <2> QED BY <2>1, <2>2 DEF SendEpoch, MessageTypeOK, mailVars, binVars, netVars
<1>3. WindowTypeOK'
  BY KeepWindows DEF SendEpoch
<1>4. ThreadTypeOK' /\ Running'
  <2>1. pc' \in [Universes -> Labels]
    BY DEF SendEpoch, Retrieved, Goto, ThreadTypeOK, Labels
  <2>2. Running'
    BY DEF SendEpoch, Retrieved, Goto, Running, ThreadTypeOK
  <2> QED BY <2>1, <2>2 DEF SendEpoch, ThreadTypeOK, threadVars
<1> QED BY <1>1, <1>2, <1>3, <1>4

LEMMA AwaitType ==
  ASSUME TypeOK, NEW u \in Universes, Await(u) \/ Opened(u)
  PROVE  TypeOK'
<1>1. pc' = [pc EXCEPT ![u] = "reduced"] \/ pc' = [pc EXCEPT ![u] = "sched"]
  BY DEF Await, Opened, Goto
<1>2. pc' \in [Universes -> Labels]
  BY <1>1 DEF TypeOK, ThreadTypeOK, Labels
<1>3. \A v \in Universes : pc'[v] \in {"run", "update", "notify", "scan"} => pc'[v] = pc[v]
  BY <1>1 DEF TypeOK, ThreadTypeOK
<1> QED BY <1>2, <1>3, JumpType DEF Await, Opened

LEMMA TrainLocalType ==
  ASSUME TypeOK, NEW u \in Universes, TrainLocal(u)
  PROVE  TypeOK'
<1> USE DEF TypeOK
<1>1. TimelineTypeOK'
  <2>1. gate' \in [Stargates -> GateType]
    <3> DEFINE m == machine[u]
    <3>1. m \in Machines /\ synpoint[u] \in Nat /\ gate \in [Stargates -> GateType]
      BY DEF WindowTypeOK, TimelineTypeOK
    <3>2. \A i \in DOMAIN local_thresholds[m] :
             Classify(gate, LocalGates(m), local_thresholds[m][i], synpoint[u])
               \in [Stargates -> GateType]
      BY <3>1, ClassifyType, ThresholdType
    <3>3. \/ gate' = gate
          \/ \E i \in DOMAIN local_thresholds[m] :
                gate' = Classify(gate, LocalGates(m), local_thresholds[m][i], synpoint[u])
      BY NextTrial DEF TrainLocal
    <3> HIDE DEF m
    <3> QED BY <3>1, <3>2, <3>3
  <2> QED BY <2>1 DEF TrainLocal, TimelineTypeOK, tmlnVars, gateVars
<1>2. MessageTypeOK'
  BY KeepMessages DEF TrainLocal
<1>3. WindowTypeOK'
  <2>1. decade_length' \in [Machines -> Nat]
    <3> DEFINE m == machine[u]
               length(i, b) == LocalLength(m, [thresh |-> local_thresholds[m][i], training |-> b])
    <3>1. m \in Machines /\ decade_length \in [Machines -> Nat]
      BY DEF WindowTypeOK
    <3>2. \A i \in DOMAIN local_thresholds[m], b \in BOOLEAN : length(i, b) \in Nat
      BY <3>1, LengthType, ThresholdType
    <3>3. \/ decade_length' = decade_length
          \/ \E i \in DOMAIN local_thresholds[m], b \in BOOLEAN :
                decade_length' = [decade_length EXCEPT ![m] = length(i, b)]
      BY NextTrial DEF TrainLocal
    <3> HIDE DEF length, m
    <3> QED BY <3>1, <3>2, <3>3
  <2>2. local_roundup' \in [Machines -> Nat]
    <3> DEFINE m == machine[u]
    <3>1. m \in Machines /\ local_roundup \in [Machines -> Nat]
      BY DEF WindowTypeOK
    <3>2. local_round[m] \in Nat /\ Infinity \in Nat
      BY ParameterAssumption
    <3>3. \/ local_roundup' = local_roundup
          \/ local_roundup' = [local_roundup EXCEPT ![m] = local_roundup[m] + local_round[m]]
          \/ local_roundup' = [local_roundup EXCEPT ![m] = Infinity]
      BY DEF TrainLocal
    <3> HIDE DEF m
    <3> QED BY <3>1, <3>2, <3>3
  <2>3. l_idx' \in [Machines -> Nat]
    <3>1. l_idx' = l_idx \/ l_idx' = [l_idx EXCEPT ![machine[u]] = @ + 1]
      BY DEF TrainLocal
    <3> QED BY <3>1 DEF WindowTypeOK
  <2>4. local_reclassified' \in [Machines -> BOOLEAN]
    BY DEF TrainLocal, Goto, WindowTypeOK
  <2>5. global_reclassified' \in [Machines -> BOOLEAN]
    BY DEF TrainLocal, Goto, WindowTypeOK
  <2> QED BY <2>1, <2>2, <2>3, <2>4, <2>5 DEF TrainLocal, WindowTypeOK, windowVars, trainVars, localVars, globalVars
<1>4. ThreadTypeOK' /\ Running'
  <2>1. pc' \in [Universes -> Labels]
    BY DEF TrainLocal, Goto, ThreadTypeOK, Labels
  <2>2. Running'
    BY DEF TrainLocal, Goto, Running, ThreadTypeOK
  <2> QED BY <2>1, <2>2 DEF TrainLocal, ThreadTypeOK, threadVars
<1> QED BY <1>1, <1>2, <1>3, <1>4

LEMMA TrainGlobalType ==
  ASSUME TypeOK, NEW u \in Universes, TrainGlobal(u)
  PROVE  TypeOK'
<1> USE DEF TypeOK
<1>1. TimelineTypeOK'
  <2>1. gate' \in [Stargates -> GateType]
    <3> DEFINE i == IF StartingGlobal(machine[u]) THEN 1 ELSE g_idx[machine[u]] + 1
    <3>1. i \in Nat /\ global_thresholds[i] \in Nat
      BY NextThreshold DEF TrainGlobal
    <3>2. gate' = Classify(gate, {s \in RemoteGates : SourceMachine(s) \in {machine[u]}},
                         global_thresholds[i], synpoint[u])
      BY DEF TrainGlobal, ClassifyGlobal
    <3> HIDE DEF i
    <3> QED BY <3>1, <3>2, ClassifyType DEF TimelineTypeOK, WindowTypeOK
  <2>2. rgate' \in [Stargates -> GateType]
    <3> DEFINE i == IF StartingGlobal(machine[u]) THEN 1 ELSE g_idx[machine[u]] + 1
    <3>1. i \in Nat /\ global_thresholds[i] \in Nat
      BY NextThreshold DEF TrainGlobal
    <3>2. rgate' = Classify(rgate, {s \in RemoteGates : TargetMachine(s) \in {machine[u]}},
                         global_thresholds[i], synpoint[u])
      BY DEF TrainGlobal, ClassifyGlobal
    <3> HIDE DEF i
    <3> QED BY <3>1, <3>2, ClassifyType DEF TimelineTypeOK, WindowTypeOK
  <2> QED BY <2>1, <2>2 DEF TrainGlobal, TimelineTypeOK, tmlnVars, gateVars
<1>2. MessageTypeOK'
  BY KeepMessages DEF TrainGlobal
<1>3. WindowTypeOK'
  <2>1. epoch_length' \in [Machines -> Nat]
    <3> DEFINE i == IF StartingGlobal(machine[u]) THEN 1 ELSE g_idx[machine[u]] + 1
    <3>1. i \in Nat /\ global_thresholds[i] \in Nat
      BY NextThreshold DEF TrainGlobal
    <3>2. epoch_length' = [epoch_length EXCEPT ![machine[u]] = global_thresholds[i]]
      BY DEF TrainGlobal
    <3> HIDE DEF i
    <3> QED BY <3>1, <3>2 DEF WindowTypeOK
  <2>2. global_roundup' \in [Machines -> Nat]
    <3> DEFINE m == machine[u]
    <3>1. m \in Machines /\ global_roundup \in [Machines -> Nat] /\ global_round \in Nat
      BY ParameterAssumption DEF WindowTypeOK
    <3>2. global_roundup' = [global_roundup EXCEPT ![m] = global_roundup[m] + global_round]
      BY DEF TrainGlobal
    <3> HIDE DEF m
    <3> QED BY <3>1, <3>2
  <2>3. g_idx' \in [Machines -> Nat]
    <3> DEFINE i == IF StartingGlobal(machine[u]) THEN 1 ELSE g_idx[machine[u]] + 1
    <3>1. i \in Nat /\ global_thresholds[i] \in Nat
      BY NextThreshold DEF TrainGlobal
    <3>2. g_idx' = [g_idx EXCEPT ![machine[u]] = i]
      BY DEF TrainGlobal
    <3> HIDE DEF i
    <3> QED BY <3>1, <3>2 DEF WindowTypeOK
  <2>4. global_reclassified' \in [Machines -> BOOLEAN]
    BY DEF TrainGlobal, Goto, WindowTypeOK
  <2> QED BY <2>1, <2>2, <2>3, <2>4 DEF TrainGlobal, WindowTypeOK, windowVars, trainVars, localVars, globalVars
<1>4. ThreadTypeOK' /\ Running'
  <2>1. pc' \in [Universes -> Labels]
    BY DEF TrainGlobal, Goto, ThreadTypeOK, Labels
  <2>2. Running'
    BY DEF TrainGlobal, Goto, Running, ThreadTypeOK
  <2> QED BY <2>1, <2>2 DEF TrainGlobal, ThreadTypeOK, threadVars
<1> QED BY <1>1, <1>2, <1>3, <1>4

LEMMA OpenTimelineType ==
  ASSUME TypeOK, NEW u \in Universes, OpenTimeline(u)
  PROVE  TypeOK'
<1> USE DEF TypeOK
<1>1. TimelineTypeOK'
  BY KeepTimelines DEF OpenTimeline
<1>2. MessageTypeOK'
  BY KeepMessages DEF OpenTimeline
<1>3. WindowTypeOK'
  BY KeepWindows DEF OpenTimeline
<1>4. ThreadTypeOK' /\ Running'
  <2>1. pc' \in [Universes -> Labels]
    <3>1. PICK t \in ctx[u].open : BeginScan(u, t, "open")
      BY DEF OpenTimeline
    <3>2. t \in Timelines
      BY <3>1, ContextSet DEF ThreadTypeOK
    <3> QED BY <3>1, <3>2, BeginScanType
  <2>2. ctx' \in [Universes -> ContextType]
    <3>1. PICK t \in ctx[u].open : ctx' = [ctx EXCEPT ![u].open = @ \ {t}]
      BY DEF OpenTimeline
    <3>2. ctx[u].open \ {t} \in SUBSET Timelines /\ ctx[u] \in ContextType
      BY ContextSet DEF ThreadTypeOK
    <3>3. [ctx[u] EXCEPT !.open = @ \ {t}] \in ContextType
      BY <3>2, ContextSet
    <3> QED BY <3>1, <3>3 DEF ThreadTypeOK
  <2>3. scan' \in [Universes -> ScanType]
    <3>1. PICK t \in ctx[u].open : BeginScan(u, t, "open")
      BY DEF OpenTimeline
    <3>2. t \in Timelines
      BY <3>1, ContextSet DEF ThreadTypeOK
    <3> QED BY <3>1, <3>2, BeginScanType
  <2>4. Running'
    <3>1. PICK t \in ctx[u].open : BeginScan(u, t, "open")
      BY DEF OpenTimeline
    <3>2. t \in Timelines
      BY <3>1, ContextSet DEF ThreadTypeOK
    <3> QED BY <3>1, <3>2, ContextSet DEF OpenTimeline, BeginScan, Goto, Running, ThreadTypeOK
  <2> QED BY <2>1, <2>2, <2>3, <2>4 DEF OpenTimeline, ThreadTypeOK, threadVars
<1> QED BY <1>1, <1>2, <1>3, <1>4

LEMMA PickType ==
  ASSUME TypeOK, NEW u \in Universes, Pick(u)
  PROVE  TypeOK'
<1> USE DEF TypeOK
<1>1. TimelineTypeOK'
  BY KeepTimelines DEF Pick
<1>2. MessageTypeOK'
  BY KeepMessages DEF Pick
<1>3. WindowTypeOK'
  BY KeepWindows DEF Pick
<1>4. ThreadTypeOK' /\ Running'
  <2>1. pc' \in [Universes -> Labels]
    <3>1. PICK t \in runnable[u] : BeginScan(u, t, "sched")
      BY DEF Pick
    <3>2. t \in Timelines
      BY <3>1 DEF ThreadTypeOK
    <3> QED BY <3>1, <3>2, BeginScanType
  <2>2. scan' \in [Universes -> ScanType]
    <3>1. PICK t \in runnable[u] : BeginScan(u, t, "sched")
      BY DEF Pick
    <3>2. t \in Timelines
      BY <3>1 DEF ThreadTypeOK
    <3> QED BY <3>1, <3>2, BeginScanType
  <2>3. runnable' \in [Universes -> SUBSET Timelines]
    BY DEF Pick, ThreadTypeOK
  <2>4. Running'
    <3>1. PICK t \in runnable[u] : BeginScan(u, t, "sched")
      BY DEF Pick
    <3>2. t \in Timelines
      BY <3>1 DEF ThreadTypeOK
    <3> QED BY <3>1, <3>2 DEF Pick, BeginScan, Goto, Running, ThreadTypeOK
  <2> QED BY <2>1, <2>2, <2>3, <2>4 DEF Pick, ThreadTypeOK, threadVars
<1> QED BY <1>1, <1>2, <1>3, <1>4

LEMMA ReadTimeType ==
  ASSUME TypeOK, NEW u \in Universes, ReadTime(u)
  PROVE  TypeOK'
<1> USE DEF TypeOK
<1>1. TimelineTypeOK'
  BY KeepTimelines DEF ReadTime
<1>2. MessageTypeOK'
  BY KeepMessages DEF ReadTime
<1>3. WindowTypeOK'
  BY KeepWindows DEF ReadTime
<1>4. ThreadTypeOK' /\ Running'
  <2>1. scan' \in [Universes -> ScanType]
    <3>1. PICK s \in scan[u].todo :
            scan' = [scan EXCEPT ![u].low = Lesser(@, InGate(s).time),
                                 ![u].todo = @ \ {s},
                                 ![u].hold = IF SameUniverse(s) THEN 0 ELSE s]
      BY DEF ReadTime
    <3>2. scan[u] \in ScanType /\ s \in Stargates
      BY ScanSet DEF ThreadTypeOK
    <3>3. InGate(s).time \in Nat
      BY <3>2 DEF InGate, TimelineTypeOK, GateType
    <3>4. Lesser(scan[u].low, InGate(s).time) \in Nat
      BY <3>2, <3>3, ScanSet, LesserType
    <3>5. \A h \in Stargates \cup {0}, l \in Nat :
             [scan[u] EXCEPT !.low = l, !.todo = @ \ {s}, !.hold = h] \in ScanType
      BY <3>2 DEF ScanType
    <3> QED BY <3>1, <3>2, <3>4, <3>5 DEF ThreadTypeOK
  <2>2. Running'
    <3>1. PICK s \in scan[u].todo :
            scan' = [scan EXCEPT ![u].low = Lesser(@, InGate(s).time),
                                 ![u].todo = @ \ {s},
                                 ![u].hold = IF SameUniverse(s) THEN 0 ELSE s]
      BY DEF ReadTime
    <3>2. scan[u] \in ScanType
      BY DEF ThreadTypeOK
    <3>3. scan'[u].tl = scan[u].tl /\ scan'[u].ret = scan[u].ret
      BY <3>1, <3>2 DEF ThreadTypeOK, ScanType
    <3>4. \A v \in Universes \ {u} : scan'[v] = scan[v]
      BY <3>1 DEF ThreadTypeOK
    <3> QED BY <3>3, <3>4 DEF ReadTime, Running
  <2> QED BY <2>1, <2>2 DEF ReadTime, ThreadTypeOK, threadVars
<1> QED BY <1>1, <1>2, <1>3, <1>4

LEMMA ReceiveMessagesType ==
  ASSUME TypeOK, NEW u \in Universes, ReceiveMessages(u)
  PROVE  TypeOK'
<1> USE DEF TypeOK
<1>1. TimelineTypeOK'
  <2>1. evtlist' \in [Timelines -> SUBSET EventType]
    <3>1. scan[u].hold \in Stargates
      BY ScanSet DEF ReceiveMessages, ThreadTypeOK
    <3>2. mailbox[scan[u].hold] \subseteq EventType
      BY <3>1, MessageElim DEF MessageTypeOK
    <3> QED BY <3>1, <3>2 DEF ReceiveMessages, TimelineTypeOK
  <2> QED BY <2>1 DEF ReceiveMessages, TimelineTypeOK, tmlnVars, gateVars
<1>2. MessageTypeOK'
  <2>1. mailbox' \in [Stargates -> SUBSET MessageType]
    BY DEF ReceiveMessages, MessageTypeOK
  <2> QED BY <2>1 DEF ReceiveMessages, MessageTypeOK, mailVars, binVars, netVars
<1>3. WindowTypeOK'
  BY KeepWindows DEF ReceiveMessages
<1>4. ThreadTypeOK' /\ Running'
  <2>1. scan' \in [Universes -> ScanType]
    BY ScanSet DEF ReceiveMessages, ThreadTypeOK
  <2>2. Running'
    <3>1. scan[u] \in ScanType /\ scan' = [scan EXCEPT ![u].hold = 0]
      BY DEF ReceiveMessages, ThreadTypeOK
    <3>2. scan'[u].tl = scan[u].tl /\ scan'[u].ret = scan[u].ret
      BY <3>1 DEF ThreadTypeOK, ScanType
    <3>3. \A v \in Universes \ {u} : scan'[v] = scan[v]
      BY <3>1 DEF ThreadTypeOK
    <3> QED BY <3>2, <3>3 DEF ReceiveMessages, Running
  <2> QED BY <2>1, <2>2 DEF ReceiveMessages, ThreadTypeOK, threadVars
<1> QED BY <1>1, <1>2, <1>3, <1>4

LEMMA EndScanType ==
  ASSUME TypeOK, NEW u \in Universes, EndScan(u)
  PROVE  TypeOK'
<1> DEFINE t  == scan[u].tl
           lb == scan[u].low
<1>1. t \in Timelines /\ lb \in Nat /\ scan[u].ret \in {"open", "sched", "update", "io", "drain io"}
  BY ScanSet DEF TypeOK, ThreadTypeOK, Running, EndScan
<1>2. scan[u].ret = "update" => ctx[u].cur \in Timelines
  BY DEF TypeOK, Running, EndScan
<1>3. lbts' = [lbts EXCEPT ![t] = lb] /\ scan' = [scan EXCEPT ![u] = NoScan]
  BY DEF EndScan
<1>4. /\ \/ state' = state
         \/ \E st \in {"START", "RUNNING", "WAITING", "ROUND", "DONE"} :
              state' = [state EXCEPT ![t] = st]
      /\ key' = key \/ key' = [key EXCEPT ![t] = NextEventTime(t)]
      /\ runnable' = runnable \/ runnable' = [runnable EXCEPT ![u] = @ \cup {t}]
  BY <1>1 DEF EndScan, MakeRunnable, TypeOK, TimelineTypeOK
<1>5. \/ scan[u].ret = "sched" /\ pc' = [pc EXCEPT ![u] = "run"] /\ ctx'[u].cur = t
      \/ pc' = [pc EXCEPT ![u] = scan[u].ret] /\ scan[u].ret # "sched" /\ ctx' = ctx
      \/ pc' = [pc EXCEPT ![u] = "sched"]
  <2>1. ctx \in [Universes -> ContextType]
    BY DEF TypeOK, ThreadTypeOK
  <2>2. CASE scan[u].ret = "sched" /\ simclock[t] < lb
    <3>1. ctx' = [ctx EXCEPT ![u] = [ctx[u] EXCEPT
                    !.cur = t, !.horizon = Lesser(lb, simclock[t] + time_slice)]]
      BY <2>2 DEF EndScan
    <3>2. ctx'[u].cur = t
      BY <2>1, <3>1 DEF ContextType
    <3> QED BY <2>2, <3>2 DEF EndScan, Goto
  <2>3. CASE ~(scan[u].ret = "sched" /\ simclock[t] < lb)
    BY <2>3 DEF EndScan, Goto
  <2> QED BY <2>2, <2>3
<1>6. \/ ctx' = ctx
      \/ \E c \in Timelines \cup {NoTimeline}, h \in Nat :
            ctx' = [ctx EXCEPT ![u] = [ctx[u] EXCEPT !.cur = c, !.horizon = h]]
  <2> DEFINE h == Lesser(lb, simclock[t] + time_slice)
  <2>1. simclock[t] \in Nat /\ time_slice \in Nat
    BY <1>1, ParameterAssumption DEF TypeOK, TimelineTypeOK
  <2>2. h \in Nat
    <3>1. \A a \in Nat, b \in Nat, c \in Nat : Lesser(a, b + c) \in Nat
      BY LesserType
    <3> QED BY <1>1, <2>1, <3>1
  <2>3. CASE scan[u].ret = "sched" /\ simclock[t] < lb
    <3>1. ctx' = [ctx EXCEPT ![u] = [ctx[u] EXCEPT !.cur = t, !.horizon = h]]
      BY <2>3 DEF EndScan
    <3> QED BY <1>1, <2>2, <3>1
  <2>4. CASE scan[u].ret = "sched" /\ ~(simclock[t] < lb)
    <3>1. ctx' = [ctx EXCEPT ![u] = [ctx[u] EXCEPT !.cur = NoTimeline, !.horizon = 0]]
      BY <2>4 DEF EndScan
    <3> QED BY <3>1
  <2>5. CASE scan[u].ret # "sched"
    BY <2>5 DEF EndScan
  <2> QED BY <2>3, <2>4, <2>5
<1>7. TimelineTypeOK'
  <2>1. NextEventTime(t) \in Nat
    BY <1>1, NextEventTimeType DEF TypeOK
  <2>2. lbts' \in [Timelines -> Nat]
    BY <1>1, <1>3 DEF TypeOK, TimelineTypeOK
  <2>3. state' \in [Timelines -> {"START", "RUNNING", "WAITING", "ROUND", "DONE"}]
    BY <1>1, <1>4 DEF TypeOK, TimelineTypeOK
  <2>4. key' \in [Timelines -> Nat]
    <3>1. key \in [Timelines -> Nat]
      BY DEF TypeOK, TimelineTypeOK
    <3> QED BY <1>1, <1>4, <2>1, <3>1
  <2> QED BY <2>2, <2>3, <2>4 DEF EndScan, TypeOK, TimelineTypeOK, gateVars
<1>8. MessageTypeOK'
  BY KeepMessages DEF EndScan, TypeOK
<1>9. WindowTypeOK'
  BY KeepWindows DEF EndScan, TypeOK
<1>10. ThreadTypeOK'
  <2>1. pc' \in [Universes -> Labels]
    BY <1>1, <1>5 DEF TypeOK, ThreadTypeOK, Labels
  <2>2. ctx' \in [Universes -> ContextType]
    <3>1. ctx \in [Universes -> ContextType] /\ ctx[u] \in ContextType
      BY DEF TypeOK, ThreadTypeOK
    <3>2. \A c \in Timelines \cup {NoTimeline}, h \in Nat :
            [ctx[u] EXCEPT !.cur = c, !.horizon = h] \in ContextType
      BY <3>1, ContextSet
    <3>3. \A c \in ContextType : [ctx EXCEPT ![u] = c] \in [Universes -> ContextType]
      BY <3>1
    <3>4. CASE ctx' = ctx
      BY <3>1, <3>4
    <3>5. CASE ctx' # ctx
      <4>1. PICK c \in Timelines \cup {NoTimeline}, h \in Nat :
              ctx' = [ctx EXCEPT ![u] = [ctx[u] EXCEPT !.cur = c, !.horizon = h]]
        BY <1>6, <3>5
      <4>2. [ctx[u] EXCEPT !.cur = c, !.horizon = h] \in ContextType
        BY <3>2
      <4> QED BY <3>3, <4>1, <4>2
    <3> QED BY <3>4, <3>5
  <2>3. scan' \in [Universes -> ScanType]
    BY <1>3, ScanSet DEF TypeOK, ThreadTypeOK
  <2>4. runnable' \in [Universes -> SUBSET Timelines]
    <3>1. runnable[u] \cup {t} \in SUBSET Timelines
      BY <1>1 DEF TypeOK, ThreadTypeOK
    <3> QED BY <1>4, <3>1 DEF TypeOK, ThreadTypeOK
  <2> QED BY <2>1, <2>2, <2>3, <2>4 DEF ThreadTypeOK
<1>11. Running'
  <2>1. \A v \in Universes \ {u} : pc'[v] = pc[v] /\ ctx'[v] = ctx[v] /\ scan'[v] = scan[v]
    BY <1>3, <1>5, <1>6 DEF TypeOK, ThreadTypeOK
  <2>2. pc'[u] # "scan" /\ (pc'[u] \in {"run", "update", "notify"} => ctx'[u].cur \in Timelines)
    BY <1>1, <1>2, <1>5 DEF TypeOK, ThreadTypeOK
  <2> QED BY <2>1, <2>2 DEF Running, TypeOK
<1> QED BY <1>7, <1>8, <1>9, <1>10, <1>11 DEF TypeOK

\* Whatever messages an event writes, the queues they go to keep their type.
DeliverTyped ==
  /\ evtlist' \in [Timelines -> SUBSET EventType]
  /\ mailbox' \in [Stargates -> SUBSET MessageType]
  /\ local_binque' \in [Universes -> SUBSET MessageType]
  /\ global_binque' \in [Universes -> SUBSET MessageType]
  /\ remote_mailbox' \in [Machines -> SUBSET MessageType]

LEMMA DeliverType ==
  ASSUME TypeOK, NEW u \in Universes, NEW t \in Timelines, NEW e,
         NEW M \in SUBSET MessageType, Deliver(u, t, e, M)
  PROVE  DeliverTyped
<1> USE DEF TypeOK
<1>1. evtlist' \in [Timelines -> SUBSET EventType]
  <2>1. M \subseteq EventType
    BY MessageElim
  <2>2. evtlist' = [r \in Timelines |->
          (IF r = t THEN evtlist[r] \ {e} ELSE evtlist[r]) \cup
          {x \in {y \in M : SameUniverse(y.sg)} : Dest(x) = r}]
    BY DEF Deliver
  <2> QED BY <2>1, <2>2 DEF TimelineTypeOK
<1>2. mailbox' \in [Stargates -> SUBSET MessageType]
  BY DEF Deliver, MessageTypeOK
<1>3. \A R \in SUBSET MessageType :
        [local_binque EXCEPT ![u] = @ \cup R] \in [Universes -> SUBSET MessageType]
  BY DEF MessageTypeOK
<1>4. local_binque' \in [Universes -> SUBSET MessageType]
  BY <1>3 DEF Deliver
<1>5. \A R \in SUBSET MessageType :
        [global_binque EXCEPT ![u] = @ \cup R] \in [Universes -> SUBSET MessageType]
  BY DEF MessageTypeOK
<1>6. global_binque' \in [Universes -> SUBSET MessageType]
  BY <1>5 DEF Deliver
<1>7. \A R \in SUBSET MessageType :
        [remote_mailbox EXCEPT ![machine[u]] = @ \cup R] \in [Machines -> SUBSET MessageType]
  BY DEF MessageTypeOK
<1>8. remote_mailbox' \in [Machines -> SUBSET MessageType]
  BY <1>7 DEF Deliver
<1> QED BY <1>1, <1>2, <1>4, <1>6, <1>8 DEF DeliverTyped

LEMMA RunEventType ==
  ASSUME TypeOK, NEW u \in Universes, RunEvent(u)
  PROVE  TypeOK'
<1> USE DEF TypeOK
<1> DEFINE t == ctx[u].cur
<1>1. t \in Timelines
  BY DEF RunEvent, Running
<1>2. PICK e \in evtlist[t] :
        /\ simclock' = [simclock EXCEPT ![t] = e.t]
        /\ \E S \in SUBSET {s \in Stargates : source[s] = t /\ sent[s] < MaxSend} :
           \E d \in [S -> 0 .. MaxWriteDelay] :
             /\ Deliver(u, t, e, {Message(s, sent[s] + 1, e.t + min_delay[s] + d[s]) : s \in S})
             /\ sent' = [s \in Stargates |-> IF s \in S THEN sent[s] + 1 ELSE sent[s]]
  BY DEF RunEvent
<1>3. e.t \in Nat
  BY <1>1, <1>2, MessageElim DEF TimelineTypeOK
<1>4. PICK S \in SUBSET Stargates : \E d \in [S -> 0 .. MaxWriteDelay] :
        /\ Deliver(u, t, e, {Message(s, sent[s] + 1, e.t + min_delay[s] + d[s]) : s \in S})
        /\ sent' = [s \in Stargates |-> IF s \in S THEN sent[s] + 1 ELSE sent[s]]
  BY <1>2
<1>5. PICK d \in [S -> 0 .. MaxWriteDelay] :
        /\ Deliver(u, t, e, {Message(s, sent[s] + 1, e.t + min_delay[s] + d[s]) : s \in S})
        /\ sent' = [s \in Stargates |-> IF s \in S THEN sent[s] + 1 ELSE sent[s]]
  BY <1>4
<1> DEFINE M == {Message(s, sent[s] + 1, e.t + min_delay[s] + d[s]) : s \in S}
<1>6. M \subseteq MessageType
  <2>1. ASSUME NEW s \in S
        PROVE  Message(s, sent[s] + 1, e.t + min_delay[s] + d[s]) \in MessageType
    <3>1. s \in Stargates /\ sent[s] \in Nat /\ min_delay[s] \in Nat
      BY DEF MessageTypeOK
    <3>2. d[s] \in Nat
      BY ParameterAssumption, InputAssumption
    <3> QED BY <1>3, <3>1, <3>2, MessageIntro
  <2> QED BY <2>1
<1>7. Deliver(u, t, e, M)
  BY <1>5
<1> HIDE DEF M, t
<1>8. DeliverTyped
  BY <1>1, <1>6, <1>7, DeliverType
<1>9. TimelineTypeOK'
  BY <1>1, <1>2, <1>3, <1>8 DEF DeliverTyped, RunEvent, TimelineTypeOK, gateVars
<1>10. MessageTypeOK'
  <2>1. sent' \in [Stargates -> Nat]
    BY <1>5 DEF MessageTypeOK
  <2> QED BY <1>8, <2>1 DEF DeliverTyped, RunEvent, MessageTypeOK
<1>11. WindowTypeOK'
  BY KeepWindows DEF RunEvent
<1>12. ThreadTypeOK' /\ Running'
  BY KeepThreads DEF RunEvent
<1> QED BY <1>9, <1>10, <1>11, <1>12

LEMMA RunEndType ==
  ASSUME TypeOK, NEW u \in Universes, RunEnd(u)
  PROVE  TypeOK'
<1> USE DEF TypeOK
<1> DEFINE t == ctx[u].cur
<1>1. t \in Timelines /\ ctx[u] \in ContextType /\ ctx[u].horizon \in Nat
  BY ContextSet DEF RunEnd, Running, ThreadTypeOK
<1>2. /\ \/ state' = state
         \/ \E st \in {"START", "RUNNING", "WAITING", "ROUND", "DONE"} :
              state' = [state EXCEPT ![t] = st]
      /\ key' = key \/ key' = [key EXCEPT ![t] = NextEventTime(t)]
      /\ runnable' = runnable \/ runnable' = [runnable EXCEPT ![u] = @ \cup {t}]
  BY DEF RunEnd, MakeRunnable
<1>3. /\ simclock' = [simclock EXCEPT ![t] = ctx[u].horizon]
      /\ ctx' = [ctx EXCEPT ![u] = [ctx[u] EXCEPT !.out = OutboundAsync(t), !.horizon = 0]]
      /\ pc' = [pc EXCEPT ![u] = "update"]
  BY DEF RunEnd, Goto
<1>4. OutboundAsync(t) \in SUBSET Stargates
  BY DEF OutboundAsync
<1>5. ctx'[u].cur = t /\ \A v \in Universes \ {u} : ctx'[v] = ctx[v] /\ pc'[v] = pc[v]
  BY <1>1, <1>3 DEF ThreadTypeOK, ContextType
<1>6. TimelineTypeOK'
  <2>1. NextEventTime(t) \in Nat
    BY <1>1, NextEventTimeType
  <2>2. simclock' \in [Timelines -> Nat]
    BY <1>1, <1>3 DEF TimelineTypeOK
  <2>3. state' \in [Timelines -> {"START", "RUNNING", "WAITING", "ROUND", "DONE"}]
    BY <1>1, <1>2 DEF TimelineTypeOK
  <2>4. key' \in [Timelines -> Nat]
    <3>1. key \in [Timelines -> Nat]
      BY DEF TimelineTypeOK
    <3> QED BY <1>1, <1>2, <2>1, <3>1
  <2> QED BY <2>2, <2>3, <2>4 DEF RunEnd, TimelineTypeOK, gateVars
<1>7. MessageTypeOK'
  BY KeepMessages DEF RunEnd
<1>8. WindowTypeOK'
  BY KeepWindows DEF RunEnd
<1>9. ThreadTypeOK'
  <2>1. ctx' \in [Universes -> ContextType]
    BY <1>1, <1>3, <1>4, ContextSet DEF ThreadTypeOK
  <2>2. runnable' \in [Universes -> SUBSET Timelines]
    <3>1. runnable[u] \cup {t} \in SUBSET Timelines
      BY <1>1 DEF ThreadTypeOK
    <3> QED BY <1>2, <3>1 DEF ThreadTypeOK
  <2> QED BY <1>3, <2>1, <2>2 DEF RunEnd, ThreadTypeOK, Labels
<1>10. Running'
  BY <1>1, <1>3, <1>5 DEF RunEnd, Running, ThreadTypeOK
<1> QED BY <1>6, <1>7, <1>8, <1>9, <1>10

LEMMA UpdateTimeType ==
  ASSUME TypeOK, NEW u \in Universes, UpdateTime(u)
  PROVE  TypeOK'
<1> USE DEF TypeOK
<1>1. PICK s \in ctx[u].out : SetTime(u, s)
  BY DEF UpdateTime
<1> DEFINE now == simclock[ctx[u].cur] + min_delay[s]
<1>2. /\ ctx[u] \in ContextType /\ ctx[u].cur \in Timelines
      /\ s \in Stargates /\ target[s] \in Timelines
  BY <1>1, ContextSet DEF UpdateTime, Running, ThreadTypeOK
<1>3. now \in Nat
  <2>1. simclock[ctx[u].cur] \in Nat /\ min_delay[s] \in Nat
    BY <1>2 DEF TimelineTypeOK
  <2> QED BY <2>1
<1>4. gate' = gate \/ gate' = [gate EXCEPT ![s].time = now]
  BY <1>1 DEF SetTime
<1>5. \/ remote_mailbox' = remote_mailbox
      \/ remote_mailbox' = [remote_mailbox EXCEPT ![machine[u]] = @ \cup {Message(s, 0, now)}]
  BY <1>1 DEF SetTime
<1>6. \/ pc' = [pc EXCEPT ![u] = "notify"] /\ ctx' = ctx /\ scan' = scan
      \/ /\ ctx' = [ctx EXCEPT ![u] = [ctx[u] EXCEPT !.out = @ \ {s}]]
         /\ BeginScan(u, target[s], "update") \/ (pc' = pc /\ scan' = scan)
  BY <1>1 DEF SetTime, Goto
<1> HIDE DEF now
<1>7. TimelineTypeOK'
  <2>1. gate[s] \in GateType
    BY <1>2 DEF TimelineTypeOK
  <2>2. [gate[s] EXCEPT !.time = now] \in GateType
    BY <1>3, <2>1 DEF GateType
  <2>3. gate' \in [Stargates -> GateType]
    BY <1>2, <1>4, <2>2 DEF TimelineTypeOK
  <2> QED BY <1>1, <2>3 DEF SetTime, TimelineTypeOK, tmlnVars
<1>8. MessageTypeOK'
  <2>1. Message(s, 0, now) \in MessageType
    BY <1>2, <1>3, MessageIntro
  <2>2. remote_mailbox[machine[u]] \cup {Message(s, 0, now)} \in SUBSET MessageType
    BY <2>1 DEF MessageTypeOK
  <2>3. remote_mailbox' \in [Machines -> SUBSET MessageType]
    BY <1>5, <2>2 DEF MessageTypeOK
  <2> QED BY <1>1, <2>3 DEF SetTime, MessageTypeOK, mailVars, binVars
<1>9. WindowTypeOK'
  BY <1>1, KeepWindows DEF SetTime
<1>10. ThreadTypeOK'
  <2>1. pc' \in [Universes -> Labels] /\ scan' \in [Universes -> ScanType]
    <3>1. CASE BeginScan(u, target[s], "update")
      BY <1>2, <3>1, BeginScanType
    <3>2. CASE ~BeginScan(u, target[s], "update")
      BY <1>6, <3>2 DEF ThreadTypeOK, Labels
    <3> QED BY <3>1, <3>2
  <2>2. [ctx[u] EXCEPT !.out = @ \ {s}] \in ContextType
    BY <1>2, ContextSet
  <2>3. ctx' \in [Universes -> ContextType]
    <3>1. ctx \in [Universes -> ContextType]
      BY DEF ThreadTypeOK
    <3> QED BY <1>6, <2>2, <3>1
  <2> QED BY <1>1, <2>1, <2>3 DEF SetTime, ThreadTypeOK
<1>11. Running'
  <2>1. \A v \in Universes : ctx'[v].cur = ctx[v].cur
    <3>1. ctx \in [Universes -> ContextType]
      BY DEF ThreadTypeOK
    <3>2. [ctx[u] EXCEPT !.out = @ \ {s}].cur = ctx[u].cur
      BY <1>2 DEF ContextType
    <3> QED BY <1>6, <3>1, <3>2
  <2>2. CASE BeginScan(u, target[s], "update")
    BY <1>2, <2>1, <2>2 DEF BeginScan, Goto, Running, ThreadTypeOK
  <2>3. CASE ~BeginScan(u, target[s], "update")
    BY <1>2, <1>6, <2>1, <2>3 DEF Running, ThreadTypeOK
  <2> QED BY <2>2, <2>3
<1> QED BY <1>7, <1>8, <1>9, <1>10, <1>11

LEMMA NotifyType ==
  ASSUME TypeOK, NEW u \in Universes, Notify(u)
  PROVE  TypeOK'
<1> USE DEF TypeOK
<1>1. TimelineTypeOK'
  BY KeepTimelines DEF Notify
<1>2. MessageTypeOK'
  <2>1. umailbox' \in [Universes -> Seq(MessageType)]
    <3>1. PICK s \in ctx[u].out : umailbox' = [umailbox EXCEPT ![universe[target[s]]] =
                                                 Append(@, Message(s, 0, gate[s].time))]
      BY DEF Notify
    <3>2. s \in Stargates
      BY <3>1, ContextSet DEF ThreadTypeOK
    <3>3. Message(s, 0, gate[s].time) \in MessageType
      BY <3>2, MessageIntro DEF TimelineTypeOK, GateType
    <3>4. Append(umailbox[universe[target[s]]], Message(s, 0, gate[s].time)) \in Seq(MessageType)
      <4>1. universe[target[s]] \in Universes
        BY <3>2
      <4>2. umailbox[universe[target[s]]] \in Seq(MessageType)
        BY <4>1 DEF MessageTypeOK
      <4>3. \A q \in Seq(MessageType), e \in MessageType : Append(q, e) \in Seq(MessageType)
        OBVIOUS
      <4> QED BY <3>3, <4>2, <4>3
    <3> QED BY <3>1, <3>2, <3>4 DEF MessageTypeOK
  <2> QED BY <2>1 DEF Notify, MessageTypeOK, mailVars, binVars, netVars
<1>3. WindowTypeOK'
  BY KeepWindows DEF Notify
<1>4. ThreadTypeOK' /\ Running'
  <2>1. pc' \in [Universes -> Labels]
    BY DEF Notify, Goto, ThreadTypeOK, Labels
  <2>2. ctx' \in [Universes -> ContextType]
    <3>1. PICK s \in ctx[u].out : ctx' = [ctx EXCEPT ![u].out = @ \ {s}]
      BY DEF Notify
    <3>2. ctx[u] \in ContextType
      BY DEF ThreadTypeOK
    <3>3. [ctx[u] EXCEPT !.out = @ \ {s}] \in ContextType
      BY <3>2, ContextSet
    <3> QED BY <3>1, <3>3 DEF ThreadTypeOK
  <2>3. Running'
    <3>1. PICK s \in ctx[u].out : ctx' = [ctx EXCEPT ![u].out = @ \ {s}]
      BY DEF Notify
    <3>2. \A v \in Universes : ctx'[v].cur = ctx[v].cur
      BY <3>1 DEF ThreadTypeOK, ContextType
    <3> QED BY <3>2 DEF Notify, Goto, Running, ThreadTypeOK
  <2> QED BY <2>1, <2>2, <2>3 DEF Notify, ThreadTypeOK, threadVars
<1> QED BY <1>1, <1>2, <1>3, <1>4

LEMMA InterruptedType ==
  ASSUME TypeOK, NEW u \in Universes, Interrupted(u)
  PROVE  TypeOK'
<1> USE DEF TypeOK
<1>1. TimelineTypeOK'
  BY KeepTimelines DEF Interrupted
<1>2. MessageTypeOK'
  BY KeepMessages DEF Interrupted
<1>3. WindowTypeOK'
  BY KeepWindows DEF Interrupted
<1>4. ThreadTypeOK' /\ Running'
  <2>1. pc' \in [Universes -> Labels]
    BY DEF Interrupted, Goto, ThreadTypeOK, Labels
  <2>2. ctx' \in [Universes -> ContextType]
    BY ContextSet DEF Interrupted, ThreadTypeOK
  <2>3. Running'
    BY DEF Interrupted, Goto, Running, ThreadTypeOK
  <2> QED BY <2>1, <2>2, <2>3 DEF Interrupted, ThreadTypeOK, threadVars
<1> QED BY <1>1, <1>2, <1>3, <1>4

LEMMA TakeMailType ==
  ASSUME TypeOK, NEW u \in Universes, NEW label \in {"io", "drain io"}, TakeMail(u, label)
  PROVE  TypeOK'
<1> USE DEF TypeOK
<1>1. umailbox' = [umailbox EXCEPT ![u] = <<>>] /\ ctx' = [ctx EXCEPT ![u].io = umailbox[u]]
  BY DEF TakeMail
<1>2. ctx[u] \in ContextType /\ umailbox[u] \in Seq(MessageType)
  BY DEF MessageTypeOK, ThreadTypeOK
<1>3. TimelineTypeOK'
  BY KeepTimelines DEF TakeMail
<1>4. MessageTypeOK'
  <2>1. <<>> \in Seq(MessageType)
    BY SequenceType
  <2>2. umailbox' \in [Universes -> Seq(MessageType)]
    BY <1>1, <2>1 DEF MessageTypeOK
  <2> QED BY <2>2 DEF TakeMail, MessageTypeOK, binVars, netVars
<1>5. WindowTypeOK'
  BY KeepWindows DEF TakeMail
<1>6. ThreadTypeOK'
  <2>1. [ctx[u] EXCEPT !.io = umailbox[u]] \in ContextType
    BY <1>2, ContextSet
  <2>2. ctx' \in [Universes -> ContextType]
    BY <1>1, <2>1 DEF ThreadTypeOK
  <2> QED BY <2>2 DEF TakeMail, Goto, ThreadTypeOK, Labels
<1>7. Running'
  <2>1. \A v \in Universes : ctx'[v].cur = ctx[v].cur
    BY <1>1, <1>2 DEF ThreadTypeOK, ContextType
  <2> QED BY <2>1 DEF TakeMail, Goto, Running, ThreadTypeOK
<1> QED BY <1>3, <1>4, <1>5, <1>6, <1>7

LEMMA PollMailType ==
  ASSUME TypeOK, NEW u \in Universes, PollMail(u) \/ WaitMail(u) \/ DrainMail(u)
  PROVE  TypeOK'
BY TakeMailType DEF PollMail, WaitMail, DrainMail

LEMMA HandleMailType ==
  ASSUME TypeOK, NEW u \in Universes, HandleMail(u)
  PROVE  TypeOK'
<1> USE DEF TypeOK
<1> DEFINE e == Head(ctx[u].io)
           d == Dest(e)
<1>1. /\ ctx[u] \in ContextType /\ ctx[u].io \in Seq(MessageType) /\ ctx[u].io # <<>>
      /\ pc[u] \in {"io", "drain io"}
  BY ContextSet DEF HandleMail, ThreadTypeOK
<1>2. e \in MessageType /\ Tail(ctx[u].io) \in Seq(MessageType)
  <2>1. \A q \in Seq(MessageType) : q # <<>> => Head(q) \in MessageType /\ Tail(q) \in Seq(MessageType)
    OBVIOUS
  <2> QED BY <1>1, <2>1
<1>3. e.sg \in Stargates /\ e.t \in Nat /\ d \in Timelines /\ d = target[e.sg] /\ e \in EventType
  BY <1>2, MessageElim DEF Dest
<1>4. ctx' = [ctx EXCEPT ![u] = [ctx[u] EXCEPT !.io = Tail(ctx[u].io)]]
  BY DEF HandleMail
<1>5. evtlist' = evtlist \/ evtlist' = [evtlist EXCEPT ![d] = @ \cup {e}]
  BY DEF HandleMail, HandleNull
<1>6. rgate' = rgate \/ rgate' = [rgate EXCEPT ![e.sg].time = e.t]
  BY DEF HandleMail, HandleNull
<1>7. \/ BeginScan(u, target[e.sg], "io") \/ BeginScan(u, target[e.sg], "drain io")
      \/ pc' = pc /\ scan' = scan
  BY <1>1 DEF HandleMail, HandleNull
<1>8. UNCHANGED <<simclock, lbts, state, key, gate, mailVars, binVars, netVars, windowVars,
                  trainVars, runnable, sent>>
  BY DEF HandleMail
<1> HIDE DEF e, d
<1>9. TimelineTypeOK'
  <2>1. evtlist' \in [Timelines -> SUBSET EventType]
    BY <1>3, <1>5 DEF TimelineTypeOK
  <2>2. [rgate[e.sg] EXCEPT !.time = e.t] \in GateType
    <3>1. rgate[e.sg] \in GateType
      BY <1>3 DEF TimelineTypeOK
    <3> QED BY <1>3, <3>1 DEF GateType
  <2>3. rgate' \in [Stargates -> GateType]
    BY <1>3, <1>6, <2>2 DEF TimelineTypeOK
  <2> QED BY <1>8, <2>1, <2>3 DEF TimelineTypeOK
<1>10. MessageTypeOK'
  BY <1>8, KeepMessages
<1>11. WindowTypeOK'
  BY <1>8, KeepWindows
<1>12. ThreadTypeOK'
  <2>1. [ctx[u] EXCEPT !.io = Tail(ctx[u].io)] \in ContextType
    BY <1>1, <1>2, ContextSet
  <2>2. ctx' \in [Universes -> ContextType]
    BY <1>4, <2>1 DEF ThreadTypeOK
  <2>3. pc' \in [Universes -> Labels] /\ scan' \in [Universes -> ScanType]
    BY <1>3, <1>7, BeginScanType DEF ThreadTypeOK
  <2> QED BY <1>8, <2>2, <2>3 DEF ThreadTypeOK
<1>13. Running'
  <2>1. \A v \in Universes : ctx'[v].cur = ctx[v].cur
    BY <1>1, <1>4 DEF ThreadTypeOK, ContextType
  <2>2. CASE pc' = pc /\ scan' = scan
    BY <2>1, <2>2 DEF Running
  <2>3. CASE ~(pc' = pc /\ scan' = scan)
    BY <1>3, <1>7, <2>1, <2>3, BeginScanRunning
  <2> QED BY <2>2, <2>3
<1> QED BY <1>9, <1>10, <1>11, <1>12, <1>13

LEMMA EndMailType ==
  ASSUME TypeOK, NEW u \in Universes, EndMail(u)
  PROVE  TypeOK'
<1> USE DEF TypeOK
<1>1. TimelineTypeOK'
  BY KeepTimelines DEF EndMail
<1>2. MessageTypeOK'
  BY KeepMessages DEF EndMail
<1>3. WindowTypeOK'
  BY KeepWindows DEF EndMail, AfterMail
<1>4. ThreadTypeOK' /\ Running'
  <2>1. pc' \in [Universes -> Labels]
    <3>1. /\ "mpi barrier" \in Labels /\ "drained" \in Labels
          /\ "scan" \in Labels /\ "sched" \in Labels
      BY DEF Labels
    <3> DEFINE To(l) == pc' = [pc EXCEPT ![u] = l]
    <3>2. To("mpi barrier") \/ To("drained") \/ To("scan") \/ To("sched")
      BY DEF EndMail, AfterMail, BeginScan, Goto
    <3> HIDE DEF To
    <3>3. \E l \in Labels : To(l)
      BY <3>1, <3>2
    <3> QED BY <3>3 DEF ThreadTypeOK, To
  <2>2. scan' \in [Universes -> ScanType]
    <3>1. ctx[u].cur \in Timelines \cup {NoTimeline}
      BY ContextSet DEF ThreadTypeOK
    <3> QED BY <3>1, BeginScanType DEF EndMail, AfterMail, ThreadTypeOK
  <2>3. Running'
    <3>1. ctx[u].cur \in Timelines \cup {NoTimeline} /\ ctx' = ctx
      BY ContextSet DEF EndMail, AfterMail, ThreadTypeOK
    <3>2. CASE ctx[u].cur # NoTimeline /\ pc[u] # "drain io"
      BY <3>1, <3>2, BeginScanRunning DEF EndMail, AfterMail
    <3>3. CASE ~(ctx[u].cur # NoTimeline /\ pc[u] # "drain io")
      <4>1. \E l \in {"mpi barrier", "drained", "sched"} : pc' = [pc EXCEPT ![u] = l]
        BY <3>1, <3>3 DEF EndMail, AfterMail, Goto
      <4>2. scan' = scan /\ pc \in [Universes -> Labels]
        BY <3>3 DEF EndMail, AfterMail, Goto, ThreadTypeOK
      <4> QED BY <3>1, <4>1, <4>2 DEF Running
    <3> QED BY <3>2, <3>3
  <2> QED BY <2>1, <2>2, <2>3 DEF EndMail, ThreadTypeOK, threadVars
<1> QED BY <1>1, <1>2, <1>3, <1>4

LEMMA AdvanceWindowType ==
  ASSUME TypeOK, NEW u \in Universes, AdvanceWindow(u)
  PROVE  TypeOK'
<1> USE DEF TypeOK
<1> DEFINE m == machine[u]
           w == next_window(u)
<1>1. /\ m \in Machines /\ next_decade[u] \in Nat /\ next_epoch[u] \in Nat
      /\ decade_length[m] \in Nat /\ epoch_length[m] \in Nat
      /\ local_roundup[m] \in Nat /\ global_roundup[m] \in Nat
  BY DEF WindowTypeOK
<1>2. w \in Nat
  BY <1>1, LesserType DEF next_window
<1>3. \A a \in Nat, b \in Nat, c \in Nat : Clip(a + b, c) \in Nat
  <2>1. \A a \in Nat, b \in Nat : a + b \in Nat
    OBVIOUS
  <2> QED BY <2>1, ClipType
<1>4. TimelineTypeOK'
  BY KeepTimelines DEF AdvanceWindow
<1>5. MessageTypeOK'
  BY KeepMessages DEF AdvanceWindow
<1>6. WindowTypeOK'
  <2>1. synpoint' \in [Universes -> Nat]
    BY <1>2 DEF AdvanceWindow, WindowTypeOK
  <2>2. next_decade' \in [Universes -> Nat]
    <3>1. \/ next_decade' = next_decade
          \/ next_decade' = [next_decade EXCEPT
                ![u] = Clip(next_decade[u] + decade_length[m], local_roundup[m])]
      BY DEF AdvanceWindow, WindowTypeOK
    <3>2. Clip(next_decade[u] + decade_length[m], local_roundup[m]) \in Nat
      BY <1>1, <1>3
    <3> QED BY <3>1, <3>2 DEF WindowTypeOK
  <2>3. next_epoch' \in [Universes -> Nat]
    <3>1. \/ next_epoch' = next_epoch
          \/ next_epoch' = [next_epoch EXCEPT
                ![u] = Clip(next_epoch[u] + epoch_length[m], global_roundup[m])]
      BY DEF AdvanceWindow, WindowTypeOK
    <3>2. Clip(next_epoch[u] + epoch_length[m], global_roundup[m]) \in Nat
      BY <1>1, <1>3
    <3> QED BY <3>1, <3>2 DEF WindowTypeOK
  <2>4. decade_sync' \in [Universes -> BOOLEAN] /\ epoch_sync' \in [Universes -> BOOLEAN]
    BY DEF AdvanceWindow, WindowTypeOK
  <2> QED BY <2>1, <2>2, <2>3, <2>4
          DEF AdvanceWindow, WindowTypeOK, trainVars, localVars, globalVars
<1>7. ThreadTypeOK'
  BY DEF AdvanceWindow, Goto, ThreadTypeOK, Labels
<1>8. Running'
  BY DEF AdvanceWindow, Goto, Running, ThreadTypeOK
<1> QED BY <1>4, <1>5, <1>6, <1>7, <1>8

LEMMA ReduceType ==
  ASSUME TypeOK, Reduce \/ MpiBarrier
  PROVE  TypeOK'
<1>1. \A u \in Universes : pc'[u] \in {pc[u], "await", "drained"}
  BY DEF Reduce, MpiBarrier
<1>2. pc' \in [Universes -> Labels]
  <2>1. pc \in [Universes -> Labels] /\ {"await", "drained"} \subseteq Labels
    BY DEF TypeOK, ThreadTypeOK, Labels
  <2>2. \A u \in Universes : pc'[u] \in Labels
    BY <1>1, <2>1
  <2>3. pc' = [u \in Universes |-> pc'[u]]
    BY DEF Reduce, MpiBarrier
  <2> QED BY <2>2, <2>3
<1>3. \A u \in Universes : pc'[u] \in {"run", "update", "notify", "scan"} => pc'[u] = pc[u]
  BY <1>1
<1> QED BY <1>2, <1>3, JumpType DEF Reduce, MpiBarrier

LEMMA FinishGlobalType ==
  ASSUME TypeOK, FinishGlobal
  PROVE  TypeOK'
<1> USE DEF TypeOK
<1>1. TimelineTypeOK'
  <2>1. gate' \in [Stargates -> GateType]
    <3> PICK thresh \in IF \A m \in Machines : StartingGlobal(m) THEN {global_thresh}
                        ELSE Range(global_thresholds) :
          /\ ClassifyGlobal(Machines, thresh, synpoint[proc0[CHOOSE m \in Machines : TRUE]])
          /\ epoch_length' = [m \in Machines |->
                                GlobalLength([thresh |-> thresh, training |-> FALSE])]
      BY DEF FinishGlobal
    <3>1. thresh \in Nat
      BY ThresholdType, ParameterAssumption DEF Range
    <3>2. synpoint[proc0[CHOOSE m \in Machines : TRUE]] \in Nat
      BY DEF WindowTypeOK
    <3> QED BY <3>1, <3>2, ClassifyType DEF ClassifyGlobal, TimelineTypeOK
  <2>2. rgate' \in [Stargates -> GateType]
    <3> PICK thresh \in IF \A m \in Machines : StartingGlobal(m) THEN {global_thresh}
                        ELSE Range(global_thresholds) :
          /\ ClassifyGlobal(Machines, thresh, synpoint[proc0[CHOOSE m \in Machines : TRUE]])
          /\ epoch_length' = [m \in Machines |->
                                GlobalLength([thresh |-> thresh, training |-> FALSE])]
      BY DEF FinishGlobal
    <3>1. thresh \in Nat
      BY ThresholdType, ParameterAssumption DEF Range
    <3>2. synpoint[proc0[CHOOSE m \in Machines : TRUE]] \in Nat
      BY DEF WindowTypeOK
    <3> QED BY <3>1, <3>2, ClassifyType DEF ClassifyGlobal, TimelineTypeOK
  <2> QED BY <2>1, <2>2 DEF FinishGlobal, TimelineTypeOK, tmlnVars, gateVars
<1>2. MessageTypeOK'
  BY KeepMessages DEF FinishGlobal
<1>3. WindowTypeOK'
  <2>1. epoch_length' \in [Machines -> Nat]
    <3> PICK thresh \in IF \A m \in Machines : StartingGlobal(m) THEN {global_thresh}
                        ELSE Range(global_thresholds) :
          /\ ClassifyGlobal(Machines, thresh, synpoint[proc0[CHOOSE m \in Machines : TRUE]])
          /\ epoch_length' = [m \in Machines |->
                                GlobalLength([thresh |-> thresh, training |-> FALSE])]
      BY DEF FinishGlobal
    <3>1. thresh \in Nat
      BY ThresholdType, ParameterAssumption DEF Range
    <3>2. GlobalLength([thresh |-> thresh, training |-> FALSE]) \in Nat
      BY <3>1, LengthType
    <3> QED BY <3>2
  <2>2. global_roundup' \in [Machines -> Nat]
    BY ParameterAssumption DEF FinishGlobal, WindowTypeOK
  <2>3. global_reclassified' \in [Machines -> BOOLEAN]
    BY DEF FinishGlobal, WindowTypeOK
  <2>4. training_finished' \in [Machines -> BOOLEAN]
    BY DEF FinishGlobal, WindowTypeOK
  <2> QED BY <2>1, <2>2, <2>3, <2>4 DEF FinishGlobal, WindowTypeOK, windowVars, trainVars, localVars, globalVars
<1>4. ThreadTypeOK' /\ Running'
  <2>1. pc' \in [Universes -> Labels]
    BY DEF FinishGlobal, ThreadTypeOK, Labels
  <2>2. Running'
    BY DEF FinishGlobal, Running, ThreadTypeOK
  <2> QED BY <2>1, <2>2 DEF FinishGlobal, ThreadTypeOK, threadVars
<1> QED BY <1>1, <1>2, <1>3, <1>4

LEMMA BarrierType ==
  ASSUME TypeOK, NEW m \in Machines, Barrier(m)
  PROVE  TypeOK'
<1>1. PICK here \in Labels, there0 \in {"dispatch", "collect", "reduce", "drain", "train"},
           there \in {"dispatch", "collect", "reduced", "drain", "trained"} :
             Meet(m, here, there0, there)
  BY DEF Barrier, Labels
<1>2. pc' \in [Universes -> Labels]
  BY <1>1 DEF Meet, TypeOK, ThreadTypeOK, Labels
<1>3. \A u \in Universes : pc'[u] \in {"run", "update", "notify", "scan"} => pc'[u] = pc[u]
  BY <1>1 DEF Meet
<1> QED BY <1>1, <1>2, <1>3, JumpType DEF Meet

LEMMA TrainedType ==
  ASSUME TypeOK, NEW m \in Machines, Trained(m)
  PROVE  TypeOK'
<1> USE DEF TypeOK
<1>1. TimelineTypeOK'
  <2>1. evtlist' \in [Timelines -> SUBSET EventType]
    <3>1. evtlist' = [t \in Timelines |->
             evtlist[t] \cup UNION {mailbox[s] : s \in {r \in Drained(m) : target[r] = t}}]
      BY DEF Trained
    <3>2. Drained(m) \subseteq Stargates
      BY DEF Drained
    <3>3. \A s \in Drained(m) : mailbox[s] \subseteq EventType
      BY <3>2, MessageElim DEF MessageTypeOK
    <3> QED BY <3>1, <3>3 DEF TimelineTypeOK
  <2> QED BY <2>1 DEF Trained, TimelineTypeOK, tmlnVars, gateVars
<1>2. MessageTypeOK'
  <2>1. mailbox' \in [Stargates -> SUBSET MessageType]
    BY DEF Trained, MessageTypeOK
  <2> QED BY <2>1 DEF Trained, MessageTypeOK, mailVars, binVars, netVars
<1>3. WindowTypeOK'
  <2>1. next_decade' \in [Universes -> Nat]
    <3>1. ASSUME NEW u \in Universes
          PROVE  Clip(synpoint[u] + decade_length[m], local_roundup[m]) \in Nat
      <4>1. synpoint[u] \in Nat /\ decade_length[m] \in Nat /\ local_roundup[m] \in Nat
        BY DEF WindowTypeOK
      <4>2. synpoint[u] + decade_length[m] \in Nat
        BY <4>1
      <4> QED BY <4>1, <4>2, ClipType
    <3> QED BY <3>1 DEF Trained, WindowTypeOK
  <2>2. next_epoch' \in [Universes -> Nat]
    <3>1. ASSUME NEW u \in Universes
          PROVE  Clip(synpoint[u] + epoch_length[m], global_roundup[m]) \in Nat
      <4>1. synpoint[u] \in Nat /\ epoch_length[m] \in Nat /\ global_roundup[m] \in Nat
        BY DEF WindowTypeOK
      <4>2. synpoint[u] + epoch_length[m] \in Nat
        BY <4>1
      <4> QED BY <4>1, <4>2, ClipType
    <3> QED BY <3>1 DEF Trained, WindowTypeOK
  <2>3. inbound_async' \in SUBSET Stargates
    BY DEF Trained, Listed
  <2> QED BY <2>1, <2>2, <2>3
          DEF Trained, WindowTypeOK, windowVars, trainVars, localVars, globalVars
<1>4. ThreadTypeOK' /\ Running'
  <2>1. pc' \in [Universes -> Labels]
    BY DEF Trained, ThreadTypeOK, Labels
  <2>2. ctx' \in [Universes -> ContextType]
    <3>1. ASSUME NEW u \in Universes
          PROVE  [ctx[u] EXCEPT !.open = TimelinesOf(u)] \in ContextType
      BY ContextSet DEF ThreadTypeOK, TimelinesOf
    <3> QED BY <3>1 DEF Trained, ThreadTypeOK
  <2>3. Running'
    BY DEF Trained, Running, ThreadTypeOK
  <2> QED BY <2>1, <2>2, <2>3 DEF Trained, ThreadTypeOK, threadVars
<1> QED BY <1>1, <1>2, <1>3, <1>4

LEMMA WriterType ==
  ASSUME TypeOK, NEW m \in Machines, Writer(m)
  PROVE  TypeOK'
<1> USE DEF TypeOK
<1>1. TimelineTypeOK'
  BY KeepTimelines DEF Writer
<1>2. MessageTypeOK'
  <2>1. remote_mailbox' \in [Machines -> SUBSET MessageType]
    BY DEF Writer, MessageTypeOK
  <2>2. net' \in [Machines \X Machines -> Seq(BatchType)]
    <3> DEFINE to(n) == {e \in remote_mailbox[m] : Counted(e) /\ TargetMachine(e.sg) = n}
               batch(n) == [regular |-> {e \in to(n) : ~IsNull(e)},
                            null |-> {e \in to(n) : IsNull(e)}]
    <3>1. \A n : batch(n) \in BatchType
      BY DEF MessageTypeOK, BatchType
    <3>2. net' = [mn \in Machines \X Machines |->
             IF mn[1] = m /\ to(mn[2]) # {} THEN Append(net[mn], batch(mn[2])) ELSE net[mn]]
      BY DEF Writer
    <3>3. \A mn \in Machines \X Machines : net[mn] \in Seq(BatchType)
      BY DEF MessageTypeOK
    <3> HIDE DEF to, batch
    <3>4. \A mn \in Machines \X Machines : Append(net[mn], batch(mn[2])) \in Seq(BatchType)
      BY <3>1, <3>3, SequenceType
    <3> QED BY <3>2, <3>3, <3>4
  <2> QED BY <2>1, <2>2 DEF Writer, MessageTypeOK, mailVars, binVars, netVars
<1>3. WindowTypeOK'
  BY KeepWindows DEF Writer
<1>4. ThreadTypeOK' /\ Running'
  BY KeepThreads DEF Writer
<1> QED BY <1>1, <1>2, <1>3, <1>4

LEMMA ReaderType ==
  ASSUME TypeOK, NEW n \in Machines, NEW m \in Machines, Reader(n, m)
  PROVE  TypeOK'
<1> USE DEF TypeOK
<1> DEFINE batch == Head(net[<<n, m>>])
<1>1. net[<<n, m>>] \in Seq(BatchType) /\ net[<<n, m>>] # <<>>
  BY DEF Reader, MessageTypeOK
<1>2. batch \in BatchType /\ Tail(net[<<n, m>>]) \in Seq(BatchType)
  BY <1>1, SequenceType
<1>3. PICK e \in Receivable(batch) :
        /\ net' = [net EXCEPT ![<<n, m>>] =
                     IF Receivable(Without(batch, e)) = {} THEN Tail(@)
                     ELSE <<Without(batch, e)>> \o Tail(@)]
        /\ IF IsNull(e) \/ rgate[e.sg].in_sync
           THEN /\ umailbox' = [umailbox EXCEPT ![universe[target[e.sg]]] = Append(@, e)]
                /\ UNCHANGED mailbox
           ELSE /\ mailbox' = [mailbox EXCEPT ![e.sg] = @ \cup {e}]
                /\ UNCHANGED umailbox
  BY DEF Reader
<1>4. e \in MessageType /\ e.sg \in Stargates
  BY <1>2, <1>3, MessageElim DEF Receivable, BatchType
<1>5. Without(batch, e) \in BatchType
  BY <1>2 DEF Without, BatchType
<1>6. TimelineTypeOK'
  BY KeepTimelines DEF Reader
<1>7. MessageTypeOK'
  <2>1. mailbox' \in [Stargates -> SUBSET MessageType]
    <3>1. mailbox[e.sg] \cup {e} \in SUBSET MessageType
      BY <1>4 DEF MessageTypeOK
    <3>2. mailbox' = mailbox \/ mailbox' = [mailbox EXCEPT ![e.sg] = mailbox[e.sg] \cup {e}]
      BY <1>3
    <3> QED BY <3>1, <3>2 DEF MessageTypeOK
  <2>2. umailbox' \in [Universes -> Seq(MessageType)]
    <3>1. universe[target[e.sg]] \in Universes
      BY <1>4
    <3>2. Append(umailbox[universe[target[e.sg]]], e) \in Seq(MessageType)
      BY <1>4, <3>1, SequenceType DEF MessageTypeOK
    <3> QED BY <1>3, <3>2 DEF MessageTypeOK
  <2>3. net' \in [Machines \X Machines -> Seq(BatchType)]
    <3>1. <<Without(batch, e)>> \o Tail(net[<<n, m>>]) \in Seq(BatchType)
      BY <1>2, <1>5, SequenceType
    <3> QED BY <1>2, <1>3, <3>1 DEF MessageTypeOK
  <2> QED BY <2>1, <2>2, <2>3 DEF Reader, MessageTypeOK, binVars
<1>8. WindowTypeOK'
  BY KeepWindows DEF Reader
<1>9. ThreadTypeOK' /\ Running'
  BY KeepThreads DEF Reader
<1> QED BY <1>6, <1>7, <1>8, <1>9

-----------------------------------------------------------------------------
(* The theorem.                                                            *)

LEMMA InitType == Init => TypeOK
<1> SUFFICES ASSUME Init PROVE TypeOK
  OBVIOUS
<1> USE StartType, ParameterAssumption, InputAssumption
<1>1. TimelineTypeOK
  <2>1. Unclassified \in [Stargates -> GateType]
    BY DEF Unclassified, GateType
  <2>2. \A S : \A thresh \in Nat : Classify(Unclassified, S, thresh, 0) \in [Stargates -> GateType]
    BY <2>1, ClassifyType
  <2>3. StartGlobal.thresh \in Nat /\ \A m \in Machines : StartLocal(m).thresh \in Nat
    OBVIOUS
  <2>4. \A s \in Stargates : SourceMachine(s) \in Machines
    BY DEF SourceMachine
  <2>5. gate \in [Stargates -> GateType] /\ rgate \in [Stargates -> GateType]
    <3>1. rgate = Classify(Unclassified, RemoteGates, StartGlobal.thresh, 0)
      BY DEF Init
    <3>2. rgate \in [Stargates -> GateType]
      BY <2>2, <2>3, <3>1
    <3>3. ASSUME NEW s \in Stargates
          PROVE  /\ Classify(Unclassified, RemoteGates, StartGlobal.thresh, 0)[s] \in GateType
                 /\ Classify(Unclassified, LocalGates(SourceMachine(s)),
                             StartLocal(SourceMachine(s)).thresh, 0)[s] \in GateType
      <4>1. SourceMachine(s) \in Machines
        BY <2>4
      <4>2. StartLocal(SourceMachine(s)).thresh \in Nat /\ StartGlobal.thresh \in Nat
        BY <2>3, <4>1
      <4> QED BY <2>2, <4>2
    <3>4. gate = [s \in Stargates |->
             IF Remote(s) THEN Classify(Unclassified, RemoteGates, StartGlobal.thresh, 0)[s]
             ELSE Classify(Unclassified, LocalGates(SourceMachine(s)),
                           StartLocal(SourceMachine(s)).thresh, 0)[s]]
      BY DEF Init
    <3>5. gate \in [Stargates -> GateType]
      BY <3>3, <3>4
    <3> QED BY <3>2, <3>5
  <2>6. evtlist \in [Timelines -> SUBSET EventType]
    <3>1. ASSUME NEW t \in Timelines, NEW n \in InitEvents[t]
          PROVE  Message(0, n, n) \in EventType
      BY DEF Message, EventType
    <3>2. InitWrites \subseteq EventType
      BY DEF EventType
    <3>3. evtlist = [t \in Timelines |->
             {Message(0, n, n) : n \in InitEvents[t]} \cup
             {e \in InitWrites : Dest(e) = t /\ SameUniverse(e.sg)}]
      BY DEF Init
    <3> QED BY <3>1, <3>2, <3>3
  <2> QED BY <2>5, <2>6 DEF Init, TimelineTypeOK
<1>2. MessageTypeOK
  <2>1. InitWrites \subseteq MessageType
    BY DEF MessageType
  <2>2. sent \in [Stargates -> Nat]
    <3>1. ASSUME NEW s \in Stargates
          PROVE  Cardinality({e \in InitWrites : e.sg = s}) \in Nat
      <4>1. IsFiniteSet({e \in InitWrites : e.sg = s})
        BY FS_Subset
      <4> QED BY <4>1, FS_CardinalityType
    <3>2. sent = [s \in Stargates |-> Cardinality({e \in InitWrites : e.sg = s})]
      BY DEF Init
    <3> QED BY <3>1, <3>2
  <2> QED BY <2>1, <2>2, SequenceType DEF Init, MessageTypeOK
<1>3. WindowTypeOK
  BY LengthType, ClipType DEF Init, WindowTypeOK
<1>4. ThreadTypeOK
  BY ScanSet, SequenceType DEF Init, ThreadTypeOK, Labels, Idle, ContextType, NoTimeline
<1>5. Running
  BY DEF Init, Running
<1> QED BY <1>1, <1>2, <1>3, <1>4, <1>5 DEF TypeOK

LEMMA NextType == TypeOK /\ [Next]_vars => TypeOK'
<1> SUFFICES ASSUME TypeOK, [Next]_vars PROVE TypeOK'
  OBVIOUS
<1>1. ASSUME NEW u \in Universes, Thread(u) PROVE TypeOK'
  BY <1>1, DispatchType, CollectType, SendEpochType, AwaitType, TrainLocalType,
     TrainGlobalType, OpenTimelineType, PickType, ReadTimeType, ReceiveMessagesType,
     EndScanType, RunEventType, RunEndType, UpdateTimeType, NotifyType, InterruptedType,
     PollMailType, HandleMailType, EndMailType, AdvanceWindowType DEF Thread
<1>2. ASSUME NEW m \in Machines, Barrier(m) \/ Trained(m) \/ Writer(m) PROVE TypeOK'
  BY <1>2, BarrierType, TrainedType, WriterType
<1>3. ASSUME NEW n \in Machines, NEW m \in Machines, Reader(n, m) PROVE TypeOK'
  BY <1>3, ReaderType
<1>4. ASSUME Collective PROVE TypeOK'
  BY <1>4, ReduceType, FinishGlobalType DEF Collective
<1>5. ASSUME UNCHANGED vars PROVE TypeOK'
  <2>1. UNCHANGED <<tmlnVars, gateVars, mailVars, binVars, netVars, windowVars, trainVars,
                    threadVars, sent>>
    BY <1>5 DEF vars
  <2> QED BY <2>1, KeepTimelines, KeepMessages, KeepWindows, KeepThreads DEF TypeOK
<1> QED BY <1>1, <1>2, <1>3, <1>4, <1>5 DEF Next, Finished

(* Whatever the topology, the delays and the training parameters, every     *)
(* variable keeps its type: times are never negative, every queue holds     *)
(* messages of the model, and a thread in the middle of a timeline has one. *)
THEOREM TypeOKHolds == Spec => []TypeOK
<1>1. Init => TypeOK
  BY InitType
<1>2. TypeOK /\ [Next]_vars => TypeOK'
  BY NextType
<1> QED BY <1>1, <1>2, PTL DEF Spec

-----------------------------------------------------------------------------
(***************************************************************************)
(* Each universe computes the edges of its windows by itself; nothing is   *)
(* exchanged but the parameters that processor 0 changes between the       *)
(* barriers (training).  That all the threads of a machine nevertheless    *)
(* have the same edges whenever they meet is the invariant Meeting, which  *)
(* is inductive for every topology, every delay and every training plan.   *)
(*                                                                         *)
(* The last part (Scheduling) is about what a thread does inside a window: *)
(* its timelines are each in one place, and what a stargate announces, and *)
(* with it the lower bound of a timeline, only rises.                      *)
(***************************************************************************)

HIDE TopologyAssumption

(* The invariant.                                                          *)

\* Where a thread is: inside a window, at the edge between two windows (behind
\* the barrier at the top of the loop, until all have new windows), or at
\* neither: it has left a window and waits for the others.
WindowLabels == {"open", "scan", "sched", "run", "update", "notify", "io"}
AtEdge(u) == \/ pc[u] \notin WindowLabels \cup {"top", "end"}
             \/ pc[u] = "scan" /\ scan[u].ret = "drain io"
InWindow(u) == pc[u] \in WindowLabels /\ ~AtEdge(u)
Mates(u) == {v \in Universes : machine[v] = machine[u]}
TrainerDone(m) == pc[proc0[m]] \in {"train global", "trained"}

\* The threads of a machine reach the edge and leave it together.
Together == \A u \in Universes : \A v \in Mates(u) : AtEdge(u) => AtEdge(v)

\* Either all the threads of a machine exchange messages at an edge or none.
Exchange(u) == /\ decade_sync[u] \/ epoch_sync[u]
               /\ Cardinality(UniversesOf(machine[u])) > 1
ExchangeTogether ==
  \A u \in Universes : \A v \in Mates(u) :
     pc[u] = "dispatched" \/ (pc[u] = "dispatch" /\ Exchange(u))
     => Exchange(u) /\ pc[v] \in {"dispatch", "dispatched"}

\* Two threads of a machine have the same edges, except that one may have
\* entered the wait for the next window and the other not.
SameEdge(u, v) ==
  /\ synpoint[u] = synpoint[v] /\ next_decade[u] = next_decade[v]
  /\ next_epoch[u] = next_epoch[v]
  /\ decade_sync[u] = decade_sync[v] /\ epoch_sync[u] = epoch_sync[v]
NextDecade(u, w) == IF w = next_decade[u]
                    THEN Clip(w + decade_length[machine[u]], local_roundup[machine[u]])
                    ELSE next_decade[u]
NextEpoch(u, w) == IF w = next_epoch[u]
                   THEN Clip(w + epoch_length[machine[u]], global_roundup[machine[u]])
                   ELSE next_epoch[u]
OneWindowBehind(u, v) ==
  LET w == next_window(u) IN
  /\ synpoint[v] = w
  /\ decade_sync[v] = (w = next_decade[u]) /\ epoch_sync[v] = (w = next_epoch[u])
  /\ next_decade[v] = NextDecade(u, w) /\ next_epoch[v] = NextEpoch(u, w)
SameEdges ==
  \A u \in Universes : \A v \in Mates(u) :
    /\ (InWindow(u) <=> InWindow(v)) => SameEdge(u, v)
    /\ InWindow(u) /\ ~InWindow(v) => OneWindowBehind(u, v)

\* Windows are clipped by the end of the simulation and by the end of the
\* training round, which is an edge of the kind that is trained.
Bounds ==
  \A u \in Universes : LET m == machine[u] IN
    /\ synpoint[u] <= next_decade[u] /\ synpoint[u] <= next_epoch[u]
    /\ next_decade[u] <= endtime /\ next_decade[u] <= local_roundup[m]
    /\ next_epoch[u] <= endtime /\ next_epoch[u] <= global_roundup[m]
    /\ pc[u] = "end" => synpoint[u] = endtime
    /\ ~InWindow(u) /\ synpoint[u] = local_roundup[m] /\ synpoint[u] # 0 => decade_sync[u]

\* Local training ends before global training does.
Rounds ==
  \A m \in Machines :
    /\ \/ local_roundup[m] = Infinity
       \/ /\ ~NoLocalTraining /\ l_idx[m] \in 1 .. Len(local_thresholds[m])
          /\ local_roundup[m] = l_idx[m] * local_round[m]
    /\ ~NoLocalTraining => local_length <= global_roundup[m]
    /\ training_finished[m] => local_roundup[m] = Infinity /\ global_roundup[m] = Infinity
Trainers ==
  \A u \in Universes : LET m == machine[u] IN
    /\ pc[u] = "train" => u = proc0[m]
    /\ pc[u] = "train global" =>
         /\ u = proc0[m] /\ epoch_sync[u] /\ synpoint[u] = global_roundup[m]
         /\ \/ local_roundup[m] = Infinity \/ synpoint[u] < local_roundup[m]
            \/ local_round[m] = 0

\* A decade is not longer than the delay of any synchronous stargate of the
\* machine, and the stargates to be asked for their time are the asynchronous
\* ones: except while a new classification is still to be taken over.
Pending(m) == TrainerDone(m) /\ local_reclassified[m]
Lengths ==
  /\ \A u \in Universes : \/ Pending(machine[u])
                          \/ next_decade[u] <= synpoint[u] + decade_length[machine[u]]
  /\ \A s \in Stargates : ~Remote(s) =>
       /\ gate[s].in_sync => decade_length[SourceMachine(s)] <= min_delay[s]
       /\ Pending(SourceMachine(s)) \/ (s \in inbound_async <=> ~gate[s].in_sync)

\* At the first edge of all, time 0, nothing is reclassified.
FirstEdge ==
  \A u \in Universes : LET m == machine[u] IN
    ~decade_sync[u] /\ ~epoch_sync[u] /\ TrainerDone(m) =>
      ~local_reclassified[m] /\ ~global_reclassified[m] /\ pc[proc0[m]] = "trained"

Edges == SameEdges /\ Bounds /\ Rounds /\ Trainers /\ Lengths /\ FirstEdge
Meeting == Together /\ ExchangeTogether /\ Edges

-----------------------------------------------------------------------------
(* Lemmas about the operators of the model.                                *)

\* Least of a set of numbers is in the set and not above any of its members.
LEMMA LeastBound ==
  ASSUME NEW S, S \subseteq Nat, NEW x \in S
  PROVE  Least(S) \in S /\ \A y \in S : Least(S) <= y
<1>1. PICK z \in S : \A y \in S : ~(<<y, z>> \in OpToRel(<, Nat))
  BY WFMin, NatLessThanWellFounded
<1>2. \A y \in S : z <= y
  <2> TAKE y \in S
  <2>1. ~(y < z)
    BY <1>1 DEF OpToRel
  <2> QED BY <2>1
<1>3. IsFirst(z, S)
  BY <1>2 DEF IsFirst
<1>4. IsFirst(CHOOSE y \in S : IsFirst(y, S), S)
  BY <1>3
<1> QED BY <1>3, <1>4 DEF Least, IsFirst

\* A window is not longer than the delay of a stargate at or above its threshold.
LEMMA WindowLengthBound ==
  ASSUME NEW S \in SUBSET Stargates, NEW thresh \in Nat, NEW s \in S,
         min_delay[s] >= thresh
  PROVE  WindowLength(S, thresh) <= min_delay[s]
<1> DEFINE D == {min_delay[r] : r \in {q \in S : min_delay[q] >= thresh}}
<1>1. D \subseteq Nat /\ min_delay[s] \in D
  BY TopologyAssumption
<1> HIDE DEF D
<1>2. Least(D) <= min_delay[s]
  BY <1>1, LeastBound
<1> QED BY <1>2 DEF WindowLength, D

\* The decade that belongs to a classification is not longer than the delay of
\* a stargate that it makes synchronous.
LEMMA DecadeBound ==
  ASSUME NEW g \in [Stargates -> GateType], NEW m \in Machines, NEW now \in Nat,
         NEW thresh \in Nat, NEW training \in BOOLEAN, NEW s \in LocalGates(m),
         Classify(g, LocalGates(m), thresh, now)[s].in_sync
  PROVE  LocalLength(m, [thresh |-> thresh, training |-> training]) <= min_delay[s]
<1>1. s \in Stargates /\ LocalGates(m) \in SUBSET Stargates /\ min_delay[s] \in Nat
  BY TopologyAssumption DEF LocalGates
<1>2. min_delay[s] >= thresh
  <2> SUFFICES ASSUME min_delay[s] < thresh PROVE FALSE
    BY <1>1
  <2>1. s \in LocalGates(m)
    OBVIOUS
  <2>2. Classify(g, LocalGates(m), thresh, now)[s] =
          [in_sync |-> FALSE, time |-> IF g[s].in_sync THEN now + min_delay[s] ELSE g[s].time]
    BY <1>1, <2>1 DEF Classify
  <2> QED BY <2>2
<1>3. WindowLength(LocalGates(m), thresh) <= min_delay[s]
  BY <1>1, <1>2, WindowLengthBound
<1> QED BY <1>1, <1>2, <1>3 DEF LocalLength

LEMMA LesserIs ==
  ASSUME NEW a \in Nat, NEW b \in Nat
  PROVE  /\ Lesser(a, b) \in Nat /\ Lesser(a, b) <= a /\ Lesser(a, b) <= b
         /\ Lesser(a, b) = a \/ Lesser(a, b) = b
BY DEF Lesser

\* A clipped edge is not before a time that is below all that clips it.
LEMMA ClipIs ==
  ASSUME NEW a \in Nat, NEW r \in Nat
  PROVE  /\ Clip(a, r) \in Nat /\ Clip(a, r) <= a /\ Clip(a, r) <= endtime /\ Clip(a, r) <= r
         /\ \A b \in Nat : b <= a /\ b <= endtime /\ b <= r => b <= Clip(a, r)
BY ParameterAssumption DEF Clip, Lesser

LEMMA WindowFacts ==
  ASSUME WindowTypeOK, NEW u \in Universes
  PROVE  /\ machine[u] \in Machines /\ proc0[machine[u]] \in Universes
         /\ machine[proc0[machine[u]]] = machine[u]
         /\ synpoint[u] \in Nat /\ next_decade[u] \in Nat /\ next_epoch[u] \in Nat
         /\ decade_sync[u] \in BOOLEAN /\ epoch_sync[u] \in BOOLEAN
         /\ decade_length[machine[u]] \in Nat /\ epoch_length[machine[u]] \in Nat
         /\ local_roundup[machine[u]] \in Nat /\ global_roundup[machine[u]] \in Nat
         /\ next_window(u) \in Nat
         /\ next_window(u) <= next_decade[u] /\ next_window(u) <= next_epoch[u]
         /\ next_window(u) = next_decade[u] \/ next_window(u) = next_epoch[u]
<1>1. /\ machine[u] \in Machines /\ proc0[machine[u]] \in Universes
      /\ machine[proc0[machine[u]]] = machine[u]
  BY TopologyAssumption
<1>2. next_decade[u] \in Nat /\ next_epoch[u] \in Nat
  BY DEF WindowTypeOK
<1> QED BY <1>1, <1>2, LesserIs DEF WindowTypeOK, next_window

LEMMA RoundProduct ==
  ASSUME NEW i \in Nat, NEW k \in Nat, NEW r \in Nat
  PROVE  /\ i * r \in Nat /\ (i + 1) * r = i * r + r
         /\ i <= k => i * r <= k * r
<1>1. i * r \in Nat /\ (i + 1) * r = i * r + r
  OBVIOUS
<1>2. ASSUME i <= k PROVE i * r <= k * r
  <2>1. PICK d \in Nat : k = i + d
    BY <1>2
  <2>2. d * r \in Nat /\ (i + d) * r = i * r + d * r
    OBVIOUS
  <2> QED BY <1>1, <2>1, <2>2
<1> QED BY <1>1, <1>2

-----------------------------------------------------------------------------
(* Steps that do not move an edge.                                         *)

\* What most steps keep: the edges, the parameters, whether a stargate is
\* synchronous, and whether a thread is in its window.
EdgesKept ==
  /\ UNCHANGED <<windowVars, trainVars>>
  /\ \A s \in Stargates : gate'[s].in_sync = gate[s].in_sync
  /\ \A u \in Universes :
       /\ InWindow(u)' <=> InWindow(u)
       /\ pc'[u] = "end" => pc[u] = "end"
       /\ pc'[u] = "train" => u = proc0[machine[u]]
       /\ pc'[u] = "train global" <=> pc[u] = "train global"
  /\ \A m \in Machines : pc'[proc0[m]] = "trained" <=> pc[proc0[m]] = "trained"

LEMMA KeepEdges ==
  ASSUME TypeOK, Edges, EdgesKept
  PROVE  Edges'
<1>1. UNCHANGED <<synpoint, next_decade, next_epoch, decade_sync, epoch_sync, inbound_async,
                  decade_length, local_roundup, l_idx, local_reclassified, epoch_length,
                  global_roundup, g_idx, global_reclassified, training_finished>>
  BY DEF EdgesKept, windowVars, trainVars, localVars, globalVars
<1>2. \A u \in Universes : /\ InWindow(u)' <=> InWindow(u)
                           /\ pc'[u] = "end" => pc[u] = "end"
                           /\ pc'[u] = "train" => u = proc0[machine[u]]
                           /\ pc'[u] = "train global" <=> pc[u] = "train global"
  BY DEF EdgesKept
<1>3. \A m \in Machines : /\ TrainerDone(m)' <=> TrainerDone(m)
                          /\ pc'[proc0[m]] = "trained" <=> pc[proc0[m]] = "trained"
  BY TopologyAssumption DEF EdgesKept, TrainerDone
<1>4. \A u \in Universes : machine[u] \in Machines
  BY TopologyAssumption
<1>5. SameEdges'
  <2>1. \A u, v : SameEdge(u, v)' <=> SameEdge(u, v)
    BY <1>1 DEF SameEdge
  <2>2. \A u, v : OneWindowBehind(u, v)' <=> OneWindowBehind(u, v)
    BY <1>1 DEF OneWindowBehind, NextDecade, NextEpoch, next_window
  <2> QED BY <1>2, <2>1, <2>2 DEF Edges, SameEdges, Mates
<1>6. Bounds'
  BY <1>1, <1>2 DEF Edges, Bounds
<1>7. Rounds'
  BY <1>1 DEF Edges, Rounds
<1>8. Trainers'
  BY <1>1, <1>2 DEF Edges, Trainers
<1>9. Lengths'
  <2>1. \A m \in Machines : Pending(m)' <=> Pending(m)
    BY <1>1, <1>3 DEF Pending
  <2>2. \A s \in Stargates : SourceMachine(s) \in Machines
    BY TopologyAssumption DEF SourceMachine
  <2> QED BY <1>1, <1>4, <2>1, <2>2 DEF EdgesKept, Edges, Lengths
<1>10. FirstEdge'
  BY <1>1, <1>3, <1>4 DEF Edges, FirstEdge
<1> QED BY <1>5, <1>6, <1>7, <1>8, <1>9, <1>10 DEF Edges

\* The thread of u goes on without leaving its window or its edge, and takes no
\* part in an exchange.
PlaceKept(u) ==
  /\ \A v \in Universes \ {u} : pc'[v] = pc[v] /\ scan'[v] = scan[v]
  /\ AtEdge(u)' <=> AtEdge(u)
  /\ InWindow(u)' <=> InWindow(u)
  /\ {pc[u], pc'[u]} \cap {"dispatch", "dispatched", "end", "train global"} = {}
  /\ pc'[u] = "train" => u = proc0[machine[u]]
  /\ u = proc0[machine[u]] => pc[u] # "trained" /\ pc'[u] # "trained"

LEMMA KeepPlace ==
  ASSUME TypeOK, Meeting, NEW u \in Universes, PlaceKept(u),
         UNCHANGED <<windowVars, trainVars>>,
         \A s \in Stargates : gate'[s].in_sync = gate[s].in_sync
  PROVE  Meeting'
<1>1. \A v \in Universes : /\ AtEdge(v)' <=> AtEdge(v)
                           /\ InWindow(v)' <=> InWindow(v)
  BY DEF PlaceKept, AtEdge, InWindow
<1>2. Together'
  BY <1>1 DEF Meeting, Together, Mates
<1>3. ExchangeTogether'
  <2>1. \A v \in Universes : Exchange(v)' <=> Exchange(v)
    BY DEF Exchange, windowVars
  <2>2. \A v \in Universes : \A c \in {"dispatch", "dispatched"} : pc'[v] = c <=> pc[v] = c
    BY DEF PlaceKept
  <2> QED BY <2>1, <2>2 DEF Meeting, ExchangeTogether, Mates
<1>4. EdgesKept
  <2>1. \A v \in Universes : /\ pc'[v] = "end" => pc[v] = "end"
                             /\ pc'[v] = "train" => v = proc0[machine[v]]
                             /\ pc'[v] = "train global" <=> pc[v] = "train global"
    BY DEF PlaceKept, Meeting, Edges, Trainers
  <2>2. \A m \in Machines : pc'[proc0[m]] = "trained" <=> pc[proc0[m]] = "trained"
    BY TopologyAssumption DEF PlaceKept
  <2> QED BY <1>1, <2>1, <2>2 DEF EdgesKept
<1> QED BY <1>2, <1>3, <1>4, KeepEdges DEF Meeting

\* A thread that starts to compute a bound.
LEMMA ScanStarted ==
  ASSUME TypeOK, NEW u \in Universes, NEW t, NEW ret, BeginScan(u, t, ret)
  PROVE  /\ pc'[u] = "scan" /\ scan'[u].tl = t /\ scan'[u].ret = ret
         /\ scan'[u].todo = InboundAsync(t) /\ scan'[u].hold = 0
         /\ scan'[u].low = next_window(u)
         /\ \A v \in Universes \ {u} : pc'[v] = pc[v] /\ scan'[v] = scan[v]
BY DEF BeginScan, Goto, TypeOK, ThreadTypeOK

\* The two steps of a computation of a bound.
LEMMA TimeRead ==
  ASSUME TypeOK, NEW u \in Universes, ReadTime(u)
  PROVE  /\ \E s \in scan[u].todo :
              /\ s \in Stargates
              /\ scan'[u].low = Lesser(scan[u].low, InGate(s).time)
              /\ scan'[u].todo = scan[u].todo \ {s}
              /\ scan'[u].hold = IF SameUniverse(s) THEN 0 ELSE s
         /\ scan'[u].tl = scan[u].tl /\ scan'[u].ret = scan[u].ret
         /\ \A v \in Universes \ {u} : scan'[v] = scan[v]
<1>1. PICK s \in scan[u].todo :
        scan' = [scan EXCEPT ![u].low = Lesser(@, InGate(s).time),
                             ![u].todo = @ \ {s},
                             ![u].hold = IF SameUniverse(s) THEN 0 ELSE s]
  BY DEF ReadTime
<1>2. scan[u] \in ScanType /\ scan \in [Universes -> ScanType] /\ s \in Stargates
  BY ScanSet DEF TypeOK, ThreadTypeOK
<1>3. scan'[u].tl = scan[u].tl /\ scan'[u].ret = scan[u].ret
  BY <1>1, <1>2 DEF ScanType
<1>4. scan'[u].low = Lesser(scan[u].low, InGate(s).time)
  BY <1>1, <1>2 DEF ScanType
<1>5. scan'[u].todo = scan[u].todo \ {s}
  BY <1>1, <1>2 DEF ScanType
<1>6. scan'[u].hold = IF SameUniverse(s) THEN 0 ELSE s
  BY <1>1, <1>2 DEF ScanType
<1>7. \A v \in Universes \ {u} : scan'[v] = scan[v]
  BY <1>1, <1>2
<1> QED BY <1>2, <1>3, <1>4, <1>5, <1>6, <1>7

LEMMA MessagesReceived ==
  ASSUME TypeOK, NEW u \in Universes, ReceiveMessages(u)
  PROVE  /\ scan[u].hold \in Stargates
         /\ scan'[u].tl = scan[u].tl /\ scan'[u].ret = scan[u].ret
         /\ scan'[u].low = scan[u].low /\ scan'[u].todo = scan[u].todo /\ scan'[u].hold = 0
         /\ \A v \in Universes \ {u} : scan'[v] = scan[v]
<1>1. scan[u] \in ScanType /\ scan \in [Universes -> ScanType]
  BY DEF TypeOK, ThreadTypeOK
<1> QED BY <1>1 DEF ReceiveMessages, ScanType

\* The steps of a thread that keep its place.
LEMMA ThreadKeepsPlace ==
  ASSUME TypeOK, NEW u \in Universes, Thread(u),
         ~Dispatch(u), ~TrainLocal(u), ~TrainGlobal(u), ~AdvanceWindow(u)
  PROVE  /\ PlaceKept(u)
         /\ UNCHANGED <<windowVars, trainVars>>
         /\ \A s \in Stargates : gate'[s].in_sync = gate[s].in_sync
<1> USE DEF PlaceKept, Goto, AtEdge, InWindow, WindowLabels
<1>0. /\ pc \in [Universes -> Labels] /\ scan \in [Universes -> ScanType]
      /\ scan[u].ret \in {"open", "sched", "update", "io", "drain io"}
  BY ScanSet DEF TypeOK, ThreadTypeOK
<1>2. CASE Collect(u)
  BY <1>0, <1>2 DEF Collect, AfterLocalEdge, gateVars
<1>3. CASE SendEpoch(u) \/ Await(u)
  BY <1>0, <1>3 DEF SendEpoch, Await, gateVars, threadVars
<1>4. CASE Opened(u)
  BY <1>0, <1>4 DEF Opened, gateVars
<1>14. CASE OpenTimeline(u) \/ Pick(u)
  <2>1. \E t, ret : BeginScan(u, t, ret) /\ ret \in {"open", "sched"}
    BY <1>14 DEF OpenTimeline, Pick
  <2>2. pc[u] \in {"open", "sched"} /\ pc'[u] = "scan" /\ scan'[u].ret # "drain io"
        /\ \A v \in Universes \ {u} : pc'[v] = pc[v] /\ scan'[v] = scan[v]
    BY <1>14, <2>1, ScanStarted DEF OpenTimeline, Pick
  <2> QED BY <1>14, <2>2 DEF OpenTimeline, Pick, gateVars
<1>5. CASE ReadTime(u) \/ ReceiveMessages(u)
  <2>1. pc[u] = "scan" /\ pc' = pc /\ gate' = gate
    BY <1>5 DEF ReadTime, ReceiveMessages, gateVars
  <2>3. scan'[u].ret = scan[u].ret /\ \A v \in Universes \ {u} : scan'[v] = scan[v]
    BY <1>5, TimeRead, MessagesReceived
  <2> QED BY <1>5, <2>1, <2>3 DEF ReadTime, ReceiveMessages
<1>7. CASE EndScan(u)
  BY <1>0, <1>7 DEF EndScan, gateVars
<1>8. CASE RunEvent(u) \/ RunEnd(u) \/ Interrupted(u) \/ Notify(u)
  BY <1>0, <1>8 DEF RunEvent, RunEnd, Interrupted, Notify, gateVars, threadVars
<1>9. CASE UpdateTime(u)
  <2>1. PICK s \in ctx[u].out : SetTime(u, s)
    BY <1>9 DEF UpdateTime
  <2>2. /\ pc[u] = "update" /\ pc'[u] \in {"update", "scan", "notify"}
        /\ pc'[u] = "scan" => scan'[u].ret = "update"
        /\ \A v \in Universes \ {u} : pc'[v] = pc[v] /\ scan'[v] = scan[v]
    <3>1. CASE BeginScan(u, target[s], "update")
      BY <1>9, <3>1, ScanStarted DEF UpdateTime
    <3>2. CASE ~BeginScan(u, target[s], "update")
      <4>1. scan' = scan /\ (pc' = pc \/ pc' = [pc EXCEPT ![u] = "notify"])
        BY <2>1, <3>2 DEF SetTime, Goto
      <4> QED BY <1>0, <1>9, <4>1 DEF UpdateTime
    <3> QED BY <3>1, <3>2
  <2>3. UNCHANGED <<windowVars, trainVars>>
        /\ \A r \in Stargates : gate'[r].in_sync = gate[r].in_sync
    BY <2>1 DEF SetTime, TypeOK, TimelineTypeOK, GateType
  <2> QED BY <2>2, <2>3
<1>10. CASE PollMail(u) \/ WaitMail(u) \/ DrainMail(u)
  BY <1>0, <1>10 DEF PollMail, WaitMail, DrainMail, TakeMail, gateVars
<1>11. CASE HandleMail(u)
  <2>1. PICK d : (pc' = pc /\ scan' = scan) \/ BeginScan(u, d, pc[u])
    BY <1>11 DEF HandleMail, HandleNull
  <2>2. /\ pc[u] \in {"io", "drain io"} /\ pc'[u] \in {pc[u], "scan"}
        /\ pc'[u] = "scan" => scan'[u].ret = pc[u]
        /\ \A v \in Universes \ {u} : pc'[v] = pc[v] /\ scan'[v] = scan[v]
    BY <1>11, <2>1, ScanStarted DEF HandleMail
  <2> QED BY <1>11, <2>2 DEF HandleMail
<1>12. CASE EndMail(u)
  <2>1. CASE pc[u] = "drain io"
    BY <1>0, <1>12, <2>1 DEF EndMail, AfterMail, gateVars
  <2>2. CASE pc[u] # "drain io" /\ ctx[u].cur # NoTimeline
    <3>1. BeginScan(u, ctx[u].cur, "sched")
      BY <1>12, <2>2 DEF EndMail, AfterMail
    <3>2. /\ pc'[u] = "scan" /\ scan'[u].ret = "sched"
          /\ \A v \in Universes \ {u} : pc'[v] = pc[v] /\ scan'[v] = scan[v]
      BY <3>1, ScanStarted
    <3> QED BY <1>12, <2>2, <3>2 DEF EndMail, gateVars
  <2>3. CASE pc[u] # "drain io" /\ ctx[u].cur = NoTimeline
    BY <1>0, <1>12, <2>3 DEF EndMail, AfterMail, gateVars
  <2> QED BY <2>1, <2>2, <2>3
<1> QED BY <1>2, <1>3, <1>4, <1>14, <1>5, <1>7, <1>8, <1>9, <1>10, <1>11, <1>12 DEF Thread

-----------------------------------------------------------------------------
(* Steps of the barriers.                                                  *)

LEMMA DispatchMeeting ==
  ASSUME TypeOK, Meeting, NEW u \in Universes, Dispatch(u)
  PROVE  Meeting'
<1>0. pc \in [Universes -> Labels] /\ pc[u] = "dispatch"
  BY DEF TypeOK, ThreadTypeOK, Dispatch
<1>1. \E l \in {"dispatched", "epoch", "train", "trained"} :
        /\ pc' = [pc EXCEPT ![u] = l]
        /\ l = "dispatched" <=> Exchange(u)
        /\ l = "train" => u = proc0[machine[u]]
        /\ l = "trained" => u # proc0[machine[u]]
  BY DEF Dispatch, AfterLocalEdge, Exchange, Goto
<1>2. \A v \in Universes : /\ AtEdge(v)' <=> AtEdge(v)
                           /\ InWindow(v)' <=> InWindow(v)
                           /\ Exchange(v)' <=> Exchange(v)
  BY <1>0, <1>1 DEF Dispatch, AtEdge, InWindow, WindowLabels, Exchange, windowVars
<1>3. Together'
  BY <1>2 DEF Meeting, Together, Mates
<1>4. ExchangeTogether'
  <2> SUFFICES ASSUME NEW v \in Universes, NEW x \in Mates(v),
                      pc'[v] = "dispatched" \/ (pc'[v] = "dispatch" /\ Exchange(v))
               PROVE  Exchange(v) /\ pc'[x] \in {"dispatch", "dispatched"}
    BY <1>2 DEF ExchangeTogether, Mates
  <2>0. x \in Universes /\ v \in Mates(x) /\ machine[x] = machine[v]
    BY DEF Mates
  <2>1. pc[v] = "dispatched" \/ (pc[v] = "dispatch" /\ Exchange(v))
    BY <1>0, <1>1
  <2>2. Exchange(v) /\ pc[x] \in {"dispatch", "dispatched"}
    BY <2>1 DEF Meeting, ExchangeTogether
  <2>3. CASE x # u
    BY <1>0, <1>1, <2>0, <2>2, <2>3
  <2>4. CASE x = u
    <3>1. ~InWindow(v) /\ ~InWindow(x)
      BY <2>1, <2>2 DEF InWindow, WindowLabels
    <3>2. SameEdge(v, x)
      BY <3>1 DEF Meeting, Edges, SameEdges
    <3>3. Exchange(x)
      BY <2>0, <2>2, <3>2 DEF Exchange, SameEdge
    <3> QED BY <1>0, <1>1, <2>2, <2>4, <3>3
  <2> QED BY <2>3, <2>4
<1>5. EdgesKept
  <2>1. \A v \in Universes : /\ pc'[v] = "end" => pc[v] = "end"
                             /\ pc'[v] = "train" => v = proc0[machine[v]]
                             /\ pc'[v] = "train global" <=> pc[v] = "train global"
    BY <1>0, <1>1 DEF Meeting, Edges, Trainers
  <2>2. \A m \in Machines : pc'[proc0[m]] = "trained" <=> pc[proc0[m]] = "trained"
    BY <1>0, <1>1, TopologyAssumption
  <2> QED BY <1>2, <2>1, <2>2 DEF EdgesKept, Dispatch, gateVars
<1> QED BY <1>3, <1>4, <1>5, KeepEdges DEF Meeting

LEMMA BarrierMeeting ==
  ASSUME TypeOK, Meeting, NEW m \in Machines, Barrier(m)
  PROVE  Meeting'
<1>0. pc \in [Universes -> Labels] /\ proc0[m] \in Universes /\ machine[proc0[m]] = m
  BY TopologyAssumption DEF TypeOK, ThreadTypeOK
<1>1. PICK here, there0, there :
        /\ Meet(m, here, there0, there)
        /\ \/ here = "top" /\ there0 = "dispatch" /\ there = "dispatch"
           \/ here = "dispatched" /\ there0 = "collect" /\ there = "collect"
           \/ here = "epoch sent" /\ there0 = "reduce" /\ there = "reduced"
           \/ here = "reduced" /\ there0 = "drain" /\ there = "drain"
           \/ here = "drained" /\ there0 = "train" /\ there = "trained"
  BY DEF Barrier
<1>2. \A v \in Universes : IF machine[v] = m
                           THEN pc[v] = here /\ pc'[v] = IF v = proc0[m] THEN there0 ELSE there
                           ELSE pc'[v] = pc[v]
  BY <1>1 DEF Meet, UniversesOf
<1>3. UNCHANGED <<windowVars, trainVars, gate, scan>>
  BY <1>1 DEF Meet, gateVars
<1>4. \A v \in Universes : /\ InWindow(v)' <=> InWindow(v)
                           /\ machine[v] = m => AtEdge(v)'
                           /\ machine[v] # m => (AtEdge(v)' <=> AtEdge(v))
  BY <1>1, <1>2, <1>3 DEF AtEdge, InWindow, WindowLabels
<1>5. Together'
  BY <1>4 DEF Meeting, Together, Mates
<1>6. ExchangeTogether'
  <2> SUFFICES ASSUME NEW v \in Universes, NEW x \in Mates(v),
                      (pc[v] = "dispatched" \/ (pc[v] = "dispatch" /\ Exchange(v)))'
               PROVE  Exchange(v)' /\ pc'[x] \in {"dispatch", "dispatched"}
    BY DEF ExchangeTogether, Mates
  <2>1. Exchange(v)' <=> Exchange(v)
    BY <1>3 DEF Exchange, windowVars
  <2>2. x \in Universes /\ machine[x] = machine[v]
    BY DEF Mates
  <2>3. CASE machine[v] = m
    BY <1>1, <1>2, <2>1, <2>2, <2>3
  <2>4. CASE machine[v] # m
    BY <1>2, <2>1, <2>2, <2>4 DEF Meeting, ExchangeTogether
  <2> QED BY <2>3, <2>4
<1>7. EdgesKept
  <2>2. \A v \in Universes : /\ pc'[v] = "end" => pc[v] = "end"
                             /\ pc'[v] = "train" => v = proc0[machine[v]]
                             /\ pc'[v] = "train global" <=> pc[v] = "train global"
    BY <1>1, <1>2 DEF Meeting, Edges, Trainers
  <2>3. \A n \in Machines : pc'[proc0[n]] = "trained" <=> pc[proc0[n]] = "trained"
    BY <1>0, <1>1, <1>2, TopologyAssumption
  <2> QED BY <1>3, <1>4, <2>2, <2>3 DEF EdgesKept
<1> QED BY <1>5, <1>6, <1>7, KeepEdges DEF Meeting

LEMMA CollectiveMeeting ==
  ASSUME TypeOK, Meeting, Reduce \/ MpiBarrier
  PROVE  Meeting'
<1>0. pc \in [Universes -> Labels]
  BY DEF TypeOK, ThreadTypeOK
<1>1. \A v \in Universes : \/ pc'[v] = pc[v]
                           \/ pc[v] \in {"reduce", "mpi barrier"} /\ pc'[v] \in {"await", "drained"}
  <2> SUFFICES ASSUME NEW v \in Universes
               PROVE  \/ pc'[v] = pc[v]
                      \/ pc[v] \in {"reduce", "mpi barrier"} /\ pc'[v] \in {"await", "drained"}
    OBVIOUS
  <2>1. machine[v] \in Machines
    BY TopologyAssumption
  <2>2. CASE v = proc0[machine[v]]
    BY <2>1, <2>2 DEF Reduce, MpiBarrier
  <2>3. CASE v # proc0[machine[v]]
    BY <2>3 DEF Reduce, MpiBarrier
  <2> QED BY <2>2, <2>3
<1>2. UNCHANGED <<windowVars, trainVars, gate, scan>>
  BY DEF Reduce, MpiBarrier, gateVars
<1>3. \A v \in Universes : /\ InWindow(v)' <=> InWindow(v)
                           /\ AtEdge(v)' <=> AtEdge(v)
                           /\ Exchange(v)' <=> Exchange(v)
  BY <1>1, <1>2 DEF AtEdge, InWindow, WindowLabels, Exchange, windowVars
<1>4. Together'
  BY <1>3 DEF Meeting, Together, Mates
<1>5. ExchangeTogether'
  BY <1>1, <1>3 DEF Meeting, ExchangeTogether, Mates
<1>6. EdgesKept
  <2>1. \A v \in Universes : /\ pc'[v] = "end" => pc[v] = "end"
                             /\ pc'[v] = "train" => v = proc0[machine[v]]
                             /\ pc'[v] = "train global" <=> pc[v] = "train global"
    BY <1>1 DEF Meeting, Edges, Trainers
  <2>2. \A n \in Machines : pc'[proc0[n]] = "trained" <=> pc[proc0[n]] = "trained"
    BY <1>1, TopologyAssumption
  <2> QED BY <1>2, <1>3, <2>1, <2>2 DEF EdgesKept
<1> QED BY <1>4, <1>5, <1>6, KeepEdges DEF Meeting

\* Steps of the reader and the writer, and stuttering.
LEMMA OutsideMeeting ==
  ASSUME TypeOK, Meeting, UNCHANGED <<windowVars, trainVars, gate, pc, scan>>
  PROVE  Meeting'
<1>1. \A v : /\ InWindow(v)' <=> InWindow(v)
             /\ AtEdge(v)' <=> AtEdge(v)
             /\ Exchange(v)' <=> Exchange(v)
  BY DEF AtEdge, InWindow, Exchange, windowVars
<1>2. Together' /\ ExchangeTogether'
  BY <1>1 DEF Meeting, Together, ExchangeTogether, Mates
<1>3. EdgesKept
  BY <1>1 DEF EdgesKept, Meeting, Edges, Trainers
<1> QED BY <1>2, <1>3, KeepEdges DEF Meeting

-----------------------------------------------------------------------------
(* The end of a window.                                                    *)

\* What the thread that leaves its window changes, and where the others are.
LEMMA WindowLeft ==
  ASSUME TypeOK, Together, NEW u \in Universes, AdvanceWindow(u)
  PROVE  /\ synpoint'[u] = next_window(u)
         /\ decade_sync'[u] = (next_window(u) = next_decade[u])
         /\ epoch_sync'[u] = (next_window(u) = next_epoch[u])
         /\ next_decade'[u] = NextDecade(u, next_window(u))
         /\ next_epoch'[u] = NextEpoch(u, next_window(u))
         /\ pc[u] = "sched" /\ pc'[u] \in {"top", "end"}
         /\ pc'[u] = "end" => ~(next_window(u) < endtime)
         /\ InWindow(u) /\ ~InWindow(u)' /\ ~AtEdge(u) /\ ~AtEdge(u)'
         /\ \A v \in Universes \ {u} :
              /\ synpoint'[v] = synpoint[v]
              /\ next_decade'[v] = next_decade[v] /\ next_epoch'[v] = next_epoch[v]
              /\ decade_sync'[v] = decade_sync[v] /\ epoch_sync'[v] = epoch_sync[v]
              /\ pc'[v] = pc[v]
              /\ InWindow(v)' <=> InWindow(v)
              /\ AtEdge(v)' <=> AtEdge(v)
         /\ \A v \in Mates(u) : ~AtEdge(v)
         /\ UNCHANGED <<inbound_async, trainVars, gate, scan>>
<1>1. UNCHANGED <<inbound_async, trainVars, gate, scan>>
  BY DEF AdvanceWindow, gateVars
<1>2. /\ synpoint'[u] = next_window(u)
      /\ decade_sync'[u] = (next_window(u) = next_decade[u])
      /\ epoch_sync'[u] = (next_window(u) = next_epoch[u])
      /\ next_decade'[u] = NextDecade(u, next_window(u))
      /\ next_epoch'[u] = NextEpoch(u, next_window(u))
  BY DEF AdvanceWindow, TypeOK, WindowTypeOK, NextDecade, NextEpoch
<1>3. /\ pc[u] = "sched" /\ pc'[u] \in {"top", "end"}
      /\ pc'[u] = "end" => ~(next_window(u) < endtime)
  BY DEF AdvanceWindow, Goto, TypeOK, ThreadTypeOK
<1>4. InWindow(u) /\ ~InWindow(u)' /\ ~AtEdge(u) /\ ~AtEdge(u)'
  BY <1>3 DEF InWindow, AtEdge, WindowLabels
<1>5. \A v \in Universes \ {u} :
        /\ synpoint'[v] = synpoint[v]
        /\ next_decade'[v] = next_decade[v] /\ next_epoch'[v] = next_epoch[v]
        /\ decade_sync'[v] = decade_sync[v] /\ epoch_sync'[v] = epoch_sync[v]
        /\ pc'[v] = pc[v]
  BY DEF AdvanceWindow, Goto, TypeOK, ThreadTypeOK, WindowTypeOK
<1>6. \A v \in Universes \ {u} : /\ InWindow(v)' <=> InWindow(v)
                                 /\ AtEdge(v)' <=> AtEdge(v)
  BY <1>1, <1>5 DEF InWindow, AtEdge
<1>7. \A v \in Mates(u) : ~AtEdge(v)
  BY <1>4 DEF Together, Mates
<1> QED BY <1>1, <1>2, <1>3, <1>4, <1>5, <1>6, <1>7

LEMMA AdvanceSameEdges ==
  ASSUME TypeOK, Meeting, NEW u \in Universes, AdvanceWindow(u)
  PROVE  SameEdges'
<1> USE DEF Meeting, Edges
<1> SUFFICES ASSUME NEW x \in Universes, NEW y \in Mates(x)
             PROVE  /\ (InWindow(x)' <=> InWindow(y)') => SameEdge(x, y)'
                    /\ InWindow(x)' /\ ~InWindow(y)' => OneWindowBehind(x, y)'
  BY DEF SameEdges, Mates
<1>1. y \in Universes /\ x \in Mates(y) /\ machine[x] = machine[y]
  BY DEF Mates
<1>2. UNCHANGED <<decade_length, epoch_length, local_roundup, global_roundup>>
  BY WindowLeft DEF trainVars, localVars, globalVars
<1>3. CASE x # u /\ y # u
  BY <1>1, <1>2, <1>3, WindowLeft
     DEF SameEdges, SameEdge, OneWindowBehind, NextDecade, NextEpoch, next_window
<1>4. CASE x = u /\ y = u
  BY <1>4, WindowLeft DEF SameEdge
<1>5. CASE x = u /\ y # u
  <2> SUFFICES ASSUME ~InWindow(y) PROVE SameEdge(u, y)'
    BY <1>1, <1>5, WindowLeft
  <2>1. OneWindowBehind(u, y)
    BY <1>5, WindowLeft DEF SameEdges
  <2> QED BY <1>1, <1>5, <2>1, WindowLeft DEF OneWindowBehind, SameEdge
<1>6. CASE x # u /\ y = u
  <2>1. CASE ~InWindow(x)
    <3>1. OneWindowBehind(u, x)
      BY <1>1, <1>6, <2>1, WindowLeft DEF SameEdges
    <3>2. SameEdge(x, u)'
      BY <1>6, <3>1, WindowLeft DEF OneWindowBehind, SameEdge
    <3> QED BY <1>6, <2>1, <3>2, WindowLeft
  <2>2. CASE InWindow(x)
    <3>1. SameEdge(x, u)
      BY <1>6, <2>2, WindowLeft DEF SameEdges
    <3>2. next_window(x)' = next_window(u)
      BY <1>6, <3>1, WindowLeft DEF SameEdge, next_window
    <3>3. OneWindowBehind(x, u)'
      BY <1>1, <1>2, <1>6, <3>1, <3>2, WindowLeft
         DEF SameEdge, OneWindowBehind, NextDecade, NextEpoch
    <3> QED BY <1>6, <2>2, <3>3, WindowLeft
  <2> QED BY <2>1, <2>2
<1> QED BY <1>3, <1>4, <1>5, <1>6

LEMMA AdvanceMeeting ==
  ASSUME TypeOK, Meeting, NEW u \in Universes, AdvanceWindow(u)
  PROVE  Meeting'
<1> DEFINE m == machine[u]
           w == next_window(u)
<1>0. WindowTypeOK /\ Together /\ endtime \in Nat
  BY ParameterAssumption DEF TypeOK, Meeting
<1>1. UNCHANGED <<decade_length, epoch_length, local_roundup, global_roundup, l_idx, g_idx,
                  local_reclassified, global_reclassified, training_finished>>
  BY <1>0, WindowLeft DEF trainVars, localVars, globalVars
<1>2. Together'
  <2> SUFFICES ASSUME NEW x \in Universes, NEW y \in Mates(x), AtEdge(x)' PROVE AtEdge(y)'
    BY DEF Together, Mates
  <2>1. x # u /\ AtEdge(x) /\ x \in Mates(y) /\ y \in Universes
    BY <1>0, WindowLeft DEF Mates
  <2>2. AtEdge(y)
    BY <2>1, <1>0 DEF Together
  <2> QED BY <1>0, <2>1, <2>2, WindowLeft
<1>3. ExchangeTogether'
  <2> SUFFICES ASSUME NEW x \in Universes, NEW y \in Mates(x),
                      (pc[x] = "dispatched" \/ (pc[x] = "dispatch" /\ Exchange(x)))'
               PROVE  Exchange(x)' /\ pc'[y] \in {"dispatch", "dispatched"}
    BY DEF ExchangeTogether, Mates
  <2>1. x # u /\ y \in Universes
    BY <1>0, WindowLeft DEF Mates
  <2>2. pc'[x] = pc[x] /\ (Exchange(x)' <=> Exchange(x))
    BY <1>0, <2>1, WindowLeft DEF Exchange
  <2>3. Exchange(x) /\ pc[y] \in {"dispatch", "dispatched"}
    BY <2>2 DEF Meeting, ExchangeTogether
  <2>4. y # u
    BY <1>0, <2>3, WindowLeft
  <2> QED BY <1>0, <2>1, <2>2, <2>3, <2>4, WindowLeft
<1>4. SameEdges'
  BY AdvanceSameEdges
<1>5. /\ m \in Machines /\ w \in Nat /\ w <= next_decade[u] /\ w <= next_epoch[u]
      /\ w = next_decade[u] \/ w = next_epoch[u]
      /\ next_decade[u] \in Nat /\ next_epoch[u] \in Nat /\ synpoint[u] \in Nat
      /\ decade_length[m] \in Nat /\ epoch_length[m] \in Nat
      /\ local_roundup[m] \in Nat /\ global_roundup[m] \in Nat
  BY <1>0, WindowFacts
<1>6. /\ synpoint[u] <= next_decade[u] /\ synpoint[u] <= next_epoch[u]
      /\ next_decade[u] <= endtime /\ next_decade[u] <= local_roundup[m]
      /\ next_epoch[u] <= endtime /\ next_epoch[u] <= global_roundup[m]
  BY DEF Meeting, Edges, Bounds
<1> HIDE DEF w, m
<1>7. /\ next_decade'[u] \in Nat /\ w <= next_decade'[u] /\ next_decade'[u] <= endtime
      /\ next_decade'[u] <= local_roundup[m]
      /\ w = next_decade[u] => next_decade'[u] <= w + decade_length[m]
      /\ w # next_decade[u] => next_decade'[u] = next_decade[u]
  <2>1. CASE w = next_decade[u]
    <3> DEFINE a == w + decade_length[m]
    <3>1. next_decade'[u] = Clip(a, local_roundup[m])
      BY <1>0, <2>1, WindowLeft DEF NextDecade, w, m
    <3>2. a \in Nat /\ w <= a /\ a <= w + decade_length[m]
      BY <1>5
    <3> HIDE DEF a
    <3>3. /\ Clip(a, local_roundup[m]) \in Nat /\ Clip(a, local_roundup[m]) <= a
          /\ Clip(a, local_roundup[m]) <= endtime
          /\ Clip(a, local_roundup[m]) <= local_roundup[m]
          /\ w <= Clip(a, local_roundup[m])
      BY <1>0, <1>5, <1>6, <2>1, <3>2, ClipIs
    <3> QED BY <1>5, <2>1, <3>1, <3>2, <3>3
  <2>2. CASE w # next_decade[u]
    <3>1. next_decade'[u] = next_decade[u]
      BY <1>0, <2>2, WindowLeft DEF NextDecade, w, m
    <3> QED BY <1>5, <1>6, <2>2, <3>1
  <2> QED BY <2>1, <2>2
<1>8. /\ next_epoch'[u] \in Nat /\ w <= next_epoch'[u] /\ next_epoch'[u] <= endtime
      /\ next_epoch'[u] <= global_roundup[m]
  <2>1. CASE w = next_epoch[u]
    <3> DEFINE a == w + epoch_length[m]
    <3>1. next_epoch'[u] = Clip(a, global_roundup[m])
      BY <1>0, <2>1, WindowLeft DEF NextEpoch, w, m
    <3>2. a \in Nat /\ w <= a /\ a <= w + epoch_length[m]
      BY <1>5
    <3> HIDE DEF a
    <3>3. /\ Clip(a, global_roundup[m]) \in Nat /\ Clip(a, global_roundup[m]) <= a
          /\ Clip(a, global_roundup[m]) <= endtime
          /\ Clip(a, global_roundup[m]) <= global_roundup[m]
          /\ w <= Clip(a, global_roundup[m])
      BY <1>0, <1>5, <1>6, <2>1, <3>2, ClipIs
    <3> QED BY <1>5, <2>1, <3>1, <3>2, <3>3
  <2>2. CASE w # next_epoch[u]
    <3>1. next_epoch'[u] = next_epoch[u]
      BY <1>0, <2>2, WindowLeft DEF NextEpoch, w, m
    <3> QED BY <1>5, <1>6, <2>2, <3>1
  <2> QED BY <2>1, <2>2
<1>9. Bounds'
  <2> SUFFICES ASSUME NEW v \in Universes
               PROVE  /\ synpoint'[v] <= next_decade'[v] /\ synpoint'[v] <= next_epoch'[v]
                      /\ next_decade'[v] <= endtime
                      /\ next_decade'[v] <= local_roundup'[machine[v]]
                      /\ next_epoch'[v] <= endtime
                      /\ next_epoch'[v] <= global_roundup'[machine[v]]
                      /\ pc'[v] = "end" => synpoint'[v] = endtime
                      /\ ~InWindow(v)' /\ synpoint'[v] = local_roundup'[machine[v]]
                           /\ synpoint'[v] # 0 => decade_sync'[v]
    BY DEF Bounds
  <2>1. CASE v # u
    BY <1>0, <1>1, <2>1, WindowLeft DEF Meeting, Edges, Bounds
  <2>2. CASE v = u
    <3>1. synpoint'[u] = w /\ decade_sync'[u] = (w = next_decade[u])
      BY <1>0, WindowLeft DEF w
    <3>2. pc'[u] = "end" => w = endtime
      <4>1. pc'[u] = "end" => ~(w < endtime)
        BY <1>0, WindowLeft DEF w
      <4> QED BY <1>0, <1>5, <1>6, <4>1
    <3>3. w = local_roundup[m] => w = next_decade[u]
      BY <1>5, <1>6
    <3> QED BY <1>1, <1>7, <1>8, <2>2, <3>1, <3>2, <3>3 DEF m
  <2> QED BY <2>1, <2>2
<1>10. Rounds'
  BY <1>1 DEF Meeting, Edges, Rounds
<1>11. Trainers'
  <2>1. \A v \in Universes : pc'[v] \in {"train", "train global"} =>
          pc'[v] = pc[v] /\ epoch_sync'[v] = epoch_sync[v] /\ synpoint'[v] = synpoint[v]
    BY <1>0, WindowLeft
  <2>2. Trainers
    BY DEF Meeting, Edges
  <2> QED BY <1>1, <2>1, <2>2 DEF Trainers
<1>12. \A n \in Machines : /\ TrainerDone(n)' <=> TrainerDone(n)
                           /\ pc'[proc0[n]] = "trained" <=> pc[proc0[n]] = "trained"
  BY <1>0, WindowLeft, TopologyAssumption DEF TrainerDone
<1>13. Lengths'
  <2>1. \A n \in Machines : Pending(n)' <=> Pending(n)
    BY <1>1, <1>12 DEF Pending
  <2>2. \A s \in Stargates : SourceMachine(s) \in Machines
    BY TopologyAssumption DEF SourceMachine
  <2>3. \A v \in Universes : machine[v] \in Machines
    BY TopologyAssumption
  <2>4. ~Pending(m) => next_decade'[u] <= synpoint'[u] + decade_length[m]
    <3>1. synpoint'[u] = w
      BY <1>0, WindowLeft DEF w
    <3>2. ~Pending(m) => next_decade[u] <= synpoint[u] + decade_length[m]
      BY DEF Meeting, Edges, Lengths, m
    <3>3. synpoint[u] <= w
      BY <1>5, <1>6
    <3> QED BY <1>5, <1>7, <3>1, <3>2, <3>3
  <2>5. gate' = gate /\ inbound_async' = inbound_async
    BY <1>0, WindowLeft
  <2>6. \A v \in Universes \ {u} : synpoint'[v] = synpoint[v] /\ next_decade'[v] = next_decade[v]
    BY <1>0, WindowLeft
  <2>7. \A v \in Universes : \/ Pending(machine[v])'
                             \/ next_decade'[v] <= synpoint'[v] + decade_length'[machine[v]]
    BY <1>1, <2>1, <2>3, <2>4, <2>6 DEF Meeting, Edges, Lengths, m
  <2>8. \A s \in Stargates : ~Remote(s) =>
          /\ gate'[s].in_sync => decade_length'[SourceMachine(s)] <= min_delay[s]
          /\ Pending(SourceMachine(s))' \/ (s \in inbound_async' <=> ~gate'[s].in_sync)
    BY <1>1, <2>1, <2>2, <2>5 DEF Meeting, Edges, Lengths
  <2> QED BY <2>7, <2>8 DEF Lengths
<1>14. FirstEdge'
  <2>1. \A v \in Universes : ~decade_sync'[v] /\ ~epoch_sync'[v] =>
          ~decade_sync[v] /\ ~epoch_sync[v]
    BY <1>0, <1>5, WindowLeft DEF w
  <2>2. \A v \in Universes : machine[v] \in Machines
    BY TopologyAssumption
  <2> QED BY <1>1, <1>12, <2>1, <2>2 DEF Meeting, Edges, FirstEdge
<1> QED BY <1>2, <1>3, <1>4, <1>9, <1>10, <1>11, <1>13, <1>14 DEF Meeting, Edges

-----------------------------------------------------------------------------
(* Training.                                                               *)

\* The training steps of a machine happen at an edge: no thread of the machine
\* is in a window, and nothing moves but the parameters.
LEMMA TrainingKeeps ==
  ASSUME TypeOK, Meeting, UNCHANGED <<windowVars, scan>>,
         NEW M \in SUBSET Machines,
         \A m \in M : pc[proc0[m]] \in {"train", "train global"},
         \A v \in Universes : \/ pc'[v] = pc[v]
                              \/ /\ pc[v] \in {"train", "train global"}
                                 /\ pc'[v] \in {"train global", "trained"},
         \A m \in Machines \ M : /\ decade_length'[m] = decade_length[m]
                                 /\ epoch_length'[m] = epoch_length[m]
                                 /\ local_roundup'[m] = local_roundup[m]
                                 /\ global_roundup'[m] = global_roundup[m]
  PROVE  /\ Together' /\ ExchangeTogether' /\ SameEdges'
         /\ \A v \in Universes : InWindow(v)' <=> InWindow(v)
         /\ \A v \in Universes : machine[v] \in M => AtEdge(v) /\ ~InWindow(v)
<1>0. \A v \in Universes : machine[v] \in Machines
  BY TopologyAssumption
<1>1. \A v \in Universes : /\ InWindow(v)' <=> InWindow(v)
                           /\ AtEdge(v)' <=> AtEdge(v)
                           /\ Exchange(v)' <=> Exchange(v)
  BY DEF InWindow, AtEdge, WindowLabels, Exchange, windowVars
<1>2. Together'
  BY <1>1 DEF Meeting, Together, Mates
<1>3. ExchangeTogether'
  <2> SUFFICES ASSUME NEW x \in Universes, NEW y \in Mates(x),
                      (pc[x] = "dispatched" \/ (pc[x] = "dispatch" /\ Exchange(x)))'
               PROVE  Exchange(x)' /\ pc'[y] \in {"dispatch", "dispatched"}
    BY DEF ExchangeTogether, Mates
  <2>1. y \in Universes
    BY DEF Mates
  <2>2. pc[x] = "dispatched" \/ (pc[x] = "dispatch" /\ Exchange(x))
    BY <1>1
  <2>3. Exchange(x) /\ pc[y] \in {"dispatch", "dispatched"}
    BY <2>2 DEF Meeting, ExchangeTogether
  <2> QED BY <1>1, <2>1, <2>3
<1>4. ASSUME NEW v \in Universes, machine[v] \in M
      PROVE  AtEdge(v) /\ ~InWindow(v)
  <2>1. proc0[machine[v]] \in Universes /\ v \in Mates(proc0[machine[v]])
    BY <1>0, TopologyAssumption DEF Mates
  <2>2. AtEdge(proc0[machine[v]])
    BY <1>4 DEF AtEdge, WindowLabels
  <2>3. AtEdge(v)
    BY <2>1, <2>2 DEF Meeting, Together
  <2> QED BY <2>3 DEF InWindow
<1>5. SameEdges'
  <2> SUFFICES ASSUME NEW x \in Universes, NEW y \in Mates(x)
               PROVE  /\ (InWindow(x)' <=> InWindow(y)') => SameEdge(x, y)'
                      /\ InWindow(x)' /\ ~InWindow(y)' => OneWindowBehind(x, y)'
    BY DEF SameEdges, Mates
  <2>1. y \in Universes /\ machine[x] = machine[y]
    BY DEF Mates
  <2>2. SameEdge(x, y)' <=> SameEdge(x, y)
    BY DEF SameEdge, windowVars
  <2>3. CASE machine[x] \in M
    BY <1>1, <1>4, <2>1, <2>2, <2>3 DEF Meeting, Edges, SameEdges
  <2>4. CASE machine[x] \notin M
    <3>1. machine[x] \in Machines \ M
      BY <1>0, <2>4
    <3>2. OneWindowBehind(x, y)' <=> OneWindowBehind(x, y)
      BY <3>1 DEF OneWindowBehind, NextDecade, NextEpoch, next_window, windowVars
    <3> QED BY <1>1, <2>1, <2>2, <3>2 DEF Meeting, Edges, SameEdges
  <2> QED BY <2>3, <2>4
<1> QED BY <1>1, <1>2, <1>3, <1>4, <1>5

\* Local training: what the step of processor 0 does to its machine.
LEMMA LocallyTrained ==
  ASSUME TypeOK, Meeting, NEW u \in Universes, TrainLocal(u)
  PROVE  LET m == machine[u] IN
         /\ pc[u] = "train" /\ u = proc0[m]
         /\ pc' = [pc EXCEPT ![u] = IF epoch_sync[u] /\ synpoint[u] = global_roundup[m]
                                    THEN "train global" ELSE "trained"]
         /\ UNCHANGED <<windowVars, scan, epoch_length, global_roundup, g_idx, training_finished>>
         /\ \A n \in Machines \ {m} : /\ decade_length'[n] = decade_length[n]
                                      /\ local_roundup'[n] = local_roundup[n]
                                      /\ l_idx'[n] = l_idx[n]
                                      /\ local_reclassified'[n] = local_reclassified[n]
                                      /\ global_reclassified'[n] = global_reclassified[n]
         /\ \A s \in Stargates : Remote(s) \/ SourceMachine(s) # m => gate'[s] = gate[s]
         /\ ~global_reclassified'[m]
         /\ IF decade_sync[u] /\ synpoint[u] = local_roundup[m]
            THEN /\ local_reclassified'[m]
                 /\ \A s \in LocalGates(m) :
                      gate'[s].in_sync => decade_length'[m] <= min_delay[s]
                 /\ \/ /\ l_idx[m] < Len(local_thresholds[m]) /\ l_idx'[m] = l_idx[m] + 1
                       /\ local_roundup'[m] = local_roundup[m] + local_round[m]
                    \/ local_roundup'[m] = Infinity
            ELSE /\ ~local_reclassified'[m]
                 /\ UNCHANGED <<gate, decade_length, local_roundup, l_idx>>
<1> DEFINE m == machine[u]
           trains == decade_sync[u] /\ synpoint[u] = local_roundup[m]
<1>0. /\ m \in Machines /\ synpoint[u] \in Nat /\ gate \in [Stargates -> GateType]
      /\ local_reclassified \in [Machines -> BOOLEAN] /\ local_roundup \in [Machines -> Nat]
      /\ global_reclassified \in [Machines -> BOOLEAN] /\ l_idx \in [Machines -> Nat]
      /\ decade_length \in [Machines -> Nat]
  BY TopologyAssumption DEF TypeOK, WindowTypeOK, TimelineTypeOK
<1>1. /\ pc[u] = "train" /\ u = proc0[m]
      /\ pc' = [pc EXCEPT ![u] = IF epoch_sync[u] /\ synpoint[u] = global_roundup[m]
                                 THEN "train global" ELSE "trained"]
  BY DEF TrainLocal, Goto, Meeting, Edges, Trainers
<1>2. UNCHANGED <<windowVars, scan, epoch_length, global_roundup, g_idx, training_finished>>
  BY DEF TrainLocal
<1>3. global_reclassified' = [global_reclassified EXCEPT ![m] = FALSE]
  BY DEF TrainLocal
<1>4. CASE trains
  <2>1. PICK thresh, training :
          /\ thresh \in Nat /\ training \in BOOLEAN
          /\ gate' = Classify(gate, LocalGates(m), thresh, synpoint[u])
          /\ decade_length' = [decade_length EXCEPT
               ![m] = LocalLength(m, [thresh |-> thresh, training |-> training])]
          /\ local_reclassified' = [local_reclassified EXCEPT ![m] = TRUE]
          /\ l_idx' = [l_idx EXCEPT ![m] = @ + 1]
          /\ \/ /\ l_idx[m] < Len(local_thresholds[m])
                /\ local_roundup' = [local_roundup EXCEPT ![m] = @ + local_round[m]]
             \/ local_roundup' = [local_roundup EXCEPT ![m] = Infinity]
    <3>1. CASE l_idx[m] < Len(local_thresholds[m])
      <4>1. local_thresholds[m][l_idx[m] + 1] \in Nat
        BY <1>0, <3>1, NextTrial, ThresholdType DEF TypeOK
      <4>2. /\ gate' = Classify(gate, LocalGates(m), local_thresholds[m][l_idx[m] + 1], synpoint[u])
            /\ decade_length' = [decade_length EXCEPT
                 ![m] = LocalLength(m, [thresh |-> local_thresholds[m][l_idx[m] + 1],
                                        training |-> TRUE])]
            /\ local_reclassified' = [local_reclassified EXCEPT ![m] = TRUE]
            /\ l_idx' = [l_idx EXCEPT ![m] = @ + 1]
            /\ local_roundup' = [local_roundup EXCEPT ![m] = @ + local_round[m]]
        <5>1. l_idx[m] \in Nat /\ Len(local_thresholds[m]) \in Nat
          BY <1>0, ThresholdType
        <5>2. ~(l_idx[m] >= Len(local_thresholds[m]))
          BY <3>1, <5>1
        <5> QED BY <1>4, <5>2 DEF TrainLocal
      <4> HIDE DEF m
      <4> QED BY <3>1, <4>1, <4>2
    <3>2. CASE ~(l_idx[m] < Len(local_thresholds[m]))
      <4>1. PICK i \in DOMAIN local_thresholds[m] :
              /\ gate' = Classify(gate, LocalGates(m), local_thresholds[m][i], synpoint[u])
              /\ decade_length' = [decade_length EXCEPT
                   ![m] = LocalLength(m, [thresh |-> local_thresholds[m][i], training |-> FALSE])]
              /\ local_reclassified' = [local_reclassified EXCEPT ![m] = TRUE]
              /\ l_idx' = [l_idx EXCEPT ![m] = @ + 1]
        BY <1>4, <3>2 DEF TrainLocal
      <4>2. local_thresholds[m][i] \in Nat
        BY <1>0, ThresholdType
      <4>3. local_roundup' = [local_roundup EXCEPT ![m] = Infinity]
        BY <1>4, <3>2 DEF TrainLocal
      <4> QED BY <4>1, <4>2, <4>3
    <3> QED BY <3>1, <3>2
  <2>2. ASSUME NEW s \in LocalGates(m), gate'[s].in_sync
        PROVE  decade_length'[m] <= min_delay[s]
    <3>1. LocalLength(m, [thresh |-> thresh, training |-> training]) <= min_delay[s]
      BY <1>0, <2>1, <2>2, DecadeBound
    <3> QED BY <1>0, <2>1, <3>1
  <2>3. \A s \in Stargates : Remote(s) \/ SourceMachine(s) # m => gate'[s] = gate[s]
    BY <2>1 DEF Classify, LocalGates
  <2> QED BY <1>0, <1>1, <1>2, <1>3, <1>4, <2>1, <2>2, <2>3
<1>5. CASE ~trains
  <2>1. /\ UNCHANGED <<gate, decade_length, local_roundup, l_idx>>
        /\ local_reclassified' = [local_reclassified EXCEPT ![m] = FALSE]
    BY <1>5 DEF TrainLocal
  <2> QED BY <1>0, <1>1, <1>2, <1>3, <1>5, <2>1
<1> QED BY <1>4, <1>5

LEMMA TrainLocalMeeting ==
  ASSUME TypeOK, Meeting, NEW u \in Universes, TrainLocal(u)
  PROVE  Meeting'
<1> DEFINE m == machine[u]
           trains == decade_sync[u] /\ synpoint[u] = local_roundup[m]
<1>0. WindowTypeOK /\ pc \in [Universes -> Labels] /\ m \in Machines /\ endtime \in Nat
      /\ endtime < Infinity /\ Infinity \in Nat /\ local_round[m] \in Nat
  BY TopologyAssumption, ParameterAssumption DEF TypeOK, ThreadTypeOK
<1>1. /\ pc[u] = "train" /\ u = proc0[m]
      /\ pc' = [pc EXCEPT ![u] = IF epoch_sync[u] /\ synpoint[u] = global_roundup[m]
                                 THEN "train global" ELSE "trained"]
      /\ UNCHANGED <<windowVars, scan, epoch_length, global_roundup, g_idx, training_finished>>
      /\ \A n \in Machines \ {m} : /\ decade_length'[n] = decade_length[n]
                                   /\ local_roundup'[n] = local_roundup[n]
                                   /\ l_idx'[n] = l_idx[n]
                                   /\ local_reclassified'[n] = local_reclassified[n]
                                   /\ global_reclassified'[n] = global_reclassified[n]
      /\ \A s \in Stargates : Remote(s) \/ SourceMachine(s) # m => gate'[s] = gate[s]
      /\ ~global_reclassified'[m]
  BY LocallyTrained
<1>2. trains => /\ local_reclassified'[m]
                /\ \A s \in LocalGates(m) : gate'[s].in_sync => decade_length'[m] <= min_delay[s]
                /\ \/ /\ l_idx[m] < Len(local_thresholds[m]) /\ l_idx'[m] = l_idx[m] + 1
                      /\ local_roundup'[m] = local_roundup[m] + local_round[m]
                   \/ local_roundup'[m] = Infinity
  BY LocallyTrained
<1>3. ~trains => /\ ~local_reclassified'[m]
                 /\ UNCHANGED <<gate, decade_length, local_roundup, l_idx>>
  BY LocallyTrained
<1>4. UNCHANGED <<synpoint, next_decade, next_epoch, decade_sync, epoch_sync, inbound_async>>
  BY <1>1 DEF windowVars
<1> HIDE DEF m, trains
<1>5. /\ Together' /\ ExchangeTogether' /\ SameEdges'
      /\ \A v \in Universes : InWindow(v)' <=> InWindow(v)
      /\ \A v \in Universes : machine[v] = m => AtEdge(v) /\ ~InWindow(v)
  <2>1. {m} \in SUBSET Machines /\ \A n \in {m} : pc[proc0[n]] \in {"train", "train global"}
    BY <1>0, <1>1
  <2>2. \A v \in Universes : \/ pc'[v] = pc[v]
                             \/ /\ pc[v] \in {"train", "train global"}
                                /\ pc'[v] \in {"train global", "trained"}
    BY <1>0, <1>1
  <2>3. \A n \in Machines \ {m} : /\ decade_length'[n] = decade_length[n]
                                  /\ epoch_length'[n] = epoch_length[n]
                                  /\ local_roundup'[n] = local_roundup[n]
                                  /\ global_roundup'[n] = global_roundup[n]
    BY <1>1
  <2>4. UNCHANGED <<windowVars, scan>>
    BY <1>1
  <2>5. /\ Together' /\ ExchangeTogether' /\ SameEdges'
        /\ \A v \in Universes : InWindow(v)' <=> InWindow(v)
        /\ \A v \in Universes : machine[v] \in {m} => AtEdge(v) /\ ~InWindow(v)
    BY <2>1, <2>2, <2>3, <2>4, TrainingKeeps
  <2> QED BY <2>5
\* The other threads of the machine are at the same edge.
<1>6. \A v \in Universes : machine[v] = m => SameEdge(v, u)
  <2>1. \A v \in Universes : machine[v] = m => u \in Mates(v)
    BY DEF Mates, m
  <2>2. ~InWindow(u)
    BY <1>5 DEF m
  <2> QED BY <1>5, <2>1, <2>2 DEF Meeting, Edges, SameEdges
<1>7. /\ synpoint[u] \in Nat /\ local_roundup[m] \in Nat /\ global_roundup[m] \in Nat
      /\ synpoint[u] <= local_roundup[m] /\ synpoint[u] <= endtime
      /\ synpoint[u] = local_roundup[m] /\ synpoint[u] # 0 => trains
  <2>1. /\ synpoint[u] <= next_decade[u] /\ next_decade[u] <= endtime
        /\ next_decade[u] <= local_roundup[m]
        /\ ~InWindow(u) /\ synpoint[u] = local_roundup[m] /\ synpoint[u] # 0 => decade_sync[u]
    BY DEF Meeting, Edges, Bounds, m
  <2>2. ~InWindow(u)
    BY <1>5 DEF m
  <2>3. synpoint[u] \in Nat /\ local_roundup[m] \in Nat /\ global_roundup[m] \in Nat /\ next_decade[u] \in Nat
    BY <1>0 DEF WindowTypeOK
  <2> QED BY <1>0, <2>1, <2>2, <2>3 DEF trains
<1>8. trains => local_roundup[m] # Infinity
  BY <1>0, <1>7 DEF trains
\* A round ends where the next begins, or never.
<1>9. /\ local_roundup'[m] \in Nat
      /\ \/ local_roundup'[m] = local_roundup[m]
         \/ local_roundup'[m] = local_roundup[m] + local_round[m] /\ trains
         \/ local_roundup'[m] = Infinity
      /\ ~trains => local_roundup'[m] = local_roundup[m]
  BY <1>0, <1>2, <1>3, <1>7
<1>10. Bounds'
  <2> SUFFICES ASSUME NEW v \in Universes
               PROVE  /\ synpoint[v] <= next_decade[v] /\ synpoint[v] <= next_epoch[v]
                      /\ next_decade[v] <= endtime
                      /\ next_decade[v] <= local_roundup'[machine[v]]
                      /\ next_epoch[v] <= endtime
                      /\ next_epoch[v] <= global_roundup[machine[v]]
                      /\ pc'[v] = "end" => synpoint[v] = endtime
                      /\ ~InWindow(v)' /\ synpoint[v] = local_roundup'[machine[v]]
                           /\ synpoint[v] # 0 => decade_sync[v]
    BY <1>1, <1>4 DEF Bounds
  <2>1. /\ synpoint[v] <= next_decade[v] /\ synpoint[v] <= next_epoch[v]
        /\ next_decade[v] <= endtime
        /\ next_decade[v] <= local_roundup[machine[v]]
        /\ next_epoch[v] <= endtime
        /\ next_epoch[v] <= global_roundup[machine[v]]
        /\ pc[v] = "end" => synpoint[v] = endtime
        /\ ~InWindow(v) /\ synpoint[v] = local_roundup[machine[v]]
             /\ synpoint[v] # 0 => decade_sync[v]
    BY DEF Meeting, Edges, Bounds
  <2>2. pc'[v] = "end" => pc[v] = "end"
    BY <1>0, <1>1
  <2>3. machine[v] \in Machines /\ synpoint[v] \in Nat /\ next_decade[v] \in Nat
    BY <1>0, WindowFacts
  <2>4. CASE machine[v] # m
    BY <1>1, <1>5, <2>1, <2>2, <2>3, <2>4
  <2>5. CASE machine[v] = m
    <3>1. synpoint[v] = synpoint[u] /\ decade_sync[v] = decade_sync[u]
      BY <1>6, <2>5 DEF SameEdge
    <3>2. next_decade[v] <= local_roundup'[m]
      BY <1>0, <1>7, <1>9, <2>1, <2>3, <2>5
    <3>3. synpoint[v] = local_roundup'[m] => local_roundup'[m] = local_roundup[m]
      BY <1>0, <1>7, <1>9, <3>1
    <3> QED BY <1>5, <2>1, <2>2, <2>5, <3>2, <3>3
  <2> QED BY <2>4, <2>5
<1>11. Rounds'
  <2> SUFFICES ASSUME NEW n \in Machines
               PROVE  /\ \/ local_roundup'[n] = Infinity
                         \/ /\ ~NoLocalTraining /\ l_idx'[n] \in 1 .. Len(local_thresholds[n])
                            /\ local_roundup'[n] = l_idx'[n] * local_round[n]
                      /\ ~NoLocalTraining => local_length <= global_roundup[n]
                      /\ training_finished[n] =>
                           local_roundup'[n] = Infinity /\ global_roundup[n] = Infinity
    BY <1>1 DEF Rounds
  <2>1. /\ \/ local_roundup[n] = Infinity
           \/ /\ ~NoLocalTraining /\ l_idx[n] \in 1 .. Len(local_thresholds[n])
              /\ local_roundup[n] = l_idx[n] * local_round[n]
        /\ ~NoLocalTraining => local_length <= global_roundup[n]
        /\ training_finished[n] => local_roundup[n] = Infinity /\ global_roundup[n] = Infinity
    BY DEF Meeting, Edges, Rounds
  <2>2. CASE n # m \/ ~trains
    BY <1>1, <1>3, <2>1, <2>2
  <2>3. CASE n = m /\ trains
    <3>1. l_idx[m] \in Nat /\ Len(local_thresholds[m]) \in Nat
      <4>1. l_idx \in [Machines -> Nat]
        BY <1>0 DEF WindowTypeOK
      <4>2. m \in Machines
        BY <1>0
      <4> HIDE DEF m
      <4> QED BY <4>1, <4>2, ThresholdType
    <3>2. ~training_finished[n]
      <4>1. training_finished[n] => local_roundup[n] = Infinity
        BY <2>1
      <4>2. local_roundup[n] # Infinity
        BY <1>8, <2>3
      <4> QED BY <4>1, <4>2
    <3>3. CASE local_roundup'[m] = Infinity
      BY <2>1, <2>3, <3>2, <3>3
    <3>4. CASE local_roundup'[m] # Infinity
      <4>1. /\ l_idx[m] < Len(local_thresholds[m]) /\ l_idx'[m] = l_idx[m] + 1
            /\ local_roundup'[m] = local_roundup[m] + local_round[m]
        BY <1>2, <2>3, <3>4
      <4>2. ~NoLocalTraining /\ local_roundup[m] = l_idx[m] * local_round[m] /\ l_idx[m] >= 1
        BY <1>8, <2>1, <2>3
      <4>3. (l_idx[m] + 1) * local_round[m] = l_idx[m] * local_round[m] + local_round[m]
        BY <1>0, <3>1, RoundProduct
      <4> QED BY <2>1, <2>3, <3>1, <3>2, <4>1, <4>2, <4>3
    <3> QED BY <3>3, <3>4
  <2> QED BY <2>2, <2>3
<1>12. Trainers'
  <2> SUFFICES ASSUME NEW v \in Universes
               PROVE  LET n == machine[v] IN
                      /\ pc'[v] = "train" => v = proc0[n]
                      /\ pc'[v] = "train global" =>
                           /\ v = proc0[n] /\ epoch_sync[v] /\ synpoint[v] = global_roundup[n]
                           /\ \/ local_roundup'[n] = Infinity \/ synpoint[v] < local_roundup'[n]
                              \/ local_round[n] = 0
    BY <1>1, <1>4 DEF Trainers
  <2>1. CASE v = u
    <3>1. pc'[u] # "train" /\ (pc'[u] = "train global" => epoch_sync[u] /\ synpoint[u] = global_roundup[m])
      BY <1>0, <1>1
    <3>2. \/ local_roundup'[m] = Infinity \/ synpoint[u] < local_roundup'[m]
          \/ local_round[m] = 0
      <4>1. CASE trains
        BY <1>0, <1>2, <1>7, <4>1 DEF trains
      <4>2. CASE ~trains /\ synpoint[u] # 0
        BY <1>7, <1>9, <4>2
      <4>3. CASE ~trains /\ synpoint[u] = 0 /\ local_roundup[m] # Infinity
        <5>1. l_idx[m] \in Nat /\ l_idx[m] >= 1 /\ local_roundup[m] = l_idx[m] * local_round[m]
          BY <1>0, <4>3 DEF Meeting, Edges, Rounds, WindowTypeOK
        <5>2. 1 * local_round[m] <= l_idx[m] * local_round[m] /\ 1 * local_round[m] = local_round[m]
          BY <1>0, <5>1, RoundProduct
        <5> QED BY <1>0, <1>7, <1>9, <4>3, <5>1, <5>2
      <4>4. CASE ~trains /\ local_roundup[m] = Infinity
        BY <1>9, <4>4
      <4> QED BY <4>1, <4>2, <4>3, <4>4
    <3> QED BY <1>1, <2>1, <3>1, <3>2 DEF m
  <2>2. CASE v # u
    <3>1. pc'[v] = pc[v]
      BY <1>0, <1>1, <2>2
    <3>2. pc[v] \in {"train", "train global"} => machine[v] \in Machines \ {m}
      <4>1. machine[v] \in Machines
        BY TopologyAssumption
      <4>2. Trainers
        BY DEF Meeting, Edges
      <4>3. pc[v] \in {"train", "train global"} => v = proc0[machine[v]]
        BY <4>2 DEF Trainers
      <4> QED BY <1>1, <2>2, <4>1, <4>3
    <3> QED BY <1>1, <3>1, <3>2 DEF Meeting, Edges, Trainers
  <2> QED BY <2>1, <2>2
<1>13. /\ TrainerDone(m)' /\ ~TrainerDone(m)
       /\ \A n \in Machines \ {m} : TrainerDone(n)' <=> TrainerDone(n)
       /\ \A n \in Machines \ {m} : pc'[proc0[n]] = pc[proc0[n]]
  BY <1>0, <1>1, TopologyAssumption DEF TrainerDone, m
<1>14. Lengths'
  <2>1. \A n \in Machines \ {m} : Pending(n)' <=> Pending(n)
    BY <1>1, <1>13 DEF Pending
  <2>2. ~Pending(m) /\ (Pending(m)' <=> trains)
    BY <1>2, <1>3, <1>13 DEF Pending
  <2>3. ASSUME NEW v \in Universes
        PROVE  \/ Pending(machine[v])'
               \/ next_decade'[v] <= synpoint'[v] + decade_length'[machine[v]]
    <3>0. machine[v] \in Machines
      BY TopologyAssumption
    <3>1. \/ Pending(machine[v])
          \/ next_decade[v] <= synpoint[v] + decade_length[machine[v]]
      BY DEF Meeting, Edges, Lengths
    <3>2. CASE machine[v] # m
      BY <1>1, <1>4, <2>1, <3>0, <3>1, <3>2
    <3>3. CASE machine[v] = m
      BY <1>3, <1>4, <2>2, <3>1, <3>3
    <3> QED BY <3>2, <3>3
  <2>4. ASSUME NEW s \in Stargates, ~Remote(s)
        PROVE  /\ gate'[s].in_sync => decade_length'[SourceMachine(s)] <= min_delay[s]
               /\ Pending(SourceMachine(s))' \/ (s \in inbound_async' <=> ~gate'[s].in_sync)
    <3>0. SourceMachine(s) \in Machines
      BY TopologyAssumption DEF SourceMachine
    <3>1. /\ gate[s].in_sync => decade_length[SourceMachine(s)] <= min_delay[s]
          /\ Pending(SourceMachine(s)) \/ (s \in inbound_async <=> ~gate[s].in_sync)
      BY <2>4 DEF Meeting, Edges, Lengths
    <3>2. CASE SourceMachine(s) # m
      BY <1>1, <1>4, <2>1, <3>0, <3>1, <3>2
    <3>3. CASE SourceMachine(s) = m /\ trains
      <4>1. s \in LocalGates(m)
        BY <2>4, <3>3 DEF LocalGates
      <4> QED BY <1>2, <2>2, <3>3, <4>1
    <3>4. CASE SourceMachine(s) = m /\ ~trains
      BY <1>3, <1>4, <2>2, <3>1, <3>4
    <3> QED BY <3>2, <3>3, <3>4
  <2> QED BY <2>3, <2>4 DEF Lengths
<1>15. FirstEdge'
  <2> SUFFICES ASSUME NEW v \in Universes, ~decade_sync[v], ~epoch_sync[v], TrainerDone(machine[v])'
               PROVE  /\ ~local_reclassified'[machine[v]] /\ ~global_reclassified'[machine[v]]
                      /\ pc'[proc0[machine[v]]] = "trained"
    BY <1>4 DEF FirstEdge
  <2>0. machine[v] \in Machines
    BY TopologyAssumption
  <2>1. CASE machine[v] # m
    BY <1>1, <1>13, <2>0, <2>1 DEF Meeting, Edges, FirstEdge
  <2>2. CASE machine[v] = m
    <3>1. ~decade_sync[u] /\ ~epoch_sync[u]
      BY <1>6, <2>2 DEF SameEdge
    <3> QED BY <1>0, <1>1, <1>3, <2>2, <3>1 DEF trains
  <2> QED BY <2>1, <2>2
<1> QED BY <1>5, <1>10, <1>11, <1>12, <1>14, <1>15 DEF Meeting, Edges

\* Global training classifies no stargate inside a machine.
LEMMA RemoteClassified ==
  ASSUME NEW M, NEW thresh, NEW now, ClassifyGlobal(M, thresh, now),
         NEW s \in Stargates, ~Remote(s)
  PROVE  gate'[s] = gate[s] /\ rgate'[s] = rgate[s]
BY DEF ClassifyGlobal, Classify, RemoteGates

TrainsGlobally(m) == pc[proc0[m]] = "train global"

\* When a machine trains globally, all its threads are at the edge of an epoch
\* that ends a round, and its local training is over unless its rounds are
\* empty.
LEMMA AtGlobalTraining ==
  ASSUME TypeOK, Meeting, NEW m \in Machines, TrainsGlobally(m)
  PROVE  /\ ~training_finished[m]
         /\ \A v \in Universes : machine[v] = m =>
              /\ AtEdge(v) /\ ~InWindow(v) /\ epoch_sync[v]
              /\ synpoint[v] = global_roundup[m]
              /\ synpoint[v] <= endtime /\ synpoint[v] <= local_roundup[m]
         /\ local_roundup[m] = Infinity
<1> DEFINE p == proc0[m]
<1>0. p \in Universes /\ machine[p] = m /\ WindowTypeOK /\ endtime \in Nat /\ endtime < Infinity
      /\ Infinity \in Nat
  BY TopologyAssumption, ParameterAssumption DEF TypeOK
<1>1. /\ epoch_sync[p] /\ synpoint[p] = global_roundup[m]
      /\ \/ local_roundup[m] = Infinity \/ synpoint[p] < local_roundup[m]
         \/ local_round[m] = 0
  BY <1>0 DEF Meeting, Edges, Trainers, TrainsGlobally
<1> HIDE DEF p
<1>2. ASSUME NEW v \in Universes, machine[v] = m
      PROVE  AtEdge(v) /\ ~InWindow(v) /\ SameEdge(v, p)
  <2>1. AtEdge(p) /\ v \in Mates(p) /\ p \in Mates(v)
    BY <1>0, <1>2 DEF AtEdge, WindowLabels, Mates, p, TrainsGlobally
  <2>2. AtEdge(v)
    BY <1>0, <2>1 DEF Meeting, Together
  <2>3. ~InWindow(p) /\ ~InWindow(v)
    BY <2>1, <2>2 DEF InWindow
  <2> QED BY <1>0, <2>1, <2>2, <2>3 DEF Meeting, Edges, SameEdges
<1>3. /\ synpoint[p] \in Nat /\ local_roundup[m] \in Nat /\ next_decade[p] \in Nat
      /\ synpoint[p] <= endtime /\ synpoint[p] <= local_roundup[m]
  <2>1. /\ synpoint[p] <= next_decade[p] /\ next_decade[p] <= endtime
        /\ next_decade[p] <= local_roundup[m]
    BY <1>0 DEF Meeting, Edges, Bounds
  <2>2. synpoint[p] \in Nat /\ local_roundup[m] \in Nat /\ next_decade[p] \in Nat
    BY <1>0 DEF WindowTypeOK
  <2> QED BY <1>0, <2>1, <2>2
<1>4. ~training_finished[m]
  BY <1>0, <1>1, <1>3 DEF Meeting, Edges, Rounds
<1>5. local_roundup[m] = Infinity
  <2> SUFFICES ASSUME local_roundup[m] # Infinity PROVE FALSE
    OBVIOUS
  <2>0. local_roundup[m] # Infinity
    OBVIOUS
  <2>1. /\ ~NoLocalTraining /\ l_idx[m] \in 1 .. Len(local_thresholds[m])
        /\ local_roundup[m] = l_idx[m] * local_round[m]
        /\ local_length <= global_roundup[m]
    BY DEF Meeting, Edges, Rounds
  <2>2. /\ l_idx[m] \in Nat /\ Len(local_thresholds[m]) \in Nat /\ local_round[m] \in Nat
        /\ local_length \in Nat
    BY <1>0, ThresholdType, ParameterAssumption DEF WindowTypeOK
  <2>3. local_length > 0
    BY <2>1, <2>2 DEF NoLocalTraining
  <2>4. /\ l_idx[m] * local_round[m] <= Len(local_thresholds[m]) * local_round[m]
        /\ Len(local_thresholds[m]) * local_round[m] \in Nat
    BY <2>1, <2>2, RoundProduct
  <2>5. Len(local_thresholds[m]) * local_round[m] <= local_length
    BY <2>3, TrainingAssumption
  <2>6. synpoint[p] = local_roundup[m] /\ synpoint[p] # 0
    BY <1>1, <1>3, <2>1, <2>2, <2>3, <2>4, <2>5
  <2>7. local_round[m] = 0
    <3>1. ~(synpoint[p] < local_roundup[m])
      BY <1>3, <2>6
    <3> QED BY <1>1, <2>0, <3>1
  <2>8. l_idx[m] * 0 = 0
    BY <2>2
  <2> QED BY <2>1, <2>6, <2>7, <2>8
<1> QED BY <1>1, <1>2, <1>3, <1>4, <1>5 DEF SameEdge

\* What the two steps of global training have in common: the machines of M go
\* on to a longer round, and change no parameter of their decades.
GlobalStep(M) ==
  /\ UNCHANGED <<windowVars, scan, localVars>>
  /\ pc' = [u \in Universes |-> IF \E m \in M : u = proc0[m] THEN "trained" ELSE pc[u]]
  /\ \A s \in Stargates : ~Remote(s) => gate'[s] = gate[s]
  /\ \A m \in M : /\ global_roundup'[m] \in Nat /\ global_roundup[m] <= global_roundup'[m]
                  /\ training_finished'[m] =>
                       training_finished[m] \/ global_roundup'[m] = Infinity
  /\ \A m \in Machines \ M : /\ epoch_length'[m] = epoch_length[m]
                             /\ global_roundup'[m] = global_roundup[m]
                             /\ global_reclassified'[m] = global_reclassified[m]
                             /\ training_finished'[m] = training_finished[m]

LEMMA GlobalMeeting ==
  ASSUME TypeOK, Meeting, NEW M \in SUBSET Machines, \A m \in M : TrainsGlobally(m), GlobalStep(M)
  PROVE  Meeting'
<1>0. WindowTypeOK /\ pc \in [Universes -> Labels]
      /\ \A v \in Universes : machine[v] \in Machines
      /\ \A n \in Machines : proc0[n] \in Universes /\ machine[proc0[n]] = n
  BY TopologyAssumption DEF TypeOK, ThreadTypeOK
<1>1. UNCHANGED <<synpoint, next_decade, next_epoch, decade_sync, epoch_sync, inbound_async,
                  decade_length, local_roundup, l_idx, local_reclassified>>
  BY DEF GlobalStep, windowVars, localVars
<1>2. \A v \in Universes : IF machine[v] \in M /\ v = proc0[machine[v]]
                           THEN pc[v] = "train global" /\ pc'[v] = "trained"
                           ELSE pc'[v] = pc[v]
  <2> SUFFICES ASSUME NEW v \in Universes
               PROVE  IF machine[v] \in M /\ v = proc0[machine[v]]
                      THEN pc[v] = "train global" /\ pc'[v] = "trained"
                      ELSE pc'[v] = pc[v]
    OBVIOUS
  <2>1. pc'[v] = IF \E m \in M : v = proc0[m] THEN "trained" ELSE pc[v]
    BY DEF GlobalStep
  <2>2. (\E m \in M : v = proc0[m]) <=> machine[v] \in M /\ v = proc0[machine[v]]
    BY <1>0
  <2> QED BY <2>1, <2>2 DEF TrainsGlobally
<1>3. /\ Together' /\ ExchangeTogether' /\ SameEdges'
      /\ \A v \in Universes : InWindow(v)' <=> InWindow(v)
      /\ \A v \in Universes : machine[v] \in M => AtEdge(v) /\ ~InWindow(v)
  <2>1. \A m \in M : pc[proc0[m]] \in {"train", "train global"}
    BY DEF TrainsGlobally
  <2>2. \A v \in Universes : \/ pc'[v] = pc[v]
                             \/ /\ pc[v] \in {"train", "train global"}
                                /\ pc'[v] \in {"train global", "trained"}
    BY <1>2
  <2>3. \A n \in Machines \ M : /\ decade_length'[n] = decade_length[n]
                                /\ epoch_length'[n] = epoch_length[n]
                                /\ local_roundup'[n] = local_roundup[n]
                                /\ global_roundup'[n] = global_roundup[n]
    BY <1>1 DEF GlobalStep
  <2>4. UNCHANGED <<windowVars, scan>>
    BY DEF GlobalStep
  <2> QED BY <2>1, <2>2, <2>3, <2>4, TrainingKeeps
<1>4. Bounds'
  <2> SUFFICES ASSUME NEW v \in Universes
               PROVE  next_epoch[v] <= global_roundup'[machine[v]]
    <3>1. \A v \in Universes : pc'[v] = "end" => pc[v] = "end"
      BY <1>2
    <3>2. Bounds
      BY DEF Meeting, Edges
    <3> QED BY <1>1, <1>3, <3>1, <3>2 DEF Bounds
  <2>1. next_epoch[v] <= global_roundup[machine[v]]
    BY DEF Meeting, Edges, Bounds
  <2>2. next_epoch[v] \in Nat /\ global_roundup[machine[v]] \in Nat
    BY <1>0, WindowFacts
  <2> QED BY <1>0, <2>1, <2>2 DEF GlobalStep
<1>5. Rounds'
  <2> SUFFICES ASSUME NEW n \in Machines
               PROVE  /\ \/ local_roundup[n] = Infinity
                         \/ /\ ~NoLocalTraining /\ l_idx[n] \in 1 .. Len(local_thresholds[n])
                            /\ local_roundup[n] = l_idx[n] * local_round[n]
                      /\ ~NoLocalTraining => local_length <= global_roundup'[n]
                      /\ training_finished'[n] =>
                           local_roundup[n] = Infinity /\ global_roundup'[n] = Infinity
    BY <1>1 DEF Rounds
  <2>1. /\ \/ local_roundup[n] = Infinity
           \/ /\ ~NoLocalTraining /\ l_idx[n] \in 1 .. Len(local_thresholds[n])
              /\ local_roundup[n] = l_idx[n] * local_round[n]
        /\ ~NoLocalTraining => local_length <= global_roundup[n]
        /\ training_finished[n] => local_roundup[n] = Infinity /\ global_roundup[n] = Infinity
    BY DEF Meeting, Edges, Rounds
  <2>2. CASE n \in M
    <3>1. local_roundup[n] = Infinity /\ ~training_finished[n]
      BY <2>2, AtGlobalTraining
    <3>2. local_length \in Nat /\ global_roundup[n] \in Nat
      BY <1>0, ParameterAssumption DEF WindowTypeOK
    <3> QED BY <2>1, <2>2, <3>1, <3>2 DEF GlobalStep
  <2>3. CASE n \notin M
    BY <2>1, <2>3 DEF GlobalStep
  <2> QED BY <2>2, <2>3
<1>6. Trainers'
  <2>1. Trainers
    BY DEF Meeting, Edges
  <2>2. \A v \in Universes : /\ pc'[v] = "train" => pc[v] = "train"
                             /\ pc'[v] = "train global" =>
                                  pc[v] = "train global" /\ machine[v] \in Machines \ M
    BY <1>0, <1>2, <2>1 DEF Trainers
  <2>3. \A n \in Machines \ M : global_roundup'[n] = global_roundup[n]
    BY DEF GlobalStep
  <2> QED BY <1>1, <2>1, <2>2, <2>3 DEF Trainers
<1>7. \A n \in Machines : TrainerDone(n)' <=> TrainerDone(n)
  <2> SUFFICES ASSUME NEW n \in Machines PROVE TrainerDone(n)' <=> TrainerDone(n)
    OBVIOUS
  <2>1. proc0[n] \in Universes /\ machine[proc0[n]] = n
    BY TopologyAssumption
  <2>2. \/ pc[proc0[n]] = "train global" /\ pc'[proc0[n]] = "trained"
        \/ pc'[proc0[n]] = pc[proc0[n]]
    BY <1>2, <2>1
  <2> QED BY <2>2 DEF TrainerDone
<1>8. Lengths'
  <2>1. \A n \in Machines : Pending(n)' <=> Pending(n)
    BY <1>1, <1>7 DEF Pending
  <2>2. \A s \in Stargates : SourceMachine(s) \in Machines
    BY TopologyAssumption DEF SourceMachine
  <2>3. Lengths
    BY DEF Meeting, Edges
  <2>4. \A s \in Stargates : ~Remote(s) => gate'[s] = gate[s]
    BY DEF GlobalStep
  <2> QED BY <1>0, <1>1, <2>1, <2>2, <2>3, <2>4 DEF Lengths
<1>9. FirstEdge'
  <2> SUFFICES ASSUME NEW v \in Universes, ~decade_sync[v], ~epoch_sync[v], TrainerDone(machine[v])
               PROVE  /\ ~local_reclassified[machine[v]] /\ ~global_reclassified'[machine[v]]
                      /\ pc'[proc0[machine[v]]] = "trained"
    BY <1>0, <1>1, <1>7 DEF FirstEdge
  <2>1. machine[v] \notin M
    BY <1>0, AtGlobalTraining
  <2>2. FirstEdge
    BY DEF Meeting, Edges
  <2> QED BY <1>0, <1>2, <2>1, <2>2 DEF FirstEdge, GlobalStep
<1> QED BY <1>3, <1>4, <1>5, <1>6, <1>8, <1>9 DEF Meeting, Edges

LEMMA TrainGlobalMeeting ==
  ASSUME TypeOK, Meeting, NEW u \in Universes, TrainGlobal(u)
  PROVE  Meeting'
<1> DEFINE m == machine[u]
<1>0. /\ m \in Machines /\ WindowTypeOK /\ pc \in [Universes -> Labels]
      /\ global_round \in Nat /\ pc[u] = "train global"
  BY TopologyAssumption, ParameterAssumption DEF TypeOK, ThreadTypeOK, TrainGlobal
<1>1. u = proc0[m] /\ machine[proc0[m]] = m
  BY <1>0 DEF Meeting, Edges, Trainers
<1>2. /\ UNCHANGED <<windowVars, scan, localVars, training_finished>>
      /\ pc' = [pc EXCEPT ![u] = "trained"]
      /\ \E thresh : ClassifyGlobal({m}, thresh, synpoint[u])
      /\ \E len : epoch_length' = [epoch_length EXCEPT ![m] = len]
      /\ global_roundup' = [global_roundup EXCEPT ![m] = @ + global_round]
      /\ global_reclassified' = [global_reclassified EXCEPT ![m] = TRUE]
  BY DEF TrainGlobal, Goto
<1> HIDE DEF m
<1>3. \A s \in Stargates : ~Remote(s) => gate'[s] = gate[s]
  BY <1>2, RemoteClassified
<1>4. pc' = [v \in Universes |-> IF \E n \in {m} : v = proc0[n] THEN "trained" ELSE pc[v]]
  BY <1>0, <1>1, <1>2
<1>5. \A n \in {m} : /\ global_roundup'[n] \in Nat /\ global_roundup[n] <= global_roundup'[n]
                     /\ training_finished'[n] => training_finished[n] \/ global_roundup'[n] = Infinity
                     /\ TrainsGlobally(n)
  <2>1. global_roundup[m] \in Nat
    BY <1>0 DEF WindowTypeOK
  <2>2. global_roundup'[m] = global_roundup[m] + global_round
    BY <1>0, <1>2 DEF WindowTypeOK
  <2>3. TrainsGlobally(m)
    BY <1>0, <1>1 DEF TrainsGlobally
  <2>4. global_roundup'[m] \in Nat /\ global_roundup[m] <= global_roundup'[m]
    <3>1. global_round \in Nat
      BY <1>0
    <3> QED BY <2>1, <2>2, <3>1
  <2>5. training_finished' = training_finished
    BY <1>2
  <2> QED BY <2>3, <2>4, <2>5
<1>6. \A n \in Machines \ {m} : /\ epoch_length'[n] = epoch_length[n]
                                /\ global_roundup'[n] = global_roundup[n]
                                /\ global_reclassified'[n] = global_reclassified[n]
                                /\ training_finished'[n] = training_finished[n]
  BY <1>0, <1>2 DEF WindowTypeOK
<1>7. {m} \in SUBSET Machines /\ UNCHANGED <<windowVars, scan, localVars>>
  BY <1>0, <1>2
<1>8. GlobalStep({m})
  BY <1>3, <1>4, <1>5, <1>6, <1>7 DEF GlobalStep
<1> QED BY <1>5, <1>7, <1>8, GlobalMeeting

LEMMA FinishGlobalMeeting ==
  ASSUME TypeOK, Meeting, FinishGlobal
  PROVE  Meeting'
<1>0. WindowTypeOK /\ endtime \in Nat /\ endtime < Infinity /\ Infinity \in Nat
  BY ParameterAssumption DEF TypeOK
<1>1. /\ UNCHANGED <<windowVars, scan, localVars>>
      /\ \A m \in Machines : TrainsGlobally(m)
      /\ \E thresh, now : ClassifyGlobal(Machines, thresh, now)
      /\ global_roundup' = [m \in Machines |-> Infinity]
      /\ pc' = [u \in Universes |-> IF pc[u] = "train global" THEN "trained" ELSE pc[u]]
  BY DEF FinishGlobal, TrainsGlobally
<1>2. \A s \in Stargates : ~Remote(s) => gate'[s] = gate[s]
  BY <1>1, RemoteClassified
<1>3. \A u \in Universes : pc[u] = "train global" <=> \E m \in Machines : u = proc0[m]
  <2>1. Trainers
    BY DEF Meeting, Edges
  <2>2. \A u \in Universes : machine[u] \in Machines /\ (pc[u] = "train global" => u = proc0[machine[u]])
    BY <2>1, TopologyAssumption DEF Trainers
  <2>3. \A m \in Machines : pc[proc0[m]] = "train global"
    BY <1>1 DEF TrainsGlobally
  <2> QED BY <2>2, <2>3
<1>4. pc' = [u \in Universes |-> IF \E m \in Machines : u = proc0[m] THEN "trained" ELSE pc[u]]
  BY <1>1, <1>3
<1>5. ASSUME NEW m \in Machines
      PROVE  global_roundup'[m] \in Nat /\ global_roundup[m] <= global_roundup'[m]
             /\ global_roundup'[m] = Infinity
  <2>1. synpoint[proc0[m]] = global_roundup[m] /\ synpoint[proc0[m]] <= endtime
    BY <1>1, AtGlobalTraining, TopologyAssumption
  <2>2. global_roundup[m] \in Nat /\ global_roundup'[m] = Infinity
    BY <1>0, <1>1 DEF WindowTypeOK
  <2>3. global_roundup[m] <= endtime
    BY <2>1
  <2>4. global_roundup[m] <= Infinity
    BY <1>0, <2>2, <2>3
  <2> QED BY <1>0, <2>2, <2>4
<1>6. GlobalStep(Machines)
  BY <1>1, <1>2, <1>4, <1>5 DEF GlobalStep
<1> QED BY <1>1, <1>6, GlobalMeeting

\* The threads of a machine leave the edge together, with the same new windows.
LEMMA TrainedMeeting ==
  ASSUME TypeOK, Meeting, NEW m \in Machines, Trained(m)
  PROVE  Meeting'
<1>0. /\ WindowTypeOK /\ pc \in [Universes -> Labels] /\ endtime \in Nat
      /\ \A v \in Universes : machine[v] \in Machines
      /\ proc0[m] \in Universes /\ machine[proc0[m]] = m
  BY TopologyAssumption, ParameterAssumption DEF TypeOK, ThreadTypeOK
<1>1. /\ UNCHANGED <<synpoint, decade_sync, epoch_sync, decade_length, local_roundup, l_idx,
                     local_reclassified, epoch_length, global_roundup, g_idx,
                     global_reclassified, training_finished, gate, rgate, scan>>
      /\ inbound_async' = Listed(m)
      /\ \A v \in Universes : machine[v] = m => pc[v] = "trained" /\ pc'[v] = "open"
      /\ \A v \in Universes : machine[v] # m => pc'[v] = pc[v]
  BY DEF Trained, trainVars, localVars, globalVars, gateVars, UniversesOf
<1>2. \A v \in Universes :
        /\ next_decade'[v] = IF machine[v] = m /\ Reclassified(m)
                                /\ (local_reclassified[m] \/ training_finished[m])
                             THEN Clip(synpoint[v] + decade_length[m], local_roundup[m])
                             ELSE next_decade[v]
        /\ next_epoch'[v] = IF machine[v] = m /\ Reclassified(m)
                               /\ (global_reclassified[m] \/ training_finished[m])
                            THEN Clip(synpoint[v] + epoch_length[m], global_roundup[m])
                            ELSE next_epoch[v]
  BY DEF Trained
<1>3. \A v \in Universes :
        /\ machine[v] = m => /\ AtEdge(v) /\ ~InWindow(v)
                             /\ ~AtEdge(v)' /\ InWindow(v)'
        /\ machine[v] # m => /\ AtEdge(v)' <=> AtEdge(v)
                             /\ InWindow(v)' <=> InWindow(v)
        /\ Exchange(v)' <=> Exchange(v)
  BY <1>1 DEF AtEdge, InWindow, WindowLabels, Exchange
<1>4. TrainerDone(m) /\ ~TrainerDone(m)' /\ pc'[proc0[m]] # "trained"
  BY <1>0, <1>1 DEF TrainerDone
<1>5. \A n \in Machines \ {m} : /\ TrainerDone(n)' <=> TrainerDone(n)
                                /\ pc'[proc0[n]] = pc[proc0[n]]
  BY <1>1, TopologyAssumption DEF TrainerDone
<1>6. Together'
  BY <1>3 DEF Meeting, Together, Mates
<1>7. ExchangeTogether'
  BY <1>1, <1>3 DEF Meeting, ExchangeTogether, Mates
<1>8. SameEdges'
  <2> SUFFICES ASSUME NEW x \in Universes, NEW y \in Mates(x)
               PROVE  /\ (InWindow(x)' <=> InWindow(y)') => SameEdge(x, y)'
                      /\ InWindow(x)' /\ ~InWindow(y)' => OneWindowBehind(x, y)'
    BY DEF SameEdges, Mates
  <2>1. y \in Universes /\ machine[x] = machine[y]
    BY DEF Mates
  <2>2. CASE machine[x] = m
    <3>1. SameEdge(x, y)
      BY <1>3, <2>1, <2>2 DEF Meeting, Edges, SameEdges
    <3>2. synpoint[x] = synpoint[y] /\ next_decade[x] = next_decade[y]
          /\ next_epoch[x] = next_epoch[y]
      BY <3>1 DEF SameEdge
    <3>3. next_decade'[x] = next_decade'[y]
      BY <1>2, <2>1, <2>2, <3>2
    <3>4. next_epoch'[x] = next_epoch'[y]
      BY <1>2, <2>1, <2>2, <3>2
    <3>5. SameEdge(x, y)'
      BY <1>1, <3>1, <3>3, <3>4 DEF SameEdge
    <3> QED BY <1>3, <2>1, <2>2, <3>5
  <2>3. CASE machine[x] # m
    <3>1. /\ next_decade'[x] = next_decade[x] /\ next_epoch'[x] = next_epoch[x]
          /\ next_decade'[y] = next_decade[y] /\ next_epoch'[y] = next_epoch[y]
      BY <1>2, <2>1, <2>3
    <3>2. /\ SameEdge(x, y)' <=> SameEdge(x, y)
          /\ OneWindowBehind(x, y)' <=> OneWindowBehind(x, y)
      BY <1>1, <3>1 DEF SameEdge, OneWindowBehind, NextDecade, NextEpoch, next_window
    <3> QED BY <1>3, <2>1, <2>3, <3>2 DEF Meeting, Edges, SameEdges
  <2> QED BY <2>2, <2>3
<1>9. ASSUME NEW v \in Universes, machine[v] = m
      PROVE  /\ synpoint[v] <= next_decade'[v] /\ synpoint[v] <= next_epoch'[v]
             /\ next_decade'[v] <= endtime /\ next_decade'[v] <= local_roundup[m]
             /\ next_epoch'[v] <= endtime /\ next_epoch'[v] <= global_roundup[m]
             /\ next_decade'[v] <= synpoint[v] + decade_length[m]
  <2>1. /\ synpoint[v] \in Nat /\ next_decade[v] \in Nat /\ next_epoch[v] \in Nat
        /\ decade_length[m] \in Nat /\ epoch_length[m] \in Nat
        /\ local_roundup[m] \in Nat /\ global_roundup[m] \in Nat
    BY <1>0 DEF WindowTypeOK
  <2>2. /\ synpoint[v] <= next_decade[v] /\ synpoint[v] <= next_epoch[v]
        /\ next_decade[v] <= endtime /\ next_decade[v] <= local_roundup[m]
        /\ next_epoch[v] <= endtime /\ next_epoch[v] <= global_roundup[m]
    BY <1>9 DEF Meeting, Edges, Bounds
  <2>3. \/ local_reclassified[m] /\ next_decade'[v] # next_decade[v]
        \/ local_reclassified[m]
        \/ next_decade[v] <= synpoint[v] + decade_length[m]
    BY <1>4, <1>9 DEF Meeting, Edges, Lengths, Pending
  <2> DEFINE a == synpoint[v] + decade_length[m]
             b == synpoint[v] + epoch_length[m]
  <2>4. a \in Nat /\ b \in Nat /\ synpoint[v] <= a /\ synpoint[v] <= b
    BY <2>1
  <2>5. synpoint[v] <= endtime /\ synpoint[v] <= local_roundup[m] /\ synpoint[v] <= global_roundup[m]
    BY <1>0, <2>1, <2>2
  <2>6. /\ \/ next_decade'[v] = Clip(a, local_roundup[m])
           \/ next_decade'[v] = next_decade[v]
        /\ local_reclassified[m] => next_decade'[v] = Clip(a, local_roundup[m])
        /\ \/ next_epoch'[v] = Clip(b, global_roundup[m])
           \/ next_epoch'[v] = next_epoch[v]
    BY <1>2, <1>9 DEF Reclassified
  <2>7. next_decade'[v] = next_decade[v] => local_reclassified[m] \/ next_decade[v] <= a
    BY <2>3
  <2> HIDE DEF a, b
  <2>8. /\ Clip(a, local_roundup[m]) \in Nat /\ Clip(a, local_roundup[m]) <= a
        /\ Clip(a, local_roundup[m]) <= endtime
        /\ Clip(a, local_roundup[m]) <= local_roundup[m]
        /\ synpoint[v] <= Clip(a, local_roundup[m])
    BY <2>1, <2>4, <2>5, ClipIs
  <2>9. /\ Clip(b, global_roundup[m]) \in Nat /\ Clip(b, global_roundup[m]) <= endtime
        /\ Clip(b, global_roundup[m]) <= global_roundup[m]
        /\ synpoint[v] <= Clip(b, global_roundup[m])
    BY <2>1, <2>4, <2>5, ClipIs
  <2>10. next_decade'[v] <= a
    BY <2>6, <2>7, <2>8
  <2> QED BY <2>2, <2>6, <2>8, <2>9, <2>10 DEF a
<1>10. Bounds'
  <2> SUFFICES ASSUME NEW v \in Universes
               PROVE  /\ synpoint[v] <= next_decade'[v] /\ synpoint[v] <= next_epoch'[v]
                      /\ next_decade'[v] <= endtime
                      /\ next_decade'[v] <= local_roundup[machine[v]]
                      /\ next_epoch'[v] <= endtime
                      /\ next_epoch'[v] <= global_roundup[machine[v]]
                      /\ pc'[v] = "end" => synpoint[v] = endtime
                      /\ ~InWindow(v)' /\ synpoint[v] = local_roundup[machine[v]]
                           /\ synpoint[v] # 0 => decade_sync[v]
    BY <1>1 DEF Bounds
  <2>1. CASE machine[v] = m
    BY <1>1, <1>3, <1>9, <2>1
  <2>2. CASE machine[v] # m
    BY <1>1, <1>2, <1>3, <2>2 DEF Meeting, Edges, Bounds
  <2> QED BY <2>1, <2>2
<1>11. Rounds'
  BY <1>1 DEF Meeting, Edges, Rounds
<1>12. Trainers'
  BY <1>1 DEF Meeting, Edges, Trainers
<1>13. Lengths'
  <2>1. ~Pending(m)' /\ \A n \in Machines \ {m} : Pending(n)' <=> Pending(n)
    BY <1>1, <1>4, <1>5 DEF Pending
  <2>2. \A v \in Universes : \/ Pending(machine[v])'
                             \/ next_decade'[v] <= synpoint[v] + decade_length[machine[v]]
    <3> SUFFICES ASSUME NEW v \in Universes, ~Pending(machine[v])'
                 PROVE  next_decade'[v] <= synpoint[v] + decade_length[machine[v]]
      OBVIOUS
    <3>1. CASE machine[v] = m
      BY <1>9, <3>1
    <3>2. CASE machine[v] # m
      BY <1>0, <1>2, <2>1, <3>2 DEF Meeting, Edges, Lengths
    <3> QED BY <3>1, <3>2
  <2>3. ASSUME NEW s \in Stargates, ~Remote(s)
        PROVE  /\ gate[s].in_sync => decade_length[SourceMachine(s)] <= min_delay[s]
               /\ Pending(SourceMachine(s))' \/ (s \in inbound_async' <=> ~gate[s].in_sync)
    <3>1. SourceMachine(s) \in Machines /\ SourceMachine(s) = TargetMachine(s)
          /\ InGate(s) = gate[s]
      BY <2>3, TopologyAssumption DEF SourceMachine, Remote, InGate
    <3>2. /\ gate[s].in_sync => decade_length[SourceMachine(s)] <= min_delay[s]
          /\ Pending(SourceMachine(s)) \/ (s \in inbound_async <=> ~gate[s].in_sync)
      BY <2>3 DEF Meeting, Edges, Lengths
    <3>3. s \in inbound_async' <=> IF SourceMachine(s) = m /\ Reclassified(m)
                                   THEN ~gate[s].in_sync ELSE s \in inbound_async
      BY <1>1, <3>1 DEF Listed
    <3>4. Pending(m) => Reclassified(m)
      BY DEF Pending, Reclassified
    <3> QED BY <2>1, <3>1, <3>2, <3>3, <3>4
  <2> QED BY <1>1, <2>2, <2>3 DEF Lengths
<1>14. FirstEdge'
  BY <1>0, <1>1, <1>4, <1>5 DEF Meeting, Edges, FirstEdge
<1> QED BY <1>6, <1>7, <1>8, <1>10, <1>11, <1>12, <1>13, <1>14 DEF Meeting, Edges


-----------------------------------------------------------------------------
(* The invariant holds.                                                    *)

LEMMA InitMeeting == Init => Meeting
<1> SUFFICES ASSUME Init PROVE Meeting
  OBVIOUS
<1>0. /\ endtime \in Nat \ {0} /\ endtime < Infinity /\ Infinity \in Nat
      /\ local_length \in Nat /\ global_length \in Nat /\ global_round \in Nat
      /\ \A v \in Universes : machine[v] \in Machines
      /\ \A m \in Machines : StartLocal(m) \in [thresh : Nat, training : BOOLEAN]
      /\ StartGlobal \in [thresh : Nat, training : BOOLEAN]
  BY TopologyAssumption, ParameterAssumption, StartType
<1>1. WindowTypeOK
  BY InitType DEF TypeOK
<1>2. \A v \in Universes : /\ pc[v] = "top" /\ synpoint[v] = 0
                           /\ ~AtEdge(v) /\ ~InWindow(v)
                           /\ ~decade_sync[v] /\ ~epoch_sync[v]
  BY DEF Init, AtEdge, InWindow, WindowLabels
<1>3. \A v \in Universes :
        /\ next_decade[v] = Clip(decade_length[machine[v]], local_roundup[machine[v]])
        /\ next_epoch[v] = Clip(epoch_length[machine[v]], global_roundup[machine[v]])
  BY DEF Init
<1>4. Together /\ ExchangeTogether
  BY <1>2 DEF Together, ExchangeTogether
<1>5. SameEdges
  <2> SUFFICES ASSUME NEW x \in Universes, NEW y \in Mates(x) PROVE SameEdge(x, y)
    BY <1>2 DEF SameEdges
  <2>1. y \in Universes /\ machine[y] = machine[x]
    BY DEF Mates
  <2>2. decade_sync[x] = decade_sync[y] /\ epoch_sync[x] = epoch_sync[y]
    BY <2>1 DEF Init
  <2> QED BY <1>2, <1>3, <2>1, <2>2 DEF SameEdge
<1>6. ASSUME NEW v \in Universes
      PROVE  /\ 0 <= next_decade[v] /\ 0 <= next_epoch[v]
             /\ next_decade[v] <= endtime /\ next_decade[v] <= local_roundup[machine[v]]
             /\ next_epoch[v] <= endtime /\ next_epoch[v] <= global_roundup[machine[v]]
             /\ next_decade[v] <= 0 + decade_length[machine[v]]
  <2>1. /\ decade_length[machine[v]] \in Nat /\ local_roundup[machine[v]] \in Nat
        /\ epoch_length[machine[v]] \in Nat /\ global_roundup[machine[v]] \in Nat
    BY <1>0, <1>1 DEF WindowTypeOK
  <2> DEFINE d == Clip(decade_length[machine[v]], local_roundup[machine[v]])
             e == Clip(epoch_length[machine[v]], global_roundup[machine[v]])
  <2>2. /\ d \in Nat /\ d <= endtime /\ d <= local_roundup[machine[v]]
        /\ d <= decade_length[machine[v]]
    BY <2>1, ClipIs
  <2>3. e \in Nat /\ e <= endtime /\ e <= global_roundup[machine[v]]
    BY <2>1, ClipIs
  <2>4. next_decade[v] = d /\ next_epoch[v] = e
    BY <1>3
  <2> HIDE DEF d, e
  <2>5. 0 <= d /\ 0 <= e /\ d <= 0 + decade_length[machine[v]]
    BY <2>1, <2>2, <2>3
  <2> QED BY <2>2, <2>3, <2>4, <2>5
<1>7. Bounds
  BY <1>2, <1>6 DEF Bounds
<1>8. Rounds
  <2> SUFFICES ASSUME NEW m \in Machines
               PROVE  /\ \/ local_roundup[m] = Infinity
                         \/ /\ ~NoLocalTraining /\ l_idx[m] \in 1 .. Len(local_thresholds[m])
                            /\ local_roundup[m] = l_idx[m] * local_round[m]
                      /\ ~NoLocalTraining => local_length <= global_roundup[m]
                      /\ training_finished[m] =>
                           local_roundup[m] = Infinity /\ global_roundup[m] = Infinity
    BY DEF Rounds
  <2>1. /\ local_roundup[m] = IF StartLocal(m).training THEN local_round[m] ELSE Infinity
        /\ global_roundup[m] = IF ~NoLocalTraining THEN local_length
                               ELSE IF NoGlobalTraining THEN Infinity ELSE global_round
        /\ l_idx[m] = 1
        /\ training_finished[m] <=> NoLocalTraining /\ NoGlobalTraining
    BY DEF Init
  <2>2. StartLocal(m).training => ~NoLocalTraining /\ local_thresholds[m] # <<>>
    BY DEF StartLocal
  <2>3. local_thresholds[m] \in Seq(Nat) /\ local_round[m] \in Nat
    BY ParameterAssumption
  <2>4. local_thresholds[m] # <<>> => 1 \in 1 .. Len(local_thresholds[m])
    BY <2>3
  <2>5. 1 * local_round[m] = local_round[m]
    BY <2>3
  <2>6. ~NoLocalTraining => local_length <= global_roundup[m]
    BY <1>0, <2>1
  <2> QED BY <2>1, <2>2, <2>4, <2>5, <2>6
<1>9. Trainers
  BY <1>2 DEF Trainers
<1>10. \A m \in Machines : ~TrainerDone(m)
  BY <1>2, TopologyAssumption DEF TrainerDone
<1>11. Lengths
  <2>1. ASSUME NEW s \in Stargates, ~Remote(s)
        PROVE  /\ gate[s].in_sync => decade_length[SourceMachine(s)] <= min_delay[s]
               /\ s \in inbound_async <=> ~gate[s].in_sync
    <3> DEFINE m == SourceMachine(s)
    <3>1. m \in Machines /\ s \in LocalGates(m)
      BY <2>1, TopologyAssumption DEF SourceMachine, LocalGates
    <3>2. gate[s] = Classify(Unclassified, LocalGates(m), StartLocal(m).thresh, 0)[s]
      BY <2>1 DEF Init
    <3>3. s \in inbound_async <=> ~gate[s].in_sync
      BY <2>1 DEF Init, InGate
    <3>4. Unclassified \in [Stargates -> GateType]
      BY DEF Unclassified, GateType
    <3>5. decade_length[m] = LocalLength(m, StartLocal(m))
      BY <3>1 DEF Init
    <3>6. PICK thresh \in Nat, training \in BOOLEAN :
            StartLocal(m) = [thresh |-> thresh, training |-> training]
      BY <1>0, <3>1
    <3> HIDE DEF m
    <3>7. ASSUME gate[s].in_sync PROVE decade_length[m] <= min_delay[s]
      <4>1. gate[s] = Classify(Unclassified, LocalGates(m), thresh, 0)[s]
        BY <3>2, <3>6
      <4>2. Classify(Unclassified, LocalGates(m), thresh, 0)[s].in_sync
        BY <3>7, <4>1
      <4>3. 0 \in Nat
        OBVIOUS
      <4>4. LocalLength(m, [thresh |-> thresh, training |-> training]) <= min_delay[s]
        BY <3>1, <3>4, <4>2, <4>3, DecadeBound
      <4> QED BY <3>5, <3>6, <4>4
    <3> QED BY <3>3, <3>7 DEF m
  <2> QED BY <1>2, <1>6, <2>1 DEF Lengths
<1>12. FirstEdge
  BY <1>0, <1>10 DEF FirstEdge
<1> QED BY <1>4, <1>5, <1>7, <1>8, <1>9, <1>11, <1>12 DEF Meeting, Edges

LEMMA NextMeeting == TypeOK /\ Meeting /\ [Next]_vars => Meeting'
<1> SUFFICES ASSUME TypeOK, Meeting, [Next]_vars PROVE Meeting'
  OBVIOUS
<1>1. ASSUME NEW u \in Universes, Thread(u) PROVE Meeting'
  <2>1. CASE Dispatch(u)
    BY <2>1, DispatchMeeting
  <2>2. CASE TrainLocal(u)
    BY <2>2, TrainLocalMeeting
  <2>3. CASE TrainGlobal(u)
    BY <2>3, TrainGlobalMeeting
  <2>4. CASE AdvanceWindow(u)
    BY <2>4, AdvanceMeeting
  <2>5. CASE ~Dispatch(u) /\ ~TrainLocal(u) /\ ~TrainGlobal(u) /\ ~AdvanceWindow(u)
    BY <1>1, <2>5, ThreadKeepsPlace, KeepPlace
  <2> QED BY <2>1, <2>2, <2>3, <2>4, <2>5
<1>2. ASSUME NEW m \in Machines, Barrier(m) PROVE Meeting'
  BY <1>2, BarrierMeeting
<1>3. ASSUME NEW m \in Machines, Trained(m) PROVE Meeting'
  BY <1>3, TrainedMeeting
<1>4. ASSUME NEW m \in Machines, Writer(m) PROVE Meeting'
  BY <1>4, OutsideMeeting DEF Writer, gateVars, threadVars
<1>5. ASSUME NEW n \in Machines, NEW m \in Machines, Reader(n, m) PROVE Meeting'
  BY <1>5, OutsideMeeting DEF Reader, gateVars, threadVars
<1>6. ASSUME Collective PROVE Meeting'
  BY <1>6, CollectiveMeeting, FinishGlobalMeeting DEF Collective
<1>7. ASSUME UNCHANGED vars PROVE Meeting'
  BY <1>7, OutsideMeeting DEF vars, gateVars, threadVars
<1> QED BY <1>1, <1>2, <1>3, <1>4, <1>5, <1>6, <1>7 DEF Next, Finished

(* The threads of a machine reach an edge of a window together, exchange    *)
(* messages there together or not at all, and have the same edges whenever  *)
(* they meet, although each computes them by itself; the windows end where  *)
(* the training rounds do; and a window is never longer than the delay of a *)
(* synchronous stargate inside the machine (run_continuation, training).    *)
THEOREM MeetingHolds == Spec => []Meeting
<1>1. Init => TypeOK /\ Meeting
  BY InitType, InitMeeting
<1>2. TypeOK /\ Meeting /\ [Next]_vars => (TypeOK /\ Meeting)'
  BY NextType, NextMeeting
<1> QED BY <1>1, <1>2, PTL DEF Spec

-----------------------------------------------------------------------------
(* The machines go from one epoch to the next together.  What they agree   *)
(* on is where the journey of each goes: the next epoch and the parameters *)
(* of global training with which it will get there.                        *)

\* How far the processor 0 of a machine is with an epoch.
Stage(m) ==
  LET p == proc0[m] IN
  IF pc[p] \in {"epoch", "epoch sent", "reduce"} THEN "sending"
  ELSE IF \/ pc[p] \in {"await", "reduced", "drain", "drain io", "mpi barrier"}
          \/ pc[p] = "scan" /\ scan[p].ret = "drain io" THEN "meeting"
  ELSE IF pc[p] \in {"drained", "train"} THEN "met"
  ELSE IF pc[p] = "train global" THEN "training"
  ELSE IF pc[p] = "trained" THEN "trained"
  ELSE "away"
AtEpoch(m) == ~InWindow(proc0[m]) /\ epoch_sync[proc0[m]]

Journey(m, e) == [epoch |-> e, length |-> epoch_length[m], round |-> g_idx[m],
                  roundup |-> global_roundup[m], finished |-> training_finished[m]]
Onward(m) == Clip(synpoint[proc0[m]] + epoch_length[m], global_roundup[m])
TrialAhead(m) ==
  LET i == IF StartingGlobal(m) THEN 1 ELSE g_idx[m] + 1 IN
  [epoch |-> Clip(synpoint[proc0[m]] + global_thresholds[i], global_roundup[m] + global_round),
   length |-> global_thresholds[i], round |-> i,
   roundup |-> global_roundup[m] + global_round, finished |-> training_finished[m]]
\* Until it leaves the meeting a machine is on its way to the epoch it has
\* reached; then to the next one, unless all have to finish the training first.
Expected(m) ==
  IF ~AtEpoch(m) THEN Journey(m, next_epoch[proc0[m]])
  ELSE IF Stage(m) \notin {"met", "training", "trained"} THEN Journey(m, synpoint[proc0[m]])
  ELSE IF Stage(m) = "trained" \/ synpoint[proc0[m]] # global_roundup[m]
  THEN Journey(m, Onward(m))
  ELSE IF LastGlobalRound(m) THEN Journey(m, synpoint[proc0[m]]) ELSE TrialAhead(m)

StageOK(m) ==
  /\ Stage(m) \in {"sending", "meeting"} => epoch_sync[proc0[m]]
  /\ AtEpoch(m) /\ ~(Stage(m) = "trained" /\ global_reclassified[m])
       => next_epoch[proc0[m]] = Onward(m)
  /\ Stage(m) = "trained" /\ global_reclassified[m] => epoch_sync[proc0[m]]
  /\ Stage(m) \in {"training", "trained"} /\ local_reclassified[m] /\ training_finished[m]
       => global_reclassified[m]
Stages == \A m \in Machines : StageOK(m)
MeetTogether == \A m, n \in Machines : Stage(m) = "meeting" => Stage(n) = "meeting"
SameJourney == \A m, n \in Machines : Expected(m) = Expected(n)
Agreement == Stages /\ MeetTogether /\ SameJourney

\* What a step leaves alone that is no step of this processor 0.
StageKept(m) ==
  /\ Stage(m)' = Stage(m)
  /\ InWindow(proc0[m])' <=> InWindow(proc0[m])

LEMMA JourneyKept ==
  ASSUME NEW m \in Machines, StageKept(m), UNCHANGED <<windowVars, trainVars>>
  PROVE  Expected(m)' = Expected(m) /\ (StageOK(m)' <=> StageOK(m))
<1>1. UNCHANGED <<synpoint, next_epoch, epoch_sync, epoch_length, global_roundup, g_idx,
                  local_reclassified, global_reclassified, training_finished>>
  BY DEF windowVars, trainVars, localVars, globalVars
<1>2. /\ AtEpoch(m)' <=> AtEpoch(m)
      /\ LastGlobalRound(m)' <=> LastGlobalRound(m)
      /\ Onward(m)' = Onward(m)
      /\ \A e : Journey(m, e)' = Journey(m, e)
      /\ TrialAhead(m)' = TrialAhead(m)
  BY <1>1 DEF StageKept, AtEpoch, LastGlobalRound, StartingGlobal, Onward, Journey, TrialAhead
<1> QED BY <1>1, <1>2 DEF StageKept, Expected, StageOK

LEMMA KeepAgreement ==
  ASSUME Agreement, \A m \in Machines : StageKept(m), UNCHANGED <<windowVars, trainVars>>
  PROVE  Agreement'
<1>1. \A m \in Machines : Expected(m)' = Expected(m) /\ (StageOK(m)' <=> StageOK(m))
  BY JourneyKept
<1>2. \A m \in Machines : Stage(m)' = Stage(m)
  BY DEF StageKept
<1> QED BY <1>1, <1>2 DEF Agreement, Stages, MeetTogether, SameJourney

\* Of one machine nothing has to agree.
LEMMA OneMachine ==
  ASSUME ~(Cardinality(Machines) > 1), NEW m \in Machines, NEW n \in Machines
  PROVE  m = n
<1>1. machine \in Surjection(Universes, Machines)
  <2>1. machine \in [Universes -> Machines] /\ \A k \in Machines : machine[proc0[k]] = k /\ proc0[k] \in Universes
    BY TopologyAssumption
  <2> QED BY <2>1 DEF Surjection
<1>2. IsFiniteSet(Machines)
  BY <1>1, FS_Surjection, TopologyAssumption
<1>3. Cardinality(Machines) \in Nat /\ Cardinality(Machines) # 0
  BY <1>2, FS_CardinalityType, FS_EmptySet
<1>4. Cardinality(Machines) = 1
  BY <1>3
<1>5. \E k : Machines = {k}
  BY <1>2, <1>4, FS_Singleton
<1> QED BY <1>5

\* The steps that a thread makes within a stage.
LEMMA ThreadKeepsStage ==
  ASSUME TypeOK, Meeting, NEW u \in Universes, Thread(u), NEW m \in Machines,
         u # proc0[m] \/ ~(Dispatch(u) \/ Collect(u)),
         ~TrainLocal(u), ~TrainGlobal(u), ~AdvanceWindow(u)
  PROVE  StageKept(m)
<1>0. /\ pc \in [Universes -> Labels] /\ scan \in [Universes -> ScanType]
      /\ proc0[m] \in Universes /\ machine[proc0[m]] = m
      /\ \A v \in Universes : scan[v].ret \in {"open", "sched", "update", "io", "drain io"}
  BY ScanSet, TopologyAssumption DEF TypeOK, ThreadTypeOK
<1>1. CASE u # proc0[m]
  <2>1. pc'[proc0[m]] = pc[proc0[m]] /\ scan'[proc0[m]] = scan[proc0[m]]
    <3>1. CASE Dispatch(u)
      BY <1>0, <1>1, <3>1 DEF Dispatch, Goto
    <3>2. CASE ~Dispatch(u)
      BY <1>0, <1>1, <3>2, ThreadKeepsPlace DEF PlaceKept
    <3> QED BY <3>1, <3>2
  <2> QED BY <2>1 DEF StageKept, Stage, InWindow, AtEdge
<1>2. CASE u = proc0[m]
  <2>1. InWindow(u)' <=> InWindow(u)
    BY <1>2, ThreadKeepsPlace DEF PlaceKept
  <2>2. CASE SendEpoch(u)
    BY <1>0, <1>2, <2>1, <2>2 DEF SendEpoch, Goto, StageKept, Stage
  <2>3. CASE Await(u) \/ DrainMail(u)
    BY <1>0, <1>2, <2>1, <2>3 DEF Await, DrainMail, TakeMail, Goto, StageKept, Stage
  <2>4. CASE OpenTimeline(u) \/ Pick(u)
    <3>1. \E t, ret : BeginScan(u, t, ret) /\ ret \in {"open", "sched"}
      BY <2>4 DEF OpenTimeline, Pick
    <3>2. pc[u] \in {"open", "sched"} /\ pc'[u] = "scan" /\ scan'[u].ret # "drain io"
      BY <2>4, <3>1, ScanStarted DEF OpenTimeline, Pick
    <3> QED BY <1>2, <2>1, <3>2 DEF StageKept, Stage
  <2>5. CASE ReadTime(u) \/ ReceiveMessages(u)
    <3>1. pc[u] = "scan" /\ pc' = pc
      BY <2>5 DEF ReadTime, ReceiveMessages
    <3>2. scan'[u].ret = scan[u].ret
      BY <2>5, TimeRead, MessagesReceived
    <3> QED BY <1>2, <2>1, <3>1, <3>2 DEF StageKept, Stage
  <2>6. CASE EndScan(u)
    BY <1>0, <1>2, <2>1, <2>6 DEF EndScan, Goto, StageKept, Stage
  <2>7. CASE Opened(u) \/ RunEvent(u) \/ RunEnd(u) \/ Interrupted(u) \/ Notify(u)
             \/ PollMail(u) \/ WaitMail(u)
    BY <1>0, <1>2, <2>1, <2>7 DEF Opened, RunEvent, RunEnd, Interrupted, Notify, PollMail,
         WaitMail, TakeMail, threadVars, Goto, StageKept, Stage
  <2>8. CASE UpdateTime(u)
    <3>1. PICK s \in ctx[u].out : SetTime(u, s)
      BY <2>8 DEF UpdateTime
    <3>2. /\ pc[u] = "update" /\ pc'[u] \in {"update", "scan", "notify"}
          /\ pc'[u] = "scan" => scan'[u].ret = "update"
      <4>1. CASE BeginScan(u, target[s], "update")
        BY <2>8, <4>1, ScanStarted DEF UpdateTime
      <4>2. CASE ~BeginScan(u, target[s], "update")
        <5>1. pc' = pc \/ pc' = [pc EXCEPT ![u] = "notify"]
          BY <3>1, <4>2 DEF SetTime, Goto
        <5> QED BY <1>0, <2>8, <5>1 DEF UpdateTime
      <4> QED BY <4>1, <4>2
    <3> QED BY <1>2, <2>1, <3>2 DEF StageKept, Stage
  <2>9. CASE HandleMail(u)
    <3>1. PICK d : (pc' = pc /\ scan' = scan) \/ BeginScan(u, d, pc[u])
      BY <2>9 DEF HandleMail, HandleNull
    <3>2. /\ pc[u] \in {"io", "drain io"}
          /\ \/ pc'[u] = pc[u]
             \/ pc'[u] = "scan" /\ scan'[u].ret = pc[u]
      BY <2>9, <3>1, ScanStarted DEF HandleMail
    <3> QED BY <1>2, <2>1, <3>2 DEF StageKept, Stage
  <2>10. CASE EndMail(u)
    <3>1. CASE pc[u] = "drain io"
      BY <1>0, <1>2, <2>1, <2>10, <3>1 DEF EndMail, AfterMail, Goto, StageKept, Stage
    <3>2. CASE pc[u] # "drain io" /\ ctx[u].cur # NoTimeline
      <4>1. BeginScan(u, ctx[u].cur, "sched")
        BY <2>10, <3>2 DEF EndMail, AfterMail
      <4>2. pc[u] = "io" /\ pc'[u] = "scan" /\ scan'[u].ret = "sched"
        BY <2>10, <3>2, <4>1, ScanStarted DEF EndMail
      <4> QED BY <1>2, <2>1, <4>2 DEF StageKept, Stage
    <3>3. CASE pc[u] # "drain io" /\ ctx[u].cur = NoTimeline
      BY <1>0, <1>2, <2>1, <2>10, <3>3 DEF EndMail, AfterMail, Goto, StageKept, Stage
    <3> QED BY <3>1, <3>2, <3>3
  <2> QED BY <1>2, <2>2, <2>3, <2>4, <2>5, <2>6, <2>7, <2>8, <2>9, <2>10 DEF Thread
<1> QED BY <1>1, <1>2

\* A step that moves one machine along, or not: what it has to show.
LEMMA MachineAgrees ==
  ASSUME Agreement, NEW m \in Machines,
         \A n \in Machines \ {m} : StageKept(n) /\ Expected(n)' = Expected(n)
                                   /\ (StageOK(n)' <=> StageOK(n)),
         StageOK(m)',
         \/ Expected(m)' = Expected(m)
         \/ ~(Cardinality(Machines) > 1),
         \/ Stage(m)' = "meeting" <=> Stage(m) = "meeting"
         \/ ~(Cardinality(Machines) > 1)
  PROVE  Agreement'
<1>1. Stages'
  <2>1. ASSUME NEW n \in Machines PROVE StageOK(n)'
    BY <2>1 DEF Agreement, Stages
  <2> QED BY <2>1 DEF Stages
<1>2. CASE ~(Cardinality(Machines) > 1)
  <2>1. \A n, k \in Machines : n = k
    BY <1>2, OneMachine
  <2>2. MeetTogether' /\ SameJourney'
    <3> SUFFICES ASSUME NEW n \in Machines, NEW k \in Machines
                 PROVE  /\ Stage(n)' = "meeting" => Stage(k)' = "meeting"
                        /\ Expected(n)' = Expected(k)'
      BY DEF MeetTogether, SameJourney
    <3>1. n = k
      BY <2>1
    <3> QED BY <3>1
  <2> QED BY <1>1, <2>2 DEF Agreement
<1>3. CASE Cardinality(Machines) > 1
  <2>1. \A n \in Machines : /\ Expected(n)' = Expected(n)
                            /\ Stage(n)' = "meeting" <=> Stage(n) = "meeting"
    BY <1>3 DEF StageKept
  <2> QED BY <1>1, <2>1 DEF Agreement, MeetTogether, SameJourney
<1> QED BY <1>2, <1>3

\* Processor 0 leaves the exchange inside its machine.
LEMMA ExchangeAgrees ==
  ASSUME TypeOK, Meeting, Agreement, NEW u \in Universes, Dispatch(u) \/ Collect(u)
  PROVE  Agreement'
<1> DEFINE m == machine[u]
<1>0. /\ pc \in [Universes -> Labels] /\ m \in Machines
      /\ \A n \in Machines : proc0[n] \in Universes /\ machine[proc0[n]] = n
  BY TopologyAssumption DEF TypeOK, ThreadTypeOK
<1>1. /\ UNCHANGED <<windowVars, trainVars, scan>>
      /\ pc[u] \in {"dispatch", "collect"}
      /\ \E l : pc' = [pc EXCEPT ![u] = l] /\ (l = "dispatched" \/ l = AfterLocalEdge(u))
  BY DEF Dispatch, Collect, Goto
<1> HIDE DEF m
<1>2. \A n \in Machines : u # proc0[n] => StageKept(n)
  <2> SUFFICES ASSUME NEW n \in Machines, u # proc0[n] PROVE StageKept(n)
    OBVIOUS
  <2>1. pc'[proc0[n]] = pc[proc0[n]] /\ scan'[proc0[n]] = scan[proc0[n]]
    BY <1>0, <1>1
  <2> QED BY <2>1 DEF StageKept, Stage, InWindow, AtEdge
<1>3. CASE u # proc0[m]
  <2>1. \A n \in Machines : StageKept(n)
    BY <1>0, <1>2, <1>3 DEF m
  <2> QED BY <1>1, <2>1, KeepAgreement
<1>4. CASE u = proc0[m]
  <2>1. \A n \in Machines \ {m} : StageKept(n) /\ Expected(n)' = Expected(n)
                                  /\ (StageOK(n)' <=> StageOK(n))
    <3> SUFFICES ASSUME NEW n \in Machines \ {m}
                 PROVE  StageKept(n) /\ Expected(n)' = Expected(n)
                        /\ (StageOK(n)' <=> StageOK(n))
      OBVIOUS
    <3>1. u # proc0[n]
      BY <1>0 DEF m
    <3>2. StageKept(n)
      BY <1>2, <3>1
    <3> QED BY <1>1, <3>2, JourneyKept
  <2>2. Stage(m) = "away" /\ ~InWindow(u)
    BY <1>1, <1>4 DEF Stage, InWindow, WindowLabels
  <2>3. /\ ~InWindow(u)' /\ Stage(m)' \in {"away", "sending", "met"}
        /\ Stage(m)' = "sending" => epoch_sync[u]
        /\ Stage(m)' = "met" => ~epoch_sync[u] \/ ~(Cardinality(Machines) > 1)
    <3>1. pc'[u] \in {"dispatched", "epoch", "train", "trained"}
      BY <1>0, <1>1 DEF AfterLocalEdge
    <3>2. u = proc0[machine[u]]
      BY <1>4 DEF m
    <3>3. /\ pc'[u] # "trained"
          /\ pc'[u] = "epoch" => epoch_sync[u]
          /\ pc'[u] = "train" => ~epoch_sync[u] \/ ~(Cardinality(Machines) > 1)
      BY <1>0, <1>1, <3>2 DEF AfterLocalEdge
    <3> QED BY <1>4, <3>1, <3>3 DEF Stage, InWindow, WindowLabels
  <2>4. UNCHANGED <<synpoint, next_epoch, epoch_sync, epoch_length, global_roundup, g_idx,
                    local_reclassified, global_reclassified, training_finished>>
    BY <1>1 DEF windowVars, trainVars, localVars, globalVars
  <2>5. AtEpoch(m)' <=> AtEpoch(m)
    BY <1>4, <2>2, <2>3, <2>4 DEF AtEpoch
  <2>6. StageOK(m)'
    <3>1. StageOK(m)
      BY <1>0 DEF Agreement, Stages
    <3>2. Onward(m)' = Onward(m)
      BY <2>4 DEF Onward
    <3> QED BY <1>4, <2>2, <2>3, <2>4, <2>5, <3>1, <3>2 DEF StageOK
  <2>7. Expected(m)' = Expected(m) \/ ~(Cardinality(Machines) > 1)
    <3> SUFFICES ASSUME Cardinality(Machines) > 1 PROVE Expected(m)' = Expected(m)
      OBVIOUS
    <3>1. \A e : Journey(m, e)' = Journey(m, e)
      BY <2>4 DEF Journey
    <3>2. AtEpoch(m) => Stage(m)' # "met"
      BY <1>4, <2>3 DEF AtEpoch
    <3> QED BY <1>4, <2>2, <2>3, <2>4, <2>5, <3>1, <3>2 DEF Expected
  <2> QED BY <1>0, <2>1, <2>2, <2>3, <2>6, <2>7, MachineAgrees
<1> QED BY <1>3, <1>4

LEMMA BarrierAgrees ==
  ASSUME TypeOK, Meeting, Agreement, NEW m \in Machines, Barrier(m)
  PROVE  Agreement'
<1>0. \A n \in Machines : proc0[n] \in Universes /\ machine[proc0[n]] = n
  BY TopologyAssumption
<1>1. PICK here, there0, there :
        /\ Meet(m, here, there0, there)
        /\ \/ here = "top" /\ there0 = "dispatch"
           \/ here = "dispatched" /\ there0 = "collect"
           \/ here = "epoch sent" /\ there0 = "reduce"
           \/ here = "reduced" /\ there0 = "drain"
           \/ here = "drained" /\ there0 = "train"
  BY DEF Barrier
<1>2. \A n \in Machines : IF n = m THEN pc[proc0[n]] = here /\ pc'[proc0[n]] = there0
                          ELSE pc'[proc0[n]] = pc[proc0[n]]
  BY <1>0, <1>1 DEF Meet, UniversesOf
<1>3. UNCHANGED <<windowVars, trainVars, scan>>
  BY <1>1 DEF Meet
<1>4. \A n \in Machines : StageKept(n)
  BY <1>1, <1>2, <1>3 DEF StageKept, Stage, InWindow, AtEdge, WindowLabels
<1> QED BY <1>3, <1>4, KeepAgreement

\* The reduction: all are at the epoch, and stay there.
LEMMA ReduceAgrees ==
  ASSUME TypeOK, Meeting, Agreement, Reduce
  PROVE  Agreement'
<1>0. \A n \in Machines : proc0[n] \in Universes /\ machine[proc0[n]] = n
  BY TopologyAssumption
<1>1. UNCHANGED <<synpoint, next_epoch, epoch_sync, epoch_length, global_roundup, g_idx,
                  local_reclassified, global_reclassified, training_finished>>
  BY DEF Reduce, windowVars, trainVars, localVars, globalVars
<1>2. \A n \in Machines : pc[proc0[n]] = "reduce" /\ pc'[proc0[n]] = "await"
  BY <1>0 DEF Reduce
<1>3. \A n \in Machines : /\ Stage(n) = "sending" /\ Stage(n)' = "meeting"
                          /\ ~InWindow(proc0[n]) /\ ~InWindow(proc0[n])'
  BY <1>2 DEF Stage, InWindow, WindowLabels
<1>4. ASSUME NEW n \in Machines
      PROVE  StageOK(n)' /\ Expected(n)' = Expected(n)
  <2>1. AtEpoch(n)' <=> AtEpoch(n)
    BY <1>1, <1>3 DEF AtEpoch
  <2>2. Onward(n)' = Onward(n) /\ \A e : Journey(n, e)' = Journey(n, e)
    BY <1>1 DEF Onward, Journey
  <2>3. StageOK(n)
    BY DEF Agreement, Stages
  <2> QED BY <1>1, <1>3, <2>1, <2>2, <2>3 DEF StageOK, Expected
<1> QED BY <1>3, <1>4 DEF Agreement, Stages, MeetTogether, SameJourney

\* What all machines know of one another where they all have to be.
LEMMA SamePlace ==
  ASSUME Agreement, NEW m \in Machines, NEW n \in Machines,
         Expected(m) = Journey(m, synpoint[proc0[m]]),
         Expected(n) = Journey(n, synpoint[proc0[n]])
  PROVE  /\ synpoint[proc0[m]] = synpoint[proc0[n]] /\ epoch_length[m] = epoch_length[n]
         /\ g_idx[m] = g_idx[n] /\ global_roundup[m] = global_roundup[n]
         /\ training_finished[m] = training_finished[n]
<1>1. Journey(m, synpoint[proc0[m]]) = Journey(n, synpoint[proc0[n]])
  BY DEF Agreement, SameJourney
<1> QED BY <1>1 DEF Journey

\* The barrier that ends the meeting: the same parameters take all machines to
\* the same next epoch.
LEMMA MpiBarrierAgrees ==
  ASSUME TypeOK, Meeting, Agreement, MpiBarrier
  PROVE  Agreement'
<1>0. \A n \in Machines : proc0[n] \in Universes /\ machine[proc0[n]] = n
  BY TopologyAssumption
<1>1. UNCHANGED <<synpoint, next_epoch, epoch_sync, epoch_length, global_roundup, g_idx,
                  local_reclassified, global_reclassified, training_finished>>
  BY DEF MpiBarrier, windowVars, trainVars, localVars, globalVars
<1>2. \A n \in Machines : pc[proc0[n]] = "mpi barrier" /\ pc'[proc0[n]] = "drained"
  BY <1>0 DEF MpiBarrier
<1>3. \A n \in Machines : /\ Stage(n) = "meeting" /\ Stage(n)' = "met"
                          /\ ~InWindow(proc0[n]) /\ ~InWindow(proc0[n])'
  BY <1>2 DEF Stage, InWindow, WindowLabels
<1>4. ASSUME NEW n \in Machines
      PROVE  StageOK(n)' /\ AtEpoch(n) /\ AtEpoch(n)'
             /\ Expected(n) = Journey(n, synpoint[proc0[n]])
  <2>1. StageOK(n)
    BY DEF Agreement, Stages
  <2>2. AtEpoch(n) /\ AtEpoch(n)'
    BY <1>1, <1>3, <2>1 DEF AtEpoch, StageOK
  <2>3. Onward(n)' = Onward(n)
    BY <1>1 DEF Onward
  <2> QED BY <1>1, <1>3, <2>1, <2>2, <2>3 DEF StageOK, Expected
<1>5. SameJourney'
  <2> SUFFICES ASSUME NEW m \in Machines, NEW n \in Machines PROVE Expected(m)' = Expected(n)'
    BY DEF SameJourney
  <2>1. /\ synpoint[proc0[m]] = synpoint[proc0[n]] /\ epoch_length[m] = epoch_length[n]
        /\ g_idx[m] = g_idx[n] /\ global_roundup[m] = global_roundup[n]
        /\ training_finished[m] = training_finished[n]
    BY <1>4, SamePlace
  <2>2. /\ StartingGlobal(m)' <=> StartingGlobal(n)'
        /\ LastGlobalRound(m)' <=> LastGlobalRound(n)'
    BY <1>1, <2>1 DEF StartingGlobal, LastGlobalRound
  <2>3. /\ Onward(m)' = Onward(n)' /\ TrialAhead(m)' = TrialAhead(n)'
        /\ Journey(m, Onward(m))' = Journey(n, Onward(n))'
        /\ Journey(m, synpoint[proc0[m]])' = Journey(n, synpoint[proc0[n]])'
    BY <1>1, <2>1, <2>2 DEF Onward, TrialAhead, Journey
  <2> QED BY <1>1, <1>3, <1>4, <2>1, <2>2, <2>3 DEF Expected
<1> QED BY <1>3, <1>4, <1>5 DEF Agreement, Stages, MeetTogether

\* A machine that moves along by the step of its processor 0 leaves the others.
LEMMA OthersKept ==
  ASSUME TypeOK, NEW m \in Machines, UNCHANGED scan,
         \A v \in Universes \ {proc0[m]} : pc'[v] = pc[v],
         UNCHANGED <<synpoint, next_epoch, epoch_sync>>,
         \A n \in Machines \ {m} :
           /\ epoch_length'[n] = epoch_length[n] /\ global_roundup'[n] = global_roundup[n]
           /\ g_idx'[n] = g_idx[n] /\ local_reclassified'[n] = local_reclassified[n]
           /\ global_reclassified'[n] = global_reclassified[n]
           /\ training_finished'[n] = training_finished[n]
  PROVE  \A n \in Machines \ {m} : StageKept(n) /\ Expected(n)' = Expected(n)
                                   /\ (StageOK(n)' <=> StageOK(n))
<1> SUFFICES ASSUME NEW n \in Machines \ {m}
             PROVE  StageKept(n) /\ Expected(n)' = Expected(n) /\ (StageOK(n)' <=> StageOK(n))
  OBVIOUS
<1>1. proc0[n] \in Universes \ {proc0[m]}
  BY TopologyAssumption
<1>2. pc'[proc0[n]] = pc[proc0[n]] /\ scan'[proc0[n]] = scan[proc0[n]]
  BY <1>1
<1>3. StageKept(n)
  BY <1>2 DEF StageKept, Stage, InWindow, AtEdge
<1>4. /\ AtEpoch(n)' <=> AtEpoch(n)
      /\ LastGlobalRound(n)' <=> LastGlobalRound(n)
      /\ Onward(n)' = Onward(n)
      /\ \A e : Journey(n, e)' = Journey(n, e)
      /\ TrialAhead(n)' = TrialAhead(n)
  BY <1>3 DEF StageKept, AtEpoch, LastGlobalRound, StartingGlobal, Onward, Journey, TrialAhead
<1> QED BY <1>3, <1>4 DEF StageKept, Expected, StageOK

LEMMA TrainLocalAgrees ==
  ASSUME TypeOK, Meeting, Agreement, NEW u \in Universes, TrainLocal(u)
  PROVE  Agreement'
<1> DEFINE m == machine[u]
<1>0. /\ m \in Machines /\ pc \in [Universes -> Labels] /\ WindowTypeOK
      /\ endtime \in Nat /\ Infinity \in Nat /\ endtime < Infinity
  BY TopologyAssumption, ParameterAssumption DEF TypeOK, ThreadTypeOK
<1>1. /\ pc[u] = "train" /\ u = proc0[m]
      /\ pc' = [pc EXCEPT ![u] = IF epoch_sync[u] /\ synpoint[u] = global_roundup[m]
                                 THEN "train global" ELSE "trained"]
      /\ UNCHANGED <<windowVars, scan, epoch_length, global_roundup, g_idx, training_finished>>
  BY LocallyTrained
<1>11. /\ \A n \in Machines \ {m} : /\ local_reclassified'[n] = local_reclassified[n]
                                    /\ global_reclassified'[n] = global_reclassified[n]
       /\ ~global_reclassified'[m]
  <2>1. global_reclassified' = [global_reclassified EXCEPT ![m] = FALSE]
    BY DEF TrainLocal
  <2>2. PICK b : local_reclassified' = [local_reclassified EXCEPT ![m] = b]
    BY DEF TrainLocal
  <2> QED BY <1>0, <2>1, <2>2 DEF WindowTypeOK
<1>12. local_reclassified'[m] => synpoint[u] = local_roundup[m]
  <2> SUFFICES ASSUME ~(decade_sync[u] /\ synpoint[u] = local_roundup[m])
               PROVE  ~local_reclassified'[m]
    OBVIOUS
  <2>1. local_reclassified' = [local_reclassified EXCEPT ![m] = FALSE]
    BY DEF TrainLocal
  <2> QED BY <1>0, <2>1 DEF WindowTypeOK
<1>2. UNCHANGED <<synpoint, next_epoch, epoch_sync>>
  BY <1>1 DEF windowVars
<1>3. local_reclassified'[m] => ~training_finished[m]
  <2>1. training_finished[m] => local_roundup[m] = Infinity
    BY <1>0 DEF Meeting, Edges, Rounds
  <2>2. synpoint[u] <= next_decade[u] /\ next_decade[u] <= endtime
    BY DEF Meeting, Edges, Bounds
  <2>3. synpoint[u] \in Nat /\ next_decade[u] \in Nat
    BY <1>0 DEF WindowTypeOK
  <2>4. synpoint[u] < Infinity
    BY <1>0, <2>2, <2>3
  <2> QED BY <1>12, <2>1, <2>3, <2>4
<1> HIDE DEF m
<1>4. \A v \in Universes \ {proc0[m]} : pc'[v] = pc[v]
  BY <1>0, <1>1
<1>5. pc'[u] = IF epoch_sync[u] /\ synpoint[u] = global_roundup[m] THEN "train global" ELSE "trained"
  BY <1>0, <1>1
<1>6. /\ Stage(m) = "met" /\ ~InWindow(u) /\ ~InWindow(u)'
      /\ Stage(m)' = IF epoch_sync[u] /\ synpoint[u] = global_roundup[m]
                     THEN "training" ELSE "trained"
  <2>1. proc0[m] = u
    BY <1>1
  <2>2. /\ pc[u] = "train"
        /\ pc'[u] = IF epoch_sync[u] /\ synpoint[u] = global_roundup[m]
                    THEN "train global" ELSE "trained"
    BY <1>1, <1>5
  <2> QED BY <2>1, <2>2 DEF Stage, InWindow, WindowLabels
<1>7. \A n \in Machines \ {m} : StageKept(n) /\ Expected(n)' = Expected(n)
                                /\ (StageOK(n)' <=> StageOK(n))
  BY <1>0, <1>1, <1>11, <1>2, <1>4, OthersKept
<1>8. /\ AtEpoch(m)' <=> AtEpoch(m)
      /\ LastGlobalRound(m)' <=> LastGlobalRound(m)
      /\ Onward(m)' = Onward(m)
      /\ \A e : Journey(m, e)' = Journey(m, e)
      /\ TrialAhead(m)' = TrialAhead(m)
  BY <1>1, <1>2, <1>6 DEF AtEpoch, LastGlobalRound, StartingGlobal, Onward, Journey, TrialAhead
<1>9. StageOK(m)'
  <2>1. StageOK(m)
    BY <1>0 DEF Agreement, Stages
  <2> QED BY <1>1, <1>11, <1>2, <1>3, <1>6, <1>8, <2>1 DEF StageOK
<1>10. Expected(m)' = Expected(m)
  BY <1>1, <1>2, <1>6, <1>8 DEF Expected, AtEpoch
<1> QED BY <1>0, <1>6, <1>7, <1>9, <1>10, MachineAgrees

LEMMA TrainGlobalAgrees ==
  ASSUME TypeOK, Meeting, Agreement, NEW u \in Universes, TrainGlobal(u)
  PROVE  Agreement'
<1> DEFINE m == machine[u]
           i == IF StartingGlobal(m) THEN 1 ELSE g_idx[m] + 1
<1>0. m \in Machines /\ pc \in [Universes -> Labels] /\ WindowTypeOK
  BY TopologyAssumption DEF TypeOK, ThreadTypeOK
<1>1. /\ pc[u] = "train global" /\ pc' = [pc EXCEPT ![u] = "trained"]
      /\ ~LastGlobalRound(m)
      /\ epoch_length' = [epoch_length EXCEPT ![m] = global_thresholds[i]]
      /\ g_idx' = [g_idx EXCEPT ![m] = i]
      /\ global_roundup' = [global_roundup EXCEPT ![m] = @ + global_round]
      /\ global_reclassified' = [global_reclassified EXCEPT ![m] = TRUE]
      /\ UNCHANGED <<windowVars, scan, localVars, training_finished>>
  BY DEF TrainGlobal, Goto
<1>2. u = proc0[m] /\ epoch_sync[u] /\ synpoint[u] = global_roundup[m]
  BY <1>1 DEF Meeting, Edges, Trainers
<1> HIDE DEF i, m
<1>3. UNCHANGED <<synpoint, next_epoch, epoch_sync, local_reclassified>>
  BY <1>1 DEF windowVars, localVars
<1>4. /\ \A v \in Universes \ {proc0[m]} : pc'[v] = pc[v]
      /\ pc'[u] = "trained"
  BY <1>0, <1>1, <1>2
<1>5. /\ \A n \in Machines \ {m} :
           /\ epoch_length'[n] = epoch_length[n] /\ global_roundup'[n] = global_roundup[n]
           /\ g_idx'[n] = g_idx[n] /\ local_reclassified'[n] = local_reclassified[n]
           /\ global_reclassified'[n] = global_reclassified[n]
           /\ training_finished'[n] = training_finished[n]
      /\ epoch_length'[m] = global_thresholds[i] /\ g_idx'[m] = i
      /\ global_roundup'[m] = global_roundup[m] + global_round
      /\ global_reclassified'[m] /\ training_finished'[m] = training_finished[m]
  BY <1>0, <1>1, <1>3 DEF WindowTypeOK
<1>6. /\ Stage(m) = "training" /\ Stage(m)' = "trained" /\ ~InWindow(u) /\ ~InWindow(u)'
      /\ AtEpoch(m) /\ AtEpoch(m)'
  BY <1>1, <1>2, <1>3, <1>4 DEF Stage, InWindow, WindowLabels, AtEpoch
<1>7. \A n \in Machines \ {m} : StageKept(n) /\ Expected(n)' = Expected(n)
                                /\ (StageOK(n)' <=> StageOK(n))
  BY <1>0, <1>1, <1>3, <1>4, <1>5, OthersKept
<1>8. StageOK(m)'
  BY <1>2, <1>3, <1>5, <1>6 DEF StageOK
<1>9. Expected(m)' = Expected(m)
  <2>1. Expected(m) = TrialAhead(m)
    BY <1>1, <1>2, <1>6 DEF Expected
  <2>2. Expected(m)' = Journey(m, Onward(m))'
    BY <1>6 DEF Expected
  <2>3. Onward(m)' = Clip(synpoint[u] + global_thresholds[i], global_roundup[m] + global_round)
    BY <1>2, <1>3, <1>5 DEF Onward
  <2>4. TrialAhead(m) =
          [epoch |-> Clip(synpoint[u] + global_thresholds[i], global_roundup[m] + global_round),
           length |-> global_thresholds[i], round |-> i,
           roundup |-> global_roundup[m] + global_round, finished |-> training_finished[m]]
    BY <1>2 DEF TrialAhead, i
  <2> QED BY <1>5, <2>1, <2>2, <2>3, <2>4 DEF Journey
<1> QED BY <1>0, <1>6, <1>7, <1>8, <1>9, MachineAgrees

\* Where all machines finish the training they are at the same epoch.
LEMMA FinishTogether ==
  ASSUME TypeOK, Meeting, Agreement, FinishGlobal
  PROVE  /\ \A n \in Machines : /\ Expected(n) = Journey(n, synpoint[proc0[n]])
                                /\ Stage(n) = "training" /\ AtEpoch(n)
         /\ \A n, k \in Machines : synpoint[proc0[n]] = synpoint[proc0[k]]
<1>1. ASSUME NEW n \in Machines
      PROVE  /\ Expected(n) = Journey(n, synpoint[proc0[n]])
             /\ Stage(n) = "training" /\ AtEpoch(n)
  <2>1. pc[proc0[n]] = "train global" /\ LastGlobalRound(n)
    BY DEF FinishGlobal
  <2>2. epoch_sync[proc0[n]] /\ synpoint[proc0[n]] = global_roundup[n]
    BY <2>1, TopologyAssumption DEF Meeting, Edges, Trainers
  <2>3. Stage(n) = "training" /\ AtEpoch(n)
    BY <2>1, <2>2 DEF Stage, AtEpoch, InWindow, WindowLabels
  <2> QED BY <2>1, <2>2, <2>3 DEF Expected
<1> QED BY <1>1, SamePlace

LEMMA FinishGlobalAgrees ==
  ASSUME TypeOK, Meeting, Agreement, FinishGlobal
  PROVE  Agreement'
<1>0. \A n \in Machines : proc0[n] \in Universes /\ machine[proc0[n]] = n
  BY TopologyAssumption
<1>1. PICK len : epoch_length' = [n \in Machines |-> len]
  BY DEF FinishGlobal
<1>2. /\ global_roundup' = [n \in Machines |-> Infinity]
      /\ training_finished' = [n \in Machines |-> TRUE]
      /\ global_reclassified' = [n \in Machines |-> TRUE]
      /\ UNCHANGED <<synpoint, next_epoch, epoch_sync, g_idx>>
      /\ \A n \in Machines : pc'[proc0[n]] = "trained"
  BY <1>0 DEF FinishGlobal, windowVars
<1>3. \A n \in Machines : Stage(n)' = "trained" /\ AtEpoch(n)'
  BY <1>2, FinishTogether DEF Stage, AtEpoch, InWindow, WindowLabels
<1>4. \A n \in Machines : StageOK(n)'
  BY <1>2, <1>3 DEF StageOK, AtEpoch
<1>5. SameJourney'
  <2> SUFFICES ASSUME NEW m \in Machines, NEW n \in Machines PROVE Expected(m)' = Expected(n)'
    BY DEF SameJourney
  <2>1. synpoint[proc0[m]] = synpoint[proc0[n]] /\ g_idx[m] = g_idx[n]
    BY FinishTogether, SamePlace
  <2>2. Onward(m)' = Onward(n)'
    BY <1>1, <1>2, <2>1 DEF Onward
  <2>3. Journey(m, Onward(m))' = Journey(n, Onward(n))'
    BY <1>1, <1>2, <2>1, <2>2 DEF Journey
  <2> QED BY <1>3, <2>3 DEF Expected
<1> QED BY <1>3, <1>4, <1>5 DEF Agreement, Stages, MeetTogether

LEMMA TrainedAgrees ==
  ASSUME TypeOK, Meeting, Agreement, NEW m \in Machines, Trained(m)
  PROVE  Agreement'
<1> DEFINE p == proc0[m]
<1>0. /\ p \in Universes /\ machine[p] = m
      /\ \A n \in Machines : proc0[n] \in Universes /\ machine[proc0[n]] = n
  BY TopologyAssumption
<1>1. /\ UNCHANGED <<synpoint, epoch_sync, trainVars, scan>>
      /\ \A v \in Universes : machine[v] = m => pc[v] = "trained" /\ pc'[v] = "open"
      /\ \A v \in Universes : machine[v] # m =>
           pc'[v] = pc[v] /\ next_epoch'[v] = next_epoch[v]
      /\ next_epoch'[p] = IF Reclassified(m) /\ (global_reclassified[m] \/ training_finished[m])
                          THEN Onward(m) ELSE next_epoch[p]
  BY <1>0 DEF Trained, UniversesOf, Onward
<1>2. UNCHANGED <<epoch_length, global_roundup, g_idx, local_reclassified,
                  global_reclassified, training_finished>>
  BY <1>1 DEF trainVars, localVars, globalVars
<1>3. /\ pc[p] = "trained" /\ pc'[p] = "open"
      /\ Stage(m) = "trained" /\ Stage(m)' = "away" /\ ~InWindow(p) /\ InWindow(p)' /\ ~AtEpoch(m)'
  BY <1>0, <1>1 DEF Stage, InWindow, AtEdge, WindowLabels, AtEpoch
<1>4. StageOK(m)
  BY DEF Agreement, Stages
<1>5. ASSUME NEW n \in Machines \ {m}
      PROVE  StageKept(n) /\ Expected(n)' = Expected(n) /\ (StageOK(n)' <=> StageOK(n))
  <2>1. pc'[proc0[n]] = pc[proc0[n]] /\ next_epoch'[proc0[n]] = next_epoch[proc0[n]]
    BY <1>0, <1>1
  <2>2. StageKept(n)
    BY <1>1, <2>1 DEF StageKept, Stage, InWindow, AtEdge
  <2>3. /\ AtEpoch(n)' <=> AtEpoch(n)
        /\ LastGlobalRound(n)' <=> LastGlobalRound(n)
        /\ Onward(n)' = Onward(n)
        /\ \A e : Journey(n, e)' = Journey(n, e)
        /\ TrialAhead(n)' = TrialAhead(n)
    BY <1>1, <1>2, <2>2 DEF StageKept, AtEpoch, LastGlobalRound, StartingGlobal, Onward,
         Journey, TrialAhead
  <2> QED BY <1>1, <1>2, <2>1, <2>2, <2>3 DEF StageKept, Expected, StageOK
<1>6. StageOK(m)'
  BY <1>3 DEF StageOK
<1>7. Expected(m)' = Expected(m)
  <2>1. Expected(m)' = Journey(m, next_epoch'[p])
    BY <1>2, <1>3 DEF Expected, Journey
  <2>2. Expected(m) = IF AtEpoch(m) THEN Journey(m, Onward(m)) ELSE Journey(m, next_epoch[p])
    BY <1>3 DEF Expected
  <2>3. CASE global_reclassified[m]
    <3>1. AtEpoch(m)
      BY <1>3, <1>4, <2>3 DEF StageOK, AtEpoch
    <3> QED BY <1>1, <2>1, <2>2, <2>3, <3>1 DEF Reclassified
  <2>4. CASE ~global_reclassified[m]
    <3>1. ~(Reclassified(m) /\ training_finished[m])
      BY <1>3, <1>4, <2>4 DEF StageOK, Reclassified
    <3>2. next_epoch'[p] = next_epoch[p]
      BY <1>1, <2>4, <3>1
    <3>3. AtEpoch(m) => next_epoch[p] = Onward(m)
      BY <1>4, <2>4 DEF StageOK
    <3> QED BY <2>1, <2>2, <3>2, <3>3
  <2> QED BY <2>3, <2>4
<1> QED BY <1>3, <1>5, <1>6, <1>7, MachineAgrees

LEMMA AdvanceAgrees ==
  ASSUME TypeOK, Meeting, Agreement, NEW u \in Universes, AdvanceWindow(u)
  PROVE  Agreement'
<1> DEFINE m == machine[u]
           w == next_window(u)
<1>0. /\ m \in Machines /\ Together
      /\ \A n \in Machines : proc0[n] \in Universes /\ machine[proc0[n]] = n
  BY TopologyAssumption DEF Meeting
<1>1. UNCHANGED <<epoch_length, global_roundup, g_idx, local_reclassified,
                  global_reclassified, training_finished, scan>>
  BY <1>0, WindowLeft DEF trainVars, localVars, globalVars
<1>2. /\ synpoint'[u] = w /\ epoch_sync'[u] = (w = next_epoch[u])
      /\ next_epoch'[u] = NextEpoch(u, w)
      /\ pc[u] = "sched" /\ pc'[u] \in {"top", "end"}
      /\ InWindow(u) /\ ~InWindow(u)'
      /\ \A v \in Universes \ {u} :
              /\ synpoint'[v] = synpoint[v] /\ next_epoch'[v] = next_epoch[v]
              /\ epoch_sync'[v] = epoch_sync[v] /\ pc'[v] = pc[v]
              /\ InWindow(v)' <=> InWindow(v)
  BY <1>0, WindowLeft
<1> HIDE DEF m, w
<1>3. ASSUME NEW n \in Machines, u # proc0[n]
      PROVE  StageKept(n) /\ Expected(n)' = Expected(n) /\ (StageOK(n)' <=> StageOK(n))
  <2>1. /\ pc'[proc0[n]] = pc[proc0[n]] /\ next_epoch'[proc0[n]] = next_epoch[proc0[n]]
        /\ synpoint'[proc0[n]] = synpoint[proc0[n]]
        /\ epoch_sync'[proc0[n]] = epoch_sync[proc0[n]]
        /\ InWindow(proc0[n])' <=> InWindow(proc0[n])
    BY <1>0, <1>2, <1>3
  <2>2. StageKept(n)
    BY <1>1, <2>1 DEF StageKept, Stage
  <2>3. /\ AtEpoch(n)' <=> AtEpoch(n)
        /\ LastGlobalRound(n)' <=> LastGlobalRound(n)
        /\ Onward(n)' = Onward(n)
        /\ \A e : Journey(n, e)' = Journey(n, e)
        /\ TrialAhead(n)' = TrialAhead(n)
    BY <1>1, <2>1 DEF AtEpoch, LastGlobalRound, StartingGlobal, Onward, Journey, TrialAhead
  <2> QED BY <1>1, <2>1, <2>2, <2>3 DEF StageKept, Expected, StageOK
<1>4. CASE u # proc0[m]
  <2>1. \A n \in Machines : u # proc0[n]
    BY <1>0, <1>4 DEF m
  <2>2. \A n \in Machines : StageKept(n) /\ Expected(n)' = Expected(n)
                            /\ (StageOK(n)' <=> StageOK(n))
    BY <1>3, <2>1
  <2> QED BY <2>2 DEF StageKept, Agreement, Stages, MeetTogether, SameJourney
<1>5. CASE u = proc0[m]
  <2>1. \A n \in Machines \ {m} : StageKept(n) /\ Expected(n)' = Expected(n)
                                  /\ (StageOK(n)' <=> StageOK(n))
    <3>1. \A n \in Machines \ {m} : u # proc0[n]
      BY <1>0 DEF m
    <3> QED BY <1>3, <3>1
  <2>2. Stage(m) = "away" /\ Stage(m)' = "away"
    BY <1>2, <1>5 DEF Stage
  <2>3. ~AtEpoch(m) /\ (AtEpoch(m)' <=> w = next_epoch[u])
    BY <1>2, <1>5 DEF AtEpoch
  <2>4. machine[u] = m
    BY DEF m
  <2>5. w = next_epoch[u] => next_epoch'[u] = Onward(m)'
    BY <1>1, <1>2, <1>5, <2>4 DEF NextEpoch, Onward
  <2>6. w # next_epoch[u] => next_epoch'[u] = next_epoch[u]
    BY <1>2 DEF NextEpoch
  <2>7. StageOK(m)'
    BY <1>5, <2>2, <2>3, <2>5 DEF StageOK
  <2>8. \A e : Journey(m, e)' = Journey(m, e)
    BY <1>1 DEF Journey
  <2>9. Expected(m) = Journey(m, next_epoch[u])
    BY <1>5, <2>3 DEF Expected
  <2>10. Expected(m)' = IF w = next_epoch[u] THEN Journey(m, synpoint[u])'
                        ELSE Journey(m, next_epoch[u])'
    BY <1>5, <2>2, <2>3 DEF Expected
  <2>11. Expected(m)' = Expected(m)
    BY <1>1, <1>2, <2>6, <2>9, <2>10 DEF Journey
  <2> QED BY <1>0, <2>1, <2>2, <2>7, <2>11, MachineAgrees
<1> QED BY <1>4, <1>5

LEMMA InitAgrees == Init => Agreement
<1> SUFFICES ASSUME Init PROVE Agreement
  OBVIOUS
<1>1. \A m \in Machines :
        /\ pc[proc0[m]] = "top" /\ ~epoch_sync[proc0[m]]
        /\ next_epoch[proc0[m]] = Clip(epoch_length[m], global_roundup[m])
  BY TopologyAssumption DEF Init
<1>2. \A m, n \in Machines :
        /\ epoch_length[m] = epoch_length[n] /\ global_roundup[m] = global_roundup[n]
        /\ g_idx[m] = g_idx[n] /\ training_finished[m] = training_finished[n]
  BY DEF Init
<1>3. \A m \in Machines : Stage(m) = "away" /\ ~AtEpoch(m)
  BY <1>1 DEF Stage, AtEpoch
<1>4. Stages /\ MeetTogether
  BY <1>3 DEF Stages, StageOK, MeetTogether
<1>5. SameJourney
  BY <1>1, <1>2, <1>3 DEF SameJourney, Expected, Journey
<1> QED BY <1>4, <1>5 DEF Agreement

LEMMA NextAgrees == TypeOK /\ Meeting /\ Agreement /\ [Next]_vars => Agreement'
<1> SUFFICES ASSUME TypeOK, Meeting, Agreement, [Next]_vars PROVE Agreement'
  OBVIOUS
<1>1. ASSUME NEW u \in Universes, Thread(u) PROVE Agreement'
  <2>1. CASE Dispatch(u) \/ Collect(u)
    BY <2>1, ExchangeAgrees
  <2>2. CASE TrainLocal(u)
    BY <2>2, TrainLocalAgrees
  <2>3. CASE TrainGlobal(u)
    BY <2>3, TrainGlobalAgrees
  <2>4. CASE AdvanceWindow(u)
    BY <2>4, AdvanceAgrees
  <2>5. CASE ~Dispatch(u) /\ ~Collect(u) /\ ~TrainLocal(u) /\ ~TrainGlobal(u)
             /\ ~AdvanceWindow(u)
    <3>1. \A m \in Machines : StageKept(m)
      BY <1>1, <2>5, ThreadKeepsStage
    <3>2. UNCHANGED <<windowVars, trainVars>>
      BY <1>1, <2>5, ThreadKeepsPlace
    <3> QED BY <3>1, <3>2, KeepAgreement
  <2> QED BY <2>1, <2>2, <2>3, <2>4, <2>5
<1>2. ASSUME NEW m \in Machines, Barrier(m) \/ Trained(m) PROVE Agreement'
  BY <1>2, BarrierAgrees, TrainedAgrees
<1>3. ASSUME UNCHANGED <<windowVars, trainVars, pc, scan>> PROVE Agreement'
  <2>1. \A m \in Machines : StageKept(m)
    BY <1>3 DEF StageKept, Stage, InWindow, AtEdge
  <2> QED BY <1>3, <2>1, KeepAgreement
<1>4. ASSUME NEW m \in Machines, NEW n \in Machines, Writer(m) \/ Reader(n, m)
      PROVE  Agreement'
  BY <1>3, <1>4 DEF Writer, Reader, threadVars
<1>5. ASSUME Collective PROVE Agreement'
  BY <1>5, ReduceAgrees, MpiBarrierAgrees, FinishGlobalAgrees DEF Collective
<1>6. ASSUME UNCHANGED vars PROVE Agreement'
  BY <1>3, <1>6 DEF vars, threadVars
<1> QED BY <1>1, <1>2, <1>4, <1>5, <1>6 DEF Next, Finished

(* The machines agree, without exchanging it, on where the epochs end and   *)
(* on the parameters of global training (epoch length, round, whether it is *)
(* finished), although each goes through a training round by itself: they   *)
(* are at the same epoch whenever they meet (synchronize_events, training). *)
THEOREM AgreementHolds == Spec => []Agreement
<1>1. Init => TypeOK /\ Meeting /\ Agreement
  BY InitType, InitMeeting, InitAgrees
<1>2. TypeOK /\ Meeting /\ Agreement /\ [Next]_vars => (TypeOK /\ Meeting /\ Agreement)'
  BY NextType, NextMeeting, NextAgrees
<1> QED BY <1>1, <1>2, PTL DEF Spec

(* SameWindow, of every system: threads that exchange messages at the edge  *)
(* of a decade have the same decade, and the processors 0 that exchange     *)
(* messages at the end of an epoch have the same epoch.                     *)
THEOREM SameWindowHolds == Spec => []SameWindow
<1>1. TypeOK /\ Meeting /\ Agreement => SameWindow
  <2> SUFFICES ASSUME TypeOK, Meeting, Agreement PROVE SameWindow
    OBVIOUS
  <2>1. ASSUME NEW u \in Universes, NEW v \in Universes, machine[u] = machine[v],
               {pc[u], pc[v]} \subseteq {"dispatch", "dispatched", "collect"}
        PROVE  synpoint[u] = synpoint[v] /\ next_decade[u] = next_decade[v]
    <3>1. ~InWindow(u) /\ ~InWindow(v) /\ v \in Mates(u)
      BY <2>1 DEF InWindow, WindowLabels, Mates
    <3> QED BY <3>1 DEF Meeting, Edges, SameEdges, SameEdge
  <2>2. ASSUME NEW m \in Machines, NEW n \in Machines,
               {pc[proc0[m]], pc[proc0[n]]}
                 \subseteq {"await", "reduced", "drain", "drain io", "mpi barrier"}
        PROVE  /\ synpoint[proc0[m]] = synpoint[proc0[n]]
               /\ next_epoch[proc0[m]] = next_epoch[proc0[n]]
    <3>1. \A k \in {m, n} : /\ Stage(k) = "meeting" /\ AtEpoch(k)
                            /\ next_epoch[proc0[k]] = Onward(k)
      <4> SUFFICES ASSUME NEW k \in {m, n}
                   PROVE  /\ Stage(k) = "meeting" /\ AtEpoch(k)
                          /\ next_epoch[proc0[k]] = Onward(k)
        OBVIOUS
      <4>1. pc[proc0[k]] \in {"await", "reduced", "drain", "drain io", "mpi barrier"}
        BY <2>2
      <4>2. Stage(k) = "meeting" /\ ~InWindow(proc0[k])
        BY <4>1 DEF Stage, InWindow, WindowLabels
      <4>3. StageOK(k)
        BY DEF Agreement, Stages
      <4> QED BY <4>2, <4>3 DEF StageOK, AtEpoch
    <3>2. \A k \in {m, n} : Expected(k) = Journey(k, synpoint[proc0[k]])
      BY <3>1 DEF Expected
    <3>3. /\ synpoint[proc0[m]] = synpoint[proc0[n]]
          /\ epoch_length[m] = epoch_length[n] /\ global_roundup[m] = global_roundup[n]
      BY <3>2, SamePlace
    <3> QED BY <3>1, <3>3 DEF Onward
  <2> QED BY <2>1, <2>2 DEF SameWindow
<1>2. Spec => [](TypeOK /\ Meeting /\ Agreement)
  BY TypeOKHolds, MeetingHolds, AgreementHolds, PTL
<1> QED BY <1>1, <1>2, PTL

-----------------------------------------------------------------------------
(* The invariant of the threads.                                           *)

\* The thread of u computes a bound, and goes on at r.
ScanFor(u, r) == pc[u] = "scan" /\ scan[u].ret = r
\* A timeline that still has to get its first bound of the window, and one that
\* is queued or on the processor.
IsOpening(u, t) == t \in ctx[u].open \/ (ScanFor(u, "open") /\ t = scan[u].tl)
IsActive(u, t) == \/ t \in runnable[u]
                  \/ t = ctx[u].cur
                  \/ ScanFor(u, "sched") /\ t = scan[u].tl

\* A timeline is in one place: active and running, blocked, or at the end of
\* the window; and its clock, its bound and the window are in this order.
TimelineOK(u, t) ==
  /\ IsActive(u, t) => state[t] = "RUNNING" /\ ~IsOpening(u, t)
  /\ IF InWindow(u) /\ ~IsOpening(u, t)
     THEN /\ lbts[t] <= next_window(u)
          /\ \/ state[t] = "RUNNING" /\ IsActive(u, t)
             \/ state[t] = "WAITING"
             \/ state[t] \in {"ROUND", "DONE"} /\ simclock[t] = next_window(u)
     ELSE /\ state[t] \in {"START", "ROUND", "DONE"}
          /\ lbts[t] = synpoint[u] /\ simclock[t] = synpoint[u]
  /\ simclock[t] <= lbts[t]

\* A thread handles the timelines and the mail of its own universe.
Owned(u) ==
  /\ ctx[u].cur \in TimelinesOf(u) \cup {NoTimeline}
  /\ ctx[u].open \subseteq TimelinesOf(u) /\ runnable[u] \subseteq TimelinesOf(u)
  /\ pc[u] = "scan" => /\ scan[u].tl \in TimelinesOf(u)
                       /\ scan[u].ret \in {"open", "sched", "update", "io"}
  /\ \A e \in Range(umailbox[u]) \cup Range(ctx[u].io) : universe[Dest(e)] = u

\* What a thread's place in the scheduling loop says of its variables.
Control(u) ==
  /\ pc[u] \in {"open", "sched"} \/ ScanFor(u, "open") \/ ~InWindow(u)
       => ctx[u].cur = NoTimeline
  /\ ~InWindow(u) => runnable[u] = {}
  /\ ScanFor(u, "open") => scan[u].tl \notin ctx[u].open
  /\ ScanFor(u, "sched") => /\ ctx[u].cur \in {NoTimeline, scan[u].tl}
                            /\ scan[u].tl \notin runnable[u]
  /\ ScanFor(u, "update") \/ ScanFor(u, "io") => state[scan[u].tl] = "WAITING"
  /\ pc[u] # "open" /\ ~ScanFor(u, "open") => ctx[u].open = {}
  /\ pc[u] = "run" => /\ ctx[u].cur \notin runnable[u]
                      /\ simclock[ctx[u].cur] <= ctx[u].horizon
                      /\ ctx[u].horizon <= lbts[ctx[u].cur]
  /\ pc[u] \in {"update", "notify"} \/ ScanFor(u, "update") =>
       /\ ctx[u].cur \in runnable[u] <=> simclock[ctx[u].cur] < lbts[ctx[u].cur]
       /\ \A s \in ctx[u].out : source[s] = ctx[u].cur /\ ~gate[s].in_sync
  /\ pc[u] = "io" \/ ScanFor(u, "io") => ctx[u].cur \notin runnable[u]

ThreadOK(u) == Owned(u) /\ Control(u) /\ \A t \in TimelinesOf(u) : TimelineOK(u, t)
Threads == \A u \in Universes : ThreadOK(u)

\* How far a timeline has promised to run: a channel time is never beyond that
\* and the delay, and the bound of a timeline never beyond a channel time.
Reached(t) == LET u == universe[t] IN
              IF pc[u] = "run" /\ ctx[u].cur = t THEN ctx[u].horizon ELSE simclock[t]
Gates ==
  \A s \in Stargates :
    /\ gate[s].time <= Reached(source[s]) + min_delay[s]
    /\ ~InGate(s).in_sync => lbts[target[s]] <= InGate(s).time

\* The bound a thread has computed so far lies between the old bound and what
\* the stargates read so far allow.
ScanOK(u) ==
  LET t == scan[u].tl IN
  /\ lbts[t] <= scan[u].low /\ scan[u].low <= next_window(u)
  /\ scan[u].todo \subseteq InboundAsync(t)
  /\ \A s \in InboundAsync(t) \ scan[u].todo : scan[u].low <= InGate(s).time
Scans == \A u \in Universes : pc[u] = "scan" => ScanOK(u)

\* The receiving ends of the stargates from other machines are listed where
\* they are asynchronous, except while a classification is to be taken over.
RemoteListed ==
  \A s \in RemoteGates :
    \/ Stage(TargetMachine(s)) = "trained" /\ global_reclassified[TargetMachine(s)]
    \/ s \in inbound_async <=> ~rgate[s].in_sync

Scheduling == Threads /\ Gates /\ Scans /\ RemoteListed

-----------------------------------------------------------------------------
(* What the steps of the other threads leave alone.                        *)

\* Nothing that concerns the scheduling loop of v changes; at an edge its
\* thread may go on, and its mail may come and go.
Kept(v) ==
  /\ pc'[v] = pc[v] \/ {pc[v], pc'[v]} \cap WindowLabels = {}
  /\ scan'[v] = scan[v] /\ runnable'[v] = runnable[v]
  /\ ctx'[v].cur = ctx[v].cur /\ ctx'[v].open = ctx[v].open
  /\ ctx'[v].out = ctx[v].out /\ ctx'[v].horizon = ctx[v].horizon
  /\ \A e \in Range(umailbox'[v]) \cup Range(ctx'[v].io) :
       e \in Range(umailbox[v]) \cup Range(ctx[v].io) \/ universe[Dest(e)] = v
  /\ synpoint'[v] = synpoint[v]
  /\ InWindow(v) => /\ next_window(v)' = next_window(v)
                    /\ \A s \in Stargates : universe[source[s]] = v =>
                         gate'[s].in_sync = gate[s].in_sync
  /\ \A t \in TimelinesOf(v) :
       state'[t] = state[t] /\ simclock'[t] = simclock[t] /\ lbts'[t] = lbts[t]

LEMMA KeepThread ==
  ASSUME TypeOK, NEW v \in Universes, ThreadOK(v), Kept(v)
  PROVE  ThreadOK(v)'
<1> USE DEF Kept
<1>1. /\ pc[v] = "scan" => scan[v].tl \in TimelinesOf(v) /\ scan[v].ret # "drain io"
      /\ ctx[v].cur \in TimelinesOf(v) \cup {NoTimeline}
      /\ pc[v] \in {"run", "update", "notify"} => ctx[v].cur \in Timelines
      /\ pc[v] = "scan" /\ scan[v].ret = "update" => ctx[v].cur \in Timelines
  BY DEF ThreadOK, Owned, TypeOK, Running
<1>2. TimelinesOf(v) \subseteq Timelines /\ NoTimeline \notin Timelines
  BY TopologyAssumption DEF TimelinesOf, NoTimeline
<1>3. \A r : ScanFor(v, r)' <=> ScanFor(v, r)
  BY DEF ScanFor, WindowLabels
<1>4. InWindow(v)' <=> InWindow(v)
  BY DEF InWindow, AtEdge, WindowLabels
<1>5. \A t : /\ IsOpening(v, t)' <=> IsOpening(v, t)
             /\ IsActive(v, t)' <=> IsActive(v, t)
  BY <1>3 DEF IsOpening, IsActive
<1>6. Owned(v)'
  BY DEF ThreadOK, Owned, WindowLabels
<1>7. \A t \in TimelinesOf(v) : TimelineOK(v, t)'
  BY <1>4, <1>5 DEF ThreadOK, TimelineOK
<1>8. Control(v)'
  <2>1. \A l \in WindowLabels : pc'[v] = l <=> pc[v] = l
    BY DEF WindowLabels
  <2>2. \A l \in {"open", "scan", "sched", "run", "update", "notify", "io"} :
          pc'[v] = l <=> pc[v] = l
    BY <2>1 DEF WindowLabels
  <2>3. pc[v] \in WindowLabels /\ pc[v] # "scan" => InWindow(v)
    BY DEF InWindow, AtEdge
  <2>4. \A s \in ctx[v].out : s \in Stargates
    BY ContextSet DEF TypeOK, ThreadTypeOK
  <2>5. Control(v)
    BY DEF ThreadOK
  <2>6. (pc[v] \in {"update", "notify"} \/ ScanFor(v, "update"))' =>
          /\ ctx'[v].cur \in runnable'[v] <=> simclock'[ctx'[v].cur] < lbts'[ctx'[v].cur]
          /\ \A s \in ctx'[v].out : source[s] = ctx'[v].cur /\ ~gate'[s].in_sync
    <3> SUFFICES ASSUME pc[v] \in {"update", "notify"} \/ ScanFor(v, "update")
                 PROVE  /\ ctx'[v].cur \in runnable'[v] <=>
                             simclock'[ctx'[v].cur] < lbts'[ctx'[v].cur]
                        /\ \A s \in ctx'[v].out : source[s] = ctx'[v].cur /\ ~gate'[s].in_sync
      BY <1>3, <2>2
    <3>1. ctx[v].cur \in TimelinesOf(v)
      BY <1>1, <1>2 DEF ScanFor
    <3>2. InWindow(v)
      BY <1>1 DEF ScanFor, InWindow, AtEdge, WindowLabels
    <3>3. universe[ctx[v].cur] = v
      BY <3>1 DEF TimelinesOf
    <3>4. /\ ctx[v].cur \in runnable[v] <=> simclock[ctx[v].cur] < lbts[ctx[v].cur]
          /\ \A s \in ctx[v].out : source[s] = ctx[v].cur /\ ~gate[s].in_sync
      BY <2>5 DEF Control
    <3> QED BY <2>4, <3>1, <3>2, <3>3, <3>4
  <2>7. pc'[v] = "run" =>
          /\ ctx'[v].cur \notin runnable'[v]
          /\ simclock'[ctx'[v].cur] <= ctx'[v].horizon
          /\ ctx'[v].horizon <= lbts'[ctx'[v].cur]
    BY <1>1, <1>2, <2>2, <2>5 DEF Control
  <2>8. (ScanFor(v, "update") \/ ScanFor(v, "io"))' => state'[scan'[v].tl] = "WAITING"
    BY <1>1, <1>3, <2>5 DEF Control, ScanFor
  <2> QED BY <1>3, <1>4, <2>2, <2>5, <2>6, <2>7, <2>8 DEF Control
<1> QED BY <1>6, <1>7, <1>8 DEF ThreadOK

\* Types of what the invariant speaks about.
LEMMA SchedulingFacts ==
  ASSUME TypeOK
  PROVE  /\ \A t \in Timelines : /\ simclock[t] \in Nat /\ lbts[t] \in Nat
                                 /\ Reached(t) \in Nat /\ universe[t] \in Universes
         /\ \A s \in Stargates : /\ gate[s].time \in Nat /\ rgate[s].time \in Nat
                                 /\ InGate(s).time \in Nat /\ min_delay[s] \in Nat
                                 /\ source[s] \in Timelines /\ target[s] \in Timelines
                                 /\ TargetMachine(s) \in Machines /\ SourceMachine(s) \in Machines
         /\ \A u \in Universes : /\ synpoint[u] \in Nat /\ next_window(u) \in Nat
                                 /\ scan[u].low \in Nat /\ ctx[u].horizon \in Nat
                                 /\ scan[u].todo \in SUBSET Stargates
                                 /\ ctx[u].out \in SUBSET Stargates
         /\ \A u \in Universes : \A t \in TimelinesOf(u) :
              t \in Timelines /\ universe[t] = u /\ t # NoTimeline
<1>1. \A s \in Stargates : gate[s] \in GateType /\ rgate[s] \in GateType
  BY DEF TypeOK, TimelineTypeOK
<1>2. \A u \in Universes : ctx[u] \in ContextType /\ scan[u] \in ScanType
  BY DEF TypeOK, ThreadTypeOK
<1>3. \A u \in Universes : synpoint[u] \in Nat /\ next_window(u) \in Nat
  BY WindowFacts DEF TypeOK
<1>4. \A s \in Stargates : /\ source[s] \in Timelines /\ target[s] \in Timelines
                           /\ TargetMachine(s) \in Machines /\ SourceMachine(s) \in Machines
                           /\ min_delay[s] \in Nat
  BY TopologyAssumption DEF TargetMachine, SourceMachine
<1>5. \A t \in Timelines : simclock[t] \in Nat /\ lbts[t] \in Nat /\ universe[t] \in Universes
  BY TopologyAssumption DEF TypeOK, TimelineTypeOK
<1>6. \A u \in Universes : /\ ctx[u].horizon \in Nat /\ ctx[u].out \in SUBSET Stargates
  BY <1>2 DEF ContextType
<1>7. \A u \in Universes : scan[u].low \in Nat /\ scan[u].todo \in SUBSET Stargates
  BY <1>2 DEF ScanType
<1>8. \A t \in Timelines : Reached(t) \in Nat
  BY <1>5, <1>6 DEF Reached
<1>9. \A s \in Stargates : /\ gate[s].time \in Nat /\ rgate[s].time \in Nat
                           /\ InGate(s).time \in Nat
  BY <1>1 DEF GateType, InGate
<1>10. \A u \in Universes : \A t \in TimelinesOf(u) :
         t \in Timelines /\ universe[t] = u /\ t # NoTimeline
  BY TopologyAssumption DEF TimelinesOf, NoTimeline
<1> QED BY <1>3, <1>4, <1>5, <1>6, <1>7, <1>8, <1>9, <1>10

\* A bound being computed stays within what the stargates allow if their times
\* do not go back.
LEMMA KeepScan ==
  ASSUME TypeOK, TypeOK', NEW v \in Universes, ThreadOK(v), pc[v] = "scan", ScanOK(v), Kept(v),
         \A s \in Stargates : target[s] \in TimelinesOf(v) =>
            /\ s \in inbound_async' <=> s \in inbound_async
            /\ InGate(s).time <= InGate(s)'.time
  PROVE  ScanOK(v)'
<1>1. scan[v].tl \in TimelinesOf(v) /\ InWindow(v)
  BY DEF ThreadOK, Owned, InWindow, AtEdge, WindowLabels
<1>2. InboundAsync(scan[v].tl)' = InboundAsync(scan[v].tl)
  BY <1>1 DEF InboundAsync, Kept
<1>3. /\ scan'[v] = scan[v] /\ next_window(v)' = next_window(v)
      /\ lbts'[scan[v].tl] = lbts[scan[v].tl]
  BY <1>1 DEF Kept
<1>4. \A s \in InboundAsync(scan[v].tl) \ scan[v].todo : scan[v].low <= InGate(s)'.time
  <2> SUFFICES ASSUME NEW s \in InboundAsync(scan[v].tl) \ scan[v].todo
               PROVE  scan[v].low <= InGate(s)'.time
    OBVIOUS
  <2>1. s \in Stargates /\ target[s] \in TimelinesOf(v)
    BY <1>1 DEF InboundAsync
  <2>2. scan[v].low <= InGate(s).time /\ InGate(s).time <= InGate(s)'.time
    BY <2>1 DEF ScanOK
  <2>3. scan[v].low \in Nat /\ InGate(s).time \in Nat
    BY <2>1, SchedulingFacts
  <2>4. gate'[s] \in GateType /\ rgate'[s] \in GateType
    BY <2>1 DEF TypeOK, TimelineTypeOK
  <2>5. InGate(s)'.time \in Nat
    BY <2>4 DEF GateType, InGate
  <2> QED BY <2>2, <2>3, <2>5
<1> QED BY <1>2, <1>3, <1>4 DEF ScanOK

LEMMA ReachedKept ==
  ASSUME NEW t \in Timelines, Kept(universe[t])
  PROVE  Reached(t)' = Reached(t)
<1>1. pc'[universe[t]] = "run" <=> pc[universe[t]] = "run"
  BY DEF Kept, WindowLabels
<1>2. universe[t] \in Universes /\ t \in TimelinesOf(universe[t])
  BY TopologyAssumption DEF TimelinesOf
<1> QED BY <1>1, <1>2 DEF Reached, Kept

\* A step that keeps all threads, and the stargates.
LEMMA KeepScheduling ==
  ASSUME TypeOK, TypeOK', Scheduling, \A v \in Universes : Kept(v),
         UNCHANGED <<gate, rgate, inbound_async, global_reclassified>>,
         \A m \in Machines : Stage(m) = "trained" => Stage(m)' = "trained"
  PROVE  Scheduling'
<1>1. Threads'
  BY KeepThread DEF Scheduling, Threads
<1>2. \A s : InGate(s)' = InGate(s)
  BY DEF InGate
<1>3. \A t \in Timelines : Reached(t)' = Reached(t) /\ lbts'[t] = lbts[t]
  BY ReachedKept, TopologyAssumption DEF Kept, TimelinesOf
<1>4. Gates'
  BY <1>2, <1>3, TopologyAssumption DEF Scheduling, Gates
<1>5. Scans'
  <2> SUFFICES ASSUME NEW v \in Universes, pc'[v] = "scan" PROVE ScanOK(v)'
    BY DEF Scans
  <2>1. pc[v] = "scan" /\ ThreadOK(v)
    BY DEF Kept, WindowLabels, Scheduling, Threads
  <2>2. ScanOK(v)
    BY <2>1 DEF Scheduling, Scans
  <2>3. \A s \in Stargates : InGate(s).time <= InGate(s)'.time
    BY <1>2, SchedulingFacts
  <2> QED BY <2>1, <2>2, <2>3, KeepScan
<1>6. RemoteListed'
  <2>1. \A s \in RemoteGates : s \in Stargates /\ TargetMachine(s) \in Machines
    BY SchedulingFacts DEF RemoteGates
  <2> QED BY <2>1 DEF Scheduling, RemoteListed
<1> QED BY <1>1, <1>4, <1>5, <1>6 DEF Scheduling

-----------------------------------------------------------------------------
(* Steps at an edge, and outside the threads.                              *)

LEMMA BarrierScheduling ==
  ASSUME TypeOK, TypeOK', Scheduling, NEW m \in Machines, Barrier(m)
  PROVE  Scheduling'
<1>1. PICK here, there0, there :
        /\ Meet(m, here, there0, there)
        /\ \/ here = "top" /\ there0 = "dispatch" /\ there = "dispatch"
           \/ here = "dispatched" /\ there0 = "collect" /\ there = "collect"
           \/ here = "epoch sent" /\ there0 = "reduce" /\ there = "reduced"
           \/ here = "reduced" /\ there0 = "drain" /\ there = "drain"
           \/ here = "drained" /\ there0 = "train" /\ there = "trained"
  BY DEF Barrier
<1>2. \A v \in Universes : IF machine[v] = m
                           THEN pc[v] = here /\ pc'[v] \in {there0, there}
                           ELSE pc'[v] = pc[v]
  BY <1>1 DEF Meet, UniversesOf
<1>3. UNCHANGED <<tmlnVars, gateVars, umailbox, windowVars, trainVars, ctx, scan, runnable>>
  BY <1>1 DEF Meet, mailVars
<1>4. ASSUME NEW v \in Universes PROVE Kept(v)
  <2>1. pc'[v] = pc[v] \/ {pc[v], pc'[v]} \cap WindowLabels = {}
    BY <1>1, <1>2 DEF WindowLabels
  <2> QED BY <1>3, <2>1 DEF Kept, tmlnVars, gateVars, windowVars, next_window
<1>5. \A n \in Machines : Stage(n) = "trained" => Stage(n)' = "trained"
  <2> SUFFICES ASSUME NEW n \in Machines, Stage(n) = "trained" PROVE Stage(n)' = "trained"
    OBVIOUS
  <2>1. proc0[n] \in Universes /\ machine[proc0[n]] = n
    BY TopologyAssumption
  <2>2. pc[proc0[n]] = "trained"
    BY DEF Stage
  <2>3. pc'[proc0[n]] = "trained"
    BY <1>1, <1>2, <2>1, <2>2
  <2> QED BY <2>3 DEF Stage
<1> QED BY <1>3, <1>4, <1>5, KeepScheduling DEF gateVars, windowVars, trainVars, globalVars

\* A step of one thread at an edge that moves only messages.
LEMMA EdgeScheduling ==
  ASSUME TypeOK, TypeOK', Scheduling, NEW u \in Universes, NEW l \in Labels,
         l \notin WindowLabels, pc[u] \notin WindowLabels \cup {"trained"},
         pc' = [pc EXCEPT ![u] = l],
         UNCHANGED <<simclock, lbts, state, gateVars, windowVars, trainVars, scan, runnable>>,
         \A v \in Universes : Range(umailbox'[v]) \subseteq Range(umailbox[v]),
         \A v \in Universes : ctx'[v] = ctx[v]
           \/ /\ ctx'[v].cur = ctx[v].cur /\ ctx'[v].open = ctx[v].open
              /\ ctx'[v].out = ctx[v].out /\ ctx'[v].horizon = ctx[v].horizon
              /\ Range(ctx'[v].io) \subseteq Range(ctx[v].io) \cup Range(umailbox[v])
  PROVE  Scheduling'
<1>0. pc \in [Universes -> Labels]
  BY DEF TypeOK, ThreadTypeOK
<1>1. ASSUME NEW v \in Universes PROVE Kept(v)
  <2>1. pc'[v] = pc[v] \/ {pc[v], pc'[v]} \cap WindowLabels = {}
    BY <1>0
  <2>2. UNCHANGED <<gate, synpoint, next_decade, next_epoch>>
    BY DEF gateVars, windowVars
  <2>3. \A e \in Range(umailbox'[v]) \cup Range(ctx'[v].io) :
          e \in Range(umailbox[v]) \cup Range(ctx[v].io)
    OBVIOUS
  <2>4. /\ ctx'[v].cur = ctx[v].cur /\ ctx'[v].open = ctx[v].open
        /\ ctx'[v].out = ctx[v].out /\ ctx'[v].horizon = ctx[v].horizon
    OBVIOUS
  <2> QED BY <2>1, <2>2, <2>3, <2>4 DEF Kept, next_window
<1>2. \A n \in Machines : Stage(n) = "trained" => Stage(n)' = "trained"
  BY <1>0, TopologyAssumption DEF Stage
<1> QED BY <1>1, <1>2, KeepScheduling DEF gateVars, windowVars, trainVars, globalVars

LEMMA ExchangeScheduling ==
  ASSUME TypeOK, TypeOK', Scheduling, NEW u \in Universes,
         Dispatch(u) \/ Collect(u) \/ SendEpoch(u) \/ Await(u)
  PROVE  Scheduling'
<1>0. AfterLocalEdge(u) \in {"epoch", "train", "trained"}
  BY DEF AfterLocalEdge
<1>1. PICK l \in {"dispatched", "epoch", "train", "trained", "epoch sent", "reduced"} :
        pc' = [pc EXCEPT ![u] = l]
  BY <1>0 DEF Dispatch, Collect, SendEpoch, Await, Goto
<1>5. l \in Labels /\ l \notin WindowLabels
  BY DEF Labels, WindowLabels
<1>2. pc[u] \notin WindowLabels \cup {"trained"}
  BY DEF Dispatch, Collect, SendEpoch, Await, WindowLabels
<1>3. UNCHANGED <<simclock, lbts, state, gateVars, windowVars, trainVars, scan, runnable,
                  umailbox, ctx>>
  BY DEF Dispatch, Collect, SendEpoch, Await, tmlnVars, mailVars
<1>4. \A v \in Universes : Range(umailbox'[v]) \subseteq Range(umailbox[v]) /\ ctx'[v] = ctx[v]
  BY <1>3
<1> QED BY <1>1, <1>2, <1>3, <1>4, <1>5, EdgeScheduling

LEMMA CollectiveScheduling ==
  ASSUME TypeOK, TypeOK', Scheduling, Reduce \/ MpiBarrier
  PROVE  Scheduling'
<1>1. \A v \in Universes : \/ pc'[v] = pc[v]
                           \/ pc[v] \in {"reduce", "mpi barrier"} /\ pc'[v] \in {"await", "drained"}
  <2> SUFFICES ASSUME NEW v \in Universes
               PROVE  \/ pc'[v] = pc[v]
                      \/ pc[v] \in {"reduce", "mpi barrier"} /\ pc'[v] \in {"await", "drained"}
    OBVIOUS
  <2>1. machine[v] \in Machines
    BY TopologyAssumption
  <2> QED BY <2>1 DEF Reduce, MpiBarrier
<1>2. UNCHANGED <<tmlnVars, gateVars, umailbox, windowVars, trainVars, ctx, scan, runnable>>
  BY DEF Reduce, MpiBarrier, mailVars
<1>3. ASSUME NEW v \in Universes PROVE Kept(v)
  <2>1. pc'[v] = pc[v] \/ {pc[v], pc'[v]} \cap WindowLabels = {}
    BY <1>1 DEF WindowLabels
  <2> QED BY <1>2, <2>1 DEF Kept, tmlnVars, gateVars, windowVars, next_window
<1>4. \A n \in Machines : Stage(n) = "trained" => Stage(n)' = "trained"
  BY <1>1, <1>2, TopologyAssumption DEF Stage
<1> QED BY <1>2, <1>3, <1>4, KeepScheduling DEF gateVars, windowVars, trainVars, globalVars

\* Steps that touch neither the threads nor the stargates: the mail of a
\* universe may grow by messages for its timelines.
LEMMA OutsideScheduling ==
  ASSUME TypeOK, TypeOK', Scheduling,
         UNCHANGED <<simclock, lbts, state, gateVars, windowVars, trainVars, threadVars>>,
         \A v \in Universes : \A e \in Range(umailbox'[v]) :
            e \in Range(umailbox[v]) \/ universe[Dest(e)] = v
  PROVE  Scheduling'
<1>1. UNCHANGED <<pc, ctx, scan, runnable, gate, rgate, synpoint, next_decade, next_epoch,
                  inbound_async, global_reclassified>>
  BY DEF threadVars, gateVars, windowVars, trainVars, globalVars
<1>2. \A v \in Universes : Kept(v)
  BY <1>1 DEF Kept, next_window
<1>3. \A n \in Machines : Stage(n) = "trained" => Stage(n)' = "trained"
  BY <1>1 DEF Stage
<1> QED BY <1>1, <1>2, <1>3, KeepScheduling

LEMMA AppendRange ==
  ASSUME NEW S, NEW q \in Seq(S), NEW x \in S
  PROVE  \A e \in Range(Append(q, x)) : e \in Range(q) \/ e = x
BY DEF Range

LEMMA ReaderScheduling ==
  ASSUME TypeOK, TypeOK', Scheduling, NEW n \in Machines, NEW m \in Machines, Reader(n, m)
  PROVE  Scheduling'
<1>0. umailbox \in [Universes -> Seq(MessageType)]
  BY DEF TypeOK, MessageTypeOK
<1>1. PICK e \in Receivable(Head(net[<<n, m>>])) :
        \/ umailbox' = [umailbox EXCEPT ![universe[target[e.sg]]] = Append(@, e)]
        \/ umailbox' = umailbox
  BY DEF Reader
<1>2. e \in MessageType
  <2>1. net[<<n, m>>] \in Seq(BatchType) /\ net[<<n, m>>] # <<>>
    BY DEF Reader, TypeOK, MessageTypeOK
  <2>2. Head(net[<<n, m>>]) \in BatchType
    BY <2>1, SequenceType
  <2> QED BY <1>1, <2>2 DEF BatchType, Receivable
<1>3. universe[target[e.sg]] \in Universes
  BY <1>2, TopologyAssumption DEF MessageType
<1>4. \A v \in Universes : \A x \in Range(umailbox'[v]) :
        x \in Range(umailbox[v]) \/ universe[Dest(x)] = v
  <2> SUFFICES ASSUME NEW v \in Universes, NEW x \in Range(umailbox'[v]), x \notin Range(umailbox[v])
               PROVE  universe[Dest(x)] = v
    OBVIOUS
  <2>1. v = universe[target[e.sg]] /\ umailbox'[v] = Append(umailbox[v], e)
    BY <1>0, <1>1, <1>3
  <2>2. x = e
    BY <1>0, <1>2, <2>1, AppendRange
  <2> QED BY <2>1, <2>2 DEF Dest
<1>5. UNCHANGED <<simclock, lbts, state, gateVars, windowVars, trainVars, threadVars>>
  BY DEF Reader, tmlnVars
<1> QED BY <1>4, <1>5, OutsideScheduling

-----------------------------------------------------------------------------
(* Steps of one thread.                                                    *)

\* A step of u's thread leaves the other threads and their timelines alone,
\* except that it may put mail into their mailboxes.
OnlyThread(u) ==
  /\ \A v \in Universes \ {u} :
       /\ pc'[v] = pc[v] /\ scan'[v] = scan[v]
       /\ runnable'[v] = runnable[v] /\ ctx'[v] = ctx[v]
       /\ \A e \in Range(umailbox'[v]) : e \in Range(umailbox[v]) \/ universe[Dest(e)] = v
  /\ \A t \in Timelines \ TimelinesOf(u) :
       state'[t] = state[t] /\ simclock'[t] = simclock[t] /\ lbts'[t] = lbts[t]
  /\ UNCHANGED <<windowVars, trainVars>>
  /\ \A s \in Stargates : /\ gate'[s].in_sync = gate[s].in_sync
                          /\ rgate'[s].in_sync = rgate[s].in_sync
                          /\ InGate(s).time <= InGate(s)'.time
  /\ pc[u] # "trained"

LEMMA StepKeeps ==
  ASSUME NEW u \in Universes, OnlyThread(u)
  PROVE  /\ \A v \in Universes \ {u} : Kept(v)
         /\ \A t \in Timelines \ TimelinesOf(u) : Reached(t)' = Reached(t)
         /\ \A s \in Stargates : InGate(s)'.in_sync = InGate(s).in_sync
         /\ \A t : InboundAsync(t)' = InboundAsync(t)
         /\ UNCHANGED <<synpoint, next_decade, next_epoch, inbound_async, global_reclassified>>
         /\ \A v : next_window(v)' = next_window(v)
         /\ \A n \in Machines : Stage(n) = "trained" => Stage(n)' = "trained"
<1>1. /\ UNCHANGED <<synpoint, next_decade, next_epoch, inbound_async, global_reclassified>>
      /\ \A v : next_window(v)' = next_window(v)
  BY DEF OnlyThread, windowVars, trainVars, globalVars, next_window
<1>2. ASSUME NEW v \in Universes \ {u} PROVE Kept(v)
  <2>1. \A t \in TimelinesOf(v) : t \in Timelines \ TimelinesOf(u)
    BY DEF TimelinesOf
  <2> QED BY <1>1, <2>1 DEF OnlyThread, Kept
<1>3. \A t \in Timelines \ TimelinesOf(u) : Reached(t)' = Reached(t)
  BY <1>2, ReachedKept, TopologyAssumption DEF TimelinesOf
<1>4. \A s \in Stargates : InGate(s)'.in_sync = InGate(s).in_sync
  BY DEF OnlyThread, InGate
<1>5. \A t : InboundAsync(t)' = InboundAsync(t)
  BY <1>1 DEF InboundAsync
<1>6. \A n \in Machines : Stage(n) = "trained" => Stage(n)' = "trained"
  BY TopologyAssumption DEF OnlyThread, Stage
<1> QED BY <1>1, <1>2, <1>3, <1>4, <1>5, <1>6

LEMMA StepScheduling ==
  ASSUME TypeOK, TypeOK', Scheduling, NEW u \in Universes, OnlyThread(u),
         ThreadOK(u)', pc'[u] = "scan" => ScanOK(u)', Gates'
  PROVE  Scheduling'
<1>1. Threads'
  <2> SUFFICES ASSUME NEW v \in Universes PROVE ThreadOK(v)'
    BY DEF Threads
  <2> QED BY StepKeeps, KeepThread DEF Scheduling, Threads
<1>2. Scans'
  <2> SUFFICES ASSUME NEW v \in Universes \ {u}, pc'[v] = "scan" PROVE ScanOK(v)'
    BY DEF Scans
  <2>1. pc[v] = "scan" /\ ThreadOK(v) /\ Kept(v)
    BY StepKeeps DEF OnlyThread, Scheduling, Threads
  <2>2. ScanOK(v)
    BY <2>1 DEF Scheduling, Scans
  <2>3. UNCHANGED inbound_async /\ \A s \in Stargates : InGate(s).time <= InGate(s)'.time
    BY StepKeeps DEF OnlyThread
  <2> QED BY <2>1, <2>2, <2>3, KeepScan
<1>3. RemoteListed'
  <2>1. \A s \in RemoteGates : s \in Stargates /\ TargetMachine(s) \in Machines
    BY SchedulingFacts DEF RemoteGates
  <2> QED BY <2>1, StepKeeps DEF Scheduling, RemoteListed, OnlyThread
<1> QED BY <1>1, <1>2, <1>3 DEF Scheduling

\* The channel times while the sending ends stay as they are: a timeline may
\* go on, and get a bound that they allow.
LEMMA StepGates ==
  ASSUME TypeOK, TypeOK', Scheduling, NEW u \in Universes, OnlyThread(u), UNCHANGED gate,
         \A t \in TimelinesOf(u) : Reached(t) <= Reached(t)',
         \A s \in Stargates : target[s] \in TimelinesOf(u) /\ ~InGate(s).in_sync =>
            lbts'[target[s]] <= InGate(s)'.time
  PROVE  Gates'
<1> SUFFICES ASSUME NEW s \in Stargates
             PROVE  /\ gate'[s].time <= Reached(source[s])' + min_delay[s]
                    /\ ~InGate(s)'.in_sync => lbts'[target[s]] <= InGate(s)'.time
  BY DEF Gates
<1>1. /\ source[s] \in Timelines /\ target[s] \in Timelines /\ gate[s].time \in Nat
      /\ Reached(source[s]) \in Nat /\ min_delay[s] \in Nat /\ InGate(s).time \in Nat
      /\ lbts[target[s]] \in Nat
  BY SchedulingFacts
<1>2. /\ gate[s].time <= Reached(source[s]) + min_delay[s]
      /\ ~InGate(s).in_sync => lbts[target[s]] <= InGate(s).time
  BY DEF Scheduling, Gates
<1>3. Reached(source[s]) <= Reached(source[s])' /\ Reached(source[s])' \in Nat
  <2>1. simclock'[source[s]] \in Nat
    BY <1>1 DEF TypeOK, TimelineTypeOK
  <2>2. ctx'[universe[source[s]]].horizon \in Nat
    BY <1>1, TopologyAssumption, ContextSet DEF TypeOK, ThreadTypeOK
  <2>3. Reached(source[s])' \in Nat
    BY <2>1, <2>2 DEF Reached
  <2> QED BY <1>1, <2>3, StepKeeps
<1>4. ~InGate(s)'.in_sync => lbts'[target[s]] <= InGate(s)'.time
  <2>1. InGate(s)'.time \in Nat /\ InGate(s).time <= InGate(s)'.time
    <3>1. gate'[s] \in GateType /\ rgate'[s] \in GateType
      BY DEF TypeOK, TimelineTypeOK
    <3> QED BY <3>1 DEF GateType, InGate, OnlyThread
  <2>2. CASE target[s] \in TimelinesOf(u)
    BY <2>2, StepKeeps
  <2>3. CASE target[s] \notin TimelinesOf(u)
    <3>1. lbts'[target[s]] = lbts[target[s]]
      BY <1>1, <2>3 DEF OnlyThread
    <3> QED BY <1>1, <1>2, <2>1, <3>1, StepKeeps
  <2> QED BY <2>2, <2>3
<1>5. gate'[s].time = gate[s].time
  OBVIOUS
<1> QED BY <1>1, <1>2, <1>3, <1>4, <1>5

\* A step inside a window that moves no clock: the timelines stay what they
\* are, active, blocked or still to be opened.
LEMMA QuietScheduling ==
  ASSUME TypeOK, TypeOK', Scheduling, NEW u \in Universes, OnlyThread(u),
         UNCHANGED <<simclock, lbts, state, gate>>,
         InWindow(u), InWindow(u)', pc[u] # "run", pc'[u] # "run",
         \A t \in TimelinesOf(u) : /\ IsOpening(u, t)' <=> IsOpening(u, t)
                                   /\ IsActive(u, t)' <=> IsActive(u, t),
         Owned(u)', Control(u)', pc'[u] = "scan" => ScanOK(u)'
  PROVE  Scheduling'
<1>1. \A t \in TimelinesOf(u) : TimelineOK(u, t)'
  <2> SUFFICES ASSUME NEW t \in TimelinesOf(u) PROVE TimelineOK(u, t)'
    OBVIOUS
  <2>1. TimelineOK(u, t)
    BY DEF Scheduling, Threads, ThreadOK
  <2>2. next_window(u)' = next_window(u) /\ synpoint'[u] = synpoint[u]
    BY StepKeeps
  <2> QED BY <2>1, <2>2 DEF TimelineOK
<1>2. Gates'
  <2>1. \A t \in TimelinesOf(u) : Reached(t) <= Reached(t)'
    <3> SUFFICES ASSUME NEW t \in TimelinesOf(u) PROVE Reached(t) <= Reached(t)'
      OBVIOUS
    <3>1. universe[t] = u /\ t \in Timelines /\ simclock[t] \in Nat
      BY SchedulingFacts
    <3> QED BY <3>1 DEF Reached
  <2>2. \A s \in Stargates : ~InGate(s).in_sync => lbts'[target[s]] <= InGate(s)'.time
    <3> SUFFICES ASSUME NEW s \in Stargates, ~InGate(s).in_sync
                 PROVE  lbts'[target[s]] <= InGate(s)'.time
      OBVIOUS
    <3>1. lbts[target[s]] <= InGate(s).time /\ InGate(s).time <= InGate(s)'.time
      BY DEF Scheduling, Gates, OnlyThread
    <3>2. lbts[target[s]] \in Nat /\ InGate(s).time \in Nat
      BY SchedulingFacts
    <3>3. gate'[s] \in GateType /\ rgate'[s] \in GateType
      BY DEF TypeOK, TimelineTypeOK
    <3>4. InGate(s)'.time \in Nat
      BY <3>3 DEF GateType, InGate
    <3> QED BY <3>1, <3>2, <3>4
  <2> QED BY <2>1, <2>2, StepGates
<1> QED BY <1>1, <1>2, StepScheduling DEF ThreadOK

\* The computation of a bound starts.
LEMMA ScanBegins ==
  ASSUME TypeOK, NEW u \in Universes, NEW t, NEW r, BeginScan(u, t, r),
         lbts[t] <= next_window(u), lbts' = lbts, UNCHANGED windowVars, next_window(u) \in Nat
  PROVE  ScanOK(u)'
<1>1. /\ scan'[u].tl = t /\ scan'[u].todo = InboundAsync(t) /\ scan'[u].low = next_window(u)
  BY ScanStarted
<1>2. InboundAsync(t)' = InboundAsync(t) /\ next_window(u)' = next_window(u)
  BY DEF windowVars, InboundAsync, next_window
<1> QED BY <1>1, <1>2 DEF ScanOK

\* A step that changes neither clocks, bounds, states nor channels.
LEMMA OnlyHere ==
  ASSUME TypeOK, NEW u \in Universes,
         UNCHANGED <<simclock, lbts, state, gateVars, windowVars, trainVars>>, pc[u] # "trained",
         \A v \in Universes \ {u} :
           /\ pc'[v] = pc[v] /\ scan'[v] = scan[v]
           /\ runnable'[v] = runnable[v] /\ ctx'[v] = ctx[v]
           /\ \A e \in Range(umailbox'[v]) : e \in Range(umailbox[v]) \/ universe[Dest(e)] = v
  PROVE  OnlyThread(u)
<1>1. \A s \in Stargates : InGate(s).time <= InGate(s)'.time
  <2>1. \A s \in Stargates : InGate(s).time \in Nat
    BY SchedulingFacts
  <2> QED BY <2>1 DEF InGate, gateVars
<1> QED BY <1>1 DEF OnlyThread, gateVars

LEMMA EmptyRange == Range(<<>>) = {}
BY DEF Range

LEMMA RangeFacts ==
  ASSUME NEW S, NEW q \in Seq(S)
  PROVE  q # <<>> => Head(q) \in Range(q) /\ Range(Tail(q)) \subseteq Range(q)
<1> SUFFICES ASSUME q # <<>>
             PROVE  Head(q) \in Range(q) /\ Range(Tail(q)) \subseteq Range(q)
  OBVIOUS
<1>1. 1 \in DOMAIN q /\ Head(q) = q[1]
  OBVIOUS
<1>2. \A i \in DOMAIN Tail(q) : i + 1 \in DOMAIN q /\ Tail(q)[i] = q[i + 1]
  OBVIOUS
<1> QED BY <1>1, <1>2 DEF Range

\* What holds of a thread at the start of a step.
LEMMA ThreadFacts ==
  ASSUME TypeOK, Scheduling, NEW u \in Universes
  PROVE  /\ Owned(u) /\ Control(u) /\ \A t \in TimelinesOf(u) : TimelineOK(u, t)
         /\ pc \in [Universes -> Labels] /\ scan \in [Universes -> ScanType]
         /\ ctx \in [Universes -> ContextType] /\ runnable \in [Universes -> SUBSET Timelines]
         /\ umailbox \in [Universes -> Seq(MessageType)]
         /\ \A t \in TimelinesOf(u) :
              t \in Timelines /\ universe[t] = u /\ t # NoTimeline
BY SchedulingFacts DEF Scheduling, Threads, ThreadOK, TypeOK, ThreadTypeOK, MessageTypeOK

LEMMA OpenedScheduling ==
  ASSUME TypeOK, TypeOK', Scheduling, NEW u \in Universes, Opened(u)
  PROVE  Scheduling'
<1>0. Owned(u) /\ Control(u) /\ pc \in [Universes -> Labels]
  BY ThreadFacts
<1>1. /\ pc[u] = "open" /\ ctx[u].open = {} /\ pc' = [pc EXCEPT ![u] = "sched"]
      /\ UNCHANGED <<simclock, lbts, state, gateVars, windowVars, trainVars, ctx, scan, runnable,
                     umailbox>>
  BY DEF Opened, Goto, tmlnVars, mailVars
<1>2. OnlyThread(u)
  BY <1>0, <1>1, OnlyHere
<1>3. /\ InWindow(u) /\ InWindow(u)' /\ pc'[u] = "sched"
      /\ \A r : ~ScanFor(u, r) /\ ~ScanFor(u, r)'
  BY <1>0, <1>1 DEF InWindow, AtEdge, WindowLabels, ScanFor
<1>4. \A t \in TimelinesOf(u) : /\ IsOpening(u, t)' <=> IsOpening(u, t)
                                /\ IsActive(u, t)' <=> IsActive(u, t)
  BY <1>1, <1>3 DEF IsOpening, IsActive
<1>5. Owned(u)'
  BY <1>0, <1>1, <1>3 DEF Owned
<1>6. Control(u)'
  BY <1>0, <1>1, <1>3 DEF Control
<1> QED BY <1>1, <1>2, <1>3, <1>4, <1>5, <1>6, QuietScheduling DEF gateVars

LEMMA OpenTimelineScheduling ==
  ASSUME TypeOK, TypeOK', Meeting, Scheduling, NEW u \in Universes, OpenTimeline(u)
  PROVE  Scheduling'
<1>0. /\ Owned(u) /\ Control(u) /\ \A t \in TimelinesOf(u) : TimelineOK(u, t)
      /\ pc \in [Universes -> Labels] /\ ctx \in [Universes -> ContextType]
  BY ThreadFacts
<1>1. PICK t \in ctx[u].open :
        /\ ctx' = [ctx EXCEPT ![u].open = @ \ {t}]
        /\ BeginScan(u, t, "open")
  BY DEF OpenTimeline
<1>2. /\ pc[u] = "open"
      /\ UNCHANGED <<simclock, lbts, state, gateVars, windowVars, trainVars, runnable, umailbox>>
  BY DEF OpenTimeline, tmlnVars, mailVars
<1>3. /\ pc'[u] = "scan" /\ scan'[u].tl = t /\ scan'[u].ret = "open"
      /\ \A v \in Universes \ {u} : pc'[v] = pc[v] /\ scan'[v] = scan[v]
  BY <1>1, ScanStarted
<1>4. /\ ctx'[u].cur = ctx[u].cur /\ ctx'[u].open = ctx[u].open \ {t}
      /\ ctx'[u].out = ctx[u].out /\ ctx'[u].io = ctx[u].io
      /\ \A v \in Universes \ {u} : ctx'[v] = ctx[v]
  BY <1>0, <1>1 DEF ContextType
<1>5. OnlyThread(u)
  BY <1>2, <1>3, <1>4, OnlyHere
<1>6. /\ InWindow(u) /\ InWindow(u)'
      /\ \A r : ~ScanFor(u, r) /\ (ScanFor(u, r)' <=> r = "open")
  BY <1>2, <1>3 DEF InWindow, AtEdge, WindowLabels, ScanFor
<1>7. \A x \in TimelinesOf(u) : /\ IsOpening(u, x)' <=> IsOpening(u, x)
                                /\ IsActive(u, x)' <=> IsActive(u, x)
  BY <1>2, <1>3, <1>4, <1>6 DEF IsOpening, IsActive
<1>8. Owned(u)'
  BY <1>0, <1>2, <1>3, <1>4 DEF Owned
<1>9. Control(u)'
  BY <1>0, <1>2, <1>3, <1>4, <1>6 DEF Control
<1>10. ScanOK(u)'
  <2>1. t \in TimelinesOf(u) /\ IsOpening(u, t)
    BY <1>0, <1>1 DEF Owned, IsOpening
  <2>2. lbts[t] = synpoint[u]
    BY <1>0, <2>1 DEF TimelineOK
  <2>3. synpoint[u] <= next_decade[u] /\ synpoint[u] <= next_epoch[u]
    BY DEF Meeting, Edges, Bounds
  <2>4. lbts[t] <= next_window(u) /\ next_window(u) \in Nat
    BY <2>2, <2>3, WindowFacts DEF TypeOK
  <2> QED BY <1>1, <1>2, <2>4, ScanBegins
<1> QED BY <1>2, <1>3, <1>5, <1>6, <1>7, <1>8, <1>9, <1>10, QuietScheduling DEF gateVars

LEMMA PickScheduling ==
  ASSUME TypeOK, TypeOK', Scheduling, NEW u \in Universes, Pick(u)
  PROVE  Scheduling'
<1>0. /\ Owned(u) /\ Control(u) /\ \A t \in TimelinesOf(u) : TimelineOK(u, t)
      /\ pc \in [Universes -> Labels] /\ runnable \in [Universes -> SUBSET Timelines]
  BY ThreadFacts
<1>1. PICK t \in runnable[u] :
        /\ runnable' = [runnable EXCEPT ![u] = @ \ {t}]
        /\ BeginScan(u, t, "sched")
  BY DEF Pick
<1>2. /\ pc[u] = "sched"
      /\ UNCHANGED <<simclock, lbts, state, gateVars, windowVars, trainVars, ctx, umailbox>>
  BY DEF Pick, tmlnVars, mailVars
<1>3. /\ pc'[u] = "scan" /\ scan'[u].tl = t /\ scan'[u].ret = "sched"
      /\ \A v \in Universes \ {u} : pc'[v] = pc[v] /\ scan'[v] = scan[v]
  BY <1>1, ScanStarted
<1>4. /\ runnable'[u] = runnable[u] \ {t}
      /\ \A v \in Universes \ {u} : runnable'[v] = runnable[v]
  BY <1>0, <1>1
<1>5. OnlyThread(u)
  BY <1>2, <1>3, <1>4, OnlyHere
<1>6. /\ InWindow(u) /\ InWindow(u)'
      /\ \A r : ~ScanFor(u, r) /\ (ScanFor(u, r)' <=> r = "sched")
  BY <1>2, <1>3 DEF InWindow, AtEdge, WindowLabels, ScanFor
<1>7. \A x \in TimelinesOf(u) : /\ IsOpening(u, x)' <=> IsOpening(u, x)
                                /\ IsActive(u, x)' <=> IsActive(u, x)
  BY <1>2, <1>3, <1>4, <1>6 DEF IsOpening, IsActive
<1>8. Owned(u)'
  BY <1>0, <1>2, <1>3, <1>4 DEF Owned
<1>9. Control(u)'
  BY <1>0, <1>2, <1>3, <1>4, <1>6 DEF Control
<1>10. ScanOK(u)'
  <2>1. t \in TimelinesOf(u) /\ IsActive(u, t)
    BY <1>0, <1>1 DEF Owned, IsActive
  <2>2. lbts[t] <= next_window(u)
    BY <1>0, <1>6, <2>1 DEF TimelineOK
  <2> QED BY <1>1, <1>2, <2>2, ScanBegins, WindowFacts DEF TypeOK
<1> QED BY <1>2, <1>3, <1>5, <1>6, <1>7, <1>8, <1>9, <1>10, QuietScheduling DEF gateVars

\* Inside a window the stargates that a timeline asks for their times are the
\* asynchronous ones.
LEMMA AsyncListed ==
  ASSUME TypeOK, Meeting, Scheduling, NEW u \in Universes, InWindow(u),
         NEW s \in Stargates, universe[target[s]] = u
  PROVE  s \in inbound_async <=> ~InGate(s).in_sync
<1> DEFINE m == TargetMachine(s)
<1>1. m = machine[u] /\ m \in Machines /\ proc0[m] \in Universes /\ machine[proc0[m]] = m
  BY TopologyAssumption DEF TargetMachine
<1>2. pc[proc0[m]] \notin {"train global", "trained"}
  <2> SUFFICES ASSUME pc[proc0[m]] \in {"train global", "trained"} PROVE FALSE
    OBVIOUS
  <2>1. AtEdge(proc0[m]) /\ u \in Mates(proc0[m])
    BY <1>1 DEF AtEdge, WindowLabels, Mates
  <2>2. AtEdge(u)
    BY <1>1, <2>1 DEF Meeting, Together
  <2> QED BY <2>2 DEF InWindow
<1>3. CASE Remote(s)
  <2>1. Stage(m) # "trained"
    BY <1>2 DEF Stage
  <2> QED BY <1>3, <2>1 DEF Scheduling, RemoteListed, RemoteGates, InGate
<1>4. CASE ~Remote(s)
  <2>1. SourceMachine(s) = m /\ ~Pending(m)
    BY <1>2, <1>4 DEF Remote, Pending, TrainerDone
  <2> QED BY <1>4, <2>1 DEF Meeting, Edges, Lengths, InGate
<1> QED BY <1>3, <1>4

LEMMA ComputeScheduling ==
  ASSUME TypeOK, TypeOK', Meeting, Scheduling, NEW u \in Universes, ReadTime(u) \/ ReceiveMessages(u)
  PROVE  Scheduling'
<1>0. Owned(u) /\ Control(u) /\ scan[u] \in ScanType
  BY ThreadFacts
<1>1. /\ pc[u] = "scan" /\ pc' = pc
      /\ UNCHANGED <<simclock, lbts, state, gateVars, windowVars, trainVars, ctx, runnable, umailbox>>
  BY DEF ReadTime, ReceiveMessages, tmlnVars, mailVars
<1>2. /\ scan'[u].tl = scan[u].tl /\ scan'[u].ret = scan[u].ret
      /\ \A v \in Universes \ {u} : scan'[v] = scan[v]
  BY TimeRead, MessagesReceived
<1>3. OnlyThread(u)
  BY <1>1, <1>2, OnlyHere
<1>4. /\ InWindow(u) /\ InWindow(u)'
      /\ \A r : ScanFor(u, r)' <=> ScanFor(u, r)
  BY <1>0, <1>1, <1>2 DEF InWindow, AtEdge, WindowLabels, ScanFor, Owned
<1>5. \A t \in TimelinesOf(u) : /\ IsOpening(u, t)' <=> IsOpening(u, t)
                                /\ IsActive(u, t)' <=> IsActive(u, t)
  BY <1>1, <1>2, <1>4 DEF IsOpening, IsActive
<1>6. Owned(u)'
  BY <1>0, <1>1, <1>2 DEF Owned
<1>7. Control(u)'
  BY <1>0, <1>1, <1>2, <1>4 DEF Control, gateVars
<1>8. ScanOK(u)'
  <2>1. ScanOK(u)
    BY <1>1 DEF Scheduling, Scans
  <2>2. /\ InboundAsync(scan[u].tl)' = InboundAsync(scan[u].tl)
        /\ next_window(u)' = next_window(u) /\ \A s : InGate(s)' = InGate(s)
    <3>1. \A s : InGate(s)' = InGate(s)
      BY <1>1 DEF InGate, gateVars
    <3> QED BY <1>2, <1>3, <3>1, StepKeeps
  <2>3. CASE ReceiveMessages(u)
    <3>1. scan'[u].low = scan[u].low /\ scan'[u].todo = scan[u].todo
      BY <2>3, MessagesReceived
    <3> QED BY <1>1, <1>2, <2>1, <2>2, <3>1 DEF ScanOK
  <2>4. CASE ReadTime(u)
    <3>1. PICK s \in scan[u].todo :
            /\ s \in Stargates
            /\ scan'[u].low = Lesser(scan[u].low, InGate(s).time)
            /\ scan'[u].todo = scan[u].todo \ {s}
      BY <2>4, TimeRead
    <3>2. /\ scan[u].low \in Nat /\ InGate(s).time \in Nat
          /\ \A r \in Stargates : InGate(r).time \in Nat
          /\ \A r \in Stargates : ~InGate(r).in_sync => lbts[target[r]] <= InGate(r).time
      BY <3>1, SchedulingFacts DEF Scheduling, Gates
    <3>3. /\ scan'[u].low \in Nat /\ scan'[u].low <= scan[u].low /\ scan'[u].low <= InGate(s).time
          /\ scan'[u].low = scan[u].low \/ scan'[u].low = InGate(s).time
      BY <3>1, <3>2, LesserIs
    <3>4. \A r \in InboundAsync(scan[u].tl) \ scan'[u].todo : scan'[u].low <= InGate(r).time
      <4> SUFFICES ASSUME NEW r \in InboundAsync(scan[u].tl) \ scan'[u].todo
                   PROVE  scan'[u].low <= InGate(r).time
        OBVIOUS
      <4>1. r = s \/ r \in InboundAsync(scan[u].tl) \ scan[u].todo
        BY <3>1
      <4>2. r \in Stargates
        BY DEF InboundAsync
      <4>3. CASE r = s
        BY <3>3, <4>3
      <4>4. CASE r \in InboundAsync(scan[u].tl) \ scan[u].todo
        <5>1. scan[u].low <= InGate(r).time /\ InGate(r).time \in Nat
          BY <2>1, <3>2, <4>2, <4>4 DEF ScanOK
        <5> QED BY <3>2, <3>3, <5>1
      <4> QED BY <4>1, <4>3, <4>4
    <3>5. lbts[scan[u].tl] <= scan'[u].low
      <4>1. target[s] = scan[u].tl /\ s \in inbound_async
        BY <2>1, <3>1 DEF ScanOK, InboundAsync
      <4>2. lbts[scan[u].tl] <= InGate(s).time
        <5>1. universe[target[s]] = u
          BY <1>0, <1>1, <4>1 DEF Owned, TimelinesOf
        <5>2. ~InGate(s).in_sync
          BY <1>4, <3>1, <4>1, <5>1, AsyncListed
        <5> QED BY <3>1, <3>2, <4>1, <5>2
      <4> QED BY <2>1, <3>3, <4>2 DEF ScanOK
    <3>6. scan'[u].low <= next_window(u)
      <4>1. scan[u].low <= next_window(u) /\ next_window(u) \in Nat
        BY <2>1, SchedulingFacts DEF ScanOK
      <4> QED BY <3>2, <3>3, <4>1
    <3>7. scan'[u].todo \subseteq InboundAsync(scan[u].tl)
      BY <2>1, <3>1 DEF ScanOK
    <3> QED BY <1>1, <1>2, <2>2, <3>4, <3>5, <3>6, <3>7 DEF ScanOK
  <2> QED BY <2>3, <2>4
<1> QED BY <1>1, <1>3, <1>4, <1>5, <1>6, <1>7, <1>8, QuietScheduling DEF gateVars

LEMMA InterruptedScheduling ==
  ASSUME TypeOK, TypeOK', Scheduling, NEW u \in Universes, Interrupted(u)
  PROVE  Scheduling'
<1>0. /\ Owned(u) /\ Control(u) /\ pc \in [Universes -> Labels]
      /\ ctx \in [Universes -> ContextType] /\ \A t \in TimelinesOf(u) : t # NoTimeline
  BY ThreadFacts
<1>1. /\ pc[u] = "update" /\ ctx[u].out = {} /\ simclock[ctx[u].cur] < lbts[ctx[u].cur]
      /\ ctx' = [ctx EXCEPT ![u].cur = NoTimeline] /\ pc' = [pc EXCEPT ![u] = "sched"]
      /\ UNCHANGED <<simclock, lbts, state, gateVars, windowVars, trainVars, scan, runnable, umailbox>>
  BY DEF Interrupted, Goto, tmlnVars, mailVars
<1>2. /\ ctx'[u].cur = NoTimeline /\ ctx'[u].open = ctx[u].open
      /\ ctx'[u].out = ctx[u].out /\ ctx'[u].io = ctx[u].io
      /\ \A v \in Universes \ {u} : ctx'[v] = ctx[v] /\ pc'[v] = pc[v]
      /\ pc'[u] = "sched"
  BY <1>0, <1>1 DEF ContextType
<1>3. OnlyThread(u)
  BY <1>1, <1>2, OnlyHere
<1>4. /\ InWindow(u) /\ InWindow(u)'
      /\ \A r : ~ScanFor(u, r) /\ ~ScanFor(u, r)'
  BY <1>1, <1>2 DEF InWindow, AtEdge, WindowLabels, ScanFor
<1>5. ctx[u].cur \in runnable[u]
  BY <1>0, <1>1 DEF Control
<1>6. \A t \in TimelinesOf(u) : /\ IsOpening(u, t)' <=> IsOpening(u, t)
                                /\ IsActive(u, t)' <=> IsActive(u, t)
  BY <1>0, <1>1, <1>2, <1>4, <1>5 DEF IsOpening, IsActive
<1>7. Owned(u)'
  BY <1>0, <1>1, <1>2 DEF Owned
<1>8. Control(u)'
  BY <1>0, <1>1, <1>2, <1>4 DEF Control
<1> QED BY <1>1, <1>2, <1>3, <1>4, <1>6, <1>7, <1>8, QuietScheduling DEF gateVars

LEMMA TakeMailScheduling ==
  ASSUME TypeOK, TypeOK', Scheduling, NEW u \in Universes, PollMail(u) \/ WaitMail(u)
  PROVE  Scheduling'
<1>0. /\ Owned(u) /\ Control(u) /\ pc \in [Universes -> Labels]
      /\ ctx \in [Universes -> ContextType] /\ umailbox \in [Universes -> Seq(MessageType)]
  BY ThreadFacts
<1>1. /\ pc[u] \in {"update", "sched"}
      /\ ctx' = [ctx EXCEPT ![u].io = umailbox[u]] /\ pc' = [pc EXCEPT ![u] = "io"]
      /\ umailbox' = [umailbox EXCEPT ![u] = <<>>]
      /\ UNCHANGED <<simclock, lbts, state, gateVars, windowVars, trainVars, scan, runnable>>
  BY DEF PollMail, WaitMail, TakeMail, Goto, tmlnVars
<1>2. /\ ctx'[u].cur = ctx[u].cur /\ ctx'[u].open = ctx[u].open
      /\ ctx'[u].out = ctx[u].out /\ ctx'[u].io = umailbox[u]
      /\ pc'[u] = "io" /\ umailbox'[u] = <<>>
      /\ \A v \in Universes \ {u} :
           ctx'[v] = ctx[v] /\ pc'[v] = pc[v] /\ umailbox'[v] = umailbox[v]
  BY <1>0, <1>1 DEF ContextType
<1>3. OnlyThread(u)
  BY <1>1, <1>2, OnlyHere
<1>4. /\ InWindow(u) /\ InWindow(u)'
      /\ \A r : ~ScanFor(u, r) /\ ~ScanFor(u, r)'
  BY <1>1, <1>2 DEF InWindow, AtEdge, WindowLabels, ScanFor
<1>5. \A t \in TimelinesOf(u) : /\ IsOpening(u, t)' <=> IsOpening(u, t)
                                /\ IsActive(u, t)' <=> IsActive(u, t)
  BY <1>1, <1>2, <1>4 DEF IsOpening, IsActive
<1>6. Range(umailbox'[u]) = {}
  BY <1>2, EmptyRange
<1>7. Owned(u)'
  BY <1>0, <1>1, <1>2, <1>6 DEF Owned
<1>8. ctx[u].cur \notin runnable[u]
  <2>1. CASE PollMail(u)
    <3>1. pc[u] = "update" /\ simclock[ctx[u].cur] >= lbts[ctx[u].cur]
      BY <2>1 DEF PollMail
    <3>2. ctx[u].cur \in Timelines
      BY <3>1 DEF TypeOK, Running
    <3>3. ~(simclock[ctx[u].cur] < lbts[ctx[u].cur])
      BY <3>1, <3>2, SchedulingFacts
    <3> QED BY <1>0, <3>1, <3>3 DEF Control
  <2>2. CASE WaitMail(u)
    BY <2>2 DEF WaitMail
  <2> QED BY <2>1, <2>2
<1>9. Control(u)'
  BY <1>0, <1>1, <1>2, <1>4, <1>8 DEF Control
<1> QED BY <1>1, <1>2, <1>3, <1>4, <1>5, <1>7, <1>9, QuietScheduling DEF gateVars

LEMMA DrainMailScheduling ==
  ASSUME TypeOK, TypeOK', Scheduling, NEW u \in Universes, DrainMail(u)
  PROVE  Scheduling'
<1>0. /\ pc \in [Universes -> Labels]
      /\ ctx \in [Universes -> ContextType] /\ umailbox \in [Universes -> Seq(MessageType)]
  BY ThreadFacts
<1>1. /\ pc[u] = "drain"
      /\ ctx' = [ctx EXCEPT ![u].io = umailbox[u]] /\ pc' = [pc EXCEPT ![u] = "drain io"]
      /\ umailbox' = [umailbox EXCEPT ![u] = <<>>]
      /\ UNCHANGED <<simclock, lbts, state, gateVars, windowVars, trainVars, scan, runnable>>
  BY DEF DrainMail, TakeMail, Goto, tmlnVars
<1>2. /\ ctx'[u].cur = ctx[u].cur /\ ctx'[u].open = ctx[u].open
      /\ ctx'[u].out = ctx[u].out /\ ctx'[u].io = umailbox[u]
      /\ ctx'[u].horizon = ctx[u].horizon
      /\ \A v \in Universes \ {u} : ctx'[v] = ctx[v] /\ umailbox'[v] = umailbox[v]
      /\ umailbox'[u] = <<>>
  BY <1>0, <1>1 DEF ContextType
<1>3. "drain io" \in Labels /\ "drain io" \notin WindowLabels
      /\ pc[u] \notin WindowLabels \cup {"trained"}
  BY <1>1 DEF Labels, WindowLabels
<1>4. \A v \in Universes : Range(umailbox'[v]) \subseteq Range(umailbox[v])
  <2>1. Range(umailbox'[u]) = {}
    BY <1>2, EmptyRange
  <2> QED BY <1>2, <2>1
<1>5. \A v \in Universes : ctx'[v] = ctx[v]
        \/ /\ ctx'[v].cur = ctx[v].cur /\ ctx'[v].open = ctx[v].open
           /\ ctx'[v].out = ctx[v].out /\ ctx'[v].horizon = ctx[v].horizon
           /\ Range(ctx'[v].io) \subseteq Range(ctx[v].io) \cup Range(umailbox[v])
  BY <1>2
<1> QED BY <1>1, <1>3, <1>4, <1>5, EdgeScheduling

LEMMA NotifyScheduling ==
  ASSUME TypeOK, TypeOK', Scheduling, NEW u \in Universes, Notify(u)
  PROVE  Scheduling'
<1>0. /\ Owned(u) /\ Control(u) /\ pc \in [Universes -> Labels]
      /\ ctx \in [Universes -> ContextType] /\ umailbox \in [Universes -> Seq(MessageType)]
  BY ThreadFacts
<1>1. PICK s \in ctx[u].out :
        /\ umailbox' = [umailbox EXCEPT ![universe[target[s]]] =
                          Append(@, Message(s, 0, gate[s].time))]
        /\ ctx' = [ctx EXCEPT ![u].out = @ \ {s}]
  BY DEF Notify
<1>2. /\ pc[u] = "notify" /\ pc' = [pc EXCEPT ![u] = "update"]
      /\ UNCHANGED <<simclock, lbts, state, gateVars, windowVars, trainVars, scan, runnable>>
  BY DEF Notify, Goto, tmlnVars
<1>3. /\ ctx'[u].cur = ctx[u].cur /\ ctx'[u].open = ctx[u].open
      /\ ctx'[u].out = ctx[u].out \ {s} /\ ctx'[u].io = ctx[u].io
      /\ \A v \in Universes \ {u} : ctx'[v] = ctx[v] /\ pc'[v] = pc[v]
      /\ pc'[u] = "update"
  BY <1>0, <1>1, <1>2 DEF ContextType
<1>4. ASSUME NEW v \in Universes, NEW e \in Range(umailbox'[v])
      PROVE  e \in Range(umailbox[v]) \/ universe[Dest(e)] = v
  <2>1. s \in Stargates /\ gate[s].time \in Nat /\ universe[target[s]] \in Universes
    BY <1>0, ContextSet, SchedulingFacts, TopologyAssumption
  <2> DEFINE x == Message(s, 0, gate[s].time)
  <2>2. x \in MessageType /\ Dest(x) = target[s]
    BY <2>1, MessageIntro DEF Dest, Message
  <2> HIDE DEF x
  <2>3. umailbox' = [umailbox EXCEPT ![universe[target[s]]] = Append(@, x)]
    BY <1>1 DEF x
  <2>4. CASE v # universe[target[s]]
    BY <1>0, <2>1, <2>3, <2>4
  <2>5. CASE v = universe[target[s]]
    <3>1. umailbox'[v] = Append(umailbox[v], x)
      BY <1>0, <2>1, <2>3, <2>5
    <3>2. e \in Range(umailbox[v]) \/ e = x
      BY <1>0, <2>2, <3>1, AppendRange
    <3> QED BY <2>2, <2>5, <3>2
  <2> QED BY <2>4, <2>5
<1>5. OnlyThread(u)
  BY <1>2, <1>3, <1>4, OnlyHere
<1>6. /\ InWindow(u) /\ InWindow(u)'
      /\ \A r : ~ScanFor(u, r) /\ ~ScanFor(u, r)'
  BY <1>2, <1>3 DEF InWindow, AtEdge, WindowLabels, ScanFor
<1>7. \A t \in TimelinesOf(u) : /\ IsOpening(u, t)' <=> IsOpening(u, t)
                                /\ IsActive(u, t)' <=> IsActive(u, t)
  BY <1>2, <1>3, <1>6 DEF IsOpening, IsActive
<1>8. Owned(u)'
  BY <1>0, <1>2, <1>3, <1>4 DEF Owned
<1>9. Control(u)'
  BY <1>0, <1>2, <1>3, <1>6 DEF Control, gateVars
<1> QED BY <1>2, <1>3, <1>5, <1>6, <1>7, <1>8, <1>9, QuietScheduling DEF gateVars

LEMMA EndMailScheduling ==
  ASSUME TypeOK, TypeOK', Scheduling, NEW u \in Universes, EndMail(u)
  PROVE  Scheduling'
<1>0. /\ Owned(u) /\ Control(u) /\ pc \in [Universes -> Labels]
      /\ \A t \in TimelinesOf(u) : TimelineOK(u, t) /\ t # NoTimeline
  BY ThreadFacts
<1>1. /\ pc[u] \in {"io", "drain io"}
      /\ UNCHANGED <<simclock, lbts, state, gateVars, windowVars, trainVars, ctx, runnable, umailbox>>
  BY DEF EndMail, tmlnVars, mailVars
<1>2. CASE pc[u] = "drain io"
  <2>1. PICK l \in {"mpi barrier", "drained"} : pc' = [pc EXCEPT ![u] = l] /\ scan' = scan
    BY <1>2 DEF EndMail, AfterMail, Goto
  <2>2. l \in Labels /\ l \notin WindowLabels /\ pc[u] \notin WindowLabels \cup {"trained"}
    BY <1>2 DEF Labels, WindowLabels
  <2> QED BY <1>1, <2>1, <2>2, EdgeScheduling
<1>3. CASE pc[u] = "io" /\ ctx[u].cur # NoTimeline
  <2> DEFINE t == ctx[u].cur
  <2>1. BeginScan(u, t, "sched")
    BY <1>3 DEF EndMail, AfterMail
  <2>2. /\ pc'[u] = "scan" /\ scan'[u].tl = t /\ scan'[u].ret = "sched"
        /\ \A v \in Universes \ {u} : pc'[v] = pc[v] /\ scan'[v] = scan[v]
    BY <2>1, ScanStarted
  <2>3. OnlyThread(u)
    BY <1>1, <1>3, <2>2, OnlyHere
  <2>4. /\ InWindow(u) /\ InWindow(u)'
        /\ \A r : ~ScanFor(u, r) /\ (ScanFor(u, r)' <=> r = "sched")
    BY <1>3, <2>2 DEF InWindow, AtEdge, WindowLabels, ScanFor
  <2>5. \A x \in TimelinesOf(u) : /\ IsOpening(u, x)' <=> IsOpening(u, x)
                                  /\ IsActive(u, x)' <=> IsActive(u, x)
    BY <1>1, <2>2, <2>4 DEF IsOpening, IsActive
  <2>6. Owned(u)'
    BY <1>0, <1>1, <1>3, <2>2 DEF Owned
  <2>7. Control(u)'
    BY <1>0, <1>1, <1>3, <2>2, <2>4 DEF Control
  <2>8. ScanOK(u)'
    <3>1. t \in TimelinesOf(u) /\ IsActive(u, t)
      BY <1>0, <1>3 DEF Owned, IsActive
    <3>2. lbts[t] <= next_window(u)
      BY <1>0, <2>4, <3>1 DEF TimelineOK
    <3> QED BY <1>1, <2>1, <3>2, ScanBegins, WindowFacts DEF TypeOK
  <2> QED BY <1>1, <1>3, <2>2, <2>3, <2>4, <2>5, <2>6, <2>7, <2>8, QuietScheduling DEF gateVars
<1>4. CASE pc[u] = "io" /\ ctx[u].cur = NoTimeline
  <2>1. pc' = [pc EXCEPT ![u] = "sched"] /\ scan' = scan
    BY <1>4 DEF EndMail, AfterMail, Goto
  <2>2. OnlyThread(u)
    BY <1>0, <1>1, <1>4, <2>1, OnlyHere
  <2>3. /\ InWindow(u) /\ InWindow(u)' /\ pc'[u] = "sched"
        /\ \A r : ~ScanFor(u, r) /\ ~ScanFor(u, r)'
    BY <1>0, <1>4, <2>1 DEF InWindow, AtEdge, WindowLabels, ScanFor
  <2>4. \A x \in TimelinesOf(u) : /\ IsOpening(u, x)' <=> IsOpening(u, x)
                                  /\ IsActive(u, x)' <=> IsActive(u, x)
    BY <1>1, <2>3 DEF IsOpening, IsActive
  <2>5. Owned(u)'
    BY <1>0, <1>1, <2>3 DEF Owned
  <2>6. Control(u)'
    BY <1>0, <1>1, <1>4, <2>3 DEF Control
  <2> QED BY <1>1, <1>4, <2>2, <2>3, <2>4, <2>5, <2>6, QuietScheduling DEF gateVars
<1> QED BY <1>1, <1>2, <1>3, <1>4

\* A null message handled without waking a timeline: at most the receiving end
\* of its stargate gets a later time.
LEMMA KeepRising ==
  ASSUME TypeOK, TypeOK', Scheduling, NEW u \in Universes, OnlyThread(u), Kept(u), UNCHANGED gate,
         pc[u] # "scan", pc[u] # "run"
  PROVE  Scheduling'
<1>1. ThreadOK(u)'
  BY KeepThread DEF Scheduling, Threads
<1>2. \A t \in TimelinesOf(u) : Reached(t)' = Reached(t) /\ Reached(t) \in Nat
  <2>1. \A t \in TimelinesOf(u) : t \in Timelines /\ universe[t] = u
    BY SchedulingFacts
  <2> QED BY <2>1, ReachedKept, SchedulingFacts
<1>3. \A s \in Stargates : target[s] \in TimelinesOf(u) /\ ~InGate(s).in_sync =>
         lbts'[target[s]] <= InGate(s)'.time
  <2> SUFFICES ASSUME NEW s \in Stargates, target[s] \in TimelinesOf(u), ~InGate(s).in_sync
               PROVE  lbts'[target[s]] <= InGate(s)'.time
    OBVIOUS
  <2>1. /\ lbts[target[s]] <= InGate(s).time /\ InGate(s).time <= InGate(s)'.time
        /\ lbts'[target[s]] = lbts[target[s]]
    BY DEF Scheduling, Gates, OnlyThread, Kept
  <2>2. lbts[target[s]] \in Nat /\ InGate(s).time \in Nat
    BY SchedulingFacts
  <2>3. gate'[s] \in GateType /\ rgate'[s] \in GateType
    BY DEF TypeOK, TimelineTypeOK
  <2>4. InGate(s)'.time \in Nat
    BY <2>3 DEF GateType, InGate
  <2> QED BY <2>1, <2>2, <2>4
<1>4. Gates'
  BY <1>2, <1>3, StepGates
<1>5. pc'[u] # "scan"
  BY DEF Kept, WindowLabels
<1> QED BY <1>1, <1>4, <1>5, StepScheduling

\* What handling a message does to its stargate.
LEMMA NullHandled ==
  ASSUME TypeOK, NEW u \in Universes, HandleMail(u)
  PROVE  /\ pc[u] \in {"io", "drain io"}
         /\ UNCHANGED <<simclock, lbts, state, gate, windowVars, trainVars, umailbox, runnable>>
         /\ ctx[u].io # <<>> /\ Head(ctx[u].io) \in Range(ctx[u].io)
         /\ ctx'[u].cur = ctx[u].cur /\ ctx'[u].open = ctx[u].open
         /\ ctx'[u].out = ctx[u].out /\ ctx'[u].horizon = ctx[u].horizon
         /\ Range(ctx'[u].io) \subseteq Range(ctx[u].io)
         /\ \A v \in Universes \ {u} : ctx'[v] = ctx[v]
         /\ \A s \in Stargates : /\ rgate'[s].in_sync = rgate[s].in_sync
                                 /\ InGate(s).time <= InGate(s)'.time
         /\ \/ UNCHANGED <<pc, scan>>
            \/ LET d == target[Head(ctx[u].io).sg] IN
               state[d] = "WAITING" /\ BeginScan(u, d, pc[u])
<1>0. /\ ctx \in [Universes -> ContextType] /\ ctx[u].io \in Seq(MessageType)
      /\ rgate \in [Stargates -> GateType] /\ gate \in [Stargates -> GateType]
  BY DEF TypeOK, ThreadTypeOK, TimelineTypeOK, ContextType
<1> DEFINE e == Head(ctx[u].io)
<1>1. /\ pc[u] \in {"io", "drain io"} /\ ctx[u].io # <<>>
      /\ UNCHANGED <<simclock, lbts, state, gate, windowVars, trainVars, umailbox, runnable>>
      /\ ctx' = [ctx EXCEPT ![u].io = Tail(@)]
  BY DEF HandleMail, mailVars
<1>2. /\ e \in Range(ctx[u].io) /\ Range(Tail(ctx[u].io)) \subseteq Range(ctx[u].io)
      /\ e \in MessageType
  BY <1>0, <1>1, RangeFacts, SequenceType
<1>3. /\ ctx'[u].cur = ctx[u].cur /\ ctx'[u].open = ctx[u].open
      /\ ctx'[u].out = ctx[u].out /\ ctx'[u].horizon = ctx[u].horizon
      /\ ctx'[u].io = Tail(ctx[u].io)
      /\ \A v \in Universes \ {u} : ctx'[v] = ctx[v]
  BY <1>0, <1>1 DEF ContextType
<1>4. e.sg \in Stargates /\ e.t \in Nat
  BY <1>2 DEF MessageType
<1>5. \A s \in Stargates : /\ rgate'[s].in_sync = rgate[s].in_sync
                           /\ rgate[s].time <= rgate'[s].time
  <2>1. \A s \in Stargates : rgate[s].time \in Nat /\ rgate[s].in_sync \in BOOLEAN
    BY <1>0 DEF GateType
  <2>2. CASE rgate' = rgate
    BY <2>1, <2>2
  <2>3. CASE rgate' # rgate
    <3>1. HandleNull(u, e)
      BY <2>3 DEF HandleMail
    <3>2. rgate' = [rgate EXCEPT ![e.sg].time = e.t] /\ ~(rgate[e.sg].time >= e.t)
      BY <2>3, <3>1 DEF HandleNull
    <3>3. \A s \in Stargates : s # e.sg => rgate'[s] = rgate[s]
      BY <1>0, <1>4, <3>2
    <3>4. rgate'[e.sg].time = e.t /\ rgate'[e.sg].in_sync = rgate[e.sg].in_sync
      BY <1>0, <1>4, <3>2 DEF GateType
    <3>5. rgate[e.sg].time <= e.t
      BY <1>4, <2>1, <3>2
    <3> QED BY <2>1, <3>3, <3>4, <3>5
  <2> QED BY <2>2, <2>3
<1>6. \A s \in Stargates : InGate(s).time <= InGate(s)'.time
  <2>1. \A s \in Stargates : gate[s].time \in Nat
    BY <1>0 DEF GateType
  <2>2. gate' = gate
    BY <1>1
  <2>3. \A s \in Stargates : InGate(s) = (IF Remote(s) THEN rgate[s] ELSE gate[s])
                             /\ InGate(s)' = (IF Remote(s) THEN rgate'[s] ELSE gate'[s])
    BY DEF InGate
  <2> QED BY <1>5, <2>1, <2>2, <2>3
<1>7. \/ UNCHANGED <<pc, scan>>
      \/ state[target[e.sg]] = "WAITING" /\ BeginScan(u, target[e.sg], pc[u])
  BY DEF HandleMail, HandleNull
<1> QED BY <1>1, <1>2, <1>3, <1>5, <1>6, <1>7

LEMMA HandleMailScheduling ==
  ASSUME TypeOK, TypeOK', Scheduling, NEW u \in Universes, HandleMail(u)
  PROVE  Scheduling'
<1>0. /\ Owned(u) /\ Control(u)
      /\ \A t \in TimelinesOf(u) : TimelineOK(u, t) /\ t \in Timelines /\ universe[t] = u
  BY ThreadFacts
<1>1. /\ pc[u] \in {"io", "drain io"}
      /\ UNCHANGED <<simclock, lbts, state, gate, windowVars, trainVars, umailbox, runnable>>
      /\ \A v \in Universes \ {u} : ctx'[v] = ctx[v]
      /\ ctx'[u].cur = ctx[u].cur /\ ctx'[u].open = ctx[u].open
      /\ ctx'[u].out = ctx[u].out /\ ctx'[u].horizon = ctx[u].horizon
      /\ Range(ctx'[u].io) \subseteq Range(ctx[u].io)
      /\ \A s \in Stargates : /\ rgate'[s].in_sync = rgate[s].in_sync
                              /\ InGate(s).time <= InGate(s)'.time
  BY NullHandled
<1>2. CASE UNCHANGED <<pc, scan>>
  <2>1. OnlyThread(u)
    BY <1>1, <1>2 DEF OnlyThread
  <2>2. Kept(u)
    BY <1>1, <1>2 DEF Kept, windowVars, next_window
  <2> QED BY <1>1, <2>1, <2>2, KeepRising
<1>3. ASSUME NEW d, d = target[Head(ctx[u].io).sg], state[d] = "WAITING", BeginScan(u, d, pc[u])
      PROVE  Scheduling'
  <2>1. universe[d] = u /\ d \in TimelinesOf(u)
    <3>1. Head(ctx[u].io) \in Range(ctx[u].io) /\ Head(ctx[u].io) \in MessageType
      <4>1. ctx[u].io # <<>> /\ ctx[u].io \in Seq(MessageType)
        BY NullHandled, ContextSet DEF TypeOK, ThreadTypeOK
      <4> QED BY <4>1, SequenceType, RangeFacts
    <3>2. universe[d] = u
      BY <1>0, <1>3, <3>1 DEF Owned, Dest
    <3>3. d \in Timelines
      BY <1>3, <3>1, TopologyAssumption DEF MessageType
    <3> QED BY <3>2, <3>3 DEF TimelinesOf
  <2>2. InWindow(u) /\ ~IsOpening(u, d) /\ pc[u] = "io"
    <3>1. InWindow(u) /\ ~IsOpening(u, d)
      BY <1>0, <1>3, <2>1 DEF TimelineOK
    <3> QED BY <1>1, <3>1 DEF InWindow, AtEdge, WindowLabels
  <2>3. /\ pc'[u] = "scan" /\ scan'[u].tl = d /\ scan'[u].ret = "io"
        /\ \A v \in Universes \ {u} : pc'[v] = pc[v] /\ scan'[v] = scan[v]
    BY <1>3, <2>2, ScanStarted
  <2>4. OnlyThread(u)
    BY <1>1, <2>3 DEF OnlyThread
  <2>5. /\ InWindow(u)'
        /\ \A r : ~ScanFor(u, r) /\ (ScanFor(u, r)' <=> r = "io")
    BY <2>2, <2>3 DEF InWindow, AtEdge, WindowLabels, ScanFor
  <2>6. \A x \in TimelinesOf(u) : /\ IsOpening(u, x)' <=> IsOpening(u, x)
                                  /\ IsActive(u, x)' <=> IsActive(u, x)
    BY <1>1, <2>3, <2>5 DEF IsOpening, IsActive
  <2>7. Owned(u)'
    BY <1>0, <1>1, <2>1, <2>3 DEF Owned
  <2>8. Control(u)'
    BY <1>0, <1>1, <1>3, <2>2, <2>3, <2>5 DEF Control
  <2>9. ScanOK(u)'
    <3>1. lbts[d] <= next_window(u)
      BY <1>0, <2>1, <2>2 DEF TimelineOK
    <3> QED BY <1>1, <1>3, <3>1, ScanBegins, WindowFacts DEF TypeOK
  <2> QED BY <1>1, <2>2, <2>3, <2>4, <2>5, <2>6, <2>7, <2>8, <2>9, QuietScheduling
<1> QED BY <1>2, <1>3, NullHandled

-----------------------------------------------------------------------------
(* The end of a computation.                                               *)

\* A timeline that a step of its own thread leaves alone.
LEMMA TimelineStays ==
  ASSUME NEW u \in Universes, NEW x, TimelineOK(u, x), OnlyThread(u), InWindow(u), InWindow(u)',
         state'[x] = state[x], simclock'[x] = simclock[x], lbts'[x] = lbts[x],
         IsOpening(u, x)' <=> IsOpening(u, x), IsActive(u, x)' <=> IsActive(u, x)
  PROVE  TimelineOK(u, x)'
<1>1. next_window(u)' = next_window(u) /\ synpoint'[u] = synpoint[u]
  BY StepKeeps
<1> QED BY <1>1 DEF TimelineOK

\* The values that a thread works with at the end of a computation.
LEMMA BoundKnown ==
  ASSUME TypeOK, Scheduling, NEW u \in Universes, EndScan(u)
  PROVE  LET t == scan[u].tl
             lb == scan[u].low
         IN
         /\ t \in TimelinesOf(u) /\ t \in Timelines /\ universe[t] = u /\ t # NoTimeline
         /\ simclock[t] \in Nat /\ lbts[t] \in Nat /\ lb \in Nat /\ next_window(u) \in Nat
         /\ simclock[t] <= lbts[t] /\ lbts[t] <= lb /\ lb <= next_window(u)
         /\ \A s \in InboundAsync(t) : lb <= InGate(s).time
         /\ TimelineOK(u, t) /\ ScanFor(u, scan[u].ret) /\ InWindow(u)
         /\ scan[u].ret \in {"open", "sched", "update", "io"}
<1>1. pc[u] = "scan" /\ scan[u].todo = {}
  BY DEF EndScan
<1>2. /\ scan[u].tl \in TimelinesOf(u) /\ scan[u].ret \in {"open", "sched", "update", "io"}
  BY <1>1, ThreadFacts DEF Owned
<1>3. scan[u].tl \in Timelines /\ universe[scan[u].tl] = u /\ scan[u].tl # NoTimeline
  BY <1>2, SchedulingFacts
<1>4. simclock[scan[u].tl] \in Nat /\ lbts[scan[u].tl] \in Nat
  BY <1>3, SchedulingFacts
<1>5. scan[u].low \in Nat /\ next_window(u) \in Nat
  BY SchedulingFacts
<1>6. TimelineOK(u, scan[u].tl)
  BY <1>2, ThreadFacts
<1>7. ScanOK(u)
  BY <1>1 DEF Scheduling, Scans
<1>8. /\ lbts[scan[u].tl] <= scan[u].low /\ scan[u].low <= next_window(u)
      /\ \A s \in InboundAsync(scan[u].tl) : scan[u].low <= InGate(s).time
  BY <1>1, <1>7 DEF ScanOK
<1>9. simclock[scan[u].tl] <= lbts[scan[u].tl]
  BY <1>6 DEF TimelineOK
<1>10. ScanFor(u, scan[u].ret) /\ InWindow(u)
  BY <1>1, <1>2 DEF ScanFor, InWindow, AtEdge, WindowLabels
<1> QED BY <1>2, <1>3, <1>4, <1>5, <1>6, <1>8, <1>9, <1>10

\* What the other threads, and the channels, see of it.
LEMMA BoundTaken ==
  ASSUME TypeOK, TypeOK', Meeting, Scheduling, NEW u \in Universes, EndScan(u)
  PROVE  /\ OnlyThread(u)
         /\ \A x \in TimelinesOf(u) \ {scan[u].tl} : state'[x] = state[x] /\ lbts'[x] = lbts[x]
         /\ lbts'[scan[u].tl] = scan[u].low
         /\ \A s \in Stargates : target[s] \in TimelinesOf(u) /\ ~InGate(s).in_sync =>
              lbts'[target[s]] <= InGate(s)'.time
         /\ UNCHANGED <<simclock, gateVars, windowVars, trainVars, umailbox>>
         /\ scan'[u] = NoScan
         /\ pc'[u] = IF scan[u].ret = "sched" /\ simclock[scan[u].tl] < scan[u].low
                     THEN "run" ELSE scan[u].ret
<1> DEFINE t == scan[u].tl
           lb == scan[u].low
<1>0. /\ t \in TimelinesOf(u) /\ t \in Timelines /\ InWindow(u)
      /\ \A s \in InboundAsync(t) : lb <= InGate(s).time
  BY BoundKnown
<1>1. /\ pc \in [Universes -> Labels] /\ scan \in [Universes -> ScanType]
      /\ ctx \in [Universes -> ContextType] /\ runnable \in [Universes -> SUBSET Timelines]
      /\ lbts \in [Timelines -> Nat] /\ DOMAIN state = Timelines
  BY ThreadFacts DEF TypeOK, TimelineTypeOK
<1>2. /\ pc[u] = "scan"
      /\ UNCHANGED <<simclock, gateVars, windowVars, trainVars, umailbox>>
      /\ lbts' = [lbts EXCEPT ![t] = lb]
      /\ scan' = [scan EXCEPT ![u] = NoScan]
      /\ pc' = [pc EXCEPT ![u] = IF scan[u].ret = "sched" /\ simclock[t] < lb
                                 THEN "run" ELSE scan[u].ret]
  BY DEF EndScan, mailVars, Goto
<1>3. \E x : state' = [state EXCEPT ![t] = x]
  <2>1. state' = [state EXCEPT ![t] = state[t]] \/ \E x : state' = [state EXCEPT ![t] = x]
    <3>1. CASE scan[u].ret = "sched"
      BY <3>1 DEF EndScan
    <3>2. CASE scan[u].ret # "sched" /\ (scan[u].ret = "open" \/ lbts[t] < lb)
      <4>1. MakeRunnable(u, t, lb)
        BY <3>2 DEF EndScan
      <4>2. \/ state' = [state EXCEPT ![t] = "RUNNING"]
            \/ state' = [state EXCEPT ![t] = "WAITING"]
        BY <4>1 DEF MakeRunnable
      <4> QED BY <4>2
    <3>3. CASE scan[u].ret # "sched" /\ ~(scan[u].ret = "open" \/ lbts[t] < lb)
      <4>1. state' = state
        BY <3>3 DEF EndScan
      <4>2. state' = [state EXCEPT ![t] = state[t]]
        BY <1>1, <4>1 DEF TypeOK, TimelineTypeOK
      <4> QED BY <4>2
    <3> QED BY <3>1, <3>2, <3>3
  <2> QED BY <2>1
<1>4. /\ \A x \in TimelinesOf(u) \ {t} : state'[x] = state[x] /\ lbts'[x] = lbts[x]
      /\ \A x \in Timelines \ TimelinesOf(u) : state'[x] = state[x] /\ lbts'[x] = lbts[x]
      /\ lbts'[t] = lb
  <2>1. \A x \in Timelines \ {t} : state'[x] = state[x] /\ lbts'[x] = lbts[x]
    BY <1>1, <1>2, <1>3
  <2>2. TimelinesOf(u) \subseteq Timelines
    BY DEF TimelinesOf
  <2> QED BY <1>0, <1>1, <1>2, <2>1, <2>2
<1>5. \A v \in Universes \ {u} : /\ pc'[v] = pc[v] /\ scan'[v] = scan[v]
                                 /\ runnable'[v] = runnable[v] /\ ctx'[v] = ctx[v]
  <2>1. \A v \in Universes \ {u} : pc'[v] = pc[v] /\ scan'[v] = scan[v]
    BY <1>1, <1>2
  <2>2. \A v \in Universes \ {u} : runnable'[v] = runnable[v] /\ ctx'[v] = ctx[v]
    BY <1>1 DEF EndScan, MakeRunnable
  <2> QED BY <2>1, <2>2
<1>6. OnlyThread(u)
  <2>1. \A s \in Stargates : InGate(s).time <= InGate(s)'.time
    <3>1. \A s \in Stargates : InGate(s).time \in Nat /\ InGate(s)' = InGate(s)
      BY <1>2, SchedulingFacts DEF gateVars, InGate
    <3> QED BY <3>1
  <2> QED BY <1>2, <1>4, <1>5, <2>1 DEF OnlyThread, gateVars
<1>7. \A s \in Stargates : target[s] \in TimelinesOf(u) /\ ~InGate(s).in_sync =>
        lbts'[target[s]] <= InGate(s)'.time
  <2> SUFFICES ASSUME NEW s \in Stargates, target[s] \in TimelinesOf(u), ~InGate(s).in_sync
               PROVE  lbts'[target[s]] <= InGate(s).time
    BY <1>2 DEF gateVars, InGate
  <2>1. CASE target[s] = t
    <3>1. s \in InboundAsync(t)
      BY <1>0, <2>1, AsyncListed DEF InboundAsync, TimelinesOf
    <3> QED BY <1>0, <1>4, <2>1, <3>1
  <2>2. CASE target[s] # t
    BY <1>4, <2>2 DEF Scheduling, Gates
  <2> QED BY <2>1, <2>2
<1>8. scan'[u] = NoScan
      /\ pc'[u] = IF scan[u].ret = "sched" /\ simclock[t] < lb THEN "run" ELSE scan[u].ret
  BY <1>1, <1>2
<1> QED BY <1>2, <1>4, <1>6, <1>7, <1>8

\* A bound for the timeline that is to run: it starts, or leaves the processor.
LEMMA BoundToRun ==
  ASSUME TypeOK, TypeOK', Meeting, Scheduling, NEW u \in Universes, EndScan(u), NEW t, t = scan[u].tl,
         scan[u].ret = "sched"
  PROVE  ThreadOK(u)' /\ \A x \in TimelinesOf(u) : Reached(x) <= Reached(x)'
<1> DEFINE lb == scan[u].low
           starts == simclock[t] < lb
           h == Lesser(lb, simclock[t] + time_slice)
<1>0. /\ Owned(u) /\ Control(u) /\ \A x \in TimelinesOf(u) : TimelineOK(u, x)
      /\ ctx \in [Universes -> ContextType] /\ DOMAIN state = Timelines
      /\ \A x \in TimelinesOf(u) : x \in Timelines /\ universe[x] = u /\ x # NoTimeline
  BY ThreadFacts DEF TypeOK, TimelineTypeOK
<1>1. /\ t \in TimelinesOf(u) /\ t \in Timelines /\ universe[t] = u /\ t # NoTimeline
      /\ simclock[t] \in Nat /\ lbts[t] \in Nat /\ lb \in Nat /\ next_window(u) \in Nat
      /\ simclock[t] <= lbts[t] /\ lbts[t] <= lb /\ lb <= next_window(u)
      /\ TimelineOK(u, t) /\ InWindow(u) /\ pc[u] = "scan"
      /\ \A r : ScanFor(u, r) <=> r = "sched"
  BY BoundKnown DEF ScanFor
<1>2. /\ OnlyThread(u) /\ lbts'[t] = lb
      /\ \A x \in TimelinesOf(u) \ {t} : state'[x] = state[x] /\ lbts'[x] = lbts[x]
      /\ UNCHANGED <<simclock, gateVars, windowVars, trainVars, umailbox>>
      /\ pc'[u] = (IF starts THEN "run" ELSE "sched") /\ scan'[u] = NoScan
  BY BoundTaken
<1>3. /\ ctx' = [ctx EXCEPT ![u] = [@ EXCEPT !.cur = IF starts THEN t ELSE NoTimeline,
                                             !.horizon = IF starts THEN h ELSE 0]]
      /\ state'[t] = IF simclock[t] # lb THEN state[t]
                     ELSE IF simclock[t] < next_window(u) THEN "WAITING"
                     ELSE IF next_window(u) >= endtime THEN "DONE" ELSE "ROUND"
      /\ runnable' = runnable
  BY <1>0, <1>1 DEF EndScan
<1>4. /\ ctx'[u].cur = (IF starts THEN t ELSE NoTimeline)
      /\ ctx'[u].horizon = (IF starts THEN h ELSE 0)
      /\ ctx'[u].out = ctx[u].out /\ ctx'[u].open = ctx[u].open /\ ctx'[u].io = ctx[u].io
  BY <1>0, <1>3 DEF ContextType
<1>5. starts => h \in Nat /\ simclock[t] <= h /\ h <= lb
  <2>1. simclock[t] + time_slice \in Nat /\ simclock[t] <= simclock[t] + time_slice
    BY <1>1, ParameterAssumption
  <2> QED BY <1>1, <2>1 DEF Lesser
<1>6. /\ InWindow(u)' /\ \A r : ~ScanFor(u, r)'
      /\ next_window(u)' = next_window(u)
  <2>1. InWindow(u)' /\ \A r : ~ScanFor(u, r)'
    BY <1>2 DEF InWindow, AtEdge, WindowLabels, ScanFor
  <2> QED BY <1>2, <2>1, StepKeeps
<1>7. /\ IsActive(u, t) /\ state[t] = "RUNNING" /\ ~IsOpening(u, t)
      /\ t \notin runnable[u] /\ ctx[u].cur \in {NoTimeline, t} /\ ctx[u].open = {}
  <2>1. IsActive(u, t)
    BY <1>1 DEF IsActive
  <2>2. t \notin runnable[u] /\ ctx[u].cur \in {NoTimeline, t} /\ ctx[u].open = {}
    BY <1>0, <1>1 DEF Control
  <2> QED BY <1>1, <2>1, <2>2 DEF TimelineOK
<1>8. TimelineOK(u, t)'
  <2>1. ~IsOpening(u, t)'
    BY <1>4, <1>6, <1>7 DEF IsOpening
  <2>2. CASE starts
    <3>1. state'[t] = "RUNNING" /\ IsActive(u, t)'
      BY <1>1, <1>3, <1>4, <1>7, <2>2 DEF IsActive
    <3>2. simclock'[t] <= lbts'[t] /\ lbts'[t] <= next_window(u)'
      BY <1>1, <1>2, <1>6, <2>2
    <3> QED BY <1>6, <2>1, <3>1, <3>2 DEF TimelineOK
  <2>3. CASE ~starts
    <3>1. simclock[t] = lb
      BY <1>1, <2>3
    <3>2. ~IsActive(u, t)'
      BY <1>1, <1>3, <1>4, <1>6, <1>7, <2>3 DEF IsActive
    <3>3. \/ state'[t] = "WAITING"
          \/ state'[t] \in {"ROUND", "DONE"} /\ simclock[t] = next_window(u)
      BY <1>1, <1>3, <3>1
    <3>4. simclock'[t] <= lbts'[t] /\ lbts'[t] <= next_window(u)' /\ simclock'[t] = simclock[t]
      BY <1>1, <1>2, <1>6, <3>1
    <3> QED BY <1>6, <2>1, <3>2, <3>3, <3>4 DEF TimelineOK
  <2> QED BY <2>2, <2>3
<1>9. \A x \in TimelinesOf(u) \ {t} : TimelineOK(u, x)'
  <2> SUFFICES ASSUME NEW x \in TimelinesOf(u) \ {t} PROVE TimelineOK(u, x)'
    OBVIOUS
  <2>1. /\ IsOpening(u, x)' <=> IsOpening(u, x)
        /\ IsActive(u, x)' <=> IsActive(u, x)
    BY <1>0, <1>1, <1>3, <1>4, <1>6, <1>7 DEF IsOpening, IsActive
  <2> QED BY <1>0, <1>1, <1>2, <1>6, <2>1, TimelineStays
<1>10. Owned(u)'
  BY <1>0, <1>1, <1>2, <1>3, <1>4, <1>6 DEF Owned, ScanFor
<1>11. Control(u)'
  <2>1. pc'[u] = "run" => starts
    BY <1>2
  <2>2. pc'[u] = "run" => /\ ctx'[u].cur = t /\ t \notin runnable'[u]
                          /\ simclock'[t] <= ctx'[u].horizon /\ ctx'[u].horizon <= lbts'[t]
    BY <1>2, <1>3, <1>4, <1>5, <1>7, <2>1
  <2>3. pc'[u] = "sched" => ctx'[u].cur = NoTimeline
    BY <1>2, <1>4
  <2> QED BY <1>2, <1>4, <1>6, <1>7, <2>2, <2>3 DEF Control
<1>12. ASSUME NEW x \in TimelinesOf(u) PROVE Reached(x) <= Reached(x)'
  <2>1. Reached(x) = simclock[x] /\ simclock[x] \in Nat
    BY <1>0, <1>1, SchedulingFacts DEF Reached
  <2>2. Reached(x)' = (IF starts /\ t = x THEN h ELSE simclock[x])
    BY <1>0, <1>2, <1>4 DEF Reached
  <2> QED BY <1>5, <2>1, <2>2
<1> QED BY <1>8, <1>9, <1>10, <1>11, <1>12 DEF ThreadOK

\* A bound for a timeline that is opened, or was blocked.
LEMMA BoundToWake ==
  ASSUME TypeOK, TypeOK', Meeting, Scheduling, NEW u \in Universes, EndScan(u), NEW t, t = scan[u].tl,
         scan[u].ret # "sched"
  PROVE  ThreadOK(u)' /\ \A x \in TimelinesOf(u) : Reached(x) <= Reached(x)'
<1> DEFINE lb == scan[u].low
           wakes == simclock[t] < lb /\ (scan[u].ret = "open" \/ lbts[t] < lb)
<1>0. /\ Owned(u) /\ Control(u) /\ \A x \in TimelinesOf(u) : TimelineOK(u, x)
      /\ runnable \in [Universes -> SUBSET Timelines] /\ DOMAIN state = Timelines
      /\ \A x \in TimelinesOf(u) : x \in Timelines /\ universe[x] = u /\ x # NoTimeline
  BY ThreadFacts DEF TypeOK, TimelineTypeOK
<1>1. /\ t \in TimelinesOf(u) /\ t \in Timelines /\ universe[t] = u /\ t # NoTimeline
      /\ simclock[t] \in Nat /\ lbts[t] \in Nat /\ lb \in Nat /\ next_window(u) \in Nat
      /\ simclock[t] <= lbts[t] /\ lbts[t] <= lb /\ lb <= next_window(u)
      /\ TimelineOK(u, t) /\ InWindow(u) /\ pc[u] = "scan"
      /\ scan[u].ret \in {"open", "update", "io"}
      /\ \A r : ScanFor(u, r) <=> r = scan[u].ret
  BY BoundKnown DEF ScanFor
<1>2. /\ OnlyThread(u) /\ lbts'[t] = lb
      /\ \A x \in TimelinesOf(u) \ {t} : state'[x] = state[x] /\ lbts'[x] = lbts[x]
      /\ UNCHANGED <<simclock, gateVars, windowVars, trainVars, umailbox>>
      /\ pc'[u] = scan[u].ret /\ scan'[u] = NoScan
  BY BoundTaken
<1>3. ctx' = ctx
  BY DEF EndScan
<1>4. /\ runnable'[u] = (IF wakes THEN runnable[u] \cup {t} ELSE runnable[u])
      /\ wakes => state'[t] = "RUNNING"
      /\ ~wakes => state'[t] = "WAITING"
  <2>1. CASE scan[u].ret = "open" \/ lbts[t] < lb
    <3>1. MakeRunnable(u, t, lb)
      BY <2>1 DEF EndScan
    <3> QED BY <1>0, <1>1, <2>1, <3>1 DEF MakeRunnable
  <2>2. CASE ~(scan[u].ret = "open" \/ lbts[t] < lb)
    <3>1. runnable' = runnable /\ state' = state
      BY <2>2 DEF EndScan
    <3>2. state[t] = "WAITING"
      BY <1>0, <1>1, <2>2 DEF Control
    <3> QED BY <2>2, <3>1, <3>2
  <2> QED BY <2>1, <2>2
<1>5. /\ InWindow(u)' /\ \A r : ~ScanFor(u, r)'
      /\ next_window(u)' = next_window(u)
  <2>1. InWindow(u)' /\ \A r : ~ScanFor(u, r)'
    BY <1>1, <1>2 DEF InWindow, AtEdge, WindowLabels, ScanFor
  <2> QED BY <1>2, <2>1, StepKeeps
<1>6. t \notin ctx[u].open /\ t # ctx[u].cur /\ t \notin runnable[u]
  <2>1. CASE scan[u].ret = "open"
    <3>1. t \notin ctx[u].open /\ ctx[u].cur = NoTimeline
      BY <1>0, <1>1, <2>1 DEF Control
    <3>2. IsOpening(u, t)
      BY <1>1, <2>1 DEF IsOpening
    <3> QED BY <1>1, <3>1, <3>2 DEF TimelineOK, IsActive
  <2>2. CASE scan[u].ret # "open"
    <3>1. state[t] = "WAITING" /\ ctx[u].open = {}
      BY <1>0, <1>1, <2>2 DEF Control
    <3> QED BY <1>1, <3>1 DEF TimelineOK, IsActive
  <2> QED BY <2>1, <2>2
<1>7. TimelineOK(u, t)'
  <2>1. ~IsOpening(u, t)'
    BY <1>3, <1>5, <1>6 DEF IsOpening
  <2>2. IsActive(u, t)' <=> wakes
    BY <1>3, <1>4, <1>5, <1>6 DEF IsActive
  <2>3. simclock'[t] <= lbts'[t] /\ lbts'[t] <= next_window(u)'
    BY <1>1, <1>2, <1>5
  <2> QED BY <1>4, <1>5, <2>1, <2>2, <2>3 DEF TimelineOK
<1>8. \A x \in TimelinesOf(u) \ {t} : TimelineOK(u, x)'
  <2> SUFFICES ASSUME NEW x \in TimelinesOf(u) \ {t} PROVE TimelineOK(u, x)'
    OBVIOUS
  <2>1. /\ IsOpening(u, x)' <=> IsOpening(u, x)
        /\ IsActive(u, x)' <=> IsActive(u, x)
    BY <1>0, <1>1, <1>3, <1>4, <1>5 DEF IsOpening, IsActive
  <2> QED BY <1>0, <1>1, <1>2, <1>5, <2>1, TimelineStays
<1>9. Owned(u)'
  BY <1>0, <1>1, <1>2, <1>3, <1>4, <1>5 DEF Owned, ScanFor
<1>10. Control(u)'
  <2>1. scan[u].ret = "open" => ctx[u].cur = NoTimeline
    BY <1>0, <1>1 DEF Control
  <2>2. scan[u].ret # "open" => ctx[u].open = {}
    BY <1>0, <1>1 DEF Control
  <2>3. scan[u].ret = "update" =>
          /\ ctx[u].cur \in runnable'[u] <=> simclock'[ctx[u].cur] < lbts'[ctx[u].cur]
          /\ \A s \in ctx[u].out : source[s] = ctx[u].cur /\ ~gate'[s].in_sync
    <3> SUFFICES ASSUME scan[u].ret = "update"
                 PROVE  /\ ctx[u].cur \in runnable'[u] <=> simclock'[ctx[u].cur] < lbts'[ctx[u].cur]
                        /\ \A s \in ctx[u].out : source[s] = ctx[u].cur /\ ~gate'[s].in_sync
      OBVIOUS
    <3>1. /\ ctx[u].cur \in runnable[u] <=> simclock[ctx[u].cur] < lbts[ctx[u].cur]
          /\ \A s \in ctx[u].out : source[s] = ctx[u].cur /\ ~gate[s].in_sync
      BY <1>0, <1>1 DEF Control
    <3>2. ctx[u].cur \in TimelinesOf(u)
      <4>1. ctx[u].cur \in Timelines
        BY <1>1 DEF TypeOK, Running
      <4>2. NoTimeline \notin Timelines
        BY TopologyAssumption DEF NoTimeline
      <4> QED BY <1>0, <4>1, <4>2 DEF Owned
    <3> QED BY <1>2, <1>4, <1>6, <3>1, <3>2 DEF gateVars
  <2>4. scan[u].ret = "io" => ctx[u].cur \notin runnable'[u]
    BY <1>0, <1>1, <1>4, <1>6 DEF Control
  <2> QED BY <1>1, <1>2, <1>3, <1>5, <2>1, <2>2, <2>3, <2>4 DEF Control
<1>11. ASSUME NEW x \in TimelinesOf(u) PROVE Reached(x) <= Reached(x)'
  <2>1. universe[x] = u /\ simclock[x] \in Nat
    BY <1>0, SchedulingFacts
  <2>2. Reached(x) = simclock[x]
    BY <1>1, <2>1 DEF Reached
  <2>3. Reached(x)' = simclock[x]
    BY <1>1, <1>2, <2>1 DEF Reached
  <2> QED BY <2>1, <2>2, <2>3
<1> QED BY <1>7, <1>8, <1>9, <1>10, <1>11 DEF ThreadOK

LEMMA EndScanScheduling ==
  ASSUME TypeOK, TypeOK', Meeting, Scheduling, NEW u \in Universes, EndScan(u)
  PROVE  Scheduling'
<1>1. ThreadOK(u)' /\ \A x \in TimelinesOf(u) : Reached(x) <= Reached(x)'
  <2>1. PICK t : t = scan[u].tl
    OBVIOUS
  <2>2. CASE scan[u].ret = "sched"
    BY <2>1, <2>2, BoundToRun
  <2>3. CASE scan[u].ret # "sched"
    BY <2>1, <2>3, BoundToWake
  <2> QED BY <2>2, <2>3
<1>2. OnlyThread(u) /\ pc'[u] # "scan" /\ gate' = gate
  BY BoundTaken, BoundKnown DEF gateVars
<1>3. \A s \in Stargates : target[s] \in TimelinesOf(u) /\ ~InGate(s).in_sync =>
        lbts'[target[s]] <= InGate(s)'.time
  BY BoundTaken
<1>4. Gates'
  BY <1>1, <1>2, <1>3, StepGates
<1> QED BY <1>1, <1>2, <1>4, StepScheduling

-----------------------------------------------------------------------------
(* A timeline runs, and tells its successors.                              *)

LEMMA RunEventScheduling ==
  ASSUME TypeOK, TypeOK', Scheduling, NEW u \in Universes, RunEvent(u)
  PROVE  Scheduling'
<1>0. /\ Owned(u) /\ Control(u) /\ \A x \in TimelinesOf(u) : TimelineOK(u, x)
      /\ \A x \in TimelinesOf(u) : x \in Timelines /\ universe[x] = u /\ x # NoTimeline
  BY ThreadFacts
<1>1. PICK t \in Timelines : t = ctx[u].cur
  BY DEF RunEvent, TypeOK, Running
<1>2. PICK e \in evtlist[t] : e.t <= ctx[u].horizon /\ simclock' = [simclock EXCEPT ![t] = e.t]
  BY <1>1 DEF RunEvent
<1>3. /\ pc[u] = "run"
      /\ UNCHANGED <<lbts, state, gateVars, windowVars, trainVars, umailbox, pc, ctx, scan, runnable>>
  BY DEF RunEvent, threadVars
<1>4. /\ t \in TimelinesOf(u) /\ universe[t] = u /\ simclock'[t] = e.t /\ e.t \in Nat
      /\ \A x \in Timelines \ {t} : simclock'[x] = simclock[x]
  <2>1. t # NoTimeline
    BY TopologyAssumption DEF NoTimeline
  <2>2. simclock \in [Timelines -> Nat] /\ e.t \in Nat
    BY DEF TypeOK, TimelineTypeOK, EventType
  <2> QED BY <1>0, <1>1, <1>2, <2>1, <2>2 DEF Owned
<1>5. OnlyThread(u)
  <2>1. \A s \in Stargates : InGate(s).time <= InGate(s)'.time
    <3>1. \A s \in Stargates : InGate(s).time \in Nat /\ InGate(s)' = InGate(s)
      BY <1>3, SchedulingFacts DEF gateVars, InGate
    <3> QED BY <3>1
  <2>2. \A x \in Timelines \ TimelinesOf(u) : simclock'[x] = simclock[x]
    BY <1>4
  <2> QED BY <1>3, <2>1, <2>2 DEF OnlyThread, gateVars
<1>6. /\ InWindow(u) /\ InWindow(u)' /\ \A r : ~ScanFor(u, r) /\ ~ScanFor(u, r)'
  BY <1>3 DEF InWindow, AtEdge, WindowLabels, ScanFor
<1>7. \A x : /\ IsOpening(u, x)' <=> IsOpening(u, x)
             /\ IsActive(u, x)' <=> IsActive(u, x)
  BY <1>3, <1>6 DEF IsOpening, IsActive
<1>8. ctx[u].horizon <= lbts[t] /\ ctx[u].horizon \in Nat /\ lbts[t] \in Nat
  BY <1>0, <1>1, <1>3, SchedulingFacts DEF Control
<1>9. TimelineOK(u, t)'
  <2>1. IsActive(u, t) /\ TimelineOK(u, t)
    BY <1>0, <1>1, <1>4 DEF IsActive
  <2>2. simclock'[t] <= lbts'[t]
    BY <1>2, <1>3, <1>4, <1>8
  <2>3. next_window(u)' = next_window(u)
    BY <1>5, StepKeeps
  <2> QED BY <1>3, <1>6, <1>7, <2>1, <2>2, <2>3 DEF TimelineOK
<1>10. \A x \in TimelinesOf(u) \ {t} : TimelineOK(u, x)'
  BY <1>0, <1>3, <1>4, <1>5, <1>6, <1>7, TimelineStays
<1>11. Owned(u)'
  BY <1>0, <1>3 DEF Owned
<1>12. Control(u)'
  BY <1>0, <1>1, <1>2, <1>3, <1>4, <1>6, <1>8 DEF Control
<1>13. Gates'
  <2>1. \A x \in TimelinesOf(u) : Reached(x) <= Reached(x)'
    <3> SUFFICES ASSUME NEW x \in TimelinesOf(u) PROVE Reached(x) <= Reached(x)'
      OBVIOUS
    <3>1. Reached(x)' = Reached(x)
      BY <1>0, <1>1, <1>3, <1>4 DEF Reached
    <3> QED BY <1>0, <3>1, SchedulingFacts
  <2>2. \A s \in Stargates : ~InGate(s).in_sync => lbts'[target[s]] <= InGate(s)'.time
    BY <1>3 DEF Scheduling, Gates, InGate, gateVars
  <2> QED BY <1>3, <1>5, <2>1, <2>2, StepGates DEF gateVars
<1> QED BY <1>3, <1>5, <1>9, <1>10, <1>11, <1>12, <1>13, StepScheduling DEF ThreadOK

LEMMA RunEndScheduling ==
  ASSUME TypeOK, TypeOK', Scheduling, NEW u \in Universes, RunEnd(u)
  PROVE  Scheduling'
<1>0. /\ Owned(u) /\ Control(u) /\ \A x \in TimelinesOf(u) : TimelineOK(u, x)
      /\ \A x \in TimelinesOf(u) : x \in Timelines /\ universe[x] = u /\ x # NoTimeline
      /\ pc \in [Universes -> Labels] /\ ctx \in [Universes -> ContextType]
      /\ runnable \in [Universes -> SUBSET Timelines]
  BY ThreadFacts
<1>1. PICK t \in Timelines, h \in Nat : t = ctx[u].cur /\ h = ctx[u].horizon
  BY SchedulingFacts DEF RunEnd, TypeOK, Running
<1>2. /\ pc[u] = "run" /\ simclock' = [simclock EXCEPT ![t] = h]
      /\ ctx' = [ctx EXCEPT ![u] = [@ EXCEPT !.out = OutboundAsync(t), !.horizon = 0]]
      /\ pc' = [pc EXCEPT ![u] = "update"]
      /\ UNCHANGED <<lbts, gateVars, windowVars, trainVars, umailbox, scan>>
      /\ IF h < lbts[t] THEN MakeRunnable(u, t, lbts[t]) ELSE UNCHANGED <<state, runnable>>
  BY <1>1 DEF RunEnd, Goto, mailVars
<1>3. /\ ctx'[u].cur = t /\ ctx'[u].open = ctx[u].open /\ ctx'[u].io = ctx[u].io
      /\ ctx'[u].out = OutboundAsync(t) /\ pc'[u] = "update"
      /\ \A v \in Universes \ {u} : ctx'[v] = ctx[v] /\ pc'[v] = pc[v]
  BY <1>0, <1>1, <1>2 DEF ContextType
<1>4. /\ t \in TimelinesOf(u) /\ universe[t] = u /\ t # NoTimeline /\ simclock'[t] = h
      /\ \A x \in Timelines \ {t} : simclock'[x] = simclock[x]
      /\ simclock[t] \in Nat /\ lbts[t] \in Nat
  <2>1. t # NoTimeline
    BY TopologyAssumption DEF NoTimeline
  <2>2. simclock \in [Timelines -> Nat]
    BY DEF TypeOK, TimelineTypeOK
  <2> QED BY <1>0, <1>1, <1>2, <2>1, <2>2, SchedulingFacts DEF Owned
<1>5. /\ t \notin runnable[u] /\ simclock[t] <= h /\ h <= lbts[t] /\ ctx[u].open = {}
  BY <1>0, <1>1, <1>2 DEF Control, ScanFor
<1>6. IsActive(u, t) /\ state[t] = "RUNNING"
  BY <1>0, <1>1, <1>4 DEF IsActive, TimelineOK
<1>7. /\ state' = state
      /\ runnable'[u] = (IF h < lbts[t] THEN runnable[u] \cup {t} ELSE runnable[u])
      /\ \A v \in Universes \ {u} : runnable'[v] = runnable[v]
  <2>1. CASE h < lbts[t]
    <3>1. /\ simclock[t] < lbts[t]
          /\ state \in [Timelines -> {"START", "RUNNING", "WAITING", "ROUND", "DONE"}]
      BY <1>1, <1>4, <1>5, <2>1 DEF TypeOK, TimelineTypeOK
    <3>2. /\ state' = [state EXCEPT ![t] = "RUNNING"]
          /\ runnable' = [runnable EXCEPT ![u] = @ \cup {t}]
      BY <1>2, <2>1, <3>1 DEF MakeRunnable
    <3> QED BY <1>0, <1>6, <2>1, <3>1, <3>2
  <2>2. CASE ~(h < lbts[t])
    BY <1>2, <2>2
  <2> QED BY <2>1, <2>2
<1>8. OnlyThread(u)
  <2>1. \A s \in Stargates : InGate(s).time <= InGate(s)'.time
    <3>1. \A s \in Stargates : InGate(s).time \in Nat /\ InGate(s)' = InGate(s)
      BY <1>2, SchedulingFacts DEF gateVars, InGate
    <3> QED BY <3>1
  <2>2. \A x \in Timelines \ TimelinesOf(u) : simclock'[x] = simclock[x]
    BY <1>4
  <2> QED BY <1>2, <1>3, <1>7, <2>1, <2>2 DEF OnlyThread, gateVars
<1>9. /\ InWindow(u) /\ InWindow(u)' /\ \A r : ~ScanFor(u, r) /\ ~ScanFor(u, r)'
      /\ next_window(u)' = next_window(u)
  <2>1. InWindow(u) /\ InWindow(u)' /\ \A r : ~ScanFor(u, r) /\ ~ScanFor(u, r)'
    BY <1>2, <1>3 DEF InWindow, AtEdge, WindowLabels, ScanFor
  <2> QED BY <1>8, <2>1, StepKeeps
<1>10. \A x : /\ IsOpening(u, x)' <=> IsOpening(u, x)
              /\ IsActive(u, x)' <=> IsActive(u, x)
  BY <1>1, <1>3, <1>7, <1>9 DEF IsOpening, IsActive
<1>11. TimelineOK(u, t)'
  <2>1. TimelineOK(u, t)
    BY <1>0, <1>4
  <2>2. simclock'[t] <= lbts'[t]
    BY <1>2, <1>4, <1>5
  <2> QED BY <1>2, <1>6, <1>7, <1>9, <1>10, <2>1, <2>2 DEF TimelineOK
<1>12. \A x \in TimelinesOf(u) \ {t} : TimelineOK(u, x)'
  BY <1>0, <1>2, <1>4, <1>7, <1>8, <1>9, <1>10, TimelineStays
<1>13. Owned(u)'
  BY <1>0, <1>1, <1>2, <1>3, <1>4, <1>7 DEF Owned
<1>14. Control(u)'
  <2>1. t \in runnable'[u] <=> simclock'[t] < lbts'[t]
    BY <1>2, <1>4, <1>5, <1>7
  <2>2. \A s \in ctx'[u].out : source[s] = t /\ ~gate'[s].in_sync
    BY <1>2, <1>3 DEF OutboundAsync, gateVars
  <2> QED BY <1>3, <1>5, <1>9, <2>1, <2>2 DEF Control
<1>15. Gates'
  <2>1. \A x \in TimelinesOf(u) : Reached(x) <= Reached(x)'
    <3> SUFFICES ASSUME NEW x \in TimelinesOf(u) PROVE Reached(x) <= Reached(x)'
      OBVIOUS
    <3>1. Reached(x)' = simclock'[x] /\ Reached(x) = IF x = t THEN h ELSE simclock[x]
      BY <1>0, <1>1, <1>2, <1>3 DEF Reached
    <3>2. simclock[x] \in Nat
      BY <1>0, SchedulingFacts
    <3> QED BY <1>0, <1>4, <3>1, <3>2
  <2>2. \A s \in Stargates : ~InGate(s).in_sync => lbts'[target[s]] <= InGate(s)'.time
    BY <1>2 DEF Scheduling, Gates, InGate, gateVars
  <2> QED BY <1>2, <1>8, <2>1, <2>2, StepGates DEF gateVars
<1> QED BY <1>3, <1>8, <1>11, <1>12, <1>13, <1>14, <1>15, StepScheduling DEF ThreadOK

\* The channel time that a timeline announces is not before the one it has
\* announced earlier; and what the announcement does to the thread.
LEMMA TimeSet ==
  ASSUME TypeOK, Scheduling, NEW u \in Universes, UpdateTime(u)
  PROVE  \E t \in TimelinesOf(u), s \in ctx[u].out :
         /\ t = ctx[u].cur /\ t \in Timelines /\ universe[t] = u /\ s \in Stargates
         /\ source[s] = t /\ ~gate[s].in_sync /\ pc[u] = "update"
         /\ UNCHANGED <<simclock, lbts, state, rgate, windowVars, trainVars, umailbox, runnable>>
         /\ gate[s].time <= simclock[t] + min_delay[s]
         /\ \A r \in Stargates : r # s => gate'[r] = gate[r]
         /\ gate'[s].in_sync = gate[s].in_sync /\ gate[s].time <= gate'[s].time
         /\ gate'[s].time <= simclock[t] + min_delay[s]
         /\ \/ UNCHANGED <<ctx, scan>> /\ pc' = [pc EXCEPT ![u] = "notify"]
            \/ /\ ctx' = [ctx EXCEPT ![u].out = @ \ {s}]
               /\ \/ UNCHANGED <<pc, scan>>
                  \/ /\ target[s] \in TimelinesOf(u) /\ state[target[s]] = "WAITING"
                     /\ BeginScan(u, target[s], "update")
<1>0. /\ Owned(u) /\ Control(u) /\ ctx[u] \in ContextType
      /\ gate \in [Stargates -> GateType]
  BY ThreadFacts DEF TypeOK, TimelineTypeOK
<1>1. PICK s \in ctx[u].out : pc[u] = "update" /\ SetTime(u, s)
  BY DEF UpdateTime
<1>2. PICK t \in Timelines : t = ctx[u].cur
  BY <1>1 DEF TypeOK, Running
<1>3. t # NoTimeline /\ t \in TimelinesOf(u) /\ universe[t] = u
  BY <1>0, <1>2, TopologyAssumption DEF Owned, NoTimeline, TimelinesOf
<1>4. s \in Stargates /\ source[s] = t /\ ~gate[s].in_sync
  BY <1>0, <1>1, <1>2 DEF Control, ContextType
<1> DEFINE now == simclock[t] + min_delay[s]
<1>5. gate[s].time <= now /\ now \in Nat /\ gate[s].time \in Nat
  <2>1. Reached(t) = simclock[t]
    BY <1>1, <1>3 DEF Reached
  <2>2. gate[s].time <= Reached(source[s]) + min_delay[s]
    BY <1>4 DEF Scheduling, Gates
  <2>3. simclock[t] \in Nat /\ min_delay[s] \in Nat /\ gate[s].time \in Nat
    BY <1>2, <1>4, SchedulingFacts
  <2> QED BY <1>4, <2>1, <2>2, <2>3
<1>6. gate' = gate \/ gate' = [gate EXCEPT ![s].time = now]
  BY <1>1, <1>2 DEF SetTime
<1> HIDE DEF now
<1>7. /\ \A r \in Stargates : r # s => gate'[r] = gate[r]
      /\ gate'[s].in_sync = gate[s].in_sync /\ gate[s].time <= gate'[s].time
      /\ gate'[s].time <= now
  <2>1. CASE gate' = gate
    BY <1>5, <2>1
  <2>2. CASE gate' = [gate EXCEPT ![s].time = now]
    BY <1>0, <1>4, <1>5, <2>2 DEF GateType
  <2> QED BY <1>6, <2>1, <2>2
<1>8. UNCHANGED <<simclock, lbts, state, rgate, windowVars, trainVars, umailbox, runnable>>
  BY <1>1 DEF SetTime, tmlnVars, mailVars
<1>9. \/ UNCHANGED <<ctx, scan>> /\ pc' = [pc EXCEPT ![u] = "notify"]
      \/ /\ ctx' = [ctx EXCEPT ![u].out = @ \ {s}]
         /\ \/ UNCHANGED <<pc, scan>>
            \/ /\ SameUniverse(s) /\ state[target[s]] = "WAITING"
               /\ BeginScan(u, target[s], "update")
  BY <1>1 DEF SetTime, Goto
<1>10. SameUniverse(s) => target[s] \in TimelinesOf(u)
  BY <1>3, <1>4, TopologyAssumption DEF SameUniverse, TimelinesOf
<1> QED BY <1>1, <1>2, <1>3, <1>4, <1>5, <1>7, <1>8, <1>9, <1>10 DEF now

LEMMA UpdateTimeScheduling ==
  ASSUME TypeOK, TypeOK', Scheduling, NEW u \in Universes, UpdateTime(u)
  PROVE  Scheduling'
<1>0. /\ Owned(u) /\ Control(u) /\ \A x \in TimelinesOf(u) : TimelineOK(u, x)
      /\ \A x \in TimelinesOf(u) : x \in Timelines /\ universe[x] = u /\ x # NoTimeline
      /\ pc \in [Universes -> Labels] /\ ctx \in [Universes -> ContextType]
  BY ThreadFacts
<1>1. PICK t \in TimelinesOf(u), s \in ctx[u].out :
         /\ t = ctx[u].cur /\ t \in Timelines /\ universe[t] = u /\ s \in Stargates
         /\ source[s] = t /\ ~gate[s].in_sync /\ pc[u] = "update"
         /\ UNCHANGED <<simclock, lbts, state, rgate, windowVars, trainVars, umailbox, runnable>>
         /\ gate[s].time <= simclock[t] + min_delay[s]
         /\ \A r \in Stargates : r # s => gate'[r] = gate[r]
         /\ gate'[s].in_sync = gate[s].in_sync /\ gate[s].time <= gate'[s].time
         /\ gate'[s].time <= simclock[t] + min_delay[s]
         /\ \/ UNCHANGED <<ctx, scan>> /\ pc' = [pc EXCEPT ![u] = "notify"]
            \/ /\ ctx' = [ctx EXCEPT ![u].out = @ \ {s}]
               /\ \/ UNCHANGED <<pc, scan>>
                  \/ /\ target[s] \in TimelinesOf(u) /\ state[target[s]] = "WAITING"
                     /\ BeginScan(u, target[s], "update")
  BY TimeSet
<1>2. PICK wakes \in BOOLEAN :
        /\ wakes => /\ target[s] \in TimelinesOf(u) /\ state[target[s]] = "WAITING"
                    /\ BeginScan(u, target[s], "update")
                    /\ pc'[u] = "scan" /\ scan'[u].tl = target[s] /\ scan'[u].ret = "update"
        /\ ~wakes => pc'[u] \in {"update", "notify"} /\ scan'[u] = scan[u]
        /\ \A v \in Universes \ {u} : pc'[v] = pc[v] /\ scan'[v] = scan[v]
  <2>1. CASE BeginScan(u, target[s], "update") /\ target[s] \in TimelinesOf(u)
             /\ state[target[s]] = "WAITING"
    <3>1. /\ pc'[u] = "scan" /\ scan'[u].tl = target[s] /\ scan'[u].ret = "update"
          /\ \A v \in Universes \ {u} : pc'[v] = pc[v] /\ scan'[v] = scan[v]
      BY <2>1, ScanStarted
    <3> QED BY <2>1, <3>1
  <2>2. CASE scan' = scan /\ (pc' = pc \/ pc' = [pc EXCEPT ![u] = "notify"])
    <3>1. /\ pc'[u] \in {"update", "notify"} /\ scan'[u] = scan[u]
          /\ \A v \in Universes \ {u} : pc'[v] = pc[v] /\ scan'[v] = scan[v]
      BY <1>0, <1>1, <2>2
    <3> QED BY <3>1
  <2> QED BY <1>1, <2>1, <2>2
<1>3. /\ ctx'[u].cur = t /\ ctx'[u].open = ctx[u].open /\ ctx'[u].io = ctx[u].io
      /\ ctx'[u].out \subseteq ctx[u].out
      /\ \A v \in Universes \ {u} : ctx'[v] = ctx[v]
  <2>1. CASE ctx' = ctx
    BY <1>1, <2>1
  <2>2. CASE ctx' = [ctx EXCEPT ![u].out = @ \ {s}]
    BY <1>0, <1>1, <2>2 DEF ContextType
  <2> QED BY <1>1, <2>1, <2>2
<1>4. \A r \in Stargates : /\ gate'[r].in_sync = gate[r].in_sync
                           /\ gate[r].time <= gate'[r].time
                           /\ InGate(r).time <= InGate(r)'.time
  <2> SUFFICES ASSUME NEW r \in Stargates
               PROVE  /\ gate'[r].in_sync = gate[r].in_sync
                      /\ gate[r].time <= gate'[r].time
                      /\ InGate(r).time <= InGate(r)'.time
    OBVIOUS
  <2>1. gate[r].time \in Nat /\ rgate[r].time \in Nat /\ rgate' = rgate
    BY <1>1, SchedulingFacts
  <2>2. gate'[r].in_sync = gate[r].in_sync /\ gate[r].time <= gate'[r].time
    BY <1>1, <2>1
  <2> QED BY <2>1, <2>2 DEF InGate
<1>5. OnlyThread(u)
  <2>1. /\ pc[u] = "update" /\ umailbox' = umailbox /\ runnable' = runnable /\ rgate' = rgate
        /\ simclock' = simclock /\ lbts' = lbts /\ state' = state
        /\ UNCHANGED <<windowVars, trainVars>>
    BY <1>1
  <2> QED BY <1>2, <1>3, <1>4, <2>1 DEF OnlyThread
<1>6. /\ InWindow(u) /\ InWindow(u)' /\ \A r : ~ScanFor(u, r)
      /\ \A r : ScanFor(u, r)' <=> wakes /\ r = "update"
      /\ next_window(u)' = next_window(u)
  <2>1. InWindow(u) /\ \A r : ~ScanFor(u, r)
    BY <1>1 DEF InWindow, AtEdge, WindowLabels, ScanFor
  <2>2. InWindow(u)' /\ \A r : ScanFor(u, r)' <=> wakes /\ r = "update"
    <3>1. CASE wakes
      BY <1>2, <3>1 DEF InWindow, AtEdge, WindowLabels, ScanFor
    <3>2. CASE ~wakes
      BY <1>2, <3>2 DEF InWindow, AtEdge, WindowLabels, ScanFor
    <3> QED BY <3>1, <3>2
  <2> QED BY <1>5, <2>1, <2>2, StepKeeps
<1>7. \A x : /\ IsOpening(u, x)' <=> IsOpening(u, x)
             /\ IsActive(u, x)' <=> IsActive(u, x)
  BY <1>1, <1>3, <1>6 DEF IsOpening, IsActive
<1>8. \A x \in TimelinesOf(u) : TimelineOK(u, x)'
  BY <1>0, <1>1, <1>5, <1>6, <1>7, TimelineStays
<1>9. Owned(u)'
  <2>1. pc'[u] = "scan" => wakes
    BY <1>2
  <2> QED BY <1>0, <1>1, <1>2, <1>3, <2>1 DEF Owned
<1>10. Control(u)'
  <2>1. /\ ctx[u].cur \in runnable[u] <=> simclock[ctx[u].cur] < lbts[ctx[u].cur]
        /\ \A r \in ctx[u].out : source[r] = ctx[u].cur /\ ~gate[r].in_sync
        /\ ctx[u].open = {}
    BY <1>0, <1>1, <1>6 DEF Control
  <2>2. /\ t \in runnable'[u] <=> simclock'[t] < lbts'[t]
        /\ ctx'[u].open = {}
    BY <1>1, <1>3, <2>1
  <2>3. \A r \in ctx'[u].out : source[r] = t /\ ~gate'[r].in_sync
    BY <1>0, <1>1, <1>3, <1>4, <2>1 DEF ContextType
  <2>4. wakes => state'[scan'[u].tl] = "WAITING"
    BY <1>1, <1>2
  <2>5. pc'[u] \in {"update", "notify", "scan"}
    BY <1>2
  <2> QED BY <1>3, <1>6, <2>2, <2>3, <2>4, <2>5 DEF Control
<1>11. pc'[u] = "scan" => ScanOK(u)'
  <2> SUFFICES ASSUME pc'[u] = "scan" PROVE ScanOK(u)'
    OBVIOUS
  <2>1. wakes
    BY <1>2
  <2>2. TimelineOK(u, target[s]) /\ state[target[s]] = "WAITING" /\ BeginScan(u, target[s], "update")
    BY <1>0, <1>2, <2>1
  <2>3. lbts[target[s]] <= next_window(u)
    BY <2>2 DEF TimelineOK
  <2> QED BY <1>1, <2>2, <2>3, ScanBegins, WindowFacts DEF TypeOK
<1>12. Gates'
  <2> SUFFICES ASSUME NEW r \in Stargates
               PROVE  /\ gate'[r].time <= Reached(source[r])' + min_delay[r]
                      /\ ~InGate(r)'.in_sync => lbts'[target[r]] <= InGate(r)'.time
    BY DEF Gates
  <2>1. Reached(source[r])' = Reached(source[r])
    <3>1. source[r] \in Timelines
      BY SchedulingFacts
    <3>2. CASE source[r] \in TimelinesOf(u)
      <4>1. universe[source[r]] = u /\ pc[u] # "run" /\ pc'[u] # "run" /\ simclock' = simclock
        BY <1>0, <1>1, <1>2, <3>2
      <4> QED BY <4>1 DEF Reached
    <3>3. CASE source[r] \notin TimelinesOf(u)
      BY <1>5, <3>1, <3>3, StepKeeps
    <3> QED BY <3>2, <3>3
  <2>2. gate'[r].time <= Reached(source[r]) + min_delay[r]
    <3>1. CASE r = s
      <4>1. Reached(source[r]) = simclock[t]
        BY <1>1, <3>1 DEF Reached
      <4> QED BY <1>1, <3>1, <4>1
    <3>2. CASE r # s
      BY <1>1, <3>2 DEF Scheduling, Gates
    <3> QED BY <3>1, <3>2
  <2>3. ~InGate(r)'.in_sync => lbts'[target[r]] <= InGate(r)'.time
    <3>1. InGate(r)'.in_sync = InGate(r).in_sync /\ lbts' = lbts
      BY <1>1, <1>5, StepKeeps
    <3>2. ~InGate(r).in_sync => lbts[target[r]] <= InGate(r).time
      BY DEF Scheduling, Gates
    <3>3. lbts[target[r]] \in Nat /\ InGate(r).time \in Nat /\ InGate(r).time <= InGate(r)'.time
      BY <1>4, SchedulingFacts
    <3>4. gate'[r] \in GateType /\ rgate'[r] \in GateType
      BY DEF TypeOK, TimelineTypeOK
    <3>5. InGate(r)'.time \in Nat
      BY <3>4 DEF GateType, InGate
    <3> QED BY <3>1, <3>2, <3>3, <3>5
  <2> QED BY <2>1, <2>2, <2>3
<1> QED BY <1>5, <1>8, <1>9, <1>10, <1>11, <1>12, StepScheduling DEF ThreadOK

-----------------------------------------------------------------------------
(* The end of a window.                                                    *)

\* A thread that finds nobody runnable and nobody blocked has all its timelines
\* at the end of the window.
LEMMA AdvanceScheduling ==
  ASSUME TypeOK, TypeOK', Meeting, Scheduling, NEW u \in Universes, AdvanceWindow(u)
  PROVE  Scheduling'
<1>0. /\ Owned(u) /\ Control(u) /\ \A x \in TimelinesOf(u) : TimelineOK(u, x)
      /\ \A x \in TimelinesOf(u) : x \in Timelines /\ universe[x] = u /\ x # NoTimeline
  BY ThreadFacts
<1>1. /\ pc[u] = "sched" /\ runnable[u] = {} /\ Blocked(u) = {}
      /\ UNCHANGED <<simclock, lbts, state, gateVars, umailbox, inbound_async, trainVars,
                     ctx, scan, runnable>>
  BY DEF AdvanceWindow, tmlnVars, mailVars
<1>2. /\ synpoint'[u] = next_window(u) /\ pc'[u] \in {"top", "end"}
      /\ InWindow(u) /\ ~InWindow(u)'
      /\ \A v \in Universes \ {u} :
              /\ synpoint'[v] = synpoint[v]
              /\ next_decade'[v] = next_decade[v] /\ next_epoch'[v] = next_epoch[v]
              /\ pc'[v] = pc[v]
  BY WindowLeft DEF Meeting
<1>3. \A v \in Universes \ {u} : Kept(v)
  BY <1>1, <1>2 DEF Kept, next_window, gateVars
<1>4. \A r : ~ScanFor(u, r) /\ ~ScanFor(u, r)'
  BY <1>1, <1>2 DEF ScanFor
<1>5. ctx[u].cur = NoTimeline /\ ctx[u].open = {}
  BY <1>0, <1>1, <1>4 DEF Control
<1>6. ASSUME NEW x \in TimelinesOf(u) PROVE TimelineOK(u, x)'
  <2>1. TimelineOK(u, x) /\ state[x] # "WAITING" /\ simclock[x] \in Nat /\ lbts[x] \in Nat
        /\ next_window(u) \in Nat
    BY <1>0, <1>1, SchedulingFacts DEF Blocked
  <2>2. /\ ~IsActive(u, x) /\ ~IsOpening(u, x)
        /\ ~IsActive(u, x)' /\ ~IsOpening(u, x)'
    BY <1>0, <1>1, <1>4, <1>5 DEF IsActive, IsOpening
  <2>3. /\ state[x] \in {"ROUND", "DONE"} /\ simclock[x] = next_window(u)
        /\ lbts[x] = next_window(u)
    BY <1>2, <2>1, <2>2 DEF TimelineOK
  <2> QED BY <1>1, <1>2, <2>1, <2>2, <2>3 DEF TimelineOK
<1>7. Owned(u)'
  BY <1>0, <1>1, <1>2 DEF Owned
<1>8. Control(u)'
  BY <1>1, <1>2, <1>4, <1>5 DEF Control
<1>9. Threads'
  <2>1. ThreadOK(u)'
    BY <1>6, <1>7, <1>8 DEF ThreadOK
  <2> QED BY <1>3, <2>1, KeepThread DEF Scheduling, Threads
<1>10. Gates'
  <2>1. \A t \in Timelines : Reached(t)' = Reached(t)
    <3> SUFFICES ASSUME NEW t \in Timelines PROVE Reached(t)' = Reached(t)
      OBVIOUS
    <3>1. CASE universe[t] = u
      BY <1>1, <1>2, <3>1 DEF Reached
    <3>2. CASE universe[t] # u
      BY <1>3, <3>2, ReachedKept, TopologyAssumption
    <3> QED BY <3>1, <3>2
  <2> QED BY <1>1, <2>1, TopologyAssumption DEF Scheduling, Gates, InGate, gateVars
<1>11. Scans'
  <2> SUFFICES ASSUME NEW v \in Universes, pc'[v] = "scan" PROVE ScanOK(v)'
    BY DEF Scans
  <2>1. v \in Universes \ {u} /\ pc[v] = "scan"
    BY <1>2
  <2>2. ScanOK(v) /\ ThreadOK(v) /\ Kept(v)
    BY <1>3, <2>1 DEF Scheduling, Scans, Threads
  <2>3. \A s \in Stargates : InGate(s).time <= InGate(s)'.time
    <3>1. \A s \in Stargates : InGate(s).time \in Nat /\ InGate(s)' = InGate(s)
      BY <1>1, SchedulingFacts DEF gateVars, InGate
    <3> QED BY <3>1
  <2> QED BY <1>1, <2>1, <2>2, <2>3, KeepScan
<1>12. RemoteListed'
  <2>1. \A s \in RemoteGates : s \in Stargates /\ TargetMachine(s) \in Machines
    BY SchedulingFacts DEF RemoteGates
  <2>2. \A n \in Machines : Stage(n) = "trained" => Stage(n)' = "trained"
    BY <1>1, <1>2, TopologyAssumption DEF Stage
  <2>3. UNCHANGED <<rgate, inbound_async, global_reclassified>>
    BY <1>1 DEF gateVars, trainVars, globalVars
  <2> QED BY <2>1, <2>2, <2>3 DEF Scheduling, RemoteListed
<1> QED BY <1>9, <1>10, <1>11, <1>12 DEF Scheduling

-----------------------------------------------------------------------------
(* Training, at an edge.                                                   *)

\* A classification leaves a stargate its time, or gives one that becomes
\* asynchronous the time that its delay promises at the edge.
Reclassed(g, h, s, now) ==
  \/ h.time = g.time /\ (~h.in_sync => ~g.in_sync)
  \/ h.time = now + min_delay[s]

LEMMA ClassifyIs ==
  ASSUME NEW g \in [Stargates -> GateType], NEW S, NEW thresh, NEW now, NEW s \in Stargates
  PROVE  Reclassed(g[s], Classify(g, S, thresh, now)[s], s, now)
<1> DEFINE h == Classify(g, S, thresh, now)[s]
<1>1. g[s] \in GateType
  OBVIOUS
<1>2. CASE s \notin S
  BY <1>2 DEF Classify, Reclassed
<1>3. CASE s \in S /\ min_delay[s] < thresh
  <2>1. h = [in_sync |-> FALSE, time |-> IF g[s].in_sync THEN now + min_delay[s] ELSE g[s].time]
    BY <1>3 DEF Classify
  <2>2. h.time = (IF g[s].in_sync THEN now + min_delay[s] ELSE g[s].time)
    BY <2>1
  <2> QED BY <2>2 DEF Reclassed
<1>4. CASE s \in S /\ ~(min_delay[s] < thresh)
  <2>1. h = [g[s] EXCEPT !.in_sync = TRUE]
    BY <1>4 DEF Classify
  <2>2. h.time = g[s].time /\ h.in_sync = TRUE
    BY <1>1, <2>1 DEF GateType
  <2> QED BY <2>2 DEF Reclassed
<1> QED BY <1>2, <1>3, <1>4

\* The machines M, which are at an edge, classify stargates.
LEMMA TrainingScheduling ==
  ASSUME TypeOK, TypeOK', Scheduling, NEW M \in SUBSET Machines,
         UNCHANGED <<simclock, lbts, state, windowVars, scan, runnable, ctx, umailbox>>,
         \A v \in Universes : pc'[v] = pc[v] \/ {pc[v], pc'[v]} \cap WindowLabels = {},
         \A v \in Universes : machine[v] \in M => ~InWindow(v),
         \A s \in Stargates : gate'[s] = gate[s] \/
            /\ SourceMachine(s) \in M
            /\ Reclassed(gate[s], gate'[s], s, synpoint[universe[source[s]]]),
         \A s \in Stargates : InGate(s)' = InGate(s) \/
            /\ TargetMachine(s) \in M
            /\ Reclassed(InGate(s), InGate(s)', s, synpoint[universe[target[s]]]),
         RemoteListed'
  PROVE  Scheduling'
<1>0. \A s \in Stargates : /\ universe[source[s]] \in Universes /\ universe[target[s]] \in Universes
                           /\ SourceMachine(s) = machine[universe[source[s]]]
                           /\ TargetMachine(s) = machine[universe[target[s]]]
                           /\ source[s] \in Timelines /\ target[s] \in Timelines
  BY TopologyAssumption DEF SourceMachine, TargetMachine
<1>1. ASSUME NEW v \in Universes PROVE Kept(v)
  <2>1. InWindow(v) => \A s \in Stargates : universe[source[s]] = v =>
                          gate'[s].in_sync = gate[s].in_sync
    BY <1>0
  <2> QED BY <2>1 DEF Kept, windowVars, next_window
<1>2. Threads'
  BY <1>1, KeepThread DEF Scheduling, Threads
<1>3. ASSUME NEW t \in Timelines, ~InWindow(universe[t])
      PROVE  /\ simclock[t] = synpoint[universe[t]] /\ lbts[t] = synpoint[universe[t]]
             /\ Reached(t) = simclock[t]
  <2>1. universe[t] \in Universes /\ t \in TimelinesOf(universe[t])
    BY TopologyAssumption DEF TimelinesOf
  <2>2. TimelineOK(universe[t], t)
    BY <2>1 DEF Scheduling, Threads, ThreadOK
  <2>3. pc[universe[t]] # "run"
    BY <1>3 DEF InWindow, AtEdge, WindowLabels
  <2> QED BY <1>3, <2>2, <2>3 DEF TimelineOK, Reached
<1>4. Gates'
  <2> SUFFICES ASSUME NEW s \in Stargates
               PROVE  /\ gate'[s].time <= Reached(source[s])' + min_delay[s]
                      /\ ~InGate(s)'.in_sync => lbts'[target[s]] <= InGate(s)'.time
    BY DEF Gates
  <2>1. /\ gate[s].time <= Reached(source[s]) + min_delay[s]
        /\ ~InGate(s).in_sync => lbts[target[s]] <= InGate(s).time
        /\ Reached(source[s])' = Reached(source[s]) /\ lbts' = lbts
    BY <1>0, <1>1, ReachedKept DEF Scheduling, Gates
  <2>2. /\ Reached(source[s]) \in Nat /\ lbts[target[s]] \in Nat /\ min_delay[s] \in Nat
    BY SchedulingFacts
  <2>3. gate'[s].time <= Reached(source[s]) + min_delay[s]
    <3>1. CASE gate'[s] = gate[s]
      BY <2>1, <3>1
    <3>2. CASE Reclassed(gate[s], gate'[s], s, synpoint[universe[source[s]]])
               /\ SourceMachine(s) \in M
      <4>1. Reached(source[s]) = synpoint[universe[source[s]]]
        BY <1>0, <1>3, <3>2
      <4>2. \/ gate'[s].time = gate[s].time
            \/ gate'[s].time = synpoint[universe[source[s]]] + min_delay[s]
        BY <3>2 DEF Reclassed
      <4> QED BY <2>1, <2>2, <4>1, <4>2
    <3> QED BY <3>1, <3>2
  <2>4. ~InGate(s)'.in_sync => lbts[target[s]] <= InGate(s)'.time
    <3>1. CASE InGate(s)' = InGate(s)
      BY <2>1, <3>1
    <3>2. CASE Reclassed(InGate(s), InGate(s)', s, synpoint[universe[target[s]]])
               /\ TargetMachine(s) \in M
      <4>1. lbts[target[s]] = synpoint[universe[target[s]]]
        BY <1>0, <1>3, <3>2
      <4>2. \/ InGate(s)'.time = InGate(s).time /\ (~InGate(s)'.in_sync => ~InGate(s).in_sync)
            \/ InGate(s)'.time = synpoint[universe[target[s]]] + min_delay[s]
        BY <3>2 DEF Reclassed
      <4> QED BY <2>1, <2>2, <4>1, <4>2
    <3> QED BY <3>1, <3>2
  <2> QED BY <2>1, <2>3, <2>4
<1>5. Scans'
  <2> SUFFICES ASSUME NEW v \in Universes, pc'[v] = "scan" PROVE ScanOK(v)'
    BY DEF Scans
  <2>1. pc[v] = "scan" /\ Kept(v) /\ ThreadOK(v)
    BY <1>1 DEF Kept, WindowLabels, Scheduling, Threads
  <2>2. ScanOK(v) /\ InWindow(v)
    BY <2>1 DEF Scheduling, Scans, ThreadOK, Owned, InWindow, AtEdge, WindowLabels
  <2>3. ASSUME NEW s \in Stargates, target[s] \in TimelinesOf(v)
        PROVE  /\ s \in inbound_async' <=> s \in inbound_async
               /\ InGate(s).time <= InGate(s)'.time
    <3>1. TargetMachine(s) \notin M
      BY <1>0, <2>2, <2>3 DEF TimelinesOf
    <3>2. InGate(s)' = InGate(s) /\ InGate(s).time \in Nat
      BY <3>1, SchedulingFacts
    <3> QED BY <3>2 DEF windowVars
  <2> QED BY <2>1, <2>2, <2>3, KeepScan
<1> QED BY <1>2, <1>4, <1>5 DEF Scheduling

\* The threads of a machine of which one is at an edge.
LEMMA EdgeOfMachine ==
  ASSUME TypeOK, Meeting, NEW u \in Universes, AtEdge(u),
         NEW v \in Universes, machine[v] = machine[u]
  PROVE  ~InWindow(v) /\ synpoint[v] = synpoint[u]
<1>1. v \in Mates(u) /\ u \in Mates(v)
  BY DEF Mates
<1>2. AtEdge(v)
  BY <1>1 DEF Meeting, Together
<1>3. ~InWindow(u) /\ ~InWindow(v)
  BY <1>2 DEF InWindow
<1>4. SameEdge(u, v)
  BY <1>1, <1>3 DEF Meeting, Edges, SameEdges
<1> QED BY <1>3, <1>4 DEF SameEdge

LEMMA TrainLocalScheduling ==
  ASSUME TypeOK, TypeOK', Meeting, Scheduling, NEW u \in Universes, TrainLocal(u)
  PROVE  Scheduling'
<1> DEFINE m == machine[u]
<1>0. /\ pc \in [Universes -> Labels] /\ m \in Machines
      /\ gate \in [Stargates -> GateType] /\ global_reclassified \in [Machines -> BOOLEAN]
      /\ \A s \in Stargates : /\ universe[source[s]] \in Universes
                              /\ universe[target[s]] \in Universes
                              /\ SourceMachine(s) = machine[universe[source[s]]]
                              /\ TargetMachine(s) = machine[universe[target[s]]]
      /\ \A n \in Machines : proc0[n] \in Universes /\ machine[proc0[n]] = n
  BY TopologyAssumption DEF TypeOK, ThreadTypeOK, TimelineTypeOK, WindowTypeOK,
     SourceMachine, TargetMachine
<1>1. /\ pc[u] = "train" /\ u = proc0[m]
      /\ \E l \in {"train global", "trained"} : pc' = [pc EXCEPT ![u] = l]
      /\ UNCHANGED <<simclock, lbts, state, rgate, windowVars, scan, runnable, ctx, umailbox>>
      /\ global_reclassified' = [global_reclassified EXCEPT ![m] = FALSE]
      /\ \/ gate' = gate
         \/ \E thresh : gate' = Classify(gate, LocalGates(m), thresh, synpoint[u])
  <2>1. u = proc0[m]
    BY DEF TrainLocal, Meeting, Edges, Trainers
  <2> QED BY <2>1 DEF TrainLocal, Goto, tmlnVars, mailVars
<1>2. AtEdge(u)
  BY <1>1 DEF AtEdge, WindowLabels
<1> HIDE DEF m
<1>3. \A v \in Universes : pc'[v] = pc[v] \/ {pc[v], pc'[v]} \cap WindowLabels = {}
  <2> SUFFICES ASSUME NEW v \in Universes, pc'[v] # pc[v]
               PROVE  {pc[v], pc'[v]} \cap WindowLabels = {}
    OBVIOUS
  <2>1. pc[v] = "train" /\ pc'[v] \in {"train global", "trained"}
    BY <1>0, <1>1
  <2> QED BY <2>1 DEF WindowLabels
<1>4. \A v \in Universes : machine[v] = m => ~InWindow(v) /\ synpoint[v] = synpoint[u]
  BY <1>2, EdgeOfMachine DEF m
<1>5. ASSUME NEW s \in Stargates
      PROVE  \/ gate'[s] = gate[s]
             \/ /\ s \in LocalGates(m)
                /\ Reclassed(gate[s], gate'[s], s, synpoint[u])
  <2>1. CASE gate' = gate
    BY <2>1
  <2>2. CASE \E thresh : gate' = Classify(gate, LocalGates(m), thresh, synpoint[u])
    <3>1. PICK thresh : gate' = Classify(gate, LocalGates(m), thresh, synpoint[u])
      BY <2>2
    <3>2. Reclassed(gate[s], gate'[s], s, synpoint[u])
      BY <1>0, <3>1, ClassifyIs
    <3>3. s \notin LocalGates(m) => gate'[s] = gate[s]
      BY <3>1 DEF Classify
    <3> QED BY <3>2, <3>3
  <2> QED BY <1>1, <2>1, <2>2
<1>6. \A s \in Stargates : gate'[s] = gate[s] \/
        /\ SourceMachine(s) \in {m}
        /\ Reclassed(gate[s], gate'[s], s, synpoint[universe[source[s]]])
  <2>1. \A s \in LocalGates(m) : SourceMachine(s) = m
    BY DEF LocalGates
  <2>2. \A s \in LocalGates(m) : synpoint[universe[source[s]]] = synpoint[u]
    BY <1>0, <1>4 DEF LocalGates
  <2> QED BY <1>5, <2>1, <2>2
<1>7. \A s \in Stargates : InGate(s)' = InGate(s) \/
        /\ TargetMachine(s) \in {m}
        /\ Reclassed(InGate(s), InGate(s)', s, synpoint[universe[target[s]]])
  <2> SUFFICES ASSUME NEW s \in Stargates
               PROVE  InGate(s)' = InGate(s) \/
                        /\ TargetMachine(s) \in {m}
                        /\ Reclassed(InGate(s), InGate(s)', s, synpoint[universe[target[s]]])
    OBVIOUS
  <2>1. CASE Remote(s)
    BY <1>1, <2>1 DEF InGate
  <2>2. CASE ~Remote(s)
    <3>1. InGate(s) = gate[s] /\ InGate(s)' = gate'[s]
      BY <2>2 DEF InGate
    <3>2. s \in LocalGates(m) => TargetMachine(s) = m
      BY DEF LocalGates, Remote
    <3>3. s \in LocalGates(m) => synpoint[universe[target[s]]] = synpoint[u]
      BY <1>0, <1>4, <3>2
    <3> QED BY <1>5, <3>1, <3>2, <3>3
  <2> QED BY <2>1, <2>2
<1>8. RemoteListed'
  <2> SUFFICES ASSUME NEW s \in RemoteGates
               PROVE  \/ Stage(TargetMachine(s))' = "trained" /\ global_reclassified'[TargetMachine(s)]
                      \/ s \in inbound_async' <=> ~rgate'[s].in_sync
    BY DEF RemoteListed
  <2>1. s \in Stargates /\ TargetMachine(s) \in Machines
    BY SchedulingFacts DEF RemoteGates
  <2>2. inbound_async' = inbound_async /\ rgate' = rgate
    BY <1>1 DEF windowVars
  <2>3. \/ Stage(TargetMachine(s)) = "trained" /\ global_reclassified[TargetMachine(s)]
        \/ s \in inbound_async <=> ~rgate[s].in_sync
    BY DEF Scheduling, RemoteListed
  <2>4. CASE TargetMachine(s) = m
    <3>1. Stage(m) # "trained"
      BY <1>1 DEF Stage
    <3> QED BY <2>2, <2>3, <2>4, <3>1
  <2>5. CASE TargetMachine(s) # m
    <3>1. proc0[TargetMachine(s)] # u
      <4>1. machine[proc0[TargetMachine(s)]] = TargetMachine(s) /\ machine[u] = m
        BY <2>1, TopologyAssumption DEF m
      <4> QED BY <2>5, <4>1
    <3>2. Stage(TargetMachine(s))' = Stage(TargetMachine(s))
      BY <1>0, <1>1, <2>1, <3>1 DEF Stage
    <3> QED BY <1>0, <1>1, <2>1, <2>2, <2>3, <2>5, <3>2
  <2> QED BY <2>4, <2>5
<1> HIDE DEF RemoteListed, Scheduling, Reclassed
<1>9. {m} \in SUBSET Machines /\ \A v \in Universes : machine[v] \in {m} => ~InWindow(v)
  BY <1>0, <1>4
<1>10. UNCHANGED <<simclock, lbts, state, windowVars, scan, runnable, ctx, umailbox>>
  BY <1>1
<1> QED BY <1>3, <1>6, <1>7, <1>8, <1>9, <1>10, TrainingScheduling

\* The steps of global training: the machines M classify their ends of the
\* stargates between machines.
LEMMA GlobalScheduling ==
  ASSUME TypeOK, TypeOK', Meeting, Scheduling, NEW M \in SUBSET Machines,
         \A m \in M : TrainsGlobally(m), NEW thresh, NEW now,
         \A v \in Universes : machine[v] \in M => synpoint[v] = now,
         ClassifyGlobal(M, thresh, now),
         UNCHANGED <<simclock, lbts, state, windowVars, scan, runnable, ctx, umailbox>>,
         pc' = [u \in Universes |-> IF \E m \in M : u = proc0[m] THEN "trained" ELSE pc[u]],
         \A m \in M : global_reclassified'[m],
         \A m \in Machines \ M : global_reclassified'[m] = global_reclassified[m]
  PROVE  Scheduling'
<1>0. /\ pc \in [Universes -> Labels]
      /\ gate \in [Stargates -> GateType] /\ rgate \in [Stargates -> GateType]
      /\ \A s \in Stargates : /\ universe[source[s]] \in Universes
                              /\ universe[target[s]] \in Universes
                              /\ SourceMachine(s) = machine[universe[source[s]]]
                              /\ TargetMachine(s) = machine[universe[target[s]]]
      /\ \A n \in Machines : proc0[n] \in Universes /\ machine[proc0[n]] = n
  BY TopologyAssumption DEF TypeOK, ThreadTypeOK, TimelineTypeOK, SourceMachine, TargetMachine
<1>1. \A v \in Universes : pc'[v] = pc[v] \/ {pc[v], pc'[v]} \cap WindowLabels = {}
  <2> SUFFICES ASSUME NEW v \in Universes, pc'[v] # pc[v]
               PROVE  {pc[v], pc'[v]} \cap WindowLabels = {}
    OBVIOUS
  <2>1. PICK m \in M : v = proc0[m]
    BY <1>0
  <2>2. pc[v] = "train global" /\ pc'[v] = "trained"
    BY <1>0, <2>1 DEF TrainsGlobally
  <2> QED BY <2>2 DEF WindowLabels
<1>2. \A v \in Universes : machine[v] \in M => ~InWindow(v)
  BY AtGlobalTraining
<1>3. ASSUME NEW s \in Stargates
      PROVE  gate'[s] = gate[s] \/
               /\ SourceMachine(s) \in M
               /\ Reclassed(gate[s], gate'[s], s, synpoint[universe[source[s]]])
  <2> DEFINE S == {r \in RemoteGates : SourceMachine(r) \in M}
  <2>1. gate' = Classify(gate, S, thresh, now)
    BY DEF ClassifyGlobal
  <2> HIDE DEF S
  <2>2. Reclassed(gate[s], gate'[s], s, now) /\ (s \notin S => gate'[s] = gate[s])
    BY <1>0, <2>1, ClassifyIs DEF Classify
  <2>3. s \in S => SourceMachine(s) \in M /\ synpoint[universe[source[s]]] = now
    BY <1>0 DEF S
  <2> QED BY <2>2, <2>3
<1>4. ASSUME NEW s \in Stargates
      PROVE  InGate(s)' = InGate(s) \/
               /\ TargetMachine(s) \in M
               /\ Reclassed(InGate(s), InGate(s)', s, synpoint[universe[target[s]]])
  <2>1. CASE ~Remote(s)
    BY <2>1, RemoteClassified DEF InGate
  <2>2. CASE Remote(s)
    <3> DEFINE S == {r \in RemoteGates : TargetMachine(r) \in M}
    <3>1. rgate' = Classify(rgate, S, thresh, now)
      BY DEF ClassifyGlobal
    <3> HIDE DEF S
    <3>2. Reclassed(rgate[s], rgate'[s], s, now) /\ (s \notin S => rgate'[s] = rgate[s])
      BY <1>0, <3>1, ClassifyIs DEF Classify
    <3>3. s \in S => TargetMachine(s) \in M /\ synpoint[universe[target[s]]] = now
      BY <1>0 DEF S
    <3>4. InGate(s) = rgate[s] /\ InGate(s)' = rgate'[s]
      BY <2>2 DEF InGate
    <3> QED BY <3>2, <3>3, <3>4
  <2> QED BY <2>1, <2>2
<1>5. RemoteListed'
  <2> SUFFICES ASSUME NEW s \in RemoteGates
               PROVE  \/ Stage(TargetMachine(s))' = "trained" /\ global_reclassified'[TargetMachine(s)]
                      \/ s \in inbound_async' <=> ~rgate'[s].in_sync
    BY DEF RemoteListed
  <2>1. s \in Stargates /\ TargetMachine(s) \in Machines
    BY SchedulingFacts DEF RemoteGates
  <2>2. inbound_async' = inbound_async
    BY DEF windowVars
  <2>3. \/ Stage(TargetMachine(s)) = "trained" /\ global_reclassified[TargetMachine(s)]
        \/ s \in inbound_async <=> ~rgate[s].in_sync
    BY DEF Scheduling, RemoteListed
  <2>4. CASE TargetMachine(s) \in M
    <3>1. pc'[proc0[TargetMachine(s)]] = "trained"
      BY <1>0, <2>1, <2>4
    <3>2. Stage(TargetMachine(s))' = "trained"
      BY <3>1 DEF Stage
    <3> QED BY <2>4, <3>2
  <2>5. CASE TargetMachine(s) \notin M
    <3>1. pc'[proc0[TargetMachine(s)]] = pc[proc0[TargetMachine(s)]]
      BY <1>0, <2>1, <2>5
    <3>2. Stage(TargetMachine(s))' = Stage(TargetMachine(s))
      BY <3>1 DEF Stage
    <3>3. rgate'[s] = rgate[s]
      BY <2>1, <2>5 DEF ClassifyGlobal, Classify
    <3> QED BY <2>1, <2>2, <2>3, <2>5, <3>2, <3>3
  <2> QED BY <2>4, <2>5
<1> QED BY <1>1, <1>2, <1>3, <1>4, <1>5, TrainingScheduling

LEMMA TrainGlobalScheduling ==
  ASSUME TypeOK, TypeOK', Meeting, Scheduling, NEW u \in Universes, TrainGlobal(u)
  PROVE  Scheduling'
<1> DEFINE m == machine[u]
<1>0. /\ m \in Machines /\ pc \in [Universes -> Labels] /\ pc[u] = "train global"
      /\ global_reclassified \in [Machines -> BOOLEAN]
  BY TopologyAssumption DEF TypeOK, ThreadTypeOK, WindowTypeOK, TrainGlobal
<1>1. u = proc0[m] /\ machine[proc0[m]] = m
  BY <1>0 DEF Meeting, Edges, Trainers
<1>2. /\ UNCHANGED <<simclock, lbts, state, windowVars, scan, runnable, ctx, umailbox>>
      /\ pc' = [pc EXCEPT ![u] = "trained"]
      /\ \E thresh : ClassifyGlobal({m}, thresh, synpoint[u])
      /\ global_reclassified' = [global_reclassified EXCEPT ![m] = TRUE]
  BY DEF TrainGlobal, Goto, tmlnVars, mailVars
<1>3. AtEdge(u)
  BY <1>0 DEF AtEdge, WindowLabels
<1>4. \A v \in Universes : machine[v] = m => synpoint[v] = synpoint[u]
  BY <1>3, EdgeOfMachine
<1> HIDE DEF m
<1>5. PICK thresh : ClassifyGlobal({m}, thresh, synpoint[u])
  BY <1>2
<1>6. pc' = [v \in Universes |-> IF \E n \in {m} : v = proc0[n] THEN "trained" ELSE pc[v]]
  BY <1>0, <1>1, <1>2
<1>7. /\ {m} \in SUBSET Machines /\ \A n \in {m} : TrainsGlobally(n) /\ global_reclassified'[n]
      /\ \A n \in Machines \ {m} : global_reclassified'[n] = global_reclassified[n]
      /\ \A v \in Universes : machine[v] \in {m} => synpoint[v] = synpoint[u]
  BY <1>0, <1>1, <1>2, <1>4 DEF TrainsGlobally
<1>8. UNCHANGED <<simclock, lbts, state, windowVars, scan, runnable, ctx, umailbox>>
  BY <1>2
<1> QED BY <1>5, <1>6, <1>7, <1>8, GlobalScheduling

LEMMA FinishGlobalScheduling ==
  ASSUME TypeOK, TypeOK', Meeting, Agreement, Scheduling, FinishGlobal
  PROVE  Scheduling'
<1> DEFINE now == synpoint[proc0[CHOOSE m \in Machines : TRUE]]
<1>1. /\ UNCHANGED <<simclock, lbts, state, windowVars, scan, runnable, ctx, umailbox>>
      /\ \A m \in Machines : TrainsGlobally(m)
      /\ \E thresh : ClassifyGlobal(Machines, thresh, now)
      /\ pc' = [u \in Universes |-> IF pc[u] = "train global" THEN "trained" ELSE pc[u]]
      /\ \A m \in Machines : global_reclassified'[m]
  BY DEF FinishGlobal, TrainsGlobally, tmlnVars, mailVars
<1>2. \A u \in Universes : pc[u] = "train global" <=> \E m \in Machines : u = proc0[m]
  <2>1. Trainers
    BY DEF Meeting, Edges
  <2>2. \A u \in Universes : machine[u] \in Machines /\ (pc[u] = "train global" => u = proc0[machine[u]])
    BY <2>1, TopologyAssumption DEF Trainers
  <2>3. \A m \in Machines : pc[proc0[m]] = "train global"
    BY <1>1 DEF TrainsGlobally
  <2> QED BY <2>2, <2>3
<1>3. pc' = [u \in Universes |-> IF \E m \in Machines : u = proc0[m] THEN "trained" ELSE pc[u]]
  BY <1>1, <1>2
<1>4. \A v \in Universes : machine[v] \in Machines => synpoint[v] = now
  <2> SUFFICES ASSUME NEW v \in Universes PROVE synpoint[v] = now
    OBVIOUS
  <2>1. machine[v] \in Machines /\ proc0[machine[v]] \in Universes
        /\ machine[proc0[machine[v]]] = machine[v]
    BY TopologyAssumption
  <2>2. (CHOOSE m \in Machines : TRUE) \in Machines
    BY <2>1
  <2>3. synpoint[proc0[machine[v]]] = now
    BY <2>1, <2>2, FinishTogether
  <2>4. AtEdge(proc0[machine[v]])
    BY <1>1, <2>1 DEF AtEdge, WindowLabels, TrainsGlobally
  <2>5. synpoint[v] = synpoint[proc0[machine[v]]]
    BY <2>1, <2>4, EdgeOfMachine
  <2> QED BY <2>3, <2>5
<1> HIDE DEF now
<1>5. PICK thresh : ClassifyGlobal(Machines, thresh, now)
  BY <1>1
<1> QED BY <1>1, <1>3, <1>4, <1>5, GlobalScheduling

\* All the timelines of the machine are to be opened, and its stargates are
\* listed as they have been classified.
LEMMA TrainedScheduling ==
  ASSUME TypeOK, TypeOK', Scheduling, NEW m \in Machines, Trained(m)
  PROVE  Scheduling'
<1>0. /\ \A v \in Universes : ctx[v] \in ContextType
      /\ proc0[m] \in Universes /\ machine[proc0[m]] = m
      /\ \A s \in Stargates : /\ TargetMachine(s) = machine[universe[target[s]]]
  BY TopologyAssumption DEF TypeOK, ThreadTypeOK, TargetMachine
<1>1. /\ UNCHANGED <<simclock, lbts, state, gate, rgate, umailbox, synpoint, trainVars, scan,
                     runnable>>
      /\ inbound_async' = Listed(m)
      /\ \A v \in Universes : machine[v] = m =>
           /\ pc[v] = "trained" /\ pc'[v] = "open"
           /\ ctx'[v] = [ctx[v] EXCEPT !.open = TimelinesOf(v)]
      /\ \A v \in Universes : machine[v] # m =>
           /\ pc'[v] = pc[v] /\ ctx'[v] = ctx[v]
           /\ next_decade'[v] = next_decade[v] /\ next_epoch'[v] = next_epoch[v]
  BY DEF Trained, gateVars, UniversesOf
<1>2. \A v \in Universes : machine[v] # m => Kept(v)
  BY <1>1 DEF Kept, next_window
<1>3. ASSUME NEW v \in Universes, machine[v] = m PROVE ThreadOK(v)'
  <2>0. /\ Owned(v) /\ Control(v) /\ \A x \in TimelinesOf(v) : TimelineOK(v, x)
        /\ \A x \in TimelinesOf(v) : x \in Timelines /\ universe[x] = v /\ x # NoTimeline
    BY ThreadFacts
  <2>1. /\ pc[v] = "trained" /\ pc'[v] = "open"
        /\ ctx'[v].open = TimelinesOf(v) /\ ctx'[v].cur = ctx[v].cur
        /\ ctx'[v].io = ctx[v].io
    BY <1>0, <1>1, <1>3 DEF ContextType
  <2>2. /\ ~InWindow(v) /\ InWindow(v)'
        /\ \A r : ~ScanFor(v, r) /\ ~ScanFor(v, r)'
    BY <2>1 DEF InWindow, AtEdge, WindowLabels, ScanFor
  <2>3. ctx[v].cur = NoTimeline /\ runnable[v] = {}
    BY <2>0, <2>2 DEF Control
  <2>4. Owned(v)'
    BY <1>1, <2>0, <2>1 DEF Owned
  <2>5. Control(v)'
    BY <1>1, <2>1, <2>2, <2>3 DEF Control
  <2>6. ASSUME NEW x \in TimelinesOf(v) PROVE TimelineOK(v, x)'
    <3>1. IsOpening(v, x)' /\ ~IsActive(v, x)'
      BY <1>1, <2>0, <2>1, <2>2, <2>3 DEF IsOpening, IsActive
    <3>2. /\ state[x] \in {"START", "ROUND", "DONE"}
          /\ lbts[x] = synpoint[v] /\ simclock[x] = synpoint[v]
          /\ simclock[x] <= lbts[x]
      BY <2>0, <2>2 DEF TimelineOK
    <3> QED BY <1>1, <3>1, <3>2 DEF TimelineOK
  <2> QED BY <2>4, <2>5, <2>6 DEF ThreadOK
<1>4. Threads'
  BY <1>2, <1>3, KeepThread DEF Scheduling, Threads
<1>5. Gates'
  <2>1. \A t \in Timelines : Reached(t)' = Reached(t)
    <3> SUFFICES ASSUME NEW t \in Timelines PROVE Reached(t)' = Reached(t)
      OBVIOUS
    <3>0. universe[t] \in Universes
      BY TopologyAssumption
    <3>1. CASE machine[universe[t]] = m
      BY <1>1, <3>0, <3>1 DEF Reached
    <3>2. CASE machine[universe[t]] # m
      BY <1>2, <3>0, <3>2, ReachedKept
    <3> QED BY <3>1, <3>2
  <2> QED BY <1>1, <2>1, TopologyAssumption DEF Scheduling, Gates, InGate
<1>6. Scans'
  <2> SUFFICES ASSUME NEW v \in Universes, pc'[v] = "scan" PROVE ScanOK(v)'
    BY DEF Scans
  <2>1. machine[v] # m /\ pc[v] = "scan"
    BY <1>1
  <2>2. ScanOK(v) /\ ThreadOK(v) /\ Kept(v)
    BY <1>2, <2>1 DEF Scheduling, Scans, Threads
  <2>3. ASSUME NEW s \in Stargates, target[s] \in TimelinesOf(v)
        PROVE  /\ s \in inbound_async' <=> s \in inbound_async
               /\ InGate(s).time <= InGate(s)'.time
    <3>1. TargetMachine(s) # m
      BY <1>0, <2>1, <2>3 DEF TimelinesOf
    <3>2. InGate(s)' = InGate(s) /\ InGate(s).time \in Nat
      BY <1>1, SchedulingFacts DEF InGate
    <3> QED BY <1>1, <3>1, <3>2 DEF Listed
  <2> QED BY <2>1, <2>2, <2>3, KeepScan
<1>7. RemoteListed'
  <2> SUFFICES ASSUME NEW s \in RemoteGates
               PROVE  \/ Stage(TargetMachine(s))' = "trained" /\ global_reclassified'[TargetMachine(s)]
                      \/ s \in inbound_async' <=> ~rgate'[s].in_sync
    BY DEF RemoteListed
  <2>1. s \in Stargates /\ TargetMachine(s) \in Machines /\ InGate(s) = rgate[s]
    BY SchedulingFacts DEF RemoteGates, InGate
  <2>2. rgate' = rgate /\ global_reclassified' = global_reclassified
    BY <1>1 DEF trainVars, globalVars
  <2>3. \/ Stage(TargetMachine(s)) = "trained" /\ global_reclassified[TargetMachine(s)]
        \/ s \in inbound_async <=> ~rgate[s].in_sync
    BY DEF Scheduling, RemoteListed
  <2>4. CASE TargetMachine(s) = m
    <3>1. CASE Reclassified(m)
      BY <1>1, <2>1, <2>2, <2>4, <3>1 DEF Listed
    <3>2. CASE ~Reclassified(m)
      <4>1. ~global_reclassified[m]
        BY <3>2 DEF Reclassified
      <4>2. s \in inbound_async' <=> s \in inbound_async
        BY <1>1, <2>1, <3>2 DEF Listed
      <4> QED BY <2>2, <2>3, <2>4, <4>1, <4>2
    <3> QED BY <3>1, <3>2
  <2>5. CASE TargetMachine(s) # m
    <3>1. proc0[TargetMachine(s)] \in Universes /\ machine[proc0[TargetMachine(s)]] # m
      BY <2>1, <2>5, TopologyAssumption
    <3>2. Stage(TargetMachine(s))' = Stage(TargetMachine(s))
      BY <1>1, <3>1 DEF Stage
    <3>3. s \in inbound_async' <=> s \in inbound_async
      BY <1>1, <2>1, <2>5 DEF Listed
    <3> QED BY <2>2, <2>3, <3>2, <3>3
  <2> QED BY <2>4, <2>5
<1> QED BY <1>4, <1>5, <1>6, <1>7 DEF Scheduling

LEMMA WriterScheduling ==
  ASSUME TypeOK, TypeOK', Scheduling, NEW m \in Machines, Writer(m)
  PROVE  Scheduling'
<1>1. UNCHANGED <<simclock, lbts, state, gateVars, windowVars, trainVars, threadVars, umailbox>>
  BY DEF Writer, tmlnVars, mailVars
<1>2. \A v \in Universes : \A e \in Range(umailbox'[v]) : e \in Range(umailbox[v])
  BY <1>1
<1> QED BY <1>1, <1>2, OutsideScheduling

-----------------------------------------------------------------------------
(* The theorems.                                                           *)

LEMMA InitScheduling == Init => Scheduling
<1> SUFFICES ASSUME Init PROVE Scheduling
  OBVIOUS
<1>0. TypeOK /\ Infinity \in Nat
  BY InitType, ParameterAssumption
<1>1. /\ simclock = [t \in Timelines |-> 0] /\ lbts = [t \in Timelines |-> 0]
      /\ state = [t \in Timelines |-> "START"] /\ synpoint = [u \in Universes |-> 0]
      /\ pc = [u \in Universes |-> "top"] /\ ctx = [u \in Universes |-> Idle]
      /\ scan = [u \in Universes |-> NoScan] /\ runnable = [u \in Universes |-> {}]
      /\ umailbox = [u \in Universes |-> <<>>]
      /\ inbound_async = {s \in Stargates : ~InGate(s).in_sync}
  BY DEF Init
<1>2. ASSUME NEW u \in Universes PROVE ThreadOK(u)
  <2>1. /\ ~InWindow(u) /\ \A r : ~ScanFor(u, r)
        /\ ctx[u].cur = NoTimeline /\ ctx[u].open = {} /\ ctx[u].io = <<>>
        /\ pc[u] = "top" /\ runnable[u] = {} /\ umailbox[u] = <<>>
    BY <1>1 DEF InWindow, AtEdge, WindowLabels, ScanFor, Idle
  <2>2. Range(umailbox[u]) = {} /\ Range(ctx[u].io) = {}
    BY <2>1, EmptyRange
  <2>3. Owned(u)
    BY <2>1, <2>2 DEF Owned
  <2>4. Control(u)
    BY <2>1 DEF Control
  <2>5. ASSUME NEW t \in TimelinesOf(u) PROVE TimelineOK(u, t)
    <3>1. t \in Timelines /\ t # NoTimeline
      BY <1>0, SchedulingFacts
    <3>2. ~IsActive(u, t)
      BY <2>1, <3>1 DEF IsActive
    <3> QED BY <1>1, <2>1, <3>1, <3>2 DEF TimelineOK
  <2> QED BY <2>3, <2>4, <2>5 DEF ThreadOK
<1>3. Gates
  <2> SUFFICES ASSUME NEW s \in Stargates
               PROVE  /\ gate[s].time <= Reached(source[s]) + min_delay[s]
                      /\ ~InGate(s).in_sync => lbts[target[s]] <= InGate(s).time
    BY DEF Gates
  <2>1. /\ source[s] \in Timelines /\ target[s] \in Timelines /\ min_delay[s] \in Nat
        /\ InGate(s).time \in Nat
    BY <1>0, SchedulingFacts
  <2>2. Reached(source[s]) = 0 /\ lbts[target[s]] = 0
    BY <1>1, <2>1, TopologyAssumption DEF Reached
  <2>3. \E S, thresh : gate[s] = Classify(Unclassified, S, thresh, 0)[s]
    <3>1. \/ gate[s] = Classify(Unclassified, RemoteGates, StartGlobal.thresh, 0)[s]
          \/ gate[s] = Classify(Unclassified, LocalGates(SourceMachine(s)),
                                StartLocal(SourceMachine(s)).thresh, 0)[s]
      BY DEF Init
    <3> QED BY <3>1
  <2>4. PICK S, thresh : gate[s] = Classify(Unclassified, S, thresh, 0)[s]
    BY <2>3
  <2>5. Unclassified \in [Stargates -> GateType] /\ Unclassified[s].time = 0
    BY DEF Unclassified, GateType
  <2>6. Reclassed(Unclassified[s], gate[s], s, 0)
    BY <2>4, <2>5, ClassifyIs
  <2>7. gate[s].time = 0 \/ gate[s].time = 0 + min_delay[s]
    BY <2>5, <2>6 DEF Reclassed
  <2> QED BY <2>1, <2>2, <2>7
<1>4. Scans
  BY <1>1 DEF Scans
<1>5. RemoteListed
  BY <1>1 DEF RemoteListed, RemoteGates, InGate
<1> QED BY <1>2, <1>3, <1>4, <1>5 DEF Scheduling, Threads

LEMMA ThreadScheduling ==
  ASSUME TypeOK, TypeOK', Meeting, Scheduling, NEW u \in Universes, Thread(u)
  PROVE  Scheduling'
<1>1. CASE Dispatch(u) \/ Collect(u) \/ SendEpoch(u) \/ Await(u)
  BY <1>1, ExchangeScheduling
<1>2. CASE TrainLocal(u) \/ TrainGlobal(u) \/ AdvanceWindow(u)
  BY <1>2, TrainLocalScheduling, TrainGlobalScheduling, AdvanceScheduling
<1>3. CASE OpenTimeline(u) \/ Opened(u) \/ Pick(u) \/ EndScan(u)
  BY <1>3, OpenTimelineScheduling, OpenedScheduling, PickScheduling, EndScanScheduling
<1>4. CASE ReadTime(u) \/ ReceiveMessages(u)
  BY <1>4, ComputeScheduling
<1>5. CASE RunEvent(u) \/ RunEnd(u) \/ UpdateTime(u) \/ Notify(u) \/ Interrupted(u)
  BY <1>5, RunEventScheduling, RunEndScheduling, UpdateTimeScheduling, NotifyScheduling,
     InterruptedScheduling
<1>6. CASE PollMail(u) \/ WaitMail(u)
  BY <1>6, TakeMailScheduling
<1>7. CASE DrainMail(u) \/ HandleMail(u) \/ EndMail(u)
  BY <1>7, DrainMailScheduling, HandleMailScheduling, EndMailScheduling
<1> QED BY <1>1, <1>2, <1>3, <1>4, <1>5, <1>6, <1>7 DEF Thread

LEMMA NextScheduling == TypeOK /\ Meeting /\ Agreement /\ Scheduling /\ [Next]_vars => Scheduling'
<1> SUFFICES ASSUME TypeOK, Meeting, Agreement, Scheduling, [Next]_vars PROVE Scheduling'
  OBVIOUS
<1>0. TypeOK'
  BY NextType
<1>1. ASSUME NEW u \in Universes, Thread(u) PROVE Scheduling'
  BY <1>0, <1>1, ThreadScheduling
<1>2. ASSUME NEW m \in Machines, Barrier(m) \/ Trained(m) \/ Writer(m) PROVE Scheduling'
  BY <1>0, <1>2, BarrierScheduling, TrainedScheduling, WriterScheduling
<1>3. ASSUME NEW n \in Machines, NEW m \in Machines, Reader(n, m) PROVE Scheduling'
  BY <1>0, <1>3, ReaderScheduling
<1>4. ASSUME Collective PROVE Scheduling'
  BY <1>0, <1>4, CollectiveScheduling, FinishGlobalScheduling DEF Collective
<1>5. ASSUME UNCHANGED vars PROVE Scheduling'
  <2>1. UNCHANGED <<simclock, lbts, state, gateVars, windowVars, trainVars, threadVars, umailbox>>
    BY <1>5 DEF vars, tmlnVars, mailVars
  <2> QED BY <1>0, <2>1, OutsideScheduling
<1> QED BY <1>1, <1>2, <1>3, <1>4, <1>5 DEF Next, Finished

(* The threads of the scheduling loop: each timeline of a window is in one  *)
(* place, queued or running, blocked, or at the end of the window; its      *)
(* clock is never beyond its lower bound, nor its bound beyond the window   *)
(* or the time of an asynchronous stargate to it; and no stargate promises  *)
(* more than its timeline may run plus the delay (run_continuation,         *)
(* retrieve_incoming_and_calculate_lowerbound, Stargate::set_time).         *)
THEOREM SchedulingHolds == Spec => []Scheduling
<1>1. Init => TypeOK /\ Meeting /\ Agreement /\ Scheduling
  BY InitType, InitMeeting, InitAgrees, InitScheduling
<1>2. TypeOK /\ Meeting /\ Agreement /\ Scheduling /\ [Next]_vars
        => (TypeOK /\ Meeting /\ Agreement /\ Scheduling)'
  BY NextType, NextMeeting, NextAgrees, NextScheduling
<1> QED BY <1>1, <1>2, PTL DEF Spec

(* No timeline is lost inside a window: a universe leaves it with all its   *)
(* timelines at the edge (the end of the inner loop of run_continuation).   *)
THEOREM WindowCompleteHolds == Spec => []WindowComplete
<1>1. TypeOK /\ Scheduling => WindowComplete
  <2> SUFFICES ASSUME TypeOK, Scheduling, NEW t \in Timelines, pc[universe[t]] \in {"top", "end"}
               PROVE  simclock[t] = synpoint[universe[t]]
    BY DEF WindowComplete
  <2>1. universe[t] \in Universes /\ t \in TimelinesOf(universe[t])
    BY TopologyAssumption DEF TimelinesOf
  <2>2. TimelineOK(universe[t], t)
    BY <2>1, ThreadFacts
  <2>3. ~InWindow(universe[t])
    BY DEF InWindow, WindowLabels
  <2> QED BY <2>2, <2>3 DEF TimelineOK
<1> QED BY <1>1, TypeOKHolds, SchedulingHolds, PTL

=============================================================================
