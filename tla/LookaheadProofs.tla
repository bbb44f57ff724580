---------------------------- MODULE LookaheadProofs ----------------------------
(***************************************************************************)
(* What a timeline may rely on: nothing it has not seen yet is due before  *)
(* its lower bound.                                                        *)
(*                                                                         *)
(* Lookahead is an invariant of every system in which the messages between *)
(* machines are on time (RemoteProofs shows that they are), and gives what *)
(* the runs check.  In a system of one machine it gives that what a        *)
(* channel announces never falls back.  Then, a message is in one place of *)
(* a machine only, and a universe that sleeps is woken in every system.    *)
(*                                                                         *)
(* The last part, on which RemoteProofs rests, is about the epochs: the    *)
(* stages through which the machines go together, and what training may    *)
(* change at them.                                                         *)
(***************************************************************************)
EXTENDS CompositeSyncProofs

-----------------------------------------------------------------------------
(***************************************************************************)
(* The invariant: no message that is still on its way is due before the    *)
(* lower bound of its timeline.  What is said here of messages between     *)
(* machines is only where they are; that those are on time as well is the  *)
(* premise RemoteSafe, which is empty where no stargate leaves a machine.  *)
(***************************************************************************)

\* Where a message is says which stargate carries it.
QueueRoutes ==
  \A u \in Universes :
    /\ \A e \in local_binque[u] :
         universe[source[e.sg]] = u /\ ~SameUniverse(e.sg) /\ ~Remote(e.sg)
    /\ \A e \in global_binque[u] : universe[source[e.sg]] = u /\ Remote(e.sg)
    /\ \A e \in switch_board[u] : universe[Dest(e)] = u /\ ~Remote(e.sg)
MailRoutes ==
  /\ \A u \in Universes : \A e \in Range(umailbox[u]) \cup Range(ctx[u].io) :
       IsNull(e) \/ Remote(e.sg)
  /\ \A s \in Stargates : \A e \in mailbox[s] : e.sg = s /\ ~SameUniverse(s)
NetRoutes ==
  /\ \A m \in Machines : \A e \in remote_mailbox[m] : SourceMachine(e.sg) = m /\ Remote(e.sg)
  /\ \A n, m \in Machines : \A b \in Range(net[<<n, m>>]) : \A e \in b.regular \cup b.null :
       SourceMachine(e.sg) = n /\ TargetMachine(e.sg) = m /\ n # m
Routes == QueueRoutes /\ MailRoutes /\ NetRoutes

\* An event a timeline still has to process is not before its clock, which is
\* inside the window; and no stargate promises more than the clock and the delay.
Events == \A t \in Timelines : \A e \in evtlist[t] : simclock[t] <= e.t
ClocksInside == \A t \in Timelines : synpoint[universe[t]] <= simclock[t]
Promises == \A s \in Stargates : gate[s].time <= simclock[source[s]] + min_delay[s]

\* A message in the mailbox of a stargate will be found there, ...
LocalMail ==
  \A s \in Stargates : ~Remote(s) =>
     \A e \in mailbox[s] : lbts[target[s]] <= e.t /\ s \in inbound_async
\* ... and the bound that a thread computes does not miss it.
Held ==
  \A u \in Universes : pc[u] = "scan" =>
    /\ scan[u].hold # 0 => scan[u].hold \in InboundAsync(scan[u].tl)
    /\ \A s \in InboundAsync(scan[u].tl) \ scan[u].todo :
         ~Remote(s) /\ s # scan[u].hold => \A e \in mailbox[s] : scan[u].low <= e.t

\* A message that waits for the next edge is for a time after that edge: when
\* the queue has been emptied as far as it will be, after the new decade.
DueAfter(u) == IF InWindow(u) THEN next_decade[u] ELSE synpoint[u]
FirstWindow(v) == ~decade_sync[v] /\ ~epoch_sync[v]
Exchanged(v) == (AtEdge(v) /\ pc[v] # "dispatch") \/ FirstWindow(v)
StaysQueued(v) ==
  LET m == machine[v] IN
  /\ training_finished[m] \/ FirstWindow(v)
  /\ TrainerDone(m) => /\ pc[proc0[m]] = "trained"
                       /\ ~local_reclassified[m] /\ ~global_reclassified[m]
Queues ==
  \A v \in Universes : \A e \in local_binque[v] :
    /\ DueAfter(universe[Dest(e)]) <= e.t
    /\ Exchanged(v) => next_decade[v] <= e.t /\ StaysQueued(v)
Boards ==
  \A u \in Universes : \A e \in switch_board[u] :
    /\ synpoint[u] <= e.t
    /\ pc[u] \in {"dispatch", "dispatched", "collect"} /\ Exchange(u)

Lookahead == /\ Routes /\ Events /\ ClocksInside /\ Promises
             /\ LocalMail /\ Held /\ Queues /\ Boards

\* The messages between machines.
RemoteSafe == \A e \in InFlight : Remote(e.sg) => lbts[Dest(e)] <= e.t

-----------------------------------------------------------------------------
(* What a step leaves alone.                                               *)

\* The steps that may change a queue or a list, each with those it changes.
LEMMA ThreadFrame ==
  ASSUME NEW u \in Universes, Thread(u)
  PROVE  /\ \/ Collect(u) \/ ReceiveMessages(u) \/ RunEvent(u) \/ HandleMail(u)
            \/ evtlist' = evtlist
         /\ RunEvent(u) \/ RunEnd(u) \/ simclock' = simclock
         /\ EndScan(u) \/ lbts' = lbts
         /\ ReceiveMessages(u) \/ RunEvent(u) \/ mailbox' = mailbox
         /\ Dispatch(u) \/ RunEvent(u) \/ local_binque' = local_binque
         /\ SendEpoch(u) \/ RunEvent(u) \/ global_binque' = global_binque
         /\ Dispatch(u) \/ Collect(u) \/ switch_board' = switch_board
         /\ \/ Notify(u) \/ PollMail(u) \/ WaitMail(u) \/ DrainMail(u)
            \/ umailbox' = umailbox
         /\ SendEpoch(u) \/ RunEvent(u) \/ UpdateTime(u) \/ remote_mailbox' = remote_mailbox
         /\ net' = net
         /\ AdvanceWindow(u) \/ UNCHANGED windowVars
         /\ TrainLocal(u) \/ TrainGlobal(u) \/ UNCHANGED trainVars
<1> USE DEF tmlnVars, mailVars, binVars, netVars, threadVars
<1>1. CASE Dispatch(u) \/ Collect(u) \/ SendEpoch(u) \/ Await(u)
  BY <1>1 DEF Dispatch, Collect, SendEpoch, Await
<1>2. CASE TrainLocal(u) \/ TrainGlobal(u) \/ OpenTimeline(u) \/ Opened(u) \/ Pick(u)
  BY <1>2 DEF TrainLocal, TrainGlobal, OpenTimeline, Opened, Pick
<1>3. CASE ReadTime(u) \/ ReceiveMessages(u) \/ EndScan(u)
  BY <1>3 DEF ReadTime, ReceiveMessages, EndScan
<1>4. CASE RunEvent(u) \/ RunEnd(u) \/ Notify(u) \/ Interrupted(u)
  BY <1>4 DEF RunEvent, RunEnd, Notify, Interrupted
<1>5. CASE UpdateTime(u)
  BY <1>5 DEF UpdateTime, SetTime
<1>6. CASE PollMail(u) \/ WaitMail(u) \/ DrainMail(u) \/ HandleMail(u) \/ EndMail(u)
  BY <1>6 DEF PollMail, WaitMail, DrainMail, TakeMail, HandleMail, EndMail
<1>7. CASE AdvanceWindow(u)
  BY <1>7 DEF AdvanceWindow
<1> QED BY <1>1, <1>2, <1>3, <1>4, <1>5, <1>6, <1>7 DEF Thread

LEMMA OtherFrame ==
  ASSUME \/ \E m \in Machines : Barrier(m) \/ Trained(m) \/ Writer(m)
         \/ \E n, m \in Machines : Reader(n, m)
         \/ Collective \/ UNCHANGED vars
  PROVE  /\ UNCHANGED <<simclock, lbts, binVars, scan>>
         /\ (\E m \in Machines : Trained(m)) \/ evtlist' = evtlist
         /\ \/ \E m \in Machines : Trained(m)
            \/ \E n, m \in Machines : Reader(n, m)
            \/ mailbox' = mailbox
         /\ (\E m \in Machines : Trained(m)) \/ UNCHANGED <<windowVars, ctx>>
         /\ (\E n, m \in Machines : Reader(n, m)) \/ umailbox' = umailbox
         /\ \/ \E m \in Machines : Writer(m)
            \/ (\E n, m \in Machines : Reader(n, m)) /\ remote_mailbox' = remote_mailbox
            \/ UNCHANGED netVars
         /\ FinishGlobal \/ UNCHANGED <<trainVars, gateVars>>
<1> USE DEF tmlnVars, mailVars, binVars, netVars, threadVars
<1>1. CASE \E m \in Machines : Barrier(m)
  BY <1>1 DEF Barrier, Meet
<1>2. CASE \E m \in Machines : Trained(m)
  BY <1>2 DEF Trained
<1>3. CASE \E m \in Machines : Writer(m)
  BY <1>3 DEF Writer
<1>4. CASE \E n, m \in Machines : Reader(n, m)
  BY <1>4 DEF Reader
<1>5. CASE Collective
  BY <1>5 DEF Collective, Reduce, MpiBarrier, FinishGlobal
<1>6. CASE UNCHANGED vars
  BY <1>6 DEF vars
<1> QED BY <1>1, <1>2, <1>3, <1>4, <1>5, <1>6

\* An event that is processed, and the messages it writes.
LEMMA EventRun ==
  ASSUME TypeOK, NEW u \in Universes, RunEvent(u)
  PROVE  \E e \in evtlist[ctx[u].cur], M \in SUBSET MessageType :
           /\ e.t \in Nat /\ e.t <= ctx[u].horizon
           /\ \A f \in evtlist[ctx[u].cur] : e.t <= f.t
           /\ simclock' = [simclock EXCEPT ![ctx[u].cur] = e.t]
           /\ \A x \in M : /\ source[x.sg] = ctx[u].cur /\ ~IsNull(x)
                           /\ e.t + min_delay[x.sg] <= x.t
           /\ Deliver(u, ctx[u].cur, e, M)
<1> DEFINE t == ctx[u].cur
<1>1. t \in Timelines
  BY DEF RunEvent, TypeOK, Running
<1>2. PICK e \in evtlist[t] :
        /\ e.t <= ctx[u].horizon /\ \A f \in evtlist[t] : e.t <= f.t
        /\ simclock' = [simclock EXCEPT ![t] = e.t]
        /\ \E S \in SUBSET {s \in Stargates : source[s] = t /\ sent[s] < MaxSend} :
           \E d \in [S -> 0 .. MaxWriteDelay] :
             /\ Deliver(u, t, e, {Message(s, sent[s] + 1, e.t + min_delay[s] + d[s]) : s \in S})
             /\ sent' = [s \in Stargates |-> IF s \in S THEN sent[s] + 1 ELSE sent[s]]
  BY DEF RunEvent
<1>3. e.t \in Nat
  BY <1>1, <1>2, MessageElim DEF TypeOK, TimelineTypeOK
<1>4. PICK S \in SUBSET {s \in Stargates : source[s] = t /\ sent[s] < MaxSend} :
        \E d \in [S -> 0 .. MaxWriteDelay] :
           Deliver(u, t, e, {Message(s, sent[s] + 1, e.t + min_delay[s] + d[s]) : s \in S})
  BY <1>2
<1>5. PICK d \in [S -> 0 .. MaxWriteDelay] :
        Deliver(u, t, e, {Message(s, sent[s] + 1, e.t + min_delay[s] + d[s]) : s \in S})
  BY <1>4
<1> DEFINE M == {Message(s, sent[s] + 1, e.t + min_delay[s] + d[s]) : s \in S}
<1>6. \A x \in M : /\ x \in MessageType /\ source[x.sg] = t /\ ~IsNull(x)
                   /\ e.t + min_delay[x.sg] <= x.t
  <2> SUFFICES ASSUME NEW s \in S,
                      NEW x, x = Message(s, sent[s] + 1, e.t + min_delay[s] + d[s])
               PROVE  /\ x \in MessageType /\ source[x.sg] = t /\ ~IsNull(x)
                      /\ e.t + min_delay[x.sg] <= x.t
    OBVIOUS
  <2>1. s \in Stargates /\ source[s] = t /\ sent[s] \in Nat /\ min_delay[s] \in Nat
    BY TopologyAssumption DEF TypeOK, MessageTypeOK
  <2>2. d[s] \in Nat
    BY InputAssumption
  <2>3. x.sg = s /\ x.n = sent[s] + 1 /\ x.t = e.t + min_delay[s] + d[s]
    BY DEF Message
  <2>4. x \in MessageType
    BY <1>3, <2>1, <2>2, MessageIntro
  <2>5. e.t + min_delay[s] <= e.t + min_delay[s] + d[s]
    BY <1>3, <2>1, <2>2
  <2>6. ~IsNull(x)
    BY <2>1, <2>3 DEF IsNull
  <2> QED BY <2>1, <2>3, <2>4, <2>5, <2>6
<1>7. Deliver(u, t, e, M)
  BY <1>5
<1> HIDE DEF M, t
<1>8. M \in SUBSET MessageType
  BY <1>6
<1>9. /\ e.t \in Nat /\ e.t <= ctx[u].horizon /\ \A f \in evtlist[t] : e.t <= f.t
      /\ simclock' = [simclock EXCEPT ![t] = e.t]
  BY <1>2, <1>3
<1> QED BY <1>2, <1>6, <1>7, <1>8, <1>9 DEF t
-----------------------------------------------------------------------------
(* How far ahead of its source a message arrives.                          *)

\* The ends of a stargate inside a machine.
LEMMA LocalEnds ==
  ASSUME NEW s \in Stargates
  PROVE  /\ source[s] \in Timelines /\ target[s] \in Timelines /\ min_delay[s] \in Nat
         /\ universe[source[s]] \in Universes /\ universe[target[s]] \in Universes
         /\ SourceMachine(s) = machine[universe[source[s]]]
         /\ TargetMachine(s) = machine[universe[target[s]]]
         /\ SourceMachine(s) \in Machines /\ TargetMachine(s) \in Machines
         /\ ~Remote(s) => /\ universe[target[s]] \in Mates(universe[source[s]])
                          /\ universe[source[s]] \in Mates(universe[target[s]])
                          /\ TargetMachine(s) = SourceMachine(s)
BY TopologyAssumption DEF Remote, SourceMachine, TargetMachine, Mates

\* While a thread is inside its window no thread of the machine is at the edge.
LEMMA InsideWindow ==
  ASSUME TypeOK, Meeting, NEW u \in Universes, InWindow(u)
  PROVE  /\ \A v \in Mates(u) : ~AtEdge(v)
         /\ ~TrainerDone(machine[u]) /\ ~Pending(machine[u])
<1>1. \A v \in Mates(u) : u \in Mates(v) /\ v \in Universes
  BY DEF Mates
<1>2. \A v \in Mates(u) : ~AtEdge(v)
  BY <1>1 DEF Meeting, Together, InWindow
<1>3. proc0[machine[u]] \in Mates(u)
  BY TopologyAssumption DEF Mates
<1>4. ~TrainerDone(machine[u])
  BY <1>2, <1>3 DEF TrainerDone, AtEdge, WindowLabels
<1> QED BY <1>2, <1>4 DEF Pending

\* The bound of a timeline lies between the edges of its window.
LEMMA BoundInWindow ==
  ASSUME TypeOK, Meeting, Scheduling, NEW t \in Timelines
  PROVE  /\ lbts[t] \in Nat /\ simclock[t] \in Nat /\ simclock[t] <= lbts[t]
         /\ InWindow(universe[t]) => /\ lbts[t] <= next_window(universe[t])
                                     /\ lbts[t] <= next_decade[universe[t]]
                                     /\ lbts[t] <= next_epoch[universe[t]]
         /\ ~InWindow(universe[t]) => /\ lbts[t] = synpoint[universe[t]]
                                      /\ simclock[t] = synpoint[universe[t]]
<1> DEFINE u == universe[t]
<1>1. u \in Universes /\ t \in TimelinesOf(u)
  BY TopologyAssumption DEF TimelinesOf
<1>2. TimelineOK(u, t)
  BY <1>1 DEF Scheduling, Threads, ThreadOK
<1>3. /\ synpoint[u] \in Nat /\ next_decade[u] \in Nat /\ next_epoch[u] \in Nat
      /\ next_window(u) \in Nat
      /\ next_window(u) <= next_decade[u] /\ next_window(u) <= next_epoch[u]
      /\ next_window(u) = next_decade[u] \/ next_window(u) = next_epoch[u]
  BY <1>1, WindowFacts DEF TypeOK
<1>4. synpoint[u] <= next_decade[u] /\ synpoint[u] <= next_epoch[u]
  BY <1>1 DEF Meeting, Edges, Bounds
<1>5. lbts[t] \in Nat /\ simclock[t] \in Nat
  BY SchedulingFacts
<1>6. InWindow(u) => lbts[t] <= next_window(u)
  BY <1>2, <1>3, <1>4 DEF TimelineOK
<1>7. ~InWindow(u) => lbts[t] = synpoint[u] /\ simclock[t] = synpoint[u]
  BY <1>2 DEF TimelineOK
<1> HIDE DEF u
<1>8. InWindow(u) => lbts[t] <= next_decade[u] /\ lbts[t] <= next_epoch[u]
  BY <1>3, <1>5, <1>6
<1> QED BY <1>2, <1>5, <1>6, <1>7, <1>8 DEF u, TimelineOK

\* The end of a decade is not further away than the delay of a synchronous
\* stargate, measured at its source.
LEMMA DecadeAhead ==
  ASSUME TypeOK, Meeting, Scheduling, ClocksInside, NEW s \in Stargates, ~Remote(s),
         gate[s].in_sync, NEW u \in Universes, InWindow(u), machine[u] = SourceMachine(s)
  PROVE  next_decade[u] <= synpoint[u] + min_delay[s]
<1>1. ~Pending(machine[u])
  BY InsideWindow
<1>2. /\ next_decade[u] <= synpoint[u] + decade_length[machine[u]]
      /\ decade_length[machine[u]] <= min_delay[s]
  BY <1>1 DEF Meeting, Edges, Lengths
<1>3. /\ next_decade[u] \in Nat /\ synpoint[u] \in Nat /\ decade_length[machine[u]] \in Nat
      /\ min_delay[s] \in Nat
  BY WindowFacts, LocalEnds DEF TypeOK
<1> QED BY <1>2, <1>3

\* What a synchronous stargate carries is for after the next edge of its target.
LEMMA DueReach ==
  ASSUME TypeOK, Meeting, Scheduling, ClocksInside, NEW s \in Stargates, ~Remote(s),
         gate[s].in_sync, InWindow(universe[source[s]])
  PROVE  DueAfter(universe[target[s]]) <= simclock[source[s]] + min_delay[s]
<1> DEFINE u == universe[source[s]]
           v == universe[target[s]]
<1>1. /\ u \in Universes /\ v \in Universes /\ v \in Mates(u) /\ source[s] \in Timelines
      /\ machine[u] = SourceMachine(s) /\ min_delay[s] \in Nat
  BY LocalEnds
<1>2. next_decade[u] <= synpoint[u] + min_delay[s]
  BY <1>1, DecadeAhead
<1>3. synpoint[u] <= simclock[source[s]]
  BY <1>1 DEF ClocksInside
<1>4. /\ synpoint[u] \in Nat /\ next_decade[u] \in Nat /\ next_window(u) \in Nat
      /\ next_window(u) <= next_decade[u] /\ simclock[source[s]] \in Nat
  BY <1>1, WindowFacts, SchedulingFacts DEF TypeOK
<1>5. next_decade[u] <= simclock[source[s]] + min_delay[s]
  BY <1>1, <1>2, <1>3, <1>4
<1>6. CASE InWindow(v)
  <2>1. next_decade[v] = next_decade[u]
    BY <1>1, <1>6 DEF Meeting, Edges, SameEdges, SameEdge
  <2> QED BY <1>5, <1>6, <2>1 DEF DueAfter
<1>7. CASE ~InWindow(v)
  <2>1. synpoint[v] = next_window(u)
    BY <1>1, <1>7 DEF Meeting, Edges, SameEdges, OneWindowBehind
  <2>2. synpoint[v] <= simclock[source[s]] + min_delay[s]
    BY <1>1, <1>4, <1>5, <2>1
  <2> QED BY <1>7, <2>2 DEF DueAfter
<1> QED BY <1>6, <1>7

\* The target of a stargate inside a machine does not run further ahead of the
\* source than the delay.
LEMMA LocalReach ==
  ASSUME TypeOK, Meeting, Scheduling, ClocksInside, Promises, NEW s \in Stargates, ~Remote(s)
  PROVE  lbts[target[s]] <= simclock[source[s]] + min_delay[s]
<1> DEFINE u == universe[source[s]]
           v == universe[target[s]]
<1>1. /\ u \in Universes /\ v \in Universes /\ v \in Mates(u) /\ u \in Mates(v)
      /\ source[s] \in Timelines /\ target[s] \in Timelines
      /\ machine[u] = SourceMachine(s) /\ machine[v] = SourceMachine(s) /\ min_delay[s] \in Nat
  BY LocalEnds
<1>2. /\ simclock[source[s]] \in Nat /\ lbts[target[s]] \in Nat /\ gate[s].time \in Nat
      /\ synpoint[u] \in Nat /\ synpoint[v] \in Nat /\ next_decade[v] \in Nat
      /\ next_decade[u] \in Nat /\ next_window(u) \in Nat /\ next_window(u) <= next_decade[u]
  BY <1>1, WindowFacts, SchedulingFacts DEF TypeOK
<1>3. synpoint[u] <= simclock[source[s]]
  BY <1>1 DEF ClocksInside
<1>4. CASE ~gate[s].in_sync
  <2>1. lbts[target[s]] <= gate[s].time
    BY <1>4 DEF Scheduling, Gates, InGate
  <2>2. gate[s].time <= simclock[source[s]] + min_delay[s]
    BY DEF Promises
  <2> QED BY <1>1, <1>2, <2>1, <2>2
<1>5. CASE gate[s].in_sync /\ InWindow(v)
  <2>1. next_decade[v] <= synpoint[v] + min_delay[s]
    BY <1>1, <1>5, DecadeAhead
  <2>2. lbts[target[s]] <= next_decade[v] /\ lbts[target[s]] <= next_window(v)
    BY <1>1, <1>5, BoundInWindow
  <2>3. CASE InWindow(u)
    <3>1. synpoint[v] = synpoint[u]
      BY <1>1, <1>5, <2>3 DEF Meeting, Edges, SameEdges, SameEdge
    <3> HIDE DEF u, v
    <3> QED BY <1>1, <1>2, <1>3, <2>1, <2>2, <3>1
  <2>4. CASE ~InWindow(u)
    <3>1. synpoint[u] = next_window(v)
      BY <1>1, <1>5, <2>4 DEF Meeting, Edges, SameEdges, OneWindowBehind
    <3> HIDE DEF u, v
    <3> QED BY <1>1, <1>2, <1>3, <2>2, <3>1
  <2> QED BY <2>3, <2>4
<1>6. CASE gate[s].in_sync /\ ~InWindow(v)
  <2>1. lbts[target[s]] = synpoint[v]
    BY <1>1, <1>6, BoundInWindow
  <2>2. CASE InWindow(u)
    <3>1. next_decade[u] <= synpoint[u] + min_delay[s]
      BY <1>1, <1>6, <2>2, DecadeAhead
    <3>2. synpoint[v] = next_window(u)
      BY <1>1, <1>6, <2>2 DEF Meeting, Edges, SameEdges, OneWindowBehind
    <3> HIDE DEF u, v
    <3> QED BY <1>1, <1>2, <1>3, <2>1, <3>1, <3>2
  <2>3. CASE ~InWindow(u)
    <3>1. synpoint[v] = synpoint[u]
      BY <1>1, <1>6, <2>3 DEF Meeting, Edges, SameEdges, SameEdge
    <3> HIDE DEF u, v
    <3> QED BY <1>1, <1>2, <1>3, <2>1, <3>1
  <2> QED BY <2>2, <2>3
<1> QED BY <1>4, <1>5, <1>6
-----------------------------------------------------------------------------
(* Routes: where a message may be.                                         *)

\* The timeline t of u processes its event e and writes the messages M: what
\* they are, and where each goes.
EventWrites(u, t, e, M) ==
  /\ t = ctx[u].cur /\ t \in Timelines /\ universe[t] = u /\ pc[u] = "run"
  /\ e.t \in Nat /\ e.t <= ctx[u].horizon
  /\ \A f \in evtlist[t] : e.t <= f.t
  /\ simclock' = [simclock EXCEPT ![t] = e.t]
  /\ \A x \in M : /\ x.sg \in Stargates /\ x.t \in Nat /\ source[x.sg] = t /\ ~IsNull(x)
                  /\ e.t + min_delay[x.sg] <= x.t
  /\ \A r \in Timelines : \A x \in evtlist'[r] :
       \/ x \in evtlist[r]
       \/ x \in M /\ SameUniverse(x.sg) /\ Dest(x) = r
  /\ \A v \in Universes : \A x \in local_binque'[v] :
       \/ x \in local_binque[v]
       \/ /\ v = u /\ x \in M
          /\ ~SameUniverse(x.sg) /\ gate[x.sg].in_sync /\ ~Remote(x.sg)
  /\ \A v \in Universes : \A x \in global_binque'[v] :
       \/ x \in global_binque[v]
       \/ v = u /\ x \in M /\ gate[x.sg].in_sync /\ Remote(x.sg)
  /\ \A s \in Stargates : \A x \in mailbox'[s] :
       \/ x \in mailbox[s]
       \/ /\ x \in M /\ x.sg = s
          /\ ~SameUniverse(s) /\ ~gate[s].in_sync /\ ~Remote(s)
  /\ \A m \in Machines : \A x \in remote_mailbox'[m] :
       \/ x \in remote_mailbox[m]
       \/ m = machine[u] /\ x \in M /\ ~gate[x.sg].in_sync /\ Remote(x.sg)
  /\ UNCHANGED <<lbts, state, gateVars, umailbox, switch_board, net, windowVars,
                 trainVars, threadVars>>

LEMMA EventDelivered ==
  ASSUME TypeOK, Scheduling, NEW u \in Universes, RunEvent(u)
  PROVE  \E t \in TimelinesOf(u) : \E e \in evtlist[t] : \E M \in SUBSET MessageType :
           EventWrites(u, t, e, M)
<1>1. pc[u] = "run" /\ ctx[u].cur \in TimelinesOf(u) /\ ctx[u].cur \in Timelines
      /\ universe[ctx[u].cur] = u
  <2>1. pc[u] = "run"
    BY DEF RunEvent
  <2>2. ctx[u].cur \in Timelines
    BY <2>1 DEF TypeOK, Running
  <2>3. ctx[u].cur \in TimelinesOf(u) \cup {NoTimeline}
    BY ThreadFacts DEF Owned
  <2>4. ctx[u].cur \in TimelinesOf(u)
    BY <2>2, <2>3, TopologyAssumption DEF NoTimeline
  <2> QED BY <2>1, <2>2, <2>4 DEF TimelinesOf
<1>2. PICK t \in TimelinesOf(u) : t = ctx[u].cur
  BY <1>1
<1>3. PICK e \in evtlist[t], M \in SUBSET MessageType :
        /\ e.t \in Nat /\ e.t <= ctx[u].horizon
        /\ \A f \in evtlist[t] : e.t <= f.t
        /\ simclock' = [simclock EXCEPT ![t] = e.t]
        /\ \A x \in M : /\ source[x.sg] = t /\ ~IsNull(x)
                        /\ e.t + min_delay[x.sg] <= x.t
        /\ Deliver(u, t, e, M)
  BY <1>2, EventRun
<1>4. \A x \in M : x.sg \in Stargates /\ x.t \in Nat
  BY DEF MessageType
<1>5. /\ local_binque \in [Universes -> SUBSET MessageType]
      /\ global_binque \in [Universes -> SUBSET MessageType]
      /\ remote_mailbox \in [Machines -> SUBSET MessageType]
  BY DEF TypeOK, MessageTypeOK
<1>6. \A r \in Timelines : \A x \in evtlist'[r] :
              \/ x \in evtlist[r]
              \/ x \in M /\ SameUniverse(x.sg) /\ Dest(x) = r
  BY <1>3 DEF Deliver
<1>7. \A v \in Universes : \A x \in local_binque'[v] :
              \/ x \in local_binque[v]
              \/ /\ v = u /\ x \in M
                 /\ ~SameUniverse(x.sg) /\ gate[x.sg].in_sync /\ ~Remote(x.sg)
  BY <1>3, <1>5 DEF Deliver
<1>8. \A v \in Universes : \A x \in global_binque'[v] :
              \/ x \in global_binque[v]
              \/ v = u /\ x \in M /\ gate[x.sg].in_sync /\ Remote(x.sg)
  BY <1>3, <1>5 DEF Deliver
<1>9. \A s \in Stargates : \A x \in mailbox'[s] :
              \/ x \in mailbox[s]
              \/ /\ x \in M /\ x.sg = s
                 /\ ~SameUniverse(s) /\ ~gate[s].in_sync /\ ~Remote(s)
  BY <1>3 DEF Deliver
<1>10. \A m \in Machines : \A x \in remote_mailbox'[m] :
              \/ x \in remote_mailbox[m]
              \/ m = machine[u] /\ x \in M /\ ~gate[x.sg].in_sync /\ Remote(x.sg)
  BY <1>3, <1>5 DEF Deliver
<1>11. UNCHANGED <<lbts, state, gateVars, umailbox, switch_board, net, windowVars,
                   trainVars, threadVars>>
  BY DEF RunEvent
<1>12. t \in Timelines /\ universe[t] = u
  BY <1>1, <1>2
<1>13. \A x \in M : /\ x.sg \in Stargates /\ x.t \in Nat /\ source[x.sg] = t /\ ~IsNull(x)
                    /\ e.t + min_delay[x.sg] <= x.t
  BY <1>3, <1>4
<1>14. /\ e.t \in Nat /\ e.t <= ctx[u].horizon
       /\ \A f \in evtlist[t] : e.t <= f.t
       /\ simclock' = [simclock EXCEPT ![t] = e.t]
  BY <1>3
<1>15. t = ctx[u].cur /\ pc[u] = "run"
  BY <1>1, <1>2
<1> WITNESS t \in TimelinesOf(u)
<1> WITNESS e \in evtlist[t]
<1> WITNESS M \in SUBSET MessageType
<1> QED BY <1>6, <1>7, <1>8, <1>9, <1>10, <1>11, <1>12, <1>13, <1>14, <1>15 DEF EventWrites

\* What becomes of the mail of a universe, in any step of a thread.
LEMMA MailFrame ==
  ASSUME TypeOK, NEW u \in Universes, Thread(u), NEW v \in Universes
  PROVE  /\ Range(ctx'[v].io) \subseteq Range(ctx[v].io) \cup Range(umailbox[v])
         /\ \A e \in Range(umailbox'[v]) : e \in Range(umailbox[v]) \/ IsNull(e)
<1> USE DEF mailVars, threadVars
<1>1. /\ ctx \in [Universes -> ContextType] /\ umailbox \in [Universes -> Seq(MessageType)]
      /\ ctx[u].io \in Seq(MessageType)
  BY DEF TypeOK, ThreadTypeOK, MessageTypeOK, ContextType
<1>2. CASE Notify(u)
  <2>1. PICK s \in ctx[u].out :
          /\ umailbox' = [umailbox EXCEPT ![universe[target[s]]] =
                            Append(@, Message(s, 0, gate[s].time))]
          /\ ctx' = [ctx EXCEPT ![u].out = @ \ {s}]
    BY <1>2 DEF Notify
  <2>2. ctx'[v].io = ctx[v].io
    BY <1>1, <2>1 DEF ContextType
  <2>3. s \in Stargates /\ gate[s].time \in Nat
    BY <1>1, SchedulingFacts DEF ContextType
  <2>4. /\ Message(s, 0, gate[s].time) \in MessageType
        /\ IsNull(Message(s, 0, gate[s].time))
    BY <2>3, MessageIntro DEF IsNull, Message
  <2>5. \A e \in Range(umailbox'[v]) : e \in Range(umailbox[v]) \/ IsNull(e)
    <3> DEFINE x == Message(s, 0, gate[s].time)
    <3>1. umailbox' = [umailbox EXCEPT ![universe[target[s]]] = Append(@, x)]
      BY <2>1
    <3>2. x \in MessageType /\ IsNull(x)
      BY <2>4
    <3> HIDE DEF x
    <3>3. umailbox'[v] = umailbox[v] \/ umailbox'[v] = Append(umailbox[v], x)
      BY <1>1, <3>1
    <3>4. umailbox[v] \in Seq(MessageType)
      BY <1>1
    <3>5. \A e \in Range(Append(umailbox[v], x)) : e \in Range(umailbox[v]) \/ e = x
      BY <3>2, <3>4, AppendRange
    <3> QED BY <3>2, <3>3, <3>5
  <2> QED BY <2>2, <2>5
<1>3. CASE PollMail(u) \/ WaitMail(u) \/ DrainMail(u)
  <2>1. /\ ctx' = [ctx EXCEPT ![u].io = umailbox[u]]
        /\ umailbox' = [umailbox EXCEPT ![u] = <<>>]
    BY <1>3 DEF PollMail, WaitMail, DrainMail, TakeMail
  <2> QED BY <1>1, <2>1, EmptyRange DEF ContextType
<1>4. CASE HandleMail(u)
  <2>1. /\ ctx' = [ctx EXCEPT ![u].io = Tail(@)] /\ ctx[u].io # <<>> /\ umailbox' = umailbox
    BY <1>4 DEF HandleMail
  <2>2. ctx'[v].io = ctx[v].io \/ (v = u /\ ctx'[v].io = Tail(ctx[u].io))
    BY <1>1, <2>1 DEF ContextType
  <2> QED BY <1>1, <2>1, <2>2, RangeFacts
<1>5. CASE OpenTimeline(u) \/ RunEnd(u) \/ Interrupted(u) \/ UpdateTime(u) \/ EndScan(u)
  <2>1. umailbox' = umailbox
    BY <1>5 DEF OpenTimeline, RunEnd, Interrupted, UpdateTime, SetTime, EndScan
  <2>2. ctx'[v].io = ctx[v].io
    <3>1. CASE OpenTimeline(u)
      BY <1>1, <3>1 DEF OpenTimeline, ContextType
    <3>2. CASE RunEnd(u)
      BY <1>1, <3>2 DEF RunEnd, ContextType
    <3>3. CASE Interrupted(u)
      BY <1>1, <3>3 DEF Interrupted, ContextType
    <3>4. CASE UpdateTime(u)
      <4>1. PICK s \in ctx[u].out : SetTime(u, s)
        BY <3>4 DEF UpdateTime
      <4>2. ctx' = ctx \/ ctx' = [ctx EXCEPT ![u].out = @ \ {s}]
        BY <4>1 DEF SetTime
      <4> QED BY <1>1, <4>2 DEF ContextType
    <3>5. CASE EndScan(u)
      <4>1. CASE scan[u].ret = "sched"
        <5>1. \E c, h : ctx' = [ctx EXCEPT ![u] = [@ EXCEPT !.cur = c, !.horizon = h]]
          BY <3>5, <4>1 DEF EndScan
        <5> QED BY <1>1, <5>1 DEF ContextType
      <4>2. CASE scan[u].ret # "sched"
        <5>1. ctx' = ctx
          BY <3>5, <4>2 DEF EndScan
        <5> QED BY <5>1
      <4> QED BY <4>1, <4>2
    <3> QED BY <1>5, <3>1, <3>2, <3>3, <3>4, <3>5
  <2> QED BY <2>1, <2>2
<1>6. CASE UNCHANGED <<ctx, umailbox>>
  BY <1>6
<1>7. CASE ~Notify(u) /\ ~PollMail(u) /\ ~WaitMail(u) /\ ~DrainMail(u) /\ ~HandleMail(u)
           /\ ~OpenTimeline(u) /\ ~RunEnd(u) /\ ~Interrupted(u) /\ ~UpdateTime(u) /\ ~EndScan(u)
  <2>1. umailbox' = umailbox
    BY <1>7, ThreadFrame
  <2>2. ctx' = ctx
    <3>1. CASE Dispatch(u) \/ Collect(u) \/ SendEpoch(u) \/ Await(u) \/ TrainLocal(u) \/ TrainGlobal(u)
      BY <3>1 DEF Dispatch, Collect, SendEpoch, Await, TrainLocal, TrainGlobal
    <3>2. CASE Opened(u) \/ Pick(u) \/ ReadTime(u) \/ ReceiveMessages(u) \/ RunEvent(u)
      BY <3>2 DEF Opened, Pick, ReadTime, ReceiveMessages, RunEvent
    <3>3. CASE EndMail(u) \/ AdvanceWindow(u)
      BY <3>3 DEF EndMail, AdvanceWindow
    <3> QED BY <1>7, <3>1, <3>2, <3>3 DEF Thread
  <2> QED BY <1>6, <2>1, <2>2
<1> QED BY <1>2, <1>3, <1>4, <1>5, <1>7
LEMMA ConsRange ==
  ASSUME NEW S, NEW q \in Seq(S), q # <<>>, NEW x \in S
  PROVE  \A b \in Range(<<x>> \o Tail(q)) : b = x \/ b \in Range(q)
<1> DEFINE r == <<x>> \o Tail(q)
<1>1. Tail(q) \in Seq(S) /\ Len(Tail(q)) = Len(q) - 1 /\ Len(q) \in Nat /\ Len(q) > 0
  OBVIOUS
<1>2. r \in Seq(S) /\ Len(r) = Len(q)
  BY <1>1
<1>3. \A i \in 1 .. Len(r) : r[i] = IF i = 1 THEN x ELSE Tail(q)[i - 1]
  BY <1>1
<1>4. \A i \in 1 .. Len(Tail(q)) : Tail(q)[i] = q[i + 1]
  OBVIOUS
<1>5. DOMAIN r = 1 .. Len(r) /\ DOMAIN q = 1 .. Len(q)
  BY <1>2
<1> HIDE DEF r
<1>6. \A i \in DOMAIN r : r[i] = x \/ r[i] \in Range(q)
  <2> SUFFICES ASSUME NEW i \in DOMAIN r, i # 1 PROVE r[i] \in Range(q)
    BY <1>3, <1>5
  <2>1. i - 1 \in 1 .. Len(Tail(q)) /\ (i - 1) + 1 = i /\ i \in DOMAIN q
    BY <1>1, <1>2, <1>5
  <2>2. r[i] = q[i]
    BY <1>3, <1>4, <1>5, <2>1
  <2> QED BY <2>1, <2>2 DEF Range
<1> QED BY <1>6 DEF Range, r

\* The message that a reader takes out of a batch.
LEMMA ReadMessage ==
  ASSUME TypeOK, NEW n \in Machines, NEW m \in Machines, Reader(n, m)
  PROVE  \E e \in MessageType :
         /\ \E b \in Range(net[<<n, m>>]) : e \in b.regular \cup b.null
         /\ \A p \in Machines \X Machines : \A b \in Range(net'[p]) :
              \E c \in Range(net[p]) : b.regular \subseteq c.regular /\ b.null \subseteq c.null
         /\ \A v \in Universes : \A x \in Range(umailbox'[v]) :
              x \in Range(umailbox[v]) \/ x = e
         /\ \A s \in Stargates : \A x \in mailbox'[s] : x \in mailbox[s] \/ (x = e /\ s = e.sg)
         /\ UNCHANGED <<tmlnVars, gateVars, binVars, remote_mailbox, windowVars, trainVars,
                        threadVars, sent>>
<1> DEFINE p == <<n, m>>
           b == Head(net[p])
<1>0. /\ net \in [Machines \X Machines -> Seq(BatchType)] /\ p \in Machines \X Machines
      /\ umailbox \in [Universes -> Seq(MessageType)]
      /\ mailbox \in [Stargates -> SUBSET MessageType]
  BY DEF TypeOK, MessageTypeOK
<1>1. net[p] \in Seq(BatchType) /\ net[p] # <<>>
  BY <1>0 DEF Reader
<1>2. b \in BatchType /\ b \in Range(net[p]) /\ Range(Tail(net[p])) \subseteq Range(net[p])
  BY <1>1, RangeFacts
<1>3. PICK e \in Receivable(b) :
        /\ net' = [net EXCEPT ![p] =
                     IF Receivable(Without(b, e)) = {} THEN Tail(@)
                     ELSE <<Without(b, e)>> \o Tail(@)]
        /\ IF IsNull(e) \/ rgate[e.sg].in_sync
           THEN /\ umailbox' = [umailbox EXCEPT ![universe[target[e.sg]]] = Append(@, e)]
                /\ UNCHANGED mailbox
           ELSE /\ mailbox' = [mailbox EXCEPT ![e.sg] = @ \cup {e}]
                /\ UNCHANGED umailbox
  BY DEF Reader
<1>4. e \in b.regular \cup b.null /\ e \in MessageType
  BY <1>2, <1>3 DEF Receivable, BatchType
<1> DEFINE r == Without(b, e)
<1>5. r \in BatchType /\ r.regular \subseteq b.regular /\ r.null \subseteq b.null
  BY <1>2 DEF Without, BatchType
<1> HIDE DEF r, b, p
<1>6. \A q \in Machines \X Machines : \A c \in Range(net'[q]) : c \in Range(net[q]) \/ (q = p /\ c = r)
  <2> SUFFICES ASSUME NEW q \in Machines \X Machines, NEW c \in Range(net'[q])
               PROVE  c \in Range(net[q]) \/ (q = p /\ c = r)
    OBVIOUS
  <2>1. CASE q # p
    BY <1>0, <1>3, <2>1
  <2>2. CASE q = p
    <3>1. net'[p] = Tail(net[p]) \/ net'[p] = <<r>> \o Tail(net[p])
      BY <1>0, <1>3 DEF r
    <3>2. \A x \in Range(<<r>> \o Tail(net[p])) : x = r \/ x \in Range(net[p])
      BY <1>1, <1>5, ConsRange
    <3> QED BY <1>2, <2>2, <3>1, <3>2
  <2> QED BY <2>1, <2>2
<1>7. \A q \in Machines \X Machines : \A c \in Range(net'[q]) :
        \E d \in Range(net[q]) : c.regular \subseteq d.regular /\ c.null \subseteq d.null
  BY <1>2, <1>5, <1>6
<1>8. \A v \in Universes : \A x \in Range(umailbox'[v]) : x \in Range(umailbox[v]) \/ x = e
  <2> SUFFICES ASSUME NEW v \in Universes, NEW x \in Range(umailbox'[v])
               PROVE  x \in Range(umailbox[v]) \/ x = e
    OBVIOUS
  <2>1. umailbox'[v] = umailbox[v] \/ umailbox'[v] = Append(umailbox[v], e)
    BY <1>0, <1>3
  <2>2. umailbox[v] \in Seq(MessageType)
    BY <1>0
  <2>3. \A y \in Range(Append(umailbox[v], e)) : y \in Range(umailbox[v]) \/ y = e
    BY <1>4, <2>2, AppendRange
  <2> QED BY <2>1, <2>3
<1>9. \A s \in Stargates : \A x \in mailbox'[s] : x \in mailbox[s] \/ (x = e /\ s = e.sg)
  BY <1>0, <1>3
<1>10. UNCHANGED <<tmlnVars, gateVars, binVars, remote_mailbox, windowVars, trainVars,
                   threadVars, sent>>
  BY DEF Reader
<1> QED BY <1>2, <1>4, <1>7, <1>8, <1>9, <1>10 DEF p

\* The batches that a writer makes.
LEMMA WriteBatch ==
  ASSUME TypeOK, NEW m \in Machines, Writer(m)
  PROVE  /\ \A k \in Machines : remote_mailbox'[k] \subseteq remote_mailbox[k]
         /\ \A k, n \in Machines : \A b \in Range(net'[<<k, n>>]) :
              \/ b \in Range(net[<<k, n>>])
              \/ /\ k = m
                 /\ \A e \in b.regular \cup b.null :
                      e \in remote_mailbox[m] /\ TargetMachine(e.sg) = n
         /\ UNCHANGED <<tmlnVars, gateVars, mailVars, binVars, windowVars, trainVars,
                        threadVars, sent>>
<1>0. /\ net \in [Machines \X Machines -> Seq(BatchType)]
      /\ remote_mailbox \in [Machines -> SUBSET MessageType]
  BY DEF TypeOK, MessageTypeOK
<1> DEFINE to(n) == {e \in remote_mailbox[m] : Counted(e) /\ TargetMachine(e.sg) = n}
           batch(n) == [regular |-> {e \in to(n) : ~IsNull(e)}, null |-> {e \in to(n) : IsNull(e)}]
<1>1. /\ remote_mailbox' = [remote_mailbox EXCEPT ![m] = {}]
      /\ net' = [mn \in Machines \X Machines |->
                   IF mn[1] = m /\ to(mn[2]) # {} THEN Append(net[mn], batch(mn[2])) ELSE net[mn]]
  BY DEF Writer
<1>2. ASSUME NEW n \in Machines
      PROVE  /\ batch(n) \in BatchType
             /\ \A e \in batch(n).regular \cup batch(n).null :
                      e \in remote_mailbox[m] /\ TargetMachine(e.sg) = n
  <2>1. remote_mailbox[m] \subseteq MessageType
    BY <1>0
  <2> QED BY <2>1 DEF BatchType
<1>3. ASSUME NEW k \in Machines, NEW n \in Machines
      PROVE  net'[<<k, n>>] = net[<<k, n>>] \/ (k = m /\ net'[<<k, n>>] = Append(net[<<k, n>>], batch(n)))
  BY <1>1
<1> HIDE DEF to, batch
<1>4. ASSUME NEW k \in Machines, NEW n \in Machines, NEW b \in Range(net'[<<k, n>>])
      PROVE  b \in Range(net[<<k, n>>]) \/ (k = m /\ b = batch(n))
  <2>1. net[<<k, n>>] \in Seq(BatchType)
    BY <1>0
  <2>2. \A c \in Range(Append(net[<<k, n>>], batch(n))) : c \in Range(net[<<k, n>>]) \/ c = batch(n)
    BY <1>2, <2>1, AppendRange
  <2> QED BY <1>3, <2>2
<1>5. \A k \in Machines : remote_mailbox'[k] \subseteq remote_mailbox[k]
  BY <1>0, <1>1
<1>6. UNCHANGED <<tmlnVars, gateVars, mailVars, binVars, windowVars, trainVars, threadVars, sent>>
  BY DEF Writer
<1> QED BY <1>2, <1>4, <1>5, <1>6
\* A synchronization step of a thread moves messages from a queue.
LEMMA Exchanging ==
  ASSUME TypeOK, NEW u \in Universes
  PROVE  /\ Dispatch(u) =>
              /\ \A v \in Universes : local_binque'[v] \subseteq local_binque[v]
              /\ \A v \in Universes : \A e \in switch_board'[v] :
                   \/ e \in switch_board[v]
                   \/ e \in local_binque[u] /\ universe[Dest(e)] = v /\ Exchange(u)
              /\ Exchange(u) => \A e \in local_binque'[u] :
                   training_finished[machine[u]] /\ next_decade[u] <= e.t
         /\ Collect(u) =>
              /\ \A v \in Universes : switch_board'[v] = IF v = u THEN {} ELSE switch_board[v]
              /\ \A t \in Timelines : \A e \in evtlist'[t] :
                   e \in evtlist[t] \/ (e \in switch_board[u] /\ Dest(e) = t)
         /\ SendEpoch(u) =>
              /\ \A v \in Universes : global_binque'[v] \subseteq global_binque[v]
              /\ \A k \in Machines : \A e \in remote_mailbox'[k] :
                   e \in remote_mailbox[k] \/ (k = machine[u] /\ e \in global_binque[u])
<1>0. /\ local_binque \in [Universes -> SUBSET MessageType]
      /\ global_binque \in [Universes -> SUBSET MessageType]
      /\ switch_board \in [Universes -> SUBSET MessageType]
      /\ remote_mailbox \in [Machines -> SUBSET MessageType]
      /\ next_decade[u] \in Nat
  BY DEF TypeOK, MessageTypeOK, WindowTypeOK
<1>1. ASSUME Dispatch(u)
      PROVE  /\ \A v \in Universes : local_binque'[v] \subseteq local_binque[v]
             /\ \A v \in Universes : \A e \in switch_board'[v] :
                  \/ e \in switch_board[v]
                  \/ e \in local_binque[u] /\ universe[Dest(e)] = v /\ Exchange(u)
             /\ Exchange(u) => \A e \in local_binque'[u] :
                  training_finished[machine[u]] /\ next_decade[u] <= e.t
  <2>1. CASE Exchange(u)
    <3>1. PICK out : /\ out = Retrieved(local_binque[u], u, next_decade[u])
                     /\ local_binque' = [local_binque EXCEPT ![u] = @ \ out]
                     /\ switch_board' = [v \in Universes |->
                          switch_board[v] \cup {e \in out : universe[Dest(e)] = v}]
      BY <1>1, <2>1 DEF Dispatch, Exchange
    <3>2. out \subseteq local_binque[u]
      BY <3>1 DEF Retrieved
    <3>3. ASSUME NEW e \in local_binque[u] \ out
          PROVE  training_finished[machine[u]] /\ next_decade[u] <= e.t
      <4>1. training_finished[machine[u]] /\ ~(e.t < next_decade[u])
        BY <3>1, <3>3 DEF Retrieved
      <4>2. e.t \in Nat
        BY <1>0 DEF MessageType
      <4> QED BY <1>0, <4>1, <4>2
    <3> QED BY <1>0, <2>1, <3>1, <3>2, <3>3
  <2>2. CASE ~Exchange(u)
    <3>1. UNCHANGED <<local_binque, switch_board>>
      BY <1>1, <2>2 DEF Dispatch, Exchange
    <3> QED BY <2>2, <3>1
  <2> QED BY <2>1, <2>2
<1>2. ASSUME Collect(u)
      PROVE  /\ \A v \in Universes : switch_board'[v] = IF v = u THEN {} ELSE switch_board[v]
             /\ \A t \in Timelines : \A e \in evtlist'[t] :
                  e \in evtlist[t] \/ (e \in switch_board[u] /\ Dest(e) = t)
  BY <1>0, <1>2 DEF Collect
<1>3. ASSUME SendEpoch(u)
      PROVE  /\ \A v \in Universes : global_binque'[v] \subseteq global_binque[v]
             /\ \A k \in Machines : \A e \in remote_mailbox'[k] :
                  e \in remote_mailbox[k] \/ (k = machine[u] /\ e \in global_binque[u])
  <2>1. PICK out : /\ out = Retrieved(global_binque[u], u, next_epoch[u])
                   /\ global_binque' = [global_binque EXCEPT ![u] = @ \ out]
                   /\ remote_mailbox' = [remote_mailbox EXCEPT ![machine[u]] = @ \cup out]
    BY <1>3 DEF SendEpoch
  <2>2. out \subseteq global_binque[u]
    BY <2>1 DEF Retrieved
  <2> QED BY <1>0, <2>1, <2>2
<1> QED BY <1>1, <1>2, <1>3

LEMMA ThreadQueueRoutes ==
  ASSUME TypeOK, Scheduling, Routes, NEW u \in Universes, Thread(u)
  PROVE  QueueRoutes'
<1>0. QueueRoutes
  BY DEF Routes
<1>1. ASSUME NEW v \in Universes, NEW e \in local_binque'[v]
      PROVE  universe[source[e.sg]] = v /\ ~SameUniverse(e.sg) /\ ~Remote(e.sg)
  <2>1. CASE RunEvent(u)
    <3>1. e \in local_binque[v] \/ (v = u /\ universe[source[e.sg]] = u
                                      /\ ~SameUniverse(e.sg) /\ ~Remote(e.sg))
      BY <1>1, <2>1, EventDelivered DEF EventWrites
    <3> QED BY <1>0, <3>1 DEF QueueRoutes
  <2>2. CASE ~RunEvent(u)
    <3>1. e \in local_binque[v]
      BY <1>1, <2>2, ThreadFrame, Exchanging
    <3> QED BY <1>0, <3>1 DEF QueueRoutes
  <2> QED BY <2>1, <2>2
<1>2. ASSUME NEW v \in Universes, NEW e \in global_binque'[v]
      PROVE  universe[source[e.sg]] = v /\ Remote(e.sg)
  <2>1. CASE RunEvent(u)
    <3>1. e \in global_binque[v] \/ (v = u /\ universe[source[e.sg]] = u /\ Remote(e.sg))
      BY <1>2, <2>1, EventDelivered DEF EventWrites
    <3> QED BY <1>0, <3>1 DEF QueueRoutes
  <2>2. CASE ~RunEvent(u)
    <3>1. e \in global_binque[v]
      BY <1>2, <2>2, ThreadFrame, Exchanging
    <3> QED BY <1>0, <3>1 DEF QueueRoutes
  <2> QED BY <2>1, <2>2
<1>3. ASSUME NEW v \in Universes, NEW e \in switch_board'[v]
      PROVE  universe[Dest(e)] = v /\ ~Remote(e.sg)
  <2>1. e \in switch_board[v] \/ (e \in local_binque[u] /\ universe[Dest(e)] = v)
    <3>1. CASE Dispatch(u)
      BY <1>3, <3>1, Exchanging
    <3>2. CASE Collect(u)
      BY <1>3, <3>2, Exchanging
    <3>3. CASE ~Dispatch(u) /\ ~Collect(u)
      BY <1>3, <3>3, ThreadFrame
    <3> QED BY <3>1, <3>2, <3>3
  <2> QED BY <1>0, <2>1 DEF QueueRoutes
<1> QED BY <1>1, <1>2, <1>3 DEF QueueRoutes

LEMMA ThreadMailRoutes ==
  ASSUME TypeOK, Scheduling, Routes, NEW u \in Universes, Thread(u)
  PROVE  MailRoutes'
<1>0. MailRoutes
  BY DEF Routes
<1>1. ASSUME NEW v \in Universes, NEW e \in Range(umailbox'[v]) \cup Range(ctx'[v].io)
      PROVE  IsNull(e) \/ Remote(e.sg)
  <2>1. e \in Range(umailbox[v]) \cup Range(ctx[v].io) \/ IsNull(e)
    BY <1>1, MailFrame
  <2> QED BY <1>0, <2>1 DEF MailRoutes
<1>2. ASSUME NEW s \in Stargates, NEW e \in mailbox'[s]
      PROVE  e.sg = s /\ ~SameUniverse(s)
  <2>1. CASE RunEvent(u)
    <3>1. e \in mailbox[s] \/ (e.sg = s /\ ~SameUniverse(s))
      BY <1>2, <2>1, EventDelivered DEF EventWrites
    <3> QED BY <1>0, <3>1 DEF MailRoutes
  <2>2. CASE ReceiveMessages(u)
    <3>1. e \in mailbox[s]
      <4>1. mailbox' = [mailbox EXCEPT ![scan[u].hold] = {}]
        BY <2>2 DEF ReceiveMessages
      <4>2. mailbox \in [Stargates -> SUBSET MessageType]
        BY DEF TypeOK, MessageTypeOK
      <4> QED BY <1>2, <4>1, <4>2
    <3> QED BY <1>0, <3>1 DEF MailRoutes
  <2>3. CASE ~RunEvent(u) /\ ~ReceiveMessages(u)
    BY <1>0, <1>2, <2>3, ThreadFrame DEF MailRoutes
  <2> QED BY <2>1, <2>2, <2>3
<1> QED BY <1>1, <1>2 DEF MailRoutes

\* A null message that a thread sends to another machine.
LEMMA NullSent ==
  ASSUME TypeOK, Scheduling, NEW u \in Universes, UpdateTime(u)
  PROVE  \A k \in Machines : \A e \in remote_mailbox'[k] :
           \/ e \in remote_mailbox[k]
           \/ /\ k = machine[u] /\ IsNull(e) /\ e.sg \in Stargates /\ Remote(e.sg)
              /\ source[e.sg] = ctx[u].cur /\ ctx[u].cur \in TimelinesOf(u)
              /\ ~gate[e.sg].in_sync
              /\ e.t = simclock[ctx[u].cur] + min_delay[e.sg]
              /\ gate'[e.sg].time = e.t
<1>1. pc[u] = "update" /\ \E s \in ctx[u].out : SetTime(u, s)
  BY DEF UpdateTime
<1>2. PICK s \in ctx[u].out : SetTime(u, s)
  BY <1>1
<1>3. /\ source[s] = ctx[u].cur /\ ~gate[s].in_sync
  BY <1>1, ThreadFacts DEF Control
<1>4. s \in Stargates /\ ctx[u] \in ContextType
  BY DEF TypeOK, ThreadTypeOK, ContextType
<1>5. ctx[u].cur \in TimelinesOf(u)
  <2>1. ctx[u].cur \in Timelines
    BY <1>1 DEF TypeOK, Running
  <2> QED BY <2>1, ThreadFacts, TopologyAssumption DEF Owned, NoTimeline
<1> DEFINE now == simclock[ctx[u].cur] + min_delay[s]
           past == gate[s].time >= endtime
<1>6. /\ gate' = IF past THEN gate ELSE [gate EXCEPT ![s].time = now]
      /\ remote_mailbox' = IF past \/ ~Remote(s) THEN remote_mailbox
                           ELSE [remote_mailbox EXCEPT
                                   ![machine[u]] = @ \cup {Message(s, 0, now)}]
  BY <1>2 DEF SetTime
<1>7. gate \in [Stargates -> GateType] /\ remote_mailbox \in [Machines -> SUBSET MessageType]
  BY DEF TypeOK, TimelineTypeOK, MessageTypeOK
<1> HIDE DEF past
<1>8. CASE past \/ ~Remote(s)
  BY <1>6, <1>8
<1>9. CASE ~past /\ Remote(s)
  <2>1. gate' = [gate EXCEPT ![s].time = now]
    BY <1>6, <1>9
  <2>2. gate'[s].time = now
    BY <1>4, <1>7, <2>1 DEF GateType
  <2>3. remote_mailbox' = [remote_mailbox EXCEPT ![machine[u]] = @ \cup {Message(s, 0, now)}]
    BY <1>6, <1>9
  <2>4. \A k \in Machines : \A e \in remote_mailbox'[k] :
          e \in remote_mailbox[k] \/ (k = machine[u] /\ e = Message(s, 0, now))
    BY <1>7, <2>3
  <2>5. LET e == Message(s, 0, now) IN IsNull(e) /\ e.sg = s /\ e.t = now
    BY DEF Message, IsNull
  <2> QED BY <1>3, <1>4, <1>5, <1>9, <2>2, <2>4, <2>5
<1> QED BY <1>8, <1>9

LEMMA ThreadNetRoutes ==
  ASSUME TypeOK, Scheduling, Routes, NEW u \in Universes, Thread(u)
  PROVE  NetRoutes'
<1>0. NetRoutes /\ QueueRoutes
  BY DEF Routes
<1>1. ASSUME NEW k \in Machines, NEW e \in remote_mailbox'[k]
      PROVE  SourceMachine(e.sg) = k /\ Remote(e.sg)
  <2>1. \/ e \in remote_mailbox[k]
        \/ k = machine[u] /\ universe[source[e.sg]] = u /\ Remote(e.sg)
    <3>1. CASE RunEvent(u)
      BY <1>1, <3>1, EventDelivered DEF EventWrites
    <3>2. CASE SendEpoch(u)
      BY <1>0, <1>1, <3>2, Exchanging DEF QueueRoutes
    <3>3. CASE UpdateTime(u)
      BY <1>1, <3>3, NullSent DEF TimelinesOf
    <3>4. CASE ~RunEvent(u) /\ ~SendEpoch(u) /\ ~UpdateTime(u)
      BY <1>1, <3>4, ThreadFrame
    <3> QED BY <3>1, <3>2, <3>3, <3>4
  <2> QED BY <1>0, <2>1 DEF NetRoutes, SourceMachine
<1>2. net' = net
  BY ThreadFrame
<1> QED BY <1>0, <1>1, <1>2 DEF NetRoutes
\* What the end of training moves.
LEMMA TrainingEnds ==
  ASSUME TypeOK, NEW m \in Machines, Trained(m)
  PROVE  /\ \A s \in Stargates : mailbox'[s] = IF s \in Drained(m) THEN {} ELSE mailbox[s]
         /\ \A t \in Timelines : \A e \in evtlist'[t] :
              e \in evtlist[t] \/ \E s \in Drained(m) : target[s] = t /\ e \in mailbox[s]
         /\ \A v \in Universes : ctx'[v].io = ctx[v].io
         /\ inbound_async' = Listed(m)
         /\ \A v \in Universes : machine[v] = m => pc[v] = "trained" /\ pc'[v] = "open"
         /\ \A v \in Universes : machine[v] # m =>
              pc'[v] = pc[v] /\ next_decade'[v] = next_decade[v] /\ next_epoch'[v] = next_epoch[v]
         /\ ~Reclassified(m) => next_decade' = next_decade /\ next_epoch' = next_epoch
         /\ UNCHANGED <<simclock, lbts, state, key, gateVars, umailbox, binVars, netVars,
                        synpoint, decade_sync, epoch_sync, trainVars, scan, runnable, sent>>
<1>0. /\ ctx \in [Universes -> ContextType]
      /\ next_decade \in [Universes -> Nat] /\ next_epoch \in [Universes -> Nat]
  BY DEF TypeOK, ThreadTypeOK, WindowTypeOK
<1>1. \A v \in Universes : ctx'[v].io = ctx[v].io
  <2>1. \A v \in Universes : ctx'[v] = ctx[v] \/ ctx'[v] = [ctx[v] EXCEPT !.open = TimelinesOf(v)]
    BY DEF Trained
  <2> QED BY <1>0, <2>1 DEF ContextType
<1>2. \A v \in Universes : machine[v] # m =>
              pc'[v] = pc[v] /\ next_decade'[v] = next_decade[v] /\ next_epoch'[v] = next_epoch[v]
  BY DEF Trained
<1>3. \A v \in Universes : machine[v] = m => pc[v] = "trained" /\ pc'[v] = "open"
  BY DEF Trained, UniversesOf
<1>4. ~Reclassified(m) => next_decade' = next_decade /\ next_epoch' = next_epoch
  <2> SUFFICES ASSUME ~Reclassified(m) PROVE next_decade' = next_decade /\ next_epoch' = next_epoch
    OBVIOUS
  <2>1. /\ next_decade' = [v \in Universes |-> next_decade[v]]
        /\ next_epoch' = [v \in Universes |-> next_epoch[v]]
    BY DEF Trained
  <2> QED BY <1>0, <2>1
<1>5. \A s \in Stargates : mailbox'[s] = IF s \in Drained(m) THEN {} ELSE mailbox[s]
  BY DEF Trained
<1>6. \A t \in Timelines : \A e \in evtlist'[t] :
              e \in evtlist[t] \/ \E s \in Drained(m) : target[s] = t /\ e \in mailbox[s]
  BY DEF Trained
<1>7. /\ inbound_async' = Listed(m)
      /\ UNCHANGED <<simclock, lbts, state, key, gateVars, umailbox, binVars, netVars,
                     synpoint, decade_sync, epoch_sync, trainVars, scan, runnable, sent>>
  BY DEF Trained
<1> QED BY <1>1, <1>2, <1>3, <1>4, <1>5, <1>6, <1>7

LEMMA NextRoutes ==
  ASSUME TypeOK, Scheduling, Routes, [Next]_vars
  PROVE  Routes'
<1>0. QueueRoutes /\ MailRoutes /\ NetRoutes
  BY DEF Routes
<1>1. CASE \E u \in Universes : Thread(u)
  BY <1>1, ThreadQueueRoutes, ThreadMailRoutes, ThreadNetRoutes DEF Routes
<1>2. ASSUME NEW m \in Machines, Trained(m) PROVE Routes'
  <2>1. UNCHANGED <<local_binque, global_binque, switch_board, umailbox, remote_mailbox, net>>
    BY <1>2, TrainingEnds DEF binVars, netVars
  <2>2. /\ \A v \in Universes : ctx'[v].io = ctx[v].io
        /\ \A s \in Stargates : mailbox'[s] \subseteq mailbox[s]
    BY <1>2, TrainingEnds
  <2>3. QueueRoutes'
    BY <1>0, <2>1 DEF QueueRoutes
  <2>4. MailRoutes'
    BY <1>0, <2>1, <2>2 DEF MailRoutes
  <2>5. NetRoutes'
    BY <1>0, <2>1 DEF NetRoutes
  <2> QED BY <2>3, <2>4, <2>5 DEF Routes
<1>3. ASSUME NEW m \in Machines, Writer(m) PROVE Routes'
  <2>1. UNCHANGED <<local_binque, global_binque, switch_board, umailbox, mailbox, ctx>>
    BY <1>3, WriteBatch DEF binVars, mailVars, threadVars
  <2>2. QueueRoutes' /\ MailRoutes'
    BY <1>0, <2>1 DEF QueueRoutes, MailRoutes
  <2>3. ASSUME NEW k \in Machines, NEW n \in Machines, NEW b \in Range(net'[<<k, n>>]),
               NEW e \in b.regular \cup b.null
        PROVE  SourceMachine(e.sg) = k /\ TargetMachine(e.sg) = n /\ k # n
    <3>1. \/ b \in Range(net[<<k, n>>])
          \/ k = m /\ e \in remote_mailbox[m] /\ TargetMachine(e.sg) = n
      BY <1>3, <2>3, WriteBatch
    <3> QED BY <1>0, <3>1 DEF NetRoutes, Remote
  <2>4. ASSUME NEW k \in Machines, NEW e \in remote_mailbox'[k]
        PROVE  SourceMachine(e.sg) = k /\ Remote(e.sg)
    BY <1>0, <1>3, <2>4, WriteBatch DEF NetRoutes
  <2>5. NetRoutes'
    BY <2>3, <2>4 DEF NetRoutes
  <2> QED BY <2>2, <2>5 DEF Routes
<1>4. ASSUME NEW n \in Machines, NEW m \in Machines, Reader(n, m) PROVE Routes'
  <2>1. PICK e \in MessageType :
         /\ \E b \in Range(net[<<n, m>>]) : e \in b.regular \cup b.null
         /\ \A p \in Machines \X Machines : \A b \in Range(net'[p]) :
              \E c \in Range(net[p]) : b.regular \subseteq c.regular /\ b.null \subseteq c.null
         /\ \A v \in Universes : \A x \in Range(umailbox'[v]) :
              x \in Range(umailbox[v]) \/ x = e
         /\ \A s \in Stargates : \A x \in mailbox'[s] : x \in mailbox[s] \/ (x = e /\ s = e.sg)
         /\ UNCHANGED <<tmlnVars, gateVars, binVars, remote_mailbox, windowVars, trainVars,
                        threadVars, sent>>
    BY <1>4, ReadMessage
  <2>2. Remote(e.sg) /\ ~SameUniverse(e.sg)
    BY <1>0, <2>1 DEF NetRoutes, Remote, SameUniverse, SourceMachine, TargetMachine
  <2>3. UNCHANGED <<local_binque, global_binque, switch_board, remote_mailbox, ctx>>
    BY <2>1 DEF binVars, threadVars
  <2>4. QueueRoutes'
    BY <1>0, <2>3 DEF QueueRoutes
  <2>5. MailRoutes'
    BY <1>0, <2>1, <2>2, <2>3 DEF MailRoutes
  <2>6. NetRoutes'
    BY <1>0, <2>1, <2>3 DEF NetRoutes
  <2> QED BY <2>4, <2>5, <2>6 DEF Routes
<1>5. ASSUME (\E m \in Machines : Barrier(m)) \/ Collective \/ UNCHANGED vars PROVE Routes'
  <2>1. UNCHANGED <<local_binque, global_binque, switch_board, umailbox, mailbox, ctx,
                    remote_mailbox, net>>
    <3>1. CASE \E m \in Machines : Barrier(m)
      BY <3>1 DEF Barrier, Meet, binVars, mailVars, netVars
    <3>2. CASE Collective
      BY <3>2 DEF Collective, Reduce, MpiBarrier, FinishGlobal, binVars, mailVars, netVars
    <3>3. CASE UNCHANGED vars
      BY <3>3 DEF vars, binVars, mailVars, netVars, threadVars
    <3> QED BY <1>5, <3>1, <3>2, <3>3
  <2>2. QueueRoutes' /\ MailRoutes' /\ NetRoutes'
    BY <1>0, <2>1 DEF QueueRoutes, MailRoutes, NetRoutes
  <2> QED BY <2>2 DEF Routes
<1> QED BY <1>1, <1>2, <1>3, <1>4, <1>5 DEF Next, Finished
-----------------------------------------------------------------------------
(* The clocks, the events still to be processed, and the promises.         *)

LEMMA ClocksRise ==
  ASSUME TypeOK, Scheduling, Events, [Next]_vars
  PROVE  \A t \in Timelines : simclock[t] <= simclock'[t]
<1>0. simclock \in [Timelines -> Nat]
  BY DEF TypeOK, TimelineTypeOK
<1>1. ASSUME NEW u \in Universes, RunEvent(u)
      PROVE  \A t \in Timelines : simclock[t] <= simclock'[t]
  <2>1. PICK t \in Timelines : \E e \in evtlist[t] :
          e.t \in Nat /\ simclock' = [simclock EXCEPT ![t] = e.t]
    BY <1>1, EventDelivered DEF EventWrites
  <2>2. PICK e \in evtlist[t] : e.t \in Nat /\ simclock' = [simclock EXCEPT ![t] = e.t]
    BY <2>1
  <2>3. simclock[t] <= e.t
    BY DEF Events
  <2> QED BY <1>0, <2>2, <2>3
<1>2. ASSUME NEW u \in Universes, RunEnd(u)
      PROVE  \A t \in Timelines : simclock[t] <= simclock'[t]
  <2>1. /\ simclock' = [simclock EXCEPT ![ctx[u].cur] = ctx[u].horizon] /\ pc[u] = "run"
    BY <1>2 DEF RunEnd
  <2>2. simclock[ctx[u].cur] <= ctx[u].horizon
    BY <2>1, ThreadFacts DEF Control
  <2> QED BY <1>0, <2>1, <2>2
<1>3. ASSUME simclock' = simclock
      PROVE  \A t \in Timelines : simclock[t] <= simclock'[t]
  BY <1>0, <1>3
<1>4. ASSUME NEW u \in Universes, Thread(u)
      PROVE  \A t \in Timelines : simclock[t] <= simclock'[t]
  BY <1>1, <1>2, <1>3, <1>4, ThreadFrame
<1>5. (\E u \in Universes : Thread(u)) \/ simclock' = simclock
  BY OtherFrame DEF Next, Finished
<1> QED BY <1>3, <1>4, <1>5

\* Which steps move the window of a thread or change a channel time.
LEMMA WindowFrame ==
  ASSUME [Next]_vars
  PROVE  \/ \E u \in Universes : AdvanceWindow(u)
         \/ synpoint' = synpoint
<1>1. CASE \E u \in Universes : Thread(u)
  BY <1>1, ThreadFrame DEF windowVars
<1>2. ASSUME NEW m \in Machines, Trained(m) PROVE synpoint' = synpoint
  BY <1>2 DEF Trained
<1>3. CASE ~(\E u \in Universes : Thread(u)) /\ ~(\E m \in Machines : Trained(m))
  <2>1. UNCHANGED windowVars
    BY <1>3, OtherFrame DEF Next, Finished
  <2> QED BY <2>1 DEF windowVars
<1> QED BY <1>1, <1>2, <1>3

LEMMA NextClocksInside ==
  ASSUME TypeOK, TypeOK', Meeting, Scheduling, Scheduling', Events, ClocksInside, [Next]_vars
  PROVE  ClocksInside'
<1>0. \A t \in Timelines : /\ simclock[t] \in Nat /\ universe[t] \in Universes
                           /\ t \in TimelinesOf(universe[t])
  BY SchedulingFacts DEF TimelinesOf
<1>1. /\ synpoint \in [Universes -> Nat]
      /\ simclock' \in [Timelines -> Nat] /\ synpoint' \in [Universes -> Nat]
  BY DEF TypeOK, TimelineTypeOK, WindowTypeOK
<1>2. ASSUME NEW t \in Timelines, synpoint'[universe[t]] = synpoint[universe[t]]
      PROVE  synpoint'[universe[t]] <= simclock'[t]
  <2>1. simclock[t] <= simclock'[t] /\ synpoint[universe[t]] <= simclock[t]
    BY ClocksRise DEF ClocksInside
  <2> QED BY <1>0, <1>1, <1>2, <2>1
<1>3. ASSUME NEW u \in Universes, AdvanceWindow(u)
      PROVE  \A t \in Timelines : synpoint'[universe[t]] <= simclock'[t]
  <2> SUFFICES ASSUME NEW t \in Timelines PROVE synpoint'[universe[t]] <= simclock'[t]
    OBVIOUS
  <2>1. Together
    BY DEF Meeting
  <2>2. CASE universe[t] # u
    <3>1. synpoint'[universe[t]] = synpoint[universe[t]]
      BY <1>0, <1>3, <2>1, <2>2, WindowLeft
    <3> QED BY <1>2, <3>1
  <2>3. CASE universe[t] = u
    <3>1. ~InWindow(u)'
      BY <1>3, <2>1, WindowLeft
    <3>2. TimelineOK(u, t)'
      BY <1>0, <2>3 DEF Scheduling, Threads, ThreadOK, TimelinesOf
    <3>3. simclock'[t] = synpoint'[u]
      BY <3>1, <3>2 DEF TimelineOK
    <3> QED BY <1>1, <2>3, <3>3
  <2> QED BY <2>2, <2>3
<1>4. synpoint' = synpoint \/ \E u \in Universes : AdvanceWindow(u)
  BY WindowFrame
<1> QED BY <1>2, <1>3, <1>4 DEF ClocksInside

\* A channel time changes only while its source does not run.
LEMMA GateFrame ==
  ASSUME TypeOK, Meeting, Scheduling, [Next]_vars, NEW s \in Stargates
  PROVE  gate'[s] = gate[s] \/ pc'[universe[source[s]]] # "run"
<1> DEFINE w == universe[source[s]]
<1>0. /\ w \in Universes /\ machine[w] = SourceMachine(s) /\ machine[w] \in Machines
      /\ pc \in [Universes -> Labels] /\ \A n \in Machines : proc0[n] \in Universes /\ machine[proc0[n]] = n
  BY LocalEnds, TopologyAssumption DEF TypeOK, ThreadTypeOK
<1> HIDE DEF w
<1> SUFFICES ASSUME gate'[s] # gate[s] PROVE pc'[w] # "run"
  BY DEF w
<1>1. ASSUME NEW u \in Universes, UpdateTime(u) PROVE pc'[w] # "run"
  <2>1. PICK t \in TimelinesOf(u), r \in ctx[u].out :
         /\ universe[t] = u /\ source[r] = t /\ pc[u] = "update"
         /\ \A q \in Stargates : q # r => gate'[q] = gate[q]
         /\ \/ UNCHANGED <<ctx, scan>> /\ pc' = [pc EXCEPT ![u] = "notify"]
            \/ /\ ctx' = [ctx EXCEPT ![u].out = @ \ {r}]
               /\ \/ UNCHANGED <<pc, scan>>
                  \/ /\ target[r] \in TimelinesOf(u) /\ state[target[r]] = "WAITING"
                     /\ BeginScan(u, target[r], "update")
    BY <1>1, TimeSet
  <2>2. w = u
    BY <2>1 DEF w
  <2>3. pc'[u] \in {"notify", "update", "scan"}
    BY <1>0, <2>1 DEF BeginScan, Goto
  <2> QED BY <2>2, <2>3
<1>2. ASSUME NEW u \in Universes, AtEdge(u), machine[u] = machine[w],
             \E l : l # "run" /\ pc' = [pc EXCEPT ![u] = l]
      PROVE  pc'[w] # "run"
  <2>1. ~InWindow(w)
    BY <1>0, <1>2, EdgeOfMachine
  <2>2. pc[w] # "run"
    BY <2>1 DEF InWindow, AtEdge, WindowLabels
  <2> QED BY <1>0, <1>2, <2>2
<1>3. ASSUME NEW u \in Universes, TrainLocal(u) PROVE pc'[w] # "run"
  <2>1. /\ pc[u] = "train" /\ \E l \in {"train global", "trained"} : pc' = [pc EXCEPT ![u] = l]
    BY <1>3 DEF TrainLocal, Goto
  <2>2. AtEdge(u)
    BY <2>1 DEF AtEdge, WindowLabels
  <2>3. machine[u] = machine[w]
    <3>1. \A r \in Stargates : Remote(r) \/ SourceMachine(r) # machine[u] => gate'[r] = gate[r]
      BY <1>3, LocallyTrained
    <3> QED BY <1>0, <3>1
  <2> QED BY <1>2, <2>1, <2>2, <2>3
<1>4. ASSUME NEW u \in Universes, TrainGlobal(u) PROVE pc'[w] # "run"
  <2>1. /\ pc[u] = "train global" /\ pc' = [pc EXCEPT ![u] = "trained"]
    BY <1>4 DEF TrainGlobal, Goto
  <2>2. AtEdge(u)
    BY <2>1 DEF AtEdge, WindowLabels
  <2>3. PICK thresh : ClassifyGlobal({machine[u]}, thresh, synpoint[u])
    BY <1>4 DEF TrainGlobal
  <2>4. machine[u] = machine[w]
    <3> DEFINE S == {r \in RemoteGates : SourceMachine(r) \in {machine[u]}}
    <3>1. gate' = Classify(gate, S, thresh, synpoint[u])
      BY <2>3 DEF ClassifyGlobal
    <3>2. s \in S
      BY <3>1 DEF Classify
    <3> QED BY <1>0, <3>2
  <2> QED BY <1>2, <2>1, <2>2, <2>4
<1>5. ASSUME FinishGlobal PROVE pc'[w] # "run"
  <2>1. pc[proc0[machine[w]]] = "train global"
    BY <1>0, <1>5 DEF FinishGlobal
  <2>2. ~InWindow(w)
    BY <1>0, <2>1, AtGlobalTraining DEF TrainsGlobally
  <2>3. pc[w] # "run"
    BY <2>2 DEF InWindow, AtEdge, WindowLabels
  <2>4. pc'[w] = IF pc[w] = "train global" THEN "trained" ELSE pc[w]
    BY <1>0, <1>5 DEF FinishGlobal
  <2> QED BY <2>3, <2>4
<1>6. ASSUME NEW u \in Universes, Thread(u), ~UpdateTime(u), ~TrainLocal(u), ~TrainGlobal(u)
      PROVE  FALSE
  <2>1. gate' = gate
    <3> USE DEF gateVars
    <3>1. CASE Dispatch(u) \/ Collect(u) \/ SendEpoch(u) \/ Await(u)
      BY <3>1 DEF Dispatch, Collect, SendEpoch, Await
    <3>2. CASE OpenTimeline(u) \/ Opened(u) \/ Pick(u)
      BY <3>2 DEF OpenTimeline, Opened, Pick
    <3>3. CASE ReadTime(u) \/ ReceiveMessages(u) \/ EndScan(u)
      BY <3>3 DEF ReadTime, ReceiveMessages, EndScan
    <3>4. CASE RunEvent(u) \/ RunEnd(u) \/ Notify(u) \/ Interrupted(u)
      BY <3>4 DEF RunEvent, RunEnd, Notify, Interrupted
    <3>5. CASE PollMail(u) \/ WaitMail(u) \/ DrainMail(u) \/ HandleMail(u) \/ EndMail(u)
      BY <3>5 DEF PollMail, WaitMail, DrainMail, TakeMail, HandleMail, EndMail
    <3>6. CASE AdvanceWindow(u)
      BY <3>6 DEF AdvanceWindow
    <3> QED BY <1>6, <3>1, <3>2, <3>3, <3>4, <3>5, <3>6 DEF Thread
  <2> QED BY <2>1
<1>7. CASE ~(\E u \in Universes : Thread(u)) /\ ~FinishGlobal
  <2>1. UNCHANGED gateVars
    BY <1>7, OtherFrame DEF Next, Finished
  <2> QED BY <2>1 DEF gateVars
<1> QED BY <1>1, <1>3, <1>4, <1>5, <1>6, <1>7

LEMMA NextPromises ==
  ASSUME TypeOK, TypeOK', Meeting, Scheduling, Scheduling', Events, Promises, [Next]_vars
  PROVE  Promises'
<1> SUFFICES ASSUME NEW s \in Stargates
             PROVE  gate'[s].time <= simclock'[source[s]] + min_delay[s]
  BY DEF Promises
<1>0. /\ source[s] \in Timelines /\ min_delay[s] \in Nat /\ simclock[source[s]] \in Nat
      /\ gate[s].time \in Nat
  BY SchedulingFacts
<1>1. simclock'[source[s]] \in Nat
  BY <1>0 DEF TypeOK, TimelineTypeOK
<1>2. CASE gate'[s] = gate[s]
  <2>1. simclock[source[s]] <= simclock'[source[s]] /\ gate[s].time <= simclock[source[s]] + min_delay[s]
    BY <1>0, ClocksRise DEF Promises
  <2>2. gate'[s].time = gate[s].time
    BY <1>2
  <2> QED BY <1>0, <1>1, <2>1, <2>2
<1>3. CASE pc'[universe[source[s]]] # "run"
  <2>1. Reached(source[s])' = simclock'[source[s]]
    BY <1>3 DEF Reached
  <2> QED BY <2>1 DEF Scheduling, Gates
<1> QED BY <1>2, <1>3, GateFrame
\* No message in a mailbox is for a time before the bound of its timeline.
LEMMA MailSafe ==
  ASSUME TypeOK, Meeting, Scheduling, Lookahead, RemoteSafe
  PROVE  /\ \A s \in Stargates : \A e \in mailbox[s] :
              /\ e.t \in Nat /\ lbts[target[s]] <= e.t /\ simclock[target[s]] <= e.t
         /\ \A u \in Universes : \A e \in Range(umailbox[u]) \cup Range(ctx[u].io) :
              ~IsNull(e) => /\ e.t \in Nat /\ Dest(e) \in Timelines
                            /\ lbts[Dest(e)] <= e.t /\ simclock[Dest(e)] <= e.t
<1>0. /\ \A t \in Timelines : lbts[t] \in Nat /\ simclock[t] \in Nat /\ simclock[t] <= lbts[t]
      /\ \A s \in Stargates : target[s] \in Timelines
  BY BoundInWindow, LocalEnds
<1>1. ASSUME NEW s \in Stargates, NEW e \in mailbox[s]
      PROVE  e.t \in Nat /\ lbts[target[s]] <= e.t
  <2>1. e.sg = s
    BY DEF Lookahead, Routes, MailRoutes
  <2>2. e \in MessageType
    BY DEF TypeOK, MessageTypeOK
  <2>3. CASE Remote(s)
    <3>1. e \in InFlight
      BY DEF InFlight
    <3> QED BY <2>1, <2>2, <2>3, <3>1 DEF RemoteSafe, MessageType, Dest
  <2>4. CASE ~Remote(s)
    BY <2>2, <2>4 DEF Lookahead, LocalMail, MessageType
  <2> QED BY <2>3, <2>4
<1>2. ASSUME NEW u \in Universes, NEW e \in Range(umailbox[u]) \cup Range(ctx[u].io), ~IsNull(e)
      PROVE  e.t \in Nat /\ Dest(e) \in Timelines /\ lbts[Dest(e)] <= e.t
  <2>1. Remote(e.sg)
    BY <1>2 DEF Lookahead, Routes, MailRoutes
  <2>2. e \in MessageType
    <3>1. umailbox[u] \in Seq(MessageType) /\ ctx[u].io \in Seq(MessageType)
      BY DEF TypeOK, MessageTypeOK, ThreadTypeOK, ContextType
    <3>2. Range(umailbox[u]) \subseteq MessageType /\ Range(ctx[u].io) \subseteq MessageType
      BY <3>1 DEF Range
    <3> QED BY <1>2, <3>2
  <2>3. e \in InFlight
    BY <1>2 DEF InFlight
  <2> QED BY <1>0, <2>1, <2>2, <2>3 DEF RemoteSafe, MessageType, Dest
<1>3. \A a, b, c \in Nat : a <= b /\ b <= c => a <= c
  OBVIOUS
<1> QED BY <1>0, <1>1, <1>2, <1>3

LEMMA RunEvents ==
  ASSUME TypeOK, TypeOK', Meeting, Scheduling, Lookahead, NEW u \in Universes, RunEvent(u)
  PROVE  Events'
<1>1. PICK t \in TimelinesOf(u) : \E e \in evtlist[t] : \E M \in SUBSET MessageType :
        EventWrites(u, t, e, M)
  BY EventDelivered
<1>2. PICK e \in evtlist[t], M \in SUBSET MessageType : EventWrites(u, t, e, M)
  BY <1>1
<1>20. /\ t \in Timelines /\ universe[t] = u
       /\ e.t \in Nat
       /\ \A f \in evtlist[t] : e.t <= f.t
       /\ simclock' = [simclock EXCEPT ![t] = e.t]
       /\ \A x \in M : /\ x.sg \in Stargates /\ x.t \in Nat /\ source[x.sg] = t
                       /\ e.t + min_delay[x.sg] <= x.t
       /\ \A r \in Timelines : \A x \in evtlist'[r] :
             \/ x \in evtlist[r]
             \/ x \in M /\ SameUniverse(x.sg) /\ Dest(x) = r
  BY <1>2 DEF EventWrites
<1>3. simclock \in [Timelines -> Nat] /\ evtlist' \in [Timelines -> SUBSET EventType]
  BY DEF TypeOK, TimelineTypeOK
<1>4. simclock[t] <= e.t
  BY <1>20 DEF Lookahead, Events
<1>5. ASSUME NEW x \in M, SameUniverse(x.sg), NEW r \in Timelines, Dest(x) = r
      PROVE  simclock'[r] <= x.t
  <2>1. /\ x.sg \in Stargates /\ x.t \in Nat /\ source[x.sg] = t /\ e.t + min_delay[x.sg] <= x.t
        /\ min_delay[x.sg] \in Nat
    BY <1>20, LocalEnds
  <2>2. CASE r = t
    <3>1. simclock'[r] = e.t
      BY <1>20, <1>3, <2>2
    <3> QED BY <1>20, <2>1, <3>1
  <2>3. CASE r # t
    <3>1. simclock'[r] = simclock[r] /\ simclock[r] \in Nat /\ simclock[t] \in Nat
      BY <1>20, <1>3, <2>3
    <3>2. ~Remote(x.sg)
      BY <1>5 DEF Remote, SameUniverse, SourceMachine, TargetMachine
    <3>3. lbts[r] <= simclock[t] + min_delay[x.sg]
      BY <1>5, <2>1, <3>2, LocalReach DEF Lookahead, Dest
    <3>4. simclock[r] <= lbts[r] /\ lbts[r] \in Nat
      BY BoundInWindow
    <3> QED BY <1>20, <1>4, <2>1, <3>1, <3>3, <3>4
  <2> QED BY <2>2, <2>3
<1>6. ASSUME NEW r \in Timelines, NEW x \in evtlist[r] PROVE simclock'[r] <= x.t
  <2>1. CASE r = t
    <3>1. simclock'[r] = e.t /\ e.t <= x.t
      BY <1>20, <1>3, <1>6, <2>1
    <3> QED BY <3>1
  <2>2. CASE r # t
    BY <1>20, <1>3, <1>6, <2>2 DEF Lookahead, Events
  <2> QED BY <2>1, <2>2
<1>7. \A r \in Timelines : \A x \in evtlist'[r] : simclock'[r] <= x.t
  BY <1>20, <1>5, <1>6
<1> QED BY <1>7 DEF Events

LEMMA NextEvents ==
  ASSUME TypeOK, TypeOK', Meeting, Scheduling, Lookahead, RemoteSafe, [Next]_vars
  PROVE  Events'
<1>0. Events
  BY DEF Lookahead
<1>1. ASSUME simclock' = simclock,
             \A t \in Timelines : \A e \in evtlist'[t] : e \in evtlist[t] \/ simclock[t] <= e.t
      PROVE  Events'
  BY <1>0, <1>1 DEF Events
<1>2. ASSUME NEW u \in Universes, Collect(u) PROVE Events'
  <2>1. pc[u] = "collect" /\ simclock' = simclock
    BY <1>2 DEF Collect
  <2>2. ~InWindow(u)
    BY <2>1 DEF InWindow, WindowLabels
  <2>3. ASSUME NEW t \in Timelines, NEW e \in switch_board[u], Dest(e) = t PROVE simclock[t] <= e.t
    <3>1. universe[t] = u /\ synpoint[u] <= e.t
      BY <2>3 DEF Lookahead, Routes, QueueRoutes, Boards
    <3>2. simclock[t] = synpoint[u]
      BY <2>2, <3>1, BoundInWindow
    <3> QED BY <3>1, <3>2
  <2>4. \A t \in Timelines : \A e \in evtlist'[t] :
          e \in evtlist[t] \/ (e \in switch_board[u] /\ Dest(e) = t)
    BY <1>2, Exchanging
  <2> QED BY <1>1, <2>1, <2>3, <2>4
<1>3. ASSUME NEW u \in Universes, ReceiveMessages(u) PROVE Events'
  <2>1. /\ evtlist' = [evtlist EXCEPT ![target[scan[u].hold]] = @ \cup mailbox[scan[u].hold]]
        /\ simclock' = simclock
    BY <1>3 DEF ReceiveMessages
  <2>2. scan[u].hold \in Stargates
    BY <1>3, MessagesReceived
  <2>3. evtlist \in [Timelines -> SUBSET EventType]
    BY DEF TypeOK, TimelineTypeOK
  <2>4. \A t \in Timelines : \A e \in evtlist'[t] :
          e \in evtlist[t] \/ (t = target[scan[u].hold] /\ e \in mailbox[scan[u].hold])
    BY <2>1, <2>3
  <2> QED BY <1>1, <2>1, <2>2, <2>4, MailSafe
<1>4. ASSUME NEW u \in Universes, HandleMail(u) PROVE Events'
  <2>1. /\ simclock' = simclock /\ ctx[u].io # <<>>
        /\ IF IsNull(Head(ctx[u].io)) THEN evtlist' = evtlist
           ELSE evtlist' = [evtlist EXCEPT ![Dest(Head(ctx[u].io))] = @ \cup {Head(ctx[u].io)}]
    BY <1>4 DEF HandleMail, HandleNull
  <2>2. evtlist \in [Timelines -> SUBSET EventType] /\ ctx[u].io \in Seq(MessageType)
    BY DEF TypeOK, TimelineTypeOK, ThreadTypeOK, ContextType
  <2>3. Head(ctx[u].io) \in Range(ctx[u].io)
    BY <2>1, <2>2, RangeFacts
  <2>4. \A t \in Timelines : \A e \in evtlist'[t] :
          e \in evtlist[t] \/ (t = Dest(e) /\ e = Head(ctx[u].io) /\ ~IsNull(e))
    BY <2>1, <2>2
  <2> QED BY <1>1, <2>1, <2>3, <2>4, MailSafe
<1>5. ASSUME NEW m \in Machines, Trained(m) PROVE Events'
  <2>1. simclock' = simclock /\ \A t \in Timelines : \A e \in evtlist'[t] :
              e \in evtlist[t] \/ \E s \in Drained(m) : target[s] = t /\ e \in mailbox[s]
    BY <1>5, TrainingEnds
  <2>2. Drained(m) \subseteq Stargates
    BY DEF Drained
  <2> QED BY <1>1, <2>1, <2>2, MailSafe
<1>6. ASSUME NEW u \in Universes, RunEnd(u) PROVE Events'
  <2>1. /\ pc[u] = "run" /\ \A e \in evtlist[ctx[u].cur] : e.t > ctx[u].horizon
        /\ simclock' = [simclock EXCEPT ![ctx[u].cur] = ctx[u].horizon]
        /\ evtlist' = evtlist
    BY <1>6 DEF RunEnd
  <2>2. ctx[u].cur \in Timelines /\ ctx[u].horizon \in Nat /\ simclock \in [Timelines -> Nat]
    BY <2>1 DEF TypeOK, Running, TimelineTypeOK, ThreadTypeOK, ContextType
  <2> SUFFICES ASSUME NEW t \in Timelines, NEW e \in evtlist[t] PROVE simclock'[t] <= e.t
    BY <2>1 DEF Events
  <2>3. e.t \in Nat
    BY DEF TypeOK, TimelineTypeOK, EventType
  <2>4. CASE t = ctx[u].cur
    <3>1. e.t > ctx[u].horizon /\ simclock'[t] = ctx[u].horizon
      BY <2>1, <2>2, <2>4
    <3> QED BY <2>2, <2>3, <3>1
  <2>5. CASE t # ctx[u].cur
    BY <1>0, <2>1, <2>2, <2>5 DEF Events
  <2> QED BY <2>4, <2>5
<1>7. ASSUME NEW u \in Universes, Thread(u) PROVE Events'
  <2>1. \/ Collect(u) \/ ReceiveMessages(u) \/ RunEvent(u) \/ HandleMail(u) \/ RunEnd(u)
        \/ evtlist' = evtlist /\ simclock' = simclock
    BY <1>7, ThreadFrame
  <2> QED BY <1>1, <1>2, <1>3, <1>4, <1>6, <2>1, RunEvents
<1>8. CASE ~(\E u \in Universes : Thread(u)) /\ ~(\E m \in Machines : Trained(m))
  <2>1. evtlist' = evtlist /\ simclock' = simclock
    BY <1>8, OtherFrame DEF Next, Finished
  <2> QED BY <1>1, <2>1
<1> QED BY <1>5, <1>7, <1>8
-----------------------------------------------------------------------------
(* The mailboxes, and the bounds that are computed from them.              *)

\* What a running timeline writes arrives as late as it has promised.
LEMMA Written ==
  ASSUME TypeOK, Meeting, Scheduling, Lookahead, NEW u \in Universes, RunEvent(u)
  PROVE  /\ InWindow(u)
         /\ \A s \in Stargates : \A x \in mailbox'[s] :
              \/ x \in mailbox[s]
              \/ /\ universe[source[s]] = u /\ ~Remote(s) /\ ~gate[s].in_sync
                 /\ x.t \in Nat /\ simclock[source[s]] + min_delay[s] <= x.t
         /\ \A v \in Universes : \A x \in local_binque'[v] :
              \/ x \in local_binque[v]
              \/ /\ v = u /\ x.sg \in Stargates /\ universe[source[x.sg]] = u
                 /\ ~Remote(x.sg) /\ gate[x.sg].in_sync
                 /\ x.t \in Nat /\ simclock[source[x.sg]] + min_delay[x.sg] <= x.t
<1>1. PICK t \in TimelinesOf(u) : \E e \in evtlist[t] : \E M \in SUBSET MessageType :
        EventWrites(u, t, e, M)
  BY EventDelivered
<1>2. PICK e \in evtlist[t], M \in SUBSET MessageType : EventWrites(u, t, e, M)
  BY <1>1
<1>3. /\ t \in Timelines /\ universe[t] = u /\ pc[u] = "run" /\ e.t \in Nat
      /\ \A x \in M : /\ x.sg \in Stargates /\ x.t \in Nat /\ source[x.sg] = t
                      /\ e.t + min_delay[x.sg] <= x.t
      /\ \A v \in Universes : \A x \in local_binque'[v] :
           \/ x \in local_binque[v]
           \/ /\ v = u /\ x \in M
              /\ ~SameUniverse(x.sg) /\ gate[x.sg].in_sync /\ ~Remote(x.sg)
      /\ \A s \in Stargates : \A x \in mailbox'[s] :
           \/ x \in mailbox[s]
           \/ /\ x \in M /\ x.sg = s
              /\ ~SameUniverse(s) /\ ~gate[s].in_sync /\ ~Remote(s)
  BY <1>2 DEF EventWrites
<1>4. InWindow(u)
  BY <1>3 DEF InWindow, AtEdge, WindowLabels
<1>5. simclock[t] <= e.t /\ simclock[t] \in Nat
  BY <1>3, SchedulingFacts DEF Lookahead, Events
<1>6. ASSUME NEW x \in M
      PROVE  /\ x.sg \in Stargates /\ source[x.sg] = t /\ x.t \in Nat
             /\ simclock[source[x.sg]] + min_delay[x.sg] <= x.t
  <2>1. /\ x.sg \in Stargates /\ x.t \in Nat /\ source[x.sg] = t /\ e.t + min_delay[x.sg] <= x.t
    BY <1>3
  <2>2. min_delay[x.sg] \in Nat
    BY <2>1, SchedulingFacts
  <2> QED BY <1>3, <1>5, <2>1, <2>2
<1> QED BY <1>3, <1>4, <1>6

LEMMA NextLocalMail ==
  ASSUME TypeOK, TypeOK', Meeting, Scheduling, Lookahead, [Next]_vars
  PROVE  LocalMail'
<1> SUFFICES ASSUME NEW s \in Stargates, ~Remote(s), NEW e \in mailbox'[s]
             PROVE  lbts'[target[s]] <= e.t /\ s \in inbound_async'
  BY DEF LocalMail
<1>0. e \in mailbox[s] => lbts[target[s]] <= e.t /\ s \in inbound_async
  BY DEF Lookahead, LocalMail
<1>1. CASE \E u \in Universes : RunEvent(u)
  <2>1. PICK u \in Universes : RunEvent(u)
    BY <1>1
  <2>2. lbts' = lbts /\ inbound_async' = inbound_async
    BY <2>1 DEF RunEvent, windowVars
  <2>3. SUFFICES ASSUME e \notin mailbox[s]
                 PROVE  lbts[target[s]] <= e.t /\ s \in inbound_async
    BY <1>0, <2>2
  <2>4. /\ universe[source[s]] = u /\ ~gate[s].in_sync /\ e.t \in Nat /\ InWindow(u)
        /\ simclock[source[s]] + min_delay[s] <= e.t
    BY <2>1, <2>3, Written
  <2>5. lbts[target[s]] <= simclock[source[s]] + min_delay[s]
    BY LocalReach DEF Lookahead
  <2>6. /\ lbts[target[s]] \in Nat /\ simclock[source[s]] \in Nat /\ min_delay[s] \in Nat
    BY SchedulingFacts
  <2>7. ~Pending(SourceMachine(s))
    BY <2>4, InsideWindow, LocalEnds
  <2>8. s \in inbound_async
    BY <2>4, <2>7 DEF Meeting, Edges, Lengths
  <2> QED BY <2>4, <2>5, <2>6, <2>8
<1>2. CASE \E u \in Universes : EndScan(u)
  <2>1. PICK u \in Universes : EndScan(u)
    BY <1>2
  <2>2. /\ pc[u] = "scan" /\ scan[u].hold = 0 /\ scan[u].todo = {} /\ mailbox' = mailbox
        /\ inbound_async' = inbound_async
    BY <2>1 DEF EndScan, mailVars, windowVars
  <2>3. e \in mailbox[s]
    BY <2>2
  <2>4. CASE target[s] = scan[u].tl
    <3>1. lbts'[target[s]] = scan[u].low
      BY <2>1, <2>4, BoundTaken
    <3>2. s \in InboundAsync(scan[u].tl) \ scan[u].todo /\ s # 0
      BY <1>0, <2>2, <2>3, <2>4, TopologyAssumption DEF InboundAsync
    <3>3. scan[u].low <= e.t
      BY <2>2, <2>3, <3>2 DEF Lookahead, Held
    <3> QED BY <1>0, <2>2, <2>3, <3>1, <3>3
  <2>5. CASE target[s] # scan[u].tl
    <3>1. lbts' = [lbts EXCEPT ![scan[u].tl] = scan[u].low] /\ lbts \in [Timelines -> Nat]
      BY <2>1 DEF EndScan, TypeOK, TimelineTypeOK
    <3>2. lbts'[target[s]] = lbts[target[s]]
      BY <2>5, <3>1, SchedulingFacts
    <3> QED BY <1>0, <2>2, <2>3, <3>2
  <2> QED BY <2>4, <2>5
<1>3. CASE \E m \in Machines : Trained(m)
  <2>1. PICK m \in Machines : Trained(m)
    BY <1>3
  <2>2. /\ mailbox'[s] = IF s \in Drained(m) THEN {} ELSE mailbox[s]
        /\ inbound_async' = Listed(m) /\ lbts' = lbts
    BY <2>1, TrainingEnds
  <2>3. e \in mailbox[s] /\ s \notin Drained(m)
    BY <2>2
  <2>4. s \in Listed(m)
    BY <1>0, <2>3 DEF Drained, Listed
  <2> QED BY <1>0, <2>2, <2>3, <2>4
<1>4. ASSUME NEW u \in Universes, Thread(u), ~RunEvent(u), ~EndScan(u)
      PROVE  lbts'[target[s]] <= e.t /\ s \in inbound_async'
  <2>1. lbts' = lbts
    BY <1>4, ThreadFrame
  <2>2. inbound_async' = inbound_async
    <3>1. AdvanceWindow(u) \/ inbound_async' = inbound_async
      BY <1>4, ThreadFrame DEF windowVars
    <3> QED BY <3>1 DEF AdvanceWindow
  <2>3. e \in mailbox[s]
    <3>1. CASE ReceiveMessages(u)
      <4>1. mailbox' = [mailbox EXCEPT ![scan[u].hold] = {}]
        BY <3>1 DEF ReceiveMessages
      <4>2. mailbox \in [Stargates -> SUBSET MessageType]
        BY DEF TypeOK, MessageTypeOK
      <4> QED BY <4>1, <4>2
    <3>2. CASE ~ReceiveMessages(u)
      BY <1>4, <3>2, ThreadFrame
    <3> QED BY <3>1, <3>2
  <2> QED BY <1>0, <2>1, <2>2, <2>3
<1>5. ASSUME NEW n \in Machines, NEW m \in Machines, Reader(n, m)
      PROVE  lbts'[target[s]] <= e.t /\ s \in inbound_async'
  <2>1. PICK f \in MessageType :
         /\ \E b \in Range(net[<<n, m>>]) : f \in b.regular \cup b.null
         /\ \A q \in Stargates : \A x \in mailbox'[q] : x \in mailbox[q] \/ (x = f /\ q = f.sg)
         /\ UNCHANGED <<tmlnVars, windowVars>>
    BY <1>5, ReadMessage
  <2>2. Remote(f.sg)
    BY <2>1 DEF Lookahead, Routes, NetRoutes, Remote
  <2>3. e \in mailbox[s]
    BY <2>1, <2>2
  <2>4. lbts' = lbts /\ inbound_async' = inbound_async
    BY <2>1 DEF tmlnVars, windowVars
  <2> QED BY <1>0, <2>3, <2>4
<1>6. CASE /\ ~(\E u \in Universes : Thread(u)) /\ ~(\E m \in Machines : Trained(m))
           /\ ~(\E n, m \in Machines : Reader(n, m))
  <2>1. mailbox' = mailbox /\ lbts' = lbts /\ UNCHANGED windowVars
    BY <1>6, OtherFrame DEF Next, Finished
  <2> QED BY <1>0, <2>1 DEF windowVars
<1> QED BY <1>1, <1>2, <1>3, <1>4, <1>5, <1>6

\* How a thread comes to compute a bound.
LEMMA ScanStep ==
  ASSUME TypeOK, NEW u \in Universes, Thread(u), NEW v \in Universes, pc'[v] = "scan"
  PROVE  \/ v # u /\ pc[v] = "scan" /\ scan'[v] = scan[v]
         \/ v = u /\ ((\E t, r : BeginScan(u, t, r)) \/ ReadTime(u) \/ ReceiveMessages(u))
<1>0. pc \in [Universes -> Labels] /\ scan \in [Universes -> ScanType]
  BY DEF TypeOK, ThreadTypeOK
<1>1. ASSUME NEW l, Goto(u, l), l # "scan", scan' = scan \/ scan' = [scan EXCEPT ![u] = NoScan]
      PROVE  v # u /\ pc[v] = "scan" /\ scan'[v] = scan[v]
  BY <1>0, <1>1 DEF Goto
<1>2. ASSUME NEW t, NEW r, BeginScan(u, t, r)
      PROVE  \/ v # u /\ pc[v] = "scan" /\ scan'[v] = scan[v]
             \/ v = u /\ \E y, z : BeginScan(u, y, z)
  BY <1>0, <1>2, ScanStarted
<1>3. ASSUME UNCHANGED <<pc, scan>>, pc[u] # "scan"
      PROVE  v # u /\ pc[v] = "scan" /\ scan'[v] = scan[v]
  BY <1>3
<1>4. CASE Dispatch(u)
  BY <1>1, <1>4 DEF Dispatch, AfterLocalEdge
<1>5. CASE Collect(u) \/ SendEpoch(u) \/ Await(u)
  BY <1>1, <1>5 DEF Collect, SendEpoch, Await, AfterLocalEdge
<1>6. CASE TrainLocal(u) \/ TrainGlobal(u)
  BY <1>1, <1>6 DEF TrainLocal, TrainGlobal
<1>7. CASE OpenTimeline(u) \/ Opened(u) \/ Pick(u)
  BY <1>1, <1>2, <1>7 DEF OpenTimeline, Opened, Pick
<1>8. CASE ReadTime(u) \/ ReceiveMessages(u)
  <2>1. \A x \in Universes \ {u} : scan'[x] = scan[x]
    <3>1. CASE ReadTime(u)
      BY <3>1, TimeRead
    <3>2. CASE ReceiveMessages(u)
      BY <3>2, MessagesReceived
    <3> QED BY <1>8, <3>1, <3>2
  <2>2. pc' = pc
    BY <1>8 DEF ReadTime, ReceiveMessages
  <2> QED BY <1>8, <2>1, <2>2
<1>9. CASE EndScan(u)
  <2>1. PICK l : l \in {"run", scan[u].ret} /\ Goto(u, l) /\ scan' = [scan EXCEPT ![u] = NoScan]
    BY <1>9 DEF EndScan
  <2>2. l # "scan"
    BY <1>0, <2>1 DEF ScanType
  <2> QED BY <1>1, <2>1, <2>2
<1>10. CASE RunEvent(u)
  <2>1. pc[u] = "run" /\ UNCHANGED <<pc, scan>>
    BY <1>10 DEF RunEvent, threadVars
  <2> QED BY <1>3, <2>1
<1>11. CASE RunEnd(u) \/ Notify(u) \/ Interrupted(u)
  BY <1>1, <1>11 DEF RunEnd, Notify, Interrupted
<1>12. CASE UpdateTime(u)
  <2>1. PICK s \in ctx[u].out : SetTime(u, s)
    BY <1>12 DEF UpdateTime
  <2>2. pc[u] = "update"
    BY <1>12 DEF UpdateTime
  <2>3. \/ Goto(u, "notify") /\ scan' = scan
        \/ BeginScan(u, target[s], "update")
        \/ UNCHANGED <<pc, scan>>
    BY <2>1 DEF SetTime
  <2> QED BY <1>1, <1>2, <1>3, <2>2, <2>3
<1>13. CASE PollMail(u) \/ WaitMail(u) \/ DrainMail(u)
  BY <1>1, <1>13 DEF PollMail, WaitMail, DrainMail, TakeMail
<1>14. CASE HandleMail(u)
  <2>1. pc[u] \in {"io", "drain io"}
    BY <1>14 DEF HandleMail
  <2>2. UNCHANGED <<pc, scan>> \/ \E t, r : BeginScan(u, t, r)
    BY <1>14 DEF HandleMail, HandleNull
  <2> QED BY <1>2, <1>3, <2>1, <2>2
<1>15. CASE EndMail(u)
  <2>1. \/ BeginScan(u, ctx[u].cur, "sched")
        \/ \E l \in {"mpi barrier", "drained", "sched"} : Goto(u, l) /\ scan' = scan
    BY <1>15 DEF EndMail, AfterMail
  <2> QED BY <1>1, <1>2, <2>1
<1>16. CASE AdvanceWindow(u)
  BY <1>1, <1>16 DEF AdvanceWindow
<1> QED BY <1>4, <1>5, <1>6, <1>7, <1>8, <1>9, <1>10, <1>11, <1>12, <1>13, <1>14, <1>15,
           <1>16 DEF Thread

\* The messages that a thread has still to find while it computes a bound.
LEMMA HeldKept ==
  ASSUME TypeOK, Meeting, Scheduling, Lookahead, NEW v \in Universes, pc[v] = "scan",
         scan'[v] = scan[v],
         \A s \in Stargates : target[s] \in TimelinesOf(v) =>
           /\ s \in inbound_async' <=> s \in inbound_async
           /\ ~Remote(s) => \A e \in mailbox'[s] :
                \/ e \in mailbox[s]
                \/ e.t \in Nat /\ simclock[source[s]] + min_delay[s] <= e.t
  PROVE  /\ scan'[v].hold # 0 => scan'[v].hold \in InboundAsync(scan[v].tl)'
         /\ \A s \in InboundAsync(scan[v].tl)' \ scan'[v].todo :
              ~Remote(s) /\ s # scan'[v].hold => \A e \in mailbox'[s] : scan'[v].low <= e.t
<1>1. scan[v].tl \in TimelinesOf(v)
  BY ThreadFacts DEF Owned
<1>2. InboundAsync(scan[v].tl)' = InboundAsync(scan[v].tl)
  BY <1>1 DEF InboundAsync
<1>3. /\ scan[v].hold # 0 => scan[v].hold \in InboundAsync(scan[v].tl)
      /\ \A s \in InboundAsync(scan[v].tl) \ scan[v].todo :
           ~Remote(s) /\ s # scan[v].hold => \A e \in mailbox[s] : scan[v].low <= e.t
  BY DEF Lookahead, Held
<1>4. ASSUME NEW s \in InboundAsync(scan[v].tl) \ scan[v].todo, ~Remote(s), s # scan[v].hold,
             NEW e \in mailbox'[s]
      PROVE  scan[v].low <= e.t
  <2>1. s \in Stargates /\ target[s] \in TimelinesOf(v)
    BY <1>1 DEF InboundAsync
  <2>2. CASE e \in mailbox[s]
    BY <1>3, <1>4, <2>2
  <2>3. CASE e \notin mailbox[s]
    <3>1. e.t \in Nat /\ simclock[source[s]] + min_delay[s] <= e.t
      BY <1>4, <2>1, <2>3
    <3>2. scan[v].low <= InGate(s).time
      BY <1>4 DEF Scheduling, Scans, ScanOK
    <3>3. InGate(s).time <= simclock[source[s]] + min_delay[s]
      BY <1>4, <2>1 DEF InGate, Lookahead, Promises
    <3>4. /\ scan[v].low \in Nat /\ InGate(s).time \in Nat /\ min_delay[s] \in Nat
          /\ simclock[source[s]] \in Nat
      BY <2>1, SchedulingFacts
    <3> QED BY <3>1, <3>2, <3>3, <3>4
  <2> QED BY <2>2, <2>3
<1> QED BY <1>2, <1>3, <1>4

LEMMA OtherScan ==
  ASSUME TypeOK, [Next]_vars, NEW v \in Universes, pc'[v] = "scan",
         ~(\E u \in Universes : Thread(u)), ~(\E m \in Machines : Trained(m))
  PROVE  pc[v] = "scan"
<1>1. ASSUME NEW m \in Machines, Barrier(m) PROVE pc[v] = "scan"
  <2>1. PICK a \in {"dispatch", "collect", "reduce", "drain", "train"},
             b \in {"dispatch", "collect", "reduced", "drain", "trained"} :
          pc' = [u \in Universes |->
                   IF machine[u] # m THEN pc[u] ELSE IF u = proc0[m] THEN a ELSE b]
    BY <1>1 DEF Barrier, Meet
  <2> QED BY <2>1
<1>2. CASE Collective
  BY <1>2 DEF Collective, Reduce, MpiBarrier, FinishGlobal
<1>3. ASSUME NEW m \in Machines, Writer(m) PROVE pc[v] = "scan"
  BY <1>3 DEF Writer, threadVars
<1>4. ASSUME NEW m \in Machines, NEW n \in Machines, Reader(n, m) PROVE pc[v] = "scan"
  BY <1>4 DEF Reader, threadVars
<1>5. CASE UNCHANGED vars
  BY <1>5 DEF vars, threadVars
<1> QED BY <1>1, <1>2, <1>3, <1>4, <1>5 DEF Next, Finished

\* What Held says of one thread.
HeldBy(v) ==
  /\ scan[v].hold # 0 => scan[v].hold \in InboundAsync(scan[v].tl)
  /\ \A s \in InboundAsync(scan[v].tl) \ scan[v].todo :
       ~Remote(s) /\ s # scan[v].hold => \A e \in mailbox[s] : scan[v].low <= e.t

LEMMA NextHeld ==
  ASSUME TypeOK, TypeOK', Meeting, Scheduling, Lookahead, [Next]_vars
  PROVE  Held'
<1> SUFFICES ASSUME NEW v \in Universes, pc'[v] = "scan" PROVE HeldBy(v)'
  BY DEF Held, HeldBy
<1>1. ASSUME pc[v] = "scan", scan'[v] = scan[v],
             \A s \in Stargates : target[s] \in TimelinesOf(v) =>
               /\ s \in inbound_async' <=> s \in inbound_async
               /\ ~Remote(s) => \A e \in mailbox'[s] :
                    \/ e \in mailbox[s]
                    \/ e.t \in Nat /\ simclock[source[s]] + min_delay[s] <= e.t
      PROVE  HeldBy(v)'
  BY <1>1, HeldKept DEF HeldBy, InboundAsync
<1>2. ASSUME NEW u \in Universes, Thread(u), v # u, pc[v] = "scan", scan'[v] = scan[v]
      PROVE  HeldBy(v)'
  <2>1. inbound_async' = inbound_async
    <3>1. AdvanceWindow(u) \/ inbound_async' = inbound_async
      BY <1>2, ThreadFrame DEF windowVars
    <3> QED BY <3>1 DEF AdvanceWindow
  <2>2. CASE RunEvent(u)
    BY <1>1, <1>2, <2>1, <2>2, Written
  <2>3. CASE ReceiveMessages(u)
    <3>1. mailbox' = [mailbox EXCEPT ![scan[u].hold] = {}] /\ mailbox \in [Stargates -> SUBSET MessageType]
      BY <2>3 DEF ReceiveMessages, TypeOK, MessageTypeOK
    <3>2. \A s \in Stargates : \A e \in mailbox'[s] : e \in mailbox[s]
      BY <3>1
    <3> QED BY <1>1, <1>2, <2>1, <3>2
  <2>4. CASE ~RunEvent(u) /\ ~ReceiveMessages(u)
    <3>1. mailbox' = mailbox
      BY <1>2, <2>4, ThreadFrame
    <3> QED BY <1>1, <1>2, <2>1, <3>1
  <2> QED BY <2>2, <2>3, <2>4
<1>3. ASSUME NEW t, NEW r, BeginScan(v, t, r), Thread(v) PROVE HeldBy(v)'
  <2>1. scan'[v].tl = t /\ scan'[v].todo = InboundAsync(t) /\ scan'[v].hold = 0
    BY <1>3, ScanStarted
  <2>2. inbound_async' = inbound_async
    <3>1. AdvanceWindow(v) \/ inbound_async' = inbound_async
      BY <1>3, ThreadFrame DEF windowVars
    <3> QED BY <3>1 DEF AdvanceWindow
  <2>3. InboundAsync(t)' = InboundAsync(t)
    BY <2>2 DEF InboundAsync
  <2> QED BY <2>1, <2>3 DEF HeldBy
<1>4. ASSUME ReadTime(v) PROVE HeldBy(v)'
  <2>1. /\ pc[v] = "scan" /\ scan[v].hold = 0 /\ UNCHANGED <<mailbox, inbound_async>>
    BY <1>4 DEF ReadTime, mailVars, windowVars
  <2>2. PICK s \in scan[v].todo :
              /\ s \in Stargates
              /\ scan'[v].low = Lesser(scan[v].low, InGate(s).time)
              /\ scan'[v].todo = scan[v].todo \ {s}
              /\ scan'[v].hold = IF SameUniverse(s) THEN 0 ELSE s
              /\ scan'[v].tl = scan[v].tl
    BY <1>4, TimeRead
  <2>3. InboundAsync(scan[v].tl)' = InboundAsync(scan[v].tl)
    BY <2>1, <2>2 DEF InboundAsync
  <2>4. s \in InboundAsync(scan[v].tl)
    BY <2>1 DEF Scheduling, Scans, ScanOK
  <2>5. SameUniverse(s) => mailbox[s] = {}
    BY <2>2 DEF Lookahead, Routes, MailRoutes
  <2>6. scan[v].low \in Nat /\ InGate(s).time \in Nat
    BY <2>2, SchedulingFacts
  <2>7. scan'[v].low \in Nat /\ scan'[v].low <= scan[v].low
    BY <2>2, <2>6 DEF Lesser
  <2>8. ASSUME NEW q \in InboundAsync(scan[v].tl) \ scan'[v].todo, ~Remote(q),
               q # scan'[v].hold, NEW e \in mailbox[q]
        PROVE  scan'[v].low <= e.t
    <3>1. CASE q = s
      BY <2>2, <2>5, <2>8, <3>1
    <3>2. CASE q # s
      <4>1. q \in InboundAsync(scan[v].tl) \ scan[v].todo
        BY <2>2, <2>8, <3>2
      <4>2. q \in Stargates /\ q # 0
        BY <4>1, TopologyAssumption DEF InboundAsync
      <4>3. scan[v].low <= e.t
        BY <2>1, <2>8, <4>1, <4>2 DEF Lookahead, Held
      <4>4. e.t \in Nat
        BY <2>8, <4>2 DEF TypeOK, MessageTypeOK, MessageType
      <4> QED BY <2>6, <2>7, <4>3, <4>4
    <3> QED BY <3>1, <3>2
  <2> QED BY <2>1, <2>2, <2>3, <2>4, <2>8 DEF HeldBy
<1>5. ASSUME ReceiveMessages(v) PROVE HeldBy(v)'
  <2>1. /\ pc[v] = "scan" /\ inbound_async' = inbound_async
        /\ mailbox' = [mailbox EXCEPT ![scan[v].hold] = {}]
    BY <1>5 DEF ReceiveMessages, windowVars
  <2>2. /\ scan[v].hold \in Stargates
        /\ scan'[v].tl = scan[v].tl /\ scan'[v].low = scan[v].low
        /\ scan'[v].todo = scan[v].todo /\ scan'[v].hold = 0
    BY <1>5, MessagesReceived
  <2>3. InboundAsync(scan[v].tl)' = InboundAsync(scan[v].tl)
    BY <2>1, <2>2 DEF InboundAsync
  <2>4. mailbox \in [Stargates -> SUBSET MessageType]
    BY DEF TypeOK, MessageTypeOK
  <2>5. ASSUME NEW q \in InboundAsync(scan[v].tl) \ scan[v].todo, ~Remote(q),
               NEW e \in mailbox'[q]
        PROVE  scan[v].low <= e.t
    <3>1. q \in Stargates
      BY <2>5 DEF InboundAsync
    <3>2. q # scan[v].hold /\ e \in mailbox[q]
      BY <2>1, <2>2, <2>4, <2>5, <3>1
    <3> QED BY <2>1, <2>5, <3>2 DEF Lookahead, Held
  <2> QED BY <2>2, <2>3, <2>5 DEF HeldBy
<1>6. ASSUME NEW u \in Universes, Thread(u) PROVE HeldBy(v)'
  BY <1>2, <1>3, <1>4, <1>5, <1>6, ScanStep
<1>7. ASSUME NEW m \in Machines, Trained(m) PROVE HeldBy(v)'
  <2>1. /\ \A s \in Stargates : mailbox'[s] = IF s \in Drained(m) THEN {} ELSE mailbox[s]
        /\ inbound_async' = Listed(m) /\ scan' = scan
        /\ machine[v] # m /\ pc'[v] = pc[v]
    BY <1>7, TrainingEnds
  <2>2. \A s \in Stargates : target[s] \in TimelinesOf(v) => TargetMachine(s) # m
    BY <2>1 DEF TimelinesOf, TargetMachine
  <2>3. \A s \in Stargates : target[s] \in TimelinesOf(v) =>
          /\ s \in inbound_async' <=> s \in inbound_async
          /\ mailbox'[s] \subseteq mailbox[s]
    BY <2>1, <2>2 DEF Listed
  <2> QED BY <1>1, <2>1, <2>3
<1>8. CASE ~(\E u \in Universes : Thread(u)) /\ ~(\E m \in Machines : Trained(m))
  <2>1. scan' = scan /\ UNCHANGED windowVars
    BY <1>8, OtherFrame DEF Next, Finished
  <2>2. pc[v] = "scan"
    BY <1>8, OtherScan
  <2>3. \A s \in Stargates : ~Remote(s) => \A e \in mailbox'[s] : e \in mailbox[s]
    <3>1. ASSUME NEW n \in Machines, NEW m \in Machines, Reader(n, m),
                 NEW s \in Stargates, ~Remote(s), NEW e \in mailbox'[s]
          PROVE  e \in mailbox[s]
      <4>1. PICK f \in MessageType :
             /\ \E b \in Range(net[<<n, m>>]) : f \in b.regular \cup b.null
             /\ \A q \in Stargates : \A x \in mailbox'[q] : x \in mailbox[q] \/ (x = f /\ q = f.sg)
        BY <3>1, ReadMessage
      <4>2. Remote(f.sg)
        BY <4>1 DEF Lookahead, Routes, NetRoutes, Remote
      <4> QED BY <3>1, <4>1, <4>2
    <3>2. (\E n, m \in Machines : Reader(n, m)) \/ mailbox' = mailbox
      BY <1>8, OtherFrame DEF Next, Finished
    <3> QED BY <3>1, <3>2
  <2> QED BY <1>1, <2>1, <2>2, <2>3 DEF windowVars
<1> QED BY <1>6, <1>7, <1>8
-----------------------------------------------------------------------------
(* The queues of synchronous messages.                                     *)

\* The edges of a thread stay where they are except when it enters the wait for
\* the next window and when all take over what training has changed.
LEMMA EdgesStay ==
  ASSUME TypeOK, Meeting, [Next]_vars, NEW v \in Universes
  PROVE  \/ AdvanceWindow(v)
         \/ Trained(machine[v])
         \/ /\ synpoint'[v] = synpoint[v] /\ next_decade'[v] = next_decade[v]
            /\ decade_sync'[v] = decade_sync[v] /\ epoch_sync'[v] = epoch_sync[v]
            /\ InWindow(v)' <=> InWindow(v)
<1> DEFINE Stays == /\ synpoint'[v] = synpoint[v] /\ next_decade'[v] = next_decade[v]
                    /\ decade_sync'[v] = decade_sync[v] /\ epoch_sync'[v] = epoch_sync[v]
                    /\ InWindow(v)' <=> InWindow(v)
<1>0. pc \in [Universes -> Labels]
  BY DEF TypeOK, ThreadTypeOK
<1>1. ASSUME UNCHANGED windowVars, InWindow(v)' <=> InWindow(v) PROVE Stays
  BY <1>1 DEF windowVars
<1>2. ASSUME UNCHANGED scan, pc'[v] = pc[v] \/ {pc[v], pc'[v]} \cap WindowLabels = {}
      PROVE  InWindow(v)' <=> InWindow(v)
  BY <1>2 DEF InWindow, AtEdge
<1>3. ASSUME NEW u \in Universes, Thread(u) PROVE AdvanceWindow(v) \/ Stays
  <2>1. CASE AdvanceWindow(u)
    <3>1. Together
      BY DEF Meeting
    <3> QED BY <2>1, <3>1, WindowLeft
  <2>2. CASE Dispatch(u)
    <3>1. UNCHANGED windowVars /\ UNCHANGED scan
      BY <2>2 DEF Dispatch
    <3>2. pc'[v] = pc[v] \/ {pc[v], pc'[v]} \cap WindowLabels = {}
      BY <1>0, <2>2 DEF Dispatch, Goto, AfterLocalEdge, WindowLabels
    <3> QED BY <1>1, <1>2, <3>1, <3>2
  <2>3. CASE TrainLocal(u)
    <3>1. UNCHANGED windowVars /\ UNCHANGED scan
      BY <2>3 DEF TrainLocal
    <3>2. pc'[v] = pc[v] \/ {pc[v], pc'[v]} \cap WindowLabels = {}
      BY <1>0, <2>3 DEF TrainLocal, Goto, WindowLabels
    <3> QED BY <1>1, <1>2, <3>1, <3>2
  <2>4. CASE TrainGlobal(u)
    <3>1. UNCHANGED windowVars /\ UNCHANGED scan
      BY <2>4 DEF TrainGlobal
    <3>2. pc'[v] = pc[v] \/ {pc[v], pc'[v]} \cap WindowLabels = {}
      BY <1>0, <2>4 DEF TrainGlobal, Goto, WindowLabels
    <3> QED BY <1>1, <1>2, <3>1, <3>2
  <2>5. CASE ~AdvanceWindow(u) /\ ~Dispatch(u) /\ ~TrainLocal(u) /\ ~TrainGlobal(u)
    <3>1. PlaceKept(u) /\ UNCHANGED windowVars
      BY <1>3, <2>5, ThreadKeepsPlace
    <3>2. InWindow(v)' <=> InWindow(v)
      BY <3>1 DEF PlaceKept, InWindow, AtEdge
    <3> QED BY <1>1, <3>1, <3>2
  <2> QED BY <2>1, <2>2, <2>3, <2>4, <2>5
<1>4. ASSUME NEW m \in Machines, Trained(m) PROVE Trained(machine[v]) \/ Stays
  <2> SUFFICES ASSUME machine[v] # m PROVE Stays
    BY <1>4
  <2>1. /\ pc'[v] = pc[v] /\ next_decade'[v] = next_decade[v]
        /\ UNCHANGED <<synpoint, decade_sync, epoch_sync, scan>>
    BY <1>4, TrainingEnds
  <2> QED BY <1>2, <2>1
<1>5. ASSUME NEW m \in Machines, Barrier(m) PROVE Stays
  <2>1. PICK here \in {"top", "dispatched", "epoch sent", "reduced", "drained"},
             a \in {"dispatch", "collect", "reduce", "drain", "train"},
             b \in {"dispatch", "collect", "reduced", "drain", "trained"} :
          Meet(m, here, a, b)
    BY <1>5 DEF Barrier
  <2>2. pc'[v] = pc[v] \/ {pc[v], pc'[v]} \cap WindowLabels = {}
    BY <2>1 DEF Meet, UniversesOf, WindowLabels
  <2>3. UNCHANGED windowVars /\ UNCHANGED scan
    BY <2>1 DEF Meet
  <2> QED BY <1>1, <1>2, <2>2, <2>3
<1>6. CASE Collective
  <2>1. UNCHANGED windowVars /\ UNCHANGED scan
    BY <1>6 DEF Collective, Reduce, MpiBarrier, FinishGlobal
  <2>2. pc'[v] = pc[v] \/ {pc[v], pc'[v]} \cap WindowLabels = {}
    <3>1. machine[v] \in Machines
      BY TopologyAssumption
    <3>2. CASE Reduce
      BY <3>1, <3>2 DEF Reduce, WindowLabels
    <3>3. CASE MpiBarrier
      BY <3>1, <3>3 DEF MpiBarrier, WindowLabels
    <3>4. CASE FinishGlobal
      BY <3>1, <3>4 DEF FinishGlobal, WindowLabels
    <3> QED BY <1>6, <3>2, <3>3, <3>4 DEF Collective
  <2> QED BY <1>1, <1>2, <2>1, <2>2
<1>7. ASSUME \/ \E m \in Machines : Writer(m)
             \/ \E n, m \in Machines : Reader(n, m)
             \/ UNCHANGED vars
      PROVE  Stays
  <2>1. UNCHANGED <<windowVars, scan, pc>>
    BY <1>7 DEF Writer, Reader, vars, threadVars
  <2> QED BY <1>1, <1>2, <2>1
<1> QED BY <1>3, <1>4, <1>5, <1>6, <1>7 DEF Next, Finished

\* Where a thread can be at the edge when it takes a step of the exchange.
LEMMA ThreadAt ==
  ASSUME TypeOK, NEW u \in Universes, Thread(u)
  PROVE  /\ pc[u] = "dispatch" => Dispatch(u)
         /\ pc[u] # "dispatched"
         /\ pc[u] = "collect" => Collect(u)
         /\ pc[u] # "top"
<1>1. CASE Dispatch(u) \/ Collect(u) \/ SendEpoch(u) \/ Await(u)
  BY <1>1 DEF Dispatch, Collect, SendEpoch, Await
<1>2. CASE TrainLocal(u) \/ TrainGlobal(u) \/ OpenTimeline(u) \/ Opened(u) \/ Pick(u)
  BY <1>2 DEF TrainLocal, TrainGlobal, OpenTimeline, Opened, Pick
<1>3. CASE ReadTime(u) \/ ReceiveMessages(u) \/ EndScan(u)
  BY <1>3 DEF ReadTime, ReceiveMessages, EndScan
<1>4. CASE RunEvent(u) \/ RunEnd(u) \/ Notify(u) \/ Interrupted(u) \/ UpdateTime(u)
  BY <1>4 DEF RunEvent, RunEnd, Notify, Interrupted, UpdateTime
<1>5. CASE PollMail(u) \/ WaitMail(u) \/ DrainMail(u) \/ HandleMail(u) \/ EndMail(u)
  BY <1>5 DEF PollMail, WaitMail, DrainMail, HandleMail, EndMail
<1>6. CASE AdvanceWindow(u)
  BY <1>6 DEF AdvanceWindow
<1> QED BY <1>1, <1>2, <1>3, <1>4, <1>5, <1>6 DEF Thread

\* A thread moves no other one.
LEMMA OthersStay ==
  ASSUME TypeOK, Meeting, NEW u \in Universes, Thread(u), NEW v \in Universes \ {u}
  PROVE  pc'[v] = pc[v]
<1>0. pc \in [Universes -> Labels]
  BY DEF TypeOK, ThreadTypeOK
<1>1. CASE AdvanceWindow(u)
  BY <1>0, <1>1 DEF AdvanceWindow, Goto
<1>2. CASE Dispatch(u)
  BY <1>0, <1>2 DEF Dispatch, Goto
<1>3. CASE TrainLocal(u)
  BY <1>0, <1>3 DEF TrainLocal, Goto
<1>4. CASE TrainGlobal(u)
  BY <1>0, <1>4 DEF TrainGlobal, Goto
<1>5. CASE ~AdvanceWindow(u) /\ ~Dispatch(u) /\ ~TrainLocal(u) /\ ~TrainGlobal(u)
  BY <1>5, ThreadKeepsPlace DEF PlaceKept
<1> QED BY <1>1, <1>2, <1>3, <1>4, <1>5

\* The steps of the exchange at an edge.
LEMMA ExchangeStep ==
  ASSUME TypeOK, Meeting, [Next]_vars, NEW u \in Universes, ~Collect(u),
         pc[u] \in {"dispatch", "dispatched", "collect"}, Exchange(u)
  PROVE  /\ pc'[u] \in {"dispatch", "dispatched", "collect"}
         /\ Exchange(u)' /\ synpoint'[u] = synpoint[u]
<1>0. pc \in [Universes -> Labels] /\ machine[u] \in Machines
  BY TopologyAssumption DEF TypeOK, ThreadTypeOK
<1>1. ~AdvanceWindow(u) /\ ~Trained(machine[u])
  BY DEF AdvanceWindow, Trained, UniversesOf
<1>2. /\ synpoint'[u] = synpoint[u] /\ decade_sync'[u] = decade_sync[u]
      /\ epoch_sync'[u] = epoch_sync[u]
  BY <1>1, EdgesStay
<1>3. pc'[u] \in {"dispatch", "dispatched", "collect"}
  <2>1. ASSUME Thread(u) PROVE pc'[u] \in {"dispatch", "dispatched", "collect"}
    <3>1. Dispatch(u)
      BY <2>1, ThreadAt
    <3> QED BY <1>0, <3>1 DEF Dispatch, Goto, Exchange
  <2>2. ASSUME NEW w \in Universes \ {u}, Thread(w) PROVE pc'[u] = pc[u]
    BY <2>2, OthersStay
  <2>3. ASSUME NEW m \in Machines, Barrier(m)
        PROVE  pc'[u] \in {"dispatch", "dispatched", "collect"}
    BY <2>3 DEF Barrier, Meet, UniversesOf
  <2>4. ASSUME NEW m \in Machines, Trained(m) PROVE pc'[u] = pc[u]
    BY <1>1, <2>4, TrainingEnds
  <2>5. ASSUME Collective PROVE pc'[u] = pc[u]
    <3>1. CASE Reduce
      BY <1>0, <3>1 DEF Reduce
    <3>2. CASE MpiBarrier
      BY <1>0, <3>2 DEF MpiBarrier
    <3>3. CASE FinishGlobal
      BY <1>0, <3>3 DEF FinishGlobal
    <3> QED BY <2>5, <3>1, <3>2, <3>3 DEF Collective
  <2>6. ASSUME \/ \E m \in Machines : Writer(m)
               \/ \E n, m \in Machines : Reader(n, m)
               \/ UNCHANGED vars
        PROVE  pc'[u] = pc[u]
    BY <2>6 DEF Writer, Reader, vars, threadVars
  <2> QED BY <2>1, <2>2, <2>3, <2>4, <2>5, <2>6 DEF Next, Finished
<1> QED BY <1>2, <1>3 DEF Exchange

LEMMA NextBoards ==
  ASSUME TypeOK, TypeOK', Meeting, Scheduling, Lookahead, [Next]_vars
  PROVE  Boards'
<1> SUFFICES ASSUME NEW u \in Universes, NEW e \in switch_board'[u]
             PROVE  /\ synpoint'[u] <= e.t
                    /\ pc'[u] \in {"dispatch", "dispatched", "collect"} /\ Exchange(u)'
  BY DEF Boards
<1>1. ~Collect(u)
  <2>1. Collect(u) => switch_board'[u] = {}
    BY Exchanging
  <2> QED BY <2>1
<1>2. ASSUME synpoint[u] <= e.t, pc[u] \in {"dispatch", "dispatched", "collect"}, Exchange(u)
      PROVE  /\ synpoint'[u] <= e.t
             /\ pc'[u] \in {"dispatch", "dispatched", "collect"} /\ Exchange(u)'
  BY <1>1, <1>2, ExchangeStep
<1>3. CASE e \in switch_board[u]
  BY <1>2, <1>3 DEF Lookahead, Boards
<1>4. CASE e \notin switch_board[u]
  <2>1. PICK w \in Universes : Dispatch(w)
    <3>1. ASSUME NEW w \in Universes, Thread(w) PROVE Dispatch(w)
      <4>1. CASE Collect(w)
        BY <1>4, <4>1, Exchanging
      <4>2. CASE ~Collect(w) /\ ~Dispatch(w)
        BY <1>4, <3>1, <4>2, ThreadFrame
      <4> QED BY <4>1, <4>2
    <3>2. CASE ~(\E w \in Universes : Thread(w))
      <4>1. UNCHANGED binVars
        BY <3>2, OtherFrame, TrainingEnds DEF Next, Finished
      <4> QED BY <1>4, <4>1 DEF binVars
    <3> QED BY <3>1, <3>2
  <2>2. e \in local_binque[w] /\ universe[Dest(e)] = u /\ Exchange(w)
    BY <1>4, <2>1, Exchanging
  <2>3. DueAfter(u) <= e.t
    BY <2>2 DEF Lookahead, Queues
  <2>4. universe[source[e.sg]] = w /\ ~Remote(e.sg)
    BY <2>2 DEF Lookahead, Routes, QueueRoutes
  <2>5. u \in Mates(w) /\ w \in Mates(u)
    BY <2>2, <2>4 DEF Mates, Remote, SourceMachine, TargetMachine, Dest
  <2>6. pc[w] = "dispatch"
    BY <2>1 DEF Dispatch
  <2>7. pc[u] \in {"dispatch", "dispatched"}
    BY <2>2, <2>5, <2>6 DEF Meeting, ExchangeTogether
  <2>8. ~InWindow(u) /\ ~InWindow(w)
    BY <2>6, <2>7 DEF InWindow, WindowLabels
  <2>9. SameEdge(u, w)
    BY <2>5, <2>8 DEF Meeting, Edges, SameEdges
  <2>10. machine[u] = machine[w]
    BY <2>5 DEF Mates
  <2>11. Exchange(u)
    BY <2>2, <2>9, <2>10 DEF Exchange, SameEdge
  <2>12. synpoint[u] <= e.t
    BY <2>3, <2>8 DEF DueAfter
  <2> QED BY <1>2, <2>7, <2>11, <2>12
<1> QED BY <1>3, <1>4

\* What is left in a queue stays there beyond the training.
LEMMA StaysQueuedOn ==
  ASSUME TypeOK, TypeOK', Meeting, Meeting', [Next]_vars, NEW v \in Universes, StaysQueued(v),
         FirstWindow(v)' <=> FirstWindow(v)
  PROVE  StaysQueued(v)'
<1> DEFINE m == machine[v]
           p == proc0[m]
           Same == /\ training_finished'[m] = training_finished[m]
                   /\ local_reclassified'[m] = local_reclassified[m]
                   /\ global_reclassified'[m] = global_reclassified[m]
<1>0. /\ m \in Machines /\ p \in Universes /\ machine[p] = m
      /\ pc \in [Universes -> Labels] /\ training_finished \in [Machines -> BOOLEAN]
  BY TopologyAssumption DEF TypeOK, ThreadTypeOK, WindowTypeOK
<1>1. /\ training_finished[m] \/ FirstWindow(v)
      /\ TrainerDone(m) => pc[p] = "trained" /\ ~local_reclassified[m] /\ ~global_reclassified[m]
  BY DEF StaysQueued
<1>2. ASSUME training_finished[m] => training_finished'[m],
             TrainerDone(m)' => /\ pc'[p] = "trained"
                                /\ ~local_reclassified'[m] /\ ~global_reclassified'[m]
      PROVE  StaysQueued(v)'
  BY <1>1, <1>2 DEF StaysQueued
<1>3. ASSUME Same, pc'[p] = pc[p] \/ pc'[p] \notin {"train global", "trained"}
      PROVE  StaysQueued(v)'
  BY <1>1, <1>2, <1>3 DEF TrainerDone
<1>4. ASSUME UNCHANGED trainVars PROVE Same
  BY <1>4 DEF trainVars, localVars, globalVars
<1> HIDE DEF Same
<1>5. ASSUME NEW u \in Universes, TrainLocal(u) PROVE StaysQueued(v)'
  <2>0. /\ pc[u] = "train" /\ u = proc0[machine[u]]
        /\ pc' = [pc EXCEPT ![u] = IF epoch_sync[u] /\ synpoint[u] = global_roundup[machine[u]]
                                   THEN "train global" ELSE "trained"]
        /\ \A n \in Machines \ {machine[u]} :
             /\ local_reclassified'[n] = local_reclassified[n]
             /\ global_reclassified'[n] = global_reclassified[n]
        /\ ~global_reclassified'[machine[u]]
        /\ \/ decade_sync[u] /\ synpoint[u] = local_roundup[machine[u]]
           \/ ~local_reclassified'[machine[u]]
    <3> DEFINE k == machine[u]
    <3>1. /\ pc[u] = "train" /\ u = proc0[k]
          /\ pc' = [pc EXCEPT ![u] = IF epoch_sync[u] /\ synpoint[u] = global_roundup[k]
                                     THEN "train global" ELSE "trained"]
      BY <1>5, LocallyTrained
    <3>2. \A n \in Machines \ {k} : /\ local_reclassified'[n] = local_reclassified[n]
                                     /\ global_reclassified'[n] = global_reclassified[n]
      <4>1. /\ \E b \in BOOLEAN : local_reclassified' = [local_reclassified EXCEPT ![k] = b]
            /\ global_reclassified' = [global_reclassified EXCEPT ![k] = FALSE]
        BY <1>5 DEF TrainLocal
      <4>2. /\ local_reclassified \in [Machines -> BOOLEAN]
            /\ global_reclassified \in [Machines -> BOOLEAN]
        BY DEF TypeOK, WindowTypeOK
      <4> HIDE DEF k
      <4> QED BY <4>1, <4>2
    <3>3. ~global_reclassified'[k]
      BY <1>5, LocallyTrained
    <3>4. \/ decade_sync[u] /\ synpoint[u] = local_roundup[k]
          \/ ~local_reclassified'[k]
      BY <1>5, LocallyTrained
    <3> HIDE DEF k
    <3>5. /\ pc[u] = "train" /\ u = proc0[k]
          /\ pc' = [pc EXCEPT ![u] = IF epoch_sync[u] /\ synpoint[u] = global_roundup[k]
                                     THEN "train global" ELSE "trained"]
          /\ \A n \in Machines \ {k} :
               /\ local_reclassified'[n] = local_reclassified[n]
               /\ global_reclassified'[n] = global_reclassified[n]
          /\ ~global_reclassified'[k]
          /\ \/ decade_sync[u] /\ synpoint[u] = local_roundup[k]
             \/ ~local_reclassified'[k]
      BY <3>1, <3>2, <3>3, <3>4
    <3> QED BY <3>5 DEF k
  <2>01. UNCHANGED training_finished
    BY <1>5 DEF TrainLocal
  <2>1. CASE machine[u] # m
    <3>1. Same
      BY <1>0, <2>0, <2>01, <2>1 DEF Same
    <3>2. pc'[p] = pc[p]
      BY <1>0, <2>0, <2>1
    <3> QED BY <1>3, <3>1, <3>2
  <2>2. CASE machine[u] = m
    <3>1. u = p
      BY <2>0, <2>2
    <3>2. CASE training_finished[m]
      <4>1. local_roundup[m] = Infinity /\ global_roundup[m] = Infinity
        BY <1>0, <3>2 DEF Meeting, Edges, Rounds
      <4>2. synpoint[p] <= next_decade[p] /\ next_decade[p] <= endtime
        BY <1>0 DEF Meeting, Edges, Bounds
      <4>3. /\ synpoint[p] \in Nat /\ next_decade[p] \in Nat
            /\ endtime \in Nat /\ Infinity \in Nat /\ endtime < Infinity
        BY <1>0, ParameterAssumption DEF TypeOK, WindowTypeOK
      <4>4. synpoint[p] # Infinity
        BY <4>2, <4>3
      <4>5. pc'[p] = "trained" /\ ~local_reclassified'[m] /\ ~global_reclassified'[m]
        BY <1>0, <2>0, <2>2, <3>1, <4>1, <4>4
      <4> QED BY <1>2, <2>01, <4>5
    <3>3. CASE FirstWindow(v)
      <4>1. TrainerDone(m)'
        BY <1>0, <2>0, <3>1 DEF TrainerDone
      <4>2. ~decade_sync'[v] /\ ~epoch_sync'[v]
        BY <3>3 DEF FirstWindow
      <4>3. ~local_reclassified'[m] /\ ~global_reclassified'[m] /\ pc'[p] = "trained"
        BY <4>1, <4>2 DEF Meeting, Edges, FirstEdge
      <4> QED BY <1>2, <2>01, <4>3
    <3> QED BY <1>1, <3>2, <3>3
  <2> QED BY <2>1, <2>2
<1>6. ASSUME NEW u \in Universes, TrainGlobal(u) PROVE StaysQueued(v)'
  <2>1. pc[u] = "train global" /\ pc' = [pc EXCEPT ![u] = "trained"]
        /\ UNCHANGED <<localVars, training_finished>>
        /\ global_reclassified' = [global_reclassified EXCEPT ![machine[u]] = TRUE]
    BY <1>6 DEF TrainGlobal, Goto
  <2>2. u = proc0[machine[u]]
    BY <2>1 DEF Meeting, Edges, Trainers
  <2>3. machine[u] # m
    <3>1. machine[u] = m => TrainerDone(m) /\ pc[p] # "trained"
      BY <2>1, <2>2 DEF TrainerDone
    <3> QED BY <1>1, <3>1
  <2>4. pc'[p] = pc[p]
    BY <1>0, <2>1, <2>3
  <2>5. global_reclassified \in [Machines -> BOOLEAN]
    BY DEF TypeOK, WindowTypeOK
  <2>6. Same
    BY <1>0, <2>1, <2>3, <2>5 DEF Same, localVars
  <2> QED BY <1>3, <2>4, <2>6
<1>7. ASSUME FinishGlobal PROVE StaysQueued(v)'
  <2>1. pc[p] = "train global"
    BY <1>0, <1>7 DEF FinishGlobal
  <2>2. TrainerDone(m)
    BY <2>1 DEF TrainerDone
  <2> QED BY <1>1, <2>1, <2>2
<1>8. ASSUME NEW u \in Universes, Thread(u), ~TrainLocal(u), ~TrainGlobal(u) PROVE StaysQueued(v)'
  <2>1. UNCHANGED trainVars
    BY <1>8, ThreadFrame
  <2>2. pc'[p] = pc[p] \/ pc'[p] \notin {"train global", "trained"}
    <3>1. CASE u # p
      BY <1>0, <1>8, <3>1, OthersStay
    <3>2. CASE u = p /\ Dispatch(u)
      <4>1. pc' = [pc EXCEPT ![u] = "dispatched"] \/ pc' = [pc EXCEPT ![u] = AfterLocalEdge(u)]
        BY <3>2 DEF Dispatch, Goto
      <4>2. AfterLocalEdge(u) \in {"epoch", "train"}
        BY <1>0, <3>2 DEF AfterLocalEdge
      <4> QED BY <1>0, <3>2, <4>1, <4>2
    <3>3. CASE u = p /\ AdvanceWindow(u)
      BY <1>0, <3>3 DEF AdvanceWindow, Goto
    <3>4. CASE u = p /\ ~Dispatch(u) /\ ~AdvanceWindow(u)
      <4>1. PlaceKept(u)
        BY <1>8, <3>4, ThreadKeepsPlace
      <4> QED BY <1>0, <3>4, <4>1 DEF PlaceKept
    <3> QED BY <3>1, <3>2, <3>3, <3>4
  <2> QED BY <1>3, <1>4, <2>1, <2>2
<1>9. ASSUME NEW n \in Machines, Barrier(n) PROVE StaysQueued(v)'
  <2>1. UNCHANGED trainVars
    BY <1>9 DEF Barrier, Meet
  <2>2. PICK a \in {"dispatch", "collect", "reduce", "drain", "train"},
             b \in {"dispatch", "collect", "reduced", "drain", "trained"} :
          pc' = [u \in Universes |->
                   IF machine[u] # n THEN pc[u] ELSE IF u = proc0[n] THEN a ELSE b]
    BY <1>9 DEF Barrier, Meet
  <2>3. pc'[p] = pc[p] \/ pc'[p] \notin {"train global", "trained"}
    BY <1>0, <2>2
  <2> QED BY <1>3, <1>4, <2>1, <2>3
<1>10. ASSUME NEW n \in Machines, Trained(n) PROVE StaysQueued(v)'
  <2>1. UNCHANGED trainVars
    BY <1>10, TrainingEnds
  <2>2. pc'[p] = pc[p] \/ pc'[p] \notin {"train global", "trained"}
    BY <1>0, <1>10, TrainingEnds
  <2> QED BY <1>3, <1>4, <2>1, <2>2
<1>11. ASSUME Reduce \/ MpiBarrier PROVE StaysQueued(v)'
  <2>1. UNCHANGED trainVars
    BY <1>11 DEF Reduce, MpiBarrier
  <2>2. pc'[p] \notin {"train global", "trained"}
    BY <1>0, <1>11 DEF Reduce, MpiBarrier
  <2> QED BY <1>3, <1>4, <2>1, <2>2
<1>12. ASSUME \/ \E n \in Machines : Writer(n)
              \/ \E k, n \in Machines : Reader(k, n)
              \/ UNCHANGED vars
      PROVE  StaysQueued(v)'
  <2>1. UNCHANGED trainVars /\ pc' = pc
    BY <1>12 DEF Writer, Reader, vars, threadVars
  <2> QED BY <1>3, <1>4, <2>1
<1> QED BY <1>5, <1>6, <1>7, <1>8, <1>9, <1>10, <1>11, <1>12 DEF Next, Finished, Collective

\* How a thread comes to be past the dispatch of an edge.
LEMMA EdgeEntered ==
  ASSUME TypeOK, Meeting, [Next]_vars, NEW v \in Universes, ~AdvanceWindow(v),
         ~Trained(machine[v]), AtEdge(v)', pc'[v] # "dispatch", ~AtEdge(v) \/ pc[v] = "dispatch"
  PROVE  Dispatch(v)
<1>0. pc \in [Universes -> Labels] /\ machine[v] \in Machines
  BY TopologyAssumption DEF TypeOK, ThreadTypeOK
<1>1. ASSUME pc'[v] = pc[v], scan'[v] = scan[v] PROVE FALSE
  BY <1>1 DEF AtEdge
<1>2. ASSUME Thread(v) PROVE Dispatch(v)
  <2>1. CASE TrainLocal(v) \/ TrainGlobal(v)
    BY <2>1 DEF AtEdge, WindowLabels, TrainLocal, TrainGlobal
  <2>2. CASE ~TrainLocal(v) /\ ~TrainGlobal(v) /\ ~Dispatch(v)
    BY <1>2, <2>2, ThreadKeepsPlace DEF PlaceKept
  <2> QED BY <2>1, <2>2
<1>3. ASSUME NEW u \in Universes \ {v}, Thread(u) PROVE FALSE
  <2>1. pc'[v] = pc[v]
    BY <1>3, OthersStay
  <2>2. scan'[v] = scan[v]
    <3>1. CASE Dispatch(u) \/ TrainLocal(u) \/ TrainGlobal(u) \/ AdvanceWindow(u)
      BY <3>1 DEF Dispatch, TrainLocal, TrainGlobal, AdvanceWindow
    <3>2. CASE ~Dispatch(u) /\ ~TrainLocal(u) /\ ~TrainGlobal(u) /\ ~AdvanceWindow(u)
      BY <1>3, <3>2, ThreadKeepsPlace DEF PlaceKept
    <3> QED BY <3>1, <3>2
  <2> QED BY <1>1, <2>1, <2>2
<1>4. ASSUME NEW m \in Machines, Barrier(m) PROVE FALSE
  <2>1. scan' = scan
    BY <1>4 DEF Barrier, Meet
  <2>2. CASE pc'[v] = pc[v]
    BY <1>1, <2>1, <2>2
  <2>3. CASE pc'[v] # pc[v]
    BY <1>4, <2>3 DEF Barrier, Meet, UniversesOf, AtEdge, WindowLabels
  <2> QED BY <2>2, <2>3
<1>5. ASSUME NEW m \in Machines, Trained(m) PROVE FALSE
  BY <1>1, <1>5, TrainingEnds
<1>6. ASSUME Collective PROVE FALSE
  <2>1. scan' = scan
    BY <1>6 DEF Collective, Reduce, MpiBarrier, FinishGlobal
  <2>2. CASE pc'[v] = pc[v]
    BY <1>1, <2>1, <2>2
  <2>3. CASE pc'[v] # pc[v]
    <3>1. pc[v] \in {"reduce", "mpi barrier", "train global"}
      <4>1. CASE Reduce
        BY <1>0, <2>3, <4>1 DEF Reduce
      <4>2. CASE MpiBarrier
        BY <1>0, <2>3, <4>2 DEF MpiBarrier
      <4>3. CASE FinishGlobal
        BY <1>0, <2>3, <4>3 DEF FinishGlobal
      <4> QED BY <1>6, <4>1, <4>2, <4>3 DEF Collective
    <3> QED BY <3>1 DEF AtEdge, WindowLabels
  <2> QED BY <2>2, <2>3
<1>7. ASSUME \/ \E m \in Machines : Writer(m)
             \/ \E n, m \in Machines : Reader(n, m)
             \/ UNCHANGED vars
      PROVE  FALSE
  BY <1>1, <1>7 DEF Writer, Reader, vars, threadVars
<1> QED BY <1>2, <1>3, <1>4, <1>5, <1>6, <1>7 DEF Next, Finished

LEMMA TwoMembers ==
  ASSUME NEW S, IsFiniteSet(S), NEW x \in S, NEW y \in S, x # y
  PROVE  Cardinality(S) > 1
<1>1. Cardinality({y}) = 1 /\ IsFiniteSet({y})
  BY FS_Singleton
<1>2. Cardinality(S) = Cardinality(S \ {x}) + 1 /\ IsFiniteSet(S \ {x})
  <2>1. /\ Cardinality(S \ {x}) = IF x \in S THEN Cardinality(S) - 1 ELSE Cardinality(S)
        /\ IsFiniteSet(S \ {x})
    BY FS_RemoveElement
  <2>2. Cardinality(S) \in Nat
    BY FS_CardinalityType
  <2> QED BY <2>1, <2>2
<1>3. {y} \subseteq S \ {x}
  OBVIOUS
<1>4. Cardinality({y}) <= Cardinality(S \ {x})
  BY <1>2, <1>3, FS_Subset
<1>5. Cardinality(S \ {x}) \in Nat
  BY <1>2, FS_CardinalityType
<1> QED BY <1>1, <1>2, <1>4, <1>5

\* A message that was in the queue before the step: when it is due, ...
LEMMA QueuedDue ==
  ASSUME TypeOK, TypeOK', Meeting, Scheduling, Lookahead, [Next]_vars,
         NEW v \in Universes, NEW e \in local_binque[v]
  PROVE  DueAfter(universe[Dest(e)])' <= e.t
<1> DEFINE w == universe[Dest(e)]
<1>0. /\ e \in MessageType /\ e.t \in Nat /\ w \in Universes
      /\ universe[source[e.sg]] = v /\ ~Remote(e.sg)
  <2>1. e \in MessageType
    BY DEF TypeOK, MessageTypeOK
  <2> QED BY <2>1, TopologyAssumption DEF Lookahead, Routes, QueueRoutes, MessageType, Dest
<1>1. v \in Mates(w) /\ w \in Mates(v)
  BY <1>0 DEF Mates, Remote, SourceMachine, TargetMachine, Dest
<1>2. DueAfter(w) <= e.t
  BY DEF Lookahead, Queues
<1> HIDE DEF w
<1>3. CASE AdvanceWindow(w)
  <2>1. /\ synpoint'[w] = next_window(w) /\ InWindow(w) /\ ~InWindow(w)'
    <3>1. Together
      BY DEF Meeting
    <3> QED BY <1>0, <1>3, <3>1, WindowLeft
  <2>2. next_window(w) <= next_decade[w] /\ next_window(w) \in Nat /\ next_decade[w] \in Nat
    BY <1>0, WindowFacts DEF TypeOK
  <2>3. next_decade[w] <= e.t
    BY <1>2, <2>1 DEF DueAfter
  <2>4. next_window(w) <= e.t
    BY <1>0, <2>2, <2>3
  <2>5. DueAfter(w)' = next_window(w)
    BY <2>1 DEF DueAfter
  <2> QED BY <2>4, <2>5 DEF w, Dest
<1>4. CASE Trained(machine[w])
  <2>0. machine[w] \in Machines /\ machine[v] = machine[w] /\ proc0[machine[w]] \in Universes
        /\ machine[proc0[machine[w]]] = machine[w]
    BY <1>0, <1>1, TopologyAssumption DEF Mates
  <2>1. /\ \A x \in Universes : machine[x] = machine[w] => pc[x] = "trained" /\ pc'[x] = "open"
        /\ ~Reclassified(machine[w]) => next_decade' = next_decade
    BY <1>4, <2>0, TrainingEnds
  <2>2. AtEdge(v) /\ ~InWindow(v) /\ ~InWindow(w) /\ pc[v] # "dispatch"
    BY <1>0, <2>0, <2>1 DEF AtEdge, InWindow, WindowLabels
  <2>3. next_decade[v] <= e.t /\ StaysQueued(v)
    BY <2>2 DEF Lookahead, Queues, Exchanged
  <2>4. TrainerDone(machine[v])
    BY <2>0, <2>1 DEF TrainerDone
  <2>5. ~Reclassified(machine[w])
    BY <2>0, <2>3, <2>4 DEF StaysQueued, Reclassified
  <2>6. SameEdge(v, w)
    BY <1>1, <2>2 DEF Meeting, Edges, SameEdges
  <2>7. next_decade'[w] = next_decade[v]
    BY <2>1, <2>5, <2>6 DEF SameEdge
  <2>8. InWindow(w)'
    BY <1>0, <2>1 DEF InWindow, AtEdge, WindowLabels
  <2>9. DueAfter(w)' = next_decade[v]
    BY <2>7, <2>8 DEF DueAfter
  <2> QED BY <2>3, <2>9 DEF w, Dest
<1>5. CASE ~AdvanceWindow(w) /\ ~Trained(machine[w])
  <2>1. DueAfter(w)' = DueAfter(w)
    BY <1>0, <1>5, EdgesStay DEF DueAfter
  <2> QED BY <1>2, <2>1 DEF w, Dest
<1> QED BY <1>3, <1>4, <1>5

\* ... and that it stays in the queue until then.
LEMMA QueuedOn ==
  ASSUME TypeOK, TypeOK', Meeting, Meeting', Scheduling, Lookahead, [Next]_vars,
         NEW v \in Universes, NEW e \in local_binque[v], e \in local_binque'[v], Exchanged(v)'
  PROVE  next_decade'[v] <= e.t /\ StaysQueued(v)'
<1> DEFINE m == machine[v]
           w == universe[Dest(e)]
<1>0. /\ m \in Machines /\ proc0[m] \in Universes /\ machine[proc0[m]] = m
      /\ proc0[m] \in Mates(v) /\ pc \in [Universes -> Labels]
  BY TopologyAssumption DEF TypeOK, ThreadTypeOK, Mates
<1>1. ~AdvanceWindow(v)
  <2> SUFFICES ASSUME AdvanceWindow(v) PROVE FALSE
    OBVIOUS
  <2>1. /\ decade_sync'[v] = (next_window(v) = next_decade[v])
        /\ epoch_sync'[v] = (next_window(v) = next_epoch[v]) /\ ~AtEdge(v)'
    <3>1. Together
      BY DEF Meeting
    <3> QED BY <3>1, WindowLeft
  <2>2. next_window(v) = next_decade[v] \/ next_window(v) = next_epoch[v]
    BY WindowFacts DEF TypeOK
  <2> QED BY <2>1, <2>2 DEF Exchanged, FirstWindow
<1>2. CASE Trained(m)
  <2>1. /\ \A x \in Universes : machine[x] = m => pc[x] = "trained" /\ pc'[x] = "open"
        /\ ~Reclassified(m) => next_decade' = next_decade
        /\ UNCHANGED <<decade_sync, epoch_sync>>
    BY <1>0, <1>2, TrainingEnds
  <2>2. ~AtEdge(v)'
    BY <2>1 DEF AtEdge, WindowLabels
  <2>3. FirstWindow(v)' /\ FirstWindow(v)
    BY <2>1, <2>2 DEF Exchanged, FirstWindow
  <2>4. next_decade[v] <= e.t /\ StaysQueued(v)
    BY <2>3 DEF Lookahead, Queues, Exchanged
  <2>5. TrainerDone(m)
    BY <1>0, <2>1 DEF TrainerDone
  <2>6. ~Reclassified(m)
    BY <2>4, <2>5 DEF StaysQueued, Reclassified
  <2>7. StaysQueued(v)'
    BY <2>3, <2>4, StaysQueuedOn
  <2> QED BY <2>1, <2>4, <2>6, <2>7
<1>3. CASE ~Trained(m)
  <2>1. /\ next_decade'[v] = next_decade[v]
        /\ decade_sync'[v] = decade_sync[v] /\ epoch_sync'[v] = epoch_sync[v]
        /\ InWindow(v)' <=> InWindow(v)
    BY <1>1, <1>3, EdgesStay
  <2>2. FirstWindow(v)' <=> FirstWindow(v)
    BY <2>1 DEF FirstWindow
  <2>3. CASE Exchanged(v)
    <3>1. next_decade[v] <= e.t /\ StaysQueued(v)
      BY <2>3 DEF Lookahead, Queues
    <3> QED BY <2>1, <2>2, <3>1, StaysQueuedOn
  <2>4. CASE ~Exchanged(v)
    <3>1. ~FirstWindow(v) /\ AtEdge(v)' /\ pc'[v] # "dispatch" /\ (~AtEdge(v) \/ pc[v] = "dispatch")
      BY <2>2, <2>4 DEF Exchanged
    <3>2. Dispatch(v)
      BY <1>1, <1>3, <3>1, EdgeEntered
    <3>3. CASE Exchange(v)
      <4>1. training_finished[m] /\ next_decade[v] <= e.t
        BY <3>2, <3>3, Exchanging
      <4>2. pc[v] = "dispatch" /\ UNCHANGED trainVars /\ pc' = [pc EXCEPT ![v] = "dispatched"]
        BY <3>2, <3>3 DEF Dispatch, Exchange, Goto
      <4>3. pc[proc0[m]] \in {"dispatch", "dispatched"}
        BY <1>0, <3>3, <4>2 DEF Meeting, ExchangeTogether
      <4>4. ~TrainerDone(m)'
        BY <1>0, <4>2, <4>3 DEF TrainerDone
      <4>5. training_finished'[m]
        BY <4>1, <4>2 DEF trainVars, globalVars
      <4> QED BY <2>1, <4>1, <4>4, <4>5 DEF StaysQueued
    <3>4. CASE ~Exchange(v)
      <4>1. e \in MessageType
        BY DEF TypeOK, MessageTypeOK
      <4>2. universe[source[e.sg]] = v /\ ~Remote(e.sg) /\ w # v
        BY DEF Lookahead, Routes, QueueRoutes, SameUniverse, Dest
      <4>3. w \in Universes /\ machine[w] = m
        BY <4>1, <4>2, TopologyAssumption
          DEF MessageType, Remote, SourceMachine, TargetMachine, Dest
      <4>4. {v, w} \subseteq UniversesOf(m) /\ UniversesOf(m) \subseteq Universes
        BY <4>3 DEF UniversesOf
      <4>5. IsFiniteSet(UniversesOf(m))
        BY <4>4, FS_Subset, TopologyAssumption
      <4>6. Cardinality(UniversesOf(m)) > 1
        BY <4>2, <4>4, <4>5, TwoMembers
      <4> QED BY <3>1, <3>4, <4>6 DEF Exchange, FirstWindow
    <3> QED BY <3>3, <3>4
  <2> QED BY <2>3, <2>4
<1> QED BY <1>2, <1>3

\* And one that has just been written.
LEMMA NextQueues ==
  ASSUME TypeOK, TypeOK', Meeting, Meeting', Scheduling, Lookahead, [Next]_vars
  PROVE  Queues'
<1> SUFFICES ASSUME NEW v \in Universes, NEW e \in local_binque'[v]
             PROVE  /\ DueAfter(universe[Dest(e)])' <= e.t
                    /\ Exchanged(v)' => next_decade'[v] <= e.t /\ StaysQueued(v)'
  BY DEF Queues, Dest
<1>1. CASE e \in local_binque[v]
  BY <1>1, QueuedDue, QueuedOn
<1>2. CASE e \notin local_binque[v]
  <2>1. RunEvent(v)
    <3>1. ASSUME NEW u \in Universes, Thread(u) PROVE RunEvent(v)
      <4>1. CASE Dispatch(u)
        BY <1>2, <4>1, Exchanging
      <4>2. CASE RunEvent(u)
        BY <1>2, <4>2, Written
      <4>3. CASE ~Dispatch(u) /\ ~RunEvent(u)
        BY <1>2, <3>1, <4>3, ThreadFrame
      <4> QED BY <4>1, <4>2, <4>3
    <3>2. CASE ~(\E u \in Universes : Thread(u))
      <4>1. UNCHANGED binVars
        BY <3>2, OtherFrame, TrainingEnds DEF Next, Finished
      <4> QED BY <1>2, <4>1 DEF binVars
    <3> QED BY <3>1, <3>2
  <2>2. PICK s \in Stargates :
          /\ s = e.sg /\ universe[source[s]] = v /\ ~Remote(s) /\ gate[s].in_sync
          /\ e.t \in Nat /\ simclock[source[s]] + min_delay[s] <= e.t /\ InWindow(v)
    BY <1>2, <2>1, Written
  <2>3. UNCHANGED <<synpoint, next_decade, decade_sync, epoch_sync, pc, scan>>
        /\ UNCHANGED trainVars
    BY <2>1 DEF RunEvent, windowVars, threadVars
  <2>4. \A x \in Universes : DueAfter(x)' = DueAfter(x)
    BY <2>3 DEF DueAfter, InWindow, AtEdge
  <2>5. DueAfter(universe[target[s]]) <= simclock[source[s]] + min_delay[s]
    BY <2>2, DueReach DEF Lookahead
  <2>6. /\ source[s] \in Timelines /\ universe[target[s]] \in Universes /\ machine[v] = SourceMachine(s)
        /\ min_delay[s] \in Nat /\ simclock[source[s]] \in Nat
    BY <2>2, LocalEnds, SchedulingFacts
  <2>7. synpoint[v] \in Nat /\ next_decade[v] \in Nat
    BY WindowFacts DEF TypeOK
  <2>8. next_decade[v] <= synpoint[v] + min_delay[s]
    BY <2>2, <2>6, DecadeAhead DEF Lookahead
  <2>9. synpoint[v] <= simclock[source[s]]
    BY <2>2, <2>6 DEF Lookahead, ClocksInside
  <2>10. next_decade[v] <= e.t
    BY <2>2, <2>6, <2>7, <2>8, <2>9
  <2>11. DueAfter(universe[target[s]]) \in Nat
    <3>1. universe[target[s]] \in Universes
      BY <2>6
    <3> QED BY <3>1, WindowFacts DEF DueAfter, TypeOK
  <2>12. DueAfter(universe[target[s]]) <= e.t
    BY <2>2, <2>5, <2>6, <2>11
  <2>13. ASSUME Exchanged(v)' PROVE StaysQueued(v)'
    <3>1. FirstWindow(v)'
      BY <2>2, <2>3, <2>13 DEF Exchanged, InWindow, AtEdge
    <3>2. ~TrainerDone(machine[v])
      BY <2>2, InsideWindow
    <3>3. ~TrainerDone(machine[v])'
      BY <2>3, <3>2 DEF TrainerDone
    <3> QED BY <3>1, <3>3 DEF StaysQueued
  <2>14. DueAfter(universe[Dest(e)])' <= e.t
    BY <2>2, <2>4, <2>6, <2>12 DEF Dest
  <2> QED BY <2>3, <2>10, <2>13, <2>14
<1> QED BY <1>1, <1>2

\* The first decade of a machine; and where the messages that entities write
\* during their initialization are due after it, as those of a stargate that is
\* synchronous are bound to be.  (For an asynchronous one nothing in the code
\* sees to it: see the run init_write.)
FirstDecade(m) ==
  Clip(LocalLength(m, StartLocal(m)),
       IF StartLocal(m).training THEN local_round[m] ELSE Infinity)
InitWritesOnTime ==
  \A e \in InitWrites :
    ~Remote(e.sg) /\ ~SameUniverse(e.sg) => FirstDecade(SourceMachine(e.sg)) <= e.t

LEMMA InitLookahead == InitWritesOnTime /\ Init => Lookahead
<1> SUFFICES ASSUME InitWritesOnTime, Init PROVE Lookahead
  OBVIOUS
<1>0. TypeOK /\ Scheduling
  BY InitType, InitScheduling
<1>1. /\ simclock = [t \in Timelines |-> 0] /\ synpoint = [u \in Universes |-> 0]
      /\ pc = [u \in Universes |-> "top"] /\ ctx = [u \in Universes |-> Idle]
      /\ umailbox = [u \in Universes |-> <<>>] /\ mailbox = [s \in Stargates |-> {}]
      /\ switch_board = [u \in Universes |-> {}]
      /\ remote_mailbox = [m \in Machines |-> {}]
      /\ net = [mm \in Machines \X Machines |-> <<>>]
      /\ decade_sync = [u \in Universes |-> FALSE] /\ epoch_sync = [u \in Universes |-> FALSE]
  BY DEF Init
<1>2. \A v \in Universes : \A e \in local_binque[v] :
        e \in InitWrites /\ universe[source[e.sg]] = v /\ ~Remote(e.sg) /\ ~SameUniverse(e.sg)
  BY DEF Init
<1>3. \A v \in Universes : \A e \in global_binque[v] :
        universe[source[e.sg]] = v /\ Remote(e.sg)
  BY DEF Init
<1>4. \A v \in Universes : /\ umailbox[v] = <<>> /\ ctx[v].io = <<>>
                           /\ ~InWindow(v) /\ ~AtEdge(v)
  BY <1>1 DEF Idle, InWindow, AtEdge, WindowLabels
<1>5. Routes
  <2>1. QueueRoutes
    BY <1>1, <1>2, <1>3 DEF QueueRoutes
  <2>2. MailRoutes
    BY <1>1, <1>4, EmptyRange DEF MailRoutes
  <2>3. NetRoutes
    BY <1>1, EmptyRange DEF NetRoutes
  <2> QED BY <2>1, <2>2, <2>3 DEF Routes
<1>6. Events
  <2> SUFFICES ASSUME NEW t \in Timelines, NEW e \in evtlist[t] PROVE simclock[t] <= e.t
    BY DEF Events
  <2>1. e.t \in Nat
    BY <1>0, MessageElim DEF TypeOK, TimelineTypeOK
  <2> QED BY <1>1, <2>1
<1>7. ClocksInside
  BY <1>1, TopologyAssumption DEF ClocksInside
<1>8. Promises
  <2> SUFFICES ASSUME NEW s \in Stargates
               PROVE  gate[s].time <= simclock[source[s]] + min_delay[s]
    BY DEF Promises
  <2>1. source[s] \in Timelines /\ universe[source[s]] \in Universes
    BY LocalEnds
  <2>2. Reached(source[s]) = simclock[source[s]]
    BY <1>1, <2>1 DEF Reached
  <2> QED BY <1>0, <2>2 DEF Scheduling, Gates
<1>9. LocalMail /\ Boards
  BY <1>1 DEF LocalMail, Boards
<1>10. Held
  BY <1>1 DEF Held
<1>11. Queues
  <2> SUFFICES ASSUME NEW v \in Universes, NEW e \in local_binque[v]
               PROVE  /\ DueAfter(universe[Dest(e)]) <= e.t
                      /\ next_decade[v] <= e.t /\ StaysQueued(v)
    BY DEF Queues
  <2>1. e \in InitWrites /\ e \in MessageType /\ universe[source[e.sg]] = v
        /\ ~Remote(e.sg) /\ ~SameUniverse(e.sg)
    BY <1>0, <1>2 DEF TypeOK, MessageTypeOK
  <2>2. e.sg \in Stargates /\ e.t \in Nat
    BY <2>1 DEF MessageType
  <2>3. /\ universe[Dest(e)] \in Universes /\ SourceMachine(e.sg) = machine[v]
        /\ machine[v] \in Machines
    BY <2>1, <2>2, LocalEnds DEF Dest
  <2>4. DueAfter(universe[Dest(e)]) = 0
    BY <1>1, <1>4, <2>3 DEF DueAfter
  <2>5. next_decade[v] = FirstDecade(machine[v])
    <3>1. /\ decade_length[machine[v]] = LocalLength(machine[v], StartLocal(machine[v]))
          /\ local_roundup[machine[v]] =
               IF StartLocal(machine[v]).training THEN local_round[machine[v]] ELSE Infinity
          /\ next_decade[v] = Clip(decade_length[machine[v]], local_roundup[machine[v]])
      BY <2>3 DEF Init
    <3> QED BY <3>1 DEF FirstDecade
  <2>6. next_decade[v] <= e.t
    BY <2>1, <2>3, <2>5 DEF InitWritesOnTime
  <2>7. FirstWindow(v) /\ ~TrainerDone(machine[v])
    BY <1>1, <2>3, TopologyAssumption DEF FirstWindow, TrainerDone
  <2> QED BY <2>2, <2>4, <2>6, <2>7 DEF StaysQueued
<1> QED BY <1>5, <1>6, <1>7, <1>8, <1>9, <1>10, <1>11 DEF Lookahead

LEMMA NextLookahead ==
  TypeOK /\ Meeting /\ Agreement /\ Scheduling /\ Lookahead /\ RemoteSafe /\ [Next]_vars
    => Lookahead'
<1> SUFFICES ASSUME TypeOK, Meeting, Agreement, Scheduling, Lookahead, RemoteSafe, [Next]_vars
             PROVE  Lookahead'
  OBVIOUS
<1>1. TypeOK' /\ Meeting' /\ Scheduling'
  BY NextType, NextMeeting, NextScheduling
<1>2. Routes /\ Events /\ ClocksInside /\ Promises
  BY DEF Lookahead
<1>3. Routes' /\ ClocksInside' /\ Promises'
  BY <1>1, <1>2, NextRoutes, NextClocksInside, NextPromises
<1>4. Events' /\ LocalMail' /\ Held'
  BY <1>1, NextEvents, NextLocalMail, NextHeld
<1>5. Boards' /\ Queues'
  BY <1>1, NextBoards, NextQueues
<1> QED BY <1>3, <1>4, <1>5 DEF Lookahead

(* The look-ahead of a timeline, given that of the messages from other      *)
(* machines: whatever is on its way to it inside the machine, in a queue    *)
(* for the next edge, on the switch board or in a mailbox, is for a time    *)
(* that it has not been allowed to reach (outChannel::write_event,          *)
(* dispatch_local_events, Stargate::retrieve_messages).                     *)
THEOREM LookaheadHolds ==
  ASSUME InitWritesOnTime
  PROVE  Spec /\ []RemoteSafe => []Lookahead
<1>1. Init => TypeOK /\ Meeting /\ Agreement /\ Scheduling /\ Lookahead
  BY InitType, InitMeeting, InitAgrees, InitScheduling, InitLookahead, InitWritesOnTime
<1>2. TypeOK /\ Meeting /\ Agreement /\ Scheduling /\ Lookahead /\ RemoteSafe /\ [Next]_vars
        => (TypeOK /\ Meeting /\ Agreement /\ Scheduling /\ Lookahead)'
  BY NextType, NextMeeting, NextAgrees, NextScheduling, NextLookahead
<1> QED BY <1>1, <1>2, PTL DEF Spec

-----------------------------------------------------------------------------
(* What follows for the messages that are on their way.                    *)

LEMMA BoundsSafe == TypeOK /\ Meeting /\ Scheduling /\ Lookahead /\ RemoteSafe => LbtsSafe
<1> SUFFICES ASSUME TypeOK, Meeting, Scheduling, Lookahead, RemoteSafe, NEW e \in InFlight
             PROVE  lbts[Dest(e)] <= e.t
  BY DEF LbtsSafe
<1>1. CASE Remote(e.sg)
  BY <1>1 DEF RemoteSafe
<1>2. CASE ~Remote(e.sg)
  <2>0. QueueRoutes /\ MailRoutes /\ NetRoutes
    BY DEF Lookahead, Routes
  <2>1. e \notin BetweenMachines
    <3>1. \A m \in Machines : e \notin remote_mailbox[m]
      BY <1>2, <2>0 DEF NetRoutes
    <3>2. ASSUME NEW mn \in Machines \X Machines, NEW b \in Range(net[mn]), e \in b.regular
          PROVE  FALSE
      <4>1. PICK k \in Machines, m \in Machines : mn = <<k, m>>
        OBVIOUS
      <4>2. SourceMachine(e.sg) # TargetMachine(e.sg)
        BY <2>0, <3>2, <4>1 DEF NetRoutes
      <4> QED BY <1>2, <4>2 DEF Remote
    <3> QED BY <3>1, <3>2 DEF BetweenMachines
  <2>2. ASSUME NEW u \in Universes, e \in (Range(umailbox[u]) \cup Range(ctx[u].io)), ~IsNull(e)
        PROVE  lbts[Dest(e)] <= e.t
    BY <2>2, MailSafe
  <2>3. ASSUME NEW s \in Stargates, e \in mailbox[s] PROVE lbts[Dest(e)] <= e.t
    <3>1. e.sg = s /\ lbts[target[s]] <= e.t
      BY <2>0, <2>3, MailSafe DEF MailRoutes
    <3> QED BY <3>1 DEF Dest
  <2>4. ASSUME NEW u \in Universes, e \in local_binque[u] \/ e \in switch_board[u]
        PROVE  e \in MessageType /\ e.sg \in Stargates /\ e.t \in Nat
    BY <2>4 DEF TypeOK, MessageTypeOK, MessageType
  <2>5. ASSUME NEW u \in Universes, e \in switch_board[u] PROVE lbts[Dest(e)] <= e.t
    <3>1. /\ universe[Dest(e)] = u /\ synpoint[u] <= e.t /\ ~InWindow(u)
          /\ Dest(e) \in Timelines
      BY <2>0, <2>4, <2>5, LocalEnds
         DEF QueueRoutes, Lookahead, Boards, InWindow, WindowLabels, Dest
    <3>2. lbts[Dest(e)] = synpoint[u]
      BY <3>1, BoundInWindow
    <3> QED BY <3>1, <3>2
  <2>6. ASSUME NEW u \in Universes, e \in local_binque[u] PROVE lbts[Dest(e)] <= e.t
    <3> DEFINE v == universe[Dest(e)]
    <3>1. DueAfter(v) <= e.t /\ Dest(e) \in Timelines /\ v \in Universes
      BY <2>4, <2>6, LocalEnds DEF Lookahead, Queues, Dest
    <3>2. lbts[Dest(e)] \in Nat /\ DueAfter(v) \in Nat /\ e.t \in Nat
      BY <2>4, <2>6, <3>1, SchedulingFacts DEF DueAfter, TypeOK, WindowTypeOK
    <3>3. lbts[Dest(e)] <= DueAfter(v)
      BY <3>1, <3>2, BoundInWindow DEF DueAfter
    <3> HIDE DEF v
    <3> QED BY <3>1, <3>2, <3>3
  <2>7. \A u \in Universes : e \notin global_binque[u]
    BY <1>2, <2>0 DEF QueueRoutes
  <2> QED BY <2>1, <2>2, <2>3, <2>5, <2>6, <2>7 DEF InFlight
<1> QED BY <1>1, <1>2

\* A message on its way is a message.
LEMMA InFlightType == TypeOK => InFlight \subseteq MessageType
<1> SUFFICES ASSUME TypeOK, NEW e \in InFlight PROVE e \in MessageType
  OBVIOUS
<1>1. CASE e \in BetweenMachines
  <2>1. ASSUME NEW mn \in Machines \X Machines, NEW b \in Range(net[mn]), e \in b.regular
        PROVE  e \in MessageType
    <3>1. net[mn] \in Seq(BatchType)
      BY DEF TypeOK, MessageTypeOK
    <3>2. b \in BatchType
      BY <3>1 DEF Range
    <3> QED BY <2>1, <3>2 DEF BatchType
  <2>2. ASSUME NEW m \in Machines, e \in remote_mailbox[m] PROVE e \in MessageType
    BY <2>2 DEF TypeOK, MessageTypeOK
  <2> QED BY <1>1, <2>1, <2>2 DEF BetweenMachines
<1>2. ASSUME NEW u \in Universes, e \in (Range(umailbox[u]) \cup Range(ctx[u].io))
      PROVE  e \in MessageType
  <2>1. umailbox[u] \in Seq(MessageType) /\ ctx[u].io \in Seq(MessageType)
    BY DEF TypeOK, MessageTypeOK, ThreadTypeOK, ContextType
  <2> QED BY <1>2, <2>1 DEF Range
<1>3. ASSUME NEW u \in Universes,
             e \in (local_binque[u] \cup global_binque[u] \cup switch_board[u])
      PROVE  e \in MessageType
  BY <1>3 DEF TypeOK, MessageTypeOK
<1>4. ASSUME NEW s \in Stargates, e \in mailbox[s] PROVE e \in MessageType
  BY <1>4 DEF TypeOK, MessageTypeOK
<1> QED BY <1>1, <1>2, <1>3, <1>4 DEF InFlight

LEMMA ClocksSafe == TypeOK /\ Meeting /\ Scheduling /\ LbtsSafe => ArrivesOnTime
<1> SUFFICES ASSUME TypeOK, Meeting, Scheduling, LbtsSafe, NEW e \in InFlight
             PROVE  simclock[Dest(e)] <= e.t
  BY DEF ArrivesOnTime
<1>1. e.sg \in Stargates /\ e.t \in Nat
  BY InFlightType DEF MessageType
<1>2. Dest(e) \in Timelines
  BY <1>1, LocalEnds DEF Dest
<1>3. /\ simclock[Dest(e)] \in Nat /\ lbts[Dest(e)] \in Nat
      /\ simclock[Dest(e)] <= lbts[Dest(e)] /\ lbts[Dest(e)] <= e.t
  BY <1>2, BoundInWindow DEF LbtsSafe
<1> QED BY <1>1, <1>3

LEMMA NothingLeft ==
  TypeOK /\ Meeting /\ Scheduling /\ Lookahead /\ ArrivesOnTime => AllProcessed
<1> SUFFICES ASSUME TypeOK, Meeting, Scheduling, Lookahead, ArrivesOnTime,
                    \A u \in Universes : pc[u] = "end"
             PROVE  \A e \in InFlight \cup UNION {evtlist[t] : t \in Timelines} : endtime <= e.t
  BY DEF AllProcessed
<1>1. ASSUME NEW t \in Timelines PROVE simclock[t] = endtime
  <2>1. universe[t] \in Universes /\ pc[universe[t]] = "end"
    BY TopologyAssumption
  <2>2. synpoint[universe[t]] = endtime /\ ~InWindow(universe[t])
    BY <2>1 DEF Meeting, Edges, Bounds, InWindow, WindowLabels
  <2> QED BY <2>2, BoundInWindow
<1>2. ASSUME NEW e \in InFlight PROVE endtime <= e.t
  <2>1. Dest(e) \in Timelines
    BY InFlightType, LocalEnds DEF MessageType, Dest
  <2> QED BY <1>1, <2>1 DEF ArrivesOnTime
<1>3. ASSUME NEW t \in Timelines, NEW e \in evtlist[t] PROVE endtime <= e.t
  <2>1. simclock[t] <= e.t
    BY DEF Lookahead, Events
  <2> QED BY <1>1, <2>1
<1> QED BY <1>2, <1>3

(* No message is due before the bound of its timeline, provided that none   *)
(* from another machine is: LbtsSafe rests, inside a machine, on nothing    *)
(* but the code of that machine.                                            *)
THEOREM LbtsSafeInside ==
  ASSUME InitWritesOnTime
  PROVE  Spec /\ []RemoteSafe => []LbtsSafe
BY BoundsSafe, TypeOKHolds, MeetingHolds, SchedulingHolds, LookaheadHolds, InitWritesOnTime, PTL

-----------------------------------------------------------------------------
(* The channel times.                                                      *)

\* A classification at an edge that its source has reached, and that promised
\* no more than the delay from there, does not set a channel time back.
LEMMA ReclassedRises ==
  ASSUME TypeOK, Scheduling, NEW s \in Stargates, ~InWindow(universe[source[s]]),
         Reclassed(gate[s], gate'[s], s, synpoint[universe[source[s]]])
  PROVE  gate[s].time <= gate'[s].time
<1> DEFINE w == universe[source[s]]
<1>1. /\ source[s] \in Timelines /\ w \in Universes /\ source[s] \in TimelinesOf(w)
      /\ gate[s].time \in Nat /\ min_delay[s] \in Nat /\ synpoint[w] \in Nat
  BY SchedulingFacts, LocalEnds DEF TimelinesOf
<1>2. simclock[source[s]] = synpoint[w]
  <2>1. TimelineOK(w, source[s])
    BY <1>1, ThreadFacts
  <2> QED BY <2>1 DEF TimelineOK
<1>3. Reached(source[s]) = synpoint[w]
  <2>1. pc[w] # "run"
    BY DEF InWindow, AtEdge, WindowLabels
  <2> QED BY <1>2, <2>1 DEF Reached
<1>4. gate[s].time <= synpoint[w] + min_delay[s]
  BY <1>3 DEF Scheduling, Gates
<1>5. gate'[s].time = gate[s].time \/ gate'[s].time = synpoint[w] + min_delay[s]
  BY DEF Reclassed
<1> HIDE DEF w
<1> QED BY <1>1, <1>4, <1>5

LEMMA GlobalRises ==
  ASSUME TypeOK, Scheduling, NEW M \in SUBSET Machines, NEW thresh, NEW now,
         ClassifyGlobal(M, thresh, now),
         \A v \in Universes : machine[v] \in M => ~InWindow(v) /\ synpoint[v] = now,
         NEW s \in Stargates
  PROVE  gate[s].time <= gate'[s].time
<1> DEFINE S == {r \in RemoteGates : SourceMachine(r) \in M}
<1>0. /\ gate \in [Stargates -> GateType] /\ gate[s].time \in Nat
      /\ universe[source[s]] \in Universes /\ SourceMachine(s) = machine[universe[source[s]]]
  BY SchedulingFacts, LocalEnds DEF TypeOK, TimelineTypeOK
<1>1. gate' = Classify(gate, S, thresh, now)
  BY DEF ClassifyGlobal
<1>2. s \in S => SourceMachine(s) \in M
  OBVIOUS
<1> HIDE DEF S
<1>3. Reclassed(gate[s], gate'[s], s, now) /\ (s \notin S => gate'[s] = gate[s])
  BY <1>0, <1>1, ClassifyIs DEF Classify
<1>4. CASE s \in S
  <2>1. ~InWindow(universe[source[s]]) /\ synpoint[universe[source[s]]] = now
    BY <1>0, <1>2, <1>4
  <2> QED BY <1>3, <2>1, ReclassedRises
<1> QED BY <1>0, <1>3, <1>4

LEMMA GateRises ==
  ASSUME TypeOK, Meeting, Agreement, Scheduling, [Next]_vars, NEW s \in Stargates
  PROVE  gate[s].time <= gate'[s].time
<1>0. /\ gate[s].time \in Nat /\ gate \in [Stargates -> GateType]
      /\ universe[source[s]] \in Universes /\ SourceMachine(s) = machine[universe[source[s]]]
      /\ pc \in [Universes -> Labels]
      /\ \A n \in Machines : proc0[n] \in Universes /\ machine[proc0[n]] = n
  BY SchedulingFacts, LocalEnds, TopologyAssumption DEF TypeOK, TimelineTypeOK, ThreadTypeOK
<1>1. ASSUME NEW u \in Universes, UpdateTime(u) PROVE gate[s].time <= gate'[s].time
  <2>1. PICK r \in ctx[u].out :
          /\ \A q \in Stargates : q # r => gate'[q] = gate[q]
          /\ gate[r].time <= gate'[r].time
    BY <1>1, TimeSet
  <2>2. CASE s = r
    BY <2>1, <2>2
  <2>3. CASE s # r
    <3>1. gate'[s] = gate[s]
      BY <2>1, <2>3
    <3> QED BY <1>0, <3>1
  <2> QED BY <2>2, <2>3
<1>2. ASSUME NEW u \in Universes, TrainLocal(u) PROVE gate[s].time <= gate'[s].time
  <2>1. pc[u] = "train" /\ (gate' = gate \/ \E thresh :
            gate' = Classify(gate, LocalGates(machine[u]), thresh, synpoint[u]))
    BY <1>2 DEF TrainLocal
  <2>2. CASE gate' = gate
    BY <1>0, <2>2
  <2>3. CASE \E thresh : gate' = Classify(gate, LocalGates(machine[u]), thresh, synpoint[u])
    <3>1. PICK thresh : gate' = Classify(gate, LocalGates(machine[u]), thresh, synpoint[u])
      BY <2>3
    <3>2. Reclassed(gate[s], gate'[s], s, synpoint[u])
      BY <1>0, <3>1, ClassifyIs
    <3>3. CASE s \notin LocalGates(machine[u])
      <4>1. gate'[s] = gate[s]
        BY <3>1, <3>3 DEF Classify
      <4> QED BY <1>0, <4>1
    <3>4. CASE s \in LocalGates(machine[u])
      <4>1. machine[universe[source[s]]] = machine[u]
        BY <1>0, <3>4 DEF LocalGates
      <4>2. AtEdge(u)
        BY <2>1 DEF AtEdge, WindowLabels
      <4>3. ~InWindow(universe[source[s]]) /\ synpoint[universe[source[s]]] = synpoint[u]
        BY <1>0, <4>1, <4>2, EdgeOfMachine
      <4> QED BY <3>2, <4>3, ReclassedRises
    <3> QED BY <3>3, <3>4
  <2> QED BY <2>1, <2>2, <2>3
<1>3. ASSUME NEW u \in Universes, TrainGlobal(u) PROVE gate[s].time <= gate'[s].time
  <2>1. pc[u] = "train global" /\ machine[u] \in Machines
    BY <1>3, TopologyAssumption DEF TrainGlobal
  <2>2. PICK thresh : ClassifyGlobal({machine[u]}, thresh, synpoint[u])
    BY <1>3 DEF TrainGlobal
  <2>3. AtEdge(u)
    BY <2>1 DEF AtEdge, WindowLabels
  <2>4. \A v \in Universes : machine[v] \in {machine[u]} => ~InWindow(v) /\ synpoint[v] = synpoint[u]
    BY <2>3, EdgeOfMachine
  <2>5. {machine[u]} \in SUBSET Machines
    BY <2>1
  <2> QED BY <2>2, <2>4, <2>5, GlobalRises
<1>4. ASSUME FinishGlobal PROVE gate[s].time <= gate'[s].time
  <2> DEFINE now == synpoint[proc0[CHOOSE m \in Machines : TRUE]]
  <2>1. PICK thresh : ClassifyGlobal(Machines, thresh, now)
    BY <1>4 DEF FinishGlobal
  <2>2. ASSUME NEW v \in Universes PROVE ~InWindow(v) /\ synpoint[v] = now
    <3>1. machine[v] \in Machines /\ (CHOOSE m \in Machines : TRUE) \in Machines
      BY TopologyAssumption
    <3>2. pc[proc0[machine[v]]] = "train global"
      BY <1>4, <3>1 DEF FinishGlobal
    <3>3. synpoint[proc0[machine[v]]] = now
      BY <1>4, <3>1, FinishTogether
    <3>4. AtEdge(proc0[machine[v]])
      BY <3>2 DEF AtEdge, WindowLabels
    <3> QED BY <1>0, <3>1, <3>3, <3>4, EdgeOfMachine
  <2> HIDE DEF now
  <2> QED BY <2>1, <2>2, GlobalRises
<1>5. ASSUME NEW u \in Universes, Thread(u), ~UpdateTime(u), ~TrainLocal(u), ~TrainGlobal(u)
      PROVE  gate' = gate
  <2> USE DEF gateVars
  <2>1. CASE Dispatch(u) \/ Collect(u) \/ SendEpoch(u) \/ Await(u)
    BY <2>1 DEF Dispatch, Collect, SendEpoch, Await
  <2>2. CASE OpenTimeline(u) \/ Opened(u) \/ Pick(u)
    BY <2>2 DEF OpenTimeline, Opened, Pick
  <2>3. CASE ReadTime(u) \/ ReceiveMessages(u) \/ EndScan(u)
    BY <2>3 DEF ReadTime, ReceiveMessages, EndScan
  <2>4. CASE RunEvent(u) \/ RunEnd(u) \/ Notify(u) \/ Interrupted(u)
    BY <2>4 DEF RunEvent, RunEnd, Notify, Interrupted
  <2>5. CASE PollMail(u) \/ WaitMail(u) \/ DrainMail(u) \/ HandleMail(u) \/ EndMail(u)
    BY <2>5 DEF PollMail, WaitMail, DrainMail, TakeMail, HandleMail, EndMail
  <2>6. CASE AdvanceWindow(u)
    BY <2>6 DEF AdvanceWindow
  <2> QED BY <1>5, <2>1, <2>2, <2>3, <2>4, <2>5, <2>6 DEF Thread
<1>6. CASE ~(\E u \in Universes : Thread(u)) /\ ~FinishGlobal
  <2>1. gate' = gate
    BY <1>6, OtherFrame DEF Next, Finished, gateVars
  <2> QED BY <1>0, <2>1
<1>7. gate' = gate => gate[s].time <= gate'[s].time
  BY <1>0
<1> QED BY <1>1, <1>2, <1>3, <1>4, <1>5, <1>6, <1>7

(* The time that a stargate announces never goes back, in every system: not *)
(* by an announcement (Stargate::set_time), and not by a reclassification   *)
(* at an edge, whatever it was before (Stargate::classify).                 *)
AnnouncedTimeRises == [][\A s \in Stargates : gate[s].time <= gate'[s].time]_gate
THEOREM AnnouncedTimeRisesHolds == Spec => AnnouncedTimeRises
<1>1. TypeOK /\ Meeting /\ Agreement /\ Scheduling /\ [Next]_vars
        => [\A s \in Stargates : gate[s].time <= gate'[s].time]_gate
  BY GateRises
<1> QED BY <1>1, TypeOKHolds, MeetingHolds, AgreementHolds, SchedulingHolds, PTL
        DEF Spec, AnnouncedTimeRises

-----------------------------------------------------------------------------
(* A single machine, where no stargate is remote.                          *)

\* All the universes share memory: the simulation runs as one MPI process, or
\* no entity of one process is mapped to one of another.
SharedMemory == \A s \in Stargates : ~Remote(s)

\* The receiving ends of remote stargates play no part.
LEMMA RemoteFrame ==
  ASSUME SharedMemory, TypeOK, [Next]_vars
  PROVE  rgate' = rgate
<1>0. RemoteGates = {} /\ rgate \in [Stargates -> GateType]
  BY SharedMemory DEF SharedMemory, RemoteGates, TypeOK, TimelineTypeOK
<1>1. ASSUME NEW M, NEW thresh, NEW now, ClassifyGlobal(M, thresh, now) PROVE rgate' = rgate
  <2> DEFINE S == {s \in RemoteGates : TargetMachine(s) \in M}
  <2>1. rgate' = Classify(rgate, S, thresh, now) /\ S = {}
    BY <1>0, <1>1 DEF ClassifyGlobal
  <2>2. rgate' = [s \in Stargates |-> rgate[s]]
    BY <2>1 DEF Classify
  <2> QED BY <1>0, <2>2
<1>2. ASSUME NEW u \in Universes, HandleMail(u) PROVE rgate' = rgate
  <2>1. ctx[u].io \in Seq(MessageType) /\ ctx[u].io # <<>>
    BY <1>2 DEF HandleMail, TypeOK, ThreadTypeOK, ContextType
  <2>2. Head(ctx[u].io) \in MessageType
    BY <2>1
  <2>3. ~Remote(Head(ctx[u].io).sg)
    BY <2>2, SharedMemory DEF SharedMemory, MessageType
  <2> QED BY <1>2, <2>3 DEF HandleMail, HandleNull
<1>3. ASSUME NEW u \in Universes, Thread(u), ~HandleMail(u) PROVE rgate' = rgate
  <2> USE DEF gateVars
  <2>1. CASE Dispatch(u) \/ Collect(u) \/ SendEpoch(u) \/ Await(u)
    BY <2>1 DEF Dispatch, Collect, SendEpoch, Await
  <2>2. CASE TrainLocal(u) \/ OpenTimeline(u) \/ Opened(u) \/ Pick(u)
    BY <2>2 DEF TrainLocal, OpenTimeline, Opened, Pick
  <2>3. CASE ReadTime(u) \/ ReceiveMessages(u) \/ EndScan(u)
    BY <2>3 DEF ReadTime, ReceiveMessages, EndScan
  <2>4. CASE RunEvent(u) \/ RunEnd(u) \/ Notify(u) \/ Interrupted(u)
    BY <2>4 DEF RunEvent, RunEnd, Notify, Interrupted
  <2>5. CASE UpdateTime(u)
    BY <2>5 DEF UpdateTime, SetTime
  <2>6. CASE PollMail(u) \/ WaitMail(u) \/ DrainMail(u) \/ EndMail(u)
    BY <2>6 DEF PollMail, WaitMail, DrainMail, TakeMail, EndMail
  <2>7. CASE AdvanceWindow(u)
    BY <2>7 DEF AdvanceWindow
  <2>8. CASE TrainGlobal(u)
    BY <1>1, <2>8 DEF TrainGlobal
  <2> QED BY <1>3, <2>1, <2>2, <2>3, <2>4, <2>5, <2>6, <2>7, <2>8 DEF Thread
<1>4. ASSUME FinishGlobal PROVE rgate' = rgate
  BY <1>1, <1>4 DEF FinishGlobal
<1>5. CASE ~(\E u \in Universes : Thread(u)) /\ ~FinishGlobal
  BY <1>5, OtherFrame DEF Next, Finished, gateVars
<1> QED BY <1>2, <1>3, <1>4, <1>5

(* A channel time never goes back, whatever reclassifies its stargate.      *)
THEOREM ChannelTimeMonotoneInside ==
  ASSUME SharedMemory
  PROVE  Spec => ChannelTimeMonotone
<1>1. TypeOK /\ Meeting /\ Agreement /\ Scheduling /\ [Next]_vars
        => [\A s \in Stargates : /\ gate[s].time <= gate'[s].time
                                 /\ rgate[s].time <= rgate'[s].time]_gateVars
  <2> SUFFICES ASSUME TypeOK, Meeting, Agreement, Scheduling, [Next]_vars, NEW s \in Stargates
               PROVE  gate[s].time <= gate'[s].time /\ rgate[s].time <= rgate'[s].time
    OBVIOUS
  <2>1. gate[s].time <= gate'[s].time
    BY GateRises
  <2>2. rgate' = rgate /\ rgate[s].time \in Nat
    BY RemoteFrame, SchedulingFacts, SharedMemory
  <2> QED BY <2>1, <2>2
<1> QED BY <1>1, TypeOKHolds, MeetingHolds, AgreementHolds, SchedulingHolds, PTL
        DEF Spec, ChannelTimeMonotone

-----------------------------------------------------------------------------
(* Inside a machine every message is in one place, so that an event that    *)
(* has been processed does not come again.                                  *)

InMail(x) == \E s \in Stargates : x \in mailbox[s]
Queued(x) == \E u \in Universes : x \in local_binque[u]
OnBoard(x) == \E u \in Universes : x \in switch_board[u]
Received(x) == \E t \in Timelines : x \in evtlist[t]
Once ==
  \A x \in MessageType :
    /\ InMail(x) => ~Queued(x) /\ ~OnBoard(x)
    /\ Queued(x) => ~OnBoard(x)
    /\ Received(x) => ~InMail(x) /\ ~Queued(x) /\ ~OnBoard(x)
    /\ InMail(x) \/ Queued(x) \/ OnBoard(x) \/ Received(x) => x.n <= sent[x.sg]

\* What is on its way inside a machine, and what a timeline has or will get.
Local == {x \in MessageType : InMail(x) \/ Queued(x) \/ OnBoard(x)}
Whole(t) == evtlist[t] \cup {x \in Local : Dest(x) = t}

LEMMA InitOnce == Init => Once
<1> SUFFICES ASSUME Init, NEW x \in MessageType
             PROVE  /\ ~InMail(x) /\ ~OnBoard(x)
                    /\ Received(x) => ~Queued(x)
                    /\ Queued(x) \/ Received(x) => x.n <= sent[x.sg]
  BY DEF Once
<1>1. x.sg \in Stargates /\ x.sg # 0
  BY TopologyAssumption DEF MessageType
<1>2. ~InMail(x) /\ ~OnBoard(x)
  BY DEF Init, InMail, OnBoard
<1>3. Queued(x) => x \in InitWrites /\ ~SameUniverse(x.sg)
  BY DEF Init, Queued
<1>4. Received(x) => x \in InitWrites /\ SameUniverse(x.sg)
  <2> SUFFICES ASSUME NEW t \in Timelines, x \in evtlist[t]
               PROVE  x \in InitWrites /\ SameUniverse(x.sg)
    BY DEF Received
  <2>1. evtlist[t] = {Message(0, n, n) : n \in InitEvents[t]} \cup
                     {e \in InitWrites : Dest(e) = t /\ SameUniverse(e.sg)}
    BY DEF Init
  <2>2. x \notin {Message(0, n, n) : n \in InitEvents[t]}
    BY <1>1 DEF Message
  <2> QED BY <2>1, <2>2
<1>5. x \in InitWrites => x.n <= sent[x.sg]
  <2>1. sent[x.sg] = Cardinality({e \in InitWrites : e.sg = x.sg})
    BY <1>1 DEF Init
  <2> QED BY <2>1, NumberAssumption
<1> QED BY <1>2, <1>3, <1>4, <1>5

\* Only a running timeline sends.
LEMMA SentFrame ==
  ASSUME [Next]_vars, ~(\E u \in Universes : RunEvent(u))
  PROVE  sent' = sent
<1>1. ASSUME NEW u \in Universes, Thread(u) PROVE sent' = sent
  <2>1. CASE Dispatch(u) \/ Collect(u) \/ SendEpoch(u) \/ Await(u)
    BY <2>1 DEF Dispatch, Collect, SendEpoch, Await
  <2>2. CASE TrainLocal(u) \/ TrainGlobal(u) \/ OpenTimeline(u) \/ Opened(u) \/ Pick(u)
    BY <2>2 DEF TrainLocal, TrainGlobal, OpenTimeline, Opened, Pick
  <2>3. CASE ReadTime(u) \/ ReceiveMessages(u) \/ EndScan(u)
    BY <2>3 DEF ReadTime, ReceiveMessages, EndScan
  <2>4. CASE RunEnd(u) \/ Notify(u) \/ Interrupted(u)
    BY <2>4 DEF RunEnd, Notify, Interrupted
  <2>5. CASE UpdateTime(u)
    BY <2>5 DEF UpdateTime, SetTime
  <2>6. CASE PollMail(u) \/ WaitMail(u) \/ DrainMail(u) \/ HandleMail(u) \/ EndMail(u)
    BY <2>6 DEF PollMail, WaitMail, DrainMail, TakeMail, HandleMail, EndMail
  <2>7. CASE AdvanceWindow(u)
    BY <2>7 DEF AdvanceWindow
  <2> QED BY <1>1, <2>1, <2>2, <2>3, <2>4, <2>5, <2>6, <2>7 DEF Thread
<1>2. ASSUME NEW m \in Machines, Barrier(m) \/ Trained(m) \/ Writer(m) PROVE sent' = sent
  BY <1>2 DEF Barrier, Meet, Trained, Writer
<1>3. ASSUME NEW n \in Machines, NEW m \in Machines, Reader(n, m) PROVE sent' = sent
  BY <1>3 DEF Reader
<1>4. ASSUME Collective PROVE sent' = sent
  BY <1>4 DEF Collective, Reduce, MpiBarrier, FinishGlobal
<1>5. ASSUME UNCHANGED vars PROVE sent' = sent
  BY <1>5 DEF vars
<1> QED BY <1>1, <1>2, <1>3, <1>4, <1>5 DEF Next, Finished

\* Moving messages on from one place to the next.
LEMMA DispatchMoves ==
  ASSUME TypeOK, Routes, Once, NEW u \in Universes, Dispatch(u), sent' = sent
  PROVE  Once' /\ \A t \in Timelines : Whole(t)' = Whole(t)
<1>0. /\ local_binque \in [Universes -> SUBSET MessageType]
      /\ switch_board \in [Universes -> SUBSET MessageType]
      /\ evtlist' = evtlist /\ mailbox' = mailbox
  BY DEF TypeOK, MessageTypeOK, Dispatch, tmlnVars, mailVars
<1>1. PICK out \in SUBSET local_binque[u] :
        /\ local_binque' = [local_binque EXCEPT ![u] = @ \ out]
        /\ switch_board' = [v \in Universes |->
                              switch_board[v] \cup {e \in out : universe[Dest(e)] = v}]
  <2>1. CASE (decade_sync[u] \/ epoch_sync[u]) /\ Cardinality(UniversesOf(machine[u])) > 1
    <3>1. Retrieved(local_binque[u], u, next_decade[u]) \subseteq local_binque[u]
      BY DEF Retrieved
    <3> QED BY <2>1, <3>1 DEF Dispatch
  <2>2. CASE ~((decade_sync[u] \/ epoch_sync[u]) /\ Cardinality(UniversesOf(machine[u])) > 1)
    <3>1. local_binque' = local_binque /\ switch_board' = switch_board
      BY <2>2 DEF Dispatch
    <3>2. {} \in SUBSET local_binque[u] /\ local_binque' = [local_binque EXCEPT ![u] = @ \ {}]
      BY <1>0, <3>1
    <3>3. switch_board' = [v \in Universes |->
                              switch_board[v] \cup {e \in {} : universe[Dest(e)] = v}]
      BY <1>0, <3>1
    <3> QED BY <3>2, <3>3
  <2> QED BY <2>1, <2>2
<1>2. ASSUME NEW x \in MessageType
      PROVE  /\ InMail(x)' = InMail(x) /\ Received(x)' = Received(x)
             /\ Queued(x)' <=> Queued(x) /\ x \notin out
             /\ OnBoard(x)' <=> OnBoard(x) \/ x \in out
             /\ x \in out => Queued(x)
  <2>1. InMail(x)' = InMail(x) /\ Received(x)' = Received(x)
    BY <1>0 DEF InMail, Received
  <2>2. x \in out => Queued(x)
    BY DEF Queued
  <2>3. Queued(x)' <=> Queued(x) /\ x \notin out
    <3>1. \A v \in Universes : x \in local_binque[v] => universe[source[x.sg]] = v
      BY DEF Routes, QueueRoutes
    <3>2. \A v \in Universes : x \in local_binque'[v] <=> x \in local_binque[v] /\ ~(v = u /\ x \in out)
      BY <1>0, <1>1
    <3>3. x \in out => universe[source[x.sg]] = u
      BY <3>1
    <3> QED BY <3>1, <3>2, <3>3 DEF Queued
  <2>4. universe[Dest(x)] \in Universes
    BY LocalEnds DEF MessageType, Dest
  <2>5. OnBoard(x)' <=> OnBoard(x) \/ x \in out
    BY <1>1, <2>4 DEF OnBoard
  <2> QED BY <2>1, <2>2, <2>3, <2>5
<1>3. Once'
  <2> SUFFICES ASSUME NEW x \in MessageType
               PROVE  /\ InMail(x)' => ~Queued(x)' /\ ~OnBoard(x)'
                      /\ Queued(x)' => ~OnBoard(x)'
                      /\ Received(x)' => ~InMail(x)' /\ ~Queued(x)' /\ ~OnBoard(x)'
                      /\ InMail(x)' \/ Queued(x)' \/ OnBoard(x)' \/ Received(x)' => x.n <= sent'[x.sg]
    BY DEF Once
  <2> QED BY <1>2 DEF Once
<1>4. ASSUME NEW t \in Timelines PROVE Whole(t)' = Whole(t)
  <2>1. Local' = Local
    BY <1>2 DEF Local
  <2> QED BY <1>0, <2>1 DEF Whole, Dest
<1> QED BY <1>3, <1>4

\* The messages of A reach the event lists of their timelines.
LEMMA Arrive ==
  ASSUME TypeOK, Once, sent' = sent, NEW A \in SUBSET MessageType,
         \A x \in A : Local' \cap {x} = {},
         \A x \in MessageType :
           /\ InMail(x)' <=> InMail(x) /\ x \notin A
           /\ Queued(x)' <=> Queued(x) /\ x \notin A
           /\ OnBoard(x)' <=> OnBoard(x) /\ x \notin A
           /\ x \in A => InMail(x) \/ Queued(x) \/ OnBoard(x),
         \A t \in Timelines : evtlist'[t] = evtlist[t] \cup {x \in A : Dest(x) = t}
  PROVE  Once' /\ \A t \in Timelines : Whole(t)' = Whole(t)
<1>1. \A x \in MessageType : Received(x)' <=> Received(x) \/ x \in A
  <2>1. \A x \in MessageType : Dest(x) \in Timelines
    BY LocalEnds DEF MessageType, Dest
  <2> QED BY <2>1 DEF Received
<1>2. Once'
  <2> SUFFICES ASSUME NEW x \in MessageType
               PROVE  /\ InMail(x)' => ~Queued(x)' /\ ~OnBoard(x)'
                      /\ Queued(x)' => ~OnBoard(x)'
                      /\ Received(x)' => ~InMail(x)' /\ ~Queued(x)' /\ ~OnBoard(x)'
                      /\ InMail(x)' \/ Queued(x)' \/ OnBoard(x)' \/ Received(x)' => x.n <= sent'[x.sg]
    BY DEF Once
  <2> QED BY <1>1 DEF Once
<1>3. ASSUME NEW t \in Timelines PROVE Whole(t)' = Whole(t)
  <2>1. Local = Local' \cup A
    BY DEF Local
  <2>2. evtlist'[t] = evtlist[t] \cup {x \in A : Dest(x) = t}
    OBVIOUS
  <2>3. Whole(t)' = evtlist'[t] \cup {x \in Local' : Dest(x) = t}
    BY DEF Whole, Dest
  <2> QED BY <2>1, <2>2, <2>3 DEF Whole
<1> QED BY <1>2, <1>3

LEMMA CollectMoves ==
  ASSUME TypeOK, Routes, Once, NEW u \in Universes, Collect(u), sent' = sent
  PROVE  Once' /\ \A t \in Timelines : Whole(t)' = Whole(t)
<1> DEFINE A == switch_board[u]
<1>0. /\ switch_board \in [Universes -> SUBSET MessageType]
      /\ mailbox' = mailbox /\ local_binque' = local_binque
      /\ switch_board' = [switch_board EXCEPT ![u] = {}]
      /\ \A t \in Timelines : evtlist'[t] = evtlist[t] \cup {e \in A : Dest(e) = t}
  BY DEF TypeOK, MessageTypeOK, Collect, mailVars
<1>1. A \in SUBSET MessageType
  BY <1>0
<1>2. ASSUME NEW x \in MessageType
      PROVE  /\ InMail(x)' = InMail(x) /\ Queued(x)' = Queued(x)
             /\ OnBoard(x)' <=> OnBoard(x) /\ x \notin A
             /\ x \in A => OnBoard(x)
  <2>1. \A v \in Universes : x \in switch_board[v] => universe[Dest(x)] = v
    BY DEF Routes, QueueRoutes
  <2>2. \A v \in Universes : x \in switch_board'[v] <=> x \in switch_board[v] /\ v # u
    BY <1>0
  <2> QED BY <1>0, <2>1, <2>2 DEF InMail, Queued, OnBoard
<1> HIDE DEF A
<1>3. \A x \in A : x \in MessageType /\ ~InMail(x) /\ ~Queued(x)
  BY <1>1, <1>2 DEF Once
<1>4. \A x \in MessageType : /\ InMail(x)' <=> InMail(x) /\ x \notin A
                             /\ Queued(x)' <=> Queued(x) /\ x \notin A
                             /\ OnBoard(x)' <=> OnBoard(x) /\ x \notin A
                             /\ x \in A => InMail(x) \/ Queued(x) \/ OnBoard(x)
  BY <1>2, <1>3
<1>5. \A x \in A : Local' \cap {x} = {}
  BY <1>4 DEF Local
<1> QED BY <1>0, <1>1, <1>4, <1>5, Arrive

\* The messages in some of the mailboxes reach the event lists.
LEMMA MailMoves ==
  ASSUME TypeOK, Routes, Once, sent' = sent, NEW S \in SUBSET Stargates,
         \A s \in Stargates : mailbox'[s] = IF s \in S THEN {} ELSE mailbox[s],
         \A t \in Timelines :
           evtlist'[t] = evtlist[t] \cup UNION {mailbox[s] : s \in {r \in S : target[r] = t}},
         UNCHANGED <<local_binque, switch_board>>
  PROVE  Once' /\ \A t \in Timelines : Whole(t)' = Whole(t)
<1> DEFINE A == UNION {mailbox[s] : s \in S}
<1>0. mailbox \in [Stargates -> SUBSET MessageType]
  BY DEF TypeOK, MessageTypeOK
<1>1. A \in SUBSET MessageType
  BY <1>0
<1>2. \A s \in Stargates : \A e \in mailbox[s] : e.sg = s
  BY DEF Routes, MailRoutes
<1>3. ASSUME NEW x \in MessageType
      PROVE  /\ Queued(x)' = Queued(x) /\ OnBoard(x)' = OnBoard(x)
             /\ InMail(x)' <=> InMail(x) /\ x \notin A
             /\ x \in A => InMail(x)
  BY <1>2 DEF InMail, Queued, OnBoard
<1>4. ASSUME NEW t \in Timelines PROVE evtlist'[t] = evtlist[t] \cup {x \in A : Dest(x) = t}
  <2>1. UNION {mailbox[s] : s \in {r \in S : target[r] = t}} = {x \in A : Dest(x) = t}
    BY <1>2 DEF Dest
  <2> QED BY <2>1
<1> HIDE DEF A
<1>5. \A x \in A : x \in MessageType /\ ~OnBoard(x) /\ ~Queued(x)
  BY <1>1, <1>3 DEF Once
<1>6. \A x \in MessageType : /\ InMail(x)' <=> InMail(x) /\ x \notin A
                             /\ Queued(x)' <=> Queued(x) /\ x \notin A
                             /\ OnBoard(x)' <=> OnBoard(x) /\ x \notin A
                             /\ x \in A => InMail(x) \/ Queued(x) \/ OnBoard(x)
  BY <1>3, <1>5
<1>7. \A x \in A : Local' \cap {x} = {}
  BY <1>6 DEF Local
<1> QED BY <1>1, <1>4, <1>6, <1>7, Arrive

LEMMA ReceiveMoves ==
  ASSUME TypeOK, Routes, Once, NEW u \in Universes, ReceiveMessages(u), sent' = sent
  PROVE  Once' /\ \A t \in Timelines : Whole(t)' = Whole(t)
<1> DEFINE s == scan[u].hold
<1>1. s \in Stargates
  BY MessagesReceived
<1>2. /\ evtlist' = [evtlist EXCEPT ![target[s]] = @ \cup mailbox[s]]
      /\ mailbox' = [mailbox EXCEPT ![s] = {}]
      /\ UNCHANGED <<local_binque, switch_board>>
      /\ evtlist \in [Timelines -> SUBSET EventType] /\ mailbox \in [Stargates -> SUBSET MessageType]
  BY DEF ReceiveMessages, binVars, TypeOK, TimelineTypeOK, MessageTypeOK
<1> HIDE DEF s
<1>3. {s} \in SUBSET Stargates
  BY <1>1
<1>4. \A r \in Stargates : mailbox'[r] = IF r \in {s} THEN {} ELSE mailbox[r]
  BY <1>2
<1>5. ASSUME NEW t \in Timelines
      PROVE  evtlist'[t] = evtlist[t] \cup UNION {mailbox[q] : q \in {r \in {s} : target[r] = t}}
  BY <1>1, <1>2
<1> QED BY <1>2, <1>3, <1>4, <1>5, MailMoves

LEMMA TrainedMoves ==
  ASSUME TypeOK, Routes, Once, NEW m \in Machines, Trained(m), sent' = sent
  PROVE  Once' /\ \A t \in Timelines : Whole(t)' = Whole(t)
<1>1. /\ \A s \in Stargates : mailbox'[s] = IF s \in Drained(m) THEN {} ELSE mailbox[s]
      /\ \A t \in Timelines :
           evtlist'[t] = evtlist[t] \cup
                         UNION {mailbox[s] : s \in {r \in Drained(m) : target[r] = t}}
      /\ UNCHANGED <<local_binque, switch_board>>
  BY DEF Trained, binVars
<1>2. Drained(m) \in SUBSET Stargates
  BY DEF Drained
<1> QED BY <1>1, <1>2, MailMoves

\* The variable of CausalTime that stands for all this, and for what is between
\* the machines.
AbsPending ==
  [t \in Timelines |->
     {e \in evtlist[t] \cup {x \in InFlight : Dest(x) = t} : e.t < endtime}]

LEMMA EventsTyped == EventType \subseteq [sg : Nat, n : Nat, t : Nat]
<1>1. Stargates \cup {0} \subseteq Nat
  BY TopologyAssumption
<1> QED BY <1>1 DEF EventType

LEMMA PendingType ==
  ASSUME TypeOK
  PROVE  AbsPending \in [Timelines -> SUBSET [sg : Nat, n : Nat, t : Nat]]
<1>1. InFlight \subseteq [sg : Nat, n : Nat, t : Nat]
  BY InFlightType, TopologyAssumption DEF MessageType
<1>2. \A t \in Timelines : evtlist[t] \subseteq [sg : Nat, n : Nat, t : Nat]
  <2>1. EventType \subseteq [sg : Nat, n : Nat, t : Nat]
    BY EventsTyped
  <2>2. evtlist \in [Timelines -> SUBSET EventType]
    BY DEF TypeOK, TimelineTypeOK
  <2> QED BY <2>1, <2>2
<1> QED BY <1>1, <1>2 DEF AbsPending

-----------------------------------------------------------------------------
(***************************************************************************)
(* No wake-up is lost.  Nothing here depends on whether the messages are   *)
(* on time, so it holds between machines as well as inside one.            *)
(***************************************************************************)

\* A null message of stargate s is in the mail of its target's universe.
Mailed(s) ==
  LET v == universe[target[s]] IN
  \E e \in Range(umailbox[v]) \cup Range(ctx[v].io) : e.sg = s /\ IsNull(e)
\* Stargate s still holds its target back at b, or its target will hear that it
\* does not do so any more.
WillHear(s, b) ==
  InGate(s).time <= b \/ (~Remote(s) /\ (NotificationDue(s) \/ Mailed(s)))
HasMail(u) ==
  pc[u] \in {"io", "drain io"} \/ ScanFor(u, "io") \/ ScanFor(u, "drain io")

\* A timeline that waits inside a window, and a bound that is being computed,
\* is held by a stargate that has been read already.
WakeupOK(u) ==
  /\ ~HasMail(u) => ctx[u].io = <<>>
  /\ \A t \in Blocked(u) :
       \/ pc[u] = "scan" /\ scan[u].tl = t
       \/ lbts[t] < next_window(u) => \E s \in InboundAsync(t) : WillHear(s, lbts[t])
  /\ pc[u] = "scan" /\ scan[u].low < next_window(u) =>
       \E s \in InboundAsync(scan[u].tl) \ scan[u].todo : WillHear(s, scan[u].low)
Wakeups == \A u \in Universes : WakeupOK(u)

LEMMA WakeupsSuffice == TypeOK /\ Wakeups => NoLostWakeup
<1> SUFFICES ASSUME TypeOK, Wakeups, NEW u \in Universes, Asleep(u),
                    NEW t \in Blocked(u), lbts[t] < Bound(t)
             PROVE  \E s \in InboundAsync(t) : NotificationDue(s)
  BY DEF NoLostWakeup
<1>1. t \in Timelines /\ universe[t] = u
  BY DEF Blocked, TimelinesOf
<1>2. /\ lbts[t] \in Nat /\ next_window(u) \in Nat
      /\ \A s \in InboundAsync(t) : s \in Stargates /\ target[s] = t /\ InGate(s).time \in Nat
  BY <1>1, SchedulingFacts DEF InboundAsync
<1> DEFINE T == {InGate(s).time : s \in InboundAsync(t)}
<1>3. Least(T) \in Nat /\ \A x \in T : Least(T) <= x
  <2>1. T \subseteq Nat
    BY <1>2
  <2> HIDE DEF T
  <2>2. CASE \E x \in T : TRUE
    BY <2>1, <2>2, LeastBound
  <2>3. CASE ~\E x \in T : TRUE
    BY <2>3, ParameterAssumption DEF Least, IsFirst
  <2> QED BY <2>2, <2>3
<1>4. lbts[t] < next_window(u) /\ \A s \in InboundAsync(t) : ~(InGate(s).time <= lbts[t])
  <2>1. lbts[t] < next_window(u) /\ lbts[t] < Least(T)
    <3>1. lbts[t] < Lesser(next_window(u), Least(T))
      BY <1>1 DEF Bound
    <3> HIDE DEF T
    <3> QED BY <1>2, <1>3, <3>1 DEF Lesser
  <2>2. \A s \in InboundAsync(t) : Least(T) <= InGate(s).time
    BY <1>3
  <2> HIDE DEF T
  <2> QED BY <1>2, <1>3, <2>1, <2>2
<1>5. pc[u] = "sched" /\ umailbox[u] = <<>> /\ ctx[u].io = <<>>
  BY DEF Asleep, Wakeups, WakeupOK, HasMail, ScanFor
<1>6. PICK s \in InboundAsync(t) : WillHear(s, lbts[t])
  BY <1>4, <1>5 DEF Wakeups, WakeupOK
<1>7. ~Mailed(s)
  BY <1>1, <1>2, <1>5, EmptyRange DEF Mailed
<1> QED BY <1>4, <1>6, <1>7 DEF WillHear

\* A notification that is due will be in the mail.
LEMMA NotifyMails ==
  ASSUME TypeOK, NEW v \in Universes, Notify(v)
  PROVE  \E s \in Stargates :
           /\ IsFirst(s, ctx[v].out)
           /\ Range(umailbox'[universe[target[s]]]) =
                Range(umailbox[universe[target[s]]]) \cup {Message(s, 0, gate[s].time)}
           /\ \A w \in Universes : Range(umailbox[w]) \subseteq Range(umailbox'[w])
           /\ \A w \in Universes : ctx'[w].io = ctx[w].io
<1>0. /\ ctx \in [Universes -> ContextType] /\ umailbox \in [Universes -> Seq(MessageType)]
  BY DEF TypeOK, ThreadTypeOK, MessageTypeOK
<1>1. PICK s \in ctx[v].out :
        /\ IsFirst(s, ctx[v].out)
        /\ umailbox' = [umailbox EXCEPT ![universe[target[s]]] =
                          Append(@, Message(s, 0, gate[s].time))]
        /\ ctx' = [ctx EXCEPT ![v].out = @ \ {s}]
  BY DEF Notify
<1>2. s \in Stargates /\ universe[target[s]] \in Universes /\ gate[s].time \in Nat
  BY <1>0, TopologyAssumption, SchedulingFacts DEF ContextType
<1> DEFINE x == Message(s, 0, gate[s].time)
<1>3. x \in MessageType
  BY <1>2, MessageIntro
<1>4. umailbox' = [umailbox EXCEPT ![universe[target[s]]] = Append(@, x)]
  BY <1>1
<1> HIDE DEF x
<1>5. \A q \in Seq(MessageType) : Range(Append(q, x)) = Range(q) \cup {x}
  <2> SUFFICES ASSUME NEW q \in Seq(MessageType) PROVE Range(Append(q, x)) = Range(q) \cup {x}
    OBVIOUS
  <2>1. /\ DOMAIN Append(q, x) = 1 .. Len(q) + 1 /\ DOMAIN q = 1 .. Len(q) /\ Len(q) \in Nat
        /\ Append(q, x)[Len(q) + 1] = x
        /\ \A i \in 1 .. Len(q) : Append(q, x)[i] = q[i]
    BY <1>3
  <2> QED BY <2>1 DEF Range
<1>6. umailbox'[universe[target[s]]] = Append(umailbox[universe[target[s]]], x)
  BY <1>0, <1>2, <1>4
<1>7. \A w \in Universes : umailbox'[w] = umailbox[w] \/ umailbox'[w] = Append(umailbox[w], x)
  BY <1>0, <1>4
<1>8. \A w \in Universes : ctx'[w].io = ctx[w].io
  BY <1>0, <1>1 DEF ContextType
<1>9. Range(umailbox'[universe[target[s]]]) = Range(umailbox[universe[target[s]]]) \cup {x}
  BY <1>0, <1>2, <1>5, <1>6
<1>10. \A w \in Universes : Range(umailbox[w]) \subseteq Range(umailbox'[w])
  BY <1>0, <1>5, <1>7
<1> QED BY <1>1, <1>2, <1>8, <1>9, <1>10 DEF x

\* What a step of another thread does to what u waits for.
Patient(u) ==
  \A s \in Stargates : target[s] \in TimelinesOf(u) =>
    /\ s \in inbound_async' <=> s \in inbound_async
    /\ InGate(s)'.time = InGate(s).time \/ (~Remote(s) /\ NotificationDue(s)')
    /\ NotificationDue(s) => NotificationDue(s)' \/ Mailed(s)'
    /\ Mailed(s) => Mailed(s)'

LEMMA PatientKeeps ==
  ASSUME NEW u \in Universes, Patient(u), NEW s \in Stargates, target[s] \in TimelinesOf(u), NEW b,
         WillHear(s, b)
  PROVE  WillHear(s, b)'
BY DEF Patient, WillHear, Remote, SourceMachine, TargetMachine

\* Timelines change their state at the end of a computation or of a run.
LEMMA StatesStay ==
  ASSUME NEW u \in Universes, Thread(u), ~EndScan(u), ~RunEnd(u)
  PROVE  state' = state
<1> USE DEF tmlnVars
<1>1. CASE Dispatch(u) \/ Collect(u) \/ SendEpoch(u) \/ Await(u)
  BY <1>1 DEF Dispatch, Collect, SendEpoch, Await
<1>2. CASE TrainLocal(u) \/ TrainGlobal(u) \/ OpenTimeline(u) \/ Opened(u) \/ Pick(u)
  BY <1>2 DEF TrainLocal, TrainGlobal, OpenTimeline, Opened, Pick
<1>3. CASE ReadTime(u) \/ ReceiveMessages(u)
  BY <1>3 DEF ReadTime, ReceiveMessages
<1>4. CASE RunEvent(u) \/ Notify(u) \/ Interrupted(u) \/ UpdateTime(u)
  BY <1>4 DEF RunEvent, Notify, Interrupted, UpdateTime, SetTime
<1>5. CASE PollMail(u) \/ WaitMail(u) \/ DrainMail(u) \/ HandleMail(u) \/ EndMail(u)
  BY <1>5 DEF PollMail, WaitMail, DrainMail, TakeMail, HandleMail, EndMail
<1>6. CASE AdvanceWindow(u)
  BY <1>6 DEF AdvanceWindow
<1> QED BY <1>1, <1>2, <1>3, <1>4, <1>5, <1>6 DEF Thread

\* What a step of u's thread leaves alone of the other threads.
LEMMA ThreadAlone ==
  ASSUME TypeOK, Meeting, NEW u \in Universes, Thread(u)
  PROVE  \A v \in Universes \ {u} :
           /\ scan'[v] = scan[v] /\ ctx'[v] = ctx[v]
           /\ next_window(v)' = next_window(v)
           /\ Range(umailbox[v]) \subseteq Range(umailbox'[v])
<1>0. /\ ctx \in [Universes -> ContextType] /\ scan \in [Universes -> ScanType]
      /\ umailbox \in [Universes -> Seq(MessageType)]
      /\ next_decade \in [Universes -> Nat] /\ next_epoch \in [Universes -> Nat]
  BY DEF TypeOK, ThreadTypeOK, MessageTypeOK, WindowTypeOK
<1>1. \A v \in Universes \ {u} : next_window(v)' = next_window(v)
  <2>1. CASE UNCHANGED windowVars
    BY <2>1 DEF windowVars, next_window
  <2>2. CASE AdvanceWindow(u)
    <3>1. \A v \in Universes \ {u} : next_decade'[v] = next_decade[v] /\ next_epoch'[v] = next_epoch[v]
      BY <1>0, <2>2 DEF AdvanceWindow
    <3> QED BY <3>1 DEF next_window
  <2> QED BY <2>1, <2>2, ThreadFrame
<1>2. \A v \in Universes \ {u} : Range(umailbox[v]) \subseteq Range(umailbox'[v])
  <2>1. CASE Notify(u)
    BY <2>1, NotifyMails
  <2>2. CASE PollMail(u) \/ WaitMail(u) \/ DrainMail(u)
    BY <1>0, <2>2 DEF PollMail, WaitMail, DrainMail, TakeMail
  <2> QED BY <2>1, <2>2, ThreadFrame
<1>3. \A t, r : BeginScan(u, t, r) => \A v \in Universes \ {u} : scan'[v] = scan[v]
  BY ScanStarted
<1>4. \A v \in Universes \ {u} : scan'[v] = scan[v]
  <2>1. CASE Dispatch(u) \/ Collect(u) \/ SendEpoch(u) \/ Await(u) \/ TrainLocal(u) \/ TrainGlobal(u)
    BY <2>1 DEF Dispatch, Collect, SendEpoch, Await, TrainLocal, TrainGlobal
  <2>2. CASE OpenTimeline(u) \/ Opened(u) \/ Pick(u)
    BY <1>3, <2>2 DEF OpenTimeline, Opened, Pick
  <2>3. CASE ReadTime(u) \/ ReceiveMessages(u) \/ EndScan(u)
    BY <1>0, <2>3 DEF ReadTime, ReceiveMessages, EndScan
  <2>4. CASE RunEvent(u) \/ RunEnd(u) \/ Notify(u) \/ Interrupted(u) \/ AdvanceWindow(u)
    BY <2>4 DEF RunEvent, RunEnd, Notify, Interrupted, AdvanceWindow, threadVars
  <2>5. CASE UpdateTime(u)
    BY <1>3, <2>5 DEF UpdateTime, SetTime
  <2>6. CASE PollMail(u) \/ WaitMail(u) \/ DrainMail(u)
    BY <2>6 DEF PollMail, WaitMail, DrainMail, TakeMail
  <2>7. CASE HandleMail(u)
    BY <1>3, <2>7, NullHandled
  <2>8. CASE EndMail(u)
    BY <1>3, <2>8 DEF EndMail, AfterMail
  <2> QED BY <2>1, <2>2, <2>3, <2>4, <2>5, <2>6, <2>7, <2>8 DEF Thread
<1>5. \A v \in Universes \ {u} : ctx'[v] = ctx[v]
  <2>1. CASE Dispatch(u) \/ Collect(u) \/ SendEpoch(u) \/ Await(u) \/ TrainLocal(u) \/ TrainGlobal(u)
    BY <2>1 DEF Dispatch, Collect, SendEpoch, Await, TrainLocal, TrainGlobal
  <2>2. CASE OpenTimeline(u) \/ Opened(u) \/ Pick(u)
    BY <1>0, <2>2 DEF OpenTimeline, Opened, Pick
  <2>3. CASE ReadTime(u) \/ ReceiveMessages(u) \/ EndScan(u)
    <3>1. ctx' = ctx \/ \E c : ctx' = [ctx EXCEPT ![u] = c]
      BY <2>3 DEF ReadTime, ReceiveMessages, EndScan
    <3> QED BY <1>0, <3>1
  <2>4. CASE RunEvent(u) \/ RunEnd(u) \/ Notify(u) \/ Interrupted(u) \/ AdvanceWindow(u)
    BY <1>0, <2>4 DEF RunEvent, RunEnd, Notify, Interrupted, AdvanceWindow, threadVars
  <2>5. CASE UpdateTime(u)
    <3>1. ctx' = ctx \/ \E s : ctx' = [ctx EXCEPT ![u].out = @ \ {s}]
      BY <2>5 DEF UpdateTime, SetTime
    <3> QED BY <1>0, <3>1
  <2>6. CASE PollMail(u) \/ WaitMail(u) \/ DrainMail(u)
    BY <1>0, <2>6 DEF PollMail, WaitMail, DrainMail, TakeMail
  <2>7. CASE HandleMail(u)
    BY <2>7, NullHandled
  <2>8. CASE EndMail(u)
    BY <2>8 DEF EndMail
  <2> QED BY <2>1, <2>2, <2>3, <2>4, <2>5, <2>6, <2>7, <2>8 DEF Thread
<1> QED BY <1>1, <1>2, <1>4, <1>5

\* ... and of their timelines.
LEMMA TimelinesAlone ==
  ASSUME TypeOK, Scheduling, NEW u \in Universes, Thread(u), NEW t \in Timelines, universe[t] # u
  PROVE  state'[t] = state[t] /\ lbts'[t] = lbts[t]
<1>0. /\ state \in [Timelines -> {"START", "RUNNING", "WAITING", "ROUND", "DONE"}]
      /\ lbts \in [Timelines -> Nat]
  BY DEF TypeOK, TimelineTypeOK
<1>1. CASE EndScan(u)
  <2>1. scan[u].tl # t
    BY <1>1, BoundKnown
  <2>2. lbts'[t] = lbts[t]
    BY <1>0, <1>1, <2>1 DEF EndScan
  <2>3. state' = state \/ \E x : state' = [state EXCEPT ![scan[u].tl] = x]
    BY <1>1 DEF EndScan, MakeRunnable
  <2> QED BY <1>0, <2>1, <2>2, <2>3
<1>2. CASE RunEnd(u)
  <2>1. ctx[u].cur \in TimelinesOf(u) \cup {NoTimeline} /\ NoTimeline \notin Timelines
    BY ThreadFacts, TopologyAssumption DEF Owned, NoTimeline
  <2>2. ctx[u].cur # t
    BY <2>1 DEF TimelinesOf
  <2>3. state' = state \/ \E x : state' = [state EXCEPT ![ctx[u].cur] = x]
    BY <1>2 DEF RunEnd, MakeRunnable
  <2>4. lbts' = lbts
    BY <1>2 DEF RunEnd
  <2> QED BY <1>0, <2>2, <2>3, <2>4
<1>3. CASE ~EndScan(u) /\ ~RunEnd(u)
  <2>1. lbts' = lbts
    BY <1>3, ThreadFrame
  <2>2. state' = state
    BY <1>3, StatesStay
  <2> QED BY <2>1, <2>2
<1> QED BY <1>1, <1>2, <1>3

\* A thread in the middle of set_time does nothing else before it has notified.
LEMMA ThreadNotifies ==
  ASSUME NEW u \in Universes, Thread(u)
  PROVE  /\ pc[u] = "notify" => Notify(u)
<1>1. CASE Dispatch(u) \/ Collect(u) \/ SendEpoch(u) \/ Await(u)
  BY <1>1 DEF Dispatch, Collect, SendEpoch, Await
<1>2. CASE TrainLocal(u) \/ TrainGlobal(u) \/ OpenTimeline(u) \/ Opened(u) \/ Pick(u)
  BY <1>2 DEF TrainLocal, TrainGlobal, OpenTimeline, Opened, Pick
<1>3. CASE ReadTime(u) \/ ReceiveMessages(u) \/ EndScan(u)
  BY <1>3 DEF ReadTime, ReceiveMessages, EndScan
<1>4. CASE RunEvent(u) \/ RunEnd(u) \/ Notify(u) \/ Interrupted(u) \/ UpdateTime(u)
  BY <1>4 DEF RunEvent, RunEnd, Interrupted, UpdateTime
<1>5. CASE PollMail(u) \/ WaitMail(u) \/ DrainMail(u) \/ HandleMail(u) \/ EndMail(u)
  BY <1>5 DEF PollMail, WaitMail, DrainMail, HandleMail, EndMail
<1>6. CASE AdvanceWindow(u)
  BY <1>6 DEF AdvanceWindow
<1> QED BY <1>1, <1>2, <1>3, <1>4, <1>5, <1>6 DEF Thread

\* A notification that is due is still due after any step, or in the mail.
LEMMA DueOn ==
  ASSUME TypeOK, Meeting, [Next]_vars, NEW s \in Stargates, NotificationDue(s)
  PROVE  NotificationDue(s)' \/ Mailed(s)'
<1> DEFINE w == universe[source[s]]
<1>0. /\ w \in Universes /\ pc[w] = "notify" /\ IsFirst(s, ctx[w].out)
      /\ machine[w] \in Machines /\ pc \in [Universes -> Labels]
      /\ ctx \in [Universes -> ContextType]
  BY TopologyAssumption DEF NotificationDue, TypeOK, ThreadTypeOK
<1>1. ASSUME pc'[w] = pc[w], ctx'[w].out = ctx[w].out
      PROVE  NotificationDue(s)'
  BY <1>0, <1>1 DEF NotificationDue
<1>2. ASSUME Thread(w) PROVE Mailed(s)'
  <2>1. Notify(w)
    BY <1>0, <1>2, ThreadNotifies
  <2>2. PICK r \in Stargates :
           /\ IsFirst(r, ctx[w].out)
           /\ Message(r, 0, gate[r].time) \in Range(umailbox'[universe[target[r]]])
    BY <1>0, <2>1, NotifyMails
  <2>3. r = s
    <3>1. r \in Nat /\ s \in Nat /\ r <= s /\ s <= r
      BY <1>0, <2>2, TopologyAssumption DEF IsFirst
    <3> QED BY <3>1
  <2> QED BY <2>2, <2>3 DEF Mailed, Message, IsNull
<1>3. ASSUME NEW u \in Universes, Thread(u), u # w PROVE NotificationDue(s)'
  BY <1>0, <1>1, <1>3, OthersStay, ThreadAlone
<1>4. ASSUME NEW m \in Machines, Barrier(m) PROVE NotificationDue(s)'
  <2>1. ctx' = ctx
    BY <1>4 DEF Barrier, Meet
  <2>2. pc'[w] = pc[w]
    BY <1>0, <1>4 DEF Barrier, Meet, UniversesOf
  <2> QED BY <1>1, <2>1, <2>2
<1>5. ASSUME NEW m \in Machines, Trained(m) PROVE NotificationDue(s)'
  <2>1. machine[w] # m
    BY <1>0, <1>5 DEF Trained, UniversesOf
  <2>2. pc'[w] = pc[w] /\ ctx'[w] = ctx[w]
    BY <1>0, <1>5, <2>1 DEF Trained
  <2> QED BY <1>1, <2>2
<1>6. CASE Collective
  <2>1. ctx' = ctx
    BY <1>6 DEF Collective, Reduce, MpiBarrier, FinishGlobal, threadVars
  <2>2. pc'[w] = pc[w]
    <3>1. CASE Reduce
      BY <1>0, <3>1 DEF Reduce
    <3>2. CASE MpiBarrier
      BY <1>0, <3>2 DEF MpiBarrier
    <3>3. CASE FinishGlobal
      BY <1>0, <3>3 DEF FinishGlobal
    <3> QED BY <1>6, <3>1, <3>2, <3>3 DEF Collective
  <2> QED BY <1>1, <2>1, <2>2
<1>7. ASSUME \/ \E m \in Machines : Writer(m)
             \/ \E n, m \in Machines : Reader(n, m)
             \/ UNCHANGED vars
      PROVE  NotificationDue(s)'
  <2>1. UNCHANGED <<pc, ctx>>
    BY <1>7 DEF Writer, Reader, vars, threadVars
  <2> QED BY <1>1, <2>1
<1> QED BY <1>2, <1>3, <1>4, <1>5, <1>6, <1>7 DEF Next, Finished
\* The steps that set a channel time.
LEMMA GatesStay ==
  ASSUME NEW u \in Universes, Thread(u),
         ~UpdateTime(u), ~HandleMail(u), ~TrainLocal(u), ~TrainGlobal(u)
  PROVE  UNCHANGED gateVars
<1> USE DEF gateVars
<1>1. CASE Dispatch(u) \/ Collect(u) \/ SendEpoch(u) \/ Await(u)
  BY <1>1 DEF Dispatch, Collect, SendEpoch, Await
<1>2. CASE OpenTimeline(u) \/ Opened(u) \/ Pick(u)
  BY <1>2 DEF OpenTimeline, Opened, Pick
<1>3. CASE ReadTime(u) \/ ReceiveMessages(u) \/ EndScan(u)
  BY <1>3 DEF ReadTime, ReceiveMessages, EndScan
<1>4. CASE RunEvent(u) \/ RunEnd(u) \/ Notify(u) \/ Interrupted(u)
  BY <1>4 DEF RunEvent, RunEnd, Notify, Interrupted
<1>5. CASE PollMail(u) \/ WaitMail(u) \/ DrainMail(u) \/ EndMail(u)
  BY <1>5 DEF PollMail, WaitMail, DrainMail, TakeMail, EndMail
<1>6. CASE AdvanceWindow(u)
  BY <1>6 DEF AdvanceWindow
<1> QED BY <1>1, <1>2, <1>3, <1>4, <1>5, <1>6 DEF Thread

\* The step of one thread, seen from the universe of another one.
LEMMA ThreadPatient ==
  ASSUME TypeOK, Meeting, Scheduling, [Next]_vars, NEW u \in Universes, Thread(u),
         NEW v \in Universes \ {u}, InWindow(v)
  PROVE  Patient(v)
<1> SUFFICES ASSUME NEW s \in Stargates, target[s] \in TimelinesOf(v)
             PROVE  /\ s \in inbound_async' <=> s \in inbound_async
                    /\ InGate(s)'.time = InGate(s).time \/ (~Remote(s) /\ NotificationDue(s)')
                    /\ NotificationDue(s) => NotificationDue(s)' \/ Mailed(s)'
                    /\ Mailed(s) => Mailed(s)'
  BY DEF Patient
<1>0. /\ universe[target[s]] = v /\ TargetMachine(s) = machine[v]
      /\ universe[source[s]] \in Universes /\ source[s] \in Timelines
  BY LocalEnds DEF TimelinesOf
<1>1. inbound_async' = inbound_async
  <2>1. CASE AdvanceWindow(u)
    BY <2>1 DEF AdvanceWindow
  <2> QED BY <2>1, ThreadFrame DEF windowVars
<1>2. Mailed(s) => Mailed(s)'
  BY <1>0, ThreadAlone DEF Mailed
<1>3. InGate(s)'.time = InGate(s).time \/ (~Remote(s) /\ NotificationDue(s)')
  <2>1. ASSUME gate'[s] = gate[s], rgate'[s] = rgate[s]
        PROVE  InGate(s)'.time = InGate(s).time
    BY <2>1 DEF InGate, Remote, SourceMachine, TargetMachine
  <2>2. CASE UpdateTime(u)
    <3>1. PICK t \in TimelinesOf(u), r \in ctx[u].out :
            /\ IsFirst(r, ctx[u].out) /\ SetTime(u, r)
            /\ t = ctx[u].cur /\ source[r] = t /\ pc[u] = "update"
            /\ universe[t] = u /\ r \in Stargates
      <4>1. PICK t \in TimelinesOf(u), r \in ctx[u].out :
              t = ctx[u].cur /\ source[r] = t /\ pc[u] = "update" /\ universe[t] = u
        BY <2>2, TimeSet
      <4>2. PICK q \in ctx[u].out : IsFirst(q, ctx[u].out) /\ SetTime(u, q)
        BY <2>2 DEF UpdateTime
      <4>3. source[q] = ctx[u].cur /\ q \in Stargates
        BY <4>1, SchedulingFacts, ThreadFacts DEF Control
      <4> QED BY <4>1, <4>2, <4>3
    <3>2. rgate' = rgate
      BY <3>1 DEF SetTime
    <3>3. CASE gate'[s] = gate[s]
      BY <2>1, <3>2, <3>3
    <3>4. CASE gate'[s] # gate[s]
      <4>0. gate \in [Stargates -> GateType] /\ pc \in [Universes -> Labels]
        BY DEF TypeOK, TimelineTypeOK, ThreadTypeOK
      <4>1. r = s /\ ~(gate[s].time >= endtime)
        BY <3>1, <3>4, <4>0 DEF SetTime, GateType
      <4>2. CASE Remote(s)
        BY <3>2, <4>2 DEF InGate, Remote, SourceMachine, TargetMachine
      <4>3. CASE ~Remote(s)
        <5>1. ~SameUniverse(s)
          BY <1>0, <3>1, <4>1 DEF SameUniverse
        <5>2. pc' = [pc EXCEPT ![u] = "notify"] /\ ctx' = ctx
          BY <3>1, <4>1, <4>3, <5>1 DEF SetTime, Goto
        <5>3. universe[source[s]] = u
          BY <3>1, <4>1
        <5> QED BY <3>1, <4>0, <4>1, <4>3, <5>2, <5>3 DEF NotificationDue
      <4> QED BY <4>2, <4>3
    <3> QED BY <3>3, <3>4
  <2>3. CASE HandleMail(u)
    <3>1. gate' = gate /\ Head(ctx[u].io) \in Range(ctx[u].io)
      BY <2>3, NullHandled
    <3>2. Head(ctx[u].io).sg # s
      BY <1>0, <3>1, ThreadFacts DEF Owned, Dest
    <3>3. rgate' = rgate \/ \E x : rgate' = [rgate EXCEPT ![Head(ctx[u].io).sg].time = x]
      BY <2>3 DEF HandleMail, HandleNull
    <3>4. rgate \in [Stargates -> GateType]
      BY DEF TypeOK, TimelineTypeOK
    <3>5. rgate'[s] = rgate[s]
      BY <3>2, <3>3, <3>4
    <3> QED BY <2>1, <3>1, <3>5
  <2>4. CASE TrainLocal(u)
    <3>1. AtEdge(u)
      BY <2>4, LocallyTrained DEF AtEdge, WindowLabels
    <3>2. machine[v] # machine[u]
      BY <3>1, EdgeOfMachine
    <3>3. Remote(s) \/ SourceMachine(s) # machine[u]
      BY <1>0, <3>2 DEF Remote
    <3>4. gate'[s] = gate[s]
      <4>1. \A r \in Stargates : Remote(r) \/ SourceMachine(r) # machine[u] => gate'[r] = gate[r]
        BY <2>4, LocallyTrained
      <4> QED BY <3>3, <4>1
    <3>5. rgate' = rgate
      BY <2>4 DEF TrainLocal
    <3> QED BY <2>1, <3>4, <3>5
  <2>5. CASE TrainGlobal(u)
    <3>1. AtEdge(u)
      BY <2>5 DEF AtEdge, WindowLabels, TrainGlobal
    <3>2. machine[v] # machine[u]
      BY <3>1, EdgeOfMachine
    <3>3. PICK th, now : ClassifyGlobal({machine[u]}, th, now)
      BY <2>5 DEF TrainGlobal
    <3>4. CASE ~Remote(s)
      BY <2>1, <3>3, <3>4, RemoteClassified
    <3>5. CASE Remote(s)
      <4>1. rgate'[s] = rgate[s]
        BY <1>0, <3>2, <3>3, <3>5 DEF ClassifyGlobal, Classify
      <4> QED BY <3>5, <4>1 DEF InGate, Remote, SourceMachine, TargetMachine
    <3> QED BY <3>4, <3>5
  <2>6. CASE ~UpdateTime(u) /\ ~HandleMail(u) /\ ~TrainLocal(u) /\ ~TrainGlobal(u)
    <3>1. UNCHANGED gateVars
      BY <2>6, GatesStay
    <3> QED BY <2>1, <3>1 DEF gateVars
  <2> QED BY <2>2, <2>3, <2>4, <2>5, <2>6
<1> QED BY <1>1, <1>2, <1>3, DueOn

\* The reader adds to a mailbox and takes nothing out of it.
LEMMA ReaderAppends ==
  ASSUME TypeOK, NEW n \in Machines, NEW m \in Machines, Reader(n, m), NEW v \in Universes
  PROVE  Range(umailbox[v]) \subseteq Range(umailbox'[v])
<1>0. umailbox \in [Universes -> Seq(MessageType)] /\ net \in [Machines \X Machines -> Seq(BatchType)]
  BY DEF TypeOK, MessageTypeOK
<1>1. PICK e \in Receivable(Head(net[<<n, m>>])) :
        umailbox' = umailbox \/ umailbox' = [umailbox EXCEPT ![universe[target[e.sg]]] = Append(@, e)]
  BY DEF Reader
<1>2. \A q \in Seq(MessageType) : Range(q) \subseteq Range(Append(q, e))
  <2> SUFFICES ASSUME NEW q \in Seq(MessageType), NEW i \in DOMAIN q
               PROVE  i \in DOMAIN Append(q, e) /\ Append(q, e)[i] = q[i]
    BY DEF Range
  <2> QED OBVIOUS
<1>3. umailbox'[v] = umailbox[v] \/ umailbox'[v] = Append(umailbox[v], e)
  BY <1>0, <1>1
<1> QED BY <1>0, <1>2, <1>3

\* The steps of the barriers, the collectives and the message threads.
LEMMA OutsidePatient ==
  ASSUME TypeOK, Meeting, Scheduling, [Next]_vars, NEW v \in Universes, InWindow(v),
         \/ \E m \in Machines : Barrier(m) \/ Trained(m) \/ Writer(m)
         \/ \E n, m \in Machines : Reader(n, m)
         \/ Collective \/ UNCHANGED vars
  PROVE  /\ Patient(v)
         /\ pc'[v] = pc[v] /\ scan'[v] = scan[v] /\ ctx'[v].io = ctx[v].io
         /\ next_window(v)' = next_window(v)
         /\ UNCHANGED <<state, lbts>>
<1>0. /\ pc \in [Universes -> Labels] /\ v = v /\ machine[v] \in Machines
      /\ pc[v] \in WindowLabels
  BY TopologyAssumption DEF TypeOK, ThreadTypeOK, InWindow
<1>1. UNCHANGED <<lbts, scan, umailbox>> \/ \E n, m \in Machines : Reader(n, m)
  BY OtherFrame
<1>2. UNCHANGED <<lbts, scan>>
  BY OtherFrame
<1>3. Range(umailbox[v]) \subseteq Range(umailbox'[v])
  BY <1>1, ReaderAppends
<1>4. UNCHANGED gateVars
  <2>1. CASE FinishGlobal
    <3>1. TrainsGlobally(machine[v])
      BY <1>0, <2>1 DEF FinishGlobal, TrainsGlobally
    <3> QED BY <1>0, <3>1, AtGlobalTraining
  <2> QED BY <2>1, OtherFrame
<1>5. ASSUME NEW m \in Machines, Trained(m)
      PROVE  /\ machine[v] # m
             /\ pc'[v] = pc[v] /\ ctx'[v].io = ctx[v].io
             /\ next_window(v)' = next_window(v) /\ state' = state
             /\ \A s \in Stargates : target[s] \in TimelinesOf(v) =>
                  (s \in inbound_async' <=> s \in inbound_async)
  <2>1. machine[v] # m
    BY <1>0, <1>5, TrainingEnds DEF WindowLabels
  <2>2. pc'[v] = pc[v] /\ next_decade'[v] = next_decade[v] /\ next_epoch'[v] = next_epoch[v]
    BY <1>5, <2>1, TrainingEnds
  <2>3. ctx'[v].io = ctx[v].io /\ state' = state /\ inbound_async' = Listed(m)
    BY <1>5, TrainingEnds
  <2>4. \A s \in Stargates : target[s] \in TimelinesOf(v) => TargetMachine(s) = machine[v]
    BY DEF TargetMachine, TimelinesOf
  <2> QED BY <2>1, <2>2, <2>3, <2>4 DEF Listed, next_window
<1>6. ASSUME ~(\E m \in Machines : Trained(m))
      PROVE  /\ pc'[v] = pc[v] /\ ctx' = ctx
             /\ next_window(v)' = next_window(v) /\ state' = state
             /\ inbound_async' = inbound_async
  <2>1. UNCHANGED <<windowVars, ctx>>
    BY <1>6, OtherFrame
  <2>2. ASSUME NEW m \in Machines, Barrier(m) PROVE pc'[v] = pc[v] /\ state' = state
    BY <1>0, <2>2 DEF Barrier, Meet, UniversesOf, WindowLabels, tmlnVars
  <2>3. ASSUME Collective PROVE pc'[v] = pc[v] /\ state' = state
    <3>1. CASE Reduce
      BY <1>0, <3>1 DEF Reduce, WindowLabels, tmlnVars
    <3>2. CASE MpiBarrier
      BY <1>0, <3>2 DEF MpiBarrier, WindowLabels, tmlnVars
    <3>3. CASE FinishGlobal
      BY <1>0, <3>3 DEF FinishGlobal, WindowLabels, tmlnVars
    <3> QED BY <2>3, <3>1, <3>2, <3>3 DEF Collective
  <2>4. ASSUME \/ \E m \in Machines : Writer(m)
               \/ \E n, m \in Machines : Reader(n, m)
               \/ UNCHANGED vars
        PROVE  pc'[v] = pc[v] /\ state' = state
    BY <2>4 DEF Writer, Reader, vars, threadVars, tmlnVars
  <2>5. next_window(v)' = next_window(v)
    BY <2>1 DEF windowVars, next_window
  <2>6. inbound_async' = inbound_async /\ ctx' = ctx
    BY <2>1 DEF windowVars
  <2>7. pc'[v] = pc[v] /\ state' = state
    BY <1>6, <2>2, <2>3, <2>4
  <2> QED BY <2>5, <2>6, <2>7
<1>7. /\ pc'[v] = pc[v] /\ ctx'[v].io = ctx[v].io
      /\ next_window(v)' = next_window(v) /\ state' = state
      /\ \A s \in Stargates : target[s] \in TimelinesOf(v) =>
           (s \in inbound_async' <=> s \in inbound_async)
  BY <1>5, <1>6
<1>8. Patient(v)
  <2> SUFFICES ASSUME NEW s \in Stargates, target[s] \in TimelinesOf(v)
               PROVE  /\ s \in inbound_async' <=> s \in inbound_async
                      /\ InGate(s)'.time = InGate(s).time
                      /\ NotificationDue(s) => NotificationDue(s)' \/ Mailed(s)'
                      /\ Mailed(s) => Mailed(s)'
    BY DEF Patient
  <2>1. InGate(s)'.time = InGate(s).time
    BY <1>4 DEF gateVars, InGate, Remote, SourceMachine, TargetMachine
  <2>2. Mailed(s) => Mailed(s)'
    BY <1>3, <1>7 DEF Mailed, TimelinesOf
  <2> QED BY <1>7, <2>1, <2>2, DueOn
<1> QED BY <1>2, <1>7, <1>8

\* What u waits for is still to come after a step of another.
LEMMA KeepWakeup ==
  ASSUME TypeOK, Scheduling, NEW v \in Universes, InWindow(v), WakeupOK(v), Patient(v),
         pc'[v] = pc[v], scan'[v] = scan[v], ctx'[v].io = ctx[v].io,
         next_window(v)' = next_window(v),
         \A t \in TimelinesOf(v) : state'[t] = state[t] /\ lbts'[t] = lbts[t]
  PROVE  WakeupOK(v)'
<1>1. Blocked(v)' = Blocked(v)
  BY DEF Blocked, TimelinesOf
<1>2. \A t \in TimelinesOf(v) : InboundAsync(t)' = InboundAsync(t)
  BY DEF Patient, InboundAsync
<1>3. \A t \in TimelinesOf(v) : \A s \in InboundAsync(t) : \A b : WillHear(s, b) => WillHear(s, b)'
  BY PatientKeeps DEF InboundAsync
<1>4. ~HasMail(v)' => ctx'[v].io = <<>>
  BY DEF WakeupOK, HasMail, ScanFor
<1>5. pc[v] = "scan" => scan[v].tl \in TimelinesOf(v)
  BY ThreadFacts DEF Owned
<1>6. ASSUME NEW t \in Blocked(v)'
      PROVE  \/ pc'[v] = "scan" /\ scan'[v].tl = t
             \/ lbts'[t] < next_window(v)' => \E s \in InboundAsync(t)' : WillHear(s, lbts[t])'
  <2>1. t \in TimelinesOf(v) /\ t \in Blocked(v)
    BY <1>1, <1>6 DEF Blocked
  <2> QED BY <1>2, <1>3, <2>1 DEF WakeupOK
<1>7. pc'[v] = "scan" /\ scan'[v].low < next_window(v)' =>
        \E s \in InboundAsync(scan[v].tl)' \ scan'[v].todo : WillHear(s, scan[v].low)'
  BY <1>2, <1>3, <1>5 DEF WakeupOK
<1> QED BY <1>4, <1>6, <1>7 DEF WakeupOK

\* The mail that a thread has taken is what it has not handled yet.
LEMMA IoStays ==
  ASSUME TypeOK, NEW u \in Universes, Thread(u)
  PROVE  \/ HandleMail(u)
         \/ (PollMail(u) \/ WaitMail(u) \/ DrainMail(u)) /\ pc'[u] \in {"io", "drain io"}
         \/ ctx'[u].io = ctx[u].io
<1>0. ctx \in [Universes -> ContextType] /\ pc \in [Universes -> Labels]
  BY DEF TypeOK, ThreadTypeOK
<1>1. CASE Dispatch(u) \/ Collect(u) \/ SendEpoch(u) \/ Await(u) \/ TrainLocal(u) \/ TrainGlobal(u)
  BY <1>1 DEF Dispatch, Collect, SendEpoch, Await, TrainLocal, TrainGlobal
<1>2. CASE OpenTimeline(u) \/ Opened(u) \/ Pick(u)
  BY <1>0, <1>2 DEF OpenTimeline, Opened, Pick, ContextType
<1>3. CASE ReadTime(u) \/ ReceiveMessages(u) \/ EndScan(u)
  <2>1. CASE ReadTime(u) \/ ReceiveMessages(u)
    BY <2>1 DEF ReadTime, ReceiveMessages
  <2>2. CASE EndScan(u)
    <3>1. ctx' = ctx \/ \E x, y : ctx' = [ctx EXCEPT ![u] = [@ EXCEPT !.cur = x, !.horizon = y]]
      BY <2>2 DEF EndScan
    <3> QED BY <1>0, <3>1 DEF ContextType
  <2> QED BY <1>3, <2>1, <2>2
<1>4. CASE RunEvent(u) \/ RunEnd(u) \/ Notify(u) \/ Interrupted(u) \/ AdvanceWindow(u)
  BY <1>0, <1>4 DEF RunEvent, RunEnd, Notify, Interrupted, AdvanceWindow, threadVars, ContextType
<1>5. CASE UpdateTime(u)
  <2>1. ctx' = ctx \/ \E s : ctx' = [ctx EXCEPT ![u].out = @ \ {s}]
    BY <1>5 DEF UpdateTime, SetTime
  <2> QED BY <1>0, <2>1 DEF ContextType
<1>6. CASE PollMail(u) \/ WaitMail(u) \/ DrainMail(u)
  BY <1>0, <1>6 DEF PollMail, WaitMail, DrainMail, TakeMail, Goto
<1>7. CASE EndMail(u)
  BY <1>7 DEF EndMail
<1> QED BY <1>1, <1>2, <1>3, <1>4, <1>5, <1>6, <1>7 DEF Thread

\* A thread that is not handling its mail has none left to handle.
LEMMA MailTaken ==
  ASSUME TypeOK, Meeting, Scheduling, [Next]_vars, NEW v \in Universes,
         ~HasMail(v) => ctx[v].io = <<>>
  PROVE  ~HasMail(v)' => ctx'[v].io = <<>>
<1>0. /\ pc \in [Universes -> Labels] /\ scan \in [Universes -> ScanType]
      /\ machine[v] \in Machines
  BY TopologyAssumption DEF TypeOK, ThreadTypeOK
<1>1. ASSUME ctx'[v].io = ctx[v].io, HasMail(v) => HasMail(v)' \/ ctx[v].io = <<>>
      PROVE  ~HasMail(v)' => ctx'[v].io = <<>>
  BY <1>1
<1>2. CASE Thread(v)
  <2>1. CASE HandleMail(v)
    <3>1. pc[v] \in {"io", "drain io"} /\ (UNCHANGED pc \/ \E d : BeginScan(v, d, pc[v]))
      BY <2>1, NullHandled
    <3>2. pc'[v] \in {"io", "drain io"}
          \/ (pc'[v] = "scan" /\ scan'[v].ret \in {"io", "drain io"})
      BY <3>1, ScanStarted
    <3> QED BY <3>2 DEF HasMail, ScanFor
  <2>2. CASE pc'[v] \in {"io", "drain io"}
    BY <2>2 DEF HasMail
  <2>3. ASSUME ~HandleMail(v), ctx'[v].io = ctx[v].io, pc'[v] \notin {"io", "drain io"}
        PROVE  HasMail(v) => HasMail(v)' \/ ctx[v].io = <<>>
    <3>1. CASE pc[v] \in {"io", "drain io"}
      <4>1. EndMail(v)
        <5>1. CASE Dispatch(v) \/ Collect(v) \/ SendEpoch(v) \/ Await(v) \/ TrainLocal(v) \/ TrainGlobal(v)
          BY <3>1, <5>1 DEF Dispatch, Collect, SendEpoch, Await, TrainLocal, TrainGlobal
        <5>2. CASE OpenTimeline(v) \/ Opened(v) \/ Pick(v) \/ ReadTime(v) \/ ReceiveMessages(v) \/ EndScan(v)
          BY <3>1, <5>2 DEF OpenTimeline, Opened, Pick, ReadTime, ReceiveMessages, EndScan
        <5>3. CASE RunEvent(v) \/ RunEnd(v) \/ UpdateTime(v) \/ Notify(v) \/ Interrupted(v)
          BY <3>1, <5>3 DEF RunEvent, RunEnd, UpdateTime, Notify, Interrupted
        <5>4. CASE PollMail(v) \/ WaitMail(v) \/ DrainMail(v) \/ AdvanceWindow(v)
          BY <3>1, <5>4 DEF PollMail, WaitMail, DrainMail, AdvanceWindow
        <5> QED BY <1>2, <2>3, <5>1, <5>2, <5>3, <5>4 DEF Thread
      <4> QED BY <4>1 DEF EndMail
    <3>2. CASE pc[v] = "scan" /\ scan[v].ret \in {"io", "drain io"}
      <4>1. CASE ReadTime(v) \/ ReceiveMessages(v)
        <5>1. scan'[v].ret = scan[v].ret /\ pc' = pc
          BY <4>1, TimeRead, MessagesReceived DEF ReadTime, ReceiveMessages
        <5> QED BY <3>2, <5>1 DEF HasMail, ScanFor
      <4>2. CASE EndScan(v)
        <5>1. pc'[v] = scan[v].ret
          BY <1>0, <3>2, <4>2 DEF EndScan, Goto
        <5> QED BY <2>3, <3>2, <5>1
      <4>3. ReadTime(v) \/ ReceiveMessages(v) \/ EndScan(v)
        <5>1. CASE Dispatch(v) \/ Collect(v) \/ SendEpoch(v) \/ Await(v) \/ TrainLocal(v) \/ TrainGlobal(v)
          BY <3>2, <5>1 DEF Dispatch, Collect, SendEpoch, Await, TrainLocal, TrainGlobal
        <5>2. CASE OpenTimeline(v) \/ Opened(v) \/ Pick(v) \/ HandleMail(v) \/ EndMail(v)
          BY <3>2, <5>2 DEF OpenTimeline, Opened, Pick, HandleMail, EndMail
        <5>3. CASE RunEvent(v) \/ RunEnd(v) \/ UpdateTime(v) \/ Notify(v) \/ Interrupted(v)
          BY <3>2, <5>3 DEF RunEvent, RunEnd, UpdateTime, Notify, Interrupted
        <5>4. CASE PollMail(v) \/ WaitMail(v) \/ DrainMail(v) \/ AdvanceWindow(v)
          BY <3>2, <5>4 DEF PollMail, WaitMail, DrainMail, AdvanceWindow
        <5> QED BY <1>2, <5>1, <5>2, <5>3, <5>4 DEF Thread
      <4> QED BY <4>1, <4>2, <4>3
    <3> QED BY <3>1, <3>2 DEF HasMail, ScanFor
  <2> QED BY <1>1, <1>2, <2>1, <2>2, <2>3, IoStays
<1>3. ASSUME NEW u \in Universes, Thread(u), u # v
      PROVE  ~HasMail(v)' => ctx'[v].io = <<>>
  BY <1>3, OthersStay, ThreadAlone DEF HasMail, ScanFor
<1>4. ASSUME ~(\E u \in Universes : Thread(u))
      PROVE  ~HasMail(v)' => ctx'[v].io = <<>>
  <2>1. \/ \E m \in Machines : Barrier(m) \/ Trained(m) \/ Writer(m)
        \/ \E n, m \in Machines : Reader(n, m)
        \/ Collective \/ UNCHANGED vars
    BY <1>4 DEF Next, Finished
  <2>2. UNCHANGED scan /\ ((\E m \in Machines : Trained(m)) \/ UNCHANGED ctx)
    BY <2>1, OtherFrame
  <2>3. ctx'[v].io = ctx[v].io
    BY <2>2, TrainingEnds
  <2>4. HasMail(v) => HasMail(v)'
    <3>1. pc[v] \in {"io", "drain io", "scan"} => pc'[v] = pc[v]
      <4>1. ASSUME NEW m \in Machines, Barrier(m)
            PROVE  pc[v] \in {"io", "drain io", "scan"} => pc'[v] = pc[v]
        BY <1>0, <4>1 DEF Barrier, Meet, UniversesOf
      <4>2. ASSUME NEW m \in Machines, Trained(m)
            PROVE  pc[v] \in {"io", "drain io", "scan"} => pc'[v] = pc[v]
        BY <4>2, TrainingEnds
      <4>3. ASSUME Collective
            PROVE  pc[v] \in {"io", "drain io", "scan"} => pc'[v] = pc[v]
        <5>1. CASE Reduce
          BY <1>0, <5>1 DEF Reduce
        <5>2. CASE MpiBarrier
          BY <1>0, <5>2 DEF MpiBarrier
        <5>3. CASE FinishGlobal
          BY <1>0, <5>3 DEF FinishGlobal
        <5> QED BY <4>3, <5>1, <5>2, <5>3 DEF Collective
      <4>4. ASSUME \/ \E m \in Machines : Writer(m)
                   \/ \E n, m \in Machines : Reader(n, m)
                   \/ UNCHANGED vars
            PROVE  pc'[v] = pc[v]
        BY <4>4 DEF Writer, Reader, vars, threadVars
      <4> QED BY <2>1, <4>1, <4>2, <4>3, <4>4
    <3> QED BY <2>2, <3>1 DEF HasMail, ScanFor
  <2> QED BY <1>1, <2>3, <2>4
<1> QED BY <1>2, <1>3, <1>4

\* A thread forgets no null message of its mail before it has handled it.
LEMMA OwnMailed ==
  ASSUME TypeOK, Meeting, Scheduling, [Next]_vars, NEW u \in Universes, Thread(u), WakeupOK(u),
         NEW s \in Stargates, universe[target[s]] = u, Mailed(s)
  PROVE  \/ Mailed(s)'
         \/ HandleMail(u) /\ Head(ctx[u].io).sg = s /\ IsNull(Head(ctx[u].io))
<1>0. /\ ctx \in [Universes -> ContextType] /\ umailbox \in [Universes -> Seq(MessageType)]
      /\ pc \in [Universes -> Labels]
      /\ ctx[u].io \in Seq(MessageType) /\ umailbox[u] \in Seq(MessageType)
  BY DEF TypeOK, ThreadTypeOK, MessageTypeOK, ContextType
<1>1. CASE HandleMail(u)
  <2>1. umailbox' = umailbox /\ ctx[u].io # <<>> /\ ctx'[u].io = Tail(ctx[u].io)
    <3>1. ctx' = [ctx EXCEPT ![u].io = Tail(@)]
      BY <1>1 DEF HandleMail
    <3>2. ctx'[u].io = Tail(ctx[u].io)
      BY <1>0, <3>1 DEF ContextType
    <3> QED BY <1>1, <3>2, NullHandled
  <2>2. Range(ctx[u].io) \subseteq {Head(ctx[u].io)} \cup Range(Tail(ctx[u].io))
    <3> DEFINE q == ctx[u].io
    <3>1. q \in Seq(MessageType) /\ q # <<>>
      BY <1>0, <2>1
    <3> HIDE DEF q
    <3>2. ASSUME NEW i \in DOMAIN q PROVE q[i] \in {Head(q)} \cup Range(Tail(q))
      <4>1. CASE i = 1
        BY <3>1, <4>1
      <4>2. CASE i # 1
        <5>1. i - 1 \in DOMAIN Tail(q) /\ Tail(q)[i - 1] = q[i]
          BY <3>1, <4>2
        <5> QED BY <5>1 DEF Range
      <4> QED BY <4>1, <4>2
    <3> QED BY <3>2 DEF Range, q
  <2> QED BY <1>1, <2>1, <2>2 DEF Mailed
<1>2. CASE PollMail(u) \/ WaitMail(u) \/ DrainMail(u)
  <2>1. ctx[u].io = <<>>
    BY <1>2 DEF WakeupOK, HasMail, ScanFor, PollMail, WaitMail, DrainMail
  <2>2. ctx'[u].io = umailbox[u]
    <3>1. ctx' = [ctx EXCEPT ![u].io = umailbox[u]]
      BY <1>2 DEF PollMail, WaitMail, DrainMail, TakeMail
    <3> QED BY <1>0, <3>1 DEF ContextType
  <2> QED BY <2>1, <2>2, EmptyRange DEF Mailed
<1>3. CASE ~HandleMail(u) /\ ~(PollMail(u) \/ WaitMail(u) \/ DrainMail(u))
  <2>1. ctx'[u].io = ctx[u].io
    BY <1>3, IoStays
  <2>2. Range(umailbox[u]) \subseteq Range(umailbox'[u])
    BY <1>3, ThreadFrame, NotifyMails
  <2> QED BY <2>1, <2>2 DEF Mailed
<1> QED BY <1>1, <1>2, <1>3

\* A step of u that changes no channel time of its own inbound stargates.
LEMMA OwnPatient ==
  ASSUME TypeOK, Meeting, Scheduling, [Next]_vars, NEW u \in Universes, Thread(u), WakeupOK(u),
         UNCHANGED inbound_async,
         \A s \in Stargates : target[s] \in TimelinesOf(u) => InGate(s)'.time = InGate(s).time,
         HandleMail(u) => ~IsNull(Head(ctx[u].io))
  PROVE  Patient(u)
<1>1. \A s \in Stargates : target[s] \in TimelinesOf(u) => universe[target[s]] = u
  BY DEF TimelinesOf
<1> QED BY <1>1, OwnMailed, DueOn DEF Patient

\* A thread in the middle of a window stays there, or leaves it by AdvanceWindow.
LEMMA OwnWindow ==
  ASSUME TypeOK, Meeting, Scheduling, NEW u \in Universes, Thread(u), InWindow(u)'
  PROVE  /\ InWindow(u)
         /\ ~Dispatch(u) /\ ~Collect(u) /\ ~SendEpoch(u) /\ ~Await(u) /\ ~DrainMail(u)
         /\ ~TrainLocal(u) /\ ~TrainGlobal(u) /\ ~AdvanceWindow(u)
         /\ inbound_async' = inbound_async /\ next_window(u)' = next_window(u)
<1>0. pc \in [Universes -> Labels]
  BY DEF TypeOK, ThreadTypeOK
<1>1. ~AdvanceWindow(u)
  BY WindowLeft DEF Meeting
<1>2. ~Dispatch(u) /\ ~TrainLocal(u) /\ ~TrainGlobal(u)
  <2>1. Dispatch(u) => pc'[u] \in {"dispatched", "epoch", "train", "trained"}
    BY <1>0 DEF Dispatch, Goto, AfterLocalEdge
  <2>2. TrainLocal(u) \/ TrainGlobal(u) => pc'[u] \in {"train global", "trained"}
    BY <1>0 DEF TrainLocal, TrainGlobal, Goto
  <2> QED BY <2>1, <2>2 DEF InWindow, WindowLabels
<1>3. InWindow(u)
  BY <1>1, <1>2, ThreadKeepsPlace DEF PlaceKept
<1>4. ~Collect(u) /\ ~SendEpoch(u) /\ ~Await(u) /\ ~DrainMail(u)
  BY <1>3 DEF InWindow, WindowLabels, Collect, SendEpoch, Await, DrainMail
<1>5. UNCHANGED windowVars
  BY <1>1, ThreadFrame
<1> QED BY <1>1, <1>2, <1>3, <1>4, <1>5 DEF windowVars, next_window

\* Blocked timelines and the bound being computed, as in WakeupOK.
BlockedOK(u) ==
  \A t \in Blocked(u) :
    \/ pc[u] = "scan" /\ scan[u].tl = t
    \/ lbts[t] < next_window(u) => \E s \in InboundAsync(t) : WillHear(s, lbts[t])
ScannedOK(u) ==
  pc[u] = "scan" /\ scan[u].low < next_window(u) =>
    \E s \in InboundAsync(scan[u].tl) \ scan[u].todo : WillHear(s, scan[u].low)

\* Where the scan starts low is the edge of the window.
LEMMA ScanFresh ==
  ASSUME TypeOK, NEW u \in Universes, next_window(u)' = next_window(u),
         NEW t, NEW r, BeginScan(u, t, r)
  PROVE  ScannedOK(u)'
<1>1. scan'[u].low = next_window(u) /\ next_window(u) \in Nat
  BY ScanStarted, SchedulingFacts
<1> QED BY <1>1 DEF ScannedOK

\* A step that changes no timeline and no channel time.
LEMMA QuietWakeup ==
  ASSUME TypeOK, Meeting, Scheduling, NEW u \in Universes, WakeupOK(u), Patient(u),
         next_window(u)' = next_window(u),
         \A t \in TimelinesOf(u) : lbts'[t] = lbts[t],
         Blocked(u)' \subseteq Blocked(u),
         \A t \in TimelinesOf(u) :
            pc[u] = "scan" /\ scan[u].tl = t => pc'[u] = "scan" /\ scan'[u].tl = t
  PROVE  BlockedOK(u)'
<1> SUFFICES ASSUME NEW t \in Blocked(u)',
                    ~(pc'[u] = "scan" /\ scan'[u].tl = t), lbts'[t] < next_window(u)'
             PROVE  \E s \in InboundAsync(t)' : WillHear(s, lbts[t])'
  BY DEF BlockedOK
<1>1. t \in Blocked(u) /\ t \in TimelinesOf(u)
  BY DEF Blocked
<1>2. PICK s \in InboundAsync(t) : WillHear(s, lbts[t])
  BY <1>1 DEF WakeupOK
<1>3. s \in Stargates /\ target[s] \in TimelinesOf(u) /\ s \in InboundAsync(t)'
  BY <1>1, <1>2 DEF InboundAsync, Patient
<1>4. WillHear(s, lbts[t])'
  BY <1>1, <1>2, <1>3, PatientKeeps
<1> QED BY <1>3, <1>4

\* A channel time that rises inside a universe wakes the timeline it held.
LEMMA UpdateWakeup ==
  ASSUME TypeOK, Meeting, Scheduling, [Next]_vars, NEW u \in Universes, UpdateTime(u),
         WakeupOK(u), InWindow(u)', Thread(u)
  PROVE  BlockedOK(u)' /\ ScannedOK(u)'
<1>0. /\ gate \in [Stargates -> GateType] /\ pc \in [Universes -> Labels]
      /\ next_window(u)' = next_window(u) /\ inbound_async' = inbound_async
      /\ pc[u] = "update" /\ lbts' = lbts /\ state' = state /\ rgate' = rgate
  BY OwnWindow, StatesStay, TimeSet DEF TypeOK, TimelineTypeOK, ThreadTypeOK
<1>1. PICK r \in ctx[u].out : IsFirst(r, ctx[u].out) /\ SetTime(u, r)
  BY DEF UpdateTime
<1>2. r \in Stargates /\ source[r] = ctx[u].cur /\ universe[source[r]] = u /\ ~gate[r].in_sync
  BY <1>0, <1>1, SchedulingFacts, ThreadFacts, TimeSet DEF Control
<1>3. \A s \in Stargates \ {r} : gate'[s] = gate[s]
  BY <1>0, <1>1, <1>2 DEF SetTime
<1>4. ASSUME NEW s \in Stargates, target[s] \in TimelinesOf(u), s # r \/ ~SameUniverse(s)
      PROVE  InGate(s)'.time = InGate(s).time
  <2>1. CASE s # r
    BY <1>0, <1>3, <1>4, <2>1 DEF InGate, Remote, SourceMachine, TargetMachine
  <2>2. CASE s = r
    <3>1. Remote(s) \/ SameUniverse(s)
      BY <1>2, <1>4, <2>2 DEF SameUniverse, TimelinesOf
    <3> QED BY <1>0, <1>4, <2>2, <3>1 DEF InGate, Remote, SourceMachine, TargetMachine
  <2> QED BY <2>1, <2>2
<1>5. ASSUME NEW s \in Stargates, target[s] \in TimelinesOf(u), Mailed(s)
      PROVE  Mailed(s)'
  <2>1. ~HandleMail(u)
    BY <1>0 DEF HandleMail
  <2> QED BY <1>5, <2>1, OwnMailed DEF TimelinesOf
<1>6. ASSUME NEW t \in Blocked(u)', ~(pc'[u] = "scan" /\ scan'[u].tl = t),
             lbts'[t] < next_window(u)'
      PROVE  \E s \in InboundAsync(t)' : WillHear(s, lbts[t])'
  <2>1. t \in Blocked(u) /\ t \in TimelinesOf(u) /\ state[t] = "WAITING" /\ lbts[t] < next_window(u)
    BY <1>0, <1>6 DEF Blocked, TimelinesOf
  <2>2. PICK s \in InboundAsync(t) : WillHear(s, lbts[t])
    BY <1>0, <2>1 DEF WakeupOK
  <2>3. s \in Stargates /\ target[s] = t /\ s \in InboundAsync(t)' /\ s \in inbound_async
    BY <1>0, <2>2 DEF InboundAsync
  <2>4. CASE InGate(s)'.time = InGate(s).time
    <3>1. WillHear(s, lbts[t])'
      BY <1>0, <1>5, <2>1, <2>2, <2>3, <2>4, DueOn DEF WillHear, Remote, SourceMachine, TargetMachine
    <3> QED BY <2>3, <3>1
  <2>5. CASE InGate(s)'.time # InGate(s).time
    <3>1. s = r /\ SameUniverse(s) /\ ~Remote(s) /\ InGate(s) = gate[s]
      BY <1>4, <2>1, <2>3, <2>5 DEF SameUniverse, Remote, SourceMachine, TargetMachine, InGate
    <3>2. gate'[s] # gate[s]
      BY <1>0, <2>5, <3>1 DEF InGate, Remote, SourceMachine, TargetMachine
    <3>3. ~(gate[s].time >= endtime)
      BY <1>1, <3>1, <3>2 DEF SetTime
    <3>4. gate[s].time # lbts[t]
      <4>1. gate[s].time = lbts[t] => BeginScan(u, t, "update")
        BY <1>1, <2>1, <2>3, <3>1, <3>3 DEF SetTime
      <4> QED BY <1>6, <4>1, ScanStarted
    <3>5. lbts[t] <= gate[s].time
      BY <1>2, <2>3, <3>1 DEF Scheduling, Gates
    <3>6. ~(InGate(s).time <= lbts[t])
      BY <2>1, <2>3, <3>1, <3>4, <3>5, SchedulingFacts
    <3>7. WillHear(s, lbts[t])'
      BY <1>5, <2>1, <2>2, <2>3, <3>1, <3>6, DueOn DEF WillHear, Remote, SourceMachine, TargetMachine
    <3> QED BY <2>3, <3>7
  <2> QED BY <2>4, <2>5
<1>7. ScannedOK(u)'
  <2>1. CASE \E d : BeginScan(u, d, "update")
    BY <1>0, <2>1, ScanFresh
  <2>2. CASE ~(\E d : BeginScan(u, d, "update"))
    <3>1. pc'[u] # "scan"
      BY <1>0, <1>1, <2>2 DEF SetTime, Goto
    <3> QED BY <3>1 DEF ScannedOK
  <2> QED BY <2>1, <2>2
<1> QED BY <1>6, <1>7 DEF BlockedOK

\* So does a null message that is handled.
LEMMA HandleWakeup ==
  ASSUME TypeOK, Meeting, Scheduling, [Next]_vars, NEW u \in Universes, HandleMail(u),
         WakeupOK(u), InWindow(u)', Thread(u)
  PROVE  BlockedOK(u)' /\ ScannedOK(u)'
<1> DEFINE e == Head(ctx[u].io)
           r == e.sg
<1>0. /\ rgate \in [Stargates -> GateType] /\ pc \in [Universes -> Labels]
      /\ next_window(u)' = next_window(u) /\ inbound_async' = inbound_async
      /\ pc[u] \in {"io", "drain io"} /\ lbts' = lbts /\ state' = state /\ gate' = gate
      /\ ctx[u].io # <<>> /\ ctx[u].io \in Seq(MessageType) /\ InWindow(u)
  BY OwnWindow, NullHandled DEF TypeOK, TimelineTypeOK, ThreadTypeOK, ContextType
<1>1. e \in MessageType /\ r \in Stargates /\ e.t \in Nat /\ target[r] \in TimelinesOf(u)
  <2>1. e \in MessageType /\ e \in Range(ctx[u].io)
    BY <1>0, RangeFacts, SequenceType
  <2>2. universe[Dest(e)] = u
    BY <2>1, ThreadFacts DEF Owned
  <2> QED BY <2>1, <2>2, MessageElim DEF TimelinesOf, Dest
<1>2. /\ IsNull(e) => HandleNull(u, e)
      /\ ~IsNull(e) => UNCHANGED <<rgate, pc, scan>>
  BY DEF HandleMail
<1>3. ScannedOK(u)'
  <2>1. CASE \E d : BeginScan(u, d, pc[u])
    BY <1>0, <2>1, ScanFresh
  <2>2. CASE ~(\E d : BeginScan(u, d, pc[u]))
    <3>1. pc'[u] # "scan"
      BY <1>0, <2>2, NullHandled
    <3> QED BY <3>1 DEF ScannedOK
  <2> QED BY <2>1, <2>2
<1>4. CASE ~IsNull(e)
  <2>1. \A s \in Stargates : InGate(s)'.time = InGate(s).time
    BY <1>0, <1>2, <1>4 DEF InGate, Remote, SourceMachine, TargetMachine
  <2>2. Patient(u)
    BY <1>0, <1>4, <2>1, OwnPatient
  <2>3. Blocked(u)' \subseteq Blocked(u)
    BY <1>0 DEF Blocked, TimelinesOf
  <2>4. BlockedOK(u)'
    BY <1>0, <2>2, <2>3, QuietWakeup
  <2> QED BY <1>3, <2>4
<1>5. CASE IsNull(e)
  <2>0. rgate' = rgate \/ (Remote(r) /\ rgate' = [rgate EXCEPT ![r].time = e.t])
    BY <1>2, <1>5 DEF HandleNull
  <2>1. ASSUME NEW s \in Stargates, s # r \/ ~Remote(s)
        PROVE  InGate(s)' = InGate(s)
    BY <1>0, <1>1, <2>0, <2>1 DEF InGate, Remote, SourceMachine, TargetMachine
  <2>2. ASSUME NEW t \in Blocked(u)', ~(pc'[u] = "scan" /\ scan'[u].tl = t),
               lbts'[t] < next_window(u)'
        PROVE  \E s \in InboundAsync(t)' : WillHear(s, lbts[t])'
    <3>1. t \in Blocked(u) /\ t \in TimelinesOf(u) /\ state[t] = "WAITING" /\ lbts[t] < next_window(u)
      BY <1>0, <2>2 DEF Blocked, TimelinesOf
    <3>2. PICK s \in InboundAsync(t) : WillHear(s, lbts[t])
      BY <1>0, <3>1 DEF WakeupOK
    <3>3. s \in Stargates /\ target[s] = t /\ s \in InboundAsync(t)' /\ s \in inbound_async
          /\ lbts[t] \in Nat /\ gate[s].time \in Nat /\ rgate[s].time \in Nat
      BY <1>0, <3>1, <3>2, SchedulingFacts DEF InboundAsync
    <3>4. CASE s # r
      <4>1. Mailed(s) => Mailed(s)'
        BY <3>1, <3>3, <3>4, OwnMailed DEF TimelinesOf
      <4>2. WillHear(s, lbts[t])'
        BY <1>0, <2>1, <3>1, <3>2, <3>3, <3>4, <4>1, DueOn
           DEF WillHear, Remote, SourceMachine, TargetMachine
      <4> QED BY <3>3, <4>2
    <3>5. CASE s = r
      <4> DEFINE time == IF Remote(r) THEN e.t ELSE gate[r].time
                 stale == InGate(r).in_sync \/ (Remote(r) /\ rgate[r].time >= e.t)
      <4>1. ~InGate(s).in_sync
        BY <1>0, <3>1, <3>3, AsyncListed DEF TimelinesOf
      <4>2. stale \/ ~(time > lbts[t])
        <5>1. ~stale /\ time > lbts[t] => BeginScan(u, t, pc[u])
          BY <1>2, <1>5, <3>1, <3>3, <3>5 DEF HandleNull
        <5> QED BY <2>2, <5>1, ScanStarted
      <4>3. InGate(s)'.time <= lbts[t] \/ InGate(s)' = InGate(s)
        <5>1. CASE stale
          <6>1. rgate' = rgate
            BY <1>2, <1>5, <5>1 DEF HandleNull
          <6> QED BY <1>0, <6>1 DEF InGate, Remote, SourceMachine, TargetMachine
        <5>2. CASE ~stale /\ Remote(r)
          <6>1. rgate' = [rgate EXCEPT ![r].time = e.t]
            BY <1>2, <1>5, <5>2 DEF HandleNull
          <6>2. rgate'[r].time = e.t
            BY <1>0, <1>1, <6>1 DEF GateType
          <6>3. InGate(s)'.time = e.t
            BY <3>5, <5>2, <6>2 DEF InGate, Remote, SourceMachine, TargetMachine
          <6>4. time = e.t
            BY <5>2
          <6> HIDE DEF time, stale, e
          <6> QED BY <1>1, <3>3, <4>2, <5>2, <6>3, <6>4
        <5>3. CASE ~stale /\ ~Remote(r)
          BY <2>1, <3>3, <3>5, <5>3
        <5> QED BY <5>1, <5>2, <5>3
      <4>4. ~Remote(s) => InGate(s)'.time <= lbts[t]
        <5> SUFFICES ASSUME ~Remote(s) PROVE InGate(s)'.time <= lbts[t]
          OBVIOUS
        <5>1. ~stale /\ time = InGate(s).time
          BY <3>5, <4>1 DEF InGate
        <5>2. InGate(s)' = InGate(s)
          BY <2>1, <3>3
        <5> QED BY <3>3, <4>2, <5>1, <5>2 DEF InGate
      <4>5. Remote(s) => InGate(s).time <= lbts[t]
        BY <3>2 DEF WillHear
      <4>6. InGate(s)'.time <= lbts[t]
        BY <4>3, <4>4, <4>5
      <4>7. WillHear(s, lbts[t])'
        BY <1>0, <4>6 DEF WillHear
      <4> QED BY <3>3, <4>7
    <3> QED BY <3>4, <3>5
  <2>3. BlockedOK(u)'
    BY <2>2 DEF BlockedOK
  <2> QED BY <1>3, <2>3
<1> QED BY <1>4, <1>5

\* The bound a timeline is blocked with was set by one of the stargates read.
LEMMA BoundWakeup ==
  ASSUME TypeOK, TypeOK', Meeting, Scheduling, [Next]_vars, NEW u \in Universes, EndScan(u),
         WakeupOK(u), InWindow(u)', Thread(u)
  PROVE  BlockedOK(u)' /\ ScannedOK(u)'
<1> DEFINE x == scan[u].tl
<1>0. /\ next_window(u)' = next_window(u) /\ inbound_async' = inbound_async
      /\ x \in TimelinesOf(u) /\ pc[u] = "scan" /\ scan[u].todo = {}
      /\ lbts'[x] = scan[u].low /\ UNCHANGED gateVars
      /\ \A t \in TimelinesOf(u) \ {x} : state'[t] = state[t] /\ lbts'[t] = lbts[t]
  BY OwnWindow, BoundKnown, BoundTaken DEF EndScan
<1>1. pc'[u] # "scan"
  BY BoundKnown, BoundTaken
<1>2. Patient(u)
  <2>1. \A s \in Stargates : InGate(s)'.time = InGate(s).time
    BY <1>0 DEF gateVars, InGate, Remote, SourceMachine, TargetMachine
  <2>2. ~HandleMail(u)
    BY <1>0 DEF HandleMail
  <2> QED BY <1>0, <2>1, <2>2, OwnPatient
<1>3. ASSUME NEW t \in Blocked(u)', lbts'[t] < next_window(u)'
      PROVE  \E s \in InboundAsync(t)' : WillHear(s, lbts[t])'
  <2>1. t \in TimelinesOf(u)
    BY <1>3 DEF Blocked, TimelinesOf
  <2>2. \E s \in InboundAsync(t) : WillHear(s, lbts'[t])
    <3>1. CASE t = x
      BY <1>0, <1>3, <3>1 DEF WakeupOK
    <3>2. CASE t # x
      <4>1. t \in Blocked(u) /\ lbts'[t] = lbts[t]
        BY <1>0, <1>3, <2>1, <3>2 DEF Blocked, TimelinesOf
      <4> QED BY <1>0, <1>3, <3>2, <4>1 DEF WakeupOK
    <3> QED BY <3>1, <3>2
  <2>3. PICK s \in InboundAsync(t) : WillHear(s, lbts'[t])
    BY <2>2
  <2>4. s \in Stargates /\ target[s] \in TimelinesOf(u) /\ s \in InboundAsync(t)'
    BY <1>0, <2>1, <2>3 DEF InboundAsync
  <2> DEFINE b == lbts'[t]
  <2>5. WillHear(s, b)
    BY <2>3
  <2> HIDE DEF b
  <2>6. InGate(s)'.time <= b \/ (~Remote(s) /\ (NotificationDue(s)' \/ Mailed(s)'))
    BY <1>2, <2>4, <2>5 DEF Patient, WillHear
  <2>7. WillHear(s, lbts[t])'
    BY <2>6 DEF WillHear, b, Remote, SourceMachine, TargetMachine
  <2> QED BY <2>4, <2>7
<1> QED BY <1>1, <1>3 DEF BlockedOK, ScannedOK

\* A timeline that has run is not blocked yet.
LEMMA RanWakeup ==
  ASSUME TypeOK, Meeting, Scheduling, [Next]_vars, NEW u \in Universes, RunEnd(u),
         WakeupOK(u), InWindow(u)', Thread(u)
  PROVE  BlockedOK(u)' /\ ScannedOK(u)'
<1>0. /\ next_window(u)' = next_window(u) /\ inbound_async' = inbound_async
      /\ pc \in [Universes -> Labels] /\ pc[u] = "run" /\ pc'[u] = "update"
      /\ state \in [Timelines -> {"START", "RUNNING", "WAITING", "ROUND", "DONE"}]
      /\ lbts' = lbts /\ UNCHANGED gateVars
  BY OwnWindow DEF RunEnd, Goto, TypeOK, ThreadTypeOK, TimelineTypeOK
<1>1. Patient(u)
  <2>1. \A s \in Stargates : InGate(s)'.time = InGate(s).time
    BY <1>0 DEF gateVars, InGate, Remote, SourceMachine, TargetMachine
  <2>2. ~HandleMail(u)
    BY <1>0 DEF HandleMail
  <2> QED BY <1>0, <2>1, <2>2, OwnPatient
<1>2. Blocked(u)' \subseteq Blocked(u)
  <2>1. state' = state \/ state' = [state EXCEPT ![ctx[u].cur] = "RUNNING"]
    <3>1. CASE ~(ctx[u].horizon < lbts[ctx[u].cur])
      BY <3>1 DEF RunEnd
    <3>2. CASE ctx[u].horizon < lbts[ctx[u].cur]
      <4>1. /\ simclock[ctx[u].cur] <= ctx[u].horizon /\ ctx[u].cur \in Timelines
        BY <1>0, ThreadFacts DEF Control, TypeOK, Running
      <4>2. simclock[ctx[u].cur] < lbts[ctx[u].cur]
        BY <3>2, <4>1, SchedulingFacts
      <4> QED BY <3>2, <4>2 DEF RunEnd, MakeRunnable
    <3> QED BY <3>1, <3>2
  <2> QED BY <1>0, <2>1 DEF Blocked, TimelinesOf
<1>3. BlockedOK(u)'
  BY <1>0, <1>1, <1>2, QuietWakeup
<1> QED BY <1>0, <1>3 DEF ScannedOK

\* The bound that is being computed is the time of a stargate already read.
LEMMA ReadWakeup ==
  ASSUME TypeOK, Meeting, Scheduling, NEW u \in Universes, ReadTime(u) \/ ReceiveMessages(u),
         WakeupOK(u), Patient(u), UNCHANGED <<gateVars, inbound_async>>,
         next_window(u)' = next_window(u)
  PROVE  ScannedOK(u)'
<1>0. /\ pc[u] = "scan" /\ pc' = pc /\ scan[u].tl \in TimelinesOf(u)
      /\ scan[u].todo \subseteq InboundAsync(scan[u].tl)
      /\ scan'[u].tl = scan[u].tl /\ scan[u].low \in Nat
      /\ \A s \in Stargates : InGate(s).time \in Nat
  BY ThreadFacts, SchedulingFacts, TimeRead, MessagesReceived
     DEF ReadTime, ReceiveMessages, Scheduling, Scans, ScanOK, Owned
<1>1. InboundAsync(scan[u].tl)' = InboundAsync(scan[u].tl)
  BY <1>0 DEF InboundAsync
<1>2. ASSUME NEW s \in InboundAsync(scan[u].tl), WillHear(s, scan[u].low),
             scan'[u].low = scan[u].low
      PROVE  WillHear(s, scan[u].low)'
  <2>1. s \in Stargates /\ target[s] \in TimelinesOf(u)
    BY <1>0 DEF InboundAsync
  <2> QED BY <1>2, <2>1, PatientKeeps
<1>3. CASE ReceiveMessages(u)
  <2>1. scan'[u].low = scan[u].low /\ scan'[u].todo = scan[u].todo
    BY <1>3, MessagesReceived
  <2> QED BY <1>0, <1>1, <1>2, <2>1 DEF WakeupOK, ScannedOK
<1>4. CASE ReadTime(u)
  <2>1. PICK r \in scan[u].todo :
          /\ r \in Stargates
          /\ scan'[u].low = Lesser(scan[u].low, InGate(r).time)
          /\ scan'[u].todo = scan[u].todo \ {r}
    BY <1>4, TimeRead
  <2>2. CASE scan'[u].low = scan[u].low
    <3>1. scan'[u].todo \subseteq scan[u].todo
      BY <2>1
    <3> QED BY <1>0, <1>1, <1>2, <2>2, <3>1 DEF WakeupOK, ScannedOK
  <2>3. CASE scan'[u].low = InGate(r).time
    <3>1. InGate(r)'.time = InGate(r).time
      BY DEF gateVars, InGate, Remote, SourceMachine, TargetMachine
    <3>2. WillHear(r, scan[u].low)'
      BY <1>0, <2>1, <2>3, <3>1 DEF WillHear
    <3>3. r \in InboundAsync(scan[u].tl)' \ scan'[u].todo
      BY <1>0, <1>1, <2>1
    <3> QED BY <3>2, <3>3 DEF ScannedOK
  <2> QED BY <1>0, <2>1, <2>2, <2>3, LesserIs
<1> QED BY <1>3, <1>4

\* The step of a thread, seen from its own universe.
LEMMA OwnWakeup ==
  ASSUME TypeOK, TypeOK', Meeting, Scheduling, [Next]_vars, NEW u \in Universes, Thread(u),
         WakeupOK(u), InWindow(u)'
  PROVE  BlockedOK(u)' /\ ScannedOK(u)'
<1>0. next_window(u)' = next_window(u) /\ inbound_async' = inbound_async
  BY OwnWindow
<1>1. CASE UpdateTime(u) \/ HandleMail(u) \/ EndScan(u) \/ RunEnd(u)
  BY <1>1, UpdateWakeup, HandleWakeup, BoundWakeup, RanWakeup
<1>2. CASE ~(UpdateTime(u) \/ HandleMail(u) \/ EndScan(u) \/ RunEnd(u))
  <2>1. UNCHANGED <<gateVars, state, lbts>>
    <3>1. UNCHANGED gateVars
      BY <1>2, OwnWindow, GatesStay
    <3>2. state' = state
      BY <1>2, StatesStay
    <3>3. lbts' = lbts
      BY <1>2, ThreadFrame
    <3> QED BY <3>1, <3>2, <3>3
  <2>2. Patient(u)
    <3>1. \A s \in Stargates : InGate(s)'.time = InGate(s).time
      BY <2>1 DEF gateVars, InGate, Remote, SourceMachine, TargetMachine
    <3> QED BY <1>0, <1>2, <3>1, OwnPatient
  <2>3. Blocked(u)' = Blocked(u)
    BY <2>1 DEF Blocked, TimelinesOf
  <2>4. pc[u] = "scan" => ReadTime(u) \/ ReceiveMessages(u)
    <3>1. CASE OpenTimeline(u) \/ Opened(u) \/ Pick(u) \/ RunEvent(u) \/ Notify(u) \/ Interrupted(u)
      BY <3>1 DEF OpenTimeline, Opened, Pick, RunEvent, Notify, Interrupted
    <3>2. CASE PollMail(u) \/ WaitMail(u) \/ EndMail(u)
      BY <3>2 DEF PollMail, WaitMail, EndMail
    <3> QED BY <1>2, <3>1, <3>2, OwnWindow DEF Thread
  <2>5. CASE ReadTime(u) \/ ReceiveMessages(u)
    <3>1. pc' = pc /\ scan'[u].tl = scan[u].tl
      BY <2>5, TimeRead, MessagesReceived DEF ReadTime, ReceiveMessages
    <3>2. BlockedOK(u)'
      BY <1>0, <2>1, <2>2, <2>3, <3>1, QuietWakeup
    <3>3. ScannedOK(u)'
      BY <1>0, <2>1, <2>2, <2>5, ReadWakeup
    <3> QED BY <3>2, <3>3
  <2>6. CASE ~(ReadTime(u) \/ ReceiveMessages(u))
    <3>1. BlockedOK(u)'
      BY <1>0, <2>1, <2>2, <2>3, <2>4, <2>6, QuietWakeup
    <3>2. ScannedOK(u)'
      <4>1. CASE pc'[u] = "scan"
        <5>1. \E t, r : BeginScan(u, t, r)
          BY <2>6, <4>1, ScanStep
        <5> QED BY <1>0, <5>1, ScanFresh
      <4> QED BY <4>1 DEF ScannedOK
    <3> QED BY <3>1, <3>2
  <2> QED BY <2>5, <2>6
<1> QED BY <1>1, <1>2

LEMMA NextWakeups ==
  TypeOK /\ Meeting /\ Agreement /\ Scheduling /\ Wakeups /\ [Next]_vars => Wakeups'
<1> SUFFICES ASSUME TypeOK, Meeting, Agreement, Scheduling, Wakeups, [Next]_vars,
                    NEW v \in Universes
             PROVE  WakeupOK(v)'
  BY DEF Wakeups
<1>0. TypeOK' /\ Scheduling' /\ WakeupOK(v)
  BY NextType, NextScheduling DEF Wakeups
<1>1. ~HasMail(v)' => ctx'[v].io = <<>>
  BY <1>0, MailTaken DEF WakeupOK
<1>2. CASE ~InWindow(v)'
  <2>1. Blocked(v)' = {}
    BY <1>0, <1>2 DEF Blocked, Scheduling, Threads, ThreadOK, TimelineOK
  <2>2. pc'[v] # "scan"
    BY <1>0, <1>2 DEF Scheduling, Threads, ThreadOK, Owned, InWindow, AtEdge, WindowLabels
  <2> QED BY <1>1, <2>1, <2>2 DEF WakeupOK
<1>3. CASE InWindow(v)' /\ Thread(v)
  <2>1. BlockedOK(v)' /\ ScannedOK(v)'
    BY <1>0, <1>3, OwnWakeup
  <2> QED BY <1>1, <2>1 DEF WakeupOK, BlockedOK, ScannedOK
<1>4. ASSUME InWindow(v)', NEW u \in Universes, Thread(u), u # v
      PROVE  WakeupOK(v)'
  <2>1. /\ pc'[v] = pc[v] /\ scan'[v] = scan[v] /\ ctx'[v] = ctx[v]
        /\ next_window(v)' = next_window(v)
        /\ \A t \in TimelinesOf(v) : state'[t] = state[t] /\ lbts'[t] = lbts[t]
    BY <1>4, OthersStay, ThreadAlone, TimelinesAlone DEF TimelinesOf
  <2>2. InWindow(v)
    BY <1>4, <2>1 DEF InWindow, AtEdge
  <2>3. Patient(v)
    BY <1>4, <2>2, ThreadPatient
  <2> QED BY <1>0, <2>1, <2>2, <2>3, KeepWakeup
<1>5. ASSUME InWindow(v)', ~(\E u \in Universes : Thread(u))
      PROVE  WakeupOK(v)'
  <2>1. \/ \E m \in Machines : Barrier(m) \/ Trained(m) \/ Writer(m)
        \/ \E n, m \in Machines : Reader(n, m)
        \/ Collective \/ UNCHANGED vars
    BY <1>5 DEF Next, Finished
  <2>2. CASE InWindow(v)
    BY <1>0, <2>1, <2>2, OutsidePatient, KeepWakeup
  <2>3. CASE ~InWindow(v)
    <3>1. Blocked(v) = {} /\ UNCHANGED state
      <4>1. Blocked(v) = {}
        BY <2>3 DEF Blocked, Scheduling, Threads, ThreadOK, TimelineOK
      <4>2. UNCHANGED tmlnVars \/ \E m \in Machines : Trained(m)
        BY <2>1 DEF Barrier, Meet, Writer, Reader, Collective, Reduce, MpiBarrier, FinishGlobal, vars
      <4> QED BY <4>1, <4>2, TrainingEnds DEF tmlnVars
    <3>2. Blocked(v)' = {}
      BY <3>1 DEF Blocked, TimelinesOf
    <3>3. pc'[v] # "scan"
      <4>1. UNCHANGED scan
        BY <2>1, OtherFrame
      <4>2. pc'[v] = "scan" => pc[v] = "scan"
        <5>1. ASSUME NEW m \in Machines, Trained(m)
              PROVE  pc'[v] = "scan" => pc[v] = "scan"
          BY <5>1, TrainingEnds
        <5> QED BY <1>5, <5>1, OtherScan
      <4> QED BY <1>5, <2>3, <4>1, <4>2 DEF InWindow, AtEdge
    <3> QED BY <1>1, <3>2, <3>3 DEF WakeupOK
  <2> QED BY <2>2, <2>3
<1> QED BY <1>2, <1>3, <1>4, <1>5

LEMMA InitWakeups == Init => Wakeups
<1> SUFFICES ASSUME Init, NEW u \in Universes PROVE WakeupOK(u)
  BY DEF Wakeups
<1>1. pc[u] = "top" /\ ctx[u].io = <<>> /\ Blocked(u) = {}
  BY DEF Init, Idle, Blocked, TimelinesOf
<1> QED BY <1>1 DEF WakeupOK

(* A universe that waits for its mailbox, with a timeline in it that could  *)
(* go on, has a notification coming: an inbound stargate of the timeline    *)
(* still holds it back, or its null message is in the mail or about to be.  *)
THEOREM NoLostWakeupHolds == Spec => []NoLostWakeup
<1>1. Init => TypeOK /\ Meeting /\ Agreement /\ Scheduling /\ Wakeups
  BY InitType, InitMeeting, InitAgrees, InitScheduling, InitWakeups
<1>2. TypeOK /\ Meeting /\ Agreement /\ Scheduling /\ Wakeups /\ [Next]_vars
        => (TypeOK /\ Meeting /\ Agreement /\ Scheduling /\ Wakeups)'
  BY NextType, NextMeeting, NextAgrees, NextScheduling, NextWakeups
<1>3. TypeOK /\ Wakeups => NoLostWakeup
  BY WakeupsSuffice
<1> QED BY <1>1, <1>2, <1>3, PTL DEF Spec

-----------------------------------------------------------------------------
(* The stages of an epoch, and how far the machines have come.             *)

Several == Cardinality(Machines) > 1
Here(s) == universe[target[s]]
There(s) == universe[source[s]]

\* The stages of an epoch, through which the threads of a machine go together.
PhaseAt(label) ==
  IF label \in {"reduce", "await", "reduced"} THEN "meet"
  ELSE IF label \in {"drain", "drain io", "mpi barrier", "drained"} THEN "drain"
  ELSE IF label \in {"train", "train global", "trained"} THEN "train"
  ELSE "before"
Phase(u) == PhaseAt(pc[u])
Phases ==
  \A u \in Universes : \A v \in Mates(u) :
     epoch_sync[u] /\ AtEdge(u) /\ Several => Phase(u) = Phase(v)

\* A machine that has met the others at an epoch is not ahead of any thread.
Passed ==
  \A m \in Machines :
     AtEpoch(m) /\ Several /\ Stage(m) \in {"meeting", "met", "training", "trained"} =>
        \A v \in Universes : synpoint[proc0[m]] <= synpoint[v]

\* The end of the epoch that a universe is in, at an epoch the one that ends.
EpochAfter(u) == IF ~InWindow(u) /\ epoch_sync[u] THEN synpoint[u] ELSE next_epoch[u]

EpochLengths ==
  \A u \in Universes :
    \/ TrainerDone(machine[u]) /\ global_reclassified[machine[u]]
    \/ next_epoch[u] <= synpoint[u] + epoch_length[machine[u]]
EpochClasses ==
  \A s \in Stargates : Remote(s) =>
    /\ gate[s].in_sync => epoch_length[SourceMachine(s)] <= min_delay[s]
    /\ rgate[s].in_sync => epoch_length[TargetMachine(s)] <= min_delay[s]

-----------------------------------------------------------------------------
LEMMA PhaseIs ==
  ASSUME NEW l
  PROVE  /\ PhaseAt(l) = "meet" <=> l \in {"reduce", "await", "reduced"}
         /\ PhaseAt(l) = "drain" <=> l \in {"drain", "drain io", "mpi barrier", "drained"}
         /\ PhaseAt(l) = "train" <=> l \in {"train", "train global", "trained"}
         /\ PhaseAt(l) # "before" <=> l \in {"reduce", "await", "reduced", "drain", "drain io",
                                      "mpi barrier", "drained", "train", "train global", "trained"}
BY DEF PhaseAt

EdgeMove(u) ==
  \/ pc[u] = "top" /\ pc'[u] = "dispatch"
  \/ Dispatch(u) /\ pc'[u] \in {"dispatched", AfterLocalEdge(u)}
  \/ pc[u] = "dispatched" /\ pc'[u] = "collect"
  \/ Collect(u) /\ pc'[u] = AfterLocalEdge(u)
  \/ SendEpoch(u) /\ pc'[u] = "epoch sent"
  \/ pc[u] = "epoch sent" /\ Barrier(machine[u])
       /\ pc'[u] = IF u = proc0[machine[u]] THEN "reduce" ELSE "reduced"
  \/ Reduce /\ pc[u] = "reduce" /\ pc'[u] = "await" /\ u = proc0[machine[u]]
  \/ Await(u) /\ pc'[u] = "reduced"
  \/ pc[u] = "reduced" /\ Barrier(machine[u]) /\ pc'[u] = "drain"
  \/ DrainMail(u) /\ pc'[u] = "drain io"
  \/ EndMail(u) /\ pc[u] = "drain io"
       /\ pc'[u] = IF u = proc0[machine[u]] THEN "mpi barrier" ELSE "drained"
  \/ MpiBarrier /\ pc[u] = "mpi barrier" /\ pc'[u] = "drained" /\ u = proc0[machine[u]]
  \/ pc[u] = "drained" /\ Barrier(machine[u])
       /\ pc'[u] = IF u = proc0[machine[u]] THEN "train" ELSE "trained"
  \/ TrainLocal(u) /\ pc'[u] \in {"train global", "trained"}
  \/ TrainGlobal(u) /\ pc'[u] = "trained"
  \/ FinishGlobal /\ pc[u] = "train global" /\ pc'[u] = "trained"

\* With no scan left over from the draining, being at an edge is a matter of the label.
LEMMA EdgeLabels ==
  ASSUME TypeOK, Scheduling, NEW u \in Universes
  PROVE  /\ AtEdge(u) <=> pc[u] \notin WindowLabels \cup {"top", "end"}
         /\ InWindow(u) <=> pc[u] \in WindowLabels
<1>1. pc[u] = "scan" => scan[u].ret # "drain io"
  BY DEF Scheduling, Threads, ThreadOK, Owned
<1> QED BY <1>1 DEF AtEdge, InWindow, WindowLabels

LEMMA EdgeMoves ==
  ASSUME TypeOK, TypeOK', Meeting, Scheduling, Scheduling', [Next]_vars,
         NEW u \in Universes, AtEdge(u)'
  PROVE  pc'[u] = pc[u] \/ EdgeMove(u)
<1>0. pc \in [Universes -> Labels] /\ machine[u] \in Machines
  BY TopologyAssumption DEF TypeOK, ThreadTypeOK
<1>1. pc'[u] \notin WindowLabels \cup {"top", "end"}
  <2>1. (pc[u] = "scan" => scan[u].ret # "drain io")'
    BY DEF Scheduling, Threads, ThreadOK, Owned
  <2> QED BY <2>1 DEF AtEdge, WindowLabels
<1>2. ASSUME Thread(u) PROVE pc'[u] = pc[u] \/ EdgeMove(u)
  <2>1. CASE Dispatch(u)
    BY <1>0, <2>1 DEF Dispatch, Goto, EdgeMove
  <2>2. CASE Collect(u)
    BY <1>0, <2>2 DEF Collect, Goto, EdgeMove
  <2>3. CASE SendEpoch(u)
    BY <1>0, <2>3 DEF SendEpoch, Goto, EdgeMove
  <2>4. CASE Await(u)
    BY <1>0, <2>4 DEF Await, Goto, EdgeMove
  <2>5. CASE TrainLocal(u)
    <3>1. pc'[u] \in {"train global", "trained"}
      BY <1>0, <2>5 DEF TrainLocal, Goto
    <3> QED BY <2>5, <3>1 DEF EdgeMove
  <2>6. CASE TrainGlobal(u)
    <3>1. pc'[u] = "trained"
      BY <1>0, <2>6 DEF TrainGlobal, Goto
    <3> QED BY <2>6, <3>1 DEF EdgeMove
  <2>7. CASE OpenTimeline(u) \/ Opened(u) \/ Pick(u)
    BY <1>0, <1>1, <2>7 DEF OpenTimeline, Opened, Pick, BeginScan, Goto, WindowLabels
  <2>8. CASE ReadTime(u) \/ ReceiveMessages(u)
    BY <2>8 DEF ReadTime, ReceiveMessages
  <2>9. CASE EndScan(u)
    <3>1. scan[u].ret # "drain io" /\ scan[u].ret \in {"open", "sched", "update", "io", "drain io"}
      BY <2>9, ScanSet DEF EndScan, Scheduling, Threads, ThreadOK, Owned, TypeOK, ThreadTypeOK
    <3>2. pc'[u] \in WindowLabels
      BY <1>0, <2>9, <3>1 DEF EndScan, Goto, WindowLabels
    <3> QED BY <1>1, <3>2
  <2>10. CASE RunEvent(u) \/ RunEnd(u) \/ Notify(u) \/ Interrupted(u)
    BY <1>0, <1>1, <2>10 DEF RunEvent, RunEnd, Notify, Interrupted, Goto, WindowLabels, threadVars
  <2>11. CASE UpdateTime(u)
    BY <1>0, <1>1, <2>11 DEF UpdateTime, SetTime, BeginScan, Goto, WindowLabels
  <2>12. CASE PollMail(u) \/ WaitMail(u)
    BY <1>0, <1>1, <2>12 DEF PollMail, WaitMail, TakeMail, Goto, WindowLabels
  <2>13. CASE DrainMail(u)
    BY <1>0, <2>13 DEF DrainMail, TakeMail, Goto, EdgeMove
  <2>14. CASE HandleMail(u)
    BY <1>0, <1>1, <2>14 DEF HandleMail, HandleNull, BeginScan, Goto, WindowLabels
  <2>15. CASE EndMail(u)
    BY <1>0, <1>1, <2>15 DEF EndMail, AfterMail, BeginScan, Goto, WindowLabels, EdgeMove
  <2>16. CASE AdvanceWindow(u)
    BY <1>0, <1>1, <2>16 DEF AdvanceWindow, Goto
  <2> QED BY <1>2, <2>1, <2>2, <2>3, <2>4, <2>5, <2>6, <2>7, <2>8, <2>9, <2>10, <2>11, <2>12,
             <2>13, <2>14, <2>15, <2>16 DEF Thread
<1>3. ASSUME NEW w \in Universes \ {u}, Thread(w) PROVE pc'[u] = pc[u]
  BY <1>3, OthersStay
<1>4. ASSUME NEW m \in Machines, Barrier(m) PROVE pc'[u] = pc[u] \/ EdgeMove(u)
  <2>1. CASE machine[u] # m
    BY <1>4, <2>1 DEF Barrier, Meet
  <2>2. CASE machine[u] = m
    <3>1. \A here, a, b : Meet(m, here, a, b) =>
            pc[u] = here /\ pc'[u] = IF u = proc0[m] THEN a ELSE b
      BY <2>2 DEF Meet, UniversesOf
    <3>2. CASE Meet(m, "top", "dispatch", "dispatch")
      BY <3>1, <3>2 DEF EdgeMove
    <3>3. CASE Meet(m, "dispatched", "collect", "collect")
      BY <3>1, <3>3 DEF EdgeMove
    <3>4. CASE Meet(m, "epoch sent", "reduce", "reduced")
      BY <1>4, <2>2, <3>1, <3>4 DEF EdgeMove
    <3>5. CASE Meet(m, "reduced", "drain", "drain")
      BY <1>4, <2>2, <3>1, <3>5 DEF EdgeMove
    <3>6. CASE Meet(m, "drained", "train", "trained")
      BY <1>4, <2>2, <3>1, <3>6 DEF EdgeMove
    <3> QED BY <1>4, <3>2, <3>3, <3>4, <3>5, <3>6 DEF Barrier
  <2> QED BY <2>1, <2>2
<1>5. ASSUME NEW m \in Machines, Trained(m) PROVE pc'[u] = pc[u]
  BY <1>1, <1>5, TrainingEnds DEF WindowLabels
<1>6. CASE Collective
  <2>1. CASE Reduce
    BY <1>0, <2>1 DEF Reduce, EdgeMove
  <2>2. CASE MpiBarrier
    BY <1>0, <2>2 DEF MpiBarrier, EdgeMove
  <2>3. CASE FinishGlobal
    BY <1>0, <2>3 DEF FinishGlobal, EdgeMove
  <2> QED BY <1>6, <2>1, <2>2, <2>3 DEF Collective
<1>7. ASSUME \/ \E m \in Machines : Writer(m)
             \/ \E n, m \in Machines : Reader(n, m)
             \/ UNCHANGED vars
      PROVE  pc'[u] = pc[u]
  BY <1>7 DEF Writer, Reader, vars, threadVars
<1> QED BY <1>2, <1>3, <1>4, <1>5, <1>6, <1>7 DEF Next, Finished

SentEpoch(u) ==
  epoch_sync[u] /\ (pc[u] = "epoch sent" \/ Phase(u) # "before")
Waited(m) ==
  /\ Several /\ AtEpoch(m)
  /\ pc[proc0[m]] = "reduced" \/ Phase(proc0[m]) \in {"drain", "train"}
Emptied(u) ==
  /\ Several /\ epoch_sync[u]
  /\ pc[u] \in {"drain io", "mpi barrier", "drained"} \/ Phase(u) = "train"

LEMMA PhaseEdge ==
  ASSUME NEW u \in Universes, Phase(u) # "before" \/ pc[u] = "epoch sent"
  PROVE  AtEdge(u) /\ ~InWindow(u)
<1>1. pc[u] \in {"reduce", "await", "reduced", "drain", "drain io", "mpi barrier", "drained",
               "train", "train global", "trained", "epoch sent"}
  BY PhaseIs DEF Phase
<1> QED BY <1>1 DEF AtEdge, InWindow, WindowLabels

LEMMA EpochStays ==
  ASSUME TypeOK, Meeting, [Next]_vars, NEW v \in Universes
  PROVE  \/ AdvanceWindow(v)
         \/ Trained(machine[v])
         \/ /\ synpoint'[v] = synpoint[v] /\ next_epoch'[v] = next_epoch[v]
            /\ next_decade'[v] = next_decade[v] /\ decade_sync'[v] = decade_sync[v]
            /\ epoch_sync'[v] = epoch_sync[v]
            /\ InWindow(v)' <=> InWindow(v)
<1>1. ASSUME NEW u \in Universes, Thread(u), ~AdvanceWindow(v)
      PROVE  next_epoch'[v] = next_epoch[v]
  <2>1. CASE AdvanceWindow(u)
    <3>1. Together
      BY DEF Meeting
    <3>2. v # u
      BY <1>1, <2>1
    <3> QED BY <2>1, <3>1, <3>2, WindowLeft
  <2>2. CASE ~AdvanceWindow(u)
    BY <1>1, <2>2, ThreadFrame DEF windowVars
  <2> QED BY <2>1, <2>2
<1>2. ASSUME ~(\E u \in Universes : Thread(u)), ~Trained(machine[v])
      PROVE  next_epoch'[v] = next_epoch[v]
  <2>1. CASE \E m \in Machines : Trained(m)
    <3>1. PICK m \in Machines : Trained(m)
      BY <2>1
    <3>2. machine[v] # m
      BY <1>2, <3>1
    <3> QED BY <3>1, <3>2, TrainingEnds
  <2>2. CASE ~(\E m \in Machines : Trained(m))
    BY <1>2, <2>2, OtherFrame DEF windowVars, Next, Finished
  <2> QED BY <2>1, <2>2
<1> QED BY <1>1, <1>2, EdgesStay

LEMMA EdgeKept ==
  ASSUME TypeOK, TypeOK', Meeting, Scheduling, Scheduling', [Next]_vars,
         NEW u \in Universes, AtEdge(u)'
  PROVE  /\ synpoint'[u] = synpoint[u] /\ next_epoch'[u] = next_epoch[u]
         /\ epoch_sync'[u] = epoch_sync[u]
         /\ ~InWindow(u) /\ ~InWindow(u)'
         /\ AtEdge(u) \/ pc[u] = "top"
<1>0. machine[u] \in Machines
  BY TopologyAssumption
<1>1. pc'[u] \notin WindowLabels \cup {"top", "end"} /\ ~InWindow(u)'
  <2>1. (pc[u] = "scan" => scan[u].ret # "drain io")'
    BY DEF Scheduling, Threads, ThreadOK, Owned
  <2> QED BY <2>1 DEF AtEdge, InWindow, WindowLabels
<1>2. ~AdvanceWindow(u)
  <2> SUFFICES ASSUME AdvanceWindow(u) PROVE FALSE
    OBVIOUS
  <2>1. Together
    BY DEF Meeting
  <2> QED BY <1>1, <2>1, WindowLeft
<1>3. ~Trained(machine[u])
  BY <1>0, <1>1, TrainingEnds DEF WindowLabels
<1>4. /\ synpoint'[u] = synpoint[u] /\ next_epoch'[u] = next_epoch[u]
      /\ epoch_sync'[u] = epoch_sync[u] /\ ~InWindow(u)
  BY <1>1, <1>2, <1>3, EpochStays
<1>5. pc[u] # "end"
  <2> SUFFICES ASSUME pc[u] = "end" PROVE FALSE
    OBVIOUS
  <2>1. pc'[u] = pc[u] \/ EdgeMove(u)
    BY EdgeMoves
  <2>2. ~EdgeMove(u)
    BY DEF EdgeMove, Dispatch, Collect, SendEpoch, Await, DrainMail, TrainLocal, TrainGlobal
  <2> QED BY <1>1, <2>1, <2>2
<1>6. AtEdge(u) \/ pc[u] = "top"
  BY <1>4, <1>5, EdgeLabels
<1> QED BY <1>1, <1>4, <1>6

\* Which step brings a thread further at an epoch.
LEMMA EpochMoves ==
  ASSUME TypeOK, TypeOK', Meeting, Scheduling, Scheduling', [Next]_vars, Several,
         NEW u \in Universes, AtEdge(u)', epoch_sync'[u]
  PROVE  /\ epoch_sync[u]
         /\ SentEpoch(u)' => SentEpoch(u) \/ SendEpoch(u)
         /\ Emptied(u)' => Emptied(u) \/ DrainMail(u)
         /\ \/ Phase(u)' = Phase(u)
            \/ Barrier(machine[u]) /\ pc[u] \in {"epoch sent", "reduced", "drained"}
         /\ u = proc0[machine[u]] =>
              /\ Waited(machine[u])' => Waited(machine[u]) \/ Await(u)
              /\ Phase(u)' # "before" /\ pc'[u] # "reduce" =>
                   (Phase(u) # "before" /\ pc[u] # "reduce") \/ Reduce
<1>0. epoch_sync[u] /\ ~InWindow(u) /\ ~InWindow(u)'
  BY EdgeKept
<1>1. AfterLocalEdge(u) = "epoch"
  BY <1>0 DEF AfterLocalEdge, Several
<1>2. machine[u] \in Machines
  BY TopologyAssumption
<1>3. u = proc0[machine[u]] => AtEpoch(machine[u]) /\ AtEpoch(machine[u])'
  BY <1>0 DEF AtEpoch
<1> DEFINE Done(x, y) ==
             /\ y \in {"epoch sent", "reduce", "await", "reduced", "drain", "drain io",
                       "mpi barrier", "drained", "train", "train global", "trained"} =>
                  \/ x \in {"epoch sent", "reduce", "await", "reduced", "drain", "drain io",
                            "mpi barrier", "drained", "train", "train global", "trained"}
                  \/ SendEpoch(u)
             /\ y \in {"drain io", "mpi barrier", "drained", "train", "train global", "trained"} =>
                  \/ x \in {"drain io", "mpi barrier", "drained", "train", "train global", "trained"}
                  \/ DrainMail(u)
             /\ \/ Phase(u)' = Phase(u)
                \/ Barrier(machine[u]) /\ x \in {"epoch sent", "reduced", "drained"}
             /\ u = proc0[machine[u]] =>
                  /\ y \in {"reduced", "drain", "drain io", "mpi barrier", "drained", "train",
                             "train global", "trained"} =>
                       \/ x \in {"reduced", "drain", "drain io", "mpi barrier", "drained", "train",
                                 "train global", "trained"}
                       \/ Await(u)
                  /\ y \in {"await", "reduced", "drain", "drain io", "mpi barrier", "drained", "train",
                             "train global", "trained"} =>
                       \/ x \in {"await", "reduced", "drain", "drain io", "mpi barrier", "drained",
                                 "train", "train global", "trained"}
                       \/ Reduce
<1> USE DEF Phase, PhaseAt
<1>4. ASSUME pc'[u] = pc[u]
      PROVE  Done(pc[u], pc'[u])
  BY <1>4
<1>5. ASSUME pc[u] = "top" /\ pc'[u] = "dispatch"
      PROVE  Done(pc[u], pc'[u])
  BY <1>5
<1>6. ASSUME Dispatch(u) /\ pc'[u] \in {"dispatched", AfterLocalEdge(u)}
      PROVE  Done(pc[u], pc'[u])
  BY <1>1, <1>6 DEF Dispatch
<1>7. ASSUME pc[u] = "dispatched" /\ pc'[u] = "collect"
      PROVE  Done(pc[u], pc'[u])
  BY <1>7
<1>8. ASSUME Collect(u) /\ pc'[u] = AfterLocalEdge(u)
      PROVE  Done(pc[u], pc'[u])
  BY <1>1, <1>8 DEF Collect
<1>9. ASSUME SendEpoch(u) /\ pc'[u] = "epoch sent"
      PROVE  Done(pc[u], pc'[u])
  BY <1>9 DEF SendEpoch
<1>10. ASSUME pc[u] = "epoch sent" /\ Barrier(machine[u])
              /\ pc'[u] = IF u = proc0[machine[u]] THEN "reduce" ELSE "reduced"
      PROVE  Done(pc[u], pc'[u])
  BY <1>10
<1>11. ASSUME Reduce /\ pc[u] = "reduce" /\ pc'[u] = "await" /\ u = proc0[machine[u]]
      PROVE  Done(pc[u], pc'[u])
  BY <1>11
<1>12. ASSUME Await(u) /\ pc'[u] = "reduced"
      PROVE  Done(pc[u], pc'[u])
  BY <1>12 DEF Await
<1>13. ASSUME pc[u] = "reduced" /\ Barrier(machine[u]) /\ pc'[u] = "drain"
      PROVE  Done(pc[u], pc'[u])
  BY <1>13
<1>14. ASSUME DrainMail(u) /\ pc'[u] = "drain io"
      PROVE  Done(pc[u], pc'[u])
  BY <1>14 DEF DrainMail
<1>15. ASSUME EndMail(u) /\ pc[u] = "drain io"
              /\ pc'[u] = IF u = proc0[machine[u]] THEN "mpi barrier" ELSE "drained"
      PROVE  Done(pc[u], pc'[u])
  BY <1>15
<1>16. ASSUME MpiBarrier /\ pc[u] = "mpi barrier" /\ pc'[u] = "drained" /\ u = proc0[machine[u]]
      PROVE  Done(pc[u], pc'[u])
  BY <1>16
<1>17. ASSUME pc[u] = "drained" /\ Barrier(machine[u])
              /\ pc'[u] = IF u = proc0[machine[u]] THEN "train" ELSE "trained"
      PROVE  Done(pc[u], pc'[u])
  BY <1>17
<1>18. ASSUME TrainLocal(u) /\ pc'[u] \in {"train global", "trained"}
      PROVE  Done(pc[u], pc'[u])
  BY <1>18 DEF TrainLocal
<1>19. ASSUME TrainGlobal(u) /\ pc'[u] = "trained"
      PROVE  Done(pc[u], pc'[u])
  BY <1>19 DEF TrainGlobal
<1>20. ASSUME FinishGlobal /\ pc[u] = "train global" /\ pc'[u] = "trained"
      PROVE  Done(pc[u], pc'[u])
  BY <1>20
<1>21. pc'[u] = pc[u] \/ EdgeMove(u)
  BY EdgeMoves
<1>22. Done(pc[u], pc'[u])
  BY <1>21, <1>4, <1>5, <1>6, <1>7, <1>8, <1>9, <1>10, <1>11, <1>12, <1>13, <1>14, <1>15,
     <1>16, <1>17, <1>18, <1>19, <1>20 DEF EdgeMove
<1> HIDE DEF PhaseAt
<1>23. /\ SentEpoch(u)' => SentEpoch(u) \/ SendEpoch(u)
       /\ Emptied(u)' => Emptied(u) \/ DrainMail(u)
  BY <1>0, <1>22, PhaseIs DEF SentEpoch, Emptied
<1>24. /\ \/ Phase(u)' = Phase(u)
          \/ Barrier(machine[u]) /\ pc[u] \in {"epoch sent", "reduced", "drained"}
  BY <1>22
<1>25. ASSUME u = proc0[machine[u]]
       PROVE  /\ Waited(machine[u])' => Waited(machine[u]) \/ Await(u)
              /\ Phase(u)' # "before" /\ pc'[u] # "reduce" =>
                   (Phase(u) # "before" /\ pc[u] # "reduce") \/ Reduce
  <2>1. Waited(machine[u])' => pc'[u] = "reduced" \/ Phase(u)' \in {"drain", "train"}
    BY <1>25 DEF Waited
  <2>2. pc[u] = "reduced" \/ Phase(u) \in {"drain", "train"} => Waited(machine[u])
    BY <1>3, <1>25 DEF Waited
  <2>3. pc'[u] = "reduced" \/ Phase(u)' \in {"drain", "train"} =>
          pc[u] = "reduced" \/ Phase(u) \in {"drain", "train"} \/ Await(u)
    BY <1>22, <1>25, PhaseIs
  <2>4. Phase(u)' # "before" /\ pc'[u] # "reduce" => (Phase(u) # "before" /\ pc[u] # "reduce") \/ Reduce
    BY <1>22, <1>25, PhaseIs
  <2> QED BY <2>1, <2>2, <2>3, <2>4
<1> QED BY <1>0, <1>23, <1>24, <1>25

LEMMA NextPhases ==
  ASSUME TypeOK, TypeOK', Meeting, Meeting', Scheduling, Scheduling', Phases, [Next]_vars
  PROVE  Phases'
<1> SUFFICES ASSUME NEW u \in Universes, NEW v \in Mates(u), epoch_sync'[u], AtEdge(u)', Several
             PROVE  Phase(u)' = Phase(v)'
  BY DEF Phases, Mates, Several
<1>1. v \in Universes /\ machine[v] = machine[u] /\ machine[u] \in Machines
  BY TopologyAssumption DEF Mates
<1>2. AtEdge(v)'
  BY DEF Meeting, Together, Mates
<1>3. epoch_sync'[v]
  <2>1. (InWindow(u) <=> InWindow(v))'
    BY <1>1, <1>2, EdgeKept
  <2>2. SameEdge(u, v)'
    BY <2>1 DEF Meeting, Edges, SameEdges, Mates
  <2> QED BY <2>2 DEF SameEdge
<1>4. CASE Barrier(machine[u]) /\ (pc[u] \in {"epoch sent", "reduced", "drained"}
                                   \/ pc[v] \in {"epoch sent", "reduced", "drained"})
  <2>1. \A here, a, b : Meet(machine[u], here, a, b) =>
          /\ pc[u] = here /\ pc'[u] = IF u = proc0[machine[u]] THEN a ELSE b
          /\ pc[v] = here /\ pc'[v] = IF v = proc0[machine[u]] THEN a ELSE b
    BY <1>1 DEF Meet, UniversesOf
  <2>2. CASE Meet(machine[u], "top", "dispatch", "dispatch")
    <3>1. pc[u] = "top" /\ pc[v] = "top"
      BY <2>1, <2>2
    <3> QED BY <1>4, <3>1
  <2>3. CASE Meet(machine[u], "dispatched", "collect", "collect")
    BY <2>1, <2>3 DEF Phase
  <2>4. CASE Meet(machine[u], "epoch sent", "reduce", "reduced")
    <3>0. pc'[u] \in {"reduce", "reduced"} /\ pc'[v] \in {"reduce", "reduced"}
      BY <2>1, <2>4
    <3>1. PhaseAt(pc'[u]) = "meet" /\ PhaseAt(pc'[v]) = "meet"
      BY <3>0 DEF PhaseAt
    <3> QED BY <3>1 DEF Phase
  <2>5. CASE Meet(machine[u], "reduced", "drain", "drain")
    <3>1. pc'[u] = "drain" /\ pc'[v] = "drain"
      BY <2>1, <2>5
    <3> QED BY <3>1 DEF Phase
  <2>6. CASE Meet(machine[u], "drained", "train", "trained")
    <3>0. pc'[u] \in {"train", "trained"} /\ pc'[v] \in {"train", "trained"}
      BY <2>1, <2>6
    <3>1. PhaseAt(pc'[u]) = "train" /\ PhaseAt(pc'[v]) = "train"
      BY <3>0 DEF PhaseAt
    <3> QED BY <3>1 DEF Phase
  <2> QED BY <1>4, <2>2, <2>3, <2>4, <2>5, <2>6 DEF Barrier
<1>5. CASE ~(Barrier(machine[u]) /\ (pc[u] \in {"epoch sent", "reduced", "drained"}
                                   \/ pc[v] \in {"epoch sent", "reduced", "drained"}))
  <2>1. Phase(u)' = Phase(u) /\ epoch_sync[u]
    BY <1>5, EpochMoves
  <2>2. Phase(v)' = Phase(v) /\ epoch_sync[v]
    BY <1>1, <1>2, <1>3, <1>5, EpochMoves
  <2>3. CASE AtEdge(u)
    BY <2>1, <2>2, <2>3 DEF Phases
  <2>4. CASE AtEdge(v)
    <3>1. u \in Mates(v)
      BY <1>1 DEF Mates
    <3> QED BY <1>1, <2>1, <2>2, <2>4, <3>1 DEF Phases
  <2>5. CASE ~AtEdge(u) /\ ~AtEdge(v)
    <3>1. pc[u] = "top" /\ pc[v] = "top"
      BY <1>1, <1>2, <2>5, EdgeKept
    <3> QED BY <2>1, <2>2, <3>1 DEF Phase
  <2> QED BY <2>3, <2>4, <2>5
<1> QED BY <1>4, <1>5

LEMMA SynpointRises ==
  ASSUME TypeOK, Meeting, [Next]_vars, NEW v \in Universes
  PROVE  synpoint[v] <= synpoint'[v]
<1>1. synpoint[v] \in Nat
  BY WindowFacts DEF TypeOK
<1>2. CASE AdvanceWindow(v)
  <2>1. synpoint'[v] = next_window(v)
    BY <1>2, WindowLeft DEF Meeting
  <2>2. next_window(v) \in Nat /\ synpoint[v] <= next_window(v)
    <3>1. synpoint[v] <= next_decade[v] /\ synpoint[v] <= next_epoch[v]
      BY DEF Meeting, Edges, Bounds
    <3>2. next_window(v) = next_decade[v] \/ next_window(v) = next_epoch[v]
      BY WindowFacts DEF TypeOK
    <3>3. next_window(v) \in Nat
      BY WindowFacts DEF TypeOK
    <3> QED BY <3>1, <3>2, <3>3
  <2> QED BY <2>1, <2>2
<1>3. CASE Trained(machine[v])
  <2>1. synpoint' = synpoint
    BY <1>3, TopologyAssumption, TrainingEnds
  <2> QED BY <1>1, <2>1
<1>4. CASE synpoint'[v] = synpoint[v]
  BY <1>1, <1>4
<1> QED BY <1>2, <1>3, <1>4, EpochStays

\* At an edge the mates of a thread are at the same one.
LEMMA MatesAtEdge ==
  ASSUME TypeOK, Meeting, Scheduling, NEW u \in Universes, AtEdge(u), NEW v \in Mates(u)
  PROVE  AtEdge(v) /\ ~InWindow(v) /\ ~InWindow(u) /\ SameEdge(u, v)
<1>1. AtEdge(v) /\ v \in Universes
  BY DEF Meeting, Together, Mates
<1>2. ~InWindow(u) /\ ~InWindow(v)
  BY <1>1 DEF InWindow
<1> QED BY <1>1, <1>2 DEF Meeting, Edges, SameEdges

LEMMA StagePhase ==
  ASSUME TypeOK, Scheduling, NEW m \in Machines
  PROVE  /\ Stage(m) = "meeting" <=>
              pc[proc0[m]] \in {"await", "reduced", "drain", "drain io", "mpi barrier"}
         /\ Stage(m) = "met" <=> pc[proc0[m]] \in {"drained", "train"}
         /\ Stage(m) = "training" <=> pc[proc0[m]] = "train global"
         /\ Stage(m) = "trained" <=> pc[proc0[m]] = "trained"
         /\ Stage(m) = "sending" <=> pc[proc0[m]] \in {"epoch", "epoch sent", "reduce"}
         /\ Stage(m) \in {"meeting", "met", "training", "trained"} <=>
              Phase(proc0[m]) # "before" /\ pc[proc0[m]] # "reduce"
         /\ Waited(m) => Stage(m) \in {"meeting", "met", "training", "trained"}
<1>1. proc0[m] \in Universes
  BY TopologyAssumption
<1>2. pc[proc0[m]] = "scan" => scan[proc0[m]].ret # "drain io"
  BY <1>1 DEF Scheduling, Threads, ThreadOK, Owned
<1> QED BY <1>2, PhaseIs DEF Stage, Phase, Waited

LEMMA NextPassed ==
  ASSUME TypeOK, TypeOK', Meeting, Agreement, Scheduling, Scheduling', Passed, [Next]_vars
  PROVE  Passed'
<1> SUFFICES ASSUME NEW m \in Machines, AtEpoch(m)', Several,
                    Stage(m)' \in {"meeting", "met", "training", "trained"},
                    NEW v \in Universes
             PROVE  synpoint'[proc0[m]] <= synpoint'[v]
  BY DEF Passed, Several
<1> DEFINE p == proc0[m]
<1>1. p \in Universes /\ machine[p] = m /\ machine[v] \in Machines
      /\ proc0[machine[v]] \in Universes /\ machine[proc0[machine[v]]] = machine[v]
  BY TopologyAssumption
<1>2. Phase(p)' # "before" /\ pc'[p] # "reduce"
  <2>1. (Stage(m) \in {"meeting", "met", "training", "trained"} <=>
              Phase(proc0[m]) # "before" /\ pc[proc0[m]] # "reduce")'
    <3>1. (pc[p] = "scan" => scan[p].ret # "drain io")'
      BY <1>1 DEF Scheduling, Threads, ThreadOK, Owned
    <3> QED BY <3>1, PhaseIs DEF Stage, Phase
  <2> QED BY <2>1
<1>3. AtEdge(p)'
  <2>1. pc'[p] \in {"reduce", "await", "reduced", "drain", "drain io", "mpi barrier", "drained",
                   "train", "train global", "trained"}
    BY <1>2, PhaseIs DEF Phase
  <2> QED BY <2>1 DEF AtEdge, WindowLabels
<1>4. epoch_sync'[p]
  BY DEF AtEpoch
<1>5. synpoint'[p] = synpoint[p] /\ epoch_sync[p] /\ ~InWindow(p)
  BY <1>1, <1>3, <1>4, EdgeKept
<1>6. synpoint[p] <= synpoint[v]
  <2>1. CASE Phase(p) # "before" /\ pc[p] # "reduce"
    <3>1. Stage(m) \in {"meeting", "met", "training", "trained"} /\ AtEpoch(m)
      BY <1>5, <2>1, StagePhase DEF AtEpoch
    <3> QED BY <3>1 DEF Passed
  <2>2. CASE Reduce
    <3> DEFINE n == machine[v]
    <3>1. pc[p] = "reduce" /\ pc[proc0[n]] = "reduce"
      BY <1>1, <2>2 DEF Reduce
    <3>2. Stage(m) = "sending" /\ Stage(n) = "sending"
      BY <1>1, <3>1, StagePhase
    <3>3. epoch_sync[proc0[n]] /\ AtEdge(proc0[n]) /\ ~InWindow(proc0[n])
      BY <1>1, <3>1, <3>2 DEF Agreement, Stages, StageOK, AtEdge, InWindow, WindowLabels
    <3>4. Expected(m) = Journey(m, synpoint[p]) /\ Expected(n) = Journey(n, synpoint[proc0[n]])
      BY <1>5, <3>2, <3>3 DEF Expected, AtEpoch
    <3>5. synpoint[p] = synpoint[proc0[n]]
      BY <1>1, <3>4, SamePlace
    <3>6. SameEdge(proc0[n], v)
      BY <1>1, <3>3, MatesAtEdge DEF Mates
    <3>7. synpoint[p] \in Nat
      BY <1>1, WindowFacts DEF TypeOK
    <3> QED BY <3>5, <3>6, <3>7 DEF SameEdge
  <2> QED BY <1>1, <1>2, <1>3, <1>4, <2>1, <2>2, EpochMoves
<1>7. synpoint[v] <= synpoint'[v]
  BY SynpointRises
<1>8. synpoint[p] \in Nat /\ synpoint[v] \in Nat /\ synpoint'[v] \in Nat
  BY <1>1 DEF TypeOK, WindowTypeOK
<1> QED BY <1>5, <1>6, <1>7, <1>8

-----------------------------------------------------------------------------
(* What global training changes at an epoch.                               *)

\* A global round ends on the machines of M, which classify with threshold th.
Reclassifies(M, th, now) ==
  /\ ClassifyGlobal(M, th.thresh, now)
  /\ \A v \in Universes :
       pc'[v] = pc[v] \/ (pc[v] = "train global" /\ pc'[v] = "trained")
  /\ \A m \in M : /\ TrainsGlobally(m) /\ ~training_finished[m] /\ pc'[proc0[m]] = "trained"
                  /\ epoch_length'[m] = GlobalLength(th) /\ global_reclassified'[m]
  /\ \A m \in Machines \ M :
       /\ epoch_length'[m] = epoch_length[m] /\ global_roundup'[m] = global_roundup[m]
       /\ training_finished'[m] = training_finished[m]
       /\ global_reclassified'[m] = global_reclassified[m]
  /\ \A v \in Universes : machine[v] \in M =>
       AtEdge(v) /\ ~InWindow(v) /\ epoch_sync[v] /\ synpoint[v] = now
  /\ UNCHANGED <<tmlnVars, mailVars, binVars, netVars, windowVars, localVars, ctx, scan,
                 runnable, sent>>

GlobalRoundEnds ==
  \E M \in SUBSET Machines : \E th \in [thresh : Nat, training : BOOLEAN] : \E now \in Nat :
     Reclassifies(M, th, now)

LEMMA TrialEnds ==
  ASSUME TypeOK, Meeting, NEW u \in Universes, TrainGlobal(u)
  PROVE  GlobalRoundEnds
<1> DEFINE m == machine[u]
           i == IF StartingGlobal(m) THEN 1 ELSE g_idx[m] + 1
           th == [thresh |-> global_thresholds[i], training |-> TRUE]
<1>0. /\ m \in Machines /\ WindowTypeOK /\ pc[u] = "train global" /\ ~LastGlobalRound(m)
      /\ \A n \in Machines : proc0[n] \in Universes /\ machine[proc0[n]] = n
  BY TopologyAssumption DEF TypeOK, TrainGlobal
<1>1. /\ ClassifyGlobal({m}, global_thresholds[i], synpoint[u])
      /\ epoch_length' = [epoch_length EXCEPT ![m] = global_thresholds[i]]
      /\ global_roundup' = [global_roundup EXCEPT ![m] = @ + global_round]
      /\ global_reclassified' = [global_reclassified EXCEPT ![m] = TRUE]
      /\ UNCHANGED <<tmlnVars, mailVars, binVars, netVars, windowVars, localVars,
                     training_finished, ctx, scan, runnable, sent>>
      /\ pc' = [pc EXCEPT ![u] = "trained"] /\ pc \in [Universes -> Labels]
  BY DEF TrainGlobal, Goto, TypeOK, ThreadTypeOK
<1>2. u = proc0[m]
  BY <1>0 DEF Meeting, Edges, Trainers
<1>3. TrainsGlobally(m)
  BY <1>0, <1>2 DEF TrainsGlobally
<1>4. i \in Nat /\ global_thresholds[i] \in Nat
  BY <1>0, NextThreshold
<1>5. th \in [thresh : Nat, training : BOOLEAN] /\ GlobalLength(th) = global_thresholds[i]
      /\ th.thresh = global_thresholds[i]
  BY <1>4 DEF GlobalLength
<1>6. synpoint[u] \in Nat
  BY <1>0 DEF WindowTypeOK
<1>7. \A v \in Universes : machine[v] \in {m} =>
        AtEdge(v) /\ ~InWindow(v) /\ epoch_sync[v] /\ synpoint[v] = synpoint[u]
  <2>1. \A v \in Universes : machine[v] = m =>
          AtEdge(v) /\ ~InWindow(v) /\ epoch_sync[v] /\ synpoint[v] = global_roundup[m]
    BY <1>0, <1>3, AtGlobalTraining
  <2>2. synpoint[u] = global_roundup[m]
    BY <2>1
  <2> QED BY <2>1, <2>2
<1>8. ~training_finished[m]
  BY <1>0, <1>3, AtGlobalTraining
<1> HIDE DEF m, i, th
<1>9. \A n \in {m} : /\ TrainsGlobally(n) /\ ~training_finished[n] /\ pc'[proc0[n]] = "trained"
                     /\ epoch_length'[n] = GlobalLength(th) /\ global_reclassified'[n]
  BY <1>0, <1>1, <1>2, <1>3, <1>5, <1>8 DEF WindowTypeOK
<1>10. \A n \in Machines \ {m} :
         /\ epoch_length'[n] = epoch_length[n] /\ global_roundup'[n] = global_roundup[n]
         /\ training_finished'[n] = training_finished[n]
         /\ global_reclassified'[n] = global_reclassified[n]
  BY <1>0, <1>1 DEF WindowTypeOK
<1>11. \A v \in Universes : pc'[v] = pc[v] \/ (pc[v] = "train global" /\ pc'[v] = "trained")
  BY <1>0, <1>1
<1>12. Reclassifies({m}, th, synpoint[u])
  BY <1>1, <1>11, <1>5, <1>7, <1>9, <1>10 DEF Reclassifies
<1>13. {m} \in SUBSET Machines
  BY <1>0
<1> QED BY <1>5, <1>6, <1>12, <1>13 DEF GlobalRoundEnds

LEMMA TrialsEnd ==
  ASSUME TypeOK, Meeting, Agreement, FinishGlobal
  PROVE  GlobalRoundEnds
<1> DEFINE now == synpoint[proc0[CHOOSE m \in Machines : TRUE]]
<1>0. /\ WindowTypeOK /\ \A n \in Machines : proc0[n] \in Universes /\ machine[proc0[n]] = n
      /\ \A v \in Universes : machine[v] \in Machines
  BY TopologyAssumption DEF TypeOK
<1>1. PICK thresh \in IF \A m \in Machines : StartingGlobal(m) THEN {global_thresh}
                      ELSE Range(global_thresholds) :
        /\ ClassifyGlobal(Machines, thresh, now)
        /\ epoch_length' = [m \in Machines |->
                              GlobalLength([thresh |-> thresh, training |-> FALSE])]
  BY DEF FinishGlobal
<1> DEFINE th == [thresh |-> thresh, training |-> FALSE]
<1>2. thresh \in Nat
  <2>1. \A x \in Range(global_thresholds) : x \in Nat
    BY ThresholdType DEF Range
  <2> QED BY <1>1, <2>1, ParameterAssumption
<1>3. \A m \in Machines : TrainsGlobally(m) /\ ~training_finished[m] /\ global_reclassified'[m]
                          /\ pc'[proc0[m]] = "trained"
  <2>1. \A m \in Machines : TrainsGlobally(m) /\ global_reclassified'[m] /\ pc'[proc0[m]] = "trained"
    BY <1>0 DEF FinishGlobal, TrainsGlobally
  <2> QED BY <2>1, AtGlobalTraining
<1>4. ASSUME NEW v \in Universes
      PROVE  AtEdge(v) /\ ~InWindow(v) /\ epoch_sync[v] /\ synpoint[v] = now
  <2>1. machine[v] \in Machines /\ (CHOOSE m \in Machines : TRUE) \in Machines
    BY <1>0
  <2>2. AtEdge(v) /\ ~InWindow(v) /\ epoch_sync[v] /\ synpoint[v] = global_roundup[machine[v]]
    BY <1>3, <2>1, AtGlobalTraining
  <2>3. synpoint[proc0[machine[v]]] = global_roundup[machine[v]]
    BY <1>0, <1>3, <2>1, AtGlobalTraining
  <2>4. synpoint[proc0[machine[v]]] = now
    BY <2>1, FinishTogether
  <2> QED BY <2>2, <2>3, <2>4
<1>5. now \in Nat
  <2>1. (CHOOSE m \in Machines : TRUE) \in Machines
    BY TopologyAssumption
  <2>2. proc0[CHOOSE m \in Machines : TRUE] \in Universes
    BY <1>0, <2>1
  <2> QED BY <1>0, <2>2 DEF WindowTypeOK
<1>6. /\ UNCHANGED <<tmlnVars, mailVars, binVars, netVars, windowVars, localVars, ctx, scan,
                     runnable, sent>>
      /\ \A v \in Universes : pc'[v] = pc[v] \/ (pc[v] = "train global" /\ pc'[v] = "trained")
  BY DEF FinishGlobal
<1>7. th \in [thresh : Nat, training : BOOLEAN] /\ th.thresh = thresh
  BY <1>2
<1>8. \A m \in Machines : epoch_length'[m] = GlobalLength(th)
  BY <1>1
<1> HIDE DEF now, th
<1>9. Reclassifies(Machines, th, now)
  BY <1>1, <1>3, <1>4, <1>6, <1>7, <1>8 DEF Reclassifies
<1> QED BY <1>5, <1>7, <1>9 DEF GlobalRoundEnds

\* Any other step leaves alone what global training sets.
GlobalStays ==
  /\ UNCHANGED <<epoch_length, global_roundup, training_finished>>
  /\ \A s \in Stargates : Remote(s) =>
       /\ gate'[s].in_sync = gate[s].in_sync /\ rgate'[s].in_sync = rgate[s].in_sync
       /\ gate'[s] = gate[s] \/ \E u \in Universes : UpdateTime(u)
  /\ rgate' = rgate \/ \E u \in Universes : HandleMail(u)
  /\ global_reclassified' = global_reclassified \/ \E u \in Universes : TrainLocal(u)

LEMMA GlobalFrame ==
  ASSUME TypeOK, Meeting, Agreement, [Next]_vars
  PROVE  GlobalRoundEnds \/ GlobalStays
<1>1. ASSUME NEW u \in Universes, TrainGlobal(u) PROVE GlobalRoundEnds
  BY <1>1, TrialEnds
<1>2. ASSUME FinishGlobal PROVE GlobalRoundEnds
  BY <1>2, TrialsEnd
<1>3. ASSUME NEW u \in Universes, Thread(u), ~TrainGlobal(u) PROVE GlobalStays
  <2>1. CASE TrainLocal(u)
    <3>1. \A s \in Stargates : Remote(s) => gate'[s] = gate[s]
      BY <2>1, LocallyTrained
    <3>2. UNCHANGED <<rgate, epoch_length, global_roundup, training_finished>>
      BY <2>1 DEF TrainLocal
    <3> QED BY <2>1, <3>1, <3>2 DEF GlobalStays
  <2>2. CASE HandleMail(u)
    <3>1. gate' = gate /\ UNCHANGED trainVars /\ \A s \in Stargates : rgate'[s].in_sync = rgate[s].in_sync
      BY <2>2, NullHandled
    <3> QED BY <2>2, <3>1 DEF GlobalStays, trainVars, globalVars
  <2>3. CASE UpdateTime(u)
    <3>1. rgate' = rgate /\ UNCHANGED trainVars
      BY <2>3 DEF UpdateTime, SetTime
    <3>2. \A s \in Stargates : gate'[s].in_sync = gate[s].in_sync
      <4>1. ~Dispatch(u) /\ ~AdvanceWindow(u)
        BY <2>3 DEF UpdateTime, Dispatch, AdvanceWindow
      <4>2. ~TrainLocal(u)
        BY <2>3 DEF UpdateTime, TrainLocal
      <4> QED BY <1>3, <4>1, <4>2, ThreadKeepsPlace
    <3> QED BY <2>3, <3>1, <3>2 DEF GlobalStays, trainVars, globalVars
  <2>4. CASE ~TrainLocal(u) /\ ~HandleMail(u) /\ ~UpdateTime(u)
    <3>1. UNCHANGED gateVars
      BY <1>3, <2>4, GatesStay
    <3>2. UNCHANGED trainVars
      BY <1>3, <2>4, ThreadFrame
    <3> QED BY <3>1, <3>2 DEF GlobalStays, trainVars, globalVars, gateVars
  <2> QED BY <2>1, <2>2, <2>3, <2>4
<1>4. ASSUME ~(\E u \in Universes : Thread(u)), ~FinishGlobal PROVE GlobalStays
  <2>1. UNCHANGED <<trainVars, gateVars>>
    BY <1>4, OtherFrame DEF Next, Finished
  <2> QED BY <2>1 DEF GlobalStays, trainVars, globalVars, gateVars
<1> QED BY <1>1, <1>2, <1>3, <1>4

LEMMA EpochBound ==
  ASSUME NEW g \in [Stargates -> GateType], NEW S \in SUBSET Stargates, NEW now \in Nat,
         NEW th \in [thresh : Nat, training : BOOLEAN], NEW s \in S, Remote(s),
         Classify(g, S, th.thresh, now)[s].in_sync
  PROVE  GlobalLength(th) <= min_delay[s]
<1>1. s \in RemoteGates /\ RemoteGates \in SUBSET Stargates /\ min_delay[s] \in Nat
      /\ th.thresh \in Nat
  BY TopologyAssumption DEF RemoteGates
<1>2. min_delay[s] >= th.thresh
  <2> SUFFICES ASSUME min_delay[s] < th.thresh PROVE FALSE
    BY <1>1
  <2>1. Classify(g, S, th.thresh, now)[s] =
          [in_sync |-> FALSE, time |-> IF g[s].in_sync THEN now + min_delay[s] ELSE g[s].time]
    BY DEF Classify
  <2> QED BY <2>1
<1>3. WindowLength(RemoteGates, th.thresh) <= min_delay[s]
  BY <1>1, <1>2, WindowLengthBound
<1> QED BY <1>1, <1>2, <1>3 DEF GlobalLength

LEMMA InitEpochClasses == Init => EpochClasses
<1> SUFFICES ASSUME Init, NEW s \in Stargates, Remote(s)
             PROVE  /\ gate[s].in_sync => epoch_length[SourceMachine(s)] <= min_delay[s]
                    /\ rgate[s].in_sync => epoch_length[TargetMachine(s)] <= min_delay[s]
  BY DEF EpochClasses
<1>1. SourceMachine(s) \in Machines /\ TargetMachine(s) \in Machines
  BY LocalEnds
<1>2. /\ gate[s] = Classify(Unclassified, RemoteGates, StartGlobal.thresh, 0)[s]
      /\ rgate[s] = Classify(Unclassified, RemoteGates, StartGlobal.thresh, 0)[s]
      /\ epoch_length[SourceMachine(s)] = GlobalLength(StartGlobal)
      /\ epoch_length[TargetMachine(s)] = GlobalLength(StartGlobal)
  BY <1>1 DEF Init
<1>3. StartGlobal \in [thresh : Nat, training : BOOLEAN]
  BY StartType
<1>4. s \in RemoteGates /\ RemoteGates \in SUBSET Stargates
      /\ Unclassified \in [Stargates -> GateType]
  BY DEF RemoteGates, Unclassified, GateType
<1>5. Classify(Unclassified, RemoteGates, StartGlobal.thresh, 0)[s].in_sync =>
        GlobalLength(StartGlobal) <= min_delay[s]
  <2>1. 0 \in Nat
    OBVIOUS
  <2> QED BY <1>3, <1>4, <2>1, EpochBound
<1> QED BY <1>2, <1>5

LEMMA NextEpochClasses ==
  ASSUME TypeOK, Meeting, Agreement, EpochClasses, [Next]_vars
  PROVE  EpochClasses'
<1> SUFFICES ASSUME NEW s \in Stargates, Remote(s)
             PROVE  /\ gate'[s].in_sync => epoch_length'[SourceMachine(s)] <= min_delay[s]
                    /\ rgate'[s].in_sync => epoch_length'[TargetMachine(s)] <= min_delay[s]
  BY DEF EpochClasses, Remote, SourceMachine, TargetMachine
<1>0. /\ SourceMachine(s) \in Machines /\ TargetMachine(s) \in Machines
      /\ gate \in [Stargates -> GateType] /\ rgate \in [Stargates -> GateType]
  BY LocalEnds DEF TypeOK, TimelineTypeOK
<1>1. /\ gate[s].in_sync => epoch_length[SourceMachine(s)] <= min_delay[s]
      /\ rgate[s].in_sync => epoch_length[TargetMachine(s)] <= min_delay[s]
  BY DEF EpochClasses
<1>2. CASE GlobalStays
  BY <1>1, <1>2 DEF GlobalStays
<1>3. CASE GlobalRoundEnds
  <2>1. PICK M \in SUBSET Machines, th \in [thresh : Nat, training : BOOLEAN], now \in Nat :
          Reclassifies(M, th, now)
    BY <1>3 DEF GlobalRoundEnds
  <2> DEFINE A == {r \in RemoteGates : SourceMachine(r) \in M}
             B == {r \in RemoteGates : TargetMachine(r) \in M}
  <2>2. /\ gate' = Classify(gate, A, th.thresh, now) /\ rgate' = Classify(rgate, B, th.thresh, now)
        /\ \A m \in M : epoch_length'[m] = GlobalLength(th)
        /\ \A m \in Machines \ M : epoch_length'[m] = epoch_length[m]
    BY <2>1 DEF Reclassifies, ClassifyGlobal
  <2>3. /\ A \in SUBSET Stargates /\ B \in SUBSET Stargates
        /\ s \in A <=> SourceMachine(s) \in M
        /\ s \in B <=> TargetMachine(s) \in M
    BY DEF RemoteGates
  <2> HIDE DEF A, B
  <2>4. s \notin A => gate'[s] = gate[s]
    BY <2>2 DEF Classify
  <2>5. s \notin B => rgate'[s] = rgate[s]
    BY <2>2 DEF Classify
  <2>6. gate'[s].in_sync => epoch_length'[SourceMachine(s)] <= min_delay[s]
    <3>1. CASE s \in A
      <4>1. gate'[s].in_sync => GlobalLength(th) <= min_delay[s]
        BY <1>0, <2>2, <2>3, <3>1, EpochBound
      <4> QED BY <2>2, <2>3, <3>1, <4>1
    <3>2. CASE s \notin A
      BY <1>0, <1>1, <2>2, <2>3, <2>4, <3>2
    <3> QED BY <3>1, <3>2
  <2>7. rgate'[s].in_sync => epoch_length'[TargetMachine(s)] <= min_delay[s]
    <3>1. CASE s \in B
      <4>1. rgate'[s].in_sync => GlobalLength(th) <= min_delay[s]
        BY <1>0, <2>2, <2>3, <3>1, EpochBound
      <4> QED BY <2>2, <2>3, <3>1, <4>1
    <3>2. CASE s \notin B
      BY <1>0, <1>1, <2>2, <2>3, <2>5, <3>2
    <3> QED BY <3>1, <3>2
  <2> QED BY <2>6, <2>7
<1> QED BY <1>2, <1>3, GlobalFrame

LEMMA EpochMates ==
  ASSUME TypeOK, Meeting, NEW u \in Universes, NEW v \in Mates(u)
  PROVE  EpochAfter(u) = EpochAfter(v)
<1>0. v \in Universes /\ u \in Mates(v)
  BY DEF Mates
<1>1. CASE InWindow(u) <=> InWindow(v)
  <2>1. SameEdge(u, v)
    BY <1>0, <1>1 DEF Meeting, Edges, SameEdges
  <2> QED BY <1>1, <2>1 DEF SameEdge, EpochAfter
<1>2. ASSUME NEW x \in Universes, NEW y \in Mates(x), InWindow(x), ~InWindow(y)
      PROVE  EpochAfter(x) = EpochAfter(y)
  <2>1. OneWindowBehind(x, y)
    BY <1>2 DEF Meeting, Edges, SameEdges
  <2> QED BY <1>2, <2>1 DEF OneWindowBehind, NextEpoch, EpochAfter
<1> QED BY <1>0, <1>1, <1>2

\* The end of an epoch changes when the training after it is over, and only then.
LEMMA EpochAfterStays ==
  ASSUME TypeOK, Meeting, Agreement, Scheduling, [Next]_vars, NEW u \in Universes
  PROVE  \/ EpochAfter(u)' = EpochAfter(u)
         \/ /\ Trained(machine[u]) /\ epoch_sync[u] /\ pc[u] = "trained"
            /\ EpochAfter(u)' = Onward(machine[u])
<1> DEFINE m == machine[u]
           p == proc0[m]
<1>0. m \in Machines /\ p \in Universes /\ machine[p] = m
  BY TopologyAssumption
<1>1. CASE AdvanceWindow(u)
  <2>1. Together
    BY DEF Meeting
  <2>2. /\ synpoint'[u] = next_window(u)
        /\ epoch_sync'[u] = (next_window(u) = next_epoch[u])
        /\ next_epoch'[u] = NextEpoch(u, next_window(u))
        /\ InWindow(u) /\ ~InWindow(u)'
    BY <1>1, <2>1, WindowLeft
  <2> QED BY <2>2 DEF EpochAfter, NextEpoch
<1>2. CASE Trained(m)
  <2>1. pc[u] = "trained" /\ pc'[u] = "open" /\ pc[p] = "trained"
    BY <1>0, <1>2, TrainingEnds
  <2>2. InWindow(u)' /\ ~InWindow(u) /\ ~InWindow(p) /\ AtEdge(p) /\ Stage(m) = "trained"
    BY <2>1 DEF InWindow, AtEdge, WindowLabels, Stage
  <2>3. SameEdge(p, u)
    BY <1>0, <2>2, MatesAtEdge DEF Mates
  <2>4. next_epoch'[u] = IF Reclassified(m) /\ (global_reclassified[m] \/ training_finished[m])
                         THEN Onward(m) ELSE next_epoch[u]
    <3>1. next_epoch'[u] = IF Reclassified(m) /\ (global_reclassified[m] \/ training_finished[m])
                           THEN Clip(synpoint[u] + epoch_length[m], global_roundup[m])
                           ELSE next_epoch[u]
      BY <1>2 DEF Trained
    <3> QED BY <2>3, <3>1 DEF Onward, SameEdge
  <2>5. EpochAfter(u)' = next_epoch'[u]
    BY <2>2 DEF EpochAfter
  <2>6. StageOK(m)
    BY <1>0 DEF Agreement, Stages
  <2>7. CASE epoch_sync[u]
    <3>1. AtEpoch(m)
      BY <2>2, <2>3, <2>7 DEF AtEpoch, SameEdge
    <3>2. global_reclassified[m] \/ next_epoch[u] = Onward(m)
      BY <2>2, <2>3, <2>6, <3>1 DEF StageOK, SameEdge
    <3> QED BY <1>2, <2>1, <2>4, <2>5, <2>7, <3>2 DEF Reclassified
  <2>8. CASE ~epoch_sync[u]
    <3>1. ~global_reclassified[m] /\ ~(local_reclassified[m] /\ training_finished[m])
      BY <2>2, <2>3, <2>6, <2>8 DEF StageOK, SameEdge
    <3>2. next_epoch'[u] = next_epoch[u]
      BY <2>4, <3>1 DEF Reclassified
    <3> QED BY <2>2, <2>5, <2>8, <3>2 DEF EpochAfter
  <2> QED BY <2>7, <2>8
<1>3. CASE ~AdvanceWindow(u) /\ ~Trained(m)
  BY <1>3, EpochStays DEF EpochAfter
<1> QED BY <1>1, <1>2, <1>3

\* Once the training is over nothing changes the way on from an epoch.
LEMMA OnwardStays ==
  ASSUME TypeOK, Meeting, Agreement, [Next]_vars, NEW m \in Machines, training_finished[m]
  PROVE  /\ training_finished'[m] /\ epoch_length'[m] = epoch_length[m]
         /\ synpoint'[proc0[m]] = synpoint[proc0[m]] => Onward(m)' = Onward(m)
<1>1. CASE GlobalStays
  BY <1>1 DEF GlobalStays, Onward
<1>2. CASE GlobalRoundEnds
  <2>1. PICK M \in SUBSET Machines, th \in [thresh : Nat, training : BOOLEAN], now \in Nat :
          Reclassifies(M, th, now)
    BY <1>2 DEF GlobalRoundEnds
  <2>2. m \notin M
    BY <2>1 DEF Reclassifies
  <2> QED BY <2>1, <2>2 DEF Reclassifies, Onward
<1> QED BY <1>1, <1>2, GlobalFrame

LEMMA TrainerSteps ==
  ASSUME TypeOK, Meeting, Agreement, [Next]_vars, NEW m \in Machines,
         TrainerDone(m), global_reclassified[m]
  PROVE  \/ TrainerDone(m)' /\ global_reclassified'[m]
         \/ Trained(m)
<1>0. proc0[m] \in Universes /\ machine[proc0[m]] = m /\ pc[proc0[m]] \in {"train global", "trained"}
  BY TopologyAssumption DEF TrainerDone
<1> DEFINE p == proc0[m]
<1>1. global_reclassified'[m]
  <2>1. CASE GlobalStays
    <3>1. ASSUME NEW u \in Universes, TrainLocal(u) PROVE machine[u] # m
      <4>1. pc[u] = "train" /\ u = proc0[machine[u]]
        BY <3>1, LocallyTrained
      <4> QED BY <1>0, <4>1
    <3>2. ASSUME NEW u \in Universes, TrainLocal(u) PROVE global_reclassified'[m]
      <4>1. m \in Machines \ {machine[u]}
        BY <3>1, <3>2
      <4>2. \A n \in Machines \ {machine[u]} : global_reclassified'[n] = global_reclassified[n]
        BY <3>2 DEF TrainLocal, TypeOK, WindowTypeOK
      <4> QED BY <4>1, <4>2
    <3> QED BY <2>1, <3>2 DEF GlobalStays
  <2>2. CASE GlobalRoundEnds
    <3>1. PICK M \in SUBSET Machines, th \in [thresh : Nat, training : BOOLEAN], now \in Nat :
            Reclassifies(M, th, now)
      BY <2>2 DEF GlobalRoundEnds
    <3> QED BY <3>1 DEF Reclassifies
  <2> QED BY <2>1, <2>2, GlobalFrame
<1>2. ASSUME ~Trained(m) PROVE pc'[p] \in {"train global", "trained"}
  <2> HIDE DEF p
  <2>0. p = proc0[m] /\ p \in Universes /\ machine[p] = m /\ pc[p] \in {"train global", "trained"}
        /\ pc \in [Universes -> Labels]
    BY <1>0 DEF p, TypeOK, ThreadTypeOK
  <2>1. ASSUME NEW u \in Universes, Thread(u) PROVE pc'[p] \in {"train global", "trained"}
    <3>1. CASE u # p
      BY <2>0, <2>1, <3>1, OthersStay
    <3>2. CASE u = p
      <4>1. TrainGlobal(p)
        BY <2>0, <2>1, <3>2 DEF Thread, Dispatch, Collect, SendEpoch, Await, TrainLocal, OpenTimeline,
           Opened, Pick, ReadTime, ReceiveMessages, EndScan, RunEvent, RunEnd, UpdateTime, Notify,
           Interrupted, PollMail, WaitMail, DrainMail, HandleMail, EndMail, AdvanceWindow
      <4> QED BY <2>0, <4>1 DEF TrainGlobal, Goto
    <3> QED BY <3>1, <3>2
  <2>2. ASSUME NEW n \in Machines, Barrier(n) PROVE pc'[p] \in {"train global", "trained"}
    <3>1. \A here, a, b : Meet(n, here, a, b) => pc'[p] = pc[p] \/ pc[p] = here
      BY <2>0 DEF Meet, UniversesOf
    <3> QED BY <2>0, <2>2, <3>1 DEF Barrier
  <2>3. ASSUME NEW n \in Machines, Trained(n) PROVE pc'[p] \in {"train global", "trained"}
    <3>1. machine[p] # n
      BY <1>2, <2>0, <2>3
    <3>2. pc'[p] = pc[p]
      BY <2>0, <2>3, <3>1 DEF Trained
    <3> QED BY <2>0, <3>2
  <2>4. CASE Collective
    <3>1. ~Reduce /\ ~MpiBarrier
      BY <2>0 DEF Reduce, MpiBarrier
    <3>2. FinishGlobal
      BY <2>4, <3>1 DEF Collective
    <3>3. pc'[p] = IF pc[p] = "train global" THEN "trained" ELSE pc[p]
      BY <2>0, <3>2 DEF FinishGlobal
    <3> QED BY <2>0, <3>3
  <2>5. CASE \/ \E n \in Machines : Writer(n)
             \/ \E n, k \in Machines : Reader(n, k)
             \/ UNCHANGED vars
    BY <2>0, <2>5 DEF Writer, Reader, vars, threadVars
  <2> QED BY <2>1, <2>2, <2>3, <2>4, <2>5 DEF Next, Finished
<1> QED BY <1>1, <1>2 DEF TrainerDone

LEMMA InitEpochLengths == Init => EpochLengths
<1> SUFFICES ASSUME Init, NEW u \in Universes
             PROVE  next_epoch[u] <= synpoint[u] + epoch_length[machine[u]]
  BY DEF EpochLengths
<1>1. TypeOK
  BY InitType
<1>2. /\ epoch_length[machine[u]] \in Nat /\ global_roundup[machine[u]] \in Nat
      /\ synpoint[u] \in Nat /\ next_epoch[u] \in Nat
  BY <1>1, WindowFacts DEF TypeOK
<1>3. synpoint[u] = 0 /\ next_epoch[u] = Clip(epoch_length[machine[u]], global_roundup[machine[u]])
  BY DEF Init
<1>4. Clip(epoch_length[machine[u]], global_roundup[machine[u]]) <= epoch_length[machine[u]]
  BY <1>2, ClipIs
<1> QED BY <1>2, <1>3, <1>4

LEMMA NextEpochLengths ==
  ASSUME TypeOK, TypeOK', Meeting, Agreement, EpochLengths, [Next]_vars
  PROVE  EpochLengths'
<1> SUFFICES ASSUME NEW u \in Universes
             PROVE  \/ TrainerDone(machine[u])' /\ global_reclassified'[machine[u]]
                    \/ next_epoch'[u] <= synpoint'[u] + epoch_length'[machine[u]]
  BY DEF EpochLengths
<1> DEFINE m == machine[u]
<1>0. /\ m \in Machines
      /\ epoch_length[m] \in Nat /\ global_roundup[m] \in Nat
      /\ synpoint[u] \in Nat /\ next_epoch[u] \in Nat /\ next_window(u) \in Nat
      /\ epoch_length'[m] \in Nat /\ next_epoch'[u] \in Nat /\ synpoint'[u] \in Nat
      /\ next_window(u) <= next_epoch[u]
  <2>1. WindowTypeOK /\ WindowTypeOK'
    BY DEF TypeOK
  <2>2. m \in Machines
    BY TopologyAssumption
  <2>3. epoch_length'[m] \in Nat /\ next_epoch'[u] \in Nat /\ synpoint'[u] \in Nat
    BY <2>1, <2>2 DEF WindowTypeOK
  <2> QED BY <2>1, <2>2, <2>3, WindowFacts
<1>1. \/ TrainerDone(m) /\ global_reclassified[m]
      \/ next_epoch[u] <= synpoint[u] + epoch_length[m]
  BY DEF EpochLengths
<1>2. CASE Trained(m)
  <2>1. /\ synpoint' = synpoint /\ epoch_length' = epoch_length
        /\ pc[proc0[m]] = "trained"
    BY <1>0, <1>2, TopologyAssumption, TrainingEnds DEF trainVars, globalVars
  <2>2. next_epoch'[u] = IF Reclassified(m) /\ (global_reclassified[m] \/ training_finished[m])
                         THEN Clip(synpoint[u] + epoch_length[m], global_roundup[m])
                         ELSE next_epoch[u]
    BY <1>2 DEF Trained
  <2>3. Clip(synpoint[u] + epoch_length[m], global_roundup[m]) <= synpoint[u] + epoch_length[m]
    <3>1. synpoint[u] + epoch_length[m] \in Nat
      BY <1>0
    <3> QED BY <1>0, <3>1, ClipIs
  <2>4. CASE global_reclassified[m]
    BY <2>1, <2>2, <2>3, <2>4 DEF Reclassified
  <2>5. CASE ~global_reclassified[m]
    BY <1>1, <2>1, <2>2, <2>3, <2>5
  <2> QED BY <2>4, <2>5
<1>3. CASE ~Trained(m) /\ TrainerDone(m) /\ global_reclassified[m]
  BY <1>0, <1>3, TrainerSteps
<1>4. CASE ~Trained(m) /\ next_epoch[u] <= synpoint[u] + epoch_length[m]
  <2>1. CASE AdvanceWindow(u)
    <3>1. Together
      BY DEF Meeting
    <3>2. /\ synpoint'[u] = next_window(u) /\ next_epoch'[u] = NextEpoch(u, next_window(u))
          /\ UNCHANGED trainVars
      BY <2>1, <3>1, WindowLeft
    <3>3. epoch_length'[m] = epoch_length[m] 
      BY <3>2 DEF trainVars, globalVars
    <3>4. synpoint[u] <= next_window(u)
      <4>1. synpoint[u] <= next_decade[u] /\ synpoint[u] <= next_epoch[u]
        BY DEF Meeting, Edges, Bounds
      <4>2. next_window(u) = next_decade[u] \/ next_window(u) = next_epoch[u]
        BY WindowFacts DEF TypeOK
      <4> QED BY <4>1, <4>2
    <3>5. Clip(next_window(u) + epoch_length[m], global_roundup[m]) <= next_window(u) + epoch_length[m]
      <4>1. next_window(u) + epoch_length[m] \in Nat
        BY <1>0
      <4> QED BY <1>0, <4>1, ClipIs
    <3>6. CASE next_window(u) = next_epoch[u]
      BY <3>2, <3>3, <3>5, <3>6 DEF NextEpoch
    <3>7. CASE next_window(u) # next_epoch[u]
      <4>1. next_epoch'[u] = next_epoch[u]
        BY <3>2, <3>7 DEF NextEpoch
      <4> QED BY <1>0, <1>4, <3>2, <3>3, <3>4, <4>1
    <3> QED BY <3>6, <3>7
  <2>2. CASE ~AdvanceWindow(u)
    <3>1. synpoint'[u] = synpoint[u] /\ next_epoch'[u] = next_epoch[u]
      BY <1>4, <2>2, EpochStays
    <3>2. CASE GlobalStays
      BY <1>4, <3>1, <3>2 DEF GlobalStays
    <3>3. CASE GlobalRoundEnds
      <4>1. PICK M \in SUBSET Machines, th \in [thresh : Nat, training : BOOLEAN], now \in Nat :
              Reclassifies(M, th, now)
        BY <3>3 DEF GlobalRoundEnds
      <4>2. CASE m \in M
        <5>1. TrainerDone(m) /\ global_reclassified'[m]
          BY <4>1, <4>2 DEF Reclassifies, TrainsGlobally, TrainerDone
        <5>2. TrainerDone(m)'
          BY <4>1, <4>2 DEF Reclassifies, TrainerDone
        <5> QED BY <5>1, <5>2
      <4>3. CASE m \notin M
        BY <1>0, <1>4, <3>1, <4>1, <4>3 DEF Reclassifies
      <4> QED BY <4>2, <4>3
    <3> QED BY <3>2, <3>3, GlobalFrame
  <2> QED BY <2>1, <2>2
<1> QED BY <1>1, <1>2, <1>3, <1>4

=============================================================================
