------------------------------ MODULE SimEngine ------------------------------
(***************************************************************************)
(* The engine that SimX uses without minissf (SIMX_USE_PRIME off, MPI on). *)
(*                                                                         *)
(* One MPI process per rank, with two threads.  The main thread executes   *)
(* the events of its queue in windows of length MINDELAY; at the end of a  *)
(* window all processes agree, in an MPI_Allreduce, on the time at which   *)
(* the next one starts.  The listening thread receives the events of the   *)
(* other processes and puts them into the queue, under its lock.           *)
(*                                                                         *)
(* Nobody waits for the messages: the reduction counts the times of those  *)
(* that were sent in the window that ends, and relies on the listening     *)
(* threads to be quick.  "straggled" remembers the messages for which they *)
(* were not: those still on their way when their receiver opens the window *)
(* that follows the one they were sent in.                                 *)
(*                                                                         *)
(* Events of equal time are taken in any order.  Left out: what events do  *)
(* besides sending others, and the size of the messages.                   *)
(***************************************************************************)
EXTENDS Integers, Sequences, FiniteSets

CONSTANTS
  Procs,            \* the ranks; logical process i lives on rank i
  g_time_end,       \* the end of the simulation; it starts at 0
  MINDELAY, LOCAL_MINDELAY,
  TimeMax,          \* numeric_limits<Time>::max()
  InitEvents,       \* [Procs -> set of times]: queued before run()
  InitMessages,     \* [Procs -> [Procs -> Seq of times]]: sent before run()
  Delays,           \* bound: the delays that the model asks for
  MaxSend           \* [Procs -> Nat], bound: events that a process sends

ASSUME EngineAssumption ==
  /\ Procs # {} /\ IsFiniteSet(Procs)
  /\ g_time_end \in Nat /\ TimeMax \in Nat /\ TimeMax > g_time_end
  /\ MINDELAY \in Nat \ {0} /\ LOCAL_MINDELAY \in Nat \ {0}
ASSUME InputAssumption ==
  /\ InitEvents \in [Procs -> SUBSET Nat]
  /\ InitMessages \in [Procs -> [Procs -> Seq(Nat)]]
ASSUME BoundAssumption ==
  /\ Delays \subseteq Nat /\ MaxSend \in [Procs -> Nat]

VARIABLES
  \* the main thread of each process
  pc,                 \* "work", "execute", "reduce", "quit" or "finished"
  window,             \* number of windows it has opened
  base_time,          \* start of its window
  g_time_now, g_time_next_sent,
  offered,            \* what it gave to each reduction
  waiting,            \* ranks for which its MPI_Send has not returned
  \* shared with the listening thread
  g_eq,               \* set of events
  listening,          \* the listening thread runs
  received,           \* event received but not yet in g_eq (at most one)
  \* MPI
  transit,            \* transit[q][p]: messages from q to p, in order
  \* history
  sent,               \* number of events a process has sent
  straggled,          \* events on their way when they should be in a queue
  late                \* events executed after their time

threads == <<pc, window, base_time, g_time_now, g_time_next_sent, offered, waiting>>
vars == <<threads, g_eq, listening, received, transit, sent, straggled, late>>

MinOf(a, b) == IF a < b THEN a ELSE b
MaxOf(a, b) == IF a < b THEN b ELSE a

\* An event: who sent it in which window, its number, and its time.
EventInfo == [from : Procs, n : Nat, window : Nat, time : Nat]
\* A message is the event it carries, as a set; the command that ends the
\* listening thread carries none.
quit == {}

Carried(messages) == UNION {messages[i] : i \in DOMAIN messages}
\* What is on its way to p: not received yet, or not yet in its queue.
OnTheWay(p) == (UNION {Carried(transit[q][p]) : q \in Procs}) \cup received[p]

-----------------------------------------------------------------------------
(* Initial state: run() has started the listening thread and opened the    *)
(* first window.  Entities may have scheduled events when they were made.  *)

InitEvent(p, n, t) == [from |-> p, n |-> n, window |-> 0, time |-> t]

Init ==
  /\ pc = [p \in Procs |-> "work"]
  /\ window = [p \in Procs |-> 1]
  /\ base_time = [p \in Procs |-> 0]
  /\ g_time_now = [p \in Procs |-> 0]
  /\ g_time_next_sent = [p \in Procs |-> TimeMax]
  /\ offered = [p \in Procs |-> <<>>]
  /\ waiting = [p \in Procs |-> {}]
  /\ g_eq = [p \in Procs |-> {InitEvent(p, 0, t) : t \in InitEvents[p]}]
  /\ listening = [p \in Procs |-> TRUE]
  /\ received = [p \in Procs |-> {}]
  /\ transit = [q \in Procs |-> [p \in Procs |->
       [i \in DOMAIN InitMessages[q][p] |-> {InitEvent(q, i, InitMessages[q][p][i])}]]]
  /\ sent = [p \in Procs |-> 0]
  /\ straggled = UNION {OnTheWay(p) : p \in Procs}
  /\ late = {}

-----------------------------------------------------------------------------
(* The main thread: run() and, while an event executes, sendEventInfo.     *)

Earliest(p) == {e \in g_eq[p] : \A f \in g_eq[p] : e.time <= f.time}

InWindow_Base(p, e) == e.time <= base_time[p] \* mutant: without MINDELAY

\* The event belongs to the window that p is in.
InWindow(p, e) == e.time < base_time[p] + MINDELAY

Offer_NoSent(p, next) == \* mutant: what it has sent is not counted
  /\ pc' = [pc EXCEPT ![p] = "reduce"]
  /\ offered' = [offered EXCEPT ![p] = Append(@, next)]

\* p leaves its window and enters the reduction; next is the time of the
\* first event that it keeps.  The events it has sent count as well.
Offer(p, next) ==
  /\ pc' = [pc EXCEPT ![p] = "reduce"]
  /\ offered' = [offered EXCEPT ![p] = Append(@, MinOf(next, g_time_next_sent[p]))]

\* p takes the first event of its window and executes it.  An event of the
\* past is executed now.
Pop(p) ==
  /\ pc[p] = "work"
  /\ \E e \in Earliest(p) :
       /\ InWindow(p, e)
       /\ MaxOf(g_time_now[p], e.time) <= g_time_end
       /\ g_eq' = [g_eq EXCEPT ![p] = @ \ {e}]
       /\ g_time_now' = [g_time_now EXCEPT ![p] = MaxOf(@, e.time)]
       /\ late' = IF e.time < g_time_now[p] THEN late \cup {e} ELSE late
  /\ pc' = [pc EXCEPT ![p] = "execute"]
  /\ UNCHANGED <<window, base_time, g_time_next_sent, offered, waiting, listening,
                 received, transit, sent, straggled>>

\* The event is beyond the end of the simulation: it is dropped, and so is
\* the rest of the window.
PopBeyondEnd(p) ==
  /\ pc[p] = "work"
  /\ \E e \in Earliest(p) :
       /\ InWindow(p, e)
       /\ MaxOf(g_time_now[p], e.time) > g_time_end
       /\ g_eq' = [g_eq EXCEPT ![p] = @ \ {e}]
       /\ g_time_now' = [g_time_now EXCEPT ![p] = MaxOf(@, e.time)]
  /\ Offer(p, g_time_end + 1)
  /\ UNCHANGED <<window, base_time, g_time_next_sent, waiting, listening, received,
                 transit, sent, straggled, late>>

\* Nothing is left for this window.
EndWindow(p) ==
  /\ pc[p] = "work"
  /\ \/ g_eq[p] = {} /\ Offer(p, g_time_end + 1)
     \/ \E e \in Earliest(p) : ~InWindow(p, e) /\ Offer(p, e.time)
  /\ UNCHANGED <<window, base_time, g_time_now, g_time_next_sent, waiting, g_eq,
                 listening, received, transit, sent, straggled, late>>

EventTime_NoClamp(p, d, delay) == g_time_now[p] + delay \* mutant: never raised
EventTime_Relative(p, d, delay) == \* mutant: relative to the window
  g_time_now[p] + delay - MINDELAY

\* LP::sendEventInfo raises a delay that is too short.
EventTime(p, d, delay) ==
  g_time_now[p] + MaxOf(delay, IF d = p THEN LOCAL_MINDELAY ELSE MINDELAY)

NewEvent(p, d, delay) ==
  [from |-> p, n |-> sent[p] + 1, window |-> window[p], time |-> EventTime(p, d, delay)]

\* The event that executes schedules one on its own process.  The timers of the
\* input files and of Python (LP.C:167-230) are such events: InfoManager raises
\* their delays itself (InfoManager.C:231, 250).
SendLocal(p, delay) ==
  /\ pc[p] = "execute" /\ waiting[p] = {} /\ sent[p] < MaxSend[p]
  /\ g_eq' = [g_eq EXCEPT ![p] = @ \cup {NewEvent(p, p, delay)}]
  /\ sent' = [sent EXCEPT ![p] = @ + 1]
  /\ UNCHANGED <<threads, listening, received, transit, straggled, late>>

\* It sends one to another process.  MPI_Send returns at once, when MPI keeps
\* a copy of the message, or waits until the message is received.
SendRemote(p, d, delay) ==
  LET e == NewEvent(p, d, delay) IN
  /\ pc[p] = "execute" /\ waiting[p] = {} /\ sent[p] < MaxSend[p]
  /\ d # p
  /\ g_time_next_sent' = [g_time_next_sent EXCEPT ![p] = MinOf(@, e.time)]
  /\ transit' = [transit EXCEPT ![p][d] = Append(@, {e})]
  /\ waiting' \in {waiting, [waiting EXCEPT ![p] = {d}]}
  /\ sent' = [sent EXCEPT ![p] = @ + 1]
  /\ UNCHANGED <<pc, window, base_time, g_time_now, offered, g_eq, listening, received,
                 straggled, late>>

SendReturns(p) ==
  /\ \E d \in waiting[p] : transit[p][d] = <<>>
  /\ waiting' = [waiting EXCEPT ![p] = {}]
  /\ UNCHANGED <<pc, window, base_time, g_time_now, g_time_next_sent, offered, g_eq,
                 listening, received, transit, sent, straggled, late>>

Executed(p) ==
  /\ pc[p] = "execute" /\ waiting[p] = {}
  /\ pc' = [pc EXCEPT ![p] = "work"]
  /\ UNCHANGED <<window, base_time, g_time_now, g_time_next_sent, offered, waiting,
                 g_eq, listening, received, transit, sent, straggled, late>>

-----------------------------------------------------------------------------
(* The reduction: nobody leaves it before everybody has entered it.        *)

Reduced(p) == \A q \in Procs : Len(offered[q]) >= window[p]

\* t is the time of the next window.
IsMinimum(p, t) ==
  /\ \E q \in Procs : offered[q][window[p]] = t
  /\ \A q \in Procs : t <= offered[q][window[p]]

\* What should be in the queue of p when its next window opens, and is not.
Stragglers(p) == {e \in OnTheWay(p) : e.window <= window[p]}

NextWindow(p, t) ==
  /\ pc[p] = "reduce" /\ Reduced(p) /\ IsMinimum(p, t)
  /\ t <= g_time_end
  /\ pc' = [pc EXCEPT ![p] = "work"]
  /\ window' = [window EXCEPT ![p] = @ + 1]
  /\ base_time' = [base_time EXCEPT ![p] = t]
  /\ g_time_now' = [g_time_now EXCEPT ![p] = t]
  /\ g_time_next_sent' = [g_time_next_sent EXCEPT ![p] = TimeMax]
  /\ straggled' = straggled \cup Stragglers(p)
  /\ UNCHANGED <<offered, waiting, g_eq, listening, received, transit, sent, late>>

Quit_NoCommand(p, t) == \* mutant: no command for the listening thread
  /\ pc[p] = "reduce" /\ Reduced(p) /\ IsMinimum(p, t)
  /\ t > g_time_end
  /\ pc' = [pc EXCEPT ![p] = "quit"]
  /\ base_time' = [base_time EXCEPT ![p] = t]
  /\ straggled' = straggled \cup Stragglers(p)
  /\ UNCHANGED <<window, g_time_now, g_time_next_sent, offered, waiting, g_eq,
                 listening, received, transit, sent, late>>

\* The next window would begin after the end: tell the listening thread to quit.
Quit(p, t) ==
  /\ pc[p] = "reduce" /\ Reduced(p) /\ IsMinimum(p, t)
  /\ t > g_time_end
  /\ pc' = [pc EXCEPT ![p] = "quit"]
  /\ base_time' = [base_time EXCEPT ![p] = t]
  /\ transit' = [transit EXCEPT ![p][p] = Append(@, quit)]
  /\ straggled' = straggled \cup Stragglers(p)
  /\ UNCHANGED <<window, g_time_now, g_time_next_sent, offered, waiting, g_eq,
                 listening, received, sent, late>>

\* pthread_join returns, and run() with it.
Join(p) ==
  /\ pc[p] = "quit" /\ ~listening[p]
  /\ pc' = [pc EXCEPT ![p] = "finished"]
  /\ UNCHANGED <<window, base_time, g_time_now, g_time_next_sent, offered, waiting,
                 g_eq, listening, received, transit, sent, straggled, late>>

-----------------------------------------------------------------------------
(* The listening thread.                                                   *)

Receive(p, q) ==
  /\ listening[p] /\ received[p] = {}
  /\ transit[q][p] # <<>>
  /\ transit' = [transit EXCEPT ![q][p] = Tail(@)]
  /\ received' = [received EXCEPT ![p] = Head(transit[q][p])]
  /\ listening' = [listening EXCEPT ![p] = Head(transit[q][p]) # quit]
  /\ UNCHANGED <<threads, g_eq, sent, straggled, late>>

Push(p) ==
  /\ received[p] # {}
  /\ g_eq' = [g_eq EXCEPT ![p] = @ \cup received[p]]
  /\ received' = [received EXCEPT ![p] = {}]
  /\ UNCHANGED <<threads, listening, transit, sent, straggled, late>>

-----------------------------------------------------------------------------
Send(p) ==
  \E delay \in Delays : \/ SendLocal(p, delay)
                        \/ \E d \in Procs : SendRemote(p, d, delay)
Reduce(p) == \E t \in {offered[q][window[p]] : q \in {q \in Procs : Reduced(p)}} :
               NextWindow(p, t) \/ Quit(p, t)
Main(p) == \/ Pop(p) \/ PopBeyondEnd(p) \/ EndWindow(p)
           \/ SendReturns(p) \/ Executed(p) \/ Reduce(p) \/ Join(p)
Listen(p) == Push(p) \/ \E q \in Procs : Receive(p, q)

Next == \E p \in Procs : Main(p) \/ Send(p) \/ Listen(p)

Spec == Init /\ [][Next]_vars

\* The threads run, events take finite time, and MPI delivers: whoever can go
\* on does.  Events need not send anything.
Fairness == \A p \in Procs : /\ WF_vars(Main(p)) /\ WF_vars(Push(p))
                             /\ \A q \in Procs : WF_vars(Receive(p, q))
FairSpec == Spec /\ Fairness

TypeOK ==
  /\ pc \in [Procs -> {"work", "execute", "reduce", "quit", "finished"}]
  /\ window \in [Procs -> Nat \ {0}]
  /\ base_time \in [Procs -> Nat] /\ g_time_now \in [Procs -> Nat]
  /\ g_time_next_sent \in [Procs -> Nat]
  /\ offered \in [Procs -> Seq(Nat)]
  /\ waiting \in [Procs -> SUBSET Procs]
  /\ g_eq \in [Procs -> SUBSET EventInfo]
  /\ listening \in [Procs -> BOOLEAN]
  /\ received \in [Procs -> SUBSET EventInfo]
  /\ transit \in [Procs -> [Procs -> Seq(SUBSET EventInfo)]]
  /\ sent \in [Procs -> Nat]
  /\ straggled \subseteq EventInfo /\ late \subseteq EventInfo

(* An event is executed after its time only if it was still on its way when *)
(* its receiver opened the window after the one it was sent in: as long as  *)
(* the listening threads keep up, counting the sent events in the reduction *)
(* is enough, and nothing is "popped in the past" (simEngine.C:311).        *)
LateOnlyIfStraggled == late \subseteq straggled

(* When a process leaves the loop, all that is left to it, in its queue or  *)
(* on the way, lies beyond the end of the simulation, but for stragglers.   *)
NothingLeft ==
  \A p \in Procs : pc[p] \in {"quit", "finished"} =>
    \A e \in g_eq[p] \cup OnTheWay(p) : e.time > g_time_end \/ e \in straggled

(* Every reduction brings all processes forward by MINDELAY at least, or    *)
(* beyond the end, stragglers or not.                                       *)
WindowsAdvance ==
  [][\A p \in Procs : base_time'[p] # base_time[p] =>
       base_time'[p] >= MinOf(base_time[p] + MINDELAY, g_time_end + 1)]_vars

(* Both threads of every process end: no reduction, blocked MPI_Send or     *)
(* join waits for ever.                                                     *)
Termination == <>(\A p \in Procs : pc[p] = "finished")

=============================================================================
