------------------------------ MODULE Processes ------------------------------
(***************************************************************************)
(* The processes of minissf inside one timeline: wait statements,          *)
(* inchannels, semaphores and timers.                                      *)
(*                                                                         *)
(* The timeline takes one event after the other out of its event list.     *)
(* An event makes processes active; they run, each until its next wait     *)
(* statement, before the next event is taken.  One thread does all this,   *)
(* but a process that runs may call whatever it likes, so every call is an *)
(* action, and "context" says whose calls they are.                        *)
(*                                                                         *)
(* The events of the timeline's own entity are ordered by time and then by *)
(* number, so evtlist keeps them in the order of their numbers.  Events    *)
(* that arrive from other entities come before or after those of equal     *)
(* time; that they come in time is what CompositeSync is about.            *)
(*                                                                         *)
(* Left out: procedures (the stack that a process keeps between two wait   *)
(* statements), init() and wrapup(), emulated events.                      *)
(***************************************************************************)
EXTENDS Integers, Sequences, FiniteSets, SequencesExt

CONSTANTS
  Process, None,
  inChannel, Semaphore,
  Timer, WithFunction,  \* the timers made with a callback function
  InitProcesses,     \* sequence of those made before the simulation
  InitCount,         \* [Semaphore -> Int]
  Arrivals,          \* bound: events that arrive, [ic, time, n]
  Delays,            \* bound: delays in calls
  MaxCalls           \* bound: calls, all together

ASSUME ProcessAssumption ==
  /\ IsFiniteSet(Process) /\ None \notin inChannel /\ None \notin Nat
  /\ InitProcesses \in Seq(Process) /\ IsInjective(InitProcesses)
  /\ InitCount \in [Semaphore -> Int] /\ WithFunction \subseteq Timer
  /\ Arrivals \subseteq [ic : inChannel, time : Nat, n : Nat]
  /\ Delays \subseteq Nat /\ MaxCalls \in Nat

VARIABLES
  process, channel,    \* the fields of Process and inChannel
  evtlist,             \* own events, in the order of their numbers
  active_processes,    \* the ready list
  arrivals,            \* events from other entities, not yet arrived
  simclock,
  context,             \* "timeline", "process" or "callback"
  sem_count, blocked_processes,
  timer_event, fire_time,
  calls,               \* bound
  \* history
  asked,               \* what a process waits for
  order,               \* who waits for a semaphore, the longest first
  uncalled             \* timers that fired without a call of their function

scheduling == <<process, channel, evtlist, active_processes>>
semaphores == <<sem_count, blocked_processes, order>>
timers == <<timer_event, fire_time, uncalled>>
vars == <<scheduling, arrivals, simclock, context, semaphores, timers, calls, asked>>

Forever == -1          \* no timeout
KernelEvent == [kind : {"process", "hold", "semaphore", "timer"},
                who : Process \cup Timer, time : Nat]
\* Nothing is waited for (or a semaphore).
Nothing == [ics |-> {}, static |-> FALSE, until |-> Forever]

State == [process |-> process, channel |-> channel, evtlist |-> evtlist,
          active_processes |-> active_processes]
Becomes(S) == \E T \in {S} :
  /\ process' = T.process /\ channel' = T.channel
  /\ evtlist' = T.evtlist /\ active_processes' = T.active_processes

-----------------------------------------------------------------------------
(* Kernel events and the ready list.                                       *)

insert_event(S, kind, who, time) ==
  [S EXCEPT !.evtlist = Append(@, [kind |-> kind, who |-> who, time |-> time])]

\* Whoever cancels an event has a pointer to it: there is one.
Place(S, kind, who) ==
  CHOOSE i \in DOMAIN S.evtlist : S.evtlist[i].kind = kind /\ S.evtlist[i].who = who
cancel_event(S, kind, who) ==
  [S EXCEPT !.evtlist = RemoveAt(@, Place(S, kind, who))]

\* Event i is taken before event j: by time, then by number.
Before(i, j) == \/ evtlist[i].time < evtlist[j].time
                \/ evtlist[i].time = evtlist[j].time /\ i < j
IsFirst(i) == /\ \A j \in DOMAIN evtlist : Before(i, j) \/ i = j
              /\ \A a \in arrivals : evtlist[i].time <= a.time

activate_process(S, p) ==
  IF S.process[p].state = "running" THEN S
  ELSE [S EXCEPT !.process[p].state = "running",
                 !.active_processes = Append(@, p)]

cancel_hold(S, p) ==
  IF S.process[p].hold_event
  THEN cancel_event([S EXCEPT !.process[p].hold_event = FALSE], "hold", p) ELSE S

desensitize_inchannels(S, p) ==
  [S EXCEPT !.process[p].waiton = {},
            !.channel = [ic \in inChannel |->
               IF ic \in S.process[p].waiton
               THEN [S.channel[ic] EXCEPT !.wait = RemoveFirst(@, p)]
               ELSE S.channel[ic]]]

clear_pending_wait_Stay(S, p) == \* mutant: stays in the lists of the channels
  IF S.process[p].state \in {"running", "waiting"}
  THEN [cancel_hold(S, p) EXCEPT !.process[p].static_sensitivity = FALSE]
  ELSE S

clear_pending_wait(S, p) ==
  IF S.process[p].state \in {"running", "waiting"}
  THEN [desensitize_inchannels(cancel_hold(S, p), p)
          EXCEPT !.process[p].static_sensitivity = FALSE]
  ELSE S

\* The last process that the event has activated discards it.
clear_process_context(S, p) ==
  LET ic == S.process[p].active_inchannel
      left == [S EXCEPT !.process[p].active_event_retrieved = FALSE,
                        !.process[p].process_timedout = FALSE,
                        !.process[p].active_inchannel = None]
      n == S.channel[ic].processes_activated - 1
  IN IF ic = None THEN left
     ELSE [left EXCEPT !.channel[ic].processes_activated = n,
                       !.channel[ic].active_event = IF n = 0 THEN None ELSE @]

deactivate_process(S, state) ==
  LET p == Head(S.active_processes) IN
  clear_process_context([S EXCEPT !.process[p].state = state,
                                  !.active_processes = Tail(@)], p)

-----------------------------------------------------------------------------
(* An event arrives at an inchannel.                                       *)

Activated_NotCounted(S, ic, p) == \* mutant: channels do not count
  activate_process(
    cancel_hold([S EXCEPT !.process[p].active_inchannel = ic,
                          !.process[p].active_event_retrieved = FALSE,
                          !.process[p].process_timedout = FALSE], p), p)

Activated(S, ic, p) ==
  activate_process(
    cancel_hold([S EXCEPT !.channel[ic].processes_activated = @ + 1,
                          !.process[p].active_inchannel = ic,
                          !.process[p].active_event_retrieved = FALSE,
                          !.process[p].process_timedout = FALSE], p), p)

\* Who waits for an event at ic: first those that have declared it once for
\* all, in any order (of their addresses), then those that have named it in
\* their wait statement.
Declared(ic) == {p \in Process : /\ ic \in process[p].static_inchannels
                                /\ process[p].static_sensitivity}
Waiters(ic) == {first \o channel[ic].wait :
                  first \in Bijection(1 .. Cardinality(Declared(ic)), Declared(ic))}

\* The states that the activations lead through, one after the other.
Activations(ic, who) ==
  [i \in 0 .. Len(who) |->
     FoldLeft(LAMBDA S, p : Activated(S, ic, p), State, SubSeq(who, 1, i))]

\* That each state of the path comes out of the one before follows from the
\* definition of Activations; proofs use it as it is written here.
schedule_arrival(ic, n) ==
  \E who \in Waiters(ic) : \E path \in {Activations(ic, who)} :
    LET T == path[Len(who)] IN
    /\ path[0] = State
    /\ \A i \in 1 .. Len(who) : path[i] = Activated(path[i - 1], ic, who[i])
    /\ Becomes(IF T.channel[ic].processes_activated > 0
               THEN [T EXCEPT !.channel[ic].active_event = n] ELSE T)

-----------------------------------------------------------------------------
NewProcess == [state |-> "creating", hold_event |-> FALSE, waiton |-> {},
               static_sensitivity |-> FALSE, static_inchannels |-> {},
               active_inchannel |-> None, active_event_retrieved |-> FALSE,
               process_timedout |-> FALSE]
NoProcess == [NewProcess EXCEPT !.state = "none"]

common_constructor(S, p, now) ==
  insert_event([S EXCEPT !.process[p] = NewProcess], "process", p, now)

Init ==
  /\ process = [p \in Process |-> IF p \in Range(InitProcesses) THEN NewProcess ELSE NoProcess]
  /\ channel = [ic \in inChannel |->
                  [wait |-> <<>>, active_event |-> None, processes_activated |-> 0]]
  /\ evtlist = [i \in DOMAIN InitProcesses |->
                  [kind |-> "process", who |-> InitProcesses[i], time |-> 0]]
  /\ active_processes = <<>>
  /\ arrivals = Arrivals /\ simclock = 0 /\ context = "timeline"
  /\ sem_count = InitCount
  /\ blocked_processes = [s \in Semaphore |-> <<>>]
  /\ order = [s \in Semaphore |-> <<>>]
  /\ timer_event = [t \in Timer |-> FALSE]
  /\ fire_time = [t \in Timer |-> 0] /\ uncalled = {}
  /\ calls = 0 /\ asked = [p \in Process |-> Nothing]

-----------------------------------------------------------------------------
(* Timeline::run takes the next event when no process is active.           *)

Idle == context = "timeline" /\ active_processes = <<>>

\* p goes on: after a timeout, or when it is new.
Start(e, popped) ==
  LET p == e.who
      timedout == [popped EXCEPT !.process[p].hold_event = FALSE,
                                 !.process[p].process_timedout = TRUE]
      signed_off == IF process[p].static_sensitivity
                    THEN [timedout EXCEPT !.process[p].static_sensitivity = FALSE]
                    ELSE desensitize_inchannels(timedout, p)
  IN Becomes(activate_process(IF e.kind = "hold" THEN signed_off ELSE popped, p))

Popped(i) == [State EXCEPT !.evtlist = RemoveAt(@, i)]

TakeEvent(i) ==
  /\ Idle /\ IsFirst(i)
  /\ evtlist[i].kind \in {"process", "hold", "semaphore"}
  /\ simclock' = evtlist[i].time
  /\ Start(evtlist[i], Popped(i))
  /\ order' = IF evtlist[i].kind = "semaphore"
              THEN [s \in Semaphore |-> RemoveFirst(order[s], evtlist[i].who)] ELSE order
  /\ UNCHANGED <<arrivals, context, sem_count, blocked_processes, timers, calls, asked>>

\* A timer fires: the kernel calls the virtual callback(), whatever function
\* the timer was made with.
TimerFires(i) ==
  LET t == evtlist[i].who IN
  /\ Idle /\ IsFirst(i) /\ evtlist[i].kind = "timer"
  /\ simclock' = evtlist[i].time
  /\ Becomes(Popped(i))
  /\ timer_event' = [timer_event EXCEPT ![t] = FALSE]
  /\ uncalled' = IF t \in WithFunction THEN uncalled \cup {t} ELSE uncalled
  /\ context' = IF t \in WithFunction THEN context ELSE "callback"
  /\ UNCHANGED <<arrivals, semaphores, fire_time, calls, asked>>

CallbackReturns ==
  /\ context = "callback" /\ context' = "timeline"
  /\ UNCHANGED <<scheduling, arrivals, simclock, semaphores, timers, calls, asked>>

Arrive(a) ==
  /\ Idle
  /\ \A b \in arrivals : a.time <= b.time
  /\ \A j \in DOMAIN evtlist : a.time <= evtlist[j].time
  /\ arrivals' = arrivals \ {a}
  /\ simclock' = a.time
  /\ schedule_arrival(a.ic, a.n)
  /\ UNCHANGED <<context, semaphores, timers, calls, asked>>

\* The first active process goes on.
Execute ==
  /\ context = "timeline" /\ active_processes # <<>>
  /\ context' = "process"
  /\ Becomes(clear_pending_wait(State, Head(active_processes)))
  /\ asked' = [asked EXCEPT ![Head(active_processes)] = Nothing]
  /\ UNCHANGED <<arrivals, simclock, semaphores, timers, calls>>

-----------------------------------------------------------------------------
(* Wait statements end the turn of the process that runs.                  *)

Self == Head(active_processes)
Call == context = "process" /\ calls < MaxCalls /\ calls' = calls + 1

\* Also in callbacks.
AnyCall == context # "timeline" /\ calls < MaxCalls /\ calls' = calls + 1

sensitize_inchannel(S, p, ics) ==
  [S EXCEPT !.process[p].waiton = ics,
            !.channel = [ic \in inChannel |->
               IF ic \in ics THEN [S.channel[ic] EXCEPT !.wait = <<p>> \o @]
               ELSE S.channel[ic]]]

hold_until(S, p, time) ==
  insert_event([S EXCEPT !.process[p].hold_event = TRUE], "hold", p, time)

Waits(S, ics, static) ==
  \/ /\ Becomes(deactivate_process(S, "waiting"))
     /\ asked' = [asked EXCEPT ![Self] =
          [ics |-> ics, static |-> static, until |-> Forever]]
  \/ \E d \in Delays :
       /\ Becomes(deactivate_process(hold_until(S, Self, simclock + d), "waiting"))
       /\ asked' = [asked EXCEPT ![Self] =
            [ics |-> ics, static |-> static, until |-> simclock + d]]

\* waitOn, waitOnFor and waitOnUntil with channels; without channels,
\* waitFor, waitUntil and suspendForever.
waitOn(ics) ==
  /\ Call /\ context' = "timeline"
  /\ Waits(sensitize_inchannel(State, Self, ics), ics, FALSE)
  /\ UNCHANGED <<arrivals, simclock, semaphores, timers>>

\* The same on the static channels; without a timeout there must be some.
waitOnStatic ==
  /\ Call /\ context' = "timeline"
  /\ Waits([State EXCEPT !.process[Self].static_sensitivity = TRUE], {}, TRUE)
  /\ process[Self].static_inchannels = {} => asked'[Self].until # Forever
  /\ UNCHANGED <<arrivals, simclock, semaphores, timers>>

\* The process ends and is deleted.
waitForever ==
  /\ context = "process" /\ context' = "timeline"
  /\ Becomes([deactivate_process(State, "terminating")
                EXCEPT !.process[Self] = NoProcess])
  /\ UNCHANGED <<arrivals, simclock, semaphores, timers, calls, asked>>

-----------------------------------------------------------------------------
(* Other calls.                                                            *)

\* A process declares its static channels, or somebody else does so for it.
waitsOn(p, ics) ==
  /\ AnyCall /\ process[p].state # "none"
  /\ process' = [process EXCEPT ![p].static_inchannels = ics]
  /\ UNCHANGED <<channel, evtlist, active_processes, arrivals, simclock, context,
                 semaphores, timers, asked>>

activeEvent_Take(ic) == \* mutant: the first one takes the event
  /\ Call /\ ~process[Self].active_event_retrieved
  /\ channel[ic].active_event # None
  /\ process' = [process EXCEPT ![Self].active_event_retrieved = TRUE]
  /\ channel' = [channel EXCEPT ![ic].active_event = None]
  /\ UNCHANGED <<evtlist, active_processes, arrivals, simclock, context, semaphores,
                 timers, asked>>

\* It takes the event, or a copy if others will want it as well.
activeEvent(ic) ==
  /\ Call /\ ~process[Self].active_event_retrieved
  /\ channel[ic].active_event # None
  /\ process' = [process EXCEPT ![Self].active_event_retrieved = TRUE]
  /\ channel' = [channel EXCEPT ![ic].active_event =
                   IF channel[ic].processes_activated > 1 THEN @ ELSE None]
  /\ UNCHANGED <<evtlist, active_processes, arrivals, simclock, context, semaphores,
                 timers, asked>>

wait(s) ==
  /\ Call
  /\ sem_count' = [sem_count EXCEPT ![s] = @ - 1]
  /\ IF sem_count[s] > 0
     THEN UNCHANGED <<scheduling, blocked_processes, order, context>>
     ELSE /\ Becomes(deactivate_process(State, "waiting"))
          /\ blocked_processes' = [blocked_processes EXCEPT ![s] = Append(@, Self)]
          /\ order' = [order EXCEPT ![s] = Append(@, Self)]
          /\ context' = "timeline"
  /\ UNCHANGED <<arrivals, simclock, timers, asked>>

signal_Newest(s) == \* mutant: releases the one that came last
  /\ AnyCall
  /\ sem_count' = [sem_count EXCEPT ![s] = @ + 1]
  /\ IF blocked_processes[s] = <<>> THEN UNCHANGED <<scheduling, blocked_processes>>
     ELSE /\ blocked_processes' = [blocked_processes EXCEPT ![s] = Front(@)]
          /\ Becomes(insert_event(State, "semaphore", Last(blocked_processes[s]), simclock))
  /\ UNCHANGED <<arrivals, simclock, context, order, timers, asked>>

signal(s) ==
  /\ AnyCall
  /\ sem_count' = [sem_count EXCEPT ![s] = @ + 1]
  /\ IF blocked_processes[s] = <<>> THEN UNCHANGED <<scheduling, blocked_processes>>
     ELSE /\ blocked_processes' = [blocked_processes EXCEPT ![s] = Tail(@)]
          /\ Becomes(insert_event(State, "semaphore", Head(blocked_processes[s]), simclock))
  /\ UNCHANGED <<arrivals, simclock, context, order, timers, asked>>

\* schedule throws if the timer runs; reschedule moves its event.
schedule(t, d, again) ==
  /\ AnyCall /\ again = timer_event[t]
  /\ Becomes(insert_event(IF again THEN cancel_event(State, "timer", t) ELSE State,
                          "timer", t, simclock + d))
  /\ timer_event' = [timer_event EXCEPT ![t] = TRUE]
  /\ fire_time' = [fire_time EXCEPT ![t] = simclock + d]
  /\ UNCHANGED <<arrivals, simclock, context, semaphores, uncalled, asked>>

cancel(t) ==
  /\ AnyCall /\ timer_event[t]
  /\ Becomes(cancel_event(State, "timer", t))
  /\ timer_event' = [timer_event EXCEPT ![t] = FALSE]
  /\ UNCHANGED <<arrivals, simclock, context, semaphores, fire_time, uncalled, asked>>

NewProcessIn(p) ==
  /\ AnyCall /\ process[p].state = "none"
  /\ Becomes(common_constructor(State, p, simclock))
  /\ asked' = [asked EXCEPT ![p] = Nothing]
  /\ UNCHANGED <<arrivals, simclock, context, semaphores, timers>>

\* Neither a semaphore nor the first event of a process forgets it when it is
\* deleted (process.cc:53-62), so programs must not delete it then.
MayDelete(p) == process[p].state = "waiting" /\ \A s \in Semaphore : ~Contains(order[s], p)

Delete(p) ==
  /\ AnyCall /\ MayDelete(p)
  /\ Becomes([clear_pending_wait(State, p) EXCEPT !.process[p] = NoProcess])
  /\ UNCHANGED <<arrivals, simclock, context, semaphores, timers, asked>>

-----------------------------------------------------------------------------
Kernel ==
  \/ \E i \in DOMAIN evtlist : TakeEvent(i) \/ TimerFires(i)
  \/ \E a \in arrivals : Arrive(a)
  \/ Execute \/ CallbackReturns

User ==
  \/ \E ics \in SUBSET inChannel : waitOn(ics)
  \/ waitOnStatic \/ waitForever
  \/ \E p \in Process, ics \in SUBSET inChannel : waitsOn(p, ics)
  \/ \E ic \in inChannel : activeEvent(ic)
  \/ \E s \in Semaphore : wait(s) \/ signal(s)
  \/ \E t \in Timer : \/ \E d \in Delays, again \in BOOLEAN : schedule(t, d, again)
                      \/ cancel(t)
  \/ \E p \in Process : NewProcessIn(p) \/ Delete(p)

Next == Kernel \/ User

Spec == Init /\ [][Next]_vars

ProcessType == [state : {"none", "creating", "running", "waiting"}, hold_event : BOOLEAN,
  waiton : SUBSET inChannel, static_sensitivity : BOOLEAN, static_inchannels : SUBSET inChannel,
  active_inchannel : inChannel \cup {None}, active_event_retrieved : BOOLEAN,
  process_timedout : BOOLEAN]
ChannelType ==
  [wait : Seq(Process), active_event : Nat \cup {None}, processes_activated : Nat]

TypeOK ==
  /\ process \in [Process -> ProcessType] /\ channel \in [inChannel -> ChannelType]
  /\ evtlist \in Seq(KernelEvent) /\ active_processes \in Seq(Process)
  /\ arrivals \subseteq Arrivals /\ simclock \in Nat
  /\ context \in {"timeline", "process", "callback"}
  /\ sem_count \in [Semaphore -> Int]
  /\ blocked_processes \in [Semaphore -> Seq(Process)]
  /\ order \in [Semaphore -> Seq(Process)]
  /\ timer_event \in [Timer -> BOOLEAN] /\ fire_time \in [Timer -> Nat]
  /\ uncalled \subseteq Timer /\ calls \in Nat
  /\ asked \in [Process -> [ics : SUBSET inChannel, static : BOOLEAN,
       until : Nat \cup {Forever}]]

\* The channels whose events p waits for now.
Awaited(p) == IF asked[p].static THEN process[p].static_inchannels ELSE asked[p].ics
ArrivesFor(p) == \E a \in arrivals \ arrivals' : a.ic \in Awaited(p)

\* What happens to p in a step is what it waited for.
AsAsked(p) ==
  LET q == process'[p] IN
  /\ ArrivesFor(p) <=> q.active_inchannel # None
  /\ ArrivesFor(p) => q.state = "running" /\ ~q.process_timedout
  /\ q.process_timedout => simclock' = asked[p].until
  /\ asked[p].until # Forever => simclock' <= asked[p].until
  /\ q.state = "running" => \/ ArrivesFor(p) \/ q.process_timedout
                            \/ \E s \in Semaphore : order'[s] # order[s]
(* A process that waits goes on exactly when the first of what it asked for *)
(* happens: an event arrives at one of its channels, its time has come      *)
(* (then timed_out() says so), or the semaphore lets it pass.  No clock     *)
(* moves beyond the time of a wait statement or of a running timer.         *)
WokenAsAsked ==
  [][/\ \A p \in Process :
          process[p].state = "waiting" /\ process'[p].state # "none" => AsAsked(p)
     /\ \A t \in Timer : timer_event[t] => simclock' <= fire_time[t]]_vars

(* Every process that an event has activated can retrieve it once, as itself *)
(* or as a copy, and no event stays at an inchannel after their turns.       *)
EventForEach ==
  /\ \A i \in DOMAIN active_processes :
       LET p == process[active_processes[i]] IN
       p.active_inchannel # None /\ ~p.active_event_retrieved =>
         channel[p.active_inchannel].active_event # None
  /\ Idle => \A ic \in inChannel : /\ channel[ic].active_event = None
                                   /\ channel[ic].processes_activated = 0

\* Event i lets p pass a semaphore.
Turn(p, i) ==
  i \in DOMAIN evtlist /\ evtlist[i].kind = "semaphore" /\ evtlist[i].who = p

\* b processes are blocked and the count is c: as many as it is below zero, or
\* fewer if the semaphore was made with a value below zero.
Blocks(s, b, c) == LET short == IF c < 0 THEN -c ELSE 0 IN
                   b <= short /\ (InitCount[s] >= 0 => b = short)

(* The processes that a semaphore has blocked pass it in the order in which *)
(* they came ("first-come-first-serve", ssf_semaphore.h:71): the ones that  *)
(* came first are released, in this order, the others blocked, and as many  *)
(* are blocked as the count is below zero.                                  *)
FirstComeFirstServed ==
  \A s \in Semaphore :
    LET n == Len(order[s]) - Len(blocked_processes[s]) IN
    /\ n >= 0 /\ blocked_processes[s] = SubSeq(order[s], n + 1, Len(order[s]))
    /\ \A k \in 1 .. Len(order[s]) :
         /\ process[order[s][k]].state = "waiting"
         /\ k <= n <=> \E i \in DOMAIN evtlist : Turn(order[s][k], i)
    /\ \A i, j \in DOMAIN evtlist : \A k, l \in 1 .. n :
         k < l /\ Turn(order[s][k], i) /\ Turn(order[s][l], j) => Before(i, j)
    /\ Blocks(s, Len(blocked_processes[s]), sem_count[s])

(* What ssf_timer.h:25-27 says: "If a timer goes off, minissf will call the *)
(* associated callback function".  (Violated.)                              *)
CallbackCalled == uncalled = {}

=============================================================================
