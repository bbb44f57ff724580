# Formal models of SimX and its minissf kernel

SimX is a library for parallel discrete-event simulation. Simulated entities
are programmed in C++ or Python on top of `src/src/simx` and `src/simx`. They run
either on the bundled kernel `src/src/minissf`, in parallel on the threads of
several machines, or on SimX's own stand-alone engine, one MPI process per rank.
This directory holds TLA+ modules of the parts on whose correctness every
simulation depends, TLC configurations that check them, and TLAPS proofs.

## 1. Inventory

| part | code (`src/src/minissf/` unless noted) | state | operations | module |
|---|---|---|---|---|
| universe: one thread per processor | `kernel/universe_sched.cc` | ready queue, blocked and paced timelines, synchronization point, edges of windows, mailbox | main loop, `synchronize_events`, `handle_io_events` | `CompositeSync` |
| machine: one MPI process | `kernel/universe_sched.cc` | outgoing mailbox, counts of messages, training state | reader and writer thread, collectives, training | `CompositeSync` |
| timeline (logical process) | `kernel/timeline.cc` | clock, lower bound (`lbts`), event list, lists of asynchronous stargates | `run`, `insert_event`, `retrieve_incoming_and_calculate_lowerbound`, `update_subsequent_timelines`, `classify_async` | `CompositeSync` |
| stargate: a directed edge between timelines | `kernel/stargate.cc` | `in_sync`, channel time, mailbox, minimum delay | `send_message`, `receive_messages`, `set_time` of sender and of receiver | `CompositeSync` |
| classification of stargates | `kernel/universe.cc` | window lengths, lists of trial thresholds | `classify_*_channels`, `enumerate_channel_delays` | `CompositeSync` (thresholds are parameters) |
| calendar queue of synchronous messages | `kernel/binque.cc` | bins, cursor, offset, far-future tree, unsettled list | `settle`, `insert_event`, `retrieve_events` | `BinQueue` |
| processes, inchannels, semaphores, timers of a timeline | `ssfapi/process.cc`, `inchannel.cc`, `ssf_semaphore.cc`, `ssf_timer.cc`, `kernel/kernel_event.cc` | process states, sensitivity lists, ready list, active events, counts, timer events | waits, activation, `activeEvent`, `wait`, `signal`, `schedule`, `cancel`, creation and deletion | `Processes` |
| SimX process manager and its operating system (Python) | `src/simx/processmgr.py`, `process.py`, `os/system.py`, `os/process.py` | process table, greenlets, cores, their queues | schedule, activate, sleep, wake up, wait for, kill, kill all, end | `ProcessManager` |
| SimX stand-alone engine (C++, MPI) | `src/src/simx/simEngine.C`, `EventQueue.h`, `LP.C` | event queue, window, listening thread | `run`, `sendEventInfo`, listening loop | `SimEngine` |
| channel mapping | `kernel/universe_mapping.cc` | mapping tables | `map_*_*` | not modelled |
| SimX entities, services, controller | other `src/src/simx/*.C`, `src/simx/*.py` | tables of entities and services | sequential, inside one handler | not modelled |

How they interact. A process writes to an outchannel; the message goes to the
event list of its target at once (same universe), into a calendar queue
(synchronous stargate), into the stargate's mailbox (asynchronous, same
machine), or through the outgoing mailbox, the writer thread, MPI and the
reader thread to another machine. Threads share channel times without a lock and
mailboxes with one; they meet at barriers, machines at MPI collectives. Inside a
timeline one thread takes event after event; an event makes processes active,
which run until their next wait statement. SimX's process manager is one service
inside a logical process: it sends messages to itself and switches between
greenlets. The stand-alone engine replaces minissf: its listening threads put the
events of other ranks into the queue of the main thread.

What is hard: lower bounds are computed from channel times and mailboxes that
other threads change at the same moment; null messages and messages take
different routes; stargates change from asynchronous to synchronous and back
while messages are under way; the stand-alone engine opens a window without
knowing whether its messages have arrived; a process waits for several things at
once and may be woken, released or deleted before it runs; a kill meets messages,
queues and waiting processes that remember the killed one.

What makes each part correct:

- composite synchronization: no timeline passes the time of a message that is
  still to arrive, no thread sleeps for ever, every event before the end is
  processed, and all of this amounts to sequential causality (`CausalTime`);
- calendar queue: a window finds all messages due in it;
- stand-alone engine: events are executed in the order of time unless the
  network was too slow for the window, windows advance, all threads end;
- processes: a wait ends exactly when the first of what was asked for happens,
  each activated process sees its event, semaphores are fair;
- process manager: each process is in one place, wakes up once, gets a core when
  one is free, and comes to its end;
- channel mapping: both ends of a stargate know the same minimum delay, and
  every inchannel gets each message once (not modelled).

## 2. Modules

| module | models |
|---|---|
| `CausalTime`, `CausalTimeProofs` | abstract specification: clocks, pending events, causality; its theorems |
| `CompositeSync`, `CompositeSyncProofs` | the composite synchronization, from the write to an outchannel to the event list of the receiver; its type correctness, that threads and machines go from window to window together, scheduling inside a window |
| `LookaheadProofs` | no message is due before the bound of its timeline, if those between machines are on time; no lost wake-up; the stages of an epoch |
| `RemoteProofs` | messages between machines are on time; what the runs check, on any number of machines; implementation of `CausalTime` |
| `BinQueue`, `BinQueueProofs` | the calendar queue, driven by the main loop; its safety theorems |
| `SimEngine`, `SimEngineProofs` | the stand-alone engine; its safety theorems |
| `ProcessManager`, `ProcessManagerProofs` | the Python process manager with the operating system; its type correctness and safety theorems |
| `Processes`, `ProcessesProofs` | processes, inchannels, semaphores, timers of one timeline; its type correctness and safety theorems |
| `MC*` | small instances for TLC |

Definitions whose comment begins with `mutant:` are deliberately wrong variants
of the definition that follows them; no specification uses them. Each property
is violated when the variant named for it replaces the original, which shows
that the property depends on that detail of the code.

### CompositeSync and the code

State. One function for each field the code keeps in an object of a class:
`simclock`, `lbts`, `state`, `evtlist` by timeline (`key` is the priority that
`make_timeline_runnable` sets); `gate`, `rgate` hold `in_sync` and `time` of
stargates, `rgate` those of the object at the receiving end when that is on
another machine; `inbound_async` merges the timelines' lists of that name;
`mailbox`, `umailbox`, `remote_mailbox` are the mailboxes of stargates,
universes and machines; `local_binque`, `global_binque`, `switch_board` the
synchronous messages; `net` the MPI channels. `runnable` is the ready queue; the
blocked set is `Blocked(u)`, the timelines with state `WAITING`, because the
code changes both together. `pc`, `ctx` and `scan` are program counter and
local variables of each thread.

Atomicity. An action ends where another thread can see a difference: at a lock
of a mailbox and at a read or write of a channel time. `ReadTime` and
`ReceiveMessages` are separate because the time of a stargate is read before
its mailbox is locked; `UpdateTime` and `Notify` are separate because the time
is published before the null message. What a thread does to its own timelines
in between is part of the action before. An access to a channel time is assumed
to be atomic and sequentially consistent. Steps of threads that wait at a
barrier are one action of the machine (`Barrier`, `Trained`); that `ssf_barrier`
could let a thread through early on a spurious wake-up is not modelled.

Main loop: `Barrier`, `Dispatch`, `Collect`, `SendEpoch`, `Reduce`, `Await`,
`DrainMail`, `MpiBarrier` are `synchronize_events`; `TrainLocal`, `TrainGlobal`,
`FinishGlobal`, `Trained` the training after it; `OpenTimeline`, `Pick`,
`RunEvent`, `RunEnd`, `UpdateTime`, `Notify`, `PollMail`, `Interrupted` and
`EndScan` the scheduling of timelines; `WaitMail` the blocking wait;
`AdvanceWindow` the end of a window. `BeginScan` to `EndScan` are
`retrieve_incoming_and_calculate_lowerbound`, wherever it is called. `Writer` and
`Reader` are the MPI threads. Every message that a process may write is a
choice of `RunEvent`: any subset of the timeline's stargates that still have
messages left, each with a delay on top of the minimum.

Counting messages. The code compares `rcvcnt` with the sum of the counts of
all machines. Both only grow, so that "not all have arrived" is the same as "a
counted one is between the machines", which is what `Outstanding` says.

Training keeps the threshold of the round that took least wall-clock time; any
of them may, so the choice is nondeterministic.

### BinQueue and the code

`CompositeSync` keeps synchronous messages in sets and retrieves those due;
`BinQueue` is the structure that does so. It is checked with the sequence of
calls the main loop makes (windows, epochs that end inside a decade, the end of
training), for messages that are at least a window ahead, as their delay is.

### CausalTime

Timelines with clocks; a clock moves up to the clocks of the predecessors plus
the delays of the stargates between, never past an unprocessed event. Its
`Process` step may send any messages that respect the delays. `CompositeSync`
implements it with `pending` mapped to the event list of a timeline together
with every message under way to it, wherever it is.

### SimEngine and the code

`g_eq`, `g_time_now`, `g_time_next_sent` are the globals of `simEngine.C`, one per
rank; `pc` is the place of the main thread in `run()`, `received` the local
variable of the listening thread, `transit` MPI. `offered` keeps what each
process gave to each reduction, so that nobody leaves a reduction that somebody
has not entered. `Pop`, `PopBeyondEnd`, `EndWindow`, `NextWindow`, `Quit` and
`Join` are the loop of `run()`, `SendLocal` and `SendRemote` the calls of
`sendEventInfo` while an event executes (`SendLocal` also the timers of `LP.C:167-230`,
whose delays `InfoManager` raises itself), `SendReturns` the return of `MPI_Send`,
`Receive` and `Push` the listening thread. A comment before the call says
"synchronous send" (`simEngine.C:528-530`), but `MPI_Send` at line 534 is the
standard mode: it may return before anybody has received the message. Nothing
waits for messages at the end of a window, so one may miss its window;
`straggled` remembers those. The properties say exactly how much the reduction
of the sent times guarantees, and what only holds if the listening thread is quick.

### Processes and the code

`process` and `channel` hold the fields of `Process` and `inChannel`, `evtlist` the
kernel events of the timeline in the order of their numbers, `arrivals` the events
that still come from elsewhere. `TakeEvent`, `TimerFires`, `Arrive` and `Execute`
are what `Timeline::run` does; the rest are the calls of a process or of a timer's
callback. The operators `activate_process`, `clear_pending_wait`,
`deactivate_process` and so on are the functions of that name, on a record of the
tables. History variables: `asked` is what the wait statement asked for, `order`
who waits for a semaphore, including those already released whose event has not
been taken, `uncalled` timers that fired without their function.

The kernel compares events by time and then by number, so a new event goes behind
all of the same time (`Place`) and the first in the list is the next
(`IsFirst`, `Before`). An arriving event activates processes in the order of the addresses of
those that have declared the inchannel, which may be any, and then in that of
its list (`Waiters`); `Activations` are the states in between. The constructor of a
semaphore accepts a value below zero, for which nobody is blocked, so its count says how
many are blocked only if it began at zero or above (`Blocks`).

### ProcessManager and the code

A handler makes many calls, so each function of `processmgr.py` and
`os/system.py` is an operator that takes the tables and returns the next ones, and
an action is a whole handler: `Schedule` and `Recv` in the main greenlet, `Sleep`,
`Spawn`, `WaitFor`, `Kill`, `KillAll`, `Finish` in that of a process. `messages` are
those the manager sends to itself. `running` is the greenlet that has the control;
the nested calls of `proc_switch` that are not finished have nothing left to do
and are not represented. `KillAll` states that the kills follow each other, which
is what proofs use, as well as computing them (`Killed`).

With `Careful = TRUE` programs keep to rules that the code does not enforce, and
break when they are not kept: a process object is not scheduled again before the
messages of its earlier life have arrived (`Fresh`: messages carry only the pid),
and nobody kills itself, a process somebody else waits for, or a process of the
operating system between scheduling and activation (`MayKill`).

## 3. Runs

| run | instance and question | properties |
|---|---|---|
| `sync_shmem` | 1 machine, 2 universes, 3 timelines, 4 stargates (3 asynchronous, one of them inside a universe; 1 synchronous), endtime 3 | `TypeOK`, `LbtsSafe`, `NoLostWakeup`, `WindowComplete`, `ImplementsCausalTime`, `Termination` |
| `sync_remote` | 2 machines, 3 universes, 3 timelines, 3 stargates, global training, endtime 5 | `LbtsSafe`, `ChannelTimeSafe`, `DeliveredAtEdge`, `SameWindow`, `AllProcessed`, `ImplementsCausalTime`, `Termination` |
| `train_shmem` | 1 machine, 2 universes, 2 timelines, 3 stargates, local training, time slices of 1, endtime 6 | `LbtsSafe`, `AllProcessed`, `ChannelTimeMonotone`, `ImplementsCausalTime` |
| `causal_time` | 2 timelines in a cycle, one event possibly after the end | `TypeOK`, `NoStraggler`, `WithinLookahead`, `Progress` |
| `bin_queue` | 3 bins, at most 3 messages, settled at 0 or at 3 | `TypeOK`, `RetrievedInTime`, `Calendar`, `NoAbort` |
| `sim_engine` | 2 ranks, two initial events, a message sent before `run()`, up to 3 sends, MINDELAY 2, end 4 | `TypeOK`, `LateOnlyIfStraggled`, `NothingLeft`, `WindowsAdvance`, `Termination` |
| `process_manager` | 1 plain process (two lives) and 3 of the operating system, 2 cores of which one is asked for by name, 4 calls | `TypeOK`, `OnePlace`, `NoIdleCore`, `OneMessage`, `NoFailure`, `AllEnd` |
| `processes` | up to 3 processes, 2 inchannels with an event each, a semaphore, a timer, 5 calls | `TypeOK`, `EventForEach`, `FirstComeFirstServed`, `WokenAsAsked` |
| `init_write` | a message written by `Entity::init`; must fail | `ArrivesOnTime` |
| `bin_queue_trained` | as `bin_queue`, settled at 3 and with times beyond one turn of the calendar; must fail | `RetrievedInTime` |
| `process_manager_kill` | a kill before the activation; must fail | `AlwaysFound` |
| `timer_function` | a timer with a callback function; must fail | `CallbackCalled` |

Bounds. `CompositeSync`: `MaxSend` (messages of a stargate, 1 in the runs),
`MaxWriteDelay` (0), `endtime`, `Infinity` (99, above every time). One message per
stargate suffices for the hazards listed because each is a race of one message
with one bound, null message or window edge; the messages of several stargates
overlap, and null messages, which are not bounded, follow them. Every instance
has at least two windows, messages due exactly at an edge, and a cycle of
stargates. The training runs have two thresholds, so that a stargate is
asynchronous, synchronous and either again. With a time slice of 99 a timeline is
never cut short, with 1 it is at nearly every step. `BinQueue`: `MaxEvents`,
`MaxTime`, `MaxBins`; there are more windows than bins, so the cursor wraps around.
`SimEngine`: `MaxSend`, `Delays`; delays below the minimum (0, raised) and above a
window (3), three windows, a message sent in the last one. `ProcessManager`:
`MaxCalls`, `MaxLives`, `Durations`; one process more than cores among those of the
operating system, so that both queues fill, and enough calls for a wait, a kill of
a process in a queue, and two sleeps. `Processes`: `MaxCalls`, `Arrivals`, `Delays`; two
processes can wait on both channels with timeouts that end when an event arrives.

Fairness. `CompositeSync`: every thread that can go on does so at some time (the
operating system's scheduling), machines meet at barriers when all threads are
there, and the writer and reader threads go on as long as there is something to
move (MPI delivers). Each is weak fairness of the disjunction of the actions of
one thread, so that it prefers none of them. `SimEngine`: weak fairness of the main
thread of each rank, of pushing what was received, and of receiving from each
rank (MPI delivers); sending is not fair, events need not send. `ProcessManager`:
weak fairness of delivering the next message or ending the process that runs: the
simulation goes on while there are events, and handlers return. `Processes` states
no liveness: whether a wait ends depends on others.

`CHECK_DEADLOCK FALSE` stands where the system ends: all threads have left the
loop, or no message is left.

## 4. Findings

- **Messages written by `Entity::init`** (`ssfapi/entity.cc:155`). They are sent
  before stargates are classified, when all are still synchronous, and
  wait in the calendar queue for the first window edge. If the stargate turns out
  to be asynchronous its delay is smaller than the window, and the receiver
  passes the arrival time first: `insert_event` aborts. `init_write` shows it; the
  other runs have no init writes (`InitWrites = {}`).
- **Far-future messages after training** (`kernel/binque.cc:127`). The upper edge
  is relative to the offset of the queue, the event time is absolute.
  `bin_queue_trained` shows a window that opens with a message due in it still
  in the tree. `bin_queue` bounds times so that the tree is used only by queues
  with offset 0; for these `RetrievedInTimeHolds` is a theorem.
- **A kill before the activation** (`os/system.py:167`). The process has neither a
  core nor a place in a queue, and `end_process` ends the simulation at a line
  that its comment says is never reached (`process_manager_kill`).
- **Timers with a function** (`kernel/kernel_event.cc:61`). Only the virtual
  `callback()` is called; the function pointers of the other constructors are never
  read, although `ssf_timer.h` promises the call (`timer_function`).

Met while modelling, and excluded by a named rule instead of a run:

- `proc_kill` names `GreenletExit` without raising it (`processmgr.py:317`): the
  greenlet of a killed process lives on, and who waits for the killed process is
  never resumed (`MayKill`).
- The guard against killing oneself compares the process with the manager
  (`processmgr.py:302`), so it never applies (`MayKill`).
- Wake-ups and activations carry only the pid and may reach a later life of the
  process (`Fresh`). `waitfor` on a process that is scheduled or active ends the
  simulation.
- `System.schedule_process` does not pass on its delay (`os/system.py:77-81`).
- `~Process` (`ssfapi/process.cc:54`) leaves the process in the list of a semaphore,
  and its first event in the event list (`MayDelete`).

## 5. Proofs

`CausalTimeProofs`, for any sets of timelines and stargates, any topology and any
positive integer delays (`TopologyAssumption`): `TypeCorrect`, `NoStragglerHolds`
and `WithinLookaheadHolds`. The inductive invariant is their conjunction: neither
of the latter is inductive alone. That a message sent lies in its receiver's
future needs `WithinLookahead`, since the clock of the receiver is bounded by the
clock of the sender plus the delay.

`CompositeSyncProofs`, for any topology and parameters that satisfy
`TopologyAssumption`, `ParameterAssumption` and `InputAssumption`:
`TypeOKHolds`. `TypeOK` is inductive with its conjunct `Running` (a thread in the
middle of a timeline has one); without it `simclock[ctx[u].cur]` could be
anything. There is a lemma for each action, and in it a step for each group of
variables that the action changes. `InputAssumption` asks for a finite set of
init writes, whose number is an initial value.

The constants of `CompositeSync` are assumed to be what start-up makes of them:
finitely many universes, processor 0 of a machine belongs to it, the rounds of
local training fit into its length (`TrainingAssumption`: it is the maximum over the
machines, universe.cc:565-593), `Infinity` lies beyond the end, and the init writes
of a stargate are numbered as they were written (`NumberAssumption`).

The second part, for every system that satisfies them, on any number of machines and
with any training plan. Nobody distributes the edges of the windows: each universe
computes its own, and processor 0 changes the lengths between two barriers. The
invariants build on each other:

- `Meeting` (`MeetingHolds`): threads of a machine between two windows have the same
  edges (`Edges`), a thread may be ahead of another only where a barrier allows it
  (`Together`, `ExchangeTogether`), and what processor 0 is about to change nobody reads.
- `Agreement` (`AgreementHolds`): every machine expects the same next epoch, with the
  same length and round of training, although each computes its own (`SameJourney`), and
  none leaves a collective that another has not entered (`MeetTogether`).
  `SameWindowHolds` follows from the two.
- `Scheduling` (`SchedulingHolds`): a timeline is in one place: ready or on the
  processor and RUNNING, WAITING, or at the edge of the window; a thread that
  computes a bound finds none below the one it has used; what a stargate announces
  and what its target's machine knows of it only rises. `WindowCompleteHolds` follows.

`LookaheadProofs`. `Lookahead` says for each place a message can be in what it is due
after: in the mailbox of a stargate the bound of its timeline (`LocalMail`), while a
thread scans its channels what the scan has found (`Held`: the time of a stargate is
read before its mailbox, and that is the order in which they must be read), in a queue
for the edge the decade to come (`Queues`), on the switch board the window that
begins (`Boards`). `LookaheadHolds` proves it for every system whose messages between
machines are on time (`RemoteSafe`), and for every system `AnnouncedTimeRisesHolds`.
If no stargate leaves its machine (`SharedMemory`: one MPI process, or several that do
not communicate; the instances of `sync_shmem` and `train_shmem`) nothing is left
to assume about other machines, and `ChannelTimeMonotoneInside` follows without the
hypotheses below.
The hypothesis `InitWritesOnTime` asks that a message which init() writes to a
synchronous stargate is not for a time inside the first decade. It excludes exactly
what the run `init_write` finds, and holds if entities write nothing in init().

`RemoteProofs` proves the premise `RemoteSafe`, and with it `LbtsSafeHolds`,
`ArrivesOnTimeHolds`, `ChannelTimeSafeHolds`, `DeliveredAtEdgeHolds` and
`AllProcessedHolds` for any number of machines, threads and stargates and with any
training plan. The second hypothesis, `InitWritesAhead`, is that of `InitWritesOnTime` for
stargates between machines: a message written in init() goes through a stargate that
is synchronous at first, and the delay of the stargate applies to it. The inductive
invariant is `Journeys`. Besides the invariants above it has two parts:

- `Epochs`: the threads of a machine go through the stages of an epoch together
  (`Phases`: meet, drain, train), no machine is past a meeting that another has not
  entered (`Passed`), the length of an epoch is at most the delay of every stargate that
  is synchronous in it (`EpochLengths`, `EpochClasses`), and a receiving end believes
  what its sender has announced at most (`TimeKnown`).
- `Lines`, a statement for each place a message or a null message can be in. What
  waits for an epoch is for after the edge at which it will be sent (`Waits`); when
  all machines have passed the reduction nothing sent before is outside the mailboxes,
  because what was sent is counted and the reduction waits for it. Null messages tell no
  more than was announced (`NullsTold`), stay inside their machine until the
  writer takes them (`NotifiesInside`), and none is ahead of a message it is later than,
  in the thread's mail, in the mailbox of the writer, in a batch or between the
  batches of a line (`Orders`, `FreshMail`). So no message still on its way is for a time
  before the one the receiving end believes (`Announced`), and none in a mailbox is
  before the bound of its timeline (`Mailboxes`: the reader thread puts regular
  messages there before it hands on the null messages of the same batch).

Training is where the two parts need each other. A stargate that becomes asynchronous
starts with the time at which the epoch ends plus its delay; messages of its
synchronous past could be before that, and are not, because at that moment all lines are
empty and what is kept for later epochs is for after the next one.

`ChannelTimeMonotoneHolds` adds two invariants. The time a receiving end has while its
stargate is asynchronous is no more than that at which any later training round ends plus
the delay (`Heard`): a universe runs ahead of the epoch it waits for by no more than
the length of that epoch. While a stargate is synchronous its receiving end keeps its
time, and the next epoch only moves on (`Frozen`).

The attempt to prove `ChannelTimeSafe` as it was first stated found that it does not
hold: a message for the end of the simulation or later is not counted, the last
reduction does not wait for it, and a stargate that then becomes asynchronous gets a
time that may pass it. Nobody waits for such a message and no timeline processes it.
TLC finds that behaviour with the machines of `sync_remote`, delays 1, 3, 3, thresholds 1
and 4 and an end of 3; `ChannelTimeSafe` now speaks of counted messages.

`ImplementsCausalTimeHolds`, under the same two hypotheses and on any number of machines:
every behaviour of `CompositeSync` is one of `CausalTime`, with the clocks as they are
and `pending` as the event list together with all that is on its way. The invariant `Whereabouts` is
`Journeys` with `Once` and `FarOnce`: a message, inside a machine or between two, is in
one place only, and not yet sent if it is in none. `FarOnce` follows a message from
the queue for an epoch or the mailbox of the writer over one batch of the line to the mail
of the thread that will have it, where it is once (`Alike`). `StepBrings` is the lemma on
every step but `RunEvent`: what a timeline has or will get before the end of the
simulation (`Ahead`) stays the same, so that a step that moves a message is a stutter
(`StepIsHidden`); what the writer leaves out of a batch is for the end or later.
`RunEnd` is an `Advance` (`RunEndAdvances`: the timeline may move because its bound is
within the announced times, and those within the clocks plus the delays, `RemoteReach`
for a stargate between machines), and `RunEvent` a `Process`
(`RunEventProcesses`: it is the least event of all that is pending, not only of those
in the list).

`NoLostWakeupHolds`, for every system. The invariant is `Wakeups`: a timeline blocked
at the bound b is held by an inbound stargate that will be heard of (`WillHear`): its
time is not above b, or its null message is in the mailbox or in the mail the thread
has taken, or the sender is about to notify. While a thread computes a bound the same
holds of the smallest time read so far; a time that rises after it was read is
covered by the notification, because the sender sets the time first and notifies
afterwards. `DueOn` follows a notification until it is in the mail, `OwnMailed` the
mail until it is handled, and `Patient` says what the steps of other threads may do to
the stargates a universe listens to.

`BinQueueProofs`, for all window lengths, numbers of bins, ends and training
lengths (`WindowAssumption`): `TypeCorrect`, `CalendarHolds`, `NoAbortHolds`, and
`RetrievedInTimeHolds` for queues without an offset. The invariant `IInv` adds to
the calendar where the cursor may be (`Edges`: at the upper edge of the window, one
bin behind it, or in a last window that is shorter), that nothing in a bin is due
before the next window (`Due`), and how the edges are ordered (`Windows`). The one
bin that is ever skipped is the first, and it is empty because what is in it
would have been due in the window that ends. The module begins with the facts
about division that this needs: quotient and remainder are unique, the remainder
of a successor, and that slots of one turn have different bins. The first three
theorems hold for the code after training as well; only the far-future tree is
wrong there.

`SimEngineProofs`, for any finite set of ranks and any delays, initial events and
messages: `TypeCorrect`, `LateOnlyIfStraggledAlways`, `NothingLeftAlways`,
`WindowsAdvanceAlways`. The invariant is `TypeOK /\ Rounds /\ Bases /\ Clocks /\
Offers /\ Counted /\ OnTime /\ Queued /\ LateOnlyIfStraggled`: nobody leaves a
reduction that somebody has not entered (`Rounds`), the base of a window is the
minimum offered (`Bases`), no offer is before the window ends (`Offers`), every
message that did not straggle is counted in the reduction of the window it was
sent in and arrives after that window (`Counted`), and what is queued is not before
the clock (`Queued`). It follows an event from its sender to its receiver.

`ProcessManagerProofs`, for any processes, cores and requests for cores. There is a
lemma for each function of the code and each invariant of the tables `S`, in the order
in which the functions call each other; an action preserves an invariant because it
is made of these functions.

- `Good` (`NoIdleCoreAlways`): the queues hold processes and no core is idle while
  one of them is not empty. `Typed` (`TypeOKAlways`): the types, and that messages
  are in the order of their delivery (`Sorted`), without which a time left could
  become negative. Both hold for all programs, careful or not.
- `Fit` (`OnePlaceAlways`, `OneMessageAlways`, `NoFailureAlways`), for careful programs:
  these theorems have the hypothesis `Careful`, a constant that is TRUE in the run
  `process_manager`; the run `process_manager_kill` shows that without it the program
  may exit. Functions meet states in which a process has just lost its place or
  its message, so `Fit(S, x, y)` exempts process `x` from having a place and process
  `y` from having a message.

The parts of `Fit` need each other. `Queues` and `Homes` say who has a place: nobody
is twice in a queue or in one that is not for it, and a process and its core know each
other. `Control`: who has the control is active and has a core, so that it can
give it up. `Mail`: one message for each process that expects one, the others are
for processes that were killed. `Waiting`: a process waits for one living process at
most, and who is waited for by a living process waits or was killed; so the end of a
process resumes nobody who is active or asleep. The third rule of `MayKill`, not to
kill a process somebody else waits for, is not needed for any of them, only for `AllEnd`.

The kills of `kill_all` are an induction over a sequence, and least elements an
induction over the numbers. The induction theorems of the library take an operator,
so `SetInduction` gets them from the theorem on well-founded sets, whose parameter
is a set. The lemmas on `RemoveAt`, `InsertAt`, `RemoveFirst`, `Append` and `Tail` say
what lists without repetition hold afterwards.

`ProcessesProofs`, for any processes, inchannels, semaphores with any initial
values, timers, events that arrive and calls: `TypeOKHolds`, `EventForEachHolds`,
`FirstComeFirstServedHolds` and `WokenAsAskedHolds`. The invariant ties the tables of
the objects to each other:

- `States`, `Ready`, `Lists`: the fields of a process are as its state says, the
  ready list holds those that run, the list of an inchannel those that wait for it.
  Without them an event could wake somebody who does not wait.
- `Activity`: all that run were activated by one inchannel, which counts them and
  keeps its event as long as one of them wants it. `EventForEach` follows.
- `Order`, `Places`: the processes blocked at a semaphore are the last in its order,
  the first are released, and a process is at one semaphore at most and waits for
  nothing else. `InLine`: the events of those released are in that order in the event
  list, whatever else is inserted or cancelled. `FirstComeFirstServed` follows.
- `Events`, `Times`, `Asked`: there is one event for each process that is new, has a
  timeout or is released, and for each running timer; it is for the time asked
  for; and the fields of a waiting process say what it asked for. `WokenAsAsked`
  follows. `Begun` says that a process that has the control has nothing asked.

Each call has its lemma. What calls do to the event list are cases of one
description (`Edited`: some events leave, one may come, the rest keep their order).
An arrival wakes processes one after the other: `Reached` describes the state after
the first i of them, by induction over i.

Only model-checked: all liveness (`Termination`, `Progress`, `AllEnd`), because the
prover handles neither fairness nor `ENABLED`. Every other property of the passing
runs is a theorem. No module uses RECURSIVE operators.

## 6. Not modelled

- Channel mapping: the tables are built once, before the threads start; their
  result is the constants of `CompositeSync`. Two hazards remain: the
  receiving end of a stargate between machines does not learn of a raised minimum
  delay, and a message to several targets on one remote machine is copied too often.
  Both ends of a stargate have one `min_delay` in `CompositeSync`, and a message has
  one target, where the code copies it to each stargate of the port
  (`universe_sched.cc:872-906`): "every system" in section 5 means every system with
  one target for each outport.
- Several messages to one stargate in one event, and the moments between the
  messages of an event: `RunEvent` writes them all in one step, at most one for each
  stargate. Nor does the model abort on a straggler (`stargate.cc:218-223`); that none
  arrives is what `ArrivesOnTime`, `ChannelTimeSafe` and `LbtsSafe` say.
- Late retrieval from a calendar queue in `CompositeSync`: `Retrieved` takes the queue
  to be correct, which `bin_queue` checks and `bin_queue_trained` refutes for queues
  with an offset.
- `MPI_Probe` and `MPI_Recv` of the stand-alone engine are one step: a rank has one
  listening thread, which nobody else can overtake between them.
- Programs that break the rules `Fresh` and `MayKill` of section 2. The hazards at
  `processmgr.py:133` and `processmgr.py:317` are such programs, and no property
  covers them.
- Emulation: paced timelines and emulated events are driven by real time.
- The single reader/writer thread for MPI libraries without
  `MPI_THREAD_MULTIPLE` (`rw_thread`), with its `carry_on` flags.
- Spurious wake-ups of the condition variable in `ssf_barrier`.
- Overflow of 64-bit times: `VirtualTime::INFINITY` is 9.2e18 ticks, so adding it
  to a time of more than 2.3e16 ticks overflows. Times in the models are
  unbounded.
- Event lists (splay tree, heap): sequential structures, sets in the models. The
  order of events of equal time is left open, except inside `Processes`.
- Procedures, the stack of a minissf process; `waiton` of the process manager, which
  the code calls untested and which calls a method that does not exist.
- Shutdown after the main loop, statistics, command line, partitioning.
- SimX entities, services, controller, input and output: sequential code inside
  one handler, without a protocol of its own.
- Vendored code (metis, sprng, loki), with tables of random number generators and
  primes. It is most of the lines under `src/`, so the share of the code
  that the modules cover stays small however much of the simulator is modelled.

## 7. Plan

Done: the modules, runs and theorems above. What would come next:

1. `ChannelMapping`: the tables that `map_local_remote`, `map_remote_local` and
   `map_local_local` build and the delivery through them; properties: equal
   delays at both ends, each inchannel served once and on time.
2. `Barrier`: `ssf_barrier` with spurious wake-ups, as an implementation of the
   atomic meeting of `CompositeSync`; the single reader/writer thread.
