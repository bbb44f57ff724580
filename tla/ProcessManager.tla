---------------------------- MODULE ProcessManager ----------------------------
(***************************************************************************)
(* The process manager of SimX (Python) and the simple operating system on *)
(* top of it: process oriented simulation on one entity.                   *)
(*                                                                         *)
(* A process runs in a greenlet.  The main greenlet takes one message      *)
(* after the other (the activation or the wake-up of a process), switches  *)
(* to the process, and gets the control back when the process sleeps,      *)
(* waits for another one or ends.  Then it may go on with another process  *)
(* before it is done with the message: the one that is waited for, or the  *)
(* one that has waited.  "running" is the process that has the control;    *)
(* the outer frames of proc_switch have nothing left to do.                *)
(*                                                                         *)
(* Processes of the operating system need a core while they run and sleep, *)
(* and queue for it.  An exception in a handler is printed and ends the    *)
(* handler (PyService.C); ds.failure ends the program.                     *)
(*                                                                         *)
(* A handler makes many calls, so each function of the code is an operator *)
(* that takes a state S of the tables and returns the next one.            *)
(*                                                                         *)
(* Left out: waiton ("untested" says the code, and Resource lacks the      *)
(* method it calls), sleeping without a duration, and what processes       *)
(* compute.  Kill from the main greenlet only raises a KeyError.           *)
(***************************************************************************)
EXTENDS Integers, Sequences, SequencesExt

CONSTANTS
  Process, None,
  OSProcess,       \* the processes with a resource handler
  Cores,           \* 1 .. n, in the order of node.cores
  req_res,         \* [OSProcess -> Cores \cup {None}]
  Durations,       \* bound: the durations and delays that programs use
  MaxCalls,        \* bound: calls that processes make, all together
  MaxLives,        \* [Process -> Nat], bound: how often it is scheduled
  Careful          \* programs keep to the rules below

ASSUME ProcessAssumption ==
  /\ None \notin Process \cup Cores /\ OSProcess \subseteq Process
  /\ Cores \subseteq Nat /\ req_res \in [OSProcess -> Cores \cup {None}]
  /\ Durations \subseteq Nat \ {0}
  /\ MaxCalls \in Nat /\ MaxLives \in [Process -> Nat] /\ Careful \in BOOLEAN

VARIABLES
  status,          \* in proc_table; "none": no entry
  waitingon,       \* the process that waits for this one
  children,        \* sequence of processes
  resource,        \* the core that a process holds
  holder,          \* core.process; a core is busy if it has one
  process_queue,   \* private queue of a core
  ready_processes, \* main queue
  messages,        \* in the order of their delivery, with the time left
  running,         \* the process whose greenlet has the control
  failed,          \* why the program has exited, or "no"
  calls, lives     \* bounds

tables == <<status, waitingon, children, resource, holder, process_queue,
            ready_processes, messages, running, failed>>
vars == <<tables, calls, lives>>

Message == [pid : Process, wakeup : BOOLEAN, delay : Nat]
LOCAL_MINDELAY == 1

State == [status |-> status, waitingon |-> waitingon, children |-> children,
          resource |-> resource, holder |-> holder, process_queue |-> process_queue,
          ready_processes |-> ready_processes, messages |-> messages,
          running |-> running, failed |-> failed]
Becomes(S) == \E T \in {S} :
  /\ status' = T.status /\ waitingon' = T.waitingon /\ children' = T.children
  /\ resource' = T.resource /\ holder' = T.holder /\ process_queue' = T.process_queue
  /\ ready_processes' = T.ready_processes /\ messages' = T.messages
  /\ running' = T.running /\ failed' = T.failed

\* What exits the program.
Failures == {
  "sleep of a process that is not active", "process cannot be found anywhere",
  "process must either be new or inactive", "invalid activation message",
  "invalid wake-up message", "process not in active state", "no entry found for process"}

Fail(S, why) == [S EXCEPT !.failed = why, !.running = None]
\* Between its activation and its end, a process has a greenlet.
HasGreenlet(S, p) == S.status[p] \in {"active", "sleep", "waitfor"}

Init ==
  /\ status = [p \in Process |-> "none"]
  /\ waitingon = [p \in Process |-> None]
  /\ children = [p \in Process |-> <<>>]
  /\ resource = [p \in Process |-> None]
  /\ holder = [c \in Cores |-> None]
  /\ process_queue = [c \in Cores |-> <<>>]
  /\ ready_processes = <<>> /\ messages = <<>>
  /\ running = None /\ failed = "no"
  /\ calls = 0 /\ lives = [p \in Process |-> 0]

-----------------------------------------------------------------------------
(* Messages to the process manager itself, delivered in the order of time. *)

Send(S, p, wakeup, d) ==
  LET earlier == Cardinality({i \in DOMAIN S.messages : S.messages[i].delay <= d})
  IN [S EXCEPT !.messages =
        InsertAt(@, earlier + 1, [pid |-> p, wakeup |-> wakeup, delay |-> d])]

-----------------------------------------------------------------------------
(* The cores: os/system.py.                                                *)

proc_sleep_Silent(S, p, d) == \* mutant: nobody will wake it
  IF S.status[p] # "active" THEN Fail(S, "sleep of a process that is not active")
  ELSE [S EXCEPT !.status[p] = "sleep"]

proc_sleep(S, p, d) ==
  IF S.status[p] # "active" THEN Fail(S, "sleep of a process that is not active")
  ELSE [Send(S, p, TRUE, d) EXCEPT !.status[p] = "sleep"]

free_resource_Main(S, p) == \* mutant: private queues are forgotten
  LET c == S.resource[p]
      freed == [S EXCEPT !.resource[p] = None, !.holder[c] = None]
      Given(T, q) ==
        proc_sleep([T EXCEPT !.resource[q] = c, !.holder[c] = q], q, LOCAL_MINDELAY)
  IN IF S.ready_processes # <<>>
     THEN Given([freed EXCEPT !.ready_processes = Tail(@)], Head(S.ready_processes))
     ELSE freed

\* p gives its core to the next process of the private queue, or else of the
\* main one, which a wake-up will start.
free_resource(S, p) ==
  LET c == S.resource[p]
      freed == [S EXCEPT !.resource[p] = None, !.holder[c] = None]
      Given(T, q) ==
        proc_sleep([T EXCEPT !.resource[q] = c, !.holder[c] = q], q, LOCAL_MINDELAY)
  IN IF S.process_queue[c] # <<>>
     THEN Given([freed EXCEPT !.process_queue[c] = Tail(@)], Head(S.process_queue[c]))
     ELSE IF S.ready_processes # <<>>
     THEN Given([freed EXCEPT !.ready_processes = Tail(@)], Head(S.ready_processes))
     ELSE freed

Queued(S, p) == {c \in Cores : Contains(S.process_queue[c], p)}
First(C) == CHOOSE c \in C : \A d \in C : c <= d

end_process_Main(S, p) == \* mutant: stays in a private queue
  IF S.resource[p] # None THEN free_resource(S, p)
  ELSE IF Contains(S.ready_processes, p)
       THEN [S EXCEPT !.ready_processes = RemoveFirst(@, p)]
  ELSE S

end_process(S, p) ==
  IF S.resource[p] # None THEN free_resource(S, p)
  ELSE IF S.status[p] = "waitfor" THEN S
  ELSE IF Contains(S.ready_processes, p)
       THEN [S EXCEPT !.ready_processes = RemoveFirst(@, p)]
  ELSE IF Queued(S, p) # {}
       THEN [S EXCEPT !.process_queue[First(Queued(S, p))] = RemoveFirst(@, p)]
  ELSE Fail(S, "process cannot be found anywhere")

\* The control goes to the greenlet of p, once p has a core.
assign_process(S, p) ==
  LET idle == {c \in Cores : S.holder[c] = None}
      On(c) == IF S.process_queue[c] # <<>> THEN S    \* assert(False)
               ELSE [S EXCEPT !.holder[c] = p, !.resource[p] = c, !.running = p]
  IN IF S.resource[p] # None THEN [S EXCEPT !.running = p]
     ELSE IF req_res[p] # None
     THEN IF req_res[p] \in idle THEN On(req_res[p])
          ELSE [S EXCEPT !.process_queue[req_res[p]] = Append(@, p)]
     ELSE IF S.ready_processes = <<>> /\ idle # {} THEN On(First(idle))
     ELSE [S EXCEPT !.ready_processes = Append(@, p)]

-----------------------------------------------------------------------------
(* The process manager: processmgr.py.                                     *)

\* proc_switch to a process that has a greenlet; without one, the look at
\* gobject_.dead raises an exception.
Resume(S, p) ==
  LET active == [S EXCEPT !.status[p] = "active"]
  IN IF p \in OSProcess THEN assign_process(active, p) ELSE [active EXCEPT !.running = p]
proc_switch(S, p) == IF HasGreenlet(S, p) THEN Resume(S, p) ELSE S

proc_deactivate(S, p) ==
  [(IF p \in OSProcess THEN end_process(S, p) ELSE S) EXCEPT !.status[p] = "inactive"]

proc_new(S, q, parent, waiter) ==
  IF S.status[q] \notin {"none", "inactive"}
  THEN Fail(S, "process must either be new or inactive")
  ELSE LET T == [S EXCEPT !.status[q] = "scheduled", !.waitingon[q] = waiter,
                          !.children[q] = <<>>]
       IN IF parent = None THEN T ELSE [T EXCEPT !.children[parent] = Append(@, q)]

\* With a delay the process is activated by a message, without one at once.
proc_schedule(S, q, d, parent, waiter) ==
  LET T == proc_new(S, q, parent, waiter)
  IN IF T.failed # "no" THEN T
     ELSE IF d > 0 THEN Send(T, q, FALSE, d) ELSE Resume(T, q)

recv_activate(S, p) ==
  IF S.status[p] = "inactive" THEN S
  ELSE IF S.status[p] # "scheduled" THEN Fail(S, "invalid activation message")
  ELSE Resume(S, p)

recv_wakeup_Any(S, p) == \* mutant: without a look for inactive processes
  IF S.status[p] # "sleep" THEN Fail(S, "invalid wake-up message")
  ELSE proc_switch(S, p)

recv_wakeup(S, p) ==
  IF S.status[p] = "inactive" THEN S
  ELSE IF S.status[p] # "sleep" THEN Fail(S, "invalid wake-up message")
  ELSE proc_switch(S, p)

\* p switches back to the main greenlet, which starts q in its place.
proc_waitfor(S, p, q) ==
  IF S.status[p] # "active" THEN Fail(S, "process not in active state")
  ELSE proc_schedule([S EXCEPT !.status[p] = "waitfor", !.running = None], q, 0, p, p)

\* The greenlet is not ended, only forgotten.
proc_kill(S, q) ==
  IF S.failed # "no" THEN S
  ELSE IF S.status[q] = "none" THEN Fail(S, "no entry found for process")
  ELSE IF S.status[q] = "inactive" THEN S
  ELSE proc_deactivate(S, q)

\* The order of proc_kill_all: the trees of the children, then the process.
Tree(q) ==
  LET tree[n \in Nat, p \in Process] ==
        IF n = 0 THEN <<>>
        ELSE FlattenSeq([i \in DOMAIN children[p] |-> tree[n - 1, children[p][i]]]) \o <<p>>
  IN tree[Cardinality(Process), q]

Finished_Forget(S, p) == \* mutant: who waits is not resumed
  proc_deactivate([S EXCEPT !.running = None], p)

\* The main greenlet finds the greenlet of p dead.  If p has killed itself
\* there is none any more.
Finished(S, p) ==
  LET main == [S EXCEPT !.running = None]
      T == proc_deactivate(main, p)
  IN IF S.status[p] = "inactive" THEN main
     ELSE IF T.failed # "no" \/ S.waitingon[p] = None THEN T
     ELSE proc_switch(T, S.waitingon[p])
-----------------------------------------------------------------------------
(* What programs may do.  A process object that is scheduled again must    *)
(* not be met by what was meant for its earlier life: messages carry only  *)
(* the pid.  Killing oneself or a process whose end is awaited, and, in    *)
(* the operating system, one that is not activated yet, does not end well. *)

Live(p) == status[p] \notin {"none", "inactive"}

Fresh(q) ==
  /\ ~Live(q)
  /\ \A i \in DOMAIN messages : messages[i].pid # q
  /\ \A p \in Process : Live(p) => waitingon[p] # q
MaySchedule(q) == Careful => Fresh(q)

MayKill(killed) ==
  Careful => \A q \in killed :
    /\ status[q] # "none"
    /\ Live(q) => /\ q # running
                  /\ q \in OSProcess => status[q] # "scheduled"
                  /\ waitingon[q] \notin {p \in Process \ killed : Live(p)}

-----------------------------------------------------------------------------
(* The main greenlet.                                                      *)

Begins(q) == lives[q] < MaxLives[q] /\ lives' = [lives EXCEPT ![q] = @ + 1]

\* schedule_process, from the handler of some other entity or service.
Schedule(q, d) ==
  /\ failed = "no" /\ running = None
  /\ MaySchedule(q) /\ Begins(q)
  /\ Becomes(proc_schedule(State, q, d, None, None))
  /\ UNCHANGED calls

Recv_AnyOrder(i) == \* mutant: not in the order of time
  LET m == messages[i]
      later == [k \in DOMAIN messages |->
                  [messages[k] EXCEPT !.delay = @ - m.delay]]
      S == [State EXCEPT !.messages = RemoveAt(later, i)]
  IN /\ failed = "no" /\ running = None
     /\ Becomes(IF m.wakeup THEN recv_wakeup(S, m.pid) ELSE recv_activate(S, m.pid))
     /\ UNCHANGED <<calls, lives>>

\* The i-th message is one of the earliest.
Recv(i) ==
  LET m == messages[i]
      later == [k \in DOMAIN messages |->
                  [messages[k] EXCEPT !.delay = @ - m.delay]]
      S == [State EXCEPT !.messages = RemoveAt(later, i)]
  IN /\ failed = "no" /\ running = None
     /\ m.delay = messages[1].delay
     /\ Becomes(IF m.wakeup THEN recv_wakeup(S, m.pid) ELSE recv_activate(S, m.pid))
     /\ UNCHANGED <<calls, lives>>

-----------------------------------------------------------------------------
(* The process that runs.                                                  *)

Calls(p) ==
  /\ failed = "no" /\ running = p
  /\ calls < MaxCalls /\ calls' = calls + 1

Sleep(p, d) ==
  /\ Calls(p)
  /\ Becomes(proc_sleep([State EXCEPT !.running = None], p, d))
  /\ UNCHANGED lives

\* In the operating system spawn makes a new object, and leaves out the parent.
Spawn(p, q) ==
  /\ Calls(p) /\ MaySchedule(q) /\ Begins(q)
  /\ p \in OSProcess => q \in OSProcess /\ status[q] = "none"
  /\ Becomes(proc_schedule(State, q, LOCAL_MINDELAY, IF p \in OSProcess THEN None ELSE p, None))

\* In the operating system p gives up its core first.  If it has killed itself
\* it has none, and an assertion ends the greenlet.
WaitFor(p, q) ==
  /\ Calls(p) /\ MaySchedule(q) /\ Begins(q)
  /\ Becomes(IF p \notin OSProcess THEN proc_waitfor(State, p, q)
             ELSE IF resource[p] = None THEN [State EXCEPT !.running = None]
             ELSE proc_waitfor(free_resource(State, p), p, q))

Kill(p, q) ==
  /\ Calls(p) /\ MayKill({q})
  /\ Becomes(proc_kill(State, q))
  /\ UNCHANGED lives

\* The states that the kills lead through, one after the other.
Killed(order) ==
  [i \in 0 .. Len(order) |-> FoldLeft(proc_kill, State, SubSeq(order, 1, i))]

\* That each state of the path comes out of the one before follows from the
\* definition of Killed; proofs use it as it is written here.
KillAll(p, q) ==
  LET order == Tree(q) IN
  /\ Calls(p) /\ MayKill(Range(order))
  /\ order \in Seq(Process)
  /\ \E path \in {Killed(order)} :
       /\ path[0] = State
       /\ \A i \in 1 .. Len(order) : path[i] = proc_kill(path[i - 1], order[i])
       /\ Becomes(path[Len(order)])
  /\ UNCHANGED lives

Finish(p) ==
  /\ failed = "no" /\ running = p
  /\ Becomes(Finished(State, p))
  /\ UNCHANGED <<calls, lives>>

-----------------------------------------------------------------------------
Main == \E i \in DOMAIN messages : Recv(i)
Step(p) == \/ Finish(p)
           \/ \E d \in Durations : Sleep(p, d)
           \/ \E q \in Process : Spawn(p, q) \/ WaitFor(p, q) \/ Kill(p, q) \/ KillAll(p, q)

Next == \/ \E q \in Process, d \in Durations : Schedule(q, d)
        \/ Main
        \/ \E p \in Process : Step(p)

Spec == Init /\ [][Next]_vars

\* The simulation goes on while there are messages, and a process that has the
\* control gives it up or returns in the end.
Fairness == WF_vars(Main \/ \E p \in Process : Finish(p))
FairSpec == Spec /\ Fairness

TypeOK ==
  /\ status \in [Process -> {"none", "scheduled", "active", "waitfor", "sleep", "inactive"}]
  /\ waitingon \in [Process -> Process \cup {None}]
  /\ children \in [Process -> Seq(Process)]
  /\ resource \in [Process -> Cores \cup {None}]
  /\ holder \in [Cores -> OSProcess \cup {None}]
  /\ process_queue \in [Cores -> Seq(OSProcess)]
  /\ ready_processes \in Seq(OSProcess)
  /\ messages \in Seq(Message)
  /\ running \in Process \cup {None}
  /\ failed \in Failures \cup {"no"}
  /\ calls \in 0 .. MaxCalls /\ lives \in [Process -> Nat]
  /\ \A q \in Process : lives[q] <= MaxLives[q]

(* A process of the operating system that is active or asleep is in exactly *)
(* one place: it holds a core, which knows it, or it is once in one queue,  *)
(* its private one if it asked for a core.  Others are in none.             *)
Places(p) ==
  {<<"core", c, 0>> : c \in {c \in Cores : holder[c] = p}}
    \cup {<<"ready", 0, i>> : i \in {i \in DOMAIN ready_processes : ready_processes[i] = p}}
    \cup UNION {{<<"queue", c, i>> : i \in {i \in DOMAIN process_queue[c] :
                                             process_queue[c][i] = p}} : c \in Cores}
OnePlace ==
  \A p \in OSProcess :
    /\ Cardinality(Places(p)) = IF status[p] \in {"active", "sleep"} THEN 1 ELSE 0
    /\ \A c \in Cores : resource[p] = c <=> holder[c] = p

(* No core is idle while a process waits for it, in the main queue or in    *)
(* the private one: nobody would ever call the process.  So assign_process  *)
(* never meets its assert(False).                                           *)
NoIdleCore ==
  \A c \in Cores : holder[c] = None => ready_processes = <<>> /\ process_queue[c] = <<>>

(* A process that sleeps is woken exactly once, one that is scheduled is    *)
(* activated exactly once, and no message meets a process that expects      *)
(* none: none gets lost or is left over, not even by a kill.                *)
OneMessage ==
  \A p \in Process :
    LET sent(wakeup) == {i \in DOMAIN messages : messages[i].pid = p /\ messages[i].wakeup = wakeup}
    IN /\ status[p] = "sleep" => Cardinality(sent(TRUE)) = 1 /\ sent(FALSE) = {}
       /\ status[p] = "scheduled" => Cardinality(sent(FALSE)) = 1 /\ sent(TRUE) = {}
       /\ status[p] \in {"active", "waitfor"} => sent(TRUE) \cup sent(FALSE) = {}

(* Careful programs do not make the simulation exit.                        *)
NoFailure == failed = "no"

(* Everybody who waits, for another process, for time or for a core, is     *)
(* served in the end: all processes come to their end.                      *)
AllEnd == <>[](\A p \in Process : ~Live(p))

(* What the comments in end_process say (os/system.py:150, 165): a process  *)
(* that is killed has a core, waits in a queue or for another process, and  *)
(* the failure is "never" reached.  (Violated.)                             *)
AlwaysFound == failed # "process cannot be found anywhere"

=============================================================================
