---------------------------- MODULE ProcessesProofs ----------------------------
(***************************************************************************)
(* What a process can rely on, for any number of processes, inchannels,    *)
(* semaphores and timers, any events that arrive and any calls.            *)
(***************************************************************************)
EXTENDS Processes, FiniteSetTheorems, WellFoundedInduction, TLAPS

-----------------------------------------------------------------------------
(* Sequences.                                                              *)

LEMMA RemoveAtFacts ==
  ASSUME NEW X, NEW s \in Seq(X), NEW i \in 1 .. Len(s)
  PROVE  /\ RemoveAt(s, i) \in Seq(X)
         /\ DOMAIN RemoveAt(s, i) = 1 .. (Len(s) - 1) /\ Len(RemoveAt(s, i)) = Len(s) - 1
         /\ \A j \in 1 .. (Len(s) - 1) : RemoveAt(s, i)[j] = IF j < i THEN s[j] ELSE s[j + 1]
<1> DEFINE a == SubSeq(s, 1, i - 1)
           b == SubSeq(s, i + 1, Len(s))
<1>1. a \in Seq(X) /\ Len(a) = i - 1 /\ \A j \in 1 .. (i - 1) : a[j] = s[j]
  OBVIOUS
<1>2. b \in Seq(X) /\ Len(b) = Len(s) - i /\ \A j \in 1 .. (Len(s) - i) : b[j] = s[i + j]
  OBVIOUS
<1>3. RemoveAt(s, i) = a \o b
  BY DEF RemoveAt
<1> HIDE DEF a, b
<1>4. a \o b \in Seq(X) /\ Len(a \o b) = Len(s) - 1
  <2>1. a \in Seq(X) /\ b \in Seq(X)
    BY <1>1, <1>2
  <2>2. a \o b \in Seq(X) /\ Len(a \o b) = Len(a) + Len(b)
    BY <2>1
  <2>3. Len(a) + Len(b) = Len(s) - 1
    BY <1>1, <1>2
  <2> QED BY <2>2, <2>3
<1>5. ASSUME NEW j \in 1 .. (Len(s) - 1)
      PROVE  (a \o b)[j] = IF j < i THEN s[j] ELSE s[j + 1]
  <2>0. a \in Seq(X) /\ b \in Seq(X) /\ Len(a) = i - 1 /\ Len(b) = Len(s) - i
    BY <1>1, <1>2
  <2>1. CASE j < i
    <3>1. j \in 1 .. (i - 1)
      BY <2>1
    <3>2. (a \o b)[j] = a[j]
      BY <2>0, <3>1
    <3> QED BY <1>1, <2>1, <3>1, <3>2
  <2>2. CASE ~(j < i)
    <3>0. j - (i - 1) \in 1 .. (Len(s) - i) /\ j \in (Len(a) + 1) .. (Len(a) + Len(b))
      BY <2>0, <2>2
    <3>1. j - (i - 1) \in 1 .. (Len(s) - i) /\ (a \o b)[j] = b[j - (i - 1)]
      BY <2>0, <3>0
    <3>2. i + (j - (i - 1)) = j + 1
      OBVIOUS
    <3>3. b[j - (i - 1)] = s[i + (j - (i - 1))]
      BY <1>2, <3>0
    <3> QED BY <2>2, <3>1, <3>2, <3>3
  <2> QED BY <2>1, <2>2
<1> QED BY <1>3, <1>4, <1>5

LEMMA RemoveFirstIs ==
  ASSUME NEW X, NEW s \in Seq(X), NEW i \in 1 .. Len(s), \A j \in 1 .. (i - 1) : s[j] # s[i]
  PROVE  RemoveFirst(s, s[i]) = RemoveAt(s, i)
<1> DEFINE I == {k \in 1 .. Len(s) : s[k] = s[i]}
<1>1. i \in I /\ \A k \in I : i <= k
  OBVIOUS
<1>2. Min(I) = i
  <2>1. I \subseteq Int
    OBVIOUS
  <2> HIDE DEF I
  <2>2. PICK m : m = Min(I) /\ m \in I /\ \A k \in I : m <= k
    BY <1>1 DEF Min
  <2>3. m \in Int /\ i \in Int /\ m <= i /\ i <= m
    BY <1>1, <2>1, <2>2
  <2> QED BY <2>2, <2>3
<1> QED BY <1>2 DEF RemoveFirst, SelectInSeq

\* A list in which nothing occurs twice, and what it holds.
Holds(s, x) == \E k \in DOMAIN s : s[k] = x

LEMMA ListRemove ==
  ASSUME NEW X, NEW s \in Seq(X), IsInjective(s), NEW x, Holds(s, x)
  PROVE  /\ RemoveFirst(s, x) \in Seq(X) /\ IsInjective(RemoveFirst(s, x))
         /\ \A y : Holds(RemoveFirst(s, x), y) <=> Holds(s, y) /\ y # x
<1>1. PICK i \in 1 .. Len(s) : s[i] = x
  BY DEF Holds
<1> DEFINE r == RemoveAt(s, i)
<1>2. RemoveFirst(s, x) = r
  BY <1>1, RemoveFirstIs DEF IsInjective
<1>3. /\ r \in Seq(X) /\ DOMAIN r = 1 .. (Len(s) - 1)
      /\ \A j \in 1 .. (Len(s) - 1) : r[j] = IF j < i THEN s[j] ELSE s[j + 1]
  BY RemoveAtFacts
<1> HIDE DEF r
<1>4. IsInjective(r)
  <2> SUFFICES ASSUME NEW j \in 1 .. (Len(s) - 1), NEW k \in 1 .. (Len(s) - 1), r[j] = r[k]
               PROVE  j = k
    BY <1>3 DEF IsInjective
  <2> DEFINE At(n) == IF n < i THEN n ELSE n + 1
  <2>1. s[At(j)] = r[j] /\ s[At(k)] = r[k]
    BY <1>3
  <2>2. At(j) \in 1 .. Len(s) /\ At(k) \in 1 .. Len(s)
    OBVIOUS
  <2>3. At(j) = At(k)
    <3> HIDE DEF At
    <3> QED BY <2>1, <2>2 DEF IsInjective
  <2> QED BY <2>3
<1>5. ASSUME NEW y, Holds(r, y) PROVE Holds(s, y) /\ y # x
  <2>1. PICK j \in 1 .. (Len(s) - 1) : r[j] = y
    BY <1>3, <1>5 DEF Holds
  <2>2. \E k \in 1 .. Len(s) : s[k] = y /\ k # i
    BY <1>3, <2>1
  <2> QED BY <1>1, <2>2 DEF Holds, IsInjective
<1>6. ASSUME NEW y, Holds(s, y), y # x PROVE Holds(r, y)
  <2>1. PICK k \in 1 .. Len(s) : s[k] = y
    BY <1>6 DEF Holds
  <2>2. k # i
    BY <1>1, <1>6, <2>1
  <2>3. CASE k < i
    BY <1>3, <2>1, <2>3 DEF Holds
  <2>4. CASE k > i
    <3>1. k - 1 \in 1 .. (Len(s) - 1) /\ (k - 1) + 1 = k /\ ~(k - 1 < i)
      BY <2>4
    <3> QED BY <1>3, <2>1, <3>1 DEF Holds
  <2> QED BY <2>2, <2>3, <2>4
<1> QED BY <1>2, <1>3, <1>4, <1>5, <1>6

LEMMA ListAppend ==
  ASSUME NEW X, NEW s \in Seq(X), IsInjective(s), NEW x \in X, ~Holds(s, x)
  PROVE  /\ Append(s, x) \in Seq(X) /\ IsInjective(Append(s, x))
         /\ \A y : Holds(Append(s, x), y) <=> Holds(s, y) \/ y = x
<1>1. /\ Append(s, x) \in Seq(X) /\ DOMAIN Append(s, x) = 1 .. (Len(s) + 1)
      /\ \A j \in 1 .. Len(s) : Append(s, x)[j] = s[j]
      /\ Append(s, x)[Len(s) + 1] = x
  OBVIOUS
<1>2. \A j \in 1 .. Len(s) : s[j] # x
  BY DEF Holds
<1>3. IsInjective(Append(s, x))
  BY <1>1, <1>2 DEF IsInjective
<1>4. Len(s) + 1 \in DOMAIN Append(s, x)
  BY <1>1
<1> QED BY <1>1, <1>3, <1>4 DEF Holds

LEMMA ListCons ==
  ASSUME NEW X, NEW s \in Seq(X), IsInjective(s), NEW x \in X, ~Holds(s, x)
  PROVE  /\ <<x>> \o s \in Seq(X) /\ IsInjective(<<x>> \o s)
         /\ \A y : Holds(<<x>> \o s, y) <=> Holds(s, y) \/ y = x
<1> DEFINE r == <<x>> \o s
<1>1. /\ r \in Seq(X) /\ DOMAIN r = 1 .. (Len(s) + 1)
      /\ \A j \in 1 .. Len(s) : r[j + 1] = s[j]
      /\ r[1] = x
  OBVIOUS
<1> HIDE DEF r
<1>2. \A k \in 1 .. (Len(s) + 1) : k = 1 \/ (k - 1 \in 1 .. Len(s) /\ r[k] = s[k - 1])
  <2> SUFFICES ASSUME NEW k \in 1 .. (Len(s) + 1), k # 1
               PROVE  k - 1 \in 1 .. Len(s) /\ r[k] = s[k - 1]
    OBVIOUS
  <2>1. k - 1 \in 1 .. Len(s) /\ (k - 1) + 1 = k
    OBVIOUS
  <2> QED BY <1>1, <2>1
<1>3. \A j \in 1 .. Len(s) : s[j] # x
  BY DEF Holds
<1>4. IsInjective(r)
  <2> SUFFICES ASSUME NEW j \in 1 .. (Len(s) + 1), NEW k \in 1 .. (Len(s) + 1), r[j] = r[k]
               PROVE  j = k
    BY <1>1 DEF IsInjective
  <2>1. CASE j # 1 /\ k # 1
    <3>1. s[j - 1] = s[k - 1] /\ j - 1 \in DOMAIN s /\ k - 1 \in DOMAIN s
      BY <1>2, <2>1
    <3>2. j - 1 = k - 1
      BY <3>1 DEF IsInjective
    <3> QED BY <3>2
  <2>2. CASE j = 1 \/ k = 1
    BY <1>1, <1>2, <1>3, <2>2
  <2> QED BY <2>1, <2>2
<1>5. ASSUME NEW y PROVE Holds(r, y) <=> Holds(s, y) \/ y = x
  <2>1. Holds(r, y) => Holds(s, y) \/ y = x
    BY <1>1, <1>2 DEF Holds
  <2>2. Holds(s, y) => Holds(r, y)
    <3> SUFFICES ASSUME NEW j \in 1 .. Len(s), s[j] = y PROVE Holds(r, y)
      BY DEF Holds
    <3>1. j + 1 \in 1 .. (Len(s) + 1)
      OBVIOUS
    <3> QED BY <1>1, <3>1 DEF Holds
  <2>3. 1 \in 1 .. (Len(s) + 1)
    OBVIOUS
  <2> QED BY <1>1, <2>1, <2>2, <2>3 DEF Holds
<1> QED BY <1>1, <1>4, <1>5 DEF r

LEMMA ListTail ==
  ASSUME NEW X, NEW s \in Seq(X), IsInjective(s), s # <<>>
  PROVE  /\ Tail(s) \in Seq(X) /\ IsInjective(Tail(s)) /\ Head(s) \in X /\ Holds(s, Head(s))
         /\ \A y : Holds(Tail(s), y) <=> Holds(s, y) /\ y # Head(s)
<1> DEFINE r == Tail(s)
<1>1. /\ r \in Seq(X) /\ DOMAIN r = 1 .. (Len(s) - 1) /\ Head(s) = s[1] /\ 1 \in DOMAIN s
      /\ \A j \in 1 .. (Len(s) - 1) : r[j] = s[j + 1] /\ j + 1 \in 1 .. Len(s) /\ j + 1 # 1
  OBVIOUS
<1> HIDE DEF r
<1>2. IsInjective(r)
  BY <1>1 DEF IsInjective
<1>3. ASSUME NEW y, Holds(s, y), y # s[1] PROVE Holds(r, y)
  <2>1. PICK k \in 1 .. Len(s) : s[k] = y
    BY <1>3 DEF Holds
  <2>2. k - 1 \in 1 .. (Len(s) - 1) /\ (k - 1) + 1 = k
    BY <1>3, <2>1
  <2> QED BY <1>1, <2>1, <2>2 DEF Holds
<1>4. ASSUME NEW y, Holds(r, y) PROVE Holds(s, y) /\ y # s[1]
  BY <1>1, <1>4 DEF Holds, IsInjective
<1> QED BY <1>1, <1>2, <1>3, <1>4 DEF Holds, r


LEMMA RemoveHead ==
  ASSUME NEW X, NEW s \in Seq(X), s # <<>>
  PROVE  /\ RemoveFirst(s, s[1]) \in Seq(X) /\ Len(RemoveFirst(s, s[1])) = Len(s) - 1
         /\ \A k \in 1 .. (Len(s) - 1) : RemoveFirst(s, s[1])[k] = s[k + 1]
<1>1. 1 \in 1 .. Len(s) /\ \A j \in 1 .. (1 - 1) : s[j] # s[1]
  OBVIOUS
<1>2. RemoveFirst(s, s[1]) = RemoveAt(s, 1)
  BY <1>1, RemoveFirstIs
<1>3. /\ RemoveAt(s, 1) \in Seq(X) /\ Len(RemoveAt(s, 1)) = Len(s) - 1
      /\ \A j \in 1 .. (Len(s) - 1) : RemoveAt(s, 1)[j] = IF j < 1 THEN s[j] ELSE s[j + 1]
  BY <1>1, RemoveAtFacts
<1>4. \A j \in 1 .. (Len(s) - 1) : ~(j < 1)
  OBVIOUS
<1> QED BY <1>2, <1>3, <1>4

LEMMA RemoveAbsent ==
  ASSUME NEW X, NEW s \in Seq(X), NEW x, ~Holds(s, x)
  PROVE  RemoveFirst(s, x) = s
BY DEF RemoveFirst, Holds

LEMMA SubSeqShift ==
  ASSUME NEW X, NEW s \in Seq(X), NEW t \in Seq(X), Len(t) = Len(s) - 1,
         \A k \in 1 .. (Len(s) - 1) : t[k] = s[k + 1], NEW n \in 1 .. Len(s)
  PROVE  SubSeq(s, n + 1, Len(s)) = SubSeq(t, n, Len(t))
<1>1. \A k \in 1 .. (Len(s) - n) : /\ SubSeq(s, n + 1, Len(s))[k] = s[n + k]
                                  /\ SubSeq(t, n, Len(t))[k] = t[n + k - 1]
  OBVIOUS
<1>2. \A k \in 1 .. (Len(s) - n) : n + k - 1 \in 1 .. (Len(s) - 1) /\ (n + k - 1) + 1 = n + k
  OBVIOUS
<1>3. \A k \in 1 .. (Len(s) - n) : SubSeq(s, n + 1, Len(s))[k] = SubSeq(t, n, Len(t))[k]
  BY <1>1, <1>2
<1>4. /\ SubSeq(s, n + 1, Len(s)) \in Seq(X) /\ SubSeq(t, n, Len(t)) \in Seq(X)
      /\ Len(SubSeq(s, n + 1, Len(s))) = Len(s) - n /\ Len(SubSeq(t, n, Len(t))) = Len(s) - n
  OBVIOUS
<1> DEFINE a == SubSeq(s, n + 1, Len(s))
           b == SubSeq(t, n, Len(t))
           m == Len(s) - n
<1>5. a \in Seq(X) /\ b \in Seq(X) /\ Len(a) = m /\ Len(b) = m /\ \A k \in 1 .. m : a[k] = b[k]
  BY <1>3, <1>4
<1> HIDE DEF a, b, m
<1>6. a = b
  BY <1>5
<1> QED BY <1>6 DEF a, b
-----------------------------------------------------------------------------
(* The invariant.                                                          *)

\* The fields of p are as its state says: only a process that waits or has just
\* been woken up is in lists of inchannels, and only one that runs has a context.
StateOK(p) ==
  /\ p.state \notin {"running", "waiting"} => p.waiton = {} /\ ~p.static_sensitivity
  /\ p.state # "waiting" => ~p.hold_event
  /\ p.state # "running" => p.active_inchannel = None /\ ~p.process_timedout
  /\ p.static_sensitivity => p.waiton = {}
States == \A p \in Process : StateOK(process[p])

\* The ready list holds the processes that run, each once, and the one that is
\* on the processor has left the lists of the inchannels.
Ready ==
  /\ IsInjective(active_processes)
  /\ \A p \in Process :
       process[p].state = "running" <=> Holds(active_processes, p)
  /\ context = "callback" => active_processes = <<>>
  /\ context = "process" =>
       /\ active_processes # <<>>
       /\ process[Self].waiton = {} /\ ~process[Self].static_sensitivity

\* The list of an inchannel holds the processes that wait for it, each once.
Lists ==
  \A ic \in inChannel :
    /\ IsInjective(channel[ic].wait)
    /\ \A p \in Process : ic \in process[p].waiton <=>
         Holds(channel[ic].wait, p)

\* One event has activated all the processes that run.  An inchannel counts
\* those it has activated, and keeps its event as long as one of them wants it.
ActivatedBy(ic) == {p \in Process : process[p].active_inchannel = ic}
Activity ==
  /\ \A p, q \in Process :
       process[p].state = "running" /\ process[q].state = "running" =>
         process[p].active_inchannel = process[q].active_inchannel
  /\ \A ic \in inChannel :
       /\ channel[ic].processes_activated = Cardinality(ActivatedBy(ic))
       /\ channel[ic].active_event # None => ActivatedBy(ic) # {}
       /\ \A p \in ActivatedBy(ic) :
            ~process[p].active_event_retrieved => channel[ic].active_event # None

\* A semaphore has released the first ones in its order and blocks the others.
Passing(s) == Len(order[s]) - Len(blocked_processes[s])
Order ==
  \A s \in Semaphore :
    /\ Passing(s) >= 0
    /\ blocked_processes[s] = SubSeq(order[s], Passing(s) + 1, Len(order[s]))
    /\ Blocks(s, Len(blocked_processes[s]), sem_count[s])
\* A process is at one semaphore at most, once, and waits for nothing else.
Places ==
  /\ \A s, r \in Semaphore : \A k \in DOMAIN order[s], l \in DOMAIN order[r] :
       order[s][k] = order[r][l] => s = r /\ k = l
  /\ \A s \in Semaphore : \A k \in DOMAIN order[s] :
       LET p == process[order[s][k]] IN
       p.state = "waiting" /\ p.waiton = {} /\ ~p.static_sensitivity /\ ~p.hold_event

\* An event for each that is to come, and one only.
HasEvent(kind, x) == \E i \in DOMAIN evtlist : evtlist[i].kind = kind /\ evtlist[i].who = x
IsReleased(p) == \E s \in Semaphore : \E k \in 1 .. Passing(s) : order[s][k] = p
Events ==
  /\ \A i, j \in DOMAIN evtlist :
       evtlist[i].kind = evtlist[j].kind /\ evtlist[i].who = evtlist[j].who => i = j
  /\ \A i \in DOMAIN evtlist :
       evtlist[i].who \in (IF evtlist[i].kind = "timer" THEN Timer ELSE Process)
  /\ \A p \in Process :
       /\ HasEvent("process", p) <=> process[p].state = "creating"
       /\ HasEvent("hold", p) <=> process[p].hold_event
       /\ HasEvent("semaphore", p) <=> IsReleased(p)
  /\ \A t \in Timer : HasEvent("timer", t) <=> timer_event[t]
\* Those that a semaphore has released are in its order in the event list.
InLine ==
  \A s \in Semaphore : \A k, l \in 1 .. Passing(s) : \A i, j \in DOMAIN evtlist :
    k < l /\ Turn(order[s][k], i) /\ Turn(order[s][l], j) => i < j

\* Nothing is in the past; who is new or released goes on now.
Times ==
  /\ \A a \in arrivals : simclock <= a.time
  /\ \A i \in DOMAIN evtlist :
       /\ simclock <= evtlist[i].time
       /\ evtlist[i].kind \in {"process", "semaphore"} => evtlist[i].time = simclock
       /\ evtlist[i].kind = "hold" => evtlist[i].time = asked[evtlist[i].who].until
       /\ evtlist[i].kind = "timer" => evtlist[i].time = fire_time[evtlist[i].who]
\* The fields of a process that waits say what it has asked for.
Asked ==
  \A p \in Process : process[p].state = "waiting" =>
    /\ asked[p].ics = process[p].waiton
    /\ asked[p].static = process[p].static_sensitivity
    /\ asked[p].until # Forever <=> process[p].hold_event

IInv == TypeOK /\ States /\ Ready /\ Lists /\ Activity /\ Order /\ Places /\ Events /\ InLine
          /\ Times /\ Asked

-----------------------------------------------------------------------------
(* What the operators make of a state.                                     *)

StateType == [process : [Process -> ProcessType], channel : [inChannel -> ChannelType],
              evtlist : Seq(KernelEvent), active_processes : Seq(Process)]

LEMMA StateIs ==
  /\ State.process = process /\ State.channel = channel
  /\ State.evtlist = evtlist /\ State.active_processes = active_processes
  /\ TypeOK => State \in StateType
BY DEF State, StateType, TypeOK

LEMMA BecomesIs ==
  ASSUME NEW S, Becomes(S)
  PROVE  /\ process' = S.process /\ channel' = S.channel
         /\ evtlist' = S.evtlist /\ active_processes' = S.active_processes
BY DEF Becomes

\* A process leaves the processor.
LEMMA Deactivated ==
  ASSUME NEW S \in StateType, S.active_processes # <<>>, NEW st
  PROVE  LET p == Head(S.active_processes)
             T == deactivate_process(S, st)
             ic == S.process[p].active_inchannel
             n == S.channel[ic].processes_activated - 1
         IN /\ p \in Process
            /\ T.process = [S.process EXCEPT ![p] =
                 [S.process[p] EXCEPT !.state = st, !.active_event_retrieved = FALSE,
                                      !.process_timedout = FALSE, !.active_inchannel = None]]
            /\ T.active_processes = Tail(S.active_processes)
            /\ T.evtlist = S.evtlist
            /\ DOMAIN T = {"process", "channel", "evtlist", "active_processes"}
            /\ T.channel = IF ic = None THEN S.channel
                           ELSE [S.channel EXCEPT ![ic] =
                                  [S.channel[ic] EXCEPT !.processes_activated = n,
                                     !.active_event = IF n = 0 THEN None ELSE @]]
<1> DEFINE p == Head(S.active_processes)
           ic == S.process[p].active_inchannel
           n == S.channel[ic].processes_activated - 1
           A == [S EXCEPT !.process[p].state = st, !.active_processes = Tail(@)]
           B == [A EXCEPT !.process[p].active_event_retrieved = FALSE,
                          !.process[p].process_timedout = FALSE,
                          !.process[p].active_inchannel = None]
           r == [S.process[p] EXCEPT !.state = st, !.active_event_retrieved = FALSE,
                                     !.process_timedout = FALSE, !.active_inchannel = None]
<1>1. /\ p \in Process /\ S.process \in [Process -> ProcessType]
      /\ S.channel \in [inChannel -> ChannelType]
  BY DEF StateType
<1>2. /\ A.process = [S.process EXCEPT ![p].state = st]
      /\ A.active_processes = Tail(S.active_processes)
      /\ A.evtlist = S.evtlist /\ A.channel = S.channel
      /\ DOMAIN A = {"process", "channel", "evtlist", "active_processes"}
  BY DEF StateType
<1>3. /\ A.process[p].active_inchannel = ic
      /\ A.process[p] = [S.process[p] EXCEPT !.state = st]
  BY <1>1, <1>2 DEF ProcessType
<1>4. /\ B.process = [S.process EXCEPT ![p] = r]
      /\ B.active_processes = Tail(S.active_processes)
      /\ B.evtlist = S.evtlist /\ B.channel = S.channel
      /\ DOMAIN B = {"process", "channel", "evtlist", "active_processes"}
  <2>1. B.process = [A.process EXCEPT ![p].active_event_retrieved = FALSE,
                          ![p].process_timedout = FALSE, ![p].active_inchannel = None]
    <3> HIDE DEF A
    <3> QED BY <1>2
  <2>2. B.process = [S.process EXCEPT ![p] = r]
    BY <1>1, <1>2, <1>3, <2>1 DEF ProcessType
  <2>3. /\ B.active_processes = Tail(S.active_processes)
        /\ B.evtlist = S.evtlist /\ B.channel = S.channel
        /\ DOMAIN B = {"process", "channel", "evtlist", "active_processes"}
    <3> HIDE DEF A
    <3> QED BY <1>2
  <2> QED BY <2>2, <2>3
<1>5. deactivate_process(S, st) =
        IF ic = None THEN B
        ELSE [B EXCEPT !.channel[ic].processes_activated = n,
                       !.channel[ic].active_event = IF n = 0 THEN None ELSE @]
  <2>1. deactivate_process(S, st) = clear_process_context(A, p)
    BY DEF deactivate_process
  <2>2. clear_process_context(A, p) =
          IF A.process[p].active_inchannel = None THEN B
          ELSE [B EXCEPT !.channel[A.process[p].active_inchannel].processes_activated =
                           A.channel[A.process[p].active_inchannel].processes_activated - 1,
                         !.channel[A.process[p].active_inchannel].active_event =
                           IF A.channel[A.process[p].active_inchannel].processes_activated - 1 = 0
                           THEN None ELSE @]
    <3> HIDE DEF A, p
    <3> QED BY DEF clear_process_context
  <2>3. A.process[p].active_inchannel = ic /\ A.channel[ic].processes_activated - 1 = n
    BY <1>2, <1>3
  <2> HIDE DEF A, B, n, ic, p
  <2> QED BY <2>1, <2>2, <2>3
<1>6. CASE ic = None
  BY <1>1, <1>4, <1>5, <1>6
<1>7. CASE ic # None
  <2> DEFINE C == [B EXCEPT !.channel[ic].processes_activated = n,
                            !.channel[ic].active_event = IF n = 0 THEN None ELSE @]
  <2>1. /\ C.process = B.process /\ C.active_processes = B.active_processes
        /\ C.evtlist = B.evtlist
        /\ DOMAIN C = {"process", "channel", "evtlist", "active_processes"}
        /\ C.channel = [B.channel EXCEPT ![ic].processes_activated = n,
                                         ![ic].active_event = IF n = 0 THEN None ELSE @]
    <3> HIDE DEF B, n, ic
    <3> QED BY <1>4
  <2>2. ic \in inChannel /\ S.channel[ic] \in ChannelType
    BY <1>1, <1>7 DEF ProcessType
  <2>3. C.channel = [S.channel EXCEPT ![ic] =
                      [S.channel[ic] EXCEPT !.processes_activated = n,
                                            !.active_event = IF n = 0 THEN None ELSE @]]
    <3> HIDE DEF n, B, ic, p
    <3> QED BY <1>1, <1>4, <2>1, <2>2 DEF ChannelType
  <2>4. deactivate_process(S, st) = C
    BY <1>5, <1>7
  <2> HIDE DEF B, C
  <2> QED BY <1>1, <1>4, <1>7, <2>1, <2>3, <2>4
<1> HIDE DEF A, B, r
<1> QED BY <1>6, <1>7

LEMMA CancelIs ==
  ASSUME NEW S \in StateType, NEW i \in DOMAIN S.evtlist, NEW kind, NEW x,
         S.evtlist[i].kind = kind, S.evtlist[i].who = x,
         \A j \in DOMAIN S.evtlist : S.evtlist[j].kind = kind /\ S.evtlist[j].who = x => j = i
  PROVE  /\ cancel_event(S, kind, x) = [S EXCEPT !.evtlist = RemoveAt(S.evtlist, i)]
         /\ cancel_event(S, kind, x) \in StateType
         /\ \A e \in DOMAIN RemoveAt(S.evtlist, i) :
              \E j \in DOMAIN S.evtlist \ {i} : RemoveAt(S.evtlist, i)[e] = S.evtlist[j]
<1>1. Place(S, kind, x) = i
  BY DEF Place
<1>2. S.evtlist \in Seq(KernelEvent) /\ i \in 1 .. Len(S.evtlist)
  BY DEF StateType
<1>3. RemoveAt(S.evtlist, i) \in Seq(KernelEvent)
  BY <1>2, RemoveAtFacts
<1>4. cancel_event(S, kind, x) = [S EXCEPT !.evtlist = RemoveAt(S.evtlist, i)]
  BY <1>1 DEF cancel_event
<1>5. [S EXCEPT !.evtlist = RemoveAt(S.evtlist, i)] \in StateType
  <2>1. ASSUME NEW r \in Seq(KernelEvent) PROVE [S EXCEPT !.evtlist = r] \in StateType
    BY DEF StateType
  <2> QED BY <1>3, <2>1
<1>6. ASSUME NEW e \in DOMAIN RemoveAt(S.evtlist, i)
      PROVE  \E j \in DOMAIN S.evtlist \ {i} : RemoveAt(S.evtlist, i)[e] = S.evtlist[j]
  <2>1. e \in 1 .. (Len(S.evtlist) - 1)
    BY <1>2, RemoveAtFacts
  <2>2. RemoveAt(S.evtlist, i)[e] = IF e < i THEN S.evtlist[e] ELSE S.evtlist[e + 1]
    BY <1>2, <2>1, RemoveAtFacts
  <2>3. CASE e < i
    BY <1>2, <2>1, <2>2, <2>3
  <2>4. CASE ~(e < i)
    <3>1. e + 1 \in DOMAIN S.evtlist \ {i}
      BY <1>2, <2>1, <2>4
    <3> QED BY <2>2, <2>4, <3>1
  <2> QED BY <2>3, <2>4
<1> QED BY <1>4, <1>5, <1>6

\* A process leaves the lists of the inchannels it waits for.
LEMMA DesensitizedIs ==
  ASSUME NEW S \in StateType, NEW p \in Process,
         \A ic \in S.process[p].waiton : IsInjective(S.channel[ic].wait)
                                          /\ Holds(S.channel[ic].wait, p)
  PROVE  LET T == desensitize_inchannels(S, p) IN
         /\ T \in StateType
         /\ T.process = [S.process EXCEPT ![p].waiton = {}]
         /\ T.evtlist = S.evtlist /\ T.active_processes = S.active_processes
         /\ \A ic \in inChannel :
              /\ T.channel[ic].wait = IF ic \in S.process[p].waiton
                                      THEN RemoveFirst(S.channel[ic].wait, p)
                                      ELSE S.channel[ic].wait
              /\ T.channel[ic].active_event = S.channel[ic].active_event
              /\ T.channel[ic].processes_activated = S.channel[ic].processes_activated
<1> DEFINE T == desensitize_inchannels(S, p)
           c == [ic \in inChannel |-> IF ic \in S.process[p].waiton
                   THEN [S.channel[ic] EXCEPT !.wait = RemoveFirst(@, p)] ELSE S.channel[ic]]
<1>2. /\ S.process \in [Process -> ProcessType] /\ S.channel \in [inChannel -> ChannelType]
      /\ S.process[p].waiton \subseteq inChannel
  BY DEF StateType, ProcessType
<1>3. \A ic \in S.process[p].waiton : RemoveFirst(S.channel[ic].wait, p) \in Seq(Process)
  <2> SUFFICES ASSUME NEW ic \in S.process[p].waiton
               PROVE  RemoveFirst(S.channel[ic].wait, p) \in Seq(Process)
    OBVIOUS
  <2>1. S.channel[ic].wait \in Seq(Process)
    BY <1>2 DEF ChannelType
  <2> QED BY <2>1, ListRemove
<1>4. \A ic \in inChannel :
        /\ c[ic].wait = IF ic \in S.process[p].waiton THEN RemoveFirst(S.channel[ic].wait, p)
                        ELSE S.channel[ic].wait
        /\ c[ic].active_event = S.channel[ic].active_event
        /\ c[ic].processes_activated = S.channel[ic].processes_activated
  BY <1>2 DEF ChannelType
<1>5. c \in [inChannel -> ChannelType]
  BY <1>2, <1>3 DEF ChannelType
<1>6. [S.process EXCEPT ![p].waiton = {}] \in [Process -> ProcessType]
  BY <1>2 DEF ProcessType
<1> HIDE DEF c
<1>7. T = [S EXCEPT !.process = [S.process EXCEPT ![p].waiton = {}], !.channel = c,
                    !.evtlist = S.evtlist, !.active_processes = S.active_processes]
  <2>1. T = [S EXCEPT !.process[p].waiton = {}, !.channel = c]
    BY DEF desensitize_inchannels, c
  <2> QED BY <2>1 DEF StateType
<1>8. S.evtlist \in Seq(KernelEvent) /\ S.active_processes \in Seq(Process)
  BY DEF StateType
<1>9. /\ T.process = [S.process EXCEPT ![p].waiton = {}] /\ T.channel = c
      /\ T.evtlist = S.evtlist /\ T.active_processes = S.active_processes /\ T \in StateType
  <2> DEFINE P == [S.process EXCEPT ![p].waiton = {}]
             E == S.evtlist
             A == S.active_processes
  <2>1. T = [S EXCEPT !.process = P, !.channel = c, !.evtlist = E, !.active_processes = A]
    BY <1>7
  <2>2. /\ P \in [Process -> ProcessType] /\ c \in [inChannel -> ChannelType]
        /\ E \in Seq(KernelEvent) /\ A \in Seq(Process)
    BY <1>5, <1>6, <1>8
  <2> HIDE DEF T, P, E, A
  <2>3. T.process = P /\ T.channel = c /\ T.evtlist = E /\ T.active_processes = A /\ T \in StateType
    BY <2>1, <2>2 DEF StateType
  <2> QED BY <2>3 DEF P, E, A
<1> HIDE DEF T
<1> QED BY <1>4, <1>9 DEF T

-----------------------------------------------------------------------------
(* Lists of events.                                                        *)

\* F is E without the events at the places G.
Without(E, F, G) ==
  \E f \in [DOMAIN F -> DOMAIN E] :
    /\ \A k, l \in DOMAIN F : k < l => f[k] < f[l]
    /\ \A k \in DOMAIN F : F[k] = E[f[k]]
    /\ \A j \in DOMAIN E : j \notin G <=> \E k \in DOMAIN F : f[k] = j
\* H is E without the events at G, with at most one new event at the end.
Edited(E, H, G, New) ==
  \E F \in Seq(KernelEvent) :
    /\ Without(E, F, G)
    /\ \/ New = {} /\ H = F
       \/ \E e \in KernelEvent : New = {e} /\ H = Append(F, e)
Unique(E) == \A i, j \in DOMAIN E : E[i].kind = E[j].kind /\ E[i].who = E[j].who => i = j

LEMMA WithoutNone ==
  ASSUME NEW E \in Seq(KernelEvent)
  PROVE  Without(E, E, {})
<1> DEFINE f == [k \in DOMAIN E |-> k]
<1>1. /\ f \in [DOMAIN E -> DOMAIN E] /\ \A k \in DOMAIN E : f[k] = k
  OBVIOUS
<1> HIDE DEF f
<1> QED BY <1>1 DEF Without

LEMMA WithoutOne ==
  ASSUME NEW E \in Seq(KernelEvent), NEW i \in DOMAIN E
  PROVE  RemoveAt(E, i) \in Seq(KernelEvent) /\ Without(E, RemoveAt(E, i), {i})
<1> DEFINE F == RemoveAt(E, i)
           f == [k \in 1 .. (Len(E) - 1) |-> IF k < i THEN k ELSE k + 1]
<1>1. /\ F \in Seq(KernelEvent) /\ DOMAIN F = 1 .. (Len(E) - 1)
      /\ \A k \in 1 .. (Len(E) - 1) : F[k] = IF k < i THEN E[k] ELSE E[k + 1]
  BY RemoveAtFacts
<1>2. /\ f \in [1 .. (Len(E) - 1) -> DOMAIN E]
      /\ \A k \in 1 .. (Len(E) - 1) : f[k] = IF k < i THEN k ELSE k + 1
  OBVIOUS
<1> HIDE DEF F, f
<1>3. \A k, l \in 1 .. (Len(E) - 1) : k < l => f[k] < f[l]
  BY <1>2
<1>4. \A k \in 1 .. (Len(E) - 1) : F[k] = E[f[k]]
  BY <1>1, <1>2
<1>5. ASSUME NEW j \in DOMAIN E PROVE j \notin {i} <=> \E k \in 1 .. (Len(E) - 1) : f[k] = j
  <2>1. CASE j < i
    <3>1. j \in 1 .. (Len(E) - 1) /\ f[j] = j
      BY <1>2, <2>1
    <3> QED BY <2>1, <3>1
  <2>2. CASE j = i
    BY <1>2, <2>2
  <2>3. CASE j > i
    <3>1. j - 1 \in 1 .. (Len(E) - 1) /\ ~(j - 1 < i) /\ (j - 1) + 1 = j
      BY <2>3
    <3>2. f[j - 1] = j
      BY <1>2, <3>1
    <3> QED BY <2>3, <3>1, <3>2
  <2> QED BY <2>1, <2>2, <2>3
<1>6. PICK D : D = 1 .. (Len(E) - 1) /\ D = DOMAIN F
  BY <1>1
<1>7. /\ f \in [D -> DOMAIN E] /\ \A k, l \in D : k < l => f[k] < f[l]
      /\ \A k \in D : F[k] = E[f[k]]
      /\ \A j \in DOMAIN E : j \notin {i} <=> \E k \in D : f[k] = j
  BY <1>2, <1>3, <1>4, <1>5, <1>6
<1>8. Without(E, F, {i})
  BY <1>6, <1>7 DEF Without
<1> QED BY <1>1, <1>8 DEF F

\* The events of E at G go, then those of F that x selects.
LEMMA WithoutBoth ==
  ASSUME NEW E \in Seq(KernelEvent), NEW F \in Seq(KernelEvent), NEW H \in Seq(KernelEvent),
         NEW G, NEW K, NEW L, Without(E, F, G), Without(F, H, K),
         \A j \in DOMAIN E : \A k \in DOMAIN F : F[k] = E[j] /\ j \notin G => (j \in L <=> k \in K),
         G \subseteq L
  PROVE  Without(E, H, L)
<1>1. PICK f \in [DOMAIN F -> DOMAIN E] :
        /\ \A k, l \in DOMAIN F : k < l => f[k] < f[l]
        /\ \A k \in DOMAIN F : F[k] = E[f[k]]
        /\ \A j \in DOMAIN E : j \notin G <=> \E k \in DOMAIN F : f[k] = j
  BY DEF Without
<1>2. PICK h \in [DOMAIN H -> DOMAIN F] :
        /\ \A k, l \in DOMAIN H : k < l => h[k] < h[l]
        /\ \A k \in DOMAIN H : H[k] = F[h[k]]
        /\ \A j \in DOMAIN F : j \notin K <=> \E k \in DOMAIN H : h[k] = j
  BY DEF Without
<1> DEFINE g == [k \in DOMAIN H |-> f[h[k]]]
<1>3. g \in [DOMAIN H -> DOMAIN E] /\ \A k \in DOMAIN H : g[k] = f[h[k]] /\ h[k] \in DOMAIN F
  BY <1>1, <1>2
<1> HIDE DEF g
<1>4. \A k, l \in DOMAIN H : k < l => g[k] < g[l]
  BY <1>1, <1>2, <1>3
<1>5. \A k \in DOMAIN H : H[k] = E[g[k]]
  BY <1>1, <1>2, <1>3
<1>6. ASSUME NEW j \in DOMAIN E PROVE j \notin L <=> \E k \in DOMAIN H : g[k] = j
  <2>1. ASSUME j \notin L PROVE \E k \in DOMAIN H : g[k] = j
    <3>1. PICK k \in DOMAIN F : f[k] = j
      BY <1>1, <2>1
    <3>2. F[k] = E[j] /\ j \notin G
      BY <1>1, <2>1, <3>1
    <3>3. k \notin K
      BY <2>1, <3>2
    <3> QED BY <1>2, <1>3, <3>1, <3>3
  <2>2. ASSUME NEW k \in DOMAIN H, g[k] = j PROVE j \notin L
    <3>1. h[k] \in DOMAIN F /\ h[k] \notin K /\ F[h[k]] = E[j] /\ j \notin G
      BY <1>1, <1>2, <1>3, <2>2
    <3> QED BY <3>1
  <2> QED BY <2>1, <2>2
<1> QED BY <1>3, <1>4, <1>5, <1>6 DEF Without

LEMMA EditedFacts ==
  ASSUME NEW E \in Seq(KernelEvent), NEW H, NEW G, NEW New, Edited(E, H, G, New)
  PROVE  /\ H \in Seq(KernelEvent) /\ \A d, e \in New : d = e
         /\ \A i \in DOMAIN H : H[i] \in New \/ \E j \in DOMAIN E \ G : H[i] = E[j]
         /\ \A j \in DOMAIN E \ G : \E i \in DOMAIN H : H[i] = E[j]
         /\ \A e \in New : \E i \in DOMAIN H : H[i] = e
         /\ \A i, j \in DOMAIN H : i < j /\ H[j] \notin New =>
              \E k, l \in DOMAIN E \ G : k < l /\ H[i] = E[k] /\ H[j] = E[l]
         /\ Unique(E) /\ (\A e \in New : \A j \in DOMAIN E \ G :
                            ~(E[j].kind = e.kind /\ E[j].who = e.who))
            => Unique(H)
<1>1. PICK F \in Seq(KernelEvent) :
        /\ Without(E, F, G)
        /\ \/ New = {} /\ H = F
           \/ \E e \in KernelEvent : New = {e} /\ H = Append(F, e)
  BY DEF Edited
<1>2. PICK f \in [DOMAIN F -> DOMAIN E] :
        /\ \A k, l \in DOMAIN F : k < l => f[k] < f[l]
        /\ \A k \in DOMAIN F : F[k] = E[f[k]]
        /\ \A j \in DOMAIN E : j \notin G <=> \E k \in DOMAIN F : f[k] = j
  BY <1>1 DEF Without
<1>3. ASSUME NEW i \in DOMAIN F, NEW j \in DOMAIN F, i # j PROVE f[i] # f[j]
  BY <1>2, <1>3
<1>a. \A i \in DOMAIN F : f[i] \in DOMAIN E \ G
  BY <1>2
<1>4. CASE New = {} /\ H = F
  <2>1. Unique(E) => Unique(H)
    BY <1>2, <1>3, <1>4, <1>a DEF Unique
  <2>2. \A i, j \in DOMAIN H : i < j =>
              \E k, l \in DOMAIN E \ G : k < l /\ H[i] = E[k] /\ H[j] = E[l]
    BY <1>2, <1>4, <1>a
  <2> QED BY <1>2, <1>4, <2>1, <2>2, <1>a
<1>5. CASE \E e \in KernelEvent : New = {e} /\ H = Append(F, e)
  <2>1. PICK e \in KernelEvent : New = {e} /\ H = Append(F, e)
    BY <1>5
  <2>2. /\ H \in Seq(KernelEvent) /\ DOMAIN H = 1 .. (Len(F) + 1)
        /\ \A k \in DOMAIN F : k \in DOMAIN H /\ H[k] = F[k]
        /\ H[Len(F) + 1] = e /\ DOMAIN F = 1 .. Len(F)
    BY <2>1
  <2>3. \A k \in DOMAIN H : k = Len(F) + 1 \/ k \in DOMAIN F
    BY <2>2
  <2>4. \A i \in DOMAIN H : H[i] \in New \/ \E j \in DOMAIN E \ G : H[i] = E[j]
    BY <1>2, <1>a, <2>1, <2>2, <2>3
  <2>5. \A j \in DOMAIN E \ G : \E i \in DOMAIN H : H[i] = E[j]
    BY <1>2, <2>2
  <2>6. Len(F) + 1 \in DOMAIN H
    BY <2>2
  <2>7. ASSUME NEW i \in DOMAIN H, NEW j \in DOMAIN H, i < j, H[j] \notin New
        PROVE  \E k, l \in DOMAIN E \ G : k < l /\ H[i] = E[k] /\ H[j] = E[l]
    <3>1. j \in DOMAIN F
      BY <2>1, <2>2, <2>3, <2>7
    <3>2. i \in DOMAIN F
      BY <2>2, <2>7, <3>1
    <3>3. f[i] < f[j]
      BY <1>2, <2>7, <3>1, <3>2
    <3> QED BY <1>2, <1>a, <2>2, <3>1, <3>2, <3>3
  <2>8. ASSUME Unique(E), \A d \in New : \A j \in DOMAIN E \ G :
                            ~(E[j].kind = d.kind /\ E[j].who = d.who)
        PROVE  Unique(H)
    <3> SUFFICES ASSUME NEW i \in DOMAIN H, NEW j \in DOMAIN H,
                        H[i].kind = H[j].kind, H[i].who = H[j].who
                 PROVE  i = j
      BY DEF Unique
    <3>1. CASE i \in DOMAIN F /\ j \in DOMAIN F
      <4>1. f[i] = f[j]
        BY <1>2, <2>2, <2>8, <3>1 DEF Unique
      <4> QED BY <1>3, <3>1, <4>1
    <3>2. CASE i \notin DOMAIN F /\ j \in DOMAIN F
      <4>1. H[i] = e /\ H[j] = E[f[j]]
        BY <1>2, <2>2, <2>3, <3>2
      <4> QED BY <1>a, <2>1, <2>8, <3>2, <4>1
    <3>3. CASE i \in DOMAIN F /\ j \notin DOMAIN F
      <4>1. H[j] = e /\ H[i] = E[f[i]]
        BY <1>2, <2>2, <2>3, <3>3
      <4> QED BY <1>a, <2>1, <2>8, <3>3, <4>1
    <3>4. CASE i \notin DOMAIN F /\ j \notin DOMAIN F
      BY <2>3, <3>4
    <3> QED BY <3>1, <3>2, <3>3, <3>4
  <2> QED BY <2>1, <2>2, <2>4, <2>5, <2>6, <2>7, <2>8
<1> QED BY <1>1, <1>4, <1>5

LEMMA EditedTaken ==
  ASSUME NEW E \in Seq(KernelEvent), NEW i \in DOMAIN E
  PROVE  Edited(E, RemoveAt(E, i), {i}, {})
BY WithoutOne DEF Edited

LEMMA EditedNew ==
  ASSUME NEW E \in Seq(KernelEvent), NEW e \in KernelEvent
  PROVE  Edited(E, Append(E, e), {}, {e})
BY WithoutNone DEF Edited

LEMMA EditedNone ==
  ASSUME NEW E \in Seq(KernelEvent)
  PROVE  Edited(E, E, {}, {})
BY WithoutNone DEF Edited

LEMMA EditedMoved ==
  ASSUME NEW E \in Seq(KernelEvent), NEW i \in DOMAIN E, NEW e \in KernelEvent
  PROVE  Edited(E, Append(RemoveAt(E, i), e), {i}, {e})
BY WithoutOne DEF Edited

-----------------------------------------------------------------------------
(* What the actions do.                                                    *)

\* Only p changes, and becomes r.
Turns(p, r) == r \in ProcessType /\ process' = [process EXCEPT ![p] = r]
\* The lists of the inchannels stay, or p leaves them.
ListsStay == \A ic \in inChannel : channel'[ic].wait = channel[ic].wait
LeavesLists(p) ==
  \A ic \in inChannel : channel'[ic].wait = IF ic \in process[p].waiton
                                            THEN RemoveFirst(channel[ic].wait, p)
                                            ELSE channel[ic].wait
ActivityStays ==
  \A ic \in inChannel : /\ channel'[ic].active_event = channel[ic].active_event
                        /\ channel'[ic].processes_activated = channel[ic].processes_activated
SameContext(p, r) == /\ r.active_inchannel = process[p].active_inchannel
                     /\ r.active_event_retrieved = process[p].active_event_retrieved

LEMMA Types ==
  ASSUME TypeOK
  PROVE  /\ process \in [Process -> ProcessType] /\ channel \in [inChannel -> ChannelType]
         /\ evtlist \in Seq(KernelEvent) /\ active_processes \in Seq(Process)
         /\ State \in StateType
BY StateIs DEF TypeOK

LEMMA InLists ==
  ASSUME Lists, NEW p \in Process, process[p].waiton \subseteq inChannel
  PROVE  \A ic \in process[p].waiton :
           IsInjective(channel[ic].wait) /\ Holds(channel[ic].wait, p)
BY DEF Lists

\* A process is on the ready list once it runs.
LEMMA Activation ==
  ASSUME NEW S \in StateType, NEW p \in Process, S.process[p].state # "running"
  PROVE  LET T == activate_process(S, p) IN
         /\ T \in StateType
         /\ T.process = [S.process EXCEPT ![p].state = "running"]
         /\ T.active_processes = Append(S.active_processes, p)
         /\ T.channel = S.channel /\ T.evtlist = S.evtlist
<1> DEFINE T == activate_process(S, p)
           P == [S.process EXCEPT ![p].state = "running"]
           A == Append(S.active_processes, p)
           C == S.channel
           E == S.evtlist
<1>1. T = [S EXCEPT !.process = P, !.channel = C, !.evtlist = E, !.active_processes = A]
  BY DEF activate_process, StateType
<1>2. /\ P \in [Process -> ProcessType] /\ C \in [inChannel -> ChannelType]
      /\ E \in Seq(KernelEvent) /\ A \in Seq(Process)
  <2>1. /\ S.process \in [Process -> ProcessType] /\ S.active_processes \in Seq(Process)
        /\ C \in [inChannel -> ChannelType] /\ E \in Seq(KernelEvent)
    BY DEF StateType
  <2>2. P \in [Process -> ProcessType]
    BY <2>1 DEF ProcessType
  <2>3. A \in Seq(Process)
    BY <2>1
  <2> QED BY <2>1, <2>2, <2>3
<1> HIDE DEF T, P, A, C, E
<1>3. T.process = P /\ T.channel = C /\ T.evtlist = E /\ T.active_processes = A /\ T \in StateType
  BY <1>1, <1>2 DEF StateType
<1> QED BY <1>3 DEF T, P, A, C, E

\* Nobody runs between two events.
LEMMA NobodyRuns ==
  ASSUME IInv, active_processes = <<>>
  PROVE  \A p \in Process : process[p].state # "running" /\ process[p].active_inchannel = None
BY DEF IInv, Ready, Holds, States, StateOK

LEMMA PoppedIs ==
  ASSUME TypeOK, NEW i \in DOMAIN evtlist
  PROVE  /\ Popped(i) \in StateType
         /\ Popped(i).process = process /\ Popped(i).channel = channel
         /\ Popped(i).evtlist = RemoveAt(evtlist, i)
         /\ Popped(i).active_processes = active_processes
<1>1. RemoveAt(evtlist, i) \in Seq(KernelEvent)
  BY Types, RemoveAtFacts
<1> DEFINE e == RemoveAt(evtlist, i)
<1>2. Popped(i) = [State EXCEPT !.evtlist = e]
  BY DEF Popped, State
<1> HIDE DEF e
<1>3. e \in Seq(KernelEvent)
  BY <1>1 DEF e
<1> QED BY <1>2, <1>3, Types, StateIs DEF StateType, e

\* A process begins, or goes on after a semaphore has let it pass.
LEMMA StartsFrame ==
  ASSUME IInv, NEW i \in DOMAIN evtlist, TakeEvent(i), evtlist[i].kind # "hold"
  PROVE  LET p == evtlist[i].who IN
         /\ p \in Process /\ process[p].state \in {"creating", "waiting"}
         /\ \E r : Turns(p, r) /\ r = [process[p] EXCEPT !.state = "running"]
         /\ channel' = channel
         /\ evtlist' = RemoveAt(evtlist, i)
         /\ active_processes' = Append(active_processes, p)
<1> DEFINE p == evtlist[i].who
<1>1. process \in [Process -> ProcessType] /\ State \in StateType /\ TypeOK
  BY Types DEF IInv
<1>2. p \in Process /\ evtlist[i].kind \in {"process", "semaphore"} /\ HasEvent(evtlist[i].kind, p)
  BY DEF IInv, Events, TakeEvent, HasEvent
<1>3. process[p].state \in {"creating", "waiting"}
  <2>1. CASE evtlist[i].kind = "process"
    BY <1>2, <2>1 DEF IInv, Events
  <2>2. CASE evtlist[i].kind = "semaphore"
    <3>1. PICK s \in Semaphore : \E k \in 1 .. Passing(s) : order[s][k] = p
      BY <1>2, <2>2 DEF IInv, Events, IsReleased
    <3>2. PICK k \in 1 .. Passing(s) : order[s][k] = p
      BY <3>1
    <3>3. k \in DOMAIN order[s]
      BY <1>1 DEF TypeOK, Passing
    <3> QED BY <3>2, <3>3 DEF IInv, Places
  <2> QED BY <1>2, <2>1, <2>2
<1>4. Becomes(activate_process(Popped(i), p))
  BY DEF TakeEvent, Start
<1>5. /\ Popped(i) \in StateType
      /\ Popped(i).process = process /\ Popped(i).channel = channel
      /\ Popped(i).evtlist = RemoveAt(evtlist, i)
      /\ Popped(i).active_processes = active_processes
  BY <1>1, PoppedIs
<1>6. LET T == activate_process(Popped(i), p) IN
      /\ T \in StateType
      /\ T.process = [process EXCEPT ![p].state = "running"]
      /\ T.active_processes = Append(active_processes, p)
      /\ T.channel = channel /\ T.evtlist = RemoveAt(evtlist, i)
  BY <1>2, <1>3, <1>5, Activation
<1>7. /\ process' = [process EXCEPT ![p].state = "running"]
      /\ active_processes' = Append(active_processes, p)
      /\ channel' = channel /\ evtlist' = RemoveAt(evtlist, i)
  BY <1>4, <1>6, BecomesIs
<1>8. [process[p] EXCEPT !.state = "running"] \in ProcessType
  BY <1>1, <1>2 DEF ProcessType
<1>9. process' = [process EXCEPT ![p] = [process[p] EXCEPT !.state = "running"]]
  BY <1>1, <1>2, <1>7
<1> HIDE DEF p
<1> QED BY <1>2, <1>3, <1>7, <1>8, <1>9 DEF Turns, p

\* The timeout of p: it stops waiting.
LEMMA TimeoutFrame ==
  ASSUME IInv, NEW i \in DOMAIN evtlist, TakeEvent(i), evtlist[i].kind = "hold"
  PROVE  LET p == evtlist[i].who IN
         /\ p \in Process /\ process[p].state = "waiting" /\ process[p].hold_event
         /\ \E r : /\ Turns(p, r) /\ SameContext(p, r)
                  /\ r.state = "running" /\ ~r.hold_event /\ r.waiton = {}
                  /\ ~r.static_sensitivity /\ r.process_timedout
         /\ LeavesLists(p) /\ ActivityStays /\ channel' \in [inChannel -> ChannelType]
         /\ evtlist' = RemoveAt(evtlist, i)
         /\ active_processes' = Append(active_processes, p)
<1> DEFINE p == evtlist[i].who
           popped == Popped(i)
           timedout == [popped EXCEPT !.process[p].hold_event = FALSE,
                                      !.process[p].process_timedout = TRUE]
           o == [process[p] EXCEPT !.hold_event = FALSE, !.process_timedout = TRUE]
           q == [o EXCEPT !.static_sensitivity = FALSE, !.waiton = {}]
           P == [process EXCEPT ![p] = o]
           signed_off == IF process[p].static_sensitivity
                         THEN [timedout EXCEPT !.process[p].static_sensitivity = FALSE]
                         ELSE desensitize_inchannels(timedout, p)
<1>1. process \in [Process -> ProcessType] /\ State \in StateType /\ TypeOK
  BY Types DEF IInv
<1>2. p \in Process /\ HasEvent("hold", p)
  BY DEF IInv, Events, HasEvent
<1>3. process[p].hold_event /\ process[p].state = "waiting"
  BY <1>2 DEF IInv, Events, States, StateOK
<1>4. /\ popped \in StateType
      /\ popped.process = process /\ popped.channel = channel
      /\ popped.evtlist = RemoveAt(evtlist, i)
      /\ popped.active_processes = active_processes
  BY <1>1, PoppedIs
<1>5. Becomes(activate_process(signed_off, p))
  BY DEF TakeEvent, Start
<1> HIDE DEF popped, p
<1>6. /\ P \in [Process -> ProcessType] /\ P[p] = o /\ process[p] \in ProcessType
      /\ o \in ProcessType /\ q \in ProcessType /\ o.state = "waiting" /\ q.state = "waiting"
      /\ o.waiton = process[p].waiton /\ o.static_sensitivity = process[p].static_sensitivity
      /\ q.waiton = {} /\ ~q.static_sensitivity /\ ~q.hold_event /\ q.process_timedout
      /\ SameContext(p, q)
  <2>1. process[p] \in ProcessType
    BY <1>1, <1>2
  <2>2. /\ o \in ProcessType /\ q \in ProcessType /\ o.state = "waiting" /\ q.state = "waiting"
        /\ o.waiton = process[p].waiton /\ o.static_sensitivity = process[p].static_sensitivity
        /\ q.waiton = {} /\ ~q.static_sensitivity /\ ~q.hold_event /\ q.process_timedout
        /\ SameContext(p, q)
    BY <1>3, <2>1 DEF ProcessType, SameContext
  <2> HIDE DEF o, q
  <2> QED BY <1>1, <1>2, <2>1, <2>2
<1>7. /\ timedout.process = P /\ timedout.channel = channel
      /\ timedout.evtlist = RemoveAt(evtlist, i)
      /\ timedout.active_processes = active_processes
      /\ timedout \in StateType
  <2>1. timedout.process = P
    BY <1>1, <1>2, <1>4 DEF StateType, ProcessType
  <2>2. timedout = [popped EXCEPT !.process = P]
    BY <1>1, <1>2, <1>4 DEF StateType, ProcessType
  <2> HIDE DEF P, timedout
  <2> QED BY <1>4, <1>6, <2>1, <2>2 DEF StateType
<1> HIDE DEF timedout
<1>8. /\ signed_off \in StateType
      /\ signed_off.process = [process EXCEPT ![p] = q]
      /\ signed_off.evtlist = RemoveAt(evtlist, i)
      /\ signed_off.active_processes = active_processes
      /\ \A ic \in inChannel :
           /\ signed_off.channel[ic].wait = IF ic \in process[p].waiton
                                            THEN RemoveFirst(channel[ic].wait, p)
                                            ELSE channel[ic].wait
           /\ signed_off.channel[ic].active_event = channel[ic].active_event
           /\ signed_off.channel[ic].processes_activated = channel[ic].processes_activated
  <2>1. CASE process[p].static_sensitivity
    <3>1. process[p].waiton = {}
      BY <1>2, <2>1 DEF IInv, States, StateOK
    <3> DEFINE Q == [P EXCEPT ![p] = q]
    <3>2. signed_off = [timedout EXCEPT !.process = Q]
      <4>1. q = [o EXCEPT !.static_sensitivity = FALSE]
        BY <1>6, <3>1 DEF ProcessType
      <4>2. signed_off = [timedout EXCEPT !.process = [P EXCEPT ![p] =
                            [P[p] EXCEPT !.static_sensitivity = FALSE]]]
        <5> HIDE DEF P, o, q
        <5> QED BY <1>7, <2>1 DEF StateType
      <4> HIDE DEF P, o, q, signed_off
      <4> QED BY <1>6, <4>1, <4>2
    <3>3. Q = [process EXCEPT ![p] = q] /\ Q \in [Process -> ProcessType]
      <4> HIDE DEF o, q
      <4> QED BY <1>1, <1>2, <1>6
    <3> HIDE DEF Q, P, signed_off, q, o
    <3>4. /\ signed_off \in StateType /\ signed_off.process = Q
          /\ signed_off.evtlist = RemoveAt(evtlist, i)
          /\ signed_off.active_processes = active_processes
          /\ signed_off.channel = channel
      BY <1>7, <3>2, <3>3 DEF StateType
    <3> QED BY <3>1, <3>3, <3>4
  <2>2. CASE ~process[p].static_sensitivity
    <3>1. timedout.process[p].waiton = process[p].waiton /\ process[p].waiton \subseteq inChannel
      <4> HIDE DEF P, o, q, signed_off
      <4>1. timedout.process[p] = o
        BY <1>6, <1>7
      <4> QED BY <1>6, <4>1 DEF ProcessType
    <3>2. signed_off = desensitize_inchannels(timedout, p)
      BY <2>2
    <3>3. \A ic \in process[p].waiton : IsInjective(channel[ic].wait) /\ Holds(channel[ic].wait, p)
      BY <1>2, <3>1, InLists DEF IInv
    <3>4. /\ signed_off \in StateType
          /\ signed_off.process = [P EXCEPT ![p].waiton = {}]
          /\ signed_off.evtlist = RemoveAt(evtlist, i)
          /\ signed_off.active_processes = active_processes
          /\ \A ic \in inChannel :
               /\ signed_off.channel[ic].wait = IF ic \in process[p].waiton
                                                THEN RemoveFirst(channel[ic].wait, p)
                                                ELSE channel[ic].wait
               /\ signed_off.channel[ic].active_event = channel[ic].active_event
               /\ signed_off.channel[ic].processes_activated = channel[ic].processes_activated
      <4> HIDE DEF P, signed_off, o, q
      <4> QED BY <1>2, <1>7, <3>1, <3>2, <3>3, DesensitizedIs
    <3>5. [P EXCEPT ![p].waiton = {}] = [process EXCEPT ![p] = q]
      <4>1. [o EXCEPT !.waiton = {}] = q
        BY <1>6, <2>2 DEF ProcessType
      <4> HIDE DEF o, q
      <4> QED BY <1>1, <1>2, <1>6, <4>1
    <3> HIDE DEF P, signed_off, o, q
    <3> QED BY <3>4, <3>5
  <2> QED BY <2>1, <2>2
<1> DEFINE r == [q EXCEPT !.state = "running"]
<1> HIDE DEF signed_off, o, q, P
<1>9. signed_off.process[p] = q /\ signed_off.process[p].state # "running"
  BY <1>1, <1>2, <1>6, <1>8
<1>10. /\ process' = [signed_off.process EXCEPT ![p].state = "running"]
       /\ active_processes' = Append(active_processes, p)
       /\ channel' = signed_off.channel /\ evtlist' = RemoveAt(evtlist, i)
  <2> DEFINE T == activate_process(signed_off, p)
  <2>1. /\ T.process = [signed_off.process EXCEPT ![p].state = "running"]
        /\ T.active_processes = Append(signed_off.active_processes, p)
        /\ T.channel = signed_off.channel /\ T.evtlist = signed_off.evtlist
    BY <1>2, <1>8, <1>9, Activation
  <2> HIDE DEF T
  <2>2. Becomes(T)
    BY <1>5 DEF T
  <2> QED BY <1>8, <2>1, <2>2, BecomesIs
<1>11. process' = [process EXCEPT ![p] = r]
  BY <1>1, <1>2, <1>8, <1>9, <1>10
<1>12. /\ r \in ProcessType /\ r.state = "running" /\ ~r.hold_event /\ r.waiton = {}
       /\ ~r.static_sensitivity /\ r.process_timedout /\ SameContext(p, r)
  BY <1>6 DEF ProcessType, SameContext
<1>13. LeavesLists(p) /\ ActivityStays /\ channel' \in [inChannel -> ChannelType]
  BY <1>8, <1>10 DEF LeavesLists, ActivityStays, StateType
<1> HIDE DEF r
<1> QED BY <1>2, <1>3, <1>10, <1>11, <1>12, <1>13 DEF Turns, p

-----------------------------------------------------------------------------
(* What keeps the parts of the invariant.                                  *)

\* An event of this kind for x goes, or comes.
Gone(G, kind, x) == \E j \in G : evtlist[j].kind = kind /\ evtlist[j].who = x
Comes(New, kind, x) == \E e \in New : e.kind = kind /\ e.who = x
Placed(p) == \E s \in Semaphore : \E k \in DOMAIN order[s] : order[s][k] = p
SameOrder ==
  \A s \in Semaphore : /\ Passing(s)' = Passing(s)
                       /\ \A k \in 1 .. Passing(s) : order'[s][k] = order[s][k]

LEMMA EventsStep ==
  ASSUME TypeOK, Events, NEW G \in SUBSET DOMAIN evtlist, NEW New \in SUBSET KernelEvent,
         Edited(evtlist, evtlist', G, New),
         \A e \in New : /\ e.who \in (IF e.kind = "timer" THEN Timer ELSE Process)
                        /\ ~HasEvent(e.kind, e.who) \/ Gone(G, e.kind, e.who)
  PROVE  /\ evtlist' \in Seq(KernelEvent) /\ Unique(evtlist')
         /\ \A i \in DOMAIN evtlist' :
              evtlist'[i].who \in (IF evtlist'[i].kind = "timer" THEN Timer ELSE Process)
         /\ \A kind, x : HasEvent(kind, x)' <=> \/ HasEvent(kind, x) /\ ~Gone(G, kind, x)
                                                \/ Comes(New, kind, x)
<1> DEFINE E == evtlist
           H == evtlist'
<1>1. E \in Seq(KernelEvent) /\ Unique(E)
  BY Types DEF Events, Unique
<1>2. \A kind, x : HasEvent(kind, x) <=> \E i \in DOMAIN E : E[i].kind = kind /\ E[i].who = x
  BY DEF HasEvent
<1>3. \A kind, x : HasEvent(kind, x)' <=> \E i \in DOMAIN H : H[i].kind = kind /\ H[i].who = x
  BY DEF HasEvent
<1>4. \A kind, x : Gone(G, kind, x) <=> \E i \in G : E[i].kind = kind /\ E[i].who = x
  BY DEF Gone
<1>5. \A i \in DOMAIN E : E[i].who \in (IF E[i].kind = "timer" THEN Timer ELSE Process)
  BY DEF Events
<1>6. Edited(E, H, G, New)
  OBVIOUS
<1> HIDE DEF E, H
<1>7. \A e \in New : \A j \in DOMAIN E \ G : ~(E[j].kind = e.kind /\ E[j].who = e.who)
  <2> SUFFICES ASSUME NEW e \in New, NEW j \in DOMAIN E \ G, E[j].kind = e.kind, E[j].who = e.who
               PROVE  FALSE
    OBVIOUS
  <2>1. HasEvent(e.kind, e.who)
    BY <1>2
  <2>2. PICK i \in G : E[i].kind = e.kind /\ E[i].who = e.who
    BY <1>4, <2>1
  <2>3. i \in DOMAIN E
    BY DEF E
  <2>4. i = j
    BY <1>1, <2>2, <2>3 DEF Unique
  <2> QED BY <2>2, <2>4
<1>8. /\ H \in Seq(KernelEvent)
      /\ \A i \in DOMAIN H : H[i] \in New \/ \E j \in DOMAIN E \ G : H[i] = E[j]
      /\ \A j \in DOMAIN E \ G : \E i \in DOMAIN H : H[i] = E[j]
      /\ \A e \in New : \E i \in DOMAIN H : H[i] = e
      /\ Unique(H)
  BY <1>1, <1>6, <1>7, EditedFacts
<1>9. \A i \in DOMAIN H : H[i].who \in (IF H[i].kind = "timer" THEN Timer ELSE Process)
  BY <1>5, <1>8
<1>10. ASSUME NEW kind, NEW x
       PROVE  HasEvent(kind, x)' <=> \/ HasEvent(kind, x) /\ ~Gone(G, kind, x)
                                     \/ Comes(New, kind, x)
  <2>1. ASSUME HasEvent(kind, x)'
        PROVE  (HasEvent(kind, x) /\ ~Gone(G, kind, x)) \/ Comes(New, kind, x)
    <3>1. PICK i \in DOMAIN H : H[i].kind = kind /\ H[i].who = x
      BY <1>3, <2>1
    <3>2. CASE H[i] \in New
      BY <3>1, <3>2 DEF Comes
    <3>3. CASE \E j \in DOMAIN E \ G : H[i] = E[j]
      <4>1. PICK j \in DOMAIN E \ G : H[i] = E[j]
        BY <3>3
      <4>2. ~Gone(G, kind, x)
        <5> SUFFICES ASSUME NEW g \in G, E[g].kind = kind, E[g].who = x PROVE FALSE
          BY <1>4
        <5>1. g \in DOMAIN E
          BY DEF E
        <5> QED BY <1>1, <3>1, <4>1, <5>1 DEF Unique
      <4> QED BY <1>2, <3>1, <4>1, <4>2
    <3> QED BY <1>8, <3>2, <3>3
  <2>2. ASSUME HasEvent(kind, x), ~Gone(G, kind, x) PROVE HasEvent(kind, x)'
    <3>1. PICK j \in DOMAIN E : E[j].kind = kind /\ E[j].who = x
      BY <1>2, <2>2
    <3>2. j \notin G
      BY <1>4, <2>2, <3>1
    <3> QED BY <1>3, <1>8, <3>1, <3>2
  <2>3. ASSUME Comes(New, kind, x) PROVE HasEvent(kind, x)'
    BY <1>3, <1>8, <2>3 DEF Comes
  <2> QED BY <2>1, <2>2, <2>3
<1> QED BY <1>8, <1>9, <1>10 DEF H

LEMMA TimesStep ==
  ASSUME TypeOK, Times, NEW G, NEW New, Edited(evtlist, evtlist', G, New),
         \A a \in arrivals' : simclock' <= a.time,
         \A j \in DOMAIN evtlist \ G :
           /\ simclock' <= evtlist[j].time
           /\ evtlist[j].kind \in {"process", "semaphore"} => evtlist[j].time = simclock'
           /\ evtlist[j].kind = "hold" =>
                asked'[evtlist[j].who].until = asked[evtlist[j].who].until
           /\ evtlist[j].kind = "timer" => fire_time'[evtlist[j].who] = fire_time[evtlist[j].who],
         \A e \in New : /\ simclock' <= e.time
                        /\ e.kind \in {"process", "semaphore"} => e.time = simclock'
                        /\ e.kind = "hold" => e.time = asked'[e.who].until
                        /\ e.kind = "timer" => e.time = fire_time'[e.who]
  PROVE  Times'
<1>1. \A i \in DOMAIN evtlist' :
         evtlist'[i] \in New \/ \E j \in DOMAIN evtlist \ G : evtlist'[i] = evtlist[j]
  BY Types, EditedFacts
<1>2. ASSUME NEW i \in DOMAIN evtlist'
      PROVE  /\ simclock' <= evtlist'[i].time
             /\ evtlist'[i].kind \in {"process", "semaphore"} => evtlist'[i].time = simclock'
             /\ evtlist'[i].kind = "hold" => evtlist'[i].time = asked'[evtlist'[i].who].until
             /\ evtlist'[i].kind = "timer" => evtlist'[i].time = fire_time'[evtlist'[i].who]
  <2>1. CASE evtlist'[i] \in New
    BY <2>1
  <2>2. CASE \E j \in DOMAIN evtlist \ G : evtlist'[i] = evtlist[j]
    <3>1. PICK j \in DOMAIN evtlist \ G : evtlist'[i] = evtlist[j]
      BY <2>2
    <3> QED BY <3>1 DEF Times
  <2> QED BY <1>1, <2>1, <2>2
<1> QED BY <1>2 DEF Times

\* Those that a semaphore has released keep their order, and the next one has a new event.
LEMMA InLineStep ==
  ASSUME TypeOK, InLine, Places, NEW G, NEW New, Edited(evtlist, evtlist', G, New),
         \A s \in Semaphore : \A k, l \in 1 .. Passing(s)' : k < l =>
           \/ \E m, n \in 1 .. Passing(s) :
                /\ m < n /\ order'[s][k] = order[s][m] /\ order'[s][l] = order[s][n]
                /\ ~Comes(New, "semaphore", order[s][m]) /\ ~Comes(New, "semaphore", order[s][n])
           \/ order'[s][k] # order'[s][l] /\ ~HasEvent("semaphore", order'[s][l])
  PROVE  InLine'
<1> DEFINE H == evtlist'
<1>1. /\ H \in Seq(KernelEvent) /\ \A d, e \in New : d = e
      /\ \A i \in DOMAIN H : H[i] \in New \/ \E j \in DOMAIN evtlist \ G : H[i] = evtlist[j]
      /\ \A i, j \in DOMAIN H : i < j /\ H[j] \notin New =>
           \E k, l \in DOMAIN evtlist \ G : k < l /\ H[i] = evtlist[k] /\ H[j] = evtlist[l]
  BY Types, EditedFacts
<1> HIDE DEF H
<1>2. (\A s \in Semaphore : \A k, l \in 1 .. Passing(s)' : \A i, j \in DOMAIN evtlist' :
         /\ k < l
         /\ evtlist'[i].kind = "semaphore" /\ evtlist'[i].who = order'[s][k]
         /\ evtlist'[j].kind = "semaphore" /\ evtlist'[j].who = order'[s][l]
         => i < j) => InLine'
  BY DEF InLine, Turn
<1>3. ASSUME NEW s \in Semaphore, NEW k \in 1 .. Passing(s)', NEW l \in 1 .. Passing(s)',
             NEW i \in DOMAIN H, NEW j \in DOMAIN H, k < l,
             H[i].kind = "semaphore", H[i].who = order'[s][k],
             H[j].kind = "semaphore", H[j].who = order'[s][l]
      PROVE  i < j
  <2> SUFFICES ASSUME ~(i < j) PROVE FALSE
    OBVIOUS
  <2>1. i \in Nat /\ j \in Nat /\ (j < i \/ i = j)
    BY <1>1
  <2>2. CASE \E m, n \in 1 .. Passing(s) :
                /\ m < n /\ order'[s][k] = order[s][m] /\ order'[s][l] = order[s][n]
                /\ ~Comes(New, "semaphore", order[s][m]) /\ ~Comes(New, "semaphore", order[s][n])
    <3>1. PICK m \in 1 .. Passing(s), n \in 1 .. Passing(s) :
                /\ m < n /\ order'[s][k] = order[s][m] /\ order'[s][l] = order[s][n]
                /\ ~Comes(New, "semaphore", order[s][m]) /\ ~Comes(New, "semaphore", order[s][n])
      BY <2>2
    <3>2. H[i] \notin New /\ H[j] \notin New
      BY <1>3, <3>1 DEF Comes
    <3>3. CASE j < i
      <4>1. PICK u \in DOMAIN evtlist \ G, v \in DOMAIN evtlist \ G :
               u < v /\ H[j] = evtlist[u] /\ H[i] = evtlist[v]
        BY <1>1, <3>2, <3>3
      <4>2. Turn(order[s][m], v) /\ Turn(order[s][n], u)
        BY <1>3, <3>1, <4>1 DEF Turn
      <4>3. v < u
        BY <3>1, <4>2 DEF InLine
      <4>4. u \in Nat /\ v \in Nat
        BY <4>1, Types
      <4> QED BY <4>1, <4>3, <4>4
    <3>4. CASE i = j
      <4>1. m \in DOMAIN order[s] /\ n \in DOMAIN order[s]
        BY DEF TypeOK, Passing
      <4>2. order[s][m] = order[s][n]
        BY <1>3, <3>1, <3>4
      <4> QED BY <3>1, <4>1, <4>2 DEF Places
    <3> QED BY <2>1, <3>3, <3>4
  <2>3. CASE order'[s][k] # order'[s][l] /\ ~HasEvent("semaphore", order'[s][l])
    <3>1. \A u \in DOMAIN evtlist : H[j] # evtlist[u]
      BY <1>3, <2>3 DEF HasEvent
    <3>2. j < i /\ i # j
      BY <1>3, <2>1, <2>3
    <3>3. H[i] \in New
      BY <1>1, <3>1, <3>2
    <3>4. H[j] \in New
      BY <1>1, <3>1
    <3> QED BY <1>1, <1>3, <2>3, <3>3, <3>4
  <2> QED BY <1>3, <2>2, <2>3
<1> QED BY <1>2, <1>3 DEF H

LEMMA InLineKept ==
  ASSUME TypeOK, InLine, Places, NEW G, NEW New, Edited(evtlist, evtlist', G, New), SameOrder,
         \A e \in New : e.kind # "semaphore"
  PROVE  InLine'
<1>1. ASSUME NEW s \in Semaphore, NEW k \in 1 .. Passing(s)', NEW l \in 1 .. Passing(s)', k < l
      PROVE  \E m, n \in 1 .. Passing(s) :
                /\ m < n /\ order'[s][k] = order[s][m] /\ order'[s][l] = order[s][n]
                /\ ~Comes(New, "semaphore", order[s][m]) /\ ~Comes(New, "semaphore", order[s][n])
  <2>1. /\ k \in 1 .. Passing(s) /\ order'[s][k] = order[s][k]
        /\ l \in 1 .. Passing(s) /\ order'[s][l] = order[s][l]
    BY DEF SameOrder
  <2>2. ~Comes(New, "semaphore", order[s][k]) /\ ~Comes(New, "semaphore", order[s][l])
    BY DEF Comes
  <2> QED BY <1>1, <2>1, <2>2
<1> QED BY <1>1, InLineStep

LEMMA TurnsIs ==
  ASSUME TypeOK, NEW p \in Process, NEW r, Turns(p, r)
  PROVE  /\ process' \in [Process -> ProcessType] /\ process'[p] = r /\ r \in ProcessType
         /\ \A q \in Process : q # p => process'[q] = process[q]
BY Types DEF Turns

LEMMA StatesStep ==
  ASSUME TypeOK, States, NEW p \in Process, NEW r, Turns(p, r), StateOK(r)
  PROVE  States'
<1>1. \A q \in Process : StateOK(process'[q])
  BY TurnsIs DEF States
<1> QED BY <1>1 DEF States, StateOK

LEMMA ListsKept ==
  ASSUME TypeOK, Lists, NEW p \in Process, NEW r, Turns(p, r),
         r.waiton = process[p].waiton, ListsStay
  PROVE  Lists'
<1>1. \A q \in Process : process'[q].waiton = process[q].waiton
  BY TurnsIs
<1> QED BY <1>1 DEF Lists, ListsStay, Holds

LEMMA ListsLeft ==
  ASSUME TypeOK, Lists, NEW p \in Process, NEW r, Turns(p, r), r.waiton = {}, LeavesLists(p)
  PROVE  Lists'
<1>1. /\ process'[p].waiton = {}
      /\ \A q \in Process : q # p => process'[q].waiton = process[q].waiton
  BY TurnsIs
<1>2. ASSUME NEW ic \in inChannel
      PROVE  /\ IsInjective(channel'[ic].wait)
             /\ \A q \in Process : ic \in process'[q].waiton <=> Holds(channel'[ic].wait, q)
  <2> DEFINE s == channel[ic].wait
             t == channel'[ic].wait
  <2>1. /\ s \in Seq(Process) /\ IsInjective(s)
        /\ \A q \in Process : ic \in process[q].waiton <=> Holds(s, q)
    BY Types DEF Lists, ChannelType
  <2>2. t = IF ic \in process[p].waiton THEN RemoveFirst(s, p) ELSE s
    BY DEF LeavesLists
  <2> HIDE DEF s, t
  <2>3. CASE ic \in process[p].waiton
    <3>1. Holds(s, p) /\ t = RemoveFirst(s, p)
      BY <2>1, <2>2, <2>3
    <3>2. IsInjective(t) /\ \A q : Holds(t, q) <=> Holds(s, q) /\ q # p
      BY <2>1, <3>1, ListRemove
    <3>3. IsInjective(t) /\ \A q \in Process : ic \in process'[q].waiton <=> Holds(t, q)
      BY <1>1, <2>1, <3>2
    <3> QED BY <3>3 DEF t
  <2>4. CASE ic \notin process[p].waiton
    <3>1. IsInjective(t) /\ \A q \in Process : ic \in process'[q].waiton <=> Holds(t, q)
      BY <1>1, <2>1, <2>2, <2>4
    <3> QED BY <3>1 DEF t
  <2> QED BY <2>3, <2>4
<1> QED BY <1>2 DEF Lists, Holds, IsInjective

LEMMA ListsJoined ==
  ASSUME TypeOK, Lists, NEW p \in Process, NEW r, Turns(p, r), process[p].waiton = {},
         \A ic \in inChannel : channel'[ic].wait = IF ic \in r.waiton
                                                   THEN <<p>> \o channel[ic].wait
                                                   ELSE channel[ic].wait
  PROVE  Lists'
<1>1. /\ process'[p].waiton = r.waiton
      /\ \A q \in Process : q # p => process'[q].waiton = process[q].waiton
  BY TurnsIs
<1>2. ASSUME NEW ic \in inChannel
      PROVE  /\ IsInjective(channel'[ic].wait)
             /\ \A q \in Process : ic \in process'[q].waiton <=> Holds(channel'[ic].wait, q)
  <2> DEFINE s == channel[ic].wait
             t == channel'[ic].wait
  <2>1. /\ s \in Seq(Process) /\ IsInjective(s)
        /\ \A q \in Process : ic \in process[q].waiton <=> Holds(s, q)
    BY Types DEF Lists, ChannelType
  <2>2. t = IF ic \in r.waiton THEN <<p>> \o s ELSE s
    OBVIOUS
  <2> HIDE DEF s, t
  <2>3. CASE ic \in r.waiton
    <3>1. ~Holds(s, p)
      BY <2>1
    <3>2. IsInjective(t) /\ \A q : Holds(t, q) <=> Holds(s, q) \/ q = p
      BY <2>1, <2>2, <2>3, <3>1, ListCons
    <3>3. IsInjective(t) /\ \A q \in Process : ic \in process'[q].waiton <=> Holds(t, q)
      BY <1>1, <2>1, <2>3, <3>2
    <3> QED BY <3>3 DEF t
  <2>4. CASE ic \notin r.waiton
    <3>1. IsInjective(t) /\ \A q \in Process : ic \in process'[q].waiton <=> Holds(t, q)
      BY <1>1, <2>1, <2>2, <2>4
    <3> QED BY <3>1 DEF t
  <2> QED BY <2>3, <2>4
<1> QED BY <1>2 DEF Lists, Holds, IsInjective

LEMMA ActivityKept ==
  ASSUME TypeOK, Activity, NEW p \in Process, NEW r, Turns(p, r), SameContext(p, r), ActivityStays,
         r.state = "running" => \/ process[p].state = "running"
                                \/ \A q \in Process : process[q].state # "running"
  PROVE  Activity'
<1>1. /\ process'[p].active_inchannel = process[p].active_inchannel
      /\ process'[p].active_event_retrieved = process[p].active_event_retrieved
      /\ process'[p] = r
      /\ \A q \in Process : q # p => process'[q] = process[q]
  BY TurnsIs DEF SameContext
<1>2. ASSUME NEW ic \in inChannel PROVE ActivatedBy(ic)' = ActivatedBy(ic)
  BY <1>1 DEF ActivatedBy
<1>3. ASSUME NEW q \in Process, NEW o \in Process,
             process'[q].state = "running", process'[o].state = "running"
      PROVE  process'[q].active_inchannel = process'[o].active_inchannel
  BY <1>1, <1>3 DEF Activity
<1>4. ASSUME NEW ic \in inChannel
      PROVE  /\ channel'[ic].processes_activated = Cardinality(ActivatedBy(ic)')
             /\ channel'[ic].active_event # None => ActivatedBy(ic)' # {}
             /\ \A q \in ActivatedBy(ic)' :
                  ~process'[q].active_event_retrieved => channel'[ic].active_event # None
  <2>1. \A q \in Process : process'[q].active_event_retrieved = process[q].active_event_retrieved
    BY <1>1
  <2>2. ActivatedBy(ic) \subseteq Process
    BY DEF ActivatedBy
  <2>3. /\ channel'[ic].active_event = channel[ic].active_event
        /\ channel'[ic].processes_activated = channel[ic].processes_activated
    BY DEF ActivityStays
  <2> QED BY <1>2, <2>1, <2>2, <2>3 DEF Activity
<1> QED BY <1>3, <1>4 DEF Activity

LEMMA PlacesKept ==
  ASSUME TypeOK, Places, NEW p \in Process, NEW r, Turns(p, r), ~Placed(p), order' = order
  PROVE  Places'
<1>1. \A q \in Process : q # p => process'[q] = process[q]
  BY TurnsIs
<1>2. \A s \in Semaphore : \A k \in DOMAIN order[s] : order[s][k] \in Process /\ order[s][k] # p
  BY DEF Placed, TypeOK
<1> QED BY <1>1, <1>2 DEF Places

LEMMA NotPlaced ==
  ASSUME Places, NEW p \in Process,
         \/ process[p].state # "waiting" \/ process[p].waiton # {}
         \/ process[p].static_sensitivity \/ process[p].hold_event
  PROVE  ~Placed(p)
BY DEF Places, Placed

LEMMA OrderKept ==
  ASSUME Order, UNCHANGED semaphores
  PROVE  /\ Order' /\ SameOrder
         /\ order' = order /\ \A p : IsReleased(p)' <=> IsReleased(p)
<1>1. order' = order /\ blocked_processes' = blocked_processes /\ sem_count' = sem_count
  BY DEF semaphores
<1>2. \A s \in Semaphore : Passing(s)' = Passing(s)
  BY <1>1 DEF Passing
<1>3. Order'
  BY <1>1, <1>2 DEF Order
<1>4. SameOrder
  BY <1>1, <1>2 DEF SameOrder
<1>5. \A p : IsReleased(p)' <=> IsReleased(p)
  BY <1>1, <1>2 DEF IsReleased
<1> QED BY <1>1, <1>3, <1>4, <1>5

LEMMA AskedKept ==
  ASSUME TypeOK, Asked, NEW p \in Process, NEW r, Turns(p, r),
         \A q \in Process : q # p => asked'[q] = asked[q],
         r.state = "waiting" => /\ asked'[p].ics = r.waiton
                                /\ asked'[p].static = r.static_sensitivity
                                /\ asked'[p].until # Forever <=> r.hold_event
  PROVE  Asked'
<1>1. process'[p] = r /\ \A q \in Process : q # p => process'[q] = process[q]
  BY TurnsIs
<1> QED BY <1>1 DEF Asked

\* p comes to the end of the ready list; nobody else runs.
LEMMA ReadyWoken ==
  ASSUME TypeOK, Ready, NEW p \in Process, NEW r, Turns(p, r), r.state = "running",
         active_processes = <<>>, active_processes' = Append(active_processes, p),
         context' = "timeline"
  PROVE  Ready'
<1> DEFINE s == active_processes
<1>1. s \in Seq(Process) /\ IsInjective(s) /\ \A q \in Process : ~Holds(s, q)
  BY Types DEF Holds, IsInjective
<1>2. /\ IsInjective(Append(s, p)) /\ \A q : Holds(Append(s, p), q) <=> Holds(s, q) \/ q = p
  <2> HIDE DEF s
  <2> QED BY <1>1, ListAppend
<1>3. process'[p] = r /\ \A q \in Process : q # p => process'[q] = process[q]
  BY TurnsIs
<1>4. \A q \in Process : process[q].state # "running"
  BY <1>1 DEF Ready
<1>5. active_processes' = Append(s, p)
  OBVIOUS
<1> HIDE DEF s
<1>6. IsInjective(active_processes') /\ \A q \in Process : process'[q].state = "running" <=>
                                                     Holds(active_processes', q)
  BY <1>1, <1>2, <1>3, <1>4, <1>5
<1> QED BY <1>6 DEF Ready, IsInjective, Holds

\* The first process of the ready list leaves it.
LEMMA ReadyLeft ==
  ASSUME TypeOK, Ready, active_processes # <<>>, NEW r, Turns(Self, r), r.state # "running",
         active_processes' = Tail(active_processes), context' = "timeline"
  PROVE  Ready'
<1> DEFINE s == active_processes
           p == Head(s)
<1>1. s \in Seq(Process) /\ IsInjective(s)
  BY Types DEF Ready
<1>2. p \in Process /\ IsInjective(Tail(s)) /\ \A q : Holds(Tail(s), q) <=> Holds(s, q) /\ q # p
  <2> HIDE DEF s
  <2>1. s # <<>>
    BY DEF s
  <2> QED BY <1>1, <2>1, ListTail
<1>3. process'[p] = r /\ \A q \in Process : q # p => process'[q] = process[q]
  BY <1>2, TurnsIs DEF Self
<1>4. \A q \in Process : process[q].state = "running" <=> Holds(s, q)
  BY DEF Ready
<1>5. active_processes' = Tail(s)
  OBVIOUS
<1> HIDE DEF s, p
<1>6. IsInjective(active_processes') /\ \A q \in Process : process'[q].state = "running" <=>
                                                     Holds(active_processes', q)
  BY <1>2, <1>3, <1>4, <1>5
<1> QED BY <1>6 DEF Ready, IsInjective, Holds

\* p changes, but the ready list stays.
LEMMA ReadyKept ==
  ASSUME TypeOK, Ready, NEW p \in Process, NEW r, Turns(p, r),
         r.state = "running" <=> process[p].state = "running",
         active_processes' = active_processes, context' = context,
         context = "process" /\ p = Self => r.waiton = {} /\ ~r.static_sensitivity
  PROVE  Ready'
<1>1. process'[p] = r /\ \A q \in Process : q # p => process'[q] = process[q]
  BY TurnsIs
<1>2. context = "process" => Self \in Process /\ Self' = Self
  BY Types DEF Ready, Self
<1>3. context' = "process" => process'[Self].waiton = {} /\ ~process'[Self].static_sensitivity
  BY <1>1, <1>2 DEF Ready
<1>4. \A q \in Process : process'[q].state = "running" <=> Holds(active_processes', q)
  BY <1>1 DEF Ready
<1>5. IsInjective(active_processes')
  BY DEF Ready
<1> QED BY <1>2, <1>3, <1>4, <1>5 DEF Ready, Holds, IsInjective

\* Processes, inchannels and the ready list stay as they are.
LEMMA QuietStep ==
  ASSUME IInv, UNCHANGED <<process, channel, active_processes>>, context' = "callback" \/ context' = context,
         context' = "callback" => active_processes = <<>>
  PROVE  States' /\ Lists' /\ Activity' /\ Ready'
<1>1. States'
  BY DEF IInv, States
<1>2. Lists'
  BY DEF IInv, Lists
<1>3. Activity'
  <2>1. \A ic \in inChannel : ActivatedBy(ic)' = ActivatedBy(ic)
    BY DEF ActivatedBy
  <2> QED BY <2>1 DEF IInv, Activity
<1>4. Ready'
  <2>1. Self' = Self
    BY DEF Self
  <2> QED BY <2>1 DEF IInv, Ready
<1> QED BY <1>1, <1>2, <1>3, <1>4

-----------------------------------------------------------------------------
(* The steps of the kernel.                                                *)

\* What taking the first event does to the list of events and to the clock.
LEMMA Takes ==
  ASSUME IInv, NEW i \in DOMAIN evtlist, IsFirst(i), evtlist' = RemoveAt(evtlist, i),
         simclock' = evtlist[i].time, UNCHANGED <<arrivals, asked, fire_time>>
  PROVE  /\ Edited(evtlist, evtlist', {i}, {})
         /\ evtlist' \in Seq(KernelEvent) /\ Unique(evtlist')
         /\ \A j \in DOMAIN evtlist' :
              evtlist'[j].who \in (IF evtlist'[j].kind = "timer" THEN Timer ELSE Process)
         /\ \A kind, x : HasEvent(kind, x)' <=>
              HasEvent(kind, x) /\ ~(evtlist[i].kind = kind /\ evtlist[i].who = x)
         /\ Times' /\ simclock' \in Nat
<1> DEFINE E == evtlist
<1>0. TypeOK /\ Events /\ Times
  BY DEF IInv
<1>1. E \in Seq(KernelEvent) /\ i \in DOMAIN E
  BY <1>0, Types
<1>2. Edited(evtlist, evtlist', {i}, {})
  <2> HIDE DEF E
  <2>1. Edited(E, RemoveAt(E, i), {i}, {})
    BY <1>1, EditedTaken
  <2> QED BY <2>1 DEF E
<1>3. /\ evtlist' \in Seq(KernelEvent) /\ Unique(evtlist')
      /\ \A j \in DOMAIN evtlist' :
           evtlist'[j].who \in (IF evtlist'[j].kind = "timer" THEN Timer ELSE Process)
      /\ \A kind, x : HasEvent(kind, x)' <=> \/ HasEvent(kind, x) /\ ~Gone({i}, kind, x)
                                             \/ Comes({}, kind, x)
  <2>1. {i} \in SUBSET DOMAIN evtlist /\ {} \in SUBSET KernelEvent
    OBVIOUS
  <2>2. \A e \in {} : /\ e.who \in (IF e.kind = "timer" THEN Timer ELSE Process)
                      /\ ~HasEvent(e.kind, e.who) \/ Gone({i}, e.kind, e.who)
    OBVIOUS
  <2> QED BY <1>0, <1>2, <2>1, <2>2, EventsStep
<1>4. \A kind, x : HasEvent(kind, x)' <=>
        HasEvent(kind, x) /\ ~(evtlist[i].kind = kind /\ evtlist[i].who = x)
  BY <1>3 DEF Gone, Comes
<1>5. \A j \in DOMAIN evtlist : evtlist[j] \in KernelEvent
  BY <1>0, Types
<1>6. simclock' \in Nat /\ simclock \in Nat
  BY <1>0, <1>5 DEF KernelEvent, TypeOK
<1>7. \A a \in arrivals' : simclock' <= a.time
  BY DEF IsFirst
<1>8. ASSUME NEW j \in DOMAIN evtlist \ {i}
      PROVE  /\ simclock' <= evtlist[j].time
             /\ evtlist[j].kind \in {"process", "semaphore"} => evtlist[j].time = simclock'
             /\ asked'[evtlist[j].who].until = asked[evtlist[j].who].until
             /\ fire_time'[evtlist[j].who] = fire_time[evtlist[j].who]
  <2>1. evtlist[j].time \in Nat /\ evtlist[i].time \in Nat
    BY <1>5 DEF KernelEvent
  <2>2. evtlist[i].time <= evtlist[j].time
    BY <2>1 DEF IsFirst, Before
  <2>3. evtlist[j].kind \in {"process", "semaphore"} => evtlist[j].time = simclock
    BY <1>0 DEF Times
  <2>4. simclock <= evtlist[i].time
    BY <1>0 DEF Times
  <2> QED BY <1>6, <2>1, <2>2, <2>3, <2>4
<1>9. Times'
  <2>1. \A j \in DOMAIN evtlist \ {i} :
           /\ simclock' <= evtlist[j].time
           /\ evtlist[j].kind \in {"process", "semaphore"} => evtlist[j].time = simclock'
           /\ evtlist[j].kind = "hold" =>
                asked'[evtlist[j].who].until = asked[evtlist[j].who].until
           /\ evtlist[j].kind = "timer" => fire_time'[evtlist[j].who] = fire_time[evtlist[j].who]
    BY <1>8
  <2> QED BY <1>0, <1>2, <1>7, <2>1, TimesStep
<1> QED BY <1>2, <1>3, <1>4, <1>6, <1>9

LEMMA ProcessStep ==
  ASSUME IInv, NEW i \in DOMAIN evtlist, TakeEvent(i), evtlist[i].kind = "process"
  PROVE  IInv'
<1> DEFINE p == evtlist[i].who
<1>0. TypeOK /\ States /\ Ready /\ Lists /\ Activity /\ Order /\ Places /\ Events /\ InLine
        /\ Times /\ Asked
  BY DEF IInv
<1>1. PICK r : /\ p \in Process /\ Turns(p, r) /\ r = [process[p] EXCEPT !.state = "running"]
               /\ channel' = channel /\ evtlist' = RemoveAt(evtlist, i)
               /\ active_processes' = Append(active_processes, p)
  BY StartsFrame
<1>2. /\ context = "timeline" /\ active_processes = <<>> /\ IsFirst(i)
      /\ simclock' = evtlist[i].time /\ order' = order
      /\ UNCHANGED <<arrivals, context, sem_count, blocked_processes, timers, calls, asked>>
  BY DEF TakeEvent, Idle
<1>3. /\ Edited(evtlist, evtlist', {i}, {})
      /\ evtlist' \in Seq(KernelEvent) /\ Unique(evtlist')
      /\ \A j \in DOMAIN evtlist' :
           evtlist'[j].who \in (IF evtlist'[j].kind = "timer" THEN Timer ELSE Process)
      /\ \A kind, x : HasEvent(kind, x)' <=>
           HasEvent(kind, x) /\ ~("process" = kind /\ p = x)
      /\ Times' /\ simclock' \in Nat
  BY <1>1, <1>2, Takes DEF timers
<1>4. process[p].state = "creating"
  BY <1>0, <1>1 DEF Events, HasEvent
<1>5. process[p] \in ProcessType /\ StateOK(process[p])
  BY <1>0, <1>1, Types DEF States
<1>6. /\ r.state = "running" /\ r.waiton = process[p].waiton /\ SameContext(p, r)
      /\ r.hold_event = process[p].hold_event /\ StateOK(r)
  BY <1>1, <1>4, <1>5 DEF ProcessType, SameContext, StateOK
<1> HIDE DEF p
<1>7. /\ process' \in [Process -> ProcessType] /\ process'[p] = r
      /\ \A q \in Process : q # p => process'[q] = process[q]
  BY <1>0, <1>1, TurnsIs
<1>8. active_processes' \in Seq(Process)
  BY <1>0, <1>1, Types
<1>9. TypeOK'
  BY <1>0, <1>1, <1>2, <1>3, <1>7, <1>8 DEF TypeOK, timers
<1>10. States'
  BY <1>0, <1>1, <1>6, StatesStep
<1>11. Ready'
  BY <1>0, <1>1, <1>2, <1>6, ReadyWoken
<1>12. Lists'
  BY <1>0, <1>1, <1>6, ListsKept DEF ListsStay
<1>13. Activity'
  <2>1. \A q \in Process : process[q].state # "running"
    BY <1>2, NobodyRuns
  <2>2. ActivityStays
    BY <1>1 DEF ActivityStays
  <2> QED BY <1>0, <1>1, <1>6, <2>1, <2>2, ActivityKept
<1>14. Order' /\ SameOrder /\ \A q : IsReleased(q)' <=> IsReleased(q)
  <2>1. UNCHANGED semaphores
    BY <1>2 DEF semaphores
  <2> QED BY <1>0, <2>1, OrderKept
<1>15. Places'
  BY <1>0, <1>1, <1>2, <1>4, NotPlaced, PlacesKept
<1>16. Events'
  <2>1. \A q \in Process :
          /\ HasEvent("process", q)' <=> process'[q].state = "creating"
          /\ HasEvent("hold", q)' <=> process'[q].hold_event
          /\ HasEvent("semaphore", q)' <=> IsReleased(q)'
    BY <1>0, <1>3, <1>6, <1>7, <1>14 DEF Events
  <2>2. \A t \in Timer : HasEvent("timer", t)' <=> timer_event'[t]
    BY <1>0, <1>2, <1>3 DEF Events, timers
  <2> QED BY <1>3, <2>1, <2>2 DEF Events, Unique
<1>17. InLine'
  BY <1>0, <1>3, <1>14, InLineKept
<1>18. Asked'
  BY <1>0, <1>1, <1>2, <1>6, AskedKept
<1> QED BY <1>3, <1>9, <1>10, <1>11, <1>12, <1>13, <1>14, <1>15, <1>16, <1>17, <1>18 DEF IInv

LEMMA TimeoutStep ==
  ASSUME IInv, NEW i \in DOMAIN evtlist, TakeEvent(i), evtlist[i].kind = "hold"
  PROVE  IInv'
<1> DEFINE p == evtlist[i].who
<1>0. TypeOK /\ States /\ Ready /\ Lists /\ Activity /\ Order /\ Places /\ Events /\ InLine
        /\ Times /\ Asked
  BY DEF IInv
<1>1. PICK r : /\ p \in Process /\ process[p].state = "waiting" /\ process[p].hold_event
               /\ Turns(p, r) /\ SameContext(p, r)
               /\ r.state = "running" /\ ~r.hold_event /\ r.waiton = {}
               /\ ~r.static_sensitivity /\ r.process_timedout
               /\ LeavesLists(p) /\ ActivityStays /\ channel' \in [inChannel -> ChannelType]
               /\ evtlist' = RemoveAt(evtlist, i)
               /\ active_processes' = Append(active_processes, p)
  BY TimeoutFrame
<1>2. /\ context = "timeline" /\ active_processes = <<>> /\ IsFirst(i)
      /\ simclock' = evtlist[i].time /\ order' = order
      /\ UNCHANGED <<arrivals, context, sem_count, blocked_processes, timers, calls, asked>>
  BY DEF TakeEvent, Idle
<1>3. /\ Edited(evtlist, evtlist', {i}, {})
      /\ evtlist' \in Seq(KernelEvent) /\ Unique(evtlist')
      /\ \A j \in DOMAIN evtlist' :
           evtlist'[j].who \in (IF evtlist'[j].kind = "timer" THEN Timer ELSE Process)
      /\ \A kind, x : HasEvent(kind, x)' <=>
           HasEvent(kind, x) /\ ~("hold" = kind /\ p = x)
      /\ Times' /\ simclock' \in Nat
  BY <1>1, <1>2, Takes DEF timers
<1>6. StateOK(r)
  BY <1>1 DEF StateOK
<1> HIDE DEF p
<1>7. /\ process' \in [Process -> ProcessType] /\ process'[p] = r
      /\ \A q \in Process : q # p => process'[q] = process[q]
  BY <1>0, <1>1, TurnsIs
<1>8. active_processes' \in Seq(Process)
  BY <1>0, <1>1, Types
<1>9. TypeOK'
  BY <1>0, <1>1, <1>2, <1>3, <1>7, <1>8 DEF TypeOK, timers
<1>10. States'
  BY <1>0, <1>1, <1>6, StatesStep
<1>11. Ready'
  BY <1>0, <1>1, <1>2, <1>6, ReadyWoken
<1>12. Lists'
  BY <1>0, <1>1, ListsLeft
<1>13. Activity'
  <2>1. \A q \in Process : process[q].state # "running"
    BY <1>2, NobodyRuns
  <2> QED BY <1>0, <1>1, <2>1, ActivityKept
<1>14. Order' /\ SameOrder /\ \A q : IsReleased(q)' <=> IsReleased(q)
  <2>1. UNCHANGED semaphores
    BY <1>2 DEF semaphores
  <2> QED BY <1>0, <2>1, OrderKept
<1>15. Places'
  BY <1>0, <1>1, <1>2, NotPlaced, PlacesKept
<1>16. Events'
  <2>1. \A q \in Process :
          /\ HasEvent("process", q)' <=> process'[q].state = "creating"
          /\ HasEvent("hold", q)' <=> process'[q].hold_event
          /\ HasEvent("semaphore", q)' <=> IsReleased(q)'
    BY <1>0, <1>1, <1>3, <1>7, <1>14 DEF Events
  <2>2. \A t \in Timer : HasEvent("timer", t)' <=> timer_event'[t]
    BY <1>0, <1>2, <1>3 DEF Events, timers
  <2> QED BY <1>3, <2>1, <2>2 DEF Events, Unique
<1>17. InLine'
  BY <1>0, <1>3, <1>14, InLineKept
<1>18. Asked'
  BY <1>0, <1>1, <1>2, AskedKept
<1> QED BY <1>3, <1>9, <1>10, <1>11, <1>12, <1>13, <1>14, <1>15, <1>16, <1>17, <1>18 DEF IInv

\* The process that goes on is the first one in the order of its semaphore.
LEMMA PassFrame ==
  ASSUME IInv, NEW i \in DOMAIN evtlist, TakeEvent(i), evtlist[i].kind = "semaphore"
  PROVE  LET p == evtlist[i].who IN
         \E r \in Semaphore :
           /\ Passing(r) >= 1 /\ order[r] # <<>> /\ order[r][1] = p
           /\ order' \in [Semaphore -> Seq(Process)]
           /\ Len(order'[r]) = Len(order[r]) - 1
           /\ \A k \in 1 .. (Len(order[r]) - 1) : order'[r][k] = order[r][k + 1]
           /\ \A s \in Semaphore : s # r => order'[s] = order[s]
<1> DEFINE p == evtlist[i].who
<1>0. TypeOK /\ Order /\ Places /\ Events /\ InLine /\ Times
  BY DEF IInv
<1>1. p \in Process /\ HasEvent("semaphore", p) /\ IsFirst(i)
  BY <1>0 DEF Events, HasEvent, TakeEvent
<1>2. PICK r \in Semaphore : \E k \in 1 .. Passing(r) : order[r][k] = p
  BY <1>0, <1>1 DEF Events, IsReleased
<1>3. PICK k \in 1 .. Passing(r) : order[r][k] = p
  BY <1>2
<1>4. /\ order[r] \in Seq(Process) /\ Passing(r) \in Int /\ Passing(r) <= Len(order[r])
      /\ order \in [Semaphore -> Seq(Process)]
  BY <1>0 DEF TypeOK, Passing
<1>5. k = 1
  <2> SUFFICES ASSUME k # 1 PROVE FALSE
    OBVIOUS
  <2>1. 1 \in 1 .. Passing(r) /\ 1 < k
    BY <1>4
  <2>2. order[r][1] \in Process
    BY <1>4, <2>1
  <2>3. IsReleased(order[r][1])
    BY <2>1 DEF IsReleased
  <2>4. HasEvent("semaphore", order[r][1])
    BY <1>0, <2>2, <2>3 DEF Events
  <2>5. PICK j \in DOMAIN evtlist : Turn(order[r][1], j)
    BY <2>4 DEF HasEvent, Turn
  <2>6. Turn(order[r][k], i)
    BY <1>3 DEF Turn
  <2>7. j < i
    BY <1>0, <2>1, <2>5, <2>6 DEF InLine
  <2>8. evtlist[i].time = simclock /\ evtlist[j].time = simclock
    BY <1>0, <2>5 DEF Times, Turn
  <2>9. simclock \in Nat /\ i \in Nat /\ j \in Nat
    BY <1>0, Types DEF TypeOK
  <2>10. Before(i, j) \/ i = j
    BY <1>1 DEF IsFirst
  <2> QED BY <2>7, <2>8, <2>9, <2>10 DEF Before
<1>6. order[r] # <<>> /\ order[r][1] = p /\ Passing(r) >= 1
  BY <1>3, <1>4, <1>5
<1>7. \A s \in Semaphore : s # r => ~Holds(order[s], p)
  <2> SUFFICES ASSUME NEW s \in Semaphore, s # r, NEW l \in DOMAIN order[s], order[s][l] = p
               PROVE  FALSE
    BY DEF Holds
  <2>1. 1 \in DOMAIN order[r]
    BY <1>4, <1>6
  <2> QED BY <1>0, <1>6, <2>1 DEF Places
<1>8. order' = [s \in Semaphore |-> RemoveFirst(order[s], p)]
  BY DEF TakeEvent
<1> HIDE DEF p
<1>9. \A s \in Semaphore : s # r => RemoveFirst(order[s], p) = order[s]
  BY <1>4, <1>7, RemoveAbsent
<1>10. /\ RemoveFirst(order[r], p) \in Seq(Process)
       /\ Len(RemoveFirst(order[r], p)) = Len(order[r]) - 1
       /\ \A l \in 1 .. (Len(order[r]) - 1) : RemoveFirst(order[r], p)[l] = order[r][l + 1]
  BY <1>4, <1>6, RemoveHead
<1>11. \A s \in Semaphore : RemoveFirst(order[s], p) \in Seq(Process)
  BY <1>4, <1>9, <1>10
<1>12. order' \in [Semaphore -> Seq(Process)]
  BY <1>8, <1>11
<1> QED BY <1>6, <1>8, <1>9, <1>10, <1>12 DEF p

LEMMA PassStep ==
  ASSUME IInv, NEW i \in DOMAIN evtlist, TakeEvent(i), evtlist[i].kind = "semaphore"
  PROVE  IInv'
<1> DEFINE p == evtlist[i].who
<1>0. TypeOK /\ States /\ Ready /\ Lists /\ Activity /\ Order /\ Places /\ Events /\ InLine
        /\ Times /\ Asked
  BY DEF IInv
<1>1. PICK r : /\ p \in Process /\ Turns(p, r) /\ r = [process[p] EXCEPT !.state = "running"]
               /\ channel' = channel /\ evtlist' = RemoveAt(evtlist, i)
               /\ active_processes' = Append(active_processes, p)
  BY StartsFrame
<1>2. /\ context = "timeline" /\ active_processes = <<>> /\ IsFirst(i)
      /\ simclock' = evtlist[i].time
      /\ UNCHANGED <<arrivals, context, sem_count, blocked_processes, timers, calls, asked>>
  BY DEF TakeEvent, Idle
<1>3. /\ Edited(evtlist, evtlist', {i}, {})
      /\ evtlist' \in Seq(KernelEvent) /\ Unique(evtlist')
      /\ \A j \in DOMAIN evtlist' :
           evtlist'[j].who \in (IF evtlist'[j].kind = "timer" THEN Timer ELSE Process)
      /\ \A kind, x : HasEvent(kind, x)' <=>
           HasEvent(kind, x) /\ ~("semaphore" = kind /\ p = x)
      /\ Times' /\ simclock' \in Nat
  BY <1>1, <1>2, Takes DEF timers
<1>4. PICK z \in Semaphore :
           /\ Passing(z) >= 1 /\ order[z] # <<>> /\ order[z][1] = p
           /\ order' \in [Semaphore -> Seq(Process)]
           /\ Len(order'[z]) = Len(order[z]) - 1
           /\ \A k \in 1 .. (Len(order[z]) - 1) : order'[z][k] = order[z][k + 1]
           /\ \A s \in Semaphore : s # z => order'[s] = order[s]
  BY PassFrame
<1>5. /\ order \in [Semaphore -> Seq(Process)] /\ 1 \in DOMAIN order[z]
      /\ blocked_processes \in [Semaphore -> Seq(Process)] /\ blocked_processes' = blocked_processes
      /\ sem_count' = sem_count
  BY <1>0, <1>2, <1>4 DEF TypeOK
<1>6. /\ process[p].state = "waiting" /\ process[p].waiton = {}
      /\ ~process[p].static_sensitivity /\ ~process[p].hold_event
  BY <1>0, <1>4, <1>5 DEF Places
<1>7. process[p] \in ProcessType /\ StateOK(process[p])
  BY <1>0, <1>1, Types DEF States
<1>8. /\ r.state = "running" /\ r.waiton = process[p].waiton /\ SameContext(p, r)
      /\ r.hold_event = process[p].hold_event /\ StateOK(r)
  BY <1>1, <1>6, <1>7 DEF ProcessType, SameContext, StateOK
<1> HIDE DEF p
<1>9. /\ process' \in [Process -> ProcessType] /\ process'[p] = r
      /\ \A q \in Process : q # p => process'[q] = process[q]
  BY <1>0, <1>1, TurnsIs
<1>10. TypeOK'
  <2>1. active_processes' \in Seq(Process)
    BY <1>0, <1>1, Types
  <2> QED BY <1>0, <1>1, <1>2, <1>3, <1>4, <1>9, <2>1 DEF TypeOK, timers
<1>11. States'
  BY <1>0, <1>1, <1>8, StatesStep
<1>12. Ready'
  BY <1>0, <1>1, <1>2, <1>8, ReadyWoken
<1>13. Lists'
  BY <1>0, <1>1, <1>8, ListsKept DEF ListsStay
<1>14. Activity'
  <2>1. \A q \in Process : process[q].state # "running"
    BY <1>2, NobodyRuns
  <2>2. ActivityStays
    BY <1>1 DEF ActivityStays
  <2> QED BY <1>0, <1>1, <1>8, <2>1, <2>2, ActivityKept
<1>15. \A s \in Semaphore : Passing(s)' = IF s = z THEN Passing(s) - 1 ELSE Passing(s)
  BY <1>4, <1>5 DEF Passing
<1>16. \A s \in Semaphore : /\ Passing(s) \in Int /\ Passing(s) >= 0 /\ Passing(s) <= Len(order[s])
                            /\ Len(order[s]) \in Nat /\ DOMAIN order[s] = 1 .. Len(order[s])
                            /\ Len(order'[s]) \in Nat /\ DOMAIN order'[s] = 1 .. Len(order'[s])
  BY <1>0, <1>4, <1>5 DEF Passing, Order
<1> DEFINE At(s, k) == IF s = z THEN k + 1 ELSE k
<1>17. \A s \in Semaphore : \A k \in DOMAIN order'[s] :
          At(s, k) \in DOMAIN order[s] /\ order'[s][k] = order[s][At(s, k)]
  BY <1>4, <1>16
<1>18. \A s \in Semaphore : \A k \in DOMAIN order'[s] : order'[s][k] # p
  <2> SUFFICES ASSUME NEW s \in Semaphore, NEW k \in DOMAIN order'[s], order'[s][k] = p
               PROVE  FALSE
    OBVIOUS
  <2>1. s = z /\ At(s, k) = 1
    BY <1>0, <1>4, <1>5, <1>17 DEF Places
  <2> QED BY <1>16, <2>1
<1>19. Order'
  <2>1. ASSUME NEW s \in Semaphore
        PROVE  /\ Passing(s)' >= 0
               /\ blocked_processes[s] = SubSeq(order'[s], Passing(s)' + 1, Len(order'[s]))
               /\ Blocks(s, Len(blocked_processes[s]), sem_count[s])
    <3>1. /\ Passing(s) >= 0
          /\ blocked_processes[s] = SubSeq(order[s], Passing(s) + 1, Len(order[s]))
          /\ Blocks(s, Len(blocked_processes[s]), sem_count[s])
      BY <1>0 DEF Order
    <3>2. CASE s # z
      <4>1. order'[s] = order[s] /\ Passing(s)' = Passing(s)
        BY <1>4, <1>15, <3>2
      <4> QED BY <3>1, <4>1
    <3>3. CASE s = z
      <4>1. Passing(s) \in 1 .. Len(order[s])
        BY <1>4, <1>16, <3>3
      <4>2. /\ order[s] \in Seq(Process) /\ order'[s] \in Seq(Process)
            /\ Len(order'[s]) = Len(order[s]) - 1
            /\ \A k \in 1 .. (Len(order[s]) - 1) : order'[s][k] = order[s][k + 1]
        BY <1>4, <1>5, <3>3
      <4>3. SubSeq(order[s], Passing(s) + 1, Len(order[s]))
              = SubSeq(order'[s], Passing(s), Len(order'[s]))
        BY <4>1, <4>2, SubSeqShift
      <4>4. Passing(s)' = Passing(s) - 1 /\ (Passing(s) - 1) + 1 = Passing(s)
        BY <1>15, <1>16, <3>3
      <4>5. Passing(s)' + 1 = Passing(s) /\ Passing(s)' >= 0
        BY <1>15, <1>16, <3>3, <4>1
      <4>6. SubSeq(order'[s], Passing(s)' + 1, Len(order'[s]))
              = SubSeq(order'[s], Passing(s), Len(order'[s]))
        BY <4>5, Zenon
      <4> QED BY <3>1, <4>3, <4>5, <4>6, Zenon
    <3> QED BY <3>2, <3>3
  <2> QED BY <1>5, <2>1 DEF Order
<1>20. Places'
  <2>1. ASSUME NEW s \in Semaphore, NEW t \in Semaphore,
               NEW k \in DOMAIN order'[s], NEW l \in DOMAIN order'[t], order'[s][k] = order'[t][l]
        PROVE  s = t /\ k = l
    <3>1. s = t /\ At(s, k) = At(t, l)
      BY <1>0, <1>17, <2>1 DEF Places
    <3> QED BY <1>16, <3>1
  <2>2. ASSUME NEW s \in Semaphore, NEW k \in DOMAIN order'[s]
        PROVE  LET q == process'[order'[s][k]] IN
               q.state = "waiting" /\ q.waiton = {} /\ ~q.static_sensitivity /\ ~q.hold_event
    <3>1. order'[s][k] \in Process
      BY <1>4
    <3>2. process'[order'[s][k]] = process[order[s][At(s, k)]]
      BY <1>9, <1>17, <1>18, <3>1
    <3> QED BY <1>0, <1>17, <3>2 DEF Places
  <2> QED BY <2>1, <2>2 DEF Places
<1>21. \A q : IsReleased(q)' <=> IsReleased(q) /\ q # p
  <2> SUFFICES ASSUME NEW q PROVE IsReleased(q)' <=> IsReleased(q) /\ q # p
    OBVIOUS
  <2>1. ASSUME IsReleased(q)' PROVE IsReleased(q) /\ q # p
    <3>1. PICK s \in Semaphore : \E k \in 1 .. Passing(s)' : order'[s][k] = q
      BY <2>1 DEF IsReleased
    <3>2. PICK k \in 1 .. Passing(s)' : order'[s][k] = q
      BY <3>1
    <3>3. k \in DOMAIN order'[s]
      BY <1>4, <1>15, <1>16
    <3>4. At(s, k) \in 1 .. Passing(s)
      BY <1>15, <1>16
    <3> QED BY <1>17, <1>18, <3>2, <3>3, <3>4 DEF IsReleased
  <2>2. ASSUME IsReleased(q), q # p PROVE IsReleased(q)'
    <3>1. PICK s \in Semaphore : \E k \in 1 .. Passing(s) : order[s][k] = q
      BY <2>2 DEF IsReleased
    <3>2. PICK k \in 1 .. Passing(s) : order[s][k] = q
      BY <3>1
    <3> DEFINE l == IF s = z THEN k - 1 ELSE k
    <3>3. s = z => k # 1
      BY <1>4, <2>2, <3>2
    <3>4. l \in 1 .. Passing(s)' /\ l \in DOMAIN order'[s] /\ At(s, l) = k
      BY <1>4, <1>15, <1>16, <3>3
    <3> QED BY <1>17, <3>2, <3>4 DEF IsReleased
  <2> QED BY <2>1, <2>2
<1>22. Events'
  <2>1. \A q \in Process :
          /\ HasEvent("process", q)' <=> process'[q].state = "creating"
          /\ HasEvent("hold", q)' <=> process'[q].hold_event
          /\ HasEvent("semaphore", q)' <=> IsReleased(q)'
    BY <1>0, <1>3, <1>6, <1>8, <1>9, <1>21 DEF Events
  <2>2. \A t \in Timer : HasEvent("timer", t)' <=> timer_event'[t]
    BY <1>0, <1>2, <1>3 DEF Events, timers
  <2> QED BY <1>3, <2>1, <2>2 DEF Events, Unique
<1>23. InLine'
  <2>1. ASSUME NEW s \in Semaphore, NEW k \in 1 .. Passing(s)', NEW l \in 1 .. Passing(s)', k < l
        PROVE  \E m, n \in 1 .. Passing(s) :
                /\ m < n /\ order'[s][k] = order[s][m] /\ order'[s][l] = order[s][n]
                /\ ~Comes({}, "semaphore", order[s][m]) /\ ~Comes({}, "semaphore", order[s][n])
    <3>1. /\ At(s, k) \in 1 .. Passing(s) /\ At(s, l) \in 1 .. Passing(s)
          /\ At(s, k) < At(s, l) /\ k \in DOMAIN order'[s] /\ l \in DOMAIN order'[s]
      BY <1>4, <1>15, <1>16, <2>1
    <3> HIDE DEF At
    <3> QED BY <1>17, <3>1 DEF Comes
  <2> QED BY <1>0, <1>3, <2>1, InLineStep
<1>24. Asked'
  BY <1>0, <1>1, <1>2, <1>8, AskedKept
<1> QED BY <1>3, <1>10, <1>11, <1>12, <1>13, <1>14, <1>19, <1>20, <1>22, <1>23, <1>24 DEF IInv

LEMMA TimerStep ==
  ASSUME IInv, NEW i \in DOMAIN evtlist, TimerFires(i)
  PROVE  IInv'
<1> DEFINE t == evtlist[i].who
<1>0. TypeOK /\ States /\ Ready /\ Lists /\ Activity /\ Order /\ Places /\ Events /\ InLine
        /\ Times /\ Asked
  BY DEF IInv
<1>1. /\ context = "timeline" /\ active_processes = <<>> /\ IsFirst(i) /\ evtlist[i].kind = "timer"
      /\ simclock' = evtlist[i].time
      /\ timer_event' = [timer_event EXCEPT ![t] = FALSE]
      /\ uncalled' = (IF t \in WithFunction THEN uncalled \cup {t} ELSE uncalled)
      /\ context' = (IF t \in WithFunction THEN context ELSE "callback")
      /\ UNCHANGED <<arrivals, semaphores, fire_time, calls, asked>>
      /\ Becomes(Popped(i))
  BY DEF TimerFires, Idle
<1>2. /\ process' = process /\ channel' = channel /\ active_processes' = active_processes
      /\ evtlist' = RemoveAt(evtlist, i)
  BY <1>0, <1>1, PoppedIs, BecomesIs
<1>3. /\ Edited(evtlist, evtlist', {i}, {})
      /\ evtlist' \in Seq(KernelEvent) /\ Unique(evtlist')
      /\ \A j \in DOMAIN evtlist' :
           evtlist'[j].who \in (IF evtlist'[j].kind = "timer" THEN Timer ELSE Process)
      /\ \A kind, x : HasEvent(kind, x)' <=>
           HasEvent(kind, x) /\ ~("timer" = kind /\ t = x)
      /\ Times' /\ simclock' \in Nat
  BY <1>1, <1>2, Takes
<1>4. t \in Timer
  BY <1>0, <1>1 DEF Events
<1> HIDE DEF t
<1>5. TypeOK'
  BY <1>0, <1>1, <1>2, <1>3, <1>4 DEF TypeOK, semaphores
<1>6. States' /\ Lists' /\ Activity' /\ Ready'
  <2>1. UNCHANGED <<process, channel, active_processes>>
    BY <1>2
  <2> QED BY <1>1, <2>1, QuietStep
<1>7. Order' /\ SameOrder /\ order' = order /\ \A q : IsReleased(q)' <=> IsReleased(q)
  BY <1>0, <1>1, OrderKept
<1>8. Places'
  BY <1>0, <1>2, <1>7 DEF Places
<1>9. Events'
  <2>1. \A q \in Process :
          /\ HasEvent("process", q)' <=> process'[q].state = "creating"
          /\ HasEvent("hold", q)' <=> process'[q].hold_event
          /\ HasEvent("semaphore", q)' <=> IsReleased(q)'
    BY <1>0, <1>2, <1>3, <1>7 DEF Events
  <2>2. \A x \in Timer : HasEvent("timer", x)' <=> timer_event'[x]
    <3> SUFFICES ASSUME NEW x \in Timer PROVE HasEvent("timer", x)' <=> timer_event'[x]
      OBVIOUS
    <3>1. HasEvent("timer", x) <=> timer_event[x]
      BY <1>0 DEF Events
    <3>2. timer_event \in [Timer -> BOOLEAN]
      BY <1>0 DEF TypeOK
    <3> QED BY <1>1, <1>3, <3>1, <3>2
  <2> QED BY <1>3, <2>1, <2>2 DEF Events, Unique
<1>10. InLine'
  BY <1>0, <1>3, <1>7, InLineKept
<1>11. Asked'
  BY <1>0, <1>1, <1>2 DEF Asked
<1> QED BY <1>3, <1>5, <1>6, <1>7, <1>8, <1>9, <1>10, <1>11 DEF IInv

\* Nothing changes in the list of events, nor in what else the events depend on.
LEMMA EventsKept ==
  ASSUME IInv, evtlist' = evtlist, UNCHANGED <<arrivals, simclock, semaphores, timer_event, fire_time>>,
         \A p \in Process : /\ process'[p].state = "creating" <=> process[p].state = "creating"
                            /\ process'[p].hold_event <=> process[p].hold_event
                            /\ process[p].hold_event => asked'[p].until = asked[p].until
  PROVE  Order' /\ Events' /\ InLine' /\ Times' /\ order' = order
<1>0. TypeOK /\ Order /\ Places /\ Events /\ InLine /\ Times
  BY DEF IInv
<1>1. Order' /\ SameOrder /\ order' = order /\ \A q : IsReleased(q)' <=> IsReleased(q)
  BY <1>0, OrderKept
<1>2. \A kind, x : HasEvent(kind, x)' <=> HasEvent(kind, x)
  BY DEF HasEvent
<1>3. Events'
  <2>1. \A q \in Process :
          /\ HasEvent("process", q)' <=> process'[q].state = "creating"
          /\ HasEvent("hold", q)' <=> process'[q].hold_event
          /\ HasEvent("semaphore", q)' <=> IsReleased(q)'
    BY <1>0, <1>1, <1>2 DEF Events
  <2>2. \A t \in Timer : HasEvent("timer", t)' <=> timer_event'[t]
    BY <1>0, <1>2 DEF Events
  <2>3. /\ \A i, j \in DOMAIN evtlist' : evtlist'[i].kind = evtlist'[j].kind
                                          /\ evtlist'[i].who = evtlist'[j].who => i = j
        /\ \A i \in DOMAIN evtlist' :
             evtlist'[i].who \in (IF evtlist'[i].kind = "timer" THEN Timer ELSE Process)
    BY <1>0 DEF Events
  <2> QED BY <2>1, <2>2, <2>3 DEF Events
<1>4. Edited(evtlist, evtlist', {}, {}) /\ Unique(evtlist')
  <2>1. evtlist \in Seq(KernelEvent) /\ Unique(evtlist)
    BY <1>0, Types DEF Events, Unique
  <2>2. Edited(evtlist, evtlist, {}, {})
    BY <2>1, EditedNone
  <2> QED BY <2>1, <2>2
<1>5. InLine'
  BY <1>0, <1>1, <1>4, InLineKept
<1>6. Times'
  <2>1. \A i \in DOMAIN evtlist : evtlist[i].kind = "hold" =>
          asked'[evtlist[i].who].until = asked[evtlist[i].who].until
    <3> SUFFICES ASSUME NEW i \in DOMAIN evtlist, evtlist[i].kind = "hold"
                 PROVE  asked'[evtlist[i].who].until = asked[evtlist[i].who].until
      OBVIOUS
    <3>1. evtlist[i].who \in Process /\ HasEvent("hold", evtlist[i].who)
      BY <1>0 DEF Events, HasEvent
    <3> QED BY <1>0, <3>1 DEF Events
  <2> QED BY <1>0, <2>1 DEF Times
<1> QED BY <1>1, <1>3, <1>5, <1>6

LEMMA ReturnStep ==
  ASSUME IInv, CallbackReturns
  PROVE  IInv'
<1>0. TypeOK /\ Places /\ Asked
  BY DEF IInv
<1>1. /\ context' = "timeline" /\ process' = process /\ channel' = channel /\ evtlist' = evtlist
      /\ active_processes' = active_processes /\ asked' = asked
      /\ UNCHANGED <<arrivals, simclock, semaphores, timers, calls>>
  BY DEF CallbackReturns, scheduling
<1>2. TypeOK'
  BY <1>0, <1>1 DEF TypeOK, semaphores, timers
<1>3. States' /\ Lists' /\ Activity' /\ Ready'
  <2>1. States'
    BY <1>1 DEF IInv, States
  <2>2. Lists'
    BY <1>1 DEF IInv, Lists
  <2>3. Activity'
    <3>1. \A ic \in inChannel : ActivatedBy(ic)' = ActivatedBy(ic)
      BY <1>1 DEF ActivatedBy
    <3> QED BY <1>1, <3>1 DEF IInv, Activity
  <2>4. Ready'
    BY <1>1 DEF IInv, Ready
  <2> QED BY <2>1, <2>2, <2>3, <2>4
<1>4. Order' /\ Events' /\ InLine' /\ Times' /\ order' = order
  BY <1>1, EventsKept DEF timers
<1>5. Places' /\ Asked'
  BY <1>0, <1>1, <1>4 DEF Places, Asked
<1> QED BY <1>2, <1>3, <1>4, <1>5 DEF IInv

-----------------------------------------------------------------------------
(* A process that is woken up, or goes on, waits for nothing any more.     *)

\* The timeout of p in a list of events.
HoldsOf(E, p) == {j \in DOMAIN E : E[j].kind = "hold" /\ E[j].who = p}

LEMMA HoldCancelled ==
  ASSUME NEW S \in StateType, NEW p \in Process, Unique(S.evtlist),
         S.process[p].hold_event <=> HoldsOf(S.evtlist, p) # {}
  PROVE  LET T == cancel_hold(S, p) IN
         /\ T \in StateType
         /\ T.process = [S.process EXCEPT ![p] = [S.process[p] EXCEPT !.hold_event = FALSE]]
         /\ T.channel = S.channel /\ T.active_processes = S.active_processes
         /\ Without(S.evtlist, T.evtlist, HoldsOf(S.evtlist, p))
<1> DEFINE T == cancel_hold(S, p)
           q == [S.process[p] EXCEPT !.hold_event = FALSE]
           P == [S.process EXCEPT ![p] = q]
           A == [S EXCEPT !.process[p].hold_event = FALSE]
<1>1. /\ S.process \in [Process -> ProcessType] /\ S.process[p] \in ProcessType
      /\ S.evtlist \in Seq(KernelEvent)
  BY DEF StateType
<1>2. CASE ~S.process[p].hold_event
  <2>1. T = S
    BY <1>2 DEF cancel_hold
  <2>2. q = S.process[p]
    BY <1>1, <1>2 DEF ProcessType
  <2>3. P = S.process
    <3> HIDE DEF q
    <3> QED BY <1>1, <2>2
  <2>4. Without(S.evtlist, S.evtlist, HoldsOf(S.evtlist, p))
    BY <1>1, <1>2, WithoutNone
  <2> HIDE DEF T, P, q
  <2>5. T \in StateType /\ T.process = P /\ T.channel = S.channel
        /\ T.active_processes = S.active_processes
        /\ Without(S.evtlist, T.evtlist, HoldsOf(S.evtlist, p))
    BY <2>1, <2>3, <2>4
  <2> QED BY <2>5 DEF T, P, q
<1>3. CASE S.process[p].hold_event
  <2>1. T = cancel_event(A, "hold", p)
    BY <1>3 DEF cancel_hold
  <2>2. q \in ProcessType
    BY <1>1 DEF ProcessType
  <2>3. A = [S EXCEPT !.process = P]
    BY DEF StateType
  <2>4. P \in [Process -> ProcessType]
    <3> HIDE DEF q
    <3> QED BY <1>1, <2>2
  <2> HIDE DEF T, P, q, A
  <2>5. A \in StateType /\ A.process = P /\ A.channel = S.channel
        /\ A.active_processes = S.active_processes /\ A.evtlist = S.evtlist
    BY <2>3, <2>4 DEF StateType
  <2>6. PICK i \in DOMAIN S.evtlist : S.evtlist[i].kind = "hold" /\ S.evtlist[i].who = p
    BY <1>3 DEF HoldsOf
  <2>7. HoldsOf(S.evtlist, p) = {i}
    BY <2>6 DEF HoldsOf, Unique
  <2>8. \A j \in DOMAIN A.evtlist : A.evtlist[j].kind = "hold" /\ A.evtlist[j].who = p => j = i
    BY <2>5, <2>6 DEF Unique
  <2>9. T = [A EXCEPT !.evtlist = RemoveAt(A.evtlist, i)] /\ T \in StateType
    BY <2>1, <2>5, <2>6, <2>8, CancelIs
  <2>10. Without(S.evtlist, RemoveAt(S.evtlist, i), {i})
    BY <1>1, <2>6, WithoutOne
  <2>11. T.process = P /\ T.channel = S.channel /\ T.active_processes = S.active_processes
         /\ T.evtlist = RemoveAt(S.evtlist, i)
    <3> DEFINE e == RemoveAt(S.evtlist, i)
    <3>1. T = [A EXCEPT !.evtlist = e]
      BY <2>5, <2>9
    <3> HIDE DEF e
    <3>2. T.process = P /\ T.channel = S.channel /\ T.active_processes = S.active_processes
          /\ T.evtlist = e
      BY <2>5, <3>1 DEF StateType
    <3> QED BY <3>2 DEF e
  <2> QED BY <2>7, <2>9, <2>10, <2>11 DEF T, P, q
<1> QED BY <1>2, <1>3

LEMMA HoldEvents ==
  ASSUME IInv, NEW p \in Process
  PROVE  /\ Unique(evtlist)
         /\ process[p].hold_event <=> HoldsOf(evtlist, p) # {}
         /\ HoldsOf(evtlist, p) \in SUBSET DOMAIN evtlist
         /\ \A kind, x : Gone(HoldsOf(evtlist, p), kind, x) <=>
              kind = "hold" /\ x = p /\ process[p].hold_event
<1>1. Unique(evtlist) /\ (process[p].hold_event <=> HasEvent("hold", p))
  BY DEF IInv, Events, Unique
<1>2. HasEvent("hold", p) <=> HoldsOf(evtlist, p) # {}
  BY DEF HasEvent, HoldsOf
<1>3. HoldsOf(evtlist, p) \in SUBSET DOMAIN evtlist
  BY DEF HoldsOf
<1>4. ASSUME NEW kind, NEW x
      PROVE  Gone(HoldsOf(evtlist, p), kind, x) <=>
               kind = "hold" /\ x = p /\ HoldsOf(evtlist, p) # {}
  BY DEF Gone, HoldsOf
<1> QED BY <1>1, <1>2, <1>3, <1>4

\* p waits for nothing any more.
Cleared(p) == [process[p] EXCEPT !.hold_event = FALSE, !.waiton = {}, !.static_sensitivity = FALSE]

LEMMA ClearedIs ==
  ASSUME IInv, NEW p \in Process, process[p].state \in {"running", "waiting"}
  PROVE  LET T == clear_pending_wait(State, p) IN
         /\ T \in StateType /\ Cleared(p) \in ProcessType
         /\ T.process = [process EXCEPT ![p] = Cleared(p)]
         /\ T.active_processes = active_processes
         /\ Edited(evtlist, T.evtlist, HoldsOf(evtlist, p), {})
         /\ \A ic \in inChannel :
              /\ T.channel[ic].wait = IF ic \in process[p].waiton
                                      THEN RemoveFirst(channel[ic].wait, p)
                                      ELSE channel[ic].wait
              /\ T.channel[ic].active_event = channel[ic].active_event
              /\ T.channel[ic].processes_activated = channel[ic].processes_activated
<1> DEFINE A == cancel_hold(State, p)
           B == desensitize_inchannels(A, p)
           T == clear_pending_wait(State, p)
           o == [process[p] EXCEPT !.hold_event = FALSE]
           d == [o EXCEPT !.waiton = {}]
<1>1. /\ TypeOK /\ State \in StateType /\ process \in [Process -> ProcessType]
      /\ process[p] \in ProcessType /\ State.process = process /\ State.channel = channel
      /\ State.evtlist = evtlist /\ State.active_processes = active_processes
  BY Types, StateIs DEF IInv
<1>2. /\ A \in StateType /\ A.process = [process EXCEPT ![p] = o]
      /\ A.channel = channel /\ A.active_processes = active_processes
      /\ Without(evtlist, A.evtlist, HoldsOf(evtlist, p))
  <2>1. Unique(State.evtlist) /\ (State.process[p].hold_event <=> HoldsOf(State.evtlist, p) # {})
    BY <1>1, HoldEvents
  <2> HIDE DEF A
  <2> QED BY <1>1, <2>1, HoldCancelled DEF A
<1>3. /\ o.waiton = process[p].waiton /\ process[p].waiton \subseteq inChannel
      /\ o \in ProcessType /\ d \in ProcessType /\ Cleared(p) \in ProcessType
      /\ [d EXCEPT !.static_sensitivity = FALSE] = Cleared(p)
  BY <1>1 DEF ProcessType, Cleared
<1>4. T = [B EXCEPT !.process[p].static_sensitivity = FALSE]
  BY <1>1 DEF clear_pending_wait
<1> HIDE DEF A, B, T, d, o
<1>5. A.process[p] = o
  BY <1>1, <1>2
<1>6. /\ B \in StateType
      /\ B.process = [A.process EXCEPT ![p].waiton = {}]
      /\ B.evtlist = A.evtlist /\ B.active_processes = active_processes
      /\ \A ic \in inChannel :
           /\ B.channel[ic].wait = IF ic \in process[p].waiton
                                   THEN RemoveFirst(channel[ic].wait, p)
                                   ELSE channel[ic].wait
           /\ B.channel[ic].active_event = channel[ic].active_event
           /\ B.channel[ic].processes_activated = channel[ic].processes_activated
  <2>1. \A ic \in process[p].waiton : IsInjective(channel[ic].wait) /\ Holds(channel[ic].wait, p)
    BY <1>3, InLists DEF IInv
  <2>2. A.process[p].waiton = process[p].waiton
    BY <1>3, <1>5
  <2>3. \A ic \in A.process[p].waiton : IsInjective(A.channel[ic].wait)
                                         /\ Holds(A.channel[ic].wait, p)
    BY <1>2, <2>1, <2>2
  <2>4. /\ B \in StateType /\ B.process = [A.process EXCEPT ![p].waiton = {}]
        /\ B.evtlist = A.evtlist /\ B.active_processes = A.active_processes
        /\ \A ic \in inChannel :
             /\ B.channel[ic].wait = IF ic \in A.process[p].waiton
                                     THEN RemoveFirst(A.channel[ic].wait, p)
                                     ELSE A.channel[ic].wait
             /\ B.channel[ic].active_event = A.channel[ic].active_event
             /\ B.channel[ic].processes_activated = A.channel[ic].processes_activated
    <3>1. A \in StateType
      BY <1>2
    <3> QED BY <2>3, <3>1, DesensitizedIs DEF B
  <2> QED BY <1>2, <2>2, <2>4
<1>7. B.process = [process EXCEPT ![p] = d]
  BY <1>1, <1>2, <1>5, <1>6 DEF d
<1> DEFINE P == [process EXCEPT ![p] = Cleared(p)]
<1>8. [B.process EXCEPT ![p].static_sensitivity = FALSE] = P
  BY <1>1, <1>3, <1>7
<1>9. T = [B EXCEPT !.process = P]
  <2>1. T = [B EXCEPT !.process = [B.process EXCEPT ![p].static_sensitivity = FALSE]]
    BY <1>4, <1>6 DEF StateType
  <2> QED BY <1>8, <2>1
<1>10. P \in [Process -> ProcessType]
  BY <1>1, <1>3
<1> HIDE DEF P
<1>11. /\ T \in StateType /\ T.process = P /\ T.channel = B.channel
       /\ T.active_processes = B.active_processes /\ T.evtlist = B.evtlist
  BY <1>6, <1>9, <1>10 DEF StateType
<1>12. Edited(evtlist, T.evtlist, HoldsOf(evtlist, p), {})
  <2>1. T.evtlist \in Seq(KernelEvent) /\ T.evtlist = A.evtlist
    BY <1>6, <1>11 DEF StateType
  <2> QED BY <1>2, <2>1 DEF Edited
<1> QED BY <1>3, <1>6, <1>11, <1>12 DEF T, P

LEMMA ExecuteStep ==
  ASSUME IInv, Execute
  PROVE  IInv' /\ active_processes' = active_processes
<1> DEFINE p == Self
<1>0. TypeOK /\ States /\ Ready /\ Lists /\ Activity /\ Order /\ Places /\ Events /\ InLine
        /\ Times /\ Asked
  BY DEF IInv
<1>1. /\ active_processes # <<>> /\ context = "timeline" /\ context' = "process"
      /\ Becomes(clear_pending_wait(State, p)) /\ asked' = [asked EXCEPT ![p] = Nothing]
      /\ UNCHANGED <<arrivals, simclock, semaphores, timers, calls>>
  BY DEF Execute, Self
<1>2. p \in Process /\ process[p].state = "running" /\ p = Self
  <2>1. active_processes \in Seq(Process) /\ IsInjective(active_processes)
    BY <1>0, Types DEF Ready
  <2>2. p \in Process /\ Holds(active_processes, p)
    BY <1>1, <2>1, ListTail DEF Self
  <2> QED BY <1>0, <2>2 DEF Ready
<1>3. ~process[p].hold_event /\ process[p] \in ProcessType
  BY <1>0, <1>2, Types DEF States, StateOK
<1> HIDE DEF p
<1>4. LET T == clear_pending_wait(State, p) IN
      /\ T \in StateType /\ Cleared(p) \in ProcessType
      /\ T.process = [process EXCEPT ![p] = Cleared(p)]
      /\ T.active_processes = active_processes
      /\ Edited(evtlist, T.evtlist, HoldsOf(evtlist, p), {})
      /\ \A ic \in inChannel :
           /\ T.channel[ic].wait = IF ic \in process[p].waiton
                                   THEN RemoveFirst(channel[ic].wait, p)
                                   ELSE channel[ic].wait
           /\ T.channel[ic].active_event = channel[ic].active_event
           /\ T.channel[ic].processes_activated = channel[ic].processes_activated
  BY <1>2, ClearedIs
<1> DEFINE r == Cleared(p)
<1>5. /\ Turns(p, r) /\ active_processes' = active_processes
      /\ evtlist' \in Seq(KernelEvent) /\ channel' \in [inChannel -> ChannelType]
      /\ Edited(evtlist, evtlist', HoldsOf(evtlist, p), {})
      /\ LeavesLists(p) /\ ActivityStays
  <2> DEFINE T == clear_pending_wait(State, p)
  <2>1. /\ process' = T.process /\ channel' = T.channel
        /\ evtlist' = T.evtlist /\ active_processes' = T.active_processes
    BY <1>1, BecomesIs
  <2>2. /\ T \in StateType /\ Cleared(p) \in ProcessType
        /\ T.process = [process EXCEPT ![p] = Cleared(p)]
        /\ T.active_processes = active_processes
        /\ Edited(evtlist, T.evtlist, HoldsOf(evtlist, p), {})
        /\ \A ic \in inChannel :
             /\ T.channel[ic].wait = IF ic \in process[p].waiton
                                     THEN RemoveFirst(channel[ic].wait, p)
                                     ELSE channel[ic].wait
             /\ T.channel[ic].active_event = channel[ic].active_event
             /\ T.channel[ic].processes_activated = channel[ic].processes_activated
    BY <1>4
  <2> HIDE DEF T
  <2>3. T.evtlist \in Seq(KernelEvent) /\ T.channel \in [inChannel -> ChannelType]
    BY <2>2 DEF StateType
  <2> QED BY <2>1, <2>2, <2>3 DEF Turns, LeavesLists, ActivityStays
<1>6. /\ r.state = "running" /\ r.waiton = {} /\ ~r.static_sensitivity /\ ~r.hold_event
      /\ SameContext(p, r) /\ StateOK(r)
  BY <1>2, <1>3 DEF Cleared, ProcessType, SameContext, StateOK
<1> HIDE DEF r
<1>7. /\ process' \in [Process -> ProcessType] /\ process'[p] = r
      /\ \A q \in Process : q # p => process'[q] = process[q]
  BY <1>0, <1>2, <1>5, TurnsIs
<1>8. evtlist' = evtlist
  <2>1. HoldsOf(evtlist, p) = {}
    BY <1>2, <1>3, HoldEvents
  <2>2. clear_pending_wait(State, p).evtlist = State.evtlist
    <3>1. State.process[p] = process[p] /\ State \in StateType
      BY <1>0, Types, StateIs
    <3>2. cancel_hold(State, p) = State
      BY <1>3, <3>1 DEF cancel_hold
    <3>3. clear_pending_wait(State, p) =
            [desensitize_inchannels(State, p) EXCEPT !.process[p].static_sensitivity = FALSE]
      BY <1>2, <3>1, <3>2 DEF clear_pending_wait
    <3> QED BY <3>1, <3>3 DEF desensitize_inchannels, StateType
  <2> QED BY <1>1, <2>2, BecomesIs, StateIs
<1>9. TypeOK'
  <2>1. Nothing \in [ics : SUBSET inChannel, static : BOOLEAN, until : Nat \cup {Forever}]
    BY DEF Nothing
  <2>2. asked' \in [Process -> [ics : SUBSET inChannel, static : BOOLEAN,
                                 until : Nat \cup {Forever}]]
    BY <1>0, <1>1, <2>1 DEF TypeOK
  <2>3. active_processes' \in Seq(Process)
    BY <1>0, <1>5, Types
  <2> QED BY <1>0, <1>1, <1>5, <1>7, <2>2, <2>3 DEF TypeOK, semaphores, timers
<1>10. States'
  BY <1>0, <1>2, <1>5, <1>6, StatesStep
<1>11. Lists'
  BY <1>0, <1>2, <1>5, <1>6, ListsLeft
<1>12. Activity'
  BY <1>0, <1>2, <1>5, <1>6, ActivityKept
<1>13. Ready'
  <2>1. Self' = Self
    BY <1>5 DEF Self
  <2>2. \A q \in Process : process'[q].state = "running" <=> Holds(active_processes', q)
    BY <1>0, <1>2, <1>5, <1>6, <1>7 DEF Ready
  <2>3. process'[Self].waiton = {} /\ ~process'[Self].static_sensitivity
    BY <1>2, <1>6, <1>7
  <2> QED BY <1>0, <1>1, <1>5, <2>1, <2>2, <2>3 DEF Ready, Holds, IsInjective
<1>14. Order' /\ Events' /\ InLine' /\ Times' /\ order' = order
  <2>1. \A q \in Process : /\ process'[q].state = "creating" <=> process[q].state = "creating"
                           /\ process'[q].hold_event <=> process[q].hold_event
                           /\ process[q].hold_event => asked'[q].until = asked[q].until
    BY <1>0, <1>1, <1>2, <1>3, <1>6, <1>7 DEF TypeOK
  <2> QED BY <1>1, <1>8, <2>1, EventsKept DEF timers
<1>15. Places'
  BY <1>0, <1>2, <1>5, <1>14, NotPlaced, PlacesKept
<1>16. Asked'
  <2>1. \A q \in Process : q # p => asked'[q] = asked[q]
    BY <1>0, <1>1 DEF TypeOK
  <2> QED BY <1>0, <1>2, <1>5, <1>6, <2>1, AskedKept
<1> QED BY <1>5, <1>9, <1>10, <1>11, <1>12, <1>13, <1>14, <1>15, <1>16 DEF IInv

-----------------------------------------------------------------------------
(* The steps that end the turn of a process.                               *)

\* p, of which o are the fields, leaves the processor.
Quit(o, st) == [o EXCEPT !.state = st, !.active_event_retrieved = FALSE,
                         !.process_timedout = FALSE, !.active_inchannel = None]
\* The inchannel that has activated p counts one less; the last one discards the event.
Quits(c, p) ==
  \A ic \in inChannel :
    LET n == channel[ic].processes_activated - 1 IN
    /\ c[ic].processes_activated = IF ic = process[p].active_inchannel
                                   THEN n ELSE channel[ic].processes_activated
    /\ c[ic].active_event = IF ic = process[p].active_inchannel /\ n = 0
                            THEN None ELSE channel[ic].active_event

LEMMA Counted ==
  ASSUME NEW ic
  PROVE  IsFiniteSet(ActivatedBy(ic)) /\ Cardinality(ActivatedBy(ic)) \in Nat
<1>1. ActivatedBy(ic) \subseteq Process
  BY DEF ActivatedBy
<1>2. IsFiniteSet(ActivatedBy(ic))
  BY <1>1, ProcessAssumption, FS_Subset
<1> QED BY <1>2, FS_CardinalityType

\* In S, the process on the processor has the fields o ...
QuitReady(S, o) ==
  /\ S \in StateType /\ o \in ProcessType /\ SameContext(Self, o)
  /\ S.process = [process EXCEPT ![Self] = o]
  /\ S.active_processes = active_processes
  /\ \A ic \in inChannel :
       /\ S.channel[ic].active_event = channel[ic].active_event
       /\ S.channel[ic].processes_activated = channel[ic].processes_activated
\* ... and in T it has left it.
HasQuit(S, o, st, T) ==
  /\ Self \in Process /\ process[Self].state = "running"
  /\ T.process = [process EXCEPT ![Self] = Quit(o, st)]
  /\ T.active_processes = Tail(active_processes) /\ T.evtlist = S.evtlist
  /\ T.channel \in [inChannel -> ChannelType]
  /\ \A ic \in inChannel : T.channel[ic].wait = S.channel[ic].wait
  /\ Quits(T.channel, Self)
  /\ DOMAIN T = {"process", "channel", "evtlist", "active_processes"}

LEMMA QuitFrame ==
  ASSUME IInv, active_processes # <<>>, NEW S, NEW o, NEW st, QuitReady(S, o)
  PROVE  HasQuit(S, o, st, deactivate_process(S, st))
<1> DEFINE T == deactivate_process(S, st)
           p == Self
           ic == o.active_inchannel
           n == S.channel[ic].processes_activated - 1
           c == [S.channel[ic] EXCEPT !.processes_activated = n,
                                      !.active_event = IF n = 0 THEN None ELSE @]
<1>0. TypeOK /\ Ready /\ Activity /\ process \in [Process -> ProcessType]
      /\ S.channel \in [inChannel -> ChannelType]
  BY Types DEF IInv, StateType, QuitReady
<1>q. /\ S \in StateType /\ o \in ProcessType /\ SameContext(Self, o)
      /\ S.process = [process EXCEPT ![Self] = o]
      /\ S.active_processes = active_processes
      /\ \A a \in inChannel :
           /\ S.channel[a].active_event = channel[a].active_event
           /\ S.channel[a].processes_activated = channel[a].processes_activated
  BY DEF QuitReady
<1>1. p \in Process /\ process[p].state = "running"
  <2>1. active_processes \in Seq(Process) /\ IsInjective(active_processes)
    BY <1>0, Types DEF Ready
  <2>2. p \in Process /\ Holds(active_processes, p)
    BY <2>1, ListTail DEF Self
  <2> QED BY <1>0, <2>2 DEF Ready
<1>2. Head(S.active_processes) = p /\ S.active_processes # <<>> /\ S.process[p] = o
  BY <1>0, <1>1, <1>q DEF Self
<1>3. /\ T.process = [S.process EXCEPT ![p] = Quit(o, st)]
      /\ T.active_processes = Tail(active_processes)
      /\ T.evtlist = S.evtlist
      /\ DOMAIN T = {"process", "channel", "evtlist", "active_processes"}
      /\ T.channel = IF ic = None THEN S.channel ELSE [S.channel EXCEPT ![ic] = c]
  <2> DEFINE D == deactivate_process(S, st)
             a == S.process[p].active_inchannel
             m == S.channel[a].processes_activated - 1
  <2> HIDE DEF D, p
  <2>1. /\ D.process = [S.process EXCEPT ![p] = Quit(S.process[p], st)]
        /\ D.active_processes = Tail(S.active_processes) /\ D.evtlist = S.evtlist
        /\ DOMAIN D = {"process", "channel", "evtlist", "active_processes"}
        /\ D.channel = IF a = None THEN S.channel
                       ELSE [S.channel EXCEPT ![a] =
                              [S.channel[a] EXCEPT !.processes_activated = m,
                                 !.active_event = IF m = 0 THEN None ELSE @]]
    BY <1>2, <1>q, Deactivated DEF Quit, D
  <2>2. D = T /\ a = ic /\ m = n
    BY <1>2 DEF D
  <2> HIDE DEF a, m
  <2>3. c = [S.channel[a] EXCEPT !.processes_activated = m,
                                 !.active_event = IF m = 0 THEN None ELSE @]
    BY <2>2
  <2> HIDE DEF c, ic, n
  <2>4. D.channel = IF a = None THEN S.channel ELSE [S.channel EXCEPT ![a] = c]
    BY <2>1, <2>3
  <2> QED BY <1>2, <1>q, <2>1, <2>2, <2>4 DEF T
<1> HIDE DEF p, T
<1>4. T.process = [process EXCEPT ![p] = Quit(o, st)]
  BY <1>0, <1>1, <1>3, <1>q DEF p
<1>5. ic = process[p].active_inchannel /\ ic \in inChannel \cup {None}
  BY <1>q DEF SameContext, p, ProcessType
<1>6. CASE ic = None
  <2>1. T.channel = S.channel
    BY <1>3, <1>6
  <2>2. \A a \in inChannel : a # process[p].active_inchannel
    BY <1>5, <1>6, ProcessAssumption
  <2>3. Quits(T.channel, p)
    BY <1>q, <2>1, <2>2 DEF Quits
  <2> QED BY <1>0, <1>1, <1>3, <1>4, <2>1, <2>3 DEF p, T, HasQuit
<1>7. CASE ic # None
  <2>1. ic \in inChannel /\ S.channel[ic] \in ChannelType
    BY <1>0, <1>5, <1>7
  <2>2. p \in ActivatedBy(ic)
    BY <1>1, <1>5 DEF ActivatedBy
  <2>3. Cardinality(ActivatedBy(ic)) >= 1
    <3>1. Cardinality(ActivatedBy(ic)) # 0
      BY <2>2, Counted, FS_EmptySet
    <3> QED BY <3>1, Counted
  <2>4. n \in Nat
    BY <1>0, <1>q, <2>1, <2>3, Counted DEF Activity
  <2>5. c \in ChannelType /\ c.wait = S.channel[ic].wait /\ c.processes_activated = n
        /\ c.active_event = IF n = 0 THEN None ELSE S.channel[ic].active_event
    <3> HIDE DEF n, ic
    <3> QED BY <2>1, <2>4 DEF ChannelType
  <2>6. T.channel = [S.channel EXCEPT ![ic] = c]
    BY <1>3, <1>7
  <2>7. n = channel[ic].processes_activated - 1
    BY <1>q, <2>1
  <2> HIDE DEF c, n, ic
  <2>8. T.channel \in [inChannel -> ChannelType]
    BY <1>0, <2>5, <2>6
  <2>9. \A a \in inChannel : T.channel[a] = IF a = ic THEN c ELSE S.channel[a]
    BY <1>0, <2>1, <2>6
  <2>10. \A a \in inChannel : T.channel[a].wait = S.channel[a].wait
    BY <2>5, <2>9
  <2>11. Quits(T.channel, p)
    BY <1>5, <1>q, <2>5, <2>7, <2>9 DEF Quits
  <2> QED BY <1>1, <1>3, <1>4, <2>8, <2>10, <2>11 DEF p, T, HasQuit
<1> QED BY <1>6, <1>7

LEMMA ActivityLeft ==
  ASSUME TypeOK, Activity, NEW p \in Process, NEW r, Turns(p, r),
         r.state # "running", r.active_inchannel = None, Quits(channel', p)
  PROVE  Activity'
<1>1. /\ process'[p] = r /\ \A q \in Process : q # p => process'[q] = process[q]
  BY TurnsIs
<1>2. \A q, o \in Process :
         process'[q].state = "running" /\ process'[o].state = "running" =>
           process'[q].active_inchannel = process'[o].active_inchannel
  BY <1>1 DEF Activity
<1>3. ASSUME NEW ic \in inChannel
      PROVE  /\ channel'[ic].processes_activated = Cardinality(ActivatedBy(ic)')
             /\ channel'[ic].active_event # None => ActivatedBy(ic)' # {}
             /\ \A q \in ActivatedBy(ic)' :
                  ~process'[q].active_event_retrieved => channel'[ic].active_event # None
  <2> DEFINE a == ActivatedBy(ic)
             b == ActivatedBy(ic)'
  <2>0. ic # None
    BY ProcessAssumption
  <2>1. b = a \ {p}
    BY <1>1, <2>0 DEF ActivatedBy
  <2>2. IsFiniteSet(a) /\ Cardinality(a) \in Nat
    BY Counted
  <2>3. p \in a <=> ic = process[p].active_inchannel
    BY DEF ActivatedBy
  <2>4. /\ channel[ic].processes_activated = Cardinality(a)
        /\ channel[ic].active_event # None => a # {}
        /\ \A q \in a : ~process[q].active_event_retrieved => channel[ic].active_event # None
    BY DEF Activity
  <2>5. \A q \in b : process'[q] = process[q]
    BY <1>1, <2>1 DEF ActivatedBy
  <2> DEFINE n == channel[ic].processes_activated - 1
  <2>6. /\ channel'[ic].processes_activated = IF p \in a THEN n ELSE channel[ic].processes_activated
        /\ channel'[ic].active_event = IF p \in a /\ n = 0 THEN None ELSE channel[ic].active_event
    BY <2>3 DEF Quits
  <2> HIDE DEF a, b
  <2>7. CASE p \notin a
    <3>1. b = a
      BY <2>1, <2>7
    <3> QED BY <2>4, <2>5, <2>6, <2>7, <3>1 DEF b
  <2>8. CASE p \in a
    <3>1. Cardinality(b) = Cardinality(a) - 1 /\ IsFiniteSet(b)
      BY <2>1, <2>2, <2>8, FS_RemoveElement
    <3>2. n = Cardinality(b)
      BY <2>4, <3>1
    <3>3. n = 0 => b = {}
      BY <3>1, <3>2, FS_EmptySet
    <3>4. b = {} => n = 0
      BY <3>2, FS_EmptySet
    <3> HIDE DEF n
    <3>5. channel'[ic].active_event # None => b # {}
      BY <2>6, <2>8, <3>4
    <3>6. ASSUME NEW q \in b, ~process'[q].active_event_retrieved
          PROVE  channel'[ic].active_event # None
      BY <2>1, <2>4, <2>5, <2>6, <3>3, <3>6
    <3> QED BY <2>6, <2>8, <3>2, <3>5, <3>6 DEF b
  <2> QED BY <2>7, <2>8
<1> QED BY <1>2, <1>3 DEF Activity

\* In S it has asked for what o says, and for a timeout at "until".
WaitReady(S, o, until) ==
  /\ QuitReady(S, o) /\ (o.static_sensitivity => o.waiton = {})
  /\ \A ic \in inChannel :
       S.channel[ic].wait = IF ic \in o.waiton THEN <<Self>> \o channel[ic].wait
                            ELSE channel[ic].wait
  /\ until \in Nat \cup {Forever} /\ (o.hold_event <=> until # Forever)
  /\ until # Forever => simclock <= until
  /\ S.evtlist = IF until = Forever THEN evtlist
                 ELSE Append(evtlist, [kind |-> "hold", who |-> Self, time |-> until])

\* The process on the processor waits until one of its inchannels, or the time, wakes it up.
LEMMA WaitsStep ==
  ASSUME IInv, context = "process", context' = "timeline", calls' \in Nat,
         UNCHANGED <<arrivals, simclock, semaphores, timers>>,
         NEW S, NEW o, NEW until, WaitReady(S, o, until),
         Becomes(deactivate_process(S, "waiting")),
         asked' = [asked EXCEPT ![Self] =
           [ics |-> o.waiton, static |-> o.static_sensitivity, until |-> until]]
  PROVE  IInv' /\ active_processes' = Tail(active_processes)
<1>w. /\ QuitReady(S, o) /\ (o.static_sensitivity => o.waiton = {})
      /\ \A ic \in inChannel :
           S.channel[ic].wait = IF ic \in o.waiton THEN <<Self>> \o channel[ic].wait
                                ELSE channel[ic].wait
      /\ until \in Nat \cup {Forever} /\ (o.hold_event <=> until # Forever)
      /\ (until # Forever => simclock <= until)
      /\ S.evtlist = IF until = Forever THEN evtlist
                     ELSE Append(evtlist, [kind |-> "hold", who |-> Self, time |-> until])
  BY DEF WaitReady
<1> DEFINE p == Self
           r == Quit(o, "waiting")
           e == [kind |-> "hold", who |-> p, time |-> until]
           New == IF until = Forever THEN {} ELSE {e}
<1>0. TypeOK /\ States /\ Ready /\ Lists /\ Activity /\ Order /\ Places /\ Events /\ InLine
        /\ Times /\ Asked
  BY DEF IInv
<1>1. active_processes # <<>> /\ process[p].waiton = {} /\ ~process[p].static_sensitivity
  BY <1>0 DEF Ready
<1>3. /\ p \in Process /\ process[p].state = "running" /\ process' = [process EXCEPT ![p] = r]
      /\ active_processes' = Tail(active_processes) /\ evtlist' = S.evtlist
      /\ channel' \in [inChannel -> ChannelType]
      /\ \A ic \in inChannel : channel'[ic].wait = S.channel[ic].wait
      /\ Quits(channel', p)
  <2> DEFINE D == deactivate_process(S, "waiting")
  <2>1. process' = D.process /\ channel' = D.channel /\ evtlist' = D.evtlist
        /\ active_processes' = D.active_processes
    BY BecomesIs
  <2>2. HasQuit(S, o, "waiting", D)
    BY <1>w, <1>1, QuitFrame
  <2> HIDE DEF D
  <2> QED BY <2>1, <2>2 DEF HasQuit
<1>q. o \in ProcessType /\ S \in StateType
  BY <1>w DEF QuitReady
<1>4. /\ r \in ProcessType /\ r.state = "waiting" /\ r.active_inchannel = None
      /\ ~r.process_timedout /\ r.waiton = o.waiton /\ r.static_sensitivity = o.static_sensitivity
      /\ r.hold_event = o.hold_event /\ StateOK(r)
  BY <1>w, <1>q DEF Quit, ProcessType, StateOK
<1>5. Turns(p, r)
  BY <1>3, <1>4 DEF Turns
<1>6. ~process[p].hold_event
  BY <1>0, <1>3 DEF States, StateOK
<1> DEFINE w == [ics |-> o.waiton, static |-> o.static_sensitivity, until |-> until]
<1>7. /\ w \in [ics : SUBSET inChannel, static : BOOLEAN, until : Nat \cup {Forever}]
      /\ w.ics = o.waiton /\ w.static = o.static_sensitivity /\ w.until = until
  BY <1>w, <1>q DEF ProcessType
<1>8. asked' = [asked EXCEPT ![p] = w]
  OBVIOUS
<1>9. p = Self
  OBVIOUS
<1> HIDE DEF r, p, w
<1>10. /\ process' \in [Process -> ProcessType] /\ process'[p] = r
       /\ \A q \in Process : q # p => process'[q] = process[q]
  BY <1>0, <1>3, <1>5, TurnsIs
<1>11. /\ asked' \in [Process -> [ics : SUBSET inChannel, static : BOOLEAN, until : Nat \cup {Forever}]]
       /\ asked'[p] = w /\ \A q \in Process : q # p => asked'[q] = asked[q]
  <2> DEFINE W == [ics : SUBSET inChannel, static : BOOLEAN, until : Nat \cup {Forever}]
  <2>1. asked \in [Process -> W] /\ w \in W
    BY <1>0, <1>7 DEF TypeOK
  <2> HIDE DEF W
  <2>2. /\ asked' \in [Process -> W] /\ asked'[p] = w
        /\ \A q \in Process : q # p => asked'[q] = asked[q]
    BY <1>3, <1>8, <2>1
  <2> QED BY <2>2 DEF W
<1>12. /\ evtlist \in Seq(KernelEvent) /\ evtlist' \in Seq(KernelEvent)
       /\ active_processes' \in Seq(Process)
  <2>1. evtlist \in Seq(KernelEvent) /\ active_processes \in Seq(Process)
    BY <1>0, Types
  <2>2. evtlist' \in Seq(KernelEvent)
    BY <1>3, <1>q DEF StateType
  <2>3. active_processes' \in Seq(Process)
    BY <1>1, <1>3, <2>1
  <2> QED BY <2>1, <2>2, <2>3
<1>13. New \in SUBSET KernelEvent /\ Edited(evtlist, evtlist', {}, New)
  <2>1. CASE until = Forever
    BY <1>w, <1>3, <1>12, <2>1, EditedNone
  <2>2. CASE until # Forever
    <3>1. e \in KernelEvent
      BY <1>w, <1>3, <2>2 DEF KernelEvent
    <3>2. evtlist' = Append(evtlist, e)
      BY <1>w, <1>3, <1>9, <2>2
    <3> HIDE DEF e
    <3>3. Edited(evtlist, Append(evtlist, e), {}, {e})
      BY <1>12, <3>1, EditedNew
    <3> QED BY <2>2, <3>1, <3>2, <3>3
  <2> QED BY <2>1, <2>2
<1>14. /\ \A f \in New : f.kind = "hold" /\ f.who = p /\ f.time = until /\ until # Forever
       /\ until # Forever => \E f \in New : f.kind = "hold" /\ f.who = p
  <2>1. e.kind = "hold" /\ e.who = p /\ e.time = until
    BY <1>9
  <2> HIDE DEF e
  <2> QED BY <2>1
<1> HIDE DEF New, e
<1>15. ~HasEvent("hold", p)
  BY <1>0, <1>3, <1>6 DEF Events
<1>16. /\ Unique(evtlist')
       /\ \A j \in DOMAIN evtlist' :
            evtlist'[j].who \in (IF evtlist'[j].kind = "timer" THEN Timer ELSE Process)
       /\ \A kind, x : HasEvent(kind, x)' <=> \/ HasEvent(kind, x)
                                              \/ kind = "hold" /\ x = p /\ until # Forever
  <2>1. {} \in SUBSET DOMAIN evtlist
    OBVIOUS
  <2>2. \A f \in New : /\ f.who \in (IF f.kind = "timer" THEN Timer ELSE Process)
                       /\ ~HasEvent(f.kind, f.who) \/ Gone({}, f.kind, f.who)
    BY <1>3, <1>14, <1>15
  <2>3. /\ Unique(evtlist')
        /\ \A j \in DOMAIN evtlist' :
             evtlist'[j].who \in (IF evtlist'[j].kind = "timer" THEN Timer ELSE Process)
        /\ \A kind, x : HasEvent(kind, x)' <=> \/ HasEvent(kind, x) /\ ~Gone({}, kind, x)
                                               \/ Comes(New, kind, x)
    BY <1>0, <1>13, <2>1, <2>2, EventsStep
  <2>4. \A kind, x : ~Gone({}, kind, x)
    BY DEF Gone
  <2>5. \A kind, x : Comes(New, kind, x) <=> kind = "hold" /\ x = p /\ until # Forever
    BY <1>14 DEF Comes
  <2> QED BY <2>3, <2>4, <2>5
<1>17. TypeOK'
  BY <1>0, <1>3, <1>10, <1>11, <1>12 DEF TypeOK, semaphores, timers
<1>18. States'
  BY <1>0, <1>3, <1>4, <1>5, StatesStep
<1>19. Ready'
  <2>1. active_processes # <<>> /\ Turns(Self, r) /\ r.state # "running"
        /\ active_processes' = Tail(active_processes)
    BY <1>1, <1>3, <1>4, <1>5, <1>9
  <2> QED BY <1>0, <2>1, ReadyLeft
<1>20. Lists'
  <2>1. \A ic \in inChannel : channel'[ic].wait = IF ic \in r.waiton
                                                  THEN <<p>> \o channel[ic].wait
                                                  ELSE channel[ic].wait
    BY <1>w, <1>3, <1>4, <1>9
  <2> QED BY <1>0, <1>1, <1>3, <1>5, <2>1, ListsJoined
<1>21. Activity'
  BY <1>0, <1>3, <1>4, <1>5, ActivityLeft
<1>22. Order' /\ SameOrder /\ order' = order /\ \A q : IsReleased(q)' <=> IsReleased(q)
  BY <1>0, OrderKept
<1>23. Places'
  BY <1>0, <1>3, <1>5, <1>22, NotPlaced, PlacesKept
<1>24. Events'
  <2>1. ASSUME NEW q \in Process
        PROVE  /\ HasEvent("process", q)' <=> process'[q].state = "creating"
               /\ HasEvent("hold", q)' <=> process'[q].hold_event
               /\ HasEvent("semaphore", q)' <=> IsReleased(q)'
    <3>1. /\ HasEvent("process", q) <=> process[q].state = "creating"
          /\ HasEvent("hold", q) <=> process[q].hold_event
          /\ HasEvent("semaphore", q) <=> IsReleased(q)
      BY <1>0 DEF Events
    <3>2. CASE q = p
      BY <1>w, <1>3, <1>4, <1>6, <1>10, <1>16, <1>22, <3>1, <3>2
    <3>3. CASE q # p
      BY <1>10, <1>16, <1>22, <3>1, <3>3
    <3> QED BY <3>2, <3>3
  <2>2. \A t \in Timer : HasEvent("timer", t)' <=> timer_event'[t]
    BY <1>0, <1>16 DEF Events, timers
  <2> QED BY <1>16, <2>1, <2>2 DEF Events, Unique
<1>25. InLine'
  BY <1>0, <1>13, <1>14, <1>22, InLineKept
<1>26. Times'
  <2>1. \A a \in arrivals' : simclock' <= a.time
    BY <1>0 DEF Times
  <2>2. \A j \in DOMAIN evtlist \ {} :
           /\ simclock' <= evtlist[j].time
           /\ evtlist[j].kind \in {"process", "semaphore"} => evtlist[j].time = simclock'
           /\ evtlist[j].kind = "hold" =>
                asked'[evtlist[j].who].until = asked[evtlist[j].who].until
           /\ evtlist[j].kind = "timer" => fire_time'[evtlist[j].who] = fire_time[evtlist[j].who]
    <3> SUFFICES ASSUME NEW j \in DOMAIN evtlist
                 PROVE  /\ simclock' <= evtlist[j].time
                        /\ evtlist[j].kind \in {"process", "semaphore"} =>
                             evtlist[j].time = simclock'
                        /\ evtlist[j].kind = "hold" =>
                             asked'[evtlist[j].who].until = asked[evtlist[j].who].until
                        /\ evtlist[j].kind = "timer" =>
                             fire_time'[evtlist[j].who] = fire_time[evtlist[j].who]
      OBVIOUS
    <3>1. evtlist[j].kind = "hold" => evtlist[j].who \in Process /\ evtlist[j].who # p
      BY <1>0, <1>15 DEF Events, HasEvent
    <3> QED BY <1>0, <1>11, <3>1 DEF Times, timers
  <2>3. \A f \in New : /\ simclock' <= f.time
                       /\ f.kind \in {"process", "semaphore"} => f.time = simclock'
                       /\ f.kind = "hold" => f.time = asked'[f.who].until
                       /\ f.kind = "timer" => f.time = fire_time'[f.who]
    BY <1>w, <1>7, <1>11, <1>14
  <2> QED BY <1>0, <1>13, <2>1, <2>2, <2>3, TimesStep
<1>27. Asked'
  <2>1. r.state = "waiting" => /\ asked'[p].ics = r.waiton
                               /\ asked'[p].static = r.static_sensitivity
                               /\ asked'[p].until # Forever <=> r.hold_event
    BY <1>w, <1>4, <1>7, <1>11
  <2> QED BY <1>0, <1>3, <1>5, <1>11, <2>1, AskedKept
<1> QED BY <1>3, <1>17, <1>18, <1>19, <1>20, <1>21, <1>22, <1>23, <1>24, <1>25, <1>26, <1>27 DEF IInv

\* What a process has asked for, without a timeout.
WaitsFor(S, o, ics, static) ==
  /\ QuitReady(S, o) /\ o.waiton = ics /\ o.static_sensitivity = static /\ ~o.hold_event
  /\ static => ics = {}
  /\ \A ic \in inChannel :
       S.channel[ic].wait = IF ic \in ics THEN <<Self>> \o channel[ic].wait
                            ELSE channel[ic].wait
  /\ S.evtlist = evtlist

\* T is S with a timeout for p.
HoldsUntil(S, p, time, T) ==
  /\ T \in StateType
  /\ T.process = [S.process EXCEPT ![p] = [S.process[p] EXCEPT !.hold_event = TRUE]]
  /\ T.channel = S.channel /\ T.active_processes = S.active_processes
  /\ T.evtlist = Append(S.evtlist, [kind |-> "hold", who |-> p, time |-> time])

LEMMA HoldUntilIs ==
  ASSUME NEW S \in StateType, NEW p \in Process, NEW time \in Nat
  PROVE  HoldsUntil(S, p, time, hold_until(S, p, time))
<1> DEFINE T == hold_until(S, p, time)
           q == [S.process[p] EXCEPT !.hold_event = TRUE]
           P == [S.process EXCEPT ![p] = q]
           e == [kind |-> "hold", who |-> p, time |-> time]
           E == Append(S.evtlist, e)
           A == [S EXCEPT !.process[p].hold_event = TRUE]
<1>1. /\ S.process \in [Process -> ProcessType] /\ S.process[p] \in ProcessType
      /\ S.evtlist \in Seq(KernelEvent)
  BY DEF StateType
<1>2. q \in ProcessType
  BY <1>1 DEF ProcessType
<1>3. e \in KernelEvent
  BY DEF KernelEvent
<1>4. A = [S EXCEPT !.process = P]
  BY DEF StateType
<1>5. T = [A EXCEPT !.evtlist = Append(A.evtlist, e)]
  BY DEF hold_until, insert_event
<1> HIDE DEF q, e, A, T
<1>6. P \in [Process -> ProcessType]
  BY <1>1, <1>2
<1>7. E \in Seq(KernelEvent)
  BY <1>1, <1>3
<1> HIDE DEF P
<1>8. A \in StateType /\ A.process = P /\ A.channel = S.channel
      /\ A.active_processes = S.active_processes /\ A.evtlist = S.evtlist
  BY <1>4, <1>6 DEF StateType
<1>9. T = [A EXCEPT !.evtlist = E]
  BY <1>5, <1>8
<1> HIDE DEF E
<1>10. T \in StateType /\ T.process = P /\ T.channel = S.channel
       /\ T.active_processes = S.active_processes /\ T.evtlist = E
  BY <1>7, <1>8, <1>9 DEF StateType
<1> QED BY <1>10 DEF T, P, E, e, q, HoldsUntil

LEMMA WaitsDone ==
  ASSUME IInv, context = "process", context' = "timeline", calls' \in Nat,
         UNCHANGED <<arrivals, simclock, semaphores, timers>>,
         NEW S, NEW o, NEW ics, NEW static, WaitsFor(S, o, ics, static), Waits(S, ics, static)
  PROVE  IInv' /\ active_processes' = Tail(active_processes)
<1>0. /\ QuitReady(S, o) /\ o.waiton = ics /\ o.static_sensitivity = static /\ ~o.hold_event
      /\ (static => ics = {})
      /\ \A ic \in inChannel :
           S.channel[ic].wait = IF ic \in ics THEN <<Self>> \o channel[ic].wait
                                ELSE channel[ic].wait
      /\ S.evtlist = evtlist
  BY DEF WaitsFor
<1>1. CASE /\ Becomes(deactivate_process(S, "waiting"))
           /\ asked' = [asked EXCEPT ![Self] =
                [ics |-> ics, static |-> static, until |-> Forever]]
  <2>1. WaitReady(S, o, Forever)
    BY <1>0 DEF WaitReady
  <2>2. asked' = [asked EXCEPT ![Self] =
           [ics |-> o.waiton, static |-> o.static_sensitivity, until |-> Forever]]
    BY <1>0, <1>1
  <2> QED BY <1>1, <2>1, <2>2, WaitsStep
<1>2. CASE \E d \in Delays :
             /\ Becomes(deactivate_process(hold_until(S, Self, simclock + d), "waiting"))
             /\ asked' = [asked EXCEPT ![Self] =
                  [ics |-> ics, static |-> static, until |-> simclock + d]]
  <2>1. PICK d \in Delays :
             /\ Becomes(deactivate_process(hold_until(S, Self, simclock + d), "waiting"))
             /\ asked' = [asked EXCEPT ![Self] =
                  [ics |-> ics, static |-> static, until |-> simclock + d]]
    BY <1>2
  <2> DEFINE u == simclock + d
             T == hold_until(S, Self, u)
             q == [o EXCEPT !.hold_event = TRUE]
  <2>2. u \in Nat /\ simclock <= u /\ u # Forever
    BY ProcessAssumption DEF IInv, TypeOK, Forever
  <2>3. Self \in Process /\ process \in [Process -> ProcessType]
    <3>1. active_processes \in Seq(Process) /\ active_processes # <<>>
          /\ process \in [Process -> ProcessType]
      BY Types DEF IInv, Ready
    <3> QED BY <3>1 DEF Self
  <2>4. /\ S \in StateType /\ o \in ProcessType /\ SameContext(Self, o)
        /\ S.process = [process EXCEPT ![Self] = o]
        /\ S.active_processes = active_processes
        /\ \A ic \in inChannel :
             /\ S.channel[ic].active_event = channel[ic].active_event
             /\ S.channel[ic].processes_activated = channel[ic].processes_activated
    BY <1>0 DEF QuitReady
  <2>5. /\ q \in ProcessType /\ SameContext(Self, q) /\ q.waiton = ics
        /\ q.static_sensitivity = static /\ q.hold_event
    BY <1>0, <2>4 DEF ProcessType, SameContext
  <2> HIDE DEF u
  <2>6. /\ T \in StateType
        /\ T.process = [S.process EXCEPT ![Self] = [S.process[Self] EXCEPT !.hold_event = TRUE]]
        /\ T.channel = S.channel /\ T.active_processes = S.active_processes
        /\ T.evtlist = Append(S.evtlist, [kind |-> "hold", who |-> Self, time |-> u])
    <3>1. HoldsUntil(S, Self, u, hold_until(S, Self, u))
      BY <2>2, <2>3, <2>4, HoldUntilIs
    <3> QED BY <3>1 DEF HoldsUntil
  <2>7. S.process[Self] = o
    BY <2>3, <2>4
  <2>8. T.process = [S.process EXCEPT ![Self] = q]
    BY <2>6, <2>7
  <2> HIDE DEF q, T
  <2>9. T.process = [process EXCEPT ![Self] = q]
    BY <2>3, <2>4, <2>8
  <2>10. QuitReady(T, q)
    BY <2>4, <2>5, <2>6, <2>9 DEF QuitReady
  <2>11. WaitReady(T, q, u)
    BY <1>0, <2>2, <2>5, <2>6, <2>10 DEF WaitReady
  <2>12. /\ Becomes(deactivate_process(T, "waiting"))
         /\ asked' = [asked EXCEPT ![Self] =
              [ics |-> q.waiton, static |-> q.static_sensitivity, until |-> u]]
    BY <2>1, <2>5 DEF T, u
  <2> QED BY <2>11, <2>12, WaitsStep
<1> QED BY <1>1, <1>2 DEF Waits

\* The fields of the process that is on the processor.
LEMMA SelfIs ==
  ASSUME IInv, context = "process"
  PROVE  /\ active_processes # <<>> /\ active_processes \in Seq(Process)
         /\ Self \in Process /\ process[Self] \in ProcessType
         /\ process[Self].state = "running" /\ process[Self].waiton = {}
         /\ ~process[Self].static_sensitivity /\ ~process[Self].hold_event
         /\ process \in [Process -> ProcessType]
<1>1. /\ active_processes \in Seq(Process) /\ active_processes # <<>>
      /\ process \in [Process -> ProcessType] /\ IsInjective(active_processes)
      /\ process[Self].waiton = {} /\ ~process[Self].static_sensitivity
  BY Types DEF IInv, Ready
<1>2. Self \in Process /\ Holds(active_processes, Self)
  BY <1>1, ListTail DEF Self
<1>3. process[Self].state = "running"
  BY <1>2 DEF IInv, Ready
<1>4. StateOK(process[Self])
  BY <1>2 DEF IInv, States
<1> QED BY <1>1, <1>2, <1>3, <1>4 DEF StateOK

LEMMA StaticStep ==
  ASSUME IInv, waitOnStatic
  PROVE  IInv' /\ active_processes' = Tail(active_processes)
<1> DEFINE S == [State EXCEPT !.process[Self].static_sensitivity = TRUE]
           o == [process[Self] EXCEPT !.static_sensitivity = TRUE]
           P == [process EXCEPT ![Self] = o]
<1>0. /\ TypeOK /\ State \in StateType /\ State.process = process /\ State.channel = channel
      /\ State.evtlist = evtlist /\ State.active_processes = active_processes
  BY Types, StateIs DEF IInv
<1>1. /\ context = "process" /\ context' = "timeline" /\ calls' \in Nat
      /\ UNCHANGED <<arrivals, simclock, semaphores, timers>>
      /\ Waits(S, {}, TRUE)
  <2>1. calls \in Nat
    BY <1>0 DEF TypeOK
  <2>2. /\ Call /\ context' = "timeline" /\ Waits(S, {}, TRUE)
        /\ UNCHANGED <<arrivals, simclock, semaphores, timers>>
    BY Zenon DEF waitOnStatic
  <2>3. context = "process" /\ calls' \in Nat
    BY <2>1, <2>2 DEF Call
  <2> QED BY <2>2, <2>3
<1>2. /\ Self \in Process /\ process[Self] \in ProcessType
      /\ process[Self].waiton = {} /\ ~process[Self].hold_event
      /\ process \in [Process -> ProcessType]
  BY <1>1, SelfIs
<1>3. /\ o \in ProcessType /\ SameContext(Self, o) /\ o.waiton = {} /\ o.static_sensitivity = TRUE
      /\ ~o.hold_event
  BY <1>2 DEF ProcessType, SameContext
<1>4. S = [State EXCEPT !.process = P]
  BY <1>0 DEF StateType
<1> HIDE DEF o, S
<1>5. P \in [Process -> ProcessType]
  BY <1>2, <1>3
<1> HIDE DEF P
<1>6. S \in StateType /\ S.process = P /\ S.channel = channel /\ S.evtlist = evtlist
      /\ S.active_processes = active_processes
  BY <1>0, <1>4, <1>5 DEF StateType
<1>7. QuitReady(S, o)
  BY <1>3, <1>6 DEF QuitReady, P
<1>8. WaitsFor(S, o, {}, TRUE)
  BY <1>3, <1>6, <1>7 DEF WaitsFor
<1> QED BY <1>1, <1>8, WaitsDone

LEMMA WaitOnStep ==
  ASSUME IInv, NEW ics \in SUBSET inChannel, waitOn(ics)
  PROVE  IInv' /\ active_processes' = Tail(active_processes)
<1> DEFINE S == sensitize_inchannel(State, Self, ics)
           o == [process[Self] EXCEPT !.waiton = ics]
           P == [process EXCEPT ![Self] = o]
           C == [ic \in inChannel |-> IF ic \in ics
                   THEN [channel[ic] EXCEPT !.wait = <<Self>> \o channel[ic].wait]
                   ELSE channel[ic]]
<1>0. /\ TypeOK /\ State \in StateType /\ State.process = process /\ State.channel = channel
      /\ State.evtlist = evtlist /\ State.active_processes = active_processes
      /\ channel \in [inChannel -> ChannelType]
  BY Types, StateIs DEF IInv
<1>1. /\ context = "process" /\ context' = "timeline" /\ calls' \in Nat
      /\ UNCHANGED <<arrivals, simclock, semaphores, timers>>
      /\ Waits(S, ics, FALSE)
  <2>1. calls \in Nat
    BY <1>0 DEF TypeOK
  <2>2. /\ Call /\ context' = "timeline" /\ Waits(S, ics, FALSE)
        /\ UNCHANGED <<arrivals, simclock, semaphores, timers>>
    BY Zenon DEF waitOn
  <2>3. context = "process" /\ calls' \in Nat
    BY <2>1, <2>2 DEF Call
  <2> QED BY <2>2, <2>3
<1>2. /\ Self \in Process /\ process[Self] \in ProcessType
      /\ ~process[Self].static_sensitivity /\ ~process[Self].hold_event
      /\ process \in [Process -> ProcessType]
  BY <1>1, SelfIs
<1>3. /\ o \in ProcessType /\ SameContext(Self, o) /\ o.waiton = ics
      /\ o.static_sensitivity = FALSE /\ ~o.hold_event
  BY <1>2 DEF ProcessType, SameContext
<1>4. S = [State EXCEPT !.process = P, !.channel = C]
  <2>1. [State EXCEPT !.process[Self].waiton = ics] = [State EXCEPT !.process = P]
    BY <1>0 DEF StateType
  <2> QED BY <1>0, <2>1 DEF sensitize_inchannel, StateType
<1> HIDE DEF o, S
<1>5. P \in [Process -> ProcessType]
  BY <1>2, <1>3
<1>6. ASSUME NEW ic \in inChannel
      PROVE  /\ C[ic] \in ChannelType
             /\ C[ic].wait = IF ic \in ics THEN <<Self>> \o channel[ic].wait ELSE channel[ic].wait
             /\ C[ic].active_event = channel[ic].active_event
             /\ C[ic].processes_activated = channel[ic].processes_activated
  <2>1. channel[ic] \in ChannelType /\ <<Self>> \o channel[ic].wait \in Seq(Process)
    BY <1>0, <1>2 DEF ChannelType
  <2> QED BY <2>1 DEF ChannelType
<1>7. C \in [inChannel -> ChannelType]
  BY <1>6
<1> HIDE DEF P, C
<1>8. S \in StateType /\ S.process = P /\ S.channel = C /\ S.evtlist = evtlist
      /\ S.active_processes = active_processes
  BY <1>0, <1>4, <1>5, <1>7 DEF StateType
<1>9. QuitReady(S, o)
  BY <1>3, <1>6, <1>8 DEF QuitReady, P
<1>10. WaitsFor(S, o, ics, FALSE)
  BY <1>3, <1>6, <1>8, <1>9 DEF WaitsFor
<1> QED BY <1>1, <1>10, WaitsDone

\* The process ends.
LEMMA ForeverStep ==
  ASSUME IInv, waitForever
  PROVE  IInv' /\ active_processes' = Tail(active_processes)
<1> DEFINE p == Self
           o == process[p]
           D == deactivate_process(State, "terminating")
           T == [D EXCEPT !.process[p] = NoProcess]
           r == NoProcess
<1>0. TypeOK /\ States /\ Ready /\ Lists /\ Activity /\ Order /\ Places /\ Events /\ InLine
        /\ Times /\ Asked
  BY DEF IInv
<1>1. /\ context = "process" /\ context' = "timeline"
      /\ UNCHANGED <<arrivals, simclock, semaphores, timers, calls, asked>>
      /\ Becomes(T)
  BY Zenon DEF waitForever
<1>2. /\ active_processes # <<>> /\ active_processes \in Seq(Process)
      /\ p \in Process /\ o \in ProcessType /\ o.state = "running"
      /\ o.waiton = {} /\ ~o.static_sensitivity /\ ~o.hold_event
      /\ process \in [Process -> ProcessType]
  BY <1>1, SelfIs
<1>3. State \in StateType /\ State.process = process /\ State.channel = channel
      /\ State.evtlist = evtlist /\ State.active_processes = active_processes
  BY <1>0, Types, StateIs
<1>4. QuitReady(State, o)
  <2>1. process = [process EXCEPT ![Self] = o]
    BY <1>2
  <2> QED BY <1>2, <1>3, <2>1 DEF QuitReady, SameContext
<1>5. HasQuit(State, o, "terminating", D)
  BY <1>2, <1>4, QuitFrame
<1>6. /\ process' = T.process /\ channel' = T.channel /\ evtlist' = T.evtlist
      /\ active_processes' = T.active_processes
  BY <1>1, BecomesIs
<1> HIDE DEF D, o
<1>7. /\ T.process = [D.process EXCEPT ![p] = r] /\ T.channel = D.channel
      /\ T.evtlist = D.evtlist /\ T.active_processes = D.active_processes
  BY <1>5 DEF HasQuit
<1> HIDE DEF T
<1>8. /\ process' = [process EXCEPT ![p] = r] /\ evtlist' = evtlist
      /\ active_processes' = Tail(active_processes)
      /\ channel' \in [inChannel -> ChannelType]
      /\ \A ic \in inChannel : channel'[ic].wait = channel[ic].wait
      /\ Quits(channel', p)
  <2>1. /\ D.process = [process EXCEPT ![p] = Quit(o, "terminating")]
        /\ D.active_processes = Tail(active_processes) /\ D.evtlist = State.evtlist
        /\ D.channel \in [inChannel -> ChannelType]
        /\ \A ic \in inChannel : D.channel[ic].wait = State.channel[ic].wait
        /\ Quits(D.channel, p)
    BY <1>5 DEF HasQuit
  <2>2. [D.process EXCEPT ![p] = r] = [process EXCEPT ![p] = r]
    BY <1>2, <2>1
  <2> QED BY <1>3, <1>6, <1>7, <2>1, <2>2
<1>9. /\ r \in ProcessType /\ r.state = "none" /\ r.active_inchannel = None /\ r.waiton = {}
      /\ ~r.hold_event /\ StateOK(r)
  BY DEF NoProcess, NewProcess, ProcessType, StateOK
<1> HIDE DEF r, p
<1>10. Turns(p, r)
  BY <1>8, <1>9 DEF Turns
<1>11. /\ process' \in [Process -> ProcessType] /\ process'[p] = r
       /\ \A q \in Process : q # p => process'[q] = process[q]
  BY <1>0, <1>2, <1>10, TurnsIs
<1>12. TypeOK'
  <2>1. active_processes' \in Seq(Process)
    BY <1>2, <1>8
  <2> QED BY <1>0, <1>1, <1>8, <1>11, <2>1 DEF TypeOK, semaphores, timers
<1>13. States'
  BY <1>0, <1>2, <1>9, <1>10, StatesStep
<1>14. Ready'
  <2>1. active_processes # <<>> /\ Turns(Self, r) /\ r.state # "running"
        /\ active_processes' = Tail(active_processes)
    BY <1>2, <1>8, <1>9, <1>10 DEF p
  <2> QED BY <1>0, <1>1, <2>1, ReadyLeft
<1>15. Lists'
  BY <1>0, <1>2, <1>8, <1>9, <1>10, ListsKept DEF ListsStay, o
<1>16. Activity'
  BY <1>0, <1>2, <1>8, <1>9, <1>10, ActivityLeft
<1>17. Order' /\ Events' /\ InLine' /\ Times' /\ order' = order
  <2>1. \A q \in Process : /\ process'[q].state = "creating" <=> process[q].state = "creating"
                           /\ process'[q].hold_event <=> process[q].hold_event
                           /\ process[q].hold_event => asked'[q].until = asked[q].until
    BY <1>1, <1>2, <1>9, <1>11 DEF o
  <2> QED BY <1>1, <1>8, <2>1, EventsKept DEF timers
<1>18. Places'
  BY <1>0, <1>2, <1>10, <1>17, NotPlaced, PlacesKept DEF o
<1>19. Asked'
  BY <1>0, <1>1, <1>2, <1>9, <1>10, AskedKept
<1> QED BY <1>8, <1>12, <1>13, <1>14, <1>15, <1>16, <1>17, <1>18, <1>19 DEF IInv

-----------------------------------------------------------------------------
(* The other calls.                                                        *)

LEMMA WaitsOnStep ==
  ASSUME IInv, NEW p \in Process, NEW ics \in SUBSET inChannel, waitsOn(p, ics)
  PROVE  IInv'
<1> DEFINE r == [process[p] EXCEPT !.static_inchannels = ics]
<1>0. TypeOK /\ States /\ Ready /\ Lists /\ Activity /\ Order /\ Places /\ Events /\ InLine
        /\ Times /\ Asked
  BY DEF IInv
<1>1. /\ process' = [process EXCEPT ![p].static_inchannels = ics] /\ calls' = calls + 1
      /\ UNCHANGED <<channel, evtlist, active_processes, arrivals, simclock, context,
                     semaphores, timers, asked>>
  BY DEF waitsOn, AnyCall
<1>2. process \in [Process -> ProcessType] /\ process[p] \in ProcessType
  BY <1>0, Types
<1>3. /\ r \in ProcessType /\ SameContext(p, r) /\ r.state = process[p].state
      /\ r.waiton = process[p].waiton /\ r.hold_event = process[p].hold_event
      /\ r.static_sensitivity = process[p].static_sensitivity
      /\ r.process_timedout = process[p].process_timedout
  BY <1>2 DEF ProcessType, SameContext
<1>4. Turns(p, r)
  BY <1>1, <1>2, <1>3 DEF Turns
<1> HIDE DEF r
<1>5. /\ process' \in [Process -> ProcessType] /\ process'[p] = r
      /\ \A q \in Process : q # p => process'[q] = process[q]
  BY <1>0, <1>4, TurnsIs
<1>6. TypeOK'
  BY <1>0, <1>1, <1>5 DEF TypeOK, semaphores, timers
<1>7. States'
  <2>1. StateOK(r)
    BY <1>0, <1>3 DEF States, StateOK, SameContext
  <2> QED BY <1>0, <1>4, <2>1, StatesStep
<1>8. Ready'
  <2>1. context = "process" /\ p = Self => r.waiton = {} /\ ~r.static_sensitivity
    BY <1>0, <1>3 DEF Ready
  <2> QED BY <1>0, <1>1, <1>3, <1>4, <2>1, ReadyKept
<1>9. Lists'
  BY <1>0, <1>1, <1>3, <1>4, ListsKept DEF ListsStay
<1>10. Activity'
  BY <1>0, <1>1, <1>3, <1>4, ActivityKept DEF ActivityStays
<1>11. Order' /\ Events' /\ InLine' /\ Times' /\ order' = order
  <2>1. \A q \in Process : /\ process'[q].state = "creating" <=> process[q].state = "creating"
                           /\ process'[q].hold_event <=> process[q].hold_event
                           /\ process[q].hold_event => asked'[q].until = asked[q].until
    BY <1>1, <1>3, <1>5
  <2> QED BY <1>1, <2>1, EventsKept DEF timers
<1>12. Places'
  <2>1. \A q \in Process : /\ process'[q].state = process[q].state
                           /\ process'[q].waiton = process[q].waiton
                           /\ process'[q].static_sensitivity = process[q].static_sensitivity
                           /\ process'[q].hold_event = process[q].hold_event
    BY <1>3, <1>5
  <2>2. \A s \in Semaphore : \A k \in DOMAIN order[s] : order[s][k] \in Process
    BY <1>0 DEF TypeOK
  <2> QED BY <1>0, <1>11, <2>1, <2>2 DEF Places
<1>13. Asked'
  <2>1. r.state = "waiting" => /\ asked'[p].ics = r.waiton
                               /\ asked'[p].static = r.static_sensitivity
                               /\ asked'[p].until # Forever <=> r.hold_event
    BY <1>0, <1>1, <1>3 DEF Asked
  <2> QED BY <1>0, <1>1, <1>4, <2>1, AskedKept
<1> QED BY <1>6, <1>7, <1>8, <1>9, <1>10, <1>11, <1>12, <1>13 DEF IInv

\* The event is the one that has activated the process; it stays as long as others want it.
LEMMA ActiveEventStep ==
  ASSUME IInv, NEW ic \in inChannel, activeEvent(ic)
  PROVE  IInv'
<1> DEFINE p == Self
           r == [process[p] EXCEPT !.active_event_retrieved = TRUE]
           n == IF channel[ic].processes_activated > 1 THEN channel[ic].active_event ELSE None
           c == [channel[ic] EXCEPT !.active_event = n]
<1>0. TypeOK /\ States /\ Ready /\ Lists /\ Activity /\ Order /\ Places /\ Events /\ InLine
        /\ Times /\ Asked
  BY DEF IInv
<1>1. /\ context = "process" /\ calls' = calls + 1 /\ channel[ic].active_event # None
      /\ process' = [process EXCEPT ![p].active_event_retrieved = TRUE]
      /\ UNCHANGED <<evtlist, active_processes, arrivals, simclock, context, semaphores,
                     timers, asked>>
  BY DEF activeEvent, Call
<1>2. /\ p \in Process /\ process[p] \in ProcessType /\ process[p].state = "running"
      /\ process[p].waiton = {} /\ ~process[p].static_sensitivity /\ ~process[p].hold_event
      /\ process \in [Process -> ProcessType]
  BY <1>1, SelfIs
<1>3. channel' = [channel EXCEPT ![ic] = c]
  BY DEF activeEvent
<1>4. channel[ic] \in ChannelType /\ channel \in [inChannel -> ChannelType]
  BY <1>0, Types
<1>5. c \in ChannelType /\ c.wait = channel[ic].wait /\ c.active_event = n
      /\ c.processes_activated = channel[ic].processes_activated
  BY <1>4 DEF ChannelType
<1>6. /\ r \in ProcessType /\ r.state = "running" /\ r.waiton = {} /\ ~r.static_sensitivity
      /\ ~r.hold_event /\ r.active_inchannel = process[p].active_inchannel
      /\ r.active_event_retrieved
  BY <1>2 DEF ProcessType
<1>7. Turns(p, r)
  BY <1>1, <1>2, <1>6 DEF Turns
<1>8. p = Self
  OBVIOUS
<1> HIDE DEF r, c, p
<1>9. /\ process' \in [Process -> ProcessType] /\ process'[p] = r
      /\ \A q \in Process : q # p => process'[q] = process[q]
  BY <1>0, <1>2, <1>7, TurnsIs
<1>10. /\ channel' \in [inChannel -> ChannelType] /\ channel'[ic] = c
       /\ \A a \in inChannel : a # ic => channel'[a] = channel[a]
  BY <1>3, <1>4, <1>5
<1>11. TypeOK'
  BY <1>0, <1>1, <1>9, <1>10 DEF TypeOK, semaphores, timers
<1>12. States'
  <2>1. StateOK(r)
    BY <1>6 DEF StateOK
  <2> QED BY <1>0, <1>2, <1>7, <2>1, StatesStep
<1>13. Ready'
  BY <1>0, <1>1, <1>2, <1>6, <1>7, ReadyKept
<1>14. Lists'
  <2>1. ListsStay
    BY <1>5, <1>10 DEF ListsStay
  <2> QED BY <1>0, <1>2, <1>6, <1>7, <2>1, ListsKept
<1>15. Activity'
  <2>1. \A a : ActivatedBy(a)' = ActivatedBy(a)
    BY <1>6, <1>9 DEF ActivatedBy
  <2>2. \A q \in Process : process'[q].state = process[q].state
                           /\ process'[q].active_inchannel = process[q].active_inchannel
    BY <1>2, <1>6, <1>9
  <2>3. ASSUME NEW a \in inChannel
        PROVE  /\ channel'[a].processes_activated = Cardinality(ActivatedBy(a))
               /\ channel'[a].active_event # None => ActivatedBy(a) # {}
               /\ \A q \in ActivatedBy(a) :
                    ~process'[q].active_event_retrieved => channel'[a].active_event # None
    <3>1. /\ channel[a].processes_activated = Cardinality(ActivatedBy(a))
          /\ channel[a].active_event # None => ActivatedBy(a) # {}
          /\ \A q \in ActivatedBy(a) :
               ~process[q].active_event_retrieved => channel[a].active_event # None
      BY <1>0 DEF Activity
    <3>2. CASE a # ic
      <4>1. \A q \in ActivatedBy(a) :
              ~process'[q].active_event_retrieved => ~process[q].active_event_retrieved
        <5>1. \A q \in ActivatedBy(a) : q \in Process
          BY DEF ActivatedBy
        <5> QED BY <1>6, <1>9, <5>1
      <4> QED BY <1>10, <3>1, <3>2, <4>1
    <3>3. CASE a = ic
      <4>1. \A q \in ActivatedBy(ic) : ~process'[q].active_event_retrieved => q # p /\ q \in Process
        BY <1>6, <1>9 DEF ActivatedBy
      <4>2. p \in ActivatedBy(ic)
        <5>1. PICK q \in Process : process[q].active_inchannel = ic
          BY <1>1, <3>1, <3>3 DEF ActivatedBy
        <5>2. ic # None
          BY ProcessAssumption
        <5>3. process[q].state = "running"
          BY <1>0, <5>1, <5>2 DEF States, StateOK
        <5>4. process[p].active_inchannel = ic
          BY <1>0, <1>2, <5>1, <5>3 DEF Activity
        <5> QED BY <1>2, <5>4 DEF ActivatedBy
      <4>3. CASE channel[ic].processes_activated > 1
        BY <1>1, <1>5, <1>10, <3>1, <3>3, <4>3
      <4>4. CASE ~(channel[ic].processes_activated > 1)
        <5>1. IsFiniteSet(ActivatedBy(ic)) /\ Cardinality(ActivatedBy(ic)) \in Nat
          BY Counted
        <5>2. Cardinality(ActivatedBy(ic)) # 0
          BY <4>2, <5>1, FS_EmptySet
        <5>3. Cardinality(ActivatedBy(ic)) = 1
          BY <3>1, <3>3, <4>4, <5>1, <5>2
        <5>4. \A q \in ActivatedBy(ic) : q = p
          BY <4>2, <5>1, <5>3, FS_Singleton
        <5> QED BY <1>5, <1>10, <3>1, <3>3, <4>1, <4>2, <4>4, <5>4
      <4> QED BY <4>3, <4>4
    <3> QED BY <3>2, <3>3
  <2> QED BY <1>0, <2>1, <2>2, <2>3 DEF Activity
<1>16. Order' /\ Events' /\ InLine' /\ Times' /\ order' = order
  <2>1. \A q \in Process : /\ process'[q].state = "creating" <=> process[q].state = "creating"
                           /\ process'[q].hold_event <=> process[q].hold_event
                           /\ process[q].hold_event => asked'[q].until = asked[q].until
    BY <1>1, <1>2, <1>6, <1>9
  <2> QED BY <1>1, <2>1, EventsKept DEF timers
<1>17. Places'
  BY <1>0, <1>2, <1>7, <1>16, NotPlaced, PlacesKept
<1>18. Asked'
  <2>1. \A q \in Process : q # p => asked'[q] = asked[q]
    BY <1>1
  <2>2. r.state # "waiting"
    BY <1>6
  <2> QED BY <1>0, <1>2, <1>7, <2>1, <2>2, AskedKept
<1> QED BY <1>11, <1>12, <1>13, <1>14, <1>15, <1>16, <1>17, <1>18 DEF IInv

-----------------------------------------------------------------------------
(* Semaphores.                                                             *)

\* Who is on the processor has asked for nothing, so waits for its semaphore only.
Begun == context = "process" => asked[Self] = Nothing

LEMMA Difference ==
  ASSUME NEW a \in Nat, NEW b \in Nat, NEW n, n >= 0, n = a - b
  PROVE  n \in Nat /\ n <= a
OBVIOUS

LEMMA SubSeqAppend ==
  ASSUME NEW X, NEW s \in Seq(X), NEW x \in X, NEW n \in Nat, n <= Len(s)
  PROVE  SubSeq(Append(s, x), n + 1, Len(s) + 1) = Append(SubSeq(s, n + 1, Len(s)), x)
<1> DEFINE t == Append(s, x)
           b == SubSeq(s, n + 1, Len(s))
           c == SubSeq(t, n + 1, Len(s) + 1)
           m == Len(s) - n
<1>1. /\ t \in Seq(X) /\ Len(t) = Len(s) + 1 /\ t[Len(s) + 1] = x
      /\ \A k \in 1 .. Len(s) : t[k] = s[k]
  OBVIOUS
<1>2. Len(s) \in Nat /\ m \in Nat
  OBVIOUS
<1>3. b \in Seq(X) /\ Len(b) = m /\ \A k \in 1 .. m : b[k] = s[n + k]
  BY <1>2
<1> HIDE DEF t
<1>4. c \in Seq(X) /\ Len(c) = m + 1 /\ \A k \in 1 .. (m + 1) : c[k] = t[n + k]
  BY <1>1, <1>2
<1> HIDE DEF b, c
<1>5. /\ Append(b, x) \in Seq(X) /\ Len(Append(b, x)) = m + 1 /\ Append(b, x)[m + 1] = x
      /\ \A k \in 1 .. m : Append(b, x)[k] = b[k]
  BY <1>2, <1>3
<1>6. \A k \in 1 .. (m + 1) : c[k] = Append(b, x)[k]
  <2> SUFFICES ASSUME NEW k \in 1 .. (m + 1) PROVE c[k] = Append(b, x)[k]
    OBVIOUS
  <2>1. CASE k \in 1 .. m
    <3>1. n + k \in 1 .. Len(s)
      BY <1>2, <2>1
    <3> QED BY <1>1, <1>3, <1>4, <1>5, <2>1, <3>1
  <2>2. CASE k = m + 1
    <3>1. n + k = Len(s) + 1
      BY <1>2, <2>2
    <3> QED BY <1>1, <1>4, <1>5, <2>2, <3>1
  <2>3. k \in 1 .. m \/ k = m + 1
    <3> HIDE DEF m
    <3> QED BY <1>2
  <2> QED BY <2>1, <2>2, <2>3
<1> HIDE DEF m
<1>7. c = Append(b, x)
  BY <1>2, <1>4, <1>5, <1>6
<1> QED BY <1>7 DEF b, c, t

LEMMA PlacesStay ==
  ASSUME Places, order' = order, process' = process
  PROVE  Places'
BY DEF Places

\* A call counts down or up.
LEMMA CountDown ==
  ASSUME NEW s \in Semaphore, NEW b \in Nat, NEW c \in Int, Blocks(s, b, c)
  PROVE  Blocks(s, IF c > 0 THEN b ELSE b + 1, c - 1)
BY ProcessAssumption DEF Blocks

LEMMA CountUp ==
  ASSUME NEW s \in Semaphore, NEW b \in Nat, NEW c \in Int, Blocks(s, b, c)
  PROVE  Blocks(s, IF b = 0 THEN b ELSE b - 1, c + 1)
BY ProcessAssumption DEF Blocks

\* Only the count of s changes.
LEMMA CountStep ==
  ASSUME IInv, NEW s \in Semaphore, NEW n \in Int, sem_count' = [sem_count EXCEPT ![s] = n],
         Blocks(s, Len(blocked_processes[s]), n),
         UNCHANGED <<scheduling, blocked_processes, order, context, arrivals, simclock, timers, asked>>,
         calls' \in Nat
  PROVE  IInv' /\ active_processes' = active_processes
<1>0. TypeOK /\ States /\ Ready /\ Lists /\ Activity /\ Order /\ Places /\ Events /\ InLine
        /\ Times /\ Asked
  BY DEF IInv
<1>1. /\ process' = process /\ channel' = channel /\ active_processes' = active_processes
      /\ evtlist' = evtlist /\ order' = order /\ blocked_processes' = blocked_processes /\ asked' = asked
      /\ UNCHANGED <<arrivals, simclock, context, timer_event, fire_time, uncalled>>
  BY DEF scheduling, timers
<1>2. sem_count' \in [Semaphore -> Int] /\ sem_count'[s] = n
      /\ \A q \in Semaphore : q # s => sem_count'[q] = sem_count[q]
  BY <1>0 DEF TypeOK
<1>3. TypeOK'
  BY <1>0, <1>1, <1>2 DEF TypeOK
<1>4. States' /\ Lists' /\ Activity' /\ Ready'
  <2>1. UNCHANGED <<process, channel, active_processes>> /\ context' = context
    BY <1>1
  <2>2. context' = "callback" => active_processes = <<>>
    BY <1>0, <2>1 DEF Ready
  <2> QED BY <2>1, <2>2, QuietStep
<1>5. Order'
  <2>1. \A q \in Semaphore : Passing(q)' = Passing(q)
    BY <1>1 DEF Passing
  <2> QED BY <1>0, <1>1, <1>2, <2>1 DEF Order
<1>6. Places' /\ Times' /\ Asked'
  <2>1. Places'
    BY <1>0, <1>1, PlacesStay
  <2>2. Times'
    BY <1>0, <1>1 DEF Times
  <2>3. Asked'
    BY <1>0, <1>1 DEF Asked
  <2> QED BY <2>1, <2>2, <2>3
<1>7. InLine'
  <2>1. Edited(evtlist, evtlist', {}, {})
    <3>1. evtlist \in Seq(KernelEvent)
      BY <1>0, Types
    <3> QED BY <1>1, <3>1, EditedNone
  <2>2. SameOrder
    BY <1>1 DEF SameOrder, Passing
  <2> QED BY <1>0, <2>1, <2>2, InLineKept
<1>8. Events'
  BY <1>0, <1>1 DEF Events, HasEvent, IsReleased, Passing
<1> QED BY <1>1, <1>3, <1>4, <1>5, <1>6, <1>7, <1>8 DEF IInv

\* The process on the processor waits for a semaphore.
LEMMA BlockStep ==
  ASSUME IInv, Begun, NEW s \in Semaphore, wait(s), ~(sem_count[s] > 0)
  PROVE  IInv' /\ active_processes' = Tail(active_processes)
<1> DEFINE p == Self
           o == process[p]
           r == Quit(o, "waiting")
           B == blocked_processes[s]
           O == order[s]
<1>0. TypeOK /\ States /\ Ready /\ Lists /\ Activity /\ Order /\ Places /\ Events /\ InLine
        /\ Times /\ Asked
  BY DEF IInv
<1>1. /\ context = "process" /\ context' = "timeline" /\ calls' = calls + 1
      /\ sem_count' = [sem_count EXCEPT ![s] = sem_count[s] - 1]
      /\ Becomes(deactivate_process(State, "waiting"))
      /\ blocked_processes' = [blocked_processes EXCEPT ![s] = Append(B, p)]
      /\ order' = [order EXCEPT ![s] = Append(O, p)]
      /\ UNCHANGED <<arrivals, simclock, timers, asked>>
  BY DEF wait, Call
<1>2. /\ active_processes # <<>> /\ active_processes \in Seq(Process)
      /\ p \in Process /\ o \in ProcessType /\ o.state = "running"
      /\ o.waiton = {} /\ ~o.static_sensitivity /\ ~o.hold_event
      /\ process \in [Process -> ProcessType]
  BY <1>1, SelfIs
<1>3. State \in StateType /\ State.process = process /\ State.channel = channel
      /\ State.evtlist = evtlist /\ State.active_processes = active_processes
  BY <1>0, Types, StateIs
<1>4. QuitReady(State, o)
  <2>1. process = [process EXCEPT ![Self] = o]
    BY <1>2
  <2> QED BY <1>2, <1>3, <2>1 DEF QuitReady, SameContext
<1>5. /\ process' = [process EXCEPT ![p] = r] /\ evtlist' = evtlist
      /\ active_processes' = Tail(active_processes)
      /\ channel' \in [inChannel -> ChannelType]
      /\ \A ic \in inChannel : channel'[ic].wait = channel[ic].wait
      /\ Quits(channel', p)
  <2> DEFINE D == deactivate_process(State, "waiting")
  <2>1. HasQuit(State, o, "waiting", D)
    BY <1>2, <1>4, QuitFrame
  <2>2. /\ process' = D.process /\ channel' = D.channel /\ evtlist' = D.evtlist
        /\ active_processes' = D.active_processes
    BY <1>1, BecomesIs
  <2> HIDE DEF D
  <2> QED BY <1>3, <2>1, <2>2 DEF HasQuit
<1>6. /\ r \in ProcessType /\ r.state = "waiting" /\ r.active_inchannel = None /\ r.waiton = {}
      /\ ~r.hold_event /\ ~r.static_sensitivity /\ StateOK(r)
  BY <1>2 DEF Quit, ProcessType, StateOK
<1>7. Turns(p, r)
  BY <1>5, <1>6 DEF Turns
<1>8. p = Self
  OBVIOUS
<1> HIDE DEF r, p
<1>9. /\ process' \in [Process -> ProcessType] /\ process'[p] = r
      /\ \A q \in Process : q # p => process'[q] = process[q]
  BY <1>0, <1>2, <1>7, TurnsIs
<1>10. O \in Seq(Process) /\ B \in Seq(Process) /\ sem_count[s] \in Int
  BY <1>0 DEF TypeOK
<1>11. /\ order' \in [Semaphore -> Seq(Process)] /\ order'[s] = Append(O, p)
       /\ blocked_processes' \in [Semaphore -> Seq(Process)]
       /\ blocked_processes'[s] = Append(B, p)
       /\ sem_count' \in [Semaphore -> Int] /\ sem_count'[s] = sem_count[s] - 1
       /\ \A q \in Semaphore : q # s => /\ order'[q] = order[q] /\ sem_count'[q] = sem_count[q]
                                        /\ blocked_processes'[q] = blocked_processes[q]
  <2>1. Append(O, p) \in Seq(Process) /\ Append(B, p) \in Seq(Process) /\ sem_count[s] - 1 \in Int
    BY <1>2, <1>10
  <2> HIDE DEF O, B
  <2> QED BY <1>0, <1>1, <2>1 DEF TypeOK
<1>12. /\ DOMAIN order'[s] = 1 .. (Len(O) + 1) /\ order'[s][Len(O) + 1] = p
       /\ \A k \in 1 .. Len(O) : order'[s][k] = O[k]
       /\ DOMAIN O = 1 .. Len(O) /\ Len(O) \in Nat
       /\ Len(order'[s]) = Len(O) + 1 /\ Len(blocked_processes'[s]) = Len(B) + 1
  <2> HIDE DEF O, B
  <2> QED BY <1>2, <1>10, <1>11
<1>13. \A q \in Semaphore : Passing(q)' = Passing(q) /\ Passing(q) \in Nat
                            /\ Passing(q) <= Len(order[q])
  <2> SUFFICES ASSUME NEW q \in Semaphore
               PROVE  Passing(q)' = Passing(q) /\ Passing(q) \in Nat /\ Passing(q) <= Len(order[q])
    OBVIOUS
  <2>1. Len(order[q]) \in Nat /\ Len(blocked_processes[q]) \in Nat /\ Passing(q) >= 0
    BY <1>0 DEF TypeOK, Order
  <2>2. Passing(q)' = Passing(q)
    <3>1. CASE q = s
      <4>1. Passing(s)' = Len(order'[s]) - Len(blocked_processes'[s])
        BY DEF Passing
      <4>2. Passing(s) = Len(O) - Len(B) /\ Len(B) \in Nat
        BY <2>1, <3>1 DEF Passing
      <4> HIDE DEF O, B
      <4> QED BY <1>12, <3>1, <4>1, <4>2
    <3>2. CASE q # s
      BY <1>11, <3>2 DEF Passing
    <3> QED BY <3>1, <3>2
  <2>3. Passing(q) = Len(order[q]) - Len(blocked_processes[q])
    BY DEF Passing
  <2>4. Passing(q) \in Nat /\ Passing(q) <= Len(order[q])
    <3> DEFINE n == Passing(q)
    <3>1. n >= 0 /\ n = Len(order[q]) - Len(blocked_processes[q])
      BY <2>1, <2>3
    <3> HIDE DEF n
    <3>2. n \in Nat /\ n <= Len(order[q])
      BY <2>1, <3>1, Difference
    <3> QED BY <3>2 DEF n
  <2> QED BY <2>2, <2>4
<1>14. SameOrder
  <2> SUFFICES ASSUME NEW q \in Semaphore, NEW k \in 1 .. Passing(q)
               PROVE  order'[q][k] = order[q][k]
    BY <1>13 DEF SameOrder
  <2>1. Passing(q) \in Nat /\ Passing(q) <= Len(order[q])
    BY <1>13
  <2>2. CASE q = s
    <3>1. k \in 1 .. Len(O)
      BY <1>12, <2>1, <2>2
    <3> HIDE DEF O
    <3> QED BY <1>12, <2>2, <3>1 DEF O
  <2>3. CASE q # s
    BY <1>11, <2>3
  <2> QED BY <2>2, <2>3
<1>15. \A q : IsReleased(q)' <=> IsReleased(q)
  BY <1>13, <1>14 DEF IsReleased, SameOrder
<1>16. Order'
  <2> SUFFICES ASSUME NEW q \in Semaphore
               PROVE  /\ Passing(q)' >= 0
                      /\ blocked_processes'[q] = SubSeq(order'[q], Passing(q)' + 1, Len(order'[q]))
                      /\ Blocks(q, Len(blocked_processes'[q]), sem_count'[q])
    BY DEF Order
  <2>1. Passing(q)' = Passing(q) /\ Passing(q) \in Nat
    BY <1>13
  <2>2. CASE q # s
    BY <1>0, <1>11, <2>1, <2>2 DEF Order
  <2>3. CASE q = s
    <3> DEFINE n == Passing(s)
    <3>1. n \in Nat /\ n = Len(O) - Len(B) /\ Len(B) \in Nat /\ Len(O) \in Nat
      <4>1. n = Len(O) - Len(B)
        BY DEF Passing
      <4>2. n \in Nat
        BY <1>13
      <4> HIDE DEF n, O, B
      <4> QED BY <1>10, <4>1, <4>2
    <3>2. B = SubSeq(O, n + 1, Len(O)) /\ Blocks(s, Len(B), sem_count[s])
      BY <1>0 DEF Order
    <3> HIDE DEF n
    <3>3. Append(B, p) = SubSeq(Append(O, p), n + 1, Len(O) + 1)
      <4> HIDE DEF B, O
      <4>1. n <= Len(O)
        BY <3>1
      <4>2. SubSeq(Append(O, p), n + 1, Len(O) + 1) = Append(SubSeq(O, n + 1, Len(O)), p)
        BY <1>2, <1>10, <3>1, <4>1, SubSeqAppend
      <4> QED BY <3>2, <4>2
    <3>4. Blocks(s, Len(Append(B, p)), sem_count[s] - 1)
      <4> HIDE DEF B
      <4>1. Len(Append(B, p)) = Len(B) + 1
        BY <1>2, <1>10
      <4> QED BY <1>1, <1>10, <3>1, <3>2, <4>1, CountDown
    <3>5. Passing(s)' = n /\ n >= 0
      BY <2>1, <2>3, <3>1 DEF n
    <3>6. Len(order'[s]) = Len(O) + 1
      BY <1>12
    <3>7. /\ blocked_processes'[s] = Append(B, p) /\ order'[s] = Append(O, p)
          /\ sem_count'[s] = sem_count[s] - 1
      BY <1>11
    <3> HIDE DEF O, B
    <3>8. /\ Passing(s)' >= 0
          /\ blocked_processes'[s] = SubSeq(order'[s], Passing(s)' + 1, Len(order'[s]))
          /\ Blocks(s, Len(blocked_processes'[s]), sem_count'[s])
      BY <3>3, <3>4, <3>5, <3>6, <3>7
    <3> QED BY <2>3, <3>8
  <2> QED BY <2>2, <2>3
<1>17. ~Placed(p)
  BY <1>0, <1>2, NotPlaced DEF o
<1>18. Places'
  <2>1. \A q \in Semaphore : \A k \in DOMAIN order'[q] :
          \/ q = s /\ k = Len(O) + 1 /\ order'[q][k] = p
          \/ k \in DOMAIN order[q] /\ order'[q][k] = order[q][k] /\ order[q][k] # p
             /\ order[q][k] \in Process
    <3> SUFFICES ASSUME NEW q \in Semaphore, NEW k \in DOMAIN order'[q]
                 PROVE  \/ q = s /\ k = Len(O) + 1 /\ order'[q][k] = p
                        \/ k \in DOMAIN order[q] /\ order'[q][k] = order[q][k] /\ order[q][k] # p
                           /\ order[q][k] \in Process
      OBVIOUS
    <3>1. order[q] \in Seq(Process)
      BY <1>0 DEF TypeOK
    <3>2. k \in DOMAIN order[q] => order[q][k] # p /\ order[q][k] \in Process
      BY <1>17, <3>1 DEF Placed
    <3>3. CASE q # s
      BY <1>11, <3>2, <3>3
    <3>4. CASE q = s
      <4>1. k \in 1 .. (Len(O) + 1)
        BY <1>12, <3>4
      <4> HIDE DEF O
      <4>2. k = Len(O) + 1 \/ k \in 1 .. Len(O)
        BY <1>12, <4>1
      <4> QED BY <1>12, <3>2, <3>4, <4>2 DEF O
    <3> QED BY <3>3, <3>4
  <2>2. \A q, u \in Semaphore : \A k \in DOMAIN order'[q], l \in DOMAIN order'[u] :
          order'[q][k] = order'[u][l] => q = u /\ k = l
    BY <1>0, <2>1 DEF Places
  <2>3. \A q \in Semaphore : \A k \in DOMAIN order'[q] :
          LET x == process'[order'[q][k]] IN
          x.state = "waiting" /\ x.waiton = {} /\ ~x.static_sensitivity /\ ~x.hold_event
    <3> SUFFICES ASSUME NEW q \in Semaphore, NEW k \in DOMAIN order'[q]
                 PROVE  LET x == process'[order'[q][k]] IN
                        x.state = "waiting" /\ x.waiton = {} /\ ~x.static_sensitivity
                        /\ ~x.hold_event
      OBVIOUS
    <3>1. CASE q = s /\ k = Len(O) + 1 /\ order'[q][k] = p
      BY <1>6, <1>9, <3>1
    <3>2. CASE k \in DOMAIN order[q] /\ order'[q][k] = order[q][k] /\ order[q][k] # p
               /\ order[q][k] \in Process
      BY <1>0, <1>9, <3>2 DEF Places
    <3> QED BY <2>1, <3>1, <3>2
  <2> QED BY <2>2, <2>3 DEF Places
<1>19. TypeOK'
  <2>1. active_processes' \in Seq(Process)
    BY <1>2, <1>5
  <2> QED BY <1>0, <1>1, <1>5, <1>9, <1>11, <2>1 DEF TypeOK, timers
<1>20. States'
  BY <1>0, <1>2, <1>6, <1>7, StatesStep
<1>21. Ready'
  <2>1. active_processes # <<>> /\ Turns(Self, r) /\ r.state # "running"
        /\ active_processes' = Tail(active_processes)
    BY <1>2, <1>5, <1>6, <1>7, <1>8
  <2> QED BY <1>0, <1>1, <2>1, ReadyLeft
<1>22. Lists'
  BY <1>0, <1>2, <1>5, <1>6, <1>7, ListsKept DEF ListsStay
<1>23. Activity'
  BY <1>0, <1>2, <1>5, <1>6, <1>7, ActivityLeft
<1>24. Edited(evtlist, evtlist', {}, {})
  <2>1. evtlist \in Seq(KernelEvent)
    BY <1>0, Types
  <2> QED BY <1>5, <2>1, EditedNone
<1>25. InLine'
  BY <1>0, <1>14, <1>24, InLineKept
<1>26. Events'
  <2>1. \A kind, x : HasEvent(kind, x)' <=> HasEvent(kind, x)
    BY <1>5 DEF HasEvent
  <2>2. \A q \in Process : /\ process'[q].state = "creating" <=> process[q].state = "creating"
                           /\ process'[q].hold_event <=> process[q].hold_event
    BY <1>2, <1>6, <1>9
  <2>3. \A q \in Process :
          /\ HasEvent("process", q)' <=> process'[q].state = "creating"
          /\ HasEvent("hold", q)' <=> process'[q].hold_event
          /\ HasEvent("semaphore", q)' <=> IsReleased(q)'
    BY <1>0, <1>15, <2>1, <2>2 DEF Events
  <2>4. /\ \A t \in Timer : HasEvent("timer", t)' <=> timer_event'[t]
        /\ \A i, j \in DOMAIN evtlist' : evtlist'[i].kind = evtlist'[j].kind
                                          /\ evtlist'[i].who = evtlist'[j].who => i = j
        /\ \A i \in DOMAIN evtlist' :
             evtlist'[i].who \in (IF evtlist'[i].kind = "timer" THEN Timer ELSE Process)
    BY <1>0, <1>1, <1>5, <2>1 DEF Events, timers
  <2> QED BY <2>3, <2>4 DEF Events
<1>27. Times'
  BY <1>0, <1>1, <1>5 DEF Times, timers
<1>28. Asked'
  <2>1. r.state = "waiting" => /\ asked'[p].ics = r.waiton
                               /\ asked'[p].static = r.static_sensitivity
                               /\ asked'[p].until # Forever <=> r.hold_event
    <3>1. asked'[p] = Nothing
      BY <1>1, <1>8 DEF Begun
    <3>2. r.static_sensitivity = FALSE /\ Nothing.static = FALSE /\ Nothing.ics = {}
          /\ Nothing.until = Forever
      BY <1>6 DEF Nothing, ProcessType
    <3> QED BY <1>6, <3>1, <3>2
  <2> QED BY <1>0, <1>1, <1>2, <1>7, <2>1, AskedKept
<1> QED BY <1>5, <1>16, <1>18, <1>19, <1>20, <1>21, <1>22, <1>23, <1>25, <1>26, <1>27, <1>28 DEF IInv

LEMMA WaitStep ==
  ASSUME IInv, Begun, NEW s \in Semaphore, wait(s)
  PROVE  /\ IInv' /\ arrivals' = arrivals /\ simclock' = simclock /\ asked' = asked
         /\ \/ active_processes' = active_processes /\ context' = context
            \/ active_processes' = Tail(active_processes) /\ context' = "timeline"
<1>0. arrivals' = arrivals /\ simclock' = simclock /\ asked' = asked
  BY DEF wait
<1>1. CASE sem_count[s] > 0
  <2> DEFINE n == sem_count[s] - 1
  <2>1. sem_count[s] \in Int /\ calls \in Nat
    BY DEF IInv, TypeOK
  <2>2. /\ sem_count' = [sem_count EXCEPT ![s] = n] /\ calls' = calls + 1
        /\ UNCHANGED <<scheduling, blocked_processes, order, context, arrivals, simclock, timers,
                       asked>>
    BY <1>1 DEF wait, Call
  <2>3. n \in Int /\ Blocks(s, Len(blocked_processes[s]), n) /\ calls' \in Nat
    <3>1. blocked_processes[s] \in Seq(Process) /\ Blocks(s, Len(blocked_processes[s]), sem_count[s])
      BY DEF IInv, TypeOK, Order
    <3>2. Len(blocked_processes[s]) \in Nat
      BY <3>1
    <3>3. Blocks(s, Len(blocked_processes[s]), n)
      BY <1>1, <2>1, <3>1, <3>2, CountDown
    <3> QED BY <2>1, <2>2, <3>3
  <2> HIDE DEF n
  <2>4. IInv' /\ active_processes' = active_processes
    BY <2>2, <2>3, CountStep
  <2> QED BY <1>0, <2>2, <2>4
<1>2. CASE ~(sem_count[s] > 0)
  <2>1. IInv' /\ active_processes' = Tail(active_processes)
    BY <1>2, BlockStep
  <2>2. context' = "timeline"
    BY <1>2 DEF wait
  <2> QED BY <1>0, <2>1, <2>2
<1> QED BY <1>1, <1>2

LEMMA SubSeqTail ==
  ASSUME NEW X, NEW s \in Seq(X), NEW n \in Nat, NEW b, b = SubSeq(s, n + 1, Len(s)), b # <<>>
  PROVE  /\ n + 1 \in 1 .. Len(s) /\ Head(b) = s[n + 1] /\ Head(b) \in X
         /\ Tail(b) = SubSeq(s, n + 2, Len(s)) /\ Len(Tail(b)) = Len(b) - 1 /\ Len(b) = Len(s) - n
<1>1. n + 1 \in 1 .. Len(s) /\ Len(s) \in Nat
  OBVIOUS
<1> DEFINE m == Len(s) - n
           c == SubSeq(s, n + 2, Len(s))
<1>2. m \in Nat /\ m >= 1
  BY <1>1
<1>3. b \in Seq(X) /\ Len(b) = m /\ \A k \in 1 .. m : b[k] = s[n + k]
  BY <1>1
<1>4. c \in Seq(X) /\ Len(c) = m - 1 /\ \A k \in 1 .. (m - 1) : c[k] = s[n + 1 + k]
  BY <1>1
<1> HIDE DEF c
<1>5. Tail(b) \in Seq(X) /\ Len(Tail(b)) = m - 1 /\ Head(b) = b[1]
      /\ \A k \in 1 .. (m - 1) : Tail(b)[k] = b[k + 1]
  <2> HIDE DEF m
  <2> QED BY <1>2, <1>3
<1>6. \A k \in 1 .. (m - 1) : Tail(b)[k] = c[k]
  <2> SUFFICES ASSUME NEW k \in 1 .. (m - 1) PROVE Tail(b)[k] = c[k]
    OBVIOUS
  <2>1. k + 1 \in 1 .. m /\ n + (k + 1) = n + 1 + k
    <3> HIDE DEF m
    <3> QED BY <1>2
  <2> HIDE DEF m
  <2> QED BY <1>3, <1>4, <1>5, <2>1
<1> HIDE DEF m
<1>7. Tail(b) = c
  <2> DEFINE t == Tail(b)
  <2>1. t \in Seq(X) /\ Len(t) = m - 1 /\ \A k \in 1 .. (m - 1) : t[k] = c[k]
    BY <1>5, <1>6
  <2> HIDE DEF t
  <2>2. t = c
    BY <1>4, <2>1
  <2> QED BY <2>2 DEF t
<1>8. Head(b) = s[n + 1] /\ Head(b) \in X
  BY <1>1, <1>2, <1>3, <1>5
<1> QED BY <1>1, <1>3, <1>5, <1>7, <1>8 DEF c, m

\* T is S with one more event.
Inserted(S, e, T) ==
  /\ T.process = S.process /\ T.channel = S.channel /\ T.active_processes = S.active_processes
  /\ T.evtlist = Append(S.evtlist, e)
LEMMA InsertIs ==
  ASSUME NEW S \in StateType, NEW kind, NEW who, NEW time
  PROVE  Inserted(S, [kind |-> kind, who |-> who, time |-> time], insert_event(S, kind, who, time))
<1> DEFINE e == [kind |-> kind, who |-> who, time |-> time]
           E == Append(S.evtlist, e)
<1>1. insert_event(S, kind, who, time) = [S EXCEPT !.evtlist = E]
  BY DEF insert_event
<1> HIDE DEF E
<1>2. Inserted(S, e, [S EXCEPT !.evtlist = E]) <=> E = Append(S.evtlist, e)
  BY DEF Inserted, StateType
<1> QED BY <1>1, <1>2 DEF E

\* A semaphore releases the one that has waited longest.
LEMMA ReleaseStep ==
  ASSUME IInv, NEW s \in Semaphore, signal(s), blocked_processes[s] # <<>>
  PROVE  IInv' /\ active_processes' = active_processes
<1> DEFINE B == blocked_processes[s]
           O == order[s]
           n == Passing(s)
           p == Head(B)
           e == [kind |-> "semaphore", who |-> p, time |-> simclock]
<1>0. TypeOK /\ States /\ Ready /\ Lists /\ Activity /\ Order /\ Places /\ Events /\ InLine
        /\ Times /\ Asked
  BY DEF IInv
<1>1. /\ calls' = calls + 1 /\ sem_count' = [sem_count EXCEPT ![s] = sem_count[s] + 1]
      /\ blocked_processes' = [blocked_processes EXCEPT ![s] = Tail(B)]
      /\ Becomes(insert_event(State, "semaphore", p, simclock))
      /\ UNCHANGED <<arrivals, simclock, context, order, timers, asked>>
  BY DEF signal, AnyCall
<1>2. O \in Seq(Process) /\ B \in Seq(Process) /\ sem_count[s] \in Int /\ simclock \in Nat
      /\ evtlist \in Seq(KernelEvent)
  BY <1>0, Types DEF TypeOK
<1>3. n \in Nat /\ B = SubSeq(O, n + 1, Len(O)) /\ n = Len(O) - Len(B)
      /\ Blocks(s, Len(B), sem_count[s]) /\ B # <<>>
  <2>1. /\ n >= 0 /\ B = SubSeq(O, n + 1, Len(O))
        /\ Blocks(s, Len(B), sem_count[s])
    BY <1>0 DEF Order
  <2>2. n = Len(O) - Len(B)
    BY DEF Passing
  <2> HIDE DEF n, O, B
  <2>3. Len(O) \in Nat /\ Len(B) \in Nat
    BY <1>2
  <2>4. n \in Nat
    BY <2>1, <2>2, <2>3, Difference
  <2> QED BY <2>1, <2>2, <2>4 DEF B
<1> HIDE DEF n, O, B
<1>4. /\ n + 1 \in 1 .. Len(O) /\ p = O[n + 1] /\ p \in Process
      /\ Tail(B) = SubSeq(O, n + 2, Len(O)) /\ Len(Tail(B)) = Len(B) - 1
  <2>1. /\ n + 1 \in 1 .. Len(O) /\ Head(B) = O[n + 1] /\ Head(B) \in Process
        /\ Tail(B) = SubSeq(O, n + 2, Len(O)) /\ Len(Tail(B)) = Len(B) - 1
        /\ Len(B) = Len(O) - n
    <3>1. O \in Seq(Process) /\ n \in Nat /\ B = SubSeq(O, n + 1, Len(O)) /\ B # <<>>
      BY <1>2, <1>3
    <3> QED BY <3>1, SubSeqTail
  <2> QED BY <2>1
<1>5. e \in KernelEvent /\ e.kind = "semaphore" /\ e.who = p /\ e.time = simclock
  BY <1>2, <1>4 DEF KernelEvent
<1>6. /\ process' = process /\ channel' = channel /\ active_processes' = active_processes
      /\ evtlist' = Append(evtlist, e)
  <2> DEFINE T == insert_event(State, "semaphore", p, simclock)
  <2>1. State \in StateType /\ State.process = process /\ State.channel = channel
        /\ State.evtlist = evtlist /\ State.active_processes = active_processes
    BY <1>0, Types, StateIs
  <2>2. Inserted(State, e, T)
    BY <2>1, InsertIs
  <2>3. /\ process' = T.process /\ channel' = T.channel /\ evtlist' = T.evtlist
        /\ active_processes' = T.active_processes
    BY <1>1, BecomesIs
  <2> HIDE DEF T, e
  <2> QED BY <2>1, <2>2, <2>3 DEF Inserted
<1> HIDE DEF e, p
<1>7. Edited(evtlist, evtlist', {}, {e}) /\ {e} \in SUBSET KernelEvent
  BY <1>2, <1>5, <1>6, EditedNew
<1>8. /\ blocked_processes' \in [Semaphore -> Seq(Process)] /\ blocked_processes'[s] = Tail(B)
      /\ sem_count' \in [Semaphore -> Int] /\ sem_count'[s] = sem_count[s] + 1
      /\ \A q \in Semaphore : q # s => /\ sem_count'[q] = sem_count[q]
                                       /\ blocked_processes'[q] = blocked_processes[q]
  <2>1. Tail(B) \in Seq(Process) /\ sem_count[s] + 1 \in Int
    <3>1. B \in Seq(Process) /\ B # <<>>
      BY <1>2, <1>3
    <3>2. Tail(B) \in Seq(Process)
      BY <3>1
    <3> QED BY <1>2, <3>2
  <2> QED BY <1>0, <1>1, <2>1 DEF TypeOK
<1>9. order' = order
  BY <1>1
<1>10. \A q \in Semaphore : Passing(q)' = IF q = s THEN n + 1 ELSE Passing(q)
  <2> SUFFICES ASSUME NEW q \in Semaphore
               PROVE  Passing(q)' = IF q = s THEN n + 1 ELSE Passing(q)
    OBVIOUS
  <2>1. CASE q # s
    BY <1>8, <1>9, <2>1 DEF Passing
  <2>2. CASE q = s
    <3>1. Passing(s)' = Len(O) - Len(blocked_processes'[s])
      BY <1>9 DEF Passing, O
    <3>2. Len(O) \in Nat /\ Len(B) \in Nat
      BY <1>2
    <3>3. Len(blocked_processes'[s]) = Len(B) - 1 /\ n = Len(O) - Len(B)
      BY <1>3, <1>4, <1>8
    <3>4. \A a, b \in Nat : a - (b - 1) = (a - b) + 1
      OBVIOUS
    <3>5. Passing(s)' = n + 1
      BY <3>1, <3>2, <3>3, <3>4
    <3> QED BY <2>2, <3>5
  <2> QED BY <2>1, <2>2
<1>p. Passing(s)' = n + 1 /\ n = Passing(s)
  BY <1>10 DEF n
<1>11. \A q \in Semaphore : /\ Passing(q) \in Nat
                            /\ \A k \in 1 .. Passing(q) : k \in DOMAIN order[q]
  <2> SUFFICES ASSUME NEW q \in Semaphore
               PROVE  Passing(q) \in Nat /\ \A k \in 1 .. Passing(q) : k \in DOMAIN order[q]
    OBVIOUS
  <2> DEFINE x == Passing(q)
  <2>1. /\ order[q] \in Seq(Process) /\ Len(order[q]) \in Nat /\ Len(blocked_processes[q]) \in Nat
        /\ x >= 0
    BY <1>0 DEF TypeOK, Order
  <2>2. x = Len(order[q]) - Len(blocked_processes[q])
    BY DEF Passing
  <2> HIDE DEF x
  <2>3. x \in Nat /\ x <= Len(order[q])
    BY <2>1, <2>2, Difference
  <2>4. DOMAIN order[q] = 1 .. Len(order[q])
    BY <2>1
  <2>5. \A k \in 1 .. x : k \in 1 .. Len(order[q])
    BY <2>1, <2>3
  <2> QED BY <2>3, <2>4, <2>5 DEF x
<1>12. n + 1 \in DOMAIN order[s] /\ order[s][n + 1] = p /\ n = Passing(s)
  BY <1>2, <1>4 DEF O, n
<1>13. \A q \in Semaphore : \A k \in 1 .. Passing(q) : order[q][k] # p
  <2> SUFFICES ASSUME NEW q \in Semaphore, NEW k \in 1 .. Passing(q), order[q][k] = p
               PROVE  FALSE
    OBVIOUS
  <2>1. q = s /\ k = n + 1
    BY <1>0, <1>11, <1>12 DEF Places
  <2> QED BY <1>3, <1>12, <2>1
<1>14. ~HasEvent("semaphore", p)
  BY <1>0, <1>4, <1>13 DEF Events, IsReleased
<1>15. \A q : IsReleased(q)' <=> IsReleased(q) \/ q = p
  <2>1. ASSUME NEW q, IsReleased(q)'
        PROVE  IsReleased(q) \/ q = p
    <3>1. PICK u \in Semaphore : \E k \in 1 .. Passing(u)' : order[u][k] = q
      BY <1>9, <2>1 DEF IsReleased
    <3>2. PICK k \in 1 .. Passing(u)' : order[u][k] = q
      BY <3>1
    <3>3. CASE u # s
      BY <1>10, <3>2, <3>3 DEF IsReleased
    <3>4. CASE u = s
      <4>1. k \in 1 .. n \/ k = n + 1
        <5>1. k \in 1 .. (n + 1)
          BY <1>p, <3>4
        <5> QED BY <1>3, <5>1
      <4> QED BY <1>12, <3>2, <3>4, <4>1 DEF IsReleased
    <3> QED BY <3>3, <3>4
  <2>2. ASSUME NEW q, IsReleased(q)
        PROVE  IsReleased(q)'
    <3>1. PICK u \in Semaphore : \E k \in 1 .. Passing(u) : order[u][k] = q
      BY <2>2 DEF IsReleased
    <3>2. PICK k \in 1 .. Passing(u) : order[u][k] = q
      BY <3>1
    <3>3. k \in 1 .. Passing(u)'
      <4>1. CASE u = s
        <5>1. k \in 1 .. n
          BY <1>p, <3>2, <4>1
        <5>2. k \in 1 .. (n + 1)
          BY <1>3, <5>1
        <5> QED BY <1>p, <4>1, <5>2
      <4>2. CASE u # s
        BY <1>10, <3>2, <4>2
      <4> QED BY <4>1, <4>2
    <3> QED BY <1>9, <3>2, <3>3 DEF IsReleased
  <2>3. ASSUME NEW q, q = p
        PROVE  IsReleased(q)'
    <3>1. n + 1 \in 1 .. (n + 1)
      <4>1. n \in Nat
        BY <1>3
      <4> QED BY <4>1
    <3>2. n + 1 \in 1 .. Passing(s)'
      BY <1>p, <3>1
    <3> QED BY <1>9, <1>12, <2>3, <3>2 DEF IsReleased
  <2> QED BY <2>1, <2>2, <2>3
<1>16. /\ evtlist' \in Seq(KernelEvent) /\ Unique(evtlist')
       /\ \A j \in DOMAIN evtlist' :
            evtlist'[j].who \in (IF evtlist'[j].kind = "timer" THEN Timer ELSE Process)
       /\ \A kind, x : HasEvent(kind, x)' <=> \/ HasEvent(kind, x)
                                              \/ kind = "semaphore" /\ x = p
  <2>1. {} \in SUBSET DOMAIN evtlist
    OBVIOUS
  <2>2. \A f \in {e} : /\ f.who \in (IF f.kind = "timer" THEN Timer ELSE Process)
                       /\ ~HasEvent(f.kind, f.who) \/ Gone({}, f.kind, f.who)
    BY <1>4, <1>5, <1>14
  <2>3. /\ evtlist' \in Seq(KernelEvent) /\ Unique(evtlist')
        /\ \A j \in DOMAIN evtlist' :
             evtlist'[j].who \in (IF evtlist'[j].kind = "timer" THEN Timer ELSE Process)
        /\ \A kind, x : HasEvent(kind, x)' <=> \/ HasEvent(kind, x) /\ ~Gone({}, kind, x)
                                               \/ Comes({e}, kind, x)
    BY <1>0, <1>7, <2>1, <2>2, EventsStep
  <2>4. \A kind, x : ~Gone({}, kind, x)
    BY DEF Gone
  <2>5. \A kind, x : Comes({e}, kind, x) <=> kind = "semaphore" /\ x = p
    BY <1>5 DEF Comes
  <2> QED BY <2>3, <2>4, <2>5
<1>17. TypeOK'
  BY <1>0, <1>1, <1>6, <1>8, <1>16 DEF TypeOK, timers
<1>18. States' /\ Lists' /\ Activity' /\ Ready'
  <2>1. UNCHANGED <<process, channel, active_processes>> /\ context' = context
    BY <1>1, <1>6
  <2>2. context' = "callback" => active_processes = <<>>
    BY <1>0, <2>1 DEF Ready
  <2> QED BY <2>1, <2>2, QuietStep
<1>19. Order'
  <2> SUFFICES ASSUME NEW q \in Semaphore
               PROVE  /\ Passing(q)' >= 0
                      /\ blocked_processes'[q] = SubSeq(order'[q], Passing(q)' + 1, Len(order'[q]))
                      /\ Blocks(q, Len(blocked_processes'[q]), sem_count'[q])
    BY DEF Order
  <2>1. CASE q # s
    BY <1>0, <1>8, <1>9, <1>10, <2>1 DEF Order
  <2>2. CASE q = s
    <3>1. Passing(s)' = n + 1 /\ order'[s] = O
      BY <1>9, <1>10 DEF O
    <3>2. n + 1 >= 0 /\ (n + 1) + 1 = n + 2
      BY <1>3
    <3>3. blocked_processes'[s] = SubSeq(O, (n + 1) + 1, Len(O))
      BY <1>4, <1>8, <3>2
    <3>4. Blocks(s, Len(Tail(B)), sem_count[s] + 1)
      <4>1. Len(B) \in Nat /\ Len(B) # 0
        <5>1. B \in Seq(Process) /\ B # <<>>
          BY <1>2, <1>3
        <5> QED BY <5>1
      <4>2. Len(Tail(B)) = Len(B) - 1
        BY <1>4
      <4> QED BY <1>2, <1>3, <4>1, <4>2, CountUp
    <3> QED BY <1>8, <2>2, <3>1, <3>2, <3>3, <3>4
  <2> QED BY <2>1, <2>2
<1>20. Places'
  BY <1>0, <1>6, <1>9, PlacesStay
<1>21. Events'
  <2>1. ASSUME NEW q \in Process
        PROVE  /\ HasEvent("process", q)' <=> process'[q].state = "creating"
               /\ HasEvent("hold", q)' <=> process'[q].hold_event
               /\ HasEvent("semaphore", q)' <=> IsReleased(q)'
    BY <1>0, <1>6, <1>15, <1>16 DEF Events
  <2>2. \A t \in Timer : HasEvent("timer", t)' <=> timer_event'[t]
    BY <1>0, <1>1, <1>16 DEF Events, timers
  <2> QED BY <1>16, <2>1, <2>2 DEF Events, Unique
<1>22. InLine'
  <2>1. ASSUME NEW q \in Semaphore, NEW k \in 1 .. Passing(q)', NEW l \in 1 .. Passing(q)', k < l
        PROVE  \/ \E i, j \in 1 .. Passing(q) :
                    /\ i < j /\ order'[q][k] = order[q][i] /\ order'[q][l] = order[q][j]
                    /\ ~Comes({e}, "semaphore", order[q][i]) /\ ~Comes({e}, "semaphore", order[q][j])
               \/ order'[q][k] # order'[q][l] /\ ~HasEvent("semaphore", order'[q][l])
    <3>1. \A i \in 1 .. Passing(q) : ~Comes({e}, "semaphore", order[q][i])
      BY <1>5, <1>13 DEF Comes
    <3>2. CASE k \in 1 .. Passing(q) /\ l \in 1 .. Passing(q)
      BY <1>9, <2>1, <3>1, <3>2
    <3>3. CASE q = s /\ l = n + 1
      <4>1. k \in 1 .. Passing(q)
        BY <1>3, <1>12, <2>1, <3>3
      <4> QED BY <1>9, <1>12, <1>13, <1>14, <3>3, <4>1
    <3>4. CASE q # s
      BY <1>10, <3>2, <3>4
    <3>5. CASE q = s /\ l # n + 1
      <4>1. k \in 1 .. Passing(q) /\ l \in 1 .. Passing(q)
        <5>1. k \in 1 .. (n + 1) /\ l \in 1 .. (n + 1)
          BY <1>p, <3>5
        <5>2. k \in 1 .. n /\ l \in 1 .. n
          BY <1>3, <2>1, <3>5, <5>1
        <5> QED BY <1>p, <3>5, <5>2
      <4> QED BY <3>2, <4>1
    <3> QED BY <3>3, <3>4, <3>5
  <2> QED BY <1>0, <1>7, <2>1, InLineStep
<1>23. Times'
  <2>1. \A a \in arrivals' : simclock' <= a.time
    BY <1>0, <1>1 DEF Times
  <2>2. \A j \in DOMAIN evtlist \ {} :
           /\ simclock' <= evtlist[j].time
           /\ evtlist[j].kind \in {"process", "semaphore"} => evtlist[j].time = simclock'
           /\ evtlist[j].kind = "hold" =>
                asked'[evtlist[j].who].until = asked[evtlist[j].who].until
           /\ evtlist[j].kind = "timer" => fire_time'[evtlist[j].who] = fire_time[evtlist[j].who]
    BY <1>0, <1>1 DEF Times, timers
  <2>3. \A f \in {e} : /\ simclock' <= f.time
                       /\ f.kind \in {"process", "semaphore"} => f.time = simclock'
                       /\ f.kind = "hold" => f.time = asked'[f.who].until
                       /\ f.kind = "timer" => f.time = fire_time'[f.who]
    BY <1>1, <1>2, <1>5
  <2> QED BY <1>0, <1>7, <2>1, <2>2, <2>3, TimesStep
<1>24. Asked'
  BY <1>0, <1>1, <1>6 DEF Asked
<1> QED BY <1>6, <1>17, <1>18, <1>19, <1>20, <1>21, <1>22, <1>23, <1>24 DEF IInv

LEMMA SignalStep ==
  ASSUME IInv, NEW s \in Semaphore, signal(s)
  PROVE  IInv' /\ active_processes' = active_processes
<1>1. CASE blocked_processes[s] = <<>>
  <2> DEFINE n == sem_count[s] + 1
  <2>1. sem_count[s] \in Int /\ calls \in Nat
    BY DEF IInv, TypeOK
  <2>2. /\ sem_count' = [sem_count EXCEPT ![s] = n] /\ calls' = calls + 1
        /\ UNCHANGED <<scheduling, blocked_processes, order, context, arrivals, simclock, timers,
                       asked>>
    BY <1>1 DEF signal, AnyCall
  <2>3. n \in Int /\ Blocks(s, Len(blocked_processes[s]), n) /\ calls' \in Nat
    <3>1. Len(blocked_processes[s]) = 0
      BY <1>1
    <3>2. Blocks(s, Len(blocked_processes[s]), sem_count[s])
      BY DEF IInv, Order
    <3>3. Blocks(s, Len(blocked_processes[s]), n)
      BY <2>1, <3>1, <3>2, CountUp
    <3> QED BY <2>1, <2>2, <3>3
  <2> HIDE DEF n
  <2> QED BY <2>2, <2>3, CountStep
<1>2. CASE blocked_processes[s] # <<>>
  BY <1>2, ReleaseStep
<1> QED BY <1>1, <1>2

-----------------------------------------------------------------------------
(* Timers.                                                                 *)

\* The events at G, which are those of timer t, go, and New comes.
TimerEdit(t, G, New) ==
  /\ G \in SUBSET DOMAIN evtlist /\ New \in SUBSET KernelEvent
  /\ Edited(evtlist, evtlist', G, New)
  /\ \A j \in G : evtlist[j].kind = "timer" /\ evtlist[j].who = t
  /\ timer_event[t] => G # {}
  /\ \A f \in New : f.kind = "timer" /\ f.who = t /\ f.time = fire_time'[t] /\ simclock <= f.time
  /\ timer_event' \in [Timer -> BOOLEAN] /\ fire_time' \in [Timer -> Nat]
  /\ timer_event'[t] <=> New # {}
  /\ \A x \in Timer : x # t => timer_event'[x] = timer_event[x] /\ fire_time'[x] = fire_time[x]

LEMMA TimerEditStep ==
  ASSUME IInv, NEW t \in Timer, NEW G, NEW New, TimerEdit(t, G, New),
         process' = process, channel' = channel, active_processes' = active_processes,
         UNCHANGED <<arrivals, simclock, context, semaphores, uncalled, asked>>, calls' \in Nat
  PROVE  IInv' /\ active_processes' = active_processes
<1>0. TypeOK /\ States /\ Ready /\ Lists /\ Activity /\ Order /\ Places /\ Events /\ InLine
        /\ Times /\ Asked
  BY DEF IInv
<1>1. /\ G \in SUBSET DOMAIN evtlist /\ New \in SUBSET KernelEvent
      /\ Edited(evtlist, evtlist', G, New)
      /\ \A j \in G : evtlist[j].kind = "timer" /\ evtlist[j].who = t
      /\ timer_event[t] => G # {}
      /\ \A f \in New : f.kind = "timer" /\ f.who = t /\ f.time = fire_time'[t]
                        /\ simclock <= f.time
      /\ timer_event' \in [Timer -> BOOLEAN] /\ fire_time' \in [Timer -> Nat]
      /\ (timer_event'[t] <=> New # {})
      /\ \A x \in Timer : x # t => timer_event'[x] = timer_event[x] /\ fire_time'[x] = fire_time[x]
  BY DEF TimerEdit
<1>2. HasEvent("timer", t) => Gone(G, "timer", t)
  BY <1>0, <1>1 DEF Events, Gone
<1>3. /\ evtlist' \in Seq(KernelEvent) /\ Unique(evtlist')
      /\ \A j \in DOMAIN evtlist' :
           evtlist'[j].who \in (IF evtlist'[j].kind = "timer" THEN Timer ELSE Process)
      /\ \A kind, x : HasEvent(kind, x)' <=> \/ HasEvent(kind, x) /\ ~Gone(G, kind, x)
                                             \/ Comes(New, kind, x)
  <2>1. \A f \in New : /\ f.who \in (IF f.kind = "timer" THEN Timer ELSE Process)
                       /\ ~HasEvent(f.kind, f.who) \/ Gone(G, f.kind, f.who)
    BY <1>1, <1>2
  <2> QED BY <1>0, <1>1, <2>1, EventsStep
<1>4. \A kind, x : ~(kind = "timer" /\ x = t) => (HasEvent(kind, x)' <=> HasEvent(kind, x))
  BY <1>1, <1>3 DEF Gone, Comes
<1>5. HasEvent("timer", t)' <=> New # {}
  BY <1>1, <1>2, <1>3 DEF Comes
<1>6. TypeOK'
  BY <1>0, <1>1, <1>3 DEF TypeOK, semaphores
<1>7. States' /\ Lists' /\ Activity' /\ Ready'
  <2>1. UNCHANGED <<process, channel, active_processes>> /\ context' = context
    OBVIOUS
  <2>2. context' = "callback" => active_processes = <<>>
    BY <1>0, <2>1 DEF Ready
  <2> QED BY <2>1, <2>2, QuietStep
<1>8. Order' /\ SameOrder /\ order' = order /\ \A q : IsReleased(q)' <=> IsReleased(q)
  BY <1>0, OrderKept
<1>9. Places'
  BY <1>0, <1>8, PlacesStay
<1>10. Events'
  <2>1. ASSUME NEW q \in Process
        PROVE  /\ HasEvent("process", q)' <=> process'[q].state = "creating"
               /\ HasEvent("hold", q)' <=> process'[q].hold_event
               /\ HasEvent("semaphore", q)' <=> IsReleased(q)'
    BY <1>0, <1>4, <1>8 DEF Events
  <2>2. ASSUME NEW x \in Timer
        PROVE  HasEvent("timer", x)' <=> timer_event'[x]
    <3>1. CASE x = t
      BY <1>1, <1>5, <3>1
    <3>2. CASE x # t
      BY <1>0, <1>1, <1>4, <3>2 DEF Events
    <3> QED BY <3>1, <3>2
  <2> QED BY <1>3, <2>1, <2>2 DEF Events, Unique
<1>11. InLine'
  BY <1>0, <1>1, <1>8, InLineKept
<1>12. Times'
  <2>1. \A a \in arrivals' : simclock' <= a.time
    BY <1>0 DEF Times
  <2>2. \A j \in DOMAIN evtlist \ G :
           /\ simclock' <= evtlist[j].time
           /\ evtlist[j].kind \in {"process", "semaphore"} => evtlist[j].time = simclock'
           /\ evtlist[j].kind = "hold" =>
                asked'[evtlist[j].who].until = asked[evtlist[j].who].until
           /\ evtlist[j].kind = "timer" => fire_time'[evtlist[j].who] = fire_time[evtlist[j].who]
    <3> SUFFICES ASSUME NEW j \in DOMAIN evtlist, j \notin G
                 PROVE  /\ simclock' <= evtlist[j].time
                        /\ evtlist[j].kind \in {"process", "semaphore"} =>
                             evtlist[j].time = simclock'
                        /\ evtlist[j].kind = "hold" =>
                             asked'[evtlist[j].who].until = asked[evtlist[j].who].until
                        /\ evtlist[j].kind = "timer" =>
                             fire_time'[evtlist[j].who] = fire_time[evtlist[j].who]
      OBVIOUS
    <3>1. evtlist[j].kind = "timer" => evtlist[j].who \in Timer /\ evtlist[j].who # t
      <4>1. ASSUME evtlist[j].kind = "timer", evtlist[j].who = t
            PROVE  FALSE
        <5>1. Gone(G, "timer", t)
          BY <1>2, <4>1 DEF HasEvent
        <5>2. PICK k \in G : evtlist[k].kind = "timer" /\ evtlist[k].who = t
          BY <5>1 DEF Gone
        <5>3. k \in DOMAIN evtlist
          BY <1>1
        <5> QED BY <1>0, <4>1, <5>2, <5>3 DEF Events
      <4> QED BY <1>0, <4>1 DEF Events
    <3> QED BY <1>0, <1>1, <3>1 DEF Times
  <2>3. \A f \in New : /\ simclock' <= f.time
                       /\ f.kind \in {"process", "semaphore"} => f.time = simclock'
                       /\ f.kind = "hold" => f.time = asked'[f.who].until
                       /\ f.kind = "timer" => f.time = fire_time'[f.who]
    BY <1>1
  <2> QED BY <1>0, <1>1, <2>1, <2>2, <2>3, TimesStep
<1>13. Asked'
  BY <1>0 DEF Asked
<1> QED BY <1>6, <1>7, <1>8, <1>9, <1>10, <1>11, <1>12, <1>13 DEF IInv

\* The event of a timer that runs, and what is left without it.
LEMMA TimerEvent ==
  ASSUME IInv, NEW t \in Timer, timer_event[t]
  PROVE  LET T == cancel_event(State, "timer", t) IN
         \E i \in DOMAIN evtlist :
           /\ evtlist[i].kind = "timer" /\ evtlist[i].who = t
           /\ T \in StateType /\ T.process = process /\ T.channel = channel
           /\ T.active_processes = active_processes /\ T.evtlist = RemoveAt(evtlist, i)
<1> DEFINE T == cancel_event(State, "timer", t)
<1>1. State \in StateType /\ State.process = process /\ State.channel = channel
      /\ State.evtlist = evtlist /\ State.active_processes = active_processes
  BY Types, StateIs DEF IInv
<1>2. HasEvent("timer", t) /\ Unique(evtlist)
  BY DEF IInv, Events, Unique
<1>3. PICK i \in DOMAIN evtlist : evtlist[i].kind = "timer" /\ evtlist[i].who = t
  BY <1>2 DEF HasEvent
<1>4. \A j \in DOMAIN evtlist : evtlist[j].kind = "timer" /\ evtlist[j].who = t => j = i
  BY <1>2, <1>3 DEF Unique
<1>5. T = [State EXCEPT !.evtlist = RemoveAt(evtlist, i)] /\ T \in StateType
  BY <1>1, <1>3, <1>4, CancelIs
<1> DEFINE E == RemoveAt(evtlist, i)
<1>6. T = [State EXCEPT !.evtlist = E]
  BY <1>5
<1> HIDE DEF T, E
<1>7. T.process = process /\ T.channel = channel /\ T.active_processes = active_processes
      /\ T.evtlist = E
  BY <1>1, <1>6 DEF StateType
<1> QED BY <1>3, <1>5, <1>7 DEF T, E

LEMMA ScheduleStep ==
  ASSUME IInv, NEW t \in Timer, NEW d \in Delays, NEW again \in BOOLEAN, schedule(t, d, again)
  PROVE  IInv' /\ active_processes' = active_processes
<1> DEFINE e == [kind |-> "timer", who |-> t, time |-> simclock + d]
           S == IF again THEN cancel_event(State, "timer", t) ELSE State
           T == insert_event(S, "timer", t, simclock + d)
<1>0. /\ TypeOK /\ State \in StateType /\ State.process = process /\ State.channel = channel
      /\ State.evtlist = evtlist /\ State.active_processes = active_processes
      /\ evtlist \in Seq(KernelEvent)
  BY Types, StateIs DEF IInv
<1>1. /\ calls' = calls + 1 /\ again = timer_event[t]
      /\ timer_event' = [timer_event EXCEPT ![t] = TRUE]
      /\ fire_time' = [fire_time EXCEPT ![t] = simclock + d]
      /\ UNCHANGED <<arrivals, simclock, context, semaphores, uncalled, asked>>
      /\ Becomes(T)
  BY Zenon DEF schedule, AnyCall
<1>2. simclock + d \in Nat /\ simclock <= simclock + d /\ calls \in Nat /\ calls + 1 \in Nat
  BY <1>0, ProcessAssumption DEF TypeOK
<1>3. e \in KernelEvent /\ e.kind = "timer" /\ e.who = t /\ e.time = simclock + d
  BY <1>2 DEF KernelEvent
<1>4. /\ timer_event' \in [Timer -> BOOLEAN] /\ timer_event'[t] = TRUE
      /\ fire_time' \in [Timer -> Nat] /\ fire_time'[t] = simclock + d
      /\ \A x \in Timer : x # t => timer_event'[x] = timer_event[x] /\ fire_time'[x] = fire_time[x]
  BY <1>0, <1>1, <1>2 DEF TypeOK
<1>5. /\ process' = T.process /\ channel' = T.channel /\ evtlist' = T.evtlist
      /\ active_processes' = T.active_processes
  BY <1>1, BecomesIs
<1>6. S \in StateType => Inserted(S, e, T)
  BY InsertIs
<1> HIDE DEF T
<1>7. CASE ~again
  <2>1. S = State
    BY <1>7
  <2> HIDE DEF S, e
  <2>2. /\ process' = process /\ channel' = channel /\ active_processes' = active_processes
        /\ evtlist' = Append(evtlist, e)
    BY <1>0, <1>5, <1>6, <2>1 DEF Inserted
  <2>3. Edited(evtlist, evtlist', {}, {e})
    BY <1>0, <1>3, <2>2, EditedNew
  <2>4. TimerEdit(t, {}, {e})
    BY <1>1, <1>2, <1>3, <1>4, <1>7, <2>3 DEF TimerEdit
  <2> QED BY <1>1, <1>2, <2>2, <2>4, TimerEditStep
<1>8. CASE again
  <2>1. timer_event[t]
    BY <1>1, <1>8
  <2>2. PICK i \in DOMAIN evtlist :
           /\ evtlist[i].kind = "timer" /\ evtlist[i].who = t
           /\ S \in StateType /\ S.process = process /\ S.channel = channel
           /\ S.active_processes = active_processes /\ S.evtlist = RemoveAt(evtlist, i)
    BY <1>8, <2>1, TimerEvent
  <2> HIDE DEF S, e
  <2>3. /\ process' = process /\ channel' = channel /\ active_processes' = active_processes
        /\ evtlist' = Append(RemoveAt(evtlist, i), e)
    BY <1>5, <1>6, <2>2 DEF Inserted
  <2>4. Edited(evtlist, evtlist', {i}, {e})
    BY <1>0, <1>3, <2>3, EditedMoved
  <2>5. TimerEdit(t, {i}, {e})
    BY <1>1, <1>2, <1>3, <1>4, <2>2, <2>4 DEF TimerEdit
  <2> QED BY <1>1, <1>2, <2>3, <2>5, TimerEditStep
<1> QED BY <1>7, <1>8

LEMMA CancelStep ==
  ASSUME IInv, NEW t \in Timer, cancel(t)
  PROVE  IInv' /\ active_processes' = active_processes
<1> DEFINE T == cancel_event(State, "timer", t)
<1>0. TypeOK /\ evtlist \in Seq(KernelEvent)
  BY Types DEF IInv
<1>1. /\ calls' = calls + 1 /\ timer_event[t]
      /\ timer_event' = [timer_event EXCEPT ![t] = FALSE]
      /\ UNCHANGED <<arrivals, simclock, context, semaphores, fire_time, uncalled, asked>>
      /\ Becomes(T)
  BY Zenon DEF cancel, AnyCall
<1>2. /\ process' = T.process /\ channel' = T.channel /\ evtlist' = T.evtlist
      /\ active_processes' = T.active_processes
  BY <1>1, BecomesIs
<1>3. PICK i \in DOMAIN evtlist :
         /\ evtlist[i].kind = "timer" /\ evtlist[i].who = t
         /\ T \in StateType /\ T.process = process /\ T.channel = channel
         /\ T.active_processes = active_processes /\ T.evtlist = RemoveAt(evtlist, i)
  BY <1>1, TimerEvent
<1> HIDE DEF T
<1>4. Edited(evtlist, evtlist', {i}, {})
  BY <1>0, <1>2, <1>3, EditedTaken
<1>5. calls' \in Nat
  BY <1>0, <1>1 DEF TypeOK
<1>6. /\ timer_event' \in [Timer -> BOOLEAN] /\ timer_event'[t] = FALSE
      /\ fire_time' \in [Timer -> Nat]
      /\ \A x \in Timer : x # t => timer_event'[x] = timer_event[x] /\ fire_time'[x] = fire_time[x]
  BY <1>0, <1>1 DEF TypeOK
<1>7. TimerEdit(t, {i}, {})
  BY <1>1, <1>3, <1>4, <1>6 DEF TimerEdit
<1> QED BY <1>1, <1>2, <1>3, <1>5, <1>7, TimerEditStep

-----------------------------------------------------------------------------
(* Processes come and go.                                                  *)

\* A process that no event has activated changes.
LEMMA ActivityAside ==
  ASSUME TypeOK, Activity, NEW p \in Process, NEW r, Turns(p, r), ActivityStays,
         r.state # "running", r.active_inchannel = None,
         process[p].state # "running", process[p].active_inchannel = None
  PROVE  Activity'
<1>1. /\ process'[p] = r /\ \A q \in Process : q # p => process'[q] = process[q]
  BY TurnsIs
<1>2. \A q, o \in Process :
         process'[q].state = "running" /\ process'[o].state = "running" =>
           process'[q].active_inchannel = process'[o].active_inchannel
  BY <1>1 DEF Activity
<1>3. \A ic \in inChannel : /\ ActivatedBy(ic)' = ActivatedBy(ic)
                            /\ \A q \in ActivatedBy(ic) : q # p /\ q \in Process
  BY <1>1, ProcessAssumption DEF ActivatedBy
<1>4. ASSUME NEW ic \in inChannel
      PROVE  /\ channel'[ic].processes_activated = Cardinality(ActivatedBy(ic)')
             /\ channel'[ic].active_event # None => ActivatedBy(ic)' # {}
             /\ \A q \in ActivatedBy(ic)' :
                  ~process'[q].active_event_retrieved => channel'[ic].active_event # None
  <2>1. ActivatedBy(ic)' = ActivatedBy(ic)
    BY <1>3
  <2>2. \A q \in ActivatedBy(ic) : process'[q] = process[q]
    BY <1>1, <1>3
  <2> QED BY <2>1, <2>2 DEF Activity, ActivityStays
<1> QED BY <1>2, <1>4 DEF Activity

LEMMA NewStep ==
  ASSUME IInv, NEW p \in Process, NewProcessIn(p)
  PROVE  IInv' /\ active_processes' = active_processes
<1> DEFINE r == NewProcess
           e == [kind |-> "process", who |-> p, time |-> simclock]
           A == [State EXCEPT !.process[p] = r]
           P == [process EXCEPT ![p] = r]
           T == insert_event(A, "process", p, simclock)
<1>0. TypeOK /\ States /\ Ready /\ Lists /\ Activity /\ Order /\ Places /\ Events /\ InLine
        /\ Times /\ Asked
  BY DEF IInv
<1>1. /\ calls' = calls + 1 /\ process[p].state = "none"
      /\ Becomes(common_constructor(State, p, simclock))
      /\ asked' = [asked EXCEPT ![p] = Nothing]
      /\ UNCHANGED <<arrivals, simclock, context, semaphores, timers>>
  BY Zenon DEF NewProcessIn, AnyCall
<1>2. /\ State \in StateType /\ State.process = process /\ State.channel = channel
      /\ State.evtlist = evtlist /\ State.active_processes = active_processes
      /\ evtlist \in Seq(KernelEvent) /\ process \in [Process -> ProcessType] /\ simclock \in Nat
  BY <1>0, Types, StateIs DEF TypeOK
<1>3. /\ r \in ProcessType /\ r.state = "creating" /\ r.active_inchannel = None /\ r.waiton = {}
      /\ ~r.hold_event /\ ~r.static_sensitivity /\ StateOK(r)
  BY DEF NewProcess, ProcessType, StateOK
<1>4. /\ process[p].waiton = {} /\ ~process[p].hold_event /\ process[p].active_inchannel = None
  BY <1>0, <1>1 DEF States, StateOK
<1>5. e \in KernelEvent /\ e.kind = "process" /\ e.who = p /\ e.time = simclock
  BY <1>2 DEF KernelEvent
<1>6. A = [State EXCEPT !.process = P]
  BY <1>2 DEF StateType
<1>7. common_constructor(State, p, simclock) = T
  BY DEF common_constructor
<1> HIDE DEF r, A
<1>8. P \in [Process -> ProcessType]
  BY <1>2, <1>3
<1> HIDE DEF P
<1>9. A \in StateType /\ A.process = P /\ A.channel = channel /\ A.evtlist = evtlist
      /\ A.active_processes = active_processes
  BY <1>2, <1>6, <1>8 DEF StateType
<1>10. Inserted(A, e, T)
  BY <1>9, InsertIs
<1> HIDE DEF T, e
<1>11. /\ process' = P /\ channel' = channel /\ evtlist' = Append(evtlist, e)
       /\ active_processes' = active_processes
  BY <1>1, <1>7, <1>9, <1>10, BecomesIs DEF Inserted
<1>12. Turns(p, r)
  BY <1>3, <1>11 DEF Turns, P
<1>13. /\ process' \in [Process -> ProcessType] /\ process'[p] = r
       /\ \A q \in Process : q # p => process'[q] = process[q]
  BY <1>0, <1>12, TurnsIs
<1>14. Edited(evtlist, evtlist', {}, {e}) /\ {e} \in SUBSET KernelEvent
  BY <1>2, <1>5, <1>11, EditedNew
<1>15. ~HasEvent("process", p) /\ ~HasEvent("hold", p)
  BY <1>0, <1>1, <1>4 DEF Events
<1>16. /\ evtlist' \in Seq(KernelEvent) /\ Unique(evtlist')
       /\ \A j \in DOMAIN evtlist' :
            evtlist'[j].who \in (IF evtlist'[j].kind = "timer" THEN Timer ELSE Process)
       /\ \A kind, x : HasEvent(kind, x)' <=> \/ HasEvent(kind, x)
                                              \/ kind = "process" /\ x = p
  <2>1. {} \in SUBSET DOMAIN evtlist
    OBVIOUS
  <2>2. \A f \in {e} : /\ f.who \in (IF f.kind = "timer" THEN Timer ELSE Process)
                       /\ ~HasEvent(f.kind, f.who) \/ Gone({}, f.kind, f.who)
    BY <1>5, <1>15
  <2>3. /\ evtlist' \in Seq(KernelEvent) /\ Unique(evtlist')
        /\ \A j \in DOMAIN evtlist' :
             evtlist'[j].who \in (IF evtlist'[j].kind = "timer" THEN Timer ELSE Process)
        /\ \A kind, x : HasEvent(kind, x)' <=> \/ HasEvent(kind, x) /\ ~Gone({}, kind, x)
                                               \/ Comes({e}, kind, x)
    BY <1>0, <1>14, <2>1, <2>2, EventsStep
  <2>4. \A kind, x : ~Gone({}, kind, x)
    BY DEF Gone
  <2>5. \A kind, x : Comes({e}, kind, x) <=> kind = "process" /\ x = p
    BY <1>5 DEF Comes
  <2> QED BY <2>3, <2>4, <2>5
<1>17. /\ asked' \in [Process -> [ics : SUBSET inChannel, static : BOOLEAN, until : Nat \cup {Forever}]]
       /\ \A q \in Process : q # p => asked'[q] = asked[q]
  <2> DEFINE W == [ics : SUBSET inChannel, static : BOOLEAN, until : Nat \cup {Forever}]
  <2>1. asked \in [Process -> W] /\ Nothing \in W
    BY <1>0 DEF TypeOK, Nothing
  <2> HIDE DEF W
  <2>2. asked' \in [Process -> W] /\ \A q \in Process : q # p => asked'[q] = asked[q]
    BY <1>1, <2>1
  <2> QED BY <2>2 DEF W
<1>18. TypeOK'
  <2>1. calls' \in Nat
    BY <1>0, <1>1 DEF TypeOK
  <2> QED BY <1>0, <1>1, <1>11, <1>13, <1>16, <1>17, <2>1 DEF TypeOK, semaphores, timers
<1>19. States'
  BY <1>0, <1>3, <1>12, StatesStep
<1>20. Ready'
  BY <1>0, <1>1, <1>3, <1>11, <1>12, ReadyKept
<1>21. Lists'
  BY <1>0, <1>3, <1>4, <1>11, <1>12, ListsKept DEF ListsStay
<1>22. Activity'
  BY <1>0, <1>1, <1>3, <1>4, <1>11, <1>12, ActivityAside DEF ActivityStays
<1>23. Order' /\ SameOrder /\ order' = order /\ \A q : IsReleased(q)' <=> IsReleased(q)
  BY <1>0, <1>1, OrderKept
<1>24. Places'
  BY <1>0, <1>1, <1>12, <1>23, NotPlaced, PlacesKept
<1>25. Events'
  <2>1. ASSUME NEW q \in Process
        PROVE  /\ HasEvent("process", q)' <=> process'[q].state = "creating"
               /\ HasEvent("hold", q)' <=> process'[q].hold_event
               /\ HasEvent("semaphore", q)' <=> IsReleased(q)'
    <3>1. /\ HasEvent("process", q) <=> process[q].state = "creating"
          /\ HasEvent("hold", q) <=> process[q].hold_event
          /\ HasEvent("semaphore", q) <=> IsReleased(q)
      BY <1>0 DEF Events
    <3>2. CASE q = p
      BY <1>3, <1>4, <1>13, <1>16, <1>23, <3>1, <3>2
    <3>3. CASE q # p
      BY <1>13, <1>16, <1>23, <3>1, <3>3
    <3> QED BY <3>2, <3>3
  <2>2. \A t \in Timer : HasEvent("timer", t)' <=> timer_event'[t]
    BY <1>0, <1>1, <1>16 DEF Events, timers
  <2> QED BY <1>16, <2>1, <2>2 DEF Events, Unique
<1>26. InLine'
  <2>1. \A f \in {e} : f.kind # "semaphore"
    BY <1>5
  <2> QED BY <1>0, <1>14, <1>23, <2>1, InLineKept
<1>27. Times'
  <2>1. \A a \in arrivals' : simclock' <= a.time
    BY <1>0, <1>1 DEF Times
  <2>2. \A j \in DOMAIN evtlist \ {} :
           /\ simclock' <= evtlist[j].time
           /\ evtlist[j].kind \in {"process", "semaphore"} => evtlist[j].time = simclock'
           /\ evtlist[j].kind = "hold" =>
                asked'[evtlist[j].who].until = asked[evtlist[j].who].until
           /\ evtlist[j].kind = "timer" => fire_time'[evtlist[j].who] = fire_time[evtlist[j].who]
    <3> SUFFICES ASSUME NEW j \in DOMAIN evtlist
                 PROVE  /\ simclock' <= evtlist[j].time
                        /\ evtlist[j].kind \in {"process", "semaphore"} =>
                             evtlist[j].time = simclock'
                        /\ evtlist[j].kind = "hold" =>
                             asked'[evtlist[j].who].until = asked[evtlist[j].who].until
                        /\ evtlist[j].kind = "timer" =>
                             fire_time'[evtlist[j].who] = fire_time[evtlist[j].who]
      OBVIOUS
    <3>1. evtlist[j].kind = "hold" => evtlist[j].who \in Process /\ evtlist[j].who # p
      BY <1>0, <1>15 DEF Events, HasEvent
    <3> QED BY <1>0, <1>1, <1>17, <3>1 DEF Times, timers
  <2>3. \A f \in {e} : /\ simclock' <= f.time
                       /\ f.kind \in {"process", "semaphore"} => f.time = simclock'
                       /\ f.kind = "hold" => f.time = asked'[f.who].until
                       /\ f.kind = "timer" => f.time = fire_time'[f.who]
    BY <1>1, <1>2, <1>5
  <2> QED BY <1>0, <1>14, <2>1, <2>2, <2>3, TimesStep
<1>28. Asked'
  BY <1>0, <1>3, <1>12, <1>17, AskedKept
<1> QED BY <1>11, <1>18, <1>19, <1>20, <1>21, <1>22, <1>23, <1>24, <1>25, <1>26, <1>27, <1>28 DEF IInv

LEMMA DeleteStep ==
  ASSUME IInv, NEW p \in Process, Delete(p)
  PROVE  IInv' /\ active_processes' = active_processes
<1> DEFINE A == clear_pending_wait(State, p)
           T == [A EXCEPT !.process[p] = NoProcess]
           r == NoProcess
           G == HoldsOf(evtlist, p)
<1>0. TypeOK /\ States /\ Ready /\ Lists /\ Activity /\ Order /\ Places /\ Events /\ InLine
        /\ Times /\ Asked
  BY DEF IInv
<1>1. /\ calls' = calls + 1 /\ process[p].state = "waiting"
      /\ \A s \in Semaphore : ~Contains(order[s], p)
      /\ Becomes(T)
      /\ UNCHANGED <<arrivals, simclock, context, semaphores, timers, asked>>
  BY Zenon DEF Delete, AnyCall, MayDelete
<1>2. process \in [Process -> ProcessType] /\ evtlist \in Seq(KernelEvent)
  BY <1>0, Types
<1>3. /\ r \in ProcessType /\ r.state = "none" /\ r.active_inchannel = None /\ r.waiton = {}
      /\ ~r.hold_event /\ StateOK(r)
  BY DEF NoProcess, NewProcess, ProcessType, StateOK
<1>4. /\ A \in StateType
      /\ A.process = [process EXCEPT ![p] = Cleared(p)]
      /\ A.active_processes = active_processes
      /\ Edited(evtlist, A.evtlist, G, {})
      /\ \A ic \in inChannel :
           /\ A.channel[ic].wait = IF ic \in process[p].waiton
                                   THEN RemoveFirst(channel[ic].wait, p)
                                   ELSE channel[ic].wait
           /\ A.channel[ic].active_event = channel[ic].active_event
           /\ A.channel[ic].processes_activated = channel[ic].processes_activated
  <2>1. LET S == clear_pending_wait(State, p) IN
         /\ S \in StateType /\ Cleared(p) \in ProcessType
         /\ S.process = [process EXCEPT ![p] = Cleared(p)]
         /\ S.active_processes = active_processes
         /\ Edited(evtlist, S.evtlist, HoldsOf(evtlist, p), {})
         /\ \A ic \in inChannel :
              /\ S.channel[ic].wait = IF ic \in process[p].waiton
                                      THEN RemoveFirst(channel[ic].wait, p)
                                      ELSE channel[ic].wait
              /\ S.channel[ic].active_event = channel[ic].active_event
              /\ S.channel[ic].processes_activated = channel[ic].processes_activated
    BY <1>1, ClearedIs
  <2> QED BY <2>1
<1>5. /\ process' = T.process /\ channel' = T.channel /\ evtlist' = T.evtlist
      /\ active_processes' = T.active_processes
  BY <1>1, BecomesIs
<1> HIDE DEF A, r
<1>6. /\ T.process = [A.process EXCEPT ![p] = r] /\ T.channel = A.channel
      /\ T.evtlist = A.evtlist /\ T.active_processes = A.active_processes
  BY <1>4 DEF StateType, r
<1> HIDE DEF T, G
<1>7. /\ Turns(p, r) /\ active_processes' = active_processes
      /\ channel' \in [inChannel -> ChannelType]
      /\ Edited(evtlist, evtlist', G, {}) /\ LeavesLists(p) /\ ActivityStays
  <2>1. [A.process EXCEPT ![p] = r] = [process EXCEPT ![p] = r]
    BY <1>2, <1>4
  <2>2. A.channel \in [inChannel -> ChannelType]
    BY <1>4 DEF StateType
  <2> QED BY <1>3, <1>4, <1>5, <1>6, <2>1, <2>2 DEF Turns, LeavesLists, ActivityStays
<1>8. /\ process' \in [Process -> ProcessType] /\ process'[p] = r
      /\ \A q \in Process : q # p => process'[q] = process[q]
  BY <1>0, <1>7, TurnsIs
<1>9. /\ G \in SUBSET DOMAIN evtlist
      /\ \A kind, x : Gone(G, kind, x) <=> kind = "hold" /\ x = p /\ process[p].hold_event
  BY HoldEvents DEF G
<1>10. /\ evtlist' \in Seq(KernelEvent) /\ Unique(evtlist')
       /\ \A j \in DOMAIN evtlist' :
            evtlist'[j].who \in (IF evtlist'[j].kind = "timer" THEN Timer ELSE Process)
       /\ \A kind, x : HasEvent(kind, x)' <=>
            HasEvent(kind, x) /\ ~(kind = "hold" /\ x = p /\ process[p].hold_event)
  <2>1. /\ evtlist' \in Seq(KernelEvent) /\ Unique(evtlist')
        /\ \A j \in DOMAIN evtlist' :
             evtlist'[j].who \in (IF evtlist'[j].kind = "timer" THEN Timer ELSE Process)
        /\ \A kind, x : HasEvent(kind, x)' <=> \/ HasEvent(kind, x) /\ ~Gone(G, kind, x)
                                               \/ Comes({}, kind, x)
    <3>1. {} \in SUBSET KernelEvent
      OBVIOUS
    <3>2. \A f \in {} : /\ f.who \in (IF f.kind = "timer" THEN Timer ELSE Process)
                        /\ ~HasEvent(f.kind, f.who) \/ Gone(G, f.kind, f.who)
      OBVIOUS
    <3> QED BY <1>0, <1>7, <1>9, <3>1, <3>2, EventsStep
  <2>2. \A kind, x : ~Comes({}, kind, x)
    BY DEF Comes
  <2> QED BY <1>9, <2>1, <2>2
<1>11. TypeOK'
  <2>1. calls' \in Nat /\ active_processes' \in Seq(Process)
    BY <1>0, <1>1, <1>7 DEF TypeOK
  <2> QED BY <1>0, <1>1, <1>7, <1>8, <1>10, <2>1 DEF TypeOK, semaphores, timers
<1>12. States'
  BY <1>0, <1>3, <1>7, StatesStep
<1>13. Ready'
  <2>1. context = "process" /\ p = Self => FALSE
    BY <1>1, SelfIs
  <2> QED BY <1>0, <1>1, <1>3, <1>7, <2>1, ReadyKept
<1>14. Lists'
  BY <1>0, <1>3, <1>7, ListsLeft
<1>15. Activity'
  <2>1. process[p].active_inchannel = None
    BY <1>0, <1>1 DEF States, StateOK
  <2> QED BY <1>0, <1>1, <1>3, <1>7, <2>1, ActivityAside
<1>16. Order' /\ SameOrder /\ order' = order /\ \A q : IsReleased(q)' <=> IsReleased(q)
  BY <1>0, <1>1, OrderKept
<1>17. Places'
  <2>1. ~Placed(p)
    <3>1. ASSUME NEW s \in Semaphore, NEW k \in DOMAIN order[s], order[s][k] = p
          PROVE  FALSE
      <4>1. order[s] \in Seq(Process)
        BY <1>0 DEF TypeOK
      <4> QED BY <1>1, <3>1, <4>1 DEF Contains
    <3> QED BY <3>1 DEF Placed
  <2> QED BY <1>0, <1>7, <1>16, <2>1, PlacesKept
<1>18. Events'
  <2>1. ASSUME NEW q \in Process
        PROVE  /\ HasEvent("process", q)' <=> process'[q].state = "creating"
               /\ HasEvent("hold", q)' <=> process'[q].hold_event
               /\ HasEvent("semaphore", q)' <=> IsReleased(q)'
    <3>1. /\ HasEvent("process", q) <=> process[q].state = "creating"
          /\ HasEvent("hold", q) <=> process[q].hold_event
          /\ HasEvent("semaphore", q) <=> IsReleased(q)
      BY <1>0 DEF Events
    <3>2. CASE q = p
      BY <1>1, <1>3, <1>8, <1>10, <1>16, <3>1, <3>2
    <3>3. CASE q # p
      BY <1>8, <1>10, <1>16, <3>1, <3>3
    <3> QED BY <3>2, <3>3
  <2>2. \A t \in Timer : HasEvent("timer", t)' <=> timer_event'[t]
    BY <1>0, <1>1, <1>10 DEF Events, timers
  <2> QED BY <1>10, <2>1, <2>2 DEF Events, Unique
<1>19. InLine'
  BY <1>0, <1>7, <1>16, InLineKept
<1>20. Times'
  <2>1. \A a \in arrivals' : simclock' <= a.time
    BY <1>0, <1>1 DEF Times
  <2>2. \A j \in DOMAIN evtlist \ G :
           /\ simclock' <= evtlist[j].time
           /\ evtlist[j].kind \in {"process", "semaphore"} => evtlist[j].time = simclock'
           /\ evtlist[j].kind = "hold" =>
                asked'[evtlist[j].who].until = asked[evtlist[j].who].until
           /\ evtlist[j].kind = "timer" => fire_time'[evtlist[j].who] = fire_time[evtlist[j].who]
    BY <1>0, <1>1 DEF Times, timers
  <2> QED BY <1>0, <1>7, <2>1, <2>2, TimesStep
<1>21. Asked'
  BY <1>0, <1>1, <1>3, <1>7, AskedKept
<1> QED BY <1>7, <1>11, <1>12, <1>13, <1>14, <1>15, <1>16, <1>17, <1>18, <1>19, <1>20, <1>21 DEF IInv

-----------------------------------------------------------------------------
(* An event arrives: the processes that wait for it are woken up one after *)
(* the other.                                                              *)

LEMMA SetInduction ==
  ASSUME NEW G, 0 \in G, \A n \in Nat : n \in G => n + 1 \in G
  PROVE  Nat \subseteq G
<1> SUFFICES ASSUME Nat \ G # {} PROVE FALSE
  OBVIOUS
<1>1. PICK x \in Nat \ G : \A y \in Nat \ G : ~ (<<y, x>> \in OpToRel(<, Nat))
  BY WFMin, NatLessThanWellFounded
<1>2. x # 0 /\ x - 1 \in Nat
  OBVIOUS
<1>3. x - 1 \notin G
  <2>1. (x - 1) + 1 = x
    BY <1>2
  <2> QED BY <1>2, <2>1
<1>4. <<x - 1, x>> \in OpToRel(<, Nat)
  BY <1>2 DEF OpToRel
<1> QED BY <1>1, <1>2, <1>3, <1>4

LEMMA SegmentInduction ==
  ASSUME NEW n \in Nat, NEW G, 0 \in G, \A i \in 1 .. n : i - 1 \in G => i \in G
  PROVE  n \in G
<1> DEFINE H == {i \in Nat : i <= n => i \in G}
<1>1. 0 \in H
  OBVIOUS
<1>2. ASSUME NEW i \in Nat, i \in H PROVE i + 1 \in H
  <2> SUFFICES ASSUME i + 1 <= n PROVE i + 1 \in G
    OBVIOUS
  <2>1. i \in G /\ i + 1 \in 1 .. n
    BY <1>2
  <2>2. (i + 1) - 1 = i
    OBVIOUS
  <2> QED BY <2>1, <2>2
<1>3. Nat \subseteq H
  <2> HIDE DEF H
  <2> QED BY <1>1, <1>2, SetInduction
<1> QED BY <1>3

LEMMA ConcatFacts ==
  ASSUME NEW X, NEW s \in Seq(X), NEW t \in Seq(X), NEW n \in Nat, Len(s) = n
  PROVE  /\ s \o t \in Seq(X) /\ Len(s \o t) = n + Len(t)
         /\ \A k \in 1 .. n : (s \o t)[k] = s[k]
         /\ \A k \in 1 .. Len(t) : (s \o t)[n + k] = t[k]
<1>1. s \o t \in Seq(X) /\ Len(s \o t) = n + Len(t)
  OBVIOUS
<1>2. ASSUME NEW k \in 1 .. n PROVE (s \o t)[k] = s[k]
  OBVIOUS
<1>3. ASSUME NEW k \in 1 .. Len(t) PROVE (s \o t)[n + k] = t[k]
  <2>1. n + k \in 1 .. Len(s) + Len(t) /\ ~(n + k <= Len(s)) /\ (n + k) - Len(s) = k
    OBVIOUS
  <2> QED BY <2>1
<1> QED BY <1>1, <1>2, <1>3

\* The processes that wait for an event at ic, each once.
IsWaiting(ic, p) == p \in Declared(ic) \/ ic \in process[p].waiton
Queue(ic, who) ==
  /\ who \in Seq(Process) /\ IsInjective(who)
  /\ \A p \in Process : Holds(who, p) <=> IsWaiting(ic, p)

LEMMA QueueIs ==
  ASSUME IInv, NEW ic \in inChannel, NEW who \in Waiters(ic)
  PROVE  Queue(ic, who)
<1> DEFINE D == Declared(ic)
           n == Cardinality(D)
           w == channel[ic].wait
<1>0. Lists /\ States /\ TypeOK
  BY DEF IInv
<1>1. w \in Seq(Process) /\ IsInjective(w)
      /\ \A p \in Process : ic \in process[p].waiton <=> Holds(w, p)
  BY <1>0, Types DEF Lists, ChannelType
<1>2. n \in Nat /\ D \subseteq Process
  <2>1. D \subseteq Process
    BY DEF Declared
  <2>2. IsFiniteSet(D)
    BY <2>1, ProcessAssumption, FS_Subset
  <2> QED BY <2>1, <2>2, FS_CardinalityType
<1>3. \A p \in D : process[p].waiton = {}
  BY <1>0 DEF Declared, States, StateOK
<1>4. PICK first \in Bijection(1 .. n, D) : who = first \o w
  BY DEF Waiters
<1> HIDE DEF D, n, w
<1>5. /\ first \in [1 .. n -> D] /\ IsInjective(first)
      /\ \A p \in D : \E k \in 1 .. n : first[k] = p
  BY <1>4 DEF Bijection, Injection, Surjection
<1>6. first \in Seq(Process) /\ Len(first) = n /\ DOMAIN first = 1 .. n
  BY <1>2, <1>5
<1>7. /\ who \in Seq(Process) /\ Len(who) = n + Len(w)
      /\ \A k \in 1 .. n : who[k] = first[k]
      /\ \A k \in 1 .. Len(w) : who[n + k] = w[k]
  BY <1>1, <1>2, <1>4, <1>6, ConcatFacts
<1>8. Len(w) \in Nat /\ DOMAIN w = 1 .. Len(w) /\ DOMAIN who = 1 .. (n + Len(w))
  BY <1>1, <1>7
<1> DEFINE m == Len(w)
<1>9. \A k \in DOMAIN who : \/ k \in 1 .. n /\ who[k] = first[k] /\ who[k] \in D
                            \/ \E l \in 1 .. m : k = n + l /\ who[k] = w[l]
  <2> SUFFICES ASSUME NEW k \in 1 .. (n + m)
               PROVE  \/ k \in 1 .. n /\ who[k] = first[k] /\ who[k] \in D
                      \/ \E l \in 1 .. m : k = n + l /\ who[k] = w[l]
    BY <1>8
  <2> HIDE DEF m
  <2>1. CASE k <= n
    BY <1>2, <1>5, <1>7, <2>1
  <2>2. CASE ~(k <= n)
    <3>1. k - n \in 1 .. m /\ k = n + (k - n)
      BY <1>2, <1>8, <2>2 DEF m
    <3> QED BY <1>7, <3>1 DEF m
  <2> QED BY <2>1, <2>2
<1>10. \A k \in 1 .. n : k \in DOMAIN who
  BY <1>2, <1>8
<1>11. \A l \in 1 .. m : n + l \in DOMAIN who
  BY <1>2, <1>8
<1> HIDE DEF m
<1>12. \A l \in 1 .. m : w[l] \in Process /\ w[l] \notin D
  <2> SUFFICES ASSUME NEW l \in 1 .. m PROVE w[l] \in Process /\ w[l] \notin D
    OBVIOUS
  <2>1. w[l] \in Process /\ Holds(w, w[l])
    BY <1>1, <1>8 DEF m, Holds
  <2>2. ic \in process[w[l]].waiton
    BY <1>1, <2>1
  <2> QED BY <1>3, <2>1, <2>2
<1>13. IsInjective(who)
  <2> SUFFICES ASSUME NEW k \in DOMAIN who, NEW j \in DOMAIN who, who[k] = who[j]
               PROVE  k = j
    BY DEF IsInjective
  <2>1. CASE k \in 1 .. n /\ who[k] = first[k] /\ who[k] \in D
    <3>1. j \in 1 .. n /\ who[j] = first[j]
      BY <1>9, <1>12, <2>1
    <3> QED BY <1>5, <1>6, <2>1, <3>1 DEF IsInjective
  <2>2. CASE \E l \in 1 .. m : k = n + l /\ who[k] = w[l]
    <3>1. PICK l \in 1 .. m : k = n + l /\ who[k] = w[l]
      BY <2>2
    <3>2. PICK i \in 1 .. m : j = n + i /\ who[j] = w[i]
      BY <1>9, <1>12, <3>1
    <3>3. l = i
      BY <1>1, <1>8, <3>1, <3>2 DEF IsInjective, m
    <3> QED BY <3>1, <3>2, <3>3
  <2> QED BY <1>9, <2>1, <2>2
<1>14. ASSUME NEW p \in Process PROVE Holds(who, p) <=> p \in D \/ ic \in process[p].waiton
  <2>1. ASSUME NEW k \in DOMAIN who, who[k] = p PROVE p \in D \/ ic \in process[p].waiton
    <3>1. CASE who[k] \in D
      BY <2>1, <3>1
    <3>2. CASE \E l \in 1 .. m : k = n + l /\ who[k] = w[l]
      BY <1>1, <1>8, <2>1, <3>2 DEF Holds, m
    <3> QED BY <1>9, <2>1, <3>1, <3>2
  <2>2. ASSUME p \in D PROVE Holds(who, p)
    BY <1>5, <1>7, <1>10, <2>2 DEF Holds
  <2>3. ASSUME ic \in process[p].waiton PROVE Holds(who, p)
    <3>1. PICK l \in DOMAIN w : w[l] = p
      BY <1>1, <2>3 DEF Holds
    <3> QED BY <1>7, <1>8, <1>11, <3>1 DEF Holds, m
  <2> QED BY <2>1, <2>2, <2>3 DEF Holds
<1> QED BY <1>7, <1>13, <1>14 DEF Queue, IsWaiting, D

\* A process that the event has woken up.
Woken(p, ic) == [process[p] EXCEPT !.state = "running", !.hold_event = FALSE,
                                   !.active_inchannel = ic, !.active_event_retrieved = FALSE,
                                   !.process_timedout = FALSE]
Among(who, i, p) == \E k \in 1 .. i : who[k] = p
HoldsAmong(who, i) == {j \in DOMAIN evtlist : evtlist[j].kind = "hold" /\ Among(who, i, evtlist[j].who)}
\* What the state is once the first i of them have been woken up.
Reached(S, ic, who, i) ==
  /\ S \in StateType
  /\ \A p \in Process : S.process[p] = IF Among(who, i, p) THEN Woken(p, ic) ELSE process[p]
  /\ Len(S.active_processes) = i
  /\ \A k \in 1 .. i : S.active_processes[k] = who[k]
  /\ \A c \in inChannel :
       /\ S.channel[c].wait = channel[c].wait /\ S.channel[c].active_event = channel[c].active_event
       /\ S.channel[c].processes_activated =
            IF c = ic THEN channel[c].processes_activated + i ELSE channel[c].processes_activated
  /\ Without(evtlist, S.evtlist, HoldsAmong(who, i))

\* The fields that the event sets before the timeout is cancelled.
CountsIn(S, p, ic) ==
  [S EXCEPT !.channel[ic].processes_activated = @ + 1,
            !.process[p].active_inchannel = ic,
            !.process[p].active_event_retrieved = FALSE,
            !.process[p].process_timedout = FALSE]
Called(p, ic) == [p EXCEPT !.active_inchannel = ic, !.active_event_retrieved = FALSE,
                           !.process_timedout = FALSE]
IsCounted(S, p, ic, A) ==
  /\ A \in StateType
  /\ A.process = [S.process EXCEPT ![p] = Called(S.process[p], ic)]
  /\ A.evtlist = S.evtlist /\ A.active_processes = S.active_processes
  /\ \A c \in inChannel :
       /\ A.channel[c].wait = S.channel[c].wait
       /\ A.channel[c].active_event = S.channel[c].active_event
       /\ A.channel[c].processes_activated =
            IF c = ic THEN S.channel[c].processes_activated + 1
            ELSE S.channel[c].processes_activated
LEMMA CountedIn ==
  ASSUME NEW S \in StateType, NEW p \in Process, NEW ic \in inChannel
  PROVE  IsCounted(S, p, ic, CountsIn(S, p, ic))
<1> DEFINE a == [S.process[p] EXCEPT !.active_inchannel = ic, !.active_event_retrieved = FALSE,
                                     !.process_timedout = FALSE]
           P == [S.process EXCEPT ![p] = a]
           d == [S.channel[ic] EXCEPT !.processes_activated = S.channel[ic].processes_activated + 1]
           C == [S.channel EXCEPT ![ic] = d]
           A == [S EXCEPT !.channel[ic].processes_activated = @ + 1,
                            !.process[p].active_inchannel = ic,
                            !.process[p].active_event_retrieved = FALSE,
                            !.process[p].process_timedout = FALSE]
<1>1. /\ S.process \in [Process -> ProcessType] /\ S.process[p] \in ProcessType
      /\ S.channel \in [inChannel -> ChannelType] /\ S.channel[ic] \in ChannelType
  BY DEF StateType
<1>2. a \in ProcessType
  BY <1>1 DEF ProcessType
<1>3. d \in ChannelType /\ d.wait = S.channel[ic].wait /\ d.active_event = S.channel[ic].active_event
      /\ d.processes_activated = S.channel[ic].processes_activated + 1
  BY <1>1 DEF ChannelType
<1>4. A = [S EXCEPT !.process = P, !.channel = C]
  <2> DEFINE P1 == [S.process EXCEPT ![p].active_inchannel = ic]
             P2 == [P1 EXCEPT ![p].active_event_retrieved = FALSE]
             P3 == [P2 EXCEPT ![p].process_timedout = FALSE]
  <2>1. P3 = P
    <3> DEFINE a1 == [S.process[p] EXCEPT !.active_inchannel = ic]
               a2 == [a1 EXCEPT !.active_event_retrieved = FALSE]
               a3 == [a2 EXCEPT !.process_timedout = FALSE]
    <3>1. a3 = a
      BY <1>1 DEF ProcessType
    <3> HIDE DEF a
    <3>2. P1 = [S.process EXCEPT ![p] = a1]
      OBVIOUS
    <3> HIDE DEF P1, a1
    <3>3. P1[p] = a1 /\ P2 = [P1 EXCEPT ![p] = a2]
      BY <1>1, <3>2
    <3> HIDE DEF P2, a2
    <3>4. P2 = [S.process EXCEPT ![p] = a2]
      BY <1>1, <3>2, <3>3
    <3>5. P2[p] = a2 /\ P3 = [P2 EXCEPT ![p] = a3]
      BY <1>1, <3>4
    <3> HIDE DEF P3, a3
    <3> QED BY <1>1, <3>1, <3>4, <3>5
  <2> HIDE DEF P
  <2>2. A = [S EXCEPT !.process = P3, !.channel = C]
    BY DEF StateType
  <2> QED BY <2>1, <2>2
<1> HIDE DEF a, d, A
<1>5. P \in [Process -> ProcessType]
  BY <1>1, <1>2
<1>6. /\ C \in [inChannel -> ChannelType] /\ C[ic] = d
      /\ \A c \in inChannel : c # ic => C[c] = S.channel[c]
  BY <1>1, <1>3
<1> HIDE DEF P, C
<1>7. A \in StateType /\ A.process = P /\ A.channel = C /\ A.evtlist = S.evtlist
      /\ A.active_processes = S.active_processes
  BY <1>4, <1>5, <1>6 DEF StateType
<1>8. \A c \in inChannel :
        /\ C[c].wait = S.channel[c].wait
        /\ C[c].active_event = S.channel[c].active_event
        /\ C[c].processes_activated = IF c = ic THEN S.channel[c].processes_activated + 1
                                      ELSE S.channel[c].processes_activated
  BY <1>3, <1>6
<1>9. CountsIn(S, p, ic) = A
  BY DEF CountsIn, A
<1> QED BY <1>7, <1>8, <1>9 DEF P, a, Called, IsCounted

LEMMA AmongStep ==
  ASSUME NEW who, NEW i \in Nat \ {0}, NEW p
  PROVE  Among(who, i, p) <=> Among(who, i - 1, p) \/ p = who[i]
<1>1. \A k : k \in 1 .. i <=> k \in 1 .. (i - 1) \/ k = i
  OBVIOUS
<1> QED BY <1>1 DEF Among

\* What is left of the event list still has one event for each.
LEMMA Leaves ==
  ASSUME NEW E \in Seq(KernelEvent), NEW F \in Seq(KernelEvent), NEW G, Without(E, F, G), Unique(E)
  PROVE  /\ Unique(F)
         /\ \A k \in DOMAIN F : \E j \in DOMAIN E \ G : F[k] = E[j]
         /\ \A j \in DOMAIN E \ G : \E k \in DOMAIN F : F[k] = E[j]
<1>1. Edited(E, F, G, {})
  BY DEF Edited
<1> QED BY <1>1, EditedFacts

LEMMA WaitersWait ==
  ASSUME IInv, active_processes = <<>>, NEW ic \in inChannel, NEW p \in Process, IsWaiting(ic, p)
  PROVE  process[p].state = "waiting"
<1>1. process[p] \in ProcessType /\ StateOK(process[p])
  BY Types DEF IInv, States
<1>2. process[p].state # "running"
  BY NobodyRuns
<1>3. process[p].static_sensitivity \/ process[p].waiton # {}
  BY DEF IsWaiting, Declared
<1> QED BY <1>1, <1>2, <1>3 DEF StateOK

LEMMA WakeStep ==
  ASSUME IInv, active_processes = <<>>, NEW ic \in inChannel, NEW who, Queue(ic, who),
         NEW i \in 1 .. Len(who), NEW S, Reached(S, ic, who, i - 1)
  PROVE  Reached(Activated(S, ic, who[i]), ic, who, i)
<1> DEFINE p == who[i]
           A == CountsIn(S, p, ic)
           B == cancel_hold(A, p)
           C == activate_process(B, p)
           a == Called(S.process[p], ic)
           G == HoldsAmong(who, i - 1)
           K == HoldsOf(S.evtlist, p)
           L == HoldsAmong(who, i)
<1>0. Activated(S, ic, who[i]) = C
  BY DEF Activated, CountsIn
<1>1. /\ who \in Seq(Process) /\ IsInjective(who) /\ Len(who) \in Nat /\ DOMAIN who = 1 .. Len(who)
      /\ i \in Nat \ {0} /\ i - 1 \in Nat /\ p \in Process
  BY DEF Queue
<1>2. process[p].state = "waiting"
  <2>1. IsWaiting(ic, p)
    BY <1>1 DEF Queue, Holds
  <2> QED BY <1>1, <2>1, WaitersWait
<1>3. ~Among(who, i - 1, p)
  <2> SUFFICES ASSUME NEW k \in 1 .. (i - 1), who[k] = p PROVE FALSE
    BY DEF Among
  <2>1. k \in DOMAIN who /\ i \in DOMAIN who /\ k # i
    BY <1>1
  <2> QED BY <1>1, <2>1 DEF IsInjective
<1>4. /\ S \in StateType /\ S.process[p] = process[p] /\ process[p] \in ProcessType
      /\ S.process \in [Process -> ProcessType] /\ S.evtlist \in Seq(KernelEvent)
      /\ S.active_processes \in Seq(Process) /\ evtlist \in Seq(KernelEvent)
      /\ Len(S.active_processes) = i - 1
  BY <1>1, <1>3, Types DEF Reached, StateType, IInv
<1>5. /\ A \in StateType /\ A.process = [S.process EXCEPT ![p] = a]
      /\ A.evtlist = S.evtlist /\ A.active_processes = S.active_processes
      /\ \A c \in inChannel :
           /\ A.channel[c].wait = S.channel[c].wait
           /\ A.channel[c].active_event = S.channel[c].active_event
           /\ A.channel[c].processes_activated =
                IF c = ic THEN S.channel[c].processes_activated + 1
                ELSE S.channel[c].processes_activated
  <2> HIDE DEF p, A, a
  <2>1. S \in StateType /\ p \in Process /\ ic \in inChannel
    BY <1>1, <1>4
  <2>2. IsCounted(S, p, ic, A)
    BY <2>1, CountedIn DEF A
  <2> QED BY <2>2 DEF IsCounted, a
<1>6. Without(evtlist, S.evtlist, G)
  BY DEF Reached
<1>7. Unique(evtlist) /\ (process[p].hold_event <=> HoldsOf(evtlist, p) # {})
  BY <1>1, HoldEvents
<1> HIDE DEF p, A, C, B, G, K, L
<1>8. /\ Unique(S.evtlist)
      /\ \A k \in DOMAIN S.evtlist : \E j \in DOMAIN evtlist \ G : S.evtlist[k] = evtlist[j]
      /\ \A j \in DOMAIN evtlist \ G : \E k \in DOMAIN S.evtlist : S.evtlist[k] = evtlist[j]
  BY <1>4, <1>6, <1>7, Leaves
<1>9. HoldsOf(evtlist, p) # {} <=> K # {}
  <2>1. ASSUME NEW j \in HoldsOf(evtlist, p) PROVE K # {}
    <3>1. j \in DOMAIN evtlist \ G
      BY <1>3, <2>1 DEF HoldsOf, G, HoldsAmong
    <3> QED BY <1>8, <3>1, <2>1 DEF HoldsOf, K
  <2>2. ASSUME NEW k \in K PROVE HoldsOf(evtlist, p) # {}
    BY <1>8, <2>2 DEF HoldsOf, K
  <2> QED BY <2>1, <2>2
<1>10. A.process[p] = a /\ a.hold_event = process[p].hold_event /\ a.state = "waiting"
  BY <1>1, <1>2, <1>4, <1>5 DEF ProcessType, Called, a
<1>11. /\ B \in StateType
       /\ B.process = [A.process EXCEPT ![p] = [A.process[p] EXCEPT !.hold_event = FALSE]]
       /\ B.channel = A.channel /\ B.active_processes = A.active_processes
       /\ Without(S.evtlist, B.evtlist, K)
  <2>1. Unique(A.evtlist) /\ (A.process[p].hold_event <=> HoldsOf(A.evtlist, p) # {})
    BY <1>5, <1>7, <1>8, <1>9, <1>10 DEF K
  <2> QED BY <1>1, <1>5, <2>1, HoldCancelled DEF B, K
<1>12. A.process \in [Process -> ProcessType] /\ B.process \in [Process -> ProcessType]
  BY <1>5, <1>11 DEF StateType
<1>13. B.process[p] = [a EXCEPT !.hold_event = FALSE] /\ B.process[p].state = "waiting"
  BY <1>1, <1>10, <1>11, <1>12 DEF ProcessType
<1>14. /\ C \in StateType /\ C.process = [B.process EXCEPT ![p].state = "running"]
       /\ C.active_processes = Append(S.active_processes, p)
       /\ C.channel = A.channel /\ C.evtlist = B.evtlist
  <2>1. B.process[p].state # "running"
    BY <1>13
  <2>2. LET T == activate_process(B, p) IN
        /\ T \in StateType
        /\ T.process = [B.process EXCEPT ![p].state = "running"]
        /\ T.active_processes = Append(B.active_processes, p)
        /\ T.channel = B.channel /\ T.evtlist = B.evtlist
    BY <1>1, <1>11, <2>1, Activation
  <2> QED BY <1>5, <1>11, <2>2 DEF C
<1>15. C.process[p] = Woken(p, ic)
  <2>1. C.process[p] = [B.process[p] EXCEPT !.state = "running"]
    BY <1>1, <1>12, <1>14
  <2>2. C.process[p] = [[a EXCEPT !.hold_event = FALSE] EXCEPT !.state = "running"]
    BY <1>13, <2>1
  <2>3. a = [process[p] EXCEPT !.active_inchannel = ic, !.active_event_retrieved = FALSE,
                               !.process_timedout = FALSE]
    BY <1>4 DEF a, Called
  <2> QED BY <1>4, <2>2, <2>3 DEF Woken, ProcessType
<1>16. \A q \in Process : q # p => C.process[q] = S.process[q]
  BY <1>1, <1>4, <1>5, <1>11, <1>12, <1>14
<1>17. ASSUME NEW q \in Process
       PROVE  C.process[q] = IF Among(who, i, q) THEN Woken(q, ic) ELSE process[q]
  <2>1. Among(who, i, q) <=> Among(who, i - 1, q) \/ q = p
    BY <1>1, AmongStep DEF p
  <2>2. CASE q = p
    BY <1>15, <2>1, <2>2
  <2>3. CASE q # p
    BY <1>16, <2>1, <2>3 DEF Reached
  <2> QED BY <2>2, <2>3
<1>18. /\ Len(C.active_processes) = i
       /\ \A k \in 1 .. i : C.active_processes[k] = who[k]
  <2> DEFINE s == S.active_processes
  <2>1. \A k \in 1 .. (i - 1) : s[k] = who[k]
    BY DEF Reached
  <2>2. s \in Seq(Process) /\ Len(s) = i - 1 /\ C.active_processes = Append(s, p)
    BY <1>4, <1>14
  <2> HIDE DEF s
  <2>3. Len(Append(s, p)) = i /\ Append(s, p)[i] = who[i]
    BY <1>1, <2>2 DEF p
  <2>4. \A k \in 1 .. (i - 1) : Append(s, p)[k] = s[k]
    BY <1>1, <2>2
  <2>5. \A k \in 1 .. i : k \in 1 .. (i - 1) \/ k = i
    BY <1>1
  <2> QED BY <2>1, <2>2, <2>3, <2>4, <2>5
<1>19. ASSUME NEW c \in inChannel
       PROVE  /\ C.channel[c].wait = channel[c].wait
              /\ C.channel[c].active_event = channel[c].active_event
              /\ C.channel[c].processes_activated =
                   IF c = ic THEN channel[c].processes_activated + i
                   ELSE channel[c].processes_activated
  <2>1. /\ S.channel[c].wait = channel[c].wait /\ S.channel[c].active_event = channel[c].active_event
        /\ S.channel[c].processes_activated =
             IF c = ic THEN channel[c].processes_activated + (i - 1)
             ELSE channel[c].processes_activated
    BY DEF Reached
  <2>2. channel[c].processes_activated \in Nat
    BY Types DEF IInv, ChannelType
  <2> DEFINE x == channel[c].processes_activated
  <2>3. (x + (i - 1)) + 1 = x + i
    BY <1>1, <2>2
  <2> HIDE DEF x
  <2>4. c = ic => C.channel[c].processes_activated = (x + (i - 1)) + 1
    BY <1>5, <1>14, <2>1 DEF x
  <2> QED BY <1>5, <1>14, <2>1, <2>3, <2>4 DEF x
<1>20. Without(evtlist, C.evtlist, L)
  <2>1. G \subseteq L
    BY <1>1, AmongStep DEF G, L, HoldsAmong
  <2>2. ASSUME NEW j \in DOMAIN evtlist, NEW k \in DOMAIN S.evtlist,
               S.evtlist[k] = evtlist[j] /\ j \notin G
        PROVE  j \in L <=> k \in K
    <3>1. Among(who, i, evtlist[j].who) <=> Among(who, i - 1, evtlist[j].who) \/ evtlist[j].who = p
      BY <1>1, AmongStep DEF p
    <3> QED BY <2>2, <3>1 DEF G, L, K, HoldsAmong, HoldsOf
  <2>3. B.evtlist \in Seq(KernelEvent)
    BY <1>11 DEF StateType
  <2>4. Without(evtlist, B.evtlist, L)
    BY <1>4, <1>6, <1>11, <2>1, <2>2, <2>3, WithoutBoth
  <2> QED BY <1>14, <2>4
<1> QED BY <1>0, <1>14, <1>17, <1>18, <1>19, <1>20 DEF Reached, L

\* After the last of them.
LEMMA AllWoken ==
  ASSUME IInv, active_processes = <<>>, NEW ic \in inChannel, NEW who, Queue(ic, who), NEW path,
         path[0] = State, \A i \in 1 .. Len(who) : path[i] = Activated(path[i - 1], ic, who[i])
  PROVE  Reached(path[Len(who)], ic, who, Len(who))
<1> DEFINE n == Len(who)
           G == {i \in 0 .. n : Reached(path[i], ic, who, i)}
<1>1. n \in Nat
  BY DEF Queue
<1>2. 0 \in G
  <2>1. State \in StateType /\ State.process = process /\ State.channel = channel
        /\ State.evtlist = evtlist /\ State.active_processes = active_processes
        /\ evtlist \in Seq(KernelEvent) /\ channel \in [inChannel -> ChannelType]
    BY StateIs, Types DEF IInv
  <2>2. \A p : ~Among(who, 0, p)
    BY DEF Among
  <2>3. HoldsAmong(who, 0) = {}
    BY <2>2 DEF HoldsAmong
  <2>4. Without(evtlist, State.evtlist, HoldsAmong(who, 0))
    BY <2>1, <2>3, WithoutNone
  <2>5. \A c \in inChannel : channel[c].processes_activated + 0 = channel[c].processes_activated
    BY <2>1 DEF ChannelType
  <2>6. Len(State.active_processes) = 0 /\ \A k \in 1 .. 0 : State.active_processes[k] = who[k]
    BY <2>1
  <2>7. Reached(State, ic, who, 0)
    BY <2>1, <2>2, <2>4, <2>5, <2>6 DEF Reached
  <2> QED BY <1>1, <2>7
<1>3. ASSUME NEW i \in 1 .. n, i - 1 \in G PROVE i \in G
  <2>1. Reached(path[i - 1], ic, who, i - 1)
    BY <1>3
  <2>2. Reached(path[i], ic, who, i)
    BY <2>1, WakeStep
  <2> QED BY <1>1, <2>2
<1> HIDE DEF G
<1>4. n \in G
  <2> HIDE DEF n
  <2> QED BY <1>1, <1>2, <1>3, SegmentInduction
<1> QED BY <1>4 DEF G

\* What the arrival of an event does, all in one.
Wakes(ic, who) ==
  /\ Queue(ic, who)
  /\ process' \in [Process -> ProcessType] /\ channel' \in [inChannel -> ChannelType]
  /\ \A p \in Process : process'[p] = IF Holds(who, p) THEN Woken(p, ic) ELSE process[p]
  /\ active_processes' = who
  /\ \A c \in inChannel :
       /\ channel'[c].wait = channel[c].wait
       /\ channel'[c].processes_activated = IF c = ic THEN Len(who) ELSE 0
       /\ channel'[c].active_event # None <=> c = ic /\ Len(who) > 0
  /\ Edited(evtlist, evtlist', HoldsAmong(who, Len(who)), {})

LEMMA Inactive ==
  ASSUME IInv, active_processes = <<>>, NEW c \in inChannel
  PROVE  channel[c].processes_activated = 0 /\ channel[c].active_event = None
<1>1. ActivatedBy(c) = {}
  BY NobodyRuns, ProcessAssumption DEF ActivatedBy
<1>2. Activity
  BY DEF IInv
<1> QED BY <1>1, <1>2, FS_EmptySet DEF Activity

LEMMA ArriveFrame ==
  ASSUME IInv, NEW a \in arrivals, Arrive(a)
  PROVE  a.ic \in inChannel /\ a.time \in Nat /\ \E who : Wakes(a.ic, who)
<1> DEFINE ic == a.ic
<1>0. TypeOK
  BY DEF IInv
<1>1. ic \in inChannel /\ a.time \in Nat /\ a.n \in Nat
  BY <1>0, ProcessAssumption DEF TypeOK
<1>2. active_processes = <<>> /\ schedule_arrival(ic, a.n)
  BY DEF Arrive, Idle
<1> HIDE DEF ic
<1> DEFINE Leads(who, path) ==
             /\ path[0] = State
             /\ \A i \in 1 .. Len(who) : path[i] = Activated(path[i - 1], ic, who[i])
             /\ Becomes(IF path[Len(who)].channel[ic].processes_activated > 0
                        THEN [path[Len(who)] EXCEPT !.channel[ic].active_event = a.n]
                        ELSE path[Len(who)])
<1>21. PICK who \in Waiters(ic) : \E path : Leads(who, path)
  BY <1>2 DEF schedule_arrival
<1>22. PICK path : Leads(who, path)
  BY <1>21
<1>3. /\ who \in Waiters(ic) /\ path[0] = State
      /\ \A i \in 1 .. Len(who) : path[i] = Activated(path[i - 1], ic, who[i])
      /\ Becomes(IF path[Len(who)].channel[ic].processes_activated > 0
                 THEN [path[Len(who)] EXCEPT !.channel[ic].active_event = a.n]
                 ELSE path[Len(who)])
  BY <1>22
<1> HIDE DEF Leads
<1>4. Queue(ic, who)
  BY <1>1, QueueIs
<1> DEFINE T == path[Len(who)]
           n == Len(who)
           C == [T.channel EXCEPT ![ic] = [T.channel[ic] EXCEPT !.active_event = a.n]]
           R == IF T.channel[ic].processes_activated > 0
                THEN [T EXCEPT !.channel[ic].active_event = a.n] ELSE T
<1>5. Reached(T, ic, who, n)
  BY <1>1, <1>2, <1>3, <1>4, AllWoken
<1>6. Becomes(R)
  BY <1>3
<1> HIDE DEF T
<1>7. who \in Seq(Process) /\ n \in Nat /\ DOMAIN who = 1 .. n
  BY <1>4 DEF Queue
<1>8. /\ T \in StateType /\ T.channel \in [inChannel -> ChannelType]
      /\ T.process \in [Process -> ProcessType] /\ T.active_processes \in Seq(Process)
      /\ T.evtlist \in Seq(KernelEvent)
  BY <1>5 DEF Reached, StateType
<1>9. \A c \in inChannel :
        /\ T.channel[c].wait = channel[c].wait
        /\ T.channel[c].processes_activated = IF c = ic THEN n ELSE 0
        /\ T.channel[c].active_event = None
  <2>1. 0 + n = n
    BY <1>7
  <2> HIDE DEF n
  <2> QED BY <1>2, <1>5, <2>1, Inactive DEF Reached
<1>10. /\ R.process = T.process /\ R.evtlist = T.evtlist
       /\ R.active_processes = T.active_processes
       /\ R.channel = IF n > 0 THEN C ELSE T.channel
  <2>1. T.channel[ic].processes_activated = n
    BY <1>1, <1>9
  <2>2. CASE n > 0
    <3>1. R = [T EXCEPT !.channel = C]
      BY <1>8, <2>1, <2>2 DEF StateType
    <3> HIDE DEF R, C, n
    <3> QED BY <1>8, <2>2, <3>1 DEF StateType
  <2>3. CASE ~(n > 0)
    BY <2>1, <2>3
  <2> QED BY <2>2, <2>3
<1> HIDE DEF R
<1>11. /\ C \in [inChannel -> ChannelType]
       /\ \A c \in inChannel : /\ C[c].wait = T.channel[c].wait
                               /\ C[c].processes_activated = T.channel[c].processes_activated
                               /\ C[c].active_event = IF c = ic THEN a.n ELSE T.channel[c].active_event
  <2> DEFINE d == [T.channel[ic] EXCEPT !.active_event = a.n]
  <2>1. /\ d \in ChannelType /\ d.wait = T.channel[ic].wait /\ d.active_event = a.n
        /\ d.processes_activated = T.channel[ic].processes_activated
    BY <1>1, <1>8 DEF ChannelType
  <2>2. C = [T.channel EXCEPT ![ic] = d]
    OBVIOUS
  <2> HIDE DEF d, C
  <2>3. /\ C[ic] = d /\ C \in [inChannel -> ChannelType]
        /\ \A c \in inChannel : c # ic => C[c] = T.channel[c]
    BY <1>1, <1>8, <2>1, <2>2
  <2> QED BY <1>1, <2>1, <2>3
<1> HIDE DEF C
<1>12. /\ process' = T.process /\ channel' = (IF n > 0 THEN C ELSE T.channel)
       /\ evtlist' = T.evtlist /\ active_processes' = T.active_processes
  BY <1>6, <1>10, BecomesIs
<1>13. active_processes' = who
  <2>1. Len(T.active_processes) = n /\ \A k \in 1 .. n : T.active_processes[k] = who[k]
    BY <1>5 DEF Reached
  <2> QED BY <1>7, <1>8, <1>12, <2>1
<1>14. \A p \in Process : Among(who, n, p) <=> Holds(who, p)
  BY <1>7 DEF Among, Holds
<1>15. Edited(evtlist, evtlist', HoldsAmong(who, n), {})
  BY <1>5, <1>8, <1>12 DEF Edited, Reached
<1>16. a.n # None
  BY <1>1, ProcessAssumption
<1>17. \A c \in inChannel :
       /\ channel'[c].wait = channel[c].wait
       /\ channel'[c].processes_activated = IF c = ic THEN n ELSE 0
       /\ channel'[c].active_event # None <=> c = ic /\ n > 0
  BY <1>9, <1>11, <1>12, <1>16
<1>18. process' \in [Process -> ProcessType] /\ channel' \in [inChannel -> ChannelType]
  BY <1>8, <1>11, <1>12
<1>19. \A p \in Process : process'[p] = IF Holds(who, p) THEN Woken(p, ic) ELSE process[p]
  BY <1>5, <1>12, <1>14 DEF Reached
<1>20. Wakes(ic, who)
  BY <1>4, <1>13, <1>15, <1>17, <1>18, <1>19 DEF Wakes
<1> QED BY <1>1, <1>20 DEF ic

LEMMA QueueLength ==
  ASSUME NEW who \in Seq(Process), IsInjective(who)
  PROVE  Cardinality({p \in Process : Holds(who, p)}) = Len(who)
<1> DEFINE D == {p \in Process : Holds(who, p)}
           n == Len(who)
<1>1. n \in Nat /\ DOMAIN who = 1 .. n /\ who \in [1 .. n -> Process]
  OBVIOUS
<1>2. who \in [1 .. n -> D]
  BY <1>1 DEF Holds
<1>3. who \in Bijection(1 .. n, D)
  BY <1>1, <1>2 DEF Bijection, Injection, Surjection, Holds, IsInjective
<1>4. ExistsBijection(1 .. n, D)
  BY <1>3 DEF ExistsBijection
<1> HIDE DEF D, n
<1>5. Cardinality(D) = n
  BY <1>1, <1>4, FS_CountingElements
<1> QED BY <1>5 DEF D, n

LEMMA WokenIs ==
  ASSUME IInv, active_processes = <<>>, NEW ic \in inChannel, NEW p \in Process, IsWaiting(ic, p)
  PROVE  /\ process[p].state = "waiting"
         /\ Woken(p, ic) \in ProcessType /\ StateOK(Woken(p, ic))
         /\ Woken(p, ic).state = "running" /\ ~Woken(p, ic).hold_event
         /\ Woken(p, ic).active_inchannel = ic /\ Woken(p, ic).waiton = process[p].waiton
         /\ ~Woken(p, ic).process_timedout
<1>1. process[p] \in ProcessType /\ StateOK(process[p])
  BY Types DEF IInv, States
<1>2. process[p].state = "waiting"
  BY WaitersWait
<1> QED BY <1>1, <1>2 DEF StateOK, Woken, ProcessType

LEMMA ArriveStep ==
  ASSUME IInv, NEW a \in arrivals, Arrive(a)
  PROVE  IInv'
<1> DEFINE ic == a.ic
<1>0. TypeOK /\ States /\ Ready /\ Lists /\ Activity /\ Order /\ Places /\ Events /\ InLine
        /\ Times /\ Asked
  BY DEF IInv
<1>1. /\ context = "timeline" /\ active_processes = <<>>
      /\ \A b \in arrivals : a.time <= b.time
      /\ \A j \in DOMAIN evtlist : a.time <= evtlist[j].time
      /\ arrivals' = arrivals \ {a} /\ simclock' = a.time
      /\ UNCHANGED <<context, semaphores, timers, calls, asked>>
  BY Zenon DEF Arrive, Idle
<1>2. ic \in inChannel /\ a.time \in Nat /\ \E who : Wakes(ic, who)
  BY ArriveFrame
<1> HIDE DEF ic
<1>3. PICK who : Wakes(ic, who)
  BY <1>2
<1> DEFINE n == Len(who)
           G == HoldsAmong(who, n)
<1>4. /\ who \in Seq(Process) /\ IsInjective(who) /\ n \in Nat /\ DOMAIN who = 1 .. n
      /\ \A p \in Process : Holds(who, p) <=> IsWaiting(ic, p)
  BY <1>3 DEF Wakes, Queue
<1>5. /\ process' \in [Process -> ProcessType] /\ channel' \in [inChannel -> ChannelType]
      /\ active_processes' = who
      /\ \A p \in Process : process'[p] = IF Holds(who, p) THEN Woken(p, ic) ELSE process[p]
  BY <1>3 DEF Wakes
<1>6. \A c \in inChannel :
       /\ channel'[c].wait = channel[c].wait
       /\ channel'[c].processes_activated = IF c = ic THEN n ELSE 0
       /\ channel'[c].active_event # None <=> c = ic /\ n > 0
  BY <1>3 DEF Wakes
<1>7. Edited(evtlist, evtlist', G, {})
  BY <1>3 DEF Wakes
<1>8. \A p \in Process : Holds(who, p) =>
        /\ process[p].state = "waiting" /\ process'[p] \in ProcessType /\ StateOK(process'[p])
        /\ process'[p].state = "running" /\ ~process'[p].hold_event
        /\ process'[p].active_inchannel = ic /\ process'[p].waiton = process[p].waiton
  BY <1>1, <1>2, <1>4, <1>5, WokenIs
<1>9. \A p \in Process : ~Holds(who, p) => process'[p] = process[p]
  BY <1>5
<1>10. \A p \in Process : process[p].state # "running" /\ process[p].active_inchannel = None
  BY <1>1, NobodyRuns
<1>11. \A p : Among(who, n, p) <=> Holds(who, p)
  BY <1>4 DEF Among, Holds
<1> HIDE DEF n, G
<1>12. /\ evtlist' \in Seq(KernelEvent) /\ Unique(evtlist')
       /\ \A j \in DOMAIN evtlist' :
            evtlist'[j].who \in (IF evtlist'[j].kind = "timer" THEN Timer ELSE Process)
       /\ \A kind, x : HasEvent(kind, x)' <=> HasEvent(kind, x) /\ ~(kind = "hold" /\ Holds(who, x))
  <2>1. G \in SUBSET DOMAIN evtlist
    BY DEF G, HoldsAmong
  <2>2. {} \in SUBSET KernelEvent /\ \A e \in {} :
           /\ e.who \in (IF e.kind = "timer" THEN Timer ELSE Process)
           /\ ~HasEvent(e.kind, e.who) \/ Gone(G, e.kind, e.who)
    OBVIOUS
  <2>3. /\ evtlist' \in Seq(KernelEvent) /\ Unique(evtlist')
        /\ \A j \in DOMAIN evtlist' :
             evtlist'[j].who \in (IF evtlist'[j].kind = "timer" THEN Timer ELSE Process)
        /\ \A kind, x : HasEvent(kind, x)' <=> \/ HasEvent(kind, x) /\ ~Gone(G, kind, x)
                                               \/ Comes({}, kind, x)
    BY <1>0, <1>7, <2>1, <2>2, EventsStep
  <2>4. \A kind, x : ~Comes({}, kind, x)
    BY DEF Comes
  <2>5. \A kind, x : HasEvent(kind, x) => (Gone(G, kind, x) <=> kind = "hold" /\ Holds(who, x))
    BY <1>11 DEF Gone, G, HoldsAmong, HasEvent, n
  <2> QED BY <2>3, <2>4, <2>5
<1>13. TypeOK'
  BY <1>0, <1>1, <1>2, <1>4, <1>5, <1>12 DEF TypeOK, semaphores, timers
<1>14. States'
  <2>1. \A p \in Process : StateOK(process'[p])
    BY <1>0, <1>8, <1>9 DEF States
  <2> QED BY <2>1 DEF States, StateOK
<1>15. Ready'
  <2>1. \A p \in Process : process'[p].state = "running" <=> Holds(who, p)
    BY <1>8, <1>9, <1>10
  <2> QED BY <1>1, <1>4, <1>5, <2>1 DEF Ready, Holds
<1>16. Lists'
  <2>1. \A p \in Process : process'[p].waiton = process[p].waiton
    BY <1>8, <1>9
  <2> QED BY <1>0, <1>6, <2>1 DEF Lists
<1>17. Activity'
  <2>1. \A p \in Process : process'[p].state = "running" => process'[p].active_inchannel = ic
    BY <1>8, <1>9, <1>10
  <2>2. \A c \in inChannel : c # ic => ActivatedBy(c)' = {}
    BY <1>8, <1>9, <1>10, ProcessAssumption DEF ActivatedBy
  <2>3. ActivatedBy(ic)' = {p \in Process : Holds(who, p)}
    BY <1>2, <1>8, <1>9, <1>10, ProcessAssumption DEF ActivatedBy
  <2>4. Cardinality({p \in Process : Holds(who, p)}) = n
    BY <1>4, QueueLength DEF n
  <2>5. n > 0 <=> {p \in Process : Holds(who, p)} # {}
    <3>1. ASSUME n > 0 PROVE {p \in Process : Holds(who, p)} # {}
      <4>1. 1 \in DOMAIN who
        BY <1>4, <3>1 DEF n
      <4>2. who[1] \in Process /\ Holds(who, who[1])
        BY <1>4, <4>1 DEF Holds
      <4> QED BY <4>2
    <3>2. ASSUME NEW p \in Process, Holds(who, p) PROVE n > 0
      BY <1>4, <3>2 DEF Holds, n
    <3> QED BY <3>1, <3>2
  <2>6. ASSUME NEW c \in inChannel
        PROVE  /\ channel'[c].processes_activated = Cardinality(ActivatedBy(c)')
               /\ channel'[c].active_event # None => ActivatedBy(c)' # {}
               /\ \A p \in ActivatedBy(c)' :
                    ~process'[p].active_event_retrieved => channel'[c].active_event # None
    <3>1. CASE c = ic
      BY <1>6, <2>3, <2>4, <2>5, <3>1
    <3>2. CASE c # ic
      BY <1>6, <2>2, <3>2, FS_EmptySet
    <3> QED BY <3>1, <3>2
  <2> QED BY <2>1, <2>6 DEF Activity
<1>18. Order' /\ SameOrder /\ order' = order /\ \A p : IsReleased(p)' <=> IsReleased(p)
  BY <1>0, <1>1, OrderKept
<1>19. Places'
  <2>1. ASSUME NEW s \in Semaphore, NEW k \in DOMAIN order[s]
        PROVE  process'[order[s][k]] = process[order[s][k]]
    <3>1. order[s][k] \in Process
      BY <1>0 DEF TypeOK
    <3>2. ~IsWaiting(ic, order[s][k])
      BY <1>0 DEF Places, IsWaiting, Declared
    <3> QED BY <1>4, <1>9, <3>1, <3>2
  <2> QED BY <1>0, <1>18, <2>1 DEF Places
<1>20. Events'
  <2>1. ASSUME NEW q \in Process
        PROVE  /\ HasEvent("process", q)' <=> process'[q].state = "creating"
               /\ HasEvent("hold", q)' <=> process'[q].hold_event
               /\ HasEvent("semaphore", q)' <=> IsReleased(q)'
    <3>1. /\ HasEvent("process", q) <=> process[q].state = "creating"
          /\ HasEvent("hold", q) <=> process[q].hold_event
          /\ HasEvent("semaphore", q) <=> IsReleased(q)
      BY <1>0 DEF Events
    <3>2. CASE Holds(who, q)
      BY <1>8, <1>12, <1>18, <3>1, <3>2
    <3>3. CASE ~Holds(who, q)
      BY <1>9, <1>12, <1>18, <3>1, <3>3
    <3> QED BY <3>2, <3>3
  <2>2. \A t \in Timer : HasEvent("timer", t)' <=> timer_event'[t]
    BY <1>0, <1>1, <1>12 DEF Events, timers
  <2> QED BY <1>12, <2>1, <2>2 DEF Events, Unique
<1>21. InLine'
  <2>1. \A f \in {} : f.kind # "semaphore"
    OBVIOUS
  <2> QED BY <1>0, <1>7, <1>18, <2>1, InLineKept
<1>22. Times'
  <2>1. \A b \in arrivals' : simclock' <= b.time
    BY <1>1
  <2>2. \A j \in DOMAIN evtlist \ G :
           /\ simclock' <= evtlist[j].time
           /\ evtlist[j].kind \in {"process", "semaphore"} => evtlist[j].time = simclock'
           /\ evtlist[j].kind = "hold" =>
                asked'[evtlist[j].who].until = asked[evtlist[j].who].until
           /\ evtlist[j].kind = "timer" => fire_time'[evtlist[j].who] = fire_time[evtlist[j].who]
    <3> SUFFICES ASSUME NEW j \in DOMAIN evtlist
                 PROVE  /\ simclock' <= evtlist[j].time
                        /\ evtlist[j].kind \in {"process", "semaphore"} =>
                             evtlist[j].time = simclock'
                        /\ asked' = asked /\ fire_time' = fire_time
      OBVIOUS
    <3>1. simclock \in Nat /\ simclock <= a.time /\ a.time <= evtlist[j].time
      BY <1>0, <1>1 DEF Times, TypeOK
    <3>2. evtlist[j].kind \in {"process", "semaphore"} => evtlist[j].time = simclock
      BY <1>0 DEF Times
    <3>3. asked' = asked /\ fire_time' = fire_time
      BY <1>1 DEF timers
    <3> QED BY <1>1, <1>2, <3>1, <3>2, <3>3
  <2>3. \A f \in {} : /\ simclock' <= f.time
                      /\ f.kind \in {"process", "semaphore"} => f.time = simclock'
                      /\ f.kind = "hold" => f.time = asked'[f.who].until
                      /\ f.kind = "timer" => f.time = fire_time'[f.who]
    OBVIOUS
  <2> QED BY <1>0, <1>7, <2>1, <2>2, <2>3, TimesStep
<1>23. Asked'
  <2>1. \A p \in Process : process'[p].state = "waiting" => process'[p] = process[p]
    BY <1>8, <1>9
  <2>2. asked' = asked
    BY <1>1
  <2> QED BY <1>0, <2>1, <2>2 DEF Asked
<1> QED BY <1>13, <1>14, <1>15, <1>16, <1>17, <1>18, <1>19, <1>20, <1>21, <1>22, <1>23 DEF IInv

-----------------------------------------------------------------------------
(* The invariant holds.                                                    *)

Inv == IInv /\ Begun

LEMMA InitInv ==
  ASSUME Init
  PROVE  Inv
<1>1. /\ process = [p \in Process |-> IF p \in Range(InitProcesses) THEN NewProcess ELSE NoProcess]
      /\ channel = [ic \in inChannel |->
                      [wait |-> <<>>, active_event |-> None, processes_activated |-> 0]]
      /\ evtlist = [i \in DOMAIN InitProcesses |->
                      [kind |-> "process", who |-> InitProcesses[i], time |-> 0]]
      /\ active_processes = <<>> /\ arrivals = Arrivals /\ simclock = 0 /\ context = "timeline"
      /\ sem_count = InitCount
      /\ blocked_processes = [s \in Semaphore |-> <<>>] /\ order = [s \in Semaphore |-> <<>>]
      /\ timer_event = [t \in Timer |-> FALSE] /\ fire_time = [t \in Timer |-> 0]
      /\ uncalled = {} /\ calls = 0 /\ asked = [p \in Process |-> Nothing]
  BY DEF Init
<1>2. /\ NewProcess \in ProcessType /\ NoProcess \in ProcessType
      /\ StateOK(NewProcess) /\ StateOK(NoProcess)
      /\ NewProcess.state = "creating" /\ NoProcess.state = "none"
      /\ ~NewProcess.hold_event /\ ~NoProcess.hold_event
      /\ NewProcess.waiton = {} /\ NoProcess.waiton = {}
      /\ NewProcess.active_inchannel = None /\ NoProcess.active_inchannel = None
  BY DEF NewProcess, NoProcess, ProcessType, StateOK
<1>3. /\ process \in [Process -> ProcessType]
      /\ \A p \in Process :
           /\ StateOK(process[p]) /\ process[p].state \in {"creating", "none"}
           /\ ~process[p].hold_event /\ process[p].waiton = {} /\ process[p].active_inchannel = None
           /\ process[p].state = "creating" <=> p \in Range(InitProcesses)
  BY <1>1, <1>2
<1>4. /\ InitProcesses \in Seq(Process) /\ DOMAIN InitProcesses = 1 .. Len(InitProcesses)
      /\ Len(InitProcesses) \in Nat /\ \A i, j \in DOMAIN InitProcesses :
           InitProcesses[i] = InitProcesses[j] => i = j
  BY ProcessAssumption DEF IsInjective
<1>5. /\ DOMAIN evtlist = DOMAIN InitProcesses
      /\ \A i \in DOMAIN evtlist : /\ evtlist[i].kind = "process" /\ evtlist[i].time = 0
                                   /\ evtlist[i].who = InitProcesses[i] /\ evtlist[i].who \in Process
  BY <1>1, <1>4
<1>6. evtlist \in Seq(KernelEvent)
  <2>1. \A i \in 1 .. Len(InitProcesses) : evtlist[i] \in KernelEvent
    BY <1>1, <1>4 DEF KernelEvent
  <2> DEFINE m == Len(InitProcesses)
  <2>2. evtlist \in [1 .. m -> KernelEvent]
    BY <1>1, <1>4, <2>1
  <2> HIDE DEF m
  <2> QED BY <1>4, <2>2 DEF m
<1>7. \A s \in Semaphore : order[s] = <<>> /\ blocked_processes[s] = <<>> /\ sem_count[s] = InitCount[s]
  BY <1>1
<1>8. \A ic \in inChannel : /\ channel[ic].wait = <<>> /\ channel[ic].active_event = None
                            /\ channel[ic].processes_activated = 0
  BY <1>1
<1>9. TypeOK
  <2>1. channel \in [inChannel -> ChannelType]
    <3>1. [wait |-> <<>>, active_event |-> None, processes_activated |-> 0] \in ChannelType
      BY DEF ChannelType
    <3> QED BY <1>1, <3>1
  <2>2. asked \in [Process -> [ics : SUBSET inChannel, static : BOOLEAN, until : Nat \cup {Forever}]]
    BY <1>1 DEF Nothing
  <2>3. /\ blocked_processes \in [Semaphore -> Seq(Process)] /\ order \in [Semaphore -> Seq(Process)]
        /\ active_processes \in Seq(Process)
    BY <1>1
  <2>4. /\ arrivals \subseteq Arrivals /\ simclock \in Nat
        /\ context \in {"timeline", "process", "callback"} /\ sem_count \in [Semaphore -> Int]
        /\ timer_event \in [Timer -> BOOLEAN] /\ fire_time \in [Timer -> Nat]
        /\ uncalled \subseteq Timer /\ calls \in Nat
    BY <1>1, ProcessAssumption
  <2> QED BY <1>3, <1>6, <2>1, <2>2, <2>3, <2>4 DEF TypeOK
<1>10. States /\ Asked
  BY <1>3 DEF States, Asked
<1>11. Ready
  BY <1>1, <1>3 DEF Ready, Holds, IsInjective
<1>12. Lists
  BY <1>3, <1>8 DEF Lists, Holds, IsInjective
<1>13. Activity
  <2>1. \A ic \in inChannel : ActivatedBy(ic) = {}
    BY <1>3, ProcessAssumption DEF ActivatedBy
  <2> QED BY <1>3, <1>8, <2>1, FS_EmptySet DEF Activity
<1>14. \A s \in Semaphore : Passing(s) = 0
  BY <1>7 DEF Passing
<1>15. Order
  <2> SUFFICES ASSUME NEW s \in Semaphore
               PROVE  /\ Passing(s) >= 0
                      /\ blocked_processes[s] = SubSeq(order[s], Passing(s) + 1, Len(order[s]))
                      /\ Blocks(s, Len(blocked_processes[s]), sem_count[s])
    BY DEF Order
  <2>1. SubSeq(<<>>, 1, 0) = <<>> /\ Len(<<>>) = 0
    OBVIOUS
  <2>2. Blocks(s, 0, InitCount[s])
    BY ProcessAssumption DEF Blocks
  <2>3. order[s] = <<>> /\ blocked_processes[s] = <<>> /\ sem_count[s] = InitCount[s]
    BY <1>7
  <2>4. Passing(s) = 0 /\ Passing(s) + 1 = 1
    BY <1>14
  <2>5. blocked_processes[s] = SubSeq(order[s], Passing(s) + 1, Len(order[s]))
    BY <2>1, <2>3, <2>4, Zenon
  <2>6. Blocks(s, Len(blocked_processes[s]), sem_count[s])
    BY <2>1, <2>2, <2>3, Zenon
  <2> QED BY <2>4, <2>5, <2>6
<1>16. Places
  BY <1>7 DEF Places
<1>17. InLine
  BY <1>14 DEF InLine
<1>18. Times
  <2>1. \A a \in arrivals : a.time \in Nat
    BY <1>1, ProcessAssumption
  <2> QED BY <1>1, <1>5, <2>1 DEF Times
<1>19. Events
  <2>1. \A kind, x : HasEvent(kind, x) <=> kind = "process" /\ x \in Range(InitProcesses)
    BY <1>4, <1>5 DEF HasEvent, Range
  <2>2. \A p : ~IsReleased(p)
    BY <1>14 DEF IsReleased
  <2>3. /\ \A i, j \in DOMAIN evtlist :
             evtlist[i].kind = evtlist[j].kind /\ evtlist[i].who = evtlist[j].who => i = j
        /\ \A i \in DOMAIN evtlist :
             evtlist[i].who \in (IF evtlist[i].kind = "timer" THEN Timer ELSE Process)
    BY <1>4, <1>5
  <2>4. \A t \in Timer : ~timer_event[t]
    BY <1>1
  <2> QED BY <1>3, <2>1, <2>2, <2>3, <2>4 DEF Events
<1>20. Begun
  BY <1>1 DEF Begun
<1> QED BY <1>9, <1>10, <1>11, <1>12, <1>13, <1>15, <1>16, <1>17, <1>18, <1>19, <1>20 DEF IInv, Inv

\* No event is taken, and no process begins to run.
Undisturbed ==
  /\ arrivals' = arrivals /\ simclock' = simclock
  /\ \/ active_processes' = active_processes
     \/ active_processes # <<>> /\ active_processes' = Tail(active_processes)

LEMMA BegunKept ==
  ASSUME Begun, context' = context, active_processes' = active_processes,
         context = "process" => asked'[Self] \in {asked[Self], Nothing}
  PROVE  Begun'
BY DEF Begun, Self

LEMMA WaitCall ==
  ASSUME Inv, \/ \E ics \in SUBSET inChannel : waitOn(ics)
              \/ waitOnStatic \/ waitForever
  PROVE  Inv' /\ Undisturbed
<1>1. IInv' /\ active_processes' = Tail(active_processes)
  BY WaitOnStep, StaticStep, ForeverStep DEF Inv
<1>2. /\ context = "process" /\ context' = "timeline"
      /\ arrivals' = arrivals /\ simclock' = simclock
  BY DEF waitOn, waitOnStatic, waitForever, Call
<1>3. active_processes # <<>>
  BY <1>2, SelfIs DEF Inv
<1> QED BY <1>1, <1>2, <1>3 DEF Inv, Begun, Undisturbed

LEMMA SemaphoreCall ==
  ASSUME Inv, NEW s \in Semaphore, wait(s) \/ signal(s)
  PROVE  Inv' /\ Undisturbed
<1>1. CASE wait(s)
  <2>1. /\ IInv' /\ arrivals' = arrivals /\ simclock' = simclock /\ asked' = asked
        /\ \/ active_processes' = active_processes /\ context' = context
           \/ active_processes' = Tail(active_processes) /\ context' = "timeline"
    BY <1>1, WaitStep DEF Inv
  <2>2. active_processes # <<>>
    BY <1>1, SelfIs DEF Inv, wait, Call
  <2>3. Begun'
    BY <2>1, BegunKept DEF Inv, Begun
  <2> QED BY <2>1, <2>2, <2>3 DEF Inv, Undisturbed
<1>2. CASE signal(s)
  <2>1. IInv' /\ active_processes' = active_processes
    BY <1>2, SignalStep DEF Inv
  <2>2. arrivals' = arrivals /\ simclock' = simclock /\ asked' = asked /\ context' = context
    BY <1>2 DEF signal
  <2> QED BY <2>1, <2>2, BegunKept DEF Inv, Undisturbed
<1> QED BY <1>1, <1>2

LEMMA TimerCall ==
  ASSUME Inv, NEW t \in Timer,
         (\E d \in Delays, again \in BOOLEAN : schedule(t, d, again)) \/ cancel(t)
  PROVE  Inv' /\ Undisturbed
<1>1. IInv' /\ active_processes' = active_processes
  BY ScheduleStep, CancelStep DEF Inv
<1>2. arrivals' = arrivals /\ simclock' = simclock /\ asked' = asked /\ context' = context
  BY DEF schedule, cancel
<1> QED BY <1>1, <1>2, BegunKept DEF Inv, Undisturbed

LEMMA ProcessCall ==
  ASSUME Inv, NEW p \in Process, NewProcessIn(p) \/ Delete(p)
  PROVE  Inv' /\ Undisturbed
<1>1. IInv' /\ active_processes' = active_processes
  BY NewStep, DeleteStep DEF Inv
<1>2. /\ arrivals' = arrivals /\ simclock' = simclock /\ context' = context
      /\ asked' \in {asked, [asked EXCEPT ![p] = Nothing]}
  BY DEF NewProcessIn, Delete
<1>3. context = "process" => asked'[Self] \in {asked[Self], Nothing}
  <2> SUFFICES ASSUME context = "process" PROVE asked'[Self] \in {asked[Self], Nothing}
    OBVIOUS
  <2>1. Self \in Process
    BY SelfIs DEF Inv
  <2>2. DOMAIN asked = Process
    BY DEF Inv, IInv, TypeOK
  <2> QED BY <1>2, <2>1, <2>2
<1> QED BY <1>1, <1>2, <1>3, BegunKept DEF Inv, Undisturbed

LEMMA ChannelCall ==
  ASSUME Inv, \/ \E p \in Process, ics \in SUBSET inChannel : waitsOn(p, ics)
              \/ \E ic \in inChannel : activeEvent(ic)
  PROVE  Inv' /\ Undisturbed
<1>1. IInv'
  BY WaitsOnStep, ActiveEventStep DEF Inv
<1>2. /\ arrivals' = arrivals /\ simclock' = simclock /\ asked' = asked /\ context' = context
      /\ active_processes' = active_processes
  BY DEF waitsOn, activeEvent
<1> QED BY <1>1, <1>2, BegunKept DEF Inv, Undisturbed

LEMMA UserStep ==
  ASSUME Inv, User
  PROVE  Inv' /\ Undisturbed
BY WaitCall, SemaphoreCall, TimerCall, ProcessCall, ChannelCall DEF User

LEMMA GoesOnStep ==
  ASSUME Inv, Execute \/ CallbackReturns
  PROVE  Inv' /\ Undisturbed
<1>1. CASE Execute
  <2>1. IInv' /\ active_processes' = active_processes
    BY <1>1, ExecuteStep DEF Inv
  <2>2. /\ arrivals' = arrivals /\ simclock' = simclock /\ active_processes # <<>>
        /\ asked' = [asked EXCEPT ![Self] = Nothing]
    BY <1>1 DEF Execute, Self
  <2>3. active_processes \in Seq(Process) /\ DOMAIN asked = Process
    BY DEF Inv, IInv, TypeOK
  <2>4. asked'[Self] = Nothing
    BY <2>2, <2>3 DEF Self
  <2>5. Begun'
    BY <2>1, <2>4 DEF Begun, Self
  <2> QED BY <2>1, <2>2, <2>5 DEF Inv, Undisturbed
<1>2. CASE CallbackReturns
  <2>1. IInv'
    BY <1>2, ReturnStep DEF Inv
  <2>2. /\ arrivals' = arrivals /\ simclock' = simclock /\ context' = "timeline"
        /\ active_processes' = active_processes
    BY <1>2 DEF CallbackReturns, scheduling
  <2> QED BY <2>1, <2>2 DEF Inv, Undisturbed, Begun
<1> QED BY <1>1, <1>2

LEMMA EventStep ==
  ASSUME Inv, \/ \E i \in DOMAIN evtlist : TakeEvent(i) \/ TimerFires(i)
              \/ \E a \in arrivals : Arrive(a)
  PROVE  Inv'
<1>1. CASE \E i \in DOMAIN evtlist : TakeEvent(i)
  <2>1. PICK i \in DOMAIN evtlist : TakeEvent(i)
    BY <1>1
  <2>2. evtlist[i].kind \in {"process", "hold", "semaphore"} /\ context' = "timeline"
    BY <2>1 DEF TakeEvent, Idle
  <2>3. IInv'
    BY <2>1, <2>2, ProcessStep, TimeoutStep, PassStep DEF Inv
  <2> QED BY <2>2, <2>3 DEF Inv, Begun
<1>2. CASE \E i \in DOMAIN evtlist : TimerFires(i)
  <2>1. PICK i \in DOMAIN evtlist : TimerFires(i)
    BY <1>2
  <2>2. context' # "process"
    BY <2>1 DEF TimerFires, Idle
  <2>3. IInv'
    BY <2>1, TimerStep DEF Inv
  <2> QED BY <2>2, <2>3 DEF Inv, Begun
<1>3. CASE \E a \in arrivals : Arrive(a)
  <2>1. PICK a \in arrivals : Arrive(a)
    BY <1>3
  <2>2. context' = "timeline"
    BY <2>1 DEF Arrive, Idle
  <2>3. IInv'
    BY <2>1, ArriveStep DEF Inv
  <2> QED BY <2>2, <2>3 DEF Inv, Begun
<1> QED BY <1>1, <1>2, <1>3

LEMMA StutterStep ==
  ASSUME Inv, UNCHANGED vars
  PROVE  Inv'
<1>1. /\ process' = process /\ channel' = channel /\ evtlist' = evtlist
      /\ active_processes' = active_processes /\ arrivals' = arrivals /\ simclock' = simclock
      /\ context' = context /\ sem_count' = sem_count /\ blocked_processes' = blocked_processes
      /\ order' = order /\ timer_event' = timer_event /\ fire_time' = fire_time
      /\ uncalled' = uncalled /\ calls' = calls /\ asked' = asked
  BY DEF vars, scheduling, semaphores, timers
<1>2. TypeOK'
  BY <1>1 DEF Inv, IInv, TypeOK
<1>3. States' /\ Ready' /\ Lists'
  BY <1>1 DEF Inv, IInv, States, Ready, Lists, Self
<1>4. Activity'
  BY <1>1 DEF Inv, IInv, Activity, ActivatedBy
<1>5. Order' /\ Places'
  BY <1>1 DEF Inv, IInv, Order, Places, Passing
<1>6. Events'
  BY <1>1 DEF Inv, IInv, Events, HasEvent, IsReleased, Passing
<1>7. InLine' /\ Times' /\ Asked' /\ Begun'
  BY <1>1 DEF Inv, IInv, InLine, Passing, Turn, Times, Asked, Begun, Self
<1> QED BY <1>2, <1>3, <1>4, <1>5, <1>6, <1>7 DEF Inv, IInv

LEMMA NextInv ==
  ASSUME Inv, [Next]_vars
  PROVE  Inv'
<1>1. CASE UNCHANGED vars
  BY <1>1, StutterStep
<1>2. CASE User
  BY <1>2, UserStep
<1>3. CASE Kernel
  BY <1>3, EventStep, GoesOnStep DEF Kernel
<1> QED BY <1>1, <1>2, <1>3 DEF Next

THEOREM InvHolds == Spec => []Inv
<1>1. Init => Inv
  BY InitInv
<1>2. Inv /\ [Next]_vars => Inv'
  BY NextInv
<1> QED BY <1>1, <1>2, PTL DEF Spec

-----------------------------------------------------------------------------
(* The properties.                                                         *)

\* The variables always have the values they are made for.
THEOREM TypeOKHolds == Spec => []TypeOK
<1>1. Inv => TypeOK
  BY DEF Inv, IInv
<1> QED BY <1>1, InvHolds, PTL

LEMMA EventForEachIs ==
  ASSUME Inv
  PROVE  EventForEach
<1>0. TypeOK /\ Ready /\ Activity
  BY DEF Inv, IInv
<1>1. ASSUME NEW i \in DOMAIN active_processes,
             process[active_processes[i]].active_inchannel # None,
             ~process[active_processes[i]].active_event_retrieved
      PROVE  channel[process[active_processes[i]].active_inchannel].active_event # None
  <2> DEFINE p == active_processes[i]
  <2>1. p \in Process /\ process[p] \in ProcessType
    BY <1>0, Types
  <2>2. process[p].active_inchannel \in inChannel /\ p \in ActivatedBy(process[p].active_inchannel)
    BY <1>1, <2>1 DEF ProcessType, ActivatedBy
  <2> QED BY <1>0, <1>1, <2>2 DEF Activity
<1>2. ASSUME Idle, NEW ic \in inChannel
      PROVE  channel[ic].active_event = None /\ channel[ic].processes_activated = 0
  BY <1>2, Inactive DEF Idle, Inv
<1> QED BY <1>1, <1>2 DEF EventForEach

\* Every process that an event has activated can retrieve it, whatever the
\* others do, and nothing of it stays at an inchannel.
THEOREM EventForEachHolds == Spec => []EventForEach
BY InvHolds, EventForEachIs, PTL

LEMMA FirstComeFirstServedIs ==
  ASSUME Inv
  PROVE  FirstComeFirstServed
<1>0. TypeOK /\ Order /\ Places /\ Events /\ InLine /\ Times
  BY DEF Inv, IInv
<1> SUFFICES ASSUME NEW s \in Semaphore
    PROVE  LET n == Len(order[s]) - Len(blocked_processes[s]) IN
           /\ n >= 0 /\ blocked_processes[s] = SubSeq(order[s], n + 1, Len(order[s]))
           /\ \A k \in 1 .. Len(order[s]) :
                /\ process[order[s][k]].state = "waiting"
                /\ k <= n <=> \E i \in DOMAIN evtlist : Turn(order[s][k], i)
           /\ \A i, j \in DOMAIN evtlist : \A k, l \in 1 .. n :
                k < l /\ Turn(order[s][k], i) /\ Turn(order[s][l], j) => Before(i, j)
           /\ Blocks(s, Len(blocked_processes[s]), sem_count[s])
  BY DEF FirstComeFirstServed
<1> DEFINE n == Len(order[s]) - Len(blocked_processes[s])
<1>1. n = Passing(s)
  BY DEF Passing
<1>2. /\ Len(order[s]) \in Nat /\ DOMAIN order[s] = 1 .. Len(order[s]) /\ n \in Int
      /\ \A k \in DOMAIN order[s] : order[s][k] \in Process
  <2>1. order[s] \in Seq(Process) /\ blocked_processes[s] \in Seq(Process)
    BY <1>0 DEF TypeOK
  <2> QED BY <2>1
<1>3. /\ Passing(s) >= 0
      /\ blocked_processes[s] = SubSeq(order[s], Passing(s) + 1, Len(order[s]))
      /\ Blocks(s, Len(blocked_processes[s]), sem_count[s])
  BY <1>0 DEF Order
<1> HIDE DEF n
<1>4. n >= 0 /\ blocked_processes[s] = SubSeq(order[s], n + 1, Len(order[s]))
  BY <1>1, <1>3
<1>5. \A p, i : i \in DOMAIN evtlist => (Turn(p, i) => HasEvent("semaphore", p))
  BY DEF Turn, HasEvent
<1>6. ASSUME NEW k \in 1 .. Len(order[s])
      PROVE  /\ process[order[s][k]].state = "waiting"
             /\ k <= n <=> \E i \in DOMAIN evtlist : Turn(order[s][k], i)
  <2> DEFINE p == order[s][k]
  <2>1. p \in Process /\ k \in DOMAIN order[s]
    BY <1>2
  <2>2. process[p].state = "waiting"
    BY <1>0, <2>1 DEF Places
  <2>3. (\E i \in DOMAIN evtlist : Turn(p, i)) <=> IsReleased(p)
    <3>1. HasEvent("semaphore", p) <=> IsReleased(p)
      BY <1>0, <2>1 DEF Events
    <3> QED BY <3>1 DEF HasEvent, Turn
  <2>4. ASSUME k <= n PROVE IsReleased(p)
    <3>1. k \in 1 .. Passing(s)
      BY <1>1, <1>2, <2>4
    <3> QED BY <3>1 DEF IsReleased
  <2>5. ASSUME IsReleased(p) PROVE k <= n
    <3>1. PICK r \in Semaphore : \E l \in 1 .. Passing(r) : order[r][l] = p
      BY <2>5 DEF IsReleased
    <3>2. PICK l \in 1 .. Passing(r) : order[r][l] = p
      BY <3>1
    <3>3. l \in DOMAIN order[r]
      <4>1. order[r] \in Seq(Process) /\ blocked_processes[r] \in Seq(Process)
        BY <1>0 DEF TypeOK
      <4>2. Len(order[r]) \in Nat /\ Len(blocked_processes[r]) \in Nat
            /\ DOMAIN order[r] = 1 .. Len(order[r])
        BY <4>1
      <4>3. Passing(r) = Len(order[r]) - Len(blocked_processes[r])
        BY DEF Passing
      <4> HIDE DEF p
      <4> QED BY <3>2, <4>2, <4>3
    <3>4. r = s /\ l = k
      BY <1>0, <2>1, <3>2, <3>3 DEF Places
    <3>5. k \in 1 .. Passing(s)
      BY <3>2, <3>4
    <3> QED BY <1>1, <1>2, <3>5
  <2> QED BY <2>2, <2>3, <2>4, <2>5
<1>7. ASSUME NEW i \in DOMAIN evtlist, NEW j \in DOMAIN evtlist, NEW k \in 1 .. n, NEW l \in 1 .. n,
             k < l, Turn(order[s][k], i), Turn(order[s][l], j)
      PROVE  Before(i, j)
  <2>1. i < j
    BY <1>0, <1>1, <1>7 DEF InLine
  <2>2. evtlist[i].time = simclock /\ evtlist[j].time = simclock
    BY <1>0, <1>7 DEF Turn, Times
  <2> QED BY <2>1, <2>2 DEF Before
<1> QED BY <1>3, <1>4, <1>6, <1>7 DEF n

\* The processes that a semaphore has blocked pass it in the order in which they
\* came, whatever their number and that of the semaphores.
THEOREM FirstComeFirstServedHolds == Spec => []FirstComeFirstServed
BY InvHolds, FirstComeFirstServedIs, PTL

\* No clock passes the end of a wait statement, or of a timer, that has an event.
LEMMA ClockStays ==
  ASSUME Inv, NEW now, \A j \in DOMAIN evtlist : now <= evtlist[j].time
  PROVE  /\ \A p \in Process :
              process[p].state = "waiting" /\ asked[p].until # Forever => now <= asked[p].until
         /\ \A t \in Timer : timer_event[t] => now <= fire_time[t]
<1>0. Events /\ Times /\ Asked
  BY DEF Inv, IInv
<1>1. ASSUME NEW p \in Process, process[p].state = "waiting", asked[p].until # Forever
      PROVE  now <= asked[p].until
  <2>1. HasEvent("hold", p)
    BY <1>0, <1>1 DEF Asked, Events
  <2>2. PICK j \in DOMAIN evtlist : evtlist[j].kind = "hold" /\ evtlist[j].who = p
    BY <2>1 DEF HasEvent
  <2> QED BY <1>0, <2>2 DEF Times
<1>2. ASSUME NEW t \in Timer, timer_event[t]
      PROVE  now <= fire_time[t]
  <2>1. HasEvent("timer", t)
    BY <1>0, <1>2 DEF Events
  <2>2. PICK j \in DOMAIN evtlist : evtlist[j].kind = "timer" /\ evtlist[j].who = t
    BY <2>1 DEF HasEvent
  <2> QED BY <1>0, <2>2 DEF Times
<1> QED BY <1>1, <1>2

LEMMA EventTimes ==
  ASSUME TypeOK
  PROVE  \A j \in DOMAIN evtlist : evtlist[j].time \in Int
<1>1. evtlist \in Seq(KernelEvent)
  BY Types
<1>2. \A j \in DOMAIN evtlist : evtlist[j] \in KernelEvent
  BY <1>1
<1> QED BY <1>2 DEF KernelEvent

LEMMA NotWoken ==
  ASSUME Inv, Inv', NEW p \in Process, process[p].state = "waiting", arrivals' = arrivals,
         ~Holds(active_processes', p), \A j \in DOMAIN evtlist : simclock' <= evtlist[j].time
  PROVE  AsAsked(p)
<1>1. process'[p].state # "running"
  BY DEF Inv, IInv, Ready
<1>2. process'[p].active_inchannel = None /\ ~process'[p].process_timedout
  BY <1>1 DEF Inv, IInv, States, StateOK
<1>3. ~ArrivesFor(p)
  BY DEF ArrivesFor
<1>4. asked[p].until # Forever => simclock' <= asked[p].until
  BY ClockStays
<1> QED BY <1>1, <1>2, <1>3, <1>4 DEF AsAsked

\* Who is still asleep when it is the turn of somebody else.
LEMMA Asleep ==
  ASSUME Inv, NEW p \in Process, process[p].state = "waiting"
  PROVE  ~Holds(active_processes, p)
BY DEF Inv, IInv, Ready

LEMMA UndisturbedAsAsked ==
  ASSUME Inv, Inv', Undisturbed, NEW p \in Process, process[p].state = "waiting"
  PROVE  AsAsked(p)
<1>1. ~Holds(active_processes, p)
  BY Asleep
<1>2. active_processes \in Seq(Process) /\ IsInjective(active_processes)
  BY DEF Inv, IInv, TypeOK, Ready
<1>3. ~Holds(active_processes', p)
  BY <1>1, <1>2, ListTail DEF Undisturbed
<1>4. \A j \in DOMAIN evtlist : simclock' <= evtlist[j].time
  BY DEF Inv, IInv, Times, Undisturbed
<1> QED BY <1>3, <1>4, NotWoken DEF Undisturbed

LEMMA TakeAsAsked ==
  ASSUME Inv, Inv', NEW i \in DOMAIN evtlist, TakeEvent(i),
         NEW p \in Process, process[p].state = "waiting"
  PROVE  AsAsked(p)
<1> DEFINE q == evtlist[i].who
<1>0. /\ TypeOK /\ States /\ Places /\ Events /\ Times /\ Asked
      /\ process[p] \in ProcessType /\ StateOK(process[p])
  BY Types DEF Inv, IInv, States
<1>1. /\ active_processes = <<>> /\ IsFirst(i) /\ simclock' = evtlist[i].time
      /\ evtlist[i].kind \in {"process", "hold", "semaphore"} /\ arrivals' = arrivals
  BY DEF TakeEvent, Idle
<1>2. \A j \in DOMAIN evtlist : simclock' <= evtlist[j].time
  <2>1. \A j \in DOMAIN evtlist : evtlist[j].time \in Int
    BY <1>0, EventTimes
  <2> QED BY <1>1, <2>1 DEF IsFirst, Before
<1>3. active_processes' = <<q>>
  <2>1. active_processes' = Append(active_processes, q)
    BY StartsFrame, TimeoutFrame DEF Inv
  <2> QED BY <1>1, <2>1
<1>4. CASE p # q
  <2>1. ~Holds(active_processes', p)
    BY <1>3, <1>4 DEF Holds
  <2> QED BY <1>1, <1>2, <2>1, NotWoken
<1>5. CASE p = q
  <2>1. ~ArrivesFor(p)
    BY <1>1 DEF ArrivesFor
  <2>2. process[p].active_inchannel = None /\ ~process[p].process_timedout
    BY <1>0 DEF StateOK
  <2>3. asked[p].until # Forever => simclock' <= asked[p].until
    BY <1>2, ClockStays
  <2>4. evtlist[i].kind # "process"
    <3>1. ASSUME evtlist[i].kind = "process" PROVE FALSE
      <4>1. HasEvent("process", p)
        BY <1>5, <3>1 DEF HasEvent
      <4> QED BY <1>0, <4>1 DEF Events
    <3> QED BY <3>1
  <2>5. CASE evtlist[i].kind = "hold"
    <3>1. PICK r : /\ Turns(p, r) /\ SameContext(p, r)
                   /\ r.state = "running" /\ r.process_timedout
      BY <1>5, <2>5, TimeoutFrame DEF Inv
    <3>2. process'[p] = r
      BY <1>0, <3>1, TurnsIs
    <3>3. simclock' = asked[p].until
      BY <1>0, <1>1, <1>5, <2>5 DEF Times
    <3> QED BY <2>1, <2>2, <2>3, <3>1, <3>2, <3>3 DEF AsAsked, SameContext
  <2>6. CASE evtlist[i].kind = "semaphore"
    <3>1. PICK r : Turns(p, r) /\ r = [process[p] EXCEPT !.state = "running"]
      BY <1>5, <2>6, StartsFrame DEF Inv
    <3>2. process'[p] = r
      BY <1>0, <3>1, TurnsIs
    <3>3. /\ r.state = "running" /\ r.active_inchannel = process[p].active_inchannel
          /\ r.process_timedout = process[p].process_timedout
      BY <1>0, <3>1 DEF ProcessType
    <3>4. PICK s \in Semaphore : /\ order[s] # <<>> /\ Len(order'[s]) = Len(order[s]) - 1
                                 /\ order[s] \in Seq(Process)
      BY <1>0, <2>6, PassFrame DEF Inv, TypeOK
    <3>5. order'[s] # order[s]
      BY <3>4
    <3> QED BY <2>1, <2>2, <2>3, <3>2, <3>3, <3>5 DEF AsAsked
  <2> QED BY <1>1, <2>4, <2>5, <2>6
<1> QED BY <1>4, <1>5

LEMMA ArriveAsAsked ==
  ASSUME Inv, Inv', NEW a \in arrivals, Arrive(a), NEW p \in Process, process[p].state = "waiting"
  PROVE  AsAsked(p)
<1>1. /\ active_processes = <<>> /\ arrivals' = arrivals \ {a} /\ simclock' = a.time
      /\ \A j \in DOMAIN evtlist : simclock' <= evtlist[j].time
  BY DEF Arrive, Idle
<1>2. a.ic \in inChannel
  BY ArriveFrame DEF Inv
<1>3. PICK who : Wakes(a.ic, who)
  BY ArriveFrame DEF Inv
<1>4. /\ Holds(who, p) <=> IsWaiting(a.ic, p)
      /\ process'[p] = IF Holds(who, p) THEN Woken(p, a.ic) ELSE process[p]
  BY <1>3 DEF Wakes, Queue
<1>5. ArrivesFor(p) <=> a.ic \in Awaited(p)
  BY <1>1 DEF ArrivesFor
<1>6. a.ic \in Awaited(p) <=> IsWaiting(a.ic, p)
  <2>1. /\ asked[p].ics = process[p].waiton /\ asked[p].static = process[p].static_sensitivity
        /\ StateOK(process[p]) /\ process[p] \in ProcessType
    BY Types DEF Inv, IInv, Asked, States
  <2> QED BY <2>1 DEF Awaited, IsWaiting, Declared, StateOK
<1>7. asked[p].until # Forever => simclock' <= asked[p].until
  BY <1>1, ClockStays
<1>8. CASE IsWaiting(a.ic, p)
  <2>1. /\ process'[p].state = "running" /\ process'[p].active_inchannel = a.ic
        /\ ~process'[p].process_timedout
    BY <1>1, <1>2, <1>4, <1>8, WokenIs DEF Inv
  <2>2. a.ic # None
    BY <1>2, ProcessAssumption
  <2> QED BY <1>5, <1>6, <1>7, <1>8, <2>1, <2>2 DEF AsAsked
<1>9. CASE ~IsWaiting(a.ic, p)
  <2>1. process'[p] = process[p]
    BY <1>4, <1>9
  <2>2. process[p].active_inchannel = None /\ ~process[p].process_timedout
    BY DEF Inv, IInv, States, StateOK
  <2> QED BY <1>5, <1>6, <1>7, <1>9, <2>1, <2>2 DEF AsAsked
<1> QED BY <1>8, <1>9

LEMMA FiresAsAsked ==
  ASSUME Inv, Inv', NEW i \in DOMAIN evtlist, TimerFires(i), NEW p \in Process,
         process[p].state = "waiting"
  PROVE  AsAsked(p)
<1>1. /\ IsFirst(i) /\ simclock' = evtlist[i].time /\ arrivals' = arrivals /\ Becomes(Popped(i))
  BY DEF TimerFires
<1>2. \A j \in DOMAIN evtlist : simclock' <= evtlist[j].time
  <2>1. \A j \in DOMAIN evtlist : evtlist[j].time \in Int
    BY EventTimes DEF Inv, IInv
  <2> QED BY <1>1, <2>1 DEF IsFirst, Before
<1>3. active_processes' = active_processes
  <2>1. Popped(i).active_processes = active_processes
    BY PoppedIs DEF Inv, IInv
  <2> QED BY <1>1, <2>1, BecomesIs
<1>4. ~Holds(active_processes', p)
  BY <1>3, Asleep
<1> QED BY <1>1, <1>2, <1>4, NotWoken

\* What a step does to the clock.
LEMMA ClockStep ==
  ASSUME Inv, [Next]_vars
  PROVE  \A j \in DOMAIN evtlist : simclock' <= evtlist[j].time
<1>1. \A j \in DOMAIN evtlist : simclock <= evtlist[j].time /\ evtlist[j].time \in Int
  BY EventTimes DEF Inv, IInv, Times
<1>2. CASE simclock' = simclock
  BY <1>1, <1>2
<1>3. CASE \E i \in DOMAIN evtlist : IsFirst(i) /\ simclock' = evtlist[i].time
  BY <1>1, <1>3 DEF IsFirst, Before
<1>4. CASE \E a \in arrivals : Arrive(a)
  BY <1>4 DEF Arrive
<1>5. CASE UNCHANGED vars
  BY <1>2, <1>5 DEF vars
<1>6. CASE User
  BY <1>2, <1>6, UserStep DEF Undisturbed
<1>7. CASE Kernel
  <2>1. CASE \E i \in DOMAIN evtlist : TakeEvent(i) \/ TimerFires(i)
    BY <1>3, <2>1 DEF TakeEvent, TimerFires
  <2>2. CASE Execute \/ CallbackReturns
    BY <1>2, <2>2, GoesOnStep DEF Undisturbed
  <2> QED BY <1>4, <1>7, <2>1, <2>2 DEF Kernel
<1> QED BY <1>5, <1>6, <1>7 DEF Next

LEMMA StepAsAsked ==
  ASSUME Inv, Next
  PROVE  /\ \A p \in Process :
              process[p].state = "waiting" /\ process'[p].state # "none" => AsAsked(p)
         /\ \A t \in Timer : timer_event[t] => simclock' <= fire_time[t]
<1>1. Inv'
  BY NextInv
<1>2. \A t \in Timer : timer_event[t] => simclock' <= fire_time[t]
  BY ClockStep, ClockStays
<1>3. ASSUME NEW p \in Process, process[p].state = "waiting" PROVE AsAsked(p)
  <2>1. CASE User \/ Execute \/ CallbackReturns
    BY <1>1, <1>3, <2>1, UserStep, GoesOnStep, UndisturbedAsAsked
  <2>2. CASE \E i \in DOMAIN evtlist : TakeEvent(i) \/ TimerFires(i)
    BY <1>1, <1>3, <2>2, TakeAsAsked, FiresAsAsked
  <2>3. CASE \E a \in arrivals : Arrive(a)
    BY <1>1, <1>3, <2>3, ArriveAsAsked
  <2> QED BY <2>1, <2>2, <2>3 DEF Next, Kernel
<1> QED BY <1>2, <1>3

\* A process that waits goes on exactly when the first of what it asked for
\* happens, and no clock passes the end of a wait statement or of a timer.
THEOREM WokenAsAskedHolds == Spec => WokenAsAsked
<1>1. Inv /\ [Next]_vars =>
        [/\ \A p \in Process :
              process[p].state = "waiting" /\ process'[p].state # "none" => AsAsked(p)
         /\ \A t \in Timer : timer_event[t] => simclock' <= fire_time[t]]_vars
  BY StepAsAsked
<1> QED BY <1>1, InvHolds, PTL DEF Spec, WokenAsAsked
====
