--------------------------- MODULE SimEngineProofs ---------------------------
(***************************************************************************)
(* For any set of processes, any delays and any initial events: an event   *)
(* is late only if it straggled, nothing else is left behind, and every    *)
(* window advances.  The invariant follows an event from its sender, which *)
(* counts it in the reduction of the window it was sent in, to its         *)
(* receiver, which opens the next window with the outcome.                 *)
(***************************************************************************)
EXTENDS SimEngine, TLAPS

Busy(p) == pc[p] \in {"work", "execute"}
Running(p) == pc[p] \in {"work", "execute", "reduce"}

\* The last reduction that p has left.
Left(p) == IF Running(p) THEN window[p] - 1 ELSE window[p]

\* t is the outcome of reduction r.
IsBase(r, t) == /\ \E q \in Procs : offered[q][r] = t
                /\ \A q \in Procs : t <= offered[q][r]

\* Nobody leaves a reduction that somebody has not entered.
Rounds ==
  /\ \A p \in Procs : Len(offered[p]) = IF Busy(p) THEN window[p] - 1 ELSE window[p]
  /\ \A p, q \in Procs : Len(offered[q]) >= Left(p)

Bases ==
  \A p \in Procs :
    /\ IF Running(p) THEN base_time[p] <= g_time_end ELSE base_time[p] > g_time_end
    /\ IF Left(p) = 0 THEN base_time[p] = 0 ELSE IsBase(Left(p), base_time[p])

Horizon(p) == MinOf(base_time[p] + MINDELAY, g_time_end + 1)

Clocks ==
  \A p \in Procs : Busy(p) =>
    /\ base_time[p] <= g_time_now[p] /\ g_time_now[p] < base_time[p] + MINDELAY
    /\ g_time_now[p] <= g_time_end
    /\ g_time_next_sent[p] >= Horizon(p)

Offers ==
  \A p, q \in Procs : Running(p) /\ Len(offered[q]) >= window[p] =>
    offered[q][window[p]] >= Horizon(p)

\* What others have sent to p, and what did not straggle.
Remote(p) == {e \in (g_eq[p] \cup OnTheWay(p)) \ straggled : e.from # p}

\* A message is counted in the reduction of its window, and arrives after it.
Counted ==
  \A p \in Procs : \A e \in Remote(p) :
    /\ e.window \in 1 .. window[e.from]
    /\ IF Len(offered[e.from]) >= e.window
       THEN offered[e.from][e.window] <= e.time
       ELSE g_time_next_sent[e.from] <= e.time
    /\ \A r \in Procs : Running(r) /\ window[r] = e.window => base_time[r] + MINDELAY <= e.time

OnTime ==
  \A p \in Procs : \A e \in OnTheWay(p) \ straggled :
    e.from # p /\ Running(p) /\ e.window >= window[p]

Queued ==
  \A p \in Procs : \A e \in g_eq[p] \ straggled :
    /\ Busy(p) => g_time_now[p] <= e.time
    /\ pc[p] = "reduce" => \/ e.time > g_time_end
                           \/ offered[p][window[p]] <= e.time
                           \/ e.from # p /\ e.window >= window[p]
    /\ ~Running(p) => e.time > g_time_end

IInv == /\ TypeOK /\ Rounds /\ Bases /\ Clocks /\ Offers
        /\ Counted /\ OnTime /\ Queued /\ LateOnlyIfStraggled

-----------------------------------------------------------------------------
(* What is on its way.                                                     *)

LEMMA CarriedAppend ==
  ASSUME NEW S, NEW m \in Seq(SUBSET S), NEW x \in SUBSET S
  PROVE  Carried(Append(m, x)) = Carried(m) \cup x
<1> DEFINE a == Append(m, x)
<1>1. \A i \in DOMAIN m : a[i] = m[i] /\ i \in DOMAIN a
  OBVIOUS
<1>2. a[Len(m) + 1] = x /\ Len(m) + 1 \in DOMAIN a
  OBVIOUS
<1>3. ASSUME NEW e
      PROVE  e \in Carried(a) <=> e \in Carried(m) \cup x
  <2>1. e \in Carried(a) <=> \E i \in DOMAIN a : e \in a[i]
    BY DEF Carried
  <2>2. e \in Carried(m) <=> \E i \in DOMAIN m : e \in m[i]
    BY DEF Carried
  <2>3. \A i \in DOMAIN a : i \in DOMAIN m \/ i = Len(m) + 1
    OBVIOUS
  <2> HIDE DEF a
  <2> QED BY <1>1, <1>2, <2>1, <2>2, <2>3
<1> QED BY <1>3

LEMMA CarriedTail ==
  ASSUME NEW S, NEW m \in Seq(SUBSET S), m # <<>>
  PROVE  /\ Carried(Tail(m)) \subseteq Carried(m)
         /\ Head(m) \subseteq Carried(m)
<1> DEFINE t == Tail(m)
<1>1. /\ DOMAIN t = 1 .. Len(m) - 1 /\ DOMAIN m = 1 .. Len(m) /\ Len(m) \in Nat \ {0}
      /\ \A i \in DOMAIN t : t[i] = m[i + 1] /\ i + 1 \in DOMAIN m
      /\ Head(m) = m[1] /\ 1 \in DOMAIN m
  OBVIOUS
<1>2. /\ \A e : e \in Carried(t) <=> \E i \in DOMAIN t : e \in t[i]
      /\ \A e : e \in Carried(m) <=> \E i \in DOMAIN m : e \in m[i]
  BY DEF Carried
<1> HIDE DEF t
<1>3. Carried(t) \subseteq Carried(m) /\ Head(m) \subseteq Carried(m)
  BY <1>1, <1>2
<1> QED BY <1>3 DEF t

LEMMA OnTheWayMember ==
  ASSUME NEW p \in Procs
  PROVE  \A e : e \in OnTheWay(p) <=>
                  e \in received[p] \/ \E q \in Procs : e \in Carried(transit[q][p])
BY DEF OnTheWay

LEMMA OnTheWayMemberPrime ==
  ASSUME NEW p \in Procs
  PROVE  \A e : e \in OnTheWay(p)' <=>
                  e \in received'[p] \/ \E q \in Procs : e \in Carried(transit'[q][p])
BY DEF OnTheWay, Carried

LEMMA OnTheWayEvents ==
  ASSUME transit \in [Procs -> [Procs -> Seq(SUBSET EventInfo)]],
         received \in [Procs -> SUBSET EventInfo], NEW p \in Procs
  PROVE  OnTheWay(p) \subseteq EventInfo
<1>1. \A q \in Procs : Carried(transit[q][p]) \subseteq EventInfo
  <2> TAKE q \in Procs
  <2>1. transit[q][p] \in Seq(SUBSET EventInfo)
    OBVIOUS
  <2>2. \A i \in DOMAIN transit[q][p] : transit[q][p][i] \in SUBSET EventInfo
    BY <2>1
  <2> QED BY <2>2 DEF Carried
<1>2. received[p] \subseteq EventInfo
  OBVIOUS
<1> QED BY <1>1, <1>2, OnTheWayMember

LEMMA OnTheWayType ==
  ASSUME TypeOK, NEW p \in Procs
  PROVE  OnTheWay(p) \subseteq EventInfo
BY OnTheWayEvents DEF TypeOK

LEMMA RemoteType ==
  ASSUME TypeOK, NEW p \in Procs
  PROVE  Remote(p) \subseteq EventInfo
<1>1. OnTheWay(p) \subseteq EventInfo
  BY OnTheWayType
<1>2. g_eq[p] \subseteq EventInfo
  BY DEF TypeOK
<1> QED BY <1>1, <1>2 DEF Remote

LEMMA OnTheWaySame ==
  ASSUME UNCHANGED <<transit, received>>, NEW p \in Procs
  PROVE  OnTheWay(p)' = OnTheWay(p)
BY DEF OnTheWay, Carried

\* Sending to d: only what is on its way to d changes.
LEMMA OnTheWaySend ==
  ASSUME TypeOK, NEW p \in Procs, NEW d \in Procs, NEW x \in SUBSET EventInfo,
         transit' = [transit EXCEPT ![p][d] = Append(@, x)], received' = received,
         NEW r \in Procs
  PROVE  OnTheWay(r)' = IF r = d THEN OnTheWay(r) \cup x ELSE OnTheWay(r)
<1>1. transit[p][d] \in Seq(SUBSET EventInfo)
  BY DEF TypeOK
<1>2. \A q, s \in Procs : transit'[q][s] = IF q = p /\ s = d THEN Append(transit[p][d], x)
                                                        ELSE transit[q][s]
  BY DEF TypeOK
<1>3. Carried(Append(transit[p][d], x)) = Carried(transit[p][d]) \cup x
  BY <1>1, CarriedAppend
<1>4. ASSUME NEW q \in Procs, NEW s \in Procs
      PROVE  Carried(transit'[q][s]) =
               IF q = p /\ s = d THEN Carried(transit[p][d]) \cup x ELSE Carried(transit[q][s])
  <2>1. CASE q = p /\ s = d
    BY <1>2, <1>3, <2>1
  <2>2. CASE ~(q = p /\ s = d)
    <3>1. transit'[q][s] = transit[q][s]
      BY <1>2, <2>2
    <3> QED BY <3>1, <2>2
  <2> QED BY <2>1, <2>2
<1>5. ASSUME NEW e
      PROVE  e \in OnTheWay(r)' <=> e \in OnTheWay(r) \/ (r = d /\ e \in x)
  BY <1>4, OnTheWayMember, OnTheWayMemberPrime
<1> QED BY <1>5

LEMMA OnTheWayReceive ==
  ASSUME TypeOK, NEW p \in Procs, NEW q \in Procs, Receive(p, q), NEW r \in Procs
  PROVE  OnTheWay(r)' \subseteq OnTheWay(r)
<1>1. transit[q][p] \in Seq(SUBSET EventInfo) /\ transit[q][p] # <<>>
  BY DEF TypeOK, Receive
<1>2. /\ Carried(Tail(transit[q][p])) \subseteq Carried(transit[q][p])
      /\ Head(transit[q][p]) \subseteq Carried(transit[q][p])
  BY <1>1, CarriedTail
<1>3. \A a, s \in Procs : transit'[a][s] = IF a = q /\ s = p THEN Tail(transit[q][p])
                                                        ELSE transit[a][s]
  BY DEF TypeOK, Receive
<1>4. \A s \in Procs : received'[s] = IF s = p THEN Head(transit[q][p]) ELSE received[s]
  BY DEF TypeOK, Receive
<1>5. \A a, s \in Procs : Carried(transit'[a][s]) \subseteq Carried(transit[a][s])
  BY <1>2, <1>3
<1> QED BY <1>2, <1>4, <1>5, OnTheWayMember, OnTheWayMemberPrime

-----------------------------------------------------------------------------
(* Type correctness.                                                       *)

LEMMA MinMaxType ==
  ASSUME NEW a \in Nat, NEW b \in Nat
  PROVE  /\ MinOf(a, b) \in Nat /\ MinOf(a, b) <= a /\ MinOf(a, b) <= b
         /\ MinOf(a, b) \in {a, b}
         /\ MaxOf(a, b) \in Nat /\ MaxOf(a, b) >= a /\ MaxOf(a, b) >= b
         /\ MaxOf(a, b) \in {a, b}
BY DEF MinOf, MaxOf

LEMMA EventTimeType ==
  ASSUME TypeOK, NEW p \in Procs, NEW d \in Procs, NEW delay \in Delays
  PROVE  /\ EventTime(p, d, delay) \in Nat /\ EventTime(p, d, delay) >= g_time_now[p]
         /\ d # p => EventTime(p, d, delay) >= g_time_now[p] + MINDELAY
         /\ NewEvent(p, d, delay) \in EventInfo
<1>1. g_time_now[p] \in Nat /\ delay \in Nat /\ sent[p] + 1 \in Nat /\ window[p] \in Nat
  BY BoundAssumption DEF TypeOK
<1>2. /\ MaxOf(delay, LOCAL_MINDELAY) \in Nat
      /\ MaxOf(delay, MINDELAY) \in Nat /\ MaxOf(delay, MINDELAY) >= MINDELAY
  BY <1>1, EngineAssumption, MinMaxType
<1>3. /\ EventTime(p, d, delay) \in Nat /\ EventTime(p, d, delay) >= g_time_now[p]
      /\ d # p => EventTime(p, d, delay) >= g_time_now[p] + MINDELAY
  BY <1>1, <1>2, EngineAssumption DEF EventTime
<1> QED BY <1>1, <1>3 DEF NewEvent, EventInfo

LEMMA EarliestType ==
  ASSUME TypeOK, NEW p \in Procs, NEW e \in Earliest(p)
  PROVE  /\ e \in EventInfo /\ e \in g_eq[p] /\ e.time \in Nat /\ e.window \in Nat
         /\ e.from \in Procs
         /\ \A f \in g_eq[p] : e.time <= f.time /\ f.time \in Nat
<1>1. g_eq[p] \subseteq EventInfo /\ \A f \in EventInfo : f.time \in Nat
  BY DEF TypeOK, EventInfo
<1> QED BY <1>1 DEF Earliest, EventInfo

LEMMA OfferType ==
  ASSUME TypeOK, NEW p \in Procs, NEW t \in Nat, Offer(p, t)
  PROVE  /\ pc' \in [Procs -> {"work", "execute", "reduce", "quit", "finished"}]
         /\ offered' \in [Procs -> Seq(Nat)]
<1>1. MinOf(t, g_time_next_sent[p]) \in Nat
  BY MinMaxType DEF TypeOK
<1>2. Append(offered[p], MinOf(t, g_time_next_sent[p])) \in Seq(Nat)
  BY <1>1 DEF TypeOK
<1> QED BY <1>2 DEF TypeOK, Offer

LEMMA MainType ==
  ASSUME TypeOK, NEW p \in Procs, Pop(p) \/ PopBeyondEnd(p) \/ EndWindow(p)
  PROVE  TypeOK'
<1>1. CASE Pop(p)
  <2>1. PICK e \in Earliest(p) :
          /\ g_eq' = [g_eq EXCEPT ![p] = @ \ {e}]
          /\ g_time_now' = [g_time_now EXCEPT ![p] = MaxOf(@, e.time)]
          /\ late' = IF e.time < g_time_now[p] THEN late \cup {e} ELSE late
    BY <1>1 DEF Pop
  <2>2. e \in EventInfo /\ MaxOf(g_time_now[p], e.time) \in Nat
    BY EarliestType, MinMaxType DEF TypeOK
  <2> QED BY <1>1, <2>1, <2>2 DEF TypeOK, Pop
<1>2. CASE PopBeyondEnd(p)
  <2>1. PICK e \in Earliest(p) :
          /\ g_eq' = [g_eq EXCEPT ![p] = @ \ {e}]
          /\ g_time_now' = [g_time_now EXCEPT ![p] = MaxOf(@, e.time)]
    BY <1>2 DEF PopBeyondEnd
  <2>2. e \in EventInfo /\ MaxOf(g_time_now[p], e.time) \in Nat
    BY EarliestType, MinMaxType DEF TypeOK
  <2>3. Offer(p, g_time_end + 1) /\ g_time_end + 1 \in Nat
    BY <1>2, EngineAssumption DEF PopBeyondEnd
  <2>4. /\ pc' \in [Procs -> {"work", "execute", "reduce", "quit", "finished"}]
        /\ offered' \in [Procs -> Seq(Nat)]
    BY <2>3, OfferType
  <2> QED BY <1>2, <2>1, <2>2, <2>4 DEF TypeOK, PopBeyondEnd
<1>3. CASE EndWindow(p)
  <2>1. PICK t \in Nat : Offer(p, t)
    BY <1>3, EarliestType, EngineAssumption DEF EndWindow
  <2>2. /\ pc' \in [Procs -> {"work", "execute", "reduce", "quit", "finished"}]
        /\ offered' \in [Procs -> Seq(Nat)]
    BY <2>1, OfferType
  <2> QED BY <1>3, <2>2 DEF TypeOK, EndWindow
<1> QED BY <1>1, <1>2, <1>3

LEMMA SendType ==
  ASSUME TypeOK, NEW p \in Procs, NEW delay \in Delays,
         SendLocal(p, delay) \/ \E d \in Procs : SendRemote(p, d, delay)
  PROVE  TypeOK'
<1>1. CASE SendLocal(p, delay)
  <2>1. NewEvent(p, p, delay) \in EventInfo
    BY EventTimeType
  <2>2. g_eq' \in [Procs -> SUBSET EventInfo] /\ sent' \in [Procs -> Nat]
    BY <1>1, <2>1 DEF TypeOK, SendLocal
  <2> QED BY <1>1, <2>2 DEF TypeOK, SendLocal, threads
<1>2. CASE \E d \in Procs : SendRemote(p, d, delay)
  <2>1. PICK d \in Procs : SendRemote(p, d, delay)
    BY <1>2
  <2> DEFINE e == NewEvent(p, d, delay)
  <2>2. e \in EventInfo /\ e.time \in Nat
    BY EventTimeType DEF EventInfo
  <2>3. /\ g_time_next_sent' = [g_time_next_sent EXCEPT ![p] = MinOf(@, e.time)]
        /\ transit' = [transit EXCEPT ![p][d] = Append(@, {e})]
        /\ waiting' \in {waiting, [waiting EXCEPT ![p] = {d}]}
        /\ sent' = [sent EXCEPT ![p] = @ + 1]
        /\ UNCHANGED <<pc, window, base_time, g_time_now, offered, g_eq, listening,
                       received, straggled, late>>
    BY <2>1 DEF SendRemote
  <2> HIDE DEF e
  <2>4. MinOf(g_time_next_sent[p], e.time) \in Nat
    BY <2>2, MinMaxType DEF TypeOK
  <2>5. transit[p][d] \in Seq(SUBSET EventInfo) /\ {e} \in SUBSET EventInfo
    BY <2>2 DEF TypeOK
  <2>6. Append(transit[p][d], {e}) \in Seq(SUBSET EventInfo)
    BY <2>5
  <2>7. transit' \in [Procs -> [Procs -> Seq(SUBSET EventInfo)]]
    BY <2>3, <2>6 DEF TypeOK
  <2>8. g_time_next_sent' \in [Procs -> Nat] /\ sent' \in [Procs -> Nat]
    <3>1. g_time_next_sent \in [Procs -> Nat] /\ sent \in [Procs -> Nat] /\ sent[p] + 1 \in Nat
      BY DEF TypeOK
    <3>2. sent' = [sent EXCEPT ![p] = @ + 1]
      BY <2>3
    <3>3. sent' \in [Procs -> Nat]
      BY <3>1, <3>2
    <3>4. g_time_next_sent' = [g_time_next_sent EXCEPT ![p] = MinOf(g_time_next_sent[p], e.time)]
      BY <2>3
    <3>5. g_time_next_sent' \in [Procs -> Nat]
      BY <3>1, <3>4, <2>4
    <3> QED BY <3>3, <3>5
  <2>9. waiting' \in [Procs -> SUBSET Procs]
    <3>1. waiting \in [Procs -> SUBSET Procs]
      BY DEF TypeOK
    <3>2. waiting' = waiting \/ waiting' = [waiting EXCEPT ![p] = {d}]
      BY <2>3
    <3> QED BY <3>1, <3>2
  <2> QED BY <2>3, <2>7, <2>8, <2>9 DEF TypeOK
<1> QED BY <1>1, <1>2

LEMMA ReduceType ==
  ASSUME TypeOK, NEW p \in Procs, NEW t \in Nat, NextWindow(p, t) \/ Quit(p, t)
  PROVE  TypeOK'
<1>1. straggled \cup Stragglers(p) \subseteq EventInfo
  BY OnTheWayType DEF TypeOK, Stragglers
<1>2. CASE NextWindow(p, t)
  <2>1. /\ window' \in [Procs -> Nat \ {0}]
        /\ pc' \in [Procs -> {"work", "execute", "reduce", "quit", "finished"}]
    BY <1>2 DEF TypeOK, NextWindow
  <2>2. /\ base_time' \in [Procs -> Nat] /\ g_time_now' \in [Procs -> Nat]
        /\ g_time_next_sent' \in [Procs -> Nat]
    BY <1>2, EngineAssumption DEF TypeOK, NextWindow
  <2>3. straggled' \subseteq EventInfo
    BY <1>1, <1>2 DEF NextWindow
  <2> QED BY <1>2, <2>1, <2>2, <2>3 DEF TypeOK, NextWindow
<1>3. CASE Quit(p, t)
  <2>1. transit[p][p] \in Seq(SUBSET EventInfo) /\ quit \in SUBSET EventInfo
    BY DEF TypeOK, quit
  <2>2. Append(transit[p][p], quit) \in Seq(SUBSET EventInfo)
    BY <2>1
  <2>3. transit' \in [Procs -> [Procs -> Seq(SUBSET EventInfo)]]
    BY <1>3, <2>2 DEF TypeOK, Quit
  <2>4. straggled' \subseteq EventInfo
    BY <1>1, <1>3 DEF Quit
  <2>5. /\ pc' \in [Procs -> {"work", "execute", "reduce", "quit", "finished"}]
        /\ base_time' \in [Procs -> Nat]
    BY <1>3 DEF TypeOK, Quit
  <2> QED BY <1>3, <2>3, <2>4, <2>5 DEF TypeOK, Quit
<1> QED BY <1>2, <1>3

LEMMA ListenType ==
  ASSUME TypeOK, NEW p \in Procs, Listen(p)
  PROVE  TypeOK'
<1>1. CASE Push(p)
  <2>1. g_eq' \in [Procs -> SUBSET EventInfo] /\ received' \in [Procs -> SUBSET EventInfo]
    BY <1>1 DEF TypeOK, Push
  <2> QED BY <1>1, <2>1 DEF TypeOK, Push, threads
<1>2. CASE \E q \in Procs : Receive(p, q)
  <2>1. PICK q \in Procs : Receive(p, q)
    BY <1>2
  <2>2. transit[q][p] \in Seq(SUBSET EventInfo) /\ transit[q][p] # <<>>
    BY <2>1 DEF TypeOK, Receive
  <2>3. /\ Head(transit[q][p]) \in SUBSET EventInfo
        /\ Tail(transit[q][p]) \in Seq(SUBSET EventInfo)
    BY <2>2
  <2>4. transit' \in [Procs -> [Procs -> Seq(SUBSET EventInfo)]]
    BY <2>1, <2>3 DEF TypeOK, Receive
  <2>5. received' \in [Procs -> SUBSET EventInfo] /\ listening' \in [Procs -> BOOLEAN]
    BY <2>1, <2>3 DEF TypeOK, Receive
  <2> QED BY <2>1, <2>4, <2>5 DEF TypeOK, Receive, threads
<1> QED BY <1>1, <1>2 DEF Listen

-----------------------------------------------------------------------------
(* The processes in the same window.                                       *)

LEMMA BaseUnique ==
  ASSUME TypeOK, NEW r \in Nat \ {0}, NEW t \in Nat, NEW u \in Nat,
         \A q \in Procs : Len(offered[q]) >= r,
         IsBase(r, t), IsBase(r, u)
  PROVE  t = u
<1>1. \A q \in Procs : offered[q][r] \in Nat
  <2> TAKE q \in Procs
  <2>1. offered[q] \in Seq(Nat) /\ r \in 1 .. Len(offered[q])
    BY DEF TypeOK
  <2> QED BY <2>1
<1> QED BY <1>1 DEF IsBase

LEMMA LeftType ==
  ASSUME TypeOK, Rounds, NEW p \in Procs
  PROVE  /\ Left(p) \in Nat /\ Len(offered[p]) \in Nat
         /\ window[p] \in Nat /\ base_time[p] \in Nat /\ g_time_now[p] \in Nat
         /\ Busy(p) => Running(p) /\ pc[p] # "reduce"
         /\ Running(p) => Busy(p) \/ pc[p] = "reduce"
         /\ pc[p] = "reduce" => Running(p) /\ ~Busy(p)
<1>1. offered[p] \in Seq(Nat) /\ window[p] \in Nat \ {0}
  BY DEF TypeOK
<1> QED BY <1>1 DEF TypeOK, Left, Busy, Running

LEMMA SameBase ==
  ASSUME TypeOK, Rounds, Bases, NEW p \in Procs, NEW q \in Procs, Left(p) = Left(q)
  PROVE  base_time[p] = base_time[q]
<1>1. CASE Left(p) = 0
  BY <1>1 DEF Bases
<1>2. CASE Left(p) # 0
  <2>1. Left(p) \in Nat \ {0} /\ base_time[p] \in Nat /\ base_time[q] \in Nat
    BY <1>2, LeftType
  <2>2. IsBase(Left(p), base_time[p]) /\ IsBase(Left(p), base_time[q])
    BY <1>2 DEF Bases
  <2>3. \A r \in Procs : Len(offered[r]) >= Left(p)
    BY DEF Rounds
  <2> QED BY <2>1, <2>2, <2>3, BaseUnique
<1> QED BY <1>1, <1>2

\* While somebody works, nobody has left the loop or is in a later window.
LEMMA AllRunning ==
  ASSUME TypeOK, Rounds, Bases, NEW p \in Procs, Busy(p), NEW q \in Procs
  PROVE  Running(q) /\ window[q] <= window[p]
<1>1. /\ Len(offered[p]) = window[p] - 1 /\ Len(offered[p]) >= Left(q)
      /\ Len(offered[q]) >= Left(p) /\ Left(p) = window[p] - 1 /\ Running(p)
  BY LeftType DEF Rounds, Left
<1>2. Running(q)
  <2> SUFFICES ASSUME ~Running(q) PROVE FALSE
    OBVIOUS
  <2>1. Left(q) = window[q] /\ Len(offered[q]) = window[q]
    BY LeftType DEF Rounds, Left
  <2>2. Left(q) = Left(p)
    BY <1>1, <2>1, LeftType
  <2>3. base_time[p] = base_time[q]
    BY <2>2, SameBase
  <2> QED BY <1>1, <2>3, LeftType, EngineAssumption DEF Bases
<1>3. Left(q) = window[q] - 1
  BY <1>2 DEF Left
<1> QED BY <1>1, <1>2, <1>3, LeftType

\* Whoever is ahead of p, which leaves the reduction with t, has left it with t.
LEMMA Ahead ==
  ASSUME TypeOK, Rounds, Bases, NEW p \in Procs, NEW t \in Nat,
         pc[p] = "reduce", Reduced(p), IsMinimum(p, t),
         NEW q \in Procs, window[q] > window[p]
  PROVE  Running(q) /\ window[q] = window[p] + 1 /\ base_time[q] = t
<1>1. Len(offered[p]) = window[p] /\ Len(offered[p]) >= Left(q)
  BY LeftType DEF Rounds
<1>2. Running(q) /\ Left(q) = window[q] - 1
  BY <1>1, LeftType DEF Left
<1>3. window[q] = window[p] + 1 /\ Left(q) = window[p]
  BY <1>1, <1>2, LeftType
<1>4. IsBase(window[p], base_time[q]) /\ IsBase(window[p], t)
  <2>1. window[p] # 0
    BY DEF TypeOK
  <2> QED BY <2>1, <1>3 DEF Bases, IsMinimum, IsBase
<1>5. window[p] \in Nat \ {0} /\ \A r \in Procs : Len(offered[r]) >= window[p]
  BY DEF TypeOK, Reduced
<1>6. base_time[q] = t
  BY <1>4, <1>5, BaseUnique, LeftType
<1> QED BY <1>2, <1>3, <1>6

-----------------------------------------------------------------------------
(* Steps that leave parts of the invariant alone.                          *)

LEMMA RoundsKept ==
  ASSUME Rounds, Bases, Offers, UNCHANGED <<window, base_time, offered>>,
         \A p \in Procs : (Busy(p)' <=> Busy(p)) /\ (Running(p)' <=> Running(p))
  PROVE  Rounds' /\ Bases' /\ Offers'
<1>1. \A p \in Procs : Left(p)' = Left(p)
  BY DEF Left
<1>2. Rounds'
  BY <1>1 DEF Rounds
<1>3. Bases'
  BY <1>1 DEF Bases, IsBase
<1>4. Offers'
  BY DEF Offers, Horizon
<1> QED BY <1>2, <1>3, <1>4

LEMMA ClocksKept ==
  ASSUME Clocks, UNCHANGED <<base_time, g_time_now, g_time_next_sent>>,
         \A p \in Procs : Busy(p)' => Busy(p)
  PROVE  Clocks'
BY DEF Clocks, Horizon

LEMMA MessagesKept ==
  ASSUME Counted, OnTime, UNCHANGED <<window, base_time, offered, g_time_next_sent>>,
         \A p \in Procs : /\ Running(p)' <=> Running(p)
                          /\ Remote(p)' \subseteq Remote(p)
                          /\ (OnTheWay(p) \ straggled)' \subseteq OnTheWay(p) \ straggled
  PROVE  Counted' /\ OnTime'
<1>1. Counted'
  BY DEF Counted
<1>2. OnTime'
  BY DEF OnTime
<1> QED BY <1>1, <1>2

LEMMA QueueKept ==
  ASSUME Queued, UNCHANGED <<window, offered, g_time_now, g_eq, straggled>>,
         \A p \in Procs : /\ Busy(p)' <=> Busy(p)
                          /\ Running(p)' <=> Running(p)
                          /\ pc'[p] = "reduce" <=> pc[p] = "reduce"
  PROVE  Queued'
BY DEF Queued

-----------------------------------------------------------------------------
(* Each action keeps the invariant.                                        *)

LEMMA PopInv ==
  ASSUME IInv, TypeOK', NEW p \in Procs, Pop(p)
  PROVE  IInv'
<1> USE DEF IInv
<1>1. PICK e \in Earliest(p) :
        /\ InWindow(p, e)
        /\ MaxOf(g_time_now[p], e.time) <= g_time_end
        /\ g_eq' = [g_eq EXCEPT ![p] = @ \ {e}]
        /\ g_time_now' = [g_time_now EXCEPT ![p] = MaxOf(@, e.time)]
        /\ late' = IF e.time < g_time_now[p] THEN late \cup {e} ELSE late
  BY DEF Pop
<1>2. /\ pc[p] = "work" /\ pc' = [pc EXCEPT ![p] = "execute"]
      /\ UNCHANGED <<window, base_time, g_time_next_sent, offered, waiting, listening,
                     received, transit, sent, straggled>>
  BY DEF Pop
<1>3. \A q \in Procs : /\ Busy(q)' <=> Busy(q)
                       /\ Running(q)' <=> Running(q)
                       /\ pc'[q] = "reduce" <=> pc[q] = "reduce"
  BY <1>2 DEF TypeOK, Busy, Running
<1>4. /\ e \in EventInfo /\ e \in g_eq[p] /\ e.time \in Nat
      /\ \A f \in g_eq[p] : e.time <= f.time /\ f.time \in Nat
      /\ g_time_now[p] \in Nat /\ Busy(p) /\ Running(p) /\ pc[p] # "reduce"
      /\ g_time_now'[p] = MaxOf(g_time_now[p], e.time)
      /\ \A q \in Procs : q # p => g_time_now'[q] = g_time_now[q]
      /\ \A q \in Procs : g_eq'[q] \subseteq g_eq[q]
  <2>1. /\ e \in EventInfo /\ e \in g_eq[p] /\ e.time \in Nat
        /\ \A f \in g_eq[p] : e.time <= f.time /\ f.time \in Nat
    BY EarliestType
  <2>2. g_time_now[p] \in Nat /\ Busy(p) /\ Running(p) /\ pc[p] # "reduce"
    BY <1>2 DEF TypeOK, Busy, Running
  <2>3. /\ g_time_now'[p] = MaxOf(g_time_now[p], e.time)
        /\ \A q \in Procs : q # p => g_time_now'[q] = g_time_now[q]
    BY <1>1 DEF TypeOK
  <2>4. \A q \in Procs : g_eq'[q] \subseteq g_eq[q]
    BY <1>1 DEF TypeOK
  <2> QED BY <2>1, <2>2, <2>3, <2>4
<1>5. \A q \in Procs : OnTheWay(q)' = OnTheWay(q)
  BY <1>2, OnTheWaySame
<1>6. Rounds' /\ Bases' /\ Offers'
  BY <1>2, <1>3, RoundsKept
<1>7. Clocks'
  <2> SUFFICES ASSUME NEW q \in Procs, Busy(q)'
               PROVE  /\ base_time[q] <= g_time_now'[q]
                      /\ g_time_now'[q] < base_time[q] + MINDELAY
                      /\ g_time_now'[q] <= g_time_end
                      /\ g_time_next_sent[q] >= Horizon(q)
    BY <1>2 DEF Clocks, Horizon
  <2>1. /\ base_time[q] <= g_time_now[q] /\ g_time_now[q] < base_time[q] + MINDELAY
        /\ g_time_now[q] <= g_time_end /\ g_time_next_sent[q] >= Horizon(q)
        /\ base_time[q] \in Nat /\ g_time_now[q] \in Nat
    BY <1>3 DEF Clocks, TypeOK
  <2>2. CASE q = p
    <3>1. /\ MaxOf(g_time_now[p], e.time) >= g_time_now[p]
          /\ MaxOf(g_time_now[p], e.time) \in {g_time_now[p], e.time}
          /\ e.time < base_time[p] + MINDELAY
      BY <1>1, <1>4, MinMaxType DEF InWindow
    <3>2. /\ g_time_now'[p] >= g_time_now[p] /\ g_time_now'[p] < base_time[p] + MINDELAY
          /\ g_time_now'[p] <= g_time_end /\ g_time_now'[p] \in Nat
      BY <3>1, <2>1, <2>2, <1>1, <1>4, EngineAssumption
    <3> QED BY <3>2, <2>1, <2>2
  <2> QED BY <2>1, <2>2, <1>4
<1>8. Counted' /\ OnTime'
  <2>1. \A q \in Procs : Remote(q)' \subseteq Remote(q)
    BY <1>2, <1>4, <1>5 DEF Remote
  <2> QED BY <2>1, <1>2, <1>3, <1>5, MessagesKept
<1>9. Queued'
  <2>1. \A f \in g_eq[p] \ straggled : g_time_now[p] <= f.time
    BY <1>4 DEF Queued
  <2>2. \A f \in g_eq'[p] \ straggled : g_time_now'[p] <= f.time
    BY <2>1, <1>4, MinMaxType
  <2> QED BY <2>2, <1>2, <1>3, <1>4 DEF Queued
<1>10. LateOnlyIfStraggled'
  <2>1. e.time < g_time_now[p] => e \in straggled
    BY <1>4 DEF Queued
  <2> QED BY <2>1, <1>1, <1>2 DEF LateOnlyIfStraggled
<1> QED BY <1>6, <1>7, <1>8, <1>9, <1>10

LEMMA OfferInv ==
  ASSUME IInv, TypeOK', NEW p \in Procs, NEW t \in Nat,
         pc[p] = "work", Offer(p, t), t >= Horizon(p),
         UNCHANGED <<window, base_time, g_time_next_sent, received, transit, straggled, late>>,
         \A q \in Procs : q # p => g_time_now'[q] = g_time_now[q] /\ g_eq'[q] = g_eq[q],
         g_eq'[p] \subseteq g_eq[p],
         \A e \in g_eq'[p] \ straggled : e.time > g_time_end \/ t <= e.time
  PROVE  IInv'
<1> USE DEF IInv
<1> DEFINE v == MinOf(t, g_time_next_sent[p])
<1>1. /\ pc'[p] = "reduce" /\ offered'[p] = Append(offered[p], v)
      /\ \A q \in Procs : q # p => pc'[q] = pc[q] /\ offered'[q] = offered[q]
  BY DEF Offer, TypeOK
<1>2. /\ Busy(p) /\ ~Busy(p)' /\ Running(p)' /\ pc[p] # "reduce"
      /\ \A q \in Procs : /\ Running(q)' <=> Running(q)
                          /\ Left(q)' = Left(q)
                          /\ q # p => /\ Busy(q)' <=> Busy(q)
                                      /\ pc'[q] = "reduce" <=> pc[q] = "reduce"
  BY <1>1 DEF Busy, Running, Left
<1>3. /\ v \in Nat /\ v <= t /\ v <= g_time_next_sent[p] /\ v \in {t, g_time_next_sent[p]}
      /\ g_time_next_sent[p] \in Nat /\ base_time[p] \in Nat
      /\ Horizon(p) \in Nat
  <2>1. g_time_next_sent[p] \in Nat /\ base_time[p] \in Nat
    BY DEF TypeOK
  <2>2. base_time[p] + MINDELAY \in Nat /\ g_time_end + 1 \in Nat
    BY <2>1, EngineAssumption
  <2> QED BY <2>1, <2>2, MinMaxType DEF Horizon
<1>4. v >= Horizon(p)
  <2>1. g_time_next_sent[p] >= Horizon(p)
    BY <1>2 DEF Clocks
  <2> QED BY <2>1, <1>3
<1>5. /\ offered[p] \in Seq(Nat) /\ Len(offered[p]) = window[p] - 1 /\ window[p] \in Nat \ {0}
  BY <1>2 DEF TypeOK, Rounds
<1>6. /\ Len(offered'[p]) = window[p] /\ offered'[p][window[p]] = v
      /\ \A i \in 1 .. window[p] - 1 : offered'[p][i] = offered[p][i]
  <2> HIDE DEF v
  <2> QED BY <1>1, <1>3, <1>5
<1>7. \A q \in Procs : /\ Len(offered[q]) \in Nat /\ Len(offered'[q]) >= Len(offered[q])
                       /\ \A i \in 1 .. Len(offered[q]) : offered'[q][i] = offered[q][i]
  <2> TAKE q \in Procs
  <2>1. CASE q = p
    BY <1>5, <1>6, <2>1
  <2>2. CASE q # p
    <3>1. offered[q] \in Seq(Nat) /\ offered'[q] = offered[q]
      BY <1>1, <2>2 DEF TypeOK
    <3>2. Len(offered[q]) \in Nat
      BY <3>1
    <3> QED BY <3>1, <3>2
  <2> QED BY <2>1, <2>2
<1> HIDE DEF v
<1>8. Rounds'
  <2>1. \A q \in Procs : Len(offered'[q]) = IF Busy(q)' THEN window[q] - 1 ELSE window[q]
    BY <1>1, <1>2, <1>6 DEF Rounds
  <2>2. \A r, q \in Procs : Len(offered'[q]) >= Left(r)
    <3> TAKE r, q \in Procs
    <3>1. Len(offered[q]) >= Left(r) /\ Left(r) \in Nat
      BY LeftType DEF Rounds
    <3>2. offered[q] \in Seq(Nat) /\ offered'[q] \in Seq(Nat)
      BY DEF TypeOK
    <3>3. Len(offered[q]) \in Nat /\ Len(offered'[q]) \in Nat
      BY <3>2
    <3> QED BY <3>1, <3>3, <1>7
  <2> QED BY <2>1, <2>2, <1>2 DEF Rounds
<1>9. Bases'
  <2> SUFFICES ASSUME NEW r \in Procs
               PROVE  /\ IF Running(r) THEN base_time[r] <= g_time_end
                                       ELSE base_time[r] > g_time_end
                      /\ IF Left(r) = 0 THEN base_time[r] = 0
                                        ELSE IsBase(Left(r), base_time[r])'
    BY <1>2 DEF Bases, IsBase
  <2>1. Left(r) # 0 => IsBase(Left(r), base_time[r])'
    <3> SUFFICES ASSUME Left(r) # 0 PROVE IsBase(Left(r), base_time[r])'
      OBVIOUS
    <3>1. \A q \in Procs : offered'[q][Left(r)] = offered[q][Left(r)]
      <4> TAKE q \in Procs
      <4>1. Len(offered[q]) >= Left(r) /\ Left(r) \in Nat \ {0}
        BY LeftType DEF Rounds
      <4> QED BY <4>1, <1>7
    <3>2. IsBase(Left(r), base_time[r])
      BY DEF Bases
    <3> QED BY <3>1, <3>2, <1>2 DEF IsBase
  <2> QED BY <2>1 DEF Bases
<1>10. Clocks'
  <2> SUFFICES ASSUME NEW q \in Procs, Busy(q)'
               PROVE  /\ base_time[q] <= g_time_now'[q]
                      /\ g_time_now'[q] < base_time[q] + MINDELAY
                      /\ g_time_now'[q] <= g_time_end
                      /\ g_time_next_sent[q] >= Horizon(q)
    BY DEF Clocks, Horizon
  <2>1. q # p /\ Busy(q)
    BY <1>2
  <2> QED BY <2>1 DEF Clocks
<1>11. Offers'
  <2> SUFFICES ASSUME NEW r \in Procs, NEW q \in Procs, Running(r), Len(offered'[q]) >= window[r]
               PROVE  offered'[q][window[r]] >= Horizon(r)
    BY <1>2 DEF Offers, Horizon
  <2>1. window[r] \in Nat \ {0}
    BY DEF TypeOK
  <2>2. CASE Len(offered[q]) >= window[r]
    BY <2>1, <2>2, <1>7 DEF Offers
  <2>3. CASE Len(offered[q]) < window[r]
    <3>1. q = p
      BY <2>1, <2>3, <1>1, <1>7
    <3>2. window[r] = window[p]
      BY <3>1, <2>1, <2>3, <1>5, <1>6
    <3>3. Left(r) = Left(p)
      BY <3>2, <1>2, LeftType DEF Left
    <3>4. Horizon(r) = Horizon(p)
      BY <3>3, SameBase DEF Horizon
    <3> QED BY <3>1, <3>2, <3>4, <1>4, <1>6
  <2> QED BY <2>1, <2>2, <2>3, <1>7
<1>12. \A q \in Procs : OnTheWay(q)' = OnTheWay(q) /\ Remote(q)' \subseteq Remote(q)
  BY OnTheWaySame DEF Remote
<1>13. Counted'
  <2> SUFFICES ASSUME NEW q \in Procs, NEW e \in Remote(q)
               PROVE  /\ e.window \in 1 .. window[e.from]
                      /\ IF Len(offered'[e.from]) >= e.window
                         THEN offered'[e.from][e.window] <= e.time
                         ELSE g_time_next_sent[e.from] <= e.time
                      /\ \A r \in Procs : Running(r) /\ window[r] = e.window =>
                           base_time[r] + MINDELAY <= e.time
    BY <1>2, <1>12 DEF Counted
  <2>1. /\ e.window \in 1 .. window[e.from]
        /\ IF Len(offered[e.from]) >= e.window
           THEN offered[e.from][e.window] <= e.time
           ELSE g_time_next_sent[e.from] <= e.time
        /\ \A r \in Procs : Running(r) /\ window[r] = e.window =>
             base_time[r] + MINDELAY <= e.time
    BY DEF Counted
  <2>2. e.from \in Procs /\ e.window \in Nat /\ e.time \in Nat
    BY RemoteType DEF EventInfo
  <2>3. CASE Len(offered[e.from]) >= e.window
    BY <2>1, <2>2, <2>3, <1>7, LeftType
  <2>4. CASE Len(offered[e.from]) < e.window
    <3>1. CASE e.from # p
      BY <3>1, <2>1, <2>2, <2>4, <1>1
    <3>2. CASE e.from = p
      <4>1. e.window = window[p] /\ g_time_next_sent[p] <= e.time
        BY <3>2, <2>1, <2>2, <2>4, <1>5
      <4>2. v <= e.time
        BY <4>1, <2>2, <1>3
      <4> QED BY <3>2, <4>1, <4>2, <2>1, <1>6
    <3> QED BY <3>1, <3>2
  <2> QED BY <2>2, <2>3, <2>4, LeftType
<1>14. OnTime'
  BY <1>2, <1>12 DEF OnTime
<1>15. Queued'
  <2> SUFFICES ASSUME NEW q \in Procs, NEW e \in g_eq'[q] \ straggled
               PROVE  /\ Busy(q)' => g_time_now'[q] <= e.time
                      /\ pc'[q] = "reduce" => \/ e.time > g_time_end
                                              \/ offered'[q][window[q]] <= e.time
                                              \/ e.from # q /\ e.window >= window[q]
                      /\ ~Running(q) => e.time > g_time_end
    BY <1>2 DEF Queued
  <2>1. CASE q = p
    <3>1. e.time \in Nat
      BY <2>1 DEF TypeOK, EventInfo
    <3>2. e.time > g_time_end \/ v <= e.time
      BY <3>1, <2>1, <1>3
    <3> QED BY <3>2, <2>1, <1>2, <1>6
  <2>2. CASE q # p
    BY <2>2, <1>1, <1>2 DEF Queued
  <2> QED BY <2>1, <2>2
<1>16. LateOnlyIfStraggled'
  BY DEF LateOnlyIfStraggled
<1> QED BY <1>8, <1>9, <1>10, <1>11, <1>13, <1>14, <1>15, <1>16

LEMMA EndInv ==
  ASSUME IInv, TypeOK', NEW p \in Procs, PopBeyondEnd(p) \/ EndWindow(p)
  PROVE  IInv'
<1> USE DEF IInv
<1>1. /\ pc[p] = "work" /\ Busy(p)
      /\ UNCHANGED <<window, base_time, g_time_next_sent, received, transit, straggled, late>>
  BY DEF PopBeyondEnd, EndWindow, Busy
<1>2. /\ base_time[p] + MINDELAY \in Nat /\ g_time_end + 1 \in Nat
      /\ Horizon(p) <= base_time[p] + MINDELAY /\ Horizon(p) <= g_time_end + 1
  <2>1. base_time[p] \in Nat
    BY DEF TypeOK
  <2>2. base_time[p] + MINDELAY \in Nat /\ g_time_end + 1 \in Nat
    BY <2>1, EngineAssumption
  <2> QED BY <2>2, MinMaxType DEF Horizon
<1>3. CASE PopBeyondEnd(p)
  <2>1. PICK e \in Earliest(p) :
          /\ MaxOf(g_time_now[p], e.time) > g_time_end
          /\ g_eq' = [g_eq EXCEPT ![p] = @ \ {e}]
          /\ g_time_now' = [g_time_now EXCEPT ![p] = MaxOf(@, e.time)]
    BY <1>3 DEF PopBeyondEnd
  <2>2. e.time > g_time_end
    <3>1. g_time_now[p] <= g_time_end /\ g_time_now[p] \in Nat /\ e.time \in Nat
      BY <1>1, EarliestType DEF Clocks, TypeOK
    <3>2. MaxOf(g_time_now[p], e.time) \in {g_time_now[p], e.time}
      BY <3>1, MinMaxType
    <3> QED BY <3>1, <3>2, <2>1, EngineAssumption
  <2>3. \A f \in g_eq[p] : f.time > g_time_end
    BY <2>2, EarliestType, EngineAssumption
  <2>4. /\ \A q \in Procs : q # p => g_time_now'[q] = g_time_now[q] /\ g_eq'[q] = g_eq[q]
        /\ g_eq'[p] \subseteq g_eq[p]
    BY <2>1 DEF TypeOK
  <2>5. Offer(p, g_time_end + 1)
    BY <1>3 DEF PopBeyondEnd
  <2> QED BY <1>1, <1>2, <2>3, <2>4, <2>5, OfferInv
<1>4. CASE EndWindow(p)
  <2>1. UNCHANGED <<g_time_now, g_eq>>
    BY <1>4 DEF EndWindow
  <2>2. CASE g_eq[p] = {} /\ Offer(p, g_time_end + 1)
    BY <1>1, <1>2, <2>1, <2>2, OfferInv
  <2>3. CASE \E e \in Earliest(p) : ~InWindow(p, e) /\ Offer(p, e.time)
    <3>1. PICK e \in Earliest(p) : ~InWindow(p, e) /\ Offer(p, e.time)
      BY <2>3
    <3>2. e.time \in Nat /\ \A f \in g_eq[p] : e.time <= f.time
      BY EarliestType
    <3>3. e.time >= Horizon(p)
      <4>1. e.time >= base_time[p] + MINDELAY
        BY <3>1, <3>2, <1>2 DEF InWindow
      <4>2. Horizon(p) \in Nat
        BY <1>2, MinMaxType DEF Horizon
      <4> QED BY <4>1, <4>2, <3>2, <1>2
    <3> QED BY <1>1, <2>1, <3>1, <3>2, <3>3, OfferInv
  <2> QED BY <1>4, <2>2, <2>3 DEF EndWindow
<1> QED BY <1>3, <1>4

\* A step of the rest: nothing that the invariant speaks of changes, but for
\* what has been received.
LEMMA FrameInv ==
  ASSUME IInv, TypeOK',
         UNCHANGED <<window, base_time, offered, g_time_now, g_time_next_sent, g_eq,
                     straggled, late>>,
         \A q \in Procs : /\ Busy(q)' <=> Busy(q)
                          /\ Running(q)' <=> Running(q)
                          /\ pc'[q] = "reduce" <=> pc[q] = "reduce"
                          /\ OnTheWay(q)' \subseteq OnTheWay(q)
  PROVE  IInv'
<1>1. Rounds' /\ Bases' /\ Offers'
  BY RoundsKept DEF IInv
<1>2. Clocks' /\ Queued'
  BY ClocksKept, QueueKept DEF IInv
<1>3. Counted' /\ OnTime'
  <2>1. \A q \in Procs : Remote(q)' \subseteq Remote(q)
    BY DEF Remote
  <2> QED BY <2>1, MessagesKept DEF IInv
<1>4. LateOnlyIfStraggled'
  BY DEF IInv, LateOnlyIfStraggled
<1> QED BY <1>1, <1>2, <1>3, <1>4 DEF IInv

LEMMA SendLocalInv ==
  ASSUME IInv, TypeOK', NEW p \in Procs, NEW delay \in Delays, SendLocal(p, delay)
  PROVE  IInv'
<1> DEFINE e == NewEvent(p, p, delay)
<1>1. /\ pc[p] = "execute" /\ Busy(p) /\ Running(p) /\ e.from = p
      /\ e \in EventInfo /\ e.time >= g_time_now[p]
  <2>1. /\ EventTime(p, p, delay) >= g_time_now[p] /\ e \in EventInfo
    BY EventTimeType DEF IInv
  <2> QED BY <2>1 DEF SendLocal, Busy, Running, NewEvent
<1>2. /\ UNCHANGED <<pc, window, base_time, offered, g_time_now, g_time_next_sent,
                     received, transit, straggled, late>>
      /\ g_eq'[p] = g_eq[p] \cup {e}
      /\ \A q \in Procs : q # p => g_eq'[q] = g_eq[q]
  BY DEF SendLocal, threads, IInv, TypeOK
<1> HIDE DEF e
<1>3. \A q \in Procs : OnTheWay(q)' = OnTheWay(q)
  BY <1>2, OnTheWaySame
<1>4. \A q \in Procs : (Busy(q)' <=> Busy(q)) /\ (Running(q)' <=> Running(q))
  BY <1>2 DEF Busy, Running
<1>5. Rounds' /\ Bases' /\ Offers'
  BY <1>2, <1>4, RoundsKept DEF IInv
<1>6. Clocks'
  BY <1>2, <1>4, ClocksKept DEF IInv
<1>7. Counted' /\ OnTime'
  <2>1. \A q \in Procs : Remote(q)' \subseteq Remote(q)
    <3> TAKE q \in Procs
    <3> QED BY <1>1, <1>2, <1>3 DEF Remote
  <2> QED BY <2>1, <1>2, <1>3, <1>4, MessagesKept DEF IInv
<1>8. Queued'
  <2> SUFFICES ASSUME NEW q \in Procs, NEW f \in g_eq'[q] \ straggled
               PROVE  /\ Busy(q) => g_time_now[q] <= f.time
                      /\ pc[q] = "reduce" => \/ f.time > g_time_end
                                             \/ offered[q][window[q]] <= f.time
                                             \/ f.from # q /\ f.window >= window[q]
                      /\ ~Running(q) => f.time > g_time_end
    BY <1>2, <1>4 DEF Queued
  <2>1. CASE q = p /\ f = e
    <3>1. pc[p] # "reduce"
      BY <1>1
    <3>2. g_time_now[p] \in Nat /\ f.time \in Nat
      BY <1>1, <2>1 DEF IInv, TypeOK, EventInfo
    <3> QED BY <1>1, <2>1, <3>1, <3>2
  <2>2. CASE f \in g_eq[q]
    BY <2>2 DEF IInv, Queued
  <2> QED BY <2>1, <2>2, <1>2
<1>9. LateOnlyIfStraggled'
  BY <1>2 DEF IInv, LateOnlyIfStraggled
<1> QED BY <1>5, <1>6, <1>7, <1>8, <1>9 DEF IInv

\* The event is counted in the window it is sent in, and everybody will be
\* beyond that window when it is executed.
LEMMA SendRemoteInv ==
  ASSUME IInv, TypeOK', NEW p \in Procs, NEW d \in Procs, NEW delay \in Delays,
         SendRemote(p, d, delay)
  PROVE  IInv'
<1> DEFINE e == NewEvent(p, d, delay)
<1>1. TypeOK /\ Rounds /\ Bases
  BY DEF IInv
<1>2. /\ pc[p] = "execute" /\ Busy(p) /\ Running(p) /\ d # p
      /\ e.from = p /\ e.window = window[p]
      /\ e \in EventInfo /\ e.time \in Nat /\ e.time >= g_time_now[p] + MINDELAY
  <2>1. d # p
    BY DEF SendRemote
  <2>2. EventTime(p, d, delay) >= g_time_now[p] + MINDELAY /\ e \in EventInfo
        /\ EventTime(p, d, delay) \in Nat
    BY <1>1, <2>1, EventTimeType
  <2> QED BY <2>1, <2>2 DEF SendRemote, Busy, Running, NewEvent
<1>3. /\ UNCHANGED <<pc, window, base_time, offered, g_time_now, g_eq, received,
                     straggled, late>>
      /\ transit' = [transit EXCEPT ![p][d] = Append(@, {e})]
      /\ g_time_next_sent' = [g_time_next_sent EXCEPT ![p] = MinOf(@, e.time)]
  BY DEF SendRemote
<1> HIDE DEF e
<1>4. /\ g_time_next_sent'[p] = MinOf(g_time_next_sent[p], e.time)
      /\ \A q \in Procs : q # p => g_time_next_sent'[q] = g_time_next_sent[q]
  BY <1>1, <1>3 DEF TypeOK
<1>5. \A q \in Procs : OnTheWay(q)' = IF q = d THEN OnTheWay(q) \cup {e} ELSE OnTheWay(q)
  <2>1. {e} \in SUBSET EventInfo
    BY <1>2
  <2> QED BY <1>1, <1>3, <2>1, OnTheWaySend
<1>6. \A q \in Procs : (Busy(q)' <=> Busy(q)) /\ (Running(q)' <=> Running(q))
  BY <1>3 DEF Busy, Running
<1>7. Rounds' /\ Bases' /\ Offers'
  BY <1>3, <1>6, RoundsKept DEF IInv
<1>8. Queued'
  BY <1>3, <1>6, QueueKept DEF IInv
<1>9. /\ g_time_next_sent[p] \in Nat /\ base_time[p] \in Nat /\ g_time_now[p] \in Nat
      /\ base_time[p] <= g_time_now[p] /\ g_time_next_sent[p] >= Horizon(p)
      /\ Len(offered[p]) = window[p] - 1 /\ window[p] \in Nat \ {0}
  BY <1>1, <1>2 DEF IInv, TypeOK, Clocks, Rounds
<1>10. /\ g_time_next_sent'[p] \in Nat /\ g_time_next_sent'[p] <= g_time_next_sent[p]
       /\ g_time_next_sent'[p] <= e.time
       /\ g_time_next_sent'[p] \in {g_time_next_sent[p], e.time}
  <2>1. /\ MinOf(g_time_next_sent[p], e.time) \in Nat
        /\ MinOf(g_time_next_sent[p], e.time) <= g_time_next_sent[p]
        /\ MinOf(g_time_next_sent[p], e.time) <= e.time
        /\ MinOf(g_time_next_sent[p], e.time) \in {g_time_next_sent[p], e.time}
    BY <1>2, <1>9, MinMaxType
  <2> QED BY <2>1, <1>4
<1>11. base_time[p] + MINDELAY <= e.time
  BY <1>2, <1>9, EngineAssumption
<1>12. Clocks'
  <2>1. g_time_next_sent'[p] >= Horizon(p)
    <3>1. Horizon(p) <= base_time[p] + MINDELAY /\ Horizon(p) \in Nat
      <4>1. base_time[p] + MINDELAY \in Nat /\ g_time_end + 1 \in Nat
        BY <1>9, EngineAssumption
      <4> QED BY <4>1, MinMaxType DEF Horizon
    <3>2. base_time[p] + MINDELAY \in Nat
      BY <1>9, EngineAssumption
    <3> QED BY <3>1, <3>2, <1>2, <1>9, <1>10, <1>11
  <2>2. \A q \in Procs : Busy(q) => g_time_next_sent'[q] >= Horizon(q)
    BY <2>1, <1>4 DEF IInv, Clocks
  <2>3. \A q \in Procs : Horizon(q)' = Horizon(q)
    BY <1>3 DEF Horizon
  <2> QED BY <2>2, <2>3, <1>3, <1>6 DEF IInv, Clocks
<1>13. Counted'
  <2> SUFFICES ASSUME NEW q \in Procs, NEW f \in Remote(q)'
               PROVE  /\ f.window \in 1 .. window[f.from]
                      /\ IF Len(offered[f.from]) >= f.window
                         THEN offered[f.from][f.window] <= f.time
                         ELSE g_time_next_sent'[f.from] <= f.time
                      /\ \A r \in Procs : Running(r) /\ window[r] = f.window =>
                           base_time[r] + MINDELAY <= f.time
    BY <1>3, <1>6 DEF Counted
  <2>1. CASE f = e
    <3>1. \A r \in Procs : Running(r) /\ window[r] = window[p] => base_time[r] = base_time[p]
      BY <1>1, <1>2, SameBase DEF Left
    <3>2. ~(Len(offered[p]) >= window[p])
      BY <1>9
    <3>3. window[p] \in 1 .. window[p]
      BY <1>9
    <3> QED BY <2>1, <3>1, <3>2, <3>3, <1>2, <1>10, <1>11
  <2>2. CASE f # e
    <3>1. f \in Remote(q)
      BY <2>2, <1>3, <1>5 DEF Remote
    <3>2. /\ f.window \in 1 .. window[f.from]
          /\ IF Len(offered[f.from]) >= f.window
             THEN offered[f.from][f.window] <= f.time
             ELSE g_time_next_sent[f.from] <= f.time
          /\ \A r \in Procs : Running(r) /\ window[r] = f.window =>
               base_time[r] + MINDELAY <= f.time
      BY <3>1 DEF IInv, Counted
    <3>3. f.from \in Procs /\ f.time \in Nat
      BY <3>1, <1>1, RemoteType DEF EventInfo
    <3>4. g_time_next_sent[f.from] <= f.time => g_time_next_sent'[f.from] <= f.time
      BY <3>3, <1>4, <1>9, <1>10
    <3> QED BY <3>2, <3>4
  <2> QED BY <2>1, <2>2
<1>14. OnTime'
  <2> SUFFICES ASSUME NEW q \in Procs, NEW f \in OnTheWay(q)' \ straggled
               PROVE  f.from # q /\ Running(q) /\ f.window >= window[q]
    BY <1>3, <1>6 DEF OnTime
  <2>1. CASE f \in OnTheWay(q)
    BY <2>1 DEF IInv, OnTime
  <2>2. CASE q = d /\ f = e
    BY <2>2, <1>1, <1>2, AllRunning
  <2> QED BY <2>1, <2>2, <1>5
<1>15. LateOnlyIfStraggled'
  BY <1>3 DEF IInv, LateOnlyIfStraggled
<1> QED BY <1>7, <1>8, <1>12, <1>13, <1>14, <1>15 DEF IInv

LEMMA NextWindowInv ==
  ASSUME IInv, TypeOK', NEW p \in Procs, NEW t \in Nat, NextWindow(p, t)
  PROVE  IInv'
<1>1. /\ TypeOK /\ Rounds /\ Bases
      /\ pc[p] = "reduce" /\ Reduced(p) /\ IsMinimum(p, t) /\ t <= g_time_end
      /\ Running(p) /\ ~Busy(p)
  BY DEF IInv, NextWindow, Running, Busy
<1>2. /\ UNCHANGED <<offered, g_eq, received, transit, late>>
      /\ straggled' = straggled \cup Stragglers(p)
      /\ pc'[p] = "work" /\ window'[p] = window[p] + 1 /\ base_time'[p] = t
      /\ g_time_now'[p] = t /\ g_time_next_sent'[p] = TimeMax
      /\ \A q \in Procs : q # p =>
           /\ pc'[q] = pc[q] /\ window'[q] = window[q] /\ base_time'[q] = base_time[q]
           /\ g_time_now'[q] = g_time_now[q] /\ g_time_next_sent'[q] = g_time_next_sent[q]
  BY <1>1 DEF NextWindow, TypeOK
<1>3. /\ window[p] \in Nat \ {0} /\ Len(offered[p]) = window[p]
      /\ \A q \in Procs : Len(offered[q]) >= window[p] /\ Len(offered[q]) \in Nat
  <2>1. \A q \in Procs : offered[q] \in Seq(Nat)
    BY <1>1 DEF TypeOK
  <2> QED BY <2>1, <1>1 DEF TypeOK, Rounds, Reduced
<1>4. /\ Busy(p)' /\ Running(p)' /\ Left(p)' = window[p] /\ pc'[p] # "reduce"
      /\ \A q \in Procs : /\ Running(q)' <=> Running(q)
                          /\ q # p => (Busy(q)' <=> Busy(q)) /\ Left(q)' = Left(q)
  BY <1>1, <1>2, <1>3 DEF Busy, Running, Left
<1>5. \A q \in Procs : OnTheWay(q)' = OnTheWay(q) /\ Remote(q)' \subseteq Remote(q)
  BY <1>2, OnTheWaySame DEF Remote
<1>6. Rounds'
  BY <1>1, <1>2, <1>3, <1>4 DEF Rounds
<1>7. Bases'
  <2>1. IsBase(window[p], t)
    BY <1>1 DEF IsMinimum, IsBase
  <2>2. \A r, u : IsBase(r, u)' <=> IsBase(r, u)
    BY <1>2 DEF IsBase
  <2> SUFFICES ASSUME NEW q \in Procs
               PROVE  /\ IF Running(q) THEN base_time'[q] <= g_time_end
                                       ELSE base_time'[q] > g_time_end
                      /\ IF Left(q)' = 0 THEN base_time'[q] = 0
                                         ELSE IsBase(Left(q)', base_time'[q])
    BY <1>4, <2>2 DEF Bases, IsBase
  <2>3. CASE q = p
    BY <2>1, <2>3, <1>1, <1>2, <1>3, <1>4
  <2>4. CASE q # p
    BY <2>4, <1>1, <1>2, <1>4 DEF Bases
  <2> QED BY <2>3, <2>4
<1>8. Clocks'
  <2>1. TimeMax >= MinOf(t + MINDELAY, g_time_end + 1)
    BY EngineAssumption DEF MinOf
  <2>2. Horizon(p)' = MinOf(t + MINDELAY, g_time_end + 1)
    BY <1>2 DEF Horizon
  <2>3. \A q \in Procs : q # p => Horizon(q)' = Horizon(q)
    BY <1>2 DEF Horizon
  <2>4. t <= t /\ t < t + MINDELAY
    BY EngineAssumption
  <2> QED BY <2>1, <2>2, <2>3, <2>4, <1>1, <1>2, <1>4 DEF IInv, Clocks
<1>9. Offers'
  <2> SUFFICES ASSUME NEW r \in Procs, NEW q \in Procs, Running(r), Len(offered[q]) >= window'[r]
               PROVE  offered[q][window'[r]] >= Horizon(r)'
    BY <1>2, <1>4 DEF Offers
  <2>1. CASE r # p
    BY <2>1, <1>2 DEF IInv, Offers, Horizon
  <2>2. CASE r = p
    <3>1. window[q] > window[p]
      <4>1. Len(offered[q]) <= window[q] /\ window[q] \in Nat
        <5>1. window[q] \in Nat
          BY <1>1 DEF TypeOK
        <5> QED BY <5>1, <1>1 DEF Rounds
      <4> QED BY <4>1, <2>2, <1>2, <1>3
    <3>2. Running(q) /\ window[q] = window[p] + 1 /\ base_time[q] = t
      BY <3>1, <1>1, Ahead
    <3>3. offered[q][window[q]] >= Horizon(q)
      BY <3>2, <2>2, <1>2 DEF IInv, Offers
    <3>4. Horizon(r)' = Horizon(q)
      BY <3>2, <2>2, <1>2 DEF Horizon
    <3> QED BY <3>2, <3>3, <3>4, <2>2, <1>2
  <2> QED BY <2>1, <2>2
\* What a process ahead of p has sent to it in this window arrives after it.
<1>10. ASSUME NEW q \in Procs, NEW e \in Remote(q), e.window > window[p]
       PROVE  /\ e.window = window[p] + 1 /\ e.from # p
              /\ base_time[e.from] = t /\ t + MINDELAY <= e.time
  <2>1. e.from \in Procs /\ e.window \in Nat /\ e.time \in Nat /\ window[e.from] \in Nat
    BY <1>1, RemoteType DEF EventInfo, TypeOK
  <2>2. /\ e.window <= window[e.from]
        /\ \A r \in Procs : Running(r) /\ window[r] = e.window => base_time[r] + MINDELAY <= e.time
    BY <2>1 DEF IInv, Counted
  <2>3. window[e.from] > window[p]
    BY <2>1, <2>2, <1>3, <1>10
  <2>4. Running(e.from) /\ window[e.from] = window[p] + 1 /\ base_time[e.from] = t
    BY <2>1, <2>3, <1>1, Ahead
  <2>5. e.window = window[e.from]
    BY <2>1, <2>2, <2>4, <1>3, <1>10
  <2> QED BY <2>1, <2>2, <2>3, <2>4, <2>5
<1>11. Counted'
  <2> SUFFICES ASSUME NEW q \in Procs, NEW e \in Remote(q)
               PROVE  /\ e.window \in 1 .. window'[e.from]
                      /\ IF Len(offered[e.from]) >= e.window
                         THEN offered[e.from][e.window] <= e.time
                         ELSE g_time_next_sent'[e.from] <= e.time
                      /\ \A r \in Procs : Running(r) /\ window'[r] = e.window =>
                           base_time'[r] + MINDELAY <= e.time
    BY <1>2, <1>4, <1>5 DEF Counted
  <2>1. e.from \in Procs /\ e.window \in Nat /\ e.time \in Nat /\ window[e.from] \in Nat
    BY <1>1, RemoteType DEF EventInfo, TypeOK
  <2>2. /\ e.window \in 1 .. window[e.from]
        /\ IF Len(offered[e.from]) >= e.window
           THEN offered[e.from][e.window] <= e.time
           ELSE g_time_next_sent[e.from] <= e.time
        /\ \A r \in Procs : Running(r) /\ window[r] = e.window => base_time[r] + MINDELAY <= e.time
    BY DEF IInv, Counted
  <2>3. e.window \in 1 .. window'[e.from]
    BY <2>1, <2>2, <1>2
  <2>4. Len(offered[e.from]) < e.window => e.from # p
    BY <2>1, <2>2, <1>3
  <2>5. \A r \in Procs : Running(r) /\ window'[r] = e.window => base_time'[r] + MINDELAY <= e.time
    <3> SUFFICES ASSUME NEW r \in Procs, Running(r), window'[r] = e.window
                 PROVE  base_time'[r] + MINDELAY <= e.time
      OBVIOUS
    <3>1. CASE r = p
      BY <3>1, <1>2, <1>3, <1>10
    <3>2. CASE r # p
      BY <3>2, <2>2, <1>2
    <3> QED BY <3>1, <3>2
  <2>6. IF Len(offered[e.from]) >= e.window
        THEN offered[e.from][e.window] <= e.time
        ELSE g_time_next_sent'[e.from] <= e.time
    BY <2>1, <2>2, <2>4, <1>2, <1>3
  <2> QED BY <2>3, <2>5, <2>6
<1>12. OnTime'
  <2> SUFFICES ASSUME NEW q \in Procs, NEW e \in OnTheWay(q) \ straggled'
               PROVE  e.from # q /\ Running(q) /\ e.window >= window'[q]
    BY <1>2, <1>4, <1>5 DEF OnTime
  <2>1. e \in OnTheWay(q) \ straggled
    BY <1>2
  <2>2. CASE q # p
    BY <2>1, <2>2, <1>2 DEF IInv, OnTime
  <2>3. CASE q = p
    <3>1. ~(e.window <= window[p]) /\ e.window \in Nat
      BY <2>3, <1>1, <1>2, OnTheWayType DEF Stragglers, EventInfo
    <3> QED BY <2>1, <2>3, <3>1, <1>2, <1>3 DEF IInv, OnTime
  <2> QED BY <2>2, <2>3
<1>13. Queued'
  <2> SUFFICES ASSUME NEW q \in Procs, NEW e \in g_eq[q] \ straggled'
               PROVE  /\ Busy(q)' => g_time_now'[q] <= e.time
                      /\ pc'[q] = "reduce" => \/ e.time > g_time_end
                                              \/ offered[q][window'[q]] <= e.time
                                              \/ e.from # q /\ e.window >= window'[q]
                      /\ ~Running(q) => e.time > g_time_end
    BY <1>2, <1>4 DEF Queued
  <2>1. e \in g_eq[q] \ straggled
    BY <1>2
  <2>2. CASE q # p
    BY <2>1, <2>2, <1>2, <1>4 DEF IInv, Queued
  <2>3. CASE q = p
    <3>1. /\ e.time \in Nat /\ e.window \in Nat /\ e.from \in Procs
          /\ \/ e.time > g_time_end
             \/ offered[p][window[p]] <= e.time
             \/ e.from # p /\ e.window >= window[p]
      <4>1. g_eq[p] \subseteq EventInfo
        BY <1>1 DEF TypeOK
      <4>2. \/ e.time > g_time_end
            \/ offered[p][window[p]] <= e.time
            \/ e.from # p /\ e.window >= window[p]
        BY <2>1, <2>3, <1>1 DEF IInv, Queued
      <4> QED BY <4>1, <4>2, <2>1, <2>3 DEF EventInfo
    <3>2. \A r \in Procs : t <= offered[r][window[p]] /\ offered[r][window[p]] \in Nat
      <4> TAKE r \in Procs
      <4>1. offered[r] \in Seq(Nat) /\ window[p] \in 1 .. Len(offered[r])
        BY <1>1, <1>3 DEF TypeOK
      <4> QED BY <4>1, <1>1 DEF IsMinimum
    <3>3. CASE e.time > g_time_end
      BY <3>1, <3>3, <2>3, <1>1, <1>2, <1>4, EngineAssumption
    <3>4. CASE offered[p][window[p]] <= e.time
      <4>1. t <= e.time
        BY <3>1, <3>2, <3>4
      <4> QED BY <4>1, <2>3, <1>1, <1>2, <1>4
    <3>5. CASE e.from # p /\ e.window >= window[p]
      <4>1. e \in Remote(p)
        BY <2>1, <2>3, <3>5 DEF Remote
      <4>2. t <= e.time
        <5>1. CASE e.window = window[p]
          <6>1. offered[e.from][window[p]] <= e.time
            BY <4>1, <5>1, <3>1, <1>3 DEF IInv, Counted
          <6> QED BY <6>1, <3>1, <3>2
        <5>2. CASE e.window > window[p]
          <6>1. t + MINDELAY <= e.time
            BY <4>1, <5>2, <1>10
          <6> QED BY <6>1, <3>1, EngineAssumption
        <5> QED BY <5>1, <5>2, <3>1, <3>5, <1>3
      <4> QED BY <4>2, <2>3, <1>1, <1>2, <1>4
    <3> QED BY <3>1, <3>3, <3>4, <3>5
  <2> QED BY <2>2, <2>3
<1>14. LateOnlyIfStraggled'
  BY <1>2 DEF IInv, LateOnlyIfStraggled
<1> QED BY <1>6, <1>7, <1>8, <1>9, <1>11, <1>12, <1>13, <1>14 DEF IInv

LEMMA QuitInv ==
  ASSUME IInv, TypeOK', NEW p \in Procs, NEW t \in Nat, Quit(p, t)
  PROVE  IInv'
<1>1. /\ TypeOK /\ Rounds /\ Bases
      /\ pc[p] = "reduce" /\ Reduced(p) /\ IsMinimum(p, t) /\ t > g_time_end
      /\ Running(p) /\ ~Busy(p)
  BY DEF IInv, Quit, Running, Busy
<1>2. /\ UNCHANGED <<window, g_time_now, g_time_next_sent, offered, g_eq, received, late>>
      /\ straggled' = straggled \cup Stragglers(p)
      /\ transit' = [transit EXCEPT ![p][p] = Append(@, quit)]
      /\ pc'[p] = "quit" /\ base_time'[p] = t
      /\ \A q \in Procs : q # p => pc'[q] = pc[q] /\ base_time'[q] = base_time[q]
  BY <1>1 DEF Quit, TypeOK
<1>3. /\ window[p] \in Nat \ {0} /\ Len(offered[p]) = window[p]
      /\ \A q \in Procs : Len(offered[q]) >= window[p] /\ Len(offered[q]) \in Nat
  <2>1. \A q \in Procs : offered[q] \in Seq(Nat)
    BY <1>1 DEF TypeOK
  <2> QED BY <2>1, <1>1 DEF TypeOK, Rounds, Reduced
<1>4. /\ ~Busy(p)' /\ ~Running(p)' /\ Left(p)' = window[p]
      /\ \A q \in Procs : /\ Busy(q)' <=> Busy(q)
                          /\ q # p => (Running(q)' <=> Running(q)) /\ Left(q)' = Left(q)
  BY <1>1, <1>2 DEF Busy, Running, Left
<1>5. \A q \in Procs : OnTheWay(q)' = OnTheWay(q) /\ Remote(q)' \subseteq Remote(q)
  <2>1. quit \in SUBSET EventInfo
    BY DEF quit
  <2>2. \A q \in Procs : OnTheWay(q)' = OnTheWay(q)
    <3> TAKE q \in Procs
    <3>1. OnTheWay(q)' = IF q = p THEN OnTheWay(q) \cup quit ELSE OnTheWay(q)
      BY <2>1, <1>1, <1>2, OnTheWaySend
    <3> QED BY <3>1 DEF quit
  <2> QED BY <2>2, <1>2 DEF Remote
<1>6. Rounds'
  BY <1>1, <1>2, <1>3, <1>4 DEF Rounds
<1>7. Bases'
  <2>1. IsBase(window[p], t)
    BY <1>1 DEF IsMinimum, IsBase
  <2>2. \A r, u : IsBase(r, u)' <=> IsBase(r, u)
    BY <1>2 DEF IsBase
  <2> SUFFICES ASSUME NEW q \in Procs
               PROVE  /\ IF Running(q)' THEN base_time'[q] <= g_time_end
                                        ELSE base_time'[q] > g_time_end
                      /\ IF Left(q)' = 0 THEN base_time'[q] = 0
                                         ELSE IsBase(Left(q)', base_time'[q])
    BY <2>2 DEF Bases, IsBase
  <2>3. CASE q = p
    BY <2>1, <2>3, <1>1, <1>2, <1>3, <1>4
  <2>4. CASE q # p
    BY <2>4, <1>1, <1>2, <1>4 DEF Bases
  <2> QED BY <2>3, <2>4
<1>8. Clocks'
  <2> SUFFICES ASSUME NEW q \in Procs, Busy(q)
               PROVE  /\ base_time'[q] <= g_time_now[q]
                      /\ g_time_now[q] < base_time'[q] + MINDELAY
                      /\ g_time_now[q] <= g_time_end
                      /\ g_time_next_sent[q] >= Horizon(q)'
    BY <1>2, <1>4 DEF Clocks
  <2>1. q # p /\ Horizon(q)' = Horizon(q)
    BY <1>1, <1>2 DEF Horizon
  <2> QED BY <2>1, <1>2 DEF IInv, Clocks
<1>9. Offers'
  <2> SUFFICES ASSUME NEW r \in Procs, NEW q \in Procs, Running(r)', Len(offered[q]) >= window[r]
               PROVE  offered[q][window[r]] >= Horizon(r)'
    BY <1>2 DEF Offers
  <2>1. r # p /\ Running(r) /\ Horizon(r)' = Horizon(r)
    BY <1>2, <1>4 DEF Horizon
  <2> QED BY <2>1 DEF IInv, Offers
<1>10. Counted'
  <2> SUFFICES ASSUME NEW q \in Procs, NEW e \in Remote(q)
               PROVE  /\ e.window \in 1 .. window[e.from]
                      /\ IF Len(offered[e.from]) >= e.window
                         THEN offered[e.from][e.window] <= e.time
                         ELSE g_time_next_sent[e.from] <= e.time
                      /\ \A r \in Procs : Running(r)' /\ window[r] = e.window =>
                           base_time'[r] + MINDELAY <= e.time
    BY <1>2, <1>5 DEF Counted
  <2> QED BY <1>2, <1>4 DEF IInv, Counted
\* A process ahead of p would have opened a window after the end.
<1>11. \A q \in Procs : \A e \in Remote(q) : e.window <= window[p] /\ e.window \in Nat
  <2> SUFFICES ASSUME NEW q \in Procs, NEW e \in Remote(q)
               PROVE  e.window <= window[p] /\ e.window \in Nat
    OBVIOUS
  <2>1. e.from \in Procs /\ e.window \in Nat /\ window[e.from] \in Nat
    BY <1>1, RemoteType DEF EventInfo, TypeOK
  <2>2. e.window <= window[e.from]
    BY <2>1 DEF IInv, Counted
  <2>3. ~(window[e.from] > window[p])
    <3> SUFFICES ASSUME window[e.from] > window[p] PROVE FALSE
      OBVIOUS
    <3>1. Running(e.from) /\ base_time[e.from] = t
      BY <2>1, <1>1, Ahead
    <3>2. base_time[e.from] <= g_time_end
      BY <2>1, <3>1, <1>1 DEF Bases
    <3> QED BY <3>1, <3>2, <1>1, EngineAssumption
  <2> QED BY <2>1, <2>2, <2>3, <1>3
<1>12. OnTime'
  <2> SUFFICES ASSUME NEW q \in Procs, NEW e \in OnTheWay(q) \ straggled'
               PROVE  e.from # q /\ Running(q)' /\ e.window >= window[q]
    BY <1>2, <1>5 DEF OnTime
  <2>1. e \in OnTheWay(q) \ straggled
    BY <1>2
  <2>2. e.from # q /\ Running(q) /\ e.window >= window[q]
    BY <2>1 DEF IInv, OnTime
  <2>3. q # p
    <3> SUFFICES ASSUME q = p PROVE FALSE
      OBVIOUS
    <3>1. e \in Remote(p)
      BY <2>1, <2>2 DEF Remote
    <3>2. e \in Stragglers(p)
      BY <2>1, <3>1, <1>11 DEF Stragglers
    <3> QED BY <3>2, <1>2
  <2> QED BY <2>2, <2>3, <1>4
<1>13. Queued'
  <2> SUFFICES ASSUME NEW q \in Procs, NEW e \in g_eq[q] \ straggled'
               PROVE  /\ Busy(q)' => g_time_now[q] <= e.time
                      /\ pc'[q] = "reduce" => \/ e.time > g_time_end
                                              \/ offered[q][window[q]] <= e.time
                                              \/ e.from # q /\ e.window >= window[q]
                      /\ ~Running(q)' => e.time > g_time_end
    BY <1>2 DEF Queued
  <2>1. e \in g_eq[q] \ straggled
    BY <1>2
  <2>2. CASE q # p
    BY <2>1, <2>2, <1>2, <1>4 DEF IInv, Queued
  <2>3. CASE q = p
    <3>1. /\ e.time \in Nat /\ e.window \in Nat /\ e.from \in Procs
          /\ \/ e.time > g_time_end
             \/ offered[p][window[p]] <= e.time
             \/ e.from # p /\ e.window >= window[p]
      <4>1. g_eq[p] \subseteq EventInfo
        BY <1>1 DEF TypeOK
      <4>2. \/ e.time > g_time_end
            \/ offered[p][window[p]] <= e.time
            \/ e.from # p /\ e.window >= window[p]
        BY <2>1, <2>3, <1>1 DEF IInv, Queued
      <4> QED BY <4>1, <4>2, <2>1, <2>3 DEF EventInfo
    <3>2. \A r \in Procs : t <= offered[r][window[p]] /\ offered[r][window[p]] \in Nat
      <4> TAKE r \in Procs
      <4>1. offered[r] \in Seq(Nat) /\ window[p] \in 1 .. Len(offered[r])
        BY <1>1, <1>3 DEF TypeOK
      <4> QED BY <4>1, <1>1 DEF IsMinimum
    <3>3. e.time > g_time_end
      <4>1. CASE offered[p][window[p]] <= e.time
        BY <4>1, <3>1, <3>2, <1>1, EngineAssumption
      <4>2. CASE e.from # p /\ e.window >= window[p]
        <5>1. e \in Remote(p)
          BY <2>1, <2>3, <4>2 DEF Remote
        <5>2. e.window = window[p]
          BY <5>1, <4>2, <1>11, <1>3
        <5>3. offered[e.from][window[p]] <= e.time
          BY <5>1, <5>2, <3>1, <1>3 DEF IInv, Counted
        <5> QED BY <5>3, <3>1, <3>2, <1>1, EngineAssumption
      <4> QED BY <4>1, <4>2, <3>1
    <3> QED BY <3>3, <2>3, <1>2, <1>4
  <2> QED BY <2>2, <2>3
<1>14. LateOnlyIfStraggled'
  BY <1>2 DEF IInv, LateOnlyIfStraggled
<1> QED BY <1>6, <1>7, <1>8, <1>9, <1>10, <1>12, <1>13, <1>14 DEF IInv

LEMMA PushInv ==
  ASSUME IInv, TypeOK', NEW p \in Procs, Push(p)
  PROVE  IInv'
<1>1. /\ TypeOK /\ Rounds /\ Bases
      /\ UNCHANGED <<pc, window, base_time, offered, g_time_now, g_time_next_sent,
                     transit, straggled, late>>
      /\ g_eq'[p] = g_eq[p] \cup received[p] /\ received'[p] = {}
      /\ \A q \in Procs : q # p => g_eq'[q] = g_eq[q] /\ received'[q] = received[q]
  BY DEF IInv, TypeOK, Push, threads
<1>2. \A q \in Procs : OnTheWay(q)' \subseteq OnTheWay(q) /\ received[q] \subseteq OnTheWay(q)
  BY <1>1, OnTheWayMember, OnTheWayMemberPrime
<1>3. \A q \in Procs : (Busy(q)' <=> Busy(q)) /\ (Running(q)' <=> Running(q))
  BY <1>1 DEF Busy, Running
<1>4. Rounds' /\ Bases' /\ Offers'
  BY <1>1, <1>3, RoundsKept DEF IInv
<1>5. Clocks'
  BY <1>1, <1>3, ClocksKept DEF IInv
<1>6. Counted' /\ OnTime'
  <2>1. \A q \in Procs : Remote(q)' \subseteq Remote(q)
    <3> TAKE q \in Procs
    <3> QED BY <1>1, <1>2 DEF Remote
  <2> QED BY <2>1, <1>1, <1>2, <1>3, MessagesKept DEF IInv
<1>7. Queued'
  <2> SUFFICES ASSUME NEW q \in Procs, NEW e \in g_eq'[q] \ straggled
               PROVE  /\ Busy(q) => g_time_now[q] <= e.time
                      /\ pc[q] = "reduce" => \/ e.time > g_time_end
                                             \/ offered[q][window[q]] <= e.time
                                             \/ e.from # q /\ e.window >= window[q]
                      /\ ~Running(q) => e.time > g_time_end
    BY <1>1, <1>3 DEF Queued
  <2>1. CASE e \in g_eq[q]
    BY <2>1 DEF IInv, Queued
  <2>2. CASE q = p /\ e \in received[p]
    <3>1. e.from # p /\ Running(p) /\ e.window >= window[p] /\ e \in Remote(p)
      BY <2>2, <1>2 DEF IInv, OnTime, Remote
    <3>2. CASE Busy(p)
      <4>1. /\ e.from \in Procs /\ e.window \in Nat /\ e.time \in Nat
        BY <3>1, <1>1, RemoteType DEF EventInfo
      <4>2. window[e.from] <= window[p] /\ window[e.from] \in Nat /\ window[p] \in Nat
        BY <4>1, <3>2, <1>1, AllRunning, LeftType
      <4>3. /\ e.window <= window[e.from]
            /\ window[p] = e.window => base_time[p] + MINDELAY <= e.time
        BY <3>1, <4>1 DEF IInv, Counted
      <4>4. base_time[p] + MINDELAY <= e.time
        BY <3>1, <4>1, <4>2, <4>3
      <4>5. g_time_now[p] < base_time[p] + MINDELAY
        BY <3>2 DEF IInv, Clocks
      <4>6. g_time_now[p] \in Nat /\ base_time[p] + MINDELAY \in Nat
        <5>1. g_time_now[p] \in Nat /\ base_time[p] \in Nat
          BY <1>1 DEF TypeOK
        <5> QED BY <5>1, EngineAssumption
      <4> QED BY <2>2, <3>1, <3>2, <4>1, <4>4, <4>5, <4>6
    <3>3. CASE ~Busy(p)
      BY <2>2, <3>1, <3>3
    <3> QED BY <3>2, <3>3
  <2> QED BY <2>1, <2>2, <1>1
<1>8. LateOnlyIfStraggled'
  BY <1>1 DEF IInv, LateOnlyIfStraggled
<1> QED BY <1>4, <1>5, <1>6, <1>7, <1>8 DEF IInv

-----------------------------------------------------------------------------
(* The invariant.                                                          *)

LEMMA InitInv == Init => IInv
<1> SUFFICES ASSUME Init PROVE IInv
  OBVIOUS
<1>1. TypeOK
  <2>1. \A p \in Procs, n \in Nat, t \in Nat : InitEvent(p, n, t) \in EventInfo
    BY DEF InitEvent, EventInfo
  <2>2. g_eq \in [Procs -> SUBSET EventInfo]
    BY <2>1, InputAssumption DEF Init
  <2>3. transit \in [Procs -> [Procs -> Seq(SUBSET EventInfo)]]
    <3>1. ASSUME NEW q \in Procs, NEW p \in Procs
          PROVE  [i \in DOMAIN InitMessages[q][p] |-> {InitEvent(q, i, InitMessages[q][p][i])}]
                   \in Seq(SUBSET EventInfo)
      <4> DEFINE m == InitMessages[q][p]
      <4>1. m \in Seq(Nat)
        BY InputAssumption
      <4> HIDE DEF m
      <4>2. DOMAIN m = 1 .. Len(m) /\ Len(m) \in Nat /\ \A i \in DOMAIN m : m[i] \in Nat /\ i \in Nat
        BY <4>1
      <4>3. \A i \in DOMAIN m : {InitEvent(q, i, m[i])} \in SUBSET EventInfo
        BY <2>1, <4>2
      <4>4. [i \in DOMAIN m |-> {InitEvent(q, i, m[i])}] \in [1 .. Len(m) -> SUBSET EventInfo]
        BY <4>2, <4>3
      <4>5. [i \in DOMAIN m |-> {InitEvent(q, i, m[i])}] \in Seq(SUBSET EventInfo)
        BY <4>2, <4>4
      <4> QED BY <4>5 DEF m
    <3> QED BY <3>1 DEF Init
  <2>4. received \in [Procs -> SUBSET EventInfo]
    BY DEF Init
  <2>5. straggled \subseteq EventInfo
    BY <2>3, <2>4, OnTheWayEvents DEF Init
  <2>6. offered \in [Procs -> Seq(Nat)] /\ waiting \in [Procs -> SUBSET Procs]
    BY DEF Init
  <2>7. /\ pc \in [Procs -> {"work", "execute", "reduce", "quit", "finished"}]
        /\ window \in [Procs -> Nat \ {0}]
        /\ base_time \in [Procs -> Nat] /\ g_time_now \in [Procs -> Nat]
        /\ g_time_next_sent \in [Procs -> Nat]
        /\ listening \in [Procs -> BOOLEAN] /\ sent \in [Procs -> Nat]
        /\ late \subseteq EventInfo
    BY EngineAssumption DEF Init
  <2> QED BY <2>2, <2>3, <2>4, <2>5, <2>6, <2>7 DEF TypeOK
<1>2. \A p \in Procs : /\ pc[p] = "work" /\ window[p] = 1 /\ base_time[p] = 0
                       /\ g_time_now[p] = 0 /\ g_time_next_sent[p] = TimeMax
                       /\ offered[p] = <<>> /\ Len(offered[p]) = 0
                       /\ Busy(p) /\ Running(p) /\ Left(p) = 0
  BY DEF Init, Busy, Running, Left
<1>3. Rounds /\ Bases
  BY <1>2, EngineAssumption DEF Rounds, Bases
<1>4. Clocks
  <2>1. TimeMax >= MinOf(0 + MINDELAY, g_time_end + 1)
    BY EngineAssumption DEF MinOf
  <2> QED BY <1>2, <2>1, EngineAssumption DEF Clocks, Horizon
<1>5. Offers
  BY <1>2 DEF Offers
<1>6. \A p \in Procs : OnTheWay(p) \subseteq straggled /\ Remote(p) = {}
  <2> TAKE p \in Procs
  <2>1. OnTheWay(p) \subseteq straggled
    BY DEF Init
  <2>2. \A e \in g_eq[p] : e.from = p
    BY DEF Init, InitEvent
  <2> QED BY <2>1, <2>2 DEF Remote
<1>7. Counted /\ OnTime
  BY <1>6 DEF Counted, OnTime
<1>8. Queued
  <2>1. \A p \in Procs : \A e \in g_eq[p] : e.time \in Nat
    BY <1>1 DEF TypeOK, EventInfo
  <2> QED BY <1>2, <2>1 DEF Queued
<1>9. LateOnlyIfStraggled
  BY DEF Init, LateOnlyIfStraggled
<1> QED BY <1>1, <1>3, <1>4, <1>5, <1>7, <1>8, <1>9 DEF IInv

\* The outcome of a reduction is a time that somebody offered.
LEMMA ReduceSplit ==
  ASSUME TypeOK, NEW p \in Procs, Reduce(p)
  PROVE  \E t \in Nat : NextWindow(p, t) \/ Quit(p, t)
<1>1. PICK t \in {offered[q][window[p]] : q \in {q \in Procs : Reduced(p)}} :
        NextWindow(p, t) \/ Quit(p, t)
  BY DEF Reduce
<1>2. PICK q \in Procs : Reduced(p) /\ t = offered[q][window[p]]
  BY <1>1
<1>3. offered[q] \in Seq(Nat) /\ window[p] \in Nat \ {0} /\ Len(offered[q]) >= window[p]
  BY <1>2 DEF TypeOK, Reduced
<1>4. t \in Nat
  BY <1>2, <1>3
<1> QED BY <1>1, <1>4

\* The threads of one process take turns with those of the others: a step
\* that changes no event, no time and no phase keeps the invariant.
LEMMA RestInv ==
  ASSUME IInv, TypeOK', NEW p \in Procs,
         \/ SendReturns(p) \/ Executed(p) \/ Join(p) \/ \E q \in Procs : Receive(p, q)
         \/ UNCHANGED vars
  PROVE  IInv'
<1>1. UNCHANGED <<window, base_time, offered, g_time_now, g_time_next_sent, g_eq,
                  straggled, late>>
  BY DEF SendReturns, Executed, Join, Receive, vars, threads
<1>2. \A q \in Procs : OnTheWay(q)' \subseteq OnTheWay(q)
  <2>1. CASE \E q \in Procs : Receive(p, q)
    BY <2>1, OnTheWayReceive DEF IInv
  <2>2. CASE UNCHANGED <<transit, received>>
    BY <2>2, OnTheWaySame
  <2> QED BY <2>1, <2>2 DEF SendReturns, Executed, Join, vars, threads
<1>3. \A q \in Procs : /\ Busy(q)' <=> Busy(q)
                       /\ Running(q)' <=> Running(q)
                       /\ pc'[q] = "reduce" <=> pc[q] = "reduce"
  <2>1. CASE pc' = pc
    BY <2>1 DEF Busy, Running
  <2>2. CASE Executed(p) \/ Join(p)
    BY <2>2 DEF Executed, Join, Busy, Running, IInv, TypeOK
  <2> QED BY <2>1, <2>2 DEF SendReturns, Receive, vars, threads
<1> QED BY <1>1, <1>2, <1>3, FrameInv

LEMMA NextType == TypeOK /\ [Next]_vars => TypeOK'
<1> SUFFICES ASSUME TypeOK, [Next]_vars PROVE TypeOK'
  OBVIOUS
<1>1. CASE UNCHANGED vars
  BY <1>1 DEF TypeOK, vars, threads
<1>2. CASE Next
  <2>1. PICK p \in Procs : Main(p) \/ Send(p) \/ Listen(p)
    BY <1>2 DEF Next
  <2>2. CASE Pop(p) \/ PopBeyondEnd(p) \/ EndWindow(p)
    BY <2>2, MainType
  <2>3. CASE SendReturns(p)
    BY <2>3 DEF TypeOK, SendReturns
  <2>4. CASE Executed(p) \/ Join(p)
    BY <2>4 DEF TypeOK, Executed, Join
  <2>5. CASE Reduce(p)
    BY <2>5, ReduceSplit, ReduceType
  <2>6. CASE Send(p)
    BY <2>6, SendType DEF Send
  <2>7. CASE Listen(p)
    BY <2>7, ListenType
  <2> QED BY <2>1, <2>2, <2>3, <2>4, <2>5, <2>6, <2>7 DEF Main
<1> QED BY <1>1, <1>2

LEMMA NextInv == IInv /\ [Next]_vars => IInv'
<1> SUFFICES ASSUME IInv, [Next]_vars PROVE IInv'
  OBVIOUS
<1>1. TypeOK /\ TypeOK'
  BY NextType DEF IInv
<1>2. CASE UNCHANGED vars
  <2>1. PICK p : p \in Procs
    BY EngineAssumption
  <2> QED BY <1>1, <1>2, <2>1, RestInv
<1>3. CASE Next
  <2>1. PICK p \in Procs : Main(p) \/ Send(p) \/ Listen(p)
    BY <1>3 DEF Next
  <2>2. CASE Pop(p)
    BY <1>1, <2>2, PopInv
  <2>3. CASE PopBeyondEnd(p) \/ EndWindow(p)
    BY <1>1, <2>3, EndInv
  <2>4. CASE SendReturns(p) \/ Executed(p) \/ Join(p) \/ \E q \in Procs : Receive(p, q)
    BY <1>1, <2>4, RestInv
  <2>5. CASE Reduce(p)
    BY <1>1, <2>5, ReduceSplit, NextWindowInv, QuitInv
  <2>6. CASE Send(p)
    BY <1>1, <2>6, SendLocalInv, SendRemoteInv DEF Send
  <2>7. CASE Push(p)
    BY <1>1, <2>7, PushInv
  <2> QED BY <2>1, <2>2, <2>3, <2>4, <2>5, <2>6, <2>7 DEF Main, Listen
<1> QED BY <1>2, <1>3

LEMMA SpecInv == Spec => []IInv
BY InitInv, NextInv, PTL DEF Spec

\* Every variable of the engine keeps its type.
THEOREM TypeCorrect == Spec => []TypeOK
<1>1. IInv => TypeOK
  BY DEF IInv
<1> QED BY <1>1, SpecInv, PTL

\* For any processes, delays and events: an event is executed after its time
\* only if it was still on its way when its receiver opened the window after
\* the one it was sent in.
THEOREM LateOnlyIfStraggledAlways == Spec => []LateOnlyIfStraggled
<1>1. IInv => LateOnlyIfStraggled
  BY DEF IInv
<1> QED BY <1>1, SpecInv, PTL

\* A process that leaves the loop leaves nothing behind that belongs before
\* the end of the simulation, but for stragglers.
THEOREM NothingLeftAlways == Spec => []NothingLeft
<1>1. IInv => NothingLeft
  <2> SUFFICES ASSUME IInv, NEW p \in Procs, pc[p] \in {"quit", "finished"},
                      NEW e \in g_eq[p] \cup OnTheWay(p), e \notin straggled
               PROVE  e.time > g_time_end
    BY DEF NothingLeft
  <2>1. ~Running(p)
    BY DEF Running
  <2> QED BY <2>1 DEF IInv, OnTime, Queued
<1> QED BY <1>1, SpecInv, PTL

\* Each reduction moves every process on by MINDELAY, or beyond the end.
THEOREM WindowsAdvanceAlways == Spec => WindowsAdvance
<1> DEFINE A == \A p \in Procs : base_time'[p] # base_time[p] =>
                  base_time'[p] >= MinOf(base_time[p] + MINDELAY, g_time_end + 1)
<1>1. IInv /\ [Next]_vars => [A]_vars
  <2> SUFFICES ASSUME IInv, Next, NEW p \in Procs, base_time'[p] # base_time[p]
               PROVE  base_time'[p] >= Horizon(p)
    BY DEF Horizon
  <2>1. PICK q \in Procs : Main(q) \/ Send(q) \/ Listen(q)
    BY DEF Next
  <2>2. Reduce(q)
    BY <2>1 DEF Main, Send, Listen, Pop, PopBeyondEnd, EndWindow, SendReturns, Executed,
                Join, SendLocal, SendRemote, Push, Receive, threads
  <2>3. PICK t \in Nat : NextWindow(q, t) \/ Quit(q, t)
    BY <2>2, ReduceSplit DEF IInv
  <2>4. /\ pc[q] = "reduce" /\ Reduced(q) /\ IsMinimum(q, t)
        /\ base_time' = [base_time EXCEPT ![q] = t]
    BY <2>3 DEF NextWindow, Quit
  <2>5. base_time'[p] = IF p = q THEN t ELSE base_time[p]
    BY <2>4 DEF IInv, TypeOK
  <2>6. p = q /\ base_time'[p] = t
    BY <2>5
  <2>7. PICK r \in Procs : offered[r][window[p]] = t
    BY <2>4, <2>6 DEF IsMinimum
  <2>8. Running(p) /\ Len(offered[r]) >= window[p]
    BY <2>4, <2>6 DEF Running, Reduced
  <2> QED BY <2>6, <2>7, <2>8 DEF IInv, Offers
<1> QED BY <1>1, SpecInv, PTL DEF Spec, WindowsAdvance

=============================================================================
