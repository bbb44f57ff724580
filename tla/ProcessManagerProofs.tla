------------------------- MODULE ProcessManagerProofs -------------------------
(***************************************************************************)
(* Whatever programs do, for any number of processes and cores, the tables *)
(* keep their types and no core of the operating system is idle while a    *)
(* process waits for it.  Careful programs never make the simulation exit, *)
(* each process that needs a place has one, and each that expects a        *)
(* message.                                                                *)
(*                                                                         *)
(* The handlers are operators on the tables, so there is one lemma for     *)
(* each of them and each invariant (Good, Typed, Fit), in the order in     *)
(* which they call each other, and an action preserves an invariant        *)
(* because it is made of them.                                             *)
(***************************************************************************)
EXTENDS ProcessManager, FiniteSetTheorems, WellFoundedInduction, TLAPS

Fields == {"status", "waitingon", "children", "resource", "holder", "process_queue",
           "ready_processes", "messages", "running", "failed"}

Good(S) ==
  /\ DOMAIN S = Fields
  /\ S.holder \in [Cores -> OSProcess \cup {None}]
  /\ S.process_queue \in [Cores -> Seq(OSProcess)]
  /\ S.ready_processes \in Seq(OSProcess)
  /\ \A c \in Cores : S.holder[c] = None =>
       S.ready_processes = <<>> /\ S.process_queue[c] = <<>>

-----------------------------------------------------------------------------
(* Induction over the natural numbers, in the form of sets: a set that      *)
(* contains 0 and with every number its successor contains them all.        *)

LEMMA SetInduction ==
  ASSUME NEW G, 0 \in G, \A n \in Nat : n \in G => n + 1 \in G
  PROVE  Nat \subseteq G
<1> SUFFICES ASSUME Nat \ G # {} PROVE FALSE
  OBVIOUS
<1>1. \E x \in Nat \ G : \A y \in Nat \ G : ~ (<<y, x>> \in OpToRel(<, Nat))
  BY WFMin, NatLessThanWellFounded
<1>2. PICK x \in Nat \ G : \A y \in Nat \ G : ~ (<<y, x>> \in OpToRel(<, Nat))
  BY <1>1
<1>3. x # 0 /\ x - 1 \in Nat
  OBVIOUS
<1>4. x - 1 \notin G
  <2>1. x - 1 \in G => (x - 1) + 1 \in G
    BY <1>3
  <2>2. (x - 1) + 1 = x
    BY <1>3
  <2> QED BY <2>1, <2>2
<1>5. <<x - 1, x>> \in OpToRel(<, Nat)
  BY <1>3 DEF OpToRel
<1> QED BY <1>2, <1>3, <1>4, <1>5

\* The same for an initial segment.
LEMMA SegmentInduction ==
  ASSUME NEW n \in Nat, NEW G, 0 \in G, \A i \in 1 .. n : i - 1 \in G => i \in G
  PROVE  n \in G
<1> DEFINE H == {i \in Nat : i <= n => i \in G}
<1>1. 0 \in H
  OBVIOUS
<1>2. ASSUME NEW i \in Nat, i \in H PROVE i + 1 \in H
  <2> SUFFICES ASSUME i + 1 <= n PROVE i + 1 \in G
    OBVIOUS
  <2>1. i \in G /\ i + 1 \in 1 .. n
    BY <1>2
  <2>2. (i + 1) - 1 = i
    OBVIOUS
  <2> QED BY <2>1, <2>2
<1>3. Nat \subseteq H
  <2> HIDE DEF H
  <2> QED BY <1>1, <1>2, SetInduction
<1> QED BY <1>3

LEMMA LeastElement ==
  ASSUME NEW C, C \subseteq Nat, C # {}
  PROVE  \E m \in C : \A y \in C : m <= y
<1>1. PICK m \in C : \A y \in C : ~ (<<y, m>> \in OpToRel(<, Nat))
  BY WFMin, NatLessThanWellFounded
<1>2. \A y \in C : m <= y
  <2> SUFFICES ASSUME NEW y \in C, y < m PROVE FALSE
    OBVIOUS
  <2>1. y \in Nat /\ m \in Nat
    OBVIOUS
  <2>2. <<y, m>> \in OpToRel(<, Nat)
    BY <2>1 DEF OpToRel
  <2> QED BY <1>1, <2>2
<1> QED BY <1>2

\* The first of some cores.
LEMMA FirstIs ==
  ASSUME NEW C, C \subseteq Nat, C # {}
  PROVE  First(C) \in C
BY LeastElement DEF First

-----------------------------------------------------------------------------
(* Sequences.                                                               *)

LEMMA RemoveAtFacts ==
  ASSUME NEW X, NEW s \in Seq(X), NEW i \in 1 .. Len(s)
  PROVE  /\ RemoveAt(s, i) \in Seq(X) /\ DOMAIN RemoveAt(s, i) = 1 .. (Len(s) - 1)
         /\ \A j \in 1 .. (Len(s) - 1) : RemoveAt(s, i)[j] = IF j < i THEN s[j] ELSE s[j + 1]
<1> DEFINE a == SubSeq(s, 1, i - 1)
           b == SubSeq(s, i + 1, Len(s))
<1>1. a \in Seq(X) /\ Len(a) = i - 1 /\ \A j \in 1 .. (i - 1) : a[j] = s[j]
  OBVIOUS
<1>2. b \in Seq(X) /\ Len(b) = Len(s) - i /\ \A j \in 1 .. (Len(s) - i) : b[j] = s[i + j]
  OBVIOUS
<1>3. RemoveAt(s, i) = a \o b
  BY DEF RemoveAt
<1> HIDE DEF a, b
<1>4. a \o b \in Seq(X) /\ DOMAIN (a \o b) = 1 .. (Len(s) - 1)
  <2>1. a \in Seq(X) /\ b \in Seq(X)
    BY <1>1, <1>2
  <2>2. a \o b \in Seq(X) /\ Len(a \o b) = Len(a) + Len(b)
    BY <2>1
  <2>3. Len(a) + Len(b) = Len(s) - 1
    BY <1>1, <1>2
  <2> QED BY <2>2, <2>3
<1>5. ASSUME NEW j \in 1 .. (Len(s) - 1)
      PROVE  (a \o b)[j] = IF j < i THEN s[j] ELSE s[j + 1]
  <2>1. CASE j < i
    <3>1. j \in 1 .. (i - 1)
      BY <2>1
    <3>2. (a \o b)[j] = a[j]
      BY <1>1, <1>2, <3>1
    <3> QED BY <1>1, <2>1, <3>1, <3>2
  <2>2. CASE ~(j < i)
    <3>1. j - (i - 1) \in 1 .. (Len(s) - i) /\ j \in (Len(a) + 1) .. (Len(a) + Len(b))
      BY <1>1, <1>2, <2>2
    <3>2. (a \o b)[j] = b[j - (i - 1)]
      BY <1>1, <1>2, <3>1
    <3>3. i + (j - (i - 1)) = j + 1
      OBVIOUS
    <3> QED BY <1>2, <2>2, <3>1, <3>2, <3>3
  <2> QED BY <2>1, <2>2
<1> QED BY <1>3, <1>4, <1>5

LEMMA InsertAtFacts ==
  ASSUME NEW X, NEW s \in Seq(X), NEW i \in 1 .. (Len(s) + 1), NEW e \in X
  PROVE  /\ InsertAt(s, i, e) \in Seq(X) /\ DOMAIN InsertAt(s, i, e) = 1 .. (Len(s) + 1)
         /\ InsertAt(s, i, e)[i] = e
         /\ \A j \in 1 .. (i - 1) : InsertAt(s, i, e)[j] = s[j]
         /\ \A j \in (i + 1) .. (Len(s) + 1) : InsertAt(s, i, e)[j] = s[j - 1]
<1> DEFINE a == SubSeq(s, 1, i - 1)
           b == SubSeq(s, i, Len(s))
           c == a \o <<e>>
<1>1. a \in Seq(X) /\ Len(a) = i - 1 /\ \A j \in 1 .. (i - 1) : a[j] = s[j]
  OBVIOUS
<1>2. b \in Seq(X) /\ Len(b) = Len(s) + 1 - i /\ \A j \in 1 .. (Len(s) + 1 - i) : b[j] = s[i + j - 1]
  OBVIOUS
<1>3. InsertAt(s, i, e) = c \o b
  BY DEF InsertAt
<1> HIDE DEF a, b
<1>4. c \in Seq(X) /\ Len(c) = i /\ c[i] = e /\ \A j \in 1 .. (i - 1) : c[j] = s[j]
  BY <1>1
<1> HIDE DEF c
<1>5. c \o b \in Seq(X) /\ DOMAIN (c \o b) = 1 .. (Len(s) + 1)
  <2>1. c \in Seq(X) /\ b \in Seq(X)
    BY <1>2, <1>4
  <2>2. c \o b \in Seq(X) /\ Len(c \o b) = Len(c) + Len(b)
    BY <2>1
  <2>3. Len(c) + Len(b) = Len(s) + 1
    BY <1>2, <1>4
  <2> QED BY <2>2, <2>3
<1>6. \A j \in 1 .. i : (c \o b)[j] = c[j]
  BY <1>2, <1>4
<1>7. ASSUME NEW j \in (i + 1) .. (Len(s) + 1) PROVE (c \o b)[j] = s[j - 1]
  <2>1. j - i \in 1 .. (Len(s) + 1 - i) /\ j \in (Len(c) + 1) .. (Len(c) + Len(b))
    BY <1>2, <1>4
  <2>2. (c \o b)[j] = b[j - i]
    BY <1>2, <1>4, <2>1
  <2>3. i + (j - i) - 1 = j - 1
    OBVIOUS
  <2> QED BY <1>2, <2>1, <2>2, <2>3
<1> QED BY <1>3, <1>4, <1>5, <1>6, <1>7

LEMMA FirstIndex ==
  ASSUME NEW X, NEW s \in Seq(X), NEW x, Contains(s, x)
  PROVE  \E i \in 1 .. Len(s) : s[i] = x /\ RemoveFirst(s, x) = RemoveAt(s, i)
<1> DEFINE I == {k \in 1 .. Len(s) : s[k] = x}
<1>1. I \subseteq Nat /\ I # {}
  BY DEF Contains
<1>2. PICK m \in I : \A y \in I : m <= y
  <2> HIDE DEF I
  <2> QED BY <1>1, LeastElement
<1>3. Min(I) \in I
  BY <1>2 DEF Min
<1>4. RemoveFirst(s, x) = RemoveAt(s, Min(I))
  BY <1>1 DEF RemoveFirst, SelectInSeq
<1> QED BY <1>3, <1>4

LEMMA RemoveFirstType ==
  ASSUME NEW X, NEW s \in Seq(X), NEW e
  PROVE  RemoveFirst(s, e) \in Seq(X)
<1>1. CASE ~Contains(s, e)
  BY <1>1 DEF RemoveFirst, Contains
<1>2. CASE Contains(s, e)
  BY <1>2, FirstIndex, RemoveAtFacts
<1> QED BY <1>1, <1>2

\* A list in which nothing occurs twice, and what it holds.
LEMMA ListRemove ==
  ASSUME NEW X, NEW s \in Seq(X), IsInjective(s), NEW x, Contains(s, x)
  PROVE  /\ IsInjective(RemoveFirst(s, x))
         /\ \A y : Contains(RemoveFirst(s, x), y) <=> Contains(s, y) /\ y # x
<1>1. PICK i \in 1 .. Len(s) : s[i] = x /\ RemoveFirst(s, x) = RemoveAt(s, i)
  BY FirstIndex
<1> DEFINE r == RemoveAt(s, i)
<1>2. /\ r \in Seq(X) /\ DOMAIN r = 1 .. (Len(s) - 1) /\ Len(r) = Len(s) - 1
      /\ \A j \in 1 .. (Len(s) - 1) : r[j] = IF j < i THEN s[j] ELSE s[j + 1]
  BY RemoveAtFacts
<1> HIDE DEF r
<1>3. IsInjective(r)
  <2> SUFFICES ASSUME NEW j \in 1 .. (Len(s) - 1), NEW k \in 1 .. (Len(s) - 1), r[j] = r[k]
               PROVE  j = k
    BY <1>2 DEF IsInjective
  <2> DEFINE At(n) == IF n < i THEN n ELSE n + 1
  <2>1. s[At(j)] = r[j] /\ s[At(k)] = r[k]
    BY <1>2
  <2>2. At(j) \in 1 .. Len(s) /\ At(k) \in 1 .. Len(s)
    OBVIOUS
  <2>3. At(j) = At(k)
    <3> HIDE DEF At
    <3> QED BY <2>1, <2>2 DEF IsInjective
  <2> QED BY <2>3
<1>4. ASSUME NEW y, Contains(r, y) PROVE Contains(s, y) /\ y # x
  <2>1. PICK j \in 1 .. (Len(s) - 1) : r[j] = y
    BY <1>2, <1>4 DEF Contains
  <2>2. \E k \in 1 .. Len(s) : s[k] = y /\ k # i
    BY <1>2, <2>1
  <2> QED BY <1>1, <2>2 DEF Contains, IsInjective
<1>5. ASSUME NEW y, Contains(s, y), y # x PROVE Contains(r, y)
  <2>1. PICK k \in 1 .. Len(s) : s[k] = y
    BY <1>5 DEF Contains
  <2>2. k # i
    BY <1>1, <1>5, <2>1
  <2>3. CASE k < i
    BY <1>2, <2>1, <2>3 DEF Contains
  <2>4. CASE k > i
    <3>1. k - 1 \in 1 .. (Len(s) - 1) /\ (k - 1) + 1 = k /\ ~(k - 1 < i)
      BY <2>4
    <3> QED BY <1>2, <2>1, <3>1 DEF Contains
  <2> QED BY <2>2, <2>3, <2>4
<1> QED BY <1>1, <1>3, <1>4, <1>5 DEF r

LEMMA ListAppend ==
  ASSUME NEW X, NEW s \in Seq(X), IsInjective(s), NEW x \in X, ~Contains(s, x)
  PROVE  /\ IsInjective(Append(s, x))
         /\ \A y : Contains(Append(s, x), y) <=> Contains(s, y) \/ y = x
<1>1. /\ DOMAIN Append(s, x) = 1 .. (Len(s) + 1) /\ Len(Append(s, x)) = Len(s) + 1
      /\ \A j \in 1 .. Len(s) : Append(s, x)[j] = s[j]
      /\ Append(s, x)[Len(s) + 1] = x
  OBVIOUS
<1>2. \A j \in 1 .. Len(s) : s[j] # x
  BY DEF Contains
<1>3. IsInjective(Append(s, x))
  BY <1>1, <1>2 DEF IsInjective
<1>4. Len(s) + 1 \in 1 .. Len(Append(s, x))
  BY <1>1
<1> QED BY <1>1, <1>3, <1>4 DEF Contains

LEMMA ListTail ==
  ASSUME NEW X, NEW s \in Seq(X), IsInjective(s), s # <<>>
  PROVE  /\ Tail(s) \in Seq(X) /\ IsInjective(Tail(s)) /\ Head(s) \in X /\ Contains(s, Head(s))
         /\ \A y : Contains(Tail(s), y) <=> Contains(s, y) /\ y # Head(s)
<1> DEFINE r == Tail(s)
<1>1. /\ r \in Seq(X) /\ DOMAIN r = 1 .. (Len(s) - 1) /\ Len(r) = Len(s) - 1
      /\ Head(s) = s[1] /\ 1 \in 1 .. Len(s)
      /\ \A j \in 1 .. (Len(s) - 1) : r[j] = s[j + 1] /\ j + 1 \in 1 .. Len(s) /\ j + 1 # 1
  OBVIOUS
<1> HIDE DEF r
<1>2. IsInjective(r)
  <2> SUFFICES ASSUME NEW j \in 1 .. (Len(s) - 1), NEW k \in 1 .. (Len(s) - 1), r[j] = r[k]
               PROVE  j = k
    BY <1>1 DEF IsInjective
  <2>1. s[j + 1] = s[k + 1] /\ j + 1 \in DOMAIN s /\ k + 1 \in DOMAIN s
    BY <1>1
  <2>2. j + 1 = k + 1
    BY <2>1 DEF IsInjective
  <2> QED BY <2>2
<1>3. ASSUME NEW y, Contains(s, y), y # s[1] PROVE Contains(r, y)
  <2>1. PICK k \in 1 .. Len(s) : s[k] = y
    BY <1>3 DEF Contains
  <2>2. k - 1 \in 1 .. (Len(s) - 1) /\ (k - 1) + 1 = k
    BY <1>3, <2>1
  <2> QED BY <1>1, <2>1, <2>2 DEF Contains
<1>4. ASSUME NEW y, Contains(r, y) PROVE Contains(s, y) /\ y # s[1]
  BY <1>1, <1>4 DEF Contains, IsInjective
<1> QED BY <1>1, <1>2, <1>3, <1>4 DEF Contains, r

-----------------------------------------------------------------------------
(* The operators.                                                           *)

\* The queues and the cores are all that matters.
LEMMA SameQueues ==
  ASSUME NEW S, NEW T, Good(S), DOMAIN T = Fields, T.holder = S.holder,
         T.process_queue = S.process_queue, T.ready_processes = S.ready_processes
  PROVE  Good(T)
BY DEF Good

LEMMA FailGood ==
  ASSUME NEW S, NEW why, Good(S) PROVE Good(Fail(S, why))
<1> DEFINE T == Fail(S, why)
<1>1. /\ DOMAIN T = Fields /\ T.holder = S.holder
      /\ T.process_queue = S.process_queue /\ T.ready_processes = S.ready_processes
  BY DEF Good, Fail, Fields
<1> HIDE DEF T
<1> QED BY <1>1, SameQueues DEF T

LEMMA StatusGood ==
  ASSUME NEW S, NEW p, NEW st, Good(S) PROVE Good([S EXCEPT !.status[p] = st])
<1> DEFINE T == [S EXCEPT !.status[p] = st]
<1>1. /\ DOMAIN T = Fields /\ T.holder = S.holder
      /\ T.process_queue = S.process_queue /\ T.ready_processes = S.ready_processes
  BY DEF Good, Fields
<1> HIDE DEF T
<1> QED BY <1>1, SameQueues DEF T

LEMMA RunningGood ==
  ASSUME NEW S, NEW p, Good(S) PROVE Good([S EXCEPT !.running = p])
<1> DEFINE T == [S EXCEPT !.running = p]
<1>1. /\ DOMAIN T = Fields /\ T.holder = S.holder
      /\ T.process_queue = S.process_queue /\ T.ready_processes = S.ready_processes
  BY DEF Good, Fields
<1> HIDE DEF T
<1> QED BY <1>1, SameQueues DEF T

LEMMA SendGood ==
  ASSUME NEW S, NEW p, NEW w, NEW d, Good(S) PROVE Good(Send(S, p, w, d))
<1> DEFINE T == Send(S, p, w, d)
<1>1. /\ DOMAIN T = Fields /\ T.holder = S.holder
      /\ T.process_queue = S.process_queue /\ T.ready_processes = S.ready_processes
  BY DEF Good, Send, Fields
<1> HIDE DEF T
<1> QED BY <1>1, SameQueues DEF T

LEMMA SleepGood ==
  ASSUME NEW S, NEW p, NEW d, Good(S) PROVE Good(proc_sleep(S, p, d))
<1>1. Good([Send(S, p, TRUE, d) EXCEPT !.status[p] = "sleep"])
  BY SendGood, StatusGood
<1> QED BY <1>1, FailGood DEF proc_sleep

\* A core that is given up stays idle only if nobody waits for it.
LEMMA FreeGood ==
  ASSUME NEW S, NEW p, Good(S) PROVE Good(free_resource(S, p))
<1> DEFINE c == S.resource[p]
           freed == [S EXCEPT !.resource[p] = None, !.holder[c] = None]
           Given(T, q) == [T EXCEPT !.resource[q] = c, !.holder[c] = q]
           own == [freed EXCEPT !.process_queue[c] = Tail(@)]
           main == [freed EXCEPT !.ready_processes = Tail(@)]
<1>1. CASE S.process_queue[c] # <<>>
  <2> DEFINE q == Head(S.process_queue[c])
             T == Given(own, q)
  <2>1. CASE c \in Cores
    <3>1. q \in OSProcess /\ Tail(S.process_queue[c]) \in Seq(OSProcess)
      BY <1>1, <2>1 DEF Good
    <3>2. /\ DOMAIN T = Fields
          /\ T.holder = [S.holder EXCEPT ![c] = q]
          /\ T.process_queue = [S.process_queue EXCEPT ![c] = Tail(S.process_queue[c])]
          /\ T.ready_processes = S.ready_processes
      BY <2>1 DEF Good, Fields
    <3>3. Good(T)
      <4> HIDE DEF T, q
      <4> QED BY <2>1, <3>1, <3>2, ProcessAssumption DEF Good
    <3> QED BY <1>1, <3>3, SleepGood DEF free_resource
  <2>2. CASE c \notin Cores
    <3>1. /\ DOMAIN T = Fields
          /\ T.holder = S.holder /\ T.process_queue = S.process_queue
          /\ T.ready_processes = S.ready_processes
      BY <2>2 DEF Good, Fields
    <3>2. Good(T)
      <4> HIDE DEF T
      <4> QED BY <3>1, SameQueues
    <3> QED BY <1>1, <3>2, SleepGood DEF free_resource
  <2> QED BY <2>1, <2>2
<1>2. CASE S.process_queue[c] = <<>> /\ S.ready_processes # <<>>
  <2> DEFINE q == Head(S.ready_processes)
             T == Given(main, q)
  <2>1. q \in OSProcess /\ Tail(S.ready_processes) \in Seq(OSProcess)
    BY <1>2 DEF Good
  <2>2. /\ DOMAIN T = Fields
        /\ T.holder = [S.holder EXCEPT ![c] = q]
        /\ T.process_queue = S.process_queue
        /\ T.ready_processes = Tail(S.ready_processes)
    BY DEF Good, Fields
  <2>3. Good(T)
    <3> HIDE DEF T, q
    <3> QED BY <1>2, <2>1, <2>2, ProcessAssumption DEF Good
  <2> QED BY <1>2, <2>3, SleepGood DEF free_resource
<1>3. CASE S.process_queue[c] = <<>> /\ S.ready_processes = <<>>
  <2>1. /\ DOMAIN freed = Fields
        /\ freed.holder = [S.holder EXCEPT ![c] = None]
        /\ freed.process_queue = S.process_queue
        /\ freed.ready_processes = S.ready_processes
    BY DEF Good, Fields
  <2>2. Good(freed)
    <3> HIDE DEF freed
    <3> QED BY <1>3, <2>1 DEF Good
  <2> QED BY <1>3, <2>2 DEF free_resource
<1> QED BY <1>1, <1>2, <1>3

LEMMA EndGood ==
  ASSUME NEW S, NEW p, Good(S) PROVE Good(end_process(S, p))
<1>1. CASE S.resource[p] # None
  BY <1>1, FreeGood DEF end_process
<1>2. CASE S.resource[p] = None /\ S.status[p] = "waitfor"
  BY <1>2 DEF end_process
<1>3. CASE /\ S.resource[p] = None /\ S.status[p] # "waitfor"
           /\ Contains(S.ready_processes, p)
  <2> DEFINE T == [S EXCEPT !.ready_processes = RemoveFirst(@, p)]
  <2>1. /\ DOMAIN T = Fields /\ T.holder = S.holder
        /\ T.process_queue = S.process_queue
        /\ T.ready_processes = RemoveFirst(S.ready_processes, p)
    BY DEF Good, Fields
  <2>2. RemoveFirst(S.ready_processes, p) \in Seq(OSProcess)
    BY RemoveFirstType DEF Good
  <2>3. S.ready_processes # <<>>
    BY <1>3 DEF Contains
  <2>4. Good(T)
    <3> HIDE DEF T
    <3> QED BY <2>1, <2>2, <2>3 DEF Good
  <2> QED BY <1>3, <2>4 DEF end_process
<1>4. CASE /\ S.resource[p] = None /\ S.status[p] # "waitfor"
           /\ ~ Contains(S.ready_processes, p) /\ Queued(S, p) # {}
  <2> DEFINE c == First(Queued(S, p))
             T == [S EXCEPT !.process_queue[c] = RemoveFirst(@, p)]
  <2>1. PICK m \in Queued(S, p) : \A y \in Queued(S, p) : ~ (<<y, m>> \in OpToRel(<, Nat))
    <3>1. Queued(S, p) \subseteq Nat
      BY ProcessAssumption DEF Queued
    <3> QED BY <1>4, <3>1, WFMin, NatLessThanWellFounded
  <2>2. \A y \in Queued(S, p) : m <= y
    <3> SUFFICES ASSUME NEW y \in Queued(S, p), y < m PROVE FALSE
      BY ProcessAssumption DEF Queued
    <3>1. y \in Nat /\ m \in Nat
      BY ProcessAssumption DEF Queued
    <3>2. <<y, m>> \in OpToRel(<, Nat)
      BY <3>1 DEF OpToRel
    <3> QED BY <2>1, <3>2
  <2>3. c \in Queued(S, p)
    BY <2>2 DEF First
  <2>4. c \in Cores /\ S.process_queue[c] # <<>>
    <3> HIDE DEF c
    <3>1. c \in Cores /\ Contains(S.process_queue[c], p)
      BY <2>3 DEF Queued
    <3>2. S.process_queue[c] # <<>>
      BY <3>1 DEF Contains
    <3> QED BY <3>1, <3>2
  <2>5. /\ DOMAIN T = Fields /\ T.holder = S.holder
        /\ T.process_queue = [S.process_queue EXCEPT ![c] = RemoveFirst(S.process_queue[c], p)]
        /\ T.ready_processes = S.ready_processes
    BY <2>4 DEF Good, Fields
  <2>6. RemoveFirst(S.process_queue[c], p) \in Seq(OSProcess)
    BY <2>4, RemoveFirstType DEF Good
  <2>7. Good(T)
    <3> HIDE DEF T, c
    <3> QED BY <2>4, <2>5, <2>6 DEF Good
  <2> QED BY <1>4, <2>7 DEF end_process
<1>5. CASE /\ S.resource[p] = None /\ S.status[p] # "waitfor"
           /\ ~ Contains(S.ready_processes, p) /\ Queued(S, p) = {}
  BY <1>5, FailGood DEF end_process
<1> QED BY <1>1, <1>2, <1>3, <1>4, <1>5

\* A process waits in a queue only if no core that it could have is idle.
LEMMA AssignGood ==
  ASSUME NEW S, NEW p \in OSProcess, Good(S) PROVE Good(assign_process(S, p))
<1> DEFINE idle == {c \in Cores : S.holder[c] = None}
           Taken(c) == [S EXCEPT !.holder[c] = p, !.resource[p] = c, !.running = p]
<1>1. ASSUME NEW c \in Cores PROVE Good(Taken(c))
  <2> DEFINE T == Taken(c)
  <2>1. /\ DOMAIN T = Fields /\ T.holder = [S.holder EXCEPT ![c] = p]
        /\ T.process_queue = S.process_queue /\ T.ready_processes = S.ready_processes
    BY DEF Good, Fields
  <2>2. p # None
    BY ProcessAssumption
  <2> HIDE DEF T
  <2>3. Good(T)
    BY <2>1, <2>2 DEF Good
  <2> QED BY <2>3 DEF T
<1>2. CASE S.resource[p] # None
  BY <1>2, RunningGood DEF assign_process
<1>3. CASE S.resource[p] = None /\ req_res[p] # None
  <2> DEFINE c == req_res[p]
  <2>1. c \in Cores
    BY <1>3, ProcessAssumption
  <2>2. CASE c \in idle
    BY <1>1, <1>3, <2>1, <2>2 DEF assign_process
  <2>3. CASE c \notin idle
    <3> DEFINE T == [S EXCEPT !.process_queue[c] = Append(@, p)]
    <3>1. /\ DOMAIN T = Fields /\ T.holder = S.holder
          /\ T.process_queue = [S.process_queue EXCEPT ![c] = Append(S.process_queue[c], p)]
          /\ T.ready_processes = S.ready_processes
      BY <2>1 DEF Good, Fields
    <3>2. Append(S.process_queue[c], p) \in Seq(OSProcess)
      BY <2>1 DEF Good
    <3>3. S.holder[c] # None
      BY <2>1, <2>3
    <3>4. Good(T)
      <4> HIDE DEF T, c
      <4> QED BY <2>1, <3>1, <3>2, <3>3 DEF Good
    <3> QED BY <1>3, <2>1, <2>3, <3>4 DEF assign_process
  <2> QED BY <2>2, <2>3
<1>4. CASE S.resource[p] = None /\ req_res[p] = None /\ S.ready_processes = <<>> /\ idle # {}
  <2>1. PICK m \in idle : \A y \in idle : ~ (<<y, m>> \in OpToRel(<, Nat))
    <3>1. idle \subseteq Nat
      BY ProcessAssumption
    <3> HIDE DEF idle
    <3> QED BY <1>4, <3>1, WFMin, NatLessThanWellFounded
  <2>2. \A y \in idle : m <= y
    <3> SUFFICES ASSUME NEW y \in idle, y < m PROVE FALSE
      BY ProcessAssumption
    <3>1. y \in Nat /\ m \in Nat
      BY ProcessAssumption
    <3>2. <<y, m>> \in OpToRel(<, Nat)
      BY <3>1 DEF OpToRel
    <3> QED BY <2>1, <3>2
  <2>3. First(idle) \in idle
    BY <2>2 DEF First
  <2>4. First(idle) \in Cores
    BY <2>3
  <2> QED BY <1>1, <1>4, <2>4 DEF assign_process
<1>5. CASE /\ S.resource[p] = None /\ req_res[p] = None
           /\ ~ (S.ready_processes = <<>> /\ idle # {})
  <2> DEFINE T == [S EXCEPT !.ready_processes = Append(@, p)]
  <2>1. /\ DOMAIN T = Fields /\ T.holder = S.holder
        /\ T.process_queue = S.process_queue
        /\ T.ready_processes = Append(S.ready_processes, p)
    BY DEF Good, Fields
  <2>2. Append(S.ready_processes, p) \in Seq(OSProcess)
    BY DEF Good
  <2>3. \A c \in Cores : S.holder[c] # None
    BY <1>5 DEF Good
  <2>4. Good(T)
    <3> HIDE DEF T
    <3> QED BY <2>1, <2>2, <2>3 DEF Good
  <2> QED BY <1>5, <2>4 DEF assign_process
<1> QED BY <1>2, <1>3, <1>4, <1>5

LEMMA ResumeGood ==
  ASSUME NEW S, NEW p, Good(S) PROVE Good(Resume(S, p))
<1> DEFINE A == [S EXCEPT !.status[p] = "active"]
<1>1. Good(A)
  BY StatusGood
<1> HIDE DEF A
<1>2. CASE p \in OSProcess
  <2>1. Resume(S, p) = assign_process(A, p)
    BY <1>2 DEF Resume, A
  <2> QED BY <1>1, <1>2, <2>1, AssignGood
<1>3. CASE p \notin OSProcess
  <2>1. Resume(S, p) = [A EXCEPT !.running = p]
    BY <1>3 DEF Resume, A
  <2> QED BY <1>1, <2>1, RunningGood
<1> QED BY <1>2, <1>3

LEMMA SwitchGood ==
  ASSUME NEW S, NEW p, Good(S) PROVE Good(proc_switch(S, p))
BY ResumeGood DEF proc_switch

LEMMA DeactivateGood ==
  ASSUME NEW S, NEW p, Good(S) PROVE Good(proc_deactivate(S, p))
<1>1. CASE p \in OSProcess
  <2>1. proc_deactivate(S, p) = [end_process(S, p) EXCEPT !.status[p] = "inactive"]
    BY <1>1 DEF proc_deactivate
  <2> QED BY <2>1, EndGood, StatusGood
<1>2. CASE p \notin OSProcess
  <2>1. proc_deactivate(S, p) = [S EXCEPT !.status[p] = "inactive"]
    BY <1>2 DEF proc_deactivate
  <2> QED BY <2>1, StatusGood
<1> QED BY <1>1, <1>2

LEMMA NewGood ==
  ASSUME NEW S, NEW q, NEW parent, NEW waiter, Good(S)
  PROVE  Good(proc_new(S, q, parent, waiter))
<1> DEFINE T == [S EXCEPT !.status[q] = "scheduled", !.waitingon[q] = waiter,
                          !.children[q] = <<>>]
           U == [T EXCEPT !.children[parent] = Append(@, q)]
<1>1. Good(T)
  <2>1. /\ DOMAIN T = Fields /\ T.holder = S.holder
        /\ T.process_queue = S.process_queue /\ T.ready_processes = S.ready_processes
    BY DEF Good, Fields
  <2> HIDE DEF T
  <2> QED BY <2>1, SameQueues
<1>2. Good(U)
  <2> HIDE DEF T
  <2>1. /\ DOMAIN U = Fields /\ U.holder = T.holder
        /\ U.process_queue = T.process_queue /\ U.ready_processes = T.ready_processes
    BY <1>1 DEF Good, Fields
  <2> HIDE DEF U
  <2> QED BY <1>1, <2>1, SameQueues
<1> QED BY <1>1, <1>2, FailGood DEF proc_new

LEMMA ScheduleGood ==
  ASSUME NEW S, NEW q, NEW d, NEW parent, NEW waiter, Good(S)
  PROVE  Good(proc_schedule(S, q, d, parent, waiter))
BY NewGood, SendGood, ResumeGood DEF proc_schedule

LEMMA ActivateGood ==
  ASSUME NEW S, NEW p, Good(S) PROVE Good(recv_activate(S, p))
BY FailGood, ResumeGood DEF recv_activate

LEMMA WakeupGood ==
  ASSUME NEW S, NEW p, Good(S) PROVE Good(recv_wakeup(S, p))
BY FailGood, SwitchGood DEF recv_wakeup

LEMMA WaitforGood ==
  ASSUME NEW S, NEW p, NEW q, Good(S) PROVE Good(proc_waitfor(S, p, q))
<1> DEFINE T == [S EXCEPT !.status[p] = "waitfor", !.running = None]
<1>1. Good(T)
  <2>1. /\ DOMAIN T = Fields /\ T.holder = S.holder
        /\ T.process_queue = S.process_queue /\ T.ready_processes = S.ready_processes
    BY DEF Good, Fields
  <2> HIDE DEF T
  <2> QED BY <2>1, SameQueues
<1>2. Good(proc_schedule(T, q, 0, p, p))
  <2> HIDE DEF T
  <2> QED BY <1>1, ScheduleGood
<1> QED BY <1>2, FailGood DEF proc_waitfor

LEMMA KillGood ==
  ASSUME NEW S, NEW q, Good(S) PROVE Good(proc_kill(S, q))
BY FailGood, DeactivateGood DEF proc_kill

LEMMA FinishedGood ==
  ASSUME NEW S, NEW p, Good(S) PROVE Good(Finished(S, p))
<1> DEFINE main == [S EXCEPT !.running = None]
           T == proc_deactivate(main, p)
<1>1. Good(main)
  BY RunningGood
<1>2. Good(T)
  <2> HIDE DEF main
  <2> QED BY <1>1, DeactivateGood
<1>3. Good(proc_switch(T, S.waitingon[p]))
  <2> HIDE DEF T
  <2> QED BY <1>2, SwitchGood
<1> QED BY <1>1, <1>2, <1>3 DEF Finished

-----------------------------------------------------------------------------
(* Types.  The messages are in the order of their delivery, so that no time *)
(* left becomes negative when the first is delivered.                       *)

Statuses == {"none", "scheduled", "active", "waitfor", "sleep", "inactive"}
Tables == [status : [Process -> Statuses], waitingon : [Process -> Process \cup {None}],
           children : [Process -> Seq(Process)], resource : [Process -> Cores \cup {None}],
           holder : [Cores -> OSProcess \cup {None}],
           process_queue : [Cores -> Seq(OSProcess)], ready_processes : Seq(OSProcess),
           messages : Seq(Message), running : Process \cup {None}, failed : Failures \cup {"no"}]
Sorted(ms) == \A i, j \in DOMAIN ms : i < j => ms[i].delay <= ms[j].delay
Typed(S) == S \in Tables /\ Sorted(S.messages)

LEMMA FailTyped ==
  ASSUME NEW S, NEW why \in Failures, Typed(S) PROVE Typed(Fail(S, why))
BY DEF Typed, Tables, Fail

LEMMA StatusTyped ==
  ASSUME NEW S, NEW p \in Process, NEW st \in Statuses, Typed(S)
  PROVE  Typed([S EXCEPT !.status[p] = st])
BY DEF Typed, Tables

LEMMA RunningTyped ==
  ASSUME NEW S, NEW p \in Process \cup {None}, Typed(S)
  PROVE  Typed([S EXCEPT !.running = p])
BY DEF Typed, Tables

\* A new message is delivered after those that are due at the same time.
LEMMA SendIs ==
  ASSUME NEW S, NEW p \in Process, NEW w \in BOOLEAN, NEW d \in Nat, Typed(S)
  PROVE  \E k \in 1 .. (Len(S.messages) + 1), ms \in Seq(Message) :
           /\ ms = InsertAt(S.messages, k, [pid |-> p, wakeup |-> w, delay |-> d])
           /\ Send(S, p, w, d) = [S EXCEPT !.messages = ms] /\ Sorted(ms)
<1> DEFINE M == S.messages
           e == [pid |-> p, wakeup |-> w, delay |-> d]
           I == {i \in DOMAIN M : M[i].delay <= d}
           C == {i \in 1 .. (Len(M) + 1) : i \notin I}
<1>1. M \in Seq(Message) /\ Sorted(M) /\ e \in Message
  BY DEF Typed, Tables, Message
<1> HIDE DEF M, e
<1>2. DOMAIN M = 1 .. Len(M) /\ Len(M) \in Nat /\ \A i \in 1 .. Len(M) : M[i].delay \in Nat
  <2>1. \A i \in 1 .. Len(M) : M[i] \in Message
    BY <1>1
  <2>2. \A m \in Message : m.delay \in Nat
    BY DEF Message
  <2> QED BY <1>1, <2>1, <2>2
<1>3. PICK k \in C : \A i \in C : k <= i
  <2>1. Len(M) + 1 \in C /\ C \subseteq Nat
    BY <1>2
  <2> HIDE DEF C
  <2> QED BY <2>1, LeastElement
<1>4. k \in 1 .. (Len(M) + 1) /\ k \notin I /\ k - 1 \in Nat
  BY <1>2, <1>3
<1>5. \A i \in 1 .. (k - 1) : i \in I
  <2> SUFFICES ASSUME NEW i \in 1 .. (k - 1), i \notin I PROVE FALSE
    OBVIOUS
  <2>1. i \in C /\ i < k
    BY <1>2, <1>4
  <2> QED BY <1>3, <1>4, <2>1
<1>6. ASSUME NEW i \in DOMAIN M, i >= k PROVE M[i].delay > d /\ i \notin I
  <2>1. k \in DOMAIN M /\ M[k].delay > d
    BY <1>2, <1>4, <1>6
  <2>2. M[k].delay <= M[i].delay
    BY <1>1, <1>2, <1>6, <2>1 DEF Sorted
  <2> QED BY <1>2, <2>1, <2>2
<1>7. I = 1 .. (k - 1)
  BY <1>2, <1>4, <1>5, <1>6
<1>8. Cardinality(I) = k - 1
  <2>1. Cardinality(1 .. (k - 1)) = IF 1 > k - 1 THEN 0 ELSE (k - 1) - 1 + 1
    BY <1>4, FS_Interval
  <2>2. (IF 1 > k - 1 THEN 0 ELSE (k - 1) - 1 + 1) = k - 1
    BY <1>4
  <2> QED BY <1>7, <2>1, <2>2
<1> DEFINE ms == InsertAt(M, k, e)
<1>9. /\ ms \in Seq(Message) /\ DOMAIN ms = 1 .. (Len(M) + 1) /\ ms[k] = e
      /\ \A j \in 1 .. (k - 1) : ms[j] = M[j]
      /\ \A j \in (k + 1) .. (Len(M) + 1) : ms[j] = M[j - 1]
  <2>1. M \in Seq(Message) /\ e \in Message /\ k \in 1 .. (Len(M) + 1)
    BY <1>1, <1>4
  <2> HIDE DEF C, I
  <2> QED BY <2>1, InsertAtFacts
<1>10. Send(S, p, w, d) = [S EXCEPT !.messages = ms]
  <2>1. Send(S, p, w, d) = [S EXCEPT !.messages = InsertAt(M, Cardinality(I) + 1, e)]
    BY DEF Send, M, e
  <2>2. Cardinality(I) + 1 = k
    BY <1>4, <1>8
  <2> QED BY <2>1, <2>2
<1> HIDE DEF ms
<1>11. e.delay = d
  BY DEF e
<1>12. ASSUME NEW i \in DOMAIN ms, NEW j \in DOMAIN ms, i < j PROVE ms[i].delay <= ms[j].delay
  <2>1. CASE j < k
    BY <1>1, <1>2, <1>4, <1>9, <1>12, <2>1 DEF Sorted
  <2>2. CASE j = k
    <3>1. i \in 1 .. (k - 1) /\ i \in I
      BY <1>4, <1>5, <1>9, <1>12, <2>2
    <3> QED BY <1>9, <1>11, <2>2, <3>1
  <2>3. CASE j > k /\ i < k
    <3>1. i \in 1 .. (k - 1) /\ j \in (k + 1) .. (Len(M) + 1) /\ i \in DOMAIN M /\ j - 1 \in DOMAIN M /\ i < j - 1
      BY <1>2, <1>4, <1>9, <2>3
    <3> QED BY <1>1, <1>9, <3>1 DEF Sorted
  <2>4. CASE j > k /\ i = k
    <3>1. j \in (k + 1) .. (Len(M) + 1) /\ j - 1 \in DOMAIN M /\ j - 1 >= k
      BY <1>2, <1>4, <1>9, <2>4
    <3>2. M[j - 1].delay > d
      BY <1>6, <3>1
    <3> QED BY <1>2, <1>9, <1>11, <2>4, <3>1, <3>2
  <2>5. CASE i > k
    <3>1. /\ i \in (k + 1) .. (Len(M) + 1) /\ j \in (k + 1) .. (Len(M) + 1)
          /\ i - 1 \in DOMAIN M /\ j - 1 \in DOMAIN M /\ i - 1 < j - 1
      BY <1>2, <1>4, <1>9, <1>12, <2>5
    <3> QED BY <1>1, <1>9, <3>1 DEF Sorted
  <2> QED BY <1>4, <1>9, <1>12, <2>1, <2>2, <2>3, <2>4, <2>5
<1> QED BY <1>4, <1>9, <1>10, <1>12 DEF Sorted, ms, M, e

LEMMA SendTyped ==
  ASSUME NEW S, NEW p \in Process, NEW w \in BOOLEAN, NEW d \in Nat, Typed(S)
  PROVE  Typed(Send(S, p, w, d))
<1>1. PICK k \in 1 .. (Len(S.messages) + 1), ms \in Seq(Message) :
        /\ ms = InsertAt(S.messages, k, [pid |-> p, wakeup |-> w, delay |-> d])
        /\ Send(S, p, w, d) = [S EXCEPT !.messages = ms] /\ Sorted(ms)
  BY SendIs
<1>2. [S EXCEPT !.messages = ms] \in Tables /\ [S EXCEPT !.messages = ms].messages = ms
  BY DEF Typed, Tables
<1> QED BY <1>1, <1>2 DEF Typed

LEMMA SleepTyped ==
  ASSUME NEW S, NEW p \in Process, NEW d \in Nat, Typed(S) PROVE Typed(proc_sleep(S, p, d))
<1>1. Typed(Send(S, p, TRUE, d))
  BY SendTyped
<1>2. Typed([Send(S, p, TRUE, d) EXCEPT !.status[p] = "sleep"])
  BY <1>1, StatusTyped DEF Statuses
<1> QED BY <1>2, FailTyped DEF proc_sleep, Failures

LEMMA FreeTyped ==
  ASSUME NEW S, NEW p \in Process, S.resource[p] # None, Typed(S)
  PROVE  Typed(free_resource(S, p))
<1> DEFINE c == S.resource[p]
           freed == [S EXCEPT !.resource[p] = None, !.holder[c] = None]
           Given(T, q) == [T EXCEPT !.resource[q] = c, !.holder[c] = q]
           own == [freed EXCEPT !.process_queue[c] = Tail(@)]
           main == [freed EXCEPT !.ready_processes = Tail(@)]
<1>1. c \in Cores /\ LOCAL_MINDELAY \in Nat
  BY DEF Typed, Tables, LOCAL_MINDELAY
<1>2. Typed(freed)
  BY <1>1 DEF Typed, Tables
<1>3. ASSUME NEW T, NEW q \in OSProcess, Typed(T)
      PROVE  Typed(proc_sleep(Given(T, q), q, LOCAL_MINDELAY))
  <2>1. q \in Process
    BY ProcessAssumption
  <2>2. Typed(Given(T, q))
    BY <1>1, <1>3, <2>1 DEF Typed, Tables
  <2> HIDE DEF Given
  <2> QED BY <1>1, <2>1, <2>2, SleepTyped
<1>4. CASE S.process_queue[c] # <<>>
  <2>1. Head(S.process_queue[c]) \in OSProcess /\ Tail(S.process_queue[c]) \in Seq(OSProcess)
    BY <1>1, <1>4 DEF Typed, Tables
  <2>2. freed.process_queue = S.process_queue
    BY DEF Typed, Tables
  <2>3. Typed(own)
    <3> HIDE DEF freed
    <3> QED BY <1>1, <1>2, <2>1, <2>2 DEF Typed, Tables
  <2> QED BY <1>3, <1>4, <2>1, <2>3 DEF free_resource
<1>5. CASE S.process_queue[c] = <<>> /\ S.ready_processes # <<>>
  <2>1. Head(S.ready_processes) \in OSProcess /\ Tail(S.ready_processes) \in Seq(OSProcess)
    BY <1>5 DEF Typed, Tables
  <2>2. freed.ready_processes = S.ready_processes
    BY DEF Typed, Tables
  <2>3. Typed(main)
    <3> HIDE DEF freed
    <3> QED BY <1>2, <2>1, <2>2 DEF Typed, Tables
  <2> QED BY <1>3, <1>5, <2>1, <2>3 DEF free_resource
<1>6. CASE S.process_queue[c] = <<>> /\ S.ready_processes = <<>>
  BY <1>2, <1>6 DEF free_resource
<1> QED BY <1>4, <1>5, <1>6

LEMMA EndTyped ==
  ASSUME NEW S, NEW p \in Process, Typed(S) PROVE Typed(end_process(S, p))
<1>1. CASE S.resource[p] # None
  BY <1>1, FreeTyped DEF end_process
<1>2. Typed([S EXCEPT !.ready_processes = RemoveFirst(@, p)])
  <2>1. RemoveFirst(S.ready_processes, p) \in Seq(OSProcess)
    BY RemoveFirstType DEF Typed, Tables
  <2> QED BY <2>1 DEF Typed, Tables
<1>3. ASSUME Queued(S, p) # {}
      PROVE  Typed([S EXCEPT !.process_queue[First(Queued(S, p))] = RemoveFirst(@, p)])
  <2>1. First(Queued(S, p)) \in Cores
    BY <1>3, FirstIs, ProcessAssumption DEF Queued
  <2> DEFINE c == First(Queued(S, p))
  <2> HIDE DEF c
  <2>2. RemoveFirst(S.process_queue[c], p) \in Seq(OSProcess)
    BY <2>1, RemoveFirstType DEF Typed, Tables, c
  <2>3. Typed([S EXCEPT !.process_queue[c] = RemoveFirst(@, p)])
    BY <2>1, <2>2 DEF Typed, Tables, c
  <2> QED BY <2>3 DEF c
<1> QED BY <1>1, <1>2, <1>3, FailTyped DEF end_process, Failures

LEMMA AssignTyped ==
  ASSUME NEW S, NEW p \in OSProcess, Typed(S) PROVE Typed(assign_process(S, p))
<1> DEFINE idle == {c \in Cores : S.holder[c] = None}
<1>0. p \in Process
  BY ProcessAssumption
<1>1. ASSUME NEW c \in Cores
      PROVE  /\ Typed([S EXCEPT !.holder[c] = p, !.resource[p] = c, !.running = p])
             /\ Typed([S EXCEPT !.process_queue[c] = Append(@, p)])
  <2>1. Append(S.process_queue[c], p) \in Seq(OSProcess)
    BY DEF Typed, Tables
  <2> QED BY <1>0, <2>1 DEF Typed, Tables
<1>2. Typed([S EXCEPT !.ready_processes = Append(@, p)])
  <2>1. Append(S.ready_processes, p) \in Seq(OSProcess)
    BY DEF Typed, Tables
  <2> QED BY <2>1 DEF Typed, Tables
<1>3. idle # {} => First(idle) \in Cores
  <2>1. idle \subseteq Cores /\ Cores \subseteq Nat
    BY ProcessAssumption
  <2> HIDE DEF idle
  <2> QED BY <2>1, FirstIs
<1>4. req_res[p] # None => req_res[p] \in Cores
  BY ProcessAssumption
<1>5. Typed([S EXCEPT !.running = p])
  BY <1>0, RunningTyped
<1> QED BY <1>1, <1>2, <1>3, <1>4, <1>5 DEF assign_process

LEMMA ResumeTyped ==
  ASSUME NEW S, NEW p \in Process, Typed(S) PROVE Typed(Resume(S, p))
<1> DEFINE A == [S EXCEPT !.status[p] = "active"]
<1>1. Typed(A)
  BY StatusTyped DEF Statuses
<1> HIDE DEF A
<1>2. Resume(S, p) = IF p \in OSProcess THEN assign_process(A, p) ELSE [A EXCEPT !.running = p]
  BY DEF Resume, A
<1> QED BY <1>1, <1>2, AssignTyped, RunningTyped

LEMMA SwitchTyped ==
  ASSUME NEW S, NEW p \in Process, Typed(S) PROVE Typed(proc_switch(S, p))
BY ResumeTyped DEF proc_switch

LEMMA DeactivateTyped ==
  ASSUME NEW S, NEW p \in Process, Typed(S) PROVE Typed(proc_deactivate(S, p))
<1> DEFINE E == IF p \in OSProcess THEN end_process(S, p) ELSE S
<1>1. Typed(E)
  BY EndTyped
<1>2. proc_deactivate(S, p) = [E EXCEPT !.status[p] = "inactive"]
  BY DEF proc_deactivate
<1> HIDE DEF E
<1> QED BY <1>1, <1>2, StatusTyped DEF Statuses

LEMMA NewTyped ==
  ASSUME NEW S, NEW q \in Process, NEW parent \in Process \cup {None},
         NEW waiter \in Process \cup {None}, Typed(S)
  PROVE  Typed(proc_new(S, q, parent, waiter))
<1> DEFINE T == [S EXCEPT !.status[q] = "scheduled", !.waitingon[q] = waiter,
                          !.children[q] = <<>>]
           U == [T EXCEPT !.children[parent] = Append(@, q)]
<1>1. Typed(T)
  <2>1. <<>> \in Seq(Process)
    OBVIOUS
  <2> QED BY <2>1 DEF Typed, Tables, Statuses
<1>2. parent # None => Typed(U)
  <2> HIDE DEF T
  <2>1. parent # None => Append(T.children[parent], q) \in Seq(Process)
    BY <1>1 DEF Typed, Tables
  <2> QED BY <1>1, <2>1 DEF Typed, Tables
<1> QED BY <1>1, <1>2, FailTyped DEF proc_new, Failures

LEMMA ScheduleTyped ==
  ASSUME NEW S, NEW q \in Process, NEW d \in Nat, NEW parent \in Process \cup {None},
         NEW waiter \in Process \cup {None}, Typed(S)
  PROVE  Typed(proc_schedule(S, q, d, parent, waiter))
<1>1. Typed(proc_new(S, q, parent, waiter))
  BY NewTyped
<1> QED BY <1>1, SendTyped, ResumeTyped DEF proc_schedule

LEMMA ActivateTyped ==
  ASSUME NEW S, NEW p \in Process, Typed(S) PROVE Typed(recv_activate(S, p))
BY FailTyped, ResumeTyped DEF recv_activate, Failures

LEMMA WakeupTyped ==
  ASSUME NEW S, NEW p \in Process, Typed(S) PROVE Typed(recv_wakeup(S, p))
BY FailTyped, SwitchTyped DEF recv_wakeup, Failures

LEMMA WaitforTyped ==
  ASSUME NEW S, NEW p \in Process, NEW q \in Process, Typed(S)
  PROVE  Typed(proc_waitfor(S, p, q))
<1> DEFINE T == [S EXCEPT !.status[p] = "waitfor", !.running = None]
<1>1. Typed(T)
  BY DEF Typed, Tables, Statuses
<1>2. Typed(proc_schedule(T, q, 0, p, p))
  <2> HIDE DEF T
  <2> QED BY <1>1, ScheduleTyped
<1> QED BY <1>2, FailTyped DEF proc_waitfor, Failures

LEMMA KillTyped ==
  ASSUME NEW S, NEW q \in Process, Typed(S) PROVE Typed(proc_kill(S, q))
BY FailTyped, DeactivateTyped DEF proc_kill, Failures

LEMMA FinishedTyped ==
  ASSUME NEW S, NEW p \in Process, Typed(S) PROVE Typed(Finished(S, p))
<1> DEFINE main == [S EXCEPT !.running = None]
           T == proc_deactivate(main, p)
<1>1. Typed(main)
  BY RunningTyped
<1>2. Typed(T)
  <2> HIDE DEF main
  <2> QED BY <1>1, DeactivateTyped
<1>3. S.waitingon[p] # None => Typed(proc_switch(T, S.waitingon[p]))
  <2>1. S.waitingon[p] \in Process \cup {None}
    BY DEF Typed, Tables
  <2> HIDE DEF T
  <2> QED BY <1>2, <2>1, SwitchTyped
<1> QED BY <1>1, <1>2, <1>3 DEF Finished

-----------------------------------------------------------------------------
(* The steps.                                                               *)

LEMMA BecomesGood ==
  ASSUME NEW T, Good(T), Becomes(T) PROVE Good(State)'
BY DEF Good, Becomes, State, Fields

LEMMA InitGood ==
  ASSUME Init PROVE Good(State)
BY DEF Init, Good, State, Fields

LEMMA NextGood ==
  ASSUME Good(State), [Next]_vars PROVE Good(State)'
<1>1. CASE UNCHANGED vars
  BY <1>1 DEF vars, tables, Good, State
<1>2. ASSUME NEW q \in Process, NEW d \in Durations, Schedule(q, d) PROVE Good(State)'
  <2>1. Good(proc_schedule(State, q, d, None, None))
    BY ScheduleGood
  <2> QED BY <1>2, <2>1, BecomesGood DEF Schedule
<1>3. ASSUME NEW i \in DOMAIN messages, Recv(i) PROVE Good(State)'
  <2> DEFINE m == messages[i]
             later == [k \in DOMAIN messages |-> [messages[k] EXCEPT !.delay = @ - m.delay]]
             S == [State EXCEPT !.messages = RemoveAt(later, i)]
  <2>1. Good(S)
    <3>1. /\ DOMAIN S = Fields /\ S.holder = State.holder
          /\ S.process_queue = State.process_queue
          /\ S.ready_processes = State.ready_processes
      BY DEF Fields, State
    <3> HIDE DEF S
    <3> QED BY <3>1, SameQueues
  <2>2. Becomes(IF m.wakeup THEN recv_wakeup(S, m.pid) ELSE recv_activate(S, m.pid))
    BY <1>3 DEF Recv
  <2> HIDE DEF S, m
  <2>3. Good(recv_wakeup(S, m.pid)) /\ Good(recv_activate(S, m.pid))
    BY <2>1, WakeupGood, ActivateGood
  <2> QED BY <2>2, <2>3, BecomesGood
<1>4. ASSUME NEW p \in Process, NEW d \in Durations, Sleep(p, d) PROVE Good(State)'
  <2>1. Good([State EXCEPT !.running = None])
    BY RunningGood
  <2>2. Good(proc_sleep([State EXCEPT !.running = None], p, d))
    BY <2>1, SleepGood
  <2> QED BY <1>4, <2>2, BecomesGood DEF Sleep
<1>5. ASSUME NEW p \in Process, NEW q \in Process, Spawn(p, q) PROVE Good(State)'
  <2> DEFINE parent == IF p \in OSProcess THEN None ELSE p
  <2>1. Good(proc_schedule(State, q, LOCAL_MINDELAY, parent, None))
    BY ScheduleGood
  <2> QED BY <1>5, <2>1, BecomesGood DEF Spawn
<1>6. ASSUME NEW p \in Process, NEW q \in Process, WaitFor(p, q) PROVE Good(State)'
  <2>1. Good(proc_waitfor(State, p, q)) /\ Good([State EXCEPT !.running = None])
    BY WaitforGood, RunningGood
  <2>2. Good(proc_waitfor(free_resource(State, p), p, q))
    BY FreeGood, WaitforGood
  <2> QED BY <1>6, <2>1, <2>2, BecomesGood DEF WaitFor
<1>7. ASSUME NEW p \in Process, NEW q \in Process, Kill(p, q) PROVE Good(State)'
  <2>1. Good(proc_kill(State, q))
    BY KillGood
  <2> QED BY <1>7, <2>1, BecomesGood DEF Kill
<1>8. ASSUME NEW p \in Process, NEW q \in Process, KillAll(p, q) PROVE Good(State)'
  <2> DEFINE order == Tree(q)
  <2>1. order \in Seq(Process)
    BY <1>8 DEF KillAll
  <2>2. PICK path : /\ path[0] = State
                    /\ \A i \in 1 .. Len(order) : path[i] = proc_kill(path[i - 1], order[i])
                    /\ Becomes(path[Len(order)])
    BY <1>8 DEF KillAll
  <2> HIDE DEF order
  <2> DEFINE n == Len(order)
             G == {i \in 0 .. n : Good(path[i])}
  <2>3. n \in Nat
    BY <2>1
  <2>4. 0 \in G
    BY <2>2, <2>3
  <2>5. ASSUME NEW i \in 1 .. n, i - 1 \in G PROVE i \in G
    <3>1. Good(path[i - 1])
      BY <2>5
    <3>2. Good(proc_kill(path[i - 1], order[i]))
      BY <3>1, KillGood
    <3>3. path[i] = proc_kill(path[i - 1], order[i])
      BY <2>2
    <3>4. Good(path[i])
      BY <3>2, <3>3
    <3> QED BY <3>4, <2>3
  <2>6. n \in G
    <3> HIDE DEF G, n
    <3> QED BY <2>3, <2>4, <2>5, SegmentInduction
  <2> QED BY <2>2, <2>6, BecomesGood
<1>9. ASSUME NEW p \in Process, Finish(p) PROVE Good(State)'
  <2>1. Good(Finished(State, p))
    BY FinishedGood
  <2> QED BY <1>9, <2>1, BecomesGood DEF Finish
<1> QED BY <1>1, <1>2, <1>3, <1>4, <1>5, <1>6, <1>7, <1>8, <1>9 DEF Next, Main, Step

LEMMA BecomesTyped ==
  ASSUME NEW T, Typed(T), Becomes(T) PROVE Typed(State)'
<1>1. /\ status' = T.status /\ waitingon' = T.waitingon /\ children' = T.children
      /\ resource' = T.resource /\ holder' = T.holder /\ process_queue' = T.process_queue
      /\ ready_processes' = T.ready_processes /\ messages' = T.messages
      /\ running' = T.running /\ failed' = T.failed
  BY DEF Becomes
<1>2. (State)' \in Tables
  BY <1>1 DEF State, Typed, Tables
<1>3. (State)'.messages = T.messages
  BY <1>1 DEF State
<1> QED BY <1>2, <1>3 DEF Typed

\* The messages after the i-th, one of the earliest, has been taken.
Delivered(i) ==
  LET later == [k \in DOMAIN messages |->
                  [messages[k] EXCEPT !.delay = @ - messages[i].delay]]
  IN RemoveAt(later, i)

LEMMA DeliveredIs ==
  ASSUME Typed(State), NEW i \in DOMAIN messages, messages[i].delay = messages[1].delay
  PROVE  /\ Delivered(i) \in Seq(Message) /\ Sorted(Delivered(i))
         /\ DOMAIN Delivered(i) = 1 .. (Len(messages) - 1)
         /\ \A j \in 1 .. (Len(messages) - 1) :
              LET m == messages[IF j < i THEN j ELSE j + 1] IN
              Delivered(i)[j].pid = m.pid /\ Delivered(i)[j].wakeup = m.wakeup
<1> DEFINE n == Len(messages)
           d == messages[i].delay
           later == [k \in DOMAIN messages |-> [messages[k] EXCEPT !.delay = @ - d]]
           At(j) == IF j < i THEN j ELSE j + 1
<1>1. messages \in Seq(Message) /\ Sorted(messages)
  BY DEF Typed, Tables, State
<1>2. n \in Nat /\ DOMAIN messages = 1 .. n /\ 1 \in 1 .. n
  BY <1>1
<1>3. \A k \in 1 .. n : messages[k] \in Message
  BY <1>1, <1>2
<1>4. d \in Nat
  BY <1>2, <1>3 DEF Message
<1>5. ASSUME NEW k \in 1 .. n PROVE messages[k].delay \in Nat /\ messages[k].delay >= d
  <2>1. messages[k].delay \in Nat
    BY <1>3 DEF Message
  <2>2. CASE k = 1
    BY <2>1, <2>2
  <2>3. CASE k # 1
    <3>1. 1 < k
      BY <2>3
    <3> QED BY <1>1, <1>2, <2>1, <3>1 DEF Sorted
  <2> QED BY <2>2, <2>3
<1> HIDE DEF d
<1>6. ASSUME NEW k \in 1 .. n
      PROVE  /\ later[k] \in Message /\ later[k].pid = messages[k].pid
             /\ later[k].wakeup = messages[k].wakeup /\ later[k].delay = messages[k].delay - d
  <2>1. messages[k].delay - d \in Nat
    BY <1>4, <1>5
  <2>2. later[k] = [messages[k] EXCEPT !.delay = @ - d]
    BY <1>2
  <2> HIDE DEF later
  <2> QED BY <1>3, <2>1, <2>2 DEF Message
<1>7. later \in Seq(Message) /\ Len(later) = n
  <2>1. later \in [1 .. n -> Message]
    <3>1. DOMAIN later = 1 .. n /\ later = [k \in 1 .. n |-> later[k]]
      BY <1>2
    <3> HIDE DEF later
    <3> QED BY <1>6, <3>1
  <2> HIDE DEF later
  <2> QED BY <1>2, <2>1
<1>8. Delivered(i) = RemoveAt(later, i)
  BY DEF Delivered, d
<1> HIDE DEF later, n
<1>9. /\ Delivered(i) \in Seq(Message) /\ DOMAIN Delivered(i) = 1 .. (n - 1)
      /\ \A j \in 1 .. (n - 1) : Delivered(i)[j] = later[At(j)]
  <2>1. i \in 1 .. Len(later)
    BY <1>2, <1>7
  <2> QED BY <1>7, <1>8, <2>1, RemoveAtFacts
<1>10. \A j \in 1 .. (n - 1) : At(j) \in 1 .. n
  BY <1>2
<1>11. \A j, k \in 1 .. (n - 1) : j < k => At(j) < At(k)
  BY <1>2
<1> HIDE DEF At
<1>12. Sorted(Delivered(i))
  <2> SUFFICES ASSUME NEW j \in 1 .. (n - 1), NEW k \in 1 .. (n - 1), j < k
               PROVE  Delivered(i)[j].delay <= Delivered(i)[k].delay
    BY <1>9 DEF Sorted
  <2>1. messages[At(j)].delay <= messages[At(k)].delay
    BY <1>1, <1>2, <1>10, <1>11 DEF Sorted
  <2>2. /\ Delivered(i)[j].delay = messages[At(j)].delay - d
        /\ Delivered(i)[k].delay = messages[At(k)].delay - d
    BY <1>6, <1>9, <1>10
  <2>3. messages[At(j)].delay \in Nat /\ messages[At(k)].delay \in Nat
    BY <1>5, <1>10
  <2> QED BY <1>4, <2>1, <2>2, <2>3
<1>13. \A j \in 1 .. (n - 1) :
         /\ Delivered(i)[j].pid = messages[At(j)].pid
         /\ Delivered(i)[j].wakeup = messages[At(j)].wakeup
  BY <1>6, <1>9, <1>10
<1> QED BY <1>9, <1>12, <1>13 DEF n, At

LEMMA DeliveredTyped ==
  ASSUME Typed(State), NEW i \in DOMAIN messages, messages[i].delay = messages[1].delay
  PROVE  Typed([State EXCEPT !.messages = Delivered(i)]) /\ messages[i].pid \in Process
<1>1. Delivered(i) \in Seq(Message) /\ Sorted(Delivered(i))
  BY DeliveredIs
<1>2. /\ [State EXCEPT !.messages = Delivered(i)] \in Tables
      /\ [State EXCEPT !.messages = Delivered(i)].messages = Delivered(i)
  BY <1>1 DEF Typed, Tables, State
<1>3. messages \in Seq(Message)
  BY DEF Typed, Tables, State
<1>4. messages[i] \in Message
  BY <1>3
<1> QED BY <1>1, <1>2, <1>4 DEF Typed, Message

LEMMA NextTyped ==
  ASSUME Typed(State), [Next]_vars PROVE Typed(State)'
<1>0. Durations \subseteq Nat /\ LOCAL_MINDELAY \in Nat
  BY ProcessAssumption DEF LOCAL_MINDELAY
<1>1. CASE UNCHANGED vars
  BY <1>1 DEF vars, tables, Typed, State
<1>2. ASSUME NEW q \in Process, NEW d \in Durations, Schedule(q, d) PROVE Typed(State)'
  <2>1. Typed(proc_schedule(State, q, d, None, None))
    BY <1>0, ScheduleTyped
  <2> QED BY <1>2, <2>1, BecomesTyped DEF Schedule
<1>3. ASSUME NEW i \in DOMAIN messages, Recv(i) PROVE Typed(State)'
  <2> DEFINE p == messages[i].pid
             S == [State EXCEPT !.messages = Delivered(i)]
  <2>1. messages[i].delay = messages[1].delay
    BY <1>3 DEF Recv
  <2>2. Typed(S) /\ p \in Process
    BY <2>1, DeliveredTyped
  <2>3. Becomes(IF messages[i].wakeup THEN recv_wakeup(S, p) ELSE recv_activate(S, p))
    BY <1>3 DEF Recv, Delivered
  <2> HIDE DEF S, p
  <2> QED BY <2>2, <2>3, WakeupTyped, ActivateTyped, BecomesTyped
<1>4. ASSUME NEW p \in Process, NEW d \in Durations, Sleep(p, d) PROVE Typed(State)'
  <2>1. Typed([State EXCEPT !.running = None])
    BY RunningTyped
  <2>2. Typed(proc_sleep([State EXCEPT !.running = None], p, d))
    BY <1>0, <2>1, SleepTyped
  <2> QED BY <1>4, <2>2, BecomesTyped DEF Sleep
<1>5. ASSUME NEW p \in Process, NEW q \in Process, Spawn(p, q) PROVE Typed(State)'
  <2> DEFINE parent == IF p \in OSProcess THEN None ELSE p
  <2>1. Typed(proc_schedule(State, q, LOCAL_MINDELAY, parent, None))
    BY <1>0, ScheduleTyped
  <2> QED BY <1>5, <2>1, BecomesTyped DEF Spawn
<1>6. ASSUME NEW p \in Process, NEW q \in Process, WaitFor(p, q) PROVE Typed(State)'
  <2>1. Typed(proc_waitfor(State, p, q)) /\ Typed([State EXCEPT !.running = None])
    BY WaitforTyped, RunningTyped
  <2>2. resource[p] # None => Typed(proc_waitfor(free_resource(State, p), p, q))
    <3>1. State.resource = resource
      BY DEF State
    <3> QED BY <3>1, FreeTyped, WaitforTyped
  <2> QED BY <1>6, <2>1, <2>2, BecomesTyped DEF WaitFor
<1>7. ASSUME NEW p \in Process, NEW q \in Process, Kill(p, q) PROVE Typed(State)'
  <2>1. Typed(proc_kill(State, q))
    BY KillTyped
  <2> QED BY <1>7, <2>1, BecomesTyped DEF Kill
<1>8. ASSUME NEW p \in Process, NEW q \in Process, KillAll(p, q) PROVE Typed(State)'
  <2> DEFINE order == Tree(q)
  <2>1. order \in Seq(Process)
    BY <1>8 DEF KillAll
  <2>2. PICK path : /\ path[0] = State
                    /\ \A i \in 1 .. Len(order) : path[i] = proc_kill(path[i - 1], order[i])
                    /\ Becomes(path[Len(order)])
    BY <1>8 DEF KillAll
  <2> HIDE DEF order
  <2> DEFINE n == Len(order)
             G == {i \in 0 .. n : Typed(path[i])}
  <2>3. n \in Nat /\ 0 \in G
    BY <2>1, <2>2
  <2>4. ASSUME NEW i \in 1 .. n, i - 1 \in G PROVE i \in G
    <3>1. Typed(proc_kill(path[i - 1], order[i]))
      BY <2>1, <2>4, KillTyped
    <3>2. Typed(path[i])
      BY <2>2, <3>1
    <3> QED BY <2>3, <3>2
  <2>5. n \in G
    <3> HIDE DEF G, n
    <3> QED BY <2>3, <2>4, SegmentInduction
  <2> QED BY <2>2, <2>5, BecomesTyped
<1>9. ASSUME NEW p \in Process, Finish(p) PROVE Typed(State)'
  <2>1. Typed(Finished(State, p))
    BY FinishedTyped
  <2> QED BY <1>9, <2>1, BecomesTyped DEF Finish
<1> QED BY <1>1, <1>2, <1>3, <1>4, <1>5, <1>6, <1>7, <1>8, <1>9 DEF Next, Main, Step

Counts ==
  /\ calls \in 0 .. MaxCalls /\ lives \in [Process -> Nat]
  /\ \A q \in Process : lives[q] <= MaxLives[q]

LEMMA NextCounts ==
  ASSUME Counts, [Next]_vars PROVE Counts'
<1>1. \A q \in Process : Begins(q) => Counts' \/ calls' \notin 0 .. MaxCalls
  BY ProcessAssumption DEF Counts, Begins
<1>2. \A p \in Process : Calls(p) => calls' \in 0 .. MaxCalls
  BY ProcessAssumption DEF Counts, Calls
<1>3. UNCHANGED lives /\ calls' \in 0 .. MaxCalls => Counts'
  BY DEF Counts
<1>4. UNCHANGED calls => calls' \in 0 .. MaxCalls
  BY DEF Counts
<1> QED BY <1>1, <1>2, <1>3, <1>4
        DEF Next, Main, Step, Schedule, Recv, Sleep, Spawn, WaitFor, Kill, KillAll, Finish, vars

LEMMA InitTyped ==
  ASSUME Init PROVE Typed(State)
<1>1. State \in Tables
  <2>1. <<>> \in Seq(Process) /\ <<>> \in Seq(OSProcess) /\ <<>> \in Seq(Message)
    OBVIOUS
  <2> QED BY <2>1 DEF Init, State, Tables, Statuses
<1>2. Sorted(State.messages)
  BY DEF Init, State, Sorted
<1> QED BY <1>1, <1>2 DEF Typed

\* Whatever programs do, careful or not, the tables stay of their types.
THEOREM TypeOKAlways == Spec => []TypeOK
<1>1. Init => Typed(State) /\ Counts
  BY InitTyped, ProcessAssumption DEF Init, Counts
<1>2. Typed(State) /\ [Next]_vars => Typed(State)'
  BY NextTyped
<1>3. Counts /\ [Next]_vars => Counts'
  BY NextCounts
<1>4. Typed(State) /\ Counts => TypeOK
  <2> SUFFICES ASSUME Typed(State), Counts PROVE TypeOK
    OBVIOUS
  <2> QED BY DEF Typed, Tables, State, Counts, TypeOK, Statuses
<1> QED BY <1>1, <1>2, <1>3, <1>4, PTL DEF Spec

\* NoIdleCore: no core of the operating system (os/system.py) is idle while a
\* process waits for it in the main queue or in the private one, whatever
\* processes do, killing each other included.
THEOREM NoIdleCoreAlways == Spec => []NoIdleCore
<1>1. Good(State) => NoIdleCore
  BY DEF Good, State, NoIdleCore
<1>2. Init => Good(State)
  BY InitGood
<1>3. Good(State) /\ [Next]_vars => Good(State)'
  BY NextGood
<1> QED BY <1>1, <1>2, <1>3, PTL DEF Spec

-----------------------------------------------------------------------------
(* Careful programs.  A state is Fit if each process of the operating       *)
(* system that needs a place has one, except x, and each process that       *)
(* expects a message has one, except y: those that a handler is about to    *)
(* find a place for or has just taken the message of.                       *)

Alive(S, p) == S.status[p] \notin {"none", "inactive"}

InQueue(S, p) == Contains(S.ready_processes, p) \/ \E c \in Cores : Contains(S.process_queue[c], p)
HasPlace(S, p) == S.resource[p] # None \/ InQueue(S, p)

\* Nobody is twice in a queue or in a queue that is not for him, and those who
\* wait are ready to run but have no core.
Queues(S) ==
  /\ IsInjective(S.ready_processes) /\ \A c \in Cores : IsInjective(S.process_queue[c])
  /\ \A p \in OSProcess :
       /\ Contains(S.ready_processes, p) => req_res[p] = None
       /\ \A c \in Cores : Contains(S.process_queue[c], p) => req_res[p] = c
       /\ InQueue(S, p) => S.resource[p] = None /\ S.status[p] = "active"

\* A process and its core know each other.
Homes(S, x) ==
  /\ \A p \in Process, c \in Cores : S.resource[p] = c <=> S.holder[c] = p
  /\ \A p \in OSProcess : HasPlace(S, p) <=> S.status[p] \in {"active", "sleep"} /\ p # x

\* Who has the control is active and has a core.
Control(S, x) ==
  S.running \notin {None, x} =>
    /\ S.status[S.running] = "active"
    /\ S.running \in OSProcess => S.resource[S.running] # None

\* One message for each process that expects one; what is left over is for
\* processes that have been killed.
Expects(wakeup) == IF wakeup THEN "sleep" ELSE "scheduled"
HasMail(S, p) == \E i \in DOMAIN S.messages : S.messages[i].pid = p
Mail(S, y) ==
  /\ \A i, j \in DOMAIN S.messages : S.messages[i].pid = S.messages[j].pid => i = j
  /\ \A i \in DOMAIN S.messages :
       LET m == S.messages[i] IN
       m.pid # y /\ S.status[m.pid] \in {Expects(m.wakeup), "inactive"}
  /\ \A p \in Process : S.status[p] \in {"sleep", "scheduled"} /\ p # y => HasMail(S, p)

\* Who is waited for by a living process waits, for one only, or was killed.
Awaited(S, p) == \E q \in Process : Alive(S, q) /\ S.waitingon[q] = p
Waiting(S) ==
  /\ \A q \in Process : Alive(S, q) /\ S.waitingon[q] # None =>
       S.status[S.waitingon[q]] \in {"waitfor", "inactive"}
  /\ \A q, r \in Process :
       Alive(S, q) /\ Alive(S, r) /\ S.waitingon[q] # None /\ S.waitingon[q] = S.waitingon[r] => q = r

Fit(S, x, y) ==
  /\ Typed(S) /\ S.failed = "no" /\ Queues(S) /\ Homes(S, x) /\ Control(S, x)
  /\ Mail(S, y) /\ Waiting(S)

-----------------------------------------------------------------------------
(* What a change of one status does.                                        *)

SameCores(S, T) ==
  /\ T.resource = S.resource /\ T.holder = S.holder
  /\ T.process_queue = S.process_queue /\ T.ready_processes = S.ready_processes

LEMMA SamePlaces ==
  ASSUME NEW S, NEW T, SameCores(S, T), NEW p
  PROVE  (InQueue(T, p) <=> InQueue(S, p)) /\ (HasPlace(T, p) <=> HasPlace(S, p))
BY DEF SameCores, InQueue, HasPlace

LEMMA QueuesStep ==
  ASSUME NEW S, NEW T, NEW p \in Process, NEW st, Typed(S), Queues(S), SameCores(S, T),
         T.status = [S.status EXCEPT ![p] = st], p \in OSProcess /\ InQueue(S, p) => st = "active"
  PROVE  Queues(T)
<1>1. \A q \in Process : T.status[q] = IF q = p THEN st ELSE S.status[q]
  BY DEF Typed, Tables
<1>2. \A q \in OSProcess : q \in Process
  BY ProcessAssumption
<1>3. \A q \in OSProcess : InQueue(T, q) => T.resource[q] = None /\ T.status[q] = "active"
  BY <1>1, <1>2, SamePlaces DEF Queues, SameCores
<1> QED BY <1>3 DEF Queues, SameCores

LEMMA HomesStep ==
  ASSUME NEW S, NEW T, NEW p \in Process, NEW st, NEW x, NEW z, Typed(S), Homes(S, x), SameCores(S, T),
         T.status = [S.status EXCEPT ![p] = st],
         x \in {None, p}, z \in {None, p},
         p \in OSProcess => (HasPlace(S, p) <=> st \in {"active", "sleep"} /\ p # z)
  PROVE  Homes(T, z)
<1>1. \A q \in Process : T.status[q] = IF q = p THEN st ELSE S.status[q]
  BY DEF Typed, Tables
<1>2. \A q \in OSProcess : q \in Process /\ q # None
  BY ProcessAssumption
<1>3. ASSUME NEW q \in OSProcess
      PROVE  HasPlace(T, q) <=> T.status[q] \in {"active", "sleep"} /\ q # z
  <2>1. HasPlace(T, q) <=> HasPlace(S, q)
    BY SamePlaces
  <2>2. CASE q = p
    BY <1>1, <2>1, <2>2
  <2>3. CASE q # p
    BY <1>1, <1>2, <2>1, <2>3 DEF Homes
  <2> QED BY <2>2, <2>3
<1> QED BY <1>3 DEF Homes, SameCores

LEMMA WaitingStep ==
  ASSUME NEW S, NEW T, NEW p \in Process, NEW st, Typed(S), Waiting(S),
         T.waitingon = S.waitingon, T.status = [S.status EXCEPT ![p] = st],
         \/ st = "inactive"
         \/ Alive(S, p) /\ (st = "waitfor" \/ ~Awaited(S, p))
  PROVE  Waiting(T)
<1>1. \A q \in Process : T.status[q] = IF q = p THEN st ELSE S.status[q]
  BY DEF Typed, Tables
<1>2. \A q \in Process : Alive(T, q) => Alive(S, q)
  BY <1>1 DEF Alive
<1>3. ASSUME NEW q \in Process, Alive(T, q), T.waitingon[q] # None
      PROVE  T.status[T.waitingon[q]] \in {"waitfor", "inactive"}
  <2>1. /\ Alive(S, q) /\ S.waitingon[q] \in Process
        /\ S.status[S.waitingon[q]] \in {"waitfor", "inactive"}
    BY <1>2, <1>3 DEF Waiting, Typed, Tables
  <2>2. CASE S.waitingon[q] = p
    <3>1. Awaited(S, p)
      BY <2>1, <2>2 DEF Awaited
    <3> QED BY <1>1, <2>1, <2>2, <3>1
  <2>3. CASE S.waitingon[q] # p
    BY <1>1, <2>1, <2>3
  <2> QED BY <2>2, <2>3
<1> QED BY <1>2, <1>3 DEF Waiting

\* A process that is active is not waited for and has no message.
LEMMA ActiveFree ==
  ASSUME NEW S, NEW p \in Process, NEW y \in {None, p},
         S.status[p] \in {"active", "waitfor"}, Mail(S, y)
  PROVE  ~HasMail(S, p) /\ Mail(S, p)
<1>1. ~HasMail(S, p)
  BY DEF Mail, HasMail, Expects
<1>2. CASE p = y
  BY <1>1, <1>2
<1>3. CASE y = None
  BY <1>1, <1>3, ProcessAssumption DEF Mail, HasMail
<1> QED BY <1>1, <1>2, <1>3

LEMMA NotAwaited ==
  ASSUME NEW S, NEW p \in Process, S.status[p] \notin {"waitfor", "inactive"}, Waiting(S)
  PROVE  ~Awaited(S, p)
BY ProcessAssumption DEF Awaited, Waiting

LEMMA MailStep ==
  ASSUME NEW S, NEW T, NEW p \in Process, NEW st, NEW y, Typed(S), Mail(S, y),
         T.messages = S.messages, T.status = [S.status EXCEPT ![p] = st],
         \/ st = "inactive" /\ y = None
         \/ st \in {"active", "waitfor"} /\ y \in {None, p} /\ ~HasMail(S, p)
  PROVE  Mail(T, None)
<1>1. \A q \in Process : T.status[q] = IF q = p THEN st ELSE S.status[q]
  BY DEF Typed, Tables
<1>2. \A i \in DOMAIN S.messages : S.messages[i].pid \in Process
  <2>1. S.messages \in Seq(Message)
    BY DEF Typed, Tables
  <2>2. \A i \in DOMAIN S.messages : S.messages[i] \in Message
    BY <2>1
  <2> QED BY <2>2 DEF Message
<1>3. ASSUME NEW i \in DOMAIN S.messages
      PROVE  /\ S.messages[i].pid # None
             /\ T.status[S.messages[i].pid] \in {Expects(S.messages[i].wakeup), "inactive"}
  <2>1. S.status[S.messages[i].pid] \in {Expects(S.messages[i].wakeup), "inactive"}
    BY DEF Mail
  <2>2. S.messages[i].pid = p => st = "inactive"
    BY DEF HasMail
  <2> QED BY <1>1, <1>2, <2>1, <2>2, ProcessAssumption
<1>4. ASSUME NEW q \in Process, T.status[q] \in {"sleep", "scheduled"} PROVE HasMail(T, q)
  <2>1. q # p
    BY <1>1, <1>4
  <2>2. S.status[q] \in {"sleep", "scheduled"} /\ q # y
    BY <1>1, <1>4, <2>1, ProcessAssumption
  <2> QED BY <2>2 DEF Mail, HasMail
<1>5. \A i, j \in DOMAIN S.messages : S.messages[i].pid = S.messages[j].pid => i = j
  BY DEF Mail
<1> QED BY <1>3, <1>4, <1>5 DEF Mail

LEMMA SendMail ==
  ASSUME NEW S, NEW T, NEW p \in Process, NEW w \in BOOLEAN, NEW d \in Nat, NEW y \in {None, p},
         Typed(S), Mail(S, y), ~HasMail(S, p), T.messages = Send(S, p, w, d).messages,
         T.status = [S.status EXCEPT ![p] = Expects(w)]
  PROVE  Mail(T, None) /\ \A r \in Process : HasMail(T, r) => HasMail(S, r) \/ r = p
<1> DEFINE M == S.messages
           e == [pid |-> p, wakeup |-> w, delay |-> d]
<1>1. PICK k \in 1 .. (Len(M) + 1), ms \in Seq(Message) :
        /\ ms = InsertAt(M, k, e)
        /\ Send(S, p, w, d) = [S EXCEPT !.messages = ms] /\ Sorted(ms)
  BY SendIs
<1>2. T.messages = ms
  BY <1>1 DEF Typed, Tables
<1>3. M \in Seq(Message) /\ e \in Message /\ e.pid = p /\ e.wakeup = w
  BY DEF Typed, Tables, Message
<1> HIDE DEF M, e
<1>4. /\ DOMAIN ms = 1 .. (Len(M) + 1) /\ ms[k] = e
      /\ \A j \in 1 .. (k - 1) : ms[j] = M[j]
      /\ \A j \in (k + 1) .. (Len(M) + 1) : ms[j] = M[j - 1]
  <2>1. M \in Seq(Message) /\ e \in Message /\ k \in 1 .. (Len(M) + 1)
    BY <1>1, <1>3
  <2>2. /\ DOMAIN InsertAt(M, k, e) = 1 .. (Len(M) + 1) /\ InsertAt(M, k, e)[k] = e
        /\ \A j \in 1 .. (k - 1) : InsertAt(M, k, e)[j] = M[j]
        /\ \A j \in (k + 1) .. (Len(M) + 1) : InsertAt(M, k, e)[j] = M[j - 1]
    BY <2>1, InsertAtFacts
  <2> QED BY <1>1, <2>2
<1>5. DOMAIN M = 1 .. Len(M) /\ Len(M) \in Nat /\ \A i \in 1 .. Len(M) : M[i].pid \in Process
  <2>1. DOMAIN M = 1 .. Len(M) /\ Len(M) \in Nat /\ \A i \in 1 .. Len(M) : M[i] \in Message
    BY <1>3
  <2> QED BY <2>1 DEF Message
<1> DEFINE At(i) == IF i < k THEN i ELSE i - 1
<1>6. \A i \in DOMAIN ms : i # k => At(i) \in DOMAIN M /\ ms[i] = M[At(i)]
  BY <1>4, <1>5
<1>7. \A i, j \in DOMAIN ms : i # k /\ j # k /\ At(i) = At(j) => i = j
  BY <1>4, <1>5
<1>8. \A j \in DOMAIN M : \E i \in DOMAIN ms : ms[i] = M[j]
  <2> SUFFICES ASSUME NEW j \in DOMAIN M PROVE \E i \in DOMAIN ms : ms[i] = M[j]
    OBVIOUS
  <2>1. CASE j < k
    BY <1>4, <1>5, <2>1
  <2>2. CASE j >= k
    <3>1. j + 1 \in (k + 1) .. (Len(M) + 1) /\ (j + 1) - 1 = j /\ j + 1 \in DOMAIN ms
      BY <1>4, <1>5, <2>2
    <3> QED BY <1>4, <3>1
  <2> QED BY <1>5, <2>1, <2>2
<1>9. \A j \in DOMAIN M : M[j].pid # p
  BY DEF HasMail, M
<1>10. \A q \in Process : T.status[q] = IF q = p THEN Expects(w) ELSE S.status[q]
  BY DEF Typed, Tables
<1>11. k \in DOMAIN ms
  BY <1>4
<1> HIDE DEF At
<1>12. ASSUME NEW i \in DOMAIN ms, NEW j \in DOMAIN ms, ms[i].pid = ms[j].pid PROVE i = j
  <2>1. CASE i = k \/ j = k
    BY <1>3, <1>4, <1>6, <1>9, <1>12, <2>1
  <2>2. CASE i # k /\ j # k
    <3>1. M[At(i)].pid = M[At(j)].pid /\ At(i) \in DOMAIN M /\ At(j) \in DOMAIN M
      BY <1>6, <1>12, <2>2
    <3>2. At(i) = At(j)
      BY <3>1 DEF Mail, M
    <3> QED BY <1>7, <2>2, <3>2
  <2> QED BY <2>1, <2>2
<1>13. ASSUME NEW i \in DOMAIN ms
       PROVE  ms[i].pid # None /\ T.status[ms[i].pid] \in {Expects(ms[i].wakeup), "inactive"}
  <2>1. CASE i = k
    BY <1>3, <1>4, <1>10, <2>1, ProcessAssumption
  <2>2. CASE i # k
    <3>1. At(i) \in DOMAIN M /\ ms[i] = M[At(i)]
      BY <1>6, <2>2
    <3>2. M[At(i)].pid \in Process /\ M[At(i)].pid # p
      BY <1>5, <1>9, <3>1
    <3>3. S.status[M[At(i)].pid] \in {Expects(M[At(i)].wakeup), "inactive"}
      BY <3>1 DEF Mail, M
    <3> QED BY <1>10, <3>1, <3>2, <3>3, ProcessAssumption
  <2> QED BY <2>1, <2>2
<1>14. ASSUME NEW q \in Process, T.status[q] \in {"sleep", "scheduled"} PROVE HasMail(T, q)
  <2>1. CASE q = p
    BY <1>2, <1>3, <1>4, <1>11, <2>1 DEF HasMail
  <2>2. CASE q # p
    <3>1. q # y /\ S.status[q] \in {"sleep", "scheduled"}
      BY <1>10, <1>14, <2>2, ProcessAssumption
    <3>2. PICK j \in DOMAIN M : M[j].pid = q
      BY <3>1 DEF Mail, HasMail, M
    <3> QED BY <1>2, <1>8, <3>2 DEF HasMail
  <2> QED BY <2>1, <2>2
<1>15. ASSUME NEW r \in Process, HasMail(T, r) PROVE HasMail(S, r) \/ r = p
  <2>1. PICK i \in DOMAIN ms : ms[i].pid = r
    BY <1>2, <1>15 DEF HasMail
  <2>2. CASE i = k
    BY <1>3, <1>4, <2>1, <2>2
  <2>3. CASE i # k
    BY <1>6, <2>1, <2>3 DEF HasMail, M
  <2> QED BY <2>2, <2>3
<1>16. Mail(T, None)
  BY <1>2, <1>12, <1>13, <1>14 DEF Mail
<1> QED BY <1>15, <1>16

-----------------------------------------------------------------------------
(* What the operators do to a state that is Fit.                            *)

\* All that a handler changes for other processes than its own: some get a
\* core, and with it a wake-up.
Serves(S, T) ==
  /\ T.running = S.running /\ T.waitingon = S.waitingon
  /\ \A r \in Process : \/ T.status[r] = S.status[r]
                        \/ S.status[r] = "active" /\ T.status[r] = "sleep"
  /\ \A r \in Process : HasMail(T, r) => HasMail(S, r) \/ S.status[r] = "active"

LEMMA SleepFit ==
  ASSUME NEW S, NEW p \in Process, NEW d \in Nat, NEW x, Fit(S, x, None),
         S.status[p] = "active", p \in OSProcess => S.resource[p] # None, S.running # p
  PROVE  LET T == proc_sleep(S, p, d) IN
         /\ Fit(T, x, None) /\ Serves(S, T)
         /\ \A r \in Process : r # p => T.status[r] = S.status[r]
<1> DEFINE T == proc_sleep(S, p, d)
<1>0. /\ Typed(S) /\ S.failed = "no" /\ Queues(S) /\ Homes(S, x) /\ Control(S, x)
      /\ Mail(S, None) /\ Waiting(S)
  BY DEF Fit
<1>1. ~HasMail(S, p) /\ ~Awaited(S, p)
  BY <1>0, ActiveFree, NotAwaited
<1>2. Typed(T)
  BY <1>0, SleepTyped
<1>3. PICK k \in 1 .. (Len(S.messages) + 1), ms \in Seq(Message) :
        /\ ms = InsertAt(S.messages, k, [pid |-> p, wakeup |-> TRUE, delay |-> d])
        /\ Send(S, p, TRUE, d) = [S EXCEPT !.messages = ms] /\ Sorted(ms)
  BY <1>0, SendIs
<1>4. /\ T.messages = Send(S, p, TRUE, d).messages
      /\ T.status = [S.status EXCEPT ![p] = Expects(TRUE)]
      /\ SameCores(S, T) /\ T.waitingon = S.waitingon /\ T.running = S.running
      /\ T.failed = S.failed
  <2>1. T = [[S EXCEPT !.messages = ms] EXCEPT !.status[p] = "sleep"]
    BY <1>3 DEF proc_sleep
  <2>2. Send(S, p, TRUE, d).messages = ms
    BY <1>0, <1>3 DEF Typed, Tables
  <2> HIDE DEF T
  <2> QED BY <1>0, <2>1, <2>2 DEF Typed, Tables, SameCores, Expects
<1> HIDE DEF T
<1>5. \A r \in Process : T.status[r] = IF r = p THEN "sleep" ELSE S.status[r]
  BY <1>0, <1>4 DEF Typed, Tables, Expects
<1>6. Mail(T, None) /\ \A r \in Process : HasMail(T, r) => HasMail(S, r) \/ r = p
  BY <1>0, <1>1, <1>4, SendMail
<1>7. ~(p \in OSProcess /\ InQueue(S, p))
  BY <1>0 DEF Queues
<1>8. Queues(T)
  BY <1>0, <1>4, <1>7, QueuesStep
<1>9. Homes(T, x)
  <2>1. ASSUME NEW q \in OSProcess
        PROVE  HasPlace(T, q) <=> T.status[q] \in {"active", "sleep"} /\ q # x
    <3>1. HasPlace(T, q) <=> HasPlace(S, q)
      BY <1>4, SamePlaces
    <3>2. HasPlace(S, q) <=> S.status[q] \in {"active", "sleep"} /\ q # x
      BY <1>0 DEF Homes
    <3> QED BY <1>5, <3>1, <3>2, ProcessAssumption
  <2>2. \A q \in Process, c \in Cores : T.resource[q] = c <=> T.holder[c] = q
    BY <1>0, <1>4 DEF Homes, SameCores
  <2> QED BY <2>1, <2>2 DEF Homes
<1>10. Control(T, x)
  <2>1. S.running \in Process \cup {None}
    BY <1>0 DEF Typed, Tables
  <2> QED BY <1>0, <1>4, <1>5, <2>1 DEF Control, SameCores
<1>11. Waiting(T)
  BY <1>0, <1>1, <1>4, WaitingStep DEF Alive
<1>12. Fit(T, x, None)
  BY <1>0, <1>2, <1>4, <1>6, <1>8, <1>9, <1>10, <1>11 DEF Fit
<1>13. Serves(S, T)
  BY <1>4, <1>5, <1>6 DEF Serves
<1> QED BY <1>5, <1>12, <1>13 DEF T

\* Taking the core c away from p.
LEMMA FreedFit ==
  ASSUME NEW S, NEW p \in OSProcess, NEW c \in Cores, S.resource[p] = c, Fit(S, None, None)
  PROVE  LET F == [S EXCEPT !.resource[p] = None, !.holder[c] = None] IN
         Fit(F, p, None) /\ F.holder[c] = None
<1> DEFINE F == [S EXCEPT !.resource[p] = None, !.holder[c] = None]
<1>0. /\ Typed(S) /\ S.failed = "no" /\ Queues(S) /\ Homes(S, None) /\ Control(S, None)
      /\ Mail(S, None) /\ Waiting(S)
  BY DEF Fit
<1>1. p \in Process /\ c # None
  BY ProcessAssumption
<1>2. /\ F.resource = [S.resource EXCEPT ![p] = None] /\ F.holder = [S.holder EXCEPT ![c] = None]
      /\ F.status = S.status /\ F.process_queue = S.process_queue
      /\ F.ready_processes = S.ready_processes /\ F.messages = S.messages
      /\ F.waitingon = S.waitingon /\ F.running = S.running /\ F.failed = S.failed
  BY <1>0 DEF Typed, Tables
<1>3. Typed(F)
  BY <1>0, <1>1 DEF Typed, Tables
<1> HIDE DEF F
<1>4. /\ \A q \in Process : F.resource[q] = IF q = p THEN None ELSE S.resource[q]
      /\ \A d \in Cores : F.holder[d] = IF d = c THEN None ELSE S.holder[d]
  BY <1>0, <1>2 DEF Typed, Tables
<1>5. \A q \in OSProcess : q \in Process /\ q # None /\ (InQueue(F, q) <=> InQueue(S, q))
  BY <1>2, ProcessAssumption DEF InQueue
<1>6. Queues(F)
  <2>1. \A q \in OSProcess : InQueue(F, q) => F.resource[q] = None /\ F.status[q] = "active"
    BY <1>0, <1>2, <1>4, <1>5 DEF Queues
  <2> QED BY <1>0, <1>2, <2>1 DEF Queues
<1>7. Homes(F, p)
  <2>1. ASSUME NEW q \in Process, NEW d \in Cores PROVE F.resource[q] = d <=> F.holder[d] = q
    <3>1. S.resource[q] = d <=> S.holder[d] = q
      BY <1>0 DEF Homes
    <3>2. S.resource[p] = c /\ S.holder[c] = p /\ d # None /\ q # None
      BY <1>0, <1>1, ProcessAssumption DEF Homes
    <3> QED BY <1>4, <3>1, <3>2
  <2>2. ASSUME NEW q \in OSProcess
        PROVE  HasPlace(F, q) <=> F.status[q] \in {"active", "sleep"} /\ q # p
    <3>1. HasPlace(S, q) <=> S.status[q] \in {"active", "sleep"}
      BY <1>0, <1>5 DEF Homes
    <3>2. q = p => ~InQueue(S, q)
      BY <1>0, <1>1 DEF Queues
    <3> QED BY <1>2, <1>4, <1>5, <3>1, <3>2 DEF HasPlace
  <2> QED BY <2>1, <2>2 DEF Homes
<1>8. Control(F, p)
  <2>1. S.running \in Process \cup {None}
    BY <1>0 DEF Typed, Tables
  <2> QED BY <1>0, <1>2, <1>4, <2>1 DEF Control
<1>9. Mail(F, None) /\ Waiting(F)
  BY <1>0, <1>2 DEF Mail, HasMail, Waiting, Alive
<1>10. F.holder[c] = None
  BY <1>4
<1>11. Fit(F, p, None)
  BY <1>0, <1>2, <1>3, <1>6, <1>7, <1>8, <1>9 DEF Fit
<1> QED BY <1>10, <1>11 DEF F

\* Giving the core c to q, who leaves the queue.
LEMMA GivenFit ==
  ASSUME NEW F, NEW T, NEW q \in OSProcess, NEW c \in Cores, NEW x, Fit(F, x, None),
         F.holder[c] = None, InQueue(F, q),
         T \in Tables,
         T.resource = [F.resource EXCEPT ![q] = c], T.holder = [F.holder EXCEPT ![c] = q],
         T.status = F.status, T.messages = F.messages, T.waitingon = F.waitingon,
         T.running = F.running, T.failed = F.failed,
         IsInjective(T.ready_processes), \A d \in Cores : IsInjective(T.process_queue[d]),
         \A r \in OSProcess :
           /\ Contains(T.ready_processes, r) => Contains(F.ready_processes, r)
           /\ \A d \in Cores : Contains(T.process_queue[d], r) => Contains(F.process_queue[d], r)
           /\ InQueue(T, r) <=> InQueue(F, r) /\ r # q
  PROVE  Fit(T, x, None)
<1>0. /\ Typed(F) /\ F.failed = "no" /\ Queues(F) /\ Homes(F, x) /\ Control(F, x)
      /\ Mail(F, None) /\ Waiting(F)
  BY DEF Fit
<1>1. q \in Process /\ c # None /\ F.resource[q] = None /\ F.status[q] = "active"
  BY <1>0, ProcessAssumption DEF Queues
<1>2. Typed(T)
  BY <1>0 DEF Typed
<1>3. /\ \A r \in Process : T.resource[r] = IF r = q THEN c ELSE F.resource[r]
      /\ \A d \in Cores : T.holder[d] = IF d = c THEN q ELSE F.holder[d]
  BY <1>0 DEF Typed, Tables
<1>4. Queues(T)
  <2>1. \A r \in OSProcess : InQueue(T, r) => T.resource[r] = None /\ T.status[r] = "active"
    BY <1>0, <1>3, ProcessAssumption DEF Queues
  <2> QED BY <1>0, <2>1 DEF Queues
<1>5. Homes(T, x)
  <2>1. ASSUME NEW r \in Process, NEW d \in Cores PROVE T.resource[r] = d <=> T.holder[d] = r
    <3>1. F.resource[r] = d <=> F.holder[d] = r
      BY <1>0 DEF Homes
    <3>2. d # None /\ r # None
      BY ProcessAssumption
    <3> QED BY <1>1, <1>3, <3>1, <3>2
  <2>2. ASSUME NEW r \in OSProcess
        PROVE  HasPlace(T, r) <=> T.status[r] \in {"active", "sleep"} /\ r # x
    <3>1. HasPlace(F, r) <=> F.status[r] \in {"active", "sleep"} /\ r # x
      BY <1>0 DEF Homes
    <3>2. r \in Process
      BY ProcessAssumption
    <3>3. HasPlace(T, r) <=> HasPlace(F, r)
      BY <1>1, <1>3, <3>2 DEF HasPlace
    <3> QED BY <3>1, <3>3
  <2> QED BY <2>1, <2>2 DEF Homes
<1>6. Control(T, x)
  <2>1. F.running \in Process \cup {None}
    BY <1>0 DEF Typed, Tables
  <2> QED BY <1>0, <1>1, <1>3, <2>1 DEF Control
<1>7. Mail(T, None) /\ Waiting(T)
  BY <1>0 DEF Mail, HasMail, Waiting, Alive
<1> QED BY <1>0, <1>2, <1>4, <1>5, <1>6, <1>7 DEF Fit

LEMMA FreeFit ==
  ASSUME NEW S, NEW p \in OSProcess, S.resource[p] # None, Fit(S, None, None)
  PROVE  LET T == free_resource(S, p) IN
         Fit(T, p, None) /\ Serves(S, T) /\ T.status[p] = S.status[p]
<1> DEFINE c == S.resource[p]
           F == [S EXCEPT !.resource[p] = None, !.holder[c] = None]
           Given(T, q) == [T EXCEPT !.resource[q] = c, !.holder[c] = q]
           own == [F EXCEPT !.process_queue[c] = Tail(@)]
           main == [F EXCEPT !.ready_processes = Tail(@)]
<1>0. Typed(S) /\ p \in Process
  BY ProcessAssumption DEF Fit
<1>1. c \in Cores /\ LOCAL_MINDELAY \in Nat
  BY <1>0 DEF Typed, Tables, LOCAL_MINDELAY
<1>2. /\ F.resource = [S.resource EXCEPT ![p] = None] /\ F.holder = [S.holder EXCEPT ![c] = None]
      /\ F.status = S.status /\ F.process_queue = S.process_queue
      /\ F.ready_processes = S.ready_processes /\ F.messages = S.messages
      /\ F.waitingon = S.waitingon /\ F.running = S.running /\ F.failed = S.failed
  BY <1>0 DEF Typed, Tables
<1>3. Fit(F, p, None) /\ F.holder[c] = None
  BY <1>1, FreedFit
<1>4. Typed(F) /\ Queues(F) /\ Homes(F, p)
  BY <1>3 DEF Fit
<1> HIDE DEF c
<1>5. ASSUME NEW G, NEW q \in OSProcess, Fit(Given(G, q), p, None), G \in Tables, InQueue(F, q),
             G.status = S.status, G.messages = S.messages, G.waitingon = S.waitingon,
             G.running = S.running
      PROVE  LET T == proc_sleep(Given(G, q), q, LOCAL_MINDELAY) IN
             Fit(T, p, None) /\ Serves(S, T) /\ T.status[p] = S.status[p]
  <2> DEFINE H == Given(G, q)
             T == proc_sleep(H, q, LOCAL_MINDELAY)
  <2>1. /\ H.status = S.status /\ H.messages = S.messages /\ H.waitingon = S.waitingon
        /\ H.running = S.running /\ H.resource = [G.resource EXCEPT ![q] = c]
    BY <1>5 DEF Tables
  <2>2. Fit(H, p, None)
    BY <1>5
  <2> HIDE DEF H
  <2>3. q \in Process /\ S.status[q] = "active" /\ q # p /\ q # None
    <3>1. HasPlace(F, q) /\ F.status[q] = "active"
      BY <1>4, <1>5 DEF HasPlace, Queues
    <3> QED BY <1>2, <1>4, <3>1, ProcessAssumption DEF Homes
  <2>4. H.resource[q] # None
    BY <1>1, <1>5, <2>1, <2>3, ProcessAssumption DEF Tables
  <2>5. S.running # q
    <3>1. S.resource[q] = None
      <4>1. F.resource[q] = None
        BY <1>4, <1>5 DEF Queues
      <4> QED BY <1>0, <1>2, <2>3, <4>1 DEF Typed, Tables
    <3>2. Control(S, None)
      BY DEF Fit
    <3> QED BY <2>3, <3>1, <3>2 DEF Control
  <2>6. Fit(T, p, None) /\ Serves(H, T) /\ \A r \in Process : r # q => T.status[r] = H.status[r]
    <3>1. H.status[q] = "active" /\ H.running # q
      BY <2>1, <2>3, <2>5
    <3> QED BY <1>1, <2>2, <2>3, <2>4, <3>1, SleepFit
  <2> HIDE DEF T
  <2>7. Serves(S, T) /\ T.status[p] = S.status[p]
    BY <1>0, <2>1, <2>3, <2>6 DEF Serves, HasMail
  <2> QED BY <2>6, <2>7 DEF T, H
<1>6. CASE S.process_queue[c] # <<>>
  <2> DEFINE Q == S.process_queue[c]
             q == Head(Q)
             H == Given(own, q)
  <2>1. Q \in Seq(OSProcess) /\ IsInjective(Q)
    BY <1>0, <1>1 DEF Typed, Tables, Fit, Queues
  <2>2. /\ Tail(Q) \in Seq(OSProcess) /\ IsInjective(Tail(Q)) /\ q \in OSProcess /\ Contains(Q, q)
        /\ \A y : Contains(Tail(Q), y) <=> Contains(Q, y) /\ y # q
    <3> HIDE DEF Q
    <3> QED BY <1>6, <2>1, ListTail DEF Q
  <2>3. q \in Process
    BY <2>2, ProcessAssumption
  <2>4. /\ own \in Tables /\ own.status = S.status /\ own.messages = S.messages
        /\ own.waitingon = S.waitingon /\ own.running = S.running
        /\ own.resource = F.resource /\ own.holder = F.holder /\ own.failed = F.failed
        /\ own.process_queue = [F.process_queue EXCEPT ![c] = Tail(Q)]
        /\ own.ready_processes = F.ready_processes
    <3> HIDE DEF F, q
    <3> QED BY <1>1, <1>2, <1>4, <2>2 DEF Typed, Tables
  <2>5. /\ H \in Tables
        /\ H.resource = [F.resource EXCEPT ![q] = c] /\ H.holder = [F.holder EXCEPT ![c] = q]
        /\ H.status = F.status /\ H.messages = F.messages /\ H.waitingon = F.waitingon
        /\ H.running = F.running /\ H.failed = F.failed
        /\ H.process_queue = [F.process_queue EXCEPT ![c] = Tail(Q)]
        /\ H.ready_processes = F.ready_processes
    <3> HIDE DEF F, own, q, Q
    <3> QED BY <1>1, <1>2, <2>2, <2>3, <2>4 DEF Tables
  <2>6. \A d \in Cores : H.process_queue[d] = IF d = c THEN Tail(Q) ELSE F.process_queue[d]
    <3> HIDE DEF F, H, Q
    <3> QED BY <1>4, <2>5 DEF Typed, Tables
  <2>7. InQueue(F, q)
    <3> HIDE DEF F, H
    <3> QED BY <1>1, <1>2, <2>2 DEF InQueue
  <2>8. ASSUME NEW r \in OSProcess
        PROVE  /\ Contains(H.ready_processes, r) => Contains(F.ready_processes, r)
               /\ \A d \in Cores : Contains(H.process_queue[d], r) => Contains(F.process_queue[d], r)
               /\ InQueue(H, r) <=> InQueue(F, r) /\ r # q
    <3>1. F.process_queue[c] = Q
      BY <1>2
    <3>2. ~Contains(F.ready_processes, q) /\ \A d \in Cores : d # c => ~Contains(F.process_queue[d], q)
      <4>1. req_res[q] = c /\ c # None
        <5> HIDE DEF F, q, Q
        <5> QED BY <1>1, <1>4, <2>2, <3>1, ProcessAssumption DEF Queues
      <4> HIDE DEF F, q, Q
      <4> QED BY <1>4, <2>2, <4>1 DEF Queues
    <3> HIDE DEF F, H, q, Q
    <3> QED BY <1>1, <2>2, <2>5, <2>6, <3>1, <3>2 DEF InQueue
  <2>9. IsInjective(H.ready_processes) /\ \A d \in Cores : IsInjective(H.process_queue[d])
    <3> HIDE DEF F, H, q, Q
    <3> QED BY <1>4, <2>2, <2>5, <2>6 DEF Queues
  <2>10. Fit(H, p, None)
    <3> HIDE DEF F, H, q, Q
    <3> QED BY <1>1, <1>3, <2>2, <2>5, <2>7, <2>8, <2>9, GivenFit
  <2>11. free_resource(S, p) = proc_sleep(Given(own, q), q, LOCAL_MINDELAY)
    BY <1>6 DEF free_resource, c
  <2> HIDE DEF F, q, own, Given
  <2> QED BY <1>5, <2>2, <2>4, <2>7, <2>10, <2>11 DEF H
<1>7. CASE S.process_queue[c] = <<>> /\ S.ready_processes # <<>>
  <2> DEFINE Q == S.ready_processes
             q == Head(Q)
             H == Given(main, q)
  <2>1. Q \in Seq(OSProcess) /\ IsInjective(Q)
    BY <1>0 DEF Typed, Tables, Fit, Queues
  <2>2. /\ Tail(Q) \in Seq(OSProcess) /\ IsInjective(Tail(Q)) /\ q \in OSProcess /\ Contains(Q, q)
        /\ \A y : Contains(Tail(Q), y) <=> Contains(Q, y) /\ y # q
    <3> HIDE DEF Q
    <3> QED BY <1>7, <2>1, ListTail DEF Q
  <2>3. q \in Process
    BY <2>2, ProcessAssumption
  <2>4. /\ main \in Tables /\ main.status = S.status /\ main.messages = S.messages
        /\ main.waitingon = S.waitingon /\ main.running = S.running
        /\ main.resource = F.resource /\ main.holder = F.holder /\ main.failed = F.failed
        /\ main.process_queue = F.process_queue
        /\ main.ready_processes = Tail(Q)
    <3> HIDE DEF F, q
    <3> QED BY <1>1, <1>2, <1>4, <2>2 DEF Typed, Tables
  <2>5. /\ H \in Tables
        /\ H.resource = [F.resource EXCEPT ![q] = c] /\ H.holder = [F.holder EXCEPT ![c] = q]
        /\ H.status = F.status /\ H.messages = F.messages /\ H.waitingon = F.waitingon
        /\ H.running = F.running /\ H.failed = F.failed
        /\ H.process_queue = F.process_queue
        /\ H.ready_processes = Tail(Q)
    <3> HIDE DEF F, main, q, Q
    <3> QED BY <1>1, <1>2, <2>2, <2>3, <2>4 DEF Tables
  <2>6. F.ready_processes = Q
    BY <1>2
  <2>7. InQueue(F, q)
    <3> HIDE DEF F, q, Q
    <3> QED BY <2>2, <2>6 DEF InQueue
  <2>8. ASSUME NEW r \in OSProcess
        PROVE  /\ Contains(H.ready_processes, r) => Contains(F.ready_processes, r)
               /\ \A d \in Cores : Contains(H.process_queue[d], r) => Contains(F.process_queue[d], r)
               /\ InQueue(H, r) <=> InQueue(F, r) /\ r # q
    <3> HIDE DEF F, H, q, Q
    <3>1. \A d \in Cores : ~Contains(F.process_queue[d], q)
      BY <1>4, <2>2, <2>6, ProcessAssumption DEF Queues
    <3> QED BY <2>2, <2>5, <2>6, <3>1 DEF InQueue
  <2>9. IsInjective(H.ready_processes) /\ \A d \in Cores : IsInjective(H.process_queue[d])
    <3> HIDE DEF F, H, q, Q
    <3> QED BY <1>4, <2>2, <2>5 DEF Queues
  <2>10. Fit(H, p, None)
    <3> HIDE DEF F, H, q, Q
    <3> QED BY <1>1, <1>3, <2>2, <2>5, <2>7, <2>8, <2>9, GivenFit
  <2>11. free_resource(S, p) = proc_sleep(Given(main, q), q, LOCAL_MINDELAY)
    BY <1>7 DEF free_resource, c
  <2> HIDE DEF F, q, main, Given
  <2> QED BY <1>5, <2>2, <2>4, <2>7, <2>10, <2>11 DEF H
<1>8. CASE S.process_queue[c] = <<>> /\ S.ready_processes = <<>>
  <2>1. free_resource(S, p) = F
    BY <1>8 DEF free_resource, c
  <2>2. Serves(S, F)
    <3> HIDE DEF F
    <3> QED BY <1>2 DEF Serves, HasMail
  <2>3. Fit(F, p, None) /\ Serves(S, F) /\ F.status[p] = S.status[p]
    BY <1>2, <1>3, <2>2
  <2> HIDE DEF F
  <2> QED BY <2>1, <2>3
<1> QED BY <1>6, <1>7, <1>8

\* A process without a place may as well be the one exempted.
LEMMA Exempt ==
  ASSUME NEW S, NEW p \in OSProcess, NEW y, Fit(S, None, y), ~HasPlace(S, p)
  PROVE  Fit(S, p, y)
<1>1. Homes(S, p)
  BY ProcessAssumption DEF Fit, Homes
<1>2. Control(S, p)
  BY DEF Fit, Control
<1> QED BY <1>1, <1>2 DEF Fit

\* A queue without p.
LEMMA LeftFit ==
  ASSUME NEW S, NEW T, NEW p \in OSProcess, Fit(S, None, None), InQueue(S, p), S.running # p,
         T \in Tables, T.resource = S.resource, T.holder = S.holder,
         T.status = S.status, T.messages = S.messages, T.waitingon = S.waitingon,
         T.running = S.running, T.failed = S.failed,
         IsInjective(T.ready_processes), \A d \in Cores : IsInjective(T.process_queue[d]),
         \A r \in OSProcess :
           /\ Contains(T.ready_processes, r) => Contains(S.ready_processes, r)
           /\ \A d \in Cores : Contains(T.process_queue[d], r) => Contains(S.process_queue[d], r)
           /\ InQueue(T, r) <=> InQueue(S, r) /\ r # p
  PROVE  Fit(T, p, None) /\ Serves(S, T)
<1>0. /\ Typed(S) /\ S.failed = "no" /\ Queues(S) /\ Homes(S, None) /\ Control(S, None)
      /\ Mail(S, None) /\ Waiting(S)
  BY DEF Fit
<1>1. Typed(T)
  BY <1>0 DEF Typed
<1>2. Queues(T)
  BY <1>0 DEF Queues
<1>3. Homes(T, p)
  <2>1. ASSUME NEW r \in OSProcess
        PROVE  HasPlace(T, r) <=> T.status[r] \in {"active", "sleep"} /\ r # p
    <3>1. HasPlace(S, r) <=> S.status[r] \in {"active", "sleep"}
      BY <1>0, ProcessAssumption DEF Homes
    <3>2. S.resource[p] = None
      BY <1>0 DEF Queues
    <3> QED BY <3>1, <3>2 DEF HasPlace
  <2> QED BY <1>0, <2>1 DEF Homes
<1>4. Control(T, p) /\ Mail(T, None) /\ Waiting(T)
  BY <1>0 DEF Control, Mail, HasMail, Waiting, Alive
<1>5. Serves(S, T)
  BY DEF Serves, HasMail
<1> QED BY <1>0, <1>1, <1>2, <1>3, <1>4, <1>5 DEF Fit

LEMMA EndFit ==
  ASSUME NEW S, NEW p \in OSProcess, Fit(S, None, None), S.running # p,
         S.status[p] \in {"active", "sleep", "waitfor"}
  PROVE  LET T == end_process(S, p) IN
         Fit(T, p, None) /\ Serves(S, T) /\ T.status[p] = S.status[p]
<1>0. Typed(S) /\ Queues(S) /\ Homes(S, None) /\ p \in Process /\ p # None
  BY ProcessAssumption DEF Fit
<1>1. CASE S.resource[p] # None
  <2>1. end_process(S, p) = free_resource(S, p)
    BY <1>1 DEF end_process
  <2> QED BY <1>1, <2>1, FreeFit
<1>2. CASE S.resource[p] = None /\ S.status[p] = "waitfor"
  <2>1. end_process(S, p) = S
    BY <1>2 DEF end_process
  <2>2. ~HasPlace(S, p)
    BY <1>0, <1>2 DEF Homes
  <2>3. Serves(S, S)
    BY DEF Serves
  <2> QED BY <2>1, <2>2, <2>3, Exempt
<1>3. CASE S.resource[p] = None /\ S.status[p] # "waitfor" /\ Contains(S.ready_processes, p)
  <2> DEFINE R == RemoveFirst(S.ready_processes, p)
             T == [S EXCEPT !.ready_processes = R]
  <2>1. S.ready_processes \in Seq(OSProcess) /\ IsInjective(S.ready_processes)
    BY <1>0 DEF Typed, Tables, Queues
  <2>2. /\ R \in Seq(OSProcess) /\ IsInjective(R)
        /\ \A y : Contains(R, y) <=> Contains(S.ready_processes, y) /\ y # p
    BY <1>3, <2>1, RemoveFirstType, ListRemove
  <2>3. end_process(S, p) = T
    BY <1>3 DEF end_process
  <2> HIDE DEF R
  <2>4. /\ T \in Tables /\ T.resource = S.resource /\ T.holder = S.holder
        /\ T.status = S.status /\ T.messages = S.messages /\ T.waitingon = S.waitingon
        /\ T.running = S.running /\ T.failed = S.failed
        /\ T.process_queue = S.process_queue /\ T.ready_processes = R
    BY <1>0, <2>2 DEF Typed, Tables
  <2> HIDE DEF T
  <2>5. InQueue(S, p) /\ \A d \in Cores : ~Contains(S.process_queue[d], p)
    BY <1>0, <1>3, ProcessAssumption DEF Queues, InQueue
  <2>6. ASSUME NEW r \in OSProcess
        PROVE  /\ Contains(T.ready_processes, r) => Contains(S.ready_processes, r)
               /\ \A d \in Cores : Contains(T.process_queue[d], r) => Contains(S.process_queue[d], r)
               /\ InQueue(T, r) <=> InQueue(S, r) /\ r # p
    BY <2>2, <2>4, <2>5 DEF InQueue
  <2>7. IsInjective(T.ready_processes) /\ \A d \in Cores : IsInjective(T.process_queue[d])
    BY <1>0, <2>2, <2>4 DEF Queues
  <2>8. Fit(T, p, None) /\ Serves(S, T)
    BY <2>4, <2>5, <2>6, <2>7, LeftFit
  <2> QED BY <2>3, <2>4, <2>8
<1>4. CASE S.resource[p] = None /\ S.status[p] # "waitfor" /\ ~Contains(S.ready_processes, p)
  <2> DEFINE c == First(Queued(S, p))
             R == RemoveFirst(S.process_queue[c], p)
             T == [S EXCEPT !.process_queue[c] = R]
  <2>1. HasPlace(S, p)
    BY <1>0, <1>4 DEF Homes
  <2>2. Queued(S, p) # {} /\ Queued(S, p) \subseteq Nat
    BY <1>4, <2>1, ProcessAssumption DEF HasPlace, InQueue, Queued
  <2>3. c \in Queued(S, p)
    BY <2>2, FirstIs
  <2>4. end_process(S, p) = T
    BY <1>4, <2>2 DEF end_process
  <2> HIDE DEF c
  <2>5. c \in Cores /\ Contains(S.process_queue[c], p)
    BY <2>3 DEF Queued
  <2>6. S.process_queue[c] \in Seq(OSProcess) /\ IsInjective(S.process_queue[c])
    BY <1>0, <2>5 DEF Typed, Tables, Queues
  <2>7. /\ R \in Seq(OSProcess) /\ IsInjective(R)
        /\ \A y : Contains(R, y) <=> Contains(S.process_queue[c], y) /\ y # p
    BY <2>5, <2>6, RemoveFirstType, ListRemove
  <2> HIDE DEF R
  <2>8. /\ T \in Tables /\ T.resource = S.resource /\ T.holder = S.holder
        /\ T.status = S.status /\ T.messages = S.messages /\ T.waitingon = S.waitingon
        /\ T.running = S.running /\ T.failed = S.failed
        /\ T.process_queue = [S.process_queue EXCEPT ![c] = R]
        /\ T.ready_processes = S.ready_processes
    BY <1>0, <2>5, <2>7 DEF Typed, Tables
  <2> HIDE DEF T
  <2>9. \A d \in Cores : T.process_queue[d] = IF d = c THEN R ELSE S.process_queue[d]
    BY <1>0, <2>8 DEF Typed, Tables
  <2>10. InQueue(S, p) /\ \A d \in Cores : d # c => ~Contains(S.process_queue[d], p)
    BY <1>0, <2>5 DEF Queues, InQueue
  <2>11. ASSUME NEW r \in OSProcess
        PROVE  /\ Contains(T.ready_processes, r) => Contains(S.ready_processes, r)
               /\ \A d \in Cores : Contains(T.process_queue[d], r) => Contains(S.process_queue[d], r)
               /\ InQueue(T, r) <=> InQueue(S, r) /\ r # p
    BY <1>4, <2>5, <2>7, <2>8, <2>9, <2>10 DEF InQueue
  <2>12. IsInjective(T.ready_processes) /\ \A d \in Cores : IsInjective(T.process_queue[d])
    BY <1>0, <2>7, <2>8, <2>9 DEF Queues
  <2>13. Fit(T, p, None) /\ Serves(S, T)
    BY <2>8, <2>10, <2>11, <2>12, LeftFit
  <2> QED BY <2>4, <2>8, <2>13
<1> QED BY <1>1, <1>2, <1>3, <1>4

LEMMA DeactivateFit ==
  ASSUME NEW S, NEW p \in Process, Fit(S, None, None), S.running # p, Alive(S, p),
         p \in OSProcess => S.status[p] # "scheduled"
  PROVE  LET T == proc_deactivate(S, p) IN
         /\ Fit(T, None, None) /\ T.running = S.running /\ T.waitingon = S.waitingon
         /\ T.status[p] = "inactive"
         /\ \A r \in Process : r # p => \/ T.status[r] = S.status[r]
                                        \/ S.status[r] = "active" /\ T.status[r] = "sleep"
<1> DEFINE E == IF p \in OSProcess THEN end_process(S, p) ELSE S
           T == [E EXCEPT !.status[p] = "inactive"]
           x == IF p \in OSProcess THEN p ELSE None
<1>1. Typed(S) /\ p # None
  BY ProcessAssumption DEF Fit
<1>2. Fit(E, x, None) /\ Serves(S, E)
  <2>1. p \in OSProcess => S.status[p] \in {"active", "sleep", "waitfor"}
    BY <1>1 DEF Alive, Typed, Tables, Statuses
  <2>2. p \notin OSProcess => E = S /\ Serves(S, S)
    BY DEF Serves
  <2> QED BY <2>1, <2>2, EndFit
<1>3. proc_deactivate(S, p) = T
  BY DEF proc_deactivate
<1> HIDE DEF E
<1>4. /\ Typed(E) /\ E.failed = "no" /\ Queues(E) /\ Homes(E, x) /\ Control(E, x)
      /\ Mail(E, None) /\ Waiting(E)
  BY <1>2 DEF Fit
<1>5. /\ T.status = [E.status EXCEPT ![p] = "inactive"] /\ SameCores(E, T)
      /\ T.messages = E.messages /\ T.waitingon = E.waitingon /\ T.running = E.running
      /\ T.failed = E.failed
  BY <1>4 DEF Typed, Tables, SameCores
<1>6. Typed(T)
  BY <1>4, StatusTyped DEF Statuses
<1> HIDE DEF T
<1>7. \A q \in Process : T.status[q] = IF q = p THEN "inactive" ELSE E.status[q]
  BY <1>4, <1>5 DEF Typed, Tables
<1>8. p \in OSProcess => ~HasPlace(E, p)
  BY <1>4 DEF Homes
<1>9. Queues(T)
  BY <1>4, <1>5, <1>8, QueuesStep DEF HasPlace
<1>10. Homes(T, None)
  <2>1. x \in {None, p}
    OBVIOUS
  <2> HIDE DEF x
  <2> QED BY <1>4, <1>5, <1>8, <2>1, HomesStep
<1>11. Control(T, None)
  <2>1. E.running \in Process \cup {None} /\ E.running # p
    BY <1>2, <1>4 DEF Typed, Tables, Serves
  <2> QED BY <1>4, <1>5, <1>7, <2>1 DEF Control, SameCores
<1>12. Mail(T, None)
  BY <1>4, <1>5, MailStep
<1>13. Waiting(T)
  BY <1>4, <1>5, WaitingStep
<1>14. Fit(T, None, None)
  BY <1>4, <1>5, <1>6, <1>9, <1>10, <1>11, <1>12, <1>13 DEF Fit
<1>15. /\ T.running = S.running /\ T.waitingon = S.waitingon /\ T.status[p] = "inactive"
       /\ \A r \in Process : r # p => \/ T.status[r] = S.status[r]
                                      \/ S.status[r] = "active" /\ T.status[r] = "sleep"
  BY <1>2, <1>5, <1>7 DEF Serves
<1> QED BY <1>3, <1>14, <1>15

LEMMA RunFit ==
  ASSUME NEW S, NEW p \in Process, Fit(S, None, None), S.status[p] = "active",
         p \in OSProcess => S.resource[p] # None
  PROVE  Fit([S EXCEPT !.running = p], None, None)
<1> DEFINE T == [S EXCEPT !.running = p]
<1>1. Typed(S)
  BY DEF Fit
<1>2. /\ T.status = S.status /\ SameCores(S, T)
      /\ T.messages = S.messages /\ T.waitingon = S.waitingon /\ T.running = p
      /\ T.failed = S.failed
  BY <1>1 DEF Typed, Tables, SameCores
<1>3. Typed(T)
  BY <1>1, RunningTyped
<1> HIDE DEF T
<1>4. Queues(T) /\ Homes(T, None)
  BY <1>2 DEF Fit, Queues, Homes, SameCores, InQueue, HasPlace
<1>5. Control(T, None)
  BY <1>2 DEF Control, SameCores
<1>6. Mail(T, None) /\ Waiting(T)
  BY <1>2 DEF Fit, Mail, HasMail, Waiting, Alive
<1>7. Fit(T, None, None)
  BY <1>2, <1>3, <1>4, <1>5, <1>6 DEF Fit
<1> QED BY <1>7 DEF T

\* A queue with p at its end.
LEMMA JoinedFit ==
  ASSUME NEW S, NEW T, NEW p \in OSProcess, Fit(S, p, None), S.running = None,
         S.status[p] = "active",
         T \in Tables, T.resource = S.resource, T.holder = S.holder,
         T.status = S.status, T.messages = S.messages, T.waitingon = S.waitingon,
         T.running = S.running, T.failed = S.failed,
         IsInjective(T.ready_processes), \A d \in Cores : IsInjective(T.process_queue[d]),
         \A r \in OSProcess :
           /\ Contains(T.ready_processes, r) =>
                Contains(S.ready_processes, r) \/ (r = p /\ req_res[p] = None)
           /\ \A d \in Cores : Contains(T.process_queue[d], r) =>
                Contains(S.process_queue[d], r) \/ (r = p /\ req_res[p] = d)
           /\ InQueue(T, r) <=> InQueue(S, r) \/ r = p
  PROVE  Fit(T, None, None)
<1>0. /\ Typed(S) /\ S.failed = "no" /\ Queues(S) /\ Homes(S, p)
      /\ Mail(S, None) /\ Waiting(S)
  BY DEF Fit
<1>1. Typed(T) /\ p # None
  BY <1>0, ProcessAssumption DEF Typed
<1>2. S.resource[p] = None
  BY <1>0 DEF Homes, HasPlace
<1>3. Queues(T)
  <2>1. \A r \in OSProcess : InQueue(T, r) => T.resource[r] = None /\ T.status[r] = "active"
    BY <1>0, <1>2 DEF Queues
  <2>2. \A r \in OSProcess : /\ Contains(T.ready_processes, r) => req_res[r] = None
                             /\ \A d \in Cores : Contains(T.process_queue[d], r) => req_res[r] = d
    BY <1>0 DEF Queues
  <2> QED BY <2>1, <2>2 DEF Queues
<1>4. Homes(T, None)
  <2>1. ASSUME NEW r \in OSProcess
        PROVE  HasPlace(T, r) <=> T.status[r] \in {"active", "sleep"} /\ r # None
    <3>1. HasPlace(S, r) <=> S.status[r] \in {"active", "sleep"} /\ r # p
      BY <1>0 DEF Homes
    <3>2. r # None
      BY ProcessAssumption
    <3> QED BY <1>2, <3>1, <3>2 DEF HasPlace
  <2> QED BY <1>0, <2>1 DEF Homes
<1>5. Control(T, None) /\ Mail(T, None) /\ Waiting(T)
  BY <1>0 DEF Control, Mail, HasMail, Waiting, Alive
<1> QED BY <1>0, <1>1, <1>3, <1>4, <1>5 DEF Fit

\* An idle core for p, which goes on.
LEMMA TakenFit ==
  ASSUME NEW S, NEW p \in OSProcess, NEW c \in Cores, Fit(S, p, None), S.holder[c] = None,
         S.status[p] = "active"
  PROVE  Fit([S EXCEPT !.holder[c] = p, !.resource[p] = c, !.running = p], None, None)
<1> DEFINE T == [S EXCEPT !.holder[c] = p, !.resource[p] = c, !.running = p]
<1>0. /\ Typed(S) /\ S.failed = "no" /\ Queues(S) /\ Homes(S, p)
      /\ Mail(S, None) /\ Waiting(S)
  BY DEF Fit
<1>1. p \in Process /\ c # None /\ p # None
  BY ProcessAssumption
<1>2. /\ T.resource = [S.resource EXCEPT ![p] = c] /\ T.holder = [S.holder EXCEPT ![c] = p]
      /\ T.status = S.status /\ T.process_queue = S.process_queue
      /\ T.ready_processes = S.ready_processes /\ T.messages = S.messages
      /\ T.waitingon = S.waitingon /\ T.running = p /\ T.failed = S.failed
  BY <1>0 DEF Typed, Tables
<1>3. Typed(T)
  BY <1>0, <1>1 DEF Typed, Tables
<1> HIDE DEF T
<1>4. /\ \A r \in Process : T.resource[r] = IF r = p THEN c ELSE S.resource[r]
      /\ \A d \in Cores : T.holder[d] = IF d = c THEN p ELSE S.holder[d]
  BY <1>0, <1>2 DEF Typed, Tables
<1>5. ~HasPlace(S, p)
  BY <1>0 DEF Homes
<1>6. \A r \in OSProcess : r \in Process /\ r # None /\ (InQueue(T, r) <=> InQueue(S, r))
  BY <1>2, ProcessAssumption DEF InQueue
<1>7. Queues(T)
  <2>1. \A r \in OSProcess : InQueue(T, r) => T.resource[r] = None /\ T.status[r] = "active"
    BY <1>0, <1>2, <1>4, <1>5, <1>6 DEF Queues, HasPlace
  <2> QED BY <1>0, <1>2, <2>1 DEF Queues
<1>8. Homes(T, None)
  <2>1. ASSUME NEW r \in Process, NEW d \in Cores PROVE T.resource[r] = d <=> T.holder[d] = r
    <3>1. S.resource[r] = d <=> S.holder[d] = r
      BY <1>0 DEF Homes
    <3>2. d # None /\ r # None /\ S.resource[p] = None
      BY <1>5, ProcessAssumption DEF HasPlace
    <3> QED BY <1>1, <1>4, <3>1, <3>2
  <2>2. ASSUME NEW r \in OSProcess
        PROVE  HasPlace(T, r) <=> T.status[r] \in {"active", "sleep"} /\ r # None
    <3>1. HasPlace(S, r) <=> S.status[r] \in {"active", "sleep"} /\ r # p
      BY <1>0 DEF Homes
    <3> QED BY <1>1, <1>2, <1>4, <1>6, <3>1 DEF HasPlace
  <2> QED BY <2>1, <2>2 DEF Homes
<1>9. Control(T, None)
  BY <1>1, <1>2, <1>4 DEF Control
<1>10. Mail(T, None) /\ Waiting(T)
  BY <1>0, <1>2 DEF Mail, HasMail, Waiting, Alive
<1>11. Fit(T, None, None)
  BY <1>0, <1>2, <1>3, <1>7, <1>8, <1>9, <1>10 DEF Fit
<1> QED BY <1>11 DEF T

LEMMA AssignFit ==
  ASSUME NEW S, NEW p \in OSProcess, Fit(S, p, None), Good(S), S.running = None,
         S.status[p] = "active"
  PROVE  Fit(assign_process(S, p), None, None)
<1> DEFINE idle == {c \in Cores : S.holder[c] = None}
<1>1. Typed(S) /\ Queues(S) /\ S.resource[p] = None /\ ~InQueue(S, p)
  BY DEF Fit, Homes, HasPlace
<1>2. ASSUME NEW c \in idle
      PROVE  /\ Fit([S EXCEPT !.holder[c] = p, !.resource[p] = c, !.running = p], None, None)
             /\ S.process_queue[c] = <<>>
  BY <1>2, TakenFit DEF Good
<1>3. CASE req_res[p] # None
  <2> DEFINE c == req_res[p]
             Q == Append(S.process_queue[c], p)
             T == [S EXCEPT !.process_queue[c] = Q]
  <2>1. c \in Cores
    BY <1>3, ProcessAssumption
  <2>2. CASE c \in idle
    BY <1>1, <1>2, <1>3, <2>2 DEF assign_process
  <2>3. CASE c \notin idle
    <3>1. assign_process(S, p) = T
      BY <1>1, <1>3, <2>3 DEF assign_process
    <3>2. /\ S.process_queue[c] \in Seq(OSProcess) /\ IsInjective(S.process_queue[c])
          /\ ~Contains(S.process_queue[c], p)
      BY <1>1, <2>1 DEF Typed, Tables, Queues, InQueue
    <3>3. /\ Q \in Seq(OSProcess) /\ IsInjective(Q)
          /\ \A y : Contains(Q, y) <=> Contains(S.process_queue[c], y) \/ y = p
      BY <3>2, ListAppend
    <3> HIDE DEF Q
    <3>4. /\ T \in Tables /\ T.resource = S.resource /\ T.holder = S.holder
          /\ T.status = S.status /\ T.messages = S.messages /\ T.waitingon = S.waitingon
          /\ T.running = S.running /\ T.failed = S.failed
          /\ T.process_queue = [S.process_queue EXCEPT ![c] = Q]
          /\ T.ready_processes = S.ready_processes
      BY <1>1, <2>1, <3>3 DEF Typed, Tables
    <3> HIDE DEF T
    <3>5. \A d \in Cores : T.process_queue[d] = IF d = c THEN Q ELSE S.process_queue[d]
      BY <1>1, <3>4 DEF Typed, Tables
    <3>6. ASSUME NEW r \in OSProcess
          PROVE  /\ Contains(T.ready_processes, r) =>
                      Contains(S.ready_processes, r) \/ (r = p /\ req_res[p] = None)
                 /\ \A d \in Cores : Contains(T.process_queue[d], r) =>
                      Contains(S.process_queue[d], r) \/ (r = p /\ req_res[p] = d)
                 /\ InQueue(T, r) <=> InQueue(S, r) \/ r = p
      BY <2>1, <3>3, <3>4, <3>5 DEF InQueue
    <3>7. IsInjective(T.ready_processes) /\ \A d \in Cores : IsInjective(T.process_queue[d])
      BY <1>1, <3>3, <3>4, <3>5 DEF Queues
    <3>8. /\ T \in Tables /\ T.resource = S.resource /\ T.holder = S.holder
          /\ T.status = S.status /\ T.messages = S.messages /\ T.waitingon = S.waitingon
          /\ T.running = S.running /\ T.failed = S.failed
      BY <3>4
    <3>9. Fit(T, None, None)
      BY ONLY <3>6, <3>7, <3>8, JoinedFit, Fit(S, p, None), S.running = None, S.status[p] = "active",
              p \in OSProcess
    <3> QED BY <3>1, <3>9
  <2> QED BY <2>2, <2>3
<1>4. CASE req_res[p] = None /\ S.ready_processes = <<>> /\ idle # {}
  <2>1. idle \subseteq Nat
    BY ProcessAssumption
  <2>2. First(idle) \in idle
    <3> HIDE DEF idle
    <3> QED BY <1>4, <2>1, FirstIs
  <2>3. assign_process(S, p) =
          [S EXCEPT !.holder[First(idle)] = p, !.resource[p] = First(idle), !.running = p]
    BY <1>1, <1>2, <1>4, <2>2 DEF assign_process
  <2> QED BY <1>2, <2>2, <2>3
<1>5. CASE req_res[p] = None /\ ~(S.ready_processes = <<>> /\ idle # {})
  <2> DEFINE Q == Append(S.ready_processes, p)
             T == [S EXCEPT !.ready_processes = Q]
  <2>1. assign_process(S, p) = T
    BY <1>1, <1>5 DEF assign_process
  <2>2. /\ S.ready_processes \in Seq(OSProcess) /\ IsInjective(S.ready_processes)
        /\ ~Contains(S.ready_processes, p)
    BY <1>1 DEF Typed, Tables, Queues, InQueue
  <2>3. /\ Q \in Seq(OSProcess) /\ IsInjective(Q)
        /\ \A y : Contains(Q, y) <=> Contains(S.ready_processes, y) \/ y = p
    BY <2>2, ListAppend
  <2> HIDE DEF Q
  <2>4. /\ T \in Tables /\ T.resource = S.resource /\ T.holder = S.holder
        /\ T.status = S.status /\ T.messages = S.messages /\ T.waitingon = S.waitingon
        /\ T.running = S.running /\ T.failed = S.failed
        /\ T.process_queue = S.process_queue /\ T.ready_processes = Q
    BY <1>1, <2>3 DEF Typed, Tables
  <2> HIDE DEF T
  <2>5. ASSUME NEW r \in OSProcess
        PROVE  /\ Contains(T.ready_processes, r) =>
                    Contains(S.ready_processes, r) \/ (r = p /\ req_res[p] = None)
               /\ \A d \in Cores : Contains(T.process_queue[d], r) =>
                    Contains(S.process_queue[d], r) \/ (r = p /\ req_res[p] = d)
               /\ InQueue(T, r) <=> InQueue(S, r) \/ r = p
    BY <1>5, <2>3, <2>4 DEF InQueue
  <2>6. IsInjective(T.ready_processes) /\ \A d \in Cores : IsInjective(T.process_queue[d])
    BY <1>1, <2>3, <2>4 DEF Queues
  <2>7. Fit(T, None, None)
    BY <2>4, <2>5, <2>6, JoinedFit
  <2> QED BY <2>1, <2>7
<1> QED BY <1>3, <1>4, <1>5

LEMMA ReleaseFit ==
  ASSUME NEW S, Fit(S, None, None)
  PROVE  LET T == [S EXCEPT !.running = None] IN
         /\ Fit(T, None, None) /\ T.running = None /\ T.status = S.status
         /\ T.resource = S.resource /\ T.waitingon = S.waitingon
<1> DEFINE T == [S EXCEPT !.running = None]
<1>1. Typed(S)
  BY DEF Fit
<1>2. /\ T.status = S.status /\ SameCores(S, T)
      /\ T.messages = S.messages /\ T.waitingon = S.waitingon /\ T.running = None
      /\ T.failed = S.failed
  BY <1>1 DEF Typed, Tables, SameCores
<1>3. Typed(T)
  BY <1>1, RunningTyped
<1> HIDE DEF T
<1>4. Queues(T) /\ Homes(T, None)
  BY <1>2 DEF Fit, Queues, Homes, SameCores, InQueue, HasPlace
<1>5. Control(T, None)
  BY <1>2 DEF Control
<1>6. Mail(T, None) /\ Waiting(T)
  BY <1>2 DEF Fit, Mail, HasMail, Waiting, Alive
<1>7. Fit(T, None, None)
  BY <1>2, <1>3, <1>4, <1>5, <1>6 DEF Fit
<1> QED BY <1>2, <1>7 DEF T, SameCores

LEMMA ResumeFit ==
  ASSUME NEW S, NEW p \in Process, NEW y \in {None, p}, Fit(S, None, y), Good(S),
         S.running = None, S.status[p] \in {"sleep", "scheduled", "waitfor"},
         ~HasMail(S, p), ~Awaited(S, p)
  PROVE  Fit(Resume(S, p), None, None)
<1> DEFINE A == [S EXCEPT !.status[p] = "active"]
           z == IF p \in OSProcess /\ S.status[p] # "sleep" THEN p ELSE None
<1>1. /\ Typed(S) /\ S.failed = "no" /\ Queues(S) /\ Homes(S, None) /\ Mail(S, y) /\ Waiting(S)
      /\ p # None
  BY ProcessAssumption DEF Fit
<1>2. /\ A.status = [S.status EXCEPT ![p] = "active"] /\ SameCores(S, A)
      /\ A.messages = S.messages /\ A.waitingon = S.waitingon /\ A.running = None
      /\ A.failed = S.failed
  BY <1>1 DEF Typed, Tables, SameCores
<1>3. Typed(A) /\ Good(A)
  BY <1>1, StatusTyped, StatusGood DEF Statuses
<1>4. Resume(S, p) = IF p \in OSProcess THEN assign_process(A, p) ELSE [A EXCEPT !.running = p]
  BY DEF Resume
<1> HIDE DEF A
<1>5. A.status[p] = "active"
  BY <1>1, <1>2 DEF Typed, Tables
<1>6. Queues(A)
  BY <1>1, <1>2, QueuesStep
<1>7. Homes(A, z)
  <2>1. p \in OSProcess => (HasPlace(S, p) <=> "active" \in {"active", "sleep"} /\ p # z)
    BY <1>1 DEF Homes
  <2>2. z \in {None, p}
    OBVIOUS
  <2> HIDE DEF z
  <2> QED BY <1>1, <1>2, <2>1, <2>2, HomesStep
<1>8. Mail(A, None)
  BY <1>1, <1>2, MailStep
<1>9. Waiting(A)
  BY <1>1, <1>2, WaitingStep DEF Alive
<1>10. Fit(A, z, None)
  <2>1. Control(A, z)
    BY <1>2 DEF Control
  <2> QED BY <1>1, <1>2, <1>3, <1>6, <1>7, <1>8, <1>9, <2>1 DEF Fit
<1>11. CASE p \notin OSProcess
  BY <1>4, <1>5, <1>10, <1>11, RunFit
<1>12. CASE p \in OSProcess /\ S.status[p] = "sleep"
  <2>1. HasPlace(S, p) /\ ~InQueue(S, p)
    BY <1>1, <1>12 DEF Homes, Queues
  <2>2. A.resource[p] # None
    BY <1>2, <2>1 DEF HasPlace, SameCores
  <2>3. assign_process(A, p) = [A EXCEPT !.running = p]
    BY <2>2 DEF assign_process
  <2> QED BY <1>4, <1>5, <1>10, <1>12, <2>2, <2>3, RunFit
<1>13. CASE p \in OSProcess /\ S.status[p] # "sleep"
  <2>1. Fit(A, p, None)
    BY <1>10, <1>13
  <2> QED BY <1>2, <1>3, <1>4, <1>5, <1>13, <2>1, AssignFit
<1> QED BY <1>11, <1>12, <1>13

\* A process that may be scheduled once more.
FreshIn(S, q) == ~Alive(S, q) /\ ~HasMail(S, q) /\ ~Awaited(S, q)

LEMMA NewFit ==
  ASSUME NEW S, NEW q \in Process, NEW parent \in Process \cup {None},
         NEW waiter \in Process \cup {None}, Fit(S, None, None), FreshIn(S, q),
         waiter # None => S.status[waiter] = "waitfor" /\ ~Awaited(S, waiter)
  PROVE  LET T == proc_new(S, q, parent, waiter) IN
         /\ Fit(T, None, q) /\ T.status[q] = "scheduled" /\ T.running = S.running
         /\ ~HasMail(T, q) /\ ~Awaited(T, q)
<1> DEFINE N == [S EXCEPT !.status[q] = "scheduled", !.waitingon[q] = waiter,
                          !.children[q] = <<>>]
           U == [N EXCEPT !.children[parent] = Append(@, q)]
           T == proc_new(S, q, parent, waiter)
<1>0. /\ Typed(S) /\ S.failed = "no" /\ Queues(S) /\ Homes(S, None) /\ Control(S, None)
      /\ Mail(S, None) /\ Waiting(S)
  BY DEF Fit
<1>1. S.status[q] \in {"none", "inactive"} /\ q # None /\ waiter # q
  BY ProcessAssumption DEF FreshIn, Alive
<1>2. T = IF parent = None THEN N ELSE U
  BY <1>1 DEF proc_new
<1>3. Typed(T)
  BY <1>0, NewTyped
<1>4. /\ T.status = [S.status EXCEPT ![q] = "scheduled"]
      /\ T.waitingon = [S.waitingon EXCEPT ![q] = waiter]
      /\ SameCores(S, T) /\ T.messages = S.messages /\ T.running = S.running
      /\ T.failed = S.failed
  <2>1. /\ N.status = [S.status EXCEPT ![q] = "scheduled"]
        /\ N.waitingon = [S.waitingon EXCEPT ![q] = waiter]
        /\ SameCores(S, N) /\ N.messages = S.messages /\ N.running = S.running
        /\ N.failed = S.failed /\ DOMAIN N = DOMAIN S
    BY <1>0 DEF Typed, Tables, SameCores
  <2>2. /\ DOMAIN S = Fields
    BY <1>0 DEF Typed, Tables, Fields
  <2> HIDE DEF N, T
  <2>3. /\ U.status = N.status /\ U.waitingon = N.waitingon
        /\ SameCores(N, U) /\ U.messages = N.messages /\ U.running = N.running
        /\ U.failed = N.failed
    BY <2>1, <2>2 DEF SameCores, Fields
  <2> HIDE DEF U
  <2> QED BY <1>2, <2>1, <2>3 DEF SameCores
<1> HIDE DEF T
<1>5. /\ \A r \in Process : T.status[r] = IF r = q THEN "scheduled" ELSE S.status[r]
      /\ \A r \in Process : T.waitingon[r] = IF r = q THEN waiter ELSE S.waitingon[r]
  BY <1>0, <1>4 DEF Typed, Tables
<1>6. \A r \in Process : r # q => (Alive(T, r) <=> Alive(S, r))
  BY <1>5 DEF Alive
<1>7. Queues(T)
  <2>1. ~(q \in OSProcess /\ InQueue(S, q))
    BY <1>0, <1>1 DEF Queues
  <2> QED BY <1>0, <1>4, <2>1, QueuesStep
<1>8. Homes(T, None)
  <2>1. q \in OSProcess => ~HasPlace(S, q)
    BY <1>0, <1>1 DEF Homes
  <2> QED BY <1>0, <1>4, <2>1, HomesStep
<1>9. Control(T, None)
  <2>1. S.running \in Process \cup {None}
    BY <1>0 DEF Typed, Tables
  <2> QED BY <1>0, <1>1, <1>4, <1>5, <2>1 DEF Control, SameCores
<1>10. ~HasMail(T, q)
  BY <1>4 DEF FreshIn, HasMail
<1>11. Mail(T, q)
  <2>1. \A i \in DOMAIN S.messages : S.messages[i].pid \in Process
    <3>1. S.messages \in Seq(Message)
      BY <1>0 DEF Typed, Tables
    <3>2. \A i \in DOMAIN S.messages : S.messages[i] \in Message
      BY <3>1
    <3> QED BY <3>2 DEF Message
  <2>2. ASSUME NEW i \in DOMAIN S.messages
        PROVE  /\ S.messages[i].pid # q
               /\ T.status[S.messages[i].pid] \in {Expects(S.messages[i].wakeup), "inactive"}
    <3>1. S.messages[i].pid # q
      BY DEF FreshIn, HasMail
    <3>2. S.status[S.messages[i].pid] \in {Expects(S.messages[i].wakeup), "inactive"}
      BY <1>0 DEF Mail
    <3> QED BY <1>5, <2>1, <3>1, <3>2
  <2>3. ASSUME NEW r \in Process, T.status[r] \in {"sleep", "scheduled"}, r # q PROVE HasMail(T, r)
    BY <1>0, <1>4, <1>5, <2>3, ProcessAssumption DEF Mail, HasMail
  <2>4. \A i, j \in DOMAIN S.messages : S.messages[i].pid = S.messages[j].pid => i = j
    BY <1>0 DEF Mail
  <2> QED BY <1>4, <2>2, <2>3, <2>4 DEF Mail
<1>12. Waiting(T)
  <2>1. \A r \in Process : r # q /\ Alive(T, r) => S.waitingon[r] # q
    BY <1>6 DEF FreshIn, Awaited
  <2>2. ASSUME NEW r \in Process, Alive(T, r), T.waitingon[r] # None
        PROVE  T.status[T.waitingon[r]] \in {"waitfor", "inactive"}
    <3>1. CASE r = q
      BY <1>1, <1>5, <2>2, <3>1
    <3>2. CASE r # q
      <4>1. /\ S.waitingon[r] \in Process /\ T.waitingon[r] = S.waitingon[r]
            /\ S.status[S.waitingon[r]] \in {"waitfor", "inactive"}
        BY <1>0, <1>5, <1>6, <2>2, <3>2 DEF Waiting, Typed, Tables
      <4> QED BY <1>5, <2>1, <2>2, <3>2, <4>1
    <3> QED BY <3>1, <3>2
  <2>3. ASSUME NEW r \in Process, NEW s \in Process, Alive(T, r), Alive(T, s),
               T.waitingon[r] # None, T.waitingon[r] = T.waitingon[s]
        PROVE  r = s
    <3>1. \A u \in Process : u # q /\ Alive(T, u) /\ waiter # None => S.waitingon[u] # waiter
      BY <1>6 DEF Awaited
    <3>2. CASE r = q \/ s = q
      BY <1>5, <2>3, <3>1, <3>2
    <3>3. CASE r # q /\ s # q
      BY <1>0, <1>5, <1>6, <2>3, <3>3 DEF Waiting
    <3> QED BY <3>2, <3>3
  <2> QED BY <2>2, <2>3 DEF Waiting
<1>13. ~Awaited(T, q)
  BY <1>1, <1>5, <1>6 DEF FreshIn, Awaited
<1>14. Fit(T, None, q)
  BY <1>0, <1>3, <1>4, <1>7, <1>8, <1>9, <1>11, <1>12 DEF Fit
<1>15. T.status[q] = "scheduled" /\ T.running = S.running
  BY <1>4, <1>5
<1> QED BY <1>10, <1>13, <1>14, <1>15 DEF T

LEMMA ScheduleFit ==
  ASSUME NEW S, NEW q \in Process, NEW d \in Nat, NEW parent \in Process \cup {None},
         NEW waiter \in Process \cup {None}, Fit(S, None, None), FreshIn(S, q), Good(S),
         waiter # None => S.status[waiter] = "waitfor" /\ ~Awaited(S, waiter),
         d = 0 => S.running = None
  PROVE  Fit(proc_schedule(S, q, d, parent, waiter), None, None)
<1> DEFINE T == proc_new(S, q, parent, waiter)
           U == Send(T, q, FALSE, d)
<1>1. /\ Fit(T, None, q) /\ T.status[q] = "scheduled" /\ T.running = S.running
      /\ ~HasMail(T, q) /\ ~Awaited(T, q)
  BY NewFit
<1>2. Good(T)
  BY NewGood
<1> HIDE DEF T
<1>3. /\ Typed(T) /\ T.failed = "no" /\ Queues(T) /\ Homes(T, None) /\ Control(T, None)
      /\ Mail(T, q) /\ Waiting(T)
  BY <1>1 DEF Fit
<1>4. CASE d = 0
  <2>1. proc_schedule(S, q, d, parent, waiter) = Resume(T, q)
    BY <1>3, <1>4 DEF proc_schedule, T
  <2> QED BY <1>1, <1>2, <1>4, <2>1, ResumeFit
<1>5. CASE d > 0
  <2>1. proc_schedule(S, q, d, parent, waiter) = U
    BY <1>3, <1>5 DEF proc_schedule, T
  <2>2. Typed(U)
    BY <1>3, SendTyped
  <2>3. /\ U.status = T.status /\ SameCores(T, U) /\ U.waitingon = T.waitingon
        /\ U.running = T.running /\ U.failed = T.failed
    BY <1>3 DEF Send, Typed, Tables, SameCores
  <2>4. U.status = [T.status EXCEPT ![q] = Expects(FALSE)]
    BY <1>1, <1>3, <2>3 DEF Typed, Tables, Expects
  <2> HIDE DEF U
  <2>5. Mail(U, None)
    BY <1>1, <1>3, <2>4, SendMail DEF U
  <2>6. Queues(U) /\ Homes(U, None) /\ Control(U, None) /\ Waiting(U)
    BY <1>3, <2>3 DEF Queues, Homes, Control, Waiting, Alive, SameCores, InQueue, HasPlace
  <2> QED BY <1>3, <2>1, <2>2, <2>3, <2>5, <2>6 DEF Fit
<1> QED BY <1>4, <1>5

\* In the operating system the place of p is given up before p waits.
LEMMA WaitForFit ==
  ASSUME NEW S, NEW p \in Process, NEW q \in Process, Fit(S, None, None), FreshIn(S, q), Good(S),
         S.running = p
  PROVE  /\ p \notin OSProcess => Fit(proc_waitfor(S, p, q), None, None)
         /\ p \in OSProcess => /\ S.resource[p] # None
                               /\ Fit(proc_waitfor(free_resource(S, p), p, q), None, None)
<1> DEFINE F == IF p \in OSProcess THEN free_resource(S, p) ELSE S
           x == IF p \in OSProcess THEN p ELSE None
           T == [F EXCEPT !.status[p] = "waitfor", !.running = None]
<1>1. /\ S.status[p] = "active" /\ p # None /\ q # p
      /\ p \in OSProcess => S.resource[p] # None
  BY ProcessAssumption DEF Fit, Control, FreshIn, Alive
<1>2. Fit(F, x, None) /\ Serves(S, F) /\ F.status[p] = "active" /\ Good(F)
  <2>1. Serves(S, S)
    BY DEF Serves
  <2> QED BY <1>1, <2>1, FreeFit, FreeGood
<1> HIDE DEF F
<1>3. /\ Typed(F) /\ F.failed = "no" /\ Queues(F) /\ Homes(F, x) /\ Mail(F, None) /\ Waiting(F)
  BY <1>2 DEF Fit
<1>4. /\ T.status = [F.status EXCEPT ![p] = "waitfor"] /\ SameCores(F, T)
      /\ T.messages = F.messages /\ T.waitingon = F.waitingon /\ T.running = None
      /\ T.failed = F.failed
  BY <1>3 DEF Typed, Tables, SameCores
<1>5. Typed(T) /\ Good(T)
  <2> DEFINE W == [F EXCEPT !.status[p] = "waitfor"]
  <2>1. T = [W EXCEPT !.running = None]
    OBVIOUS
  <2>2. Typed(W) /\ Good(W)
    BY <1>2, <1>3, StatusTyped, StatusGood DEF Statuses
  <2> HIDE DEF W, T
  <2> QED BY <2>1, <2>2, RunningTyped, RunningGood
<1>6. proc_waitfor(F, p, q) = proc_schedule(T, q, 0, p, p)
  BY <1>2 DEF proc_waitfor
<1> HIDE DEF T
<1>7. \A r \in Process : T.status[r] = IF r = p THEN "waitfor" ELSE F.status[r]
  BY <1>3, <1>4 DEF Typed, Tables
<1>8. p \in OSProcess => ~HasPlace(F, p)
  BY <1>3 DEF Homes
<1>9. Queues(T)
  BY <1>3, <1>4, <1>8, QueuesStep DEF HasPlace
<1>10. Homes(T, None)
  <2>1. x \in {None, p}
    OBVIOUS
  <2> HIDE DEF x
  <2> QED BY <1>3, <1>4, <1>8, <2>1, HomesStep
<1>11. ~HasMail(F, p) /\ ~Awaited(F, p)
  BY <1>2, <1>3, ActiveFree, NotAwaited
<1>12. Mail(T, None)
  BY <1>3, <1>4, <1>11, MailStep
<1>13. Waiting(T)
  BY <1>2, <1>3, <1>4, WaitingStep DEF Alive
<1>14. Fit(T, None, None)
  <2>1. Control(T, None)
    BY <1>4 DEF Control
  <2> QED BY <1>3, <1>4, <1>5, <1>9, <1>10, <1>12, <1>13, <2>1 DEF Fit
<1>15. \A r \in Process : Alive(T, r) <=> Alive(F, r)
  BY <1>2, <1>7 DEF Alive
<1>16. ~Awaited(T, p)
  BY <1>4, <1>11, <1>15 DEF Awaited
<1>17. FreshIn(T, q)
  <2>1. ~Alive(S, q) /\ ~HasMail(S, q) /\ ~Awaited(S, q)
    BY DEF FreshIn
  <2>2. \A r \in Process : Alive(F, r) => Alive(S, r)
    BY <1>2 DEF Alive, Serves
  <2>3. ~Alive(T, q)
    BY <1>15, <2>1, <2>2
  <2>4. ~HasMail(T, q)
    BY <1>2, <1>4, <2>1 DEF HasMail, Serves, Alive
  <2>5. ~Awaited(T, q)
    BY <1>2, <1>4, <1>15, <2>1, <2>2 DEF Awaited, Serves
  <2> QED BY <2>3, <2>4, <2>5 DEF FreshIn
<1>18. T.status[p] = "waitfor"
  BY <1>7
<1>19. Fit(proc_schedule(T, q, 0, p, p), None, None)
  BY <1>4, <1>5, <1>14, <1>16, <1>17, <1>18, ScheduleFit
<1> QED BY <1>1, <1>6, <1>19 DEF F

\* What is killed is not running and, in the operating system, has a place.
Killable(S, q) ==
  /\ S.status[q] # "none"
  /\ Alive(S, q) => q # S.running /\ (q \in OSProcess => S.status[q] # "scheduled")

LEMMA KillFit ==
  ASSUME NEW S, NEW q \in Process, Fit(S, None, None), Killable(S, q)
  PROVE  LET T == proc_kill(S, q) IN
         Fit(T, None, None) /\ \A r \in Process : Killable(S, r) => Killable(T, r)
<1>1. S.failed = "no" /\ S.status[q] # "none"
  BY DEF Fit, Killable
<1>2. CASE S.status[q] = "inactive"
  BY <1>1, <1>2 DEF proc_kill
<1>3. CASE S.status[q] # "inactive"
  <2> DEFINE T == proc_deactivate(S, q)
  <2>1. proc_kill(S, q) = T
    BY <1>1, <1>3 DEF proc_kill
  <2>2. S.running # q /\ Alive(S, q) /\ (q \in OSProcess => S.status[q] # "scheduled")
    BY <1>1, <1>3 DEF Killable, Alive
  <2>3. /\ Fit(T, None, None) /\ T.running = S.running
        /\ T.status[q] = "inactive"
        /\ \A r \in Process : r # q => \/ T.status[r] = S.status[r]
                                       \/ S.status[r] = "active" /\ T.status[r] = "sleep"
    BY <2>2, DeactivateFit
  <2> HIDE DEF T
  <2>4. ASSUME NEW r \in Process, Killable(S, r) PROVE Killable(T, r)
    BY <2>3, <2>4 DEF Killable, Alive
  <2> QED BY <2>1, <2>3, <2>4
<1> QED BY <1>2, <1>3

LEMMA FinishFit ==
  ASSUME NEW S, NEW p \in Process, Fit(S, None, None), Good(S), S.running = p
  PROVE  Fit(Finished(S, p), None, None)
<1> DEFINE main == [S EXCEPT !.running = None]
           T == proc_deactivate(main, p)
           w == S.waitingon[p]
<1>1. S.status[p] = "active" /\ p # None /\ Typed(S)
  BY ProcessAssumption DEF Fit, Control
<1>2. /\ Fit(main, None, None) /\ main.running = None /\ main.status = S.status
      /\ main.waitingon = S.waitingon
  BY ReleaseFit
<1>3. Good(main)
  BY RunningGood
<1> HIDE DEF main
<1>4. /\ Fit(T, None, None) /\ T.running = None /\ T.waitingon = S.waitingon
      /\ T.status[p] = "inactive"
      /\ \A r \in Process : r # p => \/ T.status[r] = S.status[r]
                                     \/ S.status[r] = "active" /\ T.status[r] = "sleep"
  <2>1. main.running # p /\ Alive(main, p) /\ (p \in OSProcess => main.status[p] # "scheduled")
    BY <1>1, <1>2 DEF Alive
  <2> QED BY <1>2, <2>1, DeactivateFit
<1>5. Good(T)
  BY <1>3, DeactivateGood
<1>6. Finished(S, p) = IF w = None THEN T ELSE proc_switch(T, w)
  BY <1>1, <1>4 DEF Finished, main, Fit
<1> HIDE DEF T
<1>7. CASE w = None
  BY <1>4, <1>6, <1>7
<1>8. CASE w # None
  <2>1. w \in Process
    BY <1>1, <1>8 DEF Typed, Tables
  <2>2. S.status[w] \in {"waitfor", "inactive"}
    BY <1>1, <1>8 DEF Fit, Waiting, Alive
  <2>3. w # p /\ T.status[w] = S.status[w]
    BY <1>1, <1>4, <2>1, <2>2
  <2>4. CASE T.status[w] = "inactive"
    BY <1>4, <1>6, <1>8, <2>4 DEF proc_switch, HasGreenlet
  <2>5. CASE T.status[w] = "waitfor"
    <3>1. ~HasMail(T, w)
      BY <1>4, <2>1, <2>5, ActiveFree DEF Fit
    <3>2. ASSUME NEW r \in Process, Alive(T, r), T.waitingon[r] = w PROVE FALSE
      <4>1. r # p
        BY <1>4, <3>2 DEF Alive
      <4>2. Alive(S, r) /\ Alive(S, p)
        BY <1>1, <1>4, <3>2, <4>1 DEF Alive
      <4> QED BY <1>4, <1>8, <3>2, <4>1, <4>2 DEF Fit, Waiting
    <3>3. ~Awaited(T, w)
      BY <3>2 DEF Awaited
    <3>4. Fit(Resume(T, w), None, None)
      BY <1>4, <1>5, <2>1, <2>5, <3>1, <3>3, ResumeFit
    <3> QED BY <1>6, <1>8, <2>5, <3>4 DEF proc_switch, HasGreenlet
  <2> QED BY <2>2, <2>3, <2>4, <2>5
<1> QED BY <1>7, <1>8

-----------------------------------------------------------------------------
(* The steps of careful programs.                                           *)

\* p is the process that the i-th message is for.
LEMMA DeliveredFit ==
  ASSUME Fit(State, None, None), NEW i \in DOMAIN messages,
         messages[i].delay = messages[1].delay
  PROVE  LET p == messages[i].pid
             S == [State EXCEPT !.messages = Delivered(i)]
         IN /\ Fit(S, None, p) /\ ~HasMail(S, p) /\ S.status = status /\ S.running = running
            /\ p \in Process /\ status[p] \in {Expects(messages[i].wakeup), "inactive"}
<1> DEFINE p == messages[i].pid
           S == [State EXCEPT !.messages = Delivered(i)]
           n == Len(messages)
           At(j) == IF j < i THEN j ELSE j + 1
<1>1. /\ Typed(State) /\ State.failed = "no" /\ Queues(State) /\ Homes(State, None)
      /\ Control(State, None) /\ Mail(State, None) /\ Waiting(State)
  BY DEF Fit
<1>2. Typed(S) /\ p \in Process
  BY <1>1, DeliveredTyped
<1>3. messages \in Seq(Message) /\ n \in Nat /\ DOMAIN messages = 1 .. n
  BY <1>1 DEF Typed, Tables, State
<1>4. /\ S.status = State.status /\ SameCores(State, S) /\ S.waitingon = State.waitingon
      /\ S.running = State.running /\ S.failed = State.failed /\ S.messages = Delivered(i)
  BY DEF State, SameCores
<1>5. State.messages = messages /\ State.status = status /\ State.running = running
  BY DEF State
<1> HIDE DEF S, n
<1>6. DOMAIN Delivered(i) = 1 .. (n - 1)
  BY <1>1, DeliveredIs DEF n
<1>7. \A j \in 1 .. (n - 1) : /\ Delivered(i)[j].pid = messages[At(j)].pid
                              /\ Delivered(i)[j].wakeup = messages[At(j)].wakeup
  BY <1>1, DeliveredIs DEF n
<1>8. /\ \A j \in 1 .. (n - 1) : At(j) \in 1 .. n /\ At(j) # i
      /\ \A j, k \in 1 .. (n - 1) : At(j) = At(k) => j = k
  BY <1>3
<1>9. \A k \in 1 .. n : k # i => \E j \in 1 .. (n - 1) : At(j) = k
  <2> SUFFICES ASSUME NEW k \in 1 .. n, k # i PROVE \E j \in 1 .. (n - 1) : At(j) = k
    OBVIOUS
  <2>1. CASE k < i
    BY <1>3, <2>1
  <2>2. CASE k > i
    <3>1. k - 1 \in 1 .. (n - 1) /\ (k - 1) + 1 = k /\ ~(k - 1 < i)
      BY <1>3, <2>2
    <3> QED BY <3>1
  <2> QED BY <1>3, <2>1, <2>2
<1> HIDE DEF At
<1>10. \A j, k \in 1 .. n : messages[j].pid = messages[k].pid => j = k
  BY <1>1, <1>3, <1>5 DEF Mail
<1>11. ~HasMail(S, p)
  BY <1>3, <1>4, <1>6, <1>7, <1>8, <1>10 DEF HasMail
<1>12. Mail(S, p)
  <2>1. ASSUME NEW j \in DOMAIN S.messages
        PROVE  /\ S.messages[j].pid # p
               /\ S.status[S.messages[j].pid] \in {Expects(S.messages[j].wakeup), "inactive"}
    <3>1. At(j) \in DOMAIN messages /\ S.messages[j].pid = messages[At(j)].pid
          /\ S.messages[j].wakeup = messages[At(j)].wakeup
      BY <1>3, <1>4, <1>6, <1>7, <1>8
    <3>2. status[messages[At(j)].pid] \in {Expects(messages[At(j)].wakeup), "inactive"}
      BY <1>1, <1>5, <3>1 DEF Mail
    <3>3. S.messages[j].pid # p
      BY <1>11 DEF HasMail
    <3> QED BY <1>4, <1>5, <3>1, <3>2, <3>3
  <2>2. ASSUME NEW j \in DOMAIN S.messages, NEW k \in DOMAIN S.messages,
               S.messages[j].pid = S.messages[k].pid
        PROVE  j = k
    BY <1>4, <1>6, <1>7, <1>8, <1>10, <2>2
  <2>3. ASSUME NEW q \in Process, S.status[q] \in {"sleep", "scheduled"}, q # p PROVE HasMail(S, q)
    <3>1. PICK k \in 1 .. n : messages[k].pid = q
      BY <1>1, <1>3, <1>4, <1>5, <2>3, ProcessAssumption DEF Mail, HasMail
    <3>2. PICK j \in 1 .. (n - 1) : At(j) = k
      BY <1>9, <2>3, <3>1
    <3> QED BY <1>4, <1>6, <1>7, <3>1, <3>2 DEF HasMail
  <2> QED BY <2>1, <2>2, <2>3 DEF Mail
<1>13. Queues(S) /\ Homes(S, None) /\ Control(S, None) /\ Waiting(S)
  BY <1>1, <1>4 DEF Queues, Homes, Control, Waiting, Alive, SameCores, InQueue, HasPlace
<1>14. Fit(S, None, p)
  BY <1>1, <1>2, <1>4, <1>12, <1>13 DEF Fit
<1>15. status[p] \in {Expects(messages[i].wakeup), "inactive"}
  BY <1>1, <1>5 DEF Mail
<1> QED BY <1>2, <1>4, <1>5, <1>11, <1>14, <1>15 DEF S

\* What was sent to a process that has been killed is dropped.
LEMMA RecvFit ==
  ASSUME NEW S, NEW p \in Process, NEW w \in BOOLEAN, Fit(S, None, p), Good(S), ~HasMail(S, p),
         S.running = None, S.status[p] \in {Expects(w), "inactive"}
  PROVE  Fit(IF w THEN recv_wakeup(S, p) ELSE recv_activate(S, p), None, None)
<1>1. CASE S.status[p] = "inactive"
  <2>1. recv_wakeup(S, p) = S /\ recv_activate(S, p) = S
    BY <1>1 DEF recv_wakeup, recv_activate
  <2>2. \A i \in DOMAIN S.messages : S.messages[i].pid # None
    <3>1. S.messages \in Seq(Message)
      BY DEF Fit, Typed, Tables
    <3>2. \A i \in DOMAIN S.messages : S.messages[i] \in Message
      BY <3>1
    <3> QED BY <3>2, ProcessAssumption DEF Message
  <2>3. Mail(S, None)
    BY <1>1, <2>2 DEF Fit, Mail
  <2> QED BY <2>1, <2>3 DEF Fit
<1>2. CASE S.status[p] # "inactive"
  <2>1. S.status[p] = Expects(w)
    BY <1>2
  <2>2. ~Awaited(S, p)
    BY <2>1, NotAwaited DEF Fit, Expects
  <2>3. Fit(Resume(S, p), None, None)
    BY <2>1, <2>2, ResumeFit DEF Expects
  <2>4. (IF w THEN recv_wakeup(S, p) ELSE recv_activate(S, p)) = Resume(S, p)
    BY <2>1 DEF recv_wakeup, recv_activate, proc_switch, HasGreenlet, Expects
  <2> QED BY <2>3, <2>4
<1> QED BY <1>1, <1>2

LEMMA InitFit ==
  ASSUME Init PROVE Fit(State, None, None)
<1>1. Typed(State)
  BY InitTyped
<1>2. /\ State.status = [p \in Process |-> "none"] /\ State.resource = [p \in Process |-> None]
      /\ State.holder = [c \in Cores |-> None] /\ State.process_queue = [c \in Cores |-> <<>>]
      /\ State.ready_processes = <<>> /\ State.messages = <<>> /\ State.running = None
      /\ State.failed = "no"
  BY DEF Init, State
<1>3. \A p : ~InQueue(State, p)
  BY <1>2 DEF InQueue, Contains
<1>4. Queues(State)
  <2>1. IsInjective(State.ready_processes) /\ \A c \in Cores : IsInjective(State.process_queue[c])
    BY <1>2 DEF IsInjective
  <2> QED BY <1>3, <2>1 DEF Queues, InQueue
<1>5. Homes(State, None)
  BY <1>2, <1>3, ProcessAssumption DEF Homes, HasPlace
<1>6. Control(State, None) /\ Mail(State, None) /\ Waiting(State)
  BY <1>2 DEF Control, Mail, Waiting, Alive
<1> QED BY <1>1, <1>2, <1>4, <1>5, <1>6 DEF Fit

LEMMA BecomesIs ==
  ASSUME NEW T \in Tables, Becomes(T) PROVE (State)' = T
BY DEF Becomes, State, Tables

LEMMA BecomesFit ==
  ASSUME NEW T, Fit(T, None, None), Becomes(T) PROVE Fit(State, None, None)'
<1>1. (State)' = T
  BY BecomesIs DEF Fit, Typed
<1> QED BY <1>1

\* What careful programs look at before they schedule or kill.
LEMMA CarefulCalls ==
  ASSUME Careful, NEW q \in Process
  PROVE  /\ MaySchedule(q) => FreshIn(State, q)
         /\ \A killed : MayKill(killed) /\ q \in killed => Killable(State, q)
<1>1. MaySchedule(q) => FreshIn(State, q)
  BY DEF MaySchedule, Fresh, FreshIn, Live, Alive, HasMail, Awaited, State
<1>2. \A killed : MayKill(killed) /\ q \in killed => Killable(State, q)
  BY DEF MayKill, Killable, Live, Alive, State
<1> QED BY <1>1, <1>2

LEMMA NextFit ==
  ASSUME Careful, Fit(State, None, None), Good(State), [Next]_vars
  PROVE  Fit(State, None, None)'
<1>0. Durations \subseteq Nat \ {0} /\ LOCAL_MINDELAY \in Nat \ {0}
  BY ProcessAssumption DEF LOCAL_MINDELAY
<1>00. State.running = running /\ State.resource = resource /\ State.status = status
  BY DEF State
<1>1. CASE UNCHANGED vars
  <2>1. (State)' = State
    BY <1>1 DEF vars, tables, State
  <2> QED BY <2>1
<1>2. ASSUME NEW q \in Process, NEW d \in Durations, Schedule(q, d) PROVE Fit(State, None, None)'
  <2>1. FreshIn(State, q)
    BY <1>2, CarefulCalls DEF Schedule
  <2>2. Fit(proc_schedule(State, q, d, None, None), None, None)
    BY <1>0, <2>1, ScheduleFit
  <2> QED BY <1>2, <2>2, BecomesFit DEF Schedule
<1>3. ASSUME NEW i \in DOMAIN messages, Recv(i) PROVE Fit(State, None, None)'
  <2> DEFINE p == messages[i].pid
             w == messages[i].wakeup
             S == [State EXCEPT !.messages = Delivered(i)]
  <2>1. messages[i].delay = messages[1].delay /\ running = None
    BY <1>3 DEF Recv
  <2>2. /\ Fit(S, None, p) /\ ~HasMail(S, p) /\ S.status = status /\ S.running = None
        /\ p \in Process /\ status[p] \in {Expects(w), "inactive"}
    BY <2>1, DeliveredFit
  <2>3. Good(S)
    <3>1. /\ DOMAIN S = Fields /\ S.holder = State.holder
          /\ S.process_queue = State.process_queue
          /\ S.ready_processes = State.ready_processes
      BY DEF Fields, State
    <3> HIDE DEF S
    <3> QED BY <3>1, SameQueues
  <2>4. w \in BOOLEAN
    <3>1. messages \in Seq(Message)
      BY DEF Fit, Typed, Tables, State
    <3>2. messages[i] \in Message
      BY <3>1
    <3> QED BY <3>2 DEF Message
  <2>5. Becomes(IF w THEN recv_wakeup(S, p) ELSE recv_activate(S, p))
    BY <1>3 DEF Recv, Delivered
  <2> HIDE DEF S, p, w
  <2>6. Fit(IF w THEN recv_wakeup(S, p) ELSE recv_activate(S, p), None, None)
    BY <2>2, <2>3, <2>4, RecvFit
  <2> QED BY <2>5, <2>6, BecomesFit
<1>4. ASSUME NEW p \in Process, running = p
      PROVE  status[p] = "active" /\ (p \in OSProcess => resource[p] # None)
  BY <1>00, <1>4, ProcessAssumption DEF Fit, Control
<1>5. ASSUME NEW p \in Process, NEW d \in Durations, Sleep(p, d) PROVE Fit(State, None, None)'
  <2> DEFINE S == [State EXCEPT !.running = None]
  <2>1. running = p /\ p # None
    BY <1>5, ProcessAssumption DEF Sleep, Calls
  <2>2. /\ Fit(S, None, None) /\ S.running = None /\ S.status = status /\ S.resource = resource
    BY <1>00, ReleaseFit
  <2>3. Becomes(proc_sleep(S, p, d))
    BY <1>5 DEF Sleep
  <2> HIDE DEF S
  <2>4. Fit(proc_sleep(S, p, d), None, None)
    BY <1>0, <1>4, <2>1, <2>2, SleepFit
  <2> QED BY <2>3, <2>4, BecomesFit
<1>6. ASSUME NEW p \in Process, NEW q \in Process, Spawn(p, q) PROVE Fit(State, None, None)'
  <2> DEFINE parent == IF p \in OSProcess THEN None ELSE p
  <2>1. FreshIn(State, q)
    BY <1>6, CarefulCalls DEF Spawn
  <2>2. Fit(proc_schedule(State, q, LOCAL_MINDELAY, parent, None), None, None)
    BY <1>0, <2>1, ScheduleFit
  <2> QED BY <1>6, <2>2, BecomesFit DEF Spawn
<1>7. ASSUME NEW p \in Process, NEW q \in Process, WaitFor(p, q) PROVE Fit(State, None, None)'
  <2>1. FreshIn(State, q) /\ running = p
    BY <1>7, CarefulCalls DEF WaitFor, Calls
  <2>2. /\ p \notin OSProcess => Fit(proc_waitfor(State, p, q), None, None)
        /\ p \in OSProcess => /\ resource[p] # None
                              /\ Fit(proc_waitfor(free_resource(State, p), p, q), None, None)
    BY <1>00, <2>1, WaitForFit
  <2> QED BY <1>7, <2>2, BecomesFit DEF WaitFor
<1>8. ASSUME NEW p \in Process, NEW q \in Process, Kill(p, q) PROVE Fit(State, None, None)'
  <2>1. Killable(State, q)
    BY <1>8, CarefulCalls DEF Kill
  <2>2. Fit(proc_kill(State, q), None, None)
    BY <2>1, KillFit
  <2> QED BY <1>8, <2>2, BecomesFit DEF Kill
<1>9. ASSUME NEW p \in Process, NEW q \in Process, KillAll(p, q) PROVE Fit(State, None, None)'
  <2> DEFINE order == Tree(q)
  <2>1. order \in Seq(Process)
    BY <1>9 DEF KillAll
  <2>2. PICK path : /\ path[0] = State
                    /\ \A i \in 1 .. Len(order) : path[i] = proc_kill(path[i - 1], order[i])
                    /\ Becomes(path[Len(order)])
    BY <1>9 DEF KillAll
  <2>3. \A r \in Range(order) : r \in Process => Killable(State, r)
    BY <1>9, CarefulCalls DEF KillAll
  <2> HIDE DEF order
  <2> DEFINE n == Len(order)
             G == {i \in 0 .. n : /\ Fit(path[i], None, None)
                                  /\ \A k \in 1 .. n : Killable(path[i], order[k])}
  <2>4. n \in Nat /\ DOMAIN order = 1 .. n /\ \A k \in 1 .. n : order[k] \in Process
    BY <2>1
  <2>5. 0 \in G
    BY <2>2, <2>3, <2>4 DEF Range
  <2>6. ASSUME NEW i \in 1 .. n, i - 1 \in G PROVE i \in G
    <3>1. Fit(path[i - 1], None, None) /\ \A k \in 1 .. n : Killable(path[i - 1], order[k])
      BY <2>6
    <3>2. /\ Fit(proc_kill(path[i - 1], order[i]), None, None)
          /\ \A k \in 1 .. n : Killable(proc_kill(path[i - 1], order[i]), order[k])
      BY <2>4, <3>1, KillFit
    <3>3. path[i] = proc_kill(path[i - 1], order[i])
      BY <2>2
    <3>4. Fit(path[i], None, None) /\ \A k \in 1 .. n : Killable(path[i], order[k])
      BY <3>2, <3>3
    <3> QED BY <2>4, <3>4
  <2>7. n \in G
    <3> HIDE DEF G, n
    <3> QED BY <2>4, <2>5, <2>6, SegmentInduction
  <2> QED BY <2>2, <2>7, BecomesFit
<1>10. ASSUME NEW p \in Process, Finish(p) PROVE Fit(State, None, None)'
  <2>1. Fit(Finished(State, p), None, None)
    BY <1>00, <1>10, FinishFit DEF Finish
  <2> QED BY <1>10, <2>1, BecomesFit DEF Finish
<1> QED BY <1>1, <1>2, <1>3, <1>5, <1>6, <1>7, <1>8, <1>9, <1>10 DEF Next, Main, Step

LEMMA AlwaysFit ==
  ASSUME Careful PROVE Spec => []Fit(State, None, None)
<1>1. Init => Fit(State, None, None) /\ Good(State)
  BY InitFit, InitGood
<1>2. /\ Fit(State, None, None) /\ Good(State) /\ [Next]_vars
      => Fit(State, None, None)' /\ Good(State)'
  BY NextFit, NextGood
<1> QED BY <1>1, <1>2, PTL DEF Spec

-----------------------------------------------------------------------------
(* The properties of the runs.                                              *)

LEMMA FitOnePlace ==
  ASSUME Fit(State, None, None) PROVE OnePlace
<1>1. Typed(State) /\ Queues(State) /\ Homes(State, None)
  BY DEF Fit
<1>2. /\ State.ready_processes = ready_processes /\ State.process_queue = process_queue
      /\ State.resource = resource /\ State.holder = holder /\ State.status = status
  BY DEF State
<1>3. ASSUME NEW p \in OSProcess
      PROVE  Cardinality(Places(p)) = IF status[p] \in {"active", "sleep"} THEN 1 ELSE 0
  <2> DEFINE core(c) == c \in Cores /\ holder[c] = p
             ready(i) == i \in DOMAIN ready_processes /\ ready_processes[i] = p
             queue(c, i) == c \in Cores /\ i \in DOMAIN process_queue[c] /\ process_queue[c][i] = p
  <2>1. p \in Process /\ p # None /\ None \notin Cores
    BY ProcessAssumption
  <2>2. \A a : a \in Places(p) <=> \/ \E c : core(c) /\ a = <<"core", c, 0>>
                                   \/ \E i : ready(i) /\ a = <<"ready", 0, i>>
                                   \/ \E c, i : queue(c, i) /\ a = <<"queue", c, i>>
    BY DEF Places
  <2>3. /\ ready_processes \in Seq(OSProcess) /\ process_queue \in [Cores -> Seq(OSProcess)]
        /\ resource[p] \in Cores \cup {None}
    BY <1>1, <1>2, <2>1 DEF Typed, Tables
  <2>4. \A c : core(c) <=> resource[p] = c /\ c \in Cores
    BY <1>1, <1>2, <2>1 DEF Homes
  <2>5. Contains(ready_processes, p) <=> \E i : ready(i)
    BY <2>3 DEF Contains
  <2>6. \A c \in Cores : Contains(process_queue[c], p) <=> \E i : queue(c, i)
    BY <2>3 DEF Contains
  <2>7. HasPlace(State, p) <=> (\E c : core(c)) \/ (\E i : ready(i)) \/ (\E c, i : queue(c, i))
    BY <1>2, <2>1, <2>3, <2>4, <2>5, <2>6 DEF HasPlace, InQueue
  <2>8. \A c, e : core(c) /\ core(e) => c = e
    BY <2>4
  <2>9. \A i, j : ready(i) /\ ready(j) => i = j
    BY <1>1, <1>2 DEF Queues, IsInjective
  <2>10. \A c, i : queue(c, i) => req_res[p] = c
    BY <1>1, <1>2, <2>6 DEF Queues
  <2>11. \A c, i, e, j : queue(c, i) /\ queue(e, j) => c = e /\ i = j
    BY <1>1, <1>2, <2>10 DEF Queues, IsInjective
  <2>12. \A c, i, e, j : /\ ~(core(c) /\ ready(i)) /\ ~(core(c) /\ queue(e, j))
                         /\ ~(ready(i) /\ queue(e, j))
    <3>1. (\E i : ready(i)) \/ (\E e, j : queue(e, j)) => resource[p] = None
      BY <1>1, <1>2, <2>5, <2>6 DEF Queues, InQueue
    <3>2. (\E i : ready(i)) => req_res[p] = None
      BY <1>1, <1>2, <2>5 DEF Queues
    <3> QED BY <2>1, <2>4, <2>10, <3>1, <3>2
  <2> HIDE DEF core, ready, queue
  <2>13. \A a, b \in Places(p) : a = b
    BY <2>2, <2>8, <2>9, <2>11, <2>12
  <2>14. Places(p) # {} <=> status[p] \in {"active", "sleep"}
    <3>1. HasPlace(State, p) <=> status[p] \in {"active", "sleep"}
      BY <1>1, <1>2, <2>1 DEF Homes
    <3> QED BY <2>2, <2>7, <3>1
  <2>15. CASE Places(p) = {}
    BY <2>14, <2>15, FS_EmptySet
  <2>16. CASE Places(p) # {}
    <3>1. PICK a : a \in Places(p)
      BY <2>16
    <3>2. Places(p) = {a}
      BY <2>13, <3>1
    <3> QED BY <2>14, <2>16, <3>2, FS_Singleton
  <2> QED BY <2>15, <2>16
<1>4. \A p \in OSProcess : \A c \in Cores : resource[p] = c <=> holder[c] = p
  BY <1>1, <1>2, ProcessAssumption DEF Homes
<1> QED BY <1>3, <1>4 DEF OnePlace

LEMMA FitOneMessage ==
  ASSUME Fit(State, None, None) PROVE OneMessage
<1>1. Mail(State, None) /\ State.messages = messages /\ State.status = status
  BY DEF Fit, State
<1>2. messages \in Seq(Message)
  BY DEF Fit, Typed, Tables, State
<1>3. \A i \in DOMAIN messages : messages[i].wakeup \in BOOLEAN
  <2>1. \A i \in DOMAIN messages : messages[i] \in Message
    BY <1>2
  <2> QED BY <2>1 DEF Message
<1> SUFFICES ASSUME NEW p \in Process
             PROVE  LET sent(wakeup) == {i \in DOMAIN messages :
                          messages[i].pid = p /\ messages[i].wakeup = wakeup}
                    IN /\ status[p] = "sleep" => Cardinality(sent(TRUE)) = 1 /\ sent(FALSE) = {}
                       /\ status[p] = "scheduled" => Cardinality(sent(FALSE)) = 1 /\ sent(TRUE) = {}
                       /\ status[p] \in {"active", "waitfor"} => sent(TRUE) \cup sent(FALSE) = {}
  BY DEF OneMessage
<1> DEFINE sent(wakeup) == {i \in DOMAIN messages : messages[i].pid = p /\ messages[i].wakeup = wakeup}
<1>4. \A w \in BOOLEAN : \A i \in sent(w) : status[p] \in {Expects(w), "inactive"}
  BY <1>1 DEF Mail
<1>5. ASSUME NEW w \in BOOLEAN, status[p] = Expects(w)
      PROVE  Cardinality(sent(w)) = 1 /\ sent(~w) = {}
  <2>1. status[p] \in {"sleep", "scheduled"} /\ p # None
    BY <1>5, ProcessAssumption DEF Expects
  <2>2. PICK i \in DOMAIN messages : messages[i].pid = p
    BY <1>1, <2>1 DEF Mail, HasMail
  <2>3. \A v \in BOOLEAN : status[p] = Expects(v) => v = w
    BY <1>5 DEF Expects
  <2>4. messages[i].wakeup = w
    BY <1>1, <1>3, <2>1, <2>2, <2>3 DEF Mail
  <2>5. \A j \in DOMAIN messages : messages[j].pid = p => j = i
    BY <1>1, <2>2 DEF Mail
  <2>6. sent(w) = {i} /\ sent(~w) = {}
    BY <2>2, <2>4, <2>5
  <2> HIDE DEF sent
  <2> QED BY <2>6, FS_Singleton
<1>6. status[p] = "sleep" => Cardinality(sent(TRUE)) = 1 /\ sent(FALSE) = {}
  <2> HIDE DEF sent
  <2>1. Expects(TRUE) = "sleep" /\ ~TRUE = FALSE
    BY DEF Expects
  <2> QED BY <1>5, <2>1
<1>7. status[p] = "scheduled" => Cardinality(sent(FALSE)) = 1 /\ sent(TRUE) = {}
  <2> HIDE DEF sent
  <2>1. Expects(FALSE) = "scheduled" /\ ~FALSE = TRUE
    BY DEF Expects
  <2> QED BY <1>5, <2>1
<1>8. status[p] \in {"active", "waitfor"} => sent(TRUE) \cup sent(FALSE) = {}
  <2> HIDE DEF sent
  <2> QED BY <1>4 DEF Expects
<1> QED BY <1>6, <1>7, <1>8

\* OnePlace: with careful programs, a process of the operating system that is
\* active or asleep holds one core or is once in one queue, and no other is
\* anywhere (get_resource, free_resource and end_process of os/system.py).
THEOREM OnePlaceAlways ==
  ASSUME Careful PROVE Spec => []OnePlace
<1>1. Fit(State, None, None) => OnePlace
  BY FitOnePlace
<1> QED BY <1>1, AlwaysFit, PTL

\* OneMessage: with careful programs, one message is on its way for each
\* process that sleeps or is scheduled, of the right kind, and none for one
\* that is active or waits for another (processmgr.py).
THEOREM OneMessageAlways ==
  ASSUME Careful PROVE Spec => []OneMessage
<1>1. Fit(State, None, None) => OneMessage
  BY FitOneMessage
<1> QED BY <1>1, AlwaysFit, PTL

\* NoFailure: careful programs meet none of the failures that exit the program
\* (processmgr.py and os/system.py).
THEOREM NoFailureAlways ==
  ASSUME Careful PROVE Spec => []NoFailure
<1>1. Fit(State, None, None) => NoFailure
  BY DEF Fit, State, NoFailure
<1> QED BY <1>1, AlwaysFit, PTL

=============================================================================
