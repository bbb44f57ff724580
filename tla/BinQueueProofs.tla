---------------------------- MODULE BinQueueProofs ----------------------------
(***************************************************************************)
(* The calendar queue, for all window lengths, numbers of bins, ends and   *)
(* training lengths: the cursor and the bins agree, and no assertion of    *)
(* the code fails.  That the first bin may be skipped needs to know how    *)
(* far the cursor may be behind the window (Edges), and that what is in a  *)
(* bin is not due before the next window (Due).                            *)
(***************************************************************************)
EXTENDS BinQueue, TLAPS

-----------------------------------------------------------------------------
(* Division.                                                                *)

LEMMA DivMod ==
  ASSUME NEW a \in Nat, NEW n \in Nat \ {0}
  PROVE  a \div n \in Nat /\ a % n \in 0 .. n - 1 /\ a = n * (a \div n) + (a % n)
OBVIOUS

LEMMA Multiple ==
  ASSUME NEW n \in Nat \ {0}, NEW x \in Int, x >= 1 PROVE n * x >= n
OBVIOUS

LEMMA DivUnique ==
  ASSUME NEW a \in Nat, NEW n \in Nat \ {0}, NEW q \in Int, NEW r \in 0 .. n - 1,
         a = n * q + r
  PROVE  a \div n = q /\ a % n = r
<1> DEFINE p == a \div n
           s == a % n
<1>1. p \in Int /\ s \in 0 .. n - 1 /\ a = n * p + s
  BY DivMod
<1> HIDE DEF p, s
<1>2. p - q \in Int /\ q - p \in Int
  BY <1>1
<1>3. n * (p - q) = r - s /\ n * (q - p) = s - r
  BY <1>1
<1>4. r - s < n /\ s - r < n
  BY <1>1
<1>5. ~ (p - q >= 1) /\ ~ (q - p >= 1)
  <2>1. n * (p - q) < n /\ n * (q - p) < n
    BY <1>3, <1>4
  <2>2. p - q >= 1 => n * (p - q) >= n
    BY <1>2, Multiple
  <2>3. q - p >= 1 => n * (q - p) >= n
    BY <1>2, Multiple
  <2>4. n * (p - q) \in Int /\ n * (q - p) \in Int
    BY <1>2
  <2> HIDE DEF p
  <2> QED BY <2>1, <2>2, <2>3, <2>4
<1>6. p = q
  BY <1>1, <1>5
<1>7. s = r
  BY <1>1, <1>6
<1> QED BY <1>6, <1>7 DEF p, s

LEMMA ModNext ==
  ASSUME NEW m \in Nat, NEW n \in Nat \ {0}
  PROVE  ((m % n) + 1) % n = (m + 1) % n
<1> DEFINE q == m \div n
           r == m % n
<1>1. q \in Nat /\ r \in 0 .. n - 1 /\ m = n * q + r
  BY DivMod
<1> HIDE DEF q, r
<1>2. CASE r + 1 < n
  <2>1. m + 1 = n * q + (r + 1) /\ r + 1 \in 0 .. n - 1
    BY <1>1, <1>2
  <2>2. (m + 1) % n = r + 1
    BY <1>1, <2>1, DivUnique
  <2>3. r + 1 = n * 0 + (r + 1) /\ r + 1 \in Nat
    BY <1>1
  <2>4. (r + 1) % n = r + 1
    BY <2>1, <2>3, DivUnique
  <2> QED BY <2>2, <2>4 DEF r
<1>3. CASE r + 1 = n
  <2>1. m + 1 = n * (q + 1) + 0 /\ q + 1 \in Int /\ 0 \in 0 .. n - 1
    BY <1>1, <1>3
  <2>2. (m + 1) % n = 0
    BY <2>1, DivUnique
  <2>3. n = n * 1 + 0
    OBVIOUS
  <2>4. n % n = 0
    BY <2>1, <2>3, DivUnique
  <2> QED BY <1>3, <2>2, <2>4 DEF r
<1> QED BY <1>1, <1>2, <1>3

\* What is not before slot m and in another bin is behind slot m.
LEMMA OtherBin ==
  ASSUME NEW m \in Nat, NEW w \in Nat \ {0}, NEW n \in Nat \ {0}, NEW k \in Nat,
         w * m <= k, (k \div w) % n # m % n
  PROVE  w * m + w <= k
<1> SUFFICES ASSUME k < w * m + w PROVE FALSE
  OBVIOUS
<1> DEFINE r == k - w * m
<1>1. r \in 0 .. w - 1 /\ k = w * m + r
  OBVIOUS
<1> HIDE DEF r
<1>2. k \div w = m
  BY <1>1, DivUnique
<1> QED BY <1>2

\* What is in the bin of slot m belongs to slot m, within one turn.
LEMMA OwnBin ==
  ASSUME NEW m \in Nat, NEW w \in Nat \ {0}, NEW n \in Nat \ {0}, NEW k \in Nat,
         w * m + w <= k, k < w * m + w * n
  PROVE  (k \div w) % n # m % n
<1> DEFINE q == k \div w
           s == k % w
           a == q \div n
           b == m \div n
<1>1. q \in Nat /\ s \in 0 .. w - 1 /\ k = w * q + s
  BY DivMod
<1> HIDE DEF q, s
<1>2. m < q
  <2>1. m - q >= 1 => w * (m - q) >= w
    BY <1>1, Multiple
  <2>2. w * (m - q) = w * m - w * q
    BY <1>1
  <2>3. w * m \in Int /\ w * q \in Int
    BY <1>1
  <2>4. w * m < w * q
    BY <1>1, <2>3
  <2>5. ~ (m - q >= 1)
    BY <2>1, <2>2, <2>3, <2>4
  <2>6. m # q
    BY <2>3, <2>4
  <2> QED BY <1>1, <2>5, <2>6
<1>3. q < m + n
  <2>1. q - m - n >= 1 => w * (q - m - n) >= w
    BY <1>1, Multiple
  <2>2. w * (q - m - n) = w * q - w * m - w * n
    BY <1>1
  <2>3. w * m \in Int /\ w * q \in Int /\ w * n \in Int
    BY <1>1
  <2>4. w * q < w * m + w * n
    BY <1>1, <2>3
  <2>5. ~ (q - m - n >= 1)
    BY <2>1, <2>2, <2>3, <2>4
  <2>6. q # m + n
    <3>1. w * (m + n) = w * m + w * n
      OBVIOUS
    <3> QED BY <2>3, <2>4, <3>1
  <2> QED BY <1>1, <2>5, <2>6
<1>4. SUFFICES ASSUME q % n = m % n PROVE FALSE
  BY DEF q
<1> DEFINE r == m % n
<1>5. a \in Nat /\ b \in Nat /\ r \in 0 .. n - 1 /\ q = n * a + r /\ m = n * b + r
  BY <1>1, <1>4, DivMod
<1> HIDE DEF a, b, r
<1>6. n * (a - b) = q - m /\ n * (b - a) = m - q
  BY <1>5
<1>7. a - b >= 1 => n * (a - b) >= n
  BY <1>5, Multiple
<1>8. b - a >= 1 => n * (b - a) >= n
  BY <1>5, Multiple
<1>9. a = b
  BY <1>1, <1>2, <1>3, <1>5, <1>6, <1>7, <1>8
<1> QED BY <1>1, <1>2, <1>5, <1>9

-----------------------------------------------------------------------------
(* The inductive invariant.                                                 *)

Slot(m) == lower_edge = Window * m /\ curbin = m % nbins

\* The cursor is at the upper edge of the window, or one bin behind it: at the
\* start, or in the last window, which may be shorter.
Behind(upper) ==
  \/ upper - offset = lower_edge
  \/ upper - offset = lower_edge + Window
  \/ upper = endtime /\ lower_edge < upper - offset /\ upper - offset < lower_edge + Window

Edges == (\E m \in Nat : Slot(m)) /\ (settled => Behind(next_decade))

InBin(i, e) ==
  LET k == e.t - offset IN
  /\ lower_edge <= k /\ k < lower_edge + Window * nbins
  /\ (k \div Window) % nbins = i

\* What is in a bin is not due before the next window; the tree only keeps what
\* is further away if times are not shifted by an offset.
DueAfter(upper) ==
  /\ \A i \in Bins : \A e \in bin_array[i] : upper <= e.t
  /\ offset = 0 => \A e \in splay : upper <= e.t
Due == DueAfter(next_decade) /\ \A e \in tmp_holder : next_decade <= e.t

Windows ==
  /\ offset <= synpoint /\ synpoint <= next_decade /\ next_decade <= synpoint + length
  /\ settled => tmp_holder = {}
  /\ ~settled => /\ next_decade <= training_length
                 /\ offset = 0 /\ lower_edge = 0 /\ splay = {}
                 /\ \A i \in Bins : bin_array[i] = {}

InBins == \A i \in Bins : \A e \in bin_array[i] : InBin(i, e)

IInv == TypeOK /\ Windows /\ Edges /\ InBins /\ Due /\ NoAbort

\* What is known of the numbers in a settled queue.
LEMMA Numbers ==
  ASSUME TypeOK
  PROVE  /\ Window \in Nat \ {0} /\ TrainingWindow \in Nat \ {0} /\ endtime \in Nat \ {0}
         /\ nbins \in Nat \ {0} /\ lower_edge \in Nat /\ offset \in Nat
         /\ curbin \in 0 .. nbins - 1
         /\ Window * nbins \in Nat /\ Window * nbins >= Window
         /\ synpoint \in Nat /\ next_decade \in Nat
         /\ next_decade <= endtime /\ synpoint <= endtime
         /\ training_length \in Nat /\ training_length < endtime
         /\ length \in Nat \ {0} /\ (settled => length = Window)
         /\ MaxTime \in Nat /\ MaxEvents \in Nat
         /\ inserted \in Nat /\ inserted <= MaxEvents
<1>1. Window \in Nat \ {0} /\ nbins \in Nat \ {0}
  BY WindowAssumption DEF TypeOK
<1>2. Window * nbins \in Nat /\ Window * nbins >= Window
  BY <1>1, Multiple
<1> QED BY <1>1, <1>2, WindowAssumption DEF TypeOK, Bins, length

LEMMA EventTimes ==
  ASSUME TypeOK
  PROVE  /\ \A i \in Bins : \A e \in bin_array[i] : e \in Events /\ e.t \in Nat
         /\ \A e \in splay : e \in Events /\ e.t \in Nat
         /\ \A e \in tmp_holder : e \in Events /\ e.t \in Nat
<1>1. \A e \in Events : e.t \in Nat
  BY WindowAssumption DEF Events
<1> QED BY <1>1 DEF TypeOK

LEMMA InitInv == Init => IInv
<1> SUFFICES ASSUME Init PROVE IInv
  OBVIOUS
<1>1. /\ Window \in Nat \ {0} /\ TrainingWindow \in Nat \ {0} /\ endtime \in Nat \ {0}
      /\ MaxBins \in Nat \ {0} /\ MaxEvents \in Nat /\ MaxTime \in Nat
      /\ training_length \in Nat /\ training_length < endtime
  BY WindowAssumption DEF Init
<1>2. NewBins \in Nat \ {0}
  <2>1. endtime \div Window \in Nat
    BY <1>1, DivMod
  <2> QED BY <1>1, <2>1 DEF NewBins
<1>3. nbins \in Nat \ {0} /\ settled \in BOOLEAN
  BY <1>2 DEF Init
<1>4. next_decade \in Nat /\ next_decade <= endtime /\ next_decade <= length
  BY <1>1 DEF Init, Clip, Lesser, length
<1>5. TypeOK
  <2>1. bin_array \in [Bins -> SUBSET Events] /\ curbin \in Bins
    BY <1>3 DEF Init, Bins
  <2>2. tmp_holder \subseteq Events /\ splay \subseteq Events
    BY DEF Init
  <2>3. /\ lower_edge \in Nat /\ offset \in Nat /\ synpoint \in 0 .. endtime
        /\ inserted \in 0 .. MaxEvents
    BY <1>1 DEF Init
  <2>4. aborted \in BOOLEAN /\ training_length \in TrainingLengths
    BY DEF Init
  <2> QED BY <1>1, <1>3, <1>4, <2>1, <2>2, <2>3, <2>4 DEF TypeOK
<1>6. Windows
  BY <1>1, <1>4 DEF Init, Windows, Clip, Lesser, length, Bins
<1>7. Edges
  <2>1. 0 = nbins * 0 + 0 /\ 0 \in 0 .. nbins - 1
    BY <1>3
  <2>2. 0 % nbins = 0
    BY <1>3, <2>1, DivUnique
  <2>3. Slot(0)
    BY <1>1, <2>2 DEF Init, Slot
  <2>4. settled => Behind(next_decade)
    BY <1>1 DEF Init, Behind, Clip, Lesser, length
  <2> QED BY <2>3, <2>4 DEF Edges
<1>8. InBins /\ Due /\ NoAbort
  BY DEF Init, InBins, Due, DueAfter, NoAbort, Bins
<1> QED BY <1>5, <1>6, <1>7, <1>8 DEF IInv

-----------------------------------------------------------------------------
(* retrieve_events.                                                         *)

\* What a call of retrieve_events does to a settled queue: the window that ends
\* at upper opens.
LEMMA RetrieveSettled ==
  ASSUME IInv, settled, NEW upper \in Nat, Retrieve(upper),
         \/ upper = next_decade
         \/ next_decade < endtime /\ upper = Lesser(next_decade + Window, endtime),
         nbins' = nbins, offset' = offset
  PROVE  /\ \E m \in Nat : Slot(m)'
         /\ Behind(upper)'
         /\ lower_edge' \in Nat /\ curbin' \in Bins
         /\ bin_array' \in [Bins -> SUBSET Events]
         /\ splay' \subseteq splay /\ tmp_holder' = {}
         /\ InBins' /\ DueAfter(upper)' /\ aborted' = FALSE
<1> USE DEF IInv
<1> DEFINE u == upper - offset
           W == Window
           span == Window * nbins
<1>1. /\ W \in Nat \ {0} /\ nbins \in Nat \ {0} /\ lower_edge \in Nat /\ offset \in Nat
      /\ curbin \in 0 .. nbins - 1 /\ span \in Nat /\ endtime \in Nat
      /\ next_decade \in Nat /\ next_decade <= endtime /\ synpoint \in Nat
  BY Numbers
<1>2. PICK m \in Nat : lower_edge = W * m /\ curbin = m % nbins
  BY DEF Edges, Slot
<1>3. Behind(next_decade) /\ aborted = FALSE /\ tmp_holder = {}
  BY DEF Edges, NoAbort, Windows, TypeOK
<1>4. /\ u \in Int /\ next_decade <= upper /\ upper <= next_decade + W /\ upper <= endtime
      /\ offset <= next_decade
  BY <1>1 DEF Lesser, Windows
<1>5. /\ \A i \in Bins : \A e \in bin_array[i] :
           /\ e.t \in Nat /\ e.t - offset \in Nat
           /\ W * m <= e.t - offset /\ lower_edge <= e.t - offset
           /\ e.t - offset < lower_edge + span
           /\ ((e.t - offset) \div W) % nbins = i
           /\ next_decade <= e.t
  <2> SUFFICES ASSUME NEW i \in Bins, NEW e \in bin_array[i]
               PROVE  /\ e.t \in Nat /\ e.t - offset \in Nat
                      /\ W * m <= e.t - offset /\ lower_edge <= e.t - offset
                      /\ e.t - offset < lower_edge + span
                      /\ ((e.t - offset) \div W) % nbins = i
                      /\ next_decade <= e.t
    OBVIOUS
  <2>1. e.t \in Nat
    BY EventTimes
  <2>2. InBin(i, e) /\ next_decade <= e.t
    BY DEF InBins, Due, DueAfter
  <2>3. e.t - offset \in Nat
    BY <1>1, <1>4, <2>1, <2>2
  <2> QED BY <1>2, <2>1, <2>2, <2>3 DEF InBin
<1>6. \A e \in splay : e.t \in Nat
  BY EventTimes
<1>7. bin_array \in [Bins -> SUBSET Events] /\ curbin \in Bins
  BY DEF TypeOK
\* There is nothing to do: the cursor is at the edge.
<1>8. CASE lower_edge >= u
  <2>1. UNCHANGED <<binVars, aborted>>
    BY <1>8 DEF Retrieve
  <2>2. lower_edge = u /\ upper = next_decade
    BY <1>1, <1>3, <1>4, <1>8 DEF Behind, Lesser
  <2>3. (\E k \in Nat : Slot(k)') /\ Behind(upper)'
    BY <2>1, <2>2, <1>2, <1>1 DEF binVars, Slot, Behind
  <2>4. InBins' /\ DueAfter(upper)'
    BY <2>1, <2>2 DEF binVars, InBins, InBin, Due, DueAfter, Bins
  <2> QED BY <1>1, <1>3, <1>7, <2>1, <2>3, <2>4 DEF binVars
\* The current bin is retrieved.
<1>9. CASE lower_edge < u /\ ~ (lower_edge + W < u)
  <2> DEFINE closed == lower_edge + W <= u
  <2>1. /\ bin_array' = [bin_array EXCEPT ![curbin] = {}]
        /\ curbin' = IF closed THEN NextBin(curbin) ELSE curbin
        /\ lower_edge' = IF closed THEN lower_edge + W ELSE lower_edge
        /\ splay' = {e \in splay : e.t >= u}
        /\ tmp_holder' = {}
    BY <1>1, <1>4, <1>9 DEF Retrieve
  <2>9. aborted' = FALSE
    <3>1. aborted' = (aborted \/ (lower_edge + W < u /\ (bin_array[curbin] # {} \/ lower_edge + W < u)))
      <4>1. ~ (lower_edge >= u)
        BY <1>1, <1>4, <1>9
      <4> QED BY <1>9, <4>1 DEF Retrieve
    <3> QED BY <1>3, <1>9, <3>1
  <2>2. curbin' \in Bins /\ (\E k \in Nat : Slot(k)')
    <3>1. NextBin(curbin) = (m + 1) % nbins
      BY <1>1, <1>2, ModNext DEF NextBin
    <3>2. (m + 1) % nbins \in 0 .. nbins - 1
      BY <1>1, DivMod
    <3>3. W * (m + 1) = W * m + W
      BY <1>1
    <3>4. CASE closed
      <4>1. lower_edge' = Window * (m + 1) /\ curbin' = (m + 1) % nbins
        BY <1>2, <2>1, <3>1, <3>3, <3>4
      <4> QED BY <3>2, <4>1 DEF Slot, Bins
    <3>5. CASE ~closed
      BY <1>2, <1>7, <2>1, <3>5 DEF Slot, Bins
    <3> QED BY <3>4, <3>5
  <2>3. lower_edge' \in Nat /\ lower_edge <= lower_edge' /\ lower_edge' <= lower_edge + W
    BY <1>1, <2>1
  <2>4. Behind(upper)'
    <3>1. CASE closed
      BY <1>1, <1>4, <1>9, <2>1, <3>1 DEF Behind
    <3>2. CASE ~closed
      BY <1>1, <1>3, <1>4, <1>9, <2>1, <3>2 DEF Behind, Lesser
    <3> QED BY <3>1, <3>2
  <2>5. bin_array' \in [Bins -> SUBSET Events]
    BY <1>7, <2>1
  <2>6. ASSUME NEW i \in Bins, NEW e \in bin_array'[i] PROVE InBin(i, e)' /\ upper <= e.t
    <3>1. i # curbin /\ e \in bin_array[i]
      BY <1>7, <2>1, <2>6
    <3>2. ((e.t - offset) \div W) % nbins # m % nbins
      BY <1>2, <1>5, <3>1
    <3>3. lower_edge + W <= e.t - offset
      BY <1>1, <1>2, <1>5, <3>1, <3>2, OtherBin
    <3> HIDE DEF span
    <3>4. lower_edge' <= e.t - offset /\ e.t - offset < lower_edge' + span /\ upper <= e.t
      BY <1>1, <1>4, <1>5, <1>9, <2>3, <3>1, <3>3
    <3> QED BY <1>5, <3>1, <3>4 DEF InBin, span
  <2>7. offset = 0 => \A e \in splay' : upper <= e.t
    BY <1>6, <2>1
  <2>8. InBins' /\ DueAfter(upper)'
    BY <2>6, <2>7 DEF InBins, DueAfter, Bins
  <2> QED BY <2>1, <2>2, <2>3, <2>4, <2>5, <2>8, <2>9
\* The current bin is empty and skipped, the next one is retrieved.
<1>10. CASE lower_edge + W < u
  <2> DEFINE bin == NextBin(curbin)
             lower == lower_edge + W
             closed == lower + W <= u
  <2>1. /\ bin_array' = [bin_array EXCEPT ![bin] = {}]
        /\ curbin' = IF closed THEN NextBin(bin) ELSE bin
        /\ lower_edge' = IF closed THEN lower + W ELSE lower
        /\ splay' = {e \in splay : e.t >= u}
        /\ tmp_holder' = {}
    BY <1>1, <1>4, <1>10 DEF Retrieve
  <2>2. next_decade < endtime /\ next_decade - offset = lower /\ u <= lower + W
    BY <1>1, <1>3, <1>4, <1>10 DEF Behind, Lesser
  <2>3. bin_array[curbin] = {}
    <3> SUFFICES ASSUME NEW e \in bin_array[curbin] PROVE FALSE
      OBVIOUS
    <3>1. /\ e.t \in Nat /\ e.t - offset \in Nat /\ next_decade <= e.t
          /\ e.t - offset < lower_edge + span
          /\ ((e.t - offset) \div W) % nbins = curbin
      BY <1>5, <1>7
    <3>2. W * m + W <= e.t - offset /\ e.t - offset < W * m + W * nbins
      BY <1>1, <1>2, <2>2, <3>1
    <3> QED BY <1>1, <1>2, <3>1, <3>2, OwnBin
  <2>4. aborted' = FALSE
    <3>1. aborted' = (aborted \/ (bin_array[curbin] # {} \/ lower + W < u))
      <4>1. ~ (lower_edge >= u)
        BY <1>1, <1>4, <1>10
      <4> QED BY <1>10, <4>1 DEF Retrieve
    <3>2. ~ (lower + W < u)
      BY <1>1, <1>4, <2>2
    <3> QED BY <1>3, <2>3, <3>1, <3>2
  <2>5. /\ bin = (m + 1) % nbins /\ bin \in Bins
        /\ NextBin(bin) = (m + 2) % nbins /\ NextBin(bin) \in Bins
        /\ W * (m + 1) = lower /\ W * (m + 2) = lower + W
    <3>1. bin = (m + 1) % nbins
      BY <1>1, <1>2, ModNext DEF NextBin
    <3>3. (m + 1) + 1 = m + 2 /\ m + 1 \in Nat /\ m + 2 \in Nat
      OBVIOUS
    <3>2. (((m + 1) % nbins) + 1) % nbins = ((m + 1) + 1) % nbins
      <4> DEFINE l == m + 1
      <4>1. l \in Nat
        OBVIOUS
      <4> HIDE DEF l
      <4>2. ((l % nbins) + 1) % nbins = (l + 1) % nbins
        BY <1>1, <4>1, ModNext
      <4> QED BY <4>2 DEF l
    <3>4. NextBin(bin) = (m + 2) % nbins
      BY <3>1, <3>2, <3>3 DEF NextBin
    <3>5. (m + 1) % nbins \in 0 .. nbins - 1 /\ (m + 2) % nbins \in 0 .. nbins - 1
      BY <1>1, <3>3, DivMod
    <3>6. W * (m + 1) = lower /\ W * (m + 2) = lower + W
      BY <1>1, <1>2
    <3> HIDE DEF bin
    <3> QED BY <3>1, <3>4, <3>5, <3>6 DEF Bins
  <2> HIDE DEF bin
  <2>6. curbin' \in Bins /\ (\E k \in Nat : Slot(k)')
    <3>1. CASE closed
      <4>1. lower_edge' = Window * (m + 2) /\ curbin' = (m + 2) % nbins
        BY <2>1, <2>5, <3>1
      <4>2. m + 2 \in Nat
        OBVIOUS
      <4> QED BY <2>1, <2>5, <3>1, <4>1, <4>2 DEF Slot, Bins
    <3>2. CASE ~closed
      <4>1. lower_edge' = Window * (m + 1) /\ curbin' = (m + 1) % nbins
        BY <2>1, <2>5, <3>2
      <4>2. m + 1 \in Nat
        OBVIOUS
      <4> QED BY <2>1, <2>5, <3>2, <4>1, <4>2 DEF Slot, Bins
    <3> QED BY <3>1, <3>2
  <2>7. lower_edge' \in Nat /\ lower <= lower_edge' /\ lower_edge' <= lower + W
    BY <1>1, <2>1
  <2>8. Behind(upper)'
    <3>1. CASE closed
      BY <1>1, <1>4, <2>1, <2>2, <3>1 DEF Behind
    <3>2. CASE ~closed
      BY <1>1, <1>4, <1>10, <2>1, <2>2, <3>2 DEF Behind, Lesser
    <3> QED BY <3>1, <3>2
  <2>9. bin_array' \in [Bins -> SUBSET Events]
    BY <1>7, <2>1
  <2>10. ASSUME NEW i \in Bins, NEW e \in bin_array'[i] PROVE InBin(i, e)' /\ upper <= e.t
    <3>1. i # bin /\ e \in bin_array[i]
      BY <1>7, <2>1, <2>10
    <3>2. i # curbin
      BY <2>3, <3>1
    <3>3. /\ ((e.t - offset) \div W) % nbins # m % nbins
          /\ ((e.t - offset) \div W) % nbins # (m + 1) % nbins
      BY <1>2, <1>5, <2>5, <3>1, <3>2
    <3>4. W * m + W <= e.t - offset
      BY <1>1, <1>2, <1>5, <3>1, <3>3, OtherBin
    <3>5. W * (m + 1) + W <= e.t - offset
      <4>1. m + 1 \in Nat /\ W * (m + 1) <= e.t - offset
        BY <1>2, <2>5, <3>4
      <4> QED BY <1>1, <1>5, <3>1, <3>3, <4>1, OtherBin
    <3>6. lower + W <= e.t - offset
      BY <2>5, <3>5
    <3> HIDE DEF span
    <3>7. lower_edge' <= e.t - offset /\ e.t - offset < lower_edge' + span /\ upper <= e.t
      BY <1>1, <1>4, <1>5, <2>2, <2>7, <3>1, <3>6
    <3> QED BY <1>5, <3>1, <3>7 DEF InBin, span
  <2>11. offset = 0 => \A e \in splay' : upper <= e.t
    BY <1>6, <2>1
  <2>12. InBins' /\ DueAfter(upper)'
    BY <2>10, <2>11 DEF InBins, DueAfter, Bins
  <2> QED BY <2>1, <2>4, <2>6, <2>7, <2>8, <2>9, <2>12
<1>11. lower_edge >= u \/ (lower_edge < u /\ ~ (lower_edge + W < u)) \/ lower_edge + W < u
  BY <1>1, <1>4
<1> QED BY <1>8, <1>9, <1>10, <1>11, Zenon

-----------------------------------------------------------------------------
(* The steps.                                                               *)

LEMMA InsertInv == ASSUME IInv, NEW t \in 0 .. MaxTime, Insert(t) PROVE IInv'
<1> USE DEF IInv
<1> DEFINE e == [n |-> inserted, t |-> t]
           k == t - offset
           span == Window * nbins
           near == k < lower_edge + span
<1>1. /\ Window \in Nat \ {0} /\ TrainingWindow \in Nat \ {0} /\ nbins \in Nat \ {0}
      /\ lower_edge \in Nat /\ offset \in Nat /\ span \in Nat /\ span >= Window
      /\ synpoint \in Nat /\ next_decade \in Nat /\ inserted \in Nat
      /\ length \in Nat \ {0} /\ (settled => length = Window)
      /\ MaxTime \in Nat /\ MaxEvents \in Nat /\ t \in Nat
  BY Numbers
<1>2. /\ inserted < MaxEvents /\ synpoint + length <= t /\ inserted' = inserted + 1
      /\ UNCHANGED <<training_length, settled, nbins, curbin, lower_edge, offset, loopVars>>
  BY DEF Insert
<1>3. next_decade <= t
  BY <1>1, <1>2 DEF Windows
<1>4. e \in Events /\ e.t = t
  BY <1>1, <1>2 DEF Events
<1>5. ~settled => bin_array' = bin_array /\ splay' = splay /\ tmp_holder' = tmp_holder \cup {e}
  BY DEF Insert
<1>6. settled => lower_edge <= k /\ k \in Nat
  BY <1>1, <1>2, <1>3 DEF Edges, Behind, Windows
<1>7. settled => tmp_holder' = tmp_holder
  BY DEF Insert
<1>8. settled /\ near => bin_array' = [bin_array EXCEPT ![SlotOf(t)] = @ \cup {e}] /\ splay' = splay
  BY DEF Insert
<1>9. settled /\ ~near => bin_array' = bin_array /\ splay' = splay \cup {e}
  BY DEF Insert
<1>10. aborted' = FALSE
  <2>1. CASE settled
    <3>1. ~ (k < lower_edge)
      BY <1>1, <1>6, <2>1
    <3>2. aborted' = (aborted \/ (settled /\ k < lower_edge))
      BY DEF Insert
    <3> QED BY <3>1, <3>2 DEF NoAbort, TypeOK
  <2>2. CASE ~settled
    <3>1. aborted' = (aborted \/ (settled /\ k < lower_edge))
      BY DEF Insert
    <3> QED BY <2>2, <3>1 DEF NoAbort, TypeOK
  <2> QED BY <2>1, <2>2
<1>11. settled => SlotOf(t) \in Bins /\ SlotOf(t) = (k \div Window) % nbins
  <2> SUFFICES ASSUME settled PROVE SlotOf(t) \in Bins /\ SlotOf(t) = (k \div Window) % nbins
    OBVIOUS
  <2> HIDE DEF k
  <2>1. k \div Window \in Nat
    BY <1>1, <1>6, DivMod
  <2>2. (k \div Window) % nbins \in 0 .. nbins - 1
    BY <1>1, <2>1, DivMod
  <2> QED BY <2>2 DEF SlotOf, Bins, k
<1>12. TypeOK /\ InBins /\ Due /\ Windows /\ Edges
  OBVIOUS
<1> HIDE DEF e, k, span, near
\* Each bin gets at most e, and only if it is the bin of e.
<1>13. /\ bin_array' \in [Bins -> SUBSET Events]
       /\ \A i \in Bins : \A x \in bin_array'[i] :
            x \in bin_array[i] \/ (x = e /\ settled /\ near /\ i = SlotOf(t))
  <2>1. bin_array \in [Bins -> SUBSET Events]
    BY DEF TypeOK
  <2>2. CASE settled /\ near
    BY <1>4, <1>8, <1>11, <2>1, <2>2
  <2>3. CASE ~ (settled /\ near)
    BY <1>5, <1>9, <2>1, <2>3
  <2> QED BY <2>2, <2>3
<1>14. /\ \A x \in splay' : x \in splay \/ (x = e /\ settled)
       /\ \A x \in tmp_holder' : x \in tmp_holder \/ (x = e /\ ~settled)
  BY <1>5, <1>7, <1>8, <1>9
<1>15. TypeOK'
  <2>1. splay' \subseteq Events /\ tmp_holder' \subseteq Events
    BY <1>4, <1>14 DEF TypeOK
  <2>2. inserted' \in 0 .. MaxEvents
    BY <1>1, <1>2
  <2>3. aborted' \in BOOLEAN
    BY <1>10
  <2> QED BY <1>2, <1>13, <2>1, <2>2, <2>3 DEF TypeOK, Bins, loopVars
<1>16. InBins'
  <2> SUFFICES ASSUME NEW i \in Bins, NEW x \in bin_array'[i] PROVE InBin(i, x)'
    BY <1>2 DEF InBins, Bins
  <2>1. CASE x \in bin_array[i]
    BY <1>2, <2>1 DEF InBins, InBin
  <2>2. CASE x = e /\ settled /\ near /\ i = SlotOf(t)
    BY <1>2, <1>4, <1>6, <1>11, <2>2 DEF InBin, k, near, span
  <2> QED BY <1>13, <2>1, <2>2
<1>17. Due'
  <2>1. \A i \in Bins : \A x \in bin_array'[i] : next_decade <= x.t
    BY <1>3, <1>4, <1>13 DEF Due, DueAfter
  <2>2. offset = 0 => \A x \in splay' : next_decade <= x.t
    BY <1>3, <1>4, <1>14 DEF Due, DueAfter
  <2>3. \A x \in tmp_holder' : next_decade <= x.t
    BY <1>3, <1>4, <1>14 DEF Due
  <2> QED BY <1>2, <2>1, <2>2, <2>3 DEF Due, DueAfter, Bins, loopVars
<1>18. Windows'
  <2>1. settled => tmp_holder' = {}
    BY <1>7 DEF Windows
  <2>2. ~settled => splay' = {} /\ \A i \in Bins : bin_array'[i] = {}
    BY <1>5 DEF Windows
  <2> QED BY <1>2, <2>1, <2>2 DEF Windows, length, Bins, loopVars
<1>19. Edges'
  BY <1>2 DEF Edges, Slot, Behind, loopVars
<1> QED BY <1>10, <1>15, <1>16, <1>17, <1>18, <1>19 DEF NoAbort

\* A call of retrieve_events when a window opens; upper is its upper edge and
\* edge the time that has been reached.
LEMMA OpenInv ==
  ASSUME IInv, NEW upper \in Nat, NEW edge \in Nat, Retrieve(upper),
         \/ upper = next_decade
         \/ next_decade < endtime /\ settled /\ upper = Lesser(next_decade + Window, endtime)
         \/ ~settled /\ next_decade <= upper /\ upper <= training_length,
         synpoint <= edge, edge <= upper, upper <= edge + length,
         synpoint' = edge, next_decade' = upper,
         UNCHANGED <<training_length, settled, offset, inserted>>
  PROVE  IInv'
<1> USE DEF IInv
<1>1. /\ offset \in Nat /\ synpoint \in Nat /\ next_decade \in Nat /\ endtime \in Nat
      /\ Window \in Nat /\ next_decade <= endtime
      /\ training_length \in Nat /\ training_length < endtime
  BY Numbers
<1>2. upper \in 0 .. endtime /\ edge \in 0 .. endtime /\ next_decade <= upper
  BY <1>1 DEF Lesser
<1>3. nbins' = nbins
  BY DEF Retrieve, binVars
<1>4. CASE settled
  <2>1. /\ \E m \in Nat : Slot(m)'
        /\ Behind(upper)'
        /\ lower_edge' \in Nat /\ curbin' \in Bins
        /\ bin_array' \in [Bins -> SUBSET Events]
        /\ splay' \subseteq splay /\ tmp_holder' = {}
        /\ InBins' /\ DueAfter(upper)' /\ aborted' = FALSE
    BY <1>3, <1>4, RetrieveSettled
  <2>2. TypeOK'
    <3>1. aborted' \in BOOLEAN
      BY <2>1
    <3> QED BY <1>2, <1>3, <2>1, <3>1 DEF TypeOK, Bins
  <2>3. Windows'
    BY <1>1, <1>2, <1>4, <2>1 DEF Windows, length
  <2>4. Edges'
    BY <2>1 DEF Edges, Behind
  <2>5. Due'
    BY <2>1 DEF Due, DueAfter
  <2> QED BY <2>1, <2>2, <2>3, <2>4, <2>5 DEF NoAbort
<1>5. CASE ~settled
  <2>1. /\ tmp_holder' = {}
        /\ UNCHANGED <<nbins, curbin, lower_edge, bin_array, splay, aborted>>
    BY <1>5 DEF Retrieve
  <2>2. TypeOK'
    BY <1>2, <2>1 DEF TypeOK, Bins
  <2>3. Windows'
    BY <1>1, <1>2, <1>5, <2>1 DEF Windows, length, Bins
  <2>4. Edges' /\ InBins' /\ NoAbort'
    BY <1>5, <2>1 DEF Edges, Slot, InBins, InBin, NoAbort, Bins
  <2>5. Due'
    BY <1>5, <2>1 DEF Due, DueAfter, Windows, Bins
  <2> QED BY <2>2, <2>3, <2>4, <2>5
<1> QED BY <1>4, <1>5

LEMMA NextDecadeInv == ASSUME IInv, NextDecade PROVE IInv'
<1> USE DEF IInv
<1> DEFINE upper == Clip(next_decade + length)
<1>1. /\ synpoint \in Nat /\ next_decade \in Nat /\ endtime \in Nat /\ training_length \in Nat
      /\ length \in Nat \ {0} /\ (settled => length = Window) /\ Window \in Nat
  BY Numbers
<1>2. /\ next_decade < (IF settled THEN endtime ELSE training_length)
      /\ synpoint' = next_decade /\ next_decade' = upper /\ Retrieve(upper)
      /\ UNCHANGED <<training_length, settled, offset, inserted>>
  BY DEF NextDecade
<1>3. synpoint <= next_decade
  BY DEF Windows
<1>4. /\ upper \in Nat /\ next_decade <= upper /\ upper <= next_decade + length
      /\ settled => upper = Lesser(next_decade + Window, endtime)
      /\ ~settled => upper <= training_length
  BY <1>1, <1>2 DEF Clip, Lesser
<1> HIDE DEF upper
<1> QED BY <1>1, <1>2, <1>3, <1>4, OpenInv

LEMMA NextEpochInv == ASSUME IInv, NextEpoch PROVE IInv'
<1> USE DEF IInv
<1>1. synpoint \in Nat /\ next_decade \in Nat /\ length \in Nat
  BY Numbers
<1>2. PICK edge \in synpoint + 1 .. next_decade - 1 : synpoint' = edge
  BY DEF NextEpoch
<1>3. /\ Retrieve(next_decade)
      /\ UNCHANGED <<training_length, settled, offset, next_decade, inserted>>
  BY DEF NextEpoch
<1>4. /\ edge \in Nat /\ synpoint <= edge /\ edge <= next_decade
      /\ next_decade <= edge + length
  BY <1>1, <1>2 DEF Windows
<1> QED BY <1>1, <1>2, <1>3, <1>4, OpenInv

LEMMA EndTrainingInv == ASSUME IInv, EndTraining PROVE IInv'
<1> USE DEF IInv
<1>1. /\ synpoint \in Nat /\ next_decade \in Nat /\ endtime \in Nat \ {0} /\ Window \in Nat \ {0}
      /\ training_length \in Nat /\ training_length < endtime
  BY Numbers
<1>2. /\ ~settled /\ next_decade = training_length /\ synpoint' = training_length
      /\ next_decade' = Lesser(training_length + Window, endtime)
      /\ settled' /\ nbins' = NewBins
      /\ bin_array' = [i \in 0 .. NewBins - 1 |-> {}]
      /\ curbin' = 0 /\ lower_edge' = 0 /\ offset' = training_length /\ tmp_holder' = {}
      /\ UNCHANGED <<splay, aborted, training_length, inserted>>
  BY DEF EndTraining, Settle
<1>3. NewBins \in Nat \ {0}
  <2>1. MaxBins \in Nat \ {0}
    BY WindowAssumption
  <2>2. endtime \div Window \in Nat
    BY <1>1, DivMod
  <2> QED BY <2>1, <2>2 DEF NewBins
<1>4. splay = {}
  BY <1>2 DEF Windows
<1>5. TypeOK'
  <2>1. bin_array' \in [Bins' -> SUBSET Events] /\ curbin' \in Bins'
    BY <1>2, <1>3 DEF Bins
  <2>2. next_decade' \in 0 .. endtime /\ synpoint' \in 0 .. endtime
    BY <1>1, <1>2 DEF Lesser
  <2>3. settled' \in BOOLEAN
    BY DEF EndTraining, Settle
  <2> QED BY <1>1, <1>2, <1>3, <1>4, <2>1, <2>2, <2>3 DEF TypeOK
<1>6. Windows'
  BY <1>1, <1>2 DEF Windows, length, Lesser
<1>7. Edges'
  <2>1. 0 = NewBins * 0 + 0 /\ 0 \in 0 .. NewBins - 1
    BY <1>3
  <2>2. 0 % NewBins = 0
    BY <1>3, <2>1, DivUnique
  <2>3. Slot(0)'
    BY <1>1, <1>2, <2>2 DEF Slot
  <2>4. Behind(next_decade)'
    BY <1>1, <1>2 DEF Behind, Lesser
  <2> QED BY <2>3, <2>4 DEF Edges
<1>8. InBins' /\ Due' /\ NoAbort'
  BY <1>2, <1>4 DEF InBins, Due, DueAfter, NoAbort, Bins
<1> QED BY <1>5, <1>6, <1>7, <1>8

LEMMA NextInv == IInv /\ [Next]_vars => IInv'
<1> SUFFICES ASSUME IInv, [Next]_vars PROVE IInv'
  OBVIOUS
<1>1. CASE UNCHANGED vars
  BY <1>1 DEF IInv, vars, binVars, loopVars, TypeOK, Windows, Edges, Slot, Behind,
              InBins, InBin, Due, DueAfter, NoAbort, Bins, length
<1>2. ASSUME NEW t \in 0 .. MaxTime, Insert(t) PROVE IInv'
  BY <1>2, InsertInv
<1>3. CASE Finished
  BY <1>1, <1>3 DEF Finished
<1> QED
  BY <1>1, <1>2, <1>3, NextDecadeInv, EndTrainingInv, NextEpochInv DEF Next

-----------------------------------------------------------------------------
\* TypeOK: the cursor stays within the bins of the queue (binque.cc), and all
\* edges within the simulation.
THEOREM TypeCorrect == Spec => []TypeOK
<1>1. IInv => TypeOK
  BY DEF IInv
<1> QED BY InitInv, NextInv, <1>1, PTL DEF Spec

\* Calendar: insert_event puts a message into the bin that retrieve_events will
\* look at when its window opens, for all window lengths and numbers of bins,
\* with and without training.
THEOREM CalendarHolds == Spec => []Calendar
<1>1. IInv => Calendar
  <2> SUFFICES ASSUME IInv PROVE Calendar
    OBVIOUS
  <2>1. Window \in Nat \ {0}
    BY WindowAssumption
  <2>2. PICK m \in Nat : lower_edge = Window * m /\ curbin = m % nbins
    BY DEF IInv, Edges, Slot
  <2>3. lower_edge = Window * m + 0 /\ 0 \in 0 .. Window - 1 /\ lower_edge \in Nat
    BY <2>1, <2>2 DEF IInv, TypeOK
  <2>4. lower_edge \div Window = m
    BY <2>1, <2>3, DivUnique
  <2>5. curbin = (lower_edge \div Window) % nbins
    BY <2>2, <2>4
  <2> QED BY <2>5 DEF IInv, InBins, InBin, Calendar
<1> QED BY InitInv, NextInv, <1>1, PTL DEF Spec

\* NoAbort: the assertions of insert_event and retrieve_events (binque.cc:57,
\* 102, 113) hold: the main loop neither inserts behind the current bin nor skips
\* one that holds something.
THEOREM NoAbortHolds == Spec => []NoAbort
<1>1. IInv => NoAbort
  BY DEF IInv
<1> QED BY InitInv, NextInv, <1>1, PTL DEF Spec

\* RetrievedInTime, for a queue that is not settled after training: nothing due
\* in a window is still in the queue when the window has opened.  After training
\* the offset is not 0, and the code retrieves the far future late.
THEOREM RetrievedInTimeHolds == Spec => [](offset = 0 => RetrievedInTime)
<1>1. IInv => (offset = 0 => RetrievedInTime)
  <2> SUFFICES ASSUME IInv, offset = 0, NEW e \in Queued PROVE next_decade <= e.t
    BY DEF RetrievedInTime
  <2>1. CASE e \in UNION {bin_array[i] : i \in Bins}
    BY <2>1 DEF IInv, Due, DueAfter
  <2>2. CASE e \in splay
    BY <2>2 DEF IInv, Due, DueAfter
  <2>3. CASE e \in tmp_holder
    BY <2>3 DEF IInv, Due
  <2>4. e \in UNION {bin_array[i] : i \in Bins} \/ e \in splay \/ e \in tmp_holder
    BY DEF Queued
  <2> QED BY <2>1, <2>2, <2>3, <2>4
<1> QED BY InitInv, NextInv, <1>1, PTL DEF Spec

=============================================================================
