--------------------------- MODULE CausalTimeProofs ---------------------------
(***************************************************************************)
(* The two promises of CausalTime, for every topology.  Neither is         *)
(* inductive alone: that no message arrives in the past needs the receiver *)
(* to be within the lookahead of the sender, so both go together.          *)
(***************************************************************************)
EXTENDS CausalTime, TLAPS

Inv == TypeOK /\ NoStraggler /\ WithinLookahead

LEMMA InitInv == Init => Inv
<1> SUFFICES ASSUME Init PROVE Inv
  OBVIOUS
<1> USE TopologyAssumption DEF Init
<1>1. TypeOK
  BY DEF TypeOK
<1>2. NoStraggler
  <2> SUFFICES ASSUME NEW t \in Timelines, NEW e \in pending[t] PROVE clock[t] <= e.t
    BY DEF NoStraggler
  <2>1. e \in [sg : Nat, n : Nat, t : Nat]
    OBVIOUS
  <2> QED BY <2>1
<1>3. WithinLookahead
  BY DEF WithinLookahead
<1> QED BY <1>1, <1>2, <1>3 DEF Inv

\* A timeline that moves to a time it may reach keeps its lookahead.
LEMMA MoveKeepsLookahead ==
  ASSUME TypeOK, WithinLookahead, NEW t \in Timelines, NEW c \in 0 .. endtime,
         MayReach(t, c), clock' = [clock EXCEPT ![t] = c]
  PROVE  WithinLookahead'
<1> SUFFICES ASSUME NEW s \in Stargates
             PROVE  clock'[target[s]] <= clock'[source[s]] + min_delay[s]
  BY DEF WithinLookahead
<1>1. /\ source[s] \in Timelines /\ target[s] \in Timelines
      /\ min_delay[s] \in Nat \ {0}
      /\ clock[source[s]] \in Nat /\ clock[target[s]] \in Nat
      /\ clock[t] \in Nat /\ c \in Nat /\ clock[t] <= c
  BY TopologyAssumption DEF TypeOK, MayReach
<1>2. clock[source[s]] <= clock'[source[s]]
  BY <1>1 DEF TypeOK
<1>3. clock'[source[s]] \in Nat
  BY <1>1 DEF TypeOK
<1>4. CASE target[s] = t
  <2>1. c <= clock[source[s]] + min_delay[s]
    BY <1>4 DEF MayReach
  <2>2. clock'[target[s]] = c
    BY <1>4 DEF TypeOK
  <2> QED BY <2>1, <2>2, <1>1, <1>2, <1>3
<1>5. CASE target[s] # t
  <2>1. clock'[target[s]] = clock[target[s]]
    BY <1>1, <1>5 DEF TypeOK
  <2>2. clock[target[s]] <= clock[source[s]] + min_delay[s]
    BY DEF WithinLookahead
  <2> QED BY <2>1, <2>2, <1>1, <1>2, <1>3
<1> QED BY <1>4, <1>5

LEMMA AdvanceInv ==
  ASSUME Inv, NEW t \in Timelines, NEW c \in 0 .. endtime, Advance(t, c)
  PROVE  Inv'
<1> USE DEF Inv
<1>1. TypeOK'
  BY DEF TypeOK, Advance
<1>2. NoStraggler'
  <2> SUFFICES ASSUME NEW r \in Timelines, NEW e \in pending'[r] PROVE clock'[r] <= e.t
    BY DEF NoStraggler
  <2>1. e \in pending[r]
    BY DEF Advance
  <2>2. CASE r = t
    BY <2>1, <2>2 DEF TypeOK, Advance, MayReach
  <2>3. CASE r # t
    BY <2>1, <2>3 DEF TypeOK, Advance, NoStraggler
  <2> QED BY <2>2, <2>3
<1>3. WithinLookahead'
  BY MoveKeepsLookahead DEF Advance
<1> QED BY <1>1, <1>2, <1>3

LEMMA ProcessInv ==
  ASSUME Inv, NEW t \in Timelines, NEW e \in pending[t], Process(t, e)
  PROVE  Inv'
<1> USE DEF Inv
<1>1. /\ e.t \in 0 .. endtime
      /\ clock' = [clock EXCEPT ![t] = e.t]
      /\ clock[t] \in Nat /\ clock[t] <= e.t
  <2>1. e \in [sg : Nat, n : Nat, t : Nat]
    BY TopologyAssumption DEF TypeOK
  <2> QED BY <2>1, TopologyAssumption DEF TypeOK, Process, MayReach
<1>2. TypeOK'
  BY <1>1 DEF TypeOK, Process
<1>3. WithinLookahead'
  BY <1>1, MoveKeepsLookahead DEF Process
<1>4. NoStraggler'
  <2> SUFFICES ASSUME NEW r \in Timelines, NEW x \in pending'[r] PROVE clock'[r] <= x.t
    BY DEF NoStraggler
  <2>1. x \in [sg : Nat, n : Nat, t : Nat]
    BY <1>2, TopologyAssumption DEF TypeOK
  <2>2. clock'[r] = IF r = t THEN e.t ELSE clock[r]
    BY <1>1 DEF TypeOK
  <2>3. clock[r] \in Nat
    BY TopologyAssumption DEF TypeOK
  <2>4. CASE x \in pending[r]
    \* It was there before: r has not passed it, and neither does e.
    BY <2>1, <2>2, <2>3, <2>4, <1>1 DEF NoStraggler, Process, MayReach
  <2>5. CASE x \notin pending[r]
    \* It has just been sent: r is within the lookahead of t.
    <3>1. /\ x.sg \in Stargates /\ source[x.sg] = t /\ target[x.sg] = r
          /\ e.t + min_delay[x.sg] <= x.t
      BY <2>5 DEF Process, Sendable
    <3>2. min_delay[x.sg] \in Nat
      BY <3>1, TopologyAssumption
    <3>3. clock[r] <= clock[t] + min_delay[x.sg]
      BY <3>1 DEF WithinLookahead
    <3> QED BY <1>1, <2>1, <2>2, <2>3, <3>1, <3>2, <3>3
  <2> QED BY <2>4, <2>5
<1> QED BY <1>2, <1>3, <1>4

LEMMA NextInv == Inv /\ [Next]_vars => Inv'
<1> SUFFICES ASSUME Inv, [Next]_vars PROVE Inv'
  OBVIOUS
<1>1. ASSUME NEW t \in Timelines, NEW c \in 0 .. endtime, Advance(t, c) PROVE Inv'
  BY <1>1, AdvanceInv
<1>2. ASSUME NEW t \in Timelines, NEW e \in pending[t], Process(t, e) PROVE Inv'
  BY <1>2, ProcessInv
<1>3. CASE UNCHANGED vars
  BY <1>3 DEF Inv, TypeOK, NoStraggler, WithinLookahead, vars
<1> QED BY <1>1, <1>2, <1>3 DEF Next, Step

(* TypeOK: every clock stays within the simulation and every set of events   *)
(* holds events, as the bounds of Timeline::run intend.                     *)
THEOREM TypeCorrect == Spec => []TypeOK
<1>1. Inv => TypeOK
  BY DEF Inv
<1> QED BY InitInv, NextInv, <1>1, PTL DEF Spec

(* No timeline has passed an unprocessed event: whatever the delays and the *)
(* order in which timelines run, no message reaches its receiver's past,    *)
(* where Timeline::insert_event would abort.                                *)
THEOREM NoStragglerHolds == Spec => []NoStraggler
<1>1. Inv => NoStraggler
  BY DEF Inv
<1> QED BY InitInv, NextInv, <1>1, PTL DEF Spec

(* No timeline is ahead of a predecessor by more than the delay of the      *)
(* stargate between them, which is what makes its lower bound a bound.      *)
THEOREM WithinLookaheadHolds == Spec => []WithinLookahead
<1>1. Inv => WithinLookahead
  BY DEF Inv
<1> QED BY InitInv, NextInv, <1>1, PTL DEF Spec

=============================================================================
