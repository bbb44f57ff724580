------------------------------ MODULE CausalTime ------------------------------
(***************************************************************************)
(* What a conservative parallel simulation promises, without threads,      *)
(* windows or mailboxes: every timeline has a clock and a set of events    *)
(* still to be processed; it processes them in the order of their times,   *)
(* and its clock never passes a time at which an event may yet arrive.     *)
(* Events at or after the end of the simulation are of no interest.        *)
(***************************************************************************)
EXTENDS Integers

CONSTANTS
  Timelines, Stargates, source, target, min_delay, endtime,
  Event            \* [sg, n, t]: the n-th message of stargate sg, for time t

ASSUME TopologyAssumption ==
  /\ source \in [Stargates -> Timelines]
  /\ target \in [Stargates -> Timelines]
  /\ min_delay \in [Stargates -> Nat \ {0}]
  /\ endtime \in Nat \ {0}
  /\ Event \subseteq [sg : Nat, n : Nat, t : Nat]

VARIABLES
  clock,     \* [Timelines -> 0 .. endtime]
  pending    \* [Timelines -> SUBSET Event]

vars == <<clock, pending>>

TypeOK ==
  /\ clock \in [Timelines -> 0 .. endtime]
  /\ pending \in [Timelines -> SUBSET Event]

Init ==
  /\ clock = [t \in Timelines |-> 0]
  /\ pending \in [Timelines -> SUBSET Event]

MayReach_NoEnd(t, c) ==  \* mutant: goes on after the end of the simulation
  /\ clock[t] <= c
  /\ \A e \in pending[t] : c <= e.t
  /\ \A s \in Stargates : target[s] = t => c <= clock[source[s]] + min_delay[s]
MayReach_Lax(t, c) ==  \* mutant: off by one
  /\ clock[t] <= c /\ c <= endtime
  /\ \A e \in pending[t] : c <= e.t
  /\ \A s \in Stargates : target[s] = t => c <= clock[source[s]] + min_delay[s] + 1
MayReach_NoDelay(t, c) ==  \* mutant: forgets the delay of the stargate
  /\ clock[t] <= c /\ c <= endtime
  /\ \A e \in pending[t] : c <= e.t
  /\ \A s \in Stargates : target[s] = t => c <= clock[source[s]]
\* Timeline t may move to time c: nothing is left to do before c, and nothing
\* that is still to be sent to it can arrive before c.
MayReach(t, c) ==
  /\ clock[t] <= c /\ c <= endtime
  /\ \A e \in pending[t] : c <= e.t
  /\ \A s \in Stargates : target[s] = t => c <= clock[source[s]] + min_delay[s]

Advance(t, c) ==
  /\ MayReach(t, c)
  /\ clock' = [clock EXCEPT ![t] = c]
  /\ UNCHANGED pending

Sendable_NoDelay(x, t, now, r) ==  \* mutant: forgets the delay of the stargate
  /\ x.sg \in Stargates /\ source[x.sg] = t /\ target[x.sg] = r
  /\ now <= x.t
\* Timeline t, at time now, may send x to timeline r.
Sendable(x, t, now, r) ==
  /\ x.sg \in Stargates /\ source[x.sg] = t /\ target[x.sg] = r
  /\ now + min_delay[x.sg] <= x.t

\* Event e is processed, and messages may be sent.
Process(t, e) ==
  LET kept(r) == IF r = t THEN pending[r] \ {e} ELSE pending[r] IN
  /\ e \in pending[t] /\ MayReach(t, e.t)
  /\ clock' = [clock EXCEPT ![t] = e.t]
  /\ pending' \in [Timelines -> SUBSET Event]
  /\ \A r \in Timelines : /\ kept(r) \subseteq pending'[r]
                           /\ \A x \in pending'[r] \ kept(r) : Sendable(x, t, e.t, r)

Step(t) == (\E c \in 0 .. endtime : Advance(t, c)) \/ (\E e \in pending[t] : Process(t, e))

Next == \E t \in Timelines : Step(t)

Spec == Init /\ [][Next]_vars

\* No timeline stops for ever while it may move.
FairSpec == Spec /\ \A t \in Timelines : WF_vars(Step(t))

-----------------------------------------------------------------------------
(* No event is left behind: a clock never passes an unprocessed event, so no *)
(* message can arrive in its receiver's past (Timeline::insert_event aborts  *)
(* the simulation on one).                                                   *)
NoStraggler == \A t \in Timelines : \A e \in pending[t] : clock[t] <= e.t

(* A timeline is never further ahead of a predecessor than the delay of the  *)
(* stargate between them.                                                    *)
WithinLookahead ==
  \A s \in Stargates : clock[target[s]] <= clock[source[s]] + min_delay[s]

(* The timelines do not wait on one another for ever: since every delay is   *)
(* positive, whoever is behind can move, and all reach the end.              *)
Progress == <>(\A t \in Timelines : clock[t] = endtime)

=============================================================================
