------------------------------- MODULE BinQueue -------------------------------
(***************************************************************************)
(* The calendar queue in which a universe keeps the messages of its        *)
(* synchronous stargates (minissf/kernel/binque.cc), and the calls that    *)
(* the main loop of the universe makes: insert while a window runs,        *)
(* retrieve at its edges, settle when the window length is final.          *)
(*                                                                         *)
(* One queue, of the machine's windows ("decades"); that of the epochs is  *)
(* used in the same way.  Times are integers, events differ by a number.   *)
(***************************************************************************)
EXTENDS Integers, FiniteSets

CONSTANTS
  endtime,
  TrainingLengths,  \* when the window length may become final; 0: at the start
  TrainingWindow,   \* the window length before,
  Window,           \* and after that
  MaxBins,          \* 1024 in the code
  MaxEvents,        \* bound: messages inserted
  MaxTime           \* bound: their times

ASSUME WindowAssumption ==
  /\ {endtime, TrainingWindow, Window, MaxBins} \subseteq Nat \ {0}
  /\ {MaxEvents, MaxTime} \subseteq Nat
  /\ TrainingLengths \subseteq 0 .. endtime - 1

VARIABLES
  training_length,  \* one of them
  settled,          \* bin_array # 0
  nbins, curbin, lower_edge, offset, bin_array, tmp_holder, splay,
  synpoint, next_decade,   \* of the universe
  inserted,         \* number of messages so far
  aborted           \* an assertion of the code failed

binVars == <<settled, nbins, curbin, lower_edge, offset, bin_array, tmp_holder, splay>>
loopVars == <<synpoint, next_decade>>
vars == <<training_length, binVars, loopVars, inserted, aborted>>

Lesser(a, b) == IF a < b THEN a ELSE b
length == IF settled THEN Window ELSE TrainingWindow
Bins == 0 .. nbins - 1

\* Edges of the windows: clipped by the end of training and of the simulation.
Clip(t) == Lesser(t, IF settled THEN endtime ELSE training_length)

\* settle(Window, nb, now), with nb computed by the caller.
NewBins == IF endtime \div MaxBins > Window THEN MaxBins ELSE endtime \div Window + 1

Init ==
  /\ training_length \in TrainingLengths
  /\ settled = (training_length = 0)
  /\ nbins = IF settled THEN NewBins ELSE 1
  /\ bin_array = [i \in Bins |-> {}]
  /\ curbin = 0 /\ lower_edge = 0 /\ offset = 0
  /\ tmp_holder = {} /\ splay = {}
  /\ synpoint = 0
  /\ next_decade = Clip(length)
  /\ inserted = 0
  /\ aborted = FALSE

SlotOf_Absolute(t) ==  \* mutant: forgets the offset
  (t \div Window) % nbins
SlotOf(t) == ((t - offset) \div Window) % nbins
NextBin_NoTurn(b) ==  \* mutant: does not wrap around
  b + 1
NextBin(b) == (b + 1) % nbins

\* insert_event: a timeline that has reached at least synpoint writes to a
\* synchronous stargate, whose delay is at least the window length.
Insert(t) ==
  LET e == [n |-> inserted, t |-> t]
      k == t - offset
      near == k < lower_edge + Window * nbins
  IN
  /\ inserted < MaxEvents
  /\ synpoint < endtime /\ synpoint + length <= t
  /\ inserted' = inserted + 1
  /\ tmp_holder' = IF settled THEN tmp_holder ELSE tmp_holder \cup {e}
  /\ bin_array' = IF settled /\ near THEN [bin_array EXCEPT ![SlotOf(t)] = @ \cup {e}]
                  ELSE bin_array
  /\ splay' = IF settled /\ ~near THEN splay \cup {e} ELSE splay
  /\ aborted' = (aborted \/ (settled /\ k < lower_edge))
  /\ UNCHANGED <<training_length, settled, nbins, curbin, lower_edge, offset, loopVars>>

\* retrieve_events(upper): one bin, which the window may leave unfinished,
\* what is due of the far future, and all that was held before settlement.
\* The first bin is skipped if nothing was retrieved while it was current.
Retrieve(upper) ==
  LET u      == upper - offset
      skip   == lower_edge + Window < u
      bin    == IF skip THEN NextBin(curbin) ELSE curbin
      lower  == IF skip THEN lower_edge + Window ELSE lower_edge
      closed == lower + Window <= u
  IN
  IF ~settled
  THEN /\ tmp_holder' = {}
       /\ UNCHANGED <<nbins, curbin, lower_edge, bin_array, splay, aborted>>
  ELSE IF lower_edge >= u THEN UNCHANGED <<binVars, aborted>>
  ELSE /\ bin_array' = [bin_array EXCEPT ![bin] = {}]
       /\ curbin' = IF closed THEN NextBin(bin) ELSE bin
       /\ lower_edge' = IF closed THEN lower + Window ELSE lower
       /\ splay' = {e \in splay : e.t >= u}
       /\ tmp_holder' = {}
       /\ aborted' = (aborted \/ (skip /\ (bin_array[curbin] # {} \/ lower + Window < u)))
       /\ UNCHANGED nbins

Settle_Zero ==  \* mutant: the calendar starts at time 0
  /\ settled' = TRUE
  /\ nbins' = NewBins
  /\ bin_array' = [i \in 0 .. NewBins - 1 |-> {}]
  /\ curbin' = 0 /\ lower_edge' = 0 /\ offset' = 0
  /\ tmp_holder' = {}
  /\ UNCHANGED <<splay, aborted>>
\* settle, at the edge at which training ends.
Settle ==
  /\ settled' = TRUE
  /\ nbins' = NewBins
  /\ bin_array' = [i \in 0 .. NewBins - 1 |-> {}]
  /\ curbin' = 0 /\ lower_edge' = 0 /\ offset' = synpoint'
  /\ tmp_holder' = {}
  /\ UNCHANGED <<splay, aborted>>

NextDecade_OldEdge ==  \* mutant: retrieves up to the edge that was reached
  LET upper == Clip(next_decade + length) IN
  /\ next_decade < (IF settled THEN endtime ELSE training_length)
  /\ synpoint' = next_decade
  /\ next_decade' = upper
  /\ Retrieve(next_decade)
  /\ UNCHANGED <<training_length, settled, offset, inserted>>
\* The window ends: synpoint moves to the next decade, or to the edge of an
\* epoch before it; the messages of the next window are retrieved.
NextDecade ==
  LET upper == Clip(next_decade + length) IN
  /\ next_decade < (IF settled THEN endtime ELSE training_length)
  /\ synpoint' = next_decade
  /\ next_decade' = upper
  /\ Retrieve(upper)
  /\ UNCHANGED <<training_length, settled, offset, inserted>>

EndTraining ==
  /\ ~settled /\ next_decade = training_length
  /\ synpoint' = next_decade
  /\ next_decade' = Lesser(synpoint' + Window, endtime)
  /\ Settle
  /\ UNCHANGED <<training_length, inserted>>

NextEpoch ==
  /\ \E e \in synpoint + 1 .. next_decade - 1 : synpoint' = e
  /\ Retrieve(next_decade)
  /\ UNCHANGED <<training_length, settled, offset, next_decade, inserted>>

\* The last window runs to the end of the simulation.
Finished == settled /\ next_decade = endtime /\ UNCHANGED vars

Next ==
  \/ \E t \in 0 .. MaxTime : Insert(t)
  \/ NextDecade \/ EndTraining \/ NextEpoch \/ Finished

Spec == Init /\ [][Next]_vars

-----------------------------------------------------------------------------
Events == [n : 0 .. MaxEvents - 1, t : 0 .. MaxTime]
Queued == splay \cup tmp_holder \cup UNION {bin_array[i] : i \in Bins}

(* Every variable has its type. *)
TypeOK ==
  /\ training_length \in TrainingLengths
  /\ settled \in BOOLEAN /\ aborted \in BOOLEAN
  /\ nbins \in Nat \ {0} /\ curbin \in Bins
  /\ lower_edge \in Nat /\ offset \in Nat
  /\ bin_array \in [Bins -> SUBSET Events]
  /\ tmp_holder \subseteq Events /\ splay \subseteq Events
  /\ synpoint \in 0 .. endtime /\ next_decade \in 0 .. endtime
  /\ inserted \in 0 .. MaxEvents

(* retrieve_events "retrieve[s] all events from the bins below the given    *)
(* time": in a window, nothing due before its upper edge is still queued.   *)
RetrievedInTime == \A e \in Queued : next_decade <= e.t

(* The calendar and its cursor agree: curbin is the bin of lower_edge, each *)
(* bin holds what falls into it within one turn of the calendar, and what   *)
(* is further away is not in a bin.                                         *)
Calendar ==
  /\ curbin = (lower_edge \div Window) % nbins
  /\ \A i \in Bins : \A e \in bin_array[i] :
       LET k == e.t - offset IN
       /\ lower_edge <= k /\ k < lower_edge + Window * nbins
       /\ (k \div Window) % nbins = i

(* The assertions in insert_event and retrieve_events hold: the main loop   *)
(* neither inserts behind the current bin nor skips a bin that holds        *)
(* something, nor a second one.                                             *)
NoAbort == ~aborted

=============================================================================
