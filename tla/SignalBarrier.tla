--------------------------- MODULE SignalBarrier ---------------------------
(***************************************************************************)
(* start_sync and end_sync of custom_all_reduce.cuh, of one block id: each *)
(* rank counts the barriers it has passed in flag, stores the next count in*)
(* its peers' signals and waits until its own hold at least that count.    *)
(* The two kinds of barrier use an array of signals each and one counter,  *)
(* an unsigned integer of which Width is the number of values.             *)
(***************************************************************************)
EXTENDS Naturals

CONSTANTS Ranks, Width

ASSUME SignalBarrierAssumption == Width \in Nat \ {0}

VARIABLES
  flag,       \* _flag of each rank
  signal,     \* signal[array][rank][peer]: the count peer has stored there
  waiting,    \* the array whose barrier a rank waits in, "none" outside
  entered,    \* barriers each rank has entered (history)
  left        \* and left (history)

barrierVars == <<flag, signal, waiting, entered, left>>

Arrays == {"start", "end"}

NextFlag(r) == (flag[r] + 1) % Width

\* Waiting for the count of the barrier before.
AllSignalledBefore(r, a) == \A p \in Ranks : ~(signal[a][r][p] < flag[r])

\* No rank's signal is still below the count of this barrier.
AllSignalled(r, a) == \A p \in Ranks : ~(signal[a][r][p] < NextFlag(r))

BarrierInit ==
  /\ flag = [r \in Ranks |-> 0]
  /\ signal = [a \in Arrays |-> [r \in Ranks |-> [p \in Ranks |-> 0]]]
  /\ waiting = [r \in Ranks |-> "none"]
  /\ entered = [r \in Ranks |-> 0]
  /\ left = [r \in Ranks |-> 0]

\* One thread per peer stores the signal.
Enter(r, a) ==
  /\ waiting[r] = "none"
  /\ waiting' = [waiting EXCEPT ![r] = a]
  /\ signal' = [signal EXCEPT ![a] = [p \in Ranks |-> [@[p] EXCEPT ![r] = NextFlag(r)]]]
  /\ entered' = [entered EXCEPT ![r] = @ + 1]
  /\ UNCHANGED <<flag, left>>

\* Every thread has seen its peer's signal; one of them updates the counter.
Leave(r, a) ==
  /\ waiting[r] = a
  /\ AllSignalled(r, a)
  /\ waiting' = [waiting EXCEPT ![r] = "none"]
  /\ flag' = [flag EXCEPT ![r] = NextFlag(r)]
  /\ left' = [left EXCEPT ![r] = @ + 1]
  /\ UNCHANGED <<signal, entered>>

-----------------------------------------------------------------------------
BarrierTypes ==
  /\ flag \in [Ranks -> 0..(Width - 1)]
  /\ signal \in [Arrays -> [Ranks -> [Ranks -> 0..(Width - 1)]]]
  /\ waiting \in [Ranks -> Arrays \cup {"none"}]
  /\ entered \in [Ranks -> Nat] /\ left \in [Ranks -> Nat]

\* "Wait until we got true from all ranks" (custom_all_reduce.cuh:181): nobody
\* has left a barrier that another rank has not entered, however many barriers
\* of either kind the ranks have passed.
BarriersHold == \A r, p \in Ranks : left[r] <= entered[p]
=============================================================================
