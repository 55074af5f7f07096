----------------------------- MODULE AllReduce -----------------------------
(***************************************************************************)
(* What a sequence of all-reduces promises to the ranks of a group.  In its*)
(* round k every rank gives one input; it gets a result only after every   *)
(* rank has given its input of round k, and every element of the result is *)
(* the sum of all ranks' inputs of round k: a sum is the set of the inputs *)
(* <<rank, round>> it adds up, a result is the set of its elements' sums.  *)
(***************************************************************************)
EXTENDS Naturals

CONSTANTS Ranks, MaxRounds   \* MaxRounds: how many all-reduces are made

VARIABLES given,    \* how many inputs each rank has given
          done,     \* how many results it has got
          result    \* its last result

SumOf(k) == {<<r, k>> : r \in Ranks}

Init ==
  /\ given = [r \in Ranks |-> 0]
  /\ done = [r \in Ranks |-> 0]
  /\ result = [r \in Ranks |-> {}]

Give(r) ==
  /\ given[r] = done[r] /\ given[r] < MaxRounds
  /\ given' = [given EXCEPT ![r] = @ + 1]
  /\ UNCHANGED <<done, result>>

Get(r) ==
  /\ \A p \in Ranks : given[p] > done[r]
  /\ done' = [done EXCEPT ![r] = @ + 1]
  /\ result' = [result EXCEPT ![r] = {SumOf(done[r])}]
  /\ UNCHANGED given

Next == \E r \in Ranks : Give(r) \/ Get(r)

Spec == Init /\ [][Next]_<<given, done, result>>
=============================================================================
