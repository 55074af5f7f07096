------------------------------ MODULE Lamport ------------------------------
(***************************************************************************)
(* The barrier-free all-reduce kernels of custom_all_reduce.cuh.  A rank   *)
(* pushes its data into its peers' inboxes and polls its own; a slot has   *)
(* arrived once it no longer holds the sentinel.  Three buffers take turns:*)
(* the kernel of round c uses buffer c % 3 and re-arms the one of round    *)
(* c - 1.  One block is modelled, on every rank: blocks of different ids   *)
(* share nothing.  The block is one wave per peer; the lanes of a wave are *)
(* its positions, of which the first `size' carry data in a given round.   *)
(* stages is 1 for the one-shot kernel, 2 for the two-shot one, which      *)
(* pushes the sums of its chunk as a second stage.                         *)
(*                                                                         *)
(* What a slot holds is the set of inputs <<rank, round>> it adds up.      *)
(***************************************************************************)
EXTENDS Integers

CONSTANTS Ranks,
          Lanes,      \* positions of a block
          MaxRounds,  \* bound: how many all-reduces are made
          Sizes       \* the sequences of message sizes, as active positions

ASSUME LamportAssumption ==
  /\ \A r \in Ranks : Ranks \ {r} # {}
  /\ Lanes \in Nat \ {0} /\ MaxRounds \in Nat
  /\ Sizes \subseteq [0..(MaxRounds - 1) -> 1..Lanes]

VARIABLES
  stages,     \* which of the two kernels runs, the same on every rank
  size,       \* the active positions of the message of each round
  armed,      \* the ranks whose inbox initLamport has filled
  round,      \* round_counter of the block, on each rank
  finished,   \* how many rounds each rank has finished (history)
  inbox,      \* inbox[receiver, source, stage, buffer, position]
  landed,     \* <<peer, stage>>: the stores of this round that have landed
  got,        \* got[rank, source, stage, position]: what polling returned
  rearmed,    \* the waves, by peer, that have re-armed their slots
  result      \* the sums in each rank's last output

vars == <<stages, size, armed, round, finished, inbox, landed, got, rearmed, result>>

Buffers == 0..2
Stages == {1, 2}
Positions == 1..Lanes
Rounds == 0..(MaxRounds - 1)
Peers(r) == Ranks \ {r}
Data == SUBSET (Ranks \X Rounds)
Sentinel == {}

\* Memory as it was before initLamport.
Garbage == Ranks \X Rounds

\* The set-up without the barrier after the memset.
RunningUnarmed(r) == finished[r] < MaxRounds

Running(r) == armed = Ranks /\ finished[r] < MaxRounds
Active(r) == 1..size[finished[r]]

\* Wave of peer p has polled its slot; every wave has, which is the block's
\* __syncthreads.
Polled(r, p, s) == \A x \in Active(r) : got[<<r, p, s, x>>] # Sentinel
Synced(r) == \A p \in Peers(r) : Polled(r, p, 1)

\* The sum of LDS at a position: this rank's own input and what it polled.
Sum(r, x) == {<<r, finished[r]>>} \cup UNION {got[<<r, p, 1, x>>] : p \in Peers(r)}

\* What a rank sends in a stage.
Value(r, s, x) == IF s = 1 THEN {<<r, finished[r]>>} ELSE Sum(r, x)

\* The chunks that the peers have reduced.
Gathered(r) == UNION {{got[<<r, p, 2, x>>] : x \in Active(r)} : p \in Peers(r)}

Output(r) == {Sum(r, x) : x \in Active(r)} \cup IF stages = 1 THEN {} ELSE Gathered(r)

\* Re-arming only the lanes that carry data this round.
OldActiveSlot(r, p, k) ==
  k[1] = r /\ k[2] = p /\ k[4] = (round[r] + 2) % 3 /\ k[5] \in Active(r)

\* Re-arming the buffer of the next round.
NextSlot(r, p, k) == k[1] = r /\ k[2] = p /\ k[4] = (round[r] + 1) % 3

\* A slot of wave p in the buffer of the round before, on any of its lanes.
OldSlot(r, p, k) == k[1] = r /\ k[2] = p /\ k[4] = (round[r] + 2) % 3

\* The counter without its modulus.
NextRoundUnwrapped(r) == round[r] + 1

NextRound(r) == (round[r] + 1) % 3

Init ==
  /\ stages \in Stages
  /\ size \in Sizes
  /\ armed = {}
  /\ round = [r \in Ranks |-> 0]
  /\ finished = [r \in Ranks |-> 0]
  /\ inbox = [k \in Ranks \X Ranks \X Stages \X Buffers \X Positions |-> Garbage]
  /\ landed = [r \in Ranks |-> {}]
  /\ got = [k \in Ranks \X Ranks \X Stages \X Positions |-> Sentinel]
  /\ rearmed = [r \in Ranks |-> {}]
  /\ result = [r \in Ranks |-> {}]

\* initLamport fills this rank's inbox; the barrier after it is Running.
Arm(r) ==
  /\ r \notin armed
  /\ armed' = armed \cup {r}
  /\ inbox' = [k \in DOMAIN inbox |-> IF k[1] = r THEN Sentinel ELSE inbox[k]]
  /\ UNCHANGED <<stages, size, round, finished, landed, got, rearmed, result>>

\* The stores of one wave to its peer land, in any order among the waves.
Push(r, p, s) ==
  /\ Running(r) /\ s <= stages
  /\ <<p, s>> \notin landed[r]
  /\ s = 2 => Synced(r)
  /\ landed' = [landed EXCEPT ![r] = @ \cup {<<p, s>>}]
  /\ inbox' = [k \in DOMAIN inbox |->
                 IF k[1] = p /\ k[2] = r /\ k[3] = s /\ k[4] = round[r] /\ k[5] \in Active(r)
                 THEN Value(r, s, k[5]) ELSE inbox[k]]
  /\ UNCHANGED <<stages, size, armed, round, finished, got, rearmed, result>>

\* A lane's slot has arrived.
Poll(r, p, s, x) ==
  /\ Running(r) /\ s <= stages /\ x \in Active(r)
  /\ got[<<r, p, s, x>>] = Sentinel
  /\ s = 2 => Synced(r)
  /\ inbox[<<r, p, s, round[r], x>>] # Sentinel
  /\ got' = [got EXCEPT ![<<r, p, s, x>>] = inbox[<<r, p, s, round[r], x>>]]
  /\ UNCHANGED <<stages, size, armed, round, finished, inbox, landed, rearmed, result>>

\* Each lane re-arms the slots its peer filled last round, of both inboxes.
Rearm(r, p) ==
  /\ Running(r) /\ p \notin rearmed[r]
  /\ Synced(r) /\ Polled(r, p, stages)
  /\ rearmed' = [rearmed EXCEPT ![r] = @ \cup {p}]
  /\ inbox' = [k \in DOMAIN inbox |-> IF OldSlot(r, p, k) THEN Sentinel ELSE inbox[k]]
  /\ UNCHANGED <<stages, size, armed, round, finished, landed, got, result>>

\* The kernel ends, which makes its stores visible; the next may start.
Finish(r) ==
  /\ Running(r)
  /\ landed[r] = Peers(r) \X (1..stages) /\ rearmed[r] = Peers(r)
  /\ round' = [round EXCEPT ![r] = NextRound(r)]
  /\ finished' = [finished EXCEPT ![r] = @ + 1]
  /\ result' = [result EXCEPT ![r] = Output(r)]
  /\ landed' = [landed EXCEPT ![r] = {}]
  /\ rearmed' = [rearmed EXCEPT ![r] = {}]
  /\ got' = [k \in DOMAIN got |-> IF k[1] = r THEN Sentinel ELSE got[k]]
  /\ UNCHANGED <<stages, size, armed, inbox>>

Wave(r, p) ==
  \/ \E s \in Stages : Push(r, p, s) \/ \E x \in Positions : Poll(r, p, s, x)
  \/ Rearm(r, p)

Rank(r) == Arm(r) \/ Finish(r) \/ \E p \in Peers(r) : Wave(r, p)

Next == \E r \in Ranks : Rank(r)

Spec == Init /\ [][Next]_vars

\* A block waits only for the same block of the other ranks: each block makes
\* progress.
FairSpec == Spec /\ \A r \in Ranks : WF_vars(Rank(r))

-----------------------------------------------------------------------------
TypeOK ==
  /\ stages \in Stages /\ size \in Sizes
  /\ armed \subseteq Ranks
  /\ round \in [Ranks -> Buffers] /\ finished \in [Ranks -> 0..MaxRounds]
  /\ inbox \in [Ranks \X Ranks \X Stages \X Buffers \X Positions -> Data]
  /\ landed \in [Ranks -> SUBSET (Ranks \X Stages)]
  /\ got \in [Ranks \X Ranks \X Stages \X Positions -> Data]
  /\ rearmed \in [Ranks -> SUBSET Ranks]
  /\ result \in [Ranks -> SUBSET Data]

\* What p sends for round k in stage s.
Sent(p, s, k) == IF s = 1 THEN {<<p, k>>} ELSE {<<q, k>> : q \in Ranks}

\* Has p's data of round k and stage s landed in the inbox of r?
HasLanded(p, r, s, k) ==
  k < finished[p] \/ (k = finished[p] /\ <<r, s>> \in landed[p])

\* What a peer has sent for the round a rank is in, or for a later one, is
\* still in its inbox: neither the re-arming of this rank, nor the memset of
\* its set-up, nor a later store of the peer has destroyed it.
ArrivedDataKept ==
  \A r \in Ranks : \A p \in Peers(r), s \in 1..stages, k \in Rounds :
    k >= finished[r] /\ HasLanded(p, r, s, k)
      => \A x \in 1..size[k] : inbox[<<r, p, s, k % 3, x>>] = Sent(p, s, k)

\* Once armed, a slot goes from the sentinel to data and back: no store lands
\* on data that has not been re-armed, whatever the sizes of the messages.
SlotsTakeTurns ==
  [][armed = Ranks => \A k \in DOMAIN inbox :
       inbox'[k] # inbox[k] => inbox[k] = Sentinel \/ inbox'[k] = Sentinel]_vars

\* A rank has given its input of a round once some of it has landed.
Given == [r \in Ranks |-> finished[r] + IF landed[r] # {} THEN 1 ELSE 0]

\* The ranks see all-reduces: nobody has its result before all have given
\* their input, and it adds up the inputs of that round, one of every rank.
AR == INSTANCE AllReduce WITH given <- Given, done <- finished
ImplementsAllReduce == AR!Spec

\* No rank waits for ever for a slot.
EveryRoundFinishes == <>(\A r \in Ranks : finished[r] = MaxRounds)
=============================================================================
