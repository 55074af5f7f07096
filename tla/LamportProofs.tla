--------------------------- MODULE LamportProofs ---------------------------
(***************************************************************************)
(* Lamport, proved for any ranks, lanes, sequence of message sizes and     *)
(* number of rounds, and for both kernels.  IInv is the inductive          *)
(* invariant.  Its heart is SlotsInStep, which says for every slot of the  *)
(* three buffers what it holds, and RanksInStep, which keeps two ranks     *)
(* within one round of each other, so that the three buffers are enough.   *)
(***************************************************************************)
EXTENDS Lamport, TLAPS

\* The slot that r polls for p's data of round k.
Slot(r, p, s, k, x) ==
  inbox[<<r, p, s, k % 3, x>>] =
    IF HasLanded(p, r, s, k) /\ x \in 1..size[k] THEN Sent(p, s, k) ELSE Sentinel

\* Nothing happens before every inbox is armed.
Setup ==
  armed # Ranks =>
    /\ \A r \in Ranks : finished[r] = 0 /\ landed[r] = {} /\ rearmed[r] = {}
    /\ \A r \in armed, p \in Ranks, s \in Stages, b \in Buffers, x \in Positions :
         inbox[<<r, p, s, b, x>>] = Sentinel

\* The buffers in use are those of the round a rank is in.
Counters ==
  \A r \in Ranks : /\ round[r] = finished[r] % 3
                   /\ landed[r] # {} \/ rearmed[r] # {} => finished[r] < MaxRounds

\* Of the buffers, one serves the round a rank is in, one the next round, and
\* the third is the one being re-armed.
SlotsInStep ==
  armed = Ranks =>
    \A r \in Ranks : \A p \in Peers(r), s \in 1..stages, x \in Positions :
      /\ Slot(r, p, s, finished[r], x)
      /\ Slot(r, p, s, finished[r] + 1, x)
      /\ p \in rearmed[r] => inbox[<<r, p, s, (finished[r] + 2) % 3, x>>] = Sentinel

\* A rank is in round k + 1 only after its peers' data of round k has landed.
RanksInStep ==
  \A r \in Ranks : \A p \in Peers(r), s \in 1..stages, k \in Rounds :
    k < finished[r] => HasLanded(p, r, s, k)

\* What polling returned is the peer's data of this round.
PolledInStep ==
  \A r \in Ranks : \A p \in Peers(r), s \in Stages, x \in Positions :
    got[<<r, p, s, x>>] # Sentinel =>
      s <= stages /\ HasLanded(p, r, s, finished[r]) /\ got[<<r, p, s, x>>] = Sent(p, s, finished[r])

\* A wave re-arms its slots only when all of the block's polling is over.
RearmedAfterPolling ==
  \A r \in Ranks : \A p \in rearmed[r] :
    p \in Peers(r) /\ Synced(r) /\ Polled(r, p, stages)

\* The inductive invariant.
IInv == TypeOK /\ Setup /\ Counters /\ SlotsInStep /\ RanksInStep /\ PolledInStep
          /\ RearmedAfterPolling

\* The three buffers taking turns.
LEMMA Mod3 == \A k \in Nat : /\ k % 3 \in Buffers
                             /\ ((k % 3) + 1) % 3 = (k + 1) % 3
                             /\ ((k % 3) + 2) % 3 = (k + 2) % 3
                             /\ (k + 3) % 3 = k % 3
                             /\ k % 3 # (k + 1) % 3 /\ k % 3 # (k + 2) % 3
                             /\ (k + 1) % 3 # (k + 2) % 3
  BY DEF Buffers

-----------------------------------------------------------------------------
\* What a rank sends is what its peers expect: the sums of its chunk are those
\* of one round once it has polled every peer.
LEMMA SumInStep ==
  ASSUME IInv, NEW r \in Ranks, Running(r), Synced(r), NEW x \in Active(r)
  PROVE  Sum(r, x) = Sent(r, 2, finished[r])
<1>1. finished[r] \in Rounds /\ x \in Positions
  BY LamportAssumption DEF IInv, TypeOK, Running, Active, Rounds, Positions
<1>2. \A p \in Peers(r) : got[<<r, p, 1, x>>] = {<<p, finished[r]>>}
  BY <1>1 DEF Synced, Polled, IInv, PolledInStep, Stages, Sent
<1>3. \A p \in Ranks : p = r \/ p \in Peers(r)
  BY DEF Peers
<1>4. {got[<<r, p, 1, x>>] : p \in Peers(r)} = {{<<p, finished[r]>>} : p \in Peers(r)}
  BY <1>2
<1>5. UNION {{<<p, finished[r]>>} : p \in Peers(r)} = {<<p, finished[r]>> : p \in Peers(r)}
  OBVIOUS
<1>6. Sum(r, x) = {<<r, finished[r]>>} \cup {<<p, finished[r]>> : p \in Peers(r)}
  BY <1>4, <1>5 DEF Sum
<1>7. Sent(r, 2, finished[r]) = {<<q, finished[r]>> : q \in Ranks}
  BY DEF Sent
<1> QED
  BY <1>3, <1>6, <1>7 DEF Peers

\* So is what it sends in either stage.
LEMMA ValueInStep ==
  ASSUME IInv, NEW r \in Ranks, NEW s \in Stages, Running(r), s = 2 => Synced(r),
         NEW x \in Active(r)
  PROVE  Value(r, s, x) = Sent(r, s, finished[r])
  BY SumInStep DEF Value, Sent, Stages

\* What is sent is data, and never the sentinel.
LEMMA SentType ==
  \A p \in Ranks, s \in Stages, k \in Rounds : Sent(p, s, k) \in Data /\ Sent(p, s, k) # Sentinel
  BY DEF Sent, Data, Sentinel

\* Counters and rounds are numbers.
LEMMA CountTypes ==
  ASSUME TypeOK
  PROVE  /\ MaxRounds \in Nat
         /\ \A r \in Ranks : finished[r] \in Nat /\ finished[r] <= MaxRounds
         /\ 1 \in 1..stages /\ stages \in 1..stages
         /\ \A s \in 1..stages : s \in Stages
         /\ \A s \in Stages : s <= stages => s \in 1..stages
<1>1. finished \in [Ranks -> 0..MaxRounds] /\ MaxRounds \in Nat
  BY LamportAssumption DEF TypeOK
<1>2. stages = 1 \/ stages = 2
  BY DEF TypeOK, Stages
<1> QED
  BY <1>1, <1>2 DEF Stages

\* A running rank is in one of the rounds, whose message fits the block.
LEMMA RunningRound ==
  ASSUME TypeOK, NEW r \in Ranks, Running(r)
  PROVE  /\ finished[r] \in Rounds /\ finished[r] \in Nat
         /\ Active(r) \subseteq Positions
         /\ 1 \in Active(r)
         /\ \A k \in Rounds : size[k] \in 1..Lanes
  BY LamportAssumption DEF TypeOK, Running, Active, Rounds, Positions

\* What each step does to the inboxes.
LEMMA PushEffect ==
  ASSUME IInv, NEW r \in Ranks, NEW p \in Peers(r), NEW s \in Stages, Push(r, p, s)
  PROVE  \A q \in Ranks, o \in Ranks, t \in Stages, b \in Buffers, x \in Positions :
           inbox'[<<q, o, t, b, x>>] =
             IF q = p /\ o = r /\ t = s /\ b = finished[r] % 3 /\ x \in Active(r)
             THEN Sent(r, s, finished[r]) ELSE inbox[<<q, o, t, b, x>>]
<1>1. \A x \in Active(r) : Value(r, s, x) = Sent(r, s, finished[r])
  BY ValueInStep DEF Push
<1>2. round[r] = finished[r] % 3
  BY DEF IInv, Counters
<1> TAKE q \in Ranks, o \in Ranks, t \in Stages, b \in Buffers, x \in Positions
<1>3. inbox'[<<q, o, t, b, x>>] =
        IF q = p /\ o = r /\ t = s /\ b = round[r] /\ x \in Active(r)
        THEN Value(r, s, x) ELSE inbox[<<q, o, t, b, x>>]
  BY DEF IInv, TypeOK, Push
<1> QED
  BY <1>1, <1>2, <1>3

\* The one of re-arming.
LEMMA RearmEffect ==
  ASSUME IInv, NEW r \in Ranks, NEW p \in Peers(r), Rearm(r, p)
  PROVE  \A q \in Ranks, o \in Ranks, t \in Stages, b \in Buffers, x \in Positions :
           inbox'[<<q, o, t, b, x>>] =
             IF q = r /\ o = p /\ b = (finished[r] + 2) % 3
             THEN Sentinel ELSE inbox[<<q, o, t, b, x>>]
<1>1. (round[r] + 2) % 3 = (finished[r] + 2) % 3
  BY Mod3 DEF IInv, Counters, TypeOK
<1> QED
  BY <1>1 DEF IInv, TypeOK, Rearm, OldSlot

-----------------------------------------------------------------------------
\* Types.
LEMMA TypeStep == IInv /\ [Next]_vars => TypeOK'
<1> SUFFICES ASSUME IInv, [Next]_vars PROVE TypeOK'
  OBVIOUS
<1> USE LamportAssumption
<1>0. TypeOK
  BY DEF IInv
<1>s. Sentinel \in Data
  BY DEF Sentinel, Data
<1>1. ASSUME NEW r \in Ranks, Arm(r) PROVE TypeOK'
  BY <1>0, <1>1, <1>s DEF Arm, TypeOK
<1>2. ASSUME NEW r \in Ranks, Finish(r) PROVE TypeOK'
  <2>1. Running(r)
    BY <1>2 DEF Finish, NextRound
  <2>2. finished' \in [Ranks -> 0..MaxRounds]
    BY <1>0, <1>2, <2>1 DEF TypeOK, Finish, NextRound, Running
  <2>3. Active(r) \subseteq Positions
    BY <1>0, <2>1, RunningRound
  <2>4. got' \in [Ranks \X Ranks \X Stages \X Positions -> Data]
    BY <1>0, <1>2, <1>s DEF TypeOK, Finish, NextRound
  <2>5. \A x \in Active(r) : Sum(r, x) \in Data
    <3> TAKE x \in Active(r)
    <3>1. \A p \in Peers(r) : got[<<r, p, 1, x>>] \subseteq Ranks \X Rounds
      BY <1>0, <2>3 DEF TypeOK, Peers, Data, Stages
    <3>2. <<r, finished[r]>> \in Ranks \X Rounds
      BY <1>0, <2>1, RunningRound
    <3> QED
      BY <3>1, <3>2 DEF Sum, Data
  <2>6. Output(r) \subseteq Data
    <3>1. \A p \in Peers(r), x \in Active(r) : got[<<r, p, 2, x>>] \in Data
      BY <1>0, <2>3 DEF TypeOK, Peers, Stages
    <3>2. {Sum(r, x) : x \in Active(r)} \subseteq Data
      BY <2>5
    <3>3. Gathered(r) \subseteq Data
      <4>1. \A p \in Peers(r) : {got[<<r, p, 2, x>>] : x \in Active(r)} \subseteq Data
        BY <3>1
      <4> QED
        BY <4>1 DEF Gathered
    <3>4. CASE stages = 1
      BY <3>2, <3>4 DEF Output
    <3>5. CASE stages # 1
      BY <3>2, <3>3, <3>5 DEF Output
    <3> QED
      BY <3>4, <3>5
  <2>7. result' \in [Ranks -> SUBSET Data]
    BY <1>0, <1>2, <2>6 DEF TypeOK, Finish, NextRound
  <2>8. round' \in [Ranks -> Buffers]
    <3>1. (round[r] + 1) % 3 \in Buffers
      <4>0. round[r] \in Buffers
        BY <1>0 DEF TypeOK
      <4>1. round[r] + 1 \in Nat
        BY <4>0 DEF Buffers
      <4> QED
        BY <4>1, Mod3
    <3>2. round' = [round EXCEPT ![r] = (round[r] + 1) % 3]
      BY <1>2 DEF Finish, NextRound
    <3>3. round \in [Ranks -> Buffers]
      BY <1>0 DEF TypeOK
    <3> QED
      BY <3>1, <3>2, <3>3
  <2> QED
    BY <1>0, <1>2, <2>2, <2>4, <2>7, <2>8 DEF TypeOK, Finish, NextRound
<1>3. ASSUME NEW r \in Ranks, NEW p \in Peers(r), NEW s \in Stages, Push(r, p, s) PROVE TypeOK'
  <2>1. finished[r] \in Rounds
    BY <1>0, <1>3, RunningRound DEF Push
  <2>2. \A x \in Active(r) : Value(r, s, x) \in Data
    BY <1>3, <2>1, ValueInStep, SentType DEF Push
  <2>3. inbox' \in [Ranks \X Ranks \X Stages \X Buffers \X Positions -> Data]
    BY <1>0, <1>3, <2>2 DEF TypeOK, Push
  <2>4. landed' \in [Ranks -> SUBSET (Ranks \X Stages)]
    <3>1. <<p, s>> \in Ranks \X Stages
      BY DEF Peers
    <3>2. landed[r] \cup {<<p, s>>} \in SUBSET (Ranks \X Stages)
      BY <1>0, <3>1 DEF TypeOK
    <3> QED
      BY <1>0, <1>3, <3>2 DEF TypeOK, Push
  <2> QED
    BY <1>0, <1>3, <2>3, <2>4 DEF TypeOK, Push
<1>4. ASSUME NEW r \in Ranks, NEW p \in Peers(r), NEW s \in Stages, NEW y \in Positions, Poll(r, p, s, y) PROVE TypeOK'
  <2>1. Active(r) \subseteq Positions
    BY <1>0, <1>4, RunningRound DEF Poll
  <2>2. \A x \in Active(r) : inbox[<<r, p, s, round[r], x>>] \in Data
    BY <1>0, <2>1 DEF TypeOK, Peers
  <2> QED
    BY <1>0, <1>4, <2>2 DEF TypeOK, Poll
<1>5. ASSUME NEW r \in Ranks, NEW p \in Peers(r), Rearm(r, p) PROVE TypeOK'
  BY <1>0, <1>5, <1>s DEF TypeOK, Rearm, OldSlot, Peers
<1>6. CASE UNCHANGED vars
  BY <1>0, <1>6 DEF TypeOK, vars
<1> QED
  BY <1>1, <1>2, <1>3, <1>4, <1>5, <1>6 DEF Next, Rank, Wave

-----------------------------------------------------------------------------
\* Only a group whose inboxes are armed runs.
LEMMA RunsArmed ==
  ASSUME NEW r \in Ranks, Finish(r) \/ \E p \in Peers(r) : Wave(r, p)
  PROVE  armed = Ranks /\ armed' = armed
<1>1. CASE Finish(r)
  BY <1>1 DEF Finish, NextRound, Running
<1>2. ASSUME NEW p \in Peers(r), NEW s \in Stages, Push(r, p, s) PROVE armed = Ranks /\ armed' = armed
  BY <1>2 DEF Push, Running
<1>3. ASSUME NEW p \in Peers(r), NEW s \in Stages, NEW y \in Positions, Poll(r, p, s, y) PROVE armed = Ranks /\ armed' = armed
  BY <1>3 DEF Poll, Running
<1>4. ASSUME NEW p \in Peers(r), Rearm(r, p) PROVE armed = Ranks /\ armed' = armed
  BY <1>4 DEF Rearm, OldSlot, Running
<1> QED
  BY <1>1, <1>2, <1>3, <1>4 DEF Wave

\* The kernel and the sizes are fixed, and only finishing changes a round.
LEMMA RoundSteps ==
  [Next]_vars => /\ stages' = stages /\ size' = size
                 /\ \/ finished' = finished
                    \/ \E r \in Ranks : Finish(r)
<1> SUFFICES ASSUME Next
             PROVE  /\ stages' = stages /\ size' = size
                    /\ finished' = finished \/ \E r \in Ranks : Finish(r)
  BY DEF vars
<1>1. ASSUME NEW r \in Ranks, Finish(r) PROVE stages' = stages /\ size' = size
  BY <1>1 DEF Finish, NextRound
<1>2. ASSUME NEW r \in Ranks, NEW p \in Peers(r), NEW s \in Stages, Push(r, p, s)
      PROVE  stages' = stages /\ size' = size /\ finished' = finished
  BY <1>2 DEF Push
<1>3. ASSUME NEW r \in Ranks, NEW p \in Peers(r), NEW s \in Stages, NEW y \in Positions, Poll(r, p, s, y)
      PROVE  stages' = stages /\ size' = size /\ finished' = finished
  BY <1>3 DEF Poll
<1>4. ASSUME NEW r \in Ranks, NEW p \in Peers(r), Rearm(r, p)
      PROVE  stages' = stages /\ size' = size /\ finished' = finished
  BY <1>4 DEF Rearm, OldSlot
<1>5. ASSUME NEW r \in Ranks, Arm(r)
      PROVE  stages' = stages /\ size' = size /\ finished' = finished
  BY <1>5 DEF Arm
<1> QED
  BY <1>1, <1>2, <1>3, <1>4, <1>5 DEF Next, Rank, Wave

\* Arming happens before anything else.
LEMMA ArmEffect ==
  ASSUME IInv, NEW r \in Ranks, Arm(r)
  PROVE  /\ \A q \in Ranks : finished'[q] = 0 /\ landed'[q] = {} /\ rearmed'[q] = {}
         /\ \A q \in armed', p \in Ranks, s \in Stages, b \in Buffers, x \in Positions :
              inbox'[<<q, p, s, b, x>>] = Sentinel
<1>1. armed # Ranks
  BY DEF Arm
<1>2. \A q \in Ranks : finished'[q] = 0 /\ landed'[q] = {} /\ rearmed'[q] = {}
  BY <1>1 DEF Arm, IInv, Setup
<1>3. ASSUME NEW q \in armed', NEW p \in Ranks, NEW s \in Stages, NEW b \in Buffers,
             NEW x \in Positions
      PROVE  inbox'[<<q, p, s, b, x>>] = Sentinel
  <2>1. q \in Ranks /\ (q = r \/ q \in armed)
    BY DEF Arm, IInv, TypeOK
  <2>2. inbox'[<<q, p, s, b, x>>] = IF q = r THEN Sentinel ELSE inbox[<<q, p, s, b, x>>]
    BY <2>1 DEF Arm, IInv, TypeOK
  <2> QED
    BY <1>1, <2>1, <2>2 DEF IInv, Setup
<1> QED
  BY <1>2, <1>3

\* Nothing happens before every inbox is armed.
LEMMA SetupStep == IInv /\ [Next]_vars => Setup'
<1> SUFFICES ASSUME IInv, [Next]_vars PROVE Setup'
  OBVIOUS
<1>1. ASSUME NEW r \in Ranks, Arm(r) PROVE Setup'
  BY <1>1, ArmEffect DEF Setup
<1>2. CASE armed = Ranks /\ armed' = armed
  BY <1>2 DEF Setup
<1>3. CASE UNCHANGED vars
  BY <1>3 DEF IInv, Setup, vars
<1> QED
  BY <1>1, <1>2, <1>3, RunsArmed DEF Next, Rank

\* The round counter follows the rounds finished.
LEMMA CountersStep == IInv /\ [Next]_vars => Counters'
<1> SUFFICES ASSUME IInv, [Next]_vars PROVE Counters'
  OBVIOUS
<1>0. TypeOK /\ Counters
  BY DEF IInv
<1>1. ASSUME NEW r \in Ranks, Finish(r) PROVE Counters'
  <2>1. round'[r] = finished'[r] % 3
    <3>1. finished[r] \in Nat /\ round[r] = finished[r] % 3
      BY <1>0 DEF TypeOK, Counters
    <3>2. round'[r] = (round[r] + 1) % 3 /\ finished'[r] = finished[r] + 1
      BY <1>0, <1>1 DEF TypeOK, Finish, NextRound
    <3> QED
      BY <3>1, <3>2, Mod3
  <2> QED
    BY <1>0, <1>1, <2>1 DEF Counters, Finish, NextRound, TypeOK
<1>2. ASSUME NEW r \in Ranks, NEW p \in Peers(r), NEW s \in Stages, Push(r, p, s) PROVE Counters'
  BY <1>0, <1>2 DEF Counters, Push, Running, TypeOK
<1>3. CASE UNCHANGED <<round, finished, landed, rearmed>>
  BY <1>0, <1>3 DEF Counters
<1>4. ASSUME NEW r \in Ranks, NEW p \in Peers(r), Rearm(r, p) PROVE Counters'
  BY <1>0, <1>4 DEF Counters, Rearm, OldSlot, Running, TypeOK
<1> QED
  BY <1>1, <1>2, <1>3, <1>4 DEF Next, Rank, Wave, Arm, Poll, vars

-----------------------------------------------------------------------------
\* Before the group runs, no data has landed anywhere.
LEMMA NothingLanded ==
  ASSUME IInv, armed # Ranks, NEW p \in Ranks, NEW r \in Ranks, NEW s \in Stages, NEW k \in Nat
  PROVE  ~HasLanded(p, r, s, k)
  BY DEF IInv, Setup, HasLanded

\* Finishing a round takes every peer's data of it.
LEMMA FinishTakesAll ==
  ASSUME IInv, NEW r \in Ranks, Finish(r)
  PROVE  \A p \in Peers(r), s \in 1..stages :
           /\ HasLanded(p, r, s, finished[r])
           /\ \A x \in Active(r) : got[<<r, p, s, x>>] = Sent(p, s, finished[r])
<1> TAKE p \in Peers(r), s \in 1..stages
<1>1. s \in Stages /\ (s = 1 \/ s = stages)
  BY DEF IInv, TypeOK, Stages
<1>2. Synced(r) /\ Polled(r, p, stages)
  BY DEF Finish, NextRound, IInv, RearmedAfterPolling
<1>3. \A x \in Active(r) : got[<<r, p, s, x>>] # Sentinel
  BY <1>1, <1>2 DEF Synced, Polled
<1>4. 1 \in Active(r) /\ Active(r) \subseteq Positions
  BY RunningRound DEF IInv, Finish, NextRound
<1> QED
  BY <1>1, <1>3, <1>4 DEF IInv, PolledInStep

\* A step leaves what has landed where it was: a round that ends has sent all.
LEMMA LandedStep ==
  ASSUME IInv, [Next]_vars, NEW p \in Ranks, NEW r \in Peers(p), NEW s \in 1..stages, NEW k \in Nat,
         HasLanded(p, r, s, k)
  PROVE  HasLanded(p, r, s, k)'
<1>0. TypeOK /\ r \in Ranks
  BY DEF IInv, Peers
<1>1. ASSUME NEW q \in Ranks, Finish(q) PROVE HasLanded(p, r, s, k)'
  BY <1>0, <1>1 DEF Finish, NextRound, HasLanded, TypeOK
<1>2. ASSUME NEW q \in Ranks, NEW o \in Peers(q), NEW t \in Stages, Push(q, o, t)
      PROVE  HasLanded(p, r, s, k)'
  BY <1>0, <1>2 DEF Push, HasLanded, TypeOK
<1>3. CASE UNCHANGED <<finished, landed>>
  BY <1>3 DEF HasLanded
<1> QED
  <2>1. ASSUME NEW q \in Ranks, NEW o \in Peers(q),
               Rearm(q, o) \/ \E t \in Stages, y \in Positions : Poll(q, o, t, y)
        PROVE  UNCHANGED <<finished, landed>>
    BY <2>1 DEF Arm, Rearm, Poll
  <2>2. ASSUME NEW q \in Ranks, Arm(q) PROVE UNCHANGED <<finished, landed>>
    BY <2>2 DEF Arm
  <2> QED
    BY <1>1, <1>2, <1>3, <2>1, <2>2 DEF Next, Rank, Wave, vars

\* A rank finishes a round only with its peers' data.
LEMMA RanksStep == IInv /\ [Next]_vars => RanksInStep'
<1> SUFFICES ASSUME IInv, [Next]_vars,
                    NEW r \in Ranks, NEW p \in Peers(r), NEW s \in 1..stages', NEW k \in Rounds,
                    k < finished'[r]
             PROVE  HasLanded(p, r, s, k)'
  BY DEF RanksInStep
<1>0. TypeOK /\ stages' = stages /\ p \in Ranks /\ r \in Peers(p) /\ k \in Nat
  BY LamportAssumption, RoundSteps DEF IInv, Peers, Rounds
<1>1. CASE k < finished[r]
  BY <1>0, <1>1, LandedStep DEF IInv, RanksInStep
<1>2. CASE ~(k < finished[r])
  <2>1. Finish(r) /\ k = finished[r]
    <3>1. PICK q \in Ranks : Finish(q)
      BY <1>2, RoundSteps
    <3>2. /\ finished \in [Ranks -> Nat]
          /\ finished' = [finished EXCEPT ![q] = finished[q] + 1]
      BY <1>0, <3>1, LamportAssumption DEF Finish, NextRound, TypeOK
    <3>3. q = r
      BY <1>2, <3>2
    <3> QED
      BY <1>0, <1>2, <3>1, <3>2, <3>3
  <2> QED
    BY <1>0, <2>1, FinishTakesAll, LandedStep
<1> QED
  BY <1>1, <1>2

\* A round that polling is in is not the peers' to change.
LEMMA PolledStep == IInv /\ [Next]_vars => PolledInStep'
<1> SUFFICES ASSUME IInv, [Next]_vars,
                    NEW r \in Ranks, NEW p \in Peers(r), NEW s \in Stages, NEW x \in Positions,
                    got'[<<r, p, s, x>>] # Sentinel
             PROVE  /\ s <= stages' /\ HasLanded(p, r, s, finished[r])'
                    /\ got'[<<r, p, s, x>>] = Sent(p, s, finished'[r])
  BY DEF PolledInStep
<1>0. TypeOK /\ stages' = stages /\ p \in Ranks /\ r \in Peers(p) /\ finished[r] \in Nat
  <2>1. TypeOK /\ stages' = stages /\ p \in Ranks /\ r \in Peers(p)
    BY RoundSteps DEF IInv, Peers
  <2> QED
    BY <2>1, CountTypes
<1>1. CASE got'[<<r, p, s, x>>] = got[<<r, p, s, x>>] /\ finished'[r] = finished[r]
  <2>1. s <= stages /\ HasLanded(p, r, s, finished[r]) /\ got[<<r, p, s, x>>] = Sent(p, s, finished[r])
    BY <1>1 DEF IInv, PolledInStep
  <2>2. HasLanded(p, r, s, finished[r])'
    <3>1. s \in 1..stages
      BY <1>0, <2>1 DEF TypeOK, Stages
    <3>2. HasLanded(p, r, s, finished[r])' <=> (\E k \in Nat : k = finished[r] /\ HasLanded(p, r, s, k)')
      BY <1>0, <1>1 DEF HasLanded
    <3> QED
      BY <1>0, <2>1, <3>1, <3>2, LandedStep
  <2> QED
    BY <1>0, <1>1, <2>1, <2>2
<1>2. ASSUME NEW q \in Ranks, Finish(q) PROVE got'[<<r, p, s, x>>] = got[<<r, p, s, x>>] /\ finished'[r] = finished[r]
  <2>1. got'[<<r, p, s, x>>] = IF r = q THEN Sentinel ELSE got[<<r, p, s, x>>]
    BY <1>0, <1>2 DEF Finish, NextRound, TypeOK
  <2> QED
    BY <1>0, <1>2, <2>1 DEF Finish, NextRound, TypeOK
<1>3. ASSUME NEW q \in Ranks, NEW o \in Peers(q), NEW t \in Stages, NEW y \in Positions, Poll(q, o, t, y),
             got'[<<r, p, s, x>>] # got[<<r, p, s, x>>]
      PROVE  /\ s <= stages' /\ HasLanded(p, r, s, finished[r])'
             /\ got'[<<r, p, s, x>>] = Sent(p, s, finished'[r])
  <2>1. /\ r = q /\ p = o /\ s = t /\ x \in Active(r)
        /\ got'[<<r, p, s, x>>] = inbox[<<r, p, s, round[r], x>>]
    BY <1>0, <1>3 DEF Poll, TypeOK
  <2>2. /\ armed = Ranks /\ s \in 1..stages /\ finished' = finished /\ landed' = landed
        /\ inbox[<<r, p, s, round[r], x>>] # Sentinel
    BY <1>0, <1>3, <2>1 DEF Poll, Running, Stages, TypeOK
  <2>3. Slot(r, p, s, finished[r], x) /\ round[r] = finished[r] % 3
    BY <2>2 DEF IInv, SlotsInStep, Counters
  <2> QED
    BY <1>0, <2>1, <2>2, <2>3 DEF Slot, HasLanded
<1>4. CASE UNCHANGED <<got, finished>>
  BY <1>1, <1>4
<1>5. ASSUME NEW q \in Ranks, NEW o \in Peers(q), NEW t \in Stages, NEW y \in Positions, Poll(q, o, t, y) PROVE finished' = finished
  BY <1>5 DEF Poll
<1> QED
  BY <1>1, <1>2, <1>3, <1>4, <1>5 DEF Next, Rank, Wave, Arm, Push, Rearm, OldSlot, vars

\* What a wave has polled stays polled until its round ends.
LEMMA PollingStays ==
  ASSUME IInv, [Next]_vars, NEW r \in Ranks, Running(r), finished'[r] = finished[r],
         NEW p \in Peers(r), NEW s \in Stages, Polled(r, p, s)
  PROVE  Polled(r, p, s)'
<1>0. TypeOK /\ p \in Ranks /\ finished[r] \in Nat
  BY LamportAssumption DEF IInv, Peers, TypeOK
<1>1. Active(r)' = Active(r) /\ Active(r) \subseteq Positions
  BY <1>0, RoundSteps, RunningRound DEF Active
<1>2. SUFFICES ASSUME NEW x \in Active(r) PROVE got'[<<r, p, s, x>>] # Sentinel
  BY <1>1 DEF Polled
<1>3. got[<<r, p, s, x>>] # Sentinel
  BY DEF Polled
<1>4. ASSUME NEW q \in Ranks, Finish(q) PROVE got'[<<r, p, s, x>>] # Sentinel
  <2>1. r # q
    BY <1>0, <1>4 DEF Finish, NextRound, TypeOK
  <2> QED
    BY <1>0, <1>1, <1>3, <1>4, <2>1 DEF Finish, NextRound, TypeOK
<1>5. ASSUME NEW q \in Ranks, NEW o \in Peers(q), NEW t \in Stages, NEW y \in Positions, Poll(q, o, t, y)
      PROVE  got'[<<r, p, s, x>>] # Sentinel
  BY <1>0, <1>1, <1>3, <1>5 DEF Poll, TypeOK
<1>6. CASE got' = got
  BY <1>3, <1>6
<1> QED
  BY <1>4, <1>5, <1>6 DEF Next, Rank, Wave, Arm, Push, Rearm, OldSlot, vars

\* Polling is over before a wave re-arms.
LEMMA RearmedStep == IInv /\ [Next]_vars => RearmedAfterPolling'
<1> DEFINE Over(r, p) == p \in Peers(r) /\ Synced(r) /\ Polled(r, p, stages)
<1> SUFFICES ASSUME IInv, [Next]_vars, NEW r \in Ranks, NEW p \in rearmed'[r]
             PROVE  Over(r, p)'
  BY DEF RearmedAfterPolling
<1>0. TypeOK /\ stages' = stages /\ stages \in Stages /\ 1 \in Stages
  BY RoundSteps DEF IInv, TypeOK, Stages
<1>1. ASSUME Over(r, p), Running(r), finished'[r] = finished[r]
      PROVE  Over(r, p)'
  <2>1. Synced(r)'
    BY <1>0, <1>1, PollingStays DEF Synced
  <2>2. Polled(r, p, stages)'
    BY <1>0, <1>1, PollingStays
  <2> QED
    BY <1>1, <2>1, <2>2
<1>2. ASSUME p \in rearmed[r], finished'[r] = finished[r]
      PROVE  Over(r, p)'
  BY <1>1, <1>2 DEF IInv, RearmedAfterPolling, Counters, Setup, Running
<1>3. ASSUME NEW q \in Ranks, Finish(q) PROVE p \in rearmed[r] /\ finished'[r] = finished[r]
  BY <1>0, <1>3 DEF Finish, NextRound, TypeOK
<1>4. ASSUME NEW q \in Ranks, NEW o \in Peers(q), Rearm(q, o)
      PROVE  Over(r, p)'
  <2>1. finished'[r] = finished[r] /\ (p \in rearmed[r] \/ (q = r /\ o = p))
    BY <1>0, <1>4 DEF Rearm, OldSlot, TypeOK
  <2> QED
    BY <1>1, <1>2, <1>4, <2>1 DEF Rearm, OldSlot
<1>5. CASE UNCHANGED <<rearmed, finished>>
  BY <1>2, <1>5
<1> QED
  <2>1. ASSUME NEW q \in Ranks, NEW o \in Peers(q),
               \E t \in Stages : Push(q, o, t) \/ \E y \in Positions : Poll(q, o, t, y)
        PROVE  UNCHANGED <<rearmed, finished>>
    BY <2>1 DEF Push, Poll
  <2>2. ASSUME NEW q \in Ranks, Arm(q) PROVE UNCHANGED <<rearmed, finished>>
    BY <2>2 DEF Arm
  <2> QED
    BY <1>2, <1>3, <1>4, <1>5, <2>1, <2>2 DEF Next, Rank, Wave, vars

-----------------------------------------------------------------------------
\* Two ranks are at most one round apart.
LEMMA AtMostOneApart ==
  ASSUME IInv, NEW r \in Ranks, NEW p \in Peers(r)
  PROVE  finished[p] <= finished[r] + 1
<1>1. /\ finished[p] \in 0..MaxRounds /\ finished[r] \in Nat /\ MaxRounds \in Nat
      /\ 1 \in 1..stages /\ p \in Ranks /\ r \in Peers(p)
  <2>1. p \in Ranks /\ r \in Peers(p)
    BY DEF Peers
  <2> QED
    BY <2>1, CountTypes DEF IInv
<1>2. SUFFICES ASSUME finished[p] > finished[r] + 1 PROVE FALSE
  BY <1>1
<1>3. finished[r] + 1 \in Rounds /\ finished[r] + 1 < finished[p]
  BY <1>1, <1>2 DEF Rounds
<1>4. HasLanded(r, p, 1, finished[r] + 1)
  BY <1>1, <1>3 DEF IInv, RanksInStep
<1> QED
  BY <1>1, <1>4 DEF HasLanded

\* The round of a store that has not landed is one its receiver has not finished.
LEMMA StoreInStep ==
  ASSUME IInv, NEW r \in Ranks, NEW p \in Peers(r), NEW s \in 1..stages, Running(r),
         <<p, s>> \notin landed[r]
  PROVE  finished[r] = finished[p] \/ finished[r] = finished[p] + 1
<1>1. /\ finished[p] \in Nat /\ finished[r] \in Rounds /\ finished[r] \in Nat
      /\ p \in Ranks /\ r \in Peers(p)
  <2>1. p \in Ranks /\ r \in Peers(p)
    BY DEF Peers
  <2> QED
    BY <2>1, CountTypes, RunningRound DEF IInv
<1>2. finished[r] <= finished[p] + 1
  BY <1>1, AtMostOneApart
<1>3. ~(finished[r] < finished[p])
  <2> SUFFICES ASSUME finished[r] < finished[p] PROVE FALSE
    OBVIOUS
  <2>1. HasLanded(r, p, s, finished[r])
    BY <1>1 DEF IInv, RanksInStep
  <2> QED
    BY <1>1, <2>1 DEF HasLanded
<1> QED
  BY <1>1, <1>2, <1>3

InStep(r, p, s, x) ==
  /\ Slot(r, p, s, finished[r], x)
  /\ Slot(r, p, s, finished[r] + 1, x)
  /\ p \in rearmed[r] => inbox[<<r, p, s, (finished[r] + 2) % 3, x>>] = Sentinel

\* A store leaves every slot as SlotsInStep has it.
LEMMA PushSlots ==
  ASSUME IInv, NEW q \in Ranks, NEW o \in Peers(q), NEW t \in Stages, Push(q, o, t),
         NEW r \in Ranks, NEW p \in Peers(r), NEW s \in 1..stages, NEW x \in Positions
  PROVE  InStep(r, p, s, x)'
<1> DEFINE k == finished[r]
<1>1. TypeOK /\ k \in Nat /\ p \in Ranks /\ s \in Stages /\ t \in 1..stages /\ o \in Ranks
  <2>1. TypeOK /\ p \in Ranks /\ o \in Ranks
    BY DEF IInv, Peers
  <2> QED
    BY <2>1, CountTypes DEF Push
<1>2. InStep(r, p, s, x)
  BY DEF InStep, IInv, SlotsInStep, Push, Running
<1>3. /\ finished' = finished /\ size' = size /\ rearmed' = rearmed
      /\ landed'[p] = IF p = q THEN landed[q] \cup {<<o, t>>} ELSE landed[p]
  BY <1>1 DEF Push, TypeOK
<1>4. \A b \in Buffers : inbox'[<<r, p, s, b, x>>] =
        IF r = o /\ p = q /\ s = t /\ b = finished[q] % 3 /\ x \in Active(q)
        THEN Sent(q, t, finished[q]) ELSE inbox[<<r, p, s, b, x>>]
  BY <1>1, PushEffect
<1>5. k % 3 \in Buffers /\ (k + 1) % 3 \in Buffers /\ (k + 2) % 3 \in Buffers
  BY <1>1, Mod3
<1>6. CASE r = o /\ p = q /\ s = t
  <2>1. finished[p] = k \/ finished[p] = k + 1
    BY <1>1, <1>6, StoreInStep DEF Push
  <2>2. <<r, s>> \notin landed[p] /\ <<r, s>> \in landed'[p]
    BY <1>3, <1>6 DEF Push
  <2>3. k % 3 # (k + 1) % 3 /\ k % 3 # (k + 2) % 3 /\ (k + 1) % 3 # (k + 2) % 3
    BY <1>1, Mod3
  <2>4. Active(q) = 1..size[finished[p]]
    BY <1>6 DEF Active
  <2>5. CASE finished[p] = k
    BY <1>1, <1>2, <1>3, <1>4, <1>5, <1>6, <2>2, <2>3, <2>4, <2>5 DEF InStep, Slot, HasLanded
  <2>6. CASE finished[p] = k + 1
    BY <1>1, <1>2, <1>3, <1>4, <1>5, <1>6, <2>2, <2>3, <2>4, <2>6 DEF InStep, Slot, HasLanded
  <2> QED
    BY <2>1, <2>5, <2>6
<1>7. CASE ~(r = o /\ p = q /\ s = t)
  BY <1>1, <1>2, <1>3, <1>4, <1>5, <1>7 DEF InStep, Slot, HasLanded
<1> QED
  BY <1>6, <1>7

\* So does the end of a round: the buffer re-armed in it serves the one after next.
LEMMA FinishSlots ==
  ASSUME IInv, NEW q \in Ranks, Finish(q),
         NEW r \in Ranks, NEW p \in Peers(r), NEW s \in 1..stages, NEW x \in Positions
  PROVE  InStep(r, p, s, x)'
<1> DEFINE k == finished[r]
<1>1. TypeOK /\ k \in Nat /\ p \in Ranks /\ s \in Stages /\ finished[p] \in Nat
  <2>1. TypeOK /\ p \in Ranks
    BY DEF IInv, Peers
  <2> QED
    BY <2>1, CountTypes
<1>2. InStep(r, p, s, x)
  BY DEF InStep, IInv, SlotsInStep, Finish, NextRound, Running
<1>3. /\ size' = size /\ inbox' = inbox
      /\ \A o \in Ranks : /\ finished'[o] = IF o = q THEN finished[o] + 1 ELSE finished[o]
                          /\ landed'[o] = IF o = q THEN {} ELSE landed[o]
                          /\ rearmed'[o] = IF o = q THEN {} ELSE rearmed[o]
  BY <1>1 DEF Finish, NextRound, TypeOK
<1>4. CASE r = q
  <2>1. p # q /\ p \in rearmed[r]
    BY <1>4 DEF Peers, Finish, NextRound
  <2>2. inbox[<<r, p, s, (k + 2) % 3, x>>] = Sentinel
    BY <1>2, <2>1 DEF InStep
  <2>3. finished[p] <= k + 1
    BY AtMostOneApart
  <2>4. PICK j \in Nat : j = k
    BY <1>1
  <2>5. finished'[r] = j + 1 /\ (j + 1) + 1 = j + 2
    BY <1>3, <1>4, <2>4
  <2>6. ~HasLanded(p, r, s, j + 2)'
    BY <1>1, <1>3, <2>1, <2>3, <2>4 DEF HasLanded
  <2>7. Slot(r, p, s, j + 1, x)'
    BY <1>1, <1>2, <1>3, <2>1, <2>4 DEF InStep, Slot, HasLanded
  <2>8. Slot(r, p, s, j + 2, x)'
    BY <1>3, <2>2, <2>4, <2>6 DEF Slot
  <2> QED
    <3>1. Slot(r, p, s, finished[r], x)'
      BY <2>5, <2>7 DEF Slot
    <3>2. finished'[r] + 1 = j + 2
      BY <2>5
    <3>3. Slot(r, p, s, finished[r] + 1, x)'
      BY <2>8, <3>2 DEF Slot
    <3>4. p \notin rearmed'[r]
      BY <1>1, <1>3, <1>4
    <3> QED
      BY <3>1, <3>3, <3>4 DEF InStep
<1>5. CASE r # q /\ p = q
  <2>1. <<r, s>> \in landed[p]
    BY <1>5 DEF Finish, NextRound, Peers
  <2>2. \A j \in Nat : HasLanded(p, r, s, j)' <=> HasLanded(p, r, s, j)
    BY <1>1, <1>3, <1>5, <2>1 DEF HasLanded
  <2> QED
    BY <1>1, <1>2, <1>3, <1>5, <2>2 DEF InStep, Slot
<1>6. CASE r # q /\ p # q
  BY <1>1, <1>2, <1>3, <1>6 DEF InStep, Slot, HasLanded
<1> QED
  BY <1>4, <1>5, <1>6

\* Every slot holds what SlotsInStep says.
LEMMA SlotsStep == IInv /\ [Next]_vars => SlotsInStep'
<1> SUFFICES ASSUME IInv, [Next]_vars, armed' = Ranks,
                    NEW r \in Ranks, NEW p \in Peers(r), NEW s \in 1..stages, NEW x \in Positions
             PROVE  InStep(r, p, s, x)'
  BY RoundSteps DEF SlotsInStep, InStep
<1>0. TypeOK /\ finished[r] \in Nat /\ p \in Ranks /\ s \in Stages
  <2>1. TypeOK /\ p \in Ranks
    BY DEF IInv, Peers
  <2> QED
    BY <2>1, CountTypes
<1>1. ASSUME NEW q \in Ranks, Arm(q) PROVE InStep(r, p, s, x)'
  <2>1. /\ finished'[r] = 0 /\ finished'[p] = 0 /\ landed'[p] = {}
        /\ \A b \in Buffers : inbox'[<<r, p, s, b, x>>] = Sentinel
    BY <1>0, <1>1, ArmEffect
  <2>2. \A k \in Nat : ~HasLanded(p, r, s, k)' /\ k % 3 \in Buffers
    BY <2>1, Mod3 DEF HasLanded
  <2> QED
    BY <2>1, <2>2 DEF InStep, Slot
<1>2. ASSUME NEW q \in Ranks, NEW o \in Peers(q), Rearm(q, o) PROVE InStep(r, p, s, x)'
  <2> DEFINE k == finished[r]
  <2>1. InStep(r, p, s, x)
    BY <1>2 DEF InStep, IInv, SlotsInStep, Rearm, OldSlot, Running
  <2>2. /\ finished' = finished /\ size' = size /\ landed' = landed
        /\ p \in rearmed'[r] => p \in rearmed[r] \/ (r = q /\ p = o)
    BY <1>0, <1>2 DEF Rearm, OldSlot, TypeOK
  <2>3. \A b \in Buffers : inbox'[<<r, p, s, b, x>>] =
          IF r = q /\ p = o /\ b = (finished[q] + 2) % 3 THEN Sentinel ELSE inbox[<<r, p, s, b, x>>]
    BY <1>0, <1>2, RearmEffect
  <2>4. /\ k % 3 \in Buffers /\ (k + 1) % 3 \in Buffers /\ (k + 2) % 3 \in Buffers
        /\ k % 3 # (k + 2) % 3 /\ (k + 1) % 3 # (k + 2) % 3
    BY <1>0, Mod3
  <2> QED
    BY <2>1, <2>2, <2>3, <2>4 DEF InStep, Slot, HasLanded
<1>3. CASE UNCHANGED <<inbox, finished, landed, rearmed, armed, size>>
  <2>1. InStep(r, p, s, x)
    BY <1>3 DEF InStep, IInv, SlotsInStep
  <2> QED
    BY <1>3, <2>1 DEF InStep, Slot, HasLanded
<1> QED
  BY <1>1, <1>2, <1>3, PushSlots, FinishSlots DEF Next, Rank, Wave, Poll, vars

-----------------------------------------------------------------------------
\* It holds when no inbox is armed yet.
LEMMA InitIInv == Init => IInv
<1> SUFFICES ASSUME Init PROVE IInv
  OBVIOUS
<1> USE DEF Init
<1>1. TypeOK
  <2>1. Sentinel \in Data /\ Garbage \in Data
    BY DEF Sentinel, Garbage, Data
  <2>2. inbox \in [Ranks \X Ranks \X Stages \X Buffers \X Positions -> Data]
    BY <2>1
  <2>3. got \in [Ranks \X Ranks \X Stages \X Positions -> Data]
    BY <2>1
  <2>4. finished \in [Ranks -> 0..MaxRounds] /\ round \in [Ranks -> Buffers]
    BY LamportAssumption DEF Buffers
  <2> QED
    BY <2>2, <2>3, <2>4 DEF TypeOK
<1>2. \A r \in Ranks : /\ finished[r] = 0 /\ round[r] = 0 /\ landed[r] = {} /\ rearmed[r] = {}
                       /\ r \notin armed
  OBVIOUS
<1>3. Setup
  BY <1>2 DEF Setup
<1>4. Counters
  <2>1. 0 % 3 = 0
    OBVIOUS
  <2> QED
    BY <1>2, <2>1 DEF Counters
<1>5. SlotsInStep
  BY <1>2 DEF SlotsInStep
<1>6. RanksInStep
  BY <1>2, LamportAssumption DEF RanksInStep, Rounds
<1>7. PolledInStep
  <2>1. \A r \in Ranks : \A p \in Peers(r), s \in Stages, x \in Positions :
          got[<<r, p, s, x>>] = Sentinel
    BY DEF Peers
  <2> QED
    BY <2>1 DEF PolledInStep
<1>8. RearmedAfterPolling
  BY <1>2 DEF RearmedAfterPolling
<1> QED
  BY <1>1, <1>3, <1>4, <1>5, <1>6, <1>7, <1>8 DEF IInv

\* The inductive invariant of the kernels.
THEOREM Invariance == Spec => []IInv
<1>1. IInv /\ [Next]_vars => IInv'
  BY TypeStep, SetupStep, CountersStep, SlotsStep, RanksStep, PolledStep, RearmedStep DEF IInv
<1> QED
  BY InitIInv, <1>1, PTL DEF Spec

\* The inboxes, the counters and what was polled keep their types.
THEOREM TypeCorrectness == Spec => []TypeOK
<1>1. IInv => TypeOK
  BY DEF IInv
<1> QED
  BY Invariance, <1>1, PTL

\* Nothing destroys data that its receiver has still to read.
THEOREM DataKept == Spec => []ArrivedDataKept
<1>1. ASSUME IInv PROVE ArrivedDataKept
  <2> SUFFICES ASSUME NEW r \in Ranks, NEW p \in Peers(r), NEW s \in 1..stages, NEW k \in Rounds,
                      k >= finished[r], HasLanded(p, r, s, k), NEW x \in 1..size[k]
               PROVE  inbox[<<r, p, s, k % 3, x>>] = Sent(p, s, k)
    BY DEF ArrivedDataKept
  <2>1. /\ TypeOK /\ p \in Ranks /\ s \in Stages /\ k \in Nat
        /\ finished[r] \in Nat /\ finished[p] \in Nat
    <3>1. TypeOK /\ p \in Ranks
      BY <1>1 DEF IInv, Peers
    <3> QED
      BY <3>1, CountTypes DEF Rounds
  <2>2. x \in Positions
    <3>1. size[k] \in 1..Lanes
      BY <2>1, LamportAssumption DEF TypeOK, Rounds
    <3> QED
      BY <3>1, LamportAssumption DEF Positions
  <2>3. k = finished[r] \/ k = finished[r] + 1
    <3>1. finished[p] <= finished[r] + 1
      BY <1>1, AtMostOneApart
    <3> QED
      BY <2>1, <3>1 DEF HasLanded
  <2>4. armed = Ranks
    BY <1>1, <2>1, NothingLanded
  <2>5. Slot(r, p, s, finished[r], x) /\ Slot(r, p, s, finished[r] + 1, x)
    BY <1>1, <2>2, <2>4 DEF IInv, SlotsInStep
  <2>6. Slot(r, p, s, k, x)
    BY <2>3, <2>5
  <2> QED
    BY <2>6 DEF Slot
<1> QED
  BY Invariance, <1>1, PTL

\* No store lands on data that has not been re-armed.
THEOREM TakingTurns == Spec => SlotsTakeTurns
<1> DEFINE Turn(k) == inbox'[k] # inbox[k] => inbox[k] = Sentinel \/ inbox'[k] = Sentinel
           Turns == armed = Ranks => \A k \in DOMAIN inbox : Turn(k)
<1>1. ASSUME IInv, [Next]_vars PROVE Turns
  <2> SUFFICES ASSUME armed = Ranks, NEW k \in DOMAIN inbox PROVE Turn(k)
    OBVIOUS
  <2>0. TypeOK
    BY <1>1 DEF IInv
  <2>1. PICK r \in Ranks, p \in Ranks, s \in Stages, b \in Buffers, x \in Positions :
          k = <<r, p, s, b, x>>
    BY <2>0 DEF TypeOK
  <2>2. ASSUME NEW q \in Ranks, NEW o \in Peers(q), NEW t \in Stages, Push(q, o, t) PROVE Turn(k)
    <3>1. inbox'[k] = IF r = o /\ p = q /\ s = t /\ b = finished[q] % 3 /\ x \in Active(q)
                      THEN Sent(q, t, finished[q]) ELSE inbox[k]
      BY <1>1, <2>1, <2>2, PushEffect DEF Peers
    <3>2. ASSUME r = o, p = q, s = t, b = finished[q] % 3, x \in Active(q)
          PROVE  inbox[k] = Sentinel
      <4>1. /\ p \in Peers(r) /\ r \in Peers(p) /\ s \in 1..stages /\ Running(p)
            /\ <<r, s>> \notin landed[p]
        BY <2>0, <2>2, <3>2, CountTypes DEF Peers, Push
      <4>2. finished[p] = finished[r] \/ finished[p] = finished[r] + 1
        BY <1>1, <4>1, StoreInStep
      <4>3. Slot(r, p, s, finished[p], x)
        <5>1. Slot(r, p, s, finished[r], x) /\ Slot(r, p, s, finished[r] + 1, x)
          BY <1>1, <4>1 DEF IInv, SlotsInStep
        <5> QED
          BY <4>2, <5>1
      <4> QED
        BY <2>0, <2>1, <3>2, <4>1, <4>3, CountTypes DEF Slot, HasLanded
    <3> QED
      BY <3>1, <3>2
  <2>3. ASSUME NEW q \in Ranks, NEW o \in Peers(q), Rearm(q, o) PROVE Turn(k)
    BY <1>1, <2>1, <2>3, RearmEffect
  <2>4. ASSUME NEW q \in Ranks, Arm(q) PROVE FALSE
    BY <2>4 DEF Arm
  <2>5. CASE inbox' = inbox
    BY <2>5
  <2> QED
    BY <1>1, <2>2, <2>3, <2>4, <2>5 DEF Next, Rank, Wave, Poll, Finish, NextRound, vars
<1>2. IInv /\ [Next]_vars => [Turns]_vars
  BY <1>1
<1> QED
  BY Invariance, <1>2, PTL DEF Spec, SlotsTakeTurns

-----------------------------------------------------------------------------
\* A kernel that ends has summed one input of every rank, all of its round.
LEMMA OutputIsOneSum ==
  ASSUME IInv, NEW r \in Ranks, Finish(r)
  PROVE  Output(r) = {Sent(r, 2, finished[r])}
<1>1. /\ TypeOK /\ Running(r) /\ 1 \in Active(r) /\ Active(r) \subseteq Positions
      /\ Synced(r) /\ finished[r] \in Rounds
  <2>1. Running(r) /\ TypeOK
    BY DEF Finish, NextRound, IInv
  <2>2. PICK p \in Peers(r) : TRUE
    BY LamportAssumption DEF Peers
  <2>3. Synced(r)
    BY <2>2 DEF Finish, NextRound, IInv, RearmedAfterPolling
  <2> QED
    BY <2>1, <2>3, RunningRound
<1>2. \A x \in Active(r) : Sum(r, x) = Sent(r, 2, finished[r])
  BY <1>1, SumInStep
<1>3. {Sum(r, x) : x \in Active(r)} = {Sent(r, 2, finished[r])}
  BY <1>1, <1>2
<1>4. CASE stages = 1
  BY <1>3, <1>4 DEF Output
<1>5. CASE stages # 1
  <2>1. 2 \in 1..stages
    BY <1>1, <1>5 DEF TypeOK, Stages
  <2>2. \A p \in Peers(r), x \in Active(r) : got[<<r, p, 2, x>>] = Sent(p, 2, finished[r])
    BY <2>1, FinishTakesAll
  <2>3. \A p \in Ranks : Sent(p, 2, finished[r]) = Sent(r, 2, finished[r])
    BY DEF Sent
  <2>4. \A p \in Peers(r) :
          {got[<<r, p, 2, x>>] : x \in Active(r)} \subseteq {Sent(r, 2, finished[r])}
    BY <2>2, <2>3 DEF Peers
  <2>5. Gathered(r) \subseteq {Sent(r, 2, finished[r])}
    BY <2>4 DEF Gathered
  <2> QED
    BY <1>3, <1>5, <2>5 DEF Output
<1> QED
  BY <1>4, <1>5

\* Any number of ranks, any message sizes, any number of rounds, one-shot or
\* two-shot: the kernels implement all-reduces.
THEOREM Refinement == Spec => ImplementsAllReduce
<1>1. Init => AR!Init
  BY DEF Init, AR!Init, Given
<1>2. ASSUME IInv, [Next]_vars PROVE [AR!Next]_<<Given, finished, result>>
  <2>0. TypeOK /\ \A r \in Ranks : finished[r] \in Nat
    BY <1>2, CountTypes DEF IInv
  <2>1. ASSUME NEW r \in Ranks, Finish(r) PROVE AR!Get(r)
    <3>1. PICK p \in Peers(r) : TRUE
      BY LamportAssumption DEF Peers
    <3>2. landed[r] # {}
      <4>1. <<p, 1>> \in landed[r]
        BY <2>0, <2>1, CountTypes DEF Finish, NextRound
      <4> QED
        BY <4>1
    <3>3. \A q \in Ranks : Given[q] > finished[r]
      <4>1. ASSUME NEW q \in Peers(r) PROVE Given[q] > finished[r]
        <5>1. HasLanded(q, r, 1, finished[r])
          BY <1>2, <2>0, <2>1, FinishTakesAll, CountTypes
        <5> QED
          BY <2>0, <5>1 DEF HasLanded, Given, Peers
      <4>2. Given[r] > finished[r]
        BY <2>0, <3>2 DEF Given
      <4> QED
        BY <4>1, <4>2 DEF Peers
    <3>4. finished' = [finished EXCEPT ![r] = @ + 1] /\ landed' = [landed EXCEPT ![r] = {}]
      BY <2>1 DEF Finish, NextRound
    <3>5. Given' = Given
      <4>1. \A q \in Ranks : Given'[q] = Given[q]
        BY <2>0, <3>2, <3>4 DEF Given, TypeOK
      <4> QED
        BY <4>1 DEF Given
    <3>6. result' = [result EXCEPT ![r] = {AR!SumOf(finished[r])}]
      <4>1. Output(r) = {AR!SumOf(finished[r])}
        BY <1>2, <2>1, OutputIsOneSum DEF AR!SumOf, Sent
      <4> QED
        BY <2>1, <4>1 DEF Finish, NextRound
    <3> QED
      BY <3>3, <3>4, <3>5, <3>6 DEF AR!Get
  <2>2. ASSUME NEW r \in Ranks, NEW p \in Peers(r), NEW s \in Stages, Push(r, p, s)
        PROVE  AR!Give(r) \/ UNCHANGED <<Given, finished, result>>
    <3>1. /\ finished' = finished /\ result' = result
          /\ landed' = [landed EXCEPT ![r] = @ \cup {<<p, s>>}]
          /\ finished[r] < MaxRounds
      BY <2>2 DEF Push, Running
    <3>2. CASE landed[r] = {}
      <4>0. \A q \in Ranks : Given'[q] = IF q = r THEN Given[q] + 1 ELSE Given[q]
        <5>1. \A q \in Ranks : landed'[q] # {} <=> q = r \/ landed[q] # {}
          BY <2>0, <3>1 DEF TypeOK
        <5> QED
          BY <2>0, <3>1, <3>2, <5>1 DEF Given
      <4>1. Given[r] = finished[r]
        BY <2>0, <3>2 DEF Given
      <4>2. Given' = [Given EXCEPT ![r] = Given[r] + 1]
        <5>1. /\ Given = [q \in Ranks |-> Given[q]] /\ DOMAIN Given = Ranks
              /\ Given' = [q \in Ranks |-> Given'[q]]
          BY DEF Given
        <5> QED
          BY <4>0, <5>1
      <4> QED
        BY <3>1, <4>1, <4>2 DEF AR!Give
    <3>3. CASE landed[r] # {}
      <4>1. Given' = Given
        BY <2>0, <3>1, <3>3 DEF Given, TypeOK
      <4> QED
        BY <3>1, <4>1
    <3> QED
      BY <3>2, <3>3
  <2>3. CASE UNCHANGED <<finished, landed, result>>
    BY <2>3 DEF Given
  <2> QED
    <3>1. ASSUME NEW r \in Ranks, NEW p \in Peers(r),
                 Rearm(r, p) \/ \E s \in Stages, x \in Positions : Poll(r, p, s, x)
          PROVE  UNCHANGED <<finished, landed, result>>
      BY <3>1 DEF Rearm, Poll
    <3>2. ASSUME NEW r \in Ranks, Arm(r) PROVE UNCHANGED <<finished, landed, result>>
      BY <3>2 DEF Arm
    <3> QED
      BY <1>2, <2>1, <2>2, <2>3, <3>1, <3>2 DEF Next, Rank, Wave, vars, AR!Next
<1> QED
  BY Invariance, <1>1, <1>2, PTL DEF Spec, ImplementsAllReduce, AR!Spec

=============================================================================
