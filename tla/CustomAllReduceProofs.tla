----------------------- MODULE CustomAllReduceProofs -----------------------
(***************************************************************************)
(* Theorems about CustomAllReduce, for any number of ranks and any sequence*)
(* of calls.  The barriers hold for as long as no rank has entered so many *)
(* that its counter would start again at zero (Barriers).  The variables   *)
(* keep their types (TypeCorrect).  And the kernels that rely on barriers  *)
(* are all-reduces (AllReduceImplemented): what a rank reads in the scratch*)
(* is what it waits for, because whoever may overwrite it has not left the *)
(* barrier the reader is still to enter.                                   *)
(***************************************************************************)
EXTENDS CustomAllReduce, TLAPS

\* No counter has wrapped around.
NotWrapped == \A r \in Ranks : entered[r] < Width

\* A rank is in a barrier exactly between entering and leaving it.
InOrOut == \A r \in Ranks : entered[r] = left[r] + IF waiting[r] = "none" THEN 0 ELSE 1

\* The counter is the number of barriers left, and no signal runs ahead of the
\* barriers its sender has entered.
SignalsAreHonest ==
  /\ \A r \in Ranks : flag[r] = left[r]
  /\ \A a \in Arrays, r, p \in Ranks : signal[a][r][p] <= entered[p]

IInv == BarrierTypes /\ InOrOut /\ (NotWrapped => SignalsAreHonest /\ BarriersHold)

\* Apart from a barrier's two steps no step of a kernel touches its variables.
LEMMA BarrierSteps ==
  ASSUME Next
  PROVE  \/ \E r \in Ranks, a \in Arrays : Enter(r, a) \/ Leave(r, a)
         \/ UNCHANGED barrierVars
<1>1. PICK r \in Ranks : Rank(r)
  BY DEF Next
<1>2. CASE EnterBarrier(r) \/ LeaveBarrier(r)
  BY <1>2 DEF EnterBarrier, LeaveBarrier
<1>3. CASE Begin(r) \/ Keep(r) \/ Output(r) \/ Finish(r)
  BY <1>3 DEF Begin, Keep, Output, Finish
<1>4. CASE \E p \in Ranks : Work(r, p)
  BY <1>4 DEF Work, ReadInput, Gather, Store, Load, Push, ReadSlot, StoreHigh,
              LoadHigh, Send, Poll, Thread
<1> QED
  BY <1>1, <1>2, <1>3, <1>4 DEF Rank

\* The count a rank stores and waits for is the number of its barrier.
LEMMA NextCount ==
  ASSUME BarrierTypes, NEW r \in Ranks, flag[r] = left[r], left[r] + 1 < Width
  PROVE  NextFlag(r) = left[r] + 1
<1>1. \A n, w \in Nat : n < w => n % w = n
  OBVIOUS
<1>2. left[r] + 1 \in Nat /\ Width \in Nat
  BY SignalBarrierAssumption DEF BarrierTypes
<1> QED
  BY <1>1, <1>2 DEF NextFlag

\* NextFlag is a value of the counter.
LEMMA NextFlagType ==
  ASSUME BarrierTypes, NEW r \in Ranks
  PROVE  NextFlag(r) \in 0..(Width - 1)
BY SignalBarrierAssumption DEF BarrierTypes, NextFlag

\* Entering a barrier.
LEMMA EnterPreserves ==
  ASSUME IInv, NEW r \in Ranks, NEW a \in Arrays, Enter(r, a)
  PROVE  IInv'
<1>1. BarrierTypes'
  BY NextFlagType DEF IInv, BarrierTypes, Enter
<1>2. InOrOut'
  BY DEF IInv, InOrOut, BarrierTypes, Enter, Arrays
<1>3. ASSUME NotWrapped' PROVE SignalsAreHonest' /\ BarriersHold'
  <2>1. \A p \in Ranks : entered[p] \in Nat /\ entered[p] <= entered'[p] /\ entered'[p] < Width
    BY <1>3 DEF IInv, BarrierTypes, Enter, NotWrapped
  <2>2. NotWrapped
    BY <2>1, SignalBarrierAssumption DEF IInv, BarrierTypes, Enter, NotWrapped
  <2>3. SignalsAreHonest /\ BarriersHold
    BY <2>2 DEF IInv
  <2>4. entered'[r] = left[r] + 1
    BY DEF IInv, InOrOut, BarrierTypes, Enter
  <2>5. NextFlag(r) = entered'[r]
    BY <2>1, <2>3, <2>4, NextCount DEF IInv, SignalsAreHonest
  <2>6. ASSUME NEW b \in Arrays, NEW q \in Ranks, NEW p \in Ranks
        PROVE  signal'[b][q][p] <= entered'[p]
    <3>1. signal'[b][q][p] = signal[b][q][p] \/ (p = r /\ signal'[b][q][p] = NextFlag(r))
      BY DEF Enter, IInv, BarrierTypes
    <3>2. signal[b][q][p] \in Nat /\ signal[b][q][p] <= entered[p]
      BY <2>3, SignalBarrierAssumption DEF IInv, BarrierTypes, SignalsAreHonest
    <3> QED
      BY <3>1, <3>2, <2>1, <2>5, <1>1 DEF BarrierTypes
  <2>7. BarriersHold'
    BY <2>1, <2>3, <1>1 DEF BarriersHold, BarrierTypes, Enter, IInv
  <2> QED
    BY <2>3, <2>6, <2>7 DEF SignalsAreHonest, Enter
<1> QED
  BY <1>1, <1>2, <1>3 DEF IInv

\* Leaving one: every rank has signalled it, so every rank has entered it.
LEMMA LeavePreserves ==
  ASSUME IInv, NEW r \in Ranks, NEW a \in Arrays, Leave(r, a)
  PROVE  IInv'
<1>1. BarrierTypes'
  BY NextFlagType DEF IInv, BarrierTypes, Leave
<1>2. InOrOut'
  BY DEF IInv, InOrOut, BarrierTypes, Leave, Arrays
<1>3. ASSUME NotWrapped' PROVE SignalsAreHonest' /\ BarriersHold'
  <2>1. NotWrapped
    BY <1>3 DEF Leave, NotWrapped
  <2>2. SignalsAreHonest /\ BarriersHold
    BY <2>1 DEF IInv
  <2>3. entered[r] = left[r] + 1
    BY DEF IInv, InOrOut, Leave, Arrays
  <2>4. NextFlag(r) = left[r] + 1
    BY <2>1, <2>2, <2>3, NextCount DEF IInv, SignalsAreHonest, NotWrapped
  <2>5. SignalsAreHonest'
    BY <2>2, <2>4, <1>1 DEF SignalsAreHonest, Leave, IInv, BarrierTypes
  <2>6. \A p \in Ranks : left[r] + 1 <= entered[p]
    <3> SUFFICES ASSUME NEW p \in Ranks PROVE left[r] + 1 <= entered[p]
      OBVIOUS
    <3>1. ~(signal[a][r][p] < left[r] + 1)
      BY <2>4 DEF Leave, AllSignalled
    <3>2. signal[a][r][p] \in Int /\ signal[a][r][p] <= entered[p]
      BY <2>2, SignalBarrierAssumption DEF IInv, BarrierTypes, SignalsAreHonest
    <3> QED
      BY <3>1, <3>2 DEF IInv, BarrierTypes
  <2>7. BarriersHold'
    BY <2>2, <2>6 DEF BarriersHold, Leave, IInv, BarrierTypes
  <2> QED
    BY <2>5, <2>7
<1> QED
  BY <1>1, <1>2, <1>3 DEF IInv

\* Every step preserves the invariant of the barriers.
LEMMA IInvNext == IInv /\ [Next]_vars => IInv'
<1> SUFFICES ASSUME IInv, [Next]_vars PROVE IInv'
  OBVIOUS
<1>1. CASE UNCHANGED barrierVars
  BY <1>1 DEF IInv, BarrierTypes, InOrOut, SignalsAreHonest, BarriersHold, NotWrapped, barrierVars
<1>2. CASE \E r \in Ranks, a \in Arrays : Enter(r, a) \/ Leave(r, a)
  BY <1>2, EnterPreserves, LeavePreserves
<1> QED
  BY <1>1, <1>2, BarrierSteps DEF vars

\* No rank passes a barrier of start_sync or end_sync that another has not
\* entered, until a counter wraps around: two barriers of different kinds, or a
\* fast rank's next one, never stand in for the one a slow rank is in.
THEOREM Barriers == Spec => [](NotWrapped => BarriersHold)
<1>1. Init => IInv
  BY SignalBarrierAssumption
  DEF Init, BarrierInit, IInv, BarrierTypes, InOrOut, SignalsAreHonest, BarriersHold
<1>2. IInv => (NotWrapped => BarriersHold)
  BY DEF IInv
<1> QED
  BY <1>1, <1>2, IInvNext, PTL DEF Spec

-----------------------------------------------------------------------------
\* A rank runs a call of the plan, and only such a call.
CallsPlanned == \A r \in Ranks : Running(r) => done[r] < Len(plan)

TypeInv == TypeOK /\ CallsPlanned

\* A kernel has three to six steps.
LEMMA StepCounts ==
  /\ Len(Steps["one"]) = 4 /\ Len(Steps["two"]) = 5 /\ Len(Steps["fused"]) = 5
  /\ Len(Steps["write"]) = 6 /\ Len(Steps["ll"]) = 3 /\ Len(Steps["ll128"]) = 3
BY DEF Steps

\* A call that runs is of a known kind and in one of its steps, or past them.
LEMMA CallTypes ==
  ASSUME TypeInv, NEW r \in Ranks, Running(r)
  PROVE  /\ Call(r) \in Kinds /\ done[r] \in 0..(MaxCalls - 1) /\ done[r] < Len(plan)
         /\ ~Over(r) => pc[r] \in 1..6
<1>1. plan \in Seq(Kinds) /\ Len(plan) <= MaxCalls /\ MaxCalls \in Nat
  BY CustomAllReduceAssumption DEF TypeInv, TypeOK
<1>2. done[r] \in Nat /\ done[r] < Len(plan)
  BY <1>1 DEF TypeInv, TypeOK, CallsPlanned
<1>3. Call(r) \in Kinds /\ done[r] \in 0..(MaxCalls - 1)
  BY <1>1, <1>2 DEF Call
<1>4. pc[r] \in 1..7
  BY DEF TypeInv, TypeOK, Running
<1>5. Len(Steps[Call(r)]) \in 3..6
  BY <1>3, StepCounts DEF Kinds
<1>6. ~Over(r) => pc[r] \in 1..6
  <2>1. \A n \in 3..6 : ~(pc[r] > n) => pc[r] \in 1..6
    BY <1>4
  <2> QED
    BY <1>5, <2>1, Zenon DEF Over
<1> QED
  BY <1>2, <1>3, <1>6

StepNames ==
  {"start", "end", "read inputs", "output", "keep", "gather", "store", "load", "push",
   "read slots", "store high", "load high", "send", "poll"}

\* The kinds of calls and the positions that a step has.
Place(kind, n, step) ==
  \/ /\ kind = "one"
     /\ (n = 1 /\ step = "start") \/ (n = 2 /\ step = "read inputs")
          \/ (n = 3 /\ step = "output") \/ (n = 4 /\ step = "end")
  \/ /\ kind = "two"
     /\ (n = 1 /\ step = "start") \/ (n = 2 /\ step = "read inputs")
          \/ (n = 3 /\ step = "keep") \/ (n = 4 /\ step = "end")
          \/ (n = 5 /\ step = "gather")
  \/ /\ kind = "fused"
     /\ (n = 1 /\ step = "start") \/ (n = 2 /\ step = "read inputs")
          \/ (n = 3 /\ step = "store") \/ (n = 4 /\ step = "end")
          \/ (n = 5 /\ step = "load")
  \/ /\ kind = "write"
     /\ (n = 1 /\ step = "push") \/ (n = 2 /\ step = "end")
          \/ (n = 3 /\ step = "read slots") \/ (n = 4 /\ step = "store high")
          \/ (n = 5 /\ step = "end") \/ (n = 6 /\ step = "load high")
  \/ /\ kind \in LLKinds
     /\ (n = 1 /\ step = "send") \/ (n = 2 /\ step = "poll")
          \/ (n = 3 /\ step = "output")

\* The places of a kernel's steps are those of the table.
LEMMA KernelPlaces ==
  ASSUME NEW n \in 1..7, NEW step \in StepNames
  PROVE  /\ ~(n > 4) /\ Steps["one"][n] = step <=> Place("one", n, step)
         /\ ~(n > 5) /\ Steps["two"][n] = step <=> Place("two", n, step)
         /\ ~(n > 5) /\ Steps["fused"][n] = step <=> Place("fused", n, step)
         /\ ~(n > 6) /\ Steps["write"][n] = step <=> Place("write", n, step)
         /\ ~(n > 3) /\ Steps["ll"][n] = step <=> Place("ll", n, step)
         /\ ~(n > 3) /\ Steps["ll128"][n] = step <=> Place("ll128", n, step)
<1>1. ~(n > 4) /\ Steps["one"][n] = step <=> Place("one", n, step)
  <2>1. /\ Steps["one"][1] = "start" /\ Steps["one"][2] = "read inputs"
        /\ Steps["one"][3] = "output" /\ Steps["one"][4] = "end"
    BY DEF Steps
  <2>2. \/ n = 1 /\ ~(n > 4)
        \/ n = 2 /\ ~(n > 4)
        \/ n = 3 /\ ~(n > 4)
        \/ n = 4 /\ ~(n > 4)
        \/ n > 4 /\ n \notin 1..4
    OBVIOUS
  <2>3. 1 \in 1..4 /\ 2 \in 1..4 /\ 3 \in 1..4 /\ 4 \in 1..4
    OBVIOUS
  <2> QED
    BY <2>1, <2>2, <2>3, Zenon DEF Place, LLKinds
<1>2. ~(n > 5) /\ Steps["two"][n] = step <=> Place("two", n, step)
  <2>1. /\ Steps["two"][1] = "start" /\ Steps["two"][2] = "read inputs"
        /\ Steps["two"][3] = "keep" /\ Steps["two"][4] = "end"
        /\ Steps["two"][5] = "gather"
    BY DEF Steps
  <2>2. \/ n = 1 /\ ~(n > 5)
        \/ n = 2 /\ ~(n > 5)
        \/ n = 3 /\ ~(n > 5)
        \/ n = 4 /\ ~(n > 5)
        \/ n = 5 /\ ~(n > 5)
        \/ n > 5 /\ n \notin 1..5
    OBVIOUS
  <2>3. 1 \in 1..5 /\ 2 \in 1..5 /\ 3 \in 1..5 /\ 4 \in 1..5 /\ 5 \in 1..5
    OBVIOUS
  <2> QED
    BY <2>1, <2>2, <2>3, Zenon DEF Place, LLKinds
<1>3. ~(n > 5) /\ Steps["fused"][n] = step <=> Place("fused", n, step)
  <2>1. /\ Steps["fused"][1] = "start" /\ Steps["fused"][2] = "read inputs"
        /\ Steps["fused"][3] = "store" /\ Steps["fused"][4] = "end"
        /\ Steps["fused"][5] = "load"
    BY DEF Steps
  <2>2. \/ n = 1 /\ ~(n > 5)
        \/ n = 2 /\ ~(n > 5)
        \/ n = 3 /\ ~(n > 5)
        \/ n = 4 /\ ~(n > 5)
        \/ n = 5 /\ ~(n > 5)
        \/ n > 5 /\ n \notin 1..5
    OBVIOUS
  <2>3. 1 \in 1..5 /\ 2 \in 1..5 /\ 3 \in 1..5 /\ 4 \in 1..5 /\ 5 \in 1..5
    OBVIOUS
  <2> QED
    BY <2>1, <2>2, <2>3, Zenon DEF Place, LLKinds
<1>4. ~(n > 6) /\ Steps["write"][n] = step <=> Place("write", n, step)
  <2>1. /\ Steps["write"][1] = "push" /\ Steps["write"][2] = "end"
        /\ Steps["write"][3] = "read slots" /\ Steps["write"][4] = "store high"
        /\ Steps["write"][5] = "end" /\ Steps["write"][6] = "load high"
    BY DEF Steps
  <2>2. \/ n = 1 /\ ~(n > 6)
        \/ n = 2 /\ ~(n > 6)
        \/ n = 3 /\ ~(n > 6)
        \/ n = 4 /\ ~(n > 6)
        \/ n = 5 /\ ~(n > 6)
        \/ n = 6 /\ ~(n > 6)
        \/ n > 6 /\ n \notin 1..6
    OBVIOUS
  <2>3. 1 \in 1..6 /\ 2 \in 1..6 /\ 3 \in 1..6 /\ 4 \in 1..6 /\ 5 \in 1..6 /\ 6 \in 1..6
    OBVIOUS
  <2> QED
    BY <2>1, <2>2, <2>3, Zenon DEF Place, LLKinds
<1>5. ~(n > 3) /\ Steps["ll"][n] = step <=> Place("ll", n, step)
  <2>1. /\ Steps["ll"][1] = "send" /\ Steps["ll"][2] = "poll"
        /\ Steps["ll"][3] = "output"
    BY DEF Steps
  <2>2. \/ n = 1 /\ ~(n > 3)
        \/ n = 2 /\ ~(n > 3)
        \/ n = 3 /\ ~(n > 3)
        \/ n > 3 /\ n \notin 1..3
    OBVIOUS
  <2>3. 1 \in 1..3 /\ 2 \in 1..3 /\ 3 \in 1..3
    OBVIOUS
  <2> QED
    BY <2>1, <2>2, <2>3, Zenon DEF Place, LLKinds
<1>6. ~(n > 3) /\ Steps["ll128"][n] = step <=> Place("ll128", n, step)
  <2>1. /\ Steps["ll128"][1] = "send" /\ Steps["ll128"][2] = "poll"
        /\ Steps["ll128"][3] = "output"
    BY DEF Steps
  <2>2. \/ n = 1 /\ ~(n > 3)
        \/ n = 2 /\ ~(n > 3)
        \/ n = 3 /\ ~(n > 3)
        \/ n > 3 /\ n \notin 1..3
    OBVIOUS
  <2>3. 1 \in 1..3 /\ 2 \in 1..3 /\ 3 \in 1..3
    OBVIOUS
  <2> QED
    BY <2>1, <2>2, <2>3, Zenon DEF Place, LLKinds
<1> QED
  BY <1>1, <1>2, <1>3, <1>4, <1>5, <1>6

\* A rank is at a step exactly in one of its places.
LEMMA Places ==
  ASSUME TypeInv, NEW r \in Ranks, NEW step \in StepNames
  PROVE  At(r, step) <=> Running(r) /\ Place(Call(r), pc[r], step)
<1> SUFFICES ASSUME Running(r)
             PROVE  At(r, step) <=> Place(Call(r), pc[r], step)
  BY DEF At
<1>1. pc[r] \in 1..7 /\ Call(r) \in Kinds
  BY CallTypes DEF Running, TypeInv, TypeOK
<1>2. CASE Call(r) = "one"
  <2>1. At(r, step) <=> ~(pc[r] > 4) /\ Steps["one"][pc[r]] = step
    BY <1>2, StepCounts, Zenon DEF At, Over
  <2> QED
    BY <1>1, <1>2, <2>1, KernelPlaces
<1>3. CASE Call(r) = "two"
  <2>1. At(r, step) <=> ~(pc[r] > 5) /\ Steps["two"][pc[r]] = step
    BY <1>3, StepCounts, Zenon DEF At, Over
  <2> QED
    BY <1>1, <1>3, <2>1, KernelPlaces
<1>4. CASE Call(r) = "fused"
  <2>1. At(r, step) <=> ~(pc[r] > 5) /\ Steps["fused"][pc[r]] = step
    BY <1>4, StepCounts, Zenon DEF At, Over
  <2> QED
    BY <1>1, <1>4, <2>1, KernelPlaces
<1>5. CASE Call(r) = "write"
  <2>1. At(r, step) <=> ~(pc[r] > 6) /\ Steps["write"][pc[r]] = step
    BY <1>5, StepCounts, Zenon DEF At, Over
  <2> QED
    BY <1>1, <1>5, <2>1, KernelPlaces
<1>6. CASE Call(r) = "ll"
  <2>1. At(r, step) <=> ~(pc[r] > 3) /\ Steps["ll"][pc[r]] = step
    BY <1>6, StepCounts, Zenon DEF At, Over
  <2> QED
    BY <1>1, <1>6, <2>1, KernelPlaces
<1>7. CASE Call(r) = "ll128"
  <2>1. At(r, step) <=> ~(pc[r] > 3) /\ Steps["ll128"][pc[r]] = step
    BY <1>7, StepCounts, Zenon DEF At, Over
  <2> QED
    BY <1>1, <1>7, <2>1, KernelPlaces
<1> QED
  BY <1>1, <1>2, <1>3, <1>4, <1>5, <1>6, <1>7 DEF Kinds

\* Only the LL kernels send lines and poll for them.
LEMMA LinesAreLL ==
  ASSUME TypeInv, NEW r \in Ranks, At(r, "send") \/ At(r, "poll")
  PROVE  Call(r) \in LLKinds
<1>1. "send" \in StepNames /\ "poll" \in StepNames
  BY DEF StepNames
<1>2. Place(Call(r), pc[r], "send") \/ Place(Call(r), pc[r], "poll")
  BY <1>1, Places
<1> QED
  BY <1>2 DEF Place

\* An epoch is a value of its flag and never that of cleared scratch, and a bank
\* is a region.
LEMMA EpochTypes ==
  ASSUME TypeInv, NEW r \in Ranks, Call(r) \in LLKinds
  PROVE  Epoch(r) \in 1..(Epochs - 1) /\ Bank(r) \in Regions
<1>1. epoch[Call(r)][r] \in Nat /\ Epochs \in Nat \ {0, 1, 2}
  BY CustomAllReduceAssumption DEF TypeInv, TypeOK
<1>2. (epoch[Call(r)][r] + 1) % Epochs \in 0..(Epochs - 1)
  BY <1>1
<1>3. Epoch(r) \in 1..(Epochs - 1)
  BY <1>1, <1>2 DEF Epoch
<1>4. (Epoch(r) % 2) \in {0, 1}
  BY <1>3, <1>1
<1> QED
  BY <1>3, <1>4 DEF Bank, Regions

\* What a rank contributes is an input of its own.
LEMMA InputTypes ==
  ASSUME TypeInv, NEW r \in Ranks
  PROVE  Input(r) \in Sums
<1>1. done[r] \in 0..MaxCalls /\ MaxCalls \in Nat
  BY CustomAllReduceAssumption DEF TypeInv, TypeOK
<1>2. done[r] \in -1..MaxCalls /\ done[r] - 1 \in -1..MaxCalls
  BY <1>1
<1> QED
  BY <1>2 DEF Input, Sums

\* The types of what the kernels compute with, apart from the barriers'.
DataTypes ==
  /\ sum \in [Ranks -> Sums] /\ out \in [Ranks -> SUBSET Sums]
  /\ scratch \in [Ranks -> [Regions -> [Ranks -> [flag : 0..(Epochs - 1), sum : Sums]]]]

ControlTypes ==
  /\ plan \in Plans
  /\ done \in [Ranks -> 0..MaxCalls] /\ pc \in [Ranks -> 0..7]
  /\ handled \in [Ranks -> SUBSET Ranks]

ResultTypes ==
  /\ epoch \in [LLKinds -> [Ranks -> 0..(Epochs - 1)]]
  /\ result \in [Ranks -> SUBSET Sums]

\* The type invariant in parts.
LEMMA TypesInParts ==
  TypeOK <=> BarrierTypes /\ ControlTypes /\ DataTypes /\ ResultTypes
BY DEF TypeOK, ControlTypes, DataTypes, ResultTypes

\* Adding up, showing and storing sums keeps the types.
LEMMA DataSteps ==
  ASSUME TypeInv, NEW r \in Ranks, NEW s \in Sums
  PROVE  /\ Add(r, s) => DataTypes'
         /\ Show(r, s) => DataTypes'
         /\ \A p \in Ranks, slot \in Ranks, region \in Regions, f \in 0..(Epochs - 1) :
              Put(p, region, slot, Line(f, s)) => DataTypes'
<1>1. DataTypes
  BY TypesInParts DEF TypeInv
<1>2. ASSUME Add(r, s) PROVE DataTypes'
  <2>1. sum[r] \cup s \in Sums
    BY <1>1 DEF DataTypes, Sums
  <2> QED
    BY <1>1, <1>2, <2>1 DEF DataTypes, Add
<1>3. ASSUME Show(r, s) PROVE DataTypes'
  BY <1>1, <1>3 DEF DataTypes, Show
<1>4. ASSUME NEW p \in Ranks, NEW slot \in Ranks, NEW region \in Regions,
             NEW f \in 0..(Epochs - 1), Put(p, region, slot, Line(f, s))
      PROVE  DataTypes'
  <2>1. Line(f, s) \in [flag : 0..(Epochs - 1), sum : Sums]
    BY DEF Line
  <2> QED
    BY <1>1, <1>4, <2>1 DEF DataTypes, Put
<1> QED
  BY <1>2, <1>3, <1>4

\* Data is stored without an epoch.
LEMMA DataIsLine == \A s : Data(s) = Line(0, s) /\ 0 \in 0..(Epochs - 1)
BY CustomAllReduceAssumption DEF Data, Line

\* A slot holds a sum.
LEMMA SlotTypes ==
  ASSUME TypeInv, NEW r \in Ranks, NEW region \in Regions, NEW slot \in Ranks
  PROVE  scratch[r][region][slot].sum \in Sums
BY DEF TypeInv, TypeOK

\* A step of a kernel leads to the next one.
LEMMA NextPlace ==
  ASSUME TypeInv, NEW r \in Ranks, NEW step \in StepNames, At(r, step)
  PROVE  /\ Running(r) /\ done[r] < Len(plan) /\ pc[r] \in 1..6
         /\ [pc EXCEPT ![r] = @ + 1] \in [Ranks -> 0..7]
<1>1. Running(r) /\ pc[r] \in 1..6 /\ done[r] < Len(plan)
  BY CallTypes DEF At
<1>2. pc[r] + 1 \in 0..7 /\ pc \in [Ranks -> 0..7]
  BY <1>1 DEF TypeInv, TypeOK
<1> QED
  BY <1>1, <1>2

\* The part of a thread step that does not depend on the data.
LEMMA ThreadTypes ==
  ASSUME TypeInv, NEW r \in Ranks, NEW p \in Ranks, NEW step \in StepNames, Thread(r, p, step)
  PROVE  ControlTypes' /\ ResultTypes' /\ CallsPlanned'
<1>1. ControlTypes /\ ResultTypes /\ CallsPlanned
  BY TypesInParts DEF TypeInv
<1>2. At(r, step) /\ UNCHANGED <<plan, done, epoch, result>>
  BY DEF Thread
<1>3. pc' \in [Ranks -> 0..7] /\ handled' \in [Ranks -> SUBSET Ranks]
  BY <1>1, <1>2, NextPlace DEF Thread, ControlTypes
<1>4. \A q \in Ranks : Running(q)' => Running(q)
  BY <1>1, <1>2, NextPlace DEF Thread, ControlTypes, Running
<1> QED
  BY <1>1, <1>2, <1>3, <1>4 DEF ControlTypes, ResultTypes, CallsPlanned

\* The threads of a step work with sums and write into regions of the scratch.
LEMMA WorkTypes ==
  ASSUME TypeInv, NEW r \in Ranks, NEW p \in Ranks, Work(r, p)
  PROVE  ControlTypes' /\ ResultTypes' /\ CallsPlanned' /\ DataTypes'
<1>1. \E step \in StepNames : Thread(r, p, step)
  BY DEF Work, ReadInput, Gather, Store, Load, Push, ReadSlot, StoreHigh, LoadHigh, Send, Poll,
         StepNames
<1>2. ControlTypes' /\ ResultTypes' /\ CallsPlanned'
  BY <1>1, ThreadTypes
<1>3. Input(r) \in Sums /\ Input(p) \in Sums /\ sum[r] \in Sums
  BY InputTypes DEF TypeInv, TypeOK
<1>4. {0, 1} \subseteq Regions /\ First \in Ranks
  BY CustomAllReduceAssumption DEF Regions
<1>5. CASE ReadInput(r, p) \/ Gather(r, p) \/ Load(r, p) \/ ReadSlot(r, p) \/ LoadHigh(r, p)
  <2>1. /\ scratch[p][0][First].sum \in Sums /\ scratch[r][0][p].sum \in Sums
        /\ scratch[r][1][p].sum \in Sums
    BY <1>4, SlotTypes
  <2>2. \E s \in Sums : Add(r, s) \/ Show(r, s)
    BY <1>3, <1>5, <2>1 DEF ReadInput, Gather, Load, ReadSlot, LoadHigh
  <2> QED
    BY <1>2, <2>2, DataSteps
<1>6. CASE Store(r, p) \/ Push(r, p) \/ StoreHigh(r, p)
  <2>1. \E s \in Sums, region \in Regions : Put(p, region, r, Line(0, s))
    BY <1>3, <1>4, <1>6, DataIsLine DEF Store, Push, StoreHigh
  <2>2. 0 \in 0..(Epochs - 1)
    BY DataIsLine
  <2> QED
    BY <1>2, <2>1, <2>2, DataSteps
<1>7. CASE Send(r, p)
  <2>1. Epoch(r) \in 0..(Epochs - 1) /\ Bank(r) \in Regions
    BY <1>7, LinesAreLL, EpochTypes DEF Send, Thread
  <2>2. CASE p = r
    BY <1>2, <1>7, <2>2, TypesInParts DEF Send, DataTypes, TypeInv
  <2>3. CASE p # r
    BY <1>2, <1>3, <1>7, <2>1, <2>3, DataSteps DEF Send
  <2> QED
    BY <2>2, <2>3
<1>8. CASE Poll(r, p)
  <2>1. Bank(r) \in Regions
    BY <1>8, LinesAreLL, EpochTypes DEF Poll, Thread
  <2> QED
    BY <1>2, <1>3, <1>8, <2>1, SlotTypes, DataSteps DEF Poll
<1> QED
  BY <1>2, <1>5, <1>6, <1>7, <1>8 DEF Work

\* The steps a block takes as a whole.
LEMMA BlockTypes ==
  ASSUME TypeInv, NEW r \in Ranks,
         Begin(r) \/ EnterBarrier(r) \/ LeaveBarrier(r) \/ Keep(r) \/ Output(r) \/ Finish(r)
  PROVE  ControlTypes' /\ ResultTypes' /\ CallsPlanned' /\ DataTypes'
<1>1. ControlTypes /\ ResultTypes /\ DataTypes /\ CallsPlanned
  BY TypesInParts DEF TypeInv
<1>2. CASE Begin(r)
  <2>1. /\ done[r] < Len(plan) /\ pc' = [pc EXCEPT ![r] = 1]
        /\ UNCHANGED <<plan, done, handled, sum, out, epoch, scratch, result>>
    BY <1>2 DEF Begin
  <2>2. pc' \in [Ranks -> 0..7] /\ \A q \in Ranks : q # r => pc'[q] = pc[q]
    BY <1>1, <2>1 DEF ControlTypes
  <2>3. CallsPlanned'
    BY <1>1, <2>1, <2>2 DEF CallsPlanned, Running
  <2> QED
    BY <1>1, <2>1, <2>2, <2>3 DEF ControlTypes, ResultTypes, DataTypes
<1>3. CASE EnterBarrier(r)
  BY <1>1, <1>3 DEF EnterBarrier, kernelVars, ControlTypes, ResultTypes, DataTypes,
                    CallsPlanned, Running
<1>4. ASSUME NEW step \in StepNames, At(r, step), pc' = [pc EXCEPT ![r] = @ + 1],
             UNCHANGED <<plan, done, handled, epoch, result>>
      PROVE  ControlTypes' /\ ResultTypes' /\ CallsPlanned'
  <2>1. Running(r) /\ done[r] < Len(plan) /\ pc' \in [Ranks -> 0..7]
    BY <1>4, NextPlace
  <2>2. CallsPlanned'
    BY <1>1, <1>4, <2>1 DEF CallsPlanned, Running, ControlTypes
  <2> QED
    BY <1>1, <1>4, <2>1, <2>2 DEF ControlTypes, ResultTypes
<1>5. CASE LeaveBarrier(r)
  <2>1. PICK a \in Arrays : At(r, a)
    BY <1>5 DEF LeaveBarrier
  <2>2. a \in StepNames
    BY DEF Arrays, StepNames
  <2> QED
    BY <1>1, <1>4, <1>5, <2>1, <2>2 DEF LeaveBarrier, DataTypes
<1>6. CASE Keep(r)
  <2>1. sum[r] \in Sums /\ 0 \in Regions /\ First \in Ranks
    BY <1>1, CustomAllReduceAssumption DEF DataTypes, Regions
  <2>2. DataTypes'
    BY <1>6, <2>1, DataIsLine, DataSteps DEF Keep
  <2> QED
    BY <1>4, <1>6, <2>2 DEF Keep, Put, StepNames
<1>7. CASE Output(r)
  <2>1. DataTypes'
    BY <1>1, <1>7, DataSteps DEF Output, DataTypes
  <2> QED
    BY <1>4, <1>7, <2>1 DEF Output, StepNames
<1>8. CASE Finish(r)
  <2>1. Running(r) /\ done[r] < Len(plan) /\ done[r] \in 0..(MaxCalls - 1)
    BY <1>8, CallTypes DEF Finish
  <2>2. done[r] + 1 \in 0..MaxCalls
    BY <2>1, CustomAllReduceAssumption
  <2>3. /\ done' = [done EXCEPT ![r] = @ + 1] /\ pc' = [pc EXCEPT ![r] = 0]
        /\ UNCHANGED <<plan, handled, scratch>>
        /\ result' = [result EXCEPT ![r] = out[r]]
        /\ sum' = [sum EXCEPT ![r] = {}] /\ out' = [out EXCEPT ![r] = {}]
    BY <1>8 DEF Finish
  <2>4. ControlTypes'
    BY <1>1, <2>2, <2>3 DEF ControlTypes
  <2>5. DataTypes' /\ result' \in [Ranks -> SUBSET Sums]
    BY <1>1, <2>3 DEF DataTypes, ResultTypes, Sums
  <2>6. epoch' \in [LLKinds -> [Ranks -> 0..(Epochs - 1)]]
    <3>1. CASE Call(r) \in LLKinds
      <4>1. Epoch(r) \in 0..(Epochs - 1)
        BY <3>1, EpochTypes
      <4> QED
        BY <1>1, <1>8, <3>1, <4>1 DEF Finish, ResultTypes
    <3>2. CASE Call(r) \notin LLKinds
      BY <1>1, <1>8, <3>2 DEF Finish, ResultTypes
    <3> QED
      BY <3>1, <3>2
  <2>7. CallsPlanned'
    BY <1>1, <2>3 DEF CallsPlanned, Running, ControlTypes
  <2> QED
    BY <2>4, <2>5, <2>6, <2>7 DEF ResultTypes
<1> QED
  BY <1>2, <1>3, <1>5, <1>6, <1>7, <1>8

\* The barriers' counters and signals keep their types.
LEMMA BarrierTypesNext == BarrierTypes /\ [Next]_vars => BarrierTypes'
<1> SUFFICES ASSUME BarrierTypes, [Next]_vars PROVE BarrierTypes'
  OBVIOUS
<1>1. CASE UNCHANGED barrierVars
  BY <1>1 DEF BarrierTypes, barrierVars
<1>2. ASSUME NEW r \in Ranks, NEW a \in Arrays, Enter(r, a) \/ Leave(r, a)
      PROVE  BarrierTypes'
  <2>1. NextFlag(r) \in 0..(Width - 1)
    BY NextFlagType
  <2>2. CASE Enter(r, a)
    BY <2>1, <2>2 DEF BarrierTypes, Enter
  <2>3. CASE Leave(r, a)
    BY <2>1, <2>3 DEF BarrierTypes, Leave
  <2> QED
    BY <1>2, <2>2, <2>3
<1> QED
  BY <1>1, <1>2, BarrierSteps DEF vars

\* The invariant of the types holds before the first call.
LEMMA TypeInvInit == Init => TypeInv
<1> SUFFICES ASSUME Init PROVE TypeInv
  OBVIOUS
<1>1. BarrierTypes
  BY SignalBarrierAssumption DEF Init, BarrierInit, BarrierTypes
<1>2. {} \in Sums /\ 0 \in 0..(Epochs - 1) /\ 0 \in 0..MaxCalls /\ 0 \in 0..7
  BY CustomAllReduceAssumption DEF Sums
<1>3. Data({}) \in [flag : 0..(Epochs - 1), sum : Sums]
  BY <1>2 DEF Data
<1>4. ControlTypes /\ ResultTypes /\ CallsPlanned
  BY <1>2 DEF Init, ControlTypes, ResultTypes, CallsPlanned, Running
<1>5. DataTypes
  BY <1>2, <1>3 DEF Init, DataTypes
<1> QED
  BY <1>1, <1>4, <1>5, TypesInParts DEF TypeInv

\* Every step of a kernel preserves it.
LEMMA TypeInvNext == TypeInv /\ [Next]_vars => TypeInv'
<1> SUFFICES ASSUME TypeInv, [Next]_vars PROVE TypeInv'
  OBVIOUS
<1>1. BarrierTypes'
  BY BarrierTypesNext DEF TypeInv, TypeOK
<1>2. ControlTypes' /\ ResultTypes' /\ CallsPlanned' /\ DataTypes'
  <2>1. CASE Next
    BY <2>1, BlockTypes, WorkTypes DEF Next, Rank
  <2>2. CASE UNCHANGED vars
    <3>1. ControlTypes /\ ResultTypes /\ DataTypes /\ CallsPlanned
      BY TypesInParts DEF TypeInv
    <3> QED
      BY <2>2, <3>1 DEF vars, kernelVars, ControlTypes, ResultTypes, DataTypes, CallsPlanned, Running
  <2> QED
    BY <2>1, <2>2
<1> QED
  BY <1>1, <1>2 DEF TypeInv, TypeOK, ControlTypes, ResultTypes, DataTypes

\* The state of the kernels keeps its types, whatever calls are made and however
\* many: no counter reaches its width, no kernel runs past its steps or the plan,
\* and sums of inputs are all that the scratch ever holds.
THEOREM TypeCorrect == Spec => []TypeOK
<1>1. TypeInv => TypeOK
  BY DEF TypeInv
<1> QED
  BY <1>1, TypeInvInit, TypeInvNext, PTL DEF Spec

-----------------------------------------------------------------------------
\* The kernels that rely on barriers.
Synced == {"one", "two", "fused", "write"}

\* Calls of these kernels only.  The write mode does not begin with a barrier: it
\* comes neither after the two-stage kernel nor after the fused one, whose blocks
\* may still be reading the scratch that it writes.
SyncedPlans ==
  \A calls \in Plans :
    /\ calls \in Seq(Synced)
    /\ \A i \in 1..Len(calls) :
         i > 1 /\ calls[i] = "write" => calls[i - 1] \in {"one", "write"}

\* A call passes two barriers, and the counter has a value for each.
WideCounter == 2 * MaxCalls < Width

\* The kind of call k; the sum of the inputs of call k.
Kind(k) == plan[k + 1]
Total(k) == {<<r, k>> : r \in Ranks}

\* Does r run the write mode?
Writes(r) == Running(r) /\ Call(r) = "write"

\* The barriers of the running call that r has left.
Passed(r) ==
  IF Writes(r) THEN IF pc[r] <= 2 THEN 0 ELSE IF pc[r] <= 5 THEN 1 ELSE 2
               ELSE IF pc[r] <= 1 THEN 0 ELSE IF pc[r] <= 4 THEN 1 ELSE 2

\* The barriers that a rank has left are those of its calls.
CountsOf(r) ==
  left[r] = 2 * done[r] + Passed(r) /\ (waiting[r] # "none" => At(r, waiting[r]))
Counting == \A r \in Ranks : CountsOf(r)

\* Only in a step that its threads share has a rank handled some peers.
Sharing == {"read inputs", "gather", "store", "load", "push", "read slots", "store high",
            "load high"}
HandledInStep == \A r \in Ranks : handled[r] # {} => \E step \in Sharing : At(r, step)

\* The step in which a rank adds up its inputs, or its slots.
Adding(r) == IF Writes(r) THEN 3 ELSE 2

\* A rank adds up the inputs of its own call, each once it has handled the peer.
Contributions(P, k) == {<<p, k>> : p \in P}
TotalsOf(r) ==
  sum[r] = Contributions(IF pc[r] < Adding(r) THEN {}
                         ELSE IF pc[r] = Adding(r) THEN handled[r] ELSE Ranks, done[r])
Totals == \A r \in Ranks : TotalsOf(r)

\* It shows nothing but the total of its call, and that before it is done.
HasShown(r) == Running(r) /\ (Over(r) \/ (Call(r) = "one" /\ pc[r] = 4))
OutputsOf(r) == out[r] \subseteq {Total(done[r])} /\ (HasShown(r) => out[r] # {})
Outputs == \A r \in Ranks : OutputsOf(r)

\* Has p reached step n of call k?  Has it done its part for q of that step?
Reached(p, k, n) == done[p] > k \/ (done[p] = k /\ pc[p] >= n)
DoneFor(p, q, k, n) ==
  done[p] > k \/ (done[p] = k /\ (pc[p] > n \/ (pc[p] = n /\ q \in handled[p])))

\* Nobody has left more than b barriers.
NobodyBeyond(b) == \A r \in Ranks : left[r] <= b

\* The scratch keeps what a call has written there until some rank has left the
\* first barrier after which it may be overwritten.
Kept ==
  \A p \in Ranks, k \in 0..(Len(plan) - 1) :
    Kind(k) = "two" /\ Reached(p, k, 4) /\ NobodyBeyond(2 * k + 2) =>
      scratch[p][0][First].sum = Total(k)
Stored ==
  \A p, q \in Ranks, k \in 0..(Len(plan) - 1) :
    Kind(k) = "fused" /\ DoneFor(p, q, k, 3) /\ NobodyBeyond(2 * k + 2) =>
      scratch[q][0][p].sum = Total(k)
Pushed ==
  \A p, q \in Ranks, k \in 0..(Len(plan) - 1) :
    Kind(k) = "write" /\ DoneFor(p, q, k, 1) /\ NobodyBeyond(2 * k + 1) =>
      scratch[q][0][p].sum = {<<p, k>>}
StoredHigh ==
  \A p, q \in Ranks, k \in 0..(Len(plan) - 1) :
    Kind(k) = "write" /\ DoneFor(p, q, k, 4) /\ NobodyBeyond(2 * k + 2) =>
      scratch[q][1][p].sum = Total(k)

ScratchInv == Kept /\ Stored /\ Pushed /\ StoredHigh

\* The inductive invariant of the kernels that rely on barriers.
SyncedInv ==
  /\ TypeInv /\ IInv /\ Counting /\ HandledInStep /\ Totals /\ Outputs /\ ScratchInv

-----------------------------------------------------------------------------
\* Every call is of these kinds, and of the write mode only where it may be.
LEMMA SyncedKinds ==
  ASSUME TypeInv, SyncedPlans
  PROVE  /\ Len(plan) \in 0..MaxCalls
         /\ \A k \in 0..(Len(plan) - 1) :
              /\ Kind(k) \in Synced
              /\ k > 0 /\ Kind(k) = "write" => Kind(k - 1) \in {"one", "write"}
<1>1. plan \in Plans
  BY DEF TypeInv, TypeOK
<1>2. plan \in Seq(Synced) /\ Len(plan) \in Nat /\ Len(plan) <= MaxCalls /\ MaxCalls \in Nat
  BY <1>1, CustomAllReduceAssumption DEF SyncedPlans
<1>3. ASSUME NEW k \in 0..(Len(plan) - 1)
      PROVE  /\ Kind(k) \in Synced
             /\ k > 0 /\ Kind(k) = "write" => Kind(k - 1) \in {"one", "write"}
  <2>1. k + 1 \in 1..Len(plan)
    BY <1>2
  <2>2. plan[k + 1] \in Synced
    BY <1>2, <2>1
  <2>3. k > 0 => k + 1 > 1 /\ (k + 1) - 1 = (k - 1) + 1
    BY <1>2
  <2>4. k + 1 > 1 /\ plan[k + 1] = "write" => plan[(k + 1) - 1] \in {"one", "write"}
    BY <1>1, <2>1 DEF SyncedPlans
  <2> QED
    BY <2>2, <2>3, <2>4 DEF Kind
<1> QED
  BY <1>2, <1>3

\* A running call is a call of the plan.
LEMMA SyncedCall ==
  ASSUME TypeInv, SyncedPlans, NEW r \in Ranks, Running(r)
  PROVE  /\ done[r] \in 0..(Len(plan) - 1) /\ Call(r) = Kind(done[r])
         /\ Call(r) \in Synced
<1>1. Len(plan) \in Nat /\ done[r] \in Nat /\ done[r] < Len(plan)
  BY SyncedKinds, CallTypes
<1>2. done[r] \in 0..(Len(plan) - 1)
  BY <1>1
<1> QED
  BY <1>2, SyncedKinds DEF Kind, Call

\* Where a rank is, step by step.
LEMMA StepsAt ==
  ASSUME TypeInv, SyncedPlans, NEW r \in Ranks
  PROVE  /\ At(r, "start") => Running(r) /\ Call(r) # "write" /\ pc[r] = 1
         /\ At(r, "end") => \/ Running(r) /\ Call(r) # "write" /\ pc[r] = 4
                            \/ Running(r) /\ Call(r) = "write" /\ pc[r] \in {2, 5}
         /\ At(r, "read inputs") => Running(r) /\ Call(r) # "write" /\ pc[r] = 2
         /\ At(r, "output") => Running(r) /\ Call(r) = "one" /\ pc[r] = 3
         /\ At(r, "keep") => Running(r) /\ Call(r) = "two" /\ pc[r] = 3
         /\ At(r, "gather") => Running(r) /\ Call(r) = "two" /\ pc[r] = 5
         /\ At(r, "store") => Running(r) /\ Call(r) = "fused" /\ pc[r] = 3
         /\ At(r, "load") => Running(r) /\ Call(r) = "fused" /\ pc[r] = 5
         /\ At(r, "push") => Running(r) /\ Call(r) = "write" /\ pc[r] = 1
         /\ At(r, "read slots") => Running(r) /\ Call(r) = "write" /\ pc[r] = 3
         /\ At(r, "store high") => Running(r) /\ Call(r) = "write" /\ pc[r] = 4
         /\ At(r, "load high") => Running(r) /\ Call(r) = "write" /\ pc[r] = 6
         /\ ~At(r, "send") /\ ~At(r, "poll")
<1>1. ASSUME NEW step \in StepNames, At(r, step)
      PROVE  Running(r) /\ Place(Call(r), pc[r], step) /\ Call(r) \notin LLKinds
  <2>1. Running(r) /\ Place(Call(r), pc[r], step)
    BY <1>1, Places
  <2>2. Call(r) \in Synced
    BY <2>1, SyncedCall
  <2> QED
    BY <2>1, <2>2 DEF Synced, LLKinds
<1> QED
  BY <1>1 DEF Place, StepNames

\* How many steps a call has.
LEMMA OverAt ==
  ASSUME NEW r \in Ranks
  PROVE  /\ Call(r) = "one" => (Over(r) <=> pc[r] > 4)
         /\ Call(r) \in {"two", "fused"} => (Over(r) <=> pc[r] > 5)
         /\ Call(r) = "write" => (Over(r) <=> pc[r] > 6)
<1>1. Call(r) = "one" => (Over(r) <=> pc[r] > 4)
  BY StepCounts, Zenon DEF Over
<1>2. Call(r) = "two" => (Over(r) <=> pc[r] > 5)
  BY StepCounts, Zenon DEF Over
<1>3. Call(r) = "fused" => (Over(r) <=> pc[r] > 5)
  BY StepCounts, Zenon DEF Over
<1>4. Call(r) = "write" => (Over(r) <=> pc[r] > 6)
  BY StepCounts, Zenon DEF Over
<1> QED
  BY <1>1, <1>2, <1>3, <1>4

\* The numbers of barriers a rank has entered and left, and where it may be
\* between the two.
LEMMA Counted ==
  ASSUME TypeInv, SyncedPlans, Counting, InOrOut, NEW r \in Ranks
  PROVE  /\ done[r] \in Nat /\ pc[r] \in 0..7 /\ Passed(r) \in 0..2
         /\ left[r] = 2 * done[r] + Passed(r)
         /\ waiting[r] = "none" => entered[r] = left[r]
         /\ waiting[r] # "none" =>
              /\ entered[r] = left[r] + 1 /\ Running(r)
              /\ \/ ~Writes(r) /\ pc[r] \in {1, 4}
                 \/ Writes(r) /\ pc[r] \in {2, 5}
<1>1. done[r] \in Nat /\ pc[r] \in 0..7 /\ left[r] \in Nat
  BY DEF TypeInv, TypeOK, BarrierTypes
<1>2. Passed(r) \in 0..2
  BY DEF Passed
<1>3. left[r] = 2 * done[r] + Passed(r)
  BY DEF Counting, CountsOf
<1>4. waiting[r] = "none" => entered[r] = left[r]
  BY <1>1 DEF InOrOut
<1>5. ASSUME waiting[r] # "none"
      PROVE  /\ entered[r] = left[r] + 1 /\ Running(r)
             /\ \/ ~Writes(r) /\ pc[r] \in {1, 4}
                \/ Writes(r) /\ pc[r] \in {2, 5}
  <2>1. At(r, "start") \/ At(r, "end")
    BY <1>5 DEF Counting, CountsOf, TypeInv, TypeOK, BarrierTypes, Arrays
  <2>2. \/ Running(r) /\ Call(r) # "write" /\ pc[r] \in {1, 4}
        \/ Running(r) /\ Call(r) = "write" /\ pc[r] \in {2, 5}
    BY <2>1, StepsAt
  <2>3. entered[r] = left[r] + 1
    BY <1>5 DEF InOrOut
  <2> QED
    BY <2>2, <2>3 DEF Writes
<1> QED
  BY <1>1, <1>2, <1>3, <1>4, <1>5

\* No counter wraps around, so that the barriers hold.
LEMMA NeverWrapped ==
  ASSUME TypeInv, IInv, SyncedPlans, WideCounter, Counting
  PROVE  NotWrapped /\ BarriersHold
<1>1. ASSUME NEW r \in Ranks PROVE entered[r] < Width
  <2>1. InOrOut
    BY DEF IInv
  <2>2. done[r] \in 0..MaxCalls /\ (Running(r) => done[r] \in 0..(MaxCalls - 1))
    BY CallTypes DEF TypeInv, TypeOK
  <2>3. ~Running(r) => pc[r] = 0
    BY <2>1, Counted DEF Running
  <2>4. ~Running(r) => Passed(r) = 0 /\ waiting[r] = "none"
    BY <2>1, <2>3, Counted DEF Passed, Writes
  <2>5. waiting[r] # "none" => Passed(r) <= 1
    BY <2>1, Counted DEF Passed
  <2>6. MaxCalls \in Nat /\ Width \in Nat /\ 2 * MaxCalls < Width
    BY CustomAllReduceAssumption, SignalBarrierAssumption DEF WideCounter
  <2>7. Passed(r) \in 0..2 /\ left[r] = 2 * done[r] + Passed(r)
        /\ (waiting[r] = "none" => entered[r] = left[r])
        /\ (waiting[r] # "none" => entered[r] = left[r] + 1)
    BY <2>1, Counted
  <2>8. CASE Running(r) /\ waiting[r] = "none"
    BY <2>2, <2>6, <2>7, <2>8
  <2>9. CASE Running(r) /\ waiting[r] # "none"
    BY <2>2, <2>5, <2>6, <2>7, <2>9
  <2>10. CASE ~Running(r)
    BY <2>2, <2>4, <2>6, <2>7, <2>10
  <2> QED
    BY <2>8, <2>9, <2>10
<1>2. NotWrapped
  BY <1>1 DEF NotWrapped
<1> QED
  BY <1>2 DEF IInv

\* Outside a barrier a rank has left at least as many as any other, and every
\* other has entered as many.
LEMMA Together ==
  ASSUME TypeInv, IInv, SyncedPlans, WideCounter, Counting,
         NEW r \in Ranks, NEW p \in Ranks, waiting[r] = "none"
  PROVE  left[p] <= left[r] /\ left[r] <= entered[p]
<1>1. left[p] <= entered[r] /\ left[r] <= entered[p]
  BY NeverWrapped DEF BarriersHold
<1>2. entered[r] = left[r]
  BY Counted DEF IInv
<1> QED
  BY <1>1, <1>2

\* Who has entered the first barrier of call k, and left no more than that, runs
\* call k; who has entered the second one runs it from there on, or a later call.
LEMMA Entered ==
  ASSUME TypeInv, SyncedPlans, Counting, InOrOut, NEW p \in Ranks, NEW k \in Nat
  PROVE  /\ entered[p] >= 2 * k + 1 /\ left[p] <= 2 * k + 1 =>
              done[p] = k /\ Running(p) /\ (Writes(p) => pc[p] >= 2)
         /\ entered[p] >= 2 * k + 2 =>
              \/ done[p] > k
              \/ done[p] = k /\ Running(p) /\ pc[p] >= (IF Writes(p) THEN 5 ELSE 4)
         /\ left[p] >= 2 * k =>
              done[p] >= k \/ (done[p] = k - 1 /\ Running(p) /\ waiting[p] = "none")
<1>1. /\ done[p] \in Nat /\ pc[p] \in 0..7 /\ Passed(p) \in 0..2
      /\ left[p] = 2 * done[p] + Passed(p)
      /\ waiting[p] = "none" => entered[p] = left[p]
      /\ waiting[p] # "none" =>
           /\ entered[p] = left[p] + 1 /\ Running(p)
           /\ \/ ~Writes(p) /\ pc[p] \in {1, 4}
              \/ Writes(p) /\ pc[p] \in {2, 5}
  BY Counted
<1>2. Running(p) <=> pc[p] > 0
  BY DEF Running
<1>3. /\ Passed(p) >= 1 => pc[p] > (IF Writes(p) THEN 2 ELSE 1)
      /\ Passed(p) = 2 => pc[p] > (IF Writes(p) THEN 5 ELSE 4)
  BY <1>1 DEF Passed
<1>4. waiting[p] # "none" => /\ Passed(p) <= 1
                             /\ Passed(p) = 1 => pc[p] = (IF Writes(p) THEN 5 ELSE 4)
                             /\ Passed(p) = 0 => pc[p] = (IF Writes(p) THEN 2 ELSE 1)
  BY <1>1 DEF Passed
<1>5. CASE waiting[p] = "none"
  BY ONLY <1>1, <1>2, <1>3, <1>5, k \in Nat
<1>6. CASE waiting[p] # "none"
  BY ONLY <1>1, <1>2, <1>4, <1>6, k \in Nat
<1> QED
  BY <1>5, <1>6

\* A rank waits in a barrier only at that step.
LEMMA OutsideBarriers ==
  ASSUME TypeInv, Counting, NEW r \in Ranks,
         \/ \E step \in StepNames \ Arrays : At(r, step)
         \/ ~Running(r) \/ Over(r)
  PROVE  waiting[r] = "none"
<1> SUFFICES ASSUME waiting[r] # "none" PROVE FALSE
  OBVIOUS
<1>1. waiting[r] \in Arrays /\ At(r, waiting[r])
  BY DEF Counting, CountsOf, TypeInv, TypeOK, BarrierTypes
<1> QED
  BY <1>1 DEF At

\* What a rank that adds up inputs reads from a peer is the input of its own
\* call: the peer has made that call and has not made the next.
LEMMA InputRead ==
  ASSUME SyncedInv, SyncedPlans, WideCounter, NEW r \in Ranks, NEW p \in Ranks,
         At(r, "read inputs")
  PROVE  Input(p) = {<<p, done[r]>>}
<1>1. TypeInv /\ IInv /\ Counting /\ InOrOut
  BY DEF SyncedInv, IInv
<1>2. Running(r) /\ ~Writes(r) /\ pc[r] = 2
  BY <1>1, StepsAt DEF Writes
<1>3. waiting[r] = "none"
  BY <1>1, OutsideBarriers DEF StepNames, Arrays
<1>4. left[r] = 2 * done[r] + 1 /\ done[r] \in Nat
  <2>1. pc[r] \in {2, 3} /\ (pc[r] = 3 <=> Writes(r))
    BY ONLY <1>2
  <2>2. Passed(r) = 1
    BY ONLY <2>1 DEF Passed
  <2> QED
    BY <1>1, <2>2, Counted
<1>5. left[p] <= left[r] /\ left[r] <= entered[p]
  BY <1>1, <1>3, Together
<1>6. entered[p] >= 2 * done[r] + 1 /\ left[p] <= 2 * done[r] + 1
  BY <1>1, <1>4, <1>5, Counted
<1>7. done[p] = done[r] /\ Running(p)
  BY <1>1, <1>4, <1>6, Entered
<1> QED
  BY <1>7 DEF Input

\* A rank that adds up its slots finds the input of its own call in each.
LEMMA SlotRead ==
  ASSUME SyncedInv, SyncedPlans, WideCounter, NEW r \in Ranks, NEW p \in Ranks,
         At(r, "read slots")
  PROVE  scratch[r][0][p].sum = {<<p, done[r]>>}
<1>1. TypeInv /\ IInv /\ Counting /\ InOrOut /\ Pushed
  BY DEF SyncedInv, IInv, ScratchInv
<1>2. Running(r) /\ Writes(r) /\ pc[r] = 3
  BY <1>1, StepsAt DEF Writes
<1>3. waiting[r] = "none"
  BY <1>1, OutsideBarriers DEF StepNames, Arrays
<1>4. left[r] = 2 * done[r] + 1 /\ done[r] \in Nat
  <2>1. pc[r] \in {2, 3} /\ (pc[r] = 3 <=> Writes(r))
    BY ONLY <1>2
  <2>2. Passed(r) = 1
    BY ONLY <2>1 DEF Passed
  <2> QED
    BY <1>1, <2>2, Counted
<1>5. \A q \in Ranks : left[q] <= left[r] /\ left[r] <= entered[q]
  BY <1>1, <1>3, Together
<1>6. NobodyBeyond(2 * done[r] + 1)
  BY <1>4, <1>5 DEF NobodyBeyond
<1>7. done[p] = done[r] /\ Running(p) /\ (Writes(p) => pc[p] >= 2) /\ pc[p] \in 0..7
  <2>1. entered[p] >= 2 * done[r] + 1 /\ left[p] <= 2 * done[r] + 1
    BY <1>1, <1>4, <1>5, Counted
  <2> QED
    BY <1>1, <1>4, <2>1, Entered, Counted
<1>8. done[r] \in 0..(Len(plan) - 1) /\ Kind(done[r]) = "write" /\ Writes(p)
  BY <1>1, <1>2, <1>7, SyncedCall DEF Writes
<1>9. DoneFor(p, r, done[r], 1)
  <2>1. pc[p] >= 2 /\ pc[p] \in 0..7
    BY <1>7, <1>8
  <2>2. pc[p] > 1
    BY ONLY <2>1
  <2> QED
    BY <1>7, <2>2 DEF DoneFor
<1> QED
  BY <1>1, <1>6, <1>8, <1>9 DEF Pushed

\* After its call's second barrier a rank finds that every peer has entered it, and
\* that nobody has left a third.
LEMMA AfterBoth ==
  ASSUME SyncedInv, SyncedPlans, WideCounter, NEW r \in Ranks,
         Running(r), waiting[r] = "none", pc[r] > (IF Writes(r) THEN 5 ELSE 4)
  PROVE  /\ NobodyBeyond(2 * done[r] + 2) /\ done[r] \in Nat
         /\ \A p \in Ranks :
              \/ done[p] > done[r]
              \/ /\ done[p] = done[r] /\ Running(p) /\ pc[p] \in 0..7
                 /\ Writes(p) <=> Writes(r)
                 /\ pc[p] >= (IF Writes(p) THEN 5 ELSE 4)
<1>1. TypeInv /\ IInv /\ Counting /\ InOrOut
  BY DEF SyncedInv, IInv
<1>2. Passed(r) = 2
  BY <1>1, Counted DEF Passed
<1>3. left[r] = 2 * done[r] + 2 /\ done[r] \in Nat
  BY <1>1, <1>2, Counted
<1>4. \A q \in Ranks : left[q] <= left[r] /\ left[r] <= entered[q]
  BY <1>1, Together
<1>5. NobodyBeyond(2 * done[r] + 2)
  BY <1>3, <1>4 DEF NobodyBeyond
<1>6. ASSUME NEW p \in Ranks, ~(done[p] > done[r])
      PROVE  /\ done[p] = done[r] /\ Running(p) /\ pc[p] \in 0..7
             /\ Writes(p) <=> Writes(r)
             /\ pc[p] >= (IF Writes(p) THEN 5 ELSE 4)
  <2>1. entered[p] >= 2 * done[r] + 2
    BY <1>3, <1>4
  <2>2. /\ done[p] = done[r] /\ Running(p) /\ pc[p] >= (IF Writes(p) THEN 5 ELSE 4)
    BY <1>1, <1>3, <1>6, <2>1, Entered
  <2>3. Writes(p) <=> Writes(r)
    BY <2>2 DEF Writes, Call
  <2>4. pc[p] \in 0..7
    BY <1>1, Counted
  <2> QED
    BY <2>2, <2>3, <2>4
<1> QED
  BY <1>3, <1>5, <1>6

\* What a rank gathers, or loads, is the total of its own call.
LEMMA TotalRead ==
  ASSUME SyncedInv, SyncedPlans, WideCounter, NEW r \in Ranks, NEW p \in Ranks
  PROVE  /\ At(r, "gather") => scratch[p][0][First].sum = Total(done[r])
         /\ At(r, "load") => scratch[r][0][p].sum = Total(done[r])
         /\ At(r, "load high") => scratch[r][1][p].sum = Total(done[r])
<1>1. TypeInv /\ Counting /\ ScratchInv
  BY DEF SyncedInv
<1>2. CASE At(r, "gather")
  <2>1. Running(r) /\ Call(r) = "two" /\ pc[r] = 5 /\ waiting[r] = "none"
    BY <1>1, <1>2, StepsAt, OutsideBarriers DEF StepNames, Arrays
  <2>2. ~Writes(r) /\ pc[r] > (IF Writes(r) THEN 5 ELSE 4)
    BY <2>1 DEF Writes
  <2>3. NobodyBeyond(2 * done[r] + 2) /\ Reached(p, done[r], 4)
    BY <2>1, <2>2, AfterBoth DEF Reached
  <2>4. done[r] \in 0..(Len(plan) - 1) /\ Kind(done[r]) = "two"
    BY <1>1, <2>1, SyncedCall
  <2>5. ~At(r, "load") /\ ~At(r, "load high")
    BY <1>2 DEF At
  <2> QED
    BY <1>1, <2>3, <2>4, <2>5 DEF ScratchInv, Kept
<1>3. CASE At(r, "load")
  <2>1. Running(r) /\ Call(r) = "fused" /\ pc[r] = 5 /\ waiting[r] = "none"
    BY <1>1, <1>3, StepsAt, OutsideBarriers DEF StepNames, Arrays
  <2>2. ~Writes(r) /\ pc[r] > (IF Writes(r) THEN 5 ELSE 4)
    BY <2>1 DEF Writes
  <2>3. NobodyBeyond(2 * done[r] + 2) /\ DoneFor(p, r, done[r], 3)
    BY <2>1, <2>2, AfterBoth DEF DoneFor
  <2>4. done[r] \in 0..(Len(plan) - 1) /\ Kind(done[r]) = "fused"
    BY <1>1, <2>1, SyncedCall
  <2>5. ~At(r, "gather") /\ ~At(r, "load high")
    BY <1>3 DEF At
  <2> QED
    BY <1>1, <2>3, <2>4, <2>5 DEF ScratchInv, Stored
<1>4. CASE At(r, "load high")
  <2>1. Running(r) /\ Call(r) = "write" /\ pc[r] = 6 /\ waiting[r] = "none"
    BY <1>1, <1>4, StepsAt, OutsideBarriers DEF StepNames, Arrays
  <2>2. Writes(r) /\ pc[r] > (IF Writes(r) THEN 5 ELSE 4)
    BY <2>1 DEF Writes
  <2>3. NobodyBeyond(2 * done[r] + 2) /\ DoneFor(p, r, done[r], 4)
    BY <2>1, <2>2, AfterBoth DEF DoneFor
  <2>4. done[r] \in 0..(Len(plan) - 1) /\ Kind(done[r]) = "write"
    BY <1>1, <2>1, SyncedCall
  <2>5. ~At(r, "gather") /\ ~At(r, "load")
    BY <1>4 DEF At
  <2> QED
    BY <1>1, <2>3, <2>4, <2>5 DEF ScratchInv, StoredHigh
<1> QED
  BY <1>2, <1>3, <1>4

\* When a rank finishes a call, every rank has made it.
LEMMA AllHaveMade ==
  ASSUME SyncedInv, SyncedPlans, WideCounter, NEW r \in Ranks, Running(r), Over(r)
  PROVE  \A p \in Ranks : done[p] + (IF Running(p) THEN 1 ELSE 0) > done[r]
<1>1. TypeInv /\ Counting /\ InOrOut
  BY DEF SyncedInv, IInv
<1>2. waiting[r] = "none" /\ pc[r] \in 0..7
  BY <1>1, OutsideBarriers, Counted
<1>3. pc[r] > (IF Writes(r) THEN 5 ELSE 4)
  <2>1. Call(r) \in Synced
    BY <1>1, SyncedCall
  <2>2. CASE Call(r) = "write"
    <3>1. pc[r] > 6 /\ Writes(r)
      BY <2>2, OverAt DEF Writes
    <3> QED
      BY <3>1, <1>2
  <2>3. CASE Call(r) # "write"
    <3>1. pc[r] > 4 \/ pc[r] > 5
      BY <2>1, <2>3, OverAt DEF Synced
    <3>2. ~Writes(r)
      BY <2>3 DEF Writes
    <3> QED
      BY <3>1, <3>2, <1>2
  <2> QED
    BY <2>2, <2>3
<1>4. SUFFICES ASSUME NEW p \in Ranks
               PROVE  done[p] + (IF Running(p) THEN 1 ELSE 0) > done[r]
  OBVIOUS
<1>5. done[p] > done[r] \/ (done[p] = done[r] /\ Running(p))
  BY <1>2, <1>3, AfterBoth
<1>6. done[p] \in Nat /\ done[r] \in Nat
  BY <1>1, Counted
<1> QED
  BY <1>5, <1>6

-----------------------------------------------------------------------------
\* What a step of rank r does to its own place.
Begins(r) ==
  /\ ~Running(r) /\ pc'[r] = 1 /\ handled'[r] = handled[r]
  /\ left'[r] = left[r] /\ waiting'[r] = waiting[r] /\ done'[r] = done[r]
Enters(r) ==
  /\ \E a \in Arrays : At(r, a) /\ waiting'[r] = a
  /\ pc'[r] = pc[r] /\ left'[r] = left[r] /\ done'[r] = done[r] /\ handled'[r] = handled[r]
Leaves(r) ==
  /\ At(r, "start") \/ At(r, "end")
  /\ waiting'[r] = "none" /\ pc'[r] = pc[r] + 1 /\ left'[r] = left[r] + 1
  /\ done'[r] = done[r] /\ handled'[r] = handled[r]
Works(r) ==
  /\ \E step \in StepNames \ Arrays : At(r, step)
  /\ pc'[r] = pc[r] \/ (pc'[r] = pc[r] + 1 /\ handled'[r] = {})
  /\ left'[r] = left[r] /\ waiting'[r] = waiting[r] /\ done'[r] = done[r]
Finishes(r) ==
  /\ Running(r) /\ Over(r) /\ pc'[r] = 0 /\ done'[r] = done[r] + 1
  /\ left'[r] = left[r] /\ waiting'[r] = waiting[r] /\ handled'[r] = handled[r]

\* Every step is of one of these forms.  A step that r takes as a whole starts
\* and ends with no peer handled.
LEMMA Moves ==
  ASSUME TypeInv, HandledInStep, NEW r \in Ranks, Rank(r)
  PROVE  plan' = plan /\ (Begins(r) \/ Enters(r) \/ Leaves(r) \/ Works(r) \/ Finishes(r))
<1>1. /\ pc \in [Ranks -> 0..7] /\ done \in [Ranks -> 0..MaxCalls]
      /\ left \in [Ranks -> Nat] /\ waiting \in [Ranks -> Arrays \cup {"none"}]
      /\ handled \in [Ranks -> SUBSET Ranks]
  BY DEF TypeInv, TypeOK, BarrierTypes
<1>2. CASE Begin(r)
  BY <1>1, <1>2 DEF Begin, barrierVars, Begins
<1>3. CASE EnterBarrier(r)
  BY <1>1, <1>3 DEF EnterBarrier, Enter, kernelVars, Enters
<1>4. CASE LeaveBarrier(r)
  BY <1>1, <1>4 DEF LeaveBarrier, Leave, Leaves, Arrays
<1>5. ASSUME NEW step \in {"keep", "output"}, At(r, step), pc' = [pc EXCEPT ![r] = @ + 1],
             UNCHANGED <<plan, done, barrierVars, handled>>
      PROVE  plan' = plan /\ Works(r)
  <2>1. handled[r] = {}
    <3>1. ASSUME NEW other \in Sharing, At(r, other) PROVE FALSE
      BY <1>5, <3>1 DEF At, Sharing
    <3> QED
      BY <3>1 DEF HandledInStep
  <2>2. step \in StepNames \ Arrays
    BY DEF StepNames, Arrays
  <2> QED
    BY <1>1, <1>5, <2>1, <2>2 DEF Works, barrierVars
<1>6. CASE Keep(r) \/ Output(r)
  BY <1>5, <1>6 DEF Keep, Output
<1>7. CASE Finish(r)
  BY <1>1, <1>7 DEF Finish, Finishes, barrierVars
<1>8. ASSUME NEW p \in Ranks, Work(r, p) PROVE plan' = plan /\ Works(r)
  <2>1. PICK step \in StepNames \ Arrays : Thread(r, p, step)
    BY <1>8 DEF Work, ReadInput, Gather, Store, Load, Push, ReadSlot, StoreHigh, LoadHigh,
                Send, Poll, StepNames, Arrays
  <2> QED
    BY <1>1, <2>1 DEF Thread, barrierVars, Works
<1> QED
  BY <1>2, <1>3, <1>4, <1>6, <1>7, <1>8 DEF Rank

\* A step of r leaves what belongs to the other ranks alone, but for the scratch.
LEMMA Frame ==
  ASSUME TypeInv, NEW r \in Ranks, Rank(r), NEW q \in Ranks, q # r
  PROVE  /\ plan' = plan /\ done'[q] = done[q] /\ pc'[q] = pc[q] /\ handled'[q] = handled[q]
         /\ sum'[q] = sum[q] /\ out'[q] = out[q] /\ result'[q] = result[q]
         /\ left'[q] = left[q] /\ waiting'[q] = waiting[q]
<1>1. /\ pc \in [Ranks -> 0..7] /\ done \in [Ranks -> 0..MaxCalls]
      /\ left \in [Ranks -> Nat] /\ waiting \in [Ranks -> Arrays \cup {"none"}]
      /\ handled \in [Ranks -> SUBSET Ranks]
      /\ sum \in [Ranks -> Sums] /\ out \in [Ranks -> SUBSET Sums]
      /\ result \in [Ranks -> SUBSET Sums]
  BY DEF TypeInv, TypeOK, BarrierTypes
<1>2. CASE Begin(r) \/ EnterBarrier(r) \/ LeaveBarrier(r)
  BY <1>1, <1>2 DEF Begin, EnterBarrier, Enter, LeaveBarrier, Leave, barrierVars, kernelVars
<1>3. CASE Keep(r) \/ Output(r) \/ Finish(r)
  BY <1>1, <1>3 DEF Keep, Output, Finish, Put, Show, barrierVars
<1>4. ASSUME NEW p \in Ranks, Work(r, p)
      PROVE  /\ plan' = plan /\ done'[q] = done[q] /\ pc'[q] = pc[q] /\ handled'[q] = handled[q]
             /\ sum'[q] = sum[q] /\ out'[q] = out[q] /\ result'[q] = result[q]
             /\ left'[q] = left[q] /\ waiting'[q] = waiting[q]
  <2>1. \E step \in StepNames : Thread(r, p, step)
    BY <1>4 DEF Work, ReadInput, Gather, Store, Load, Push, ReadSlot, StoreHigh, LoadHigh,
                Send, Poll, StepNames
  <2>2. /\ plan' = plan /\ done'[q] = done[q] /\ pc'[q] = pc[q] /\ handled'[q] = handled[q]
        /\ result'[q] = result[q] /\ left'[q] = left[q] /\ waiting'[q] = waiting[q]
    BY <1>1, <2>1 DEF Thread, barrierVars
  <2>3. sum'[q] = sum[q] /\ out'[q] = out[q]
    BY <1>1, <1>4 DEF Work, ReadInput, Gather, Store, Load, Push, ReadSlot, StoreHigh, LoadHigh,
                      Send, Poll, Add, Show, Put
  <2> QED
    BY <2>2, <2>3
<1> QED
  BY <1>2, <1>3, <1>4 DEF Rank

\* So it leaves their places alone.
LEMMA FramePlaces ==
  ASSUME TypeInv, NEW r \in Ranks, Rank(r), NEW q \in Ranks, q # r
  PROVE  /\ \A step : At(q, step)' <=> At(q, step)
         /\ Running(q)' <=> Running(q)
         /\ Writes(q)' <=> Writes(q)
         /\ Over(q)' <=> Over(q)
         /\ Call(q)' = Call(q)
         /\ Passed(q)' = Passed(q) /\ Adding(q)' = Adding(q)
BY Frame DEF At, Running, Over, Call, Writes, Passed, Adding

\* While r stays in its call, so do the kind of call it runs and its steps.
LEMMA SameCallPlaces ==
  ASSUME TypeInv, NEW r \in Ranks, plan' = plan, done'[r] = done[r]
  PROVE  /\ Call(r)' = Call(r)
         /\ pc'[r] = pc[r] => \A step : At(r, step)' <=> At(r, step)
         /\ pc[r] > 0 /\ pc'[r] > 0 => (Writes(r)' <=> Writes(r))
BY DEF At, Running, Over, Call, Writes

\* A step takes a rank past a barrier exactly if it leaves one.
LEMMA CountingStep ==
  ASSUME TypeInv, SyncedPlans, Counting, InOrOut, HandledInStep, NEW r \in Ranks, Rank(r)
  PROVE  Counting'
<1>1. ASSUME NEW q \in Ranks, q # r PROVE CountsOf(q)'
  <2>1. CountsOf(q) /\ left'[q] = left[q] /\ done'[q] = done[q] /\ waiting'[q] = waiting[q]
    BY <1>1, Frame DEF Counting
  <2>2. Passed(q)' = Passed(q) /\ \A step : At(q, step)' <=> At(q, step)
    BY <1>1, FramePlaces
  <2>3. At(q, waiting[q])' <=> At(q, waiting[q])
    BY <1>1, <2>1, Frame DEF At, Running, Over, Call
  <2> QED
    BY <2>1, <2>2, <2>3 DEF CountsOf
<1>2. /\ left[r] = 2 * done[r] + Passed(r) /\ Passed(r) \in 0..2
      /\ done[r] \in Nat /\ pc[r] \in 0..7
  BY Counted
<1>3. plan' = plan
  BY Moves
<1>4. CASE Begins(r)
  <2>1. waiting[r] = "none" /\ waiting'[r] = "none" /\ pc[r] = 0 /\ pc'[r] = 1
        /\ left'[r] = left[r] /\ done'[r] = done[r]
    BY <1>2, <1>4, OutsideBarriers DEF Begins, Running
  <2>2. Passed(r) = 0 /\ Passed(r)' = 0
    BY <2>1 DEF Passed
  <2> QED
    BY <1>1, <1>2, <2>1, <2>2 DEF Counting, CountsOf
<1>5. CASE Enters(r)
  <2>1. PICK a \in Arrays : At(r, a) /\ waiting'[r] = a
    BY <1>5 DEF Enters
  <2>2. pc'[r] = pc[r] /\ left'[r] = left[r] /\ done'[r] = done[r]
    BY <1>5 DEF Enters
  <2>3. At(r, waiting[r])' /\ Passed(r)' = Passed(r)
    BY <1>3, <2>1, <2>2 DEF At, Over, Call, Passed, Writes, Running
  <2>4. CountsOf(r)'
    BY <1>2, <2>2, <2>3 DEF CountsOf
  <2> QED
    BY <1>1, <2>4 DEF Counting
<1>6. CASE Leaves(r)
  <2>1. Running(r) /\ IF Writes(r) THEN pc[r] \in {2, 5} ELSE pc[r] \in {1, 4}
    BY <1>6, StepsAt DEF Leaves, Writes
  <2>2. (Writes(r)' <=> Writes(r)) /\ pc'[r] = pc[r] + 1
    <3>1. pc'[r] = pc[r] + 1 /\ done'[r] = done[r] /\ pc[r] > 0
      BY <1>6, <2>1 DEF Leaves, Running
    <3>2. pc'[r] > 0
      BY <3>1, <1>2
    <3> QED
      BY <3>1, <3>2, <1>3, SameCallPlaces
  <2>3. Passed(r)' = Passed(r) + 1
    BY ONLY <1>2, <2>1, <2>2 DEF Passed
  <2>4. left'[r] = left[r] + 1 /\ done'[r] = done[r] /\ waiting'[r] = "none"
    BY <1>6 DEF Leaves
  <2>5. left'[r] = 2 * done'[r] + Passed(r)'
    BY ONLY <1>2, <2>3, <2>4
  <2> QED
    BY <1>1, <2>4, <2>5 DEF Counting, CountsOf
<1>7. CASE Works(r)
  <2>1. waiting[r] = "none"
    BY <1>7, OutsideBarriers DEF Works
  <2>2. PICK step \in StepNames \ Arrays : At(r, step)
    BY <1>7 DEF Works
  <2>3. Running(r) /\ IF Writes(r) THEN pc[r] \in {1, 3, 4, 6} ELSE pc[r] \in {2, 3, 5}
    BY <2>2, StepsAt DEF StepNames, Arrays, Writes
  <2>4. /\ pc'[r] = pc[r] \/ pc'[r] = pc[r] + 1
        /\ left'[r] = left[r] /\ done'[r] = done[r] /\ waiting'[r] = "none"
    BY <1>7, <2>1 DEF Works
  <2>5. Writes(r)' <=> Writes(r)
    <3>1. pc[r] > 0
      BY <2>3 DEF Running
    <3>2. pc'[r] > 0
      BY <3>1, <2>4, <1>2
    <3> QED
      BY <3>1, <3>2, <2>4, <1>3, SameCallPlaces
  <2>6. Passed(r)' = Passed(r)
    BY ONLY <1>2, <2>3, <2>4, <2>5 DEF Passed
  <2> QED
    BY <1>1, <1>2, <2>4, <2>6 DEF Counting, CountsOf
<1>8. CASE Finishes(r)
  <2>1. waiting[r] = "none" /\ Running(r) /\ Over(r) /\ Call(r) \in Synced
    BY <1>8, OutsideBarriers, SyncedCall DEF Finishes
  <2>2. IF Writes(r) THEN pc[r] > 6 ELSE pc[r] > 4
    <3>1. CASE Call(r) = "write"
      BY <2>1, <3>1, OverAt DEF Writes
    <3>2. CASE Call(r) # "write"
      <4>1. (pc[r] > 4 \/ pc[r] > 5) /\ ~Writes(r)
        BY <2>1, <3>2, OverAt DEF Writes, Synced
      <4> QED
        BY <4>1, <1>2
    <3> QED
      BY <3>1, <3>2
  <2>3. Passed(r) = 2
    BY ONLY <1>2, <2>2 DEF Passed
  <2>4. pc'[r] = 0 /\ done'[r] = done[r] + 1 /\ left'[r] = left[r] /\ waiting'[r] = "none"
    BY <1>8, <2>1 DEF Finishes
  <2>5. Passed(r)' = 0
    BY <2>4 DEF Passed
  <2>6. left'[r] = 2 * done'[r] + Passed(r)'
    BY ONLY <1>2, <2>3, <2>4, <2>5
  <2> QED
    BY <1>1, <2>4, <2>6 DEF Counting, CountsOf
<1> QED
  BY <1>4, <1>5, <1>6, <1>7, <1>8, Moves

\* A rank has handled peers only in a step that its threads share.
LEMMA HandledStep ==
  ASSUME TypeInv, SyncedPlans, HandledInStep, NEW r \in Ranks, Rank(r)
  PROVE  HandledInStep'
<1>1. \A q \in Ranks : q # r /\ handled'[q] # {} => \E step \in Sharing : At(q, step)'
  BY Frame, FramePlaces DEF HandledInStep
<1>2. plan' = plan
  BY Moves
<1>3. ASSUME \/ handled'[r] = {}
             \/ \E step \in Sharing : At(r, step) /\ pc'[r] = pc[r] /\ done'[r] = done[r]
      PROVE  HandledInStep'
  <2>1. handled'[r] # {} => \E step \in Sharing : At(r, step)'
    BY <1>2, <1>3, SameCallPlaces
  <2> QED
    BY <1>1, <2>1 DEF HandledInStep
<1>4. ASSUME NEW a \in {"start", "end", "keep", "output"}, At(r, a) PROVE handled[r] = {}
  BY <1>4 DEF HandledInStep, At, Sharing
<1>5. ASSUME ~Running(r) \/ Over(r) PROVE handled[r] = {}
  BY <1>5 DEF HandledInStep, At
<1>6. CASE Begin(r) \/ Finish(r)
  <2>1. handled' = handled /\ (~Running(r) \/ Over(r))
    BY <1>6 DEF Begin, Finish
  <2> QED
    BY <1>3, <1>5, <2>1
<1>7. CASE EnterBarrier(r) \/ LeaveBarrier(r) \/ Keep(r) \/ Output(r)
  <2>1. handled' = handled /\ \E a \in {"start", "end", "keep", "output"} : At(r, a)
    BY <1>7 DEF EnterBarrier, LeaveBarrier, Keep, Output, kernelVars, Arrays
  <2> QED
    BY <1>3, <1>4, <2>1
<1>8. ASSUME NEW p \in Ranks, Work(r, p) PROVE HandledInStep'
  <2>1. PICK step \in Sharing \cup {"send", "poll"} : Thread(r, p, step)
    BY <1>8 DEF Work, ReadInput, Gather, Store, Load, Push, ReadSlot, StoreHigh, LoadHigh,
                Send, Poll, Sharing
  <2>2. step \in Sharing
    BY <2>1, StepsAt DEF Thread
  <2>3. handled'[r] = {} \/ (pc'[r] = pc[r] /\ done'[r] = done[r] /\ At(r, step))
    BY <2>1 DEF Thread, TypeInv, TypeOK
  <2> QED
    BY <1>3, <2>2, <2>3
<1> QED
  BY <1>6, <1>7, <1>8 DEF Rank

\* What a thread step does to the place of its rank.
LEMMA ThreadMoves ==
  ASSUME TypeInv, NEW r \in Ranks, NEW p \in Ranks, NEW step, Thread(r, p, step)
  PROVE  /\ plan' = plan /\ done'[r] = done[r] /\ At(r, step) /\ p \notin handled[r]
         /\ \/ pc'[r] = pc[r] /\ handled'[r] = handled[r] \cup {p}
            \/ pc'[r] = pc[r] + 1 /\ handled'[r] = {} /\ handled[r] \cup {p} = Ranks
BY DEF Thread, TypeInv, TypeOK

\* A rank adds up the inputs of its call, one from each peer.
LEMMA TotalsStep ==
  ASSUME SyncedInv, SyncedPlans, WideCounter, NEW r \in Ranks, Rank(r)
  PROVE  Totals'
<1>1. TypeInv /\ Counting /\ HandledInStep /\ Totals
  BY DEF SyncedInv
<1>2. ASSUME NEW q \in Ranks, q # r PROVE TotalsOf(q)'
  <2>1. /\ TotalsOf(q) /\ sum'[q] = sum[q] /\ done'[q] = done[q] /\ pc'[q] = pc[q]
        /\ handled'[q] = handled[q] /\ Adding(q)' = Adding(q)
    BY <1>1, <1>2, Frame, FramePlaces DEF Totals
  <2> QED
    BY <2>1 DEF TotalsOf
<1>3. SUFFICES TotalsOf(r)'
  BY <1>2 DEF Totals
<1>4. /\ sum[r] = Contributions(IF pc[r] < Adding(r) THEN {}
                                ELSE IF pc[r] = Adding(r) THEN handled[r] ELSE Ranks, done[r])
      /\ pc[r] \in 0..7 /\ Adding(r) \in {2, 3} /\ (Adding(r) = 3 <=> Writes(r))
  BY <1>1 DEF Totals, TotalsOf, Adding, TypeInv, TypeOK
<1>5. plan' = plan
  BY <1>1, Moves
<1>5a. pc[r] \in 0..7 /\ Adding(r) \in {2, 3} /\ (Adding(r) = 3 <=> Writes(r))
  BY <1>4
<1>6. ASSUME sum'[r] = sum[r], done'[r] = done[r],
             \/ pc[r] = 0 /\ pc'[r] = 1
             \/ pc[r] > 0 /\ pc'[r] = pc[r] /\ handled'[r] = handled[r]
             \/ /\ pc[r] > 0 /\ pc'[r] \in {pc[r], pc[r] + 1} /\ pc[r] # Adding(r)
                /\ pc'[r] = Adding(r) => handled'[r] = {}
      PROVE  TotalsOf(r)'
  <2>1. CASE pc[r] = 0 /\ pc'[r] = 1
    <3>1. pc[r] < Adding(r) /\ 1 < Adding(r)'
      BY <1>4, <2>1 DEF Adding
    <3> QED
      BY <1>4, <1>6, <2>1, <3>1 DEF TotalsOf
  <2>2. CASE pc[r] > 0
    <3>1. pc'[r] > 0
      BY <1>4, <1>6, <2>2
    <3>2. Adding(r)' = Adding(r)
      BY <1>5, <1>6, <2>2, <3>1, SameCallPlaces, <1>1 DEF Adding
    <3>3. CASE pc'[r] = pc[r] /\ handled'[r] = handled[r]
      BY <1>4, <1>6, <3>2, <3>3 DEF TotalsOf
    <3>4. CASE /\ pc'[r] \in {pc[r], pc[r] + 1} /\ pc[r] # Adding(r)
               /\ pc'[r] = Adding(r) => handled'[r] = {}
      <4>1. \/ pc[r] < Adding(r) /\ (pc'[r] < Adding(r) \/ pc'[r] = Adding(r))
            \/ pc[r] > Adding(r) /\ pc'[r] > Adding(r)
        BY <1>4, <3>4
      <4>2. CASE pc[r] > Adding(r) /\ pc'[r] > Adding(r)
        <5>1. ~(pc[r] < Adding(r)) /\ pc[r] # Adding(r) /\ ~(pc'[r] < Adding(r)) /\ pc'[r] # Adding(r)
          BY <1>4, <3>4, <4>2
        <5> QED
          BY <1>4, <1>6, <3>2, <5>1 DEF TotalsOf
      <4>3. CASE pc[r] < Adding(r) /\ pc'[r] < Adding(r)
        BY <1>4, <1>6, <3>2, <4>3 DEF TotalsOf
      <4>4. CASE pc[r] < Adding(r) /\ pc'[r] = Adding(r)
        <5>1. handled'[r] = {} /\ ~(pc'[r] < Adding(r))
          BY <1>4, <3>4, <4>4
        <5> QED
          BY <1>4, <1>6, <3>2, <4>4, <5>1 DEF TotalsOf
      <4> QED
        BY <4>1, <4>2, <4>3, <4>4
    <3> QED
      BY <1>6, <2>2, <3>3, <3>4, <1>4
  <2> QED
    BY <1>6, <2>1, <2>2
<1>7. ASSUME NEW p \in Ranks, Add(r, {<<p, done[r]>>}),
             Thread(r, p, "read inputs") \/ Thread(r, p, "read slots")
      PROVE  TotalsOf(r)'
  <2>1. pc[r] = Adding(r) /\ pc[r] > 0
    <3>1. At(r, "read inputs") \/ At(r, "read slots")
      BY <1>7 DEF Thread
    <3>2. \/ pc[r] = 2 /\ ~Writes(r)
          \/ pc[r] = 3 /\ Writes(r)
      BY <1>1, <3>1, StepsAt DEF Writes
    <3> QED
      BY <3>2, <1>5a
  <2>2. /\ done'[r] = done[r]
        /\ \/ pc'[r] = pc[r] /\ handled'[r] = handled[r] \cup {p}
           \/ pc'[r] = pc[r] + 1 /\ handled[r] \cup {p} = Ranks
    BY <1>1, <1>7, ThreadMoves
  <2>3. Adding(r)' = Adding(r)
    <3>1. pc'[r] > 0
      BY <1>5a, <2>1, <2>2
    <3> QED
      BY <1>1, <1>5, <2>1, <2>2, <3>1, SameCallPlaces DEF Adding
  <2>4. sum'[r] = sum[r] \cup {<<p, done[r]>>}
    BY <1>1, <1>7 DEF Add, TypeInv, TypeOK
  <2>5. sum[r] = Contributions(handled[r], done[r])
    <3>1. ~(pc[r] < Adding(r))
      BY <1>5a, <2>1
    <3> QED
      BY <1>4, <2>1, <3>1
  <2>6. sum'[r] = Contributions(handled[r] \cup {p}, done[r])
    BY <2>4, <2>5 DEF Contributions
  <2>7. CASE pc'[r] = pc[r]
    <3>1. ~(pc'[r] < Adding(r))
      BY <1>5a, <2>1, <2>7
    <3>2. pc'[r] # pc[r] + 1
      BY <1>5a, <2>7
    <3>3. handled'[r] = handled[r] \cup {p}
      BY <2>2, <3>2
    <3> QED
      BY <2>1, <2>2, <2>3, <2>6, <2>7, <3>1, <3>3 DEF TotalsOf
  <2>8. CASE pc'[r] # pc[r]
    <3>1. pc'[r] = pc[r] + 1 /\ handled[r] \cup {p} = Ranks
      BY <2>2, <2>8
    <3>2. ~(pc'[r] < Adding(r)) /\ pc'[r] # Adding(r)
      BY <1>5a, <2>1, <3>1
    <3> QED
      BY <2>2, <2>3, <2>6, <3>1, <3>2 DEF TotalsOf
  <2> QED
    BY <2>7, <2>8
<1>8. CASE Begin(r) \/ EnterBarrier(r)
  <2>1. CASE Begin(r)
    <3>1. sum' = sum /\ done' = done /\ pc'[r] = 1 /\ pc[r] = 0
      BY <1>4, <2>1, <1>1 DEF Begin, Running, TypeInv, TypeOK
    <3> QED
      BY <3>1, <1>6
  <2>2. CASE EnterBarrier(r)
    <3>1. sum' = sum /\ done' = done /\ pc' = pc /\ handled' = handled /\ pc[r] > 0
      BY <2>2 DEF EnterBarrier, kernelVars, At, Running
    <3> QED
      BY <3>1, <1>6
  <2> QED
    BY <1>8, <2>1, <2>2
<1>9. CASE LeaveBarrier(r)
  <2>1. At(r, "start") \/ At(r, "end")
    BY <1>9 DEF LeaveBarrier, Arrays
  <2>2. handled[r] = {}
    BY <1>1, <2>1 DEF HandledInStep, At, Sharing
  <2>3. pc[r] > 0 /\ pc[r] # Adding(r)
    <3>1. \/ pc[r] \in {1, 4} /\ ~Writes(r)
          \/ pc[r] \in {2, 5} /\ Writes(r)
      BY <1>1, <2>1, StepsAt DEF Writes
    <3> QED
      BY <3>1, <1>5a
  <2>4. sum' = sum /\ done' = done /\ handled' = handled /\ pc'[r] = pc[r] + 1
    BY <1>9, <1>1 DEF LeaveBarrier, TypeInv, TypeOK
  <2> QED
    BY <1>6, <2>2, <2>3, <2>4
<1>10. CASE Keep(r) \/ Output(r)
  <2>1. At(r, "keep") \/ At(r, "output")
    BY <1>10 DEF Keep, Output
  <2>2. pc[r] = 3 /\ Adding(r) = 2
    BY <1>1, <2>1, StepsAt DEF Adding, Writes
  <2>3. sum' = sum /\ done' = done /\ pc'[r] = pc[r] + 1
    BY <1>10, <1>1 DEF Keep, Output, Put, Show, TypeInv, TypeOK
  <2>4. pc[r] > 0 /\ pc[r] # Adding(r) /\ pc'[r] # Adding(r)
    BY ONLY <2>2, <2>3
  <2> QED
    BY <1>6, <2>3, <2>4
<1>11. CASE Finish(r)
  <2>1. sum'[r] = {} /\ pc'[r] = 0
    BY <1>11, <1>1 DEF Finish, TypeInv, TypeOK
  <2>2. 0 < Adding(r)'
    BY DEF Adding
  <2> QED
    BY <2>1, <2>2 DEF TotalsOf, Contributions
<1>12. ASSUME NEW p \in Ranks, Work(r, p) PROVE TotalsOf(r)'
  <2>1. CASE ReadInput(r, p)
    <3>1. Thread(r, p, "read inputs") /\ Add(r, {<<p, done[r]>>})
      BY <2>1, InputRead DEF ReadInput, Thread
    <3> QED
      BY <3>1, <1>7
  <2>2. CASE ReadSlot(r, p)
    <3>1. Thread(r, p, "read slots") /\ Add(r, {<<p, done[r]>>})
      BY <2>2, SlotRead DEF ReadSlot, Thread
    <3> QED
      BY <3>1, <1>7
  <2>3. ASSUME \E step \in {"gather", "load", "store", "push", "store high", "load high"} :
                 Thread(r, p, step),
               sum' = sum
        PROVE  TotalsOf(r)'
    <3>1. pc[r] > 0 /\ IF Writes(r) THEN pc[r] \in {1, 4, 6} ELSE pc[r] \in {3, 5}
      <4>1. PICK step \in {"gather", "load", "store", "push", "store high", "load high"} :
              At(r, step)
        BY <2>3 DEF Thread
      <4> QED
        BY <1>1, <4>1, StepsAt DEF Writes, Running
    <3>2. pc[r] # Adding(r) /\ pc[r] + 1 # Adding(r)
      BY <3>1, <1>5a
    <3>3. pc'[r] \in {pc[r], pc[r] + 1} /\ done'[r] = done[r]
      BY <1>1, <2>3, ThreadMoves
    <3> QED
      BY <1>6, <2>3, <3>1, <3>2, <3>3
  <2>4. CASE Gather(r, p) \/ Load(r, p) \/ LoadHigh(r, p)
    BY <2>3, <2>4 DEF Gather, Load, LoadHigh, Show
  <2>5. CASE Store(r, p) \/ Push(r, p) \/ StoreHigh(r, p)
    BY <2>3, <2>5 DEF Store, Push, StoreHigh, Put
  <2>6. ~Send(r, p) /\ ~Poll(r, p)
    BY <1>1, StepsAt DEF Send, Poll, Thread
  <2> QED
    BY <1>12, <2>1, <2>2, <2>4, <2>5, <2>6 DEF Work
<1> QED
  BY <1>8, <1>9, <1>10, <1>11, <1>12 DEF Rank


\* The last step a call takes before its output is complete.
LastStep(r) == IF Call(r) = "one" THEN 3 ELSE IF Call(r) = "write" THEN 6 ELSE 5

\* A rank has its output when it is past that step.
LEMMA HasShownAt ==
  ASSUME TypeInv, SyncedPlans, NEW r \in Ranks, done[r] < Len(plan),
         plan' = plan, done'[r] = done[r], pc'[r] \in 0..7
  PROVE  /\ HasShown(r) <=> pc[r] > LastStep(r)
         /\ HasShown(r)' <=> pc'[r] > LastStep(r)
<1>1. Call(r) \in Synced
  <2>1. done[r] \in Nat /\ Len(plan) \in Nat
    BY SyncedKinds DEF TypeInv, TypeOK
  <2>2. done[r] \in 0..(Len(plan) - 1)
    BY <2>1
  <2> QED
    BY <2>2, SyncedKinds DEF Kind, Call
<1>2. /\ Call(r)' = Call(r) /\ pc[r] \in 0..7
      /\ Over(r) <=> pc[r] > Len(Steps[Call(r)])
      /\ Over(r)' <=> pc'[r] > Len(Steps[Call(r)])
  BY DEF Call, Over, TypeInv, TypeOK
<1>3. /\ Call(r) = "one" => Len(Steps[Call(r)]) = 4
      /\ Call(r) = "two" => Len(Steps[Call(r)]) = 5
      /\ Call(r) = "fused" => Len(Steps[Call(r)]) = 5
      /\ Call(r) = "write" => Len(Steps[Call(r)]) = 6
  BY StepCounts
<1>4. \A n \in 0..7 : (n > 3 <=> n > 0 /\ (n > 4 \/ n = 4)) /\ (n > 5 <=> n > 0 /\ n > 5)
                      /\ (n > 6 <=> n > 0 /\ n > 6)
  OBVIOUS
<1>5. CASE Call(r) = "one"
  <2>1. /\ HasShown(r) <=> pc[r] > 0 /\ (pc[r] > 4 \/ pc[r] = 4)
        /\ HasShown(r)' <=> pc'[r] > 0 /\ (pc'[r] > 4 \/ pc'[r] = 4)
    BY <1>2, <1>3, <1>5, Zenon DEF HasShown, Running
  <2> QED
    BY <1>2, <1>4, <1>5, <2>1 DEF LastStep
<1>6. CASE Call(r) = "two" \/ Call(r) = "fused"
  <2>1. /\ HasShown(r) <=> pc[r] > 0 /\ pc[r] > 5
        /\ HasShown(r)' <=> pc'[r] > 0 /\ pc'[r] > 5
    <3>1. Call(r) # "one" /\ Len(Steps[Call(r)]) = 5
      BY <1>3, <1>6
    <3> QED
      BY <1>2, <3>1, Zenon DEF HasShown, Running
  <2> QED
    BY <1>2, <1>4, <1>6, <2>1 DEF LastStep
<1>7. CASE Call(r) = "write"
  <2>1. /\ HasShown(r) <=> pc[r] > 0 /\ pc[r] > 6
        /\ HasShown(r)' <=> pc'[r] > 0 /\ pc'[r] > 6
    <3>1. Call(r) # "one" /\ Len(Steps[Call(r)]) = 6
      BY <1>3, <1>7
    <3> QED
      BY <1>2, <3>1, Zenon DEF HasShown, Running
  <2> QED
    BY <1>2, <1>4, <1>7, <2>1 DEF LastStep
<1> QED
  BY <1>1, <1>5, <1>6, <1>7 DEF Synced

\* What a rank shows is the total of its call.
LEMMA OutputsStep ==
  ASSUME SyncedInv, TypeInv', SyncedPlans, WideCounter, NEW r \in Ranks, Rank(r)
  PROVE  Outputs'
<1>1. TypeInv /\ Counting /\ HandledInStep /\ Totals /\ Outputs
  BY DEF SyncedInv
<1>2. ASSUME NEW q \in Ranks, q # r PROVE OutputsOf(q)'
  <2>1. /\ OutputsOf(q) /\ out'[q] = out[q] /\ done'[q] = done[q] /\ pc'[q] = pc[q]
        /\ (Running(q)' <=> Running(q)) /\ (Over(q)' <=> Over(q)) /\ Call(q)' = Call(q)
    BY <1>1, <1>2, Frame, FramePlaces DEF Outputs
  <2>2. HasShown(q)' <=> HasShown(q)
    BY <2>1 DEF HasShown
  <2> QED
    BY <2>1, <2>2 DEF OutputsOf, Total
<1>3. SUFFICES OutputsOf(r)'
  BY <1>2 DEF Outputs
<1>4. /\ out[r] \subseteq {Total(done[r])} /\ (HasShown(r) => out[r] # {})
      /\ pc[r] \in 0..7 /\ pc'[r] \in 0..7 /\ plan' = plan
  BY <1>1, Moves DEF Outputs, OutputsOf, TypeInv, TypeOK
<1>5. ASSUME done'[r] = done[r], done[r] < Len(plan), out'[r] = out[r],
             pc'[r] > LastStep(r) => pc[r] > LastStep(r)
      PROVE  OutputsOf(r)'
  <2>1. HasShown(r)' => HasShown(r)
    BY <1>1, <1>4, <1>5, HasShownAt
  <2> QED
    BY <1>4, <1>5, <2>1 DEF OutputsOf, Total
<1>6. ASSUME done'[r] = done[r], out' = [out EXCEPT ![r] = @ \cup {Total(done[r])}]
      PROVE  OutputsOf(r)'
  <2>1. out'[r] = out[r] \cup {Total(done[r])}
    BY <1>1, <1>6 DEF TypeInv, TypeOK
  <2>2. out'[r] \subseteq {Total(done[r])} /\ out'[r] # {}
    BY <1>4, <2>1
  <2>3. Total(done[r])' = Total(done[r])
    BY <1>6 DEF Total
  <2> QED
    BY <2>2, <2>3 DEF OutputsOf
<1>7. CASE Begin(r)
  <2>1. done'[r] = done[r] /\ done[r] < Len(plan) /\ out'[r] = out[r] /\ pc'[r] = 1
    BY <1>1, <1>7 DEF Begin, TypeInv, TypeOK
  <2>2. ~(pc'[r] > LastStep(r))
    BY <2>1 DEF LastStep
  <2> QED
    BY <1>5, <2>1, <2>2
<1>8. CASE EnterBarrier(r)
  <2>1. done'[r] = done[r] /\ out'[r] = out[r] /\ pc'[r] = pc[r] /\ Running(r)
    BY <1>8 DEF EnterBarrier, kernelVars, At
  <2>2. done[r] < Len(plan)
    BY <1>1, <2>1, CallTypes
  <2> QED
    BY <1>5, <2>1, <2>2
<1>9. CASE LeaveBarrier(r)
  <2>1. (At(r, "start") \/ At(r, "end")) /\ done'[r] = done[r] /\ out'[r] = out[r]
        /\ pc'[r] = pc[r] + 1
    BY <1>1, <1>9 DEF LeaveBarrier, Arrays, TypeInv, TypeOK
  <2>2. /\ Running(r)
        /\ \/ pc[r] \in {1, 4} /\ Call(r) # "write"
           \/ pc[r] \in {2, 5} /\ Call(r) = "write"
    BY <1>1, <2>1, StepsAt
  <2>3. LastStep(r) \in {3, 5, 6} /\ (LastStep(r) = 6 <=> Call(r) = "write")
    BY DEF LastStep
  <2>4. pc'[r] > LastStep(r) => pc[r] > LastStep(r)
    <3>1. pc[r] \in {1, 2, 4, 5} /\ (pc[r] \in {2, 5} <=> LastStep(r) = 6)
      BY <2>2, <2>3
    <3> QED
      BY ONLY <2>1, <2>3, <3>1
  <2>5. done[r] < Len(plan)
    BY <1>1, <2>2, CallTypes
  <2> QED
    BY <1>5, <2>1, <2>4, <2>5
<1>10. CASE Keep(r)
  <2>1. At(r, "keep") /\ done'[r] = done[r] /\ out'[r] = out[r] /\ pc'[r] = pc[r] + 1
    BY <1>1, <1>10 DEF Keep, Put, TypeInv, TypeOK
  <2>2. Running(r) /\ pc[r] = 3 /\ LastStep(r) = 5
    BY <1>1, <2>1, StepsAt DEF LastStep
  <2>3. done[r] < Len(plan) /\ ~(pc'[r] > LastStep(r))
    BY <1>1, <2>1, <2>2, CallTypes
  <2> QED
    BY <1>5, <2>1, <2>3
<1>11. CASE Output(r)
  <2>1. At(r, "output") /\ done'[r] = done[r] /\ out' = [out EXCEPT ![r] = @ \cup {sum[r]}]
    BY <1>11 DEF Output, Show
  <2>2. pc[r] = 3 /\ Adding(r) = 2
    BY <1>1, <2>1, StepsAt DEF Adding, Writes
  <2>3. ~(pc[r] < Adding(r)) /\ pc[r] # Adding(r)
    BY <2>2
  <2>4. sum[r] = Total(done[r])
    BY <1>1, <2>3 DEF Totals, TotalsOf, Contributions, Total
  <2> QED
    BY <1>6, <2>1, <2>4
<1>12. CASE Finish(r)
  <2>1. out'[r] = {} /\ pc'[r] = 0
    BY <1>1, <1>12 DEF Finish, TypeInv, TypeOK
  <2> QED
    BY <2>1 DEF OutputsOf, HasShown, Running
<1>13. ASSUME NEW p \in Ranks, Work(r, p) PROVE OutputsOf(r)'
  <2>1. CASE Gather(r, p) \/ Load(r, p) \/ LoadHigh(r, p)
    <3>1. /\ done'[r] = done[r]
          /\ \/ At(r, "gather") /\ Show(r, scratch[p][0][First].sum)
             \/ At(r, "load") /\ Show(r, scratch[r][0][p].sum)
             \/ At(r, "load high") /\ Show(r, scratch[r][1][p].sum)
      BY <2>1 DEF Gather, Load, LoadHigh, Thread
    <3>2. Show(r, Total(done[r]))
      BY <3>1, TotalRead
    <3> QED
      BY <1>6, <3>1, <3>2 DEF Show
  <2>2. ASSUME \E step \in {"read inputs", "store", "push", "read slots", "store high"} :
                 Thread(r, p, step),
               out' = out
        PROVE  OutputsOf(r)'
    <3>1. /\ Running(r) /\ LastStep(r) \in {3, 5, 6}
          /\ \/ pc[r] = 2
             \/ pc[r] = 3 /\ LastStep(r) = 5
             \/ pc[r] \in {1, 3, 4} /\ LastStep(r) = 6
      <4>1. PICK step \in {"read inputs", "store", "push", "read slots", "store high"} :
              At(r, step)
        BY <2>2 DEF Thread
      <4> QED
        BY <1>1, <4>1, StepsAt DEF LastStep
    <3>2. (pc'[r] = pc[r] \/ pc'[r] = pc[r] + 1) /\ done'[r] = done[r] /\ out'[r] = out[r]
      BY <1>1, <2>2, ThreadMoves
    <3>3. pc'[r] > LastStep(r) => pc[r] > LastStep(r)
      BY <3>1, <3>2
    <3>4. done[r] < Len(plan)
      BY <1>1, <3>1, CallTypes
    <3> QED
      BY <1>5, <3>2, <3>3, <3>4
  <2>3. CASE ReadInput(r, p) \/ ReadSlot(r, p)
    BY <2>2, <2>3 DEF ReadInput, ReadSlot, Add
  <2>4. CASE Store(r, p) \/ Push(r, p) \/ StoreHigh(r, p)
    BY <2>2, <2>4 DEF Store, Push, StoreHigh, Put
  <2>5. ~Send(r, p) /\ ~Poll(r, p)
    BY <1>1, StepsAt DEF Send, Poll, Thread
  <2> QED
    BY <1>13, <2>1, <2>3, <2>4, <2>5 DEF Work
<1> QED
  BY <1>7, <1>8, <1>9, <1>10, <1>11, <1>12, <1>13 DEF Rank

-----------------------------------------------------------------------------
\* A step that puts the sum s into a slot.
Puts(q, region, slot, s) == scratch' = [scratch EXCEPT ![q][region][slot] = Data(s)]

\* The slot then holds s, and every other one what it held.
LEMMA PutAt ==
  ASSUME TypeInv, NEW q \in Ranks, NEW region \in Regions, NEW slot \in Ranks, NEW s,
         Puts(q, region, slot, s),
         NEW p \in Ranks, NEW g \in Regions, NEW t \in Ranks
  PROVE  /\ p = q /\ g = region /\ t = slot => scratch'[p][g][t].sum = s
         /\ p # q \/ g # region \/ t # slot => scratch'[p][g][t].sum = scratch[p][g][t].sum
<1>1. scratch \in [Ranks -> [Regions -> [Ranks -> [flag : 0..(Epochs - 1), sum : Sums]]]]
  BY DEF TypeInv, TypeOK
<1>2. Data(s).sum = s
  BY DEF Data
<1> QED
  BY <1>1, <1>2 DEF Puts

\* What the steps that write to the scratch put there.
Keeping(w) == At(w, "keep") /\ Puts(w, 0, First, Total(done[w]))
Storing(w, q) == At(w, "store") /\ Puts(q, 0, w, Total(done[w]))
Pushing(w, q) == At(w, "push") /\ Puts(q, 0, w, {<<w, done[w]>>})
StoringHigh(w, q) == At(w, "store high") /\ Puts(q, 1, w, Total(done[w]))

\* No other step of a kernel that relies on barriers touches the scratch.
LEMMA Writings ==
  ASSUME SyncedInv, SyncedPlans, NEW w \in Ranks
  PROVE  /\ Keep(w) => Keeping(w)
         /\ \A q \in Ranks : /\ Store(w, q) => Storing(w, q)
                             /\ Push(w, q) => Pushing(w, q)
                             /\ StoreHigh(w, q) => StoringHigh(w, q)
         /\ Rank(w) => \/ scratch' = scratch
                       \/ Keeping(w)
                       \/ \E q \in Ranks : Storing(w, q) \/ Pushing(w, q) \/ StoringHigh(w, q)
<1>1. TypeInv /\ Totals
  BY DEF SyncedInv
<1>2. ASSUME At(w, "keep") \/ At(w, "store") \/ At(w, "store high")
      PROVE  sum[w] = Total(done[w])
  <2>1. (pc[w] = 3 /\ Adding(w) = 2) \/ (pc[w] = 4 /\ Adding(w) = 3)
    BY <1>1, <1>2, StepsAt DEF Adding, Writes
  <2>2. ~(pc[w] < Adding(w)) /\ pc[w] # Adding(w)
    BY <2>1
  <2> QED
    BY <1>1, <2>2 DEF Totals, TotalsOf, Contributions, Total
<1>3. At(w, "push") => Input(w) = {<<w, done[w]>>}
  BY DEF At, Input
<1>4. Keep(w) => Keeping(w)
  BY <1>2 DEF Keep, Put, Puts, Keeping
<1>5. ASSUME NEW q \in Ranks
      PROVE  /\ Store(w, q) => Storing(w, q)
             /\ Push(w, q) => Pushing(w, q)
             /\ StoreHigh(w, q) => StoringHigh(w, q)
  BY <1>2, <1>3 DEF Store, Push, StoreHigh, Thread, Put, Puts, Storing, Pushing, StoringHigh
<1>6. CASE Begin(w) \/ EnterBarrier(w) \/ LeaveBarrier(w) \/ Output(w) \/ Finish(w)
  <2>1. scratch' = scratch
    BY <1>6 DEF Begin, EnterBarrier, LeaveBarrier, Output, Show, Finish, kernelVars
  <2> QED
    BY <1>4, <1>5, <2>1
<1>7. ASSUME NEW q \in Ranks, Work(w, q)
      PROVE  scratch' = scratch \/ Store(w, q) \/ Push(w, q) \/ StoreHigh(w, q)
  <2>1. ~Send(w, q) /\ ~Poll(w, q)
    BY <1>1, StepsAt DEF Send, Poll, Thread
  <2> QED
    BY <1>7, <2>1 DEF Work, ReadInput, Gather, Load, ReadSlot, LoadHigh, Add, Show
<1> QED
  BY <1>4, <1>5, <1>6, <1>7 DEF Rank

\* Who writes to the scratch is in the call whose data others may still need, or,
\* if it pushes, in the next one.
LEMMA Overwriting ==
  ASSUME SyncedInv, SyncedPlans, WideCounter, NEW w \in Ranks, NEW p \in Ranks, NEW k \in Nat
  PROVE  /\ At(w, "keep") \/ At(w, "store") \/ At(w, "store high") =>
              /\ left[p] >= 2 * k + 1 /\ NobodyBeyond(2 * k + 2) => done[w] = k
              /\ left[p] >= 2 * k /\ NobodyBeyond(2 * k + 1) => done[w] = k
         /\ At(w, "push") =>
              /\ left[p] >= 2 * k + 1 /\ NobodyBeyond(2 * k + 2) => done[w] = k + 1
              /\ left[p] >= 2 * k /\ NobodyBeyond(2 * k + 1) => done[w] = k
<1>1. TypeInv /\ IInv /\ Counting /\ InOrOut
  BY DEF SyncedInv, IInv
<1>2. At(w, "keep") \/ At(w, "store") \/ At(w, "store high") \/ At(w, "push") =>
        left[p] <= left[w]
  BY <1>1, OutsideBarriers, Together DEF StepNames, Arrays
<1>3. done[w] \in Nat /\ left[p] \in Nat /\ left[w] = 2 * done[w] + Passed(w)
  BY <1>1, Counted DEF BarrierTypes, IInv
<1>4. (NobodyBeyond(2 * k + 2) => left[w] <= 2 * k + 2)
      /\ (NobodyBeyond(2 * k + 1) => left[w] <= 2 * k + 1)
  BY DEF NobodyBeyond
<1>5. ASSUME At(w, "keep") \/ At(w, "store") \/ At(w, "store high")
      PROVE  /\ left[p] >= 2 * k + 1 /\ NobodyBeyond(2 * k + 2) => done[w] = k
             /\ left[p] >= 2 * k /\ NobodyBeyond(2 * k + 1) => done[w] = k
  <2>1. (pc[w] = 3 /\ ~Writes(w)) \/ (pc[w] = 4 /\ Writes(w))
    BY <1>1, <1>5, StepsAt DEF Writes
  <2>2. Passed(w) = 1
    BY <2>1 DEF Passed
  <2>3. left[p] <= left[w]
    BY <1>2, <1>5
  <2> QED
    BY <1>3, <1>4, <2>2, <2>3
<1>6. ASSUME At(w, "push")
      PROVE  /\ left[p] >= 2 * k + 1 /\ NobodyBeyond(2 * k + 2) => done[w] = k + 1
             /\ left[p] >= 2 * k /\ NobodyBeyond(2 * k + 1) => done[w] = k
  <2>1. pc[w] = 1 /\ Writes(w)
    BY <1>1, <1>6, StepsAt DEF Writes
  <2>2. Passed(w) = 0
    BY <2>1 DEF Passed
  <2>3. left[p] <= left[w]
    BY <1>2, <1>6
  <2> QED
    BY <1>3, <1>4, <2>2, <2>3
<1> QED
  BY <1>5, <1>6

\* Who has written to the scratch in call k has left that call's first barrier;
\* who pushes to it, every barrier of the calls before.
LEMMA HasLeft ==
  ASSUME TypeInv, SyncedPlans, Counting, InOrOut, NEW p \in Ranks, NEW q \in Ranks, NEW k \in Nat
  PROVE  /\ Kind(k) = "two" /\ Reached(p, k, 4) => left[p] >= 2 * k + 1
         /\ Kind(k) = "fused" /\ DoneFor(p, q, k, 3) => left[p] >= 2 * k + 1
         /\ Kind(k) = "write" /\ DoneFor(p, q, k, 4) => left[p] >= 2 * k + 1
         /\ DoneFor(p, q, k, 1) => left[p] >= 2 * k
<1>1. done[p] \in Nat /\ pc[p] \in 0..7 /\ Passed(p) \in 0..2
      /\ left[p] = 2 * done[p] + Passed(p)
  BY Counted
<1>2. done[p] > k => left[p] >= 2 * k + 1 /\ left[p] >= 2 * k
  BY <1>1
<1>3. done[p] = k => left[p] >= 2 * k
  BY <1>1
<1>4. ASSUME done[p] = k, pc[p] >= (IF Kind(k) = "write" THEN 4 ELSE 3)
      PROVE  left[p] >= 2 * k + 1
  <2>1. (Writes(p) <=> Kind(k) = "write") /\ pc[p] >= 3
    BY <1>1, <1>4 DEF Writes, Running, Call, Kind
  <2>2. pc[p] >= (IF Writes(p) THEN 4 ELSE 3)
    BY <1>4, <2>1
  <2>3. Passed(p) \in 1..2
    BY <1>1, <2>2 DEF Passed
  <2> QED
    BY <1>1, <1>4, <2>3
<1>5. Kind(k) = "two" /\ Reached(p, k, 4) => left[p] >= 2 * k + 1
  <2>1. pc[p] >= 4 => pc[p] >= 3
    BY <1>1
  <2> QED
    BY <1>2, <1>4, <2>1 DEF Reached
<1>6. Kind(k) = "fused" /\ DoneFor(p, q, k, 3) => left[p] >= 2 * k + 1
  <2>1. pc[p] > 3 \/ pc[p] = 3 => pc[p] >= 3
    BY <1>1
  <2> QED
    BY <1>2, <1>4, <2>1 DEF DoneFor
<1>7. Kind(k) = "write" /\ DoneFor(p, q, k, 4) => left[p] >= 2 * k + 1
  <2>1. pc[p] > 4 \/ pc[p] = 4 => pc[p] >= 4
    BY <1>1
  <2> QED
    BY <1>2, <1>4, <2>1 DEF DoneFor
<1>8. DoneFor(p, q, k, 1) => left[p] >= 2 * k
  BY <1>2, <1>3 DEF DoneFor
<1> QED
  BY <1>5, <1>6, <1>7, <1>8

\* A step of w after which it has done its part for q of step n, and before which
\* it had not: step n itself, or the end of a call that has no more steps.
LEMMA PartDone ==
  ASSUME TypeInv, SyncedPlans, HandledInStep, NEW w \in Ranks, Rank(w), NEW q \in Ranks,
         NEW k \in Nat, NEW n \in 1..6, DoneFor(w, q, k, n)', ~DoneFor(w, q, k, n)
  PROVE  /\ done[w] = k /\ Running(w)
         /\ \/ Over(w) /\ pc[w] <= n
            \/ pc[w] = n /\ (LeaveBarrier(w) \/ Keep(w) \/ Output(w) \/ Work(w, q))
<1>1. /\ pc[w] \in 0..7 /\ done[w] \in Nat /\ handled[w] \subseteq Ranks /\ n \in 1..6
      /\ pc \in [Ranks -> 0..7] /\ done \in [Ranks -> 0..MaxCalls]
      /\ handled \in [Ranks -> SUBSET Ranks] /\ k \in Nat
  BY DEF TypeInv, TypeOK
<1>2. /\ ~(done[w] > k)
      /\ done[w] = k => ~(pc[w] > n) /\ ~(pc[w] = n /\ q \in handled[w])
  BY DEF DoneFor
<1>3. done'[w] > k \/ (done'[w] = k /\ (pc'[w] > n \/ (pc'[w] = n /\ q \in handled'[w])))
  BY DEF DoneFor
<1>4. ASSUME ~Running(w) \/ Over(w) \/ At(w, "start") \/ At(w, "end") \/ At(w, "keep")
               \/ At(w, "output")
      PROVE  handled[w] = {}
  BY <1>4 DEF HandledInStep, At, Sharing
<1>5. CASE Begin(w)
  <2>1. ~Running(w) /\ pc'[w] = 1 /\ done'[w] = done[w] /\ handled'[w] = handled[w]
    BY <1>1, <1>5 DEF Begin
  <2>2. handled'[w] = {} /\ ~(pc'[w] > n)
    BY <1>1, <1>4, <2>1
  <2> QED
    BY <1>2, <1>3, <2>1, <2>2
<1>6. CASE EnterBarrier(w)
  <2>1. pc'[w] = pc[w] /\ done'[w] = done[w] /\ handled'[w] = handled[w]
    BY <1>6 DEF EnterBarrier, kernelVars
  <2> QED
    BY <1>2, <1>3, <2>1
<1>7. CASE LeaveBarrier(w) \/ Keep(w) \/ Output(w)
  <2>1. At(w, "start") \/ At(w, "end") \/ At(w, "keep") \/ At(w, "output")
    BY <1>7 DEF LeaveBarrier, Keep, Output, Arrays
  <2>2. pc'[w] = pc[w] + 1 /\ done'[w] = done[w] /\ handled'[w] = {}
    BY <1>1, <1>4, <1>7, <2>1 DEF LeaveBarrier, Keep, Output
  <2>3. done[w] = k /\ pc'[w] > n /\ ~(pc[w] > n)
    BY <1>2, <1>3, <2>2
  <2>4. pc[w] = n
    BY <1>1, <2>2, <2>3
  <2> QED
    BY <1>7, <2>1, <2>3, <2>4 DEF At
<1>8. ASSUME NEW x \in Ranks, Work(w, x)
      PROVE  done[w] = k /\ Running(w) /\ pc[w] = n /\ x = q
  <2>1. PICK step : Thread(w, x, step)
    BY <1>8 DEF Work, ReadInput, Gather, Store, Load, Push, ReadSlot, StoreHigh, LoadHigh,
                Send, Poll
  <2>2. /\ done'[w] = done[w] /\ Running(w)
        /\ \/ pc'[w] = pc[w] /\ handled'[w] = handled[w] \cup {x}
           \/ pc'[w] = pc[w] + 1 /\ handled'[w] = {} /\ handled[w] \cup {x} = Ranks
    BY <2>1, ThreadMoves DEF At
  <2>3. done[w] = k /\ ~(pc[w] > n) /\ ~(pc[w] = n /\ q \in handled[w])
    BY <1>2, <1>3, <2>2
  <2>4. CASE pc'[w] = pc[w] /\ handled'[w] = handled[w] \cup {x}
    BY <1>3, <2>2, <2>3, <2>4
  <2>5. CASE pc'[w] = pc[w] + 1 /\ handled'[w] = {} /\ handled[w] \cup {x} = Ranks
    <3>1. pc'[w] > n
      BY <1>3, <2>2, <2>3, <2>5
    <3>2. pc[w] = n
      BY <1>1, <2>3, <2>5, <3>1
    <3> QED
      BY <2>2, <2>3, <2>5, <3>2
  <2> QED
    BY <2>2, <2>4, <2>5
<1>9. CASE Finish(w)
  <2>1. Running(w) /\ Over(w) /\ done'[w] = done[w] + 1 /\ pc'[w] = 0
    BY <1>1, <1>9 DEF Finish
  <2>2. done[w] = k
    <3>1. ~(pc'[w] > n) /\ pc'[w] # n
      BY <1>1, <2>1
    <3>2. done'[w] > k
      BY <1>3, <3>1
    <3> QED
      BY <1>1, <1>2, <2>1, <3>2
  <2>3. pc[w] <= n
    BY <1>1, <1>2, <2>2
  <2> QED
    BY <2>1, <2>2, <2>3
<1> QED
  BY <1>5, <1>6, <1>7, <1>8, <1>9 DEF Rank

\* In the step in which a rank comes to have written what others need of a call,
\* it writes that.
LEMMA WritesInStep ==
  ASSUME SyncedInv, SyncedPlans, NEW w \in Ranks, Rank(w), NEW q \in Ranks,
         NEW k \in 0..(Len(plan) - 1)
  PROVE  /\ Kind(k) = "two" /\ Reached(w, k, 4)' /\ ~Reached(w, k, 4) =>
              Keeping(w) /\ done[w] = k
         /\ Kind(k) = "fused" /\ DoneFor(w, q, k, 3)' /\ ~DoneFor(w, q, k, 3) =>
              Storing(w, q) /\ done[w] = k
         /\ Kind(k) = "write" /\ DoneFor(w, q, k, 1)' /\ ~DoneFor(w, q, k, 1) =>
              Pushing(w, q) /\ done[w] = k
         /\ Kind(k) = "write" /\ DoneFor(w, q, k, 4)' /\ ~DoneFor(w, q, k, 4) =>
              StoringHigh(w, q) /\ done[w] = k
<1>1. /\ TypeInv /\ HandledInStep /\ pc[w] \in 0..7 /\ k \in Nat
      /\ 1 \in 1..6 /\ 3 \in 1..6 /\ 4 \in 1..6
  BY DEF SyncedInv, TypeInv, TypeOK
<1>2. ASSUME done[w] = k, Running(w) PROVE Call(w) = Kind(k)
  BY <1>2 DEF Call, Kind
<1>3. ASSUME done[w] = k, Running(w), Over(w)
      PROVE  /\ Kind(k) \in {"two", "fused"} => pc[w] > 5
             /\ Kind(k) = "write" => pc[w] > 6
  BY <1>2, <1>3, OverAt
<1>4. /\ pc[w] > 5 => ~(pc[w] <= 3) /\ pc[w] >= 4
      /\ pc[w] > 6 => ~(pc[w] <= 1) /\ ~(pc[w] <= 4)
  BY <1>1
<1>5. /\ LeaveBarrier(w) => At(w, "start") \/ At(w, "end")
      /\ Keep(w) => At(w, "keep")
      /\ Output(w) => At(w, "output")
  BY DEF LeaveBarrier, Arrays, Keep, Output
<1>6. ASSUME Work(w, q)
      PROVE  \/ Store(w, q) \/ Push(w, q) \/ StoreHigh(w, q)
             \/ At(w, "read inputs") \/ At(w, "gather") \/ At(w, "load")
             \/ At(w, "read slots") \/ At(w, "load high")
  <2>1. ~Send(w, q) /\ ~Poll(w, q)
    BY <1>1, StepsAt DEF Send, Poll, Thread
  <2> QED
    BY <1>6, <2>1 DEF Work, ReadInput, Gather, Load, ReadSlot, LoadHigh, Thread
<1>7. /\ Store(w, q) => At(w, "store")
      /\ Push(w, q) => At(w, "push")
      /\ StoreHigh(w, q) => At(w, "store high")
  BY DEF Store, Push, StoreHigh, Thread
<1>8. ASSUME Kind(k) = "two", Reached(w, k, 4)', ~Reached(w, k, 4)
      PROVE  Keeping(w) /\ done[w] = k
  <2>1. ~DoneFor(w, First, k, 3) /\ DoneFor(w, First, k, 3)'
    <3>1. ~(done[w] > k) /\ (done[w] = k => ~(pc[w] >= 4))
      BY <1>8 DEF Reached
    <3>2. done'[w] > k \/ (done'[w] = k /\ pc'[w] > 3)
      <4>1. pc'[w] \in Nat => (pc'[w] >= 4 => pc'[w] > 3)
        OBVIOUS
      <4>2. pc'[w] \in Nat
        BY <1>1, Moves DEF Begins, Enters, Leaves, Works, Finishes
      <4> QED
        BY <1>8, <4>1, <4>2 DEF Reached
    <3>3. done[w] = k => ~(pc[w] > 3)
      BY <1>1, <3>1
    <3>4. done[w] = k /\ pc[w] = 3 => handled[w] = {}
      <4> SUFFICES ASSUME done[w] = k, pc[w] = 3, handled[w] # {} PROVE FALSE
        OBVIOUS
      <4>1. PICK step \in Sharing : At(w, step)
        BY <1>1 DEF HandledInStep
      <4>2. Call(w) = "two"
        BY <1>2, <1>8, <4>1 DEF At
      <4>3. Place("two", 3, step) /\ step \in Sharing
        BY <1>1, <4>1, <4>2, Places DEF Sharing, StepNames
      <4> QED
        BY <4>3 DEF Place, Sharing, LLKinds
    <3> QED
      BY <3>1, <3>2, <3>3, <3>4 DEF DoneFor
  <2>2. /\ done[w] = k /\ Running(w)
        /\ \/ Over(w) /\ pc[w] <= 3
           \/ pc[w] = 3 /\ (LeaveBarrier(w) \/ Keep(w) \/ Output(w) \/ Work(w, First))
    BY <1>1, <2>1, PartDone, CustomAllReduceAssumption
  <2>3. Call(w) = "two" /\ pc[w] = 3
    BY <1>2, <1>3, <1>4, <1>8, <2>2
  <2>4. At(w, "keep")
    BY <1>1, <2>2, <2>3, Places DEF Place, StepNames
  <2>5. Keep(w)
    <3>1. ASSUME Work(w, First) PROVE FALSE
      BY <2>4, <3>1 DEF Work, ReadInput, Gather, Store, Load, Push, ReadSlot, StoreHigh, LoadHigh,
                        Send, Poll, Thread, At
    <3>2. ~At(w, "start") /\ ~At(w, "end") /\ ~At(w, "output")
      BY <2>4 DEF At
    <3> QED
      BY <1>5, <2>2, <2>3, <3>1, <3>2, <1>3, <1>4, <1>8
  <2> QED
    BY <2>2, <2>5, Writings
<1>9. ASSUME Kind(k) = "fused", DoneFor(w, q, k, 3)', ~DoneFor(w, q, k, 3)
      PROVE  Storing(w, q) /\ done[w] = k
  <2>1. /\ done[w] = k /\ Running(w)
        /\ \/ Over(w) /\ pc[w] <= 3
           \/ pc[w] = 3 /\ (LeaveBarrier(w) \/ Keep(w) \/ Output(w) \/ Work(w, q))
    BY <1>1, <1>9, PartDone
  <2>2. /\ Call(w) = "fused"
        /\ pc[w] = 3 /\ (LeaveBarrier(w) \/ Keep(w) \/ Output(w) \/ Work(w, q))
    BY <1>2, <1>3, <1>4, <1>9, <2>1
  <2>3. At(w, "store")
    BY <1>1, <2>1, <2>2, Places DEF Place, StepNames
  <2>4. \A step : At(w, step) => step = "store"
    BY <2>3 DEF At
  <2>5. Store(w, q)
    BY <1>5, <1>6, <1>7, <2>2, <2>4
  <2> QED
    BY <2>1, <2>5, Writings
<1>10. ASSUME Kind(k) = "write", DoneFor(w, q, k, 1)', ~DoneFor(w, q, k, 1)
       PROVE  Pushing(w, q) /\ done[w] = k
  <2>1. /\ done[w] = k /\ Running(w)
        /\ \/ Over(w) /\ pc[w] <= 1
           \/ pc[w] = 1 /\ (LeaveBarrier(w) \/ Keep(w) \/ Output(w) \/ Work(w, q))
    BY <1>1, <1>10, PartDone
  <2>2. /\ Call(w) = "write"
        /\ pc[w] = 1 /\ (LeaveBarrier(w) \/ Keep(w) \/ Output(w) \/ Work(w, q))
    BY <1>2, <1>3, <1>4, <1>10, <2>1
  <2>3. At(w, "push")
    BY <1>1, <2>1, <2>2, Places DEF Place, StepNames
  <2>4. \A step : At(w, step) => step = "push"
    BY <2>3 DEF At
  <2>5. Push(w, q)
    BY <1>5, <1>6, <1>7, <2>2, <2>4
  <2> QED
    BY <2>1, <2>5, Writings
<1>11. ASSUME Kind(k) = "write", DoneFor(w, q, k, 4)', ~DoneFor(w, q, k, 4)
       PROVE  StoringHigh(w, q) /\ done[w] = k
  <2>1. /\ done[w] = k /\ Running(w)
        /\ \/ Over(w) /\ pc[w] <= 4
           \/ pc[w] = 4 /\ (LeaveBarrier(w) \/ Keep(w) \/ Output(w) \/ Work(w, q))
    BY <1>1, <1>11, PartDone
  <2>2. /\ Call(w) = "write"
        /\ pc[w] = 4 /\ (LeaveBarrier(w) \/ Keep(w) \/ Output(w) \/ Work(w, q))
    BY <1>2, <1>3, <1>4, <1>11, <2>1
  <2>3. At(w, "store high")
    BY <1>1, <2>1, <2>2, Places DEF Place, StepNames
  <2>4. \A step : At(w, step) => step = "store high"
    BY <2>3 DEF At
  <2>5. StoreHigh(w, q)
    BY <1>5, <1>6, <1>7, <2>2, <2>4
  <2> QED
    BY <2>1, <2>5, Writings
<1> QED
  BY <1>8, <1>9, <1>10, <1>11

\* No barrier is taken back, and a step of w is its own.
LEMMA NotYetDone ==
  ASSUME TypeInv, SyncedPlans, HandledInStep, NEW w \in Ranks, Rank(w)
  PROVE  /\ plan' = plan
         /\ \A b \in Nat : NobodyBeyond(b)' => NobodyBeyond(b)
         /\ \A p, q \in Ranks, k \in Nat, n \in 1..6 : p # w =>
              /\ Reached(p, k, n)' <=> Reached(p, k, n)
              /\ DoneFor(p, q, k, n)' <=> DoneFor(p, q, k, n)
<1>1. plan' = plan
  BY Moves
<1>2. ASSUME NEW b \in Nat, NobodyBeyond(b)', NEW p \in Ranks PROVE left[p] <= b
  <2>1. left'[p] <= b /\ left[p] \in Nat
    BY <1>2 DEF NobodyBeyond, TypeInv, TypeOK, BarrierTypes
  <2>2. CASE p # w
    BY <2>1, <2>2, Frame
  <2>3. CASE p = w
    <3>1. left'[w] = left[w] \/ left'[w] = left[w] + 1
      BY Moves DEF Begins, Enters, Leaves, Works, Finishes
    <3>2. CASE left'[w] = left[w]
      BY <2>1, <2>3, <3>2
    <3>3. CASE left'[w] = left[w] + 1
      BY <2>1, <2>3, <3>3
    <3> QED
      BY <3>1, <3>2, <3>3
  <2> QED
    BY <2>2, <2>3
<1>3. ASSUME NEW p \in Ranks, NEW q \in Ranks, NEW k \in Nat, NEW n \in 1..6, p # w
      PROVE  /\ Reached(p, k, n)' <=> Reached(p, k, n)
             /\ DoneFor(p, q, k, n)' <=> DoneFor(p, q, k, n)
  BY <1>3, Frame DEF Reached, DoneFor
<1> QED
  BY <1>1, <1>2, <1>3 DEF NobodyBeyond

\* A call of the write mode comes first, or after one that leaves its data alone.
LEMMA PushedAfter ==
  ASSUME TypeInv, SyncedPlans, NEW w \in Ranks, At(w, "push"), NEW k \in Nat, done[w] = k + 1
  PROVE  Kind(k) \in {"one", "write"}
<1>1. Running(w) /\ Call(w) = "write"
  BY StepsAt
<1>2. k + 1 \in 0..(Len(plan) - 1) /\ Kind(k + 1) = "write"
  BY <1>1, SyncedCall
<1>3. k + 1 > 0 /\ (k + 1) - 1 = k
  OBVIOUS
<1> QED
  BY <1>2, <1>3, SyncedKinds

\* In a call of its kind a rank writes only what that kind writes.
LEMMA WriterKinds ==
  ASSUME TypeInv, SyncedPlans, NEW w \in Ranks, NEW q \in Ranks
  PROVE  /\ Keeping(w) => Kind(done[w]) = "two"
         /\ Storing(w, q) => Kind(done[w]) = "fused"
         /\ Pushing(w, q) => Kind(done[w]) = "write"
         /\ StoringHigh(w, q) => Kind(done[w]) = "write"
BY StepsAt DEF Keeping, Storing, Pushing, StoringHigh, Call, Kind

\* The chunk a two-stage kernel keeps stays until its peers have gathered it.
LEMMA KeptStep ==
  ASSUME SyncedInv, SyncedPlans, WideCounter, NEW w \in Ranks, Rank(w)
  PROVE  Kept'
<1>1. TypeInv /\ Counting /\ InOrOut /\ HandledInStep /\ Kept /\ plan' = plan
  BY NotYetDone DEF SyncedInv, ScratchInv, IInv
<1>2. SUFFICES ASSUME NEW p \in Ranks, NEW k \in 0..(Len(plan) - 1), Kind(k) = "two",
                      Reached(p, k, 4)', NobodyBeyond(2 * k + 2)
               PROVE  scratch'[p][0][First].sum = Total(k)
  <2>1. Len(plan) \in Nat
    BY <1>1, SyncedKinds
  <2>2. \A k \in 0..(Len(plan) - 1) : 2 * k + 2 \in Nat
    BY <2>1
  <2>3. \A k \in 0..(Len(plan) - 1) : NobodyBeyond(2 * k + 2)' => NobodyBeyond(2 * k + 2)
    BY <1>1, <2>2, NotYetDone
  <2> QED
    BY <1>1, <2>3 DEF Kept, Kind, Total
<1>3. k \in Nat /\ 0 \in Regions /\ First \in Ranks
  BY <1>1, SyncedKinds, CustomAllReduceAssumption DEF Regions
<1>4. CASE ~Reached(p, k, 4)
  <2>1. p = w
    BY <1>1, <1>2, <1>3, <1>4, NotYetDone
  <2>2. Keeping(w) /\ done[w] = k
    BY <1>2, <1>4, <2>1, WritesInStep
  <2> QED
    BY <1>1, <1>3, <2>1, <2>2, PutAt DEF Keeping
<1>5. CASE Reached(p, k, 4)
  <2>1. scratch[p][0][First].sum = Total(k)
    BY <1>1, <1>2, <1>5 DEF Kept
  <2>2. left[p] >= 2 * k + 1
    BY <1>1, <1>2, <1>3, <1>5, HasLeft
  <2>3. CASE scratch' = scratch
    BY <2>1, <2>3
  <2>4. CASE Keeping(w)
    <3>1. done[w] = k
      BY <1>2, <1>3, <2>2, <2>4, Overwriting DEF Keeping
    <3> QED
      BY <1>1, <1>3, <2>1, <2>4, <3>1, PutAt DEF Keeping
  <2>5. ASSUME NEW q \in Ranks, Storing(w, q) \/ Pushing(w, q) \/ StoringHigh(w, q) PROVE FALSE
    <3>1. CASE Storing(w, q) \/ StoringHigh(w, q)
      <4>1. done[w] = k
        BY <1>2, <1>3, <2>2, <3>1, Overwriting DEF Storing, StoringHigh
      <4> QED
        BY <1>1, <1>2, <3>1, <4>1, WriterKinds
    <3>2. CASE Pushing(w, q)
      <4>1. done[w] = k + 1
        BY <1>2, <1>3, <2>2, <3>2, Overwriting DEF Pushing
      <4> QED
        BY <1>1, <1>2, <1>3, <3>2, <4>1, PushedAfter DEF Pushing
    <3> QED
      BY <2>5, <3>1, <3>2
  <2> QED
    BY <2>3, <2>4, <2>5, Writings
<1> QED
  BY <1>4, <1>5

\* What the fused kernel stores in a peer stays until the peer has loaded it.
LEMMA StoredStep ==
  ASSUME SyncedInv, SyncedPlans, WideCounter, NEW w \in Ranks, Rank(w)
  PROVE  Stored'
<1>1. TypeInv /\ Counting /\ InOrOut /\ HandledInStep /\ Stored /\ plan' = plan
  BY NotYetDone DEF SyncedInv, ScratchInv, IInv
<1>2. SUFFICES ASSUME NEW p \in Ranks, NEW q \in Ranks, NEW k \in 0..(Len(plan) - 1),
                      Kind(k) = "fused", DoneFor(p, q, k, 3)', NobodyBeyond(2 * k + 2)
               PROVE  scratch'[q][0][p].sum = Total(k)
  <2>1. Len(plan) \in Nat
    BY <1>1, SyncedKinds
  <2>2. \A k \in 0..(Len(plan) - 1) : 2 * k + 2 \in Nat
    BY <2>1
  <2>3. \A k \in 0..(Len(plan) - 1) : NobodyBeyond(2 * k + 2)' => NobodyBeyond(2 * k + 2)
    BY <1>1, <2>2, NotYetDone
  <2> QED
    BY <1>1, <2>3 DEF Stored, Kind, Total
<1>3. k \in Nat /\ 0 \in Regions /\ 3 \in 1..6
  BY <1>1, SyncedKinds DEF Regions
<1>4. CASE ~DoneFor(p, q, k, 3)
  <2>1. p = w
    BY <1>1, <1>2, <1>3, <1>4, NotYetDone
  <2>2. Storing(w, q) /\ done[w] = k
    BY <1>2, <1>4, <2>1, WritesInStep
  <2> QED
    BY <1>1, <1>3, <2>1, <2>2, PutAt DEF Storing
<1>5. CASE DoneFor(p, q, k, 3)
  <2>1. scratch[q][0][p].sum = Total(k)
    BY <1>1, <1>2, <1>5 DEF Stored
  <2>2. left[p] >= 2 * k + 1
    BY <1>1, <1>2, <1>3, <1>5, HasLeft
  <2>3. CASE scratch' = scratch
    BY <2>1, <2>3
  <2>4. ASSUME NEW x \in Ranks, Storing(w, x) PROVE scratch'[q][0][p].sum = Total(k)
    <3>1. done[w] = k
      BY <1>2, <1>3, <2>2, <2>4, Overwriting DEF Storing
    <3> QED
      BY <1>1, <1>3, <2>1, <2>4, <3>1, PutAt DEF Storing
  <2>5. ASSUME NEW x \in Ranks, Keeping(w) \/ Pushing(w, x) \/ StoringHigh(w, x) PROVE FALSE
    <3>1. CASE Keeping(w) \/ StoringHigh(w, x)
      <4>1. done[w] = k
        BY <1>2, <1>3, <2>2, <3>1, Overwriting DEF Keeping, StoringHigh
      <4> QED
        BY <1>1, <1>2, <3>1, <4>1, WriterKinds
    <3>2. CASE Pushing(w, x)
      <4>1. done[w] = k + 1
        BY <1>2, <1>3, <2>2, <3>2, Overwriting DEF Pushing
      <4> QED
        BY <1>1, <1>2, <1>3, <3>2, <4>1, PushedAfter DEF Pushing
    <3> QED
      BY <2>5, <3>1, <3>2
  <2> QED
    BY <2>3, <2>4, <2>5, Writings
<1> QED
  BY <1>4, <1>5

\* An input that the write mode pushes to a peer stays until the peer has added it.
LEMMA PushedStep ==
  ASSUME SyncedInv, SyncedPlans, WideCounter, NEW w \in Ranks, Rank(w)
  PROVE  Pushed'
<1>1. TypeInv /\ Counting /\ InOrOut /\ HandledInStep /\ Pushed /\ plan' = plan
  BY NotYetDone DEF SyncedInv, ScratchInv, IInv
<1>2. SUFFICES ASSUME NEW p \in Ranks, NEW q \in Ranks, NEW k \in 0..(Len(plan) - 1),
                      Kind(k) = "write", DoneFor(p, q, k, 1)', NobodyBeyond(2 * k + 1)
               PROVE  scratch'[q][0][p].sum = {<<p, k>>}
  <2>1. Len(plan) \in Nat
    BY <1>1, SyncedKinds
  <2>2. \A k \in 0..(Len(plan) - 1) : 2 * k + 1 \in Nat
    BY <2>1
  <2>3. \A k \in 0..(Len(plan) - 1) : NobodyBeyond(2 * k + 1)' => NobodyBeyond(2 * k + 1)
    BY <1>1, <2>2, NotYetDone
  <2> QED
    BY <1>1, <2>3 DEF Pushed, Kind
<1>3. k \in Nat /\ 0 \in Regions /\ 1 \in Regions /\ 0 # 1 /\ 1 \in 1..6
  BY <1>1, SyncedKinds DEF Regions
<1>4. CASE ~DoneFor(p, q, k, 1)
  <2>1. p = w
    BY <1>1, <1>2, <1>3, <1>4, NotYetDone
  <2>2. Pushing(w, q) /\ done[w] = k
    BY <1>2, <1>4, <2>1, WritesInStep
  <2> QED
    BY <1>1, <1>3, <2>1, <2>2, PutAt DEF Pushing
<1>5. CASE DoneFor(p, q, k, 1)
  <2>1. scratch[q][0][p].sum = {<<p, k>>}
    BY <1>1, <1>2, <1>5 DEF Pushed
  <2>2. left[p] >= 2 * k
    BY <1>1, <1>2, <1>3, <1>5, HasLeft
  <2>3. CASE scratch' = scratch
    BY <2>1, <2>3
  <2>4. ASSUME NEW x \in Ranks, Pushing(w, x) PROVE scratch'[q][0][p].sum = {<<p, k>>}
    <3>1. done[w] = k
      BY <1>2, <1>3, <2>2, <2>4, Overwriting DEF Pushing
    <3> QED
      BY <1>1, <1>3, <2>1, <2>4, <3>1, PutAt DEF Pushing
  <2>5. ASSUME NEW x \in Ranks, StoringHigh(w, x) PROVE scratch'[q][0][p].sum = {<<p, k>>}
    <3>1. Puts(x, 1, w, Total(done[w]))
      BY <2>5 DEF StoringHigh
    <3>2. scratch'[q][0][p].sum = scratch[q][0][p].sum
      BY <1>1, <1>3, <3>1, PutAt
    <3> QED
      BY <2>1, <3>2
  <2>6. ASSUME NEW x \in Ranks, Keeping(w) \/ Storing(w, x) PROVE FALSE
    <3>1. done[w] = k
      BY <1>2, <1>3, <2>2, <2>6, Overwriting DEF Keeping, Storing
    <3> QED
      BY <1>1, <1>2, <2>6, <3>1, WriterKinds
  <2> QED
    BY <2>3, <2>4, <2>5, <2>6, Writings
<1> QED
  BY <1>4, <1>5

\* The sums it stores behind the inputs stay until their peers have loaded them.
LEMMA StoredHighStep ==
  ASSUME SyncedInv, SyncedPlans, WideCounter, NEW w \in Ranks, Rank(w)
  PROVE  StoredHigh'
<1>1. TypeInv /\ Counting /\ InOrOut /\ HandledInStep /\ StoredHigh /\ plan' = plan
  BY NotYetDone DEF SyncedInv, ScratchInv, IInv
<1>2. SUFFICES ASSUME NEW p \in Ranks, NEW q \in Ranks, NEW k \in 0..(Len(plan) - 1),
                      Kind(k) = "write", DoneFor(p, q, k, 4)', NobodyBeyond(2 * k + 2)
               PROVE  scratch'[q][1][p].sum = Total(k)
  <2>1. Len(plan) \in Nat
    BY <1>1, SyncedKinds
  <2>2. \A k \in 0..(Len(plan) - 1) : 2 * k + 2 \in Nat
    BY <2>1
  <2>3. \A k \in 0..(Len(plan) - 1) : NobodyBeyond(2 * k + 2)' => NobodyBeyond(2 * k + 2)
    BY <1>1, <2>2, NotYetDone
  <2> QED
    BY <1>1, <2>3 DEF StoredHigh, Kind, Total
<1>3. k \in Nat /\ 0 \in Regions /\ 1 \in Regions /\ 0 # 1 /\ 4 \in 1..6 /\ First \in Ranks
  BY <1>1, SyncedKinds, CustomAllReduceAssumption DEF Regions
<1>4. CASE ~DoneFor(p, q, k, 4)
  <2>1. p = w
    BY <1>1, <1>2, <1>3, <1>4, NotYetDone
  <2>2. StoringHigh(w, q) /\ done[w] = k
    BY <1>2, <1>4, <2>1, WritesInStep
  <2> QED
    <3>1. Puts(q, 1, w, Total(k))
      BY <2>2 DEF StoringHigh
    <3> QED
      BY <1>1, <1>3, <2>1, <3>1, PutAt
<1>5. CASE DoneFor(p, q, k, 4)
  <2>1. scratch[q][1][p].sum = Total(k)
    BY <1>1, <1>2, <1>5 DEF StoredHigh
  <2>2. left[p] >= 2 * k + 1
    BY <1>1, <1>2, <1>3, <1>5, HasLeft
  <2>3. CASE scratch' = scratch
    BY <2>1, <2>3
  <2>4. ASSUME NEW x \in Ranks, StoringHigh(w, x) PROVE scratch'[q][1][p].sum = Total(k)
    <3>1. done[w] = k
      BY <1>2, <1>3, <2>2, <2>4, Overwriting DEF StoringHigh
    <3> QED
      <4>1. Puts(x, 1, w, Total(k))
        BY <2>4, <3>1 DEF StoringHigh
      <4>2. CASE x = q /\ w = p
        BY <1>1, <1>3, <4>1, <4>2, PutAt
      <4>3. CASE x # q \/ w # p
        <5>1. scratch'[q][1][p].sum = scratch[q][1][p].sum
          BY <1>1, <1>3, <4>1, <4>3, PutAt
        <5> QED
          BY <2>1, <5>1
      <4> QED
        BY <4>2, <4>3
  <2>5. ASSUME NEW x \in Ranks, Keeping(w) \/ Storing(w, x) \/ Pushing(w, x)
        PROVE  scratch'[q][1][p].sum = Total(k)
    BY <1>1, <1>3, <2>1, <2>5, PutAt DEF Keeping, Storing, Pushing
  <2> QED
    BY <2>3, <2>4, <2>5, Writings
<1> QED
  BY <1>4, <1>5

-----------------------------------------------------------------------------
\* Before the first call every rank is outside its barriers and the scratch is clear.
LEMMA SyncedInit == SyncedPlans /\ Init => SyncedInv
<1> SUFFICES ASSUME SyncedPlans, Init PROVE SyncedInv
  OBVIOUS
<1>1. TypeInv
  BY TypeInvInit
<1>2. IInv
  BY SignalBarrierAssumption
  DEF Init, BarrierInit, IInv, BarrierTypes, InOrOut, SignalsAreHonest, BarriersHold
<1>3. \A r \in Ranks : /\ pc[r] = 0 /\ done[r] = 0 /\ handled[r] = {} /\ sum[r] = {}
                       /\ out[r] = {} /\ left[r] = 0 /\ waiting[r] = "none"
  BY DEF Init, BarrierInit
<1>4. Counting /\ HandledInStep
  BY <1>3 DEF Counting, CountsOf, Passed, Writes, Running, HandledInStep
<1>5. Totals
  <2>1. ASSUME NEW r \in Ranks PROVE pc[r] < Adding(r)
    <3>1. Adding(r) \in {2, 3} /\ pc[r] = 0
      BY <1>3 DEF Adding
    <3> QED
      BY <3>1
  <2> QED
    BY <1>3, <2>1 DEF Totals, TotalsOf, Contributions
<1>6. Outputs
  <2>1. ASSUME NEW r \in Ranks PROVE out[r] = {} /\ ~Running(r)
    <3>1. pc[r] = 0 /\ out[r] = {}
      BY <1>3
    <3> QED
      BY <3>1 DEF Running
  <2> QED
    BY <2>1 DEF Outputs, OutputsOf, HasShown
<1>7. ASSUME NEW p \in Ranks, NEW q \in Ranks, NEW k \in 0..(Len(plan) - 1)
      PROVE  /\ ~Reached(p, k, 4) /\ ~DoneFor(p, q, k, 1)
             /\ ~DoneFor(p, q, k, 3) /\ ~DoneFor(p, q, k, 4)
  <2>1. k \in Nat
    BY <1>1, SyncedKinds
  <2>2. ~(0 > k)
    BY <2>1
  <2> QED
    BY <1>3, <2>2 DEF Reached, DoneFor
<1>8. ScratchInv
  BY <1>7 DEF ScratchInv, Kept, Stored, Pushed, StoredHigh
<1> QED
  BY <1>1, <1>2, <1>4, <1>5, <1>6, <1>8 DEF SyncedInv

\* Every step preserves it.
LEMMA SyncedNext ==
  ASSUME SyncedPlans, WideCounter, SyncedInv, [Next]_vars
  PROVE  SyncedInv'
<1>1. TypeInv' /\ IInv'
  BY TypeInvNext, IInvNext DEF SyncedInv
<1>2. ASSUME NEW r \in Ranks, Rank(r) PROVE SyncedInv'
  <2>1. Counting' /\ HandledInStep'
    BY <1>2, CountingStep, HandledStep DEF SyncedInv, IInv
  <2>2. Totals' /\ Outputs'
    BY <1>1, <1>2, TotalsStep, OutputsStep
  <2>3. ScratchInv'
    BY <1>2, KeptStep, StoredStep, PushedStep, StoredHighStep DEF ScratchInv
  <2> QED
    BY <1>1, <2>1, <2>2, <2>3 DEF SyncedInv
<1>3. CASE UNCHANGED vars
  <2>1. UNCHANGED <<plan, done, pc, handled, sum, out, scratch, left, waiting>>
    BY <1>3 DEF vars, barrierVars, kernelVars
  <2>2. Counting' /\ HandledInStep'
    BY <2>1 DEF SyncedInv, Counting, CountsOf, HandledInStep, Passed, Writes, At, Running, Over,
                Call
  <2>3. Totals' /\ Outputs'
    BY <2>1 DEF SyncedInv, Totals, TotalsOf, Adding, Contributions, Outputs, OutputsOf, HasShown,
                Total, Writes, Running, Over, Call
  <2>4. ScratchInv'
    BY <2>1 DEF SyncedInv, ScratchInv, Kept, Stored, Pushed, StoredHigh, Kind, Total, Reached,
                DoneFor, NobodyBeyond
  <2> QED
    BY <1>1, <2>2, <2>3, <2>4 DEF SyncedInv
<1> QED
  BY <1>2, <1>3 DEF Next

\* The inputs a rank has given: those of the calls it has finished and of the one
\* it runs.
Given == [r \in Ranks |-> done[r] + IF Running(r) THEN 1 ELSE 0]

\* A call that begins gives the rank's input, one that finishes gets the total, and
\* the steps between change neither.
LEMMA StepAllReduce ==
  ASSUME SyncedPlans, WideCounter, SyncedInv, [Next]_vars
  PROVE  [AR!Next]_<<Given, done, result>>
<1>1. TypeInv /\ Outputs /\ HandledInStep
  BY DEF SyncedInv
<1>2. /\ pc \in [Ranks -> 0..7] /\ done \in [Ranks -> 0..MaxCalls]
      /\ result \in [Ranks -> SUBSET Sums]
  BY <1>1 DEF TypeInv, TypeOK
<1>3. CASE UNCHANGED vars
  BY <1>3 DEF vars, kernelVars, Given, Running
<1>4. ASSUME NEW r \in Ranks, Begin(r) PROVE AR!Give(r)
  <2>1. ~Running(r) /\ done[r] < Len(plan) /\ done' = done /\ result' = result
        /\ pc' = [pc EXCEPT ![r] = 1]
    BY <1>4 DEF Begin
  <2>2. Len(plan) \in 0..MaxCalls /\ MaxCalls \in Nat
    BY <1>1, SyncedKinds, CustomAllReduceAssumption
  <2>3. Given[r] = done[r] /\ done[r] < MaxCalls
    BY <1>2, <2>1, <2>2 DEF Given
  <2>4. \A q \in Ranks : Given'[q] = IF q = r THEN Given[q] + 1 ELSE Given[q]
    BY <1>2, <2>1 DEF Given, Running
  <2>5. Given' = [Given EXCEPT ![r] = @ + 1]
    BY <2>4 DEF Given
  <2> QED
    BY <2>1, <2>3, <2>5 DEF AR!Give, Given
<1>5. ASSUME NEW r \in Ranks, Finish(r) PROVE AR!Get(r)
  <2>1. /\ Running(r) /\ Over(r) /\ done' = [done EXCEPT ![r] = @ + 1]
        /\ pc' = [pc EXCEPT ![r] = 0] /\ result' = [result EXCEPT ![r] = out[r]]
    BY <1>5 DEF Finish
  <2>2. \A p \in Ranks : Given[p] > done[r]
    BY <2>1, AllHaveMade DEF Given
  <2>3. out[r] = {AR!SumOf(done[r])}
    <3>1. out[r] \subseteq {Total(done[r])} /\ out[r] # {}
      BY <1>1, <2>1 DEF Outputs, OutputsOf, HasShown
    <3>2. Total(done[r]) = AR!SumOf(done[r])
      BY DEF Total, AR!SumOf
    <3> QED
      BY <3>1, <3>2
  <2>4. \A q \in Ranks : Given'[q] = Given[q]
    BY <1>2, <2>1 DEF Given, Running
  <2>5. Given' = Given
    BY <2>4 DEF Given
  <2> QED
    BY <2>1, <2>2, <2>3, <2>5 DEF AR!Get, Given
<1>6. ASSUME NEW r \in Ranks, Rank(r), ~Begin(r), ~Finish(r)
      PROVE  UNCHANGED <<Given, done, result>>
  <2>1. done' = done /\ result' = result
    <3>1. CASE EnterBarrier(r) \/ LeaveBarrier(r) \/ Keep(r) \/ Output(r)
      BY <3>1 DEF EnterBarrier, LeaveBarrier, Keep, Output, kernelVars
    <3>2. ASSUME NEW p \in Ranks, Work(r, p) PROVE done' = done /\ result' = result
      BY <3>2 DEF Work, ReadInput, Gather, Store, Load, Push, ReadSlot, StoreHigh, LoadHigh,
                  Send, Poll, Thread
    <3> QED
      BY <1>6, <3>1, <3>2 DEF Rank
  <2>2. Running(r) /\ Running(r)'
    <3>1. pc[r] > 0 /\ (pc'[r] = pc[r] \/ pc'[r] = pc[r] + 1)
      <4>1. CASE EnterBarrier(r) \/ LeaveBarrier(r) \/ Keep(r) \/ Output(r)
        BY <1>2, <4>1 DEF EnterBarrier, LeaveBarrier, Keep, Output, kernelVars, At, Running
      <4>2. ASSUME NEW p \in Ranks, Work(r, p)
            PROVE  pc[r] > 0 /\ (pc'[r] = pc[r] \/ pc'[r] = pc[r] + 1)
        BY <1>2, <4>2 DEF Work, ReadInput, Gather, Store, Load, Push, ReadSlot, StoreHigh, LoadHigh,
                          Send, Poll, Thread, At, Running
      <4> QED
        BY <1>6, <4>1, <4>2 DEF Rank
    <3> QED
      BY <1>2, <3>1 DEF Running
  <2>3. \A q \in Ranks : Running(q)' <=> Running(q)
    BY <1>1, <1>6, <2>2, FramePlaces
  <2> QED
    BY <2>1, <2>3 DEF Given
<1> QED
  BY <1>3, <1>4, <1>5, <1>6 DEF Next, AR!Next

\* The calls that rely on barriers are all-reduces: whatever order the ranks and
\* their threads run in, nobody has its output before every rank has made the call,
\* and all of it is the sum of the inputs of that call, although the next call
\* writes into the scratch that slower ranks may still be reading.
THEOREM AllReduceImplemented ==
  SyncedPlans /\ WideCounter => (Spec => ImplementsAllReduce)
<1>1. ASSUME SyncedPlans PROVE Init => SyncedInv
  BY <1>1, SyncedInit
<1>2. ASSUME SyncedPlans, WideCounter, SyncedInv, [Next]_vars PROVE SyncedInv'
  BY <1>2, SyncedNext
<1>3. Init => AR!Init
  BY DEF Init, AR!Init, Running
<1>4. ASSUME SyncedPlans, WideCounter, SyncedInv, [Next]_vars
      PROVE  [AR!Next]_<<Given, done, result>>
  BY <1>4, StepAllReduce
<1>5. ASSUME SyncedPlans, WideCounter PROVE Spec => ImplementsAllReduce
  BY <1>1, <1>2, <1>3, <1>4, <1>5, PTL DEF Spec, ImplementsAllReduce, AR!Spec, Given
<1> QED
  BY <1>5
=============================================================================
