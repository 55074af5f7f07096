-------------------------- MODULE CustomAllReduce --------------------------
(***************************************************************************)
(* The all-reduce kernels that share the scratch behind each rank's Signal *)
(* (get_tmp_buf): one-stage, two-stage, the fused reduce-scatter and load, *)
(* the write mode, LL and LL128.  The ranks make the same calls in the same*)
(* order.  One block id is modelled: a block of that id runs on every rank *)
(* and covers the same positions.  A kernel is a sequence of steps; in most*)
(* of them each peer has threads of its own, which finish in any order.    *)
(*                                                                         *)
(* A sum is the set of the inputs <<rank, call>> it adds up.  The scratch  *)
(* of a rank is in regions of one slot per rank: 0 and 1 are those of one  *)
(* message, twice, and the two banks of LL; 2 and 3 are the banks of LL128.*)
(***************************************************************************)
EXTENDS SignalBarrier, Integers, Sequences

CONSTANTS
  First,      \* the rank whose slot begins a region
  Plans,      \* the sequences of calls that may be made
  MaxCalls,   \* bound on their length
  Epochs      \* number of values of an LL epoch flag

\* The kernels, by the kind of call that runs them.
Kinds == {"one", "two", "fused", "write", "ll", "ll128"}

ASSUME CustomAllReduceAssumption ==
  /\ First \in Ranks /\ MaxCalls \in Nat /\ Epochs \in Nat \ {0, 1, 2}
  /\ \A calls \in Plans : calls \in Seq(Kinds) /\ Len(calls) <= MaxCalls

VARIABLES
  plan,       \* the calls, the same on every rank
  done,       \* calls each rank has finished
  pc,         \* step of the running kernel, 0 between calls
  handled,    \* the peers whose threads have finished the step
  sum,        \* what the block has added up, in LDS and registers
  out,        \* the sums in its output
  epoch,      \* epoch[kind][rank] of the LL kernels
  scratch,    \* scratch[rank][region][slot]
  result      \* the output of each rank's last call

kernelVars == <<plan, done, pc, handled, sum, out, epoch, scratch, result>>
vars == <<barrierVars, kernelVars>>

Regions == 0..3

Steps ==
  [one   |-> <<"start", "read inputs", "output", "end">>,
   two   |-> <<"start", "read inputs", "keep", "end", "gather">>,
   fused |-> <<"start", "read inputs", "store", "end", "load">>,
   write |-> <<"push", "end", "read slots", "store high", "end", "load high">>,
   ll    |-> <<"send", "poll", "output">>,
   ll128 |-> <<"send", "poll", "output">>]

LLKinds == {"ll", "ll128"}

Call(r) == plan[done[r] + 1]
Running(r) == pc[r] > 0
Over(r) == pc[r] > Len(Steps[Call(r)])
At(r, step) == Running(r) /\ ~Over(r) /\ Steps[Call(r)][pc[r]] = step

\* The input a rank's registered buffer holds: it is copied in when a call
\* begins and stays there until the next.
Input(r) == {<<r, IF Running(r) THEN done[r] ELSE done[r] - 1>>}

\* What a slot holds: data, or a line of LL with the epoch it was sent in.
Data(s) == [flag |-> 0, sum |-> s]
Line(f, s) == [flag |-> f, sum |-> s]

\* Counting epochs past the width of their flag.
EpochUnwrapped(r) == epoch[Call(r)][r] + 1

\* The epoch of the running LL kernel: 0 marks cleared scratch and is skipped,
\* by LL128 in such a way that consecutive epochs differ in parity.
Epoch(r) ==
  LET next == (epoch[Call(r)][r] + 1) % Epochs
  IN  IF next # 0 THEN next ELSE IF Call(r) = "ll" THEN 1 ELSE 2

\* The same scratch for every call.
OnlyBank(r) == IF Call(r) = "ll" THEN 0 ELSE 2

\* Its bank.
Bank(r) == (IF Call(r) = "ll" THEN 0 ELSE 2) + (Epoch(r) % 2)

\* Taking whatever has been sent.
SomethingArrived(r, p) == scratch[r][Bank(r)][p].flag # 0

\* A peer's line of this epoch is there; a rank's own input needs none.
Arrived(r, p) == scratch[r][Bank(r)][p].flag = Epoch(r)

Init ==
  /\ BarrierInit
  /\ plan \in Plans
  /\ done = [r \in Ranks |-> 0]
  /\ pc = [r \in Ranks |-> 0]
  /\ handled = [r \in Ranks |-> {}]
  /\ sum = [r \in Ranks |-> {}]
  /\ out = [r \in Ranks |-> {}]
  /\ epoch = [kind \in LLKinds |-> [r \in Ranks |-> 0]]
  /\ scratch = [r \in Ranks |-> [region \in Regions |-> [slot \in Ranks |-> Data({})]]]
  /\ result = [r \in Ranks |-> {}]

-----------------------------------------------------------------------------
Begin(r) ==
  /\ ~Running(r) /\ done[r] < Len(plan)
  /\ pc' = [pc EXCEPT ![r] = 1]
  /\ UNCHANGED <<barrierVars, plan, done, handled, sum, out, epoch, scratch, result>>

EnterBarrier(r) ==
  /\ \E a \in Arrays : At(r, a) /\ Enter(r, a)
  /\ UNCHANGED kernelVars

LeaveBarrier(r) ==
  /\ \E a \in Arrays : At(r, a) /\ Leave(r, a)
  /\ pc' = [pc EXCEPT ![r] = @ + 1]
  /\ UNCHANGED <<plan, done, handled, sum, out, epoch, scratch, result>>

\* The threads for peer p do their part of the step; a __syncthreads or the
\* next barrier ends it.
Thread(r, p, step) ==
  /\ At(r, step) /\ p \notin handled[r]
  /\ LET over == handled[r] \cup {p} = Ranks
     IN  /\ handled' = [handled EXCEPT ![r] = IF over THEN {} ELSE @ \cup {p}]
         /\ pc' = [pc EXCEPT ![r] = IF over THEN @ + 1 ELSE @]
  /\ UNCHANGED <<barrierVars, plan, done, epoch, result>>

Add(r, s) == sum' = [sum EXCEPT ![r] = @ \cup s] /\ UNCHANGED <<out, scratch>>
Show(r, s) == out' = [out EXCEPT ![r] = @ \cup {s}] /\ UNCHANGED <<sum, scratch>>
Put(r, region, slot, v) ==
  scratch' = [scratch EXCEPT ![r][region][slot] = v] /\ UNCHANGED <<sum, out>>

ReadInput(r, p) == Thread(r, p, "read inputs") /\ Add(r, Input(p))

\* Two-stage: the sum of the rank's chunk stays with it for its peers.
Keep(r) ==
  /\ At(r, "keep")
  /\ pc' = [pc EXCEPT ![r] = @ + 1]
  /\ Put(r, 0, First, Data(sum[r]))
  /\ UNCHANGED <<barrierVars, plan, done, handled, epoch, result>>
Gather(r, p) == Thread(r, p, "gather") /\ Show(r, scratch[p][0][First].sum)

\* Fused: it goes to every peer, whose next kernel loads it.
Store(r, p) == Thread(r, p, "store") /\ Put(p, 0, r, Data(sum[r]))
Load(r, p) == Thread(r, p, "load") /\ Show(r, scratch[r][0][p].sum)

\* Write mode: the inputs are written to the peers, then the sums behind them.
Push(r, p) == Thread(r, p, "push") /\ Put(p, 0, r, Data(Input(r)))
ReadSlot(r, p) == Thread(r, p, "read slots") /\ Add(r, scratch[r][0][p].sum)
StoreHigh(r, p) == Thread(r, p, "store high") /\ Put(p, 1, r, Data(sum[r]))
LoadHigh(r, p) == Thread(r, p, "load high") /\ Show(r, scratch[r][1][p].sum)

\* LL: lines that carry the epoch; a rank does not send to itself.
Send(r, p) ==
  /\ Thread(r, p, "send")
  /\ IF p = r THEN UNCHANGED <<sum, out, scratch>>
              ELSE Put(p, Bank(r), r, Line(Epoch(r), Input(r)))
\* LL128 looks at the flags of a line and loads the line afterwards; a flagged line does
\* not change any more before it is read, which ImplementsAllReduce checks of the banks.
Poll(r, p) ==
  /\ Thread(r, p, "poll")
  /\ p # r => Arrived(r, p)
  /\ Add(r, IF p = r THEN Input(r) ELSE scratch[r][Bank(r)][p].sum)

Output(r) ==
  /\ At(r, "output")
  /\ pc' = [pc EXCEPT ![r] = @ + 1]
  /\ Show(r, sum[r])
  /\ UNCHANGED <<barrierVars, plan, done, handled, epoch, result>>

Finish(r) ==
  /\ Running(r) /\ Over(r)
  /\ result' = [result EXCEPT ![r] = out[r]]
  /\ epoch' = IF Call(r) \in LLKinds
              THEN [epoch EXCEPT ![Call(r)][r] = Epoch(r)] ELSE epoch
  /\ done' = [done EXCEPT ![r] = @ + 1]
  /\ pc' = [pc EXCEPT ![r] = 0]
  /\ sum' = [sum EXCEPT ![r] = {}]
  /\ out' = [out EXCEPT ![r] = {}]
  /\ UNCHANGED <<barrierVars, plan, handled, scratch>>

Work(r, p) ==
  \/ ReadInput(r, p) \/ Gather(r, p) \/ Store(r, p) \/ Load(r, p)
  \/ Push(r, p) \/ ReadSlot(r, p) \/ StoreHigh(r, p) \/ LoadHigh(r, p)
  \/ Send(r, p) \/ Poll(r, p)

Rank(r) ==
  \/ Begin(r) \/ EnterBarrier(r) \/ LeaveBarrier(r) \/ Keep(r) \/ Output(r) \/ Finish(r)
  \/ \E p \in Ranks : Work(r, p)

Next == \E r \in Ranks : Rank(r)

Spec == Init /\ [][Next]_vars

\* The blocks of one id are resident together and every thread makes progress.
FairSpec == Spec /\ \A r \in Ranks : WF_vars(Rank(r))

-----------------------------------------------------------------------------
Sums == SUBSET (Ranks \X (-1..MaxCalls))

TypeOK ==
  /\ BarrierTypes
  /\ plan \in Plans
  /\ done \in [Ranks -> 0..MaxCalls] /\ pc \in [Ranks -> 0..7]
  /\ handled \in [Ranks -> SUBSET Ranks]
  /\ sum \in [Ranks -> Sums] /\ out \in [Ranks -> SUBSET Sums]
  /\ epoch \in [LLKinds -> [Ranks -> 0..(Epochs - 1)]]
  /\ scratch \in [Ranks -> [Regions -> [Ranks -> [flag : 0..(Epochs - 1), sum : Sums]]]]
  /\ result \in [Ranks -> SUBSET Sums]

\* The calls are all-reduces: nobody has its output before every rank has made
\* the call, and all of the output is the sum of the inputs of that call.
AR == INSTANCE AllReduce
        WITH MaxRounds <- MaxCalls,
             given <- [r \in Ranks |-> done[r] + IF Running(r) THEN 1 ELSE 0]
ImplementsAllReduce == AR!Spec

\* Every rank gets through all its calls.
EveryCallFinishes == <>(\A r \in Ranks : done[r] = Len(plan))
=============================================================================
