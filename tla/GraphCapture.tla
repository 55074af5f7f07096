---------------------------- MODULE GraphCapture ----------------------------
(***************************************************************************)
(* CustomAllreduce.capture and IPCBufferPool: the ranks capture the same   *)
(* graphs.  Before each they vote on the path its collectives take, and on *)
(* the registered path a collective records the address of its buffer;     *)
(* after it they compare how many buffers they have recorded, exchange     *)
(* their handles and register them by position.  All of it goes through    *)
(* all_gather_object: a rank puts its object into the TCP store under its  *)
(* own sequence number and waits for the peers' objects of that number,    *)
(* whatever they were sent for.                                            *)
(*                                                                         *)
(* A buffer is <<capture, collective>>, the same on every rank when the    *)
(* ranks bind it in the same collective.  A capture may raise in every rank*)
(* at the same collective, and, LoneFailures times, in one rank only.      *)
(* The group was set up with the registered path requested, or no rank     *)
(* would vote; the path outside a capture is nobody's concern here.        *)
(***************************************************************************)
EXTENDS Naturals, Sequences

CONSTANTS Ranks,
          MaxCaptures,    \* bound: how many graphs each rank captures
          MaxLength,      \* bound: collectives of a graph
          LoneFailures    \* bound: captures that raise in one rank only

ASSUME GraphCaptureAssumption ==
  MaxCaptures \in Nat \ {0} /\ MaxLength \in Nat /\ LoneFailures \in Nat

VARIABLES
  length,     \* collectives of each graph, the same on every rank
  raisesAt,   \* the collective at which, or 1 + the number of those after which,
              \* a capture raises in every rank; 0: it does not
  opt_out,    \* has the host of a rank opted out (or expandable segments on)?
  made,       \* captures each rank has finished or given up
  pc,         \* where in capture() a rank is
  step,       \* collectives of the running capture
  registered, \* _register_for_capturing inside it
  recorded,   \* graph_unreg_input_buffers_
  seq,        \* _ipc_seq
  store,      \* store[number][rank]: the object put there
  table,      \* what register_graph_buffers has entered: the buffer of each rank
  alone       \* captures that have raised in one rank only (history)

vars == <<length, raisesAt, opt_out, made, pc, step, registered, recorded, seq,
          store, table, alone>>

Captures == 1..MaxCaptures
Buffers == Captures \X (1..MaxLength)
Numbers == 0..(3 * MaxCaptures - 1)

Object(k, v) == [kind |-> k, value |-> v]
Nothing == Object("nothing", 0)

\* Reusing the number of the last exchange.
SameSeq(r) == seq[r]

NextSeq(r) == seq[r] + 1

\* all_gather_object, up to its first wait: the object is in the store.
Put(r, object) ==
  /\ store' = [store EXCEPT ![seq[r]][r] = object]
  /\ seq' = [seq EXCEPT ![r] = NextSeq(r)]

\* What it returns once every rank has put an object under this number.
Gathered(r) == store[seq[r] - 1]
Complete(r) == \A p \in Ranks : Gathered(r)[p] # Nothing

\* The truth value of an object, in Python.
Truthy(o) == CASE o.kind = "vote" -> o.value
               [] o.kind = "count" -> o.value # 0
               [] OTHER -> TRUE

\* Its equality with a number: True is 1 and False is 0.
Equals(o, n) == CASE o.kind = "vote" -> n = (IF o.value THEN 1 ELSE 0)
                  [] o.kind = "count" -> n = o.value
                  [] OTHER -> FALSE

\* Each rank decides for itself.
OwnVote(r) == Truthy(Gathered(r)[r])

Agreed(r) == \A p \in Ranks : Truthy(Gathered(r)[p])

\* No comparison.
AnyCounts(r) == TRUE

CountsAgree(r) == \A p \in Ranks : Equals(Gathered(r)[p], Len(recorded[r]))

\* Each element of the gathered list unpacks into handles and offsets.
Unpacks(r) == \A p \in Ranks : Gathered(r)[p].kind = "handles"

\* Memory behind the handles of a peer that has sent fewer.
Garbage == <<0, 0>>
Handle(o, i) == IF i <= Len(o.value) THEN o.value[i] ELSE Garbage

\* The peers' handles at the positions of this rank's own buffers.
Entries(r) == {[p \in Ranks |-> Handle(Gathered(r)[p], i)] : i \in 1..Len(recorded[r])}

Init ==
  /\ length \in [Captures -> 0..MaxLength]
  /\ raisesAt \in [Captures -> 0..(MaxLength + 1)]
  /\ opt_out \in [Ranks -> BOOLEAN]
  /\ made = [r \in Ranks |-> 0]
  /\ pc = [r \in Ranks |-> "idle"]
  /\ step = [r \in Ranks |-> 0]
  /\ registered = [r \in Ranks |-> FALSE]
  /\ recorded = [r \in Ranks |-> <<>>]
  /\ seq = [r \in Ranks |-> 0]
  /\ store = [n \in Numbers |-> [r \in Ranks |-> Nothing]]
  /\ table = [r \in Ranks |-> {}]
  /\ alone = 0

Running(r) == made[r] + 1

\* The end of capture(), normally or by an exception.
Leave(r) ==
  /\ pc' = [pc EXCEPT ![r] = "idle"]
  /\ made' = [made EXCEPT ![r] = @ + 1]
  /\ step' = [step EXCEPT ![r] = 0]
  /\ registered' = [registered EXCEPT ![r] = FALSE]

-----------------------------------------------------------------------------
\* The setter of enable_register_for_capturing, outside the capture window.
SetOptOut(r) ==
  /\ pc[r] = "idle" /\ made[r] < MaxCaptures
  /\ opt_out' = [opt_out EXCEPT ![r] = ~@]
  /\ UNCHANGED <<length, raisesAt, made, pc, step, registered, recorded, seq, store,
                 table, alone>>

\* A rank that votes only if it wants the registered path.
VoteIfWilling(r) ==
  IF opt_out[r]
  THEN pc' = [pc EXCEPT ![r] = "body"] /\ UNCHANGED <<store, seq>>
  ELSE pc' = [pc EXCEPT ![r] = "vote"] /\ Put(r, Object("vote", TRUE))

Vote(r) ==
  /\ Put(r, Object("vote", ~opt_out[r]))
  /\ pc' = [pc EXCEPT ![r] = "vote"]

Begin(r) ==
  /\ pc[r] = "idle" /\ made[r] < MaxCaptures
  /\ Vote(r)
  /\ UNCHANGED <<length, raisesAt, opt_out, made, step, registered, recorded, table, alone>>

Agree(r) ==
  /\ pc[r] = "vote" /\ Complete(r)
  /\ registered' = [registered EXCEPT ![r] = Agreed(r)]
  /\ pc' = [pc EXCEPT ![r] = "body"]
  /\ UNCHANGED <<length, raisesAt, opt_out, made, step, recorded, seq, store, table, alone>>

\* A collective of the graph; on the registered path its buffer is recorded.
Collective(r) ==
  /\ pc[r] = "body" /\ step[r] < length[Running(r)]
  /\ raisesAt[Running(r)] # step[r] + 1
  /\ step' = [step EXCEPT ![r] = @ + 1]
  /\ recorded' = IF registered[r]
                 THEN [recorded EXCEPT ![r] = Append(@, <<Running(r), step[r] + 1>>)]
                 ELSE recorded
  /\ UNCHANGED <<length, raisesAt, opt_out, made, pc, registered, seq, store, table, alone>>

\* The capture raises: nothing is exchanged, and what it has recorded stays.
Raise(r) ==
  /\ pc[r] = "body"
  /\ \/ raisesAt[Running(r)] = step[r] + 1 /\ UNCHANGED alone
     \/ alone < LoneFailures /\ alone' = alone + 1
  /\ Leave(r)
  /\ UNCHANGED <<length, raisesAt, opt_out, recorded, seq, store, table>>

\* flush_graph_buffers, up to the first exchange.
Flush(r) ==
  /\ pc[r] = "body" /\ step[r] = length[Running(r)]
  /\ raisesAt[Running(r)] # step[r] + 1
  /\ Put(r, Object("count", Len(recorded[r])))
  /\ pc' = [pc EXCEPT ![r] = "count"]
  /\ UNCHANGED <<length, raisesAt, opt_out, made, step, registered, recorded, table, alone>>

\* Ranks that have recorded different numbers of buffers raise.
Mismatch(r) ==
  /\ pc[r] = "count" /\ Complete(r) /\ ~CountsAgree(r)
  /\ Leave(r)
  /\ UNCHANGED <<length, raisesAt, opt_out, recorded, seq, store, table, alone>>

NothingToRegister(r) ==
  /\ pc[r] = "count" /\ Complete(r) /\ CountsAgree(r)
  /\ recorded[r] = <<>>
  /\ Leave(r)
  /\ UNCHANGED <<length, raisesAt, opt_out, recorded, seq, store, table, alone>>

SendHandles(r) ==
  /\ pc[r] = "count" /\ Complete(r) /\ CountsAgree(r)
  /\ recorded[r] # <<>>
  /\ Put(r, Object("handles", recorded[r]))
  /\ pc' = [pc EXCEPT ![r] = "handles"]
  /\ UNCHANGED <<length, raisesAt, opt_out, made, step, registered, recorded, table, alone>>

Register(r) ==
  /\ pc[r] = "handles" /\ Complete(r) /\ Unpacks(r)
  /\ table' = [table EXCEPT ![r] = @ \cup Entries(r)]
  /\ recorded' = [recorded EXCEPT ![r] = <<>>]
  /\ Leave(r)
  /\ UNCHANGED <<length, raisesAt, opt_out, seq, store, alone>>

\* A peer's object was something else: unpacking it raises.
CannotUnpack(r) ==
  /\ pc[r] = "handles" /\ Complete(r) /\ ~Unpacks(r)
  /\ Leave(r)
  /\ UNCHANGED <<length, raisesAt, opt_out, recorded, seq, store, table, alone>>

Capture(r) ==
  \/ Begin(r) \/ Agree(r) \/ Collective(r) \/ Raise(r) \/ Flush(r)
  \/ Mismatch(r) \/ NothingToRegister(r) \/ SendHandles(r) \/ Register(r) \/ CannotUnpack(r)

Next == \E r \in Ranks : SetOptOut(r) \/ Capture(r)

Spec == Init /\ [][Next]_vars

\* Every rank goes on capturing; hosts need not change their minds.
FairSpec == Spec /\ \A r \in Ranks : WF_vars(Capture(r))

-----------------------------------------------------------------------------
Objects ==
  [kind : {"vote"}, value : BOOLEAN] \cup [kind : {"count"}, value : Nat]
    \cup [kind : {"handles"}, value : Seq(Buffers)] \cup {Nothing}

TypeOK ==
  /\ made \in [Ranks -> 0..MaxCaptures]
  /\ pc \in [Ranks -> {"idle", "vote", "body", "count", "handles"}]
  /\ step \in [Ranks -> 0..MaxLength]
  /\ opt_out \in [Ranks -> BOOLEAN] /\ registered \in [Ranks -> BOOLEAN]
  /\ recorded \in [Ranks -> Seq(Buffers)]
  /\ seq \in [Ranks -> 0..(3 * MaxCaptures)]
  /\ store \in [Numbers -> [Ranks -> Objects]]
  /\ \A r \in Ranks, n \in Numbers : store[n][r] # Nothing <=> n < seq[r]
  /\ table \in [Ranks -> SUBSET [Ranks -> Buffers \cup {Garbage}]]
  /\ alone \in 0..LoneFailures

\* "ranks that split would mismatch at flush and read the wrong peer buffers on
\* replay" (custom_all_reduce.py:1999-2001): ranks inside the same capture are
\* on the same path, however their hosts have voted.
SamePath ==
  alone = 0 =>
    \A r, p \in Ranks :
      made[r] = made[p] /\ {pc[r], pc[p]} \subseteq {"body", "count", "handles"}
        => registered[r] = registered[p]

\* "They are registered by position, so every rank must capture the same
\* collectives in the same order" (custom_all_reduce.py:917-918): every registered
\* position pairs the buffers that the ranks have bound in one collective, although
\* captures that raised on every rank have left buffers behind that a later flush
\* registers, and hosts opt in and out between them.  A rank that raises alone
\* breaks it: its next vote is taken for the count its peers wait for.
RegisteredTogether ==
  alone = 0 => \A r \in Ranks : \A e \in table[r] : \A p \in Ranks : e[p] = e[r]

\* No rank waits for ever for an object in the store, unless a capture has
\* raised in one rank only.
EveryCaptureEnds ==
  [](alone = 0) => <>(\A r \in Ranks : made[r] = MaxCaptures)
=============================================================================
