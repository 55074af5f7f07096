------------------------- MODULE GraphCaptureProofs -------------------------
(***************************************************************************)
(* Theorems about GraphCapture, for any number of ranks, captures and      *)
(* collectives.  The variables keep their types, so that no rank ever needs*)
(* a number past the last (TypeCorrect).  As long as no capture has raised *)
(* in one rank only, the ranks go through their captures in lockstep, none *)
(* more than one exchange ahead, so that an object put under a number is   *)
(* what the ranks waiting there wait for.  Hence they capture on one path  *)
(* (SamePathHolds) and register what they have bound together              *)
(* (RegisteredTogetherHolds).                                              *)
(***************************************************************************)
EXTENDS GraphCapture, TLAPS

\* The graphs to capture, which the ranks have in common.
Graphs ==
  /\ length \in [Captures -> 0..MaxLength]
  /\ raisesAt \in [Captures -> 0..(MaxLength + 1)]

\* The exchanges of its running capture that r has put its object into.
Stage(r) ==
  IF pc[r] = "idle" THEN 0 ELSE
  IF pc[r] \in {"vote", "body"} THEN 1 ELSE
  IF pc[r] = "count" THEN 2 ELSE 3

\* The number of the first of them.
Start(r) == seq[r] - Stage(r)

\* A capture takes three numbers at most.
Numbering ==
  \A r \in Ranks :
    /\ pc[r] # "idle" => made[r] < MaxCaptures
    /\ Stage(r) <= seq[r] /\ seq[r] <= 3 * made[r] + Stage(r)

TypeInv == TypeOK /\ Graphs /\ Numbering

Waiting(r) == pc[r] \in {"vote", "count", "handles"}

\* Does capture m raise in every rank?
Raises(m) == raisesAt[m] \in 1..(length[m] + 1)

\* How far r is in the graph it captures.
Progress(r) ==
  /\ pc[r] \in {"idle", "vote"} => step[r] = 0 /\ ~registered[r]
  /\ pc[r] = "body" => step[r] <= length[Running(r)]
                       /\ (Raises(Running(r)) => step[r] < raisesAt[Running(r)])
  /\ pc[r] \in {"count", "handles"} => step[r] = length[Running(r)] /\ ~Raises(Running(r))
  /\ pc[r] = "handles" => recorded[r] # <<>>

\* The buffers r has recorded in its running capture, behind those that earlier
\* captures have left.
Recent(r) == IF registered[r] THEN step[r] ELSE 0
Older(r) == Len(recorded[r]) - Recent(r)
InOrder(r) ==
  /\ Recent(r) <= Len(recorded[r])
  /\ \A j \in 1..Recent(r) : recorded[r][Older(r) + j] = <<Running(r), j>>

\* The path of r's running capture, once the votes are in.
Path(r) == IF pc[r] = "vote" THEN Agreed(r) ELSE registered[r]

\* No rank is more than one exchange ahead of another, or past one that another has
\* not reached.
Lag == \A r, p \in Ranks : seq[r] <= seq[p] + (IF Waiting(r) THEN 1 ELSE 0)

\* Two ranks in the same capture.
SameCapture(r, p) ==
  /\ Start(r) = Start(p)
  /\ Older(r) = Older(p)
  /\ \A i \in 1..Older(r) : recorded[r][i] = recorded[p][i]
  /\ pc[r] # "idle" /\ pc[p] \in {"body", "count", "handles"} => Path(r) = registered[p]

\* p has made the capture that r is in, and raised,
\* or found nothing to register,
\* or registered.
Raised(r, p) ==
  /\ Raises(Running(r)) /\ pc[r] \in {"vote", "body"} /\ Start(p) = Start(r) + 1
  /\ Len(recorded[p]) = Older(r) + (IF Path(r) THEN raisesAt[Running(r)] - 1 ELSE 0)
  /\ \A i \in 1..Older(r) : recorded[p][i] = recorded[r][i]
  /\ \A i \in (Older(r) + 1)..Len(recorded[p]) : recorded[p][i] = <<Running(r), i - Older(r)>>
Flushed(r, p) ==
  /\ recorded[p] = <<>>
  /\ \/ pc[r] = "count" /\ recorded[r] = <<>> /\ Start(p) = Start(r) + 2
     \/ pc[r] = "handles" /\ Start(p) = Start(r) + 3

AheadOf(r, p) == pc[p] \in {"idle", "vote"} /\ (Raised(r, p) \/ Flushed(r, p))

\* The object that r waits for: a vote, or what it has itself put.
Fits(r, o) ==
  IF pc[r] = "vote" THEN o.kind = "vote"
  ELSE IF pc[r] = "count" THEN o = Object("count", Len(recorded[r]))
  ELSE o = Object("handles", recorded[r])
Answers ==
  \A r, p \in Ranks : Waiting(r) /\ seq[r] <= seq[p] => Fits(r, Gathered(r)[p])

Lockstep ==
  \A r, p \in Ranks :
    /\ made[p] <= made[r] + 1
    /\ made[p] = made[r] => SameCapture(r, p)
    /\ made[p] = made[r] + 1 => AheadOf(r, p)

Together ==
  /\ \A r \in Ranks : Progress(r) /\ InOrder(r)
  /\ Lag /\ Answers /\ Lockstep
  /\ \A r \in Ranks : \A e \in table[r] : \A p \in Ranks : e[p] = e[r]

IInv == TypeInv /\ (alone = 0 => Together)

-----------------------------------------------------------------------------
\* The variables of TypeOK that say where a rank is, and those that hold objects.
ControlTypes ==
  /\ made \in [Ranks -> 0..MaxCaptures]
  /\ pc \in [Ranks -> {"idle", "vote", "body", "count", "handles"}]
  /\ step \in [Ranks -> 0..MaxLength]
  /\ opt_out \in [Ranks -> BOOLEAN] /\ registered \in [Ranks -> BOOLEAN]
  /\ alone \in 0..LoneFailures
ObjectTypes ==
  /\ seq \in [Ranks -> 0..(3 * MaxCaptures)]
  /\ store \in [Numbers -> [Ranks -> Objects]]
  /\ \A r \in Ranks, n \in Numbers : store[n][r] # Nothing <=> n < seq[r]
BufferTypes ==
  /\ recorded \in [Ranks -> Seq(Buffers)]
  /\ table \in [Ranks -> SUBSET [Ranks -> Buffers \cup {Garbage}]]

\* The types in parts.
LEMMA TypesInParts ==
  /\ TypeInv <=> ControlTypes /\ ObjectTypes /\ BufferTypes /\ Graphs /\ Numbering
BY DEF TypeInv, TypeOK, ControlTypes, ObjectTypes, BufferTypes

\* The capture a rank runs is one of those to be made, and it has a number left for
\* each object it may still put.
LEMMA NumbersLeft ==
  ASSUME TypeInv, NEW r \in Ranks
  PROVE  /\ made[r] < MaxCaptures => Running(r) \in Captures /\ made[r] + 1 \in 0..MaxCaptures
         /\ (pc[r] = "idle" /\ made[r] < MaxCaptures) \/ pc[r] \in {"body", "count"} =>
              seq[r] \in Numbers /\ seq[r] + 1 \in 0..(3 * MaxCaptures)
<1>1. /\ made[r] \in Nat /\ seq[r] \in Nat /\ MaxCaptures \in Nat
      /\ seq[r] <= 3 * made[r] + Stage(r)
      /\ pc[r] # "idle" => made[r] < MaxCaptures
  BY GraphCaptureAssumption DEF TypeInv, TypeOK, Numbering
<1>2. made[r] < MaxCaptures => Running(r) \in Captures /\ made[r] + 1 \in 0..MaxCaptures
  BY <1>1 DEF Running, Captures
<1>3. ASSUME made[r] < MaxCaptures, Stage(r) \in 0..2
      PROVE  seq[r] \in Numbers /\ seq[r] + 1 \in 0..(3 * MaxCaptures)
  BY <1>1, <1>3 DEF Numbers
<1>4. pc[r] = "idle" \/ pc[r] \in {"body", "count"} => Stage(r) \in 0..2
  BY DEF Stage
<1> QED
  BY <1>1, <1>2, <1>3, <1>4

\* Putting an object into the store.
LEMMA PutTypes ==
  ASSUME TypeInv, NEW r \in Ranks, seq[r] \in Numbers, seq[r] + 1 \in 0..(3 * MaxCaptures),
         NEW o \in Objects, o # Nothing, Put(r, o)
  PROVE  ObjectTypes' /\ seq' = [seq EXCEPT ![r] = seq[r] + 1]
<1>1. ObjectTypes
  BY TypesInParts
<1>2. seq' = [seq EXCEPT ![r] = seq[r] + 1] /\ store' = [store EXCEPT ![seq[r]][r] = o]
  BY DEF Put, NextSeq
<1>3. seq' \in [Ranks -> 0..(3 * MaxCaptures)] /\ store' \in [Numbers -> [Ranks -> Objects]]
  BY <1>1, <1>2 DEF ObjectTypes
<1>4. ASSUME NEW q \in Ranks, NEW n \in Numbers
      PROVE  store'[n][q] # Nothing <=> n < seq'[q]
  <2>1. n \in Nat /\ seq[r] \in Nat /\ (store[n][q] # Nothing <=> n < seq[q])
    BY <1>1, <1>4 DEF ObjectTypes, Numbers
  <2>2. CASE q = r /\ n = seq[r]
    BY <1>1, <1>2, <2>1, <2>2 DEF ObjectTypes
  <2>3. CASE q = r /\ n # seq[r]
    BY <1>1, <1>2, <2>1, <2>3 DEF ObjectTypes
  <2>4. CASE q # r
    BY <1>1, <1>2, <2>1, <2>4 DEF ObjectTypes
  <2> QED
    BY <2>2, <2>3, <2>4
<1> QED
  BY <1>2, <1>3, <1>4 DEF ObjectTypes

\* What the ranks send are objects.
LEMMA Sent ==
  ASSUME TypeInv, NEW r \in Ranks
  PROVE  /\ Object("vote", ~opt_out[r]) \in Objects \ {Nothing}
         /\ Object("count", Len(recorded[r])) \in Objects \ {Nothing}
         /\ Object("handles", recorded[r]) \in Objects \ {Nothing}
<1>1. Len(recorded[r]) \in Nat /\ recorded[r] \in Seq(Buffers)
  BY DEF TypeInv, TypeOK
<1>2. ASSUME NEW v PROVE /\ Object("vote", v) # Nothing /\ Object("count", v) # Nothing
                         /\ Object("handles", v) # Nothing
  BY DEF Object, Nothing
<1>3. Object("vote", ~opt_out[r]) \in [kind : {"vote"}, value : BOOLEAN]
  BY DEF Object
<1>4. Object("count", Len(recorded[r])) \in [kind : {"count"}, value : Nat]
  BY <1>1 DEF Object
<1>5. Object("handles", recorded[r]) \in [kind : {"handles"}, value : Seq(Buffers)]
  BY <1>1 DEF Object
<1> QED
  BY <1>2, <1>3, <1>4, <1>5 DEF Objects

\* What a rank reads of the exchange it waits for.
LEMMA GatheredTypes ==
  ASSUME TypeInv, NEW r \in Ranks, Waiting(r), NEW p \in Ranks
  PROVE  /\ seq[r] - 1 \in Numbers
         /\ Gathered(r)[p] \in Objects
         /\ Gathered(r)[p].kind = "handles" => Gathered(r)[p].value \in Seq(Buffers)
         /\ Gathered(r)[p] # Nothing <=> seq[r] <= seq[p]
<1>1. Stage(r) \in 1..3
  BY DEF Stage, Waiting
<1>2. seq[r] \in 0..(3 * MaxCaptures) /\ seq[p] \in Nat /\ Stage(r) <= seq[r]
      /\ MaxCaptures \in Nat
  BY GraphCaptureAssumption DEF TypeInv, TypeOK, Numbering
<1>3. seq[r] - 1 \in Numbers /\ (seq[r] - 1 < seq[p] <=> seq[r] <= seq[p])
  BY <1>1, <1>2 DEF Numbers
<1>4. Gathered(r)[p] \in Objects /\ (Gathered(r)[p] # Nothing <=> seq[r] <= seq[p])
  BY <1>3 DEF TypeInv, TypeOK, Gathered
<1>5. \A o \in Objects : o.kind = "handles" => o.value \in Seq(Buffers)
  <2> SUFFICES ASSUME NEW o \in Objects, o.kind = "handles" PROVE o.value \in Seq(Buffers)
    OBVIOUS
  <2>1. CASE o \in [kind : {"handles"}, value : Seq(Buffers)]
    BY <2>1
  <2>2. CASE o \in [kind : {"vote"}, value : BOOLEAN]
    BY <2>2
  <2>3. CASE o \in [kind : {"count"}, value : Nat]
    BY <2>3
  <2>4. CASE o = Nothing
    BY <2>4 DEF Nothing, Object
  <2> QED
    BY <2>1, <2>2, <2>3, <2>4 DEF Objects
<1> QED
  BY <1>3, <1>4, <1>5

\* What a rank registers are buffers, or what lies behind the end of a peer's.
LEMMA EntryTypes ==
  ASSUME TypeInv, NEW r \in Ranks, pc[r] = "handles", Unpacks(r)
  PROVE  Entries(r) \subseteq [Ranks -> Buffers \cup {Garbage}]
<1>1. ASSUME NEW p \in Ranks, NEW i \in 1..Len(recorded[r])
      PROVE  Handle(Gathered(r)[p], i) \in Buffers \cup {Garbage}
  <2>1. Gathered(r)[p].value \in Seq(Buffers)
    BY GatheredTypes DEF Unpacks, Waiting
  <2>2. Len(recorded[r]) \in Nat
    BY DEF TypeInv, TypeOK
  <2>3. i \in Nat /\ 1 <= i
    BY <2>2
  <2> QED
    BY <2>1, <2>3 DEF Handle
<1> QED
  BY <1>1 DEF Entries

\* Leaving a capture, of which at most three numbers have been used.
LEMMA LeaveTypes ==
  ASSUME TypeInv, NEW r \in Ranks, pc[r] # "idle", Leave(r), seq' = seq,
         UNCHANGED <<length, raisesAt, opt_out>>, alone' \in 0..LoneFailures
  PROVE  ControlTypes' /\ Graphs' /\ Numbering'
<1>1. ControlTypes /\ Graphs /\ Numbering
  BY TypesInParts
<1>2. made[r] < MaxCaptures /\ made[r] + 1 \in 0..MaxCaptures
  BY NumbersLeft DEF TypeInv, Numbering
<1>3. /\ made' = [made EXCEPT ![r] = made[r] + 1]
      /\ pc' = [pc EXCEPT ![r] = "idle"]
      /\ step' = [step EXCEPT ![r] = 0]
      /\ registered' = [registered EXCEPT ![r] = FALSE]
  BY DEF Leave
<1>4. ControlTypes'
  BY <1>1, <1>2, <1>3, GraphCaptureAssumption DEF ControlTypes
<1>5. ASSUME NEW q \in Ranks
      PROVE  /\ pc'[q] # "idle" => made'[q] < MaxCaptures
             /\ Stage(q)' <= seq'[q] /\ seq'[q] <= 3 * made'[q] + Stage(q)'
  <2>1. /\ pc[q] # "idle" => made[q] < MaxCaptures
        /\ Stage(q) <= seq[q] /\ seq[q] <= 3 * made[q] + Stage(q)
        /\ Stage(q) \in 0..3 /\ made[q] \in Nat /\ seq[q] \in Nat
    BY <1>1 DEF Numbering, ControlTypes, TypeInv, TypeOK, Stage
  <2>2. CASE q = r
    <3>1. pc'[q] = "idle" /\ made'[q] = made[q] + 1 /\ seq'[q] = seq[q]
      BY <1>1, <1>3, <2>2 DEF ControlTypes
    <3>2. Stage(q)' = 0
      BY <3>1 DEF Stage
    <3> QED
      BY <2>1, <3>1, <3>2
  <2>3. CASE q # r
    <3>1. pc'[q] = pc[q] /\ made'[q] = made[q] /\ seq'[q] = seq[q]
      BY <1>1, <1>3, <2>3 DEF ControlTypes
    <3>2. Stage(q)' = Stage(q)
      BY <3>1 DEF Stage
    <3> QED
      BY <2>1, <3>1, <3>2
  <2> QED
    BY <2>2, <2>3
<1> QED
  BY <1>1, <1>4, <1>5 DEF Graphs, Numbering

\* Staying in a capture, or beginning it, with or without putting an object.
LEMMA StayTypes ==
  ASSUME TypeInv, NEW r \in Ranks, NEW there \in {"vote", "body", "count", "handles"},
         made[r] < MaxCaptures, pc' = [pc EXCEPT ![r] = there],
         UNCHANGED <<length, raisesAt, opt_out, made, alone>>,
         step' \in [Ranks -> 0..MaxLength], registered' \in [Ranks -> BOOLEAN],
         \/ seq' = seq /\ Stage(r)' = Stage(r)
         \/ seq' = [seq EXCEPT ![r] = seq[r] + 1] /\ Stage(r)' = Stage(r) + 1
  PROVE  ControlTypes' /\ Graphs' /\ Numbering'
<1>1. ControlTypes /\ Graphs /\ Numbering /\ seq \in [Ranks -> Nat]
  BY TypesInParts DEF TypeInv, TypeOK
<1>2. ControlTypes'
  BY <1>1 DEF ControlTypes
<1>3. ASSUME NEW q \in Ranks
      PROVE  /\ pc'[q] # "idle" => made'[q] < MaxCaptures
             /\ Stage(q)' <= seq'[q] /\ seq'[q] <= 3 * made'[q] + Stage(q)'
  <2>1. /\ pc[q] # "idle" => made[q] < MaxCaptures
        /\ Stage(q) <= seq[q] /\ seq[q] <= 3 * made[q] + Stage(q)
        /\ Stage(q) \in 0..3 /\ made[q] \in Nat /\ seq[q] \in Nat
    BY <1>1 DEF Numbering, ControlTypes, Stage
  <2>2. CASE q = r
    <3>1. \/ seq'[q] = seq[q] /\ Stage(q)' = Stage(q)
          \/ seq'[q] = seq[q] + 1 /\ Stage(q)' = Stage(q) + 1
      BY <1>1, <2>2
    <3> QED
      BY <2>1, <2>2, <3>1
  <2>3. CASE q # r
    <3>1. pc'[q] = pc[q] /\ seq'[q] = seq[q]
      BY <1>1, <2>3 DEF ControlTypes
    <3>2. Stage(q)' = Stage(q)
      BY <3>1 DEF Stage
    <3> QED
      BY <2>1, <3>1, <3>2
  <2> QED
    BY <2>2, <2>3
<1> QED
  BY <1>1, <1>2, <1>3 DEF Graphs, Numbering

\* The types hold at the start.
LEMMA TypeInvInit == Init => TypeInv
<1> SUFFICES ASSUME Init PROVE TypeInv
  OBVIOUS
<1>1. ControlTypes /\ Graphs
  BY GraphCaptureAssumption DEF Init, ControlTypes, Graphs
<1>2. ObjectTypes
  <2>1. Nothing \in Objects
    BY DEF Objects
  <2>2. \A n \in Numbers : n \in Nat /\ ~(n < 0)
    BY GraphCaptureAssumption DEF Numbers
  <2>3. 0 \in 0..(3 * MaxCaptures)
    BY GraphCaptureAssumption
  <2> QED
    BY <2>1, <2>2, <2>3 DEF Init, ObjectTypes
<1>3. BufferTypes
  BY DEF Init, BufferTypes
<1>4. Numbering
  <2>1. ASSUME NEW r \in Ranks
        PROVE  pc[r] = "idle" /\ Stage(r) = 0 /\ seq[r] = 0 /\ made[r] = 0
    BY DEF Init, Stage
  <2>2. 0 <= 0 /\ 0 <= 3 * 0 + 0
    OBVIOUS
  <2> QED
    BY <2>1, <2>2 DEF Numbering
<1> QED
  BY <1>1, <1>2, <1>3, <1>4, TypesInParts

\* Every step of a capture preserves them.
LEMMA CaptureTypes ==
  ASSUME TypeInv, NEW r \in Ranks, Capture(r)
  PROVE  TypeInv'
<1>1. ControlTypes /\ ObjectTypes /\ BufferTypes /\ Graphs
  BY TypesInParts
<1>2. MaxCaptures \in Nat /\ MaxLength \in Nat /\ LoneFailures \in Nat
  BY GraphCaptureAssumption
<1>3. ASSUME UNCHANGED <<seq, store>> PROVE ObjectTypes'
  BY <1>1, <1>3 DEF ObjectTypes
<1>4. ASSUME UNCHANGED <<recorded, table>> PROVE BufferTypes'
  BY <1>1, <1>4 DEF BufferTypes
<1>5. pc[r] # "idle" => made[r] < MaxCaptures
  BY DEF TypeInv, Numbering
<1>6. ASSUME ControlTypes', Graphs', Numbering', ObjectTypes', BufferTypes'
      PROVE  TypeInv'
  BY <1>6 DEF TypeInv, TypeOK, ControlTypes, ObjectTypes, BufferTypes
<1>7. CASE Begin(r)
  <2>1. seq[r] \in Numbers /\ seq[r] + 1 \in 0..(3 * MaxCaptures) /\ pc[r] = "idle"
    BY <1>7, NumbersLeft DEF Begin
  <2>2. ObjectTypes' /\ seq' = [seq EXCEPT ![r] = seq[r] + 1]
    BY <1>7, <2>1, PutTypes, Sent DEF Begin, Vote
  <2>3. pc' = [pc EXCEPT ![r] = "vote"] /\ pc'[r] = "vote"
    BY <1>1, <1>7 DEF Begin, Vote, ControlTypes
  <2>4. Stage(r)' = Stage(r) + 1
    BY <2>1, <2>3 DEF Stage
  <2>5. ControlTypes' /\ Graphs' /\ Numbering'
    BY <1>1, <1>7, <2>2, <2>3, <2>4, StayTypes DEF Begin, ControlTypes
  <2>6. BufferTypes'
    BY <1>4, <1>7 DEF Begin
  <2> QED
    BY <1>6, <2>2, <2>5, <2>6
<1>8. CASE Agree(r)
  <2>1. pc' = [pc EXCEPT ![r] = "body"] /\ pc'[r] = "body" /\ pc[r] = "vote"
    BY <1>1, <1>8 DEF Agree, ControlTypes
  <2>2. Stage(r)' = Stage(r)
    BY <2>1 DEF Stage
  <2>3. Agreed(r) \in BOOLEAN
    BY DEF Agreed
  <2>4. registered' \in [Ranks -> BOOLEAN]
    BY <1>1, <1>8, <2>3 DEF Agree, ControlTypes
  <2>5. ControlTypes' /\ Graphs' /\ Numbering'
    BY <1>1, <1>5, <1>8, <2>1, <2>2, <2>4, StayTypes DEF Agree, ControlTypes
  <2>6. ObjectTypes' /\ BufferTypes'
    BY <1>3, <1>4, <1>8 DEF Agree
  <2> QED
    BY <1>6, <2>5, <2>6
<1>9. CASE Collective(r)
  <2>1. pc' = [pc EXCEPT ![r] = "body"] /\ pc'[r] = "body" /\ pc[r] = "body"
    BY <1>1, <1>9 DEF Collective, ControlTypes
  <2>2. Stage(r)' = Stage(r)
    BY <2>1 DEF Stage
  <2>3. /\ Running(r) \in Captures /\ length[Running(r)] \in 0..MaxLength
        /\ step[r] \in Nat /\ step[r] < length[Running(r)]
    BY <1>1, <1>5, <1>9, <2>1, NumbersLeft DEF Collective, Graphs, ControlTypes
  <2>4. step[r] + 1 \in 1..MaxLength
    BY <1>2, <2>3
  <2>5. step' \in [Ranks -> 0..MaxLength]
    BY <1>1, <1>9, <2>4 DEF Collective, ControlTypes
  <2>6. ControlTypes' /\ Graphs' /\ Numbering'
    BY <1>1, <1>5, <1>9, <2>1, <2>2, <2>5, StayTypes DEF Collective, ControlTypes
  <2>7. ObjectTypes'
    BY <1>3, <1>9 DEF Collective
  <2>8. <<Running(r), step[r] + 1>> \in Buffers
    BY <2>3, <2>4 DEF Buffers
  <2>9. BufferTypes'
    BY <1>1, <1>9, <2>8 DEF Collective, BufferTypes
  <2> QED
    BY <1>6, <2>6, <2>7, <2>9
<1>10. CASE Raise(r)
  <2>1. alone' \in 0..LoneFailures
    BY <1>1, <1>2, <1>10 DEF Raise, ControlTypes
  <2>2. ControlTypes' /\ Graphs' /\ Numbering'
    BY <1>10, <2>1, LeaveTypes DEF Raise
  <2> QED
    BY <1>3, <1>4, <1>6, <1>10, <2>2 DEF Raise
<1>11. CASE Flush(r)
  <2>1. seq[r] \in Numbers /\ seq[r] + 1 \in 0..(3 * MaxCaptures) /\ pc[r] = "body"
    BY <1>11, NumbersLeft DEF Flush
  <2>2. ObjectTypes' /\ seq' = [seq EXCEPT ![r] = seq[r] + 1]
    BY <1>11, <2>1, PutTypes, Sent DEF Flush
  <2>3. pc' = [pc EXCEPT ![r] = "count"] /\ pc'[r] = "count"
    BY <1>1, <1>11 DEF Flush, ControlTypes
  <2>4. Stage(r)' = Stage(r) + 1
    BY <2>1, <2>3 DEF Stage
  <2>5. ControlTypes' /\ Graphs' /\ Numbering'
    BY <1>1, <1>5, <1>11, <2>1, <2>2, <2>3, <2>4, StayTypes DEF Flush, ControlTypes
  <2> QED
    BY <1>4, <1>6, <1>11, <2>2, <2>5 DEF Flush
<1>12. CASE SendHandles(r)
  <2>1. seq[r] \in Numbers /\ seq[r] + 1 \in 0..(3 * MaxCaptures) /\ pc[r] = "count"
    BY <1>12, NumbersLeft DEF SendHandles
  <2>2. ObjectTypes' /\ seq' = [seq EXCEPT ![r] = seq[r] + 1]
    BY <1>12, <2>1, PutTypes, Sent DEF SendHandles
  <2>3. pc' = [pc EXCEPT ![r] = "handles"] /\ pc'[r] = "handles"
    BY <1>1, <1>12 DEF SendHandles, ControlTypes
  <2>4. Stage(r)' = Stage(r) + 1
    BY <2>1, <2>3 DEF Stage
  <2>5. ControlTypes' /\ Graphs' /\ Numbering'
    BY <1>1, <1>5, <1>12, <2>1, <2>2, <2>3, <2>4, StayTypes DEF SendHandles, ControlTypes
  <2> QED
    BY <1>4, <1>6, <1>12, <2>2, <2>5 DEF SendHandles
<1>13. CASE Mismatch(r) \/ NothingToRegister(r) \/ CannotUnpack(r)
  <2>1. ControlTypes' /\ Graphs' /\ Numbering'
    BY <1>1, <1>13, LeaveTypes DEF Mismatch, NothingToRegister, CannotUnpack, ControlTypes
  <2> QED
    BY <1>3, <1>4, <1>6, <1>13, <2>1 DEF Mismatch, NothingToRegister, CannotUnpack
<1>14. CASE Register(r)
  <2>1. ControlTypes' /\ Graphs' /\ Numbering'
    BY <1>1, <1>14, LeaveTypes DEF Register, ControlTypes
  <2>2. Entries(r) \subseteq [Ranks -> Buffers \cup {Garbage}]
    BY <1>14, EntryTypes DEF Register
  <2>3. BufferTypes'
    BY <1>1, <1>14, <2>2 DEF Register, BufferTypes
  <2> QED
    BY <1>3, <1>6, <1>14, <2>1, <2>3 DEF Register
<1> QED
  BY <1>7, <1>8, <1>9, <1>10, <1>11, <1>12, <1>13, <1>14 DEF Capture

\* Every step preserves them.
LEMMA TypeInvNext == TypeInv /\ [Next]_vars => TypeInv'
<1> SUFFICES ASSUME TypeInv, [Next]_vars PROVE TypeInv'
  OBVIOUS
<1>1. ASSUME NEW r \in Ranks, SetOptOut(r) PROVE TypeInv'
  <2>1. opt_out' \in [Ranks -> BOOLEAN]
    BY <1>1 DEF SetOptOut, TypeInv, TypeOK
  <2> QED
    BY <1>1, <2>1 DEF SetOptOut, TypeInv, TypeOK, Graphs, Numbering, Stage
<1>2. CASE UNCHANGED vars
  BY <1>2 DEF vars, TypeInv, TypeOK, Graphs, Numbering, Stage
<1> QED
  BY <1>1, <1>2, CaptureTypes DEF Next

\* Every variable keeps its type: in particular seq, whose bound is the number of
\* objects a rank may ever put, three for each capture, and the store, which holds
\* an object of a rank under exactly the numbers that the rank has used.
THEOREM TypeCorrect == Spec => []TypeOK
<1>1. TypeInv => TypeOK
  BY DEF TypeInv
<1> QED
  BY <1>1, TypeInvInit, TypeInvNext, PTL DEF Spec

-----------------------------------------------------------------------------
\* The numbers a pair of ranks is compared by.
LEMMA Numbers2 ==
  ASSUME TypeInv, NEW r \in Ranks
  PROVE  /\ made[r] \in Nat /\ seq[r] \in Nat /\ step[r] \in Nat /\ Stage(r) \in 0..3
         /\ Stage(r) <= seq[r] /\ seq[r] = Start(r) + Stage(r) /\ Start(r) \in Nat
         /\ pc[r] \in {"idle", "vote", "body", "count", "handles"}
         /\ registered[r] \in BOOLEAN
         /\ recorded[r] \in Seq(Buffers) /\ Len(recorded[r]) \in Nat /\ Recent(r) \in Nat
         /\ pc[r] = "idle" => Stage(r) = 0
         /\ pc[r] \in {"vote", "body"} => Stage(r) = 1
         /\ pc[r] = "count" => Stage(r) = 2
         /\ pc[r] = "handles" => Stage(r) = 3
<1>1. /\ made[r] \in Nat /\ seq[r] \in Nat /\ step[r] \in Nat
      /\ pc[r] \in {"idle", "vote", "body", "count", "handles"}
      /\ recorded[r] \in Seq(Buffers) /\ registered[r] \in BOOLEAN /\ Stage(r) <= seq[r]
  BY GraphCaptureAssumption DEF TypeInv, TypeOK, Numbering
<1>2. /\ Stage(r) \in 0..3
      /\ pc[r] = "idle" => Stage(r) = 0
      /\ pc[r] \in {"vote", "body"} => Stage(r) = 1
      /\ pc[r] = "count" => Stage(r) = 2
      /\ pc[r] = "handles" => Stage(r) = 3
  BY <1>1 DEF Stage
<1>3. seq[r] = Start(r) + Stage(r) /\ Start(r) \in Nat
  BY <1>1, <1>2 DEF Start
<1>4. Len(recorded[r]) \in Nat /\ Recent(r) \in Nat
  BY <1>1 DEF Recent
<1> QED
  BY <1>1, <1>2, <1>3, <1>4

\* A rank goes on only when every other has put its object of that exchange.
LEMMA OthersHavePut ==
  ASSUME TypeInv, Lag, NEW a \in Ranks, Capture(a), NEW p \in Ranks
  PROVE  seq[a] <= seq[p]
<1>1. CASE pc[a] \in {"idle", "body"}
  <2>1. ~Waiting(a)
    BY <1>1 DEF Waiting
  <2>2. seq[a] <= seq[p] + 0
    BY <2>1 DEF Lag
  <2> QED
    BY <2>2, Numbers2
<1>2. CASE pc[a] \in {"vote", "count", "handles"}
  <2>1. Waiting(a) /\ Complete(a)
    BY <1>2 DEF Waiting, Capture, Begin, Agree, Collective, Raise, Flush, Mismatch,
                NothingToRegister, SendHandles, Register, CannotUnpack
  <2> QED
    BY <2>1, GatheredTypes DEF Complete
<1> QED
  BY <1>1, <1>2, Numbers2

\* Where another rank can be when a goes on.
LEMMA Positions ==
  ASSUME TypeInv, Lag, Lockstep, NEW a \in Ranks, NEW p \in Ranks, seq[a] <= seq[p]
  PROVE  /\ made[p] = made[a] =>
              /\ SameCapture(a, p) /\ SameCapture(p, a)
              /\ pc[a] = "idle" => pc[p] \in {"idle", "vote"}
              /\ pc[a] \in {"vote", "body"} => pc[p] \in {"vote", "body", "count"}
              /\ pc[a] = "count" => pc[p] \in {"count", "handles"}
              /\ pc[a] = "handles" => pc[p] = "handles"
         /\ made[p] = made[a] + 1 => AheadOf(a, p)
         /\ made[a] = made[p] + 1 => AheadOf(p, a) /\ pc[a] = "idle" /\ seq[p] = seq[a]
         /\ made[p] = made[a] \/ made[p] = made[a] + 1 \/ made[a] = made[p] + 1
<1>1. made[p] = made[a] \/ made[p] = made[a] + 1 \/ made[a] = made[p] + 1
  <2>1. made[p] <= made[a] + 1 /\ made[a] <= made[p] + 1
    BY DEF Lockstep
  <2>2. made[p] \in Nat /\ made[a] \in Nat
    BY Numbers2
  <2> QED
    BY <2>1, <2>2
<1>2. ASSUME made[p] = made[a]
      PROVE  /\ SameCapture(a, p) /\ SameCapture(p, a)
             /\ pc[a] = "idle" => pc[p] \in {"idle", "vote"}
             /\ pc[a] \in {"vote", "body"} => pc[p] \in {"vote", "body", "count"}
             /\ pc[a] = "count" => pc[p] \in {"count", "handles"}
             /\ pc[a] = "handles" => pc[p] = "handles"
  <2>1. SameCapture(a, p) /\ SameCapture(p, a)
    BY <1>2 DEF Lockstep
  <2>2. Stage(a) <= Stage(p)
    BY <2>1, Numbers2 DEF SameCapture
  <2>3. Stage(p) <= Stage(a) + (IF Waiting(p) THEN 1 ELSE 0)
    <3>1. seq[p] <= seq[a] + (IF Waiting(p) THEN 1 ELSE 0)
      BY DEF Lag
    <3> QED
      BY <2>1, <3>1, Numbers2 DEF SameCapture
  <2>4. Stage(a) \in 0..3 /\ Stage(p) \in 0..3
    BY Numbers2
  <2>5. CASE pc[a] = "idle"
    <3>1. Stage(a) = 0
      BY <2>5, Numbers2
    <3>2. Stage(p) = 0 \/ (Stage(p) = 1 /\ Waiting(p))
      BY <2>3, <2>4, <3>1
    <3> QED
      BY <2>1, <2>5, <3>2, Numbers2 DEF Waiting
  <2>6. CASE pc[a] \in {"vote", "body"}
    <3>1. Stage(a) = 1
      BY <2>6, Numbers2
    <3>2. Stage(p) = 1 \/ Stage(p) = 2
      BY <2>2, <2>3, <2>4, <3>1
    <3> QED
      BY <2>1, <2>6, <3>2, Numbers2
  <2>7. CASE pc[a] = "count"
    <3>1. Stage(a) = 2
      BY <2>7, Numbers2
    <3>2. Stage(p) = 2 \/ Stage(p) = 3
      BY <2>2, <2>4, <3>1
    <3> QED
      BY <2>1, <2>7, <3>2, Numbers2
  <2>8. CASE pc[a] = "handles"
    <3>1. Stage(a) = 3
      BY <2>8, Numbers2
    <3>2. Stage(p) = 3
      BY <2>2, <2>4, <3>1
    <3> QED
      BY <2>1, <2>8, <3>2, Numbers2
  <2> QED
    BY <2>5, <2>6, <2>7, <2>8, Numbers2
<1>3. ASSUME made[a] = made[p] + 1
      PROVE  AheadOf(p, a) /\ pc[a] = "idle" /\ seq[p] = seq[a]
  <2>1. AheadOf(p, a)
    BY <1>3 DEF Lockstep
  <2>2. seq[p] = Start(a)
    BY <2>1, Numbers2 DEF AheadOf, Raised, Flushed
  <2>3. Stage(a) = 0
    BY <2>2, Numbers2
  <2> QED
    BY <2>1, <2>2, <2>3, Numbers2 DEF AheadOf
<1>4. made[p] = made[a] + 1 => AheadOf(a, p)
  BY DEF Lockstep
<1> QED
  BY <1>1, <1>2, <1>3, <1>4

\* A step of a leaves the other ranks where they are.
LEMMA Frame ==
  ASSUME TypeInv, NEW a \in Ranks, Capture(a), NEW q \in Ranks, q # a
  PROVE  /\ made'[q] = made[q] /\ pc'[q] = pc[q] /\ step'[q] = step[q] /\ seq'[q] = seq[q]
         /\ registered'[q] = registered[q] /\ recorded'[q] = recorded[q]
         /\ table'[q] = table[q]
         /\ Stage(q)' = Stage(q) /\ Start(q)' = Start(q) /\ Recent(q)' = Recent(q)
         /\ Older(q)' = Older(q) /\ Running(q)' = Running(q) /\ (Waiting(q)' <=> Waiting(q))
         /\ length' = length /\ raisesAt' = raisesAt
<1>1. /\ made \in [Ranks -> 0..MaxCaptures] /\ step \in [Ranks -> 0..MaxLength]
      /\ pc \in [Ranks -> {"idle", "vote", "body", "count", "handles"}]
      /\ registered \in [Ranks -> BOOLEAN] /\ recorded \in [Ranks -> Seq(Buffers)]
      /\ seq \in [Ranks -> 0..(3 * MaxCaptures)]
      /\ table \in [Ranks -> SUBSET [Ranks -> Buffers \cup {Garbage}]]
  BY DEF TypeInv, TypeOK
<1>2. /\ made'[q] = made[q] /\ pc'[q] = pc[q] /\ step'[q] = step[q] /\ seq'[q] = seq[q]
      /\ registered'[q] = registered[q] /\ recorded'[q] = recorded[q] /\ table'[q] = table[q]
      /\ length' = length /\ raisesAt' = raisesAt
  <2>1. CASE Begin(a) \/ Agree(a) \/ Collective(a) \/ Flush(a) \/ SendHandles(a)
    BY <1>1, <2>1 DEF Begin, Vote, Put, Agree, Collective, Flush, SendHandles
  <2>2. CASE Raise(a) \/ Mismatch(a) \/ NothingToRegister(a) \/ Register(a) \/ CannotUnpack(a)
    BY <1>1, <2>2 DEF Raise, Mismatch, NothingToRegister, Register, CannotUnpack, Leave
  <2> QED
    BY <2>1, <2>2 DEF Capture
<1> QED
  BY <1>2 DEF Stage, Start, Recent, Older, Running, Waiting

\* An object put under the next number of a.
Puts(a, o) ==
  /\ store' = [store EXCEPT ![seq[a]][a] = o]
  /\ seq'[a] = seq[a] + 1 /\ seq[a] \in Numbers

\* A step that puts an object does so under the next number, and waits there.
LEMMA Putting ==
  ASSUME TypeInv, NEW a \in Ranks, Capture(a)
  PROVE  \/ store' = store /\ seq' = seq /\ ~Waiting(a)'
         \/ /\ Begin(a) /\ Puts(a, Object("vote", ~opt_out[a]))
            /\ pc'[a] = "vote"
         \/ /\ Flush(a) /\ Puts(a, Object("count", Len(recorded[a])))
            /\ pc'[a] = "count" /\ recorded' = recorded
         \/ /\ SendHandles(a) /\ Puts(a, Object("handles", recorded[a]))
            /\ pc'[a] = "handles" /\ recorded' = recorded
<1>1. /\ pc \in [Ranks -> {"idle", "vote", "body", "count", "handles"}]
      /\ seq \in [Ranks -> 0..(3 * MaxCaptures)]
  BY DEF TypeInv, TypeOK
<1>2. CASE Begin(a)
  <2>1. seq[a] \in Numbers
    BY <1>2, NumbersLeft DEF Begin
  <2> QED
    BY <1>1, <1>2, <2>1 DEF Begin, Vote, Put, NextSeq, Puts
<1>3. CASE Flush(a)
  <2>1. seq[a] \in Numbers
    BY <1>3, NumbersLeft DEF Flush
  <2> QED
    BY <1>1, <1>3, <2>1 DEF Flush, Put, NextSeq, Puts
<1>4. CASE SendHandles(a)
  <2>1. seq[a] \in Numbers
    BY <1>4, NumbersLeft DEF SendHandles
  <2> QED
    BY <1>1, <1>4, <2>1 DEF SendHandles, Put, NextSeq, Puts
<1>5. CASE Agree(a) \/ Collective(a)
  BY <1>1, <1>5 DEF Agree, Collective, Waiting
<1>6. CASE Raise(a) \/ Mismatch(a) \/ NothingToRegister(a) \/ Register(a) \/ CannotUnpack(a)
  BY <1>1, <1>6 DEF Raise, Mismatch, NothingToRegister, Register, CannotUnpack, Leave, Waiting
<1> QED
  BY <1>2, <1>3, <1>4, <1>5, <1>6 DEF Capture

\* What a waiting rank has gathered stays, but for an object of its own exchange.
LEMMA GatheredStays ==
  ASSUME TypeInv, NEW a \in Ranks, Capture(a), NEW q \in Ranks, q # a, Waiting(q),
         NEW p \in Ranks, p # a \/ seq[q] <= seq[a]
  PROVE  Gathered(q)'[p] = Gathered(q)[p]
<1>1. seq'[q] = seq[q] /\ seq[q] - 1 \in Numbers /\ seq[q] \in Nat /\ seq[a] \in Nat
  BY Frame, GatheredTypes, Numbers2
<1>2. store \in [Numbers -> [Ranks -> Objects]]
  BY DEF TypeInv, TypeOK
<1>3. CASE store' = store
  BY <1>1, <1>3 DEF Gathered
<1>4. ASSUME NEW o, Puts(a, o) PROVE Gathered(q)'[p] = Gathered(q)[p]
  <2>1. p # a \/ seq[q] - 1 # seq[a]
    BY <1>1
  <2>2. store'[seq[q] - 1][p] = store[seq[q] - 1][p]
    BY <1>1, <1>2, <1>4, <2>1 DEF Puts
  <2> QED
    BY <1>1, <2>2 DEF Gathered
<1> QED
  BY <1>3, <1>4, Putting

\* So does the path it will take, once everybody has put a vote.
LEMMA PathStays ==
  ASSUME TypeInv, NEW a \in Ranks, Capture(a), NEW q \in Ranks, q # a,
         pc[q] = "vote" => seq[q] <= seq[a]
  PROVE  Path(q)' = Path(q)
<1>1. pc'[q] = pc[q] /\ registered'[q] = registered[q]
  BY Frame
<1>2. CASE pc[q] = "vote"
  <2>1. \A p \in Ranks : Gathered(q)'[p] = Gathered(q)[p]
    BY <1>2, GatheredStays DEF Waiting
  <2>2. Agreed(q)' = Agreed(q)
    BY <2>1 DEF Agreed, Truthy
  <2> QED
    BY <1>1, <1>2, <2>2 DEF Path
<1>3. CASE pc[q] # "vote"
  BY <1>1, <1>3 DEF Path
<1> QED
  BY <1>2, <1>3

\* Two other ranks are to each other as they were.
LEMMA OtherPairs ==
  ASSUME TypeInv, Lag, Lockstep, NEW a \in Ranks, Capture(a),
         NEW r \in Ranks, NEW p \in Ranks, r # a, p # a
  PROVE  /\ made'[p] <= made'[r] + 1
         /\ made'[p] = made'[r] => SameCapture(r, p)'
         /\ made'[p] = made'[r] + 1 => AheadOf(r, p)'
<1>1. /\ made'[p] = made[p] /\ pc'[p] = pc[p] /\ registered'[p] = registered[p]
      /\ recorded'[p] = recorded[p] /\ Start(p)' = Start(p) /\ Older(p)' = Older(p)
      /\ made'[r] = made[r] /\ pc'[r] = pc[r] /\ registered'[r] = registered[r]
      /\ recorded'[r] = recorded[r] /\ Start(r)' = Start(r) /\ Older(r)' = Older(r)
      /\ Running(r)' = Running(r) /\ length' = length /\ raisesAt' = raisesAt
  BY Frame
<1>2. made'[p] <= made'[r] + 1
  BY <1>1 DEF Lockstep
<1>3. seq[a] <= seq[r] /\ seq[a] <= seq[p] /\ seq[a] \in Nat /\ seq[r] \in Nat /\ seq[p] \in Nat
  BY OthersHavePut, Numbers2
<1>4. seq[p] <= seq[a] + (IF Waiting(p) THEN 1 ELSE 0)
  BY DEF Lag
<1>5. ASSUME made[p] = made[r] PROVE SameCapture(r, p)'
  <2>1. SameCapture(r, p)
    BY <1>5 DEF Lockstep
  <2>2. ASSUME pc[r] # "idle", pc[p] \in {"body", "count", "handles"}
        PROVE  Path(r)' = Path(r)
    <3>1. ASSUME pc[r] = "vote" PROVE seq[r] <= seq[a]
      <4>1. Stage(r) = 1 /\ seq[r] = Start(r) + 1 /\ seq[p] = Start(p) + Stage(p)
            /\ Start(r) = Start(p) /\ Start(r) \in Nat
        BY <2>1, <3>1, Numbers2 DEF SameCapture
      <4>2. CASE pc[p] = "body"
        <5>1. Stage(p) = 1 /\ ~Waiting(p)
          BY <4>2, Numbers2 DEF Waiting
        <5> QED
          BY <1>3, <1>4, <4>1, <5>1
      <4>3. CASE pc[p] \in {"count", "handles"}
        <5>1. Stage(p) \in {2, 3} /\ Waiting(p)
          BY <4>3, Numbers2 DEF Waiting
        <5> QED
          BY <1>3, <1>4, <4>1, <5>1
      <4> QED
        BY <2>2, <4>2, <4>3
    <3> QED
      BY <3>1, PathStays
  <2> QED
    BY <1>1, <2>1, <2>2 DEF SameCapture
<1>6. ASSUME made[p] = made[r] + 1 PROVE AheadOf(r, p)'
  <2>1. AheadOf(r, p)
    BY <1>6 DEF Lockstep
  <2>2. ASSUME Raised(r, p) PROVE Path(r)' = Path(r)
    <3>1. ASSUME pc[r] = "vote" PROVE seq[r] <= seq[a]
      <4>1. Stage(r) = 1 /\ seq[r] = Start(r) + 1 /\ seq[p] = Start(p) + Stage(p)
            /\ Start(p) = Start(r) + 1 /\ Start(r) \in Nat
        BY <2>2, <3>1, Numbers2 DEF Raised
      <4>2. CASE pc[p] = "idle"
        <5>1. Stage(p) = 0 /\ ~Waiting(p)
          BY <4>2, Numbers2 DEF Waiting
        <5> QED
          BY <1>3, <1>4, <4>1, <5>1
      <4>3. CASE pc[p] = "vote"
        <5>1. Stage(p) = 1 /\ Waiting(p)
          BY <4>3, Numbers2 DEF Waiting
        <5> QED
          BY <1>3, <1>4, <4>1, <5>1
      <4> QED
        BY <2>1, <4>2, <4>3 DEF AheadOf
    <3> QED
      BY <3>1, PathStays
  <2>3. Raised(r, p) => Raised(r, p)'
    BY <1>1, <2>2 DEF Raised, Raises
  <2>4. Flushed(r, p) => Flushed(r, p)'
    BY <1>1 DEF Flushed
  <2> QED
    BY <1>1, <2>1, <2>3, <2>4 DEF AheadOf
<1> QED
  BY <1>1, <1>2, <1>5, <1>6

\* How two ranks are to each other, either way round.
Pair(r, p) ==
  /\ made[p] <= made[r] + 1 /\ made[r] <= made[p] + 1
  /\ made[p] = made[r] => SameCapture(r, p) /\ SameCapture(p, r)
  /\ made[p] = made[r] + 1 => AheadOf(r, p)
  /\ made[r] = made[p] + 1 => AheadOf(p, r)

\* A rank that begins a capture.
LEMMA BeginPairs ==
  ASSUME TypeInv, Lag, Lockstep, NEW a \in Ranks, Begin(a), NEW p \in Ranks, p # a,
         \A r \in Ranks : Progress(r)
  PROVE  Pair(a, p)'
<1>1. Capture(a) /\ seq[a] <= seq[p]
  BY OthersHavePut DEF Capture
<1>2. /\ made'[p] = made[p] /\ pc'[p] = pc[p] /\ registered'[p] = registered[p]
      /\ recorded'[p] = recorded[p] /\ Start(p)' = Start(p) /\ Older(p)' = Older(p)
      /\ Running(p)' = Running(p) /\ length' = length /\ raisesAt' = raisesAt
  BY <1>1, Frame
<1>3. /\ pc[a] = "idle" /\ pc'[a] = "vote" /\ made' = made /\ step' = step
      /\ registered' = registered /\ recorded' = recorded /\ seq'[a] = seq[a] + 1
  BY DEF Begin, Vote, Put, NextSeq, TypeInv, TypeOK
<1>4. Start(a)' = Start(a)
  <2>1. Stage(a) = 0 /\ Stage(a)' = 1 /\ seq[a] \in Nat
    BY <1>3, Numbers2 DEF Stage
  <2> QED
    BY <1>3, <2>1 DEF Start
<1>5. Older(a)' = Older(a)
  BY <1>3 DEF Older, Recent
<1>6. CASE made[p] = made[a]
  <2>1. pc[p] \in {"idle", "vote"} /\ SameCapture(a, p) /\ SameCapture(p, a)
    BY <1>1, <1>3, <1>6, Positions
  <2>2. SameCapture(a, p)' /\ SameCapture(p, a)'
    BY <1>2, <1>3, <1>4, <1>5, <2>1 DEF SameCapture
  <2>3. made[a] \in Nat
    BY Numbers2
  <2> QED
    BY <1>3, <1>6, <2>2, <2>3 DEF Pair
<1>7. ~(made[p] = made[a] + 1)
  <2>1. ~AheadOf(a, p)
    BY <1>3 DEF AheadOf, Raised, Flushed
  <2> QED
    BY <1>1, <2>1, Positions
<1>8. CASE made[a] = made[p] + 1
  <2>1. AheadOf(p, a) /\ seq[p] = seq[a]
    BY <1>1, <1>8, Positions
  <2>2. Path(p)' = Path(p)
    BY <1>1, <2>1, PathStays, Numbers2
  <2>3. AheadOf(p, a)'
    BY <1>2, <1>3, <1>4, <1>5, <2>1, <2>2 DEF AheadOf, Raised, Flushed, Raises
  <2>4. made[p] \in Nat
    BY Numbers2
  <2>5. made[a] # made[p] /\ made[p] # made[a] + 1 /\ made[p] <= made[a] + 1
        /\ made[a] <= made[p] + 1
    BY <1>8, <2>4
  <2> QED
    BY <1>3, <2>3, <2>5 DEF Pair
<1> QED
  BY <1>1, <1>6, <1>7, <1>8, Positions

\* What a pair still is if a stays in its capture, having recorded no more than is
\* its own.
LEMMA StayPairs ==
  ASSUME TypeInv, Lag, Lockstep, NEW a \in Ranks, Capture(a), NEW p \in Ranks, p # a,
         pc[a] # "idle", made'[a] = made[a], Start(a)' = Start(a), Older(a)' = Older(a),
         pc'[a] \in {"body", "count", "handles"},
         \A i \in 1..Older(a) : recorded'[a][i] = recorded[a][i],
         registered'[a] = Path(a),
         made[p] = made[a] + 1 => pc[a] \in {"vote", "body"} /\ pc'[a] = "body"
  PROVE  Pair(a, p)'
<1>1. seq[a] <= seq[p] /\ made[a] \in Nat /\ made[p] \in Nat
  BY OthersHavePut, Numbers2
<1>2. /\ made'[p] = made[p] /\ pc'[p] = pc[p] /\ registered'[p] = registered[p]
      /\ recorded'[p] = recorded[p] /\ Start(p)' = Start(p) /\ Older(p)' = Older(p)
      /\ Running(p)' = Running(p) /\ length' = length /\ raisesAt' = raisesAt
  BY Frame
<1>3. Path(a)' = Path(a)
  BY DEF Path
<1>4. CASE made[p] = made[a]
  <2>1. SameCapture(a, p) /\ SameCapture(p, a)
    BY <1>1, <1>4, Positions
  <2>2. Start(a)' = Start(p)' /\ Older(a)' = Older(p)'
        /\ \A i \in 1..Older(a) : recorded'[a][i] = recorded'[p][i]
    BY <1>2, <2>1 DEF SameCapture
  <2>3. pc[p] \in {"body", "count", "handles"} => registered[p] = registered'[a]
    BY <2>1 DEF SameCapture
  <2>4. SameCapture(a, p)'
    BY <1>2, <1>3, <2>2, <2>3 DEF SameCapture
  <2>5. ASSUME pc[p] # "idle" PROVE Path(p)' = registered'[a]
    <3>1. CASE pc[p] = "vote"
      <4>1. pc[a] \in {"vote", "body"}
        BY <1>1, <1>4, <3>1, Positions, Numbers2
      <4>2. Stage(a) = 1 /\ Stage(p) = 1
        BY <3>1, <4>1, Numbers2
      <4>3. seq[p] = seq[a]
        BY <2>1, <4>2, Numbers2 DEF SameCapture
      <4>4. Path(p)' = Path(p)
        BY <4>3, PathStays, Numbers2
      <4>5. CASE pc[a] = "vote"
        BY <3>1, <4>3, <4>4, <4>5 DEF Path, Agreed, Gathered
      <4>6. CASE pc[a] = "body"
        <5>1. Path(p) = registered[a]
          BY <2>1, <3>1, <4>6 DEF SameCapture
        <5> QED
          BY <4>4, <4>6, <5>1 DEF Path
      <4> QED
        BY <4>1, <4>5, <4>6
    <3>2. CASE pc[p] # "vote"
      <4>1. pc[p] \in {"body", "count", "handles"}
        BY <2>5, <3>2, Numbers2
      <4> QED
        BY <1>2, <2>3, <3>2, <4>1 DEF Path
    <3> QED
      BY <3>1, <3>2
  <2>6. SameCapture(p, a)'
    BY <1>2, <2>2, <2>5 DEF SameCapture
  <2>7. made'[p] = made'[a] /\ made[a] <= made[a] + 1 /\ made[a] # made[a] + 1
    BY <1>1, <1>2, <1>4
  <2> QED
    BY <1>4, <2>4, <2>6, <2>7 DEF Pair
<1>5. CASE made[p] = made[a] + 1
  <2>1. AheadOf(a, p)
    BY <1>1, <1>5, Positions
  <2>2. Raised(a, p)
    BY <1>5, <2>1 DEF AheadOf, Flushed
  <2>3. Running(a)' = Running(a)
    BY DEF Running
  <2>4. \A i \in 1..Older(a) : recorded'[p][i] = recorded'[a][i]
    BY <1>2, <2>2 DEF Raised
  <2>5. Raised(a, p)'
    BY <1>2, <1>3, <1>5, <2>2, <2>3, <2>4 DEF Raised, Raises
  <2>6. AheadOf(a, p)'
    BY <1>2, <2>1, <2>5 DEF AheadOf
  <2>7. made[p] # made[a] /\ made[a] # made[p] + 1 /\ made[p] <= made[a] + 1
        /\ made[a] <= made[p] + 1
    BY <1>1, <1>5
  <2> QED
    BY <1>2, <2>6, <2>7 DEF Pair
<1>6. ~(made[a] = made[p] + 1)
  BY <1>1, Positions
<1> QED
  BY <1>1, <1>4, <1>5, <1>6, Positions

\* The parts of Together.
LEMMA TogetherInParts ==
  Together <=> /\ \A r \in Ranks : Progress(r) /\ InOrder(r)
               /\ Lag /\ Answers /\ Lockstep
               /\ \A r \in Ranks : \A e \in table[r] : \A p \in Ranks : e[p] = e[r]
BY DEF Together

\* The graph a rank captures.
LEMMA RunningGraph ==
  ASSUME TypeInv, NEW r \in Ranks, made[r] < MaxCaptures
  PROVE  length[Running(r)] \in Nat /\ raisesAt[Running(r)] \in Nat
<1>1. Running(r) \in Captures /\ MaxLength \in Nat
  BY NumbersLeft, GraphCaptureAssumption
<1> QED
  BY <1>1 DEF TypeInv, Graphs

\* A rank inside a capture has one left to make.
LEMMA InsideACapture ==
  ASSUME TypeInv, NEW r \in Ranks, pc[r] # "idle"
  PROVE  made[r] < MaxCaptures
BY DEF TypeInv, Numbering

\* A rank at the end of its graph has not been left behind at an exchange it is still
\* to begin: the others would have raised, and so would it.
LEMMA NotPassed ==
  ASSUME TypeInv, NEW a \in Ranks, Progress(a), Flush(a) \/ SendHandles(a), NEW p \in Ranks
  PROVE  ~AheadOf(a, p)
<1>1. CASE Flush(a)
  <2>1. pc[a] = "body" /\ step[a] = length[Running(a)] /\ raisesAt[Running(a)] # step[a] + 1
    BY <1>1 DEF Flush
  <2>2. length[Running(a)] \in Nat /\ raisesAt[Running(a)] \in Nat
    BY <2>1, RunningGraph, InsideACapture
  <2>3. Raises(Running(a)) => step[a] < raisesAt[Running(a)]
    BY <2>1 DEF Progress
  <2>4. Raises(Running(a)) => raisesAt[Running(a)] <= length[Running(a)] + 1
    BY <2>2 DEF Raises
  <2>5. ~Raises(Running(a))
    BY <2>1, <2>2, <2>3, <2>4
  <2> QED
    BY <2>1, <2>5 DEF AheadOf, Raised, Flushed
<1>2. CASE SendHandles(a)
  <2>1. pc[a] = "count" /\ recorded[a] # <<>>
    BY <1>2 DEF SendHandles
  <2> QED
    BY <2>1 DEF AheadOf, Raised, Flushed
<1> QED
  BY <1>1, <1>2

\* The ranks that have captured the whole of a graph have recorded the same buffers.
LEMMA SameRecorded ==
  ASSUME TypeInv, NEW a \in Ranks, NEW p \in Ranks, made[p] = made[a],
         SameCapture(a, p), InOrder(a), InOrder(p), step[a] = length[Running(a)],
         pc[a] \in {"body", "count", "handles"}, pc[p] \in {"count", "handles"},
         Progress(p)
  PROVE  recorded[p] = recorded[a]
<1>1. Running(p) = Running(a) /\ step[p] = step[a]
  BY DEF Running, Progress
<1>2. registered[p] = registered[a]
  BY DEF SameCapture, Path
<1>3. Recent(p) = Recent(a) /\ Older(p) = Older(a)
  BY <1>1, <1>2 DEF Recent, SameCapture
<1>4. /\ Recent(a) \in Nat /\ Len(recorded[a]) \in Nat /\ Recent(a) <= Len(recorded[a])
      /\ Len(recorded[p]) \in Nat /\ recorded[a] \in Seq(Buffers) /\ recorded[p] \in Seq(Buffers)
  BY Numbers2 DEF InOrder
<1>5. Older(a) = Len(recorded[a]) - Recent(a) /\ Older(a) = Len(recorded[p]) - Recent(a)
  BY <1>3 DEF Older
<1>6. /\ Len(recorded[p]) = Len(recorded[a]) /\ Older(a) \in Nat
      /\ Len(recorded[a]) = Older(a) + Recent(a)
  BY <1>4, <1>5
<1>7. ASSUME NEW i \in 1..Len(recorded[a]) PROVE recorded[p][i] = recorded[a][i]
  <2>1. CASE i <= Older(a)
    <3>1. i \in 1..Older(a)
      BY <1>4, <1>6, <2>1
    <3> QED
      BY <3>1 DEF SameCapture
  <2>2. CASE ~(i <= Older(a))
    <3>0. i \in Nat /\ i <= Older(a) + Recent(a)
      BY <1>4, <1>6
    <3>1. i - Older(a) \in 1..Recent(a) /\ Older(a) + (i - Older(a)) = i
      <4>1. Older(a) \in Nat /\ Recent(a) \in Nat
        BY <1>4, <1>6
      <4> QED
        BY <2>2, <3>0, <4>1
    <3>2. recorded[a][i] = <<Running(a), i - Older(a)>>
      BY <3>1 DEF InOrder
    <3>3. recorded[p][i] = <<Running(a), i - Older(a)>>
      BY <1>1, <1>3, <3>1 DEF InOrder
    <3> QED
      BY <3>2, <3>3
  <2> QED
    BY <2>1, <2>2
<1> QED
  BY <1>4, <1>6, <1>7

\* A rank that waits for the object a puts is where a then is, with the same to say.
LEMMA Match ==
  ASSUME TypeInv, Together, NEW a \in Ranks, Begin(a) \/ Flush(a) \/ SendHandles(a),
         NEW q \in Ranks, q # a, Waiting(q), seq[q] = seq[a] + 1
  PROVE  /\ Begin(a) => pc[q] = "vote"
         /\ Flush(a) => pc[q] = "count" /\ recorded[q] = recorded[a]
         /\ SendHandles(a) => pc[q] = "handles" /\ recorded[q] = recorded[a]
<1>1. Lag /\ Lockstep /\ Progress(a) /\ InOrder(a) /\ Progress(q) /\ InOrder(q)
  BY TogetherInParts
<1>2. seq[a] <= seq[q] /\ seq[a] # seq[q] /\ seq[a] \in Nat
  BY Numbers2
<1>3. CASE Begin(a)
  <2>1. pc[a] = "idle"
    BY <1>3 DEF Begin
  <2>2. ~AheadOf(a, q)
    BY <2>1 DEF AheadOf, Raised, Flushed
  <2>3. made[q] = made[a]
    BY <1>1, <1>2, <2>2, Positions
  <2>4. pc[q] \in {"idle", "vote"}
    BY <1>1, <1>2, <2>1, <2>3, Positions
  <2> QED
    BY <1>3, <2>1, <2>4 DEF Waiting, Flush, SendHandles
<1>4. CASE Flush(a) \/ SendHandles(a)
  <2>1. /\ pc[a] \in {"body", "count"} /\ (Flush(a) => pc[a] = "body")
        /\ (SendHandles(a) => pc[a] = "count") /\ step[a] = length[Running(a)]
    BY <1>1, <1>4 DEF Flush, SendHandles, Progress
  <2>2. ~AheadOf(a, q)
    BY <1>1, <1>4, NotPassed
  <2>3. made[q] = made[a]
    BY <1>1, <1>2, <2>1, <2>2, Positions
  <2>4. SameCapture(a, q) /\ Start(a) = Start(q)
    BY <1>1, <2>3 DEF Lockstep, SameCapture
  <2>5. Stage(q) = Stage(a) + 1
    BY <2>4, Numbers2
  <2>6. pc[a] = "body" => pc[q] = "count"
    BY <2>5, Numbers2
  <2>7. pc[a] = "count" => pc[q] = "handles"
    BY <2>5, Numbers2
  <2>8. recorded[q] = recorded[a]
    BY <1>1, <2>1, <2>3, <2>4, <2>6, <2>7, SameRecorded
  <2> QED
    BY <2>1, <2>6, <2>7, <2>8 DEF Begin
<1> QED
  BY <1>3, <1>4

\* A step of a that does not leave its capture keeps every pair.
LEMMA KeepPairs ==
  ASSUME TypeInv, Together, NEW a \in Ranks, NEW p \in Ranks, p # a,
         Begin(a) \/ Agree(a) \/ Collective(a) \/ Flush(a) \/ SendHandles(a)
  PROVE  Pair(a, p)'
<1>1. Lag /\ Lockstep /\ Progress(a) /\ InOrder(a) /\ (\A r \in Ranks : Progress(r))
  BY TogetherInParts
<1>2. Capture(a)
  BY DEF Capture
<1>3. /\ pc \in [Ranks -> {"idle", "vote", "body", "count", "handles"}]
      /\ step \in [Ranks -> 0..MaxLength] /\ registered \in [Ranks -> BOOLEAN]
      /\ recorded \in [Ranks -> Seq(Buffers)] /\ seq \in [Ranks -> 0..(3 * MaxCaptures)]
  BY DEF TypeInv, TypeOK
<1>4. Recent(a) \in Nat /\ Len(recorded[a]) \in Nat /\ seq[a] \in Nat /\ step[a] \in Nat
  BY Numbers2
<1>5. Older(a) \in Nat /\ Older(a) <= Len(recorded[a])
  BY <1>1, <1>4 DEF InOrder, Older
<1>6. CASE Agree(a)
  <2>1. /\ pc[a] = "vote" /\ pc'[a] = "body" /\ registered'[a] = Agreed(a) /\ step[a] = 0
        /\ ~registered[a] /\ UNCHANGED <<made, step, recorded, seq>>
    BY <1>1, <1>3, <1>6 DEF Agree, Progress
  <2>2. Start(a)' = Start(a)
    BY <2>1 DEF Start, Stage
  <2>3. Older(a)' = Older(a)
    BY <2>1 DEF Older, Recent
  <2>4. registered'[a] = Path(a)
    BY <2>1 DEF Path
  <2> QED
    BY <1>1, <1>2, <2>1, <2>2, <2>3, <2>4, StayPairs
<1>7. CASE Collective(a)
  <2>1. /\ pc[a] = "body" /\ pc'[a] = "body" /\ registered'[a] = registered[a]
        /\ UNCHANGED <<made, seq>> /\ step'[a] = step[a] + 1
        /\ recorded'[a] = IF registered[a]
                          THEN Append(recorded[a], <<Running(a), step[a] + 1>>)
                          ELSE recorded[a]
    BY <1>3, <1>7 DEF Collective
  <2>2. Start(a)' = Start(a)
    BY <2>1 DEF Start, Stage
  <2>3. <<Running(a), step[a] + 1>> \in Buffers
    <3>1. Running(a) \in Captures /\ length[Running(a)] \in 0..MaxLength
      BY <2>1, InsideACapture, NumbersLeft DEF TypeInv, Graphs
    <3>2. step[a] < length[Running(a)]
      BY <1>7 DEF Collective
    <3>3. step[a] + 1 \in 1..MaxLength
      BY <1>4, <3>1, <3>2, GraphCaptureAssumption
    <3> QED
      BY <3>1, <3>3 DEF Buffers
  <2>4. Older(a)' = Older(a)
    <3>1. CASE registered[a]
      <4>1. Len(recorded'[a]) = Len(recorded[a]) + 1
        BY <1>3, <2>1, <2>3, <3>1
      <4>2. Recent(a)' = Recent(a) + 1
        BY <2>1, <3>1 DEF Recent
      <4> QED
        BY <1>4, <4>1, <4>2 DEF Older
    <3>2. CASE ~registered[a]
      BY <2>1, <3>2 DEF Older, Recent
    <3> QED
      BY <3>1, <3>2
  <2>5. \A i \in 1..Older(a) : recorded'[a][i] = recorded[a][i]
    <3>1. \A i \in 1..Older(a) : i \in 1..Len(recorded[a])
      BY <1>4, <1>5
    <3> QED
      BY <1>3, <2>1, <2>3, <3>1
  <2>6. registered'[a] = Path(a)
    BY <2>1 DEF Path
  <2> QED
    BY <1>1, <1>2, <2>1, <2>2, <2>4, <2>5, <2>6, StayPairs
<1>8. CASE Flush(a) \/ SendHandles(a)
  <2>1. /\ UNCHANGED <<made, step, registered, recorded>> /\ seq'[a] = seq[a] + 1
        /\ pc[a] \in {"body", "count"} /\ (Flush(a) => pc[a] = "body" /\ pc'[a] = "count")
        /\ (SendHandles(a) => pc[a] = "count" /\ pc'[a] = "handles")
    BY <1>3, <1>8 DEF Flush, SendHandles, Put, NextSeq
  <2>2. Stage(a)' = Stage(a) + 1
    BY <1>8, <2>1 DEF Stage
  <2>3. Start(a)' = Start(a)
    BY <1>4, <2>1, <2>2, Numbers2 DEF Start
  <2>4. Older(a)' = Older(a)
    BY <2>1 DEF Older, Recent
  <2>5. registered'[a] = Path(a)
    BY <2>1 DEF Path
  <2>6. made[p] # made[a] + 1
    BY <1>1, <1>8, NotPassed DEF Lockstep
  <2> QED
    BY <1>1, <1>2, <1>8, <2>1, <2>3, <2>4, <2>5, <2>6, StayPairs
<1> QED
  BY <1>1, <1>6, <1>7, <1>8, BeginPairs

\* What leaving a capture sets, for the rank that leaves.
LEMMA Leaving ==
  ASSUME TypeInv, NEW a \in Ranks, Leave(a), seq' = seq
  PROVE  /\ made'[a] = made[a] + 1 /\ pc'[a] = "idle" /\ step'[a] = 0 /\ ~registered'[a]
         /\ Start(a)' = Start(a) + Stage(a)
         /\ Recent(a)' = 0 /\ (Len(recorded'[a]) \in Nat => Older(a)' = Len(recorded'[a]))
<1>1. made'[a] = made[a] + 1 /\ pc'[a] = "idle" /\ step'[a] = 0 /\ ~registered'[a]
  BY DEF TypeInv, TypeOK, Leave
<1>2. Stage(a)' = 0 /\ Recent(a)' = 0
  BY <1>1 DEF Stage, Recent
<1>3. seq'[a] = seq[a] /\ seq[a] \in Nat /\ seq[a] = Start(a) + Stage(a)
  BY Numbers2
<1>4. Start(a)' = Start(a) + Stage(a)
  <2>1. Start(a)' = seq[a]
    BY <1>2, <1>3 DEF Start
  <2> QED
    BY <1>3, <2>1
<1>5. Len(recorded'[a]) \in Nat => Older(a)' = Len(recorded'[a])
  <2>1. Older(a)' = Len(recorded'[a]) - Recent(a)'
    BY DEF Older
  <2> QED
    BY <1>2, <2>1
<1> QED
  BY <1>1, <1>2, <1>4, <1>5

\* A rank that leaves a capture after flushing it, with nothing left to register.
LEMMA FlushPairs ==
  ASSUME TypeInv, Together, NEW a \in Ranks, NEW p \in Ranks, p # a, Capture(a),
         Leave(a), seq' = seq, recorded'[a] = <<>>,
         \/ pc[a] = "count" /\ recorded[a] = <<>>
         \/ pc[a] = "handles"
  PROVE  Pair(a, p)'
<1>1. /\ Lag /\ Lockstep /\ Progress(a) /\ InOrder(a) /\ Progress(p) /\ InOrder(p)
      /\ seq[a] <= seq[p]
  BY TogetherInParts, OthersHavePut
<1>2. /\ made'[a] = made[a] + 1 /\ pc'[a] = "idle" /\ Start(a)' = Start(a) + Stage(a)
      /\ Older(a)' = 0
  BY Leaving
<1>3. /\ made'[p] = made[p] /\ pc'[p] = pc[p] /\ registered'[p] = registered[p]
      /\ recorded'[p] = recorded[p] /\ Start(p)' = Start(p) /\ Older(p)' = Older(p)
      /\ Running(p)' = Running(p) /\ length' = length /\ raisesAt' = raisesAt
  BY <1>1, Frame
<1>4. made[a] \in Nat /\ made[p] \in Nat /\ Start(a) \in Nat /\ Start(p) \in Nat
  BY Numbers2
<1>5. CASE made[p] = made[a]
  <2>1. Start(a) = Start(p) /\ SameCapture(a, p)
    BY <1>1, <1>5 DEF Lockstep, SameCapture
  <2>2. ASSUME pc[a] = "count" PROVE AheadOf(p, a)'
    <3>1. pc[p] \in {"count", "handles"}
      BY <1>1, <1>5, <2>2, Positions
    <3>2. step[a] = length[Running(a)]
      BY <1>1, <2>2 DEF Progress
    <3>3. recorded[p] = recorded[a]
      BY <1>1, <1>5, <2>1, <2>2, <3>1, <3>2, SameRecorded
    <3>4. pc[p] = "count" /\ recorded[p] = <<>>
      BY <1>1, <2>2, <3>1, <3>3 DEF Progress
    <3>5. Start(a)' = Start(p) + 2
      <4>1. Stage(a) = 2
        BY <2>2, Numbers2
      <4> QED
        BY <1>2, <2>1, <4>1
    <3>6. Flushed(p, a)'
      BY <1>3, <3>4, <3>5 DEF Flushed
    <3> QED
      BY <1>2, <3>6 DEF AheadOf
  <2>3. ASSUME pc[a] = "handles" PROVE AheadOf(p, a)'
    <3>1. pc[p] = "handles"
      BY <1>1, <1>5, <2>3, Positions
    <3>2. Start(a)' = Start(p) + 3
      <4>1. Stage(a) = 3
        BY <2>3, Numbers2
      <4> QED
        BY <1>2, <2>1, <4>1
    <3>3. Flushed(p, a)'
      BY <1>3, <3>1, <3>2 DEF Flushed
    <3> QED
      BY <1>2, <3>3 DEF AheadOf
  <2>4. AheadOf(p, a)' => Pair(a, p)'
    <3>1. /\ made'[p] <= made'[a] + 1 /\ made'[a] <= made'[p] + 1 /\ made'[p] # made'[a]
          /\ made'[p] # made'[a] + 1
      <4>1. made'[a] = made[a] + 1 /\ made'[p] = made[a]
        BY <1>2, <1>3, <1>5
      <4> QED
        BY <1>4, <4>1
    <3> QED
      BY <3>1 DEF Pair
  <2>5. AheadOf(p, a)'
    BY <2>2, <2>3
  <2> QED
    BY <2>4, <2>5
<1>6. CASE made[p] = made[a] + 1
  <2>1. AheadOf(a, p)
    BY <1>1, <1>6 DEF Lockstep
  <2>2. /\ Flushed(a, p) /\ pc[p] \in {"idle", "vote"} /\ recorded[p] = <<>>
    BY <2>1 DEF AheadOf, Raised, Flushed
  <2>3. Start(p) = Start(a) + Stage(a)
    <3>1. pc[a] = "count" => Stage(a) = 2 /\ Start(p) = Start(a) + 2
      BY <2>2, Numbers2 DEF Flushed
    <3>2. pc[a] = "handles" => Stage(a) = 3 /\ Start(p) = Start(a) + 3
      BY <2>2, Numbers2 DEF Flushed
    <3> QED
      BY <3>1, <3>2
  <2>4. Older(p) = 0
    <3>1. Len(recorded[p]) = 0 /\ Recent(p) = 0
      BY <1>1, <2>2 DEF Progress, Recent
    <3> QED
      BY <3>1 DEF Older
  <2>5. SameCapture(a, p)' /\ SameCapture(p, a)'
    BY <1>2, <1>3, <2>2, <2>3, <2>4 DEF SameCapture
  <2>6. made'[p] = made'[a] /\ made'[p] \in Nat
    BY <1>2, <1>3, <1>4, <1>6
  <2>7. made'[p] <= made'[a] + 1 /\ made'[a] <= made'[p] + 1 /\ made'[p] # made'[a] + 1
        /\ made'[a] # made'[p] + 1
    BY <2>6
  <2> QED
    BY <2>5, <2>7 DEF Pair
<1>7. made[a] # made[p] + 1
  BY <1>1, Positions
<1> QED
  BY <1>1, <1>5, <1>6, <1>7, Positions

\* A rank that raises, as every rank does.
LEMMA RaisePairs ==
  ASSUME TypeInv, Together, NEW a \in Ranks, NEW p \in Ranks, p # a, Raise(a),
         raisesAt[Running(a)] = step[a] + 1
  PROVE  Pair(a, p)'
<1>1. Capture(a)
  BY DEF Capture
<1>2. /\ Lag /\ Lockstep /\ Progress(a) /\ InOrder(a) /\ Progress(p) /\ InOrder(p)
      /\ seq[a] <= seq[p]
  BY <1>1, TogetherInParts, OthersHavePut
<1>3. /\ made[a] \in Nat /\ made[p] \in Nat /\ Start(a) \in Nat /\ Start(p) \in Nat
      /\ step[a] \in Nat /\ Recent(a) \in Nat /\ Len(recorded[a]) \in Nat
      /\ Len(recorded[p]) \in Nat
  BY Numbers2
<1>4. pc[a] = "body" /\ recorded'[a] = recorded[a] /\ Leave(a) /\ seq' = seq
  BY DEF Raise
<1>5. Stage(a) = 1
  BY <1>4, Numbers2
<1>6. /\ made'[a] = made[a] + 1 /\ pc'[a] = "idle" /\ Start(a)' = Start(a) + 1
      /\ Older(a)' = Len(recorded[a])
  BY <1>3, <1>4, <1>5, Leaving
<1>7. /\ made'[p] = made[p] /\ pc'[p] = pc[p] /\ registered'[p] = registered[p]
      /\ recorded'[p] = recorded[p] /\ Start(p)' = Start(p) /\ Older(p)' = Older(p)
      /\ Running(p)' = Running(p) /\ length' = length /\ raisesAt' = raisesAt
  BY <1>1, Frame
<1>8. Raises(Running(a))
  <2>1. step[a] <= length[Running(a)] /\ length[Running(a)] \in Nat
    BY <1>2, <1>4, RunningGraph, InsideACapture DEF Progress
  <2> QED
    BY <1>3, <2>1 DEF Raises
<1>9. /\ Older(a) \in Nat /\ Len(recorded[a]) = Older(a) + Recent(a)
      /\ raisesAt[Running(a)] - 1 = step[a]
  <2>1. Recent(a) <= Len(recorded[a]) /\ Older(a) = Len(recorded[a]) - Recent(a)
    BY <1>2 DEF InOrder, Older
  <2> QED
    BY <1>3, <2>1
<1>10. Len(recorded[a]) = Older(a) + (IF registered[a] THEN raisesAt[Running(a)] - 1 ELSE 0)
  BY <1>9 DEF Recent
<1>11. \A i \in (Older(a) + 1)..Len(recorded[a]) :
         recorded[a][i] = <<Running(a), i - Older(a)>>
  <2> SUFFICES ASSUME NEW i \in (Older(a) + 1)..Len(recorded[a])
               PROVE  recorded[a][i] = <<Running(a), i - Older(a)>>
    OBVIOUS
  <2>1. i - Older(a) \in 1..Recent(a) /\ Older(a) + (i - Older(a)) = i
    <3>1. i \in (Older(a) + 1)..(Older(a) + Recent(a))
      BY <1>9
    <3> QED
      BY <1>3, <1>9, <3>1
  <2> QED
    BY <1>2, <2>1 DEF InOrder
<1>12. CASE made[p] = made[a]
  <2>1. /\ SameCapture(a, p) /\ SameCapture(p, a) /\ Start(a) = Start(p)
        /\ Older(a) = Older(p)
    BY <1>2, <1>12 DEF Lockstep, SameCapture
  <2>2. Running(p) = Running(a)
    BY <1>12 DEF Running
  <2>3. pc[p] \in {"vote", "body"}
    <3>1. pc[p] \in {"vote", "body", "count"}
      BY <1>2, <1>4, <1>12, Positions
    <3>2. pc[p] # "count"
      BY <1>2, <1>8, <2>2 DEF Progress
    <3> QED
      BY <3>1, <3>2
  <2>4. Path(p)' = registered[a]
    <3>1. Path(p) = registered[a]
      BY <1>4, <2>1, <2>3 DEF SameCapture
    <3>2. seq[p] = seq[a]
      BY <1>5, <2>1, <2>3, Numbers2
    <3>3. Path(p)' = Path(p)
      BY <1>1, <3>2, PathStays, Numbers2
    <3> QED
      BY <3>1, <3>3
  <2>5. Raises(Running(p))'
    BY <1>7, <1>8, <2>2 DEF Raises
  <2>6. \A i \in 1..Older(a) : recorded[a][i] = recorded[p][i]
    BY <2>1 DEF SameCapture
  <2>7. Raised(p, a)'
    BY <1>4, <1>6, <1>7, <1>10, <1>11, <2>1, <2>2, <2>3, <2>4, <2>5, <2>6 DEF Raised
  <2>8. AheadOf(p, a)'
    BY <1>6, <2>7 DEF AheadOf
  <2>9. /\ made'[p] <= made'[a] + 1 /\ made'[a] <= made'[p] + 1 /\ made'[p] # made'[a]
        /\ made'[p] # made'[a] + 1
    <3>1. made'[a] = made[a] + 1 /\ made'[p] = made[a]
      BY <1>6, <1>7, <1>12
    <3> QED
      BY <1>3, <3>1
  <2> QED
    BY <2>8, <2>9 DEF Pair
<1>13. CASE made[p] = made[a] + 1
  <2>1. AheadOf(a, p)
    BY <1>2, <1>13 DEF Lockstep
  <2>2. Raised(a, p) /\ pc[p] \in {"idle", "vote"}
    BY <1>4, <2>1 DEF AheadOf, Flushed
  <2>3. Path(a) = registered[a]
    BY <1>4 DEF Path
  <2>4. /\ Start(p) = Start(a) + 1 /\ Len(recorded[p]) = Len(recorded[a])
        /\ \A i \in 1..Older(a) : recorded[p][i] = recorded[a][i]
        /\ \A i \in (Older(a) + 1)..Len(recorded[a]) :
             recorded[p][i] = <<Running(a), i - Older(a)>>
    BY <1>10, <2>2, <2>3 DEF Raised
  <2>5. Older(p) = Len(recorded[a])
    <3>1. Recent(p) = 0
      BY <1>2, <2>2 DEF Progress, Recent
    <3>2. Older(p) = Len(recorded[p]) - 0
      BY <3>1 DEF Older
    <3> QED
      BY <1>3, <2>4, <3>2
  <2>6. ASSUME NEW i \in 1..Len(recorded[a]) PROVE recorded[p][i] = recorded[a][i]
    <3>1. i \in 1..Older(a) \/ i \in (Older(a) + 1)..Len(recorded[a])
      BY <1>3, <1>9
    <3> QED
      BY <1>11, <2>4, <3>1
  <2>7. SameCapture(a, p)' /\ SameCapture(p, a)'
    BY <1>4, <1>6, <1>7, <2>2, <2>4, <2>5, <2>6 DEF SameCapture
  <2>8. made'[p] = made'[a] /\ made'[p] \in Nat
    BY <1>3, <1>6, <1>7, <1>13
  <2>9. made'[p] <= made'[a] + 1 /\ made'[a] <= made'[p] + 1 /\ made'[p] # made'[a] + 1
        /\ made'[a] # made'[p] + 1
    BY <2>8
  <2> QED
    BY <2>7, <2>9 DEF Pair
<1>14. made[a] # made[p] + 1
  BY <1>2, <1>4, Positions
<1> QED
  BY <1>2, <1>12, <1>13, <1>14, Positions

\* What a rank that goes on from an exchange has gathered is what it waited for; so
\* no rank finds that its peers disagree with it, or have sent something else.
LEMMA Gathering ==
  ASSUME TypeInv, Together, NEW a \in Ranks, Capture(a)
  PROVE  /\ Waiting(a) => \A p \in Ranks : Fits(a, Gathered(a)[p])
         /\ ~Mismatch(a) /\ ~CannotUnpack(a)
<1>1. Waiting(a) => \A p \in Ranks : Fits(a, Gathered(a)[p])
  BY TogetherInParts, OthersHavePut DEF Answers
<1>2. ~Mismatch(a)
  <2> SUFFICES ASSUME Mismatch(a) PROVE FALSE
    OBVIOUS
  <2>1. pc[a] = "count" /\ ~CountsAgree(a)
    BY DEF Mismatch
  <2>2. \A p \in Ranks : Gathered(a)[p] = Object("count", Len(recorded[a]))
    BY <1>1, <2>1 DEF Fits, Waiting
  <2>3. \A n : Equals(Object("count", n), n)
    BY DEF Equals, Object
  <2> QED
    BY <2>1, <2>2, <2>3 DEF CountsAgree
<1>3. ~CannotUnpack(a)
  <2> SUFFICES ASSUME CannotUnpack(a) PROVE FALSE
    OBVIOUS
  <2>1. pc[a] = "handles" /\ ~Unpacks(a)
    BY DEF CannotUnpack
  <2>2. \A p \in Ranks : Gathered(a)[p] = Object("handles", recorded[a])
    BY <1>1, <2>1 DEF Fits, Waiting
  <2> QED
    BY <2>1, <2>2 DEF Unpacks, Object
<1> QED
  BY <1>1, <1>2, <1>3

\* The steps of a capture that no rank fails alone.
LEMMA StepsTogether ==
  ASSUME TypeInv, Together, NEW a \in Ranks, Capture(a), alone = 0, alone' = 0
  PROVE  \/ Begin(a) \/ Agree(a) \/ Collective(a) \/ Flush(a) \/ SendHandles(a)
         \/ Raise(a) /\ raisesAt[Running(a)] = step[a] + 1
         \/ NothingToRegister(a) \/ Register(a)
<1>1. Raise(a) => raisesAt[Running(a)] = step[a] + 1
  BY DEF Raise
<1> QED
  BY <1>1, Gathering DEF Capture

\* Every pair of ranks is in lockstep after the step.
LEMMA LockstepKept ==
  ASSUME TypeInv, Together, NEW a \in Ranks, Capture(a), alone = 0, alone' = 0
  PROVE  Lockstep'
<1>1. Lag /\ Lockstep
  BY TogetherInParts
<1>2. TypeInv'
  BY CaptureTypes
<1>3. ASSUME NEW p \in Ranks, p # a PROVE Pair(a, p)'
  <2>1. CASE Begin(a) \/ Agree(a) \/ Collective(a) \/ Flush(a) \/ SendHandles(a)
    BY <1>3, <2>1, KeepPairs
  <2>2. CASE Raise(a) /\ raisesAt[Running(a)] = step[a] + 1
    BY <1>3, <2>2, RaisePairs
  <2>3. CASE NothingToRegister(a)
    <3>1. /\ Leave(a) /\ seq' = seq /\ recorded'[a] = <<>> /\ pc[a] = "count"
          /\ recorded[a] = <<>>
      BY <2>3 DEF NothingToRegister
    <3> QED
      BY <1>3, <3>1, FlushPairs
  <2>4. CASE Register(a)
    <3>1. Leave(a) /\ seq' = seq /\ recorded'[a] = <<>> /\ pc[a] = "handles"
      BY <2>4 DEF Register, TypeInv, TypeOK
    <3> QED
      BY <1>3, <3>1, FlushPairs
  <2> QED
    BY <2>1, <2>2, <2>3, <2>4, StepsTogether
<1>4. /\ made'[a] <= made'[a] + 1 /\ made'[a] # made'[a] + 1 /\ SameCapture(a, a)'
  <2>1. made'[a] \in 0..MaxCaptures
    BY <1>2 DEF TypeInv, TypeOK
  <2>2. made'[a] <= made'[a] + 1 /\ made'[a] # made'[a] + 1
    BY <2>1, GraphCaptureAssumption
  <2> QED
    BY <2>2 DEF SameCapture, Path
<1>5. ASSUME NEW r \in Ranks, NEW p \in Ranks
      PROVE  /\ made'[p] <= made'[r] + 1
             /\ made'[p] = made'[r] => SameCapture(r, p)'
             /\ made'[p] = made'[r] + 1 => AheadOf(r, p)'
  <2>1. CASE r # a /\ p # a
    BY <1>1, <2>1, OtherPairs
  <2>2. CASE r = a /\ p # a
    BY <1>3, <2>2 DEF Pair
  <2>3. CASE r # a /\ p = a
    <3>1. Pair(a, r)'
      BY <1>3, <2>3
    <3> QED
      BY <2>3, <3>1 DEF Pair
  <2>4. CASE r = a /\ p = a
    BY <1>4, <2>4
  <2> QED
    BY <2>1, <2>2, <2>3, <2>4
<1> QED
  BY <1>5 DEF Lockstep

\* No rank gets ahead by more than the object it waits with.
LEMMA LagKept ==
  ASSUME TypeInv, Together, NEW a \in Ranks, Capture(a)
  PROVE  Lag'
<1>1. Lag
  BY TogetherInParts
<1>2. \/ seq'[a] = seq[a]
      \/ seq'[a] = seq[a] + 1 /\ Waiting(a)'
  <2>1. ASSUME NEW o, Puts(a, o) PROVE seq'[a] = seq[a] + 1
    BY <2>1 DEF Puts
  <2>2. pc'[a] \in {"vote", "count", "handles"} => Waiting(a)'
    BY DEF Waiting
  <2> QED
    BY <2>1, <2>2, Putting
<1>3. ASSUME NEW r \in Ranks, NEW p \in Ranks
      PROVE  seq'[r] <= seq'[p] + (IF Waiting(r)' THEN 1 ELSE 0)
  <2>1. seq[a] \in Nat /\ seq[r] \in Nat /\ seq[p] \in Nat
    BY Numbers2
  <2>2. CASE r # a
    <3>1. seq'[r] = seq[r] /\ (Waiting(r)' <=> Waiting(r))
      BY <2>2, Frame
    <3>2. seq[p] <= seq'[p] /\ seq'[p] \in Nat
      <4>1. CASE p # a
        BY <2>1, <4>1, Frame
      <4>2. CASE p = a
        BY <1>2, <2>1, <4>2
      <4> QED
        BY <4>1, <4>2
    <3>3. seq[r] <= seq[p] + (IF Waiting(r) THEN 1 ELSE 0)
      BY <1>1 DEF Lag
    <3>4. CASE Waiting(r)
      BY <2>1, <3>1, <3>2, <3>3, <3>4
    <3>5. CASE ~Waiting(r)
      BY <2>1, <3>1, <3>2, <3>3, <3>5
    <3> QED
      BY <3>4, <3>5
  <2>3. CASE r = a /\ p # a
    <3>1. seq[a] <= seq[p] /\ seq'[p] = seq[p]
      BY <1>1, <2>3, Frame, OthersHavePut
    <3>2. CASE seq'[a] = seq[a]
      <4>1. seq'[a] <= seq'[p] /\ seq'[p] \in Nat /\ seq'[a] \in Nat
        BY <2>1, <3>1, <3>2
      <4> QED
        BY <2>3, <4>1
    <3>3. CASE seq'[a] = seq[a] + 1 /\ Waiting(a)'
      <4>1. seq'[a] <= seq'[p] + 1
        BY <2>1, <3>1, <3>3
      <4> QED
        BY <2>3, <3>3, <4>1
    <3> QED
      BY <1>2, <3>2, <3>3
  <2>4. CASE r = a /\ p = a
    <3>1. seq'[a] \in Nat
      BY <1>2, <2>1
    <3>2. seq'[a] <= seq'[a] + 0 /\ seq'[a] <= seq'[a] + 1
      BY <3>1
    <3> QED
      BY <2>4, <3>2
  <2> QED
    BY <2>2, <2>3, <2>4
<1> QED
  BY <1>3 DEF Lag

\* What a puts, and what it then waits for.
LEMMA PutFits ==
  ASSUME TypeInv, Together, NEW a \in Ranks, Capture(a), Begin(a) \/ Flush(a) \/ SendHandles(a)
  PROVE  \E o : /\ Puts(a, o) /\ Fits(a, o)'
                /\ \A q \in Ranks : q # a /\ Waiting(q) /\ seq[q] = seq[a] + 1 =>
                     /\ Fits(q, o)
                     /\ \A x : Fits(q, x) => Fits(a, x)'
<1>1. CASE Begin(a)
  <2>0. PICK o : o = Object("vote", ~opt_out[a])
    OBVIOUS
  <2>1. Puts(a, o) /\ pc'[a] = "vote"
    <3>1. seq[a] \in Numbers
      BY <1>1, NumbersLeft DEF Begin
    <3> QED
      BY <1>1, <2>0, <3>1 DEF Begin, Vote, Put, NextSeq, Puts, TypeInv, TypeOK
  <2>2. o.kind = "vote"
    BY <2>0 DEF Object
  <2>3. Fits(a, o)'
    BY <2>1, <2>2 DEF Fits
  <2>4. ASSUME NEW q \in Ranks, q # a, Waiting(q), seq[q] = seq[a] + 1
        PROVE  Fits(q, o) /\ \A x : Fits(q, x) => Fits(a, x)'
    <3>1. pc[q] = "vote"
      BY <1>1, <2>4, Match
    <3> QED
      BY <2>1, <2>2, <3>1 DEF Fits
  <2> QED
    BY <2>1, <2>3, <2>4
<1>2. CASE Flush(a)
  <2>0. PICK o : o = Object("count", Len(recorded[a]))
    OBVIOUS
  <2>1. Puts(a, o) /\ pc'[a] = "count" /\ recorded' = recorded
    <3>1. seq[a] \in Numbers
      BY <1>2, NumbersLeft DEF Flush
    <3> QED
      BY <1>2, <2>0, <3>1 DEF Flush, Put, NextSeq, Puts, TypeInv, TypeOK
  <2>3. Fits(a, o)'
    BY <2>0, <2>1 DEF Fits
  <2>4. ASSUME NEW q \in Ranks, q # a, Waiting(q), seq[q] = seq[a] + 1
        PROVE  Fits(q, o) /\ \A x : Fits(q, x) => Fits(a, x)'
    <3>1. pc[q] = "count" /\ recorded[q] = recorded[a]
      BY <1>2, <2>4, Match
    <3> QED
      BY <2>0, <2>1, <3>1 DEF Fits
  <2> QED
    BY <2>1, <2>3, <2>4
<1>3. CASE SendHandles(a)
  <2>0. PICK o : o = Object("handles", recorded[a])
    OBVIOUS
  <2>1. Puts(a, o) /\ pc'[a] = "handles" /\ recorded' = recorded
    <3>1. seq[a] \in Numbers
      BY <1>3, NumbersLeft DEF SendHandles
    <3> QED
      BY <1>3, <2>0, <3>1 DEF SendHandles, Put, NextSeq, Puts, TypeInv, TypeOK
  <2>3. Fits(a, o)'
    BY <2>0, <2>1 DEF Fits
  <2>4. ASSUME NEW q \in Ranks, q # a, Waiting(q), seq[q] = seq[a] + 1
        PROVE  Fits(q, o) /\ \A x : Fits(q, x) => Fits(a, x)'
    <3>1. pc[q] = "handles" /\ recorded[q] = recorded[a]
      BY <1>3, <2>4, Match
    <3> QED
      BY <2>0, <2>1, <3>1 DEF Fits
  <2> QED
    BY <2>1, <2>3, <2>4
<1> QED
  BY <1>1, <1>2, <1>3

\* A step that puts no object leaves the rank waiting for none.
LEMMA PutsOrGoesOn ==
  ASSUME TypeInv, NEW a \in Ranks, Capture(a)
  PROVE  \/ store' = store /\ seq' = seq /\ ~Waiting(a)'
         \/ Begin(a) \/ Flush(a) \/ SendHandles(a)
BY Putting

\* What is put under the number that another waits at is what it waits for.
LEMMA AnswersKept ==
  ASSUME TypeInv, Together, NEW a \in Ranks, Capture(a)
  PROVE  Answers'
<1>1. Lag /\ Answers
  BY TogetherInParts
<1>2. ASSUME NEW r \in Ranks, r # a, NEW o PROVE Fits(r, o)' <=> Fits(r, o)
  <2>1. pc'[r] = pc[r] /\ recorded'[r] = recorded[r]
    BY <1>2, Frame
  <2> QED
    BY <2>1 DEF Fits
<1>3. ASSUME NEW r \in Ranks, NEW p \in Ranks, r # a, p # a \/ seq[r] <= seq[a],
             Waiting(r)', seq'[r] <= seq'[p]
      PROVE  Fits(r, Gathered(r)[p])'
  <2>1. Waiting(r) /\ seq'[r] = seq[r] /\ (p # a => seq'[p] = seq[p])
    BY <1>3, Frame
  <2>2. seq[r] <= seq[p]
    BY <1>3, <2>1
  <2>3. Fits(r, Gathered(r)[p])
    BY <1>1, <2>1, <2>2 DEF Answers
  <2>4. Gathered(r)'[p] = Gathered(r)[p]
    BY <1>3, <2>1, GatheredStays
  <2>5. Fits(r, Gathered(r)[p])' <=> Fits(r, Gathered(r)'[p])
    <3>1. pc'[r] = pc[r] /\ recorded'[r] = recorded[r]
      BY <1>3, Frame
    <3> QED
      BY <3>1 DEF Fits
  <2> QED
    BY <2>3, <2>4, <2>5
<1>4. CASE Begin(a) \/ Flush(a) \/ SendHandles(a)
  <2>1. PICK o : /\ Puts(a, o) /\ Fits(a, o)'
                 /\ \A q \in Ranks : q # a /\ Waiting(q) /\ seq[q] = seq[a] + 1 =>
                      /\ Fits(q, o)
                      /\ \A x : Fits(q, x) => Fits(a, x)'
    BY <1>4, PutFits
  <2>2. /\ seq[a] \in Numbers /\ seq[a] \in Nat /\ seq'[a] = seq[a] + 1
        /\ store' = [store EXCEPT ![seq[a]][a] = o]
        /\ store \in [Numbers -> [Ranks -> Objects]]
    BY <2>1, Numbers2 DEF Puts, TypeInv, TypeOK
  <2>3. /\ store'[seq[a]][a] = o
        /\ \A p \in Ranks : p # a => store'[seq[a]][p] = store[seq[a]][p]
    BY <2>2
  <2>4. ASSUME NEW r \in Ranks, r # a, Waiting(r)', seq'[r] <= seq'[a], ~(seq[r] <= seq[a])
        PROVE  Fits(r, Gathered(r)[a])'
    <3>1. Waiting(r) /\ seq'[r] = seq[r] /\ seq[r] \in Nat
      BY <2>4, Frame, Numbers2
    <3>2. seq[r] = seq[a] + 1
      BY <2>2, <2>4, <3>1
    <3>3. Gathered(r)'[a] = o
      <4>1. seq'[r] - 1 = seq[a]
        BY <2>2, <3>1, <3>2
      <4> QED
        BY <2>3, <4>1 DEF Gathered
    <3>4. Fits(r, o)
      BY <2>1, <2>4, <3>1, <3>2
    <3>5. pc'[r] = pc[r] /\ recorded'[r] = recorded[r]
      BY <2>4, Frame
    <3> QED
      BY <3>3, <3>4, <3>5 DEF Fits
  <2>5. \A p \in Ranks : Gathered(a)'[p] = store'[seq[a]][p]
    <3>1. seq'[a] - 1 = seq[a]
      BY <2>2
    <3> QED
      BY <3>1 DEF Gathered
  <2>6. ASSUME NEW p \in Ranks, p # a, seq'[a] <= seq'[p]
        PROVE  Fits(a, Gathered(a)[p])'
    <3>1. seq'[p] = seq[p] /\ seq[p] \in Nat
      BY <2>6, Frame, Numbers2
    <3>2. seq[p] <= seq[a] + (IF Waiting(p) THEN 1 ELSE 0)
      BY <1>1 DEF Lag
    <3>3. seq[p] = seq[a] + 1 /\ Waiting(p)
      BY <2>2, <2>6, <3>1, <3>2
    <3>4. Fits(p, Gathered(p)[p])
      BY <1>1, <3>1, <3>3 DEF Answers
    <3>5. Gathered(p) = store[seq[a]]
      <4>1. seq[p] - 1 = seq[a]
        BY <2>2, <3>3
      <4> QED
        BY <4>1 DEF Gathered
    <3>6. Gathered(a)'[p] = Gathered(p)[p]
      BY <2>3, <2>5, <2>6, <3>5
    <3>7. \A x : Fits(p, x) => Fits(a, x)'
      BY <2>1, <2>6, <3>3
    <3> QED
      BY <3>4, <3>6, <3>7 DEF Fits
  <2>7. Fits(a, Gathered(a)[a])'
    <3>1. Gathered(a)'[a] = o
      BY <2>3, <2>5
    <3> QED
      BY <2>1, <3>1 DEF Fits
  <2>8. ASSUME NEW r \in Ranks, NEW p \in Ranks, Waiting(r)', seq'[r] <= seq'[p]
        PROVE  Fits(r, Gathered(r)[p])'
    <3>1. CASE r # a /\ (p # a \/ seq[r] <= seq[a])
      BY <1>3, <2>8, <3>1
    <3>2. CASE r # a /\ p = a /\ ~(seq[r] <= seq[a])
      BY <2>4, <2>8, <3>2
    <3>3. CASE r = a /\ p # a
      BY <2>6, <2>8, <3>3
    <3>4. CASE r = a /\ p = a
      BY <2>7, <3>4
    <3> QED
      BY <3>1, <3>2, <3>3, <3>4
  <2> QED
    BY <2>8 DEF Answers
<1>5. CASE store' = store /\ seq' = seq /\ ~Waiting(a)'
  <2>1. ASSUME NEW r \in Ranks, NEW p \in Ranks, Waiting(r)', seq'[r] <= seq'[p]
        PROVE  Fits(r, Gathered(r)[p])'
    <3>1. r # a /\ seq'[r] = seq[r] /\ seq'[p] = seq[p]
      BY <1>5, <2>1
    <3>2. p # a \/ seq[r] <= seq[a]
      BY <2>1, <3>1
    <3> QED
      BY <1>3, <2>1, <3>1, <3>2
  <2> QED
    BY <2>1 DEF Answers
<1> QED
  BY <1>4, <1>5, PutsOrGoesOn

\* How far the rank that steps is in its graph, and what it has recorded of it.
LEMMA ProgressKept ==
  ASSUME TypeInv, Together, NEW a \in Ranks, Capture(a)
  PROVE  \A r \in Ranks : (Progress(r) /\ InOrder(r))'
<1>1. \A r \in Ranks : Progress(r) /\ InOrder(r)
  BY TogetherInParts
<1>2. ASSUME NEW r \in Ranks, r # a PROVE (Progress(r) /\ InOrder(r))'
  <2>1. /\ pc'[r] = pc[r] /\ step'[r] = step[r] /\ registered'[r] = registered[r]
        /\ recorded'[r] = recorded[r] /\ Recent(r)' = Recent(r) /\ Older(r)' = Older(r)
        /\ Running(r)' = Running(r) /\ length' = length /\ raisesAt' = raisesAt
    BY <1>2, Frame
  <2> QED
    BY <1>1, <2>1 DEF Progress, InOrder, Raises
<1>3. /\ pc \in [Ranks -> {"idle", "vote", "body", "count", "handles"}]
      /\ step \in [Ranks -> 0..MaxLength] /\ registered \in [Ranks -> BOOLEAN]
      /\ recorded \in [Ranks -> Seq(Buffers)]
  BY DEF TypeInv, TypeOK
<1>4. Recent(a) \in Nat /\ Len(recorded[a]) \in Nat /\ step[a] \in Nat
  BY Numbers2
<1>5. ASSUME Begin(a) PROVE (Progress(a) /\ InOrder(a))'
  <2>1. /\ pc[a] = "idle" /\ pc'[a] = "vote"
        /\ UNCHANGED <<length, raisesAt, made, step, registered, recorded>>
    BY <1>3, <1>5 DEF Begin, Vote
  <2>2. Progress(a)'
    BY <1>1, <2>1 DEF Progress
  <2>3. InOrder(a)'
    BY <1>1, <2>1 DEF InOrder, Recent, Older, Running
  <2> QED
    BY <2>2, <2>3
<1>6. ASSUME Agree(a) PROVE (Progress(a) /\ InOrder(a))'
  <2>1. /\ pc[a] = "vote" /\ pc'[a] = "body" /\ step[a] = 0
        /\ UNCHANGED <<length, raisesAt, made, step, recorded>>
    BY <1>1, <1>3, <1>6 DEF Agree, Progress
  <2>2. Recent(a)' = 0
    BY <2>1 DEF Recent
  <2>3. length[Running(a)] \in Nat /\ raisesAt[Running(a)] \in Nat
    BY <2>1, RunningGraph, InsideACapture
  <2>4. 0 <= length[Running(a)] /\ (Raises(Running(a)) => 0 < raisesAt[Running(a)])
    BY <2>3 DEF Raises
  <2>5. Progress(a)'
    BY <2>1, <2>4 DEF Progress, Running, Raises
  <2>6. InOrder(a)'
    <3>1. 0 <= Len(recorded[a]) /\ 1..0 = {}
      BY <1>4
    <3> QED
      BY <2>1, <2>2, <3>1 DEF InOrder
  <2> QED
    BY <2>5, <2>6
<1>7. ASSUME Collective(a) PROVE (Progress(a) /\ InOrder(a))'
  <2>1. /\ pc[a] = "body" /\ pc'[a] = "body" /\ registered'[a] = registered[a]
        /\ step'[a] = step[a] + 1 /\ step[a] < length[Running(a)]
        /\ raisesAt[Running(a)] # step[a] + 1
        /\ UNCHANGED <<length, raisesAt, made>>
        /\ recorded'[a] = IF registered[a]
                          THEN Append(recorded[a], <<Running(a), step[a] + 1>>)
                          ELSE recorded[a]
    BY <1>3, <1>7 DEF Collective
  <2>2. /\ length[Running(a)] \in Nat /\ raisesAt[Running(a)] \in Nat
        /\ Running(a) \in Captures /\ length[Running(a)] \in 0..MaxLength
    BY <2>1, RunningGraph, InsideACapture, NumbersLeft DEF TypeInv, Graphs
  <2>3. Raises(Running(a)) => step[a] < raisesAt[Running(a)]
    BY <1>1, <2>1 DEF Progress
  <2>4. /\ step[a] + 1 <= length[Running(a)]
        /\ Raises(Running(a)) => step[a] + 1 < raisesAt[Running(a)]
    BY <1>4, <2>1, <2>2, <2>3
  <2>5. Progress(a)'
    BY <2>1, <2>4 DEF Progress, Running, Raises
  <2>6. CASE ~registered[a]
    <3>1. Recent(a)' = 0 /\ recorded'[a] = recorded[a]
      BY <2>1, <2>6 DEF Recent
    <3>2. 0 <= Len(recorded[a]) /\ 1..0 = {}
      BY <1>4
    <3>3. InOrder(a)'
      BY <3>1, <3>2 DEF InOrder
    <3> QED
      BY <2>5, <3>3
  <2>7. CASE registered[a]
    <3>1. step[a] + 1 \in 1..MaxLength
      BY <1>4, <2>2, <2>4, GraphCaptureAssumption
    <3>2. <<Running(a), step[a] + 1>> \in Buffers
      BY <2>2, <3>1 DEF Buffers
    <3>3. Recent(a) = step[a] /\ Recent(a)' = step[a] + 1
      BY <2>1, <2>7 DEF Recent
    <3>4. /\ Len(recorded'[a]) = Len(recorded[a]) + 1
          /\ recorded'[a][Len(recorded[a]) + 1] = <<Running(a), step[a] + 1>>
          /\ \A i \in 1..Len(recorded[a]) : recorded'[a][i] = recorded[a][i]
      BY <1>3, <2>1, <2>7, <3>2
    <3>5. step[a] <= Len(recorded[a]) /\ Older(a) = Len(recorded[a]) - step[a]
      BY <1>1, <3>3 DEF InOrder, Older
    <3>6. Older(a)' = Older(a)
      <4>1. Older(a)' = (Len(recorded[a]) + 1) - (step[a] + 1)
        BY <3>3, <3>4 DEF Older
      <4> QED
        BY <1>4, <3>5, <4>1
    <3>7. Recent(a)' <= Len(recorded'[a])
      BY <1>4, <3>3, <3>4, <3>5
    <3>8. ASSUME NEW j \in 1..(step[a] + 1)
          PROVE  recorded'[a][Older(a) + j] = <<Running(a), j>>
      <4>1. CASE j = step[a] + 1
        <5>1. Older(a) + (step[a] + 1) = Len(recorded[a]) + 1
          BY <1>4, <3>5
        <5> QED
          BY <3>4, <4>1, <5>1
      <4>2. CASE j # step[a] + 1
        <5>1. j \in 1..step[a] /\ Older(a) + j \in 1..Len(recorded[a])
          BY <1>4, <3>5, <4>2
        <5>2. recorded[a][Older(a) + j] = <<Running(a), j>>
          BY <1>1, <3>3, <5>1 DEF InOrder
        <5> QED
          BY <3>4, <5>1, <5>2
      <4> QED
        BY <4>1, <4>2
    <3>9. Running(a)' = Running(a)
      BY <2>1 DEF Running
    <3>10. InOrder(a)'
      BY <3>3, <3>6, <3>7, <3>8, <3>9 DEF InOrder
    <3> QED
      BY <2>5, <3>10
  <2> QED
    BY <2>6, <2>7
<1>8. ASSUME Flush(a) PROVE (Progress(a) /\ InOrder(a))'
  <2>1. /\ pc[a] = "body" /\ pc'[a] = "count" /\ step[a] = length[Running(a)]
        /\ raisesAt[Running(a)] # step[a] + 1
        /\ UNCHANGED <<length, raisesAt, made, step, registered, recorded>>
    BY <1>3, <1>8 DEF Flush
  <2>2. ~Raises(Running(a))
    <3>1. length[Running(a)] \in Nat /\ raisesAt[Running(a)] \in Nat
      BY <2>1, RunningGraph, InsideACapture
    <3>2. Raises(Running(a)) => step[a] < raisesAt[Running(a)]
                                /\ raisesAt[Running(a)] <= length[Running(a)] + 1
      BY <1>1, <2>1, <3>1 DEF Progress, Raises
    <3> QED
      BY <2>1, <3>1, <3>2
  <2>3. Progress(a)'
    BY <2>1, <2>2 DEF Progress, Running, Raises
  <2>4. InOrder(a)'
    BY <1>1, <2>1 DEF InOrder, Recent, Older, Running
  <2> QED
    BY <2>3, <2>4
<1>9. ASSUME SendHandles(a) PROVE (Progress(a) /\ InOrder(a))'
  <2>1. /\ pc[a] = "count" /\ pc'[a] = "handles" /\ recorded[a] # <<>>
        /\ UNCHANGED <<length, raisesAt, made, step, registered, recorded>>
    BY <1>3, <1>9 DEF SendHandles
  <2>2. Progress(a)'
    BY <1>1, <2>1 DEF Progress, Running, Raises
  <2>3. InOrder(a)'
    BY <1>1, <2>1 DEF InOrder, Recent, Older, Running
  <2> QED
    BY <2>2, <2>3
<1>10. ASSUME Raise(a) \/ Mismatch(a) \/ NothingToRegister(a) \/ Register(a) \/ CannotUnpack(a)
       PROVE  (Progress(a) /\ InOrder(a))'
  <2>1. /\ pc'[a] = "idle" /\ step'[a] = 0 /\ ~registered'[a]
    BY <1>3, <1>10 DEF Raise, Mismatch, NothingToRegister, Register, CannotUnpack, Leave
  <2>2. Recent(a)' = 0
    BY <2>1 DEF Recent
  <2>3. 0 <= Len(recorded'[a])
    <3>1. TypeInv'
      BY CaptureTypes
    <3>2. recorded'[a] \in Seq(Buffers)
      BY <3>1 DEF TypeInv, TypeOK
    <3>3. Len(recorded'[a]) \in Nat
      BY <3>2
    <3> QED
      BY <3>3
  <2>4. Progress(a)'
    BY <2>1 DEF Progress
  <2>5. InOrder(a)'
    <3>1. 1..0 = {}
      OBVIOUS
    <3> QED
      BY <2>2, <2>3, <3>1 DEF InOrder
  <2> QED
    BY <2>4, <2>5
<1>11. (Progress(a) /\ InOrder(a))'
  BY <1>5, <1>6, <1>7, <1>8, <1>9, <1>10 DEF Capture
<1> QED
  BY <1>2, <1>11

\* What a rank registers, every rank has bound together.
LEMMA TableKept ==
  ASSUME TypeInv, Together, NEW a \in Ranks, Capture(a)
  PROVE  \A r \in Ranks : \A e \in table'[r] : \A p \in Ranks : e[p] = e[r]
<1>1. \A r \in Ranks : \A e \in table[r] : \A p \in Ranks : e[p] = e[r]
  BY TogetherInParts
<1>2. ASSUME NEW r \in Ranks, r # a PROVE table'[r] = table[r]
  BY <1>2, Frame
<1>3. CASE ~Register(a)
  <2>1. table' = table
    BY <1>3 DEF Capture, Begin, Agree, Collective, Raise, Flush, Mismatch,
                NothingToRegister, SendHandles, CannotUnpack
  <2> QED
    BY <1>1, <2>1
<1>4. CASE Register(a)
  <2>1. pc[a] = "handles" /\ table'[a] = table[a] \cup Entries(a)
    BY <1>4 DEF Register, TypeInv, TypeOK
  <2>2. \A p \in Ranks : Gathered(a)[p] = Object("handles", recorded[a])
    BY <2>1, Gathering DEF Fits, Waiting
  <2>3. ASSUME NEW e \in Entries(a), NEW p \in Ranks PROVE e[p] = e[a]
    <3>1. PICK i \in 1..Len(recorded[a]) : e = [q \in Ranks |-> Handle(Gathered(a)[q], i)]
      BY DEF Entries
    <3> QED
      BY <2>2, <3>1
  <2> QED
    BY <1>1, <1>2, <2>1, <2>3
<1> QED
  BY <1>3, <1>4

\* The invariant holds at the start.
LEMMA IInvInit == Init => IInv
<1> SUFFICES ASSUME Init PROVE Together
  BY TypeInvInit DEF IInv
<1>1. TypeInv
  BY TypeInvInit
<1>2. ASSUME NEW r \in Ranks
      PROVE  /\ pc[r] = "idle" /\ step[r] = 0 /\ ~registered[r] /\ recorded[r] = <<>>
             /\ seq[r] = 0 /\ made[r] = 0 /\ table[r] = {} /\ Stage(r) = 0 /\ ~Waiting(r)
             /\ Recent(r) = 0 /\ Start(r) = 0 /\ Older(r) = 0
  <2>1. /\ pc[r] = "idle" /\ step[r] = 0 /\ ~registered[r] /\ recorded[r] = <<>>
        /\ seq[r] = 0 /\ made[r] = 0 /\ table[r] = {}
    BY DEF Init
  <2>2. Stage(r) = 0 /\ Recent(r) = 0 /\ ~Waiting(r)
    BY <2>1 DEF Stage, Recent, Waiting
  <2>3. Len(recorded[r]) = 0
    BY <2>1
  <2> QED
    BY <2>1, <2>2, <2>3 DEF Start, Older
<1>3. \A r \in Ranks : Progress(r) /\ InOrder(r)
  <2>1. \A r \in Ranks : Progress(r)
    BY <1>2 DEF Progress
  <2>2. \A r \in Ranks : Len(recorded[r]) \in Nat
    BY <1>1, Numbers2
  <2>3. \A r \in Ranks : InOrder(r)
    <3> SUFFICES ASSUME NEW r \in Ranks PROVE InOrder(r)
      OBVIOUS
    <3>1. Recent(r) = 0 /\ 0 <= Len(recorded[r]) /\ 1..0 = {}
      BY <1>2, <2>2
    <3> QED
      BY <3>1 DEF InOrder
  <2> QED
    BY <2>1, <2>3
<1>4. Lag
  BY <1>2 DEF Lag
<1>5. Answers
  BY <1>2 DEF Answers
<1>6. Lockstep
  BY <1>2 DEF Lockstep, SameCapture
<1> QED
  BY <1>2, <1>3, <1>4, <1>5, <1>6, TogetherInParts

\* It is inductive.
LEMMA IInvNext == IInv /\ [Next]_vars => IInv'
<1> SUFFICES ASSUME IInv, [Next]_vars PROVE IInv'
  OBVIOUS
<1>1. TypeInv /\ TypeInv' /\ alone \in Nat
  BY TypeInvNext, GraphCaptureAssumption DEF IInv, TypeInv, TypeOK
<1>2. ASSUME NEW a \in Ranks, Capture(a), alone' = 0 PROVE Together'
  <2>1. alone = 0
    BY <1>1, <1>2 DEF Capture, Begin, Agree, Collective, Raise, Flush, Mismatch,
                      NothingToRegister, SendHandles, Register, CannotUnpack
  <2>2. Together
    BY <2>1 DEF IInv
  <2>3. Lockstep' /\ Lag' /\ Answers'
    BY <1>1, <1>2, <2>1, <2>2, LockstepKept, LagKept, AnswersKept
  <2>4. \A r \in Ranks : (Progress(r) /\ InOrder(r))'
    BY <1>1, <1>2, <2>2, ProgressKept
  <2>5. \A r \in Ranks : \A e \in table'[r] : \A p \in Ranks : e[p] = e[r]
    BY <1>1, <1>2, <2>2, TableKept
  <2> QED
    BY <2>3, <2>4, <2>5 DEF Together
<1>3. ASSUME UNCHANGED <<length, raisesAt, made, pc, step, registered, recorded, seq, store,
                         table, alone>>, alone' = 0
      PROVE  Together'
  <2>1. Together
    BY <1>3 DEF IInv
  <2>2. /\ \A r \in Ranks : (Progress(r) <=> Progress(r)') /\ (InOrder(r) <=> InOrder(r)')
    BY <1>3 DEF Progress, InOrder, Recent, Older, Running, Raises
  <2>3. Lag => Lag'
    BY <1>3 DEF Lag, Waiting
  <2>4. Answers => Answers'
    BY <1>3 DEF Answers, Waiting, Fits, Gathered
  <2>5. ASSUME NEW r \in Ranks, NEW p \in Ranks
        PROVE  /\ SameCapture(r, p) => SameCapture(r, p)'
               /\ AheadOf(r, p) => AheadOf(r, p)'
    <3>1. \A q \in Ranks : Start(q)' = Start(q) /\ Older(q)' = Older(q)
      BY <1>3 DEF Start, Stage, Older, Recent
    <3>2. Agreed(r)' = Agreed(r)
      BY <1>3 DEF Agreed, Gathered, Truthy
    <3>3. Path(r)' = Path(r)
      BY <1>3, <3>2 DEF Path
    <3> QED
      BY <1>3, <3>1, <3>3 DEF SameCapture, AheadOf, Raised, Flushed, Running, Raises
  <2>6. Lockstep => Lockstep'
    BY <1>3, <2>5 DEF Lockstep
  <2> QED
    BY <1>3, <2>1, <2>2, <2>3, <2>4, <2>6 DEF Together
<1>4. ASSUME NEW a \in Ranks, SetOptOut(a), alone' = 0 PROVE Together'
  BY <1>3, <1>4 DEF SetOptOut
<1>5. ASSUME UNCHANGED vars, alone' = 0 PROVE Together'
  BY <1>3, <1>5 DEF vars
<1>6. alone' = 0 => Together'
  BY <1>2, <1>4, <1>5 DEF Next
<1> QED
  BY <1>1, <1>6 DEF IInv

\* As long as no capture has raised in one rank only, no rank is more than one exchange
\* ahead, every object is what the ranks waiting at its number wait for, and two ranks
\* in one capture have recorded the same buffers.
THEOREM LockstepInvariant == Spec => []IInv
BY IInvInit, IInvNext, PTL DEF Spec

\* Ranks inside one capture are on the same path, however their hosts have voted: the
\* votes they have gathered are those of this capture, and each has gathered them all.
THEOREM SamePathHolds == Spec => []SamePath
<1>1. IInv => SamePath
  <2> SUFFICES ASSUME IInv, alone = 0, NEW r \in Ranks, NEW p \in Ranks, made[r] = made[p],
                      {pc[r], pc[p]} \subseteq {"body", "count", "handles"}
               PROVE  registered[r] = registered[p]
    BY DEF SamePath
  <2>1. SameCapture(r, p)
    BY DEF IInv, Together, Lockstep
  <2>2. pc[r] \in {"body", "count", "handles"} /\ pc[p] \in {"body", "count", "handles"}
    OBVIOUS
  <2> QED
    BY <2>1, <2>2 DEF SameCapture, Path
<1> QED
  BY <1>1, LockstepInvariant, PTL

\* Every registered position pairs the buffers the ranks have bound in one collective,
\* those that captures raised on every rank have left behind included: the handles each
\* rank has gathered are its own list, element by element.
THEOREM RegisteredTogetherHolds == Spec => []RegisteredTogether
<1>1. IInv => RegisteredTogether
  BY DEF IInv, Together, RegisteredTogether
<1> QED
  BY <1>1, LockstepInvariant, PTL
=============================================================================
