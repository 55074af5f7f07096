------------------------ MODULE ShmBroadcastProofs ------------------------
(***************************************************************************)
(* ShmBroadcast for any number of readers, local or remote, any size of    *)
(* the ring and any number of objects.                                     *)
(*                                                                         *)
(* With all faults: the writer is alone in the chunk it fills, and no      *)
(* reader takes an object for the handshake.  A reader that has found a    *)
(* chunk written and unread by itself keeps the writer out by its own flag,*)
(* which nobody else sets; and READY is the first message of every pipe,   *)
(* since the writer publishes nothing before it has seen all subscriptions.*)
(*                                                                         *)
(* While local readers take what is announced to them: the ring is a window*)
(* of Chunks objects on the objects sent, and each reader is at one place  *)
(* of it, so the sockets next to the ring hold at most one object per chunk*)
(* and the one that is being received; sockets with room for these lose    *)
(* nothing, and the queue implements Broadcast.                            *)
(***************************************************************************)
EXTENDS ShmBroadcast, Integers, SequenceTheorems, TLAPS

Filling == {"overflow", "body", "reset", "commit"}
Reading == {"overflow", "body", "mark"}

\* The object in hand is within the bound on objects.
Budget ==
  /\ wpc \in Filling \cup {"full", "send"} => Local # {}
  /\ wpc \in Filling \cup {"full"} => sent < MaxSent
  /\ wpc = "send" => sent > 0
  /\ wpc = "send remote" => IF Local = {} THEN sent < MaxSent ELSE sent > 0

\* A chunk is not written while the writer fills it.
FillingUnwritten == wpc \in Filling => ~written[widx]

\* A reader that reads a chunk finds it written, and its own flag not set.
ReadingFresh ==
  \A r \in Local : /\ rpc[r] \in Reading \cup {"written"} => ~read[ridx[r]][r]
                   /\ rpc[r] \in Reading => written[ridx[r]]

\* The writer has sent READY to reader r.
Greeted(r) == /\ wpc # "local ready"
              /\ wpc = "remote ready" => r \in Local

\* READY is in the pipe until the reader takes it, first and alone.
Handshaken(r) ==
  /\ (rpc[r] # "connect") <=> (r \in subscribed)
  /\ ~Greeted(r) => rpc[r] \in {"connect", "ready"} /\ pipe[r] = <<>>
  /\ Greeted(r) => rpc[r] # "connect"
  /\ Greeted(r) /\ rpc[r] = "ready" /\ wpc # "closed" => pipe[r] # <<>>
  /\ rpc[r] = "ready" /\ pipe[r] # <<>> => pipe[r][1] = READY
  /\ \A i \in 1..Len(pipe[r]) : i > 1 \/ rpc[r] # "ready" => pipe[r][i] # READY

HandshakeState == \A r \in Readers : Handshaken(r)

ReaderStep(r) == Reader(r) \/ ReadTimeout(r) \/ RecvTimeout(r)

IInv == TypeOK /\ Budget /\ FillingUnwritten /\ ReadingFresh /\ HandshakeState

-----------------------------------------------------------------------------
\* The index that follows one of the ring is in the ring.
LEMMA FollowingInRing == \A c \in Ring : Following(c) \in Ring
  BY ShmBroadcastAssumption DEF Following, Ring

\* Every reader is either local or remote.
LEMMA LocalReaders == /\ Local \subseteq Readers
                      /\ Remote \subseteq Readers
                      /\ \A r \in Readers : r \in Remote <=> r \notin Local
  BY ShmBroadcastAssumption DEF Local, Readers, Remote

\* The messages are READY and the objects 1..MaxSent.
LEMMA MessageTypes == /\ READY \in Messages
                      /\ 0 \in Messages
                      /\ MaxSent \in Nat
                      /\ \A m \in Messages : m # READY => m \in 1..MaxSent
                      /\ \A m \in Messages : m # 0 => m \in 1..MaxSent
                      /\ \A m \in 1..MaxSent : m \in Messages /\ m # READY
  BY ShmBroadcastAssumption DEF Messages, READY

\* What taking the first message leaves.
LEMMA TailFacts ==
  ASSUME NEW S, NEW s \in Seq(S), s # <<>>
  PROVE  /\ Tail(s) \in Seq(S)
         /\ Len(s) \in Nat \ {0}
         /\ Len(Tail(s)) = Len(s) - 1
         /\ \A i \in 1..Len(Tail(s)) : i + 1 \in 1..Len(s) /\ Tail(s)[i] = s[i + 1]
         /\ Head(s) = s[1] /\ Head(s) \in S
  OBVIOUS

\* Publishing keeps the pipes within their limit.
LEMMA PublishedType ==
  ASSUME TypeOK, NEW S \in SUBSET Readers, NEW m \in Messages
  PROVE  /\ Published(S, m) \in [Readers -> Seq(Messages)]
         /\ \A r \in Readers : Len(Published(S, m)[r]) <= HighWater
  BY ShmBroadcastAssumption DEF TypeOK, Published

\* Publishing adds at most the message, at the end, and does so for a subscriber
\* whose pipe is empty.
LEMMA PublishedAppends ==
  ASSUME TypeOK, NEW S, NEW m \in Messages, NEW r \in Readers,
         NEW p, p = Published(S, m)[r]
  PROVE  /\ p # pipe[r] => r \in S \cap subscribed
         /\ pipe[r] # <<>> => p # <<>> /\ p[1] = pipe[r][1]
         /\ pipe[r] = <<>> /\ p # <<>> => p[1] = m /\ Len(p) = 1
         /\ pipe[r] = <<>> /\ r \in S \cap subscribed => p # <<>>
         /\ \A i \in 1..Len(p) : \/ i \in 1..Len(pipe[r]) /\ p[i] = pipe[r][i]
                                 \/ p[i] = m
<1>1. pipe[r] \in Seq(Messages)
  BY DEF TypeOK
<1>2. CASE p = pipe[r]
  <2>1. pipe[r] = <<>> => ~(r \in S \cap subscribed)
    <3>1. ASSUME pipe[r] = <<>>, r \in S \cap subscribed PROVE FALSE
      <4>1. Len(pipe[r]) < HighWater
        BY <3>1, EmptySeq, ShmBroadcastAssumption
      <4>2. p = Append(pipe[r], m)
        BY <3>1, <4>1 DEF Published
      <4> QED BY <1>2, <3>1, <4>2, <1>1, AppendProperties
    <3> QED BY <3>1
  <2> QED BY <1>1, <1>2, <2>1
<1>3. CASE p = Append(pipe[r], m) /\ r \in S \cap subscribed
  <2>1. /\ p # <<>> /\ Len(p) = Len(pipe[r]) + 1 /\ Len(pipe[r]) \in Nat
        /\ \A i \in 1..Len(pipe[r]) : p[i] = pipe[r][i]
        /\ p[Len(pipe[r]) + 1] = m
    BY <1>1, <1>3, AppendProperties
  <2>2. pipe[r] # <<>> => Len(pipe[r]) > 0
    BY <1>1
  <2>3. pipe[r] = <<>> => Len(pipe[r]) = 0
    OBVIOUS
  <2>4. \A i \in 1..Len(p) : i \in 1..Len(pipe[r]) \/ i = Len(pipe[r]) + 1
    BY ONLY <2>1
  <2>5. pipe[r] # <<>> => p[1] = pipe[r][1]
    BY ONLY <2>1, <2>2
  <2>6. pipe[r] = <<>> => p[1] = m /\ Len(p) = 1
    BY ONLY <2>1, <2>3
  <2> QED BY ONLY <1>3, <2>1, <2>4, <2>5, <2>6
<1> QED BY <1>2, <1>3 DEF Published

-----------------------------------------------------------------------------
\* The first state of every instance satisfies the inductive invariant.
LEMMA InitIInv == Init => IInv
<1> SUFFICES ASSUME Init PROVE IInv
  OBVIOUS
<1>1. TypeOK
  <2>1. /\ pipe \in [Readers -> Seq(Messages)]
        /\ delivered \in [Readers -> Seq(1..MaxSent)]
    BY EmptySeq DEF Init
  <2>2. \A r \in Readers : Len(pipe[r]) <= HighWater
    <3>1. \A r \in Readers : pipe[r] = <<>>
      BY DEF Init
    <3>2. Len(<<>>) = 0 /\ HighWater \in Nat
      BY ShmBroadcastAssumption
    <3> QED BY ONLY <3>1, <3>2
  <2>3. /\ 0 \in Ring
        /\ 1 \in 1..(NLocal + 1)
        /\ 0 \in 0..MaxSent
    BY ShmBroadcastAssumption DEF Ring
  <2>4. /\ body \in [Ring -> Messages] /\ seen \in [Readers -> Messages]
        /\ ridx \in [Readers -> Ring]
    BY <2>3, MessageTypes DEF Init
  <2> QED BY <2>1, <2>2, <2>3, <2>4 DEF Init, TypeOK, WriterPlaces, ReaderPlaces
<1>2. Budget /\ FillingUnwritten /\ ReadingFresh
  BY LocalReaders DEF Init, Budget, FillingUnwritten, ReadingFresh, Filling, Reading
<1>3. HandshakeState
  <2>1. \A r \in Readers : pipe[r] = <<>> /\ rpc[r] = "connect"
    BY DEF Init
  <2>2. subscribed = {} /\ wpc = "local ready"
    BY DEF Init
  <2>3. \A r \in Readers : \A i \in 1..Len(pipe[r]) : FALSE
    BY <2>1
  <2> QED BY ONLY <2>1, <2>2, <2>3 DEF HandshakeState, Handshaken, Greeted
<1> QED BY <1>1, <1>2, <1>3 DEF IInv

\* What a reader does, faults included, changes neither the writer's variables nor
\* a written flag.
LEMMA ReaderFrame ==
  ASSUME NEW r \in Readers, ReaderStep(r) PROVE UNCHANGED <<writerVars, written>>
  BY DEF ReaderStep, Reader, Connect, ReceiveReady, Dequeue, LoadFlag, LoadWritten,
         ReadOverflow, ReadBody, MarkRead, Receive, ReadTimeout, RecvTimeout, ringVars

\* Every step preserves the types.
LEMMA StepTypeOK == ASSUME IInv, [Next]_vars PROVE TypeOK'
<1> USE FollowingInRing, LocalReaders, MessageTypes DEF IInv, TypeOK, WriterPlaces,
       ReaderPlaces, ringVars, writerVars, readerVars, WriterAt, WriterGoto,
       ReaderAt, ReaderGoto
<1>1. CASE LocalReady
  BY <1>1, PublishedType DEF LocalReady
<1>2. CASE RemoteReady
  BY <1>2, PublishedType DEF RemoteReady
<1>3. CASE WriteBody
  BY <1>3 DEF WriteBody, Budget, Filling, Messages
<1>4. CASE ResetFlag
  <2>1. toReset' \in 1..(NLocal + 1)
    BY <1>4, ShmBroadcastAssumption DEF ResetFlag
  <2>2. read' \in [Ring -> [Local -> BOOLEAN]]
    BY <1>4 DEF ResetFlag
  <2> QED BY <1>4, <2>1, <2>2 DEF ResetFlag
<1>5. CASE CommitWrite
  <2>1. sent' \in 0..MaxSent
    <3>1. sent < MaxSent
      BY <1>5 DEF CommitWrite, Budget, Filling
    <3>2. sent' = sent + 1
      BY <1>5 DEF CommitWrite
    <3>3. sent \in 0..MaxSent /\ MaxSent \in Nat
      BY MessageTypes
    <3> QED BY ONLY <3>1, <3>2, <3>3
  <2>2. widx' \in Ring
    BY <1>5 DEF CommitWrite
  <2> QED BY <1>5, <2>1, <2>2 DEF CommitWrite
<1>6. CASE SendOverflow
  <2>1. sent \in Messages
    BY DEF Messages
  <2> QED BY <1>6, <2>1, PublishedType DEF SendOverflow
<1>7. CASE SendRemote
  <2>1. sent' \in 0..MaxSent
    <3>1. CASE Local = {}
      <4>1. sent < MaxSent /\ sent' = sent + 1
        BY <1>7, <3>1 DEF SendRemote, Budget
      <4>2. sent \in 0..MaxSent /\ MaxSent \in Nat
        BY MessageTypes
      <4> QED BY ONLY <4>1, <4>2
    <3>2. CASE Local # {}
      BY <1>7, <3>2 DEF SendRemote
    <3> QED BY <3>1, <3>2
  <2>2. sent' \in Messages
    BY <2>1 DEF Messages
  <2> QED BY <1>7, <2>1, <2>2, PublishedType DEF SendRemote
<1>8. CASE Enqueue  BY <1>8 DEF Enqueue
<1>9. CASE AcquireWrite  BY <1>9 DEF AcquireWrite
<1>10. CASE WriteOverflow  BY <1>10 DEF WriteOverflow
<1>11. CASE WriteTimeout  BY <1>11 DEF WriteTimeout
<1>12. CASE Close  BY <1>12 DEF Close
<1>13. ASSUME NEW r \in Readers, ReaderStep(r) PROVE TypeOK'
  <2>1. CASE ReceiveReady(r)
    <3>1. Tail(pipe[r]) \in Seq(Messages) /\ Len(Tail(pipe[r])) <= HighWater
      <4>1. pipe[r] \in Seq(Messages) /\ pipe[r] # <<>> /\ Len(pipe[r]) <= HighWater
        BY <2>1 DEF ReceiveReady
      <4>2. HighWater \in Nat
        BY ShmBroadcastAssumption
      <4> QED BY ONLY <4>1, <4>2, TailFacts
    <3> QED BY <2>1, <3>1 DEF ReceiveReady
  <2>2. CASE MarkRead(r)
    <3>1. CASE seen[r] = 0
      BY <2>2, <3>1 DEF MarkRead
    <3>2. CASE seen[r] # 0
      <4>1. Append(delivered[r], seen[r]) \in Seq(1..MaxSent)
        BY <3>2, AppendProperties
      <4>2. read' \in [Ring -> [Local -> BOOLEAN]] /\ ridx' \in [Readers -> Ring]
        BY <2>2 DEF MarkRead
      <4>3. delivered' \in [Readers -> Seq(1..MaxSent)]
        BY <2>2, <3>2, <4>1 DEF MarkRead, Return
      <4>4. rpc' \in [Readers -> ReaderPlaces]
        BY <2>2, <3>2 DEF MarkRead
      <4> QED BY <2>2, <4>2, <4>3, <4>4 DEF MarkRead
    <3> QED BY <3>1, <3>2
  <2>3. CASE Receive(r)
    <3>1. Tail(pipe[r]) \in Seq(Messages) /\ Len(Tail(pipe[r])) <= HighWater
      <4>1. pipe[r] \in Seq(Messages) /\ pipe[r] # <<>> /\ Len(pipe[r]) <= HighWater
        BY <2>3 DEF Receive
      <4>2. HighWater \in Nat
        BY ShmBroadcastAssumption
      <4> QED BY ONLY <4>1, <4>2, TailFacts
    <3>2. Head(pipe[r]) \in 1..MaxSent
      <4>1. pipe[r] \in Seq(Messages) /\ pipe[r] # <<>> /\ rpc[r] = "recv"
        BY <2>3 DEF Receive
      <4>2. \A i \in 1..Len(pipe[r]) : pipe[r][i] # READY
        BY <4>1 DEF HandshakeState, Handshaken
      <4>3. Len(pipe[r]) \in Nat \ {0} /\ Head(pipe[r]) = pipe[r][1]
            /\ Head(pipe[r]) \in Messages
        BY ONLY <4>1, TailFacts
      <4>4. Head(pipe[r]) # READY
        BY ONLY <4>2, <4>3
      <4> QED BY <4>3, <4>4
    <3>3. Append(delivered[r], Head(pipe[r])) \in Seq(1..MaxSent)
      BY <3>2, AppendProperties
    <3> QED BY <2>3, <3>1, <3>3 DEF Receive, Return
  <2>4. CASE Connect(r)  BY <2>4 DEF Connect
  <2>5. CASE Dequeue(r)  BY <2>5 DEF Dequeue
  <2>6. CASE LoadFlag(r)  BY <2>6 DEF LoadFlag
  <2>7. CASE LoadWritten(r)  BY <2>7 DEF LoadWritten
  <2>8. CASE ReadOverflow(r)  BY <2>8 DEF ReadOverflow
  <2>9. CASE ReadBody(r)  BY <2>9 DEF ReadBody
  <2>10. CASE ReadTimeout(r)  BY <2>10 DEF ReadTimeout
  <2>11. CASE RecvTimeout(r)  BY <2>11 DEF RecvTimeout
  <2> QED BY <1>13, <2>1, <2>2, <2>3, <2>4, <2>5, <2>6, <2>7, <2>8, <2>9, <2>10, <2>11 DEF
       ReaderStep, Reader
<1>14. CASE UNCHANGED vars
  BY <1>14 DEF vars
<1> QED BY <1>1, <1>2, <1>3, <1>4, <1>5, <1>6, <1>7, <1>8, <1>9, <1>10, <1>11, <1>12, <1>13,
       <1>14 DEF Next, Writer, Fault, Finished, ReaderStep

\* The writer only fills chunks for an object within the bound.
LEMMA StepBudget == ASSUME IInv, [Next]_vars PROVE Budget'
<1> USE ShmBroadcastAssumption DEF IInv, TypeOK, Budget, Filling, ringVars,
       writerVars, readerVars, WriterAt, WriterGoto, ReaderAt, ReaderGoto
<1>1. CASE CommitWrite
  <2>1. Local # {} /\ sent' = sent + 1
    BY <1>1 DEF CommitWrite
  <2>2. sent + 1 > 0
    <3>1. sent \in 0..MaxSent
      OBVIOUS
    <3> QED BY ONLY <3>1
  <2> QED BY <1>1, <2>1, <2>2 DEF CommitWrite
<1>2. CASE LocalReady \/ RemoteReady \/ Enqueue \/ AcquireWrite \/ WriteOverflow \/
       WriteBody \/ ResetFlag \/ SendOverflow \/ SendRemote \/ WriteTimeout \/ Close
  BY <1>2 DEF LocalReady, RemoteReady, Enqueue, AcquireWrite, WriteOverflow,
         WriteBody, ResetFlag, SendOverflow, SendRemote, WriteTimeout, Close
<1>3. ASSUME NEW r \in Readers, ReaderStep(r) PROVE Budget'
  BY <1>3, ReaderFrame DEF writerVars
<1>4. CASE UNCHANGED vars
  BY <1>4 DEF vars
<1> QED BY <1>1, <1>2, <1>3, <1>4 DEF Next, Writer, Fault, Finished, ReaderStep

\* Only acquire_write and the commit change a written flag.
LEMMA StepFilling == ASSUME IInv, [Next]_vars PROVE FillingUnwritten'
<1> USE DEF IInv, TypeOK, FillingUnwritten, Filling, ringVars, writerVars,
       readerVars, WriterAt, WriterGoto, ReaderAt, ReaderGoto
<1>1. CASE LocalReady \/ RemoteReady \/ Enqueue \/ AcquireWrite \/ WriteOverflow \/
       WriteBody \/ ResetFlag \/ CommitWrite \/ SendOverflow \/ SendRemote \/
       WriteTimeout \/ Close
  BY <1>1 DEF LocalReady, RemoteReady, Enqueue, AcquireWrite, WriteOverflow,
         WriteBody, ResetFlag, CommitWrite, SendOverflow, SendRemote, WriteTimeout,
         Close
<1>2. ASSUME NEW r \in Readers, ReaderStep(r) PROVE FillingUnwritten'
  BY <1>2, ReaderFrame DEF writerVars
<1>3. CASE UNCHANGED vars
  BY <1>3 DEF vars
<1> QED BY <1>1, <1>2, <1>3 DEF Next, Writer, Fault, Finished, ReaderStep

\* acquire_write finds no reader in its chunk, since that reader's flag is not set.
LEMMA StepReading == ASSUME IInv, [Next]_vars PROVE ReadingFresh'
<1> USE LocalReaders DEF IInv, TypeOK, ReadingFresh, FillingUnwritten, Filling,
       Reading, ringVars, writerVars, readerVars, WriterAt, WriterGoto, ReaderAt,
       ReaderGoto
<1>1. CASE AcquireWrite
  BY <1>1 DEF AcquireWrite, Writable, ReadByAll
<1>2. CASE LocalReady  BY <1>2 DEF LocalReady
<1>3. CASE RemoteReady  BY <1>3 DEF RemoteReady
<1>4. CASE Enqueue  BY <1>4 DEF Enqueue
<1>5. CASE WriteOverflow  BY <1>5 DEF WriteOverflow
<1>6. CASE WriteBody  BY <1>6 DEF WriteBody
<1>7. CASE ResetFlag  BY <1>7 DEF ResetFlag
<1>8. CASE CommitWrite  BY <1>8 DEF CommitWrite
<1>9. CASE SendOverflow  BY <1>9 DEF SendOverflow
<1>10. CASE SendRemote  BY <1>10 DEF SendRemote
<1>11. CASE WriteTimeout  BY <1>11 DEF WriteTimeout
<1>12. CASE Close  BY <1>12 DEF Close
<1>13. ASSUME NEW r \in Readers, ReaderStep(r) PROVE ReadingFresh'
  <2>1. CASE Connect(r)  BY <2>1 DEF Connect
  <2>2. CASE ReceiveReady(r)  BY <2>2 DEF ReceiveReady
  <2>3. CASE Dequeue(r)  BY <2>3 DEF Dequeue
  <2>4. CASE LoadFlag(r)  BY <2>4 DEF LoadFlag
  <2>5. CASE LoadWritten(r)  BY <2>5 DEF LoadWritten
  <2>6. CASE ReadOverflow(r)  BY <2>6 DEF ReadOverflow
  <2>7. CASE ReadBody(r)  BY <2>7 DEF ReadBody
  <2>8. CASE MarkRead(r)  BY <2>8 DEF MarkRead
  <2>9. CASE Receive(r)  BY <2>9 DEF Receive
  <2>10. CASE ReadTimeout(r)  BY <2>10 DEF ReadTimeout
  <2>11. CASE RecvTimeout(r)  BY <2>11 DEF RecvTimeout
  <2> QED BY <1>13, <2>1, <2>2, <2>3, <2>4, <2>5, <2>6, <2>7, <2>8, <2>9, <2>10, <2>11 DEF
       ReaderStep, Reader
<1>14. CASE UNCHANGED vars
  BY <1>14 DEF vars
<1> QED BY <1>1, <1>2, <1>3, <1>4, <1>5, <1>6, <1>7, <1>8, <1>9, <1>10, <1>11, <1>12, <1>13,
       <1>14 DEF Next, Writer, Fault, Finished, ReaderStep

\* What the writer publishes after the handshake is an object, not READY.
LEMMA SentObject ==
  ASSUME IInv
  PROVE  /\ wpc = "send" => sent \in Messages /\ sent # READY
         /\ SendRemote => sent' \in Messages /\ sent' # READY
<1>1. sent \in 0..MaxSent /\ MaxSent \in Nat
  BY MessageTypes DEF IInv, TypeOK
<1>2. /\ wpc = "send" => sent > 0
      /\ wpc = "send remote" => IF Local = {} THEN sent < MaxSent ELSE sent > 0
  BY DEF IInv, Budget
<1>3. ASSUME SendRemote PROVE sent' \in 1..MaxSent
  <2>1. CASE Local = {}
    <3>1. sent' = sent + 1 /\ sent < MaxSent
      BY <1>2, <1>3, <2>1 DEF SendRemote, WriterAt
    <3> QED BY ONLY <1>1, <3>1
  <2>2. CASE Local # {}
    <3>1. sent' = sent /\ sent > 0
      BY <1>2, <1>3, <2>2 DEF SendRemote, WriterAt
    <3> QED BY ONLY <1>1, <3>1
  <2> QED BY <2>1, <2>2
<1>4. wpc = "send" => sent \in 1..MaxSent
  BY ONLY <1>1, <1>2
<1> QED BY <1>3, <1>4, MessageTypes

\* Publishing an object keeps the handshake's state.
LEMMA ObjectPublished ==
  ASSUME IInv, NEW S \in SUBSET Readers, NEW m \in Messages, m # READY,
         wpc \in {"send", "send remote"}, wpc' \in {"send remote", "idle"},
         pipe' = Published(S, m), UNCHANGED <<rpc, subscribed>>
  PROVE  HandshakeState'
<1> SUFFICES ASSUME NEW r \in Readers PROVE Handshaken(r)'
  BY DEF HandshakeState
<1>1. Handshaken(r)
  BY DEF IInv, HandshakeState
<1>2. Greeted(r) /\ Greeted(r)'
  BY DEF Greeted
<1>3. pipe'[r] = Published(S, m)[r]
  OBVIOUS
<1>4. /\ pipe[r] # <<>> => pipe'[r] # <<>> /\ pipe'[r][1] = pipe[r][1]
      /\ \A i \in 1..Len(pipe'[r]) :
            \/ i \in 1..Len(pipe[r]) /\ pipe'[r][i] = pipe[r][i]
            \/ pipe'[r][i] = m
  <2>1. TypeOK
    BY DEF IInv
  <2> QED BY ONLY <1>3, <2>1, m \in Messages, r \in Readers, PublishedAppends
<1>5. wpc # "closed"
  OBVIOUS
<1> QED BY ONLY <1>1, <1>2, <1>4, <1>5, m # READY, UNCHANGED <<rpc, subscribed>>
        DEF Handshaken

\* So does publishing READY to readers that have subscribed and wait for it.
LEMMA ReadyPublished ==
  ASSUME IInv, NEW S \in SUBSET Readers,
         \A r \in Readers : Greeted(r)' <=> Greeted(r) \/ r \in S,
         \A r \in S : r \in subscribed /\ ~Greeted(r),
         wpc \in {"local ready", "remote ready"},
         pipe' = Published(S, READY), UNCHANGED <<rpc, subscribed>>
  PROVE  HandshakeState'
<1> SUFFICES ASSUME NEW r \in Readers PROVE Handshaken(r)'
  BY DEF HandshakeState
<1>1. Handshaken(r)
  BY DEF IInv, HandshakeState
<1>0. TypeOK
  BY DEF IInv
<1>2. pipe'[r] = Published(S, READY)[r]
  OBVIOUS
<1>3. CASE r \in S
  <2>1. rpc[r] = "ready" /\ pipe[r] = <<>> /\ r \in subscribed
    BY <1>1, <1>3 DEF Handshaken
  <2>2. pipe'[r] # <<>> /\ pipe'[r][1] = READY /\ Len(pipe'[r]) = 1
    BY ONLY <1>0, <1>2, <1>3, <2>1, MessageTypes, r \in Readers, PublishedAppends
  <2>3. Greeted(r)'
    BY <1>3
  <2>4. \A i \in 1..Len(pipe'[r]) : pipe'[r][i] = READY /\ i = 1
    BY ONLY <2>2
  <2> QED BY ONLY <2>1, <2>2, <2>3, <2>4, UNCHANGED <<rpc, subscribed>>
          DEF Handshaken
<1>4. CASE r \notin S
  <2>1. pipe'[r] = pipe[r]
    BY ONLY <1>0, <1>2, <1>4, MessageTypes, r \in Readers, PublishedAppends
  <2>2. Greeted(r)' <=> Greeted(r)
    BY <1>4
  <2>3. wpc # "closed"
    OBVIOUS
  <2> QED BY ONLY <1>1, <2>1, <2>2, <2>3, UNCHANGED <<rpc, subscribed>> DEF Handshaken
<1> QED BY <1>3, <1>4

\* So does taking the first message, be it READY or an object.
LEMMA PipeTaken ==
  ASSUME IInv, NEW r \in Readers, pipe[r] # <<>>, rpc[r] \in {"ready", "recv"},
         pipe' = [pipe EXCEPT ![r] = Tail(@)], rpc' = [rpc EXCEPT ![r] = "idle"],
         UNCHANGED <<wpc, subscribed>>
  PROVE  HandshakeState'
<1> SUFFICES ASSUME NEW q \in Readers PROVE Handshaken(q)'
  BY DEF HandshakeState
<1>1. Handshaken(q) /\ Handshaken(r)
  BY DEF IInv, HandshakeState
<1>2. Greeted(q)' <=> Greeted(q)
  BY DEF Greeted
<1>3. CASE q # r
  <2>1. pipe'[q] = pipe[q] /\ rpc'[q] = rpc[q]
    BY <1>3 DEF IInv, TypeOK
  <2> QED BY ONLY <1>1, <1>2, <2>1, UNCHANGED <<wpc, subscribed>> DEF Handshaken
<1>4. CASE q = r
  <2>1. pipe'[q] = Tail(pipe[r]) /\ rpc'[q] = "idle" /\ pipe[r] \in Seq(Messages)
    BY <1>4 DEF IInv, TypeOK
  <2>2. \A i \in 1..Len(Tail(pipe[r])) :
           i + 1 \in 1..Len(pipe[r]) /\ i + 1 > 1 /\ Tail(pipe[r])[i] = pipe[r][i + 1]
    BY <2>1, TailFacts
  <2>3. \A i \in 1..Len(pipe'[q]) : pipe'[q][i] # READY
    BY ONLY <1>1, <2>1, <2>2 DEF Handshaken
  <2>4. Greeted(r) /\ r \in subscribed
    BY <1>1 DEF Handshaken
  <2> QED BY ONLY <1>2, <1>4, <2>1, <2>3, <2>4, UNCHANGED subscribed DEF Handshaken
<1> QED BY <1>3, <1>4

\* Every step keeps the handshake's state.
LEMMA StepHandshake == ASSUME IInv, [Next]_vars PROVE HandshakeState'
<1> USE LocalReaders, MessageTypes, ShmBroadcastAssumption DEF IInv, TypeOK,
       HandshakeState, Handshaken, Greeted, ringVars, writerVars, readerVars,
       WriterAt, WriterGoto, ReaderAt, ReaderGoto
<1>1. CASE LocalReady
  <2>1. \A r \in Readers : Greeted(r)' <=> Greeted(r) \/ r \in Local
    BY <1>1 DEF LocalReady
  <2>2. \A r \in Local : r \in subscribed /\ ~Greeted(r)
    BY <1>1 DEF LocalReady, AllSubscribed
  <2> QED BY <1>1, <2>1, <2>2, ReadyPublished DEF LocalReady
<1>2. CASE RemoteReady
  <2>1. \A r \in Readers : Greeted(r)' <=> Greeted(r) \/ r \in Remote
    BY <1>2 DEF RemoteReady
  <2>2. \A r \in Remote : r \in subscribed /\ ~Greeted(r)
    BY <1>2 DEF RemoteReady, AllSubscribed
  <2> QED BY <1>2, <2>1, <2>2, ReadyPublished DEF RemoteReady
<1>3. CASE SendOverflow
  <2>1. sent \in Messages /\ sent # READY
    BY <1>3, SentObject DEF SendOverflow
  <2> QED BY <1>3, <2>1, ObjectPublished DEF SendOverflow
<1>4. CASE SendRemote
  <2>1. sent' \in Messages /\ sent' # READY
    BY <1>4, SentObject DEF SendRemote
  <2> QED BY <1>4, <2>1, ObjectPublished DEF SendRemote
<1>5. CASE Enqueue  BY <1>5 DEF Enqueue
<1>6. CASE AcquireWrite  BY <1>6 DEF AcquireWrite
<1>7. CASE WriteOverflow  BY <1>7 DEF WriteOverflow
<1>8. CASE WriteBody  BY <1>8 DEF WriteBody
<1>9. CASE ResetFlag  BY <1>9 DEF ResetFlag
<1>10. CASE CommitWrite  BY <1>10 DEF CommitWrite
<1>11. CASE WriteTimeout  BY <1>11 DEF WriteTimeout
<1>12. CASE Close  BY <1>12 DEF Close
<1>13. ASSUME NEW r \in Readers, ReaderStep(r) PROVE HandshakeState'
  <2>1. CASE ReceiveReady(r)
    BY <2>1, PipeTaken DEF ReceiveReady
  <2>2. CASE Receive(r)
    BY <2>2, PipeTaken DEF Receive
  <2>3. CASE Connect(r)  BY <2>3 DEF Connect
  <2>4. CASE Dequeue(r)  BY <2>4 DEF Dequeue
  <2>5. CASE LoadFlag(r)  BY <2>5 DEF LoadFlag
  <2>6. CASE LoadWritten(r)  BY <2>6 DEF LoadWritten
  <2>7. CASE ReadOverflow(r)  BY <2>7 DEF ReadOverflow
  <2>8. CASE ReadBody(r)  BY <2>8 DEF ReadBody
  <2>9. CASE MarkRead(r)  BY <2>9 DEF MarkRead
  <2>10. CASE ReadTimeout(r)  BY <2>10 DEF ReadTimeout
  <2>11. CASE RecvTimeout(r)  BY <2>11 DEF RecvTimeout
  <2> QED BY <1>13, <2>1, <2>2, <2>3, <2>4, <2>5, <2>6, <2>7, <2>8, <2>9, <2>10, <2>11 DEF
       ReaderStep, Reader
<1>14. CASE UNCHANGED vars
  BY <1>14 DEF vars
<1> QED BY <1>1, <1>2, <1>3, <1>4, <1>5, <1>6, <1>7, <1>8, <1>9, <1>10, <1>11, <1>12, <1>13,
       <1>14 DEF Next, Writer, Fault, Finished, ReaderStep

\* Every step preserves the inductive invariant.
LEMMA StepIInv == ASSUME IInv, [Next]_vars PROVE IInv'
  BY StepTypeOK, StepBudget, StepFilling, StepReading, StepHandshake DEF IInv

-----------------------------------------------------------------------------
\* The inductive invariant holds throughout.
THEOREM Invariance == Spec => []IInv
<1>1. IInv /\ [Next]_vars => IInv'
  BY StepIInv
<1> QED BY InitIInv, <1>1, PTL DEF Spec

\* Flags, indices and pipes keep their types; in particular no pipe exceeds its limit
\* (enqueue, dequeue).
THEOREM TypeCorrect == Spec => []TypeOK
<1>1. IInv => TypeOK
  BY DEF IInv
<1> QED BY Invariance, <1>1, PTL

\* The writer never fills a chunk that a local reader is reading (acquire_write).
THEOREM WriterAloneHolds == Spec => []WriterAlone
<1>1. IInv => WriterAlone
  BY DEF IInv, FillingUnwritten, ReadingFresh, WriterAlone, Filling, Reading
<1> QED BY Invariance, <1>1, PTL

\* The assertion recv == READY of wait_until_ready holds in every reader.
THEOREM HandshakeFirstHolds == Spec => []HandshakeFirst
<1>1. ASSUME IInv PROVE HandshakeFirst
  <2> SUFFICES ASSUME NEW r \in Readers, rpc[r] = "ready", pipe[r] # <<>>
               PROVE  Head(pipe[r]) = READY
    BY DEF HandshakeFirst, ReaderAt
  <2>1. pipe[r] \in Seq(Messages)
    BY <1>1 DEF IInv, TypeOK
  <2>2. pipe[r][1] = READY
    BY <1>1 DEF IInv, HandshakeState, Handshaken
  <2> QED BY <2>1, <2>2, TailFacts
<1> QED BY Invariance, <1>1, PTL

-----------------------------------------------------------------------------
(* The ring as a window on the objects sent: object a + 1 is in chunk Slot(a) *)

Slot(a) == a % Chunks

\* Object a + 1 is in the ring, in a chunk that the writer has not taken again.
InRing(a) == /\ a < sent /\ sent <= a + Chunks
             /\ wpc \in Filling => sent < a + Chunks

\* The chunks reader r has marked as read.
Taken(r) == Len(delivered[r]) + (IF rpc[r] = "recv" THEN 1 ELSE 0)

\* A local reader takes an object from its socket once it has been announced.
SocketsReliable == Faults \cap {"overflowTimeout", "overflowUnpickle"} = {}

\* The writer is at most one lap ahead of every reader.
Lap ==
  /\ Local # {} => widx = Slot(sent)
  /\ \A r \in Local : /\ ridx[r] = Slot(Taken(r))
                      /\ Taken(r) <= sent /\ sent <= Taken(r) + Chunks
                      /\ wpc \in Filling => sent < Taken(r) + Chunks

\* The flags say which objects each reader has taken.
FlagsMatch ==
  \A r \in Local, a \in Nat : InRing(a) =>
    written[Slot(a)] /\ (read[Slot(a)][r] <=> a < Taken(r))

\* In the first lap the chunks ahead have not been written yet.
AheadUnwritten == Local # {} => \A c \in Ring : c >= sent => ~written[c]

\* The flags before toReset have been reset.
ResetSoFar ==
  /\ wpc # "reset" => toReset = 1
  /\ \A r \in Local : wpc = "commit" \/ (wpc = "reset" /\ r < toReset) => ~read[widx][r]

\* A remote reader does not look at the ring.
RemoteOffRing == \A r \in Remote : rpc[r] \in {"connect", "ready", "idle", "recv"}

RingInv == Lap /\ FlagsMatch /\ AheadUnwritten /\ ResetSoFar /\ RemoteOffRing

\* Division with remainder.
LEMMA Division ==
  ASSUME NEW n \in Nat
  PROVE  /\ n \div Chunks \in Nat /\ n % Chunks \in 0..(Chunks - 1)
         /\ n = Chunks * (n \div Chunks) + (n % Chunks)
<1>1. Chunks \in Nat \ {0}
  BY ShmBroadcastAssumption
<1> QED BY ONLY <1>1

\* Quotient and remainder are unique.
LEMMA DivMod ==
  ASSUME NEW q \in Nat, NEW a \in 0..(Chunks - 1), NEW p \in Nat, NEW b \in 0..(Chunks - 1),
         Chunks * q + a = Chunks * p + b
  PROVE  q = p /\ a = b
<1> USE ShmBroadcastAssumption
<1>1. CASE q = p
  BY <1>1
<1>2. CASE q < p
  <2>1. Chunks * p >= Chunks * (q + 1)
    BY <1>2
  <2>2. Chunks * (q + 1) = Chunks * q + Chunks
    OBVIOUS
  <2> QED BY <2>1, <2>2
<1>3. CASE p < q
  <2>1. Chunks * q >= Chunks * (p + 1)
    BY <1>3
  <2>2. Chunks * (p + 1) = Chunks * p + Chunks
    OBVIOUS
  <2> QED BY <2>1, <2>2
<1> QED BY <1>1, <1>2, <1>3

\* What the remainder is.
LEMMA SlotIs ==
  ASSUME NEW q \in Nat, NEW a \in 0..(Chunks - 1), NEW n \in Nat, n = Chunks * q + a
  PROVE  Slot(n) = a
<1>1. n \div Chunks \in Nat /\ n % Chunks \in 0..(Chunks - 1)
      /\ n = Chunks * (n \div Chunks) + (n % Chunks)
  BY Division
<1> QED BY <1>1, DivMod DEF Slot

\* Every number is a multiple of the ring's size and its slot.
LEMMA SlotOf ==
  ASSUME NEW n \in Nat
  PROVE  Slot(n) \in Ring /\ \E q \in Nat : n = Chunks * q + Slot(n)
<1>1. n \div Chunks \in Nat /\ n % Chunks \in 0..(Chunks - 1)
      /\ n = Chunks * (n \div Chunks) + (n % Chunks)
  BY Division
<1> QED BY <1>1 DEF Slot, Ring

\* Objects in a row are in chunks in a row.
LEMMA SlotNext == ASSUME NEW n \in Nat PROVE Slot(n + 1) = Following(Slot(n))
<1>1. PICK q \in Nat : n = Chunks * q + Slot(n)
  BY SlotOf
<1>2. Slot(n) \in 0..(Chunks - 1) /\ Chunks \in Nat \ {0}
  BY SlotOf, ShmBroadcastAssumption DEF Ring
<1>3. CASE Slot(n) + 1 < Chunks
  <2>1. n + 1 = Chunks * q + (Slot(n) + 1) /\ Slot(n) + 1 \in 0..(Chunks - 1)
    BY <1>1, <1>2, <1>3
  <2>2. Slot(n + 1) = Slot(n) + 1
    BY <2>1, SlotIs
  <2>3. Slot(n) + 1 = Chunks * 0 + (Slot(n) + 1) /\ Slot(n) + 1 \in Nat
    BY <1>2
  <2>4. Slot(Slot(n) + 1) = Slot(n) + 1
    BY <2>1, <2>3, SlotIs
  <2> QED BY <2>2, <2>4 DEF Following, Slot
<1>4. CASE Slot(n) + 1 = Chunks
  <2>1. n + 1 = Chunks * (q + 1) + 0 /\ q + 1 \in Nat /\ 0 \in 0..(Chunks - 1)
    BY <1>1, <1>2, <1>4
  <2>2. Slot(n + 1) = 0
    BY <2>1, SlotIs
  <2>3. Chunks = Chunks * 1 + 0
    BY <1>2
  <2>4. Slot(Chunks) = 0
    BY <1>2, <2>1, <2>3, SlotIs
  <2> QED BY <1>4, <2>2, <2>4 DEF Following, Slot
<1> QED BY <1>2, <1>3, <1>4

\* Less than a lap apart, two objects are in different chunks ...
LEMMA SlotApart ==
  ASSUME NEW m \in Nat, NEW n \in Nat, m < n, n < m + Chunks PROVE Slot(m) # Slot(n)
<1>1. PICK p \in Nat : m = Chunks * p + Slot(m)
  BY SlotOf
<1>2. PICK q \in Nat : n = Chunks * q + Slot(n)
  BY SlotOf
<1>3. Slot(m) \in Nat /\ Slot(n) \in Nat /\ Chunks \in Nat \ {0}
  BY SlotOf, ShmBroadcastAssumption DEF Ring
<1> SUFFICES ASSUME Slot(m) = Slot(n) PROVE FALSE
  OBVIOUS
<1>4. CASE q <= p
  <2>1. Chunks * q <= Chunks * p
    BY <1>3, <1>4
  <2> QED BY <1>1, <1>2, <1>3, <2>1
<1>5. CASE q >= p + 1
  <2>1. Chunks * q >= Chunks * (p + 1) /\ Chunks * (p + 1) = Chunks * p + Chunks
    BY <1>3, <1>5
  <2> QED BY <1>1, <1>2, <1>3, <2>1
<1> QED BY <1>4, <1>5

\* ... and a lap apart in the same one.
LEMMA SlotLap == ASSUME NEW n \in Nat PROVE Slot(n + Chunks) = Slot(n)
<1>1. PICK q \in Nat : n = Chunks * q + Slot(n)
  BY SlotOf
<1>2. Slot(n) \in 0..(Chunks - 1) /\ Chunks \in Nat \ {0}
  BY SlotOf, ShmBroadcastAssumption DEF Ring
<1>3. n + Chunks = Chunks * (q + 1) + Slot(n) /\ q + 1 \in Nat /\ n + Chunks \in Nat
  BY <1>1, <1>2
<1> QED BY <1>2, <1>3, SlotIs

\* In the first lap an object's chunk is its number.
LEMMA SlotFirst == ASSUME NEW n \in Nat, n < Chunks PROVE Slot(n) = n
<1>1. n \in 0..(Chunks - 1) /\ n = Chunks * 0 + n
  BY ShmBroadcastAssumption
<1> QED BY <1>1, SlotIs

-----------------------------------------------------------------------------
(* How far the readers are *)

\* The number of chunks a reader has taken.
LEMMA TakenType == ASSUME TypeOK, NEW r \in Readers PROVE Taken(r) \in Nat
<1>1. Len(delivered[r]) \in Nat
  BY DEF TypeOK
<1>2. CASE rpc[r] = "recv"
  BY <1>1, <1>2 DEF Taken
<1>3. CASE rpc[r] # "recv"
  BY <1>1, <1>3 DEF Taken
<1> QED BY <1>2, <1>3

\* The writer's steps leave the readers where they are.
LEMMA WriterFrame ==
  ASSUME Writer \/ WriteTimeout \/ Close \/ UNCHANGED vars
  PROVE  UNCHANGED readerVars
  BY DEF Writer, WriteTimeout, Close, LocalReady, RemoteReady, Enqueue, AcquireWrite,
         WriteOverflow, WriteBody, ResetFlag, CommitWrite, SendOverflow, SendRemote, vars,
         readerVars

\* A reader takes a chunk when it marks one as read, and at no other time
\* (dequeue, acquire_read).
LEMMA TakenSteps ==
  ASSUME IInv, SocketsReliable, [Next]_vars, NEW q \in Local
  PROVE  \/ MarkRead(q) /\ Taken(q)' = Taken(q) + 1 /\ ridx'[q] = Following(ridx[q])
         \/ ~MarkRead(q) /\ Taken(q)' = Taken(q) /\ ridx'[q] = ridx[q]
<1> USE DEF ringVars, writerVars, ReaderAt, ReaderGoto
<1>0. /\ q \in Readers /\ ridx \in [Readers -> Ring] /\ rpc \in [Readers -> ReaderPlaces]
      /\ delivered \in [Readers -> Seq(1..MaxSent)] /\ seen \in [Readers -> Messages]
      /\ pipe \in [Readers -> Seq(Messages)]
  BY LocalReaders DEF IInv, TypeOK
<1>1. CASE Writer \/ WriteTimeout \/ Close \/ UNCHANGED vars
  <2>1. UNCHANGED readerVars
    BY <1>1, WriterFrame
  <2>2. ~MarkRead(q)
    <3>1. rpc[q] = "mark" => rpc'[q] = "mark"
      BY <2>1 DEF readerVars
    <3> QED BY <1>0, <3>1 DEF MarkRead
  <2> QED BY <2>1, <2>2 DEF Taken, readerVars
<1>2. ASSUME NEW r \in Readers, ReaderStep(r), r # q
      PROVE  ~MarkRead(q) /\ Taken(q)' = Taken(q) /\ ridx'[q] = ridx[q]
  <2>1. rpc'[q] = rpc[q] /\ delivered'[q] = delivered[q] /\ ridx'[q] = ridx[q]
    BY <1>0, <1>2 DEF ReaderStep, Reader, Connect, ReceiveReady, Dequeue, LoadFlag,
       LoadWritten, ReadOverflow, ReadBody, MarkRead, Receive, ReadTimeout, RecvTimeout, Return
  <2>2. ~MarkRead(q)
    BY <1>0, <2>1 DEF MarkRead
  <2> QED BY <2>1, <2>2 DEF Taken
<1>3. CASE ReaderStep(q) /\ ~MarkRead(q) /\ ~Receive(q) /\ ~RecvTimeout(q)
  <2>1. UNCHANGED <<delivered, ridx>> /\ (rpc[q] = "recv" <=> rpc'[q] = "recv")
    BY <1>0, <1>3 DEF ReaderStep, Reader, Connect, ReceiveReady, Dequeue, LoadFlag,
       LoadWritten, ReadOverflow, ReadBody, ReadTimeout
  <2> QED BY <1>3, <2>1 DEF Taken
<1>4. CASE MarkRead(q)
  <2>1. ridx'[q] = Following(ridx[q]) /\ rpc[q] = "mark"
    BY <1>0, <1>4 DEF MarkRead
  <2>2. Len(delivered[q]) \in Nat
    BY <1>0
  <2>3. CASE seen[q] = 0
    BY <1>0, <1>4, <2>1, <2>2, <2>3 DEF MarkRead, Taken
  <2>4. CASE seen[q] # 0
    <3>1. delivered'[q] = Append(delivered[q], seen[q]) /\ rpc'[q] = "idle"
      BY <1>0, <1>4, <2>4 DEF MarkRead, Return
    <3>2. Len(delivered'[q]) = Len(delivered[q]) + 1
      BY <1>0, <2>4, <3>1, MessageTypes, AppendProperties
    <3> QED BY <1>4, <2>1, <2>2, <3>1, <3>2 DEF Taken
  <2> QED BY <2>3, <2>4
<1>5. CASE Receive(q)
  <2>1. ~Fallible("overflowUnpickle")
    BY DEF SocketsReliable, Fallible
  <2>2. /\ rpc[q] = "recv" /\ rpc'[q] = "idle" /\ ridx' = ridx
        /\ delivered'[q] = Append(delivered[q], Head(pipe[q]))
    BY <1>0, <1>5, <2>1 DEF Receive, Return
  <2>3. Len(delivered'[q]) = Len(delivered[q]) + 1 /\ Len(delivered[q]) \in Nat
    <3>1. Len(delivered[q]) \in Nat
      BY <1>0
    <3> QED BY <1>0, <2>2, <3>1
  <2> QED BY <2>2, <2>3 DEF Taken, MarkRead
<1>6. CASE RecvTimeout(q)
  BY <1>6 DEF RecvTimeout, SocketsReliable, Fallible
<1> QED BY <1>1, <1>2, <1>3, <1>4, <1>5, <1>6 DEF Next, Fault, Finished, ReaderStep

\* A reader that reads a chunk is behind the writer.
LEMMA ReaderBehind ==
  ASSUME IInv, RingInv, NEW r \in Local, rpc[r] \in Reading PROVE Taken(r) < sent
<1>1. /\ sent \in Nat /\ Taken(r) \in Nat /\ Chunks \in Nat \ {0}
      /\ Taken(r) <= sent /\ ridx[r] = Slot(Taken(r))
  BY TakenType, LocalReaders, ShmBroadcastAssumption DEF IInv, TypeOK, RingInv, Lap
<1> SUFFICES ASSUME Taken(r) = sent PROVE FALSE
  BY <1>1
<1>2. Slot(sent) = ridx[r] /\ ridx[r] = widx
  BY <1>1 DEF RingInv, Lap
<1>3. written[widx] /\ ~read[widx][r] /\ wpc \notin Filling
  BY <1>2 DEF IInv, ReadingFresh, FillingUnwritten
<1>4. CASE sent < Chunks
  <2>1. widx = sent /\ widx \in Ring
    BY <1>1, <1>2, <1>4, SlotFirst DEF IInv, TypeOK
  <2> QED BY <1>1, <1>3, <2>1 DEF RingInv, AheadUnwritten
<1>5. CASE sent >= Chunks
  <2> DEFINE a == sent - Chunks
  <2>1. a \in Nat /\ a < sent /\ a + Chunks = sent
    BY <1>1, <1>5
  <2>2. InRing(a)
    BY ONLY <1>1, <1>3, <2>1 DEF InRing
  <2>3. Slot(a) = widx
    BY ONLY <1>2, <2>1, SlotLap
  <2>4. read[Slot(a)][r]
    BY <2>1, <2>2 DEF RingInv, FlagsMatch
  <2> QED BY <1>3, <2>3, <2>4
<1> QED BY <1>1, <1>4, <1>5

\* acquire_write lets the writer into no chunk that a reader has not taken.
LEMMA WriterWaits ==
  ASSUME IInv, RingInv, wpc = "full", Writable(widx), NEW r \in Local
  PROVE  sent < Taken(r) + Chunks
<1>1. /\ sent \in Nat /\ Taken(r) \in Nat /\ Chunks \in Nat \ {0}
      /\ sent <= Taken(r) + Chunks /\ widx = Slot(sent)
  BY TakenType, LocalReaders, ShmBroadcastAssumption DEF IInv, TypeOK, RingInv, Lap
<1> SUFFICES ASSUME sent = Taken(r) + Chunks PROVE FALSE
  BY <1>1
<1>2. InRing(Taken(r))
  BY ONLY <1>1, sent = Taken(r) + Chunks, wpc = "full" DEF InRing, Filling
<1>3. Slot(Taken(r)) = widx
  BY <1>1, SlotLap
<1>4. written[widx] /\ ~read[widx][r]
  BY <1>1, <1>2, <1>3 DEF RingInv, FlagsMatch
<1> QED BY <1>4 DEF Writable, ReadByAll

\* dequeue sends remote readers to their sockets.
LEMMA RemoteStays == ASSUME IInv, RingInv, [Next]_vars PROVE RemoteOffRing'
<1> SUFFICES ASSUME NEW q \in Remote
             PROVE  rpc'[q] \in {"connect", "ready", "idle", "recv"}
  BY DEF RemoteOffRing
<1>1. /\ q \in Readers /\ q \notin Local /\ rpc \in [Readers -> ReaderPlaces]
      /\ rpc[q] \in {"connect", "ready", "idle", "recv"}
  BY LocalReaders DEF IInv, TypeOK, RingInv, RemoteOffRing
<1>2. CASE Writer \/ WriteTimeout \/ Close \/ UNCHANGED vars
  BY <1>1, <1>2, WriterFrame DEF readerVars
<1>3. ASSUME NEW r \in Readers, ReaderStep(r)
      PROVE  rpc'[q] \in {"connect", "ready", "idle", "recv"}
  BY <1>1, <1>3 DEF ReaderStep, Reader, Connect, ReceiveReady, Dequeue, LoadFlag,
     LoadWritten, ReadOverflow, ReadBody, MarkRead, Receive, ReadTimeout, RecvTimeout,
     ReaderAt, ReaderGoto
<1> QED BY <1>2, <1>3 DEF Next, Fault, Finished, ReaderStep

\* What the steps of the ring keep, the remote readers aside.
OnRing == Lap /\ FlagsMatch /\ AheadUnwritten /\ ResetSoFar

\* In the ring, only the object a lap back is in the writer's chunk.
LEMMA NotWriters ==
  ASSUME IInv, RingInv, NEW r \in Local, NEW a \in Nat, a < sent, sent < a + Chunks
  PROVE  Slot(a) # widx /\ Slot(a) \in Ring
<1>1. sent \in Nat /\ widx = Slot(sent)
  BY ShmBroadcastAssumption DEF IInv, TypeOK, RingInv, Lap
<1> QED BY <1>1, SlotApart, SlotOf

\* At first everything is empty.
LEMMA InitRing == Init => RingInv
<1> SUFFICES ASSUME Init PROVE RingInv
  OBVIOUS
<1>0. sent = 0
  BY DEF Init
<1>1. sent = 0 /\ sent \in Nat /\ widx = 0 /\ wpc = "local ready" /\ toReset = 1
  BY DEF Init
<1>2. Slot(0) = 0
  <2>1. 0 \in Nat /\ 0 < Chunks
    BY ShmBroadcastAssumption
  <2> QED BY <2>1, SlotFirst
<1>3. \A r \in Local : Taken(r) = 0 /\ ridx[r] = 0
  <2>1. \A r \in Local : delivered[r] = <<>> /\ rpc[r] = "connect" /\ ridx[r] = 0
    BY LocalReaders DEF Init
  <2>2. \A r \in Local : Len(delivered[r]) = 0
    BY <2>1
  <2> SUFFICES ASSUME NEW r \in Local PROVE Taken(r) = 0
    BY <2>1
  <2>3. rpc[r] # "recv" /\ Len(delivered[r]) = 0
    BY <2>1, <2>2
  <2> QED BY ONLY <2>3 DEF Taken
<1>4. Lap
  <2>1. 0 \in Nat /\ Chunks \in Nat /\ 0 <= 0 + Chunks
    BY ShmBroadcastAssumption
  <2>2. wpc \notin Filling
    BY <1>1 DEF Filling
  <2> SUFFICES ASSUME NEW r \in Local
               PROVE  ridx[r] = Slot(Taken(r)) /\ Taken(r) <= sent /\ sent <= Taken(r) + Chunks
    BY <1>1, <1>2, <2>2 DEF Lap
  <2>3. Taken(r) = 0 /\ Taken(r) \in Nat /\ ridx[r] = 0
    BY <1>3
  <2>4. Slot(Taken(r)) = Slot(0)
    BY <2>3
  <2>5. Taken(r) <= sent
    BY <1>0, <2>3
  <2>6. sent <= Taken(r) + Chunks
    BY <1>0, <2>1, <2>3
  <2> QED BY ONLY <1>2, <2>3, <2>4, <2>5, <2>6
<1>6. AheadUnwritten
  BY DEF AheadUnwritten, Init
<1>7. ResetSoFar
  BY ONLY <1>1 DEF ResetSoFar
<1>8. FlagsMatch
  <2>1. sent \in Nat /\ sent <= 0
    BY <1>0
  <2>2. \A a \in Nat : ~InRing(a)
    BY ONLY <2>1 DEF InRing
  <2> QED BY ONLY <2>2 DEF FlagsMatch
<1>5. RemoteOffRing
  BY LocalReaders DEF Init, RemoteOffRing
<1> QED BY <1>4, <1>5, <1>6, <1>7, <1>8 DEF RingInv

\* A step that moves neither the ring nor anybody in it.
LEMMA QuietRing ==
  ASSUME RingInv, UNCHANGED <<written, read, toReset, widx, sent>>,
         \A q \in Local : Taken(q)' = Taken(q) /\ ridx'[q] = ridx[q],
         \/ wpc' = wpc
         \/ wpc \notin Filling /\ wpc' \notin Filling
         \/ wpc = "overflow" /\ wpc' \in {"body", "reset"}
         \/ wpc = "body" /\ wpc' = "reset"
  PROVE  OnRing'
<1>0. wpc' \in Filling => wpc \in Filling
  BY DEF Filling
<1>1. Lap'
  BY <1>0 DEF RingInv, Lap
<1>2. \A a : InRing(a)' => InRing(a)
  <2>1. wpc \in Filling => wpc' \in Filling
    BY DEF Filling
  <2> QED BY <2>1 DEF InRing
<1>3. FlagsMatch'
  BY <1>2 DEF RingInv, FlagsMatch
<1>4. AheadUnwritten'
  BY DEF RingInv, AheadUnwritten
<1>5. ResetSoFar'
  <2>1. wpc' # wpc => wpc # "reset" /\ wpc' # "commit"
    BY DEF Filling
  <2>2. wpc' # wpc => toReset = 1
    BY <2>1 DEF RingInv, ResetSoFar
  <2>3. \A r \in Local : ~(r < 1)
    BY DEF Local
  <2> QED BY <2>1, <2>2, <2>3 DEF RingInv, ResetSoFar
<1> QED BY <1>1, <1>3, <1>4, <1>5 DEF OnRing

\* acquire_write: the chunk is taken once every reader has taken what is in it.
LEMMA AcquireRing ==
  ASSUME IInv, RingInv, SocketsReliable, AcquireWrite PROVE OnRing'
<1> USE DEF WriterAt, WriterGoto
<1>1. /\ wpc = "full" /\ wpc' = "overflow" /\ Writable(widx)
      /\ written' = [written EXCEPT ![widx] = FALSE] /\ UNCHANGED readerVars
      /\ UNCHANGED <<read, widx, sent, toReset>>
  BY DEF AcquireWrite
<1>2. \A q \in Local : Taken(q)' = Taken(q) /\ ridx'[q] = ridx[q]
  BY <1>1 DEF Taken, readerVars
<1>3. written \in [Ring -> BOOLEAN]
  BY DEF IInv, TypeOK
<1>4. Lap'
  BY <1>1, <1>2, WriterWaits DEF RingInv, Lap
<1>5. FlagsMatch'
  <2> SUFFICES ASSUME NEW r \in Local, NEW a \in Nat, InRing(a)'
               PROVE  (written[Slot(a)] /\ (read[Slot(a)][r] <=> a < Taken(r)))'
    BY DEF FlagsMatch
  <2>1. a < sent /\ sent < a + Chunks /\ InRing(a)
    BY <1>1 DEF InRing, Filling
  <2>2. Slot(a) # widx /\ Slot(a) \in Ring
    BY <2>1, NotWriters
  <2> QED BY <1>1, <1>2, <1>3, <2>1, <2>2 DEF RingInv, FlagsMatch
<1>6. AheadUnwritten'
  BY <1>1, <1>3 DEF RingInv, AheadUnwritten
<1>7. ResetSoFar'
  BY <1>1 DEF RingInv, ResetSoFar
<1> QED BY <1>4, <1>5, <1>6, <1>7 DEF OnRing

\* The flags that are reset are those of the writer's chunk.
LEMMA ResetRing ==
  ASSUME IInv, RingInv, ResetFlag PROVE OnRing'
<1> USE DEF WriterAt, WriterGoto
<1>1. /\ wpc = "reset" /\ wpc' \in {"reset", "commit"}
      /\ read' = [read EXCEPT ![widx][toReset] = FALSE] /\ UNCHANGED readerVars
      /\ UNCHANGED <<written, widx, sent>>
      /\ IF toReset < NLocal THEN toReset' = toReset + 1 /\ wpc' = wpc
                             ELSE toReset' = 1 /\ wpc' = "commit"
  BY DEF ResetFlag
<1>2. \A q \in Local : Taken(q)' = Taken(q) /\ ridx'[q] = ridx[q]
  BY <1>1 DEF Taken, readerVars
<1>3. /\ read \in [Ring -> [Local -> BOOLEAN]] /\ widx \in Ring /\ toReset \in Nat
      /\ NLocal \in Nat /\ sent \in Nat
  BY ShmBroadcastAssumption DEF IInv, TypeOK
<1>4. Lap'
  BY <1>1, <1>2 DEF RingInv, Lap, Filling
<1>5. FlagsMatch'
  <2> SUFFICES ASSUME NEW r \in Local, NEW a \in Nat, InRing(a)'
               PROVE  (written[Slot(a)] /\ (read[Slot(a)][r] <=> a < Taken(r)))'
    BY DEF FlagsMatch
  <2>1. a < sent /\ sent < a + Chunks /\ InRing(a)
    BY <1>1 DEF InRing, Filling
  <2>2. Slot(a) # widx /\ Slot(a) \in Ring
    BY <2>1, NotWriters
  <2> QED BY <1>1, <1>2, <1>3, <2>1, <2>2 DEF RingInv, FlagsMatch
<1>6. AheadUnwritten'
  BY <1>1 DEF RingInv, AheadUnwritten
<1>7. ResetSoFar'
  <2>1. \A r \in Local : r <= toReset => ~read'[widx][r]
    BY <1>1, <1>3 DEF RingInv, ResetSoFar, Local
  <2>2. \A r \in Local : r \in 1..NLocal
    BY DEF Local
  <2>3. CASE toReset < NLocal
    BY <1>1, <1>3, <2>1, <2>2, <2>3 DEF ResetSoFar
  <2>4. CASE ~(toReset < NLocal)
    BY <1>1, <1>3, <2>1, <2>2, <2>4 DEF ResetSoFar
  <2> QED BY <2>3, <2>4
<1> QED BY <1>4, <1>5, <1>6, <1>7 DEF OnRing

\* The commit puts the object into the ring with all flags reset.
LEMMA CommitRing ==
  ASSUME IInv, RingInv, CommitWrite PROVE OnRing'
<1> USE DEF WriterAt, WriterGoto
<1>1. /\ wpc = "commit" /\ wpc' \in {"send", "send remote"}
      /\ written' = [written EXCEPT ![widx] = TRUE] /\ UNCHANGED readerVars
      /\ UNCHANGED <<read, toReset>> /\ widx' = Following(widx) /\ sent' = sent + 1
  BY DEF CommitWrite
<1>2. \A q \in Local : Taken(q)' = Taken(q) /\ ridx'[q] = ridx[q]
  BY <1>1 DEF Taken, readerVars
<1>3. /\ written \in [Ring -> BOOLEAN] /\ sent \in Nat /\ widx \in Ring
      /\ Chunks \in Nat \ {0} /\ \A r \in Local : Taken(r) \in Nat
  BY ShmBroadcastAssumption, TakenType, LocalReaders DEF IInv, TypeOK
<1>4. /\ Local # {} /\ widx = Slot(sent)
      /\ \A r \in Local : /\ ridx[r] = Slot(Taken(r))
                          /\ Taken(r) <= sent /\ sent < Taken(r) + Chunks
  BY <1>1 DEF IInv, Budget, RingInv, Lap, Filling
<1>5. Lap'
  <2>1. widx' = Slot(sent')
    BY <1>1, <1>3, <1>4, SlotNext
  <2>2. \A r \in Local : Taken(r) <= sent + 1 /\ sent + 1 <= Taken(r) + Chunks
    BY ONLY <1>3, <1>4
  <2> QED BY <1>1, <1>2, <1>4, <2>1, <2>2 DEF Lap, Filling
<1>6. FlagsMatch'
  <2> SUFFICES ASSUME NEW r \in Local, NEW a \in Nat, InRing(a)'
               PROVE  (written[Slot(a)] /\ (read[Slot(a)][r] <=> a < Taken(r)))'
    BY DEF FlagsMatch
  <2>1. CASE a < sent
    <3>0. sent + 1 <= a + Chunks
      BY <1>1 DEF InRing
    <3>1. sent < a + Chunks /\ InRing(a)
      BY <1>3, <2>1, <3>0 DEF InRing
    <3>2. Slot(a) # widx /\ Slot(a) \in Ring
      BY <2>1, <3>1, NotWriters
    <3>3. written[Slot(a)] /\ (read[Slot(a)][r] <=> a < Taken(r))
      BY <3>1 DEF RingInv, FlagsMatch
    <3>4. written'[Slot(a)]
      BY <1>1, <1>3, <3>2, <3>3
    <3> QED BY <1>1, <1>2, <3>3, <3>4
  <2>2. CASE a = sent
    <3>1. written'[Slot(a)]
      BY <1>1, <1>3, <1>4, <2>2
    <3>2. ~read'[Slot(a)][r]
      BY <1>1, <1>4, <2>2 DEF RingInv, ResetSoFar
    <3>3. ~(a < Taken(r)')
      BY <1>2, <1>3, <1>4, <2>2
    <3> QED BY <3>1, <3>2, <3>3
  <2>3. a < sent + 1
    BY <1>1 DEF InRing
  <2> QED BY <1>3, <2>1, <2>2, <2>3
<1>7. AheadUnwritten'
  <2> SUFFICES ASSUME NEW c \in Ring, c >= sent + 1 PROVE ~written'[c]
    BY <1>1 DEF AheadUnwritten
  <2>1. c \in Nat /\ c < Chunks
    BY <1>3 DEF Ring
  <2>2. sent < Chunks /\ c >= sent /\ c # sent
    BY <1>3, <2>1
  <2>3. widx = sent
    BY <1>3, <1>4, <2>2, SlotFirst
  <2> QED BY <1>1, <1>3, <1>4, <2>2, <2>3 DEF RingInv, AheadUnwritten
<1>8. ResetSoFar'
  BY <1>1 DEF RingInv, ResetSoFar
<1> QED BY <1>5, <1>6, <1>7, <1>8 DEF OnRing

\* A reader marks the object that it has taken, and no other.
LEMMA MarkRing ==
  ASSUME IInv, RingInv, SocketsReliable, NEW r \in Local, MarkRead(r), [Next]_vars
  PROVE  OnRing'
<1> USE DEF ReaderAt, writerVars
<1>0. r \in Readers
  BY LocalReaders
<1>1. /\ rpc[r] = "mark" /\ read' = [read EXCEPT ![ridx[r]][r] = TRUE]
      /\ UNCHANGED <<written, toReset, widx, sent, wpc>>
      /\ ridx' = [ridx EXCEPT ![r] = Following(@)] /\ rpc'[r] \in {"recv", "idle"}
  <2>1. rpc \in [Readers -> ReaderPlaces]
    BY DEF IInv, TypeOK
  <2> QED BY <1>0, <2>1 DEF MarkRead, ReaderGoto
<1>2. \A q \in Local : q # r => Taken(q)' = Taken(q) /\ ridx'[q] = ridx[q]
  <2> SUFFICES ASSUME NEW q \in Local, q # r PROVE Taken(q)' = Taken(q) /\ ridx'[q] = ridx[q]
    OBVIOUS
  <2>1. ridx'[q] = ridx[q] /\ rpc'[q] = rpc[q] /\ delivered'[q] = delivered[q]
    BY <1>0, <1>1, LocalReaders DEF MarkRead, ReaderGoto, Return, IInv, TypeOK
  <2> QED BY <2>1 DEF Taken
<1>3. Taken(r)' = Taken(r) + 1 /\ ridx'[r] = Following(ridx[r])
  BY TakenSteps
<1>4. /\ sent \in Nat /\ Chunks \in Nat \ {0} /\ \A q \in Local : Taken(q) \in Nat
      /\ read \in [Ring -> [Local -> BOOLEAN]] /\ ridx[r] \in Ring
  BY <1>0, TakenType, LocalReaders, ShmBroadcastAssumption DEF IInv, TypeOK
<1>5. Taken(r) < sent /\ sent <= Taken(r) + Chunks /\ ridx[r] = Slot(Taken(r))
  BY <1>1, ReaderBehind DEF Reading, RingInv, Lap
<1>6. Lap'
  <2>1. ridx'[r] = Slot(Taken(r)')
    BY <1>3, <1>4, <1>5, SlotNext
  <2>2. Taken(r)' <= sent /\ sent <= Taken(r)' + Chunks
        /\ (wpc \in Filling => sent < Taken(r)' + Chunks)
    BY ONLY <1>3, <1>4, <1>5
  <2> QED BY <1>1, <1>2, <2>1, <2>2 DEF RingInv, Lap
<1>7. FlagsMatch'
  <2> SUFFICES ASSUME NEW q \in Local, NEW a \in Nat, InRing(a)'
               PROVE  (written[Slot(a)] /\ (read[Slot(a)][q] <=> a < Taken(q)))'
    BY DEF FlagsMatch
  <2>1. InRing(a) /\ a < sent /\ sent <= a + Chunks
    BY <1>1 DEF InRing
  <2>2. written[Slot(a)] /\ (read[Slot(a)][q] <=> a < Taken(q)) /\ Slot(a) \in Ring
    BY <2>1, SlotOf DEF RingInv, FlagsMatch
  <2>3. CASE q # r
    BY <1>1, <1>2, <1>4, <2>2, <2>3
  <2>4. CASE q = r /\ a = Taken(r)
    BY <1>1, <1>3, <1>4, <1>5, <2>2, <2>4
  <2>5. CASE q = r /\ a # Taken(r)
    <3>1. \/ a < Taken(r) /\ Taken(r) < a + Chunks
          \/ Taken(r) < a /\ a < Taken(r) + Chunks
      BY <1>4, <1>5, <2>1, <2>5
    <3>2. Slot(a) # ridx[r]
      BY <1>4, <1>5, <3>1, SlotApart
    <3>3. read'[Slot(a)][q] <=> read[Slot(a)][q]
      BY <1>1, <1>4, <2>2, <3>2
    <3>4. a < Taken(r) + 1 <=> a < Taken(r)
      BY <1>4, <2>5
    <3> QED BY <1>1, <1>3, <2>2, <2>5, <3>3, <3>4
  <2> QED BY <2>3, <2>4, <2>5
<1>8. AheadUnwritten'
  BY <1>1 DEF RingInv, AheadUnwritten
<1>9. ResetSoFar'
  <2>1. wpc \in Filling => ridx[r] # widx
    BY <1>1 DEF IInv, FillingUnwritten, ReadingFresh, Reading
  <2>2. wpc \in Filling => \A q \in Local : read'[widx][q] = read[widx][q]
    <3>1. widx \in Ring
      BY DEF IInv, TypeOK
    <3> QED BY <1>1, <1>4, <2>1, <3>1
  <2> QED BY <1>1, <2>2 DEF RingInv, ResetSoFar, Filling
<1> QED BY <1>6, <1>7, <1>8, <1>9 DEF OnRing

\* Every step keeps the ring's invariant.
LEMMA StepRing == ASSUME IInv, RingInv, SocketsReliable, [Next]_vars PROVE RingInv'
<1> SUFFICES OnRing'
  BY RemoteStays DEF OnRing, RingInv
<1>1. CASE AcquireWrite  BY <1>1, AcquireRing
<1>2. CASE ResetFlag  BY <1>2, ResetRing
<1>3. CASE CommitWrite  BY <1>3, CommitRing
<1>4. CASE \E r \in Local : MarkRead(r)  BY <1>4, MarkRing
<1>5. CASE SendRemote /\ Local = {}
  <2>1. wpc = "send remote" /\ wpc' = "idle" /\ toReset' = toReset
    BY <1>5 DEF SendRemote, WriterAt, WriterGoto
  <2> QED BY <1>5, <2>1 DEF RingInv, OnRing, Lap, FlagsMatch, AheadUnwritten, ResetSoFar
<1>6. ASSUME ~AcquireWrite, ~ResetFlag, ~CommitWrite, ~(SendRemote /\ Local = {}),
             ~\E r \in Local : MarkRead(r)
      PROVE  OnRing'
  <2>1. \A q \in Local : Taken(q)' = Taken(q) /\ ridx'[q] = ridx[q]
    BY <1>6, TakenSteps
  <2>2. CASE Writer \/ WriteTimeout \/ Close \/ UNCHANGED vars
    <3>1. /\ UNCHANGED <<written, read, toReset, widx, sent>>
          /\ \/ wpc' = wpc
             \/ wpc \notin Filling /\ wpc' \notin Filling
             \/ wpc = "overflow" /\ wpc' \in {"body", "reset"}
             \/ wpc = "body" /\ wpc' = "reset"
      BY <1>6, <2>2 DEF Writer, WriteTimeout, Close, LocalReady, RemoteReady, Enqueue,
         WriteOverflow, WriteBody, SendOverflow, SendRemote, vars, Filling, ringVars,
         writerVars, WriterAt, WriterGoto
    <3> QED BY <2>1, <3>1, QuietRing
  <2>3. ASSUME NEW r \in Readers, ReaderStep(r) PROVE OnRing'
    <3>1. UNCHANGED <<writerVars, written>>
      BY <2>3, ReaderFrame
    <3>2. UNCHANGED read
      <4>1. CASE MarkRead(r)
        BY <1>6, <2>3, <4>1, LocalReaders DEF MarkRead, ReaderAt, RingInv, RemoteOffRing
      <4> QED BY <2>3, <4>1 DEF ReaderStep, Reader, Connect, ReceiveReady, Dequeue, LoadFlag,
         LoadWritten, ReadOverflow, ReadBody, Receive, ReadTimeout, RecvTimeout, ringVars
    <3> QED BY <2>1, <3>1, <3>2, QuietRing DEF writerVars
  <2> QED BY <2>2, <2>3 DEF Next, Fault, Finished, ReaderStep
<1> QED BY <1>1, <1>2, <1>3, <1>4, <1>5, <1>6

-----------------------------------------------------------------------------
(* What is in the chunks *)

\* What the writer has put into its chunk so far.
Filled ==
  /\ wpc \in {"body", "reset", "commit"} => overflow[widx] = large
  /\ wpc = "body" => ~large
  /\ wpc \in {"reset", "commit"} /\ ~large => body[widx] = sent + 1
  /\ Local # {} /\ wpc = "send" => overflow[Slot(sent - 1)]

\* A chunk in the ring holds its object or announces it on the sockets.
Contents ==
  Local # {} => \A a \in Nat : InRing(a) => overflow[Slot(a)] \/ body[Slot(a)] = a + 1

\* What a reader has seen is what is in its chunk.
Holding ==
  \A r \in Local :
    /\ rpc[r] = "body" => ~overflow[ridx[r]]
    /\ rpc[r] = "mark" => IF seen[r] = 0 THEN overflow[ridx[r]]
                          ELSE ~overflow[ridx[r]] /\ seen[r] = Taken(r) + 1

DataInv == Filled /\ Contents /\ Holding

\* At first nobody holds anything.
LEMMA InitData == Init => DataInv
<1> SUFFICES ASSUME Init PROVE DataInv
  OBVIOUS
<1>1. Filled
  BY DEF Init, Filled
<1>2. Contents
  <2>1. sent = 0
    BY DEF Init
  <2>2. \A a \in Nat : ~InRing(a)
    BY <2>1 DEF InRing
  <2> QED BY <2>2 DEF Contents
<1>3. Holding
  BY LocalReaders DEF Init, Holding
<1> QED BY <1>1, <1>2, <1>3 DEF DataInv

\* A step that neither fills nor commits a chunk.
LEMMA QuietFilled ==
  ASSUME DataInv, UNCHANGED <<overflow, body, widx, sent>>,
         \/ wpc' = wpc /\ large' = large
         \/ wpc = "reset" /\ wpc' = "commit" /\ large' = large
         \/ wpc' \notin {"body", "reset", "commit", "send"} /\ (wpc \in Filling => wpc' \in Filling)
  PROVE  Filled' /\ Contents'
<1>1. Filled'
  BY DEF DataInv, Filled
<1>2. \A a : InRing(a)' => InRing(a)
  BY DEF InRing, Filling
<1> QED BY <1>1, <1>2 DEF DataInv, Contents

\* The commit announces the object or has put it into the chunk (enqueue).
LEMMA StepFilled ==
  ASSUME IInv, RingInv, DataInv, [Next]_vars PROVE Filled' /\ Contents'
<1> USE DEF WriterAt, WriterGoto, ringVars, writerVars, readerVars
<1>0. /\ overflow \in [Ring -> BOOLEAN] /\ body \in [Ring -> Messages] /\ widx \in Ring
      /\ large \in BOOLEAN /\ sent \in Nat
  BY ShmBroadcastAssumption DEF IInv, TypeOK
<1>1. CASE WriteOverflow
  <2>1. /\ wpc = "overflow" /\ overflow' = [overflow EXCEPT ![widx] = large]
        /\ wpc' = (IF large THEN "reset" ELSE "body")
        /\ UNCHANGED <<body, widx, large, sent>>
    BY <1>1 DEF WriteOverflow
  <2>2. Filled'
    BY <1>0, <2>1 DEF Filled
  <2>3. PICK r : r \in Local
    BY <2>1 DEF IInv, Budget, Filling
  <2> SUFFICES ASSUME NEW a \in Nat, InRing(a)'
               PROVE  overflow'[Slot(a)] \/ body'[Slot(a)] = a + 1
    BY <2>2 DEF Contents
  <2>4. InRing(a) /\ a < sent /\ sent < a + Chunks
    BY <2>1 DEF InRing, Filling
  <2>5. Slot(a) # widx /\ Slot(a) \in Ring
    BY <2>3, <2>4, NotWriters
  <2>6. overflow[Slot(a)] \/ body[Slot(a)] = a + 1
    BY <2>3, <2>4 DEF DataInv, Contents
  <2> QED BY <1>0, <2>1, <2>5, <2>6
<1>2. CASE WriteBody
  <2>1. /\ wpc = "body" /\ body' = [body EXCEPT ![widx] = sent + 1]
        /\ wpc' = "reset" /\ UNCHANGED <<overflow, widx, large, sent>>
    BY <1>2 DEF WriteBody
  <2>2. Filled'
    BY <1>0, <2>1 DEF DataInv, Filled
  <2>3. PICK r : r \in Local
    BY <2>1 DEF IInv, Budget, Filling
  <2> SUFFICES ASSUME NEW a \in Nat, InRing(a)'
               PROVE  overflow'[Slot(a)] \/ body'[Slot(a)] = a + 1
    BY <2>2 DEF Contents
  <2>4. InRing(a) /\ a < sent /\ sent < a + Chunks
    BY <2>1 DEF InRing, Filling
  <2>5. Slot(a) # widx /\ Slot(a) \in Ring
    BY <2>3, <2>4, NotWriters
  <2>6. overflow[Slot(a)] \/ body[Slot(a)] = a + 1
    BY <2>3, <2>4 DEF DataInv, Contents
  <2> QED BY <1>0, <2>1, <2>5, <2>6
<1>3. CASE CommitWrite
  <2>1. /\ wpc = "commit" /\ wpc' = (IF large THEN "send" ELSE "send remote")
        /\ sent' = sent + 1 /\ UNCHANGED <<overflow, body, large>>
    BY <1>3 DEF CommitWrite
  <2>2. widx = Slot(sent) /\ Local # {}
    BY <2>1 DEF IInv, Budget, Filling, RingInv, Lap
  <2>3. overflow[widx] = large /\ (~large => body[widx] = sent + 1)
    BY <2>1 DEF DataInv, Filled
  <2>4. sent' - 1 = sent
    <3>1. sent' = sent + 1
      BY <2>1
    <3> QED BY ONLY <1>0, <3>1
  <2>5. Filled'
    BY <2>1, <2>2, <2>3, <2>4 DEF Filled
  <2> SUFFICES ASSUME NEW a \in Nat, InRing(a)'
               PROVE  overflow'[Slot(a)] \/ body'[Slot(a)] = a + 1
    BY <2>5 DEF Contents
  <2>6. a < sent + 1 /\ sent + 1 <= a + Chunks
    BY <2>1 DEF InRing
  <2>7. CASE a = sent
    BY <2>1, <2>2, <2>3, <2>7
  <2>8. CASE a < sent
    <3>1. Chunks \in Nat
      BY ShmBroadcastAssumption
    <3>2. sent < a + Chunks
      BY ONLY <1>0, <2>6, <3>1, a \in Nat
    <3>3. InRing(a)
      BY <1>0, <2>8, <3>1, <3>2 DEF InRing
    <3> QED BY <2>1, <2>2, <3>3 DEF DataInv, Contents
  <2> QED BY ONLY <1>0, <2>6, <2>7, <2>8, a \in Nat
<1>4. CASE SendRemote /\ Local = {}
  BY <1>4 DEF SendRemote, Filled, Contents
<1>5. CASE (SendRemote /\ Local # {}) \/ LocalReady \/ RemoteReady \/ Enqueue \/ AcquireWrite
           \/ ResetFlag \/ SendOverflow \/ WriteTimeout \/ Close \/ UNCHANGED vars
  <2>1. /\ UNCHANGED <<overflow, body, widx, sent>>
        /\ \/ wpc' = wpc /\ large' = large
           \/ wpc = "reset" /\ wpc' = "commit" /\ large' = large
           \/ /\ wpc' \notin {"body", "reset", "commit", "send"}
              /\ wpc \in Filling => wpc' \in Filling
    BY <1>5 DEF SendRemote, LocalReady, RemoteReady, Enqueue, AcquireWrite, ResetFlag,
       SendOverflow, WriteTimeout, Close, vars, Filling
  <2> QED BY <2>1, QuietFilled
<1>6. ASSUME NEW r \in Readers, ReaderStep(r) PROVE Filled' /\ Contents'
  <2>1. UNCHANGED writerVars
    BY <1>6, ReaderFrame
  <2>2. UNCHANGED <<overflow, body>>
    BY <1>6 DEF ReaderStep, Reader, Connect, ReceiveReady, Dequeue, LoadFlag, LoadWritten,
       ReadOverflow, ReadBody, MarkRead, Receive, ReadTimeout, RecvTimeout
  <2> QED BY <2>1, <2>2, QuietFilled
<1> QED BY <1>1, <1>2, <1>3, <1>4, <1>5, <1>6 DEF Next, Writer, Fault, Finished, ReaderStep

\* A reader's chunk stays as it is while it reads it (acquire_read).
LEMMA StepHolding ==
  ASSUME IInv, RingInv, SocketsReliable, DataInv, [Next]_vars PROVE Holding'
<1> USE DEF WriterAt, WriterGoto, ringVars, writerVars, readerVars
<1>0. /\ overflow \in [Ring -> BOOLEAN] /\ widx \in Ring /\ rpc \in [Readers -> ReaderPlaces]
      /\ seen \in [Readers -> Messages] /\ ridx \in [Readers -> Ring]
  BY DEF IInv, TypeOK
<1> SUFFICES ASSUME NEW q \in Local
             PROVE  (/\ rpc[q] = "body" => ~overflow[ridx[q]]
                     /\ rpc[q] = "mark" => IF seen[q] = 0 THEN overflow[ridx[q]]
                        ELSE ~overflow[ridx[q]] /\ seen[q] = Taken(q) + 1)'
  BY DEF Holding
<1>1. q \in Readers /\ ridx[q] \in Ring
  BY <1>0, LocalReaders
<1>2. /\ rpc[q] = "body" => ~overflow[ridx[q]]
      /\ rpc[q] = "mark" => IF seen[q] = 0 THEN overflow[ridx[q]]
                            ELSE ~overflow[ridx[q]] /\ seen[q] = Taken(q) + 1
  BY DEF DataInv, Holding
<1>3. CASE WriteOverflow
  <2>1. wpc = "overflow" /\ overflow' = [overflow EXCEPT ![widx] = large] /\ UNCHANGED readerVars
    BY <1>3 DEF WriteOverflow
  <2>2. rpc[q] \in {"body", "mark"} => ridx[q] # widx
    BY <2>1 DEF IInv, FillingUnwritten, Filling, ReadingFresh, Reading
  <2>3. rpc[q] \in {"body", "mark"} => overflow'[ridx[q]] = overflow[ridx[q]]
    BY <1>0, <1>1, <2>1, <2>2
  <2>4. Taken(q)' = Taken(q)
    BY <2>1 DEF Taken
  <2> QED BY <1>2, <2>1, <2>3, <2>4
<1>4. CASE UNCHANGED <<overflow, rpc, seen, ridx, delivered>>
  <2>1. Taken(q)' = Taken(q)
    BY <1>4 DEF Taken
  <2> QED BY <1>2, <1>4, <2>1
<1>5. ASSUME NEW r \in Readers, ReaderStep(r), r # q
      PROVE  UNCHANGED <<overflow, rpc[q], seen[q], ridx[q], delivered[q]>>
  <2>1. /\ overflow' = overflow /\ rpc'[q] = rpc[q] /\ seen'[q] = seen[q]
        /\ ridx'[q] = ridx[q] /\ delivered'[q] = delivered[q]
    BY <1>0, <1>1, <1>5, LocalReaders DEF ReaderStep, Reader, Connect, ReceiveReady, Dequeue, LoadFlag,
     LoadWritten, ReadOverflow, ReadBody, MarkRead, Receive, ReadTimeout, RecvTimeout, Return,
     ReaderAt, ReaderGoto, IInv, TypeOK
  <2> QED BY <2>1
<1>6. CASE \E r \in Readers : r # q /\ ReaderStep(r)
  <2>1. UNCHANGED <<overflow, rpc[q], seen[q], ridx[q], delivered[q]>>
    BY <1>5, <1>6
  <2>2. Taken(q)' = Taken(q)
    BY <2>1 DEF Taken
  <2> QED BY <1>2, <2>1, <2>2
<1>7. CASE ReadOverflow(q)
  BY <1>0, <1>1, <1>7 DEF ReadOverflow, ReaderAt, ReaderGoto
<1>8. CASE ReadBody(q)
  <2>1. rpc[q] = "body" /\ UNCHANGED <<overflow, ridx, delivered>>
    BY <1>8 DEF ReadBody, ReaderAt
  <2>2. CASE rpc'[q] = "idle"
    BY <2>2
  <2>3. CASE rpc'[q] # "idle"
    <3>1. rpc'[q] = "mark" /\ seen'[q] = body[ridx[q]]
      BY <1>0, <1>1, <1>8, <2>3 DEF ReadBody, ReaderAt, ReaderGoto
    <3>2. Taken(q) \in Nat /\ Taken(q) < sent /\ ridx[q] = Slot(Taken(q)) /\ InRing(Taken(q))
      BY <1>1, <2>1, TakenType, ReaderBehind DEF Reading, RingInv, Lap, InRing, IInv
    <3>3. ~overflow[ridx[q]]
      BY <1>2, <2>1
    <3>4. body[ridx[q]] = Taken(q) + 1 /\ Taken(q) + 1 # 0
      BY <3>2, <3>3 DEF DataInv, Contents
    <3>5. Taken(q)' = Taken(q)
      BY <2>1, <3>1 DEF Taken
    <3> QED BY <2>1, <3>1, <3>3, <3>4, <3>5
  <2> QED BY <2>2, <2>3
<1>9. CASE ReaderStep(q) /\ ~ReadOverflow(q) /\ ~ReadBody(q)
  <2>1. rpc'[q] \notin {"body", "mark"}
    BY <1>0, <1>1, <1>9 DEF ReaderStep, Reader, Connect, ReceiveReady, Dequeue, LoadFlag,
     LoadWritten, MarkRead, Receive, ReadTimeout, RecvTimeout, ReaderAt, ReaderGoto
  <2> QED BY <2>1
<1>10. (Writer \/ WriteTimeout \/ Close \/ UNCHANGED vars) /\ ~WriteOverflow
       => UNCHANGED <<overflow, rpc, seen, ridx, delivered>>
  BY DEF Writer, WriteTimeout, Close, LocalReady, RemoteReady, Enqueue, AcquireWrite,
         WriteBody, ResetFlag, CommitWrite, SendOverflow, SendRemote, vars
<1> QED BY <1>3, <1>4, <1>6, <1>7, <1>8, <1>9, <1>10 DEF Next, Fault, Finished, ReaderStep

-----------------------------------------------------------------------------
(* What is in the local readers' sockets *)

Increasing(p) == \A i, j \in 1..Len(p) : i < j => p[i] + (j - i) <= p[j]

\* An object in a local reader's socket was sent, and is the one that the reader waits
\* for or announced by a chunk that it has not taken.
Entry(r, m) ==
  /\ m <= sent
  /\ wpc = "send" => m < sent
  /\ \/ m = READY
     \/ Taken(r) < m /\ overflow[Slot(m - 1)]
     \/ rpc[r] = "recv" /\ m = Taken(r)

\* A reader that has taken an announced object before it is sent waits for it.
Queue(r) ==
  /\ Increasing(pipe[r])
  /\ \A i \in 1..Len(pipe[r]) : Entry(r, pipe[r][i])
  /\ rpc[r] \in {"connect", "ready"} => Taken(r) = 0
  /\ wpc = "send" /\ Taken(r) = sent => rpc[r] = "recv"

QueueInv == \A r \in Local : Queue(r)

\* What is left of an increasing sequence without its first message increases ...
LEMMA IncreasingTail ==
  ASSUME NEW p \in Seq(Messages), p # <<>>, Increasing(p)
  PROVE  Increasing(Tail(p))
<1> SUFFICES ASSUME NEW i \in 1..Len(Tail(p)), NEW j \in 1..Len(Tail(p)), i < j
             PROVE  Tail(p)[i] + (j - i) <= Tail(p)[j]
  BY DEF Increasing
<1>1. /\ i + 1 \in 1..Len(p) /\ Tail(p)[i] = p[i + 1]
      /\ j + 1 \in 1..Len(p) /\ Tail(p)[j] = p[j + 1]
  BY TailFacts
<1>2. p[i + 1] + ((j + 1) - (i + 1)) <= p[j + 1]
  <2>1. i + 1 < j + 1
    OBVIOUS
  <2> QED BY <1>1, <2>1 DEF Increasing
<1>3. (j + 1) - (i + 1) = j - i
  OBVIOUS
<1> QED BY <1>1, <1>2, <1>3

\* ... and so does what is left without the last ones ...
LEMMA IncreasingPrefix ==
  ASSUME NEW p \in Seq(Messages), NEW k \in 0..Len(p), Increasing(p)
  PROVE  /\ Increasing(SubSeq(p, 1, k)) /\ Len(SubSeq(p, 1, k)) = k
         /\ \A i \in 1..k : i \in 1..Len(p) /\ SubSeq(p, 1, k)[i] = p[i]
<1>1. Len(SubSeq(p, 1, k)) = k /\ \A i \in 1..k : i \in 1..Len(p) /\ SubSeq(p, 1, k)[i] = p[i]
  OBVIOUS
<1> QED BY <1>1 DEF Increasing

\* ... and what a greater message is added to.
LEMMA IncreasingAppend ==
  ASSUME NEW p \in Seq(Messages), NEW m \in Messages, Increasing(p),
         \A i \in 1..Len(p) : p[i] < m
  PROVE  Increasing(Append(p, m))
<1> DEFINE n == Len(p)  s == Append(p, m)
<1>1. /\ n \in Nat /\ Len(s) = n + 1 /\ s[n + 1] = m
      /\ \A i \in 1..n : s[i] = p[i] /\ p[i] \in Nat
  BY AppendProperties, MessageTypes DEF Messages
<1>2. m \in Nat
  BY MessageTypes DEF Messages
<1> HIDE DEF n, s
<1> SUFFICES ASSUME NEW i \in 1..(n + 1), NEW j \in 1..(n + 1), i < j
             PROVE  s[i] + (j - i) <= s[j]
  BY <1>1 DEF Increasing, s
<1>3. CASE j <= n
  <2>1. i \in 1..n /\ j \in 1..n
    BY <1>1, <1>3
  <2>2. p[i] + (j - i) <= p[j]
    BY <2>1 DEF Increasing, n
  <2> QED BY <1>1, <2>1, <2>2
<1>4. CASE j = n + 1 /\ i = n
  <2>1. s[i] = p[i] /\ p[i] < m /\ s[j] = m /\ i \in 1..n /\ p[i] \in Nat
    BY <1>1, <1>4 DEF n
  <2>2. j - i = 1
    BY <1>1, <1>4
  <2> QED BY ONLY <1>2, <2>1, <2>2
<1>5. CASE j = n + 1 /\ i < n
  <2>1. i \in 1..n /\ n \in 1..n
    BY <1>1, <1>5
  <2>2. p[i] + (n - i) <= p[n] /\ p[n] < m
    BY <1>5, <2>1 DEF Increasing, n
  <2>3. s[i] = p[i] /\ s[j] = m /\ p[i] \in Nat /\ p[n] \in Nat
    BY <1>1, <1>5, <2>1
  <2> QED BY ONLY <1>1, <1>2, <1>5, <2>1, <2>2, <2>3
<1> QED BY <1>1, <1>3, <1>4, <1>5

\* The object that a reader waits for is the first in its socket.
LEMMA AwaitedFirst ==
  ASSUME IInv, QueueInv, NEW r \in Local, rpc[r] = "recv",
         NEW i \in 1..Len(pipe[r]), i > 1
  PROVE  Taken(r) < pipe[r][i]
<1>0. /\ r \in Readers /\ pipe[r] \in Seq(Messages) /\ Len(pipe[r]) \in Nat
      /\ \A k \in 1..Len(pipe[r]) : pipe[r][k] \in Nat
  BY LocalReaders, MessageTypes DEF IInv, TypeOK, Messages
<1>1. Taken(r) \in Nat
  BY <1>0, TakenType DEF IInv
<1>2. 1 \in 1..Len(pipe[r])
  BY <1>0
<1>3. pipe[r][1] >= Taken(r)
  <2>1. pipe[r][1] # READY
    BY <1>0, <1>2 DEF IInv, HandshakeState, Handshaken
  <2>2. Entry(r, pipe[r][1])
    BY <1>2 DEF QueueInv, Queue
  <2> QED BY <1>0, <1>1, <1>2, <2>1, <2>2 DEF Entry
<1>4. pipe[r][1] + (i - 1) <= pipe[r][i]
  BY <1>2 DEF QueueInv, Queue, Increasing
<1> QED BY <1>0, <1>1, <1>2, <1>3, <1>4

\* What is said of an object in a socket stays true until the reader takes it.
LEMMA EntryStays ==
  ASSUME IInv, RingInv, SocketsReliable, DataInv, [Next]_vars, NEW r \in Local,
         NEW m \in Nat, Entry(r, m), rpc[r] = "recv" /\ rpc'[r] # "recv" => m # Taken(r)
  PROVE  Entry(r, m)'
<1> USE DEF WriterAt, WriterGoto, ringVars, writerVars, readerVars
<1>0. /\ r \in Readers /\ overflow \in [Ring -> BOOLEAN] /\ widx \in Ring /\ sent \in Nat
      /\ Taken(r) \in Nat /\ rpc \in [Readers -> ReaderPlaces] /\ Local # {}
      /\ seen \in [Readers -> Messages] /\ ridx \in [Readers -> Ring]
  BY LocalReaders, TakenType, ShmBroadcastAssumption DEF IInv, TypeOK
<1>1. m <= sent' /\ (wpc' = "send" => m < sent')
  <2>1. CASE CommitWrite
    <3>1. sent' = sent + 1 /\ m <= sent
      BY <2>1 DEF CommitWrite, Entry
    <3> QED BY ONLY <1>0, <3>1, m \in Nat
  <2>2. CASE ~CommitWrite
    <3>1. UNCHANGED sent /\ (wpc' = "send" => wpc = "send")
      <4>1. CASE Writer \/ WriteTimeout \/ Close \/ UNCHANGED vars
        BY <1>0, <2>2, <4>1 DEF Writer, WriteTimeout, Close, LocalReady, RemoteReady, Enqueue,
           AcquireWrite, WriteOverflow, WriteBody, ResetFlag, SendOverflow, SendRemote, vars
      <4>2. ASSUME NEW q \in Readers, ReaderStep(q) PROVE UNCHANGED writerVars
        BY <4>2, ReaderFrame
      <4> QED BY <4>1, <4>2 DEF Next, Fault, Finished, ReaderStep
    <3> QED BY <3>1 DEF Entry
  <2> QED BY <2>1, <2>2
<1>2. CASE m = READY
  BY <1>1, <1>2 DEF Entry
<1>3. CASE Taken(r) < m /\ overflow[Slot(m - 1)]
  <2>1. m - 1 \in Nat /\ m - 1 < sent /\ Taken(r) <= m - 1
    BY <1>0, <1>3 DEF Entry
  <2>2. overflow'[Slot(m - 1)]
    <3>1. CASE WriteOverflow
      <4>1. wpc = "overflow" /\ overflow' = [overflow EXCEPT ![widx] = large]
        BY <3>1 DEF WriteOverflow
      <4>2. sent < Taken(r) + Chunks /\ Chunks \in Nat
        BY <4>1, ShmBroadcastAssumption DEF RingInv, Lap, Filling
      <4>3. sent < (m - 1) + Chunks
        BY ONLY <1>0, <2>1, <4>2
      <4>4. Slot(m - 1) # widx /\ Slot(m - 1) \in Ring
        BY <2>1, <4>3, NotWriters
      <4> QED BY <1>0, <1>3, <4>1, <4>4
    <3>2. CASE ~WriteOverflow
      <4>1. UNCHANGED overflow
        BY <3>2 DEF Next, Writer, Fault, Finished, WriteTimeout, Close, LocalReady,
         RemoteReady, Enqueue, AcquireWrite, WriteBody, ResetFlag, CommitWrite, SendOverflow,
         SendRemote, vars, Reader, Connect, ReceiveReady, Dequeue, LoadFlag, LoadWritten,
         ReadOverflow, ReadBody, MarkRead, Receive, ReadTimeout, RecvTimeout
      <4> QED BY <1>3, <4>1
    <3> QED BY <3>1, <3>2
  <2>3. CASE ~MarkRead(r)
    <3>1. Taken(r)' = Taken(r)
      BY <2>3, TakenSteps
    <3> QED BY <1>1, <1>3, <2>2, <3>1 DEF Entry
  <2>4. CASE MarkRead(r) /\ m # Taken(r) + 1
    <3>1. Taken(r)' = Taken(r) + 1
      BY <2>4, TakenSteps
    <3>2. Taken(r)' < m
      BY <1>0, <1>3, <2>4, <3>1
    <3> QED BY <1>1, <2>2, <3>2 DEF Entry
  <2>5. CASE MarkRead(r) /\ m = Taken(r) + 1
    <3>1. Taken(r)' = m /\ rpc[r] = "mark"
      BY <2>5, TakenSteps DEF MarkRead, ReaderAt
    <3>2. ridx[r] = Slot(m - 1)
      <4>1. m - 1 = Taken(r)
        BY <1>0, <2>5
      <4> QED BY <4>1 DEF RingInv, Lap
    <3>3. seen[r] = 0
      BY <1>3, <3>1, <3>2 DEF DataInv, Holding
    <3>4. rpc'[r] = "recv"
      BY <1>0, <2>5, <3>3 DEF MarkRead, ReaderGoto
    <3> QED BY <1>1, <3>1, <3>4 DEF Entry
  <2> QED BY <2>3, <2>4, <2>5
<1>4. CASE rpc[r] = "recv" /\ m = Taken(r)
  <2>1. rpc'[r] = "recv"
    BY <1>4
  <2>2. ~MarkRead(r)
    BY <1>4 DEF MarkRead, ReaderAt
  <2>3. Taken(r)' = Taken(r)
    BY <2>2, TakenSteps
  <2> QED BY <1>1, <1>4, <2>1, <2>3 DEF Entry
<1> QED BY <1>2, <1>3, <1>4 DEF Entry

\* A local socket's messages are what they were, but for a first one that is taken, last
\* ones that close drops, or a new one.
LEMMA LocalPipe ==
  ASSUME IInv, SocketsReliable, [Next]_vars, NEW r \in Local
  PROVE  \/ /\ pipe'[r] = pipe[r]
            /\ rpc[r] = "recv" => rpc'[r] = "recv"
         \/ /\ pipe[r] # <<>> /\ pipe'[r] = Tail(pipe[r])
            /\ rpc[r] \in {"recv", "ready"} /\ rpc'[r] = "idle"
         \/ /\ Close /\ \E k \in 0..Len(pipe[r]) : pipe'[r] = SubSeq(pipe[r], 1, k)
            /\ rpc'[r] = rpc[r]
         \/ /\ LocalReady /\ pipe[r] = <<>>
            /\ pipe'[r] = Append(pipe[r], READY) /\ rpc'[r] = rpc[r]
         \/ /\ SendOverflow
            /\ pipe'[r] = Append(pipe[r], sent) /\ rpc'[r] = rpc[r]
<1> USE DEF WriterAt, WriterGoto, ringVars, writerVars, readerVars, ReaderAt, ReaderGoto
<1>0. /\ r \in Readers /\ r \notin Remote /\ rpc \in [Readers -> ReaderPlaces]
      /\ pipe \in [Readers -> Seq(Messages)]
  BY LocalReaders DEF IInv, TypeOK
<1>1. CASE LocalReady
  <2>1. pipe[r] = <<>>
    BY <1>0, <1>1 DEF LocalReady, IInv, HandshakeState, Handshaken, Greeted
  <2>2. pipe'[r] = pipe[r] \/ pipe'[r] = Append(pipe[r], READY)
    BY <1>0, <1>1 DEF LocalReady, Published
  <2> QED BY <1>1, <2>1, <2>2 DEF LocalReady
<1>2. CASE SendOverflow
  <2>1. pipe'[r] = pipe[r] \/ pipe'[r] = Append(pipe[r], sent)
    BY <1>0, <1>2 DEF SendOverflow, Published
  <2> QED BY <1>2, <2>1 DEF SendOverflow
<1>3. CASE RemoteReady \/ SendRemote
  <2>1. pipe'[r] = pipe[r] /\ UNCHANGED rpc
    BY <1>0, <1>3 DEF RemoteReady, SendRemote, Published
  <2> QED BY <2>1
<1>4. CASE Close
  <2>1. PICK kept \in [Readers -> 0..HighWater] :
           /\ \A q \in Readers : kept[q] <= Len(pipe[q])
           /\ pipe' = [q \in Readers |-> SubSeq(pipe[q], 1, kept[q])]
    BY <1>4 DEF Close
  <2>2. kept[r] \in 0..Len(pipe[r])
    <3>1. kept[r] \in Nat /\ kept[r] <= Len(pipe[r]) /\ Len(pipe[r]) \in Nat
      BY <1>0, <2>1
    <3> QED BY <3>1
  <2>3. pipe'[r] = SubSeq(pipe[r], 1, kept[r]) /\ rpc' = rpc
    BY <1>0, <1>4, <2>1 DEF Close
  <2> QED BY <1>4, <2>2, <2>3
<1>5. CASE Enqueue \/ AcquireWrite \/ WriteOverflow \/ WriteBody \/ ResetFlag \/ CommitWrite
           \/ WriteTimeout \/ UNCHANGED vars
  BY <1>5 DEF Enqueue, AcquireWrite, WriteOverflow, WriteBody, ResetFlag, CommitWrite,
     WriteTimeout, vars
<1>6. ASSUME NEW q \in Readers, ReaderStep(q), q # r
      PROVE  pipe'[r] = pipe[r] /\ rpc'[r] = rpc[r]
  BY <1>0, <1>6 DEF ReaderStep, Reader, Connect, ReceiveReady, Dequeue, LoadFlag, LoadWritten,
     ReadOverflow, ReadBody, MarkRead, Receive, ReadTimeout, RecvTimeout
<1>7. CASE ReceiveReady(r) \/ Receive(r)
  BY <1>0, <1>7 DEF ReceiveReady, Receive
<1>8. ASSUME ReaderStep(r), ~ReceiveReady(r), ~Receive(r)
      PROVE  pipe'[r] = pipe[r] /\ rpc[r] # "recv"
  BY <1>0, <1>8 DEF ReaderStep, Reader, Connect, Dequeue, LoadFlag, LoadWritten,
     ReadOverflow, ReadBody, MarkRead, ReadTimeout, RecvTimeout, SocketsReliable, Fallible
<1> QED BY <1>1, <1>2, <1>3, <1>4, <1>5, <1>6, <1>7, <1>8 DEF Next, Writer, Fault, Finished,
           ReaderStep

\* Every step keeps what is known of the sockets (enqueue, dequeue).
LEMMA StepQueue ==
  ASSUME IInv, RingInv, SocketsReliable, DataInv, QueueInv, [Next]_vars, NEW r \in Local
  PROVE  Queue(r)'
<1> USE DEF WriterAt, WriterGoto, ReaderAt, ReaderGoto
<1>0. /\ r \in Readers /\ pipe[r] \in Seq(Messages) /\ Len(pipe[r]) \in Nat /\ sent \in Nat
      /\ Taken(r) \in Nat /\ pipe'[r] \in Seq(Messages) /\ sent \in Messages
      /\ rpc \in [Readers -> ReaderPlaces]
  <2>1. TypeOK /\ TypeOK' /\ r \in Readers
    BY StepTypeOK, LocalReaders DEF IInv
  <2>2. Taken(r) \in Nat
    BY <2>1, TakenType
  <2>3. pipe[r] \in Seq(Messages) /\ pipe'[r] \in Seq(Messages) /\ rpc \in [Readers -> ReaderPlaces]
    BY <2>1 DEF TypeOK
  <2>4. sent \in Nat /\ sent \in Messages
    BY <2>1, ShmBroadcastAssumption DEF TypeOK, Messages
  <2> QED BY <2>1, <2>2, <2>3, <2>4
<1>1. Queue(r)
  BY DEF QueueInv
<1>2. \A i \in 1..Len(pipe[r]) : pipe[r][i] \in Nat
  BY <1>0, MessageTypes DEF Messages
<1>3. ASSUME NEW i \in 1..Len(pipe[r]), rpc[r] = "recv" => rpc'[r] = "recv" \/ i > 1
      PROVE  \A n \in Nat : n = pipe[r][i] => Entry(r, n)'
  <2> SUFFICES ASSUME NEW n \in Nat, n = pipe[r][i] PROVE Entry(r, n)'
    OBVIOUS
  <2>1. Entry(r, n)
    BY <1>1 DEF Queue
  <2>2. rpc[r] = "recv" /\ rpc'[r] # "recv" => n # Taken(r)
    BY <1>0, <1>3, AwaitedFirst
  <2> QED BY <2>1, <2>2, EntryStays
<1>4. Increasing(pipe'[r]) /\ \A i \in 1..Len(pipe'[r]) : Entry(r, pipe[r][i])'
  <2>0. \A i \in 1..Len(pipe'[r]) : pipe'[r][i] \in Nat
    BY <1>0, MessageTypes DEF Messages
  <2> SUFFICES Increasing(pipe'[r]) /\ \A i \in 1..Len(pipe'[r]) :
                  \A n \in Nat : n = pipe'[r][i] => Entry(r, n)'
    BY <2>0 DEF Entry
  <2>1. CASE pipe'[r] = pipe[r] /\ (rpc[r] = "recv" => rpc'[r] = "recv")
    BY <1>1, <1>3, <2>1 DEF Queue
  <2>2. CASE pipe[r] # <<>> /\ pipe'[r] = Tail(pipe[r])
    <3>1. Increasing(pipe'[r])
      BY <1>0, <1>1, <2>2, IncreasingTail DEF Queue
    <3>2. ASSUME NEW i \in 1..Len(pipe'[r])
          PROVE  i + 1 \in 1..Len(pipe[r]) /\ pipe'[r][i] = pipe[r][i + 1] /\ i + 1 > 1
      <4>1. i + 1 \in 1..Len(pipe[r]) /\ pipe'[r][i] = pipe[r][i + 1]
        BY <1>0, <2>2, TailFacts
      <4>2. i \in Nat /\ i > 0
        OBVIOUS
      <4> QED BY <4>1, <4>2
    <3> QED BY <1>3, <3>1, <3>2
  <2>3. CASE (\E k \in 0..Len(pipe[r]) : pipe'[r] = SubSeq(pipe[r], 1, k)) /\ rpc'[r] = rpc[r]
    <3>1. PICK k \in 0..Len(pipe[r]) : pipe'[r] = SubSeq(pipe[r], 1, k)
      BY <2>3
    <3>2. /\ Increasing(pipe'[r]) /\ Len(pipe'[r]) = k
          /\ \A i \in 1..k : i \in 1..Len(pipe[r]) /\ pipe'[r][i] = pipe[r][i]
      BY <1>0, <1>1, <3>1, IncreasingPrefix DEF Queue
    <3> QED BY <1>3, <2>3, <3>2
  <2>4. CASE LocalReady /\ pipe[r] = <<>> /\ pipe'[r] = Append(pipe[r], READY)
    <3>1. Len(pipe'[r]) = 1 /\ pipe'[r][1] = READY
      <4>1. Len(pipe[r]) = 0
        BY <2>4
      <4> QED BY <1>0, <2>4, <4>1, MessageTypes, AppendProperties
    <3>2. /\ \A i \in 1..Len(pipe'[r]) : pipe'[r][i] = READY
          /\ \A i, j \in 1..Len(pipe'[r]) : ~(i < j)
      BY ONLY <3>1
    <3>3. sent' = sent /\ wpc' = "remote ready"
      BY <2>4 DEF LocalReady
    <3>4. \A n \in Nat : n = READY => Entry(r, n)'
      <4>0. sent' = sent /\ sent \in Nat
        BY <1>0, <3>3
      <4>1. 0 <= sent'
        BY ONLY <4>0
      <4> QED BY <3>3, <4>1 DEF Entry, READY
    <3> QED BY <3>2, <3>4 DEF Increasing
  <2>5. CASE SendOverflow /\ pipe'[r] = Append(pipe[r], sent) /\ rpc'[r] = rpc[r]
    <3>1. /\ wpc = "send" /\ wpc' = "send remote" /\ sent' = sent
          /\ UNCHANGED <<overflow, rpc, delivered>>
      BY <2>5 DEF SendOverflow, readerVars, ringVars
    <3>2. \A i \in 1..Len(pipe[r]) : pipe[r][i] < sent
      BY <1>1, <3>1 DEF Queue, Entry
    <3>3. Increasing(pipe'[r])
      BY <1>0, <1>1, <2>5, <3>2, IncreasingAppend DEF Queue
    <3>4. /\ Len(pipe'[r]) = Len(pipe[r]) + 1 /\ pipe'[r][Len(pipe[r]) + 1] = sent
          /\ \A i \in 1..Len(pipe[r]) : pipe'[r][i] = pipe[r][i]
      BY <1>0, <2>5, AppendProperties
    <3>5. \A n \in Nat : n = sent => Entry(r, n)'
      <4>1. Taken(r)' = Taken(r)
        BY <3>1 DEF Taken
      <4>2. overflow[Slot(sent - 1)]
        BY <3>1 DEF DataInv, Filled
      <4>3. Taken(r) < sent \/ (rpc[r] = "recv" /\ sent = Taken(r))
        <5>1. Taken(r) <= sent
          BY DEF RingInv, Lap
        <5>2. Taken(r) = sent => rpc[r] = "recv"
          BY <1>1, <3>1 DEF Queue
        <5>3. Taken(r) < sent \/ Taken(r) = sent
          BY ONLY <1>0, <5>1
        <5> QED BY <5>2, <5>3
      <4>0. sent' = sent /\ sent \in Nat
        BY <1>0, <3>1
      <4>4. sent <= sent'
        BY ONLY <4>0
      <4> QED BY <3>1, <4>1, <4>2, <4>3, <4>4 DEF Entry
    <3>6. ASSUME NEW i \in 1..Len(pipe'[r]), NEW n \in Nat, n = pipe'[r][i]
          PROVE  Entry(r, n)'
      <4>1. CASE i \in 1..Len(pipe[r])
        BY <1>3, <2>5, <3>4, <3>6, <4>1
      <4>2. CASE i = Len(pipe[r]) + 1
        BY <3>4, <3>5, <3>6, <4>2
      <4> QED BY <1>0, <3>4, <4>1, <4>2
    <3> QED BY <3>3, <3>6
  <2> QED BY <2>1, <2>2, <2>3, <2>4, <2>5, LocalPipe
<1>5. (rpc[r] \in {"connect", "ready"} => Taken(r) = 0)'
  <2>1. rpc'[r] \in {"connect", "ready"} => rpc[r] \in {"connect", "ready"} /\ ~MarkRead(r)
    <3>1. CASE Writer \/ WriteTimeout \/ Close \/ UNCHANGED vars
      BY <3>1, WriterFrame, TakenSteps DEF readerVars, MarkRead
    <3>2. ASSUME NEW q \in Readers, ReaderStep(q), q # r PROVE rpc'[r] = rpc[r]
      BY <1>0, <3>2 DEF ReaderStep, Reader, Connect, ReceiveReady, Dequeue, LoadFlag,
         LoadWritten, ReadOverflow, ReadBody, MarkRead, Receive, ReadTimeout, RecvTimeout
    <3>3. ASSUME ReaderStep(r), rpc'[r] \in {"connect", "ready"}
          PROVE  rpc[r] \in {"connect", "ready"} /\ ~MarkRead(r)
      BY <1>0, <3>3 DEF ReaderStep, Reader, Connect, ReceiveReady, Dequeue, LoadFlag,
         LoadWritten, ReadOverflow, ReadBody, MarkRead, Receive, ReadTimeout, RecvTimeout
    <3>4. MarkRead(r) => rpc'[r] \in {"recv", "idle"}
      BY <1>0 DEF MarkRead
    <3> QED BY <3>1, <3>2, <3>3, <3>4 DEF Next, Fault, Finished, ReaderStep, readerVars
  <2> QED BY <1>1, <2>1, TakenSteps DEF Queue
<1>6. (wpc = "send" /\ Taken(r) = sent => rpc[r] = "recv")'
  <2> SUFFICES ASSUME wpc' = "send", Taken(r)' = sent' PROVE rpc'[r] = "recv"
    OBVIOUS
  <2>1. CASE CommitWrite
    <3>1. sent' = sent + 1 /\ UNCHANGED <<rpc, delivered>>
      BY <2>1 DEF CommitWrite, readerVars
    <3>2. Taken(r)' = Taken(r) /\ Taken(r) <= sent
      BY <3>1 DEF Taken, RingInv, Lap
    <3> QED BY <1>0, <3>1, <3>2
  <2>2. CASE ~CommitWrite
    <3>1. UNCHANGED sent /\ wpc = "send"
      <4>1. CASE Writer \/ WriteTimeout \/ Close \/ UNCHANGED vars
        BY <1>0, <2>2, <4>1 DEF Writer, WriteTimeout, Close, LocalReady, RemoteReady, Enqueue,
           AcquireWrite, WriteOverflow, WriteBody, ResetFlag, SendOverflow, SendRemote, vars,
           writerVars
      <4>2. ASSUME NEW q \in Readers, ReaderStep(q) PROVE UNCHANGED writerVars
        BY <4>2, ReaderFrame
      <4> QED BY <4>1, <4>2 DEF Next, Fault, Finished, ReaderStep, writerVars
    <3>2. CASE MarkRead(r)
      <4>1. Taken(r) = sent - 1 /\ ridx[r] = Slot(Taken(r)) /\ rpc[r] = "mark"
        <5>1. Taken(r)' = Taken(r) + 1
          BY <3>2, TakenSteps
        <5> QED BY <1>0, <3>1, <3>2, <5>1 DEF MarkRead, RingInv, Lap
      <4>2. overflow[ridx[r]]
        BY <3>1, <4>1 DEF DataInv, Filled
      <4>3. seen[r] = 0
        BY <4>1, <4>2 DEF DataInv, Holding
      <4> QED BY <1>0, <3>2, <4>3 DEF MarkRead
    <3>3. CASE ~MarkRead(r)
      <4>1. rpc[r] = "recv"
        BY <1>1, <3>1, <3>3, TakenSteps DEF Queue
      <4>2. pipe[r] # <<>> => FALSE
        <5> SUFFICES ASSUME pipe[r] # <<>> PROVE FALSE
          OBVIOUS
        <5>1. 1 \in 1..Len(pipe[r])
          BY <1>0
        <5>2. Entry(r, pipe[r][1]) /\ pipe[r][1] # READY
          BY <1>0, <1>1, <4>1, <5>1 DEF Queue, IInv, HandshakeState, Handshaken
        <5>3. Taken(r) = sent
          BY <3>1, <3>3, TakenSteps
        <5> QED BY <1>0, <1>2, <3>1, <5>1, <5>2, <5>3 DEF Entry
      <4>3. rpc'[r] = "recv" \/ rpc'[r] = rpc[r]
        BY <4>2, LocalPipe, <4>1, <1>0
      <4> QED BY <4>1, <4>3
    <3> QED BY <3>2, <3>3
  <2> QED BY <2>1, <2>2
<1> QED BY <1>4, <1>5, <1>6 DEF Queue

-----------------------------------------------------------------------------
\* Ring, chunks and local sockets, as long as a local reader takes what is announced.
BroadcastInv == IInv /\ RingInv /\ DataInv /\ QueueInv

\* At first all pipes are empty.
LEMMA InitBroadcast == Init => BroadcastInv
<1> SUFFICES ASSUME Init PROVE QueueInv
  BY InitIInv, InitRing, InitData DEF BroadcastInv
<1> SUFFICES ASSUME NEW r \in Local PROVE Queue(r)
  BY DEF QueueInv
<1>1. pipe[r] = <<>> /\ rpc[r] = "connect" /\ delivered[r] = <<>> /\ wpc = "local ready"
  BY LocalReaders DEF Init
<1>2. Len(pipe[r]) = 0 /\ Len(delivered[r]) = 0
  BY <1>1
<1>3. Taken(r) = 0
  <2>1. rpc[r] # "recv"
    BY <1>1
  <2> QED BY ONLY <1>2, <2>1 DEF Taken
<1>4. \A i \in 1..Len(pipe[r]) : FALSE
  BY <1>2
<1> QED BY ONLY <1>1, <1>3, <1>4 DEF Queue, Increasing

\* Every step preserves it while the sockets are reliable.
LEMMA StepBroadcastInv ==
  ASSUME SocketsReliable, BroadcastInv, [Next]_vars PROVE BroadcastInv'
  BY StepIInv, StepRing, StepFilled, StepHolding, StepQueue
     DEF BroadcastInv, DataInv, QueueInv

\* The inductive invariant of the ring and the local sockets holds throughout.
THEOREM BroadcastInvariant == SocketsReliable => (Spec => []BroadcastInv)
<1>1. ASSUME SocketsReliable, BroadcastInv, [Next]_vars PROVE BroadcastInv'
  BY <1>1, StepBroadcastInv
<1>2. ASSUME SocketsReliable PROVE Spec => []BroadcastInv
  BY InitBroadcast, <1>1, <1>2, PTL DEF Spec
<1> QED BY <1>2

\* A local socket holds at most one object per chunk and one that is being received
\* (enqueue, dequeue): the chunk that announced an object is not written again before
\* the reader has taken it.
THEOREM OverflowStaysBounded == SocketsReliable => (Spec => []OverflowBounded)
<1>1. ASSUME BroadcastInv, NEW r \in Local, Len(pipe[r]) > 0 PROVE Len(pipe[r]) <= Chunks + 1
  <2> DEFINE n == Len(pipe[r])
  <2>1. /\ r \in Readers /\ n \in Nat /\ sent \in Nat /\ Taken(r) \in Nat /\ Chunks \in Nat
        /\ \A i \in 1..n : pipe[r][i] \in Nat
    BY <1>1, LocalReaders, TakenType, MessageTypes, ShmBroadcastAssumption
       DEF BroadcastInv, IInv, TypeOK, Messages
  <2>2. Queue(r) /\ sent <= Taken(r) + Chunks /\ 1 \in 1..n /\ n \in 1..n
    BY <1>1, <2>1 DEF BroadcastInv, QueueInv, RingInv, Lap
  <2>3. pipe[r][n] <= sent
    BY <2>2 DEF Queue, Entry
  <2>4. pipe[r][1] >= Taken(r)
    <3>1. Entry(r, pipe[r][1])
      BY <2>2 DEF Queue
    <3>2. pipe[r][1] = READY => rpc[r] = "ready"
      BY <1>1, <2>1, <2>2 DEF BroadcastInv, IInv, HandshakeState, Handshaken
    <3>3. pipe[r][1] = READY => Taken(r) = 0
      BY <2>2, <3>2 DEF Queue
    <3> QED BY <2>1, <2>2, <3>1, <3>3 DEF Entry
  <2>5. n > 1 => pipe[r][1] + (n - 1) <= pipe[r][n]
    BY <2>1, <2>2 DEF Queue, Increasing
  <2>6. pipe[r][1] \in Nat /\ pipe[r][n] \in Nat
    BY <2>1, <2>2
  <2> HIDE DEF n
  <2>7. n <= Chunks + 1
    BY ONLY <2>1, <2>2, <2>3, <2>4, <2>5, <2>6
  <2> QED BY <2>7 DEF n
<1>2. ASSUME BroadcastInv, NEW r \in Local PROVE Len(pipe[r]) <= Chunks + 1
  <2>1. Len(pipe[r]) \in Nat /\ Chunks \in Nat
    BY <1>2, LocalReaders, ShmBroadcastAssumption DEF BroadcastInv, IInv, TypeOK
  <2> QED BY <1>1, <1>2, <2>1
<1>3. BroadcastInv => OverflowBounded
  BY <1>2 DEF OverflowBounded
<1> QED BY BroadcastInvariant, <1>3, PTL

-----------------------------------------------------------------------------
(* The promise of Broadcast *)

\* A socket can hold what the ring announces and the object that is being received: of
\* the code's two sizes, the socket's limit is 1000 messages and the ring has 10 chunks.
RoomForRing == HighWater >= Chunks + 1

\* The last object of a sequence, as in Broadcast.
Newest(s) == IF s = <<>> THEN 0 ELSE s[Len(s)]
LastOf(r) == Newest(delivered[r])

\* What a local reader's chunks have announced is in its socket, or was dropped by close.
Complete(r) ==
  /\ \A a \in Nat :
       Taken(r) <= a /\ a < sent /\ overflow[Slot(a)] /\ (wpc = "send" => a + 1 < sent) =>
         \/ \E i \in 1..Len(pipe[r]) : pipe[r][i] = a + 1
         \/ wpc = "closed" /\ \A i \in 1..Len(pipe[r]) : pipe[r][i] < a + 1
  /\ rpc[r] = "recv" =>
       IF pipe[r] = <<>> THEN wpc = "closed" \/ (wpc = "send" /\ Taken(r) = sent)
                         ELSE pipe[r][1] = Taken(r)

\* A local reader has received the first objects, each at its place.
InOrder(r) == \A i \in 1..Len(delivered[r]) : delivered[r][i] = i

\* A remote reader's socket holds later objects than it has received, without the one
\* that has not been sent to it yet.
Later(r) ==
  /\ Increasing(pipe[r])
  /\ \A i \in 1..Len(pipe[r]) :
       /\ pipe[r][i] = READY \/ LastOf(r) < pipe[r][i]
       /\ pipe[r][i] <= sent
       /\ wpc \in {"send", "send remote"} /\ Local # {} => pipe[r][i] < sent
  /\ LastOf(r) <= sent
  /\ wpc \in {"send", "send remote"} /\ Local # {} => LastOf(r) < sent

DeliveryInv == /\ \A r \in Local : Complete(r) /\ InOrder(r)
               /\ \A r \in Remote : Later(r)

\* The last object of a sequence is an object.
LEMMA NewestFacts ==
  ASSUME NEW s \in Seq(1..MaxSent)
  PROVE  Newest(s) \in Nat /\ \A m \in 1..MaxSent : Newest(Append(s, m)) = m
<1>1. s # <<>> => s[Len(s)] \in 1..MaxSent
  <2> SUFFICES ASSUME s # <<>> PROVE s[Len(s)] \in 1..MaxSent
    OBVIOUS
  <2>1. Len(s) \in 1..Len(s)
    OBVIOUS
  <2> QED BY ONLY <2>1, s \in Seq(1..MaxSent), ElementOfSeq
<1>2. ASSUME NEW m \in 1..MaxSent PROVE Newest(Append(s, m)) = m
  <2>1. Len(Append(s, m)) = Len(s) + 1 /\ Append(s, m)[Len(s) + 1] = m /\ Append(s, m) # <<>>
    BY AppendProperties
  <2> QED BY <2>1 DEF Newest
<1> QED BY <1>1, <1>2 DEF Newest

\* A local reader's last object has the number of objects that it has received.
LEMMA LocalLast ==
  ASSUME TypeOK, NEW r \in Readers, InOrder(r) PROVE LastOf(r) = Len(delivered[r])
<1>1. delivered[r] \in Seq(1..MaxSent)
  BY DEF TypeOK
<1>2. CASE delivered[r] = <<>>
  <2>1. Len(delivered[r]) = 0
    BY <1>2
  <2> QED BY <1>2, <2>1 DEF LastOf, Newest
<1>3. CASE delivered[r] # <<>>
  <2>1. Len(delivered[r]) \in 1..Len(delivered[r])
    BY <1>1, <1>3
  <2> QED BY <1>3, <2>1 DEF InOrder, LastOf, Newest
<1> QED BY <1>2, <1>3

\* A local socket has room for the object that is sent to it (enqueue).
LEMMA RoomForObject ==
  ASSUME BroadcastInv, RoomForRing, wpc = "send", NEW r \in Local
  PROVE  Len(pipe[r]) < HighWater /\ r \in subscribed
<1> DEFINE n == Len(pipe[r])
<1>1. /\ r \in Readers /\ n \in Nat /\ sent \in Nat /\ Taken(r) \in Nat /\ Chunks \in Nat \ {0}
      /\ \A i \in 1..n : pipe[r][i] \in Nat /\ HighWater \in Nat
  BY LocalReaders, TakenType, MessageTypes, ShmBroadcastAssumption
     DEF BroadcastInv, IInv, TypeOK, Messages
<1>2. r \in subscribed
  BY <1>1 DEF BroadcastInv, IInv, HandshakeState, Handshaken, Greeted
<1>3. n <= Chunks
  <2>1. CASE n > 0
    <3>1. 1 \in 1..n /\ n \in 1..n
      BY <1>1, <2>1
    <3>2. Queue(r) /\ sent <= Taken(r) + Chunks
      BY DEF BroadcastInv, QueueInv, RingInv, Lap
    <3>3. pipe[r][n] < sent
      BY <3>1, <3>2 DEF Queue, Entry
    <3>4. pipe[r][1] >= Taken(r)
      <4>1. Entry(r, pipe[r][1])
        BY <3>1, <3>2 DEF Queue
      <4>2. pipe[r][1] = READY => rpc[r] = "ready"
        BY <1>1, <3>1 DEF BroadcastInv, IInv, HandshakeState, Handshaken
      <4>3. pipe[r][1] = READY => Taken(r) = 0
        BY <3>2, <4>2 DEF Queue
      <4> QED BY <1>1, <3>1, <4>1, <4>3 DEF Entry
    <3>5. n > 1 => pipe[r][1] + (n - 1) <= pipe[r][n]
      BY <1>1, <3>1, <3>2 DEF Queue, Increasing
    <3>6. pipe[r][1] \in Nat /\ pipe[r][n] \in Nat
      BY <1>1, <3>1
    <3> HIDE DEF n
    <3> QED BY ONLY <1>1, <2>1, <3>2, <3>3, <3>4, <3>5, <3>6
  <2> QED BY <1>1, <2>1
<1>4. HighWater >= Chunks + 1 /\ HighWater \in Nat
  BY ShmBroadcastAssumption DEF RoomForRing
<1> HIDE DEF n
<1>5. n < HighWater
  BY ONLY <1>1, <1>3, <1>4
<1> QED BY <1>2, <1>5 DEF n

\* A reader receives the object that it waits for (dequeue).
LEMMA StepInOrder ==
  ASSUME BroadcastInv, DeliveryInv, SocketsReliable, [Next]_vars, NEW r \in Local
  PROVE  /\ InOrder(r)'
         /\ \/ delivered'[r] = delivered[r]
            \/ /\ delivered'[r] = Append(delivered[r], Len(delivered[r]) + 1)
               /\ Len(delivered[r]) + 1 <= sent
<1> USE DEF ReaderAt, ReaderGoto, ringVars, writerVars, readerVars
<1>0. /\ r \in Readers /\ delivered[r] \in Seq(1..MaxSent) /\ Len(delivered[r]) \in Nat
      /\ delivered \in [Readers -> Seq(1..MaxSent)] /\ pipe[r] \in Seq(Messages)
      /\ rpc \in [Readers -> ReaderPlaces] /\ sent \in Nat
  BY LocalReaders, ShmBroadcastAssumption DEF BroadcastInv, IInv, TypeOK
<1>1. InOrder(r)
  BY DEF DeliveryInv
<1>2. \/ delivered'[r] = delivered[r]
      \/ /\ delivered'[r] = Append(delivered[r], Len(delivered[r]) + 1)
         /\ Len(delivered[r]) + 1 <= sent
  <2>2. CASE MarkRead(r) /\ seen[r] # 0
    <3>1. rpc[r] = "mark" /\ delivered'[r] = Append(delivered[r], seen[r])
      BY <1>0, <2>2 DEF MarkRead, Return
    <3>2. seen[r] = Taken(r) + 1 /\ Taken(r) < sent
      BY <2>2, <3>1, ReaderBehind DEF BroadcastInv, DataInv, Holding, Reading
    <3>3. Taken(r) = Len(delivered[r])
      <4>1. rpc[r] # "recv"
        BY <3>1
      <4> QED BY ONLY <1>0, <4>1 DEF Taken
    <3> QED BY <1>0, <3>1, <3>2, <3>3
  <2>3. CASE Receive(r)
    <3>1. /\ rpc[r] = "recv" /\ pipe[r] # <<>>
          /\ delivered'[r] = Append(delivered[r], Head(pipe[r]))
      BY <1>0, <2>3 DEF Receive, Return, SocketsReliable, Fallible
    <3>2. Head(pipe[r]) = Taken(r)
      BY <1>0, <3>1, TailFacts DEF DeliveryInv, Complete
    <3>3. Taken(r) <= sent
      BY DEF BroadcastInv, RingInv, Lap
    <3>4. Taken(r) = Len(delivered[r]) + 1
      BY <1>0, <3>1 DEF Taken
    <3> QED BY <1>0, <3>1, <3>2, <3>3, <3>4
  <2>4. CASE ~(MarkRead(r) /\ seen[r] # 0) /\ ~Receive(r)
    <3>1. CASE Writer \/ WriteTimeout \/ Close \/ UNCHANGED vars
      BY <3>1, WriterFrame
    <3>2. ASSUME NEW q \in Readers, ReaderStep(q), q # r PROVE delivered'[r] = delivered[r]
      BY <1>0, <3>2 DEF ReaderStep, Reader, Connect, ReceiveReady, Dequeue, LoadFlag,
         LoadWritten, ReadOverflow, ReadBody, MarkRead, Receive, ReadTimeout, RecvTimeout, Return
    <3>3. CASE ReaderStep(r)
      BY <2>4, <3>3 DEF ReaderStep, Reader, Connect, ReceiveReady, Dequeue, LoadFlag,
         LoadWritten, ReadOverflow, ReadBody, MarkRead, ReadTimeout, RecvTimeout
    <3> QED BY <3>1, <3>2, <3>3 DEF Next, Fault, Finished, ReaderStep
  <2> QED BY <2>2, <2>3, <2>4
<1>5. delivered'[r] = Append(delivered[r], Len(delivered[r]) + 1)
      /\ Len(delivered[r]) + 1 <= sent => InOrder(r)'
  <2> SUFFICES ASSUME delivered'[r] = Append(delivered[r], Len(delivered[r]) + 1),
                      Len(delivered[r]) + 1 <= sent,
                      NEW i \in 1..Len(delivered'[r])
               PROVE  delivered'[r][i] = i
    BY DEF InOrder
  <2>1. /\ Len(delivered'[r]) = Len(delivered[r]) + 1
        /\ delivered'[r][Len(delivered[r]) + 1] = Len(delivered[r]) + 1
        /\ \A j \in 1..Len(delivered[r]) : delivered'[r][j] = delivered[r][j]
    <3>1. Len(delivered[r]) + 1 \in 1..MaxSent
      <4>1. sent <= MaxSent /\ MaxSent \in Nat
        BY ShmBroadcastAssumption DEF BroadcastInv, IInv, TypeOK
      <4> QED BY <1>0, <4>1
    <3> QED BY <1>0, <3>1, AppendProperties
  <2>2. i \in 1..Len(delivered[r]) \/ i = Len(delivered[r]) + 1
    BY ONLY <1>0, <2>1, i \in 1..Len(delivered'[r])
  <2> QED BY <1>1, <2>1, <2>2 DEF InOrder
<1>6. delivered'[r] = delivered[r] => InOrder(r)'
  BY <1>1 DEF InOrder
<1> QED BY <1>2, <1>5, <1>6

\* An object that reader r has still to take and that is announced in the ring, with its
\* bytes on the socket.
Awaited(r, a) == /\ Taken(r) <= a /\ a < sent /\ overflow[Slot(a)]
                 /\ wpc = "send" => a + 1 < sent

\* An object that is announced and awaited now was so before, but for the one that is
\* being sent.
LEMMA AwaitedBefore ==
  ASSUME BroadcastInv, SocketsReliable, [Next]_vars, ~SendOverflow, NEW r \in Local,
         NEW a \in Nat, Awaited(r, a)'
  PROVE  Awaited(r, a)
<1> USE DEF WriterAt, WriterGoto, ringVars, writerVars, readerVars
<1>0. /\ r \in Readers /\ overflow \in [Ring -> BOOLEAN] /\ widx \in Ring /\ sent \in Nat
      /\ Taken(r) \in Nat /\ Local # {} /\ large \in BOOLEAN /\ Chunks \in Nat
  BY LocalReaders, TakenType, ShmBroadcastAssumption DEF BroadcastInv, IInv, TypeOK
<1>1. Taken(r) <= a
  <2>1. Taken(r)' = Taken(r) \/ Taken(r)' = Taken(r) + 1
    BY TakenSteps DEF BroadcastInv
  <2>2. Taken(r)' <= a
    BY DEF Awaited
  <2> QED BY ONLY <1>0, <2>1, <2>2, a \in Nat
<1>2. CASE CommitWrite
  <2>1. /\ wpc = "commit" /\ wpc' = (IF large THEN "send" ELSE "send remote")
        /\ sent' = sent + 1 /\ overflow' = overflow /\ widx = Slot(sent)
        /\ overflow[widx] = large
    BY <1>0, <1>2 DEF CommitWrite, BroadcastInv, RingInv, Lap, DataInv, Filled
  <2>2. a < sent + 1 /\ overflow[Slot(a)] /\ (wpc' = "send" => a + 1 < sent + 1)
    BY <2>1 DEF Awaited
  <2>3. a # sent
    <3> SUFFICES ASSUME a = sent PROVE FALSE
      OBVIOUS
    <3>1. large
      BY <2>1, <2>2
    <3>2. a + 1 < sent + 1
      BY <2>1, <2>2, <3>1
    <3> QED BY ONLY <1>0, <3>2, a = sent
  <2>4. a < sent
    BY ONLY <1>0, <2>2, <2>3, a \in Nat
  <2> QED BY <1>1, <2>1, <2>2, <2>4 DEF Awaited
<1>3. CASE WriteOverflow
  <2>1. /\ wpc = "overflow" /\ overflow' = [overflow EXCEPT ![widx] = large] /\ sent' = sent
    BY <1>3 DEF WriteOverflow
  <2>2. a < sent /\ overflow'[Slot(a)]
    BY <2>1 DEF Awaited
  <2>3. sent < Taken(r) + Chunks
    BY <2>1 DEF BroadcastInv, RingInv, Lap, Filling
  <2>4. sent < a + Chunks
    BY ONLY <1>0, <1>1, <2>3, a \in Nat
  <2>5. Slot(a) # widx /\ Slot(a) \in Ring
    BY <2>2, <2>4, NotWriters DEF BroadcastInv
  <2> QED BY <1>0, <1>1, <2>1, <2>2, <2>5 DEF Awaited
<1>4. CASE ~CommitWrite /\ ~WriteOverflow
  <2>1. UNCHANGED <<overflow, sent>> /\ (wpc = "send" => wpc' = "send")
    <3>1. CASE Writer \/ WriteTimeout \/ Close \/ UNCHANGED vars
      BY <1>0, <1>4, <3>1 DEF Writer, WriteTimeout, Close, LocalReady, RemoteReady, Enqueue,
         AcquireWrite, WriteBody, ResetFlag, SendRemote, vars
    <3>2. ASSUME NEW q \in Readers, ReaderStep(q) PROVE UNCHANGED <<overflow, sent, wpc>>
      BY <3>2, ReaderFrame DEF ReaderStep, Reader, Connect, ReceiveReady, Dequeue, LoadFlag,
         LoadWritten, ReadOverflow, ReadBody, MarkRead, Receive, ReadTimeout, RecvTimeout
    <3> QED BY <3>1, <3>2 DEF Next, Fault, Finished, ReaderStep
  <2> QED BY <1>1, <2>1 DEF Awaited
<1> QED BY <1>2, <1>3, <1>4

\* The writer never leaves its last place, and leaves the socket's only by sending.
LEMMA WriterStays ==
  ASSUME IInv, [Next]_vars
  PROVE  /\ wpc = "closed" => wpc' = "closed"
         /\ wpc = "send" /\ ~SendOverflow => wpc' = "send" /\ sent' = sent
<1> USE DEF WriterAt, WriterGoto, writerVars
<1>1. CASE Writer \/ WriteTimeout \/ Close \/ UNCHANGED vars
  BY <1>1 DEF Writer, WriteTimeout, Close, LocalReady, RemoteReady, Enqueue, AcquireWrite,
     WriteOverflow, WriteBody, ResetFlag, CommitWrite, SendOverflow, SendRemote, vars
<1>2. ASSUME NEW q \in Readers, ReaderStep(q) PROVE UNCHANGED writerVars
  BY <1>2, ReaderFrame
<1> QED BY <1>1, <1>2 DEF Next, Fault, Finished, ReaderStep

\* A local reader goes to its socket when it has marked a chunk that announces an object.
LEMMA GoesToSocket ==
  ASSUME IInv, [Next]_vars, NEW r \in Local, rpc'[r] = "recv", rpc[r] # "recv"
  PROVE  MarkRead(r) /\ seen[r] = 0 /\ UNCHANGED <<pipe, wpc, sent>>
<1> USE DEF ReaderAt, ReaderGoto, writerVars
<1>0. r \in Readers /\ rpc \in [Readers -> ReaderPlaces]
  BY LocalReaders DEF IInv, TypeOK
<1>1. CASE Writer \/ WriteTimeout \/ Close \/ UNCHANGED vars
  BY <1>1, WriterFrame DEF readerVars
<1>2. ASSUME NEW q \in Readers, ReaderStep(q), q # r PROVE rpc'[r] = rpc[r]
  BY <1>0, <1>2 DEF ReaderStep, Reader, Connect, ReceiveReady, Dequeue, LoadFlag,
     LoadWritten, ReadOverflow, ReadBody, MarkRead, Receive, ReadTimeout, RecvTimeout
<1>3. CASE ReaderStep(r)
  BY <1>0, <1>3 DEF ReaderStep, Reader, Connect, ReceiveReady, Dequeue, LoadFlag,
     LoadWritten, ReadOverflow, ReadBody, MarkRead, Receive, ReadTimeout, RecvTimeout
<1> QED BY <1>1, <1>2, <1>3 DEF Next, Fault, Finished, ReaderStep

\* The sockets lose nothing that a chunk has announced (enqueue, dequeue).
LEMMA StepComplete ==
  ASSUME BroadcastInv, DeliveryInv, SocketsReliable, RoomForRing, [Next]_vars, NEW r \in Local
  PROVE  Complete(r)'
<1>0. /\ r \in Readers /\ pipe[r] \in Seq(Messages) /\ Len(pipe[r]) \in Nat /\ sent \in Nat
      /\ Taken(r) \in Nat /\ sent \in Messages /\ \A i \in 1..Len(pipe[r]) : pipe[r][i] \in Nat
      /\ IInv
  <2>1. TypeOK /\ r \in Readers /\ IInv
    BY LocalReaders DEF BroadcastInv, IInv
  <2>2. Taken(r) \in Nat
    BY <2>1, TakenType
  <2>3. pipe[r] \in Seq(Messages)
    BY <2>1 DEF TypeOK
  <2>4. sent \in Nat /\ sent \in Messages
    BY <2>1, ShmBroadcastAssumption DEF TypeOK, Messages
  <2>5. \A i \in 1..Len(pipe[r]) : pipe[r][i] \in Nat
    BY <2>3, MessageTypes DEF Messages
  <2> QED BY <2>1, <2>2, <2>3, <2>4, <2>5
<1>1. Complete(r) /\ Queue(r)
  BY DEF DeliveryInv, BroadcastInv, QueueInv
<1>2. Taken(r)' = Taken(r) \/ (MarkRead(r) /\ Taken(r)' = Taken(r) + 1)
  BY <1>0, TakenSteps
<1>3. SendOverflow => /\ pipe'[r] = Append(pipe[r], sent) /\ wpc = "send" /\ wpc' = "send remote"
                      /\ UNCHANGED <<rpc, overflow, sent, delivered>>
  BY <1>0, RoomForObject DEF SendOverflow, Published, WriterAt, WriterGoto, ringVars, readerVars
<1>4. SendOverflow => /\ Len(pipe'[r]) = Len(pipe[r]) + 1 /\ pipe'[r][Len(pipe[r]) + 1] = sent
                      /\ \A i \in 1..Len(pipe[r]) : pipe'[r][i] = pipe[r][i]
                      /\ pipe'[r] # <<>>
  <2> SUFFICES ASSUME SendOverflow
               PROVE  /\ Len(pipe'[r]) = Len(pipe[r]) + 1 /\ pipe'[r][Len(pipe[r]) + 1] = sent
                      /\ \A i \in 1..Len(pipe[r]) : pipe'[r][i] = pipe[r][i]
                      /\ pipe'[r] # <<>>
    OBVIOUS
  <2>1. pipe'[r] = Append(pipe[r], sent)
    BY <1>3
  <2> QED BY ONLY <1>0, <2>1, AppendProperties
<1>5. ASSUME NEW a \in Nat, Awaited(r, a)'
      PROVE  \/ \E i \in 1..Len(pipe'[r]) : pipe'[r][i] = a + 1
             \/ wpc' = "closed" /\ \A i \in 1..Len(pipe'[r]) : pipe'[r][i] < a + 1
  <2>1. CASE SendOverflow
    <3>1. Taken(r)' = Taken(r)
      BY <1>3, <2>1 DEF Taken
    <3>2. Taken(r) <= a /\ a < sent /\ overflow[Slot(a)]
      BY <1>3, <1>5, <2>1, <3>1 DEF Awaited
    <3>3. CASE a + 1 < sent
      <4>1. Awaited(r, a)
        BY <3>2, <3>3 DEF Awaited
      <4>2. \E i \in 1..Len(pipe[r]) : pipe[r][i] = a + 1
        BY <1>1, <1>3, <2>1, <4>1 DEF Complete, Awaited
      <4> QED BY <1>0, <1>4, <2>1, <4>2
    <3>4. CASE a + 1 = sent
      BY <1>0, <1>4, <2>1, <3>4
    <3> QED BY <1>0, <3>2, <3>3, <3>4
  <2>2. CASE ~SendOverflow
    <3>1. Awaited(r, a)
      BY <1>5, <2>2, AwaitedBefore
    <3>2. \/ \E i \in 1..Len(pipe[r]) : pipe[r][i] = a + 1
          \/ wpc = "closed" /\ \A i \in 1..Len(pipe[r]) : pipe[r][i] < a + 1
      BY <1>1, <3>1 DEF Complete, Awaited
    <3>3. wpc = "closed" => wpc' = "closed"
      BY <1>0, WriterStays
    <3>4. CASE pipe'[r] = pipe[r]
      BY <3>2, <3>3, <3>4
    <3>5. CASE pipe[r] # <<>> /\ pipe'[r] = Tail(pipe[r]) /\ rpc[r] \in {"recv", "ready"}
      <4>1. pipe[r][1] # a + 1
        <5>1. rpc[r] = "recv" => pipe[r][1] = Taken(r)
          BY <1>1, <3>5 DEF Complete
        <5>2. rpc[r] = "ready" => pipe[r][1] = 0
          BY <1>0, <3>5 DEF IInv, HandshakeState, Handshaken, READY
        <5>3. Taken(r) <= a
          BY <3>1 DEF Awaited
        <5>4. CASE pipe[r][1] = Taken(r)
          BY ONLY <1>0, <5>3, <5>4, a \in Nat
        <5>5. CASE pipe[r][1] = 0
          BY ONLY <5>5, a \in Nat
        <5> QED BY <3>5, <5>1, <5>2, <5>4, <5>5
      <4>2. Len(pipe'[r]) = Len(pipe[r]) - 1
            /\ \A i \in 1..Len(pipe'[r]) : i + 1 \in 1..Len(pipe[r]) /\ pipe'[r][i] = pipe[r][i + 1]
        BY <1>0, <3>5, TailFacts
      <4>3. CASE \E i \in 1..Len(pipe[r]) : pipe[r][i] = a + 1
        <5>1. PICK i \in 1..Len(pipe[r]) : pipe[r][i] = a + 1
          BY <4>3
        <5>2. i # 1
          BY <4>1, <5>1
        <5>3. i - 1 \in 1..Len(pipe'[r]) /\ (i - 1) + 1 = i
          BY ONLY <1>0, <4>2, <5>2, i \in 1..Len(pipe[r])
        <5> QED BY <4>2, <5>1, <5>3
      <4>4. CASE wpc = "closed" /\ \A i \in 1..Len(pipe[r]) : pipe[r][i] < a + 1
        BY <3>3, <4>2, <4>4
      <4> QED BY <3>2, <4>3, <4>4
    <3>6. CASE Close /\ \E k \in 0..Len(pipe[r]) : pipe'[r] = SubSeq(pipe[r], 1, k)
      <4>1. wpc = "idle" /\ wpc' = "closed"
        BY <3>6 DEF Close, WriterAt, WriterGoto
      <4>2. PICK i \in 1..Len(pipe[r]) : pipe[r][i] = a + 1
        BY <3>2, <4>1
      <4>3. PICK k \in 0..Len(pipe[r]) : pipe'[r] = SubSeq(pipe[r], 1, k)
        BY <3>6
      <4>4. Len(pipe'[r]) = k /\ \A j \in 1..k : j \in 1..Len(pipe[r]) /\ pipe'[r][j] = pipe[r][j]
        BY <1>0, <1>1, <4>3, IncreasingPrefix DEF Queue
      <4>5. CASE i <= k
        <5>1. i \in 1..k
          BY <1>0, <4>5
        <5> QED BY <4>2, <4>4, <5>1
      <4>6. CASE k < i
        <5> SUFFICES ASSUME NEW j \in 1..k PROVE pipe[r][j] < a + 1
          BY <4>1, <4>4
        <5>1. j \in 1..Len(pipe[r]) /\ j < i
          BY <1>0, <4>4, <4>6
        <5>2. pipe[r][j] + (i - j) <= a + 1
          BY <1>1, <4>2, <5>1 DEF Queue, Increasing
        <5>3. pipe[r][j] \in Nat /\ j \in Nat /\ i \in Nat
          BY <1>0, <5>1
        <5> QED BY ONLY <5>1, <5>2, <5>3, a \in Nat
      <4> QED BY <1>0, <4>5, <4>6
    <3>7. CASE LocalReady /\ pipe[r] = <<>>
      <4>1. wpc = "local ready" /\ Len(pipe[r]) = 0
        BY <3>7 DEF LocalReady, WriterAt
      <4>2. ~\E i \in 1..Len(pipe[r]) : pipe[r][i] = a + 1
        BY <3>7
      <4> QED BY <3>2, <4>1, <4>2
    <3> QED BY <1>0, <2>2, <3>4, <3>5, <3>6, <3>7, LocalPipe
  <2> QED BY <2>1, <2>2
<1>6. ASSUME rpc'[r] = "recv"
      PROVE  IF pipe'[r] = <<>> THEN wpc' = "closed" \/ (wpc' = "send" /\ Taken(r)' = sent')
                                ELSE pipe'[r][1] = Taken(r)'
  <2>1. CASE rpc[r] # "recv"
    <3>1. MarkRead(r) /\ seen[r] = 0 /\ UNCHANGED <<pipe, wpc, sent>>
      BY <1>0, <1>6, <2>1, GoesToSocket
    <3>2. Taken(r)' = Taken(r) + 1 /\ rpc[r] = "mark"
      BY <1>0, <3>1, TakenSteps DEF MarkRead, ReaderAt
    <3>3. Taken(r) < sent /\ overflow[ridx[r]] /\ ridx[r] = Slot(Taken(r))
      BY <3>1, <3>2, ReaderBehind DEF BroadcastInv, DataInv, Holding, Reading, RingInv, Lap
    <3>4. ASSUME NEW i \in 1..Len(pipe[r])
          PROVE  Taken(r) + 1 <= pipe[r][i] /\ (wpc = "send" => pipe[r][i] < sent)
      <4>1. Entry(r, pipe[r][i]) /\ pipe[r][i] # READY /\ pipe[r][i] \in Nat
        BY <1>0, <1>1, <3>2 DEF Queue, IInv, HandshakeState, Handshaken
      <4>2. Taken(r) < pipe[r][i]
        BY <3>2, <4>1 DEF Entry
      <4>3. wpc = "send" => pipe[r][i] < sent
        BY <4>1 DEF Entry
      <4> QED BY ONLY <1>0, <4>1, <4>2, <4>3
    <3>5. CASE wpc = "send" /\ Taken(r) + 1 = sent
      <4>1. pipe[r] = <<>>
        <5>1. Len(pipe[r]) > 0 => FALSE
          <6> SUFFICES ASSUME Len(pipe[r]) > 0 PROVE FALSE
            OBVIOUS
          <6>1. 1 \in 1..Len(pipe[r])
            BY <1>0
          <6>2. pipe[r][1] < sent /\ sent <= pipe[r][1] /\ pipe[r][1] \in Nat
            BY <1>0, <3>4, <3>5, <6>1
          <6> QED BY ONLY <1>0, <6>2
        <5>2. Len(pipe[r]) = 0
          BY <1>0, <5>1
        <5> QED BY <1>0, <5>2, EmptySeq
      <4> QED BY <3>1, <3>2, <3>5, <4>1
    <3>6. CASE ~(wpc = "send" /\ Taken(r) + 1 = sent)
      <4>1. wpc = "send" => Taken(r) + 1 < sent
        BY <1>0, <3>3, <3>6
      <4>2. \/ \E i \in 1..Len(pipe[r]) : pipe[r][i] = Taken(r) + 1
            \/ wpc = "closed" /\ \A i \in 1..Len(pipe[r]) : pipe[r][i] < Taken(r) + 1
        <5>1. \A a \in Nat : a = Taken(r) => Awaited(r, a)
          BY <1>0, <3>3, <4>1 DEF Awaited
        <5>2. \A a \in Nat : Awaited(r, a) =>
                 \/ \E i \in 1..Len(pipe[r]) : pipe[r][i] = a + 1
                 \/ wpc = "closed" /\ \A i \in 1..Len(pipe[r]) : pipe[r][i] < a + 1
          BY <1>1 DEF Complete, Awaited
        <5> QED BY <1>0, <5>1, <5>2
      <4>3. CASE \E i \in 1..Len(pipe[r]) : pipe[r][i] = Taken(r) + 1
        <5>1. PICK i \in 1..Len(pipe[r]) : pipe[r][i] = Taken(r) + 1
          BY <4>3
        <5>2. 1 \in 1..Len(pipe[r]) /\ i \in Nat /\ i >= 1
          BY <1>0
        <5>3. i > 1 => pipe[r][1] + (i - 1) <= pipe[r][i]
          BY <1>1, <5>2 DEF Queue, Increasing
        <5>4. pipe[r][1] \in Nat /\ Taken(r) + 1 <= pipe[r][1]
          BY <1>0, <3>4, <5>2
        <5>5. i = 1
          BY ONLY <1>0, <5>1, <5>2, <5>3, <5>4
        <5>6. pipe[r] # <<>>
          BY <1>0, <5>2
        <5> QED BY <3>1, <3>2, <5>1, <5>5, <5>6
      <4>4. CASE wpc = "closed" /\ \A i \in 1..Len(pipe[r]) : pipe[r][i] < Taken(r) + 1
        <5>1. \A i \in 1..Len(pipe[r]) : FALSE
          <6> SUFFICES ASSUME NEW i \in 1..Len(pipe[r]) PROVE FALSE
            OBVIOUS
          <6>1. pipe[r][i] < Taken(r) + 1 /\ Taken(r) + 1 <= pipe[r][i] /\ pipe[r][i] \in Nat
            BY <1>0, <3>4, <4>4
          <6> QED BY ONLY <1>0, <6>1
        <5>2. Len(pipe[r]) = 0
          BY <1>0, <5>1
        <5>3. pipe[r] = <<>>
          BY <1>0, <5>2, EmptySeq
        <5> QED BY <3>1, <4>4, <5>3
      <4> QED BY <4>2, <4>3, <4>4
    <3> QED BY <3>5, <3>6
  <2>2. CASE rpc[r] = "recv"
    <3>0. Taken(r)' = Taken(r)
      BY <1>2, <2>2 DEF MarkRead, ReaderAt
    <3>1. IF pipe[r] = <<>> THEN wpc = "closed" \/ (wpc = "send" /\ Taken(r) = sent)
                            ELSE pipe[r][1] = Taken(r)
      BY <1>1, <2>2 DEF Complete
    <3>2. CASE SendOverflow
      <4>1. CASE pipe[r] = <<>>
        <5>1. Taken(r) = sent /\ Len(pipe[r]) = 0
          BY <1>3, <3>1, <3>2, <4>1
        <5>2. pipe'[r][1] = sent
          BY <1>4, <3>2, <5>1
        <5> QED BY <1>4, <3>0, <3>2, <5>1, <5>2
      <4>2. CASE pipe[r] # <<>>
        <5>1. 1 \in 1..Len(pipe[r])
          BY <1>0, <4>2
        <5> QED BY <1>4, <3>0, <3>1, <3>2, <4>2, <5>1
      <4> QED BY <4>1, <4>2
    <3>3. CASE ~SendOverflow /\ pipe'[r] = pipe[r]
      <4>1. wpc = "closed" => wpc' = "closed"
        BY <1>0, WriterStays
      <4>2. wpc = "send" => wpc' = "send" /\ sent' = sent
        BY <1>0, <3>3, WriterStays
      <4> QED BY <3>0, <3>1, <3>3, <4>1, <4>2
    <3>4. CASE Close /\ \E k \in 0..Len(pipe[r]) : pipe'[r] = SubSeq(pipe[r], 1, k)
      <4>1. wpc = "idle" /\ wpc' = "closed"
        BY <3>4 DEF Close, WriterAt, WriterGoto
      <4>2. pipe[r][1] = Taken(r)
        BY <3>1, <4>1
      <4>3. PICK k \in 0..Len(pipe[r]) : pipe'[r] = SubSeq(pipe[r], 1, k)
        BY <3>4
      <4>4. Len(pipe'[r]) = k /\ \A j \in 1..k : pipe'[r][j] = pipe[r][j]
        BY <1>0, <1>1, <4>3, IncreasingPrefix DEF Queue
      <4>5. pipe'[r] # <<>> => 1 \in 1..k
        <5>1. pipe'[r] \in Seq(Messages)
          BY <1>0, StepTypeOK DEF TypeOK
        <5> QED BY <1>0, <4>4, <5>1, EmptySeq
      <4> QED BY <3>0, <4>1, <4>2, <4>4, <4>5
    <3>5. CASE LocalReady /\ pipe[r] = <<>>
      BY <3>1, <3>5 DEF LocalReady, WriterAt
    <3> QED BY <1>0, <1>6, <2>2, <3>2, <3>3, <3>4, <3>5, LocalPipe
  <2> QED BY <2>1, <2>2
<1> QED BY <1>5, <1>6 DEF Complete, Awaited

\* Everything below m has been sent, and the object in hand is none of it.
Before(m) == m <= sent /\ (wpc \in {"send", "send remote"} /\ Local # {} => m < sent)

\* What has been sent stays sent, and the object in hand is a new one.
LEMMA BeforeStays ==
  ASSUME IInv, [Next]_vars, NEW m \in Nat, Before(m) PROVE Before(m)'
<1> USE DEF WriterAt, WriterGoto, writerVars
<1>0. sent \in Nat
  BY ShmBroadcastAssumption DEF IInv, TypeOK
<1>1. CASE CommitWrite \/ (SendRemote /\ Local = {})
  <2>1. sent' = sent + 1 /\ m <= sent
    BY <1>1 DEF CommitWrite, SendRemote, Before
  <2>2. m < sent' /\ m <= sent'
    BY ONLY <1>0, <2>1, m \in Nat
  <2> QED BY <2>2 DEF Before
<1>2. CASE Writer \/ WriteTimeout \/ Close \/ UNCHANGED vars
  <2>1. /\ ~CommitWrite /\ ~(SendRemote /\ Local = {}) => sent' = sent
        /\ ~CommitWrite /\ wpc' \in {"send", "send remote"} /\ Local # {} =>
              wpc \in {"send", "send remote"}
    BY <1>2 DEF Writer, WriteTimeout, Close, LocalReady, RemoteReady, Enqueue, AcquireWrite,
       WriteOverflow, WriteBody, ResetFlag, SendOverflow, SendRemote, vars
  <2> QED BY <1>1, <2>1 DEF Before
<1>3. ASSUME NEW q \in Readers, ReaderStep(q) PROVE Before(m)'
  BY <1>3, ReaderFrame DEF Before
<1> QED BY <1>2, <1>3 DEF Next, Fault, Finished, ReaderStep

\* A remote reader's messages are what they were, but for a first one that is taken, last
\* ones that close drops, or a new one; only taking one changes what it has received.
LEMMA RemotePipe ==
  ASSUME IInv, RingInv, [Next]_vars, NEW r \in Remote
  PROVE  \/ pipe'[r] = pipe[r] /\ delivered'[r] = delivered[r]
         \/ /\ pipe[r] # <<>> /\ pipe'[r] = Tail(pipe[r])
            /\ \/ delivered'[r] = delivered[r]
               \/ rpc[r] = "recv" /\ delivered'[r] = Append(delivered[r], Head(pipe[r]))
         \/ /\ \E k \in 0..Len(pipe[r]) : pipe'[r] = SubSeq(pipe[r], 1, k)
            /\ delivered'[r] = delivered[r]
         \/ /\ pipe[r] = <<>> /\ pipe'[r] = Append(pipe[r], READY)
            /\ delivered'[r] = delivered[r]
         \/ /\ SendRemote /\ pipe'[r] = Append(pipe[r], sent')
            /\ delivered'[r] = delivered[r]
<1> USE DEF WriterAt, WriterGoto, ringVars, writerVars, readerVars, ReaderAt, ReaderGoto
<1>0. /\ r \in Readers /\ r \notin Local /\ rpc \in [Readers -> ReaderPlaces]
      /\ pipe \in [Readers -> Seq(Messages)] /\ delivered \in [Readers -> Seq(1..MaxSent)]
      /\ rpc[r] # "mark"
  BY LocalReaders DEF IInv, TypeOK, RingInv, RemoteOffRing
<1>1. CASE RemoteReady
  <2>1. pipe[r] = <<>>
    BY <1>0, <1>1 DEF RemoteReady, IInv, HandshakeState, Handshaken, Greeted
  <2>2. pipe'[r] = pipe[r] \/ pipe'[r] = Append(pipe[r], READY)
    BY <1>0, <1>1 DEF RemoteReady, Published
  <2> QED BY <1>1, <2>1, <2>2 DEF RemoteReady
<1>2. CASE SendRemote
  <2>1. pipe'[r] = pipe[r] \/ pipe'[r] = Append(pipe[r], sent')
    BY <1>0, <1>2 DEF SendRemote, Published
  <2> QED BY <1>2, <2>1 DEF SendRemote
<1>3. CASE LocalReady \/ SendOverflow
  <2>1. pipe'[r] = pipe[r] /\ UNCHANGED delivered
    BY <1>0, <1>3 DEF LocalReady, SendOverflow, Published
  <2> QED BY <2>1
<1>4. CASE Close
  <2>1. PICK kept \in [Readers -> 0..HighWater] :
           /\ \A q \in Readers : kept[q] <= Len(pipe[q])
           /\ pipe' = [q \in Readers |-> SubSeq(pipe[q], 1, kept[q])]
    BY <1>4 DEF Close
  <2>2. kept[r] \in 0..Len(pipe[r])
    <3>1. kept[r] \in Nat /\ kept[r] <= Len(pipe[r]) /\ Len(pipe[r]) \in Nat
      BY <1>0, <2>1
    <3> QED BY <3>1
  <2>3. pipe'[r] = SubSeq(pipe[r], 1, kept[r]) /\ delivered' = delivered
    BY <1>0, <1>4, <2>1 DEF Close
  <2> QED BY <2>2, <2>3
<1>5. CASE Enqueue \/ AcquireWrite \/ WriteOverflow \/ WriteBody \/ ResetFlag \/ CommitWrite
           \/ WriteTimeout \/ UNCHANGED vars
  BY <1>5 DEF Enqueue, AcquireWrite, WriteOverflow, WriteBody, ResetFlag, CommitWrite,
     WriteTimeout, vars
<1>6. ASSUME NEW q \in Readers, ReaderStep(q), q # r
      PROVE  pipe'[r] = pipe[r] /\ delivered'[r] = delivered[r]
  BY <1>0, <1>6 DEF ReaderStep, Reader, Connect, ReceiveReady, Dequeue, LoadFlag, LoadWritten,
     ReadOverflow, ReadBody, MarkRead, Receive, ReadTimeout, RecvTimeout, Return
<1>7. CASE ReceiveReady(r) \/ Receive(r)
  BY <1>0, <1>7 DEF ReceiveReady, Receive, Return
<1>8. ASSUME ReaderStep(r), ~ReceiveReady(r), ~Receive(r)
      PROVE  pipe'[r] = pipe[r] /\ delivered'[r] = delivered[r]
  BY <1>0, <1>8 DEF ReaderStep, Reader, Connect, Dequeue, LoadFlag, LoadWritten,
     ReadOverflow, ReadBody, MarkRead, ReadTimeout, RecvTimeout
<1> QED BY <1>1, <1>2, <1>3, <1>4, <1>5, <1>6, <1>7, <1>8 DEF Next, Writer, Fault, Finished,
           ReaderStep

\* A remote reader gets later objects than it has received, each at most once.
LEMMA StepLater ==
  ASSUME BroadcastInv, DeliveryInv, [Next]_vars, NEW r \in Remote
  PROVE  /\ Later(r)'
         /\ \/ delivered'[r] = delivered[r]
            \/ \E m \in (LastOf(r) + 1)..sent : delivered'[r] = Append(delivered[r], m)
<1>0. /\ r \in Readers /\ pipe[r] \in Seq(Messages) /\ Len(pipe[r]) \in Nat /\ sent \in Nat
      /\ \A i \in 1..Len(pipe[r]) : pipe[r][i] \in Nat
      /\ IInv /\ RingInv /\ pipe'[r] \in Seq(Messages) /\ sent' \in Messages /\ sent' \in Nat
      /\ delivered[r] \in Seq(1..MaxSent) /\ delivered'[r] \in Seq(1..MaxSent)
  <2>1. TypeOK /\ TypeOK' /\ r \in Readers /\ IInv /\ RingInv
    BY LocalReaders, StepTypeOK DEF BroadcastInv, IInv
  <2>2. /\ pipe[r] \in Seq(Messages) /\ pipe'[r] \in Seq(Messages)
        /\ delivered[r] \in Seq(1..MaxSent) /\ delivered'[r] \in Seq(1..MaxSent)
    BY <2>1 DEF TypeOK
  <2>3. sent \in Nat /\ sent' \in Messages /\ sent' \in Nat
    BY <2>1, ShmBroadcastAssumption DEF TypeOK, Messages
  <2>4. \A i \in 1..Len(pipe[r]) : pipe[r][i] \in Nat
    BY <2>2, MessageTypes DEF Messages
  <2> QED BY <2>1, <2>2, <2>3, <2>4
<1>1. Later(r)
  BY DEF DeliveryInv
<1>2. LastOf(r) \in Nat /\ LastOf(r)' \in Nat
  BY <1>0, NewestFacts DEF LastOf
<1>3. /\ LastOf(r) <= sent /\ Before(LastOf(r))
      /\ \A i \in 1..Len(pipe[r]) : pipe[r][i] <= sent /\ Before(pipe[r][i])
  BY <1>1 DEF Later, Before
<1>4. \A n \in Nat : n = LastOf(r) \/ (\E i \in 1..Len(pipe[r]) : n = pipe[r][i]) => Before(n)'
  BY <1>0, <1>3, BeforeStays
<1>5. \A n \in Nat : n = READY \/ (SendRemote /\ n = sent') => Before(n)'
  <2>1. Budget'
    BY <1>0, StepBudget
  <2>2. SendRemote => wpc' = "idle"
    BY DEF SendRemote, WriterGoto
  <2>3. wpc' \in {"send", "send remote"} /\ Local # {} => sent' > 0
    BY <2>1 DEF Budget
  <2>4. sent' \in Nat
    BY <1>0
  <2>5. sent' > 0 <=> 0 < sent'
    BY ONLY <2>4
  <2>6. 0 <= sent' /\ sent' <= sent'
    BY ONLY <2>4
  <2> QED BY <2>2, <2>3, <2>5, <2>6 DEF Before, READY
<1> SUFFICES /\ Increasing(pipe'[r])
             /\ \A i \in 1..Len(pipe'[r]) :
                  /\ pipe'[r][i] = READY \/ LastOf(r)' < pipe'[r][i]
                  /\ \/ pipe'[r][i] = READY
                     \/ \E j \in 1..Len(pipe[r]) : pipe'[r][i] = pipe[r][j]
                     \/ SendRemote /\ pipe'[r][i] = sent'
             /\ LastOf(r)' = LastOf(r) \/ \E j \in 1..Len(pipe[r]) : LastOf(r)' = pipe[r][j]
             /\ \/ delivered'[r] = delivered[r]
                \/ \E m \in (LastOf(r) + 1)..sent : delivered'[r] = Append(delivered[r], m)
  <2> SUFFICES ASSUME Increasing(pipe'[r]),
                      \A i \in 1..Len(pipe'[r]) :
                        /\ pipe'[r][i] = READY \/ LastOf(r)' < pipe'[r][i]
                        /\ \/ pipe'[r][i] = READY
                           \/ \E j \in 1..Len(pipe[r]) : pipe'[r][i] = pipe[r][j]
                           \/ SendRemote /\ pipe'[r][i] = sent',
                      LastOf(r)' = LastOf(r) \/ \E j \in 1..Len(pipe[r]) : LastOf(r)' = pipe[r][j]
               PROVE  Later(r)'
    OBVIOUS
  <2>1. \A n \in Nat : n = LastOf(r)' => Before(n)'
    BY <1>2, <1>4
  <2>2. ASSUME NEW i \in 1..Len(pipe'[r]) PROVE \A n \in Nat : n = pipe'[r][i] => Before(n)'
    BY <1>4, <1>5
  <2>3. \A i \in 1..Len(pipe'[r]) : pipe'[r][i] \in Nat
    BY <1>0, MessageTypes DEF Messages
  <2>4. /\ LastOf(r)' <= sent'
        /\ wpc' \in {"send", "send remote"} /\ Local # {} => LastOf(r)' < sent'
    BY <1>2, <2>1 DEF Before
  <2>5. \A i \in 1..Len(pipe'[r]) :
           /\ pipe'[r][i] <= sent'
           /\ wpc' \in {"send", "send remote"} /\ Local # {} => pipe'[r][i] < sent'
    BY <2>2, <2>3 DEF Before
  <2> QED BY <2>4, <2>5 DEF Later
<1>6. delivered'[r] = delivered[r] => LastOf(r)' = LastOf(r)
  BY DEF LastOf
<1>7. CASE pipe'[r] = pipe[r] /\ delivered'[r] = delivered[r]
  BY <1>1, <1>6, <1>7 DEF Later
<1>8. CASE pipe[r] # <<>> /\ pipe'[r] = Tail(pipe[r])
  <2>1. Increasing(pipe'[r])
    BY <1>0, <1>1, <1>8, IncreasingTail DEF Later
  <2>2. ASSUME NEW i \in 1..Len(pipe'[r])
        PROVE  i + 1 \in 1..Len(pipe[r]) /\ pipe'[r][i] = pipe[r][i + 1] /\ i + 1 > 1
    <3>1. i + 1 \in 1..Len(pipe[r]) /\ pipe'[r][i] = pipe[r][i + 1]
      BY <1>0, <1>8, TailFacts
    <3>2. i \in Nat /\ i > 0
      OBVIOUS
    <3> QED BY <3>1, <3>2
  <2>3. CASE delivered'[r] = delivered[r]
    BY <1>1, <1>6, <2>1, <2>2, <2>3 DEF Later
  <2>4. CASE rpc[r] = "recv" /\ delivered'[r] = Append(delivered[r], Head(pipe[r]))
    <3>1. Head(pipe[r]) = pipe[r][1] /\ 1 \in 1..Len(pipe[r]) /\ pipe[r][1] # READY
      <4>1. Head(pipe[r]) = pipe[r][1] /\ Len(pipe[r]) \in Nat \ {0}
        BY <1>0, <1>8, TailFacts
      <4>2. 1 \in 1..Len(pipe[r])
        BY <4>1
      <4> QED BY <1>0, <2>4, <4>1, <4>2 DEF IInv, HandshakeState, Handshaken
    <3>2. pipe[r][1] \in 1..MaxSent
      <4>1. pipe[r][1] \in Messages
        BY <1>0, <3>1, ElementOfSeq
      <4> QED BY <3>1, <4>1, MessageTypes
    <3>3. LastOf(r)' = pipe[r][1]
      BY <1>0, <2>4, <3>1, <3>2, NewestFacts DEF LastOf
    <3>4. LastOf(r) < pipe[r][1] /\ pipe[r][1] <= sent /\ pipe[r][1] \in Nat
      BY <1>0, <1>1, <3>1 DEF Later
    <3>5. pipe[r][1] \in (LastOf(r) + 1)..sent
      BY ONLY <1>0, <1>2, <3>4
    <3>6. ASSUME NEW i \in 1..Len(pipe'[r]) PROVE LastOf(r)' < pipe'[r][i]
      <4>1. pipe[r][1] + ((i + 1) - 1) <= pipe[r][i + 1]
        BY <1>1, <2>2, <3>1 DEF Later, Increasing
      <4>2. pipe[r][i + 1] \in Nat /\ i \in Nat /\ i > 0
        BY <1>0, <2>2
      <4>3. pipe[r][1] < pipe[r][i + 1]
        BY ONLY <3>4, <4>1, <4>2
      <4> QED BY <2>2, <3>3, <4>3
    <3> QED BY <2>1, <2>2, <2>4, <3>1, <3>3, <3>5, <3>6
  <2>5. pipe[r] # pipe'[r]
    <3>1. Len(pipe'[r]) = Len(pipe[r]) - 1
      BY <1>0, <1>8, TailFacts
    <3>2. Len(pipe'[r]) # Len(pipe[r])
      BY ONLY <1>0, <3>1
    <3> QED BY <3>2
  <2> QED BY <1>0, <1>8, <2>3, <2>4, <2>5, RemotePipe
<1>9. CASE (\E k \in 0..Len(pipe[r]) : pipe'[r] = SubSeq(pipe[r], 1, k)) /\ delivered'[r] = delivered[r]
  <2>1. PICK k \in 0..Len(pipe[r]) : pipe'[r] = SubSeq(pipe[r], 1, k)
    BY <1>9
  <2>2. /\ Increasing(pipe'[r]) /\ Len(pipe'[r]) = k
        /\ \A i \in 1..k : i \in 1..Len(pipe[r]) /\ pipe'[r][i] = pipe[r][i]
    BY <1>0, <1>1, <2>1, IncreasingPrefix DEF Later
  <2> QED BY <1>1, <1>6, <1>9, <2>2 DEF Later
<1>10. CASE /\ pipe[r] = <<>> /\ pipe'[r] = Append(pipe[r], READY)
            /\ delivered'[r] = delivered[r]
  <2>1. Len(pipe'[r]) = 1 /\ pipe'[r][1] = READY
    <3>1. Len(pipe[r]) = 0
      BY <1>10
    <3> QED BY <1>0, <1>10, <3>1, MessageTypes, AppendProperties
  <2>2. /\ \A i \in 1..Len(pipe'[r]) : pipe'[r][i] = READY
        /\ \A i, j \in 1..Len(pipe'[r]) : ~(i < j)
    BY ONLY <2>1
  <2> QED BY <1>6, <1>10, <2>2 DEF Increasing
<1>11. CASE SendRemote /\ pipe'[r] = Append(pipe[r], sent') /\ delivered'[r] = delivered[r]
  <2>1. \A n \in Nat : Before(n) => n < sent'
    <3>1. CASE Local = {}
      <4>1. sent' = sent + 1
        BY <1>11, <3>1 DEF SendRemote
      <4>2. \A n \in Nat : n <= sent => n < sent'
        BY ONLY <1>0, <4>1
      <4> QED BY <4>2 DEF Before
    <3>2. CASE Local # {}
      <4>1. sent' = sent /\ wpc = "send remote"
        BY <1>11, <3>2 DEF SendRemote, WriterAt
      <4> QED BY <3>2, <4>1 DEF Before
    <3> QED BY <3>1, <3>2
  <2>2. LastOf(r) < sent' /\ \A i \in 1..Len(pipe[r]) : pipe[r][i] < sent'
    BY <1>0, <1>2, <1>3, <2>1
  <2>3. Increasing(pipe'[r])
    BY <1>0, <1>1, <1>11, <2>2, IncreasingAppend DEF Later
  <2>4. /\ Len(pipe'[r]) = Len(pipe[r]) + 1 /\ pipe'[r][Len(pipe[r]) + 1] = sent'
        /\ \A i \in 1..Len(pipe[r]) : pipe'[r][i] = pipe[r][i]
    BY <1>0, <1>11, AppendProperties
  <2>5. \A i \in 1..Len(pipe'[r]) : i \in 1..Len(pipe[r]) \/ i = Len(pipe[r]) + 1
    BY ONLY <1>0, <2>4
  <2> QED BY <1>1, <1>6, <1>11, <2>2, <2>3, <2>4, <2>5 DEF Later
<1> QED BY <1>7, <1>8, <1>9, <1>10, <1>11, RemotePipe, <1>0

-----------------------------------------------------------------------------
\* The sockets of both kinds of readers.
DeliveredInv == BroadcastInv /\ DeliveryInv

\* Initially nothing is sent, announced or delivered.
LEMMA InitDelivered == Init => DeliveryInv
<1> SUFFICES ASSUME Init, NEW r \in Readers PROVE Complete(r) /\ InOrder(r) /\ Later(r)
  BY LocalReaders DEF DeliveryInv
<1>1. pipe[r] = <<>> /\ delivered[r] = <<>> /\ rpc[r] = "connect" /\ wpc = "local ready"
  BY DEF Init
<1>2. Len(pipe[r]) = 0 /\ Len(delivered[r]) = 0
  BY <1>1
<1>3. (\A i \in 1..Len(pipe[r]) : FALSE) /\ (\A i \in 1..Len(delivered[r]) : FALSE)
  BY ONLY <1>2
<1>4. sent = 0
  BY DEF Init
<1>5. \A a \in Nat : ~(a < sent)
  BY ONLY <1>4
<1>6. LastOf(r) = 0
  BY <1>1 DEF LastOf, Newest
<1>7. LastOf(r) <= sent
  BY ONLY <1>4, <1>6
<1>8. Complete(r)
  BY ONLY <1>1, <1>5 DEF Complete
<1>9. Later(r)
  BY ONLY <1>1, <1>3, <1>7 DEF Later, Increasing
<1> QED BY <1>3, <1>8, <1>9 DEF InOrder

\* Every step of the queue is a step of Broadcast, or one that it does not see.
LEMMA StepBroadcast ==
  ASSUME DeliveredInv, SocketsReliable, [Next]_vars
  PROVE  [Abstract!Next]_<<sent, delivered>>
<1> USE DEF WriterAt, WriterGoto, ReaderAt, ReaderGoto, ringVars, writerVars, readerVars
<1>0. /\ delivered \in [Readers -> Seq(1..MaxSent)] /\ sent \in Nat /\ TypeOK
      /\ BroadcastInv /\ DeliveryInv /\ rpc \in [Readers -> ReaderPlaces]
  BY ShmBroadcastAssumption DEF DeliveredInv, BroadcastInv, IInv, TypeOK
<1>1. CASE Writer \/ WriteTimeout \/ Close \/ UNCHANGED vars
  <2>1. UNCHANGED delivered
    BY <1>1, WriterFrame
  <2>2. sent' = sent \/ sent' = sent + 1
    BY <1>1 DEF Writer, WriteTimeout, Close, LocalReady, RemoteReady, Enqueue, AcquireWrite,
     WriteOverflow, WriteBody, ResetFlag, CommitWrite, SendOverflow, SendRemote, vars
  <2> QED BY <2>1, <2>2 DEF Abstract!Next, Abstract!Send
<1>2. ASSUME NEW r \in Readers, ReaderStep(r) PROVE [Abstract!Next]_<<sent, delivered>>
  <2>1. UNCHANGED sent
    BY <1>2, ReaderFrame
  <2>2. delivered' = [delivered EXCEPT ![r] = delivered'[r]]
    <3>1. delivered' = delivered \/ \E m : delivered' = [delivered EXCEPT ![r] = Append(@, m)]
      BY <1>2 DEF ReaderStep, Reader, Connect, ReceiveReady, Dequeue, LoadFlag, LoadWritten,
         ReadOverflow, ReadBody, MarkRead, Receive, ReadTimeout, RecvTimeout, Return
    <3> QED BY <1>0, <3>1
  <2>3. CASE delivered'[r] = delivered[r]
    BY <1>0, <2>1, <2>2, <2>3
  <2>4. CASE delivered'[r] # delivered[r]
    <3>1. \E m \in (LastOf(r) + 1)..sent :
             /\ r \in Local => m = LastOf(r) + 1
             /\ delivered'[r] = Append(delivered[r], m)
      <4>1. CASE r \in Local
        <5>1. /\ delivered'[r] = Append(delivered[r], Len(delivered[r]) + 1)
              /\ Len(delivered[r]) + 1 <= sent
          BY <1>0, <2>4, <4>1, StepInOrder
        <5>2. LastOf(r) = Len(delivered[r]) /\ Len(delivered[r]) \in Nat
          BY <1>0, <4>1, LocalLast DEF DeliveryInv
        <5>3. LastOf(r) + 1 \in (LastOf(r) + 1)..sent
          BY ONLY <1>0, <5>1, <5>2
        <5> QED BY <5>1, <5>2, <5>3
      <4>2. CASE r \notin Local
        BY <1>0, <2>4, <4>2, LocalReaders, StepLater
      <4> QED BY <4>1, <4>2
    <3>2. LastOf(r) = Abstract!LastOf(r)
      BY DEF LastOf, Newest, Abstract!LastOf
    <3>3. Abstract!Deliver(r)
      BY <1>0, <2>1, <2>2, <3>1, <3>2 DEF Abstract!Deliver
    <3> QED BY <3>3 DEF Abstract!Next
  <2> QED BY <2>3, <2>4
<1> QED BY <1>1, <1>2 DEF Next, Fault, Finished, ReaderStep

\* The queue keeps the promise of a broadcast: every local reader gets all the objects
\* in the order they were sent, a remote one never an earlier or a repeated object; for
\* sockets that can hold what the ring announces (HighWater of the code is 1000).
THEOREM BroadcastImplemented ==
  SocketsReliable /\ RoomForRing => (Spec => ImplementsBroadcast)
<1>1. Init => DeliveredInv
  <2> SUFFICES ASSUME Init PROVE DeliveredInv
    OBVIOUS
  <2>1. BroadcastInv
    BY InitBroadcast
  <2> QED BY <2>1, InitDelivered DEF DeliveredInv
<1>2. ASSUME SocketsReliable, RoomForRing, DeliveredInv, [Next]_vars PROVE DeliveredInv'
  <2>1. BroadcastInv'
    BY <1>2, StepBroadcastInv DEF DeliveredInv
  <2>2. \A r \in Local : Complete(r)' /\ InOrder(r)'
    BY <1>2, StepComplete, StepInOrder DEF DeliveredInv
  <2>3. \A r \in Remote : Later(r)'
    BY <1>2, StepLater DEF DeliveredInv
  <2> QED BY <2>1, <2>2, <2>3 DEF DeliveredInv, DeliveryInv
<1>3. Init => Abstract!Init
  BY DEF Init, Abstract!Init
<1>4. ASSUME SocketsReliable, DeliveredInv, [Next]_vars
      PROVE  [Abstract!Next]_<<sent, delivered>>
  BY <1>4, StepBroadcast
<1>5. ASSUME SocketsReliable, RoomForRing PROVE Spec => ImplementsBroadcast
  BY <1>1, <1>2, <1>3, <1>4, <1>5, PTL DEF Spec, ImplementsBroadcast, Abstract!Spec
<1> QED BY <1>5
=============================================================================
