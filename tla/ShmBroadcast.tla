--------------------------- MODULE ShmBroadcast ---------------------------
(***************************************************************************)
(* aiter/dist/shm_broadcast.py: one writer broadcasts objects to the local *)
(* readers, through a ring of shared chunks with one written flag and one  *)
(* read flag per reader and, for objects too large for a chunk, a socket   *)
(* next to it; and to the remote readers, through a socket alone.          *)
(*                                                                         *)
(* Each load and store of shared memory that another process can tell from *)
(* its neighbours is a step; a process's stores become visible in program  *)
(* order (x86).  Objects are numbered in the order they are sent.  A killed*)
(* process is one that takes no further step: no code reacts to it.        *)
(***************************************************************************)
EXTENDS Naturals, Sequences, FiniteSets

CONSTANTS NReader,     \* n_reader
          NLocal,      \* n_local_reader: readers 1..NLocal share memory
          Chunks,      \* max_chunks
          HighWater,   \* messages a socket keeps for one subscriber (1000)
          MaxSent,     \* bound: how many objects the group broadcasts
          Faults       \* what may go wrong in this instance, see FaultNames

\* writeTimeout: enqueue gives up on a full ring; readTimeout: dequeue gives up on
\* the ring, or a remote reader's on its socket; unpickle: pickle.loads raises there;
\* overflowTimeout and overflowUnpickle: the same for a local reader's socket;
\* close: the writer closes its sockets after its last object.
FaultNames == {"writeTimeout", "readTimeout", "unpickle", "overflowTimeout",
               "overflowUnpickle", "close"}

ASSUME ShmBroadcastAssumption ==
  /\ NReader \in Nat \ {0}
  /\ NLocal \in 0..NReader
  /\ Chunks \in Nat \ {0}
  /\ HighWater \in Nat \ {0}
  /\ MaxSent \in Nat
  /\ Faults \subseteq FaultNames

\* create_from_process_group: the readers on the writer's node attach to its ring.
Readers == 1..NReader
Local == 1..NLocal
Remote == Readers \ Local
Ring == 0..(Chunks - 1)

VARIABLES
  written,    \* per chunk, metadata byte 0
  read,       \* per chunk and local reader, the other metadata bytes
  overflow,   \* per chunk, data byte 0
  body,       \* per chunk, the object in the other data bytes
  pipe,       \* per reader, what its socket has not handed out yet
  subscribed, \* the readers whose subscription has reached the writer
  wpc,        \* where the writer is
  widx,       \* its current_idx
  large,      \* whether its object overflows a chunk
  toReset,    \* the reader flag it resets next
  sent,       \* history: how many objects were sent
  rpc,        \* where each reader is
  ridx,       \* its current_idx
  seen,       \* the object it has read and not returned yet
  delivered   \* history: what its dequeue calls returned

ringVars == <<written, read, overflow, body>>
writerVars == <<wpc, widx, large, toReset, sent>>
readerVars == <<rpc, ridx, seen, delivered>>
vars == <<written, read, overflow, body, pipe, subscribed,
          wpc, widx, large, toReset, sent, rpc, ridx, seen, delivered>>

READY == 0        \* the handshake message, no object
Messages == 0..MaxSent

WriterPlaces == {"local ready", "remote ready", "idle", "full", "overflow", "body",
                 "reset", "commit", "send", "send remote", "closed"}
ReaderPlaces == {"connect", "ready", "idle", "flag", "written", "overflow", "body",
                 "mark", "recv"}

TypeOK ==
  /\ written \in [Ring -> BOOLEAN]
  /\ read \in [Ring -> [Local -> BOOLEAN]]
  /\ overflow \in [Ring -> BOOLEAN]
  /\ body \in [Ring -> Messages]
  /\ pipe \in [Readers -> Seq(Messages)]
  /\ \A r \in Readers : Len(pipe[r]) <= HighWater
  /\ subscribed \subseteq Readers
  /\ wpc \in WriterPlaces /\ widx \in Ring /\ large \in BOOLEAN
  /\ toReset \in 1..(NLocal + 1) /\ sent \in 0..MaxSent
  /\ rpc \in [Readers -> ReaderPlaces] /\ ridx \in [Readers -> Ring]
  /\ seen \in [Readers -> Messages] /\ delivered \in [Readers -> Seq(1..MaxSent)]

Init ==
  /\ written = [c \in Ring |-> FALSE]
  /\ read = [c \in Ring |-> [r \in Local |-> FALSE]]
  /\ overflow = [c \in Ring |-> FALSE]
  /\ body = [c \in Ring |-> 0]
  /\ pipe = [r \in Readers |-> <<>>]
  /\ subscribed = {}
  /\ wpc = "local ready"
  /\ widx = 0
  /\ large = FALSE
  /\ toReset = 1
  /\ sent = 0
  /\ rpc = [r \in Readers |-> "connect"]
  /\ ridx = [r \in Readers |-> 0]
  /\ seen = [r \in Readers |-> 0]
  /\ delivered = [r \in Readers |-> <<>>]

Fallible(fault) == fault \in Faults

\* Mutant: the ring does not wrap around.
FollowingUnwrapped(idx) == idx + 1

Following(idx) == (idx + 1) % Chunks
WriterAt(place) == wpc = place
WriterGoto(place) == wpc' = place
ReaderAt(r, place) == rpc[r] = place
ReaderGoto(r, place) == rpc' = [rpc EXCEPT ![r] = place]

-----------------------------------------------------------------------------
(* The sockets: XPUB drops what a slow subscriber has no room for *)

Published(S, m) ==
  [r \in Readers |->
     IF r \in S \cap subscribed /\ Len(pipe[r]) < HighWater
     THEN Append(pipe[r], m) ELSE pipe[r]]

-----------------------------------------------------------------------------
(* create_from_handle and wait_until_ready *)

\* A reader subscribes when it is created; the writer sees it later than that, and
\* never before the reader is attached to the ring.
Connect(r) ==
  /\ ReaderAt(r, "connect")
  /\ subscribed' = subscribed \cup {r}
  /\ ReaderGoto(r, "ready")
  /\ UNCHANGED <<ringVars, pipe, writerVars, ridx, seen, delivered>>

\* Mutant: READY is sent without waiting for the subscriptions.
NobodyAwaited(S) == TRUE

\* One subscription is received for each reader that is expected.
AllSubscribed(S) == S \subseteq subscribed

LocalReady ==
  /\ WriterAt("local ready") /\ AllSubscribed(Local)
  /\ pipe' = Published(Local, READY)
  /\ WriterGoto("remote ready")
  /\ UNCHANGED <<ringVars, subscribed, widx, large, toReset, sent, readerVars>>

RemoteReady ==
  /\ WriterAt("remote ready") /\ AllSubscribed(Remote)
  /\ pipe' = Published(Remote, READY)
  /\ WriterGoto("idle")
  /\ UNCHANGED <<ringVars, subscribed, widx, large, toReset, sent, readerVars>>

\* assert recv == b"READY"
ReceiveReady(r) ==
  /\ ReaderAt(r, "ready") /\ pipe[r] # <<>> /\ Head(pipe[r]) = READY
  /\ pipe' = [pipe EXCEPT ![r] = Tail(@)]
  /\ ReaderGoto(r, "idle")
  /\ UNCHANGED <<ringVars, subscribed, writerVars, ridx, seen, delivered>>

-----------------------------------------------------------------------------
(* The writer: enqueue and acquire_write *)

\* broadcast_object of the writer, with a pickled object of either size.
Enqueue ==
  /\ WriterAt("idle") /\ sent < MaxSent
  /\ large' \in BOOLEAN
  /\ WriterGoto(IF Local = {} THEN "send remote" ELSE "full")
  /\ UNCHANGED <<ringVars, pipe, subscribed, widx, toReset, sent, readerVars>>

\* Mutant: one reader is enough for a chunk to be written again.
ReadBySomebody(c) == \E r \in Local : read[c][r]

\* read_count = n_reader.  The flags are summed before the written flag is loaded,
\* and all of them stay as they are once this holds.
ReadByAll(c) == \A r \in Local : read[c][r]

Writable(c) == written[c] => ReadByAll(c)

\* A chunk that may be written is marked as not written.
AcquireWrite ==
  /\ WriterAt("full") /\ Writable(widx)
  /\ written' = [written EXCEPT ![widx] = FALSE]
  /\ WriterGoto("overflow")
  /\ UNCHANGED <<read, overflow, body, pipe, subscribed, widx, large, toReset, sent,
                 readerVars>>

\* Nothing was written: neither the local nor the remote readers get the object.
WriteTimeout ==
  /\ Fallible("writeTimeout") /\ WriterAt("full") /\ ~Writable(widx)
  /\ WriterGoto("idle")
  /\ UNCHANGED <<ringVars, pipe, subscribed, widx, large, toReset, sent, readerVars>>

WriteOverflow ==
  /\ WriterAt("overflow")
  /\ overflow' = [overflow EXCEPT ![widx] = large]
  /\ WriterGoto(IF large THEN "reset" ELSE "body")
  /\ UNCHANGED <<written, read, body, pipe, subscribed, widx, large, toReset, sent,
                 readerVars>>

WriteBody ==
  /\ WriterAt("body")
  /\ body' = [body EXCEPT ![widx] = sent + 1]
  /\ WriterGoto("reset")
  /\ UNCHANGED <<written, read, overflow, pipe, subscribed, widx, large, toReset, sent,
                 readerVars>>

\* The reader flags are reset one after the other ...
ResetFlag ==
  /\ WriterAt("reset")
  /\ read' = [read EXCEPT ![widx][toReset] = FALSE]
  /\ IF toReset < NLocal
     THEN toReset' = toReset + 1 /\ UNCHANGED wpc
     ELSE toReset' = 1 /\ WriterGoto("commit")
  /\ UNCHANGED <<written, overflow, body, pipe, subscribed, widx, large, sent,
                 readerVars>>

\* ... then the chunk is marked as written.
CommitWrite ==
  /\ WriterAt("commit")
  /\ written' = [written EXCEPT ![widx] = TRUE]
  /\ sent' = sent + 1
  /\ widx' = Following(widx)
  /\ WriterGoto(IF large THEN "send" ELSE "send remote")
  /\ UNCHANGED <<read, overflow, body, pipe, subscribed, large, toReset, readerVars>>

\* What did not fit goes to the local readers' sockets.
SendOverflow ==
  /\ WriterAt("send")
  /\ pipe' = Published(Local, sent)
  /\ WriterGoto("send remote")
  /\ UNCHANGED <<ringVars, subscribed, widx, large, toReset, sent, readerVars>>

\* Remote readers get every object from their sockets.
SendRemote ==
  /\ WriterAt("send remote")
  /\ sent' = IF Local = {} THEN sent + 1 ELSE sent
  /\ pipe' = Published(Remote, sent')
  /\ WriterGoto("idle")
  /\ UNCHANGED <<ringVars, subscribed, widx, large, toReset, readerVars>>

\* close: linger=0 drops what has not reached the readers yet.  The ring stays
\* mapped by those who have attached to it.
Close ==
  /\ Fallible("close") /\ WriterAt("idle") /\ sent = MaxSent
  /\ \E kept \in [Readers -> 0..HighWater] :
       /\ \A r \in Readers : kept[r] <= Len(pipe[r])
       /\ pipe' = [r \in Readers |-> SubSeq(pipe[r], 1, kept[r])]
  /\ WriterGoto("closed")
  /\ UNCHANGED <<ringVars, subscribed, widx, large, toReset, sent, readerVars>>

-----------------------------------------------------------------------------
(* The readers: dequeue and acquire_read *)

\* broadcast_object is collective: no reader calls it more often than the writer.
Dequeue(r) ==
  /\ ReaderAt(r, "idle") /\ Len(delivered[r]) < MaxSent
  /\ ReaderGoto(r, IF r \in Local THEN "flag" ELSE "recv")
  /\ UNCHANGED <<ringVars, pipe, subscribed, writerVars, ridx, seen, delivered>>

\* The reader's own flag is loaded first, then the written flag; it tries again
\* until the chunk is written and not read by this reader.
LoadFlag(r) ==
  /\ ReaderAt(r, "flag") /\ ~read[ridx[r]][r]
  /\ ReaderGoto(r, "written")
  /\ UNCHANGED <<ringVars, pipe, subscribed, writerVars, ridx, seen, delivered>>

\* Mutant: the chunk is marked as read when it is found, before it is read.
MarkWhenFound(r) ==
  /\ ReaderAt(r, "written")
  /\ read' = [read EXCEPT ![ridx[r]][r] = written[ridx[r]]]
  /\ ReaderGoto(r, IF written[ridx[r]] THEN "overflow" ELSE "flag")
  /\ UNCHANGED <<written, overflow, body, pipe, subscribed, writerVars, ridx, seen,
                 delivered>>

LoadWritten(r) ==
  /\ ReaderAt(r, "written")
  /\ ReaderGoto(r, IF written[ridx[r]] THEN "overflow" ELSE "flag")
  /\ UNCHANGED <<ringVars, pipe, subscribed, writerVars, ridx, seen, delivered>>

\* The time, or cancel, is looked at when the chunk is not ready.
ReadTimeout(r) ==
  /\ Fallible("readTimeout")
  /\ \/ ReaderAt(r, "flag") /\ read[ridx[r]][r]
     \/ ReaderAt(r, "written") /\ ~written[ridx[r]]
  /\ ReaderGoto(r, "idle")
  /\ UNCHANGED <<ringVars, pipe, subscribed, writerVars, ridx, seen, delivered>>

ReadOverflow(r) ==
  /\ ReaderAt(r, "overflow")
  /\ seen' = [seen EXCEPT ![r] = 0]
  /\ ReaderGoto(r, IF overflow[ridx[r]] THEN "mark" ELSE "body")
  /\ UNCHANGED <<ringVars, pipe, subscribed, writerVars, ridx, delivered>>

\* An object that cannot be unpickled leaves the chunk unread.
ReadBody(r) ==
  /\ ReaderAt(r, "body")
  /\ \/ seen' = [seen EXCEPT ![r] = body[ridx[r]]] /\ ReaderGoto(r, "mark")
     \/ Fallible("unpickle") /\ ReaderGoto(r, "idle") /\ UNCHANGED seen
  /\ UNCHANGED <<ringVars, pipe, subscribed, writerVars, ridx, delivered>>

Return(r, m) == delivered' = [delivered EXCEPT ![r] = Append(@, m)]

\* The chunk is marked as read; dequeue returns the object, or goes to the socket
\* for one that overflowed.
MarkRead(r) ==
  /\ ReaderAt(r, "mark")
  /\ read' = [read EXCEPT ![ridx[r]][r] = TRUE]
  /\ ridx' = [ridx EXCEPT ![r] = Following(@)]
  /\ IF seen[r] = 0 THEN ReaderGoto(r, "recv") /\ UNCHANGED delivered
                    ELSE ReaderGoto(r, "idle") /\ Return(r, seen[r])
  /\ UNCHANGED <<written, overflow, body, pipe, subscribed, writerVars, seen>>

\* An object that cannot be unpickled has been taken from the socket all the same.
Receive(r) ==
  /\ ReaderAt(r, "recv") /\ pipe[r] # <<>>
  /\ pipe' = [pipe EXCEPT ![r] = Tail(@)]
  /\ \/ Return(r, Head(pipe[r]))
     \/ /\ Fallible(IF r \in Local THEN "overflowUnpickle" ELSE "unpickle")
        /\ UNCHANGED delivered
  /\ ReaderGoto(r, "idle")
  /\ UNCHANGED <<ringVars, subscribed, writerVars, ridx, seen>>

\* The chunk that announced the object stays marked as read.
RecvTimeout(r) ==
  /\ Fallible(IF r \in Local THEN "overflowTimeout" ELSE "readTimeout")
  /\ ReaderAt(r, "recv") /\ pipe[r] = <<>>
  /\ ReaderGoto(r, "idle")
  /\ UNCHANGED <<ringVars, pipe, subscribed, writerVars, ridx, seen, delivered>>

-----------------------------------------------------------------------------
AllDone == /\ wpc \in {"idle", "closed"} /\ sent = MaxSent
           /\ \A r \in Readers : ReaderAt(r, "idle") /\ Len(delivered[r]) = MaxSent

\* The group has broadcast all it wanted to.
Finished == AllDone /\ UNCHANGED vars

Writer == \/ LocalReady \/ RemoteReady \/ Enqueue \/ AcquireWrite \/ WriteOverflow
          \/ WriteBody \/ ResetFlag \/ CommitWrite \/ SendOverflow \/ SendRemote

Reader(r) == \/ Connect(r) \/ ReceiveReady(r) \/ Dequeue(r) \/ LoadFlag(r)
             \/ LoadWritten(r) \/ ReadOverflow(r) \/ ReadBody(r) \/ MarkRead(r)
             \/ Receive(r)

Fault == \/ WriteTimeout \/ Close
         \/ \E r \in Readers : ReadTimeout(r) \/ RecvTimeout(r)

Next == Writer \/ (\E r \in Readers : Reader(r)) \/ Fault \/ Finished

Spec == Init /\ [][Next]_vars

\* broadcast_object is a collective call: each process goes on making its calls, and
\* inside a call it spins or blocks on the socket until it can take its next step.
FairSpec == Spec /\ WF_vars(Writer) /\ \A r \in Readers : WF_vars(Reader(r))

-----------------------------------------------------------------------------
(* Properties *)

\* While the writer fills a chunk no reader reads that chunk, so no object is torn
\* (acquire_write waits for the flags of all readers).
WriterAlone ==
  wpc \in {"overflow", "body", "reset", "commit"} =>
    \A r \in Local : rpc[r] \in {"overflow", "body", "mark"} => ridx[r] # widx

\* A reader never takes an object for the handshake, so its assertion holds and it
\* has not missed an object: the writer publishes nothing before it has seen all
\* subscriptions (wait_until_ready).
HandshakeFirst ==
  \A r \in Readers :
    ReaderAt(r, "ready") /\ pipe[r] # <<>> => Head(pipe[r]) = READY

\* The ring throttles the writer also for objects that overflow: a local socket
\* never holds more than one of them per chunk and one that is being received, so
\* the socket's limit cannot drop one (enqueue, dequeue).
OverflowBounded == \A r \in Local : Len(pipe[r]) <= Chunks + 1

\* Each dequeue returns the next object, the same for all local readers, whatever
\* times out in the ring or cannot be unpickled; remote readers get them in order.
Abstract == INSTANCE Broadcast WITH Strict <- Local
ImplementsBroadcast == Abstract!Spec

\* Every collective broadcast returns in every process, and none waits for ever for
\* another one (broadcast_object, wait_until_ready).
EveryBroadcastReturns == <>AllDone
=============================================================================
