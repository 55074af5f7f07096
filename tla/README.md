# aiter: a verification project

aiter is a library of AI operators for AMD GPUs. Most of its 8157 files are
kernels, their Python wrappers and tuning tables. What can go wrong without any
number being wrong lies elsewhere: a just-in-time compiler that many processes
run at once on one directory, a broadcast queue in shared memory under every
process group, a pool of measuring processes that GPU faults kill, and barriers
that GPUs of different ranks spin on. This project models those parts in TLA+,
model-checks them with TLC on small instances, and proves the most important
properties with TLAPS for all values of the constants.

`PROJECT.json` lists components, runs, mutants, hazards, findings and theorems;
its `map` says for each definition which lines of `src/` it models. Paths below
are relative to `src/`.

## 1. Inventory

| Component | State | Operations | Hard behaviour | What makes it correct |
|---|---|---|---|---|
| **Build lock** `aiter/jit/utils/file_baton.py`, `mp_lock` in `aiter/jit/core.py` | a lock file with a pid/host stamp and an mtime, a `.steal` file | `try_acquire`, `wait`, `release`, `_is_stale`, `_try_break_stale`, `mp_lock` | processes killed at any system call, several waiters breaking one lock, shared file systems, age rules | one builder at a time; a live builder's file stays; no waiter hangs; a skipped build was done |
| **JIT source cache** `aiter/jit/utils/jit_cache.py` | `blob.staging` with its two markers, `blob`, `.blob-backup-*` | staging, resetting, committing, publishing, rolling back, recovering, cleaning up | crash between any two renames, half-removed directories, failed roll-backs, overlapping builders | the published sources are one generation and are never lost; an interrupted build never stops the next |
| **Build transaction** `build_module` in `aiter/jit/core.py`, kid receipts in `jit_cache.py` | the linked binary, the installed binary, sidecar, receipt | clear, generate, compile, install, certify, publish | a lost lock during a compilation of minutes; three renames that are not one | the installed binary is of one generation; a receipt certifies nothing else |
| **Broadcast queue** `aiter/dist/shm_broadcast.py` | a ring of chunks with a written flag and one read flag per reader, sockets, indices kept by each process | handshake, `enqueue`, `dequeue`, `close` | lock-free polling of flags, a second channel for large objects, time-outs, drops at the high-water mark | every reader gets every object once and in order; every collective call returns |
| **Operator loading** `compile_ops`, `get_module`, `build_ctypes_module` | loaded modules, `rebuilded_list`, `AITER_REBUILD` | import, else build, then import | missing or foreign-architecture binary, a rebuild asked for once per process | a process calls a binary built after its request |
| **Opus kernel sets** `csrc/opus_gemm/opus_gemm_tune.py` | receipt, sidecar, environment | `_ensure_kids_compiled` | a peer's build for other kernels, a failed one, children inheriting the environment | it returns only when all kernels it needs are in the binary |
| **Tuning pool** `aiter/utility/mp_tuner.py` | pool, start stamps, pids, pending results | submit, poll, time out, restart, collect | workers killed before or after stamping, replacements unknown to the GPU map, late results | one result per task, from the right GPU, and an end |
| **Worker budget** `aiter_worker_limits.py` | cached memory readings, warning state | ceilings, splits, hysteresis | concurrent callers, zero and one worker | the shares add up to at most the budget, none is zero |
| **Capture agreement** `aiter/dist/device_communicators/custom_all_reduce.py` | a store, a sequence number per rank | vote, count, exchange handles, register | one rank fails its capture, another goes on | ranks take the same path and pair the same buffers |
| **Signal barriers** `csrc/include/custom_all_reduce.cuh` | per block: a counter and the start/end slots of each rank | `start_sync`, `end_sync` | a fast rank one barrier ahead, 32-bit counters | nobody leaves before all have entered |
| **Kernels that share a scratch** the same file | the scratch behind each rank's `Signal`, an epoch per LL kernel | one-stage, two-stage, fused, write-mode, LL and LL128 all-reduce | the next call of a fast rank reaches the scratch a slow one still reads | every output is the sum of that call's inputs |
| **Lamport kernels** the same file | three inboxes per block, a round counter | push, poll, re-arm, one-shot and two-shot | no barrier: a sentinel tells data from emptiness, buffers take turns | no data is wiped, overwritten or read twice, and no rank spins for ever |
| **Groups and transports** `aiter/dist/parallel_state.py`, `device_communicators/` | groups, handles | set-up, dispatch | a failing source rank in `in_the_same_node_as` | no rank waits for one that has given up |
| **Tables, tuners, AOT, kernels** | CSV files, GPU memory | lookup, merge, numerical code | data, floating point | outside a model checker's reach |

**How they interact.** An operator call (`compile_ops`) that finds no binary calls
`build_module`, which runs its `MainFunc` under `mp_lock`, that is, under a
`FileBaton`. `MainFunc` stages generated code in the source cache, compiles from
it, installs the binary, certifies it with a receipt and publishes the sources.
`_ensure_kids_compiled` wraps such a build in a second baton and believes the
receipt, not the lock. Tuners call it and then measure in `mp_tuner`'s pool. Config
merging and third-party checkouts use `mp_lock` alone. At run time each process group
broadcasts its metadata through a `MessageQueue`, and the kernels of its collectives
meet at signal barriers whose buffers the capture agreement has exchanged.

## 2. The modules

| Module | Models | Built on |
|---|---|---|
| `Baton` | what a crash-proof build lock promises: take, give, die inside, break a dead one's | |
| `FileBaton` | the lock file, its stamp, `.steal`, and `mp_lock`, one system call per action | implements `Baton` |
| `FileBatonProofs` | its inductive invariant and six theorems | `FileBaton` |
| `BlobCache` | the source cache, one directory operation per action | |
| `JitBuild` | `MainFunc`: clear, generate, compile, install, certify, publish | extends `BlobCache` |
| `JitBuildProofs` | types; what the installed binary and its receipt promise while the lock holds during code generation | `JitBuild` |
| `JitBuildLockProofs` | snapshots and survivors while the lock is never lost | `JitBuildProofs` |
| `Broadcast` | a broadcast: in order, no duplicates, no gaps for strict readers | |
| `ShmBroadcast` | the ring, the sockets, the handshake; one access to shared memory per action | implements `Broadcast` |
| `ShmBroadcastProofs` | its inductive invariants, five properties and the refinement among them | `ShmBroadcast` |
| `AllReduce` | what a sequence of all-reduces promises to the ranks | |
| `Lamport` | the barrier-free kernels, one block on every rank | implements `AllReduce` |
| `LamportProofs` | their inductive invariant, data kept, turns taken, and the refinement | `Lamport` |
| `SignalBarrier` | `start_sync` and `end_sync` | |
| `CustomAllReduce` | the kernels that share a scratch, in sequences of calls | extends `SignalBarrier`, implements `AllReduce` |
| `CustomAllReduceProofs` | types, the barrier theorem, and the refinement for the kernels with barriers | `CustomAllReduce` |
| `TunerPool` | the pool's processes and the parent's poll loop, restarts included | |
| `TunerPoolProofs` | types, GPU exclusion, isolation until an accelerator error, and the bound on losses | `TunerPool` |
| `GraphCapture` | votes, recorded buffers, exchanges through the store, registration | |
| `GraphCaptureProofs` | types; one path and one pairing while no rank fails alone | `GraphCapture` |
| `MC...` | values of the constants for TLC | the above |

The modules of the host side have a constant for what may go wrong (`Faults`, `Kinds`,
`LoneFailures`): the environment's moves a run allows. So the same actions serve the runs
with a friendly and with a hostile environment, and what the code tolerates is said by
naming it.

### 2.1 The build lock

`creator`, `stamped`, `aged` are the lock file: who created it, whether the stamp is
written, whether its mtime is older than `stale_grace_seconds`. `stealer` is the
`.steal` file. A process's `pc` says which system call comes next. The code looks at
the path, reads the stamp, probes the pid, opens `.steal`, does the first three
again and removes *by path*: each is an action of its own, because the file can be
another one by then. `Stamp` writes through a descriptor and therefore reaches the
file only if it is still there. `Release` and `Remove` remove whatever is at the path.

Pids are unique: a reused pid only makes waiters wait longer. A process is identified
with one call of `mp_lock`; ended processes stay alive for a while (`Exit`), since a
probe can meet them.

### 2.2 The source cache and the build

A tree is the pair of builds that wrote its two files last; two files are enough to be
a mixture and to be incomplete. The token of a generation is the build itself, where
the code draws a `uuid4`. `staging` has its incomplete and its complete marker;
`backups` carry owner and mtime, for recovery goes by mtime. A removal takes several steps,
since a killed `rmtree` leaves half a directory *with a fresh mtime*: a backup goes in two
(`ReapBegin`, `ReapEnd`, `Reap`), and `clear_build`, which `AITER_REBUILD=1` asks for, removes the whole
build tree one file or marker at a time in any order (`Clear`, `Cleared`). `torn` remembers that a
`clear_build` was cut short and left something, until a publication has left nothing but its own snapshots.

`FileBaton` is represented in `JitBuild` by its promise: `Begin` waits until no live
build runs. The runs that doubt the promise name in `Overlap` the places at which a
running build does not keep another from starting. The compilation (`cpp_extension.py:1353-1432`) has a
baton of its own in the build directory, kept in the model: one build at a time is between `Compile`, which
reads the first source, and `Link`, which reads the second, and a build that has waited for it compiles too
(`use_versioner=False`). The generator's own failure
(`generator`), the compiler's, a failing rename or copy, failing metadata writes,
ignored errors of `rmtree` and a slow marker write are faults.

Left out: private temporary directories, hard links, modes, the 24-hour rule for
directories without an owner in their name, other hosts, and orphaned children of a
killed builder (a killed process takes its generator and compiler with it). Also left out: a
`clear_build` while another builder runs, the lock being lost, which removes that builder's tree and the
baton of its compilation with it (`JitBuildAssumption`); and a `KeyboardInterrupt` inside the publication:
`except Exception` (`jit_cache.py:498`) does not catch it, and the `finally` (509-513) then removes the
backup although the swap has not taken place. File 2 stands for the generated kid list of
`module_deepgemm_opus`.

### 2.3 The broadcast queue

`written` and `read` are the metadata bytes of each chunk, `overflow` and `body` its
data. `acquire_read` loads the reader's own flag first and the written flag second: two
actions, and the order matters. `acquire_write` resets the reader flags one at a time
and sets the written flag last. `pipe[r]` is what a reader's socket has not handed out;
a publication reaches subscribers only and drops at the high-water mark, which is how
XPUB sockets behave (zmq is not part of `src/` and is marked external).
Stores become visible in program order, as on the x86 hosts the library runs on; the
code has no fences of its own. Objects are numbered, and `delivered` records what each
`dequeue` returned. `broadcast_object` is collective, hence the bound `MaxSent` is the
number of collective calls of every member.

### 2.4 The collectives

`AllReduce` is the promise: a rank gets the result of round k only after all have given
their input of round k, and every element of it is the sum of exactly those inputs. A sum
is the set of inputs `<<rank, round>>` it adds up, so a term that is missing, of another
call, or garbage shows. Floating-point values and the split of a message among threads
are data.

One block id is modelled, because blocks of different ids share neither a signal nor a
slot; a block of that id runs on every rank and covers the same positions of the message
there. The kernels of one rank run one after the other, as on a stream.

`Lamport`: the slots of a block are `inbox[receiver, source, stage, buffer, position]`.
A wave per peer pushes (`Push`), polls (`Poll`) and re-arms the buffer of the round before
(`Rearm`) in the kernel's order, independently of the other waves except at
`__syncthreads`; messages have different sizes, so a position may carry data in one
round and none in the next. `Arm` is the memset of `initLamport`, and `Running` the
host barrier after it.

`CustomAllReduce`: a kernel is a list of named steps; in a step that touches peers each
peer has its own threads, which finish in any order (`handled`). `SignalBarrier` has the
counter of a rank and the two arrays of signals, counting modulo `Width`. LL and LL128
lines carry the epoch, counted modulo `Epochs`; bank and region layout are those of the
source: LL's two banks lie where the two-stage kernels keep their chunks, LL128's behind
them. Memory is sequentially consistent here. The relaxed orders of `start_sync` and of
the final `end_sync`, which publish nothing, are not told apart from the others.

### 2.5 The tuning pool

A process of `multiprocessing.Pool` takes a task, stamps it with its pid, looks its GPU up
in the map the parent made at the start, and times the kernel, which ends well, kills the
process, hangs or leaves the GPU context poisoned. The pool reaps dead processes and starts
replacements, which are in no map (`MaintainPool`; `multiprocessing` is external). The
parent looks at one task after the other: `Pass`, `Complete`, `LoseWorker`, `TimeOut`,
`AcceleratorFault` are the ways out of the body of its loop, `Continue` and `Restart` those of a
round. The order of the checks is that of the code: an answer first, then the worker's
exit, then the clock. `late` says that more than the timeout has passed since the stamp.

A kind belongs to a task for ever: a task that faults is given up, so its second run never
happens. Left out: exceptions of other kinds (a dummy result, no restart), a process
killed from outside between taking a task and stamping it, and what is measured.

### 2.6 The capture agreement

`store[number][rank]` is the TCP store and `seq` each rank's sequence number: a rank
waits for the objects of its peers *under this number*, whatever they were sent for, and
Python then compares what it finds (`Truthy`, `Equals`: `True == 1`). `recorded` is
`graph_unreg_input_buffers_`, which only a registration clears. A graph's length and the
collective at which a capture raises are the same on every rank (hosts allocate alike, as
the comment at `custom_all_reduce.py:2036-2038` has it); in addition `LoneFailures` captures
may raise in one rank only. Output buffers are registered in the same way and left out, as
are time-outs of the store.

## 3. The runs

| Run | Question | Result |
|---|---|---|
| `baton_safety` | four callers, two hosts, crashes anywhere, raising builders: `MutualExclusion`, `RemoteLockKept`, `SkipMeansBuilt`, `LiveLockKept`, `ImplementsBaton` | holds, 130 thousand states |
| `baton_live` | crashes, stalls, failing stamps, exits: `EveryLiveCallReturns` | holds, 21 thousand |
| `jit_crash` | three processes killed anywhere, one of them clearing the build tree first: `SnapshotIsLatest`, `SurvivorsSucceed` | holds, 28 thousand |
| `jit_faults` | four builds of two processes, kills also inside `clear_build`, all failing calls but `rmtree`, rebuilds: `SnapshotWhole`, `SnapshotKept`, `UnmarkedStagingWhole` | holds, 1.7 million |
| `jit_overlap` | three builders once the lock is lost past code generation: `ArtifactIsOwnGeneration`, `ReceiptHonest` | holds, 1.8 million |
| `shm_safety` | two local readers and a remote one, ring time-outs, bad pickles, close: `WriterAlone`, `HandshakeFirst`, `OverflowBounded`, `ImplementsBroadcast` | holds, 1.5 million |
| `shm_live` | every collective call returns, no state is a deadlock | holds, 87 thousand |
| `lamport` | two ranks, five rounds, every sequence of two sizes, both kernels: `ArrivedDataKept`, `SlotsTakeTurns`, `ImplementsAllReduce`, `EveryRoundFinishes` | holds, 17 thousand |
| `collectives` | three ranks, every pair of barriered kernels, the write mode after itself and after one that leaves the scratch alone, LL, LL128 beyond its epochs: `BarriersHold`, `ImplementsAllReduce`, `EveryCallFinishes` | holds, 171 thousand |
| `scratch_sharing` | may LL follow the two-stage kernel in its scratch? | **violated** |
| `tuner` | four tasks, two GPUs, two faulty tasks, with and without a timeout: `GpuExclusive`, `LossesBounded`, `EveryTaskAnswered` | holds, 600 thousand |
| `capture` | two ranks, three captures: `SamePath`, `RegisteredTogether`, `EveryCaptureEnds` | holds, 1.1 million |

Each module has one type invariant too; those of `FileBaton` and `BlobCache` also say
which files may exist at which places.

**Bounds, and why they are enough.** *Baton*: four processes are the fewest in which a
builder dies, one waiter breaks its lock, a second takes it anew and a third still acts
on what it saw; liveness is checked with three. *Cache*: a build reads what at most two
earlier ones left, the last snapshot and an interrupted publication of the next; a
third and a fourth build recover and clean up after them. The clock is bounded by the
number of builds, each of which renews mtimes a few times. *Queue*: two chunks and four
objects make each chunk be written twice, so flags of an earlier lap are there to be
misread; two local readers let the writer see one flag set and not the other; the
high-water mark 4 lies above `Chunks + 1`, so that `OverflowBounded` is not enforced by
the socket itself. *Lamport*: buffers repeat after three rounds, so five make each of two
of them be re-armed and used again; a third rank adds peers but no new interleaving of two,
and the theorems hold for any number. *Collectives*: three ranks let a fast and a slow one
differ towards a third; six calls of LL128 pass the wrap of `Epochs` = 6; `Width` = 16 is
never reached, which is `NotWrapped` of `Barriers` and `WideCounter` of the refinement. *Tuner*: two faults of two tasks meet in one
round and in two; two GPUs make `HalfGpu` one, so its early end of a round is
exercised with one hanging task. `Skewed` is FALSE (section 4). *Capture*: three captures let
two that raised leave their buffers to the flush of the third; graphs of two collectives with
two captures (a partly recorded graph) and three ranks with two captures have been run too.

**Deadlock** is checked in `shm_live`, where the model never stops. The other models stop on purpose: callers return
and do not call again, builds are finite in number, a closed writer ends
the broadcast, calls, rounds, tasks and captures are counted; their liveness properties say
that the end is reached, which a deadlock would prevent.

**Fairness.** `FileBaton!FairSpec`: the kernel runs every live process, time passes and
`MainFunc` ends, as a compiler run does; nothing makes a process crash or exit.
`wait()` polls without a queue, so weak fairness of each process's next step is all
one may assume; starvation by ever new callers cannot be expressed with one call each.
`ShmBroadcast!FairSpec`: each member goes on making its collective calls and polls
until it can take its next step; time-outs may happen at any time and are retried.
Time-outs, crashes, exits and failures carry no fairness.
The blocks of a kernel are resident together and their threads all run: weak fairness of each
rank (`CustomAllReduce`) and of each of its waves (`Lamport`). In `TunerPool` the parent's loop and
every process run; a hanging kernel has no next step, and that it overruns its timeout is
the passing of time, part of its process. In `GraphCapture` every rank goes on capturing, and no
host must change its vote.

## 4. Findings

- `scratch_sharing`: where the Lamport path is off, small messages take LL and larger ones
  the two-stage kernel, in the same scratch. A rank that has gathered all chunks of a two-stage
  call may begin its next, small, call and send LL lines (`custom_all_reduce.cuh:3713`) into
  the scratch in which a slower rank still gathers (613). The comment at 3580-3582 says that the
  epoch and the two banks keep reuse safe; they keep LL safe from LL.

Disagreements met while modelling that have no run of their own, and how to see them:

- `wait()` returns True whenever the path is gone, also when another waiter has just broken
  a dead holder's lock (`file_baton.py:77`, doc at 68-69); a caller without
  `build_after_wait` then returns with nothing built. `SkipMeansBuilt` allows exactly that: drop
  its second disjunct.
- `.steal` has no stamp and is never stale (`file_baton.py:175`): a waiter killed under it
  leaves the others waiting for ever. Add `stealCrash` to `FileBatonLive.cfg`.
- The second staleness check reads a pid and probes it later (`file_baton.py:180`). If that
  builder has released and exited in between, the lock removed is the next builder's. Add
  `probeExit` to `FileBatonSafety.cfg`.
- A stamp that cannot be written lets the age rule rob a live builder (`stampFails`).
- Recovery prefers the newest mtime (`jit_cache.py:217`), and a removal that ignored an error
  has renewed the mtime of what it left. Check `SnapshotKept` in
  `JitCrash.cfg` with four builds and the fault `rmtree`.
- `clear_build` (`core.py:1355`) removes the build tree in place. Killed in the middle, it leaves half a
  `blob` or backup, which the next build starts from as if it were whole, or a
  `blob.staging` that has lost its incomplete marker, or files, and is built upon (`stage_blob_sources`
  resets a tree for its marker only, `jit_cache.py:287-308`). Drop `torn` from `SnapshotWhole` or
  `UnmarkedStagingWhole`: `jit_faults` finds it. The properties say what remains: no mixture counts as
  published, and the next publication makes up for it.
- After a failed roll-back the marker names the live process, whose own retry is refused as
  "already active"; builders that overlap from the start of code generation can reset each
  other's marked tree.
- A time-out on the socket comes after the announcing chunk has been marked as read
  (`shm_broadcast.py:584`), and the next call returns a later object. Add `overflowTimeout` to
  `Tolerated`.
- The doc of `mp_tuner` promises that a fault does not affect other tasks (`mp_tuner.py:445`). An
  accelerator error leaves the process alive and poisoned, and the task it takes before the
  parent has seen the error fails (687). `Isolation` in `TunerPool.cfg` shows it.
- A process that is ready three seconds before another answers two `get_pid` calls
  (`mp_tuner.py:556`, 682): the other is in no map and its tasks end in mapping errors that start
  no new pool. Set `Skewed` to TRUE; `EveryTaskAnswered` is violated, although the tests
  expect such tasks to be retried after a restart (`op_tests/tuning_tests/test_mp_tuner_logic.py:9`).
- The barrier counter is 32 bits wide and compared with `<` (`custom_all_reduce.cuh:184`): past
  the wrap `BarriersHold` fails. A `Width` of 4 in `CustomAllReduce.cfg` shows it.
- LL's epoch goes on with 1 after the wrap (`custom_all_reduce.cuh:3709`), hence with the bank
  it has just used, and a slower rank's lines are overwritten before it has polled them; LL128's goes
  on with 2. With `Epochs` calls of LL in a plan `EveryCallFinishes` is violated.
- The write mode stores into its peers' scratch without a barrier before
  (`custom_all_reduce.cuh:671`): after a two-stage or a fused call it breaks a slower peer as in
  `scratch_sharing` (plans `two`, `write` and `fused`, `write`), and after LL it overwrites lines that
  peer has not polled, which then waits for ever (`ll`, `ll`, `write`).
- "A failed capture is discarded" (`custom_all_reduce.py:1987`), but the buffers it has recorded
  stay in `graph_unreg_input_buffers_` and the next flush registers them. On every rank alike
  that is harmless to the pairing, which `RegisteredTogether` checks. When one rank raises alone,
  its next vote `True` is taken for the count 1 its peers wait for, and buffers of different
  captures can be registered together: drop `alone = 0` from `RegisteredTogether`.

## 5. What is proved

Every invariant that a run checks, and every refinement, is the statement of a theorem, for
every value of the constants. Where a theorem has a hypothesis, it is one the code needs:
section 4 names what breaks without it. The hypotheses are:

| Hypothesis | Says | Used for |
|---|---|---|
| none | | `TypeOK` of every module; `WriterAlone`, `HandshakeFirst`; `ArrivedDataKept`, `SlotsTakeTurns` and the refinement of `Lamport`; `GpuExclusive`; `Barriers` until a counter wraps |
| in the model, `RaiseAcceleratorError` | in a process whose GPU context is poisoned `set_device` raises (`mp_tuner.py:271`), as the comment at 685-690 implies; if it did not, the `except` of `work_group` (410-421) would turn the error of every later task into a dummy result, and the pool would not be restarted | `LossesBounded` |
| `SafeEnvironment` | stamps are written, grace windows hold, no exit inside a probe | `FileBaton` |
| `LockWhileStaging` | no build starts while another generates code | `ArtifactIsOwnGeneration`, `ReceiptHonest` |
| `Exclusive`, `rmtree` reports its errors; the properties exempt `torn` | no build starts while another runs; no half of a cut `clear_build` is still about | `SnapshotWhole`, `SnapshotKept`, `UnmarkedStagingWhole` |
| `Exclusive`, `CrashesOnly` | processes are killed, calls do not fail | `SnapshotIsLatest`, `SurvivorsSucceed` |
| `SocketsReliable` | no receive of an announced object is cut short or unpicklable | `OverflowBounded` |
| `RoomForRing` in addition | the high-water mark exceeds `Chunks`; in the code it is 1000 and there are 10 | the refinement of `ShmBroadcast` |
| `SyncedPlans`, `WideCounter` | kernels with barriers, the write mode where no reader can be left behind; no counter wraps | the refinement of `CustomAllReduce` |
| `alone = 0`, in the properties themselves | no capture has raised in one rank only | `SamePath`, `RegisteredTogether` |

`FileBatonProofs`, for any number of processes and hosts, assuming `SafeEnvironment`: no
failing stamp, no stall beyond the grace period inside the two short windows, no exit
inside a probe. Crashes, also under `.steal`, and raising builders are allowed. Each of
the three excluded faults really breaks the lock (section 4). `TypeCorrect` needs no
assumption.

- *Why the invariant is larger than the property.* Mutual exclusion follows from
  `HolderOwnsFile` (whoever is between acquire and release created the file that is
  there). That a waiter's removal keeps it needs `RemoveSound` (whoever is about to
  remove has a dead creator's file in front of it), which rests on the evidence:
  `ProbeSound` (under `.steal`, a dead pid about to be probed is still that of the
  file's creator), `AgedIsOrphan` and `AgeReadSound` (an old unstamped file is a dead
  process's, and a verdict by age is about an unstamped file), and on
  `StealExclusive`: between evidence and removal only the `.steal` holder removes a dead
  creator's file.
- `Implementation` proves each step to be a step of `Baton` or a stutter; the live
  holder's removal by anybody else has no image there.
- `SkipMeansBuiltHolds` adds `LockStands`: as long as nobody has built, died or raised, the first
  lock file stands, since a release follows the work and a removal a death.

`JitBuildProofs`, for any number of builds and processes and all faults:

- `InstalledOneGeneration` and `ReceiptsHonest` follow from `OneStagerInv`. Only one build generates
  code (`OneStager`), the marker in the tree is the stager's own (`MarkHeld`), and a tree that carries a build's
  token and no incomplete marker holds that build's files only (`TokenHonest`). That relates the token
  validated after the compilation to the two files compiled before it (`Inputs`), though another
  builder may have reset the tree and refilled it in between. An installed binary is then of its
  installer's generation, a receipt is written for that inode only (`Outputs`). A `clear_build` takes nothing
  from under another build, because it runs alone (`ClearAlone`).

`JitBuildLockProofs`, while the lock is kept:

- `KeptInv` is about what is on disk between two renames. A candidate is complete before it is
  swapped in, and so is the tree it was copied from (`Candidates`); a publication reaps its backup only behind
  a published snapshot (`ReapBehindBlob`); no backup is a mixture (`BackupsUnmixed`). As long as no `clear_build` was
  cut short, a half-removed backup is there only behind a published snapshot, and no build is past the
  cleanup that finishes it (`HalfRemovedBehindBlob`), so a recovery never takes it for a snapshot.
  Without the last, `SnapshotKept` is not inductive: a removal that stops half-way, a roll-back, and
  a recovery by mtime publish half a tree.
- `CrashInv` adds, for kills only, which failures are out of reach at each place (`Steady`), that an
  incomplete marker is a dead process's or that of the build generating code (`MarkOwner`, so it stops
  no successor), and that the last published generation is in `blob` or, alone, in the one backup (`LatestInv`).

`ShmBroadcastProofs`, for any number of readers, local or remote, any ring, any number
of objects; the first two with **all** faults:

- `WriterAloneHolds`: `ReadingFresh` says that a reader which has loaded its own flag as
  unset will still find it unset, nobody but itself setting it, and that a chunk being
  read is written; `FillingUnwritten` that a chunk being filled is not. A reader at work
  therefore keeps `ReadByAll` false, and the writer out.
- `HandshakeFirstHolds`: `Handshaken` counts the writer's two `READY` publications against
  each reader's subscription: before them the pipe is empty, after them READY is its
  head until the reader takes it, and never comes again.
- `OverflowStaysBounded` and `BroadcastImplemented`: `BroadcastInv` reads the ring as a window of `Chunks`
  objects that ends with the last one sent. `Lap` keeps the writer within one lap of every reader and
  `FlagsMatch` ties the flags to the objects taken; `Contents` says that a chunk holds its object or
  announces it, `QueueInv` that a local socket holds, in order, only
  large objects that are announced and that its reader has still to take, `DeliveryInv` that it misses none. At most one of them per chunk
  is announced, and one more is being received. With room for these nothing is dropped, the next
  object of the socket is the one the chunk announces, and every return of `dequeue` is a step
  of `Broadcast`.

`LamportProofs`, for any number of ranks, any block width, any sequence of message sizes, any
number of rounds, one-shot and two-shot:

- `SlotsInStep` says what every slot holds in terms of its owner's and its source's rounds: the
  data of the round that the source has pushed and the owner not yet re-armed, and else the
  sentinel. It needs `RanksInStep` (a rank finishes a round only with its peers' data of it,
  hence two ranks are at most one round apart), `PolledInStep` (what polling returned is of
  this round) and `RearmedAfterPolling`.
- From it follow `DataKept` (no step wipes or overwrites data still to be read), `TakingTurns` (a
  store meets a re-armed slot) and `Refinement` (every step is one of `AllReduce` or a stutter).

`CustomAllReduceProofs`, for any number of ranks and calls:

- `Barriers`: any kernels and calls, nobody has left a barrier that another rank has not entered, until
  a counter wraps (`NotWrapped`). The invariant, `SignalsAreHonest`, bounds each signal by the barriers
  its sender has entered.
- `AllReduceImplemented`: under `SyncedPlans` and `WideCounter`, calls of the one-stage, two-stage, fused
  and write-mode kernels, mixed, implement `AllReduce`. `Counting` ties the barriers a rank has entered to
  its call and step, so two ranks are at most one barrier apart; `HandledInStep` says which peers'
  threads have done their part of a step, and `Kept`, `Stored`, `Pushed` and `StoredHigh` what a region of
  the scratch still holds at each distance between its owner and its reader: a chunk is overwritten only
  by a rank that has left the barrier after its last reading. The write mode has no barrier before it
  stores, which is why it may only follow a kernel that leaves the scratch alone, or itself; after a
  two-stage or fused call the refinement fails (section 4). `CustomAllReduceAssumption` says that
  calls are of the six `Kinds`.

`TunerPoolProofs`, for any number of tasks, GPUs, faults and restarts:

- `GpuExclusiveHolds` rests on the map being injective however the workers were
  skewed, and replacements being in no map. `IsolationHolds`: until the first accelerator error no task
  that can be timed is given up; its invariant relates stamps to processes (`Stamps`: a stamp is of the
  process that has the task, or the task is answered or kills) across replacements and restarts.
- `TypeCorrect` contains a bound: each process replaced has left its stamp on a task of its own, so
  the pids of one pool never exceed one for each GPU and one for each task.
- `LossesBoundedHolds` keeps a budget: while a poisoned process, or an error the parent has not yet come
  to in its round, may still cost a task (`Exposed`), fewer tasks are lost than errors have struck; the
  round that sees the error ends with a new pool, which has no poison.

`GraphCaptureProofs`, for any number of ranks, captures and collectives:

- `LockstepInvariant`: `Lag` keeps a rank within one exchange of any other, and only while it
  waits. Two ranks in one capture have used equally many numbers before it and have the same
  buffers left over from earlier ones (`SameCapture`); a rank one capture ahead has raised, or flushed with
  or without anything to register, and the other one is going to (`Raised`, `Flushed`). From these
  follows `Answers`: whatever is put under a number where another rank waits is a vote where a vote is
  awaited, the same count, the same handles. The paths of a capture cannot be compared while votes are
  still gathered; `Path` therefore speaks of the path a waiting rank *will* take.
- `SamePathHolds` and `RegisteredTogetherHolds` are its consequences. `Mismatch` and `CannotUnpack` are never
  taken while no rank fails alone.

`BlobCacheAssumption` says that `None` is none of the values it stands beside (markers, trees, snapshots), as in
the code, where `None` is no path and no token.

**Only model-checked.** Liveness: `EveryLiveCallReturns`, `EveryBroadcastReturns`, `EveryRoundFinishes`,
`EveryCallFinishes`, `EveryTaskAnswered` and `EveryCaptureEnds` rest on fairness and `ENABLED`, which are
out of the prover's reach. The refinement of LL and LL128 in `CustomAllReduce`, whose epochs
and banks take the place of barriers, and of sequences that mix them with other kernels.

## 6. Plan

In this order:

1. The refinement of `CustomAllReduce` for plans of LL calls and for plans of LL128 calls: an epoch is
   in a bank until every rank has polled it, hence ranks are at most one call apart, and two
   banks are enough.
2. `BarriersHold` and the refinement for the plans `SyncedPlans` excludes but the scratch allows (the write
   mode after LL128, whose banks lie behind its region).
3. `OpusKids` (`opus_gemm_tune.py` 885-1110): parents with different requests over a baton,
   module builds and receipts, the environment flag; returning means covered.
4. `WorkerBudget` (`aiter_worker_limits.py` 289-577): splits and hysteresis against a
   reference definition.
5. `OperatorLoading` (`core.py` 1117-1244 and 2296-2390): over the promise of `JitBuild`.

## 7. Not modelled

Kernels and tables are data: of the 670 thousand lines of the repository nearly all are
numerical code, code generators' templates and tuning results, which no state machine
describes; the parts with a protocol are listed in section 1 and are small. Hipify and the
extension builder are one step of a build. Third-party checkouts and config merging are used
only as callers of `mp_lock`. The transports only forward to torch.distributed or RCCL.
`PROJECT.json` names each such component and the reason.
