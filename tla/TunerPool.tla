----------------------------- MODULE TunerPool -----------------------------
(***************************************************************************)
(* mp_tuner: tasks that time kernels run in the worker processes of a      *)
(* multiprocessing.Pool, one GPU each, while the parent polls for their    *)
(* results, gives up those that a fault has cost and starts a new pool.    *)
(*                                                                         *)
(* Tasks are submitted, taken from the pool's queue and polled in          *)
(* ascending order.  A task is of one of these kinds:                      *)
(*   "fine"    its kernel can be timed                                     *)
(*   "kills"   its kernel ends the worker process (a GPU memory fault)     *)
(*   "hangs"   its kernel never ends                                       *)
(*   "poisons" its kernel raises an accelerator error, which worker()      *)
(*             catches, and which every later GPU call of the process      *)
(*             raises again                                                *)
(***************************************************************************)
EXTENDS Integers, FiniteSets

CONSTANTS
  NumTasks, NumGpus,   \* mp_num workers, one for each GPU
  Kinds,               \* the kinds a task may be of
  MaxFaulty,           \* bound on the tasks that are not fine
  Skewed               \* may a worker be ready so much later than another that
                       \* the other answers its get_pid too?

ASSUME TunerPoolAssumption ==
  /\ NumTasks \in Nat \ {0} /\ NumGpus \in Nat \ {0}
  /\ Kinds \subseteq {"fine", "kills", "hangs", "poisons"}
  /\ MaxFaulty \in Nat /\ Skewed \in BOOLEAN

VARIABLES
  kind,       \* of each task
  timed,      \* was a timeout given?
  doing,      \* the task of each process of the pool, 0 when it is idle
  dead,       \* processes of the pool that have ended
  poisoned,   \* processes in which every GPU call raises an accelerator error
  nextPid,    \* the pid of the next process the pool starts
  gpu_map,    \* the GPU of each process that has answered get_pid
  queued,     \* the tasks in the pool's queue
  task_pids,  \* the process that has taken a task, 0 before
  late,       \* tasks that have been running for longer than the timeout
  answer,     \* what each async_result holds, "none" before it is ready
  result,     \* result_dict: "none", what a task returned, or "dummy"
  at,         \* the task that is polled next in this round
  stuck,      \* consecutive_timeouts
  pool_restart_needed,
  poisonings  \* how often an accelerator error has struck (history)

vars == <<kind, timed, doing, dead, poisoned, nextPid, gpu_map, queued, task_pids,
          late, answer, result, at, stuck, pool_restart_needed, poisonings>>

Tasks == 1..NumTasks
Gpus == 0..(NumGpus - 1)

\* A pool has had this many processes at most: each death costs it a task.  The
\* pids of the next pool may start again: no stamp of the last one is left.
Pids == 1..(NumGpus + NumTasks)

Pool == DOMAIN doing
Alive == Pool \ dead

\* The processes of a new pool that answer the get_pid calls; three seconds of
\* sleep in each call leave one to every process that is ready by then.
Answers ==
  IF Skewed THEN [Gpus -> 1..NumGpus] ELSE {[g \in Gpus |-> g + 1]}

\* {el.get(): i}: a later call overwrites an earlier one.
MapsOf(f) == {m \in [{f[g] : g \in Gpus} -> Gpus] :
                \A w \in DOMAIN m : f[m[w]] = w /\ \A g \in Gpus : f[g] = w => g <= m[w]}
Maps == UNION {MapsOf(f) : f \in Answers}

\* The fallback that the source has commented out.
GpuOrFallback(w) == IF w \in DOMAIN gpu_map THEN gpu_map[w] ELSE w % NumGpus

\* The GPU work_group sets, or -1 where the look-up raises a KeyError.
Gpu(w) == IF w \in DOMAIN gpu_map THEN gpu_map[w] ELSE -1

Remaining == {k \in Tasks : result[k] = "none"}

\* A poll loop that relies on the timeout.
NeverExited(k) == FALSE

\* _task_worker_exited: a process is gone once the pool has reaped it.
WorkerExited(k) == task_pids[k] # 0 /\ task_pids[k] \notin Pool

\* A process that has ended and is not joined.
Unjoined(w) == Pool

\* The processes that are left when w is joined.
Others(w) == Pool \ {w}

\* Resubmission that leaves the stamps of the first attempt.
StampsKept == task_pids

\* _reset_task_start_times: the stamps of resubmitted tasks are cleared.
ResetStamps == [k \in Tasks |-> IF k \in Remaining THEN 0 ELSE task_pids[k]]

HalfGpu == (NumGpus + 1) \div 2

Init ==
  /\ timed \in BOOLEAN
  /\ kind \in [Tasks -> IF timed THEN Kinds ELSE Kinds \ {"hangs"}]
  /\ Cardinality({k \in Tasks : kind[k] # "fine"}) <= MaxFaulty
  /\ doing = [w \in 1..NumGpus |-> 0]
  /\ dead = {} /\ poisoned = {}
  /\ nextPid = NumGpus + 1
  /\ gpu_map \in Maps
  /\ queued = Tasks
  /\ task_pids = [k \in Tasks |-> 0]
  /\ late = {}
  /\ answer = [k \in Tasks |-> "none"]
  /\ result = [k \in Tasks |-> "none"]
  /\ at = 1 /\ stuck = 0
  /\ pool_restart_needed = FALSE
  /\ poisonings = 0

-----------------------------------------------------------------------------
parentVars == <<result, at, stuck, pool_restart_needed>>

\* A process takes the next task and stamps it with its pid and the time.
Take(w) ==
  /\ w \in Alive /\ doing[w] = 0
  /\ \E k \in queued :
       /\ \A j \in queued : k <= j
       /\ doing' = [doing EXCEPT ![w] = k]
       /\ task_pids' = [task_pids EXCEPT ![k] = w]
       /\ queued' = queued \ {k}
  /\ UNCHANGED <<kind, timed, dead, poisoned, nextPid, gpu_map, late, answer, poisonings>>
  /\ UNCHANGED parentVars

Return(w, a) ==
  /\ w \in Alive /\ doing[w] # 0
  /\ answer' = [answer EXCEPT ![doing[w]] = a]
  /\ doing' = [doing EXCEPT ![w] = 0]
  /\ UNCHANGED <<kind, timed, dead, nextPid, gpu_map, queued, task_pids, late>>
  /\ UNCHANGED parentVars

\* The look-up in GPUIDMap, outside the try of work_group, raises a KeyError.
RaiseMappingError(w) ==
  Return(w, "KeyError") /\ Gpu(w) = -1 /\ UNCHANGED <<poisoned, poisonings>>

\* set_device, outside it too, raises the error an earlier task has left: the parent's
\* comment on GPU faults relies on that.  An error raised only later, inside the try of
\* work_group, would come back as a dummy result and restart nothing; not modelled.
RaiseAcceleratorError(w) ==
  /\ Return(w, "AcceleratorError")
  /\ Gpu(w) # -1 /\ w \in poisoned
  /\ UNCHANGED <<poisoned, poisonings>>

\* Is the process timing the kernel of a task of kind t?
Timing(w, t) ==
  w \in Alive /\ doing[w] # 0 /\ Gpu(w) # -1 /\ w \notin poisoned /\ kind[doing[w]] = t

ReturnTime(w) == Timing(w, "fine") /\ Return(w, "time") /\ UNCHANGED <<poisoned, poisonings>>

\* worker() returns the failure of its kernel as a result.
ReturnPoisoned(w) ==
  /\ Timing(w, "poisons") /\ Return(w, "failed")
  /\ poisoned' = poisoned \cup {w} /\ poisonings' = poisonings + 1

Die(w) ==
  /\ Timing(w, "kills")
  /\ dead' = dead \cup {w}
  /\ UNCHANGED <<kind, timed, doing, poisoned, nextPid, gpu_map, queued, task_pids,
                 late, answer, poisonings>>
  /\ UNCHANGED parentVars

\* The pool's handler thread reaps a dead process and starts another.
MaintainPool(w) ==
  /\ w \in dead
  /\ dead' = dead \ {w}
  /\ doing' = [v \in Others(w) \cup {nextPid} |-> IF v = nextPid THEN 0 ELSE doing[v]]
  /\ nextPid' = nextPid + 1
  /\ UNCHANGED <<kind, timed, poisoned, gpu_map, queued, task_pids, late, answer, poisonings>>
  /\ UNCHANGED parentVars

\* Only a task that hangs runs for longer than its timeout.
Overrun(w) ==
  /\ timed /\ Timing(w, "hangs") /\ doing[w] \notin late
  /\ late' = late \cup {doing[w]}
  /\ UNCHANGED <<kind, timed, doing, dead, poisoned, nextPid, gpu_map, queued, task_pids,
                 answer, poisonings>>
  /\ UNCHANGED parentVars

Process(w) ==
  \/ Take(w) \/ RaiseMappingError(w) \/ RaiseAcceleratorError(w) \/ ReturnTime(w)
  \/ ReturnPoisoned(w) \/ Die(w) \/ MaintainPool(w) \/ Overrun(w)

-----------------------------------------------------------------------------
\* The parent polls task k; `break' ends the round.
Poll(k) ==
  /\ k \in Remaining /\ at <= k /\ \A j \in Remaining : at <= j => k <= j
  /\ UNCHANGED <<kind, timed, doing, dead, poisoned, nextPid, gpu_map, queued, task_pids,
                 late, answer, poisonings>>

Goes(k) == at' = k + 1
Break == at' = NumTasks + 1
GiveUp(k) == result' = [result EXCEPT ![k] = "dummy"] /\ pool_restart_needed' = TRUE

\* A task that is queued, that runs, or whose look-up failed: nothing happens.
Pass(k) ==
  /\ Poll(k)
  /\ \/ answer[k] = "KeyError" /\ UNCHANGED stuck
     \/ answer[k] = "none" /\ ~WorkerExited(k) /\ k \notin late /\ stuck' = 0
  /\ Goes(k)
  /\ UNCHANGED <<result, pool_restart_needed>>

Complete(k) ==
  /\ Poll(k)
  /\ answer[k] \in {"time", "failed"}
  /\ result' = [result EXCEPT ![k] = answer[k]]
  /\ stuck' = 0
  /\ Goes(k)
  /\ UNCHANGED pool_restart_needed

\* The wait for the result ends without one and the worker is gone.  The two
\* are looked at together: a worker whose result has come just in between
\* would have to take its next task, to run into a fault and to be reaped.
LoseWorker(k) ==
  /\ Poll(k)
  /\ answer[k] = "none" /\ WorkerExited(k)
  /\ GiveUp(k) /\ Break
  /\ UNCHANGED stuck

TimeOut(k) ==
  /\ Poll(k)
  /\ answer[k] = "none" /\ ~WorkerExited(k) /\ k \in late
  /\ GiveUp(k)
  /\ stuck' = stuck + 1
  /\ IF stuck' >= HalfGpu THEN Break ELSE Goes(k)

AcceleratorFault(k) ==
  /\ Poll(k)
  /\ answer[k] = "AcceleratorError"
  /\ GiveUp(k) /\ Break
  /\ UNCHANGED stuck

RoundOver == \A k \in Remaining : k < at

\* A new round with the same pool.
Continue ==
  /\ RoundOver /\ Remaining # {} /\ ~pool_restart_needed
  /\ at' = 1 /\ stuck' = 0
  /\ UNCHANGED <<kind, timed, doing, dead, poisoned, nextPid, gpu_map, queued, task_pids,
                 late, answer, result, pool_restart_needed, poisonings>>

\* A new round with a new pool, to which the remaining tasks are submitted.
Restart ==
  /\ RoundOver /\ Remaining # {} /\ pool_restart_needed
  /\ doing' = [w \in 1..NumGpus |-> 0]
  /\ dead' = {} /\ poisoned' = {}
  /\ nextPid' = NumGpus + 1
  /\ gpu_map' \in Maps
  /\ queued' = Remaining
  /\ task_pids' = ResetStamps
  /\ late' = late \ Remaining
  /\ answer' = [k \in Tasks |-> IF k \in Remaining THEN "none" ELSE answer[k]]
  /\ at' = 1 /\ stuck' = 0
  /\ pool_restart_needed' = FALSE
  /\ UNCHANGED <<kind, timed, result, poisonings>>

Parent ==
  \/ \E k \in Tasks : Pass(k) \/ Complete(k) \/ LoseWorker(k) \/ TimeOut(k) \/ AcceleratorFault(k)
  \/ Continue \/ Restart

Next == Parent \/ \E w \in Pids : Process(w)

Spec == Init /\ [][Next]_vars

\* The parent's loop and the processes of a pool run independently.
FairSpec == Spec /\ WF_vars(Parent) /\ \A w \in Pids : WF_vars(Process(w))

-----------------------------------------------------------------------------
Outcomes == {"none", "time", "failed"}

TypeOK ==
  /\ kind \in [Tasks -> Kinds] /\ timed \in BOOLEAN
  /\ Pool \subseteq Pids /\ Cardinality(Pool) = NumGpus
  /\ doing \in [Pool -> Tasks \cup {0}]
  /\ dead \subseteq Pool /\ poisoned \subseteq Pids
  /\ nextPid \in Pids \cup {NumGpus + NumTasks + 1}
  /\ DOMAIN gpu_map \subseteq Pids /\ gpu_map \in [DOMAIN gpu_map -> Gpus]
  /\ queued \subseteq Tasks /\ late \subseteq Tasks
  /\ task_pids \in [Tasks -> Pids \cup {0}]
  /\ answer \in [Tasks -> Outcomes \cup {"KeyError", "AcceleratorError"}]
  /\ result \in [Tasks -> Outcomes \cup {"dummy"}]
  /\ at \in 1..(NumTasks + 1) /\ stuck \in 0..NumTasks
  /\ pool_restart_needed \in BOOLEAN /\ poisonings \in Nat

\* Two kernels are never timed on the same GPU, whatever processes have been
\* replaced or answered for each other.
GpuExclusive ==
  \A v, w \in Pool : \A s, t \in Kinds :
    v # w /\ Timing(v, s) /\ Timing(w, t) => Gpu(v) # Gpu(w)

\* "GPU memory faults or hangs in one task don't affect others"
\* (mp_tuner.py:445): a task that can be timed is never given up.
Isolation == \A k \in Tasks : kind[k] = "fine" => result[k] \in {"none", "time"}

\* What the code does ensure: an accelerator error costs no more than one
\* other task its time, and the other faults none.
LossesBounded ==
  Cardinality({k \in Tasks : kind[k] = "fine" /\ result[k] \notin {"none", "time"}}) <= poisonings

\* Every task gets a result.
EveryTaskAnswered == <>(Remaining = {})
=============================================================================
