-------------------------- MODULE TunerPoolProofs --------------------------
(***************************************************************************)
(* TunerPool for any number of tasks, GPUs and faults, with a pool whose   *)
(* workers start at any time.  The theorems on lost tasks rest on what a   *)
(* stamp says of a task without an answer: that its process is at work on  *)
(* it, or is gone because the task has killed it.  The bound on the pool's *)
(* pids rests on the stamps too: each process replaced has left its own.   *)
(***************************************************************************)
EXTENDS TunerPool, FiniteSetTheorems, TLAPS

-----------------------------------------------------------------------------
\* No two processes of gpu_map have the same GPU.
OneProcessPerGpu ==
  \A v, w \in DOMAIN gpu_map : v # w => gpu_map[v] # gpu_map[w]

\* The map of a new pool is such a map, however its processes answered.
LEMMA MapsAreInjective ==
  ASSUME NEW m \in Maps, NEW v \in DOMAIN m, NEW w \in DOMAIN m, m[v] = m[w]
  PROVE  v = w
<1>1. PICK f \in Answers : m \in MapsOf(f)
  BY DEF Maps
<1> QED
  BY <1>1 DEF MapsOf

\* Two kernels are never timed on the same GPU at once, for any number of
\* GPUs: a process the pool has started as a replacement runs none.
THEOREM GpuExclusiveHolds == Spec => []GpuExclusive
<1>1. Init => OneProcessPerGpu
  BY MapsAreInjective DEF Init, OneProcessPerGpu
<1>2. OneProcessPerGpu /\ [Next]_vars => OneProcessPerGpu'
  <2> SUFFICES ASSUME OneProcessPerGpu, [Next]_vars PROVE OneProcessPerGpu'
    OBVIOUS
  <2>1. CASE Restart
    BY <2>1, MapsAreInjective DEF Restart, OneProcessPerGpu
  <2>2. CASE gpu_map' = gpu_map
    BY <2>2 DEF OneProcessPerGpu
  <2>3. ASSUME NEW w \in Pids, Process(w) PROVE gpu_map' = gpu_map
    BY <2>3 DEF Process, Take, RaiseMappingError, RaiseAcceleratorError, ReturnTime,
                ReturnPoisoned, Return, Die, MaintainPool, Overrun
  <2>4. ASSUME NEW k \in Tasks,
               Pass(k) \/ Complete(k) \/ LoseWorker(k) \/ TimeOut(k) \/ AcceleratorFault(k)
        PROVE  gpu_map' = gpu_map
    BY <2>4 DEF Pass, Complete, LoseWorker, TimeOut, AcceleratorFault, Poll
  <2>5. CASE Continue
    BY <2>2, <2>5 DEF Continue
  <2> QED
    BY <2>1, <2>2, <2>3, <2>4, <2>5 DEF Next, Parent, vars
<1>3. OneProcessPerGpu => GpuExclusive
  BY DEF OneProcessPerGpu, GpuExclusive, Timing, Gpu
<1> QED
  BY <1>1, <1>2, <1>3, PTL DEF Spec

-----------------------------------------------------------------------------
\* The types of what Isolation rests on.
Types ==
  /\ kind \in [Tasks -> Kinds]
  /\ nextPid \in Nat /\ Pool \subseteq 1..(nextPid - 1)
  /\ doing \in [Pool -> Tasks \cup {0}]
  /\ dead \subseteq Pool /\ queued \subseteq Tasks /\ late \subseteq Tasks
  /\ task_pids \in [Tasks -> Nat]
  /\ answer \in [Tasks -> Outcomes \cup {"KeyError", "AcceleratorError"}]
  /\ result \in [Tasks -> Outcomes \cup {"dummy"}]
  /\ poisonings \in Nat

\* A process at work has stamped its task, which is not in the queue any more;
\* one that has died was killed by its task.
Workers ==
  \A w \in Pool : doing[w] # 0 =>
    /\ task_pids[doing[w]] = w /\ doing[w] \notin queued
    /\ w \in dead => kind[doing[w]] = "kills"

\* The stamp of a task that has no answer.
Stamps ==
  \A k \in Remaining :
    /\ task_pids[k] < nextPid
    /\ answer[k] = "none" /\ task_pids[k] # 0 =>
         IF task_pids[k] \in Pool THEN doing[task_pids[k]] = k ELSE kind[k] = "kills"

OnlyHangingTasksAreLate == \A k \in late : kind[k] = "hangs"

\* Without an accelerator error no process raises or returns one.
NoPoison ==
  poisonings = 0 =>
    /\ poisoned = {}
    /\ \A k \in Tasks : answer[k] \notin {"failed", "AcceleratorError"}
    /\ Isolation

\* The inductive invariant.
IInv == Types /\ Workers /\ Stamps /\ OnlyHangingTasksAreLate /\ NoPoison
-----------------------------------------------------------------------------
\* The steps of a process, one lemma each.
LEMMA TakeStep ==
  ASSUME IInv, NEW w \in Pids, Take(w)
  PROVE  IInv'
<1>0. /\ Types /\ Workers /\ Stamps /\ OnlyHangingTasksAreLate /\ NoPoison
      /\ w \in Pool /\ w \notin dead /\ doing[w] = 0 /\ Pool' = Pool
  BY DEF IInv, Take, Alive, Pool, Types
<1>1. PICK k \in queued : /\ doing' = [doing EXCEPT ![w] = k]
                          /\ task_pids' = [task_pids EXCEPT ![k] = w]
                          /\ queued' = queued \ {k}
  BY DEF Take
<1>2. k \in Tasks /\ k # 0 /\ w \in Nat /\ w < nextPid
  BY <1>0, TunerPoolAssumption DEF Types, Tasks
<1>3. UNCHANGED <<kind, dead, poisoned, nextPid, late, answer, result, poisonings>>
  BY DEF Take, parentVars
<1>4. Types'
  BY <1>0, <1>1, <1>2, <1>3 DEF Types
<1>5. Workers'
  <2> SUFFICES ASSUME NEW v \in Pool, doing'[v] # 0
               PROVE  /\ task_pids'[doing'[v]] = v /\ doing'[v] \notin queued'
                      /\ v \in dead => kind[doing'[v]] = "kills"
    BY <1>0, <1>3 DEF Workers
  <2>1. CASE v = w
    BY <2>1, <1>0, <1>1, <1>2 DEF Types
  <2>2. CASE v # w
    <3>1. doing'[v] = doing[v]
      BY <2>2, <1>0, <1>1 DEF Types
    <3>2. doing[v] \in Tasks /\ task_pids[doing[v]] = v /\ doing[v] \notin queued
          /\ (v \in dead => kind[doing[v]] = "kills")
      BY <3>1, <1>0 DEF Workers, Types
    <3> QED
      BY <3>1, <3>2, <1>0, <1>1 DEF Types
  <2> QED
    BY <2>1, <2>2
<1>6. Stamps'
  <2> SUFFICES ASSUME NEW j \in Remaining
               PROVE  /\ task_pids'[j] < nextPid
                      /\ answer[j] = "none" /\ task_pids'[j] # 0 =>
                           IF task_pids'[j] \in Pool THEN doing'[task_pids'[j]] = j
                                                     ELSE kind[j] = "kills"
    BY <1>0, <1>3 DEF Stamps, Remaining
  <2>1. CASE j = k
    BY <2>1, <1>0, <1>1, <1>2 DEF Types
  <2>2. CASE j # k
    <3>1. task_pids'[j] = task_pids[j] /\ j \in Tasks /\ j # 0
      BY <2>2, <1>0, <1>1, TunerPoolAssumption DEF Types, Remaining, Tasks
    <3>2. /\ task_pids[j] < nextPid
          /\ answer[j] = "none" /\ task_pids[j] # 0 =>
               IF task_pids[j] \in Pool THEN doing[task_pids[j]] = j ELSE kind[j] = "kills"
      BY <1>0 DEF Stamps
    <3> QED
      BY <3>1, <3>2, <1>0, <1>1 DEF Types
  <2> QED
    BY <2>1, <2>2
<1>7. OnlyHangingTasksAreLate' /\ NoPoison'
  BY <1>0, <1>3 DEF OnlyHangingTasksAreLate, NoPoison, Isolation
<1> QED
  BY <1>4, <1>5, <1>6, <1>7 DEF IInv

\* An answer frees the process.  Neither a poisoned process nor a task that
\* poisons one answers without an accelerator error.
LEMMA ReturnStep ==
  ASSUME IInv, NEW w \in Pids,
         NEW a \in {"time", "failed", "KeyError", "AcceleratorError"}, Return(w, a),
         \/ a \in {"time", "KeyError"} /\ UNCHANGED <<poisoned, poisonings>>
         \/ a = "AcceleratorError" /\ w \in poisoned /\ UNCHANGED <<poisoned, poisonings>>
         \/ a = "failed" /\ poisonings' = poisonings + 1
  PROVE  IInv'
<1> DEFINE k == doing[w]
<1>0. /\ Types /\ Workers /\ Stamps /\ OnlyHangingTasksAreLate /\ NoPoison
      /\ w \in Pool /\ w \notin dead /\ k # 0 /\ k \in Tasks /\ Pool' = Pool
  BY DEF IInv, Return, Alive, Pool, Types
<1>1. /\ answer' = [answer EXCEPT ![k] = a] /\ doing' = [doing EXCEPT ![w] = 0]
      /\ UNCHANGED <<kind, dead, nextPid, queued, task_pids, late, result>>
  BY DEF Return, parentVars
<1>2. Types'
  BY <1>0, <1>1 DEF Types, Outcomes
<1>3. Workers'
  BY <1>0, <1>1 DEF Workers, Types
<1>4. Stamps'
  <2> SUFFICES ASSUME NEW j \in Remaining
               PROVE  /\ task_pids[j] < nextPid
                      /\ answer'[j] = "none" /\ task_pids[j] # 0 =>
                           IF task_pids[j] \in Pool THEN doing'[task_pids[j]] = j
                                                    ELSE kind[j] = "kills"
    BY <1>0, <1>1 DEF Stamps, Remaining
  <2>1. CASE j = k
    BY <2>1, <1>0, <1>1 DEF Stamps, Types
  <2>2. CASE j # k
    BY <2>2, <1>0, <1>1 DEF Stamps, Types, Remaining
  <2> QED
    BY <2>1, <2>2
<1>5. OnlyHangingTasksAreLate' /\ Isolation' = Isolation
  BY <1>0, <1>1 DEF OnlyHangingTasksAreLate, Isolation
<1>6. NoPoison'
  <2>1. ASSUME poisonings' = 0
        PROVE  poisonings = 0 /\ poisoned' = poisoned /\ a \in {"time", "KeyError"}
    BY <2>1, <1>0 DEF NoPoison, Types
  <2> QED
    BY <2>1, <1>0, <1>1, <1>5 DEF NoPoison, Types
<1> QED
  BY <1>2, <1>3, <1>4, <1>5, <1>6 DEF IInv

\* A process dies of the task it is at, and nothing else changes.
LEMMA DieStep ==
  ASSUME IInv, NEW w \in Pids, Die(w)
  PROVE  IInv'
BY DEF IInv, Die, Timing, Alive, parentVars, Types, Workers, Stamps, Remaining, Pool,
       OnlyHangingTasksAreLate, NoPoison, Isolation

\* A task is late only if it hangs.
LEMMA OverrunStep ==
  ASSUME IInv, NEW w \in Pids, Overrun(w)
  PROVE  IInv'
BY DEF IInv, Overrun, Timing, Alive, parentVars, Types, Workers, Stamps, Remaining, Pool,
       OnlyHangingTasksAreLate, NoPoison, Isolation

\* The pid of a replacement is on no stamp, and the task of the process it
\* replaces is one that kills.
LEMMA MaintainStep ==
  ASSUME IInv, NEW w \in Pids, MaintainPool(w)
  PROVE  IInv'
<1>0. /\ Types /\ Workers /\ Stamps /\ OnlyHangingTasksAreLate /\ NoPoison
      /\ w \in Pool /\ w \in dead /\ nextPid \notin Pool /\ nextPid \in Nat
  BY DEF IInv, MaintainPool, Types
<1>1. /\ Pool' = (Pool \ {w}) \cup {nextPid}
      /\ \A v \in Pool' : doing'[v] = IF v = nextPid THEN 0 ELSE doing[v]
      /\ dead' = dead \ {w} /\ nextPid' = nextPid + 1
      /\ UNCHANGED <<kind, poisoned, queued, task_pids, late, answer, result, poisonings>>
  BY DEF MaintainPool, Pool, Others, parentVars
<1>2. Types'
  <2>1. Pool' \subseteq 1..(nextPid' - 1)
    BY <1>0, <1>1 DEF Types
  <2>2. doing' \in [Pool' -> Tasks \cup {0}]
    <3>1. doing' = [v \in Pool' |-> doing'[v]]
      BY DEF MaintainPool, Pool, Others
    <3>2. \A v \in Pool' : doing'[v] \in Tasks \cup {0}
      BY <1>0, <1>1 DEF Types
    <3> QED
      BY <3>1, <3>2
  <2> QED
    BY <2>1, <2>2, <1>0, <1>1 DEF Types
<1>3. Workers'
  BY <1>0, <1>1 DEF Workers
<1>4. Stamps'
  <2> SUFFICES ASSUME NEW k \in Remaining
               PROVE  /\ task_pids[k] < nextPid + 1
                      /\ answer[k] = "none" /\ task_pids[k] # 0 =>
                           IF task_pids[k] \in Pool' THEN doing'[task_pids[k]] = k
                                                     ELSE kind[k] = "kills"
    BY <1>1 DEF Stamps, Remaining
  <2>1. task_pids[k] \in Nat /\ task_pids[k] < nextPid
    BY <1>0 DEF Stamps, Types, Remaining
  <2>2. CASE task_pids[k] = w /\ answer[k] = "none" /\ task_pids[k] # 0
    <3>1. doing[w] = k /\ k # 0
      BY <2>2, <1>0 DEF Stamps, Remaining, Tasks
    <3> QED
      BY <3>1, <2>1, <2>2, <1>0, <1>1 DEF Workers
  <2>3. CASE task_pids[k] # w
    BY <2>1, <2>3, <1>0, <1>1 DEF Stamps
  <2> QED
    BY <2>1, <2>2, <2>3, <1>0
<1>5. OnlyHangingTasksAreLate' /\ NoPoison'
  BY <1>0, <1>1 DEF OnlyHangingTasksAreLate, NoPoison, Isolation
<1> QED
  BY <1>2, <1>3, <1>4, <1>5 DEF IInv

\* A step of a process preserves the invariant.
LEMMA ProcessStep ==
  ASSUME IInv, NEW w \in Pids, Process(w)
  PROVE  IInv'
<1>1. CASE RaiseMappingError(w) \/ RaiseAcceleratorError(w) \/ ReturnTime(w) \/ ReturnPoisoned(w)
  BY <1>1, ReturnStep DEF RaiseMappingError, RaiseAcceleratorError, ReturnTime, ReturnPoisoned
<1> QED
  BY <1>1, TakeStep, DieStep, MaintainStep, OverrunStep DEF Process

-----------------------------------------------------------------------------
\* The parent changes nothing but the result of the task it polls.
LEMMA ResultStep ==
  ASSUME IInv, NEW k \in Remaining, NEW v \in {"time", "failed", "dummy"},
         result' = [result EXCEPT ![k] = v],
         UNCHANGED <<kind, doing, dead, poisoned, nextPid, queued, task_pids, late, answer, poisonings>>,
         poisonings = 0 /\ kind[k] = "fine" => v = "time"
  PROVE  IInv'
<1>1. Types /\ Types' /\ Pool' = Pool /\ k \in Tasks
  BY DEF IInv, Types, Remaining, Outcomes, Pool
<1>2. Remaining' \subseteq Remaining
  BY <1>1 DEF Types, Remaining
<1>3. Stamps'
  BY <1>1, <1>2 DEF IInv, Stamps
<1>4. Workers' /\ OnlyHangingTasksAreLate'
  BY <1>1 DEF IInv, Workers, OnlyHangingTasksAreLate
<1>5. NoPoison'
  BY <1>1 DEF IInv, NoPoison, Isolation, Types
<1> QED
  BY <1>1, <1>3, <1>4, <1>5 DEF IInv

\* A task that can be timed is given up only after an accelerator error: its
\* stamp is of no process that has gone, and it is never late.
LEMMA PollStep ==
  ASSUME IInv, NEW k \in Tasks,
         Pass(k) \/ Complete(k) \/ LoseWorker(k) \/ TimeOut(k) \/ AcceleratorFault(k)
  PROVE  IInv'
<1>0. /\ Types /\ Stamps /\ OnlyHangingTasksAreLate /\ NoPoison /\ k \in Remaining
      /\ UNCHANGED <<kind, doing, dead, poisoned, nextPid, queued, task_pids, late, answer, poisonings>>
  BY DEF IInv, Pass, Complete, LoseWorker, TimeOut, AcceleratorFault, Poll
<1>1. CASE Pass(k)
  BY <1>0, <1>1 DEF Pass, IInv, Types, Workers, Stamps, Remaining, Pool,
                    OnlyHangingTasksAreLate, NoPoison, Isolation
<1>2. CASE Complete(k)
  BY <1>0, <1>2, ResultStep DEF Complete, NoPoison
<1>3. CASE LoseWorker(k)
  <2>1. kind[k] # "fine"
    BY <1>0, <1>3 DEF LoseWorker, WorkerExited, Stamps
  <2> QED
    BY <1>0, <1>3, <2>1, ResultStep DEF LoseWorker, GiveUp
<1>4. CASE TimeOut(k)
  <2>1. kind[k] # "fine"
    BY <1>0, <1>4 DEF TimeOut, OnlyHangingTasksAreLate
  <2> QED
    BY <1>0, <1>4, <2>1, ResultStep DEF TimeOut, GiveUp
<1>5. CASE AcceleratorFault(k)
  BY <1>0, <1>5, ResultStep DEF AcceleratorFault, GiveUp, NoPoison
<1> QED
  BY <1>1, <1>2, <1>3, <1>4, <1>5

\* A new pool starts with no stamp, no answer and no poisoned process.
LEMMA RestartStep ==
  ASSUME IInv, Restart
  PROVE  IInv'
<1>0. /\ Types /\ OnlyHangingTasksAreLate /\ NoPoison
      /\ doing' = [w \in 1..NumGpus |-> 0] /\ Pool' = 1..NumGpus
      /\ dead' = {} /\ poisoned' = {} /\ nextPid' = NumGpus + 1
      /\ queued' = Remaining /\ late' \subseteq late
      /\ task_pids' = [k \in Tasks |-> IF k \in Remaining THEN 0 ELSE task_pids[k]]
      /\ answer' = [k \in Tasks |-> IF k \in Remaining THEN "none" ELSE answer[k]]
      /\ UNCHANGED <<kind, result, poisonings>> /\ Remaining' = Remaining
  BY DEF IInv, Restart, Pool, ResetStamps, Remaining
<1>1. Types'
  BY <1>0, TunerPoolAssumption DEF Types, Remaining, Outcomes
<1>2. Workers'
  BY <1>0 DEF Workers
<1>3. Stamps'
  BY <1>0, TunerPoolAssumption DEF Stamps, Remaining
<1>4. OnlyHangingTasksAreLate' /\ NoPoison'
  BY <1>0 DEF OnlyHangingTasksAreLate, NoPoison, Isolation
<1> QED
  BY <1>1, <1>2, <1>3, <1>4 DEF IInv

\* The invariant holds of a pool that starts.
LEMMA IInvInit == Init => IInv
<1> SUFFICES ASSUME Init PROVE IInv
  OBVIOUS
<1>1. kind \in [Tasks -> Kinds]
  BY DEF Init
<1>2. Types
  BY <1>1, TunerPoolAssumption DEF Init, Types, Pool, Outcomes
<1>3. Workers /\ Stamps
  BY TunerPoolAssumption DEF Init, Workers, Stamps, Remaining, Pool
<1>4. NoPoison
  BY DEF Init, NoPoison, Isolation
<1> QED
  BY <1>2, <1>3, <1>4 DEF Init, IInv, OnlyHangingTasksAreLate

\* Every step of a process and of the parent preserves it.
LEMMA IInvNext == IInv /\ [Next]_vars => IInv'
<1> SUFFICES ASSUME IInv, [Next]_vars PROVE IInv'
  OBVIOUS
<1>1. CASE Continue \/ UNCHANGED vars
  BY <1>1 DEF Continue, vars, IInv, Types, Workers, Stamps, Remaining, Pool,
              OnlyHangingTasksAreLate, NoPoison, Isolation
<1> QED
  BY <1>1, ProcessStep, PollStep, RestartStep DEF Next, Parent

\* As long as no accelerator error has struck, no task that can be timed is
\* given up, whatever tasks die or hang and however often the pool is started
\* anew: the lost-worker check never takes the stamp of an earlier attempt.
THEOREM IsolationHolds == Spec => [](poisonings = 0 => Isolation)
<1>1. IInv => (poisonings = 0 => Isolation)
  BY DEF IInv, NoPoison
<1> QED
  BY <1>1, IInvInit, IInvNext, PTL DEF Spec

-----------------------------------------------------------------------------
\* What bounds the pool: it has a process for each GPU; each process that it
\* has replaced has taken a task, a different one each, for no task is taken
\* twice in one pool.
Replacements ==
  /\ IsFiniteSet(Pool) /\ Cardinality(Pool) = NumGpus
  /\ \A k \in queued : task_pids[k] = 0
  /\ \A w \in dead : doing[w] # 0
  /\ \A p \in (1..(nextPid - 1)) \ Pool : \E k \in Tasks : task_pids[k] = p

\* The parent counts no more timeouts than it has polled tasks in this round.
CountsPolled == stuck \in Nat /\ stuck < at

\* The inductive invariant of the types.
TypeInv == IInv /\ TypeOK /\ Replacements /\ CountsPolled

\* A pool has no more pids than it has processes and tasks: the ones beyond
\* those of its processes are on stamps.
LEMMA PidBound ==
  ASSUME NEW P, IsFiniteSet(P), Cardinality(P) = NumGpus, NEW n \in Nat,
         NEW f \in [Tasks -> Nat], \A p \in (1..n) \ P : \E k \in Tasks : f[k] = p
  PROVE  n <= NumGpus + NumTasks
<1> DEFINE T == {f[k] : k \in Tasks}
<1>1. IsFiniteSet(Tasks) /\ Cardinality(Tasks) = NumTasks
  BY FS_Interval, TunerPoolAssumption DEF Tasks
<1>2. f \in Surjection(Tasks, T)
  BY DEF Surjection
<1>3. IsFiniteSet(T) /\ Cardinality(T) <= NumTasks
  BY <1>1, <1>2, FS_Surjection
<1>4. /\ IsFiniteSet(P \cup T)
      /\ Cardinality(P \cup T) = Cardinality(P) + Cardinality(T) - Cardinality(P \cap T)
  BY <1>3, FS_Union
<1>5. Cardinality(T) \in Nat /\ Cardinality(P \cap T) \in Nat
  BY <1>3, FS_CardinalityType, FS_Intersection
<1>6. 1..n \in SUBSET (P \cup T)
  OBVIOUS
<1>7. Cardinality(1..n) <= Cardinality(P \cup T)
  BY <1>4, <1>6, FS_Subset
<1>8. Cardinality(1..n) = n
  BY FS_Interval
<1>9. Cardinality(P \cup T) \in Nat
  BY <1>4, FS_CardinalityType
<1> HIDE DEF T
<1> QED
  BY <1>3, <1>4, <1>5, <1>7, <1>8, <1>9, TunerPoolAssumption

\* The processes of a new pool that answer have pids of that pool.
LEMMA MapsAreTyped ==
  ASSUME NEW m \in Maps
  PROVE  DOMAIN m \subseteq Pids /\ m \in [DOMAIN m -> Gpus]
<1>1. PICK f \in Answers : m \in MapsOf(f)
  BY DEF Maps
<1>2. f \in [Gpus -> 1..NumGpus]
  BY TunerPoolAssumption DEF Answers, Gpus
<1> QED
  BY <1>1, <1>2, TunerPoolAssumption DEF MapsOf, Pids

\* A new pool has a process for each GPU and no stamp.
LEMMA NewPool ==
  /\ IsFiniteSet(1..NumGpus) /\ Cardinality(1..NumGpus) = NumGpus
  /\ 1..NumGpus \subseteq Pids /\ NumGpus + 1 \in Pids
  BY FS_Interval, TunerPoolAssumption DEF Pids

\* A process takes a task that has no stamp, so that no stamp is lost.
LEMMA TakeReplacements ==
  ASSUME TypeInv, NEW w \in Pids, Take(w)
  PROVE  Replacements'
<1>0. /\ Types /\ Replacements /\ Workers
      /\ w \in Pool /\ w \notin dead /\ doing[w] = 0 /\ Pool' = Pool
  BY DEF TypeInv, IInv, Take, Alive, Pool, Types
<1>1. PICK k \in queued : /\ doing' = [doing EXCEPT ![w] = k]
                          /\ task_pids' = [task_pids EXCEPT ![k] = w]
                          /\ queued' = queued \ {k}
                          /\ UNCHANGED <<dead, nextPid>>
  BY DEF Take
<1>2. \A j \in Tasks : j # k => task_pids'[j] = task_pids[j]
  BY <1>0, <1>1 DEF Types
<1>3. \A j \in queued' : task_pids'[j] = 0
  BY <1>0, <1>1, <1>2 DEF Replacements, Types
<1>4. \A v \in dead' : doing'[v] # 0
  BY <1>0, <1>1 DEF Replacements, Types
<1>5. ASSUME NEW p \in (1..(nextPid - 1)) \ Pool
      PROVE  \E j \in Tasks : task_pids'[j] = p
  <2>1. PICK j \in Tasks : task_pids[j] = p
    BY <1>0, <1>5 DEF Replacements
  <2>2. task_pids[k] = 0 /\ p # 0
    BY <1>0, <1>1, <1>5 DEF Replacements
  <2> QED
    BY <2>1, <2>2, <1>2
<1> QED
  BY <1>0, <1>1, <1>3, <1>4, <1>5 DEF Replacements

\* The pool reaps a process and starts another: the task of the one that is
\* gone has its stamp.
LEMMA MaintainReplacements ==
  ASSUME TypeInv, NEW w \in Pids, MaintainPool(w)
  PROVE  Replacements' /\ nextPid' - 1 <= NumGpus + NumTasks
<1>0. /\ Types /\ Types' /\ Replacements /\ Workers
      /\ w \in Pool /\ w \in dead /\ nextPid \notin Pool /\ nextPid \in Nat \ {0}
  <2>1. Types'
    BY MaintainStep DEF TypeInv, IInv
  <2>2. Types /\ Replacements /\ Workers /\ w \in dead
    BY DEF TypeInv, IInv, MaintainPool
  <2>3. nextPid \in Nat \ {0}
    BY <2>2, TunerPoolAssumption DEF TypeInv, TypeOK, Pids
  <2>4. dead \subseteq Pool /\ Pool \subseteq 1..(nextPid - 1)
    BY <2>2 DEF Types
  <2>5. w \in Pool /\ nextPid \notin Pool
    BY <2>2, <2>3, <2>4
  <2> QED
    BY <2>1, <2>2, <2>3, <2>5
<1>1. /\ Pool' = (Pool \ {w}) \cup {nextPid}
      /\ \A v \in Pool' : doing'[v] = IF v = nextPid THEN 0 ELSE doing[v]
      /\ dead' = dead \ {w} /\ nextPid' = nextPid + 1
      /\ UNCHANGED <<queued, task_pids>>
  BY DEF MaintainPool, Pool, Others
<1>2. IsFiniteSet(Pool') /\ Cardinality(Pool') = NumGpus
  <2>1. IsFiniteSet(Pool \ {w}) /\ Cardinality(Pool \ {w}) = NumGpus - 1
    BY <1>0, FS_RemoveElement DEF Replacements
  <2>2. nextPid \notin Pool \ {w}
    BY <1>0
  <2>3. /\ IsFiniteSet((Pool \ {w}) \cup {nextPid})
        /\ Cardinality((Pool \ {w}) \cup {nextPid}) = Cardinality(Pool \ {w}) + 1
    BY <2>1, <2>2, FS_AddElement
  <2> QED
    BY <2>1, <2>3, <1>1, TunerPoolAssumption
<1>3. \A v \in dead' : doing'[v] # 0
  BY <1>0, <1>1 DEF Replacements, Types
<1>4. ASSUME NEW p \in (1..(nextPid' - 1)) \ Pool'
      PROVE  \E k \in Tasks : task_pids'[k] = p
  <2>1. CASE p = w
    <3>1. doing[w] # 0 /\ doing[w] \in Tasks /\ task_pids[doing[w]] = w
      BY <1>0 DEF Replacements, Workers, Types
    <3> QED
      BY <3>1, <2>1, <1>1
  <2>2. CASE p # w
    <3>1. p \in (1..(nextPid - 1)) \ Pool
      BY <2>2, <1>0, <1>1, <1>4
    <3> QED
      BY <3>1, <1>0, <1>1 DEF Replacements
  <2> QED
    BY <2>1, <2>2
<1>5. Replacements'
  BY <1>0, <1>1, <1>2, <1>3, <1>4 DEF Replacements
<1>6. nextPid' - 1 \in Nat /\ task_pids' \in [Tasks -> Nat]
  BY <1>0, <1>1 DEF Types
<1>7. nextPid' - 1 <= NumGpus + NumTasks
  BY <1>2, <1>4, <1>6, PidBound
<1> QED
  BY <1>5, <1>7

\* Nothing else that a process or the parent does disturbs the stamps of a pool.
LEMMA OtherReplacements ==
  ASSUME TypeInv, UNCHANGED <<queued, task_pids, nextPid, dead>>, DOMAIN doing' = Pool,
         \A v \in dead : doing'[v] # 0
  PROVE  Replacements'
BY DEF TypeInv, Replacements, Pool

\* The types that Types leaves out, of the pool and of the round.
PoolTypes ==
  /\ Pool \subseteq Pids /\ poisoned \subseteq Pids
  /\ nextPid \in Pids \cup {NumGpus + NumTasks + 1}
  /\ DOMAIN gpu_map \subseteq Pids /\ gpu_map \in [DOMAIN gpu_map -> Gpus]
  /\ task_pids \in [Tasks -> Pids \cup {0}]

RoundTypes == timed \in BOOLEAN /\ at \in 1..(NumTasks + 1) /\ pool_restart_needed \in BOOLEAN

\* The type invariant in parts, as the steps below prove it.
LEMMA TypesInParts ==
  /\ TypeOK => PoolTypes /\ RoundTypes
  /\ Types /\ Replacements /\ PoolTypes /\ RoundTypes /\ CountsPolled => TypeOK
<1>1. TypeOK => PoolTypes /\ RoundTypes
  BY DEF TypeOK, PoolTypes, RoundTypes
<1>2. RoundTypes /\ CountsPolled => stuck \in 0..NumTasks
  BY TunerPoolAssumption DEF RoundTypes, CountsPolled
<1>3. Types /\ Replacements /\ PoolTypes /\ RoundTypes /\ CountsPolled => TypeOK
  BY <1>2 DEF Types, Replacements, PoolTypes, RoundTypes, TypeOK, Outcomes
<1> QED
  BY <1>1, <1>3

\* A step of a process keeps to the pids of its pool.
LEMMA ProcessTypes ==
  ASSUME TypeInv, NEW w \in Pids, Process(w)
  PROVE  PoolTypes' /\ Replacements' /\ UNCHANGED <<timed, parentVars>>
<1>0. Replacements /\ Types /\ PoolTypes /\ NumGpus + NumTasks + 1 \in Nat
  BY TypesInParts, TunerPoolAssumption DEF TypeInv, IInv
<1>1. CASE Take(w)
  <2>1. PICK k \in queued : task_pids' = [task_pids EXCEPT ![k] = w]
    BY <1>1 DEF Take
  <2>2. PoolTypes'
    BY <1>0, <1>1, <2>1 DEF Take, PoolTypes, Types, Pool, Alive
  <2> QED
    BY <1>1, <2>2, TakeReplacements DEF Take
<1>2. CASE RaiseMappingError(w) \/ RaiseAcceleratorError(w) \/ ReturnTime(w) \/ ReturnPoisoned(w)
  <2>1. /\ \E a \in {"time", "failed", "KeyError", "AcceleratorError"} : Return(w, a)
        /\ poisoned' \subseteq poisoned \cup {w}
    BY <1>2 DEF RaiseMappingError, RaiseAcceleratorError, ReturnTime, ReturnPoisoned
  <2>2. /\ doing' = [doing EXCEPT ![w] = 0] /\ w \notin dead /\ Pool' = Pool
        /\ UNCHANGED <<dead, nextPid, gpu_map, queued, task_pids, timed, parentVars>>
    BY <2>1, <1>0 DEF Return, Alive, Pool
  <2>3. \A v \in dead : doing'[v] # 0
    BY <2>2, <1>0 DEF Replacements, Types
  <2> QED
    BY <2>1, <2>2, <2>3, <1>0, OtherReplacements DEF PoolTypes, Pool
<1>3. CASE Die(w)
  <2>1. /\ UNCHANGED <<doing, nextPid, gpu_map, queued, task_pids, timed, parentVars, poisoned>>
        /\ dead' = dead \cup {w} /\ doing[w] # 0
    BY <1>3 DEF Die, Timing
  <2> QED
    BY <2>1, <1>0 DEF PoolTypes, Replacements, Pool
<1>4. CASE MaintainPool(w)
  <2>1. Replacements' /\ nextPid' - 1 <= NumGpus + NumTasks
    BY <1>4, MaintainReplacements
  <2>2. /\ Pool' = (Pool \ {w}) \cup {nextPid} /\ nextPid' = nextPid + 1
        /\ UNCHANGED <<poisoned, gpu_map, task_pids, timed, parentVars>>
    BY <1>4 DEF MaintainPool, Pool, Others
  <2>3. nextPid \in Pids /\ nextPid' \in Pids \cup {NumGpus + NumTasks + 1}
    BY <2>1, <2>2, <1>0, TunerPoolAssumption DEF PoolTypes, Pids
  <2> QED
    BY <2>1, <2>2, <2>3, <1>0 DEF PoolTypes
<1>5. CASE Overrun(w)
  BY <1>0, <1>5 DEF Overrun, PoolTypes, Replacements, Pool
<1> QED
  BY <1>1, <1>2, <1>3, <1>4, <1>5 DEF Process

\* The parent counts a timeout only as it goes on to a later task.
LEMMA ParentTypes ==
  ASSUME TypeInv, Parent
  PROVE  PoolTypes' /\ Replacements' /\ RoundTypes' /\ CountsPolled'
<1>0. /\ Replacements /\ Types /\ PoolTypes /\ RoundTypes /\ CountsPolled
      /\ NumTasks + 1 \in Nat /\ NumTasks >= 1
  BY TypesInParts, TunerPoolAssumption DEF TypeInv, IInv
<1>1. ASSUME NEW k \in Tasks,
             Pass(k) \/ Complete(k) \/ LoseWorker(k) \/ TimeOut(k) \/ AcceleratorFault(k)
      PROVE  PoolTypes' /\ Replacements' /\ RoundTypes' /\ CountsPolled'
  <2>1. /\ UNCHANGED <<timed, doing, dead, poisoned, nextPid, gpu_map, queued, task_pids>>
        /\ k \in 1..NumTasks /\ at <= k
    BY <1>1 DEF Pass, Complete, LoseWorker, TimeOut, AcceleratorFault, Poll, Tasks
  <2>2. PoolTypes' /\ Replacements'
    BY <2>1, <1>0 DEF PoolTypes, Replacements, Pool
  <2>3. /\ at' = k + 1 \/ at' = NumTasks + 1
        /\ stuck' = 0 \/ stuck' = stuck \/ stuck' = stuck + 1
        /\ pool_restart_needed' \in {pool_restart_needed, TRUE}
    BY <1>1 DEF Pass, Complete, LoseWorker, TimeOut, AcceleratorFault, Goes, Break, GiveUp
  <2>4. at \in Nat /\ stuck \in Nat /\ stuck < at /\ k \in 1..NumTasks /\ at <= k
    BY <2>1, <1>0, TunerPoolAssumption DEF RoundTypes, CountsPolled
  <2>5. at' \in 1..(NumTasks + 1) /\ CountsPolled'
    <3>1. CASE at' = k + 1
      BY <3>1, <2>3, <2>4, TunerPoolAssumption DEF CountsPolled
    <3>2. CASE at' = NumTasks + 1
      BY <3>2, <2>3, <2>4, TunerPoolAssumption DEF CountsPolled
    <3> QED
      BY <3>1, <3>2, <2>3
  <2>6. RoundTypes'
    BY <2>1, <2>3, <2>5, <1>0 DEF RoundTypes
  <2> QED
    BY <2>2, <2>5, <2>6
<1>2. CASE Continue
  BY <1>0, <1>2 DEF Continue, PoolTypes, Replacements, RoundTypes, CountsPolled, Pool
<1>3. CASE Restart
  <2>1. /\ Pool' = 1..NumGpus /\ dead' = {} /\ poisoned' = {} /\ nextPid' = NumGpus + 1
        /\ gpu_map' \in Maps /\ queued' = Remaining /\ task_pids' = ResetStamps
        /\ at' = 1 /\ stuck' = 0 /\ pool_restart_needed' = FALSE /\ timed' = timed
    BY <1>3 DEF Restart, Pool
  <2>2. PoolTypes'
    BY <2>1, <1>0, MapsAreTyped, NewPool DEF PoolTypes, ResetStamps
  <2>3. (1..(nextPid' - 1)) \ Pool' = {}
    BY <2>1, TunerPoolAssumption
  <2>4. \A k \in queued' : task_pids'[k] = 0
    BY <2>1 DEF ResetStamps, Remaining
  <2>5. Replacements'
    BY <2>1, <2>3, <2>4, NewPool DEF Replacements
  <2>6. at' \in 1..(NumTasks + 1) /\ CountsPolled'
    <3>1. at' = 1 /\ stuck' = 0
      BY <2>1
    <3> QED
      BY <3>1, TunerPoolAssumption DEF CountsPolled
  <2>7. RoundTypes'
    BY <2>1, <2>6, <1>0 DEF RoundTypes
  <2> QED
    BY <2>2, <2>5, <2>6, <2>7
<1> QED
  BY <1>1, <1>2, <1>3 DEF Parent

\* The invariant of the types holds of a pool that starts.
LEMMA TypeInvInit == Init => TypeInv
<1> SUFFICES ASSUME Init PROVE TypeInv
  OBVIOUS
<1>1. IInv
  BY IInvInit
<1>2. /\ Pool = 1..NumGpus /\ dead = {} /\ poisoned = {} /\ nextPid = NumGpus + 1
      /\ gpu_map \in Maps /\ task_pids = [k \in Tasks |-> 0] /\ queued = Tasks
      /\ at = 1 /\ stuck = 0 /\ pool_restart_needed = FALSE /\ timed \in BOOLEAN
  BY DEF Init, Pool
<1>3. PoolTypes
  BY <1>2, MapsAreTyped, NewPool DEF PoolTypes
<1>4. (1..(nextPid - 1)) \ Pool = {} /\ \A k \in queued : task_pids[k] = 0
  BY <1>2, TunerPoolAssumption
<1>5. Replacements
  BY <1>2, <1>4, NewPool DEF Replacements
<1>6. at \in 1..(NumTasks + 1) /\ CountsPolled
  <2>1. at = 1 /\ stuck = 0
    BY <1>2
  <2> QED
    BY <2>1, TunerPoolAssumption DEF CountsPolled
<1>7. RoundTypes
  BY <1>2, <1>6 DEF RoundTypes
<1> QED
  BY <1>1, <1>3, <1>5, <1>6, <1>7, TypesInParts DEF TypeInv, IInv

\* Every step preserves it.
LEMMA TypeInvNext == TypeInv /\ [Next]_vars => TypeInv'
<1> SUFFICES ASSUME TypeInv, [Next]_vars PROVE TypeInv'
  OBVIOUS
<1>1. IInv'
  BY IInvNext DEF TypeInv
<1>2. ASSUME PoolTypes', Replacements', RoundTypes', CountsPolled' PROVE TypeInv'
  <2>1. Types'
    BY <1>1 DEF IInv
  <2>2. stuck' \in 0..NumTasks
    BY <1>2, TunerPoolAssumption DEF RoundTypes, CountsPolled
  <2>3. TypeOK'
    BY <2>1, <2>2, <1>2 DEF Types, Replacements, PoolTypes, RoundTypes, TypeOK, Outcomes
  <2> QED
    BY <2>3, <1>1, <1>2 DEF TypeInv
<1>3. CASE Parent
  BY <1>2, <1>3, ParentTypes
<1>4. CASE \E w \in Pids : Process(w)
  <2>1. PoolTypes' /\ Replacements' /\ UNCHANGED <<timed, parentVars>>
    BY <1>4, ProcessTypes
  <2>2. RoundTypes' /\ CountsPolled'
    BY <2>1, TypesInParts DEF TypeInv, RoundTypes, CountsPolled, parentVars
  <2> QED
    BY <2>1, <2>2, <1>2
<1>5. CASE UNCHANGED vars
  <2>1. PoolTypes /\ RoundTypes /\ Replacements /\ CountsPolled
    BY TypesInParts DEF TypeInv
  <2>2. PoolTypes' /\ Replacements' /\ RoundTypes' /\ CountsPolled'
    BY <1>5, <2>1 DEF vars, PoolTypes, Replacements, RoundTypes, CountsPolled, Pool
  <2> QED
    BY <2>2, <1>2
<1> QED
  BY <1>3, <1>4, <1>5 DEF Next

\* The state keeps its types: however many workers die, a pool has one for each
\* GPU and starts no more than one for each of them and one for each task, and
\* the parent counts no more timeouts than there are tasks.
THEOREM TypeCorrect == Spec => []TypeOK
<1>1. TypeInv => TypeOK
  BY DEF TypeInv
<1> QED
  BY <1>1, TypeInvInit, TypeInvNext, PTL DEF Spec

-----------------------------------------------------------------------------
\* The tasks that LossesBounded counts.
Lost == {k \in Tasks : kind[k] = "fine" /\ result[k] \notin {"none", "time"}}

\* May another such task be lost without a further accelerator error?  Only
\* before the fault of the first one has ended the round: the next round has a
\* new pool.
Exposed ==
  /\ ~(RoundOver /\ pool_restart_needed)
  /\ poisoned # {} \/ \E k \in Remaining : answer[k] = "AcceleratorError"

\* The task that may be lost is one that an accelerator error has paid for.
Budget ==
  /\ Cardinality(Lost) <= poisonings
  /\ Exposed => Cardinality(Lost) < poisonings

\* A failure is the result of a kernel that fails.
FailuresOwn == \A k \in Tasks : answer[k] = "failed" => kind[k] = "poisons"

\* The inductive invariant of the losses.
LossInv == TypeInv /\ FailuresOwn /\ Budget

\* One more task in a set of tasks makes it larger by one at most.
LEMMA LostCount ==
  ASSUME NEW S \in SUBSET Tasks, NEW k \in Tasks, NEW R, R = S \/ R = S \cup {k}
  PROVE  Cardinality(S) \in Nat /\ Cardinality(R) \in Nat /\ Cardinality(R) <= Cardinality(S) + 1
<1>1. IsFiniteSet(Tasks)
  BY FS_Interval, TunerPoolAssumption DEF Tasks
<1>2. IsFiniteSet(S) /\ Cardinality(S) \in Nat
  BY <1>1, FS_Subset, FS_CardinalityType
<1>3. CASE R = S
  BY <1>2, <1>3
<1>4. CASE R = S \cup {k}
  <2>1. Cardinality(S \cup {k}) = IF k \in S THEN Cardinality(S) ELSE Cardinality(S) + 1
    BY <1>2, FS_AddElement
  <2> QED
    BY <2>1, <1>2, <1>4
<1> QED
  BY <1>3, <1>4

\* The number of tasks lost is a number.
LEMMA LostIsFinite == Types => Cardinality(Lost) \in Nat
<1>1. IsFiniteSet(Tasks)
  BY FS_Interval, TunerPoolAssumption DEF Tasks
<1>2. Lost \in SUBSET Tasks
  BY DEF Lost
<1> QED
  BY <1>1, <1>2, FS_Subset, FS_CardinalityType

\* A process costs no task its result; that it exposes one takes an
\* accelerator error, which is counted.
LEMMA ProcessLosses ==
  ASSUME LossInv, NEW w \in Pids, Process(w)
  PROVE  Budget' /\ FailuresOwn'
<1>0. Types /\ FailuresOwn /\ Budget /\ poisonings \in Nat /\ Cardinality(Lost) \in Nat
  BY LostIsFinite DEF LossInv, TypeInv, IInv, Types
<1>1. UNCHANGED <<kind, parentVars>>
  BY DEF Process, Take, RaiseMappingError, RaiseAcceleratorError, ReturnTime,
         ReturnPoisoned, Return, Die, MaintainPool, Overrun
<1>2. Lost' = Lost /\ Remaining' = Remaining /\ (RoundOver /\ pool_restart_needed)'
                                                  = (RoundOver /\ pool_restart_needed)
  BY <1>1 DEF Lost, Remaining, RoundOver, parentVars
<1>3. CASE ReturnPoisoned(w)
  <2>1. poisonings' = poisonings + 1 /\ kind[doing[w]] = "poisons"
        /\ answer' = [answer EXCEPT ![doing[w]] = "failed"]
    BY <1>3 DEF ReturnPoisoned, Timing, Return
  <2>2. FailuresOwn'
    BY <2>1, <1>0, <1>1 DEF FailuresOwn, Types
  <2>3. Cardinality(Lost') < poisonings'
    BY ONLY <1>2, <2>1, <1>0, Budget DEF Budget
  <2>4. Budget'
    BY ONLY <2>3, <1>2, <2>1, <1>0 DEF Budget
  <2> QED
    BY <2>2, <2>4
<1>4. ASSUME UNCHANGED <<poisoned, poisonings>>,
             \A k \in Tasks : answer'[k] \in {"failed", "AcceleratorError"} =>
               \/ answer'[k] = answer[k]
               \/ answer'[k] = "AcceleratorError" /\ w \in poisoned
      PROVE  Budget' /\ FailuresOwn'
  <2>1. FailuresOwn'
    BY <1>0, <1>1, <1>4 DEF FailuresOwn
  <2>2. Exposed' => Exposed
    BY <1>2, <1>4 DEF Exposed, Remaining
  <2> QED
    BY <2>1, <2>2, <1>0, <1>2, <1>4 DEF Budget
<1>5. CASE RaiseMappingError(w) \/ RaiseAcceleratorError(w) \/ ReturnTime(w)
  <2>1. PICK a : /\ answer' = [answer EXCEPT ![doing[w]] = a]
                 /\ UNCHANGED <<poisoned, poisonings>>
                 /\ a \in {"KeyError", "time"} \/ (a = "AcceleratorError" /\ w \in poisoned)
    BY <1>5 DEF RaiseMappingError, RaiseAcceleratorError, ReturnTime, Return
  <2> QED
    BY <2>1, <1>0, <1>4 DEF Types
<1>6. CASE Take(w) \/ Die(w) \/ MaintainPool(w) \/ Overrun(w)
  BY <1>4, <1>6 DEF Take, Die, MaintainPool, Overrun
<1> QED
  BY <1>3, <1>5, <1>6 DEF Process

\* Only an accelerator error costs a task that can be timed its result, and it
\* ends the round, after which the pool is replaced.
LEMMA PollLosses ==
  ASSUME LossInv, NEW k \in Tasks,
         Pass(k) \/ Complete(k) \/ LoseWorker(k) \/ TimeOut(k) \/ AcceleratorFault(k)
  PROVE  Budget' /\ FailuresOwn'
<1>0. /\ Types /\ Stamps /\ OnlyHangingTasksAreLate /\ FailuresOwn /\ Budget
      /\ k \in Remaining /\ result[k] = "none"
      /\ at <= k /\ poisonings \in Nat /\ Cardinality(Lost) \in Nat
      /\ UNCHANGED <<kind, poisoned, answer, poisonings>>
  <2>1. Types /\ Stamps /\ OnlyHangingTasksAreLate /\ FailuresOwn /\ Budget
    BY DEF LossInv, TypeInv, IInv
  <2>2. poisonings \in Nat /\ Cardinality(Lost) \in Nat
    BY <2>1, LostIsFinite DEF Types
  <2>3. k \in Remaining /\ at <= k /\ UNCHANGED <<kind, poisoned, answer, poisonings>>
    BY DEF Pass, Complete, LoseWorker, TimeOut, AcceleratorFault, Poll
  <2> QED
    BY <2>1, <2>2, <2>3 DEF Remaining
<1>1. FailuresOwn'
  BY <1>0 DEF FailuresOwn
<1>2. ~RoundOver
  BY <1>0, TunerPoolAssumption DEF RoundOver, LossInv, TypeInv, TypeOK, Tasks
<1>3. DOMAIN result = Tasks
  BY <1>0 DEF Types
<1>4. ASSUME result' = result, pool_restart_needed' = pool_restart_needed
      PROVE  Budget'
  <2>1. Lost' = Lost /\ (Exposed' => Exposed)
    BY <1>0, <1>2, <1>4 DEF Lost, Exposed, Remaining
  <2> QED
    BY <2>1, <1>0 DEF Budget
<1>5. ASSUME NEW v \in {"time", "failed", "dummy"}, result' = [result EXCEPT ![k] = v],
             kind[k] = "fine" => v = "time"
      PROVE  Budget'
  <2>1. Lost' = Lost
    BY <1>0, <1>3, <1>5 DEF Lost
  <2>2. Remaining' \subseteq Remaining
    BY <1>0, <1>5 DEF Types, Remaining
  <2>3. Exposed' => Exposed
    BY <2>2, <1>0, <1>2 DEF Exposed
  <2> QED
    BY <2>1, <2>3, <1>0 DEF Budget
<1>6. CASE Pass(k)
  <2>1. result' = result /\ pool_restart_needed' = pool_restart_needed
    BY <1>6 DEF Pass
  <2> QED
    BY <2>1, <1>4, <1>1
<1>7. CASE Complete(k)
  BY <1>0, <1>5, <1>7 DEF Complete, FailuresOwn
<1>8. CASE LoseWorker(k)
  <2>1. kind[k] # "fine"
    BY <1>0, <1>8 DEF LoseWorker, WorkerExited, Stamps
  <2>2. result' = [result EXCEPT ![k] = "dummy"]
    BY <1>8 DEF LoseWorker, GiveUp
  <2> QED
    BY <2>1, <2>2, <1>5, <1>1
<1>9. CASE TimeOut(k)
  <2>1. kind[k] # "fine"
    BY <1>0, <1>9 DEF TimeOut, OnlyHangingTasksAreLate
  <2>2. result' = [result EXCEPT ![k] = "dummy"]
    BY <1>9 DEF TimeOut, GiveUp
  <2> QED
    BY <2>1, <2>2, <1>5, <1>1
<1>10. CASE AcceleratorFault(k)
  <2>1. /\ answer[k] = "AcceleratorError" /\ result' = [result EXCEPT ![k] = "dummy"]
        /\ pool_restart_needed' = TRUE /\ at' = NumTasks + 1
    BY <1>10 DEF AcceleratorFault, GiveUp, Break
  <2>2. Cardinality(Lost) < poisonings
    BY <2>1, <1>0, <1>2 DEF Budget, Exposed
  <2>3. Cardinality(Lost') <= Cardinality(Lost) + 1 /\ Cardinality(Lost') \in Nat
    <3>1. Lost' = Lost \/ Lost' = Lost \cup {k}
      BY <2>1, <1>0, <1>3 DEF Lost
    <3>2. Lost \in SUBSET Tasks
      BY DEF Lost
    <3> QED
      BY <3>1, <3>2, LostCount
  <2>4. Cardinality(Lost') <= poisonings'
    BY ONLY <2>2, <2>3, <1>0
  <2>5. RoundOver'
    BY <2>1, TunerPoolAssumption DEF RoundOver, Remaining, Tasks
  <2>6. ~Exposed'
    BY <2>1, <2>5 DEF Exposed
  <2> QED
    BY <2>4, <2>6, <1>1 DEF Budget
<1> QED
  BY <1>1, <1>6, <1>7, <1>8, <1>9, <1>10

\* A new round with the same pool loses nothing, and a new pool exposes nothing.
LEMMA RoundLosses ==
  ASSUME LossInv, Continue \/ Restart
  PROVE  Budget' /\ FailuresOwn'
<1>0. Types /\ FailuresOwn /\ Budget
  BY DEF LossInv, TypeInv, IInv
<1>1. CASE Continue
  <2>1. UNCHANGED <<kind, poisoned, answer, result, pool_restart_needed, poisonings>>
        /\ ~pool_restart_needed
    BY <1>1 DEF Continue
  <2>2. Lost' = Lost /\ (Exposed' => Exposed) /\ FailuresOwn'
    BY <2>1, <1>0 DEF Lost, Exposed, Remaining, FailuresOwn
  <2> QED
    BY <2>1, <2>2, <1>0 DEF Budget
<1>2. CASE Restart
  <2>1. /\ UNCHANGED <<kind, result, poisonings>> /\ poisoned' = {}
        /\ answer' = [k \in Tasks |-> IF k \in Remaining THEN "none" ELSE answer[k]]
    BY <1>2 DEF Restart
  <2>2. Lost' = Lost /\ ~Exposed' /\ FailuresOwn'
    BY <2>1, <1>0 DEF Lost, Exposed, Remaining, FailuresOwn
  <2> QED
    BY <2>1, <2>2, <1>0 DEF Budget
<1> QED
  BY <1>1, <1>2

\* An accelerator error costs no more than one other task its time, and
\* memory faults and hangs cost none, however many pools a tuning takes.
THEOREM LossesBoundedHolds == Spec => []LossesBounded
<1>1. Init => LossInv
  <2> SUFFICES ASSUME Init PROVE LossInv
    OBVIOUS
  <2>1. /\ poisoned = {} /\ poisonings = 0 /\ answer = [k \in Tasks |-> "none"]
        /\ result = [k \in Tasks |-> "none"]
    BY DEF Init
  <2>2. Lost = {} /\ ~Exposed /\ FailuresOwn
    BY <2>1 DEF Lost, Exposed, FailuresOwn, Remaining
  <2>3. Cardinality(Lost) <= poisonings
    BY <2>1, <2>2, FS_EmptySet
  <2> QED
    BY <2>2, <2>3, TypeInvInit DEF LossInv, Budget
<1>2. LossInv /\ [Next]_vars => LossInv'
  <2> SUFFICES ASSUME LossInv, [Next]_vars PROVE LossInv'
    OBVIOUS
  <2>1. TypeInv'
    BY TypeInvNext DEF LossInv
  <2>2. ASSUME UNCHANGED vars PROVE Budget' /\ FailuresOwn'
    BY <2>2 DEF vars, LossInv, Budget, FailuresOwn, Lost, Exposed, Remaining, RoundOver
  <2>3. Budget' /\ FailuresOwn'
    BY <2>2, ProcessLosses, PollLosses, RoundLosses DEF Next, Parent
  <2> QED
    BY <2>1, <2>3 DEF LossInv
<1>3. LossInv => LossesBounded
  BY DEF LossInv, Budget, Lost, LossesBounded
<1> QED
  BY <1>1, <1>2, <1>3, PTL DEF Spec
=============================================================================
