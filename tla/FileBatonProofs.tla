-------------------------- MODULE FileBatonProofs --------------------------
(***************************************************************************)
(* Mutual exclusion of FileBaton for any number of processes and hosts, in *)
(* an environment free of the three faults that the code is not proof      *)
(* against; crashes anywhere, with .steal held too, and raising builders   *)
(* are allowed.  The argument: a waiter under .steal removes the file only *)
(* on evidence that its creator is dead, and between the evidence and the  *)
(* removal nobody else can replace that file.                              *)
(***************************************************************************)
EXTENDS FileBaton, TLAPS

SafeEnvironment == Faults \cap {"stampFails", "stall", "probeExit"} = {}

\* Who is between try_acquire and release has created the file that is there,
\* and stamped it before it started to build.
HolderOwnsFile ==
  \A p \in Procs : pc[p] \in Holding => /\ creator = p
                                        /\ pc[p] # "stamp" => stamped

\* A file outlives its creator's call only if the creator died in it.
CreatorHolds == creator # None => pc[creator] \in Holding \cup {"dead"}

\* The evidence by age: an old unstamped file is a dead process's.
AgedIsOrphan == aged /\ ~stamped => creator # None /\ pc[creator] = "dead"
AgeReadSound == \A p \in Procs : pc[p] = "age" /\ aged => ~stamped

\* The evidence by pid: under .steal, the dead pid about to be probed is that of
\* the file's creator still.
ProbeSound ==
  \A p \in Procs : /\ pc[p] = "probe" => /\ seen[p] \in Procs
                                        /\ Host[p] = Host[seen[p]]
                   /\ stealer = p /\ pc[p] = "probe" /\ pc[seen[p]] = "dead"
                        => creator = seen[p]

RemoveSound ==
  \A p \in Procs : pc[p] = "remove" => creator # None /\ pc[creator] = "dead"

StealExclusive == \A p \in Procs : pc[p] \in Stealing => stealer = p

IInv ==
  /\ TypeOK
  /\ HolderOwnsFile
  /\ CreatorHolds
  /\ AgedIsOrphan
  /\ AgeReadSound
  /\ ProbeSound
  /\ RemoveSound
  /\ StealExclusive
  /\ RemoteLockKept

-----------------------------------------------------------------------------
\* The first state of every instance satisfies the inductive invariant.
LEMMA InitIInv == Init => IInv
  BY FileBatonAssumption
     DEF Init, IInv, TypeOK, HolderOwnsFile, CreatorHolds, AgedIsOrphan,
         AgeReadSound, ProbeSound, RemoveSound, StealExclusive, RemoteLockKept,
         Places, Holding, Waiting, Stealing, Ended

\* Every step of every process and of the environment preserves it.
LEMMA StepIInv == ASSUME SafeEnvironment, IInv, [Next]_vars PROVE IInv'
<1> USE FileBatonAssumption
        DEF IInv, TypeOK, HolderOwnsFile, CreatorHolds, AgedIsOrphan,
            AgeReadSound, ProbeSound, RemoveSound, StealExclusive, RemoteLockKept,
            Places, Holding, Waiting, Stealing, Ended, At, Goto, file
<1>1. CASE UNCHANGED vars
  BY <1>1 DEF vars
<1>2. CASE Tick
  BY <1>2 DEF Tick, InShortWindow, SafeEnvironment
<1>3. ASSUME NEW p \in Procs, Hold(p) PROVE IInv'
  <2>1. CASE TryNew(p)
    <3>1. TypeOK'
      BY <2>1 DEF TryNew
    <3>2. HolderOwnsFile'
      BY <2>1 DEF TryNew
    <3>3. CreatorHolds'
      BY <2>1 DEF TryNew
    <3>4. AgedIsOrphan'
      BY <2>1 DEF TryNew
    <3>5. AgeReadSound'
      BY <2>1 DEF TryNew
    <3>6. ProbeSound'
      BY <2>1 DEF TryNew
    <3>7. RemoveSound'
      BY <2>1 DEF TryNew
    <3>8. StealExclusive'
      BY <2>1 DEF TryNew
    <3>9. RemoteLockKept'
      BY <2>1 DEF TryNew
    <3> QED BY <3>1, <3>2, <3>3, <3>4, <3>5, <3>6, <3>7, <3>8, <3>9
  <2>2. CASE Stamp(p)
    <3>1. TypeOK'
      BY <2>2 DEF Stamp
    <3>2. HolderOwnsFile'
      BY <2>2 DEF Stamp
    <3>3. CreatorHolds'
      BY <2>2 DEF Stamp
    <3>4. AgedIsOrphan'
      BY <2>2 DEF Stamp
    <3>5. AgeReadSound'
      BY <2>2 DEF Stamp
    <3>6. ProbeSound'
      BY <2>2 DEF Stamp
    <3>7. RemoveSound'
      BY <2>2 DEF Stamp
    <3>8. StealExclusive'
      BY <2>2 DEF Stamp
    <3>9. RemoteLockKept'
      BY <2>2 DEF Stamp
    <3> QED BY <3>1, <3>2, <3>3, <3>4, <3>5, <3>6, <3>7, <3>8, <3>9
  <2>3. CASE MainReturns(p)
    BY <2>3 DEF MainReturns
  <2>4. CASE MainRaises(p)
    BY <2>4 DEF MainRaises
  <2>5. CASE Release(p)
    BY <2>5 DEF Release
  <2>6. CASE StampFails(p)
    BY <2>6 DEF StampFails, SafeEnvironment
  <2> QED BY <1>3, <2>1, <2>2, <2>3, <2>4, <2>5, <2>6 DEF Hold
<1>4. ASSUME NEW p \in Procs, Wait(p) PROVE IInv'
  <2>1. CASE TryBusy(p)
    BY <2>1 DEF TryBusy
  <2>2. CASE WaitOver(p)
    BY <2>2 DEF WaitOver
  <2>3. CASE Look(p)
    BY <2>3 DEF Look
  <2>4. CASE ReadStamp(p)
    BY <2>4 DEF ReadStamp, FreshGoto, CheckableHere
  <2>5. CASE ReadNoStamp(p)
    BY <2>5 DEF ReadNoStamp
  <2>6. CASE Probe(p)
    BY <2>6 DEF Probe, FreshGoto, StaleGoto, PidAlive, Alive
  <2>7. CASE AgeCheck(p)
    BY <2>7 DEF AgeCheck, FreshGoto, StaleGoto, OutlivedGrace
  <2>8. CASE OpenSteal(p)
    BY <2>8 DEF OpenSteal
  <2>9. CASE Recheck(p)
    BY <2>9 DEF Recheck
  <2>10. CASE Remove(p)
    BY <2>10 DEF Remove
  <2>11. CASE DropSteal(p)
    BY <2>11 DEF DropSteal
  <2> QED BY <1>4, <2>1, <2>2, <2>3, <2>4, <2>5, <2>6, <2>7, <2>8, <2>9, <2>10, <2>11 DEF Wait
<1>5. ASSUME NEW p \in Procs, Crash(p) \/ Exit(p) PROVE IInv'
  BY <1>5 DEF Crash, Exit, Dies, ProbeInFlight, SafeEnvironment
<1> QED BY <1>1, <1>2, <1>3, <1>4, <1>5 DEF Next

-----------------------------------------------------------------------------
\* The types hold in every environment.
LEMMA StepTypeOK == ASSUME TypeOK, [Next]_vars PROVE TypeOK'
<1> USE FileBatonAssumption
        DEF TypeOK, Places, Holding, Waiting, Stealing, Ended, At, Goto, file
<1>1. CASE UNCHANGED vars
  BY <1>1 DEF vars
<1>2. CASE Tick
  BY <1>2 DEF Tick
<1>3. ASSUME NEW p \in Procs, Hold(p) PROVE TypeOK'
  <2>1. CASE TryNew(p)
    BY <2>1 DEF TryNew
  <2>2. CASE Stamp(p)
    <3>1. stamped' \in BOOLEAN /\ aged' \in BOOLEAN
      BY <2>2 DEF Stamp
    <3>2. creator = None => ~stamped' /\ ~aged'
      BY <2>2 DEF Stamp
    <3> QED BY <2>2, <3>1, <3>2 DEF Stamp
  <2>3. CASE StampFails(p) \/ MainRaises(p)
    BY <2>3 DEF StampFails, MainRaises
  <2>4. CASE MainReturns(p)
    BY <2>4 DEF MainReturns
  <2>5. CASE Release(p)
    BY <2>5 DEF Release
  <2> QED BY <1>3, <2>1, <2>2, <2>3, <2>4, <2>5 DEF Hold
<1>4. ASSUME NEW p \in Procs, Wait(p) PROVE TypeOK'
  <2>1. CASE TryBusy(p) \/ WaitOver(p) \/ Look(p)
    BY <2>1 DEF TryBusy, WaitOver, Look
  <2>2. CASE ReadStamp(p) \/ ReadNoStamp(p)
    BY <2>2 DEF ReadStamp, ReadNoStamp, FreshGoto
  <2>3. CASE Probe(p) \/ AgeCheck(p)
    BY <2>3 DEF Probe, AgeCheck, FreshGoto, StaleGoto
  <2>4. CASE OpenSteal(p) \/ Recheck(p)
    BY <2>4 DEF OpenSteal, Recheck
  <2>5. CASE Remove(p)
    BY <2>5 DEF Remove
  <2>6. CASE DropSteal(p)
    BY <2>6 DEF DropSteal
  <2> QED BY <1>4, <2>1, <2>2, <2>3, <2>4, <2>5, <2>6 DEF Wait
<1>5. ASSUME NEW p \in Procs, Crash(p) \/ Exit(p) PROVE TypeOK'
  BY <1>5 DEF Crash, Exit, Dies
<1> QED BY <1>1, <1>2, <1>3, <1>4, <1>5 DEF Next

\* Type correctness of FileBaton and mp_lock, whatever the environment does.
THEOREM TypeCorrect == Spec => []TypeOK
<1>1. Init => TypeOK
  BY FileBatonAssumption
     DEF Init, TypeOK, Places, Holding, Waiting, Stealing, Ended
<1>2. TypeOK /\ [Next]_vars => TypeOK'
  BY StepTypeOK
<1> QED BY <1>1, <1>2, PTL DEF Spec

\* The inductive invariant holds in every safe environment.
LEMMA Invariance == ASSUME SafeEnvironment PROVE Spec => []IInv
<1>1. IInv /\ [Next]_vars => IInv'
  BY StepIInv
<1> QED BY InitIInv, <1>1, PTL DEF Spec

\* Two live processes never build under the same baton: both would have created
\* the one file at the lock path (FileBaton.try_acquire).
THEOREM MutualExclusionHolds ==
  ASSUME SafeEnvironment PROVE Spec => []MutualExclusion
<1>1. IInv => MutualExclusion
  BY DEF IInv, HolderOwnsFile, MutualExclusion
<1> QED BY Invariance, <1>1, PTL

\* No waiter is ever about to remove the stamped lock of another machine's
\* process (FileBaton._is_stale).
THEOREM RemoteLockKeptHolds ==
  ASSUME SafeEnvironment PROVE Spec => []RemoteLockKept
<1>1. IInv => RemoteLockKept
  BY DEF IInv
<1> QED BY Invariance, <1>1, PTL

\* A lock file is removed by its creator or after its creator's death, never from
\* under a live builder (FileBaton.release, _try_break_stale).
THEOREM LiveLockKeptHolds ==
  ASSUME SafeEnvironment PROVE Spec => LiveLockKept
<1>1. ASSUME IInv, [Next]_vars, NEW p \in Procs,
             creator = p, p \in Alive, creator' # p
      PROVE  pc[p] = "release" /\ pc'[p] = "built"
  <2> USE DEF At, Goto, file
  <2>1. creator' # creator
    BY <1>1
  <2>2. PICK q \in Procs : TryNew(q) \/ Release(q) \/ Remove(q)
    BY <1>1, <2>1
       DEF Next, vars, Tick, Hold, Wait, Crash, Exit, Dies,
           Stamp, StampFails, MainReturns, MainRaises, TryBusy, WaitOver, Look,
           ReadStamp, ReadNoStamp, Probe, AgeCheck, OpenSteal, Recheck, DropSteal
  <2>3. ~TryNew(q)
    BY <1>1, FileBatonAssumption DEF TryNew
  <2>4. ~Remove(q)
    BY <1>1 DEF Remove, IInv, RemoveSound, Alive
  <2>5. Release(q)
    BY <2>2, <2>3, <2>4
  <2>6. q = p
    BY <1>1, <2>5 DEF Release, IInv, HolderOwnsFile, Holding
  <2> QED BY <1>1, <2>5, <2>6 DEF Release, IInv, TypeOK
<1>2. IInv /\ [Next]_vars =>
        [\A p \in Procs : creator = p /\ p \in Alive /\ creator' # p
                            => pc[p] = "release" /\ pc'[p] = "built"]_vars
  BY <1>1
<1> QED BY Invariance, <1>2, PTL DEF Spec, LiveLockKept

-----------------------------------------------------------------------------
\* The work is done, or there is a reason why it need not be.
Accounted == built \/ \E q \in Procs : pc[q] \in {"dead", "release", "built"}

\* Until then the first lock file stands, or nobody has tried to create one.
LockStands == Accounted \/ creator # None \/ \A p \in Procs : pc[p] = "try"

\* A reason stays one.
LEMMA AccountedStays ==
  ASSUME TypeOK, Accounted, [Next]_vars PROVE Accounted'
<1> USE DEF Accounted, TypeOK, At, Goto, file
<1>1. CASE UNCHANGED vars \/ Tick
  BY <1>1 DEF vars, Tick
<1>2. ASSUME NEW p \in Procs, Hold(p) PROVE Accounted'
  BY <1>2 DEF Hold, TryNew, Stamp, StampFails, MainReturns, MainRaises, Release
<1>3. ASSUME NEW p \in Procs, Wait(p) PROVE Accounted'
  <2>1. built' = built
    BY <1>3 DEF Wait, TryBusy, WaitOver, Look, ReadStamp, ReadNoStamp, Probe, AgeCheck,
                OpenSteal, Recheck, Remove, DropSteal
  <2>2. pc[p] \notin {"dead", "release", "built"}
    BY <1>3 DEF Wait, TryBusy, WaitOver, Look, ReadStamp, ReadNoStamp, Probe, AgeCheck,
                OpenSteal, Recheck, Remove, DropSteal
  <2>3. \E place : pc' = [pc EXCEPT ![p] = place]
    BY <1>3 DEF Wait, TryBusy, WaitOver, Look, ReadStamp, ReadNoStamp, Probe, AgeCheck,
                OpenSteal, Recheck, Remove, DropSteal, FreshGoto, StaleGoto
  <2> QED BY <2>1, <2>2, <2>3
<1>4. ASSUME NEW p \in Procs, Dies(p) PROVE Accounted'
  BY <1>4 DEF Dies
<1> QED BY <1>1, <1>2, <1>3, <1>4 DEF Next, Crash, Exit

\* Only a release or the removal of a dead process's lock takes the file away.
LEMMA StepLockStands ==
  ASSUME SafeEnvironment, IInv, LockStands, SkipMeansBuilt, [Next]_vars
  PROVE  LockStands' /\ SkipMeansBuilt'
<1> USE DEF At, Goto, file
<1>1. TypeOK
  BY DEF IInv
<1>2. CASE Accounted
  BY <1>1, <1>2, AccountedStays DEF LockStands, SkipMeansBuilt, Accounted
<1>3. CASE ~Accounted
  <2>0. \A p \in Procs : pc[p] # "skipped"
    BY <1>3 DEF SkipMeansBuilt, Accounted
  <2>1. CASE UNCHANGED vars \/ Tick
    BY <2>1 DEF vars, Tick, LockStands, SkipMeansBuilt, Accounted
  <2>2. ASSUME NEW p \in Procs, Hold(p) PROVE LockStands' /\ SkipMeansBuilt'
    <3>1. ~Release(p)
      BY <1>3 DEF Release, Accounted
    <3>2. creator' # None
      BY <1>1, <1>3, <2>2, <3>1, FileBatonAssumption
         DEF Hold, TryNew, Stamp, StampFails, MainReturns, MainRaises, IInv,
             HolderOwnsFile, Holding
    <3>3. \A q \in Procs : pc'[q] # "skipped"
      BY <1>1, <2>0, <2>2, <3>1
         DEF Hold, TryNew, Stamp, StampFails, MainReturns, MainRaises, TypeOK
    <3> QED BY <3>2, <3>3 DEF LockStands, SkipMeansBuilt
  <2>3. ASSUME NEW p \in Procs, Wait(p) PROVE LockStands' /\ SkipMeansBuilt'
    <3>1. creator # None
      <4>1. CASE pc[p] = "try"
        BY <2>3, <4>1 DEF Wait, TryBusy, WaitOver, Look, ReadStamp, ReadNoStamp, Probe,
                          AgeCheck, OpenSteal, Recheck, Remove, DropSteal
      <4>2. CASE pc[p] # "try"
        BY <1>3, <4>2 DEF LockStands
      <4> QED BY <4>1, <4>2
    <3>2. ~Remove(p) /\ ~WaitOver(p)
      BY <1>3, <3>1 DEF Remove, WaitOver, IInv, RemoveSound, TypeOK, Accounted
    <3>3. creator' = creator
      BY <2>3, <3>2 DEF Wait, TryBusy, Look, ReadStamp, ReadNoStamp, Probe, AgeCheck,
                        OpenSteal, Recheck, DropSteal
    <3>4. \E place : place # "skipped" /\ pc' = [pc EXCEPT ![p] = place]
      BY <2>3, <3>2 DEF Wait, TryBusy, Look, ReadStamp, ReadNoStamp, Probe, AgeCheck,
                        OpenSteal, Recheck, DropSteal, FreshGoto, StaleGoto
    <3>5. \A q \in Procs : pc'[q] # "skipped"
      BY <1>1, <2>0, <3>4 DEF TypeOK
    <3> QED BY <3>1, <3>3, <3>5 DEF LockStands, SkipMeansBuilt
  <2>4. ASSUME NEW p \in Procs, Dies(p) PROVE LockStands' /\ SkipMeansBuilt'
    <3>1. pc'[p] = "dead"
      BY <1>1, <2>4 DEF Dies, TypeOK
    <3> QED BY <3>1 DEF LockStands, SkipMeansBuilt, Accounted
  <2> QED BY <2>1, <2>2, <2>3, <2>4 DEF Next, Crash, Exit
<1> QED BY <1>2, <1>3

\* No caller returns with nothing done unless a process was killed or a builder
\* raised (FileBaton.wait, mp_lock without build_after_wait).
THEOREM SkipMeansBuiltHolds ==
  ASSUME SafeEnvironment PROVE Spec => []SkipMeansBuilt
<1>1. Init => LockStands /\ SkipMeansBuilt
  BY DEF Init, LockStands, SkipMeansBuilt
<1>2. IInv /\ LockStands /\ SkipMeansBuilt /\ [Next]_vars => LockStands' /\ SkipMeansBuilt'
  BY StepLockStands
<1> QED BY Invariance, <1>1, <1>2, PTL DEF Spec

-----------------------------------------------------------------------------
\* A step that keeps p outside, or inside, changes nobody's being inside.
LEMMA InsideKept ==
  ASSUME TypeOK, NEW p \in Procs, NEW place,
         pc[p] \in Holding <=> place \in Holding, Goto(p, place)
  PROVE  Inside' = Inside
BY DEF TypeOK, Goto, Inside

\* Every step of FileBaton is a step of the abstract baton or leaves it alone.
LEMMA StepBaton ==
  ASSUME SafeEnvironment, IInv, [Next]_vars
  PROVE  [Abstract!Next]_<<creator, Inside>>
<1> USE DEF At, file
<1> TypeOK
  BY DEF IInv
<1>1. CASE UNCHANGED vars
  BY <1>1 DEF vars, Inside
<1>2. CASE Tick
  BY <1>2 DEF Tick, Inside
<1>3. ASSUME NEW p \in Procs, Hold(p) PROVE [Abstract!Next]_<<creator, Inside>>
  <2>1. CASE TryNew(p)
    <3>1. Inside' = Inside \cup {p}
      BY <2>1 DEF TryNew, Inside, Goto, TypeOK, Holding
    <3>2. Abstract!Take(p)
      BY <2>1, <3>1 DEF TryNew, Abstract!Take
    <3> QED BY <3>2 DEF Abstract!Next
  <2>2. CASE Release(p)
    <3>1. p \in Inside /\ Inside' = Inside \ {p}
      BY <2>2 DEF Release, Inside, Goto, TypeOK, Holding
    <3>2. creator = p
      BY <2>2 DEF Release, IInv, HolderOwnsFile, Holding
    <3>3. Abstract!Give(p)
      BY <2>2, <3>1, <3>2 DEF Release, Abstract!Give
    <3> QED BY <3>3 DEF Abstract!Next
  <2>3. CASE Stamp(p) \/ StampFails(p) \/ MainReturns(p) \/ MainRaises(p)
    BY <2>3, InsideKept DEF Stamp, StampFails, MainReturns, MainRaises, Holding
  <2> QED BY <1>3, <2>1, <2>2, <2>3 DEF Hold
<1>4. ASSUME NEW p \in Procs, Wait(p) PROVE [Abstract!Next]_<<creator, Inside>>
  <2> USE DEF Holding
  <2>1. CASE Remove(p)
    <3>1. Inside' = Inside
      BY <2>1, InsideKept DEF Remove
    <3>2. creator # None /\ creator \notin Inside
      BY <2>1 DEF Remove, IInv, RemoveSound, Inside
    <3>3. Abstract!Break
      BY <2>1, <3>1, <3>2 DEF Remove, Abstract!Break
    <3> QED BY <3>3 DEF Abstract!Next
  <2>2. CASE TryBusy(p) \/ WaitOver(p) \/ Look(p) \/ Recheck(p)
    BY <2>2, InsideKept DEF TryBusy, WaitOver, Look, Recheck
  <2>3. CASE ReadStamp(p) \/ ReadNoStamp(p)
    BY <2>3, InsideKept DEF ReadStamp, ReadNoStamp, FreshGoto
  <2>4. CASE Probe(p) \/ AgeCheck(p)
    BY <2>4, InsideKept DEF Probe, AgeCheck, FreshGoto, StaleGoto
  <2>5. CASE OpenSteal(p) \/ DropSteal(p)
    BY <2>5, InsideKept DEF OpenSteal, DropSteal
  <2> QED BY <1>4, <2>1, <2>2, <2>3, <2>4, <2>5 DEF Wait
<1>5. ASSUME NEW p \in Procs, Dies(p) PROVE [Abstract!Next]_<<creator, Inside>>
  <2>1. Inside' = Inside \ {p}
    BY <1>5 DEF Dies, Inside, Goto, TypeOK, Holding
  <2>2. CASE p \in Inside
    BY <1>5, <2>1, <2>2 DEF Dies, Abstract!Die, Abstract!Next
  <2>3. CASE p \notin Inside
    BY <1>5, <2>1, <2>3 DEF Dies
  <2> QED BY <2>2, <2>3
<1> QED BY <1>1, <1>2, <1>3, <1>4, <1>5 DEF Next, Crash, Exit

\* The lock file with its stamp and .steal implements the abstract baton: only
\* the holder gives it back, and it is broken only after the holder died inside.
THEOREM Implementation == ASSUME SafeEnvironment PROVE Spec => ImplementsBaton
<1>1. Init => Abstract!Init
  BY DEF Init, Abstract!Init, Inside, Holding
<1>2. IInv /\ [Next]_vars => [Abstract!Next]_<<creator, Inside>>
  BY StepBaton
<1> QED BY Invariance, <1>1, <1>2, PTL DEF Spec, ImplementsBaton, Abstract!Spec
=============================================================================
