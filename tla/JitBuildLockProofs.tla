------------------------- MODULE JitBuildLockProofs -------------------------
(***************************************************************************)
(* Proofs about JitBuild when the lock is never lost (Exclusive).  With    *)
(* rmtree reporting its errors, some complete snapshot survives whatever   *)
(* else fails, unless a clear_build was cut short (torn); with crashes     *)
(* only, the last published one survives and no build after a crash fails. *)
(***************************************************************************)
EXTENDS JitBuildProofs

\* The regime: a build starts only when no other one is in MainFunc (FileBaton).
Exclusive == Overlap = {}

\* At most one build is in MainFunc.
OneRunning == \A b, c \in Builds : Running(b) /\ Running(c) => b = c
\* A candidate about to be published is the complete generation of its build, and so is
\* the working tree it was copied from.
Candidates ==
  \A b \in Builds :
    /\ pc[b] \in {"recheck", "backup", "swap"} => work[b] = All(b)
    /\ pc[b] \in {"backup", "swap"} => staging # None /\ staging.files = All(b)
\* A publication removes its backup only when a snapshot is published.
ReapBehindBlob ==
  \A b \in Builds : pc[b] \in {"reap1", "reap2"} =>
    blob # None \/ (pc[b] = "reap1" /\ Own(b) = {})
\* Unless a clear_build was cut short, an incomplete backup is there only behind a
\* published snapshot: its owner is dead or removing it, and no build is beyond the
\* cleanup that finishes it.
HalfRemovedBehindBlob ==
  ~torn => \A k \in backups : ~Whole(k.files) =>
    /\ blob # None
    /\ ~Alive(k.owner) \/ pc[k.owner] \in {"reap1", "reap2"}
    /\ \A b \in Builds : Running(b) => \/ pc[b] \in {"clear", "recover", "cleanup"}
                                       \/ pc[b] \in {"reap1", "reap2"} /\ k.owner = b
\* No backup is a mixture of generations.
BackupsUnmixed == \A k \in backups : OneGeneration(k.files)
\* Between backup and swap, the published snapshot is in a backup.
Kept == published # None /\ blob = None => backups # {}
\* The inductive invariant about the snapshots.
BackupInv ==
  SnapshotWhole /\ ReapBehindBlob /\ HalfRemovedBehindBlob /\ BackupsUnmixed /\ Kept

\* What the lock gives during code generation, it gives in this regime.
LEMMA ExclusiveWhileStaging == Exclusive => LockWhileStaging
BY DEF Exclusive, LockWhileStaging

\* Who takes a step of MainFunc other than its start is in it.
LEMMA ActorRuns ==
  ASSUME NEW b \in Builds, Cache(b) \/ (Build(b) /\ pc[b] # "idle")
  PROVE  Running(b)
<1> USE DEF At, Running, Ended
<1>1. CASE Stage(b)
  BY <1>1 DEF Stage, Recover, ReapBegin, ReapEnd, CleanedUp, Check, Discard, Refill, Mark,
     WriteMark, Unmark, Generate, Verify, Commit
<1>2. CASE Publish(b)
  BY <1>2 DEF Publish, Copy, CopyFails, Recheck, Backup, Swap, Rollback, Reap
<1>3. CASE Build(b) /\ pc[b] # "idle"
  BY <1>3 DEF Build, Begin, Clear, Cleared, Require, SnapshotKids, Compile, Link, CopyBinary,
     Validate, Replace, Identify, PutSidecar, PutReceipt
<1> QED BY <1>1, <1>2, <1>3 DEF Cache

\* A complete generation is no mixture, nor is what a removal leaves of one.
LEMMA UnmixedIs ==
  ASSUME NEW files \in Contents
  PROVE  /\ Whole(files) => OneGeneration(files)
         /\ OneGeneration(files) => OneGeneration([files EXCEPT ![1] = None])
BY DEF Whole, OneGeneration, Contents, Files

-----------------------------------------------------------------------------
(* One build, its candidate and its working tree *)

\* No build joins another one.
LEMMA OneRunningStep == Exclusive /\ TypeInv /\ OneRunning /\ [Next]_vars => OneRunning'
<1> SUFFICES ASSUME Exclusive, TypeInv, OneRunning, [Next]_vars PROVE OneRunning'
  OBVIOUS
<1> USE DEF Exclusive, OneRunning, Running, Places, StagePlaces, BuildPlaces, PublishPlaces,
       Ended, cacheVars, buildVars, At, Goto, TypeInv, TypeOK, CacheTypeOK
<1>1. ASSUME NEW b \in Builds, Cache(b) PROVE OneRunning'
  <2> UNCHANGED <<target, artifact, sidecar, receipt, kids>>
    BY <1>1 DEF Cache
  <2>1. CASE Recover(b)
    BY <2>1 DEF Recover
  <2>2. CASE ReapBegin(b)
    BY <2>2 DEF ReapBegin, Reapable
  <2>3. CASE ReapEnd(b)
    BY <2>3 DEF ReapEnd
  <2>4. CASE CleanedUp(b)
    BY <2>4 DEF CleanedUp
  <2>5. CASE Check(b)
    BY <2>5 DEF Check
  <2>6. CASE Discard(b)
    BY <2>6 DEF Discard
  <2>7. CASE Refill(b)
    BY <2>7 DEF Refill, Tree, Empty
  <2>8. CASE Mark(b)
    BY <2>8 DEF Mark, Marks
  <2>9. CASE WriteMark(b)
    BY <2>9 DEF WriteMark, Written, Marks
  <2>10. CASE Unmark(b)
    BY <2>10 DEF Unmark
  <2>11. CASE Generate(b)
    BY <2>11 DEF Generate
  <2>12. CASE Verify(b)
    BY <2>12 DEF Verify
  <2>13. CASE Commit(b)
    BY <2>13 DEF Commit, Marks
  <2>14. CASE Copy(b)
    BY <2>14 DEF Copy
  <2>15. CASE CopyFails(b)
    BY <2>15 DEF CopyFails
  <2>16. CASE Recheck(b)
    BY <2>16 DEF Recheck, DropCandidate
  <2>17. CASE Backup(b)
    BY <2>17 DEF Backup, DropCandidate
  <2>18. CASE Swap(b)
    BY <2>18 DEF Swap, DropCandidate
  <2>19. CASE Rollback(b)
    BY <2>19 DEF Rollback
  <2>20. CASE Reap(b)
    BY <2>20 DEF Reap
  <2> QED BY <1>1, <2>1, <2>2, <2>3, <2>4, <2>5, <2>6, <2>7, <2>8, <2>9, <2>10, <2>11, <2>12,
             <2>13, <2>14, <2>15, <2>16, <2>17, <2>18, <2>19, <2>20 DEF Cache, Stage, Publish
<1>2. ASSUME NEW b \in Builds, Build(b) PROVE OneRunning'
  <2>1. CASE Begin(b)
    BY <2>1 DEF Begin, Running
  <2>2. CASE Require(b, "staged", "snapshot")
    BY <2>2 DEF Require
  <2>3. CASE SnapshotKids(b)
    BY <2>3 DEF SnapshotKids, Readable
  <2>4. CASE Require(b, "precompile", "compile")
    BY <2>4 DEF Require
  <2>5. CASE Compile(b)
    BY <2>5 DEF Compile, CompileFails, DropCandidate
  <2>6. CASE Require(b, "compiled", "copy")
    BY <2>6 DEF Require
  <2>7. CASE CopyBinary(b)
    BY <2>7 DEF CopyBinary
  <2>8. CASE Validate(b)
    BY <2>8 DEF Validate, Require
  <2>9. CASE Replace(b)
    BY <2>9 DEF Replace, DropCandidate
  <2>10. CASE Identify(b)
    BY <2>10 DEF Identify
  <2>11. CASE PutSidecar(b)
    BY <2>11 DEF PutSidecar
  <2>12. CASE PutReceipt(b)
    BY <2>12 DEF PutReceipt
  <2>13. CASE Clear(b)
    BY <2>13 DEF Clear
  <2>14. CASE Cleared(b)
    BY <2>14 DEF Cleared
  <2>15. CASE Link(b)
    BY <2>15 DEF Link, CompileFails, DropCandidate
  <2> QED BY <1>2, <2>1, <2>2, <2>3, <2>4, <2>5, <2>6, <2>7, <2>8, <2>9, <2>10, <2>11, <2>12,
             <2>13, <2>14, <2>15 DEF Build
<1>3. ASSUME NEW p \in Procs, Crash(p) PROVE OneRunning'
  BY <1>3 DEF Crash
<1>4. CASE UNCHANGED vars
  BY <1>4 DEF vars
<1> QED BY <1>1, <1>2, <1>3, <1>4 DEF Next

\* The token check before the copy vouches for the candidate (publish_blob_sources).
LEMMA CandidatesStep ==
  TypeInv /\ TokenHonest /\ OneRunning /\ Candidates /\ [Next]_vars => Candidates'
<1> SUFFICES ASSUME TypeInv, TokenHonest, OneRunning, Candidates, [Next]_vars PROVE Candidates'
  OBVIOUS
<1> USE DEF Candidates, cacheVars, buildVars, At, Goto, TypeInv, TypeOK, CacheTypeOK
<1>1. ASSUME NEW b \in Builds, Cache(b) PROVE Candidates'
  <2> UNCHANGED <<target, artifact, sidecar, receipt, kids>>
    BY <1>1 DEF Cache
  <2> \A c \in Builds \ {b} : pc[c] \notin {"recheck", "backup", "swap"}
    BY <1>1, ActorRuns DEF OneRunning, Running, Ended
  <2>1. CASE Recover(b)
    BY <2>1 DEF Recover
  <2>2. CASE ReapBegin(b)
    BY <2>2 DEF ReapBegin, Reapable
  <2>3. CASE ReapEnd(b)
    BY <2>3 DEF ReapEnd
  <2>4. CASE CleanedUp(b)
    BY <2>4 DEF CleanedUp
  <2>5. CASE Check(b)
    BY <2>5 DEF Check
  <2>6. CASE Discard(b)
    BY <2>6 DEF Discard
  <2>7. CASE Refill(b)
    BY <2>7 DEF Refill, Tree, Empty
  <2>8. CASE Mark(b)
    BY <2>8 DEF Mark, Marks
  <2>9. CASE WriteMark(b)
    BY <2>9 DEF WriteMark, Written, Marks
  <2>10. CASE Unmark(b)
    BY <2>10 DEF Unmark
  <2>11. CASE Generate(b)
    BY <2>11 DEF Generate
  <2>12. CASE Verify(b)
    BY <2>12 DEF Verify
  <2>13. CASE Commit(b)
    BY <2>13 DEF Commit, Marks
  <2>14. CASE Copy(b)
    BY <2>14, OwnFiles DEF Copy, Running, Ended
  <2>15. CASE CopyFails(b)
    BY <2>15 DEF CopyFails
  <2>16. CASE Recheck(b)
    BY <2>16, OwnFiles DEF Recheck, DropCandidate, Running, Ended
  <2>17. CASE Backup(b)
    BY <2>17 DEF Backup, DropCandidate
  <2>18. CASE Swap(b)
    BY <2>18 DEF Swap, DropCandidate
  <2>19. CASE Rollback(b)
    BY <2>19 DEF Rollback
  <2>20. CASE Reap(b)
    BY <2>20 DEF Reap
  <2> QED BY <1>1, <2>1, <2>2, <2>3, <2>4, <2>5, <2>6, <2>7, <2>8, <2>9, <2>10, <2>11, <2>12,
             <2>13, <2>14, <2>15, <2>16, <2>17, <2>18, <2>19, <2>20 DEF Cache, Stage, Publish
<1>2. ASSUME NEW b \in Builds, Build(b) PROVE Candidates'
  <2>1. CASE Begin(b)
    BY <2>1 DEF Begin, Running
  <2>2. CASE Require(b, "staged", "snapshot")
    BY <2>2 DEF Require
  <2>3. CASE SnapshotKids(b)
    BY <2>3 DEF SnapshotKids, Readable
  <2>4. CASE Require(b, "precompile", "compile")
    BY <2>4 DEF Require
  <2>5. CASE Compile(b)
    BY <2>5 DEF Compile, CompileFails, DropCandidate
  <2>6. CASE Require(b, "compiled", "copy")
    BY <2>6 DEF Require
  <2>7. CASE CopyBinary(b)
    BY <2>7 DEF CopyBinary
  <2>8. CASE Validate(b)
    BY <2>8 DEF Validate, Require
  <2>9. CASE Replace(b)
    BY <2>9 DEF Replace, DropCandidate
  <2>10. CASE Identify(b)
    BY <2>10 DEF Identify
  <2>11. CASE PutSidecar(b)
    BY <2>11 DEF PutSidecar
  <2>12. CASE PutReceipt(b)
    BY <2>12 DEF PutReceipt
  <2>13. CASE Clear(b)
    BY <2>13 DEF Clear, OneRunning, Running, Ended
  <2>14. CASE Cleared(b)
    BY <2>14 DEF Cleared
  <2>15. CASE Link(b)
    BY <2>15 DEF Link, CompileFails, DropCandidate
  <2> QED BY <1>2, <2>1, <2>2, <2>3, <2>4, <2>5, <2>6, <2>7, <2>8, <2>9, <2>10, <2>11, <2>12,
             <2>13, <2>14, <2>15 DEF Build
<1>3. ASSUME NEW p \in Procs, Crash(p) PROVE Candidates'
  BY <1>3 DEF Crash, Ended
<1>4. CASE UNCHANGED vars
  BY <1>4 DEF vars
<1> QED BY <1>1, <1>2, <1>3, <1>4 DEF Next

\* The working tree without an incomplete marker stays complete or empty
\* (_restore_staging_directory, stage_blob_sources).
LEMMA UnmarkedStep ==
  TypeInv /\ MarkHeld /\ Candidates /\ SnapshotWhole /\ UnmarkedStagingWhole
    /\ [Next]_vars => UnmarkedStagingWhole'
<1> SUFFICES ASSUME TypeInv, MarkHeld, Candidates, SnapshotWhole, UnmarkedStagingWhole, [Next]_vars
             PROVE  UnmarkedStagingWhole'
  OBVIOUS
<1> USE DEF UnmarkedStagingWhole, cacheVars, buildVars, At, Goto, TypeInv, TypeOK, CacheTypeOK
<1>1. ASSUME NEW b \in Builds, Cache(b) PROVE UnmarkedStagingWhole'
  <2> UNCHANGED <<target, artifact, sidecar, receipt, kids>> /\ (pc[b] # "swap" => torn' = torn)
    BY <1>1 DEF Cache, Remember
  <2>1. CASE Recover(b)
    BY <2>1 DEF Recover
  <2>2. CASE ReapBegin(b)
    BY <2>2 DEF ReapBegin, Reapable
  <2>3. CASE ReapEnd(b)
    BY <2>3 DEF ReapEnd
  <2>4. CASE CleanedUp(b)
    BY <2>4 DEF CleanedUp
  <2>5. CASE Check(b)
    BY <2>5 DEF Check
  <2>6. CASE Discard(b)
    BY <2>6 DEF Discard
  <2>7. CASE Refill(b)
    <3>0. torn' = torn
      BY <2>7 DEF Refill
    <3>1. CASE UNCHANGED staging
      BY <3>0, <3>1
    <3>2. CASE staging' = Tree(IF blob = None THEN Empty ELSE blob.files)
      BY <3>0, <3>2 DEF Tree, SnapshotWhole
    <3> QED BY <2>7, <3>1, <3>2 DEF Refill
  <2>8. CASE Mark(b)
    <3>1. CASE staging # None /\ staging.mark = None
      <4> DEFINE m == [by |-> b, written |-> ~Fallible("slowMark")]
      <4>1. m \in Marks
        BY DEF Marks, Fallible
      <4>2. staging' = [staging EXCEPT !.mark = m] /\ staging \in Staging
        BY <2>8, <3>1 DEF Mark
      <4> HIDE DEF m
      <4>3. staging'.mark = m
        BY <4>2 DEF Staging
      <4>4. None \notin Marks
        BY BlobCacheAssumption
      <4> QED BY <4>1, <4>3, <4>4
    <3>2. CASE ~(staging # None /\ staging.mark = None)
      BY <2>8, <3>2 DEF Mark
    <3> QED BY <3>1, <3>2
  <2>9. CASE WriteMark(b)
    <3>1. staging # None /\ staging.mark # None /\ staging \in Staging
      BY <2>9 DEF WriteMark, MarkHeld, Marked, TypeInv, TypeOK, CacheTypeOK
    <3>2. staging' = [staging EXCEPT !.mark = Written(staging.mark, b),
                      !.token = Written(staging.token, b)]
      BY <2>9, <3>1 DEF WriteMark
    <3>3. staging'.mark = Written(staging.mark, b)
      BY <3>1, <3>2 DEF Staging
    <3>4. staging.mark \in Marks \cup {None}
      BY <3>1 DEF Staging
    <3> QED BY <3>1, <3>3, <3>4, WrittenIs
  <2>10. CASE Unmark(b)
    <3>1. staging # None /\ staging.mark # None /\ staging \in Staging
      BY <2>10 DEF Unmark, MarkHeld, Marked, TypeInv, TypeOK, CacheTypeOK
    <3>2. staging'.mark = staging.mark
      BY <2>10, <3>1 DEF Unmark, Staging
    <3> QED BY <3>1, <3>2
  <2>11. CASE Generate(b)
    <3>1. CASE UNCHANGED staging
      BY <2>11, <3>1 DEF Generate
    <3>2. ASSUME NEW i \in Files, staging' = [staging EXCEPT !.files[i] = b], staging # None
          PROVE  UnmarkedStagingWhole'
      <4>1. staging.mark # None /\ staging \in Staging
        BY <2>11, <3>2 DEF Generate, MarkHeld, Marked
      <4>2. staging'.mark = staging.mark
        BY <3>2, <4>1 DEF Staging
      <4> QED BY <4>1, <4>2
    <3> QED BY <2>11, <3>1, <3>2 DEF Generate, Files
  <2>12. CASE Verify(b)
    BY <2>12 DEF Verify
  <2>13. CASE Commit(b)
    <3>1. staging.mark # None /\ staging.files = All(b) /\ staging \in Staging /\ staging # None
      BY <2>13 DEF Commit, MarkHeld, Marked
    <3>2. staging' = [staging EXCEPT !.token = staging.mark, !.mark = None]
      BY <2>13, <3>1 DEF Commit
    <3>3. staging'.files = All(b)
      BY <3>1, <3>2 DEF Staging
    <3> QED BY <3>3 DEF Whole, All
  <2>14. CASE Copy(b)
    BY <2>14 DEF Copy
  <2>15. CASE CopyFails(b)
    BY <2>15 DEF CopyFails
  <2>16. CASE Recheck(b)
    BY <2>16 DEF Recheck, DropCandidate
  <2>17. CASE Backup(b)
    BY <2>17 DEF Backup, DropCandidate
  <2>18. CASE Swap(b)
    BY <2>18 DEF Swap, Candidates, Whole, All
  <2>19. CASE Rollback(b)
    BY <2>19 DEF Rollback
  <2>20. CASE Reap(b)
    BY <2>20 DEF Reap
  <2> QED BY <1>1, <2>1, <2>2, <2>3, <2>4, <2>5, <2>6, <2>7, <2>8, <2>9, <2>10, <2>11, <2>12,
             <2>13, <2>14, <2>15, <2>16, <2>17, <2>18, <2>19, <2>20 DEF Cache, Stage, Publish
<1>2. ASSUME NEW b \in Builds, Build(b) PROVE UnmarkedStagingWhole'
  <2>1. CASE Begin(b)
    BY <2>1 DEF Begin, Running
  <2>2. CASE Require(b, "staged", "snapshot")
    BY <2>2 DEF Require
  <2>3. CASE SnapshotKids(b)
    BY <2>3 DEF SnapshotKids, Readable
  <2>4. CASE Require(b, "precompile", "compile")
    BY <2>4 DEF Require
  <2>5. CASE Compile(b)
    BY <2>5 DEF Compile, CompileFails, DropCandidate
  <2>6. CASE Require(b, "compiled", "copy")
    BY <2>6 DEF Require
  <2>7. CASE CopyBinary(b)
    BY <2>7 DEF CopyBinary
  <2>8. CASE Validate(b)
    BY <2>8 DEF Validate, Require
  <2>9. CASE Replace(b)
    BY <2>9 DEF Replace, DropCandidate
  <2>10. CASE Identify(b)
    BY <2>10 DEF Identify
  <2>11. CASE PutSidecar(b)
    BY <2>11 DEF PutSidecar
  <2>12. CASE PutReceipt(b)
    BY <2>12 DEF PutReceipt
  <2>13. CASE Clear(b)
    BY <2>13 DEF Clear
  <2>14. CASE Cleared(b)
    BY <2>14 DEF Cleared, TreeCleared
  <2>15. CASE Link(b)
    BY <2>15 DEF Link, CompileFails, DropCandidate
  <2> QED BY <1>2, <2>1, <2>2, <2>3, <2>4, <2>5, <2>6, <2>7, <2>8, <2>9, <2>10, <2>11, <2>12,
             <2>13, <2>14, <2>15 DEF Build
<1>3. ASSUME NEW p \in Procs, Crash(p) PROVE UnmarkedStagingWhole'
  BY <1>3 DEF Crash
<1>4. CASE UNCHANGED vars
  BY <1>4 DEF vars
<1> QED BY <1>1, <1>2, <1>3, <1>4 DEF Next

-----------------------------------------------------------------------------
(* Snapshots and backups *)

\* Steps that touch neither snapshot nor backups, nor start or end a removal.
LEMMA QuietStep ==
  ASSUME TypeInv, OneRunning, BackupInv, NEW b \in Builds, Running(b),
         pc[b] \notin {"clear", "recover", "cleanup", "reap1", "reap2"},
         UNCHANGED <<blob, backups, published, dead, torn>>,
         NEW next, next \notin {"reap1", "reap2"}, pc' = [pc EXCEPT ![b] = next]
  PROVE  BackupInv'
<1>1. ~torn => \A k \in backups : Whole(k.files)
  BY DEF BackupInv, HalfRemovedBehindBlob
<1>2. \A c \in Builds : pc'[c] \in {"reap1", "reap2"} => pc[c] = pc'[c]
  BY DEF TypeInv, TypeOK
<1> QED
  BY <1>1, <1>2 DEF BackupInv, SnapshotWhole, ReapBehindBlob, HalfRemovedBehindBlob,
     BackupsUnmixed, Kept, Own

\* Recovery, cleanup, publication, rollback and removal keep a complete snapshot
\* (jit_cache.py), also when they are cut off in the middle.
LEMMA BackupStep ==
  Exclusive /\ ("rmtree" \notin Faults) /\ TypeInv /\ OneRunning /\ Candidates /\ BackupInv
    /\ [Next]_vars => BackupInv'
<1> SUFFICES ASSUME Exclusive, ("rmtree" \notin Faults), TypeInv, OneRunning, Candidates,
                    BackupInv, [Next]_vars
             PROVE  BackupInv'
  OBVIOUS
<1> USE DEF cacheVars, buildVars, At, Goto, TypeInv, TypeOK, CacheTypeOK
<1>1. ASSUME NEW b \in Builds, Cache(b) PROVE BackupInv'
  <2> /\ published' = IF pc[b] = "swap" /\ blob' # blob THEN b ELSE published
      /\ torn' = IF pc[b] = "swap" /\ blob' # blob THEN torn /\ ~(backups \subseteq Own(b)) ELSE torn
    BY <1>1 DEF Cache, Remember
  <2>1. CASE Recover(b)
    <3>0. /\ pc' = [pc EXCEPT ![b] = "cleanup"]
          /\ pc[b] = "recover"
          /\ UNCHANGED <<dead, staging, now, torn, published>>
      BY <2>1 DEF Recover
    <3>1. CASE UNCHANGED <<blob, backups>>
      BY <3>0, <3>1 DEF BackupInv, SnapshotWhole, ReapBehindBlob, HalfRemovedBehindBlob,
         BackupsUnmixed, Kept, Own, Alive, Running, Ended
    <3>2. ASSUME NEW k \in backups, blob = None, blob' = [files |-> k.files, mtime |-> k.mtime],
                 backups' = backups \ {k}
          PROVE  BackupInv'
      <4>1. ~torn => \A other \in backups : Whole(other.files)
        BY <3>2 DEF BackupInv, HalfRemovedBehindBlob
      <4>2. blob' # None /\ blob'.files = k.files
        <5>1. blob' \in Snapshots
          BY <3>2 DEF Backups, Snapshots
        <5> QED BY <3>2, <5>1, BlobCacheAssumption
      <4>3. SnapshotWhole' /\ BackupsUnmixed'
        BY <3>0, <3>2, <4>1, <4>2 DEF BackupInv, SnapshotWhole, BackupsUnmixed
      <4>4. HalfRemovedBehindBlob'
        BY <3>0, <3>2, <4>1 DEF HalfRemovedBehindBlob
      <4>5. ReapBehindBlob' /\ Kept'
        BY <4>2 DEF ReapBehindBlob, Kept
      <4> QED BY <4>3, <4>4, <4>5 DEF BackupInv
    <3>3. ASSUME NEW movable \in SUBSET Recoverable(b), movable # {}
          PROVE  Newest(movable) \in backups
      <4>1. \A k \in movable : k \in backups /\ k.mtime \in Nat /\ k.mtime <= now
        BY DEF Recoverable, Backups, MtimesPast
      <4> QED BY <3>3, <4>1, NewestIsOne
    <3> QED BY <2>1, <3>1, <3>2, <3>3 DEF Recover
  <2>2. CASE ReapBegin(b)
    <3>1. PICK k \in backups : /\ blob # None
                               /\ ~Alive(k.owner)
                               /\ backups' = (backups \ {k}) \cup {HalfRemoved(k)}
      BY <2>2 DEF ReapBegin, Reapable
    <3>2. /\ HalfRemoved(k).owner = k.owner
          /\ HalfRemoved(k).files = [k.files EXCEPT ![1] = None]
      BY HalfRemovedIs
    <3>3. pc[b] = "cleanup" /\ UNCHANGED <<blob, dead, pc, torn, published>>
      BY <2>2 DEF ReapBegin
    <3>4. SnapshotWhole' /\ Kept'
      BY <3>1, <3>3 DEF BackupInv, SnapshotWhole, Kept
    <3>5. ReapBehindBlob'
      BY <3>1, <3>3 DEF BackupInv, ReapBehindBlob
    <3>6. HalfRemovedBehindBlob'
      BY <3>1, <3>2, <3>3 DEF BackupInv, HalfRemovedBehindBlob, OneRunning, Running, Alive,
         Ended
    <3>7. BackupsUnmixed'
      BY <3>1, <3>2, UnmixedIs DEF BackupInv, BackupsUnmixed, Backups
    <3> QED BY <3>4, <3>5, <3>6, <3>7 DEF BackupInv
  <2>3. CASE ReapEnd(b)
    <3>1. blob # None /\ backups' \subseteq backups /\ UNCHANGED <<blob, dead, pc, torn, published>>
      BY <2>3 DEF ReapEnd, Reapable
    <3> QED BY <3>1 DEF BackupInv, SnapshotWhole, ReapBehindBlob, HalfRemovedBehindBlob,
               BackupsUnmixed, Kept, Own, Alive, Running
  <2>4. CASE CleanedUp(b)
    <3>0. /\ pc' = [pc EXCEPT ![b] = "check"]
          /\ pc[b] = "cleanup"
          /\ UNCHANGED <<blob, backups, dead, torn, published>>
      BY <2>4 DEF CleanedUp
    <3>1. Reapable = {}
      BY <2>4 DEF CleanedUp, Fallible
    <3>2. ~torn => \A k \in backups : Whole(k.files)
      <4> SUFFICES ASSUME ~torn, NEW k \in backups, ~Whole(k.files) PROVE FALSE
        OBVIOUS
      <4>1. blob # None /\ ~Alive(k.owner)
        BY <3>0 DEF BackupInv, HalfRemovedBehindBlob, OneRunning, Running, Ended, Backups
      <4> QED BY <3>1, <4>1 DEF Reapable
    <3> QED BY <3>0, <3>2 DEF BackupInv, SnapshotWhole, ReapBehindBlob, HalfRemovedBehindBlob,
               BackupsUnmixed, Kept, Own
  <2>5. CASE Check(b)
    <3>1. PICK next : next \notin {"reap1", "reap2"} /\ pc' = [pc EXCEPT ![b] = next]
      BY <2>5 DEF Check
    <3>2. UNCHANGED <<blob, backups, published, dead, torn>>
      BY <2>5, <1>1 DEF Check
    <3> QED BY <2>5, <3>1, <3>2, QuietStep DEF Check, Running, Ended
  <2>6. CASE Discard(b)
    <3>1. PICK next : next \notin {"reap1", "reap2"} /\ pc' = [pc EXCEPT ![b] = next]
      BY <2>6 DEF Discard
    <3>2. UNCHANGED <<blob, backups, published, dead, torn>>
      BY <2>6, <1>1 DEF Discard
    <3> QED BY <2>6, <3>1, <3>2, QuietStep DEF Discard, Running, Ended
  <2>7. CASE Refill(b)
    <3>1. PICK next : next \notin {"reap1", "reap2"} /\ pc' = [pc EXCEPT ![b] = next]
      BY <2>7 DEF Refill
    <3>2. UNCHANGED <<blob, backups, published, dead, torn>>
      BY <2>7, <1>1 DEF Refill
    <3> QED BY <2>7, <3>1, <3>2, QuietStep DEF Refill, Running, Ended
  <2>8. CASE Mark(b)
    <3>1. PICK next : next \notin {"reap1", "reap2"} /\ pc' = [pc EXCEPT ![b] = next]
      BY <2>8 DEF Mark
    <3>2. UNCHANGED <<blob, backups, published, dead, torn>>
      BY <2>8, <1>1 DEF Mark
    <3> QED BY <2>8, <3>1, <3>2, QuietStep DEF Mark, Running, Ended
  <2>9. CASE WriteMark(b)
    <3>1. PICK next : next \notin {"reap1", "reap2"} /\ pc' = [pc EXCEPT ![b] = next]
      BY <2>9 DEF WriteMark
    <3>2. UNCHANGED <<blob, backups, published, dead, torn>>
      BY <2>9, <1>1 DEF WriteMark
    <3> QED BY <2>9, <3>1, <3>2, QuietStep DEF WriteMark, Running, Ended
  <2>10. CASE Unmark(b)
    <3>1. PICK next : next \notin {"reap1", "reap2"} /\ pc' = [pc EXCEPT ![b] = next]
      BY <2>10 DEF Unmark
    <3>2. UNCHANGED <<blob, backups, published, dead, torn>>
      BY <2>10, <1>1 DEF Unmark
    <3> QED BY <2>10, <3>1, <3>2, QuietStep DEF Unmark, Running, Ended
  <2>11. CASE Generate(b)
    <3>1. PICK next : next \notin {"reap1", "reap2"} /\ pc' = [pc EXCEPT ![b] = next]
      BY <2>11 DEF Generate
    <3>2. UNCHANGED <<blob, backups, published, dead, torn>>
      BY <2>11, <1>1 DEF Generate
    <3> QED BY <2>11, <3>1, <3>2, QuietStep DEF Generate, Running, Ended
  <2>12. CASE Verify(b)
    <3>1. PICK next : next \notin {"reap1", "reap2"} /\ pc' = [pc EXCEPT ![b] = next]
      BY <2>12 DEF Verify
    <3>2. UNCHANGED <<blob, backups, published, dead, torn>>
      BY <2>12, <1>1 DEF Verify
    <3> QED BY <2>12, <3>1, <3>2, QuietStep DEF Verify, Running, Ended
  <2>13. CASE Commit(b)
    <3>1. PICK next : next \notin {"reap1", "reap2"} /\ pc' = [pc EXCEPT ![b] = next]
      BY <2>13 DEF Commit
    <3>2. UNCHANGED <<blob, backups, published, dead, torn>>
      BY <2>13, <1>1 DEF Commit
    <3> QED BY <2>13, <3>1, <3>2, QuietStep DEF Commit, Running, Ended
  <2>14. CASE Copy(b)
    <3>1. PICK next : next \notin {"reap1", "reap2"} /\ pc' = [pc EXCEPT ![b] = next]
      BY <2>14 DEF Copy
    <3>2. UNCHANGED <<blob, backups, published, dead, torn>>
      BY <2>14, <1>1 DEF Copy
    <3> QED BY <2>14, <3>1, <3>2, QuietStep DEF Copy, Running, Ended
  <2>15. CASE CopyFails(b)
    <3>1. PICK next : next \notin {"reap1", "reap2"} /\ pc' = [pc EXCEPT ![b] = next]
      BY <2>15 DEF CopyFails
    <3>2. UNCHANGED <<blob, backups, published, dead, torn>>
      BY <2>15, <1>1 DEF CopyFails
    <3> QED BY <2>15, <3>1, <3>2, QuietStep DEF CopyFails, Running, Ended
  <2>16. CASE Recheck(b)
    <3>1. PICK next : next \notin {"reap1", "reap2"} /\ pc' = [pc EXCEPT ![b] = next]
      BY <2>16 DEF Recheck
    <3>2. UNCHANGED <<blob, backups, published, dead, torn>>
      BY <2>16, <1>1 DEF Recheck
    <3> QED BY <2>16, <3>1, <3>2, QuietStep DEF Recheck, Running, Ended
  <2>17. CASE Backup(b)
    <3>0. ~torn => \A k \in backups : Whole(k.files)
      BY <2>17 DEF Backup, BackupInv, HalfRemovedBehindBlob, Running, Ended
    <3>1. CASE /\ blob' = None
               /\ backups' = backups \cup {[owner |-> b, files |-> blob.files, mtime |-> blob.mtime]}
               /\ blob # None
      <4>1. ~torn' => \A k \in backups' : Whole(k.files)
        BY <2>17, <3>0, <3>1 DEF Backup, BackupInv, SnapshotWhole
      <4>2. \A c \in Builds : pc'[c] \notin {"reap1", "reap2"}
        BY <2>17, <3>1 DEF Backup, OneRunning, Running, Ended
      <4>3. BackupsUnmixed'
        BY <3>1 DEF BackupInv, SnapshotWhole, BackupsUnmixed
      <4> QED BY <3>1, <4>1, <4>2, <4>3 DEF BackupInv, SnapshotWhole, ReapBehindBlob,
                 HalfRemovedBehindBlob, Kept
    <3>2. CASE UNCHANGED <<blob, backups>>
      BY <2>17, <3>0, <3>2 DEF Backup, BackupInv, SnapshotWhole, ReapBehindBlob,
         HalfRemovedBehindBlob, BackupsUnmixed, Kept, Own
    <3> QED BY <2>17, <3>1, <3>2 DEF Backup
  <2>18. CASE Swap(b)
    <3>0. ~torn => \A k \in backups : Whole(k.files)
      BY <2>18 DEF Swap, BackupInv, HalfRemovedBehindBlob, Running, Ended
    <3>1. CASE blob' = [files |-> work[b], mtime |-> now + 1] /\ pc' = [pc EXCEPT ![b] = "reap1"]
      <4>0. UNCHANGED <<backups, dead>> /\ pc[b] = "swap"
        BY <2>18 DEF Swap
      <4>1. blob' \in Snapshots /\ Whole(blob'.files) /\ OneGeneration(blob'.files)
        <5>1. work[b] = All(b) /\ work[b] \in Contents
          BY <2>18 DEF Swap, Candidates, WorkHeld
        <5>2. blob' \in Snapshots /\ blob'.files = work[b] /\ Whole(work[b])
          BY <3>1, <5>1 DEF Snapshots, Whole, All
        <5> QED BY <5>1, <5>2, UnmixedIs
      <4>2. blob' # None
        BY <4>1, BlobCacheAssumption
      <4>3. SnapshotWhole' /\ ReapBehindBlob' /\ BackupsUnmixed' /\ Kept'
        BY <4>0, <4>1, <4>2 DEF BackupInv, SnapshotWhole, ReapBehindBlob, BackupsUnmixed, Kept
      <4>4. ~torn' => \A k \in backups' : Whole(k.files) \/ k.owner = b
        BY <3>0, <4>0 DEF Own
      <4>5. \A c \in Builds : Running(c)' => c = b
        BY <3>1, <4>0 DEF OneRunning, Running, Ended
      <4>6. HalfRemovedBehindBlob'
        BY <3>1, <4>2, <4>4, <4>5 DEF HalfRemovedBehindBlob
      <4> QED BY <4>3, <4>6 DEF BackupInv
    <3>2. CASE UNCHANGED blob /\ pc' = [pc EXCEPT ![b] = "rollback"]
      BY <2>18, <3>0, <3>2 DEF Swap, BackupInv, SnapshotWhole, ReapBehindBlob,
         HalfRemovedBehindBlob, BackupsUnmixed, Kept, Own
    <3> QED BY <2>18, <3>1, <3>2 DEF Swap
  <2>19. CASE Rollback(b)
    <3>0. ~torn => \A k \in backups : Whole(k.files)
      BY <2>19 DEF Rollback, BackupInv, HalfRemovedBehindBlob, Running, Ended
    <3>1. CASE /\ UNCHANGED <<blob, backups>>
               /\ (Own(b) = {} \/ blob # None \/ pc' = [pc EXCEPT ![b] = "done"])
      BY <2>19, <3>0, <3>1 DEF Rollback, BackupInv, SnapshotWhole, ReapBehindBlob,
         HalfRemovedBehindBlob, BackupsUnmixed, Kept, Own
    <3>2. ASSUME NEW k \in backups, blob' = [files |-> k.files, mtime |-> k.mtime],
                 backups' = backups \ {k}
          PROVE  BackupInv'
      <4>1. blob' \in Snapshots /\ blob'.files = k.files
        BY <3>2 DEF Backups, Snapshots
      <4>2. blob' # None
        BY <4>1, BlobCacheAssumption
      <4>3. UNCHANGED <<torn, published>>
        BY <2>19 DEF Rollback
      <4>4. SnapshotWhole' /\ BackupsUnmixed'
        BY <3>0, <3>2, <4>1, <4>2, <4>3 DEF BackupInv, SnapshotWhole, BackupsUnmixed
      <4>5. HalfRemovedBehindBlob'
        BY <3>0, <3>2, <4>3 DEF HalfRemovedBehindBlob
      <4> QED BY <4>2, <4>4, <4>5 DEF BackupInv, ReapBehindBlob, Kept
    <3> QED BY <2>19, <3>1, <3>2 DEF Rollback, Own
  <2>20. CASE Reap(b)
    <3>0. UNCHANGED <<blob, dead, torn, published>> /\ Running(b)
      BY <2>20, <1>1, ActorRuns DEF Reap
    <3>1. ASSUME pc[b] = "reap1", NEW k \in backups, k.owner = b,
                 backups' = (backups \ {k}) \cup {HalfRemoved(k)},
                 pc' = [pc EXCEPT ![b] = "reap2"]
          PROVE  BackupInv'
      <4>1. blob # None
        BY <3>1 DEF BackupInv, ReapBehindBlob, Own
      <4>2. ~torn => \A other \in backups : Whole(other.files) \/ other.owner = b
        BY <3>0, <3>1 DEF BackupInv, HalfRemovedBehindBlob
      <4>3. /\ HalfRemoved(k).owner = b
            /\ HalfRemoved(k).files = [k.files EXCEPT ![1] = None]
        BY <3>1, HalfRemovedIs
      <4>4. pc'[b] = "reap2" /\ \A c \in Builds : Running(c)' => c = b
        BY <3>0, <3>1 DEF OneRunning, Running, Ended
      <4>5. SnapshotWhole' /\ Kept' /\ ReapBehindBlob'
        BY <3>0, <3>1, <4>1 DEF BackupInv, SnapshotWhole, ReapBehindBlob, Kept
      <4>6. HalfRemovedBehindBlob'
        BY <3>0, <3>1, <4>1, <4>2, <4>3, <4>4 DEF HalfRemovedBehindBlob
      <4>7. BackupsUnmixed'
        BY <3>1, <4>3, UnmixedIs DEF BackupInv, BackupsUnmixed, Backups
      <4> QED BY <4>5, <4>6, <4>7 DEF BackupInv
    <3>2. CASE /\ pc[b] = "reap1"
               /\ Own(b) = {}
               /\ UNCHANGED backups
               /\ pc' = [pc EXCEPT ![b] = "done"]
      <4>1. ~torn => \A k \in backups : Whole(k.files)
        BY <3>0, <3>2 DEF BackupInv, HalfRemovedBehindBlob, Own
      <4> QED BY <3>0, <3>2, <4>1 DEF BackupInv, SnapshotWhole, ReapBehindBlob,
                 HalfRemovedBehindBlob, BackupsUnmixed, Kept, Own
    <3>3. CASE /\ pc[b] = "reap2"
               /\ backups' = backups \ Own(b)
               /\ pc' = [pc EXCEPT ![b] = "done"]
      <4>1. ~torn => \A k \in backups' : Whole(k.files)
        BY <3>0, <3>3 DEF Own, BackupInv, HalfRemovedBehindBlob
      <4>2. blob # None
        BY <3>3 DEF BackupInv, ReapBehindBlob
      <4> QED BY <3>0, <3>3, <4>1, <4>2 DEF BackupInv, SnapshotWhole, ReapBehindBlob,
                 HalfRemovedBehindBlob, BackupsUnmixed, Kept
    <3> QED BY <2>20, <3>1, <3>2, <3>3 DEF Reap, Own, Fallible
  <2> QED BY <1>1, <2>1, <2>2, <2>3, <2>4, <2>5, <2>6, <2>7, <2>8, <2>9, <2>10, <2>11, <2>12,
             <2>13, <2>14, <2>15, <2>16, <2>17, <2>18, <2>19, <2>20 DEF Cache, Stage, Publish
<1>2. ASSUME NEW b \in Builds, Build(b) PROVE BackupInv'
  <2>1. CASE Begin(b)
    <3>1. /\ pc' = [pc EXCEPT ![b] = IF Rebuild[b] = 1 THEN "clear" ELSE "recover"]
          /\ pc[b] = "idle"
          /\ UNCHANGED <<blob, backups, dead, torn, published>>
      BY <2>1 DEF Begin
    <3> QED BY <3>1 DEF BackupInv, SnapshotWhole, ReapBehindBlob, HalfRemovedBehindBlob,
               BackupsUnmixed, Kept, Own, Running, Ended, Alive
  <2>2. CASE Require(b, "staged", "snapshot")
    <3>1. PICK next : next \notin {"reap1", "reap2"} /\ pc' = [pc EXCEPT ![b] = next]
      BY <2>2 DEF Require
    <3> QED BY <2>2, <3>1, QuietStep DEF Require, Running, Ended
  <2>3. CASE SnapshotKids(b)
    <3>1. PICK next : next \notin {"reap1", "reap2"} /\ pc' = [pc EXCEPT ![b] = next]
      BY <2>3 DEF SnapshotKids, Readable
    <3> QED BY <2>3, <3>1, QuietStep DEF SnapshotKids, Running, Ended
  <2>4. CASE Require(b, "precompile", "compile")
    <3>1. PICK next : next \notin {"reap1", "reap2"} /\ pc' = [pc EXCEPT ![b] = next]
      BY <2>4 DEF Require
    <3> QED BY <2>4, <3>1, QuietStep DEF Require, Running, Ended
  <2>5. CASE Compile(b)
    <3>1. PICK next : next \notin {"reap1", "reap2"} /\ pc' = [pc EXCEPT ![b] = next]
      BY <2>5 DEF Compile, CompileFails, DropCandidate
    <3> QED BY <2>5, <3>1, QuietStep DEF Compile, Running, Ended
  <2>6. CASE Require(b, "compiled", "copy")
    <3>1. PICK next : next \notin {"reap1", "reap2"} /\ pc' = [pc EXCEPT ![b] = next]
      BY <2>6 DEF Require
    <3> QED BY <2>6, <3>1, QuietStep DEF Require, Running, Ended
  <2>7. CASE CopyBinary(b)
    <3>1. PICK next : next \notin {"reap1", "reap2"} /\ pc' = [pc EXCEPT ![b] = next]
      BY <2>7 DEF CopyBinary
    <3> QED BY <2>7, <3>1, QuietStep DEF CopyBinary, Running, Ended
  <2>8. CASE Validate(b)
    <3>1. PICK next : next \notin {"reap1", "reap2"} /\ pc' = [pc EXCEPT ![b] = next]
      BY <2>8 DEF Validate, Require
    <3> QED BY <2>8, <3>1, QuietStep DEF Validate, Require, Running, Ended
  <2>9. CASE Replace(b)
    <3>1. PICK next : next \notin {"reap1", "reap2"} /\ pc' = [pc EXCEPT ![b] = next]
      BY <2>9 DEF Replace
    <3> QED BY <2>9, <3>1, QuietStep DEF Replace, Running, Ended
  <2>10. CASE Identify(b)
    <3>1. PICK next : next \notin {"reap1", "reap2"} /\ pc' = [pc EXCEPT ![b] = next]
      BY <2>10 DEF Identify
    <3> QED BY <2>10, <3>1, QuietStep DEF Identify, Running, Ended
  <2>11. CASE PutSidecar(b)
    <3>1. PICK next : next \notin {"reap1", "reap2"} /\ pc' = [pc EXCEPT ![b] = next]
      BY <2>11 DEF PutSidecar
    <3> QED BY <2>11, <3>1, QuietStep DEF PutSidecar, Running, Ended
  <2>12. CASE PutReceipt(b)
    <3>1. PICK next : next \notin {"reap1", "reap2"} /\ pc' = [pc EXCEPT ![b] = next]
      BY <2>12 DEF PutReceipt
    <3> QED BY <2>12, <3>1, QuietStep DEF PutReceipt, Running, Ended
  <2>13. CASE Clear(b)
    <3>0. UNCHANGED <<pc, dead>> /\ pc[b] = "clear" /\ Running(b)
      BY <2>13 DEF Clear, Running, Ended
    <3>1. ReapBehindBlob'
      BY <3>0 DEF ReapBehindBlob, OneRunning, Running, Ended
    <3>2. CASE target' = target
      <4>1. torn' = TRUE
        BY <2>13, <3>2 DEF Clear
      <4>2. SnapshotWhole'
        <5>1. blob' = None \/ blob' = blob \/ (blob # None /\ blob' = HalfRemoved(blob))
          BY <2>13 DEF Clear
        <5>2. CASE blob # None /\ blob' = HalfRemoved(blob)
          <6>1. blob \in Snapshots /\ blob.files \in Contents /\ OneGeneration(blob.files)
            BY <5>2 DEF BackupInv, SnapshotWhole, Snapshots
          <6>2. blob'.files = [blob.files EXCEPT ![1] = None]
            BY <5>2, <6>1, HalfRemovedSnapshot
          <6> QED BY <4>1, <6>1, <6>2, UnmixedIs DEF SnapshotWhole
        <5> QED BY <4>1, <5>1, <5>2 DEF BackupInv, SnapshotWhole
      <4>3. BackupsUnmixed'
        <5>1. CASE backups' = backups
          BY <5>1 DEF BackupInv, BackupsUnmixed
        <5>2. ASSUME NEW k \in backups, backups' \subseteq backups \cup {HalfRemoved(k)}
              PROVE  BackupsUnmixed'
          <6>1. HalfRemoved(k).files = [k.files EXCEPT ![1] = None] /\ k.files \in Contents
            BY HalfRemovedIs DEF Backups
          <6> QED BY <5>2, <6>1, UnmixedIs DEF BackupInv, BackupsUnmixed
        <5> QED BY <2>13, <5>1, <5>2 DEF Clear
      <4>4. Kept'
        BY <2>13 DEF Clear, BackupInv, Kept
      <4> QED BY <3>1, <4>1, <4>2, <4>3, <4>4 DEF BackupInv, HalfRemovedBehindBlob
    <3>3. CASE target' # target
      <4>1. UNCHANGED <<blob, backups, published, torn>>
        BY <2>13, <3>3 DEF Clear
      <4> QED BY <3>0, <3>1, <4>1 DEF BackupInv, SnapshotWhole, HalfRemovedBehindBlob,
                 BackupsUnmixed, Kept, Alive, Running
    <3> QED BY <3>2, <3>3
  <2>14. CASE Cleared(b)
    <3>1. /\ blob = None /\ backups = {} /\ pc[b] = "clear"
          /\ pc' = [pc EXCEPT ![b] = "recover"]
          /\ UNCHANGED <<blob, backups, published>>
      BY <2>14 DEF Cleared, TreeCleared, Fallible
    <3> QED BY <3>1 DEF BackupInv, SnapshotWhole, ReapBehindBlob, HalfRemovedBehindBlob,
               BackupsUnmixed, Kept, Own
  <2>15. CASE Link(b)
    <3>1. PICK next : next \notin {"reap1", "reap2"} /\ pc' = [pc EXCEPT ![b] = next]
      BY <2>15 DEF Link, CompileFails
    <3> QED BY <2>15, <3>1, QuietStep DEF Link, Running, Ended
  <2> QED BY <1>2, <2>1, <2>2, <2>3, <2>4, <2>5, <2>6, <2>7, <2>8, <2>9, <2>10, <2>11, <2>12,
             <2>13, <2>14, <2>15 DEF Build
<1>3. ASSUME NEW p \in Procs, Crash(p) PROVE BackupInv'
  <2>1. UNCHANGED <<blob, backups, published, torn>> /\ dead \subseteq dead'
    BY <1>3 DEF Crash
  <2>2. \A c \in Builds : pc'[c] = pc[c] \/ (pc'[c] = "dead" /\ Proc[c] \in dead')
    BY <1>3 DEF Crash
  <2> QED BY <2>1, <2>2 DEF BackupInv, SnapshotWhole, ReapBehindBlob, HalfRemovedBehindBlob,
             BackupsUnmixed, Kept, Own, Alive, Running, Ended, Backups
<1>4. CASE UNCHANGED vars
  BY <1>4 DEF vars, BackupInv, SnapshotWhole, ReapBehindBlob, HalfRemovedBehindBlob, BackupsUnmixed, Kept, Own,
     Alive, Running
<1> QED BY <1>1, <1>2, <1>3, <1>4 DEF Next

-----------------------------------------------------------------------------
(* Crashes only *)

\* The regime: processes may be killed and markers be written late; no call fails.
CrashesOnly == Faults \subseteq {"crash", "slowMark"}
\* What each place of a build finds; the places of failure are not reached.
Steady ==
  \A b \in Builds :
    /\ pc[b] \notin {"undo", "undofill", "rollback", "failed"}
    /\ pc[b] = "refill" => staging = None
    /\ pc[b] = "mark" => staging # None /\ staging.mark = None
    /\ pc[b] \in {"unmark", "gen1", "gen2", "verify", "commit"} => OwnMark(b)
    /\ pc[b] \in BuildPlaces \cup {"publish", "recheck"} => OwnGeneration(b)
    /\ pc[b] \in {"compiled", "copy"} => target # None
\* An incomplete marker is that of a dead process or of a build generating code.
MarkOwner ==
  staging # None /\ staging.mark # None =>
    \/ ~Alive(staging.mark.by)
    \/ pc[staging.mark.by] \in {"write", "unmark", "gen1", "gen2", "verify", "commit"}
\* The last published generation is in blob or, alone, in the one backup.
OneSnapshot ==
  published # None =>
    IF blob # None THEN blob.files = All(published)
    ELSE \E k \in backups : backups = {k} /\ k.files = All(published)
\* The one backup is left by the dead, or is that of a publication under way; a build
\* beyond cleanup finds none.
BackupsInFlight ==
  /\ \A k, other \in backups : k = other
  /\ \A k \in backups : ~Alive(k.owner) \/ pc[k.owner] \in {"swap", "reap1", "reap2"}
  /\ \A b \in Builds :
       /\ pc[b] = "cleanup" /\ blob = None => backups = {}
       /\ Running(b) /\ pc[b] \notin {"clear", "recover", "cleanup", "swap", "reap1", "reap2"}
            => backups = {}
       /\ pc[b] = "swap" => blob = None
       /\ pc[b] \in {"reap1", "reap2"} => blob # None
\* The inductive invariant about the last published generation.
LatestInv == OneSnapshot /\ BackupsInFlight

\* Steps that touch neither snapshot nor backups, at places where there is no backup.
LEMMA QuietLatest ==
  ASSUME TypeInv, OneRunning, LatestInv, NEW b \in Builds, Running(b),
         pc[b] \notin {"clear", "recover", "cleanup", "swap", "reap1", "reap2"},
         UNCHANGED <<blob, backups, published, dead>>,
         NEW next, next \notin {"recover", "cleanup", "swap", "reap1", "reap2"},
         pc' = [pc EXCEPT ![b] = next]
  PROVE  LatestInv'
<1>1. backups = {} /\ backups' = {}
  BY DEF LatestInv, BackupsInFlight
<1>2. \A c \in Builds : \/ pc'[c] = pc[c]
                        \/ pc'[c] \notin {"recover", "cleanup", "swap", "reap1", "reap2"}
  BY DEF TypeInv, TypeOK
<1> QED
  BY <1>1, <1>2 DEF LatestInv, OneSnapshot, BackupsInFlight

\* The next build recovers the one backup and removes what a crash left of it.
LEMMA LatestStep ==
  Exclusive /\ CrashesOnly /\ TypeInv /\ OneRunning /\ Candidates /\ Steady /\ LatestInv
    /\ [Next]_vars => LatestInv'
<1> SUFFICES ASSUME Exclusive, CrashesOnly, TypeInv, OneRunning, Candidates, Steady, LatestInv,
                    [Next]_vars
             PROVE  LatestInv'
  OBVIOUS
<1> USE DEF cacheVars, buildVars, At, Goto, TypeInv, TypeOK, CacheTypeOK
<1>1. ASSUME NEW b \in Builds, Cache(b) PROVE LatestInv'
  <2> published' = IF pc[b] = "swap" /\ blob' # blob THEN b ELSE published
    BY <1>1 DEF Cache, Remember
  <2>1. CASE Recover(b)
    <3>0. /\ pc' = [pc EXCEPT ![b] = "cleanup"]
          /\ pc[b] = "recover"
          /\ UNCHANGED <<dead, staging, now>>
          /\ published' = published
      BY <2>1, <1>1 DEF Recover
    <3>1. \A k \in backups : ~Alive(k.owner)
      BY <3>0 DEF LatestInv, BackupsInFlight, OneRunning, Running, Ended, Backups
    <3>2. Recoverable(b) = backups
      BY <3>1 DEF Recoverable
    <3>3. CASE UNCHANGED <<blob, backups>> /\ (blob # None \/ backups = {})
      BY <3>0, <3>1, <3>3 DEF LatestInv, OneSnapshot, BackupsInFlight, Alive, Running, Ended,
         OneRunning
    <3>4. CASE /\ blob = None
               /\ backups # {}
               /\ blob' = [files |-> Newest(backups).files, mtime |-> Newest(backups).mtime]
               /\ backups' = backups \ {Newest(backups)}
      <4>1. PICK k \in backups : backups = {k} /\ (published # None => k.files = All(published))
        BY <3>4 DEF LatestInv, OneSnapshot, BackupsInFlight
      <4>2. Newest(backups) = k
        BY <4>1, NewestIsOne DEF Backups, MtimesPast
      <4>3. blob' \in Snapshots
        BY <3>4, <4>2 DEF Snapshots, Backups
      <4>4. blob' # None /\ (published # None => blob'.files = All(published)) /\ backups' = {}
        BY <3>4, <4>1, <4>2, <4>3, BlobCacheAssumption
      <4> QED BY <3>0, <4>1, <4>4 DEF LatestInv, OneSnapshot, BackupsInFlight, Running, Ended,
                 OneRunning
    <3> QED BY <2>1, <3>2, <3>3, <3>4 DEF Recover, Fallible, CrashesOnly
  <2>2. CASE ReapBegin(b)
    <3>1. PICK k \in backups : /\ blob # None
                               /\ ~Alive(k.owner)
                               /\ backups' = (backups \ {k}) \cup {HalfRemoved(k)}
      BY <2>2 DEF ReapBegin, Reapable
    <3>2. HalfRemoved(k).owner = k.owner
      BY HalfRemovedIs DEF MtimesPast
    <3>3. pc[b] = "cleanup" /\ UNCHANGED <<blob, dead, pc, published>>
      BY <2>2, <1>1 DEF ReapBegin
    <3> QED BY <3>1, <3>2, <3>3 DEF LatestInv, OneSnapshot, BackupsInFlight, OneRunning,
               Running, Alive, Ended
  <2>3. CASE ReapEnd(b)
    <3>1. blob # None /\ backups' \subseteq backups /\ UNCHANGED <<blob, dead, pc, published>>
      BY <2>3, <1>1 DEF ReapEnd, Reapable
    <3> QED BY <3>1 DEF LatestInv, OneSnapshot, BackupsInFlight, Alive, Running
  <2>4. CASE CleanedUp(b)
    <3>0. /\ pc' = [pc EXCEPT ![b] = "check"]
          /\ pc[b] = "cleanup"
          /\ UNCHANGED <<blob, backups, dead, published>>
      BY <2>4, <1>1 DEF CleanedUp
    <3>1. Reapable = {}
      BY <2>4 DEF CleanedUp, Fallible, CrashesOnly
    <3>2. \A k \in backups : ~Alive(k.owner)
      BY <3>0 DEF LatestInv, BackupsInFlight, OneRunning, Running, Ended, Backups
    <3>3. backups = {}
      BY <3>0, <3>1, <3>2 DEF Reapable, LatestInv, BackupsInFlight
    <3> QED BY <3>0, <3>3 DEF LatestInv, OneSnapshot, BackupsInFlight, Running, Ended,
               OneRunning
  <2>5. CASE Check(b)
    <3>1. PICK next : /\ next \notin {"recover", "cleanup", "swap", "reap1", "reap2"}
                      /\ pc' = [pc EXCEPT ![b] = next]
      BY <2>5 DEF Check
    <3>2. UNCHANGED <<blob, backups, published, dead>>
      BY <2>5, <1>1 DEF Check
    <3> QED BY <2>5, <3>1, <3>2, QuietLatest DEF Check, Running, Ended
  <2>6. CASE Discard(b)
    <3>1. PICK next : /\ next \notin {"recover", "cleanup", "swap", "reap1", "reap2"}
                      /\ pc' = [pc EXCEPT ![b] = next]
      BY <2>6 DEF Discard
    <3>2. UNCHANGED <<blob, backups, published, dead>>
      BY <2>6, <1>1 DEF Discard
    <3> QED BY <2>6, <3>1, <3>2, QuietLatest DEF Discard, Running, Ended
  <2>7. CASE Refill(b)
    <3>1. PICK next : /\ next \notin {"recover", "cleanup", "swap", "reap1", "reap2"}
                      /\ pc' = [pc EXCEPT ![b] = next]
      BY <2>7 DEF Refill
    <3>2. UNCHANGED <<blob, backups, published, dead>>
      BY <2>7, <1>1 DEF Refill
    <3> QED BY <2>7, <3>1, <3>2, QuietLatest DEF Refill, Running, Ended
  <2>8. CASE Mark(b)
    <3>1. PICK next : /\ next \notin {"recover", "cleanup", "swap", "reap1", "reap2"}
                      /\ pc' = [pc EXCEPT ![b] = next]
      BY <2>8 DEF Mark
    <3>2. UNCHANGED <<blob, backups, published, dead>>
      BY <2>8, <1>1 DEF Mark
    <3> QED BY <2>8, <3>1, <3>2, QuietLatest DEF Mark, Running, Ended
  <2>9. CASE WriteMark(b)
    <3>1. PICK next : /\ next \notin {"recover", "cleanup", "swap", "reap1", "reap2"}
                      /\ pc' = [pc EXCEPT ![b] = next]
      BY <2>9 DEF WriteMark
    <3>2. UNCHANGED <<blob, backups, published, dead>>
      BY <2>9, <1>1 DEF WriteMark
    <3> QED BY <2>9, <3>1, <3>2, QuietLatest DEF WriteMark, Running, Ended
  <2>10. CASE Unmark(b)
    <3>1. PICK next : /\ next \notin {"recover", "cleanup", "swap", "reap1", "reap2"}
                      /\ pc' = [pc EXCEPT ![b] = next]
      BY <2>10 DEF Unmark
    <3>2. UNCHANGED <<blob, backups, published, dead>>
      BY <2>10, <1>1 DEF Unmark
    <3> QED BY <2>10, <3>1, <3>2, QuietLatest DEF Unmark, Running, Ended
  <2>11. CASE Generate(b)
    <3>1. PICK next : /\ next \notin {"recover", "cleanup", "swap", "reap1", "reap2"}
                      /\ pc' = [pc EXCEPT ![b] = next]
      BY <2>11 DEF Generate
    <3>2. UNCHANGED <<blob, backups, published, dead>>
      BY <2>11, <1>1 DEF Generate
    <3> QED BY <2>11, <3>1, <3>2, QuietLatest DEF Generate, Running, Ended
  <2>12. CASE Verify(b)
    <3>1. PICK next : /\ next \notin {"recover", "cleanup", "swap", "reap1", "reap2"}
                      /\ pc' = [pc EXCEPT ![b] = next]
      BY <2>12 DEF Verify
    <3>2. UNCHANGED <<blob, backups, published, dead>>
      BY <2>12, <1>1 DEF Verify
    <3> QED BY <2>12, <3>1, <3>2, QuietLatest DEF Verify, Running, Ended
  <2>13. CASE Commit(b)
    <3>1. PICK next : /\ next \notin {"recover", "cleanup", "swap", "reap1", "reap2"}
                      /\ pc' = [pc EXCEPT ![b] = next]
      BY <2>13 DEF Commit
    <3>2. UNCHANGED <<blob, backups, published, dead>>
      BY <2>13, <1>1 DEF Commit
    <3> QED BY <2>13, <3>1, <3>2, QuietLatest DEF Commit, Running, Ended
  <2>14. CASE Copy(b)
    <3>1. PICK next : /\ next \notin {"recover", "cleanup", "swap", "reap1", "reap2"}
                      /\ pc' = [pc EXCEPT ![b] = next]
      BY <2>14 DEF Copy
    <3>2. UNCHANGED <<blob, backups, published, dead>>
      BY <2>14, <1>1 DEF Copy
    <3> QED BY <2>14, <3>1, <3>2, QuietLatest DEF Copy, Running, Ended
  <2>15. CASE CopyFails(b)
    <3>1. PICK next : /\ next \notin {"recover", "cleanup", "swap", "reap1", "reap2"}
                      /\ pc' = [pc EXCEPT ![b] = next]
      BY <2>15 DEF CopyFails
    <3>2. UNCHANGED <<blob, backups, published, dead>>
      BY <2>15, <1>1 DEF CopyFails
    <3> QED BY <2>15, <3>1, <3>2, QuietLatest DEF CopyFails, Running, Ended
  <2>16. CASE Recheck(b)
    <3>1. PICK next : /\ next \notin {"recover", "cleanup", "swap", "reap1", "reap2"}
                      /\ pc' = [pc EXCEPT ![b] = next]
      BY <2>16 DEF Recheck
    <3>2. UNCHANGED <<blob, backups, published, dead>>
      BY <2>16, <1>1 DEF Recheck
    <3> QED BY <2>16, <3>1, <3>2, QuietLatest DEF Recheck, Running, Ended
  <2>17. CASE Backup(b)
    <3>0. /\ pc' = [pc EXCEPT ![b] = "swap"]
          /\ pc[b] = "backup"
          /\ UNCHANGED <<dead, published>>
          /\ blob' = None
      BY <2>17, <1>1 DEF Backup, Fallible, CrashesOnly
    <3>1. backups = {}
      BY <3>0 DEF LatestInv, BackupsInFlight, Running, Ended
    <3>2. CASE blob # None
      <4> DEFINE k == [owner |-> b, files |-> blob.files, mtime |-> blob.mtime]
      <4>1. /\ backups' = {k} /\ k.owner = b
            /\ published # None => k.files = All(published)
        BY <2>17, <3>1, <3>2 DEF Backup, Fallible, CrashesOnly, LatestInv, OneSnapshot
      <4> HIDE DEF k
      <4> QED BY <3>0, <4>1 DEF LatestInv, OneSnapshot, BackupsInFlight, Running, Ended,
                 OneRunning
    <3>3. CASE blob = None
      <4>1. backups' = {} /\ published = None
        BY <2>17, <3>1, <3>3 DEF Backup, LatestInv, OneSnapshot
      <4> QED BY <3>0, <4>1 DEF LatestInv, OneSnapshot, BackupsInFlight, Running, Ended,
                 OneRunning
    <3> QED BY <3>2, <3>3
  <2>18. CASE Swap(b)
    <3>0. /\ blob = None
          /\ blob' = [files |-> work[b], mtime |-> now + 1]
          /\ pc' = [pc EXCEPT ![b] = "reap1"]
          /\ pc[b] = "swap" /\ UNCHANGED <<backups, dead>>
      BY <2>18 DEF Swap, Fallible, CrashesOnly, LatestInv, BackupsInFlight
    <3>1. work[b] = All(b) /\ work[b] \in Contents
      BY <2>18 DEF Swap, Candidates, WorkHeld
    <3>2. blob' \in Snapshots /\ blob' # None /\ blob'.files = All(b)
      BY <3>0, <3>1, BlobCacheAssumption DEF Snapshots
    <3>3. published' = b /\ b # None
      BY <1>1, <3>0, <3>2, BlobCacheAssumption
    <3> QED BY <3>0, <3>2, <3>3 DEF LatestInv, OneSnapshot, BackupsInFlight, Running, Ended,
               OneRunning, Alive, Backups
  <2>19. CASE Rollback(b)
    BY <2>19 DEF Rollback, Steady
  <2>20. CASE Reap(b)
    <3>0. blob # None /\ UNCHANGED <<blob, dead, published>> /\ pc[b] \in {"reap1", "reap2"}
      BY <2>20, <1>1 DEF Reap, LatestInv, BackupsInFlight
    <3>1. ASSUME pc[b] = "reap1", NEW k \in backups, k.owner = b,
                 backups' = (backups \ {k}) \cup {HalfRemoved(k)},
                 pc' = [pc EXCEPT ![b] = "reap2"]
          PROVE  LatestInv'
      <4>1. HalfRemoved(k).owner = b
        BY <3>1, HalfRemovedIs DEF MtimesPast
      <4> QED BY <3>0, <3>1, <4>1 DEF LatestInv, OneSnapshot, BackupsInFlight, Running, Ended,
                 OneRunning, Alive, Backups
    <3>2. CASE backups' = backups \ Own(b) /\ pc' = [pc EXCEPT ![b] = "done"]
      BY <3>0, <3>2 DEF Own, LatestInv, OneSnapshot, BackupsInFlight, Running, Ended,
         OneRunning, Alive, Backups
    <3> QED BY <2>20, <3>1, <3>2 DEF Reap, Own, Fallible, CrashesOnly
  <2> QED BY <1>1, <2>1, <2>2, <2>3, <2>4, <2>5, <2>6, <2>7, <2>8, <2>9, <2>10, <2>11, <2>12,
             <2>13, <2>14, <2>15, <2>16, <2>17, <2>18, <2>19, <2>20 DEF Cache, Stage, Publish
<1>2. ASSUME NEW b \in Builds, Build(b) PROVE LatestInv'
  <2>1. CASE Begin(b)
    <3>1. /\ pc' = [pc EXCEPT ![b] = IF Rebuild[b] = 1 THEN "clear" ELSE "recover"]
          /\ UNCHANGED <<blob, backups, published, dead>>
          /\ pc[b] = "idle"
          /\ \A c \in Builds : ~Running(c)
      BY <2>1 DEF Begin, Exclusive
    <3>2. \A c \in Builds : pc'[c] = pc[c] \/ (c = b /\ pc'[c] \in {"clear", "recover"})
      BY <3>1
    <3> QED BY <3>1, <3>2 DEF LatestInv, OneSnapshot, BackupsInFlight, Running, Ended, Alive,
               Backups
  <2>2. CASE Require(b, "staged", "snapshot")
    <3>1. PICK next : /\ next \notin {"recover", "cleanup", "swap", "reap1", "reap2"}
                      /\ pc' = [pc EXCEPT ![b] = next]
      BY <2>2 DEF Require
    <3> QED BY <2>2, <3>1, QuietLatest DEF Require, Running, Ended
  <2>3. CASE SnapshotKids(b)
    <3>1. PICK next : /\ next \notin {"recover", "cleanup", "swap", "reap1", "reap2"}
                      /\ pc' = [pc EXCEPT ![b] = next]
      BY <2>3 DEF SnapshotKids, Readable
    <3> QED BY <2>3, <3>1, QuietLatest DEF SnapshotKids, Running, Ended
  <2>4. CASE Require(b, "precompile", "compile")
    <3>1. PICK next : /\ next \notin {"recover", "cleanup", "swap", "reap1", "reap2"}
                      /\ pc' = [pc EXCEPT ![b] = next]
      BY <2>4 DEF Require
    <3> QED BY <2>4, <3>1, QuietLatest DEF Require, Running, Ended
  <2>5. CASE Compile(b)
    <3>1. PICK next : /\ next \notin {"recover", "cleanup", "swap", "reap1", "reap2"}
                      /\ pc' = [pc EXCEPT ![b] = next]
      BY <2>5 DEF Compile, CompileFails, DropCandidate
    <3> QED BY <2>5, <3>1, QuietLatest DEF Compile, Running, Ended
  <2>6. CASE Require(b, "compiled", "copy")
    <3>1. PICK next : /\ next \notin {"recover", "cleanup", "swap", "reap1", "reap2"}
                      /\ pc' = [pc EXCEPT ![b] = next]
      BY <2>6 DEF Require
    <3> QED BY <2>6, <3>1, QuietLatest DEF Require, Running, Ended
  <2>7. CASE CopyBinary(b)
    <3>1. PICK next : /\ next \notin {"recover", "cleanup", "swap", "reap1", "reap2"}
                      /\ pc' = [pc EXCEPT ![b] = next]
      BY <2>7 DEF CopyBinary
    <3> QED BY <2>7, <3>1, QuietLatest DEF CopyBinary, Running, Ended
  <2>8. CASE Validate(b)
    <3>1. PICK next : /\ next \notin {"recover", "cleanup", "swap", "reap1", "reap2"}
                      /\ pc' = [pc EXCEPT ![b] = next]
      BY <2>8 DEF Validate, Require
    <3> QED BY <2>8, <3>1, QuietLatest DEF Validate, Require, Running, Ended
  <2>9. CASE Replace(b)
    <3>1. PICK next : /\ next \notin {"recover", "cleanup", "swap", "reap1", "reap2"}
                      /\ pc' = [pc EXCEPT ![b] = next]
      BY <2>9 DEF Replace
    <3> QED BY <2>9, <3>1, QuietLatest DEF Replace, Running, Ended
  <2>10. CASE Identify(b)
    <3>1. PICK next : /\ next \notin {"recover", "cleanup", "swap", "reap1", "reap2"}
                      /\ pc' = [pc EXCEPT ![b] = next]
      BY <2>10 DEF Identify
    <3> QED BY <2>10, <3>1, QuietLatest DEF Identify, Running, Ended
  <2>11. CASE PutSidecar(b)
    <3>1. PICK next : /\ next \notin {"recover", "cleanup", "swap", "reap1", "reap2"}
                      /\ pc' = [pc EXCEPT ![b] = next]
      BY <2>11 DEF PutSidecar
    <3> QED BY <2>11, <3>1, QuietLatest DEF PutSidecar, Running, Ended
  <2>12. CASE PutReceipt(b)
    <3>1. PICK next : /\ next \notin {"recover", "cleanup", "swap", "reap1", "reap2"}
                      /\ pc' = [pc EXCEPT ![b] = next]
      BY <2>12 DEF PutReceipt
    <3> QED BY <2>12, <3>1, QuietLatest DEF PutReceipt, Running, Ended
  <2>13. CASE Clear(b)
    <3>0. UNCHANGED <<pc, dead>> /\ pc[b] = "clear" /\ Running(b)
      BY <2>13 DEF Clear, Running, Ended
    <3>1. \A c \in Builds \ {b} : ~Running(c)
      BY <3>0 DEF OneRunning
    <3>2. OneSnapshot'
      BY <2>13 DEF Clear, LatestInv, OneSnapshot
    <3>3. /\ \A k, other \in backups' : k = other
          /\ \A k \in backups' : ~Alive(k.owner)
      <4>1. \A k \in backups : ~Alive(k.owner)
        BY <3>0, <3>1 DEF LatestInv, BackupsInFlight, Running, Ended, Backups
      <4>2. CASE backups' = backups
        BY <4>1, <4>2 DEF LatestInv, BackupsInFlight
      <4>3. ASSUME NEW k \in backups, backups' \subseteq (backups \ {k}) \cup {HalfRemoved(k)}
            PROVE  /\ \A old, other \in backups' : old = other
                   /\ \A other \in backups' : ~Alive(other.owner)
        <5>1. backups = {k} /\ HalfRemoved(k).owner = k.owner
          BY HalfRemovedIs DEF LatestInv, BackupsInFlight
        <5> QED BY <4>1, <4>3, <5>1
      <4> QED BY <2>13, <4>2, <4>3 DEF Clear
    <3> QED BY <3>0, <3>1, <3>2, <3>3 DEF LatestInv, BackupsInFlight, Alive, Running, Ended
  <2>14. CASE Cleared(b)
    <3>1. /\ blob = None /\ backups = {} /\ pc[b] = "clear"
          /\ pc' = [pc EXCEPT ![b] = "recover"]
          /\ UNCHANGED <<blob, backups, published, dead>>
      BY <2>14 DEF Cleared, TreeCleared, Fallible, CrashesOnly
    <3> QED BY <3>1 DEF LatestInv, OneSnapshot, BackupsInFlight, Running, Ended
  <2>15. CASE Link(b)
    <3>1. PICK next : /\ next \notin {"recover", "cleanup", "swap", "reap1", "reap2"}
                      /\ pc' = [pc EXCEPT ![b] = next]
      BY <2>15 DEF Link, CompileFails
    <3> QED BY <2>15, <3>1, QuietLatest DEF Link, Running, Ended
  <2> QED BY <1>2, <2>1, <2>2, <2>3, <2>4, <2>5, <2>6, <2>7, <2>8, <2>9, <2>10, <2>11, <2>12,
             <2>13, <2>14, <2>15 DEF Build
<1>3. ASSUME NEW p \in Procs, Crash(p) PROVE LatestInv'
  <2>1. UNCHANGED <<blob, backups, published>> /\ dead \subseteq dead'
    BY <1>3 DEF Crash
  <2>2. \A c \in Builds : pc'[c] = pc[c] \/ (pc'[c] = "dead" /\ Proc[c] \in dead')
    BY <1>3 DEF Crash
  <2> QED BY <2>1, <2>2 DEF LatestInv, OneSnapshot, BackupsInFlight, Alive, Running, Ended,
             Backups
<1>4. CASE UNCHANGED vars
  BY <1>4 DEF vars, LatestInv, OneSnapshot, BackupsInFlight, Alive, Running
<1> QED BY <1>1, <1>2, <1>3, <1>4 DEF Next

\* While the generation is its own, a build can read every file of it.
LEMMA OwnReadable ==
  ASSUME TypeInv, TokenHonest, NEW b \in Builds, OwnGeneration(b), Running(b), NEW i \in Files
  PROVE  Readable(i)
<1>1. staging # None /\ staging.files = All(b)
  BY OwnFiles
<1>2. All(b)[i] = b /\ b # None
  BY BlobCacheAssumption DEF All
<1> QED BY <1>1, <1>2 DEF Readable

\* Every guard a build meets after crashes lets it go on.
LEMMA SteadyStep ==
  Exclusive /\ CrashesOnly /\ TypeInv /\ MarkHeld /\ TokenHonest /\ OneRunning /\ Steady
    /\ MarkOwner /\ LatestInv /\ [Next]_vars => Steady'
<1> SUFFICES ASSUME Exclusive, CrashesOnly, TypeInv, MarkHeld, TokenHonest, OneRunning, Steady,
                    MarkOwner, LatestInv, [Next]_vars
             PROVE  Steady'
  OBVIOUS
<1> USE DEF cacheVars, buildVars, At, Goto, TypeInv, TypeOK, CacheTypeOK, CrashesOnly, Fallible
<1>1. ASSUME NEW b \in Builds, Cache(b) PROVE Steady'
  <2> UNCHANGED <<target, artifact, sidecar, receipt, kids>>
    BY <1>1 DEF Cache
  <2>1. CASE Recover(b)
    <3>0. \A c \in Builds \ {b} : ~Running(c) /\ pc'[c] = pc[c]
      BY <2>1 DEF Recover, OneRunning, Running, Ended
    <3> QED BY <2>1, <3>0 DEF Recover, Steady, BuildPlaces, OwnMark, OwnGeneration, Running,
               Ended
  <2>2. CASE ReapBegin(b)
    <3>0. \A c \in Builds \ {b} : ~Running(c) /\ pc'[c] = pc[c]
      BY <2>2 DEF ReapBegin, OneRunning, Running, Ended
    <3> QED BY <2>2, <3>0 DEF ReapBegin, Steady, BuildPlaces, OwnMark, OwnGeneration, Running,
               Ended
  <2>3. CASE ReapEnd(b)
    <3>0. \A c \in Builds \ {b} : ~Running(c) /\ pc'[c] = pc[c]
      BY <2>3 DEF ReapEnd, OneRunning, Running, Ended
    <3> QED BY <2>3, <3>0 DEF ReapEnd, Steady, BuildPlaces, OwnMark, OwnGeneration, Running,
               Ended
  <2>4. CASE CleanedUp(b)
    <3>0. \A c \in Builds \ {b} : ~Running(c) /\ pc'[c] = pc[c]
      BY <2>4 DEF CleanedUp, OneRunning, Running, Ended
    <3> QED BY <2>4, <3>0 DEF CleanedUp, Steady, BuildPlaces, OwnMark, OwnGeneration, Running,
               Ended
  <2>5. CASE Check(b)
    <3>0. \A c \in Builds \ {b} : ~Running(c) /\ pc'[c] = pc[c]
      BY <2>5 DEF Check, OneRunning, Running, Ended
    <3>1. ~(staging # None /\ staging.mark # None /\ MarkerActive)
      BY <2>5 DEF Check, MarkOwner, MarkerActive, OneRunning, Running, Ended, Staging, Marks
    <3>2. /\ pc'[b] \in {"discard", "mark"}
          /\ (pc'[b] = "mark" => staging # None /\ staging.mark = None)
      BY <2>5, <3>1 DEF Check
    <3> QED BY <2>5, <3>0, <3>2 DEF Check, Steady, BuildPlaces, OwnMark, OwnGeneration, Running,
               Ended
  <2>6. CASE Discard(b)
    <3>0. \A c \in Builds \ {b} : ~Running(c) /\ pc'[c] = pc[c]
      BY <2>6 DEF Discard, OneRunning, Running, Ended
    <3> QED BY <2>6, <3>0 DEF Discard, Steady, BuildPlaces, OwnMark, OwnGeneration, Running,
               Ended
  <2>7. CASE Refill(b)
    <3>0. \A c \in Builds \ {b} : ~Running(c) /\ pc'[c] = pc[c]
      BY <2>7 DEF Refill, OneRunning, Running, Ended
    <3>1. /\ staging' = Tree(IF blob = None THEN Empty ELSE blob.files)
          /\ pc' = [pc EXCEPT ![b] = "mark"]
      BY <2>7 DEF Refill, Steady
    <3>2. staging' \in Staging /\ staging'.mark = None
      BY <3>1 DEF Tree, Staging, Empty, Contents, Snapshots
    <3>3. staging' # None
      BY <3>2, BlobCacheAssumption
    <3> QED BY <3>0, <3>1, <3>2, <3>3 DEF Steady, BuildPlaces, Running, Ended
  <2>8. CASE Mark(b)
    <3>0. \A c \in Builds \ {b} : ~Running(c) /\ pc'[c] = pc[c]
      BY <2>8 DEF Mark, OneRunning, Running, Ended
    <3>1. staging # None /\ staging.mark = None
      BY <2>8 DEF Mark, Steady
    <3>2. staging' = [staging EXCEPT !.mark = [by |-> b, written |-> ~Fallible("slowMark")]]
      BY <2>8, <3>1 DEF Mark
    <3>3. staging' # None /\ staging'.mark = [by |-> b, written |-> ~Fallible("slowMark")]
      <4>1. /\ staging'.mark = [by |-> b, written |-> ~Fallible("slowMark")]
            /\ staging' \in Staging
        BY <3>1, <3>2 DEF Staging, Marks
      <4> QED BY <4>1, BlobCacheAssumption
    <3>4. pc' = [pc EXCEPT ![b] = IF Fallible("slowMark") THEN "write" ELSE "unmark"]
      BY <2>8, <3>1 DEF Mark
    <3> QED BY <3>0, <3>3, <3>4 DEF Steady, BuildPlaces, Running, Ended, OwnMark
  <2>9. CASE WriteMark(b)
    <3>0. \A c \in Builds \ {b} : ~Running(c) /\ pc'[c] = pc[c]
      BY <2>9 DEF WriteMark, OneRunning, Running, Ended
    <3>1. staging # None /\ staging.mark # None /\ staging.mark.by = b /\ staging \in Staging
      BY <2>9 DEF WriteMark, MarkHeld, Marked
    <3>2. staging' = [staging EXCEPT !.mark = Written(staging.mark, b),
                      !.token = Written(staging.token, b)]
      BY <2>9, <3>1 DEF WriteMark
    <3>3. Written(staging.mark, b) = [by |-> b, written |-> TRUE]
      BY <3>1 DEF Written, Staging, Marks
    <3>4. staging'.mark = [by |-> b, written |-> TRUE]
      BY <3>1, <3>2, <3>3 DEF Staging
    <3>5. staging' # None
      <4>1. staging.token \in Marks \cup {None}
        BY <3>1 DEF Staging
      <4>2. staging' \in Staging
        BY <3>1, <3>2, <3>3, <4>1, WrittenIs DEF Staging, Marks
      <4> QED BY <4>2, BlobCacheAssumption
    <3>6. pc' = [pc EXCEPT ![b] = "unmark"]
      BY <2>9 DEF WriteMark
    <3> QED BY <3>0, <3>4, <3>5, <3>6 DEF Steady, BuildPlaces, Running, Ended, OwnMark
  <2>10. CASE Unmark(b)
    <3>0. \A c \in Builds \ {b} : ~Running(c) /\ pc'[c] = pc[c]
      BY <2>10 DEF Unmark, OneRunning, Running, Ended
    <3>1. OwnMark(b)
      BY <2>10 DEF Unmark, Steady
    <3>2. staging' = [staging EXCEPT !.token = None] /\ pc' = [pc EXCEPT ![b] = "gen1"]
      BY <2>10, <3>1 DEF Unmark, OwnMark
    <3>3. staging' \in Staging /\ staging'.mark = staging.mark
      BY <3>1, <3>2 DEF OwnMark, Staging
    <3>4. staging' # None
      BY <3>3, BlobCacheAssumption
    <3> QED BY <3>0, <3>1, <3>2, <3>3, <3>4 DEF Steady, BuildPlaces, Running, Ended, OwnMark
  <2>11. CASE Generate(b)
    <3>0. \A c \in Builds \ {b} : ~Running(c) /\ pc'[c] = pc[c]
      BY <2>11 DEF Generate, OneRunning, Running, Ended
    <3>1. OwnMark(b)
      BY <2>11 DEF Generate, Steady
    <3>2. PICK i \in Files : /\ staging' = [staging EXCEPT !.files[i] = b]
                            /\ pc' = [pc EXCEPT ![b] = IF pc[b] = "gen1" THEN "gen2" ELSE "verify"]
      BY <2>11, <3>1 DEF Generate, OwnMark, Files
    <3>3. staging' \in Staging /\ staging'.mark = staging.mark
      BY <3>1, <3>2 DEF OwnMark, Staging, Contents
    <3>4. staging' # None
      BY <3>3, BlobCacheAssumption
    <3> QED BY <3>0, <3>1, <3>2, <3>3, <3>4 DEF Steady, BuildPlaces, Running, Ended, OwnMark
  <2>12. CASE Verify(b)
    <3>0. \A c \in Builds \ {b} : ~Running(c) /\ pc'[c] = pc[c]
      BY <2>12 DEF Verify, OneRunning, Running, Ended
    <3>1. OwnMark(b) /\ pc' = [pc EXCEPT ![b] = "commit"] /\ staging' = staging
      BY <2>12 DEF Verify, Steady
    <3> QED BY <3>0, <3>1 DEF Steady, BuildPlaces, Running, Ended, OwnMark, OwnGeneration
  <2>13. CASE Commit(b)
    <3>0. \A c \in Builds \ {b} : ~Running(c) /\ pc'[c] = pc[c]
      BY <2>13 DEF Commit, OneRunning, Running, Ended
    <3>1. OwnMark(b)
      BY <2>13 DEF Commit, Steady
    <3>2. /\ staging \in Staging
          /\ staging # None
          /\ staging.mark = [by |-> b, written |-> TRUE]
          /\ staging.mark # None
      <4>1. [by |-> b, written |-> TRUE] \in Marks
        BY DEF Marks
      <4> QED BY <3>1, <4>1, BlobCacheAssumption DEF OwnMark
    <3>3. /\ staging' = [staging EXCEPT !.token = staging.mark, !.mark = None]
          /\ pc' = [pc EXCEPT ![b] = "staged"]
      BY <2>13, <3>2 DEF Commit
    <3>4. staging'.token = [by |-> b, written |-> TRUE] /\ staging'.mark = None
      BY <3>2, <3>3 DEF Staging
    <3>5. staging' # None
      <4>1. staging' \in Staging
        BY <3>2, <3>3 DEF Staging, Marks
      <4> QED BY <4>1, BlobCacheAssumption
    <3> QED BY <3>0, <3>3, <3>4, <3>5 DEF Steady, BuildPlaces, Running, Ended, OwnGeneration
  <2>14. CASE Copy(b)
    <3>0. \A c \in Builds \ {b} : ~Running(c) /\ pc'[c] = pc[c]
      BY <2>14 DEF Copy, OneRunning, Running, Ended
    <3> QED BY <2>14, <3>0 DEF Copy, Steady, BuildPlaces, OwnMark, OwnGeneration, Running, Ended
  <2>15. CASE CopyFails(b)
    <3>0. \A c \in Builds \ {b} : ~Running(c) /\ pc'[c] = pc[c]
      BY <2>15 DEF CopyFails, OneRunning, Running, Ended
    <3> QED BY <2>15, <3>0 DEF CopyFails, Steady, BuildPlaces, OwnMark, OwnGeneration, Running,
               Ended
  <2>16. CASE Recheck(b)
    <3>0. \A c \in Builds \ {b} : ~Running(c) /\ pc'[c] = pc[c]
      BY <2>16 DEF Recheck, OneRunning, Running, Ended
    <3> QED BY <2>16, <3>0 DEF Recheck, Steady, BuildPlaces, OwnMark, OwnGeneration, Running,
               Ended
  <2>17. CASE Backup(b)
    <3>0. \A c \in Builds \ {b} : ~Running(c) /\ pc'[c] = pc[c]
      BY <2>17 DEF Backup, OneRunning, Running, Ended
    <3> QED BY <2>17, <3>0 DEF Backup, Steady, BuildPlaces, OwnMark, OwnGeneration, Running,
               Ended
  <2>18. CASE Swap(b)
    <3>0. \A c \in Builds \ {b} : ~Running(c) /\ pc'[c] = pc[c]
      BY <2>18 DEF Swap, OneRunning, Running, Ended
    <3>1. pc' = [pc EXCEPT ![b] = "reap1"] /\ UNCHANGED <<staging, target>>
      BY <2>18 DEF Swap, LatestInv, BackupsInFlight
    <3> QED BY <3>0, <3>1 DEF Steady, BuildPlaces, OwnMark, OwnGeneration, Running, Ended
  <2>19. CASE Rollback(b)
    <3>0. \A c \in Builds \ {b} : ~Running(c) /\ pc'[c] = pc[c]
      BY <2>19 DEF Rollback, OneRunning, Running, Ended
    <3> QED BY <2>19, <3>0 DEF Rollback, Steady, BuildPlaces, OwnMark, OwnGeneration, Running,
               Ended
  <2>20. CASE Reap(b)
    <3>0. \A c \in Builds \ {b} : ~Running(c) /\ pc'[c] = pc[c]
      BY <2>20 DEF Reap, OneRunning, Running, Ended
    <3>1. PICK next \in {"reap2", "done"} : pc' = [pc EXCEPT ![b] = next]
      BY <2>20 DEF Reap
    <3>2. UNCHANGED <<staging, target>>
      BY <2>20 DEF Reap
    <3> QED BY <3>0, <3>1, <3>2 DEF Steady, BuildPlaces, OwnMark, OwnGeneration, Running, Ended
  <2> QED BY <1>1, <2>1, <2>2, <2>3, <2>4, <2>5, <2>6, <2>7, <2>8, <2>9, <2>10, <2>11, <2>12,
             <2>13, <2>14, <2>15, <2>16, <2>17, <2>18, <2>19, <2>20 DEF Cache, Stage, Publish
<1>2. ASSUME NEW b \in Builds, Build(b) PROVE Steady'
  <2>1. CASE Begin(b)
    <3>1. \A c \in Builds : ~Running(c)
      BY <2>1 DEF Begin, Exclusive
    <3>2. pc' = [pc EXCEPT ![b] = IF Rebuild[b] = 1 THEN "clear" ELSE "recover"]
      BY <2>1 DEF Begin
    <3> QED BY <3>1, <3>2 DEF Steady, BuildPlaces, Running, Ended
  <2>2. CASE Require(b, "staged", "snapshot")
    <3>0. \A c \in Builds \ {b} : ~Running(c) /\ pc'[c] = pc[c]
      BY <2>2 DEF Require, OneRunning, Running, Ended
    <3> QED BY <2>2, <3>0 DEF Require, Steady, BuildPlaces, OwnMark, OwnGeneration, Running,
               Ended
  <2>3. CASE SnapshotKids(b)
    <3>0. \A c \in Builds \ {b} : ~Running(c) /\ pc'[c] = pc[c]
      BY <2>3 DEF SnapshotKids, OneRunning, Running, Ended
    <3>1. OwnGeneration(b) /\ Running(b)
      BY <2>3 DEF SnapshotKids, Steady, BuildPlaces, Running, Ended
    <3>2. Readable(2)
      BY <3>1, OwnReadable DEF Files
    <3>3. pc' = [pc EXCEPT ![b] = "precompile"] /\ UNCHANGED <<staging, target>>
      BY <2>3, <3>2 DEF SnapshotKids
    <3> QED BY <3>0, <3>1, <3>3 DEF Steady, BuildPlaces, OwnMark, OwnGeneration, Running, Ended
  <2>4. CASE Require(b, "precompile", "compile")
    <3>0. \A c \in Builds \ {b} : ~Running(c) /\ pc'[c] = pc[c]
      BY <2>4 DEF Require, OneRunning, Running, Ended
    <3> QED BY <2>4, <3>0 DEF Require, Steady, BuildPlaces, OwnMark, OwnGeneration, Running,
               Ended
  <2>5. CASE Compile(b)
    <3>0. \A c \in Builds \ {b} : ~Running(c) /\ pc'[c] = pc[c]
      BY <2>5 DEF Compile, CompileFails, OneRunning, Running, Ended
    <3>1. OwnGeneration(b) /\ Running(b)
      BY <2>5 DEF Compile, Steady, BuildPlaces, Running, Ended
    <3>2. Readable(1)
      BY <3>1, OwnReadable DEF Files
    <3>3. pc' = [pc EXCEPT ![b] = "link"] /\ UNCHANGED <<staging, target>>
      BY <2>5, <3>2 DEF Compile
    <3> QED BY <3>0, <3>1, <3>3 DEF Steady, BuildPlaces, OwnMark, OwnGeneration, Running, Ended
  <2>6. CASE Require(b, "compiled", "copy")
    <3>0. \A c \in Builds \ {b} : ~Running(c) /\ pc'[c] = pc[c]
      BY <2>6 DEF Require, OneRunning, Running, Ended
    <3> QED BY <2>6, <3>0 DEF Require, Steady, BuildPlaces, OwnMark, OwnGeneration, Running,
               Ended
  <2>7. CASE CopyBinary(b)
    <3>0. \A c \in Builds \ {b} : ~Running(c) /\ pc'[c] = pc[c]
      BY <2>7 DEF CopyBinary, OneRunning, Running, Ended
    <3> QED BY <2>7, <3>0 DEF CopyBinary, Steady, BuildPlaces, OwnMark, OwnGeneration, Running,
               Ended
  <2>8. CASE Validate(b)
    <3>0. \A c \in Builds \ {b} : ~Running(c) /\ pc'[c] = pc[c]
      BY <2>8 DEF Validate, Require, OneRunning, Running, Ended
    <3> QED BY <2>8, <3>0 DEF Validate, Require, Steady, BuildPlaces, OwnMark, OwnGeneration,
               Running, Ended
  <2>9. CASE Replace(b)
    <3>0. \A c \in Builds \ {b} : ~Running(c) /\ pc'[c] = pc[c]
      BY <2>9 DEF Replace, OneRunning, Running, Ended
    <3> QED BY <2>9, <3>0 DEF Replace, Steady, BuildPlaces, OwnMark, OwnGeneration, Running,
               Ended
  <2>10. CASE Identify(b)
    <3>0. \A c \in Builds \ {b} : ~Running(c) /\ pc'[c] = pc[c]
      BY <2>10 DEF Identify, OneRunning, Running, Ended
    <3> QED BY <2>10, <3>0 DEF Identify, Steady, BuildPlaces, OwnMark, OwnGeneration, Running,
               Ended
  <2>11. CASE PutSidecar(b)
    <3>0. \A c \in Builds \ {b} : ~Running(c) /\ pc'[c] = pc[c]
      BY <2>11 DEF PutSidecar, OneRunning, Running, Ended
    <3> QED BY <2>11, <3>0 DEF PutSidecar, Steady, BuildPlaces, OwnMark, OwnGeneration, Running,
               Ended
  <2>12. CASE PutReceipt(b)
    <3>0. \A c \in Builds \ {b} : ~Running(c) /\ pc'[c] = pc[c]
      BY <2>12 DEF PutReceipt, OneRunning, Running, Ended
    <3> QED BY <2>12, <3>0 DEF PutReceipt, Steady, BuildPlaces, OwnMark, OwnGeneration, Running,
               Ended
  <2>13. CASE Clear(b)
    <3>1. pc' = pc /\ pc[b] = "clear" /\ \A c \in Builds \ {b} : ~Running(c)
      BY <2>13 DEF Clear, OneRunning, Running, Ended
    <3> QED BY <3>1 DEF Steady, BuildPlaces, Running, Ended
  <2>14. CASE Cleared(b)
    <3>1. /\ pc[b] = "clear" /\ pc' = [pc EXCEPT ![b] = "recover"]
          /\ \A c \in Builds \ {b} : ~Running(c)
      BY <2>14 DEF Cleared, OneRunning, Running, Ended
    <3> QED BY <3>1 DEF Steady, BuildPlaces, Running, Ended
  <2>15. CASE Link(b)
    <3>0. \A c \in Builds \ {b} : ~Running(c) /\ pc'[c] = pc[c]
      BY <2>15 DEF Link, CompileFails, OneRunning, Running, Ended
    <3>1. OwnGeneration(b) /\ Running(b) /\ work[b] \in Contents
      BY <2>15 DEF Link, Steady, BuildPlaces, Running, Ended, WorkHeld
    <3>2. Readable(2) /\ staging.files \in Contents
      BY <3>1, OwnReadable DEF OwnGeneration, Staging, Files
    <3>3. /\ target' = [work[b] EXCEPT ![2] = staging.files[2]]
          /\ pc' = [pc EXCEPT ![b] = "compiled"]
          /\ staging' = staging
      BY <2>15, <3>2 DEF Link
    <3>4. target' # None
      <4>1. target' \in Contents
        BY <3>1, <3>2, <3>3 DEF Contents, Files
      <4> QED BY <4>1, BlobCacheAssumption
    <3> QED BY <3>0, <3>1, <3>3, <3>4 DEF Steady, BuildPlaces, OwnMark, OwnGeneration, Running,
               Ended
  <2> QED BY <1>2, <2>1, <2>2, <2>3, <2>4, <2>5, <2>6, <2>7, <2>8, <2>9, <2>10, <2>11, <2>12,
             <2>13, <2>14, <2>15 DEF Build
<1>3. ASSUME NEW p \in Procs, Crash(p) PROVE Steady'
  <2>1. UNCHANGED <<staging, target>>
    BY <1>3 DEF Crash
  <2>2. \A c \in Builds : pc'[c] = pc[c] \/ pc'[c] = "dead"
    BY <1>3 DEF Crash
  <2> QED BY <2>1, <2>2 DEF Steady, BuildPlaces, OwnMark, OwnGeneration
<1>4. CASE UNCHANGED vars
  BY <1>4 DEF vars, Steady, OwnMark, OwnGeneration
<1> QED BY <1>1, <1>2, <1>3, <1>4 DEF Next

\* A killed build leaves its marker without an active owner (_marker_owner_is_active).
LEMMA MarkOwnerStep ==
  CrashesOnly /\ TypeInv /\ MarkHeld /\ Steady /\ MarkOwner /\ [Next]_vars => MarkOwner'
<1> SUFFICES ASSUME CrashesOnly, TypeInv, MarkHeld, Steady, MarkOwner, [Next]_vars
             PROVE  MarkOwner'
  OBVIOUS
<1>0. staging # None /\ staging.mark # None =>
        staging.mark \in Marks /\ staging.mark.by \in Builds
  BY DEF TypeInv, TypeOK, CacheTypeOK, Staging, Marks
<1> USE <1>0 DEF MarkOwner, Alive, At, Goto, cacheVars, buildVars, TypeInv, TypeOK, CacheTypeOK
<1>1. ASSUME NEW b \in Builds, Cache(b) PROVE MarkOwner'
  <2> UNCHANGED <<target, artifact, sidecar, receipt, kids>>
    BY <1>1 DEF Cache
  <2>1. CASE Recover(b)
    BY <2>1 DEF Recover
  <2>2. CASE ReapBegin(b)
    BY <2>2 DEF ReapBegin
  <2>3. CASE ReapEnd(b)
    BY <2>3 DEF ReapEnd
  <2>4. CASE CleanedUp(b)
    BY <2>4 DEF CleanedUp
  <2>5. CASE Check(b)
    BY <2>5 DEF Check
  <2>6. CASE Discard(b)
    BY <2>6 DEF Discard
  <2>7. CASE Refill(b)
    <3>1. CASE UNCHANGED staging
      BY <2>7, <3>1 DEF Refill
    <3>2. CASE staging' = Tree(IF blob = None THEN Empty ELSE blob.files)
      BY <3>2 DEF Tree
    <3> QED BY <2>7, <3>1, <3>2 DEF Refill
  <2>8. CASE Mark(b)
    <3>1. CASE staging # None /\ staging.mark = None
      <4>1. staging' = [staging EXCEPT !.mark = [by |-> b, written |-> ~Fallible("slowMark")]]
        BY <2>8, <3>1 DEF Mark
      <4>2. staging'.mark = [by |-> b, written |-> ~Fallible("slowMark")]
        BY <3>1, <4>1 DEF Staging
      <4>3. pc'[b] \in {"write", "unmark"} /\ staging'.mark.by = b
        BY <2>8, <3>1, <4>2 DEF Mark
      <4> QED BY <4>3
    <3>2. CASE ~(staging # None /\ staging.mark = None)
      BY <2>8, <3>2 DEF Mark
    <3> QED BY <3>1, <3>2
  <2>9. CASE WriteMark(b)
    <3>1. staging # None /\ staging.mark # None /\ staging.mark.by = b /\ staging \in Staging
      BY <2>9 DEF WriteMark, MarkHeld, Marked
    <3>2. /\ staging' = [staging EXCEPT !.mark = Written(staging.mark, b), !.token = Written(staging.token, b)]
          /\ pc' = [pc EXCEPT ![b] = "unmark"]
      BY <2>9, <3>1 DEF WriteMark
    <3>3. staging'.mark = Written(staging.mark, b)
      BY <3>1, <3>2 DEF Staging
    <3>4. staging'.mark.by = b
      BY <3>1, <3>3, WrittenIs DEF Staging
    <3> QED BY <3>2, <3>4
  <2>10. CASE Unmark(b)
    <3>1. staging # None /\ staging.mark # None /\ staging.mark.by = b /\ staging \in Staging
      BY <2>10 DEF Unmark, MarkHeld, Marked
    <3>2. staging' = [staging EXCEPT !.token = None] /\ pc' = [pc EXCEPT ![b] = "gen1"]
      BY <2>10, <3>1 DEF Unmark
    <3>3. staging'.mark = staging.mark
      BY <3>1, <3>2 DEF Staging
    <3>4. staging'.mark.by = b
      BY <3>1, <3>3, WrittenIs DEF Staging
    <3> QED BY <3>2, <3>4
  <2>11. CASE Generate(b)
    <3>1. staging # None /\ staging.mark # None /\ staging.mark.by = b /\ staging \in Staging
      BY <2>11 DEF Generate, MarkHeld, Marked
    <3>2. PICK i \in Files : staging' = [staging EXCEPT !.files[i] = b] \/ staging' = staging
      BY <2>11, <3>1 DEF Generate, Files
    <3>3. staging'.mark = staging.mark
      BY <3>1, <3>2 DEF Staging
    <3>4. pc' = [pc EXCEPT ![b] = IF pc[b] = "gen1" THEN "gen2" ELSE "verify"]
      BY <2>11, <3>1 DEF Generate, CrashesOnly, Fallible
    <3> QED BY <3>1, <3>3, <3>4
  <2>12. CASE Verify(b)
    <3>1. pc' = [pc EXCEPT ![b] = "commit"] /\ UNCHANGED <<staging, dead>>
      BY <2>12 DEF Verify, Steady
    <3> QED BY <3>1
  <2>13. CASE Commit(b)
    <3>1. staging # None /\ staging.mark # None /\ staging.mark.by = b /\ staging \in Staging
      BY <2>13 DEF Commit, MarkHeld, Marked
    <3>2. staging' = [staging EXCEPT !.token = staging.mark, !.mark = None]
      BY <2>13, <3>1 DEF Commit
    <3> QED BY <3>1, <3>2 DEF Staging
  <2>14. CASE Copy(b)
    BY <2>14 DEF Copy
  <2>15. CASE CopyFails(b)
    BY <2>15 DEF CopyFails
  <2>16. CASE Recheck(b)
    BY <2>16 DEF Recheck
  <2>17. CASE Backup(b)
    BY <2>17 DEF Backup
  <2>18. CASE Swap(b)
    BY <2>18 DEF Swap
  <2>19. CASE Rollback(b)
    BY <2>19 DEF Rollback
  <2>20. CASE Reap(b)
    BY <2>20 DEF Reap
  <2> QED BY <1>1, <2>1, <2>2, <2>3, <2>4, <2>5, <2>6, <2>7, <2>8, <2>9, <2>10, <2>11, <2>12,
             <2>13, <2>14, <2>15, <2>16, <2>17, <2>18, <2>19, <2>20 DEF Cache, Stage, Publish
<1>2. ASSUME NEW b \in Builds, Build(b) PROVE MarkOwner'
  <2>1. CASE Begin(b)
    BY <2>1 DEF Begin
  <2>2. CASE Require(b, "staged", "snapshot")
    BY <2>2 DEF Require
  <2>3. CASE SnapshotKids(b)
    BY <2>3 DEF SnapshotKids, Readable
  <2>4. CASE Require(b, "precompile", "compile")
    BY <2>4 DEF Require
  <2>5. CASE Compile(b)
    BY <2>5 DEF Compile, CompileFails, DropCandidate
  <2>6. CASE Require(b, "compiled", "copy")
    BY <2>6 DEF Require
  <2>7. CASE CopyBinary(b)
    BY <2>7 DEF CopyBinary
  <2>8. CASE Validate(b)
    BY <2>8 DEF Validate, Require
  <2>9. CASE Replace(b)
    BY <2>9 DEF Replace
  <2>10. CASE Identify(b)
    BY <2>10 DEF Identify
  <2>11. CASE PutSidecar(b)
    BY <2>11 DEF PutSidecar
  <2>12. CASE PutReceipt(b)
    BY <2>12 DEF PutReceipt
  <2>13. CASE Clear(b)
    <3>1. UNCHANGED <<pc, dead>>
      BY <2>13 DEF Clear
    <3>2. CASE staging' = staging
      BY <3>1, <3>2
    <3>3. CASE staging # None /\ staging' \in LessOne(staging)
      <4>1. staging' = None \/ staging'.mark \in {staging.mark, None}
        BY <3>3, LessOneIs
      <4> QED BY <3>1, <3>3, <4>1
    <3> QED BY <2>13, <3>2, <3>3 DEF Clear
  <2>14. CASE Cleared(b)
    BY <2>14 DEF Cleared
  <2>15. CASE Link(b)
    BY <2>15 DEF Link, CompileFails, DropCandidate
  <2> QED BY <1>2, <2>1, <2>2, <2>3, <2>4, <2>5, <2>6, <2>7, <2>8, <2>9, <2>10, <2>11, <2>12,
             <2>13, <2>14, <2>15 DEF Build
<1>3. ASSUME NEW p \in Procs, Crash(p) PROVE MarkOwner'
  <2>1. UNCHANGED staging /\ dead \subseteq dead'
    BY <1>3 DEF Crash
  <2>2. \A c \in Builds : pc'[c] = pc[c] \/ (pc'[c] = "dead" /\ Proc[c] \in dead')
    BY <1>3 DEF Crash
  <2> QED BY <2>1, <2>2
<1>4. CASE UNCHANGED vars
  BY <1>4 DEF vars
<1> QED BY <1>1, <1>2, <1>3, <1>4 DEF Next

-----------------------------------------------------------------------------
(* Theorems *)

\* The inductive invariant when rmtree reports its errors.
KeptInv ==
  TypeInv /\ StagingInv /\ OneRunning /\ Candidates /\ UnmarkedStagingWhole /\ BackupInv

\* It holds before the first build.
LEMMA InitKeptInv == Init => KeptInv
<1> SUFFICES ASSUME Init PROVE KeptInv
  OBVIOUS
<1>1. TypeInv /\ StagingInv
  BY InitOneStagerInv DEF OneStagerInv
<1>2. OneRunning /\ Candidates /\ UnmarkedStagingWhole /\ BackupInv
  BY DEF Init, CacheInit, OneRunning, Running, Candidates, UnmarkedStagingWhole, BackupInv,
         SnapshotWhole, ReapBehindBlob, HalfRemovedBehindBlob, BackupsUnmixed, Kept
<1> QED BY <1>1, <1>2 DEF KeptInv

\* It holds throughout, whatever else fails.
THEOREM KeptInvariant == Exclusive /\ "rmtree" \notin Faults => (Spec => []KeptInv)
<1>1. ASSUME Exclusive, "rmtree" \notin Faults, KeptInv, [Next]_vars PROVE KeptInv'
  <2> USE <1>1 DEF KeptInv
  <2>1. TypeInv'
    BY TypeStep
  <2>2. StagingInv'
    BY ExclusiveWhileStaging, OneStagerStep, TokenStep, ClearAloneStep DEF StagingInv
  <2>3. OneRunning'
    BY OneRunningStep
  <2>4. Candidates'
    BY CandidatesStep DEF StagingInv
  <2>5. UnmarkedStagingWhole'
    BY UnmarkedStep DEF StagingInv, BackupInv
  <2>6. BackupInv'
    BY BackupStep
  <2> QED BY <2>1, <2>2, <2>3, <2>4, <2>5, <2>6
<1>2. ASSUME Exclusive, "rmtree" \notin Faults PROVE Spec => []KeptInv
  BY InitKeptInv, <1>1, <1>2, PTL DEF Spec
<1> QED BY <1>2

\* The published snapshot is never a mixture, and it is one complete generation
\* (publish_blob_sources, _recover_blob_backup) unless a clear_build was cut short and
\* no publication has made up for it.
THEOREM SnapshotsWhole == Exclusive /\ "rmtree" \notin Faults => (Spec => []SnapshotWhole)
<1>1. KeptInv => SnapshotWhole
  BY DEF KeptInv, BackupInv
<1> QED BY <1>1, KeptInvariant, PTL

\* Once published, some complete snapshot stays on disk, with the same exception.
THEOREM SnapshotsKept == Exclusive /\ "rmtree" \notin Faults => (Spec => []SnapshotKept)
<1>1. KeptInv => SnapshotKept
  BY DEF KeptInv, BackupInv, SnapshotWhole, HalfRemovedBehindBlob, Kept, SnapshotKept
<1> QED BY <1>1, KeptInvariant, PTL

\* A working tree without an incomplete marker is empty or one complete generation, and
\* may be built upon (stage_blob_sources), with the same exception.
THEOREM UnmarkedStagingsWhole ==
  Exclusive /\ "rmtree" \notin Faults => (Spec => []UnmarkedStagingWhole)
<1>1. KeptInv => UnmarkedStagingWhole
  BY DEF KeptInv
<1> QED BY <1>1, KeptInvariant, PTL

\* The inductive invariant when processes are only killed.
CrashInv == KeptInv /\ Steady /\ MarkOwner /\ LatestInv

\* It holds before the first build.
LEMMA InitCrashInv == Init => CrashInv
<1> SUFFICES ASSUME Init PROVE CrashInv
  OBVIOUS
<1>1. KeptInv
  BY InitKeptInv
<1>2. Steady
  BY DEF Init, Steady, BuildPlaces
<1>3. MarkOwner /\ LatestInv
  BY DEF Init, CacheInit, MarkOwner, LatestInv, OneSnapshot, BackupsInFlight
<1> QED BY <1>1, <1>2, <1>3 DEF CrashInv

\* It holds throughout, whoever is killed and when.
THEOREM CrashInvariant == Exclusive /\ CrashesOnly => (Spec => []CrashInv)
<1>1. ASSUME Exclusive, CrashesOnly, CrashInv, [Next]_vars PROVE CrashInv'
  <2> USE <1>1 DEF CrashInv, KeptInv
  <2>1. TypeInv'
    BY TypeStep
  <2>2. StagingInv'
    BY ExclusiveWhileStaging, OneStagerStep, TokenStep, ClearAloneStep DEF StagingInv
  <2>3. OneRunning'
    BY OneRunningStep
  <2>4. Candidates'
    BY CandidatesStep DEF StagingInv
  <2>5. UnmarkedStagingWhole'
    BY UnmarkedStep DEF StagingInv, BackupInv
  <2>6. BackupInv'
    BY BackupStep DEF CrashesOnly
  <2>7. Steady'
    BY SteadyStep DEF StagingInv
  <2>8. MarkOwner'
    BY MarkOwnerStep DEF StagingInv
  <2>9. LatestInv'
    BY LatestStep
  <2> QED BY <2>1, <2>2, <2>3, <2>4, <2>5, <2>6, <2>7, <2>8, <2>9
<1>2. ASSUME Exclusive, CrashesOnly PROVE Spec => []CrashInv
  BY InitCrashInv, <1>1, <1>2, PTL DEF Spec
<1> QED BY <1>2

\* The complete snapshot that survives crashes is the last published one.
THEOREM LatestSnapshot == Exclusive /\ CrashesOnly => (Spec => []SnapshotIsLatest)
<1>1. ASSUME CrashInv PROVE SnapshotIsLatest
  <2> SUFFICES ASSUME published # None
               PROVE  \E snapshot \in IF blob = None THEN {k \in backups : k = Newest(backups)}
                                               ELSE {blob} :
                        snapshot.files = All(published)
    BY DEF SnapshotIsLatest, All
  <2> USE <1>1 DEF CrashInv, KeptInv, LatestInv, OneSnapshot, TypeInv, TypeOK, CacheTypeOK
  <2>1. CASE blob # None
    BY <2>1
  <2>2. CASE blob = None
    <3>1. PICK k \in backups : backups = {k} /\ k.files = All(published)
      BY <2>2
    <3>2. Newest(backups) = k
      BY <3>1, NewestIsOne DEF Backups, MtimesPast
    <3> QED BY <2>2, <3>1, <3>2
  <2> QED BY <2>1, <2>2
<1> QED BY <1>1, CrashInvariant, PTL

\* Whatever a killed build leaves behind, no build after it fails.
THEOREM Survivors == Exclusive /\ CrashesOnly => (Spec => []SurvivorsSucceed)
<1>1. CrashInv => SurvivorsSucceed
  BY DEF CrashInv, Steady, SurvivorsSucceed
<1> QED BY <1>1, CrashInvariant, PTL
=============================================================================
