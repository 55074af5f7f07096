--------------------------- MODULE JitBuildProofs ---------------------------
(***************************************************************************)
(* Proofs about JitBuild: type correctness whatever fails and wherever the *)
(* lock is lost; and, as long as the lock holds during code generation     *)
(* (LockWhileStaging), what the installed binary and its receipt promise.  *)
(***************************************************************************)
EXTENDS JitBuild, WellFoundedInduction, TLAPS

\* Directories are not newer than the clock.
MtimesPast ==
  /\ \A k \in backups : k.mtime <= now
  /\ blob # None => blob.mtime <= now

\* What is about to be published or installed is there.
WorkHeld ==
  \A b \in Builds : pc[b] \in {"link", "recheck", "backup", "swap", "validate", "replace"}
                                => work[b] \in Contents

TypeInv == TypeOK /\ MtimesPast /\ WorkHeld

-----------------------------------------------------------------------------
(* Operators of the model *)

\* The newest of some backups is one of them and as new as any (backup selection in
\* _recover_blob_backup).
LEMMA NewestIsOne ==
  ASSUME NEW S, S # {}, NEW top \in Nat, \A k \in S : k.mtime \in Nat /\ k.mtime <= top
  PROVE  Newest(S) \in S /\ \A k \in S : k.mtime <= Newest(S).mtime
<1> DEFINE Ages == {top - k.mtime : k \in S}
<1>1. Ages \subseteq Nat /\ Ages # {}
  OBVIOUS
<1>2. PICK x \in Ages : \A y \in Ages : <<y, x>> \notin OpToRel(<, Nat)
  BY <1>1, NatLessThanWellFounded, WFMin
<1>3. \A y \in Ages : ~(y < x)
  BY <1>1, <1>2, Zenon DEF OpToRel
<1>4. PICK k \in S : x = top - k.mtime
  BY <1>2
<1>5. \A other \in S : other.mtime <= k.mtime
  <2> SUFFICES ASSUME NEW other \in S PROVE other.mtime <= k.mtime
    OBVIOUS
  <2>1. ~(top - other.mtime < top - k.mtime)
    BY <1>3, <1>4
  <2>2. k.mtime \in Nat /\ other.mtime \in Nat
    OBVIOUS
  <2> HIDE DEF Ages
  <2> QED BY <2>1, <2>2
<1> QED
  BY <1>4, <1>5 DEF Newest

\* What an interrupted rmtree leaves of a backup, and that it is a backup still.
LEMMA HalfRemovedIs ==
  ASSUME NEW k \in Backups, now \in Nat
  PROVE  /\ HalfRemoved(k) = [owner |-> k.owner, files |-> [k.files EXCEPT ![1] = None],
                               mtime |-> now + 1]
         /\ HalfRemoved(k) \in Backups
<1> DEFINE h == HalfRemoved(k)
<1>1. DOMAIN k = {"owner", "files", "mtime"} /\ DOMAIN h = DOMAIN k
  BY DEF HalfRemoved, Backups
<1>2. h["owner"] = k.owner /\ h["mtime"] = now + 1 /\ h["files"] = [k.files EXCEPT ![1] = None]
  BY <1>1 DEF HalfRemoved
<1>3. h = [f \in DOMAIN h |-> h[f]]
  BY DEF HalfRemoved
<1> HIDE DEF h
<1>4. h = [owner |-> k.owner, files |-> [k.files EXCEPT ![1] = None], mtime |-> now + 1]
  BY <1>1, <1>2, <1>3
<1>5. h \in Backups
  BY <1>4 DEF Backups, Contents, Files
<1> QED BY <1>4, <1>5 DEF h

\* What an interrupted rmtree leaves of the published snapshot.
LEMMA HalfRemovedSnapshot ==
  ASSUME NEW k \in Snapshots, now \in Nat
  PROVE  /\ HalfRemoved(k) = [files |-> [k.files EXCEPT ![1] = None], mtime |-> now + 1]
         /\ HalfRemoved(k) \in Snapshots
<1> DEFINE h == HalfRemoved(k)
<1>1. DOMAIN k = {"files", "mtime"} /\ DOMAIN h = DOMAIN k
  BY DEF HalfRemoved, Snapshots
<1>2. h["mtime"] = now + 1 /\ h["files"] = [k.files EXCEPT ![1] = None]
  BY <1>1 DEF HalfRemoved
<1>3. h = [f \in DOMAIN h |-> h[f]]
  BY DEF HalfRemoved
<1> HIDE DEF h
<1>4. h = [files |-> [k.files EXCEPT ![1] = None], mtime |-> now + 1]
  BY <1>1, <1>2, <1>3
<1>5. h \in Snapshots
  BY <1>4 DEF Snapshots, Contents, Files
<1> QED BY <1>4, <1>5 DEF h

\* One removal of a clear_build in the working tree adds neither a marker nor a file.
LEMMA LessOneIs ==
  ASSUME NEW tree \in Staging, NEW left \in LessOne(tree), left # None
  PROVE  /\ left \in Staging
         /\ left.mark \in {tree.mark, None}
         /\ left.token \in {tree.token, None}
<1>1. CASE left = [tree EXCEPT !.mark = None]
  BY <1>1 DEF Staging
<1>2. CASE left = [tree EXCEPT !.token = None]
  BY <1>2 DEF Staging
<1>3. ASSUME NEW i \in Files, left = [tree EXCEPT !.files[i] = None]
      PROVE  /\ left \in Staging
             /\ left.mark = tree.mark
             /\ left.token = tree.token
  <2>1. DOMAIN tree = {"mark", "token", "files"} /\ DOMAIN left = DOMAIN tree
    BY <1>3 DEF Staging
  <2>2. /\ left["mark"] = tree.mark
        /\ left["token"] = tree.token
        /\ left["files"] = [tree.files EXCEPT ![i] = None]
    BY <1>3, <2>1
  <2>3. left = [f \in DOMAIN left |-> left[f]]
    BY <1>3
  <2>4. left = [mark |-> tree.mark, token |-> tree.token,
                files |-> [tree.files EXCEPT ![i] = None]]
    BY <2>1, <2>2, <2>3
  <2> QED BY <2>2, <2>4 DEF Staging, Contents
<1> QED BY <1>1, <1>2, <1>3 DEF LessOne

\* Writing the contents of a marker changes neither that it is there nor whose it is.
LEMMA WrittenIs ==
  ASSUME NEW m \in Marks \cup {None}, NEW b \in Builds
  PROVE  /\ Written(m, b) \in Marks \cup {None}
         /\ m = None <=> Written(m, b) = None
         /\ m # None => Written(m, b).by = m.by
<1>1. CASE m # None /\ m.by = b
  <2>1. Written(m, b) = [by |-> b, written |-> TRUE]
    BY <1>1 DEF Written, Marks
  <2>2. [by |-> b, written |-> TRUE] \in Marks
    BY DEF Marks
  <2>3. None \notin Marks
    BY BlobCacheAssumption
  <2>4. Written(m, b).by = m.by
    BY <1>1, <2>1
  <2>5. Written(m, b) \in Marks /\ Written(m, b) # None
    BY <2>1, <2>2, <2>3
  <2> QED BY <1>1, <2>4, <2>5
<1>2. CASE ~(m # None /\ m.by = b)
  <2>1. Written(m, b) = m
    BY <1>2 DEF Written
  <2> QED BY <2>1
<1> QED BY <1>1, <1>2

-----------------------------------------------------------------------------
(* Types *)

\* The types hold before the first build.
LEMMA InitTypeInv == Init => TypeInv
<1> SUFFICES ASSUME Init PROVE TypeInv
  OBVIOUS
<1> USE DEF Init, CacheInit
<1>1. CacheTypeOK
  BY DEF CacheTypeOK, Contents
<1>2. TypeOK
  BY <1>1 DEF TypeOK, Places
<1>3. MtimesPast /\ WorkHeld
  BY DEF MtimesPast, WorkHeld
<1> QED BY <1>2, <1>3 DEF TypeInv

\* Every step of a build, of a publication and every crash keeps the types.
LEMMA TypeStep == TypeInv /\ [Next]_vars => TypeInv'
<1> SUFFICES ASSUME TypeInv, [Next]_vars PROVE TypeInv'
  OBVIOUS
<1> USE BlobCacheAssumption, JitBuildAssumption
        DEF TypeInv, TypeOK, CacheTypeOK, MtimesPast, WorkHeld, Staging, Snapshots, Backups,
            Contents, Files, Empty, Marks, Places, StagePlaces, BuildPlaces, PublishPlaces,
            Ended, cacheVars, buildVars, At, Goto
<1>1. ASSUME NEW b \in Builds, Cache(b) PROVE TypeInv'
  <2> /\ UNCHANGED <<target, artifact, sidecar, receipt, kids>>
      /\ published' \in Builds \cup {None}
      /\ torn' \in BOOLEAN
    BY <1>1 DEF Cache, Remember
  <2>1. CASE Recover(b)
    <3>1. CASE UNCHANGED <<blob, backups>>
      BY <2>1, <3>1 DEF Recover
    <3>2. ASSUME NEW k \in backups, blob' = [files |-> k.files, mtime |-> k.mtime],
                 backups' = backups \ {k}
          PROVE  TypeInv'
      BY <2>1, <3>2 DEF Recover
    <3>3. ASSUME NEW movable \in SUBSET Recoverable(b), movable # {}
          PROVE  Newest(movable) \in backups
      <4>1. \A k \in movable : k \in backups /\ k.mtime \in Nat /\ k.mtime <= now
        BY DEF Recoverable
      <4> QED BY <3>3, <4>1, NewestIsOne
    <3> QED BY <2>1, <3>1, <3>2, <3>3 DEF Recover
  <2>2. CASE ReapBegin(b)
    <3>1. PICK k \in backups : /\ k.files[1] # None
                               /\ backups' = (backups \ {k}) \cup {HalfRemoved(k)}
      BY <2>2 DEF ReapBegin, Reapable
    <3>2. HalfRemoved(k) \in Backups /\ HalfRemoved(k).mtime = now + 1
      <4>1. k \in Backups
        OBVIOUS
      <4>2. HalfRemoved(k) = [owner |-> k.owner, files |-> [k.files EXCEPT ![1] = None],
                              mtime |-> now + 1]
        BY <4>1, HalfRemovedIs
      <4> QED BY <4>1, <4>2
    <3>3. now' = now + 1 /\ now' \in Nat /\ UNCHANGED <<staging, blob, dead, pc, work>>
      BY <2>2 DEF ReapBegin
    <3>4. CacheTypeOK'
      BY <3>1, <3>2, <3>3
    <3>5. MtimesPast'
      BY <3>1, <3>2, <3>3
    <3> QED BY <3>3, <3>4, <3>5
  <2>3. CASE ReapEnd(b)
    BY <2>3 DEF ReapEnd, Reapable
  <2>4. CASE CleanedUp(b)
    BY <2>4 DEF CleanedUp
  <2>5. CASE Check(b)
    BY <2>5 DEF Check
  <2>6. CASE Discard(b)
    BY <2>6 DEF Discard
  <2>7. CASE Refill(b)
    BY <2>7 DEF Refill, Tree
  <2>8. CASE Mark(b)
    <3>1. CASE staging # None /\ staging.mark = None
      <4>1. PICK m \in Marks : staging' = [staging EXCEPT !.mark = m] /\ m.by = b
        <5>1. [by |-> b, written |-> ~Fallible("slowMark")] \in Marks
          BY DEF Fallible
        <5> QED BY <5>1, <2>8, <3>1 DEF Mark
      <4>2. /\ pc' \in [Builds -> Places]
            /\ pc'[b] \in {"write", "unmark"}
            /\ \A c \in Builds \ {b} : pc'[c] = pc[c]
        BY <2>8, <3>1 DEF Mark
      <4>3. staging' \in Staging /\ staging'.mark = m
        BY <3>1, <4>1
      <4> QED BY <2>8, <4>1, <4>2, <4>3 DEF Mark
    <3>2. CASE ~(staging # None /\ staging.mark = None)
      BY <2>8, <3>2 DEF Mark
    <3> QED BY <3>1, <3>2
  <2>9. CASE WriteMark(b)
    <3>1. \A m \in Marks \cup {None} :
            /\ Written(m, b) \in Marks \cup {None}
            /\ (m = None <=> Written(m, b) = None)
            /\ (m # None => Written(m, b).by = m.by)
      BY WrittenIs
    <3>2. CASE staging = None
      BY <2>9, <3>2 DEF WriteMark
    <3>3. CASE staging # None
      <4>1. staging' = [mark |-> Written(staging.mark, b), token |-> Written(staging.token, b),
                        files |-> staging.files]
        BY <2>9, <3>3 DEF WriteMark
      <4>2. staging \in Staging
        BY <3>3
      <4>3. staging' \in Staging
        BY <3>1, <4>1, <4>2
      <4> QED BY <2>9, <3>1, <3>3, <4>1, <4>2, <4>3 DEF WriteMark
    <3> QED BY <3>2, <3>3
  <2>10. CASE Unmark(b)
    BY <2>10 DEF Unmark
  <2>11. CASE Generate(b)
    BY <2>11 DEF Generate
  <2>12. CASE Verify(b)
    BY <2>12 DEF Verify
  <2>13. CASE Commit(b)
    <3>1. CASE staging # None /\ staging.mark # None
      <4>1. staging' = [staging EXCEPT !.token = staging.mark, !.mark = None]
        BY <2>13, <3>1 DEF Commit
      <4>2. staging' \in Staging /\ staging'.mark = None
        BY <3>1, <4>1
      <4> QED BY <2>13, <3>1, <4>2 DEF Commit
    <3>2. CASE ~(staging # None /\ staging.mark # None)
      BY <2>13, <3>2 DEF Commit
    <3> QED BY <3>1, <3>2
  <2>14. CASE Copy(b)
    <3>1. CASE OwnGeneration(b)
      <4>1. staging # None /\ staging \in Staging /\ staging.files \in Contents
        BY <3>1 DEF OwnGeneration
      <4>2. work' \in [Builds -> Contents \cup {None}]
        BY <2>14, <3>1, <4>1 DEF Copy
      <4>3. /\ work'[b] \in Contents
            /\ \A c \in Builds \ {b} : work'[c] = work[c] /\ pc'[c] = pc[c]
        BY <2>14, <3>1, <4>1 DEF Copy
      <4> QED BY <2>14, <3>1, <4>1, <4>2, <4>3 DEF Copy
    <3>2. CASE ~OwnGeneration(b)
      BY <2>14, <3>2 DEF Copy
    <3> QED BY <3>1, <3>2
  <2>15. CASE CopyFails(b)
    BY <2>15 DEF CopyFails
  <2>16. CASE Recheck(b)
    BY <2>16 DEF Recheck, DropCandidate
  <2>17. CASE Backup(b)
    BY <2>17 DEF Backup, DropCandidate
  <2>18. CASE Swap(b)
    BY <2>18 DEF Swap, DropCandidate
  <2>19. CASE Rollback(b)
    BY <2>19 DEF Rollback, Own
  <2>20. CASE Reap(b)
    <3>1. CASE backups' \subseteq backups /\ UNCHANGED now
      BY <2>20, <3>1 DEF Reap
    <3>2. ASSUME NEW k \in backups, backups' = (backups \ {k}) \cup {HalfRemoved(k)},
                 now' = now + 1
          PROVE  TypeInv'
      <4>1. k \in Backups
        OBVIOUS
      <4>2. HalfRemoved(k) = [owner |-> k.owner, files |-> [k.files EXCEPT ![1] = None],
                              mtime |-> now + 1]
        BY <4>1, HalfRemovedIs
      <4>3. HalfRemoved(k) \in Backups /\ HalfRemoved(k).mtime = now + 1
        BY <4>1, <4>2
      <4> QED BY <2>20, <3>2, <4>3 DEF Reap
    <3> QED BY <2>20, <3>1, <3>2 DEF Reap, Own
  <2> QED BY <1>1, <2>1, <2>2, <2>3, <2>4, <2>5, <2>6, <2>7, <2>8, <2>9, <2>10, <2>11, <2>12,
             <2>13, <2>14, <2>15, <2>16, <2>17, <2>18, <2>19, <2>20 DEF Cache, Stage, Publish
<1>2. ASSUME NEW b \in Builds, Build(b) PROVE TypeInv'
  <2>1. CASE Begin(b)
    BY <2>1 DEF Begin
  <2>2. CASE Require(b, "staged", "snapshot")
    BY <2>2 DEF Require
  <2>3. CASE SnapshotKids(b)
    BY <2>3 DEF SnapshotKids, Readable
  <2>4. CASE Require(b, "precompile", "compile")
    BY <2>4 DEF Require
  <2>5. CASE Compile(b)
    <3>1. CASE Readable(1) /\ work' = [work EXCEPT ![b] = [Empty EXCEPT ![1] = staging.files[1]]]
      <4>1. [Empty EXCEPT ![1] = staging.files[1]] \in Contents
        BY <3>1 DEF Readable
      <4> QED BY <2>5, <3>1, <4>1 DEF Compile
    <3>2. CASE CompileFails(b)
      BY <2>5, <3>2 DEF Compile, CompileFails, DropCandidate
    <3> QED BY <2>5, <3>1, <3>2 DEF Compile
  <2>6. CASE Require(b, "compiled", "copy")
    BY <2>6 DEF Require
  <2>7. CASE CopyBinary(b)
    BY <2>7 DEF CopyBinary
  <2>8. CASE Validate(b)
    BY <2>8 DEF Validate, Require
  <2>9. CASE Replace(b)
    BY <2>9 DEF Replace, DropCandidate
  <2>10. CASE Identify(b)
    BY <2>10 DEF Identify
  <2>11. CASE PutSidecar(b)
    BY <2>11 DEF PutSidecar
  <2>12. CASE PutReceipt(b)
    BY <2>12 DEF PutReceipt
  <2>13. CASE Clear(b)
    <3>0. UNCHANGED <<dead, pc, work, artifact, sidecar, receipt, kids>> /\ pc[b] = "clear"
      BY <2>13 DEF Clear
    <3>1. published' \in Builds \cup {None} /\ torn' \in BOOLEAN
      BY <2>13 DEF Clear
    <3>2. CASE staging # None /\ staging' \in LessOne(staging)
               /\ UNCHANGED <<blob, backups, now, target>>
      <4>1. staging' = None \/ (/\ staging' \in Staging
                                /\ staging'.mark \in {staging.mark, None}
                                /\ staging'.token \in {staging.token, None})
        BY <3>2, LessOneIs
      <4> QED BY <3>0, <3>1, <3>2, <4>1
    <3>3. CASE /\ blob # None
               /\ blob' = IF blob.files[1] # None THEN HalfRemoved(blob) ELSE None
               /\ now' = now + 1
               /\ UNCHANGED <<staging, backups, target>>
      <4>1. blob \in Snapshots /\ now \in Nat
        BY <3>3
      <4>2. HalfRemoved(blob) \in Snapshots /\ HalfRemoved(blob).mtime = now + 1
        BY <4>1, HalfRemovedSnapshot
      <4>3. blob' = None \/ (blob' \in Snapshots /\ blob'.mtime = now')
        BY <3>3, <4>2
      <4> QED BY <3>0, <3>1, <3>3, <4>3
    <3>4. ASSUME NEW k \in backups, backups' = (backups \ {k}) \cup
                   (IF k.files[1] # None THEN {HalfRemoved(k)} ELSE {}),
                 now' = now + 1, UNCHANGED <<staging, blob, target>>
          PROVE  TypeInv'
      <4>1. k \in Backups
        OBVIOUS
      <4>2. HalfRemoved(k) = [owner |-> k.owner, files |-> [k.files EXCEPT ![1] = None],
                              mtime |-> now + 1]
        BY <4>1, HalfRemovedIs
      <4>3. HalfRemoved(k) \in Backups /\ HalfRemoved(k).mtime = now + 1
        BY <4>1, <4>2
      <4> QED BY <3>0, <3>1, <3>4, <4>3
    <3>5. CASE target' = None /\ UNCHANGED cacheVars
      BY <3>0, <3>1, <3>5
    <3> QED BY <2>13, <3>2, <3>3, <3>4, <3>5 DEF Clear
  <2>14. CASE Cleared(b)
    BY <2>14 DEF Cleared
  <2>15. CASE Link(b)
    <3>1. CASE Readable(2) /\ target' = [work[b] EXCEPT ![2] = staging.files[2]]
      <4>1. [work[b] EXCEPT ![2] = staging.files[2]] \in Contents
        BY <2>15, <3>1 DEF Readable, Link
      <4> QED BY <2>15, <3>1, <4>1 DEF Link, CompileFails, DropCandidate
    <3>2. CASE CompileFails(b)
      BY <2>15, <3>2 DEF Link, CompileFails, DropCandidate
    <3> QED BY <2>15, <3>1, <3>2 DEF Link
  <2> QED BY <1>2, <2>1, <2>2, <2>3, <2>4, <2>5, <2>6, <2>7, <2>8, <2>9, <2>10, <2>11, <2>12,
             <2>13, <2>14, <2>15 DEF Build
<1>3. ASSUME NEW p \in Procs, Crash(p) PROVE TypeInv'
  BY <1>3 DEF Crash
<1>4. CASE UNCHANGED vars
  BY <1>4 DEF vars
<1> QED BY <1>1, <1>2, <1>3, <1>4 DEF Next

-----------------------------------------------------------------------------
(* The lock holds during code generation *)

\* The regime: no build starts while another one generates code (the lock of
\* build_module, which may be lost later).
LockWhileStaging == Overlap \cap StagePlaces = {}

\* The files of one complete generation.
All(b) == [i \in Files |-> b]
\* At most one build is between its start and the complete marker.
OneStager == \A b, c \in Builds : pc[b] \in StagePlaces /\ pc[c] \in StagePlaces => b = c
\* The incomplete marker is that of build b.
Marked(b) == staging # None /\ staging.mark # None /\ staging.mark.by = b
\* During code generation the incomplete marker is the build's own, and the files
\* behind the generator are its own.
MarkHeld ==
  \A b \in Builds :
    /\ pc[b] \in {"write", "unmark", "gen1", "gen2", "verify", "commit"} => Marked(b)
    /\ pc[b] = "gen2" => staging.files[1] = b
    /\ pc[b] \in {"verify", "commit"} => staging.files = All(b)
\* A complete marker is that of a build beyond code generation; without an incomplete
\* marker all files are of its generation, as long as it runs: later a clear_build may
\* have been cut short.
TokenHonest ==
  staging # None /\ staging.token # None =>
    /\ pc[staging.token.by] \notin {"idle"} \cup StagePlaces
    /\ staging.mark = None /\ Running(staging.token.by)
         => staging.files = All(staging.token.by)
\* A build that clears the build tree is the only one there.
ClearAlone ==
  \A b \in Builds : pc[b] = "clear" =>
    Overlap = {} /\ \A c \in Builds : Running(c) => c = b
\* The inductive invariant about the working tree.
StagingInv == OneStager /\ MarkHeld /\ TokenHonest /\ ClearAlone
\* While its token is there, what a build has read is its own generation; a binary it
\* is about to install, and the kid list of an accepted generation, are in any case.
\* Who links after it, in its own turn of the inner baton, has read its sources.
Inputs(b) ==
  /\ OwnGeneration(b) => /\ pc[b] = "precompile" => kids[b] = b
                         /\ pc[b] \in {"link", "compiled", "copy"} =>
                              \A c \in Builds : pc[c] = "link" => work[c][1] = b
                         /\ pc[b] \in {"compiled", "copy"} => target = All(b)
                         /\ pc[b] = "validate" => work[b] = All(b)
  /\ pc[b] = "replace" => work[b] = All(b)
  /\ pc[b] \in {"compile", "link", "compiled", "copy", "validate", "replace",
                "identity", "sidecar", "receipt"} => kids[b] = b
\* What is installed and certified.
Outputs == /\ ArtifactIsOwnGeneration
           /\ receipt # None => receipt.kids = receipt.inode

-----------------------------------------------------------------------------
(* The working tree *)

\* No build joins another one in code generation.
LEMMA OneStagerStep == LockWhileStaging /\ TypeInv /\ OneStager /\ [Next]_vars => OneStager'
<1> SUFFICES ASSUME LockWhileStaging, TypeInv, OneStager, [Next]_vars PROVE OneStager'
  OBVIOUS
<1> USE BlobCacheAssumption, JitBuildAssumption DEF LockWhileStaging, OneStager, Places,
       StagePlaces, BuildPlaces, PublishPlaces, Ended, cacheVars, buildVars, At, Goto, TypeInv,
       TypeOK, CacheTypeOK
<1>1. ASSUME NEW b \in Builds, Cache(b) PROVE OneStager'
  <2> UNCHANGED <<target, artifact, sidecar, receipt, kids>>
    BY <1>1 DEF Cache
  <2>1. CASE Recover(b)
    BY <2>1 DEF Recover
  <2>2. CASE ReapBegin(b)
    BY <2>2 DEF ReapBegin, Reapable
  <2>3. CASE ReapEnd(b)
    BY <2>3 DEF ReapEnd
  <2>4. CASE CleanedUp(b)
    BY <2>4 DEF CleanedUp
  <2>5. CASE Check(b)
    BY <2>5 DEF Check
  <2>6. CASE Discard(b)
    BY <2>6 DEF Discard
  <2>7. CASE Refill(b)
    BY <2>7 DEF Refill, Tree, Empty
  <2>8. CASE Mark(b)
    BY <2>8 DEF Mark, Marks
  <2>9. CASE WriteMark(b)
    BY <2>9 DEF WriteMark, Written, Marks
  <2>10. CASE Unmark(b)
    BY <2>10 DEF Unmark
  <2>11. CASE Generate(b)
    BY <2>11 DEF Generate
  <2>12. CASE Verify(b)
    BY <2>12 DEF Verify
  <2>13. CASE Commit(b)
    BY <2>13 DEF Commit, Marks
  <2>14. CASE Copy(b)
    BY <2>14 DEF Copy
  <2>15. CASE CopyFails(b)
    BY <2>15 DEF CopyFails
  <2>16. CASE Recheck(b)
    BY <2>16 DEF Recheck, DropCandidate
  <2>17. CASE Backup(b)
    BY <2>17 DEF Backup, DropCandidate
  <2>18. CASE Swap(b)
    BY <2>18 DEF Swap, DropCandidate
  <2>19. CASE Rollback(b)
    BY <2>19 DEF Rollback
  <2>20. CASE Reap(b)
    BY <2>20 DEF Reap
  <2> QED BY <1>1, <2>1, <2>2, <2>3, <2>4, <2>5, <2>6, <2>7, <2>8, <2>9, <2>10, <2>11, <2>12,
             <2>13, <2>14, <2>15, <2>16, <2>17, <2>18, <2>19, <2>20 DEF Cache, Stage, Publish
<1>2. ASSUME NEW b \in Builds, Build(b) PROVE OneStager'
  <2>1. CASE Begin(b)
    BY <2>1 DEF Begin, Running
  <2>2. CASE Require(b, "staged", "snapshot")
    BY <2>2 DEF Require
  <2>3. CASE SnapshotKids(b)
    BY <2>3 DEF SnapshotKids, Readable
  <2>4. CASE Require(b, "precompile", "compile")
    BY <2>4 DEF Require
  <2>5. CASE Compile(b)
    BY <2>5 DEF Compile, CompileFails, DropCandidate
  <2>6. CASE Require(b, "compiled", "copy")
    BY <2>6 DEF Require
  <2>7. CASE CopyBinary(b)
    BY <2>7 DEF CopyBinary
  <2>8. CASE Validate(b)
    BY <2>8 DEF Validate, Require
  <2>9. CASE Replace(b)
    BY <2>9 DEF Replace, DropCandidate
  <2>10. CASE Identify(b)
    BY <2>10 DEF Identify
  <2>11. CASE PutSidecar(b)
    BY <2>11 DEF PutSidecar
  <2>12. CASE PutReceipt(b)
    BY <2>12 DEF PutReceipt
  <2>13. CASE Clear(b)
    BY <2>13 DEF Clear
  <2>14. CASE Cleared(b)
    BY <2>14 DEF Cleared
  <2>15. CASE Link(b)
    BY <2>15 DEF Link, CompileFails, DropCandidate
  <2> QED BY <1>2, <2>1, <2>2, <2>3, <2>4, <2>5, <2>6, <2>7, <2>8, <2>9, <2>10, <2>11, <2>12,
             <2>13, <2>14, <2>15 DEF Build
<1>3. ASSUME NEW p \in Procs, Crash(p) PROVE OneStager'
  BY <1>3 DEF Crash
<1>4. CASE UNCHANGED vars
  BY <1>4 DEF vars
<1> QED BY <1>1, <1>2, <1>3, <1>4 DEF Next

\* No build joins one that clears the build tree: only a build that finds the lock free
\* clears it.
LEMMA ClearAloneStep == TypeInv /\ ClearAlone /\ [Next]_vars => ClearAlone'
<1> SUFFICES ASSUME TypeInv, ClearAlone, [Next]_vars PROVE ClearAlone'
  OBVIOUS
<1> USE BlobCacheAssumption, JitBuildAssumption DEF ClearAlone, Running, Places,
       StagePlaces, BuildPlaces, PublishPlaces, Ended, cacheVars, buildVars, At, Goto, TypeInv,
       TypeOK, CacheTypeOK
<1>1. ASSUME NEW b \in Builds, Cache(b) PROVE ClearAlone'
  <2> UNCHANGED <<target, artifact, sidecar, receipt, kids>>
    BY <1>1 DEF Cache
  <2>1. CASE Recover(b)
    BY <2>1 DEF Recover
  <2>2. CASE ReapBegin(b)
    BY <2>2 DEF ReapBegin, Reapable
  <2>3. CASE ReapEnd(b)
    BY <2>3 DEF ReapEnd
  <2>4. CASE CleanedUp(b)
    BY <2>4 DEF CleanedUp
  <2>5. CASE Check(b)
    BY <2>5 DEF Check
  <2>6. CASE Discard(b)
    BY <2>6 DEF Discard
  <2>7. CASE Refill(b)
    BY <2>7 DEF Refill, Tree, Empty
  <2>8. CASE Mark(b)
    BY <2>8 DEF Mark, Marks
  <2>9. CASE WriteMark(b)
    BY <2>9 DEF WriteMark, Written, Marks
  <2>10. CASE Unmark(b)
    BY <2>10 DEF Unmark
  <2>11. CASE Generate(b)
    BY <2>11 DEF Generate
  <2>12. CASE Verify(b)
    BY <2>12 DEF Verify
  <2>13. CASE Commit(b)
    BY <2>13 DEF Commit, Marks
  <2>14. CASE Copy(b)
    BY <2>14 DEF Copy
  <2>15. CASE CopyFails(b)
    BY <2>15 DEF CopyFails
  <2>16. CASE Recheck(b)
    BY <2>16 DEF Recheck, DropCandidate
  <2>17. CASE Backup(b)
    BY <2>17 DEF Backup, DropCandidate
  <2>18. CASE Swap(b)
    BY <2>18 DEF Swap, DropCandidate
  <2>19. CASE Rollback(b)
    BY <2>19 DEF Rollback
  <2>20. CASE Reap(b)
    BY <2>20 DEF Reap
  <2> QED BY <1>1, <2>1, <2>2, <2>3, <2>4, <2>5, <2>6, <2>7, <2>8, <2>9, <2>10, <2>11, <2>12,
             <2>13, <2>14, <2>15, <2>16, <2>17, <2>18, <2>19, <2>20 DEF Cache, Stage, Publish
<1>2. ASSUME NEW b \in Builds, Build(b) PROVE ClearAlone'
  <2>1. CASE Begin(b)
    BY <2>1 DEF Begin, Running
  <2>2. CASE Require(b, "staged", "snapshot")
    BY <2>2 DEF Require
  <2>3. CASE SnapshotKids(b)
    BY <2>3 DEF SnapshotKids, Readable
  <2>4. CASE Require(b, "precompile", "compile")
    BY <2>4 DEF Require
  <2>5. CASE Compile(b)
    BY <2>5 DEF Compile, CompileFails, DropCandidate
  <2>6. CASE Require(b, "compiled", "copy")
    BY <2>6 DEF Require
  <2>7. CASE CopyBinary(b)
    BY <2>7 DEF CopyBinary
  <2>8. CASE Validate(b)
    BY <2>8 DEF Validate, Require
  <2>9. CASE Replace(b)
    BY <2>9 DEF Replace, DropCandidate
  <2>10. CASE Identify(b)
    BY <2>10 DEF Identify
  <2>11. CASE PutSidecar(b)
    BY <2>11 DEF PutSidecar
  <2>12. CASE PutReceipt(b)
    BY <2>12 DEF PutReceipt
  <2>13. CASE Clear(b)
    BY <2>13 DEF Clear
  <2>14. CASE Cleared(b)
    BY <2>14 DEF Cleared
  <2>15. CASE Link(b)
    BY <2>15 DEF Link, CompileFails, DropCandidate
  <2> QED BY <1>2, <2>1, <2>2, <2>3, <2>4, <2>5, <2>6, <2>7, <2>8, <2>9, <2>10, <2>11, <2>12,
             <2>13, <2>14, <2>15 DEF Build
<1>3. ASSUME NEW p \in Procs, Crash(p) PROVE ClearAlone'
  BY <1>3 DEF Crash
<1>4. CASE UNCHANGED vars
  BY <1>4 DEF vars
<1> QED BY <1>1, <1>2, <1>3, <1>4 DEF Next

\* Markers and files keep step: only the marked build writes files, and the complete
\* marker is the incomplete one renamed (stage_blob_sources).
LEMMA TokenStep ==
  LockWhileStaging /\ TypeInv /\ OneStager /\ MarkHeld /\ TokenHonest /\ ClearAlone
    /\ [Next]_vars => (MarkHeld /\ TokenHonest)'
<1> SUFFICES ASSUME LockWhileStaging, TypeInv, OneStager, MarkHeld, TokenHonest, ClearAlone,
                    [Next]_vars
             PROVE  (MarkHeld /\ TokenHonest)'
  OBVIOUS
<1> USE BlobCacheAssumption, JitBuildAssumption DEF MarkHeld, TokenHonest, Running, Marked, All,
       OneStager, Places, StagePlaces, BuildPlaces, PublishPlaces, Ended, cacheVars, buildVars,
       At, Goto, TypeInv, TypeOK, CacheTypeOK, Staging, Marks, Files, Contents
<1>1. ASSUME NEW b \in Builds, Cache(b) PROVE (MarkHeld /\ TokenHonest)'
  <2> UNCHANGED <<target, artifact, sidecar, receipt, kids>>
    BY <1>1 DEF Cache
  <2>1. CASE Recover(b)
    BY <2>1 DEF Recover
  <2>2. CASE ReapBegin(b)
    BY <2>2 DEF ReapBegin, Reapable
  <2>3. CASE ReapEnd(b)
    BY <2>3 DEF ReapEnd
  <2>4. CASE CleanedUp(b)
    BY <2>4 DEF CleanedUp
  <2>5. CASE Check(b)
    BY <2>5 DEF Check
  <2>6. CASE Discard(b)
    BY <2>6 DEF Discard
  <2>7. CASE Refill(b)
    BY <2>7 DEF Refill, Tree, Empty
  <2>8. CASE Mark(b)
    <3> DEFINE other == Builds \ {b}
    <3>0. \A c \in other : pc[c] \notin StagePlaces /\ pc'[c] = pc[c]
      BY <2>8 DEF Mark
    <3>1. CASE staging # None /\ staging.mark = None
      <4>1. PICK m \in Marks : /\ m.by = b
                               /\ staging' = [mark |-> m, token |-> staging.token, files |-> staging.files]
        <5>1. [by |-> b, written |-> ~Fallible("slowMark")] \in Marks
          BY DEF Fallible
        <5>2. staging' = [staging EXCEPT !.mark = [by |-> b, written |-> ~Fallible("slowMark")]]
          BY <2>8, <3>1 DEF Mark
        <5>3. staging \in Staging
          BY <3>1
        <5> DEFINE m == [by |-> b, written |-> ~Fallible("slowMark")]
        <5>4. m.by = b
          OBVIOUS
        <5> HIDE DEF m
        <5>5. staging' = [mark |-> m, token |-> staging.token, files |-> staging.files]
          BY <5>2, <5>3 DEF m
        <5> QED BY <5>1, <5>4, <5>5 DEF m
      <4>2. pc' \in [Builds -> Places] /\ pc'[b] \in {"write", "unmark"}
        BY <2>8, <3>1 DEF Mark
      <4>3. staging' # None /\ m # None
        BY <4>1, <3>1
      <4>4. MarkHeld'
        BY <2>8, <3>0, <3>1, <4>1, <4>2, <4>3
      <4>5. staging.token # None =>
              pc[staging.token.by] \notin {"idle"} \cup StagePlaces /\ staging.token.by \in Builds
        BY <3>1
      <4>6. staging.token # None => pc'[staging.token.by] = pc[staging.token.by]
        BY <2>8, <3>0, <4>5 DEF Mark
      <4>7. TokenHonest'
        BY <3>1, <4>1, <4>3, <4>5, <4>6
      <4> QED BY <4>4, <4>7
    <3>2. CASE ~(staging # None /\ staging.mark = None)
      BY <2>8, <3>2 DEF Mark
    <3> QED BY <3>1, <3>2
  <2>9. CASE WriteMark(b)
    <3> DEFINE other == Builds \ {b}
    <3>0. \A c \in other : pc[c] \notin StagePlaces /\ pc'[c] = pc[c]
      BY <2>9 DEF WriteMark
    <3>1. staging # None /\ staging \in Staging /\ staging.mark \in Marks /\ staging.mark.by = b
      BY <2>9 DEF WriteMark
    <3>2. staging.token # None => staging.token.by # b
      BY <2>9 DEF WriteMark
    <3>3. PICK m \in Marks : /\ m.by = b
                             /\ staging' = [mark |-> m, token |-> staging.token, files |-> staging.files]
      <4>1. /\ [staging.mark EXCEPT !.written = TRUE] \in Marks
            /\ [staging.mark EXCEPT !.written = TRUE].by = b
        BY <3>1
      <4>2. staging' = [staging EXCEPT !.mark = [staging.mark EXCEPT !.written = TRUE],
                        !.token = staging.token]
        BY <2>9, <3>1, <3>2 DEF WriteMark, Written
      <4> QED BY <3>1, <4>1, <4>2
    <3>4. staging' # None /\ m # None
      BY <3>1, <3>3
    <3>5. pc' \in [Builds -> Places] /\ pc'[b] = "unmark"
      BY <2>9 DEF WriteMark
    <3> QED BY <3>0, <3>1, <3>2, <3>3, <3>4, <3>5
  <2>10. CASE Unmark(b)
    <3> DEFINE other == Builds \ {b}
    <3>0. \A c \in other : pc[c] \notin StagePlaces /\ pc'[c] = pc[c]
      BY <2>10 DEF Unmark
    <3>1. staging # None /\ staging \in Staging /\ staging.mark \in Marks /\ staging.mark.by = b
      BY <2>10 DEF Unmark
    <3>2. staging' = [mark |-> staging.mark, token |-> None, files |-> staging.files]
      BY <2>10, <3>1 DEF Unmark
    <3>3. staging' # None
      BY <3>1, <3>2
    <3>4. pc' \in [Builds -> Places] /\ pc'[b] = "gen1"
      BY <2>10 DEF Unmark
    <3> QED BY <3>0, <3>1, <3>2, <3>3, <3>4
  <2>11. CASE Generate(b)
    <3> DEFINE other == Builds \ {b}
    <3>0. \A c \in other : pc[c] \notin StagePlaces /\ pc'[c] = pc[c]
      BY <2>11 DEF Generate
    <3>1. CASE UNCHANGED staging /\ pc' = [pc EXCEPT ![b] = "undo"]
      <4>1. pc' \in [Builds -> Places] /\ pc'[b] = "undo"
        BY <2>11, <3>1 DEF Generate
      <4>2. pc[b] \in StagePlaces /\ staging' = staging
        BY <2>11, <3>1 DEF Generate
      <4>3. staging # None /\ staging.token # None =>
              pc'[staging.token.by] = pc[staging.token.by]
        BY <3>0, <4>2
      <4> QED BY <3>0, <4>1, <4>2, <4>3
    <3>2. ASSUME NEW i \in Files, staging' = [staging EXCEPT !.files[i] = b],
                 pc[b] = IF i = 1 THEN "gen1" ELSE "gen2",
                 pc' = [pc EXCEPT ![b] = IF i = 1 THEN "gen2" ELSE "verify"]
          PROVE  (MarkHeld /\ TokenHonest)'
      <4>1. /\ staging # None
            /\ staging \in Staging
            /\ staging.mark \in Marks
            /\ staging.mark.by = b
        BY <3>2
      <4>2. staging' = [mark |-> staging.mark, token |-> staging.token,
                        files |-> [staging.files EXCEPT ![i] = b]]
        <5> DEFINE new == [staging EXCEPT !.files[i] = b]
        <5>1. DOMAIN staging = {"mark", "token", "files"} /\ DOMAIN new = DOMAIN staging
          BY <4>1
        <5>2. /\ new["mark"] = staging.mark
              /\ new["token"] = staging.token
              /\ new["files"] = [staging.files EXCEPT ![i] = b]
          BY <5>1
        <5>3. new = [f \in DOMAIN new |-> new[f]]
          OBVIOUS
        <5>4. new = staging'
          BY <3>2
        <5> HIDE DEF new
        <5> QED BY <5>1, <5>2, <5>3, <5>4
      <4>3. staging' # None /\ staging.files \in [Files -> Builds \cup {None}]
        BY <4>1, <4>2
      <4>4. pc' \in [Builds -> Places] /\ pc'[b] = IF i = 1 THEN "gen2" ELSE "verify"
        BY <3>2
      <4>5. staging'.files[i] = b /\ i = 2 => staging'.files = All(b)
        BY <3>2, <4>1, <4>2, <4>3
      <4>6. MarkHeld'
        BY <3>0, <3>2, <4>1, <4>2, <4>3, <4>4, <4>5
      <4>7. staging.token # None =>
              pc[staging.token.by] \notin {"idle"} \cup StagePlaces /\ staging.token.by \in Builds
        BY <4>1
      <4>8. staging.token # None => pc'[staging.token.by] = pc[staging.token.by]
        BY <2>11, <3>0, <4>7 DEF Generate
      <4>9. TokenHonest'
        BY <3>2, <4>1, <4>2, <4>3, <4>7, <4>8
      <4> QED BY <4>6, <4>9
    <3> QED BY <2>11, <3>1, <3>2 DEF Generate
  <2>12. CASE Verify(b)
    BY <2>12 DEF Verify
  <2>13. CASE Commit(b)
    <3> DEFINE other == Builds \ {b}
    <3>0. \A c \in other : pc[c] \notin StagePlaces /\ pc'[c] = pc[c]
      BY <2>13 DEF Commit
    <3>1. /\ staging # None
          /\ staging \in Staging
          /\ staging.mark \in Marks
          /\ staging.mark.by = b
          /\ staging.mark # None
      BY <2>13 DEF Commit
    <3>2. staging' = [mark |-> None, token |-> staging.mark, files |-> staging.files]
      <4>1. staging' = [staging EXCEPT !.token = staging.mark, !.mark = None]
        BY <2>13, <3>1 DEF Commit
      <4> QED BY <3>1, <4>1
    <3>3. staging' # None
      BY <3>1, <3>2
    <3>4. pc' \in [Builds -> Places] /\ pc'[b] = "staged"
      BY <2>13, <3>1 DEF Commit
    <3>5. staging.files = All(b)
      BY <2>13 DEF Commit
    <3> QED BY <3>0, <3>1, <3>2, <3>3, <3>4, <3>5
  <2>14. CASE Copy(b)
    BY <2>14 DEF Copy
  <2>15. CASE CopyFails(b)
    BY <2>15 DEF CopyFails
  <2>16. CASE Recheck(b)
    BY <2>16 DEF Recheck, DropCandidate
  <2>17. CASE Backup(b)
    BY <2>17 DEF Backup, DropCandidate
  <2>18. CASE Swap(b)
    BY <2>18 DEF Swap, DropCandidate
  <2>19. CASE Rollback(b)
    BY <2>19 DEF Rollback
  <2>20. CASE Reap(b)
    BY <2>20 DEF Reap
  <2> QED BY <1>1, <2>1, <2>2, <2>3, <2>4, <2>5, <2>6, <2>7, <2>8, <2>9, <2>10, <2>11, <2>12,
             <2>13, <2>14, <2>15, <2>16, <2>17, <2>18, <2>19, <2>20 DEF Cache, Stage, Publish
<1>2. ASSUME NEW b \in Builds, Build(b) PROVE (MarkHeld /\ TokenHonest)'
  <2>1. CASE Begin(b)
    <3>1. \A c \in Builds : pc[c] \notin StagePlaces
      BY <2>1 DEF Begin, LockWhileStaging
    <3> QED BY <2>1, <3>1 DEF Begin
  <2>2. CASE Require(b, "staged", "snapshot")
    BY <2>2 DEF Require
  <2>3. CASE SnapshotKids(b)
    BY <2>3 DEF SnapshotKids, Readable
  <2>4. CASE Require(b, "precompile", "compile")
    BY <2>4 DEF Require
  <2>5. CASE Compile(b)
    BY <2>5 DEF Compile, CompileFails, DropCandidate
  <2>6. CASE Require(b, "compiled", "copy")
    BY <2>6 DEF Require
  <2>7. CASE CopyBinary(b)
    BY <2>7 DEF CopyBinary
  <2>8. CASE Validate(b)
    BY <2>8 DEF Validate, Require
  <2>9. CASE Replace(b)
    BY <2>9 DEF Replace, DropCandidate
  <2>10. CASE Identify(b)
    BY <2>10 DEF Identify
  <2>11. CASE PutSidecar(b)
    BY <2>11 DEF PutSidecar
  <2>12. CASE PutReceipt(b)
    BY <2>12 DEF PutReceipt
  <2>13. CASE Clear(b)
    <3>1. /\ pc' = pc /\ pc[b] = "clear"
          /\ staging' # None => /\ staging # None
                                /\ staging'.mark \in {staging.mark, None}
                                /\ staging'.token \in {staging.token, None}
      BY <2>13, LessOneIs DEF Clear
    <3>2. \A c \in Builds : Running(c) => c = b
      BY <2>13 DEF Clear, ClearAlone
    <3>3. staging # None /\ staging.token # None => staging.token.by \in Builds
      OBVIOUS
    <3>4. TokenHonest'
      BY <3>1, <3>2, <3>3
    <3>5. MarkHeld'
      BY <3>1
    <3> QED BY <3>4, <3>5
  <2>14. CASE Cleared(b)
    BY <2>14 DEF Cleared
  <2>15. CASE Link(b)
    BY <2>15 DEF Link, CompileFails, DropCandidate
  <2> QED BY <1>2, <2>1, <2>2, <2>3, <2>4, <2>5, <2>6, <2>7, <2>8, <2>9, <2>10, <2>11, <2>12,
             <2>13, <2>14, <2>15 DEF Build
<1>3. ASSUME NEW p \in Procs, Crash(p) PROVE (MarkHeld /\ TokenHonest)'
  BY <1>3 DEF Crash
<1>4. CASE UNCHANGED vars
  BY <1>4 DEF vars
<1> QED BY <1>1, <1>2, <1>3, <1>4 DEF Next

-----------------------------------------------------------------------------
(* What a build reads, installs and certifies *)

\* A running build that finds its own token finds the files of its generation.
LEMMA OwnFiles ==
  ASSUME TypeInv, TokenHonest, NEW b \in Builds, Running(b), OwnGeneration(b)
  PROVE  staging # None /\ staging \in Staging /\ staging.files = All(b)
<1>1. staging # None /\ staging.token = [by |-> b, written |-> TRUE] /\ staging.mark = None
  BY DEF OwnGeneration
<1>2. staging.token # None /\ staging.token.by = b
  <2>1. [by |-> b, written |-> TRUE] \in Marks
    BY DEF Marks
  <2>2. None \notin Marks
    BY BlobCacheAssumption
  <2>3. staging.token \in Marks
    BY <1>1, <2>1
  <2>4. [by |-> b, written |-> TRUE].by = b
    OBVIOUS
  <2> QED BY <1>1, <2>2, <2>3, <2>4
<1> QED BY <1>1, <1>2 DEF TokenHonest, TypeInv, TypeOK, CacheTypeOK

\* A token of build c that is there was there before and the tree is the same, unless
\* c has just committed: once lost, a generation does not come back, and as long as it is
\* there and c is running nobody has touched the files.
LEMMA TokenStays ==
  ASSUME TypeInv, MarkHeld, ClearAlone, [Next]_vars,
         NEW c \in Builds, pc'[c] \in BuildPlaces \cup PublishPlaces, OwnGeneration(c)'
  PROVE  pc'[c] = "staged" \/ (OwnGeneration(c) /\ staging' = staging)
<1> DEFINE Stays == pc'[c] = "staged" \/ staging' = staging
<1>0. SUFFICES Stays
  BY DEF OwnGeneration
<1> USE DEF cacheVars, buildVars, At, Goto
<1>1. ASSUME NEW b \in Builds, Cache(b) PROVE Stays
  <2>1. CASE Recover(b)
    BY <2>1 DEF Recover
  <2>2. CASE ReapBegin(b)
    BY <2>2 DEF ReapBegin, Reapable
  <2>3. CASE ReapEnd(b)
    BY <2>3 DEF ReapEnd
  <2>4. CASE CleanedUp(b)
    BY <2>4 DEF CleanedUp
  <2>5. CASE Check(b)
    BY <2>5 DEF Check
  <2>6. CASE Discard(b)
    BY <2>6 DEF Discard, OwnGeneration
  <2>7. CASE Refill(b)
    <3>1. CASE UNCHANGED staging
      BY <3>1
    <3>2. CASE staging' = Tree(IF blob = None THEN Empty ELSE blob.files)
      <4>1. staging'.token = None
        BY <3>2 DEF Tree
      <4>2. [by |-> c, written |-> TRUE] \in Marks
        BY DEF Marks
      <4>3. None \notin Marks
        BY BlobCacheAssumption
      <4> QED BY <4>1, <4>2, <4>3 DEF OwnGeneration
    <3> QED BY <2>7, <3>1, <3>2 DEF Refill
  <2>8. CASE Mark(b)
    <3>1. CASE staging # None /\ staging.mark = None
      <4> DEFINE m == [by |-> b, written |-> ~Fallible("slowMark")]
      <4>1. m \in Marks
        BY DEF Marks, Fallible
      <4>2. staging' = [staging EXCEPT !.mark = m] /\ staging \in Staging
        BY <2>8, <3>1 DEF Mark, TypeInv, TypeOK, CacheTypeOK
      <4> HIDE DEF m
      <4>3. staging'.mark = m
        BY <4>2 DEF Staging
      <4>4. None \notin Marks
        BY BlobCacheAssumption
      <4> QED BY <4>1, <4>3, <4>4 DEF OwnGeneration
    <3>2. CASE ~(staging # None /\ staging.mark = None)
      BY <2>8, <3>2 DEF Mark
    <3> QED BY <3>1, <3>2
  <2>9. CASE WriteMark(b)
    <3>1. staging # None /\ staging.mark # None /\ staging \in Staging
      BY <2>9 DEF WriteMark, MarkHeld, Marked, TypeInv, TypeOK, CacheTypeOK
    <3>2. staging' = [staging EXCEPT !.mark = Written(staging.mark, b),
                      !.token = Written(staging.token, b)]
      BY <2>9, <3>1 DEF WriteMark
    <3>3. staging'.mark = Written(staging.mark, b)
      BY <3>1, <3>2 DEF Staging
    <3>4. staging.mark \in Marks \cup {None}
      BY <3>1 DEF Staging
    <3> QED BY <3>1, <3>3, <3>4, WrittenIs DEF OwnGeneration
  <2>10. CASE Unmark(b)
    <3>1. staging # None /\ staging.mark # None /\ staging \in Staging
      BY <2>10 DEF Unmark, MarkHeld, Marked, TypeInv, TypeOK, CacheTypeOK
    <3>2. staging'.mark = staging.mark
      BY <2>10, <3>1 DEF Unmark, Staging
    <3> QED BY <3>1, <3>2 DEF OwnGeneration
  <2>11. CASE Generate(b)
    <3>1. CASE UNCHANGED staging
      BY <3>1
    <3>2. ASSUME NEW i \in Files, staging' = [staging EXCEPT !.files[i] = b], staging # None
          PROVE  Stays
      <4>1. staging.mark # None /\ staging \in Staging
        BY <2>11, <3>2 DEF Generate, MarkHeld, Marked, TypeInv, TypeOK, CacheTypeOK
      <4>2. staging'.mark = staging.mark
        BY <3>2, <4>1 DEF Staging
      <4> QED BY <4>1, <4>2 DEF OwnGeneration
    <3> QED BY <2>11, <3>1, <3>2 DEF Generate, Files
  <2>12. CASE Verify(b)
    BY <2>12 DEF Verify
  <2>13. CASE Commit(b)
    <3>1. staging.mark # None /\ staging.mark.by = b /\ staging \in Staging /\ staging # None
      BY <2>13 DEF Commit, MarkHeld, Marked, TypeInv, TypeOK, CacheTypeOK
    <3>2. /\ staging' = [staging EXCEPT !.token = staging.mark, !.mark = None]
          /\ pc' = [pc EXCEPT ![b] = "staged"]
      BY <2>13, <3>1 DEF Commit
    <3>3. staging'.token = staging.mark
      BY <3>1, <3>2 DEF Staging
    <3>4. pc'[b] = "staged"
      BY <3>2 DEF TypeInv, TypeOK
    <3> QED BY <3>1, <3>3, <3>4 DEF OwnGeneration
  <2>14. CASE Copy(b)
    BY <2>14 DEF Copy
  <2>15. CASE CopyFails(b)
    BY <2>15 DEF CopyFails
  <2>16. CASE Recheck(b)
    BY <2>16 DEF Recheck, DropCandidate
  <2>17. CASE Backup(b)
    BY <2>17 DEF Backup, DropCandidate
  <2>18. CASE Swap(b)
    BY <2>18 DEF Swap, DropCandidate
  <2>19. CASE Rollback(b)
    BY <2>19 DEF Rollback
  <2>20. CASE Reap(b)
    BY <2>20 DEF Reap
  <2> QED BY <1>1, <2>1, <2>2, <2>3, <2>4, <2>5, <2>6, <2>7, <2>8, <2>9, <2>10, <2>11, <2>12,
             <2>13, <2>14, <2>15, <2>16, <2>17, <2>18, <2>19, <2>20 DEF Cache, Stage, Publish
<1>2. ASSUME NEW b \in Builds, Build(b) PROVE Stays
  <2>1. CASE Begin(b)
    BY <2>1 DEF Begin, OwnGeneration
  <2>2. CASE Require(b, "staged", "snapshot")
    BY <2>2 DEF Require
  <2>3. CASE SnapshotKids(b)
    BY <2>3 DEF SnapshotKids, Readable
  <2>4. CASE Require(b, "precompile", "compile")
    BY <2>4 DEF Require
  <2>5. CASE Compile(b)
    BY <2>5 DEF Compile, CompileFails, DropCandidate
  <2>6. CASE Require(b, "compiled", "copy")
    BY <2>6 DEF Require
  <2>7. CASE CopyBinary(b)
    BY <2>7 DEF CopyBinary
  <2>8. CASE Validate(b)
    BY <2>8 DEF Validate, Require
  <2>9. CASE Replace(b)
    BY <2>9 DEF Replace, DropCandidate
  <2>10. CASE Identify(b)
    BY <2>10 DEF Identify
  <2>11. CASE PutSidecar(b)
    BY <2>11 DEF PutSidecar
  <2>12. CASE PutReceipt(b)
    BY <2>12 DEF PutReceipt
  <2>13. CASE Clear(b)
    BY <2>13 DEF Clear, ClearAlone, Running, Ended, BuildPlaces, PublishPlaces
  <2>14. CASE Cleared(b)
    BY <2>14 DEF Cleared
  <2>15. CASE Link(b)
    BY <2>15 DEF Link, CompileFails, DropCandidate
  <2> QED BY <1>2, <2>1, <2>2, <2>3, <2>4, <2>5, <2>6, <2>7, <2>8, <2>9, <2>10, <2>11, <2>12,
             <2>13, <2>14, <2>15 DEF Build
<1>3. ASSUME NEW p \in Procs, Crash(p) PROVE Stays
  BY <1>3 DEF Crash
<1>4. CASE UNCHANGED vars
  BY <1>4 DEF vars
<1> QED BY <1>1, <1>2, <1>3, <1>4 DEF Next

\* Every check of the generation (require_blob_generation, validate_generation) vouches
\* for what was read before it.
LEMMA InputsStep ==
  ASSUME TypeInv, StagingInv, [Next]_vars, NEW c \in Builds, Inputs(c)
  PROVE  Inputs(c)'
<1>a. OwnGeneration(c)' /\ pc'[c] \in {"precompile", "link", "compiled", "copy", "validate"}
        => OwnGeneration(c) /\ staging' = staging
  BY TokenStays DEF StagingInv, BuildPlaces
<1>b. \A b \in Builds : OwnGeneration(b) /\ Running(b) => staging # None /\ staging.files = All(b)
  BY OwnFiles DEF StagingInv
<1>c. All(c)[1] = c /\ All(c)[2] = c
  BY DEF All, Files
<1> USE <1>a, <1>b, <1>c
<1> USE DEF cacheVars, buildVars, At, Goto, Inputs, TypeInv, TypeOK, CacheTypeOK
<1>1. ASSUME NEW b \in Builds, Cache(b) PROVE Inputs(c)'
  <2> UNCHANGED <<target, artifact, sidecar, receipt, kids>>
    BY <1>1 DEF Cache
  <2>1. CASE Recover(b)
    BY <2>1 DEF Recover
  <2>2. CASE ReapBegin(b)
    BY <2>2 DEF ReapBegin, Reapable
  <2>3. CASE ReapEnd(b)
    BY <2>3 DEF ReapEnd
  <2>4. CASE CleanedUp(b)
    BY <2>4 DEF CleanedUp
  <2>5. CASE Check(b)
    BY <2>5 DEF Check
  <2>6. CASE Discard(b)
    BY <2>6 DEF Discard
  <2>7. CASE Refill(b)
    BY <2>7 DEF Refill, Tree, Empty
  <2>8. CASE Mark(b)
    BY <2>8 DEF Mark, Marks
  <2>9. CASE WriteMark(b)
    BY <2>9 DEF WriteMark, Written, Marks
  <2>10. CASE Unmark(b)
    BY <2>10 DEF Unmark
  <2>11. CASE Generate(b)
    BY <2>11 DEF Generate
  <2>12. CASE Verify(b)
    BY <2>12 DEF Verify
  <2>13. CASE Commit(b)
    BY <2>13 DEF Commit, Marks
  <2>14. CASE Copy(b)
    BY <2>14 DEF Copy
  <2>15. CASE CopyFails(b)
    BY <2>15 DEF CopyFails
  <2>16. CASE Recheck(b)
    BY <2>16 DEF Recheck, DropCandidate
  <2>17. CASE Backup(b)
    BY <2>17 DEF Backup, DropCandidate
  <2>18. CASE Swap(b)
    BY <2>18 DEF Swap, DropCandidate
  <2>19. CASE Rollback(b)
    BY <2>19 DEF Rollback
  <2>20. CASE Reap(b)
    BY <2>20 DEF Reap
  <2> QED BY <1>1, <2>1, <2>2, <2>3, <2>4, <2>5, <2>6, <2>7, <2>8, <2>9, <2>10, <2>11, <2>12,
             <2>13, <2>14, <2>15, <2>16, <2>17, <2>18, <2>19, <2>20 DEF Cache, Stage, Publish
<1>2. ASSUME NEW b \in Builds, Build(b) PROVE Inputs(c)'
  <2>1. CASE Begin(b)
    BY <2>1 DEF Begin, Running
  <2>2. CASE Require(b, "staged", "snapshot")
    BY <2>2 DEF Require
  <2>3. CASE SnapshotKids(b)
    <3>0. /\ UNCHANGED <<staging, target, work>>
          /\ pc[b] = "snapshot" /\ Running(b) /\ pc'[b] \in {"precompile", "failed"}
          /\ \A d \in Builds \ {b} : pc'[d] = pc[d] /\ kids'[d] = kids[d]
          /\ pc'[b] = "precompile" => kids'[b] = staging.files[2]
      BY <2>3 DEF SnapshotKids, Running, Ended
    <3>1. CASE c = b
      BY <3>0, <3>1
    <3>2. CASE c # b
      BY <3>0, <3>2
    <3> QED BY <3>1, <3>2
  <2>4. CASE Require(b, "precompile", "compile")
    <3>1. /\ UNCHANGED <<staging, target, work, kids>>
          /\ pc[b] = "precompile" /\ pc'[b] \in {"compile", "failed"}
          /\ \A d \in Builds \ {b} : pc'[d] = pc[d]
          /\ pc'[b] = "compile" => OwnGeneration(b)
      BY <2>4 DEF Require
    <3>2. CASE c = b
      BY <3>1, <3>2
    <3>3. CASE c # b
      BY <3>1, <3>3
    <3> QED BY <3>2, <3>3
  <2>5. CASE Compile(b)
    <3>0. /\ UNCHANGED <<staging, target, kids>> /\ pc[b] = "compile"
          /\ \A d \in Builds : pc[d] # "link"
          /\ \A d \in Builds \ {b} : pc'[d] = pc[d] /\ work'[d] = work[d]
      BY <2>5 DEF Compile, CompileFails, DropCandidate
    <3>1. CASE Readable(1) /\ work'[b] = [Empty EXCEPT ![1] = staging.files[1]] /\ pc'[b] = "link"
      <4>1. work'[b][1] = staging.files[1]
        BY <3>1 DEF Empty, Files
      <4>2. Running(b) /\ (pc[c] \in {"compiled", "copy"} => Running(c))
        BY <3>0 DEF Running, Ended
      <4>3. CASE c = b
        BY <3>0, <3>1, <4>1, <4>2, <4>3
      <4>4. CASE c # b
        BY <3>0, <3>1, <4>1, <4>2, <4>4
      <4> QED BY <4>3, <4>4
    <3>2. CASE pc'[b] = "failed"
      BY <3>0, <3>2
    <3> QED BY <2>5, <3>1, <3>2 DEF Compile, CompileFails
  <2>6. CASE Require(b, "compiled", "copy")
    BY <2>6 DEF Require
  <2>7. CASE CopyBinary(b)
    BY <2>7 DEF CopyBinary
  <2>8. CASE Validate(b)
    BY <2>8 DEF Validate, Require
  <2>9. CASE Replace(b)
    BY <2>9 DEF Replace, DropCandidate
  <2>10. CASE Identify(b)
    BY <2>10 DEF Identify
  <2>11. CASE PutSidecar(b)
    BY <2>11 DEF PutSidecar
  <2>12. CASE PutReceipt(b)
    BY <2>12 DEF PutReceipt
  <2>13. CASE Clear(b)
    BY <2>13 DEF Clear, StagingInv, ClearAlone, Running, Ended
  <2>14. CASE Cleared(b)
    BY <2>14 DEF Cleared
  <2>15. CASE Link(b)
    <3>0. /\ UNCHANGED <<staging, kids>> /\ pc[b] = "link" /\ pc'[b] \in {"compiled", "failed"}
          /\ \A d \in Builds \ {b} : pc'[d] = pc[d] /\ work'[d] = work[d]
      BY <2>15 DEF Link, CompileFails, DropCandidate
    <3>1. CASE target' = [work[b] EXCEPT ![2] = staging.files[2]]
      <4>1. /\ work[b] \in Contents
            /\ pc[c] \in {"link", "compiled", "copy"} => Running(c)
        BY <3>0 DEF WorkHeld, Running, Ended
      <4>2. OwnGeneration(c) /\ pc[c] \in {"link", "compiled", "copy"} => target' = All(c)
        BY <3>0, <3>1, <4>1 DEF Contents, Files, All
      <4>3. CASE c = b
        BY <3>0, <4>2, <4>3
      <4>4. CASE c # b
        BY <3>0, <4>2, <4>4
      <4> QED BY <4>3, <4>4
    <3>2. CASE pc'[b] = "failed" /\ target' = target
      <4>1. CASE c = b
        BY <3>0, <3>2, <4>1
      <4>2. CASE c # b
        BY <3>0, <3>2, <4>2
      <4> QED BY <4>1, <4>2
    <3> QED BY <2>15, <3>1, <3>2 DEF Link, CompileFails
  <2> QED BY <1>2, <2>1, <2>2, <2>3, <2>4, <2>5, <2>6, <2>7, <2>8, <2>9, <2>10, <2>11, <2>12,
             <2>13, <2>14, <2>15 DEF Build
<1>3. ASSUME NEW p \in Procs, Crash(p) PROVE Inputs(c)'
  <2>1. (pc'[c] = pc[c] /\ work'[c] = work[c]) \/ pc'[c] \in Ended
    BY <1>3 DEF Crash, Ended
  <2> QED BY <1>3, <2>1 DEF Crash, Ended
<1>4. CASE UNCHANGED vars
  BY <1>4 DEF vars
<1> QED BY <1>1, <1>2, <1>3, <1>4 DEF Next

\* Only a validated binary is installed, and a receipt names the kids of the build that
\* installed the inode (atomic_copy, publish_compiled_kids).
LEMMA OutputsStep ==
  TypeInv /\ (\A b \in Builds : Inputs(b)) /\ Outputs /\ [Next]_vars => Outputs'
<1> SUFFICES ASSUME TypeInv, (\A b \in Builds : Inputs(b)), Outputs, [Next]_vars PROVE Outputs'
  OBVIOUS
<1> USE DEF cacheVars, buildVars, At, Goto, Inputs, TypeInv, TypeOK, CacheTypeOK, Outputs,
       ArtifactIsOwnGeneration, All
<1>1. ASSUME NEW b \in Builds, Cache(b) PROVE Outputs'
  <2> UNCHANGED <<target, artifact, sidecar, receipt, kids>>
    BY <1>1 DEF Cache
  <2>1. CASE Recover(b)
    BY <2>1 DEF Recover
  <2>2. CASE ReapBegin(b)
    BY <2>2 DEF ReapBegin, Reapable
  <2>3. CASE ReapEnd(b)
    BY <2>3 DEF ReapEnd
  <2>4. CASE CleanedUp(b)
    BY <2>4 DEF CleanedUp
  <2>5. CASE Check(b)
    BY <2>5 DEF Check
  <2>6. CASE Discard(b)
    BY <2>6 DEF Discard
  <2>7. CASE Refill(b)
    BY <2>7 DEF Refill, Tree, Empty
  <2>8. CASE Mark(b)
    BY <2>8 DEF Mark, Marks
  <2>9. CASE WriteMark(b)
    BY <2>9 DEF WriteMark, Written, Marks
  <2>10. CASE Unmark(b)
    BY <2>10 DEF Unmark
  <2>11. CASE Generate(b)
    BY <2>11 DEF Generate
  <2>12. CASE Verify(b)
    BY <2>12 DEF Verify
  <2>13. CASE Commit(b)
    BY <2>13 DEF Commit, Marks
  <2>14. CASE Copy(b)
    BY <2>14 DEF Copy
  <2>15. CASE CopyFails(b)
    BY <2>15 DEF CopyFails
  <2>16. CASE Recheck(b)
    BY <2>16 DEF Recheck, DropCandidate
  <2>17. CASE Backup(b)
    BY <2>17 DEF Backup, DropCandidate
  <2>18. CASE Swap(b)
    BY <2>18 DEF Swap, DropCandidate
  <2>19. CASE Rollback(b)
    BY <2>19 DEF Rollback
  <2>20. CASE Reap(b)
    BY <2>20 DEF Reap
  <2> QED BY <1>1, <2>1, <2>2, <2>3, <2>4, <2>5, <2>6, <2>7, <2>8, <2>9, <2>10, <2>11, <2>12,
             <2>13, <2>14, <2>15, <2>16, <2>17, <2>18, <2>19, <2>20 DEF Cache, Stage, Publish
<1>2. ASSUME NEW b \in Builds, Build(b) PROVE Outputs'
  <2>1. CASE Begin(b)
    BY <2>1 DEF Begin, Running
  <2>2. CASE Require(b, "staged", "snapshot")
    BY <2>2 DEF Require
  <2>3. CASE SnapshotKids(b)
    BY <2>3 DEF SnapshotKids, Readable
  <2>4. CASE Require(b, "precompile", "compile")
    BY <2>4 DEF Require
  <2>5. CASE Compile(b)
    BY <2>5 DEF Compile, CompileFails, DropCandidate
  <2>6. CASE Require(b, "compiled", "copy")
    BY <2>6 DEF Require
  <2>7. CASE CopyBinary(b)
    BY <2>7 DEF CopyBinary
  <2>8. CASE Validate(b)
    BY <2>8 DEF Validate, Require
  <2>9. CASE Replace(b)
    BY <2>9 DEF Replace, DropCandidate
  <2>10. CASE Identify(b)
    BY <2>10 DEF Identify
  <2>11. CASE PutSidecar(b)
    BY <2>11 DEF PutSidecar
  <2>12. CASE PutReceipt(b)
    BY <2>12 DEF PutReceipt
  <2>13. CASE Clear(b)
    BY <2>13 DEF Clear
  <2>14. CASE Cleared(b)
    BY <2>14 DEF Cleared
  <2>15. CASE Link(b)
    BY <2>15 DEF Link, CompileFails, DropCandidate
  <2> QED BY <1>2, <2>1, <2>2, <2>3, <2>4, <2>5, <2>6, <2>7, <2>8, <2>9, <2>10, <2>11, <2>12,
             <2>13, <2>14, <2>15 DEF Build
<1>3. ASSUME NEW p \in Procs, Crash(p) PROVE Outputs'
  BY <1>3 DEF Crash
<1>4. CASE UNCHANGED vars
  BY <1>4 DEF vars
<1> QED BY <1>1, <1>2, <1>3, <1>4 DEF Next

-----------------------------------------------------------------------------
(* Theorems *)

\* The types of JitBuild hold for any number of builds and processes, wherever builds
\* overlap and whatever fails; so does that no complete marker is there during code
\* generation.
THEOREM TypeCorrect == Spec => []TypeOK
<1>1. Spec => []TypeInv
  BY InitTypeInv, TypeStep, PTL DEF Spec
<1> QED BY <1>1, PTL DEF TypeInv

\* The inductive invariant of the regime LockWhileStaging.
OneStagerInv == TypeInv /\ StagingInv /\ (\A b \in Builds : Inputs(b)) /\ Outputs

\* It holds before the first build.
LEMMA InitOneStagerInv == Init => OneStagerInv
<1> SUFFICES ASSUME Init PROVE OneStagerInv
  OBVIOUS
<1>1. TypeInv
  BY InitTypeInv
<1>2. StagingInv
  BY DEF Init, CacheInit, StagingInv, OneStager, MarkHeld, TokenHonest, ClearAlone, StagePlaces
<1>3. (\A b \in Builds : Inputs(b)) /\ Outputs
  BY DEF Init, CacheInit, Inputs, Outputs, ArtifactIsOwnGeneration, OwnGeneration
<1> QED BY <1>1, <1>2, <1>3 DEF OneStagerInv

\* It holds throughout, whatever fails and whatever AITER_REBUILD asks for.
THEOREM OneStagerInvariant == LockWhileStaging => (Spec => []OneStagerInv)
<1>1. ASSUME LockWhileStaging, OneStagerInv, [Next]_vars PROVE OneStagerInv'
  <2> USE <1>1 DEF OneStagerInv
  <2>1. TypeInv'
    BY TypeStep
  <2>2. StagingInv'
    BY OneStagerStep, TokenStep, ClearAloneStep DEF StagingInv
  <2>3. ASSUME NEW b \in Builds PROVE Inputs(b)'
    BY InputsStep
  <2>4. Outputs'
    BY OutputsStep
  <2> QED BY <2>1, <2>2, <2>3, <2>4
<1>2. ASSUME LockWhileStaging PROVE Spec => []OneStagerInv
  BY InitOneStagerInv, <1>1, <1>2, PTL DEF Spec
<1> QED BY <1>2

\* The installed binary is of one generation, its installer's, although builders may
\* overlap from the complete marker on (validate_generation in atomic_copy).
THEOREM InstalledOneGeneration == LockWhileStaging => (Spec => []ArtifactIsOwnGeneration)
<1>1. OneStagerInv => ArtifactIsOwnGeneration
  BY DEF OneStagerInv, Outputs
<1> QED BY <1>1, OneStagerInvariant, PTL

\* A receipt that matches the installed inode and the sidecar certifies the kids of that
\* very binary (publish_compiled_kids, compiled_kids_are_current).
THEOREM ReceiptsHonest == LockWhileStaging => (Spec => []ReceiptHonest)
<1>1. OneStagerInv => ReceiptHonest
  BY DEF OneStagerInv, Outputs, ReceiptHonest, ReceiptValid, ArtifactIsOwnGeneration, TypeInv,
     TypeOK
<1> QED BY <1>1, OneStagerInvariant, PTL
=============================================================================
