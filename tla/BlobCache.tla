----------------------------- MODULE BlobCache -----------------------------
(***************************************************************************)
(* aiter/jit/utils/jit_cache.py: the working tree blob.staging in which a  *)
(* module's code is generated, the published snapshot blob, and the backups*)
(* a publication leaves behind.  A tree is what a reader can tell apart:   *)
(* for each of its files, the build whose generator wrote it last.         *)
(*                                                                         *)
(* A build is one run of build_module's MainFunc, by process Proc[b]; a    *)
(* process runs its builds one after the other.  The token of a generation *)
(* is the build itself (uuid4).  Private temporary directories, the 24-hour*)
(* rule for names without an owner, and modes are left out; all processes  *)
(* run on one machine.                                                     *)
(***************************************************************************)
EXTENDS Naturals, FiniteSets

CONSTANTS Builds,      \* the runs of MainFunc
          Proc,        \* Proc[b]: the process that makes build b
          None,        \* no build, no marker, no directory
          Faults       \* what may go wrong in this instance, see FaultNames

\* crash: a process is killed; the others are calls that fail with an exception
\* (rename also stands for a copy that fails), except rmtree: an error that
\* shutil.rmtree(ignore_errors=True) ignores or rm_module logs; slowMark: a peer may act between
\* the creation of the incomplete marker and the write of its contents.
FaultNames == {"crash", "generator", "compiler", "metadata", "rename", "rmtree",
               "slowMark"}

Procs == {Proc[b] : b \in Builds}

Files == {1, 2}   \* two files of a tree: enough for it to be a mixture
Contents == [Files -> Builds \cup {None}]
Empty == [i \in Files |-> None]
Whole(files) == \E b \in Builds : files = [i \in Files |-> b]
\* What a removal may have left of one generation, never a mixture of two.
OneGeneration(files) == \E b \in Builds : \A i \in Files : files[i] \in {b, None}

Marks == [by : Builds, written : BOOLEAN]

VARIABLES
  staging,   \* blob.staging: its incomplete and complete markers and its files
  blob,      \* the published snapshot, with the mtime of its directory
  backups,   \* the .blob-backup- directories, each with the build that made it
  now,       \* the clock of directory mtimes
  dead,      \* the processes that were killed
  pc,        \* where each build is
  work       \* the private copy each build holds: a candidate tree or a binary

cacheVars == <<staging, blob, backups, now>>

Staging == [mark : Marks \cup {None}, token : Marks \cup {None}, files : Contents]
Snapshots == [files : Contents, mtime : Nat]
Backups == [owner : Builds, files : Contents, mtime : Nat]

ASSUME BlobCacheAssumption ==
  /\ None \notin Builds \cup Marks \cup Contents \cup Staging \cup Snapshots
  /\ DOMAIN Proc = Builds
  /\ Faults \subseteq FaultNames

\* The types; and during code generation only the incomplete marker is there.
CacheTypeOK ==
  /\ staging \in Staging \cup {None}
  /\ blob \in Snapshots \cup {None}
  /\ backups \subseteq Backups
  /\ now \in Nat
  /\ dead \subseteq Procs
  /\ work \in [Builds -> Contents \cup {None}]
  /\ \A b \in Builds : pc[b] \in {"gen1", "gen2", "verify", "commit"} /\ staging # None
                        => (staging.mark # None /\ staging.mark.by = b
                              => staging.token = None)

CacheInit ==
  /\ staging = None
  /\ blob = None
  /\ backups = {}
  /\ now = 0
  /\ dead = {}
  /\ work = [b \in Builds |-> None]

At(b, place) == pc[b] = place
Goto(b, place) == pc' = [pc EXCEPT ![b] = place]
\* _pid_alive: the process that runs, or ran, a build; no process id is used again.
Alive(b) == Proc[b] \notin dead
Fallible(fault) == fault \in Faults

-----------------------------------------------------------------------------
(* stage_blob_sources: recover, clean up, decide whether to reset *)

\* The backups _recover_blob_backup may take: a dead process's or its own.
Recoverable(b) == {k \in backups : ~Alive(k.owner) \/ Proc[k.owner] = Proc[b]}

Newest(S) == CHOOSE k \in S : \A other \in S : other.mtime <= k.mtime

\* The newest one is renamed to blob; one that cannot be is passed over.
Recover(b) ==
  /\ At(b, "recover")
  /\ \/ /\ blob # None \/ Recoverable(b) = {} \/ Fallible("rename")
        /\ UNCHANGED <<blob, backups>>
     \/ /\ blob = None
        /\ \E movable \in (SUBSET Recoverable(b)) \ {{}} :
             /\ Fallible("rename") \/ movable = Recoverable(b)
             /\ LET k == Newest(movable)
                IN  /\ blob' = [files |-> k.files, mtime |-> k.mtime]
                    /\ backups' = backups \ {k}
  /\ Goto(b, "cleanup")
  /\ UNCHANGED <<staging, now, dead, work>>

\* What rmtree leaves of a snapshot when it is interrupted: some files are gone, and
\* each removal has renewed the mtime of the directory.
HalfRemoved(k) == [k EXCEPT !.files[1] = None, !.mtime = now + 1]

\* cleanup_abandoned_blob_artifacts spares every backup while blob is missing.
Reapable == {k \in backups : blob # None /\ ~Alive(k.owner)}

\* It removes them one after the other: first some of a backup's files, then the
\* rest, or, when rmtree ignores an error, not the rest.
ReapBegin(b) ==
  /\ At(b, "cleanup")
  /\ \E k \in Reapable : /\ k.files[1] # None
                         /\ backups' = (backups \ {k}) \cup {HalfRemoved(k)}
  /\ now' = now + 1
  /\ UNCHANGED <<staging, blob, dead, pc, work>>

ReapEnd(b) ==
  /\ At(b, "cleanup")
  /\ \E k \in Reapable : k.files[1] = None /\ backups' = backups \ {k}
  /\ UNCHANGED <<staging, blob, now, dead, pc, work>>

CleanedUp(b) ==
  /\ At(b, "cleanup")
  /\ \/ Reapable = {}
     \/ Fallible("rmtree") /\ \A k \in Reapable : k.files[1] = None
  /\ Goto(b, "check")
  /\ UNCHANGED <<cacheVars, dead, work>>

\* Mutant: the process that made the marker is not looked for.
MarkerOfAnybody == staging.mark.written

\* _marker_owner_is_active: an empty marker has no owner.
MarkerActive == staging.mark.written /\ Alive(staging.mark.by)

\* An interrupted or missing working tree is reset, a complete one is kept; code
\* generation that is still active refuses the build.
Check(b) ==
  /\ At(b, "check")
  /\ Goto(b, IF staging = None THEN "discard"
             ELSE IF staging.mark = None THEN "mark"
             ELSE IF MarkerActive THEN "failed" ELSE "discard")
  /\ UNCHANGED <<cacheVars, dead, work>>

-----------------------------------------------------------------------------
(* _restore_staging_directory, before code generation and after its failure *)

Tree(files) == [mark |-> None, token |-> None, files |-> files]

\* The old tree is renamed away.
Discard(b) ==
  /\ pc[b] \in {"discard", "undo"}
  /\ \/ /\ staging' = None
        /\ Goto(b, IF pc[b] = "undo" THEN "undofill" ELSE "refill")
     \/ /\ Fallible("rename") /\ staging # None
        /\ UNCHANGED staging
        /\ Goto(b, "failed")
  /\ UNCHANGED <<blob, backups, now, dead, work>>

\* Mutant: blob is copied straight to the stable path, and the copy may fail.
RefillInPlace(b) ==
  /\ pc[b] \in {"refill", "undofill"}
  /\ LET published == IF blob = None THEN Empty ELSE blob.files
     IN  \/ /\ staging' = Tree(published)
            /\ Goto(b, IF pc[b] = "undofill" THEN "failed" ELSE "mark")
         \/ /\ Fallible("rename")
            /\ staging' = Tree([published EXCEPT ![1] = None])
            /\ Goto(b, "failed")
  /\ UNCHANGED <<blob, backups, now, dead, work>>

\* A copy of blob, complete, is renamed to blob.staging unless a peer has put a
\* tree there.  After failed code generation the build fails in any case.
Refill(b) ==
  /\ pc[b] \in {"refill", "undofill"}
  /\ \/ /\ staging = None
        /\ staging' = Tree(IF blob = None THEN Empty ELSE blob.files)
        /\ Goto(b, IF pc[b] = "undofill" THEN "failed" ELSE "mark")
     \/ /\ staging # None \/ Fallible("rename")
        /\ UNCHANGED staging
        /\ Goto(b, "failed")
  /\ UNCHANGED <<blob, backups, now, dead, work>>

-----------------------------------------------------------------------------
(* stage_blob_sources: code generation between its two markers *)

\* open(incomplete_marker, "x").  Its failure is not undone.
Mark(b) ==
  /\ At(b, "mark")
  /\ IF staging # None /\ staging.mark = None
     THEN /\ staging' = [staging EXCEPT
                           !.mark = [by |-> b, written |-> ~Fallible("slowMark")]]
          /\ Goto(b, IF Fallible("slowMark") THEN "write" ELSE "unmark")
     ELSE /\ UNCHANGED staging
          /\ Goto(b, "failed")
  /\ UNCHANGED <<blob, backups, now, dead, work>>

\* The contents go to the open file, whatever has become of its name.
Written(mark, b) ==
  IF mark # None /\ mark.by = b THEN [mark EXCEPT !.written = TRUE] ELSE mark

WriteMark(b) ==
  /\ At(b, "write")
  /\ staging' = IF staging = None THEN None
                ELSE [staging EXCEPT !.mark = Written(@, b), !.token = Written(@, b)]
  /\ Goto(b, "unmark")
  /\ UNCHANGED <<blob, backups, now, dead, work>>

\* Mutant: the complete marker of the previous generation stays.
KeepOldToken(b) ==
  /\ At(b, "unmark")
  /\ Goto(b, "gen1")
  /\ UNCHANGED <<cacheVars, dead, work>>

\* The complete marker of the previous generation is removed.
Unmark(b) ==
  /\ At(b, "unmark")
  /\ staging' = IF staging = None THEN None ELSE [staging EXCEPT !.token = None]
  /\ Goto(b, "gen1")
  /\ UNCHANGED <<blob, backups, now, dead, work>>

\* The generators write the files one after the other, by path.  Without a
\* directory they fail, and they may fail by themselves.
Generate(b) ==
  /\ pc[b] \in {"gen1", "gen2"}
  /\ \/ /\ staging # None
        /\ LET i == IF pc[b] = "gen1" THEN 1 ELSE 2
           IN  staging' = [staging EXCEPT !.files[i] = b]
        /\ Goto(b, IF pc[b] = "gen1" THEN "gen2" ELSE "verify")
     \/ /\ staging = None \/ Fallible("generator")
        /\ UNCHANGED staging
        /\ Goto(b, "undo")
  /\ UNCHANGED <<blob, backups, now, dead, work>>

\* The incomplete marker must still be the one of this build.
OwnMark(b) == staging # None /\ staging.mark = [by |-> b, written |-> TRUE]

Verify(b) ==
  /\ At(b, "verify")
  /\ Goto(b, IF OwnMark(b) THEN "commit" ELSE "undo")
  /\ UNCHANGED <<cacheVars, dead, work>>

\* The incomplete marker that is there is renamed to the complete one.
Commit(b) ==
  /\ At(b, "commit")
  /\ IF staging # None /\ staging.mark # None
     THEN /\ staging' = [staging EXCEPT !.token = staging.mark, !.mark = None]
          /\ Goto(b, "staged")
     ELSE /\ UNCHANGED staging
          /\ Goto(b, "undo")
  /\ UNCHANGED <<blob, backups, now, dead, work>>

\* _complete_stage_token(staging_dir) == token of this build.
OwnGeneration(b) == /\ staging # None
                    /\ staging.mark = None
                    /\ staging.token = [by |-> b, written |-> TRUE]

-----------------------------------------------------------------------------
(* publish_blob_sources.  A failure of it does not fail the build. *)

\* The token is checked and the files are copied to a candidate directory.
Copy(b) ==
  /\ At(b, "publish")
  /\ IF OwnGeneration(b)
     THEN /\ work' = [work EXCEPT ![b] = staging.files]
          /\ Goto(b, "recheck")
     ELSE /\ UNCHANGED work
          /\ Goto(b, "done")
  /\ UNCHANGED <<cacheVars, dead>>

DropCandidate(b) == work' = [work EXCEPT ![b] = None]

\* Mutant: a copy that fails half-way is taken for complete.
PartialCopyKept(b) ==
  /\ Fallible("rename") /\ At(b, "publish") /\ OwnGeneration(b)
  /\ work' = [work EXCEPT ![b] = [staging.files EXCEPT ![2] = None]]
  /\ Goto(b, "recheck")
  /\ UNCHANGED <<cacheVars, dead>>

CopyFails(b) ==
  /\ Fallible("rename") /\ At(b, "publish")
  /\ Goto(b, "done")
  /\ UNCHANGED <<cacheVars, dead, work>>

Recheck(b) ==
  /\ At(b, "recheck")
  /\ IF OwnGeneration(b) THEN Goto(b, "backup") /\ UNCHANGED work
                         ELSE Goto(b, "done") /\ DropCandidate(b)
  /\ UNCHANGED <<cacheVars, dead>>

\* Mutant: the published snapshot is removed, not renamed.
BackupByRemoval(b) ==
  /\ At(b, "backup")
  /\ blob' = None
  /\ Goto(b, "swap")
  /\ UNCHANGED <<staging, backups, now, dead, work>>

\* The published snapshot is renamed away, if there is one.
Backup(b) ==
  /\ At(b, "backup")
  /\ \/ /\ blob = None
        /\ Goto(b, "swap")
        /\ UNCHANGED <<blob, backups, work>>
     \/ /\ blob # None
        /\ backups' = backups \cup
             {[owner |-> b, files |-> blob.files, mtime |-> blob.mtime]}
        /\ blob' = None
        /\ Goto(b, "swap")
        /\ UNCHANGED work
     \/ /\ blob # None /\ Fallible("rename")
        /\ Goto(b, "done")
        /\ DropCandidate(b)
        /\ UNCHANGED <<blob, backups>>
  /\ UNCHANGED <<staging, now, dead>>

\* The backup this build made in this publication: earlier builds of the same
\* process are other builds.
Own(b) == {k \in backups : k.owner = b}

\* The candidate is renamed to blob, unless a peer has put its own there.
Swap(b) ==
  /\ At(b, "swap")
  /\ \/ /\ blob = None
        /\ blob' = [files |-> work[b], mtime |-> now + 1]
        /\ now' = now + 1
        /\ Goto(b, "reap1")
     \/ /\ blob # None \/ Fallible("rename")
        /\ Goto(b, "rollback")
        /\ UNCHANGED <<blob, now>>
  /\ DropCandidate(b)
  /\ UNCHANGED <<staging, backups, dead>>

\* Mutant: the backup is removed also when it could not be renamed back.
RollbackNoRetain(b) ==
  /\ At(b, "rollback")
  /\ \/ /\ Own(b) = {} \/ blob # None \/ Fallible("rename")
        /\ UNCHANGED <<blob, backups>>
        /\ Goto(b, "reap1")
     \/ /\ Own(b) # {} /\ blob = None
        /\ \E k \in Own(b) : /\ blob' = [files |-> k.files, mtime |-> k.mtime]
                             /\ backups' = backups \ {k}
        /\ Goto(b, "done")
  /\ UNCHANGED <<staging, now, dead, work>>

\* After a failed swap the backup is renamed back.  When that fails too, it is
\* retained; when a peer's snapshot is there, it is removed.
Rollback(b) ==
  /\ At(b, "rollback")
  /\ \/ /\ Own(b) = {} \/ blob # None
        /\ UNCHANGED <<blob, backups>>
        /\ Goto(b, "reap1")
     \/ /\ Own(b) # {} /\ blob = None
        /\ \E k \in Own(b) : /\ blob' = [files |-> k.files, mtime |-> k.mtime]
                             /\ backups' = backups \ {k}
        /\ Goto(b, "done")
     \/ /\ Own(b) # {} /\ blob = None /\ Fallible("rename")
        /\ UNCHANGED <<blob, backups>>
        /\ Goto(b, "done")
  /\ UNCHANGED <<staging, now, dead, work>>

\* finally: the backup is removed, file by file.
Reap(b) ==
  /\ pc[b] \in {"reap1", "reap2"}
  /\ \/ /\ At(b, "reap1") /\ Own(b) # {}
        /\ \E k \in Own(b) : backups' = (backups \ {k}) \cup {HalfRemoved(k)}
        /\ now' = now + 1
        /\ Goto(b, "reap2")
     \/ /\ At(b, "reap1") /\ Own(b) = {}
        /\ Goto(b, "done")
        /\ UNCHANGED <<backups, now>>
     \/ /\ At(b, "reap2")
        /\ \/ backups' = backups \ Own(b)
           \/ Fallible("rmtree") /\ UNCHANGED backups
        /\ Goto(b, "done")
        /\ UNCHANGED now
  /\ UNCHANGED <<staging, blob, dead, work>>

Stage(b) == \/ Recover(b) \/ ReapBegin(b) \/ ReapEnd(b) \/ CleanedUp(b) \/ Check(b)
            \/ Discard(b) \/ Refill(b) \/ Mark(b) \/ WriteMark(b) \/ Unmark(b)
            \/ Generate(b) \/ Verify(b) \/ Commit(b)

Publish(b) == \/ Copy(b) \/ CopyFails(b) \/ Recheck(b) \/ Backup(b)
              \/ Swap(b) \/ Rollback(b) \/ Reap(b)

StagePlaces == {"clear", "recover", "cleanup", "check", "discard", "refill", "mark",
                "write", "unmark", "gen1", "gen2", "verify", "commit", "undo", "undofill"}
PublishPlaces == {"publish", "recheck", "backup", "swap", "rollback", "reap1", "reap2"}
=============================================================================
