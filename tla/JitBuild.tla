------------------------------ MODULE JitBuild ------------------------------
(***************************************************************************)
(* build_module of aiter/jit/core.py, over BlobCache: code generation,     *)
(* compilation, installation of the binary, publication of the compiled-kid*)
(* sidecar with its receipt (module_deepgemm_opus), publication of the     *)
(* sources.  File 2 of a tree stands for the generated sidecar.            *)
(*                                                                         *)
(* With Overlap empty a build starts when no live build is in MainFunc, as *)
(* FileBaton promises.  A build may also start while the others are at the *)
(* places in Overlap: the lock was lost, and the generation tokens are     *)
(* there to detect it.  The baton inside _jit_compile is not lost.         *)
(***************************************************************************)
EXTENDS BlobCache

CONSTANTS Overlap,   \* the places of a running build where another may start
          Rebuild    \* Rebuild[b]: AITER_REBUILD in build b: 0, 1 or 2

VARIABLES
  target,    \* the linked binary in the build directory: the files it was built of
  artifact,  \* the installed binary: who installed this inode, and of what files
  sidecar,   \* the generation whose kid list is the canonical sidecar
  receipt,   \* the receipt next to it: the inode and the sidecar it certifies
  kids,      \* the sidecar each build has snapshotted in memory
  published, \* history: the generation of the last successful swap
  torn       \* history: a clear_build was cut short and left something, and no
             \* publication has since left only its own snapshots

buildVars == <<target, artifact, sidecar, receipt, kids, published, torn>>
vars == <<staging, blob, backups, now, dead, pc, work,
          target, artifact, sidecar, receipt, kids, published, torn>>

Ended == {"done", "failed", "dead"}
Running(b) == pc[b] \notin Ended \cup {"idle"}
BuildPlaces == {"staged", "snapshot", "precompile", "compile", "link", "compiled", "copy",
                "validate", "replace", "identity", "sidecar", "receipt"}
Places == {"idle"} \cup StagePlaces \cup BuildPlaces \cup PublishPlaces \cup Ended

ASSUME JitBuildAssumption ==
  /\ Overlap \subseteq Places
  /\ Rebuild \in [Builds -> 0..2]
  \* A clear_build under a lost lock, which removes what its peers are working on
  \* and the baton of their compilation, is left out.
  /\ (\E b \in Builds : Rebuild[b] = 1) => Overlap = {}

TypeOK ==
  /\ CacheTypeOK
  /\ pc \in [Builds -> Places]
  /\ target \in Contents \cup {None}
  /\ artifact \in [inode : Builds, files : Contents] \cup {None}
  /\ sidecar \in Builds \cup {None}
  /\ receipt \in [inode : Builds, kids : Builds \cup {None}] \cup {None}
  /\ kids \in [Builds -> Builds \cup {None}]
  /\ published \in Builds \cup {None}
  /\ torn \in BOOLEAN

Init ==
  /\ CacheInit
  /\ pc = [b \in Builds |-> "idle"]
  /\ target = None
  /\ artifact = None
  /\ sidecar = None
  /\ receipt = None
  /\ kids = [b \in Builds |-> None]
  /\ published = None
  /\ torn = FALSE

-----------------------------------------------------------------------------
\* MainFunc starts with what AITER_REBUILD asks for: 1 and 2 remove the binary, 1
\* also the whole build tree; sidecar and receipt lie outside that tree.  Copying
\* the sources and choosing the compiler flags is left out.
Begin(b) ==
  /\ At(b, "idle") /\ Alive(b)
  /\ \A c \in Builds : Running(c) => pc[c] \in Overlap /\ Proc[c] # Proc[b]
  /\ artifact' \in IF Rebuild[b] = 0 THEN {artifact}
                   ELSE {None} \cup (IF Fallible("rmtree") THEN {artifact} ELSE {})
  /\ Goto(b, IF Rebuild[b] = 1 THEN "clear" ELSE "recover")
  /\ UNCHANGED <<cacheVars, dead, work, target, sidecar, receipt, kids, published, torn>>

\* blob.staging without one of its markers or files, or at last without itself.
LessOne(tree) ==
  IF tree = Tree(Empty) THEN {None}
  ELSE ({[tree EXCEPT !.mark = None], [tree EXCEPT !.token = None]}
          \cup {[tree EXCEPT !.files[i] = None] : i \in Files}) \ {tree}

\* clear_build: one removal of its rmtree, in whatever order the directories list
\* their entries.
Clear(b) ==
  /\ At(b, "clear")
  /\ \/ /\ staging # None
        /\ staging' \in LessOne(staging)
        /\ UNCHANGED <<blob, backups, now, target>>
     \/ /\ blob # None
        /\ blob' = IF blob.files[1] # None THEN HalfRemoved(blob) ELSE None
        /\ now' = now + 1
        /\ UNCHANGED <<staging, backups, target>>
     \/ /\ \E k \in backups : backups' = (backups \ {k}) \cup
             (IF k.files[1] # None THEN {HalfRemoved(k)} ELSE {})
        /\ now' = now + 1
        /\ UNCHANGED <<staging, blob, target>>
     \/ /\ target # None
        /\ target' = None
        /\ UNCHANGED cacheVars
  /\ published' = IF blob' = blob /\ backups' = backups THEN published ELSE None
  /\ torn' = (torn \/ target' = target)
  /\ UNCHANGED <<dead, pc, work, artifact, sidecar, receipt, kids>>

TreeCleared == staging = None /\ blob = None /\ backups = {} /\ target = None

\* Nothing is left, or only what rmtree could not remove.
Cleared(b) ==
  /\ At(b, "clear")
  /\ TreeCleared \/ Fallible("rmtree")
  /\ torn' = (torn /\ ~TreeCleared)
  /\ Goto(b, "recover")
  /\ UNCHANGED <<cacheVars, dead, work, target, artifact, sidecar, receipt, kids,
                 published>>

\* require_blob_generation, where the build reads its token again.
Require(b, here, next) ==
  /\ At(b, here)
  /\ Goto(b, IF OwnGeneration(b) THEN next ELSE "failed")
  /\ UNCHANGED <<cacheVars, dead, work, buildVars>>

\* A file of the working tree can be opened.
Readable(i) == staging # None /\ staging.files[i] # None

\* snapshot_compiled_kids, from the staging tree by path.
SnapshotKids(b) ==
  /\ At(b, "snapshot")
  /\ \/ /\ Readable(2)
        /\ kids' = [kids EXCEPT ![b] = staging.files[2]]
        /\ Goto(b, "precompile")
     \/ /\ ~Readable(2)
        /\ UNCHANGED kids
        /\ Goto(b, "failed")
  /\ UNCHANGED <<cacheVars, dead, work, target, artifact, sidecar, receipt, published, torn>>

CompileFails(b) ==
  /\ Goto(b, "failed")
  /\ DropCandidate(b)
  /\ UNCHANGED target

\* _jit_compile, in the shared build directory, holds a FileBaton of its own; who
\* has waited for it compiles too.  The sources are read one after the other ...
Compile(b) ==
  /\ At(b, "compile")
  /\ \A c \in Builds : ~At(c, "link")
  /\ \/ /\ Readable(1)
        /\ work' = [work EXCEPT ![b] = [Empty EXCEPT ![1] = staging.files[1]]]
        /\ Goto(b, "link")
        /\ UNCHANGED target
     \/ /\ ~Readable(1)
        /\ CompileFails(b)
  /\ UNCHANGED <<cacheVars, dead, artifact, sidecar, receipt, kids, published, torn>>

\* ... and linked.
Link(b) ==
  /\ At(b, "link")
  /\ \/ /\ Readable(2)
        /\ target' = [work[b] EXCEPT ![2] = staging.files[2]]
        /\ DropCandidate(b)
        /\ Goto(b, "compiled")
     \/ /\ ~Readable(2) \/ Fallible("compiler")
        /\ CompileFails(b)
  /\ UNCHANGED <<cacheVars, dead, artifact, sidecar, receipt, kids, published, torn>>

\* atomic_copy: the linked binary is copied to a private temporary file ...
CopyBinary(b) ==
  /\ At(b, "copy")
  /\ \/ /\ target # None
        /\ work' = [work EXCEPT ![b] = target]
        /\ Goto(b, "validate")
     \/ /\ target = None \/ Fallible("rename")
        /\ UNCHANGED work
        /\ Goto(b, "failed")
  /\ UNCHANGED <<cacheVars, dead, buildVars>>

\* Mutant: the generation is validated before the copy only.
ValidateEarlier(b) ==
  /\ At(b, "validate")
  /\ Goto(b, "replace")
  /\ UNCHANGED <<cacheVars, dead, work, buildVars>>

\* ... the generation is validated once more ...
Validate(b) == Require(b, "validate", "replace")

\* ... and the file replaces the installed binary.
Replace(b) ==
  /\ At(b, "replace")
  /\ \/ /\ artifact' = [inode |-> b, files |-> work[b]]
        /\ Goto(b, "identity")
     \/ /\ Fallible("rename")
        /\ UNCHANGED artifact
        /\ Goto(b, "failed")
  /\ DropCandidate(b)
  /\ UNCHANGED <<cacheVars, dead, target, sidecar, receipt, kids, published, torn>>

-----------------------------------------------------------------------------
(* publish_compiled_kids: best effort, whatever fails the sources are next *)

\* A binary that a peer has replaced meanwhile is not certified.
Identify(b) ==
  /\ At(b, "identity")
  /\ Goto(b, IF artifact # None /\ artifact.inode = b THEN "sidecar" ELSE "publish")
  /\ UNCHANGED <<cacheVars, dead, work, buildVars>>

PutSidecar(b) ==
  /\ At(b, "sidecar")
  /\ \/ /\ sidecar' = kids[b]
        /\ Goto(b, "receipt")
     \/ /\ Fallible("metadata")
        /\ UNCHANGED sidecar
        /\ Goto(b, "publish")
  /\ UNCHANGED <<cacheVars, dead, work, target, artifact, receipt, kids, published, torn>>

\* Mutant: the receipt binds the binary that is installed by then.
ReceiptOfPath(b) ==
  /\ At(b, "receipt")
  /\ \/ receipt' = [inode |-> IF artifact = None THEN b ELSE artifact.inode,
                    kids |-> kids[b]]
     \/ Fallible("metadata") /\ UNCHANGED receipt
  /\ Goto(b, "publish")
  /\ UNCHANGED <<cacheVars, dead, work, target, artifact, sidecar, kids, published, torn>>

\* The receipt binds the inode this build installed to the list it put.
PutReceipt(b) ==
  /\ At(b, "receipt")
  /\ \/ receipt' = [inode |-> b, kids |-> kids[b]]
     \/ Fallible("metadata") /\ UNCHANGED receipt
  /\ Goto(b, "publish")
  /\ UNCHANGED <<cacheVars, dead, work, target, artifact, sidecar, kids, published, torn>>

-----------------------------------------------------------------------------
\* The process of a build, or of builds to come, is killed.
Crash(p) ==
  /\ Fallible("crash") /\ p \in Procs \ dead
  /\ dead' = dead \cup {p}
  /\ pc' = [b \in Builds |-> IF Proc[b] = p /\ pc[b] \notin Ended
                             THEN "dead" ELSE pc[b]]
  /\ work' = [b \in Builds |-> IF Proc[b] = p THEN None ELSE work[b]]
  /\ UNCHANGED <<cacheVars, buildVars>>

\* What the last publication is, and whether it has made up for a cut clear_build.
Remember(b) ==
  IF At(b, "swap") /\ blob' # blob
  THEN published' = b /\ torn' = (torn /\ ~(backups \subseteq Own(b)))
  ELSE UNCHANGED <<published, torn>>

Cache(b) == /\ Stage(b) \/ Publish(b)
            /\ Remember(b)
            /\ UNCHANGED <<target, artifact, sidecar, receipt, kids>>

Build(b) == \/ Begin(b) \/ Clear(b) \/ Cleared(b)
            \/ Require(b, "staged", "snapshot")
            \/ SnapshotKids(b)
            \/ Require(b, "precompile", "compile")
            \/ Compile(b) \/ Link(b)
            \/ Require(b, "compiled", "copy")
            \/ CopyBinary(b) \/ Validate(b) \/ Replace(b)
            \/ Identify(b) \/ PutSidecar(b) \/ PutReceipt(b)

Next == \/ \E b \in Builds : Cache(b) \/ Build(b)
        \/ \E p \in Procs : Crash(p)

Spec == Init /\ [][Next]_vars

-----------------------------------------------------------------------------
(* Properties *)

\* The installed binary was built of one generation, that of the build which
\* installed it, even when builders overlap (validate_generation, atomic_copy).
ArtifactIsOwnGeneration ==
  artifact # None => artifact.files = [i \in Files |-> artifact.inode]

\* What compiled_kids_are_current trusts: the receipt matches the installed inode
\* and the sidecar.
ReceiptValid == /\ artifact # None /\ receipt # None
                /\ receipt.inode = artifact.inode
                /\ receipt.kids = sidecar

\* Then the sidecar lists the kids of that very binary, whoever else has written
\* sidecar, receipt or binary, or failed half-way (publish_compiled_kids).
ReceiptHonest ==
  ReceiptValid => \A i \in Files : artifact.files[i] = sidecar

\* The published snapshot is never a mixture of generations, and it is a complete
\* one, never a partial tree or what a removal left of a backup, unless a clear_build
\* was cut short: half of a blob then counts as published (clear_build, Recover).
SnapshotWhole ==
  blob # None => OneGeneration(blob.files) /\ (torn \/ Whole(blob.files))

\* Once sources are published some complete snapshot stays on disk, in blob or in
\* a backup, whatever calls fail and whoever is killed.
SnapshotKept ==
  published # None /\ ~torn => \/ blob # None /\ Whole(blob.files)
                               \/ \E k \in backups : Whole(k.files)

\* With the lock and crashes only, it is the last published one: in blob, or in
\* the backup that the next build will recover.
SnapshotIsLatest ==
  published # None =>
    \E snapshot \in IF blob = None THEN {k \in backups : k = Newest(backups)} ELSE {blob} :
      snapshot.files = [i \in Files |-> published]

\* A working tree without an incomplete marker is one complete generation or the
\* empty start, so the next build may build upon it (stage_blob_sources), unless a
\* clear_build was cut short.
UnmarkedStagingWhole ==
  staging # None /\ staging.mark = None => \/ staging.files = Empty
                                           \/ Whole(staging.files)
                                           \/ torn

\* Whatever a killed build leaves behind, at any point, the builds after it go
\* through: with the lock and crashes only, none fails.
SurvivorsSucceed == \A b \in Builds : pc[b] # "failed"
=============================================================================
