----------------------------- MODULE FileBaton -----------------------------
(***************************************************************************)
(* aiter/jit/utils/file_baton.py (FileBaton) driven by mp_lock of          *)
(* aiter/jit/core.py.  Each member of Procs is a process making one call   *)
(* of mp_lock on the same lock path.  One action is one system call, for a *)
(* waiter may be overtaken between any two of them: it looks at the path,  *)
(* reads the stamp, probes the pid, looks at the path again, removes it.   *)
(*                                                                         *)
(* Faults names what the environment may do in a run:                      *)
(*   crash       a process is killed, but not while it holds .steal        *)
(*   stealCrash  a process is killed while it holds .steal                 *)
(*   raise       MainFunc raises                                           *)
(*   stampFails  writing the stamp fails (OSError, swallowed by the code)  *)
(*   stall       more than the grace period passes inside a short window   *)
(*   probeExit   a process exits between a .steal holder's reading of its  *)
(*               stamp and the probe of its pid, its lock already gone     *)
(***************************************************************************)
CONSTANTS Procs,            \* the processes that call mp_lock
          None,             \* no process
          Host,             \* Host[p]: the machine p runs on
          BuildAfterWait,   \* the callers that pass build_after_wait=True
          Faults            \* the environment faults of this instance

FaultNames ==
  {"crash", "stealCrash", "raise", "stampFails", "stall", "probeExit"}

ASSUME FileBatonAssumption ==
  /\ None \notin Procs
  /\ DOMAIN Host = Procs
  /\ BuildAfterWait \subseteq Procs
  /\ Faults \subseteq FaultNames

VARIABLES
  creator,    \* who created the file now at the lock path; None: no file
  stamped,    \* it carries its creator's pid and host
  aged,       \* its mtime is older than stale_grace_seconds
  stealer,    \* who created the file now at the .steal path
  pc,         \* where each process is
  seen,       \* the pid each process has read and not yet probed
  built       \* history: some MainFunc has returned

file == <<creator, stamped, aged>>
vars == <<creator, stamped, aged, stealer, pc, seen, built>>

Holding == {"stamp", "main", "release"}   \* between try_acquire and release
Waiting == {"wait", "read", "probe", "age", "open", "recheck", "remove",
            "broke", "kept"}              \* inside wait()
Stealing == {"recheck", "remove", "broke", "kept"}
Ended == {"built", "skipped"}
Places == {"try", "dead"} \cup Holding \cup Waiting \cup Ended

\* The types; a missing lock file has neither stamp nor mtime; and .steal belongs
\* to a process inside _try_break_stale, or to one that died there.
TypeOK ==
  /\ creator \in Procs \cup {None}
  /\ stamped \in BOOLEAN
  /\ aged \in BOOLEAN
  /\ stealer \in Procs \cup {None}
  /\ pc \in [Procs -> Places]
  /\ seen \in [Procs -> Procs \cup {None}]
  /\ built \in BOOLEAN
  /\ creator = None => ~stamped /\ ~aged
  /\ stealer # None => pc[stealer] \in Stealing \cup {"read", "probe", "age", "dead"}

Init ==
  /\ creator = None
  /\ stamped = FALSE
  /\ aged = FALSE
  /\ stealer = None
  /\ pc = [p \in Procs |-> "try"]
  /\ seen = [p \in Procs |-> None]
  /\ built = FALSE

At(p, place) == pc[p] = place
Alive == {p \in Procs : pc[p] # "dead"}
Goto(p, place) == pc' = [pc EXCEPT ![p] = place]

-----------------------------------------------------------------------------
(* try_acquire, MainFunc and release *)

\* os.open(O_CREAT | O_EXCL) succeeds: the file exists and is still empty.
TryNew(p) ==
  /\ At(p, "try") /\ creator = None
  /\ creator' = p /\ stamped' = FALSE /\ aged' = FALSE
  /\ Goto(p, "stamp")
  /\ UNCHANGED <<stealer, seen, built>>

\* It fails with FileExistsError and mp_lock turns to wait().
TryBusy(p) ==
  /\ At(p, "try") /\ creator # None
  /\ Goto(p, "wait")
  /\ UNCHANGED <<file, stealer, seen, built>>

\* The write goes to p's own file descriptor: it reaches the file at the lock
\* path only if that still is the file p created.  It renews the mtime.
Stamp(p) ==
  /\ At(p, "stamp")
  /\ stamped' = (stamped \/ creator = p)
  /\ aged' = (aged /\ creator # p)
  /\ Goto(p, "main")
  /\ UNCHANGED <<creator, stealer, seen, built>>

StampFails(p) ==
  /\ "stampFails" \in Faults /\ At(p, "stamp")
  /\ Goto(p, "main")
  /\ UNCHANGED <<file, stealer, seen, built>>

MainReturns(p) ==
  /\ At(p, "main")
  /\ built' = TRUE
  /\ Goto(p, "release")
  /\ UNCHANGED <<file, stealer, seen>>

\* The finally clause releases the baton all the same.
MainRaises(p) ==
  /\ "raise" \in Faults /\ At(p, "main")
  /\ Goto(p, "release")
  /\ UNCHANGED <<file, stealer, seen, built>>

\* os.remove by path: whoever created the file that is there now.
Release(p) ==
  /\ At(p, "release")
  /\ creator' = None /\ stamped' = FALSE /\ aged' = FALSE
  /\ Goto(p, "built")
  /\ UNCHANGED <<stealer, seen, built>>

-----------------------------------------------------------------------------
(* wait: look, judge, break or sleep *)

\* The path is gone: wait() returns True.
WaitOver(p) ==
  /\ At(p, "wait") /\ creator = None
  /\ Goto(p, IF p \in BuildAfterWait THEN "try" ELSE "skipped")
  /\ UNCHANGED <<file, stealer, seen, built>>

Look(p) ==
  /\ At(p, "wait") /\ creator # None
  /\ Goto(p, "read")
  /\ UNCHANGED <<file, stealer, seen, built>>

\* Where _is_stale leads: outside the .steal lock to opening it or to the next
\* round of the loop, under it to the removal or to giving .steal back.
StaleGoto(p) == Goto(p, IF stealer = p THEN "remove" ELSE "open")
FreshGoto(p) == Goto(p, IF stealer = p THEN "kept" ELSE "wait")

\* Mutant: the host line is read but not compared.
AnyHostCheckable(p, q) == TRUE

\* A lock of another machine is taken as fresh: its pid means nothing here.
CheckableHere(p, q) == Host[q] = Host[p]

\* _read_owner on a stamped lock.
ReadStamp(p) ==
  /\ At(p, "read") /\ creator # None /\ stamped
  /\ seen' = [seen EXCEPT ![p] = creator]
  /\ IF CheckableHere(p, creator) THEN Goto(p, "probe") ELSE FreshGoto(p)
  /\ UNCHANGED <<file, stealer, built>>

\* _read_owner finds no file or no stamp: the age decides.
ReadNoStamp(p) ==
  /\ At(p, "read") /\ (creator = None \/ ~stamped)
  /\ Goto(p, "age")
  /\ UNCHANGED <<file, stealer, seen, built>>

\* Mutant: any OSError of os.kill is taken for the one of another user's process.
PidAliveAlways(q) == TRUE

\* _pid_alive, os.kill(pid, 0).
PidAlive(q) == q \in Alive

Probe(p) ==
  /\ At(p, "probe")
  /\ IF PidAlive(seen[p]) THEN FreshGoto(p) ELSE StaleGoto(p)
  /\ seen' = [seen EXCEPT ![p] = None]
  /\ UNCHANGED <<file, stealer, built>>

\* Mutant: a file without a readable owner is taken as orphaned at once.
OrphanedAtOnce == creator # None

\* The age branch of _is_stale, on whatever file is there by now; a missing
\* file raises OSError in getmtime and is not stale.
OutlivedGrace == creator # None /\ aged

AgeCheck(p) ==
  /\ At(p, "age")
  /\ IF OutlivedGrace THEN StaleGoto(p) ELSE FreshGoto(p)
  /\ UNCHANGED <<file, stealer, seen, built>>

\* Mutant: .steal is opened without O_EXCL.
OpenStealShared(p) ==
  /\ At(p, "open")
  /\ stealer' = p
  /\ Goto(p, "recheck")
  /\ UNCHANGED <<file, seen, built>>

\* _try_break_stale takes the .steal lock, or finds it taken and gives up.
OpenSteal(p) ==
  /\ At(p, "open")
  /\ \/ stealer = None /\ stealer' = p /\ Goto(p, "recheck")
     \/ stealer # None /\ UNCHANGED stealer /\ Goto(p, "wait")
  /\ UNCHANGED <<file, seen, built>>

\* os.path.exists before the second _is_stale.
Recheck(p) ==
  /\ At(p, "recheck")
  /\ Goto(p, IF creator = None THEN "kept" ELSE "read")
  /\ UNCHANGED <<file, stealer, seen, built>>

\* The removal, again by path; a missing file is no error and counts as broken.
Remove(p) ==
  /\ At(p, "remove")
  /\ creator' = None /\ stamped' = FALSE /\ aged' = FALSE
  /\ Goto(p, "broke")
  /\ UNCHANGED <<stealer, seen, built>>

\* Mutant: only the path that broke the lock removes .steal again.
DropStealIfBroke(p) ==
  /\ pc[p] \in {"broke", "kept"}
  /\ stealer' = IF pc[p] = "broke" THEN None ELSE stealer
  /\ Goto(p, IF pc[p] = "broke" THEN "try" ELSE "wait")
  /\ UNCHANGED <<file, seen, built>>

\* finally: .steal goes away.  After a break wait() returns False and mp_lock
\* tries again; otherwise the waiter sleeps and looks again.
DropSteal(p) ==
  /\ pc[p] \in {"broke", "kept"}
  /\ stealer' = None
  /\ Goto(p, IF pc[p] = "broke" THEN "try" ELSE "wait")
  /\ UNCHANGED <<file, seen, built>>

-----------------------------------------------------------------------------
(* The environment: time, crashes, exits *)

\* A window the code takes to be far shorter than the grace period: from
\* creating the file to stamping it, and from reading a file to its mtime.
InShortWindow(p) == \/ At(p, "stamp")
                    \/ At(p, "age") /\ stamped

Tick ==
  /\ creator # None /\ ~aged
  /\ "stall" \in Faults \/ \A p \in Procs : ~InShortWindow(p)
  /\ aged' = TRUE
  /\ UNCHANGED <<creator, stamped, stealer, pc, seen, built>>

\* The .steal holder is about to probe p's pid though p's lock is gone.
ProbeInFlight(p) == \E q \in Procs : /\ stealer = q /\ At(q, "probe")
                                     /\ seen[q] = p /\ creator # p

Dies(p) ==
  /\ "probeExit" \in Faults \/ ~ProbeInFlight(p)
  /\ Goto(p, "dead")
  /\ seen' = [seen EXCEPT ![p] = None]
  /\ UNCHANGED <<file, stealer, built>>

Crash(p) ==
  /\ pc[p] \notin Ended \cup {"dead"}
  /\ (IF stealer = p THEN "stealCrash" ELSE "crash") \in Faults
  /\ Dies(p)

\* A process whose call is over goes on and exits some day, or does not.
Exit(p) == pc[p] \in Ended /\ Dies(p)

-----------------------------------------------------------------------------
Hold(p) == \/ TryNew(p) \/ Stamp(p) \/ StampFails(p)
           \/ MainReturns(p) \/ MainRaises(p) \/ Release(p)

Wait(p) == \/ TryBusy(p) \/ WaitOver(p) \/ Look(p)
           \/ ReadStamp(p) \/ ReadNoStamp(p) \/ Probe(p) \/ AgeCheck(p)
           \/ OpenSteal(p) \/ Recheck(p) \/ Remove(p) \/ DropSteal(p)

Next == Tick \/ \E p \in Procs : Hold(p) \/ Wait(p) \/ Crash(p) \/ Exit(p)

Spec == Init /\ [][Next]_vars

\* The kernel runs every live process, MainFunc ends (a compiler run does) and
\* time passes.  Nothing makes a process crash or exit.
Fairness == /\ WF_vars(Tick)
            /\ \A p \in Procs : WF_vars(Hold(p) \/ Wait(p))

FairSpec == Spec /\ Fairness

-----------------------------------------------------------------------------
(* Properties *)

\* mp_lock never runs two builders at once: not while a dead builder's lock is
\* being broken by several waiters, nor while one of them already took it anew
\* (FileBaton.try_acquire, _try_break_stale).
MutualExclusion ==
  \A p, q \in Procs : pc[p] \in Holding /\ pc[q] \in Holding => p = q

\* Only its creator or its creator's death removes a lock file: neither
\* release() nor a waiter's os.remove ever hits the file of a live builder.
LiveLockKept ==
  [][\A p \in Procs : creator = p /\ p \in Alive /\ creator' # p
                        => pc[p] = "release" /\ pc'[p] = "built"]_vars

\* A waiter about to remove a stamped lock is on the machine of its creator:
\* a builder on another host of a shared file system is never robbed, dead or
\* alive, whatever happened between the first look and the second (_is_stale).
RemoteLockKept ==
  \A p \in Procs : At(p, "remove") /\ creator # None /\ stamped
                     => Host[p] = Host[creator]

\* mp_lock skips MainFunc when wait() returns True ("its work is done",
\* file_baton.py:68): unless a process has been killed, or a builder has ended
\* without having built anything because its MainFunc raised, the work is done.
SkipMeansBuilt ==
  \A p \in Procs : pc[p] = "skipped" =>
    built \/ \E q \in Procs : pc[q] \in {"dead", "release", "built"}

\* No caller hangs: whoever calls mp_lock and stays alive returns, though
\* builders are killed at any point, before or after stamping their lock.
EveryLiveCallReturns ==
  \A p \in Procs : pc[p] = "try" ~> pc[p] \in Ended \cup {"dead"}

\* The lock file, its stamp and .steal implement the abstract baton.
Inside == {p \in Procs : pc[p] \in Holding}
Abstract == INSTANCE Baton WITH owner <- creator, inside <- Inside
ImplementsBaton == Abstract!Spec
=============================================================================
