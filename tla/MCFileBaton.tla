---------------------------- MODULE MCFileBaton ----------------------------
(***************************************************************************)
(* Instances of FileBaton for TLC: four processes are the fewest in which  *)
(* a dead builder's lock is broken by one waiter, taken anew by another    *)
(* and judged by a third.                                                  *)
(***************************************************************************)
EXTENDS FileBaton

CONSTANTS p1, p2, p3, p4

OneHost == [p \in Procs |-> "a"]
\* p1 builds on one machine of a shared file system, the others on another one.
TwoHosts == [p \in Procs |-> IF p = p1 THEN "b" ELSE "a"]

\* One caller asked for its own build after waiting, the others did not.
OneRebuilder == {p1}
=============================================================================
