------------------------------- MODULE Baton -------------------------------
(***************************************************************************)
(* What a build lock that survives crashes promises its users: one process *)
(* at a time is inside, it is the one that took the baton, only it gives   *)
(* the baton back, and somebody else may clear it only after it died       *)
(* inside.  FileBaton implements it with a lock file, a stamp and a .steal *)
(* file.                                                                   *)
(***************************************************************************)
CONSTANTS Procs, None

VARIABLES owner,   \* the process that took the baton last, or None
          inside   \* the processes that hold it and are alive

Init == owner = None /\ inside = {}

Take(p) == owner = None /\ owner' = p /\ inside' = inside \cup {p}

Give(p) == /\ p \in inside /\ owner = p
           /\ owner' = None
           /\ inside' = inside \ {p}

Die(p) == p \in inside /\ inside' = inside \ {p} /\ UNCHANGED owner

Break == /\ owner # None /\ owner \notin inside
         /\ owner' = None
         /\ UNCHANGED inside

Next == Break \/ \E p \in Procs : Take(p) \/ Give(p) \/ Die(p)

Spec == Init /\ [][Next]_<<owner, inside>>
=============================================================================
