----------------------------- MODULE Broadcast -----------------------------
(***************************************************************************)
(* What broadcasting objects to a group promises: every reader receives    *)
(* the messages in the order they were sent, none twice and none invented. *)
(* A strict reader misses none; for the others a gap is allowed, since     *)
(* nothing makes their writer wait.  Messages are the numbers 1, 2, ...    *)
(* ShmBroadcast implements it with a shared ring buffer and sockets.       *)
(***************************************************************************)
EXTENDS Naturals, Sequences

CONSTANTS Readers, Strict   \* Strict: the readers that may not miss a message

VARIABLES sent,       \* how many messages have been sent
          delivered   \* what each reader has received, in order

Init == sent = 0 /\ delivered = [r \in Readers |-> <<>>]

Send == sent' = sent + 1 /\ UNCHANGED delivered

LastOf(r) == IF delivered[r] = <<>> THEN 0 ELSE delivered[r][Len(delivered[r])]

Deliver(r) ==
  /\ \E m \in (LastOf(r) + 1)..sent :
       /\ r \in Strict => m = LastOf(r) + 1
       /\ delivered' = [delivered EXCEPT ![r] = Append(@, m)]
  /\ UNCHANGED sent

Next == Send \/ \E r \in Readers : Deliver(r)

Spec == Init /\ [][Next]_<<sent, delivered>>
=============================================================================
