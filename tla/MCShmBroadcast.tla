-------------------------- MODULE MCShmBroadcast --------------------------
(* Instances of ShmBroadcast: what may go wrong in each of them. *)
EXTENDS ShmBroadcast

\* What the queue hides from its users.
Tolerated == {"writeTimeout", "readTimeout", "unpickle", "close"}

\* The collective calls are repeated after a timeout.
Retried == {"writeTimeout", "readTimeout"}
=============================================================================
