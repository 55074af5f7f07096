----------------------------- MODULE MCLamport -----------------------------
(* Lamport with every sequence of messages of one and two positions: a     *)
(* position that carries no data in one round does in another.             *)
EXTENDS Lamport

AllSizes == [Rounds -> 1..Lanes]
=============================================================================
