------------------------- MODULE MCCustomAllReduce -------------------------
(* Sequences of calls that the kernels allow each other's scratch in.      *)
EXTENDS CustomAllReduce

Barriered == {"one", "two", "fused"}

\* The kernels that begin with a barrier after each other; the write mode after
\* one that leaves the scratch alone and after itself, and one of them after it;
\* LL; LL128 past the end of its epochs.
SafePlans ==
  Barriered \X Barriered
    \cup {<<"one", "write">>, <<"write", "write", "two">>,
          <<"ll", "ll", "ll">>, [k \in 1..6 |-> "ll128"]}

\* A small message, one that takes the two-stage kernel, and a small one again:
\* its LL kernel uses the first bank, which is where the chunks were kept.
SharedPlans == {<<"ll", "two", "ll">>}
=============================================================================
