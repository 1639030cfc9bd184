--------------------------- MODULE MCEmailOutbox ---------------------------
(* Instances of EmailOutbox for TLC. *)
EXTENDS EmailOutbox, TLC

CONSTANTS r1, r2, k1

\* Two calls with no key; two calls that share one.
NoKeys     == [r \in Rows |-> NoKey]
SharedKeys == [r \in Rows |-> k1]

WorkerSymmetry == Permutations(Workers)
=============================================================================
