----------------------------- MODULE MCSessions -----------------------------
(* Instances of Sessions for TLC. *)
EXTENDS Sessions, TLC

SessionsSymmetry ==
  Permutations(Requests) \cup Permutations(Tokens) \cup Permutations(Links)
=============================================================================
