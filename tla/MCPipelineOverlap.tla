-------------------------- MODULE MCPipelineOverlap --------------------------
(* Pipeline with overlapping transactions, and with one at a time. *)
EXTENDS Pipeline, TLC

VARIABLE alone   \* the behaviour has one transaction open at a time

OverlapInit == alone \in BOOLEAN /\ Init

\* Bound: all sessions are in a transaction only while one of them closes a job.
FullOnlyBesideClose ==
  (\A s \in Sessions : txn'[s] # NoTxn) => \E s \in Sessions : txn'[s].op \in {"close", "sweep"}

OverlapNext ==
  /\ Next
  /\ UNCHANGED alone
  /\ alone => \A s, t \in Sessions : s # t => txn'[s] = NoTxn \/ txn'[t] = NoTxn
  /\ FullOnlyBesideClose \/ alone

OverlapSpec == OverlapInit /\ [][OverlapNext]_<<vars, alone>>

OverlapSymmetry ==
  Permutations(Sessions) \cup Permutations(Applications)
    \cup Permutations(Jobs) \cup Permutations(Candidates)

\* "A candidate with even one application that is still active, recently
\* closed, or HIRED is preserved", and so is a tombstone (purge_expired_candidates),
\* if no other transaction comes between its read and its deletes.
PurgePreservesIfAlone == [][alone => PurgeSpares]_<<vars, alone>>
=============================================================================
