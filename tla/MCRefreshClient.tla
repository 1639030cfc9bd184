--------------------------- MODULE MCRefreshClient ---------------------------
(* Two tabs of one browser; the calls are all of the first tab. *)
EXTENDS RefreshClient

CONSTANTS a, b

BothOfA == [c \in Calls |-> a]
=============================================================================
