---------------------------- MODULE EmailPromise ----------------------------
(***************************************************************************)
(* What the outbox promises the services that call queue_email: a queued   *)
(* email belongs to a committed change and shares its dedup_key with no    *)
(* other; it reaches the mailbox at most once; and once it is given up it  *)
(* never does.                                                             *)
(***************************************************************************)
EXTENDS Naturals

CONSTANTS Emails, Key, NoKey

VARIABLES
  queued,   \* emails whose domain change has committed
  mailbox,  \* copies of each email the provider took
  givenUp   \* emails parked for good

vars == <<queued, mailbox, givenUp>>

Clash(e, f) == e # f /\ Key[e] # NoKey /\ Key[e] = Key[f]

Init ==
  /\ queued = {}
  /\ mailbox = [e \in Emails |-> 0]
  /\ givenUp = {}

Queue(e) ==
  /\ e \notin queued
  /\ \A f \in queued : ~Clash(e, f)
  /\ queued' = queued \cup {e}
  /\ UNCHANGED <<mailbox, givenUp>>

Pending(e) == e \in queued /\ mailbox[e] = 0 /\ e \notin givenUp

Deliver(e) ==
  /\ Pending(e)
  /\ mailbox' = [mailbox EXCEPT ![e] = 1]
  /\ UNCHANGED <<queued, givenUp>>

GiveUp(e) ==
  /\ Pending(e)
  /\ givenUp' = givenUp \cup {e}
  /\ UNCHANGED <<queued, mailbox>>

Next == \E e \in Emails : Queue(e) \/ Deliver(e) \/ GiveUp(e)

Spec == Init /\ [][Next]_vars
=============================================================================
