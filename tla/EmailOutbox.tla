---------------------------- MODULE EmailOutbox ----------------------------
(***************************************************************************)
(* The transactional email outbox: the producer (queue_email inside a      *)
(* domain transaction, the SQS nudge deferred past its commit), the SQS    *)
(* worker (claim, provider call, record), and the sweeper that re-nudges   *)
(* rows nothing has touched for a while.                                   *)
(*                                                                         *)
(* A row stands for the one call of queue_email that may create it.  SQS   *)
(* is at-least-once: copies of a message may be duplicated, reappear after *)
(* the visibility timeout while a worker still holds one, or be moved to   *)
(* the dead-letter queue.                                                  *)
(***************************************************************************)
EXTENDS Naturals, FiniteSets

CONSTANTS
  Rows,               \* calls of queue_email, named by the row they insert
  Workers,            \* worker processes
  DedupKey,           \* the dedup_key each call passes, or NoKey
  NoKey, NoRow,
  MaxSendAttempts,    \* MAX_SEND_ATTEMPTS
  SweepLimit,         \* LIMIT of the sweeper's query
  MaxCopies,          \* bound: live copies of one row's message
  FaultBudget,        \* bound: crashes, errors and SQS anomalies in total
  AmbiguousProvider   \* may the provider take a mail and report failure?

ASSUME MaxSendAttemptsAssumption == MaxSendAttempts \in Nat \ {0}
ASSUME BoundsAssumption == /\ SweepLimit \in Nat \ {0}
                           /\ MaxCopies \in Nat \ {0}
                           /\ FaultBudget \in Nat
ASSUME NoRowAssumption == NoRow \notin Rows
ASSUME ProviderAssumption == AmbiguousProvider \in BOOLEAN

VARIABLES
  request,    \* the producer's progress with each row
  status,     \* email_outbox.status; "none" until the row is committed
  attempts,   \* email_outbox.attempts
  older,      \* pairs <<r, s>>: updated_at of r is before that of s
  stale,      \* rows whose updated_at is behind sweep_cutoff()
  sqs,        \* visible copies of each row's nudge
  phase,      \* where each worker stands
  held,       \* the row its message names
  live,       \* its receipt handle still hides the message
  tries,      \* its snapshot of the row's attempts
  todo,       \* rows the running sweep has read and not yet enqueued
  accepted,   \* how often the provider took each mail (history)
  quota,      \* the email quota counter
  died,       \* rows whose worker died mid-send (history)
  unrecorded, \* rows whose outcome could not be written (history)
  faults      \* anomalies so far (bound)

rowVars    == <<status, attempts, older, stale>>
workerVars == <<phase, held, live, tries>>
history    == <<accepted, died, unrecorded>>
vars == <<request, rowVars, sqs, workerVars, todo, history, quota, faults>>

Requests  == {"idle", "open", "hook", "done", "deduped", "rolledback"}
Statuses  == {"none", "PENDING", "SENDING", "SENT", "FAILED"}
Terminal  == {"SENT", "FAILED"}
MidSend   == {"sending", "accepted", "rejected"}
Phases    == {"idle", "got", "ack", "nack"} \cup MidSend

TypeOK ==
  /\ request \in [Rows -> Requests]
  /\ status \in [Rows -> Statuses]
  /\ attempts \in [Rows -> Nat]
  /\ older \subseteq Rows \X Rows
  /\ stale \subseteq Rows
  /\ sqs \in [Rows -> Nat]
  /\ phase \in [Workers -> Phases]
  /\ held \in [Workers -> Rows \cup {NoRow}]
  /\ \A w \in Workers : held[w] = NoRow <=> phase[w] = "idle"
  /\ live \in [Workers -> BOOLEAN]
  /\ tries \in [Workers -> Nat]
  /\ todo \subseteq Rows
  /\ accepted \in [Rows -> Nat]
  /\ quota \in Nat
  /\ died \subseteq Rows
  /\ unrecorded \subseteq Rows
  /\ faults \in Nat

Init ==
  /\ request = [r \in Rows |-> "idle"]
  /\ status = [r \in Rows |-> "none"]
  /\ attempts = [r \in Rows |-> 0]
  /\ older = {}
  /\ stale = {}
  /\ sqs = [r \in Rows |-> 0]
  /\ phase = [w \in Workers |-> "idle"]
  /\ held = [w \in Workers |-> NoRow]
  /\ live = [w \in Workers |-> FALSE]
  /\ tries = [w \in Workers |-> 0]
  /\ todo = {}
  /\ accepted = [r \in Rows |-> 0]
  /\ quota = 0
  /\ died = {}
  /\ unrecorded = {}
  /\ faults = 0

----------------------------------------------------------------------------
(* Helpers. *)

\* A fault is taken from the budget.
Fault == faults < FaultBudget /\ faults' = faults + 1
NoFault == UNCHANGED faults

\* updated_at = _now(): r becomes the youngest row and is no longer stale.
Touch(r) ==
  /\ older' = {p \in older : r \notin {p[1], p[2]}}
                \cup {<<s, r>> : s \in {t \in Rows \ {r} : status[t] # "none"}}
  /\ stale' = stale \ {r}

SetStatus(r, s) == status' = [status EXCEPT ![r] = s] /\ Touch(r)

Live(r) == {w \in Workers : held[w] = r /\ live[w]}
RoomFor(r) == sqs[r] + Cardinality(Live(r)) < MaxCopies

GoTo(w, p) == phase' = [phase EXCEPT ![w] = p] /\ UNCHANGED <<held, live, tries>>

\* Mutant: the loop's message survives into its next turn.
ReleaseKeepsMessage(w) == GoTo(w, "idle")

\* The loop is done with its message.
Release(w) ==
  /\ phase' = [phase EXCEPT ![w] = "idle"]
  /\ held' = [held EXCEPT ![w] = NoRow]
  /\ live' = [live EXCEPT ![w] = FALSE]
  /\ tries' = [tries EXCEPT ![w] = 0]

SameKey(r, s) == DedupKey[r] # NoKey /\ DedupKey[r] = DedupKey[s]

Owner(w, r) == phase[w] \in MidSend /\ held[w] = r
\* Mutant: the sweeper looks only for rows that were never tried.
StaleUntried == {r \in stale : status[r] = "PENDING" /\ attempts[r] = 0}
StalePending == {r \in stale : status[r] = "PENDING"}

----------------------------------------------------------------------------
(* The producer: queue_email in the caller's transaction. *)

\* Mutant: the nudge is sent at once and not deferred past the commit.
InsertAndNudge(r) ==
  /\ request[r] = "idle"
  /\ request' = [request EXCEPT ![r] = "open"]
  /\ sqs' = [sqs EXCEPT ![r] = @ + 1]
  /\ UNCHANGED <<rowVars, workerVars, todo, history, quota, faults>>

\* Mutant: the insert looks for a committed row only and does not wait.
InsertNoWait(r) ==
  /\ request[r] = "idle"
  /\ request' = [request EXCEPT ![r] =
       IF \E s \in Rows \ {r} : SameKey(r, s) /\ status[s] # "none"
       THEN "deduped" ELSE "open"]
  /\ UNCHANGED <<rowVars, sqs, workerVars, todo, history, quota, faults>>

\* INSERT ... ON CONFLICT DO NOTHING waits for an open insert of the same
\* key; a committed one makes it return None, with nothing deferred.
Insert(r) ==
  /\ request[r] = "idle"
  /\ \A s \in Rows \ {r} : SameKey(r, s) => request[s] # "open"
  /\ request' = [request EXCEPT ![r] =
       IF \E s \in Rows \ {r} : SameKey(r, s) /\ status[s] # "none"
       THEN "deduped" ELSE "open"]
  /\ UNCHANGED <<rowVars, sqs, workerVars, todo, history, quota, faults>>

Commit(r) ==
  /\ request[r] = "open"
  /\ request' = [request EXCEPT ![r] = "hook"]
  /\ SetStatus(r, "PENDING")
  /\ UNCHANGED <<attempts, sqs, workerVars, todo, history, quota, faults>>

\* The domain change failed: the row and its deferred nudge go with it.
Rollback(r) ==
  /\ request[r] = "open"
  /\ request' = [request EXCEPT ![r] = "rolledback"]
  /\ UNCHANGED <<rowVars, sqs, workerVars, todo, history, quota, faults>>

\* The post-commit hook.
Nudge(r) ==
  /\ request[r] = "hook"
  /\ RoomFor(r)
  /\ request' = [request EXCEPT ![r] = "done"]
  /\ sqs' = [sqs EXCEPT ![r] = @ + 1]
  /\ UNCHANGED <<rowVars, workerVars, todo, history, quota, faults>>

\* The process dies before the hook, or the hook raises and is only logged.
NudgeLost(r) ==
  /\ request[r] = "hook"
  /\ Fault
  /\ request' = [request EXCEPT ![r] = "done"]
  /\ UNCHANGED <<rowVars, sqs, workerVars, todo, history, quota>>

----------------------------------------------------------------------------
(* SQS and the worker's loop around one message. *)

Receive(w, r) ==
  /\ phase[w] = "idle"
  /\ sqs[r] > 0
  /\ sqs' = [sqs EXCEPT ![r] = @ - 1]
  /\ phase' = [phase EXCEPT ![w] = "got"]
  /\ held' = [held EXCEPT ![w] = r]
  /\ live' = [live EXCEPT ![w] = TRUE]
  /\ UNCHANGED <<request, rowVars, tries, todo, history, quota, faults>>

\* A standard queue may deliver a message it has delivered before.
DuplicateDelivery(r) ==
  /\ \E w \in Workers : held[w] = r
  /\ RoomFor(r)
  /\ Fault
  /\ sqs' = [sqs EXCEPT ![r] = @ + 1]
  /\ UNCHANGED <<request, rowVars, workerVars, todo, history, quota>>

\* The visibility timeout runs out under a slow worker: the message is
\* visible again, or has used up maxReceiveCount and is dead-lettered.
VisibilityExpires(w) ==
  /\ phase[w] # "idle"
  /\ live[w]
  /\ Fault
  /\ live' = [live EXCEPT ![w] = FALSE]
  /\ \/ sqs' = [sqs EXCEPT ![held[w]] = @ + 1]
     \/ UNCHANGED sqs
  /\ UNCHANGED <<request, rowVars, phase, held, tries, todo, history, quota>>

\* delete_message; a stale receipt handle deletes nothing.
Ack(w) ==
  /\ phase[w] = "ack"
  /\ Release(w)
  /\ UNCHANGED <<request, rowVars, sqs, todo, history, quota, faults>>

\* Message w holds goes back to the queue once its visibility runs out.
Redeliver(w) ==
  sqs' = IF live[w] THEN [sqs EXCEPT ![held[w]] = @ + 1] ELSE sqs

\* Not deleted, because the task raised.
Nack(w) ==
  /\ phase[w] = "nack"
  /\ Redeliver(w)
  /\ Release(w)
  /\ UNCHANGED <<request, rowVars, todo, history, quota, faults>>

\* Not deleted, and already received maxReceiveCount times.
DeadLetter(w) ==
  /\ phase[w] = "nack"
  /\ Fault
  /\ Release(w)
  /\ UNCHANGED <<request, rowVars, sqs, todo, history, quota>>

\* delete_message raises; the loop logs it and moves on.
AckFails(w) ==
  /\ phase[w] = "ack"
  /\ Fault
  /\ GoTo(w, "nack")
  /\ UNCHANGED <<request, rowVars, sqs, todo, history, quota>>

\* Mutant: claim and send share a transaction, which a crash rolls back.
CrashUndoesClaim(w) ==
  /\ phase[w] # "idle"
  /\ Fault
  /\ Redeliver(w)
  /\ Release(w)
  /\ IF phase[w] \in MidSend THEN SetStatus(held[w], "PENDING")
                            ELSE UNCHANGED <<status, older, stale>>
  /\ UNCHANGED <<request, attempts, todo, history, quota>>

\* The worker process dies; another takes its place.
Crash(w) ==
  /\ phase[w] # "idle"
  /\ Fault
  /\ Redeliver(w)
  /\ Release(w)
  /\ died' = IF phase[w] \in MidSend THEN died \cup {held[w]} ELSE died
  /\ UNCHANGED <<request, rowVars, todo, accepted, unrecorded, quota>>

----------------------------------------------------------------------------
(* send_outbox_email_task. *)

ClaimFrom(w, claimable) ==
  LET r == held[w] IN
  /\ phase[w] = "got"
  /\ status[r] \in claimable
  /\ SetStatus(r, "SENDING")
  /\ attempts' = [attempts EXCEPT ![r] = @ + 1]
  /\ tries' = [tries EXCEPT ![w] = attempts[r] + 1]
  /\ phase' = [phase EXCEPT ![w] = "sending"]
  /\ UNCHANGED <<request, sqs, held, live, todo, history, quota, faults>>

\* Mutant: a row in SENDING is taken over.
ClaimUnfinished(w) == ClaimFrom(w, {"PENDING", "SENDING"})

\* Mutant: a row that was given up is tried again.
ClaimFailedToo(w) == ClaimFrom(w, {"PENDING", "FAILED"})

\* claim_for_send under the row lock, and its commit.
Claim(w) == ClaimFrom(w, {"PENDING"})

\* None: terminal, in flight, stuck or missing.  The message is deleted.
Refuse(w) ==
  /\ phase[w] = "got"
  /\ status[held[w]] # "PENDING"
  /\ GoTo(w, "ack")
  /\ UNCHANGED <<request, rowVars, sqs, todo, history, quota, faults>>

\* The claim's transaction fails and rolls back.
ClaimFails(w) ==
  /\ phase[w] = "got"
  /\ Fault
  /\ GoTo(w, "nack")
  /\ UNCHANGED <<request, rowVars, sqs, todo, history, quota>>

Deliver(r) == accepted' = [accepted EXCEPT ![r] = @ + 1]

\* Mutant: the quota is bumped on the provider's answer, outside mark_sent.
AcceptAndCount(w) ==
  /\ phase[w] = "sending"
  /\ Deliver(held[w])
  /\ quota' = quota + 1
  /\ GoTo(w, "accepted")
  /\ UNCHANGED <<request, rowVars, sqs, todo, died, unrecorded, faults>>

ProviderAccepts(w) ==
  /\ phase[w] = "sending"
  /\ Deliver(held[w])
  /\ GoTo(w, "accepted")
  /\ UNCHANGED <<request, rowVars, sqs, todo, died, unrecorded, quota, faults>>

ProviderRejects(w) ==
  /\ phase[w] = "sending"
  /\ GoTo(w, "rejected")
  /\ UNCHANGED <<request, rowVars, sqs, todo, history, quota, faults>>

\* The provider takes the mail and its answer is lost: send_email returns
\* False for any exception, a timeout after the data was accepted included.
ProviderAnswerLost(w) ==
  /\ AmbiguousProvider
  /\ phase[w] = "sending"
  /\ Fault
  /\ Deliver(held[w])
  /\ GoTo(w, "rejected")
  /\ UNCHANGED <<request, rowVars, sqs, todo, died, unrecorded, quota>>

\* Mutant: send_email's False is not looked at.
RecordSentAnyway(w) ==
  /\ phase[w] \in {"accepted", "rejected"}
  /\ SetStatus(held[w], "SENT")
  /\ quota' = quota + 1
  /\ GoTo(w, "ack")
  /\ UNCHANGED <<request, attempts, sqs, todo, history, faults>>

\* mark_sent, with the quota bump in the same transaction.
RecordSent(w) ==
  /\ phase[w] = "accepted"
  /\ SetStatus(held[w], "SENT")
  /\ quota' = quota + 1
  /\ GoTo(w, "ack")
  /\ UNCHANGED <<request, attempts, sqs, todo, history, faults>>

\* Mutant: one attempt too many.
RetryOnceMore(w) ==
  /\ phase[w] = "rejected"
  /\ tries[w] <= MaxSendAttempts
  /\ SetStatus(held[w], "PENDING")
  /\ GoTo(w, "nack")
  /\ UNCHANGED <<request, attempts, sqs, todo, history, quota, faults>>

\* Mutant: the task raises and leaves the row as it is.
RetryWithoutReset(w) ==
  /\ phase[w] = "rejected"
  /\ tries[w] < MaxSendAttempts
  /\ GoTo(w, "nack")
  /\ UNCHANGED <<request, rowVars, sqs, todo, history, quota, faults>>

\* mark_for_retry; the task raises.
RecordRetry(w) ==
  /\ phase[w] = "rejected"
  /\ tries[w] < MaxSendAttempts
  /\ SetStatus(held[w], "PENDING")
  /\ GoTo(w, "nack")
  /\ UNCHANGED <<request, attempts, sqs, todo, history, quota, faults>>

\* mark_failed; the task returns, so the message is deleted.
RecordFailed(w) ==
  /\ phase[w] = "rejected"
  /\ tries[w] >= MaxSendAttempts
  /\ SetStatus(held[w], "FAILED")
  /\ GoTo(w, "ack")
  /\ UNCHANGED <<request, attempts, sqs, todo, history, quota, faults>>

\* Mutant: an outcome that cannot be recorded parks the row in FAILED.
RecordFailsParks(w) ==
  /\ phase[w] \in {"accepted", "rejected"}
  /\ Fault
  /\ SetStatus(held[w], "FAILED")
  /\ GoTo(w, "nack")
  /\ UNCHANGED <<request, attempts, sqs, todo, history, quota>>

\* The transaction that records the outcome fails: the row stays SENDING.
RecordFails(w) ==
  /\ phase[w] \in {"accepted", "rejected"}
  /\ Fault
  /\ unrecorded' = unrecorded \cup {held[w]}
  /\ GoTo(w, "nack")
  /\ UNCHANGED <<request, rowVars, sqs, todo, accepted, died, quota>>

----------------------------------------------------------------------------
(* Time and the sweeper. *)

\* Time passes: rows fall behind the cutoff in the order of updated_at.  A
\* send in flight is over (its provider times out) long before that.
BecomeStale(r) ==
  /\ status[r] # "none"
  /\ r \notin stale
  /\ \A p \in older : p[2] = r => p[1] \in stale
  /\ \A w \in Workers : ~Owner(w, r)
  /\ stale' = stale \cup {r}
  /\ UNCHANGED <<request, status, attempts, older, sqs, workerVars, todo,
                 history, quota, faults>>

\* stale_pending_ids: the SweepLimit rows with the oldest updated_at.
OldestFirst(S) ==
  /\ S \subseteq StalePending
  /\ Cardinality(S) <= SweepLimit
  /\ S # StalePending => Cardinality(S) = SweepLimit
  /\ \A r \in S, s \in StalePending \ S : <<s, r>> \notin older

SweepStart ==
  /\ todo = {}
  /\ \E S \in SUBSET StalePending : OldestFirst(S) /\ todo' = S
  /\ UNCHANGED <<request, rowVars, sqs, workerVars, history, quota, faults>>

\* The enqueue loop, outside any transaction.
SweepSend(r) ==
  /\ r \in todo
  /\ RoomFor(r)
  /\ todo' = todo \ {r}
  /\ sqs' = [sqs EXCEPT ![r] = @ + 1]
  /\ UNCHANGED <<request, rowVars, workerVars, history, quota, faults>>

\* A failed enqueue, or a crash, abandons the rest of the pass.
SweepFails ==
  /\ todo # {}
  /\ Fault
  /\ todo' = {}
  /\ UNCHANGED <<request, rowVars, sqs, workerVars, history, quota>>

----------------------------------------------------------------------------
Produce(r) == Insert(r) \/ Commit(r) \/ Rollback(r) \/ Nudge(r) \/ NudgeLost(r)

WorkerStep(w) ==
  \/ Claim(w) \/ Refuse(w)
  \/ ProviderAccepts(w) \/ ProviderRejects(w)
  \/ RecordSent(w) \/ RecordRetry(w) \/ RecordFailed(w)
  \/ Ack(w) \/ Nack(w)

WorkerFault(w) ==
  \/ Crash(w) \/ VisibilityExpires(w) \/ DeadLetter(w) \/ AckFails(w)
  \/ ClaimFails(w) \/ RecordFails(w) \/ ProviderAnswerLost(w)

Next ==
  \/ \E r \in Rows : Produce(r) \/ DuplicateDelivery(r)
                       \/ BecomeStale(r) \/ SweepSend(r)
  \/ \E w \in Workers : WorkerStep(w) \/ WorkerFault(w)
                          \/ \E r \in Rows : Receive(w, r)
  \/ SweepStart
  \/ SweepFails

Spec == Init /\ [][Next]_vars

\* Workers, hooks, the clock and the scheduled sweeper keep running; nobody
\* has to ask for an email, and nothing has to fail.
Fairness ==
  /\ \A w \in Workers : WF_vars(WorkerStep(w))
  /\ \A r \in Rows : /\ WF_vars(\E w \in Workers : Receive(w, r))
                     /\ WF_vars(Nudge(r))
                     /\ WF_vars(Commit(r) \/ Rollback(r))
                     /\ WF_vars(BecomeStale(r))
                     /\ WF_vars(SweepSend(r))
  /\ WF_vars(SweepStart)

FairSpec == Spec /\ Fairness

----------------------------------------------------------------------------
(* Safety. *)

\* The recipient of a queued email gets it at most once, whatever SQS
\* redelivers and wherever a worker dies (claim_for_send's refusal of a
\* SENDING row).  It needs a provider whose answer is truthful.
AtMostOnce == \A r \in Rows : accepted[r] <= 1

\* Two calls of queue_email with one dedup_key never both reach a mailbox:
\* the second finds the first committed or waits for its transaction.
AtMostOncePerKey ==
  \A r, s \in Rows : r # s /\ SameKey(r, s) => accepted[r] = 0 \/ accepted[s] = 0

\* A worker in the middle of a send owns its row: the row is SENDING, nobody
\* else is sending it, and the attempts it snapshot are the row's own.  The
\* unconditional writes of mark_sent, mark_for_retry and mark_failed rest on it.
ExclusiveSend ==
  \A w \in Workers :
    phase[w] \in MidSend =>
      /\ status[held[w]] = "SENDING"
      /\ tries[w] = attempts[held[w]]
      /\ \A v \in Workers \ {w} : ~Owner(v, held[w])

\* No row is tried more than MAX_SEND_ATTEMPTS times, and one that is back
\* in PENDING has an attempt left, so no message finds a row it may not try.
AttemptsBounded ==
  \A r \in Rows : /\ attempts[r] <= MaxSendAttempts
                  /\ status[r] = "PENDING" => attempts[r] < MaxSendAttempts

\* What a terminal status says is true: SENT was taken by the provider, and
\* FAILED never was.
TerminalIsTruthful ==
  \A r \in Rows : /\ status[r] = "SENT" => accepted[r] > 0
                  /\ status[r] = "FAILED" => accepted[r] = 0

\* The quota counts exactly the SENT rows: the bump shares mark_sent's
\* transaction, so no crash separates them.
QuotaCountsSent == quota = Cardinality({r \in Rows : status[r] = "SENT"})

\* A message names a committed row: the nudge waits for the commit, so no
\* worker ever deletes a message because it came too early to see the row.
MessageNamesCommittedRow ==
  \A r \in Rows :
    sqs[r] > 0 \/ r \in todo \/ (\E w \in Workers : held[w] = r)
      => status[r] # "none"

\* A SENDING row that no worker is sending has a cause a human can look up:
\* its worker died, or the write of its outcome failed.
OrphanHasCause ==
  \A r \in Rows :
    status[r] = "SENDING" /\ (\A w \in Workers : ~Owner(w, r))
      => r \in died \cup unrecorded

\* The moves of the state machine in the header of email_outbox.py, and no
\* others: SENT and FAILED are final and nothing skips SENDING.
LegalMoves == {<<"none", "PENDING">>, <<"PENDING", "SENDING">>,
               <<"SENDING", "SENT">>, <<"SENDING", "PENDING">>,
               <<"SENDING", "FAILED">>}
StatusMoves ==
  [][\A r \in Rows : status'[r] # status[r] =>
       <<status[r], status'[r]>> \in LegalMoves]_status

\* The outbox implements what EmailPromise promises: a commit queues the
\* email, the provider's acceptance delivers it, mark_failed gives it up, and
\* every other step changes nothing a caller could see.
Promise == INSTANCE EmailPromise WITH
  Emails <- Rows,
  Key <- DedupKey,
  queued <- {r \in Rows : status[r] # "none"},
  mailbox <- accepted,
  givenUp <- {r \in Rows : status[r] = "FAILED"}
ImplementsPromise == Promise!Spec

----------------------------------------------------------------------------
(* Why the safety properties hold: an inductive invariant. *)

\* What a row's status and the phase of its sender say about the mailbox.
MailMatchesStatus ==
  /\ \A r \in Rows :
       /\ accepted[r] <= 1
       /\ status[r] \in {"none", "PENDING", "FAILED"} => accepted[r] = 0
       /\ status[r] = "SENT" => accepted[r] = 1
  /\ \A w \in Workers :
       /\ phase[w] \in {"sending", "rejected"} => accepted[held[w]] = 0
       /\ phase[w] = "accepted" => accepted[held[w]] = 1

CommittedRequest(r) == request[r] \in {"hook", "done"}

\* A row is in the table exactly when its transaction committed, untried if not.
RowMatchesRequest ==
  \A r \in Rows : /\ status[r] # "none" <=> CommittedRequest(r)
                  /\ status[r] = "none" => attempts[r] = 0

\* At most one call per key has an open or committed row.
OneHolderPerKey ==
  \A r, s \in Rows :
    r # s /\ SameKey(r, s) /\ (request[r] = "open" \/ CommittedRequest(r))
      => ~(request[s] = "open" \/ CommittedRequest(s))

\* The inductive invariant: what claim_for_send's lock, the deferred nudge and
\* the unique dedup_key maintain together at every step.
IInv ==
  /\ TypeOK
  /\ ExclusiveSend
  /\ AttemptsBounded
  /\ RowMatchesRequest
  /\ OneHolderPerKey
  /\ AmbiguousProvider \/ MailMatchesStatus

----------------------------------------------------------------------------
(* Liveness. *)

Committed(r) == status[r] # "none"
Orphaned(r) == status[r] = "SENDING" /\ \A w \in Workers : ~Owner(w, r)

\* A committed email is not forgotten: lost nudges, dead-lettered messages
\* and failed sweeps notwithstanding, it is sent, given up for good, or left
\* SENDING for the alarm.
EventuallySettled ==
  \A r \in Rows : Committed(r) ~> (status[r] \in Terminal \/ Orphaned(r))
=============================================================================
