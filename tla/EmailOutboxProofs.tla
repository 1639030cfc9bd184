------------------------- MODULE EmailOutboxProofs -------------------------
(***************************************************************************)
(* Proofs about EmailOutbox, for any rows, workers, keys, limits and fault *)
(* budget.                                                                 *)
(***************************************************************************)
EXTENDS EmailOutbox, FiniteSetTheorems, TLAPS

\* Renewing updated_at keeps the order on rows and the stale set typed.
LEMMA TouchType ==
  ASSUME TypeOK, NEW r \in Rows, Touch(r)
  PROVE  older' \subseteq Rows \X Rows /\ stale' \subseteq Rows
BY DEF TypeOK, Touch

WorkerTypeOK == /\ phase \in [Workers -> Phases]
                /\ held \in [Workers -> Rows \cup {NoRow}]
                /\ \A w \in Workers : held[w] = NoRow <=> phase[w] = "idle"
                /\ live \in [Workers -> BOOLEAN]
                /\ tries \in [Workers -> Nat]

\* A worker that is done with its message is idle and names no row.
LEMMA ReleaseType ==
  ASSUME TypeOK, NEW w \in Workers, Release(w)
  PROVE  WorkerTypeOK'
<1>1. /\ phase' \in [Workers -> Phases]
      /\ held' \in [Workers -> Rows \cup {NoRow}]
      /\ live' \in [Workers -> BOOLEAN]
      /\ tries' \in [Workers -> Nat]
  BY DEF TypeOK, Release, Phases
<1>2. ASSUME NEW v \in Workers PROVE held'[v] = NoRow <=> phase'[v] = "idle"
  BY DEF TypeOK, Release
<1> QED
  BY <1>1, <1>2 DEF WorkerTypeOK

\* A message that reappears is counted at a row that exists.
LEMMA RedeliverType ==
  ASSUME TypeOK, NEW w \in Workers, phase[w] # "idle", Redeliver(w)
  PROVE  sqs' \in [Rows -> Nat]
<1>1. held[w] \in Rows
  BY DEF TypeOK
<1> QED
  BY <1>1 DEF TypeOK, Redeliver

\* Every action of the outbox keeps every variable's type.
LEMMA TypeStep == TypeOK /\ [Next]_vars => TypeOK'
<1> SUFFICES ASSUME TypeOK, [Next]_vars PROVE TypeOK'
  OBVIOUS
<1> USE NoRowAssumption DEF TypeOK, Requests, Statuses, Phases, MidSend, rowVars,
            workerVars, history
<1>1. ASSUME NEW r \in Rows, Produce(r) PROVE TypeOK'
  BY <1>1 DEF Produce, Insert, Commit, Rollback, Nudge, NudgeLost,
              SetStatus, Touch, Fault
<1>2. ASSUME NEW r \in Rows, DuplicateDelivery(r) PROVE TypeOK'
  BY <1>2 DEF DuplicateDelivery, Fault
<1>3. ASSUME NEW r \in Rows, BecomeStale(r) PROVE TypeOK'
  BY <1>3 DEF BecomeStale
<1>4. ASSUME NEW r \in Rows, SweepSend(r) PROVE TypeOK'
  BY <1>4 DEF SweepSend
<1>5. ASSUME NEW w \in Workers, NEW r \in Rows, Receive(w, r) PROVE TypeOK'
  BY <1>5 DEF Receive
<1>6. ASSUME NEW w \in Workers, Claim(w) PROVE TypeOK'
  BY <1>6, TouchType DEF Claim, ClaimFrom, SetStatus
<1>7. ASSUME NEW w \in Workers, Refuse(w) \/ ClaimFails(w) PROVE TypeOK'
  BY <1>7 DEF Refuse, ClaimFails, GoTo, Fault
<1>8. ASSUME NEW w \in Workers,
             ProviderAccepts(w) \/ ProviderRejects(w) \/ ProviderAnswerLost(w)
      PROVE  TypeOK'
  BY <1>8 DEF ProviderAccepts, ProviderRejects, ProviderAnswerLost, Deliver,
              GoTo, Fault
<1>9. ASSUME NEW w \in Workers,
             RecordSent(w) \/ RecordRetry(w) \/ RecordFailed(w)
      PROVE  TypeOK'
  <2>1. held[w] \in Rows
    BY <1>9 DEF RecordSent, RecordRetry, RecordFailed
  <2>2. older' \subseteq Rows \X Rows /\ stale' \subseteq Rows
    BY <1>9, <2>1, TouchType DEF RecordSent, RecordRetry, RecordFailed, SetStatus
  <2>3. status' \in [Rows -> Statuses]
    BY <1>9, <2>1 DEF RecordSent, RecordRetry, RecordFailed, SetStatus
  <2> QED
    BY <1>9, <2>1, <2>2, <2>3 DEF RecordSent, RecordRetry, RecordFailed, GoTo
<1>11. ASSUME NEW w \in Workers, RecordFails(w) PROVE TypeOK'
  BY <1>11 DEF RecordFails, GoTo, Fault
<1>12. ASSUME NEW w \in Workers, Ack(w) \/ Nack(w) \/ DeadLetter(w)
       PROVE  TypeOK'
  <2>1. WorkerTypeOK'
    BY <1>12, ReleaseType DEF Ack, Nack, DeadLetter
  <2>2. sqs' \in [Rows -> Nat]
    BY <1>12, RedeliverType DEF Ack, Nack, DeadLetter
  <2> QED
    BY <1>12, <2>1, <2>2 DEF Ack, Nack, DeadLetter, Fault, WorkerTypeOK
<1>13. ASSUME NEW w \in Workers, AckFails(w) PROVE TypeOK'
  BY <1>13 DEF AckFails, GoTo, Fault
<1>16. ASSUME NEW w \in Workers, Crash(w) PROVE TypeOK'
  <2>1. WorkerTypeOK' /\ sqs' \in [Rows -> Nat]
    BY <1>16, ReleaseType, RedeliverType DEF Crash
  <2> QED
    BY <1>16, <2>1 DEF Crash, Fault, WorkerTypeOK
<1>17. ASSUME NEW w \in Workers, VisibilityExpires(w) PROVE TypeOK'
  <2>1. held[w] \in Rows
    BY <1>17 DEF VisibilityExpires
  <2> QED
    BY <1>17, <2>1 DEF VisibilityExpires, Fault
<1>14. CASE SweepStart \/ SweepFails
  BY <1>14 DEF SweepStart, SweepFails, OldestFirst, StalePending, Fault
<1>15. CASE UNCHANGED vars
  BY <1>15 DEF vars
<1> QED
  BY <1>1, <1>2, <1>3, <1>4, <1>5, <1>6, <1>7, <1>8, <1>9, <1>11,
     <1>12, <1>13, <1>14, <1>15, <1>16, <1>17
  DEF Next, WorkerStep, WorkerFault

\* Every variable keeps its type in every behaviour of the outbox.
THEOREM TypeCorrect == Spec => []TypeOK
<1>1. Init => TypeOK
  BY DEF Init, TypeOK, Requests, Statuses, Phases
<1> QED
  BY <1>1, TypeStep, PTL DEF Spec

\* A step that leaves rows and mailboxes alone, and in which no worker enters
\* or moves within a send, keeps the inductive invariant.
LEMMA QuietStep ==
  ASSUME IInv, TypeOK', UNCHANGED <<request, status, attempts, accepted>>,
         \A v \in Workers :
           phase'[v] \in MidSend => /\ held'[v] = held[v]
                                   /\ tries'[v] = tries[v]
                                   /\ phase[v] \in MidSend
                                   /\ \/ phase'[v] = phase[v]
                                      \/ phase[v] = "sending" /\ phase'[v] = "rejected"
  PROVE  IInv'
<1>1. ExclusiveSend'
  BY DEF IInv, ExclusiveSend, Owner, MidSend
<1>2. AttemptsBounded' /\ RowMatchesRequest' /\ OneHolderPerKey'
  BY DEF IInv, AttemptsBounded, RowMatchesRequest, OneHolderPerKey, SameKey,
         CommittedRequest
<1>3. (AmbiguousProvider \/ MailMatchesStatus)'
  BY DEF IInv, MailMatchesStatus, MidSend
<1> QED
  BY <1>1, <1>2, <1>3 DEF IInv

\* A step of the producer keeps the inductive invariant.
LEMMA ProducerStep ==
  ASSUME IInv, TypeOK', NEW r \in Rows, Produce(r)
  PROVE  IInv'
<1> USE DEF TypeOK, rowVars, workerVars, history
<1>1. CASE Insert(r)
  <2>1. UNCHANGED <<status, attempts, accepted, phase, held, tries>>
    BY <1>1 DEF Insert
  <2>2. ExclusiveSend' /\ AttemptsBounded' /\ (AmbiguousProvider \/ MailMatchesStatus)'
    BY <2>1 DEF IInv, ExclusiveSend, Owner, AttemptsBounded, MailMatchesStatus
  <2>3. RowMatchesRequest'
    BY <1>1, <2>1 DEF IInv, Insert, RowMatchesRequest, CommittedRequest
  <2>4. OneHolderPerKey'
    BY <1>1, <2>1 DEF IInv, Insert, RowMatchesRequest, OneHolderPerKey,
                      SameKey, CommittedRequest
  <2> QED
    BY <2>2, <2>3, <2>4 DEF IInv
<1>2. CASE Commit(r)
  <2>1. /\ status[r] = "none"
        /\ status' = [status EXCEPT ![r] = "PENDING"]
        /\ request' = [request EXCEPT ![r] = "hook"]
        /\ request[r] = "open"
        /\ UNCHANGED <<attempts, accepted, phase, held, tries>>
    BY <1>2 DEF Commit, SetStatus, IInv, RowMatchesRequest, CommittedRequest
  <2>2. ExclusiveSend'
    BY <2>1 DEF IInv, ExclusiveSend, Owner, MidSend
  <2>3. AttemptsBounded'
    BY <2>1, MaxSendAttemptsAssumption DEF IInv, AttemptsBounded, RowMatchesRequest
  <2>4. RowMatchesRequest'
    BY <2>1 DEF IInv, RowMatchesRequest, CommittedRequest
  <2>5. OneHolderPerKey'
    BY <2>1 DEF IInv, OneHolderPerKey, SameKey, CommittedRequest
  <2>6. (AmbiguousProvider \/ MailMatchesStatus)'
    BY <2>1 DEF IInv, MailMatchesStatus
  <2> QED
    BY <2>2, <2>3, <2>4, <2>5, <2>6 DEF IInv
<1>3. CASE Rollback(r) \/ Nudge(r) \/ NudgeLost(r)
  <2>1. /\ UNCHANGED <<status, attempts, accepted, phase, held, tries>>
        /\ \/ request[r] = "open" /\ request' = [request EXCEPT ![r] = "rolledback"]
           \/ request[r] = "hook" /\ request' = [request EXCEPT ![r] = "done"]
    BY <1>3 DEF Rollback, Nudge, NudgeLost
  <2>2. ExclusiveSend' /\ AttemptsBounded' /\ (AmbiguousProvider \/ MailMatchesStatus)'
    BY <2>1 DEF IInv, ExclusiveSend, Owner, AttemptsBounded, MailMatchesStatus
  <2>3. RowMatchesRequest'
    BY <2>1 DEF IInv, RowMatchesRequest, CommittedRequest
  <2>4. OneHolderPerKey'
    BY <2>1 DEF IInv, OneHolderPerKey, SameKey, CommittedRequest
  <2> QED
    BY <2>2, <2>3, <2>4 DEF IInv
<1> QED
  BY <1>1, <1>2, <1>3 DEF Produce

\* claim_for_send keeps the inductive invariant: only a PENDING row is
\* claimed, and a PENDING row has no sender.
LEMMA ClaimStep ==
  ASSUME IInv, TypeOK', NEW w \in Workers, Claim(w)
  PROVE  IInv'
<1> USE DEF TypeOK
<1>1. PICK r \in Rows : r = held[w]
  BY NoRowAssumption DEF IInv, Claim, ClaimFrom
<1>2. /\ phase[w] = "got"
      /\ status[r] = "PENDING"
      /\ status' = [status EXCEPT ![r] = "SENDING"]
      /\ attempts' = [attempts EXCEPT ![r] = attempts[r] + 1]
      /\ tries' = [tries EXCEPT ![w] = attempts[r] + 1]
      /\ phase' = [phase EXCEPT ![w] = "sending"]
      /\ UNCHANGED <<request, held, accepted>>
  BY <1>1 DEF Claim, ClaimFrom, SetStatus, history
<1>3. \A v \in Workers : ~Owner(v, r)
  BY <1>2 DEF IInv, ExclusiveSend, Owner, MidSend
<1>4. ExclusiveSend'
  BY <1>1, <1>2, <1>3 DEF IInv, ExclusiveSend, Owner, MidSend
<1>5. AttemptsBounded'
  BY <1>2, MaxSendAttemptsAssumption DEF IInv, AttemptsBounded
<1>6. RowMatchesRequest' /\ OneHolderPerKey'
  BY <1>2 DEF IInv, RowMatchesRequest, OneHolderPerKey, SameKey, CommittedRequest
<1>7. (AmbiguousProvider \/ MailMatchesStatus)'
  BY <1>1, <1>2 DEF IInv, MailMatchesStatus
<1> QED
  BY <1>4, <1>5, <1>6, <1>7 DEF IInv

\* The provider's answer keeps the inductive invariant.
LEMMA ProviderStep ==
  ASSUME IInv, TypeOK', NEW w \in Workers,
         ProviderAccepts(w) \/ ProviderAnswerLost(w)
  PROVE  IInv'
<1> USE DEF TypeOK
<1>1. PICK r \in Rows : r = held[w]
  BY NoRowAssumption DEF IInv, ProviderAccepts, ProviderAnswerLost
<1>2. /\ phase[w] = "sending"
      /\ accepted' = [accepted EXCEPT ![r] = accepted[r] + 1]
      /\ \E p \in {"accepted", "rejected"} :
           /\ phase' = [phase EXCEPT ![w] = p]
           /\ p = "rejected" => AmbiguousProvider
      /\ UNCHANGED <<request, status, attempts, held, tries>>
  BY <1>1 DEF ProviderAccepts, ProviderAnswerLost, Deliver, GoTo, rowVars
<1>3. ExclusiveSend'
  BY <1>2 DEF IInv, ExclusiveSend, Owner, MidSend
<1>4. AttemptsBounded' /\ RowMatchesRequest' /\ OneHolderPerKey'
  BY <1>2 DEF IInv, AttemptsBounded, RowMatchesRequest, OneHolderPerKey,
              SameKey, CommittedRequest
<1>5. (AmbiguousProvider \/ MailMatchesStatus)'
  BY <1>1, <1>2 DEF IInv, ExclusiveSend, Owner, MidSend, MailMatchesStatus
<1> QED
  BY <1>3, <1>4, <1>5 DEF IInv

\* Recording an outcome keeps the inductive invariant: the sender owns the
\* row, so its unconditional write overwrites nobody's.
LEMMA RecordStep ==
  ASSUME IInv, TypeOK', NEW w \in Workers,
         RecordSent(w) \/ RecordRetry(w) \/ RecordFailed(w)
  PROVE  IInv'
<1> USE DEF TypeOK
<1>1. PICK r \in Rows : r = held[w]
  BY NoRowAssumption DEF IInv, RecordSent, RecordRetry, RecordFailed
<1>2. /\ \/ /\ phase[w] = "accepted"
            /\ status' = [status EXCEPT ![r] = "SENT"]
         \/ /\ phase[w] = "rejected"
            /\ \/ status' = [status EXCEPT ![r] = "FAILED"]
               \/ /\ tries[w] < MaxSendAttempts
                  /\ status' = [status EXCEPT ![r] = "PENDING"]
      /\ \E p \in {"ack", "nack"} : phase' = [phase EXCEPT ![w] = p]
      /\ UNCHANGED <<request, attempts, held, tries, accepted>>
  BY <1>1 DEF RecordSent, RecordRetry, RecordFailed, SetStatus, GoTo, history
<1>3. status[r] = "SENDING" /\ tries[w] = attempts[r] /\ \A v \in Workers \ {w} : ~Owner(v, r)
  BY <1>1, <1>2 DEF IInv, ExclusiveSend, MidSend
<1>4. ExclusiveSend'
  BY <1>1, <1>2, <1>3 DEF IInv, ExclusiveSend, Owner, MidSend
<1>5. AttemptsBounded'
  BY <1>2, <1>3 DEF IInv, AttemptsBounded
<1>6. RowMatchesRequest' /\ OneHolderPerKey'
  BY <1>2, <1>3 DEF IInv, RowMatchesRequest, OneHolderPerKey, SameKey,
                    CommittedRequest
<1>7. (AmbiguousProvider \/ MailMatchesStatus)'
  BY <1>1, <1>2, <1>3 DEF IInv, MailMatchesStatus, Owner, MidSend
<1> QED
  BY <1>4, <1>5, <1>6, <1>7 DEF IInv

\* Every step keeps the inductive invariant.
LEMMA InductiveStep == IInv /\ [Next]_vars => IInv'
<1> SUFFICES ASSUME IInv, [Next]_vars PROVE IInv'
  OBVIOUS
<1>0. TypeOK'
  BY TypeStep DEF IInv
<1> USE <1>0 DEF rowVars, workerVars, history
<1>1. ASSUME NEW r \in Rows, Produce(r) PROVE IInv'
  BY <1>1, ProducerStep
<1>2. ASSUME NEW w \in Workers,
             Claim(w) \/ ProviderAccepts(w) \/ ProviderAnswerLost(w)
               \/ RecordSent(w) \/ RecordRetry(w) \/ RecordFailed(w)
      PROVE  IInv'
  BY <1>2, ClaimStep, ProviderStep, RecordStep
<1>3. ASSUME NEW r \in Rows, DuplicateDelivery(r) \/ BecomeStale(r) \/ SweepSend(r)
      PROVE  IInv'
  BY <1>3, QuietStep DEF DuplicateDelivery, BecomeStale, SweepSend
<1>4. CASE SweepStart \/ SweepFails \/ UNCHANGED vars
  BY <1>4, QuietStep DEF SweepStart, SweepFails, vars
<1>5. ASSUME NEW w \in Workers,
             Refuse(w) \/ ClaimFails(w) \/ ProviderRejects(w) \/ RecordFails(w)
               \/ AckFails(w)
      PROVE  IInv'
  BY <1>5, QuietStep DEF Refuse, ClaimFails, ProviderRejects, RecordFails,
                         AckFails, GoTo, MidSend, IInv, TypeOK
<1>6. ASSUME NEW w \in Workers,
             Ack(w) \/ Nack(w) \/ DeadLetter(w) \/ Crash(w)
      PROVE  IInv'
  BY <1>6, QuietStep DEF Ack, Nack, DeadLetter, Crash, Release, MidSend, IInv, TypeOK
<1>7. ASSUME NEW w \in Workers, VisibilityExpires(w) PROVE IInv'
  BY <1>7, QuietStep DEF VisibilityExpires
<1>8. ASSUME NEW w \in Workers, NEW r \in Rows, Receive(w, r) PROVE IInv'
  BY <1>8, QuietStep DEF Receive, MidSend, IInv, TypeOK
<1> QED
  BY <1>1, <1>2, <1>3, <1>4, <1>5, <1>6, <1>7, <1>8
     DEF Next, WorkerStep, WorkerFault

\* The inductive invariant holds in every reachable state.
THEOREM Inductive == Spec => []IInv
<1>1. Init => IInv
  <2>1. Init => TypeOK
    BY DEF Init, TypeOK, Requests, Statuses, Phases
  <2> QED
    BY <2>1, MaxSendAttemptsAssumption
       DEF Init, IInv, ExclusiveSend, AttemptsBounded, RowMatchesRequest,
           OneHolderPerKey, MailMatchesStatus, CommittedRequest, MidSend
<1> QED
  BY <1>1, InductiveStep, PTL DEF Spec

----------------------------------------------------------------------------
(* Safety. *)

\* Nobody else sends a row while a worker is sending it, so the writes that
\* record an outcome overwrite nothing.
THEOREM ExclusiveSendHolds == Spec => []ExclusiveSend
<1>1. IInv => ExclusiveSend
  BY DEF IInv
<1> QED
  BY <1>1, Inductive, PTL

\* No row is tried more than MAX_SEND_ATTEMPTS times.
THEOREM AttemptsBoundedHolds == Spec => []AttemptsBounded
<1>1. IInv => AttemptsBounded
  BY DEF IInv
<1> QED
  BY <1>1, Inductive, PTL

\* With a truthful provider nobody gets an email twice: not by redelivery,
\* duplicate, visibility timeout, crash, failed write, retry or sweep.
THEOREM AtMostOnceHolds ==
  ASSUME ~AmbiguousProvider
  PROVE  Spec => []AtMostOnce
<1>1. IInv => AtMostOnce
  BY DEF IInv, MailMatchesStatus, AtMostOnce
<1> QED
  BY <1>1, Inductive, PTL

\* With a truthful provider, calls that share a dedup_key deliver one email.
THEOREM AtMostOncePerKeyHolds ==
  ASSUME ~AmbiguousProvider
  PROVE  Spec => []AtMostOncePerKey
<1>1. IInv => AtMostOncePerKey
  <2> SUFFICES ASSUME IInv, NEW r \in Rows, NEW s \in Rows,
                      r # s, SameKey(r, s), accepted[r] # 0, accepted[s] # 0
               PROVE  FALSE
    BY DEF AtMostOncePerKey
  <2>1. status[r] # "none" /\ status[s] # "none"
    BY DEF IInv, MailMatchesStatus
  <2>2. CommittedRequest(r) /\ CommittedRequest(s)
    BY <2>1 DEF IInv, RowMatchesRequest
  <2> QED
    BY <2>2 DEF IInv, OneHolderPerKey
<1> QED
  BY <1>1, Inductive, PTL

\* With a truthful provider the terminal statuses mean what they say.
THEOREM TerminalIsTruthfulHolds ==
  ASSUME ~AmbiguousProvider
  PROVE  Spec => []TerminalIsTruthful
<1>1. IInv => TerminalIsTruthful
  BY DEF IInv, TypeOK, MailMatchesStatus, TerminalIsTruthful
<1> QED
  BY <1>1, Inductive, PTL

----------------------------------------------------------------------------
(* Action properties and refinement. *)

\* The actions that write a status, and what they write.
LEMMA StatusWrites ==
  ASSUME IInv, [Next]_vars, status' # status
  PROVE  \E r \in Rows :
           \/ /\ Commit(r)
              /\ status[r] = "none"
              /\ status' = [status EXCEPT ![r] = "PENDING"]
           \/ \E w \in Workers :
                /\ held[w] = r
                /\ \/ /\ Claim(w)
                      /\ status[r] = "PENDING"
                      /\ status' = [status EXCEPT ![r] = "SENDING"]
                   \/ /\ status[r] = "SENDING"
                      /\ \/ /\ RecordSent(w)
                            /\ status' = [status EXCEPT ![r] = "SENT"]
                         \/ /\ RecordRetry(w)
                            /\ status' = [status EXCEPT ![r] = "PENDING"]
                         \/ /\ RecordFailed(w)
                            /\ status' = [status EXCEPT ![r] = "FAILED"]
<1>1. \/ \E r \in Rows : Commit(r)
      \/ \E w \in Workers :
           Claim(w) \/ RecordSent(w) \/ RecordRetry(w) \/ RecordFailed(w)
  <2> USE DEF rowVars
  <2>1. ASSUME NEW r \in Rows, Produce(r) PROVE Commit(r)
    BY <2>1 DEF Produce, Insert, Rollback, Nudge, NudgeLost
  <2>2. ASSUME NEW r \in Rows, DuplicateDelivery(r) \/ BecomeStale(r) \/ SweepSend(r)
        PROVE  FALSE
    BY <2>2 DEF DuplicateDelivery, BecomeStale, SweepSend
  <2>3. ASSUME NEW w \in Workers, WorkerStep(w)
        PROVE  Claim(w) \/ RecordSent(w) \/ RecordRetry(w) \/ RecordFailed(w)
    BY <2>3 DEF WorkerStep, Refuse, ProviderAccepts, ProviderRejects, Ack, Nack
  <2>4. ASSUME NEW w \in Workers, WorkerFault(w) PROVE FALSE
    BY <2>4 DEF WorkerFault, Crash, VisibilityExpires, DeadLetter, AckFails,
                ClaimFails, RecordFails, ProviderAnswerLost
  <2>5. ASSUME NEW w \in Workers, NEW r \in Rows, Receive(w, r) PROVE FALSE
    BY <2>5 DEF Receive
  <2>6. ~SweepStart /\ ~SweepFails /\ ~UNCHANGED vars
    BY DEF SweepStart, SweepFails, vars
  <2> QED
    BY <2>1, <2>2, <2>3, <2>4, <2>5, <2>6 DEF Next
<1>2. ASSUME NEW r \in Rows, Commit(r)
      PROVE  /\ status[r] = "none"
             /\ status' = [status EXCEPT ![r] = "PENDING"]
  BY <1>2 DEF Commit, SetStatus, IInv, RowMatchesRequest, CommittedRequest
<1>3. ASSUME NEW w \in Workers, Claim(w)
      PROVE  /\ held[w] \in Rows
             /\ status[held[w]] = "PENDING"
             /\ status' = [status EXCEPT ![held[w]] = "SENDING"]
  BY <1>3, NoRowAssumption DEF Claim, ClaimFrom, SetStatus, IInv, TypeOK
<1>4. ASSUME NEW w \in Workers,
             RecordSent(w) \/ RecordRetry(w) \/ RecordFailed(w)
      PROVE  /\ held[w] \in Rows
             /\ status[held[w]] = "SENDING"
             /\ RecordSent(w) => status' = [status EXCEPT ![held[w]] = "SENT"]
             /\ RecordRetry(w) => status' = [status EXCEPT ![held[w]] = "PENDING"]
             /\ RecordFailed(w) => status' = [status EXCEPT ![held[w]] = "FAILED"]
  <2>1. phase[w] \in {"accepted", "rejected"}
    BY <1>4 DEF RecordSent, RecordRetry, RecordFailed
  <2>2. held[w] \in Rows
    BY <2>1, NoRowAssumption DEF IInv, TypeOK
  <2>3. status[held[w]] = "SENDING"
    BY <2>1 DEF IInv, ExclusiveSend, MidSend
  <2> QED
    BY <2>2, <2>3 DEF RecordSent, RecordRetry, RecordFailed, SetStatus
<1>5. CASE \E r \in Rows : Commit(r)
  BY <1>5, <1>2
<1>6. CASE \E w \in Workers : Claim(w)
  BY <1>6, <1>3
<1>7. CASE \E w \in Workers : RecordSent(w) \/ RecordRetry(w) \/ RecordFailed(w)
  BY <1>7, <1>4
<1> QED
  BY <1>1, <1>5, <1>6, <1>7

\* A row moves only along the state machine; SENT and FAILED are final.
THEOREM StatusMovesHolds == Spec => StatusMoves
<1>1. IInv /\ [Next]_vars =>
        [\A r \in Rows : status'[r] # status[r] =>
           <<status[r], status'[r]>> \in LegalMoves]_status
  <2> SUFFICES ASSUME IInv, [Next]_vars, status' # status, NEW r \in Rows,
                      status'[r] # status[r]
               PROVE  <<status[r], status'[r]>> \in LegalMoves
    OBVIOUS
  <2> QED
    BY StatusWrites DEF LegalMoves, IInv, TypeOK
<1> QED
  BY <1>1, Inductive, PTL DEF StatusMoves, Spec

\* The only step that fills a mailbox is the acceptance of a row's one send.
LEMMA MailboxWrites ==
  ASSUME IInv, ~AmbiguousProvider, [Next]_vars, accepted' # accepted
  PROVE  \E r \in Rows : /\ status[r] = "SENDING"
                         /\ accepted[r] = 0
                         /\ accepted' = [accepted EXCEPT ![r] = 1]
                         /\ UNCHANGED status
<1>1. \E w \in Workers : ProviderAccepts(w)
  <2> USE DEF history
  <2>1. ASSUME NEW r \in Rows,
               Produce(r) \/ DuplicateDelivery(r) \/ BecomeStale(r) \/ SweepSend(r)
        PROVE  FALSE
    BY <2>1 DEF Produce, Insert, Commit, Rollback, Nudge, NudgeLost,
                DuplicateDelivery, BecomeStale, SweepSend
  <2>2. ASSUME NEW w \in Workers, WorkerStep(w) PROVE ProviderAccepts(w)
    BY <2>2 DEF WorkerStep, Claim, ClaimFrom, Refuse, ProviderRejects, RecordSent,
                RecordRetry, RecordFailed, Ack, Nack
  <2>3. ASSUME NEW w \in Workers, WorkerFault(w) PROVE FALSE
    BY <2>3 DEF WorkerFault, Crash, VisibilityExpires, DeadLetter, AckFails,
                ClaimFails, RecordFails, ProviderAnswerLost
  <2>4. ASSUME NEW w \in Workers, NEW r \in Rows, Receive(w, r) PROVE FALSE
    BY <2>4 DEF Receive
  <2>5. ~SweepStart /\ ~SweepFails /\ ~UNCHANGED vars
    BY DEF SweepStart, SweepFails, vars
  <2> QED
    BY <2>1, <2>2, <2>3, <2>4, <2>5 DEF Next
<1>2. PICK w \in Workers : ProviderAccepts(w)
  BY <1>1
<1>3. held[w] \in Rows
  BY <1>2, NoRowAssumption DEF ProviderAccepts, IInv, TypeOK
<1>4. status[held[w]] = "SENDING" /\ accepted[held[w]] = 0
  BY <1>2, <1>3 DEF ProviderAccepts, IInv, ExclusiveSend, MidSend, MailMatchesStatus
<1>5. accepted' = [accepted EXCEPT ![held[w]] = 1] /\ UNCHANGED status
  BY <1>2, <1>4 DEF ProviderAccepts, Deliver, rowVars
<1> QED
  BY <1>3, <1>4, <1>5

\* A commit queues an email whose dedup_key no queued email has.
LEMMA CommitQueues ==
  ASSUME IInv, NEW r \in Rows, Commit(r)
  PROVE  Promise!Queue(r)
<1>1. /\ status[r] = "none"
      /\ request[r] = "open"
      /\ status' = [status EXCEPT ![r] = "PENDING"]
      /\ UNCHANGED accepted
  BY DEF Commit, SetStatus, IInv, RowMatchesRequest, CommittedRequest, history
<1>2. ASSUME NEW s \in Rows, status[s] # "none" PROVE ~Promise!Clash(r, s)
  BY <1>1, <1>2 DEF Promise!Clash, IInv, RowMatchesRequest, OneHolderPerKey, SameKey
<1>3. {s \in Rows : status[s] # "none"}' = {s \in Rows : status[s] # "none"} \cup {r}
  BY <1>1 DEF IInv, TypeOK
<1>4. {s \in Rows : status[s] = "FAILED"}' = {s \in Rows : status[s] = "FAILED"}
  BY <1>1 DEF IInv, TypeOK
<1> QED
  BY <1>1, <1>2, <1>3, <1>4 DEF Promise!Queue

\* With a truthful provider the outbox implements EmailPromise.
THEOREM Refinement ==
  ASSUME ~AmbiguousProvider
  PROVE  Spec => ImplementsPromise
<1>1. Init => Promise!Init
  BY DEF Init, Promise!Init
<1>2. IInv /\ [Next]_vars => [Promise!Next]_(Promise!vars)
  <2> SUFFICES ASSUME IInv, [Next]_vars PROVE [Promise!Next]_(Promise!vars)
    OBVIOUS
  <2>1. CASE UNCHANGED <<status, accepted>>
    BY <2>1 DEF Promise!vars
  <2>2. CASE accepted' # accepted
    <3>1. PICK r \in Rows : /\ status[r] = "SENDING"
                            /\ accepted[r] = 0
                            /\ accepted' = [accepted EXCEPT ![r] = 1]
                            /\ UNCHANGED status
      BY <2>2, MailboxWrites
    <3>2. Promise!Deliver(r)
      BY <3>1 DEF Promise!Deliver, Promise!Pending
    <3> QED
      BY <3>2 DEF Promise!Next
  <2>3. CASE status' # status /\ accepted' = accepted
    <3>1. PICK r \in Rows :
            \/ Commit(r)
            \/ /\ status[r] \in {"PENDING", "SENDING"}
               /\ \E s \in {"PENDING", "SENDING", "SENT"} :
                    status' = [status EXCEPT ![r] = s]
            \/ \E w \in Workers : /\ held[w] = r
                                   /\ status[r] = "SENDING"
                                   /\ RecordFailed(w)
                                   /\ status' = [status EXCEPT ![r] = "FAILED"]
      BY <2>3, StatusWrites
    <3>2. CASE Commit(r)
      BY <3>2, CommitQueues DEF Promise!Next
    <3>3. CASE /\ status[r] \in {"PENDING", "SENDING"}
               /\ \E s \in {"PENDING", "SENDING", "SENT"} :
                    status' = [status EXCEPT ![r] = s]
      <4>1. status \in [Rows -> Statuses]
        BY DEF IInv, TypeOK
      <4>2. PICK s \in {"PENDING", "SENDING", "SENT"} :
              status' = [status EXCEPT ![r] = s]
        BY <3>3
      <4>3. \A q \in Rows : status'[q] # "none" <=> status[q] # "none"
        BY <3>3, <4>1, <4>2
      <4>4. \A q \in Rows : status'[q] = "FAILED" <=> status[q] = "FAILED"
        BY <3>3, <4>1, <4>2
      <4>5. /\ {q \in Rows : status[q] # "none"}' = {q \in Rows : status[q] # "none"}
            /\ {q \in Rows : status[q] = "FAILED"}' = {q \in Rows : status[q] = "FAILED"}
        BY <4>3, <4>4
      <4> QED
        BY <2>3, <4>5 DEF Promise!vars
    <3>4. CASE \E w \in Workers : /\ held[w] = r
                                   /\ status[r] = "SENDING"
                                   /\ RecordFailed(w)
                                   /\ status' = [status EXCEPT ![r] = "FAILED"]
      <4>1. PICK w \in Workers : held[w] = r /\ phase[w] = "rejected"
        BY <3>4 DEF RecordFailed
      <4>2. accepted[r] = 0
        BY <4>1 DEF IInv, MailMatchesStatus
      <4>0. status \in [Rows -> Statuses] /\ status[r] = "SENDING"
              /\ status' = [status EXCEPT ![r] = "FAILED"]
        BY <3>4 DEF IInv, TypeOK
      <4>3. {q \in Rows : status[q] = "FAILED"}'
              = {q \in Rows : status[q] = "FAILED"} \cup {r}
        BY <4>0
      <4>4. {q \in Rows : status[q] # "none"}' = {q \in Rows : status[q] # "none"}
        BY <4>0
      <4>5. Promise!GiveUp(r)
        BY <2>3, <3>4, <4>2, <4>3, <4>4 DEF Promise!GiveUp, Promise!Pending
      <4> QED
        BY <4>5 DEF Promise!Next
    <3> QED
      BY <3>1, <3>2, <3>3, <3>4
  <2> QED
    BY <2>1, <2>2, <2>3
<1> QED
  BY <1>1, <1>2, Inductive, PTL DEF ImplementsPromise, Promise!Spec, Spec

----------------------------------------------------------------------------
(* Messages, orphans and the quota. *)

\* A committed row stays in the table.
LEMMA RowsStay ==
  ASSUME IInv, [Next]_vars, NEW r \in Rows, status[r] # "none"
  PROVE  status'[r] # "none"
<1>1. CASE UNCHANGED status
  BY <1>1
<1>2. CASE status' # status
  BY <1>2, StatusWrites DEF IInv, TypeOK
<1> QED
  BY <1>1, <1>2

Named(r) == sqs[r] > 0 \/ r \in todo \/ \E w \in Workers : held[w] = r

\* A row is named by a message, a worker or the sweep only if it was so before,
\* if its hook sends the nudge, or if the sweep reads it as PENDING.
LEMMA NamedBefore ==
  ASSUME IInv, [Next]_vars, NEW r \in Rows, Named(r)'
  PROVE  Named(r) \/ request[r] = "hook" \/ status[r] = "PENDING"
<1> USE NoRowAssumption DEF IInv, TypeOK, workerVars
<1>1. ASSUME NEW s \in Rows, Produce(s) PROVE Named(r) \/ request[r] = "hook"
  <2>1. CASE Insert(s) \/ Commit(s) \/ Rollback(s) \/ NudgeLost(s)
    BY <2>1 DEF Insert, Commit, Rollback, NudgeLost, Named
  <2>2. CASE Nudge(s)
    BY <2>2 DEF Nudge, Named
  <2> QED
    BY <1>1, <2>1, <2>2 DEF Produce
<1>2. ASSUME NEW s \in Rows, DuplicateDelivery(s) \/ BecomeStale(s) PROVE Named(r)
  BY <1>2 DEF DuplicateDelivery, BecomeStale, Named
<1>3. ASSUME NEW s \in Rows, SweepSend(s) PROVE Named(r)
  BY <1>3 DEF SweepSend, Named
<1>4. ASSUME NEW w \in Workers, NEW s \in Rows, Receive(w, s) PROVE Named(r)
  <2>1. CASE r = s
    BY <1>4, <2>1 DEF Receive, Named
  <2>2. CASE r # s
    BY <1>4, <2>2 DEF Receive, Named
  <2> QED
    BY <2>1, <2>2
<1>5. ASSUME NEW w \in Workers,
             \/ Claim(w) \/ Refuse(w) \/ ProviderAccepts(w) \/ ProviderRejects(w)
             \/ RecordSent(w) \/ RecordRetry(w) \/ RecordFailed(w)
             \/ AckFails(w) \/ ClaimFails(w) \/ RecordFails(w) \/ ProviderAnswerLost(w)
      PROVE  Named(r)
  BY <1>5 DEF Claim, ClaimFrom, Refuse, ProviderAccepts, ProviderRejects, RecordSent,
              RecordRetry, RecordFailed, AckFails, ClaimFails, RecordFails,
              ProviderAnswerLost, GoTo, Named
<1>6. ASSUME NEW w \in Workers, Ack(w) \/ Nack(w) \/ DeadLetter(w) \/ Crash(w)
      PROVE  Named(r)
  <2>1. held[w] \in Rows /\ todo' = todo
    BY <1>6 DEF Ack, Nack, DeadLetter, Crash
  <2>2. \A v \in Workers : held'[v] = r => held[v] = r
    BY <1>6 DEF Ack, Nack, DeadLetter, Crash, Release
  <2>3. sqs'[r] > 0 => sqs[r] > 0 \/ held[w] = r
    BY <1>6, <2>1 DEF Ack, Nack, DeadLetter, Crash, Redeliver
  <2> QED
    BY <2>1, <2>2, <2>3 DEF Named
<1>7. ASSUME NEW w \in Workers, VisibilityExpires(w) PROVE Named(r)
  <2>1. held[w] \in Rows /\ todo' = todo /\ held' = held
    BY <1>7 DEF VisibilityExpires
  <2>2. sqs'[r] > 0 => sqs[r] > 0 \/ held[w] = r
    BY <1>7, <2>1 DEF VisibilityExpires
  <2> QED
    BY <2>1, <2>2 DEF Named
<1>8. CASE SweepStart
  BY <1>8 DEF SweepStart, OldestFirst, StalePending, Named
<1>9. CASE SweepFails \/ UNCHANGED vars
  BY <1>9 DEF SweepFails, vars, Named
<1> QED
  BY <1>1, <1>2, <1>3, <1>4, <1>5, <1>6, <1>7, <1>8, <1>9 DEF Next, WorkerStep, WorkerFault

\* The nudge waits for the commit: no worker looks for a row that is not there.
THEOREM MessageNamesCommittedRowHolds == Spec => []MessageNamesCommittedRow
<1>1. Init => MessageNamesCommittedRow
  BY NoRowAssumption DEF Init, MessageNamesCommittedRow
<1>2. IInv /\ MessageNamesCommittedRow /\ [Next]_vars => MessageNamesCommittedRow'
  <2> SUFFICES ASSUME IInv, MessageNamesCommittedRow, [Next]_vars, NEW r \in Rows, Named(r)'
               PROVE  status'[r] # "none"
    BY DEF MessageNamesCommittedRow, Named
  <2>1. status[r] # "none"
    <3>1. Named(r) \/ request[r] = "hook" \/ status[r] = "PENDING"
      BY NamedBefore
    <3> QED
      BY <3>1 DEF MessageNamesCommittedRow, Named, IInv, RowMatchesRequest, CommittedRequest
  <2> QED
    BY <2>1, RowsStay
<1> QED
  BY <1>1, <1>2, Inductive, PTL DEF Spec

\* A worker leaves a send by recording its outcome, or with a trace.
LEMMA OwnersLeave ==
  ASSUME IInv, [Next]_vars, NEW r \in Rows, NEW w \in Workers, Owner(w, r), ~Owner(w, r)'
  PROVE  status'[r] # "SENDING" \/ r \in (died \cup unrecorded)'
<1> USE DEF IInv, TypeOK, Owner, MidSend, Phases
<1>1. \A v \in Workers :
        \/ phase'[v] = phase[v] /\ held'[v] = held[v]
        \/ phase'[v] \in MidSend /\ held'[v] = held[v]
        \/ phase[v] \notin MidSend
        \/ RecordSent(v) \/ RecordRetry(v) \/ RecordFailed(v) \/ RecordFails(v) \/ Crash(v)
  <2> SUFFICES ASSUME NEW v \in Workers
               PROVE  \/ phase'[v] = phase[v] /\ held'[v] = held[v]
                      \/ phase'[v] \in MidSend /\ held'[v] = held[v]
                      \/ phase[v] \notin MidSend
                      \/ RecordSent(v) \/ RecordRetry(v) \/ RecordFailed(v)
                      \/ RecordFails(v) \/ Crash(v)
    OBVIOUS
  <2> USE DEF workerVars
  <2>1. ASSUME NEW s \in Rows, Produce(s) \/ DuplicateDelivery(s) \/ BecomeStale(s)
                               \/ SweepSend(s)
        PROVE  phase'[v] = phase[v] /\ held'[v] = held[v]
    BY <2>1 DEF Produce, Insert, Commit, Rollback, Nudge, NudgeLost, DuplicateDelivery,
                BecomeStale, SweepSend
  <2>2. ASSUME NEW u \in Workers, NEW s \in Rows, Receive(u, s)
        PROVE  phase[v] \notin MidSend \/ (phase'[v] = phase[v] /\ held'[v] = held[v])
    BY <2>2 DEF Receive
  <2>3. ASSUME NEW u \in Workers,
               \/ Claim(u) \/ Refuse(u) \/ ClaimFails(u) \/ AckFails(u)
               \/ Ack(u) \/ Nack(u) \/ DeadLetter(u)
        PROVE  phase[v] \notin MidSend \/ (phase'[v] = phase[v] /\ held'[v] = held[v])
    BY <2>3 DEF Claim, ClaimFrom, Refuse, ClaimFails, AckFails, Ack, Nack, DeadLetter,
                Release, GoTo
  <2>4. ASSUME NEW u \in Workers,
               ProviderAccepts(u) \/ ProviderRejects(u) \/ ProviderAnswerLost(u)
        PROVE  /\ held'[v] = held[v]
               /\ phase'[v] \in MidSend \/ phase'[v] = phase[v]
    BY <2>4 DEF ProviderAccepts, ProviderRejects, ProviderAnswerLost, GoTo
  <2>5. ASSUME NEW u \in Workers, u # v,
               \/ RecordSent(u) \/ RecordRetry(u) \/ RecordFailed(u) \/ RecordFails(u)
               \/ Crash(u)
        PROVE  phase'[v] = phase[v] /\ held'[v] = held[v]
    BY <2>5 DEF RecordSent, RecordRetry, RecordFailed, RecordFails, Crash, Release, GoTo
  <2>6. ASSUME NEW u \in Workers, VisibilityExpires(u)
        PROVE  phase'[v] = phase[v] /\ held'[v] = held[v]
    BY <2>6 DEF VisibilityExpires
  <2>7. CASE SweepStart \/ SweepFails \/ UNCHANGED vars
    BY <2>7 DEF SweepStart, SweepFails, vars
  <2> QED
    BY <2>1, <2>2, <2>3, <2>4, <2>5, <2>6, <2>7 DEF Next, WorkerStep, WorkerFault
<1>2. \/ RecordSent(w) \/ RecordRetry(w) \/ RecordFailed(w) \/ RecordFails(w) \/ Crash(w)
  BY <1>1
<1>3. held[w] = r
  OBVIOUS
<1>4. CASE RecordSent(w) \/ RecordRetry(w) \/ RecordFailed(w)
  BY <1>3, <1>4 DEF RecordSent, RecordRetry, RecordFailed, SetStatus
<1>5. CASE RecordFails(w) \/ Crash(w)
  BY <1>3, <1>5 DEF RecordFails, Crash
<1> QED
  BY <1>2, <1>4, <1>5

LEMMA TracesStay == [Next]_vars => (died \cup unrecorded) \subseteq (died \cup unrecorded)'
<1> SUFFICES ASSUME [Next]_vars
             PROVE  died \subseteq died' /\ unrecorded \subseteq unrecorded'
  OBVIOUS
<1> USE DEF history
<1>1. ASSUME NEW r \in Rows,
             Produce(r) \/ DuplicateDelivery(r) \/ BecomeStale(r) \/ SweepSend(r)
      PROVE  UNCHANGED <<died, unrecorded>>
  BY <1>1 DEF Produce, Insert, Commit, Rollback, Nudge, NudgeLost, DuplicateDelivery,
              BecomeStale, SweepSend
<1>2. ASSUME NEW w \in Workers, WorkerStep(w) PROVE UNCHANGED <<died, unrecorded>>
  BY <1>2 DEF WorkerStep, Claim, ClaimFrom, Refuse, ProviderAccepts, ProviderRejects,
              RecordSent, RecordRetry, RecordFailed, Ack, Nack
<1>3. ASSUME NEW w \in Workers, WorkerFault(w)
      PROVE  died \subseteq died' /\ unrecorded \subseteq unrecorded'
  BY <1>3 DEF WorkerFault, Crash, VisibilityExpires, DeadLetter, AckFails, ClaimFails,
              RecordFails, ProviderAnswerLost
<1>4. ASSUME NEW w \in Workers, NEW r \in Rows, Receive(w, r)
      PROVE  UNCHANGED <<died, unrecorded>>
  BY <1>4 DEF Receive
<1>5. CASE SweepStart \/ SweepFails \/ UNCHANGED vars
  BY <1>5 DEF SweepStart, SweepFails, vars
<1> QED
  BY <1>1, <1>2, <1>3, <1>4, <1>5 DEF Next

\* Whatever is left in SENDING has a dead worker or a failed write behind it.
THEOREM OrphanHasCauseHolds == Spec => []OrphanHasCause
<1>1. Init => OrphanHasCause
  BY DEF Init, OrphanHasCause
<1>2. IInv /\ OrphanHasCause /\ [Next]_vars => OrphanHasCause'
  <2> SUFFICES ASSUME IInv, OrphanHasCause, [Next]_vars, NEW r \in Rows,
                      status'[r] = "SENDING", \A w \in Workers : ~Owner(w, r)'
               PROVE  r \in (died \cup unrecorded)'
    BY DEF OrphanHasCause
  <2>1. CASE status[r] = "SENDING"
    <3>1. CASE \E w \in Workers : Owner(w, r)
      BY <3>1, OwnersLeave
    <3>2. CASE \A w \in Workers : ~Owner(w, r)
      BY <2>1, <3>2, TracesStay DEF OrphanHasCause
    <3> QED
      BY <3>1, <3>2
  <2>2. CASE status[r] # "SENDING"
    <3>1. PICK w \in Workers : held[w] = r /\ Claim(w)
      BY <2>2, StatusWrites DEF IInv, TypeOK
    <3>2. Owner(w, r)'
      BY <3>1 DEF Claim, ClaimFrom, Owner, MidSend, IInv, TypeOK
    <3> QED
      BY <3>2
  <2> QED
    BY <2>1, <2>2
<1> QED
  BY <1>1, <1>2, Inductive, PTL DEF Spec

SentRows == {r \in Rows : status[r] = "SENT"}

\* mark_sent and the quota's bump are one transaction.
LEMMA QuotaMoves ==
  ASSUME IInv, [Next]_vars
  PROVE  \/ quota' = quota /\ SentRows' = SentRows
         \/ \E r \in Rows \ SentRows : quota' = quota + 1 /\ SentRows' = SentRows \cup {r}
<1> USE DEF IInv, TypeOK
<1>1. CASE \E w \in Workers : RecordSent(w)
  <2>1. PICK w \in Workers : RecordSent(w)
    BY <1>1
  <2>2. held[w] \in Rows /\ status[held[w]] = "SENDING"
    BY <2>1, NoRowAssumption DEF RecordSent, ExclusiveSend, MidSend
  <2>3. quota' = quota + 1 /\ status' = [status EXCEPT ![held[w]] = "SENT"]
    BY <2>1 DEF RecordSent, SetStatus
  <2>4. held[w] \in Rows \ SentRows /\ SentRows' = SentRows \cup {held[w]}
    BY <2>2, <2>3 DEF SentRows
  <2> QED
    BY <2>3, <2>4
<1>2. CASE ~\E w \in Workers : RecordSent(w)
  <2>1. quota' = quota
    <3>1. ASSUME NEW r \in Rows,
                 Produce(r) \/ DuplicateDelivery(r) \/ BecomeStale(r) \/ SweepSend(r)
          PROVE  quota' = quota
      BY <3>1 DEF Produce, Insert, Commit, Rollback, Nudge, NudgeLost, DuplicateDelivery,
                  BecomeStale, SweepSend
    <3>2. ASSUME NEW w \in Workers, WorkerStep(w) PROVE quota' = quota
      BY <1>2, <3>2 DEF WorkerStep, Claim, ClaimFrom, Refuse, ProviderAccepts,
                        ProviderRejects, RecordRetry, RecordFailed, Ack, Nack
    <3>3. ASSUME NEW w \in Workers, WorkerFault(w) PROVE quota' = quota
      BY <3>3 DEF WorkerFault, Crash, VisibilityExpires, DeadLetter, AckFails, ClaimFails,
                  RecordFails, ProviderAnswerLost
    <3>4. ASSUME NEW w \in Workers, NEW r \in Rows, Receive(w, r) PROVE quota' = quota
      BY <3>4 DEF Receive
    <3>5. CASE SweepStart \/ SweepFails \/ UNCHANGED vars
      BY <3>5 DEF SweepStart, SweepFails, vars
    <3> QED
      BY <3>1, <3>2, <3>3, <3>4, <3>5 DEF Next
  <2>2. ASSUME NEW r \in Rows PROVE status'[r] = "SENT" <=> status[r] = "SENT"
    <3>1. CASE status' = status
      BY <3>1
    <3>2. CASE status' # status
      BY <1>2, <3>2, StatusWrites
    <3> QED
      BY <3>1, <3>2
  <2> QED
    BY <2>1, <2>2 DEF SentRows
<1> QED
  BY <1>1, <1>2

\* No crash or failed write separates a SENT row from its unit of the quota.
THEOREM QuotaCountsSentHolds == Spec => []QuotaCountsSent
<1> DEFINE Counted == IsFiniteSet(SentRows) /\ quota = Cardinality(SentRows)
<1>1. Init => Counted
  <2> SUFFICES ASSUME Init PROVE Counted
    OBVIOUS
  <2>1. SentRows = {} /\ quota = 0
    BY DEF Init, SentRows
  <2> QED
    BY <2>1, FS_EmptySet
<1>2. IInv /\ Counted /\ [Next]_vars => Counted'
  <2> SUFFICES ASSUME IInv, Counted, [Next]_vars PROVE Counted'
    OBVIOUS
  <2>1. CASE quota' = quota /\ SentRows' = SentRows
    BY <2>1
  <2>2. CASE \E r \in Rows \ SentRows : quota' = quota + 1 /\ SentRows' = SentRows \cup {r}
    <3>1. PICK r \in Rows \ SentRows : quota' = quota + 1 /\ SentRows' = SentRows \cup {r}
      BY <2>2
    <3>2. /\ IsFiniteSet(SentRows \cup {r})
          /\ Cardinality(SentRows \cup {r}) = Cardinality(SentRows) + 1
      BY <3>1, FS_AddElement
    <3> QED
      BY <3>1, <3>2
  <2> QED
    BY <2>1, <2>2, QuotaMoves
<1>3. Counted => QuotaCountsSent
  BY DEF QuotaCountsSent, SentRows
<1> QED
  BY <1>1, <1>2, <1>3, Inductive, PTL DEF Spec
=============================================================================
