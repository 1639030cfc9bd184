---------------------------- MODULE AccountsProofs ----------------------------
(***************************************************************************)
(* Proofs about an account, for any number of registrations, links, tokens *)
(* and requests: the sessions (the chain of their refresh tokens, the      *)
(* lockout, password resets), the account itself (one activation link      *)
(* works and opens what its registration asked for, unless requests        *)
(* crossed, and the purge takes nobody who activated), and the parts of an *)
(* account together.                                                       *)
(***************************************************************************)
EXTENDS MCAccount, FilesProofs, TLAPS

----------------------------------------------------------------------------
(* The transactions that a step leaves open. *)

LEMMA NoTxnTyped == NoRequest \in RequestTxns /\ NoRequest.op = "idle" /\ NoRequest.tok = Nil
BY DEF NoRequest, RequestTxns, RequestOps

\* Closing a request, or a step of a request that goes on, touches no other.
LEMMA OvertakeKeeps ==
  ASSUME SessionsTypeOK, NEW S, NEW s, NEW next \in RequestTxns,
         Overtake(S, s, next)
  PROVE  /\ req' \in [Requests -> RequestTxns]
         /\ \A x \in Requests :
              IF x = s THEN req'[x] = next
              ELSE /\ req'[x].op = req[x].op
                   /\ req'[x].tok = req[x].tok
                   /\ req'[x].link = req[x].link
                   /\ req[x].cut => req'[x].cut
                   /\ x \in S /\ req[x] # NoRequest => req'[x].cut
<1> SUFFICES ASSUME NEW x \in Requests
             PROVE  /\ req'[x] \in RequestTxns
                    /\ IF x = s THEN req'[x] = next
                       ELSE /\ req'[x].op = req[x].op
                            /\ req'[x].tok = req[x].tok
                            /\ req'[x].link = req[x].link
                            /\ req[x].cut => req'[x].cut
                            /\ x \in S /\ req[x] # NoRequest => req'[x].cut
  BY DEF Overtake
<1>1. req[x] \in RequestTxns
  BY DEF SessionsTypeOK
<1>2. [req[x] EXCEPT !.cut = TRUE] \in RequestTxns
  BY <1>1 DEF RequestTxns
<1> QED
  BY <1>1, <1>2 DEF Overtake, RequestTxns

\* A request that opens well-formed, or one that ends, preserves everything
\* when the rest of the state stands still.
LEMMA OpenPreserves ==
  ASSUME SessionsIInv, NEW s \in Requests, NEW t \in RequestTxns,
         req' = [req EXCEPT ![s] = t],
         UNCHANGED <<tokenVars, link, lockVars, lineage>>,
         t.op \in {"rotate", "logout"} => t.tok \in Live,
         t.op = "reset" => t.link \in Links,
         t.op \in {"login", "fail"} => ~locked
  PROVE  SessionsIInv'
<1> USE DEF SessionsIInv, tokenVars, lockVars, lineage
<1>1. /\ req' \in [Requests -> RequestTxns]
      /\ \A x \in Requests : req'[x] = IF x = s THEN t ELSE req[x]
  BY DEF SessionsTypeOK
<1>2. SessionsTypeOK'
  BY <1>1 DEF SessionsTypeOK
<1>3. /\ Live' = Live /\ Issued' = Issued
      /\ Live \subseteq Issued
  BY DEF Live, Issued
<1>4. RequestsWellFormed'
  BY <1>1, <1>3 DEF RequestsWellFormed
<1>5. TokensKnown' /\ SingleUse' /\ SurvivorHasCause'
  BY <1>3 DEF TokensKnown, SingleUse, SurvivorHasCause
<1>6. TxnCarriesCut'
  BY <1>1, <1>3 DEF TxnCarriesCut, SurvivorHasCause
<1>7. LockHolds'
  BY <1>1 DEF LockHolds, LoggingIn, SessionsTypeOK
<1> QED
  BY <1>2, <1>4, <1>5, <1>6, <1>7

\* All sessions end but keep's, and every open request is overtaken.
LEMMA EndAllPreserves ==
  ASSUME SessionsIInv, NEW keep \in Tokens \cup {Nil}, EndAll(keep),
         NEW s, NEW next \in RequestTxns, Overtake(Requests, s, next),
         next.op \in {"idle", "hook"},
         link' \in [Links -> {"none", "sent", "spent"}],
         UNCHANGED lockVars
  PROVE  SessionsIInv'
<1> USE DEF SessionsIInv, lockVars
<1>1. /\ req' \in [Requests -> RequestTxns]
      /\ \A x \in Requests :
           IF x = s THEN req'[x] = next
           ELSE /\ req'[x].op = req[x].op
                /\ req'[x].tok = req[x].tok
                /\ req'[x].link = req[x].link
                /\ req[x] # NoRequest => req'[x].cut
  <2>1. SessionsTypeOK
    OBVIOUS
  <2> HIDE DEF SessionsIInv
  <2> QED
    BY <2>1, OvertakeKeeps
<1>2. /\ row' \in [Tokens -> {"none", "live", "gone"}]
      /\ Live' \subseteq Live \cap {keep} /\ Issued' = Issued
      /\ \A n \in Tokens : row'[n] = "none" <=> row[n] = "none"
  BY DEF EndAll, Delete, Live, Issued, SessionsTypeOK
<1>3. SessionsTypeOK'
  BY <1>1, <1>2 DEF EndAll, SessionsTypeOK, Issued
<1>4. RequestsWellFormed'
  BY <1>1, <1>2 DEF RequestsWellFormed
<1>5. TokensKnown'
  BY <1>2 DEF TokensKnown, EndAll
<1>6. SingleUse'
  BY <1>2 DEF SingleUse, EndAll
<1>7. SurvivorHasCause'
  BY <1>2 DEF SurvivorHasCause, EndAll
<1>8. TxnCarriesCut'
  BY <1>1, NoTxnTyped DEF TxnCarriesCut
<1>9. LockHolds'
  BY <1>1 DEF LockHolds, LoggingIn
<1> QED
  BY <1>3, <1>4, <1>5, <1>6, <1>7, <1>8, <1>9

\* Steps of the lock: the tokens stand still, and no request of theirs moves on.
LEMMA TokensStand ==
  ASSUME SessionsIInv, UNCHANGED <<tokenVars, link, lineage>>,
         \A x \in Requests :
           req'[x].op \in {"rotate", "logout", "reset"} => req'[x] = req[x]
  PROVE  /\ RequestsWellFormed' /\ TokensKnown' /\ SingleUse'
         /\ SurvivorHasCause' /\ TxnCarriesCut'
<1> USE DEF SessionsIInv, tokenVars, lineage
<1>1. Live' = Live /\ Issued' = Issued
  BY DEF Live, Issued
<1>2. RequestsWellFormed'
  BY <1>1 DEF RequestsWellFormed
<1>3. TokensKnown' /\ SingleUse' /\ SurvivorHasCause'
  BY <1>1 DEF TokensKnown, SingleUse, SurvivorHasCause
<1>4. TxnCarriesCut'
  BY DEF TxnCarriesCut
<1> QED
  BY <1>2, <1>3, <1>4

LEMMA LockStepPreserves ==
  ASSUME SessionsIInv, NEW s \in Requests,
         FailWrite(s) \/ LoginClear(s) \/ ResetHook(s)
  PROVE  SessionsIInv'
<1> USE DEF SessionsIInv
<1>1. PICK t \in RequestTxns : /\ req' = [req EXCEPT ![s] = t]
                               /\ t.op \in {"idle", "issue"}
  <2>1. CASE FailWrite(s) \/ ResetHook(s)
    BY <2>1, NoTxnTyped DEF FailWrite, ResetHook, Close
  <2>2. CASE LoginClear(s)
    <3>1. [req[s] EXCEPT !.op = "issue"] \in RequestTxns
      BY DEF SessionsTypeOK, RequestTxns, RequestOps
    <3>2. req' = [req EXCEPT ![s] = [req[s] EXCEPT !.op = "issue"]]
      BY <2>2 DEF LoginClear, SessionsTypeOK
    <3> QED
      BY <3>1, <3>2 DEF RequestTxns
  <2> QED
    BY <2>1, <2>2
<1>2. /\ req' \in [Requests -> RequestTxns]
      /\ \A x \in Requests : req'[x] = IF x = s THEN t ELSE req[x]
  BY <1>1 DEF SessionsTypeOK
<1>3. /\ RequestsWellFormed' /\ TokensKnown' /\ SingleUse'
      /\ SurvivorHasCause' /\ TxnCarriesCut'
  <2>1. UNCHANGED <<tokenVars, link, lineage>>
    BY DEF FailWrite, LoginClear, ResetHook
  <2> QED
    BY <1>1, <1>2, <2>1, TokensStand
<1>4. LoggingIn' = LoggingIn \ {s}
  BY <1>1, <1>2 DEF LoggingIn
<1>5. /\ failed' \in Nat /\ failed' = unpunished' /\ failed' < MaxFailed
      /\ locked' \in BOOLEAN /\ racing' \subseteq Requests
      /\ locked' => LoggingIn' \subseteq racing'
  <2>1. CASE FailWrite(s)
    <3>1. /\ failed \in Nat /\ failed = unpunished /\ failed < MaxFailed
          /\ locked \in BOOLEAN /\ racing \subseteq Requests
          /\ locked => LoggingIn \subseteq racing
          /\ LoggingIn \subseteq Requests
      BY DEF SessionsTypeOK, LockHolds, LoggingIn
    <3>2. CASE failed + 1 >= MaxFailed
      BY <2>1, <3>1, <3>2, <1>4, MaxFailedAssumption DEF FailWrite
    <3>3. CASE ~(failed + 1 >= MaxFailed)
      BY <2>1, <3>1, <3>3, <1>4, MaxFailedAssumption DEF FailWrite
    <3> QED
      BY <3>2, <3>3
  <2>2. CASE LoginClear(s) \/ ResetHook(s)
    <3>1. /\ failed' = 0 /\ unpunished' = 0
          /\ locked' = FALSE /\ racing' = {}
      BY <2>2, Zenon DEF LoginClear, ResetHook, ClearFailures
    <3>2. failed' \in Nat /\ failed' = unpunished' /\ failed' < MaxFailed
      BY <3>1, MaxFailedAssumption
    <3>3. /\ locked' \in BOOLEAN /\ racing' \subseteq Requests
          /\ locked' => LoggingIn' \subseteq racing'
      BY <3>1, Zenon
    <3> QED
      BY <3>2, <3>3
  <2> QED
    BY <2>1, <2>2
<1>6. SessionsTypeOK'
  BY <1>2, <1>5 DEF SessionsTypeOK, FailWrite, LoginClear, ResetHook, tokenVars, lineage
<1> QED
  BY <1>3, <1>5, <1>6 DEF LockHolds

LEMMA LockExpiresPreserves == SessionsIInv /\ LockExpires => SessionsIInv'
<1> SUFFICES ASSUME SessionsIInv, LockExpires PROVE SessionsIInv'
  OBVIOUS
<1>1. UNCHANGED <<tokenVars, link, lineage, req, failed, unpunished>>
  BY DEF LockExpires
<1>2. /\ RequestsWellFormed' /\ TokensKnown' /\ SingleUse'
      /\ SurvivorHasCause' /\ TxnCarriesCut'
  BY <1>1, TokensStand
<1> QED
  BY <1>1, <1>2 DEF SessionsIInv, LockExpires, LockHolds, SessionsTypeOK, tokenVars, lineage

----------------------------------------------------------------------------
(* Tokens. *)

\* A login issues a token; it belongs to an ended session only if the login
\* was overtaken.
LEMMA LoginIssuePreserves ==
  ASSUME SessionsIInv, NEW s \in Requests, NEW n \in Tokens, LoginIssue(s, n)
  PROVE  SessionsIInv'
<1> USE DEF SessionsIInv, lockVars
<1>1. /\ req' \in [Requests -> RequestTxns]
      /\ \A x \in Requests : req'[x] = IF x = s THEN NoRequest ELSE req[x]
  BY NoTxnTyped DEF LoginIssue, Close, SessionsTypeOK
<1>2. /\ row' \in [Tokens -> {"none", "live", "gone"}]
      /\ Live' = Live \cup {n} /\ Issued' = Issued \cup {n}
      /\ n \notin Issued /\ parent' = parent /\ used' = used
  BY DEF LoginIssue, SessionsTypeOK, Live, Issued
<1>3. /\ ended \subseteq ended' /\ ended' \subseteq ended \cup {n}
      /\ overlapped \subseteq overlapped' /\ overlapped' \subseteq overlapped \cup {n}
      /\ n \in ended' => n \in overlapped' \/ n \in ended
  BY DEF LoginIssue
<1>4. SessionsTypeOK'
  BY <1>1, <1>2, <1>3 DEF SessionsTypeOK, LoginIssue
<1>5. RequestsWellFormed'
  BY <1>1, <1>2, NoTxnTyped DEF RequestsWellFormed
<1>6. TokensKnown'
  BY <1>2, <1>3 DEF TokensKnown, LoginIssue, SessionsTypeOK
<1>7. SingleUse'
  BY <1>2 DEF SingleUse, TokensKnown
<1>8. SurvivorHasCause'
  BY <1>2, <1>3 DEF SurvivorHasCause, TokensKnown
<1>9. TxnCarriesCut'
  <2>1. ASSUME NEW x \in Requests, req'[x].op = "rotate"
        PROVE  x # s /\ req[x].tok # n
    BY <1>1, <1>2, <2>1, NoTxnTyped DEF RequestsWellFormed
  <2> QED
    BY <1>1, <1>2, <1>3, <2>1 DEF TxnCarriesCut
<1>10. LockHolds'
  BY <1>1, NoTxnTyped DEF LockHolds, LoggingIn, LoginIssue
<1> QED
  BY <1>4, <1>5, <1>6, <1>7, <1>8, <1>9, <1>10 DEF LoginIssue

\* A rotation consumes its token and hands its session on to the next.
LEMMA RotatePreserves ==
  ASSUME SessionsIInv, NEW s \in Requests, NEW n \in Tokens, RotateWrite(s, n)
  PROVE  SessionsIInv'
<1> DEFINE t == req[s].tok
<1> USE DEF SessionsIInv, lockVars
<1>1. /\ req' \in [Requests -> RequestTxns]
      /\ \A x \in Requests : req'[x] = IF x = s THEN NoRequest ELSE req[x]
  BY NoTxnTyped DEF RotateWrite, Rotate, Close, SessionsTypeOK
<1>2. t \in Tokens /\ t \in Issued /\ t \notin used /\ t # n
  BY DEF RotateWrite, Rotate, RequestsWellFormed, Issued
<1>3. /\ row' \in [Tokens -> {"none", "live", "gone"}]
      /\ \A x \in Tokens : row'[x] = IF x = n THEN "live"
                                     ELSE IF x = t THEN "gone" ELSE row[x]
  BY <1>2 DEF RotateWrite, Rotate, SessionsTypeOK
<1>4. /\ Live' = (Live \ {t}) \cup {n} /\ Issued' = Issued \cup {n}
      /\ n \notin Issued
  BY <1>2, <1>3 DEF Live, Issued, RotateWrite, Rotate
<1>5. /\ parent' \in [Tokens -> Tokens \cup {Nil}]
      /\ \A x \in Tokens : parent'[x] = IF x = n THEN t ELSE parent[x]
      /\ used' = used \cup {t}
  BY <1>2 DEF RotateWrite, Rotate, SessionsTypeOK
<1>6. /\ ended \subseteq ended' /\ ended' \subseteq ended \cup {n}
      /\ overlapped \subseteq overlapped' /\ overlapped' \subseteq overlapped \cup {n}
      /\ n \in ended' => n \in overlapped' \/ n \in ended
  <2>1. t \in ended => req[s].cut \/ t \in overlapped
    BY <1>2 DEF TxnCarriesCut, RotateWrite, Rotate
  <2> QED
    BY <2>1 DEF RotateWrite, Rotate
<1>7. SessionsTypeOK'
  BY <1>1, <1>2, <1>3, <1>5, <1>6 DEF SessionsTypeOK, RotateWrite, Rotate
<1>8. RequestsWellFormed'
  BY <1>1, <1>4, NoTxnTyped DEF RequestsWellFormed
<1>9. TokensKnown'
  BY <1>2, <1>3, <1>4, <1>5, <1>6 DEF TokensKnown
<1>10. SingleUse'
  BY <1>2, <1>4, <1>5 DEF SingleUse, TokensKnown
<1>11. SurvivorHasCause'
  BY <1>4, <1>6 DEF SurvivorHasCause, TokensKnown
<1>12. TxnCarriesCut'
  <2>1. ASSUME NEW x \in Requests, req'[x].op = "rotate"
        PROVE  x # s /\ req[x].tok # n
    BY <1>1, <1>4, <2>1, NoTxnTyped DEF RequestsWellFormed
  <2> QED
    BY <1>1, <1>5, <1>6, <2>1 DEF TxnCarriesCut
<1>13. LockHolds'
  BY <1>1, NoTxnTyped DEF LockHolds, LoggingIn, RotateWrite, Rotate
<1> QED
  BY <1>7, <1>8, <1>9, <1>10, <1>11, <1>12, <1>13 DEF RotateWrite, Rotate

\* One token is deleted: it has expired, its session is revoked, or logged out.
LEMMA DeletePreserves ==
  ASSUME SessionsIInv, NEW t \in Issued, Delete({t}),
         used \subseteq used', used' \subseteq used \cup {t},
         ended \subseteq ended', ended' \subseteq ended \cup {t},
         UNCHANGED <<link, lockVars, parent, overlapped>>,
         req' \in [Requests -> RequestTxns],
         \A x \in Requests :
           \/ req'[x].op = "idle"
           \/ /\ req'[x].op = req[x].op /\ req'[x].tok = req[x].tok
              /\ req'[x].link = req[x].link
              /\ req[x].cut => req'[x].cut
              /\ req[x].tok = t => req'[x].cut \/ t \in used' \/ ended' = ended
  PROVE  SessionsIInv'
<1> USE DEF SessionsIInv, lockVars
<1>1. /\ row' \in [Tokens -> {"none", "live", "gone"}]
      /\ Live' = Live \ {t} /\ Issued' = Issued
      /\ \A n \in Tokens : row'[n] = "none" <=> row[n] = "none"
      /\ t \in Tokens
  BY DEF Delete, Live, Issued, SessionsTypeOK
<1>2. SessionsTypeOK'
  BY <1>1 DEF SessionsTypeOK
<1>3. RequestsWellFormed'
  BY <1>1 DEF RequestsWellFormed
<1>4. TokensKnown'
  BY <1>1 DEF TokensKnown
<1>5. SingleUse'
  BY <1>1 DEF SingleUse
<1>6. SurvivorHasCause'
  BY <1>1 DEF SurvivorHasCause
<1>7. TxnCarriesCut'
  BY DEF TxnCarriesCut
<1>8. LockHolds'
  BY DEF LockHolds, LoggingIn
<1> QED
  BY <1>2, <1>3, <1>4, <1>5, <1>6, <1>7, <1>8

LEMMA DropExpiredPreserves ==
  ASSUME SessionsIInv, NEW t \in Tokens, DropExpired(t)
  PROVE  SessionsIInv'
BY DeletePreserves DEF DropExpired, SessionsIInv, SessionsTypeOK, Live, Issued, lineage

LEMMA RevokeSessionPreserves ==
  ASSUME SessionsIInv, NEW t \in Tokens, RevokeSession(t)
  PROVE  SessionsIInv'
<1> DEFINE S == {s \in Requests : req[s].tok = t}
<1>1. S \in SUBSET Requests /\ SessionsTypeOK
  BY DEF SessionsIInv
<1>2. /\ t \in Issued /\ Delete({t}) /\ Overtake(S, Nil, NoRequest)
      /\ used' = used /\ ended' = ended \cup {t}
      /\ UNCHANGED <<link, lockVars, parent, overlapped>>
  BY DEF RevokeSession, Live, Issued
<1>3. /\ req' \in [Requests -> RequestTxns]
      /\ \A x \in Requests :
           /\ req'[x].op = req[x].op
           /\ req'[x].tok = req[x].tok
           /\ req'[x].link = req[x].link
           /\ req[x].cut => req'[x].cut
           /\ x \in S /\ req[x] # NoRequest => req'[x].cut
  <2> HIDE DEF S
  <2> QED
    <3>1. Overtake(S, Nil, NoRequest) /\ SessionsTypeOK /\ NoRequest \in RequestTxns
      BY <1>1, <1>2, NoTxnTyped
    <3>2. Nil \notin Requests
      BY NilAssumption
    <3>3. \A x \in Requests :
            IF x = Nil THEN req'[x] = NoRequest
            ELSE /\ req'[x].op = req[x].op
                 /\ req'[x].tok = req[x].tok
                 /\ req'[x].link = req[x].link
                 /\ req[x].cut => req'[x].cut
                 /\ x \in S /\ req[x] # NoRequest => req'[x].cut
      BY <3>1, OvertakeKeeps
    <3>4. req' \in [Requests -> RequestTxns]
      BY <3>1, OvertakeKeeps
    <3> QED
      BY <3>2, <3>3, <3>4
<1>4. \A x \in Requests : req[x].tok = t => x \in S /\ req[x] # NoRequest
  <2>1. t # Nil
    BY NilAssumption
  <2> QED
    BY <2>1, NoTxnTyped
<1> QED
  BY <1>2, <1>3, <1>4, NoTxnTyped, DeletePreserves

LEMMA LogoutPreserves ==
  ASSUME SessionsIInv, NEW s \in Requests, LogoutWrite(s)
  PROVE  SessionsIInv'
<1> DEFINE t == req[s].tok
<1>1. /\ t \in Issued /\ Delete({t})
      /\ used' = used \cup {t} /\ ended' = ended \cup {t}
      /\ UNCHANGED <<link, lockVars, parent, overlapped>>
  BY DEF LogoutWrite, SessionsIInv, RequestsWellFormed
<1>2. /\ req' \in [Requests -> RequestTxns]
      /\ \A x \in Requests : req'[x] = IF x = s THEN NoRequest ELSE req[x]
  BY NoTxnTyped DEF LogoutWrite, Close, SessionsIInv, SessionsTypeOK
<1> QED
  BY <1>1, <1>2, NoTxnTyped, DeletePreserves

----------------------------------------------------------------------------
(* Every step. *)

LEMMA InitEstablishes == SessionsInit => SessionsIInv
<1> SUFFICES ASSUME SessionsInit PROVE SessionsIInv
  OBVIOUS
<1>1. SessionsTypeOK
  BY NoTxnTyped DEF SessionsInit, SessionsTypeOK
<1>2. Live = {} /\ LoggingIn = {}
  BY NoTxnTyped DEF SessionsInit, Live, LoggingIn
<1>3. RequestsWellFormed /\ TxnCarriesCut
  BY NoTxnTyped DEF SessionsInit, RequestsWellFormed, TxnCarriesCut
<1>4. TokensKnown /\ SingleUse /\ SurvivorHasCause
  BY <1>2 DEF SessionsInit, TokensKnown, SingleUse, SurvivorHasCause
<1>5. failed = unpunished /\ LockHolds
  BY <1>2, MaxFailedAssumption DEF SessionsInit, LockHolds
<1> QED
  BY <1>1, <1>3, <1>4, <1>5 DEF SessionsIInv

\* The transactions the reads open.
LEMMA OpenedTyped ==
  /\ \A o \in RequestOps : /\ [NoRequest EXCEPT !.op = o] \in RequestTxns
                           /\ [NoRequest EXCEPT !.op = o].op = o
  /\ \A o \in RequestOps, t \in Tokens \cup {Nil} :
       /\ [NoRequest EXCEPT !.op = o, !.tok = t] \in RequestTxns
       /\ [NoRequest EXCEPT !.op = o, !.tok = t].op = o
       /\ [NoRequest EXCEPT !.op = o, !.tok = t].tok = t
  /\ \A o \in RequestOps, l \in Links :
       /\ [NoRequest EXCEPT !.op = o, !.link = l] \in RequestTxns
       /\ [NoRequest EXCEPT !.op = o, !.link = l].op = o
       /\ [NoRequest EXCEPT !.op = o, !.link = l].link = l
BY DEF NoRequest, RequestTxns, RequestOps

\* Reads, and requests that give up.
LEMMA ReadsPreserve ==
  ASSUME SessionsIInv, NEW s \in Requests,
         \/ LoginRead(s) \/ AbortRequest(s)
         \/ \E t \in Tokens : RefreshRead(s, t) \/ LogoutRead(s, t)
         \/ \E keep \in Tokens \cup {Nil} : ChangeRead(s, keep)
         \/ \E l \in Links : ResetRead(s, l)
  PROVE  SessionsIInv'
<1>1. PICK t \in RequestTxns :
        /\ req' = [req EXCEPT ![s] = t]
        /\ t.op \in {"rotate", "logout"} => t.tok \in Live
        /\ t.op = "reset" => t.link \in Links
        /\ t.op \in {"login", "fail"} => ~locked
  <2>1. CASE LoginRead(s)
    <3>1. PICK o \in {"login", "fail"} : req' = [req EXCEPT ![s] = [NoRequest EXCEPT !.op = o]]
      BY <2>1 DEF LoginRead, OpenRequest
    <3> QED
      BY <2>1, <3>1 DEF LoginRead, NoRequest, RequestTxns, RequestOps
  <2>2. CASE AbortRequest(s)
    BY <2>2, NoTxnTyped DEF AbortRequest, Close
  <2>3. ASSUME NEW t \in Tokens, RefreshRead(s, t) \/ LogoutRead(s, t)
        PROVE  \E x \in RequestTxns : /\ req' = [req EXCEPT ![s] = x]
                                      /\ x.op \in {"rotate", "logout", "replay"}
                                      /\ x.op # "replay" => x.tok \in Live
    <3> {"rotate", "logout", "replay"} \subseteq RequestOps
      BY DEF RequestOps
    <3>1. CASE req' = [req EXCEPT ![s] = [NoRequest EXCEPT !.op = "replay"]]
      <4> [NoRequest EXCEPT !.op = "replay"] \in RequestTxns
        BY OpenedTyped
      <4> WITNESS [NoRequest EXCEPT !.op = "replay"] \in RequestTxns
      <4> QED
        BY <3>1, OpenedTyped
    <3>2. ASSUME NEW o \in {"rotate", "logout"}, NEW u \in Live,
                 req' = [req EXCEPT ![s] = [NoRequest EXCEPT !.op = o, !.tok = u]]
          PROVE  \E x \in RequestTxns : /\ req' = [req EXCEPT ![s] = x]
                                        /\ x.op \in {"rotate", "logout", "replay"}
                                        /\ x.op # "replay" => x.tok \in Live
      <4> [NoRequest EXCEPT !.op = o, !.tok = u] \in RequestTxns
        BY OpenedTyped DEF Live
      <4> WITNESS [NoRequest EXCEPT !.op = o, !.tok = u] \in RequestTxns
      <4> QED
        <5>1. o \in RequestOps /\ u \in Tokens
          BY DEF Live, RequestOps
        <5>2. /\ [NoRequest EXCEPT !.op = o, !.tok = u].op = o
              /\ [NoRequest EXCEPT !.op = o, !.tok = u].tok = u
          BY <5>1, OpenedTyped
        <5> QED
          BY <3>2, <5>1, <5>2
    <3> QED
      BY <2>3, <3>1, <3>2 DEF RefreshRead, LogoutRead, OpenRequest
  <2>4. ASSUME NEW keep \in Tokens \cup {Nil}, ChangeRead(s, keep)
        PROVE  \E x \in RequestTxns : /\ req' = [req EXCEPT ![s] = x]
                                      /\ x.op = "change"
    <3> "change" \in RequestOps
      BY DEF RequestOps
    <3> [NoRequest EXCEPT !.op = "change", !.tok = keep] \in RequestTxns
      BY OpenedTyped
    <3> WITNESS [NoRequest EXCEPT !.op = "change", !.tok = keep] \in RequestTxns
    <3> QED
      BY <2>4, OpenedTyped DEF ChangeRead, OpenRequest
  <2>5. ASSUME NEW l \in Links, ResetRead(s, l)
        PROVE  \E x \in RequestTxns : /\ req' = [req EXCEPT ![s] = x]
                                      /\ x.op = "reset" /\ x.link = l
    <3> "reset" \in RequestOps
      BY DEF RequestOps
    <3> [NoRequest EXCEPT !.op = "reset", !.link = l] \in RequestTxns
      BY OpenedTyped
    <3> WITNESS [NoRequest EXCEPT !.op = "reset", !.link = l] \in RequestTxns
    <3> QED
      BY <2>5, OpenedTyped DEF ResetRead, OpenRequest
  <2>6. CASE \E t \in Tokens : RefreshRead(s, t) \/ LogoutRead(s, t)
    <3> PICK x \in RequestTxns : /\ req' = [req EXCEPT ![s] = x]
                                 /\ x.op \in {"rotate", "logout", "replay"}
                                 /\ x.op # "replay" => x.tok \in Live
      BY <2>3, <2>6
    <3>1. /\ x.op \in {"rotate", "logout"} => x.tok \in Live
          /\ x.op \notin {"reset", "login", "fail"}
      OBVIOUS
    <3> QED
      BY <3>1
  <2>7. CASE \E keep \in Tokens \cup {Nil} : ChangeRead(s, keep)
    <3> PICK x \in RequestTxns : req' = [req EXCEPT ![s] = x] /\ x.op = "change"
      BY <2>4, <2>7
    <3> QED
      OBVIOUS
  <2>8. CASE \E l \in Links : ResetRead(s, l)
    <3> PICK l \in Links : ResetRead(s, l)
      BY <2>8
    <3> PICK x \in RequestTxns : /\ req' = [req EXCEPT ![s] = x]
                                 /\ x.op = "reset" /\ x.link = l
      BY <2>5
    <3> QED
      OBVIOUS
  <2> QED
    BY <2>1, <2>2, <2>6, <2>7, <2>8
<1>2. UNCHANGED <<tokenVars, link, lockVars, lineage>>
  BY DEF LoginRead, AbortRequest, RefreshRead, LogoutRead, ChangeRead, ResetRead, OpenRequest
<1> QED
  BY <1>1, <1>2, OpenPreserves

\* The steps that end every session.
LEMMA EndingPreserves ==
  ASSUME SessionsIInv, RevokeAll \/ \E s \in Requests :
                                        ReplayWrite(s) \/ ChangeWrite(s) \/ ResetWrite(s)
  PROVE  SessionsIInv'
<1>1. CASE RevokeAll
  BY <1>1, NoTxnTyped, EndAllPreserves DEF RevokeAll, SessionsIInv, SessionsTypeOK
<1>2. ASSUME NEW s \in Requests, ReplayWrite(s)
      PROVE  SessionsIInv'
  BY <1>2, NoTxnTyped, EndAllPreserves DEF ReplayWrite, SessionsIInv, SessionsTypeOK
<1>3. ASSUME NEW s \in Requests, ChangeWrite(s)
      PROVE  SessionsIInv'
  <2>1. req[s].tok \in Tokens \cup {Nil}
    BY DEF SessionsIInv, SessionsTypeOK, RequestTxns
  <2> QED
    BY <1>3, <2>1, NoTxnTyped, EndAllPreserves DEF ChangeWrite, SessionsIInv, SessionsTypeOK
<1>4. ASSUME NEW s \in Requests, ResetWrite(s)
      PROVE  SessionsIInv'
  <2>1. [NoRequest EXCEPT !.op = "hook"] \in RequestTxns
    BY DEF NoRequest, RequestTxns, RequestOps
  <2>2. [NoRequest EXCEPT !.op = "hook"].op = "hook"
    BY DEF NoRequest
  <2>3. link' \in [Links -> {"none", "sent", "spent"}]
    BY <1>4 DEF ResetWrite, SessionsIInv, SessionsTypeOK
  <2> QED
    BY <1>4, <2>1, <2>2, <2>3, EndAllPreserves DEF ResetWrite
<1> QED
  BY <1>1, <1>2, <1>3, <1>4

LEMMA RequestResetPreserves ==
  ASSUME SessionsIInv, NEW l \in Links, RequestReset(l)
  PROVE  SessionsIInv'
<1> USE DEF SessionsIInv, RequestReset, tokenVars, lockVars, lineage
<1>1. SessionsTypeOK'
  BY DEF SessionsTypeOK
<1>2. Live' = Live /\ Issued' = Issued /\ LoggingIn' = LoggingIn
  BY DEF Live, Issued, LoggingIn
<1>3. RequestsWellFormed' /\ TokensKnown' /\ SingleUse'
  BY <1>2 DEF RequestsWellFormed, TokensKnown, SingleUse
<1>4. SurvivorHasCause' /\ TxnCarriesCut' /\ LockHolds'
  BY <1>2 DEF SurvivorHasCause, TxnCarriesCut, LockHolds
<1> QED
  BY <1>1, <1>3, <1>4

LEMMA StutterPreserves == SessionsIInv /\ UNCHANGED sessionsVars => SessionsIInv'
<1> SUFFICES ASSUME SessionsIInv, UNCHANGED sessionsVars PROVE SessionsIInv'
  OBVIOUS
<1>1. UNCHANGED <<tokenVars, link, lineage, lockVars, req>>
  BY DEF sessionsVars
<1>2. /\ RequestsWellFormed' /\ TokensKnown' /\ SingleUse'
      /\ SurvivorHasCause' /\ TxnCarriesCut'
  BY <1>1, TokensStand
<1> QED
  BY <1>1, <1>2 DEF SessionsIInv, SessionsTypeOK, LockHolds, LoggingIn, tokenVars, lineage, lockVars

LEMMA StepPreserves == SessionsIInv /\ [SessionsNext]_sessionsVars => SessionsIInv'
<1> SUFFICES ASSUME SessionsIInv, SessionsNext PROVE SessionsIInv'
  BY StutterPreserves
<1>1. ASSUME NEW s \in Requests,
             \/ LoginRead(s) \/ AbortRequest(s)
             \/ \E t \in Tokens : RefreshRead(s, t) \/ LogoutRead(s, t)
             \/ \E keep \in Tokens \cup {Nil} : ChangeRead(s, keep)
             \/ \E l \in Links : ResetRead(s, l)
      PROVE  SessionsIInv'
  BY <1>1, ReadsPreserve
<1>2. ASSUME NEW s \in Requests, FailWrite(s) \/ LoginClear(s) \/ ResetHook(s)
      PROVE  SessionsIInv'
  BY <1>2, LockStepPreserves
<1>3. ASSUME NEW s \in Requests, NEW t \in Tokens,
             LoginIssue(s, t) \/ RotateWrite(s, t)
      PROVE  SessionsIInv'
  BY <1>3, LoginIssuePreserves, RotatePreserves
<1>4. ASSUME NEW s \in Requests, LogoutWrite(s)
      PROVE  SessionsIInv'
  BY <1>4, LogoutPreserves
<1>5. ASSUME RevokeAll \/ \E s \in Requests :
                             ReplayWrite(s) \/ ChangeWrite(s) \/ ResetWrite(s)
      PROVE  SessionsIInv'
  BY <1>5, EndingPreserves
<1>6. ASSUME NEW t \in Tokens, DropExpired(t) \/ RevokeSession(t)
      PROVE  SessionsIInv'
  BY <1>6, DropExpiredPreserves, RevokeSessionPreserves
<1>7. ASSUME NEW l \in Links, RequestReset(l)
      PROVE  SessionsIInv'
  BY <1>7, RequestResetPreserves
<1>8. CASE LockExpires
  BY <1>8, LockExpiresPreserves
<1> QED
  BY <1>1, <1>2, <1>3, <1>4, <1>5, <1>6, <1>7, <1>8 DEF SessionsNext, TokenStep

----------------------------------------------------------------------------
(* The theorems. *)

\* The inductive invariant holds: checks made by the reads, the unique hash of
\* used tokens and the atomic failure count keep it, whatever overlaps.
THEOREM Inductive == SessionsSpec => []SessionsIInv
<1> QED
  BY InitEstablishes, StepPreserves, PTL DEF SessionsSpec

\* Every variable keeps its type.
THEOREM TypeCorrect == SessionsSpec => []SessionsTypeOK
<1>1. SessionsIInv => SessionsTypeOK
  BY DEF SessionsIInv
<1> QED
  BY <1>1, Inductive, PTL

\* However many requests present one refresh token, it has one successor.
THEOREM SingleUseHolds == SessionsSpec => []SingleUse
<1>1. SessionsIInv => SingleUse
  BY DEF SessionsIInv
<1> QED
  BY <1>1, Inductive, PTL

\* Whatever ended a session, only a request it overtook can prolong it, and
\* after a logout not even that.
THEOREM SurvivorHasCauseHolds == SessionsSpec => []SurvivorHasCause
<1>1. SessionsIInv => SurvivorHasCause
  BY DEF SessionsIInv
<1> QED
  BY <1>1, Inductive, PTL

\* Failures in a row lock the account in time, and logins that begin under a
\* lock come to nothing.
THEOREM LockHoldsAlways == SessionsSpec => []LockHolds
<1>1. SessionsIInv => LockHolds
  BY DEF SessionsIInv
<1> QED
  BY <1>1, Inductive, PTL

----------------------------------------------------------------------------
(* The account. *)

\* A call that does nothing.
LEMMA NoCallTyped == NoCall \in Calls /\ NoCall.op = "idle"
BY DEF NoCall, Calls, CallOps

\* The initial state.
LEMMA AccountInitEstablishes == AccountInit => AccountIInv
<1> SUFFICES ASSUME AccountInit
             PROVE  AccountIInv
  OBVIOUS
<1>1. Unused = {} /\ Minted = {}
  BY DEF AccountInit, Unused, Minted
<1>2. AccountTypeOK
  BY <1>1, NoCallTyped DEF AccountInit, AccountTypeOK
<1>3. CallsAgree
  BY NoCallTyped DEF AccountInit, CallsAgree, Minting
<1>4. LinksAgree /\ LinksOfOwner /\ ActivationSound
  BY <1>1 DEF AccountInit, LinksAgree, LinksOfOwner, ActivationSound, OneLink, OpenedByItsOwner
<1> QED
  BY <1>2, <1>3, <1>4 DEF AccountIInv

----------------------------------------------------------------------------
(* What a step does to the calls. *)

\* A call that begins, moves on or ends leaves the others as they were.
LEMMA CallSteps ==
  ASSUME AccountTypeOK, NEW c \in Callers, NEW next \in Calls,
         call' = [call EXCEPT ![c] = next]
  PROVE  /\ call' \in [Callers -> Calls]
         /\ \A d \in Callers : call'[d] = IF d = c THEN next ELSE call[d]
BY DEF AccountTypeOK

LEMMA CutsKeep ==
  ASSUME AccountTypeOK, NEW c \in Callers, NEW ops, EndsAndCuts(c, ops)
  PROVE  /\ call' \in [Callers -> Calls]
         /\ call'[c] = NoCall
         /\ \A d \in Callers \ {c} :
              /\ call'[d].op = call[d].op /\ call'[d].signup = call[d].signup
              /\ call'[d].mail = call[d].mail /\ call'[d].seen = call[d].seen
              /\ call'[d].person = call[d].person
              /\ ~call'[d].cut => ~call[d].cut /\ call[d].op \notin ops
<1>1. \A d \in Callers : call[d] \in Calls /\ [call[d] EXCEPT !.cut = TRUE] \in Calls
  BY DEF AccountTypeOK, Calls
<1> QED
  BY <1>1, NoCallTyped DEF EndsAndCuts, Calls

\* The rows stand, and one call is replaced by another that relies on no more
\* than is so.
LEMMA CallPreserves ==
  ASSUME AccountIInv, NEW c \in Callers, NEW next \in Calls,
         call' = [call EXCEPT ![c] = next],
         UNCHANGED <<accountRows, opened, crossing>>,
         next.op \notin {"idle", "create", "guest", "lost"} => user # "none",
         next.op \in {"create", "recycle", "recycling"} => next.signup \in Signups,
         next.op \in {"activate", "again"} => next.mail \in Mails /\ mail[next.mail] # "none",
         next.op \in {"recycle", "recycling", "resend"} /\ ~next.cut => user = "pending",
         next.op \in {"recycling", "resend"} /\ ~next.cut => next.seen = Unused,
         next.op = "purge" =>
           \A m \in next.seen : mail[m] # "none" /\ (mail[m] = "unused" => life[m] = "expired")
  PROVE  AccountIInv'
<1> USE DEF accountRows
<1>1. /\ call' \in [Callers -> Calls]
      /\ \A d \in Callers : call'[d] = IF d = c THEN next ELSE call[d]
  BY CallSteps DEF AccountIInv
<1>2. Unused' = Unused /\ Minted' = Minted
  BY DEF Unused, Minted
<1>3. AccountTypeOK'
  BY <1>1, <1>2 DEF AccountIInv, AccountTypeOK
<1>4. CallsAgree'
  BY <1>1, <1>2 DEF AccountIInv, CallsAgree, Minting
<1>5. LinksAgree' /\ LinksOfOwner'
  BY <1>2 DEF AccountIInv, LinksAgree, LinksOfOwner
<1>6. ActivationSound'
  BY <1>2 DEF AccountIInv, ActivationSound, OneLink, OpenedByItsOwner
<1> QED
  BY <1>3, <1>4, <1>5, <1>6 DEF AccountIInv

\* The reads, and the requests that fail.
LEMMA AccountReadsPreserve ==
  ASSUME AccountIInv, NEW c \in Callers,
         \/ \E s \in Signups, claim \in BOOLEAN : RegisterRead(c, s, claim)
         \/ ResendRead(c) \/ GuestRead(c) \/ PurgeUserRead(c) \/ Fail(c)
         \/ \E m \in Mails : ActivateRead(c, m)
  PROVE  AccountIInv'
<1> USE DEF AccountIInv
<1>1. ASSUME NEW s \in Signups, NEW claim \in BOOLEAN, RegisterRead(c, s, claim)
      PROVE  AccountIInv'
  <2> DEFINE next == [NoCall EXCEPT !.op = IF user = "none" THEN "create" ELSE "recycle",
                                    !.signup = s,
                                    !.person = IF claim THEN PersonRead ELSE "untouched"]
  <2>1. /\ next \in Calls /\ next.signup = s
        /\ next.op = IF user = "none" THEN "create" ELSE "recycle"
    BY DEF NoCall, Calls, CallOps, PersonRead
  <2>2. user \in {"none", "pending"}
    BY <1>1 DEF RegisterRead, AccountTypeOK
  <2>3. call' = [call EXCEPT ![c] = next] /\ UNCHANGED <<accountRows, opened, crossing>>
    BY <1>1 DEF RegisterRead, Begin
  <2> HIDE DEF next, AccountIInv
  <2> QED
    BY <2>1, <2>2, <2>3, CallPreserves
<1>2. CASE ResendRead(c)
  <2> DEFINE next == [NoCall EXCEPT !.op = "resend", !.seen = Unused]
  <2>1. next \in Calls /\ next.op = "resend" /\ next.seen = Unused
    BY DEF NoCall, Calls, CallOps, Unused
  <2>2. call' = [call EXCEPT ![c] = next] /\ UNCHANGED <<accountRows, opened, crossing>>
    BY <1>2 DEF ResendRead, Begin
  <2>3. user = "pending"
    BY <1>2 DEF ResendRead
  <2> HIDE DEF next, AccountIInv
  <2> QED
    BY <2>1, <2>2, <2>3, CallPreserves
<1>3. CASE GuestRead(c)
  <2> DEFINE next == [NoCall EXCEPT !.op = "guest", !.person = PersonRead]
  <2>1. next \in Calls /\ next.op = "guest"
    BY DEF NoCall, Calls, CallOps, PersonRead
  <2>2. call' = [call EXCEPT ![c] = next] /\ UNCHANGED <<accountRows, opened, crossing>>
    BY <1>3 DEF GuestRead, Begin
  <2> HIDE DEF next, AccountIInv
  <2> QED
    BY <2>1, <2>2, CallPreserves
<1>4. CASE PurgeUserRead(c)
  <2> DEFINE next == [NoCall EXCEPT !.op = "purge", !.seen = Minted]
  <2>1. next \in Calls /\ next.op = "purge" /\ next.seen = Minted
    BY DEF NoCall, Calls, CallOps, Minted
  <2>2. call' = [call EXCEPT ![c] = next] /\ UNCHANGED <<accountRows, opened, crossing>>
    BY <1>4 DEF PurgeUserRead, Begin
  <2>3. /\ user = "pending"
        /\ \A m \in Minted : mail[m] # "none" /\ (mail[m] = "unused" => life[m] = "expired")
    BY <1>4 DEF PurgeUserRead, Minted, Unused
  <2> HIDE DEF next, AccountIInv
  <2> QED
    BY <2>1, <2>2, <2>3, CallPreserves
<1>5. CASE Fail(c)
  <2> HIDE DEF AccountIInv
  <2> QED
    BY <1>5, NoCallTyped, CallPreserves DEF Fail
<1>6. ASSUME NEW m \in Mails, ActivateRead(c, m)
      PROVE  AccountIInv'
  <2> DEFINE next == [NoCall EXCEPT !.op = IF user = "pending" THEN "activate" ELSE "again",
                                    !.mail = m, !.person = PersonRead]
  <2>1. /\ next \in Calls /\ next.mail = m
        /\ next.op \in {"activate", "again"}
    BY DEF NoCall, Calls, CallOps, PersonRead
  <2>2. call' = [call EXCEPT ![c] = next] /\ UNCHANGED <<accountRows, opened, crossing>>
    BY <1>6 DEF ActivateRead, Begin
  <2>3. mail[m] = "unused" /\ user # "none"
    BY <1>6 DEF ActivateRead, AccountTypeOK, Minted
  <2> HIDE DEF next, AccountIInv
  <2> QED
    BY <2>1, <2>2, <2>3, CallPreserves
<1> QED
  BY <1>1, <1>2, <1>3, <1>4, <1>5, <1>6

\* A recycling request has the row now, and the links.
LEMMA RecycleLockPreserves ==
  ASSUME AccountIInv, NEW c \in Callers, RecycleLock(c)
  PROVE  AccountIInv'
<1> DEFINE next == [call[c] EXCEPT !.op = "recycling", !.seen = Unused]
<1>1. call[c] \in Calls
  BY DEF AccountIInv, AccountTypeOK
<1>2. /\ next \in Calls /\ next.op = "recycling" /\ next.seen = Unused
      /\ next.signup = call[c].signup /\ next.cut = call[c].cut
  BY <1>1 DEF Calls, CallOps, Unused
<1>3. call' = [call EXCEPT ![c] = next] /\ UNCHANGED <<accountRows, opened, crossing>>
  BY <1>1 DEF RecycleLock, AccountIInv, AccountTypeOK, Calls
<1>4. /\ user # "none" /\ call[c].signup \in Signups
      /\ ~call[c].cut => user = "pending"
  BY DEF RecycleLock, AccountIInv, CallsAgree
<1> HIDE DEF next
<1> QED
  BY <1>2, <1>3, <1>4, CallPreserves

----------------------------------------------------------------------------
(* The requests that mint a link. *)

\* The new link is unused, those that were read are gone, and whoever else was
\* about to mint one is cut.
LEMMA MintKeeps ==
  ASSUME AccountIInv, NEW c \in Callers, NEW m \in Mails,
         NEW name \in Signups \cup {Nobody}, Mint(c, m, name)
  PROVE  /\ mail' \in [Mails -> {"none", "unused", "used", "gone"}]
         /\ carries' \in [Mails -> Signups \cup {Nobody}]
         /\ mail[m] = "none" /\ mail'[m] = "unused" /\ carries'[m] = name
         /\ \A x \in Mails \ {m} :
              /\ carries'[x] = carries[x]
              /\ mail'[x] = IF x \in call[c].seen THEN "gone" ELSE mail[x]
         /\ Unused' = {m} \cup (Unused \ call[c].seen)
         /\ crossing \subseteq crossing' /\ crossing' \subseteq Signups \cup Mails
         /\ call[c].cut => m \in crossing'
         /\ call[c].cut /\ call[c].signup # Nobody => call[c].signup \in crossing'
         /\ Inherits(c) => m \in crossing'
<1>1. /\ mail \in [Mails -> {"none", "unused", "used", "gone"}]
      /\ carries \in [Mails -> Signups \cup {Nobody}]
      /\ crossing \subseteq Signups \cup Mails
      /\ call[c].signup \in Signups \cup {Nobody}
  BY DEF AccountIInv, AccountTypeOK, Calls
<1>2. /\ mail[m] = "none"
      /\ mail' = [x \in Mails |-> IF x = m THEN "unused"
                                  ELSE IF x \in call[c].seen THEN "gone" ELSE mail[x]]
      /\ carries' = [carries EXCEPT ![m] = name]
      /\ crossing' = crossing
                       \cup (IF call[c].cut THEN {m, call[c].signup} \ {Nobody} ELSE {})
                       \cup (IF Inherits(c) THEN {m} ELSE {})
  BY DEF Mint
<1>3. m # Nobody
  BY NobodyAssumption
<1>4. Unused' = {m} \cup (Unused \ call[c].seen)
  BY <1>1, <1>2 DEF Unused
<1>5. /\ crossing \subseteq crossing' /\ crossing' \subseteq Signups \cup Mails
      /\ call[c].cut => m \in crossing'
      /\ call[c].cut /\ call[c].signup # Nobody => call[c].signup \in crossing'
      /\ Inherits(c) => m \in crossing'
  BY <1>1, <1>2, <1>3
<1>6. /\ mail' \in [Mails -> {"none", "unused", "used", "gone"}]
      /\ mail'[m] = "unused"
      /\ \A x \in Mails \ {m} : mail'[x] = IF x \in call[c].seen THEN "gone" ELSE mail[x]
  BY <1>1, <1>2
<1>7. /\ carries' \in [Mails -> Signups \cup {Nobody}]
      /\ carries'[m] = name
      /\ \A x \in Mails \ {m} : carries'[x] = carries[x]
  BY <1>1, <1>2
<1> QED
  BY <1>2, <1>4, <1>5, <1>6, <1>7

\* No other call relies on what it changes, and the account has a link.
LEMMA MintAgrees ==
  ASSUME AccountIInv, NEW c \in Callers, NEW m \in Mails,
         NEW name \in Signups \cup {Nobody}, Mint(c, m, name),
         life' = life, opened' = opened,
         \/ user' = user /\ user # "none"
         \/ user = "none" /\ user' = "pending"
  PROVE  CallsAgree' /\ LinksAgree'
<1> DEFINE Kept(d) ==
      /\ call'[d].op = call[d].op /\ call'[d].signup = call[d].signup
      /\ call'[d].mail = call[d].mail /\ call'[d].seen = call[d].seen
      /\ ~call'[d].cut => ~call[d].cut /\ call[d].op \notin Minting
<1>1. /\ call' \in [Callers -> Calls] /\ call'[c] = NoCall
      /\ \A d \in Callers \ {c} : Kept(d)
  <2>1. AccountTypeOK /\ EndsAndCuts(c, Minting)
    BY DEF AccountIInv, Mint
  <2> QED
    BY <2>1, CutsKeep
<1>2. /\ mail[m] = "none" /\ mail'[m] = "unused"
      /\ \A x \in Mails \ {m} : mail'[x] = IF x \in call[c].seen THEN "gone" ELSE mail[x]
      /\ Unused' = {m} \cup (Unused \ call[c].seen)
  BY MintKeeps
<1>3. ASSUME NEW x \in Mails, mail[x] # "none"
      PROVE  /\ x # m /\ mail'[x] # "none"
             /\ mail'[x] = "unused" => mail[x] = "unused"
  BY <1>2, <1>3
<1>4. CallsAgree'
  <2> SUFFICES ASSUME NEW d \in Callers
               PROVE  LET k == call'[d] IN
                      /\ k.op \notin {"idle", "create", "guest", "lost"} => user' # "none"
                      /\ k.op \in {"create", "recycle", "recycling"} => k.signup \in Signups
                      /\ k.op \in {"activate", "again"} =>
                           k.mail \in Mails /\ mail'[k.mail] # "none"
                      /\ k.op \in {"recycle", "recycling", "resend"} /\ ~k.cut =>
                           user' = "pending"
                      /\ k.op \in Minting /\ ~k.cut => k.seen = Unused'
                      /\ k.op = "purge" =>
                           \A x \in k.seen :
                             /\ mail'[x] # "none"
                             /\ mail'[x] = "unused" => life'[x] = "expired"
    BY DEF CallsAgree, Minting
  <2>1. CASE d = c
    BY <2>1, <1>1, NoCallTyped DEF Minting
  <2>2. CASE d # c
    <3>1. Kept(d) /\ call[d].seen \subseteq Mails
      BY <2>2, <1>1 DEF AccountIInv, AccountTypeOK, Calls
    <3> HIDE DEF Kept
    <3>2. user' # "none"
      OBVIOUS
    <3>3. /\ call[d].op \in {"create", "recycle", "recycling"} => call[d].signup \in Signups
          /\ call[d].op \in {"activate", "again"} =>
               call[d].mail \in Mails /\ mail'[call[d].mail] # "none"
          /\ call[d].op \in {"recycle", "recycling", "resend"} /\ ~call[d].cut =>
               user = "pending"
      BY <1>3 DEF AccountIInv, CallsAgree
    <3>4. call[d].op = "purge" =>
            \A x \in call[d].seen :
              mail'[x] # "none" /\ (mail'[x] = "unused" => life'[x] = "expired")
      BY <1>3, <3>1 DEF AccountIInv, CallsAgree
    <3> QED
      BY <3>1, <3>2, <3>3, <3>4 DEF Kept, Minting
  <2> QED
    BY <2>1, <2>2
<1>5. LinksAgree'
  <2>1. m \in Unused'
    BY <1>2
  <2>2. ASSUME NEW x \in Mails, mail'[x] = "used"
        PROVE  mail[x] = "used"
    BY <2>2, <1>2
  <2> QED
    BY <2>1, <2>2, <1>3 DEF AccountIInv, LinksAgree
<1> QED
  BY <1>4, <1>5

LEMMA CreateWritePreserves ==
  ASSUME AccountIInv, NEW c \in Callers, NEW m \in Mails, CreateWrite(c, m)
  PROVE  AccountIInv'
<1> DEFINE s == call[c].signup
<1>1. /\ call[c].op = "create" /\ user = "none" /\ user' = "pending" /\ password' = s
      /\ aged' = FALSE /\ life' = life /\ opened' = opened /\ Mint(c, m, s)
      /\ PersonWritten(c)
  BY DEF CreateWrite
<1>2. s \in Signups /\ s # Nobody
  BY <1>1, NobodyAssumption DEF AccountIInv, CallsAgree
<1> HIDE DEF s
<1>3. CallsAgree' /\ LinksAgree'
  BY <1>1, <1>2, MintAgrees
<1>4. /\ mail' \in [Mails -> {"none", "unused", "used", "gone"}]
      /\ carries' \in [Mails -> Signups \cup {Nobody}]
      /\ carries'[m] = s
      /\ Unused' = {m} \cup (Unused \ call[c].seen)
      /\ crossing' \subseteq Signups \cup Mails
  BY <1>1, <1>2, MintKeeps
<1>5. Unused' = {m}
  BY <1>1, <1>4 DEF AccountIInv, AccountTypeOK, Minted, Unused
<1>6. person' \in {"none", "lead"}
  BY <1>1 DEF AccountIInv, AccountTypeOK, PersonWritten
<1>7. call' \in [Callers -> Calls]
  BY <1>1, CutsKeep DEF Mint, AccountIInv
<1>8. AccountTypeOK'
  BY <1>1, <1>2, <1>4, <1>6, <1>7 DEF AccountIInv, AccountTypeOK
<1>9. LinksOfOwner' /\ OneLink' /\ OpenedByItsOwner'
  BY <1>1, <1>4, <1>5 DEF LinksOfOwner, OneLink, OpenedByItsOwner
<1> QED
  BY <1>3, <1>8, <1>9 DEF AccountIInv, ActivationSound

\* If it was cut, its password and its link are marked; if not, it read every
\* link that works.
LEMMA RecycleWritePreserves ==
  ASSUME AccountIInv, NEW c \in Callers, NEW m \in Mails, RecycleWrite(c, m)
  PROVE  AccountIInv'
<1> DEFINE s == call[c].signup
<1>1. /\ call[c].op = "recycling" /\ password' = s /\ Mint(c, m, s)
      /\ user' = user /\ aged' = aged /\ life' = life /\ opened' = opened
      /\ PersonWritable(c) /\ PersonWritten(c)
  BY DEF RecycleWrite
<1>2. /\ s \in Signups /\ s # Nobody /\ user # "none"
      /\ ~call[c].cut => user = "pending" /\ call[c].seen = Unused
  BY <1>1, NobodyAssumption DEF AccountIInv, CallsAgree, Minting
<1>3. CallsAgree' /\ LinksAgree'
  BY <1>1, <1>2, MintAgrees
<1>4. /\ mail' \in [Mails -> {"none", "unused", "used", "gone"}]
      /\ carries' \in [Mails -> Signups \cup {Nobody}]
      /\ carries'[m] = s
      /\ Unused' = {m} \cup (Unused \ call[c].seen)
      /\ crossing \subseteq crossing' /\ crossing' \subseteq Signups \cup Mails
      /\ call[c].cut => m \in crossing' /\ s \in crossing'
  BY <1>1, <1>2, MintKeeps
<1> HIDE DEF s
<1>5. ~call[c].cut => Unused' = {m}
  BY <1>2, <1>4
<1>6. person' \in {"none", "lead", "linked"} /\ (person' = "linked" <=> person = "linked")
  BY <1>1 DEF AccountIInv, AccountTypeOK, PersonWritten, PersonWritable
<1>7. call' \in [Callers -> Calls]
  BY <1>1, CutsKeep DEF Mint, AccountIInv
<1>8. AccountTypeOK'
  BY <1>1, <1>2, <1>4, <1>6, <1>7 DEF AccountIInv, AccountTypeOK
<1>9. LinksOfOwner'
  BY <1>1, <1>4, <1>5 DEF LinksOfOwner
<1>10. OneLink'
  BY <1>4, <1>5 DEF AccountIInv, ActivationSound, OneLink
<1>11. OpenedByItsOwner'
  BY <1>1, <1>2, <1>4 DEF OpenedByItsOwner
<1> QED
  BY <1>3, <1>8, <1>9, <1>10, <1>11 DEF AccountIInv, ActivationSound

\* The name is that of a link which worked when it was read, or the link is
\* marked.
LEMMA ResendMints ==
  ASSUME AccountIInv, NEW c \in Callers, NEW m \in Mails, NEW name \in Signups \cup {Nobody},
         call[c].op = "resend", Mint(c, m, name),
         UNCHANGED <<user, password, aged, person, life, opened>>,
         name = password \/ m \in crossing' \/ password \in crossing
  PROVE  AccountIInv'
<1>1. /\ user # "none"
      /\ ~call[c].cut => call[c].seen = Unused
  BY DEF AccountIInv, CallsAgree, Minting
<1>2. CallsAgree' /\ LinksAgree'
  BY <1>1, MintAgrees
<1>3. /\ mail' \in [Mails -> {"none", "unused", "used", "gone"}]
      /\ carries' \in [Mails -> Signups \cup {Nobody}]
      /\ mail[m] = "none" /\ carries'[m] = name
      /\ \A x \in Mails \ {m} : carries'[x] = carries[x]
      /\ Unused' = {m} \cup (Unused \ call[c].seen)
      /\ crossing \subseteq crossing' /\ crossing' \subseteq Signups \cup Mails
      /\ call[c].cut => m \in crossing'
  BY MintKeeps
<1>4. ~call[c].cut => Unused' = {m}
  BY <1>1, <1>3
<1>5. call' \in [Callers -> Calls]
  BY CutsKeep DEF Mint, AccountIInv
<1>6. AccountTypeOK'
  BY <1>1, <1>3, <1>5 DEF AccountIInv, AccountTypeOK
<1>7. LinksOfOwner'
  <2> SUFFICES ASSUME NEW x \in Unused'
               PROVE  carries'[x] = password' \/ {x, password'} \cap crossing' # {}
    BY DEF LinksOfOwner
  <2>1. CASE x = m
    BY <2>1, <1>3
  <2>2. CASE x # m
    <3>1. x \in Unused /\ x \in Mails \ {m}
      BY <2>2, <1>3 DEF Unused
    <3>2. carries[x] = password \/ {x, password} \cap crossing # {}
      BY <3>1 DEF AccountIInv, LinksOfOwner
    <3> QED
      BY <3>1, <3>2, <1>3
  <2> QED
    BY <2>1, <2>2
<1>8. OneLink'
  BY <1>3, <1>4 DEF AccountIInv, ActivationSound, OneLink
<1>9. OpenedByItsOwner'
  <2> SUFFICES ASSUME user = "active"
               PROVE  carries'[opened] = password \/ {opened, password} \cap crossing' # {}
    BY DEF OpenedByItsOwner
  <2>1. opened \in Mails \ {m}
    BY <1>3 DEF AccountIInv, LinksAgree
  <2> QED
    BY <2>1, <1>3 DEF AccountIInv, ActivationSound, OpenedByItsOwner
<1> QED
  BY <1>2, <1>6, <1>7, <1>8, <1>9 DEF AccountIInv, ActivationSound

LEMMA ResendWritePreserves ==
  ASSUME AccountIInv, NEW c \in Callers, NEW m \in Mails, ResendWrite(c, m)
  PROVE  AccountIInv'
<1>1. /\ call[c].op = "resend"
      /\ UNCHANGED <<user, password, aged, person, life, opened>>
      /\ IF call[c].seen = {} THEN Mint(c, m, Nobody)
         ELSE \E x \in call[c].seen : Mint(c, m, carries[x])
  BY DEF ResendWrite
<1>2. ~call[c].cut => user = "pending" /\ call[c].seen = Unused
  BY <1>1 DEF AccountIInv, CallsAgree, Minting
<1>3. CASE call[c].seen = {}
  <2>1. Mint(c, m, Nobody) /\ call[c].cut
    BY <1>1, <1>2, <1>3 DEF AccountIInv, LinksAgree
  <2>2. m \in crossing'
    BY <2>1, MintKeeps
  <2> QED
    BY <1>1, <2>1, <2>2, ResendMints
<1>4. CASE call[c].seen # {}
  <2>1. PICK x \in call[c].seen : Mint(c, m, carries[x])
    BY <1>1, <1>4
  <2>2. x \in Mails /\ carries[x] \in Signups \cup {Nobody}
    BY DEF AccountIInv, AccountTypeOK, Calls
  <2>3. /\ call[c].cut => m \in crossing'
        /\ Inherits(c) => m \in crossing'
    BY <2>1, <2>2, MintKeeps
  <2>4. ~call[c].cut => carries[x] = password \/ x \in crossing \/ password \in crossing
    BY <1>2 DEF AccountIInv, LinksOfOwner
  <2>5. x \in crossing => Inherits(c)
    BY <1>1 DEF Inherits
  <2> QED
    BY <1>1, <2>1, <2>2, <2>3, <2>4, <2>5, ResendMints
<1> QED
  BY <1>3, <1>4

----------------------------------------------------------------------------
(* The other writes. *)

\* A link that opens a pending account worked until now, so LinksOfOwner had it.
LEMMA ActivateWritePreserves ==
  ASSUME AccountIInv, NEW c \in Callers, ActivateWrite(c)
  PROVE  AccountIInv'
<1> DEFINE m == call[c].mail
           ops == {"recycle", "recycling", "resend"}
<1>1. /\ call[c].op \in {"activate", "again"} /\ mail[m] # "gone"
      /\ person' = "linked" /\ user' = "active" /\ mail' = [mail EXCEPT ![m] = "used"]
      /\ opened' = IF user = "pending" THEN m ELSE opened
      /\ EndsAndCuts(c, ops)
      /\ UNCHANGED <<password, aged, life, carries, crossing>>
  BY DEF ActivateWrite
<1>2. m \in Mails /\ mail[m] # "none" /\ user \in {"pending", "active"}
  BY <1>1 DEF AccountIInv, CallsAgree, AccountTypeOK
<1>3. /\ call' \in [Callers -> Calls] /\ call'[c] = NoCall
      /\ \A d \in Callers \ {c} :
           /\ call'[d].op = call[d].op /\ call'[d].signup = call[d].signup
           /\ call'[d].mail = call[d].mail /\ call'[d].seen = call[d].seen
           /\ ~call'[d].cut => ~call[d].cut /\ call[d].op \notin ops
  BY <1>1, CutsKeep DEF AccountIInv
<1> HIDE DEF m
<1>4. /\ mail' \in [Mails -> {"none", "unused", "used", "gone"}]
      /\ mail'[m] = "used" /\ \A x \in Mails \ {m} : mail'[x] = mail[x]
  BY <1>1, <1>2 DEF AccountIInv, AccountTypeOK
<1>5. Unused' = Unused \ {m} /\ Minted' = Minted \cup {m}
  BY <1>2, <1>4 DEF Unused, Minted
<1>6. AccountTypeOK'
  BY <1>1, <1>2, <1>3, <1>4 DEF AccountIInv, AccountTypeOK
<1>7. CallsAgree'
  <2> SUFFICES ASSUME NEW d \in Callers
               PROVE  LET k == call'[d] IN
                      /\ k.op \notin {"idle", "create", "guest", "lost"} => user' # "none"
                      /\ k.op \in {"create", "recycle", "recycling"} => k.signup \in Signups
                      /\ k.op \in {"activate", "again"} =>
                           k.mail \in Mails /\ mail'[k.mail] # "none"
                      /\ k.op \in {"recycle", "recycling", "resend"} /\ ~k.cut =>
                           user' = "pending"
                      /\ k.op \in Minting /\ ~k.cut => k.seen = Unused'
                      /\ k.op = "purge" =>
                           \A x \in k.seen :
                             /\ mail'[x] # "none"
                             /\ mail'[x] = "unused" => life'[x] = "expired"
    BY DEF CallsAgree, Minting
  <2>1. CASE d = c
    BY <2>1, <1>3, NoCallTyped DEF Minting
  <2>2. CASE d # c
    <3>1. call[d].seen \subseteq Mails
      BY DEF AccountIInv, AccountTypeOK, Calls
    <3>2. ASSUME NEW x \in Mails, mail[x] # "none"
          PROVE  mail'[x] # "none" /\ (mail'[x] = "unused" => mail[x] = "unused")
      BY <3>2, <1>4
    <3>3. /\ call[d].op \in {"create", "recycle", "recycling"} => call[d].signup \in Signups
          /\ call[d].op \in {"activate", "again"} =>
               call[d].mail \in Mails /\ mail'[call[d].mail] # "none"
      BY <3>2 DEF AccountIInv, CallsAgree
    <3>4. call[d].op = "purge" =>
            \A x \in call[d].seen :
              mail'[x] # "none" /\ (mail'[x] = "unused" => life'[x] = "expired")
      BY <3>1, <3>2, <1>1 DEF AccountIInv, CallsAgree
    <3> QED
      BY <2>2, <1>1, <1>3, <3>3, <3>4 DEF Minting
  <2> QED
    BY <2>1, <2>2
<1>8. LinksAgree'
  BY <1>1, <1>2, <1>4 DEF AccountIInv, LinksAgree
<1>9. LinksOfOwner' /\ OneLink'
  BY <1>1, <1>5 DEF AccountIInv, LinksOfOwner, ActivationSound, OneLink
<1>10. OpenedByItsOwner'
  <2>1. CASE user = "pending"
    <3>1. m \in Unused
      BY <2>1, <1>1, <1>2 DEF AccountIInv, AccountTypeOK, LinksAgree, Unused
    <3> QED
      BY <2>1, <3>1, <1>1 DEF AccountIInv, LinksOfOwner, OpenedByItsOwner
  <2>2. CASE user = "active"
    BY <2>2, <1>1 DEF AccountIInv, ActivationSound, OpenedByItsOwner
  <2> QED
    BY <2>1, <2>2, <1>2
<1> QED
  BY <1>6, <1>7, <1>8, <1>9, <1>10 DEF AccountIInv, ActivationSound

LEMMA GuestWritePreserves ==
  ASSUME AccountIInv, NEW c \in Callers, GuestWrite(c)
  PROVE  AccountIInv'
<1>1. /\ PersonWritable(c) /\ PersonWritten(c) /\ EndsAndCuts(c, {})
      /\ UNCHANGED <<user, password, aged, mail, life, carries, opened, crossing>>
  BY DEF GuestWrite
<1>2. /\ call' \in [Callers -> Calls] /\ call'[c] = NoCall
      /\ \A d \in Callers \ {c} :
           /\ call'[d].op = call[d].op /\ call'[d].signup = call[d].signup
           /\ call'[d].mail = call[d].mail /\ call'[d].seen = call[d].seen
           /\ ~call'[d].cut => ~call[d].cut
  BY <1>1, CutsKeep DEF AccountIInv
<1>3. Unused' = Unused /\ Minted' = Minted
  BY <1>1 DEF Unused, Minted
<1>4. person' \in {"none", "lead", "linked"} /\ (person' = "linked" <=> person = "linked")
  BY <1>1 DEF AccountIInv, AccountTypeOK, PersonWritten, PersonWritable
<1>5. AccountTypeOK'
  BY <1>1, <1>2, <1>3, <1>4 DEF AccountIInv, AccountTypeOK
<1>6. CallsAgree'
  BY <1>1, <1>2, <1>3, NoCallTyped DEF AccountIInv, CallsAgree, Minting
<1>7. LinksAgree' /\ LinksOfOwner'
  BY <1>1, <1>3 DEF AccountIInv, LinksAgree, LinksOfOwner
<1>8. ActivationSound'
  BY <1>1, <1>3 DEF AccountIInv, ActivationSound, OneLink, OpenedByItsOwner
<1> QED
  BY <1>5, <1>6, <1>7, <1>8 DEF AccountIInv

\* Time passes.
LEMMA AgesPreserve ==
  ASSUME AccountIInv, UserAges \/ \E m \in Mails : LinkAges(m)
  PROVE  AccountIInv'
<1>1. UNCHANGED <<user, password, person, mail, carries, call, opened, crossing>>
  BY DEF UserAges, LinkAges
<1>2. aged' \in BOOLEAN /\ life' \in [Mails -> {"hour", "valid", "expired"}]
  BY DEF UserAges, LinkAges, AccountIInv, AccountTypeOK
<1>3. \A x \in Mails : life[x] = "expired" => life'[x] = "expired"
  BY DEF UserAges, LinkAges, AccountIInv, AccountTypeOK
<1>4. Unused' = Unused /\ Minted' = Minted
  BY <1>1 DEF Unused, Minted
<1>5. AccountTypeOK'
  BY <1>1, <1>2, <1>4 DEF AccountIInv, AccountTypeOK
<1>6. CallsAgree'
  <2>1. \A c \in Callers : call[c].seen \subseteq Mails
    BY DEF AccountIInv, AccountTypeOK, Calls
  <2> QED
    BY <2>1, <1>1, <1>3, <1>4 DEF AccountIInv, CallsAgree, Minting
<1>7. LinksAgree' /\ LinksOfOwner' /\ ActivationSound'
  BY <1>1, <1>4 DEF AccountIInv, LinksAgree, LinksOfOwner, ActivationSound, OneLink,
                    OpenedByItsOwner
<1> QED
  BY <1>5, <1>6, <1>7 DEF AccountIInv

\* Nothing of the account is left but a lead, and requests that can only fail.
LEMMA PurgeUserWritePreserves ==
  ASSUME AccountIInv, NEW c \in Callers, PurgeUserWrite(c)
  PROVE  AccountIInv'
<1>1. CASE user # "pending"
  <2>1. /\ call' = [call EXCEPT ![c] = NoCall]
        /\ UNCHANGED <<accountRows, opened, crossing>>
    BY <1>1 DEF PurgeUserWrite
  <2> QED
    BY <2>1, NoCallTyped, CallPreserves
<1>2. CASE user = "pending"
  <2>1. PurgeUser(c) /\ UNCHANGED <<life, carries, crossing>>
    BY <1>2 DEF PurgeUserWrite
  <2>2. /\ user' = "none" /\ password' = Nobody /\ aged' = FALSE /\ opened' = Nobody
        /\ mail' = [m \in Mails |-> IF m \in Minted THEN "gone" ELSE mail[m]]
        /\ person' = IF person = "linked" THEN "lead" ELSE person
    BY <2>1 DEF PurgeUser
  <2>3. /\ mail' \in [Mails -> {"none", "unused", "used", "gone"}]
        /\ \A m \in Mails : mail'[m] \in {"none", "gone"}
    BY <2>2 DEF AccountIInv, AccountTypeOK, Minted
  <2>4. Unused' = {} /\ Minted' = {}
    BY <2>3 DEF Unused, Minted
  <2>5. \A d \in Callers :
          /\ call[d] \in Calls
          /\ [call[d] EXCEPT !.op = "lost"] \in Calls
    BY SMTT(30) DEF AccountIInv, AccountTypeOK, Calls, CallOps
  <2>6. call' = [d \in Callers |->
                   IF d = c THEN NoCall
                   ELSE IF call[d].op \in {"idle", "create", "guest"} THEN call[d]
                   ELSE [call[d] EXCEPT !.op = "lost"]]
    BY <2>1 DEF PurgeUser
  <2>7. call' \in [Callers -> Calls]
    BY <2>5, <2>6, NoCallTyped
  <2>8. \A d \in Callers :
          /\ call'[d].op \in {"idle", "create", "guest", "lost"}
          /\ call'[d].op = "create" => call[d].op = "create" /\ call'[d].signup = call[d].signup
    BY <2>5, <2>6, NoCallTyped DEF Calls
  <2>9. AccountTypeOK'
    <3>1. person' \in {"none", "lead"}
      BY <2>2 DEF AccountIInv, AccountTypeOK
    <3> QED
      BY <2>1, <2>2, <2>3, <2>4, <2>7, <3>1 DEF AccountIInv, AccountTypeOK
  <2>10. CallsAgree'
    BY <2>8 DEF AccountIInv, CallsAgree, Minting
  <2>11. LinksAgree' /\ LinksOfOwner' /\ ActivationSound'
    BY <2>2, <2>3, <2>4 DEF LinksAgree, LinksOfOwner, ActivationSound, OneLink, OpenedByItsOwner
  <2> QED
    BY <2>9, <2>10, <2>11 DEF AccountIInv
<1> QED
  BY <1>1, <1>2

LEMMA AccountStepPreserves == AccountIInv /\ [AccountNext]_accountVars => AccountIInv'
<1> SUFFICES ASSUME AccountIInv, [AccountNext]_accountVars
             PROVE  AccountIInv'
  OBVIOUS
<1>1. ASSUME NEW c \in Callers,
             \/ \E s \in Signups, claim \in BOOLEAN : RegisterRead(c, s, claim)
             \/ ResendRead(c) \/ GuestRead(c) \/ PurgeUserRead(c) \/ Fail(c)
             \/ \E m \in Mails : ActivateRead(c, m)
      PROVE  AccountIInv'
  BY <1>1, AccountReadsPreserve
<1>2. ASSUME NEW c \in Callers, RecycleLock(c)
      PROVE  AccountIInv'
  BY <1>2, RecycleLockPreserves
<1>3. ASSUME NEW c \in Callers, NEW m \in Mails,
             CreateWrite(c, m) \/ RecycleWrite(c, m) \/ ResendWrite(c, m)
      PROVE  AccountIInv'
  BY <1>3, CreateWritePreserves, RecycleWritePreserves, ResendWritePreserves
<1>4. ASSUME NEW c \in Callers, ActivateWrite(c) \/ GuestWrite(c) \/ PurgeUserWrite(c)
      PROVE  AccountIInv'
  BY <1>4, ActivateWritePreserves, GuestWritePreserves, PurgeUserWritePreserves
<1>5. CASE UserAges \/ \E m \in Mails : LinkAges(m)
  BY <1>5, AgesPreserve
<1>6. CASE UNCHANGED accountVars
  <2>1. UNCHANGED <<user, password, aged, person, mail, life, carries, call, opened, crossing>>
    BY <1>6 DEF accountVars, accountRows
  <2>2. Unused' = Unused /\ Minted' = Minted
    BY <2>1 DEF Unused, Minted
  <2>3. AccountTypeOK' /\ CallsAgree'
    BY <2>1, <2>2 DEF AccountIInv, AccountTypeOK, CallsAgree, Minting
  <2>4. LinksAgree' /\ LinksOfOwner' /\ ActivationSound'
    BY <2>1, <2>2 DEF AccountIInv, LinksAgree, LinksOfOwner, ActivationSound, OneLink,
                      OpenedByItsOwner
  <2> QED
    BY <2>3, <2>4 DEF AccountIInv
<1> QED
  BY <1>1, <1>2, <1>3, <1>4, <1>5, <1>6 DEF AccountNext

----------------------------------------------------------------------------
(* The theorems. *)

\* The invariant holds in every behaviour of candidate_registration.py and of
\* the purge of maintenance.py.
THEOREM AccountInductive == AccountSpec => []AccountIInv
<1>1. AccountInit => AccountIInv
  BY AccountInitEstablishes
<1>2. AccountIInv /\ [AccountNext]_accountVars => AccountIInv'
  BY AccountStepPreserves
<1> QED
  BY <1>1, <1>2, PTL DEF AccountSpec

\* Every row and every request has its type; a user without a password, an
\* active user without a profile and a link without a user do not occur.
THEOREM AccountTypeCorrect == AccountSpec => []AccountTypeOK
<1>1. AccountIInv => AccountTypeOK
  BY DEF AccountIInv
<1> QED
  BY <1>1, AccountInductive, PTL

\* _delete_stale_tokens leaves one link that works, and a link opens the account
\* with the password its registration chose, unless a request crossed another.
THEOREM ActivationSoundHolds == AccountSpec => []ActivationSound
<1>1. AccountIInv => ActivationSound
  BY DEF AccountIInv
<1> QED
  BY <1>1, AccountInductive, PTL

\* Only the purge ends an account, while it is pending, and never past a link it
\* read and that still works.
THEOREM NobodyPurgedInErrorHolds == AccountSpec => NobodyPurgedInError
<1> DEFINE Rightly ==
      user # "none" /\ user' = "none" =>
        /\ user = "pending"
        /\ \E c \in Callers :
             /\ call[c].op = "purge" /\ call'[c] = NoCall
             /\ \A m \in Unused \cap call[c].seen : life[m] = "expired"
<1>1. AccountIInv /\ [AccountNext]_accountVars => [Rightly]_accountVars
  <2> SUFFICES ASSUME AccountIInv, AccountNext, user # "none", user' = "none"
               PROVE  Rightly
    OBVIOUS
  <2>1. PICK c \in Callers : PurgeUserWrite(c)
    BY DEF AccountNext, RecycleLock, ResendRead, ActivateWrite, GuestRead, GuestWrite,
           PurgeUserRead, Fail, RegisterRead, CreateWrite, RecycleWrite, ResendWrite,
           ActivateRead, LinkAges, UserAges, Begin, accountRows
  <2>2. user = "pending" /\ call[c].op = "purge" /\ PurgeUser(c)
    BY <2>1 DEF PurgeUserWrite, accountRows
  <2>3. call'[c] = NoCall
    BY <2>2 DEF PurgeUser
  <2>4. \A m \in Unused \cap call[c].seen : life[m] = "expired"
    BY <2>2 DEF AccountIInv, CallsAgree, Unused
  <2> QED
    BY <2>2, <2>3, <2>4
<1> QED
  BY <1>1, AccountInductive, PTL DEF AccountSpec, NobodyPurgedInError

----------------------------------------------------------------------------
(* The parts of an account together. *)

\* The invariants of the parts, and the part a behaviour is of.
PartsCore ==
  /\ part \in Parts
  /\ SessionsIInv /\ AccountIInv /\ ResumeIInv /\ ExportIInv

\* In one part, the others stay as they are.
LEMMA OnePartMoves ==
  ASSUME [PartsNext]_<<part, sessionsVars, accountVars, resumeVars, exportVars>>
  PROVE  /\ part' = part
         /\ [SessionsNext]_sessionsVars /\ [AccountNext]_accountVars
         /\ [ResumeNext]_resumeVars /\ [ExportNext]_exportVars
BY DEF PartsNext, OnPart

\* Every part begins as its own module says.
LEMMA PartsInitEstablishes == PartsInit => PartsCore
BY InitEstablishes, AccountInitEstablishes, ResumeInitEstablishes, ExportInitEstablishes
   DEF PartsInit, PartsCore

\* Every step of one part keeps the invariants of all of them.
LEMMA PartsStepPreserves ==
  PartsCore /\ [PartsNext]_<<part, sessionsVars, accountVars, resumeVars, exportVars>> => PartsCore'
BY OnePartMoves, StepPreserves, AccountStepPreserves, ResumeStepPreserves, ExportStepPreserves
   DEF PartsCore

\* The parts keep their types next to each other, whichever of them a behaviour is of.
THEOREM PartsTypeCorrect == PartsSpec => []PartsTypeOK
<1>1. PartsCore => PartsTypeOK
  BY DEF PartsCore, PartsTypeOK, SessionsIInv, AccountIInv, ResumeIInv, ExportIInv
<1> QED
  BY <1>1, PartsInitEstablishes, PartsStepPreserves, PTL DEF PartsSpec

\* Seen from one part, a behaviour of the account is a behaviour of that part: what holds
\* of the sessions, the activation, the files and the exports holds of the account.
THEOREM PartsImplement ==
  PartsSpec => SessionsSpec /\ AccountSpec /\ ResumeSpec /\ ExportSpec
<1>1. PartsInit => SessionsInit /\ AccountInit /\ ResumeInit /\ ExportInit
  BY DEF PartsInit
<1>2. [PartsNext]_<<part, sessionsVars, accountVars, resumeVars, exportVars>> =>
        /\ [SessionsNext]_sessionsVars /\ [AccountNext]_accountVars
        /\ [ResumeNext]_resumeVars /\ [ExportNext]_exportVars
  BY OnePartMoves
<1> QED
  BY <1>1, <1>2, PTL DEF PartsSpec, SessionsSpec, AccountSpec, ResumeSpec, ExportSpec
============================================================================
