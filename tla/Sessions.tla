------------------------------ MODULE Sessions ------------------------------
(***************************************************************************)
(* One user's sessions: login with its lockout, rotation of refresh        *)
(* tokens with replay detection, logout, revocation, password change and   *)
(* password reset.                                                         *)
(*                                                                         *)
(* A session is a chain of refresh tokens: each refresh consumes one and   *)
(* issues the next.  A request reads and checks, and writes later without  *)
(* checking again; between the two, other requests of the same user        *)
(* commit.  What a request writes before it answers 401 goes through a     *)
(* transaction of its own, since its own is rolled back.  Users share no   *)
(* row here, so one is enough.                                             *)
(***************************************************************************)
EXTENDS Naturals

CONSTANTS
  Tokens,     \* refresh tokens, each issued once
  Links,      \* password-reset links, each requested once
  Requests,   \* requests the API handles at a time
  Nil,
  MaxFailed   \* _MAX_FAILED_ATTEMPTS

ASSUME MaxFailedAssumption == MaxFailed \in Nat \ {0}
ASSUME NilAssumption == Nil \notin Tokens \cup Links \cup Requests

VARIABLES
  row,        \* the refreshtoken row of each token
  used,       \* token hashes in usedrefreshtoken
  link,       \* the user's reset links
  failed,     \* user.failed_login_attempts
  locked,     \* user.locked_until lies ahead
  req,        \* what each request has read and is about to write
  \* For the properties:
  parent,     \* the token each token was rotated from
  ended,      \* tokens issued before an event that ends their session
  overlapped, \* tokens issued by a request that such an event overtook
  unpunished, \* failures since the last success, reset or lock
  racing      \* logins under way when the account was locked

tokenVars == <<row, used>>
lockVars  == <<failed, locked, unpunished, racing>>
lineage   == <<parent, ended, overlapped>>
sessionsVars == <<tokenVars, link, lockVars, req, lineage>>

RequestOps == {"idle", "login", "issue", "fail", "rotate", "replay", "logout",
        "change", "reset", "hook"}

RequestTxns == [op : RequestOps,
         tok : Tokens \cup {Nil},
         link : Links \cup {Nil},
         cut : BOOLEAN]    \* a session-ending event came after the read

NoRequest == [op |-> "idle", tok |-> Nil, link |-> Nil, cut |-> FALSE]

Live == {t \in Tokens : row[t] = "live"}
Issued == {t \in Tokens : row[t] # "none"}
LoggingIn == {s \in Requests : req[s].op \in {"login", "fail"}}

SessionsTypeOK ==
  /\ row \in [Tokens -> {"none", "live", "gone"}]
  /\ used \subseteq Tokens
  /\ link \in [Links -> {"none", "sent", "spent"}]
  /\ failed \in Nat
  /\ locked \in BOOLEAN
  /\ req \in [Requests -> RequestTxns]
  /\ parent \in [Tokens -> Tokens \cup {Nil}]
  /\ ended \subseteq Tokens
  /\ overlapped \subseteq Tokens
  /\ unpunished \in Nat
  /\ racing \subseteq Requests

SessionsInit ==
  /\ row = [t \in Tokens |-> "none"]
  /\ used = {}
  /\ link = [l \in Links |-> "none"]
  /\ failed = 0
  /\ locked = FALSE
  /\ req = [s \in Requests |-> NoRequest]
  /\ parent = [t \in Tokens |-> Nil]
  /\ ended = {}
  /\ overlapped = {}
  /\ unpunished = 0
  /\ racing = {}

----------------------------------------------------------------------------
(* Helpers. *)

OpenRequest(s, t) ==
  /\ req[s] = NoRequest
  /\ req' = [req EXCEPT ![s] = t]
  /\ UNCHANGED <<tokenVars, link, lockVars, lineage>>

Close(s) == req' = [req EXCEPT ![s] = NoRequest]

\* The request fails or its process dies; what it has not committed is undone.
AbortRequest(s) ==
  /\ req[s] # NoRequest
  /\ Close(s)
  /\ UNCHANGED <<tokenVars, link, lockVars, lineage>>

\* Mutant: tokens are marked and not deleted.
DeleteMarks(S) == row' = [t \in Tokens |-> IF t \in S THEN "revoked" ELSE row[t]]

Delete(S) == row' = [t \in Tokens |-> IF t \in S THEN "gone" ELSE row[t]]

\* History: the event of request s (Nil: of none) overtakes the open requests
\* in S; s itself goes on with next.
Overtake(S, s, next) ==
  req' = [x \in Requests |->
            IF x = s THEN next
            ELSE IF x \in S /\ req[x] # NoRequest THEN [req[x] EXCEPT !.cut = TRUE]
            ELSE req[x]]

\* Every session of the user ends, keep's excepted.
EndAll(keep) ==
  /\ Delete(Live \ {keep})
  /\ ended' = Issued \ {keep}
  /\ overlapped' = {}
  /\ UNCHANGED <<used, parent>>

ClearFailures ==
  /\ failed' = 0
  /\ locked' = FALSE
  /\ unpunished' = 0
  /\ racing' = {}

----------------------------------------------------------------------------
(* Login. *)

\* authenticate_user: the user row, its password and its lock are read.
LoginRead(s) ==
  /\ ~locked
  /\ \E ok \in BOOLEAN :
       OpenRequest(s, [NoRequest EXCEPT !.op = IF ok THEN "login" ELSE "fail"])

\* Mutant: the account locks one failure late.
FailWriteLate(s) ==
  /\ req[s].op = "fail"
  /\ Close(s)
  /\ IF failed + 1 > MaxFailed
     THEN /\ failed' = 0 /\ locked' = TRUE /\ unpunished' = 0
          /\ racing' = LoggingIn \ {s}
     ELSE /\ failed' = failed + 1 /\ unpunished' = unpunished + 1
          /\ UNCHANGED locked
          /\ racing' = racing \ {s}
  /\ UNCHANGED <<tokenVars, link, lineage>>

\* _record_failed_attempt: one transaction, whose UPDATE holds the user's row.
FailWrite(s) ==
  /\ req[s].op = "fail"
  /\ Close(s)
  /\ IF failed + 1 >= MaxFailed
     THEN /\ failed' = 0 /\ locked' = TRUE /\ unpunished' = 0
          /\ racing' = LoggingIn \ {s}
     ELSE /\ failed' = failed + 1 /\ unpunished' = unpunished + 1
          /\ UNCHANGED locked
          /\ racing' = racing \ {s}
  /\ UNCHANGED <<tokenVars, link, lineage>>

\* _clear_failed_attempts, without a condition, ahead of the tokens.
LoginClear(s) ==
  /\ req[s].op = "login"
  /\ ClearFailures
  /\ req' = [req EXCEPT ![s].op = "issue"]
  /\ UNCHANGED <<tokenVars, link, lineage>>

\* create_user_tokens, and the commit of the login.
LoginIssue(s, n) ==
  /\ req[s].op = "issue"
  /\ row[n] = "none"
  /\ row' = [row EXCEPT ![n] = "live"]
  /\ IF req[s].cut
     THEN ended' = ended \cup {n} /\ overlapped' = overlapped \cup {n}
     ELSE UNCHANGED <<ended, overlapped>>
  /\ Close(s)
  /\ UNCHANGED <<used, link, lockVars, parent>>

LockExpires ==
  /\ locked
  /\ locked' = FALSE
  /\ racing' = {}
  /\ UNCHANGED <<tokenVars, link, failed, unpunished, req, lineage>>

----------------------------------------------------------------------------
(* Refresh. *)

\* A token that was consumed is a replay until it expires; after that it is
\* unknown (its record's deletion is rolled back with the 401), as if it had
\* not been presented.
RefreshRead(s, t) ==
  \/ t \in used /\ OpenRequest(s, [NoRequest EXCEPT !.op = "replay"])
  \/ t \in Live \ used /\ OpenRequest(s, [NoRequest EXCEPT !.op = "rotate", !.tok = t])

\* _nuke_user_refresh_tokens.
ReplayWrite(s) ==
  /\ req[s].op = "replay"
  /\ EndAll(Nil)
  /\ Overtake(Requests, s, NoRequest)
  /\ UNCHANGED <<link, lockVars>>

\* _delete_refresh_token: presented after expires_at.  A token may expire
\* earlier, but it cannot show before it is presented.
DropExpired(t) ==
  /\ t \in Live
  /\ Delete({t})
  /\ UNCHANGED <<used, link, lockVars, req, lineage>>

Rotate(s, n) ==
  LET t == req[s].tok IN
  /\ req[s].op = "rotate"
  /\ row[n] = "none"
  /\ used' = used \cup {t}
  /\ row' = [row EXCEPT ![t] = "gone", ![n] = "live"]
  /\ parent' = [parent EXCEPT ![n] = t]
  /\ ended' = IF t \in ended THEN ended \cup {n} ELSE ended
  /\ overlapped' = IF req[s].cut \/ t \in overlapped THEN overlapped \cup {n}
                                                    ELSE overlapped
  /\ Close(s)
  /\ UNCHANGED <<link, lockVars>>

\* Mutant: a second record of one hash is accepted.
RotateNoIndex(s, n) == Rotate(s, n)

\* Used tokens have a unique hash: of two requests that consume one token,
\* one is refused.  That its row may be gone already is only warned of.
RotateWrite(s, n) == req[s].tok \notin used /\ Rotate(s, n)

----------------------------------------------------------------------------
(* Ending one session. *)

LogoutRead(s, t) ==
  t \in Live /\ OpenRequest(s, [NoRequest EXCEPT !.op = "logout", !.tok = t])

\* The hash of the token is kept, which refuses a rotation under way.
LogoutWrite(s) ==
  LET t == req[s].tok IN
  /\ req[s].op = "logout"
  /\ t \notin used
  /\ used' = used \cup {t}
  /\ Delete({t})
  /\ ended' = ended \cup {t}
  /\ Close(s)
  /\ UNCHANGED <<link, lockVars, parent, overlapped>>

\* revoke_session keeps no record.  Its read adds nothing: to delete a row
\* that is gone changes nothing.
RevokeSession(t) ==
  /\ t \in Live
  /\ Delete({t})
  /\ ended' = ended \cup {t}
  /\ Overtake({s \in Requests : req[s].tok = t}, Nil, NoRequest)
  /\ UNCHANGED <<used, link, lockVars, parent, overlapped>>

----------------------------------------------------------------------------
(* Ending all sessions. *)

RevokeAll ==
  /\ Live # {}
  /\ EndAll(Nil)
  /\ Overtake(Requests, Nil, NoRequest)
  /\ UNCHANGED <<link, lockVars>>

\* The caller's access token names a live session, and its cookie the token
\* to keep, if it is sent; the current password is verified.
ChangeRead(s, keep) ==
  /\ Live # {}
  /\ keep \in Live \cup {Nil}
  /\ OpenRequest(s, [NoRequest EXCEPT !.op = "change", !.tok = keep])

\* Mutant: without a cookie nothing is revoked.
ChangeWriteNoCookie(s) ==
  LET keep == req[s].tok IN
  /\ req[s].op = "change"
  /\ IF keep = Nil
     THEN ended' = Issued /\ overlapped' = {} /\ UNCHANGED <<tokenVars, parent>>
     ELSE EndAll(keep)
  /\ Overtake(Requests, s, NoRequest)
  /\ UNCHANGED <<link, lockVars>>

ChangeWrite(s) ==
  /\ req[s].op = "change"
  /\ EndAll(req[s].tok)
  /\ Overtake(Requests, s, NoRequest)
  /\ UNCHANGED <<link, lockVars>>

\* A link that expires is one that is not followed.
RequestReset(l) ==
  /\ link[l] = "none"
  /\ link' = [link EXCEPT ![l] = "sent"]
  /\ UNCHANGED <<tokenVars, lockVars, req, lineage>>

ResetRead(s, l) ==
  link[l] = "sent" /\ OpenRequest(s, [NoRequest EXCEPT !.op = "reset", !.link = l])

\* The password is replaced, the link spent and the sessions deleted.
ResetWrite(s) ==
  /\ req[s].op = "reset"
  /\ link' = [link EXCEPT ![req[s].link] = "spent"]
  /\ EndAll(Nil)
  /\ Overtake(Requests, s, [NoRequest EXCEPT !.op = "hook"])
  /\ UNCHANGED lockVars

\* The hook after the reset's commit lifts the lock.
ResetHook(s) ==
  /\ req[s].op = "hook"
  /\ ClearFailures
  /\ Close(s)
  /\ UNCHANGED <<tokenVars, link, lineage>>

----------------------------------------------------------------------------
TokenStep(s, t) ==
  \/ RefreshRead(s, t) \/ RotateWrite(s, t)
  \/ LoginIssue(s, t) \/ LogoutRead(s, t)

SessionsNext ==
  \/ \E s \in Requests :
       \/ LoginRead(s) \/ FailWrite(s) \/ LoginClear(s)
       \/ ReplayWrite(s) \/ LogoutWrite(s)
       \/ ChangeWrite(s) \/ ResetWrite(s) \/ ResetHook(s) \/ AbortRequest(s)
       \/ \E t \in Tokens : TokenStep(s, t)
       \/ \E keep \in Tokens \cup {Nil} : ChangeRead(s, keep)
       \/ \E l \in Links : ResetRead(s, l)
  \/ \E t \in Tokens : DropExpired(t) \/ RevokeSession(t)
  \/ \E l \in Links : RequestReset(l)
  \/ RevokeAll
  \/ LockExpires

SessionsSpec == SessionsInit /\ [][SessionsNext]_sessionsVars

----------------------------------------------------------------------------
(* Properties. *)

\* A refresh token is consumed once: it has one successor, however many
\* requests present it at a time, and is not live once it has one.
SingleUse ==
  /\ \A t, n \in Tokens :
       parent[t] = parent[n] /\ parent[t] # Nil => t = n
  /\ \A n \in Tokens :
       parent[n] # Nil => parent[n] \in used \ Live

\* What a logout, a replay, a reset, a change of password or a revocation
\* ended stays ended, but for what a request that it overtook still issues.
\* A logout overtakes nobody: no successor of its token comes to life.
SurvivorHasCause == Live \cap ended \subseteq overlapped

\* MaxFailed failures in a row never go without a lock, and no login that
\* begins under a lock gets as far as a verdict that counts.
LockHolds ==
  /\ unpunished < MaxFailed
  /\ locked => LoggingIn \subseteq racing

----------------------------------------------------------------------------
(* Why they hold: an inductive invariant. *)

RequestsWellFormed ==
  \A s \in Requests :
    /\ req[s].op \in {"rotate", "logout"} => req[s].tok \in Issued
    /\ req[s].op = "reset" => req[s].link \in Links

\* Only issued tokens are consumed, ended or rotated.
TokensKnown ==
  /\ used \cup ended \subseteq Issued
  /\ \A n \in Tokens : row[n] = "none" => parent[n] = Nil

\* A token about to be rotated that belongs to an ended session was overtaken
\* by what ended it, or its logout has refused the rotation.
TxnCarriesCut ==
  \A s \in Requests :
    req[s].op = "rotate" /\ req[s].tok \in ended
      => req[s].cut \/ req[s].tok \in overlapped \cup used

SessionsIInv ==
  /\ SessionsTypeOK
  /\ RequestsWellFormed
  /\ TokensKnown
  /\ SingleUse
  /\ SurvivorHasCause
  /\ TxnCarriesCut
  /\ failed = unpunished
  /\ LockHolds

----------------------------------------------------------------------------
(* What the code says of itself, and overlapping requests break. *)

\* "Every parallel session for this user is wiped" (reset_password), "leaked
\* credentials can no longer ride parallel sessions" (change_user_password),
\* "log out everywhere" (revoke_all_sessions).
EndedStaysEnded == Live \cap ended = {}
=============================================================================
