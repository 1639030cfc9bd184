--------------------------------- MODULE Links ---------------------------------
(***************************************************************************)
(* The pages behind the one-time links of an e-mail: activate an account,  *)
(* set a new password, confirm the deletion of an account.  A link can be  *)
(* open in several tabs, and expire under each of them.  Activation is     *)
(* sent as soon as its page opens; the two others first check the token,   *)
(* then offer a form or a button.  Deletion locks the token's row, the two *)
(* others read it and write it back.  An answer can be lost on its way.    *)
(***************************************************************************)
EXTENDS Naturals, FiniteSets

CONSTANT Tabs  \* the tabs the link may be open in

VARIABLES
  link,       \* the link's kind: "activate", "reset" or "delete"
  token,      \* its token: "live", "spent" or "expired"
  tab         \* each tab: the view, the request in flight, and what is true of them

linkVars == <<link, token, tab>>

Links == {"activate", "reset", "delete"}
Views == {"none", "checking", "form", "sending", "success", "invalid", "failed"}

\* A request: not made, made, past the server's test of the token, answered ("dead" is a
\* 400, "refused" any other error), or carried out with its answer lost.
Calls == {"none", "made", "tested", "ok", "dead", "refused", "cut"}
Answers == {"ok", "dead", "refused", "cut"}

\* A tab: checked, the token's check passed; did, a request of this tab was carried out;
\* cut, its answer was lost.
NoPage == [view |-> "none", call |-> "none", checked |-> FALSE, did |-> FALSE, cut |-> FALSE]

LinkTypeOK ==
  /\ link \in Links
  /\ token \in {"live", "spent", "expired"}
  /\ tab \in [Tabs -> [view : Views, call : Calls, checked : BOOLEAN, did : BOOLEAN,
                       cut : BOOLEAN]]
  /\ \A t \in Tabs : (tab[t].call # "none") <=> (tab[t].view \in {"checking", "sending"})

LinkInit ==
  /\ link \in Links
  /\ token = "live"
  /\ tab = [t \in Tabs |-> NoPage]

----------------------------------------------------------------------------
(* The pages. *)

\* Mutant: a page shown keeps the answer it came from.
TurnedKeepsCall(t, v) == tab' = [tab EXCEPT ![t].view = v]

\* A request answered, or none.
Turned(t, v) == tab' = [tab EXCEPT ![t] = [@ EXCEPT !.view = v, !.call = "none"]]
Ask(t, v) == tab' = [tab EXCEPT ![t] = [@ EXCEPT !.view = v, !.call = "made"]]

\* The effect on the token: activation at once, else a check.  A signed-in visitor gets no
\* reset page.
OpenLink(t) ==
  /\ tab[t].view = "none"
  /\ Ask(t, IF link = "activate" THEN "sending" ELSE "checking")
  /\ UNCHANGED <<link, token>>

\* Mutant: any error of a deletion means that its link is dead.
DeadToAny(answer) == TRUE

\* errorKindFor: only a 400 means the token is dead.
Dead(answer) == answer = "dead"

\* The check's answer.  The reset page takes every error for a dead link, the deletion
\* page offers a retry.
CheckDone(t) ==
  /\ tab[t].view = "checking" /\ tab[t].call \in Answers
  /\ IF tab[t].call = "ok"
       THEN tab' = [tab EXCEPT ![t] = [@ EXCEPT !.view = "form", !.call = "none", !.checked = TRUE]]
       ELSE Turned(t, IF link = "reset" \/ Dead(tab[t].call) THEN "invalid" ELSE "failed")
  /\ UNCHANGED <<link, token>>

\* Mutant: the button stays enabled while a request is under way; its answer is dropped.
SendableAgain(t) ==
  \/ tab[t].view = "form"
  \/ tab[t].view = "sending" /\ tab[t].call \in Answers

\* The submit button is disabled, or gone, while a request is under way.
Sendable(t) == tab[t].view = "form"

\* handleSubmit, with a password that passes; handleConfirm.
UseLink(t) ==
  /\ Sendable(t)
  /\ Ask(t, "sending")
  /\ UNCHANGED <<link, token>>

\* The answer of an activation: success or error.  Of a reset: a 400 shows the dead link,
\* any other error stays above the form.  Of a deletion: by errorKindFor.
UseDone(t) ==
  /\ tab[t].view = "sending" /\ tab[t].call \in Answers
  /\ Turned(t, CASE tab[t].call = "ok" -> "success"
               [] tab[t].call # "ok" /\ (link = "activate" \/ Dead(tab[t].call)) -> "invalid"
               [] OTHER -> IF link = "reset" THEN "form" ELSE "failed")
  /\ UNCHANGED <<link, token>>

\* handleRetry, of the deletion page.
CheckAgain(t) ==
  /\ tab[t].view = "failed"
  /\ Ask(t, "checking")
  /\ UNCHANGED <<link, token>>

\* The tab is closed or loaded again.  A request that uses the token gets to the server all
\* the same, as one of a tab closed once it is answered.
CloseTab(t) ==
  /\ tab[t].view # "none"
  /\ tab[t].view = "sending" => tab[t].call \in Answers
  /\ tab' = [tab EXCEPT ![t] = NoPage]
  /\ UNCHANGED <<link, token>>

----------------------------------------------------------------------------
(* The server. *)

Answer(t, a) == tab' = [tab EXCEPT ![t].call = a]

\* Mutant: no request takes the row's lock.
Unlocked(t) == TRUE

\* with_for_update: a deletion's request and its check wait for one another.
RowFree(t) == link = "delete" => \A u \in Tabs \ {t} : tab[u].call # "tested"

\* validate_password_reset_token, check_deletion_token.
ServeCheck(t) ==
  /\ tab[t].view = "checking" /\ tab[t].call = "made"
  /\ RowFree(t)
  /\ \E a \in {IF token = "live" THEN "ok" ELSE "dead", "refused"} : Answer(t, a)
  /\ UNCHANGED <<link, token>>

\* activate_user, reset_password, confirm_deletion: the token is read; a dead one is a 400.
ServeTest(t) ==
  /\ tab[t].view = "sending" /\ tab[t].call = "made"
  /\ RowFree(t)
  /\ \E a \in {IF token = "live" THEN "tested" ELSE "dead", "refused"} : Answer(t, a)
  /\ UNCHANGED <<link, token>>

\* The transaction commits, and its answer arrives or is lost; or it rolls back.
ServeCommit(t) ==
  /\ tab[t].call = "tested"
  /\ \/ /\ token' = "spent"
        /\ \E a \in {"ok", "cut"} :
             tab' = [tab EXCEPT ![t] = [@ EXCEPT !.call = a, !.did = TRUE, !.cut = (a = "cut")]]
     \/ Answer(t, "refused") /\ UNCHANGED token
  /\ UNCHANGED link

Expire ==
  /\ token = "live"
  /\ token' = "expired"
  /\ UNCHANGED <<link, tab>>

LinkNext ==
  \/ \E t \in Tabs : \/ OpenLink(t) \/ CheckDone(t) \/ UseLink(t) \/ UseDone(t) \/ CheckAgain(t)
                     \/ CloseTab(t) \/ ServeCheck(t) \/ ServeTest(t) \/ ServeCommit(t)
  \/ Expire

LinkSpec == LinkInit /\ [][LinkNext]_linkVars

----------------------------------------------------------------------------
(* Properties. *)

\* "only a 400 means the token is dead" (DeleteAccountConfirmPage.tsx:19-20): a page that
\* says so is right, but for an activation, and a reset's first check, which say it of
\* every error.
InvalidIsDead ==
  \A t \in Tabs :
    tab[t].view = "invalid" /\ (link = "delete" \/ tab[t].checked) => token # "live"

\* A page tells its visitor what became of their own request: success only when it was
\* carried out, and a dead link or a failure after it was carried out only when the
\* answer was lost.
OwnDeedTold ==
  \A t \in Tabs :
    /\ tab[t].view = "success" => tab[t].did
    /\ tab[t].view \in {"form", "invalid", "failed"} /\ tab[t].did => tab[t].cut

\* One tab deletes the account: the row's lock holds from the test to the commit.
DeletedOnce ==
  link = "delete" => \A t, u \in Tabs : tab[t].did /\ tab[u].did => t = u

----------------------------------------------------------------------------
(* Why they hold: an inductive invariant. *)

Tested(t) == tab[t].call = "tested"

\* A request past its test has a token that nobody has spent, a deed has spent it, and a
\* deletion past its test is alone.
DeedSpends ==
  \A t \in Tabs :
    /\ Tested(t) => tab[t].view = "sending" /\ ~tab[t].did
    /\ tab[t].did => token = "spent"
    /\ link = "delete" /\ Tested(t) =>
         token # "spent" /\ \A u \in Tabs \ {t} : ~Tested(u)

\* A 400 is about a token that is not live, and only the pages that check it offer a form
\* or a retry.
DeadIsNotLive ==
  \A t \in Tabs :
    /\ tab[t].call = "dead" => token # "live"
    /\ link = "activate" =>
         ~tab[t].checked /\ tab[t].view \notin {"checking", "form", "failed"}
    /\ link = "reset" =>
         /\ tab[t].view = "checking" => ~tab[t].checked
         /\ tab[t].view # "failed"

\* A tab that is still waiting, or asks again, has not been told of its deed, and one that
\* is closed knows of none.
DeedOnItsWay ==
  \A t \in Tabs :
    /\ tab[t].view = "none" => ~tab[t].checked /\ ~tab[t].did
    /\ tab[t].view = "sending" => (tab[t].call = "ok" => tab[t].did)
    /\ tab[t].view = "sending" /\ tab[t].did => tab[t].cut \/ tab[t].call = "ok"
    /\ tab[t].view = "checking" /\ tab[t].did => tab[t].cut

LinkIInv ==
  /\ LinkTypeOK /\ DeedSpends /\ DeadIsNotLive /\ DeedOnItsWay
  /\ InvalidIsDead /\ OwnDeedTold /\ DeletedOnce

============================================================================
