--------------------------------- MODULE Forms ---------------------------------
(***************************************************************************)
(* The forms and dialogs of the frontend: fields filled from a subject (a  *)
(* job, an application, the user's own profile) or left blank, a           *)
(* submission whose answer comes when it comes, and meanwhile everything   *)
(* the page still lets the user do: type on, close the dialog with Escape, *)
(* open it for another row, press the keyboard shortcut again, leave the   *)
(* page.  form is one of the components, described by how it answers to    *)
(* each.                                                                   *)
(***************************************************************************)
EXTENDS Naturals, FiniteSets

CONSTANTS
  LastSubject,  \* rows a dialog may be opened for
  MaxSubs       \* bound: submissions in flight

ASSUME FormAssumption == LastSubject \in Nat \ {0} /\ MaxSubs \in Nat \ {0}

Subjects == 1..LastSubject
Subs == 1..MaxSubs
Nobody == 0   \* no subject: a dialog that is closed, fields that are blank

(* A component: mount "kept" (a dialog the page keeps mounted: its state outlives *)
(* the closing), "fresh" (mounted anew each time), "child" (the same, and its     *)
(* success is handled by a parent that stays); seed, what the fields hold when it *)
(* opens: the "subject"'s values, "blank", or what they held before ("never");    *)
(* done, what a success does: "close" it, "go" to another page, "switch" it to    *)
(* the subject saved, "stay", "reseed" its fields from the answer, "clear" them,  *)
(* or show a "view" in its place; told, where a refusal is shown; final, what a    *)
(* refusal does that says its subject is past changing.                           *)
Form(mount, many, seed, done, told) ==
  [mount |-> mount, many |-> many, seed |-> seed, done |-> done, told |-> told,
   again |-> FALSE, held |-> FALSE, wipes |-> FALSE, creates |-> FALSE, stuck |-> FALSE,
   final |-> "keep", drops |-> FALSE]

\* A shortcut or an Enter key submits whether or not a submission is in flight.
Again(f) == [f EXCEPT !.again = TRUE]
\* It cannot be closed while it waits.
Held(f) == [f EXCEPT !.held = TRUE]
\* Its fields are emptied when it closes.
Wipes(f) == [f EXCEPT !.wipes = TRUE]
\* Each submission accepted makes a new thing.
Creates(f) == [f EXCEPT !.creates = TRUE]
\* A refusal that is final has it "close", or the page "reload".
EndsOn(f, how) == [f EXCEPT !.final = how]
\* Whatever the refusal, it closes.
Drops(f) == [f EXCEPT !.drops = TRUE]

----------------------------------------------------------------------------
(* The components. *)

JobCreateDialog == Again(Creates(Form("kept", FALSE, "blank", "close", "toast")))
JobDialog == Again(Form("kept", TRUE, "subject", "switch", "toast"))
InviteFormDialog == Creates(Form("kept", FALSE, "blank", "close", "form"))
CreateCompanyDialog == Creates(Form("kept", FALSE, "blank", "go", "toast"))
EditCompanyDialog == Form("kept", TRUE, "subject", "close", "toast")
ApplicationNotesDialog == Form("kept", TRUE, "never", "close", "toast")
ApplicationStatusDialog == Form("kept", TRUE, "subject", "close", "toast")
ContactJobDialog == Wipes(Creates(Form("kept", TRUE, "never", "close", "toast")))
DeleteCompanyConfirm == Form("kept", TRUE, "subject", "go", "toast")
DeleteCandidateConfirm == Form("kept", TRUE, "subject", "go", "toast")
RecordStatus == Form("kept", TRUE, "subject", "stay", "toast")
RecordNotes == Form("kept", TRUE, "subject", "stay", "toast")
PushMatch == EndsOn(Form("kept", TRUE, "subject", "close", "toast"), "close")
InlineEditor == Again(Form("child", TRUE, "blank", "close", "form"))
IdentitySection == Form("fresh", FALSE, "subject", "stay", "form")
ApplyAutofillSection == Form("fresh", FALSE, "subject", "stay", "form")
SecuritySection == Form("fresh", FALSE, "blank", "clear", "form")
AccountDeletionSection == Form("fresh", FALSE, "subject", "stay", "form")
DataExportSection == Form("fresh", FALSE, "subject", "stay", "form")
\* The success of a revocation leaves revokingId set.
SessionsSection == [Form("fresh", TRUE, "subject", "stay", "form") EXCEPT !.stuck = TRUE]
ResumeRename == Again(Form("fresh", FALSE, "subject", "close", "form"))
CompanyProfileForm == Form("fresh", FALSE, "subject", "reseed", "form")
PostJob == Creates(Form("fresh", FALSE, "blank", "go", "form"))
EditJob == Form("fresh", TRUE, "subject", "go", "form")
EditApplication == EndsOn(Form("fresh", TRUE, "subject", "close", "form"), "reload")
WithdrawApplication ==
  Drops(EndsOn(Held(Form("fresh", TRUE, "subject", "go", "form")), "reload"))
RegisterCandidate == Creates(Form("fresh", FALSE, "blank", "view", "form"))
ForgotPassword == Form("fresh", FALSE, "blank", "view", "form")
LoginForm == Form("fresh", FALSE, "blank", "go", "form")
ResendActivation == Form("fresh", FALSE, "subject", "stay", "form")

Forms ==
  {JobCreateDialog, JobDialog, InviteFormDialog, CreateCompanyDialog, EditCompanyDialog,
   ApplicationNotesDialog, ApplicationStatusDialog, ContactJobDialog,
   DeleteCompanyConfirm, DeleteCandidateConfirm, RecordStatus, RecordNotes, PushMatch,
   InlineEditor, IdentitySection, ApplyAutofillSection, SecuritySection,
   AccountDeletionSection, DataExportSection, SessionsSection, ResumeRename,
   CompanyProfileForm, PostJob, EditJob, EditApplication, WithdrawApplication,
   RegisterCandidate, ForgotPassword, LoginForm, ResendActivation}

----------------------------------------------------------------------------
VARIABLES
  form,     \* the component
  open,     \* the subject it is open for
  draft,    \* the fields: whose text they hold; clean, typed in, or typed in and sent
  busy,     \* isSaving
  sub,      \* the submissions in flight
  message,  \* what the component shows of the last answer
  made,     \* times the server has carried out the text in the fields, since it was
            \* submitted with nothing in doubt
  unsure,   \* an answer about the text in the fields was lost
  meddled   \* the user did something while a submission was in flight

formVars == <<form, open, draft, busy, sub, message, made, unsure, meddled>>

Blank == [of |-> Nobody, st |-> "clean"]
NoSub == [st |-> "none", to |-> Nobody, draft |-> Nobody, at |-> FALSE, same |-> FALSE]
InFlight == {c \in Subs : sub[c].st # "none"}
\* The submissions whose component is still mounted.
Mounted == {c \in InFlight : form.mount = "kept" \/ sub[c].at}

FormTypeOK ==
  /\ form \in Forms
  /\ open \in Subjects \cup {Nobody}
  /\ draft \in [of : Subjects \cup {Nobody}, st : {"clean", "typed", "sent"}]
  /\ busy \in BOOLEAN
  /\ sub \in [Subs -> [st : {"none", "sent", "done", "refused", "final", "lost"},
                       to : Subjects \cup {Nobody}, draft : Subjects \cup {Nobody},
                       at : BOOLEAN, same : BOOLEAN]]
  /\ message \in {"none", "saved", "error", "view"}
  /\ made \in 0..2
  /\ unsure \in BOOLEAN
  /\ meddled \in BOOLEAN

FormInit ==
  /\ form \in Forms
  /\ open = Nobody
  /\ draft = Blank
  /\ busy = FALSE
  /\ sub = [c \in Subs |-> NoSub]
  /\ message = "none"
  /\ made = 0
  /\ unsure = FALSE
  /\ meddled = FALSE

----------------------------------------------------------------------------
(* The user. *)

\* The text in the fields is no longer that of any submission.
NewText ==
  /\ made' = 0
  /\ unsure' = FALSE

\* Mutant: the dialog is seeded when it is first mounted only.
SeedOnce(s) == IF draft.of = Nobody /\ form.seed = "subject"
                 THEN [of |-> s, st |-> "clean"] ELSE draft

\* Mutant: the dialog is seeded from the row below.
SeedNextRow(s) == IF form.seed = "subject" THEN [of |-> s + 1, st |-> "clean"] ELSE Blank

\* useResetOnTrigger, useState of a component mounted anew, or nothing.
Seed(s) ==
  CASE form.seed = "subject" -> [of |-> s, st |-> "clean"]
    [] form.seed = "blank"   -> Blank
    [] form.seed = "never"   -> draft

OpenForm(s) ==
  /\ open = Nobody
  /\ form.many \/ s = 1
  /\ open' = s
  /\ draft' = Seed(s)
  /\ NewText
  /\ sub' = [c \in Subs |-> [sub[c] EXCEPT !.same = FALSE]]
  /\ message' = "none"
  /\ meddled' = (meddled \/ InFlight # {})
  /\ UNCHANGED <<form, busy>>

TypeIn ==
  /\ open # Nobody /\ message # "view"
  /\ draft' = [of |-> IF draft.of = Nobody THEN open ELSE draft.of, st |-> "typed"]
  /\ NewText
  /\ sub' = [c \in Subs |-> [sub[c] EXCEPT !.same = FALSE]]
  /\ meddled' = (meddled \/ InFlight # {})
  /\ UNCHANGED <<form, open, busy, message>>

\* Mutant: nothing holds a second submission back.
SubmitFormUnguarded(c) ==
  /\ open # Nobody /\ message # "view"
  /\ form.seed = "blank" => draft.st # "clean"
  /\ sub[c] = NoSub
  /\ sub' = [sub EXCEPT ![c] = [st |-> "sent", to |-> open, draft |-> draft.of,
                                at |-> TRUE, same |-> TRUE]]
  /\ draft' = IF draft.st = "typed" THEN [draft EXCEPT !.st = "sent"] ELSE draft
  /\ busy' = TRUE
  /\ message' = "none"
  /\ meddled' = (meddled /\ InFlight # {})
  /\ UNCHANGED <<form, open, made, unsure>>

\* The button is disabled while busy; a blank form does not pass its validation.
SubmitForm(c) ==
  /\ open # Nobody /\ message # "view"
  /\ busy => form.again
  /\ form.seed = "blank" => draft.st # "clean"
  /\ sub[c] = NoSub
  /\ sub' = [sub EXCEPT ![c] = [st |-> "sent", to |-> open, draft |-> draft.of,
                                at |-> TRUE, same |-> TRUE]]
  /\ draft' = IF draft.st = "typed" THEN [draft EXCEPT !.st = "sent"] ELSE draft
  /\ busy' = TRUE
  /\ message' = "none"
  /\ meddled' = (meddled /\ InFlight # {})
  /\ made' = IF InFlight = {} /\ ~unsure THEN 0 ELSE made
  /\ UNCHANGED <<form, open, unsure>>

\* The fields of a form that is closed: those of a component that stays mounted
\* keep their text until it opens again.
Left == IF form.mount = "kept" /\ ~form.wipes THEN [draft EXCEPT !.st = "clean"] ELSE Blank

\* Cancel, Escape, the discard confirmation, or leaving the page (for /login too,
\* when the session ends): nothing in flight is aborted.
CloseForm ==
  /\ open # Nobody
  /\ form.held => ~busy
  /\ open' = Nobody
  /\ draft' = Left
  /\ NewText
  /\ sub' = [c \in Subs |-> [sub[c] EXCEPT !.at = FALSE, !.same = FALSE]]
  /\ busy' = (busy /\ form.mount = "kept")
  /\ message' = "none"
  /\ meddled' = (meddled \/ InFlight # {})
  /\ UNCHANGED form

----------------------------------------------------------------------------
(* The server and the network. *)

\* Carried out, and the answer arrives or is lost; or refused, for good where the
\* form tells that apart.
ServeForm(c) ==
  /\ sub[c].st = "sent"
  /\ \/ /\ \E st \in {"done", "lost"} : sub' = [sub EXCEPT ![c].st = st]
        /\ made' = IF sub[c].same /\ made < 2 THEN made + 1 ELSE made
        /\ unsure' = (unsure \/ (sub[c].same /\ sub'[c].st = "lost"))
     \/ /\ \E st \in {"refused"} \cup (IF form.final = "keep" THEN {} ELSE {"final"}) :
             sub' = [sub EXCEPT ![c].st = st]
        /\ UNCHANGED <<made, unsure>>
  /\ UNCHANGED <<form, open, draft, busy, message, meddled>>

----------------------------------------------------------------------------
(* The answers. *)

\* The finally of the handler, in the instance that is still mounted.
NotBusy(c) == IF c \in Mounted THEN FALSE ELSE busy

\* What a success does to the form, if its handler still reaches it.
SubmissionDone(c) ==
  LET reaches == c \in Mounted \/ form.mount = "child" \/ form.done = "go"
      saved == [of |-> sub[c].to, st |-> "clean"]
      done == IF reaches THEN form.done ELSE "none"
  IN
  /\ sub[c].st = "done"
  /\ sub' = [sub EXCEPT ![c] = NoSub]
  /\ busy' = IF c \in Mounted /\ form.stuck THEN busy ELSE NotBusy(c)
  /\ open' = CASE done \in {"close", "go"} -> Nobody
               [] done = "switch" -> sub[c].to
               [] OTHER -> open
  /\ draft' = CASE done \in {"switch", "reseed"} -> saved
                [] done = "clear" -> Blank
                [] done \in {"close", "go"} -> Left
                [] done = "stay" /\ draft.st = "sent" -> [draft EXCEPT !.st = "clean"]
                [] OTHER -> draft
  /\ message' = CASE done \in {"stay", "reseed", "clear"} /\ form.told = "form" -> "saved"
                  [] done = "view" -> "view"
                  [] done \in {"close", "go"} -> "none"
                  [] OTHER -> message
  /\ UNCHANGED <<form, made, unsure, meddled>>

\* A refusal, or no answer.
Refusal(c) == sub[c].st \in {"refused", "final", "lost"}
\* The refusals that have the page reloaded, and those that close the form shown.
Reloads(c) == sub[c].st = "final" /\ form.final = "reload"
Closes(c) ==
  /\ Refusal(c) /\ c \in Mounted
  /\ form.drops \/ (sub[c].st = "final" /\ form.final = "close")

\* Mutant: no finally.
SubmissionFailedStaysBusy(c) ==
  /\ Refusal(c)
  /\ sub' = [sub EXCEPT ![c] = NoSub]
  /\ message' = IF c \in Mounted /\ form.told = "form" THEN "error" ELSE message
  /\ UNCHANGED <<form, open, draft, busy, made, unsure, meddled>>

\* Mutant: a refusal closes the dialog.
SubmissionFailedCloses(c) ==
  /\ Refusal(c)
  /\ sub' = [sub EXCEPT ![c] = NoSub]
  /\ busy' = NotBusy(c)
  /\ open' = Nobody
  /\ UNCHANGED <<form, draft, message, made, unsure, meddled>>

\* Mutant: a refusal is reported like a success.
SubmissionFailedSaved(c) ==
  /\ Refusal(c)
  /\ sub' = [sub EXCEPT ![c] = NoSub]
  /\ busy' = NotBusy(c)
  /\ message' = IF c \in Mounted /\ form.told = "form" THEN "saved" ELSE message
  /\ UNCHANGED <<form, open, draft, made, unsure, meddled>>

\* The text in the fields was submitted by c only, and the server does not hold it.
Unserved(c) ==
  /\ sub[c].same /\ sub[c].st # "lost" /\ draft.st = "sent"
  /\ made = 0 /\ \A d \in InFlight \ {c} : ~sub[d].same

SubmissionFailed(c) ==
  /\ Refusal(c) /\ ~Reloads(c)
  /\ sub' = [sub EXCEPT ![c] = NoSub]
  /\ busy' = NotBusy(c)
  /\ message' = IF c \in Mounted /\ form.told = "form" THEN "error" ELSE message
  /\ IF Closes(c) THEN open' = Nobody /\ draft' = Left
                  ELSE open' = open /\ draft' = IF Unserved(c) THEN [draft EXCEPT !.st = "typed"]
                                                               ELSE draft
  /\ UNCHANGED <<form, made, unsure, meddled>>

\* window.location.reload(): what the user has open by then goes with its document,
\* and so do the handlers of what is in flight.
PageReloads(c) ==
  /\ Reloads(c)
  /\ open' = Nobody
  /\ draft' = Blank
  /\ NewText
  /\ sub' = [d \in Subs |-> NoSub]
  /\ busy' = FALSE
  /\ message' = "none"
  /\ UNCHANGED <<form, meddled>>

FormNext ==
  \/ \E s \in Subjects : OpenForm(s)
  \/ TypeIn \/ CloseForm
  \/ \E c \in Subs : SubmitForm(c) \/ ServeForm(c) \/ SubmissionDone(c)
                       \/ SubmissionFailed(c) \/ PageReloads(c)

FormSpec == FormInit /\ [][FormNext]_formVars

----------------------------------------------------------------------------
(* Properties. *)

\* What was typed for one job, application or company is never saved to another,
\* and no one's fields are saved before they were filled from it.  Not so in the
\* dialog of an application's notes: it is filled when the page is mounted, and
\* never again.  (A mail about a job may have an empty note.)
SendsOwnDraft ==
  form.seed # "never" \/ form.wipes =>
    \A c \in InFlight : \/ sub[c].draft = sub[c].to
                         \/ (form.wipes /\ sub[c].draft = Nobody)

\* One text makes one job, company, invitation or mail, however often the button is
\* pressed and whatever is closed and opened, unless an answer was lost and the
\* user tried again, or the form takes the shortcut while it saves.
CreatedOnce == form.creates /\ made > 1 => form.again \/ unsure

\* A form that says it is saving waits for an answer.  After a revocation the list
\* of sessions does not: its button "log out everywhere" stays disabled.
SavingHasCall == busy => form.stuck \/ Mounted # {}

\* What the form says of its text is true: "saved" and the success view mean that
\* the server holds it, an error that it does not, unless the answer was lost or a
\* second submission of the text overtook the first.
VerdictTrue ==
  draft.st # "typed" /\ ~form.again /\ ~meddled =>
    /\ message \in {"saved", "view"} => made > 0
    /\ message = "error" => made = 0 \/ unsure

\* An answer that is no success leaves the form and its text as they are, whatever
\* the user did meanwhile; a success takes text away that the server does not hold
\* only from a user who typed, closed or opened something while it was on its way.
\* Not so where a refusal ends the form: the edit of an application that is no longer
\* editable has the page reloaded, and its text is lost; the banner of a match that
\* cannot be pushed any more and the question whether to withdraw hold no text.
EditsKept ==
  [][\A c \in Subs : sub[c].st # "none" /\ sub'[c].st = "none" =>
       \/ /\ open' = open /\ draft'.of = draft.of
          /\ draft.st = "typed" => draft' = draft
       \/ sub[c].st = "done" /\ (draft.st = "typed" => meddled)
       \/ \E d \in Subs : sub'[d].st = "none" /\ (Closes(d) \/ Reloads(d))]_formVars

----------------------------------------------------------------------------
(* Why they hold: an inductive invariant. *)

\* An open form has the text of its own subject, or none.
OwnText ==
  /\ open # Nobody =>
       /\ form.seed = "subject" => draft.of = open
       /\ form.seed = "blank" \/ form.wipes => draft.of \in {Nobody, open}
       /\ form.seed = "blank" /\ draft.st # "clean" => draft.of = open
  /\ form.wipes /\ open = Nobody => draft.of = Nobody

\* What is in flight was submitted by an open form; the one whose answer its fields are
\* filled from is open until then, and has one subject.
SentFromOpen ==
  /\ \A c \in InFlight : sub[c].to # Nobody
  /\ ~form.many => \A s \in {open} \cup {sub[c].to : c \in Subs} : s \in {Nobody, 1}
  /\ form.done = "reseed" => \A c \in InFlight : sub[c].at => open # Nobody

\* A submission of the text in the fields is of the component that is shown; carried out,
\* the text is made, and with its answer lost there is a doubt.
SameTold ==
  \A c \in Subs : sub[c].same =>
    /\ sub[c].at
    /\ sub[c].st = "done" => made > 0
    /\ sub[c].st = "lost" => unsure

\* Without the shortcut, one submission at a time.
OneAtATime ==
  ~form.again => /\ Mounted # {} => busy
                 /\ \A c, d \in Mounted : c = d
                 /\ message = "view" => Mounted = {}

\* What makes a thing has it made by the one submission that is out, or is over.
MadeByOne ==
  form.creates /\ ~form.again /\ ~unsure /\ made > 0 =>
    /\ made = 1
    /\ \A c \in Subs : sub[c].same => sub[c].st # "sent"
    /\ open = Nobody \/ message = "view" \/ \E c \in Subs : sub[c].same /\ sub[c].st = "done"

\* As long as the user has only waited, what is in flight is the text shown.
UserWaited ==
  ~meddled => \A c \in InFlight :
    /\ sub[c].same /\ draft.st # "typed"
    /\ ~form.again => /\ message = "none"
                      /\ sub[c].st \in {"sent", "refused", "final"} => made = 0 \/ unsure

FormIInv ==
  /\ FormTypeOK
  /\ OwnText /\ SentFromOpen /\ SameTold /\ OneAtATime /\ MadeByOne /\ UserWaited
  /\ SendsOwnDraft /\ SavingHasCall /\ CreatedOnce /\ VerdictTrue
=============================================================================
