--------------------------------- MODULE Wizard ---------------------------------
(***************************************************************************)
(* The two forms in several steps: the application to a job (identity,     *)
(* resume, questions) and the registration of an invited company (company, *)
(* agreement).  A step is left forward only when its fields are right; the *)
(* candidate may go back, break what was right and jump ahead; the profile *)
(* of a signed-in candidate, and the session itself, may arrive when part  *)
(* of the form is filled already.                                          *)
(*                                                                         *)
(* A field stands for those a step checks alike: it is right or wrong, and *)
(* marked with an error or not.                                            *)
(***************************************************************************)
EXTENDS Naturals

Wizards == {"apply", "register"}

VARIABLES
  wizard,    \* which of the two
  signedIn,  \* the session of a candidate: absent, being probed, or known
  profile,   \* the candidate's profile has not arrived, or has
  step,      \* the step shown
  maxStep,   \* the furthest step shown so far
  wrong,     \* the fields that do not pass
  flagged,   \* the fields marked with an error
  claim,     \* the account claimed with the application: "off", or its password
  claimError,\* the claim is marked with an error
  posting,   \* the request: its state, and whether every field it carries was right
  taken,     \* the server has taken the form
  failure,   \* submitError
  ended,     \* the success screen, or the application that existed already
  refused,   \* the last click was refused, and the page has not changed since
  late,      \* the profile arrived when its step had been left already
  lost       \* an answer was lost

wizardVars == <<wizard, signedIn, profile, step, maxStep, wrong, flagged, claim, claimError,
                posting, taken, failure, ended, refused, late, lost>>

LastStep == IF wizard = "apply" THEN 3 ELSE 2

IdentityStep == {"identity", "email"}
ResumeStep == {"resume"}
QuestionsStep == {"answers", "consents"}
RegisterStep1Form == {"company"}
RegisterStep2Form == {"signature", "consents"}

Fields(s) ==
  CASE wizard = "apply" /\ s = 1    -> IdentityStep
    [] wizard = "apply" /\ s = 2    -> ResumeStep
    [] wizard = "apply" /\ s = 3    -> QuestionsStep
    [] wizard = "register" /\ s = 1 -> RegisterStep1Form
    [] wizard = "register" /\ s = 2 -> RegisterStep2Form

AllFields == IdentityStep \cup ResumeStep \cup QuestionsStep \cup RegisterStep1Form
             \cup RegisterStep2Form

\* A candidate's own e-mail and consents are those of the account.
Gated(s) == Fields(s) \ (IF signedIn = "in" THEN {"email", "consents"} ELSE {})

\* A file refused leaves the one before it in place, and its error stands.
Passes(f) == f \notin wrong /\ (f = "resume" => f \notin flagged)

\* validateStep: whether a step passes, and the marks it leaves.
StepPasses(s) == \A f \in Gated(s) : Passes(f)

Marks(s) ==
  CASE wizard = "apply" /\ s = 2 -> flagged \cup ({"resume"} \cap wrong)
    [] wizard = "register" /\ s = 1 -> Fields(1) \cap wrong
    [] OTHER -> (flagged \ Fields(s)) \cup (Gated(s) \cap wrong)

Idle == [st |-> "none", good |-> TRUE]

WizardTypeOK ==
  /\ wizard \in Wizards
  /\ signedIn \in {"no", "probing", "in"}
  /\ profile \in {"waiting", "arrived"}
  /\ step \in 1..LastStep /\ maxStep \in step..LastStep
  /\ wrong \subseteq AllFields /\ flagged \subseteq AllFields
  /\ claim \in {"off", "wrong", "right"} /\ claimError \in BOOLEAN
  /\ posting \in [st : {"none", "sent", "done", "again", "refused", "password", "lost"},
                  good : BOOLEAN]
  /\ ended \in {"no", "success", "elsewhere"}
  /\ {taken, failure, refused, late, lost} \subseteq BOOLEAN

Empty == /\ step = 1 /\ maxStep = 1
         /\ wrong = (UNION {Fields(s) : s \in 1..LastStep}) \ {"answers"}
         /\ flagged = {}
         /\ claim = "off" /\ claimError = FALSE
         /\ posting = Idle
         /\ taken = FALSE /\ failure = FALSE
         /\ ended = "no"
         /\ refused = FALSE /\ late = FALSE /\ lost = FALSE

WizardInit ==
  /\ wizard \in Wizards
  /\ signedIn \in IF wizard = "apply" THEN {"no", "probing", "in"} ELSE {"no"}
  /\ profile = "waiting"
  /\ Empty

----------------------------------------------------------------------------
(* The fields. *)

\* handleChange: the field typed in loses its mark; answers may become too long.
TypeField(f) ==
  /\ ended = "no"
  /\ f \in Fields(step) \ {"resume"}
  /\ f = "email" => signedIn # "in"
  /\ f = "consents" => signedIn # "in"
  /\ \E w \in {wrong \ {f}, wrong \cup {f}} : wrong' = w
  /\ flagged' = IF f = "consents" /\ (wizard = "apply" \/ f \in wrong') THEN flagged
                  ELSE flagged \ {f}
  /\ refused' = FALSE
  /\ UNCHANGED <<wizard, signedIn, profile, step, maxStep, claim, claimError, posting, taken,
                 failure, ended, late, lost>>

\* handleBlur: the field left is checked.
BlurField(f) ==
  /\ ended = "no"
  /\ f \in Fields(step) \ {"resume", "consents", "signature"}
  /\ flagged' = (flagged \ {f}) \cup ({f} \cap wrong)
  /\ refused' = FALSE
  /\ UNCHANGED <<wizard, signedIn, profile, step, maxStep, wrong, claim, claimError, posting,
                 taken, failure, ended, late, lost>>

\* The terms or the privacy policy is closed: in the application, with the button or
\* without, that accepts it.
LegalModal ==
  /\ ended = "no"
  /\ wizard = "apply" /\ step = LastStep /\ signedIn # "in"
  /\ \E both \in BOOLEAN : wrong' = IF both THEN wrong \ {"consents"} ELSE wrong
  /\ refused' = FALSE
  /\ UNCHANGED <<wizard, signedIn, profile, step, maxStep, flagged, claim, claimError, posting,
                 taken, failure, ended, late, lost>>

\* In the registration only the button accepts.
RegisterModal ==
  /\ ended = "no"
  /\ wizard = "register" /\ step = LastStep
  /\ \/ wrong' = wrong \ {"consents"} /\ flagged' = flagged \ {"consents"}
     \/ UNCHANGED <<wrong, flagged>>
  /\ refused' = FALSE
  /\ UNCHANGED <<wizard, signedIn, profile, step, maxStep, claim, claimError, posting, taken,
                 failure, ended, late, lost>>

\* ingestResume, clearResume, onClearSaved: a good file, a file refused (the one before
\* it stays), or none.
PickResume(file) ==
  /\ ended = "no"
  /\ "resume" \in Fields(step)
  /\ \/ file = "good" /\ wrong' = wrong \ {"resume"} /\ flagged' = flagged \ {"resume"}
     \/ file = "bad" /\ wrong' = wrong /\ flagged' = flagged \cup {"resume"}
     \/ file = "none" /\ wrong' = wrong \cup {"resume"} /\ flagged' = flagged \ {"resume"}
  /\ refused' = FALSE
  /\ UNCHANGED <<wizard, signedIn, profile, step, maxStep, claim, claimError, posting, taken,
                 failure, ended, late, lost>>

\* The claim: toggled, or its password typed; its error is taken away by neither.
TypeClaim(c) ==
  /\ ended = "no"
  /\ wizard = "apply" /\ signedIn # "in" /\ step = LastStep
  /\ claim' = c
  /\ refused' = FALSE
  /\ UNCHANGED <<wizard, signedIn, profile, step, maxStep, wrong, flagged, claimError, posting,
                 taken, failure, ended, late, lost>>

\* The session is known only after the refresh probe: its e-mail goes into the form.
SessionKnown ==
  /\ ended = "no"
  /\ signedIn = "probing"
  /\ signedIn' = "in"
  /\ wrong' = wrong \ {"email"}
  /\ refused' = FALSE
  /\ UNCHANGED <<wizard, profile, step, maxStep, flagged, claim, claimError, posting, taken,
                 failure, ended, late, lost>>

\* The profile is written over what was typed: a phone it has not may be required here.
ProfileArrives ==
  /\ ended = "no"
  /\ signedIn = "in" /\ profile = "waiting"
  /\ profile' = "arrived"
  /\ \E w \in {wrong \ {"identity", "email"}, (wrong \ {"email"}) \cup {"identity"}} :
       \E saved \in {{}, {"resume"}} : wrong' = w \ saved
  /\ late' = (step > 1)
  /\ refused' = FALSE
  /\ UNCHANGED <<wizard, signedIn, step, maxStep, flagged, claim, claimError, posting, taken,
                 failure, ended, lost>>

----------------------------------------------------------------------------
(* The steps. *)

\* The canvas of the signature is mounted anew, empty, with its step.
SignatureCanvas(s) == IF wizard = "register" /\ s = 1 THEN {"signature"} ELSE {}

\* The step shown from now on, and the marks.
Turn(s, marks) ==
  /\ step' = s
  /\ maxStep' = IF s > maxStep THEN s ELSE maxStep
  /\ flagged' = marks
  /\ wrong' = wrong \cup SignatureCanvas(s)
  /\ late' = (late /\ s # 1)
  /\ UNCHANGED <<wizard, signedIn, profile, claim, taken, ended, lost>>

\* Mutant: there is a step after the last.
NextStepPast ==
  /\ ended = "no"
  /\ StepPasses(step)
  /\ Turn(step + 1, Marks(step))
  /\ refused' = FALSE
  /\ UNCHANGED <<claimError, posting, failure>>

\* handleNext.  The registration takes its error away; the application leaves it.
NextStep ==
  /\ ended = "no" /\ step < LastStep
  /\ Turn(IF StepPasses(step) THEN step + 1 ELSE step, Marks(step))
  /\ refused' = ~StepPasses(step)
  /\ failure' = (failure /\ (wizard = "apply" \/ ~StepPasses(step)))
  /\ UNCHANGED <<claimError, posting>>

\* handleBack.
Back ==
  /\ ended = "no" /\ step > 1
  /\ Turn(step - 1, flagged)
  /\ refused' = FALSE
  /\ failure' = (failure /\ wizard = "apply")
  /\ UNCHANGED <<claimError, posting>>

\* Mutant: a jump ahead looks at the step it leaves only.
JumpToUnchecked(s) ==
  /\ ended = "no" /\ wizard = "apply"
  /\ s # step /\ s <= maxStep
  /\ s < step \/ StepPasses(step)
  /\ Turn(s, flagged)
  /\ refused' = FALSE
  /\ UNCHANGED <<claimError, posting, failure>>

\* jumpTo: back freely; ahead as far as the steps between pass, to the first that does not.
JumpTo(s) ==
  /\ ended = "no" /\ wizard = "apply"
  /\ s # step /\ s <= maxStep
  /\ LET failing == {k \in step..s - 1 : ~StepPasses(k)}
         passed == IF step = 1 THEN flagged \ Fields(1) ELSE flagged
     IN \/ /\ s < step
           /\ Turn(s, flagged)
           /\ refused' = FALSE
        \/ /\ s > step /\ failing = {}
           /\ Turn(s, passed)
           /\ refused' = FALSE
        \/ /\ 1 \in failing
           /\ Turn(1, Marks(1))
           /\ refused' = TRUE
        \/ /\ 1 \notin failing /\ 2 \in failing
           /\ Turn(2, passed \cup ({"resume"} \cap wrong))
           /\ refused' = TRUE
  /\ UNCHANGED <<claimError, posting, failure>>

----------------------------------------------------------------------------
(* The submission. *)

\* The claim counts where it is shown.
ClaimWrong == claim = "wrong" /\ signedIn # "in"

AllRight == ~ClaimWrong /\ \A s \in 1..LastStep : Gated(s) \cap wrong = {}

\* Mutant: the error of the submission before stays until the answer.
PostKeepsError ==
  /\ posting' = [st |-> "sent", good |-> AllRight]
  /\ claimError' = (claimError /\ (claim = "off" \/ signedIn = "in"))
  /\ refused' = FALSE
  /\ UNCHANGED failure

Post ==
  /\ posting' = [st |-> "sent", good |-> AllRight]
  /\ claimError' = (claimError /\ (claim = "off" \/ signedIn = "in"))
  /\ failure' = FALSE
  /\ refused' = FALSE

Refuse(marked) ==
  /\ claimError' = (claimError \/ marked)
  /\ refused' = TRUE
  /\ UNCHANGED <<posting, failure>>

\* The button is shown on the last step and waits for the consents and for the answer.
Submittable ==
  /\ ended = "no" /\ step = LastStep /\ posting = Idle
  /\ wizard = "apply" => "consents" \notin Gated(3) \cap wrong

\* Mutant: the steps before the last are not checked again.
SubmitApplicationLastOnly ==
  /\ wizard = "apply" /\ Submittable
  /\ StepPasses(3) /\ ~ClaimWrong
  /\ Turn(3, Marks(3)) /\ Post

\* doFinalSubmit: every step is checked again, and the first that fails is shown; the
\* last check starts from the marks the page had, so it undoes what the first took away.
SubmitApplication ==
  /\ wizard = "apply" /\ Submittable
  /\ \/ /\ ~StepPasses(1)
        /\ Turn(1, Marks(1)) /\ Refuse(FALSE)
     \/ /\ StepPasses(1) /\ ~StepPasses(2)
        /\ Turn(2, Marks(1) \cup ({"resume"} \cap wrong)) /\ Refuse(FALSE)
     \/ /\ StepPasses(1) /\ StepPasses(2)
        /\ Turn(3, Marks(3))
        /\ IF StepPasses(3) /\ ~ClaimWrong THEN Post ELSE Refuse(StepPasses(3))

\* handleSubmit of the registration: the last step is checked, the first was when it was
\* left.
SubmitRegistration ==
  /\ wizard = "register" /\ Submittable
  /\ Turn(2, Marks(2))
  /\ IF StepPasses(2) THEN Post ELSE Refuse(FALSE)

Submit == SubmitApplication \/ SubmitRegistration

\* The server takes a form once; its answer may be lost.
ServePosting ==
  /\ posting.st = "sent"
  /\ \/ /\ ~taken /\ taken' = TRUE
        /\ \E a \in {"done", "lost"} : posting' = [posting EXCEPT !.st = a]
     \/ /\ UNCHANGED taken
        /\ \E a \in {"refused", "lost", IF wizard = "apply" THEN "again" ELSE "password"} :
             posting' = [posting EXCEPT !.st = a]
  /\ UNCHANGED <<wizard, signedIn, profile, step, maxStep, wrong, flagged, claim, claimError,
                 failure, ended, refused, late, lost>>

\* The form is taken, or was before: another screen.
PostingDone ==
  /\ posting.st \in {"done", "again"}
  /\ ended' = IF posting.st = "done" THEN "success" ELSE "elsewhere"
  /\ posting' = Idle
  /\ UNCHANGED <<wizard, signedIn, profile, step, maxStep, wrong, flagged, claim, claimError,
                 taken, failure, refused, late, lost>>

\* Mutant: every refusal is taken for one of a field.
PostingFailedOnField ==
  /\ posting.st \in {"refused", "password", "lost"}
  /\ posting' = Idle
  /\ failure' = FALSE
  /\ refused' = TRUE
  /\ lost' = (lost \/ posting.st = "lost")
  /\ UNCHANGED <<wizard, signedIn, profile, step, maxStep, wrong, flagged, claim, claimError,
                 taken, ended, late>>

\* A refusal, or no answer: submitError.  A password the server refuses marks its field,
\* which is of the first step.
PostingFailed ==
  /\ posting.st \in {"refused", "password", "lost"}
  /\ posting' = Idle
  /\ failure' = (posting.st # "password")
  /\ flagged' = IF posting.st = "password" THEN flagged \cup {"company"} ELSE flagged
  /\ refused' = TRUE
  /\ lost' = (lost \/ posting.st = "lost")
  /\ UNCHANGED <<wizard, signedIn, profile, step, maxStep, wrong, claim, claimError, taken,
                 ended, late>>

\* Another job, another invitation.
StartOver ==
  /\ ended # "no"
  /\ step' = 1 /\ maxStep' = 1
  /\ wrong' = (UNION {Fields(s) : s \in 1..LastStep}) \ {"answers"}
  /\ flagged' = {}
  /\ claim' = "off" /\ claimError' = FALSE
  /\ taken' = FALSE /\ failure' = FALSE
  /\ ended' = "no"
  /\ refused' = FALSE /\ late' = FALSE /\ lost' = FALSE
  /\ profile' = "waiting"
  /\ UNCHANGED <<wizard, signedIn, posting>>

WizardNext ==
  \/ \E f \in AllFields : TypeField(f) \/ BlurField(f)
  \/ \E file \in {"good", "bad", "none"} : PickResume(file)
  \/ \E c \in {"off", "wrong", "right"} : TypeClaim(c)
  \/ LegalModal \/ RegisterModal
  \/ SessionKnown \/ ProfileArrives
  \/ NextStep \/ Back
  \/ \E s \in 1..LastStep : JumpTo(s)
  \/ Submit
  \/ ServePosting \/ PostingDone \/ PostingFailed
  \/ StartOver

WizardSpec == WizardInit /\ [][WizardNext]_wizardVars

----------------------------------------------------------------------------
(* Properties. *)

\* A click that is refused says why on the step it leaves the user on: a mark on one of
\* its fields, on the claim, or the error above the form; the one exception is the
\* password of a registration refused by the server, whose mark is on the step before.
RefusalSeen ==
  refused => \/ Fields(step) \cap flagged # {}
             \/ claimError /\ claim # "off" /\ signedIn # "in"
             \/ failure
             \/ wizard = "register" /\ "company" \in flagged

\* Every step before the one shown passes as it stands, whichever way the user went to
\* and fro, unless the profile overwrote a step already left.
StepsBehindPass == late \/ \A s \in 1..step - 1 : StepPasses(s)

\* No request carries a field that does not pass, the ones the profile overwrote behind
\* the user's back included.
SubmittedRight == posting.good

\* The error shown says the truth: the form was not taken, unless an answer was lost;
\* and the success screen comes for a form that was taken.
OutcomeTrue ==
  /\ failure => ~taken \/ lost
  /\ ended = "success" => taken

----------------------------------------------------------------------------
(* Why they hold: an inductive invariant. *)

\* The registration is for the invited, who have no account: there is nothing to arrive.
InvitedAlone == wizard = "register" => signedIn = "no" /\ claim = "off" /\ ~late

\* A request under way follows no error that still stands, is of the form shown, and is
\* the one that took the form, unless the answer of another was lost.
PostingStands ==
  /\ posting.st # "none" => ~failure /\ ended = "no"
  /\ posting.st = "password" => wizard = "register"
  /\ posting.st = "done" => taken
  /\ taken => lost \/ posting.st \in {"done", "lost"} \/ ended # "no"

WizardIInv ==
  /\ WizardTypeOK /\ InvitedAlone /\ PostingStands
  /\ RefusalSeen /\ StepsBehindPass /\ SubmittedRight /\ OutcomeTrue

============================================================================
