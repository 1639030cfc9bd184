------------------------------ MODULE InputsProofs ------------------------------
(***************************************************************************)
(* Proofs about what a user fills in and picks, for any number of subjects, *)
(* submissions, jobs, rows and tags: the forms and dialogs, the forms in   *)
(* steps, the filters over a list, and the inputs that edit a list in      *)
(* place.  Each has an inductive invariant, stated in its own module; it   *)
(* says what the text in the fields, the submissions in flight and the     *)
(* message shown, the range and the address, or the rows and their keys    *)
(* have to do with each other, and the promises follow from it.            *)
(***************************************************************************)
EXTENDS Forms, Wizard, Filters, RowEditor, ListsProofs

----------------------------------------------------------------------------
(* The forms. *)

\* What a component is made of.
FormRecs ==
  [mount : {"kept", "fresh", "child"}, many : BOOLEAN,
   seed : {"subject", "blank", "never"},
   done : {"close", "go", "switch", "stay", "reseed", "clear", "view"},
   told : {"toast", "form"},
   again : BOOLEAN, held : BOOLEAN, wipes : BOOLEAN, creates : BOOLEAN, stuck : BOOLEAN,
   final : {"keep", "close", "reload"}, drops : BOOLEAN]

\* What the components that do one thing have in common.
FormFacts(f) ==
  /\ f \in FormRecs
  /\ f.done = "reseed" => ~f.many /\ f.mount = "fresh" /\ f.seed = "subject" /\ ~f.wipes
  /\ f.done = "switch" => f.many /\ f.mount = "kept" /\ f.seed = "subject" /\ ~f.wipes
  /\ f.done = "clear" => f.seed = "blank"
  /\ f.creates => f.done \in {"close", "go", "view"}
  /\ f.mount = "child" => f.again
  /\ f.wipes => f.seed = "never"
  /\ f.drops \/ f.final # "keep" => f.done # "reseed"

\* A component as Form gives it, and what a mark leaves of it.
Plain(f, m, n, e, d) == f.mount = m /\ f.many = n /\ f.seed = e /\ f.done = d
Alike(g, f) == Plain(g, f.mount, f.many, f.seed, f.done)
SameMarks(g, f) == g.again = f.again /\ g.wipes = f.wipes /\ g.creates = f.creates
Unmarked(f, m, n, e, d) ==
  /\ f \in FormRecs /\ Plain(f, m, n, e, d)
  /\ ~f.again /\ ~f.wipes /\ ~f.creates /\ ~f.drops /\ f.final = "keep"
EndsAlike(g, f) == g.final = f.final /\ g.drops = f.drops

\* The components that no mark is put on.
LEMMA FormIs ==
  ASSUME NEW m \in {"kept", "fresh", "child"}, NEW n \in BOOLEAN,
         NEW e \in {"subject", "blank", "never"},
         NEW d \in {"close", "go", "switch", "stay", "reseed", "clear", "view"},
         NEW t \in {"toast", "form"}
  PROVE  Unmarked(Form(m, n, e, d, t), m, n, e, d)
BY DEF Form, FormRecs, Plain, Unmarked

\* A mark adds what it says, and changes nothing else.
LEMMA MarksAdd ==
  ASSUME NEW f \in FormRecs, NEW how \in {"keep", "close", "reload"}
  PROVE  /\ /\ Again(f) \in FormRecs /\ Alike(Again(f), f) /\ EndsAlike(Again(f), f)
            /\ Again(f).again /\ Again(f).wipes = f.wipes /\ Again(f).creates = f.creates
         /\ /\ Creates(f) \in FormRecs /\ Alike(Creates(f), f) /\ EndsAlike(Creates(f), f)
            /\ Creates(f).creates /\ Creates(f).wipes = f.wipes /\ Creates(f).again = f.again
         /\ /\ Wipes(f) \in FormRecs /\ Alike(Wipes(f), f) /\ EndsAlike(Wipes(f), f)
            /\ Wipes(f).wipes /\ Wipes(f).again = f.again /\ Wipes(f).creates = f.creates
         /\ /\ Held(f) \in FormRecs /\ Alike(Held(f), f) /\ EndsAlike(Held(f), f)
            /\ SameMarks(Held(f), f)
         /\ /\ EndsOn(f, how) \in FormRecs /\ Alike(EndsOn(f, how), f)
            /\ SameMarks(EndsOn(f, how), f)
         /\ Drops(f) \in FormRecs /\ Alike(Drops(f), f) /\ SameMarks(Drops(f), f)
<1>1. /\ Again(f) \in FormRecs /\ Alike(Again(f), f) /\ EndsAlike(Again(f), f)
      /\ Again(f).again /\ Again(f).wipes = f.wipes /\ Again(f).creates = f.creates
  BY DEF Again, FormRecs, Plain, Alike, EndsAlike
<1>2. /\ Creates(f) \in FormRecs /\ Alike(Creates(f), f) /\ EndsAlike(Creates(f), f)
      /\ Creates(f).creates /\ Creates(f).wipes = f.wipes /\ Creates(f).again = f.again
  BY DEF Creates, FormRecs, Plain, Alike, EndsAlike
<1>3. /\ Wipes(f) \in FormRecs /\ Alike(Wipes(f), f) /\ EndsAlike(Wipes(f), f)
      /\ Wipes(f).wipes /\ Wipes(f).again = f.again /\ Wipes(f).creates = f.creates
  BY DEF Wipes, FormRecs, Plain, Alike, EndsAlike
<1>4. /\ Held(f) \in FormRecs /\ Alike(Held(f), f) /\ EndsAlike(Held(f), f)
      /\ SameMarks(Held(f), f)
  BY DEF Held, FormRecs, Plain, Alike, EndsAlike, SameMarks
<1>5. EndsOn(f, how) \in FormRecs /\ Alike(EndsOn(f, how), f) /\ SameMarks(EndsOn(f, how), f)
  BY DEF EndsOn, FormRecs, Plain, Alike, SameMarks
<1>6. Drops(f) \in FormRecs /\ Alike(Drops(f), f) /\ SameMarks(Drops(f), f)
  BY DEF Drops, FormRecs, Plain, Alike, SameMarks
<1> QED
  BY <1>1, <1>2, <1>3, <1>4, <1>5, <1>6

\* A component that no mark is put on.
LEMMA PlainFacts ==
  ASSUME NEW m \in {"kept", "fresh", "child"}, NEW n \in BOOLEAN,
         NEW e \in {"subject", "blank", "never"},
         NEW d \in {"close", "go", "switch", "stay", "reseed", "clear", "view"},
         NEW t \in {"toast", "form"},
         m # "child",
         d = "reseed" => n = FALSE /\ m = "fresh" /\ e = "subject",
         d = "switch" => n = TRUE /\ m = "kept" /\ e = "subject",
         d = "clear" => e = "blank"
  PROVE  FormFacts(Form(m, n, e, d, t))
<1> DEFINE f == Form(m, n, e, d, t)
<1>1. Unmarked(f, m, n, e, d)
  BY FormIs
<1> HIDE DEF f
<1>2. FormFacts(f)
  BY <1>1 DEF FormFacts, Plain, Unmarked
<1> QED
  BY <1>2 DEF f

\* The marks leave a component what it is, where they are put.
LEMMA MarksKeep ==
  ASSUME NEW f, FormFacts(f)
  PROVE  /\ FormFacts(Again(f)) /\ FormFacts(Held(f))
         /\ f.done \in {"close", "go", "view"} =>
              FormFacts(Creates(f)) /\ Creates(f).seed = f.seed /\ Creates(f).done = f.done
         /\ f.seed = "never" /\ f.done = "close" => FormFacts(Wipes(f))
         /\ f.done # "reseed" => \A how \in {"keep", "close", "reload"} :
              FormFacts(EndsOn(f, how)) /\ Alike(EndsOn(f, how), f)
         /\ f.done # "reseed" => FormFacts(Drops(f))
         /\ Alike(Held(f), f)
<1>1. f \in FormRecs
  BY DEF FormFacts
<1>2. FormFacts(Again(f)) /\ FormFacts(Held(f)) /\ Alike(Held(f), f)
  BY <1>1, MarksAdd DEF FormFacts, Plain, Alike, SameMarks, EndsAlike
<1>3. f.done \in {"close", "go", "view"} =>
        FormFacts(Creates(f)) /\ Creates(f).seed = f.seed /\ Creates(f).done = f.done
  BY <1>1, MarksAdd DEF FormFacts, Plain, Alike, EndsAlike
<1>4. f.seed = "never" /\ f.done = "close" => FormFacts(Wipes(f))
  BY <1>1, MarksAdd DEF FormFacts, Plain, Alike, EndsAlike
<1>5. ASSUME f.done # "reseed", NEW how \in {"keep", "close", "reload"}
      PROVE  FormFacts(EndsOn(f, how)) /\ Alike(EndsOn(f, how), f)
  <2>1. /\ EndsOn(f, how) \in FormRecs /\ Alike(EndsOn(f, how), f)
        /\ SameMarks(EndsOn(f, how), f)
    BY <1>1, MarksAdd
  <2> QED
    BY <1>5, <2>1 DEF FormFacts, Plain, Alike, SameMarks
<1>6. f.done # "reseed" => FormFacts(Drops(f))
  BY <1>1, MarksAdd DEF FormFacts, Plain, Alike, SameMarks
<1> QED
  BY <1>2, <1>3, <1>4, <1>5, <1>6

\* What the components have in common, one by one.
LEMMA FormsAre == \A f \in Forms : FormFacts(f)
<1>1. /\ FormFacts(EditCompanyDialog)
      /\ FormFacts(ApplicationNotesDialog)
      /\ FormFacts(ApplicationStatusDialog)
      /\ FormFacts(DeleteCompanyConfirm)
  BY PlainFacts DEF EditCompanyDialog, ApplicationNotesDialog, ApplicationStatusDialog, DeleteCompanyConfirm
<1>2. /\ FormFacts(DeleteCandidateConfirm)
      /\ FormFacts(RecordStatus)
      /\ FormFacts(RecordNotes)
  BY PlainFacts DEF DeleteCandidateConfirm, RecordStatus, RecordNotes
<1>3. /\ FormFacts(IdentitySection)
      /\ FormFacts(ApplyAutofillSection)
      /\ FormFacts(SecuritySection)
      /\ FormFacts(AccountDeletionSection)
  BY PlainFacts DEF IdentitySection, ApplyAutofillSection, SecuritySection, AccountDeletionSection
<1>4. /\ FormFacts(DataExportSection)
      /\ FormFacts(CompanyProfileForm)
      /\ FormFacts(EditJob)
  BY PlainFacts DEF DataExportSection, CompanyProfileForm, EditJob
<1>5. /\ FormFacts(ForgotPassword)
      /\ FormFacts(LoginForm)
      /\ FormFacts(ResendActivation)
  BY PlainFacts DEF ForgotPassword, LoginForm, ResendActivation
<1>6. FormFacts(JobCreateDialog)
  <2> DEFINE f == Form("kept", FALSE, "blank", "close", "toast")
  <2>1. FormFacts(f)
    BY PlainFacts
  <2>2. Unmarked(f, "kept", FALSE, "blank", "close")
    BY FormIs
  <2>3. JobCreateDialog = Again(Creates(f))
    BY DEF JobCreateDialog
  <2> HIDE DEF f
  <2> QED
    BY <2>1, <2>2, <2>3, MarksKeep DEF Plain, Unmarked
<1>7. FormFacts(JobDialog)
  <2> DEFINE f == Form("kept", TRUE, "subject", "switch", "toast")
  <2>1. FormFacts(f)
    BY PlainFacts
  <2>2. Unmarked(f, "kept", TRUE, "subject", "switch")
    BY FormIs
  <2>3. JobDialog = Again(f)
    BY DEF JobDialog
  <2> HIDE DEF f
  <2> QED
    BY <2>1, <2>2, <2>3, MarksKeep DEF Plain, Unmarked
<1>8. FormFacts(InviteFormDialog)
  <2> DEFINE f == Form("kept", FALSE, "blank", "close", "form")
  <2>1. FormFacts(f)
    BY PlainFacts
  <2>2. Unmarked(f, "kept", FALSE, "blank", "close")
    BY FormIs
  <2>3. InviteFormDialog = Creates(f)
    BY DEF InviteFormDialog
  <2> HIDE DEF f
  <2> QED
    BY <2>1, <2>2, <2>3, MarksKeep DEF Plain, Unmarked
<1>9. FormFacts(CreateCompanyDialog)
  <2> DEFINE f == Form("kept", FALSE, "blank", "go", "toast")
  <2>1. FormFacts(f)
    BY PlainFacts
  <2>2. Unmarked(f, "kept", FALSE, "blank", "go")
    BY FormIs
  <2>3. CreateCompanyDialog = Creates(f)
    BY DEF CreateCompanyDialog
  <2> HIDE DEF f
  <2> QED
    BY <2>1, <2>2, <2>3, MarksKeep DEF Plain, Unmarked
<1>10. FormFacts(ContactJobDialog)
  <2> DEFINE f == Form("kept", TRUE, "never", "close", "toast")
  <2>1. FormFacts(f)
    BY PlainFacts
  <2>2. Unmarked(f, "kept", TRUE, "never", "close")
    BY FormIs
  <2>3. ContactJobDialog = Wipes(Creates(f))
    BY DEF ContactJobDialog
  <2> HIDE DEF f
  <2> QED
    BY <2>1, <2>2, <2>3, MarksKeep DEF Plain, Unmarked
<1>11. FormFacts(ResumeRename)
  <2> DEFINE f == Form("fresh", FALSE, "subject", "close", "form")
  <2>1. FormFacts(f)
    BY PlainFacts
  <2>2. Unmarked(f, "fresh", FALSE, "subject", "close")
    BY FormIs
  <2>3. ResumeRename = Again(f)
    BY DEF ResumeRename
  <2> HIDE DEF f
  <2> QED
    BY <2>1, <2>2, <2>3, MarksKeep DEF Plain, Unmarked
<1>12. FormFacts(PostJob)
  <2> DEFINE f == Form("fresh", FALSE, "blank", "go", "form")
  <2>1. FormFacts(f)
    BY PlainFacts
  <2>2. Unmarked(f, "fresh", FALSE, "blank", "go")
    BY FormIs
  <2>3. PostJob = Creates(f)
    BY DEF PostJob
  <2> HIDE DEF f
  <2> QED
    BY <2>1, <2>2, <2>3, MarksKeep DEF Plain, Unmarked
<1>13. FormFacts(WithdrawApplication)
  <2> DEFINE f == Form("fresh", TRUE, "subject", "go", "form")
  <2>1. FormFacts(f)
    BY PlainFacts
  <2>2. Unmarked(f, "fresh", TRUE, "subject", "go")
    BY FormIs
  <2>3. WithdrawApplication = Drops(EndsOn(Held(f), "reload"))
    BY DEF WithdrawApplication
  <2> HIDE DEF f
  <2>4. FormFacts(Held(f)) /\ Held(f).done = "go"
    BY <2>1, <2>2, MarksKeep DEF Plain, Alike, Unmarked
  <2>5. FormFacts(EndsOn(Held(f), "reload")) /\ EndsOn(Held(f), "reload").done = "go"
    BY <2>4, MarksKeep DEF Plain, Alike
  <2> QED
    BY <2>3, <2>5, MarksKeep
<1>14. FormFacts(RegisterCandidate)
  <2> DEFINE f == Form("fresh", FALSE, "blank", "view", "form")
  <2>1. FormFacts(f)
    BY PlainFacts
  <2>2. Unmarked(f, "fresh", FALSE, "blank", "view")
    BY FormIs
  <2>3. RegisterCandidate = Creates(f)
    BY DEF RegisterCandidate
  <2> HIDE DEF f
  <2> QED
    BY <2>1, <2>2, <2>3, MarksKeep DEF Plain, Unmarked
<1>15. FormFacts(InlineEditor)
  <2> DEFINE f == Form("child", TRUE, "blank", "close", "form")
  <2>1. Unmarked(f, "child", TRUE, "blank", "close")
    BY FormIs
  <2>2. InlineEditor = Again(f)
    BY DEF InlineEditor
  <2> HIDE DEF f
  <2> QED
    BY <2>1, <2>2, MarksAdd DEF FormFacts, Plain, Alike, EndsAlike, Unmarked
<1>16. FormFacts(SessionsSection)
  <2> DEFINE f == Form("fresh", TRUE, "subject", "stay", "form")
  <2>1. Unmarked(f, "fresh", TRUE, "subject", "stay")
    BY FormIs
  <2>2. SessionsSection = [f EXCEPT !.stuck = TRUE]
    BY DEF SessionsSection
  <2> HIDE DEF f
  <2>3. SessionsSection \in FormRecs
    BY <2>1, <2>2 DEF FormRecs, Unmarked
  <2>4. /\ SessionsSection.done = "stay" /\ SessionsSection.mount = "fresh"
        /\ ~SessionsSection.wipes /\ ~SessionsSection.creates
        /\ ~SessionsSection.drops /\ SessionsSection.final = "keep"
    BY <2>1, <2>2 DEF FormRecs, Plain, Unmarked
  <2> QED
    BY <2>3, <2>4 DEF FormFacts
<1>17. FormFacts(PushMatch)
  <2> DEFINE f == Form("kept", TRUE, "subject", "close", "toast")
  <2>1. FormFacts(f)
    BY PlainFacts
  <2>2. Unmarked(f, "kept", TRUE, "subject", "close")
    BY FormIs
  <2>3. PushMatch = EndsOn(f, "close")
    BY DEF PushMatch
  <2> HIDE DEF f
  <2> QED
    BY <2>1, <2>2, <2>3, MarksKeep DEF Plain, Unmarked
<1>18. FormFacts(EditApplication)
  <2> DEFINE f == Form("fresh", TRUE, "subject", "close", "form")
  <2>1. FormFacts(f)
    BY PlainFacts
  <2>2. Unmarked(f, "fresh", TRUE, "subject", "close")
    BY FormIs
  <2>3. EditApplication = EndsOn(f, "reload")
    BY DEF EditApplication
  <2> HIDE DEF f
  <2> QED
    BY <2>1, <2>2, <2>3, MarksKeep DEF Plain, Unmarked
<1> QED
  BY <1>1, <1>2, <1>3, <1>4, <1>5, <1>6, <1>7, <1>8, <1>9, <1>10, <1>11, <1>12, <1>13, <1>14, <1>15, <1>16,
     <1>17, <1>18 DEF Forms

SubRecs == [st : {"none", "sent", "done", "refused", "final", "lost"},
            to : Subjects \cup {Nobody}, draft : Subjects \cup {Nobody},
            at : BOOLEAN, same : BOOLEAN]

\* The types, with what the components have in common.
LEMMA FormTypes ==
  ASSUME FormTypeOK
  PROVE  /\ FormFacts(form) /\ form \in FormRecs /\ form \in Forms
         /\ open \in Subjects \cup {Nobody} /\ Nobody \notin Subjects /\ 1 \in Subjects
         /\ draft \in [of : Subjects \cup {Nobody}, st : {"clean", "typed", "sent"}]
         /\ busy \in BOOLEAN /\ unsure \in BOOLEAN /\ meddled \in BOOLEAN
         /\ sub \in [Subs -> SubRecs]
         /\ message \in {"none", "saved", "error", "view"} /\ made \in {0, 1, 2}
<1>1. FormFacts(form) /\ form \in FormRecs /\ form \in Forms
  BY FormsAre DEF FormTypeOK, FormFacts
<1>2. Nobody \notin Subjects /\ 1 \in Subjects
  BY FormAssumption DEF Nobody, Subjects
<1>3. made \in {0, 1, 2}
  BY DEF FormTypeOK
<1> QED
  BY <1>1, <1>2, <1>3 DEF FormTypeOK, SubRecs

\* The other way round.
LEMMA FormTyped ==
  ASSUME form \in Forms, open \in Subjects \cup {Nobody},
         draft \in [of : Subjects \cup {Nobody}, st : {"clean", "typed", "sent"}],
         busy \in BOOLEAN, unsure \in BOOLEAN, meddled \in BOOLEAN,
         sub \in [Subs -> SubRecs],
         message \in {"none", "saved", "error", "view"}, made \in {0, 1, 2}
  PROVE  FormTypeOK
BY DEF FormTypeOK, SubRecs

\* And after a step.
LEMMA FormTypedNext ==
  ASSUME form' \in Forms, open' \in Subjects \cup {Nobody},
         draft' \in [of : Subjects \cup {Nobody}, st : {"clean", "typed", "sent"}],
         busy' \in BOOLEAN, unsure' \in BOOLEAN, meddled' \in BOOLEAN,
         sub' \in [Subs -> SubRecs],
         message' \in {"none", "saved", "error", "view"}, made' \in {0, 1, 2}
  PROVE  FormTypeOK'
BY DEF FormTypeOK, SubRecs

\* The first state.
LEMMA FormStarts == FormInit => FormIInv
<1> SUFFICES ASSUME FormInit PROVE FormIInv
  OBVIOUS
<1>1. /\ form \in Forms /\ open = Nobody /\ draft = Blank /\ busy = FALSE
      /\ sub = [c \in Subs |-> NoSub] /\ message = "none" /\ made = 0 /\ unsure = FALSE
      /\ meddled = FALSE
  BY DEF FormInit
<1>2. NoSub \in SubRecs /\ Blank \in [of : Subjects \cup {Nobody}, st : {"clean", "typed", "sent"}]
  BY DEF NoSub, SubRecs, Blank
<1>3. FormTypeOK
  BY <1>1, <1>2, FormTyped
<1>4. InFlight = {} /\ Mounted = {} /\ \A c \in Subs : ~sub[c].same
  BY <1>1 DEF InFlight, Mounted, NoSub
<1>5. OwnText
  BY <1>1 DEF OwnText, Blank
<1>6. SentFromOpen
  BY <1>1, <1>4 DEF SentFromOpen, NoSub
<1>7. SameTold /\ OneAtATime /\ UserWaited /\ SendsOwnDraft
  BY <1>1, <1>4 DEF SameTold, OneAtATime, UserWaited, SendsOwnDraft
<1>8. MadeByOne /\ SavingHasCall /\ CreatedOnce /\ VerdictTrue
  BY <1>1 DEF MadeByOne, SavingHasCall, CreatedOnce, VerdictTrue
<1> QED
  BY <1>3, <1>5, <1>6, <1>7, <1>8 DEF FormIInv

\* With another text in the fields, nothing in flight is of it.
LEMMA NewTextKeeps ==
  ASSUME FormIInv, FormTypeOK', OwnText', OneAtATime', SavingHasCall', NewText, form' = form,
         \A c \in Subs : /\ sub'[c].st = sub[c].st /\ sub'[c].to = sub[c].to
                         /\ sub'[c].draft = sub[c].draft /\ sub'[c].same = FALSE
                         /\ sub'[c].at => sub[c].at /\ open' # Nobody,
         ~form.many => open' \in {Nobody, 1},
         meddled' = (meddled \/ InFlight # {}),
         message' \in {"saved", "view"} => draft'.st = "typed"
  PROVE  FormIInv'
<1>1. /\ SendsOwnDraft /\ SentFromOpen /\ FormFacts(form)
      /\ InFlight' = InFlight /\ made' = 0
  BY FormTypes DEF FormIInv, InFlight, NewText
<1>2. SentFromOpen'
  <2>1. \A c \in InFlight' : sub'[c].to # Nobody
    BY <1>1 DEF SentFromOpen, InFlight
  <2>2. ~form'.many => \A s \in {open'} \cup {sub'[c].to : c \in Subs} : s \in {Nobody, 1}
    BY <1>1 DEF SentFromOpen
  <2>3. \A c \in InFlight' : sub'[c].at => open' # Nobody
    BY <1>1 DEF InFlight
  <2> QED
    BY <2>1, <2>2, <2>3 DEF SentFromOpen
<1>3. SendsOwnDraft'
  BY <1>1 DEF SendsOwnDraft, InFlight
<1>4. SameTold' /\ MadeByOne' /\ CreatedOnce'
  BY <1>1 DEF SameTold, MadeByOne, CreatedOnce
<1>5. UserWaited'
  BY <1>1 DEF UserWaited
<1>6. VerdictTrue'
  BY <1>1 DEF VerdictTrue
<1> QED
  BY <1>2, <1>3, <1>4, <1>5, <1>6 DEF FormIInv

\* A form opens.
LEMMA OpenKeeps ==
  ASSUME FormIInv, NEW s \in Subjects, OpenForm(s)
  PROVE  FormIInv'
<1>1. /\ FormFacts(form) /\ form \in FormRecs /\ form \in Forms
      /\ Nobody \notin Subjects /\ 1 \in Subjects
      /\ draft \in [of : Subjects \cup {Nobody}, st : {"clean", "typed", "sent"}]
      /\ busy \in BOOLEAN /\ meddled \in BOOLEAN /\ sub \in [Subs -> SubRecs]
      /\ OwnText /\ OneAtATime /\ SavingHasCall
  BY FormTypes DEF FormIInv
<1>2. /\ open = Nobody /\ (form.many \/ s = 1) /\ open' = s /\ draft' = Seed(s) /\ NewText
      /\ sub' = [c \in Subs |-> [sub[c] EXCEPT !.same = FALSE]]
      /\ message' = "none" /\ meddled' = (meddled \/ InFlight # {}) /\ UNCHANGED <<form, busy>>
  BY DEF OpenForm
<1>3. /\ sub' \in [Subs -> SubRecs]
      /\ \A c \in Subs : /\ sub'[c].st = sub[c].st /\ sub'[c].to = sub[c].to
                         /\ sub'[c].draft = sub[c].draft /\ sub'[c].same = FALSE
                         /\ sub'[c].at = sub[c].at
  <2>1. sub \in [Subs -> SubRecs] /\ sub' = [c \in Subs |-> [sub[c] EXCEPT !.same = FALSE]]
    BY <1>1, <1>2
  <2> QED
    BY <2>1 DEF SubRecs
<1>4. Mounted' = Mounted
  BY <1>2, <1>3 DEF Mounted, InFlight
<1>5. /\ draft' \in [of : Subjects \cup {Nobody}, st : {"clean", "typed", "sent"}]
      /\ form.seed = "subject" => draft'.of = s /\ draft'.st = "clean"
      /\ form.seed = "blank" => draft'.of = Nobody /\ draft'.st = "clean"
      /\ form.seed = "never" => draft' = draft
  <2>1. form.seed \in {"subject", "blank", "never"}
    BY <1>1 DEF FormRecs
  <2> QED
    BY <1>1, <1>2, <2>1 DEF Seed, Blank
<1>6. OwnText'
  <2>1. form.wipes => form.seed = "never" /\ draft.of = Nobody
    BY <1>1, <1>2 DEF FormFacts, OwnText
  <2> QED
    BY <1>1, <1>2, <1>5, <2>1 DEF OwnText
<1>7. OneAtATime' /\ SavingHasCall'
  BY <1>1, <1>2, <1>4 DEF OneAtATime, SavingHasCall
<1>8. FormTypeOK'
  <2>1. meddled' \in BOOLEAN /\ made' = 0 /\ unsure' = FALSE
    BY <1>1, <1>2 DEF NewText
  <2>2. unsure' \in BOOLEAN /\ made' \in {0, 1, 2}
    BY <2>1
  <2>3. form' \in Forms /\ open' \in Subjects \cup {Nobody} /\ busy' \in BOOLEAN
        /\ message' \in {"none", "saved", "error", "view"}
    BY <1>1, <1>2
  <2> QED
    BY <1>3, <1>5, <2>1, <2>2, <2>3, FormTypedNext
<1> QED
  BY <1>1, <1>2, <1>3, <1>6, <1>7, <1>8, NewTextKeeps

\* The user types.
LEMMA TypeKeeps ==
  ASSUME FormIInv, TypeIn
  PROVE  FormIInv'
<1>1. /\ FormFacts(form) /\ form \in FormRecs /\ form \in Forms
      /\ Nobody \notin Subjects /\ 1 \in Subjects /\ open \in Subjects \cup {Nobody}
      /\ draft \in [of : Subjects \cup {Nobody}, st : {"clean", "typed", "sent"}]
      /\ busy \in BOOLEAN /\ meddled \in BOOLEAN /\ sub \in [Subs -> SubRecs]
      /\ message \in {"none", "saved", "error", "view"}
      /\ OwnText /\ SentFromOpen /\ OneAtATime /\ SavingHasCall
  BY FormTypes DEF FormIInv
<1>2. /\ open # Nobody
      /\ draft' = [of |-> IF draft.of = Nobody THEN open ELSE draft.of, st |-> "typed"] /\ NewText
      /\ sub' = [c \in Subs |-> [sub[c] EXCEPT !.same = FALSE]]
      /\ meddled' = (meddled \/ InFlight # {}) /\ UNCHANGED <<form, open, busy, message>>
  BY DEF TypeIn
<1>3. /\ sub' \in [Subs -> SubRecs]
      /\ \A c \in Subs : /\ sub'[c].st = sub[c].st /\ sub'[c].to = sub[c].to
                         /\ sub'[c].draft = sub[c].draft /\ sub'[c].same = FALSE
                         /\ sub'[c].at = sub[c].at
  BY <1>1, <1>2 DEF SubRecs
<1>4. Mounted' = Mounted
  BY <1>2, <1>3 DEF Mounted, InFlight
<1>5. /\ draft' \in [of : Subjects \cup {Nobody}, st : {"clean", "typed", "sent"}]
      /\ draft'.st = "typed" /\ draft'.of \in {draft.of, open} /\ draft'.of # Nobody
  BY <1>1, <1>2
<1>6. OwnText'
  BY <1>1, <1>2, <1>5 DEF OwnText
<1>7. OneAtATime' /\ SavingHasCall'
  BY <1>1, <1>2, <1>4 DEF OneAtATime, SavingHasCall
<1>8. FormTypeOK'
  <2>1. meddled' \in BOOLEAN /\ made' = 0 /\ unsure' = FALSE
    BY <1>1, <1>2 DEF NewText
  <2>2. unsure' \in BOOLEAN /\ made' \in {0, 1, 2}
    BY <2>1
  <2>3. form' \in Forms /\ open' \in Subjects \cup {Nobody} /\ busy' \in BOOLEAN
        /\ message' \in {"none", "saved", "error", "view"}
    BY <1>1, <1>2
  <2> QED
    BY <1>3, <1>5, <2>1, <2>2, <2>3, FormTypedNext
<1>9. ~form.many => open' \in {Nobody, 1}
  BY <1>1, <1>2 DEF SentFromOpen
<1> QED
  BY <1>1, <1>2, <1>3, <1>5, <1>6, <1>7, <1>8, <1>9, NewTextKeeps

\* The fields of a form that is closed.
LEMMA LeftIs ==
  ASSUME FormTypeOK
  PROVE  /\ Left \in [of : Subjects \cup {Nobody}, st : {"clean", "typed", "sent"}]
         /\ Left.st = "clean" /\ (form.wipes => Left.of = Nobody)
<1>1. draft \in [of : Subjects \cup {Nobody}, st : {"clean", "typed", "sent"}]
  BY DEF FormTypeOK
<1> QED
  BY <1>1 DEF Left, Blank

\* A form closes.
LEMMA CloseKeeps ==
  ASSUME FormIInv, CloseForm
  PROVE  FormIInv'
<1>1. /\ FormFacts(form) /\ form \in FormRecs /\ form \in Forms
      /\ Nobody \notin Subjects /\ 1 \in Subjects
      /\ busy \in BOOLEAN /\ meddled \in BOOLEAN /\ sub \in [Subs -> SubRecs]
      /\ OwnText /\ OneAtATime /\ SavingHasCall /\ FormTypeOK
  BY FormTypes DEF FormIInv
<1>2. /\ open' = Nobody /\ draft' = Left /\ NewText
      /\ sub' = [c \in Subs |-> [sub[c] EXCEPT !.at = FALSE, !.same = FALSE]]
      /\ busy' = (busy /\ form.mount = "kept")
      /\ message' = "none" /\ meddled' = (meddled \/ InFlight # {}) /\ form' = form
  BY DEF CloseForm
<1>3. /\ sub' \in [Subs -> SubRecs]
      /\ \A c \in Subs : /\ sub'[c].st = sub[c].st /\ sub'[c].to = sub[c].to
                         /\ sub'[c].draft = sub[c].draft /\ sub'[c].same = FALSE
                         /\ sub'[c].at = FALSE
  BY <1>1, <1>2 DEF SubRecs
<1>4. /\ busy' \in BOOLEAN /\ (busy' => busy /\ form.mount = "kept")
      /\ (busy /\ form.mount = "kept" => busy')
  BY <1>1, <1>2
<1>5. /\ form.mount = "kept" => Mounted' = Mounted
      /\ form.mount # "kept" => Mounted' = {}
  BY <1>2, <1>3 DEF Mounted, InFlight
<1>6. OwnText'
  BY <1>1, <1>2, LeftIs DEF OwnText
<1>7. OneAtATime' /\ SavingHasCall'
  BY <1>1, <1>2, <1>4, <1>5 DEF OneAtATime, SavingHasCall
<1>8. FormTypeOK'
  <2>1. meddled' \in BOOLEAN /\ made' = 0 /\ unsure' = FALSE
    BY <1>1, <1>2 DEF NewText
  <2>2. unsure' \in BOOLEAN /\ made' \in {0, 1, 2}
    BY <2>1
  <2>3. /\ form' \in Forms /\ open' \in Subjects \cup {Nobody}
        /\ message' \in {"none", "saved", "error", "view"}
        /\ draft' \in [of : Subjects \cup {Nobody}, st : {"clean", "typed", "sent"}]
    BY <1>1, <1>2, LeftIs
  <2> QED
    BY <1>3, <1>4, <2>1, <2>2, <2>3, FormTypedNext
<1> QED
  BY <1>1, <1>2, <1>3, <1>6, <1>7, <1>8, NewTextKeeps

\* A submission.
LEMMA SubmitKeeps ==
  ASSUME FormIInv, NEW c \in Subs, SubmitForm(c)
  PROVE  FormIInv'
<1>1. /\ FormFacts(form) /\ form \in FormRecs /\ form \in Forms
      /\ Nobody \notin Subjects /\ 1 \in Subjects /\ open \in Subjects \cup {Nobody}
      /\ draft \in [of : Subjects \cup {Nobody}, st : {"clean", "typed", "sent"}]
      /\ busy \in BOOLEAN /\ meddled \in BOOLEAN /\ unsure \in BOOLEAN
      /\ sub \in [Subs -> SubRecs] /\ made \in {0, 1, 2}
      /\ OwnText /\ SentFromOpen /\ SameTold /\ OneAtATime /\ MadeByOne /\ UserWaited
      /\ SendsOwnDraft
  BY FormTypes DEF FormIInv
<1>2. /\ open # Nobody /\ message # "view" /\ (busy => form.again)
      /\ (form.seed = "blank" => draft.st # "clean") /\ sub[c] = NoSub
      /\ sub' = [sub EXCEPT ![c] = [st |-> "sent", to |-> open, draft |-> draft.of,
                                    at |-> TRUE, same |-> TRUE]]
      /\ draft' = IF draft.st = "typed" THEN [draft EXCEPT !.st = "sent"] ELSE draft
      /\ busy' = TRUE /\ message' = "none" /\ meddled' = (meddled /\ InFlight # {})
      /\ made' = IF InFlight = {} /\ ~unsure THEN 0 ELSE made
      /\ UNCHANGED <<form, open, unsure>>
  BY DEF SubmitForm
<1>3. /\ sub' \in [Subs -> SubRecs]
      /\ sub'[c].st = "sent" /\ sub'[c].to = open /\ sub'[c].draft = draft.of
      /\ sub'[c].at = TRUE /\ sub'[c].same = TRUE
      /\ \A d \in Subs \ {c} : sub'[d] = sub[d]
  BY <1>1, <1>2 DEF SubRecs
<1>4. /\ c \notin InFlight /\ InFlight' = InFlight \cup {c} /\ Mounted' = Mounted \cup {c}
  BY <1>2, <1>3 DEF InFlight, Mounted, NoSub
<1>5. /\ draft' \in [of : Subjects \cup {Nobody}, st : {"clean", "typed", "sent"}]
      /\ draft'.of = draft.of /\ draft'.st # "typed"
      /\ (draft'.st = "clean" <=> draft.st = "clean")
  BY <1>1, <1>2
<1>6. /\ meddled' \in BOOLEAN /\ (meddled' <=> meddled /\ InFlight # {})
      /\ made' \in {0, made} /\ (InFlight = {} => made' = 0 \/ unsure)
      /\ (InFlight # {} => made' = made)
  BY <1>1, <1>2
<1>7. FormTypeOK'
  <2>1. made' \in {0, 1, 2} /\ form' \in Forms /\ open' \in Subjects \cup {Nobody}
        /\ busy' \in BOOLEAN /\ unsure' \in BOOLEAN
        /\ message' \in {"none", "saved", "error", "view"}
    BY <1>1, <1>2, <1>6
  <2> QED
    BY <1>3, <1>5, <1>6, <2>1, FormTypedNext
<1>8. OwnText'
  BY <1>1, <1>2, <1>5 DEF OwnText
<1>9. SentFromOpen'
  <2>1. \A d \in InFlight' : sub'[d].to # Nobody
    BY <1>1, <1>2, <1>3, <1>4 DEF SentFromOpen
  <2>2. ~form'.many => \A s \in {open'} \cup {sub'[d].to : d \in Subs} : s \in {Nobody, 1}
    BY <1>1, <1>2, <1>3 DEF SentFromOpen
  <2> QED
    BY <1>2, <2>1, <2>2 DEF SentFromOpen
<1>10. SameTold'
  <2>1. \A d \in Subs \ {c} : sub[d].st = "done" => InFlight # {}
    BY DEF InFlight
  <2> QED
    BY <1>1, <1>2, <1>3, <1>6, <2>1 DEF SameTold
<1>11. ~form.again => Mounted = {}
  BY <1>1, <1>2 DEF OneAtATime
<1>12. OneAtATime'
  BY <1>2, <1>4, <1>11 DEF OneAtATime
<1>13. MadeByOne'
  <2>1. SUFFICES ASSUME form.creates, ~form.again, ~unsure, made' > 0 PROVE FALSE
    BY <1>2 DEF MadeByOne
  <2>2. made' = made /\ made > 0 /\ InFlight # {}
    BY <1>1, <1>6, <2>1
  <2>3. PICK d \in Subs : sub[d].same /\ sub[d].st = "done"
    BY <1>1, <1>2, <2>1, <2>2 DEF MadeByOne
  <2>4. d \in Mounted
    BY <1>1, <2>3 DEF SameTold, Mounted, InFlight
  <2> QED
    BY <1>11, <2>1, <2>4
<1>14. UserWaited'
  <2>1. SUFFICES ASSUME ~meddled', NEW d \in InFlight'
                 PROVE  /\ sub'[d].same
                        /\ ~form.again /\ sub'[d].st \in {"sent", "refused", "final"} =>
                             made' = 0 \/ unsure
    BY <1>2, <1>5 DEF UserWaited
  <2>2. CASE InFlight = {}
    BY <1>3, <1>4, <1>6, <2>1, <2>2
  <2>3. CASE InFlight # {}
    <3>1. \A e \in InFlight : sub[e].same
      BY <1>1, <1>6, <2>1, <2>3 DEF UserWaited
    <3>2. InFlight \subseteq Mounted
      BY <1>1, <3>1 DEF SameTold, Mounted, InFlight
    <3>3. form.again
      BY <1>11, <2>3, <3>2
    <3>4. sub'[d].same
      <4>1. CASE d = c
        BY <1>3, <4>1
      <4>2. CASE d # c
        <5>1. d \in InFlight /\ d \in Subs
          BY <1>4, <2>1, <4>2 DEF InFlight
        <5> QED
          BY <1>3, <3>1, <4>2, <5>1
      <4> QED
        BY <4>1, <4>2
    <3> QED
      BY <3>3, <3>4
  <2> QED
    BY <2>2, <2>3
<1>15. SendsOwnDraft'
  <2>1. SUFFICES ASSUME form.seed # "never" \/ form.wipes, NEW d \in InFlight'
                 PROVE  \/ sub'[d].draft = sub'[d].to
                        \/ form.wipes /\ sub'[d].draft = Nobody
    BY <1>2 DEF SendsOwnDraft
  <2>2. CASE d = c
    <3>1. form.seed \in {"subject", "blank", "never"}
      BY <1>1 DEF FormRecs
    <3>2. CASE form.wipes
      BY <1>1, <1>2, <1>3, <2>2, <3>2 DEF OwnText
    <3>3. CASE ~form.wipes
      BY <1>1, <1>2, <1>3, <2>1, <2>2, <3>1, <3>3 DEF OwnText
    <3> QED
      BY <3>2, <3>3
  <2>3. CASE d # c
    <3>1. d \in InFlight /\ d \in Subs
      BY <1>4, <2>1, <2>3 DEF InFlight
    <3> QED
      BY <1>1, <1>3, <2>1, <2>3, <3>1 DEF SendsOwnDraft
  <2> QED
    BY <2>2, <2>3
<1>16. SavingHasCall'
  BY <1>4 DEF SavingHasCall
<1>17. CreatedOnce'
  <2>1. form'.creates /\ made' > 1 => form'.again \/ unsure'
    BY <1>6, <1>1, <1>13 DEF MadeByOne
  <2> QED
    BY <2>1 DEF CreatedOnce
<1>18. VerdictTrue'
  BY <1>2 DEF VerdictTrue
<1> QED
  BY <1>7, <1>8, <1>9, <1>10, <1>12, <1>13, <1>14, <1>15, <1>16, <1>17, <1>18 DEF FormIInv

\* The server carries a submission out, or refuses it.
LEMMA ServeKeeps ==
  ASSUME FormIInv, NEW c \in Subs, ServeForm(c)
  PROVE  FormIInv'
<1>1. /\ FormFacts(form) /\ form \in FormRecs /\ form \in Forms
      /\ Nobody \notin Subjects /\ 1 \in Subjects /\ open \in Subjects \cup {Nobody}
      /\ draft \in [of : Subjects \cup {Nobody}, st : {"clean", "typed", "sent"}]
      /\ busy \in BOOLEAN /\ meddled \in BOOLEAN /\ unsure \in BOOLEAN
      /\ message \in {"none", "saved", "error", "view"}
      /\ sub \in [Subs -> SubRecs] /\ made \in {0, 1, 2}
      /\ OwnText /\ SentFromOpen /\ SameTold /\ OneAtATime /\ MadeByOne /\ UserWaited
      /\ SendsOwnDraft /\ SavingHasCall /\ VerdictTrue
  BY FormTypes DEF FormIInv
<1>2. sub[c].st = "sent" /\ UNCHANGED <<form, open, draft, busy, message, meddled>>
  BY DEF ServeForm
<1>3. PICK st \in {"done", "lost", "refused", "final"} :
        /\ sub' = [sub EXCEPT ![c].st = st]
        /\ st \in {"refused", "final"} => UNCHANGED <<made, unsure>>
        /\ st \in {"done", "lost"} =>
             /\ made' = IF sub[c].same /\ made < 2 THEN made + 1 ELSE made
             /\ unsure' = (unsure \/ (sub[c].same /\ sub'[c].st = "lost"))
  BY DEF ServeForm
<1>4. /\ sub' \in [Subs -> SubRecs]
      /\ sub'[c].st = st /\ sub'[c].to = sub[c].to /\ sub'[c].draft = sub[c].draft
      /\ sub'[c].at = sub[c].at /\ sub'[c].same = sub[c].same
      /\ \A d \in Subs \ {c} : sub'[d] = sub[d]
  BY <1>1, <1>3 DEF SubRecs
<1>5. InFlight' = InFlight /\ Mounted' = Mounted /\ c \in InFlight
  BY <1>2, <1>4 DEF InFlight, Mounted
<1>6. sub[c].same \in BOOLEAN
  BY <1>1 DEF SubRecs
<1>7. /\ made' \in {0, 1, 2} /\ made' >= made
      /\ sub[c].same /\ st \in {"done", "lost"} => made' > 0
      /\ st \in {"refused", "final"} \/ ~sub[c].same => made' = made
      /\ made = 0 => made' \in {0, 1}
  BY <1>1, <1>3, <1>6
<1>8. /\ unsure' \in BOOLEAN /\ (unsure => unsure')
      /\ sub[c].same /\ st = "lost" => unsure'
      /\ st # "lost" \/ ~sub[c].same => unsure' = unsure
  <2>1. CASE st \in {"refused", "final"}
    BY <1>1, <1>3, <2>1
  <2>2. CASE st \in {"done", "lost"}
    BY <1>1, <1>3, <1>4, <1>6, <2>2
  <2> QED
    BY <2>1, <2>2
<1>9. FormTypeOK'
  <2>1. /\ form' \in Forms /\ open' \in Subjects \cup {Nobody} /\ busy' \in BOOLEAN
        /\ meddled' \in BOOLEAN /\ message' \in {"none", "saved", "error", "view"}
        /\ draft' \in [of : Subjects \cup {Nobody}, st : {"clean", "typed", "sent"}]
    BY <1>1, <1>2
  <2> QED
    BY <1>4, <1>7, <1>8, <2>1, FormTypedNext
<1>10. OwnText'
  BY <1>1, <1>2 DEF OwnText
<1>11. \A d \in Subs : sub'[d].to = sub[d].to /\ sub'[d].at = sub[d].at
                       /\ sub'[d].draft = sub[d].draft /\ sub'[d].same = sub[d].same
  BY <1>4
<1>12. SentFromOpen'
  <2>1. \A d \in InFlight' : sub'[d].to # Nobody /\ (sub'[d].at => sub[d].at)
    BY <1>1, <1>5, <1>11 DEF SentFromOpen, InFlight
  <2>2. ~form'.many => \A s \in {open'} \cup {sub'[d].to : d \in Subs} : s \in {Nobody, 1}
    <3>1. ~form.many => open \in {Nobody, 1} /\ \A d \in Subs : sub[d].to \in {Nobody, 1}
      BY <1>1 DEF SentFromOpen
    <3>2. form' = form /\ open' = open /\ \A d \in Subs : sub'[d].to = sub[d].to
      BY <1>2, <1>11
    <3> QED
      BY <3>1, <3>2
  <2> QED
    BY <1>1, <1>2, <1>5, <2>1, <2>2 DEF SentFromOpen
<1>13. SameTold'
  BY <1>1, <1>4, <1>7, <1>8 DEF SameTold
<1>14. OneAtATime' /\ SavingHasCall'
  BY <1>1, <1>2, <1>5 DEF OneAtATime, SavingHasCall
<1>15. SendsOwnDraft'
  BY <1>1, <1>2, <1>5, <1>11 DEF SendsOwnDraft, InFlight
<1>16. ASSUME ~form.again, NEW d \in Subs, sub[d].same, sub[c].same, sub[d].st # "none"
       PROVE  d = c
  BY <1>1, <1>2, <1>16 DEF SameTold, OneAtATime, Mounted, InFlight
<1>17. MadeByOne'
  <2>1. SUFFICES ASSUME form.creates, ~form.again, ~unsure', made' > 0
                 PROVE  /\ made' = 1
                        /\ \A d \in Subs : sub'[d].same => sub'[d].st # "sent"
                        /\ \/ open = Nobody \/ message = "view"
                           \/ \E d \in Subs : sub'[d].same /\ sub'[d].st = "done"
    BY <1>2 DEF MadeByOne
  <2>2. CASE made > 0
    <3>1. /\ made = 1 /\ \A d \in Subs : sub[d].same => sub[d].st # "sent"
          /\ \/ open = Nobody \/ message = "view"
             \/ \E d \in Subs : sub[d].same /\ sub[d].st = "done"
      BY <1>1, <1>8, <2>1, <2>2 DEF MadeByOne
    <3>2. ~sub[c].same /\ made' = 1
      BY <1>2, <1>7, <3>1
    <3>3. \A d \in Subs : sub[d].same => sub'[d] = sub[d]
      BY <1>4, <3>2
    <3> QED
      BY <1>11, <3>1, <3>2, <3>3
  <2>3. CASE made = 0
    <3>1. sub[c].same /\ st = "done" /\ made' = 1
      BY <1>7, <1>8, <2>1, <2>3
    <3>2. \A d \in Subs : sub[d].same /\ sub[d].st = "sent" => d = c
      BY <1>16, <2>1, <3>1
    <3> QED
      BY <1>4, <3>1, <3>2
  <2> QED
    BY <1>1, <2>2, <2>3
<1>18. UserWaited'
  <2>1. SUFFICES ASSUME ~meddled, NEW d \in InFlight
                 PROVE  /\ sub'[d].same /\ draft.st # "typed"
                        /\ ~form.again =>
                             /\ message = "none"
                             /\ sub'[d].st \in {"sent", "refused", "final"} => made' = 0 \/ unsure'
    BY <1>2, <1>5 DEF UserWaited
  <2>2. \A e \in InFlight : /\ e \in Subs /\ sub[e].same /\ draft.st # "typed" /\ sub[e].st # "none"
                            /\ ~form.again =>
                                 /\ message = "none"
                                 /\ sub[e].st \in {"sent", "refused", "final"} => made = 0 \/ unsure
    BY <1>1, <2>1 DEF UserWaited, InFlight
  <2>3. ~form.again => d = c
    BY <1>5, <1>16, <2>1, <2>2
  <2> QED
    BY <1>2, <1>3, <1>4, <1>5, <1>7, <1>8, <1>11, <2>1, <2>2, <2>3
<1>19. VerdictTrue'
  <2>1. ~form.again /\ ~meddled => message = "none"
    BY <1>1, <1>5 DEF UserWaited
  <2> QED
    BY <1>2, <2>1 DEF VerdictTrue
<1>20. CreatedOnce'
  <2>1. form'.creates /\ made' > 1 => form'.again \/ unsure'
    BY <1>7, <1>17 DEF MadeByOne
  <2> QED
    BY <2>1 DEF CreatedOnce
<1> QED
  BY <1>9, <1>10, <1>12, <1>13, <1>14, <1>15, <1>17, <1>18, <1>19, <1>20 DEF FormIInv

\* An answer: the submission is gone, the others and the text's fate are as they were, and
\* a wait it could end has ended.
LEMMA AnswerKeeps ==
  ASSUME FormIInv, NEW c \in Subs, c \in InFlight, sub' = [sub EXCEPT ![c] = NoSub],
         busy' = busy \/ (c \in Mounted /\ busy' = FALSE),
         busy' = FALSE \/ form.stuck \/ c \notin Mounted,
         UNCHANGED <<form, made, unsure, meddled>>,
         FormTypeOK', OwnText',
         open' # open => open' \in {Nobody, sub[c].to} /\ form.done # "reseed",
         message' = "view" => message = "view" \/ c \in Mounted \/ form.again,
         ~meddled => draft'.st # "typed" \/ \A d \in InFlight \ {c} : ~sub[d].same,
         MadeByOne', VerdictTrue'
  PROVE  FormIInv'
<1>1. /\ FormFacts(form) /\ form \in FormRecs /\ busy \in BOOLEAN /\ sub \in [Subs -> SubRecs]
      /\ made \in {0, 1, 2}
      /\ SentFromOpen /\ SameTold /\ OneAtATime /\ UserWaited /\ SendsOwnDraft /\ SavingHasCall
  BY FormTypes DEF FormIInv
<1>2. /\ sub'[c] = NoSub /\ \A d \in Subs \ {c} : sub'[d] = sub[d]
  BY <1>1
<1>3. InFlight' = InFlight \ {c} /\ Mounted' = Mounted \ {c}
  BY <1>2 DEF InFlight, Mounted, NoSub
<1>4. \A d \in InFlight' : d \in InFlight /\ d \in Subs /\ d # c /\ sub'[d] = sub[d]
  BY <1>2, <1>3 DEF InFlight
<1>5. SentFromOpen'
  <2>1. \A d \in InFlight' : sub'[d].to # Nobody
    BY <1>1, <1>4 DEF SentFromOpen
  <2>2. \A d \in Subs : sub'[d].to \in {Nobody, sub[d].to}
    BY <1>2 DEF NoSub
  <2>3. ~form'.many => \A s \in {open'} \cup {sub'[d].to : d \in Subs} : s \in {Nobody, 1}
    <3>1. ~form.many => open \in {Nobody, 1} /\ \A d \in Subs : sub[d].to \in {Nobody, 1}
      BY <1>1 DEF SentFromOpen
    <3> QED
      BY <2>2, <3>1
  <2>4. form'.done = "reseed" => \A d \in InFlight' : sub'[d].at => open' # Nobody
    BY <1>1, <1>4 DEF SentFromOpen
  <2> QED
    BY <2>1, <2>3, <2>4 DEF SentFromOpen
<1>6. SameTold'
  BY <1>1, <1>2 DEF SameTold, NoSub
<1>7. OneAtATime'
  <2>1. SUFFICES ASSUME ~form.again
                 PROVE  /\ Mounted' # {} => busy'
                        /\ \A d, e \in Mounted' : d = e
                        /\ message' = "view" => Mounted' = {}
    BY DEF OneAtATime
  <2>2. CASE c \in Mounted
    <3>1. Mounted' = {}
      BY <1>1, <1>3, <2>1, <2>2 DEF OneAtATime
    <3> QED
      BY <3>1
  <2>3. CASE c \notin Mounted
    <3>1. Mounted' = Mounted /\ busy' = busy
      BY <1>3, <2>3
    <3> QED
      BY <1>1, <2>1, <2>3, <3>1 DEF OneAtATime
  <2> QED
    BY <2>2, <2>3
<1>8. UserWaited'
  <2>1. SUFFICES ASSUME ~meddled, NEW d \in InFlight'
                 PROVE  /\ sub'[d].same /\ draft'.st # "typed" /\ form.again
    BY DEF UserWaited
  <2>2. d \in InFlight \ {c} /\ sub'[d] = sub[d] /\ sub[d].same /\ sub[c].same
    BY <1>1, <1>4, <2>1 DEF UserWaited
  <2>3. form.again
    BY <1>1, <2>2 DEF OneAtATime, SameTold, Mounted, InFlight
  <2> QED
    BY <2>1, <2>2, <2>3
<1>9. SendsOwnDraft'
  BY <1>1, <1>4 DEF SendsOwnDraft
<1>10. SavingHasCall'
  BY <1>1, <1>3 DEF SavingHasCall
<1>11. CreatedOnce'
  <2>1. form'.creates /\ made' > 1 => form'.again \/ unsure'
    BY <1>1 DEF MadeByOne
  <2> QED
    BY <2>1 DEF CreatedOnce
<1> QED
  BY <1>5, <1>6, <1>7, <1>8, <1>9, <1>10, <1>11 DEF FormIInv

\* A success reaches the form.
LEMMA DoneKeeps ==
  ASSUME FormIInv, NEW c \in Subs, SubmissionDone(c)
  PROVE  FormIInv'
<1> DEFINE reaches == c \in Mounted \/ form.mount = "child" \/ form.done = "go"
           saved == [of |-> sub[c].to, st |-> "clean"]
           done == IF reaches THEN form.done ELSE "none"
           Drafts == [of : Subjects \cup {Nobody}, st : {"clean", "typed", "sent"}]
<1>1. /\ FormFacts(form) /\ form \in FormRecs /\ form \in Forms
      /\ Nobody \notin Subjects /\ 1 \in Subjects /\ open \in Subjects \cup {Nobody}
      /\ draft \in Drafts /\ FormTypeOK
      /\ busy \in BOOLEAN /\ meddled \in BOOLEAN /\ unsure \in BOOLEAN
      /\ message \in {"none", "saved", "error", "view"}
      /\ sub \in [Subs -> SubRecs] /\ made \in {0, 1, 2}
      /\ OwnText /\ SentFromOpen /\ SameTold /\ OneAtATime /\ MadeByOne /\ UserWaited
      /\ SendsOwnDraft /\ SavingHasCall /\ VerdictTrue
  BY FormTypes DEF FormIInv
<1>2. /\ sub[c].st = "done" /\ sub' = [sub EXCEPT ![c] = NoSub]
      /\ busy' = IF c \in Mounted /\ form.stuck THEN busy ELSE NotBusy(c)
      /\ open' = CASE done \in {"close", "go"} -> Nobody
                   [] done = "switch" -> sub[c].to
                   [] OTHER -> open
      /\ draft' = CASE done \in {"switch", "reseed"} -> saved
                    [] done = "clear" -> Blank
                    [] done \in {"close", "go"} -> Left
                    [] done = "stay" /\ draft.st = "sent" -> [draft EXCEPT !.st = "clean"]
                    [] OTHER -> draft
      /\ message' = CASE done \in {"stay", "reseed", "clear"} /\ form.told = "form" -> "saved"
                      [] done = "view" -> "view"
                      [] done \in {"close", "go"} -> "none"
                      [] OTHER -> message
      /\ UNCHANGED <<form, made, unsure, meddled>>
  BY DEF SubmissionDone
<1>3. c \in InFlight /\ sub[c].to \in Subjects /\ sub[c] \in SubRecs
  <2>1. c \in InFlight /\ sub[c] \in SubRecs
    BY <1>1, <1>2 DEF InFlight
  <2> QED
    BY <1>1, <2>1 DEF SentFromOpen, SubRecs
<1>4. /\ sub' \in [Subs -> SubRecs] /\ sub'[c] = NoSub
      /\ \A d \in Subs \ {c} : sub'[d] = sub[d]
  BY <1>1, <1>2 DEF SubRecs, NoSub
<1>5. /\ busy' \in BOOLEAN /\ (busy' = busy \/ (c \in Mounted /\ busy' = FALSE))
      /\ (busy' = FALSE \/ form.stuck \/ c \notin Mounted)
  BY <1>1, <1>2 DEF NotBusy
<1>6. /\ form.done \in {"close", "go", "switch", "stay", "reseed", "clear", "view"}
      /\ done # "none" => done = form.done /\ reaches
      /\ done \in {"close", "go", "switch", "stay", "reseed", "clear", "view", "none"}
      /\ form.done = "go" => done = "go"
      /\ c \in Mounted => done = form.done
  BY <1>1 DEF FormRecs
<1>7. /\ c \in Mounted => sub[c].at \/ form.mount = "kept"
      /\ reaches => c \in Mounted \/ form.again \/ form.done = "go"
  BY <1>1 DEF Mounted, FormFacts
<1> HIDE DEF done, reaches
<1>8. /\ done \in {"close", "go"} => open' = Nobody /\ draft' = Left /\ message' = "none"
      /\ done = "switch" => open' = sub[c].to /\ draft' = saved /\ message' = message
      /\ done = "reseed" => open' = open /\ draft' = saved /\ message' \in {"saved", message}
      /\ done = "clear" => open' = open /\ draft' = Blank /\ message' \in {"saved", message}
      /\ done = "stay" => /\ open' = open /\ message' \in {"saved", message}
                          /\ draft' \in {draft, [draft EXCEPT !.st = "clean"]}
      /\ done = "view" => open' = open /\ draft' = draft /\ message' = "view"
      /\ done = "none" => open' = open /\ draft' = draft /\ message' = message
  BY <1>2, <1>6
<1> HIDE DEF saved
<1>9. saved \in Drafts /\ saved.of = sub[c].to /\ saved.st = "clean"
  BY <1>3 DEF saved
<1>10. Blank \in Drafts /\ Blank.of = Nobody /\ Blank.st = "clean"
  BY DEF Blank
<1>11. /\ Left \in Drafts /\ Left.st = "clean" /\ (form.wipes => Left.of = Nobody)
  BY <1>1, LeftIs
<1>12. /\ [draft EXCEPT !.st = "clean"] \in Drafts
       /\ [draft EXCEPT !.st = "clean"].of = draft.of /\ [draft EXCEPT !.st = "clean"].st = "clean"
  BY <1>1
<1>13. /\ draft' \in Drafts /\ open' \in Subjects \cup {Nobody}
       /\ draft'.st # "typed" \/ draft' = draft
       /\ message' \in {"none", "saved", "error", "view"}
       /\ message' \in {"none", "saved", "view", message}
       /\ message' = "view" => message = "view" \/ done = "view"
  BY <1>1, <1>3, <1>6, <1>8, <1>9, <1>10, <1>11, <1>12
<1>14. FormTypeOK'
  <2>1. form' \in Forms /\ unsure' \in BOOLEAN /\ meddled' \in BOOLEAN /\ made' \in {0, 1, 2}
    BY <1>1, <1>2
  <2> QED
    BY <1>4, <1>5, <1>13, <2>1, FormTypedNext
<1>15. OwnText'
  <2>1. CASE done \in {"close", "go"}
    BY <1>2, <1>8, <1>11, <2>1 DEF OwnText
  <2>2. CASE done = "switch"
    <3>1. form.seed = "subject" /\ ~form.wipes
      BY <1>1, <1>6, <2>2 DEF FormFacts
    <3> QED
      BY <1>2, <1>8, <1>9, <2>2, <3>1 DEF OwnText
  <2>3. CASE done = "reseed"
    <3>1. form.seed = "subject" /\ ~form.wipes /\ ~form.many /\ form.mount = "fresh"
      BY <1>1, <1>6, <2>3 DEF FormFacts
    <3>2. sub[c].at
      BY <1>6, <1>7, <2>3, <3>1 DEF reaches
    <3>3. open # Nobody /\ open \in {Nobody, 1} /\ sub[c].to \in {Nobody, 1}
      BY <1>1, <1>3, <1>6, <2>3, <3>1, <3>2 DEF SentFromOpen
    <3>4. open = sub[c].to
      BY <1>1, <1>3, <3>3
    <3> QED
      BY <1>2, <1>8, <1>9, <2>3, <3>1, <3>4 DEF OwnText
  <2>4. CASE done = "clear"
    <3>1. form.seed = "blank"
      BY <1>1, <1>6, <2>4 DEF FormFacts
    <3> QED
      BY <1>2, <1>8, <1>10, <2>4, <3>1 DEF OwnText
  <2>5. CASE done \in {"stay", "view", "none"}
    <3>1. open' = open /\ draft'.of = draft.of /\ draft'.st \in {draft.st, "clean"}
      BY <1>8, <1>12, <2>5
    <3> QED
      BY <1>1, <1>2, <3>1 DEF OwnText
  <2> QED
    BY <1>6, <2>1, <2>2, <2>3, <2>4, <2>5
<1>16. open' # open => open' \in {Nobody, sub[c].to} /\ form.done # "reseed"
  BY <1>6, <1>8
<1>17. message' = "view" => message = "view" \/ c \in Mounted \/ form.again
  BY <1>6, <1>7, <1>13
<1>18. ~meddled => draft.st # "typed" /\ draft'.st # "typed" /\ sub[c].same
                   /\ (~form.again => message = "none")
  BY <1>1, <1>3, <1>13 DEF UserWaited
<1>19. MadeByOne'
  <2>1. SUFFICES ASSUME form.creates, ~form.again, ~unsure, made > 0
                 PROVE  /\ made = 1
                        /\ \A d \in Subs : sub'[d].same => sub'[d].st # "sent"
                        /\ \/ open' = Nobody \/ message' = "view"
                           \/ \E d \in Subs : sub'[d].same /\ sub'[d].st = "done"
    BY <1>2 DEF MadeByOne
  <2>2. /\ made = 1 /\ \A d \in Subs : sub[d].same => sub[d].st # "sent"
        /\ \/ open = Nobody \/ message = "view"
           \/ \E d \in Subs : sub[d].same /\ sub[d].st = "done"
    BY <1>1, <2>1 DEF MadeByOne
  <2>3. done \in {"close", "go", "view", "none"}
    BY <1>1, <1>6, <2>1 DEF FormFacts
  <2>4. \A d \in Subs : sub'[d].same => sub'[d].st # "sent"
    BY <1>4, <2>2 DEF NoSub
  <2>5. CASE open = Nobody \/ message = "view"
    BY <1>8, <2>2, <2>3, <2>4, <2>5
  <2>6. ASSUME NEW d \in Subs, sub[d].same, sub[d].st = "done" PROVE MadeByOne'
    <3>1. CASE d # c
      BY <1>2, <1>4, <2>2, <2>4, <2>6, <3>1 DEF MadeByOne
    <3>2. CASE d = c
      <4>1. c \in Mounted
        BY <1>1, <1>3, <2>6, <3>2 DEF SameTold, Mounted
      <4>2. done \in {"close", "go", "view"}
        BY <1>1, <1>6, <2>1, <4>1 DEF FormFacts
      <4> QED
        BY <1>2, <1>8, <2>2, <2>4, <4>2 DEF MadeByOne
    <3> QED
      BY <3>1, <3>2
  <2>7. CASE \E d \in Subs : sub[d].same /\ sub[d].st = "done"
    BY <1>2, <2>1, <2>6, <2>7 DEF MadeByOne
  <2> QED
    BY <2>2, <2>5, <2>7
<1>20. VerdictTrue'
  <2>1. ~meddled => made > 0
    BY <1>1, <1>2, <1>18 DEF SameTold
  <2>2. ~meddled /\ ~form.again => message' # "error"
    BY <1>13, <1>18
  <2> QED
    BY <1>2, <2>1, <2>2 DEF VerdictTrue
<1> QED
  BY <1>2, <1>3, <1>5, <1>14, <1>15, <1>16, <1>17, <1>18, <1>19, <1>20, AnswerKeeps

\* A refusal, or no answer.
LEMMA FailedKeeps ==
  ASSUME FormIInv, NEW c \in Subs, SubmissionFailed(c)
  PROVE  FormIInv'
<1> DEFINE Drafts == [of : Subjects \cup {Nobody}, st : {"clean", "typed", "sent"}]
<1>1. /\ FormFacts(form) /\ form \in FormRecs /\ form \in Forms
      /\ open \in Subjects \cup {Nobody} /\ draft \in Drafts
      /\ busy \in BOOLEAN /\ meddled \in BOOLEAN /\ unsure \in BOOLEAN
      /\ message \in {"none", "saved", "error", "view"}
      /\ sub \in [Subs -> SubRecs] /\ made \in {0, 1, 2}
      /\ FormTypeOK /\ OwnText /\ SameTold /\ OneAtATime /\ MadeByOne /\ UserWaited
  BY FormTypes DEF FormIInv
<1>2. /\ sub[c].st \in {"refused", "final", "lost"} /\ sub' = [sub EXCEPT ![c] = NoSub]
      /\ busy' = NotBusy(c)
      /\ message' = IF c \in Mounted /\ form.told = "form" THEN "error" ELSE message
      /\ UNCHANGED <<form, made, unsure, meddled>>
  BY DEF SubmissionFailed, Refusal
<1>3. \/ open' = Nobody /\ draft' = Left /\ (form.drops \/ form.final = "close")
      \/ /\ open' = open /\ draft' \in {draft, [draft EXCEPT !.st = "typed"]}
         /\ draft' # draft => draft.st = "sent" /\ \A d \in InFlight \ {c} : ~sub[d].same
  BY DEF SubmissionFailed, Closes, Unserved
<1>4. /\ sub' \in [Subs -> SubRecs] /\ sub'[c] = NoSub /\ c \in InFlight
      /\ \A d \in Subs \ {c} : sub'[d] = sub[d]
  BY <1>1, <1>2 DEF SubRecs, NoSub, InFlight
<1>5. /\ busy' \in BOOLEAN /\ (busy' = busy \/ (c \in Mounted /\ busy' = FALSE))
      /\ (busy' = FALSE \/ form.stuck \/ c \notin Mounted)
  BY <1>1, <1>2 DEF NotBusy
<1>6. \/ /\ open' = Nobody /\ draft' \in Drafts /\ draft'.st = "clean"
         /\ form.wipes => draft'.of = Nobody
         /\ form.drops \/ form.final = "close"
      \/ /\ open' = open /\ draft' \in Drafts /\ draft'.of = draft.of
         /\ draft'.st # draft.st => draft.st = "sent" /\ \A d \in InFlight \ {c} : ~sub[d].same
  BY <1>1, <1>3, LeftIs
<1>7. /\ message' \in {"none", "saved", "error", "view"} /\ message' \in {"error", message}
      /\ message' # message => c \in Mounted
  BY <1>1, <1>2
<1>8. FormTypeOK'
  <2>1. /\ form' \in Forms /\ unsure' \in BOOLEAN /\ meddled' \in BOOLEAN /\ made' \in {0, 1, 2}
        /\ open' \in Subjects \cup {Nobody} /\ draft' \in Drafts
    BY <1>1, <1>2, <1>6
  <2> QED
    BY <1>4, <1>5, <1>6, <1>7, <2>1, FormTypedNext
<1>9. OwnText'
  <2>1. CASE open' = Nobody /\ (form.wipes => draft'.of = Nobody)
    BY <1>2, <2>1 DEF OwnText
  <2>2. CASE open' = open /\ draft'.of = draft.of /\ (draft.st = "clean" => draft'.st = "clean")
    BY <1>1, <1>2, <2>2 DEF OwnText
  <2> QED
    BY <1>6, <2>1, <2>2
<1>10. ~meddled => draft.st # "typed" /\ sub[c].same
                   /\ (~form.again => message = "none")
  BY <1>1, <1>4 DEF UserWaited
<1>11. ~meddled => draft'.st # "typed" \/ \A d \in InFlight \ {c} : ~sub[d].same
  BY <1>6, <1>10
<1>12. MadeByOne'
  <2>1. SUFFICES ASSUME form.creates, ~form.again, ~unsure, made > 0
                 PROVE  /\ made = 1
                        /\ \A d \in Subs : sub'[d].same => sub'[d].st # "sent"
                        /\ \/ open' = Nobody \/ message' = "view"
                           \/ \E d \in Subs : sub'[d].same /\ sub'[d].st = "done"
    BY <1>2 DEF MadeByOne
  <2>2. /\ made = 1 /\ \A d \in Subs : sub[d].same => sub[d].st # "sent"
        /\ \/ open = Nobody \/ message = "view"
           \/ \E d \in Subs : sub[d].same /\ sub[d].st = "done"
    BY <1>1, <2>1 DEF MadeByOne
  <2>3. \A d \in Subs : sub'[d].same => sub'[d].st # "sent"
    BY <1>4, <2>2 DEF NoSub
  <2>4. message = "view" => message' = "view"
    BY <1>1, <1>7, <2>1 DEF OneAtATime
  <2>5. \A d \in Subs : sub[d].st = "done" => sub'[d] = sub[d]
    BY <1>2, <1>4
  <2> QED
    BY <1>6, <2>2, <2>3, <2>4, <2>5
<1>13. VerdictTrue'
  <2>1. SUFFICES ASSUME ~form.again, ~meddled
                 PROVE  /\ message' \in {"saved", "view"} => made > 0
                        /\ message' = "error" => made = 0 \/ unsure
    BY <1>2 DEF VerdictTrue
  <2>2. message' \in {"none", "error"}
    BY <1>7, <1>10, <2>1
  <2>3. made = 0 \/ unsure
    BY <1>1, <1>2, <1>4, <1>10, <2>1 DEF UserWaited, SameTold
  <2> QED
    BY <2>2, <2>3
<1>14. message' = "view" => message = "view" \/ c \in Mounted \/ form.again
  BY <1>7
<1>15. open' # open => open' \in {Nobody, sub[c].to} /\ form.done # "reseed"
  BY <1>1, <1>6 DEF FormFacts
<1> QED
  BY <1>2, <1>4, <1>5, <1>8, <1>9, <1>11, <1>12, <1>13, <1>14, <1>15, AnswerKeeps

\* The page is loaded anew: nothing is open, and nothing is waited for.
LEMMA ReloadKeeps ==
  ASSUME FormIInv, NEW c \in Subs, PageReloads(c)
  PROVE  FormIInv'
<1>1. form \in Forms /\ meddled \in BOOLEAN
  BY FormTypes DEF FormIInv
<1>2. /\ open' = Nobody /\ draft' = Blank /\ made' = 0 /\ unsure' = FALSE
      /\ sub' = [d \in Subs |-> NoSub] /\ busy' = FALSE /\ message' = "none"
      /\ form' = form /\ meddled' = meddled
  BY DEF PageReloads, NewText
<1>3. NoSub \in SubRecs /\ Blank \in [of : Subjects \cup {Nobody}, st : {"clean", "typed", "sent"}]
  BY DEF NoSub, SubRecs, Blank
<1>4. FormTypeOK'
  <2>1. /\ form' \in Forms /\ open' \in Subjects \cup {Nobody} /\ busy' \in BOOLEAN
        /\ draft' \in [of : Subjects \cup {Nobody}, st : {"clean", "typed", "sent"}]
        /\ unsure' \in BOOLEAN /\ meddled' \in BOOLEAN /\ sub' \in [Subs -> SubRecs]
        /\ message' \in {"none", "saved", "error", "view"} /\ made' \in {0, 1, 2}
    BY <1>1, <1>2, <1>3
  <2> QED
    BY <2>1, FormTypedNext
<1>5. InFlight' = {} /\ Mounted' = {} /\ \A d \in Subs : ~sub'[d].same /\ sub'[d].to = Nobody
  BY <1>2 DEF InFlight, Mounted, NoSub
<1>6. OwnText' /\ SentFromOpen'
  BY <1>2, <1>5 DEF OwnText, SentFromOpen, Blank
<1>7. SameTold' /\ OneAtATime' /\ UserWaited' /\ SendsOwnDraft'
  BY <1>2, <1>5 DEF SameTold, OneAtATime, UserWaited, SendsOwnDraft
<1>8. MadeByOne' /\ SavingHasCall' /\ CreatedOnce' /\ VerdictTrue'
  BY <1>2 DEF MadeByOne, SavingHasCall, CreatedOnce, VerdictTrue
<1> QED
  BY <1>4, <1>6, <1>7, <1>8 DEF FormIInv

\* Every step of a form, of the server and of the answers.
LEMMA FormMoves == FormIInv /\ [FormNext]_formVars => FormIInv'
<1> SUFFICES ASSUME FormIInv, [FormNext]_formVars PROVE FormIInv'
  OBVIOUS
<1>1. CASE UNCHANGED formVars
  BY <1>1 DEF formVars, FormIInv, FormTypeOK, OwnText, SentFromOpen, SameTold, OneAtATime, MadeByOne,
              UserWaited, SendsOwnDraft, SavingHasCall, CreatedOnce, VerdictTrue, Mounted, InFlight
<1> QED
  BY <1>1, OpenKeeps, TypeKeeps, CloseKeeps, SubmitKeeps, ServeKeeps, DoneKeeps, FailedKeeps,
     ReloadKeeps DEF FormNext

\* What an answer may do to the form and its text.
KeepsEdits ==
  \A c \in Subs : sub[c].st # "none" /\ sub'[c].st = "none" =>
    \/ /\ open' = open /\ draft'.of = draft.of
       /\ draft.st = "typed" => draft' = draft
    \/ sub[c].st = "done" /\ (draft.st = "typed" => meddled)
    \/ \E d \in Subs : sub'[d].st = "none" /\ (Closes(d) \/ Reloads(d))

\* No answer does more.
LEMMA FormKeepsEdits == FormIInv /\ [FormNext]_formVars => [KeepsEdits]_formVars
<1> SUFFICES ASSUME FormIInv, FormNext, NEW c \in Subs, sub[c].st # "none", sub'[c].st = "none"
             PROVE  \/ /\ open' = open /\ draft'.of = draft.of
                       /\ draft.st = "typed" => draft' = draft
                    \/ sub[c].st = "done" /\ (draft.st = "typed" => meddled)
                    \/ \E d \in Subs : sub'[d].st = "none" /\ (Closes(d) \/ Reloads(d))
  BY DEF KeepsEdits
<1>1. /\ sub \in [Subs -> SubRecs] /\ UserWaited /\ c \in InFlight
      /\ draft \in [of : Subjects \cup {Nobody}, st : {"clean", "typed", "sent"}]
  BY FormTypes DEF FormIInv, InFlight
<1>2. draft.st = "typed" => meddled
  BY <1>1 DEF UserWaited
<1>3. sub[c] \in SubRecs
  BY <1>1
<1>4. SubmissionDone(c) \/ SubmissionFailed(c) \/ \E d \in Subs : PageReloads(d)
  <2>1. ASSUME NEW s \in Subjects, OpenForm(s) PROVE FALSE
    BY <1>1, <1>3, <2>1 DEF OpenForm, SubRecs
  <2>2. CASE TypeIn
    BY <1>1, <1>3, <2>2 DEF TypeIn, SubRecs
  <2>3. CASE CloseForm
    BY <1>1, <1>3, <2>3 DEF CloseForm, SubRecs
  <2>4. ASSUME NEW d \in Subs, SubmitForm(d) PROVE FALSE
    BY <1>1, <2>4 DEF SubmitForm, SubRecs, NoSub
  <2>5. ASSUME NEW d \in Subs, ServeForm(d) PROVE FALSE
    <3>1. PICK st \in {"done", "lost", "refused", "final"} : sub' = [sub EXCEPT ![d].st = st]
      BY <2>5 DEF ServeForm
    <3> QED
      BY <1>1, <1>3, <3>1 DEF SubRecs
  <2>6. ASSUME NEW d \in Subs, SubmissionDone(d) \/ SubmissionFailed(d) PROVE d = c
    BY <1>1, <2>6 DEF SubmissionDone, SubmissionFailed
  <2> QED
    BY <2>1, <2>2, <2>3, <2>4, <2>5, <2>6 DEF FormNext
<1>5. SubmissionDone(c) => sub[c].st = "done"
  BY DEF SubmissionDone
<1>6. CASE SubmissionFailed(c)
  <2>1. CASE Closes(c)
    BY <2>1
  <2>2. CASE ~Closes(c)
    <3>1. open' = open /\ draft' = IF Unserved(c) THEN [draft EXCEPT !.st = "typed"] ELSE draft
      BY <1>6, <2>2 DEF SubmissionFailed
    <3>2. Unserved(c) => draft.st = "sent"
      BY DEF Unserved
    <3> QED
      BY <1>1, <3>1, <3>2
  <2> QED
    BY <2>1, <2>2
<1>7. CASE \E d \in Subs : PageReloads(d)
  <2>1. PICK d \in Subs : PageReloads(d)
    BY <1>7
  <2>2. Reloads(d) /\ sub'[d].st = "none"
    BY <2>1 DEF PageReloads, NoSub
  <2> QED
    BY <2>2
<1> QED
  BY <1>2, <1>4, <1>5, <1>6, <1>7

\* The invariant of a form, over every behaviour.
THEOREM FormInductive == FormSpec => []FormIInv
BY FormStarts, FormMoves, PTL DEF FormSpec

\* A form that says it is saving waits for an answer, whatever is closed, opened for
\* another row and submitted again meanwhile.
THEOREM SavingHasCallHolds == FormSpec => []SavingHasCall
<1>1. FormIInv => SavingHasCall
  BY DEF FormIInv
<1> QED
  BY <1>1, FormInductive, PTL

\* What is sent for a subject was typed for it, whichever rows the form was opened for
\* while earlier submissions were on their way.
THEOREM SendsOwnDraftHolds == FormSpec => []SendsOwnDraft
<1>1. FormIInv => SendsOwnDraft
  BY DEF FormIInv
<1> QED
  BY <1>1, FormInductive, PTL

\* One text makes one thing, unless it is sent again while the first is out or its answer
\* was lost.
THEOREM CreatedOnceHolds == FormSpec => []CreatedOnce
<1>1. FormIInv => CreatedOnce
  BY DEF FormIInv
<1> QED
  BY <1>1, FormInductive, PTL

\* What the form says of the last submission is what became of it.
THEOREM VerdictTrueHolds == FormSpec => []VerdictTrue
<1>1. FormIInv => VerdictTrue
  BY DEF FormIInv
<1> QED
  BY <1>1, FormInductive, PTL

\* An answer leaves the form and what was typed in it as they are, unless it is a success
\* that a user overtook, or a refusal that ends the form.
THEOREM EditsKeptHolds == FormSpec => EditsKept
<1>1. [][KeepsEdits]_formVars => EditsKept
  BY PTL DEF EditsKept, KeepsEdits
<1> QED
  BY <1>1, FormInductive, FormKeepsEdits, PTL DEF FormSpec

----------------------------------------------------------------------------
(* The forms in steps. *)

\* The wizard has no field on two of its steps.
LEMMA StepsApart ==
  ASSUME wizard \in Wizards, NEW j \in 1..LastStep, NEW k \in 1..LastStep, j # k
  PROVE  Fields(j) \cap Fields(k) = {}
<1>1. CASE wizard = "apply"
  <2>1. /\ j \in {1, 2, 3} /\ k \in {1, 2, 3}
        /\ Fields(1) = {"identity", "email"} /\ Fields(2) = {"resume"}
        /\ Fields(3) = {"answers", "consents"}
    BY <1>1 DEF LastStep, Fields, IdentityStep, ResumeStep, QuestionsStep
  <2> QED
    BY <2>1
<1>2. CASE wizard = "register"
  <2>1. /\ j \in {1, 2} /\ k \in {1, 2}
        /\ Fields(1) = {"company"} /\ Fields(2) = {"signature", "consents"}
    BY <1>2 DEF LastStep, Fields, RegisterStep1Form, RegisterStep2Form
  <2> QED
    BY <2>1
<1> QED
  BY <1>1, <1>2 DEF Wizards

\* The resume is a field of the second step of the application.
LEMMA ResumeSecond ==
  ASSUME wizard \in Wizards, NEW k \in 1..LastStep
  PROVE  "resume" \in Fields(k) <=> wizard = "apply" /\ k = 2
<1>1. CASE wizard = "apply"
  <2>1. k \in {1, 2, 3}
    BY <1>1 DEF LastStep
  <2> QED
    BY <1>1, <2>1 DEF Fields, IdentityStep, ResumeStep, QuestionsStep
<1>2. CASE wizard = "register"
  <2>1. k \in {1, 2}
    BY <1>2 DEF LastStep
  <2> QED
    BY <1>2, <2>1 DEF Fields, RegisterStep1Form, RegisterStep2Form
<1> QED
  BY <1>1, <1>2 DEF Wizards

\* The fields of a step are some of the form's.
LEMMA FieldsOfForm ==
  ASSUME wizard \in Wizards, NEW k \in 1..LastStep
  PROVE  Fields(k) \subseteq AllFields
<1>1. wizard = "apply" => k \in {1, 2, 3}
  BY DEF LastStep
<1>2. wizard = "register" => k \in {1, 2}
  BY DEF LastStep
<1> QED
  BY <1>1, <1>2 DEF Wizards, Fields, AllFields

\* A step that passes goes on passing as long as none of its fields goes wrong.
LEMMA PassesOn ==
  ASSUME NEW k, StepPasses(k), wizard' = wizard,
         signedIn' = signedIn \/ signedIn' = "in",
         \A f \in Fields(k) : f \in wrong' => f \in wrong,
         "resume" \in Fields(k) /\ "resume" \in flagged' => "resume" \in flagged
  PROVE  StepPasses(k)'
<1>1. Fields(k)' = Fields(k)
  BY DEF Fields
<1> QED
  BY <1>1 DEF StepPasses, Gated, Passes

\* What is typed on the step shown spoils none of those behind it.
LEMMA BehindKeeps ==
  ASSUME WizardTypeOK, StepsBehindPass, UNCHANGED <<wizard, step, late>>,
         signedIn' = signedIn \/ signedIn' = "in",
         \A f \in wrong' \ wrong : f \in Fields(step),
         \A f \in flagged' \ flagged : f = "resume" => f \in Fields(step)
  PROVE  StepsBehindPass'
<1>1. wizard \in Wizards /\ step \in 1..LastStep /\ LastStep \in Nat
  BY DEF WizardTypeOK, LastStep
<1>2. ASSUME ~late, NEW k \in 1..step - 1 PROVE StepPasses(k)'
  <2>1. k \in 1..LastStep /\ k # step /\ StepPasses(k)
    BY <1>1, <1>2 DEF StepsBehindPass
  <2>2. Fields(k) \cap Fields(step) = {}
    BY <1>1, <2>1, StepsApart
  <2> QED
    BY <2>1, <2>2, PassesOn
<1> QED
  BY <1>2 DEF StepsBehindPass

\* A step turned to has steps behind it that pass, if they did: what a turn marks or
\* mounts anew is no field of theirs.
LEMMA TurnBehind ==
  ASSUME WizardTypeOK, NEW s \in 1..LastStep, NEW marks, Turn(s, marks),
         late \/ \A k \in 1..s - 1 : StepPasses(k),
         s = 3 /\ "resume" \in marks => "resume" \in flagged
  PROVE  StepsBehindPass'
<1>1. /\ wizard \in Wizards /\ LastStep \in Nat
      /\ step' = s /\ flagged' = marks /\ late' = (late /\ s # 1)
      /\ wrong' = wrong \cup SignatureCanvas(s) /\ UNCHANGED <<wizard, signedIn>>
  BY DEF WizardTypeOK, LastStep, Turn
<1>2. ASSUME ~late', NEW k \in 1..s - 1 PROVE StepPasses(k)'
  <2>1. k \in 1..LastStep /\ s # 1 /\ k < s
    BY <1>1
  <2>2. wrong' = wrong /\ StepPasses(k)
    BY <1>1, <1>2, <2>1 DEF SignatureCanvas
  <2>3. "resume" \in Fields(k) => s = 3
    BY <1>1, <2>1, ResumeSecond DEF LastStep
  <2> QED
    BY <1>1, <2>2, <2>3, PassesOn
<1> QED
  BY <1>1, <1>2 DEF StepsBehindPass

\* A step that does not pass is left with a mark on one of its fields.
LEMMA MarksShow ==
  ASSUME wizard \in Wizards, NEW s \in 1..LastStep, ~StepPasses(s)
  PROVE  Fields(s) \cap Marks(s) # {}
<1>1. PICK f \in Gated(s) : f \in wrong \/ (f = "resume" /\ f \in flagged)
  BY DEF StepPasses, Passes
<1>2. f \in Fields(s)
  BY <1>1 DEF Gated
<1>3. CASE wizard = "apply" /\ s = 2
  <2>1. f = "resume"
    BY <1>2, <1>3 DEF Fields, ResumeStep
  <2> QED
    BY <1>1, <1>2, <1>3, <2>1 DEF Marks
<1>4. CASE ~(wizard = "apply" /\ s = 2)
  <2>1. f \in wrong
    BY <1>1, <1>2, <1>4, ResumeSecond
  <2>2. CASE wizard = "register" /\ s = 1
    BY <1>2, <2>1, <2>2 DEF Marks
  <2>3. CASE ~(wizard = "register" /\ s = 1)
    <3>1. Marks(s) = (flagged \ Fields(s)) \cup (Gated(s) \cap wrong)
      BY <1>4, <2>3 DEF Marks
    <3> QED
      BY <1>1, <1>2, <2>1, <3>1
  <2> QED
    BY <2>2, <2>3
<1> QED
  BY <1>3, <1>4

\* The marks a check leaves: fields of the form, and no mark of the resume from the
\* check of another step.
LEMMA MarksAre ==
  ASSUME WizardTypeOK, NEW s \in 1..LastStep
  PROVE  /\ Marks(s) \subseteq AllFields
         /\ s # 2 /\ "resume" \in Marks(s) => "resume" \in flagged
         /\ wizard = "apply" /\ s # 2 /\ "resume" \in flagged => "resume" \in Marks(s)
<1>1. wizard \in Wizards /\ wrong \subseteq AllFields /\ flagged \subseteq AllFields
  BY DEF WizardTypeOK
<1>2. Fields(s) \subseteq AllFields /\ Gated(s) \subseteq Fields(s)
  BY <1>1, FieldsOfForm DEF Gated
<1>3. "resume" \in Fields(s) <=> wizard = "apply" /\ s = 2
  BY <1>1, ResumeSecond
<1>4. CASE wizard = "apply" /\ s = 2
  BY <1>1, <1>4 DEF Marks
<1>5. CASE wizard = "register" /\ s = 1
  <2>1. Fields(1) = Fields(s)
    BY <1>5
  <2> QED
    BY <1>1, <1>2, <1>3, <1>5, <2>1 DEF Marks
<1>6. CASE ~(wizard = "apply" /\ s = 2) /\ ~(wizard = "register" /\ s = 1)
  <2>1. Marks(s) = (flagged \ Fields(s)) \cup (Gated(s) \cap wrong)
    BY <1>6 DEF Marks
  <2> QED
    BY <1>1, <1>2, <1>3, <1>6, <2>1
<1> QED
  BY <1>4, <1>5, <1>6

\* A turn keeps the types.
LEMMA TurnTypes ==
  ASSUME WizardTypeOK, NEW s \in 1..LastStep, NEW marks \in SUBSET AllFields, Turn(s, marks),
         claimError' \in BOOLEAN, failure' \in BOOLEAN, refused' \in BOOLEAN,
         posting' \in [st : {"none", "sent", "done", "again", "refused", "password", "lost"},
                       good : BOOLEAN]
  PROVE  WizardTypeOK'
<1>1. LastStep \in Nat /\ LastStep' = LastStep
  BY DEF Turn, LastStep
<1>2. maxStep' \in s..LastStep
  BY <1>1 DEF WizardTypeOK, Turn
<1>3. wrong' \subseteq AllFields
  BY DEF WizardTypeOK, Turn, SignatureCanvas, AllFields, RegisterStep2Form
<1>4. late' \in BOOLEAN
  BY DEF WizardTypeOK, Turn
<1> QED
  BY <1>1, <1>2, <1>3, <1>4 DEF WizardTypeOK, Turn

\* The first state of a form in steps.
LEMMA WizardInitial == WizardInit => WizardIInv
<1> SUFFICES ASSUME WizardInit PROVE WizardIInv
  OBVIOUS
<1>1. wizard \in Wizards /\ step = 1 /\ maxStep = 1
  BY DEF WizardInit, Empty
<1>2. \A k \in 1..LastStep : Fields(k) \subseteq AllFields
  BY <1>1, FieldsOfForm
<1>3. WizardTypeOK
  <2>1. wrong \subseteq AllFields
    BY <1>1, <1>2 DEF WizardInit, Empty
  <2>2. signedIn \in {"no", "probing", "in"}
    BY DEF WizardInit
  <2>3. /\ posting \in [st : {"none", "sent", "done", "again", "refused", "password", "lost"},
                        good : BOOLEAN]
        /\ LastStep \in Nat /\ LastStep >= 1
    BY DEF WizardInit, Empty, Idle, LastStep
  <2>4. step \in 1..LastStep /\ maxStep \in step..LastStep
    BY <1>1, <2>3
  <2>5. /\ profile = "waiting" /\ flagged = {} /\ claim = "off" /\ claimError = FALSE
        /\ taken = FALSE /\ failure = FALSE /\ ended = "no"
        /\ refused = FALSE /\ late = FALSE /\ lost = FALSE
    BY DEF WizardInit, Empty
  <2> QED
    BY <1>1, <2>1, <2>2, <2>3, <2>4, <2>5 DEF WizardTypeOK
<1>4. InvitedAlone /\ PostingStands /\ RefusalSeen /\ SubmittedRight /\ OutcomeTrue
  BY DEF WizardInit, Empty, InvitedAlone, PostingStands, RefusalSeen, SubmittedRight,
         OutcomeTrue, Idle
<1>5. StepsBehindPass
  BY <1>1 DEF StepsBehindPass
<1> QED
  BY <1>3, <1>4, <1>5 DEF WizardIInv

\* What the user does to the fields of the step shown.
LEMMA FieldActs ==
  ASSUME WizardIInv,
         \/ \E f \in AllFields : TypeField(f) \/ BlurField(f)
         \/ \E file \in {"good", "bad", "none"} : PickResume(file)
         \/ \E c \in {"off", "wrong", "right"} : TypeClaim(c)
         \/ LegalModal \/ RegisterModal
  PROVE  WizardIInv'
<1>1. /\ WizardTypeOK /\ InvitedAlone /\ PostingStands
      /\ StepsBehindPass /\ SubmittedRight /\ OutcomeTrue
      /\ wizard \in Wizards /\ step \in 1..LastStep
  BY DEF WizardIInv, WizardTypeOK
<1>2. /\ UNCHANGED <<wizard, signedIn, profile, step, maxStep, claimError, posting, taken, failure,
                     ended, late, lost>>
      /\ refused' = FALSE
  BY DEF TypeField, BlurField, PickResume, TypeClaim, LegalModal, RegisterModal
<1>3. /\ claim' \in {"off", "wrong", "right"}
      /\ wizard = "register" => claim' = claim
  BY <1>1 DEF TypeField, BlurField, PickResume, TypeClaim, LegalModal, RegisterModal, WizardTypeOK
<1>4. /\ wrong' \subseteq AllFields /\ flagged' \subseteq AllFields
      /\ \A f \in wrong' \ wrong : f \in Fields(step)
      /\ \A f \in flagged' \ flagged : f = "resume" => f \in Fields(step)
  <2>1. ASSUME NEW f \in AllFields, TypeField(f)
        PROVE  /\ wrong' \in {wrong \ {f}, wrong \cup {f}} /\ f \in Fields(step)
               /\ flagged' \subseteq flagged
    BY <2>1 DEF TypeField
  <2>2. ASSUME NEW f \in AllFields, BlurField(f)
        PROVE  wrong' = wrong /\ flagged' \subseteq flagged \cup {f} /\ f \in Fields(step)
    BY <2>2 DEF BlurField
  <2>3. ASSUME NEW file, PickResume(file)
        PROVE  /\ wrong' \subseteq wrong \cup {"resume"} /\ flagged' \subseteq flagged \cup {"resume"}
               /\ "resume" \in Fields(step)
    BY <2>3 DEF PickResume
  <2>4. ASSUME NEW c, TypeClaim(c) PROVE UNCHANGED <<wrong, flagged>>
    BY <2>4 DEF TypeClaim
  <2>5. ASSUME LegalModal \/ RegisterModal
        PROVE  wrong' \subseteq wrong /\ flagged' \subseteq flagged
    BY <2>5 DEF LegalModal, RegisterModal
  <2>6. /\ wrong \subseteq AllFields /\ flagged \subseteq AllFields /\ Fields(step) \subseteq AllFields
    BY <1>1, FieldsOfForm DEF WizardTypeOK
  <2> QED
    BY <2>1, <2>2, <2>3, <2>4, <2>5, <2>6
<1>5. WizardTypeOK'
  BY <1>1, <1>2, <1>3, <1>4 DEF WizardTypeOK, LastStep
<1>6. StepsBehindPass'
  BY <1>1, <1>2, <1>4, BehindKeeps
<1>7. InvitedAlone' /\ PostingStands' /\ RefusalSeen' /\ SubmittedRight' /\ OutcomeTrue'
  BY <1>1, <1>2, <1>3 DEF InvitedAlone, PostingStands, RefusalSeen, SubmittedRight, OutcomeTrue
<1> QED
  BY <1>5, <1>6, <1>7 DEF WizardIInv

\* What arrives: the session, and the profile.
LEMMA ArrivalActs ==
  ASSUME WizardIInv, SessionKnown \/ ProfileArrives
  PROVE  WizardIInv'
<1>1. /\ WizardTypeOK /\ InvitedAlone /\ PostingStands
      /\ StepsBehindPass /\ SubmittedRight /\ OutcomeTrue
      /\ wizard \in Wizards /\ step \in 1..LastStep /\ LastStep \in Nat
  BY DEF WizardIInv, WizardTypeOK, LastStep
<1>2. /\ UNCHANGED <<wizard, step, maxStep, flagged, claim, claimError, posting, taken, failure,
                     ended, lost>>
      /\ refused' = FALSE /\ wizard # "register"
  BY <1>1 DEF SessionKnown, ProfileArrives, InvitedAlone
<1>3. /\ signedIn' \in {"no", "probing", "in"} /\ profile' \in {"waiting", "arrived"}
      /\ late' \in BOOLEAN /\ wrong' \subseteq AllFields
  <2>1. CASE SessionKnown
    BY <1>1, <2>1 DEF SessionKnown, WizardTypeOK
  <2>2. CASE ProfileArrives
    <3>1. wrong' \subseteq wrong \cup {"identity", "email"}
      <4>1. PICK w \in {wrong \ {"identity", "email"}, (wrong \ {"email"}) \cup {"identity"}} :
              \E saved \in {{}, {"resume"}} : wrong' = w \ saved
        BY <2>2 DEF ProfileArrives
      <4> QED
        BY <4>1
    <3>2. late' \in BOOLEAN
      BY <2>2 DEF ProfileArrives
    <3> QED
      BY <1>1, <2>2, <3>1, <3>2 DEF ProfileArrives, WizardTypeOK, AllFields, IdentityStep
  <2> QED
    BY <2>1, <2>2
<1>4. WizardTypeOK'
  BY <1>1, <1>2, <1>3 DEF WizardTypeOK, LastStep
<1>5. StepsBehindPass'
  <2>1. CASE SessionKnown
    <3>1. UNCHANGED late /\ signedIn' = "in" /\ wrong' \subseteq wrong
      BY <2>1 DEF SessionKnown
    <3> QED
      BY <1>1, <1>2, <3>1, BehindKeeps
  <2>2. CASE ProfileArrives
    <3>1. (step > 1 => late') /\ step' = step
      BY <2>2 DEF ProfileArrives
    <3>2. ~late' => step' = 1
      BY <1>1, <3>1
    <3>3. 1..1 - 1 = {}
      OBVIOUS
    <3> QED
      BY <3>2, <3>3 DEF StepsBehindPass
  <2> QED
    BY <2>1, <2>2
<1>6. InvitedAlone' /\ PostingStands' /\ RefusalSeen' /\ SubmittedRight' /\ OutcomeTrue'
  BY <1>1, <1>2 DEF InvitedAlone, PostingStands, RefusalSeen, SubmittedRight, OutcomeTrue
<1> QED
  BY <1>4, <1>5, <1>6 DEF WizardIInv

\* A turn that posts nothing: the rest of the invariant.
LEMMA TurnRest ==
  ASSUME WizardIInv, NEW s \in 1..LastStep, NEW marks \in SUBSET AllFields, Turn(s, marks),
         late \/ \A k \in 1..s - 1 : StepPasses(k),
         s = 3 /\ "resume" \in marks => "resume" \in flagged,
         claimError' \in BOOLEAN, failure' \in BOOLEAN, failure' => failure,
         refused' \in BOOLEAN,
         refused' => \/ Fields(s) \cap marks # {}
                     \/ claimError' /\ claim # "off" /\ signedIn # "in",
         \/ UNCHANGED posting
         \/ posting' = [st |-> "sent", good |-> TRUE] /\ ~failure' /\ ended = "no"
            /\ posting = Idle
  PROVE  WizardIInv'
<1>1. /\ WizardTypeOK /\ InvitedAlone /\ PostingStands /\ SubmittedRight /\ OutcomeTrue
  BY DEF WizardIInv
<1>2. /\ step' = s /\ flagged' = marks /\ late' = (late /\ s # 1)
      /\ UNCHANGED <<wizard, signedIn, profile, claim, taken, ended, lost>>
  BY DEF Turn
<1>3. posting' \in [st : {"none", "sent", "done", "again", "refused", "password", "lost"},
                    good : BOOLEAN]
  <2>1. CASE UNCHANGED posting
    BY <1>1, <2>1 DEF WizardTypeOK
  <2>2. CASE posting' = [st |-> "sent", good |-> TRUE]
    BY <2>2
  <2> QED
    BY <2>1, <2>2
<1>4. WizardTypeOK'
  BY <1>1, <1>3, TurnTypes
<1>5. StepsBehindPass'
  BY <1>1, TurnBehind
<1>6. InvitedAlone'
  BY <1>1, <1>2 DEF InvitedAlone
<1>7. PostingStands' /\ SubmittedRight' /\ OutcomeTrue'
  BY <1>1, <1>2 DEF PostingStands, SubmittedRight, OutcomeTrue, Idle
<1>8. RefusalSeen'
  <2>1. Fields(s)' = Fields(s)
    BY <1>2 DEF Fields
  <2>2. Fields(step)' = Fields(s)'
    BY <1>2 DEF Fields
  <2> QED
    BY <1>2, <2>1, <2>2 DEF RefusalSeen
<1> QED
  BY <1>4, <1>5, <1>6, <1>7, <1>8 DEF WizardIInv

\* The marks as they stand, and those of a check: fields of the form.
LEMMA MarksOfForm ==
  ASSUME WizardTypeOK, NEW s \in 1..LastStep
  PROVE  flagged \in SUBSET AllFields /\ Marks(s) \in SUBSET AllFields
BY MarksAre DEF WizardTypeOK

\* Forward and back.
LEMMA NextActs ==
  ASSUME WizardIInv, NextStep \/ Back
  PROVE  WizardIInv'
<1>1. /\ WizardTypeOK /\ StepsBehindPass
      /\ wizard \in Wizards /\ step \in 1..LastStep /\ LastStep \in Nat
      /\ failure \in BOOLEAN /\ claimError \in BOOLEAN
  BY DEF WizardIInv, WizardTypeOK, LastStep
<1>2. CASE NextStep /\ StepPasses(step)
  <2>0. /\ Turn(step + 1, Marks(step)) /\ step < LastStep
        /\ UNCHANGED <<claimError, posting>> /\ refused' = FALSE
        /\ failure' \in BOOLEAN /\ (failure' => failure)
    BY <1>1, <1>2 DEF NextStep
  <2>1. step + 1 \in 1..LastStep
    BY <1>1, <2>0
  <2>2. late \/ \A k \in 1..(step + 1) - 1 : StepPasses(k)
    BY <1>1, <1>2 DEF StepsBehindPass
  <2>3. step + 1 = 3 /\ "resume" \in Marks(step) => "resume" \in flagged
    <3>1. SUFFICES ASSUME step = 2, "resume" \in Marks(step) PROVE "resume" \in flagged
      BY <1>1
    <3>2. wizard = "apply" /\ LastStep = 3
      BY <1>1, <2>1, <3>1 DEF LastStep, Wizards
    <3>3. Fields(2) = {"resume"} /\ Gated(2) = {"resume"}
      BY <3>2 DEF Fields, ResumeStep, Gated
    <3>4. "resume" \notin wrong /\ "resume" \notin flagged
      BY <1>2, <3>1, <3>3 DEF StepPasses, Passes
    <3> QED
      BY <3>1, <3>2, <3>4 DEF Marks
  <2>4. Marks(step) \in SUBSET AllFields
    BY <1>1, MarksOfForm
  <2> QED
    BY <1>1, <2>0, <2>1, <2>2, <2>3, <2>4, TurnRest
<1>3. CASE NextStep /\ ~StepPasses(step)
  <2>1. /\ Turn(step, Marks(step)) /\ step < LastStep
        /\ UNCHANGED <<claimError, posting>> /\ refused' = TRUE
        /\ failure' \in BOOLEAN /\ (failure' => failure)
    BY <1>1, <1>3 DEF NextStep
  <2>2. late \/ \A k \in 1..step - 1 : StepPasses(k)
    BY DEF StepsBehindPass, WizardIInv
  <2>3. step # 3
    BY <1>1, <2>1 DEF LastStep
  <2>4. Marks(step) \in SUBSET AllFields
    BY <1>1, MarksOfForm
  <2>5. Fields(step) \cap Marks(step) # {}
    BY <1>1, <1>3, MarksShow
  <2> QED
    BY <1>1, <2>1, <2>2, <2>3, <2>4, <2>5, TurnRest
<1>4. CASE Back
  <2>1. /\ Turn(step - 1, flagged) /\ step - 1 \in 1..LastStep /\ step > 1
        /\ UNCHANGED <<claimError, posting>> /\ refused' = FALSE
        /\ failure' \in BOOLEAN /\ (failure' => failure)
    BY <1>1, <1>4 DEF Back
  <2>2. late \/ \A k \in 1..(step - 1) - 1 : StepPasses(k)
    BY <1>1, <2>1 DEF StepsBehindPass
  <2>3. flagged \in SUBSET AllFields
    BY DEF WizardTypeOK, WizardIInv
  <2> QED
    BY <1>1, <2>1, <2>2, <2>3, TurnRest
<1> QED
  BY <1>2, <1>3, <1>4

\* A jump.
LEMMA JumpActs ==
  ASSUME WizardIInv, NEW s \in 1..LastStep, JumpTo(s)
  PROVE  WizardIInv'
<1> DEFINE failing == {k \in step..s - 1 : ~StepPasses(k)}
           passed == IF step = 1 THEN flagged \ Fields(1) ELSE flagged
<1>1. /\ WizardTypeOK /\ wizard = "apply" /\ LastStep = 3
      /\ step \in {1, 2, 3} /\ s \in {1, 2, 3} /\ s # step /\ claimError \in BOOLEAN
      /\ failure \in BOOLEAN /\ flagged \subseteq AllFields
      /\ late \/ \A k \in 1..step - 1 : StepPasses(k)
      /\ UNCHANGED <<claimError, posting, failure>>
  BY DEF WizardIInv, WizardTypeOK, JumpTo, LastStep, StepsBehindPass
<1>2. Fields(2) = {"resume"} /\ "resume" \notin Fields(1)
  BY <1>1 DEF Fields, ResumeStep, IdentityStep
<1>3. CASE s < step /\ Turn(s, flagged) /\ refused' = FALSE
  <2>1. late \/ \A k \in 1..s - 1 : StepPasses(k)
    BY <1>1, <1>3
  <2> QED
    BY <1>1, <1>3, <2>1, TurnRest
<1>4. CASE s > step /\ failing = {} /\ Turn(s, passed) /\ refused' = FALSE
  <2>1. late \/ \A k \in 1..s - 1 : StepPasses(k)
    BY <1>1, <1>4
  <2>2. passed \in SUBSET AllFields /\ ("resume" \in passed => "resume" \in flagged)
    BY <1>1
  <2> HIDE DEF passed
  <2> QED
    BY <1>1, <1>4, <2>1, <2>2, TurnRest
<1>5. CASE 1 \in failing /\ Turn(1, Marks(1)) /\ refused' = TRUE
  <2>1. ~StepPasses(1) /\ 1 \in 1..LastStep /\ wizard \in Wizards
    BY <1>1, <1>5 DEF Wizards
  <2>2. Fields(1) \cap Marks(1) # {}
    BY <2>1, MarksShow
  <2>3. Marks(1) \in SUBSET AllFields
    BY <1>1, <2>1, MarksOfForm
  <2>4. 1..1 - 1 = {}
    OBVIOUS
  <2> QED
    BY <1>1, <1>5, <2>1, <2>2, <2>3, <2>4, TurnRest
<1>6. CASE /\ 1 \notin failing /\ 2 \in failing
           /\ Turn(2, passed \cup ({"resume"} \cap wrong)) /\ refused' = TRUE
  <2> DEFINE marks == passed \cup ({"resume"} \cap wrong)
  <2>1. ~StepPasses(2) /\ 2 \in 1..LastStep
    BY <1>1, <1>6
  <2>2. late \/ \A k \in 1..2 - 1 : StepPasses(k)
    <3>1. step \in {1, 2} /\ s = 3
      BY <1>1, <1>6
    <3>2. step = 1 => StepPasses(1)
      BY <1>6, <3>1
    <3>3. step = 2 => late \/ StepPasses(1)
      BY <1>1
    <3> QED
      BY <3>1, <3>2, <3>3
  <2>3. "resume" \in wrong \/ "resume" \in flagged
    BY <1>2, <2>1 DEF StepPasses, Passes, Gated
  <2>4. Fields(2) \cap marks # {}
    BY <1>1, <1>2, <2>3
  <2>5. marks \in SUBSET AllFields
    BY <1>1 DEF AllFields, ResumeStep
  <2>6. Turn(2, marks) /\ refused' = TRUE
    BY <1>6
  <2> HIDE DEF marks
  <2> QED
    BY <1>1, <2>1, <2>2, <2>4, <2>5, <2>6, TurnRest
<1> QED
  BY <1>3, <1>4, <1>5, <1>6 DEF JumpTo

\* A submission.
LEMMA SubmitActs ==
  ASSUME WizardIInv, Submit
  PROVE  WizardIInv'
<1>1. /\ WizardTypeOK /\ StepsBehindPass /\ InvitedAlone /\ wizard \in Wizards
      /\ step = LastStep /\ ended = "no" /\ posting = Idle
      /\ flagged \subseteq AllFields /\ claimError \in BOOLEAN /\ failure \in BOOLEAN
  BY DEF WizardIInv, WizardTypeOK, Submit, SubmitApplication, SubmitRegistration, Submittable
<1>2. ASSUME NEW s \in 1..LastStep, ~StepPasses(s), NEW marks \in SUBSET AllFields,
             Turn(s, marks), Refuse(FALSE), late \/ \A k \in 1..s - 1 : StepPasses(k),
             s = 3 /\ "resume" \in marks => "resume" \in flagged,
             Fields(s) \cap marks # {}
      PROVE  WizardIInv'
  <2>1. claimError' \in BOOLEAN /\ refused' = TRUE /\ UNCHANGED <<posting, failure>>
    BY <1>1, <1>2 DEF Refuse
  <2> QED
    BY <1>1, <1>2, <2>1, TurnRest
<1>3. ASSUME \A s \in 1..LastStep : StepPasses(s), ~ClaimWrong, Turn(LastStep, Marks(LastStep)),
             Post, LastStep = 3 /\ "resume" \in Marks(LastStep) => "resume" \in flagged
      PROVE  WizardIInv'
  <2>1. AllRight
    BY <1>3 DEF AllRight, StepPasses, Passes
  <2>2. /\ claimError' \in BOOLEAN /\ refused' = FALSE /\ failure' = FALSE
        /\ posting' = [st |-> "sent", good |-> TRUE]
    <3>1. AllRight = TRUE
      BY <2>1 DEF AllRight
    <3> QED
      BY <1>1, <1>3, <3>1 DEF Post
  <2>3. LastStep \in 1..LastStep
    BY DEF LastStep
  <2>4. \A k \in 1..LastStep - 1 : k \in 1..LastStep
    BY DEF LastStep
  <2>5. late \/ \A k \in 1..LastStep - 1 : StepPasses(k)
    BY <1>3, <2>4
  <2>6. Marks(LastStep) \in SUBSET AllFields
    BY <1>1, <2>3, MarksOfForm
  <2> QED
    BY <1>1, <1>3, <2>2, <2>3, <2>5, <2>6, TurnRest
<1>4. CASE SubmitApplication
  <2>1. wizard = "apply" /\ LastStep = 3 /\ 1 \in 1..LastStep /\ 2 \in 1..LastStep
        /\ 3 \in 1..LastStep
    BY <1>4 DEF SubmitApplication, LastStep
  <2>2. /\ Marks(1) \in SUBSET AllFields /\ Marks(3) \in SUBSET AllFields
        /\ "resume" \in Marks(3) => "resume" \in flagged
        /\ "resume" \in flagged => "resume" \in Marks(1)
    BY <1>1, <2>1, MarksAre
  <2>3. CASE ~StepPasses(1) /\ Turn(1, Marks(1)) /\ Refuse(FALSE)
    <3>1. Fields(1) \cap Marks(1) # {}
      BY <1>1, <2>1, <2>3, MarksShow
    <3>2. 1..1 - 1 = {}
      OBVIOUS
    <3> QED
      BY <1>2, <2>1, <2>2, <2>3, <3>1, <3>2
  <2>4. CASE /\ StepPasses(1) /\ ~StepPasses(2)
             /\ Turn(2, Marks(1) \cup ({"resume"} \cap wrong)) /\ Refuse(FALSE)
    <3> DEFINE marks == Marks(1) \cup ({"resume"} \cap wrong)
    <3>1. Fields(2) = {"resume"}
      BY <2>1 DEF Fields, ResumeStep
    <3>2. "resume" \in wrong \/ "resume" \in flagged
      BY <2>4, <3>1 DEF StepPasses, Passes, Gated
    <3>3. Fields(2) \cap marks # {} /\ marks \in SUBSET AllFields
      BY <2>2, <3>1, <3>2 DEF AllFields, ResumeStep
    <3>4. late \/ \A k \in 1..2 - 1 : StepPasses(k)
      BY <2>4
    <3>5. Turn(2, marks) /\ ~StepPasses(2) /\ Refuse(FALSE)
      BY <2>4
    <3>6. 2 # 3
      OBVIOUS
    <3> HIDE DEF marks
    <3> QED
      BY <1>2, <2>1, <3>3, <3>4, <3>5, <3>6
  <2>5. CASE /\ StepPasses(1) /\ StepPasses(2) /\ Turn(3, Marks(3))
             /\ IF StepPasses(3) /\ ~ClaimWrong THEN Post ELSE Refuse(StepPasses(3))
    <3>1. \A k \in 1..3 - 1 : StepPasses(k)
      BY <2>5
    <3>2. CASE StepPasses(3) /\ ~ClaimWrong
      <4>1. \A k \in 1..LastStep : StepPasses(k)
        BY <2>1, <2>5, <3>2
      <4> QED
        BY <1>3, <2>1, <2>2, <2>5, <3>2, <4>1
    <3>3. CASE ~StepPasses(3)
      <4>1. Fields(3) \cap Marks(3) # {}
        BY <1>1, <2>1, <3>3, MarksShow
      <4>2. Refuse(FALSE)
        <5>1. StepPasses(3) = FALSE
          BY <3>3 DEF StepPasses
        <5> QED
          BY <2>5, <5>1
      <4> QED
        BY <1>2, <2>1, <2>2, <2>5, <3>1, <3>3, <4>1, <4>2
    <3>4. CASE StepPasses(3) /\ ClaimWrong
      <4>1. claimError' = TRUE /\ refused' = TRUE /\ UNCHANGED <<posting, failure>>
        BY <2>5, <3>4 DEF Refuse
      <4>2. claim # "off" /\ signedIn # "in"
        BY <3>4 DEF ClaimWrong
      <4> QED
        BY <1>1, <2>1, <2>2, <2>5, <3>1, <4>1, <4>2, TurnRest
    <3> QED
      BY <3>2, <3>3, <3>4
  <2> QED
    BY <1>4, <2>3, <2>4, <2>5 DEF SubmitApplication
<1>5. CASE SubmitRegistration
  <2>1. wizard = "register" /\ LastStep = 2 /\ 2 \in 1..LastStep
    BY <1>5 DEF SubmitRegistration, LastStep
  <2>7. /\ Turn(2, Marks(2))
        /\ (StepPasses(2) => Post) /\ (~StepPasses(2) => Refuse(FALSE))
    BY <1>5 DEF SubmitRegistration
  <2>2. Marks(2) \in SUBSET AllFields
    BY <1>1, <2>1, MarksOfForm
  <2>3. StepPasses(1) /\ ~ClaimWrong
    <3>1. ~late /\ step - 1 = 1 /\ claim = "off"
      BY <1>1, <2>1 DEF InvitedAlone
    <3> QED
      BY <1>1, <3>1 DEF StepsBehindPass, ClaimWrong
  <2>4. \A k \in 1..2 - 1 : StepPasses(k)
    BY <2>3
  <2>5. CASE StepPasses(2)
    <3>1. \A k \in 1..LastStep : StepPasses(k)
      BY <2>1, <2>3, <2>5
    <3> QED
      BY <1>3, <2>1, <2>3, <2>5, <2>7, <3>1
  <2>6. CASE ~StepPasses(2)
    <3>1. Fields(2) \cap Marks(2) # {}
      BY <1>1, <2>1, <2>6, MarksShow
    <3>2. late \/ \A k \in 1..2 - 1 : StepPasses(k)
      BY <2>4
    <3>3. Turn(2, Marks(2)) /\ ~StepPasses(2) /\ Refuse(FALSE)
      BY <2>6, <2>7
    <3>4. 2 # 3
      OBVIOUS
    <3> QED
      BY <1>2, <2>1, <2>2, <3>1, <3>2, <3>3, <3>4
  <2> QED
    BY <2>5, <2>6
<1> QED
  BY <1>4, <1>5 DEF Submit

\* The server, its answers, and another form.
LEMMA AnswerActs ==
  ASSUME WizardIInv, ServePosting \/ PostingDone \/ PostingFailed \/ StartOver
  PROVE  WizardIInv'
<1>1. /\ WizardTypeOK /\ InvitedAlone /\ PostingStands
      /\ RefusalSeen /\ StepsBehindPass /\ SubmittedRight /\ OutcomeTrue
      /\ wizard \in Wizards /\ step \in 1..LastStep /\ LastStep \in Nat
      /\ UNCHANGED <<wizard, signedIn>>
  BY DEF WizardIInv, WizardTypeOK, LastStep, ServePosting, PostingDone, PostingFailed, StartOver
<1>2. CASE ServePosting
  <2>1. /\ posting.st = "sent" /\ taken' \in BOOLEAN /\ (taken => taken')
        /\ UNCHANGED <<profile, step, maxStep, wrong, flagged, claim, claimError, failure, ended,
                       refused, late, lost>>
    <3>1. taken \in BOOLEAN
      BY <1>1 DEF WizardTypeOK
    <3>2. taken' = TRUE \/ taken' = taken
      BY <1>2 DEF ServePosting
    <3>3. taken' \in BOOLEAN /\ (taken => taken')
      BY <3>1, <3>2
    <3> QED
      BY <1>2, <3>3 DEF ServePosting
  <2>8. \E a \in {"done", "again", "refused", "password", "lost"} :
           /\ posting' = [posting EXCEPT !.st = a]
           /\ a = "password" => wizard = "register"
           /\ a = "done" => taken'
           /\ taken' => taken \/ a \in {"done", "lost"}
    <3>1. CASE /\ taken' = TRUE
               /\ \E a \in {"done", "lost"} : posting' = [posting EXCEPT !.st = a]
      BY <3>1
    <3>2. CASE /\ UNCHANGED taken
               /\ \E a \in {"refused", "lost", IF wizard = "apply" THEN "again" ELSE "password"} :
                    posting' = [posting EXCEPT !.st = a]
      <4>1. PICK a \in {"refused", "lost", IF wizard = "apply" THEN "again" ELSE "password"} :
              posting' = [posting EXCEPT !.st = a]
        BY <3>2
      <4>2. a \in {"refused", "lost", "again", "password"} /\ (a = "password" => wizard # "apply")
        BY <4>1
      <4> QED
        BY <1>1, <3>2, <4>1, <4>2 DEF Wizards
    <3> QED
      BY <1>2, <3>1, <3>2 DEF ServePosting
  <2>2. PICK a \in {"done", "again", "refused", "password", "lost"} :
             /\ posting' = [posting EXCEPT !.st = a]
             /\ a = "password" => wizard = "register"
             /\ a = "done" => taken'
             /\ taken' => taken \/ a \in {"done", "lost"}
    BY <2>8
  <2>3. /\ posting' \in [st : {"none", "sent", "done", "again", "refused", "password", "lost"},
                         good : BOOLEAN]
        /\ posting'.st = a /\ posting'.good
    BY <1>1, <2>2 DEF WizardTypeOK, SubmittedRight
  <2>4. WizardTypeOK'
    BY <1>1, <2>1, <2>3 DEF WizardTypeOK, LastStep
  <2>5. StepsBehindPass'
    BY <1>1, <2>1, BehindKeeps
  <2>6. PostingStands' /\ SubmittedRight' /\ OutcomeTrue'
    BY <1>1, <2>1, <2>2, <2>3 DEF PostingStands, SubmittedRight, OutcomeTrue
  <2>7. InvitedAlone' /\ RefusalSeen'
    BY <1>1, <2>1 DEF InvitedAlone, RefusalSeen, Fields
  <2> QED
    BY <2>4, <2>5, <2>6, <2>7 DEF WizardIInv
<1>3. CASE PostingDone
  <2>1. /\ posting.st \in {"done", "again"} /\ posting' = Idle
        /\ ended' = IF posting.st = "done" THEN "success" ELSE "elsewhere"
        /\ UNCHANGED <<profile, step, maxStep, wrong, flagged, claim, claimError, taken, failure,
                       refused, late, lost>>
    BY <1>3 DEF PostingDone
  <2>2. posting' \in [st : {"none", "sent", "done", "again", "refused", "password", "lost"},
                      good : BOOLEAN]
    BY <2>1 DEF Idle
  <2>3. WizardTypeOK'
    BY <1>1, <2>1, <2>2 DEF WizardTypeOK, LastStep
  <2>4. StepsBehindPass'
    BY <1>1, <2>1, BehindKeeps
  <2>5. PostingStands' /\ SubmittedRight' /\ OutcomeTrue'
    BY <1>1, <2>1 DEF PostingStands, SubmittedRight, OutcomeTrue, Idle
  <2>6. InvitedAlone' /\ RefusalSeen'
    BY <1>1, <2>1 DEF InvitedAlone, RefusalSeen, Fields
  <2> QED
    BY <2>3, <2>4, <2>5, <2>6 DEF WizardIInv
<1>4. CASE PostingFailed
  <2>1. /\ posting.st \in {"refused", "password", "lost"} /\ posting' = Idle
        /\ failure' = (posting.st # "password")
        /\ flagged' = IF posting.st = "password" THEN flagged \cup {"company"} ELSE flagged
        /\ refused' = TRUE /\ lost' = (lost \/ posting.st = "lost")
        /\ UNCHANGED <<profile, step, maxStep, wrong, claim, claimError, taken, ended, late>>
    BY <1>4 DEF PostingFailed
  <2>2. posting' \in [st : {"none", "sent", "done", "again", "refused", "password", "lost"},
                      good : BOOLEAN]
    BY <2>1 DEF Idle
  <2>3. WizardTypeOK'
    BY <1>1, <2>1, <2>2 DEF WizardTypeOK, LastStep, AllFields, RegisterStep1Form
  <2>4. StepsBehindPass'
    BY <1>1, <2>1, BehindKeeps
  <2>5. PostingStands' /\ SubmittedRight' /\ OutcomeTrue'
    BY <1>1, <2>1 DEF PostingStands, SubmittedRight, OutcomeTrue, Idle
  <2>6. InvitedAlone' /\ RefusalSeen'
    BY <1>1, <2>1 DEF InvitedAlone, RefusalSeen, PostingStands
  <2> QED
    BY <2>3, <2>4, <2>5, <2>6 DEF WizardIInv
<1>5. CASE StartOver
  <2>1. /\ step' = 1 /\ maxStep' = 1 /\ flagged' = {} /\ claim' = "off" /\ claimError' = FALSE
        /\ taken' = FALSE /\ failure' = FALSE /\ ended' = "no" /\ refused' = FALSE
        /\ late' = FALSE /\ lost' = FALSE /\ profile' = "waiting" /\ UNCHANGED posting
        /\ posting.st = "none"
    BY <1>1, <1>5 DEF StartOver, PostingStands
  <2>2. wrong' \subseteq AllFields
    <3>1. wrong' \subseteq UNION {Fields(k) : k \in 1..LastStep}
      BY <1>5 DEF StartOver
    <3> QED
      BY <1>1, <3>1, FieldsOfForm
  <2>3. WizardTypeOK'
    <3>1. LastStep' = LastStep /\ 1 \in 1..LastStep
      BY <1>1 DEF LastStep
    <3> QED
      BY <1>1, <2>1, <2>2, <3>1 DEF WizardTypeOK
  <2>4. StepsBehindPass'
    <3>1. 1..1 - 1 = {}
      OBVIOUS
    <3> QED
      BY <2>1, <3>1 DEF StepsBehindPass
  <2>5. PostingStands' /\ SubmittedRight' /\ OutcomeTrue' /\ InvitedAlone' /\ RefusalSeen'
    BY <1>1, <2>1 DEF PostingStands, SubmittedRight, OutcomeTrue, InvitedAlone, RefusalSeen
  <2> QED
    BY <2>3, <2>4, <2>5 DEF WizardIInv
<1> QED
  BY <1>2, <1>3, <1>4, <1>5

\* Every step of a form in steps.
LEMMA WizardStep == WizardIInv /\ [WizardNext]_wizardVars => WizardIInv'
<1> SUFFICES ASSUME WizardIInv, [WizardNext]_wizardVars PROVE WizardIInv'
  OBVIOUS
<1>1. CASE UNCHANGED wizardVars
  <2>1. StepsBehindPass'
    BY <1>1, BehindKeeps DEF wizardVars, WizardIInv
  <2>2. WizardTypeOK'
    BY <1>1 DEF wizardVars, WizardIInv, WizardTypeOK, LastStep
  <2>3. /\ InvitedAlone' /\ PostingStands' /\ SubmittedRight' /\ OutcomeTrue'
        /\ RefusalSeen'
    BY <1>1 DEF wizardVars, WizardIInv, InvitedAlone, PostingStands, SubmittedRight, OutcomeTrue,
                RefusalSeen, Fields
  <2> QED
    BY <2>1, <2>2, <2>3 DEF WizardIInv
<1> QED
  BY <1>1, FieldActs, ArrivalActs, NextActs, JumpActs, SubmitActs, AnswerActs DEF WizardNext

\* The invariant of a form in steps, over every behaviour.
THEOREM WizardInductive == WizardSpec => []WizardIInv
BY WizardInitial, WizardStep, PTL DEF WizardSpec

\* A refusal of a field is shown on the step that has the field.
THEOREM RefusalSeenHolds == WizardSpec => []RefusalSeen
<1>1. WizardIInv => RefusalSeen
  BY DEF WizardIInv
<1> QED
  BY <1>1, WizardInductive, PTL

\* The steps behind the one shown still pass, whatever was revisited, changed, picked and
\* brought by a profile that arrived late.
THEOREM StepsBehindPassHolds == WizardSpec => []StepsBehindPass
<1>1. WizardIInv => StepsBehindPass
  BY DEF WizardIInv
<1> QED
  BY <1>1, WizardInductive, PTL

\* What is posted has passed every step.
THEOREM SubmittedRightHolds == WizardSpec => []SubmittedRight
<1>1. WizardIInv => SubmittedRight
  BY DEF WizardIInv
<1> QED
  BY <1>1, WizardInductive, PTL

\* What the user is told of the registration or the application is what became of it.
THEOREM OutcomeTrueHolds == WizardSpec => []OutcomeTrue
<1>1. WizardIInv => OutcomeTrue
  BY DEF WizardIInv
<1> QED
  BY <1>1, WizardInductive, PTL

----------------------------------------------------------------------------
(* The filters.  Their numbers first: the ends of the slider. *)

\* Numbers that are finitely many have a least and a greatest.
LEMMA EndsExist ==
  ASSUME NEW S \in SUBSET Nat, IsFiniteSet(S), S # {}
  PROVE  /\ Least(S) \in S /\ \A m \in S : Least(S) <= m
         /\ Most(S) \in S /\ \A m \in S : Most(S) >= m
<1> DEFINE c == Cardinality(S)
<1>1. c \in Nat /\ c # 0
  BY FS_CardinalityType, FS_EmptySet
<1> HIDE DEF c
<1>2. /\ Nth(S, 1) \in S /\ Nth(S, c) \in S
      /\ \A m \in S : Nth(S, 1) <= m /\ m <= Nth(S, c)
  <2>1. 1 \in 1..c /\ c \in 1..c
    BY <1>1
  <2>2. Nth(S, 1) \in S /\ Nth(S, c) \in S
    BY <2>1, NthIs DEF c
  <2>3. ASSUME NEW m \in S PROVE Nth(S, 1) <= m /\ m <= Nth(S, c)
    <3>1. PICK n \in 1..c : Nth(S, n) = m
      BY NthOf DEF c
    <3>2. 1 < n => Nth(S, 1) < m
      BY <2>1, <3>1, NthGrows DEF c
    <3>3. n < c => m < Nth(S, c)
      BY <2>1, <3>1, NthGrows DEF c
    <3>4. m \in Nat /\ Nth(S, 1) \in Nat /\ Nth(S, c) \in Nat
      BY <2>2
    <3>5. n = 1 \/ 1 < n
      BY <1>1, <3>1
    <3>6. n = c \/ n < c
      BY <1>1, <3>1
    <3> QED
      BY <3>1, <3>2, <3>3, <3>4, <3>5, <3>6
  <2> QED
    BY <2>2, <2>3
<1>3. \E n \in S : \A m \in S : n <= m
  BY <1>2
<1>4. \E n \in S : \A m \in S : n >= m
  <2>1. \A m \in S : Nth(S, c) >= m
    BY <1>2
  <2> QED
    BY <1>2, <2>1
<1>5. Least(S) \in S /\ \A m \in S : Least(S) <= m
  BY <1>3 DEF Least
<1>6. Most(S) \in S /\ \A m \in S : Most(S) >= m
  BY <1>4 DEF Most
<1> QED
  BY <1>5, <1>6

\* A pair of ends, in order.
Ordered(r) == r \in Nat \X Nat /\ r[1] <= r[2]

\* Bounds a job's salary lies within.
Covers(b, j) == b[1] <= Job[j].lo /\ Job[j].hi <= b[2]

\* A job's salary.
LEMMA JobIs ==
  ASSUME NEW j \in Jobs
  PROVE  Job[j].lo \in Nat /\ Job[j].hi \in Nat /\ Job[j].lo <= Job[j].hi
BY FilterAssumption DEF Jobs

\* Rounded down to a step, and rounded up to one.
LEMMA RoundedDown ==
  ASSUME NEW n \in Nat
  PROVE  (n \div Step) * Step \in Nat /\ (n \div Step) * Step <= n
<1>1. Step \in Nat \ {0}
  BY FilterAssumption
<1> QED
  BY <1>1, SMTT(30)

LEMMA RoundedUp ==
  ASSUME NEW n \in Nat
  PROVE  ((n + Step - 1) \div Step) * Step \in Nat /\ n <= ((n + Step - 1) \div Step) * Step
<1>1. Step \in Nat \ {0}
  BY FilterAssumption
<1> QED
  BY <1>1, SMTT(30)

\* The ends of the slider are in order, and every job loaded is within them, unless all
\* have one salary.
LEMMA BoundsAre ==
  ASSUME NEW js \in SUBSET Jobs
  PROVE  /\ Ordered(SalaryBounds(js))
         /\ \/ \A j \in js : Covers(SalaryBounds(js), j)
            \/ SalaryBounds(js) = Fallback
<1> DEFINE los == {Job[j].lo : j \in js}
           his == {Job[j].hi : j \in js}
           lo == Least(los)
           hi == Most(his)
<1>0. Top \in Nat
  BY FilterAssumption
<1>1. CASE js = {} \/ lo >= hi
  <2>1. SalaryBounds(js) = Fallback
    BY <1>1 DEF SalaryBounds
  <2> QED
    BY <1>0, <2>1 DEF Fallback, Ordered
<1>2. CASE ~(js = {} \/ lo >= hi)
  <2>1. SalaryBounds(js) = <<(lo \div Step) * Step, ((hi + Step - 1) \div Step) * Step>>
    BY <1>2 DEF SalaryBounds
  <2>2. IsFiniteSet(js)
    BY FilterAssumption, FS_Subset DEF Jobs
  <2>3. IsFiniteSet(los) /\ IsFiniteSet(his)
    <3>1. [j \in js |-> Job[j].lo] \in Surjection(js, los)
      BY DEF Surjection
    <3>2. [j \in js |-> Job[j].hi] \in Surjection(js, his)
      BY DEF Surjection
    <3> QED
      BY <2>2, <3>1, <3>2, FS_Surjection
  <2>4. los \in SUBSET Nat /\ his \in SUBSET Nat /\ los # {} /\ his # {}
    BY <1>2, JobIs
  <2>5. lo \in los /\ hi \in his /\ (\A n \in los : lo <= n) /\ (\A n \in his : hi >= n)
    BY <2>3, <2>4, EndsExist
  <2>6. \A j \in js : lo <= Job[j].lo /\ Job[j].hi <= hi
    <3> SUFFICES ASSUME NEW j \in js PROVE lo <= Job[j].lo /\ Job[j].hi <= hi
      OBVIOUS
    <3>1. Job[j].lo \in los /\ Job[j].hi \in his
      OBVIOUS
    <3>2. lo <= Job[j].lo /\ hi >= Job[j].hi
      BY <2>5, <3>1
    <3>3. lo \in Nat /\ hi \in Nat /\ Job[j].hi \in Nat
      BY <2>4, <2>5, <3>1
    <3> HIDE DEF lo, hi
    <3> QED
      BY <3>2, <3>3
  <2>7. lo \in Nat /\ hi \in Nat /\ lo < hi
    <3>1. lo \in Nat /\ hi \in Nat /\ ~(lo >= hi)
      BY <1>2, <2>4, <2>5
    <3> HIDE DEF lo, hi
    <3> QED
      BY <3>1
  <2> DEFINE down == (lo \div Step) * Step
             up == ((hi + Step - 1) \div Step) * Step
  <2> HIDE DEF lo, hi
  <2>8. down \in Nat /\ down <= lo /\ up \in Nat /\ hi <= up
    BY <2>7, RoundedDown, RoundedUp
  <2>9. SalaryBounds(js) = <<down, up>>
    BY <2>1
  <2> HIDE DEF down, up
  <2>10. Ordered(SalaryBounds(js))
    BY <2>7, <2>8, <2>9 DEF Ordered
  <2>11. ASSUME NEW j \in js PROVE Covers(SalaryBounds(js), j)
    BY <2>6, <2>7, <2>8, <2>9, <2>11, JobIs DEF Covers
  <2> QED
    BY <2>10, <2>11
<1> QED
  BY <1>1, <1>2

\* A number brought within the ends.
LEMMA ClampIs ==
  ASSUME NEW n \in Int, NEW b, Ordered(b)
  PROVE  /\ Clamp(n, b) \in Nat /\ b[1] <= Clamp(n, b) /\ Clamp(n, b) <= b[2]
         /\ b[1] <= n /\ n <= b[2] => Clamp(n, b) = n
         /\ n < b[1] => Clamp(n, b) = b[1]
         /\ n > b[2] => Clamp(n, b) = b[2]
BY DEF Clamp, Ordered

\* Two of them stay in order.
LEMMA ClampGrows ==
  ASSUME NEW m \in Int, NEW n \in Int, m <= n, NEW b, Ordered(b)
  PROVE  Clamp(m, b) <= Clamp(n, b)
BY DEF Clamp, Ordered

\* A range is null or a pair of numbers.
LEMMA RangeIs ==
  ASSUME NEW r \in Ranges
  PROVE  /\ r[1] \in Int /\ r[2] \in Int /\ r = <<r[1], r[2]>>
         /\ r = AnyRange \/ r \in Nat \X Nat
BY DEF Ranges, AnyRange

\* The range that counts: within the ends, in order if the one chosen is, and the same when
\* it counts again.
LEMMA EffectiveIs ==
  ASSUME NEW js \in SUBSET Jobs, NEW r \in Ranges, r[1] <= r[2]
  PROVE  LET e == Effective(js, r)
             b == SalaryBounds(js)
         IN  /\ Ordered(e) /\ b[1] <= e[1] /\ e[2] <= b[2]
             /\ Effective(js, e) = e /\ e \in Ranges /\ e # AnyRange
             /\ r # AnyRange => e = <<Clamp(r[1], b), Clamp(r[2], b)>>
<1> DEFINE b == SalaryBounds(js)
           e == Effective(js, r)
<1>1. Ordered(b)
  BY BoundsAre
<1>2. r[1] \in Int /\ r[2] \in Int /\ (r = AnyRange \/ r \in Nat \X Nat)
  BY RangeIs
<1>3. e = IF r = AnyRange THEN b ELSE <<Clamp(r[1], b), Clamp(r[2], b)>>
  BY DEF Effective
<1> HIDE DEF b
<1>4. Ordered(e) /\ b[1] <= e[1] /\ e[2] <= b[2]
  <2>1. CASE r = AnyRange
    BY <1>1, <1>3, <2>1 DEF Ordered
  <2>2. CASE r # AnyRange
    <3> DEFINE c == Clamp(r[1], b)
               d == Clamp(r[2], b)
    <3>1. c \in Nat /\ d \in Nat /\ b[1] <= c /\ d <= b[2] /\ c <= d
      BY <1>1, <1>2, ClampIs, ClampGrows
    <3>2. e = <<c, d>>
      BY <1>3, <2>2
    <3> HIDE DEF c, d, e
    <3> QED
      BY <3>1, <3>2 DEF Ordered
  <2> QED
    BY <2>1, <2>2
<1> HIDE DEF e
<1>5. e \in Ranges /\ e # AnyRange
  BY <1>4 DEF Ordered, Ranges, AnyRange
<1>6. Effective(js, e) = <<Clamp(e[1], b), Clamp(e[2], b)>>
  BY <1>5 DEF Effective, b
<1>7. Clamp(e[1], b) = e[1] /\ Clamp(e[2], b) = e[2]
  <2>1. e[1] \in Nat /\ e[2] \in Nat /\ b[1] \in Nat /\ b[2] \in Nat /\ e[1] <= e[2]
    BY <1>1, <1>4 DEF Ordered
  <2>2. b[1] <= e[1] /\ e[1] <= b[2] /\ b[1] <= e[2] /\ e[2] <= b[2]
    BY <1>4, <2>1
  <2> QED
    BY <1>1, <2>1, <2>2, ClampIs
<1>8. e = <<e[1], e[2]>>
  BY <1>4 DEF Ordered
<1>9. Effective(js, e) = e
  BY <1>6, <1>7, <1>8
<1> QED
  BY <1>3, <1>4, <1>5, <1>9 DEF b, e

----------------------------------------------------------------------------
(* The filters: what is hidden, and what the address says. *)

\* A job that a range cut to the ends of the slider does not meet, the range itself does
\* not meet, where the job is within the ends, or the ends are the fallback and it is not
\* above them.
LEMMA HiddenIsOutside ==
  ASSUME NEW j \in Jobs, NEW b, Ordered(b), NEW r \in Nat \X Nat,
         ~Touches(j, <<Clamp(r[1], b), Clamp(r[2], b)>>),
         Covers(b, j) \/ b = Fallback
  PROVE  ~Touches(j, r) \/ (b = Fallback /\ Job[j].lo > Top)
<1> DEFINE c == Clamp(r[1], b)
           d == Clamp(r[2], b)
           lo == Job[j].lo
           hi == Job[j].hi
<1>1. lo \in Nat /\ hi \in Nat /\ lo <= hi
  BY JobIs
<1>2. b[1] \in Nat /\ b[2] \in Nat /\ b[1] <= b[2] /\ r[1] \in Nat /\ r[2] \in Nat
  BY DEF Ordered
<1>3. hi < c \/ lo > d
  <2>1. c \in Nat /\ d \in Nat
    BY <1>2, ClampIs
  <2> HIDE DEF c, d
  <2> QED
    BY <1>1, <2>1 DEF Touches, c, d
<1>4. b = Fallback => b[1] = 0 /\ b[2] = Top
  BY DEF Fallback
<1>5. CASE hi < c
  <2>1. hi < r[1]
    <3>1. CASE r[1] < b[1]
      <4>1. c = b[1]
        BY <1>2, <3>1, ClampIs
      <4>2. Covers(b, j)
        BY <1>2, <1>4, <3>1
      <4> HIDE DEF c
      <4> QED
        BY <1>1, <1>2, <1>5, <4>1, <4>2 DEF Covers
    <3>2. CASE r[1] > b[2]
      <4>1. c = b[2]
        BY <1>2, <3>2, ClampIs
      <4> HIDE DEF c
      <4> QED
        BY <1>1, <1>2, <1>5, <3>2, <4>1
    <3>3. CASE b[1] <= r[1] /\ r[1] <= b[2]
      <4>1. c = r[1]
        BY <1>2, <3>3, ClampIs
      <4> QED
        BY <1>5, <4>1
    <3> QED
      BY <1>2, <3>1, <3>2, <3>3
  <2> QED
    BY <1>1, <1>2, <2>1 DEF Touches
<1>6. CASE lo > d
  <2>1. lo > r[2] \/ (b = Fallback /\ lo > Top)
    <3>1. CASE r[2] > b[2]
      <4>1. d = b[2]
        BY <1>2, <3>1, ClampIs
      <4> HIDE DEF d
      <4>2. CASE Covers(b, j)
        BY <1>1, <1>2, <1>6, <4>1, <4>2 DEF Covers
      <4>3. CASE b = Fallback
        BY <1>4, <1>6, <4>1, <4>3
      <4> QED
        BY <4>2, <4>3
    <3>2. CASE r[2] < b[1]
      <4>1. d = b[1]
        BY <1>2, <3>2, ClampIs
      <4> HIDE DEF d
      <4> QED
        BY <1>1, <1>2, <1>6, <3>2, <4>1
    <3>3. CASE b[1] <= r[2] /\ r[2] <= b[2]
      <4>1. d = r[2]
        BY <1>2, <3>3, ClampIs
      <4> QED
        BY <1>6, <4>1
    <3> QED
      BY <1>2, <3>1, <3>2, <3>3
  <2> QED
    BY <1>1, <1>2, <2>1 DEF Touches
<1> QED
  BY <1>3, <1>5, <1>6

\* What the types and the order of the range give.
FilterGround ==
  /\ loaded \in SUBSET Jobs /\ range \in Ranges /\ range[1] <= range[2]
  /\ range[1] \in Int /\ range[2] \in Int
  /\ Ordered(Effective(loaded, range)) /\ Ordered(SalaryBounds(loaded))

LEMMA FilterHas == FilterIInv => FilterGround
BY RangeIs, EffectiveIs, BoundsAre DEF FilterIInv, FilterTypeOK, FilterGround

\* The range of the address filters as the page's does.
LEMMA UrlFilters ==
  ASSUME NEW js \in SUBSET Jobs, NEW r \in Ranges, r[1] <= r[2], NEW ps, NEW q, NEW j
  PROVE  MatchesSalary(j, js, UrlOf(js, r, ps, q).range) <=> MatchesSalary(j, js, r)
<1> DEFINE u == UrlOf(js, r, ps, q).range
<1>1. CASE SalaryActive(js, r)
  <2>1. u = Effective(js, r)
    BY <1>1 DEF UrlOf
  <2>2. Effective(js, u) = Effective(js, r)
    BY <2>1, EffectiveIs
  <2> QED
    BY <2>2 DEF MatchesSalary, SalaryActive
<1>2. CASE ~SalaryActive(js, r)
  <2>1. u = AnyRange
    BY <1>2 DEF UrlOf
  <2>2. ~SalaryActive(js, u)
    BY <2>1 DEF SalaryActive, Effective
  <2> QED
    BY <1>2, <2>2 DEF MatchesSalary
<1> QED
  BY <1>1, <1>2

\* The invariant gives the promises.
LEMMA FilterPromises ==
  FilterIInv => RangeOrdered /\ HiddenOutsideAsked /\ UrlReopensSame /\ JobsOfCompanies
<1> SUFFICES ASSUME FilterIInv
             PROVE  RangeOrdered /\ HiddenOutsideAsked /\ UrlReopensSame /\ JobsOfCompanies
  OBVIOUS
<1>1. FilterGround
  BY FilterHas
<1>2. RangeOrdered
  BY <1>1 DEF RangeOrdered, FilterGround, Ordered
<1>3. HiddenOutsideAsked
  <2> SUFFICES ASSUME NEW j \in loaded, ~MatchesSalary(j, loaded, range)
               PROVE  \/ range # AnyRange /\ ~Touches(j, range)
                      \/ SalaryBounds(loaded) = Fallback /\ Job[j].lo > Top
    BY DEF HiddenOutsideAsked
  <2> DEFINE b == SalaryBounds(loaded)
  <2>1. SalaryActive(loaded, range) /\ ~Touches(j, Effective(loaded, range))
    BY DEF MatchesSalary
  <2>2. range # AnyRange
    BY <2>1 DEF SalaryActive, Effective
  <2>3. range \in Nat \X Nat
    BY <1>1, <2>2, RangeIs DEF FilterGround
  <2>4. Effective(loaded, range) = <<Clamp(range[1], b), Clamp(range[2], b)>>
    BY <1>1, <2>2, EffectiveIs DEF FilterGround
  <2>5. Covers(b, j) \/ b = Fallback
    BY <1>1, BoundsAre DEF FilterGround
  <2>6. j \in Jobs /\ Ordered(b)
    BY <1>1 DEF FilterGround
  <2> HIDE DEF b
  <2>7. ~Touches(j, range) \/ (b = Fallback /\ Job[j].lo > Top)
    BY <2>1, <2>3, <2>4, <2>5, <2>6, HiddenIsOutside
  <2> QED
    BY <2>2, <2>7 DEF b
<1>4. UrlReopensSame
  <2> SUFFICES ASSUME filtering = "board", ~detached
               PROVE  Filtered(loaded, url.range, url.places, url.query)
                        = Filtered(loaded, range, places, query)
    BY DEF UrlReopensSame
  <2>1. /\ url.places = places /\ url.query = query
        /\ url.range \in {range, UrlOf(loaded, range, places, query).range}
    BY DEF FilterIInv, UrlAgrees
  <2>2. ASSUME NEW j
        PROVE  MatchesSalary(j, loaded, url.range) <=> MatchesSalary(j, loaded, range)
    BY <1>1, <2>1, UrlFilters DEF FilterGround
  <2> QED
    BY <2>1, <2>2 DEF Filtered
<1> QED
  BY <1>2, <1>3, <1>4 DEF FilterIInv

----------------------------------------------------------------------------
(* The filters: their steps. *)

LEMMA FilterStarts == FilterInit => FilterIInv
<1> SUFFICES ASSUME FilterInit PROVE FilterIInv
  OBVIOUS
<1>0. Step \in Nat \ {0} /\ FieldTop \in Nat
  BY FilterAssumption
<1>1. range \in Ranges /\ range[1] <= range[2]
  <2>1. CASE filtering = "field"
    <3>1. range = <<0, FieldTop>> \/ \E j \in Jobs : range = <<Job[j].lo, Job[j].hi>>
      BY <2>1 DEF FilterInit
    <3>2. CASE range = <<0, FieldTop>>
      BY <1>0, <3>2 DEF Ranges
    <3>3. ASSUME NEW j \in Jobs, range = <<Job[j].lo, Job[j].hi>>
          PROVE  range \in Ranges /\ range[1] <= range[2]
      BY <3>3, JobIs DEF Ranges
    <3> QED
      BY <3>1, <3>2, <3>3
  <2>2. CASE filtering # "field"
    <3>1. range = AnyRange \/ range = <<Step, 2 * Step>>
      BY <2>2 DEF FilterInit
    <3> QED
      BY <1>0, <3>1 DEF Ranges, AnyRange
  <2> QED
    BY <2>1, <2>2
<1>2. /\ places = {} /\ query = "" /\ typed = "" /\ companyFilter = {} /\ typing = NoDraft
      /\ loaded = {} /\ detached = FALSE /\ unpruned = FALSE
  BY DEF FilterInit
<1>3. url = IF filtering = "board" THEN [NoFilters EXCEPT !.range = range] ELSE NoFilters
  BY DEF FilterInit
<1>4. url \in [range : Ranges, places : SUBSET AllPlaces, query : Texts]
  BY <1>1, <1>3 DEF NoFilters, Texts, Ranges
<1>5. UrlAgrees
  BY <1>2, <1>3 DEF UrlAgrees, NoFilters
<1>6. jobFilter \subseteq Jobs /\ filtering \in Boards \cup {"applications", "field"}
  BY DEF FilterInit
<1>7. FilterTypeOK
  BY <1>1, <1>2, <1>4, <1>6 DEF FilterTypeOK, Texts
<1> QED
  BY <1>1, <1>2, <1>5, <1>7 DEF FilterIInv, JobsOfCompanies

\* Whatever a filter or a page of jobs did, the address is written from what is so then.
LEMMA WrittenKeeps ==
  ASSUME FilterIInv, Written,
         loaded' \in SUBSET Jobs, range' \in Ranges, range'[1] <= range'[2],
         places' \subseteq AllPlaces, typed' \in Texts, query' \in Texts
  PROVE  FilterIInv'
<1>1. /\ filtering' = filtering /\ jobFilter' = jobFilter /\ companyFilter' = companyFilter
      /\ typing' = typing /\ unpruned' = unpruned /\ detached' = FALSE
      /\ url' = IF filtering = "board" THEN UrlOf(loaded', range', places', query') ELSE url
  BY DEF Written
<1>2. Effective(loaded', range') \in Ranges
  BY EffectiveIs
<1>3. url' \in [range : Ranges, places : SUBSET AllPlaces, query : Texts]
  <2>1. AnyRange \in Ranges
    BY DEF Ranges
  <2>2. UrlOf(loaded', range', places', query')
          \in [range : Ranges, places : SUBSET AllPlaces, query : Texts]
    BY <1>2, <2>1 DEF UrlOf
  <2> QED
    BY <1>1, <2>2 DEF FilterIInv, FilterTypeOK
<1>4. FilterTypeOK'
  BY <1>1, <1>3 DEF FilterIInv, FilterTypeOK
<1>5. UrlAgrees'
  BY <1>1 DEF UrlAgrees, UrlOf
<1>6. JobsOfCompanies'
  BY <1>1 DEF FilterIInv, JobsOfCompanies
<1> QED
  BY <1>4, <1>5, <1>6 DEF FilterIInv

\* The list, the text and the places.
LEMMA LookingKeeps ==
  ASSUME FilterIInv, LoadJobs \/ ChangeStatus \/ Settle \/ ToggleLocation \/ ClearFilters
  PROVE  FilterIInv'
<1>1. /\ loaded \in SUBSET Jobs /\ range \in Ranges /\ range[1] <= range[2]
      /\ places \subseteq AllPlaces /\ typed \in Texts /\ query \in Texts
  BY DEF FilterIInv, FilterTypeOK
<1>2. Written
  BY DEF LoadJobs, ChangeStatus, Settle, ToggleLocation, ClearFilters
<1>3. CASE LoadJobs \/ ChangeStatus \/ Settle
  <2>1. loaded' \in SUBSET Jobs
    BY <1>1, <1>3 DEF LoadJobs, ChangeStatus, Settle
  <2>2. range' = range /\ places' = places /\ typed' = typed /\ query' \in {query, typed}
    BY <1>3 DEF LoadJobs, ChangeStatus, Settle
  <2> QED
    BY <1>1, <1>2, <2>1, <2>2, WrittenKeeps
<1>4. CASE ToggleLocation
  <2>1. PICK p \in {Job[j].place : j \in loaded} :
          places' = IF p \in places THEN places \ {p} ELSE places \cup {p}
    BY <1>4 DEF ToggleLocation
  <2>2. p \in AllPlaces
    BY <1>1 DEF AllPlaces
  <2>3. places' \subseteq AllPlaces
    BY <1>1, <2>1, <2>2
  <2>4. loaded' = loaded /\ range' = range /\ typed' = typed /\ query' = query
    BY <1>4 DEF ToggleLocation
  <2> QED
    BY <1>1, <1>2, <2>3, <2>4, WrittenKeeps
<1>5. CASE ClearFilters
  <2>1. range' = AnyRange /\ places' = {} /\ typed' = "" /\ loaded' = loaded /\ query' = query
    BY <1>5 DEF ClearFilters
  <2>2. AnyRange \in Ranges /\ AnyRange[1] <= AnyRange[2]
    BY DEF Ranges, AnyRange
  <2> QED
    BY <1>1, <1>2, <2>1, <2>2, WrittenKeeps DEF Texts
<1> QED
  BY <1>3, <1>4, <1>5

\* A thumb leaves the pair in order.
LEMMA ThumbsStop ==
  ASSUME NEW e, NEW b, Ordered(e), Ordered(b), b[1] <= e[1], e[1] <= b[2]
  PROVE  \A r \in Slides(e, b) : Ordered(r)
<1>1. /\ b[1] \in Nat /\ b[2] \in Nat /\ e[1] \in Nat /\ e[2] \in Nat /\ e[1] <= e[2]
      /\ Step \in Nat \ {0}
  BY FilterAssumption DEF Ordered
<1>2. ASSUME NEW v \in Int PROVE Ordered(SlideMin(v, e, b))
  <2> DEFINE next == IF v < e[2] - Step THEN v ELSE e[2] - Step
             low == IF next < b[1] THEN b[1] ELSE next
  <2>1. SlideMin(v, e, b) = <<low, e[2]>>
    BY DEF SlideMin
  <2>2. next \in Int /\ next <= e[2]
    BY <1>1, <1>2
  <2> HIDE DEF next
  <2>3. low \in Nat /\ low <= e[2]
    BY <1>1, <2>2
  <2> HIDE DEF low
  <2> QED
    BY <1>1, <2>1, <2>3 DEF Ordered
<1>3. ASSUME NEW v \in Int PROVE Ordered(SlideMax(v, e, b))
  <2> DEFINE next == IF v > e[1] + Step THEN v ELSE e[1] + Step
             high == IF next > b[2] THEN b[2] ELSE next
  <2>1. SlideMax(v, e, b) = <<e[1], high>>
    BY DEF SlideMax
  <2>2. next \in Int /\ e[1] <= next
    BY <1>1, <1>3
  <2> HIDE DEF next
  <2>3. high \in Nat /\ e[1] <= high
    BY <1>1, <2>2
  <2> HIDE DEF high
  <2> QED
    BY <1>1, <2>1, <2>3 DEF Ordered
<1>4. ASSUME NEW r \in Slides(e, b) PROVE Ordered(r)
  <2>1. PICK v \in {n \in b[1]..b[2] : n % Step = 0} : r \in {SlideMin(v, e, b), SlideMax(v, e, b)}
    BY <1>4 DEF Slides
  <2>2. v \in Int
    BY <1>1, <2>1
  <2> QED
    BY <1>2, <1>3, <2>1, <2>2
<1> QED
  BY <1>4

\* The slider, and what takes its range back.
LEMMA SliderKeeps ==
  ASSUME FilterIInv, SlideRange \/ ResetSalary \/ ClearRange
  PROVE  FilterIInv'
<1> DEFINE b == SalaryBounds(loaded)
           e == Effective(loaded, range)
<1>1. /\ loaded \in SUBSET Jobs /\ range \in Ranges /\ range[1] <= range[2]
      /\ places \subseteq AllPlaces /\ typed \in Texts /\ query \in Texts
  BY DEF FilterIInv, FilterTypeOK
<1>2. Written /\ loaded' = loaded /\ places' = places /\ typed' = typed /\ query' = query
  BY DEF SlideRange, ResetSalary, ClearRange
<1>3. Ordered(b) /\ Ordered(e) /\ b[1] <= e[1] /\ e[2] <= b[2]
  BY <1>1, BoundsAre, EffectiveIs
<1>4. range' = b \/ range' \in Slides(e, b) \/ range' = AnyRange
  BY DEF SlideRange, ResetSalary, ClearRange
<1> HIDE DEF b, e
<1>5. e[1] <= b[2]
  BY <1>3 DEF Ordered
<1>6. Ordered(range') \/ range' = AnyRange
  BY <1>3, <1>4, <1>5, ThumbsStop
<1>7. range' \in Ranges /\ range'[1] <= range'[2]
  <2>1. AnyRange \in Ranges /\ AnyRange[1] <= AnyRange[2]
    BY DEF Ranges, AnyRange
  <2> QED
    BY <1>6, <2>1 DEF Ordered, Ranges
<1> QED
  BY <1>1, <1>2, <1>7, WrittenKeeps

\* Text that has not settled changes nothing yet, and a link leaves the address to itself.
LEMMA TypingKeeps ==
  ASSUME FilterIInv, TypeQuery \/ FollowLink
  PROVE  FilterIInv'
<1>1. CASE TypeQuery
  <2>1. /\ typed' \in Texts
        /\ UNCHANGED <<filtering, loaded, range, places, query, url, jobFilter, companyFilter,
                       typing, detached, unpruned>>
    BY <1>1 DEF TypeQuery
  <2>2. FilterTypeOK'
    BY <2>1 DEF FilterIInv, FilterTypeOK
  <2> QED
    BY <2>1, <2>2 DEF FilterIInv, UrlAgrees, UrlOf, JobsOfCompanies
<1>2. CASE FollowLink
  <2>1. NoFilters \in [range : Ranges, places : SUBSET AllPlaces, query : Texts]
    BY DEF NoFilters, Ranges, Texts
  <2>2. /\ url' = NoFilters /\ detached' = TRUE
        /\ UNCHANGED <<filtering, loaded, range, places, typed, query, jobFilter, companyFilter,
                       typing, unpruned>>
    BY <1>2 DEF FollowLink
  <2>3. FilterTypeOK'
    BY <2>1, <2>2 DEF FilterIInv, FilterTypeOK
  <2> QED
    BY <2>2, <2>3 DEF FilterIInv, UrlAgrees, JobsOfCompanies
<1> QED
  BY <1>1, <1>2

\* The jobs and the companies of the applications.
LEMMA PickingKeeps ==
  ASSUME FilterIInv, PickFilter \/ RemoveChip
  PROVE  FilterIInv'
<1>1. /\ filtering = "applications"
      /\ UNCHANGED <<filtering, loaded, range, places, typed, query, url, typing, detached>>
  BY DEF PickFilter, RemoveChip
<1>2. jobFilter \subseteq Jobs /\ companyFilter \subseteq Companies /\ unpruned \in BOOLEAN
      /\ (companyFilter # {} /\ ~unpruned => jobFilter \subseteq JobsOf(companyFilter))
  BY DEF FilterIInv, FilterTypeOK, JobsOfCompanies
<1>3. /\ jobFilter' \subseteq Jobs /\ companyFilter' \subseteq Companies /\ unpruned' \in BOOLEAN
      /\ (companyFilter' # {} /\ ~unpruned' => jobFilter' \subseteq JobsOf(companyFilter'))
  <2>1. ASSUME NEW cs \in SUBSET Companies, companyFilter' = cs, jobFilter' = PickCompanies(cs),
               unpruned' = FALSE
        PROVE  /\ jobFilter' \subseteq Jobs /\ companyFilter' \subseteq Companies
               /\ unpruned' \in BOOLEAN
               /\ (companyFilter' # {} /\ ~unpruned' => jobFilter' \subseteq JobsOf(companyFilter'))
    BY <1>2, <2>1 DEF PickCompanies
  <2>2. ASSUME NEW j \in IF companyFilter = {} THEN Jobs ELSE JobsOf(companyFilter),
               jobFilter' = IF j \in jobFilter THEN jobFilter \ {j} ELSE jobFilter \cup {j},
               companyFilter' = companyFilter, unpruned' = unpruned
        PROVE  /\ jobFilter' \subseteq Jobs /\ companyFilter' \subseteq Companies
               /\ unpruned' \in BOOLEAN
               /\ (companyFilter' # {} /\ ~unpruned' => jobFilter' \subseteq JobsOf(companyFilter'))
    <3>1. j \in Jobs
      BY <2>2 DEF JobsOf
    <3>2. jobFilter' \subseteq jobFilter \cup {j}
      BY <2>2
    <3>3. companyFilter # {} => j \in JobsOf(companyFilter)
      BY <2>2
    <3> QED
      BY <1>2, <2>2, <3>1, <3>2, <3>3
  <2>3. ASSUME NEW j \in jobFilter, jobFilter' = jobFilter \ {j},
               companyFilter' = companyFilter, unpruned' = unpruned
        PROVE  /\ jobFilter' \subseteq Jobs /\ companyFilter' \subseteq Companies
               /\ unpruned' \in BOOLEAN
               /\ (companyFilter' # {} /\ ~unpruned' => jobFilter' \subseteq JobsOf(companyFilter'))
    BY <1>2, <2>3
  <2>4. ASSUME NEW c \in companyFilter, companyFilter' = companyFilter \ {c},
               unpruned' = TRUE, jobFilter' = jobFilter
        PROVE  /\ jobFilter' \subseteq Jobs /\ companyFilter' \subseteq Companies
               /\ unpruned' \in BOOLEAN
               /\ (companyFilter' # {} /\ ~unpruned' => jobFilter' \subseteq JobsOf(companyFilter'))
    BY <1>2, <2>4
  <2> QED
    BY <2>1, <2>2, <2>3, <2>4 DEF PickFilter, RemoveChip
<1>4. FilterTypeOK'
  BY <1>1, <1>3 DEF FilterIInv, FilterTypeOK
<1>5. JobsOfCompanies'
  BY <1>3 DEF JobsOfCompanies
<1>6. range'[1] <= range'[2]
  BY <1>1 DEF FilterIInv
<1>7. UrlAgrees'
  BY <1>1 DEF UrlAgrees, Boards
<1> QED
  BY <1>4, <1>5, <1>6, <1>7 DEF FilterIInv

\* The pair the field shows is in order, and within its slider.
LEMMA FieldEndsAre ==
  ASSUME NEW lo \in Int, NEW hi \in Int, range = <<lo, hi>>
  PROVE  Ordered(FieldEnds) /\ FieldEnds[1] <= FieldTop
<1> DEFINE b == <<0, FieldTop>>
           c == Clamp(lo, b)
           d == Clamp(hi, b)
<1>1. Ordered(b) /\ b[2] = FieldTop
  BY FilterAssumption DEF Ordered
<1> HIDE DEF b
<1>2. c \in Nat /\ d \in Nat /\ c <= FieldTop
  BY <1>1, ClampIs
<1>3. FieldEnds = <<c, IF d < c THEN c ELSE d>>
  BY DEF FieldEnds, b
<1> HIDE DEF c, d
<1> QED
  BY <1>2, <1>3 DEF Ordered

\* What is committed is in order too.
LEMMA CommittedIs ==
  ASSUME Ordered(FieldEnds), NEW n \in Int
  PROVE  Ordered(CommitLo(n)) /\ Ordered(CommitHi(n))
<1>0. Step \in Nat \ {0} /\ FieldTop \in Nat
  BY FilterAssumption
<1>1. FieldEnds[1] \in Nat /\ FieldEnds[2] \in Nat /\ FieldEnds[1] <= FieldEnds[2]
  BY DEF Ordered
<1>2. Ordered(CommitLo(n))
  <2> DEFINE below == IF n < FieldEnds[2] - Step THEN n ELSE FieldEnds[2] - Step
             low == IF below < 0 THEN 0 ELSE below
  <2>1. below \in Int /\ below <= FieldEnds[2]
    BY <1>0, <1>1
  <2>2. CommitLo(n) = <<low, FieldEnds[2]>>
    BY DEF CommitLo
  <2> HIDE DEF below
  <2>3. low \in Nat /\ low <= FieldEnds[2]
    BY <1>1, <2>1
  <2> HIDE DEF low
  <2> QED
    BY <1>1, <2>2, <2>3 DEF Ordered
<1>3. Ordered(CommitHi(n))
  <2> DEFINE capped == IF n > FieldTop THEN FieldTop ELSE n
             high == IF capped < FieldEnds[1] + Step THEN FieldEnds[1] + Step ELSE capped
  <2>1. capped \in Int
    BY <1>0
  <2>2. CommitHi(n) = <<FieldEnds[1], high>>
    BY DEF CommitHi
  <2> HIDE DEF capped
  <2>3. high \in Nat /\ FieldEnds[1] <= high
    BY <1>0, <1>1, <2>1
  <2> HIDE DEF high
  <2> QED
    BY <1>1, <2>2, <2>3 DEF Ordered
<1> QED
  BY <1>2, <1>3

\* The salary field of the form.
LEMMA FieldKeeps ==
  ASSUME FilterIInv, TypeSalary \/ CommitSalary \/ SlideField
  PROVE  FilterIInv'
<1>0. FilterGround
  BY FilterHas
<1>1. /\ filtering = "field"
      /\ UNCHANGED <<filtering, loaded, places, typed, query, url, jobFilter, companyFilter,
                     detached, unpruned>>
  BY DEF TypeSalary, CommitSalary, SlideField
<1>2. Typeable \in SUBSET Int
  BY FilterAssumption DEF Typeable, NotANumber
<1>3. range' \in Ranges /\ range'[1] <= range'[2]
  <2>0. Ordered(FieldEnds) /\ FieldEnds[1] <= FieldTop
    <3>1. range = <<range[1], range[2]>>
      BY <1>0, RangeIs DEF FilterGround
    <3> QED
      BY <1>0, <3>1, FieldEndsAre DEF FilterGround
  <2>1. CASE TypeSalary
    BY <1>0, <2>1 DEF TypeSalary, FilterGround
  <2>2. CASE CommitSalary
    <3>3. typing.n \in Typeable
      BY <2>2 DEF CommitSalary, FilterIInv, FilterTypeOK, NoDraft
    <3>4. Ordered(CommitLo(typing.n)) /\ Ordered(CommitHi(typing.n))
      BY <1>2, <2>0, <3>3, CommittedIs
    <3>5. range' \in {FieldEnds, CommitLo(typing.n), CommitHi(typing.n)}
      BY <2>2 DEF CommitSalary
    <3>6. Ordered(range')
      BY <2>0, <3>4, <3>5
    <3> QED
      BY <3>6 DEF Ordered, Ranges
  <2>3. CASE SlideField
    <3> DEFINE b == <<0, FieldTop>>
    <3>1. range' \in Slides(FieldEnds, b)
      BY <2>3 DEF SlideField
    <3>2. Ordered(b) /\ b[1] = 0 /\ b[2] = FieldTop
      BY FilterAssumption DEF Ordered
    <3> HIDE DEF b
    <3>3. b[1] <= FieldEnds[1] /\ FieldEnds[1] <= b[2]
      BY <2>0, <3>2 DEF Ordered
    <3>4. Ordered(range')
      BY <2>0, <3>1, <3>2, <3>3, ThumbsStop
    <3> QED
      BY <3>4 DEF Ordered, Ranges
  <2> QED
    BY <2>1, <2>2, <2>3
<1>4. typing' \in {NoDraft} \cup [end : {"lo", "hi"}, n : Typeable]
  <2>1. CASE TypeSalary
    <3>1. typing = NoDraft \/ typing.end \in {"lo", "hi"}
      BY DEF FilterIInv, FilterTypeOK
    <3> QED
      BY <2>1, <3>1 DEF TypeSalary
  <2>2. CASE CommitSalary \/ SlideField
    BY <2>2 DEF CommitSalary, SlideField, FilterIInv, FilterTypeOK
  <2> QED
    BY <2>1, <2>2
<1>5. FilterTypeOK'
  BY <1>1, <1>3, <1>4 DEF FilterIInv, FilterTypeOK
<1>6. UrlAgrees'
  BY <1>1 DEF UrlAgrees
<1>7. JobsOfCompanies'
  BY <1>1 DEF FilterIInv, JobsOfCompanies
<1> QED
  BY <1>3, <1>5, <1>6, <1>7 DEF FilterIInv

LEMMA FilterMoves == FilterIInv /\ [FilterNext]_filterVars => FilterIInv'
<1> SUFFICES ASSUME FilterIInv, [FilterNext]_filterVars PROVE FilterIInv'
  OBVIOUS
<1>1. CASE UNCHANGED filterVars
  BY <1>1 DEF filterVars, FilterIInv, FilterTypeOK, UrlAgrees, UrlOf, Effective, SalaryActive,
              JobsOfCompanies
<1> QED
  BY <1>1, LookingKeeps, SliderKeeps, TypingKeeps, PickingKeeps, FieldKeeps DEF FilterNext

\* The invariant of the filters, over every behaviour.
THEOREM FilterInductive == FilterSpec => []FilterIInv
BY FilterStarts, FilterMoves, PTL DEF FilterSpec

----------------------------------------------------------------------------
(* The rows of requirements, and the tags. *)

\* A list without its i-th.
LeftOutOf(t, s, i) ==
  /\ Len(t) = Len(s) - 1
  /\ \A n \in 1..Len(s) - 1 : t[n] = s[IF n < i THEN n ELSE n + 1]

LEMMA LeftOutIs ==
  ASSUME NEW T, NEW s \in Seq(T), NEW i \in 1..Len(s)
  PROVE  LeftOut(s, i) \in Seq(T) /\ LeftOutOf(LeftOut(s, i), s, i)
<1> DEFINE len == Len(s)
           a == SubSeq(s, 1, i - 1)
           b == SubSeq(s, i + 1, len)
<1>0. len \in Nat /\ i \in 1..len
  BY LenProperties
<1>1. s \in [1..len -> T] /\ len = Len(s)
  BY LenProperties
<1> HIDE DEF len
<1>2. a \in Seq(T) /\ Len(a) = i - 1 /\ \A n \in 1..i - 1 : a[n] = s[n]
  <2>1. i - 1 \in 0..len
    BY <1>0
  <2> QED
    BY <1>0, <1>1, <2>1, SubSeqProperties
<1>3. b \in Seq(T) /\ Len(b) = len - i /\ \A n \in 1..len - i : b[n] = s[i + n]
  <2>1. CASE i + 1 <= len
    BY <1>0, <1>1, <2>1, SubSeqProperties
  <2>2. CASE i = len
    BY <1>0, <1>1, <2>2, SubSeqProperties
  <2>3. i + 1 <= len \/ i = len
    BY <1>0
  <2> QED
    BY <2>1, <2>2, <2>3
<1> HIDE DEF a, b
<1>4. LeftOut(s, i) = a \o b
  BY <1>1 DEF LeftOut, a, b
<1> DEFINE la == Len(a)
           lb == Len(b)
<1>5. la = i - 1 /\ lb = len - i
  BY <1>2, <1>3
<1>6. /\ a \o b \in Seq(T) /\ Len(a \o b) = la + lb
      /\ \A n \in 1..la + lb : (a \o b)[n] = IF n <= la THEN a[n] ELSE b[n - la]
  BY <1>2, <1>3, ConcatProperties
<1> HIDE DEF la, lb
<1>7. la + lb = len - 1
  BY <1>0, <1>5
<1>8. ASSUME NEW n \in 1..len - 1
      PROVE  (a \o b)[n] = s[IF n < i THEN n ELSE n + 1]
  <2>1. CASE n < i
    <3>1. (a \o b)[n] = a[n] /\ n \in 1..i - 1
      BY <1>0, <1>5, <1>6, <1>7, <2>1
    <3> QED
      BY <1>2, <2>1, <3>1
  <2>2. CASE n >= i
    <3>1. (a \o b)[n] = b[n - (i - 1)]
      BY <1>0, <1>5, <1>6, <1>7, <2>2
    <3>2. n - (i - 1) \in 1..len - i /\ i + (n - (i - 1)) = n + 1 /\ ~(n < i)
      BY <1>0, <2>2
    <3> QED
      BY <1>3, <3>1, <3>2
  <2>3. n < i \/ n >= i
    BY <1>0
  <2> QED
    BY <2>1, <2>2, <2>3
<1> QED
  BY <1>4, <1>6, <1>7, <1>8, <1>1 DEF LeftOutOf

\* Where the n-th of a list stood before its i-th was moved to place j.
Was(i, j, n) ==
  LET m == IF n < j THEN n ELSE n - 1
  IN IF n = j THEN i ELSE IF m < i THEN m ELSE m + 1

LEMMA WasIs ==
  ASSUME NEW len \in Nat, NEW i \in 1..len, NEW j \in 1..len, NEW n \in 1..len
  PROVE  /\ Was(i, j, n) \in 1..len
         /\ \A m \in 1..len : Was(i, j, m) = Was(i, j, n) => m = n
BY DEF Was

LEMMA MovedIs ==
  ASSUME NEW T, NEW s \in Seq(T), NEW i \in 1..Len(s), NEW j \in 1..Len(s)
  PROVE  /\ Moved(s, i, j) \in Seq(T) /\ Len(Moved(s, i, j)) = Len(s)
         /\ \A n \in 1..Len(s) : Moved(s, i, j)[n] = s[Was(i, j, n)]
<1> DEFINE len == Len(s)
           t == LeftOut(s, i)
           lt == Len(t)
           a == SubSeq(t, 1, j - 1)
           b == SubSeq(t, j, lt)
           m == <<s[i]>>
<1>0. len \in Nat /\ i \in 1..len /\ j \in 1..len
  BY LenProperties
<1>1. s \in [1..len -> T] /\ len = Len(s)
  BY LenProperties
<1>2. lt = len - 1
  BY LeftOutIs DEF LeftOutOf
<1>3. t \in Seq(T) /\ \A n \in 1..len - 1 : t[n] = s[IF n < i THEN n ELSE n + 1]
  BY LeftOutIs DEF LeftOutOf
<1>4. Moved(s, i, j) = (a \o m) \o b
  BY DEF Moved
<1> HIDE DEF len, t
<1>5. lt \in Nat /\ t \in [1..lt -> T] /\ lt = Len(t)
  BY <1>3, LenProperties
<1>6. lt \in Nat
  BY <1>5
<1> HIDE DEF lt
<1>7. a \in Seq(T) /\ Len(a) = j - 1 /\ \A n \in 1..j - 1 : a[n] = t[n]
  <2>1. j - 1 \in 0..lt
    BY <1>0, <1>2, <1>6
  <2> QED
    BY <1>0, <1>3, <1>5, <1>2, <2>1, SubSeqProperties
<1>8. b \in Seq(T) /\ Len(b) = len - j /\ \A n \in 1..len - j : b[n] = t[j + n - 1]
  <2>1. CASE j <= lt
    BY <1>0, <1>3, <1>5, <1>2, <2>1, SubSeqProperties
  <2>2. CASE j = len
    <3>1. j = lt + 1 /\ len - j = 0
      BY <1>0, <1>2, <2>2
    <3> QED
      BY <1>0, <1>3, <1>5, <1>2, <3>1, SubSeqProperties
  <2>3. j <= lt \/ j = len
    BY <1>0, <1>2, <1>6
  <2> QED
    BY <2>1, <2>2, <2>3
<1> HIDE DEF a, b
<1>9. m \in Seq(T) /\ Len(m) = 1 /\ m[1] = s[i]
  BY <1>0, <1>1
<1> HIDE DEF m
<1> DEFINE c == a \o m
           la == Len(a)
           lc == Len(c)
           lb == Len(b)
<1>10. la = j - 1 /\ lb = len - j
  BY <1>7, <1>8
<1>11. /\ c \in Seq(T) /\ lc = la + 1
      /\ \A n \in 1..la + 1 : c[n] = IF n <= la THEN a[n] ELSE m[n - la]
  <2>1. /\ c \in Seq(T) /\ lc = la + Len(m)
        /\ \A n \in 1..la + Len(m) : c[n] = IF n <= la THEN a[n] ELSE m[n - la]
    BY <1>7, <1>9, ConcatProperties
  <2>2. Len(m) = 1
    BY <1>9
  <2> HIDE DEF c, la, lc
  <2> QED
    BY <2>1, <2>2
<1> HIDE DEF c
<1>12. /\ c \o b \in Seq(T) /\ Len(c \o b) = lc + lb
      /\ \A n \in 1..lc + lb : (c \o b)[n] = IF n <= lc THEN c[n] ELSE b[n - lc]
  BY <1>8, <1>11, ConcatProperties
<1> HIDE DEF la, lb, lc
<1>13. lc = j /\ lc + lb = len
  BY <1>0, <1>10, <1>11
<1>14. ASSUME NEW n \in 1..len
      PROVE  (c \o b)[n] = s[Was(i, j, n)]
  <2>1. CASE n < j
    <3>1. (c \o b)[n] = c[n] /\ c[n] = a[n] /\ n \in 1..j - 1 /\ n \in 1..len - 1
      BY <1>0, <1>10, <1>11, <1>12, <1>13, <2>1
    <3>2. c[n] = s[IF n < i THEN n ELSE n + 1]
      BY <1>3, <1>7, <3>1
    <3>3. Was(i, j, n) = IF n < i THEN n ELSE n + 1
      BY <1>0, <2>1 DEF Was
    <3> QED
      BY <3>1, <3>2, <3>3
  <2>2. CASE n = j
    <3>1. (c \o b)[n] = c[n] /\ c[n] = m[1]
      <4>1. n <= lc /\ n \in 1..lc + lb /\ n \in 1..la + 1 /\ ~(n <= la) /\ n - la = 1
        BY <1>0, <1>10, <1>13, <2>2
      <4> QED
        BY <1>11, <1>12, <4>1
    <3> QED
      BY <1>9, <2>2, <3>1 DEF Was
  <2>3. CASE n > j
    <3>1. /\ n \in 1..lc + lb /\ ~(n <= lc) /\ n - lc = n - j /\ n - j \in 1..len - j
          /\ j + (n - j) - 1 = n - 1 /\ n - 1 \in 1..len - 1
      BY <1>0, <1>13, <2>3
    <3>2. (c \o b)[n] = b[n - j]
      BY <1>12, <3>1
    <3>3. b[n - j] = t[n - 1]
      BY <1>8, <3>1
    <3>4. t[n - 1] = s[IF n - 1 < i THEN n - 1 ELSE (n - 1) + 1]
      BY <1>3, <3>1
    <3>5. Was(i, j, n) = IF n - 1 < i THEN n - 1 ELSE (n - 1) + 1
      BY <1>0, <2>3 DEF Was
    <3> QED
      BY <3>2, <3>3, <3>4, <3>5
  <2>4. n < j \/ n = j \/ n > j
    BY <1>0
  <2> QED
    BY <2>1, <2>2, <2>3, <2>4
<1> QED
  BY <1>4, <1>12, <1>13, <1>14, <1>1 DEF c

\* Taking one out, or moving one, leaves what differed different.
LEMMA OnceEachKept ==
  ASSUME NEW T, NEW s \in Seq(T), OnceEach(s), NEW i \in 1..Len(s), NEW j \in 1..Len(s)
  PROVE  OnceEach(LeftOut(s, i)) /\ OnceEach(Moved(s, i, j))
<1>0. Len(s) \in Nat
  BY LenProperties
<1>1. OnceEach(LeftOut(s, i))
  <2> SUFFICES ASSUME NEW m \in 1..Len(s) - 1, NEW n \in 1..Len(s) - 1,
                      LeftOut(s, i)[m] = LeftOut(s, i)[n]
               PROVE  m = n
    BY LeftOutIs DEF OnceEach, LeftOutOf
  <2> DEFINE p == IF m < i THEN m ELSE m + 1
             q == IF n < i THEN n ELSE n + 1
  <2>1. s[p] = s[q]
    BY LeftOutIs DEF LeftOutOf
  <2>2. p \in 1..Len(s) /\ q \in 1..Len(s)
    BY <1>0
  <2>3. p = q
    BY <2>1, <2>2 DEF OnceEach
  <2> QED
    BY <1>0, <2>3
<1>2. OnceEach(Moved(s, i, j))
  <2> SUFFICES ASSUME NEW m \in 1..Len(s), NEW n \in 1..Len(s),
                      Moved(s, i, j)[m] = Moved(s, i, j)[n]
               PROVE  m = n
    BY MovedIs DEF OnceEach
  <2>1. s[Was(i, j, m)] = s[Was(i, j, n)]
    BY MovedIs
  <2>2. Was(i, j, m) \in 1..Len(s) /\ Was(i, j, n) \in 1..Len(s)
    BY <1>0, WasIs
  <2>3. Was(i, j, m) = Was(i, j, n)
    BY <2>1, <2>2 DEF OnceEach
  <2> QED
    BY <1>0, <2>3, WasIs
<1> QED
  BY <1>1, <1>2

\* What the invariant says of the rows.
RowGround ==
  /\ value \in Seq(Keys) /\ OnceEach(value) /\ ids \in Seq(Keys) /\ OnceEach(ids)
  /\ Len(ids) = Len(value) /\ Len(value) \in Nat /\ Len(value) >= MinRows
  /\ reseeded \/ Len(value) <= MaxRows
  /\ \A i \in 1..Len(value) : ids[i] < nextId
  /\ ~reseeded => \A i \in 1..Len(value) : mounted[ids[i]] = value[i]

LEMMA RowHas == RowIInv => RowGround
<1> SUFFICES ASSUME RowIInv PROVE RowGround
  OBVIOUS
<1>1. value \in Seq(Keys) /\ Len(ids) = Len(value)
  BY DEF RowIInv, RowTypeOK
<1>2. Len(value) \in Nat
  BY <1>1, LenProperties
<1> QED
  BY <1>1, <1>2 DEF RowIInv, RowTypeOK, RowsKeyed, RowKeepsRequirement, EnoughRows, RowGround

\* Rows rearranged as their keys are keep what the invariant says of them.
LEMMA RearrangedKeeps ==
  ASSUME RowIInv,
         UNCHANGED <<editor, nextId, mounted, sent, tags, reseeded>>, filled' = filled,
         editing' = Unopened, draftNew' = "closed",
         value' \in Seq(Keys), OnceEach(value'), ids' \in Seq(Keys), OnceEach(ids'),
         NEW m \in Nat, Len(value') = m, Len(ids') = m, m >= MinRows, m <= Len(value),
         \A n \in 1..m : \E i \in 1..Len(value) : value'[n] = value[i] /\ ids'[n] = ids[i]
  PROVE  RowIInv'
<1>1. RowGround
  BY RowHas
<1>2. RowTypeOK'
  <2>1. reseeded' \/ Len(value') <= MaxRows
    <3>1. Len(value) \in Nat /\ MaxRows \in Nat /\ (reseeded \/ Len(value) <= MaxRows)
      BY <1>1, RowAssumption DEF RowGround
    <3> DEFINE len == Len(value)
    <3>2. len \in Nat /\ m <= len /\ (reseeded \/ len <= MaxRows)
      BY <3>1
    <3> HIDE DEF len
    <3>3. reseeded \/ m <= MaxRows
      BY <3>1, <3>2
    <3> QED
      BY <3>3
  <2>2. Unopened \in [key : Keys \cup {None}, text : BOOLEAN]
    BY DEF Unopened
  <2> QED
    BY <2>1, <2>2 DEF RowIInv, RowTypeOK
<1>3. RowsKeyed'
  BY <1>1 DEF RowsKeyed, RowGround
<1>4. RowKeepsRequirement'
  BY <1>1 DEF RowKeepsRequirement, RowGround
<1>5. FocusAgrees' /\ EnoughRows'
  BY DEF FocusAgrees, EnoughRows
<1>6. SentWhole' /\ TagsDiffer'
  BY DEF RowIInv, SentWhole, TagsDiffer, SameTag
<1> QED
  BY <1>2, <1>3, <1>4, <1>5, <1>6 DEF RowIInv

\* A row taken out, and a row dragged.
LEMMA TakeOutKeeps ==
  ASSUME RowIInv, CanRemove, NEW i \in 1..Len(value), TakeOut(i),
         UNCHANGED <<editor, nextId, mounted, sent, tags, reseeded, filled>>,
         editing' = Unopened, draftNew' = "closed"
  PROVE  RowIInv'
<1> DEFINE len == Len(value)
           m == len - 1
<1>1. RowGround
  BY RowHas
<1>2. len \in Nat /\ i \in 1..len /\ MinRows \in Nat \ {0} /\ len > MinRows
  BY <1>1, RowAssumption DEF RowGround, CanRemove
<1>3. /\ value' = LeftOut(value, i) /\ ids' = LeftOut(ids, i) /\ i \in 1..Len(ids)
      /\ Len(ids) = len
  BY <1>1 DEF TakeOut, RowGround
<1>4. value' \in Seq(Keys) /\ LeftOutOf(value', value, i)
  BY <1>1, <1>3, LeftOutIs DEF RowGround
<1>5. ids' \in Seq(Keys) /\ LeftOutOf(ids', ids, i)
  BY <1>1, <1>3, LeftOutIs DEF RowGround
<1>6. OnceEach(value') /\ OnceEach(ids')
  BY <1>1, <1>3, OnceEachKept DEF RowGround
<1>7. Len(value') = m /\ Len(ids') = m
  BY <1>3, <1>4, <1>5 DEF LeftOutOf
<1>8. \A n \in 1..m : /\ value'[n] = value[IF n < i THEN n ELSE n + 1]
                      /\ ids'[n] = ids[IF n < i THEN n ELSE n + 1]
  BY <1>3, <1>4, <1>5 DEF LeftOutOf
<1>10. len = Len(value)
  OBVIOUS
<1> HIDE DEF len
<1>9. m \in Nat /\ m >= MinRows /\ m <= len
  BY <1>2
<1>11. \A n \in 1..m : (IF n < i THEN n ELSE n + 1) \in 1..len
  BY <1>2
<1> HIDE DEF m
<1>12. \A n \in 1..m : \E k \in 1..len : value'[n] = value[k] /\ ids'[n] = ids[k]
  BY <1>8, <1>11
<1> QED
  BY <1>4, <1>5, <1>6, <1>7, <1>9, <1>10, <1>12, RearrangedKeeps

LEMMA DragRowKeeps ==
  ASSUME RowIInv, DragRow
  PROVE  RowIInv'
<1> DEFINE len == Len(value)
<1>1. RowGround
  BY RowHas
<1>2. PICK i \in 1..len, j \in 1..len : value' = Moved(value, i, j) /\ ids' = Moved(ids, i, j)
  BY DEF DragRow
<1>3. len \in Nat /\ Len(ids) = len /\ len >= MinRows
  BY <1>1 DEF RowGround
<1>4. /\ value' \in Seq(Keys) /\ Len(value') = len
      /\ \A n \in 1..len : value'[n] = value[Was(i, j, n)]
  BY <1>1, <1>2, MovedIs DEF RowGround
<1>5. /\ ids' \in Seq(Keys) /\ Len(ids') = len
      /\ \A n \in 1..len : ids'[n] = ids[Was(i, j, n)]
  BY <1>1, <1>2, <1>3, MovedIs DEF RowGround
<1>6. OnceEach(value') /\ OnceEach(ids')
  BY <1>1, <1>2, <1>3, OnceEachKept DEF RowGround
<1>7. \A n \in 1..len : Was(i, j, n) \in 1..len
  BY <1>3, WasIs
<1>8. \A n \in 1..len : \E k \in 1..len : value'[n] = value[k] /\ ids'[n] = ids[k]
  BY <1>4, <1>5, <1>7
<1>9. /\ UNCHANGED <<editor, nextId, mounted, sent, tags, reseeded>> /\ filled' = filled
      /\ editing' = Unopened /\ draftNew' = "closed"
  BY DEF DragRow, NoFocus
<1>10. len <= Len(value)
  BY <1>3
<1> QED
  BY <1>3, <1>4, <1>5, <1>6, <1>8, <1>9, <1>10, RearrangedKeeps

\* A row opened, typed into and left.
LEMMA EditRowKeeps ==
  ASSUME RowIInv, StartEdit \/ TypeRow \/ CommitEdit \/ RemoveRow
  PROVE  RowIInv'
<1>1. RowGround
  BY RowHas
<1>2. CASE StartEdit
  <2>1. PICK i \in 1..Len(ids) : editing' = [key |-> ids[i], text |-> value[i] \in filled]
    BY <1>2 DEF StartEdit
  <2>2. ids[i] \in Keys
    BY <1>1, <2>1 DEF RowGround
  <2>3. /\ UNCHANGED <<editor, value, filled, ids, nextId, mounted, draftNew, sent, tags, reseeded>>
        /\ draftNew = "closed"
    BY <1>2 DEF StartEdit, NoFocus
  <2>4. RowTypeOK'
    BY <2>1, <2>2, <2>3 DEF RowIInv, RowTypeOK
  <2>5. FocusAgrees'
    BY <2>1, <2>3 DEF FocusAgrees
  <2> QED
    BY <2>3, <2>4, <2>5 DEF RowIInv, RowsKeyed, SentWhole, RowKeepsRequirement, EnoughRows,
                            TagsDiffer, SameTag
<1>3. CASE TypeRow
  <2>1. PICK b \in BOOLEAN : editing' = [editing EXCEPT !.text = b]
    BY <1>3 DEF TypeRow
  <2>2. /\ UNCHANGED <<editor, value, filled, ids, nextId, mounted, draftNew, sent, tags, reseeded>>
        /\ editing # Unopened
    BY <1>3 DEF TypeRow
  <2>3. editing' \in [key : Keys \cup {None}, text : BOOLEAN] /\ editing'.key = editing.key
    BY <2>1 DEF RowIInv, RowTypeOK
  <2>4. RowTypeOK'
    BY <2>2, <2>3 DEF RowIInv, RowTypeOK
  <2>5. FocusAgrees'
    BY <2>2, <2>3 DEF RowIInv, FocusAgrees
  <2> QED
    BY <2>2, <2>4, <2>5 DEF RowIInv, RowsKeyed, SentWhole, RowKeepsRequirement, EnoughRows,
                            TagsDiffer, SameTag
<1>4. CASE CommitEdit
  <2> DEFINE i == At(ids, editing.key)
  <2>1. /\ editing # Unopened /\ editing' = Unopened
        /\ UNCHANGED <<editor, nextId, mounted, draftNew, sent, tags, reseeded>>
    BY <1>4 DEF CommitEdit
  <2>2. draftNew = "closed" /\ i \in 1..Len(value)
    <3>1. draftNew = "closed" /\ \E k \in 1..Len(ids) : ids[k] = editing.key
      BY <2>1 DEF RowIInv, FocusAgrees
    <3> QED
      BY <1>1, <3>1 DEF At, RowGround
  <2>3. ASSUME UNCHANGED <<value, ids>>, filled' \subseteq Keys PROVE RowIInv'
    <3>1. Unopened \in [key : Keys \cup {None}, text : BOOLEAN]
      BY DEF Unopened
    <3>2. RowTypeOK'
      BY <2>1, <2>3, <3>1 DEF RowIInv, RowTypeOK
    <3>3. FocusAgrees'
      BY <2>1, <2>2 DEF FocusAgrees
    <3> QED
      BY <2>1, <2>3, <3>2, <3>3 DEF RowIInv, RowsKeyed, SentWhole, RowKeepsRequirement,
                                    EnoughRows, TagsDiffer, SameTag
  <2>4. filled \subseteq Keys /\ value[i] \in Keys
    BY <1>1, <2>2 DEF RowIInv, RowTypeOK, RowGround
  <2>5. CASE UNCHANGED <<value, ids, filled>>
    BY <2>3, <2>4, <2>5
  <2>6. CASE Emptied(i) /\ TakeOut(i) /\ filled' = filled
    <3>1. CanRemove
      BY <2>6 DEF Emptied
    <3> QED
      BY <2>1, <2>2, <2>6, <3>1, TakeOutKeeps
  <2>7. CASE filled' = filled \cup {value[i]} /\ UNCHANGED <<value, ids>>
    BY <2>3, <2>4, <2>7
  <2> QED
    BY <1>4, <2>5, <2>6, <2>7 DEF CommitEdit
<1>5. CASE RemoveRow
  <2>1. PICK i \in 1..Len(value) : TakeOut(i)
    BY <1>5 DEF RemoveRow
  <2>2. /\ CanRemove /\ editing' = Unopened /\ draftNew' = "closed"
        /\ UNCHANGED <<editor, nextId, mounted, sent, tags, reseeded, filled>>
    BY <1>5 DEF RemoveRow, NoFocus
  <2> QED
    BY <2>1, <2>2, TakeOutKeeps
<1> QED
  BY <1>2, <1>3, <1>4, <1>5

\* A row being added, and a save on its way or refused.
LEMMA NewRowKeeps ==
  ASSUME RowIInv, TypeNew \/ CommitNew
  PROVE  RowIInv'
<1>1. RowGround
  BY RowHas
<1>2. CASE TypeNew
  <2>1. /\ UNCHANGED <<editor, value, filled, ids, nextId, mounted, editing, sent, tags, reseeded>>
        /\ editing = Unopened /\ (draftNew = "closed" => Len(value) < MaxRows)
        /\ draftNew' \in {"empty", "text"}
    BY <1>2 DEF TypeNew
  <2>2. RowTypeOK'
    BY <2>1 DEF RowIInv, RowTypeOK
  <2>3. FocusAgrees'
    BY <2>1 DEF RowIInv, FocusAgrees
  <2> QED
    BY <2>1, <2>2, <2>3 DEF RowIInv, RowsKeyed, SentWhole, RowKeepsRequirement, EnoughRows,
                            TagsDiffer, SameTag
<1>3. CASE CommitNew
  <2>1. /\ draftNew # "closed" /\ draftNew' = "closed"
        /\ UNCHANGED <<editor, editing, sent, tags, reseeded>>
    BY <1>3 DEF CommitNew
  <2>2. editing = Unopened /\ (reseeded \/ Len(value) < MaxRows)
    BY <2>1 DEF RowIInv, FocusAgrees
  <2>3. FocusAgrees'
    BY <2>1, <2>2 DEF FocusAgrees
  <2>4. CASE UNCHANGED <<value, filled, mounted, ids, nextId>>
    <3>1. RowTypeOK'
      BY <2>1, <2>4 DEF RowIInv, RowTypeOK
    <3> QED
      BY <2>1, <2>3, <2>4, <3>1 DEF RowIInv, RowsKeyed, SentWhole, RowKeepsRequirement, EnoughRows,
                                    TagsDiffer, SameTag
  <2>5. ASSUME NEW k \in Fresh, nextId \in Keys,
               value' = Append(value, k), filled' = filled \cup {k},
               mounted' = [mounted EXCEPT ![nextId] = k],
               ids' = Append(ids, nextId), nextId' = nextId + 1
        PROVE  RowIInv'
    <3> DEFINE len == Len(value)
    <3>0. len \in Nat /\ len >= MinRows /\ MinRows \in Nat /\ MaxRows \in Nat
      BY <1>1, RowAssumption DEF RowGround
    <3>1. k \in Keys /\ \A i \in 1..len : value[i] # k
      BY <2>5 DEF Fresh
    <3>2. /\ value' \in Seq(Keys) /\ Len(value') = len + 1 /\ value'[len + 1] = k
          /\ \A i \in 1..len : value'[i] = value[i]
      BY <1>1, <2>5, <3>1, AppendProperties DEF RowGround
    <3>3. /\ ids' \in Seq(Keys) /\ Len(ids') = len + 1 /\ ids'[len + 1] = nextId
          /\ \A i \in 1..len : ids'[i] = ids[i]
      BY <1>1, <2>5, AppendProperties DEF RowGround
    <3>4. nextId \in Nat /\ nextId' \in 1..LastKey + 1 /\ nextId < nextId'
      BY <2>5, RowAssumption DEF Keys
    <3>5. /\ \A i \in 1..len : ids[i] < nextId /\ ids[i] \in Nat
          /\ \A i, j \in 1..len : ids[i] = ids[j] => i = j
          /\ \A i, j \in 1..len : value[i] = value[j] => i = j
      <4>1. \A i \in 1..len : ids[i] \in Keys
        BY <1>1 DEF RowGround
      <4>2. \A i \in 1..len : ids[i] < nextId
        BY <1>1 DEF RowGround
      <4>3. Keys \in SUBSET Nat
        BY DEF Keys
      <4>4. /\ \A i, j \in 1..len : ids[i] = ids[j] => i = j
            /\ \A i, j \in 1..len : value[i] = value[j] => i = j
        BY <1>1 DEF RowGround, OnceEach
      <4> QED
        BY <4>1, <4>2, <4>3, <4>4
    <3>6. reseeded \/ Len(value) <= MaxRows
      BY <1>1 DEF RowGround
    <3>7. len = Len(value)
      OBVIOUS
    <3>8. mounted \in [Keys -> Keys \cup {None}]
      BY DEF RowIInv, RowTypeOK
    <3>9. ~reseeded => \A i \in 1..len : mounted[ids[i]] = value[i]
      BY <1>1 DEF RowGround
    <3>10. reseeded \/ len < MaxRows
      BY <2>2
    <3> HIDE DEF len
    <3>11. \A i \in 1..len + 1 : i \in 1..len \/ i = len + 1
      BY <3>0
    <3>12. OnceEach(value')
      BY <3>1, <3>2, <3>5, <3>11 DEF OnceEach
    <3>13. OnceEach(ids')
      <4>1. \A i \in 1..len : ids[i] # nextId
        BY <3>4, <3>5
      <4> QED
        BY <3>3, <3>5, <3>11, <4>1 DEF OnceEach
    <3>14. reseeded' \/ Len(value') <= MaxRows
      BY <2>1, <3>0, <3>2, <3>10
    <3>15. mounted' \in [Keys -> Keys \cup {None}]
      BY <2>5, <3>1, <3>8
    <3>16. RowTypeOK'
      BY <2>1, <2>5, <3>1, <3>2, <3>3, <3>4, <3>12, <3>13, <3>14, <3>15 DEF RowIInv, RowTypeOK
    <3>17. RowsKeyed'
      <4> SUFFICES ASSUME NEW i \in 1..len + 1 PROVE ids'[i] < nextId'
        BY <3>3 DEF RowsKeyed
      <4>1. CASE i \in 1..len
        BY <3>3, <3>4, <3>5, <4>1
      <4>2. CASE i = len + 1
        BY <3>3, <3>4, <4>2
      <4> QED
        BY <3>11, <4>1, <4>2
    <3>18. RowKeepsRequirement'
      <4> SUFFICES ASSUME ~reseeded, NEW i \in 1..len + 1 PROVE mounted'[ids'[i]] = value'[i]
        BY <2>1, <3>3 DEF RowKeepsRequirement
      <4>1. CASE i \in 1..len
        <5>1. ids[i] # nextId /\ ids[i] \in Keys
          <6>1. ids[i] < nextId /\ ids[i] \in Nat
            BY <3>5, <4>1
          <6>2. ids[i] \in Keys
            BY <1>1, <3>7, <4>1 DEF RowGround
          <6> QED
            BY <3>4, <6>1, <6>2
        <5> QED
          BY <2>5, <3>2, <3>3, <3>8, <3>9, <4>1, <5>1
      <4>2. CASE i = len + 1
        BY <2>5, <3>2, <3>3, <3>8, <4>2
      <4> QED
        BY <3>11, <4>1, <4>2
    <3>19. EnoughRows'
      BY <3>0, <3>2 DEF EnoughRows
    <3> QED
      BY <2>1, <2>3, <3>16, <3>17, <3>18, <3>19 DEF RowIInv, SentWhole, TagsDiffer, SameTag
  <2> QED
    BY <1>3, <2>4, <2>5 DEF CommitNew
<1> QED
  BY <1>2, <1>3

\* What is picked from a list of differing things differs.
LEMMA PickedOnce ==
  ASSUME NEW T, NEW s \in Seq(T), OnceEach(s), NEW S \in SUBSET 1..Len(s)
  PROVE  OnceEach(Picked(s, S))
<1>1. /\ Len(Picked(s, S)) = Cardinality(S)
      /\ \A n \in 1..Cardinality(S) : Nth(S, n) \in S /\ Picked(s, S)[n] = s[Nth(S, n)]
      /\ \A m, n \in 1..Cardinality(S) : m # n => Nth(S, m) # Nth(S, n)
  BY PickedIs
<1> SUFFICES ASSUME NEW m \in 1..Cardinality(S), NEW n \in 1..Cardinality(S),
                    Picked(s, S)[m] = Picked(s, S)[n]
             PROVE  m = n
  BY <1>1 DEF OnceEach
<1>2. Nth(S, m) \in 1..Len(s) /\ Nth(S, n) \in 1..Len(s) /\ s[Nth(S, m)] = s[Nth(S, n)]
  BY <1>1
<1>3. Nth(S, m) = Nth(S, n)
  BY <1>2 DEF OnceEach
<1> QED
  BY <1>1, <1>3

LEMMA SaveKeeps ==
  ASSUME RowIInv, SaveForm \/ SaveRefused
  PROVE  RowIInv'
<1>1. /\ UNCHANGED <<editor, value, filled, ids, nextId, mounted, editing, draftNew, tags, reseeded>>
  BY DEF SaveForm, SaveRefused
<1>2. sent' \in Seq(Keys \cup {None}) /\ SentWhole'
  <2>1. CASE SaveForm
    <3> DEFINE S == {i \in 1..Len(value) : value[i] \in filled}
               full == Picked(value, S)
    <3>1. sent' = full /\ Len(full) >= MinRows
      BY <2>1 DEF SaveForm
    <3>2. value \in Seq(Keys) /\ OnceEach(value)
      BY DEF RowIInv, RowTypeOK
    <3>3. full \in Seq(Keys)
      BY <3>2, PickedIs
    <3>4. OnceEach(full)
      BY <3>2, PickedOnce
    <3> HIDE DEF full
    <3>5. full \in Seq(Keys \cup {None})
      BY <3>3
    <3> QED
      BY <3>1, <3>3, <3>4, <3>5 DEF SentWhole
  <2>2. CASE SaveRefused
    BY <2>2 DEF SaveRefused, SentWhole, NotSent
  <2> QED
    BY <2>1, <2>2
<1>3. RowTypeOK'
  BY <1>1, <1>2 DEF RowIInv, RowTypeOK
<1> QED
  BY <1>1, <1>2, <1>3 DEF RowIInv, RowsKeyed, FocusAgrees, RowKeepsRequirement, EnoughRows,
                          TagsDiffer, SameTag

\* The keys once the list was replaced: cut from the end, or new ones put after them.
LEMMA RekeyedIs ==
  ASSUME RowIInv, SaveAnswered
  PROVE  /\ ids' \in Seq(Keys) /\ Len(ids') = Len(sent) /\ OnceEach(ids')
         /\ nextId' \in 1..LastKey + 1 /\ RowsKeyed'
         /\ mounted' \in [Keys -> Keys \cup {None}]
         /\ sent = value => ids' = ids /\ mounted' = mounted
<1> DEFINE n == Len(ids)
           m == Len(sent)
           extra == m - n
           kept == SubSeq(ids, 1, IF extra > 0 THEN n ELSE m)
           given == IF extra > 0 THEN [i \in 1..extra |-> nextId + i - 1] ELSE <<>>
<1>1. /\ sent # NotSent
      /\ nextId + (IF extra > 0 THEN extra ELSE 0) <= LastKey + 1
      /\ ids' = kept \o given
      /\ nextId' = nextId + (IF extra > 0 THEN extra ELSE 0)
      /\ mounted' = [k \in Keys |-> IF k \in nextId..nextId' - 1
                                      THEN sent[Len(kept) + k - nextId + 1] ELSE mounted[k]]
  BY DEF SaveAnswered
<1>2. RowGround /\ sent \in Seq(Keys) /\ OnceEach(sent)
  BY <1>1, RowHas DEF RowIInv, SentWhole
<1>3. n \in Nat /\ m \in Nat /\ n = Len(value)
  BY <1>2, LenProperties DEF RowGround
<1>4. nextId \in Nat /\ nextId >= 1 /\ LastKey \in Nat
  BY RowAssumption DEF RowIInv, RowTypeOK
<1>5. /\ \A i \in 1..n : ids[i] \in Keys /\ ids[i] < nextId /\ ids[i] \in Nat
      /\ \A i, j \in 1..n : ids[i] = ids[j] => i = j
  <2>1. \A i \in 1..n : ids[i] \in Keys
    BY <1>2 DEF RowGround
  <2> QED
    BY <1>2, <1>3, <2>1 DEF RowGround, OnceEach, Keys
<1>6. \A i \in 1..m : sent[i] \in Keys
  BY <1>2
<1>7. mounted \in [Keys -> Keys \cup {None}]
  BY DEF RowIInv, RowTypeOK
<1>8. ids \in Seq(Keys)
  BY <1>2 DEF RowGround
<1>9. sent = value => m = n
  BY <1>3
<1> HIDE DEF n, m
<1>10. CASE extra > 0
  <2>1. kept \in Seq(Keys) /\ Len(kept) = n /\ kept = ids
    <3>1. SubSeq(ids, 1, n) = ids
      BY <1>8, SubSeqFull DEF n
    <3> QED
      BY <1>8, <1>10, <3>1 DEF n
  <2>2. given = [i \in 1..extra |-> nextId + i - 1]
    BY <1>10
  <2>3. extra \in Nat /\ extra > 0 /\ n + extra = m
    BY <1>3, <1>10
  <2>4. nextId' = nextId + extra /\ nextId + extra <= LastKey + 1
    BY <1>1, <1>10
  <2> HIDE DEF extra, kept, given
  <2>5. \A i \in 1..extra : nextId + i - 1 \in Keys
    BY <1>4, <2>3, <2>4 DEF Keys
  <2>6. given \in [1..extra -> Keys]
    BY <2>2, <2>5
  <2>7. given \in Seq(Keys) /\ Len(given) = extra
    BY <2>3, <2>6
  <2>8. /\ ids' \in Seq(Keys) /\ Len(ids') = n + extra
        /\ \A i \in 1..n + extra : ids'[i] = IF i <= n THEN kept[i] ELSE given[i - n]
    <3>1. /\ ids' \in Seq(Keys) /\ Len(ids') = Len(kept) + Len(given)
          /\ \A i \in 1..Len(kept) + Len(given) :
               ids'[i] = IF i <= Len(kept) THEN kept[i] ELSE given[i - Len(kept)]
      BY <1>1, <2>1, <2>7, ConcatProperties
    <3> QED
      BY <2>1, <2>7, <3>1
  <2>9. /\ \A i \in 1..n : ids'[i] = ids[i]
        /\ \A i \in n + 1..m : ids'[i] = nextId + (i - n) - 1
    <3>1. ASSUME NEW i \in 1..n PROVE ids'[i] = ids[i]
      <4>1. i \in 1..n + extra /\ i <= n
        BY <1>3, <2>3
      <4> QED
        BY <2>1, <2>8, <4>1
    <3>2. ASSUME NEW i \in n + 1..m PROVE ids'[i] = nextId + (i - n) - 1
      <4>1. i \in 1..n + extra /\ ~(i <= n) /\ i - n \in 1..extra
        BY <1>3, <2>3
      <4>2. ids'[i] = given[i - n]
        BY <2>8, <4>1
      <4> QED
        BY <2>2, <4>1, <4>2
    <3> QED
      BY <3>1, <3>2
  <2>10. \A i \in 1..m : i \in 1..n \/ i \in n + 1..m
    BY <1>3
  <2>11. Len(ids') = m
    BY <2>3, <2>8
  <2>12. OnceEach(ids')
    <3> SUFFICES ASSUME NEW i \in 1..m, NEW j \in 1..m, ids'[i] = ids'[j] PROVE i = j
      BY <2>11 DEF OnceEach
    <3>1. CASE i \in 1..n /\ j \in 1..n
      BY <1>5, <2>9, <3>1
    <3>2. CASE i \in 1..n /\ j \in n + 1..m
      <4>1. ids[i] = nextId + (j - n) - 1 /\ ids[i] < nextId /\ ids[i] \in Nat
        BY <1>5, <2>9, <3>2
      <4> QED
        BY <1>3, <1>4, <3>2, <4>1
    <3>3. CASE i \in n + 1..m /\ j \in 1..n
      <4>1. ids[j] = nextId + (i - n) - 1 /\ ids[j] < nextId /\ ids[j] \in Nat
        BY <1>5, <2>9, <3>3
      <4> QED
        BY <1>3, <1>4, <3>3, <4>1
    <3>4. CASE i \in n + 1..m /\ j \in n + 1..m
      <4>1. nextId + (i - n) - 1 = nextId + (j - n) - 1
        BY <2>9, <3>4
      <4> QED
        BY <1>3, <1>4, <3>4, <4>1
    <3> QED
      BY <2>10, <3>1, <3>2, <3>3, <3>4
  <2>13. RowsKeyed'
    <3> SUFFICES ASSUME NEW i \in 1..m PROVE ids'[i] < nextId'
      BY <2>11 DEF RowsKeyed
    <3>1. CASE i \in 1..n
      <4>1. ids'[i] = ids[i] /\ ids[i] < nextId /\ ids[i] \in Nat
        BY <1>5, <2>9, <3>1
      <4> QED
        BY <1>4, <2>3, <2>4, <4>1
    <3>2. CASE i \in n + 1..m
      BY <1>3, <1>4, <2>3, <2>4, <2>9, <3>2
    <3> QED
      BY <2>10, <3>1, <3>2
  <2>14. mounted' \in [Keys -> Keys \cup {None}]
    <3>1. ASSUME NEW k \in Keys, k \in nextId..nextId' - 1
          PROVE  sent[Len(kept) + k - nextId + 1] \in Keys
      <4>1. n + k - nextId + 1 \in 1..m
        BY <1>3, <1>4, <2>3, <2>4, <3>1
      <4> QED
        BY <1>6, <2>1, <4>1
    <3> QED
      BY <1>1, <1>7, <3>1
  <2>15. sent # value
    BY <1>3, <1>9, <2>3
  <2>16. nextId' \in 1..LastKey + 1
    BY <1>4, <2>3, <2>4
  <2> QED
    BY <2>8, <2>11, <2>12, <2>13, <2>14, <2>15, <2>16 DEF m
<1>11. CASE ~(extra > 0)
  <2>1. given = <<>> /\ kept = SubSeq(ids, 1, m)
    BY <1>11
  <2>2. m <= n /\ nextId' = nextId
    BY <1>1, <1>3, <1>4, <1>11
  <2> HIDE DEF extra, given
  <2>3. m \in 0..n
    BY <1>3, <2>2
  <2>4. ids \in [1..n -> Keys] /\ n = Len(ids)
    BY <1>8 DEF n
  <2>5. kept \in Seq(Keys) /\ Len(kept) = m /\ \A i \in 1..m : kept[i] = ids[i]
    <3>1. /\ SubSeq(ids, 1, m) \in Seq(Keys) /\ Len(SubSeq(ids, 1, m)) = m
          /\ \A i \in 1..m : SubSeq(ids, 1, m)[i] = ids[i]
      BY <1>3, <1>8, <2>3, <2>4, SubSeqProperties
    <3> QED
      BY <2>1, <3>1
  <2> HIDE DEF kept
  <2>6. ids' = kept
    BY <1>1, <2>1, <2>5, ConcatEmptySeq
  <2>7. \A i \in 1..m : i \in 1..n
    BY <1>3, <2>2
  <2>8. OnceEach(ids')
    BY <1>5, <2>5, <2>6, <2>7 DEF OnceEach
  <2>9. RowsKeyed'
    BY <1>5, <2>2, <2>5, <2>6, <2>7 DEF RowsKeyed
  <2>10. mounted' = mounted
    <3>1. nextId..nextId' - 1 = {}
      BY <1>4, <2>2
    <3>2. mounted' = [k \in Keys |-> mounted[k]]
      BY <1>1, <3>1
    <3> QED
      BY <1>7, <3>2
  <2>11. sent = value => ids' = ids
    <3> SUFFICES ASSUME sent = value PROVE kept = ids
      BY <2>6
    <3>1. m = n
      BY <1>9
    <3> QED
      BY <1>8, <2>4, <2>5, <3>1, SeqEqual
  <2>12. nextId' \in 1..LastKey + 1
    BY <2>2 DEF RowIInv, RowTypeOK
  <2> QED
    BY <1>7, <2>5, <2>6, <2>8, <2>9, <2>10, <2>11, <2>12 DEF m
<1> QED
  BY <1>10, <1>11

\* The answer of a save replaces the list.
LEMMA SavedKeeps ==
  ASSUME RowIInv, SaveAnswered
  PROVE  RowIInv'
<1>1. /\ sent # NotSent /\ value' = sent /\ sent' = NotSent
      /\ reseeded' = (reseeded \/ sent # value)
      /\ editing' = IF \E i \in 1..Len(ids') : ids'[i] = editing.key THEN editing ELSE Unopened
      /\ UNCHANGED <<editor, filled, draftNew, tags>>
  BY DEF SaveAnswered
<1>2. RowGround /\ sent \in Seq(Keys) /\ OnceEach(sent) /\ Len(sent) >= MinRows
  BY <1>1, RowHas DEF RowIInv, SentWhole
<1>3. /\ ids' \in Seq(Keys) /\ Len(ids') = Len(sent) /\ OnceEach(ids')
      /\ nextId' \in 1..LastKey + 1 /\ RowsKeyed'
      /\ mounted' \in [Keys -> Keys \cup {None}]
      /\ sent = value => ids' = ids /\ mounted' = mounted
  BY RekeyedIs
<1>4. reseeded \in BOOLEAN /\ reseeded' \in BOOLEAN
  BY <1>1 DEF RowIInv, RowTypeOK
<1>5. ~reseeded' => ~reseeded /\ sent = value
  BY <1>1, <1>4
<1>6. reseeded' \/ Len(value') <= MaxRows
  BY <1>1, <1>2, <1>5 DEF RowGround
<1>7. editing' \in {editing, Unopened} /\ Unopened \in [key : Keys \cup {None}, text : BOOLEAN]
  BY <1>1 DEF Unopened
<1>8. sent' \in Seq(Keys \cup {None})
  BY <1>1 DEF NotSent
<1>9. RowTypeOK'
  BY <1>1, <1>2, <1>3, <1>4, <1>6, <1>7, <1>8 DEF RowIInv, RowTypeOK
<1>10. FocusAgrees'
  <2>1. editing' = Unopened \/ \E i \in 1..Len(ids') : ids'[i] = editing'.key
    BY <1>1
  <2>2. ASSUME draftNew # "closed" PROVE editing' = Unopened /\ (reseeded' \/ Len(value') < MaxRows)
    <3>1. editing = Unopened /\ (reseeded \/ Len(value) < MaxRows)
      BY <2>2 DEF RowIInv, FocusAgrees
    <3>2. editing' = Unopened
      BY <1>7, <3>1
    <3> QED
      BY <1>1, <1>5, <3>1, <3>2
  <2> QED
    BY <1>1, <2>1, <2>2 DEF FocusAgrees
<1>11. RowKeepsRequirement'
  BY <1>1, <1>3, <1>5 DEF RowIInv, RowKeepsRequirement
<1>12. SentWhole' /\ EnoughRows'
  BY <1>1, <1>2 DEF SentWhole, EnoughRows
<1>13. TagsDiffer'
  BY <1>1 DEF RowIInv, TagsDiffer, SameTag
<1> QED
  BY <1>3, <1>9, <1>10, <1>11, <1>12, <1>13 DEF RowIInv

\* A list of tags that the input may hold.
TagsFine(s) ==
  /\ s \in Seq(Tags) /\ Len(s) <= MaxTags
  /\ \A i, j \in 1..Len(s) : SameTag(s[i], s[j]) => i = j

\* A list whose tags are those of one, each from a place of its own, is no worse.
LEMMA FineStill ==
  ASSUME NEW s, TagsFine(s), NEW t \in Seq(Tags), Len(t) <= MaxTags,
         NEW from, \A n \in 1..Len(t) : from[n] \in 1..Len(s) /\ t[n] = s[from[n]],
         \A m, n \in 1..Len(t) : from[m] = from[n] => m = n
  PROVE  TagsFine(t)
<1>1. ASSUME NEW m \in 1..Len(t), NEW n \in 1..Len(t), SameTag(t[m], t[n])
      PROVE  m = n
  <2>1. from[m] \in 1..Len(s) /\ from[n] \in 1..Len(s) /\ SameTag(s[from[m]], s[from[n]])
    BY <1>1
  <2>2. from[m] = from[n]
    BY <2>1 DEF TagsFine
  <2> QED
    BY <2>2
<1> QED
  BY <1>1 DEF TagsFine

LEMMA TagsKeep ==
  ASSUME RowIInv, TagsInput \/ TagsReseeded
  PROVE  RowIInv'
<1> DEFINE len == Len(tags)
<1>0. tags \in Seq(Tags) /\ len <= MaxTags /\ TagsFine(tags) /\ MaxTags \in Nat
  BY RowAssumption DEF RowIInv, RowTypeOK, TagsDiffer, TagsFine
<1>1. len \in Nat
  BY <1>0, LenProperties
<1>2. UNCHANGED <<editor, value, filled, ids, nextId, mounted, editing, draftNew, sent, reseeded>>
  BY DEF TagsInput, TagsReseeded
<1>3. ASSUME NEW t \in Tags, ~HasTag(t), len < MaxTags
      PROVE  TagsFine(Append(tags, t))
  <2> DEFINE u == Append(tags, t)
  <2>1. /\ u \in Seq(Tags) /\ Len(u) = len + 1 /\ u[len + 1] = t
        /\ \A i \in 1..len : u[i] = tags[i]
    BY <1>0, AppendProperties
  <2>2. \A i \in 1..len : ~SameTag(tags[i], t)
    BY <1>3 DEF HasTag
  <2>3. \A i, j \in 1..len : SameTag(tags[i], tags[j]) => i = j
    BY <1>0 DEF TagsFine
  <2> HIDE DEF u, len
  <2>4. \A i \in 1..len + 1 : i \in 1..len \/ i = len + 1
    BY <1>1
  <2>5. \A i, j \in 1..len + 1 : SameTag(u[i], u[j]) => i = j
    BY <2>1, <2>2, <2>3, <2>4 DEF SameTag
  <2>6. len + 1 <= MaxTags
    BY <1>0, <1>1, <1>3
  <2> QED
    BY <2>1, <2>5, <2>6 DEF TagsFine, u
<1>4. ASSUME NEW i \in 1..len, NEW t \in Tags, Editable(t, i)
      PROVE  TagsFine([tags EXCEPT ![i] = t])
  <2> DEFINE u == [tags EXCEPT ![i] = t]
  <2>1. u \in Seq(Tags) /\ Len(u) = len /\ \A j \in 1..len : u[j] = IF j = i THEN t ELSE tags[j]
    BY <1>0, ExceptSeq
  <2>2. \A j \in 1..len : SameTag(tags[j], t) => j = i
    BY <1>4 DEF Editable
  <2>3. \A j, k \in 1..len : SameTag(tags[j], tags[k]) => j = k
    BY <1>0 DEF TagsFine
  <2> HIDE DEF u, len
  <2>4. \A j, k \in 1..len : SameTag(u[j], u[k]) => j = k
    BY <2>1, <2>2, <2>3 DEF SameTag
  <2> QED
    BY <1>0, <2>1, <2>4 DEF TagsFine, u
<1>5. ASSUME NEW i \in 1..len
      PROVE  TagsFine(LeftOut(tags, i))
  <2> DEFINE u == LeftOut(tags, i)
             from == [n \in 1..len - 1 |-> IF n < i THEN n ELSE n + 1]
  <2>1. u \in Seq(Tags) /\ Len(u) = len - 1 /\ \A n \in 1..len - 1 : u[n] = tags[from[n]]
    BY <1>0, LeftOutIs DEF LeftOutOf
  <2> HIDE DEF u, len
  <2>2. len - 1 <= MaxTags /\ \A n \in 1..len - 1 : from[n] \in 1..len
    BY <1>0, <1>1
  <2>3. \A m, n \in 1..len - 1 : from[m] = from[n] => m = n
    BY <1>1
  <2> HIDE DEF from
  <2>4. \A n \in 1..Len(u) : from[n] \in 1..Len(tags) /\ u[n] = tags[from[n]]
    BY <2>1, <2>2 DEF len
  <2>5. \A m, n \in 1..Len(u) : from[m] = from[n] => m = n
    BY <2>1, <2>3
  <2>6. Len(u) <= MaxTags
    BY <2>1, <2>2
  <2>7. TagsFine(u)
    BY <1>0, <2>1, <2>4, <2>5, <2>6, FineStill
  <2> QED
    BY <2>7 DEF u
<1>6. ASSUME NEW i \in 1..len, NEW j \in 1..len
      PROVE  TagsFine(Moved(tags, i, j))
  <2> DEFINE u == Moved(tags, i, j)
             from == [n \in 1..len |-> Was(i, j, n)]
  <2>1. u \in Seq(Tags) /\ Len(u) = len /\ \A n \in 1..len : u[n] = tags[from[n]]
    BY <1>0, MovedIs
  <2> HIDE DEF u, len
  <2>2. /\ \A n \in 1..len : from[n] \in 1..len
        /\ \A m, n \in 1..len : from[m] = from[n] => m = n
    <3>1. \A n \in 1..len : Was(i, j, n) \in 1..len
      BY <1>1, WasIs
    <3>2. \A m, n \in 1..len : Was(i, j, m) = Was(i, j, n) => m = n
      BY <1>1, WasIs
    <3>3. \A n \in 1..len : from[n] = Was(i, j, n)
      OBVIOUS
    <3> HIDE DEF from
    <3> QED
      BY <3>1, <3>2, <3>3
  <2> HIDE DEF from
  <2> QED
    BY <1>0, <2>1, <2>2, FineStill DEF u, len
<1>7. ASSUME NEW n \in 0..MaxTags, NEW s \in [1..n -> Tags]
      PROVE  TagsFine(Unique(s))
  <2> DEFINE S == {i \in 1..Len(s) : \A j \in 1..i - 1 : ~SameTag(s[j], s[i])}
             c == Cardinality(S)
             u == Picked(s, S)
  <2>1. s \in Seq(Tags) /\ Len(s) = n /\ n \in Nat
    BY <1>0
  <2>2. /\ u \in Seq(Tags) /\ Len(u) = c /\ c \in Nat /\ c <= n
        /\ \A k \in 1..c : Nth(S, k) \in S /\ u[k] = s[Nth(S, k)]
        /\ \A k, m \in 1..c : k # m => Nth(S, k) # Nth(S, m)
    <3>1. S \in SUBSET 1..Len(s)
      OBVIOUS
    <3> HIDE DEF S
    <3>2. u \in Seq(Tags) /\ Len(u) = c /\ c \in Nat /\ c <= Len(s)
      BY <2>1, <3>1, PickedIs
    <3>3. \A k \in 1..c : Nth(S, k) \in S /\ u[k] = s[Nth(S, k)]
      BY <2>1, <3>1, PickedIs
    <3>4. \A k, m \in 1..c : k # m => Nth(S, k) # Nth(S, m)
      BY <2>1, <3>1, PickedIs
    <3> HIDE DEF u, c
    <3> QED
      BY <2>1, <3>2, <3>3, <3>4
  <2>3. c <= MaxTags
    BY <1>0, <2>1, <2>2
  <2>4. ASSUME NEW a \in S, NEW b \in S, SameTag(s[a], s[b])
        PROVE  a = b
    <3>1. a \in Nat /\ b \in Nat /\ a >= 1 /\ b >= 1
      BY <2>1
    <3>2. ~(a \in 1..b - 1)
      BY <2>4
    <3>3. ~(b \in 1..a - 1)
      BY <2>4 DEF SameTag
    <3> HIDE DEF S
    <3> QED
      BY <3>1, <3>2, <3>3
  <2> HIDE DEF S, c, u
  <2>5. \A k, m \in 1..c : SameTag(u[k], u[m]) => k = m
    BY <2>2, <2>4
  <2>6. Unique(s) = u
    BY DEF Unique, u, S
  <2> QED
    BY <2>2, <2>3, <2>5, <2>6 DEF TagsFine
<1>8. TagsFine(tags')
  <2>1. CASE TagsReseeded
    BY <1>7, <2>1 DEF TagsReseeded
  <2>2. CASE TagsInput
    BY <1>3, <1>4, <1>5, <1>6, <2>2 DEF TagsInput
  <2> QED
    BY <2>1, <2>2
<1>9. RowTypeOK' /\ TagsDiffer'
  BY <1>2, <1>8 DEF RowIInv, RowTypeOK, TagsDiffer, TagsFine, SameTag
<1> QED
  BY <1>2, <1>9 DEF RowIInv, RowsKeyed, FocusAgrees, SentWhole, RowKeepsRequirement, EnoughRows

LEMMA RowStarts == RowInit => RowIInv
<1> SUFFICES ASSUME RowInit PROVE RowIInv
  OBVIOUS
<1>1. MinRows \in Nat \ {0} /\ MaxRows \in Nat /\ MinRows <= MaxRows /\ LastKey \in Nat
      /\ MinRows <= LastKey /\ MaxTags \in Nat
  BY RowAssumption
<1> DEFINE first == [i \in 1..MinRows |-> i]
<1>2. \A i \in 1..MinRows : i \in Keys
  BY <1>1 DEF Keys
<1>3. first \in Seq(Keys) /\ Len(first) = MinRows /\ OnceEach(first)
  <2>1. first \in [1..MinRows -> Keys]
    BY <1>2
  <2>2. first \in Seq(Keys) /\ Len(first) = MinRows
    BY <1>1, <2>1
  <2>3. \A i \in 1..MinRows : first[i] = i
    OBVIOUS
  <2> HIDE DEF first
  <2> QED
    BY <2>2, <2>3 DEF OnceEach
<1>4. \A i \in 1..MinRows : first[i] = i
  OBVIOUS
<1>5. /\ value = first /\ ids = first /\ nextId = MinRows + 1 /\ editing = Unopened
      /\ draftNew = "closed" /\ sent = NotSent /\ tags = <<>> /\ reseeded = FALSE
      /\ mounted = [k \in Keys |-> IF k <= MinRows THEN k ELSE None]
      /\ filled \in {{}, 1..MinRows} /\ editor \in {"requirements", "tags"}
  BY DEF RowInit
<1> HIDE DEF first
<1>6. nextId \in 1..LastKey + 1
  BY <1>1, <1>5
<1>7. mounted \in [Keys -> Keys \cup {None}]
  BY <1>5
<1>8. Unopened \in [key : Keys \cup {None}, text : BOOLEAN] /\ NotSent \in Seq(Keys \cup {None})
  BY DEF Unopened, NotSent
<1>9. tags \in Seq(Tags) /\ Len(tags) = 0
  BY <1>5
<1>10. RowTypeOK
  <2>1. Len(value) <= MaxRows /\ Len(tags) <= MaxTags
    BY <1>1, <1>3, <1>5, <1>9
  <2>2. filled \subseteq Keys
    BY <1>2, <1>5
  <2>3. /\ value \in Seq(Keys) /\ OnceEach(value) /\ ids \in Seq(Keys) /\ Len(ids) = Len(value)
        /\ OnceEach(ids)
    BY <1>3, <1>5
  <2> QED
    BY <1>5, <1>6, <1>7, <1>8, <1>9, <2>1, <2>2, <2>3 DEF RowTypeOK
<1>11. RowsKeyed
  BY <1>1, <1>3, <1>4, <1>5 DEF RowsKeyed
<1>12. RowKeepsRequirement
  BY <1>1, <1>2, <1>3, <1>4, <1>5 DEF RowKeepsRequirement
<1>13. EnoughRows
  BY <1>1, <1>3, <1>5 DEF EnoughRows
<1> QED
  BY <1>5, <1>9, <1>10, <1>11, <1>12, <1>13 DEF RowIInv, FocusAgrees, SentWhole, TagsDiffer

LEMMA RowMoves == RowIInv /\ [RowNext]_rowVars => RowIInv'
<1> SUFFICES ASSUME RowIInv, [RowNext]_rowVars PROVE RowIInv'
  OBVIOUS
<1>1. CASE UNCHANGED rowVars
  BY <1>1 DEF rowVars, RowIInv, RowTypeOK, RowsKeyed, FocusAgrees, SentWhole,
              RowKeepsRequirement, EnoughRows, TagsDiffer, SameTag
<1> QED
  BY <1>1, EditRowKeeps, DragRowKeeps, NewRowKeeps, SaveKeeps, SavedKeeps, TagsKeep DEF RowNext

\* The invariant of the rows and of the tags, over every behaviour.
THEOREM RowInductive == RowSpec => []RowIInv
BY RowStarts, RowMoves, PTL DEF RowSpec
=================================================================================
