------------------------------- MODULE MCScreens -------------------------------
(***************************************************************************)
(* The screens and inputs of the frontend, one of them at a time: each     *)
(* keeps its state in its own component, made when it opens and dropped    *)
(* when it closes, and they share nothing but the server, whose part each  *)
(* module has.  A behaviour is one of the screen it starts on.             *)
(***************************************************************************)
EXTENDS InfiniteList, Forms, Kanban, Triage, Panes, Wizard, Filters, RowEditor, Links

VARIABLE screen

Screens == {"list", "form", "kanban", "triage", "pane", "wizard", "filters", "rows", "link"}

TwoCards == <<1, 2>>

\* One job that no other one meets, one that a range may cut from either side, two that share
\* an end of their range; one above the slider's end while no job is loaded.
SomeJobs ==
  << [lo |-> 1, hi |-> 3, place |-> "a", company |-> "x", text |-> "word"],
     [lo |-> 5, hi |-> 5, place |-> "b", company |-> "y", text |-> "other"],
     [lo |-> 2, hi |-> 6, place |-> "a", company |-> "x", text |-> "other"],
     [lo |-> 6, hi |-> 7, place |-> "b", company |-> "y", text |-> "word"],
     [lo |-> 12, hi |-> 12, place |-> "b", company |-> "x", text |-> "word"] >>

SomeTags == {"a", "A", "b"}
FoldTags == [t \in SomeTags |-> IF t = "A" THEN "a" ELSE t]

----------------------------------------------------------------------------
\* A screen that is not the behaviour's own stays in one of its initial states.
ScreensInit ==
  /\ screen \in Screens
  /\ ListInit /\ (screen # "list" => page = JobBoard /\ row[1] = "absent")
  /\ FormInit /\ (screen # "form" => form = JobDialog)
  /\ PaneInit /\ (screen # "pane" => pane = JobRecord /\ \A x \in Things : version[x] = 0)
  /\ WizardInit /\ (screen # "wizard" => wizard = "register")
  /\ FilterInit /\ (screen # "filters" => filtering = "field" /\ range = <<0, FieldTop>>)
  /\ RowInit /\ (screen # "rows" => editor = "tags" /\ filled = {})
  /\ LinkInit /\ (screen # "link" => link = "reset")
  /\ KanbanInit /\ TriageInit

On(s) ==
  /\ screen = s
  /\ UNCHANGED screen
  /\ IF s = "list" THEN TRUE ELSE UNCHANGED listVars
  /\ IF s = "form" THEN TRUE ELSE UNCHANGED formVars
  /\ IF s = "kanban" THEN TRUE ELSE UNCHANGED kanbanVars
  /\ IF s = "triage" THEN TRUE ELSE UNCHANGED triageVars
  /\ IF s = "pane" THEN TRUE ELSE UNCHANGED paneVars
  /\ IF s = "wizard" THEN TRUE ELSE UNCHANGED wizardVars
  /\ IF s = "filters" THEN TRUE ELSE UNCHANGED filterVars
  /\ IF s = "rows" THEN TRUE ELSE UNCHANGED rowVars
  /\ IF s = "link" THEN TRUE ELSE UNCHANGED linkVars

ScreensNext ==
  \/ On("list") /\ ListNext
  \/ On("form") /\ FormNext
  \/ On("kanban") /\ KanbanNext
  \/ On("triage") /\ TriageNext
  \/ On("pane") /\ PaneNext
  \/ On("wizard") /\ WizardNext
  \/ On("filters") /\ FilterNext
  \/ On("rows") /\ RowNext
  \/ On("link") /\ LinkNext

screenVars == <<screen, listVars, formVars, kanbanVars, triageVars, paneVars, wizardVars,
                filterVars, rowVars, linkVars>>

\* What a state of a behaviour is told apart by: the others' variables do not change in it.
OwnState ==
  <<screen,
    CASE screen = "list" -> listVars [] screen = "form" -> formVars
      [] screen = "kanban" -> kanbanVars [] screen = "triage" -> triageVars
      [] screen = "pane" -> paneVars [] screen = "wizard" -> wizardVars
      [] screen = "filters" -> filterVars [] screen = "rows" -> rowVars
      [] screen = "link" -> linkVars>>

ScreensSpec == ScreensInit /\ [][ScreensNext]_screenVars

----------------------------------------------------------------------------
(* Properties: what the screens have in common, and what one of them promises.  The parts *)
(* are stated, each with its reasons and its exceptions, in the screens' modules.         *)

\* Every variable has its type, and what the types relate agrees.
ScreensTypeOK ==
  /\ screen \in Screens
  /\ ListTypeOK /\ FormTypeOK /\ KanbanTypeOK /\ TriageTypeOK /\ PaneTypeOK
  /\ WizardTypeOK /\ FilterTypeOK /\ RowTypeOK /\ LinkTypeOK

\* A screen that shows it is waiting (a skeleton, a spinner, a disabled button) has a
\* request under way whose answer will end the wait.
WaitingHasCause == LoadingHasFetch /\ SavingHasCall /\ LoadingHasRead

\* What a screen tells of a request is what became of it: no success of what was not done, no
\* failure of what was done unless its answer was lost, and no silence.
ToldTrue == VerdictTrue /\ RefusalSeen /\ OutcomeTrue /\ InvalidIsDead /\ OwnDeedTold

\* What a form or a wizard sends is what its user put in for this subject, has passed the
\* checks of every step, and if it may be sent once is sent once.
SentRight == SendsOwnDraft /\ StepsBehindPass /\ SubmittedRight /\ CreatedOnce /\ DeletedOnce

\* A list shows every row once, and when nothing is under way it shows what the server holds.
ListSound == RowsOnce /\ ListTruthful

\* The board shows every card once, in the column the server has it in, in the order it
\* will have when it is opened again; the deck's verdicts are the server's, an undo takes
\* back its own verdict, and a swipe lands where it was sent.
CardsSound ==
  /\ BoardWhole /\ BoardTruthful /\ ReopenSame
  /\ TriageTruthful /\ UndoAims /\ LandsWhereAsked

\* A pane shows the subject chosen last, says that there is nothing only when that is so,
\* and shows what its own user has changed.
PaneSound == ShowsItsSubject /\ NoRowsIsTrue /\ ShowsOwnEdits

\* The filters keep their range in order, hide only what they were asked to hide, and come
\* back the same from the address; a company's choice keeps no other company's job.  A row
\* of the editor stays with its requirement, a job keeps the requirements it must have, and
\* tags stay apart.
InputsSound ==
  /\ RangeOrdered /\ HiddenOutsideAsked /\ UrlReopensSame /\ JobsOfCompanies
  /\ RowKeepsRequirement /\ EnoughRows /\ TagsDiffer

============================================================================
