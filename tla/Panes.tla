--------------------------------- MODULE Panes ---------------------------------
(***************************************************************************)
(* The panes, panels and cards of the frontend that read one thing from    *)
(* the server: the record on the right of a list, the timeline of an       *)
(* application, the statistics of a dashboard.  The subject of a pane      *)
(* changes while its answers are on their way, the list beside it brings   *)
(* and takes the row it shows, and the user edits what it shows.  pane is  *)
(* one of the components, described by how it answers to each.             *)
(***************************************************************************)
EXTENDS Naturals, FiniteSets

CONSTANTS
  LastThing,   \* rows, jobs, companies or candidates a pane may be about
  MaxReads,    \* bound: reads in flight
  MaxVersion   \* bound: versions of a thing

ASSUME PaneAssumption ==
  LastThing \in Nat \ {0} /\ MaxReads \in Nat \ {0} /\ MaxVersion \in Nat \ {0}

Things == 1..LastThing
Reads == 1..MaxReads
Edits == 1..2
Versions == 0..MaxVersion   \* 0: there is nothing to list
Nothing == 0                \* no subject: the pane is closed

(* A pane: many, its subject may change; clears, the change empties it; fails, what *)
(* a failed read looks like: an error ("told"), no rows ("empty"), a read that goes *)
(* on ("waits") or no pane at all ("hides"); edits, what becomes of it after what   *)
(* the user did here: it reads again ("refetch"), takes the answer ("applied"),     *)
(* takes the row of the list ("listed"), does nothing ("stale"), or nothing can be  *)
(* done here ("none").                                                              *)
Pane(many, clears, fails, edits) ==
  [many |-> many, clears |-> clears, fails |-> fails, edits |-> edits,
   sticks |-> FALSE, capped |-> FALSE, shared |-> FALSE, split |-> FALSE]

\* Its error is never taken back.
Sticks(p) == [p EXCEPT !.sticks = TRUE]
\* It looks for its rows in the first hundred of everyone's.
Capped(p) == [p EXCEPT !.capped = TRUE]
\* It joins the read that another pane has in flight.
Shared(p) == [p EXCEPT !.shared = TRUE]
\* Its sections save on their own, and each takes the whole answer.
Split(p) == [p EXCEPT !.split = TRUE]

----------------------------------------------------------------------------
(* The components. *)

JobRecord == Pane(TRUE, TRUE, "told", "listed")
ApplicationRecord == Pane(TRUE, TRUE, "told", "listed")
CandidateRecord == Pane(TRUE, TRUE, "told", "none")
CompanyRecord == Pane(TRUE, TRUE, "told", "stale")
CompanyDetail == Capped(Pane(TRUE, TRUE, "told", "none"))
CompanyDetailInline == Capped(Pane(TRUE, TRUE, "told", "none"))
CompanyJobsPanel == Capped(Pane(TRUE, TRUE, "told", "none"))
CandidateApplications == Pane(TRUE, TRUE, "told", "stale")
CandidateMatches == Pane(TRUE, TRUE, "told", "stale")
CandidateActivity == Pane(TRUE, TRUE, "told", "none")
ApplicationActivity == Pane(TRUE, TRUE, "told", "stale")
JobApplicants == Pane(TRUE, TRUE, "told", "none")
JobMatches == Pane(TRUE, TRUE, "told", "none")
EditFormCount == Pane(TRUE, FALSE, "waits", "none")
CompanyChoices == Pane(FALSE, TRUE, "told", "none")
FilterNames == Pane(FALSE, TRUE, "waits", "none")
Recommendations == Pane(TRUE, FALSE, "empty", "none")
ResumePreview == Pane(TRUE, FALSE, "told", "none")
MatchFeed == Pane(FALSE, TRUE, "told", "none")
HotApplications == Pane(FALSE, TRUE, "told", "none")
Overview == Shared(Pane(FALSE, TRUE, "waits", "stale"))
Stats == Overview
Trend == Overview
TopJobs == Overview
Inbox == Overview
RecentFeed == Overview
Badges == Overview
TabCounts == Overview
CompanyCounts == Overview
CandidateHome == Pane(FALSE, TRUE, "empty", "none")
ApplicationCount == CandidateHome
RecentApplications == CandidateHome
ProfileStrip == Split(Pane(FALSE, TRUE, "waits", "applied"))
CompanyHome == Pane(FALSE, TRUE, "hides", "none")
CompanyStatsRow == Pane(FALSE, TRUE, "waits", "stale")
KanbanHeader == Sticks(Pane(TRUE, FALSE, "told", "none"))
EditedJob == Sticks(Pane(TRUE, FALSE, "told", "none"))
CandidateProfile == Split(Pane(FALSE, TRUE, "told", "applied"))
CompanyProfile == Pane(FALSE, TRUE, "told", "applied")
OwnApplication == Sticks(Pane(TRUE, TRUE, "told", "applied"))
OwnApplications == Pane(FALSE, TRUE, "told", "none")
OwnSessions == Pane(FALSE, TRUE, "empty", "refetch")
PublicJob == Pane(TRUE, TRUE, "told", "none")
LandingJobs == Pane(FALSE, TRUE, "hides", "none")
ArticleJobs == Pane(FALSE, TRUE, "hides", "none")

Panes ==
  {JobRecord, ApplicationRecord, CandidateRecord, CompanyRecord, CompanyDetail,
   CompanyDetailInline, CompanyJobsPanel, CandidateApplications, CandidateMatches,
   CandidateActivity, ApplicationActivity, JobApplicants, JobMatches, EditFormCount,
   CompanyChoices, FilterNames, Recommendations, ResumePreview, MatchFeed,
   HotApplications, Stats, Trend, TopJobs, Inbox, RecentFeed, Badges, TabCounts,
   CompanyCounts, CandidateHome, ApplicationCount, RecentApplications, ProfileStrip, CompanyHome, CompanyStatsRow,
   KanbanHeader, EditedJob, CandidateProfile, CompanyProfile, OwnApplication, OwnApplications, OwnSessions,
   PublicJob, LandingJobs, ArticleJobs}

----------------------------------------------------------------------------
VARIABLES
  pane,     \* the component
  subject,  \* what it is about now
  shown,    \* the answer it holds: whose, and which version of it
  failed,   \* the subject of the failed read it has not forgotten
  read,     \* the reads in flight
  rows,     \* the things whose row is on the list beside the pane
  version,  \* the server's versions
  edit,     \* what the user did here, in flight
  owed      \* the version of each thing the user was told of

paneVars == <<pane, subject, shown, failed, read, rows, version, edit, owed>>

NoAnswer == [of |-> Nothing, ver |-> 0]
NoRead == [st |-> "none", of |-> Nothing, ver |-> 0, live |-> FALSE]
NoEdit == [st |-> "none", of |-> Nothing, ver |-> 0, at |-> FALSE]

\* A pane that is given the row of the list does not read.
Given(s) == pane.edits = "listed" /\ s \in rows

\* The read the pane waits for.
Awaiting == \E r \in Reads : read[r].st # "none" /\ read[r].live

\* What the user sees.
Sight ==
  IF pane.clears /\ Awaiting THEN "waiting"
  ELSE IF failed # Nothing /\ pane.fails # "waits"
    THEN CASE pane.fails = "told"  -> "error"
           [] pane.fails = "empty" -> "no rows"
           [] pane.fails = "hides" -> "no pane"
  ELSE IF shown = NoAnswer THEN "waiting"
  ELSE IF shown.ver = 0 THEN "no rows" ELSE "data"

PaneTypeOK ==
  /\ pane \in Panes
  /\ subject \in Things \cup {Nothing}
  /\ shown \in [of : Things \cup {Nothing}, ver : Versions]
  /\ failed \in Things \cup {Nothing}
  /\ read \in [Reads -> [st : {"none", "sent", "served", "lost"}, of : Things \cup {Nothing},
                         ver : Versions, live : BOOLEAN]]
  /\ rows \subseteq Things
  /\ version \in [Things -> Versions]
  /\ edit \in [Edits -> [st : {"none", "sent", "done", "refused"}, of : Things \cup {Nothing},
                          ver : Versions, at : BOOLEAN]]
  /\ owed \in [Things -> Versions]

PaneInit ==
  /\ pane \in Panes
  /\ subject = Nothing
  /\ shown = NoAnswer
  /\ failed = Nothing
  /\ read = [r \in Reads |-> NoRead]
  /\ rows = {}
  /\ version \in [Things -> {0, 1}]
  /\ edit = [e \in Edits |-> NoEdit]
  /\ owed = [s \in Things |-> 0]

----------------------------------------------------------------------------
(* The effect that reads. *)

\* The reads that were under way are aborted, or their alive flag is cleared: their
\* answers find nobody.
Abandon == [r \in Reads |-> [read[r] EXCEPT !.live = FALSE]]

\* Mutant: the row below is read.
ReadNextRow(r, s) ==
  /\ read[r] = NoRead
  /\ read' = [Abandon EXCEPT ![r] = [st |-> "sent", of |-> s + 1, ver |-> 0, live |-> TRUE]]

\* A shared read is joined.
ReadAnew(r, s) ==
  /\ read[r] = NoRead
  /\ IF pane.shared /\ \E q \in Reads : read[q].st # "none"
       THEN read' = [q \in Reads |-> [read[q] EXCEPT !.live = read[q].st # "none"]]
       ELSE read' = [Abandon EXCEPT ![r] = [st |-> "sent", of |-> s, ver |-> 0, live |-> TRUE]]

\* The effect of a new subject, row or tick: it empties the pane and reads, unless
\* the list gives the row.
Effect(s, given) ==
  /\ failed' = IF pane.clears /\ ~pane.sticks THEN Nothing ELSE failed
  /\ IF given
       THEN /\ shown' = [of |-> s, ver |-> version[s]]
            /\ read' = Abandon
       ELSE /\ shown' = IF pane.clears THEN NoAnswer ELSE shown
            /\ \E r \in Reads : ReadAnew(r, s)

----------------------------------------------------------------------------
(* The user and the list. *)

Show(s) ==
  /\ s # subject
  /\ pane.many \/ s = 1
  /\ subject' = s
  /\ Effect(s, Given(s))
  /\ UNCHANGED <<pane, rows, version, edit, owed>>

\* The dialog is closed, the page is left, the pane is empty again.
Hide ==
  /\ subject # Nothing
  /\ subject' = Nothing
  /\ read' = Abandon
  /\ shown' = NoAnswer
  /\ failed' = Nothing
  /\ edit' = [e \in Edits |->
                [edit[e] EXCEPT !.at = edit[e].at /\ pane.edits = "listed"]]
  /\ UNCHANGED <<pane, rows, version, owed>>

\* The list beside the pane was read again, filtered or scrolled.
ListRead(s) ==
  /\ pane.edits = "listed"
  /\ rows' = IF s \in rows THEN rows \ {s} ELSE rows \cup {s}
  /\ IF s = subject THEN Effect(s, s \notin rows) ELSE UNCHANGED <<shown, failed, read>>
  /\ UNCHANGED <<pane, subject, version, edit, owed>>

EditShown(e) ==
  /\ pane.edits # "none"
  /\ subject # Nothing /\ Sight = "data" /\ shown.of = subject
  /\ edit[e] = NoEdit
  /\ pane.split \/ \A d \in Edits : edit[d] = NoEdit
  /\ edit' = [edit EXCEPT ![e] = [st |-> "sent", of |-> subject, ver |-> 0, at |-> TRUE]]
  /\ UNCHANGED <<pane, subject, shown, failed, read, rows, version, owed>>

----------------------------------------------------------------------------
(* The server. *)

ServeRead(r) ==
  /\ read[r].st = "sent"
  /\ \/ \E seen \in {version[read[r].of]} \cup (IF pane.capped THEN {0} ELSE {}) :
          read' = [read EXCEPT ![r] = [@ EXCEPT !.st = "served", !.ver = seen]]
     \/ read' = [read EXCEPT ![r].st = "lost"]
  /\ UNCHANGED <<pane, subject, shown, failed, rows, version, edit, owed>>

ServeEdit(e) ==
  /\ edit[e].st = "sent"
  /\ \/ /\ version[edit[e].of] < MaxVersion
        /\ version' = [version EXCEPT ![edit[e].of] = @ + 1]
        /\ edit' = [edit EXCEPT ![e] = [@ EXCEPT !.st = "done", !.ver = version[edit[e].of] + 1]]
     \/ edit' = [edit EXCEPT ![e].st = "refused"] /\ UNCHANGED version
  /\ UNCHANGED <<pane, subject, shown, failed, read, rows, owed>>

----------------------------------------------------------------------------
(* The answers. *)

\* Mutant: a late answer is shown.
ReadDoneLate(r) ==
  /\ read[r].st = "served"
  /\ read' = [read EXCEPT ![r] = NoRead]
  /\ shown' = [of |-> read[r].of, ver |-> read[r].ver]
  /\ failed' = IF pane.sticks THEN failed ELSE Nothing
  /\ UNCHANGED <<pane, subject, rows, version, edit, owed>>

ReadDone(r) ==
  /\ read[r].st = "served"
  /\ read' = [read EXCEPT ![r] = NoRead]
  /\ IF read[r].live
       THEN /\ shown' = [of |-> read[r].of, ver |-> read[r].ver]
            /\ failed' = IF pane.sticks THEN failed ELSE Nothing
       ELSE UNCHANGED <<shown, failed>>
  /\ UNCHANGED <<pane, subject, rows, version, edit, owed>>

\* Mutant: a failure ends the read and says nothing.
ReadFailedSilently(r) ==
  /\ read[r].st = "lost"
  /\ read' = [read EXCEPT ![r] = NoRead]
  /\ UNCHANGED <<pane, subject, shown, failed, rows, version, edit, owed>>

\* Mutant: a failure leaves no rows behind.
ReadFailedEmpty(r) ==
  /\ read[r].st = "lost"
  /\ read' = [read EXCEPT ![r] = NoRead]
  /\ shown' = IF read[r].live THEN [of |-> read[r].of, ver |-> 0] ELSE shown
  /\ UNCHANGED <<pane, subject, failed, rows, version, edit, owed>>

ReadFailed(r) ==
  /\ read[r].st = "lost"
  /\ read' = [read EXCEPT ![r] = NoRead]
  /\ failed' = IF read[r].live THEN read[r].of ELSE failed
  /\ UNCHANGED <<pane, subject, shown, rows, version, edit, owed>>

\* The user is told of a success by the page that sent it.
Told(e) == IF e.at /\ e.ver > owed[e.of] THEN [owed EXCEPT ![e.of] = e.ver] ELSE owed

\* Mutant: the answer of the edit is dropped.
EditDoneUnseen(e) ==
  /\ edit[e].st = "done"
  /\ edit' = [edit EXCEPT ![e] = NoEdit]
  /\ owed' = Told(edit[e])
  /\ UNCHANGED <<pane, subject, shown, failed, read, rows, version>>

\* The answer finds the page that sent it, or nobody.
EditDone(e) ==
  /\ edit[e].st = "done"
  /\ edit' = [edit EXCEPT ![e] = NoEdit]
  /\ owed' = Told(edit[e])
  /\ CASE edit[e].at /\ pane.edits = "refetch" -> Effect(subject, FALSE)
       [] edit[e].at /\ pane.edits = "applied" ->
            /\ shown' = [of |-> edit[e].of, ver |-> edit[e].ver]
            /\ UNCHANGED <<failed, read>>
       [] edit[e].at /\ Given(edit[e].of) /\ edit[e].of = subject -> Effect(subject, TRUE)
       [] OTHER -> UNCHANGED <<shown, failed, read>>
  /\ UNCHANGED <<pane, subject, rows, version>>

EditFailed(e) ==
  /\ edit[e].st = "refused"
  /\ edit' = [edit EXCEPT ![e] = NoEdit]
  /\ UNCHANGED <<pane, subject, shown, failed, read, rows, version, owed>>

PaneNext ==
  \/ \E s \in Things : Show(s) \/ ListRead(s)
  \/ \E r \in Reads : ServeRead(r) \/ ReadDone(r) \/ ReadFailed(r)
  \/ \E e \in Edits : EditShown(e) \/ ServeEdit(e) \/ EditDone(e) \/ EditFailed(e)
  \/ Hide

PaneSpec == PaneInit /\ [][PaneNext]_paneVars

----------------------------------------------------------------------------
(* Properties. *)

\* The data, the "no rows" and the error under a heading are the heading's.  A pane
\* that is not emptied when its subject changes (the count of applications in the
\* job form, the recommendations of a job, the preview of a resume, the header of
\* the kanban and the page that edits a job) shows its last one's until an answer
\* comes, and after a failure; the last two and the candidate's application keep their
\* error even then.  And the candidate's application shows the one that was just
\* saved, whichever the page is about by then.
ShowsItsSubject ==
  subject # Nothing =>
    /\ Sight \in {"data", "no rows"} =>
         \/ shown.of = subject \/ failed = subject
         \/ (~pane.clears /\ (Awaiting \/ failed # Nothing))
         \/ (pane.edits = "applied" /\ owed[shown.of] > 0)
    /\ Sight = "error" => failed = subject \/ pane.sticks \/ (~pane.clears /\ Awaiting)

\* A pane that says it is loading waits for an answer: no failure and no change of
\* subject leaves it so, but for the panes that hide their failures (the overview,
\* the names of the filters, the count of a job's applications, the statistics of a
\* company).
LoadingHasRead ==
  subject # Nothing /\ Sight = "waiting" =>
    Awaiting \/ (pane.fails = "waits" /\ failed # Nothing)

\* "No rows" is never said of a subject that has some, nor of a read that failed.
\* Three panes say so of a failure (recommendations, the candidate's dashboard, the
\* sessions), and three of a company whose jobs are not among the first hundred.
NoRowsIsTrue ==
  subject # Nothing /\ Sight = "no rows" /\ shown.of = subject =>
    \/ version[subject] = 0
    \/ pane.capped \/ pane.fails = "empty"

\* What the user did in the pane is in the pane from the moment the user is told that
\* it is done, whatever reads and lists overtook it.  Not in the panes that are not
\* told: the record of a company after its dialog, the timeline of an application after
\* its status, the matches and the applications of a candidate after a push, the counts
\* of the overview and of a company's jobs; nor in a record the list does not hold, nor
\* in the candidate's application when the user left it and came back meanwhile: the
\* page then reads again, and an older answer may come last.  Nor in the candidate's
\* profile, whose sections save at the same time: an answer that comes late undoes on
\* the screen what another section saved after it.
ShowsOwnEdits ==
  /\ subject # Nothing /\ Sight \in {"data", "no rows"} /\ shown.of = subject
  /\ pane.edits # "stale"
  /\ pane.edits = "listed" => subject \in rows
  /\ pane.edits = "applied" => ~pane.many /\ ~pane.split
  => shown.ver >= owed[subject]

----------------------------------------------------------------------------
(* What every step keeps, and the properties rest on. *)

\* The reads a pane waits for are of its subject; a pane of one subject has no other.
ReadsFollow ==
  /\ pane.many \/ subject \in {Nothing, 1}
  /\ \A r \in Reads :
       /\ read[r].st # "none" => read[r].of # Nothing /\ (pane.many \/ read[r].of = 1)
       /\ read[r].live => read[r].st # "none" /\ read[r].of = subject

\* What the user does here is done to a thing that is there, in a pane that shows it: a
\* pane of one subject reads nothing meanwhile, and has its edits one at a time unless
\* its sections are apart.
EditsFollow ==
  \A e \in Edits :
    /\ edit[e].st # "none" =>
         edit[e].of # Nothing /\ pane.edits # "none" /\ version[edit[e].of] > 0
    /\ edit[e].at =>
         /\ edit[e].st # "none"
         /\ pane.edits # "listed" => subject # Nothing
         /\ pane.many \/ ~Awaiting
    /\ edit[e].st = "done" =>
         /\ edit[e].ver \in 1..version[edit[e].of]
         /\ pane.split \/ edit[e].ver >= owed[edit[e].of]
    /\ pane.split \/ \A d \in Edits : d = e \/ edit[e].st = "none" \/ edit[d].st = "none"

\* An answer is no newer than the server, and has nothing in it only when there is nothing.
IsAnswer(of, ver) ==
  ver <= version[of] /\ (ver = 0 => version[of] = 0 \/ pane.capped)

VersionsAgree ==
  /\ shown.of = Nothing => shown = NoAnswer
  /\ shown.of # Nothing => IsAnswer(shown.of, shown.ver)
  /\ \A r \in Reads : read[r].st = "served" => IsAnswer(read[r].of, read[r].ver)
  /\ \A s \in Things : owed[s] <= version[s] /\ (pane.edits = "none" => owed[s] = 0)

\* A pane has an answer, a failure or a read, and the first two are its subject's but where
\* the pane keeps them longer.
AnswersFollow ==
  subject # Nothing =>
    /\ shown.of # Nothing \/ failed # Nothing \/ Awaiting
    /\ shown.of # Nothing =>
         \/ shown.of = subject
         \/ ~pane.clears /\ (Awaiting \/ failed # Nothing)
         \/ pane.edits = "applied" /\ owed[shown.of] > 0
    /\ failed # Nothing => failed = subject \/ pane.sticks \/ (~pane.clears /\ Awaiting)

\* The panes that read again or take the answer are never behind what their user was told;
\* a record that the list holds is the list's.
Tracks == pane.edits = "refetch" \/ (pane.edits = "applied" /\ ~pane.many /\ ~pane.split)

EditsKeptUp ==
  /\ Tracks =>
       /\ shown.of # Nothing => shown.ver >= owed[shown.of]
       /\ \A r \in Reads :
            read[r].live /\ read[r].st = "served" => read[r].ver >= owed[read[r].of]
  /\ subject # Nothing /\ Given(subject) =>
       shown.of = subject /\ shown.ver >= owed[subject] /\ ~Awaiting

PaneIInv ==
  PaneTypeOK /\ ReadsFollow /\ EditsFollow /\ VersionsAgree /\ AnswersFollow /\ EditsKeptUp
=============================================================================
