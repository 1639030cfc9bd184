----------------------------- MODULE ScreensProofs -----------------------------
(***************************************************************************)
(* Proofs about the screens, for any number of rows, subjects, reads,      *)
(* submissions and tabs: the pages behind one-time links tell the truth of *)
(* what they did, a list that waits has a page under way, a pane shows     *)
(* what it should, and no screen that waits, tells or sends breaks its     *)
(* promise.  Each is proved of its own module first (the forms in          *)
(* InputsProofs), then of the screens together.                            *)
(***************************************************************************)
EXTENDS MCScreens, InputsProofs, ListsProofs, TLAPS

----------------------------------------------------------------------------
(* The pages behind one-time links. *)

PageRecs == [view : Views, call : Calls, checked : BOOLEAN, did : BOOLEAN, cut : BOOLEAN]

\* The invariant of one tab's page p, with token k and a link of kind l.
PageSound(p, k, l) ==
  /\ (p.call # "none") <=> (p.view \in {"checking", "sending"})
  /\ p.call = "tested" => p.view = "sending" /\ ~p.did
  /\ p.did => k = "spent"
  /\ l = "delete" /\ p.call = "tested" => k # "spent"
  /\ p.call = "dead" => k # "live"
  /\ l = "activate" => ~p.checked /\ p.view \notin {"checking", "form", "failed"}
  /\ l = "reset" => (p.view = "checking" => ~p.checked) /\ p.view # "failed"
  /\ p.view = "none" => ~p.checked /\ ~p.did
  /\ p.view = "sending" /\ p.call = "ok" => p.did
  /\ p.view = "sending" /\ p.did => p.cut \/ p.call = "ok"
  /\ p.view = "checking" /\ p.did => p.cut
  /\ p.view = "invalid" /\ (l = "delete" \/ p.checked) => k # "live"
  /\ p.view = "success" => p.did
  /\ p.view \in {"form", "invalid", "failed"} /\ p.did => p.cut

\* What relates two tabs of a deletion.
OneDeletes ==
  link = "delete" =>
    \A t, u \in Tabs : /\ Tested(t) /\ Tested(u) => t = u
                       /\ tab[t].did /\ tab[u].did => t = u

\* LinkIInv, tab by tab.
LinkCore ==
  /\ link \in Links /\ token \in {"live", "spent", "expired"}
  /\ tab \in [Tabs -> PageRecs]
  /\ \A t \in Tabs : PageSound(tab[t], token, link)
  /\ OneDeletes

\* LinkCore is LinkIInv, put page by page.
LEMMA CoreSuffices == LinkCore => LinkIInv
<1> SUFFICES ASSUME LinkCore PROVE LinkIInv
  OBVIOUS
<1>1. LinkTypeOK
  BY DEF LinkCore, LinkTypeOK, PageRecs, PageSound
<1>2. DeedSpends
  BY DEF LinkCore, DeedSpends, PageSound, OneDeletes, Tested
<1>3. DeadIsNotLive /\ DeedOnItsWay /\ InvalidIsDead /\ OwnDeedTold
  BY DEF LinkCore, DeadIsNotLive, DeedOnItsWay, InvalidIsDead, OwnDeedTold, PageSound
<1>4. DeletedOnce
  BY DEF LinkCore, DeletedOnce, OneDeletes
<1> QED
  BY <1>1, <1>2, <1>3, <1>4 DEF LinkIInv

\* A step that leaves the token alone, in a tab whose page becomes r.
LEMMA PageStep ==
  ASSUME LinkCore, NEW t \in Tabs, NEW r \in PageRecs, tab' = [tab EXCEPT ![t] = r],
         UNCHANGED <<link, token>>, PageSound(r, token, link),
         r.did => tab[t].did,
         r.call = "tested" => RowFree(t)
  PROVE  LinkCore'
<1>1. /\ link \in Links /\ token \in {"live", "spent", "expired"}
      /\ tab \in [Tabs -> PageRecs]
      /\ \A u \in Tabs : PageSound(tab[u], token, link)
      /\ OneDeletes
  BY DEF LinkCore
<1>2. /\ tab' \in [Tabs -> PageRecs] /\ tab'[t] = r
      /\ \A u \in Tabs : u # t => tab'[u] = tab[u]
  BY <1>1
<1>3. \A u \in Tabs : PageSound(tab'[u], token', link')
  BY <1>1, <1>2
<1>4. OneDeletes'
  BY <1>1, <1>2 DEF OneDeletes, Tested, RowFree
<1> QED
  BY <1>1, <1>2, <1>3, <1>4 DEF LinkCore

\* A step that changes a tab's view and call only, and one that may.
Turns(t, v, a) ==
  /\ tab' = [tab EXCEPT ![t] = [@ EXCEPT !.view = v, !.call = a]]
  /\ UNCHANGED <<link, token>>
MayTurn(t, v, a) ==
  \A r \in PageRecs :
    /\ r.view = v /\ r.call = a /\ r.checked = tab[t].checked
    /\ r.did = tab[t].did /\ r.cut = tab[t].cut
    => PageSound(r, token, link)

\* A page that turns keeps the invariant, when what the turn says of it does.
LEMMA TurnStep ==
  ASSUME LinkCore, NEW t \in Tabs, NEW v \in Views, NEW a \in Calls,
         Turns(t, v, a), MayTurn(t, v, a), a = "tested" => RowFree(t)
  PROVE  LinkCore'
<1> DEFINE r == [tab[t] EXCEPT !.view = v, !.call = a]
<1>1. tab \in [Tabs -> PageRecs] /\ tab[t] \in PageRecs
  BY DEF LinkCore
<1>2. /\ r \in PageRecs /\ r.call = a /\ r.did = tab[t].did
      /\ r.view = v /\ r.checked = tab[t].checked /\ r.cut = tab[t].cut
  BY <1>1 DEF PageRecs
<1>3. tab' = [tab EXCEPT ![t] = r] /\ UNCHANGED <<link, token>>
  BY DEF Turns
<1> HIDE DEF r
<1>4. PageSound(r, token, link)
  BY <1>2 DEF MayTurn
<1> QED
  BY <1>2, <1>3, <1>4, PageStep

\* No page has been opened.
LEMMA LinkInitial == LinkInit => LinkCore
<1> SUFFICES ASSUME LinkInit PROVE LinkCore
  OBVIOUS
<1>1. \A t \in Tabs : tab[t] = NoPage
  BY DEF LinkInit
<1>2. NoPage \in PageRecs /\ tab \in [Tabs -> PageRecs]
  BY DEF LinkInit, NoPage, PageRecs, Views, Calls
<1>3. \A k, l : PageSound(NoPage, k, l)
  BY DEF PageSound, NoPage
<1>4. OneDeletes
  BY <1>1 DEF OneDeletes, Tested, NoPage
<1> QED
  BY <1>1, <1>2, <1>3, <1>4 DEF LinkInit, LinkCore

\* The pages' own steps.
LEMMA PageActs ==
  ASSUME LinkCore, NEW t \in Tabs,
         \/ OpenLink(t) \/ CheckDone(t) \/ UseLink(t) \/ UseDone(t) \/ CheckAgain(t)
         \/ CloseTab(t)
  PROVE  LinkCore'
<1>1. /\ link \in Links /\ token \in {"live", "spent", "expired"}
      /\ tab \in [Tabs -> PageRecs]
      /\ tab[t] \in PageRecs /\ PageSound(tab[t], token, link)
  BY DEF LinkCore
<1>2. UNCHANGED <<link, token>>
  BY DEF OpenLink, CheckDone, UseLink, UseDone, CheckAgain, CloseTab
<1>3. CASE CloseTab(t)
  <2>1. /\ NoPage \in PageRecs /\ NoPage.did = FALSE /\ NoPage.call = "none"
        /\ PageSound(NoPage, token, link)
    BY DEF NoPage, PageRecs, Views, Calls, PageSound
  <2>2. tab' = [tab EXCEPT ![t] = NoPage]
    BY <1>3 DEF CloseTab
  <2> QED
    BY <1>2, <2>1, <2>2, PageStep
<1>4. CASE CheckDone(t) /\ tab[t].call = "ok"
  <2> DEFINE r == [tab[t] EXCEPT !.view = "form", !.call = "none", !.checked = TRUE]
  <2>1. /\ r \in PageRecs /\ r.call = "none" /\ r.did = tab[t].did
        /\ r.view = "form" /\ r.checked /\ r.cut = tab[t].cut
    BY <1>1 DEF PageRecs, Views, Calls
  <2>2. tab' = [tab EXCEPT ![t] = r] /\ tab[t].view = "checking"
    BY <1>4 DEF CheckDone
  <2> HIDE DEF r
  <2>3. PageSound(r, token, link)
    BY <1>1, <2>1, <2>2 DEF PageSound
  <2> QED
    BY <1>2, <2>1, <2>2, <2>3, PageStep
<1>5. CASE OpenLink(t)
  <2> DEFINE v == IF link = "activate" THEN "sending" ELSE "checking"
  <2>1. /\ v \in Views /\ v \in {"sending", "checking"} /\ (v = "checking" => link # "activate")
        /\ "made" \in Calls /\ tab[t].view = "none"
    BY <1>5 DEF OpenLink, Views, Calls
  <2>2. Turns(t, v, "made")
    BY <1>5 DEF OpenLink, Ask, Turns
  <2> HIDE DEF v
  <2>3. MayTurn(t, v, "made")
    BY <1>1, <2>1 DEF MayTurn, PageSound
  <2> QED
    BY <2>1, <2>2, <2>3, TurnStep
<1>6. CASE UseLink(t)
  <2>1. /\ "sending" \in Views /\ "made" \in Calls /\ tab[t].view = "form"
        /\ Turns(t, "sending", "made")
    BY <1>6 DEF UseLink, Ask, Turns, Sendable, Views, Calls
  <2>2. MayTurn(t, "sending", "made")
    BY <1>1, <2>1 DEF MayTurn, PageSound
  <2> QED
    BY <2>1, <2>2, TurnStep
<1>7. CASE CheckAgain(t)
  <2>1. /\ "checking" \in Views /\ "made" \in Calls /\ tab[t].view = "failed"
        /\ Turns(t, "checking", "made")
    BY <1>7 DEF CheckAgain, Ask, Turns, Views, Calls
  <2>2. MayTurn(t, "checking", "made")
    BY <1>1, <2>1 DEF MayTurn, PageSound
  <2> QED
    BY <2>1, <2>2, TurnStep
<1>8. CASE UseDone(t)
  <2>1. tab[t].view = "sending" /\ tab[t].call \in Answers /\ "none" \in Calls
    BY <1>8 DEF UseDone, Calls
  <2>2. PICK v \in {"success", "invalid", "form", "failed"} :
          /\ Turns(t, v, "none")
          /\ v = "success" => tab[t].call = "ok"
          /\ v # "success" => tab[t].call # "ok"
          /\ v = "invalid" => link = "activate" \/ tab[t].call = "dead"
          /\ v = "form" => link = "reset"
          /\ v = "failed" => link # "reset" /\ link # "activate"
    BY <1>8 DEF UseDone, Turned, Turns, Dead
  <2>3. v \in Views
    BY DEF Views
  <2>4. MayTurn(t, v, "none")
    BY <1>1, <2>1, <2>2 DEF MayTurn, PageSound, Links, Answers
  <2> QED
    BY <2>1, <2>2, <2>3, <2>4, TurnStep
<1>9. CASE CheckDone(t) /\ tab[t].call # "ok"
  <2>1. tab[t].view = "checking" /\ tab[t].call \in Answers /\ "none" \in Calls
    BY <1>9 DEF CheckDone, Calls
  <2>2. PICK v \in {"invalid", "failed"} :
          /\ Turns(t, v, "none")
          /\ v = "invalid" => link = "reset" \/ tab[t].call = "dead"
          /\ v = "failed" => link # "reset"
    BY <1>9 DEF CheckDone, Turned, Turns, Dead
  <2>3. v \in Views
    BY DEF Views
  <2>4. MayTurn(t, v, "none")
    BY <1>1, <2>1, <2>2 DEF MayTurn, PageSound, Links, Answers
  <2> QED
    BY <2>1, <2>2, <2>3, <2>4, TurnStep
<1> QED
  BY <1>3, <1>4, <1>5, <1>6, <1>7, <1>8, <1>9

\* The server's steps.
LEMMA AnswerTurns ==
  ASSUME LinkCore, NEW t \in Tabs, NEW a \in Calls, Answer(t, a), UNCHANGED <<link, token>>
  PROVE  Turns(t, tab[t].view, a) /\ tab[t].view \in Views
<1>1. tab[t] \in PageRecs
  BY DEF LinkCore
<1>2. [tab[t] EXCEPT !.view = tab[t].view, !.call = a] = [tab[t] EXCEPT !.call = a]
  BY <1>1 DEF PageRecs
<1> QED
  BY <1>1, <1>2 DEF Turns, Answer, PageRecs

\* The server's steps: a test of the token, a deed, an answer.
LEMMA ServerActs ==
  ASSUME LinkCore, NEW t \in Tabs, ServeCheck(t) \/ ServeTest(t) \/ ServeCommit(t)
  PROVE  LinkCore'
<1>1. /\ link \in Links /\ token \in {"live", "spent", "expired"}
      /\ tab \in [Tabs -> PageRecs]
      /\ tab[t] \in PageRecs /\ PageSound(tab[t], token, link)
  BY DEF LinkCore
<1>2. ASSUME NEW a \in Calls, Answer(t, a), UNCHANGED <<link, token>>,
             MayTurn(t, tab[t].view, a), a = "tested" => RowFree(t)
      PROVE  LinkCore'
  BY <1>2, AnswerTurns, TurnStep
<1>3. CASE ServeCheck(t)
  <2>1. PICK a \in {"ok", "dead", "refused"} :
          /\ Answer(t, a) /\ UNCHANGED <<link, token>> /\ tab[t].view = "checking"
          /\ a = "dead" => token # "live"
    BY <1>3 DEF ServeCheck
  <2>2. MayTurn(t, tab[t].view, a) /\ a \in Calls
    BY <1>1, <2>1 DEF MayTurn, PageSound, Calls
  <2> QED
    BY <1>2, <2>1, <2>2
<1>4. CASE ServeTest(t)
  <2>1. PICK a \in {"tested", "dead", "refused"} :
          /\ Answer(t, a) /\ UNCHANGED <<link, token>> /\ tab[t].view = "sending"
          /\ tab[t].call = "made" /\ RowFree(t)
          /\ a = "dead" => token # "live"
          /\ a = "tested" => token = "live"
    BY <1>4 DEF ServeTest
  <2>2. MayTurn(t, tab[t].view, a) /\ a \in Calls
    BY <1>1, <2>1 DEF MayTurn, PageSound, Calls
  <2> QED
    BY <1>2, <2>1, <2>2
<1>5. CASE ServeCommit(t) /\ Answer(t, "refused") /\ UNCHANGED token
  <2>1. tab[t].call = "tested" /\ UNCHANGED <<link, token>> /\ "refused" \in Calls
    BY <1>5 DEF ServeCommit, Calls
  <2>2. MayTurn(t, tab[t].view, "refused")
    BY <1>1, <2>1 DEF MayTurn, PageSound
  <2> QED
    BY <1>2, <1>5, <2>1, <2>2
<1>6. ASSUME NEW a \in {"ok", "cut"}, tab[t].call = "tested", token' = "spent", UNCHANGED link,
             tab' = [tab EXCEPT ![t] = [@ EXCEPT !.call = a, !.did = TRUE, !.cut = (a = "cut")]]
      PROVE  LinkCore'
  <2> DEFINE r == [tab[t] EXCEPT !.call = a, !.did = TRUE, !.cut = (a = "cut")]
  <2>1. /\ r \in PageRecs /\ r.call = a /\ r.did /\ (r.cut <=> a = "cut")
        /\ r.view = tab[t].view /\ r.checked = tab[t].checked
    BY <1>1 DEF PageRecs, Calls
  <2>2. tab' = [tab EXCEPT ![t] = r]
    BY <1>6
  <2> HIDE DEF r
  <2>3. /\ tab' \in [Tabs -> PageRecs] /\ tab'[t] = r
        /\ \A u \in Tabs : u # t => tab'[u] = tab[u]
    BY <1>1, <2>1, <2>2
  <2>4. PageSound(r, "spent", link)
    BY <1>1, <1>6, <2>1 DEF PageSound
  <2>5. ASSUME NEW u \in Tabs, u # t PROVE PageSound(tab[u], "spent", link)
    <3>1. /\ tab[u] \in PageRecs /\ PageSound(tab[u], token, link)
          /\ link = "delete" => tab[u].call # "tested"
      BY <1>6, <2>5 DEF LinkCore, OneDeletes, Tested
    <3> QED
      BY <3>1 DEF PageSound
  <2>6. OneDeletes'
    <3>1. link = "delete" =>
            /\ token # "spent"
            /\ \A u \in Tabs : ~tab[u].did /\ (tab[u].call = "tested" => u = t)
      BY <1>1, <1>6 DEF LinkCore, OneDeletes, Tested, PageSound
    <3> QED
      BY <1>6, <2>1, <2>3, <3>1 DEF OneDeletes, Tested
  <2> QED
    BY <1>1, <1>6, <2>3, <2>4, <2>5, <2>6 DEF LinkCore
<1> QED
  BY <1>3, <1>4, <1>5, <1>6 DEF ServeCommit

\* Every step of the pages and of the server.
LEMMA LinkStep == LinkCore /\ [LinkNext]_linkVars => LinkCore'
<1> SUFFICES ASSUME LinkCore, [LinkNext]_linkVars PROVE LinkCore'
  OBVIOUS
<1>1. CASE Expire
  <2>1. /\ token = "live" /\ token' = "expired" /\ UNCHANGED <<link, tab>>
    BY <1>1 DEF Expire
  <2>2. \A t \in Tabs : PageSound(tab[t], "expired", link)
    BY <2>1 DEF LinkCore, PageSound
  <2>3. OneDeletes'
    BY <2>1 DEF LinkCore, OneDeletes, Tested
  <2> QED
    BY <2>1, <2>2, <2>3 DEF LinkCore
<1>2. CASE UNCHANGED linkVars
  BY <1>2 DEF linkVars, LinkCore, OneDeletes, Tested
<1> QED
  BY <1>1, <1>2, PageActs, ServerActs DEF LinkNext

\* LinkIInv holds: what the pages and the server keep for each tab, whatever the tabs do
\* at once (services/auth/password_reset.py, candidate/account_deletion.py).
THEOREM LinkInductive == LinkSpec => []LinkIInv
<1>1. LinkSpec => []LinkCore
  BY LinkInitial, LinkStep, PTL DEF LinkSpec
<1> QED
  BY <1>1, CoreSuffices, PTL

\* A page calls a link dead that is, but for the errors its own check does not tell apart.
THEOREM InvalidIsDeadHolds == LinkSpec => []InvalidIsDead
<1>1. LinkIInv => InvalidIsDead
  BY DEF LinkIInv
<1> QED
  BY <1>1, LinkInductive, PTL

\* A page tells its visitor what became of their own request.
THEOREM OwnDeedToldHolds == LinkSpec => []OwnDeedTold
<1>1. LinkIInv => OwnDeedTold
  BY DEF LinkIInv
<1> QED
  BY <1>1, LinkInductive, PTL

\* However many tabs confirm a deletion, one of them carries it out: the token's row is
\* locked from the test to the commit.
THEOREM DeletedOnceHolds == LinkSpec => []DeletedOnce
<1>1. LinkIInv => DeletedOnce
  BY DEF LinkIInv
<1> QED
  BY <1>1, LinkInductive, PTL

----------------------------------------------------------------------------
(* The panes. *)

\* What a component is made of.
PaneRecs ==
  [many : BOOLEAN, clears : BOOLEAN, fails : {"told", "empty", "waits", "hides"},
   edits : {"refetch", "applied", "listed", "stale", "none"},
   sticks : BOOLEAN, capped : BOOLEAN, shared : BOOLEAN, split : BOOLEAN]

\* What the components that do one thing have in common.
PaneFacts(p) ==
  /\ p \in PaneRecs
  /\ p.edits # "none" => p.clears /\ ~p.capped
  /\ p.edits = "listed" => p.many
  /\ p.edits = "refetch" => ~p.many
  /\ p.shared => ~p.many /\ p.edits = "stale"
  /\ p.split => ~p.many /\ p.edits = "applied"
  /\ p.sticks => p.fails = "told"

\* A component that no mark is put on.
LEMMA PlainPane ==
  ASSUME NEW m \in BOOLEAN, NEW c \in BOOLEAN, NEW f \in {"told", "empty", "waits", "hides"},
         NEW e \in {"refetch", "applied", "listed", "stale", "none"},
         e # "none" => c = TRUE, e = "listed" => m = TRUE, e = "refetch" => m = FALSE
  PROVE  PaneFacts(Pane(m, c, f, e))
BY DEF Pane, PaneFacts, PaneRecs

\* The marks leave a component what it is, where they are put.
LEMMA MarkedPane ==
  ASSUME NEW p, PaneFacts(p)
  PROVE  /\ p.fails = "told" => PaneFacts(Sticks(p))
         /\ p.edits = "none" => PaneFacts(Capped(p))
         /\ ~p.many /\ p.edits = "stale" => PaneFacts(Shared(p))
         /\ ~p.many /\ p.edits = "applied" => PaneFacts(Split(p))
<1>1. p \in PaneRecs
  BY DEF PaneFacts
<1>2. p.fails = "told" => PaneFacts(Sticks(p))
  BY <1>1 DEF PaneFacts, PaneRecs, Sticks
<1>3. p.edits = "none" => PaneFacts(Capped(p))
  BY <1>1 DEF PaneFacts, PaneRecs, Capped
<1>4. ~p.many /\ p.edits = "stale" => PaneFacts(Shared(p))
  BY <1>1 DEF PaneFacts, PaneRecs, Shared
<1>5. ~p.many /\ p.edits = "applied" => PaneFacts(Split(p))
  BY <1>1 DEF PaneFacts, PaneRecs, Split
<1> QED
  BY <1>2, <1>3, <1>4, <1>5

\* What the components have in common, one by one.
LEMMA PanesAre == \A p \in Panes : PaneFacts(p)
<1>1. /\ PaneFacts(JobRecord)
      /\ PaneFacts(ApplicationRecord)
      /\ PaneFacts(CandidateRecord)
      /\ PaneFacts(CompanyRecord)
  BY PlainPane DEF JobRecord, ApplicationRecord, CandidateRecord, CompanyRecord
<1>2. /\ PaneFacts(CandidateApplications)
      /\ PaneFacts(CandidateMatches)
      /\ PaneFacts(CandidateActivity)
      /\ PaneFacts(ApplicationActivity)
  BY PlainPane DEF CandidateApplications, CandidateMatches, CandidateActivity, ApplicationActivity
<1>3. /\ PaneFacts(JobApplicants)
      /\ PaneFacts(JobMatches)
      /\ PaneFacts(EditFormCount)
      /\ PaneFacts(CompanyChoices)
  BY PlainPane DEF JobApplicants, JobMatches, EditFormCount, CompanyChoices
<1>4. /\ PaneFacts(FilterNames)
      /\ PaneFacts(Recommendations)
      /\ PaneFacts(ResumePreview)
      /\ PaneFacts(MatchFeed)
  BY PlainPane DEF FilterNames, Recommendations, ResumePreview, MatchFeed
<1>5. /\ PaneFacts(HotApplications)
      /\ PaneFacts(CandidateHome)
      /\ PaneFacts(CompanyHome)
      /\ PaneFacts(CompanyStatsRow)
  BY PlainPane DEF HotApplications, CandidateHome, CompanyHome, CompanyStatsRow
<1>6. /\ PaneFacts(CompanyProfile)
      /\ PaneFacts(OwnApplications)
      /\ PaneFacts(OwnSessions)
      /\ PaneFacts(PublicJob)
  BY PlainPane DEF CompanyProfile, OwnApplications, OwnSessions, PublicJob
<1>7. /\ PaneFacts(LandingJobs)
      /\ PaneFacts(ArticleJobs)
  BY PlainPane DEF LandingJobs, ArticleJobs
<1>8. PaneFacts(CompanyDetail)
  <2> DEFINE p == Pane(TRUE, TRUE, "told", "none")
  <2>1. PaneFacts(p)
    BY PlainPane
  <2>2. p.many = TRUE /\ p.fails = "told" /\ p.edits = "none"
    BY DEF Pane
  <2>3. CompanyDetail = Capped(p)
    BY DEF CompanyDetail
  <2> HIDE DEF p
  <2> QED
    BY <2>1, <2>2, <2>3, MarkedPane
<1>9. PaneFacts(CompanyDetailInline)
  <2> DEFINE p == Pane(TRUE, TRUE, "told", "none")
  <2>1. PaneFacts(p)
    BY PlainPane
  <2>2. p.many = TRUE /\ p.fails = "told" /\ p.edits = "none"
    BY DEF Pane
  <2>3. CompanyDetailInline = Capped(p)
    BY DEF CompanyDetailInline
  <2> HIDE DEF p
  <2> QED
    BY <2>1, <2>2, <2>3, MarkedPane
<1>10. PaneFacts(CompanyJobsPanel)
  <2> DEFINE p == Pane(TRUE, TRUE, "told", "none")
  <2>1. PaneFacts(p)
    BY PlainPane
  <2>2. p.many = TRUE /\ p.fails = "told" /\ p.edits = "none"
    BY DEF Pane
  <2>3. CompanyJobsPanel = Capped(p)
    BY DEF CompanyJobsPanel
  <2> HIDE DEF p
  <2> QED
    BY <2>1, <2>2, <2>3, MarkedPane
<1>11. PaneFacts(Overview)
  <2> DEFINE p == Pane(FALSE, TRUE, "waits", "stale")
  <2>1. PaneFacts(p)
    BY PlainPane
  <2>2. p.many = FALSE /\ p.fails = "waits" /\ p.edits = "stale"
    BY DEF Pane
  <2>3. Overview = Shared(p)
    BY DEF Overview
  <2> HIDE DEF p
  <2> QED
    BY <2>1, <2>2, <2>3, MarkedPane
<1>12. PaneFacts(ProfileStrip)
  <2> DEFINE p == Pane(FALSE, TRUE, "waits", "applied")
  <2>1. PaneFacts(p)
    BY PlainPane
  <2>2. p.many = FALSE /\ p.fails = "waits" /\ p.edits = "applied"
    BY DEF Pane
  <2>3. ProfileStrip = Split(p)
    BY DEF ProfileStrip
  <2> HIDE DEF p
  <2> QED
    BY <2>1, <2>2, <2>3, MarkedPane
<1>13. PaneFacts(KanbanHeader)
  <2> DEFINE p == Pane(TRUE, FALSE, "told", "none")
  <2>1. PaneFacts(p)
    BY PlainPane
  <2>2. p.many = TRUE /\ p.fails = "told" /\ p.edits = "none"
    BY DEF Pane
  <2>3. KanbanHeader = Sticks(p)
    BY DEF KanbanHeader
  <2> HIDE DEF p
  <2> QED
    BY <2>1, <2>2, <2>3, MarkedPane
<1>14. PaneFacts(EditedJob)
  <2> DEFINE p == Pane(TRUE, FALSE, "told", "none")
  <2>1. PaneFacts(p)
    BY PlainPane
  <2>2. p.many = TRUE /\ p.fails = "told" /\ p.edits = "none"
    BY DEF Pane
  <2>3. EditedJob = Sticks(p)
    BY DEF EditedJob
  <2> HIDE DEF p
  <2> QED
    BY <2>1, <2>2, <2>3, MarkedPane
<1>15. PaneFacts(CandidateProfile)
  <2> DEFINE p == Pane(FALSE, TRUE, "told", "applied")
  <2>1. PaneFacts(p)
    BY PlainPane
  <2>2. p.many = FALSE /\ p.fails = "told" /\ p.edits = "applied"
    BY DEF Pane
  <2>3. CandidateProfile = Split(p)
    BY DEF CandidateProfile
  <2> HIDE DEF p
  <2> QED
    BY <2>1, <2>2, <2>3, MarkedPane
<1>16. PaneFacts(OwnApplication)
  <2> DEFINE p == Pane(TRUE, TRUE, "told", "applied")
  <2>1. PaneFacts(p)
    BY PlainPane
  <2>2. p.many = TRUE /\ p.fails = "told" /\ p.edits = "applied"
    BY DEF Pane
  <2>3. OwnApplication = Sticks(p)
    BY DEF OwnApplication
  <2> HIDE DEF p
  <2> QED
    BY <2>1, <2>2, <2>3, MarkedPane
<1>17. /\ Stats = Overview
      /\ Trend = Overview
      /\ TopJobs = Overview
      /\ Inbox = Overview
      /\ RecentFeed = Overview
      /\ Badges = Overview
      /\ TabCounts = Overview
      /\ CompanyCounts = Overview
      /\ ApplicationCount = CandidateHome
      /\ RecentApplications = CandidateHome
  BY DEF Stats, Trend, TopJobs, Inbox, RecentFeed, Badges, TabCounts, CompanyCounts, ApplicationCount, RecentApplications
<1> QED
  BY <1>1, <1>2, <1>3, <1>4, <1>5, <1>6, <1>7, <1>8, <1>9, <1>10, <1>11, <1>12, <1>13, <1>14, <1>15, <1>16, <1>17 DEF Panes

\* What a read, an edit and an answer are made of.
ReadRecs == [st : {"none", "sent", "served", "lost"}, of : Things \cup {Nothing},
             ver : Versions, live : BOOLEAN]
EditRecs == [st : {"none", "sent", "done", "refused"}, of : Things \cup {Nothing},
             ver : Versions, at : BOOLEAN]
AnswerRecs == [of : Things \cup {Nothing}, ver : Versions]

\* The numbers of things and versions.
LEMMA PaneNumbers ==
  /\ Nothing \notin Things /\ Nothing = 0 /\ 1 \in Things /\ Things \subseteq Nat
  /\ Versions \subseteq Nat /\ 0 \in Versions /\ MaxVersion \in Nat
  /\ NoAnswer \in AnswerRecs /\ NoAnswer.of = Nothing /\ NoAnswer.ver = 0
  /\ NoRead \in ReadRecs /\ NoRead.st = "none" /\ NoRead.live = FALSE
  /\ NoEdit \in EditRecs /\ NoEdit.st = "none" /\ NoEdit.at = FALSE
<1>1. /\ Nothing \notin Things /\ Nothing = 0 /\ 1 \in Things /\ Things \subseteq Nat
      /\ Versions \subseteq Nat /\ 0 \in Versions /\ MaxVersion \in Nat
  BY PaneAssumption DEF Nothing, Things, Versions
<1>2. NoAnswer \in AnswerRecs /\ NoAnswer.of = Nothing /\ NoAnswer.ver = 0
  BY <1>1 DEF NoAnswer, AnswerRecs
<1>3. NoRead \in ReadRecs /\ NoRead.st = "none" /\ NoRead.live = FALSE
  BY <1>1 DEF NoRead, ReadRecs
<1>4. NoEdit \in EditRecs /\ NoEdit.st = "none" /\ NoEdit.at = FALSE
  BY <1>1 DEF NoEdit, EditRecs
<1> QED
  BY <1>1, <1>2, <1>3, <1>4

\* The types, with what the components have in common.
LEMMA PaneTypes ==
  ASSUME PaneTypeOK
  PROVE  /\ PaneFacts(pane) /\ pane \in PaneRecs /\ pane \in Panes
         /\ subject \in Things \cup {Nothing} /\ failed \in Things \cup {Nothing}
         /\ shown \in AnswerRecs /\ read \in [Reads -> ReadRecs] /\ edit \in [Edits -> EditRecs]
         /\ rows \subseteq Things
         /\ version \in [Things -> Versions] /\ owed \in [Things -> Versions]
BY PanesAre DEF PaneTypeOK, PaneFacts, AnswerRecs, ReadRecs, EditRecs

\* The other way round.
LEMMA PaneTyped ==
  ASSUME pane \in Panes, subject \in Things \cup {Nothing}, failed \in Things \cup {Nothing},
         shown \in AnswerRecs, read \in [Reads -> ReadRecs], edit \in [Edits -> EditRecs],
         rows \subseteq Things, version \in [Things -> Versions], owed \in [Things -> Versions]
  PROVE  PaneTypeOK
BY DEF PaneTypeOK, AnswerRecs, ReadRecs, EditRecs

\* And after a step.
LEMMA PaneTypedNext ==
  ASSUME pane' \in Panes, subject' \in Things \cup {Nothing}, failed' \in Things \cup {Nothing},
         shown' \in AnswerRecs, read' \in [Reads -> ReadRecs], edit' \in [Edits -> EditRecs],
         rows' \subseteq Things, version' \in [Things -> Versions], owed' \in [Things -> Versions]
  PROVE  PaneTypeOK'
BY DEF PaneTypeOK, AnswerRecs, ReadRecs, EditRecs

\* A pane begins closed, with nothing under way.
LEMMA PaneStarts == PaneInit => PaneIInv
<1> SUFFICES ASSUME PaneInit PROVE PaneIInv
  OBVIOUS
<1>1. /\ pane \in Panes /\ subject = Nothing /\ shown = NoAnswer /\ failed = Nothing
      /\ read = [r \in Reads |-> NoRead] /\ rows = {} /\ version \in [Things -> {0, 1}]
      /\ edit = [e \in Edits |-> NoEdit] /\ owed = [s \in Things |-> 0]
  BY DEF PaneInit
<1>2. 1 \in Versions
  BY PaneAssumption DEF Versions
<1>3. version \in [Things -> Versions]
  BY <1>1, <1>2, PaneNumbers
<1>4. PaneTypeOK
  BY <1>1, <1>3, PaneNumbers, PaneTyped
<1>5. \A r \in Reads : read[r].st = "none" /\ read[r].live = FALSE
  BY <1>1, PaneNumbers
<1>6. \A e \in Edits : edit[e].st = "none" /\ edit[e].at = FALSE
  BY <1>1, PaneNumbers
<1>7. ReadsFollow
  BY <1>1, <1>5 DEF ReadsFollow
<1>8. EditsFollow
  BY <1>6 DEF EditsFollow
<1>9. VersionsAgree
  <2>1. \A s \in Things : owed[s] = 0 /\ version[s] \in Nat
    BY <1>1, <1>3, PaneNumbers
  <2> QED
    BY <1>1, <1>5, <2>1, PaneNumbers DEF VersionsAgree
<1>10. AnswersFollow
  BY <1>1 DEF AnswersFollow
<1>11. EditsKeptUp
  BY <1>1, <1>5, PaneNumbers DEF EditsKeptUp
<1> QED
  BY <1>4, <1>7, <1>8, <1>9, <1>10, <1>11 DEF PaneIInv

\* The reads that were under way are dropped.
LEMMA AbandonIs ==
  ASSUME PaneTypeOK
  PROVE  /\ Abandon \in [Reads -> ReadRecs]
         /\ \A q \in Reads : /\ Abandon[q].st = read[q].st /\ Abandon[q].of = read[q].of
                             /\ Abandon[q].ver = read[q].ver /\ Abandon[q].live = FALSE
<1>1. read \in [Reads -> ReadRecs]
  BY PaneTypes
<1> QED
  BY <1>1 DEF Abandon, ReadRecs

\* A read of s, and whatever it drops or joins.
LEMMA AnewIs ==
  ASSUME PaneTypeOK, NEW r \in Reads, NEW s \in Things, ReadAnew(r, s)
  PROVE  /\ read' \in [Reads -> ReadRecs]
         /\ \A q \in Reads :
              \/ /\ read'[q].st = read[q].st /\ read'[q].of = read[q].of
                 /\ read'[q].ver = read[q].ver
                 /\ read'[q].live => pane.shared /\ read[q].st # "none"
              \/ /\ read'[q].st = "sent" /\ read'[q].of = s /\ read'[q].live = TRUE
         /\ \E q \in Reads : read'[q].st # "none" /\ read'[q].live
<1>1. read \in [Reads -> ReadRecs]
  BY PaneTypes
<1>2. CASE pane.shared /\ \E q \in Reads : read[q].st # "none"
  <2>1. read' = [q \in Reads |-> [read[q] EXCEPT !.live = read[q].st # "none"]]
    BY <1>2 DEF ReadAnew
  <2>2. \A q \in Reads : (read[q].st # "none") \in BOOLEAN
    OBVIOUS
  <2>3. /\ read' \in [Reads -> ReadRecs]
        /\ \A q \in Reads : /\ read'[q].st = read[q].st /\ read'[q].of = read[q].of
                            /\ read'[q].ver = read[q].ver
                            /\ read'[q].live = (read[q].st # "none")
    BY <1>1, <2>1 DEF ReadRecs
  <2>4. \A q \in Reads : read'[q].live => pane.shared /\ read[q].st # "none"
    BY <1>2, <2>3
  <2>5. PICK q \in Reads : read[q].st # "none"
    BY <1>2
  <2>6. read'[q].st # "none" /\ read'[q].live
    BY <2>3, <2>5
  <2> QED
    BY <2>3, <2>4, <2>6
<1>3. CASE ~(pane.shared /\ \E q \in Reads : read[q].st # "none")
  <2>1. read' = [Abandon EXCEPT ![r] = [st |-> "sent", of |-> s, ver |-> 0, live |-> TRUE]]
    BY <1>3 DEF ReadAnew
  <2>2. /\ read' \in [Reads -> ReadRecs]
        /\ read'[r].st = "sent" /\ read'[r].of = s /\ read'[r].live = TRUE
        /\ \A q \in Reads \ {r} : read'[q] = Abandon[q]
    BY <2>1, AbandonIs, PaneNumbers DEF ReadRecs
  <2> QED
    BY <2>2, AbandonIs
<1> QED
  BY <1>2, <1>3

\* What becomes of a pane whose subject, row or tick is new.
LEMMA EffectIs ==
  ASSUME PaneTypeOK, NEW s \in Things, NEW given \in BOOLEAN, Effect(s, given)
  PROVE  /\ read' \in [Reads -> ReadRecs] /\ shown' \in AnswerRecs
         /\ failed' \in Things \cup {Nothing}
         /\ \A q \in Reads :
              \/ /\ read'[q].st = read[q].st /\ read'[q].of = read[q].of
                 /\ read'[q].ver = read[q].ver
                 /\ read'[q].live => ~given /\ pane.shared /\ read[q].st # "none"
              \/ ~given /\ read'[q].st = "sent" /\ read'[q].of = s /\ read'[q].live = TRUE
         /\ given => shown'.of = s /\ shown'.ver = version[s] /\ ~Awaiting'
         /\ ~given => Awaiting' /\ shown' = IF pane.clears THEN NoAnswer ELSE shown
         /\ failed' = IF pane.clears /\ ~pane.sticks THEN Nothing ELSE failed
<1>1. /\ failed \in Things \cup {Nothing} /\ shown \in AnswerRecs
      /\ version \in [Things -> Versions]
  BY PaneTypes
<1>2. /\ failed' = IF pane.clears /\ ~pane.sticks THEN Nothing ELSE failed
      /\ failed' \in Things \cup {Nothing}
  BY <1>1 DEF Effect
<1>3. CASE given
  <2>1. shown' = [of |-> s, ver |-> version[s]] /\ read' = Abandon
    BY <1>3 DEF Effect
  <2>2. shown' \in AnswerRecs /\ shown'.of = s /\ shown'.ver = version[s]
    BY <1>1, <2>1 DEF AnswerRecs
  <2>3. /\ read' \in [Reads -> ReadRecs]
        /\ \A q \in Reads : /\ read'[q].st = read[q].st /\ read'[q].of = read[q].of
                            /\ read'[q].ver = read[q].ver /\ ~read'[q].live
    BY <2>1, AbandonIs
  <2>4. ~Awaiting'
    BY <2>3 DEF Awaiting
  <2> QED
    BY <1>2, <1>3, <2>2, <2>3, <2>4
<1>4. CASE ~given
  <2>1. PICK r \in Reads : ReadAnew(r, s)
    BY <1>4 DEF Effect
  <2>2. shown' = IF pane.clears THEN NoAnswer ELSE shown
    BY <1>4 DEF Effect
  <2>3. shown' \in AnswerRecs
    BY <1>1, <2>2, PaneNumbers
  <2>4. Awaiting'
    BY <2>1, AnewIs DEF Awaiting
  <2> QED
    BY <1>2, <1>4, <2>1, <2>2, <2>3, <2>4, AnewIs
<1> QED
  BY <1>3, <1>4

\* A new subject, the same row of another list, or a tick after an edit.
LEMMA EffectKeeps ==
  ASSUME PaneIInv, NEW s \in Things, NEW given \in BOOLEAN, Effect(s, given),
         pane.many \/ s = 1, subject' = s, pane' = pane, version' = version,
         rows' \subseteq Things, given = (pane.edits = "listed" /\ s \in rows'),
         edit' \in [Edits -> EditRecs], EditsFollow',
         owed' \in [Things -> Versions],
         \A x \in Things : /\ owed[x] <= owed'[x] /\ owed'[x] <= version[x]
                           /\ pane.edits = "none" => owed'[x] = 0
  PROVE  PaneIInv'
<1>1. /\ PaneFacts(pane) /\ pane \in PaneRecs /\ pane \in Panes /\ read \in [Reads -> ReadRecs]
      /\ subject \in Things \cup {Nothing} /\ failed \in Things \cup {Nothing}
      /\ shown \in AnswerRecs /\ version \in [Things -> Versions] /\ owed \in [Things -> Versions]
      /\ ReadsFollow /\ VersionsAgree /\ AnswersFollow /\ EditsKeptUp /\ PaneTypeOK
  BY PaneTypes DEF PaneIInv
<1>2. /\ read' \in [Reads -> ReadRecs] /\ shown' \in AnswerRecs
      /\ failed' \in Things \cup {Nothing}
      /\ \A q \in Reads :
           \/ /\ read'[q].st = read[q].st /\ read'[q].of = read[q].of
              /\ read'[q].ver = read[q].ver
              /\ read'[q].live => ~given /\ pane.shared /\ read[q].st # "none"
           \/ ~given /\ read'[q].st = "sent" /\ read'[q].of = s /\ read'[q].live = TRUE
      /\ given => shown'.of = s /\ shown'.ver = version[s] /\ ~Awaiting'
      /\ ~given => Awaiting' /\ shown' = IF pane.clears THEN NoAnswer ELSE shown
      /\ failed' = IF pane.clears /\ ~pane.sticks THEN Nothing ELSE failed
  BY <1>1, EffectIs
<1>3. PaneTypeOK'
  BY <1>1, <1>2, PaneTypedNext
<1>4. s # Nothing /\ version[s] \in Nat /\ owed'[s] \in Nat
  BY <1>1, PaneNumbers
<1>5. ReadsFollow'
  <2>1. pane.shared => s = 1
    BY <1>1 DEF PaneFacts
  <2>2. \A q \in Reads :
          /\ read'[q].st # "none" => read'[q].of # Nothing /\ (pane.many \/ read'[q].of = 1)
          /\ read'[q].live => read'[q].st # "none" /\ read'[q].of = s
    <3> SUFFICES ASSUME NEW q \in Reads
                 PROVE  /\ read'[q].st # "none" =>
                             read'[q].of # Nothing /\ (pane.many \/ read'[q].of = 1)
                        /\ read'[q].live => read'[q].st # "none" /\ read'[q].of = s
      OBVIOUS
    <3>1. /\ read[q].st # "none" => read[q].of # Nothing /\ (pane.many \/ read[q].of = 1)
          /\ pane.shared => ~pane.many
      BY <1>1 DEF ReadsFollow, PaneFacts
    <3> QED
      BY <1>2, <1>4, <2>1, <3>1
  <2> QED
    BY <2>2 DEF ReadsFollow
<1>6. VersionsAgree'
  <2>1. shown'.of = Nothing => shown' = NoAnswer
    BY <1>1, <1>2, <1>4 DEF VersionsAgree
  <2>2. shown'.of # Nothing => IsAnswer(shown.of, shown.ver)'
    <3>1. CASE given
      BY <1>1, <1>2, <1>4, <3>1 DEF IsAnswer
    <3>2. CASE ~given
      <4>1. shown'.of # Nothing => shown' = shown
        BY <1>2, <3>2, PaneNumbers
      <4> QED
        BY <1>1, <4>1 DEF VersionsAgree, IsAnswer
    <3> QED
      BY <3>1, <3>2
  <2>3. \A q \in Reads : read'[q].st = "served" => IsAnswer(read[q].of, read[q].ver)'
    BY <1>1, <1>2 DEF VersionsAgree, IsAnswer
  <2> QED
    BY <2>1, <2>2, <2>3 DEF VersionsAgree
<1>7. AnswersFollow'
  <2>1. shown'.of # Nothing \/ Awaiting'
    BY <1>2, <1>4
  <2>2. shown'.of # Nothing => shown'.of = s \/ (~pane.clears /\ Awaiting')
    BY <1>2, PaneNumbers
  <2>3. failed' # Nothing => pane.sticks \/ ~pane.clears
    BY <1>2
  <2>4. given => pane.clears
    BY <1>1 DEF PaneFacts
  <2> QED
    BY <1>2, <2>1, <2>2, <2>3, <2>4 DEF AnswersFollow
<1>8. EditsKeptUp'
  <2>1. ASSUME Tracks
        PROVE  /\ shown'.of # Nothing => shown'.ver >= owed'[shown'.of]
               /\ \A q \in Reads : ~(read'[q].live /\ read'[q].st = "served")
    <3>1. pane.clears /\ ~given /\ ~pane.shared
      BY <1>1, <2>1 DEF Tracks, PaneFacts
    <3> QED
      BY <1>2, <3>1, PaneNumbers
  <2>2. Given(s)' => given
    BY DEF Given
  <2>3. given => shown'.of = s /\ shown'.ver >= owed'[s] /\ ~Awaiting'
    BY <1>2, <1>4
  <2>4. Tracks' = Tracks
    BY DEF Tracks
  <2> QED
    BY <2>1, <2>2, <2>3, <2>4 DEF EditsKeptUp
<1> QED
  BY <1>3, <1>5, <1>6, <1>7, <1>8 DEF PaneIInv

\* What a step has to do with.
PaneGround ==
  /\ PaneFacts(pane) /\ pane \in PaneRecs /\ pane \in Panes
  /\ subject \in Things \cup {Nothing} /\ failed \in Things \cup {Nothing}
  /\ shown \in AnswerRecs /\ read \in [Reads -> ReadRecs] /\ edit \in [Edits -> EditRecs]
  /\ rows \subseteq Things
  /\ version \in [Things -> Versions] /\ owed \in [Things -> Versions]
  /\ \A x \in Things : version[x] \in Nat /\ owed[x] \in Nat
  /\ ReadsFollow /\ EditsFollow /\ VersionsAgree /\ AnswersFollow /\ EditsKeptUp

\* It has the invariant.
LEMMA PaneHas == PaneIInv => PaneGround
<1> SUFFICES ASSUME PaneIInv PROVE PaneGround
  OBVIOUS
<1>1. version \in [Things -> Versions] /\ owed \in [Things -> Versions]
  BY PaneTypes DEF PaneIInv
<1>2. \A x \in Things : version[x] \in Nat /\ owed[x] \in Nat
  BY <1>1, PaneNumbers
<1> QED
  BY <1>1, <1>2, PaneTypes DEF PaneIInv, PaneGround

\* The subject changes.
LEMMA ShowKeeps ==
  ASSUME PaneIInv, NEW s \in Things, Show(s)
  PROVE  PaneIInv'
<1>1. PaneGround
  BY PaneHas
<1>2. /\ s # subject /\ (pane.many \/ s = 1) /\ subject' = s /\ Effect(s, Given(s))
      /\ UNCHANGED <<pane, rows, version, edit, owed>>
  BY DEF Show
<1>3. EditsFollow'
  <2>1. ASSUME NEW e \in Edits, edit[e].at PROVE pane.many
    <3>1. pane.edits = "listed" \/ subject # Nothing
      BY <1>1, <2>1 DEF PaneGround, EditsFollow
    <3>2. pane.edits = "listed" => pane.many
      BY <1>1 DEF PaneGround, PaneFacts
    <3>3. ~pane.many => s = 1 /\ subject \in {Nothing, 1}
      BY <1>1, <1>2 DEF PaneGround, ReadsFollow
    <3> QED
      BY <1>2, <3>1, <3>2, <3>3
  <2>2. s # Nothing
    BY PaneNumbers
  <2> QED
    BY <1>1, <1>2, <2>1, <2>2 DEF PaneGround, EditsFollow
<1>4. Given(s) \in BOOLEAN /\ Given(s) = (pane.edits = "listed" /\ s \in rows')
  BY <1>2 DEF Given
<1>5. \A x \in Things : /\ owed[x] <= owed'[x] /\ owed'[x] <= version[x]
                        /\ pane.edits = "none" => owed'[x] = 0
  BY <1>1, <1>2 DEF PaneGround, VersionsAgree
<1>6. /\ rows' \subseteq Things /\ edit' \in [Edits -> EditRecs] /\ owed' \in [Things -> Versions]
      /\ pane' = pane /\ version' = version
  BY <1>1, <1>2 DEF PaneGround
<1> QED
  BY <1>2, <1>3, <1>4, <1>5, <1>6, EffectKeeps

\* The list beside the pane takes a row or brings it.
LEMMA ListReadKeeps ==
  ASSUME PaneIInv, NEW s \in Things, ListRead(s)
  PROVE  PaneIInv'
<1>1. PaneGround
  BY PaneHas
<1>2. /\ pane.edits = "listed" /\ rows' = IF s \in rows THEN rows \ {s} ELSE rows \cup {s}
      /\ IF s = subject THEN Effect(s, s \notin rows) ELSE UNCHANGED <<shown, failed, read>>
      /\ UNCHANGED <<pane, subject, version, edit, owed>>
  BY DEF ListRead
<1>3. /\ rows' \subseteq Things /\ (s \notin rows <=> s \in rows')
      /\ \A x \in Things \ {s} : x \in rows' <=> x \in rows
  BY <1>1, <1>2 DEF PaneGround
<1>4. pane.many
  BY <1>1, <1>2 DEF PaneGround, PaneFacts
<1>5. EditsFollow'
  BY <1>1, <1>2, <1>4 DEF PaneGround, EditsFollow
<1>6. CASE s = subject
  <2>1. Effect(s, s \notin rows)
    BY <1>2, <1>6
  <2>2. /\ (s \notin rows) \in BOOLEAN
        /\ (s \notin rows) = (pane.edits = "listed" /\ s \in rows')
    BY <1>2, <1>3
  <2>3. \A x \in Things : /\ owed[x] <= owed'[x] /\ owed'[x] <= version[x]
                          /\ pane.edits = "none" => owed'[x] = 0
    BY <1>1, <1>2 DEF PaneGround, VersionsAgree
  <2>4. /\ edit' \in [Edits -> EditRecs] /\ owed' \in [Things -> Versions] /\ subject' = s
        /\ pane' = pane /\ version' = version
    BY <1>1, <1>2, <1>6 DEF PaneGround
  <2> QED
    BY <1>3, <1>4, <1>5, <2>1, <2>2, <2>3, <2>4, EffectKeeps
<1>7. CASE s # subject
  <2>1. UNCHANGED <<pane, subject, shown, failed, read, version, edit, owed>>
    BY <1>2, <1>7
  <2>2. PaneTypeOK'
    BY <1>1, <1>3, <2>1, PaneTypedNext DEF PaneGround
  <2>3. Awaiting' = Awaiting
    BY <2>1 DEF Awaiting
  <2>4. ReadsFollow' /\ VersionsAgree' /\ AnswersFollow'
    <3>1. ReadsFollow'
      BY <1>1, <2>1 DEF PaneGround, ReadsFollow
    <3>2. VersionsAgree'
      BY <1>1, <2>1 DEF PaneGround, VersionsAgree, IsAnswer
    <3>3. AnswersFollow'
      BY <1>1, <2>1, <2>3 DEF PaneGround, AnswersFollow
    <3> QED
      BY <3>1, <3>2, <3>3
  <2>5. EditsKeptUp'
    <3>1. subject # Nothing => (Given(subject)' <=> Given(subject))
      BY <1>1, <1>3, <1>7, <2>1 DEF PaneGround, Given
    <3>2. Tracks' = Tracks
      BY <2>1 DEF Tracks
    <3> QED
      BY <1>1, <2>1, <2>3, <3>1, <3>2 DEF PaneGround, EditsKeptUp
  <2> QED
    BY <1>5, <2>2, <2>4, <2>5 DEF PaneIInv
<1> QED
  BY <1>6, <1>7

\* The pane is closed.
LEMMA HideKeeps ==
  ASSUME PaneIInv, Hide
  PROVE  PaneIInv'
<1>1. PaneGround /\ PaneTypeOK
  BY PaneHas DEF PaneIInv
<1>2. /\ subject' = Nothing /\ read' = Abandon /\ shown' = NoAnswer /\ failed' = Nothing
      /\ edit' = [e \in Edits |-> [edit[e] EXCEPT !.at = edit[e].at /\ pane.edits = "listed"]]
      /\ UNCHANGED <<pane, rows, version, owed>>
  BY DEF Hide
<1>3. /\ read' \in [Reads -> ReadRecs]
      /\ \A q \in Reads : /\ read'[q].st = read[q].st /\ read'[q].of = read[q].of
                          /\ read'[q].ver = read[q].ver /\ read'[q].live = FALSE
  BY <1>1, <1>2, AbandonIs
<1>4. /\ edit' \in [Edits -> EditRecs]
      /\ \A e \in Edits : /\ edit'[e].st = edit[e].st /\ edit'[e].of = edit[e].of
                          /\ edit'[e].ver = edit[e].ver
                          /\ edit'[e].at => edit[e].at /\ pane.edits = "listed"
  <2>1. \A e \in Edits : (edit[e].at /\ pane.edits = "listed") \in BOOLEAN
    OBVIOUS
  <2>2. edit \in [Edits -> EditRecs]
    BY <1>1 DEF PaneGround
  <2> QED
    BY <1>2, <2>1, <2>2 DEF EditRecs
<1>5. ~Awaiting'
  BY <1>3 DEF Awaiting
<1>6. PaneTypeOK'
  BY <1>1, <1>2, <1>3, <1>4, PaneNumbers, PaneTypedNext DEF PaneGround
<1>7. ReadsFollow'
  BY <1>1, <1>2, <1>3 DEF PaneGround, ReadsFollow
<1>8. EditsFollow'
  <2>1. \A e \in Edits : edit'[e].at => edit'[e].st # "none" /\ pane.edits = "listed"
    BY <1>1, <1>4 DEF PaneGround, EditsFollow
  <2>2. \A e \in Edits :
          edit'[e].st # "none" =>
            edit'[e].of # Nothing /\ pane.edits # "none" /\ version[edit'[e].of] > 0
    BY <1>1, <1>4 DEF PaneGround, EditsFollow
  <2>3. \A e \in Edits : edit'[e].st = "done" =>
          /\ edit'[e].ver \in 1..version[edit'[e].of]
          /\ pane.split \/ edit'[e].ver >= owed[edit'[e].of]
    BY <1>1, <1>4 DEF PaneGround, EditsFollow
  <2>4. \A e, d \in Edits : pane.split \/ d = e \/ edit'[e].st = "none" \/ edit'[d].st = "none"
    BY <1>1, <1>4 DEF PaneGround, EditsFollow
  <2> QED
    BY <1>2, <1>5, <2>1, <2>2, <2>3, <2>4 DEF EditsFollow
<1>9. VersionsAgree'
  BY <1>1, <1>2, <1>3, PaneNumbers DEF PaneGround, VersionsAgree, IsAnswer
<1>10. AnswersFollow'
  BY <1>2 DEF AnswersFollow
<1>11. EditsKeptUp'
  BY <1>2, <1>3, PaneNumbers DEF EditsKeptUp
<1> QED
  BY <1>6, <1>7, <1>8, <1>9, <1>10, <1>11 DEF PaneIInv

\* A step that leaves what the pane shows and waits for, and only moves an edit.
LEMMA EditOnlyKeeps ==
  ASSUME PaneIInv, UNCHANGED <<pane, subject, shown, failed, read, rows>>,
         edit' \in [Edits -> EditRecs], EditsFollow',
         version' \in [Things -> Versions], VersionsAgree',
         owed' \in [Things -> Versions],
         \A x \in Things : owed[x] <= owed'[x],
         Tracks => UNCHANGED owed,
         subject # Nothing /\ Given(subject) => owed'[subject] = owed[subject]
  PROVE  PaneIInv'
<1>1. PaneGround
  BY PaneHas
<1>2. PaneTypeOK'
  BY <1>1, PaneTypedNext DEF PaneGround
<1>3. Awaiting' = Awaiting
  BY DEF Awaiting
<1>4. ReadsFollow'
  BY <1>1 DEF PaneGround, ReadsFollow
<1>5. AnswersFollow'
  <2>1. shown.of # Nothing => shown.of \in Things
    BY <1>1 DEF PaneGround, AnswerRecs
  <2>2. \A x \in Things : owed[x] > 0 => owed'[x] > 0
    <3>1. \A x \in Things : owed[x] \in Nat /\ owed'[x] \in Nat
      BY <1>1, PaneNumbers DEF PaneGround
    <3> QED
      BY <3>1
  <2> QED
    BY <1>1, <1>3, <2>1, <2>2 DEF PaneGround, AnswersFollow
<1>6. EditsKeptUp'
  <2>1. Tracks' = Tracks /\ Given(subject)' = Given(subject)
    BY DEF Tracks, Given
  <2> QED
    BY <1>1, <1>3, <2>1 DEF PaneGround, EditsKeptUp
<1> QED
  BY <1>2, <1>4, <1>5, <1>6 DEF PaneIInv

\* The user does something here.
LEMMA EditShownKeeps ==
  ASSUME PaneIInv, NEW e \in Edits, EditShown(e)
  PROVE  PaneIInv'
<1>1. PaneGround
  BY PaneHas
<1>2. /\ pane.edits # "none" /\ subject # Nothing /\ Sight = "data" /\ shown.of = subject
      /\ edit[e] = NoEdit /\ (pane.split \/ \A d \in Edits : edit[d] = NoEdit)
      /\ edit' = [edit EXCEPT ![e] = [st |-> "sent", of |-> subject, ver |-> 0, at |-> TRUE]]
      /\ UNCHANGED <<pane, subject, shown, failed, read, rows, version, owed>>
  BY DEF EditShown
<1>3. ~Awaiting /\ shown # NoAnswer /\ shown.ver # 0
  <2>1. pane.clears
    BY <1>1, <1>2 DEF PaneGround, PaneFacts
  <2>2. pane.fails \in {"told", "empty", "waits", "hides"}
    BY <1>1 DEF PaneGround, PaneRecs
  <2> QED
    BY <1>2, <2>1, <2>2 DEF Sight
<1>4. subject \in Things /\ version[subject] > 0
  <2>1. subject \in Things /\ version[subject] \in Nat /\ shown.ver \in Nat
    BY <1>1, <1>2, PaneNumbers DEF PaneGround, AnswerRecs
  <2>2. shown.ver <= version[subject]
    BY <1>1, <1>2 DEF PaneGround, VersionsAgree, IsAnswer
  <2> QED
    BY <1>3, <2>1, <2>2
<1>5. /\ edit' \in [Edits -> EditRecs]
      /\ edit'[e].st = "sent" /\ edit'[e].of = subject /\ edit'[e].at = TRUE
      /\ \A d \in Edits \ {e} : edit'[d] = edit[d]
  BY <1>1, <1>2, <1>4, PaneNumbers DEF PaneGround, EditRecs
<1>6. Awaiting' = Awaiting
  BY <1>2 DEF Awaiting
<1>7. EditsFollow'
  <2>1. SUFFICES ASSUME NEW d \in Edits
                 PROVE  /\ edit'[d].st # "none" =>
                             edit'[d].of # Nothing /\ pane.edits # "none" /\ version[edit'[d].of] > 0
                        /\ edit'[d].at =>
                             /\ edit'[d].st # "none"
                             /\ pane.edits # "listed" => subject # Nothing
                             /\ pane.many \/ ~Awaiting
                        /\ edit'[d].st = "done" =>
                             /\ edit'[d].ver \in 1..version[edit'[d].of]
                             /\ pane.split \/ edit'[d].ver >= owed[edit'[d].of]
                        /\ pane.split \/ \A f \in Edits :
                             f = d \/ edit'[d].st = "none" \/ edit'[f].st = "none"
    BY <1>2, <1>6 DEF EditsFollow
  <2>2. pane.split \/ \A f \in Edits : f # e => edit'[f].st = "none"
    BY <1>2, <1>5, PaneNumbers
  <2>3. CASE d = e
    BY <1>2, <1>3, <1>4, <1>5, <2>2, <2>3
  <2>4. CASE d # e
    <3>1. edit'[d] = edit[d]
      BY <1>5, <2>4
    <3> QED
      BY <1>1, <2>2, <2>4, <3>1 DEF PaneGround, EditsFollow
  <2> QED
    BY <2>3, <2>4
<1>8. VersionsAgree'
  BY <1>1, <1>2 DEF PaneGround, VersionsAgree, IsAnswer
<1>9. /\ version' \in [Things -> Versions] /\ owed' \in [Things -> Versions]
      /\ \A x \in Things : owed[x] <= owed'[x]
  BY <1>1, <1>2 DEF PaneGround
<1> QED
  BY <1>2, <1>5, <1>7, <1>8, <1>9, EditOnlyKeeps

\* An edit moves on, and the others stay.
LEMMA EditMovesOn ==
  ASSUME PaneIInv, UNCHANGED <<pane, subject, read>>, NEW e \in Edits,
         edit' \in [Edits -> EditRecs], \A d \in Edits \ {e} : edit'[d] = edit[d],
         edit'[e].st # "none" => edit[e].st # "none" /\ edit'[e].of = edit[e].of,
         edit'[e].at => edit[e].at /\ edit'[e].st # "none",
         edit'[e].st = "done" => /\ edit'[e].ver \in 1..version'[edit'[e].of]
                                 /\ pane.split \/ edit'[e].ver >= owed'[edit'[e].of],
         version' \in [Things -> Versions],
         \A x \in Things : version[x] <= version'[x],
         \A d \in Edits \ {e} : edit[d].st = "done" =>
           pane.split \/ edit[d].ver >= owed'[edit[d].of]
  PROVE  EditsFollow'
<1>1. PaneGround
  BY PaneHas
<1>2. Awaiting' = Awaiting
  BY DEF Awaiting
<1>3. SUFFICES ASSUME NEW d \in Edits
               PROVE  /\ edit'[d].st # "none" =>
                           edit'[d].of # Nothing /\ pane.edits # "none" /\ version'[edit'[d].of] > 0
                      /\ edit'[d].at =>
                           /\ edit'[d].st # "none"
                           /\ pane.edits # "listed" => subject # Nothing
                           /\ pane.many \/ ~Awaiting
                      /\ edit'[d].st = "done" =>
                           /\ edit'[d].ver \in 1..version'[edit'[d].of]
                           /\ pane.split \/ edit'[d].ver >= owed'[edit'[d].of]
                      /\ pane.split \/ \A f \in Edits :
                           f = d \/ edit'[d].st = "none" \/ edit'[f].st = "none"
  BY <1>2 DEF EditsFollow
<1>4. pane.split \/ \A f \in Edits : f = d \/ edit'[d].st = "none" \/ edit'[f].st = "none"
  BY <1>1 DEF PaneGround, EditsFollow
<1>5. edit[d].of \in Things \cup {Nothing} /\ edit[d].ver \in Nat
  BY <1>1, PaneNumbers DEF PaneGround, EditRecs
<1>6. edit[d].st # "none" =>
        /\ edit[d].of \in Things /\ edit[d].of # Nothing /\ pane.edits # "none"
        /\ version[edit[d].of] > 0
  BY <1>1, <1>5 DEF PaneGround, EditsFollow
<1>7. \A x \in Things : /\ version[x] \in Nat /\ version'[x] \in Nat
                        /\ version[x] > 0 => version'[x] > 0
  <2>1. \A x \in Things : version[x] \in Nat /\ version'[x] \in Nat
    BY <1>1, PaneNumbers DEF PaneGround
  <2> QED
    BY <2>1
<1>8. CASE d = e
  <2>1. edit'[d].at =>
           /\ pane.edits # "listed" => subject # Nothing
           /\ pane.many \/ ~Awaiting
    BY <1>1, <1>8 DEF PaneGround, EditsFollow
  <2> QED
    BY <1>4, <1>6, <1>7, <1>8, <2>1
<1>9. CASE d # e
  <2>1. edit'[d] = edit[d]
    BY <1>9
  <2>2. edit[d].at =>
           /\ edit[d].st # "none" /\ (pane.edits # "listed" => subject # Nothing)
           /\ pane.many \/ ~Awaiting
    BY <1>1 DEF PaneGround, EditsFollow
  <2>3. edit[d].st = "done" => edit[d].ver \in 1..version'[edit[d].of]
    <3>1. edit[d].st = "done" => edit[d].ver \in 1..version[edit[d].of]
      BY <1>1 DEF PaneGround, EditsFollow
    <3> QED
      BY <1>5, <1>6, <1>7, <3>1
  <2> QED
    BY <1>4, <1>6, <1>7, <1>9, <2>1, <2>2, <2>3
<1> QED
  BY <1>8, <1>9

\* The server's answer to an edit.
LEMMA ServeEditKeeps ==
  ASSUME PaneIInv, NEW e \in Edits, ServeEdit(e)
  PROVE  PaneIInv'
<1>1. PaneGround
  BY PaneHas
<1> DEFINE x == edit[e].of
<1>2. edit[e].st = "sent" /\ UNCHANGED <<pane, subject, shown, failed, read, rows, owed>>
  BY DEF ServeEdit
<1>3. x \in Things /\ version[x] > 0 /\ version[x] \in Nat
  <2>1. x \in Things \cup {Nothing}
    BY <1>1 DEF PaneGround, EditRecs
  <2>2. x # Nothing /\ version[x] > 0
    BY <1>1, <1>2 DEF PaneGround, EditsFollow
  <2> QED
    BY <1>1, <2>1, <2>2 DEF PaneGround
<1>4. \A d \in Edits \ {e} : edit[d].st = "done" =>
        pane.split \/ edit[d].ver >= owed'[edit[d].of]
  BY <1>1, <1>2 DEF PaneGround, EditsFollow
<1>5. owed' \in [Things -> Versions] /\ \A y \in Things : owed[y] <= owed'[y]
  BY <1>1, <1>2 DEF PaneGround
<1>6. CASE /\ version[x] < MaxVersion /\ version' = [version EXCEPT ![x] = @ + 1]
           /\ edit' = [edit EXCEPT ![e] = [@ EXCEPT !.st = "done", !.ver = version[x] + 1]]
  <2>1. version[x] + 1 \in Versions
    BY <1>3, <1>6, PaneNumbers DEF Versions
  <2>2. /\ version' \in [Things -> Versions] /\ version'[x] = version[x] + 1
        /\ \A y \in Things \ {x} : version'[y] = version[y]
    BY <1>1, <1>3, <1>6, <2>1 DEF PaneGround
  <2>3. /\ edit' \in [Edits -> EditRecs]
        /\ edit'[e].st = "done" /\ edit'[e].ver = version[x] + 1
        /\ edit'[e].of = x /\ edit'[e].at = edit[e].at
        /\ \A d \in Edits \ {e} : edit'[d] = edit[d]
    BY <1>1, <1>6, <2>1 DEF PaneGround, EditRecs
  <2>4. \A y \in Things : version[y] <= version'[y] /\ version[y] \in Nat /\ owed[y] <= version'[y]
    <3>1. \A y \in Things : version[y] \in Nat /\ owed[y] \in Nat /\ owed[y] <= version[y]
      BY <1>1 DEF PaneGround, VersionsAgree
    <3> QED
      BY <2>2, <3>1
  <2>5. edit'[e].ver \in 1..version'[x] /\ edit'[e].ver >= owed'[x]
    <3>1. owed[x] \in Nat /\ owed[x] <= version[x]
      BY <1>1, <1>3 DEF PaneGround, VersionsAgree
    <3> QED
      BY <1>2, <1>3, <2>2, <2>3, <3>1
  <2> HIDE DEF x
  <2>6. EditsFollow'
    BY <1>2, <1>4, <2>2, <2>3, <2>4, <2>5, EditMovesOn DEF x
  <2>7. ASSUME NEW of \in Things, NEW ver \in Nat, IsAnswer(of, ver)
        PROVE  ver <= version'[of] /\ (ver = 0 => version'[of] = 0 \/ pane.capped)
    <3>1. of = x => ver # 0 \/ pane.capped
      BY <1>3, <2>7 DEF IsAnswer
    <3> QED
      BY <2>2, <2>4, <2>7, <3>1 DEF IsAnswer
  <2>8. VersionsAgree'
    <3>1. shown.of # Nothing => shown.of \in Things /\ shown.ver \in Nat
      BY <1>1, PaneNumbers DEF PaneGround, AnswerRecs
    <3>2. \A r \in Reads : read[r].ver \in Nat /\ (read[r].st = "served" => read[r].of \in Things)
      <4>1. \A r \in Reads : read[r].ver \in Nat /\ read[r].of \in Things \cup {Nothing}
        BY <1>1, PaneNumbers DEF PaneGround, ReadRecs
      <4> QED
        BY <1>1, <4>1 DEF PaneGround, ReadsFollow
    <3>3. shown.of = Nothing => shown = NoAnswer
      BY <1>1 DEF PaneGround, VersionsAgree
    <3>4. shown.of # Nothing => IsAnswer(shown.of, shown.ver)'
      <4>1. shown.of # Nothing => IsAnswer(shown.of, shown.ver)
        BY <1>1 DEF PaneGround, VersionsAgree
      <4> QED
        BY <1>2, <2>7, <3>1, <4>1 DEF IsAnswer
    <3>5. \A r \in Reads : read[r].st = "served" => IsAnswer(read[r].of, read[r].ver)'
      <4>1. \A r \in Reads : read[r].st = "served" => IsAnswer(read[r].of, read[r].ver)
        BY <1>1 DEF PaneGround, VersionsAgree
      <4> QED
        BY <1>2, <2>7, <3>2, <4>1 DEF IsAnswer
    <3>6. \A s \in Things : pane.edits = "none" => owed[s] = 0
      BY <1>1 DEF PaneGround, VersionsAgree
    <3> QED
      BY <1>2, <2>4, <3>3, <3>4, <3>5, <3>6 DEF VersionsAgree
  <2> QED
    BY <1>2, <1>5, <2>2, <2>3, <2>6, <2>8, EditOnlyKeeps
<1>7. CASE edit' = [edit EXCEPT ![e].st = "refused"] /\ UNCHANGED version
  <2>1. /\ edit' \in [Edits -> EditRecs]
        /\ edit'[e].st = "refused" /\ edit'[e].of = x /\ edit'[e].at = edit[e].at
        /\ \A d \in Edits \ {e} : edit'[d] = edit[d]
    BY <1>1, <1>7 DEF PaneGround, EditRecs
  <2>2. /\ version' \in [Things -> Versions] /\ owed' \in [Things -> Versions]
        /\ \A y \in Things : version[y] <= version'[y]
    BY <1>1, <1>2, <1>7 DEF PaneGround
  <2>3. EditsFollow'
    BY <1>2, <1>4, <2>1, <2>2, EditMovesOn
  <2>4. VersionsAgree'
    BY <1>1, <1>2, <1>7 DEF PaneGround, VersionsAgree, IsAnswer
  <2> QED
    BY <1>2, <1>5, <2>1, <2>2, <2>3, <2>4, EditOnlyKeeps
<1> QED
  BY <1>6, <1>7 DEF ServeEdit

\* An edit is refused.
LEMMA EditFailedKeeps ==
  ASSUME PaneIInv, NEW e \in Edits, EditFailed(e)
  PROVE  PaneIInv'
<1>1. PaneGround
  BY PaneHas
<1>2. /\ edit[e].st = "refused" /\ edit' = [edit EXCEPT ![e] = NoEdit]
      /\ UNCHANGED <<pane, subject, shown, failed, read, rows, version, owed>>
  BY DEF EditFailed
<1>3. /\ edit' \in [Edits -> EditRecs] /\ edit'[e].st = "none" /\ edit'[e].at = FALSE
      /\ \A d \in Edits \ {e} : edit'[d] = edit[d]
  BY <1>1, <1>2, PaneNumbers DEF PaneGround
<1>4. /\ version' \in [Things -> Versions] /\ owed' \in [Things -> Versions]
      /\ \A y \in Things : version[y] <= version'[y] /\ owed[y] <= owed'[y]
  BY <1>1, <1>2 DEF PaneGround
<1>5. EditsFollow'
  <2>1. \A d \in Edits \ {e} : edit[d].st = "done" =>
          pane.split \/ edit[d].ver >= owed'[edit[d].of]
    BY <1>1, <1>2 DEF PaneGround, EditsFollow
  <2> QED
    BY <1>2, <1>3, <1>4, <2>1, EditMovesOn
<1>6. VersionsAgree'
  BY <1>1, <1>2 DEF PaneGround, VersionsAgree, IsAnswer
<1> QED
  BY <1>2, <1>3, <1>4, <1>5, <1>6, EditOnlyKeeps

\* What the user is told of an edit that is done.
LEMMA ToldIs ==
  ASSUME PaneIInv, NEW e \in Edits, edit[e].st = "done"
  PROVE  /\ Told(edit[e]) \in [Things -> Versions]
         /\ edit[e].of \in Things /\ edit[e].ver \in 1..version[edit[e].of]
         /\ \A x \in Things : /\ owed[x] <= Told(edit[e])[x] /\ Told(edit[e])[x] <= version[x]
                              /\ Told(edit[e])[x] \in Nat
                              /\ x # edit[e].of => Told(edit[e])[x] = owed[x]
         /\ ~edit[e].at => Told(edit[e]) = owed
         /\ edit[e].at => Told(edit[e])[edit[e].of] >= edit[e].ver
         /\ pane.split \/ Told(edit[e])[edit[e].of] <= edit[e].ver
<1>1. PaneGround
  BY PaneHas
<1> DEFINE x == edit[e].of
           v == edit[e].ver
<1>2. /\ x \in Things /\ v \in 1..version[x] /\ v \in Versions /\ v \in Nat
      /\ pane.split \/ v >= owed[x]
  <2>1. x \in Things \cup {Nothing} /\ v \in Versions
    BY <1>1 DEF PaneGround, EditRecs
  <2>2. x # Nothing /\ v \in 1..version[x] /\ (pane.split \/ v >= owed[x])
    BY <1>1 DEF PaneGround, EditsFollow
  <2> QED
    BY <2>1, <2>2, PaneNumbers
<1>3. \A y \in Things : owed[y] \in Nat /\ version[y] \in Nat /\ owed[y] <= version[y]
  BY <1>1 DEF PaneGround, VersionsAgree
<1>4. owed \in [Things -> Versions]
  BY <1>1 DEF PaneGround
<1>5. Told(edit[e]) = IF edit[e].at /\ v > owed[x] THEN [owed EXCEPT ![x] = v] ELSE owed
  BY DEF Told
<1> HIDE DEF x, v
<1>6. CASE edit[e].at /\ v > owed[x]
  <2>1. Told(edit[e]) = [owed EXCEPT ![x] = v]
    BY <1>5, <1>6
  <2> QED
    BY <1>2, <1>3, <1>4, <1>6, <2>1 DEF x, v
<1>7. CASE ~(edit[e].at /\ v > owed[x])
  <2>1. Told(edit[e]) = owed
    BY <1>5, <1>7
  <2>2. edit[e].at => owed[x] >= v
    BY <1>2, <1>3, <1>7
  <2> QED
    BY <1>2, <1>3, <1>4, <2>1, <2>2 DEF x, v
<1> QED
  BY <1>6, <1>7

\* An edit ends: read again, taken, taken from the list, or dropped.
LEMMA EditDoneKeeps ==
  ASSUME PaneIInv, NEW e \in Edits, EditDone(e)
  PROVE  PaneIInv'
<1>1. PaneGround
  BY PaneHas
<1>2. /\ edit[e].st = "done" /\ edit' = [edit EXCEPT ![e] = NoEdit] /\ owed' = Told(edit[e])
      /\ UNCHANGED <<pane, subject, rows, version>>
  BY DEF EditDone
<1>3. /\ edit' \in [Edits -> EditRecs] /\ edit'[e].st = "none" /\ edit'[e].at = FALSE
      /\ \A d \in Edits \ {e} : edit'[d] = edit[d]
  BY <1>1, <1>2, PaneNumbers DEF PaneGround
<1>4. /\ owed' \in [Things -> Versions] /\ version' \in [Things -> Versions]
      /\ rows' \subseteq Things /\ edit[e].of \in Things /\ edit[e].ver \in 1..version[edit[e].of]
      /\ \A x \in Things : /\ owed[x] <= owed'[x] /\ owed'[x] <= version[x] /\ owed'[x] \in Nat
                           /\ x # edit[e].of => owed'[x] = owed[x]
      /\ ~edit[e].at => owed' = owed
      /\ edit[e].at => owed'[edit[e].of] >= edit[e].ver
      /\ pane.split \/ owed'[edit[e].of] <= edit[e].ver
  BY <1>1, <1>2, ToldIs DEF PaneGround
<1>5. pane.edits # "none" /\ (edit[e].at /\ pane.edits # "listed" => subject # Nothing)
      /\ (edit[e].at => pane.many \/ ~Awaiting)
  BY <1>1, <1>2 DEF PaneGround, EditsFollow
<1>6. \A d \in Edits \ {e} : pane.split \/ edit[d].st = "none"
  BY <1>1, <1>2 DEF PaneGround, EditsFollow
\* What the edits are afterwards, if the reads are what they were or no edit is left.
<1>7. ASSUME read' = read PROVE EditsFollow'
  <2>1. \A d \in Edits \ {e} : edit[d].st = "done" =>
          pane.split \/ edit[d].ver >= owed'[edit[d].of]
    BY <1>6
  <2>2. \A y \in Things : version[y] <= version'[y]
    BY <1>1, <1>2 DEF PaneGround
  <2> QED
    BY <1>2, <1>3, <1>4, <1>7, <2>1, <2>2, EditMovesOn
<1>8. ASSUME ~pane.split PROVE EditsFollow'
  <2>1. \A d \in Edits : edit'[d].st = "none" /\ ~edit'[d].at
    <3>1. \A d \in Edits \ {e} : edit[d].st = "none" /\ ~edit[d].at
      BY <1>1, <1>6, <1>8 DEF PaneGround, EditsFollow
    <3> QED
      BY <1>3, <3>1
  <2> QED
    BY <2>1 DEF EditsFollow
<1>9. CASE edit[e].at /\ pane.edits = "refetch"
  <2>1. subject \in Things /\ subject # Nothing /\ ~Given(edit[e].of) /\ pane.edits # "applied"
        /\ ~pane.split /\ (pane.many \/ subject = 1)
    BY <1>1, <1>5, <1>9 DEF PaneGround, Given, PaneFacts, ReadsFollow
  <2>2. Effect(subject, FALSE)
    BY <1>9, <2>1 DEF EditDone
  <2>3. FALSE = (pane.edits = "listed" /\ subject \in rows')
    BY <1>9
  <2> QED
    BY <1>2, <1>3, <1>4, <1>5, <1>8, <2>1, <2>2, <2>3, EffectKeeps
<1>10. CASE edit[e].at /\ pane.edits = "applied"
  <2>1. ~Given(edit[e].of) /\ pane.edits # "refetch" /\ ~Given(subject)
    BY <1>10 DEF Given
  <2>2. shown' = [of |-> edit[e].of, ver |-> edit[e].ver] /\ UNCHANGED <<failed, read>>
    BY <1>10, <2>1 DEF EditDone
  <2>3. edit[e].ver \in Versions /\ edit[e].of # Nothing /\ edit[e].of \in Things
        /\ version[edit[e].of] \in Nat
    BY <1>1, <1>4, PaneNumbers DEF PaneGround, EditRecs
  <2>4. shown' \in AnswerRecs /\ shown'.of = edit[e].of /\ shown'.ver = edit[e].ver
    BY <2>2, <2>3 DEF AnswerRecs
  <2>5. PaneTypeOK'
    BY <1>1, <1>2, <1>3, <1>4, <2>2, <2>4, PaneTypedNext DEF PaneGround
  <2>6. Awaiting' = Awaiting
    BY <2>2 DEF Awaiting
  <2>7. ReadsFollow'
    BY <1>1, <1>2, <2>2 DEF PaneGround, ReadsFollow
  <2>8. VersionsAgree'
    <3>1. IsAnswer(shown.of, shown.ver)'
      BY <1>2, <1>4, <2>3, <2>4 DEF IsAnswer
    <3>2. \A r \in Reads : read[r].st = "served" => IsAnswer(read[r].of, read[r].ver)'
      BY <1>1, <1>2, <2>2 DEF PaneGround, VersionsAgree, IsAnswer
    <3> QED
      BY <1>2, <1>4, <1>5, <2>2, <2>3, <2>4, <3>1, <3>2 DEF VersionsAgree
  <2>9. AnswersFollow'
    <3>1. owed'[edit[e].of] > 0
      BY <1>4, <1>10, <2>3
    <3>2. failed # Nothing /\ subject # Nothing =>
            failed = subject \/ pane.sticks \/ (~pane.clears /\ Awaiting)
      BY <1>1 DEF PaneGround, AnswersFollow
    <3> QED
      BY <1>2, <1>10, <2>2, <2>3, <2>4, <2>6, <3>1, <3>2 DEF AnswersFollow
  <2>10. EditsKeptUp'
    <3>1. ASSUME Tracks
          PROVE  /\ shown'.of # Nothing => shown'.ver >= owed'[shown'.of]
                 /\ \A r \in Reads : ~(read'[r].live /\ read'[r].st = "served")
      <4>1. ~pane.split /\ ~Awaiting
        BY <1>1, <1>5, <1>10, <3>1 DEF Tracks, PaneGround, PaneFacts
      <4>2. shown'.ver >= owed'[shown'.of]
        BY <1>4, <2>3, <2>4, <4>1
      <4>3. \A r \in Reads : ~(read[r].live /\ read[r].st = "served")
        BY <4>1 DEF Awaiting
      <4> QED
        BY <2>2, <4>2, <4>3
    <3>2. Tracks' = Tracks /\ Given(subject)' = Given(subject)
      BY <1>2 DEF Tracks, Given
    <3> QED
      BY <2>1, <3>1, <3>2 DEF EditsKeptUp
  <2> QED
    BY <1>7, <2>2, <2>5, <2>7, <2>8, <2>9, <2>10 DEF PaneIInv
<1>11. CASE edit[e].at /\ Given(edit[e].of) /\ edit[e].of = subject
  <2>1. Effect(subject, TRUE)
    BY <1>11 DEF EditDone, Given
  <2>2. /\ ~pane.split /\ subject \in Things /\ (pane.many \/ subject = 1)
        /\ TRUE = (pane.edits = "listed" /\ subject \in rows')
    BY <1>1, <1>2, <1>4, <1>11 DEF PaneGround, PaneFacts, Given
  <2> QED
    BY <1>2, <1>3, <1>4, <1>5, <1>8, <2>1, <2>2, EffectKeeps
<1>12. CASE /\ ~(edit[e].at /\ pane.edits = "refetch") /\ ~(edit[e].at /\ pane.edits = "applied")
            /\ ~(edit[e].at /\ Given(edit[e].of) /\ edit[e].of = subject)
  <2>1. UNCHANGED <<shown, failed, read>>
    BY <1>12 DEF EditDone
  <2>2. Tracks => UNCHANGED owed
    BY <1>4, <1>12 DEF Tracks
  <2>3. subject # Nothing /\ Given(subject) => owed'[subject] = owed[subject]
    BY <1>1, <1>4, <1>12 DEF Given, PaneGround
  <2>4. VersionsAgree'
    BY <1>1, <1>2, <1>4, <1>5, <2>1 DEF PaneGround, VersionsAgree, IsAnswer
  <2>5. EditsFollow'
    BY <1>7, <2>1
  <2> QED
    BY <1>2, <1>3, <1>4, <2>1, <2>2, <2>3, <2>4, <2>5, EditOnlyKeeps
<1> QED
  BY <1>9, <1>10, <1>11, <1>12

\* The server's answer to a read, or its loss.
LEMMA ServeReadKeeps ==
  ASSUME PaneIInv, NEW r \in Reads, ServeRead(r)
  PROVE  PaneIInv'
<1>1. PaneGround
  BY PaneHas
<1>2. read[r].st = "sent" /\ UNCHANGED <<pane, subject, shown, failed, rows, version, edit, owed>>
  BY DEF ServeRead
<1>3. read[r].of \in Things /\ read[r].of # Nothing
  <2>1. read[r].of \in Things \cup {Nothing} /\ read[r].of # Nothing
    BY <1>1, <1>2 DEF PaneGround, ReadRecs, ReadsFollow
  <2> QED
    BY <2>1
<1>4. /\ read' \in [Reads -> ReadRecs]
      /\ read'[r].st \in {"served", "lost"} /\ read'[r].of = read[r].of
      /\ read'[r].live = read[r].live
      /\ read'[r].st = "served" =>
           \/ read'[r].ver = version[read[r].of]
           \/ pane.capped /\ read'[r].ver = 0
      /\ \A q \in Reads \ {r} : read'[q] = read[q]
  <2>1. CASE \E seen \in {version[read[r].of]} \cup (IF pane.capped THEN {0} ELSE {}) :
               read' = [read EXCEPT ![r] = [@ EXCEPT !.st = "served", !.ver = seen]]
    <3> DEFINE S == {version[read[r].of]} \cup (IF pane.capped THEN {0} ELSE {})
               W(v) == read' = [read EXCEPT ![r] = [@ EXCEPT !.st = "served", !.ver = v]]
    <3>1. \E v \in S : W(v)
      BY <2>1
    <3>2. \A v \in S : v = version[read[r].of] \/ (pane.capped /\ v = 0)
      OBVIOUS
    <3> HIDE DEF S, W
    <3>3. PICK seen \in S : W(seen)
      BY <3>1
    <3>4. read' = [read EXCEPT ![r] = [@ EXCEPT !.st = "served", !.ver = seen]]
      BY <3>3 DEF W
    <3>5. seen \in Versions /\ (seen = version[read[r].of] \/ (pane.capped /\ seen = 0))
      BY <1>1, <1>3, <3>2, <3>3, PaneNumbers DEF PaneGround
    <3>6. /\ read' \in [Reads -> ReadRecs]
          /\ read'[r].st = "served" /\ read'[r].of = read[r].of /\ read'[r].ver = seen
          /\ read'[r].live = read[r].live
          /\ \A q \in Reads \ {r} : read'[q] = read[q]
      BY <1>1, <3>4, <3>5 DEF PaneGround, ReadRecs
    <3> QED
      BY <3>5, <3>6
  <2>2. CASE read' = [read EXCEPT ![r].st = "lost"]
    BY <1>1, <2>2 DEF PaneGround, ReadRecs
  <2> QED
    BY <2>1, <2>2 DEF ServeRead
<1>5. Awaiting' = Awaiting
  <2>1. \A q \in Reads : /\ read'[q].st # "none" <=> read[q].st # "none"
                         /\ read'[q].live = read[q].live
    BY <1>2, <1>4
  <2> QED
    BY <2>1 DEF Awaiting
<1>6. PaneTypeOK'
  BY <1>1, <1>2, <1>4, PaneTypedNext DEF PaneGround
<1>7. ReadsFollow'
  BY <1>1, <1>2, <1>4 DEF PaneGround, ReadsFollow
<1>8. EditsFollow'
  BY <1>1, <1>2, <1>5 DEF PaneGround, EditsFollow
<1>9. VersionsAgree'
  <2>1. read'[r].st = "served" => IsAnswer(read[r].of, read[r].ver)'
    BY <1>1, <1>2, <1>3, <1>4 DEF IsAnswer, PaneGround
  <2>2. \A q \in Reads \ {r} : read'[q].st = "served" => IsAnswer(read[q].of, read[q].ver)'
    BY <1>1, <1>2, <1>4 DEF PaneGround, VersionsAgree, IsAnswer
  <2>3. IsAnswer(shown.of, shown.ver)' = IsAnswer(shown.of, shown.ver)
    BY <1>2 DEF IsAnswer
  <2> QED
    BY <1>1, <1>2, <2>1, <2>2, <2>3 DEF PaneGround, VersionsAgree
<1>10. AnswersFollow'
  BY <1>1, <1>2, <1>5 DEF PaneGround, AnswersFollow
<1>11. EditsKeptUp'
  <2>1. Tracks => ~pane.capped
    BY <1>1 DEF PaneGround, PaneFacts, Tracks
  <2>2. Tracks /\ read'[r].st = "served" => read'[r].ver >= owed[read'[r].of]
    BY <1>1, <1>3, <1>4, <2>1 DEF PaneGround, VersionsAgree
  <2>3. Tracks' = Tracks /\ Given(subject)' = Given(subject)
    BY <1>2 DEF Tracks, Given
  <2>4. ASSUME Tracks
        PROVE  \A q \in Reads :
                 read'[q].live /\ read'[q].st = "served" => read'[q].ver >= owed[read'[q].of]
    BY <1>1, <1>4, <2>2, <2>4 DEF PaneGround, EditsKeptUp
  <2> QED
    BY <1>1, <1>2, <1>5, <2>3, <2>4 DEF PaneGround, EditsKeptUp
<1> QED
  BY <1>6, <1>7, <1>8, <1>9, <1>10, <1>11 DEF PaneIInv

\* A read ends: its answer is shown, its failure is kept, or it finds nobody.
LEMMA ReadEndKeeps ==
  ASSUME PaneIInv, NEW r \in Reads, ReadDone(r) \/ ReadFailed(r)
  PROVE  PaneIInv'
<1>1. PaneGround
  BY PaneHas
<1>2. /\ read[r].st \in {"served", "lost"} /\ read' = [read EXCEPT ![r] = NoRead]
      /\ UNCHANGED <<pane, subject, rows, version, edit, owed>>
  BY DEF ReadDone, ReadFailed
<1>3. /\ read' \in [Reads -> ReadRecs]
      /\ read'[r].st = "none" /\ read'[r].live = FALSE
      /\ \A q \in Reads \ {r} : read'[q] = read[q]
  BY <1>1, <1>2, PaneNumbers DEF PaneGround
<1>4. /\ read[r].of \in Things /\ read[r].of # Nothing /\ read[r].ver \in Versions
      /\ read[r].live => read[r].of = subject
  <2>1. read[r].of \in Things \cup {Nothing} /\ read[r].ver \in Versions
    BY <1>1 DEF PaneGround, ReadRecs
  <2>2. read[r].of # Nothing /\ (read[r].live => read[r].of = subject)
    BY <1>1, <1>2 DEF PaneGround, ReadsFollow
  <2> QED
    BY <2>1, <2>2
<1>5. Awaiting' => Awaiting
  BY <1>3 DEF Awaiting
<1>6. ~read[r].live => (Awaiting => Awaiting')
  BY <1>3 DEF Awaiting
<1>7. ReadsFollow'
  BY <1>1, <1>2, <1>3 DEF PaneGround, ReadsFollow
<1>8. EditsFollow'
  BY <1>1, <1>2, <1>5 DEF PaneGround, EditsFollow
<1>9. Tracks' = Tracks /\ Given(subject)' = Given(subject)
  BY <1>2 DEF Tracks, Given
<1>10. \A q \in Reads : read'[q].st = "served" => IsAnswer(read[q].of, read[q].ver)'
  BY <1>1, <1>2, <1>3 DEF PaneGround, VersionsAgree, IsAnswer
<1>11. ASSUME shown' = shown PROVE VersionsAgree'
  BY <1>1, <1>2, <1>10, <1>11 DEF PaneGround, VersionsAgree, IsAnswer
<1>12. ASSUME shown' = shown PROVE EditsKeptUp'
  BY <1>1, <1>2, <1>3, <1>5, <1>9, <1>12 DEF PaneGround, EditsKeptUp
<1>13. CASE ~read[r].live
  <2>1. UNCHANGED <<shown, failed>>
    BY <1>13 DEF ReadDone, ReadFailed
  <2>2. PaneTypeOK'
    BY <1>1, <1>2, <1>3, <2>1, PaneTypedNext DEF PaneGround
  <2>3. AnswersFollow'
    BY <1>1, <1>2, <1>6, <1>13, <2>1 DEF PaneGround, AnswersFollow
  <2> QED
    BY <1>7, <1>8, <1>11, <1>12, <2>1, <2>2, <2>3 DEF PaneIInv
<1>14. CASE read[r].live /\ ReadDone(r)
  <2>1. /\ read[r].st = "served" /\ shown' = [of |-> read[r].of, ver |-> read[r].ver]
        /\ failed' = IF pane.sticks THEN failed ELSE Nothing
    BY <1>14 DEF ReadDone
  <2>2. shown' \in AnswerRecs /\ shown'.of = subject /\ shown'.ver = read[r].ver
        /\ subject # Nothing /\ read[r].of = subject
    BY <1>4, <1>14, <2>1 DEF AnswerRecs
  <2>3. PaneTypeOK'
    <3>1. failed' \in Things \cup {Nothing}
      BY <1>1, <2>1 DEF PaneGround
    <3> QED
      BY <1>1, <1>2, <1>3, <2>2, <3>1, PaneTypedNext DEF PaneGround
  <2>4. AnswersFollow'
    BY <1>2, <2>1, <2>2 DEF AnswersFollow
  <2>5. VersionsAgree'
    <3>1. IsAnswer(subject, read[r].ver)
      BY <1>1, <2>1, <2>2 DEF PaneGround, VersionsAgree
    <3>2. IsAnswer(shown.of, shown.ver)'
      BY <1>2, <2>2, <3>1 DEF IsAnswer
    <3> QED
      BY <1>1, <1>2, <1>10, <2>2, <3>2 DEF PaneGround, VersionsAgree
  <2>6. EditsKeptUp'
    <3>1. Tracks => read[r].ver >= owed[subject]
      BY <1>1, <1>14, <2>1, <2>2 DEF PaneGround, EditsKeptUp
    <3>2. ~Given(subject)
      <4>1. Awaiting
        BY <1>14, <2>1 DEF Awaiting
      <4> QED
        BY <1>1, <2>2, <4>1 DEF PaneGround, EditsKeptUp
    <3>3. Tracks => \A q \in Reads :
            read'[q].live /\ read'[q].st = "served" => read'[q].ver >= owed[read'[q].of]
      BY <1>1, <1>3 DEF PaneGround, EditsKeptUp
    <3> QED
      BY <1>2, <1>9, <2>2, <3>1, <3>2, <3>3 DEF EditsKeptUp
  <2> QED
    BY <1>7, <1>8, <2>3, <2>4, <2>5, <2>6 DEF PaneIInv
<1>15. CASE read[r].live /\ ReadFailed(r)
  <2>1. failed' = read[r].of /\ shown' = shown /\ read[r].of = subject
    BY <1>4, <1>15 DEF ReadFailed
  <2>2. PaneTypeOK'
    BY <1>1, <1>2, <1>3, <1>4, <2>1, PaneTypedNext DEF PaneGround
  <2>3. AnswersFollow'
    BY <1>1, <1>2, <1>4, <2>1 DEF PaneGround, AnswersFollow
  <2> QED
    BY <1>7, <1>8, <1>11, <1>12, <2>1, <2>2, <2>3 DEF PaneIInv
<1> QED
  BY <1>13, <1>14, <1>15

\* Every step of a pane, of the list beside it and of the server.
LEMMA PaneMoves == PaneIInv /\ [PaneNext]_paneVars => PaneIInv'
<1> SUFFICES ASSUME PaneIInv, [PaneNext]_paneVars PROVE PaneIInv'
  OBVIOUS
<1>1. ASSUME NEW s \in Things, Show(s) \/ ListRead(s) PROVE PaneIInv'
  BY <1>1, ShowKeeps, ListReadKeeps
<1>2. ASSUME NEW r \in Reads, ServeRead(r) \/ ReadDone(r) \/ ReadFailed(r) PROVE PaneIInv'
  BY <1>2, ServeReadKeeps, ReadEndKeeps
<1>3. ASSUME NEW e \in Edits, EditShown(e) \/ ServeEdit(e) \/ EditDone(e) \/ EditFailed(e)
      PROVE  PaneIInv'
  BY <1>3, EditShownKeeps, ServeEditKeeps, EditDoneKeeps, EditFailedKeeps
<1>4. CASE Hide
  BY <1>4, HideKeeps
<1>5. CASE UNCHANGED paneVars
  BY <1>5 DEF paneVars, PaneIInv, PaneTypeOK, ReadsFollow, EditsFollow, VersionsAgree, IsAnswer,
              AnswersFollow, EditsKeptUp, Tracks, Given, Awaiting
<1> QED
  BY <1>1, <1>2, <1>3, <1>4, <1>5 DEF PaneNext

\* What a pane shows, and why.
LEMMA SightIs ==
  ASSUME PaneIInv
  PROVE  /\ Sight = "waiting" =>
              \/ Awaiting
              \/ (failed = Nothing \/ pane.fails = "waits") /\ shown.of = Nothing
         /\ Sight = "error" => failed # Nothing /\ pane.fails = "told"
         /\ Sight = "data" => shown.of # Nothing /\ shown.ver # 0
         /\ Sight = "no rows" =>
              \/ failed # Nothing /\ pane.fails = "empty"
              \/ shown.of # Nothing /\ shown.ver = 0
<1>1. PaneGround
  BY PaneHas
<1>2. pane.fails \in {"told", "empty", "waits", "hides"}
  BY <1>1 DEF PaneGround, PaneRecs
<1>3. shown = NoAnswer <=> shown.of = Nothing
  BY <1>1, PaneNumbers DEF PaneGround, VersionsAgree
<1>4. CASE pane.clears /\ Awaiting
  BY <1>4 DEF Sight
<1>5. CASE ~(pane.clears /\ Awaiting) /\ failed # Nothing /\ pane.fails # "waits"
  BY <1>2, <1>5 DEF Sight
<1>6. CASE ~(pane.clears /\ Awaiting) /\ ~(failed # Nothing /\ pane.fails # "waits")
  <2>1. Sight = IF shown = NoAnswer THEN "waiting" ELSE IF shown.ver = 0 THEN "no rows" ELSE "data"
    BY <1>6 DEF Sight
  <2> QED
    BY <1>3, <1>6, <2>1
<1> QED
  BY <1>4, <1>5, <1>6

\* The invariant gives the promises.
LEMMA PanePromises == PaneIInv => LoadingHasRead /\ ShowsItsSubject /\ NoRowsIsTrue /\ ShowsOwnEdits
<1> SUFFICES ASSUME PaneIInv
             PROVE  LoadingHasRead /\ ShowsItsSubject /\ NoRowsIsTrue /\ ShowsOwnEdits
  OBVIOUS
<1>1. PaneGround
  BY PaneHas
<1>2. LoadingHasRead
  BY <1>1, SightIs DEF LoadingHasRead, PaneGround, AnswersFollow
<1>3. ShowsItsSubject
  <2>1. ASSUME subject # Nothing, Sight \in {"data", "no rows"}
        PROVE  \/ shown.of = subject \/ failed = subject
               \/ (~pane.clears /\ (Awaiting \/ failed # Nothing))
               \/ (pane.edits = "applied" /\ owed[shown.of] > 0)
    <3>1. shown.of # Nothing \/ (failed # Nothing /\ pane.fails = "empty")
      BY <2>1, SightIs
    <3>2. pane.sticks => pane.fails # "empty"
      BY <1>1 DEF PaneGround, PaneFacts
    <3> QED
      BY <1>1, <2>1, <3>1, <3>2 DEF PaneGround, AnswersFollow
  <2>2. ASSUME subject # Nothing, Sight = "error"
        PROVE  failed = subject \/ pane.sticks \/ (~pane.clears /\ Awaiting)
    BY <1>1, <2>2, SightIs DEF PaneGround, AnswersFollow
  <2> QED
    BY <2>1, <2>2 DEF ShowsItsSubject
<1>4. NoRowsIsTrue
  <2> SUFFICES ASSUME subject # Nothing, Sight = "no rows", shown.of = subject,
                      ~pane.capped, pane.fails # "empty"
               PROVE  version[subject] = 0
    BY DEF NoRowsIsTrue
  <2>1. shown.ver = 0
    BY SightIs
  <2> QED
    BY <1>1, <2>1 DEF PaneGround, VersionsAgree, IsAnswer
<1>5. ShowsOwnEdits
  <2> SUFFICES ASSUME subject # Nothing, shown.of = subject, pane.edits # "stale",
                      pane.edits = "listed" => subject \in rows,
                      pane.edits = "applied" => ~pane.many /\ ~pane.split
               PROVE  shown.ver >= owed[subject]
    BY DEF ShowsOwnEdits
  <2>1. subject \in Things /\ shown.ver \in Nat
    BY <1>1, PaneNumbers DEF PaneGround, AnswerRecs
  <2>2. CASE pane.edits = "none"
    BY <1>1, <2>1, <2>2 DEF PaneGround, VersionsAgree
  <2>3. CASE pane.edits = "listed"
    BY <1>1, <2>3 DEF PaneGround, EditsKeptUp, Given
  <2>4. CASE pane.edits \in {"refetch", "applied"}
    BY <1>1, <2>4 DEF PaneGround, EditsKeptUp, Tracks
  <2>5. pane.edits \in {"refetch", "applied", "listed", "stale", "none"}
    BY <1>1 DEF PaneGround, PaneRecs
  <2> QED
    BY <2>2, <2>3, <2>4, <2>5
<1> QED
  BY <1>2, <1>3, <1>4, <1>5

\* The invariant of a pane, over every behaviour.
THEOREM PaneInductive == PaneSpec => []PaneIInv
BY PaneStarts, PaneMoves, PTL DEF PaneSpec

\* A pane that says it is loading waits for an answer, whatever subject, list and failure
\* came in between, unless it hides its failures.
THEOREM LoadingHasReadHolds == PaneSpec => []LoadingHasRead
BY PanePromises, PaneInductive, PTL

\* What is under a heading is the heading's, where the pane does not keep what it showed.
THEOREM ShowsItsSubjectHolds == PaneSpec => []ShowsItsSubject
BY PanePromises, PaneInductive, PTL

\* "No rows" is said of nothing that has some, where a failure or a cap does not say it.
THEOREM NoRowsIsTrueHolds == PaneSpec => []NoRowsIsTrue
BY PanePromises, PaneInductive, PTL

\* A pane that reads again, takes the answer or has the row of the list is never behind
\* what its user was told.
THEOREM ShowsOwnEditsHolds == PaneSpec => []ShowsOwnEdits
BY PanePromises, PaneInductive, PTL

----------------------------------------------------------------------------
(* The screens together. *)

ScreensCore ==
  /\ ListIInv /\ FormIInv /\ KanbanIInv /\ TriageIInv /\ PaneIInv /\ WizardIInv
  /\ FilterIInv /\ RowIInv /\ LinkCore

\* On one screen, the others stay as they are.
LEMMA OneScreenMoves ==
  ASSUME [ScreensNext]_screenVars
  PROVE  /\ [ListNext]_listVars /\ [FormNext]_formVars /\ [WizardNext]_wizardVars
         /\ [PaneNext]_paneVars /\ [LinkNext]_linkVars /\ [TriageNext]_triageVars
         /\ [KanbanNext]_kanbanVars /\ [FilterNext]_filterVars /\ [RowNext]_rowVars
BY DEF ScreensNext, On, screenVars

\* The invariants of the nine, together.
LEMMA ScreensStep == ScreensCore /\ [ScreensNext]_screenVars => ScreensCore'
BY OneScreenMoves, ListMoves, FormMoves, KanbanMoves, TriageMoves, PaneMoves, WizardStep,
   FilterMoves, RowMoves, LinkStep
   DEF ScreensCore

\* Every screen begins as its own module says.
LEMMA ScreensInitial == ScreensInit => ScreensCore
BY ListStarts, FormStarts, KanbanStarts, TriageStarts, PaneStarts, WizardInitial, FilterStarts,
   RowStarts, LinkInitial
   DEF ScreensInit, ScreensCore

\* The invariants of the nine, over every behaviour of the screens.
THEOREM ScreensInductive == ScreensSpec => []ScreensCore
BY ScreensInitial, ScreensStep, PTL DEF ScreensSpec

\* Whatever screen a user is on, the variables of every screen have their types, and what
\* the types relate agrees.
THEOREM ScreensTypeOKHolds == ScreensSpec => []ScreensTypeOK
<1>1. ScreensInit => screen \in Screens
  BY DEF ScreensInit
<1>2. screen \in Screens /\ [ScreensNext]_screenVars => (screen \in Screens)'
  BY DEF ScreensNext, On, screenVars
<1>3. screen \in Screens /\ ScreensCore => ScreensTypeOK
  BY CoreSuffices DEF ScreensCore, ListIInv, FormIInv, KanbanIInv, TriageIInv, PaneIInv,
                      WizardIInv, FilterIInv, RowIInv, LinkIInv, ScreensTypeOK
<1> QED
  BY <1>1, <1>2, <1>3, ScreensInductive, PTL DEF ScreensSpec

\* Whatever screen a user is on, what waits there has a request under way that will end
\* the wait.
THEOREM WaitingHasCauseHolds == ScreensSpec => []WaitingHasCause
<1>1. ScreensCore => WaitingHasCause
  BY ListPromises, PanePromises DEF ScreensCore, FormIInv, WaitingHasCause
<1> QED
  BY <1>1, ScreensInductive, PTL

\* What a screen tells of a request is what became of it.
THEOREM ToldTrueHolds == ScreensSpec => []ToldTrue
<1>1. ScreensCore => ToldTrue
  BY CoreSuffices DEF ScreensCore, FormIInv, WizardIInv, LinkIInv, ToldTrue
<1> QED
  BY <1>1, ScreensInductive, PTL

\* What a form sends is its user's, for this subject, has passed the checks, and is sent
\* once if it may be sent once.
THEOREM SentRightHolds == ScreensSpec => []SentRight
<1>1. ScreensCore => SentRight
  BY CoreSuffices DEF ScreensCore, FormIInv, WizardIInv, LinkIInv, SentRight
<1> QED
  BY <1>1, ScreensInductive, PTL

\* A list shows every row once, and when nothing is under way it shows what the server holds.
THEOREM ListSoundHolds == ScreensSpec => []ListSound
<1>1. ScreensCore => ListSound
  BY ListPromises DEF ScreensCore, ListSound
<1> QED
  BY <1>1, ScreensInductive, PTL

\* The board shows every card once, in the column the server has it in, in the order it
\* will have when it is opened again; the deck's verdicts are the server's, an undo takes
\* back its own verdict, and a swipe lands where it was sent.
THEOREM CardsSoundHolds == ScreensSpec => []CardsSound
<1>1. ScreensCore => CardsSound
  BY KanbanPromises DEF ScreensCore, TriageIInv, CardsSound
<1> QED
  BY <1>1, ScreensInductive, PTL

\* A pane shows the subject chosen last, says that there is nothing only when that is so,
\* and shows what its own user has changed.
THEOREM PaneSoundHolds == ScreensSpec => []PaneSound
<1>1. ScreensCore => PaneSound
  BY PanePromises DEF ScreensCore, PaneSound
<1> QED
  BY <1>1, ScreensInductive, PTL

\* The filters keep their range in order, hide only what they were asked to hide, and come
\* back the same from the address; a row of the editor stays with its requirement, a job
\* keeps the requirements it must have, and tags stay apart.
THEOREM InputsSoundHolds == ScreensSpec => []InputsSound
<1>1. ScreensCore => InputsSound
  BY FilterPromises DEF ScreensCore, RowIInv, InputsSound
<1> QED
  BY <1>1, ScreensInductive, PTL

\* On any screen an answer leaves the form and what was typed in it as they are, unless it
\* is a success that a user overtook, or a refusal that ends the form.
THEOREM EditsKeptOnScreens == ScreensSpec => EditsKept
<1>1. ScreensCore /\ [ScreensNext]_screenVars => [KeepsEdits]_formVars
  BY OneScreenMoves, FormKeepsEdits DEF ScreensCore
<1>2. [][KeepsEdits]_formVars => EditsKept
  BY PTL DEF EditsKept, KeepsEdits
<1> QED
  BY <1>1, <1>2, ScreensInductive, PTL DEF ScreensSpec
============================================================================
