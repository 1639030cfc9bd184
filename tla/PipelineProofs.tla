--------------------------- MODULE PipelineProofs ---------------------------
(***************************************************************************)
(* The safety theorems of Pipeline, for every number of jobs, candidates,  *)
(* applications and overlapping sessions.                                  *)
(***************************************************************************)
EXTENDS MCPipelineOverlap, TLAPS

\* Every status a person may set is one of the enum.
LEMMA SetByHandStatuses == SetByHand \subseteq AppStatuses
  BY TargetsAssumption DEF SetByHand, CompanySettable, AppStatuses, Active, Terminal

\* A read opens a transaction that fits its session and changes no row; so
\* does Abort, with no transaction.
LEMMA ReadPreserves ==
  ASSUME IInv, NEW s \in Sessions, NEW t \in Txns, WellFormed(t), t.op # "sweep",
         txn' = [txn EXCEPT ![s] = t],
         UNCHANGED <<jobVars, profile, appVars, mailed, excused>>
  PROVE  IInv'
<1> USE DEF jobVars, appVars
<1>1. TypeOK'
  BY DEF IInv, TypeOK
<1>2. \A r \in Sessions : txn'[r] = IF r = s THEN t ELSE txn[r]
  BY DEF IInv, TypeOK
<1>3. TxnWellFormed'
  BY <1>2 DEF IInv, TxnWellFormed, WellFormed
<1>4. AppsHaveJobs'
  BY DEF IInv, AppsHaveJobs, Exists, JobExists
<1>5. OneSweepPerJob'
  BY <1>2 DEF IInv, OneSweepPerJob
<1>6. \A j : ActiveOn(j)' = ActiveOn(j)
  BY DEF ActiveOn, On, Exists
<1>7. OneOpenApplicationPerPair'
  BY DEF IInv, OneOpenApplicationPerPair, Blocking, On, Of, Exists
<1>8. ClosedHasAnchor' /\ StrandedHasCause'
  BY <1>6 DEF IInv, ClosedHasAnchor, StrandedHasCause
<1>9. SweepCovers'
  BY <1>2, <1>6 DEF IInv, SweepCovers
<1>10. AppsHaveCandidates'
  BY DEF IInv, AppsHaveCandidates, Exists
<1>11. SweepTells'
  BY <1>2 DEF IInv, SweepTells, Told, Exists
<1> QED
  BY <1>1, <1>3, <1>4, <1>5, <1>7, <1>8, <1>9, <1>10, <1>11 DEF IInv

\* A session that commits is idle; a step outside any session changes none.
\* Either way no new sweep begins.
LEMMA CommitTxn ==
  ASSUME IInv,
         \/ UNCHANGED txn
         \/ \E s \in Sessions : Commit(s)
  PROVE  /\ txn' \in [Sessions -> Txns]
         /\ TxnWellFormed'
         /\ OneSweepPerJob'
         /\ \A r \in Sessions : txn'[r].op = "sweep" => txn'[r] = txn[r]
<1>1. NoTxn \in Txns /\ WellFormed(NoTxn) /\ NoTxn.op = "idle"
  BY DEF NoTxn, Txns, Ops, WellFormed
<1>2. CASE UNCHANGED txn
  BY <1>2 DEF IInv, TypeOK, TxnWellFormed, WellFormed, OneSweepPerJob
<1>3. CASE \E s \in Sessions : Commit(s)
  <2>1. PICK s \in Sessions : txn' = [txn EXCEPT ![s] = NoTxn]
    BY <1>3 DEF Commit
  <2>2. txn' \in [Sessions -> Txns]
    BY <2>1, <1>1 DEF IInv, TypeOK
  <2>3. \A r \in Sessions : txn'[r] = IF r = s THEN NoTxn ELSE txn[r]
    BY <2>1 DEF IInv, TypeOK
  <2>4. TxnWellFormed'
    BY <2>3, <1>1 DEF IInv, TxnWellFormed, WellFormed
  <2>5. OneSweepPerJob'
    BY <2>3, <1>1 DEF IInv, OneSweepPerJob
  <2> QED
    BY <2>2, <2>3, <2>4, <2>5, <1>1
<1> QED
  BY <1>2, <1>3

\* The accounting of stranded applications survives a step that closes no job
\* and starts no sweep, if what becomes active past a sweep is excused.
LEMMA Accounting ==
  ASSUME IInv,
         \A j \in Jobs : job'[j] = "CLOSED" => job[j] = "CLOSED",
         \A s \in Sessions : txn'[s].op = "sweep" => txn'[s] = txn[s],
         \A j \in Jobs : \A a \in ActiveOn(j)' :
           a \in ActiveOn(j) \/ a \in excused' \/ ~PastSweep(j),
         \A j \in Jobs : \A a \in ActiveOn(j)' : a \in excused => a \in excused'
  PROVE  StrandedHasCause' /\ SweepCovers'
<1>1. StrandedHasCause'
  <2> SUFFICES ASSUME NEW j \in Jobs, job'[j] = "CLOSED", NEW a \in ActiveOn(j)'
               PROVE  a \in excused'
    BY DEF StrandedHasCause
  <2>1. job[j] = "CLOSED" /\ PastSweep(j)
    BY DEF PastSweep
  <2> QED
    BY <2>1 DEF IInv, StrandedHasCause
<1>2. SweepCovers'
  <2> SUFFICES ASSUME NEW s \in Sessions, NEW j \in Jobs,
                      txn'[s].op = "sweep", txn'[s].job = j,
                      NEW a \in ActiveOn(j)'
               PROVE  a \in txn'[s].apps \cup excused'
    BY DEF SweepCovers
  <2>1. txn'[s] = txn[s] /\ txn[s].op = "sweep" /\ txn[s].job = j
    OBVIOUS
  <2>2. PastSweep(j)
    BY <2>1 DEF PastSweep, Locked
  <2>3. ActiveOn(j) \subseteq txn[s].apps \cup excused
    BY <2>1 DEF IInv, SweepCovers
  <2> QED
    BY <2>1, <2>2, <2>3
<1> QED
  BY <1>1, <1>2

\* Whom a sweep has left out stays a tombstone through a step that starts no
\* sweep, revives no application and no profile with applications.
LEMMA Telling ==
  ASSUME IInv,
         \A s \in Sessions : txn'[s].op = "sweep" => txn'[s] = txn[s],
         \A a \in Applications : appStatus[a] # "none" =>
           /\ appCand'[a] = appCand[a] /\ appStatus'[a] # "none"
           /\ Exists(a)' => Exists(a),
         \A a \in Applications : Exists(a) /\ Exists(a)' /\ profile[appCand[a]] = "deleted"
           => profile'[appCand[a]] = "deleted"
  PROVE  SweepTells'
<1> SUFFICES ASSUME NEW s \in Sessions, txn'[s].op = "sweep", NEW a \in txn'[s].apps
             PROVE  /\ appStatus'[a] # "none"
                    /\ Exists(a)' => a \in Told(txn[s])' \/ profile'[appCand'[a]] = "deleted"
  BY DEF SweepTells
<1>1. txn'[s] = txn[s] /\ txn[s].op = "sweep" /\ a \in Applications
  BY DEF IInv, TypeOK, Txns
<1>2. /\ appStatus[a] # "none"
      /\ Exists(a) => a \in Told(txn[s]) \/ profile[appCand[a]] = "deleted"
  BY <1>1 DEF IInv, SweepTells
<1> QED
  BY <1>1, <1>2 DEF Told

----------------------------------------------------------------------------
(* Writes that only delete applications. *)

\* Deleting applications takes from every set and excuses nobody new.
LEMMA Deletion ==
  ASSUME IInv, NEW S \in SUBSET Applications,
         WriteStatus(S, "deleted"), Excuse({})
  PROVE  /\ appStatus' \in [Applications -> AppStatuses \cup {"none", "deleted"}]
         /\ excused' \subseteq Applications
         /\ \A a \in Applications :
              Exists(a)' => Exists(a) /\ a \notin S /\ appStatus'[a] = appStatus[a]
         /\ \A j : ActiveOn(j)' \subseteq ActiveOn(j)
         /\ \A j : \A a \in ActiveOn(j)' : a \in excused => a \in excused'
         /\ OneOpenApplicationPerPair'
<1>1. /\ appStatus' = [a \in Applications |-> IF a \in S THEN "deleted" ELSE appStatus[a]]
      /\ appJob' = appJob /\ appCand' = appCand
  BY DEF WriteStatus
<1>2. appStatus' \in [Applications -> AppStatuses \cup {"none", "deleted"}]
  BY <1>1 DEF IInv, TypeOK
<1>3. excused' \subseteq Applications
  BY DEF Excuse, IInv, TypeOK
<1>4. \A a \in Applications :
        Exists(a)' => Exists(a) /\ a \notin S /\ appStatus'[a] = appStatus[a]
  BY <1>1 DEF Exists, AppStatuses, Active, Terminal
<1>5. \A j : ActiveOn(j)' \subseteq ActiveOn(j)
  BY <1>1, <1>4 DEF ActiveOn, On
<1>6. \A j : \A a \in ActiveOn(j)' : a \in excused => a \in excused'
  BY DEF Excuse, ActiveOn
<1>7. OneOpenApplicationPerPair'
  BY <1>1, <1>4 DEF IInv, OneOpenApplicationPerPair, Blocking, On, Of
<1> QED
  BY <1>2, <1>3, <1>4, <1>5, <1>6, <1>7

\* Applications are deleted and the jobs stay: the admin's delete and the purge.
LEMMA DeletionPreserves ==
  ASSUME IInv, NEW S \in SUBSET Applications,
         WriteStatus(S, "deleted"), Excuse({}),
         UNCHANGED <<jobVars, mailed>>,
         profile' \in [Candidates -> ProfileStates],
         \A a \in Applications \ S : Exists(a)
           => profile'[appCand[a]] = profile[appCand[a]],
         UNCHANGED txn \/ \E s \in Sessions : Commit(s)
  PROVE  IInv'
<1>1. /\ txn' \in [Sessions -> Txns] /\ TxnWellFormed' /\ OneSweepPerJob'
      /\ \A r \in Sessions : txn'[r].op = "sweep" => txn'[r] = txn[r]
  BY CommitTxn
<1>2. /\ appStatus' \in [Applications -> AppStatuses \cup {"none", "deleted"}]
      /\ excused' \subseteq Applications
      /\ \A a \in Applications :
           Exists(a)' => Exists(a) /\ a \notin S /\ appStatus'[a] = appStatus[a]
      /\ \A j : ActiveOn(j)' \subseteq ActiveOn(j)
      /\ \A j : \A a \in ActiveOn(j)' : a \in excused => a \in excused'
      /\ OneOpenApplicationPerPair'
  BY Deletion
<1>3. job' = job /\ anchor' = anchor /\ mailed' = mailed
      /\ appJob' = appJob /\ appCand' = appCand
  BY DEF jobVars, WriteStatus
<1>4. TypeOK'
  BY <1>1, <1>2, <1>3 DEF IInv, TypeOK
<1>5. AppsHaveJobs'
  BY <1>2, <1>3 DEF IInv, AppsHaveJobs, JobExists
<1>6. ClosedHasAnchor'
  BY <1>3 DEF IInv, ClosedHasAnchor
<1>7. StrandedHasCause' /\ SweepCovers'
  BY <1>1, <1>2, <1>3, Accounting
<1>8. AppsHaveCandidates'
  BY <1>2, <1>3 DEF IInv, AppsHaveCandidates
<1>9. \A a \in Applications : appStatus[a] # "none" => appStatus'[a] # "none"
  BY DEF WriteStatus
<1>10. SweepTells'
  BY <1>1, <1>2, <1>3, <1>9, Telling
<1> QED
  BY <1>1, <1>2, <1>4, <1>5, <1>6, <1>7, <1>8, <1>10 DEF IInv

\* A job goes with all its applications.
LEMMA RemoveJobPreserves ==
  ASSUME IInv, NEW j \in Jobs, RemoveJob(j),
         UNCHANGED txn \/ \E s \in Sessions : Commit(s)
  PROVE  IInv'
<1>1. /\ txn' \in [Sessions -> Txns] /\ TxnWellFormed' /\ OneSweepPerJob'
      /\ \A r \in Sessions : txn'[r].op = "sweep" => txn'[r] = txn[r]
  BY CommitTxn
<1>2. /\ job' = [job EXCEPT ![j] = "gone"] /\ anchor' = [anchor EXCEPT ![j] = "null"]
      /\ WriteStatus(On(j), "deleted") /\ Excuse({})
      /\ profile' = profile /\ mailed' = mailed
      /\ appJob' = appJob /\ appCand' = appCand
      /\ On(j) \in SUBSET Applications
  BY DEF RemoveJob, WriteStatus, On
<1>3. /\ appStatus' \in [Applications -> AppStatuses \cup {"none", "deleted"}]
      /\ excused' \subseteq Applications
      /\ \A a \in Applications :
           Exists(a)' => Exists(a) /\ a \notin On(j) /\ appStatus'[a] = appStatus[a]
      /\ \A i : ActiveOn(i)' \subseteq ActiveOn(i)
      /\ \A i : \A a \in ActiveOn(i)' : a \in excused => a \in excused'
      /\ OneOpenApplicationPerPair'
  BY <1>2, Deletion
<1>4. \A i \in Jobs : /\ job'[i] = IF i = j THEN "gone" ELSE job[i]
                      /\ anchor'[i] = IF i = j THEN "null" ELSE anchor[i]
  BY <1>2 DEF IInv, TypeOK
<1>5. TypeOK'
  BY <1>1, <1>2, <1>3 DEF IInv, TypeOK
<1>6. AppsHaveJobs'
  BY <1>2, <1>3, <1>4 DEF IInv, AppsHaveJobs, JobExists, On
<1>7. ClosedHasAnchor'
  BY <1>4 DEF IInv, ClosedHasAnchor
<1>8. \A i \in Jobs : job'[i] = "CLOSED" => job[i] = "CLOSED"
  BY <1>4
<1>9. StrandedHasCause' /\ SweepCovers'
  BY <1>1, <1>3, <1>8, Accounting
<1>10. AppsHaveCandidates'
  BY <1>2, <1>3 DEF IInv, AppsHaveCandidates
<1>11. \A a \in Applications : appStatus[a] # "none" => appStatus'[a] # "none"
  BY <1>2 DEF WriteStatus
<1>12. SweepTells'
  BY <1>1, <1>2, <1>3, <1>11, Telling
<1> QED
  BY <1>1, <1>3, <1>5, <1>6, <1>7, <1>9, <1>10, <1>12 DEF IInv
----------------------------------------------------------------------------
(* Writes that no close is part of. *)

LEMMA CreateJobPreserves ==
  ASSUME IInv, NEW j \in Jobs, CreateJob(j)
  PROVE  IInv'
<1>1. PICK st \in JobStatuses : WriteJob(j, st)
  BY DEF CreateJob
<1>2. /\ job[j] = "none"
      /\ job' = [job EXCEPT ![j] = st]
      /\ anchor' = [anchor EXCEPT ![j] = IF st = "CLOSED" THEN "recent" ELSE "null"]
      /\ UNCHANGED <<profile, appVars, mailed, excused, txn>>
  BY <1>1 DEF CreateJob, WriteJob, Stamp
<1>3. TypeOK'
  BY <1>2 DEF IInv, TypeOK, appVars
<1>4. \A i \in Jobs :
        /\ job'[i] = IF i = j THEN st ELSE job[i]
        /\ anchor'[i] = IF i # j THEN anchor[i]
                        ELSE IF st = "CLOSED" THEN "recent" ELSE "null"
  BY <1>2 DEF IInv, TypeOK
<1>5. \A i \in Jobs : JobExists(i) => JobExists(i)'
  BY <1>4 DEF JobExists
<1>6. AppsHaveJobs'
  BY <1>2, <1>5 DEF IInv, AppsHaveJobs, Exists, appVars
<1>7. \A i : ActiveOn(i)' = ActiveOn(i)
  BY <1>2 DEF ActiveOn, On, Exists, appVars
<1>8. ActiveOn(j) = {}
  BY <1>2 DEF IInv, AppsHaveJobs, JobExists, JobStatuses, ActiveOn, On
<1>9. StrandedHasCause'
  BY <1>2, <1>4, <1>7, <1>8 DEF IInv, StrandedHasCause
<1>10. SweepCovers' /\ TxnWellFormed' /\ OneSweepPerJob'
  BY <1>2, <1>7 DEF IInv, SweepCovers, TxnWellFormed, WellFormed, OneSweepPerJob
<1>11. OneOpenApplicationPerPair'
  BY <1>2 DEF IInv, OneOpenApplicationPerPair, Blocking, On, Of, Exists, appVars
<1>12. ClosedHasAnchor'
  BY <1>4 DEF IInv, ClosedHasAnchor
<1>13. AppsHaveCandidates' /\ SweepTells'
  BY <1>2 DEF IInv, AppsHaveCandidates, SweepTells, Told, Exists, appVars
<1> QED
  BY <1>3, <1>6, <1>9, <1>10, <1>11, <1>12, <1>13 DEF IInv

LEMMA AgePreserves ==
  ASSUME IInv, NEW j \in Jobs, Age(j)
  PROVE  IInv'
<1>1. /\ anchor[j] = "recent" /\ anchor' = [anchor EXCEPT ![j] = "old"]
      /\ UNCHANGED <<job, profile, appStatus, appJob, appCand, mailed, excused, txn>>
  BY DEF Age, appVars
<1>2. TypeOK'
  BY <1>1 DEF IInv, TypeOK
<1>3. ClosedHasAnchor'
  BY <1>1 DEF IInv, TypeOK, ClosedHasAnchor
<1>4. \A i : ActiveOn(i)' = ActiveOn(i)
  BY <1>1 DEF ActiveOn, On, Exists
<1>5. StrandedHasCause' /\ SweepCovers'
  BY <1>1, <1>4 DEF IInv, StrandedHasCause, SweepCovers
<1>6. TxnWellFormed' /\ OneSweepPerJob'
  BY <1>1 DEF IInv, TxnWellFormed, WellFormed, OneSweepPerJob
<1>7. AppsHaveJobs' /\ OneOpenApplicationPerPair'
  BY <1>1 DEF IInv, AppsHaveJobs, JobExists, Exists,
              OneOpenApplicationPerPair, Blocking, On, Of
<1>8. AppsHaveCandidates' /\ SweepTells'
  BY <1>1 DEF IInv, AppsHaveCandidates, SweepTells, Told, Exists
<1> QED
  BY <1>2, <1>3, <1>5, <1>6, <1>7, <1>8 DEF IInv

\* approve_job, reject_job and update_job: only a rejection closes, and what
\* it leaves active is excused.
LEMMA JobWritePreserves ==
  ASSUME IInv, NEW s \in Sessions, JobWrite(s)
  PROVE  IInv'
<1> DEFINE t == txn[s]
<1> DEFINE j == t.job
<1>1. /\ t.op \in {"approve", "reject", "update"} /\ JobExists(j)
      /\ WriteJob(j, t.to)
      /\ excused' = IF t.op = "reject" THEN excused \cup ActiveOn(j) ELSE excused
      /\ Commit(s)
      /\ UNCHANGED <<profile, appStatus, appJob, appCand, mailed>>
  BY DEF JobWrite, appVars
<1>2. j \in Jobs /\ t.to \in JobStatuses /\ (t.to = "CLOSED" => t.op = "reject")
  BY <1>1 DEF IInv, TxnWellFormed, WellFormed, JobStatuses
<1>3. /\ txn' \in [Sessions -> Txns] /\ TxnWellFormed' /\ OneSweepPerJob'
      /\ \A r \in Sessions : txn'[r].op = "sweep" => txn'[r] = txn[r]
  BY <1>1, CommitTxn
<1>4. Stamp(j, t.to) \in {"null", "recent", "old"}
      /\ (t.to = "CLOSED" <=> Stamp(j, t.to) # "null")
  BY <1>2 DEF Stamp, IInv, TypeOK, ClosedHasAnchor
<1>5. job' = [job EXCEPT ![j] = t.to] /\ anchor' = [anchor EXCEPT ![j] = Stamp(j, t.to)]
  BY <1>1 DEF WriteJob
<1> HIDE DEF j, t
<1>6. TypeOK'
  BY <1>1, <1>2, <1>3, <1>4, <1>5 DEF IInv, TypeOK, ActiveOn, On
<1>7. \A i \in Jobs : /\ job'[i] = IF i = j THEN t.to ELSE job[i]
                      /\ anchor'[i] = IF i = j THEN Stamp(j, t.to) ELSE anchor[i]
  BY <1>5 DEF IInv, TypeOK
<1>8. ClosedHasAnchor'
  BY <1>4, <1>7 DEF IInv, ClosedHasAnchor
<1>9. AppsHaveJobs'
  BY <1>1, <1>2, <1>7 DEF IInv, AppsHaveJobs, JobExists, Exists
<1>10. OneOpenApplicationPerPair'
  BY <1>1 DEF IInv, OneOpenApplicationPerPair, Blocking, On, Of, Exists
<1>11. \A i : ActiveOn(i)' = ActiveOn(i)
  BY <1>1 DEF ActiveOn, On, Exists
<1>12. StrandedHasCause'
  BY <1>1, <1>2, <1>7, <1>11 DEF IInv, StrandedHasCause
<1>13. SweepCovers'
  BY <1>1, <1>3, <1>11 DEF IInv, SweepCovers
<1>14. AppsHaveCandidates'
  BY <1>1 DEF IInv, AppsHaveCandidates, Exists
<1>15. SweepTells'
  BY <1>1, <1>3 DEF IInv, SweepTells, Told, Exists
<1> QED
  BY <1>3, <1>6, <1>8, <1>9, <1>10, <1>12, <1>13, <1>14, <1>15 DEF IInv

LEMMA CloseFlushPreserves ==
  ASSUME IInv, NEW s \in Sessions, CloseFlush(s)
  PROVE  IInv'
<1> DEFINE j == txn[s].job
<1> DEFINE C == {c \in Candidates : profile[c] = "live" /\ Of(c) \cap ActiveOn(j) # {}}
<1> DEFINE u == [txn[s] EXCEPT !.op = "sweep", !.apps = ActiveOn(j), !.cands = C]
<1>1. /\ txn[s].op = "close" /\ ~Locked(j)
      /\ txn' = [txn EXCEPT ![s] = u]
      /\ UNCHANGED <<job, anchor, profile, appStatus, appJob, appCand, mailed, excused>>
  BY DEF CloseFlush, appVars, jobVars, IInv, TypeOK
<1>2. txn[s] \in Txns /\ j \in Jobs
  BY <1>1 DEF IInv, TypeOK, TxnWellFormed, WellFormed
<1>3. ActiveOn(j) \subseteq Applications
  BY DEF ActiveOn, On
<1>4. /\ u \in Txns /\ u.op = "sweep" /\ u.job = j /\ u.apps = ActiveOn(j)
      /\ u.cands = C
  BY <1>2, <1>3 DEF Txns, Ops
<1>0. \A a \in ActiveOn(j) :
        /\ appStatus[a] # "none"
        /\ (appCand[a] \in C) \/ (profile[appCand[a]] = "deleted")
  BY DEF ActiveOn, On, Of, Exists, AppStatuses, Active, Terminal,
         IInv, AppsHaveCandidates, Rows
<1> HIDE DEF u, j, C
<1>5. \A r \in Sessions : txn'[r] = IF r = s THEN u ELSE txn[r]
  BY <1>1 DEF IInv, TypeOK
<1>6. TypeOK'
  BY <1>1, <1>4 DEF IInv, TypeOK
<1>7. TxnWellFormed'
  BY <1>2, <1>4, <1>5 DEF IInv, TxnWellFormed, WellFormed
<1>8. OneSweepPerJob'
  BY <1>1, <1>4, <1>5 DEF IInv, OneSweepPerJob, Locked
<1>9. \A i : ActiveOn(i)' = ActiveOn(i)
  BY <1>1 DEF ActiveOn, On, Exists
<1>10. SweepCovers'
  BY <1>1, <1>4, <1>5, <1>9 DEF IInv, SweepCovers
<1>11. StrandedHasCause' /\ ClosedHasAnchor'
  BY <1>1, <1>9 DEF IInv, StrandedHasCause, ClosedHasAnchor
<1>12. AppsHaveJobs' /\ OneOpenApplicationPerPair'
  BY <1>1 DEF IInv, AppsHaveJobs, JobExists, Exists,
              OneOpenApplicationPerPair, Blocking, On, Of
<1>13. AppsHaveCandidates'
  BY <1>1 DEF IInv, AppsHaveCandidates, Exists
<1>14. SweepTells'
  <2> SUFFICES ASSUME NEW r \in Sessions, txn'[r].op = "sweep", NEW a \in txn'[r].apps
               PROVE  /\ appStatus'[a] # "none"
                      /\ Exists(a)' => a \in Told(txn[r])' \/ profile'[appCand'[a]] = "deleted"
    BY DEF SweepTells
  <2>1. CASE r = s
    BY <2>1, <1>0, <1>1, <1>4, <1>5 DEF Told
  <2>2. CASE r # s
    BY <2>2, <1>1, <1>5 DEF IInv, SweepTells, Told, Exists
  <2> QED
    BY <2>1, <2>2
<1> QED
  BY <1>6, <1>7, <1>8, <1>10, <1>11, <1>12, <1>13, <1>14 DEF IInv

\* update_job into CLOSED commits: what was active and is not swept is excused.
LEMMA CloseCommitPreserves ==
  ASSUME IInv, NEW s \in Sessions, CloseCommit(s)
  PROVE  IInv'
<1> DEFINE t == txn[s]
<1> DEFINE j == t.job
<1> DEFINE S == {a \in t.apps : Exists(a)}
<1>1. /\ t.op = "sweep"
      /\ WriteJob(j, "CLOSED") /\ WriteStatus(S, "JOB_CLOSED") /\ IndexAccepts
      /\ mailed' = [a \in Applications |-> IF a \in Told(t) THEN 1 ELSE mailed[a]]
      /\ Excuse({}) /\ profile' = profile /\ Commit(s)
  BY DEF CloseCommit, Sweep
<1>2. j \in Jobs /\ t \in Txns
  BY <1>1 DEF IInv, TypeOK, TxnWellFormed, WellFormed
<1>3. /\ txn' \in [Sessions -> Txns] /\ TxnWellFormed' /\ OneSweepPerJob'
      /\ \A r \in Sessions : txn'[r].op = "sweep" => txn'[r] = txn[r]
  BY <1>1, CommitTxn
<1>4. ActiveOn(j) \subseteq t.apps \cup excused
  BY <1>1, <1>2 DEF IInv, SweepCovers
<1>5. /\ job' = [job EXCEPT ![j] = "CLOSED"]
      /\ anchor' = [anchor EXCEPT ![j] = Stamp(j, "CLOSED")]
      /\ appStatus' = [a \in Applications |-> IF a \in S THEN "JOB_CLOSED"
                                                        ELSE appStatus[a]]
      /\ appJob' = appJob /\ appCand' = appCand
      /\ excused' = {a \in excused : appStatus'[a] \in Active}
  BY <1>1 DEF WriteJob, WriteStatus, Excuse
<1>6. Stamp(j, "CLOSED") \in {"recent", "old"}
  BY <1>2 DEF Stamp, IInv, TypeOK, ClosedHasAnchor
<1>7. \A a \in t.apps : Exists(a) => a \in S
  OBVIOUS
<1>8. \A a \in S : Exists(a)
  OBVIOUS
<1> HIDE DEF S, j, t
<1>9. TypeOK'
  <2>1. appStatus' \in [Applications -> AppStatuses \cup {"none", "deleted"}]
    BY <1>5 DEF IInv, TypeOK, AppStatuses, Terminal
  <2>2. mailed' \in [Applications -> Nat]
    BY <1>1 DEF IInv, TypeOK
  <2>3. job' \in [Jobs -> JobStatuses \cup {"none", "gone"}]
        /\ anchor' \in [Jobs -> {"null", "recent", "old"}]
    BY <1>5, <1>6 DEF IInv, TypeOK, JobStatuses
  <2> QED
    BY <1>1, <1>3, <1>5, <2>1, <2>2, <2>3 DEF IInv, TypeOK
<1>10. \A i \in Jobs : /\ job'[i] = IF i = j THEN "CLOSED" ELSE job[i]
                       /\ anchor'[i] = IF i = j THEN Stamp(j, "CLOSED") ELSE anchor[i]
  BY <1>5 DEF IInv, TypeOK
<1>11. ClosedHasAnchor'
  BY <1>6, <1>10 DEF IInv, ClosedHasAnchor
<1>12. \A a \in Applications : Exists(a)' => Exists(a)
  BY <1>5, <1>8 DEF Exists
<1>13. AppsHaveJobs'
  BY <1>5, <1>10, <1>12 DEF IInv, AppsHaveJobs, JobExists, JobStatuses
<1>14. OneOpenApplicationPerPair'
  BY <1>1 DEF IndexAccepts, OneOpenApplicationPerPair, Blocking, On, Of, Exists, InIndex
<1>15. \A i : \A a \in ActiveOn(i)' : a \in ActiveOn(i) /\ a \notin S
  BY <1>5 DEF ActiveOn, On, Exists, AppStatuses, Active
<1>16. \A i : \A a \in ActiveOn(i)' : a \in excused => a \in excused'
  BY <1>5 DEF ActiveOn
<1>17. StrandedHasCause'
  <2> SUFFICES ASSUME NEW i \in Jobs, job'[i] = "CLOSED", NEW a \in ActiveOn(i)'
               PROVE  a \in excused'
    BY DEF StrandedHasCause
  <2>1. a \in ActiveOn(i) /\ a \notin S
    BY <1>15
  <2>2. CASE i = j
    BY <2>1, <2>2, <1>4, <1>7, <1>16 DEF ActiveOn, On
  <2>3. CASE i # j
    BY <2>1, <2>3, <1>10, <1>16 DEF IInv, StrandedHasCause
  <2> QED
    BY <2>2, <2>3
<1>18. SweepCovers'
  BY <1>3, <1>15, <1>16 DEF IInv, SweepCovers
<1>19. AppsHaveCandidates'
  BY <1>1, <1>5, <1>12 DEF IInv, AppsHaveCandidates
<1>20. \A a \in Applications : appStatus[a] # "none" => appStatus'[a] # "none"
  BY <1>5
<1>21. SweepTells'
  BY <1>1, <1>3, <1>5, <1>12, <1>20, Telling
<1> QED
  BY <1>3, <1>9, <1>11, <1>13, <1>14, <1>17, <1>18, <1>19, <1>21 DEF IInv

\* apply and push: the new application is excused if a close is past it.
LEMMA InsertWritePreserves ==
  ASSUME IInv, NEW s \in Sessions, NEW a \in Applications, InsertWrite(s, a)
  PROVE  IInv'
<1> DEFINE t == txn[s]
<1> DEFINE j == t.job
<1> DEFINE new == "PENDING_ADMIN_REVIEW"
<1>1. /\ t.op \in {"apply", "register", "push"}
      /\ appStatus[a] = "none" /\ JobExists(j)
      /\ \A c \in t.cands : profile[c] \in IF t.op = "register" THEN {"none"} ELSE Rows
      /\ profile' = [c \in Candidates |-> IF c \in t.cands /\ t.op = "register"
                                          THEN "live" ELSE profile[c]]
      /\ appStatus' = [appStatus EXCEPT ![a] = new]
      /\ appJob' = [appJob EXCEPT ![a] = j]
      /\ appCand' = [appCand EXCEPT ![a] = CHOOSE c \in t.cands : TRUE]
      /\ IndexAccepts
      /\ Excuse(IF PastSweep(j) THEN {a} ELSE {})
      /\ Commit(s)
      /\ UNCHANGED <<job, anchor, mailed>>
  BY DEF InsertWrite, jobVars
<1>2. j \in Jobs /\ \E c \in Candidates : t.cands = {c}
  BY <1>1 DEF IInv, TxnWellFormed, WellFormed
<1>3. (CHOOSE c \in t.cands : TRUE) \in Candidates \cap t.cands
  <2>1. PICK c \in Candidates : t.cands = {c}
    BY <1>2
  <2> QED
    BY <2>1
<1>4. /\ txn' \in [Sessions -> Txns] /\ TxnWellFormed' /\ OneSweepPerJob'
      /\ \A r \in Sessions : txn'[r].op = "sweep" => txn'[r] = txn[r]
  BY <1>1, CommitTxn
<1>5. excused' = {b \in excused \cup (IF PastSweep(j) THEN {a} ELSE {}) :
                    appStatus'[b] \in Active}
  BY <1>1 DEF Excuse
<1> HIDE DEF j, t
<1>6. TypeOK'
  <2>1. profile' \in [Candidates -> ProfileStates]
    BY <1>1 DEF IInv, TypeOK, ProfileStates, Rows
  <2>2. excused' \subseteq Applications
    BY <1>5 DEF IInv, TypeOK
  <2> QED
    BY <1>1, <1>2, <1>3, <1>4, <2>1, <2>2 DEF IInv, TypeOK, AppStatuses, Active
<1>7. \A b \in Applications :
        /\ appStatus'[b] = IF b = a THEN new ELSE appStatus[b]
        /\ appJob'[b] = IF b = a THEN j ELSE appJob[b]
        /\ appCand'[b] = IF b = a THEN CHOOSE c \in t.cands : TRUE ELSE appCand[b]
  BY <1>1 DEF IInv, TypeOK
<1>8. AppsHaveJobs'
  BY <1>1, <1>2, <1>7 DEF IInv, AppsHaveJobs, JobExists, Exists
<1>9. OneOpenApplicationPerPair'
  BY <1>1 DEF IndexAccepts, OneOpenApplicationPerPair, Blocking, On, Of, Exists, InIndex
<1>10. ClosedHasAnchor'
  BY <1>1 DEF IInv, ClosedHasAnchor
<1>11. \A i \in Jobs : \A b \in ActiveOn(i)' :
         b \in ActiveOn(i) \/ (b = a /\ i = j)
  BY <1>7 DEF ActiveOn, On, Exists
<1>12. PastSweep(j) => a \in excused'
  BY <1>5, <1>7 DEF Active
<1>13. \A i \in Jobs : \A b \in ActiveOn(i)' : b \in excused => b \in excused'
  BY <1>5 DEF ActiveOn
<1>14. StrandedHasCause' /\ SweepCovers'
  BY <1>1, <1>4, <1>11, <1>12, <1>13, Accounting
<1>15. \A c \in Candidates :
         /\ profile[c] \in Rows => profile'[c] = profile[c]
         /\ c \in t.cands => profile'[c] \in Rows
  BY <1>1 DEF Rows
<1>16. AppsHaveCandidates'
  BY <1>3, <1>7, <1>15 DEF IInv, AppsHaveCandidates, Exists
<1>17. \A b \in Applications : Exists(b) /\ profile[appCand[b]] = "deleted"
         => profile'[appCand[b]] = "deleted"
  BY <1>15 DEF IInv, AppsHaveCandidates, Rows
<1>18. SweepTells'
  BY <1>1, <1>4, <1>7, <1>17, Telling DEF Exists
<1> QED
  BY <1>4, <1>6, <1>8, <1>9, <1>10, <1>14, <1>16, <1>18 DEF IInv

\* Withdrawals and status changes by admins and companies.
LEMMA StatusWritePreserves ==
  ASSUME IInv, NEW s \in Sessions, StatusWrite(s)
  PROVE  IInv'
<1> DEFINE t == txn[s]
<1> DEFINE a == t.app
<1>1. /\ t.op = "status" /\ Exists(a)
      /\ WriteStatus({a}, t.to) /\ IndexAccepts
      /\ Excuse(IF PastSweep(appJob[a]) THEN {a} ELSE {})
      /\ Commit(s)
      /\ UNCHANGED <<job, anchor, profile, mailed>>
  BY DEF StatusWrite, jobVars
<1>2. a \in Applications /\ t.to \in AppStatuses
  BY <1>1, SetByHandStatuses DEF IInv, TxnWellFormed, WellFormed
<1>3. /\ txn' \in [Sessions -> Txns] /\ TxnWellFormed' /\ OneSweepPerJob'
      /\ \A r \in Sessions : txn'[r].op = "sweep" => txn'[r] = txn[r]
  BY <1>1, CommitTxn
<1>4. /\ appStatus' = [b \in Applications |-> IF b \in {a} THEN t.to ELSE appStatus[b]]
      /\ appJob' = appJob /\ appCand' = appCand
      /\ excused' = {b \in excused \cup (IF PastSweep(appJob[a]) THEN {a} ELSE {}) :
                       appStatus'[b] \in Active}
  BY <1>1 DEF WriteStatus, Excuse
<1> HIDE DEF a, t
<1>5. TypeOK'
  BY <1>1, <1>2, <1>3, <1>4 DEF IInv, TypeOK
<1>6. \A b \in Applications : appStatus'[b] = IF b = a THEN t.to ELSE appStatus[b]
  BY <1>4
<1>7. AppsHaveJobs'
  BY <1>1, <1>4, <1>6 DEF IInv, AppsHaveJobs, JobExists, Exists
<1>8. OneOpenApplicationPerPair'
  BY <1>1 DEF IndexAccepts, OneOpenApplicationPerPair, Blocking, On, Of, Exists, InIndex
<1>9. ClosedHasAnchor'
  BY <1>1 DEF IInv, ClosedHasAnchor
<1>10. \A i \in Jobs : \A b \in ActiveOn(i)' :
         b \in ActiveOn(i) \/ (b = a /\ i = appJob[a])
  BY <1>4, <1>6 DEF ActiveOn, On, Exists
<1>11. \A i \in Jobs : \A b \in ActiveOn(i)' :
         b \in ActiveOn(i) \/ b \in excused' \/ ~PastSweep(i)
  BY <1>4, <1>10 DEF ActiveOn
<1>12. \A i \in Jobs : \A b \in ActiveOn(i)' : b \in excused => b \in excused'
  BY <1>4 DEF ActiveOn
<1>13. StrandedHasCause' /\ SweepCovers'
  BY <1>1, <1>3, <1>11, <1>12, Accounting
<1>14. \A b \in Applications : Exists(b)' => Exists(b)
  BY <1>1, <1>6 DEF Exists
<1>15. AppsHaveCandidates'
  BY <1>1, <1>4, <1>14 DEF IInv, AppsHaveCandidates
<1>16. \A b \in Applications : appStatus[b] # "none" => appStatus'[b] # "none"
  BY <1>2, <1>6 DEF AppStatuses, Active, Terminal
<1>17. SweepTells'
  BY <1>1, <1>3, <1>4, <1>14, <1>16, Telling
<1> QED
  BY <1>3, <1>5, <1>7, <1>8, <1>9, <1>13, <1>15, <1>17 DEF IInv

\* A deletion leaves the applications, and a tombstone behind them.
LEMMA TombstoneWritePreserves ==
  ASSUME IInv, NEW s \in Sessions, TombstoneWrite(s)
  PROVE  IInv'
<1> DEFINE t == txn[s]
<1>1. /\ t.op = "tombstone" /\ Commit(s)
      /\ \A c \in t.cands : profile[c] \in Rows
      /\ profile' = [c \in Candidates |-> IF c \in t.cands THEN "deleted" ELSE profile[c]]
      /\ UNCHANGED <<job, anchor, appStatus, appJob, appCand, mailed, excused>>
  BY DEF TombstoneWrite, jobVars, appVars
<1>2. /\ txn' \in [Sessions -> Txns] /\ TxnWellFormed' /\ OneSweepPerJob'
      /\ \A r \in Sessions : txn'[r].op = "sweep" => txn'[r] = txn[r]
  BY <1>1, CommitTxn
<1> HIDE DEF t
<1>3. TypeOK'
  BY <1>1, <1>2 DEF IInv, TypeOK, ProfileStates, Rows
<1>4. \A i : ActiveOn(i)' = ActiveOn(i)
  BY <1>1 DEF ActiveOn, On, Exists
<1>5. StrandedHasCause' /\ ClosedHasAnchor'
  BY <1>1, <1>4 DEF IInv, StrandedHasCause, ClosedHasAnchor
<1>6. SweepCovers'
  BY <1>1, <1>2, <1>4 DEF IInv, SweepCovers
<1>7. AppsHaveJobs' /\ OneOpenApplicationPerPair'
  BY <1>1 DEF IInv, AppsHaveJobs, JobExists, Exists,
              OneOpenApplicationPerPair, Blocking, On, Of
<1>8. AppsHaveCandidates'
  BY <1>1 DEF IInv, AppsHaveCandidates, Exists, Rows
<1>9. \A a \in Applications : Exists(a)' /\ profile[appCand[a]] = "deleted"
        => profile'[appCand[a]] = "deleted"
  BY <1>1 DEF IInv, AppsHaveCandidates, Exists
<1>10. SweepTells'
  BY <1>1, <1>2, <1>9, Telling DEF Exists
<1> QED
  BY <1>2, <1>3, <1>5, <1>6, <1>7, <1>8, <1>10 DEF IInv

----------------------------------------------------------------------------
(* The invariant. *)

LEMMA InitInv == Init => IInv
  BY DEF Init, IInv, TypeOK, NoTxn, Txns, Ops, TxnWellFormed, WellFormed,
         AppsHaveJobs, Exists, AppStatuses, Active, Terminal, OneSweepPerJob,
         OneOpenApplicationPerPair, Blocking, On, ClosedHasAnchor,
         StrandedHasCause, SweepCovers, ActiveOn, AppsHaveCandidates, SweepTells,
         ProfileStates, Rows

\* A read opens a well-formed transaction.
LEMMA JobReadPreserves ==
  ASSUME IInv, NEW s \in Sessions, NEW j \in Jobs,
         JobStep(s, j)
  PROVE  IInv'
<1>1. PICK op \in {"approve", "reject", "update", "close", "delete"},
           to \in JobStatuses \cup {Null} :
        /\ JobRead(s, j, op, to)
        /\ op \in {"approve", "update"} => to \in JobStatuses \ {"CLOSED"}
        /\ op = "reject" => to = "CLOSED"
  BY DEF JobStep, ApproveRead, RejectRead, UpdateRead, CompanyDeleteRead, JobStatuses
<1> DEFINE t == [NoTxn EXCEPT !.op = op, !.job = j, !.to = to]
<1>2. /\ t \in Txns /\ t.op = op /\ t.job = j /\ t.to = to
  BY DEF NoTxn, Txns, Ops
<1>3. WellFormed(t)
  BY <1>1, <1>2 DEF WellFormed
<1>4. /\ txn' = [txn EXCEPT ![s] = t]
      /\ UNCHANGED <<jobVars, profile, appVars, mailed, excused>>
  BY <1>1 DEF JobRead, Open
<1> QED
  BY <1>1, <1>2, <1>3, <1>4, ReadPreserves

LEMMA PairReadPreserves ==
  ASSUME IInv, NEW s \in Sessions, NEW j \in Jobs, NEW c \in Candidates,
         ApplyRead(s, j, c) \/ PushRead(s, j, c)
  PROVE  IInv'
<1>1. PICK op \in {"apply", "register", "push"} : PairRead(s, j, c, op)
  BY DEF ApplyRead, PushRead
<1> DEFINE t == [NoTxn EXCEPT !.op = op, !.job = j, !.cands = {c}]
<1>2. t \in Txns /\ t.op = op /\ t.job = j /\ t.cands = {c}
  BY DEF NoTxn, Txns, Ops
<1>3. WellFormed(t)
  BY <1>2 DEF WellFormed
<1>4. /\ txn' = [txn EXCEPT ![s] = t]
      /\ UNCHANGED <<jobVars, profile, appVars, mailed, excused>>
  BY <1>1 DEF PairRead, Open
<1> QED
  BY <1>2, <1>3, <1>4, ReadPreserves

LEMMA StatusReadPreserves ==
  ASSUME IInv, NEW s \in Sessions, NEW a \in Applications, NEW to \in SetByHand,
         StatusRead(s, a, to)
  PROVE  IInv'
<1> DEFINE t == [NoTxn EXCEPT !.op = "status", !.app = a, !.to = to]
<1>1. t \in Txns /\ t.op = "status" /\ t.app = a /\ t.to = to
  BY SetByHandStatuses DEF NoTxn, Txns, Ops
<1>2. WellFormed(t)
  BY <1>1 DEF WellFormed
<1>3. /\ txn' = [txn EXCEPT ![s] = t]
      /\ UNCHANGED <<jobVars, profile, appVars, mailed, excused>>
  BY DEF StatusRead, Open
<1> QED
  BY <1>1, <1>2, <1>3, ReadPreserves

LEMMA PurgeReadPreserves ==
  ASSUME IInv, NEW s \in Sessions, PurgeRead(s)
  PROVE  IInv'
<1>1. PICK C \in SUBSET Candidates :
        /\ Open(s, [NoTxn EXCEPT !.op = "purge", !.cands = C])
        /\ UNCHANGED <<jobVars, profile, appVars, mailed, excused>>
  BY DEF PurgeRead
<1> DEFINE t == [NoTxn EXCEPT !.op = "purge", !.cands = C]
<1>2. t \in Txns /\ t.op = "purge"
  BY DEF NoTxn, Txns, Ops
<1>3. WellFormed(t)
  BY <1>2 DEF WellFormed
<1> QED
  BY <1>1, <1>2, <1>3, ReadPreserves DEF Open

LEMMA TombstoneReadPreserves ==
  ASSUME IInv, NEW s \in Sessions, NEW c \in Candidates, TombstoneRead(s, c)
  PROVE  IInv'
<1> DEFINE t == [NoTxn EXCEPT !.op = "tombstone", !.cands = {c}]
<1>1. t \in Txns /\ t.op = "tombstone" /\ t.cands = {c}
  BY DEF NoTxn, Txns, Ops
<1>2. WellFormed(t)
  BY <1>1 DEF WellFormed
<1>3. /\ txn' = [txn EXCEPT ![s] = t]
      /\ UNCHANGED <<jobVars, profile, appVars, mailed, excused>>
  BY DEF TombstoneRead, Open
<1> QED
  BY <1>1, <1>2, <1>3, ReadPreserves

LEMMA AbortPreserves ==
  ASSUME IInv, NEW s \in Sessions, Abort(s)
  PROVE  IInv'
<1>1. NoTxn \in Txns /\ NoTxn.op # "sweep" /\ WellFormed(NoTxn)
  BY DEF NoTxn, Txns, Ops, WellFormed
<1> QED
  BY <1>1, ReadPreserves DEF Abort, Commit

\* Each operation preserves the invariant.
LEMMA NextInv == IInv /\ [Next]_vars => IInv'
<1> SUFFICES ASSUME IInv, [Next]_vars PROVE IInv'
  OBVIOUS
<1>1. ASSUME NEW s \in Sessions, NEW j \in Jobs, JobStep(s, j) PROVE IInv'
  BY <1>1, JobReadPreserves
<1>2. ASSUME NEW s \in Sessions, NEW j \in Jobs, NEW c \in Candidates,
             ApplyRead(s, j, c) \/ PushRead(s, j, c)
      PROVE  IInv'
  BY <1>2, PairReadPreserves
<1>3. ASSUME NEW s \in Sessions, NEW a \in Applications, ApplicationStep(s, a)
      PROVE  IInv'
  <2>1. CASE InsertWrite(s, a)
    BY <2>1, InsertWritePreserves
  <2>2. CASE ~InsertWrite(s, a)
    <3>1. PICK to \in SetByHand : StatusRead(s, a, to)
      BY <1>3, <2>2
         DEF ApplicationStep, WithdrawRead, AdminStatusRead, CompanyStatusRead,
             SetByHand
    <3> QED
      BY <3>1, StatusReadPreserves
  <2> QED
    BY <2>1, <2>2
<1>4. ASSUME NEW s \in Sessions, JobWrite(s) PROVE IInv'
  BY <1>4, JobWritePreserves
<1>5. ASSUME NEW s \in Sessions, CloseFlush(s) PROVE IInv'
  BY <1>5, CloseFlushPreserves
<1>6. ASSUME NEW s \in Sessions, CloseCommit(s) PROVE IInv'
  BY <1>6, CloseCommitPreserves
<1>7. ASSUME NEW s \in Sessions, CompanyDeleteWrite(s) PROVE IInv'
  <2>1. txn[s].job \in Jobs
    BY <1>7 DEF CompanyDeleteWrite, IInv, TxnWellFormed, WellFormed
  <2> QED
    BY <1>7, <2>1, RemoveJobPreserves DEF CompanyDeleteWrite
<1>8. ASSUME NEW s \in Sessions, StatusWrite(s) PROVE IInv'
  BY <1>8, StatusWritePreserves
<1>9. ASSUME NEW s \in Sessions, PurgeRead(s) PROVE IInv'
  BY <1>9, PurgeReadPreserves
<1>10. ASSUME NEW s \in Sessions, PurgeWrite(s) PROVE IInv'
  <2>1. UNION {Of(c) : c \in txn[s].cands} \in SUBSET Applications
    BY DEF Of
  <2>2. /\ profile' \in [Candidates -> ProfileStates]
        /\ \A a \in Applications \ UNION {Of(c) : c \in txn[s].cands} :
             Exists(a) => profile'[appCand[a]] = profile[appCand[a]]
    BY <1>10 DEF PurgeWrite, IInv, TypeOK, ProfileStates, AppsHaveCandidates, Of
  <2> QED
    BY <1>10, <2>1, <2>2, DeletionPreserves DEF PurgeWrite
<1>11. ASSUME NEW s \in Sessions, Abort(s) PROVE IInv'
  BY <1>11, AbortPreserves
<1>12. ASSUME NEW j \in Jobs, CreateJob(j) PROVE IInv'
  BY <1>12, CreateJobPreserves
<1>13. ASSUME NEW j \in Jobs, AdminDelete(j) PROVE IInv'
  BY <1>13, RemoveJobPreserves DEF AdminDelete
<1>14. ASSUME NEW j \in Jobs, Age(j) PROVE IInv'
  BY <1>14, AgePreserves
<1>15. ASSUME NEW a \in Applications, DeleteApplication(a) PROVE IInv'
  <2>1. profile' = profile /\ profile' \in [Candidates -> ProfileStates]
    BY <1>15 DEF DeleteApplication, IInv, TypeOK
  <2>2. {a} \in SUBSET Applications
    OBVIOUS
  <2> QED
    BY <1>15, <2>1, <2>2, DeletionPreserves DEF DeleteApplication
<1>16. ASSUME UNCHANGED vars PROVE IInv'
  BY <1>16 DEF vars, jobVars, appVars, IInv, TypeOK, TxnWellFormed, WellFormed,
     AppsHaveJobs, JobExists, Exists, OneSweepPerJob, OneOpenApplicationPerPair,
     Blocking, On, Of, ClosedHasAnchor, StrandedHasCause, SweepCovers, ActiveOn,
     AppsHaveCandidates, SweepTells, Told
<1>17. ASSUME NEW s \in Sessions, NEW c \in Candidates, TombstoneRead(s, c) PROVE IInv'
  BY <1>17, TombstoneReadPreserves
<1>18. ASSUME NEW s \in Sessions, TombstoneWrite(s) PROVE IInv'
  BY <1>18, TombstoneWritePreserves
<1> QED
  BY <1>1, <1>2, <1>3, <1>4, <1>5, <1>6, <1>7, <1>8, <1>9, <1>10, <1>11, <1>12,
     <1>13, <1>14, <1>15, <1>16, <1>17, <1>18
     DEF Next

\* The inductive invariant holds in every reachable state, whatever overlaps.
THEOREM Inductive == Spec => []IInv
  BY InitInv, NextInv, PTL DEF Spec

\* Every variable keeps its type.
THEOREM TypeCorrect == Spec => []TypeOK
<1>1. IInv => TypeOK
  BY DEF IInv
<1> QED
  BY <1>1, Inductive, PTL

\* A candidate has at most one application per job that is not withdrawn,
\* although every service checks before it writes.
THEOREM OneOpenHolds == Spec => []OneOpenApplicationPerPair
<1>1. IInv => OneOpenApplicationPerPair
  BY DEF IInv
<1> QED
  BY <1>1, Inductive, PTL

\* closed_at is set exactly while its job is CLOSED.
THEOREM ClosedHasAnchorHolds == Spec => []ClosedHasAnchor
<1>1. IInv => ClosedHasAnchor
  BY DEF IInv
<1> QED
  BY <1>1, Inductive, PTL

\* An active application on a closed job was left there by reject_job or
\* written after the close had read what to sweep.
THEOREM StrandedHasCauseHolds == Spec => []StrandedHasCause
<1>1. IInv => StrandedHasCause
  BY DEF IInv
<1> QED
  BY <1>1, Inductive, PTL

----------------------------------------------------------------------------
(* The closure mail. *)

\* No step tells a candidate twice, or ends an application of a candidate who is
\* there to be told without telling.
LEMMA ToldStep ==
  ASSUME IInv, ToldOnce, [Next]_vars
  PROVE  ToldOnce'
<1>1. ASSUME NEW s \in Sessions, CloseCommit(s) PROVE ToldOnce'
  <2> DEFINE t == txn[s]
  <2>1. /\ mailed' = [a \in Applications |-> IF a \in Told(t) THEN 1 ELSE mailed[a]]
        /\ appStatus' = [a \in Applications |->
             IF a \in {b \in t.apps : Exists(b)} THEN "JOB_CLOSED" ELSE appStatus[a]]
        /\ profile' = profile /\ appCand' = appCand
    BY <1>1 DEF CloseCommit, Sweep, WriteStatus
  <2>2. \A a \in t.apps : Exists(a) => a \in Told(t) \/ profile[appCand[a]] = "deleted"
    BY <1>1 DEF CloseCommit, Sweep, IInv, SweepTells
  <2> HIDE DEF t
  <2> QED
    BY <2>1, <2>2 DEF ToldOnce
<1>2. ASSUME NEW s \in Sessions, StatusWrite(s) PROVE ToldOnce'
  <2> DEFINE t == txn[s]
  <2>1. /\ mailed' = mailed /\ t.to \in SetByHand
        /\ appStatus' = [a \in Applications |->
                          IF a \in {t.app} THEN t.to ELSE appStatus[a]]
        /\ profile' = profile /\ appCand' = appCand
    BY <1>2 DEF StatusWrite, WriteStatus, IInv, TxnWellFormed, WellFormed
  <2>2. "JOB_CLOSED" \notin AdminTargets => t.to # "JOB_CLOSED"
    BY <2>1, TargetsAssumption DEF SetByHand, CompanySettable
  <2> QED
    BY <2>1, <2>2 DEF ToldOnce
<1>3. ASSUME mailed' = mailed,
             \A a \in Applications : appStatus'[a] = "JOB_CLOSED" =>
               /\ appStatus[a] = "JOB_CLOSED" /\ appCand'[a] = appCand[a]
               /\ profile[appCand[a]] = "deleted" => profile'[appCand[a]] = "deleted"
      PROVE  ToldOnce'
  BY <1>3 DEF ToldOnce
<1>4. ASSUME NEW S, WriteStatus(S, "deleted"), mailed' = mailed,
             \A a \in Applications \ S : Exists(a)
               => profile'[appCand[a]] = profile[appCand[a]]
      PROVE  ToldOnce'
  BY <1>4, <1>3 DEF WriteStatus, Exists, AppStatuses, Terminal
<1>5. ASSUME mailed' = mailed, appStatus' = appStatus, appCand' = appCand, profile' = profile
      PROVE  ToldOnce'
  BY <1>5, <1>3
<1>6. ASSUME NEW s \in Sessions, NEW a \in Applications, InsertWrite(s, a)
      PROVE  ToldOnce'
  <2>1. /\ mailed' = mailed
        /\ \A b \in Applications : appStatus'[b] = "JOB_CLOSED" =>
             b # a /\ appStatus[b] = "JOB_CLOSED" /\ appCand'[b] = appCand[b]
        /\ \A c \in Candidates : profile[c] = "deleted" => profile'[c] = "deleted"
    BY <1>6 DEF InsertWrite, IInv, TypeOK
  <2>2. \A b \in Applications : appStatus[b] = "JOB_CLOSED" => appCand[b] \in Candidates
    BY DEF IInv, AppsHaveCandidates, Exists, AppStatuses, Terminal
  <2> QED
    BY <2>1, <2>2, <1>3
<1>7. ASSUME NEW s \in Sessions, NEW j \in Jobs, JobStep(s, j) PROVE ToldOnce'
  BY <1>7, <1>5 DEF JobStep, ApproveRead, RejectRead, UpdateRead, CompanyDeleteRead,
                    JobRead, appVars
<1>8. ASSUME NEW s \in Sessions, NEW j \in Jobs, NEW c \in Candidates,
             ApplyRead(s, j, c) \/ PushRead(s, j, c)
      PROVE  ToldOnce'
  BY <1>8, <1>5 DEF ApplyRead, PushRead, PairRead, appVars
<1>9. ASSUME NEW s \in Sessions, NEW a \in Applications, ApplicationStep(s, a)
      PROVE  ToldOnce'
  BY <1>9, <1>5, <1>6 DEF ApplicationStep, WithdrawRead, AdminStatusRead,
                          CompanyStatusRead, StatusRead, appVars
<1>10. ASSUME NEW s \in Sessions,
              JobWrite(s) \/ CloseFlush(s) \/ PurgeRead(s) \/ Abort(s)
       PROVE  ToldOnce'
  BY <1>10, <1>5 DEF JobWrite, CloseFlush, PurgeRead, Abort, appVars
<1>11. ASSUME NEW s \in Sessions, CompanyDeleteWrite(s) \/ PurgeWrite(s)
       PROVE  ToldOnce'
  <2>1. CASE CompanyDeleteWrite(s)
    BY <2>1, <1>4 DEF CompanyDeleteWrite, RemoveJob
  <2>2. CASE PurgeWrite(s)
    <3>1. \A a \in Applications \ UNION {Of(c) : c \in txn[s].cands} :
            Exists(a) => profile'[appCand[a]] = profile[appCand[a]]
      BY <2>2 DEF PurgeWrite, IInv, AppsHaveCandidates, Of
    <3> QED
      BY <2>2, <3>1, <1>4 DEF PurgeWrite
  <2> QED
    BY <1>11, <2>1, <2>2
<1>12. ASSUME NEW j \in Jobs, CreateJob(j) \/ AdminDelete(j) \/ Age(j)
       PROVE  ToldOnce'
  BY <1>12, <1>4, <1>5 DEF CreateJob, AdminDelete, RemoveJob, Age, appVars
<1>13. ASSUME NEW a \in Applications, DeleteApplication(a) PROVE ToldOnce'
  BY <1>13, <1>4 DEF DeleteApplication
<1>14. ASSUME UNCHANGED vars PROVE ToldOnce'
  BY <1>14, <1>5 DEF vars, appVars
<1>15. ASSUME NEW s \in Sessions, NEW c \in Candidates, TombstoneRead(s, c)
       PROVE  ToldOnce'
  BY <1>15, <1>5 DEF TombstoneRead, appVars
<1>16. ASSUME NEW s \in Sessions, TombstoneWrite(s) PROVE ToldOnce'
  <2>1. /\ mailed' = mailed /\ appStatus' = appStatus /\ appCand' = appCand
        /\ \A c \in Candidates : profile[c] = "deleted" => profile'[c] = "deleted"
    BY <1>16 DEF TombstoneWrite, appVars
  <2>2. \A b \in Applications : appStatus[b] = "JOB_CLOSED" => appCand[b] \in Candidates
    BY DEF IInv, AppsHaveCandidates, Exists, AppStatuses, Terminal
  <2> QED
    BY <2>1, <2>2, <1>3
<1> QED
  BY <1>1, <1>2, <1>7, <1>8, <1>9, <1>10, <1>11, <1>12, <1>13, <1>14, <1>15, <1>16 DEF Next

\* A candidate hears once of each application a close has ended, unless the
\* candidate is a tombstone.
THEOREM ToldOnceHolds == Spec => []ToldOnce
<1>1. Init => ToldOnce
  BY DEF Init, ToldOnce
<1>2. IInv /\ ToldOnce /\ [Next]_vars => ToldOnce'
  BY ToldStep
<1> QED
  BY <1>1, <1>2, Inductive, PTL DEF Spec

----------------------------------------------------------------------------
(* The purge, while its transaction is the only one open. *)

\* No two transactions are open at once.
OneTxn == \A s, t \in Sessions : s # t => txn[s] = NoTxn \/ txn[t] = NoTxn

\* What a session does: the first disjunct of Next.
StepOf(t) ==
  \/ \E j \in Jobs : JobStep(t, j)
  \/ \E j \in Jobs, d \in Candidates : ApplyRead(t, j, d) \/ PushRead(t, j, d)
  \/ \E b \in Applications : ApplicationStep(t, b)
  \/ \E d \in Candidates : TombstoneRead(t, d)
  \/ JobWrite(t) \/ CloseFlush(t) \/ CloseCommit(t) \/ CompanyDeleteWrite(t)
  \/ StatusWrite(t) \/ PurgeRead(t) \/ PurgeWrite(t)
  \/ TombstoneWrite(t) \/ Abort(t)

\* A read of job j opens the session's transaction.
LEMMA JobStepOpens ==
  ASSUME NEW t \in Sessions, NEW j \in Jobs, JobStep(t, j)
  PROVE  \E op \in {"approve", "reject", "update", "close", "delete"},
            to \in JobStatuses \cup {Null} : JobRead(t, j, op, to)
  BY DEF JobStep, ApproveRead, RejectRead, UpdateRead, CompanyDeleteRead, JobStatuses

\* A session's step leaves the transactions of the others alone, and its own
\* is open before it or after it.
LEMMA OwnTxn ==
  ASSUME IInv, NEW t \in Sessions, StepOf(t)
  PROVE  /\ txn[t] # NoTxn \/ txn'[t] # NoTxn
         /\ \A r \in Sessions \ {t} : txn'[r] = txn[r]
<1> DEFINE Goal == /\ txn[t] # NoTxn \/ txn'[t] # NoTxn
                   /\ \A r \in Sessions \ {t} : txn'[r] = txn[r]
<1> SUFFICES Goal
  OBVIOUS
<1>0. ASSUME NEW x, txn' = [txn EXCEPT ![t] = x], txn[t] # NoTxn \/ x # NoTxn
      PROVE  Goal
  BY <1>0 DEF IInv, TypeOK
<1> HIDE DEF Goal
<1>1. ASSUME NEW j \in Jobs, JobStep(t, j) PROVE Goal
  <2>1. PICK op \in {"approve", "reject", "update", "close", "delete"},
             to \in JobStatuses \cup {Null} : JobRead(t, j, op, to)
    BY <1>1, JobStepOpens
  <2>2. [NoTxn EXCEPT !.op = op, !.job = j, !.to = to] # NoTxn
    BY DEF NoTxn
  <2> QED
    BY <2>1, <2>2, <1>0 DEF JobRead, Open
<1>2. ASSUME NEW j \in Jobs, NEW d \in Candidates, NEW op \in {"register", "apply", "push"},
             PairRead(t, j, d, op)
      PROVE  Goal
  <2>1. [NoTxn EXCEPT !.op = op, !.job = j, !.cands = {d}] # NoTxn
    BY DEF NoTxn
  <2> QED
    BY <1>2, <2>1, <1>0 DEF PairRead, Open
<1>3. ASSUME NEW b \in Applications, NEW to, StatusRead(t, b, to) PROVE Goal
  <2>1. [NoTxn EXCEPT !.op = "status", !.app = b, !.to = to] # NoTxn
    BY DEF NoTxn
  <2> QED
    BY <1>3, <2>1, <1>0 DEF StatusRead, Open
<1>4. CASE PurgeRead(t)
  <2> DEFINE opened == [NoTxn EXCEPT !.op = "purge", !.cands = {c \in Candidates : Eligible(c)}]
  <2>1. opened # NoTxn
    BY DEF NoTxn
  <2>2. txn' = [txn EXCEPT ![t] = opened]
    BY <1>4 DEF PurgeRead, Open
  <2> HIDE DEF opened
  <2> QED
    BY <2>1, <2>2, <1>0
<1>5. ASSUME Commit(t), txn[t].op # "idle" \/ txn[t] # NoTxn PROVE Goal
  <2>1. txn[t] # NoTxn
    BY <1>5 DEF NoTxn
  <2> QED
    BY <1>5, <2>1, <1>0 DEF Commit
<1>6. CASE CloseFlush(t)
  <2>1. txn[t] # NoTxn
    BY <1>6 DEF CloseFlush, NoTxn
  <2> QED
    BY <1>6, <2>1, <1>0 DEF CloseFlush
<1>7. ASSUME \/ JobWrite(t) \/ CloseCommit(t) \/ CompanyDeleteWrite(t)
             \/ StatusWrite(t) \/ PurgeWrite(t) \/ TombstoneWrite(t) \/ Abort(t)
      PROVE  Goal
  BY <1>7, <1>5 DEF JobWrite, CloseCommit, Sweep, CompanyDeleteWrite, StatusWrite,
                    PurgeWrite, TombstoneWrite, Abort
<1>8. ASSUME NEW b \in Applications, ApplicationStep(t, b) PROVE Goal
  <2>1. CASE InsertWrite(t, b)
    BY <2>1, <1>5 DEF InsertWrite
  <2> QED
    BY <1>8, <2>1, <1>3 DEF ApplicationStep, WithdrawRead, AdminStatusRead, CompanyStatusRead
<1>9. ASSUME NEW d \in Candidates, TombstoneRead(t, d) PROVE Goal
  <2>1. [NoTxn EXCEPT !.op = "tombstone", !.cands = {d}] # NoTxn
    BY DEF NoTxn
  <2> QED
    BY <1>9, <2>1, <1>0 DEF TombstoneRead, Open
<1> QED
  BY <1>1, <1>2, <1>4, <1>6, <1>7, <1>8, <1>9 DEF StepOf, ApplyRead, PushRead

\* Only the purge's read begins a purge.
LEMMA PurgeOpens ==
  ASSUME IInv, NEW s \in Sessions, StepOf(s), txn'[s].op = "purge"
  PROVE  PurgeRead(s)
<1> USE DEF IInv
<1>1. ASSUME Commit(s) PROVE FALSE
  BY <1>1 DEF Commit, NoTxn, TypeOK
<1>2. ASSUME NEW j \in Jobs, JobStep(s, j) PROVE FALSE
  <2>1. PICK op \in {"approve", "reject", "update", "close", "delete"},
             to \in JobStatuses \cup {Null} : JobRead(s, j, op, to)
    BY <1>2, JobStepOpens
  <2>2. txn'[s].op = op
    BY <2>1 DEF JobRead, Open, NoTxn, TypeOK
  <2> QED
    BY <2>2
<1>3. ASSUME NEW j \in Jobs, NEW d \in Candidates, ApplyRead(s, j, d) \/ PushRead(s, j, d)
      PROVE  FALSE
  BY <1>3, ZenonT(60) DEF ApplyRead, PushRead, PairRead, NoTxn, Open, TypeOK
<1>4. ASSUME NEW b \in Applications, ApplicationStep(s, b)
      PROVE  FALSE
  BY <1>4, <1>1, ZenonT(60) DEF ApplicationStep, WithdrawRead, AdminStatusRead,
              CompanyStatusRead, StatusRead, InsertWrite, NoTxn, Open, TypeOK
<1>5. ASSUME \/ JobWrite(s) \/ CloseCommit(s) \/ CompanyDeleteWrite(s)
             \/ StatusWrite(s) \/ PurgeWrite(s) \/ TombstoneWrite(s) \/ Abort(s)
      PROVE  FALSE
  BY <1>5, <1>1 DEF JobWrite, CloseCommit, CompanyDeleteWrite, StatusWrite,
                    PurgeWrite, TombstoneWrite, Abort
<1>6. ASSUME CloseFlush(s) PROVE FALSE
  BY <1>6 DEF CloseFlush, TypeOK
<1>7. ASSUME NEW d \in Candidates, TombstoneRead(s, d) PROVE FALSE
  BY <1>7 DEF TombstoneRead, NoTxn, Open, TypeOK
<1> QED
  BY <1>2, <1>3, <1>4, <1>5, <1>6, <1>7 DEF StepOf

\* While at most one transaction is open and it is a purge, no other takes a step.
LEMMA AloneSteps ==
  ASSUME IInv, OneTxn, OneTxn', NEW s \in Sessions, txn'[s].op = "purge",
         NEW t \in Sessions, StepOf(t)
  PROVE  PurgeRead(s)
<1>1. txn'[s] # NoTxn
  BY DEF NoTxn
<1>2. t = s
  BY <1>1, OwnTxn DEF OneTxn
<1> QED
  BY <1>2, PurgeOpens

\* While at most one transaction is open, what the purge has read of the
\* applications cannot change before it commits: only deletions happen in
\* between.
LEMMA SnapshotApps ==
  ASSUME IInv, OneTxn, OneTxn', PurgeSnapshotHolds, [Next]_vars,
         NEW s \in Sessions, txn'[s].op = "purge",
         NEW c \in txn'[s].cands, NEW a \in Of(c)'
  PROVE  /\ WindowExpired(appJob[a])'
         /\ appStatus'[a] \in Terminal \ {"HIRED"}
<1> USE DEF IInv
<1>7. ASSUME PurgeRead(s)
      PROVE  WindowExpired(appJob[a])' /\ appStatus'[a] \in Terminal \ {"HIRED"}
  <2>2. c \in {d \in Candidates : Eligible(d)}
    BY <1>7 DEF PurgeRead, Open, NoTxn, TypeOK
  <2>3. a \in Of(c) /\ UNCHANGED <<job, anchor, appStatus, appJob>>
    BY <1>7 DEF PurgeRead, Of, Exists, jobVars, appVars
  <2>4. Expired(a) /\ Exists(a)
    BY <2>2, <2>3 DEF Eligible, Of
  <2> QED
    BY <2>3, <2>4 DEF Expired, Exists, AppStatuses, WindowExpired
<1>8. ASSUME UNCHANGED txn, a \in Of(c), appStatus'[a] = appStatus[a], appJob'[a] = appJob[a],
             job'[appJob[a]] = job[appJob[a]], anchor'[appJob[a]] = anchor[appJob[a]]
      PROVE  WindowExpired(appJob[a])' /\ appStatus'[a] \in Terminal \ {"HIRED"}
  BY <1>8 DEF PurgeSnapshotHolds, WindowExpired
<1>9. a \in Applications /\ Exists(a)' /\ appCand'[a] = c
  BY DEF Of
<1>10. ASSUME NEW j \in Jobs, AdminDelete(j)
       PROVE  WindowExpired(appJob[a])' /\ appStatus'[a] \in Terminal \ {"HIRED"}
  <2>1. /\ appStatus' = [b \in Applications |-> IF b \in On(j) THEN "deleted"
                                                              ELSE appStatus[b]]
        /\ UNCHANGED <<appJob, appCand, txn>>
        /\ job' = [job EXCEPT ![j] = "gone"] /\ anchor' = [anchor EXCEPT ![j] = "null"]
    BY <1>10 DEF AdminDelete, RemoveJob, WriteStatus
  <2>2. appStatus'[a] = appStatus[a] /\ Exists(a) /\ a \notin On(j)
    BY <1>9, <2>1 DEF Exists, AppStatuses, Active, Terminal
  <2>3. appJob[a] # j /\ a \in Of(c) /\ appJob[a] \in Jobs
    BY <1>9, <2>1, <2>2 DEF On, Of, AppsHaveJobs
  <2> QED
    BY <1>8, <2>1, <2>2, <2>3 DEF TypeOK
<1>11. ASSUME NEW j \in Jobs, CreateJob(j)
       PROVE  WindowExpired(appJob[a])' /\ appStatus'[a] \in Terminal \ {"HIRED"}
  <2>1. PICK st \in JobStatuses : WriteJob(j, st)
    BY <1>11 DEF CreateJob
  <2>2. UNCHANGED <<appStatus, appJob, appCand, txn>> /\ job[j] = "none"
    BY <1>11 DEF CreateJob, appVars
  <2>3. a \in Of(c) /\ appJob[a] \in Jobs /\ appJob[a] # j
    BY <1>9, <2>2 DEF Of, Exists, AppsHaveJobs, JobExists, JobStatuses
  <2> QED
    BY <1>8, <2>1, <2>2, <2>3 DEF WriteJob, TypeOK
<1>12. ASSUME NEW j \in Jobs, Age(j) PROVE FALSE
  BY <1>12 DEF Age, NoTxn
<1>13. ASSUME NEW b \in Applications, DeleteApplication(b)
       PROVE  WindowExpired(appJob[a])' /\ appStatus'[a] \in Terminal \ {"HIRED"}
  <2>1. /\ appStatus' = [d \in Applications |-> IF d \in {b} THEN "deleted"
                                                              ELSE appStatus[d]]
        /\ UNCHANGED <<job, anchor, appJob, appCand, txn>>
    BY <1>13 DEF DeleteApplication, WriteStatus, jobVars
  <2>2. appStatus'[a] = appStatus[a] /\ a \in Of(c)
    BY <1>9, <2>1 DEF Of, Exists, AppStatuses, Active, Terminal
  <2> QED
    BY <1>8, <2>1, <2>2
<1>14. ASSUME UNCHANGED vars
       PROVE  WindowExpired(appJob[a])' /\ appStatus'[a] \in Terminal \ {"HIRED"}
  BY <1>8, <1>14 DEF vars, jobVars, appVars, Of, Exists
<1>15. ASSUME NEW t \in Sessions, StepOf(t)
       PROVE  WindowExpired(appJob[a])' /\ appStatus'[a] \in Terminal \ {"HIRED"}
  BY <1>15, <1>7, AloneSteps
<1> QED
  BY <1>10, <1>11, <1>12, <1>13, <1>14, <1>15 DEF Next, StepOf

\* Nor can the profiles.
LEMMA SnapshotLive ==
  ASSUME IInv, OneTxn, OneTxn', PurgeSnapshotHolds, [Next]_vars,
         NEW s \in Sessions, txn'[s].op = "purge", NEW c \in txn'[s].cands
  PROVE  profile'[c] = "live"
<1>1. CASE PurgeRead(s)
  <2>1. c \in {d \in Candidates : Eligible(d)} /\ profile' = profile
    BY <1>1 DEF PurgeRead, Open, NoTxn, IInv, TypeOK
  <2> QED
    BY <2>1 DEF Eligible
<1>2. CASE UNCHANGED <<txn, profile>>
  BY <1>2 DEF PurgeSnapshotHolds
<1>3. ASSUME NEW j \in Jobs, CreateJob(j) \/ AdminDelete(j) \/ Age(j)
      PROVE  UNCHANGED <<txn, profile>>
  BY <1>3 DEF CreateJob, AdminDelete, RemoveJob, Age
<1>4. ASSUME NEW b \in Applications, DeleteApplication(b) PROVE UNCHANGED <<txn, profile>>
  BY <1>4 DEF DeleteApplication
<1>5. ASSUME UNCHANGED vars PROVE UNCHANGED <<txn, profile>>
  BY <1>5 DEF vars
<1>6. ASSUME NEW t \in Sessions, StepOf(t) PROVE PurgeRead(s)
  BY <1>6, AloneSteps
<1> QED
  BY <1>1, <1>2, <1>3, <1>4, <1>5, <1>6 DEF Next, StepOf

\* So the whole snapshot holds.
LEMMA SnapshotStep ==
  ASSUME IInv, OneTxn, OneTxn', PurgeSnapshotHolds, [Next]_vars
  PROVE  PurgeSnapshotHolds'
  BY SnapshotApps, SnapshotLive DEF PurgeSnapshotHolds

\* A purge deletes whom it has read, so what it spares is what its snapshot
\* says.
LEMMA SparesStep ==
  ASSUME PurgeSnapshotHolds, [Next]_vars
  PROVE  [PurgeSpares]_vars
<1> SUFFICES ASSUME NEW c \in Candidates, profile[c] # "purged", profile'[c] = "purged"
             PROVE  /\ profile[c] = "live"
                    /\ \A a \in Of(c) : /\ WindowExpired(appJob[a])
                                        /\ appStatus[a] \in Terminal \ {"HIRED"}
  BY DEF PurgeSpares
<1>1. PICK s \in Sessions : PurgeWrite(s)
  <2>1. profile' # profile
    OBVIOUS
  <2>2. ASSUME NEW s \in Sessions, NEW a \in Applications, InsertWrite(s, a)
        PROVE  FALSE
    BY <2>2 DEF InsertWrite
  <2>3. ASSUME NEW s \in Sessions, TombstoneWrite(s)
        PROVE  FALSE
    BY <2>3 DEF TombstoneWrite
  <2> QED
    BY <2>1, <2>2, <2>3, ZenonT(60)
       DEF Next, JobStep, ApproveRead, RejectRead, UpdateRead, CompanyDeleteRead,
           JobRead, ApplyRead, PushRead, PairRead, ApplicationStep, WithdrawRead,
           AdminStatusRead, CompanyStatusRead, StatusRead, JobWrite, CloseFlush,
           CloseCommit, Sweep, CompanyDeleteWrite, RemoveJob, StatusWrite,
           PurgeRead, TombstoneRead, Abort, CreateJob, AdminDelete, Age,
           DeleteApplication, vars
<1>2. c \in txn[s].cands /\ txn[s].op = "purge"
  BY <1>1 DEF PurgeWrite
<1> QED
  BY <1>2 DEF PurgeSnapshotHolds

\* The invariant of a behaviour with one transaction at a time.
AloneInv == alone => OneTxn /\ PurgeSnapshotHolds

LEMMA AloneStep ==
  ASSUME IInv, AloneInv, [OverlapNext]_<<vars, alone>>
  PROVE  AloneInv' /\ [alone => PurgeSpares]_<<vars, alone>>
<1>1. [Next]_vars /\ alone' = alone
  BY DEF OverlapNext
<1>2. CASE ~alone
  BY <1>1, <1>2 DEF AloneInv
<1>3. CASE alone
  <2>1. OneTxn /\ PurgeSnapshotHolds
    BY <1>3 DEF AloneInv
  <2>2. OneTxn'
    <3>1. CASE OverlapNext
      BY <1>3, <3>1 DEF OverlapNext, OneTxn
    <3>2. CASE UNCHANGED <<vars, alone>>
      BY <2>1, <3>2 DEF vars, OneTxn, NoTxn
    <3> QED
      BY <3>1, <3>2
  <2>3. PurgeSnapshotHolds' /\ [PurgeSpares]_vars
    BY <1>1, <2>1, <2>2, SnapshotStep, SparesStep
  <2> QED
    BY <1>1, <2>2, <2>3 DEF AloneInv
<1> QED
  BY <1>2, <1>3

\* One transaction at a time is a way for transactions to overlap: what holds of all
\* behaviours holds of these.
LEMMA OverlapImplements == OverlapSpec => Spec
<1>1. OverlapInit => Init
  BY DEF OverlapInit
<1>2. [OverlapNext]_<<vars, alone>> => [Next]_vars
  BY DEF OverlapNext
<1> QED
  BY <1>1, <1>2, PTL DEF OverlapSpec, Spec

\* While no two transactions overlap, the purge deletes nobody who has an
\* active, hired or recently closed application, however many sessions take
\* turns.
THEOREM PurgePreservesIfAloneHolds == OverlapSpec => PurgePreservesIfAlone
<1>1. OverlapInit => IInv /\ AloneInv
  BY InitInv DEF OverlapInit, AloneInv, OneTxn, Init, PurgeSnapshotHolds, NoTxn
<1>2. IInv /\ [OverlapNext]_<<vars, alone>> => IInv'
  <2>1. [OverlapNext]_<<vars, alone>> => [Next]_vars
    BY DEF OverlapNext
  <2> QED
    BY <2>1, NextInv
<1>3. IInv /\ AloneInv /\ [OverlapNext]_<<vars, alone>>
        => AloneInv' /\ [alone => PurgeSpares]_<<vars, alone>>
  BY AloneStep
<1> QED
  BY <1>1, <1>2, <1>3, PTL DEF OverlapSpec, PurgePreservesIfAlone
=============================================================================
