------------------------------ MODULE Pipeline ------------------------------
(***************************************************************************)
(* The recruiting pipeline: jobs from approval to closure, applications    *)
(* from submission to a decision, and the two ends of a candidate's        *)
(* profile: the deletion that leaves a tombstone and the retention purge.  *)
(*                                                                         *)
(* Every service runs in one READ COMMITTED transaction: it reads rows     *)
(* and checks them, and later writes by id without checking again.  Each   *)
(* is a read action, which opens the session's transaction, and a write    *)
(* action, which commits it; between the two, other sessions commit.  The  *)
(* database still enforces row locks, foreign keys and the unique indexes. *)
(* A session whose checks fail opens nothing; one whose write is refused   *)
(* takes Abort.                                                            *)
(***************************************************************************)
EXTENDS Naturals

CONSTANTS
  Jobs, Candidates, Applications,  \* row ids, each used once
  Sessions,        \* requests and tasks the API and the worker run at a time
  Null,
  AdminTargets,    \* bound: statuses an admin sets by hand
  CompanyTargets   \* bound: statuses a company sets

VARIABLES
  job,        \* job.status, or "none" and "gone"
  anchor,     \* job.closed_at: none, within the retention window, or past it
  profile,    \* the candidate's profile row; "deleted" is a tombstone
  appStatus,  \* application.status, or "none" and "deleted"
  appJob, appCand,  \* its job_id and candidate_id
  mailed,     \* closure emails queued for each application
  excused,    \* active applications no close could have swept (history)
  txn         \* the open transaction of each session

jobVars == <<job, anchor>>
appVars == <<appStatus, appJob, appCand>>
vars == <<jobVars, profile, appVars, mailed, excused, txn>>

JobStatuses == {"PENDING_APPROVAL", "PUBLISHED", "CLOSED"}
Active == {"PENDING_ADMIN_REVIEW", "APPROVED_BY_ADMIN", "INTERVIEWING", "OFFER"}
CompanySettable == {"INTERVIEWING", "OFFER", "HIRED", "REJECTED_BY_COMPANY"}
Terminal == {"HIRED", "REJECTED_BY_COMPANY", "REJECTED_BY_ADMIN", "WITHDRAWN",
             "JOB_CLOSED"}
AppStatuses == Active \cup Terminal

\* Rows of a candidate may hang on a live profile or on a tombstone.
Rows == {"live", "deleted"}
ProfileStates == Rows \cup {"none", "purged"}

ASSUME TargetsAssumption == /\ AdminTargets \subseteq AppStatuses
                            /\ CompanyTargets \subseteq CompanySettable
ASSUME NullAssumption == Null \notin Jobs \cup Applications \cup Candidates

Ops == {"idle", "approve", "reject", "update", "close", "sweep", "delete",
        "apply", "register", "push", "status", "purge", "tombstone"}

Txns == [op : Ops,
         job : Jobs \cup {Null},
         app : Applications \cup {Null},
         to : JobStatuses \cup AppStatuses \cup {Null},
         apps : SUBSET Applications,
         cands : SUBSET Candidates]

NoTxn == [op |-> "idle", job |-> Null, app |-> Null, to |-> Null,
          apps |-> {}, cands |-> {}]

TypeOK ==
  /\ job \in [Jobs -> JobStatuses \cup {"none", "gone"}]
  /\ anchor \in [Jobs -> {"null", "recent", "old"}]
  /\ profile \in [Candidates -> ProfileStates]
  /\ appStatus \in [Applications -> AppStatuses \cup {"none", "deleted"}]
  /\ appJob \in [Applications -> Jobs \cup {Null}]
  /\ appCand \in [Applications -> Candidates \cup {Null}]
  /\ mailed \in [Applications -> Nat]
  /\ excused \subseteq Applications
  /\ txn \in [Sessions -> Txns]

Init ==
  /\ job = [j \in Jobs |-> "none"]
  /\ anchor = [j \in Jobs |-> "null"]
  /\ profile = [c \in Candidates |-> "none"]
  /\ appStatus = [a \in Applications |-> "none"]
  /\ appJob = [a \in Applications |-> Null]
  /\ appCand = [a \in Applications |-> Null]
  /\ mailed = [a \in Applications |-> 0]
  /\ excused = {}
  /\ txn = [s \in Sessions |-> NoTxn]

----------------------------------------------------------------------------
(* Rows. *)

JobExists(j) == job[j] \in JobStatuses
Exists(a) == appStatus[a] \in AppStatuses
On(j) == {a \in Applications : Exists(a) /\ appJob[a] = j}
Of(c) == {a \in Applications : Exists(a) /\ appCand[a] = c}
ActiveOn(j) == {a \in On(j) : appStatus[a] \in Active}

\* Mutant: the partial index covers the active statuses only.
InIndexIfActive(st) == st \in Active

\* uq_application_job_candidate_active is partial: withdrawn rows are out.
InIndex(st) == st \in AppStatuses \ {"WITHDRAWN"}

Blocking(j, c) == {a \in On(j) \cap Of(c) : appStatus[a] # "WITHDRAWN"}

\* The unique index accepts what a write leaves behind.
IndexAccepts ==
  \A a, b \in Applications :
    a # b /\ InIndex(appStatus[a]') /\ InIndex(appStatus[b]')
      => <<appJob'[a], appCand'[a]>> # <<appJob'[b], appCand'[b]>>

\* A close that has flushed its job holds the job's row lock.
Locked(j) == \E s \in Sessions : txn[s].op = "sweep" /\ txn[s].job = j

\* Mutant: the anchor outlives a reopening.
StampKeepsOld(j, st) ==
  IF st = "CLOSED" /\ anchor[j] = "null" THEN "recent" ELSE anchor[j]

\* The trigger and its mapper mirror: an empty anchor is filled on the way
\* into CLOSED and cleared on the way out.
Stamp(j, st) ==
  IF st # "CLOSED" THEN "null"
  ELSE IF job[j] = "CLOSED" THEN anchor[j]
  ELSE "recent"

WriteJob(j, st) ==
  /\ job' = [job EXCEPT ![j] = st]
  /\ anchor' = [anchor EXCEPT ![j] = Stamp(j, st)]

WriteStatus(S, st) ==
  /\ appStatus' = [a \in Applications |-> IF a \in S THEN st ELSE appStatus[a]]
  /\ UNCHANGED <<appJob, appCand>>

\* History: S joins the active applications that no close could have swept.
Excuse(S) == excused' = {a \in excused \cup S : appStatus'[a] \in Active}

Open(s, t) == txn[s] = NoTxn /\ txn' = [txn EXCEPT ![s] = t]
Commit(s) == txn' = [txn EXCEPT ![s] = NoTxn]

\* The request fails, or the database refuses its write: all of it is undone.
Abort(s) ==
  /\ txn[s] # NoTxn
  /\ Commit(s)
  /\ UNCHANGED <<jobVars, profile, appVars, mailed, excused>>

----------------------------------------------------------------------------
(* Jobs. *)

\* A company's job starts PENDING_APPROVAL, an admin's in any status.
CreateJob(j) ==
  /\ job[j] = "none"
  /\ \E st \in JobStatuses : WriteJob(j, st)
  /\ UNCHANGED <<profile, appVars, mailed, excused, txn>>

JobRead(s, j, op, to) ==
  /\ Open(s, [NoTxn EXCEPT !.op = op, !.job = j, !.to = to])
  /\ UNCHANGED <<jobVars, profile, appVars, mailed, excused>>

ApproveRead(s, j) ==
  job[j] = "PENDING_APPROVAL" /\ JobRead(s, j, "approve", "PUBLISHED")

\* Mutant: a status of its own for rejected jobs, which the enum lacks.
RejectReadOwnStatus(s, j) ==
  job[j] = "PENDING_APPROVAL" /\ JobRead(s, j, "reject", "REJECTED")

RejectRead(s, j) ==
  job[j] = "PENDING_APPROVAL" /\ JobRead(s, j, "reject", "CLOSED")

\* Mutant: only a published job is taken to hold active applications.
UpdateReadPublished(s, j) ==
  /\ JobExists(j)
  /\ \E to \in JobStatuses \ {job[j]} :
       JobRead(s, j, IF to = "CLOSED" /\ job[j] = "PUBLISHED" THEN "close"
                                                             ELSE "update", to)

\* An edit that leaves the status alone writes no status.
UpdateRead(s, j) ==
  /\ JobExists(j)
  /\ \E to \in JobStatuses \ {job[j]} :
       JobRead(s, j, IF to = "CLOSED" THEN "close" ELSE "update", to)

CompanyDeleteRead(s, j) ==
  job[j] = "PENDING_APPROVAL" /\ JobRead(s, j, "delete", Null)

\* approve_job, reject_job and update_job (not closing) write the status.
\* Only reject_job can leave active applications on a closed job.
JobWrite(s) ==
  LET t == txn[s] IN
  /\ t.op \in {"approve", "reject", "update"}
  /\ JobExists(t.job) /\ ~Locked(t.job)
  /\ WriteJob(t.job, t.to)
  /\ excused' = IF t.op = "reject" THEN excused \cup ActiveOn(t.job) ELSE excused
  /\ Commit(s)
  /\ UNCHANGED <<profile, appVars, mailed>>

\* update_job into CLOSED: the job is flushed, which locks its row, and the
\* active applications are read with their candidates, of whom the live ones
\* (deleted_at is None) are to be told.  Nobody else sees any of it yet.
CloseFlush(s) ==
  LET t == txn[s] IN
  /\ t.op = "close"
  /\ JobExists(t.job) /\ ~Locked(t.job)
  /\ txn' = [txn EXCEPT ![s].op = "sweep", ![s].apps = ActiveOn(t.job),
                        ![s].cands = {c \in Candidates : /\ profile[c] = "live"
                                                         /\ Of(c) \cap ActiveOn(t.job) # {}}]
  /\ UNCHANGED <<jobVars, profile, appVars, mailed, excused>>

\* What close_active_applications leaves behind: the applications it read in
\* JOB_CLOSED and their mails.  One deleted meanwhile is not there to update:
\* an update of that row alone fails, a batch goes on without it.
Sweep(t, mails) ==
  /\ t.op = "sweep"
  /\ \A a \in t.apps : t.apps = {a} => Exists(a)
  /\ WriteJob(t.job, "CLOSED")
  /\ WriteStatus({a \in t.apps : Exists(a)}, "JOB_CLOSED")
  /\ IndexAccepts
  /\ mailed' = mails
  /\ Excuse({})
  /\ UNCHANGED profile

\* The applications a sweep tells of: those whose candidate was live when read.
Told(t) == {a \in t.apps : appCand[a] \in t.cands}

\* Mutant: the closure mail has no dedup_key.
CloseCommitNoKey(s) ==
  /\ Sweep(txn[s], [a \in Applications |->
       IF a \in Told(txn[s]) THEN mailed[a] + 1 ELSE mailed[a]])
  /\ Commit(s)

\* The dedup_key job_closed:{id} drops a second mail.
CloseCommit(s) ==
  /\ Sweep(txn[s], [a \in Applications |->
       IF a \in Told(txn[s]) THEN 1 ELSE mailed[a]])
  /\ Commit(s)

\* The job goes, and its applications with it (ON DELETE CASCADE).
RemoveJob(j) ==
  /\ JobExists(j) /\ ~Locked(j)
  /\ job' = [job EXCEPT ![j] = "gone"]
  /\ anchor' = [anchor EXCEPT ![j] = "null"]
  /\ WriteStatus(On(j), "deleted")
  /\ Excuse({})
  /\ UNCHANGED <<profile, mailed>>

CompanyDeleteWrite(s) == txn[s].op = "delete" /\ RemoveJob(txn[s].job) /\ Commit(s)

AdminDelete(j) == RemoveJob(j) /\ UNCHANGED txn

\* A year goes by; no request lasts that long.
Age(j) ==
  /\ anchor[j] = "recent"
  /\ \A s \in Sessions : txn[s] = NoTxn
  /\ anchor' = [anchor EXCEPT ![j] = "old"]
  /\ UNCHANGED <<job, profile, appVars, mailed, excused, txn>>

----------------------------------------------------------------------------
(* Applications. *)

PairRead(s, j, c, op) ==
  /\ job[j] = "PUBLISHED"
  /\ Blocking(j, c) = {}
  /\ Open(s, [NoTxn EXCEPT !.op = op, !.job = j, !.cands = {c}])
  /\ UNCHANGED <<jobVars, profile, appVars, mailed, excused>>

\* The candidate applies: the first application creates the profile.
ApplyRead(s, j, c) ==
  \/ profile[c] = "none" /\ PairRead(s, j, c, "register")
  \/ profile[c] = "live" /\ PairRead(s, j, c, "apply")

\* An admin pushes a match, be it of a tombstone.
PushRead(s, j, c) == profile[c] \in Rows /\ PairRead(s, j, c, "push")

\* A close of j that this write cannot be part of is done or under way.
PastSweep(j) == job[j] = "CLOSED" \/ Locked(j)

\* A profile that was deleted meanwhile is written to and stays a tombstone.
InsertWrite(s, a) ==
  LET t == txn[s] IN
  /\ t.op \in {"apply", "register", "push"}
  /\ appStatus[a] = "none"
  /\ JobExists(t.job)
  /\ \A c \in t.cands : profile[c] \in IF t.op = "register" THEN {"none"} ELSE Rows
  /\ profile' = [c \in Candidates |-> IF c \in t.cands /\ t.op = "register"
                                      THEN "live" ELSE profile[c]]
  /\ appStatus' = [appStatus EXCEPT ![a] = "PENDING_ADMIN_REVIEW"]
  /\ appJob' = [appJob EXCEPT ![a] = t.job]
  /\ appCand' = [appCand EXCEPT ![a] = CHOOSE c \in t.cands : TRUE]
  /\ IndexAccepts
  /\ Excuse(IF PastSweep(t.job) THEN {a} ELSE {})
  /\ Commit(s)
  /\ UNCHANGED <<jobVars, mailed>>

StatusRead(s, a, to) ==
  /\ Exists(a)
  /\ appStatus[a] # to
  /\ Open(s, [NoTxn EXCEPT !.op = "status", !.app = a, !.to = to])
  /\ UNCHANGED <<jobVars, profile, appVars, mailed, excused>>

\* The candidate's own account asks, and goes with the profile.
WithdrawRead(s, a) ==
  /\ appStatus[a] = "PENDING_ADMIN_REVIEW"
  /\ profile[appCand[a]] = "live"
  /\ StatusRead(s, a, "WITHDRAWN")

AdminStatusRead(s, a) ==
  /\ appStatus[a] # "WITHDRAWN"
  /\ \E to \in AdminTargets : StatusRead(s, a, to)

\* The company's update looks at the job's owner and not at the status.
CompanyStatusRead(s, a) == \E to \in CompanyTargets : StatusRead(s, a, to)

StatusWrite(s) ==
  LET t == txn[s] IN
  /\ t.op = "status"
  /\ Exists(t.app)
  /\ WriteStatus({t.app}, t.to)
  /\ IndexAccepts
  /\ Excuse(IF PastSweep(appJob[t.app]) THEN {t.app} ELSE {})
  /\ Commit(s)
  /\ UNCHANGED <<jobVars, profile, mailed>>

DeleteApplication(a) ==
  /\ Exists(a)
  /\ WriteStatus({a}, "deleted")
  /\ Excuse({})
  /\ UNCHANGED <<jobVars, profile, mailed, txn>>

----------------------------------------------------------------------------
(* The end of a profile. *)

\* confirm_deletion, or an admin's delete: the profile is scrubbed and marked,
\* and the applications stay with the status they have.
TombstoneRead(s, c) ==
  /\ profile[c] = "live"
  /\ Open(s, [NoTxn EXCEPT !.op = "tombstone", !.cands = {c}])
  /\ UNCHANGED <<jobVars, profile, appVars, mailed, excused>>

\* A row purged meanwhile is not there to update.
TombstoneWrite(s) ==
  LET t == txn[s] IN
  /\ t.op = "tombstone"
  /\ \A c \in t.cands : profile[c] \in Rows
  /\ profile' = [c \in Candidates |-> IF c \in t.cands THEN "deleted" ELSE profile[c]]
  /\ Commit(s)
  /\ UNCHANGED <<jobVars, appVars, mailed, excused>>

WindowExpired(j) == job[j] = "CLOSED" /\ anchor[j] = "old"

\* Mutant: an active application is taken to imply an open job.
ExpiredByJob(a) == WindowExpired(appJob[a]) /\ appStatus[a] # "HIRED"

Expired(a) ==
  /\ WindowExpired(appJob[a])
  /\ appStatus[a] \notin Active \cup {"HIRED"}

Eligible(c) == profile[c] = "live" /\ Of(c) # {} /\ \A a \in Of(c) : Expired(a)

PurgeRead(s) ==
  LET cands == {c \in Candidates : Eligible(c)} IN
  /\ cands # {}
  /\ Open(s, [NoTxn EXCEPT !.op = "purge", !.cands = cands])
  /\ UNCHANGED <<jobVars, profile, appVars, mailed, excused>>

PurgeWrite(s) ==
  LET t == txn[s] IN
  /\ t.op = "purge"
  /\ profile' = [c \in Candidates |-> IF c \in t.cands THEN "purged" ELSE profile[c]]
  /\ WriteStatus(UNION {Of(c) : c \in t.cands}, "deleted")
  /\ Excuse({})
  /\ Commit(s)
  /\ UNCHANGED <<jobVars, mailed>>

----------------------------------------------------------------------------
JobStep(s, j) ==
  ApproveRead(s, j) \/ RejectRead(s, j) \/ UpdateRead(s, j) \/ CompanyDeleteRead(s, j)

ApplicationStep(s, a) ==
  \/ WithdrawRead(s, a) \/ AdminStatusRead(s, a) \/ CompanyStatusRead(s, a)
  \/ InsertWrite(s, a)

Next ==
  \/ \E s \in Sessions :
       \/ \E j \in Jobs : JobStep(s, j)
       \/ \E j \in Jobs, c \in Candidates : ApplyRead(s, j, c) \/ PushRead(s, j, c)
       \/ \E a \in Applications : ApplicationStep(s, a)
       \/ \E c \in Candidates : TombstoneRead(s, c)
       \/ JobWrite(s) \/ CloseFlush(s) \/ CloseCommit(s) \/ CompanyDeleteWrite(s)
       \/ StatusWrite(s) \/ PurgeRead(s) \/ PurgeWrite(s)
       \/ TombstoneWrite(s) \/ Abort(s)
  \/ \E j \in Jobs : CreateJob(j) \/ AdminDelete(j) \/ Age(j)
  \/ \E a \in Applications : DeleteApplication(a)

Spec == Init /\ [][Next]_vars

----------------------------------------------------------------------------
(* What holds whatever overlaps. *)

\* A candidate has one application per job that is not withdrawn, although
\* every check runs before the write: the premise of the scalar_one_or_none
\* in check_no_blocking_application and push_match.
OneOpenApplicationPerPair ==
  \A j \in Jobs, c \in Candidates : \A a, b \in Blocking(j, c) : a = b

\* closed_at is set exactly while the job is CLOSED: a closed job without it
\* is never purged, and one left from an earlier close purges too early.
ClosedHasAnchor == \A j \in Jobs : job[j] = "CLOSED" <=> anchor[j] # "null"

\* An active application stays on a closed job only if reject_job left it
\* there, or it was written after the close had read what to sweep.
StrandedHasCause ==
  \A j \in Jobs : job[j] = "CLOSED" => ActiveOn(j) \subseteq excused

\* A candidate hears of a closure once per application, and of each closure
\* that ended one, unless an admin set JOB_CLOSED by hand or the candidate is
\* a tombstone: "They must not reach the mail" (close_active_applications).
ToldOnce ==
  \A a \in Applications :
    /\ mailed[a] <= 1
    /\ appStatus[a] = "JOB_CLOSED" /\ "JOB_CLOSED" \notin AdminTargets
         => mailed[a] = 1 \/ profile[appCand[a]] = "deleted"

----------------------------------------------------------------------------
(* Why it holds: an inductive invariant. *)

SetByHand == AdminTargets \cup CompanyTargets \cup {"WITHDRAWN"}

\* What an open transaction has read fits what it will write; only reject
\* writes CLOSED without a sweep.
WellFormed(t) ==
  /\ t.op \in {"approve", "reject", "update", "close", "sweep", "delete"}
       => t.job \in Jobs
  /\ t.op \in {"approve", "update"} => t.to \in JobStatuses \ {"CLOSED"}
  /\ t.op = "reject" => t.to = "CLOSED"
  /\ t.op \in {"apply", "register", "push"}
       => t.job \in Jobs /\ \E c \in Candidates : t.cands = {c}
  /\ t.op = "tombstone" => t.cands \subseteq Candidates
  /\ t.op = "status" => t.app \in Applications /\ t.to \in SetByHand

TxnWellFormed == \A s \in Sessions : WellFormed(txn[s])

\* The foreign keys.
AppsHaveJobs ==
  \A a \in Applications : Exists(a) => appJob[a] \in Jobs /\ JobExists(appJob[a])

\* And a profile, which only the purge removes, with all its applications.
AppsHaveCandidates ==
  \A a \in Applications : Exists(a) => appCand[a] \in Candidates /\ profile[appCand[a]] \in Rows

\* The row lock: one close of a job at a time gets past its flush.
OneSweepPerJob ==
  \A s, t \in Sessions :
    txn[s].op = "sweep" /\ txn[t].op = "sweep" /\ txn[s].job = txn[t].job => s = t

\* What a close under way has not read was written after it had.
SweepCovers ==
  \A s \in Sessions, j \in Jobs :
    txn[s].op = "sweep" /\ txn[s].job = j
      => ActiveOn(j) \subseteq txn[s].apps \cup excused

\* Whom a close under way will not tell is a tombstone.
SweepTells ==
  \A s \in Sessions : txn[s].op = "sweep" =>
    \A a \in txn[s].apps :
      /\ appStatus[a] # "none"
      /\ Exists(a) => a \in Told(txn[s]) \/ profile[appCand[a]] = "deleted"

\* The inductive invariant: what the checks, the row lock, the foreign keys and
\* the unique index maintain together.
IInv ==
  /\ TypeOK
  /\ TxnWellFormed
  /\ AppsHaveJobs
  /\ AppsHaveCandidates
  /\ OneSweepPerJob
  /\ OneOpenApplicationPerPair
  /\ ClosedHasAnchor
  /\ StrandedHasCause
  /\ SweepCovers
  /\ SweepTells

\* What a purge under way has read is still so, if nothing overlaps it.
PurgeSnapshotHolds ==
  \A s \in Sessions :
    txn[s].op = "purge" =>
      \A c \in txn[s].cands :
        /\ profile[c] = "live"
        /\ \A a \in Of(c) : /\ WindowExpired(appJob[a])
                            /\ appStatus[a] \in Terminal \ {"HIRED"}

----------------------------------------------------------------------------
(* What the code says of itself, and overlapping transactions may break. *)

\* "A candidate with even one application that is still active, recently
\* closed, or HIRED is preserved" and "tombstoned profiles are excluded - their
\* Application rows must survive" (purge_expired_candidates).
PurgeSpares ==
  \A c \in Candidates :
    profile[c] # "purged" /\ profile'[c] = "purged"
      => /\ profile[c] = "live"
         /\ \A a \in Of(c) : /\ WindowExpired(appJob[a])
                             /\ appStatus[a] \in Terminal \ {"HIRED"}

PurgePreserves == [][PurgeSpares]_vars

\* "Any entry into CLOSED sweeps" (update_job).
EntryIntoClosedSweeps ==
  [][\A j \in Jobs : job[j] \in JobStatuses \ {"CLOSED"} /\ job'[j] = "CLOSED"
       => \A a \in On(j) : appStatus'[a] \notin Active]_vars

\* "Cannot change status of a withdrawn application"
\* (admin update_application_status): WITHDRAWN is final.
WithdrawnIsFinal ==
  [][\A a \in Applications :
       appStatus[a] = "WITHDRAWN" => appStatus'[a] \in {"WITHDRAWN", "deleted"}]_vars

\* "Each row is owned by one writer at a time" (transactional, on why READ
\* COMMITTED is enough): what a transaction checked still holds when it commits.
\* JobNotPendingError, "reject at the source rather than create an orphan"
\* (push_match), "terminal applications are left alone" and, of tombstones,
\* "they must not reach the mail" (the sweep), and the purge's "is preserved"
\* rest on it.
ChecksHoldAtCommit ==
  [][\A s \in Sessions : LET t == txn[s] IN
       txn'[s] = NoTxn /\ <<job, profile, appStatus>>' # <<job, profile, appStatus>> =>
         /\ t.op \in {"approve", "reject", "delete"} => job[t.job] = "PENDING_APPROVAL"
         /\ t.op \in {"apply", "register", "push"} => job[t.job] = "PUBLISHED"
         /\ t.op = "sweep" => /\ \A a \in t.apps : appStatus[a] \notin Terminal
                              /\ \A c \in t.cands : profile[c] # "deleted"
         /\ t.op = "purge" => \A c \in t.cands : Eligible(c)]_vars
=============================================================================
