# TLA+ models of rs-recruiting

rs-recruiting is a recruiting platform: companies post jobs, an admin approves
them, candidates apply, the admin and the company move each application through
a pipeline, and the system sends mail about it and deletes what it may no longer
keep. A FastAPI service and a background worker share the library
`src/libs/shared/rs_shared`, one PostgreSQL database and one SQS queue; a React
frontend talks to the API. Paths below are relative to `src/libs/shared/rs_shared`,
but for `services/api`, `services/worker`, `frontend` and `docs`, which are
directories of `src/`; the frontend's own (`hooks/`, `pages/`, `components/`,
`contexts/`) are relative to `src/frontend/src`.

Run a check with `tlc -workers 2 -config MCPipelineOverlap.cfg MCPipelineOverlap`,
and the proofs of a module with `tlapm PipelineProofs.tla`. `PROJECT.json` lists every run, the
lines each definition stands for, the hazards and the theorems.

## The system

### How the parts interact

Every service function runs in one `@transactional()` transaction
(`core/infrastructure/transactions.py`): READ COMMITTED, rows read without locks
unless the code says otherwise, writes flushed late, post-commit hooks run after
the commit and never undo it. Between a service's reads and its writes, any
other request or task may commit. What the database itself enforces (unique
indexes, foreign keys, row locks of a flushed write, one trigger) is the only
thing that survives such an overlap, and it is what most properties here rest on.

Work that must not block a request goes through the queue: mail through the
email outbox, embeddings and data exports as tasks of their own. SQS delivers at
least once; the worker deletes a message after its task returned. EventBridge
starts the scheduled tasks (the outbox sweep, the purges).

### Components

| Component | State | Operations | Hard behaviour | What makes it correct |
|---|---|---|---|---|
| Email outbox (`core/services/email_outbox.py`, `core/tasks.py`) | `email_outbox` rows: status, attempts, dedup_key, updated_at; the quota counter | queue, nudge after commit, claim, send, record, retry, give up, sweep | process death between claim, send and record; duplicate delivery; lost nudge; two inserts of one key | one delivery per email and per key; truthful statuses; bounded attempts; nothing committed is forgotten |
| Queue worker (`services/worker`) | messages in flight, receipt handles | receive, run, delete | redelivery, visibility timeout, dead-lettering | a message is deleted only when its work is done or pointless |
| Jobs (`services/admin/jobs*.py`, `_job_close.py`, `services/company/jobs.py`, `models/jobs.py`) | job status, `closed_at` | create, approve, reject, edit, close with sweep, delete | two deciders; a close against applies and status changes | `closed_at` exactly on closed jobs; no active application on a closed one; every candidate not deleted told once |
| Applications (`services/public`, `services/candidate`, `services/company`, `services/admin`) | application status, its job and candidate | apply, push, withdraw, set status, delete | check then write; partial unique index; re-apply after withdrawal | one open application per candidate and job |
| Retention purge (`services/admin/_candidates_purge.py`) | profiles and applications | read who is eligible, delete | a purge against an apply or a status change | only candidates whose applications are all over and past the window are erased |
| Sessions and lockout (`services/auth/session.py`, `login.py`, `password_*.py`) | refresh tokens and used hashes, reset links, failed_login_attempts, locked_until | login, refresh, logout, reset, change | rotation races, replay detection, revocation against rotation | one successor per token; an ended session lives on only through what its end overtook; failures do not escape the lock |
| Accounts (`services/auth/activation.py`, `candidate_registration.py`, `services/candidate/account_deletion.py`) | users, profiles, one-time tokens | register, activate, link, delete | re-registration during activation; writes onto a deleted account | a link activates what its owner asked for; a tombstone stays empty |
| Data export and resume storage (`services/candidate/data_export.py`, `profile.py`) | export rows, files in S3 | request, build, download, purge, replace resume | files and rows are not one transaction; duplicate tasks | no row without a file, no file without a row, one pending export |
| Company onboarding (`services/admin/invites.py`, `company_approval.py`) | invites, company status, activation tokens | invite, register, approve, activate | two admins at once; `scalar_one_or_none` over rows no index makes unique | at most one live invite and token |
| Matching (`core/matching.py`, embedding tasks) | embeddings of jobs and profiles | enqueue, embed, rank | tasks finish out of order | the last text wins |
| Pagination (`core/infrastructure/pagination.py`) | none; keyset cursors | page | rows move between pages while one pages | no row shown twice, none that stayed put is missed |
| Frontend session (`frontend/src/services/api.ts`, `contexts/AuthContext.tsx`) | access token in localStorage, refresh cookie, refresh in progress, queued requests | 401 interceptor, probe at load, login, logout | callbacks out of order; two tabs, one cookie; lost answers | each request settles; no needless sign-out |
| Frontend lists (`hooks/useInfiniteList.ts` and the list pages) | rows shown, cursor, fetch in flight, changes shown ahead of the server | load more, change filter, decide, undo, delete, create | pages and changes answered in any order; a refusal after the row was taken away | a row once; at rest, what the server holds |
| Frontend forms, wizards, row inputs, filters | fields, their subject, submissions in flight, the address | type, submit, close, reopen for another row | an answer for what is no longer on screen | what was typed for one thing is not saved to another; what is shown of a save is true |
| Kanban board and triage deck (`pages/company/components/JobKanban.tsx`, `pages/admin/components/useTriage*.ts`) | cards by column, their order in localStorage; index, decisions, pending undo | drop, decide, undo, jump | a refusal that restores a snapshot others have overtaken | board and deck show the server's statuses |
| Panes (records, timelines, counts) | subject, what was read of it, reads in flight | choose, read, edit | the subject changes under a read | data, "none" and errors are the subject's |
| Pages behind one-time links | view and request of each tab, the token | check, submit, retry | several tabs, expiry, lost answers | the page tells what became of its own request |
| API routers and middleware | none | routing, validation, error mapping | - | which call runs in which transaction |

Templates, the routes that only read, migrations and deployment keep no protocol
state of their own and are not modelled. `PROJECT.json` lists them
with the reason.
## The plan, and where it stands

| # | Module | What it adds | State |
|---|---|---|---|
| 1 | `EmailOutbox`, `EmailPromise` | the outbox with its worker and sweeper; the abstract promise it implements | checked, safety and refinement proved |
| 2 | `Pipeline` | jobs, applications and the purge as overlapping transactions | checked, proved |
| 3 | `Sessions` | refresh rotation, replay detection, lockout, reset and change | checked, proved |
| 4 | `Accounts` | registration, activation, linking, a guest's apply, the purge of pending users | checked, proved |
| 5 | `Resumes`, `Exports` | files next to the rows that name them; deletion and its tombstone | checked, proved |
| 6 | `RefreshClient` | the 401 interceptor and its queue, two tabs over one cookie | checked, safety proved |
| 7 | `InfiniteList`, `Forms`, `Kanban`, `Triage`, `Panes`, `Wizard`, `Filters`, `RowEditor`, `Links` | the screens of the frontend | checked together in `MCScreens`; every property of that run proved |
| 8 | `Onboarding`, `Embedding` | invites and approvals; out-of-order embed tasks | not written, see the end |

`MCAccount` composes `Sessions`, `Accounts`, `Resumes` and `Exports`, `MCScreens`
the screens; `MCEmailOutbox`, `MCPipelineOverlap`, `MCPipeline`, `MCSessions` and
`MCRefreshClient` give one module its instance. `Picking` is JavaScript's `filter`, which the
lists, the board and the row editor use.

The proofs stand apart from the models:

| Module | Proves about |
|---|---|
| `EmailOutboxProofs` | `EmailOutbox`, and that it implements `EmailPromise` |
| `PipelineProofs` | `Pipeline`, and `MCPipelineOverlap`'s purge among transactions that take turns |
| `AccountsProofs` | `Sessions`, `Accounts`, and the types of their composition `MCAccount` |
| `FilesProofs` | `Resumes`, `Exports` |
| `RefreshClientProofs` | `RefreshClient` |
| `ListsProofs` | `Picking`, `InfiniteList`, `Triage`, `Kanban` |
| `InputsProofs` | `Forms`, `Wizard`, `Filters`, `RowEditor` |
| `ScreensProofs` | `Links`, `Panes`, and the properties of the composition `MCScreens` |

A module's mutants stand beside the definitions they replace; each is a plausible
bug (a dropped guard, a missing reset, a swapped order) that the run named in
`PROJECT.json` catches.

## The email outbox

### Correspondence with the code

| Model | Code |
|---|---|
| `Rows`, `request`, `DedupKey` | the calls of `queue_email` (`core/tasks.py`) made inside a `@transactional()` service; a row is named after the call that may insert it |
| `status`, `attempts`, `older`, `stale` | `email_outbox.status`, `.attempts` and the order of `.updated_at` against the sweeper's cutoff (`core/services/email_outbox.py`) |
| `sqs`, `live` | visible copies of a row's message, and whether a worker's receipt handle still hides its copy |
| `phase`, `held`, `tries` | where each worker stands in `send_outbox_email_task`, the row it holds and its snapshot of `attempts` |
| `todo` | the rows a sweep has read and not yet re-enqueued |
| `accepted`, `died`, `unrecorded` | history: what the provider took, whose worker died mid-send, whose outcome could not be written |
| `faults` | bound: how many anomalies a behaviour contains |

The producer is `Insert` (the `INSERT ... ON CONFLICT DO NOTHING`, which in
PostgreSQL waits for an open insert of the same key), `Commit` or `Rollback`
(`transactional`), and `Nudge` or `NudgeLost` (the hook that runs after the
commit, whose failure is logged and dropped). The worker takes one transaction
per step, which is the grain the code fixes on purpose: `Claim` commits before
the provider is called (`ProviderAccepts`, `ProviderRejects`,
`ProviderAnswerLost`) and the outcome is committed by a third transaction
(`RecordSent`, `RecordRetry`, `RecordFailed`, or `RecordFails` when that
transaction itself fails). `Ack`, `Nack`, `AckFails`, `DeadLetter`, `Crash`,
`VisibilityExpires` and `DuplicateDelivery` are the loop of
`services/worker/rs_worker/worker.py` around a message and what SQS, which is
external, does to it. The sweeper is `SweepStart` (the `LIMIT` query, oldest
`updated_at` first), `SweepSend` and `SweepFails`.

The updates of `mark_sent`, `mark_for_retry` and `mark_failed` are modelled as
the code writes them, without a test of the row's current status. That they
nevertheless only ever move a `SENDING` row of their own is the property
`ExclusiveSend`, not a guard.

### Runs

| Run | Instance | Shows |
|---|---|---|
| `outbox_faults` | 2 calls with one `dedup_key`, 2 workers, 3 attempts, sweep limit 2, 4 faults, truthful provider | one delivery per email and per key, attempts bounded, terminal statuses truthful, exclusive sending, a stranded row has a cause, quota equals `SENT` rows, no message before the commit of its row, the refinement of `EmailPromise` |
| `outbox_live` | 2 rows, sweep limit 1, fair workers and sweeper | each committed email is settled although a nudge or message may be lost |
| `outbox_ambiguous` | 1 row, ambiguous provider | violation: the retry after a lost answer sends twice |

Bounds. Four faults are enough for a crash in each of three attempts plus one
anomaly of the queue. `MaxCopies` caps the queue at two copies of one message, as
many as two workers can hold. Two rows meet each other only through the sweeper's
`LIMIT`, the quota counter and the `dedup_key`; each is reached with two.

Fairness (`FairSpec`). The worker is a service that its orchestrator restarts,
SQS delivers visible messages, and EventBridge runs the sweeper on a schedule:
hence weak fairness of the worker's steps, of `Receive` for each row, of
`SweepStart` and `SweepSend`, and of time (`BecomeStale`). Nobody is obliged to
ask for an email, so `Insert` is not fair, and no fault is.

### Proofs (`EmailOutboxProofs`)

`IInv` is the inductive invariant. It joins the type invariant with
`ExclusiveSend` and `AttemptsBounded`, and adds what neither says alone: that a
row is in the table exactly when its transaction committed (`RowMatchesRequest`),
that one call per key holds a row (`OneHolderPerKey`), and what a row's status
and its sender's phase say about the mailbox (`MailMatchesStatus`). The last part
is what makes `AtMostOnce` go through: a row that is `PENDING` was never
accepted, so a claim starts from an empty mailbox. It holds only with a
truthful provider, so the theorems about the mailbox carry the hypothesis
`AmbiguousProvider = FALSE`; `outbox_ambiguous` shows that it cannot be dropped.
The other assumptions are those the module names on its constants. From `IInv`
follow `ExclusiveSend`, `AttemptsBounded`, `AtMostOnce`, `AtMostOncePerKey`,
`TerminalIsTruthful`, the action property `StatusMoves` (proved only) and the
refinement of `EmailPromise`, for any number of rows, workers, attempts and faults.

`MessageNamesCommittedRow`, `OrphanHasCause` and `QuotaCountsSent` are each
inductive given `IInv`, by a lemma on what a step may do: a name in a message, a
hand or a sweep's list was there before or is of a row then committed
(`RowsStay`, `NamedBefore`); a sender leaves a `SENDING` row only by death or by a
write that failed, and neither trace is ever erased (`OwnersLeave`, `TracesStay`);
the counter and the number of `SENT` rows move together (`QuotaMoves`, with the
library's facts on cardinality). `EventuallySettled`, liveness under fairness, is
model-checked only.

### Finding

- The retry path double-sends when the provider's answer is lost
  (`outbox_ambiguous`). `SMTPEmailProvider.send_email` maps every exception to
  `False`, and `send_outbox_email_task` reads `False` as "not sent". The comments
  at `core/services/email_outbox.py:15-17` and `:117` promise the recipient
  a single email.

## The pipeline

### Correspondence with the code

| Model | Code |
|---|---|
| `job`, `anchor` | `jobs.status` and the age of `jobs.closed_at` (empty, inside the retention window, past it) |
| `profile` | the candidate's profile row: none, live, deleted (a tombstone: `deleted_at` is set and the personal data scrubbed), purged |
| `appStatus`, `appJob`, `appCand` | a row of `applications` |
| `mailed` | `job_closed:{id}` mails in the outbox |
| `txn[s]` | what the transaction of session `s` has read and is about to write |
| `excused` | history: active applications no close could have swept |

Each service is two actions. The read checks and opens `txn[s]`; the write
commits by id without looking again. Between them other sessions commit, which is
what READ COMMITTED allows. A write the database refuses cannot be taken, and
`Abort` undoes the transaction at any time. The database contributes four things:
the partial unique index (`IndexAccepts`), the foreign keys with their cascade
(`RemoveJob`, `JobExists` in a write), the lock on a job row a close has flushed
(`Locked`), and the trigger that stamps `closed_at` (`Stamp`).

| Action | Code |
|---|---|
| `CreateJob` | company `create_job`, admin `create_job` |
| `ApproveRead`, `RejectRead`, `JobWrite` | `approve_job`, `reject_job` |
| `UpdateRead`, `JobWrite` or `CloseFlush`, `CloseCommit` | admin `update_job`, `close_active_applications` |
| `CompanyDeleteRead`, `CompanyDeleteWrite`, `AdminDelete` | `delete_job` of company and admin |
| `ApplyRead`, `PushRead`, `InsertWrite` | public and candidate apply, `push_match` |
| `WithdrawRead`, `AdminStatusRead`, `CompanyStatusRead`, `StatusWrite` | `withdraw_application`, the two `update_application_status` |
| `DeleteApplication` | admin `delete_application` |
| `PurgeRead`, `PurgeWrite` | `purge_expired_candidates` |
| `TombstoneRead`, `TombstoneWrite` | `confirm_deletion`, admin `admin_tombstone_candidate` |
| `Age` | a year passes; no transaction is that long |

### Runs

| Run | Instance | Shows |
|---|---|---|
| `pipeline_overlap` | 3 sessions, 1 job, 2 candidates, 2 applications | one open application per pair, `closed_at` exactly on closed jobs, a stranded application has one of two causes, one closure mail each unless the candidate is a tombstone; and, in the behaviours that open one transaction at a time, the purge erases only what its documentation says |
| `pipeline_closing` | 1 session | violation: `reject_job` closes without a sweep |
| `pipeline_withdrawn` | 1 session | violation: a company moves a withdrawn application on |
| `pipeline_stale` | 2 sessions | violation: what a transaction checked no longer holds when it commits |

Bounds. Three sessions let a close, an insert and a second close, a deletion or
a decision overlap; a third transaction is opened only beside a close
(`FullOnlyBesideClose`), any two overlap freely. Two applications are what the
unique index and the sweep compare, two candidates let a sweep tell one and leave
out the other. The
variable `alone` of `MCPipelineOverlap` is chosen at the start: TRUE keeps the
behaviours in which a transaction opens only when no other is open, the hypothesis
of `PurgePreservesIfAlone`, and FALSE restricts nothing. `AdminTargets` and `CompanyTargets` keep one
representative per kind of status an actor sets: an active one and a terminal
one. Deadlock is not checked: row ids are used once, and a behaviour in which
all of them are gone has nothing left to do.

### Proofs (`PipelineProofs`)

`IInv` joins the properties above with what they rest on: an open transaction
remembers something it may write (`TxnWellFormed`: only `reject_job` writes
`CLOSED` without a sweep), applications have jobs (`AppsHaveJobs`), at most one
close of a job is past its flush (`OneSweepPerJob`), and what that close has not
read was written after it read (`SweepCovers`). The last two are why
`StrandedHasCause` survives a commit of the close: all active applications are
either in its set or excused. `ToldOnce` rests on two more: an application keeps
its candidate's row, live or a tombstone (`AppsHaveCandidates`), and whom a close
under way will not tell is a tombstone (`SweepTells`). `TypeCorrect`, `OneOpenHolds`,
`ClosedHasAnchorHolds`, `StrandedHasCauseHolds` and `ToldOnceHolds` follow for
any number of sessions, jobs, candidates and applications and for every choice
of targets. `PurgePreservesIfAloneHolds` is about the behaviours of
`MCPipelineOverlap` that have at most one transaction open at a time, whoever
opens it: while a purge is open only deletions change the rows it read
(`AloneInv`), so it erases no tombstone and nobody with an active, hired or recently
closed application. When transactions overlap this fails: an admin reopens a job
between the purge's read and its write (the disagreement `pipeline_stale`
reports, whose property `ChecksHoldAtCommit` includes the purge).

### Findings

- `reject_job` (`services/admin/jobs_workflow.py:164`) closes a job and leaves
  its active applications, when an admin had put a published job back to
  `PENDING_APPROVAL`. `services/admin/jobs.py:263` says that any entry into
  `CLOSED` sweeps, and names this path.
- A company's status update looks at the job's owner and not at the application's
  status (`services/company/_jobs_applications.py:160`): a withdrawn application
  returns to the pipeline. `_application_status.py:69` and `enums.py` call
  `WITHDRAWN` final.
- `core/infrastructure/transactions.py:35-37` says READ COMMITTED is sufficient
  because each row is owned by one writer at a time. Two admins may both decide
  one pending job: approved, then rejected, and both mails go out. The same
  pattern lets a push land on a closed job, a sweep overwrite a decision, a close
  mail the old address of a candidate whose account was deleted after the close had
  read it (`_job_close.py:64-70` says tombstones must not reach the mail), and a
  purge erase an application that has just been reopened.

### Not modelled

Edits that do not touch a status, the contents of applications (answers, notes,
resume), listings, and the mails other than the closure mail. A candidate is a
profile here, which a deletion turns into a tombstone; its user, activation and
what a deletion does to files and personal data are in `Accounts` and `Resumes`.

## Sessions and lockout

### Correspondence with the code

| Model | Code |
|---|---|
| `row` | a row of `refreshtoken`: not issued yet, live, deleted |
| `used` | token hashes in `usedrefreshtoken` |
| `link` | the user's password-reset tokens |
| `failed`, `locked` | `user.failed_login_attempts`; whether `user.locked_until` lies ahead |
| `txn[s]` | what request `s` has read and is about to write |
| `parent`, `ended`, `overlapped`, `unpunished`, `racing` | history: a token's predecessor, tokens issued before an event that ends their session, those issued by a request such an event overtook, failures in a row, logins under way when the lock fell |

One user is enough: no two users share a row of these tables. Requests read and
check in one action and write in another, as in the pipeline. Two things differ.
A request that answers 401 is rolled back, so what it must keep (a failed
attempt, the sessions a replay ends, an expired token's deletion) is committed
in a transaction of its own: `FailWrite`, `ReplayWrite`, `DropExpired`. And a
rotation deletes a row by id after others may have deleted it. The ORM warns of
a `DELETE` that matches nothing and goes on. Only the unique hash of
`usedrefreshtoken` refuses it (`RotateWrite`), which is why a logout, which
records the hash, overtakes no rotation, and `RevokeSession`, which does not, may.

| Action | Code |
|---|---|
| `LoginRead`, `FailWrite`, `LoginClear`, `LoginIssue` | `authenticate_user`, `_record_failed_attempt`, `_clear_failed_attempts`, `create_user_tokens` |
| `LockExpires` | `_check_lockout` after `locked_until` |
| `RefreshRead`, `ReplayWrite`, `DropExpired`, `RotateWrite` | `refresh_user_tokens` |
| `LogoutRead`, `LogoutWrite` | `logout_user` |
| `RevokeSession`, `RevokeAll` | the two routes of `services/api/rs_api/api/auth/sessions.py` |
| `ChangeRead`, `ChangeWrite` | `change_user_password` |
| `RequestReset`, `ResetRead`, `ResetWrite`, `ResetHook` | `request_password_reset`, `reset_password` and its hook after the commit |

### Runs

| Run | Instance | Shows |
|---|---|---|
| `account`, part "sessions" | 2 requests, 3 tokens, 1 link, lock at 2 failures | a token is consumed once; an ended session lives on only through a request its end overtook; failures do not escape the lock |
| `sessions_ended` | 2 requests, 2 tokens | violation: a rotation under way outlives the revocation of its session |

Bounds. Three tokens are two links of one chain next to a second session, or a
chain of three. Two requests race for one token while the revocations, which are
one step, still come between them. A lock at two failures has a failure that
does not lock and one that does. Expiry of a token or a link is a token nobody
presents or, on presentation, `DropExpired`. Deadlock is not checked: when all
tokens are issued and gone nothing more need happen.

### Proofs (`AccountsProofs`)

`SingleUse` and `LockHolds` need only that the history agrees with the rows
(`TokensKnown`, `failed = unpunished`). `SurvivorHasCause` is not inductive
alone: a rotation has read a token that an event then ends, and only at its
commit does the successor become live. `TxnCarriesCut` closes the gap: a
rotation whose token belongs to an ended session was overtaken by what ended it,
or the token was already issued by an overtaken request, or its hash is used, so
that the commit is refused. Every event that ends sessions marks the requests it
overtakes (`Overtake`), except a logout, for which the third case holds. From
`IInv` follow `TypeCorrect`, `SingleUseHolds`, `SurvivorHasCauseHolds` and
`LockHoldsAlways`, for any number of requests, tokens and links and any
threshold.

### Findings

- A refresh that read its token before the session ended commits a successor
  after (`services/auth/session.py:189`): an ended session lives on. It
  contradicts "log out everywhere" (`api/auth/sessions.py:113`), "every parallel
  session for this user is wiped" (`password_reset.py:173`) and "revokes every
  refresh token except the current one" (`password_change.py:6`).
  `SurvivorHasCause`, which is proved, says how far this goes: no further than
  requests that were open at the time, and what is rotated from their tokens.
- An observation without a run: `session.py:126` says that expired used-hash
  records are cleaned up passively, but the deletion (`:145`) is rolled back with
  the 401 that follows.

### Not modelled

The password itself (who knows it), inactive users, which access tokens are
accepted between two refreshes (each names its refresh token's row, and
`get_current_user` refuses it once the row is gone), the per-address limit on reset requests,
cookies and other users. The pool of database connections is not modelled:
requests that need a second connection while they hold one are listed as a
hazard.
## One account: activation, files, exports

### Correspondence with the code

`Accounts` is the life of one e-mail address.

| Model | Code |
|---|---|
| `user`, `password`, `aged` | the `user` row, which registration set `hashed_password`, whether it is past the purge's cutoff |
| `person` | the candidate profile: none, a lead's, linked to the user |
| `mail`, `life`, `carries` | `activationtoken` rows, their age, the `full_name` they carry |
| `call[c]` | what request `c` has read and is about to write |
| `opened`, `crossing` | history: the link that activated; what a request wrote after another had changed what it had read |
| `RegisterRead`, `CreateWrite`, `RecycleLock`, `RecycleWrite` | `register_candidate` and a claiming apply: the new user, or the pending one recycled (`candidate_registration.py`) |
| `ResendRead`, `ResendWrite` | the resend of the activation link |
| `ActivateRead`, `ActivateWrite` | `activate_account` (`services/auth/activation.py`), the linking of a lead's profile included |
| `GuestRead`, `GuestWrite` | an apply without an account |
| `PurgeUserRead`, `PurgeUserWrite` | the purge of users who never activated (`services/admin/maintenance.py`) |

`Resumes` is one candidate's files: `replace_resume`, `remove_resume` and the
patches of `services/candidate/profile.py`, applies and their edits, the matching
task (`core/matching.py`), and the deletion of the account by its owner or an
admin (`EraseRead`, `EraseWrite`). A request changes only the columns it changed
in memory, as the ORM does; a file is uploaded before and deleted before the
commit (`DropFile`), so a request that fails after it leaves the store changed
(`GiveUp`). `Exports` is `services/candidate/data_export.py`, its task and the
purge in `maintenance.py`: `BuildCheck`, `BuildUpload` and `BuildWrite` are apart
because the task checks in a transaction of its own; a message may be delivered
again (`OrderGone` is a separate, optional step).

### Runs

| Run | Instance | Shows |
|---|---|---|
| `account` | the four modules, one part of the account per behaviour | `ActivationSound`, `NobodyPurgedInError`, `TombstoneHasCause`, `MissingHasCause`, `ExportsSound`, and the properties of `Sessions` above |
| `resumes_snapshots` | `Resumes` alone | violation: removing or replacing a resume deletes the file an application still names |

`MCAccount` runs the parts one at a time. They share no row but the user's, and
each module has the end of that row as an action of its own (`EraseWrite`,
`OwnerGone`, `PurgeUserWrite`), so nothing is lost by keeping them apart, and the
state space is the sum of four and not their product. The configuration gives
sets of different modules the same model values (`t1` is a refresh token, a link
and a storage key) only so that one symmetry serves all of them; no part compares
another's values.

Bounds: two requests at a time, three links, three keys, one application, two
ZIPs, two messages. Two requests are what a check and a write need to be crossed;
three links are an old one, a re-registration's and a resend's; three keys are an
application's upload, the profile's and a replacement; two ZIPs are two deliveries
of one order. One application is enough for a snapshot and not for two snapshots
of one file, which the theorems cover: they hold for all values of the constants.
Deadlock is not checked, since links and keys are given out once.

### Proofs (`AccountsProofs`, `FilesProofs`)

Each proves its inductive invariant, and from it the type invariant and the
properties, for every value of the constants.

- `AccountIInv`: what an open request relies on holds unless it is marked as cut
  (`CallsAgree`); a pending user has an unused link and an active one was opened
  by a link (`LinksAgree`); each link that may still open the account carries the
  name of the registration whose password is set, or is marked
  (`LinksOfOwner`). From it follow `ActivationSound` and the action property
  `NobodyPurgedInError`. The proof asked for one case no small instance has: a
  resend may copy its name from a link that a crossed request minted
  (`Inherits`), which takes a fourth link to matter.
- `ResumeIInv`: what a request holds was uploaded (`WorksAgree`), what filled the
  profile since a deletion read it is marked late (`ErasesAgree`), and nothing
  covers for a name without its file (`NamesAgree`). `TombstoneHasCause` is part
  of it; `MissingHasCause` follows.
- `ExportIInv`: a build owns its file and two downloads of one link are marked
  (`HandsAgree`), only rows get old (`OverHasRow`), and a link that was answered is
  marked used (`ServedIsMarked`).

`PartsImplement` proves that the composition of `MCAccount` implements each of the
four specifications it is made of, so that what is proved of one of them holds of
the behaviours the run `account` checks; `PartsTypeCorrect` is the type invariant of
the composition itself.

The theorems say how far each promise goes, because without its exceptions none
of them holds: two links may both work if a resend crossed a registration,
personal data may come back onto a deleted account if an apply crossed the
deletion, and so on. Each exception is a history variable set only by the
crossing itself.

### Findings

- `resumes_snapshots`: the profile's file is shared with applications and deleted
  from under them (`services/candidate/profile.py:170`), against "The Application
  snapshots are independent and not touched by this operation" (`:132`).

Observations without a run: two export requests made before the worker builds the
first both get a row, against `docs/API_DESIGN.md:378-379`, and
`scalar_one_or_none` then raises until one expires; the "single-use" link of
an export serves two overlapping downloads; deleting an account leaves its ZIPs and
its applications' own files in the store, with no row to find them by;
`remove_resume` says that it clears the derived data and keeps `resume_summary`;
reset and activation tokens are read without a lock, deletion tokens with one.

## The session in the browser

### Correspondence with the code

`RefreshClient` is `frontend/src/services/api.ts` (the interceptor), the session
part of `contexts/AuthContext.tsx` (probe, safety valve, login, logout), and the
server as one client sees it: `Rotate` consumes a refresh row and issues the next,
a logout consumes the row of its cookie and issues none (`AnswerLogout`), a consumed
cookie ends all sessions, an access token is good while its row lives and its
lifetime lasts.

| Model | Code |
|---|---|
| `cookie`, `stored` | the refresh cookie and `localStorage` `access_token`, shared by the tabs |
| `refreshing`, `call[c].st = "waiting"` | `isRefreshing` and `refreshQueue`, per document |
| `call[c].retry` | `_retry` on the request's configuration |
| `flight[t]` | the interceptor's refresh and the probe of a load; the answer's cookie arrives (`ArriveRefresh`) before the script runs (`RefreshOk`, `ProbeOk`) |
| `mode`, `leaving` | what the guards show; a navigation under way |
| `logout` | the logout call, which outlives the page (bound: one at a time): sent, then accepted by the server with the 204 on its way |
| `lost`, `overlap`, `stranded` | history: the answer to a refresh or a logout was lost; a refresh was under way together with another refresh, or a logout, of its cookie; a refresh failed in this document |

### Run

`client`: two tabs, two API calls of the first, two generations of the session.
Two tabs are what a cookie needs to be used twice; two calls are the one that
begins a refresh and the one queued behind it; two generations are a session and
its first rotation (or a login after it). Deadlock is not checked: all calls may be
over and both tabs signed out.

Fairness (`ClientFairness`) is that of the browser and the network: a message is
answered or lost, and the callback of an answer runs. Users, expiry and the
completion of a navigation are not fair; the code itself expects that a
navigation may be blocked (the 500 ms fallback of `logout`).

`CallsEnd` then says that every call is settled, gone with its page, or hangs in
the queue of a document whose refresh failed. That last exception is real: when a
refresh fails, `refreshQueue` is neither rejected nor emptied (`api.ts:84-86`), and
on the login page no navigation gets rid of it.

A logout is a second way to consume a cookie, and nobody waits for it: `logout`
sends the call and leaves the page. A page loaded, or a tab refreshed, after
`logout_user` recorded the cookie (`session.py:216-222`) and before the 204 cleared
it sends a consumed cookie, which ends every session of the user (`:133-143`); so
does a refresh after a 204 that never came. `ReplayHasCause` has both as causes
(`overlap`, `lost`), and `CookieCurrent` has the 204 under way as its third
exception.

### Proofs (`RefreshClientProofs`)

`ClientIInv` joins the type invariant and the three safety properties with
`FlightsAgree` (cookies are of issued generations; no refresh is under way in a tab
that is not refreshing), `AnswersUnseen` (the generation of an answer that has not
arrived is nobody's cookie, and no other answer's), `OverlapMarked` and
`LogoutMarked` (a logout that will be accepted carries no cookie of an answer under
way, and marks a refresh of the same cookie). A generation is used only by the
refresh or the logout that consumed it: so a cookie that is used is one whose
successor, or whose clearing, is still on its way (`CookieCurrent`), or was lost;
and a refresh that carries a used cookie overlapped the request that used it
(`OverlapMarked`, `LogoutMarked`) or left after an answer was lost
(`ReplayHasCause`). `QueueHasRefresh`
rests on the flag being set in the step that starts the refresh. All hold for any
number of tabs, calls and generations. `CallsEnd`, liveness, is model-checked
only.

## The screens

### Modules and code

| Module | Code | State | What is hard |
|---|---|---|---|
| `InfiniteList` | `hooks/useInfiniteList.ts`, the eleven list pages, `core/infrastructure/pagination.py` behind them | items, cursor, fetch in flight, calls in flight, the server's rows | one fetch at a time drops others; rows taken away before the server agreed |
| `Forms` | dialogs and forms of admin, company and candidate pages, `useConfirmableClose.tsx`, `useResetOnTrigger.ts` | open subject, draft, submissions in flight | answers for a dialog closed, reopened or submitted again |
| `Kanban` | `pages/company/components/JobKanban.tsx` | stage of each card, order, saved order, drag, moves in flight | a refusal restores a snapshot of the whole order |
| `Triage` | `pages/admin/components/useTriageSession.ts`, `useTriageQueue.ts` | decisions, index, slide, undo, patches in flight | undo and late refusals while the deck goes on |
| `Panes` | record panes, panels and dashboards that read one subject, `hooks/useFetch.ts` | subject, shown, reads, edits | a late read of an earlier subject |
| `Wizard` | `pages/public/ApplicationPage.tsx`, `pages/RegisterPage.tsx` | step, wrong and flagged fields, profile's arrival, the post | a field goes wrong after its step passed |
| `Filters` | `pages/public/JobBoardPage.tsx`, the admin's filter panels, the salary field | loaded rows, range, text, address | the slider's ends move with the rows loaded |
| `RowEditor` | `JobRequirementsInput.tsx`, `JobTagsInput.tsx` | rows, keys, the row being edited | keys kept beside the rows |
| `Links` | `ActivatePage`, `ResetPasswordPage`, `DeleteAccountConfirmPage`, with `activation.py`, `password_reset.py`, `account_deletion.py` | token, each tab's view and request | several tabs, expiry, lost answers |

Many screens share one shape, so the modules describe a screen by how it answers
to events. `InfiniteList`, `Forms` and `Panes` have a record for each component
(`JobDialog == Again(Form("kept", TRUE, "subject", "switch", "toast"))`) whose
fields are read off its handlers, and one action per event that consults them. The
initial state chooses the component. Rows, subjects and drafts are numbers, texts are
whose text they are, a field of a wizard is right or wrong.

### Run

`screens` checks `MCScreens`: a behaviour picks one screen and stays on it.
Screens keep their state in their own component and share only the server, of
which each module has its part, so a product would add nothing. The others'
variables rest at one initial state, and `VIEW OwnState` tells states apart by the
screen and its own variables; the rest cannot change within a behaviour. The
properties join those of the modules by what they promise:

| Property | Parts | Promise |
|---|---|---|
| `WaitingHasCause` | `LoadingHasFetch`, `SavingHasCall`, `LoadingHasRead` | a skeleton, spinner or disabled button waits for a request under way |
| `ToldTrue` | `VerdictTrue`, `RefusalSeen`, `OutcomeTrue`, `InvalidIsDead`, `OwnDeedTold` | what is told of a request is what became of it |
| `SentRight` | `SendsOwnDraft`, `StepsBehindPass`, `SubmittedRight`, `CreatedOnce`, `DeletedOnce` | what is sent was typed for this subject, passed its checks, and goes once |
| `ListSound` | `RowsOnce`, `ListTruthful` | a row once, and at rest the server's rows |
| `CardsSound` | `BoardWhole`, `BoardTruthful`, `ReopenSame`, `TriageTruthful`, `UndoAims`, `LandsWhereAsked` | board and deck show the server's statuses; an undo takes back its own decision |
| `PaneSound` | `ShowsItsSubject`, `NoRowsIsTrue`, `ShowsOwnEdits` | data, "none" and errors are the subject's; one's own edits are shown |
| `InputsSound` | `RangeOrdered`, `HiddenOutsideAsked`, `UrlReopensSame`, `JobsOfCompanies`, `RowKeepsRequirement`, `EnoughRows`, `TagsDiffer` | filters hide only what was asked; a row stays with its requirement |
| `EditsKept` | - | a refusal or a lost answer leaves the form and its text as they are, and a success takes unsaved text only from a user who acted while it was out; except where a refusal ends the form (`Closes`, `Reloads`) |

Each part is stated in its module with its exceptions, and each exception names a
behaviour of the code that breaks the promise without it (listed below). `PROJECT.json`
names one mutant for each joined property; the modules keep further mutants beside
the definitions they replace, at least one for each part, and the check of
`MCScreens` catches each of them under the joined property.

Bounds: two subjects, rows, cards and things, so that a second one may be taken for
the first; two requests in flight, so that answers cross; page size one with two
rows, so that there is a second page; two drops, three verdicts, two versions, three
tabs. Deadlock is not checked: a form that has gone to another page is done.

The sizes that differ are there for a case: a fifth job whose salary lies above the
end the slider falls back to when all the loaded jobs have one, and the salary field's
own last end apart from the slider's. `Step`, `Top` and `FieldTop` are 2, 10 and 8 in
place of the code's amounts.

### Proofs (`ListsProofs`, `InputsProofs`, `ScreensProofs`)

Every property of the run is a theorem of `ScreensSpec`, for any number of rows,
pages, subjects, requests, cards, stages, applicants, jobs, requirements, tags,
versions and tabs: `ScreensTypeOKHolds`, `WaitingHasCauseHolds`, `ToldTrueHolds`,
`SentRightHolds`, `ListSoundHolds`, `CardsSoundHolds`, `PaneSoundHolds`,
`InputsSoundHolds` and `EditsKeptOnScreens`. `ScreensCore` joins the invariants of the
nine modules, each proved inductive under its own specification; `MCScreens` keeps the
variables of the other screens still, so each module's step lemma is the step of the
composition (`OneScreenMoves`).

| Invariant | What it adds to the properties, and why they need it |
|---|---|
| `ListIInv` | what a request and its answer will do to each row, and what the list shows of the row until then (`RowAgrees`); what the page on its way holds (`PageAnswers`): a list at rest is right because each row was right, or had a request that would make it right, at every step before |
| `FormIInv` | whose text the fields hold (`OwnText`), also after a refusal that closes the form or reloads the page, that a submission was of the subject open then, and that one not closed over is still the one the form waits for (`OneAtATime`, `MadeByOne`) |
| `KanbanIInv` | each card is in one column, once, of the order shown, the order saved and the order in hand (`OrdersWhole`); a card with no request of this visit is where the server has it, and the snapshot a request keeps is what its refusal ought to restore (`BoardAgrees`) |
| `TriageIInv` | the pill, the slide and the index agree; a patch that waits is the only one of its application and says what the deck shows of it (`PatchesAgree`) |
| `PaneIInv` | a live read is of the subject, an answer is no newer than the server and a pane that tracks edits has no live answer older than what its user was told (`EditsKeptUp`) |
| `WizardIInv` | a post follows no standing error and is the one that took the form (`PostingStands`) |
| `FilterIInv` | the address holds the page's filters, its range as given or as it counts (`UrlAgrees`); the chosen range is in order |
| `RowIInv` | no key is reused (`RowsKeyed`), the row being edited is in the list (`FocusAgrees`), and what a save carries has each row once (`SentWhole`), so that the answer may become the list |
| `LinkIInv` | a deed has spent the token, and a request past its test of a deletion is alone, because the token's row is locked from the test to the commit |

What the constants are assumed to be is what the schemas and components see to: a
job's lower salary is not above its upper one and neither is negative
(`schemas/jobs.py:74-83`), no two cards of a board have one id, limits are natural
numbers and a page holds at least one row.

The proofs found faults of the models, since corrected: a row created in `InfiniteList`
may not take any free key but the next one, as an insert does (with three rows one
created below the cursor was fetched again and shown twice, a case of the model and
not of the server's order); the filters' promise was too strong in the case the fifth
job is for; and `SelectSeq` gave way to `Picked`, because it is recursive and nothing
can be proved of it.

### Where screens fall short of what they seem to promise

Each is an exception in a property above. None contradicts a written promise of the
repository, or is a run of its own.

- Lists: a filter changed while a page loads drops the new first page
  (`useInfiniteList.ts:59-60`, `:117-120`). The review queue may show a decision
  twice or miss one when a page read crosses it.
- Forms: the notes dialog is filled once, and shows one application's notes for
  another (`ApplicationNotesDialog.tsx:28`); Ctrl+Enter submits a job again while
  it saves (`JobCreateDialog.tsx:194-197`); `JobDialog.tsx:117-121` reseeds from an
  answer what `JobRequirementsInput.tsx:220-231` is editing; after "log out
  everywhere" its button stays disabled (`SessionsSection.tsx:64-73`). The edit of an
  application answered with `application_not_editable` reloads the page, what the user
  has open by then included, and the text is lost
  (`CandidateApplicationDetailPage.tsx:131-137`); the question whether to withdraw
  closes on every refusal, under an error in place of the page (`:152-164`,
  `:178-181`); the banner of a match goes when its job can no longer take it
  (`CandidateMatchesPanel.tsx:82-90`). The rest of `Forms` stays open on a refusal. Not
  modelled: a résumé download begun before an edit of the same application, whose
  failure replaces the page and the edit (`CandidateApplicationDetailPage.tsx:81-82`).
- Board: a refusal puts back the whole order of the moment of its drop
  (`JobKanban.tsx:409-418`), also under a card in the hand.
- Triage: the refusal of a second decision shows the first as undone
  (`useTriageSession.ts:143-149`); a jump during a slide is continued by it
  (`:122-128`).
- Panes: `ApplicationActivityPanel.tsx:36-54` is not read again after a status
  change, nor the matches and applications of a candidate after a push, nor the
  record of a company after its dialog, nor the sidebar's badges after a decision
  (`useAdminOverview.ts:19-20`). A late answer of one section of the candidate's
  profile undoes another's on the screen (`CandidateProfilePage.tsx:75-76`), and an
  application just saved may be shown for the next one
  (`CandidateApplicationDetailPage.tsx:125`). The kanban's header and the edit page
  keep an error for the next subject. A company's jobs are looked for among the
  first hundred of all (`CompanyDetailDialog.tsx:42`). Recommendations that failed
  read as "none", and the inbox and the statistics wait for ever.
- Wizards: a profile that arrives late overwrites fields of a step already left
  (`ApplicationPage.tsx:252-263`, `:346-348`); a registration refused for its
  password marks a field of the step before (`RegisterPage.tsx:296-307`).
- Filters: resetting the salary writes the bounds of that moment as a choice
  (`JobsFilterPanel.tsx:228`, `JobBoardPage.tsx:164-166`); a link to the board while
  on the board leaves the filters and the address apart (the effect of
  `JobBoardPage.tsx:93-115` does not run for the address alone);
  taking a company's chip away keeps its jobs as filters
  (`ApplicationsFilterPanel.tsx:103-108`). When all jobs loaded have one salary, the
  slider falls back to the ends 0 and 50 000 (`jobBoardUtils.ts:18-19`): a salary above
  them is clamped below itself, and a job inside the chosen range is hidden.
- Links: the reset page calls a link invalid on any error of its first check, the
  activation page fails on any error.

## What is left to the model checker

TLAPS does not prove liveness under fairness, so `EventuallySettled` and `CallsEnd`
are model-checked only. Every other property of a passing run is a theorem, of the
specification the run checks or of one that it implements (`PartsImplement` for
`MCAccount`, `OverlapImplements` for `MCPipelineOverlap`). What a violation run refutes
has no proof; the exceptions of the properties say what is left of it.

## Not modelled

- Company onboarding (`services/admin/invites.py`, `company_approval.py`): few
  admins act on it, and a company's activation is the activation of `Accounts`. Two
  admins at once may leave two pending invites of one address (`invites.py:60`) or
  two unused activation tokens (`company_approval.py:62`), no index forbids it, and
  `scalar_one_or_none` then raises.
- The embedding of jobs and the ranking of matches, which are SQL and floating
  point. Two embed tasks of one job may finish out of order (`core/matching.py:65`):
  the embedding is then of the older text until the next edit.
- Routers and middleware, read-only routes, templates, migrations, deployment.
- Static pages, layout, translations, the routes and guards of the frontend.

Hazards known and covered by no property:

- `core/services/email_outbox.py:217`: rows that can never be claimed fill the sweep's
  hundred. The model has no row whose claim fails for ever.
- `services/auth/password_change.py:63`: a change and a reset overlap, and the last
  writer's password wins although its request verified the password the other
  replaced. `Sessions` does not say whose the password is.
- `services/auth/login.py:153`: a failed login opens a second connection while it
  holds the first; a full pool of such requests waits for itself until the pool's
  timeout. The pool is not modelled.
- `services/admin/_application_status.py:99`: a rejection mails the address of a
  candidate whose account was deleted meanwhile, which `_job_close.py:64-72` takes
  care not to do.
- `services/api/rs_api/api/auth/login.py:165-176`: a logout with an expired access
  token is refused and leaves the session, although `docs/API_DESIGN.md:100-103`
  describes the call as needing the cookie only. `RefreshClient` has the refusal
  (`AnswerLogout`); no property says that a logout ends the session.
