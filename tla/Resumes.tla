------------------------------- MODULE Resumes -------------------------------
(***************************************************************************)
(* One candidate's resume: the files in the object store, the rows that    *)
(* name them (the profile's, and each application's snapshot), the text    *)
(* that the matching task derives, and the deletion of the account.        *)
(*                                                                         *)
(* The store is outside the transaction: an upload or a delete stays when  *)
(* the transaction rolls back.  A request writes the columns that it has   *)
(* changed since it read them, by id, and no others.                       *)
(***************************************************************************)
EXTENDS Naturals, FiniteSets

CONSTANTS
  Keys,       \* storage keys, each given to one upload
  Apps,       \* applications, each sent once
  Workers,    \* requests and tasks handled at a time
  NoFile

ASSUME NoFileAssumption == NoFile \notin Keys

VARIABLES
  profile,    \* the candidate's row
  resume,     \* resume_path
  text,       \* parsed_text and embedding: of which file
  summary,    \* resume_summary: of which file
  personal,   \* full_name, phone and the like are there
  snap,       \* resume_path of each application
  sent,       \* the applications that are there
  stored,     \* files in the object store
  uploaded,   \* keys given out
  work,       \* what each request or task has read and is about to write
  \* For the properties:
  late,       \* what was written by a request that a deletion crossed
  pulled      \* files deleted while something else named them, or in vain

rowsOfResume == <<profile, resume, text, summary, personal, snap, sent>>
resumeVars == <<rowsOfResume, stored, uploaded, work, late, pulled>>

Files == Keys \cup {NoFile}
Columns == {"resume", "text", "summary", "personal"}

WorkOps == {"idle", "apply", "replace", "remove", "erase", "patch", "edit", "cleanup", "match"}

Works == [op : WorkOps,
          key : Files,              \* the file to name, or to read
          old : Files,              \* the file that goes
          fresh : BOOLEAN,          \* the profile is to be created
          had : SUBSET Columns,     \* columns that were not NULL when read
          app : Apps \cup {NoFile}, \* the application concerned
          apps : SUBSET Apps,       \* the applications a deletion has written
          dropped : BOOLEAN,        \* the file is gone, the commit is to come
          cut : BOOLEAN]            \* the account was deleted since the read

NoWork == [op |-> "idle", key |-> NoFile, old |-> NoFile, fresh |-> FALSE, had |-> {},
           app |-> NoFile, apps |-> {}, dropped |-> FALSE, cut |-> FALSE]

\* The columns of the profile that are not NULL.
Filled ==
  {col \in Columns : \/ col = "resume" /\ resume # NoFile
                     \/ col = "text" /\ text # NoFile
                     \/ col = "summary" /\ summary # NoFile
                     \/ col = "personal" /\ personal}

Erasing == \E w \in Workers : work[w].op = "erase"

ResumeTypeOK ==
  /\ profile \in {"none", "live", "deleted"}
  /\ resume \in Files /\ text \in Files /\ summary \in Files
  /\ personal \in BOOLEAN
  /\ snap \in [Apps -> Files]
  /\ sent \subseteq Apps
  /\ stored \subseteq uploaded /\ uploaded \subseteq Keys
  /\ work \in [Workers -> Works]
  /\ late \subseteq Columns \cup Apps
  /\ pulled \subseteq Keys
  /\ {resume, text, summary} \cup {snap[a] : a \in Apps} \subseteq uploaded \cup {NoFile}
  /\ \A a \in Apps \ sent : snap[a] = NoFile

ResumeInit ==
  /\ profile = "none"
  /\ resume = NoFile /\ text = NoFile /\ summary = NoFile
  /\ personal = FALSE
  /\ snap = [a \in Apps |-> NoFile]
  /\ sent = {}
  /\ stored = {} /\ uploaded = {}
  /\ work = [w \in Workers |-> NoWork]
  /\ late = {} /\ pulled = {}

----------------------------------------------------------------------------
(* Helpers. *)

Start(w, what) ==
  /\ work[w] = NoWork
  /\ work' = [work EXCEPT ![w] = what]
  /\ UNCHANGED <<rowsOfResume, late>>

Upload(k) ==
  /\ k \notin uploaded
  /\ uploaded' = uploaded \cup {k}
  /\ stored' = stored \cup {k}

Finish(w) == work' = [work EXCEPT ![w] = NoWork]

\* History: w writes the columns and snapshots in what.  A task is late too if
\* the resume it read on a deleted profile was.
Writes(w, what) ==
  late' = IF \/ work[w].cut \/ Erasing
             \/ work[w].op = "match" /\ profile = "deleted" /\ "resume" \in late
            THEN late \cup what ELSE late

\* The rows and open requests that name file k, but for the profile and w.
NamedElsewhere(w, k) ==
  \/ \E a \in Apps : snap[a] = k
  \/ \E v \in Workers \ {w} : work[v].op # "idle" /\ k \in {work[v].key, work[v].old}

\* The file goes while the transaction is open: at once, if the store answers.
DropFile(w) ==
  LET k == work[w].old IN
  /\ work[w].op \in {"replace", "remove", "erase"}
  /\ ~work[w].dropped
  /\ work' = [work EXCEPT ![w].dropped = TRUE]
  /\ \/ UNCHANGED <<stored, pulled>>
     \/ /\ k \in stored
        /\ stored' = stored \ {k}
        /\ pulled' = IF NamedElsewhere(w, k) THEN pulled \cup {k} ELSE pulled
  /\ UNCHANGED <<rowsOfResume, uploaded, late>>

\* The transaction rolls back, or its process dies; the store keeps what was
\* done to it.
GiveUp(w) ==
  /\ work[w] # NoWork
  /\ Finish(w)
  /\ pulled' = IF work[w].dropped /\ work[w].old \in Keys \ stored
                 THEN pulled \cup {work[w].old} ELSE pulled
  /\ UNCHANGED <<rowsOfResume, stored, uploaded, late>>

----------------------------------------------------------------------------
(* Applying. *)

\* A new upload wins; whoever is logged in may send none, and the application
\* then names the file of the profile.
ApplyRead(w, a, k) ==
  /\ profile # "deleted"
  /\ a \notin sent /\ \A v \in Workers : work[v].app # a
  /\ \/ Upload(k) /\ pulled' = pulled
     \/ /\ k = resume /\ k # NoFile
        /\ pulled' = IF k \in stored THEN pulled ELSE pulled \cup {k}
        /\ UNCHANGED <<stored, uploaded>>
  /\ Start(w, [NoWork EXCEPT !.op = "apply", !.app = a, !.key = k,
                              !.fresh = profile = "none", !.had = Filled])

\* The details go to the profile each time, the file if it had none.  Two that
\* both create the profile meet in its unique address.
ApplyWrite(w) ==
  LET a == work[w].app
      k == work[w].key IN
  /\ work[w].op = "apply"
  /\ work[w].fresh => profile = "none"
  /\ profile' = IF work[w].fresh THEN "live" ELSE profile
  /\ personal' = TRUE
  /\ resume' = IF "resume" \in work[w].had THEN resume ELSE k
  /\ snap' = [snap EXCEPT ![a] = k]
  /\ sent' = sent \cup {a}
  /\ Writes(w, {a, "personal"} \cup ({"resume"} \ work[w].had))
  /\ Finish(w)
  /\ UNCHANGED <<text, summary, stored, uploaded, pulled>>

----------------------------------------------------------------------------
(* The profile's resume. *)

\* replace_resume: the new file is uploaded before the old one goes.
ReplaceRead(w, k) ==
  /\ profile = "live"
  /\ Upload(k)
  /\ Start(w, [NoWork EXCEPT !.op = "replace", !.key = k, !.old = resume])
  /\ UNCHANGED pulled

ReplaceWrite(w) ==
  /\ work[w].op = "replace"
  /\ work[w].dropped
  /\ resume' = work[w].key
  /\ Writes(w, {"resume"})
  /\ Finish(w)
  /\ UNCHANGED <<profile, text, summary, personal, snap, sent, stored, uploaded, pulled>>

RemoveRead(w) ==
  /\ profile = "live"
  /\ Start(w, [NoWork EXCEPT !.op = "remove", !.old = resume, !.had = Filled])
  /\ UNCHANGED <<stored, uploaded, pulled>>

\* remove_resume: file, label and text, not the summary.
RemoveWrite(w) ==
  /\ work[w].op = "remove"
  /\ work[w].dropped
  /\ resume' = IF "resume" \in work[w].had THEN NoFile ELSE resume
  /\ text' = IF "text" \in work[w].had THEN NoFile ELSE text
  /\ Finish(w)
  /\ UNCHANGED <<profile, summary, personal, snap, sent, stored, uploaded,
                 late, pulled>>

\* PATCH of name, phone and address.
PatchRead(w) ==
  /\ profile = "live"
  /\ Start(w, [NoWork EXCEPT !.op = "patch"])
  /\ UNCHANGED <<stored, uploaded, pulled>>

PatchWrite(w) ==
  /\ work[w].op = "patch"
  /\ personal' = TRUE
  /\ Writes(w, {"personal"})
  /\ Finish(w)
  /\ UNCHANGED <<profile, resume, text, summary, snap, sent, stored, uploaded, pulled>>

----------------------------------------------------------------------------
(* An application's own resume, while its answers may be edited.  That they no *)
(* longer may is seen at the read, and is like an edit that nobody begins.     *)

EditRead(w, a, k) ==
  /\ profile = "live"
  /\ a \in sent
  /\ Upload(k)
  /\ Start(w, [NoWork EXCEPT !.op = "edit", !.app = a, !.key = k, !.old = snap[a]])
  /\ UNCHANGED pulled

\* A deletion holds the rows of the applications it has written.
EditWrite(w) ==
  LET a == work[w].app IN
  /\ work[w].op = "edit"
  /\ \A v \in Workers : work[v].op = "erase" => a \notin work[v].apps
  /\ snap' = [snap EXCEPT ![a] = work[w].key]
  /\ Writes(w, {a})
  /\ work' = [work EXCEPT ![w].op = "cleanup"]
  /\ UNCHANGED <<profile, resume, text, summary, personal, sent, stored, uploaded,
                 pulled>>

\* Mutant: the file that goes is the new one.
EditCleanupDropsNew(w) ==
  /\ work[w].op = "cleanup"
  /\ stored' = stored \ {work[w].key}
  /\ Finish(w)
  /\ UNCHANGED <<rowsOfResume, uploaded, late, pulled>>

\* After the commit, and if the store answers.  The file may be the profile's.
EditCleanup(w) ==
  LET k == work[w].old IN
  /\ work[w].op = "cleanup"
  /\ \/ UNCHANGED <<stored, pulled>>
     \/ /\ k \in stored
        /\ stored' = stored \ {k}
        /\ pulled' = IF k = resume \/ NamedElsewhere(w, k) THEN pulled \cup {k} ELSE pulled
  /\ Finish(w)
  /\ UNCHANGED <<rowsOfResume, uploaded, late>>

----------------------------------------------------------------------------
(* match_candidate_task. *)

\* Whoever sets a resume enqueues the task, and the queue may deliver it late
\* and again.  A file that is not there fails it, and so does no text.
MatchRead(w) ==
  /\ profile # "none" /\ resume \in stored
  /\ Start(w, [NoWork EXCEPT !.op = "match", !.key = resume])
  /\ UNCHANGED <<stored, uploaded, pulled>>

MatchWrite(w) ==
  /\ work[w].op = "match"
  /\ text' = work[w].key /\ summary' = work[w].key
  /\ Writes(w, {"text", "summary"})
  /\ Finish(w)
  /\ UNCHANGED <<profile, resume, personal, snap, sent, stored, uploaded, pulled>>

----------------------------------------------------------------------------
(* Deleting the account: confirm_deletion, admin_tombstone_candidate. *)

EraseRead(w) ==
  /\ profile = "live"
  /\ \A v \in Workers : work[v].op = "erase" => work[v].apps \cap sent = {}
  /\ Start(w, [NoWork EXCEPT !.op = "erase", !.old = resume, !.had = Filled, !.apps = sent])
  /\ UNCHANGED <<stored, uploaded, pulled>>

\* Mutant: scrub_candidate_pii forgets the summary.
EraseWriteKeepsSummary(w) ==
  LET had == work[w].had IN
  /\ work[w].op = "erase"
  /\ work[w].dropped
  /\ profile' = "deleted"
  /\ resume' = IF "resume" \in had THEN NoFile ELSE resume
  /\ text' = IF "text" \in had THEN NoFile ELSE text
  /\ summary' = summary
  /\ personal' = FALSE
  /\ snap' = [a \in Apps |-> IF a \in work[w].apps THEN NoFile ELSE snap[a]]
  /\ work' = [v \in Workers |-> IF v = w THEN NoWork ELSE [work[v] EXCEPT !.cut = work[v] # NoWork]]
  /\ UNCHANGED <<sent, stored, uploaded, late, pulled>>

\* The snapshots were emptied first; scrub_candidate_pii then empties what was
\* filled when the profile was read.
EraseWrite(w) ==
  LET had == work[w].had IN
  /\ work[w].op = "erase"
  /\ work[w].dropped
  /\ profile' = "deleted"
  /\ resume' = IF "resume" \in had THEN NoFile ELSE resume
  /\ text' = IF "text" \in had THEN NoFile ELSE text
  /\ summary' = IF "summary" \in had THEN NoFile ELSE summary
  /\ personal' = FALSE
  /\ snap' = [a \in Apps |-> IF a \in work[w].apps THEN NoFile ELSE snap[a]]
  /\ work' = [v \in Workers |-> IF v = w THEN NoWork ELSE [work[v] EXCEPT !.cut = work[v] # NoWork]]
  /\ UNCHANGED <<sent, stored, uploaded, late, pulled>>

----------------------------------------------------------------------------
ResumeNext ==
  \/ \E w \in Workers :
       \/ ApplyWrite(w) \/ ReplaceWrite(w) \/ RemoveRead(w) \/ RemoveWrite(w)
       \/ PatchRead(w) \/ PatchWrite(w) \/ EditWrite(w) \/ EditCleanup(w)
       \/ MatchRead(w) \/ MatchWrite(w) \/ EraseRead(w) \/ EraseWrite(w)
       \/ DropFile(w) \/ GiveUp(w)
       \/ \E k \in Keys : \/ ReplaceRead(w, k)
                          \/ \E a \in Apps : ApplyRead(w, a, k) \/ EditRead(w, a, k)

ResumeSpec == ResumeInit /\ [][ResumeNext]_resumeVars

----------------------------------------------------------------------------
(* Properties. *)

\* "NULL all PII fields", "NULLs Application.resume_path for all": what a
\* deleted account still holds was written by a request that crossed it.
TombstoneHasCause ==
  profile = "deleted" =>
    /\ Filled \subseteq late
    /\ \A a \in Apps : snap[a] # NoFile => a \in late

\* A file that a row names is in the store, unless something else named it
\* too when it was deleted, or the deleting request was rolled back.
MissingHasCause ==
  \A k \in {resume} \cup {snap[a] : a \in Apps} :
    k \in Keys \ stored =>
      k \in pulled \/ \E w \in Workers : work[w].dropped /\ work[w].old = k

ResumesSound == TombstoneHasCause /\ MissingHasCause

----------------------------------------------------------------------------
(* The inductive invariant. *)

\* The requests that will give a row the file they hold.
Naming == {"apply", "replace", "edit"}

\* What a request holds was uploaded, and what it will name is there, or its
\* deletion has a cause.
WorksAgree ==
  \A w \in Workers :
    LET k == work[w] IN
    /\ {k.key, k.old} \subseteq uploaded \cup {NoFile}
    /\ k.op \in Naming => k.key \in stored \cup pulled
    /\ k.op = "apply" => k.app \in Apps
    /\ k.op = "edit" => k.app \in sent
    /\ k.op = "replace" => k.key # k.old
    /\ k.op \in {"remove", "erase"} => ("resume" \in k.had <=> k.old # NoFile)
    /\ k.dropped => k.op \in {"replace", "remove", "erase"}

\* What filled the profile after a deletion read it is late, and on a deleted
\* profile a request that nothing cut works on a late resume.
ErasesAgree ==
  \A w \in Workers :
    LET k == work[w] IN
    /\ k.op = "erase" =>
         /\ Filled \subseteq k.had \cup late \cup {"personal"}
         /\ \A a \in Apps : snap[a] # NoFile => a \in k.apps \cup late
    /\ profile = "deleted" /\ k.op # "idle" /\ ~k.cut => k.op = "match" /\ "resume" \in late

\* Nothing covers for the file of a snapshot: no transaction drops the name.
NamesAgree ==
  /\ \A a \in Apps : snap[a] \in Keys => snap[a] \in stored \cup pulled
  /\ resume \in Keys =>
       \/ resume \in stored \cup pulled
       \/ \E w \in Workers : work[w].dropped /\ work[w].old = resume

ResumeIInv ==
  /\ ResumeTypeOK /\ WorksAgree /\ ErasesAgree /\ NamesAgree /\ TombstoneHasCause

----------------------------------------------------------------------------
(* What the code says of itself. *)

\* "Application snapshots are independent and not touched" (replace_resume).
SnapshotsStored == \A a \in Apps : snap[a] \in stored \cup {NoFile}
=============================================================================
