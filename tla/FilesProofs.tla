----------------------------- MODULE FilesProofs -----------------------------
(***************************************************************************)
(* Proofs about the files of an account, for any number of files,          *)
(* applications, exports, requests and tasks: what a deleted account still *)
(* holds and a named file that is missing have a cause; a ZIP and its row  *)
(* come and go together, and a link is answered once unless downloads      *)
(* overlap.                                                                *)
(***************************************************************************)
EXTENDS Resumes, Exports, TLAPS

----------------------------------------------------------------------------
(* The resume files. *)

\* A request that does nothing.
LEMMA NoWorkTyped ==
  /\ NoWork \in Works
  /\ NoWork.op = "idle" /\ NoWork.key = NoFile /\ NoWork.old = NoFile
  /\ ~NoWork.dropped /\ ~NoWork.cut
BY DEF NoWork, Works, WorkOps, Files

\* The initial state.
LEMMA ResumeInitEstablishes == ResumeInit => ResumeIInv
<1> SUFFICES ASSUME ResumeInit
             PROVE  ResumeIInv
  OBVIOUS
<1>1. ResumeTypeOK
  BY NoWorkTyped DEF ResumeInit, ResumeTypeOK, Files
<1>2. WorksAgree /\ ErasesAgree
  BY NoWorkTyped DEF ResumeInit, WorksAgree, ErasesAgree, Naming
<1>3. NamesAgree /\ TombstoneHasCause
  BY NoFileAssumption DEF ResumeInit, NamesAgree, TombstoneHasCause
<1> QED
  BY <1>1, <1>2, <1>3 DEF ResumeIInv

----------------------------------------------------------------------------
(* The rows stand. *)

LEMMA WorkSteps ==
  ASSUME ResumeTypeOK, NEW w \in Workers, NEW next \in Works,
         work' = [work EXCEPT ![w] = next]
  PROVE  /\ work' \in [Workers -> Works]
         /\ \A v \in Workers : work'[v] = IF v = w THEN next ELSE work[v]
BY DEF ResumeTypeOK

\* A request begins, goes on or gives up, and files may come but not go.
LEMMA RowsStand ==
  ASSUME ResumeIInv, NEW w \in Workers, NEW next \in Works,
         work' = [work EXCEPT ![w] = next],
         UNCHANGED <<rowsOfResume, late>>,
         stored \subseteq stored', stored' \subseteq uploaded',
         uploaded \subseteq uploaded', uploaded' \subseteq Keys,
         pulled \subseteq pulled', pulled' \subseteq Keys,
         work[w].dropped => work[w].old \in stored' \cup pulled' \cup {NoFile},
         {next.key, next.old} \subseteq uploaded' \cup {NoFile},
         next.op \in Naming => next.key \in stored' \cup pulled',
         next.op = "apply" => next.app \in Apps,
         next.op = "edit" => next.app \in sent,
         next.op = "replace" => next.key # next.old,
         next.op \in {"remove", "erase"} => ("resume" \in next.had <=> next.old # NoFile),
         next.dropped => next.op \in {"replace", "remove", "erase"},
         next.op = "erase" =>
           /\ Filled \subseteq next.had \cup late \cup {"personal"}
           /\ \A a \in Apps : snap[a] # NoFile => a \in next.apps \cup late,
         profile = "deleted" /\ next.op # "idle" /\ ~next.cut =>
           next.op = "match" /\ "resume" \in late
  PROVE  ResumeIInv'
<1> USE DEF rowsOfResume
<1>1. /\ work' \in [Workers -> Works]
      /\ \A v \in Workers : work'[v] = IF v = w THEN next ELSE work[v]
  BY WorkSteps DEF ResumeIInv
<1>2. Filled' = Filled
  BY DEF Filled
<1>3. ResumeTypeOK'
  BY <1>1 DEF ResumeIInv, ResumeTypeOK
<1>4. WorksAgree'
  BY <1>1 DEF ResumeIInv, WorksAgree, Naming
<1>5. ErasesAgree'
  BY <1>1, <1>2 DEF ResumeIInv, ErasesAgree
<1>6. NamesAgree'
  <2>1. \A a \in Apps : snap'[a] \in Keys => snap'[a] \in stored' \cup pulled'
    BY DEF ResumeIInv, NamesAgree
  <2>2. ASSUME resume \in Keys, resume \notin stored' \cup pulled'
        PROVE  \E v \in Workers : work'[v].dropped /\ work'[v].old = resume
    <3>1. PICK v \in Workers : work[v].dropped /\ work[v].old = resume
      BY <2>2 DEF ResumeIInv, NamesAgree
    <3>2. v # w
      BY <2>2, <3>1, NoFileAssumption
    <3> QED
      BY <1>1, <3>1, <3>2
  <2> QED
    BY <2>1, <2>2 DEF NamesAgree
<1>7. TombstoneHasCause'
  BY <1>2 DEF ResumeIInv, TombstoneHasCause
<1> QED
  BY <1>3, <1>4, <1>5, <1>6, <1>7 DEF ResumeIInv

LEMMA UploadKeeps ==
  ASSUME ResumeIInv, NEW k \in Keys, Upload(k), pulled' = pulled
  PROVE  /\ stored \subseteq stored' /\ stored' \subseteq uploaded'
         /\ uploaded \subseteq uploaded' /\ uploaded' \subseteq Keys
         /\ pulled \subseteq pulled' /\ pulled' \subseteq Keys
         /\ k \in stored' /\ k \in uploaded' /\ k \notin uploaded \cup {NoFile}
BY NoFileAssumption DEF ResumeIInv, ResumeTypeOK, Upload

\* The reads that upload nothing.
LEMMA StandingStores ==
  ASSUME ResumeIInv, UNCHANGED <<stored, uploaded, pulled>>
  PROVE  /\ stored \subseteq stored' /\ stored' \subseteq uploaded'
         /\ uploaded \subseteq uploaded' /\ uploaded' \subseteq Keys
         /\ pulled \subseteq pulled' /\ pulled' \subseteq Keys
BY DEF ResumeIInv, ResumeTypeOK

LEMMA StartsPreserve ==
  ASSUME ResumeIInv, NEW w \in Workers,
         \/ RemoveRead(w) \/ PatchRead(w) \/ MatchRead(w) \/ EraseRead(w) \/ GiveUp(w)
  PROVE  ResumeIInv'
<1>1. ResumeTypeOK /\ Filled \subseteq Columns /\ ~NoWork.dropped
  BY NoWorkTyped DEF ResumeIInv, Filled
<1>2. CASE RemoveRead(w)
  <2> DEFINE next == [NoWork EXCEPT !.op = "remove", !.old = resume, !.had = Filled]
  <2>1. /\ next \in Works /\ next.op = "remove" /\ next.old = resume /\ next.had = Filled
        /\ next.key = NoFile /\ ~next.dropped
    BY <1>1 DEF NoWork, Works, WorkOps, Files, ResumeTypeOK
  <2>2. /\ profile = "live" /\ work[w] = NoWork /\ work' = [work EXCEPT ![w] = next]
        /\ UNCHANGED <<rowsOfResume, late>> /\ UNCHANGED <<stored, uploaded, pulled>>
    BY <1>2 DEF RemoveRead, Start
  <2>3. {next.key, next.old} \subseteq uploaded' \cup {NoFile}
    BY <1>1, <2>1, <2>2 DEF ResumeTypeOK
  <2>4. "resume" \in next.had <=> next.old # NoFile
    BY <2>1 DEF Filled, Columns
  <2> HIDE DEF next
  <2> QED
    BY <1>1, <2>1, <2>2, <2>3, <2>4, StandingStores, RowsStand DEF Naming
<1>3. CASE PatchRead(w)
  <2> DEFINE next == [NoWork EXCEPT !.op = "patch"]
  <2>1. /\ next \in Works /\ next.op = "patch" /\ next.old = NoFile
        /\ next.key = NoFile /\ ~next.dropped
    BY DEF NoWork, Works, WorkOps, Files
  <2>2. /\ profile = "live" /\ work[w] = NoWork /\ work' = [work EXCEPT ![w] = next]
        /\ UNCHANGED <<rowsOfResume, late>> /\ UNCHANGED <<stored, uploaded, pulled>>
    BY <1>3 DEF PatchRead, Start
  <2> HIDE DEF next
  <2> QED
    BY <1>1, <2>1, <2>2, StandingStores, RowsStand DEF Naming
<1>4. CASE MatchRead(w)
  <2> DEFINE next == [NoWork EXCEPT !.op = "match", !.key = resume]
  <2>1. /\ next \in Works /\ next.op = "match" /\ next.old = NoFile
        /\ next.key = resume /\ ~next.dropped
    BY <1>1 DEF NoWork, Works, WorkOps, Files, ResumeTypeOK
  <2>2. /\ work[w] = NoWork /\ work' = [work EXCEPT ![w] = next]
        /\ UNCHANGED <<rowsOfResume, late>> /\ UNCHANGED <<stored, uploaded, pulled>>
    BY <1>4 DEF MatchRead, Start
  <2>3. "resume" \in Filled
    BY <1>1, <1>4, NoFileAssumption DEF MatchRead, Filled, Columns, ResumeTypeOK
  <2>4. profile = "deleted" => "resume" \in late
    BY <2>3 DEF ResumeIInv, TombstoneHasCause
  <2>5. {next.key, next.old} \subseteq uploaded' \cup {NoFile}
    BY <1>1, <2>1, <2>2 DEF ResumeTypeOK
  <2> HIDE DEF next
  <2> QED
    BY <1>1, <2>1, <2>2, <2>4, <2>5, StandingStores, RowsStand DEF Naming
<1>5. CASE EraseRead(w)
  <2> DEFINE next == [NoWork EXCEPT !.op = "erase", !.old = resume, !.had = Filled,
                                    !.apps = sent]
  <2>1. /\ next \in Works /\ next.op = "erase" /\ next.old = resume /\ next.had = Filled
        /\ next.key = NoFile /\ next.apps = sent /\ ~next.dropped
    BY <1>1 DEF NoWork, Works, WorkOps, Files, ResumeTypeOK
  <2>2. /\ profile = "live" /\ work[w] = NoWork /\ work' = [work EXCEPT ![w] = next]
        /\ UNCHANGED <<rowsOfResume, late>> /\ UNCHANGED <<stored, uploaded, pulled>>
    BY <1>5 DEF EraseRead, Start
  <2>3. {next.key, next.old} \subseteq uploaded' \cup {NoFile}
    BY <1>1, <2>1, <2>2 DEF ResumeTypeOK
  <2>4. "resume" \in next.had <=> next.old # NoFile
    BY <2>1 DEF Filled, Columns
  <2>5. /\ Filled \subseteq next.had \cup late \cup {"personal"}
        /\ \A a \in Apps : snap[a] # NoFile => a \in next.apps \cup late
    BY <1>1, <2>1 DEF ResumeTypeOK
  <2> HIDE DEF next
  <2> QED
    BY <1>1, <2>1, <2>2, <2>3, <2>4, <2>5, StandingStores, RowsStand DEF Naming
<1>6. CASE GiveUp(w)
  <2>1. /\ work' = [work EXCEPT ![w] = NoWork]
        /\ UNCHANGED <<rowsOfResume, late>> /\ UNCHANGED <<stored, uploaded>>
        /\ pulled' = IF work[w].dropped /\ work[w].old \in Keys \ stored
                       THEN pulled \cup {work[w].old} ELSE pulled
    BY <1>6 DEF GiveUp, Finish
  <2>2. work[w].old \in Keys \cup {NoFile}
    BY <1>1 DEF ResumeTypeOK, Works, Files
  <2>3. work[w].dropped => work[w].old \in stored' \cup pulled' \cup {NoFile}
    BY <2>1, <2>2
  <2>4. /\ stored \subseteq stored' /\ stored' \subseteq uploaded'
        /\ uploaded \subseteq uploaded' /\ uploaded' \subseteq Keys
        /\ pulled \subseteq pulled' /\ pulled' \subseteq Keys
    BY <1>1, <2>1 DEF ResumeTypeOK
  <2> QED
    BY <2>1, <2>3, <2>4, NoWorkTyped, RowsStand DEF Naming
<1> QED
  BY <1>2, <1>3, <1>4, <1>5, <1>6

\* The reads that upload, or take the profile's file.
LEMMA UploadsPreserve ==
  ASSUME ResumeIInv, NEW w \in Workers, NEW k \in Keys,
         \/ ReplaceRead(w, k)
         \/ \E a \in Apps : ApplyRead(w, a, k) \/ EditRead(w, a, k)
  PROVE  ResumeIInv'
<1>1. ResumeTypeOK /\ Filled \subseteq Columns /\ ~NoWork.dropped
  BY NoWorkTyped DEF ResumeIInv, Filled
<1>2. CASE ReplaceRead(w, k)
  <2> DEFINE next == [NoWork EXCEPT !.op = "replace", !.key = k, !.old = resume]
  <2>1. /\ next \in Works /\ next.op = "replace" /\ next.old = resume
        /\ next.key = k /\ ~next.dropped
    BY <1>1 DEF NoWork, Works, WorkOps, Files, ResumeTypeOK
  <2>2. /\ profile = "live" /\ work[w] = NoWork /\ work' = [work EXCEPT ![w] = next]
        /\ UNCHANGED <<rowsOfResume, late>> /\ Upload(k) /\ pulled' = pulled
    BY <1>2 DEF ReplaceRead, Start
  <2>3. /\ {next.key, next.old} \subseteq uploaded' \cup {NoFile}
        /\ next.key # next.old
    BY <1>1, <2>1, <2>2, UploadKeeps DEF ResumeTypeOK
  <2> HIDE DEF next
  <2> QED
    BY <1>1, <2>1, <2>2, <2>3, UploadKeeps, RowsStand DEF Naming
<1>3. ASSUME NEW a \in Apps, EditRead(w, a, k)
      PROVE  ResumeIInv'
  <2> DEFINE next == [NoWork EXCEPT !.op = "edit", !.app = a, !.key = k, !.old = snap[a]]
  <2>1. /\ next \in Works /\ next.op = "edit" /\ next.old = snap[a] /\ next.app = a
        /\ next.key = k /\ ~next.dropped
    BY <1>1 DEF NoWork, Works, WorkOps, Files, ResumeTypeOK
  <2>2. /\ profile = "live" /\ work[w] = NoWork /\ work' = [work EXCEPT ![w] = next]
        /\ UNCHANGED <<rowsOfResume, late>> /\ Upload(k) /\ pulled' = pulled /\ a \in sent
    BY <1>3 DEF EditRead, Start
  <2>3. {next.key, next.old} \subseteq uploaded' \cup {NoFile}
    BY <1>1, <2>1, <2>2, UploadKeeps DEF ResumeTypeOK
  <2> HIDE DEF next
  <2> QED
    BY <1>1, <2>1, <2>2, <2>3, UploadKeeps, RowsStand DEF Naming
<1>4. ASSUME NEW a \in Apps, ApplyRead(w, a, k)
      PROVE  ResumeIInv'
  <2> DEFINE next == [NoWork EXCEPT !.op = "apply", !.app = a, !.key = k,
                                    !.fresh = profile = "none", !.had = Filled]
  <2>1. /\ next \in Works /\ next.op = "apply" /\ next.old = NoFile /\ next.app = a
        /\ next.key = k /\ ~next.dropped
    BY <1>1 DEF NoWork, Works, WorkOps, Files, ResumeTypeOK
  <2>2. /\ profile # "deleted" /\ work[w] = NoWork /\ work' = [work EXCEPT ![w] = next]
        /\ UNCHANGED <<rowsOfResume, late>>
    BY <1>4 DEF ApplyRead, Start
  <2>3. /\ stored \subseteq stored' /\ stored' \subseteq uploaded'
        /\ uploaded \subseteq uploaded' /\ uploaded' \subseteq Keys
        /\ pulled \subseteq pulled' /\ pulled' \subseteq Keys
        /\ k \in uploaded' /\ k \in stored' \cup pulled'
    <3>1. CASE Upload(k) /\ pulled' = pulled
      BY <3>1, UploadKeeps
    <3>2. CASE /\ k = resume /\ k # NoFile
               /\ pulled' = IF k \in stored THEN pulled ELSE pulled \cup {k}
               /\ UNCHANGED <<stored, uploaded>>
      BY <1>1, <3>2 DEF ResumeTypeOK
    <3> QED
      BY <1>4, <3>1, <3>2 DEF ApplyRead
  <2>4. {next.key, next.old} \subseteq uploaded' \cup {NoFile}
    BY <2>1, <2>3
  <2> HIDE DEF next
  <2> QED
    BY <1>1, <2>1, <2>2, <2>3, <2>4, RowsStand DEF Naming
<1> QED
  BY <1>2, <1>3, <1>4

----------------------------------------------------------------------------
(* A file goes. *)

\* Whoever names it is told of in pulled; for the profile, the request itself
\* may stand in until it commits.
LEMMA FileGoes ==
  ASSUME ResumeIInv, NEW w \in Workers, NEW k \in Keys, NEW next \in Works,
         work' = [work EXCEPT ![w] = next], ~work[w].dropped,
         UNCHANGED <<rowsOfResume, uploaded, late>>,
         stored' = stored \ {k},
         pulled \subseteq pulled', pulled' \subseteq Keys,
         NamedElsewhere(w, k) => k \in pulled',
         k = resume => k \in pulled' \/ (next.dropped /\ next.old = k),
         \/ next = NoWork
         \/ /\ next = [work[w] EXCEPT !.dropped = TRUE]
            /\ work[w].op \in {"replace", "remove", "erase"}
            /\ work[w].old = k
  PROVE  ResumeIInv'
<1> USE DEF rowsOfResume
<1>1. /\ work' \in [Workers -> Works]
      /\ \A v \in Workers : work'[v] = IF v = w THEN next ELSE work[v]
  BY WorkSteps DEF ResumeIInv
<1>2. Filled' = Filled
  BY DEF Filled
<1>3. ResumeTypeOK'
  BY <1>1 DEF ResumeIInv, ResumeTypeOK
<1>4. \/ next = NoWork
      \/ /\ next.op = work[w].op /\ next.key = work[w].key /\ next.old = work[w].old
         /\ next.had = work[w].had /\ next.apps = work[w].apps /\ next.app = work[w].app
         /\ next.cut = work[w].cut /\ work[w].op \in {"replace", "remove", "erase"}
         /\ work[w].old = k
  BY DEF ResumeIInv, ResumeTypeOK, Works
<1>5. WorksAgree'
  <2> SUFFICES ASSUME NEW v \in Workers
               PROVE  LET x == work'[v] IN
                      /\ {x.key, x.old} \subseteq uploaded' \cup {NoFile}
                      /\ x.op \in Naming => x.key \in stored' \cup pulled'
                      /\ x.op = "apply" => x.app \in Apps
                      /\ x.op = "edit" => x.app \in sent'
                      /\ x.op = "replace" => x.key # x.old
                      /\ x.op \in {"remove", "erase"} => ("resume" \in x.had <=> x.old # NoFile)
                      /\ x.dropped => x.op \in {"replace", "remove", "erase"}
    BY DEF WorksAgree, Naming
  <2>1. CASE v # w
    <3>1. work'[v] = work[v]
      BY <2>1, <1>1
    <3>2. work[v].op \in Naming /\ work[v].key = k => k \in pulled'
      BY <2>1 DEF NamedElsewhere, Naming
    <3> QED
      BY <3>1, <3>2 DEF ResumeIInv, WorksAgree
  <2>2. CASE v = w /\ next = NoWork
    BY <2>2, <1>1, NoWorkTyped DEF Naming
  <2>3. CASE v = w /\ next # NoWork
    BY <2>3, <1>1, <1>4 DEF ResumeIInv, WorksAgree, Naming
  <2> QED
    BY <2>1, <2>2, <2>3
<1>6. ErasesAgree'
  BY <1>1, <1>2, <1>4, NoWorkTyped DEF ResumeIInv, ErasesAgree
<1>7. NamesAgree'
  <2>1. ASSUME NEW a \in Apps, snap[a] \in Keys
        PROVE  snap[a] \in stored' \cup pulled'
    BY <2>1 DEF ResumeIInv, NamesAgree, NamedElsewhere
  <2>2. ASSUME resume \in Keys, resume \notin stored' \cup pulled'
        PROVE  \E v \in Workers : work'[v].dropped /\ work'[v].old = resume
    <3>1. CASE resume = k
      BY <2>2, <3>1, <1>1
    <3>2. CASE resume # k
      <4>1. PICK v \in Workers : work[v].dropped /\ work[v].old = resume
        BY <2>2, <3>2 DEF ResumeIInv, NamesAgree
      <4> QED
        BY <1>1, <4>1
    <3> QED
      BY <3>1, <3>2
  <2> QED
    BY <2>1, <2>2 DEF NamesAgree
<1>8. TombstoneHasCause'
  BY <1>2 DEF ResumeIInv, TombstoneHasCause
<1> QED
  BY <1>3, <1>5, <1>6, <1>7, <1>8 DEF ResumeIInv

LEMMA DropFilePreserves ==
  ASSUME ResumeIInv, NEW w \in Workers, DropFile(w)
  PROVE  ResumeIInv'
<1> DEFINE k == work[w].old
           next == [work[w] EXCEPT !.dropped = TRUE]
<1>1. work[w] \in Works /\ ResumeTypeOK
  BY DEF ResumeIInv, ResumeTypeOK
<1>2. /\ next \in Works /\ next.op = work[w].op /\ next.key = work[w].key /\ next.old = k
      /\ next.had = work[w].had /\ next.apps = work[w].apps /\ next.cut = work[w].cut
      /\ next.dropped
  BY <1>1 DEF Works
<1>3. /\ work[w].op \in {"replace", "remove", "erase"} /\ ~work[w].dropped
      /\ work' = [work EXCEPT ![w] = next]
      /\ UNCHANGED <<rowsOfResume, uploaded, late>>
  BY <1>1 DEF DropFile, Works, ResumeTypeOK
<1>4. CASE UNCHANGED <<stored, pulled>>
  <2>1. /\ {next.key, next.old} \subseteq uploaded' \cup {NoFile}
        /\ next.op \in Naming => next.key \in stored' \cup pulled'
        /\ next.op = "replace" => next.key # next.old
        /\ next.op \in {"remove", "erase"} => ("resume" \in next.had <=> next.old # NoFile)
    BY <1>2, <1>3, <1>4 DEF ResumeIInv, WorksAgree
  <2>2. /\ next.op = "erase" =>
             /\ Filled \subseteq next.had \cup late \cup {"personal"}
             /\ \A a \in Apps : snap[a] # NoFile => a \in next.apps \cup late
        /\ profile = "deleted" /\ next.op # "idle" /\ ~next.cut =>
             next.op = "match" /\ "resume" \in late
    BY <1>2 DEF ResumeIInv, ErasesAgree
  <2> HIDE DEF next
  <2> QED
    BY <1>2, <1>3, <1>4, <2>1, <2>2, StandingStores, RowsStand
<1>5. CASE /\ k \in stored
           /\ stored' = stored \ {k}
           /\ pulled' = IF NamedElsewhere(w, k) THEN pulled \cup {k} ELSE pulled
  <2>1. k \in Keys /\ pulled \subseteq pulled' /\ pulled' \subseteq Keys
    BY <1>1, <1>5 DEF ResumeTypeOK
  <2> QED
    BY <1>2, <1>3, <1>5, <2>1, FileGoes
<1> QED
  BY <1>4, <1>5 DEF DropFile

LEMMA EditCleanupPreserves ==
  ASSUME ResumeIInv, NEW w \in Workers, EditCleanup(w)
  PROVE  ResumeIInv'
<1> DEFINE k == work[w].old
<1>1. /\ work[w].op = "cleanup" /\ work' = [work EXCEPT ![w] = NoWork]
      /\ UNCHANGED <<rowsOfResume, uploaded, late>>
  BY DEF EditCleanup, Finish
<1>2. ~work[w].dropped
  BY <1>1 DEF ResumeIInv, WorksAgree
<1>3. CASE UNCHANGED <<stored, pulled>>
  BY <1>1, <1>2, <1>3, NoWorkTyped, StandingStores, RowsStand DEF Naming
<1>4. CASE /\ k \in stored
           /\ stored' = stored \ {k}
           /\ pulled' = IF k = resume \/ NamedElsewhere(w, k) THEN pulled \cup {k} ELSE pulled
  <2>1. k \in Keys /\ pulled \subseteq pulled' /\ pulled' \subseteq Keys
    BY <1>4 DEF ResumeIInv, ResumeTypeOK
  <2>2. /\ NamedElsewhere(w, k) => k \in pulled'
        /\ k = resume => k \in pulled'
    BY <1>4
  <2> HIDE DEF k
  <2> QED
    BY <1>1, <1>2, <1>4, <2>1, <2>2, NoWorkTyped, FileGoes
<1> QED
  BY <1>3, <1>4 DEF EditCleanup

----------------------------------------------------------------------------
(* The rows are written. *)

\* A request that writes while an account is being deleted, or after, is late
\* with what it writes.
LEMMA RowsWritten ==
  ASSUME ResumeIInv, NEW w \in Workers, NEW what \in SUBSET (Columns \cup Apps),
         NEW next \in Works, work[w].op # "idle", Writes(w, what),
         work' = [work EXCEPT ![w] = next],
         \/ next = NoWork
         \/ work[w].op = "edit" /\ next = [work[w] EXCEPT !.op = "cleanup"],
         UNCHANGED <<stored, uploaded, pulled>>,
         profile' \in {"none", "live", "deleted"},
         profile' = "deleted" => profile = "deleted",
         {resume', text', summary'} \subseteq uploaded \cup {NoFile}, personal' \in BOOLEAN,
         snap' \in [Apps -> uploaded \cup {NoFile}],
         sent \subseteq sent', sent' \subseteq Apps,
         Filled' \subseteq Filled \cup what,
         \A a \in Apps :
           /\ snap'[a] # NoFile => a \in sent' /\ (snap[a] # NoFile \/ a \in what)
           /\ snap'[a] = snap[a] \/ snap'[a] \in stored \cup pulled,
         \/ resume' \in stored \cup pulled \cup {NoFile}
         \/ resume' = resume /\ (work[w].dropped => resume # work[w].old)
  PROVE  ResumeIInv'
<1>1. /\ work' \in [Workers -> Works]
      /\ \A v \in Workers : work'[v] = IF v = w THEN next ELSE work[v]
  BY WorkSteps DEF ResumeIInv
<1>2. /\ late \subseteq late' /\ late' \subseteq Columns \cup Apps
      /\ work[w].cut \/ Erasing \/ (work[w].op = "match" /\ profile = "deleted"
                                      /\ "resume" \in late) => late' = late \cup what
  BY DEF Writes, ResumeIInv, ResumeTypeOK
<1>3. profile = "deleted" => late' = late \cup what
  BY <1>2 DEF ResumeIInv, ErasesAgree
<1>4. ResumeTypeOK'
  <2>1. /\ stored \subseteq uploaded /\ uploaded \subseteq Keys /\ pulled \subseteq Keys
    BY DEF ResumeIInv, ResumeTypeOK
  <2>2. /\ resume' \in Files /\ text' \in Files /\ summary' \in Files
        /\ snap' \in [Apps -> Files]
    BY <2>1 DEF Files
  <2>3. \A a \in Apps : snap'[a] \in uploaded \cup {NoFile}
    OBVIOUS
  <2> QED
    BY <1>1, <1>2, <2>1, <2>2, <2>3 DEF ResumeTypeOK
<1>5. WorksAgree'
  <2> SUFFICES ASSUME NEW v \in Workers
               PROVE  LET x == work'[v] IN
                      /\ {x.key, x.old} \subseteq uploaded' \cup {NoFile}
                      /\ x.op \in Naming => x.key \in stored' \cup pulled'
                      /\ x.op = "apply" => x.app \in Apps
                      /\ x.op = "edit" => x.app \in sent'
                      /\ x.op = "replace" => x.key # x.old
                      /\ x.op \in {"remove", "erase"} => ("resume" \in x.had <=> x.old # NoFile)
                      /\ x.dropped => x.op \in {"replace", "remove", "erase"}
    BY DEF WorksAgree, Naming
  <2>1. CASE v # w
    BY <2>1, <1>1 DEF ResumeIInv, WorksAgree
  <2>2. CASE v = w /\ next = NoWork
    BY <2>2, <1>1, NoWorkTyped DEF Naming
  <2>3. CASE v = w /\ work[w].op = "edit" /\ next = [work[w] EXCEPT !.op = "cleanup"]
    <3>1. /\ next.op = "cleanup" /\ next.key = work[w].key /\ next.old = work[w].old
          /\ next.dropped = work[w].dropped
      BY <2>3 DEF ResumeIInv, ResumeTypeOK, Works
    <3> QED
      BY <2>3, <3>1, <1>1 DEF ResumeIInv, WorksAgree, Naming
  <2> QED
    BY <2>1, <2>2, <2>3
<1>6. ErasesAgree'
  <2> SUFFICES ASSUME NEW v \in Workers
               PROVE  LET x == work'[v] IN
                      /\ x.op = "erase" =>
                           /\ Filled' \subseteq x.had \cup late' \cup {"personal"}
                           /\ \A a \in Apps : snap'[a] # NoFile => a \in x.apps \cup late'
                      /\ profile' = "deleted" /\ x.op # "idle" /\ ~x.cut =>
                           x.op = "match" /\ "resume" \in late'
    BY DEF ErasesAgree
  <2>1. CASE v # w
    <3>1. work'[v] = work[v]
      BY <2>1, <1>1
    <3>2. work[v].op = "erase" => late' = late \cup what
      BY <1>2 DEF Erasing
    <3> QED
      BY <3>1, <3>2, <1>2 DEF ResumeIInv, ErasesAgree
  <2>2. CASE v = w /\ next = NoWork
    BY <2>2, <1>1, NoWorkTyped
  <2>3. CASE v = w /\ work[w].op = "edit" /\ next = [work[w] EXCEPT !.op = "cleanup"]
    <3>1. next.op = "cleanup" /\ next.cut = work[w].cut
      BY <2>3 DEF ResumeIInv, ResumeTypeOK, Works
    <3> QED
      BY <2>3, <3>1, <1>1 DEF ResumeIInv, ErasesAgree
  <2> QED
    BY <2>1, <2>2, <2>3
<1>7. NamesAgree'
  <2>1. \A a \in Apps : snap'[a] \in Keys => snap'[a] \in stored' \cup pulled'
    BY DEF ResumeIInv, NamesAgree
  <2>2. ASSUME resume' \in Keys, resume' \notin stored' \cup pulled'
        PROVE  \E v \in Workers : work'[v].dropped /\ work'[v].old = resume'
    <3>1. resume' = resume /\ (work[w].dropped => resume # work[w].old)
      BY <2>2, NoFileAssumption
    <3>2. PICK v \in Workers : work[v].dropped /\ work[v].old = resume
      BY <2>2, <3>1 DEF ResumeIInv, NamesAgree
    <3> QED
      BY <3>1, <3>2, <1>1
  <2> QED
    BY <2>1, <2>2 DEF NamesAgree
<1>8. TombstoneHasCause'
  BY <1>3 DEF ResumeIInv, TombstoneHasCause
<1> QED
  BY <1>4, <1>5, <1>6, <1>7, <1>8 DEF ResumeIInv

LEMMA ApplyWritePreserves ==
  ASSUME ResumeIInv, NEW w \in Workers, ApplyWrite(w)
  PROVE  ResumeIInv'
<1> DEFINE a == work[w].app
           k == work[w].key
           what == {a, "personal"} \cup ({"resume"} \ work[w].had)
<1>1. /\ work[w].op = "apply" /\ (work[w].fresh => profile = "none")
      /\ profile' = IF work[w].fresh THEN "live" ELSE profile
      /\ personal' = TRUE
      /\ resume' = IF "resume" \in work[w].had THEN resume ELSE k
      /\ snap' = [snap EXCEPT ![a] = k] /\ sent' = sent \cup {a}
      /\ Writes(w, what) /\ work' = [work EXCEPT ![w] = NoWork]
      /\ UNCHANGED <<text, summary, stored, uploaded, pulled>>
  BY DEF ApplyWrite, Finish
<1>2. /\ a \in Apps /\ k \in stored \cup pulled /\ ~work[w].dropped
      /\ k \in uploaded \cup {NoFile}
  BY <1>1 DEF ResumeIInv, WorksAgree, Naming
<1>3. ResumeTypeOK
  BY DEF ResumeIInv
<1> HIDE DEF a, k
<1>4. what \in SUBSET (Columns \cup Apps)
  BY <1>2 DEF Columns
<1>5. /\ {resume', text', summary'} \subseteq uploaded \cup {NoFile}
      /\ snap' \in [Apps -> uploaded \cup {NoFile}]
      /\ sent \subseteq sent' /\ sent' \subseteq Apps
  BY <1>1, <1>2, <1>3 DEF ResumeTypeOK
<1>6. Filled' \subseteq Filled \cup what
  BY <1>1 DEF Filled, Columns
<1>7. \A x \in Apps :
        /\ snap'[x] # NoFile => x \in sent' /\ (snap[x] # NoFile \/ x \in what)
        /\ snap'[x] = snap[x] \/ snap'[x] \in stored \cup pulled
  BY <1>1, <1>2, <1>3 DEF ResumeTypeOK
<1>8. profile' \in {"none", "live", "deleted"} /\ (profile' = "deleted" => profile = "deleted")
  BY <1>1, <1>3 DEF ResumeTypeOK
<1> HIDE DEF what
<1> QED
  BY <1>1, <1>2, <1>4, <1>5, <1>6, <1>7, <1>8, NoWorkTyped, RowsWritten

LEMMA ProfileWritesPreserve ==
  ASSUME ResumeIInv, NEW w \in Workers,
         ReplaceWrite(w) \/ RemoveWrite(w) \/ PatchWrite(w) \/ MatchWrite(w)
  PROVE  ResumeIInv'
<1>1. /\ ResumeTypeOK
      /\ snap \in [Apps -> uploaded \cup {NoFile}]
      /\ \A a \in Apps : snap[a] # NoFile => a \in sent
      /\ {resume, text, summary} \subseteq uploaded \cup {NoFile}
      /\ work[w].key \in uploaded \cup {NoFile}
  BY DEF ResumeIInv, ResumeTypeOK, WorksAgree
<1>2. CASE ReplaceWrite(w)
  <2>1. /\ work[w].op = "replace" /\ resume' = work[w].key
        /\ Writes(w, {"resume"}) /\ work' = [work EXCEPT ![w] = NoWork]
        /\ UNCHANGED <<profile, text, summary, personal, snap, sent, stored, uploaded, pulled>>
    BY <1>2 DEF ReplaceWrite, Finish
  <2>2. work[w].key \in stored \cup pulled
    BY <2>1 DEF ResumeIInv, WorksAgree, Naming
  <2>3. Filled' \subseteq Filled \cup {"resume"}
    BY <2>1 DEF Filled, Columns
  <2>4. {"resume"} \in SUBSET (Columns \cup Apps)
    BY DEF Columns
  <2> QED
    BY <1>1, <2>1, <2>2, <2>3, <2>4, NoWorkTyped, RowsWritten DEF ResumeTypeOK
<1>3. CASE RemoveWrite(w)
  <2>1. /\ work[w].op = "remove" /\ late' = late
        /\ resume' = IF "resume" \in work[w].had THEN NoFile ELSE resume
        /\ text' = IF "text" \in work[w].had THEN NoFile ELSE text
        /\ work' = [work EXCEPT ![w] = NoWork]
        /\ UNCHANGED <<profile, summary, personal, snap, sent, stored, uploaded, pulled>>
    BY <1>3 DEF RemoveWrite, Finish
  <2>2. Writes(w, {})
    BY <2>1 DEF Writes
  <2>3. Filled' \subseteq Filled \cup {}
    BY <2>1 DEF Filled, Columns
  <2>4. "resume" \in work[w].had <=> work[w].old # NoFile
    BY <2>1 DEF ResumeIInv, WorksAgree
  <2>5. resume' = NoFile \/ (resume' = resume /\ (work[w].dropped => resume # work[w].old))
    BY <2>1, <2>4
  <2> QED
    BY <1>1, <2>1, <2>2, <2>3, <2>5, NoWorkTyped, RowsWritten DEF ResumeTypeOK
<1>4. CASE PatchWrite(w)
  <2>1. /\ work[w].op = "patch" /\ personal' = TRUE
        /\ Writes(w, {"personal"}) /\ work' = [work EXCEPT ![w] = NoWork]
        /\ UNCHANGED <<profile, resume, text, summary, snap, sent, stored, uploaded, pulled>>
    BY <1>4 DEF PatchWrite, Finish
  <2>2. ~work[w].dropped
    BY <2>1 DEF ResumeIInv, WorksAgree
  <2>3. Filled' \subseteq Filled \cup {"personal"}
    BY <2>1 DEF Filled, Columns
  <2>4. {"personal"} \in SUBSET (Columns \cup Apps)
    BY DEF Columns
  <2> QED
    BY <1>1, <2>1, <2>2, <2>3, <2>4, NoWorkTyped, RowsWritten DEF ResumeTypeOK
<1>5. CASE MatchWrite(w)
  <2>1. /\ work[w].op = "match" /\ text' = work[w].key /\ summary' = work[w].key
        /\ Writes(w, {"text", "summary"}) /\ work' = [work EXCEPT ![w] = NoWork]
        /\ UNCHANGED <<profile, resume, personal, snap, sent, stored, uploaded, pulled>>
    BY <1>5 DEF MatchWrite, Finish
  <2>2. ~work[w].dropped
    BY <2>1 DEF ResumeIInv, WorksAgree
  <2>3. Filled' \subseteq Filled \cup {"text", "summary"}
    BY <2>1 DEF Filled, Columns
  <2>4. {"text", "summary"} \in SUBSET (Columns \cup Apps)
    BY DEF Columns
  <2> QED
    BY <1>1, <2>1, <2>2, <2>3, <2>4, NoWorkTyped, RowsWritten DEF ResumeTypeOK
<1> QED
  BY <1>2, <1>3, <1>4, <1>5

LEMMA EditWritePreserves ==
  ASSUME ResumeIInv, NEW w \in Workers, EditWrite(w)
  PROVE  ResumeIInv'
<1> DEFINE a == work[w].app
           next == [work[w] EXCEPT !.op = "cleanup"]
<1>1. /\ ResumeTypeOK
      /\ snap \in [Apps -> uploaded \cup {NoFile}]
      /\ \A x \in Apps : snap[x] # NoFile => x \in sent
  BY DEF ResumeIInv, ResumeTypeOK
<1>2. /\ work[w].op = "edit" /\ snap' = [snap EXCEPT ![a] = work[w].key]
      /\ Writes(w, {a}) /\ work' = [work EXCEPT ![w] = next]
      /\ UNCHANGED <<profile, resume, text, summary, personal, sent, stored, uploaded, pulled>>
  BY <1>1 DEF EditWrite, ResumeTypeOK, Works
<1>3. /\ a \in sent /\ work[w].key \in stored \cup pulled /\ ~work[w].dropped
      /\ work[w].key \in uploaded \cup {NoFile}
  BY <1>2 DEF ResumeIInv, WorksAgree, Naming
<1>4. next \in Works
  BY <1>1 DEF ResumeTypeOK, Works, WorkOps
<1> HIDE DEF a, next
<1>5. a \in Apps /\ {a} \in SUBSET (Columns \cup Apps)
  BY <1>1, <1>3 DEF ResumeTypeOK
<1>6. Filled' \subseteq Filled \cup {a}
  BY <1>2 DEF Filled
<1>7. /\ snap' \in [Apps -> uploaded \cup {NoFile}]
      /\ \A x \in Apps :
           /\ snap'[x] # NoFile => x \in sent' /\ (snap[x] # NoFile \/ x \in {a})
           /\ snap'[x] = snap[x] \/ snap'[x] \in stored \cup pulled
  BY <1>1, <1>2, <1>3, <1>5
<1> QED
  BY <1>1, <1>2, <1>3, <1>4, <1>5, <1>6, <1>7, RowsWritten DEF next, ResumeTypeOK

\* What is left was written by a request that the deletion crossed.
LEMMA EraseWritePreserves ==
  ASSUME ResumeIInv, NEW w \in Workers, EraseWrite(w)
  PROVE  ResumeIInv'
<1> DEFINE had == work[w].had
<1>1. ResumeTypeOK
  BY DEF ResumeIInv
<1>2. /\ work[w].op = "erase" /\ profile' = "deleted"
      /\ resume' = IF "resume" \in had THEN NoFile ELSE resume
      /\ text' = IF "text" \in had THEN NoFile ELSE text
      /\ summary' = IF "summary" \in had THEN NoFile ELSE summary
      /\ personal' = FALSE
      /\ snap' = [a \in Apps |-> IF a \in work[w].apps THEN NoFile ELSE snap[a]]
      /\ work' = [v \in Workers |-> IF v = w THEN NoWork
                                    ELSE [work[v] EXCEPT !.cut = work[v] # NoWork]]
      /\ UNCHANGED <<sent, stored, uploaded, late, pulled>>
  BY DEF EraseWrite
<1>3. \A v \in Workers : work[v] \in Works /\ [work[v] EXCEPT !.cut = work[v] # NoWork] \in Works
  BY <1>1, ZenonT(60) DEF ResumeTypeOK, Works
<1>4. /\ work' \in [Workers -> Works]
      /\ work'[w] = NoWork
      /\ \A v \in Workers \ {w} :
           /\ work'[v].op = work[v].op /\ work'[v].key = work[v].key
           /\ work'[v].old = work[v].old /\ work'[v].had = work[v].had
           /\ work'[v].app = work[v].app /\ work'[v].apps = work[v].apps
           /\ work'[v].dropped = work[v].dropped
           /\ work[v].op # "idle" => work'[v].cut
  BY <1>2, <1>3, NoWorkTyped DEF Works
<1>5. Filled' = Filled \ (had \cup {"personal"})
  BY <1>2, NoFileAssumption DEF Filled, Columns
<1>6. /\ Filled \subseteq had \cup late \cup {"personal"}
      /\ \A a \in Apps : snap[a] # NoFile => a \in work[w].apps \cup late
      /\ "resume" \in had <=> work[w].old # NoFile
  BY <1>2 DEF ResumeIInv, ErasesAgree, WorksAgree
<1> HIDE DEF had
<1>7. ResumeTypeOK'
  <2>1. /\ {resume', text', summary'} \subseteq uploaded \cup {NoFile}
        /\ snap' \in [Apps -> Files]
        /\ \A a \in Apps : snap'[a] \in uploaded \cup {NoFile} /\ snap'[a] \in {snap[a], NoFile}
    BY <1>1, <1>2 DEF ResumeTypeOK, Files
  <2>2. resume' \in Files /\ text' \in Files /\ summary' \in Files
    BY <1>1, <2>1 DEF ResumeTypeOK, Files
  <2>3. /\ {resume', text', summary'} \cup {snap'[a] : a \in Apps} \subseteq uploaded' \cup {NoFile}
        /\ \A a \in Apps \ sent : snap'[a] = NoFile
    BY <1>1, <1>2, <2>1 DEF ResumeTypeOK
  <2> QED
    BY <1>1, <1>2, <1>4, <2>1, <2>2, <2>3 DEF ResumeTypeOK
<1>8. WorksAgree'
  BY <1>2, <1>4, NoWorkTyped DEF ResumeIInv, WorksAgree, Naming
<1>9. ErasesAgree'
  <2>1. \A a \in Apps : snap'[a] # NoFile => snap[a] # NoFile
    BY <1>2
  <2>2. Filled' \subseteq Filled
    BY <1>5
  <2>3. ASSUME NEW v \in Workers, work'[v].op = "erase"
        PROVE  /\ Filled' \subseteq work'[v].had \cup late' \cup {"personal"}
               /\ \A a \in Apps : snap'[a] # NoFile => a \in work'[v].apps \cup late'
    <3>1. v # w /\ work[v].op = "erase"
      BY <2>3, <1>4, NoWorkTyped
    <3> QED
      BY <3>1, <1>2, <1>4, <2>1, <2>2 DEF ResumeIInv, ErasesAgree
  <2>4. ASSUME NEW v \in Workers, work'[v].op # "idle"
        PROVE  work'[v].cut
    BY <2>4, <1>4, NoWorkTyped
  <2> QED
    BY <2>3, <2>4 DEF ErasesAgree
<1>10. NamesAgree'
  <2>1. \A a \in Apps : snap'[a] \in Keys => snap'[a] \in stored' \cup pulled'
    BY <1>2, NoFileAssumption DEF ResumeIInv, NamesAgree
  <2>2. ASSUME resume' \in Keys, resume' \notin stored' \cup pulled'
        PROVE  \E v \in Workers : work'[v].dropped /\ work'[v].old = resume'
    <3>1. resume' = resume /\ work[w].old = NoFile
      BY <2>2, <1>2, <1>6, NoFileAssumption
    <3>2. PICK v \in Workers : work[v].dropped /\ work[v].old = resume
      BY <2>2, <3>1, <1>2 DEF ResumeIInv, NamesAgree
    <3>3. v # w
      BY <2>2, <3>1, <3>2, NoFileAssumption
    <3> QED
      BY <3>1, <3>2, <3>3, <1>4
  <2> QED
    BY <2>1, <2>2 DEF NamesAgree
<1>11. TombstoneHasCause'
  BY <1>2, <1>5, <1>6 DEF TombstoneHasCause
<1> QED
  BY <1>7, <1>8, <1>9, <1>10, <1>11 DEF ResumeIInv

LEMMA ResumeStepPreserves == ResumeIInv /\ [ResumeNext]_resumeVars => ResumeIInv'
<1> SUFFICES ASSUME ResumeIInv, [ResumeNext]_resumeVars
             PROVE  ResumeIInv'
  OBVIOUS
<1>1. ASSUME NEW w \in Workers,
             RemoveRead(w) \/ PatchRead(w) \/ MatchRead(w) \/ EraseRead(w) \/ GiveUp(w)
      PROVE  ResumeIInv'
  BY <1>1, StartsPreserve
<1>2. ASSUME NEW w \in Workers, NEW k \in Keys,
             \/ ReplaceRead(w, k)
             \/ \E a \in Apps : ApplyRead(w, a, k) \/ EditRead(w, a, k)
      PROVE  ResumeIInv'
  BY <1>2, UploadsPreserve
<1>3. ASSUME NEW w \in Workers, DropFile(w) \/ EditCleanup(w)
      PROVE  ResumeIInv'
  BY <1>3, DropFilePreserves, EditCleanupPreserves
<1>4. ASSUME NEW w \in Workers,
             \/ ReplaceWrite(w) \/ RemoveWrite(w) \/ PatchWrite(w) \/ MatchWrite(w)
             \/ ApplyWrite(w) \/ EditWrite(w) \/ EraseWrite(w)
      PROVE  ResumeIInv'
  BY <1>4, ProfileWritesPreserve, ApplyWritePreserves, EditWritePreserves, EraseWritePreserves
<1>5. CASE UNCHANGED resumeVars
  <2>1. UNCHANGED <<profile, resume, text, summary, personal, snap, sent, stored, uploaded,
                    work, late, pulled>>
    BY <1>5 DEF resumeVars, rowsOfResume
  <2>2. Filled' = Filled
    BY <2>1 DEF Filled
  <2> QED
    BY <2>1, <2>2 DEF ResumeIInv, ResumeTypeOK, WorksAgree, ErasesAgree, NamesAgree,
                      TombstoneHasCause
<1> QED
  BY <1>1, <1>2, <1>3, <1>4, <1>5 DEF ResumeNext

----------------------------------------------------------------------------
(* The theorems. *)

\* The invariant holds in every behaviour of profile.py, account_deletion.py,
\* the applications' and the matching task's dealings with resume files.
THEOREM ResumeInductive == ResumeSpec => []ResumeIInv
<1>1. ResumeInit => ResumeIInv
  BY ResumeInitEstablishes
<1>2. ResumeIInv /\ [ResumeNext]_resumeVars => ResumeIInv'
  BY ResumeStepPreserves
<1> QED
  BY <1>1, <1>2, PTL DEF ResumeSpec

\* Every row and request has its type, and rows name only what was uploaded.
THEOREM ResumeTypeCorrect == ResumeSpec => []ResumeTypeOK
<1>1. ResumeIInv => ResumeTypeOK
  BY DEF ResumeIInv
<1> QED
  BY <1>1, ResumeInductive, PTL

\* confirm_deletion and admin_tombstone_candidate leave nothing but what a
\* request wrote that the deletion crossed.
THEOREM TombstoneHasCauseHolds == ResumeSpec => []TombstoneHasCause
<1>1. ResumeIInv => TombstoneHasCause
  BY DEF ResumeIInv
<1> QED
  BY <1>1, ResumeInductive, PTL

\* A named file that is not in the store was deleted while something else named
\* it, by a request that rolled back, or by one that is still to commit.
THEOREM MissingHasCauseHolds == ResumeSpec => []MissingHasCause
<1>1. ResumeIInv => MissingHasCause
  BY NoFileAssumption DEF ResumeIInv, NamesAgree, MissingHasCause
<1> QED
  BY <1>1, ResumeInductive, PTL

----------------------------------------------------------------------------
(* The exports. *)

\* A hand that holds nothing.
LEMMA FreeTyped == Free \in Hand /\ Free.op = "idle"
BY DEF Free, Hand

\* The initial state.
LEMMA ExportInitEstablishes == ExportInit => ExportIInv
<1> SUFFICES ASSUME ExportInit
             PROVE  ExportIInv
  OBVIOUS
<1>1. ExportTypeOK
  BY FreeTyped, ExportAssumption DEF ExportInit, ExportTypeOK
<1>2. HandsAgree /\ OverHasRow /\ ServedIsMarked
  BY FreeTyped DEF ExportInit, HandsAgree, OverHasRow, ServedIsMarked
<1>3. ExportsSound
  BY DEF ExportInit, ExportsSound, ServedOnce, LinkHasFile, FileHasRow, PendingExports
<1> QED
  BY <1>1, <1>2, <1>3 DEF ExportIInv

----------------------------------------------------------------------------
(* A step of one hand leaves the others what they hold. *)

LEMMA HandSteps ==
  ASSUME ExportTypeOK, NEW h \in Hands, NEW next \in Hand,
         hand' = [hand EXCEPT ![h] = next]
  PROVE  /\ hand' \in [Hands -> Hand]
         /\ \A g \in Hands : hand'[g] = IF g = h THEN next ELSE hand[g]
BY DEF ExportTypeOK

\* When a hand lets go and the exports stand, everything is as it was, but for
\* the ZIP of a build.
LEMMA HandFailsPreserves ==
  ASSUME ExportIInv, NEW h \in Hands, HandFails(h)
  PROVE  ExportIInv'
<1> USE DEF ExportIInv, HandFails, exportRows
<1>1. /\ hand' \in [Hands -> Hand]
      /\ \A g \in Hands : hand'[g] = IF g = h THEN Free ELSE hand[g]
  BY HandSteps, FreeTyped
<1>2. hand[h] \in Hand
  BY DEF ExportTypeOK
<1>3. ExportTypeOK'
  BY <1>1, <1>2 DEF ExportTypeOK, HandsAgree
<1>4. HandsAgree'
  BY <1>1, FreeTyped DEF HandsAgree
<1>5. OverHasRow' /\ ServedIsMarked'
  BY <1>1, FreeTyped DEF OverHasRow, ServedIsMarked
<1>6. ExportsSound'
  BY <1>1 DEF ExportsSound, ServedOnce, LinkHasFile, FileHasRow, PendingExports
<1> QED
  BY <1>3, <1>4, <1>5, <1>6

----------------------------------------------------------------------------
(* The queue, time, and the end of the account: no hand moves. *)

LEMMA QueuePreserves ==
  ASSUME ExportIInv, RequestExport \/ OrderGone
  PROVE  ExportIInv'
<1> USE DEF ExportIInv, RequestExport, OrderGone
<1>1. ExportTypeOK'
  BY ExportAssumption DEF ExportTypeOK
<1>2. HandsAgree' /\ OverHasRow' /\ ServedIsMarked'
  BY DEF HandsAgree, OverHasRow, ServedIsMarked
<1>3. ExportsSound'
  BY DEF ExportsSound, ServedOnce, LinkHasFile, FileHasRow, PendingExports
<1> QED
  BY <1>1, <1>2, <1>3

LEMMA LapsePreserves ==
  ASSUME ExportIInv, NEW z \in Zips, Lapse(z)
  PROVE  ExportIInv'
<1> USE DEF ExportIInv, Lapse
<1>1. ExportTypeOK'
  BY ExportAssumption DEF ExportTypeOK
<1>2. HandsAgree' /\ OverHasRow' /\ ServedIsMarked'
  BY DEF HandsAgree, OverHasRow, ServedIsMarked
<1>3. ExportsSound'
  BY DEF ExportsSound, ServedOnce, LinkHasFile, FileHasRow, PendingExports
<1> QED
  BY <1>1, <1>2, <1>3

LEMMA OwnerGonePreserves ==
  ASSUME ExportIInv, OwnerGone
  PROVE  ExportIInv'
<1> USE DEF ExportIInv, OwnerGone
<1>1. /\ export' \in [Zips -> {"none", "gone"}]
      /\ \A z \in Zips : export'[z] = IF export[z] = "none" THEN "none" ELSE "gone"
  OBVIOUS
<1>2. ExportTypeOK'
  BY <1>1 DEF ExportTypeOK
<1>3. HandsAgree'
  <2> SUFFICES ASSUME NEW h \in Hands
               PROVE  HandsAgree!(h)'
    BY DEF HandsAgree
  <2>1. hand[h] \in Hand
    BY DEF ExportTypeOK
  <2> QED
    BY <1>1, <2>1 DEF HandsAgree, ExportTypeOK, Hand
<1>4. OverHasRow' /\ ServedIsMarked'
  BY <1>1 DEF OverHasRow, ServedIsMarked, ExportTypeOK
<1>5. ExportsSound'
  BY <1>1 DEF ExportsSound, ServedOnce, LinkHasFile, FileHasRow, PendingExports, ExportTypeOK
<1> QED
  BY <1>2, <1>3, <1>4, <1>5

----------------------------------------------------------------------------
(* Building. *)

LEMMA BuildCheckPreserves ==
  ASSUME ExportIInv, NEW h \in Hands, BuildCheck(h)
  PROVE  ExportIInv'
<1> USE DEF ExportIInv, BuildCheck, exportRows
<1> DEFINE next == [hand[h] EXCEPT !.op = "checked"]
<1>1. next \in Hand /\ next.op = "checked"
  BY DEF ExportTypeOK, Hand
<1>2. /\ hand' \in [Hands -> Hand]
      /\ \A g \in Hands : hand'[g] = IF g = h THEN next ELSE hand[g]
  BY <1>1, HandSteps
<1> HIDE DEF next
<1>3. ExportTypeOK'
  BY <1>2 DEF ExportTypeOK
<1>4. HandsAgree'
  BY <1>1, <1>2 DEF HandsAgree
<1>5. OverHasRow' /\ ServedIsMarked'
  BY <1>1, <1>2 DEF OverHasRow, ServedIsMarked
<1>6. ExportsSound'
  BY <1>1, <1>2, FreeTyped DEF ExportsSound, ServedOnce, LinkHasFile, FileHasRow, PendingExports
<1> QED
  BY <1>3, <1>4, <1>5, <1>6

\* The new ZIP is nobody's: no row, no hand and no list of the purge has it.
LEMMA BuildUploadPreserves ==
  ASSUME ExportIInv, NEW h \in Hands, NEW z \in Zips, BuildUpload(h, z)
  PROVE  ExportIInv'
<1> USE DEF ExportIInv, BuildUpload, exportRows
<1> DEFINE next == [hand[h] EXCEPT !.op = "built", !.zip = z]
<1>1. next \in Hand /\ next.op = "built" /\ next.zip = z
  BY DEF ExportTypeOK, Hand
<1>2. /\ hand' \in [Hands -> Hand]
      /\ \A g \in Hands : hand'[g] = IF g = h THEN next ELSE hand[g]
  <2>1. hand' = [hand EXCEPT ![h] = next]
    BY DEF ExportTypeOK, Hand
  <2> QED
    BY <1>1, <2>1, HandSteps
<1> HIDE DEF next
<1>3. /\ export[z] = "none" /\ z \notin files
      /\ files' = files \cup {z} /\ made' = made \cup {z}
  BY DEF ExportTypeOK
<1>4. ExportTypeOK'
  BY <1>2, <1>3 DEF ExportTypeOK
<1>5. HandsAgree'
  BY <1>1, <1>2, <1>3 DEF HandsAgree, ExportTypeOK
<1>6. OverHasRow' /\ ServedIsMarked'
  BY <1>1, <1>2 DEF OverHasRow, ServedIsMarked
<1>7. ExportsSound'
  BY <1>1, <1>2, <1>3 DEF ExportsSound, ServedOnce, LinkHasFile, FileHasRow, PendingExports
<1> QED
  BY <1>4, <1>5, <1>6, <1>7

LEMMA BuildWritePreserves ==
  ASSUME ExportIInv, NEW h \in Hands, BuildWrite(h)
  PROVE  ExportIInv'
<1> USE DEF ExportIInv, BuildWrite
<1> DEFINE z == hand[h].zip
<1>1. /\ hand' \in [Hands -> Hand]
      /\ \A g \in Hands : hand'[g] = IF g = h THEN Free ELSE hand[g]
  BY HandSteps, FreeTyped
<1>2. z \in files /\ z \in Zips /\ export[z] = "none" /\ z \notin over
  BY DEF HandsAgree, ExportTypeOK, OverHasRow
<1>3. /\ export' \in [Zips -> {"none", "unused", "used", "gone"}]
      /\ \A y \in Zips : export'[y] = IF y = z THEN "unused" ELSE export[y]
  BY <1>2 DEF ExportTypeOK
<1>4. ExportTypeOK'
  BY <1>1, <1>2, <1>3 DEF ExportTypeOK
<1>5. HandsAgree'
  BY <1>1, <1>2, <1>3, FreeTyped DEF HandsAgree, ExportTypeOK, Hand
<1>6. OverHasRow' /\ ServedIsMarked'
  BY <1>1, <1>2, <1>3, FreeTyped DEF OverHasRow, ServedIsMarked, ExportTypeOK
<1>7. ExportsSound'
  BY <1>1, <1>2, <1>3 DEF ExportsSound, ServedOnce, LinkHasFile, FileHasRow, PendingExports, ExportTypeOK
<1> QED
  BY <1>4, <1>5, <1>6, <1>7

----------------------------------------------------------------------------
(* Downloading. *)

\* A pending link was not answered yet; whoever holds it as well is noted.
LEMMA DownloadReadPreserves ==
  ASSUME ExportIInv, NEW h \in Hands, NEW z \in Zips, DownloadRead(h, z)
  PROVE  ExportIInv'
<1> USE DEF ExportIInv, DownloadRead, exportRows
<1> DEFINE next == [hand[h] EXCEPT !.op = "download", !.zip = z]
<1>1. next \in Hand /\ next.op = "download" /\ next.zip = z
  BY DEF ExportTypeOK, Hand
<1>2. /\ hand' \in [Hands -> Hand]
      /\ \A g \in Hands : hand'[g] = IF g = h THEN next ELSE hand[g]
  <2>1. hand' = [hand EXCEPT ![h] = next]
    BY DEF ExportTypeOK, Hand
  <2> QED
    BY <1>1, <2>1, HandSteps
<1> HIDE DEF next
<1>3. /\ export[z] = "unused" /\ ~(served[z] > 0)
      /\ together \subseteq together' /\ together' \subseteq Zips
      /\ \A g \in Hands : hand[g].op = "download" /\ hand[g].zip = z => z \in together'
  BY DEF PendingExports, ServedIsMarked, ExportTypeOK
<1>4. ExportTypeOK'
  BY <1>2, <1>3 DEF ExportTypeOK
<1>5. HandsAgree'
  BY <1>1, <1>2, <1>3 DEF HandsAgree, ExportTypeOK
<1>6. OverHasRow' /\ ServedIsMarked'
  BY <1>1, <1>2, <1>3 DEF OverHasRow, ServedIsMarked
<1>7. ExportsSound'
  BY <1>1, <1>2, <1>3, FreeTyped DEF ExportsSound, ServedOnce, LinkHasFile, FileHasRow, PendingExports
<1> QED
  BY <1>4, <1>5, <1>6, <1>7

LEMMA DownloadWritePreserves ==
  ASSUME ExportIInv, NEW h \in Hands, DownloadWrite(h)
  PROVE  ExportIInv'
<1> USE DEF ExportIInv, DownloadWrite
<1> DEFINE z == hand[h].zip
<1>1. /\ hand' \in [Hands -> Hand]
      /\ \A g \in Hands : hand'[g] = IF g = h THEN Free ELSE hand[g]
  BY HandSteps, FreeTyped
<1>2. z \in Zips /\ export[z] \in {"unused", "used"}
  BY DEF HandsAgree, ExportTypeOK
<1>3. /\ export' \in [Zips -> {"none", "unused", "used", "gone"}]
      /\ \A y \in Zips : export'[y] = IF y = z THEN "used" ELSE export[y]
      /\ served' \in [Zips -> Nat]
      /\ \A y \in Zips : served'[y] = IF y = z THEN served[y] + 1 ELSE served[y]
  BY <1>2 DEF ExportTypeOK
<1>4. ExportTypeOK'
  BY <1>1, <1>2, <1>3 DEF ExportTypeOK
<1>5. HandsAgree'
  BY <1>1, <1>2, <1>3, FreeTyped DEF HandsAgree, ExportTypeOK, Hand
<1>6. OverHasRow'
  BY <1>2, <1>3 DEF OverHasRow, ExportTypeOK
<1>7. ServedIsMarked'
  BY <1>1, <1>2, <1>3, FreeTyped DEF ServedIsMarked, HandsAgree, ExportTypeOK
<1>8. ServedOnce'
  BY <1>1, <1>2, <1>3 DEF ExportsSound, ServedOnce, ServedIsMarked, ExportTypeOK
<1>9. LinkHasFile' /\ FileHasRow'
  BY <1>1, <1>2, <1>3 DEF ExportsSound, LinkHasFile, FileHasRow, PendingExports, ExportTypeOK
<1> QED
  BY <1>4, <1>5, <1>6, <1>7, <1>8, <1>9 DEF ExportsSound

----------------------------------------------------------------------------
(* The purge. *)

\* What it deletes is past its time: no link that works, no build under way.
LEMMA PurgeReadPreserves ==
  ASSUME ExportIInv, NEW h \in Hands, PurgeExportsRead(h)
  PROVE  ExportIInv'
<1> USE DEF ExportIInv, PurgeExportsRead, exportRows
<1> DEFINE old == {z \in over : export[z] \in {"unused", "used"}}
<1>1. PICK deleted \in SUBSET old :
        /\ files' = files \ deleted
        /\ hand' = [hand EXCEPT ![h].op = "purge", ![h].zips = deleted]
  OBVIOUS
<1> DEFINE next == [hand[h] EXCEPT !.op = "purge", !.zips = deleted]
<1>2. next \in Hand /\ next.op = "purge" /\ next.zips = deleted
  BY ZenonT(60) DEF ExportTypeOK, Hand
<1>3. /\ hand' \in [Hands -> Hand]
      /\ \A g \in Hands : hand'[g] = IF g = h THEN next ELSE hand[g]
  <2>1. hand' = [hand EXCEPT ![h] = next]
    BY <1>1 DEF ExportTypeOK, Hand
  <2> QED
    BY <1>2, <2>1, HandSteps
<1>4. \A z \in deleted : z \in over /\ export[z] \in {"unused", "used"}
  OBVIOUS
<1> HIDE DEF next, old
<1>5. ExportTypeOK'
  BY <1>1, <1>3 DEF ExportTypeOK
<1>6. HandsAgree'
  BY <1>1, <1>2, <1>3, <1>4 DEF HandsAgree
<1>7. OverHasRow' /\ ServedIsMarked'
  BY <1>2, <1>3 DEF OverHasRow, ServedIsMarked
<1>8. ExportsSound'
  BY <1>1, <1>2, <1>3, <1>4, FreeTyped DEF ExportsSound, ServedOnce, LinkHasFile, FileHasRow, PendingExports
<1> QED
  BY <1>5, <1>6, <1>7, <1>8

LEMMA PurgeWritePreserves ==
  ASSUME ExportIInv, NEW h \in Hands, PurgeExportsWrite(h)
  PROVE  ExportIInv'
<1> USE DEF ExportIInv, PurgeExportsWrite
<1>1. /\ hand' \in [Hands -> Hand]
      /\ \A g \in Hands : hand'[g] = IF g = h THEN Free ELSE hand[g]
  BY HandSteps, FreeTyped
<1>2. /\ export' \in [Zips -> {"none", "unused", "used", "gone"}]
      /\ \A z \in Zips : export'[z] = IF z \in hand[h].zips THEN "gone" ELSE export[z]
      /\ \A z \in hand[h].zips : z \notin files /\ export[z] # "none"
  BY DEF ExportTypeOK, HandsAgree
<1>3. ExportTypeOK'
  BY <1>1, <1>2 DEF ExportTypeOK
<1>4. HandsAgree'
  <2> SUFFICES ASSUME NEW g \in Hands
               PROVE  HandsAgree!(g)'
    BY DEF HandsAgree
  <2>1. hand[g] \in Hand
    BY DEF ExportTypeOK
  <2> QED
    BY <1>1, <1>2, <2>1, FreeTyped DEF HandsAgree, ExportTypeOK, Hand
<1>5. OverHasRow' /\ ServedIsMarked'
  BY <1>1, <1>2, FreeTyped DEF OverHasRow, ServedIsMarked, ExportTypeOK
<1>6. ExportsSound'
  BY <1>1, <1>2 DEF ExportsSound, ServedOnce, LinkHasFile, FileHasRow, PendingExports, ExportTypeOK
<1> QED
  BY <1>3, <1>4, <1>5, <1>6

----------------------------------------------------------------------------
(* The theorems. *)

LEMMA ExportStepPreserves ==
  ASSUME ExportIInv, [ExportNext]_exportVars
  PROVE  ExportIInv'
<1>1. CASE UNCHANGED exportVars
  BY <1>1 DEF exportVars, exportRows, ExportIInv, ExportTypeOK, HandsAgree, OverHasRow,
              ServedIsMarked, ExportsSound, ServedOnce, LinkHasFile, FileHasRow,
              PendingExports
<1>2. CASE RequestExport \/ OrderGone \/ OwnerGone
  BY <1>2, QueuePreserves, OwnerGonePreserves
<1>3. ASSUME NEW h \in Hands,
             \/ BuildCheck(h) \/ BuildWrite(h) \/ HandFails(h) \/ DownloadWrite(h)
             \/ PurgeExportsRead(h) \/ PurgeExportsWrite(h)
      PROVE  ExportIInv'
  BY <1>3, BuildCheckPreserves, BuildWritePreserves, HandFailsPreserves,
     DownloadWritePreserves, PurgeReadPreserves, PurgeWritePreserves
<1>4. ASSUME NEW h \in Hands, NEW z \in Zips, BuildUpload(h, z) \/ DownloadRead(h, z)
      PROVE  ExportIInv'
  BY <1>4, BuildUploadPreserves, DownloadReadPreserves
<1>5. ASSUME NEW z \in Zips, Lapse(z)
      PROVE  ExportIInv'
  BY <1>5, LapsePreserves
<1> QED
  BY <1>1, <1>2, <1>3, <1>4, <1>5 DEF ExportNext

\* Checks made before an upload, a download or a delete keep the invariant,
\* whatever comes between them and their writes.
THEOREM ExportInductive == ExportSpec => []ExportIInv
<1> QED
  BY ExportInitEstablishes, ExportStepPreserves, PTL DEF ExportSpec

\* Every variable keeps its type.
THEOREM ExportTypeCorrect == ExportSpec => []ExportTypeOK
<1>1. ExportIInv => ExportTypeOK
  BY DEF ExportIInv
<1> QED
  BY <1>1, ExportInductive, PTL

\* However many builds, downloads and purges overlap: a link is answered once
\* unless two downloads overlap, one that works has its file, and a file
\* without a row is of a build that failed or an account that was deleted.
THEOREM ExportsSoundHolds == ExportSpec => []ExportsSound
<1>1. ExportIInv => ExportsSound
  BY DEF ExportIInv
<1> QED
  BY <1>1, ExportInductive, PTL
=============================================================================
