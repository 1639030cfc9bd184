-------------------------------- MODULE RowEditor --------------------------------
(***************************************************************************)
(* The two inputs of a job form that edit a list in place: its             *)
(* requirements and its tags.  A requirement has no name of its own: the   *)
(* input gives each row a key, keeps the keys in step with the rows through *)
(* additions, removals and drags, and a row open for editing lives under   *)
(* its key, while it writes by its index.  The form around it may replace  *)
(* the whole list, by the answer of a save that dropped the empty rows.    *)
(* A tag is its own key: the tags differ, whatever their letters' case.    *)
(***************************************************************************)
EXTENDS Picking

CONSTANTS
  MinRows,   \* JOB_REQ_MIN_COUNT
  MaxRows,   \* JOB_REQ_MAX_COUNT
  LastKey,   \* bound: keys given, and requirements made, while the form is open
  MaxTags,   \* JOB_TAG_MAX_COUNT
  Tags,      \* the tags one may type
  Folded     \* their lower case

ASSUME RowAssumption ==
  /\ MinRows \in Nat \ {0} /\ MaxRows \in Nat /\ MinRows <= MaxRows
  /\ LastKey \in Nat /\ MinRows <= LastKey
  /\ MaxTags \in Nat

Keys == 1..LastKey
None == 0

VARIABLES
  editor,    \* the input: "requirements" or "tags"
  value,     \* the requirements of the form, in order
  filled,    \* those with a text
  ids,       \* the keys of the rows
  nextId,    \* the next key
  mounted,   \* the requirement each key was mounted for
  editing,   \* the row open for editing: its key, whether its draft has text
  draftNew,  \* the row being added: "closed", "empty", "text"
  sent,      \* the requirements a save in flight carries
  tags,      \* the tags of the form
  reseeded   \* the form replaced the list since the rows were mounted

rowVars == <<editor, value, filled, ids, nextId, mounted, editing, draftNew, sent, tags,
             reseeded>>

Unopened == [key |-> None, text |-> FALSE]
NotSent == <<None>>

At(s, x) == CHOOSE i \in 1..Len(s) : s[i] = x
LeftOut(s, i) == SubSeq(s, 1, i - 1) \o SubSeq(s, i + 1, Len(s))

\* arrayMove.
Moved(s, i, j) ==
  LET t == LeftOut(s, i) IN SubSeq(t, 1, j - 1) \o <<s[i]>> \o SubSeq(t, j, Len(t))

OnceEach(s) == \A i, j \in 1..Len(s) : s[i] = s[j] => i = j

RowTypeOK ==
  /\ editor \in {"requirements", "tags"}
  /\ value \in Seq(Keys) /\ OnceEach(value) /\ (reseeded \/ Len(value) <= MaxRows)
  /\ filled \subseteq Keys
  /\ ids \in Seq(Keys) /\ Len(ids) = Len(value) /\ OnceEach(ids)
  /\ nextId \in 1..LastKey + 1
  /\ mounted \in [Keys -> Keys \cup {None}]
  /\ editing \in [key : Keys \cup {None}, text : BOOLEAN]
  /\ draftNew \in {"closed", "empty", "text"}
  /\ sent \in Seq(Keys \cup {None})
  /\ tags \in Seq(Tags) /\ Len(tags) <= MaxTags
  /\ reseeded \in BOOLEAN

\* The form of a new job: the least number of rows, all empty.
RowInit ==
  /\ editor \in {"requirements", "tags"}
  /\ value = [i \in 1..MinRows |-> i]
  /\ filled \in {{}, 1..MinRows}
  /\ ids = [i \in 1..MinRows |-> i]
  /\ nextId = MinRows + 1
  /\ mounted = [k \in Keys |-> IF k <= MinRows THEN k ELSE None]
  /\ editing = Unopened
  /\ draftNew = "closed"
  /\ sent = NotSent
  /\ tags = <<>>
  /\ reseeded = FALSE

----------------------------------------------------------------------------
(* The requirements.  One row has the focus, so one is edited or added at a time. *)

CanRemove == Len(value) > MinRows

NoFocus == editing = Unopened /\ draftNew = "closed"

\* Mutant: the key of a row taken out stays.
TakeOutKeepsKey(i) ==
  /\ value' = LeftOut(value, i)
  /\ UNCHANGED ids

\* remove: the row and its key.
TakeOut(i) ==
  /\ value' = LeftOut(value, i)
  /\ ids' = LeftOut(ids, i)

\* A click on a row opens it; a draft is typed.
StartEdit ==
  /\ editor = "requirements"
  /\ NoFocus
  /\ \E i \in 1..Len(ids) :
       editing' = [key |-> ids[i], text |-> value[i] \in filled]
  /\ UNCHANGED <<editor, value, filled, ids, nextId, mounted, draftNew, sent, tags, reseeded>>

TypeRow ==
  /\ editing # Unopened
  /\ \E b \in BOOLEAN : editing' = [editing EXCEPT !.text = b]
  /\ UNCHANGED <<editor, value, filled, ids, nextId, mounted, draftNew, sent, tags, reseeded>>

\* Mutant: an emptied row is taken out however few there are.
EmptiedAlways(i) == value[i] \notin filled

\* A row that was empty and stays so is taken out, if it may; another gets its text back.
Emptied(i) == value[i] \notin filled /\ CanRemove

\* commit, on Enter or when the row is left; Escape gives the draft up.
CommitEdit ==
  /\ editing # Unopened
  /\ editing' = Unopened
  /\ LET i == At(ids, editing.key)
     IN \/ UNCHANGED <<value, ids, filled>>
        \/ /\ ~editing.text /\ Emptied(i)
           /\ TakeOut(i)
           /\ UNCHANGED filled
        \/ /\ editing.text
           /\ filled' = filled \cup {value[i]}
           /\ UNCHANGED <<value, ids>>
  /\ UNCHANGED <<editor, nextId, mounted, draftNew, sent, tags, reseeded>>

RemoveRow ==
  /\ editor = "requirements"
  /\ NoFocus /\ CanRemove
  /\ \E i \in 1..Len(value) : TakeOut(i)
  /\ UNCHANGED <<editor, filled, nextId, mounted, editing, draftNew, sent, tags, reseeded>>

\* Mutant: the dragged row and the one it is dropped on change places; their keys move.
DragRowSwapped ==
  /\ editor = "requirements"
  /\ NoFocus
  /\ \E i, j \in 1..Len(value) :
       /\ i # j
       /\ value' = [value EXCEPT ![i] = value[j], ![j] = value[i]]
       /\ ids' = Moved(ids, i, j)
  /\ UNCHANGED <<editor, filled, nextId, mounted, editing, draftNew, sent, tags, reseeded>>

\* handleDragEnd: the keys move as the rows do.
DragRow ==
  /\ editor = "requirements"
  /\ NoFocus
  /\ \E i, j \in 1..Len(value) :
       /\ i # j
       /\ value' = Moved(value, i, j)
       /\ ids' = Moved(ids, i, j)
  /\ UNCHANGED <<editor, filled, nextId, mounted, editing, draftNew, sent, tags, reseeded>>

\* add, and the text typed into the new row.
TypeNew ==
  /\ editor = "requirements"
  /\ editing = Unopened
  /\ draftNew = "closed" => Len(value) < MaxRows
  /\ draftNew' \in {"empty", "text"}
  /\ UNCHANGED <<editor, value, filled, ids, nextId, mounted, editing, sent, tags, reseeded>>

\* A requirement no row and no save in flight has.
Fresh == {k \in Keys : \A s \in {value, sent} : \A i \in 1..Len(s) : s[i] # k}

\* commitNew: a row at the end under a new key, or nothing.
CommitNew ==
  /\ draftNew # "closed"
  /\ draftNew' = "closed"
  /\ \/ /\ draftNew = "text"
        /\ nextId \in Keys
        /\ \E k \in Fresh :
             /\ \A f \in Fresh : k <= f
             /\ value' = Append(value, k)
             /\ filled' = filled \cup {k}
             /\ mounted' = [mounted EXCEPT ![nextId] = k]
        /\ ids' = Append(ids, nextId)
        /\ nextId' = nextId + 1
     \/ UNCHANGED <<value, filled, mounted, ids, nextId>>
  /\ UNCHANGED <<editor, editing, sent, tags, reseeded>>

----------------------------------------------------------------------------
(* The form around the input. *)

\* A save carries the rows that have a text; the rows stay open for editing meanwhile.
SaveForm ==
  /\ editor = "requirements"
  /\ sent = NotSent /\ NoFocus
  /\ LET full == Picked(value, {i \in 1..Len(value) : value[i] \in filled})
     IN Len(full) >= MinRows /\ sent' = full
  /\ UNCHANGED <<editor, value, filled, ids, nextId, mounted, editing, draftNew, tags,
                 reseeded>>

\* The answer: the list is the one sent; the effect cuts keys from the end, or gives new
\* ones to rows that have none, and a row whose key is gone closes with its draft.
SaveAnswered ==
  /\ sent # NotSent
  /\ LET extra == Len(sent) - Len(ids)
         kept == SubSeq(ids, 1, IF extra > 0 THEN Len(ids) ELSE Len(sent))
     IN /\ nextId + (IF extra > 0 THEN extra ELSE 0) <= LastKey + 1
        /\ value' = sent
        /\ ids' = kept \o (IF extra > 0 THEN [i \in 1..extra |-> nextId + i - 1] ELSE <<>>)
        /\ nextId' = nextId + (IF extra > 0 THEN extra ELSE 0)
        /\ mounted' = [k \in Keys |-> IF k \in nextId..nextId' - 1
                                        THEN sent[Len(kept) + k - nextId + 1] ELSE mounted[k]]
        /\ editing' = IF \E i \in 1..Len(ids') : ids'[i] = editing.key THEN editing ELSE Unopened
  /\ reseeded' = (reseeded \/ sent # value)
  /\ sent' = NotSent
  /\ UNCHANGED <<editor, filled, draftNew, tags>>

\* A refusal.
SaveRefused ==
  /\ sent # NotSent
  /\ sent' = NotSent
  /\ UNCHANGED <<editor, value, filled, ids, nextId, mounted, editing, draftNew, tags,
                 reseeded>>

----------------------------------------------------------------------------
(* The tags. *)

SameTag(t, u) == Folded[t] = Folded[u]
HasTag(t) == \E i \in 1..Len(tags) : SameTag(tags[i], t)

\* Mutant: an edited tag is compared with no other.
EditableAlways(t, i) == tags[i] # t

\* edit: to what no other tag is.
Editable(t, i) == tags[i] # t /\ \A j \in 1..Len(tags) : SameTag(tags[j], t) => j = i

\* uniqValue: the first of each.
Unique(s) == Picked(s, {i \in 1..Len(s) : \A j \in 1..i - 1 : ~SameTag(s[j], s[i])})

TagsInput ==
  /\ editor = "tags"
  /\ \/ \E t \in Tags : ~HasTag(t) /\ Len(tags) < MaxTags /\ tags' = Append(tags, t)
     \/ \E i \in 1..Len(tags), t \in Tags : Editable(t, i) /\ tags' = [tags EXCEPT ![i] = t]
     \/ \E i \in 1..Len(tags) : tags' = LeftOut(tags, i)
     \/ \E i, j \in 1..Len(tags) : i # j /\ tags' = Moved(tags, i, j)
  /\ UNCHANGED <<editor, value, filled, ids, nextId, mounted, editing, draftNew, sent,
                 reseeded>>

\* Tags come from the server, which lets two differ in case: the input writes back the
\* first of each.
TagsReseeded ==
  /\ editor = "tags"
  /\ \E n \in 0..MaxTags : \E s \in [1..n -> Tags] : tags' = Unique(s)
  /\ UNCHANGED <<editor, value, filled, ids, nextId, mounted, editing, draftNew, sent,
                 reseeded>>

RowNext ==
  \/ StartEdit \/ TypeRow \/ CommitEdit \/ RemoveRow \/ DragRow \/ TypeNew \/ CommitNew
  \/ SaveForm \/ SaveAnswered \/ SaveRefused
  \/ TagsInput \/ TagsReseeded

RowSpec == RowInit /\ [][RowNext]_rowVars

----------------------------------------------------------------------------
(* Properties. *)

\* A row keeps the requirement it was mounted for through additions, removals and drags,
\* so a draft typed into it is of that requirement, until the form replaces the list.
RowKeepsRequirement ==
  ~reseeded => \A i \in 1..Len(ids) : mounted[ids[i]] = value[i]

\* The form never has fewer requirements than a job must have.
EnoughRows == Len(value) >= MinRows

\* No two tags are the same but for the case of their letters: dragging finds a tag by
\* its text.
TagsDiffer == \A i, j \in 1..Len(tags) : SameTag(tags[i], tags[j]) => i = j
----------------------------------------------------------------------------
(* Why they hold: an inductive invariant. *)

\* A key is not given twice: the next one is past those the rows have.
RowsKeyed == \A i \in 1..Len(ids) : ids[i] < nextId

\* The row open for editing is one of the rows; none is open while one is added, and then
\* there is room for it.
FocusAgrees ==
  /\ editing = Unopened \/ \E i \in 1..Len(ids) : ids[i] = editing.key
  /\ draftNew # "closed" => editing = Unopened /\ (reseeded \/ Len(value) < MaxRows)

\* What a save carries may be the list.
SentWhole ==
  sent = NotSent \/ (sent \in Seq(Keys) /\ OnceEach(sent) /\ Len(sent) >= MinRows)

RowIInv ==
  /\ RowTypeOK /\ RowsKeyed /\ FocusAgrees /\ SentWhole
  /\ RowKeepsRequirement /\ EnoughRows /\ TagsDiffer
============================================================================
