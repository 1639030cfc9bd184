----------------------------- MODULE InfiniteList -----------------------------
(***************************************************************************)
(* The pages that list rows of the server: the hook useInfiniteList (one   *)
(* fetch at a time, keyset cursors, rows kept on screen while a new first  *)
(* page is on its way) and what the pages do to its rows: decisions that   *)
(* take a row away before the server has answered, deletions and changes   *)
(* shown once it has, new rows put at the head, undo, changes of filter    *)
(* and sort.  Page is one of the eleven list pages, described by what its  *)
(* handlers do to the list.                                                *)
(***************************************************************************)
EXTENDS Picking

CONSTANTS
  LastRow,    \* rows 1..LastRow, in the order of their sort key
  PageSize,
  MaxShown,   \* bound: rows on screen
  MaxCalls    \* bound: changes under way at a time

ASSUME ListAssumption ==
  /\ LastRow \in Nat /\ MaxShown \in Nat /\ MaxCalls \in Nat
  /\ PageSize \in Nat \ {0}

ListRows == 1..LastRow
NoRow == 0
RowStages == {"absent", "open", "done", "gone"}

(* What a page may ask of the server for a row, and do to the list: op.to is  *)
(* the stage a success leads to ("same": the row stays), op.first and         *)
(* op.then what happens to the list before the call and after its success,    *)
(* op.fails after a failure; a modal op holds the page's only dialog.         *)
Op(name, to, first, then, fails, modal) ==
  [name |-> name, to |-> to, first |-> first, then |-> then, fails |-> fails,
   modal |-> modal]

Hurried(name) == Op(name, "done", "remove", "none", "reload", FALSE)
Removing(name, modal) == Op(name, "gone", "none", "remove", "none", modal)
Showing(name, modal) == Op(name, "done", "none", "update", "none", modal)
Creating(name) == Op(name, "open", "none", "prepend", "none", TRUE)

\* A fetcher: the rows a page asks for, and in which direction.
Fetcher(want, asc) == [want |-> want, asc |-> asc]
Newest == Fetcher("all", FALSE)

----------------------------------------------------------------------------
(* The pages.  fetchers: the filters and sorts that change the fetcher's       *)
(* identity, the first one shown first; ops: what the page's handlers do, but  *)
(* for edits of a row's other fields (module Forms).                           *)

Page(first, fetchers, ops) == [first |-> first, fetchers |-> fetchers, ops |-> ops]

ApplicationsQueue ==
  LET f == Fetcher("open", TRUE) IN
  Page(f, {f}, {Hurried("decide"), Op("undo", "open", "none", "reload", "none", FALSE)})

JobsQueue ==
  LET f == Fetcher("open", TRUE) IN Page(f, {f}, {Hurried("decide")})

\* An approved company stays pending on the server until it activates.
CompaniesQueue ==
  LET f == Fetcher("open", TRUE) IN
  Page(f, {f}, {Op("approve", "same", "none", "remove", "none", FALSE),
                Removing("reject", FALSE)})

\* Approval and rejection do the same to the list; the rejection's dialog only excludes.
AdminJobs ==
  Page(Newest, {Newest, Fetcher("open", TRUE)},
       {Showing("decide", FALSE), Removing("delete", TRUE), Creating("create")})

AdminApplications ==
  Page(Newest, {Newest, Fetcher("open", TRUE)},
       {Removing("delete", TRUE), Showing("status", FALSE)})

AdminCandidates == Page(Newest, {Newest, Fetcher("all", TRUE)}, {Removing("delete", TRUE)})

CompanyActive ==
  Page(Newest, {Newest, Fetcher("all", TRUE)}, {Removing("delete", TRUE)})

CompanyPending ==
  LET f == Fetcher("open", FALSE) IN
  Page(f, {f}, {Op("approve", "same", "none", "none", "none", TRUE),
                Removing("reject", TRUE)})

CompanyInvites ==
  Page(Newest, {Newest},
       {Showing("revoke", TRUE), Removing("delete", TRUE), Creating("create"),
        Op("resend", "open", "none", "reload", "none", TRUE)})

CompanyJobs == Page(Newest, {Newest}, {Removing("delete", FALSE)})

JobBoard == LET f == Fetcher("open", FALSE) IN Page(f, {f}, {})

ListPages ==
  {ApplicationsQueue, JobsQueue, CompaniesQueue, AdminJobs, AdminApplications,
   AdminCandidates, CompanyActive, CompanyPending, CompanyInvites, CompanyJobs,
   JobBoard}

AllOps == UNION {p.ops : p \in ListPages}
AllFetchers == UNION {p.fetchers : p \in ListPages}

----------------------------------------------------------------------------
VARIABLES
  page,      \* the page shown
  row,       \* server: the stage of each row
  fetcher,   \* fetcherRef: the current filter and sort
  items,     \* state.items: rows as last read
  cursor,    \* state.cursor
  more,      \* state.hasMore
  loading,   \* state.isLoading or state.isFetchingMore
  error,     \* state.error is set
  fetch,     \* the fetch in flight
  change,    \* the call in flight for each row (bound: one per row)
  undo,      \* pendingUndo
  \* For the properties, since the last fetch of a first page began:
  dropped,   \* a fetch of the first page was dropped
  crossed,   \* rows read and changed at the same time
  misplaced, \* a new row was put at the head of a list sorted otherwise
  aside     \* rows the page took away although its filter still asks for them

hookVars == <<fetcher, items, cursor, more, loading, error, fetch>>
listCauses == <<dropped, crossed, misplaced, aside>>
listVars == <<page, row, hookVars, change, undo, listCauses>>

Items == [id : ListRows, st : {"open", "done"}]
NoFetch == [st |-> "none", f |-> Newest, cur |-> NoRow, replace |-> FALSE,
            page |-> <<>>, next |-> NoRow]
NoOp == Op("none", "same", "none", "none", "none", FALSE)
NoChange == [op |-> NoOp, st |-> "none"]

Shown == {items[i].id : i \in 1..Len(items)}
Busy == {r \in ListRows : change[r].st # "none"}
Quiet == fetch.st = "none" /\ Busy = {}
Wants(f, stage) == IF f.want = "all" THEN stage \in {"open", "done"} ELSE stage = f.want

ListTypeOK ==
  /\ page \in ListPages
  /\ row \in [ListRows -> RowStages]
  /\ fetcher \in AllFetchers
  /\ items \in Seq(Items)
  /\ cursor \in 0..LastRow
  /\ more \in BOOLEAN
  /\ loading \in BOOLEAN
  /\ error \in BOOLEAN
  /\ fetch \in [st : {"none", "sent", "answered", "failed"}, f : AllFetchers,
                cur : 0..LastRow, replace : BOOLEAN,
                page : Seq(Items), next : 0..LastRow]
  /\ change \in [ListRows -> [op : AllOps \cup {NoOp},
                              st : {"none", "sent", "done", "refused"}]]
  /\ undo \in 0..LastRow
  /\ dropped \in BOOLEAN
  /\ crossed \in BOOLEAN
  /\ misplaced \in BOOLEAN
  /\ aside \subseteq ListRows

\* The page is mounted over any number of rows: the effect has begun the first
\* fetch.
ListInit ==
  /\ page \in ListPages
  /\ \E n \in 0..LastRow : row = [r \in ListRows |-> IF r <= n THEN "open" ELSE "absent"]
  /\ fetcher = page.first
  /\ items = <<>>
  /\ cursor = NoRow
  /\ more = TRUE
  /\ loading = TRUE
  /\ error = FALSE
  /\ fetch = [NoFetch EXCEPT !.st = "sent", !.f = page.first, !.replace = TRUE]
  /\ change = [r \in ListRows |-> NoChange]
  /\ undo = NoRow
  /\ dropped = FALSE
  /\ crossed = FALSE
  /\ misplaced = FALSE
  /\ aside = {}

----------------------------------------------------------------------------
(* The hook. *)

Restart(f) ==
  /\ fetcher' = f
  /\ cursor' = NoRow
  /\ more' = TRUE
  /\ error' = FALSE
  /\ IF fetch.st # "none"
       THEN /\ loading' = TRUE
            /\ dropped' = TRUE
            /\ UNCHANGED <<fetch, crossed, misplaced, aside>>
       ELSE /\ loading' = (items = <<>>)
            /\ fetch' = [NoFetch EXCEPT !.st = "sent", !.f = f, !.replace = TRUE]
            /\ dropped' = FALSE
            /\ crossed' = FALSE
            /\ misplaced' = FALSE
            /\ aside' = {}

\* The effect on a new fetcher: rows stay, the first page is fetched unless a
\* fetch is in flight.
ChangeFetcher(f) ==
  /\ Restart(f)
  /\ UNCHANGED <<page, row, items, change, undo>>

\* The retry button of the error state.
Retry ==
  /\ error
  /\ Restart(fetcher)
  /\ UNCHANGED <<page, row, items, change, undo>>

\* The sentinel comes into view.
LoadMore ==
  /\ fetch.st = "none"
  /\ more /\ cursor # NoRow
  /\ Len(items) < MaxShown
  /\ fetch' = [NoFetch EXCEPT !.st = "sent", !.f = fetcher, !.cur = cursor]
  /\ loading' = TRUE
  /\ error' = FALSE
  /\ UNCHANGED <<page, row, fetcher, items, cursor, more, change, undo, listCauses>>

\* Mutant: the cursor's row is read again.
PastInclusive(f, r, cur) == cur = NoRow \/ (IF f.asc THEN r >= cur ELSE r <= cur)

\* apply_cursor: the rows strictly past the cursor's row in f's direction.
Past(f, r, cur) == cur = NoRow \/ (IF f.asc THEN r > cur ELSE r < cur)

InOrder(f, S) ==
  LET n == Cardinality(S) IN [i \in 1..n |-> Nth(S, IF f.asc THEN i ELSE n + 1 - i)]

\* The server reads one page and a row more, to know whether there is a next.
ServeFetch ==
  LET match == {r \in ListRows : Wants(fetch.f, row[r]) /\ Past(fetch.f, r, fetch.cur)}
      sorted == InOrder(fetch.f, match)
      n == IF Len(sorted) > PageSize THEN PageSize ELSE Len(sorted)
  IN
  /\ fetch.st = "sent"
  /\ fetch' = [fetch EXCEPT
       !.st = "answered",
       !.page = [i \in 1..n |-> [id |-> sorted[i], st |-> row[sorted[i]]]],
       !.next = IF Len(sorted) > PageSize THEN sorted[n] ELSE NoRow]
  /\ crossed' = (crossed \/ \E r \in Busy : \/ change[r].st = "sent"
                                             \/ change[r].op.then = "prepend")
  /\ UNCHANGED <<page, row, fetcher, items, cursor, more, loading, error, change,
                 undo, dropped, misplaced, aside>>

FailFetch ==
  /\ fetch.st = "sent"
  /\ fetch' = [fetch EXCEPT !.st = "failed"]
  /\ UNCHANGED <<page, row, fetcher, items, cursor, more, loading, error, change,
                 undo, listCauses>>

ReceivePage ==
  /\ fetch.st = "answered"
  /\ items' = IF fetch.replace THEN fetch.page ELSE items \o fetch.page
  /\ cursor' = fetch.next
  /\ more' = (fetch.next # NoRow)
  /\ loading' = FALSE
  /\ error' = FALSE
  /\ fetch' = NoFetch
  /\ UNCHANGED <<page, row, fetcher, change, undo, listCauses>>

\* Mutant: the catch branch leaves isLoading and isFetchingMore as they are.
ReceiveFailureStillLoading ==
  /\ fetch.st = "failed"
  /\ error' = TRUE
  /\ fetch' = NoFetch
  /\ UNCHANGED <<page, row, fetcher, items, cursor, more, loading, change, undo, listCauses>>

ReceiveFailure ==
  /\ fetch.st = "failed"
  /\ loading' = FALSE
  /\ error' = TRUE
  /\ fetch' = NoFetch
  /\ UNCHANGED <<page, row, fetcher, items, cursor, more, change, undo, listCauses>>

----------------------------------------------------------------------------
(* The pages' handlers. *)

Without(r) == Picked(items, {i \in 1..Len(items) : items[i].id # r})
Updated(r, stage) ==
  [i \in 1..Len(items) |-> IF items[i].id = r THEN [items[i] EXCEPT !.st = stage]
                                              ELSE items[i]]

\* Mutant: a deleted row is updated, not removed.
EditKeeps(what, r, stage) ==
  items' = CASE what \in {"remove", "update"} -> Updated(r, stage)
             [] what = "prepend" -> <<[id |-> r, st |-> stage]>> \o items
             [] OTHER            -> items

\* What happens to the list before a call, or after it.
Edit(what, r, stage) ==
  items' = CASE what = "remove"  -> Without(r)
             [] what = "update"  -> Updated(r, stage)
             [] what = "prepend" -> <<[id |-> r, st |-> stage]>> \o items
             [] OTHER            -> items

\* The control is on a row shown, on the undo banner, or on the page: a new row gets the
\* next key.
Offered(op, r) ==
  IF op.name = "undo" THEN undo = r
  ELSE IF op.then = "prepend"
    THEN row[r] = "absent" /\ \A s \in ListRows : s < r => row[s] # "absent"
  ELSE r \in Shown

Begin(op, r) ==
  /\ Offered(op, r)
  /\ change[r].st = "none"
  /\ Cardinality(Busy) < MaxCalls
  /\ op.modal => \A s \in Busy : ~change[s].op.modal
  /\ change' = [change EXCEPT ![r] = [op |-> op, st |-> "sent"]]
  /\ Edit(op.first, r, "open")
  /\ undo' = IF op.first = "remove" \/ op.name = "undo" THEN NoRow ELSE undo
  /\ crossed' = (crossed \/ fetch.st = "answered")
  /\ UNCHANGED <<page, row, fetcher, cursor, more, loading, error, fetch, dropped,
                 misplaced, aside>>

\* The server refuses, or the row takes its new stage, if it was not deleted meanwhile.
Carry(r) ==
  LET op == change[r].op IN
  /\ change[r].st = "sent"
  /\ \/ /\ change' = [change EXCEPT ![r].st = "refused"]
        /\ UNCHANGED row
     \/ /\ row[r] # "gone"
        /\ change' = [change EXCEPT ![r].st = "done"]
        /\ row' = IF op.to = "same" THEN row ELSE [row EXCEPT ![r] = op.to]
  /\ UNCHANGED <<page, hookVars, undo, listCauses>>

Finish(r) == change' = [change EXCEPT ![r] = NoChange]

\* A success that reloads the list, and one that edits the rows shown.
SucceedReload(r) ==
  /\ change[r].st = "done"
  /\ change[r].op.then = "reload"
  /\ Finish(r)
  /\ Restart(fetcher)
  /\ UNCHANGED <<page, row, items, undo>>

Succeed(r) ==
  LET op == change[r].op IN
  /\ change[r].st = "done"
  /\ op.then # "reload"
  /\ Finish(r)
  /\ Edit(op.then, r, IF op.to = "same" THEN row[r] ELSE op.to)
  /\ undo' = IF op.name = "decide" /\ (\E o \in page.ops : o.name = "undo") THEN r ELSE undo
  /\ misplaced' = (misplaced \/ (op.then = "prepend" /\ fetcher # Newest))
  /\ aside' = IF op.to = "same" /\ op.then = "remove" THEN aside \cup {r} ELSE aside
  /\ UNCHANGED <<page, row, fetcher, cursor, more, loading, error, fetch, dropped, crossed>>

\* Mutant: a refused decision is reported and the list left as it is.
FailQuietly(r) ==
  /\ change[r].st = "refused"
  /\ Finish(r)
  /\ UNCHANGED <<page, row, hookVars, undo, listCauses>>

Fail(r) ==
  /\ change[r].st = "refused"
  /\ Finish(r)
  /\ IF change[r].op.fails = "reload"
       THEN Restart(fetcher)
       ELSE UNCHANGED <<fetcher, cursor, more, loading, error, fetch, listCauses>>
  /\ UNCHANGED <<page, row, items, undo>>

\* The banner's five seconds are over.
UndoExpires ==
  /\ undo # NoRow
  /\ undo' = NoRow
  /\ UNCHANGED <<page, row, hookVars, change, listCauses>>

ListNext ==
  \/ \E f \in page.fetchers \ {fetcher} : ChangeFetcher(f)
  \/ Retry \/ LoadMore \/ ServeFetch \/ FailFetch \/ ReceivePage \/ ReceiveFailure
  \/ \E r \in ListRows :
       \/ \E op \in page.ops : Begin(op, r)
       \/ Carry(r) \/ SucceedReload(r) \/ Succeed(r) \/ Fail(r)
  \/ UndoExpires

ListSpec == ListInit /\ [][ListNext]_listVars

----------------------------------------------------------------------------
(* Properties. *)

\* The skeleton and the spinner of "loading more" never outlive the fetch they
\* stand for, dropped fetches included.
LoadingHasFetch == loading => fetch.st # "none"

\* React keys are unique: no row is shown twice, unless a fetch was dropped
\* (its cursor belongs to another sort), crossed the creation of a row, or the
\* new row was put at the head of a list that is not sorted newest first.
RowsOnce ==
  ~(dropped \/ crossed \/ misplaced \/ fetch.replace \/ error) =>
    \A i, j \in 1..Len(items) : items[i].id = items[j].id => i = j

\* A list at rest shows rows as the server has them, and once all pages are
\* loaded every row its filter asks for: decisions that were refused are back,
\* undone ones too.  Not so when the first page was dropped because another
\* fetch was in flight, or rows were read and changed at the same time; the
\* next fetch of the first page heals both.
ListTruthful ==
  Quiet /\ ~error /\ ~dropped /\ ~crossed =>
    /\ \A i \in 1..Len(items) : items[i].id \notin aside =>
         items[i].st = row[items[i].id]
    /\ ~more => \A r \in ListRows \ aside : Wants(fetcher, row[r]) => r \in Shown

----------------------------------------------------------------------------
(* Why they hold: an inductive invariant. *)

\* Rows get their keys in order, and the rows a page knows of were there: the one being
\* created is the last, and no other is being created.
RowsThere ==
  /\ \A r, s \in ListRows : row[r] = "absent" /\ r < s => row[s] = "absent"
  /\ \A i \in 1..Len(items) : row[items[i].id] # "absent"
  /\ \A i \in 1..Len(fetch.page) : row[fetch.page[i].id] # "absent"
  /\ \A r \in {cursor, fetch.next, fetch.cur, undo} \cup aside :
       r # NoRow => row[r] # "absent"
  /\ \A r \in Busy :
       IF change[r].op.then = "prepend"
         THEN /\ \A s \in ListRows : r < s => row[s] = "absent"
              /\ \A s \in ListRows : s < r => row[s] # "absent"
              /\ \A s \in Busy : change[s].op.then = "prepend" => s = r
         ELSE row[r] # "absent"

\* What is under way is of the page, and a call carried out has left its mark.
ChangesAgree ==
  /\ fetcher \in page.fetchers
  /\ \A r \in ListRows \ Busy : change[r] = NoChange
  /\ \A r \in Busy :
       /\ change[r].op \in page.ops
       /\ change[r].st = "done" /\ change[r].op.to # "same" => row[r] = change[r].op.to

\* Unless the first page was dropped, the fetch is the one the page waits for, and a list
\* that has no cursor and wants more waits for its first page or shows an error.
FetchFollows ==
  /\ LoadingHasFetch
  /\ fetch.st = "none" => ~fetch.replace
  /\ ~more => cursor = NoRow
  /\ ~dropped /\ fetch.st # "none" =>
       /\ fetch.f = fetcher /\ fetch.cur = cursor /\ more
       /\ fetch.replace <=> cursor = NoRow
  /\ ~dropped /\ fetch.st = "none" /\ more /\ cursor = NoRow => error

\* A page that no change crossed is what the server holds past the cursor, up to the next.
PageAnswers ==
  fetch.st = "answered" /\ ~crossed =>
    LET p == fetch.page IN
    /\ \A r \in Busy : change[r].st # "sent" /\ change[r].op.then # "prepend"
    /\ fetch.next # NoRow => Past(fetch.f, fetch.next, fetch.cur)
    /\ \A i \in 1..Len(p) :
         /\ p[i].st = row[p[i].id] /\ Wants(fetch.f, p[i].st)
         /\ Past(fetch.f, p[i].id, fetch.cur)
         /\ fetch.next # NoRow => ~Past(fetch.f, p[i].id, fetch.next)
         /\ \A j \in 1..Len(p) : p[i].id = p[j].id => i = j
    /\ \A r \in ListRows :
         /\ Wants(fetch.f, row[r]) /\ Past(fetch.f, r, fetch.cur)
         /\ fetch.next # NoRow => ~Past(fetch.f, r, fetch.next)
         => \E i \in 1..Len(p) : p[i].id = r

\* The first page is there, and nothing has made it doubtful.
Landed == ~(dropped \/ crossed \/ fetch.replace) /\ (more => cursor # NoRow)

\* The changes whose end will take the row away, bring it, or fetch the list again.
Leaving(c) ==
  /\ c.st # "none"
  /\ c.op.first = "remove" \/ (c.st = "done" /\ c.op.then \in {"reload", "prepend"})

\* A list that has landed shows the server's rows up to its cursor, but for the rows whose
\* change is under way; a row on its way off or onto the list is not shown.
RowAgrees(r) ==
  LET c == change[r] IN
  /\ r \notin aside /\ ~(c.st = "done" /\ c.op.to # "same") =>
       \A i \in 1..Len(items) : items[i].id = r => items[i].st = row[r]
  /\ r \notin aside /\ ~Leaving(c) =>
       (Wants(fetcher, row[r]) /\ ~(more /\ Past(fetcher, r, cursor)) => r \in Shown)
  /\ (c.op.first = "remove" /\ c.st \in {"sent", "done"}) \/ c.op.then = "prepend" =>
       r \notin Shown
  /\ c.st = "sent" /\ c.op.then = "update" /\ r \notin aside => row[r] \in {"open", "done"}

RowsAgree == Landed => \A r \in ListRows : RowAgrees(r)

\* It shows none of them twice, and none that a next page will bring.
RowsApart ==
  Landed /\ ~misplaced =>
    /\ \A i, j \in 1..Len(items) : items[i].id = items[j].id => i = j
    /\ more => \A i \in 1..Len(items) : ~Past(fetcher, items[i].id, cursor)

ListIInv ==
  /\ ListTypeOK /\ RowsThere /\ ChangesAgree /\ FetchFollows
  /\ PageAnswers /\ RowsAgree /\ RowsApart
=============================================================================
