------------------------------ MODULE ListsProofs ------------------------------
(***************************************************************************)
(* Proofs about the lists, the deck and the board, for any number of rows, *)
(* page size, applications, columns and requests: a list shows no row      *)
(* twice and, at rest, what the server holds; the deck's verdicts are the  *)
(* server's; the board has every card once, in the server's column.  They  *)
(* rest on what filtering a list by positions (module Picking) does to it. *)
(***************************************************************************)
EXTENDS InfiniteList, Triage, Kanban, FiniteSetTheorems, SequenceTheorems, TLAPS

----------------------------------------------------------------------------
(* Filtered lists. *)

\* An interval from one has as many numbers as its end says.
LEMMA UpTo ==
  ASSUME NEW n \in Nat
  PROVE  IsFiniteSet(1..n) /\ Cardinality(1..n) = n
<1>1. IsFiniteSet(1..n) /\ Cardinality(1..n) = IF 1 > n THEN 0 ELSE n-1+1
  BY FS_Interval
<1> QED
  BY <1>1

\* How many of S are less than an element tells the elements of S apart.
LEMMA RankGrows ==
  ASSUME NEW S \in SUBSET Nat, IsFiniteSet(S), NEW i \in S, NEW k \in S, i < k
  PROVE  /\ Cardinality({h \in S : h < i}) \in 0..Cardinality(S) - 1
         /\ Cardinality({h \in S : h < i}) < Cardinality({h \in S : h < k})
<1> DEFINE A == {h \in S : h < i}
           B == {h \in S : h < k}
<1>0. \A x \in S : x \in Nat
  OBVIOUS
<1>1. A \subseteq B /\ i \in B /\ i \notin A /\ B \subseteq S /\ A \subseteq S
  <2>1. i \in Nat /\ k \in Nat
    BY <1>0
  <2>2. A \subseteq B
    <3> SUFFICES ASSUME NEW h \in S, h < i PROVE h < k
      OBVIOUS
    <3>1. h \in Nat
      BY <1>0
    <3> QED
      BY <2>1, <3>1
  <2> QED
    BY <2>1, <2>2
<1>2. IsFiniteSet(B) /\ IsFiniteSet(A) /\ Cardinality(A) <= Cardinality(B)
  BY <1>1, FS_Subset
<1>3. Cardinality(B) # Cardinality(A)
  BY <1>1, <1>2, FS_Subset
<1>4. Cardinality(A) \in Nat /\ Cardinality(B) \in Nat /\ Cardinality(S) \in Nat
  BY <1>2, FS_CardinalityType
<1>5. Cardinality(B) <= Cardinality(S)
  BY <1>1, FS_Subset
<1> HIDE DEF A, B
<1>6. Cardinality(A) \in 0..Cardinality(S) - 1 /\ Cardinality(A) < Cardinality(B)
  BY <1>2, <1>3, <1>4, <1>5
<1> QED
  BY <1>6 DEF A, B

\* An element has a rank within the set.
LEMMA RankWithin ==
  ASSUME NEW S \in SUBSET Nat, IsFiniteSet(S), NEW i \in S
  PROVE  Cardinality({h \in S : h < i}) \in 0..Cardinality(S) - 1
<1> DEFINE A == {h \in S : h < i}
<1>1. A \subseteq S /\ i \notin A
  <2>1. i \in Nat
    OBVIOUS
  <2> QED
    BY <2>1
<1>2. /\ Cardinality(A) <= Cardinality(S) /\ Cardinality(S) # Cardinality(A)
      /\ IsFiniteSet(A)
  BY <1>1, FS_Subset
<1>3. Cardinality(A) \in Nat /\ Cardinality(S) \in Nat
  BY <1>2, FS_CardinalityType
<1> HIDE DEF A
<1>4. Cardinality(A) \in 0..Cardinality(S) - 1
  BY <1>2, <1>3
<1> QED
  BY <1>4 DEF A

\* The n-th of a set is of the set, and n - 1 of the set are less.
LEMMA NthIs ==
  ASSUME NEW S \in SUBSET Nat, IsFiniteSet(S), NEW n \in 1..Cardinality(S)
  PROVE  Nth(S, n) \in S /\ Cardinality({h \in S : h < Nth(S, n)}) = n - 1
<1> DEFINE rank == [i \in S |-> Cardinality({h \in S : h < i}) + 1]
           T == 1..Cardinality(S)
<1>1. Cardinality(S) \in Nat
  BY FS_CardinalityType
<1>2. IsFiniteSet(T) /\ Cardinality(T) = Cardinality(S)
  BY <1>1, UpTo
<1>3. rank \in [S -> T]
  <2> SUFFICES ASSUME NEW i \in S PROVE Cardinality({h \in S : h < i}) + 1 \in T
    OBVIOUS
  <2> QED
    BY <1>1, RankWithin
<1>4. ASSUME NEW i \in S, NEW k \in S, rank[i] = rank[k]
      PROVE  i = k
  <2>1. /\ Cardinality({h \in S : h < i}) \in Nat /\ Cardinality({h \in S : h < k}) \in Nat
        /\ Cardinality({h \in S : h < i}) = Cardinality({h \in S : h < k})
    <3>1. Cardinality({h \in S : h < i}) \in Nat /\ Cardinality({h \in S : h < k}) \in Nat
      BY <1>1, RankWithin
    <3> QED
      BY <1>4, <3>1
  <2>2. ~(i < k) /\ ~(k < i)
    BY <2>1, RankGrows
  <2> QED
    BY <2>2
<1>5. rank \in Injection(S, T)
  BY <1>3, <1>4 DEF Injection, IsInjective
<1>6. rank \in Surjection(S, T)
  BY <1>2, <1>5, FS_Injection
<1>7. PICK i \in S : rank[i] = n
  BY <1>6 DEF Surjection
<1>8. Cardinality({h \in S : h < i}) = n - 1
  <2>1. Cardinality({h \in S : h < i}) \in Nat
    BY <1>1, RankWithin
  <2> QED
    BY <1>7, <2>1
<1> QED
  BY <1>8 DEF Nth

\* Each element of the set is the n-th, for one n.
LEMMA NthOf ==
  ASSUME NEW S \in SUBSET Nat, IsFiniteSet(S), NEW i \in S
  PROVE  \E n \in 1..Cardinality(S) : Nth(S, n) = i
<1> DEFINE r == Cardinality({h \in S : h < i})
           n == r + 1
<1>1. Cardinality(S) \in Nat /\ r \in 0..Cardinality(S) - 1
  BY FS_CardinalityType, RankWithin
<1> HIDE DEF r
<1>2. n \in 1..Cardinality(S) /\ n - 1 = r
  BY <1>1
<1>3. Nth(S, n) \in S /\ Cardinality({h \in S : h < Nth(S, n)}) = r
  BY <1>2, NthIs
<1>4. ~(Nth(S, n) < i) /\ ~(i < Nth(S, n))
  <2>0. r \in Nat /\ ~(r < r)
    BY <1>1
  <2>1. ASSUME Nth(S, n) < i PROVE FALSE
    <3>1. Cardinality({h \in S : h < Nth(S, n)}) < r
      BY <1>3, <2>1, RankGrows DEF r
    <3> QED
      BY <1>3, <2>0, <3>1
  <2>2. ASSUME i < Nth(S, n) PROVE FALSE
    <3>1. r < Cardinality({h \in S : h < Nth(S, n)})
      BY <1>3, <2>2, RankGrows DEF r
    <3> QED
      BY <1>3, <2>0, <3>1
  <2> QED
    BY <2>1, <2>2
<1>5. Nth(S, n) = i
  <2>1. Nth(S, n) \in Nat /\ i \in Nat
    BY <1>3
  <2> QED
    BY <1>4, <2>1
<1> QED
  BY <1>2, <1>5

\* They come in their order.
LEMMA NthGrows ==
  ASSUME NEW S \in SUBSET Nat, IsFiniteSet(S),
         NEW m \in 1..Cardinality(S), NEW n \in 1..Cardinality(S), m < n
  PROVE  Nth(S, m) < Nth(S, n)
<1>0. Cardinality(S) \in Nat
  BY FS_CardinalityType
<1>1. /\ Nth(S, m) \in S /\ Cardinality({h \in S : h < Nth(S, m)}) = m - 1
      /\ Nth(S, n) \in S /\ Cardinality({h \in S : h < Nth(S, n)}) = n - 1
  BY NthIs
<1>2. Nth(S, m) # Nth(S, n)
  BY <1>0, <1>1
<1>3. ~(Nth(S, n) < Nth(S, m))
  <2> SUFFICES ASSUME Nth(S, n) < Nth(S, m) PROVE FALSE
    OBVIOUS
  <2>1. n - 1 < m - 1
    BY <1>1, RankGrows
  <2> QED
    BY <1>0, <2>1
<1>4. Nth(S, m) \in Nat /\ Nth(S, n) \in Nat
  BY <1>1
<1> QED
  BY <1>2, <1>3, <1>4

\* The n-th position of a list is n.
LEMMA NthOfAll ==
  ASSUME NEW len \in Nat, NEW n \in 1..len
  PROVE  Nth(1..len, n) = n
<1>1. IsFiniteSet(1..len) /\ Cardinality(1..len) = len /\ 1..len \in SUBSET Nat
  BY UpTo
<1>2. /\ Nth(1..len, n) \in 1..len
      /\ Cardinality({h \in 1..len : h < Nth(1..len, n)}) = n - 1
  BY <1>1, NthIs
<1>3. {h \in 1..len : h < Nth(1..len, n)} = 1..Nth(1..len, n) - 1
  BY <1>2
<1>4. Cardinality(1..Nth(1..len, n) - 1) = Nth(1..len, n) - 1
  BY <1>2, UpTo
<1>5. Nth(1..len, n) - 1 = n - 1
  BY <1>2, <1>3, <1>4
<1> QED
  BY <1>2, <1>5

\* What a filter keeps is a list of what the list had, at the positions kept, in order.
LEMMA PickedIs ==
  ASSUME NEW T, NEW s \in Seq(T), NEW S \in SUBSET 1..Len(s)
  PROVE  /\ Picked(s, S) \in Seq(T) /\ Len(Picked(s, S)) = Cardinality(S)
         /\ Cardinality(S) \in Nat /\ Cardinality(S) <= Len(s) /\ IsFiniteSet(S)
         /\ DOMAIN Picked(s, S) = 1..Cardinality(S)
         /\ \A n \in 1..Cardinality(S) : Nth(S, n) \in S /\ Picked(s, S)[n] = s[Nth(S, n)]
         /\ \A i \in S : \E n \in 1..Cardinality(S) : Nth(S, n) = i /\ Picked(s, S)[n] = s[i]
         /\ \A m, n \in 1..Cardinality(S) : m # n => Nth(S, m) # Nth(S, n)
<1>0. Len(s) \in Nat /\ s \in [1..Len(s) -> T]
  BY LenProperties
<1>1. /\ IsFiniteSet(1..Len(s)) /\ Cardinality(1..Len(s)) = Len(s)
  BY <1>0, UpTo
<1>2. IsFiniteSet(S) /\ Cardinality(S) <= Len(s)
  BY <1>1, FS_Subset
<1>3. Cardinality(S) \in Nat /\ S \in SUBSET Nat
  BY <1>2, FS_CardinalityType
<1>4. \A n \in 1..Cardinality(S) : Nth(S, n) \in S
  BY <1>2, <1>3, NthIs
<1>5. \A i \in S : \E n \in 1..Cardinality(S) : Nth(S, n) = i
  BY <1>2, <1>3, NthOf
<1>6. Picked(s, S) \in [1..Cardinality(S) -> T]
  BY <1>0, <1>4 DEF Picked
<1>7. Picked(s, S) \in Seq(T) /\ Len(Picked(s, S)) = Cardinality(S)
  BY <1>3, <1>6
<1>8. \A m, n \in 1..Cardinality(S) : m # n => Nth(S, m) # Nth(S, n)
  <2> SUFFICES ASSUME NEW m \in 1..Cardinality(S), NEW n \in 1..Cardinality(S), m # n
               PROVE  Nth(S, m) # Nth(S, n)
    OBVIOUS
  <2>0. Nth(S, m) \in Nat /\ Nth(S, n) \in Nat
    BY <1>3, <1>4
  <2>1. CASE m < n
    BY <2>0, <2>1, <1>2, <1>3, NthGrows
  <2>2. CASE n < m
    BY <2>0, <2>2, <1>2, <1>3, NthGrows
  <2> QED
    BY <2>1, <2>2, <1>3
<1>9. \A n \in 1..Cardinality(S) : Picked(s, S)[n] = s[Nth(S, n)]
  BY DEF Picked
<1>10. DOMAIN Picked(s, S) = 1..Cardinality(S)
  BY <1>6
<1> QED
  BY <1>2, <1>3, <1>4, <1>5, <1>7, <1>8, <1>9, <1>10

\* A filter that keeps everything changes nothing, and one that keeps nothing leaves nothing.
LEMMA PickedAll ==
  ASSUME NEW T, NEW s \in Seq(T)
  PROVE  Picked(s, 1..Len(s)) = s /\ Picked(s, {}) = <<>>
<1>0. Len(s) \in Nat
  BY LenProperties
<1>1. Cardinality(1..Len(s)) = Len(s)
  BY <1>0, UpTo
<1>2. Picked(s, 1..Len(s)) = s
  <2>1. /\ Picked(s, 1..Len(s)) \in Seq(T) /\ Len(Picked(s, 1..Len(s))) = Len(s)
        /\ \A n \in 1..Len(s) : Picked(s, 1..Len(s))[n] = s[Nth(1..Len(s), n)]
    BY <1>1, PickedIs
  <2> QED
    BY <1>0, <2>1, NthOfAll, SeqEqual
<1>3. Picked(s, {}) \in Seq(T) /\ Len(Picked(s, {})) = 0
  BY PickedIs, FS_EmptySet
<1> QED
  BY <1>2, <1>3, EmptySeq

----------------------------------------------------------------------------
(* The lists. *)

\* What the pages' handlers have in common.
OpFacts(op) ==
  /\ op.first \in {"none", "remove"}
  /\ op.then \in {"none", "remove", "update", "prepend", "reload"}
  /\ op.to \in {"same", "open", "done", "gone"}
  /\ op.fails \in {"none", "reload"} /\ op.modal \in BOOLEAN
  /\ op.fails = "reload" <=> op.first = "remove"
  /\ op.first = "remove" => op.to = "done" /\ op.then = "none"
  /\ op.then = "update" => op.to = "done"
  /\ op.then = "remove" => op.to \in {"same", "gone"}
  /\ op.then = "none" => op.to = "same" \/ op.first = "remove"
  /\ op.then = "prepend" => op.to = "open" /\ op.modal
  /\ op.then = "reload" => op.to = "open"
  /\ op.name = "undo" => op.then = "reload"

\* A page shows what its fetchers ask for; one whose decisions take their row away at once
\* shows nothing but open rows.
PageFacts(p) ==
  /\ p.first \in p.fetchers
  /\ \A f \in p.fetchers : f.want \in {"all", "open"} /\ f.asc \in BOOLEAN
  /\ \A op \in p.ops :
       /\ OpFacts(op)
       /\ op.first = "remove" => \A f \in p.fetchers : f.want = "open"

LEMMA OpsAre ==
  /\ OpFacts(Hurried("decide"))
  /\ \A m \in BOOLEAN : /\ OpFacts(Removing("delete", m)) /\ OpFacts(Removing("reject", m))
                        /\ OpFacts(Showing("decide", m)) /\ OpFacts(Showing("revoke", m))
                        /\ OpFacts(Showing("status", m))
                        /\ OpFacts(Op("approve", "same", "none", "remove", "none", m))
                        /\ OpFacts(Op("approve", "same", "none", "none", "none", m))
                        /\ OpFacts(Op("resend", "open", "none", "reload", "none", m))
                        /\ OpFacts(Op("undo", "open", "none", "reload", "none", m))
  /\ OpFacts(Creating("create"))
<1>1. OpFacts(Hurried("decide"))
  BY DEF OpFacts, Op, Hurried
<1>2. OpFacts(Creating("create"))
  BY DEF OpFacts, Op, Creating
<1>3. ASSUME NEW m \in BOOLEAN
      PROVE  /\ OpFacts(Removing("delete", m)) /\ OpFacts(Removing("reject", m))
             /\ OpFacts(Showing("decide", m)) /\ OpFacts(Showing("revoke", m))
             /\ OpFacts(Showing("status", m))
  BY DEF OpFacts, Op, Removing, Showing
<1>4. ASSUME NEW m \in BOOLEAN
      PROVE  /\ OpFacts(Op("approve", "same", "none", "remove", "none", m))
             /\ OpFacts(Op("approve", "same", "none", "none", "none", m))
             /\ OpFacts(Op("resend", "open", "none", "reload", "none", m))
             /\ OpFacts(Op("undo", "open", "none", "reload", "none", m))
  BY DEF OpFacts, Op
<1> QED
  BY <1>1, <1>2, <1>3, <1>4

LEMMA LatePage ==
  ASSUME NEW fs, NEW f \in fs, NEW ops,
         \A g \in fs : g.want \in {"all", "open"} /\ g.asc \in BOOLEAN,
         \A op \in ops : OpFacts(op) /\ op.first = "none"
  PROVE  PageFacts(Page(f, fs, ops))
BY DEF Page, PageFacts

LEMMA HurriedPage ==
  ASSUME NEW f, NEW ops, f.want = "open", f.asc \in BOOLEAN, \A op \in ops : OpFacts(op)
  PROVE  PageFacts(Page(f, {f}, ops))
BY DEF Page, PageFacts

LEMMA FetchersAre ==
  \A w \in {"all", "open"}, a \in BOOLEAN : /\ Fetcher(w, a).want = w /\ Fetcher(w, a).asc = a
BY DEF Fetcher

LEMMA LateOps ==
  /\ \A m \in BOOLEAN : /\ Removing("delete", m).first = "none"
                        /\ Removing("reject", m).first = "none"
                        /\ Showing("decide", m).first = "none"
                        /\ Showing("revoke", m).first = "none"
                        /\ Showing("status", m).first = "none"
                        /\ Op("approve", "same", "none", "none", "none", m).first = "none"
                        /\ Op("resend", "open", "none", "reload", "none", m).first = "none"
  /\ Creating("create").first = "none"
BY DEF Removing, Showing, Creating, Op

LEMMA PagesAre == \A p \in ListPages : PageFacts(p)
<1>1. PageFacts(ApplicationsQueue) /\ PageFacts(JobsQueue) /\ PageFacts(CompaniesQueue)
  BY HurriedPage, OpsAre, FetchersAre DEF ApplicationsQueue, JobsQueue, CompaniesQueue
<1>2. PageFacts(AdminJobs)
  BY LatePage, OpsAre, FetchersAre, LateOps DEF AdminJobs, Newest
<1>3. PageFacts(AdminApplications)
  BY LatePage, OpsAre, FetchersAre, LateOps DEF AdminApplications, Newest
<1>4. PageFacts(AdminCandidates) /\ PageFacts(CompanyActive)
  BY LatePage, OpsAre, FetchersAre, LateOps DEF AdminCandidates, CompanyActive, Newest
<1>5. PageFacts(CompanyPending)
  BY LatePage, OpsAre, FetchersAre, LateOps DEF CompanyPending
<1>6. PageFacts(CompanyInvites)
  BY LatePage, OpsAre, FetchersAre, LateOps DEF CompanyInvites, Newest
<1>7. PageFacts(CompanyJobs) /\ PageFacts(JobBoard)
  BY LatePage, OpsAre, FetchersAre, LateOps DEF CompanyJobs, JobBoard, Newest
<1> QED
  BY <1>1, <1>2, <1>3, <1>4, <1>5, <1>6, <1>7 DEF ListPages

\* A page's fetchers and handlers are among those of all pages.
LEMMA PagesHave ==
  /\ \A p \in ListPages : p.fetchers \subseteq AllFetchers /\ p.ops \subseteq AllOps
  /\ \A f \in AllFetchers : f.want \in {"all", "open"} /\ f.asc \in BOOLEAN
  /\ \A op \in AllOps \cup {NoOp} : OpFacts(op)
  /\ Newest \in AllFetchers
<1>1. \A p \in ListPages : p.fetchers \subseteq AllFetchers /\ p.ops \subseteq AllOps
  BY DEF AllFetchers, AllOps
<1>2. \A f \in AllFetchers : f.want \in {"all", "open"} /\ f.asc \in BOOLEAN
  BY PagesAre DEF AllFetchers, PageFacts
<1>3. \A op \in AllOps : OpFacts(op)
  BY PagesAre DEF AllOps, PageFacts
<1>4. OpFacts(NoOp)
  BY DEF OpFacts, NoOp, Op
<1>5. CompanyJobs \in ListPages /\ CompanyJobs.fetchers = {Newest}
  BY DEF ListPages, CompanyJobs, Page
<1> QED
  BY <1>1, <1>2, <1>3, <1>4, <1>5
----------------------------------------------------------------------------
(* What the handlers do to the list. *)

\* The kinds of a fetch and of a change.
Fetches == [st : {"none", "sent", "answered", "failed"}, f : AllFetchers, cur : 0..LastRow,
            replace : BOOLEAN, page : Seq(Items), next : 0..LastRow]
Changes == [op : AllOps \cup {NoOp}, st : {"none", "sent", "done", "refused"}]

LEMMA ListIs ==
  ASSUME NEW s \in Seq(Items)
  PROVE  /\ Len(s) \in Nat
         /\ \A i \in 1..Len(s) : /\ s[i] \in Items /\ s[i].id \in ListRows
                                 /\ s[i].st \in {"open", "done"}
<1>1. Len(s) \in Nat /\ \A i \in 1..Len(s) : s[i] \in Items
  BY ElementOfSeq, LenProperties
<1>2. \A x \in Items : x.id \in ListRows /\ x.st \in {"open", "done"}
  BY DEF Items
<1> QED
  BY <1>1, <1>2

\* A row taken off the list: the others stay, and none appears twice that did not.
TakenOff(s, w, r) ==
  /\ w \in Seq(Items) /\ Len(w) \in Nat
  /\ \A n \in 1..Len(w) : \E i \in 1..Len(s) : w[n] = s[i] /\ s[i].id # r
  /\ \A i \in 1..Len(s) : s[i].id # r => \E n \in 1..Len(w) : w[n] = s[i]
  /\ (\A i, j \in 1..Len(s) : s[i].id = s[j].id => i = j) =>
       \A m, n \in 1..Len(w) : w[m].id = w[n].id => m = n

LEMMA RemoveIs ==
  ASSUME items \in Seq(Items), NEW r
  PROVE  TakenOff(items, Without(r), r)
<1> DEFINE S == {i \in 1..Len(items) : items[i].id # r}
           w == Without(r)
<1>1. w = Picked(items, S)
  BY DEF Without
<1>2. S \in SUBSET 1..Len(items) /\ \A i \in 1..Len(items) : i \in S <=> items[i].id # r
  OBVIOUS
<1> HIDE DEF S, w
<1>3. /\ w \in Seq(Items) /\ Len(w) = Cardinality(S)
      /\ \A n \in 1..Cardinality(S) : Nth(S, n) \in S /\ w[n] = items[Nth(S, n)]
      /\ \A i \in S : \E n \in 1..Cardinality(S) : Nth(S, n) = i /\ w[n] = items[i]
      /\ \A m, n \in 1..Cardinality(S) : m # n => Nth(S, m) # Nth(S, n)
  BY <1>1, <1>2, PickedIs
<1>4. \A n \in 1..Len(w) : \E i \in 1..Len(items) : w[n] = items[i] /\ items[i].id # r
  BY <1>2, <1>3
<1>5. \A i \in 1..Len(items) : items[i].id # r => \E n \in 1..Len(w) : w[n] = items[i]
  BY <1>2, <1>3
<1>6. ASSUME \A i, j \in 1..Len(items) : items[i].id = items[j].id => i = j,
             NEW m \in 1..Len(w), NEW n \in 1..Len(w), w[m].id = w[n].id
      PROVE  m = n
  <2> SUFFICES ASSUME m # n PROVE FALSE
    OBVIOUS
  <2>1. Nth(S, m) \in 1..Len(items) /\ Nth(S, n) \in 1..Len(items) /\ Nth(S, m) # Nth(S, n)
    BY <1>2, <1>3
  <2>2. w[m] = items[Nth(S, m)] /\ w[n] = items[Nth(S, n)]
    BY <1>3
  <2> QED
    BY <1>6, <2>1, <2>2
<1>7. Len(w) \in Nat
  BY <1>3, LenProperties
<1> QED
  BY <1>3, <1>4, <1>5, <1>6, <1>7 DEF TakenOff, w

\* A row shown in its new phase, the others as they were.
LEMMA UpdateIs ==
  ASSUME items \in Seq(Items), NEW r, NEW phase \in {"open", "done"}
  PROVE  LET u == Updated(r, phase) IN
         /\ u \in Seq(Items) /\ Len(u) = Len(items)
         /\ \A i \in 1..Len(items) :
              /\ u[i].id = items[i].id
              /\ u[i].st = IF items[i].id = r THEN phase ELSE items[i].st
<1> DEFINE u == Updated(r, phase)
<1>1. Len(items) \in Nat /\ \A i \in 1..Len(items) : items[i] \in Items
  BY ListIs
<1>2. u \in [1..Len(items) -> Items]
  <2> SUFFICES ASSUME NEW i \in 1..Len(items)
               PROVE  (IF items[i].id = r THEN [items[i] EXCEPT !.st = phase] ELSE items[i])
                        \in Items
    BY DEF Updated
  <2> QED
    BY <1>1 DEF Items
<1>3. u \in Seq(Items) /\ Len(u) = Len(items)
  BY <1>1, <1>2
<1>4. ASSUME NEW i \in 1..Len(items)
      PROVE  /\ u[i].id = items[i].id
             /\ u[i].st = IF items[i].id = r THEN phase ELSE items[i].st
  <2>1. u[i] = IF items[i].id = r THEN [items[i] EXCEPT !.st = phase] ELSE items[i]
    BY DEF Updated
  <2> QED
    BY <1>1, <2>1 DEF Items
<1> QED
  BY <1>3, <1>4

\* A row put at the head.
PutAtHead(s, w, r, phase) ==
  /\ w \in Seq(Items) /\ Len(w) = Len(s) + 1
  /\ w[1].id = r /\ w[1].st = phase
  /\ \A i \in 1..Len(s) : w[i + 1] = s[i]

LEMMA PrependIs ==
  ASSUME items \in Seq(Items), NEW r \in ListRows, NEW phase \in {"open", "done"}
  PROVE  PutAtHead(items, <<[id |-> r, st |-> phase]>> \o items, r, phase)
<1> DEFINE x == [id |-> r, st |-> phase]
           p == <<x>> \o items
<1>1. x \in Items /\ x.id = r /\ x.st = phase
  BY DEF Items
<1> HIDE DEF x
<1>2. <<x>> \in Seq(Items) /\ Len(<<x>>) = 1 /\ <<x>>[1] = x /\ Len(items) \in Nat
  BY <1>1
<1>3. /\ p \in Seq(Items) /\ Len(p) = 1 + Len(items)
      /\ \A i \in 1..1 + Len(items) : p[i] = IF i <= 1 THEN <<x>>[i] ELSE items[i - 1]
  BY <1>2, ConcatProperties
<1>4. p[1] = x /\ \A i \in 1..Len(items) : p[i + 1] = items[i]
  BY <1>2, <1>3
<1> QED
  BY <1>1, <1>2, <1>3, <1>4 DEF PutAtHead, x

----------------------------------------------------------------------------
(* What the server answers. *)

\* A page p, and the cursor to the next one, answer a fetch of f past cur.
PageOf(p, next, f, cur) ==
  /\ p \in Seq(Items) /\ next \in 0..LastRow
  /\ \A i \in 1..Len(p) :
       /\ p[i].st = row[p[i].id] /\ Wants(f, p[i].st) /\ Past(f, p[i].id, cur)
       /\ next # NoRow => ~Past(f, p[i].id, next)
       /\ \A j \in 1..Len(p) : p[i].id = p[j].id => i = j
  /\ \A r \in ListRows :
       /\ Wants(f, row[r]) /\ Past(f, r, cur)
       /\ next # NoRow => ~Past(f, r, next)
       => \E i \in 1..Len(p) : p[i].id = r
  /\ next # NoRow => row[next] # "absent" /\ Past(f, next, cur)

\* Rows sorted: each of them once, one after the other.
LEMMA InOrderIs ==
  ASSUME NEW f, f.asc \in BOOLEAN, NEW S \in SUBSET ListRows
  PROVE  LET s == InOrder(f, S) IN
         /\ Len(s) \in Nat /\ s \in Seq(S)
         /\ \A r \in S : \E i \in 1..Len(s) : s[i] = r
         /\ \A i, j \in 1..Len(s) : i < j => Past(f, s[j], s[i]) /\ s[i] # s[j]
<1> DEFINE n == Cardinality(S)
           s == InOrder(f, S)
<1>0. LastRow \in Nat
  BY ListAssumption
<1>1. IsFiniteSet(S) /\ S \in SUBSET Nat
  <2>1. S \in SUBSET (1..LastRow)
    BY DEF ListRows
  <2>2. IsFiniteSet(1..LastRow)
    BY <1>0, UpTo
  <2>3. IsFiniteSet(S)
    BY <2>1, <2>2, FS_Subset
  <2> QED
    BY <2>1, <2>3
<1>2. n \in Nat
  BY <1>1, FS_CardinalityType
<1> HIDE DEF n
<1>3. \A i \in 1..n : Nth(S, i) \in S
  BY <1>1, NthIs DEF n
<1>4. \A r \in S : \E i \in 1..n : Nth(S, i) = r
  BY <1>1, NthOf DEF n
<1>5. \A i, j \in 1..n : i < j => Nth(S, i) < Nth(S, j)
  BY <1>1, NthGrows DEF n
<1>6. s = [i \in 1..n |-> Nth(S, IF f.asc THEN i ELSE n + 1 - i)]
  BY DEF InOrder, n
<1> HIDE DEF s
<1>7. \A i \in 1..n : n + 1 - i \in 1..n
  BY <1>2
<1>8. s \in [1..n -> S]
  BY <1>3, <1>6, <1>7
<1>9. s \in Seq(S) /\ Len(s) = n
  BY <1>2, <1>8
<1>10. ASSUME NEW r \in S PROVE \E i \in 1..n : s[i] = r
  <2>1. PICK k \in 1..n : Nth(S, k) = r
    BY <1>4
  <2>2. CASE f.asc
    BY <1>6, <2>1, <2>2
  <2>3. CASE ~f.asc
    <3>1. n + 1 - k \in 1..n /\ n + 1 - (n + 1 - k) = k
      BY <1>2
    <3>2. s[n + 1 - k] = Nth(S, n + 1 - (n + 1 - k))
      BY <1>6, <2>3, <3>1
    <3> QED
      BY <2>1, <3>1, <3>2
  <2> QED
    BY <2>2, <2>3
<1>11. ASSUME NEW i \in 1..n, NEW j \in 1..n, i < j
       PROVE  Past(f, s[j], s[i]) /\ s[i] # s[j]
  <2>0. s[i] \in Nat /\ s[j] \in Nat
    BY <1>1, <1>8
  <2>1. CASE f.asc
    <3>1. s[i] < s[j]
      BY <1>5, <1>6, <1>11, <2>1
    <3> QED
      BY <2>0, <2>1, <3>1 DEF Past
  <2>2. CASE ~f.asc
    <3>1. n + 1 - j < n + 1 - i /\ n + 1 - j \in 1..n /\ n + 1 - i \in 1..n
      BY <1>2, <1>11
    <3>2. s[j] < s[i]
      BY <1>5, <1>6, <2>2, <3>1
    <3> QED
      BY <2>0, <2>2, <3>2 DEF Past
  <2> QED
    BY <2>1, <2>2
<1> QED
  BY <1>2, <1>9, <1>10, <1>11 DEF s

LEMMA ServeIs ==
  ASSUME ListTypeOK, ServeFetch
  PROVE  \E p, next : /\ PageOf(p, next, fetch.f, fetch.cur)
                      /\ fetch' = [fetch EXCEPT !.st = "answered", !.page = p, !.next = next]
<1> DEFINE f == fetch.f
           cur == fetch.cur
           match == {r \in ListRows : Wants(f, row[r]) /\ Past(f, r, cur)}
           s == InOrder(f, match)
           n == IF Len(s) > PageSize THEN PageSize ELSE Len(s)
           p == [i \in 1..n |-> [id |-> s[i], st |-> row[s[i]]]]
           next == IF Len(s) > PageSize THEN s[n] ELSE NoRow
<1>1. fetch' = [fetch EXCEPT !.st = "answered", !.page = p, !.next = next]
  BY DEF ServeFetch
<1>2. f \in AllFetchers /\ f.want \in {"all", "open"} /\ f.asc \in BOOLEAN
  BY PagesHave DEF ListTypeOK
<1>3. /\ Len(s) \in Nat /\ s \in Seq(match)
      /\ \A r \in match : \E i \in 1..Len(s) : s[i] = r
      /\ \A i, j \in 1..Len(s) : i < j => Past(f, s[j], s[i]) /\ s[i] # s[j]
  <2>1. match \in SUBSET ListRows
    OBVIOUS
  <2> HIDE DEF f, match
  <2> QED
    BY <1>2, <2>1, InOrderIs
<1>4. /\ \A r \in match : /\ r \in ListRows /\ Wants(f, row[r]) /\ Past(f, r, cur)
                          /\ row[r] \in {"open", "done"}
      /\ \A r \in ListRows : Wants(f, row[r]) /\ Past(f, r, cur) => r \in match
  BY <1>2 DEF Wants
<1> HIDE DEF f, cur, match, s
<1>5. \A i \in 1..Len(s) : s[i] \in match
  BY <1>3
<1>6. n \in Nat /\ n <= Len(s) /\ (Len(s) > PageSize => n \in 1..Len(s))
  BY <1>3, ListAssumption
<1>7. Len(s) <= PageSize => n = Len(s)
  BY <1>3, ListAssumption
<1>8. 0 \in 0..LastRow /\ \A r \in ListRows : r \in 0..LastRow /\ r # NoRow /\ r \in Nat
  BY ListAssumption DEF ListRows, NoRow
<1>9. IF Len(s) > PageSize THEN next = s[n] /\ next \in match /\ next # NoRow
                             ELSE next = NoRow
  <2>1. CASE Len(s) > PageSize
    BY <1>4, <1>5, <1>6, <1>8, <2>1
  <2>2. CASE ~(Len(s) > PageSize)
    BY <2>2
  <2> QED
    BY <2>1, <2>2
<1>10. next \in 0..LastRow
  <2> HIDE DEF next
  <2> QED
    BY <1>4, <1>8, <1>9 DEF NoRow
<1>11. \A i \in 1..n : p[i] \in Items /\ p[i].id = s[i] /\ p[i].st = row[s[i]]
  BY <1>4, <1>5, <1>6 DEF Items
<1>12. p \in [1..n -> Items]
  BY <1>11
<1> HIDE DEF p, next, n
<1>13. p \in Seq(Items) /\ Len(p) = n
  BY <1>6, <1>12
<1>14. ASSUME NEW i \in 1..n
       PROVE  /\ p[i].st = row[p[i].id] /\ Wants(f, p[i].st) /\ Past(f, p[i].id, cur)
              /\ next # NoRow => ~Past(f, p[i].id, next)
              /\ \A j \in 1..n : p[i].id = p[j].id => i = j
  <2>0. i \in 1..Len(s)
    BY <1>3, <1>6
  <2>1. i \in 1..Len(s) /\ p[i].id = s[i] /\ p[i].st = row[s[i]] /\ s[i] \in match
    BY <1>5, <1>11, <2>0
  <2>2. \A j \in 1..n : p[i].id = p[j].id => i = j
    <3> SUFFICES ASSUME NEW j \in 1..n, s[i] = s[j] PROVE i = j
      BY <1>11
    <3>1. j \in 1..Len(s)
      BY <1>3, <1>6
    <3>2. ~(i < j) /\ ~(j < i)
      BY <1>3, <2>1, <3>1
    <3> QED
      BY <1>6, <3>2
  <2>3. next # NoRow => ~Past(f, s[i], next)
    <3> SUFFICES ASSUME next # NoRow PROVE ~Past(f, s[i], next)
      OBVIOUS
    <3>1. Len(s) > PageSize /\ next = s[n] /\ n \in 1..Len(s)
      BY <1>3, <1>6, <1>9, ListAssumption
    <3>2. s[i] \in Nat /\ s[n] \in Nat /\ s[n] # NoRow /\ s[i] # NoRow
      BY <1>4, <1>5, <1>8, <2>1, <3>1
    <3>3. CASE i = n
      BY <1>2, <3>1, <3>2, <3>3 DEF Past
    <3>4. CASE i # n
      <4>0. i < n
        BY <1>6, <3>4
      <4>1. Past(f, s[n], s[i])
        BY <1>3, <2>1, <3>1, <4>0
      <4> QED
        BY <1>2, <3>1, <3>2, <4>1 DEF Past
    <3> QED
      BY <3>3, <3>4
  <2> QED
    BY <1>4, <2>1, <2>2, <2>3
<1>15. ASSUME NEW r \in ListRows, Wants(f, row[r]), Past(f, r, cur),
              next # NoRow => ~Past(f, r, next)
       PROVE  \E i \in 1..n : p[i].id = r
  <2>1. PICK i \in 1..Len(s) : s[i] = r
    BY <1>3, <1>4, <1>15
  <2>2. i <= n
    <3> SUFFICES ASSUME i > n PROVE FALSE
      BY <1>3, <1>6
    <3>1. Len(s) > PageSize /\ n \in 1..Len(s)
      BY <1>3, <1>6, <1>7, ListAssumption
    <3>2. Past(f, s[i], s[n])
      BY <1>3, <1>6, <3>1
    <3> QED
      BY <1>9, <1>15, <2>1, <3>1, <3>2
  <2>3. i \in 1..n
    BY <1>3, <1>6, <2>2
  <2> QED
    BY <1>11, <2>1, <2>3
<1>16. next # NoRow => row[next] # "absent" /\ Past(f, next, cur)
  <2>1. next # NoRow => next \in match
    BY <1>9
  <2> QED
    BY <1>4, <2>1
<1>17. PageOf(p, next, f, cur)
  BY <1>10, <1>13, <1>14, <1>15, <1>16 DEF PageOf
<1> QED
  BY <1>1, <1>17 DEF f, cur
----------------------------------------------------------------------------
(* The kinds. *)

\* What the steps rest on: the kinds of the variables and what their parts are.
ListGround ==
  /\ LastRow \in Nat /\ 0 \in 0..LastRow
  /\ \A r \in ListRows : r \in Nat /\ r # NoRow /\ r \in 0..LastRow
  /\ page \in ListPages /\ PageFacts(page)
  /\ row \in [ListRows -> RowStages]
  /\ fetcher \in AllFetchers /\ fetcher.want \in {"all", "open"} /\ fetcher.asc \in BOOLEAN
  /\ items \in Seq(Items) /\ Len(items) \in Nat
  /\ \A i \in 1..Len(items) : items[i].id \in ListRows /\ items[i].st \in {"open", "done"}
  /\ cursor \in 0..LastRow /\ more \in BOOLEAN /\ loading \in BOOLEAN /\ error \in BOOLEAN
  /\ fetch \in Fetches /\ fetch.page \in Seq(Items) /\ Len(fetch.page) \in Nat
  /\ fetch.f.want \in {"all", "open"} /\ fetch.f.asc \in BOOLEAN /\ fetch.next \in 0..LastRow
  /\ \A i \in 1..Len(fetch.page) :
       fetch.page[i].id \in ListRows /\ fetch.page[i].st \in {"open", "done"}
  /\ change \in [ListRows -> Changes]
  /\ \A r \in ListRows : OpFacts(change[r].op)
  /\ undo \in 0..LastRow
  /\ dropped \in BOOLEAN /\ crossed \in BOOLEAN /\ misplaced \in BOOLEAN
  /\ aside \subseteq ListRows

LEMMA ListHas == ListTypeOK => ListGround
<1> SUFFICES ASSUME ListTypeOK PROVE ListGround
  OBVIOUS
<1>1. /\ LastRow \in Nat /\ 0 \in 0..LastRow
      /\ \A r \in ListRows : r \in Nat /\ r # NoRow /\ r \in 0..LastRow
  BY ListAssumption DEF ListRows, NoRow
<1>2. page \in ListPages /\ PageFacts(page)
  BY PagesAre DEF ListTypeOK
<1>3. fetcher \in AllFetchers /\ fetcher.want \in {"all", "open"} /\ fetcher.asc \in BOOLEAN
  BY PagesHave DEF ListTypeOK
<1>4. items \in Seq(Items) /\ Len(items) \in Nat
      /\ \A i \in 1..Len(items) : items[i].id \in ListRows /\ items[i].st \in {"open", "done"}
  BY ListIs DEF ListTypeOK
<1>5. fetch \in Fetches
  BY DEF ListTypeOK, Fetches
<1>6. fetch.page \in Seq(Items) /\ fetch.f \in AllFetchers /\ fetch.next \in 0..LastRow
  BY <1>5 DEF Fetches
<1>7. /\ Len(fetch.page) \in Nat
      /\ \A i \in 1..Len(fetch.page) :
           fetch.page[i].id \in ListRows /\ fetch.page[i].st \in {"open", "done"}
  BY <1>6, ListIs
<1>8. fetch.f.want \in {"all", "open"} /\ fetch.f.asc \in BOOLEAN
  BY <1>6, PagesHave
<1>9. change \in [ListRows -> Changes]
  BY DEF ListTypeOK, Changes
<1>10. \A r \in ListRows : OpFacts(change[r].op)
  BY <1>9, PagesHave DEF Changes
<1> QED
  BY <1>1, <1>2, <1>3, <1>4, <1>5, <1>6, <1>7, <1>8, <1>9, <1>10 DEF ListTypeOK, ListGround

\* The calls and fetches that are not.
LEMMA NothingIs ==
  /\ NoFetch \in Fetches /\ NoChange \in Changes
  /\ NoFetch.st = "none" /\ ~NoFetch.replace /\ NoFetch.page = <<>> /\ NoFetch.next = NoRow
  /\ NoFetch.cur = NoRow
  /\ NoChange.st = "none" /\ NoChange.op.first = "none" /\ NoChange.op.then = "none"
  /\ \A f \in AllFetchers, c \in 0..LastRow, b \in BOOLEAN :
       /\ [NoFetch EXCEPT !.st = "sent", !.f = f, !.cur = c] \in Fetches
       /\ [NoFetch EXCEPT !.st = "sent", !.f = f, !.replace = b] \in Fetches
<1>1. <<>> \in Seq(Items) /\ 0 \in 0..LastRow /\ Newest \in AllFetchers
  BY ListAssumption, PagesHave
<1>2. NoFetch \in Fetches
  BY <1>1 DEF NoFetch, Fetches, NoRow
<1>3. NoChange \in Changes
  BY DEF NoChange, Changes
<1>4. NoFetch.st = "none" /\ ~NoFetch.replace /\ NoFetch.page = <<>> /\ NoFetch.next = NoRow
      /\ NoFetch.cur = NoRow
  BY DEF NoFetch
<1>5. NoChange.st = "none" /\ NoChange.op.first = "none" /\ NoChange.op.then = "none"
  BY DEF NoChange, NoOp, Op
<1>6. \A f \in AllFetchers, c \in 0..LastRow, b \in BOOLEAN :
       /\ [NoFetch EXCEPT !.st = "sent", !.f = f, !.cur = c] \in Fetches
       /\ [NoFetch EXCEPT !.st = "sent", !.f = f, !.replace = b] \in Fetches
  BY <1>2 DEF Fetches
<1> QED
  BY <1>2, <1>3, <1>4, <1>5, <1>6

LEMMA ListTypedIf ==
  ASSUME page' \in ListPages, row' \in [ListRows -> RowStages], fetcher' \in AllFetchers,
         items' \in Seq(Items), cursor' \in 0..LastRow, more' \in BOOLEAN,
         loading' \in BOOLEAN, error' \in BOOLEAN, fetch' \in Fetches,
         change' \in [ListRows -> Changes], undo' \in 0..LastRow, dropped' \in BOOLEAN,
         crossed' \in BOOLEAN, misplaced' \in BOOLEAN, aside' \subseteq ListRows
  PROVE  ListTypeOK'
BY DEF ListTypeOK, Fetches, Changes

\* An edit leaves a list of rows.
LEMMA EditTyped ==
  ASSUME ListGround, NEW r \in ListRows, NEW what, NEW phase,
         what \in {"update", "prepend"} => phase \in {"open", "done"}, Edit(what, r, phase)
  PROVE  items' \in Seq(Items)
<1>1. CASE what = "remove"
  BY <1>1, RemoveIs DEF Edit, ListGround, TakenOff
<1>2. CASE what = "update"
  BY <1>2, UpdateIs DEF Edit, ListGround
<1>3. CASE what = "prepend"
  <2>1. items' = <<[id |-> r, st |-> phase]>> \o items /\ items \in Seq(Items)
    BY <1>3 DEF Edit, ListGround
  <2> QED
    BY <1>3, <2>1, PrependIs DEF PutAtHead
<1>4. CASE what \notin {"remove", "update", "prepend"}
  BY <1>4 DEF Edit, ListGround
<1> QED
  BY <1>1, <1>2, <1>3, <1>4

LEMMA ListTypedNext ==
  ASSUME ListTypeOK, ChangesAgree, [ListNext]_listVars
  PROVE  ListTypeOK'
<1>0. ListGround
  BY ListHas
<1> USE <1>0 DEF ListGround
<1>1. \A f \in page.fetchers : f \in AllFetchers
  BY PagesHave
<1>2. ASSUME NEW f \in page.fetchers, Restart(f)
      PROVE  /\ fetcher' \in AllFetchers /\ cursor' \in 0..LastRow /\ more' \in BOOLEAN
             /\ loading' \in BOOLEAN /\ error' \in BOOLEAN /\ fetch' \in Fetches
             /\ dropped' \in BOOLEAN /\ crossed' \in BOOLEAN /\ misplaced' \in BOOLEAN
             /\ aside' \subseteq ListRows
  <2>1. f \in AllFetchers
    BY <1>1
  <2> QED
    BY <1>2, <2>1, NothingIs DEF Restart, NoRow
<1>3. ASSUME NEW r \in ListRows, Finish(r)
      PROVE  change' \in [ListRows -> Changes]
  BY <1>3, NothingIs DEF Finish
<1>4. fetcher \in page.fetchers
  BY DEF ChangesAgree
<1>5. ASSUME NEW f \in page.fetchers, ChangeFetcher(f)
      PROVE  ListTypeOK'
  BY <1>2, <1>5, ListTypedIf DEF ChangeFetcher
<1>6. CASE Retry
  BY <1>2, <1>4, <1>6, ListTypedIf DEF Retry
<1>7. CASE LoadMore
  BY <1>7, NothingIs, ListTypedIf DEF LoadMore, listCauses
<1>8. CASE ServeFetch
  <2>1. PICK p, next : /\ PageOf(p, next, fetch.f, fetch.cur)
                       /\ fetch' = [fetch EXCEPT !.st = "answered", !.page = p, !.next = next]
    BY <1>8, ServeIs
  <2>2. p \in Seq(Items) /\ next \in 0..LastRow
    BY <2>1 DEF PageOf
  <2>3. fetch' \in Fetches
    BY <2>1, <2>2 DEF Fetches
  <2>4. crossed' \in BOOLEAN
    BY <1>8 DEF ServeFetch
  <2> QED
    BY <1>8, <2>3, <2>4, ListTypedIf DEF ServeFetch
<1>9. CASE FailFetch
  <2>1. fetch' \in Fetches
    BY <1>9 DEF FailFetch, Fetches
  <2> QED
    BY <1>9, <2>1, ListTypedIf DEF FailFetch, listCauses
<1>10. CASE ReceivePage
  <2>1. items' \in Seq(Items)
    BY <1>10, ConcatProperties DEF ReceivePage
  <2>2. more' \in BOOLEAN /\ cursor' \in 0..LastRow
    BY <1>10 DEF ReceivePage
  <2> QED
    BY <1>10, <2>1, <2>2, NothingIs, ListTypedIf DEF ReceivePage, listCauses
<1>11. CASE ReceiveFailure
  BY <1>11, NothingIs, ListTypedIf DEF ReceiveFailure, listCauses
<1>12. ASSUME NEW r \in ListRows, NEW op \in page.ops, Begin(op, r)
       PROVE  ListTypeOK'
  <2>1. op \in AllOps /\ OpFacts(op)
    BY PagesHave
  <2>2. change' \in [ListRows -> Changes]
    BY <1>12, <2>1 DEF Begin, Changes
  <2>3. items' \in Seq(Items)
    <3>1. Edit(op.first, r, "open")
      BY <1>12 DEF Begin
    <3> QED
      BY <3>1, EditTyped
  <2>4. crossed' \in BOOLEAN /\ undo' \in 0..LastRow
    BY <1>12 DEF Begin, NoRow
  <2> QED
    BY <1>12, <2>2, <2>3, <2>4, ListTypedIf DEF Begin
<1>13. ASSUME NEW r \in ListRows, Carry(r)
       PROVE  ListTypeOK'
  <2>1. change' \in [ListRows -> Changes]
    <3>1. PICK st \in {"refused", "done"} : change' = [change EXCEPT ![r].st = st]
      BY <1>13 DEF Carry
    <3> QED
      BY <3>1 DEF Changes
  <2>2. row' \in [ListRows -> RowStages]
    <3>1. change[r].op.to \in {"same", "open", "done", "gone"}
      BY DEF OpFacts
    <3> QED
      BY <1>13, <3>1 DEF Carry, RowStages
  <2> QED
    BY <1>13, <2>1, <2>2, ListTypedIf DEF Carry, hookVars, listCauses
<1>14. ASSUME NEW r \in ListRows, SucceedReload(r)
       PROVE  ListTypeOK'
  BY <1>2, <1>3, <1>4, <1>14, ListTypedIf DEF SucceedReload
<1>15. ASSUME NEW r \in ListRows, Succeed(r)
       PROVE  ListTypeOK'
  <2>1. items' \in Seq(Items)
    <3>1. change[r].op.then \in {"update", "prepend"} =>
            (IF change[r].op.to = "same" THEN row[r] ELSE change[r].op.to) \in {"open", "done"}
      BY DEF OpFacts
    <3>2. Edit(change[r].op.then, r, IF change[r].op.to = "same" THEN row[r]
                                     ELSE change[r].op.to)
      BY <1>15 DEF Succeed
    <3> QED
      BY <3>1, <3>2, EditTyped
  <2>2. /\ change' \in [ListRows -> Changes] /\ undo' \in 0..LastRow
        /\ misplaced' \in BOOLEAN /\ aside' \subseteq ListRows
    BY <1>3, <1>15 DEF Succeed
  <2> QED
    BY <1>15, <2>1, <2>2, ListTypedIf DEF Succeed
<1>16. ASSUME NEW r \in ListRows, Fail(r)
       PROVE  ListTypeOK'
  <2>1. CASE change[r].op.fails = "reload"
    BY <1>2, <1>3, <1>4, <1>16, <2>1, ListTypedIf DEF Fail
  <2>2. CASE change[r].op.fails # "reload"
    BY <1>3, <1>16, <2>2, ListTypedIf DEF Fail, listCauses
  <2> QED
    BY <2>1, <2>2
<1>17. CASE UndoExpires
  BY <1>17, ListTypedIf DEF UndoExpires, hookVars, listCauses, NoRow
<1>18. CASE UNCHANGED listVars
  BY <1>18, ListTypedIf DEF listVars, hookVars, listCauses
<1> QED
  BY <1>5, <1>6, <1>7, <1>8, <1>9, <1>10, <1>11, <1>12, <1>13, <1>14, <1>15, <1>16, <1>17,
     <1>18 DEF ListNext
----------------------------------------------------------------------------
(* The steps, one by one. *)

\* What a step may build on.
ListReady == ListGround /\ RowsThere /\ ChangesAgree /\ FetchFollows
             /\ PageAnswers /\ RowsAgree /\ RowsApart

\* What it keeps.
ListKept == RowsThere' /\ ChangesAgree' /\ FetchFollows' /\ PageAnswers' /\ RowsAgree' /\ RowsApart'

\* A call that ends leaves the others as they were.
LEMMA CallEnds ==
  ASSUME ListGround, NEW r \in ListRows, Finish(r)
  PROVE  /\ Busy' = Busy \ {r} /\ change'[r] = NoChange
         /\ \A s \in ListRows : s # r => change'[s] = change[s]
<1>1. change'[r] = NoChange /\ \A s \in ListRows : s # r => change'[s] = change[s]
  BY DEF ListGround, Finish
<1> QED
  BY <1>1, NothingIs DEF Busy

\* Nothing is said of a list whose first page is fetched anew or was dropped.
LEMMA RestartKeeps ==
  ASSUME ListReady, NEW f \in page.fetchers, Restart(f),
         page' = page, row' = row, items' = items, undo' = undo,
         \A r \in ListRows : change'[r] = change[r] \/ change'[r] = NoChange
  PROVE  ListKept
<1> USE DEF ListReady, ListKept
<1>0. \/ fetch' = fetch /\ fetch.st # "none" /\ dropped' /\ crossed' = crossed /\ aside' = aside
      \/ /\ fetch' = [NoFetch EXCEPT !.st = "sent", !.f = f, !.replace = TRUE]
         /\ aside' = {}
  BY DEF Restart
<1>1. /\ fetcher' = f /\ cursor' = NoRow /\ more'
      /\ \A r \in Busy' : r \in Busy /\ change'[r] = change[r]
      /\ \A r \in ListRows \ Busy' : change'[r] = NoChange
  <2>1. \A r \in Busy' : r \in Busy /\ change'[r] = change[r]
    BY NothingIs DEF Busy
  <2>2. \A r \in ListRows \ Busy' : change'[r] = NoChange
    BY DEF Busy, ChangesAgree
  <2> QED
    BY <2>1, <2>2 DEF Restart
<1>2. CASE fetch' = fetch /\ fetch.st # "none" /\ dropped' /\ crossed' = crossed /\ aside' = aside
  <2>1. RowsThere'
    BY <1>1, <1>2 DEF RowsThere
  <2>2. ChangesAgree'
    BY <1>1 DEF ChangesAgree
  <2>3. FetchFollows'
    BY <1>1, <1>2 DEF FetchFollows, LoadingHasFetch
  <2>4. PageAnswers'
    BY <1>1, <1>2 DEF PageAnswers
  <2>5. RowsAgree' /\ RowsApart'
    BY <1>2 DEF RowsAgree, RowAgrees, RowsApart, Landed
  <2> QED
    BY <2>1, <2>2, <2>3, <2>4, <2>5
<1>3. CASE fetch' = [NoFetch EXCEPT !.st = "sent", !.f = f, !.replace = TRUE] /\ aside' = {}
  <2>1. /\ fetch'.st = "sent" /\ fetch'.f = f /\ fetch'.replace /\ fetch'.cur = NoRow
        /\ fetch'.page = <<>> /\ fetch'.next = NoRow
    BY <1>3, NothingIs DEF Fetches
  <2>2. RowsThere'
    BY <1>1, <1>3, <2>1 DEF RowsThere
  <2>3. ChangesAgree'
    BY <1>1 DEF ChangesAgree
  <2>4. FetchFollows'
    BY <1>1, <2>1 DEF FetchFollows, LoadingHasFetch
  <2>5. PageAnswers'
    BY <2>1 DEF PageAnswers
  <2>6. RowsAgree' /\ RowsApart'
    BY <2>1 DEF RowsAgree, RowAgrees, RowsApart, Landed
  <2> QED
    BY <2>2, <2>3, <2>4, <2>5, <2>6
<1> QED
  BY <1>0, <1>2, <1>3

\* The fetch of a next page begins.
LEMMA LoadMoreKeeps ==
  ASSUME ListReady, LoadMore
  PROVE  ListKept
<1> USE DEF ListReady, ListKept, LoadMore, listCauses
<1>1. /\ fetch'.st = "sent" /\ fetch'.f = fetcher /\ ~fetch'.replace /\ fetch'.cur = cursor
      /\ fetch'.page = <<>> /\ fetch'.next = NoRow
  BY NothingIs DEF Fetches
<1>2. RowsThere'
  BY <1>1 DEF RowsThere, Busy
<1>3. ChangesAgree'
  BY DEF ChangesAgree, Busy
<1>4. FetchFollows'
  BY <1>1 DEF FetchFollows, LoadingHasFetch
<1>5. PageAnswers'
  BY <1>1 DEF PageAnswers
<1>6. Landed' => Landed
  BY <1>1 DEF Landed, FetchFollows
<1>7. RowsAgree'
  BY <1>6 DEF RowsAgree, RowAgrees, Leaving, Shown
<1>8. RowsApart'
  BY <1>6 DEF RowsApart
<1> QED
  BY <1>2, <1>3, <1>4, <1>5, <1>7, <1>8

\* The server answers with a page, or the call fails.
LEMMA ServerKeeps ==
  ASSUME ListTypeOK, ListReady, ServeFetch \/ FailFetch
  PROVE  ListKept
<1> USE DEF ListReady, ListKept
<1>0. /\ UNCHANGED <<page, row, fetcher, items, cursor, more, loading, error, change, undo,
                     dropped, misplaced, aside>>
      /\ fetch.st = "sent" /\ (crossed => crossed')
  <2>1. CASE ServeFetch
    BY <2>1 DEF ServeFetch
  <2>2. CASE FailFetch
    BY <2>2 DEF FailFetch, listCauses
  <2> QED
    BY <2>1, <2>2
<1>1. PICK p \in Seq(Items), next \in 0..LastRow, st \in {"answered", "failed"} :
        /\ fetch' = [fetch EXCEPT !.st = st, !.page = p, !.next = next]
        /\ IF st = "answered" THEN ServeFetch /\ PageOf(p, next, fetch.f, fetch.cur)
                              ELSE p = fetch.page /\ next = fetch.next
  <2>1. CASE ServeFetch
    <3>1. PICK p, next : /\ PageOf(p, next, fetch.f, fetch.cur)
                         /\ fetch' = [fetch EXCEPT !.st = "answered", !.page = p, !.next = next]
      BY <2>1, ServeIs
    <3>2. p \in Seq(Items) /\ next \in 0..LastRow
      BY <3>1 DEF PageOf
    <3> QED
      BY <2>1, <3>1, <3>2
  <2>2. CASE FailFetch
    <3>1. fetch' = [fetch EXCEPT !.st = "failed", !.page = fetch.page, !.next = fetch.next]
      BY <2>2 DEF FailFetch, ListGround, Fetches
    <3>2. fetch.page \in Seq(Items) /\ fetch.next \in 0..LastRow
      BY DEF ListGround
    <3> QED
      BY <3>1, <3>2
  <2> QED
    BY <2>1, <2>2
<1>2. /\ fetch'.st = st /\ fetch'.f = fetch.f /\ fetch'.cur = fetch.cur
      /\ fetch'.replace = fetch.replace /\ fetch'.page = p /\ fetch'.next = next
  BY <1>1 DEF ListGround, Fetches
<1>3. Busy' = Busy
  BY <1>0 DEF Busy
<1>4. RowsThere'
  <2>1. CASE st = "answered"
    <3>1. \A i \in 1..Len(p) : row[p[i].id] # "absent"
      <4>1. \A s : Wants(fetch.f, s) => s # "absent"
        BY DEF Wants, ListGround
      <4> QED
        BY <1>1, <2>1, <4>1 DEF PageOf
    <3>2. next # NoRow => row[next] # "absent"
      BY <1>1, <2>1 DEF PageOf
    <3> QED
      BY <1>0, <1>2, <1>3, <3>1, <3>2 DEF RowsThere
  <2>2. CASE st # "answered"
    BY <1>0, <1>1, <1>2, <1>3, <2>2 DEF RowsThere
  <2> QED
    BY <2>1, <2>2
<1>5. ChangesAgree'
  BY <1>0, <1>3 DEF ChangesAgree
<1>6. FetchFollows'
  BY <1>0, <1>1, <1>2 DEF FetchFollows, LoadingHasFetch
<1>7. PageAnswers'
  <2> SUFFICES ASSUME st = "answered", ~crossed' PROVE PageAnswers'
    BY <1>2 DEF PageAnswers
  <2>1. PageOf(p, next, fetch.f, fetch.cur) /\ ServeFetch
    BY <1>1
  <2>2. \A r \in Busy : change[r].st # "sent" /\ change[r].op.then # "prepend"
    BY <2>1 DEF ServeFetch
  <2> QED
    BY <1>0, <1>2, <1>3, <2>1, <2>2 DEF PageAnswers, PageOf
<1>8. Landed' => Landed
  BY <1>0, <1>2 DEF Landed
<1>9. RowsAgree'
  BY <1>0, <1>8 DEF RowsAgree, RowAgrees, Leaving, Shown
<1>10. RowsApart'
  BY <1>0, <1>8 DEF RowsApart
<1> QED
  BY <1>4, <1>5, <1>6, <1>7, <1>9, <1>10

\* A failed call leaves the list as it is: one that has no first page shows an error.
LEMMA FailureKeeps ==
  ASSUME ListReady, ReceiveFailure
  PROVE  ListKept
<1> USE DEF ListReady, ListKept, ReceiveFailure, listCauses
<1>1. /\ fetch'.st = "none" /\ ~fetch'.replace /\ fetch'.cur = NoRow
      /\ fetch'.page = <<>> /\ fetch'.next = NoRow
  BY NothingIs
<1>2. RowsThere'
  BY <1>1 DEF RowsThere, Busy
<1>3. ChangesAgree'
  BY DEF ChangesAgree, Busy
<1>4. FetchFollows'
  BY <1>1 DEF FetchFollows, LoadingHasFetch
<1>5. PageAnswers'
  BY <1>1 DEF PageAnswers
<1>6. Landed' => Landed
  BY <1>1 DEF Landed, FetchFollows
<1>7. RowsAgree'
  BY <1>6 DEF RowsAgree, RowAgrees, Leaving, Shown
<1>8. RowsApart'
  BY <1>6 DEF RowsApart
<1> QED
  BY <1>2, <1>3, <1>4, <1>5, <1>7, <1>8
\* A page arrives: it continues the list up to its cursor, or takes its place.
LEMMA PageKeeps ==
  ASSUME ListReady, ReceivePage
  PROVE  ListKept
<1> USE DEF ListReady, ListKept
<1>0. /\ UNCHANGED <<page, row, fetcher, change, undo, dropped, crossed, misplaced, aside>>
      /\ fetch.st = "answered" /\ cursor' = fetch.next /\ more' = (fetch.next # NoRow)
      /\ fetch' = NoFetch
      /\ items' = IF fetch.replace THEN fetch.page ELSE items \o fetch.page
      /\ loading' = FALSE
  BY DEF ReceivePage, listCauses
<1>1. /\ fetch'.st = "none" /\ ~fetch'.replace /\ fetch'.cur = NoRow
      /\ fetch'.page = <<>> /\ fetch'.next = NoRow
  BY <1>0, NothingIs
<1> DEFINE q == fetch.page
           len == IF fetch.replace THEN 0 ELSE Len(items)
<1>2. /\ len \in Nat /\ Len(items') = len + Len(q) /\ Len(q) \in Nat
      /\ \A i \in 1..len : items'[i] = items[i]
      /\ \A i \in 1..Len(q) : items'[len + i] = q[i]
      /\ len = 0 \/ len = Len(items)
      /\ ~fetch.replace => len = Len(items)
  <2>1. CASE fetch.replace
    BY <1>0, <2>1 DEF ListGround
  <2>2. CASE ~fetch.replace
    <3>1. items \in Seq(Items) /\ q \in Seq(Items) /\ Len(items) \in Nat /\ Len(q) \in Nat
      BY DEF ListGround
    <3>2. /\ Len(items \o q) = Len(items) + Len(q)
          /\ \A i \in 1..Len(items) + Len(q) :
               (items \o q)[i] = IF i <= Len(items) THEN items[i] ELSE q[i - Len(items)]
      BY <3>1, ConcatProperties
    <3>3. items' = items \o q
      BY <1>0, <2>2
    <3> QED
      BY <2>2, <3>1, <3>2, <3>3
  <2> QED
    BY <2>1, <2>2
<1> HIDE DEF len
<1>3. ASSUME NEW i \in 1..Len(items')
      PROVE  \/ i \in 1..len /\ i \in 1..Len(items) /\ ~fetch.replace /\ items'[i] = items[i]
             \/ i - len \in 1..Len(q) /\ items'[i] = q[i - len] /\ i > len
  <2>1. CASE i <= len
    <3>1. ~fetch.replace
      BY <1>2, <2>1 DEF len
    <3> QED
      BY <1>2, <2>1, <3>1
  <2>2. CASE ~(i <= len)
    <3>1. i - len \in 1..Len(q) /\ len + (i - len) = i /\ i > len
      BY <1>2, <2>2
    <3> QED
      BY <1>2, <3>1
  <2> QED
    BY <2>1, <2>2
<1>4. RowsThere'
  <2>1. Busy' = Busy
    BY <1>0 DEF Busy
  <2>2. \A i \in 1..Len(items') : row'[items'[i].id] # "absent"
    BY <1>0, <1>3 DEF RowsThere
  <2> QED
    BY <1>0, <1>1, <2>1, <2>2 DEF RowsThere
<1>5. ChangesAgree'
  BY <1>0 DEF ChangesAgree, Busy
<1>6. FetchFollows'
  BY <1>0, <1>1 DEF FetchFollows, LoadingHasFetch
<1>7. PageAnswers'
  BY <1>1 DEF PageAnswers
<1>8. RowsAgree' /\ RowsApart'
  <2> SUFFICES ASSUME ~dropped, ~crossed PROVE RowsAgree' /\ RowsApart'
    BY <1>0 DEF RowsAgree, RowAgrees, RowsApart, Landed
  <2>1. /\ fetch.f = fetcher /\ fetch.cur = cursor /\ more
        /\ fetch.replace <=> cursor = NoRow
    BY <1>0 DEF FetchFollows, LoadingHasFetch
  <2>2. ~fetch.replace => Landed
    BY <2>1 DEF Landed
  <2>3. /\ \A r \in Busy : change[r].st # "sent" /\ change[r].op.then # "prepend"
        /\ fetch.next # NoRow => Past(fetcher, fetch.next, cursor)
        /\ \A i \in 1..Len(q) :
             /\ q[i].st = row[q[i].id] /\ Wants(fetcher, q[i].st)
             /\ Past(fetcher, q[i].id, cursor)
             /\ fetch.next # NoRow => ~Past(fetcher, q[i].id, fetch.next)
             /\ \A j \in 1..Len(q) : q[i].id = q[j].id => i = j
        /\ \A r \in ListRows :
             /\ Wants(fetcher, row[r]) /\ Past(fetcher, r, cursor)
             /\ fetch.next # NoRow => ~Past(fetcher, r, fetch.next)
             => \E i \in 1..Len(q) : q[i].id = r
    BY <1>0, <2>1 DEF PageAnswers
  <2>4. ASSUME NEW r \in ListRows
        PROVE  LET c == change[r] IN
          /\ r \notin aside /\ ~(c.st = "done" /\ c.op.to # "same") =>
               \A i \in 1..Len(items') : items'[i].id = r => items'[i].st = row[r]
          /\ r \notin aside /\ ~Leaving(c) =>
               (Wants(fetcher, row[r]) /\ ~(more' /\ Past(fetcher, r, cursor')) => r \in Shown')
          /\ (c.op.first = "remove" /\ c.st \in {"sent", "done"}) \/ c.op.then = "prepend" =>
               r \notin Shown'
          /\ c.st = "sent" /\ c.op.then = "update" /\ r \notin aside => row[r] \in {"open", "done"}
    <3> DEFINE c == change[r]
    <3>0. r \in Busy \/ c = NoChange
      BY DEF ChangesAgree
    <3>00. c.st # "sent" /\ c.op.then # "prepend"
      BY <2>3, <3>0, NothingIs
    <3>1. ASSUME r \notin aside, ~(c.st = "done" /\ c.op.to # "same"),
                 NEW i \in 1..Len(items'), items'[i].id = r
          PROVE  items'[i].st = row[r]
      BY <1>3, <2>2, <2>3, <3>1 DEF RowsAgree, RowAgrees
    <3>2. ASSUME r \notin aside, ~Leaving(c), Wants(fetcher, row[r]),
                 ~(more' /\ Past(fetcher, r, cursor'))
          PROVE  r \in Shown'
      <4>1. fetch.next # NoRow => ~Past(fetcher, r, fetch.next)
        BY <1>0, <3>2
      <4>2. CASE Past(fetcher, r, cursor)
        <5>1. PICK i \in 1..Len(q) : q[i].id = r
          BY <2>3, <3>2, <4>1, <4>2
        <5>2. len + i \in 1..Len(items') /\ items'[len + i].id = r
          BY <1>2, <5>1
        <5> QED
          BY <5>2 DEF Shown
      <4>3. CASE ~Past(fetcher, r, cursor)
        <5>1. ~fetch.replace
          BY <2>1, <4>3 DEF Past
        <5>2. r \in Shown
          BY <2>2, <3>2, <4>3, <5>1 DEF RowsAgree, RowAgrees
        <5>3. PICK i \in 1..Len(items) : items[i].id = r
          BY <5>2 DEF Shown
        <5>4. i \in 1..Len(items') /\ items'[i].id = r
          BY <1>2, <5>1, <5>3
        <5> QED
          BY <5>4 DEF Shown
      <4> QED
        BY <4>2, <4>3
    <3>3. ASSUME c.op.first = "remove", c.st \in {"sent", "done"}, r \in Shown'
          PROVE  FALSE
      <4>1. c.st = "done" /\ r \in Busy /\ c.op \in page.ops /\ c.op.to = "done"
        BY <3>00, <3>3 DEF Busy, ChangesAgree, ListGround, OpFacts
      <4>2. row[r] = "done" /\ fetcher.want = "open"
        BY <4>1, <3>3 DEF ChangesAgree, ListGround, PageFacts
      <4>3. PICK i \in 1..Len(items') : items'[i].id = r
        BY <3>3 DEF Shown
      <4>4. CASE i \in 1..Len(items) /\ ~fetch.replace /\ items'[i] = items[i]
        BY <2>2, <3>3, <4>1, <4>3, <4>4 DEF RowsAgree, RowAgrees, Shown
      <4>5. CASE i - len \in 1..Len(q) /\ items'[i] = q[i - len]
        BY <2>3, <4>2, <4>3, <4>5 DEF Wants
      <4> QED
        BY <1>3, <4>4, <4>5
    <3> QED
      BY <3>00, <3>1, <3>2, <3>3
  <2>5. RowsAgree'
    BY <1>0, <2>4 DEF RowsAgree, RowAgrees, Leaving
  <2>6. RowsApart'
    <3> SUFFICES ASSUME ~misplaced
                 PROVE  /\ \A i, j \in 1..Len(items') : items'[i].id = items'[j].id => i = j
                        /\ more' => \A i \in 1..Len(items') : ~Past(fetcher, items'[i].id, cursor')
      BY <1>0 DEF RowsApart
    <3>1. ~fetch.replace =>
            /\ \A i, j \in 1..Len(items) : items[i].id = items[j].id => i = j
            /\ \A i \in 1..Len(items) : ~Past(fetcher, items[i].id, cursor)
      BY <2>1, <2>2 DEF RowsApart
    <3>a. ASSUME NEW i \in 1..Len(items')
          PROVE  IF i <= len THEN ~Past(fetcher, items'[i].id, cursor)
                             ELSE Past(fetcher, items'[i].id, cursor)
      <4>1. CASE i <= len
        <5>1. i \in 1..Len(items) /\ ~fetch.replace /\ items'[i] = items[i]
          BY <1>2, <1>3, <4>1
        <5> QED
          BY <3>1, <4>1, <5>1
      <4>2. CASE ~(i <= len)
        <5>1. i - len \in 1..Len(q) /\ items'[i] = q[i - len]
          BY <1>2, <1>3, <4>2
        <5> QED
          BY <2>3, <4>2, <5>1
      <4> QED
        BY <4>1, <4>2
    <3>2. ASSUME NEW i \in 1..Len(items'), NEW j \in 1..Len(items'), items'[i].id = items'[j].id
          PROVE  i = j
      <4>1. CASE i <= len /\ j <= len
        BY <1>2, <1>3, <3>1, <3>2, <4>1
      <4>2. CASE i > len /\ j > len
        <5>1. i - len \in 1..Len(q) /\ items'[i] = q[i - len]
          BY <1>2, <1>3, <4>2
        <5>2. j - len \in 1..Len(q) /\ items'[j] = q[j - len]
          BY <1>2, <1>3, <4>2
        <5>3. i - len = j - len
          BY <2>3, <3>2, <5>1, <5>2
        <5> QED
          BY <1>2, <5>3
      <4>3. CASE (i <= len /\ ~(j <= len)) \/ (~(i <= len) /\ j <= len)
        BY <3>a, <3>2, <4>3
      <4> QED
        BY <1>2, <4>1, <4>2, <4>3
    <3>3. ASSUME more', NEW i \in 1..Len(items')
          PROVE  ~Past(fetcher, items'[i].id, cursor')
      <4>0. fetch.next # NoRow /\ cursor' = fetch.next
        BY <1>0, <3>3
      <4>1. CASE i \in 1..Len(items) /\ ~fetch.replace /\ items'[i] = items[i]
        <5>1. ~Past(fetcher, items[i].id, cursor) /\ Past(fetcher, fetch.next, cursor)
          BY <2>3, <3>1, <4>0, <4>1
        <5>0. cursor \in 0..LastRow /\ fetch.next \in 0..LastRow /\ fetcher.asc \in BOOLEAN
          BY DEF ListGround
        <5>a. items[i].id \in Nat
          BY <4>1 DEF ListGround
        <5>2. /\ items[i].id \in Nat /\ cursor \in Nat /\ fetch.next \in Nat
              /\ fetcher.asc \in BOOLEAN
          BY <5>0, <5>a
        <5> QED
          BY <4>0, <4>1, <5>1, <5>2 DEF Past
      <4>2. CASE i - len \in 1..Len(q) /\ items'[i] = q[i - len]
        BY <2>3, <4>0, <4>2
      <4> QED
        BY <1>3, <4>1, <4>2
    <3> QED
      BY <3>2, <3>3
  <2> QED
    BY <2>5, <2>6
<1> QED
  BY <1>4, <1>5, <1>6, <1>7, <1>8

\* A call begins; a decision takes its row away at once.
LEMMA BeginKeeps ==
  ASSUME ListReady, NEW r \in ListRows, NEW op \in page.ops, Begin(op, r)
  PROVE  ListKept
<1> USE DEF ListReady, ListKept
<1>0. /\ UNCHANGED <<page, row, fetcher, cursor, more, loading, error, fetch, dropped, misplaced,
                     aside>>
      /\ change[r].st = "none" /\ Offered(op, r) /\ Edit(op.first, r, "open")
      /\ op.modal => \A s \in Busy : ~change[s].op.modal
      /\ undo' \in {undo, NoRow} /\ crossed' = (crossed \/ fetch.st = "answered")
  BY DEF Begin
<1>1. OpFacts(op)
  BY DEF ListGround, PageFacts
<1>2. /\ change'[r].op = op /\ change'[r].st = "sent"
      /\ \A s \in ListRows : s # r => change'[s] = change[s]
      /\ change[r] = NoChange
  <2>1. change' = [change EXCEPT ![r] = [op |-> op, st |-> "sent"]]
    BY DEF Begin
  <2>2. change[r] = NoChange
    BY <1>0 DEF ChangesAgree, Busy
  <2> QED
    BY <2>1, <2>2 DEF ListGround
<1>3. Busy' = Busy \cup {r} /\ r \notin Busy
  BY <1>0, <1>2 DEF Busy
<1>4. /\ items' \in Seq(Items) /\ Len(items') \in Nat
      /\ \A i \in 1..Len(items') : \E j \in 1..Len(items) :
           /\ items'[i] = items[j]
           /\ op.first = "remove" => items[j].id # r
      /\ \A j \in 1..Len(items) : items[j].id # r \/ op.first = "none" =>
           \E i \in 1..Len(items') : items'[i] = items[j]
      /\ (\A i, j \in 1..Len(items) : items[i].id = items[j].id => i = j) =>
           \A i, j \in 1..Len(items') : items'[i].id = items'[j].id => i = j
  <2>1. CASE op.first = "remove"
    <3>1. items' = Without(r)
      BY <1>0, <2>1 DEF Edit
    <3>2. items \in Seq(Items)
      BY DEF ListGround
    <3>3. TakenOff(items, items', r)
      BY <3>1, <3>2, RemoveIs
    <3> QED
      BY <2>1, <3>3 DEF TakenOff
  <2>2. CASE op.first = "none"
    <3>1. items' = items
      BY <1>0, <2>2 DEF Edit
    <3> QED
      BY <2>2, <3>1 DEF ListGround
  <2> QED
    BY <1>1, <2>1, <2>2 DEF OpFacts
<1>5. IF op.then = "prepend" THEN row[r] = "absent" /\ \A s \in ListRows : s < r => row[s] # "absent"
                             ELSE row[r] # "absent" /\ (op.name = "undo" \/ r \in Shown)
  <2>1. CASE op.then = "prepend"
    BY <1>0, <1>1, <2>1 DEF Offered, OpFacts
  <2>2. CASE op.then # "prepend"
    <3>1. (op.name = "undo" /\ undo = r) \/ r \in Shown
      BY <1>0, <2>2 DEF Offered
    <3>2. r # NoRow
      BY DEF ListGround
    <3> QED
      BY <2>2, <3>1, <3>2 DEF RowsThere, Shown
  <2> QED
    BY <2>1, <2>2
<1>6. RowsThere'
  <2>1. \A i \in 1..Len(items') : row'[items'[i].id] # "absent"
    BY <1>0, <1>4 DEF RowsThere
  <2>2. \A s \in {cursor', fetch'.next, fetch'.cur, undo'} \cup aside' :
          s # NoRow => row'[s] # "absent"
    BY <1>0 DEF RowsThere
  <2>3. ASSUME NEW b \in Busy'
        PROVE  IF change'[b].op.then = "prepend"
                 THEN /\ \A s \in ListRows : b < s => row'[s] = "absent"
                      /\ \A s \in ListRows : s < b => row'[s] # "absent"
                      /\ \A s \in Busy' : change'[s].op.then = "prepend" => s = b
                 ELSE row'[b] # "absent"
    <3>1. \A s \in Busy : s \in ListRows /\ s # r /\ change'[s] = change[s]
      BY <1>2, <1>3 DEF Busy
    <3>2. op.then = "prepend" => \A s \in Busy : change[s].op.then # "prepend"
      <4>1. \A s \in Busy : change[s].op.then = "prepend" => change[s].op.modal
        BY <3>1 DEF ListGround, OpFacts
      <4> QED
        BY <1>0, <1>1, <4>1 DEF OpFacts
    <3>3. CASE b = r
      <4>1. op.then = "prepend" => \A s \in ListRows : r < s => row[s] = "absent"
        BY <1>5 DEF RowsThere
      <4> QED
        BY <1>0, <1>2, <1>3, <1>5, <3>1, <3>2, <3>3, <4>1
    <3>4. CASE b # r
      <4>1. b \in Busy
        BY <1>3, <3>4
      <4>2. IF change[b].op.then = "prepend"
                 THEN /\ \A s \in ListRows : b < s => row[s] = "absent"
                      /\ \A s \in ListRows : s < b => row[s] # "absent"
                      /\ \A s \in Busy : change[s].op.then = "prepend" => s = b
                 ELSE row[b] # "absent"
        BY <4>1 DEF RowsThere
      <4>3. change[b].op.then = "prepend" => op.then # "prepend"
        BY <3>2, <4>1
      <4> QED
        BY <1>0, <1>2, <1>3, <3>1, <4>1, <4>2, <4>3
    <3> QED
      BY <3>3, <3>4
  <2>4. \A t, s \in ListRows : row'[t] = "absent" /\ t < s => row'[s] = "absent"
    BY <1>0 DEF RowsThere
  <2>5. \A i \in 1..Len(fetch'.page) : row'[fetch'.page[i].id] # "absent"
    BY <1>0 DEF RowsThere
  <2> QED
    BY <2>1, <2>2, <2>3, <2>4, <2>5 DEF RowsThere
<1>7. ChangesAgree'
  <2>1. \A s \in ListRows \ Busy' : change'[s] = NoChange
    BY <1>2, <1>3 DEF ChangesAgree
  <2>2. \A s \in Busy' : \/ s = r
                         \/ s \in Busy /\ s \in ListRows /\ change'[s] = change[s]
    BY <1>2, <1>3 DEF Busy
  <2>3. \A s \in Busy' :
          /\ change'[s].op \in page.ops
          /\ change'[s].st = "done" /\ change'[s].op.to # "same" => row[s] = change'[s].op.to
    BY <1>2, <2>2 DEF ChangesAgree
  <2> QED
    BY <1>0, <2>1, <2>3 DEF ChangesAgree
<1>8. FetchFollows'
  BY <1>0 DEF FetchFollows, LoadingHasFetch
<1>9. PageAnswers'
  BY <1>0 DEF PageAnswers
<1>10. Landed' => Landed
  BY <1>0 DEF Landed
<1>11. ASSUME Landed', NEW q \in ListRows
       PROVE  RowAgrees(q)'
  <2>0. RowAgrees(q)
    BY <1>10, <1>11 DEF RowsAgree
  <2>1. Shown' \subseteq Shown /\ (op.first = "remove" => r \notin Shown')
    <3>1. ASSUME NEW i \in 1..Len(items')
          PROVE  items'[i].id \in Shown /\ (op.first = "remove" => items'[i].id # r)
      BY <1>4 DEF Shown
    <3> QED
      BY <3>1 DEF Shown
  <2>2. q # r \/ op.first = "none" => (q \in Shown => q \in Shown')
    <3> SUFFICES ASSUME q # r \/ op.first = "none", NEW j \in 1..Len(items), items[j].id = q
                 PROVE  q \in Shown'
      BY DEF Shown
    <3>1. PICK i \in 1..Len(items') : items'[i] = items[j]
      BY <1>4
    <3> QED
      BY <3>1 DEF Shown
  <2>3. q \in Shown /\ change[q] = NoChange /\ q \notin aside => row[q] \in {"open", "done"}
    BY <2>0, NothingIs DEF Shown, ListGround, RowAgrees
  <2>4. CASE q # r
    <3>1. change'[q] = change[q]
      BY <1>2, <2>4
    <3> QED
      BY <1>0, <1>4, <2>0, <2>1, <2>2, <2>4, <3>1 DEF RowAgrees, Leaving
  <2>5. CASE q = r
    <3>1. ~Leaving(change[q]) /\ ~(change[q].st = "done")
      BY <1>2, <2>5, NothingIs DEF Leaving
    <3>2. op.then = "prepend" => q \notin Shown
      BY <1>5, <2>5 DEF RowsThere, Shown
    <3>3. op.then = "update" => q \in Shown
      BY <1>1, <1>5, <2>5 DEF OpFacts
    <3>4. op.first = "none" \/ Leaving(change'[q])
      BY <1>1, <1>2, <2>5 DEF OpFacts, Leaving
    <3> QED
      BY <1>0, <1>2, <1>4, <2>0, <2>1, <2>2, <2>3, <2>5, <3>1, <3>2, <3>3, <3>4 DEF RowAgrees
  <2> QED
    BY <2>4, <2>5
<1>12. RowsAgree'
  BY <1>11 DEF RowsAgree
<1>13. RowsApart'
  <2> SUFFICES ASSUME Landed', ~misplaced'
               PROVE  /\ \A i, j \in 1..Len(items') : items'[i].id = items'[j].id => i = j
                      /\ more => \A i \in 1..Len(items') : ~Past(fetcher, items'[i].id, cursor)
    BY <1>0 DEF RowsApart
  <2>1. /\ \A i, j \in 1..Len(items) : items[i].id = items[j].id => i = j
        /\ more => \A i \in 1..Len(items) : ~Past(fetcher, items[i].id, cursor)
    BY <1>0, <1>10 DEF RowsApart
  <2> QED
    BY <1>4, <2>1
<1> QED
  BY <1>6, <1>7, <1>8, <1>9, <1>12, <1>13
\* The server carries a call out, or refuses it.
LEMMA CarryKeeps ==
  ASSUME ListReady, NEW r \in ListRows, Carry(r)
  PROVE  ListKept
<1> USE DEF ListReady, ListKept
<1> DEFINE op == change[r].op
<1>0. /\ UNCHANGED <<page, fetcher, items, cursor, more, loading, error, fetch, undo, listCauses>>
      /\ change[r].st = "sent"
  BY DEF Carry, hookVars
<1>1. OpFacts(op) /\ r \in Busy /\ op \in page.ops
  BY <1>0 DEF ListGround, Busy, ChangesAgree
<1>2. /\ change'[r].op = op
      /\ \/ change'[r].st = "refused" /\ row' = row
         \/ /\ change'[r].st = "done" /\ row[r] # "gone"
            /\ row' = IF op.to = "same" THEN row ELSE [row EXCEPT ![r] = op.to]
      /\ \A s \in ListRows : s # r => change'[s] = change[s]
  <2>1. change[r] \in Changes
    BY DEF ListGround
  <2>2. PICK st \in {"refused", "done"} :
          /\ change' = [change EXCEPT ![r].st = st]
          /\ IF st = "refused" THEN row' = row
             ELSE /\ row[r] # "gone"
                  /\ row' = IF op.to = "same" THEN row ELSE [row EXCEPT ![r] = op.to]
    BY DEF Carry
  <2> QED
    BY <2>1, <2>2 DEF ListGround, Changes
<1>3. Busy' = Busy /\ \A s \in Busy : s \in ListRows /\ change'[s].op = change[s].op
  BY <1>0, <1>2 DEF Busy
<1>4. /\ \A s \in ListRows : s # r => row'[s] = row[s]
      /\ op.to = "same" \/ change'[r].st = "refused" => row'[r] = row[r]
      /\ op.to # "same" /\ change'[r].st = "done" => row'[r] = op.to
  BY <1>2 DEF ListGround
<1>5. row'[r] # "absent" \/ (row'[r] = row[r] /\ op.then = "prepend")
  <2>1. op.then # "prepend" => row[r] # "absent"
    BY <1>1 DEF RowsThere
  <2> QED
    BY <1>1, <1>2, <1>4, <2>1 DEF OpFacts
<1>6. \A s \in ListRows : row'[s] = "absent" <=> row[s] = "absent" /\ ~(s = r /\ row'[r] # row[r])
  <2>1. row[r] # "absent" => row'[r] # "absent"
    BY <1>1, <1>2, <1>4 DEF OpFacts
  <2> QED
    BY <1>4, <1>5, <2>1
<1>7. RowsThere'
  <2>0. /\ \A i \in 1..Len(items) : items[i].id \in ListRows
        /\ \A i \in 1..Len(fetch.page) : fetch.page[i].id \in ListRows
        /\ \A s \in {cursor, fetch.next, fetch.cur, undo} \cup aside : s # NoRow => s \in ListRows
    <3>1. \A s \in 0..LastRow : s # NoRow => s \in ListRows
      BY DEF ListGround, ListRows, NoRow
    <3>2. {cursor, fetch.next, fetch.cur, undo} \subseteq 0..LastRow
      BY DEF ListGround, Fetches
    <3> QED
      BY <3>1, <3>2 DEF ListGround
  <2>1. ASSUME NEW t \in ListRows, NEW s \in ListRows, row'[t] = "absent", t < s
        PROVE  row'[s] = "absent"
    <3>1. row[t] = "absent" /\ row[s] = "absent"
      BY <1>6, <2>1 DEF RowsThere
    <3>2. CASE s = r
      <4>1. op.then # "prepend"
        BY <1>1, <2>1, <3>1, <3>2 DEF RowsThere
      <4> QED
        BY <1>1, <3>1, <3>2, <4>1 DEF RowsThere
    <3> QED
      BY <1>6, <3>1, <3>2
  <2>2. \A i \in 1..Len(items') : row'[items'[i].id] # "absent"
    BY <1>0, <1>6, <2>0 DEF RowsThere
  <2>3. \A i \in 1..Len(fetch'.page) : row'[fetch'.page[i].id] # "absent"
    BY <1>0, <1>6, <2>0 DEF RowsThere
  <2>4. \A s \in {cursor', fetch'.next, fetch'.cur, undo'} \cup aside' :
          s # NoRow => row'[s] # "absent"
    BY <1>0, <1>6, <2>0 DEF RowsThere, listCauses
  <2>5. ASSUME NEW b \in Busy
        PROVE  IF change[b].op.then = "prepend"
                 THEN /\ \A s \in ListRows : b < s => row'[s] = "absent"
                      /\ \A s \in ListRows : s < b => row'[s] # "absent"
                      /\ \A s \in Busy : change[s].op.then = "prepend" => s = b
                 ELSE row'[b] # "absent"
    <3>0. b \in ListRows /\ b \in Nat /\ r \in Nat
      BY <1>3 DEF ListGround
    <3>1. CASE change[b].op.then = "prepend"
      <4>1. /\ \A s \in ListRows : b < s => row[s] = "absent"
            /\ \A s \in ListRows : s < b => row[s] # "absent"
            /\ \A s \in Busy : change[s].op.then = "prepend" => s = b
        BY <3>1 DEF RowsThere
      <4>2. b < r => FALSE
        <5>1. b < r => row[r] = "absent"
          BY <4>1
        <5>2. r # b => row[r] # "absent"
          BY <1>1, <4>1 DEF RowsThere
        <5> QED
          BY <3>0, <5>1, <5>2
      <4> QED
        BY <1>6, <3>1, <4>1, <4>2
    <3>2. CASE change[b].op.then # "prepend"
      BY <1>6, <3>0, <3>2 DEF RowsThere
    <3> QED
      BY <3>1, <3>2
  <2> QED
    BY <1>3, <2>1, <2>2, <2>3, <2>4, <2>5 DEF RowsThere
<1>8. ChangesAgree'
  <2>1. \A s \in ListRows \ Busy : change'[s] = NoChange
    BY <1>1, <1>2 DEF ChangesAgree
  <2>2. ASSUME NEW s \in Busy
        PROVE  /\ change'[s].op \in page.ops
               /\ change'[s].st = "done" /\ change'[s].op.to # "same" => row'[s] = change'[s].op.to
    <3>1. CASE s = r
      BY <1>1, <1>2, <1>4, <3>1
    <3>2. CASE s # r
      BY <1>2, <1>3, <1>4, <3>2 DEF ChangesAgree
    <3> QED
      BY <3>1, <3>2
  <2> QED
    BY <1>0, <1>3, <2>1, <2>2 DEF ChangesAgree
<1>9. FetchFollows'
  BY <1>0 DEF FetchFollows, LoadingHasFetch, listCauses
<1>10. PageAnswers'
  BY <1>0, <1>1 DEF PageAnswers, listCauses
<1>11. ASSUME Landed', NEW q \in ListRows
       PROVE  RowAgrees(q)'
  <2>0. RowAgrees(q)
    BY <1>0, <1>11 DEF RowsAgree, Landed, listCauses
  <2>1. Shown' = Shown
    BY <1>0 DEF Shown
  <2>2. CASE q # r
    <3>1. change'[q] = change[q] /\ row'[q] = row[q]
      BY <1>2, <1>4, <2>2
    <3> QED
      BY <1>0, <2>0, <2>1, <3>1 DEF RowAgrees, Leaving, listCauses
  <2>3. CASE q = r /\ row'[r] = row[r]
    BY <1>0, <1>1, <1>2, <1>4, <2>0, <2>1, <2>3 DEF RowAgrees, Leaving, OpFacts, listCauses
  <2>4. CASE q = r /\ row'[r] # row[r]
    <3>1. change'[r].st = "done" /\ op.to # "same" /\ row'[r] = op.to
      BY <1>2, <1>4, <2>4
    <3>2. ASSUME q \notin aside, ~Leaving(change'[r]), Wants(fetcher, row'[r]),
                 ~(more /\ Past(fetcher, r, cursor))
          PROVE  q \in Shown
      <4>1. op.then = "update" /\ op.to = "done" /\ op.first = "none"
        BY <1>1, <1>2, <3>1, <3>2 DEF Leaving, OpFacts, Wants, ListGround
      <4>2. row[r] \in {"open", "done"}
        BY <1>0, <2>0, <2>4, <3>2, <4>1 DEF RowAgrees
      <4>3. Wants(fetcher, row[r])
        BY <3>1, <3>2, <4>1, <4>2 DEF Wants, ListGround
      <4>4. ~Leaving(change[r])
        BY <1>0, <4>1 DEF Leaving
      <4> QED
        BY <2>0, <2>4, <3>2, <4>3, <4>4 DEF RowAgrees
    <3> QED
      BY <1>0, <1>2, <2>0, <2>1, <2>4, <3>1, <3>2 DEF RowAgrees, listCauses
  <2> QED
    BY <2>2, <2>3, <2>4
<1>12. RowsAgree'
  BY <1>11 DEF RowsAgree
<1>13. RowsApart'
  BY <1>0 DEF RowsApart, Landed, listCauses
<1> QED
  BY <1>7, <1>8, <1>9, <1>10, <1>12, <1>13
\* A refused call ends: the list is fetched again, or is as it was.
LEMMA FailKeeps ==
  ASSUME ListReady, NEW r \in ListRows, Fail(r)
  PROVE  ListKept
<1>1. Finish(r) /\ page' = page /\ row' = row /\ items' = items /\ undo' = undo
  BY DEF Fail
<1>2. /\ Busy' = Busy \ {r} /\ change'[r] = NoChange
      /\ \A s \in ListRows : s # r => change'[s] = change[s]
  BY <1>1, CallEnds DEF ListReady
<1>3. CASE change[r].op.fails = "reload"
  <2>1. Restart(fetcher) /\ fetcher \in page.fetchers
    BY <1>3 DEF Fail, ListReady, ChangesAgree
  <2> QED
    BY <1>1, <1>2, <2>1, RestartKeeps
<1>4. CASE change[r].op.fails # "reload"
  <2> USE DEF ListReady, ListKept
  <2>0. UNCHANGED <<fetcher, cursor, more, loading, error, fetch, listCauses>> /\ change[r].st = "refused"
    BY <1>4 DEF Fail
  <2>1. change[r].op.first = "none"
    BY <1>4 DEF ListGround, OpFacts
  <2>2. Busy' \subseteq Busy /\ \A s \in Busy' : s \in ListRows /\ change'[s] = change[s]
    BY <1>2 DEF Busy
  <2>3. RowsThere'
    BY <1>1, <2>0, <2>2 DEF RowsThere, listCauses
  <2>4. ChangesAgree'
    BY <1>1, <1>2, <2>0, <2>2 DEF ChangesAgree
  <2>5. FetchFollows'
    BY <2>0 DEF FetchFollows, LoadingHasFetch, listCauses
  <2>6. PageAnswers'
    BY <1>1, <2>0, <2>2 DEF PageAnswers, listCauses
  <2>7. ASSUME Landed', NEW q \in ListRows
        PROVE  RowAgrees(q)'
    <3>0. RowAgrees(q)
      BY <2>0, <2>7 DEF RowsAgree, Landed, listCauses
    <3>1. Shown' = Shown
      BY <1>1 DEF Shown
    <3>2. CASE q # r
      <4>1. change'[q] = change[q]
        BY <1>2, <3>2
      <4> QED
        BY <1>1, <2>0, <3>0, <3>1, <4>1 DEF RowAgrees, Leaving, listCauses
    <3>3. CASE q = r
      <4>1. ~Leaving(change[r])
        BY <2>0, <2>1 DEF Leaving
      <4> QED
        BY <1>1, <1>2, <2>0, <3>0, <3>1, <3>3, <4>1, NothingIs DEF RowAgrees, Leaving, listCauses
    <3> QED
      BY <3>2, <3>3
  <2>8. RowsAgree'
    BY <2>7 DEF RowsAgree
  <2>9. RowsApart'
    BY <1>1, <2>0 DEF RowsApart, Landed, listCauses
  <2> QED
    BY <2>3, <2>4, <2>5, <2>6, <2>8, <2>9
<1> QED
  BY <1>3, <1>4

\* What an edit leaves of the list s: each row but the one edited as it was, none of them
\* twice that was not, and row r off the list, in its new phase or at the head.
EditedTo(s, w, what, r, phase) ==
  /\ w \in Seq(Items) /\ Len(w) \in Nat
  /\ \A i \in 1..Len(w) :
       \/ what = "prepend" /\ w[i].id = r /\ w[i].st = phase
       \/ /\ what = "remove" => w[i].id # r
          /\ \E j \in 1..Len(s) : /\ w[i].id = s[j].id
                                  /\ IF what = "update" /\ w[i].id = r THEN w[i].st = phase
                                                                     ELSE w[i].st = s[j].st
  /\ \A j \in 1..Len(s) : ~(what = "remove" /\ s[j].id = r) =>
       \E i \in 1..Len(w) : w[i].id = s[j].id
  /\ what = "prepend" => \E i \in 1..Len(w) : w[i].id = r
  /\ /\ what = "prepend" => \A j \in 1..Len(s) : s[j].id # r
     /\ \A i, j \in 1..Len(s) : s[i].id = s[j].id => i = j
     => \A i, j \in 1..Len(w) : w[i].id = w[j].id => i = j

LEMMA EditIs ==
  ASSUME ListGround, NEW r \in ListRows, NEW what \in {"none", "remove", "update", "prepend"},
         NEW phase, what \in {"update", "prepend"} => phase \in {"open", "done"},
         Edit(what, r, phase)
  PROVE  EditedTo(items, items', what, r, phase)
<1>0. items \in Seq(Items) /\ Len(items) \in Nat
  BY DEF ListGround
<1>1. CASE what = "none"
  <2>1. items' = items
    BY <1>1 DEF Edit
  <2> QED
    BY <1>0, <1>1, <2>1 DEF EditedTo
<1>2. CASE what = "remove"
  <2>1. TakenOff(items, items', r)
    BY <1>0, <1>2, RemoveIs DEF Edit
  <2>2. /\ items' \in Seq(Items) /\ Len(items') \in Nat
        /\ \A n \in 1..Len(items') :
             \E i \in 1..Len(items) : items'[n] = items[i] /\ items[i].id # r
        /\ \A i \in 1..Len(items) : items[i].id # r =>
             \E n \in 1..Len(items') : items'[n] = items[i]
        /\ (\A i, j \in 1..Len(items) : items[i].id = items[j].id => i = j) =>
             \A m, n \in 1..Len(items') : items'[m].id = items'[n].id => m = n
    BY <2>1 DEF TakenOff
  <2> QED
    BY <1>2, <2>2 DEF EditedTo
<1>3. CASE what = "update"
  <2>1. items' = Updated(r, phase)
    BY <1>3 DEF Edit
  <2>2. /\ items' \in Seq(Items) /\ Len(items') = Len(items)
        /\ \A i \in 1..Len(items) :
             /\ items'[i].id = items[i].id
             /\ items'[i].st = IF items[i].id = r THEN phase ELSE items[i].st
    BY <1>0, <1>3, <2>1, UpdateIs
  <2> QED
    BY <1>0, <1>3, <2>2 DEF EditedTo
<1>4. CASE what = "prepend"
  <2>1. items' = <<[id |-> r, st |-> phase]>> \o items
    BY <1>4 DEF Edit
  <2>0. phase \in {"open", "done"}
    BY <1>4
  <2>a. PutAtHead(items, items', r, phase)
    BY <1>0, <2>0, <2>1, PrependIs
  <2>2. /\ items' \in Seq(Items) /\ Len(items') = Len(items) + 1
        /\ items'[1].id = r /\ items'[1].st = phase
        /\ \A i \in 1..Len(items) : items'[i + 1] = items[i]
    BY <2>a DEF PutAtHead
  <2>3. ASSUME NEW i \in 1..Len(items'), i # 1
        PROVE  i - 1 \in 1..Len(items) /\ items'[i] = items[i - 1]
    <3>1. i - 1 \in 1..Len(items) /\ (i - 1) + 1 = i
      BY <1>0, <2>2, <2>3
    <3> QED
      BY <2>2, <3>1
  <2>4. 1 \in 1..Len(items') /\ \A j \in 1..Len(items) : j + 1 \in 1..Len(items')
    BY <1>0, <2>2
  <2>5. ASSUME \A j \in 1..Len(items) : items[j].id # r,
               \A i, j \in 1..Len(items) : items[i].id = items[j].id => i = j,
               NEW i \in 1..Len(items'), NEW j \in 1..Len(items'), items'[i].id = items'[j].id
        PROVE  i = j
    <3>0. i \in Nat /\ j \in Nat
      BY <1>0, <2>2
    <3>1. CASE i # 1 /\ j # 1
      <4>0. i - 1 \in 1..Len(items) /\ items'[i] = items[i - 1]
        BY <2>3, <3>1
      <4>a. j - 1 \in 1..Len(items) /\ items'[j] = items[j - 1]
        BY <2>3, <3>1
      <4>1. i - 1 = j - 1
        BY <2>5, <4>0, <4>a
      <4> QED
        BY <3>0, <4>1
    <3>2. CASE i = 1 /\ j # 1
      <4>1. j - 1 \in 1..Len(items) /\ items'[j] = items[j - 1]
        BY <2>3, <3>2
      <4> QED
        BY <2>2, <2>5, <3>2, <4>1
    <3>3. CASE i # 1 /\ j = 1
      <4>1. i - 1 \in 1..Len(items) /\ items'[i] = items[i - 1]
        BY <2>3, <3>3
      <4> QED
        BY <2>2, <2>5, <3>3, <4>1
    <3>4. CASE i = 1 /\ j = 1
      BY <3>4
    <3> QED
      BY <3>1, <3>2, <3>3, <3>4
  <2>6. \A i \in 1..Len(items') : \/ items'[i].id = r /\ items'[i].st = phase
                                  \/ \E j \in 1..Len(items) : items'[i] = items[j]
    BY <2>2, <2>3
  <2>7. \A j \in 1..Len(items) : \E i \in 1..Len(items') : items'[i] = items[j]
    BY <2>2, <2>4
  <2>8. Len(items') \in Nat
    BY <1>0, <2>2
  <2> QED
    BY <1>4, <2>2, <2>4, <2>5, <2>6, <2>7, <2>8 DEF EditedTo
<1> QED
  BY <1>1, <1>2, <1>3, <1>4

\* A call that was carried out ends: its row leaves the list, shows its new phase, or
\* takes the head.
LEMMA SucceedKeeps ==
  ASSUME ListReady, NEW r \in ListRows, Succeed(r)
  PROVE  ListKept
<1> USE DEF ListReady, ListKept
<1> DEFINE op == change[r].op
<1>0. /\ change[r].st = "done" /\ op.then # "reload" /\ Finish(r)
      /\ UNCHANGED <<page, row, fetcher, cursor, more, loading, error, fetch, dropped, crossed>>
      /\ undo' \in {undo, r}
      /\ misplaced' = (misplaced \/ (op.then = "prepend" /\ fetcher # Newest))
      /\ aside' = IF op.to = "same" /\ op.then = "remove" THEN aside \cup {r} ELSE aside
  BY DEF Succeed
<1>1. OpFacts(op) /\ r \in Busy /\ op \in page.ops /\ (op.to # "same" => row[r] = op.to)
  BY <1>0 DEF ListGround, Busy, ChangesAgree
<1>2. /\ Busy' = Busy \ {r} /\ change'[r] = NoChange
      /\ \A s \in ListRows : s # r => change'[s] = change[s]
  BY <1>0, CallEnds
<1>3. Edit(op.then, r, row[r])
  <2>1. (IF op.to = "same" THEN row[r] ELSE op.to) = row[r]
    BY <1>1
  <2> QED
    BY <2>1 DEF Succeed
<1>4. row[r] # "absent"
  <2>1. op.then = "prepend" => op.to = "open"
    BY <1>1 DEF OpFacts
  <2>2. op.then # "prepend" => row[r] # "absent"
    BY <1>1 DEF RowsThere
  <2> QED
    BY <1>1, <2>1, <2>2
<1>5. Busy' \subseteq Busy /\ \A s \in Busy' : s \in ListRows /\ change'[s] = change[s]
  BY <1>2 DEF Busy
<1>6. Landed' => Landed
  BY <1>0 DEF Landed
<1>7. Landed' => RowAgrees(r) /\ \A q \in ListRows : RowAgrees(q)
  BY <1>6 DEF RowsAgree
<1>8. EditedTo(items, items', op.then, r, row[r])
  <2>1. op.then \in {"none", "remove", "update", "prepend"}
    BY <1>0, <1>1 DEF OpFacts
  <2>2. op.then \in {"update", "prepend"} => row[r] \in {"open", "done"}
    BY <1>1 DEF OpFacts
  <2> QED
    BY <1>3, <2>1, <2>2, EditIs
<1>9. ASSUME NEW i \in 1..Len(items')
      PROVE  items'[i].id = r \/ items'[i].id \in Shown
  <2>1. items'[i].id = r \/ \E j \in 1..Len(items) : items'[i].id = items[j].id
    BY <1>8 DEF EditedTo
  <2> QED
    BY <2>1 DEF Shown
<1>10. RowsThere'
  <2>1. \A i \in 1..Len(items') : row'[items'[i].id] # "absent"
    BY <1>0, <1>4, <1>9 DEF RowsThere, Shown
  <2>2. \A s \in {cursor', fetch'.next, fetch'.cur, undo'} \cup aside' :
          s # NoRow => row'[s] # "absent"
    BY <1>0, <1>4 DEF RowsThere
  <2>3. /\ \A t, s \in ListRows : row'[t] = "absent" /\ t < s => row'[s] = "absent"
        /\ \A i \in 1..Len(fetch'.page) : row'[fetch'.page[i].id] # "absent"
    BY <1>0 DEF RowsThere
  <2>4. \A b \in Busy' :
         IF change'[b].op.then = "prepend"
           THEN /\ \A s \in ListRows : b < s => row'[s] = "absent"
                /\ \A s \in ListRows : s < b => row'[s] # "absent"
                /\ \A s \in Busy' : change'[s].op.then = "prepend" => s = b
           ELSE row'[b] # "absent"
    BY <1>0, <1>5 DEF RowsThere
  <2> QED
    BY <2>1, <2>2, <2>3, <2>4 DEF RowsThere
<1>11. ChangesAgree'
  BY <1>0, <1>2, <1>5 DEF ChangesAgree
<1>12. FetchFollows'
  BY <1>0 DEF FetchFollows, LoadingHasFetch
<1>13. PageAnswers'
  BY <1>0, <1>5 DEF PageAnswers
<1>14. Shown' \subseteq Shown \cup {r} /\ Shown \ {r} \subseteq Shown'
  <2>1. \A j \in 1..Len(items) : items[j].id # r => items[j].id \in Shown'
    BY <1>8 DEF EditedTo, Shown
  <2> QED
    BY <1>9, <2>1 DEF Shown
<1>15. ASSUME Landed', NEW q \in ListRows, q # r
       PROVE  RowAgrees(q)'
  <2>1. RowAgrees(q)
    BY <1>7, <1>15
  <2>2. change'[q] = change[q] /\ (q \in aside' <=> q \in aside) /\ (q \in Shown' <=> q \in Shown)
    BY <1>0, <1>2, <1>14, <1>15
  <2>3. ASSUME NEW i \in 1..Len(items'), items'[i].id = q
        PROVE  \E j \in 1..Len(items) : items[j].id = q /\ items'[i].st = items[j].st
    BY <1>8, <1>15, <2>3 DEF EditedTo
  <2> QED
    BY <1>0, <2>1, <2>2, <2>3 DEF RowAgrees, Leaving
<1>16. ASSUME Landed'
       PROVE  RowAgrees(r)'
  <2>1. RowAgrees(r)
    BY <1>7, <1>16
  <2>2. op.first = "remove" => row[r] = "done" /\ fetcher.want = "open" /\ r \notin Shown
    BY <1>0, <1>1, <2>1 DEF RowAgrees, OpFacts, ListGround, PageFacts, ChangesAgree
  <2>3. op.then = "prepend" => r \notin Shown
    BY <2>1 DEF RowAgrees
  <2>4. ASSUME r \notin aside', NEW i \in 1..Len(items'), items'[i].id = r
        PROVE  items'[i].st = row[r]
    <3>1. CASE op.then \in {"update", "prepend"}
      <4>1. \/ op.then = "prepend" /\ items'[i].st = row[r]
            \/ /\ \E j \in 1..Len(items) : items[j].id = r
               /\ op.then = "update" => items'[i].st = row[r]
        BY <1>8, <2>4 DEF EditedTo
      <4>2. (\E j \in 1..Len(items) : items[j].id = r) => r \in Shown
        BY DEF Shown
      <4> QED
        BY <2>3, <3>1, <4>1, <4>2
    <3>2. CASE op.then = "remove"
      BY <1>8, <2>4, <3>2 DEF EditedTo
    <3>3. CASE op.then = "none"
      <4>1. items' = items /\ r \notin aside
        BY <1>0, <1>3, <2>4, <3>3 DEF Edit
      <4>2. op.to = "same"
        BY <1>1, <2>2, <2>4, <3>3, <4>1 DEF OpFacts, Shown
      <4> QED
        BY <2>1, <2>4, <4>1, <4>2 DEF RowAgrees
    <3> QED
      BY <1>0, <1>1, <3>1, <3>2, <3>3 DEF OpFacts
  <2>5. ASSUME r \notin aside', Wants(fetcher, row[r]), ~(more /\ Past(fetcher, r, cursor))
        PROVE  r \in Shown'
    <3>1. op.then # "remove"
      BY <1>0, <1>1, <2>5 DEF OpFacts, Wants, ListGround
    <3>2. CASE op.then = "prepend"
      BY <1>8, <3>2 DEF EditedTo, Shown
    <3>3. CASE op.then # "prepend"
      <4>1. op.first # "remove"
        BY <2>2, <2>5 DEF Wants
      <4>2. ~Leaving(change[r]) /\ r \notin aside
        BY <1>0, <2>5, <3>3, <4>1 DEF Leaving
      <4>3. r \in Shown
        BY <2>1, <2>5, <4>2 DEF RowAgrees
      <4>4. PICK j \in 1..Len(items) : items[j].id = r
        BY <4>3 DEF Shown
      <4>5. \E i \in 1..Len(items') : items'[i].id = r
        BY <1>8, <3>1, <4>4 DEF EditedTo
      <4> QED
        BY <4>5 DEF Shown
    <3> QED
      BY <3>2, <3>3
  <2> QED
    BY <1>0, <1>2, <2>4, <2>5, NothingIs DEF RowAgrees
<1>17. RowsAgree'
  BY <1>15, <1>16 DEF RowsAgree
<1>18. RowsApart'
  <2> SUFFICES ASSUME Landed', ~misplaced'
               PROVE  /\ \A i, j \in 1..Len(items') : items'[i].id = items'[j].id => i = j
                      /\ more => \A i \in 1..Len(items') : ~Past(fetcher, items'[i].id, cursor)
    BY <1>0 DEF RowsApart
  <2>1. /\ \A i, j \in 1..Len(items) : items[i].id = items[j].id => i = j
        /\ more => \A i \in 1..Len(items) : ~Past(fetcher, items[i].id, cursor)
    BY <1>0, <1>6 DEF RowsApart
  <2>2. op.then = "prepend" => \A j \in 1..Len(items) : items[j].id # r
    BY <1>7 DEF RowAgrees, Shown
  <2>3. \A i, j \in 1..Len(items') : items'[i].id = items'[j].id => i = j
    BY <1>8, <2>1, <2>2 DEF EditedTo
  <2>4. ASSUME more, op.then = "prepend"
        PROVE  ~Past(fetcher, r, cursor)
    <3>1. fetcher = Newest /\ cursor # NoRow
      BY <1>0, <2>4 DEF Landed
    <3>2. cursor \in ListRows /\ cursor \in Nat /\ r \in Nat
      BY <3>1 DEF ListGround, ListRows, NoRow
    <3>3. ~(r < cursor)
      <4>1. row[cursor] # "absent"
        BY <3>1 DEF RowsThere
      <4>2. r < cursor => row[cursor] = "absent"
        BY <1>1, <2>4, <3>2 DEF RowsThere
      <4> QED
        BY <4>1, <4>2
    <3>4. ~Newest.asc
      BY DEF Newest, Fetcher
    <3> QED
      BY <3>1, <3>2, <3>3, <3>4 DEF Past
  <2>5. ASSUME more, NEW i \in 1..Len(items')
        PROVE  ~Past(fetcher, items'[i].id, cursor)
    <3>1. CASE op.then = "prepend" /\ items'[i].id = r
      BY <2>4, <2>5, <3>1
    <3>2. CASE \E j \in 1..Len(items) : items'[i].id = items[j].id
      BY <2>1, <2>5, <3>2
    <3> QED
      BY <1>8, <3>1, <3>2 DEF EditedTo
  <2> QED
    BY <2>3, <2>5
<1> QED
  BY <1>10, <1>11, <1>12, <1>13, <1>17, <1>18
----------------------------------------------------------------------------
(* The invariant. *)

\* The page is mounted: its first page is on its way.
LEMMA ListStarts == ListInit => ListIInv
<1> SUFFICES ASSUME ListInit PROVE ListIInv
  OBVIOUS
<1>1. PageFacts(page) /\ page.first \in AllFetchers /\ page.first \in page.fetchers
  BY PagesAre, PagesHave DEF ListInit, PageFacts
<1>2. /\ fetch \in Fetches /\ fetch.st = "sent" /\ fetch.f = fetcher /\ fetch.replace
      /\ fetch.page = <<>> /\ fetch.cur = NoRow /\ fetch.next = NoRow
  BY <1>1, NothingIs DEF ListInit, Fetches
<1>3. items = <<>> /\ <<>> \in Seq(Items) /\ Len(items) = 0 /\ Len(fetch.page) = 0
  BY <1>2 DEF ListInit
<1>4. change = [r \in ListRows |-> NoChange] /\ Busy = {}
  BY NothingIs DEF ListInit, Busy
<1>5. /\ row \in [ListRows -> RowStages]
      /\ \A r, s \in ListRows : row[r] = "absent" /\ r < s => row[s] = "absent"
  <2>1. PICK n \in 0..LastRow : row = [r \in ListRows |-> IF r <= n THEN "open" ELSE "absent"]
    BY DEF ListInit
  <2>2. \A r \in ListRows : r \in Nat
    BY DEF ListRows
  <2> QED
    BY <2>1, <2>2 DEF RowStages
<1>6. ListTypeOK
  <2>1. change \in [ListRows -> Changes]
    BY <1>4, NothingIs
  <2>2. 0 \in 0..LastRow
    BY ListAssumption
  <2>3. items \in Seq(Items) /\ fetcher \in AllFetchers
    BY <1>1, <1>3 DEF ListInit
  <2> QED
    BY <1>2, <1>5, <2>1, <2>2, <2>3 DEF ListInit, ListTypeOK, Fetches, Changes, NoRow
<1>7. RowsThere
  BY <1>2, <1>3, <1>4, <1>5 DEF RowsThere, ListInit
<1>8. ChangesAgree
  BY <1>1, <1>4 DEF ChangesAgree, ListInit
<1>9. FetchFollows
  BY <1>2 DEF FetchFollows, LoadingHasFetch, ListInit
<1>10. PageAnswers /\ RowsAgree /\ RowsApart
  BY <1>2 DEF PageAnswers, RowsAgree, RowsApart, Landed
<1> QED
  BY <1>6, <1>7, <1>8, <1>9, <1>10 DEF ListIInv

LEMMA ListStays ==
  ASSUME UNCHANGED <<page, row, fetcher, items, cursor, more, loading, error, fetch, change,
                     listCauses>>,
         ListReady, undo' = undo \/ undo' = NoRow
  PROVE  ListKept
<1> USE DEF ListReady, ListKept, listCauses
<1>1. Busy' = Busy /\ Shown' = Shown
  BY DEF Busy, Shown
<1>2. RowsThere'
  BY <1>1 DEF RowsThere
<1>3. ChangesAgree'
  BY <1>1 DEF ChangesAgree
<1>4. FetchFollows'
  BY DEF FetchFollows, LoadingHasFetch
<1>5. PageAnswers'
  BY <1>1 DEF PageAnswers
<1>6. RowsAgree' /\ RowsApart'
  BY <1>1 DEF RowsAgree, RowAgrees, RowsApart, Landed, Leaving
<1> QED
  BY <1>2, <1>3, <1>4, <1>5, <1>6

LEMMA ListMoves == ListIInv /\ [ListNext]_listVars => ListIInv'
<1> SUFFICES ASSUME ListIInv, [ListNext]_listVars PROVE ListIInv'
  OBVIOUS
<1>1. ListTypeOK /\ ListReady
  BY ListHas DEF ListIInv, ListReady
<1>2. ListTypeOK'
  BY <1>1, ListTypedNext DEF ListReady
<1>3. ListKept
  <2>1. fetcher \in page.fetchers
    BY <1>1 DEF ListReady, ChangesAgree
  <2>2. ASSUME NEW f \in page.fetchers, ChangeFetcher(f) PROVE ListKept
    BY <1>1, <2>2, RestartKeeps DEF ChangeFetcher
  <2>3. CASE Retry
    BY <1>1, <2>1, <2>3, RestartKeeps DEF Retry
  <2>4. CASE LoadMore
    BY <1>1, <2>4, LoadMoreKeeps
  <2>5. CASE ServeFetch \/ FailFetch
    BY <1>1, <2>5, ServerKeeps
  <2>6. CASE ReceivePage
    BY <1>1, <2>6, PageKeeps
  <2>7. CASE ReceiveFailure
    BY <1>1, <2>7, FailureKeeps
  <2>8. ASSUME NEW r \in ListRows, NEW op \in page.ops, Begin(op, r) PROVE ListKept
    BY <1>1, <2>8, BeginKeeps
  <2>9. ASSUME NEW r \in ListRows, Carry(r) PROVE ListKept
    BY <1>1, <2>9, CarryKeeps
  <2>10. ASSUME NEW r \in ListRows, SucceedReload(r) PROVE ListKept
    <3>1. /\ \A s \in ListRows : change'[s] = change[s] \/ change'[s] = NoChange
          /\ Restart(fetcher) /\ page' = page /\ row' = row /\ items' = items /\ undo' = undo
      BY <1>1, <2>10, CallEnds DEF SucceedReload, ListReady
    <3> QED
      BY <1>1, <2>1, <3>1, RestartKeeps
  <2>11. ASSUME NEW r \in ListRows, Succeed(r) PROVE ListKept
    BY <1>1, <2>11, SucceedKeeps
  <2>12. ASSUME NEW r \in ListRows, Fail(r) PROVE ListKept
    BY <1>1, <2>12, FailKeeps
  <2>13. CASE UndoExpires
    BY <1>1, <2>13, ListStays DEF UndoExpires, hookVars
  <2>14. CASE UNCHANGED listVars
    BY <1>1, <2>14, ListStays DEF listVars, hookVars
  <2> QED
    BY <2>2, <2>3, <2>4, <2>5, <2>6, <2>7, <2>8, <2>9, <2>10, <2>11, <2>12, <2>13, <2>14
       DEF ListNext
<1> QED
  BY <1>2, <1>3 DEF ListKept, ListIInv

\* No row is shown twice, and a list at rest tells the truth.
LEMMA ListPromises == ListIInv => RowsOnce /\ ListTruthful /\ LoadingHasFetch
<1> SUFFICES ASSUME ListIInv PROVE RowsOnce /\ ListTruthful /\ LoadingHasFetch
  OBVIOUS
<1>0. ListGround
  BY ListHas DEF ListIInv
<1>1. ~(dropped \/ crossed \/ fetch.replace \/ error) /\ (fetch.st = "none" \/ ~dropped) => Landed
  BY <1>0 DEF Landed, ListIInv, FetchFollows, ListGround
<1>2. RowsOnce
  BY <1>1 DEF RowsOnce, ListIInv, RowsApart
<1>3. ListTruthful
  <2> SUFFICES ASSUME Quiet, ~error, ~dropped, ~crossed PROVE ListTruthful
    BY DEF ListTruthful
  <2>1. fetch.st = "none" /\ Busy = {} /\ \A r \in ListRows : change[r] = NoChange
    BY DEF Quiet, ListIInv, ChangesAgree
  <2>2. Landed
    BY <1>1, <2>1 DEF ListIInv, FetchFollows
  <2>3. \A r \in ListRows : RowAgrees(r) /\ ~Leaving(change[r]) /\ change[r].st = "none"
    BY <2>1, <2>2, NothingIs DEF Leaving, ListIInv, RowsAgree
  <2>4. ASSUME NEW i \in 1..Len(items), items[i].id \notin aside
        PROVE  items[i].st = row[items[i].id]
    <3>1. items[i].id \in ListRows
      BY <1>0 DEF ListGround
    <3> QED
      BY <2>3, <2>4, <3>1 DEF RowAgrees
  <2>5. ASSUME ~more, NEW r \in ListRows \ aside, Wants(fetcher, row[r])
        PROVE  r \in Shown
    BY <2>3, <2>5 DEF RowAgrees
  <2> QED
    BY <2>4, <2>5 DEF ListTruthful
<1> QED
  BY <1>2, <1>3 DEF ListIInv, FetchFollows

\* The invariant, over every behaviour of every page.
THEOREM ListInductive == ListSpec => []ListIInv
BY ListStarts, ListMoves, PTL DEF ListSpec

\* A list shows each row once and, at rest, what the server holds; it shows that it loads
\* only while its fetch is under way, through drops, retries and failures
\* (hooks/useInfiniteList.ts).
THEOREM ListTruthfulHolds == ListSpec => [](RowsOnce /\ ListTruthful /\ LoadingHasFetch)
BY ListPromises, ListInductive, PTL

----------------------------------------------------------------------------
(* The deck. *)

\* The kind of a request.
Requests == [st : {"none", "sent", "done", "refused", "lost"}, app : Applicants \cup {0},
             to : Verdicts \cup {Undecided}, back : Decisions]

\* A request keeps its kind as its state changes.
LEMMA RequestsTyped ==
  ASSUME TriageTypeOK, NEW p \in Patches
  PROVE  /\ NoPatch \in Requests /\ NoDecision \in Decisions
         /\ patch \in [Patches -> Requests] /\ patch[p].app \in Applicants \cup {0}
         /\ patch[p].back \in Decisions /\ patch[p].to \in Verdicts \cup {Undecided}
         /\ \A st \in {"none", "sent", "done", "refused", "lost"} :
              [patch[p] EXCEPT !.st = st] \in Requests
         /\ \A x \in Applicants, to \in Verdicts \cup {Undecided}, back \in Decisions :
              [st |-> "sent", app |-> x, to |-> to, back |-> back] \in Requests
BY DEF TriageTypeOK, Requests, NoPatch, NoDecision, Undecided, Decisions

\* A request made has its kind.
LEMMA SendTyped ==
  ASSUME TriageTypeOK, NEW p \in Patches, NEW x \in Applicants,
         NEW to \in Verdicts \cup {Undecided}, NEW back \in Decisions, Send(p, x, to, back)
  PROVE  patch' \in [Patches -> Requests] /\ patched' \in 0..MaxPatches
<1>1. patch' = [patch EXCEPT ![p] = [st |-> "sent", app |-> x, to |-> to, back |-> back]]
  BY DEF Send
<1>2. patched' \in 0..MaxPatches
  BY TriageAssumption DEF Send, TriageTypeOK
<1> QED
  BY <1>1, <1>2, RequestsTyped

\* A step leaves every variable of the session a value of its kind.
LEMMA TriageTypedNext ==
  ASSUME TriageTypeOK, PillAgrees, PatchesAgree, [TriageNext]_triageVars
  PROVE  TriageTypeOK'
<1> DEFINE Pills == [app : Applicants \cup {0}, of : Verdicts \cup {Undecided},
                     at : Applicants \cup {0}]
           Typed(v, d, i, f, u, r, n, w, s, t) ==
             /\ v \in [Applicants -> Verdicts \cup {Undecided}]
             /\ d \in [Applicants -> Decisions] /\ i \in Applicants
             /\ f \in {"no", "next", "prev"} /\ u \in Pills
             /\ r \in [Patches -> Requests] /\ n \in 0..MaxPatches
             /\ w \in Applicants /\ s \in BOOLEAN /\ t \subseteq Applicants
<1>0. /\ TriageTypeOK => Typed(verdictAt, decided, index, flying, pendingUndo, patch, patched,
                               wanted, strayed, doubtful)
      /\ Typed(verdictAt', decided', index', flying', pendingUndo', patch', patched',
               wanted', strayed', doubtful') => TriageTypeOK'
  BY DEF TriageTypeOK, Requests
<1>. HIDE DEF Pills
<1>a. NoUndo \in Pills /\ NoDecision \in Decisions /\ 1 \in Applicants
  BY TriageAssumption DEF NoUndo, NoDecision, Pills, Decisions, Undecided, Applicants
<1>b. \A x \in Applicants, v \in Verdicts : /\ [app |-> x, of |-> v, at |-> x] \in Pills
                                           /\ [of |-> v, at |-> x] \in Decisions
  BY DEF Pills, Decisions
<1>c. \A x \in Applicants : decided[x] \in Decisions
  BY <1>0
<1>1. ASSUME NEW dir \in {"next", "prev"}, SlideTo(dir) \/ Swipe(dir)
      PROVE  TriageTypeOK'
  BY <1>0, <1>1 DEF SlideTo, Swipe, Following
<1>2. CASE SlideEnds
  BY <1>0, <1>2 DEF SlideEnds, Following
<1>3. ASSUME NEW i \in Applicants, Jump(i)
      PROVE  TriageTypeOK'
  BY <1>0, <1>3 DEF Jump
<1>4. ASSUME NEW p \in Patches, NEW v \in Verdicts, Decide(p, v)
      PROVE  TriageTypeOK'
  <2>1. patch' \in [Patches -> Requests] /\ patched' \in 0..MaxPatches
    BY <1>0, <1>a, <1>4, SendTyped DEF Decide
  <2>2. decided' \in [Applicants -> Decisions] /\ pendingUndo' \in Pills
    BY <1>0, <1>b, <1>4 DEF Decide
  <2>3. wanted' \in Applicants /\ flying' \in {"no", "next", "prev"}
    BY <1>0, <1>4, TriageAssumption DEF Decide, Applicants
  <2> QED
    BY <1>0, <1>4, <2>1, <2>2, <2>3 DEF Decide
<1>5. ASSUME NEW p \in Patches, NEW x \in Applicants, NEW at, Retract(p, x, at)
      PROVE  /\ patch' \in [Patches -> Requests] /\ patched' \in 0..MaxPatches
             /\ decided' \in [Applicants -> Decisions] /\ pendingUndo' \in Pills
             /\ doubtful' \subseteq Applicants
  <2>1. patch' \in [Patches -> Requests] /\ patched' \in 0..MaxPatches
    BY <1>c, <1>5, SendTyped DEF Retract
  <2> QED
    BY <1>0, <1>a, <1>5, <2>1 DEF Retract
<1>6. ASSUME NEW p \in Patches, Undo(p) \/ ClearDecision(p)
      PROVE  TriageTypeOK'
  <2>1. CASE Undo(p)
    <3>1. pendingUndo.app \in Applicants /\ pendingUndo.at \in Applicants
      BY <2>1 DEF Undo, PillAgrees
    <3> QED
      BY <1>0, <1>5, <2>1, <3>1 DEF Undo
  <2>2. CASE ClearDecision(p)
    BY <1>0, <1>5, <2>2 DEF ClearDecision
  <2> QED
    BY <1>6, <2>1, <2>2
<1>7. ASSUME NEW p \in Patches, ServePatch(p)
      PROVE  TriageTypeOK'
  <2>0. PICK st \in {"done", "lost", "refused"} : patch' = [patch EXCEPT ![p].st = st]
    BY <1>7 DEF ServePatch
  <2>1. patch' \in [Patches -> Requests]
    BY <2>0, RequestsTyped
  <2>2. patch[p].app \in Applicants
    BY <1>7 DEF ServePatch, PatchesAgree, Awaited
  <2>3. verdictAt' \in [Applicants -> Verdicts \cup {Undecided}]
    BY <1>0, <1>7, RequestsTyped DEF ServePatch
  <2>4. doubtful' \subseteq Applicants
    BY <1>0, <1>7, <2>2 DEF ServePatch
  <2> QED
    BY <1>0, <1>7, <2>1, <2>3, <2>4 DEF ServePatch
<1>8. ASSUME NEW p \in Patches, PatchDone(p)
      PROVE  TriageTypeOK'
  BY <1>0, <1>8, RequestsTyped DEF PatchDone
<1>9. ASSUME NEW p \in Patches, PatchFailed(p)
      PROVE  TriageTypeOK'
  <2>1. patch' \in [Patches -> Requests]
    BY <1>9, RequestsTyped DEF PatchFailed
  <2>2. decided' \in [Applicants -> Decisions]
    BY <1>0, <1>a, <1>9, RequestsTyped DEF PatchFailed
  <2>3. pendingUndo' \in Pills
    BY <1>0, <1>a, <1>9 DEF PatchFailed
  <2> QED
    BY <1>0, <1>9, <2>1, <2>2, <2>3 DEF PatchFailed
<1>10. CASE DismissUndo
  BY <1>0, <1>a, <1>10 DEF DismissUndo
<1>11. CASE UNCHANGED triageVars
  BY <1>0, <1>11 DEF triageVars
<1> QED
  BY <1>1, <1>2, <1>3, <1>4, <1>6, <1>7, <1>8, <1>9, <1>10, <1>11 DEF TriageNext

----------------------------------------------------------------------------
(* The carousel. *)

\* A slide under way goes where it was asked to, and the carousel at rest is there: a
\* swipe begun during a slide asks anew, a jump or an undo during one strays.
LEMMA SlideKept ==
  ASSUME TriageTypeOK, PillAgrees, SlideAgrees, LandsWhereAsked, [TriageNext]_triageVars
  PROVE  SlideAgrees' /\ LandsWhereAsked'
<1> USE TriageAssumption DEF TriageTypeOK, Applicants, SlideAgrees, LandsWhereAsked, Following
<1>1. ASSUME NEW dir \in {"next", "prev"}, SlideTo(dir) \/ Swipe(dir)
      PROVE  SlideAgrees' /\ LandsWhereAsked'
  BY <1>1 DEF SlideTo, Swipe
<1>2. CASE SlideEnds
  BY <1>2 DEF SlideEnds
<1>3. ASSUME NEW i \in Applicants, Jump(i)
      PROVE  SlideAgrees' /\ LandsWhereAsked'
  BY <1>3 DEF Jump
<1>4. ASSUME NEW p \in Patches, NEW v \in Verdicts, Decide(p, v)
      PROVE  SlideAgrees' /\ LandsWhereAsked'
  BY <1>4 DEF Decide
<1>5. ASSUME NEW p \in Patches, Undo(p)
      PROVE  SlideAgrees' /\ LandsWhereAsked'
  BY <1>5 DEF Undo, PillAgrees
<1>6. CASE UNCHANGED <<index, flying, wanted, strayed>>
  BY <1>6
<1>7. ASSUME NEW p \in Patches, ClearDecision(p) \/ ServePatch(p) \/ PatchDone(p) \/ PatchFailed(p)
      PROVE  UNCHANGED <<index, flying, wanted, strayed>>
  BY <1>7 DEF ClearDecision, ServePatch, PatchDone, PatchFailed
<1>8. CASE DismissUndo \/ UNCHANGED triageVars
  BY <1>6, <1>8 DEF DismissUndo, triageVars
<1> QED
  BY <1>1, <1>2, <1>3, <1>4, <1>5, <1>6, <1>7, <1>8 DEF TriageNext

----------------------------------------------------------------------------
(* The decisions. *)

\* What the session shows, the server holds and the requests ask for agree.
VerdictsAgree == PillAgrees /\ PatchesAgree /\ TriageTruthful /\ UndoAims

\* A move of the cards, and the end of the pill's five seconds, change nothing the
\* agreement is about, but for the pill that goes.
LEMMA CardsMove ==
  ASSUME TriageTypeOK, VerdictsAgree,
         UNCHANGED <<verdictAt, decided, patch, doubtful>>,
         pendingUndo' = pendingUndo \/ pendingUndo' = NoUndo
  PROVE  VerdictsAgree'
<1> USE DEF VerdictsAgree, TriageTypeOK, Applicants
<1>1. PillAgrees' /\ UndoAims'
  BY DEF PillAgrees, UndoAims, NoUndo
<1>2. TriageTruthful'
  BY DEF TriageTruthful, Overlaps, Awaited
<1>3. PatchesAgree'
  BY DEF PatchesAgree, Awaited, NoUndo
<1> QED
  BY <1>1, <1>2, <1>3

\* A decision about an application with no request under way finds the server undecided,
\* unless there was a decision already: then the application is doubtful.
LEMMA DecideAgrees ==
  ASSUME TriageTypeOK, VerdictsAgree, NEW p \in Patches, NEW v \in Verdicts, Decide(p, v)
  PROVE  VerdictsAgree'
<1> USE TriageAssumption DEF VerdictsAgree, TriageTypeOK, Applicants, Decide, Send
<1>0. patch[p].st = "none" /\ Awaited' = Awaited \cup {p} /\ p \notin Awaited
  BY DEF NoPatch, Awaited
<1>1. PillAgrees' /\ UndoAims'
  BY DEF PillAgrees, UndoAims, NoUndo
<1>2. TriageTruthful'
  <2> SUFFICES ASSUME NEW x \in Applicants \ doubtful', ~Overlaps(x)'
               PROVE  decided'[x].of = verdictAt'[x]
    BY DEF TriageTruthful
  <2>1. x # index
    BY <1>0 DEF Overlaps
  <2>2. ~Overlaps(x)
    BY <1>0 DEF Overlaps
  <2> QED
    BY <2>1, <2>2 DEF TriageTruthful
<1>3. PatchesAgree'
  <2> SUFFICES ASSUME NEW q \in Awaited'
               PROVE  LET x == patch'[q].app
                          unserved == patch'[q].st \in {"sent", "refused"}
                      IN /\ x \in Applicants
                         /\ x \notin doubtful' =>
                              /\ patch'[q].st # "lost"
                              /\ \A r \in Awaited' : patch'[r].app = x => r = q
                              /\ decided'[x].of = patch'[q].to
                              /\ IF patch'[q].to = Undecided
                                   THEN /\ decided'[x] = NoDecision /\ pendingUndo'.app # x
                                        /\ unserved => verdictAt'[x] = patch'[q].back.of
                                   ELSE unserved => verdictAt'[x] = Undecided
                              /\ ~unserved => verdictAt'[x] = patch'[q].to
    BY DEF PatchesAgree
  <2>1. CASE q = p
    <3>1. /\ patch'[q] = [st |-> "sent", app |-> index, to |-> v, back |-> NoDecision]
          /\ index \in Applicants /\ v # Undecided
      BY <2>1 DEF Verdicts, Undecided
    <3>2. ASSUME index \notin doubtful'
          PROVE  /\ decided[index] = NoDecision /\ ~Overlaps(index)
                 /\ index \notin doubtful
      BY <3>2
    <3>3. ASSUME index \notin doubtful'
          PROVE  verdictAt[index] = Undecided
      BY <3>1, <3>2, <3>3 DEF TriageTruthful, NoDecision
    <3>4. ASSUME index \notin doubtful', NEW r \in Awaited', patch'[r].app = index
          PROVE  r = q
      BY <1>0, <2>1, <3>2, <3>4 DEF Overlaps, Awaited
    <3>5. decided'[index].of = v
      OBVIOUS
    <3> QED
      BY <2>1, <3>1, <3>3, <3>4, <3>5
  <2>2. CASE q # p
    <3>1. q \in Awaited /\ patch'[q] = patch[q] /\ patch[q].app \in Applicants
      BY <1>0, <2>2 DEF PatchesAgree
    <3>2. ASSUME patch[q].app \notin doubtful'
          PROVE  patch[q].app # index /\ patch[q].app \notin doubtful
      BY <3>1, <3>2 DEF Overlaps
    <3>3. ASSUME patch[q].app \notin doubtful', NEW r \in Awaited', patch'[r].app = patch[q].app
          PROVE  r = q
      BY <1>0, <3>1, <3>2, <3>3 DEF PatchesAgree, Awaited
    <3>4. ASSUME patch[q].app \notin doubtful'
          PROVE  decided'[patch[q].app] = decided[patch[q].app]
      BY <3>1, <3>2, <3>4
    <3> QED
      BY <3>1, <3>2, <3>3, <3>4 DEF PatchesAgree
  <2> QED
    BY <2>1, <2>2
<1> QED
  BY <1>1, <1>2, <1>3

\* A decision taken back, by the pill or by its banner: the request remembers what the
\* session showed, which is what the server holds when no other request is under way.
LEMMA RetractAgrees ==
  ASSUME TriageTypeOK, VerdictsAgree, NEW p \in Patches, NEW y \in Applicants,
         NEW at, Retract(p, y, at), verdictAt' = verdictAt
  PROVE  VerdictsAgree'
<1> USE TriageAssumption DEF VerdictsAgree, TriageTypeOK, Applicants, Retract, Send
<1>0. patch[p].st = "none" /\ Awaited' = Awaited \cup {p} /\ p \notin Awaited
  BY DEF NoPatch, Awaited
<1>1. PillAgrees' /\ UndoAims'
  BY DEF PillAgrees, UndoAims, NoUndo
<1>2. TriageTruthful'
  <2> SUFFICES ASSUME NEW x \in Applicants \ doubtful', ~Overlaps(x)'
               PROVE  decided'[x].of = verdictAt'[x]
    BY DEF TriageTruthful
  <2>1. x # y
    BY <1>0 DEF Overlaps
  <2>2. ~Overlaps(x)
    BY <1>0 DEF Overlaps
  <2> QED
    BY <2>1, <2>2 DEF TriageTruthful
<1>3. PatchesAgree'
  <2> SUFFICES ASSUME NEW q \in Awaited'
               PROVE  LET x == patch'[q].app
                          unserved == patch'[q].st \in {"sent", "refused"}
                      IN /\ x \in Applicants
                         /\ x \notin doubtful' =>
                              /\ patch'[q].st # "lost"
                              /\ \A r \in Awaited' : patch'[r].app = x => r = q
                              /\ decided'[x].of = patch'[q].to
                              /\ IF patch'[q].to = Undecided
                                   THEN /\ decided'[x] = NoDecision /\ pendingUndo'.app # x
                                        /\ unserved => verdictAt'[x] = patch'[q].back.of
                                   ELSE unserved => verdictAt'[x] = Undecided
                              /\ ~unserved => verdictAt'[x] = patch'[q].to
    BY DEF PatchesAgree
  <2>1. CASE q = p
    <3>1. patch'[q] = [st |-> "sent", app |-> y, to |-> Undecided, back |-> decided[y]]
      BY <2>1
    <3>2. ASSUME y \notin doubtful'
          PROVE  ~Overlaps(y) /\ y \notin doubtful
      BY <3>2
    <3>3. ASSUME y \notin doubtful'
          PROVE  verdictAt[y] = decided[y].of
      BY <3>2, <3>3 DEF TriageTruthful
    <3>4. ASSUME y \notin doubtful', NEW r \in Awaited', patch'[r].app = y
          PROVE  r = q
      BY <1>0, <2>1, <3>2, <3>4 DEF Overlaps, Awaited
    <3>5. decided'[y] = NoDecision /\ NoDecision.of = Undecided /\ pendingUndo'.app # y
      BY DEF NoDecision, NoUndo
    <3> QED
      BY <2>1, <3>1, <3>3, <3>4, <3>5
  <2>2. CASE q # p
    <3>1. q \in Awaited /\ patch'[q] = patch[q] /\ patch[q].app \in Applicants
      BY <1>0, <2>2 DEF PatchesAgree
    <3>2. ASSUME patch[q].app \notin doubtful'
          PROVE  patch[q].app # y /\ patch[q].app \notin doubtful
      BY <3>1, <3>2 DEF Overlaps
    <3>3. ASSUME patch[q].app \notin doubtful', NEW r \in Awaited', patch'[r].app = patch[q].app
          PROVE  r = q
      BY <1>0, <3>1, <3>2, <3>3 DEF PatchesAgree, Awaited
    <3>4. ASSUME patch[q].app \notin doubtful'
          PROVE  decided'[patch[q].app] = decided[patch[q].app]
      BY <3>1, <3>2, <3>4
    <3>5. pendingUndo'.app = pendingUndo.app \/ pendingUndo'.app = 0
      BY DEF NoUndo
    <3> QED
      BY <3>1, <3>2, <3>3, <3>4, <3>5 DEF PatchesAgree
  <2> QED
    BY <2>1, <2>2
<1> QED
  BY <1>1, <1>2, <1>3

\* A request is carried out, with its answer lost or not, or refused.
LEMMA ServeAgrees ==
  ASSUME TriageTypeOK, VerdictsAgree, NEW p \in Patches, ServePatch(p)
  PROVE  VerdictsAgree'
<1> USE TriageAssumption DEF VerdictsAgree, TriageTypeOK, Applicants, ServePatch
<1>0. /\ p \in Awaited /\ Awaited' = Awaited /\ patch[p].app \in Applicants
      /\ patch[p].st = "sent" /\ doubtful \subseteq doubtful'
  <2>0. PICK st \in {"done", "lost", "refused"} : patch' = [patch EXCEPT ![p].st = st]
    OBVIOUS
  <2>1. \A q \in Patches : patch'[q].st = "none" <=> patch[q].st = "none"
    BY <2>0
  <2> QED
    BY <2>1 DEF PatchesAgree, Awaited
<1>1. PillAgrees' /\ UndoAims'
  BY <1>0 DEF PillAgrees, UndoAims, NoUndo
<1>2. \A q \in Patches : /\ patch'[q].app = patch[q].app /\ patch'[q].to = patch[q].to
                         /\ patch'[q].back = patch[q].back
                         /\ q # p => patch'[q] = patch[q]
  OBVIOUS
<1>3. \A x \in Applicants : x # patch[p].app => verdictAt'[x] = verdictAt[x]
  OBVIOUS
<1>4. TriageTruthful'
  <2> SUFFICES ASSUME NEW x \in Applicants \ doubtful', ~Overlaps(x)'
               PROVE  decided'[x].of = verdictAt'[x]
    BY DEF TriageTruthful
  <2>1. x # patch[p].app /\ ~Overlaps(x)
    BY <1>0, <1>2 DEF Overlaps, Awaited
  <2> QED
    BY <1>0, <1>3, <2>1 DEF TriageTruthful
<1>5. PatchesAgree'
  <2> SUFFICES ASSUME NEW q \in Awaited'
               PROVE  LET x == patch'[q].app
                          unserved == patch'[q].st \in {"sent", "refused"}
                      IN /\ x \in Applicants
                         /\ x \notin doubtful' =>
                              /\ patch'[q].st # "lost"
                              /\ \A r \in Awaited' : patch'[r].app = x => r = q
                              /\ decided'[x].of = patch'[q].to
                              /\ IF patch'[q].to = Undecided
                                   THEN /\ decided'[x] = NoDecision /\ pendingUndo'.app # x
                                        /\ unserved => verdictAt'[x] = patch'[q].back.of
                                   ELSE unserved => verdictAt'[x] = Undecided
                              /\ ~unserved => verdictAt'[x] = patch'[q].to
    BY DEF PatchesAgree
  <2>1. q \in Awaited /\ q \in Patches /\ patch'[q].app = patch[q].app /\ patch[q].app \in Applicants
    BY <1>0, <1>2 DEF PatchesAgree, Awaited
  <2>2. ASSUME patch[q].app \notin doubtful', NEW r \in Awaited', patch'[r].app = patch[q].app
        PROVE  r = q
    BY <1>0, <1>2, <2>1, <2>2 DEF PatchesAgree, Awaited
  <2>3. CASE q = p
    BY <1>0, <1>2, <2>1, <2>2, <2>3 DEF PatchesAgree
  <2>4. CASE q # p
    <3>1. ASSUME patch[q].app \notin doubtful'
          PROVE  patch[q].app # patch[p].app
      BY <1>0, <1>2, <2>1, <2>2, <2>4, <3>1
    <3> QED
      BY <1>0, <1>2, <1>3, <2>1, <2>2, <2>4, <3>1 DEF PatchesAgree
  <2> QED
    BY <2>3, <2>4
<1> QED
  BY <1>1, <1>4, <1>5

\* An answer arrives: a refusal shows the application as the server holds it.
LEMMA AnswerAgrees ==
  ASSUME TriageTypeOK, VerdictsAgree, NEW p \in Patches, PatchDone(p) \/ PatchFailed(p)
  PROVE  VerdictsAgree'
<1> USE TriageAssumption DEF VerdictsAgree, TriageTypeOK, Applicants, PatchDone, PatchFailed
<1>0. /\ p \in Awaited /\ Awaited' = Awaited \ {p} /\ patch[p].app \in Applicants
      /\ doubtful' = doubtful /\ verdictAt' = verdictAt
  BY DEF PatchesAgree, Awaited, NoPatch
<1>1. \A q \in Patches : q # p => patch'[q] = patch[q]
  OBVIOUS
<1>2. \A x \in Applicants : x # patch[p].app => decided'[x] = decided[x]
  OBVIOUS
<1>3. pendingUndo' = pendingUndo \/ pendingUndo' = NoUndo
  OBVIOUS
<1>4. PillAgrees'
  BY <1>3 DEF PillAgrees
<1>5. TriageTruthful'
  <2> SUFFICES ASSUME NEW x \in Applicants \ doubtful', ~Overlaps(x)'
               PROVE  decided'[x].of = verdictAt'[x]
    BY DEF TriageTruthful
  <2>1. CASE x = patch[p].app
    <3>1. /\ patch[p].st # "lost" /\ decided[x].of = patch[p].to
          /\ patch[p].to = Undecided =>
               /\ decided[x] = NoDecision
               /\ patch[p].st \in {"sent", "refused"} => verdictAt[x] = patch[p].back.of
          /\ patch[p].to # Undecided /\ patch[p].st \in {"sent", "refused"}
               => verdictAt[x] = Undecided
          /\ patch[p].st \notin {"sent", "refused"} => verdictAt[x] = patch[p].to
      BY <1>0, <2>1 DEF PatchesAgree
    <3>2. CASE PatchDone(p)
      BY <1>0, <3>1, <3>2
    <3>3. CASE PatchFailed(p) /\ patch[p].to = Undecided
      <4>1. verdictAt[x] = patch[p].back.of
        BY <3>1, <3>3
      <4>2. CASE patch[p].back = NoDecision
        BY <1>0, <3>1, <3>3, <4>1, <4>2
      <4>3. CASE patch[p].back # NoDecision
        BY <1>0, <2>1, <3>3, <4>1, <4>3
      <4> QED
        BY <4>2, <4>3
    <3>4. CASE PatchFailed(p) /\ patch[p].to # Undecided
      BY <1>0, <2>1, <3>1, <3>4 DEF NoDecision
    <3> QED
      BY <3>2, <3>3, <3>4
  <2>2. CASE x # patch[p].app
    <3>1. ~Overlaps(x)
      BY <1>0, <1>1, <2>2 DEF Overlaps, Awaited
    <3> QED
      BY <1>0, <1>2, <2>2, <3>1 DEF TriageTruthful
  <2> QED
    BY <2>1, <2>2
<1>6. UndoAims'
  <2> SUFFICES ASSUME pendingUndo' # NoUndo, pendingUndo'.app \notin doubtful'
               PROVE  decided'[pendingUndo'.app] = [of |-> pendingUndo'.of, at |-> pendingUndo'.at]
    BY DEF UndoAims
  <2>1. /\ pendingUndo' = pendingUndo /\ pendingUndo.app \in Applicants
        /\ pendingUndo.app \notin doubtful
        /\ decided[pendingUndo.app] = [of |-> pendingUndo.of, at |-> pendingUndo.at]
    BY <1>0, <1>3 DEF UndoAims, PillAgrees
  <2>2. CASE pendingUndo.app # patch[p].app
    BY <1>2, <2>1, <2>2
  <2>3. CASE pendingUndo.app = patch[p].app
    <3>1. patch[p].to # Undecided
      BY <1>0, <2>1, <2>3 DEF PatchesAgree
    <3>2. PatchDone(p)
      BY <2>1, <2>3, <3>1
    <3> QED
      BY <2>1, <3>2
  <2> QED
    BY <2>2, <2>3
<1>7. PatchesAgree'
  <2> SUFFICES ASSUME NEW q \in Awaited'
               PROVE  LET x == patch'[q].app
                          unserved == patch'[q].st \in {"sent", "refused"}
                      IN /\ x \in Applicants
                         /\ x \notin doubtful' =>
                              /\ patch'[q].st # "lost"
                              /\ \A r \in Awaited' : patch'[r].app = x => r = q
                              /\ decided'[x].of = patch'[q].to
                              /\ IF patch'[q].to = Undecided
                                   THEN /\ decided'[x] = NoDecision /\ pendingUndo'.app # x
                                        /\ unserved => verdictAt'[x] = patch'[q].back.of
                                   ELSE unserved => verdictAt'[x] = Undecided
                              /\ ~unserved => verdictAt'[x] = patch'[q].to
    BY DEF PatchesAgree
  <2>1. /\ q \in Awaited /\ q \in Patches /\ q # p
        /\ patch'[q] = patch[q] /\ patch[q].app \in Applicants
    BY <1>0, <1>1 DEF PatchesAgree, Awaited
  <2>2. ASSUME patch[q].app \notin doubtful', NEW r \in Awaited', patch'[r].app = patch[q].app
        PROVE  r = q
    BY <1>0, <1>1, <2>1, <2>2 DEF PatchesAgree, Awaited
  <2>3. ASSUME patch[q].app \notin doubtful'
        PROVE  patch[q].app # patch[p].app
    BY <1>0, <2>1, <2>3 DEF PatchesAgree
  <2>4. pendingUndo'.app = pendingUndo.app \/ pendingUndo'.app = 0
    BY <1>3 DEF NoUndo
  <2> QED
    BY <1>0, <1>2, <2>1, <2>2, <2>3, <2>4 DEF PatchesAgree
<1> QED
  BY <1>4, <1>5, <1>6, <1>7

\* Every step of the session keeps the agreement.
LEMMA VerdictsKept ==
  ASSUME TriageTypeOK, VerdictsAgree, [TriageNext]_triageVars
  PROVE  VerdictsAgree'
<1>1. ASSUME NEW dir \in {"next", "prev"}, SlideTo(dir) \/ Swipe(dir)
      PROVE  VerdictsAgree'
  BY <1>1, CardsMove DEF SlideTo, Swipe
<1>2. CASE SlideEnds
  BY <1>2, CardsMove DEF SlideEnds
<1>3. ASSUME NEW i \in Applicants, Jump(i)
      PROVE  VerdictsAgree'
  BY <1>3, CardsMove DEF Jump
<1>4. ASSUME NEW p \in Patches, Undo(p)
      PROVE  VerdictsAgree'
  <2>1. pendingUndo.app \in Applicants /\ Retract(p, pendingUndo.app, pendingUndo.at)
    BY <1>4 DEF Undo, VerdictsAgree, PillAgrees
  <2> QED
    BY <1>4, <2>1, RetractAgrees DEF Undo
<1>5. ASSUME NEW p \in Patches, ClearDecision(p)
      PROVE  VerdictsAgree'
  BY <1>5, RetractAgrees DEF ClearDecision, TriageTypeOK
<1>6. CASE DismissUndo
  BY <1>6, CardsMove DEF DismissUndo
<1>7. CASE UNCHANGED triageVars
  BY <1>7, CardsMove DEF triageVars
<1> QED
  BY <1>1, <1>2, <1>3, <1>4, <1>5, <1>6, <1>7, DecideAgrees, ServeAgrees, AnswerAgrees
     DEF TriageNext

\* A session opens on the first card, with nothing decided.
LEMMA TriageStarts == TriageInit => TriageIInv
<1> SUFFICES ASSUME TriageInit PROVE TriageIInv
  OBVIOUS
<1> USE TriageAssumption DEF TriageInit
<1>1. TriageTypeOK
  <2>1. /\ NoDecision \in Decisions /\ 1 \in Applicants /\ 0 \in 0..MaxPatches
        /\ NoUndo \in [app : Applicants \cup {0}, of : Verdicts \cup {Undecided},
                      at : Applicants \cup {0}]
    BY DEF Applicants, Undecided, Decisions, NoDecision, NoUndo
  <2>2. NoPatch \in [st : {"none", "sent", "done", "refused", "lost"},
                      app : Applicants \cup {0}, to : Verdicts \cup {Undecided},
                      back : Decisions]
    BY <2>1 DEF NoPatch
  <2> QED
    BY <2>1, <2>2 DEF TriageTypeOK
<1>2. Awaited = {}
  BY DEF Awaited, NoPatch
<1>3. PillAgrees /\ UndoAims /\ SlideAgrees /\ LandsWhereAsked
  BY DEF PillAgrees, UndoAims, SlideAgrees, LandsWhereAsked
<1>4. PatchesAgree /\ TriageTruthful
  BY <1>2 DEF PatchesAgree, TriageTruthful, NoDecision
<1> QED
  BY <1>1, <1>3, <1>4 DEF TriageIInv

LEMMA TriageMoves == TriageIInv /\ [TriageNext]_triageVars => TriageIInv'
BY TriageTypedNext, SlideKept, VerdictsKept DEF TriageIInv, VerdictsAgree

\* The invariant holds of every triage session, whatever the queue and the requests.
THEOREM TriageInductive == TriageSpec => []TriageIInv
BY TriageStarts, TriageMoves, PTL DEF TriageSpec

\* With no request under way, the session shows what the server holds (TriageTruthful),
\* the pill aims at the decision shown (UndoAims), and the carousel rests on the card
\* last asked for (LandsWhereAsked).
THEOREM TriageTruthfulHolds == TriageSpec => [](TriageTruthful /\ UndoAims /\ LandsWhereAsked)
<1>1. TriageIInv => TriageTruthful /\ UndoAims /\ LandsWhereAsked
  BY DEF TriageIInv
<1> QED
  BY <1>1, TriageInductive, PTL----------------------------------------------------------------------------
(* What a drop and a reload do to a column. *)

\* A filter keeps what it should, in a list that names nothing twice if it was one.
FilterKeeps(s, p, V) ==
  /\ \A d : Among(d, p) <=> Among(d, s) /\ d \in V
  /\ EachOnce(s) => EachOnce(p)
  /\ (\A d : Among(d, s) => d \in V) => p = s
  /\ (\A d \in V : ~Among(d, s)) => p = <<>>

LEMMA FilteredIs ==
  ASSUME NEW T, NEW s \in Seq(T), NEW V, NEW S \in SUBSET DOMAIN s,
         \A i \in DOMAIN s : i \in S <=> s[i] \in V
  PROVE  Picked(s, S) \in Seq(T) /\ FilterKeeps(s, Picked(s, S), V)
<1> DEFINE p == Picked(s, S)
<1>1. DOMAIN s = 1..Len(s) /\ Len(s) \in Nat
  BY LenProperties
<1>2. S \in SUBSET 1..Len(s)
  BY <1>1
<1>3. /\ p \in Seq(T)
      /\ DOMAIN p = 1..Cardinality(S)
      /\ \A n \in 1..Cardinality(S) : Nth(S, n) \in S /\ p[n] = s[Nth(S, n)]
      /\ \A i \in S : \E n \in 1..Cardinality(S) : Nth(S, n) = i /\ p[n] = s[i]
      /\ \A m, n \in 1..Cardinality(S) : m # n => Nth(S, m) # Nth(S, n)
  BY <1>2, PickedIs
<1>4. Picked(s, 1..Len(s)) = s /\ Picked(s, {}) = <<>>
  BY PickedAll
<1>5. (\A i \in DOMAIN s : s[i] \in V) => p = s
  <2>1. ASSUME \A i \in DOMAIN s : s[i] \in V PROVE S = 1..Len(s)
    BY <1>1, <2>1
  <2> QED
    BY <1>4, <2>1
<1>6. (\A i \in DOMAIN s : s[i] \notin V) => p = <<>>
  <2>1. ASSUME \A i \in DOMAIN s : s[i] \notin V PROVE S = {}
    BY <2>1
  <2> QED
    BY <1>4, <2>1
<1> HIDE DEF p
<1>7. \A d : Among(d, p) <=> Among(d, s) /\ d \in V
  <2> SUFFICES ASSUME NEW d PROVE Among(d, p) <=> Among(d, s) /\ d \in V
    OBVIOUS
  <2>1. ASSUME Among(d, p) PROVE Among(d, s) /\ d \in V
    BY <1>3, <2>1 DEF Among
  <2>2. ASSUME Among(d, s), d \in V PROVE Among(d, p)
    <3>1. PICK i \in DOMAIN s : s[i] = d
      BY <2>2 DEF Among
    <3>2. i \in S
      BY <2>2, <3>1
    <3> QED
      BY <1>3, <3>1, <3>2 DEF Among
  <2> QED
    BY <2>1, <2>2
<1>8. EachOnce(s) => EachOnce(p)
  BY <1>3 DEF EachOnce
<1>9. FilterKeeps(s, p, V)
  BY <1>5, <1>6, <1>7, <1>8 DEF FilterKeeps, Among
<1> QED
  BY <1>3, <1>9 DEF p

\* A card lifted from a list, and one put at a place of it.
LEMMA LiftedIs ==
  ASSUME NEW T, NEW s \in Seq(T), NEW c
  PROVE  /\ Lifted(s, c) \in Seq(T) /\ Len(Lifted(s, c)) <= Len(s)
         /\ \A d : Among(d, Lifted(s, c)) <=> Among(d, s) /\ d # c
         /\ EachOnce(s) => EachOnce(Lifted(s, c))
         /\ ~Among(c, s) => Lifted(s, c) = s
<1> DEFINE S == {i \in DOMAIN s : s[i] # c}
           V == {s[i] : i \in S}
<1>1. S \in SUBSET DOMAIN s /\ \A i \in DOMAIN s : i \in S <=> s[i] \in V
  OBVIOUS
<1>2. \A d : Among(d, s) => (d \in V <=> d # c)
  BY DEF Among
<1>3. Lifted(s, c) = Picked(s, S)
  BY DEF Lifted
<1> HIDE DEF S, V
<1>4. Lifted(s, c) \in Seq(T) /\ FilterKeeps(s, Lifted(s, c), V)
  BY <1>1, <1>3, FilteredIs
<1>5. Len(Lifted(s, c)) <= Len(s)
  <2>1. S \in SUBSET 1..Len(s)
    BY <1>1, LenProperties
  <2> QED
    BY <1>3, <2>1, PickedIs
<1> QED
  BY <1>2, <1>4, <1>5 DEF FilterKeeps

LEMMA PlacedIs ==
  ASSUME NEW T, NEW s \in Seq(T), NEW i \in Nat, i <= Len(s), NEW c \in T
  PROVE  /\ Placed(s, i, c) \in Seq(T)
         /\ \A d : Among(d, Placed(s, i, c)) <=> Among(d, s) \/ d = c
         /\ EachOnce(s) /\ ~Among(c, s) => EachOnce(Placed(s, i, c))
<1> DEFINE p == Placed(s, i, c)
           a == SubSeq(s, 1, i)
           z == SubSeq(s, i + 1, Len(s))
           n == Len(s)
<1>1. n \in Nat /\ DOMAIN s = 1..n /\ \A k \in 1..n : s[k] \in T
  BY LenProperties, ElementOfSeq
<1>2. a \in Seq(T) /\ Len(a) = i /\ \A k \in 1..i : a[k] = s[k]
  <2>1. \A k \in 1..i : s[k] \in T
    BY <1>1
  <2> QED
    BY <2>1, SubSeqProperties
<1>3. z \in Seq(T) /\ Len(z) = n - i /\ \A k \in 1..(n - i) : z[k] = s[i + k]
  <2>1. \A k \in i + 1..n : s[k] \in T
    BY <1>1
  <2>2. i + 1 \in Int /\ n \in Int
    BY <1>1
  <2>4. i <= n
    OBVIOUS
  <2>3. /\ z \in Seq(T) /\ Len(z) = IF i + 1 <= n THEN n - (i + 1) + 1 ELSE 0
        /\ \A k \in 1..n - (i + 1) + 1 : z[k] = s[i + 1 + k - 1]
    BY <2>1, <2>2, SubSeqProperties
  <2> HIDE DEF n, z
  <2>5. Len(z) = n - i
    <3>1. CASE i + 1 <= n
      BY <1>1, <2>3, <3>1
    <3>2. CASE ~(i + 1 <= n)
      <4>1. i = n
        BY <1>1, <2>4, <3>2
      <4> QED
        BY <1>1, <2>3, <3>2, <4>1
    <3> QED
      BY <3>1, <3>2
  <2>6. \A k \in 1..(n - i) : k \in 1..n - (i + 1) + 1 /\ i + 1 + k - 1 = i + k
    BY <1>1
  <2> QED
    BY <2>3, <2>5, <2>6
<1>4. p = a \o <<c>> \o z
  BY DEF Placed
<1>5. <<c>> \in Seq(T) /\ Len(<<c>>) = 1 /\ <<c>>[1] = c
  OBVIOUS
<1> HIDE DEF p, a, z, n
<1> DEFINE b == a \o <<c>>
<1>6. /\ b \in Seq(T) /\ Len(b) = i + 1
      /\ \A k \in 1..i : b[k] = s[k]
      /\ b[i + 1] = c
  <2>1. b \in Seq(T) /\ Len(b) = i + 1
        /\ \A k \in 1..i + 1 : b[k] = IF k <= i THEN a[k] ELSE <<c>>[k - i]
    BY <1>2, <1>5, ConcatProperties
  <2>2. \A k \in 1..i : k \in 1..i + 1 /\ k <= i
    OBVIOUS
  <2>3. i + 1 \in 1..i + 1 /\ ~(i + 1 <= i) /\ (i + 1) - i = 1
    OBVIOUS
  <2> QED
    BY <1>2, <1>5, <2>1, <2>2, <2>3
<1> HIDE DEF b
<1>7. /\ p \in Seq(T) /\ Len(p) = n + 1
      /\ \A k \in 1..n + 1 : p[k] = IF k <= i + 1 THEN b[k] ELSE z[k - (i + 1)]
  <2>1. p = b \o z
    BY <1>4 DEF b
  <2>2. Len(b) + Len(z) = n + 1
    BY <1>1, <1>3, <1>6
  <2>3. /\ b \o z \in Seq(T) /\ Len(b \o z) = Len(b) + Len(z)
        /\ \A k \in 1..Len(b) + Len(z) :
             (b \o z)[k] = IF k <= Len(b) THEN b[k] ELSE z[k - Len(b)]
    BY <1>3, <1>6, ConcatProperties
  <2> QED
    BY <1>6, <2>1, <2>2, <2>3
<1>8. DOMAIN p = 1..n + 1
  BY <1>7, LenProperties
<1>9. /\ \A k \in 1..i : p[k] = s[k]
      /\ p[i + 1] = c
      /\ \A k \in i + 1..n : p[k + 1] = s[k]
  <2>0. i <= n
    BY DEF n
  <2>1. \A k \in 1..i : p[k] = s[k]
    BY <1>1, <1>6, <1>7, <2>0
  <2>2. p[i + 1] = c
    BY <1>1, <1>6, <1>7, <2>0
  <2>3. ASSUME NEW k \in i + 1..n PROVE p[k + 1] = s[k]
    <3>1. k + 1 \in 1..n + 1 /\ ~(k + 1 <= i + 1) /\ (k + 1) - (i + 1) = k - i
          /\ k - i \in 1..(n - i) /\ i + (k - i) = k
      BY <1>1, <2>0
    <3> QED
      BY <1>3, <1>7, <3>1
  <2> QED
    BY <2>1, <2>2, <2>3
<1>10. \A k \in 1..n + 1 : k \in 1..i \/ k = i + 1 \/ (k - 1 \in i + 1..n /\ (k - 1) + 1 = k)
  BY <1>1
<1>11. i <= n
  BY DEF n
<1>12. \A d : Among(d, p) <=> Among(d, s) \/ d = c
  <2> SUFFICES ASSUME NEW d PROVE Among(d, p) <=> Among(d, s) \/ d = c
    OBVIOUS
  <2>1. ASSUME Among(d, p) PROVE Among(d, s) \/ d = c
    <3>1. PICK k \in 1..n + 1 : p[k] = d
      BY <1>8, <2>1 DEF Among
    <3>2. CASE k \in 1..i
      BY <1>1, <1>9, <1>11, <3>1, <3>2 DEF Among
    <3>3. CASE k = i + 1
      BY <1>9, <3>1, <3>3
    <3>4. CASE k - 1 \in i + 1..n /\ (k - 1) + 1 = k
      <4>1. s[k - 1] = d /\ k - 1 \in 1..n
        BY <1>1, <1>9, <3>1, <3>4
      <4> QED
        BY <1>1, <4>1 DEF Among
    <3> QED
      BY <1>10, <3>2, <3>3, <3>4
  <2>2. ASSUME d = c PROVE Among(d, p)
    <3>1. i + 1 \in 1..n + 1
      BY <1>1, <1>11
    <3> QED
      BY <1>8, <1>9, <2>2, <3>1 DEF Among
  <2>3. ASSUME Among(d, s) PROVE Among(d, p)
    <3>1. PICK k \in 1..n : s[k] = d
      BY <1>1, <2>3 DEF Among
    <3>2. CASE k <= i
      <4>1. k \in 1..i /\ k \in 1..n + 1
        BY <1>1, <3>2
      <4> QED
        BY <1>8, <1>9, <3>1, <4>1 DEF Among
    <3>3. CASE ~(k <= i)
      <4>1. k \in i + 1..n /\ k + 1 \in 1..n + 1
        BY <1>1, <3>3
      <4> QED
        BY <1>8, <1>9, <3>1, <4>1 DEF Among
    <3> QED
      BY <3>2, <3>3
  <2> QED
    BY <2>1, <2>2, <2>3
<1>13. EachOnce(s) /\ ~Among(c, s) => EachOnce(p)
  <2> SUFFICES ASSUME EachOnce(s), ~Among(c, s),
                      NEW h \in 1..n + 1, NEW k \in 1..n + 1, p[h] = p[k]
               PROVE  h = k
    BY <1>8 DEF EachOnce
  <2> DEFINE At(x) == IF x <= i THEN x ELSE x - 1
  <2>1. \A x \in 1..n + 1 : x # i + 1 => At(x) \in 1..n /\ p[x] = s[At(x)]
    <3> SUFFICES ASSUME NEW x \in 1..n + 1, x # i + 1
                 PROVE  At(x) \in 1..n /\ p[x] = s[At(x)]
      OBVIOUS
    <3>1. CASE x <= i
      <4>1. x \in 1..i /\ x \in 1..n /\ At(x) = x
        BY <1>1, <1>11, <3>1
      <4> QED
        BY <1>9, <4>1
    <3>2. CASE ~(x <= i)
      <4>1. x - 1 \in i + 1..n /\ (x - 1) + 1 = x /\ At(x) = x - 1 /\ x - 1 \in 1..n
        BY <1>1, <1>11, <3>2
      <4> QED
        BY <1>9, <4>1
    <3> QED
      BY <3>1, <3>2
  <2>2. \A x, y \in 1..n + 1 : x # i + 1 /\ y # i + 1 /\ At(x) = At(y) => x = y
    BY <1>1, <1>11
  <2> HIDE DEF At
  <2>3. \A x \in 1..n + 1 : x # i + 1 => p[x] # c
    BY <1>1, <2>1 DEF Among
  <2>4. CASE h = i + 1 \/ k = i + 1
    BY <1>9, <2>3, <2>4
  <2>5. CASE h # i + 1 /\ k # i + 1
    <3>1. At(h) = At(k)
      BY <1>1, <2>1, <2>5 DEF EachOnce
    <3> QED
      BY <2>2, <2>5, <3>1
  <2> QED
    BY <2>4, <2>5
<1> QED
  BY <1>7, <1>12, <1>13 DEF p
\* Two lists put together.
LEMMA JoinedIs ==
  ASSUME NEW T, NEW p \in Seq(T), NEW q \in Seq(T)
  PROVE  /\ p \o q \in Seq(T)
         /\ \A d : Among(d, p \o q) <=> Among(d, p) \/ Among(d, q)
         /\ EachOnce(p) /\ EachOnce(q) /\ (\A d : ~(Among(d, p) /\ Among(d, q))) =>
              EachOnce(p \o q)
<1> DEFINE r == p \o q
           a == Len(p)
           b == Len(q)
<1>1. a \in Nat /\ b \in Nat /\ DOMAIN p = 1..a /\ DOMAIN q = 1..b
  BY LenProperties
<1>2. /\ r \in Seq(T) /\ Len(r) = a + b
      /\ \A k \in 1..a + b : r[k] = IF k <= a THEN p[k] ELSE q[k - a]
  BY ConcatProperties
<1>3. DOMAIN r = 1..a + b
  BY <1>2, LenProperties
<1> HIDE DEF r, a, b
<1>4. \A k \in 1..a : k \in 1..a + b /\ r[k] = p[k]
  BY <1>1, <1>2
<1>5. \A k \in 1..b : a + k \in 1..a + b /\ r[a + k] = q[k]
  <2> SUFFICES ASSUME NEW k \in 1..b PROVE a + k \in 1..a + b /\ r[a + k] = q[k]
    OBVIOUS
  <2>1. a + k \in 1..a + b /\ ~(a + k <= a) /\ (a + k) - a = k
    BY <1>1
  <2> QED
    BY <1>2, <2>1
<1>6. \A k \in 1..a + b : k \in 1..a \/ \E l \in 1..b : k = a + l
  <2> SUFFICES ASSUME NEW k \in 1..a + b, k \notin 1..a PROVE \E l \in 1..b : k = a + l
    OBVIOUS
  <2>1. k - a \in 1..b /\ k = a + (k - a)
    BY <1>1
  <2> QED
    BY <2>1
<1>7. \A d : Among(d, r) <=> Among(d, p) \/ Among(d, q)
  <2> SUFFICES ASSUME NEW d PROVE Among(d, r) <=> Among(d, p) \/ Among(d, q)
    OBVIOUS
  <2>1. ASSUME Among(d, r) PROVE Among(d, p) \/ Among(d, q)
    <3>1. PICK k \in 1..a + b : r[k] = d
      BY <1>3, <2>1 DEF Among
    <3>2. CASE k \in 1..a
      BY <1>1, <1>4, <3>1, <3>2 DEF Among
    <3>3. CASE k \notin 1..a
      <4>1. PICK l \in 1..b : k = a + l
        BY <1>6, <3>3
      <4>2. q[l] = d
        BY <1>5, <3>1, <4>1
      <4> QED
        BY <1>1, <4>2 DEF Among
    <3> QED
      BY <3>2, <3>3
  <2>2. ASSUME Among(d, p) \/ Among(d, q) PROVE Among(d, r)
    BY <1>1, <1>3, <1>4, <1>5, <2>2 DEF Among
  <2> QED
    BY <2>1, <2>2
<1>8. ASSUME EachOnce(p), EachOnce(q), \A d : ~(Among(d, p) /\ Among(d, q))
      PROVE  EachOnce(r)
  <2> SUFFICES ASSUME NEW h \in 1..a + b, NEW k \in 1..a + b, r[h] = r[k] PROVE h = k
    BY <1>3 DEF EachOnce
  <2>1. \A x \in 1..a, y \in 1..b : p[x] # q[y]
    BY <1>1, <1>8 DEF Among
  <2>2. CASE h \in 1..a /\ k \in 1..a
    BY <1>1, <1>4, <1>8, <2>2 DEF EachOnce
  <2>3. CASE h \in 1..a /\ k \notin 1..a
    <3>1. PICK l \in 1..b : k = a + l
      BY <1>6, <2>3
    <3> QED
      BY <1>4, <1>5, <2>1, <2>3, <3>1
  <2>4. CASE h \notin 1..a /\ k \in 1..a
    <3>1. PICK l \in 1..b : h = a + l
      BY <1>6, <2>4
    <3> QED
      BY <1>4, <1>5, <2>1, <2>4, <3>1
  <2>5. CASE h \notin 1..a /\ k \notin 1..a
    <3>1. PICK l \in 1..b : h = a + l
      BY <1>6, <2>5
    <3>2. PICK m \in 1..b : k = a + m
      BY <1>6, <2>5
    <3>3. q[l] = q[m]
      BY <1>5, <3>1, <3>2
    <3> QED
      BY <1>1, <1>8, <3>1, <3>2, <3>3 DEF EachOnce
  <2> QED
    BY <2>2, <2>3, <2>4, <2>5
<1> QED
  BY <1>2, <1>7, <1>8 DEF r

\* The cards of the job.
LEMMA CardsAre ==
  /\ Cards \in Seq(CardIds) /\ EachOnce(Cards) /\ 0 \notin CardIds
  /\ \A c : Among(c, Cards) <=> c \in CardIds
  /\ Intake \in Columns /\ Stages \subseteq Columns
  /\ \A o \in Orders, col \in Columns : \A c : Among(c, o[col]) => c \in CardIds
<1>1. Cards \in Seq(Nat \ {0}) /\ EachOnce(Cards)
  BY KanbanAssumption
<1>2. /\ DOMAIN Cards = 1..Len(Cards) /\ Len(Cards) \in Nat
      /\ \A i \in 1..Len(Cards) : Cards[i] \in Nat \ {0}
  BY <1>1, LenProperties, ElementOfSeq
<1>3. Cards \in Seq(CardIds)
  <2>1. \A i \in 1..Len(Cards) : Cards[i] \in CardIds
    BY <1>2 DEF CardIds
  <2> QED
    BY <1>1, <1>2, <2>1
<1>4. 0 \notin CardIds
  BY <1>2 DEF CardIds
<1>5. \A c : Among(c, Cards) <=> c \in CardIds
  BY DEF Among, CardIds
<1>6. ASSUME NEW o \in Orders, NEW col \in Columns, NEW c, Among(c, o[col])
      PROVE  c \in CardIds
  <2>1. o[col] \in Seq(CardIds)
    BY DEF Orders
  <2>2. PICK i \in DOMAIN o[col] : o[col][i] = c
    BY <1>6 DEF Among
  <2> QED
    BY <2>1, <2>2, ElementOfSeq, LenProperties
<1> QED
  BY <1>1, <1>3, <1>4, <1>5, <1>6 DEF Columns

\* A board built anew has every card in the column of its status.
LEMMA BuiltIs ==
  ASSUME NEW stages \in [CardIds -> Columns], NEW stored \in Orders
  PROVE  /\ Built(stages, stored) \in Orders
         /\ \A col \in Columns : \A d :
              Among(d, Built(stages, stored)[col]) <=> d \in CardIds /\ stages[d] = col
         /\ \A col \in Columns :
              EachOnce(stored[col]) => EachOnce(Built(stages, stored)[col])
         /\ \A col \in Columns :
              (\A d \in CardIds : Among(d, stored[col]) <=> stages[d] = col) =>
                Built(stages, stored)[col] = stored[col]
<1> DEFINE Here(col) == {i \in DOMAIN stored[col] : stages[stored[col][i]] = col}
           New(col) == {i \in DOMAIN Cards : stages[Cards[i]] = col /\ ~Among(Cards[i], stored[col])}
           Old(col) == {d \in CardIds : stages[d] = col}
           Others(col) == {d \in CardIds : stages[d] = col /\ ~Among(d, stored[col])}
           p(col) == Picked(stored[col], Here(col))
           q(col) == Picked(Cards, New(col))
           b == Built(stages, stored)
<1>1. /\ DOMAIN b = Columns
      /\ b = [col \in Columns |-> b[col]]
      /\ \A col \in Columns : b[col] = p(col) \o q(col)
  BY DEF Built
<1>2. \A col \in Columns :
        /\ stored[col] \in Seq(CardIds)
        /\ Here(col) \in SUBSET DOMAIN stored[col]
        /\ \A i \in DOMAIN stored[col] : i \in Here(col) <=> stored[col][i] \in Old(col)
        /\ New(col) \in SUBSET DOMAIN Cards
        /\ \A i \in DOMAIN Cards : i \in New(col) <=> Cards[i] \in Others(col)
  <2> SUFFICES ASSUME NEW col \in Columns
               PROVE  /\ stored[col] \in Seq(CardIds)
                      /\ \A i \in DOMAIN stored[col] : stored[col][i] \in CardIds
                      /\ \A i \in DOMAIN Cards : Cards[i] \in CardIds
    OBVIOUS
  <2>1. stored[col] \in Seq(CardIds)
    BY DEF Orders
  <2> QED
    BY <2>1, CardsAre DEF Among
<1> HIDE DEF b, Here, New, Old, Others
<1>3. \A col \in Columns : /\ p(col) \in Seq(CardIds) /\ FilterKeeps(stored[col], p(col), Old(col))
                           /\ q(col) \in Seq(CardIds) /\ FilterKeeps(Cards, q(col), Others(col))
  BY <1>2, CardsAre, FilteredIs
<1> HIDE DEF p, q
<1>0. ASSUME NEW col \in Columns
      PROVE  /\ p(col) \in Seq(CardIds) /\ q(col) \in Seq(CardIds)
             /\ b[col] = p(col) \o q(col)
  BY <1>1, <1>3
<1>4. \A col \in Columns :
        /\ \A d : Among(d, p(col)) <=> Among(d, stored[col]) /\ d \in Old(col)
        /\ \A d : Among(d, q(col)) <=> d \in Others(col)
        /\ EachOnce(stored[col]) => EachOnce(p(col))
        /\ EachOnce(q(col))
        /\ (\A d : Among(d, stored[col]) => d \in Old(col)) => p(col) = stored[col]
        /\ Others(col) = {} => q(col) = <<>>
  BY <1>3, CardsAre DEF FilterKeeps, Others
<1>5. \A col \in Columns : b[col] \in Seq(CardIds)
  BY <1>0, JoinedIs
<1>6. b \in Orders
  BY <1>1, <1>5 DEF Orders
<1>7. ASSUME NEW col \in Columns
      PROVE  /\ \A d : Among(d, b[col]) <=> Among(d, p(col)) \/ Among(d, q(col))
             /\ (\A d : ~(Among(d, p(col)) /\ Among(d, q(col)))) =>
                  (EachOnce(p(col)) /\ EachOnce(q(col)) => EachOnce(b[col]))
  <2>1. p(col) \in Seq(CardIds) /\ q(col) \in Seq(CardIds) /\ b[col] = p(col) \o q(col)
    BY <1>0
  <2>2. /\ \A d : Among(d, p(col) \o q(col)) <=> Among(d, p(col)) \/ Among(d, q(col))
        /\ (\A d : ~(Among(d, p(col)) /\ Among(d, q(col)))) =>
             (EachOnce(p(col)) /\ EachOnce(q(col)) => EachOnce(p(col) \o q(col)))
    BY <2>1, JoinedIs
  <2> QED
    BY <2>1, <2>2
<1>8. \A col \in Columns : \A d : Among(d, b[col]) <=> d \in CardIds /\ stages[d] = col
  BY <1>4, <1>7 DEF Old, Others
<1>9. ASSUME NEW col \in Columns, EachOnce(stored[col]) PROVE EachOnce(b[col])
  <2>1. \A d : ~(Among(d, p(col)) /\ Among(d, q(col)))
    BY <1>4 DEF Others
  <2> QED
    BY <1>4, <1>7, <1>9, <2>1
<1>10. ASSUME NEW col \in Columns, \A d \in CardIds : Among(d, stored[col]) <=> stages[d] = col
       PROVE  b[col] = stored[col]
  <2>1. Others(col) = {}
    BY <1>10 DEF Others
  <2>2. \A d : Among(d, stored[col]) => d \in Old(col)
    BY <1>10, CardsAre DEF Old
  <2>3. stored[col] \in Seq(CardIds) /\ stored[col] \o <<>> = stored[col]
    BY <1>2, ConcatEmptySeq
  <2> QED
    BY <1>1, <1>4, <2>1, <2>2, <2>3
<1> QED
  BY <1>6, <1>8, <1>9, <1>10 DEF b

\* And it is whole; one that is whole and agrees already is built the same.
LEMMA BuiltWhole ==
  ASSUME NEW stages \in [CardIds -> Columns], NEW stored \in Orders,
         \A col \in Columns : EachOnce(stored[col])
  PROVE  Whole(Built(stages, stored))
BY BuiltIs DEF Whole

LEMMA BuiltSame ==
  ASSUME NEW stages \in [CardIds -> Columns], NEW o \in Orders, Whole(o),
         \A c \in CardIds : Among(c, o[stages[c]])
  PROVE  Built(stages, o) = o
<1>1. Built(stages, o) \in Orders
  BY BuiltIs
<1>2. \A col \in Columns : Built(stages, o)[col] = o[col]
  <2> SUFFICES ASSUME NEW col \in Columns
               PROVE  \A d \in CardIds : Among(d, o[col]) <=> stages[d] = col
    BY BuiltIs
  <2> QED
    BY DEF Whole
<1> QED
  BY <1>1, <1>2 DEF Orders

----------------------------------------------------------------------------
(* What a drop does to the board. *)

\* The order p is o with the card c in the column col.
PutIn(o, p, c, col) ==
  /\ Whole(p) /\ Among(c, p[col])
  /\ \A d \in CardIds \ {c}, k \in Columns : Among(d, p[k]) <=> Among(d, o[k])

LEMMA PutInIf ==
  ASSUME NEW o, NEW p, NEW c \in CardIds, NEW col \in Columns, Whole(o),
         \A k \in Columns : EachOnce(p[k]),
         \A k \in Columns : Among(c, p[k]) <=> k = col,
         \A d \in CardIds \ {c}, k \in Columns : Among(d, p[k]) <=> Among(d, o[k])
  PROVE  PutIn(o, p, c, col)
<1>1. ASSUME NEW d \in CardIds PROVE \E k \in Columns : Among(d, p[k])
  <2>1. CASE d = c
    BY <2>1
  <2>2. CASE d # c
    <3>1. PICK k \in Columns : Among(d, o[k])
      BY DEF Whole
    <3> QED
      BY <2>2, <3>1
  <2> QED
    BY <2>1, <2>2
<1>2. ASSUME NEW d \in CardIds, NEW k \in Columns, NEW l \in Columns,
             Among(d, p[k]), Among(d, p[l])
      PROVE  k = l
  <2>1. CASE d = c
    BY <1>2, <2>1
  <2>2. CASE d # c
    BY <1>2, <2>2 DEF Whole
  <2> QED
    BY <2>1, <2>2
<1>3. Whole(p)
  BY <1>1, <1>2 DEF Whole
<1> QED
  BY <1>3 DEF PutIn

LEMMA MovedAcross ==
  ASSUME NEW o \in Orders, NEW c \in CardIds, NEW from \in Columns, NEW col \in Columns \ {from},
         NEW i \in Nat, i <= Len(Lifted(o[col], c)),
         NEW p, p = [o EXCEPT ![from] = Lifted(@, c), ![col] = Placed(@, i, c)]
  PROVE  /\ p \in Orders
         /\ Whole(o) /\ Among(c, o[from]) => PutIn(o, p, c, col)
<1>1. o[from] \in Seq(CardIds) /\ o[col] \in Seq(CardIds)
  BY DEF Orders
<1>2. /\ Lifted(o[from], c) \in Seq(CardIds)
      /\ \A d : Among(d, Lifted(o[from], c)) <=> Among(d, o[from]) /\ d # c
      /\ EachOnce(o[from]) => EachOnce(Lifted(o[from], c))
  BY <1>1, LiftedIs
<1>3. i <= Len(o[col])
  <2>1. Len(Lifted(o[col], c)) <= Len(o[col])
    BY <1>1, LiftedIs
  <2>2. Len(Lifted(o[col], c)) \in Nat /\ Len(o[col]) \in Nat
    BY <1>1, LiftedIs, LenProperties
  <2> QED
    BY <2>1, <2>2
<1>4. /\ Placed(o[col], i, c) \in Seq(CardIds)
      /\ \A d : Among(d, Placed(o[col], i, c)) <=> Among(d, o[col]) \/ d = c
      /\ EachOnce(o[col]) /\ ~Among(c, o[col]) => EachOnce(Placed(o[col], i, c))
  BY <1>1, <1>3, PlacedIs
<1>5. /\ p[from] = Lifted(o[from], c) /\ p[col] = Placed(o[col], i, c)
      /\ \A k \in Columns \ {from, col} : p[k] = o[k]
      /\ p \in Orders
  BY <1>2, <1>4 DEF Orders
<1>6. ASSUME Whole(o), Among(c, o[from]) PROVE PutIn(o, p, c, col)
  <2>1. \A k \in Columns : k # from => ~Among(c, o[k])
    BY <1>6 DEF Whole
  <2>2. \A k \in Columns : EachOnce(p[k])
    BY <1>2, <1>4, <1>5, <1>6, <2>1 DEF Whole
  <2>3. \A k \in Columns : Among(c, p[k]) <=> k = col
    BY <1>2, <1>4, <1>5, <2>1
  <2>4. \A d \in CardIds \ {c}, k \in Columns : Among(d, p[k]) <=> Among(d, o[k])
    BY <1>2, <1>4, <1>5
  <2> QED
    BY <1>6, <2>2, <2>3, <2>4, PutInIf
<1> QED
  BY <1>5, <1>6

LEMMA MovedWithin ==
  ASSUME NEW o \in Orders, NEW c \in CardIds, NEW from \in Columns,
         NEW i \in Nat, i <= Len(Lifted(o[from], c)),
         NEW p, p = [o EXCEPT ![from] = Placed(Lifted(o[from], c), i, c)]
  PROVE  /\ p \in Orders
         /\ Whole(o) /\ Among(c, o[from]) => PutIn(o, p, c, from)
<1>1. o[from] \in Seq(CardIds)
  BY DEF Orders
<1>2. /\ Lifted(o[from], c) \in Seq(CardIds)
      /\ \A d : Among(d, Lifted(o[from], c)) <=> Among(d, o[from]) /\ d # c
      /\ EachOnce(o[from]) => EachOnce(Lifted(o[from], c))
  BY <1>1, LiftedIs
<1> DEFINE l == Placed(Lifted(o[from], c), i, c)
<1>3. /\ l \in Seq(CardIds)
      /\ \A d : Among(d, l) <=> Among(d, Lifted(o[from], c)) \/ d = c
      /\ EachOnce(Lifted(o[from], c)) /\ ~Among(c, Lifted(o[from], c)) => EachOnce(l)
  BY <1>2, PlacedIs
<1>4. p[from] = l /\ (\A k \in Columns \ {from} : p[k] = o[k]) /\ p \in Orders
  BY <1>3 DEF Orders
<1> HIDE DEF l
<1>5. ASSUME Whole(o), Among(c, o[from]) PROVE PutIn(o, p, c, from)
  <2>1. \A k \in Columns : k # from => ~Among(c, o[k])
    BY <1>5 DEF Whole
  <2>2. \A k \in Columns : EachOnce(p[k])
    BY <1>2, <1>3, <1>4, <1>5 DEF Whole
  <2>3. \A k \in Columns : Among(c, p[k]) <=> k = from
    BY <1>3, <1>4, <2>1
  <2>4. \A d \in CardIds \ {c}, k \in Columns : Among(d, p[k]) <=> Among(d, o[k])
    BY <1>2, <1>3, <1>4
  <2> QED
    BY <1>5, <2>2, <2>3, <2>4, PutInIf
<1> QED
  BY <1>4, <1>5
----------------------------------------------------------------------------
(* The kinds. *)

DragRecs == [card : CardIds \cup {0}, from : Columns, was : Columns]
MoveRecs == [st : {"none", "sent", "done", "refused", "lost"}, card : CardIds \cup {0},
             to : Columns, was : Columns, snap : Orders, same : BOOLEAN, mine : BOOLEAN]

LEMMA KanbanTypedNext ==
  ASSUME kanban' \in {"away", "loading", "shown", "failed"},
         serverStage' \in [CardIds -> Columns], stage' \in [CardIds -> Columns],
         order' \in Orders, savedOrder' \in Orders, drops' \in 0..MaxDrops,
         drag' \in DragRecs, moves' \in [Moves -> MoveRecs],
         muddled' \in BOOLEAN, torn' \in BOOLEAN
  PROVE  KanbanTypeOK'
BY DEF KanbanTypeOK, DragRecs, MoveRecs

\* What the invariant gives of the variables, under a name that does not grow.
KanbanGround ==
  /\ kanban \in {"away", "loading", "shown", "failed"}
  /\ serverStage \in [CardIds -> Columns] /\ stage \in [CardIds -> Columns]
  /\ order \in Orders /\ savedOrder \in Orders /\ drops \in 0..MaxDrops
  /\ drag \in DragRecs /\ moves \in [Moves -> MoveRecs]
  /\ muddled \in BOOLEAN /\ torn \in BOOLEAN
  /\ VisitOwn /\ OrdersWhole /\ BoardAgrees

LEMMA KanbanHas == KanbanIInv => KanbanGround
BY DEF KanbanIInv, KanbanGround, KanbanTypeOK, DragRecs, MoveRecs

\* Nothing in the hand, no request, no card on the board.
LEMMA NoneIs ==
  /\ [col \in Columns |-> <<>>] \in Orders
  /\ \A col \in Columns : EachOnce([k \in Columns |-> <<>>][col])
  /\ NoDrag \in DragRecs /\ NoDrag.card = 0
  /\ NoMove \in MoveRecs /\ NoMove.st = "none" /\ ~NoMove.mine /\ ~NoMove.same
<1>1. [col \in Columns |-> <<>>] \in Orders
  BY DEF Orders
<1>2. \A col \in Columns : EachOnce([k \in Columns |-> <<>>][col])
  BY DEF EachOnce
<1> QED
  BY <1>1, <1>2, CardsAre DEF NoDrag, NoMove, DragRecs, MoveRecs

\* A request is this visit's still, and knows no more than it did.
MoveKept(n) ==
  /\ moves'[n].st = moves[n].st /\ moves'[n].card = moves[n].card
  /\ moves'[n].to = moves[n].to /\ moves'[n].was = moves[n].was
  /\ moves'[n].snap = moves[n].snap /\ moves'[n].mine = moves[n].mine
  /\ moves'[n].same => moves[n].same

LEMMA AgreesStill ==
  ASSUME KanbanGround, NEW n \in Moves, MoveAgrees(n), MoveKept(n),
         stage'[moves[n].card] = stage[moves[n].card],
         serverStage'[moves[n].card] = serverStage[moves[n].card],
         moves'[n].same => \A d \in CardIds : stage'[d] = stage[d],
         \A l \in Underway' : moves'[l].card = moves[n].card => l = n
  PROVE  MoveAgrees(n)'
BY DEF MoveAgrees, MoveKept

\* The requests once the order is another.
LEMMA ReorderedIs ==
  ASSUME moves \in [Moves -> MoveRecs]
  PROVE  /\ Reordered \in [Moves -> MoveRecs]
         /\ \A n \in Moves : /\ Reordered[n].st = moves[n].st /\ Reordered[n].card = moves[n].card
                             /\ Reordered[n].to = moves[n].to /\ Reordered[n].was = moves[n].was
                             /\ Reordered[n].snap = moves[n].snap
                             /\ Reordered[n].mine = moves[n].mine /\ ~Reordered[n].same
BY DEF Reordered, MoveRecs

----------------------------------------------------------------------------
(* The steps, one by one. *)

\* A page that is not shown: nothing is asked of its board.
LEMMA AwayKeeps ==
  ASSUME KanbanIInv, OpenBoard \/ LoadBoardFails \/ CloseBoard
  PROVE  KanbanIInv'
<1>1. KanbanGround
  BY KanbanHas
<1>2. /\ kanban' \in {"away", "loading", "failed"}
      /\ UNCHANGED <<drops, serverStage, savedOrder, muddled, torn>>
  BY DEF OpenBoard, LoadBoardFails, CloseBoard
<1>3. /\ stage' \in [CardIds -> Columns] /\ order' \in Orders
      /\ drag' = NoDrag /\ drag' \in DragRecs
      /\ moves' \in [Moves -> MoveRecs]
      /\ \A m \in Moves : /\ ~moves'[m].mine
                          /\ moves'[m].st # "none" => moves'[m].card \in CardIds
  <2>1. CASE OpenBoard \/ LoadBoardFails
    <3>1. UNCHANGED <<stage, order, drag, moves>> /\ kanban # "shown"
      BY <2>1 DEF OpenBoard, LoadBoardFails
    <3> QED
      BY <1>1, <3>1 DEF KanbanGround, VisitOwn
  <2>2. CASE CloseBoard
    <3>1. /\ stage' = [c \in CardIds |-> Intake] /\ order' = [col \in Columns |-> <<>>]
          /\ drag' = NoDrag
          /\ moves' = [m \in Moves |-> [NoMove EXCEPT !.st = moves[m].st, !.card = moves[m].card,
                                                      !.to = moves[m].to]]
      BY <2>2 DEF CloseBoard
    <3>2. \A m \in Moves :
            LET r == [NoMove EXCEPT !.st = moves[m].st, !.card = moves[m].card, !.to = moves[m].to]
            IN r \in MoveRecs /\ ~r.mine /\ r.st = moves[m].st /\ r.card = moves[m].card
      BY <1>1, NoneIs DEF KanbanGround, MoveRecs
    <3>3. moves' \in [Moves -> MoveRecs]
          /\ \A m \in Moves : ~moves'[m].mine /\ moves'[m].st = moves[m].st
                              /\ moves'[m].card = moves[m].card
      BY <3>1, <3>2
    <3> QED
      BY <1>1, <3>1, <3>3, NoneIs, CardsAre DEF KanbanGround, VisitOwn
  <2> QED
    BY <2>1, <2>2
<1>4. KanbanTypeOK'
  BY <1>1, <1>2, <1>3, KanbanTypedNext DEF KanbanGround
<1>5. VisitOwn'
  BY <1>3 DEF VisitOwn
<1>6. OrdersWhole'
  BY <1>1, <1>2, <1>3 DEF KanbanGround, OrdersWhole
<1>7. BoardAgrees'
  BY <1>2 DEF BoardAgrees
<1> QED
  BY <1>4, <1>5, <1>6, <1>7 DEF KanbanIInv

\* The board is built from what is stored and what the server has.
LEMMA LoadKeeps ==
  ASSUME KanbanIInv, LoadBoard
  PROVE  KanbanIInv'
<1>1. KanbanGround
  BY KanbanHas
<1>2. /\ kanban = "loading" /\ kanban' = "shown" /\ stage' = serverStage
      /\ order' = Built(serverStage, savedOrder) /\ muddled' = FALSE
      /\ UNCHANGED <<drops, serverStage, savedOrder, drag, moves, torn>>
  BY DEF LoadBoard
<1>3. drag = NoDrag /\ \A m \in Moves : ~moves[m].mine
  BY <1>1, <1>2 DEF KanbanGround, VisitOwn
<1>4. order' \in Orders /\ \A c \in CardIds : Among(c, order'[serverStage[c]])
  BY <1>1, <1>2, BuiltIs DEF KanbanGround
<1>5. KanbanTypeOK'
  BY <1>1, <1>2, <1>4, KanbanTypedNext DEF KanbanGround
<1>6. VisitOwn'
  BY <1>1, <1>2 DEF KanbanGround, VisitOwn
<1>7. OrdersWhole'
  <2>1. ~torn => Whole(order')
    BY <1>1, <1>2, BuiltWhole DEF KanbanGround, OrdersWhole
  <2> QED
    BY <1>1, <1>2, <1>3, <2>1 DEF KanbanGround, OrdersWhole
<1>8. BoardAgrees'
  <2>1. order' = Built(serverStage, savedOrder)'
    BY <1>2 DEF Built
  <2> QED
    BY <1>2, <1>3, <1>4, <2>1 DEF BoardAgrees
<1> QED
  BY <1>5, <1>6, <1>7, <1>8 DEF KanbanIInv

\* A card is taken into the hand, or let go where nothing takes it.
LEMMA HandKeeps ==
  ASSUME KanbanIInv, DropNowhere \/ \E c \in CardIds : Grab(c)
  PROVE  KanbanIInv'
<1>1. KanbanGround
  BY KanbanHas
<1>2. UNCHANGED <<drops, kanban, serverStage, stage, order, savedOrder, moves, muddled, torn>>
  BY DEF DropNowhere, Grab
<1>3. /\ drag' \in DragRecs
      /\ drag' # NoDrag =>
           /\ kanban = "shown" /\ drag'.card \in CardIds
           /\ Among(drag'.card, order[drag'.from])
           /\ drag'.was = stage[drag'.card]
  <2>1. CASE DropNowhere
    BY <2>1, NoneIs DEF DropNowhere
  <2>2. ASSUME NEW c \in CardIds, Grab(c)
        PROVE  /\ drag' \in DragRecs /\ kanban = "shown" /\ drag'.card \in CardIds
               /\ Among(drag'.card, order[drag'.from])
               /\ drag'.was = stage[drag'.card]
    <3>1. PICK col \in Columns :
            Among(c, order[col]) /\ drag' = [card |-> c, from |-> col, was |-> stage[c]]
      BY <2>2 DEF Grab
    <3>2. kanban = "shown"
      BY <2>2 DEF Grab
    <3> QED
      BY <1>1, <3>1, <3>2 DEF KanbanGround, DragRecs
  <2> QED
    BY <2>1, <2>2
<1>4. KanbanTypeOK'
  BY <1>1, <1>2, <1>3, KanbanTypedNext DEF KanbanGround
<1>5. VisitOwn'
  BY <1>1, <1>2, <1>3 DEF KanbanGround, VisitOwn
<1>6. OrdersWhole'
  BY <1>1, <1>2, <1>3 DEF KanbanGround, OrdersWhole
<1>7. BoardAgrees'
  <2>1. \A m \in Moves : MoveAgrees(m) => MoveAgrees(m)'
    BY <1>2 DEF MoveAgrees, Underway
  <2>2. Built(serverStage, savedOrder)' = Built(serverStage, savedOrder)
    BY <1>2 DEF Built
  <2> QED
    BY <1>1, <1>2, <1>3, <2>1, <2>2 DEF KanbanGround, BoardAgrees
<1> QED
  BY <1>4, <1>5, <1>6, <1>7 DEF KanbanIInv

\* A card put elsewhere in its column: every request has another order now.
LEMMA DropInKeeps ==
  ASSUME KanbanIInv, NEW i \in 0..Len(Cards), DropInColumn(i)
  PROVE  KanbanIInv'
<1> DEFINE c == drag.card
<1>1. KanbanGround
  BY KanbanHas
<1>2. /\ drops < MaxDrops /\ drag # NoDrag /\ i <= Len(Lifted(order[drag.from], c))
      /\ order' = [order EXCEPT ![drag.from] = Placed(Lifted(order[drag.from], c), i, c)]
      /\ savedOrder' = order' /\ drops' = drops + 1 /\ drag' = NoDrag /\ moves' = Reordered
      /\ UNCHANGED <<kanban, serverStage, stage, muddled, torn>>
  BY DEF DropInColumn
<1>3. kanban = "shown" /\ c \in CardIds /\ drag.from \in Columns
  BY <1>1, <1>2 DEF KanbanGround, VisitOwn, DragRecs
<1>4. i \in Nat
  BY KanbanAssumption, LenProperties
<1> HIDE DEF c
<1>5. /\ order' \in Orders
      /\ ~torn => PutIn(order, order', c, drag.from)
  <2>1. ~torn => Whole(order) /\ Among(c, order[drag.from])
    BY <1>1, <1>2, <1>3 DEF KanbanGround, OrdersWhole, c
  <2> QED
    BY <1>1, <1>2, <1>3, <1>4, <2>1, MovedWithin DEF KanbanGround
<1>6. /\ moves' \in [Moves -> MoveRecs]
      /\ \A n \in Moves : MoveKept(n) /\ ~moves'[n].same
  BY <1>1, <1>2, ReorderedIs DEF KanbanGround, MoveKept
<1>7. Underway' = Underway
  BY <1>6 DEF Underway, MoveKept
<1>8. KanbanTypeOK'
  <2>1. drops' \in 0..MaxDrops
    BY <1>1, <1>2, KanbanAssumption DEF KanbanGround
  <2> QED
    BY <1>1, <1>2, <1>5, <1>6, <2>1, NoneIs, KanbanTypedNext DEF KanbanGround
<1>9. VisitOwn'
  BY <1>1, <1>2, <1>6 DEF KanbanGround, VisitOwn, MoveKept
<1>10. OrdersWhole'
  <2>1. ~torn => Whole(order') /\ \A col \in Columns : EachOnce(savedOrder'[col])
    BY <1>2, <1>5 DEF PutIn, Whole
  <2> QED
    BY <1>1, <1>2, <1>6, <2>1 DEF KanbanGround, OrdersWhole, MoveKept
<1>11. BoardAgrees'
  <2> SUFFICES ASSUME ~torn, ~muddled, kanban = "shown" PROVE BoardAgrees'
    BY <1>2 DEF BoardAgrees
  <2>1. /\ \A d \in CardIds : Among(d, order[stage[d]])
        /\ \A m \in Moves : moves[m].mine => MoveAgrees(m)
        /\ \A d \in CardIds :
             (\A m \in Moves : moves[m].mine => moves[m].card # d) => stage[d] = serverStage[d]
    BY <1>1 DEF KanbanGround, BoardAgrees
  <2>2. drag.from = stage[c]
    <3>1. Among(c, order[drag.from]) /\ Among(c, order[stage[c]]) /\ stage[c] \in Columns
      BY <1>1, <1>2, <1>3, <2>1 DEF KanbanGround, OrdersWhole, c
    <3> QED
      BY <1>1, <1>3, <3>1 DEF KanbanGround, OrdersWhole, Whole
  <2>3. \A d \in CardIds : Among(d, order'[stage[d]])
    BY <1>1, <1>5, <2>1, <2>2 DEF KanbanGround, PutIn
  <2>4. ASSUME NEW m \in Moves, moves'[m].mine PROVE MoveAgrees(m)'
    <3>1. MoveAgrees(m)
      BY <1>6, <2>1, <2>4 DEF MoveKept
    <3>2. \A l \in Underway' : moves'[l].card = moves[m].card => l = m
      BY <1>6, <1>7, <3>1 DEF MoveAgrees, MoveKept, Underway
    <3> QED
      BY <1>1, <1>2, <1>6, <3>1, <3>2, AgreesStill
  <2>5. \A d \in CardIds :
          (\A m \in Moves : moves'[m].mine => moves'[m].card # d) => stage'[d] = serverStage'[d]
    BY <1>2, <1>6, <2>1 DEF MoveKept
  <2> QED
    BY <1>2, <2>3, <2>4, <2>5 DEF BoardAgrees
<1> QED
  BY <1>8, <1>9, <1>10, <1>11 DEF KanbanIInv
\* A card dropped into another column, and the request about it.
LEMMA DropOnKeeps ==
  ASSUME KanbanIInv, NEW m \in Moves, NEW col \in Stages, NEW i \in 0..Len(Cards),
         DropOnStage(m, col, i)
  PROVE  KanbanIInv'
<1> DEFINE c == drag.card
           r == [st |-> "sent", card |-> c, to |-> col, was |-> drag.was,
                 snap |-> order, same |-> TRUE, mine |-> TRUE]
<1>1. KanbanGround
  BY KanbanHas
<1>2. /\ drops < MaxDrops /\ drag # NoDrag /\ col # drag.from /\ moves[m] = NoMove
      /\ i <= Len(Lifted(order[col], c))
      /\ stage' = [stage EXCEPT ![c] = col] /\ order' = Dropped(col, i)
      /\ savedOrder' = order' /\ drops' = drops + 1 /\ drag' = NoDrag
      /\ moves' = [Reordered EXCEPT ![m] = r]
      /\ muddled' = (muddled \/ \E n \in Underway : moves[n].card = c)
      /\ UNCHANGED <<kanban, serverStage, torn>>
  BY DEF DropOnStage, Request
<1>3. order' = [order EXCEPT ![drag.from] = Lifted(@, c), ![col] = Placed(@, i, c)]
  BY <1>2 DEF Dropped
<1>4. kanban = "shown" /\ c \in CardIds /\ drag.from \in Columns /\ drag.was \in Columns
  BY <1>1, <1>2 DEF KanbanGround, VisitOwn, DragRecs
<1>5. i \in Nat /\ col \in Columns \ {drag.from}
  BY <1>2, CardsAre, KanbanAssumption, LenProperties
<1>6. r \in MoveRecs /\ r.st = "sent" /\ r.card = c /\ r.to = col /\ r.was = drag.was
      /\ r.snap = order /\ r.same /\ r.mine
  BY <1>1, <1>4, <1>5 DEF MoveRecs, KanbanGround
<1> HIDE DEF c, r
<1>7. /\ order' \in Orders
      /\ ~torn => PutIn(order, order', c, col)
  <2>1. ~torn => Whole(order) /\ Among(c, order[drag.from])
    BY <1>1, <1>2, <1>4 DEF KanbanGround, OrdersWhole, c
  <2> QED
    BY <1>1, <1>2, <1>3, <1>4, <1>5, <2>1, MovedAcross DEF KanbanGround
<1>8. /\ moves' \in [Moves -> MoveRecs] /\ moves'[m] = r
      /\ \A n \in Moves \ {m} : MoveKept(n) /\ ~moves'[n].same
  BY <1>1, <1>2, <1>6, ReorderedIs DEF KanbanGround, MoveKept
<1>9. Underway' = Underway \cup {m} /\ m \notin Underway
  BY <1>2, <1>6, <1>8, NoneIs DEF Underway, MoveKept
<1>10. /\ stage' \in [CardIds -> Columns] /\ stage'[c] = col
       /\ \A d \in CardIds \ {c} : stage'[d] = stage[d]
  BY <1>1, <1>2, <1>4, <1>5 DEF KanbanGround
<1>11. KanbanTypeOK'
  <2>1. drops' \in 0..MaxDrops
    BY <1>1, <1>2, KanbanAssumption DEF KanbanGround
  <2>2. muddled' \in BOOLEAN
    BY <1>1, <1>2 DEF KanbanGround
  <2> QED
    BY <1>1, <1>2, <1>7, <1>8, <1>10, <2>1, <2>2, NoneIs, KanbanTypedNext DEF KanbanGround
<1>12. VisitOwn'
  <2>1. \A n \in Moves : /\ moves'[n].st # "none" => moves'[n].card \in CardIds
                         /\ moves'[n].mine => kanban' = "shown" /\ moves'[n].st # "none"
    BY <1>1, <1>2, <1>4, <1>6, <1>8 DEF KanbanGround, VisitOwn, MoveKept
  <2> QED
    BY <1>2, <2>1 DEF VisitOwn
<1>13. OrdersWhole'
  <2> SUFFICES ASSUME ~torn PROVE OrdersWhole'
    BY <1>2 DEF OrdersWhole
  <2>1. Whole(order') /\ \A k \in Columns : EachOnce(savedOrder'[k])
    BY <1>2, <1>7 DEF PutIn, Whole
  <2>2. Whole(moves'[m].snap)
    BY <1>1, <1>4, <1>6, <1>8 DEF KanbanGround, OrdersWhole
  <2>3. \A n \in Moves : moves'[n].mine => Whole(moves'[n].snap)
    BY <1>1, <1>8, <2>2 DEF KanbanGround, OrdersWhole, MoveKept
  <2> QED
    BY <1>2, <2>1, <2>3 DEF OrdersWhole
<1>14. BoardAgrees'
  <2> SUFFICES ASSUME ~torn, ~muddled, \A n \in Underway : moves[n].card # c
               PROVE  BoardAgrees'
    BY <1>2 DEF BoardAgrees
  <2>1. /\ \A d \in CardIds : Among(d, order[stage[d]])
        /\ \A n \in Moves : moves[n].mine => MoveAgrees(n)
        /\ \A d \in CardIds :
             (\A n \in Moves : moves[n].mine => moves[n].card # d) => stage[d] = serverStage[d]
        /\ drag.was = stage[c]
    BY <1>1, <1>2, <1>4 DEF KanbanGround, BoardAgrees, c
  <2>2. \A n \in Moves : moves[n].mine => n \in Underway /\ n # m /\ moves[n].card # c
    BY <1>1, <1>9 DEF KanbanGround, VisitOwn, Underway
  <2>3. stage[c] = serverStage[c]
    BY <1>4, <2>1, <2>2
  <2>4. \A d \in CardIds : Among(d, order'[stage'[d]])
    <3>1. ASSUME NEW d \in CardIds \ {c} PROVE Among(d, order'[stage'[d]])
      <4>1. stage[d] \in Columns /\ stage'[d] = stage[d] /\ Among(d, order[stage[d]])
        BY <1>1, <1>10, <2>1 DEF KanbanGround
      <4> QED
        BY <1>7, <4>1 DEF PutIn
    <3>2. Among(c, order'[stage'[c]])
      BY <1>7, <1>10 DEF PutIn
    <3> QED
      BY <3>1, <3>2
  <2>5. MoveAgrees(m)'
    <3>1. \A l \in Underway' : moves'[l].card = c => l = m
      BY <1>8, <1>9 DEF MoveKept, Underway
    <3>2. serverStage'[c] = drag.was
      BY <1>2, <2>1, <2>3
    <3>3. Among(c, order[drag.was]) /\ \A d \in CardIds \ {c} : Among(d, order[stage'[d]])
      BY <1>4, <1>10, <2>1
    <3> QED
      BY <1>6, <1>8, <1>10, <3>1, <3>2, <3>3 DEF MoveAgrees
  <2>6. ASSUME NEW n \in Moves \ {m}, moves'[n].mine PROVE MoveAgrees(n)'
    <3>1. MoveAgrees(n) /\ moves[n].card # c /\ moves[n].card \in CardIds
      BY <1>1, <1>8, <2>1, <2>2, <2>6 DEF MoveKept, KanbanGround, VisitOwn
    <3>2. \A l \in Underway' : moves'[l].card = moves[n].card => l = n
      BY <1>6, <1>8, <1>9, <3>1 DEF MoveAgrees, MoveKept, Underway
    <3>3. stage'[moves[n].card] = stage[moves[n].card]
      BY <1>10, <3>1
    <3> QED
      BY <1>1, <1>2, <1>8, <3>1, <3>2, <3>3, AgreesStill
  <2>7. \A d \in CardIds :
          (\A n \in Moves : moves'[n].mine => moves'[n].card # d) => stage'[d] = serverStage'[d]
    <3> SUFFICES ASSUME NEW d \in CardIds, \A n \in Moves : moves'[n].mine => moves'[n].card # d
                 PROVE  stage'[d] = serverStage[d]
      BY <1>2
    <3>1. d # c
      BY <1>6, <1>8
    <3>2. \A n \in Moves : moves[n].mine => moves[n].card # d
      BY <1>8, <2>2 DEF MoveKept
    <3> QED
      BY <1>10, <2>1, <3>1, <3>2
  <2> QED
    BY <1>2, <2>4, <2>5, <2>6, <2>7 DEF BoardAgrees
<1> QED
  BY <1>11, <1>12, <1>13, <1>14 DEF KanbanIInv

\* The server carries a request out or refuses it.
LEMMA ServeMoveKeeps ==
  ASSUME KanbanIInv, NEW m \in Moves, ServeMove(m)
  PROVE  KanbanIInv'
<1> DEFINE c == moves[m].card
<1>1. KanbanGround
  BY KanbanHas
<1>2. moves[m].st = "sent" /\ UNCHANGED <<drops, kanban, stage, order, savedOrder, drag, torn>>
  BY DEF ServeMove
<1>3. c \in CardIds /\ moves[m].to \in Columns
  BY <1>1, <1>2 DEF KanbanGround, VisitOwn, MoveRecs
<1> HIDE DEF c
<1>4. /\ moves' \in [Moves -> MoveRecs]
      /\ \A n \in Moves \ {m} : MoveKept(n)
      /\ moves'[m].st # "none" /\ moves'[m].card = c /\ moves'[m].to = moves[m].to
      /\ moves'[m].was = moves[m].was /\ moves'[m].snap = moves[m].snap
      /\ moves'[m].mine = moves[m].mine /\ moves'[m].same = moves[m].same
      /\ \/ /\ serverStage' = [serverStage EXCEPT ![c] = moves[m].to]
            /\ moves'[m].st \in {"done", "lost"}
            /\ muddled' = (muddled \/ moves'[m].st = "lost" \/ ~moves[m].mine)
         \/ /\ moves'[m].st = "refused"
            /\ UNCHANGED <<serverStage, muddled>>
  <2>1. ASSUME NEW st \in {"done", "lost", "refused"}, moves' = [moves EXCEPT ![m].st = st]
        PROVE  /\ moves' \in [Moves -> MoveRecs]
               /\ \A n \in Moves \ {m} : MoveKept(n)
               /\ moves'[m].st = st /\ moves'[m].card = c /\ moves'[m].to = moves[m].to
               /\ moves'[m].was = moves[m].was /\ moves'[m].snap = moves[m].snap
               /\ moves'[m].mine = moves[m].mine /\ moves'[m].same = moves[m].same
    BY <1>1, <2>1 DEF KanbanGround, MoveRecs, MoveKept, c
  <2>2. CASE /\ serverStage' = [serverStage EXCEPT ![c] = moves[m].to]
             /\ \E st \in {"done", "lost"} :
                  /\ moves' = [moves EXCEPT ![m].st = st]
                  /\ muddled' = (muddled \/ st = "lost" \/ ~moves[m].mine)
    <3>1. PICK st \in {"done", "lost"} :
            /\ moves' = [moves EXCEPT ![m].st = st]
            /\ muddled' = (muddled \/ st = "lost" \/ ~moves[m].mine)
      BY <2>2
    <3> QED
      BY <2>1, <2>2, <3>1
  <2>3. CASE moves' = [moves EXCEPT ![m].st = "refused"] /\ UNCHANGED <<serverStage, muddled>>
    BY <2>1, <2>3
  <2> QED
    BY <2>2, <2>3 DEF ServeMove, c
<1>5. Underway' = Underway /\ m \in Underway
  BY <1>2, <1>4 DEF Underway, MoveKept
<1>6. /\ serverStage' \in [CardIds -> Columns]
      /\ \A d \in CardIds \ {c} : serverStage'[d] = serverStage[d]
      /\ moves'[m].st = "refused" => serverStage'[c] = serverStage[c] /\ muddled' = muddled
      /\ moves'[m].st # "refused" => serverStage'[c] = moves[m].to
  BY <1>1, <1>3, <1>4 DEF KanbanGround
<1>7. KanbanTypeOK'
  <2>1. muddled' \in BOOLEAN
    BY <1>1, <1>4 DEF KanbanGround
  <2> QED
    BY <1>1, <1>2, <1>4, <1>6, <2>1, KanbanTypedNext DEF KanbanGround
<1>8. VisitOwn'
  BY <1>1, <1>2, <1>3, <1>4 DEF KanbanGround, VisitOwn, MoveKept
<1>9. OrdersWhole'
  <2>1. \A n \in Moves : moves'[n].mine = moves[n].mine /\ moves'[n].snap = moves[n].snap
    BY <1>4 DEF MoveKept
  <2> QED
    BY <1>1, <1>2, <2>1 DEF KanbanGround, OrdersWhole
<1>10. BoardAgrees'
  <2> SUFFICES ASSUME kanban = "shown", ~torn, ~muddled'
               PROVE  BoardAgrees'
    BY <1>2 DEF BoardAgrees
  <2>1. ~muddled /\ (moves'[m].st # "refused" => moves[m].mine /\ moves'[m].st = "done")
    <3>1. CASE /\ moves'[m].st \in {"done", "lost"}
               /\ muddled' = (muddled \/ moves'[m].st = "lost" \/ ~moves[m].mine)
      BY <3>1
    <3>2. CASE moves'[m].st = "refused" /\ muddled' = muddled
      BY <3>2
    <3> QED
      BY <1>4, <3>1, <3>2
  <2>2. /\ \A d \in CardIds : Among(d, order[stage[d]])
        /\ \A n \in Moves : moves[n].mine => MoveAgrees(n)
        /\ \A d \in CardIds :
             (\A n \in Moves : moves[n].mine => moves[n].card # d) => stage[d] = serverStage[d]
        /\ drag # NoDrag => drag.was = stage[drag.card]
        /\ \/ savedOrder = order
           \/ order = Built(serverStage, savedOrder) /\ \A n \in Moves : ~moves[n].mine
    BY <1>1, <2>1 DEF KanbanGround, BoardAgrees
  <2>3. \A n \in Moves : moves'[n].mine = moves[n].mine /\ moves'[n].card = moves[n].card
    BY <1>4 DEF MoveKept, c
  <2>4. ASSUME moves[m].mine PROVE MoveAgrees(m)'
    <3>1. MoveAgrees(m)
      BY <2>2, <2>4
    <3>2. \A l \in Underway' : moves'[l].card = c => l = m
      BY <1>5, <2>3, <3>1 DEF MoveAgrees, c, Underway
    <3>3. serverStage'[c] = IF moves'[m].st = "done" THEN moves[m].to ELSE moves[m].was
      BY <1>2, <1>4, <1>6, <2>1, <3>1 DEF MoveAgrees, c
    <3>4. moves'[m].st # "lost"
      BY <2>1
    <3> QED
      BY <1>2, <1>4, <3>1, <3>2, <3>3, <3>4 DEF MoveAgrees, c
  <2>5. ASSUME NEW n \in Moves \ {m}, moves[n].mine PROVE MoveAgrees(n)'
    <3>1. MoveAgrees(n) /\ moves[n].card \in CardIds
      BY <1>1, <2>2, <2>5 DEF KanbanGround, VisitOwn
    <3>2. moves[n].card # c
      BY <1>5, <3>1 DEF MoveAgrees, c
    <3>3. \A l \in Underway' : moves'[l].card = moves[n].card => l = n
      BY <1>5, <2>3, <3>1 DEF MoveAgrees, Underway
    <3> QED
      BY <1>1, <1>2, <1>4, <1>6, <3>1, <3>2, <3>3, AgreesStill
  <2>6. \A d \in CardIds :
          (\A n \in Moves : moves'[n].mine => moves'[n].card # d) => stage'[d] = serverStage'[d]
    <3> SUFFICES ASSUME NEW d \in CardIds, \A n \in Moves : moves'[n].mine => moves'[n].card # d
                 PROVE  stage[d] = serverStage'[d]
      BY <1>2
    <3>1. stage[d] = serverStage[d]
      BY <2>2, <2>3
    <3>2. serverStage'[d] = serverStage[d]
      BY <1>4, <1>6, <2>1
    <3> QED
      BY <3>1, <3>2
  <2>7. \/ savedOrder' = order'
        \/ order' = Built(serverStage, savedOrder)' /\ \A n \in Moves : ~moves'[n].mine
    <3>1. CASE savedOrder = order
      BY <1>2, <3>1
    <3>2. CASE order = Built(serverStage, savedOrder) /\ \A n \in Moves : ~moves[n].mine
      <4>1. UNCHANGED <<serverStage, savedOrder, order>>
        BY <1>2, <1>4, <2>1, <3>2
      <4>2. Built(serverStage, savedOrder)' = Built(serverStage, savedOrder)
        BY <4>1 DEF Built
      <4> QED
        BY <2>3, <3>2, <4>1, <4>2
    <3> QED
      BY <2>2, <3>1, <3>2
  <2> QED
    BY <1>2, <2>2, <2>3, <2>4, <2>5, <2>6, <2>7 DEF BoardAgrees
<1> QED
  BY <1>7, <1>8, <1>9, <1>10 DEF KanbanIInv
\* An answer: what it confirms is shown already, and what it refuses is put back whole.
LEMMA AnsweredKeeps ==
  ASSUME KanbanIInv, NEW m \in Moves, MoveDone(m) \/ MoveFailed(m)
  PROVE  KanbanIInv'
<1> DEFINE c == moves[m].card
<1>1. KanbanGround
  BY KanbanHas
<1>2. /\ moves[m].st \in {"done", "refused", "lost"}
      /\ UNCHANGED <<drops, kanban, serverStage, drag>>
  BY DEF MoveDone, MoveFailed
<1>3. c \in CardIds /\ moves[m].to \in Columns /\ moves[m].was \in Columns
      /\ moves[m].snap \in Orders
  BY <1>1, <1>2 DEF KanbanGround, VisitOwn, MoveRecs
<1> HIDE DEF c
<1>4. /\ moves' \in [Moves -> MoveRecs] /\ moves'[m] = NoMove
      /\ \A n \in Moves \ {m} : MoveKept(n)
      /\ MoveFailed(m) => \A n \in Moves : ~moves'[n].same
  <2>1. CASE MoveDone(m)
    <3>1. moves' = [moves EXCEPT ![m] = NoMove] /\ moves[m].st = "done"
      BY <2>1 DEF MoveDone
    <3>2. ~MoveFailed(m)
      BY <3>1 DEF MoveFailed
    <3> QED
      BY <1>1, <3>1, <3>2, NoneIs DEF KanbanGround, MoveKept
  <2>2. CASE MoveFailed(m)
    <3>1. moves' = [Reordered EXCEPT ![m] = NoMove]
      BY <2>2 DEF MoveFailed
    <3> QED
      BY <1>1, <3>1, NoneIs, ReorderedIs DEF KanbanGround, MoveKept
  <2> QED
    BY <2>1, <2>2
<1>5. Underway' = Underway \ {m} /\ m \in Underway
  BY <1>2, <1>4, NoneIs DEF Underway, MoveKept
<1>6. \A n \in Moves \ {m} : moves'[n].mine = moves[n].mine /\ moves'[n].card = moves[n].card
                             /\ moves'[n].snap = moves[n].snap
  BY <1>4 DEF MoveKept
<1>7. ~moves'[m].mine
  BY <1>4, NoneIs
<1>8. /\ stage' \in [CardIds -> Columns] /\ order' \in Orders /\ savedOrder' \in Orders
      /\ muddled' \in BOOLEAN /\ torn' \in BOOLEAN
  <2>1. CASE MoveDone(m)
    BY <1>1, <1>3, <2>1 DEF MoveDone, KanbanGround, c
  <2>2. CASE MoveFailed(m)
    BY <1>1, <1>3, <2>2 DEF MoveFailed, KanbanGround, c
  <2> QED
    BY <2>1, <2>2
<1>9. KanbanTypeOK'
  BY <1>1, <1>2, <1>4, <1>8, KanbanTypedNext DEF KanbanGround
<1>10. VisitOwn'
  BY <1>1, <1>2, <1>4, <1>7, NoneIs DEF KanbanGround, VisitOwn, MoveKept
<1>11. MoveFailed(m) /\ moves[m].mine =>
         /\ stage' = [stage EXCEPT ![c] = moves[m].was]
         /\ order' = moves[m].snap /\ savedOrder' = moves[m].snap
         /\ muddled' = (muddled \/ ~moves[m].same)
         /\ torn' = (torn \/ drag # NoDrag)
  BY DEF MoveFailed, c
<1>12. MoveFailed(m) /\ ~moves[m].mine => UNCHANGED <<stage, order, savedOrder, muddled, torn>>
  BY DEF MoveFailed
<1>13. MoveDone(m) => /\ moves[m].st = "done"
                      /\ stage' = IF moves[m].mine THEN [stage EXCEPT ![c] = moves[m].to] ELSE stage
                      /\ UNCHANGED <<order, savedOrder, muddled, torn>>
  BY DEF MoveDone, c
<1>14. OrdersWhole'
  <2> SUFFICES ASSUME ~torn' PROVE OrdersWhole'
    BY DEF OrdersWhole
  <2>1. \A n \in Moves : moves'[n].mine => moves[n].mine /\ moves'[n].snap = moves[n].snap
    BY <1>6, <1>7
  <2>2. CASE MoveFailed(m) /\ moves[m].mine
    <3>1. /\ ~torn /\ drag' = NoDrag /\ order' = moves[m].snap /\ savedOrder' = moves[m].snap
      BY <1>1, <1>2, <1>11, <2>2 DEF KanbanGround
    <3>2. Whole(moves[m].snap)
      BY <1>1, <2>2, <3>1 DEF KanbanGround, OrdersWhole
    <3>3. Whole(order') /\ \A col \in Columns : EachOnce(savedOrder'[col])
      BY <3>1, <3>2 DEF Whole
    <3> QED
      BY <1>1, <2>1, <3>1, <3>3 DEF KanbanGround, OrdersWhole
  <2>3. CASE UNCHANGED <<order, savedOrder, torn>>
    BY <1>1, <1>2, <2>1, <2>3 DEF KanbanGround, OrdersWhole
  <2> QED
    BY <1>12, <1>13, <2>2, <2>3
<1>15. BoardAgrees'
  <2> SUFFICES ASSUME kanban = "shown", ~torn', ~muddled'
               PROVE  BoardAgrees'
    BY <1>2 DEF BoardAgrees
  <2>1. ~torn /\ ~muddled
    <3>1. CASE MoveFailed(m) /\ moves[m].mine
      BY <1>1, <1>11, <3>1 DEF KanbanGround
    <3> QED
      BY <1>12, <1>13, <3>1
  <2>2. /\ \A d \in CardIds : Among(d, order[stage[d]])
        /\ \A n \in Moves : moves[n].mine => MoveAgrees(n)
        /\ \A d \in CardIds :
             (\A n \in Moves : moves[n].mine => moves[n].card # d) => stage[d] = serverStage[d]
        /\ drag # NoDrag => drag.was = stage[drag.card]
        /\ \/ savedOrder = order
           \/ order = Built(serverStage, savedOrder) /\ \A n \in Moves : ~moves[n].mine
    BY <1>1, <2>1 DEF KanbanGround, BoardAgrees
  <2>3. \A d \in CardIds \ {c} : stage'[d] = stage[d]
    BY <1>1, <1>3, <1>11, <1>12, <1>13 DEF KanbanGround
  <2>4. MoveDone(m) => stage' = stage
    BY <1>1, <1>3, <1>13, <2>2 DEF KanbanGround, MoveAgrees, c
  <2>5. moves[m].mine => stage'[c] = serverStage[c]
    <3> SUFFICES ASSUME moves[m].mine PROVE stage'[c] = serverStage[c]
      OBVIOUS
    <3>1. MoveAgrees(m)
      BY <2>2
    <3>2. CASE MoveDone(m)
      BY <1>13, <2>4, <3>1, <3>2 DEF MoveAgrees, c
    <3>3. CASE MoveFailed(m)
      <4>1. moves[m].st # "done"
        BY <3>3 DEF MoveFailed
      <4>2. stage'[c] = moves[m].was
        BY <1>1, <1>3, <1>11, <3>3 DEF KanbanGround
      <4> QED
        BY <3>1, <4>1, <4>2 DEF MoveAgrees, c
    <3> QED
      BY <3>2, <3>3
  <2>6. ~moves[m].mine => UNCHANGED <<stage, order, savedOrder>>
    BY <1>12, <1>13
  <2>7. \A d \in CardIds : Among(d, order'[stage'[d]])
    <3>1. CASE MoveFailed(m) /\ moves[m].mine
      <4>1. moves[m].same /\ order' = moves[m].snap
        BY <1>1, <1>11, <3>1 DEF KanbanGround, MoveRecs
      <4>2. MoveAgrees(m)
        BY <2>2, <3>1
      <4>3. stage'[c] = moves[m].was
        BY <1>1, <1>3, <1>11, <3>1 DEF KanbanGround
      <4>4. /\ Among(c, order'[moves[m].was])
            /\ \A d \in CardIds \ {c} : Among(d, order'[stage[d]])
        BY <4>1, <4>2 DEF MoveAgrees, c
      <4> QED
        BY <2>3, <4>3, <4>4
    <3>2. CASE UNCHANGED <<stage, order>>
      BY <2>2, <3>2
    <3> QED
      BY <1>12, <1>13, <2>4, <3>1, <3>2
  <2>8. ASSUME NEW n \in Moves, moves'[n].mine PROVE MoveAgrees(n)'
    <3>0. n # m /\ moves[n].mine
      BY <1>6, <1>7, <2>8
    <3>1. MoveAgrees(n) /\ moves[n].card \in CardIds
      BY <1>1, <2>2, <3>0 DEF KanbanGround, VisitOwn
    <3>2. moves[m].mine => moves[n].card # c
      BY <1>5, <3>0, <3>1 DEF MoveAgrees, c
    <3>3. \A l \in Underway' : moves'[l].card = moves[n].card => l = n
      BY <1>5, <1>6, <3>1 DEF MoveAgrees, Underway
    <3>4. stage'[moves[n].card] = stage[moves[n].card]
      BY <2>3, <2>6, <3>1, <3>2
    <3>5. moves'[n].same => \A d \in CardIds : stage'[d] = stage[d]
      BY <1>4, <2>4
    <3> QED
      BY <1>1, <1>2, <1>4, <3>0, <3>1, <3>3, <3>4, <3>5, AgreesStill
  <2>9. \A d \in CardIds :
          (\A n \in Moves : moves'[n].mine => moves'[n].card # d) => stage'[d] = serverStage'[d]
    <3> SUFFICES ASSUME NEW d \in CardIds, \A n \in Moves : moves'[n].mine => moves'[n].card # d
                 PROVE  stage'[d] = serverStage[d]
      BY <1>2
    <3>1. CASE moves[m].mine /\ d = c
      BY <2>5, <3>1
    <3>2. CASE ~(moves[m].mine /\ d = c)
      <4>1. \A n \in Moves : moves[n].mine => moves[n].card # d
        BY <1>6, <3>2 DEF c
      <4> QED
        BY <2>2, <2>3, <2>6, <3>2, <4>1
    <3> QED
      BY <3>1, <3>2
  <2>10. drag' # NoDrag => drag'.was = stage'[drag'.card]
    BY <1>1, <1>2, <1>11, <1>12, <2>2, <2>4 DEF KanbanGround
  <2>11. \/ savedOrder' = order'
         \/ order' = Built(serverStage, savedOrder)' /\ \A n \in Moves : ~moves'[n].mine
    <3>1. CASE MoveFailed(m) /\ moves[m].mine
      BY <1>11, <3>1
    <3>2. CASE UNCHANGED <<order, savedOrder>>
      <4>1. Built(serverStage, savedOrder)' = Built(serverStage, savedOrder)
        BY <1>2, <3>2 DEF Built
      <4>2. (\A n \in Moves : ~moves[n].mine) => \A n \in Moves : ~moves'[n].mine
        BY <1>6, <1>7
      <4> QED
        BY <2>2, <3>2, <4>1, <4>2
    <3> QED
      BY <1>12, <1>13, <3>1, <3>2
  <2> QED
    BY <1>2, <2>7, <2>8, <2>9, <2>10, <2>11 DEF BoardAgrees
<1> QED
  BY <1>9, <1>10, <1>14, <1>15 DEF KanbanIInv

----------------------------------------------------------------------------
(* The board. *)

LEMMA KanbanStarts == KanbanInit => KanbanIInv
<1> SUFFICES ASSUME KanbanInit PROVE KanbanIInv
  OBVIOUS
<1>1. /\ kanban = "away" /\ drag = NoDrag
      /\ stage \in [CardIds -> Columns] /\ serverStage \in [CardIds -> Columns]
      /\ order \in Orders /\ savedOrder \in Orders
      /\ moves \in [Moves -> MoveRecs]
      /\ \A m \in Moves : moves[m].st = "none" /\ ~moves[m].mine
      /\ \A col \in Columns : EachOnce(savedOrder[col])
  BY NoneIs, CardsAre DEF KanbanInit
<1>2. drops = 0 /\ muddled = FALSE /\ torn = FALSE
  BY DEF KanbanInit
<1>3. KanbanTypeOK
  <2>1. drops \in 0..MaxDrops /\ drag \in DragRecs
    BY <1>1, <1>2, NoneIs, KanbanAssumption
  <2> QED
    BY <1>1, <1>2, <2>1 DEF KanbanTypeOK, DragRecs, MoveRecs
<1>4. VisitOwn /\ OrdersWhole /\ BoardAgrees
  BY <1>1 DEF VisitOwn, OrdersWhole, BoardAgrees
<1> QED
  BY <1>3, <1>4 DEF KanbanIInv

LEMMA KanbanMoves == KanbanIInv /\ [KanbanNext]_kanbanVars => KanbanIInv'
<1> SUFFICES ASSUME KanbanIInv, [KanbanNext]_kanbanVars PROVE KanbanIInv'
  OBVIOUS
<1>1. CASE OpenBoard \/ LoadBoardFails \/ CloseBoard
  BY <1>1, AwayKeeps
<1>2. CASE LoadBoard
  BY <1>2, LoadKeeps
<1>3. CASE DropNowhere \/ \E c \in CardIds : Grab(c)
  BY <1>3, HandKeeps
<1>4. ASSUME NEW i \in 0..Len(Cards), DropInColumn(i) PROVE KanbanIInv'
  BY <1>4, DropInKeeps
<1>5. ASSUME NEW m \in Moves, NEW col \in Stages, NEW i \in 0..Len(Cards),
             DropOnStage(m, col, i)
      PROVE  KanbanIInv'
  BY <1>5, DropOnKeeps
<1>6. ASSUME NEW m \in Moves, ServeMove(m) \/ MoveDone(m) \/ MoveFailed(m) PROVE KanbanIInv'
  BY <1>6, ServeMoveKeeps, AnsweredKeeps
<1>7. CASE UNCHANGED kanbanVars
  <2>1. KanbanTypeOK'
    BY <1>7 DEF kanbanVars, KanbanIInv, KanbanTypeOK
  <2>2. VisitOwn' /\ OrdersWhole'
    BY <1>7 DEF kanbanVars, KanbanIInv, VisitOwn, OrdersWhole
  <2>3. BoardAgrees'
    BY <1>7 DEF kanbanVars, KanbanIInv, BoardAgrees, MoveAgrees, Underway, Built
  <2> QED
    BY <2>1, <2>2, <2>3 DEF KanbanIInv
<1> QED
  BY <1>1, <1>2, <1>3, <1>4, <1>5, <1>6, <1>7 DEF KanbanNext

\* The invariant gives what the board promises.
LEMMA KanbanPromises == KanbanIInv => BoardWhole /\ BoardTruthful /\ ReopenSame
<1> SUFFICES ASSUME KanbanIInv PROVE BoardWhole /\ BoardTruthful /\ ReopenSame
  OBVIOUS
<1>1. KanbanGround
  BY KanbanHas
<1>2. BoardWhole
  BY <1>1 DEF BoardWhole, KanbanGround, OrdersWhole
<1>3. ASSUME kanban = "shown", Underway = {}, ~muddled, ~torn
      PROVE  /\ \A c \in CardIds : stage[c] = serverStage[c] /\ Among(c, order[serverStage[c]])
             /\ Built(serverStage, savedOrder) = order
  <2>1. \A m \in Moves : ~moves[m].mine
    BY <1>1, <1>3 DEF KanbanGround, VisitOwn, Underway
  <2>2. \A c \in CardIds : stage[c] = serverStage[c] /\ Among(c, order[serverStage[c]])
    BY <1>1, <1>3, <2>1 DEF KanbanGround, BoardAgrees
  <2>3. Whole(order)
    BY <1>1, <1>3 DEF KanbanGround, OrdersWhole
  <2>4. Built(serverStage, order) = order
    BY <1>1, <2>2, <2>3, BuiltSame DEF KanbanGround
  <2>5. Built(serverStage, savedOrder) = order
    BY <1>1, <1>3, <2>4 DEF KanbanGround, BoardAgrees
  <2> QED
    BY <2>2, <2>5
<1> QED
  BY <1>2, <1>3 DEF BoardTruthful, ReopenSame

\* The invariant of the board, over every behaviour.
THEOREM KanbanInductive == KanbanSpec => []KanbanIInv
BY KanbanStarts, KanbanMoves, PTL DEF KanbanSpec

\* The board shows every card once, at rest in the column the server has it in, and shows
\* the same when it is opened again, whatever is dropped, refused and answered in between.
THEOREM BoardTruthfulHolds == KanbanSpec => [](BoardWhole /\ BoardTruthful /\ ReopenSame)
BY KanbanPromises, KanbanInductive, PTL
=============================================================================
