--------------------------------- MODULE Filters ---------------------------------
(***************************************************************************)
(* The filters over a list that is loaded page by page: the public job     *)
(* board, whose address carries them, the admin's jobs, the admin's        *)
(* applications, and the salary field of the job form.  The ends of the    *)
(* salary slider are those of the jobs loaded so far, so they move while   *)
(* the user's range stands; the text counts only once it has settled.      *)
(***************************************************************************)
EXTENDS Integers, FiniteSets

CONSTANTS
  Job,    \* the jobs: a sequence of records of salary, place, company and text
  Step,   \* SALARY_STEP
  Top,    \* the end of the slider while no job is loaded
  FieldTop \* SALARY_FORM_MAX: the end of the field in the form

\* A job's salary has its ends in order, and no end above.
ASSUME FilterAssumption ==
  /\ Step \in Nat \ {0} /\ Top \in Nat /\ FieldTop \in Nat
  /\ IsFiniteSet(DOMAIN Job)
  /\ \A j \in DOMAIN Job : Job[j].lo \in Nat /\ Job[j].hi \in Nat /\ Job[j].lo <= Job[j].hi

Jobs == DOMAIN Job
AllPlaces == {Job[j].place : j \in Jobs}
Companies == {Job[j].company : j \in Jobs}
Texts == {"", "word"}
Boards == {"board", "jobs"}
AnyRange == <<-1, -1>>   \* null: the user has asked for no range

VARIABLES
  filtering,  \* the component
  loaded,     \* the jobs loaded so far
  range,      \* salaryRange, or the pair the form holds
  places,     \* selectedLocations
  typed,      \* query
  query,      \* debouncedQuery
  url,        \* the filters in the address
  jobFilter,  \* the jobs whose applications are shown; all when empty
  companyFilter,
  typing,     \* the number being typed into an end of the salary field
  detached,    \* the address was changed under the page
  unpruned    \* a company was taken away by its chip

filterVars == <<filtering, loaded, range, places, typed, query, url, jobFilter, companyFilter,
                typing, detached, unpruned>>

----------------------------------------------------------------------------
(* What is shown. *)

Least(S) == CHOOSE n \in S : \A m \in S : n <= m
Most(S) == CHOOSE n \in S : \A m \in S : n >= m

Fallback == <<0, Top>>

\* Mutant: the upper end is rounded down.
SalaryBoundsDown(js) ==
  LET lo == Least({Job[j].lo : j \in js})
      hi == Most({Job[j].hi : j \in js})
  IN IF js = {} \/ lo >= hi THEN Fallback ELSE <<(lo \div Step) * Step, (hi \div Step) * Step>>

\* getSalaryBounds: the ends of the salaries loaded, rounded outwards.
SalaryBounds(js) ==
  LET lo == Least({Job[j].lo : j \in js})
      hi == Most({Job[j].hi : j \in js})
  IN IF js = {} \/ lo >= hi THEN Fallback
     ELSE <<(lo \div Step) * Step, ((hi + Step - 1) \div Step) * Step>>

Clamp(n, b) == IF n < b[1] THEN b[1] ELSE IF n > b[2] THEN b[2] ELSE n

\* effectiveSalaryRange.
Effective(js, r) ==
  LET b == SalaryBounds(js)
  IN IF r = AnyRange THEN b ELSE <<Clamp(r[1], b), Clamp(r[2], b)>>

\* isSalaryActive.
SalaryActive(js, r) == Effective(js, r) # SalaryBounds(js)

Touches(j, r) == Job[j].hi >= r[1] /\ Job[j].lo <= r[2]

MatchesSalary(j, js, r) == SalaryActive(js, r) => Touches(j, Effective(js, r))

\* filtered.
Filtered(js, r, ps, q) ==
  {j \in js : /\ q = "" \/ Job[j].text = q
              /\ ps = {} \/ Job[j].place \in ps
              /\ MatchesSalary(j, js, r)}

\* Mutant: the range stays in the address when it is no longer active.
UrlOfSticky(js, r, ps, q) ==
  [range |-> IF SalaryActive(js, r) THEN Effective(js, r) ELSE url.range,
   places |-> ps, query |-> q]

\* The effect that writes the filters into the address.
UrlOf(js, r, ps, q) ==
  [range |-> IF SalaryActive(js, r) THEN Effective(js, r) ELSE AnyRange,
   places |-> ps, query |-> q]

NoFilters == [range |-> AnyRange, places |-> {}, query |-> ""]

Ranges == {AnyRange} \cup (Nat \X Nat)
NotANumber == -2
Typeable == {NotANumber, -1} \cup 0..FieldTop + Step   \* bound: the numbers typed
NoDraft == [end |-> "none", n |-> NotANumber]

FilterTypeOK ==
  /\ filtering \in Boards \cup {"applications", "field"}
  /\ loaded \subseteq Jobs
  /\ range \in Ranges
  /\ places \subseteq AllPlaces
  /\ typed \in Texts /\ query \in Texts
  /\ url \in [range : Ranges, places : SUBSET AllPlaces, query : Texts]
  /\ jobFilter \subseteq Jobs /\ companyFilter \subseteq Companies
  /\ typing \in {NoDraft} \cup [end : {"lo", "hi"}, n : Typeable]
  /\ {detached, unpruned} \subseteq BOOLEAN

\* The board opens with the filters of its address; the applications of one job are
\* linked to.
FilterInit ==
  /\ filtering \in Boards \cup {"applications", "field"}
  /\ loaded = {}
  /\ range \in IF filtering = "field" THEN {<<0, FieldTop>>} \cup {<<Job[j].lo, Job[j].hi>> : j \in Jobs}
               ELSE IF filtering = "board" THEN {AnyRange, <<Step, 2 * Step>>} ELSE {AnyRange}
  /\ places = {}
  /\ typed = "" /\ query = ""
  /\ url = IF filtering = "board" THEN [NoFilters EXCEPT !.range = range] ELSE NoFilters
  /\ jobFilter \in IF filtering = "applications" THEN {{}} \cup {{j} : j \in Jobs} ELSE {{}}
  /\ companyFilter = {}
  /\ typing = NoDraft
  /\ detached = FALSE /\ unpruned = FALSE

\* After a change to the filters or to the rows the board writes its address.
Written ==
  /\ url' = IF filtering = "board" THEN UrlOf(loaded', range', places', query') ELSE url
  /\ detached' = FALSE
  /\ UNCHANGED <<filtering, jobFilter, companyFilter, typing, unpruned>>

----------------------------------------------------------------------------
(* The list, the text and the places. *)

LoadJobs ==
  /\ filtering # "field"
  /\ \E j \in Jobs \ loaded : loaded' = loaded \cup {j}
  /\ UNCHANGED <<range, places, typed, query>>
  /\ Written

\* A filter of the server's begins the list again; the ones of the page stand.
ChangeStatus ==
  /\ filtering \in {"jobs", "applications"}
  /\ loaded' = {}
  /\ UNCHANGED <<range, places, typed, query>>
  /\ Written

TypeQuery ==
  /\ filtering \in Boards
  /\ \E t \in Texts : typed' = t
  /\ UNCHANGED <<filtering, loaded, range, places, query, url, jobFilter, companyFilter, typing,
                 detached, unpruned>>

\* useDebounce.
Settle ==
  /\ query # typed
  /\ query' = typed
  /\ UNCHANGED <<loaded, range, places, typed>>
  /\ Written

\* The chips of the places that loaded jobs have; shown when there are two or more.
ToggleLocation ==
  /\ filtering \in Boards
  /\ LET offered == {Job[j].place : j \in loaded}
     IN /\ Cardinality(offered) >= 2
        /\ \E p \in offered : places' = IF p \in places THEN places \ {p} ELSE places \cup {p}
  /\ UNCHANGED <<loaded, range, typed, query>>
  /\ Written

----------------------------------------------------------------------------
(* The slider. *)

\* Mutant: the thumbs may pass each other.
SlideMinPast(v, e, b) == <<v, e[2]>>

\* handleMinChange, handleMaxChange: a thumb stops one step before the other.
SlideMin(v, e, b) ==
  LET next == IF v < e[2] - Step THEN v ELSE e[2] - Step
  IN <<IF next < b[1] THEN b[1] ELSE next, e[2]>>

SlideMax(v, e, b) ==
  LET next == IF v > e[1] + Step THEN v ELSE e[1] + Step
  IN <<e[1], IF next > b[2] THEN b[2] ELSE next>>

\* What a thumb of a slider between b[1] and b[2] may make of the pair e.
Slides(e, b) ==
  UNION {{SlideMin(v, e, b), SlideMax(v, e, b)} : v \in {n \in b[1]..b[2] : n % Step = 0}}

SlideRange ==
  /\ filtering \in Boards
  /\ range' \in Slides(Effective(loaded, range), SalaryBounds(loaded))
  /\ UNCHANGED <<loaded, places, typed, query>>
  /\ Written

\* handleResetSalary: the bounds of the moment are written as the user's range.
ResetSalary ==
  /\ filtering \in Boards
  /\ SalaryActive(loaded, range)
  /\ range' = SalaryBounds(loaded)
  /\ UNCHANGED <<loaded, places, typed, query>>
  /\ Written

\* The chip of the jobs page: the range is no one's choice any more.
ClearRange ==
  /\ filtering = "jobs"
  /\ SalaryActive(loaded, range)
  /\ range' = AnyRange
  /\ UNCHANGED <<loaded, places, typed, query>>
  /\ Written

\* clearFilters: the text shown is empty at once, the one that counts when it settles.
ClearFilters ==
  /\ filtering \in Boards
  /\ range' = AnyRange /\ places' = {} /\ typed' = ""
  /\ UNCHANGED <<loaded, query>>
  /\ Written

\* A link to the board from the board: the address loses its filters, the page keeps them.
FollowLink ==
  /\ filtering = "board"
  /\ url' = NoFilters
  /\ detached' = TRUE
  /\ UNCHANGED <<filtering, loaded, range, places, typed, query, jobFilter, companyFilter, typing,
                 unpruned>>

----------------------------------------------------------------------------
(* The filters of the applications, and the salary field of the form. *)

JobsOf(cs) == {j \in Jobs : Job[j].company \in cs}

\* Mutant: the jobs picked stay when the companies change.
PickCompaniesOnly(cs) == jobFilter

\* The select of the companies takes away the jobs of others.
PickCompanies(cs) == IF cs # {} THEN jobFilter \cap JobsOf(cs) ELSE jobFilter

\* The select of the jobs offers those of the companies picked.
PickFilter ==
  /\ filtering = "applications"
  /\ \/ /\ \E cs \in SUBSET Companies : companyFilter' = cs /\ jobFilter' = PickCompanies(cs)
        /\ unpruned' = FALSE
     \/ /\ \E j \in IF companyFilter = {} THEN Jobs ELSE JobsOf(companyFilter) :
             jobFilter' = IF j \in jobFilter THEN jobFilter \ {j} ELSE jobFilter \cup {j}
        /\ UNCHANGED <<companyFilter, unpruned>>
  /\ UNCHANGED <<filtering, loaded, range, places, typed, query, url, typing, detached>>

\* The chips above the list take one job or one company away, and nothing with it.
RemoveChip ==
  /\ filtering = "applications"
  /\ \/ /\ \E j \in jobFilter : jobFilter' = jobFilter \ {j}
        /\ UNCHANGED <<companyFilter, unpruned>>
     \/ /\ \E c \in companyFilter : companyFilter' = companyFilter \ {c}
        /\ unpruned' = TRUE
        /\ UNCHANGED jobFilter
  /\ UNCHANGED <<filtering, loaded, range, places, typed, query, url, typing, detached>>

\* The pair the field shows.
FieldEnds == LET lo == Clamp(range[1], <<0, FieldTop>>) hi == Clamp(range[2], <<0, FieldTop>>)
             IN <<lo, IF hi < lo THEN lo ELSE hi>>

\* A number is typed, or given up with Escape.
TypeSalary ==
  /\ filtering = "field"
  /\ typing' \in {NoDraft} \cup [end : IF typing = NoDraft THEN {"lo", "hi"} ELSE {typing.end},
                                n : Typeable]
  /\ UNCHANGED <<filtering, loaded, range, places, typed, query, url, jobFilter, companyFilter,
                 detached, unpruned>>

\* Mutant: the lower end is not kept above zero.
CommitLoBelow(n) == <<IF n < FieldEnds[2] - Step THEN n ELSE FieldEnds[2] - Step, FieldEnds[2]>>

\* The lower end stays a step below the upper one, the upper one a step above the lower.
CommitLo(n) ==
  LET below == IF n < FieldEnds[2] - Step THEN n ELSE FieldEnds[2] - Step
  IN <<IF below < 0 THEN 0 ELSE below, FieldEnds[2]>>

CommitHi(n) ==
  LET capped == IF n > FieldTop THEN FieldTop ELSE n
  IN <<FieldEnds[1], IF capped < FieldEnds[1] + Step THEN FieldEnds[1] + Step ELSE capped>>

\* commitLo, commitHi, on Enter or when the field is left: no number, no change.
CommitSalary ==
  /\ filtering = "field"
  /\ typing # NoDraft
  /\ range' = IF typing.n = NotANumber THEN FieldEnds
              ELSE IF typing.end = "lo" THEN CommitLo(typing.n) ELSE CommitHi(typing.n)
  /\ typing' = NoDraft
  /\ UNCHANGED <<filtering, loaded, places, typed, query, url, jobFilter, companyFilter,
                 detached, unpruned>>

\* The slider under the field; a number being typed is left to its own commit.
SlideField ==
  /\ filtering = "field"
  /\ range' \in Slides(FieldEnds, <<0, FieldTop>>)
  /\ UNCHANGED <<filtering, loaded, places, typed, query, url, jobFilter, companyFilter, typing,
                 detached, unpruned>>

FilterNext ==
  \/ LoadJobs \/ ChangeStatus \/ TypeQuery \/ Settle \/ ToggleLocation
  \/ SlideRange \/ ResetSalary \/ ClearRange \/ ClearFilters \/ FollowLink
  \/ PickFilter \/ RemoveChip \/ TypeSalary \/ CommitSalary \/ SlideField

FilterSpec == FilterInit /\ [][FilterNext]_filterVars

----------------------------------------------------------------------------
(* Properties. *)

\* A salary range has its ends in order, on the slider and in the form, whatever pages
\* arrive between two movements of the thumbs.
RangeOrdered ==
  /\ range[1] <= range[2]
  /\ filtering \in Boards => Effective(loaded, range)[1] <= Effective(loaded, range)[2]

\* A loaded job that the salary filter hides lies outside the range chosen last, however
\* the ends of the slider have moved since (a reset chooses the ends of its moment), unless
\* all the jobs loaded have one salary, above the end the slider then falls back to.
HiddenOutsideAsked ==
  filtering \in Boards =>
    \A j \in loaded :
      \/ MatchesSalary(j, loaded, range)
      \/ range # AnyRange /\ ~Touches(j, range)
      \/ SalaryBounds(loaded) = Fallback /\ Job[j].lo > Top

\* The address shows another browser the jobs this one shows, among those loaded here,
\* unless a link changed it under the page.
UrlReopensSame ==
  filtering = "board" /\ ~detached =>
    Filtered(loaded, url.range, url.places, url.query) = Filtered(loaded, range, places, query)

\* The applications are never filtered by a job and by companies it is not of, which
\* shows none of them, unless a company was taken away by its chip.
JobsOfCompanies ==
  companyFilter # {} /\ ~unpruned => jobFilter \subseteq JobsOf(companyFilter)

----------------------------------------------------------------------------
(* Why they hold: an inductive invariant. *)

\* The address has the filters of the page, the range as it was given or as it counts.
UrlAgrees ==
  filtering = "board" /\ ~detached =>
    /\ url.places = places /\ url.query = query
    /\ url.range \in {range, UrlOf(loaded, range, places, query).range}

FilterIInv == FilterTypeOK /\ range[1] <= range[2] /\ UrlAgrees /\ JobsOfCompanies
============================================================================
