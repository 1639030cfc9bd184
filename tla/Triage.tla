-------------------------------- MODULE Triage --------------------------------
(***************************************************************************)
(* Triage mode: the administrator goes through the new applications one    *)
(* card at a time.  A decision is shown and the carousel slides on at      *)
(* once, the request follows; a refusal takes the decision back, and a     *)
(* decision can be undone by a request of its own.  The slide ends when    *)
(* its animation does, and meanwhile the strip may jump to another card.   *)
(***************************************************************************)
EXTENDS Naturals

CONSTANTS
  Queue,      \* applications of the queue: 1..Queue
  Patches,    \* bound: requests in flight
  MaxPatches  \* bound: requests made

ASSUME TriageAssumption == Queue \in Nat \ {0} /\ MaxPatches \in Nat

Applicants == 1..Queue
Verdicts == {"APPROVED_BY_ADMIN", "REJECTED_BY_ADMIN"}
Undecided == "PENDING_ADMIN_REVIEW"

VARIABLES
  verdictAt,   \* the status the server holds of each application
  decided,     \* decisions: what the session shows of each, and where it was taken
  index,       \* the card shown
  flying,      \* the slide under way
  pendingUndo, \* what the undo pill offers to take back
  patch,       \* requests
  patched,     \* requests made so far
  wanted,      \* for the properties: the card last asked for
  strayed,     \* a jump or an undo moved the index during a slide
  doubtful     \* applications whose answers were lost, overlapped, or were about a
               \* second decision

triageVars == <<verdictAt, decided, index, flying, pendingUndo, patch, patched,
                wanted, strayed, doubtful>>

NoDecision == [of |-> Undecided, at |-> 0]
Decisions == [of : Verdicts \cup {Undecided}, at : Applicants \cup {0}]
NoPatch == [st |-> "none", app |-> 0, to |-> Undecided, back |-> NoDecision]
NoUndo == [app |-> 0, of |-> Undecided, at |-> 0]
Awaited == {p \in Patches : patch[p].st # "none"}

TriageTypeOK ==
  /\ verdictAt \in [Applicants -> Verdicts \cup {Undecided}]
  /\ decided \in [Applicants -> Decisions]
  /\ index \in Applicants
  /\ flying \in {"no", "next", "prev"}
  /\ pendingUndo \in [app : Applicants \cup {0}, of : Verdicts \cup {Undecided},
                      at : Applicants \cup {0}]
  /\ patch \in [Patches -> [st : {"none", "sent", "done", "refused", "lost"},
                            app : Applicants \cup {0}, to : Verdicts \cup {Undecided},
                            back : Decisions]]
  /\ patched \in 0..MaxPatches
  /\ wanted \in Applicants
  /\ strayed \in BOOLEAN
  /\ doubtful \subseteq Applicants

TriageInit ==
  /\ verdictAt = [x \in Applicants |-> Undecided]
  /\ decided = [x \in Applicants |-> NoDecision]
  /\ index = 1
  /\ flying = "no"
  /\ pendingUndo = NoUndo
  /\ patch = [p \in Patches |-> NoPatch]
  /\ patched = 0
  /\ wanted = 1
  /\ strayed = FALSE
  /\ doubtful = {}

----------------------------------------------------------------------------
(* The carousel. *)

\* Every application decided and the pill gone: the summary replaces the cards.
SummaryShown ==
  pendingUndo = NoUndo /\ \A x \in Applicants : decided[x] # NoDecision

Following(dir) == IF dir = "next" THEN index + 1 ELSE index - 1

\* slideTo: by key or arrow, not during a slide.
SlideTo(dir) ==
  /\ flying = "no"
  /\ Following(dir) \in Applicants
  /\ flying' = dir
  /\ wanted' = Following(dir)
  /\ strayed' = FALSE
  /\ UNCHANGED <<verdictAt, decided, index, pendingUndo, patch, patched, doubtful>>

\* The finger, put down before any slide, leaves the screen beyond the trigger: a
\* slide begun meanwhile changes its direction.
Swipe(dir) ==
  /\ Following(dir) \in Applicants
  /\ flying' = dir
  /\ wanted' = Following(dir)
  /\ strayed' = FALSE
  /\ UNCHANGED <<verdictAt, decided, index, pendingUndo, patch, patched, doubtful>>

\* Mutant: the last card is not kept.
SlideEndsUnclamped ==
  /\ flying # "no"
  /\ index' = Following(flying)
  /\ flying' = "no"
  /\ UNCHANGED <<verdictAt, decided, pendingUndo, patch, patched, wanted, strayed, doubtful>>

\* Mutant: the two directions are swapped.
SlideEndsSwapped ==
  /\ flying # "no"
  /\ index' = IF flying = "prev" /\ index < Queue THEN index + 1
              ELSE IF flying = "next" /\ index > 1 THEN index - 1 ELSE index
  /\ flying' = "no"
  /\ UNCHANGED <<verdictAt, decided, pendingUndo, patch, patched, wanted, strayed, doubtful>>

\* The transition ends, or its fallback timer fires.
SlideEnds ==
  /\ flying # "no"
  /\ index' = IF Following(flying) \in Applicants THEN Following(flying) ELSE index
  /\ flying' = "no"
  /\ UNCHANGED <<verdictAt, decided, pendingUndo, patch, patched, wanted, strayed, doubtful>>

\* jumpTo: not held back by a slide.
Jump(i) ==
  /\ ~SummaryShown
  /\ i # index
  /\ index' = i
  /\ wanted' = i
  /\ strayed' = (flying # "no")
  /\ UNCHANGED <<verdictAt, decided, flying, pendingUndo, patch, patched, doubtful>>

----------------------------------------------------------------------------
(* Decisions. *)

Send(p, x, to, back) ==
  /\ patched < MaxPatches
  /\ patched' = patched + 1
  /\ patch[p] = NoPatch
  /\ patch' = [patch EXCEPT ![p] = [st |-> "sent", app |-> x, to |-> to, back |-> back]]

Overlaps(x) == \E p \in Awaited : patch[p].app = x

\* decide, by button or by key; the keys work on the summary too.
Decide(p, v) ==
  /\ flying = "no"
  /\ decided' = [decided EXCEPT ![index] = [of |-> v, at |-> index]]
  /\ pendingUndo' = [app |-> index, of |-> v, at |-> index]
  /\ flying' = IF index < Queue THEN "next" ELSE "no"
  /\ wanted' = IF index < Queue THEN index + 1 ELSE index
  /\ strayed' = FALSE
  /\ Send(p, index, v, NoDecision)
  /\ doubtful' = IF Overlaps(index) \/ decided[index] # NoDecision
                   THEN doubtful \cup {index} ELSE doubtful
  /\ UNCHANGED <<verdictAt, index>>

\* Mutant: the undo takes the decision back on the screen only.
RetractLocal(p, x, at) ==
  /\ decided' = [decided EXCEPT ![x] = NoDecision]
  /\ pendingUndo' = IF pendingUndo.app = x THEN NoUndo ELSE pendingUndo
  /\ UNCHANGED <<patch, patched, doubtful>>

\* retractDecision: the decision shown is what a refusal brings back.
Retract(p, x, at) ==
  /\ decided' = [decided EXCEPT ![x] = NoDecision]
  /\ pendingUndo' = IF pendingUndo.app = x THEN NoUndo ELSE pendingUndo
  /\ Send(p, x, Undecided, decided[x])
  /\ doubtful' = IF Overlaps(x) THEN doubtful \cup {x} ELSE doubtful

\* The pill goes back to the card of the decision.
Undo(p) ==
  LET u == pendingUndo IN
  /\ u # NoUndo
  /\ Retract(p, u.app, u.at)
  /\ index' = u.at
  /\ wanted' = u.at
  /\ strayed' = (flying # "no")
  /\ UNCHANGED <<verdictAt, flying>>

\* The banner of a card decided earlier.
ClearDecision(p) ==
  /\ ~SummaryShown
  /\ decided[index] # NoDecision
  /\ Retract(p, index, 0)
  /\ UNCHANGED <<verdictAt, index, flying, wanted, strayed>>

\* The pill's five seconds are over.
DismissUndo ==
  /\ pendingUndo # NoUndo
  /\ pendingUndo' = NoUndo
  /\ UNCHANGED <<verdictAt, decided, index, flying, patch, patched, wanted, strayed, doubtful>>

----------------------------------------------------------------------------
(* Server, network and answers. *)

\* Requests are carried out in any order.
ServePatch(p) ==
  LET x == patch[p].app IN
  /\ patch[p].st = "sent"
  /\ \/ \E st \in {"done", "lost"} :
          /\ patch' = [patch EXCEPT ![p].st = st]
          /\ verdictAt' = [verdictAt EXCEPT ![x] = patch[p].to]
          /\ doubtful' = IF st = "lost" THEN doubtful \cup {x} ELSE doubtful
     \/ /\ patch' = [patch EXCEPT ![p].st = "refused"]
        /\ UNCHANGED <<verdictAt, doubtful>>
  /\ UNCHANGED <<decided, index, flying, pendingUndo, patched, wanted, strayed>>

PatchDone(p) ==
  /\ patch[p].st = "done"
  /\ patch' = [patch EXCEPT ![p] = NoPatch]
  /\ UNCHANGED <<verdictAt, decided, index, flying, pendingUndo, patched, wanted, strayed,
                 doubtful>>

\* Mutant: the pill of a refused decision stays.
PatchFailedKeepsPill(p) ==
  LET x == patch[p].app IN
  /\ patch[p].st \in {"refused", "lost"}
  /\ patch' = [patch EXCEPT ![p] = NoPatch]
  /\ decided' = [decided EXCEPT ![x] = patch[p].back]
  /\ UNCHANGED <<verdictAt, index, flying, pendingUndo, patched, wanted, strayed, doubtful>>

\* A decision is dropped, an undo restored, whatever was decided since.
PatchFailed(p) ==
  LET x == patch[p].app IN
  /\ patch[p].st \in {"refused", "lost"}
  /\ patch' = [patch EXCEPT ![p] = NoPatch]
  /\ IF patch[p].to = Undecided
       THEN /\ decided' = IF patch[p].back = NoDecision THEN decided
                          ELSE [decided EXCEPT ![x] = patch[p].back]
            /\ UNCHANGED pendingUndo
       ELSE /\ decided' = [decided EXCEPT ![x] = NoDecision]
            /\ pendingUndo' = IF pendingUndo.app = x THEN NoUndo ELSE pendingUndo
  /\ UNCHANGED <<verdictAt, index, flying, patched, wanted, strayed, doubtful>>

TriageNext ==
  \/ \E dir \in {"next", "prev"} : SlideTo(dir) \/ Swipe(dir)
  \/ SlideEnds
  \/ \E i \in Applicants : Jump(i)
  \/ \E p \in Patches : \/ \E v \in Verdicts : Decide(p, v)
                        \/ Undo(p) \/ ClearDecision(p)
                        \/ ServePatch(p) \/ PatchDone(p) \/ PatchFailed(p)
  \/ DismissUndo

TriageSpec == TriageInit /\ [][TriageNext]_triageVars

----------------------------------------------------------------------------
(* Properties. *)

\* With no request under way, the session shows of each application what the server
\* holds, unless an answer about it was lost, two requests about it overlapped, or it
\* was decided again without being cleared first: the refusal of a second decision
\* shows the application as undecided while the first one stands.
TriageTruthful ==
  \A x \in Applicants \ doubtful :
    ~Overlaps(x) => decided[x].of = verdictAt[x]

\* What the undo pill offers to take back is the decision shown of that application.
UndoAims ==
  pendingUndo # NoUndo =>
    \/ decided[pendingUndo.app] = [of |-> pendingUndo.of, at |-> pendingUndo.at]
    \/ pendingUndo.app \in doubtful

\* The carousel comes to rest on the card last asked for, unless the strip or the
\* undo pill moved it while it was sliding: the slide then goes on from there.
LandsWhereAsked == flying = "no" => index = wanted \/ strayed

----------------------------------------------------------------------------
(* Why they hold: an inductive invariant. *)

\* What the pill offers was decided on the card it goes back to.
PillAgrees ==
  pendingUndo # NoUndo =>
    /\ pendingUndo.app \in Applicants /\ pendingUndo.of \in Verdicts
    /\ pendingUndo.at = pendingUndo.app

\* A slide under way goes to the card last asked for.
SlideAgrees == flying # "no" => Following(flying) = wanted \/ strayed

\* An application about which there is no doubt has one request at most, which was made
\* when the session and the server agreed: until it is carried out the server has what it
\* had then, and the session shows what was asked for.
PatchesAgree ==
  \A p \in Awaited :
    LET x == patch[p].app
        unserved == patch[p].st \in {"sent", "refused"}
    IN /\ x \in Applicants
       /\ x \notin doubtful =>
            /\ patch[p].st # "lost"
            /\ \A q \in Awaited : patch[q].app = x => q = p
            /\ decided[x].of = patch[p].to
            /\ IF patch[p].to = Undecided
                 THEN /\ decided[x] = NoDecision /\ pendingUndo.app # x
                      /\ unserved => verdictAt[x] = patch[p].back.of
                 ELSE unserved => verdictAt[x] = Undecided
            /\ ~unserved => verdictAt[x] = patch[p].to

TriageIInv ==
  /\ TriageTypeOK /\ PillAgrees /\ SlideAgrees /\ PatchesAgree
  /\ TriageTruthful /\ UndoAims /\ LandsWhereAsked
=============================================================================
