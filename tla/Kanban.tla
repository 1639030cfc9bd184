-------------------------------- MODULE Kanban --------------------------------
(***************************************************************************)
(* The employer's board of one job: applications stand in columns by       *)
(* status, in an order kept in localStorage.  A drop into another column   *)
(* moves the card at once and asks the server afterwards; a refusal puts   *)
(* the status and the whole order back as they were at the drop.  The      *)
(* requests run side by side, a card may be in the hand when an answer     *)
(* comes, and the page may be left with requests on their way.             *)
(***************************************************************************)
EXTENDS Naturals, Sequences, Picking

CONSTANTS
  Cards,      \* the applications of the job, as the server lists them
  Stages,     \* the columns a card may be dropped into
  Intake,     \* the column of APPROVED_BY_ADMIN
  Moves,      \* bound: requests in flight
  MaxDrops    \* bound: drops

\* What stands in a list, and that none of it stands there twice.
Among(c, list) == \E i \in DOMAIN list : list[i] = c
EachOnce(list) == \A i, j \in DOMAIN list : list[i] = list[j] => i = j

\* The applications' primary keys; 0 is none.
ASSUME KanbanAssumption ==
  /\ Cards \in Seq(Nat \ {0}) /\ EachOnce(Cards)
  /\ Intake \notin Stages /\ MaxDrops \in Nat

Columns == {Intake} \cup Stages
CardIds == {Cards[i] : i \in DOMAIN Cards}

VARIABLES
  kanban,      \* the page: away, loading, shown, failed
  serverStage, \* the status the server holds of each card
  stage,       \* applications: the status shown
  order,       \* the cards of each column
  savedOrder,  \* localStorage
  drops,       \* drops so far
  drag,        \* the card in the hand
  moves,       \* requests
  muddled,     \* for the properties: since the page was loaded an answer was lost, a
               \* card was moved twice at once, a request of an earlier visit was carried
               \* out, or a refusal put back an order that had changed since
  torn         \* a refusal put the order back while a card was in the hand

kanbanVars == <<kanban, serverStage, stage, order, savedOrder, drops, drag, moves, muddled, torn>>

NoDrag == [card |-> 0, from |-> Intake, was |-> Intake]
NoMove == [st |-> "none", card |-> 0, to |-> Intake, was |-> Intake,
           snap |-> [col \in Columns |-> <<>>], same |-> FALSE, mine |-> FALSE]
Underway == {m \in Moves : moves[m].st # "none"}

Orders == [Columns -> Seq(CardIds)]

KanbanTypeOK ==
  /\ kanban \in {"away", "loading", "shown", "failed"}
  /\ serverStage \in [CardIds -> Columns]
  /\ stage \in [CardIds -> Columns]
  /\ order \in Orders
  /\ savedOrder \in Orders
  /\ drops \in 0..MaxDrops
  /\ drag \in [card : CardIds \cup {0}, from : Columns, was : Columns]
  /\ moves \in [Moves -> [st : {"none", "sent", "done", "refused", "lost"},
                          card : CardIds \cup {0}, to : Columns, was : Columns,
                          snap : Orders, same : BOOLEAN, mine : BOOLEAN]]
  /\ muddled \in BOOLEAN /\ torn \in BOOLEAN

KanbanInit ==
  /\ kanban = "away"
  /\ serverStage = [c \in CardIds |-> Intake]
  /\ stage = serverStage
  /\ order = [col \in Columns |-> <<>>]
  /\ savedOrder = [col \in Columns |-> <<>>]
  /\ drops = 0
  /\ drag = NoDrag
  /\ moves = [m \in Moves |-> NoMove]
  /\ muddled = FALSE /\ torn = FALSE

----------------------------------------------------------------------------
(* Helpers on the cards of a column. *)

Lifted(list, c) == Picked(list, {i \in DOMAIN list : list[i] # c})
Placed(list, i, c) == SubSeq(list, 1, i) \o <<c>> \o SubSeq(list, i + 1, Len(list))

\* buildOrder: the stored order first, then the cards it does not know.
Built(stages, stored) ==
  [col \in Columns |->
     LET here == {i \in DOMAIN stored[col] : stages[stored[col][i]] = col}
         new == {i \in DOMAIN Cards : stages[Cards[i]] = col /\ ~Among(Cards[i], stored[col])}
     IN Picked(stored[col], here) \o Picked(Cards, new)]

----------------------------------------------------------------------------
(* The page. *)

OpenBoard ==
  /\ kanban = "away"
  /\ kanban' = "loading"
  /\ UNCHANGED <<drops, serverStage, stage, order, savedOrder, drag, moves, muddled, torn>>

LoadBoard ==
  /\ kanban = "loading"
  /\ kanban' = "shown"
  /\ stage' = serverStage
  /\ order' = Built(serverStage, savedOrder)
  /\ muddled' = FALSE
  /\ UNCHANGED <<drops, serverStage, savedOrder, drag, moves, torn>>

LoadBoardFails ==
  /\ kanban = "loading"
  /\ kanban' = "failed"
  /\ UNCHANGED <<drops, serverStage, stage, order, savedOrder, drag, moves, muddled, torn>>

\* The listeners of a drag are removed; requests in flight are not aborted.
CloseBoard ==
  /\ kanban # "away"
  /\ kanban' = "away"
  /\ stage' = [c \in CardIds |-> Intake]
  /\ order' = [col \in Columns |-> <<>>]
  /\ drag' = NoDrag
  /\ moves' = [m \in Moves |-> [NoMove EXCEPT !.st = moves[m].st, !.card = moves[m].card,
                                              !.to = moves[m].to]]
  /\ UNCHANGED <<drops, serverStage, savedOrder, muddled, torn>>

----------------------------------------------------------------------------
(* The pointer. *)

\* Bound: a board that shows a card twice is not followed further.
Grab(c) ==
  /\ kanban = "shown" /\ drag = NoDrag
  /\ ~torn
  /\ \E col \in Columns :
       /\ Among(c, order[col])
       /\ drag' = [card |-> c, from |-> col, was |-> stage[c]]
  /\ UNCHANGED <<drops, kanban, serverStage, stage, order, savedOrder, moves, muddled, torn>>

\* Outside every column, into a column that takes no drops, or a mere click.
DropNowhere ==
  /\ drag # NoDrag
  /\ drag' = NoDrag
  /\ UNCHANGED <<drops, kanban, serverStage, stage, order, savedOrder, moves, muddled, torn>>

\* The requests under way, once the order is not what their drops left.
Reordered == [m \in Moves |-> [moves[m] EXCEPT !.same = FALSE]]

DropInColumn(i) ==
  LET others == Lifted(order[drag.from], drag.card) IN
  /\ drops < MaxDrops /\ drag # NoDrag
  /\ i <= Len(others)
  /\ order' = [order EXCEPT ![drag.from] = Placed(others, i, drag.card)]
  /\ savedOrder' = order'
  /\ drops' = drops + 1
  /\ drag' = NoDrag
  /\ moves' = Reordered
  /\ UNCHANGED <<kanban, serverStage, stage, muddled, torn>>

\* Mutant: the card is not taken out of the column it comes from.
DroppedTwice(col, i) == [order EXCEPT ![col] = Placed(@, i, drag.card)]

\* The order with the card in hand taken from its column and put into col.
Dropped(col, i) ==
  [order EXCEPT ![drag.from] = Lifted(@, drag.card), ![col] = Placed(@, i, drag.card)]

\* Mutant: the request is built after dragRef was cleared.
RequestLate(m, col) ==
  moves' = [Reordered EXCEPT ![m] =
             [st |-> "sent", card |-> drag'.card, to |-> col, was |-> drag'.was,
              snap |-> order, same |-> TRUE, mine |-> TRUE]]

Request(m, col) ==
  moves' = [Reordered EXCEPT ![m] =
             [st |-> "sent", card |-> drag.card, to |-> col, was |-> drag.was,
              snap |-> order, same |-> TRUE, mine |-> TRUE]]

\* Mutant: the new order is not persisted.
DropOnStageUnsaved(m, col, i) ==
  /\ drops < MaxDrops /\ drag # NoDrag /\ col # drag.from
  /\ moves[m] = NoMove
  /\ i <= Len(Lifted(order[col], drag.card))
  /\ stage' = [stage EXCEPT ![drag.card] = col]
  /\ order' = Dropped(col, i)
  /\ drops' = drops + 1
  /\ drag' = NoDrag
  /\ Request(m, col)
  /\ muddled' = (muddled \/ \E n \in Underway : moves[n].card = drag.card)
  /\ UNCHANGED <<kanban, serverStage, savedOrder, torn>>

DropOnStage(m, col, i) ==
  /\ drops < MaxDrops /\ drag # NoDrag /\ col # drag.from
  /\ moves[m] = NoMove
  /\ i <= Len(Lifted(order[col], drag.card))
  /\ stage' = [stage EXCEPT ![drag.card] = col]
  /\ order' = Dropped(col, i)
  /\ savedOrder' = order'
  /\ drops' = drops + 1
  /\ drag' = NoDrag
  /\ Request(m, col)
  /\ muddled' = (muddled \/ \E n \in Underway : moves[n].card = drag.card)
  /\ UNCHANGED <<kanban, serverStage, torn>>

----------------------------------------------------------------------------
(* Server, network and answers. *)

\* The server takes any of the company's stages; the answer may be lost.
ServeMove(m) ==
  /\ moves[m].st = "sent"
  /\ \/ /\ serverStage' = [serverStage EXCEPT ![moves[m].card] = moves[m].to]
        /\ \E st \in {"done", "lost"} :
             /\ moves' = [moves EXCEPT ![m].st = st]
             /\ muddled' = (muddled \/ st = "lost" \/ ~moves[m].mine)
     \/ /\ moves' = [moves EXCEPT ![m].st = "refused"]
        /\ UNCHANGED <<serverStage, muddled>>
  /\ UNCHANGED <<drops, kanban, stage, order, savedOrder, drag, torn>>

MoveDone(m) ==
  /\ moves[m].st = "done"
  /\ moves' = [moves EXCEPT ![m] = NoMove]
  /\ stage' = IF moves[m].mine THEN [stage EXCEPT ![moves[m].card] = moves[m].to] ELSE stage
  /\ UNCHANGED <<drops, kanban, serverStage, order, savedOrder, drag, muddled, torn>>

\* Mutant: the catch puts the order back and forgets the status.
MoveFailedHalf(m) ==
  /\ moves[m].st \in {"refused", "lost"}
  /\ moves' = [Reordered EXCEPT ![m] = NoMove]
  /\ IF moves[m].mine
       THEN order' = moves[m].snap /\ savedOrder' = moves[m].snap
       ELSE UNCHANGED <<order, savedOrder>>
  /\ UNCHANGED <<drops, kanban, serverStage, stage, drag, muddled, torn>>

\* The whole order goes back to what it was at the drop, other cards included.
MoveFailed(m) ==
  /\ moves[m].st \in {"refused", "lost"}
  /\ moves' = [Reordered EXCEPT ![m] = NoMove]
  /\ IF moves[m].mine
       THEN /\ stage' = [stage EXCEPT ![moves[m].card] = moves[m].was]
            /\ order' = moves[m].snap
            /\ savedOrder' = moves[m].snap
            /\ muddled' = (muddled \/ ~moves[m].same)
            /\ torn' = (torn \/ drag # NoDrag)
       ELSE UNCHANGED <<stage, order, savedOrder, muddled, torn>>
  /\ UNCHANGED <<drops, kanban, serverStage, drag>>

KanbanNext ==
  \/ OpenBoard \/ LoadBoard \/ LoadBoardFails \/ CloseBoard
  \/ \E c \in CardIds : Grab(c)
  \/ DropNowhere
  \/ \E i \in 0..Len(Cards) : DropInColumn(i)
  \/ \E m \in Moves, col \in Stages, i \in 0..Len(Cards) : DropOnStage(m, col, i)
  \/ \E m \in Moves : ServeMove(m) \/ MoveDone(m) \/ MoveFailed(m)

KanbanSpec == KanbanInit /\ [][KanbanNext]_kanbanVars

----------------------------------------------------------------------------
(* Properties. *)

\* An order in which every card stands, in one column and once.
Whole(o) ==
  /\ \A col \in Columns : EachOnce(o[col])
  /\ \A c \in CardIds : \E col \in Columns : Among(c, o[col])
  /\ \A c \in CardIds, col, d \in Columns : Among(c, o[col]) /\ Among(c, o[d]) => col = d

\* Every application stands on the board exactly once, unless a refusal put the
\* order back while a card was in the hand: its drop then takes it from a column
\* it is no longer in.
BoardWhole == kanban = "shown" /\ ~torn => Whole(order)

\* With no request under way, each card stands in the column of the status the
\* server holds, unless an answer was lost, one card was moved twice at once, the
\* page was left with a request on its way, or a refusal put back an order that had
\* changed since.
BoardTruthful ==
  kanban = "shown" /\ Underway = {} /\ ~muddled /\ ~torn =>
    \A c \in CardIds : stage[c] = serverStage[c] /\ Among(c, order[serverStage[c]])

\* And leaving the page and coming back shows the same board.
ReopenSame ==
  kanban = "shown" /\ Underway = {} /\ ~muddled /\ ~torn =>
    Built(serverStage, savedOrder) = order

----------------------------------------------------------------------------
(* Why they hold: an inductive invariant. *)

\* A card is in the hand, and a request is this visit's, on a board that is shown only.
VisitOwn ==
  /\ drag # NoDrag => kanban = "shown" /\ drag.card \in CardIds
  /\ \A m \in Moves :
       /\ moves[m].st # "none" => moves[m].card \in CardIds
       /\ moves[m].mine => kanban = "shown" /\ moves[m].st # "none"

\* Until it is torn, the board is whole, what a refusal would put back is whole, what is
\* stored names no card twice in a column, and a card in the hand is where it was grabbed.
OrdersWhole ==
  ~torn =>
    /\ kanban = "shown" => Whole(order)
    /\ \A m \in Moves : moves[m].mine => Whole(moves[m].snap)
    /\ \A col \in Columns : EachOnce(savedOrder[col])
    /\ drag # NoDrag => Among(drag.card, order[drag.from])

\* What a card shows that this visit's request m is about: its new column, while the server
\* has the old one until it has carried the request out.
MoveAgrees(m) ==
  LET c == moves[m].card IN
  /\ moves[m].st # "lost"
  /\ \A n \in Underway : moves[n].card = c => n = m
  /\ stage[c] = moves[m].to
  /\ serverStage[c] = IF moves[m].st = "done" THEN moves[m].to ELSE moves[m].was
  /\ moves[m].same =>
       /\ Among(c, moves[m].snap[moves[m].was])
       /\ \A d \in CardIds \ {c} : Among(d, moves[m].snap[stage[d]])

\* Until it is muddled too, the cards stand in the columns of the statuses shown, those
\* without a request of this visit are as the server has them, and what is stored is what
\* is shown, from the first drop on; before it, what is shown was built from it.
BoardAgrees ==
  kanban = "shown" /\ ~torn /\ ~muddled =>
    /\ \A c \in CardIds : Among(c, order[stage[c]])
    /\ \A m \in Moves : moves[m].mine => MoveAgrees(m)
    /\ \A c \in CardIds :
         (\A m \in Moves : moves[m].mine => moves[m].card # c) => stage[c] = serverStage[c]
    /\ drag # NoDrag => drag.was = stage[drag.card]
    /\ \/ savedOrder = order
       \/ order = Built(serverStage, savedOrder) /\ \A m \in Moves : ~moves[m].mine

KanbanIInv == KanbanTypeOK /\ VisitOwn /\ OrdersWhole /\ BoardAgrees
=============================================================================
