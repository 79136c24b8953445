-------------------------------- MODULE Ledger --------------------------------
(***************************************************************************)
(* The SQLite ledger of the trader (src/trader/ledger): one record whose   *)
(* fields are its tables, and the row-level writes the engine composes     *)
(* into transactions.  A row identifier is fresh in the code               *)
(* (uuid4().hex); here a decision is named by the cycle that took it, its  *)
(* ticker and its side, and its approval, order, client order id and       *)
(* trade take the decision's name, as `order_{decision.id}` does.          *)
(***************************************************************************)
EXTENDS Naturals, FiniteSets

CONSTANTS
    Tickers,       \* symbols that may be held or proposed
    MaxCycles,     \* bound: run-cycle invocations explored
    Lot            \* bound: largest share count of one buy order

ASSUME LedgerAssumption ==
    /\ IsFiniteSet(Tickers)
    /\ MaxCycles \in Nat \ {0}
    /\ Lot \in Nat \ {0}

Cycles == 1..MaxCycles

Side == {"buy", "sell"}

\* A passed buy or sell decision, and the order that carries it out.
Order == [cycle : Cycles, ticker : Tickers, side : Side]

OrderOf(c, t, s) == [cycle |-> c, ticker |-> t, side |-> s]

OrderStatus ==
    {"none", "recorded", "submitted", "partially_filled",
     "filled", "canceled", "rejected", "failed"}

CycleOutcome == {"ok", "halted", "market_unavailable", "error"}

\* "none": no row; "running": a row whose outcome is still NULL.
CycleStatus == {"none", "running"} \cup CycleOutcome

LedgerState ==
    [cycles    : [Cycles -> CycleStatus],
     decisions : SUBSET Order,
     approvals : SUBSET Order,
     orders    : [Order -> OrderStatus],   \* orders.status
     qty       : [Order -> 0..Lot],        \* orders.qty
     fills     : [Order -> Nat],           \* shares over the order's fills rows
     pos       : [Tickers -> Nat],         \* positions.qty; 0 is no row
     trades    : SUBSET Order,             \* sells that closed a position
     halted    : BOOLEAN]                  \* engine_state.halted

EmptyLedger ==
    [cycles    |-> [c \in Cycles |-> "none"],
     decisions |-> {},
     approvals |-> {},
     orders    |-> [o \in Order |-> "none"],
     qty       |-> [o \in Order |-> 0],
     fills     |-> [o \in Order |-> 0],
     pos       |-> [t \in Tickers |-> 0],
     trades    |-> {},
     halted    |-> FALSE]

Held(L) == {t \in Tickers : L.pos[t] > 0}

InsertCycle(L, c) == [L EXCEPT !.cycles[c] = "running"]

InsertDecisions(L, D) == [L EXCEPT !.decisions = @ \cup D]

\* A mutant: the approval is left for later.
RecordUnapproved(L, o, q) ==
    [L EXCEPT !.decisions = @ \cup {o}, !.orders[o] = "recorded", !.qty[o] = q]

\* The block order_executor.execute runs inside transaction().
RecordOrder(L, o, q) ==
    [L EXCEPT !.decisions = @ \cup {o},
              !.approvals = @ \cup {o},
              !.orders[o] = "recorded",
              !.qty[o] = q]

\* decisions.cycle_id REFERENCES cycles, enforced by PRAGMA foreign_keys.
DecisionInsertable(L, o) == o \in L.decisions \/ L.cycles[o.cycle] # "none"

SetStatus(L, o, s) == [L EXCEPT !.orders[o] = s]

InsertFill(L, o, n) == [L EXCEPT !.fills[o] = @ + n]

\* trade_closer.apply_fill refuses a sell beyond the open position.
Applicable(L, o, n) == o.side = "buy" \/ n <= L.pos[o.ticker]

\* A mutant: every sell closes the position.
ClosesOnAnySell(L, o, n) == o.side = "sell"

Closes(L, o, n) == o.side = "sell" /\ n = L.pos[o.ticker]

\* A mutant: a sell leaves the position as it was.
MoveOnBuyOnly(L, o, n) ==
    [L EXCEPT !.pos[o.ticker] = IF o.side = "buy" THEN @ + n ELSE @]

MovePosition(L, o, n) ==
    [L EXCEPT !.pos[o.ticker] = IF o.side = "buy" THEN @ + n ELSE @ - n]

\* fills._settle_fill after insert_fill: the position moves by the filled
\* shares, and a sell that exhausts it leaves a trade in its place.
SettleFill(L, o, n) ==
    LET moved == MovePosition(L, o, n)
    IN  IF Closes(L, o, n) THEN [moved EXCEPT !.trades = @ \cup {o}] ELSE moved

FinishCycle(L, c, outcome) == [L EXCEPT !.cycles[c] = outcome]
===============================================================================
