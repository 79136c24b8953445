------------------------------ MODULE Settlement ------------------------------
(***************************************************************************)
(* The money of one ticker: poll_and_settle prices each new fill from the  *)
(* broker's running average, trade_closer moves the position and books the *)
(* realised profit, and _replay_prior_fills rebuilds from the fills table  *)
(* what the positions table has no column for.  The decision behind an     *)
(* order is named by the order's number.  Fees are always zero             *)
(* (fills.py:233) and left out; so are failing writes, TradingCycle's.     *)
(***************************************************************************)
EXTENDS Decimals, Sums

CONSTANTS
    Prices,        \* prices, in ticks, at which the broker may fill a share
    Lot,           \* bound: largest share count of a buy order
    MaxOrders,     \* bound: orders placed
    MaxDays        \* bound: trading days

ASSUME SettlementAssumption ==
    /\ Prices \subseteq Nat \ {0}
    /\ Lot \in Nat \ {0} /\ MaxOrders \in Nat \ {0} /\ MaxDays \in Nat \ {0}

VARIABLES
    fills,         \* the fills table, oldest row first
    position,      \* the positions row; Flat is no row
    trades,        \* the trades table
    order,         \* the order being polled, as the broker has it
    polled,        \* recorded_qty and recorded_notional of its poll
    placed,        \* orders placed so far
    today          \* loss_limits.trading_day of the clock

vars == <<fills, position, trades, order, polled, placed, today>>

-----------------------------------------------------------------------------
(* Replay of the fills of the open position *)

NoReplay == [entry |-> 0, exits |-> << >>, realized |-> 0, qty |-> 0, avg |-> 0]

ReplayBuy(s, f) ==
    IF s.entry = 0
      THEN [s EXCEPT !.entry = f.order, !.qty = f.qty, !.avg = f.price]
      ELSE [s EXCEPT !.qty = @ + f.qty, !.avg = Blend(s.qty, @, f.qty, f.price)]

\* A mutant: the decisions behind earlier partial sells are forgotten.
ReplaySellOnly(s, f) ==
    [s EXCEPT !.realized = @ + RealizedPnl(f.price, s.avg, f.qty),
              !.qty = @ - f.qty]

ReplaySell(s, f) ==
    [s EXCEPT !.exits = Append(@, f.order),
              !.realized = @ + RealizedPnl(f.price, s.avg, f.qty),
              !.qty = @ - f.qty]

ReplayRow(s, f) == IF f.side = "buy" THEN ReplayBuy(s, f) ELSE ReplaySell(s, f)

\* The bookkeeping after each of the rows.
Replayed(rows) ==
    LET state[n \in 0..Len(rows)] ==
            IF n = 0 THEN NoReplay ELSE ReplayRow(state[n - 1], rows[n])
    IN  state

Replay(rows) == Replayed(rows)[Len(rows)]

\* All rows since the position opened; in the place of PriorFills, a mutant that
\* replays the fill being settled too.
FillsSince(rows, first) == SubSeq(rows, first, Len(rows))

\* The rows since the position opened, but for the last, the fill being settled.
\* filled_at >= opened_at selects exactly these: the clock moves between fills.
PriorFills(rows, first) == SubSeq(rows, first, Len(rows) - 1)

-----------------------------------------------------------------------------
(* The position and its trade.  `rows` is the fills table ending in `f`. *)

Flat == [qty |-> 0, avg |-> 0, opened |-> 0]

\* A mutant: opened_at moves with every buy.
ReopenOnEveryBuy(pos, rows, f) ==
    [qty    |-> pos.qty + f.qty,
     avg    |-> IF pos = Flat THEN f.price ELSE Blend(pos.qty, pos.avg, f.qty, f.price),
     opened |-> Len(rows)]

\* opened_at is kept as the index of the position's first row.
ApplyBuy(pos, rows, f) ==
    IF pos = Flat
      THEN [qty |-> f.qty, avg |-> f.price, opened |-> Len(rows)]
      ELSE [pos EXCEPT !.qty = @ + f.qty,
                       !.avg = Blend(pos.qty, @, f.qty, f.price)]

\* A mutant: a position of no shares stays open.
ExhaustsNever(pos, f) == f.qty > pos.qty

Exhausts(pos, f) == f.qty = pos.qty

\* The trade a closing fill leaves: the replayed bookkeeping and its own.
ClosedTrade(pos, rows, f) ==
    LET prior == Replay(PriorFills(rows, pos.opened))
    IN  [entry |-> prior.entry,
         exits |-> Append(prior.exits, f.order),
         pnl   |-> prior.realized + RealizedPnl(f.price, pos.avg, f.qty),
         day   |-> f.day]

Settle(rows, f) ==
    IF f.side = "buy"
      THEN position' = ApplyBuy(position, rows, f) /\ UNCHANGED trades
      ELSE /\ f.qty <= position.qty
           /\ IF Exhausts(position, f)
                THEN /\ position' = Flat
                     /\ trades' = Append(trades, ClosedTrade(position, rows, f))
                ELSE /\ position' = [position EXCEPT !.qty = @ - f.qty]
                     /\ UNCHANGED trades

-----------------------------------------------------------------------------
(* The poll *)

NoOrder == [id |-> 0, side |-> "none", qty |-> 0, filled |-> 0, spent |-> 0]

NothingPolled == [qty |-> 0, notional |-> 0]

Init ==
    /\ fills = << >>
    /\ position = Flat
    /\ trades = << >>
    /\ order = NoOrder
    /\ polled = NothingPolled
    /\ placed = 0
    /\ today = 1

\* A mutant: a ticker that is held is bought again.
AllowedWhileHeld(side, q) == side = "buy" \/ q <= position.qty

\* R-12: a buy is for a ticker not held; a sell is of at most what is held.
Allowed(side, q) == IF side = "buy" THEN position = Flat ELSE q <= position.qty

\* A passed decision is sent and its poll begins with no fill recorded.
PlaceOrder(side, q) ==
    /\ order = NoOrder
    /\ placed < MaxOrders
    /\ Allowed(side, q)
    /\ placed' = placed + 1
    /\ order' = [id |-> placed', side |-> side, qty |-> q, filled |-> 0, spent |-> 0]
    /\ polled' = NothingPolled
    /\ UNCHANGED <<fills, position, trades, today>>

\* The broker fills one share at price p.
BrokerFill(p) ==
    /\ order.filled < order.qty
    /\ order' = [order EXCEPT !.filled = @ + 1, !.spent = @ + p]
    /\ UNCHANGED <<fills, position, trades, polled, placed, today>>

\* filled_avg_price of the broker's answer, parsed as a Price.
FilledAvgPrice == RoundDiv(order.spent, order.filled)

CumulativeNotional == Money(FilledAvgPrice * order.filled)

\* A mutant: the running average taken for the price of the new shares.
WholeNotional(cumulative) == cumulative

DeltaNotional(cumulative) == cumulative - polled.notional

\* One get_order that brings new shares: a row at the price backed out of the
\* average, its settlement, and the new baseline.  An answer without new shares,
\* without a price, or whose notional has not grown changes nothing here.
Poll ==
    /\ order # NoOrder
    /\ order.filled > polled.qty
    /\ LET delta == DeltaNotional(CumulativeNotional)
           n == order.filled - polled.qty
           f == [order |-> order.id, side |-> order.side, qty |-> n,
                 price |-> RoundDiv(delta, n), day |-> today]
       IN  /\ delta > 0
           /\ fills' = Append(fills, f)
           /\ Settle(fills', f)
           /\ polled' = [qty |-> order.filled, notional |-> CumulativeNotional]
    /\ UNCHANGED <<order, placed, today>>

\* The poll ends: a terminal status, the timeout, a failed get_order or a crash,
\* whatever the broker has filled meanwhile.  Nothing polls the order again.
EndPoll ==
    /\ order # NoOrder
    /\ order' = NoOrder
    /\ polled' = NothingPolled
    /\ UNCHANGED <<fills, position, trades, placed, today>>

\* Orders live for the day, and cycles run in market hours.
NextDay ==
    /\ order = NoOrder
    /\ today < MaxDays
    /\ today' = today + 1
    /\ UNCHANGED <<fills, position, trades, order, polled, placed>>

Next ==
    \/ \E side \in {"buy", "sell"}, q \in 1..Lot : PlaceOrder(side, q)
    \/ \E p \in Prices : BrokerFill(p)
    \/ Poll
    \/ EndPoll
    \/ NextDay

Spec == Init /\ [][Next]_vars

-----------------------------------------------------------------------------
(* cycle._realized_totals *)

RealizedToday ==
    Total([i \in DOMAIN trades |-> IF trades[i].day = today THEN trades[i].pnl ELSE 0])

===============================================================================
