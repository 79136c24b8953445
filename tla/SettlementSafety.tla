--------------------------- MODULE SettlementSafety ---------------------------
(***************************************************************************)
(* What the settlement of one ticker must get right.                       *)
(***************************************************************************)
EXTENDS Settlement, Functions

Abs(n) == IF n < 0 THEN -n ELSE n

OpenFills == IF position = Flat THEN << >> ELSE FillsSince(fills, position.opened)

OpenReplay == Replay(OpenFills)

Fill ==
    [order : 1..MaxOrders, side : {"buy", "sell"}, qty : 1..Lot, price : Nat, day : 1..MaxDays]

Trade == [entry : 1..MaxOrders, exits : Seq(1..MaxOrders), pnl : Int, day : 1..MaxDays]

\* The states the ledger and the poll may be in; a position has shares.
TypeOK ==
    /\ fills \in Seq(Fill)
    /\ position = Flat \/ position \in [qty : 1..Lot, avg : Nat, opened : DOMAIN fills]
    /\ trades \in Seq(Trade)
    /\ order = NoOrder \/ order \in [id : 1..MaxOrders, side : {"buy", "sell"},
                                     qty : 1..Lot, filled : 0..Lot, spent : Nat]
    /\ polled \in [qty : 0..Lot, notional : Nat]
    /\ placed \in 0..MaxOrders
    /\ today \in 1..MaxDays

\* The positions row and the replay of the fills since opened_at are two
\* accounts of one thing, kept by _apply_buy/_apply_sell and by _replay_buy/
\* _replay_sell: they must agree on the shares, the cost and the first decision,
\* after any number of orders and fills, or a later trade is booked wrong (R-21).
ReplayAgrees ==
    /\ OpenReplay.qty = position.qty
    /\ OpenReplay.avg = position.avg
    /\ position # Flat => OpenReplay.entry = fills[position.opened].order

\* What a row took in, and what it may be booked wrong by: half a cent for a sell,
\* half a tick of the average cost a share for a buy.
CashFlow(f) == IF f.side = "sell" THEN f.qty * f.price ELSE -(f.qty * f.price)
Slack(f) == IF f.side = "sell" THEN Cent ELSE Lot

Cash == Total([i \in DOMAIN fills |-> CashFlow(fills[i])])
TotalSlack == Total([i \in DOMAIN fills |-> Slack(fills[i])])
ClosedPnl == Total([i \in DOMAIN trades |-> trades[i].pnl])

\* What the books leave unexplained: the cash and the cost of the shares held,
\* less the P&L booked in trades and by the partial sells of the open position.
Unexplained == Cash + position.qty * position.avg - ClosedPnl - OpenReplay.realized

\* No money appears or is lost between the fills and the books, but for what the
\* roundings of the rows may add up to (R-21).
MoneyConserved == 2 * Abs(Unexplained) <= TotalSlack

\* The notional of the rows of an order.
OrderNotional(id) ==
    Total([i \in DOMAIN fills |-> IF fills[i].order = id THEN fills[i].qty * fills[i].price ELSE 0])

\* However the polls cut the broker's fills, the rows of the polled order add up
\* to what the broker was paid, not to the running average counted again and
\* again: they are off by half a cent and a tick a share at most (R-18).
FillRowsFollowBroker ==
    order # NoOrder /\ polled.qty = order.filled =>
        2 * Abs(OrderNotional(order.id) - order.spent) <= 2 * order.filled + Cent

Entries == {trades[i].entry : i \in DOMAIN trades} \cup {OpenReplay.entry}
Exits == (UNION {Range(trades[i].exits) : i \in DOMAIN trades}) \cup Range(OpenReplay.exits)

\* Every fill can be explained from a trade or from the open position: a bought
\* share by the decision that entered it, a sold one by an exit decision, however
\* many orders, cycles and partial fills the position went through (R-21).
EveryFillIsExplained ==
    \A i \in DOMAIN fills :
        fills[i].order \in (IF fills[i].side = "buy" THEN Entries ELSE Exits)

\* Realised P&L of the sell rows of day d, closing or not.
RealizedOn(d) ==
    LET Row(s, f) ==
            IF f.side = "buy"
              THEN ReplayBuy(IF s.qty = 0 THEN [NoReplay EXCEPT !.realized = s.realized]
                                          ELSE s, f)
              ELSE [ReplaySell(s, f) EXCEPT !.realized = IF f.day = d THEN @ ELSE s.realized]
        state[n \in 0..Len(fills)] == IF n = 0 THEN NoReplay ELSE Row(state[n - 1], fills[n])
    IN  state[Len(fills)].realized

\* When a cycle weighs the day's losses, no realised loss is missing (R-19).
LossesCounted == order = NoOrder => RealizedToday <= RealizedOn(today)

\* R-12, R-21: row by row, the positions and trades tables are the PositionBook that
\* the commits of CycleSafety keep; an entry goes on while its order is polled.
Book == INSTANCE PositionBook WITH
            Ticker <- {"ticker"},
            held <- [t \in {"ticker"} |-> position.qty],
            closed <- [t \in {"ticker"} |-> Len(trades)],
            entering <- [t \in {"ticker"} |-> order.side = "buy" /\ polled.qty > 0]

FillsKeepTheBook == Book!Spec

-----------------------------------------------------------------------------
(* The inductive invariant *)

\* The bookkeeping of the open position is that of a position.
ReplayType ==
    OpenReplay \in [entry : 0..MaxOrders, exits : Seq(1..MaxOrders), realized : Int,
                    qty : 0..Lot, avg : Nat]

\* The fill rows are of orders that were placed.
RowsOfPlaced == \A i \in DOMAIN fills : fills[i].order <= placed

\* The order being polled is the last one placed, and what is recorded of it
\* trails what the broker has filled, the rows by half a tick a share of what they
\* add up to and the notional by the rounding of the average and of the money.
PollTrails ==
    /\ order = NoOrder => polled = NothingPolled
    /\ order # NoOrder =>
           /\ order.id = placed
           /\ polled.qty <= order.filled /\ order.filled <= order.qty
           /\ 2 * Abs(OrderNotional(order.id) - polled.notional) <= polled.qty
           /\ polled.qty = order.filled =>
                  2 * Abs(polled.notional - order.spent) <= order.filled + Cent

\* A bought position is the recorded part of the order that opened it, while it is
\* polled; a sell never runs out of shares, so no fill is refused.
PositionFollowsOrder ==
    /\ order.side = "buy" =>
           /\ position.qty = polled.qty
           /\ position # Flat => OpenReplay.entry = order.id
    /\ order.side = "sell" => order.qty - polled.qty <= position.qty

IInv ==
    /\ TypeOK
    /\ ReplayType
    /\ ReplayAgrees
    /\ MoneyConserved
    /\ EveryFillIsExplained
    /\ RowsOfPlaced
    /\ PollTrails
    /\ PositionFollowsOrder
===============================================================================
