---------------------------- MODULE PortfolioSafety ----------------------------
(***************************************************************************)
(* What must be true of the numbers a cycle decides from, over several     *)
(* cycles and days.                                                        *)
(***************************************************************************)
EXTENDS Portfolio

Position ==
    [qty : Nat \ {0}, avg : Nat \ {0}, opened : 0..MaxSlots, hwm : Prices, tp : BOOLEAN,
     realized : Int]

DecisionRecord ==
    [ticker : Ticker, side : {"buy", "sell"},
     reason : {"llm", "stop_loss", "max_holding_days", "partial_take_profit", "trailing_stop"},
     shares : Nat \ {0}, price : Prices, notional : Nat]

\* The values of the tables and of the cycle's locals; an open position has shares
\* and a watermark that some fill or quote has reached.
TypeOK ==
    /\ now \in 0..MaxSlots
    /\ cash \in Int
    /\ positions \in [Ticker -> Position \cup {Flat}]
    /\ closed \in [Days -> Int]
    /\ DOMAIN snapshots \subseteq Days
    /\ \A d \in DOMAIN snapshots : snapshots[d] \in [equity : Int, peak : Int]
    /\ halted \in BOOLEAN
    /\ phase \in {"idle", "risk", "candidates", "execute"}
    /\ open \in BOOLEAN
    /\ DOMAIN quote \subseteq Ticker
    /\ \A t \in DOMAIN quote : quote[t] \in Quotes
    /\ todo \in Seq(DecisionRecord)
    /\ sent \in Seq([decision : DecisionRecord, qty : Nat])
    /\ cycles \in 0..MaxCycles
    /\ history \in [Ticker -> [seen : SUBSET Prices, takes : Nat]]

EquitiesTo(d) == {Rule.capital} \cup {snapshots[e].equity : e \in {e \in DOMAIN snapshots : e <= d}}

\* R-19: the peak in a day's snapshot, which a drawdown is measured from, is the
\* highest of the capital and the equities the snapshots hold up to that day:
\* rows overwritten during a day and days without a row lose nothing else.
PeakIsRunningMax == \A d \in DOMAIN snapshots : snapshots[d].peak = Max(EquitiesTo(d))

\* R-13: a position takes its partial profit at most once, however its orders
\* fill.
TakeProfitOnce == \A t \in Ticker : history[t].takes <= 1

Due(t) ==
    LET p == positions[t]
    IN  \/ quote[t] <= Percent(p.avg, Rule.stopLossPct)
        \/ HoldingDays(p) >= Rule.maxHoldingDays
        \/ /\ history[t].takes > 0
           /\ quote[t] <= Percent(Max(history[t].seen), -Rule.trailingStopPct)

SellSent(t) ==
    \E i \in DOMAIN sent :
        /\ sent[i].decision.ticker = t
        /\ sent[i].decision.side = "sell"
        /\ sent[i].qty >= positions[t].qty \/ sent[i].decision.reason = "partial_take_profit"

\* R-13: in an open market, a cycle that no loss limit and no missing account
\* stops has sent a sell for all of every position it has a price for and whose
\* price is at the stop, below the trailing stop of the highest price the position
\* has seen, or too old, even if another holding has no price.
ExitsAreSent ==
    phase = "execute" /\ todo = << >> /\ open =>
        \A t \in DOMAIN quote \cap Held : quote[t] # Unpriced /\ Due(t) => SellSent(t)

\* R-12: an order is for exactly the shares the rules decided on, though it is
\* sized again from a notional rounded to the cent, and sells no more than is held.
OrdersMatchDecisions ==
    /\ \A i \in DOMAIN sent : sent[i].qty = sent[i].decision.shares
    /\ \A i \in DOMAIN todo :
           todo[i].side = "sell" => todo[i].shares <= positions[todo[i].ticker].qty

Cost(order, t) ==
    IF order.decision.ticker = t /\ order.decision.side = "buy"
      THEN order.qty * order.decision.price ELSE 0

Bought(t) == Total([i \in DOMAIN sent |-> Cost(sent[i], t)])

\* R-12: what a cycle orders of one ticker costs, at the prices it decided at, no
\* more than the limit per ticker, whatever an answer of the LLM repeats; and no
\* more tickers are held than the rules allow.
BuysWithinLimits ==
    /\ \A t \in Ticker : Bought(t) <= Limit
    /\ Cardinality(Held) <= Rule.maxPositions

Justified(t) == (\E m \in Mentions[t] : m > now - Window) /\ t \in Liquid \ Rule.excluded

\* R-4, R-6, R-7: the LLM cannot make the engine buy what nobody has mentioned
\* lately, what is excluded or what is too thin.
BuysAreJustified ==
    \A i \in DOMAIN sent :
        sent[i].decision.side = "buy" => Justified(sent[i].decision.ticker)

-----------------------------------------------------------------------------
(* The inductive invariant *)

\* Below a cent a share the count of an order is not the count decided on.
SharesCostACent == \A p \in Prices : p >= Cent

\* The watermark and the flag of a position are what its history says.
HistoryKept ==
    \A t \in Ticker :
        /\ positions[t] = Flat => history[t] = NoHistory
        /\ history[t].takes = (IF positions[t].tp THEN 1 ELSE 0)
        /\ positions[t] # Flat =>
               /\ positions[t].hwm \in history[t].seen
               /\ \A x \in history[t].seen : x <= positions[t].hwm

\* A snapshot's peak is one of the equities up to its day, and none is higher.
PeakKept ==
    \A d \in DOMAIN snapshots :
        /\ d <= Day
        /\ snapshots[d].peak \in EquitiesTo(d)
        /\ \A x \in EquitiesTo(d) : x <= snapshots[d].peak

\* What a phase has to find of the locals of the cycle.
PhaseSound ==
    /\ phase = "idle" => todo = << >> /\ sent = << >>
    /\ phase \in {"risk", "candidates"} =>
           /\ sent = << >>
           /\ DOMAIN quote = Held
           /\ \A t \in Held : quote[t] \in Prices
           /\ \A i \in DOMAIN todo : todo[i].side = "sell"

SellsAll(d) == d.shares >= positions[d.ticker].qty \/ d.reason = "partial_take_profit"

\* A pending sell is of shares held, all of them or the first partial profit.
SellSound(d) ==
    /\ positions[d.ticker] # Flat
    /\ d.shares <= positions[d.ticker].qty
    /\ SellsAll(d)
    /\ d.reason = "partial_take_profit" => ~positions[d.ticker].tp

\* A pending buy is of a ticker the cycle has not found held, within the limit.
BuySound(d) ==
    /\ d.ticker \notin Held \cup DOMAIN quote
    /\ d.shares * d.price <= Limit
    /\ Justified(d.ticker)

\* A cycle decides once on a ticker, and sizes its notional from the shares.
TodoSound ==
    /\ \A i \in DOMAIN todo :
           /\ todo[i].notional = Notional(todo[i].shares, todo[i].price)
           /\ todo[i].side = "sell" => SellSound(todo[i])
           /\ todo[i].side = "buy" => BuySound(todo[i])
    /\ \A i, j \in DOMAIN todo : todo[i].ticker = todo[j].ticker => i = j
    /\ \A i \in DOMAIN sent, j \in DOMAIN todo : sent[i].decision.ticker # todo[j].ticker

SentSound ==
    /\ BuysAreJustified
    /\ SharesCostACent =>
           /\ \A i \in DOMAIN sent : sent[i].qty = sent[i].decision.shares
           /\ \A t \in Ticker : Bought(t) <= Limit

Buying == {todo[i].ticker : i \in {i \in DOMAIN todo : todo[i].side = "buy"}}

\* What is held and what is about to be bought fit in the slots together.
PositionsFit == Cardinality(Held \cup Buying) <= Rule.maxPositions

SellPending(t) ==
    \E i \in DOMAIN todo : todo[i].ticker = t /\ todo[i].side = "sell" /\ SellsAll(todo[i])

\* An exit that is due is sent or still to be sent.
ExitsPending ==
    SharesCostACent /\ phase # "idle" /\ open =>
        \A t \in DOMAIN quote \cap Held :
            quote[t] # Unpriced /\ Due(t) => SellSent(t) \/ SellPending(t)

IInv ==
    /\ TypeOK
    /\ HistoryKept
    /\ PeakKept
    /\ PhaseSound
    /\ TodoSound
    /\ SentSound
    /\ PositionsFit
    /\ ExitsPending
===============================================================================
