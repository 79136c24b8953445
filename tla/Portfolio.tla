------------------------------- MODULE Portfolio -------------------------------
(***************************************************************************)
(* What a cycle decides, and from which numbers: exits from the price and  *)
(* the position, the equity snapshot, the peak and the loss limits,        *)
(* entries from mentions, the LLM's answer and the entry rules, and the    *)
(* share count of an order.  TradingCycle has the same cycle with its      *)
(* failures and crashes, and leaves these decisions open; here every write *)
(* succeeds and an order has at most one fill.                             *)
(***************************************************************************)
EXTENDS Sizing, Sums, SequencesExt

CONSTANTS
    Tickers,       \* the tickers, in alphabetical order
    Prices,        \* prices of market data, in ticks
    FillPrices,    \* those at which orders fill
    Rule,          \* the rule set
    Mentions,      \* the times at which each ticker was mentioned
    Liquid,        \* the tickers whose average volume suffices
    Window,        \* _DEFAULT_WINDOW_DAYS, in slots
    MaxCandidates, \* _MAX_CANDIDATES
    SlotsPerDay,   \* moments of a day at which cycles run
    DaysPerWeek,   \* trading days of a week
    MaxSlots,      \* bound: time
    MaxCycles,     \* bound: cycles
    MaxProposals,  \* bound: proposals to buy in an answer of the LLM
    Unpriced       \* the price of a ticker market data has none for

Ticker == ToSet(Tickers)

\* What rules/schema.py accepts, but for fractions of a percent.
RuleSet ==
    [capital : Nat \ {0}, maxNotionalPct : 1..100, maxPositions : Nat \ {0},
     maxHoldingDays : Nat \ {0}, stopLossPct : -99..-1, takeProfitPct : 1..100,
     takeProfitNum : Nat \ {0}, takeProfitDen : Nat \ {0}, trailingStopPct : 1..100,
     dailyLossPct : 1..100, weeklyLossPct : 1..100, drawdownPct : 1..100,
     minPrice : Nat \ {0}, excluded : SUBSET Ticker]

ASSUME PortfolioAssumption ==
    /\ Tickers \in Seq(Ticker) /\ IsInjective(Tickers)
    /\ Prices \subseteq Nat \ {0}
    /\ FillPrices \subseteq Prices
    /\ Rule \in RuleSet
    /\ Rule.capital % Cent = 0
    /\ Rule.takeProfitNum < Rule.takeProfitDen
    /\ Mentions \in [Ticker -> SUBSET Int]
    /\ Liquid \subseteq Ticker
    /\ Window \in Nat \ {0} /\ MaxCandidates \in Nat \ {0}
    /\ SlotsPerDay \in Nat \ {0} /\ DaysPerWeek \in Nat \ {0}
    /\ MaxSlots \in Nat /\ MaxCycles \in Nat /\ MaxProposals \in Nat
    /\ Unpriced \notin Prices

VARIABLES
    now,           \* the clock, in slots
    cash,          \* the cash of the broker's account
    positions,     \* the positions table; Flat is no row
    closed,        \* the P&L of the trades table by the day of closing
    snapshots,     \* the equity_snapshots table by its date
    halted,        \* engine_state
    phase,         \* where the cycle is
    open,          \* market_clock.is_open
    quote,         \* the prices read for the holdings
    todo,          \* decisions that passed the rules, still to be executed
    sent,          \* orders of this cycle
    cycles,        \* cycles started so far
    history        \* of each position: the prices it has seen, its take-profits

book == <<cash, positions, closed>>
clock == <<now, cycles>>
vars == <<book, clock, snapshots, halted, phase, open, quote, todo, sent, history>>

Flat == [qty |-> 0, avg |-> 0, opened |-> 0, hwm |-> 0, tp |-> FALSE, realized |-> 0]

NoHistory == [seen |-> {}, takes |-> 0]

NoQuote == [t \in {} |-> Unpriced]

Day == now \div SlotsPerDay

Days == 0..(MaxSlots \div SlotsPerDay)

Init ==
    /\ now = 0
    /\ cash = Rule.capital
    /\ positions = [t \in Ticker |-> Flat]
    /\ closed = [d \in Days |-> 0]
    /\ snapshots = [d \in {} |-> 0]
    /\ halted = FALSE
    /\ phase = "idle"
    /\ open = FALSE
    /\ quote = NoQuote
    /\ todo = << >>
    /\ sent = << >>
    /\ cycles = 0
    /\ history = [t \in Ticker |-> NoHistory]

Held == {t \in Ticker : positions[t] # Flat}

-----------------------------------------------------------------------------
(* Control *)

\* _finish: the cycle forgets its locals.
Return ==
    /\ phase' = "idle"
    /\ open' = FALSE
    /\ quote' = NoQuote
    /\ todo' = << >>
    /\ sent' = << >>

\* The order loop, which only an open market reaches.
Execute(decisions) ==
    /\ phase' = "execute"
    /\ todo' = IF open' THEN decisions ELSE << >>
    /\ UNCHANGED sent

-----------------------------------------------------------------------------
(* Holdings: check_exit and evaluate_holdings *)

HoldingDays(p) == (now - p.opened) \div SlotsPerDay

ExitReason(p, price) ==
    IF price <= Percent(p.avg, Rule.stopLossPct)
      THEN "stop_loss"
    ELSE IF HoldingDays(p) >= Rule.maxHoldingDays
      THEN "max_holding_days"
    ELSE IF ~p.tp /\ price >= Percent(p.avg, Rule.takeProfitPct)
      THEN "partial_take_profit"
    ELSE IF p.tp /\ price <= Percent(p.hwm, -Rule.trailingStopPct)
      THEN "trailing_stop"
    ELSE "none"

Mark(p, price) == [p EXCEPT !.hwm = Max({@, price})]

SharesToSell(p, reason) ==
    IF reason = "partial_take_profit"
      THEN SellQty(p.qty, Rule.takeProfitNum, Rule.takeProfitDen)
      ELSE p.qty

Decision(t, side, reason, shares, price) ==
    [ticker |-> t, side |-> side, reason |-> reason, shares |-> shares, price |-> price,
     notional |-> Notional(shares, price)]

\* The exit decisions for the first holdings, by their number, in the order of
\* list_positions.
ExitsSoFar(marked, prices, priced) ==
    LET Sell(t) ==
            LET reason == ExitReason(marked[t], prices[t])
            IN  IF t \in priced /\ reason # "none"
                  THEN << Decision(t, "sell", reason, SharesToSell(marked[t], reason), prices[t]) >>
                  ELSE << >>
        sells[n \in 0..Len(Tickers)] ==
            IF n = 0 THEN << >> ELSE sells[n - 1] \o Sell(Tickers[n])
    IN  sells

Exits(marked, prices, priced) == ExitsSoFar(marked, prices, priced)[Len(Tickers)]

\* A mutant: a missing price ends the cycle, whatever was decided.
NothingWithoutPrices(decisions) == Execute(<< >>)

\* A missing price stops everything but the sells that have one.
WithoutPrices(decisions) == Execute(decisions)

\* A halted engine marks its holdings and returns.
EvaluateHoldings(prices, isOpen) ==
    LET priced == {t \in Held : prices[t] # Unpriced}
        marked == [t \in Ticker |-> IF t \in priced THEN Mark(positions[t], prices[t])
                                    ELSE positions[t]]
    IN  /\ phase = "idle"
        /\ cycles < MaxCycles
        /\ cycles' = cycles + 1
        /\ positions' = marked
        /\ history' = [t \in Ticker |-> IF t \in priced
                                        THEN [history[t] EXCEPT !.seen = @ \cup {prices[t]}]
                                        ELSE history[t]]
        /\ IF halted
             THEN Return
             ELSE /\ quote' = prices
                  /\ open' = isOpen
                  /\ IF priced # Held
                       THEN WithoutPrices(Exits(marked, prices, priced))
                       ELSE /\ phase' = "risk"
                            /\ todo' = Exits(marked, prices, priced)
                            /\ UNCHANGED sent
        /\ UNCHANGED <<now, cash, closed, snapshots, halted>>

-----------------------------------------------------------------------------
(* Equity and the loss limits: _evaluate_risk *)

PositionsValue ==
    Total([i \in DOMAIN Tickers |-> LET t == Tickers[i]
                                    IN  IF t \in Held THEN Money(quote[t] * positions[t].qty)
                                                      ELSE 0])

Unrealized ==
    Total([i \in DOMAIN Tickers |->
              LET t == Tickers[i]
              IN  IF t \in Held THEN RealizedPnl(quote[t], positions[t].avg, positions[t].qty)
                                ELSE 0])

Equity == Money(cash) + PositionsValue

\* A mutant: the day's earlier snapshots count too.
PriorIncludingToday == DOMAIN snapshots

PriorDays == {d \in DOMAIN snapshots : d < Day}

PriorPeak == IF PriorDays = {} THEN Rule.capital ELSE snapshots[Max(PriorDays)].peak

Peak == Max({PriorPeak, Equity})

SameWeek(d) == d \div DaysPerWeek = Day \div DaysPerWeek

\* The i-th number is the P&L of day i - 1.
RealizedWeek ==
    Total([i \in 1..(MaxSlots \div SlotsPerDay + 1) |->
              IF SameWeek(i - 1) THEN closed[i - 1] ELSE 0])

\* loss_limits.evaluate
LimitBreached ==
    \/ closed[Day] + Unrealized <= -PctOf(Rule.capital, Rule.dailyLossPct)
    \/ RealizedWeek + Unrealized <= -PctOf(Rule.capital, Rule.weeklyLossPct)
    \/ (Peak - Equity) * 100 >= Rule.drawdownPct * Peak

\* The day's row: a later cycle of the day overwrites it.
SaveSnapshot ==
    snapshots' = [d \in DOMAIN snapshots \cup {Day} |->
                     IF d = Day THEN [equity |-> Equity, peak |-> Peak] ELSE snapshots[d]]

EvaluateRisk ==
    /\ phase = "risk"
    /\ SaveSnapshot
    /\ IF LimitBreached
         THEN halted' = TRUE /\ Return
         ELSE /\ UNCHANGED <<halted, open, quote>>
              /\ IF Cardinality(Held) >= Rule.maxPositions
                   THEN Execute(todo)
                   ELSE phase' = "candidates" /\ UNCHANGED <<todo, sent>>
    /\ UNCHANGED <<book, clock, history>>

AccountUnavailable ==
    /\ phase = "risk"
    /\ Return
    /\ UNCHANGED <<book, clock, snapshots, halted, history>>

-----------------------------------------------------------------------------
(* Candidates: build_evidence, evaluate_candidates and check_entry *)

\* A mutant: mentions of any age.
AllMentions(t) == Cardinality(Mentions[t])

\* A mention is in the ledger once its time has come.
RecentMentions(t) == Cardinality({m \in Mentions[t] : m > now - Window /\ m <= now})

\* Most-mentioned first, then in alphabetical order.
Candidates ==
    LET eligible == {t \in Ticker \ (Held \cup Rule.excluded) : RecentMentions(t) > 0}
        Place(t) == CHOOSE i \in DOMAIN Tickers : Tickers[i] = t
        Before(t, u) == \/ RecentMentions(t) > RecentMentions(u)
                        \/ RecentMentions(t) = RecentMentions(u) /\ Place(t) < Place(u)
    IN  {t \in eligible : Cardinality({u \in eligible : Before(u, t)}) < MaxCandidates}

\* The tickers an answer proposes to buy: nothing if any is no candidate.  Failed
\* calls, invalid answers and proposals to hold or skip propose nothing either.
Proposals(answer, candidates) == IF ToSet(answer) \subseteq candidates THEN answer ELSE << >>

Limit == PctOf(Rule.capital, Rule.maxNotionalPct)

PassesEntry(t, held, price) ==
    /\ t \notin Rule.excluded \cup held
    /\ Cardinality(held) < Rule.maxPositions
    /\ open
    /\ price >= Rule.minPrice
    /\ t \in Liquid
    /\ price <= Limit

\* A mutant: the batch forgets its own buys.
HeldBefore(held, t) == held

WithBuy(held, t) == held \cup {t}

Consider(batch, t, price) ==
    IF PassesEntry(t, batch.held, price)
      THEN [held |-> WithBuy(batch.held, t),
            buys |-> Append(batch.buys, Decision(t, "buy", "llm", EntryShares(Limit, price), price))]
      ELSE batch

\* The batch after each of the proposals.
BatchSoFar(proposals, price) ==
    LET batch[n \in 0..Len(proposals)] ==
            IF n = 0 THEN [held |-> Held, buys |-> << >>]
            ELSE Consider(batch[n - 1], proposals[n], price[proposals[n]])
    IN  batch

Buys(proposals, price) == BatchSoFar(proposals, price)[Len(proposals)].buys

EvaluateCandidates(price, answer) ==
    LET candidates == {t \in Candidates : price[t] # Unpriced}
    IN  /\ phase = "candidates"
        /\ UNCHANGED <<book, clock, snapshots, halted, open, quote, history>>
        /\ Execute(todo \o Buys(Proposals(answer, candidates), price))

-----------------------------------------------------------------------------
(* Execution and settlement *)

ApplyBuy(p, n, price) ==
    IF p = Flat
      THEN [Flat EXCEPT !.qty = n, !.avg = price, !.opened = now, !.hwm = price]
      ELSE [p EXCEPT !.qty = @ + n, !.avg = Blend(p.qty, @, n, price), !.hwm = Max({@, price})]

\* A mutant: the flag is never set.
KeepFlag(p, reason) == p.tp

TakeProfitFlag(p, reason) == p.tp \/ reason = "partial_take_profit"

\* A mutant: the row of a sold position stays.
KeepsRow(p, n) == FALSE

Closes(p, n) == p.qty = n

ApplySell(p, reason, n, price) ==
    IF Closes(p, n)
      THEN Flat
      ELSE [p EXCEPT !.qty = @ - n, !.tp = TakeProfitFlag(p, reason),
                     !.realized = @ + RealizedPnl(price, p.avg, n)]

Remember(h, d, n, price) ==
    CASE d.side = "buy" -> [h EXCEPT !.seen = @ \cup {price}]
      [] Closes(positions[d.ticker], n) -> NoHistory
      [] OTHER -> IF d.reason = "partial_take_profit" THEN [h EXCEPT !.takes = @ + 1] ELSE h

\* One fill of n shares at a price, or none; a sell of more than is held books
\* nothing.
Settle(d, n, price) ==
    LET t == d.ticker
        p == positions[t]
        pnl == p.realized + RealizedPnl(price, p.avg, n)
    IN  IF n = 0 \/ (d.side = "sell" /\ n > p.qty)
          THEN UNCHANGED <<book, history>>
          ELSE /\ history' = [history EXCEPT ![t] = Remember(@, d, n, price)]
               /\ IF d.side = "buy"
                    THEN /\ cash' = cash - n * price
                         /\ positions' = [positions EXCEPT ![t] = ApplyBuy(@, n, price)]
                         /\ UNCHANGED closed
                    ELSE /\ cash' = cash + n * price
                         /\ positions' = [positions EXCEPT ![t] = ApplySell(@, d.reason, n, price)]
                         /\ closed' = [closed EXCEPT ![Day] = IF Closes(p, n) THEN @ + pnl ELSE @]

\* The order, and the fill of it that the poll sees, of any number of shares; a
\* decision that sizes to no share is not approved.
ExecuteNext(price) ==
    LET d == Head(todo)
        qty == OrderQty(d.notional, d.price)
    IN  /\ phase = "execute"
        /\ todo # << >>
        /\ todo' = Tail(todo)
        /\ IF qty <= 0
             THEN UNCHANGED <<book, history, sent>>
             ELSE /\ sent' = Append(sent, [decision |-> d, qty |-> qty])
                  /\ \E n \in 0..qty : Settle(d, n, price)
        /\ UNCHANGED <<clock, snapshots, halted, phase, open, quote>>

Finish ==
    /\ phase = "execute"
    /\ todo = << >>
    /\ Return
    /\ UNCHANGED <<book, clock, snapshots, halted, history>>

-----------------------------------------------------------------------------

Resume ==
    /\ halted
    /\ halted' = FALSE
    /\ UNCHANGED <<book, clock, snapshots, phase, open, quote, todo, sent, history>>

Tick ==
    /\ phase = "idle"
    /\ now < MaxSlots
    /\ now' = now + 1
    /\ UNCHANGED <<book, cycles, snapshots, halted, phase, open, quote, todo, sent, history>>

Quotes == Prices \cup {Unpriced}

Next ==
    \/ \E prices \in [Held -> Quotes], isOpen \in BOOLEAN : EvaluateHoldings(prices, isOpen)
    \/ EvaluateRisk
    \/ AccountUnavailable
    \/ \E price \in [Candidates -> Quotes], answer \in BoundedSeq(Ticker, MaxProposals) :
           EvaluateCandidates(price, answer)
    \/ \E price \in FillPrices : ExecuteNext(price)
    \/ Finish
    \/ Resume
    \/ Tick

Spec == Init /\ [][Next]_vars
===============================================================================
