--------------------------- MODULE Portfolio_proofs ---------------------------
(***************************************************************************)
(* IInv is an inductive invariant of the portfolio, and what follows from  *)
(* it: for every rule set, every set of prices and every number of         *)
(* tickers, cycles and days.                                               *)
(***************************************************************************)
EXTENDS PortfolioSafety, Arithmetic_proofs, FiniteSetTheorems

-------------------------------------------------------------------------------
(***************************************************************************)
(* Maxima and rounding.                                                    *)
(***************************************************************************)

\* Max returns the member that none exceeds.
LEMMA MaxIs ==
  ASSUME NEW S \in SUBSET Int, NEW m \in S, \A x \in S : x <= m
  PROVE  Max(S) = m
  <1> DEFINE Top(x) == \A y \in S : x >= y
  <1>1. m \in S /\ Top(m)
    OBVIOUS
  <1>2. Max(S) = CHOOSE x \in S : Top(x)
    BY DEF Max
  <1>3. Max(S) \in S /\ Top(Max(S))
    <2> HIDE DEF Top
    <2> QED BY <1>1, <1>2
  <1>4. PICK x \in S : x = Max(S)
    BY <1>3
  <1>5. x >= m /\ x <= m /\ x \in Int /\ m \in Int
    BY <1>3, <1>4
  <1>6. x = m
    BY <1>5
  <1> QED BY <1>4, <1>6

\* The maximum of two numbers.
LEMMA MaxOfTwo ==
  ASSUME NEW a \in Int, NEW b \in Int
  PROVE  Max({a, b}) \in {a, b} /\ a <= Max({a, b}) /\ b <= Max({a, b})
  <1>1. CASE a <= b
    <2>1. Max({a, b}) = b
      BY <1>1, MaxIs
    <2> QED BY <1>1, <2>1
  <1>2. CASE b <= a
    <2>1. Max({a, b}) = a
      BY <1>2, MaxIs
    <2> QED BY <1>2, <2>1
  <1> QED BY <1>1, <1>2

\* A set of naturals that are bounded has a maximum.
LEMMA BoundedMax ==
  ASSUME NEW n \in Nat, NEW S \in SUBSET (0..n), S # {}
  PROVE  Max(S) \in S /\ \A x \in S : x <= Max(S)
  <1> DEFINE Topped(k) == \A R \in SUBSET (0..k) : R # {} => \E m \in R : \A x \in R : x <= m
             T == {k \in Nat : Topped(k)}
  <1>1. 0 \in T
    <2> SUFFICES ASSUME NEW R \in SUBSET (0..0), R # {}
                 PROVE  \E m \in R : \A x \in R : x <= m
      OBVIOUS
    <2>1. PICK y : y \in R
      OBVIOUS
    <2>2. \A x \in 0..0 : x = 0
      OBVIOUS
    <2>3. y = 0 /\ \A x \in R : x = 0
      BY <2>1, <2>2
    <2> QED BY <2>1, <2>3
  <1>2. \A k \in Nat : k \in T => k + 1 \in T
    <2> SUFFICES ASSUME NEW k \in Nat, Topped(k), NEW R \in SUBSET (0..(k + 1)), R # {}
                 PROVE  \E m \in R : \A x \in R : x <= m
      OBVIOUS
    <2>1. CASE k + 1 \in R
      BY <2>1
    <2>2. CASE k + 1 \notin R
      <3>1. R \in SUBSET (0..k)
        BY <2>2
      <3> QED BY <3>1
    <2> QED BY <2>1, <2>2
  <1>3. n \in T
    <2> HIDE DEF T
    <2> QED BY <1>1, <1>2, SetInduction
  <1>4. PICK m \in S : \A x \in S : x <= m
    BY <1>3
  <1>5. S \in SUBSET Int
    OBVIOUS
  <1>6. Max(S) = m
    BY <1>4, <1>5, MaxIs
  <1> QED BY <1>4, <1>6

\* Rounding keeps numbers numbers, and what is not negative so.
LEMMA RoundingType ==
  ASSUME NEW t \in Int
  PROVE  /\ Money(t) \in Int
         /\ t >= 0 => Money(t) >= 0
         /\ \A pct \in Int : Percent(t, pct) \in Int
  <1>1. Money(t) \in Int /\ (t >= 0 => Money(t) >= 0)
    BY RoundDivError DEF Money, Cent
  <1>2. ASSUME NEW pct \in Int PROVE Percent(t, pct) \in Int
    <2> DEFINE x == t * (100 + pct)
    <2>1. x \in Int
      OBVIOUS
    <2> HIDE DEF x
    <2>2. RoundDiv(x, 100) \in Int
      BY <2>1, RoundDivError
    <2> QED BY <2>2 DEF Percent, x
  <1> QED BY <1>1, <1>2

LEMMA PnlType ==
  ASSUME NEW p \in Int, NEW avg \in Int, NEW n \in Int
  PROVE  RealizedPnl(p, avg, n) \in Int
  <1> DEFINE x == (p - avg) * n
  <1>1. x \in Int
    OBVIOUS
  <1> HIDE DEF x
  <1>2. Money(x) \in Int
    BY <1>1, RoundingType
  <1> QED BY <1>2 DEF RealizedPnl, x

\* The notional of a count of shares is not negative.
LEMMA NotionalType ==
  ASSUME NEW shares \in Nat, NEW price \in Nat
  PROVE  Notional(shares, price) \in Nat
  <1> DEFINE x == price * shares
  <1>1. x \in Nat
    OBVIOUS
  <1> HIDE DEF x
  <1>2. Money(x) \in Int /\ Money(x) >= 0
    BY <1>1, RoundingType
  <1> QED BY <1>2 DEF Notional, x

\* An order is for a number of shares.
LEMMA OrderQtyType ==
  ASSUME NEW notional \in Nat, NEW price \in Nat \ {0}
  PROVE  OrderQty(notional, price) \in Nat
  <1> DEFINE x == notional + 50
             q == x \div price
             r == x % price
  <1>1. x \in Nat
    OBVIOUS
  <1> HIDE DEF x
  <1>2. q \in Int /\ r \in 0..(price - 1) /\ x = price * q + r
    BY <1>1
  <1>3. q >= 0
    BY <1>1, <1>2
  <1> QED BY <1>2, <1>3 DEF OrderQty, Cent, x

\* Division by a positive number does not reverse an order.
LEMMA DivMonotone ==
  ASSUME NEW a \in Nat, NEW b \in Nat, a <= b, NEW d \in Nat \ {0}
  PROVE  a \div d \in Nat /\ b \div d \in Nat /\ a \div d <= b \div d
  <1> DEFINE p == a \div d
             q == b \div d
             r == a % d
             s == b % d
  <1>1. p \in Int /\ r \in 0..(d - 1) /\ a = d * p + r
    OBVIOUS
  <1>2. q \in Int /\ s \in 0..(d - 1) /\ b = d * q + s
    OBVIOUS
  <1> HIDE DEF p, q, r, s
  <1>3. p >= 0 /\ q >= 0
    BY <1>1, <1>2
  <1>4. p <= q
    <2> SUFFICES ASSUME p >= q + 1 PROVE FALSE
      BY <1>1, <1>2
    <2>1. d * p >= d * (q + 1)
      BY <1>1, <1>2
    <2>2. d * (q + 1) = d * q + d
      BY <1>2
    <2> QED BY <1>1, <1>2, <2>1, <2>2
  <1> QED BY <1>1, <1>2, <1>3, <1>4 DEF p, q
-------------------------------------------------------------------------------
(***************************************************************************)
(* The constants, and the values of the variables.                         *)
(***************************************************************************)

LEMMA RuleTypes ==
  /\ Rule.capital \in Nat \ {0} /\ Rule.maxNotionalPct \in 1..100
  /\ Rule.maxPositions \in Nat \ {0} /\ Rule.maxHoldingDays \in Nat \ {0}
  /\ Rule.stopLossPct \in Int /\ Rule.takeProfitPct \in Int
  /\ Rule.takeProfitNum \in Nat \ {0} /\ Rule.takeProfitDen \in Nat \ {0}
  /\ Rule.takeProfitNum < Rule.takeProfitDen
  /\ Rule.trailingStopPct \in Int /\ Rule.drawdownPct \in Int
  /\ Rule.minPrice \in Nat \ {0}
  <1>1. Rule \in RuleSet /\ Rule.takeProfitNum < Rule.takeProfitDen
    BY PortfolioAssumption
  <1>2. /\ Rule.capital \in Nat \ {0} /\ Rule.maxNotionalPct \in 1..100
        /\ Rule.maxPositions \in Nat \ {0} /\ Rule.maxHoldingDays \in Nat \ {0}
    BY <1>1 DEF RuleSet
  <1>3. Rule.stopLossPct \in -99..-1 /\ Rule.takeProfitPct \in 1..100
    BY <1>1 DEF RuleSet
  <1>4. Rule.takeProfitNum \in Nat \ {0} /\ Rule.takeProfitDen \in Nat \ {0}
    BY <1>1 DEF RuleSet
  <1>5. Rule.trailingStopPct \in 1..100 /\ Rule.drawdownPct \in 1..100
    BY <1>1 DEF RuleSet
  <1>6. Rule.minPrice \in Nat \ {0}
    BY <1>1 DEF RuleSet
  <1> QED BY <1>1, <1>2, <1>3, <1>4, <1>5, <1>6

LEMMA TickerFacts ==
  /\ IsFiniteSet(Ticker)
  /\ Tickers \in Seq(Ticker) /\ Len(Tickers) \in Nat
  /\ \A i, j \in 1..Len(Tickers) : Tickers[i] = Tickers[j] => i = j
  /\ \A t \in Ticker : \E i \in 1..Len(Tickers) : Tickers[i] = t
  <1>1. Tickers \in Seq(Ticker) /\ Len(Tickers) \in Nat /\ DOMAIN Tickers = 1..Len(Tickers)
    BY PortfolioAssumption
  <1>2. Ticker = {Tickers[i] : i \in 1..Len(Tickers)}
    BY <1>1 DEF Ticker, ToSet
  <1>3. \A i, j \in 1..Len(Tickers) : Tickers[i] = Tickers[j] => i = j
    BY <1>1, PortfolioAssumption DEF IsInjective
  <1>4. IsFiniteSet(Ticker)
    <2>1. IsFiniteSet(1..Len(Tickers))
      BY <1>1, FS_Interval
    <2>2. Tickers \in Surjection(1..Len(Tickers), Ticker)
      BY <1>1, <1>2 DEF Surjection
    <2> QED BY <2>1, <2>2, FS_Surjection
  <1>5. \A t \in Ticker : \E i \in 1..Len(Tickers) : Tickers[i] = t
    BY <1>2
  <1> QED BY <1>1, <1>3, <1>4, <1>5

LEMMA PriceFacts ==
  /\ Prices \subseteq Nat \ {0} /\ FillPrices \subseteq Prices /\ Unpriced \notin Prices
  /\ MaxSlots \in Nat /\ MaxCycles \in Nat
  BY PortfolioAssumption

LEMMA LimitType == Limit \in Nat
  <1> DEFINE x == Rule.capital * Rule.maxNotionalPct
             q == x \div 100
             r == x % 100
  <1>1. x \in Nat
    BY RuleTypes
  <1> HIDE DEF x
  <1>2. q \in Int /\ r \in 0..99 /\ x = 100 * q + r
    BY <1>1
  <1> HIDE DEF q, r
  <1>3. q \in Int /\ q >= 0
    BY <1>1, <1>2
  <1>4. Money(q) \in Int /\ Money(q) >= 0
    BY <1>3, RoundingType
  <1> QED BY <1>4 DEF Limit, PctOf, q, x

LEMMA DayFacts ==
  ASSUME now \in 0..MaxSlots
  PROVE  /\ Day \in Days /\ Day \in Nat /\ Days = 0..(MaxSlots \div SlotsPerDay)
         /\ MaxSlots \div SlotsPerDay \in Nat
  <1>1. SlotsPerDay \in Nat \ {0} /\ MaxSlots \in Nat /\ now \in Nat /\ now <= MaxSlots
    BY PortfolioAssumption
  <1> DEFINE a == now \div SlotsPerDay
             b == MaxSlots \div SlotsPerDay
  <1>2. a \in Nat /\ b \in Nat /\ a <= b
    BY <1>1, DivMonotone
  <1> HIDE DEF a, b
  <1>3. a \in 0..b
    BY <1>2
  <1> QED BY <1>2, <1>3 DEF Day, Days, a, b

LEMMA FlatIsNoPosition == Flat \notin Position
  BY DEF Flat, Position

\* What is held is a finite set of tickers, each with a position.
LEMMA HeldFacts ==
  ASSUME TypeOK
  PROVE  /\ Held \subseteq Ticker /\ IsFiniteSet(Held) /\ Cardinality(Held) \in Nat
         /\ \A t \in Held : positions[t] \in Position
         /\ \A t \in Ticker : t \notin Held => positions[t] = Flat
  <1>1. Held \subseteq Ticker
    BY DEF Held
  <1>2. IsFiniteSet(Held) /\ Cardinality(Held) \in Nat
    BY <1>1, TickerFacts, FS_Subset, FS_CardinalityType
  <1>3. \A t \in Held : positions[t] \in Position
    BY DEF Held, TypeOK
  <1>4. \A t \in Ticker : t \notin Held => positions[t] = Flat
    BY DEF Held
  <1> QED BY <1>1, <1>2, <1>3, <1>4

-------------------------------------------------------------------------------
(***************************************************************************)
(* The exit decisions of a cycle.                                          *)
(***************************************************************************)

\* The reason to sell a holding, and the decision to.
Reason(marked, prices, t) == ExitReason(marked[t], prices[t])

IsExit(marked, prices, priced, t) == t \in priced /\ Reason(marked, prices, t) # "none"

ExitOf(marked, prices, t) ==
    Decision(t, "sell", Reason(marked, prices, t),
             SharesToSell(marked[t], Reason(marked, prices, t)), prices[t])

SellOf(marked, prices, priced, t) ==
    IF IsExit(marked, prices, priced, t) THEN << ExitOf(marked, prices, t) >> ELSE << >>

\* The equations of the exits so far.
LEMMA ExitsSoFarDef ==
  ASSUME NEW marked, NEW prices, NEW priced
  PROVE  /\ ExitsSoFar(marked, prices, priced)[0] = << >>
         /\ \A n \in 1..Len(Tickers) :
               ExitsSoFar(marked, prices, priced)[n] =
                  ExitsSoFar(marked, prices, priced)[n - 1]
                    \o SellOf(marked, prices, priced, Tickers[n])
  <1> DEFINE Sell(t) == SellOf(marked, prices, priced, t)
             Step(g, n) == IF n = 0 THEN << >> ELSE g[n - 1] \o Sell(Tickers[n])
             IsSells(g, m) == g = [n \in 0..m |-> Step(g, n)]
             S == {m \in Nat : \E g : IsSells(g, m)}
  <1>0. ExitsSoFar(marked, prices, priced) = CHOOSE u : IsSells(u, Len(Tickers))
    BY DEF ExitsSoFar, SellOf, IsExit, ExitOf, Reason
  <1> HIDE DEF Sell
  <1>1. 0 \in S
    <2> DEFINE g == [n \in 0..0 |-> << >>]
    <2>1. g = [n \in 0..0 |-> Step(g, n)]
      OBVIOUS
    <2> QED BY <2>1
  <1>2. \A m \in Nat : m \in S => m + 1 \in S
    <2> HIDE DEF IsSells
    <2> SUFFICES ASSUME NEW m \in Nat, m \in S PROVE \E g : IsSells(g, m + 1)
      OBVIOUS
    <2> USE DEF IsSells
    <2>1. PICK g : IsSells(g, m)
      OBVIOUS
    <2> DEFINE h == [n \in 0..(m + 1) |-> Step(g, n)]
    <2>2. \A n \in 0..m : h[n] = g[n]
      BY <2>1
    <2>3. \A n \in 0..(m + 1) : Step(h, n) = Step(g, n)
      <3> HIDE DEF h
      <3> SUFFICES ASSUME NEW n \in 0..(m + 1), n # 0 PROVE h[n - 1] = g[n - 1]
        OBVIOUS
      <3>1. n - 1 \in 0..m
        OBVIOUS
      <3> QED BY <3>1, <2>2
    <2>4. h = [n \in 0..(m + 1) |-> Step(h, n)]
      <3>1. h = [n \in 0..(m + 1) |-> Step(g, n)]
        OBVIOUS
      <3> HIDE DEF h, Step
      <3> QED BY <2>3, <3>1
    <2> QED BY <2>4
  <1>3. PICK g : IsSells(g, Len(Tickers))
    <2> HIDE DEF S
    <2>1. Len(Tickers) \in S
      BY <1>1, <1>2, SetInduction, TickerFacts
    <2> QED BY <2>1 DEF S
  <1>5. IsSells(ExitsSoFar(marked, prices, priced), Len(Tickers))
    BY <1>3, <1>0
  <1> DEFINE f == ExitsSoFar(marked, prices, priced)
  <1> HIDE DEF f
  <1>6. \A n \in 0..Len(Tickers) : f[n] = Step(f, n)
    <2>1. f = [n \in 0..Len(Tickers) |-> Step(f, n)]
      BY <1>5 DEF f
    <2> HIDE DEF Step
    <2> QED BY <2>1
  <1>7. f[0] = << >>
    <2>1. 0 \in 0..Len(Tickers)
      BY TickerFacts
    <2> QED BY <1>6, <2>1
  <1>8. ASSUME NEW n \in 1..Len(Tickers) PROVE f[n] = f[n - 1] \o Sell(Tickers[n])
    <2>1. n \in 0..Len(Tickers) /\ n # 0
      BY TickerFacts
    <2>2. f[n] = Step(f, n)
      BY <1>6, <2>1
    <2> QED BY <2>1, <2>2
  <1> QED BY <1>7, <1>8 DEF f, Sell

\* What a decision says.
LEMMA DecisionFields ==
  ASSUME NEW t, NEW side, NEW reason, NEW shares, NEW price
  PROVE  LET d == Decision(t, side, reason, shares, price)
         IN  /\ d.ticker = t /\ d.side = side /\ d.reason = reason /\ d.shares = shares
             /\ d.price = price /\ d.notional = Notional(shares, price)
  BY DEF Decision

\* A decision is well formed if its parts are.
LEMMA DecisionType ==
  ASSUME NEW t \in Ticker, NEW side \in {"buy", "sell"},
         NEW reason \in {"llm", "stop_loss", "max_holding_days", "partial_take_profit",
                         "trailing_stop"},
         NEW shares \in Nat \ {0}, NEW price \in Prices
  PROVE  Decision(t, side, reason, shares, price) \in DecisionRecord
  <1>1. Notional(shares, price) \in Nat
    BY NotionalType, PriceFacts
  <1> QED BY <1>1 DEF Decision, DecisionRecord

\* What is sold of a holding is some of it, and all of it but for a partial profit,
\* which is taken once.
LEMMA ExitFields ==
  ASSUME NEW marked, NEW prices, NEW t \in Ticker, marked[t] \in Position,
         prices[t] \in Prices, Reason(marked, prices, t) # "none"
  PROVE  LET d == ExitOf(marked, prices, t)
         IN  /\ d \in DecisionRecord
             /\ d.ticker = t /\ d.side = "sell"
             /\ d.notional = Notional(d.shares, d.price)
             /\ d.shares <= marked[t].qty
             /\ d.shares >= marked[t].qty \/ d.reason = "partial_take_profit"
             /\ d.reason = "partial_take_profit" => ~marked[t].tp
  <1> DEFINE r == Reason(marked, prices, t)
             n == SharesToSell(marked[t], r)
             d == ExitOf(marked, prices, t)
  <1>1. r \in {"stop_loss", "max_holding_days", "partial_take_profit", "trailing_stop"}
    BY DEF Reason, ExitReason
  <1>2. r = "partial_take_profit" => ~marked[t].tp
    BY DEF Reason, ExitReason
  <1>3. marked[t].qty \in Nat \ {0}
    BY DEF Position
  <1>4. n \in 1..marked[t].qty /\ (n = marked[t].qty \/ r = "partial_take_profit")
    <2> HIDE DEF r
    <2>1. CASE r = "partial_take_profit"
      <3>1. n = SellQty(marked[t].qty, Rule.takeProfitNum, Rule.takeProfitDen)
        BY <2>1 DEF SharesToSell
      <3>2. n \in 1..marked[t].qty
        BY <3>1, <1>3, RuleTypes, SellsSomethingHeld
      <3> QED BY <3>2, <2>1
    <2>2. CASE r # "partial_take_profit"
      <3>1. n = marked[t].qty
        BY <2>2 DEF SharesToSell
      <3> HIDE DEF n
      <3> QED BY <3>1, <1>3
    <2> QED BY <2>1, <2>2
  <1>5. d = Decision(t, "sell", r, n, prices[t])
    BY DEF ExitOf
  <1> HIDE DEF r, n, d
  <1>6. /\ d.ticker = t /\ d.side = "sell" /\ d.reason = r /\ d.shares = n
        /\ d.price = prices[t] /\ d.notional = Notional(n, prices[t])
    BY <1>5, DecisionFields
  <1>7. n \in Nat \ {0}
    BY <1>3, <1>4
  <1>8. d \in DecisionRecord
    BY <1>5, <1>1, <1>7, DecisionType
  <1>9. n <= marked[t].qty /\ (n >= marked[t].qty \/ r = "partial_take_profit")
    BY <1>3, <1>4
  <1> QED BY <1>2, <1>6, <1>8, <1>9 DEF d

\* The exits are one decision for each holding there is a reason to sell.
LEMMA ExitsAreDecisions ==
  ASSUME NEW marked, NEW prices, NEW priced \in SUBSET Ticker,
         \A t \in priced : marked[t] \in Position /\ prices[t] \in Prices
  PROVE  LET E == Exits(marked, prices, priced)
         IN  /\ E \in Seq(DecisionRecord)
             /\ \A i \in 1..Len(E) : \E t \in Ticker :
                   IsExit(marked, prices, priced, t) /\ E[i] = ExitOf(marked, prices, t)
             /\ \A i, j \in 1..Len(E) : E[i].ticker = E[j].ticker => i = j
             /\ \A t \in Ticker : IsExit(marked, prices, priced, t) =>
                   \E i \in 1..Len(E) : E[i] = ExitOf(marked, prices, t)
  <1> DEFINE X(n) == ExitsSoFar(marked, prices, priced)[n]
             Is(n) == IsExit(marked, prices, priced, Tickers[n])
             Of(n) == ExitOf(marked, prices, Tickers[n])
             Good(E, n) ==
                /\ E \in Seq(DecisionRecord)
                /\ \A i \in 1..Len(E) : \E k \in 1..n : Is(k) /\ E[i] = Of(k)
                /\ \A i, j \in 1..Len(E) : E[i].ticker = E[j].ticker => i = j
                /\ \A k \in 1..n : Is(k) => \E i \in 1..Len(E) : E[i] = Of(k)
             S == {n \in Nat : n <= Len(Tickers) => Good(X(n), n)}
  <1>1. X(0) = << >>
    BY ExitsSoFarDef
  <1>2. \A n \in Nat : n + 1 <= Len(Tickers) =>
           X(n + 1) = X(n) \o (IF Is(n + 1) THEN << Of(n + 1) >> ELSE << >>)
    <2> SUFFICES ASSUME NEW n \in Nat, n + 1 <= Len(Tickers)
                 PROVE  X(n + 1) = X(n) \o SellOf(marked, prices, priced, Tickers[n + 1])
      BY DEF SellOf
    <2>1. n + 1 \in 1..Len(Tickers) /\ (n + 1) - 1 = n
      BY TickerFacts
    <2> QED BY <2>1, ExitsSoFarDef
  <1>3. \A n \in 1..Len(Tickers) :
           /\ Tickers[n] \in Ticker
           /\ Is(n) => Of(n) \in DecisionRecord /\ Of(n).ticker = Tickers[n]
    <2> SUFFICES ASSUME NEW n \in 1..Len(Tickers)
                 PROVE  /\ Tickers[n] \in Ticker
                        /\ Is(n) => Of(n) \in DecisionRecord /\ Of(n).ticker = Tickers[n]
      OBVIOUS
    <2>1. Tickers[n] \in Ticker
      BY TickerFacts
    <2>2. Is(n) => /\ marked[Tickers[n]] \in Position /\ prices[Tickers[n]] \in Prices
                   /\ Reason(marked, prices, Tickers[n]) # "none"
      BY DEF IsExit
    <2> QED BY <2>1, <2>2, ExitFields
  <1> HIDE DEF X, Is, Of
  <1>4. 0 \in S
    <2>1. << >> \in Seq(DecisionRecord) /\ Len(<< >>) = 0 /\ 1..0 = {}
      OBVIOUS
    <2>2. Good(<< >>, 0)
      BY <2>1
    <2> HIDE DEF Good
    <2> QED BY <1>1, <2>2
  <1>5. \A n \in Nat : n \in S => n + 1 \in S
    <2> SUFFICES ASSUME NEW n \in Nat, n + 1 <= Len(Tickers), Good(X(n), n)
                 PROVE  Good(X(n + 1), n + 1)
      <3> HIDE DEF Good
      <3> QED BY TickerFacts
    <2> DEFINE E == X(n)
               F == X(n + 1)
               m == n + 1
    <2>0. m \in 1..Len(Tickers) /\ m = n + 1 /\ \A k \in 1..m : k \in 1..n \/ k = m
      BY TickerFacts
    <2>1. E \in Seq(DecisionRecord) /\ Len(E) \in Nat
      OBVIOUS
    <2>2. \A i \in 1..Len(E) : \E k \in 1..n : Is(k) /\ E[i] = Of(k)
      OBVIOUS
    <2>3. \A i, j \in 1..Len(E) : E[i].ticker = E[j].ticker => i = j
      OBVIOUS
    <2>4. \A k \in 1..n : Is(k) => \E i \in 1..Len(E) : E[i] = Of(k)
      OBVIOUS
    <2>5. F = E \o (IF Is(m) THEN << Of(m) >> ELSE << >>)
      BY <1>2
    <2>6. CASE ~Is(m)
      <3>1. F = E
        <4> HIDE DEF E, F, m
        <4> QED BY <2>1, <2>5, <2>6
      <3> HIDE DEF E, F, m
      <3>2. \A i \in 1..Len(F) : \E k \in 1..m : Is(k) /\ F[i] = Of(k)
        <4> SUFFICES ASSUME NEW i \in 1..Len(F) PROVE \E k \in 1..m : Is(k) /\ F[i] = Of(k)
          OBVIOUS
        <4>1. PICK k \in 1..n : Is(k) /\ E[i] = Of(k)
          BY <2>2, <3>1
        <4>2. k \in 1..m
          BY <2>0
        <4> QED BY <3>1, <4>1, <4>2
      <3>3. \A k \in 1..m : Is(k) => \E i \in 1..Len(F) : F[i] = Of(k)
        BY <2>0, <2>4, <2>6, <3>1
      <3>4. Good(F, m)
        BY <2>1, <2>3, <3>1, <3>2, <3>3
      <3> QED BY <3>4 DEF F, m
    <2>7. CASE Is(m)
      <3> HIDE DEF E, F, m
      <3>1. Of(m) \in DecisionRecord /\ Of(m).ticker = Tickers[m]
        BY <1>3, <2>0, <2>7
      <3>2. /\ F \in Seq(DecisionRecord) /\ Len(F) = Len(E) + 1 /\ F[Len(E) + 1] = Of(m)
            /\ \A i \in 1..Len(E) : F[i] = E[i]
        BY <2>1, <2>5, <2>7, <3>1
      <3>3. \A i \in 1..Len(F) : i \in 1..Len(E) \/ i = Len(E) + 1
        BY <2>1, <3>2
      <3>4. \A i \in 1..Len(E) : E[i].ticker # Tickers[m]
        <4> SUFFICES ASSUME NEW i \in 1..Len(E) PROVE E[i].ticker # Tickers[m]
          OBVIOUS
        <4>1. PICK k \in 1..n : Is(k) /\ E[i] = Of(k)
          BY <2>2
        <4>2. k \in 1..Len(Tickers) /\ k # m
          BY <2>0, TickerFacts
        <4>3. E[i].ticker = Tickers[k]
          BY <1>3, <4>1, <4>2
        <4> QED BY <4>2, <4>3, <2>0, TickerFacts
      <3>5. \A i \in 1..Len(F) : \E k \in 1..m : Is(k) /\ F[i] = Of(k)
        <4> SUFFICES ASSUME NEW i \in 1..Len(F) PROVE \E k \in 1..m : Is(k) /\ F[i] = Of(k)
          OBVIOUS
        <4>1. CASE i \in 1..Len(E)
          <5>1. PICK k \in 1..n : Is(k) /\ E[i] = Of(k)
            BY <2>2, <4>1
          <5>2. k \in 1..m
            BY <2>0
          <5> QED BY <5>1, <5>2, <3>2, <4>1
        <4>2. CASE i = Len(E) + 1
          <5>1. m \in 1..m
            BY <2>0
          <5> QED BY <5>1, <3>2, <4>2, <2>7
        <4> QED BY <4>1, <4>2, <3>3
      <3>6. \A i, j \in 1..Len(F) : F[i].ticker = F[j].ticker => i = j
        <4> SUFFICES ASSUME NEW i \in 1..Len(F), NEW j \in 1..Len(F),
                            F[i].ticker = F[j].ticker
                     PROVE  i = j
          OBVIOUS
        <4>1. CASE i \in 1..Len(E) /\ j \in 1..Len(E)
          BY <2>3, <3>2, <4>1
        <4>2. CASE i \in 1..Len(E) /\ j = Len(E) + 1
          BY <3>1, <3>2, <3>4, <4>2
        <4>3. CASE i = Len(E) + 1 /\ j \in 1..Len(E)
          BY <3>1, <3>2, <3>4, <4>3
        <4> QED BY <3>3, <4>1, <4>2, <4>3
      <3>7. \A k \in 1..m : Is(k) => \E i \in 1..Len(F) : F[i] = Of(k)
        <4> SUFFICES ASSUME NEW k \in 1..m, Is(k) PROVE \E i \in 1..Len(F) : F[i] = Of(k)
          OBVIOUS
        <4>1. CASE k \in 1..n
          <5>1. PICK i \in 1..Len(E) : E[i] = Of(k)
            BY <2>4, <4>1
          <5>2. i \in 1..Len(F) /\ F[i] = E[i]
            BY <3>2, <2>1
          <5> QED BY <5>1, <5>2
        <4>2. CASE k = m
          <5>1. Len(E) + 1 \in 1..Len(F)
            BY <3>2, <2>1
          <5> QED BY <5>1, <3>2, <4>2
        <4> QED BY <4>1, <4>2, <2>0
      <3>8. Good(F, m)
        BY <3>2, <3>5, <3>6, <3>7
      <3> QED BY <3>8 DEF F, m
    <2> QED BY <2>6, <2>7
  <1> HIDE DEF S, Good
  <1>6. Good(X(Len(Tickers)), Len(Tickers))
    <2>1. \A n \in Nat : n \in S
      BY <1>4, <1>5, SetInduction
    <2> QED BY <2>1, TickerFacts DEF S
  <1> DEFINE E == Exits(marked, prices, priced)
  <1>7. E = X(Len(Tickers))
    BY DEF Exits, X
  <1> HIDE DEF E
  <1>8. /\ E \in Seq(DecisionRecord)
        /\ \A i \in 1..Len(E) : \E k \in 1..Len(Tickers) : Is(k) /\ E[i] = Of(k)
        /\ \A i, j \in 1..Len(E) : E[i].ticker = E[j].ticker => i = j
        /\ \A k \in 1..Len(Tickers) : Is(k) => \E i \in 1..Len(E) : E[i] = Of(k)
    BY <1>6, <1>7 DEF Good
  <1>9. \A i \in 1..Len(E) : \E t \in Ticker :
           IsExit(marked, prices, priced, t) /\ E[i] = ExitOf(marked, prices, t)
    BY <1>3, <1>8 DEF Is, Of
  <1>10. \A t \in Ticker : IsExit(marked, prices, priced, t) =>
            \E i \in 1..Len(E) : E[i] = ExitOf(marked, prices, t)
    <2> SUFFICES ASSUME NEW t \in Ticker, IsExit(marked, prices, priced, t)
                 PROVE  \E i \in 1..Len(E) : E[i] = ExitOf(marked, prices, t)
      OBVIOUS
    <2>1. PICK k \in 1..Len(Tickers) : Tickers[k] = t
      BY TickerFacts
    <2>2. Is(k) /\ Of(k) = ExitOf(marked, prices, t)
      BY <2>1 DEF Is, Of
    <2> QED BY <1>8, <2>2
  <1> QED BY <1>8, <1>9, <1>10 DEF E

-------------------------------------------------------------------------------
(***************************************************************************)
(* The entry decisions of a cycle.                                         *)
(***************************************************************************)

\* The equations of the batch so far.
LEMMA BatchSoFarDef ==
  ASSUME NEW p, NEW price, Len(p) \in Nat
  PROVE  /\ BatchSoFar(p, price)[0] = [held |-> Held, buys |-> << >>]
         /\ \A n \in 1..Len(p) :
               BatchSoFar(p, price)[n] = Consider(BatchSoFar(p, price)[n - 1], p[n], price[p[n]])
  <1> DEFINE None == [held |-> Held, buys |-> << >>]
             One(b, n) == Consider(b, p[n], price[p[n]])
             Step(g, n) == IF n = 0 THEN None ELSE One(g[n - 1], n)
             IsBatch(g, m) == g = [n \in 0..m |-> Step(g, n)]
             S == {m \in Nat : \E g : IsBatch(g, m)}
  <1>0. BatchSoFar(p, price) = CHOOSE u : IsBatch(u, Len(p))
    BY DEF BatchSoFar
  <1> HIDE DEF One, None
  <1>1. 0 \in S
    <2> DEFINE g == [n \in 0..0 |-> None]
    <2>1. g = [n \in 0..0 |-> Step(g, n)]
      OBVIOUS
    <2> QED BY <2>1
  <1>2. \A m \in Nat : m \in S => m + 1 \in S
    <2> HIDE DEF IsBatch
    <2> SUFFICES ASSUME NEW m \in Nat, m \in S PROVE \E g : IsBatch(g, m + 1)
      OBVIOUS
    <2> USE DEF IsBatch
    <2>1. PICK g : IsBatch(g, m)
      OBVIOUS
    <2> DEFINE h == [n \in 0..(m + 1) |-> Step(g, n)]
    <2>2. \A n \in 0..m : h[n] = g[n]
      BY <2>1
    <2>3. \A n \in 0..(m + 1) : Step(h, n) = Step(g, n)
      <3> HIDE DEF h
      <3> SUFFICES ASSUME NEW n \in 0..(m + 1), n # 0 PROVE h[n - 1] = g[n - 1]
        OBVIOUS
      <3>1. n - 1 \in 0..m
        OBVIOUS
      <3> QED BY <3>1, <2>2
    <2>4. h = [n \in 0..(m + 1) |-> Step(h, n)]
      <3>1. h = [n \in 0..(m + 1) |-> Step(g, n)]
        OBVIOUS
      <3> HIDE DEF h, Step
      <3> QED BY <2>3, <3>1
    <2> QED BY <2>4
  <1>3. PICK g : IsBatch(g, Len(p))
    <2> HIDE DEF S
    <2>1. Len(p) \in S
      BY <1>1, <1>2, SetInduction
    <2> QED BY <2>1 DEF S
  <1>5. IsBatch(BatchSoFar(p, price), Len(p))
    BY <1>3, <1>0
  <1> DEFINE f == BatchSoFar(p, price)
  <1> HIDE DEF f
  <1>6. \A n \in 0..Len(p) : f[n] = Step(f, n)
    <2>1. f = [n \in 0..Len(p) |-> Step(f, n)]
      BY <1>5 DEF f
    <2> HIDE DEF Step
    <2> QED BY <2>1
  <1>7. f[0] = None
    <2>1. 0 \in 0..Len(p)
      OBVIOUS
    <2> QED BY <1>6, <2>1
  <1>8. ASSUME NEW n \in 1..Len(p) PROVE f[n] = One(f[n - 1], n)
    <2>1. n \in 0..Len(p) /\ n # 0
      OBVIOUS
    <2>2. f[n] = Step(f, n)
      BY <1>6, <2>1
    <2> QED BY <2>1, <2>2
  <1> QED BY <1>7, <1>8 DEF f, One, None

\* What a batch has accepted of a proposal.
Accepted(d) ==
    /\ d.side = "buy"
    /\ d.notional = Notional(d.shares, d.price)
    /\ d.shares * d.price <= Limit
    /\ d.ticker \notin Held
    /\ d.ticker \in Liquid \ Rule.excluded

\* An entry that passes the rules is for a share at least, and within the limit.
LEMMA EntryFields ==
  ASSUME NEW t \in Ticker, NEW held, Held \subseteq held, NEW price \in Prices,
         PassesEntry(t, held, price)
  PROVE  LET d == Decision(t, "buy", "llm", EntryShares(Limit, price), price)
         IN  d \in DecisionRecord /\ Accepted(d) /\ d.ticker = t
  <1> DEFINE n == EntryShares(Limit, price)
             d == Decision(t, "buy", "llm", n, price)
  <1>1. /\ t \notin Rule.excluded /\ t \notin Held /\ t \in Liquid
        /\ price <= Limit
    BY DEF PassesEntry
  <1>2. price \in Nat \ {0} /\ Limit \in Nat
    BY PriceFacts, LimitType
  <1>3. n \in Nat /\ price * n <= Limit /\ Limit < price * n + price
    BY <1>2, EntryUsesTheLimit
  <1> HIDE DEF n
  <1>4. n # 0
    BY <1>1, <1>2, <1>3
  <1>5. n * price <= Limit
    <2>1. n * price = price * n
      BY <1>2, <1>3
    <2> QED BY <2>1, <1>3
  <1>6. d \in DecisionRecord
    BY <1>3, <1>4, DecisionType
  <1>7. /\ d.ticker = t /\ d.side = "buy" /\ d.shares = n
        /\ d.price = price /\ d.notional = Notional(n, price)
    BY DecisionFields
  <1> HIDE DEF d
  <1>8. Accepted(d) /\ d.ticker = t
    BY <1>1, <1>5, <1>7 DEF Accepted
  <1> QED BY <1>6, <1>8 DEF d, n

\* A batch buys each of its tickers once, within the slots that are free.
SoundBatch(b) ==
    /\ b.buys \in Seq(DecisionRecord)
    /\ \A i \in 1..Len(b.buys) : Accepted(b.buys[i])
    /\ \A i, j \in 1..Len(b.buys) : b.buys[i].ticker = b.buys[j].ticker => i = j
    /\ b.held = Held \cup {b.buys[i].ticker : i \in 1..Len(b.buys)}
    /\ IsFiniteSet(b.held)
    /\ Cardinality(b.held) <= Rule.maxPositions

\* Considering a proposal keeps the batch sound, and adds no other ticker.
LEMMA ConsiderSound ==
  ASSUME NEW b, SoundBatch(b), NEW t \in Ticker, NEW price \in Prices
  PROVE  LET c == Consider(b, t, price)
         IN  /\ SoundBatch(c)
             /\ \A i \in 1..Len(c.buys) :
                   c.buys[i].ticker = t \/ \E j \in 1..Len(b.buys) : c.buys[i] = b.buys[j]
  <1> DEFINE c == Consider(b, t, price)
             d == Decision(t, "buy", "llm", EntryShares(Limit, price), price)
  <1>1. CASE ~PassesEntry(t, b.held, price)
    <2>1. c = b
      BY <1>1 DEF Consider
    <2> QED BY <2>1
  <1>2. CASE PassesEntry(t, b.held, price)
    <2>1. c.held = b.held \cup {t} /\ c.buys = Append(b.buys, d)
      BY <1>2 DEF Consider, WithBuy
    <2>2. /\ t \notin b.held /\ Cardinality(b.held) < Rule.maxPositions
          /\ Held \subseteq b.held
      BY <1>2 DEF PassesEntry, SoundBatch
    <2>3. d \in DecisionRecord /\ Accepted(d) /\ d.ticker = t
      BY <1>2, <2>2, EntryFields
    <2> HIDE DEF c, d
    <2>4. /\ b.buys \in Seq(DecisionRecord) /\ Len(b.buys) \in Nat
          /\ \A i \in 1..Len(b.buys) : Accepted(b.buys[i])
          /\ \A i, j \in 1..Len(b.buys) : b.buys[i].ticker = b.buys[j].ticker => i = j
          /\ b.held = Held \cup {b.buys[i].ticker : i \in 1..Len(b.buys)}
      BY DEF SoundBatch
    <2>5. /\ c.buys \in Seq(DecisionRecord) /\ Len(c.buys) = Len(b.buys) + 1
          /\ c.buys[Len(b.buys) + 1] = d
          /\ \A i \in 1..Len(b.buys) : c.buys[i] = b.buys[i]
      BY <2>1, <2>3, <2>4
    <2>6. \A i \in 1..Len(c.buys) : i \in 1..Len(b.buys) \/ i = Len(b.buys) + 1
      BY <2>4, <2>5
    <2>7. \A i \in 1..Len(c.buys) : Accepted(c.buys[i])
      BY <2>3, <2>4, <2>5, <2>6
    <2>8. \A i \in 1..Len(b.buys) : b.buys[i].ticker # t
      BY <2>2, <2>4
    <2>9. \A i, j \in 1..Len(c.buys) : c.buys[i].ticker = c.buys[j].ticker => i = j
      BY <2>3, <2>4, <2>5, <2>6, <2>8
    <2>10. c.held = Held \cup {c.buys[i].ticker : i \in 1..Len(c.buys)}
      <3>1. /\ 1..Len(c.buys) = 1..Len(b.buys) \cup {Len(b.buys) + 1}
        BY <2>4, <2>5
      <3>2. {c.buys[i].ticker : i \in 1..Len(c.buys)}
              = {b.buys[i].ticker : i \in 1..Len(b.buys)} \cup {t}
        BY <3>1, <2>3, <2>5
      <3> QED BY <3>2, <2>1, <2>4
    <2>11. /\ IsFiniteSet(c.held) /\ Cardinality(c.held) <= Rule.maxPositions
      <3>1. IsFiniteSet(b.held)
        BY DEF SoundBatch
      <3>2. Cardinality(b.held) \in Nat
        BY <3>1, FS_CardinalityType
      <3>3. IsFiniteSet(b.held \cup {t}) /\ Cardinality(b.held \cup {t}) = Cardinality(b.held) + 1
        BY <3>1, <2>2, FS_AddElement
      <3> QED BY <3>2, <3>3, <2>1, <2>2, RuleTypes
    <2>12. SoundBatch(c)
      BY <2>5, <2>7, <2>9, <2>10, <2>11 DEF SoundBatch
    <2>13. \A i \in 1..Len(c.buys) :
             c.buys[i].ticker = t \/ \E j \in 1..Len(b.buys) : c.buys[i] = b.buys[j]
      BY <2>3, <2>5, <2>6
    <2> QED BY <2>12, <2>13 DEF c
  <1> QED BY <1>1, <1>2

\* The buys of an answer: accepted, proposed, of different tickers, and fitting in
\* the position slots.
BuysFit(B, p) ==
    /\ B \in Seq(DecisionRecord)
    /\ \A i \in 1..Len(B) : Accepted(B[i]) /\ \E k \in 1..Len(p) : B[i].ticker = p[k]
    /\ \A i, j \in 1..Len(B) : B[i].ticker = B[j].ticker => i = j
    /\ Cardinality(Held \cup {B[i].ticker : i \in 1..Len(B)}) <= Rule.maxPositions

\* The buys of a batch are of its proposals, and fit with what is held.
LEMMA BuysAreSound ==
  ASSUME TypeOK, Cardinality(Held) <= Rule.maxPositions,
         NEW p \in Seq(Ticker), NEW price, \A i \in 1..Len(p) : price[p[i]] \in Prices
  PROVE  BuysFit(Buys(p, price), p)
  <1> DEFINE X(n) == BatchSoFar(p, price)[n]
             Of(n) == \A i \in 1..Len(X(n).buys) : \E k \in 1..Len(p) : X(n).buys[i].ticker = p[k]
             S == {n \in Nat : n <= Len(p) => SoundBatch(X(n)) /\ Of(n)}
  <1>1. X(0) = [held |-> Held, buys |-> << >>]
    BY BatchSoFarDef
  <1>2. \A n \in Nat : n + 1 <= Len(p) => X(n + 1) = Consider(X(n), p[n + 1], price[p[n + 1]])
    <2> SUFFICES ASSUME NEW n \in Nat, n + 1 <= Len(p)
                 PROVE  X(n + 1) = Consider(X(n), p[n + 1], price[p[n + 1]])
      OBVIOUS
    <2>1. n + 1 \in 1..Len(p) /\ (n + 1) - 1 = n
      OBVIOUS
    <2> QED BY <2>1, BatchSoFarDef
  <1> HIDE DEF X
  <1>3. 0 \in S
    <2>1. X(0).held = Held /\ X(0).buys = << >>
      BY <1>1
    <2>2. << >> \in Seq(DecisionRecord) /\ Len(<< >>) = 0 /\ 1..0 = {}
      OBVIOUS
    <2>3. IsFiniteSet(Held)
      BY HeldFacts
    <2>4. SoundBatch(X(0))
      BY <2>1, <2>2, <2>3 DEF SoundBatch
    <2>5. Of(0)
      BY <2>1, <2>2
    <2> HIDE DEF Of
    <2> QED BY <2>4, <2>5
  <1>4. \A n \in Nat : n \in S => n + 1 \in S
    <2> HIDE DEF Of
    <2> SUFFICES ASSUME NEW n \in Nat, n + 1 <= Len(p), SoundBatch(X(n)), Of(n)
                 PROVE  SoundBatch(X(n + 1)) /\ Of(n + 1)
      OBVIOUS
    <2> DEFINE t == p[n + 1]
               a == price[t]
               b == X(n)
               c == X(n + 1)
    <2>1. n + 1 \in 1..Len(p) /\ t \in Ticker /\ a \in Prices
      OBVIOUS
    <2>2. c = Consider(b, t, a) /\ SoundBatch(b)
      BY <1>2
    <2>3. \A i \in 1..Len(b.buys) : \E k \in 1..Len(p) : b.buys[i].ticker = p[k]
      BY DEF Of
    <2>4. \E k \in 1..Len(p) : t = p[k]
      BY <2>1
    <2> HIDE DEF t, a, b, c
    <2>5. /\ SoundBatch(c)
          /\ \A i \in 1..Len(c.buys) :
                c.buys[i].ticker = t \/ \E j \in 1..Len(b.buys) : c.buys[i] = b.buys[j]
      BY <2>1, <2>2, ConsiderSound
    <2>6. ASSUME NEW i \in 1..Len(c.buys) PROVE \E k \in 1..Len(p) : c.buys[i].ticker = p[k]
      <3>1. CASE c.buys[i].ticker = t
        BY <3>1, <2>4
      <3>2. CASE \E j \in 1..Len(b.buys) : c.buys[i] = b.buys[j]
        <4>1. PICK j \in 1..Len(b.buys) : c.buys[i] = b.buys[j]
          BY <3>2
        <4>2. PICK k \in 1..Len(p) : b.buys[j].ticker = p[k]
          BY <2>3
        <4> QED BY <4>1, <4>2
      <3> QED BY <3>1, <3>2, <2>5
    <2> QED BY <2>5, <2>6 DEF Of, c
  <1> HIDE DEF S
  <1>5. SoundBatch(X(Len(p))) /\ Of(Len(p))
    <2> HIDE DEF Of
    <2>1. \A n \in Nat : n \in S
      BY <1>3, <1>4, SetInduction
    <2>2. Len(p) \in Nat
      OBVIOUS
    <2> QED BY <2>1, <2>2 DEF S
  <1> DEFINE B == Buys(p, price)
  <1>6. B = X(Len(p)).buys
    BY DEF Buys, X
  <1> HIDE DEF B
  <1>7. /\ B \in Seq(DecisionRecord)
        /\ \A i \in 1..Len(B) : Accepted(B[i])
        /\ \A i, j \in 1..Len(B) : B[i].ticker = B[j].ticker => i = j
        /\ Cardinality(Held \cup {B[i].ticker : i \in 1..Len(B)}) <= Rule.maxPositions
    BY <1>5, <1>6 DEF SoundBatch
  <1>8. \A i \in 1..Len(B) : \E k \in 1..Len(p) : B[i].ticker = p[k]
    BY <1>5, <1>6
  <1> QED BY <1>7, <1>8 DEF BuysFit, B

\* A candidate is held by nobody and was mentioned lately.
LEMMA CandidatesMentioned ==
  ASSUME NEW t \in Candidates
  PROVE  t \in Ticker /\ \E m \in Mentions[t] : m > now - Window
  <1>1. t \in Ticker /\ RecentMentions(t) > 0
    BY DEF Candidates
  <1>2. {m \in Mentions[t] : m > now - Window /\ m <= now} # {}
    <2> SUFFICES ASSUME {m \in Mentions[t] : m > now - Window /\ m <= now} = {} PROVE FALSE
      OBVIOUS
    <2>1. RecentMentions(t) = 0
      BY FS_EmptySet DEF RecentMentions
    <2> QED BY <1>1, <2>1
  <1> QED BY <1>1, <1>2

-------------------------------------------------------------------------------
(***************************************************************************)
(* What the parts of the invariant depend on.                              *)
(***************************************************************************)

\* What a cycle has bought of a ticker, of the orders s.
BoughtIn(s, t) == Total([i \in DOMAIN s |-> Cost(s[i], t)])

LEMMA NothingBought ==
  ASSUME NEW t
  PROVE  BoughtIn(<< >>, t) = 0
  <1> DEFINE f == [i \in DOMAIN << >> |-> Cost(<< >>[i], t)]
  <1>1. f = << >>
    OBVIOUS
  <1> HIDE DEF f
  <1>2. Total(f) = 0
    <2>1. << >> \in Seq(Int) /\ \A i \in 1..Len(<< >>) : << >>[i] = 0
      OBVIOUS
    <2> QED BY <1>1, <2>1, TotalZero
  <1> QED BY <1>2 DEF BoughtIn, f

\* The initial state is sound.
LEMMA InitialState == Init => IInv
  <1> SUFFICES ASSUME Init PROVE IInv
    OBVIOUS
  <1>1. TypeOK
    <2>1. /\ 0 \in 0..MaxSlots /\ 0 \in 0..MaxCycles
          /\ Rule.capital \in Int
          /\ << >> \in Seq(DecisionRecord)
          /\ << >> \in Seq([decision : DecisionRecord, qty : Nat])
      BY PriceFacts, RuleTypes
    <2>2. NoHistory \in [seen : SUBSET Prices, takes : Nat]
      BY DEF NoHistory
    <2>3. /\ NoQuote = [t \in {} |-> Unpriced] /\ DOMAIN NoQuote = {}
      BY DEF NoQuote
    <2>4. now \in 0..MaxSlots /\ cash \in Int /\ cycles \in 0..MaxCycles
      BY <2>1 DEF Init
    <2>5. /\ positions \in [Ticker -> Position \cup {Flat}]
          /\ closed \in [Days -> Int]
          /\ history \in [Ticker -> [seen : SUBSET Prices, takes : Nat]]
      BY <2>2 DEF Init
    <2>6. /\ DOMAIN snapshots \subseteq Days
          /\ \A d \in DOMAIN snapshots : snapshots[d] \in [equity : Int, peak : Int]
      BY DEF Init
    <2>7. /\ halted \in BOOLEAN /\ phase \in {"idle", "risk", "candidates", "execute"}
          /\ open \in BOOLEAN
      BY DEF Init
    <2>8. DOMAIN quote \subseteq Ticker /\ \A t \in DOMAIN quote : quote[t] \in Quotes
      BY <2>3 DEF Init
    <2>9. /\ todo \in Seq(DecisionRecord)
          /\ sent \in Seq([decision : DecisionRecord, qty : Nat])
      BY <2>1 DEF Init
    <2> QED BY <2>4, <2>5, <2>6, <2>7, <2>8, <2>9 DEF TypeOK
  <1>2. Held = {} /\ \A t \in Ticker : positions[t] = Flat /\ history[t] = NoHistory
    BY DEF Init, Held
  <1>3. HistoryKept
    BY <1>2 DEF HistoryKept, NoHistory, Flat
  <1>4. PeakKept
    BY DEF Init, PeakKept
  <1>5. PhaseSound /\ TodoSound /\ ExitsPending
    BY DEF Init, PhaseSound, TodoSound, ExitsPending
  <1>6. SentSound
    <2>1. sent = << >> /\ DOMAIN sent = {}
      BY DEF Init
    <2>2. \A t \in Ticker : Bought(t) = 0
      BY <2>1, NothingBought DEF Bought, BoughtIn
    <2> QED BY <2>1, <2>2, LimitType DEF SentSound, BuysAreJustified
  <1>7. PositionsFit
    <2>1. Buying = {}
      BY DEF Init, Buying
    <2>2. Cardinality({}) = 0
      BY FS_EmptySet
    <2> QED BY <1>2, <2>1, <2>2, RuleTypes DEF PositionsFit
  <1> QED BY <1>1, <1>3, <1>4, <1>5, <1>6, <1>7 DEF IInv

\* What is held fits in the slots.
LEMMA HeldFit ==
  ASSUME TypeOK, PositionsFit
  PROVE  Cardinality(Held) <= Rule.maxPositions
  <1>1. IsFiniteSet(Held \cup Buying)
    <2>1. Buying \subseteq Ticker
      <3>1. \A i \in DOMAIN todo : todo[i] \in DecisionRecord
        BY DEF TypeOK
      <3>2. \A i \in DOMAIN todo : todo[i].ticker \in Ticker
        BY <3>1 DEF DecisionRecord
      <3> QED BY <3>2 DEF Buying
    <2> QED BY <2>1, HeldFacts, TickerFacts, FS_Subset
  <1>2. Cardinality(Held) <= Cardinality(Held \cup Buying)
    BY <1>1, FS_Subset
  <1>3. Cardinality(Held) \in Nat /\ Cardinality(Held \cup Buying) \in Nat
    BY <1>1, HeldFacts, FS_CardinalityType
  <1> QED BY <1>2, <1>3, RuleTypes DEF PositionsFit

\* The snapshots' part depends on the snapshots and the day.
LEMMA PeakFrame ==
  ASSUME PeakKept, UNCHANGED <<snapshots, now>>
  PROVE  PeakKept'
  BY DEF PeakKept, EquitiesTo, Day

LEMMA HistoryFrame ==
  ASSUME HistoryKept, UNCHANGED <<positions, history>>
  PROVE  HistoryKept'
  BY DEF HistoryKept

\* A cycle that has sent nothing.
LEMMA NothingSent ==
  ASSUME sent' = << >>
  PROVE  SentSound'
  <1>1. DOMAIN sent' = {}
    OBVIOUS
  <1>2. \A t \in Ticker : Bought(t)' = 0
    BY NothingBought DEF Bought, BoughtIn
  <1> QED BY <1>1, <1>2, LimitType DEF SentSound, BuysAreJustified

\* SellSound and BuySound, of given positions, holdings and quotes.
SellIn(table, d) ==
    /\ table[d.ticker] # Flat
    /\ d.shares <= table[d.ticker].qty
    /\ d.shares >= table[d.ticker].qty \/ d.reason = "partial_take_profit"
    /\ d.reason = "partial_take_profit" => ~table[d.ticker].tp

BuyIn(holdings, prices, d) ==
    /\ d.ticker \notin holdings \cup DOMAIN prices
    /\ d.shares * d.price <= Limit
    /\ Justified(d.ticker)

\* What a step within a cycle has to show of the decisions that are left.
LEMMA TodoSoundNext ==
  ASSUME now' = now,
         \A i \in DOMAIN todo' :
            /\ todo'[i].notional = Notional(todo'[i].shares, todo'[i].price)
            /\ todo'[i].side = "sell" => SellIn(positions', todo'[i])
            /\ todo'[i].side = "buy" => BuyIn(Held', quote', todo'[i]),
         \A i, j \in DOMAIN todo' : todo'[i].ticker = todo'[j].ticker => i = j,
         \A i \in DOMAIN sent', j \in DOMAIN todo' : sent'[i].decision.ticker # todo'[j].ticker
  PROVE  TodoSound'
  BY DEF TodoSound, SellIn, SellSound, SellsAll, BuyIn, BuySound, Justified

\* A cycle that ends forgets what it decided.
LEMMA ReturnKeeps ==
  ASSUME IInv, Return, Held' = Held
  PROVE  /\ PhaseSound' /\ TodoSound' /\ SentSound' /\ PositionsFit' /\ ExitsPending'
         /\ phase' = "idle" /\ open' \in BOOLEAN
         /\ DOMAIN quote' \subseteq Ticker /\ \A t \in DOMAIN quote' : quote'[t] \in Quotes
         /\ todo' \in Seq(DecisionRecord)
         /\ sent' \in Seq([decision : DecisionRecord, qty : Nat])
  <1>1. /\ phase' = "idle" /\ open' = FALSE /\ quote' = NoQuote
        /\ todo' = << >> /\ sent' = << >>
    BY DEF Return
  <1>2. DOMAIN quote' = {}
    BY <1>1 DEF NoQuote
  <1>3. PhaseSound' /\ TodoSound' /\ ExitsPending'
    BY <1>1 DEF PhaseSound, TodoSound, ExitsPending
  <1>4. SentSound'
    BY <1>1, NothingSent
  <1>5. PositionsFit'
    <2>1. Buying' = {}
      BY <1>1 DEF Buying
    <2>2. Cardinality(Held) <= Rule.maxPositions
      BY HeldFit DEF IInv
    <2> QED BY <2>1, <2>2 DEF PositionsFit
  <1>6. /\ << >> \in Seq(DecisionRecord)
        /\ << >> \in Seq([decision : DecisionRecord, qty : Nat])
    OBVIOUS
  <1> QED BY <1>1, <1>2, <1>3, <1>4, <1>5, <1>6

-------------------------------------------------------------------------------
(***************************************************************************)
(* The holdings are marked and their exits decided.                        *)
(***************************************************************************)

LEMMA MarkFields ==
  ASSUME NEW p \in Position, NEW price \in Prices
  PROVE  LET q == Mark(p, price)
         IN  /\ q \in Position /\ q.tp = p.tp
             /\ q.hwm \in {p.hwm, price} /\ p.hwm <= q.hwm /\ price <= q.hwm
  <1>1. p.hwm \in Prices /\ Prices \subseteq Int
    BY PriceFacts DEF Position
  <1> DEFINE m == Max({p.hwm, price})
  <1>2. m \in {p.hwm, price} /\ p.hwm <= m /\ price <= m
    BY <1>1, MaxOfTwo
  <1> HIDE DEF m
  <1>3. Mark(p, price) = [p EXCEPT !.hwm = m]
    BY DEF Mark, m
  <1>4. m \in Prices
    BY <1>1, <1>2
  <1>5. [p EXCEPT !.hwm = m] \in Position /\ [p EXCEPT !.hwm = m].tp = p.tp
        /\ [p EXCEPT !.hwm = m].hwm = m
    BY <1>4 DEF Position
  <1> QED BY <1>2, <1>3, <1>5

\* An exit that is due by what a position has seen has a reason.
LEMMA DueIsExit ==
  ASSUME NEW p \in Position, NEW h, h.seen \subseteq Prices, NEW price \in Prices,
         h.takes = (IF p.tp THEN 1 ELSE 0),
         p.hwm \in h.seen, \A x \in h.seen : x <= p.hwm,
         \/ price <= Percent(p.avg, Rule.stopLossPct)
         \/ HoldingDays(p) >= Rule.maxHoldingDays
         \/ h.takes > 0 /\ price <= Percent(Max(h.seen), -Rule.trailingStopPct)
  PROVE  ExitReason(p, price) # "none"
  <1>1. h.seen \in SUBSET Int
    <2>1. \A x \in h.seen : x \in Prices
      OBVIOUS
    <2>2. Prices \subseteq Int
      BY PriceFacts
    <2>3. \A x \in h.seen : x \in Int
      BY <2>1, <2>2
    <2> QED BY <2>3
  <1>2. Max(h.seen) = p.hwm
    BY <1>1, MaxIs
  <1>3. p.tp \in BOOLEAN
    BY DEF Position
  <1>4. CASE price <= Percent(p.avg, Rule.stopLossPct)
    BY <1>4 DEF ExitReason
  <1>5. CASE HoldingDays(p) >= Rule.maxHoldingDays
    BY <1>5 DEF ExitReason
  <1>6. CASE h.takes > 0 /\ price <= Percent(Max(h.seen), -Rule.trailingStopPct)
    <2>1. p.tp /\ price <= Percent(p.hwm, -Rule.trailingStopPct)
      BY <1>2, <1>3, <1>6
    <2> QED BY <2>1 DEF ExitReason
  <1> QED BY <1>4, <1>5, <1>6

\* The positions and the histories after a price for some of the holdings.
MarkedAt(prices, priced) ==
    [t \in Ticker |-> IF t \in priced THEN Mark(positions[t], prices[t]) ELSE positions[t]]

SeenAt(prices, priced) ==
    [t \in Ticker |-> IF t \in priced THEN [history[t] EXCEPT !.seen = @ \cup {prices[t]}]
                      ELSE history[t]]

\* Marking keeps the tables, what is held, and the histories in step.
LEMMA MarkingKeeps ==
  ASSUME IInv, NEW prices \in [Held -> Quotes], NEW priced,
         priced = {t \in Held : prices[t] # Unpriced},
         positions' = MarkedAt(prices, priced), history' = SeenAt(prices, priced)
  PROVE  /\ positions' \in [Ticker -> Position \cup {Flat}]
         /\ history' \in [Ticker -> [seen : SUBSET Prices, takes : Nat]]
         /\ Held' = Held /\ HistoryKept'
         /\ priced \in SUBSET Ticker
         /\ \A t \in priced : positions'[t] \in Position /\ prices[t] \in Prices
  <1>1. priced \in SUBSET Ticker /\ priced \subseteq Held
    BY HeldFacts DEF IInv
  <1>2. \A t \in priced : prices[t] \in Prices /\ positions[t] \in Position
    <2>1. \A t \in Held : prices[t] \in Prices \cup {Unpriced}
      BY DEF Quotes
    <2> QED BY <2>1, <1>1, HeldFacts DEF IInv
  <1>3. \A t \in Ticker : /\ positions[t] \in Position \cup {Flat}
                          /\ history[t] \in [seen : SUBSET Prices, takes : Nat]
    BY DEF IInv, TypeOK
  <1>4. \A t \in Ticker : t \notin priced => positions'[t] = positions[t] /\ history'[t] = history[t]
    BY DEF MarkedAt, SeenAt
  <1>5. ASSUME NEW t \in priced
        PROVE  /\ positions'[t] \in Position /\ positions'[t].tp = positions[t].tp
               /\ positions'[t].hwm \in {positions[t].hwm, prices[t]}
               /\ positions[t].hwm <= positions'[t].hwm /\ prices[t] <= positions'[t].hwm
               /\ history'[t] \in [seen : SUBSET Prices, takes : Nat]
               /\ history'[t].seen = history[t].seen \cup {prices[t]}
               /\ history'[t].takes = history[t].takes
    <2>1. t \in Ticker
      BY <1>1
    <2>2. positions'[t] = Mark(positions[t], prices[t])
      BY <2>1 DEF MarkedAt
    <2>3. history'[t] = [history[t] EXCEPT !.seen = @ \cup {prices[t]}]
      BY <2>1 DEF SeenAt
    <2>4. history[t] \in [seen : SUBSET Prices, takes : Nat] /\ prices[t] \in Prices
      BY <1>2, <1>3, <2>1
    <2>5. /\ history'[t] \in [seen : SUBSET Prices, takes : Nat]
          /\ history'[t].seen = history[t].seen \cup {prices[t]}
          /\ history'[t].takes = history[t].takes
      <3>1. \A h \in [seen : SUBSET Prices, takes : Nat], p \in Prices :
                LET g == [h EXCEPT !.seen = @ \cup {p}]
                IN  /\ g \in [seen : SUBSET Prices, takes : Nat]
                    /\ g.seen = h.seen \cup {p} /\ g.takes = h.takes
        OBVIOUS
      <3> QED BY <2>3, <2>4, <3>1, Zenon
    <2>6. positions[t] \in Position /\ prices[t] \in Prices
      BY <1>2
    <2> QED BY <2>2, <2>5, <2>6, MarkFields
  <1>6. /\ positions' \in [Ticker -> Position \cup {Flat}]
        /\ history' \in [Ticker -> [seen : SUBSET Prices, takes : Nat]]
    <2>1. positions' = [t \in Ticker |-> positions'[t]] /\ history' = [t \in Ticker |-> history'[t]]
      BY DEF MarkedAt, SeenAt
    <2>2. \A t \in Ticker : /\ positions'[t] \in Position \cup {Flat}
                            /\ history'[t] \in [seen : SUBSET Prices, takes : Nat]
      BY <1>3, <1>4, <1>5
    <2> QED BY <2>1, <2>2
  <1>7. Held' = Held
    <2>1. \A t \in Ticker : positions'[t] # Flat <=> positions[t] # Flat
      BY <1>2, <1>4, <1>5, FlatIsNoPosition
    <2> QED BY <2>1 DEF Held
  <1>8. HistoryKept'
    <2> SUFFICES ASSUME NEW t \in Ticker
                 PROVE  /\ positions'[t] = Flat => history'[t] = NoHistory
                        /\ history'[t].takes = (IF positions'[t].tp THEN 1 ELSE 0)
                        /\ positions'[t] # Flat =>
                              /\ positions'[t].hwm \in history'[t].seen
                              /\ \A x \in history'[t].seen : x <= positions'[t].hwm
      BY DEF HistoryKept
    <2>1. /\ positions[t] = Flat => history[t] = NoHistory
          /\ history[t].takes = (IF positions[t].tp THEN 1 ELSE 0)
          /\ positions[t] # Flat =>
                /\ positions[t].hwm \in history[t].seen
                /\ \A x \in history[t].seen : x <= positions[t].hwm
      BY DEF IInv, HistoryKept
    <2>2. CASE t \notin priced
      BY <2>1, <2>2, <1>4
    <2>3. CASE t \in priced
      <3>1. positions[t] # Flat /\ positions'[t] # Flat
        BY <2>3, <1>2, <1>5, FlatIsNoPosition
      <3>2. history'[t].takes = (IF positions'[t].tp THEN 1 ELSE 0)
        BY <2>1, <2>3, <1>5
      <3>3. positions'[t].hwm \in history'[t].seen
        BY <2>1, <2>3, <1>5, <3>1
      <3>4. ASSUME NEW x \in history'[t].seen PROVE x <= positions'[t].hwm
        <4> DEFINE a == positions[t].hwm
                   b == positions'[t].hwm
        <4>1. /\ \A y \in history[t].seen : y <= a
              /\ history[t].seen \subseteq Prices /\ a \in Prices /\ b \in Prices
              /\ a <= b /\ prices[t] <= b
              /\ x \in history[t].seen \cup {prices[t]}
          BY <2>1, <2>3, <1>1, <1>2, <1>3, <1>5, <3>1 DEF Position
        <4>2. Prices \subseteq Int
          BY PriceFacts
        <4> HIDE DEF a, b
        <4>3. CASE x \in history[t].seen
          <5>1. x <= a /\ x \in Int /\ a \in Int /\ b \in Int
            BY <4>1, <4>2, <4>3
          <5>2. x <= b
            BY <5>1, <4>1
          <5> QED BY <5>2 DEF b
        <4>4. CASE x = prices[t]
          BY <4>1, <4>4 DEF b
        <4> QED BY <4>1, <4>3, <4>4
      <3> QED BY <3>1, <3>2, <3>3, <3>4
    <2> QED BY <2>2, <2>3
  <1>9. \A t \in priced : positions'[t] \in Position /\ prices[t] \in Prices
    BY <1>2, <1>5
  <1> QED BY <1>1, <1>6, <1>7, <1>8, <1>9

LEMMA HoldingsKeepIInv ==
  ASSUME IInv, NEW prices \in [Held -> Quotes], NEW isOpen \in BOOLEAN,
         EvaluateHoldings(prices, isOpen)
  PROVE  IInv'
  <1> DEFINE priced == {t \in Held : prices[t] # Unpriced}
             E == Exits(positions', prices, priced)
  <1>1. /\ positions' = MarkedAt(prices, priced) /\ history' = SeenAt(prices, priced)
        /\ UNCHANGED <<now, cash, closed, snapshots, halted>>
        /\ phase = "idle" /\ cycles < MaxCycles /\ cycles' = cycles + 1
    BY DEF EvaluateHoldings, MarkedAt, SeenAt
  <1>2. \/ Return
        \/ /\ quote' = prices /\ open' = isOpen
           /\ \/ priced # Held /\ Execute(E)
              \/ priced = Held /\ phase' = "risk" /\ todo' = E /\ UNCHANGED sent
    BY <1>1 DEF EvaluateHoldings, WithoutPrices, MarkedAt
  <1>3. /\ positions' \in [Ticker -> Position \cup {Flat}]
        /\ history' \in [Ticker -> [seen : SUBSET Prices, takes : Nat]]
        /\ Held' = Held /\ HistoryKept'
        /\ priced \in SUBSET Ticker
        /\ \A t \in priced : positions'[t] \in Position /\ prices[t] \in Prices
    BY <1>1, MarkingKeeps
  <1>4. /\ todo = << >> /\ sent = << >>
    BY <1>1 DEF IInv, PhaseSound
  <1>5. PeakKept'
    BY <1>1, PeakFrame DEF IInv
  <1>6. /\ now' \in 0..MaxSlots /\ cash' \in Int /\ closed' \in [Days -> Int]
        /\ DOMAIN snapshots' \subseteq Days
        /\ \A d \in DOMAIN snapshots' : snapshots'[d] \in [equity : Int, peak : Int]
        /\ halted' \in BOOLEAN
        /\ cycles' \in 0..MaxCycles
    <2>1. cycles' \in 0..MaxCycles
      BY <1>1, PriceFacts DEF IInv, TypeOK
    <2> QED BY <1>1, <2>1 DEF IInv, TypeOK, Days
  <1>7. CASE Return
    <2>1. /\ PhaseSound' /\ TodoSound' /\ SentSound' /\ PositionsFit' /\ ExitsPending'
          /\ phase' = "idle" /\ open' \in BOOLEAN
          /\ DOMAIN quote' \subseteq Ticker /\ \A t \in DOMAIN quote' : quote'[t] \in Quotes
          /\ todo' \in Seq(DecisionRecord)
          /\ sent' \in Seq([decision : DecisionRecord, qty : Nat])
      BY <1>3, <1>7, ReturnKeeps
    <2>2. TypeOK'
      BY <1>3, <1>6, <2>1 DEF TypeOK
    <2> QED BY <1>3, <1>5, <2>1, <2>2 DEF IInv
  <1>8. CASE ~Return
    <2>1. /\ quote' = prices /\ open' = isOpen /\ sent' = << >>
          /\ phase' \in {"execute", "risk"}
          /\ phase' = "risk" => priced = Held
          /\ todo' \in {E, << >>} /\ (open' => todo' = E)
      <3>1. CASE priced # Held /\ Execute(E)
        <4> HIDE DEF E, priced
        <4> QED BY <1>2, <1>4, <1>8, <3>1 DEF Execute
      <3>2. CASE priced = Held /\ phase' = "risk" /\ todo' = E /\ UNCHANGED sent
        <4> HIDE DEF E, priced
        <4> QED BY <1>2, <1>4, <1>8, <3>2
      <3> QED BY <1>2, <1>8, <3>1, <3>2
    <2>2. /\ E \in Seq(DecisionRecord)
          /\ \A i \in 1..Len(E) : \E t \in Ticker :
                IsExit(positions', prices, priced, t) /\ E[i] = ExitOf(positions', prices, t)
          /\ \A i, j \in 1..Len(E) : E[i].ticker = E[j].ticker => i = j
          /\ \A t \in Ticker : IsExit(positions', prices, priced, t) =>
                \E i \in 1..Len(E) : E[i] = ExitOf(positions', prices, t)
      <3> HIDE DEF priced
      <3> QED BY <1>3, ExitsAreDecisions
    <2>3. \A t \in Ticker : IsExit(positions', prices, priced, t) =>
             LET d == ExitOf(positions', prices, t)
             IN  /\ d.ticker = t /\ d.side = "sell"
                 /\ d.notional = Notional(d.shares, d.price)
                 /\ d.shares <= positions'[t].qty
                 /\ d.shares >= positions'[t].qty \/ d.reason = "partial_take_profit"
                 /\ d.reason = "partial_take_profit" => ~positions'[t].tp
      <3> HIDE DEF priced
      <3> SUFFICES ASSUME NEW t \in Ticker, IsExit(positions', prices, priced, t)
                   PROVE  LET d == ExitOf(positions', prices, t)
                          IN  /\ d.ticker = t /\ d.side = "sell"
                              /\ d.notional = Notional(d.shares, d.price)
                              /\ d.shares <= positions'[t].qty
                              /\ d.shares >= positions'[t].qty \/ d.reason = "partial_take_profit"
                              /\ d.reason = "partial_take_profit" => ~positions'[t].tp
        OBVIOUS
      <3>1. positions'[t] \in Position /\ prices[t] \in Prices
            /\ Reason(positions', prices, t) # "none"
        BY <1>3 DEF IsExit
      <3> QED BY <3>1, ExitFields
    <2> HIDE DEF E
    <2>4. \A i \in 1..Len(E) :
             /\ E[i].side = "sell" /\ E[i].notional = Notional(E[i].shares, E[i].price)
             /\ SellIn(positions', E[i])
      <3> SUFFICES ASSUME NEW i \in 1..Len(E)
                   PROVE  /\ E[i].side = "sell"
                          /\ E[i].notional = Notional(E[i].shares, E[i].price)
                          /\ SellIn(positions', E[i])
        OBVIOUS
      <3>1. PICK t \in Ticker : /\ IsExit(positions', prices, priced, t)
                                /\ E[i] = ExitOf(positions', prices, t)
        BY <2>2
      <3>2. /\ E[i].ticker = t /\ E[i].side = "sell"
            /\ E[i].notional = Notional(E[i].shares, E[i].price)
            /\ E[i].shares <= positions'[t].qty
            /\ E[i].shares >= positions'[t].qty \/ E[i].reason = "partial_take_profit"
            /\ E[i].reason = "partial_take_profit" => ~positions'[t].tp
        BY <2>3, <3>1
      <3>3. positions'[t] # Flat
        BY <1>3, <3>1, FlatIsNoPosition DEF IsExit
      <3> QED BY <3>2, <3>3 DEF SellIn
    <2>5. /\ todo' \in Seq(DecisionRecord) /\ DOMAIN todo' = 1..Len(todo')
          /\ todo' = E \/ DOMAIN todo' = {}
      <3>1. << >> \in Seq(DecisionRecord) /\ DOMAIN << >> = {}
        OBVIOUS
      <3>2. todo' \in Seq(DecisionRecord) /\ (todo' = E \/ DOMAIN todo' = {})
        BY <2>1, <2>2, <3>1
      <3> QED BY <3>2
    <2>6. TypeOK'
      <3>1. /\ DOMAIN prices = Held /\ Held \subseteq Ticker
            /\ \A t \in Held : prices[t] \in Quotes
        BY HeldFacts DEF IInv
      <3>2. sent' \in Seq([decision : DecisionRecord, qty : Nat])
        BY <2>1
      <3>3. /\ phase' \in {"idle", "risk", "candidates", "execute"} /\ open' \in BOOLEAN
            /\ DOMAIN quote' \subseteq Ticker /\ \A t \in DOMAIN quote' : quote'[t] \in Quotes
        BY <2>1, <3>1
      <3> QED BY <1>3, <1>6, <2>5, <3>2, <3>3 DEF TypeOK
    <2>7. PhaseSound'
      <3>1. \A i \in DOMAIN todo' : todo'[i].side = "sell"
        BY <2>4, <2>5
      <3>2. phase' = "risk" => DOMAIN quote' = Held' /\ \A t \in Held' : quote'[t] \in Prices
        BY <1>3, <2>1
      <3>3. phase' # "idle" /\ phase' # "candidates" /\ sent' = << >>
        BY <2>1
      <3> QED BY <3>1, <3>2, <3>3 DEF PhaseSound
    <2>8. TodoSound'
      <3>1. \A i \in DOMAIN todo' :
               /\ todo'[i].side = "sell" /\ todo'[i].notional = Notional(todo'[i].shares, todo'[i].price)
               /\ SellIn(positions', todo'[i])
        BY <2>4, <2>5
      <3>2. \A i, j \in DOMAIN todo' : todo'[i].ticker = todo'[j].ticker => i = j
        BY <2>2, <2>5
      <3>3. DOMAIN sent' = {}
        BY <2>1
      <3> QED BY <1>1, <3>1, <3>2, <3>3, TodoSoundNext
    <2>9. SentSound'
      BY <2>1, NothingSent
    <2>10. PositionsFit'
      <3>1. Buying' = {}
        BY <2>4, <2>5 DEF Buying
      <3>2. Cardinality(Held) <= Rule.maxPositions
        BY HeldFit DEF IInv
      <3> QED BY <1>3, <3>1, <3>2 DEF PositionsFit
    <2>11. ExitsPending'
      <3> SUFFICES ASSUME open', NEW t \in (DOMAIN quote \cap Held)', quote'[t] # Unpriced, Due(t)'
                   PROVE  SellPending(t)'
        BY DEF ExitsPending
      <3>1. t \in Held /\ t \in Ticker /\ t \in priced /\ quote'[t] = prices[t]
        BY <1>3, <2>1, HeldFacts DEF IInv
      <3>2. positions'[t] \in Position /\ prices[t] \in Prices
        BY <1>3, <3>1
      <3>3. /\ history'[t].seen \subseteq Prices
            /\ history'[t].takes = (IF positions'[t].tp THEN 1 ELSE 0)
            /\ positions'[t].hwm \in history'[t].seen
            /\ \A x \in history'[t].seen : x <= positions'[t].hwm
        BY <1>3, <3>1, <3>2, FlatIsNoPosition DEF HistoryKept
      <3>4. \/ prices[t] <= Percent(positions'[t].avg, Rule.stopLossPct)
            \/ HoldingDays(positions'[t]) >= Rule.maxHoldingDays
            \/ /\ history'[t].takes > 0
               /\ prices[t] <= Percent(Max(history'[t].seen), -Rule.trailingStopPct)
        BY <1>1, <3>1 DEF Due, HoldingDays
      <3>5. ExitReason(positions'[t], prices[t]) # "none"
        BY <3>2, <3>3, <3>4, DueIsExit
      <3>6. IsExit(positions', prices, priced, t)
        BY <3>1, <3>5 DEF IsExit, Reason
      <3>7. PICK i \in 1..Len(E) : E[i] = ExitOf(positions', prices, t)
        BY <2>2, <3>1, <3>6
      <3>8. todo' = E /\ i \in DOMAIN todo'
        BY <2>1, <2>2, <3>7
      <3>9. E[i].ticker = t /\ E[i].side = "sell"
            /\ (E[i].shares >= positions'[t].qty \/ E[i].reason = "partial_take_profit")
        BY <2>3, <3>1, <3>6, <3>7
      <3> QED BY <3>8, <3>9 DEF SellPending, SellsAll
    <2> QED BY <1>3, <1>5, <2>6, <2>7, <2>8, <2>9, <2>10, <2>11 DEF IInv
  <1> QED BY <1>7, <1>8

-------------------------------------------------------------------------------
(***************************************************************************)
(* The snapshot and the loss limits.                                       *)
(***************************************************************************)

LEMMA EquityType ==
  ASSUME TypeOK, PhaseSound, phase = "risk"
  PROVE  Equity \in Int
  <1> DEFINE Value(i) == IF Tickers[i] \in Held
                           THEN Money(quote[Tickers[i]] * positions[Tickers[i]].qty) ELSE 0
             f == [i \in DOMAIN Tickers |-> Value(i)]
  <1>1. ASSUME NEW i \in 1..Len(Tickers) PROVE Value(i) \in Int
    <2>1. CASE Tickers[i] \in Held
      <3> DEFINE a == quote[Tickers[i]]
                 b == positions[Tickers[i]].qty
      <3>1. a \in Prices /\ b \in Nat
        BY <2>1, HeldFacts DEF PhaseSound, Position
      <3>2. a \in Int /\ b \in Int
        <4>1. Prices \subseteq Int
          BY PriceFacts
        <4> HIDE DEF a, b
        <4> QED BY <3>1, <4>1
      <3> HIDE DEF a, b
      <3>3. Money(a * b) \in Int
        <4> DEFINE x == a * b
        <4>1. x \in Int
          BY <3>2
        <4> HIDE DEF x
        <4>2. Money(x) \in Int
          BY <4>1, RoundingType
        <4> QED BY <4>2 DEF x
      <3> QED BY <2>1, <3>3 DEF a, b
    <2>2. CASE Tickers[i] \notin Held
      BY <2>2
    <2> QED BY <2>1, <2>2
  <1>2. PositionsValue = Total(f)
    BY DEF PositionsValue
  <1> HIDE DEF Value
  <1>3. f \in Seq(Int) /\ Len(f) \in 0..Len(f)
    <2>1. DOMAIN Tickers = 1..Len(Tickers) /\ Len(Tickers) \in Nat
      BY TickerFacts
    <2> QED BY <1>1, <2>1
  <1> HIDE DEF f
  <1>4. Total(f) \in Int
    BY <1>3, TotalType DEF Total
  <1>5. Money(cash) \in Int
    BY RoundingType DEF TypeOK
  <1> QED BY <1>2, <1>4, <1>5 DEF Equity

\* The peak is the highest of the capital, the equity and the equities of the days
\* before.
LEMMA PeakNow ==
  ASSUME IInv, Equity \in Int
  PROVE  /\ Peak \in Int
         /\ \/ Peak \in {Rule.capital, Equity}
            \/ \E e \in PriorDays : Peak = snapshots[e].equity
         /\ Rule.capital <= Peak /\ Equity <= Peak
         /\ \A e \in PriorDays : snapshots[e].equity <= Peak
  <1>0. Rule.capital \in Int
    BY RuleTypes
  <1>1. /\ Rule.capital \in Int
        /\ \A e \in DOMAIN snapshots : snapshots[e].equity \in Int /\ snapshots[e].peak \in Int
    <2>1. \A e \in DOMAIN snapshots : snapshots[e] \in [equity : Int, peak : Int]
      BY DEF IInv, TypeOK
    <2> QED BY <1>0, <2>1
  <1>2. /\ PriorPeak \in Int
        /\ PriorPeak = Rule.capital \/ \E e \in PriorDays : PriorPeak = snapshots[e].equity
        /\ Rule.capital <= PriorPeak
        /\ \A e \in PriorDays : snapshots[e].equity <= PriorPeak
    <2>1. CASE PriorDays = {}
      BY <1>1, <2>1 DEF PriorPeak
    <2>2. CASE PriorDays # {}
      <3> DEFINE d == Max(PriorDays)
                 n == MaxSlots \div SlotsPerDay
      <3>1. n \in Nat /\ Days = 0..n /\ Day \in Nat
        BY DayFacts DEF IInv, TypeOK
      <3>2. PriorDays \in SUBSET (0..n)
        BY <3>1 DEF IInv, TypeOK, PriorDays
      <3> HIDE DEF n
      <3>3. d \in PriorDays /\ \A e \in PriorDays : e <= d
        BY <2>2, <3>1, <3>2, BoundedMax
      <3>4. PriorPeak = snapshots[d].peak
        BY <2>2 DEF PriorPeak
      <3> HIDE DEF d
      <3>5. d \in DOMAIN snapshots /\ d < Day
        BY <3>3 DEF PriorDays
      <3>6. /\ snapshots[d].peak \in EquitiesTo(d)
            /\ \A x \in EquitiesTo(d) : x <= snapshots[d].peak
        BY <3>5 DEF IInv, PeakKept
      <3>7. \A e \in PriorDays : snapshots[e].equity \in EquitiesTo(d)
        BY <3>3 DEF PriorDays, EquitiesTo
      <3>8. Rule.capital \in EquitiesTo(d)
        BY DEF EquitiesTo
      <3>9. \A x \in EquitiesTo(d) :
               x = Rule.capital \/ \E e \in PriorDays : x = snapshots[e].equity
        <4> SUFFICES ASSUME NEW e \in DOMAIN snapshots, e <= d PROVE e \in PriorDays
          BY DEF EquitiesTo
        <4>1. e \in Nat /\ d \in Nat
          BY <3>1, <3>5 DEF IInv, TypeOK
        <4> QED BY <3>1, <3>5, <4>1 DEF PriorDays
      <3> QED BY <1>1, <3>4, <3>5, <3>6, <3>7, <3>8, <3>9
    <2> QED BY <2>1, <2>2
  <1>3. Peak \in {PriorPeak, Equity} /\ PriorPeak <= Peak /\ Equity <= Peak
    BY <1>2, MaxOfTwo DEF Peak
  <1>4. Peak \in Int
    BY <1>2, <1>3
  <1>5. Rule.capital <= Peak
    BY <1>1, <1>2, <1>3, <1>4
  <1>6. ASSUME NEW e \in PriorDays PROVE snapshots[e].equity <= Peak
    <2>1. snapshots[e].equity \in Int /\ snapshots[e].equity <= PriorPeak
      BY <1>1, <1>2 DEF PriorDays
    <2> QED BY <2>1, <1>2, <1>3, <1>4
  <1> QED BY <1>2, <1>3, <1>4, <1>5, <1>6

\* Saving the day's row keeps the peaks of all rows what they say.
LEMMA SnapshotKeepsPeak ==
  ASSUME IInv, Equity \in Int, SaveSnapshot, now' = now
  PROVE  /\ PeakKept'
         /\ DOMAIN snapshots' \subseteq Days
         /\ \A d \in DOMAIN snapshots' : snapshots'[d] \in [equity : Int, peak : Int]
  <1>1. /\ Peak \in Int
        /\ \/ Peak \in {Rule.capital, Equity}
           \/ \E e \in PriorDays : Peak = snapshots[e].equity
        /\ Rule.capital <= Peak /\ Equity <= Peak
        /\ \A e \in PriorDays : snapshots[e].equity <= Peak
    BY PeakNow
  <1>2. /\ Day \in Nat /\ Day \in Days /\ Days \subseteq Nat /\ DOMAIN snapshots \subseteq Days
        /\ \A d \in DOMAIN snapshots : snapshots[d] \in [equity : Int, peak : Int]
    BY DayFacts DEF IInv, TypeOK
  <1>3. /\ DOMAIN snapshots' = DOMAIN snapshots \cup {Day}
        /\ snapshots'[Day] = [equity |-> Equity, peak |-> Peak]
        /\ \A d \in DOMAIN snapshots : d # Day => snapshots'[d] = snapshots[d]
    BY DEF SaveSnapshot
  <1>4. Day' = Day
    BY DEF Day
  <1> HIDE DEF Day
  <1>5. DOMAIN snapshots' \subseteq Days
    BY <1>2, <1>3
  <1>6. \A d \in DOMAIN snapshots' : snapshots'[d] \in [equity : Int, peak : Int]
    BY <1>1, <1>2, <1>3
  <1>7. PeakKept'
    <2> SUFFICES ASSUME NEW d \in DOMAIN snapshots'
                 PROVE  /\ d <= Day
                        /\ snapshots'[d].peak \in EquitiesTo(d)'
                        /\ \A x \in EquitiesTo(d)' : x <= snapshots'[d].peak
      BY <1>4 DEF PeakKept
    <2>1. EquitiesTo(d)' = {Rule.capital}
             \cup {snapshots'[e].equity : e \in {e \in DOMAIN snapshots' : e <= d}}
      BY DEF EquitiesTo
    <2>2. CASE d = Day
      <3>0. \A e \in DOMAIN snapshots' : e \in Nat
        BY <1>2, <1>5
      <3>1. ASSUME NEW e \in DOMAIN snapshots', e <= d PROVE e = Day \/ e \in PriorDays
        <4>1. e \in Nat /\ (e = Day \/ e < Day)
          BY <1>2, <2>2, <3>0, <3>1
        <4> QED BY <4>1, <1>3 DEF PriorDays
      <3>2. ASSUME NEW e \in PriorDays
            PROVE  /\ e \in DOMAIN snapshots' /\ e <= d
                   /\ snapshots'[e].equity = snapshots[e].equity
        <4>1. e \in DOMAIN snapshots /\ e < Day
          BY DEF PriorDays
        <4>2. e \in Nat /\ Day \in Nat
          BY <1>2, <4>1
        <4>3. e # Day /\ e <= d
          BY <2>2, <4>1, <4>2
        <4> QED BY <1>3, <4>1, <4>3
      <3>3. snapshots'[d].peak = Peak /\ snapshots'[d].equity = Equity /\ d <= d
        BY <1>2, <1>3, <2>2
      <3>4. Peak \in EquitiesTo(d)'
        BY <1>1, <2>1, <3>2, <3>3
      <3>5. \A x \in EquitiesTo(d)' : x = Rule.capital \/ x = Equity
                                       \/ \E e \in PriorDays : x = snapshots[e].equity
        BY <2>1, <2>2, <3>1, <3>2, <3>3
      <3> QED BY <1>1, <1>2, <2>2, <3>3, <3>4, <3>5
    <2>3. CASE d # Day
      <3>1. d \in DOMAIN snapshots /\ snapshots'[d] = snapshots[d]
        BY <1>3, <2>3
      <3>2. /\ d <= Day /\ d \in Nat
            /\ snapshots[d].peak \in EquitiesTo(d)
            /\ \A x \in EquitiesTo(d) : x <= snapshots[d].peak
        BY <1>2, <3>1 DEF IInv, PeakKept
      <3>3. EquitiesTo(d)' = EquitiesTo(d)
        <4>1. {e \in DOMAIN snapshots' : e <= d} = {e \in DOMAIN snapshots : e <= d}
          BY <1>2, <1>3, <2>3, <3>2
        <4>2. \A e \in {e \in DOMAIN snapshots : e <= d} : snapshots'[e].equity = snapshots[e].equity
          BY <1>2, <1>3, <2>3, <3>2
        <4> QED BY <4>1, <4>2, <2>1 DEF EquitiesTo
      <3> QED BY <3>1, <3>2, <3>3
    <2> QED BY <2>2, <2>3
  <1> QED BY <1>5, <1>6, <1>7

\* A step that decides nothing, and keeps what is held and what is quoted.
LEMMA DecisionsKept ==
  ASSUME IInv, phase \in {"risk", "candidates"},
         UNCHANGED <<positions, history, now, quote, sent, open>>,
         phase' \in {"candidates", "execute"},
         phase' = "candidates" => todo' = todo,
         todo' \in {todo, << >>}, open => todo' = todo
  PROVE  /\ PhaseSound' /\ TodoSound' /\ SentSound' /\ PositionsFit' /\ ExitsPending'
         /\ todo' \in Seq(DecisionRecord)
  <1>1. /\ sent = << >> /\ DOMAIN quote = Held
        /\ \A t \in Held : quote[t] \in Prices
        /\ \A i \in DOMAIN todo : todo[i].side = "sell"
    BY DEF IInv, PhaseSound
  <1>2. Held' = Held
    BY DEF Held
  <1>3. todo' \in Seq(DecisionRecord) /\ (todo' = todo \/ DOMAIN todo' = {})
    <2>1. << >> \in Seq(DecisionRecord) /\ DOMAIN << >> = {}
      OBVIOUS
    <2> QED BY <2>1 DEF IInv, TypeOK
  <1>4. PhaseSound'
    <2>1. \A i \in DOMAIN todo' : todo'[i].side = "sell"
      BY <1>1, <1>3
    <2> QED BY <1>1, <1>2, <2>1 DEF PhaseSound
  <1>5. TodoSound'
    <2>1. \A i \in DOMAIN todo :
             /\ todo[i].notional = Notional(todo[i].shares, todo[i].price)
             /\ SellIn(positions, todo[i])
      BY <1>1 DEF IInv, TodoSound, SellSound, SellsAll, SellIn
    <2>2. \A i, j \in DOMAIN todo : todo[i].ticker = todo[j].ticker => i = j
      BY DEF IInv, TodoSound
    <2>3. \A i \in DOMAIN todo' :
             /\ todo'[i].notional = Notional(todo'[i].shares, todo'[i].price)
             /\ SellIn(positions', todo'[i]) /\ todo'[i].side = "sell"
      BY <1>1, <1>3, <2>1
    <2>4. \A i, j \in DOMAIN todo' : todo'[i].ticker = todo'[j].ticker => i = j
      BY <1>3, <2>2
    <2>5. DOMAIN sent' = {}
      BY <1>1
    <2> QED BY <2>3, <2>4, <2>5, TodoSoundNext
  <1>6. SentSound'
    BY <1>1, NothingSent
  <1>7. PositionsFit'
    <2>1. Buying' = {}
      BY <1>1, <1>3 DEF Buying
    <2>2. Cardinality(Held) <= Rule.maxPositions
      BY HeldFit DEF IInv
    <2> QED BY <1>2, <2>1, <2>2 DEF PositionsFit
  <1>8. ExitsPending'
    <2> SUFFICES ASSUME SharesCostACent, open', NEW t \in (DOMAIN quote \cap Held)',
                        quote'[t] # Unpriced, Due(t)'
                 PROVE  SellPending(t)'
      BY DEF ExitsPending
    <2>1. t \in DOMAIN quote \cap Held /\ quote[t] # Unpriced /\ Due(t)
      BY <1>2 DEF Due, HoldingDays
    <2>2. SellSent(t) \/ SellPending(t)
      BY <2>1 DEF IInv, ExitsPending
    <2>3. ~SellSent(t)
      BY <1>1 DEF SellSent
    <2>4. SellPending(t)
      BY <2>2, <2>3
    <2>5. todo' = todo
      OBVIOUS
    <2> QED BY <2>4, <2>5 DEF SellPending, SellsAll
  <1> QED BY <1>3, <1>4, <1>5, <1>6, <1>7, <1>8

LEMMA RiskKeepsIInv ==
  ASSUME IInv, EvaluateRisk
  PROVE  IInv'
  <1>1. /\ phase = "risk" /\ SaveSnapshot /\ UNCHANGED <<book, clock, history>>
        /\ UNCHANGED <<cash, positions, closed, now, cycles>>
    BY DEF EvaluateRisk, book, clock
  <1>2. Equity \in Int
    BY <1>1, EquityType DEF IInv
  <1>3. /\ PeakKept'
        /\ DOMAIN snapshots' \subseteq Days
        /\ \A d \in DOMAIN snapshots' : snapshots'[d] \in [equity : Int, peak : Int]
    BY <1>1, <1>2, SnapshotKeepsPeak
  <1>4. HistoryKept'
    BY <1>1, HistoryFrame DEF IInv
  <1>5. /\ now' \in 0..MaxSlots /\ cash' \in Int /\ closed' \in [Days -> Int]
        /\ positions' \in [Ticker -> Position \cup {Flat}]
        /\ cycles' \in 0..MaxCycles
        /\ history' \in [Ticker -> [seen : SUBSET Prices, takes : Nat]]
    BY <1>1 DEF IInv, TypeOK
  <1>6. Held' = Held
    BY <1>1 DEF Held
  <1>7. CASE halted' = TRUE /\ Return
    <2>1. /\ PhaseSound' /\ TodoSound' /\ SentSound' /\ PositionsFit' /\ ExitsPending'
          /\ phase' = "idle" /\ open' \in BOOLEAN
          /\ DOMAIN quote' \subseteq Ticker /\ \A t \in DOMAIN quote' : quote'[t] \in Quotes
          /\ todo' \in Seq(DecisionRecord)
          /\ sent' \in Seq([decision : DecisionRecord, qty : Nat])
      BY <1>6, <1>7, ReturnKeeps
    <2>2. TypeOK'
      BY <1>3, <1>5, <1>7, <2>1 DEF TypeOK, Days
    <2> QED BY <1>3, <1>4, <2>1, <2>2 DEF IInv
  <1>8. CASE ~(halted' = TRUE /\ Return)
    <2>1. /\ UNCHANGED <<halted, open, quote, sent>>
          /\ phase' \in {"candidates", "execute"}
          /\ phase' = "candidates" => todo' = todo
          /\ todo' \in {todo, << >>} /\ (open => todo' = todo)
      BY <1>8 DEF EvaluateRisk, Execute
    <2>2. /\ PhaseSound' /\ TodoSound' /\ SentSound' /\ PositionsFit' /\ ExitsPending'
          /\ todo' \in Seq(DecisionRecord)
      BY <1>1, <2>1, DecisionsKept
    <2>3. /\ halted' \in BOOLEAN /\ open' \in BOOLEAN
          /\ phase' \in {"idle", "risk", "candidates", "execute"}
          /\ DOMAIN quote' \subseteq Ticker /\ \A t \in DOMAIN quote' : quote'[t] \in Quotes
          /\ sent' \in Seq([decision : DecisionRecord, qty : Nat])
      BY <2>1 DEF IInv, TypeOK, Quotes
    <2>4. TypeOK'
      BY <1>3, <1>5, <2>2, <2>3 DEF TypeOK, Days
    <2> QED BY <1>3, <1>4, <2>2, <2>4 DEF IInv
  <1> QED BY <1>7, <1>8

\* A cycle that ends without booking anything.
LEMMA EndKeepsIInv ==
  ASSUME IInv, Return, UNCHANGED <<book, clock, snapshots, halted, history>>
  PROVE  IInv'
  <1>1. UNCHANGED <<cash, positions, closed, now, cycles, snapshots, halted, history>>
    BY DEF book, clock
  <1>2. Held' = Held
    BY <1>1 DEF Held
  <1>3. /\ PhaseSound' /\ TodoSound' /\ SentSound' /\ PositionsFit' /\ ExitsPending'
        /\ phase' = "idle" /\ open' \in BOOLEAN
        /\ DOMAIN quote' \subseteq Ticker /\ \A t \in DOMAIN quote' : quote'[t] \in Quotes
        /\ todo' \in Seq(DecisionRecord)
        /\ sent' \in Seq([decision : DecisionRecord, qty : Nat])
    BY <1>2, ReturnKeeps
  <1>4. HistoryKept' /\ PeakKept'
    BY <1>1, HistoryFrame, PeakFrame DEF IInv
  <1>5. TypeOK'
    BY <1>1, <1>3 DEF IInv, TypeOK, Days
  <1> QED BY <1>3, <1>4, <1>5 DEF IInv

LEMMA ResumeKeepsIInv ==
  ASSUME IInv, Resume
  PROVE  IInv'
  <1>1. /\ halted' = FALSE
        /\ UNCHANGED <<cash, positions, closed, now, cycles, snapshots, phase, open, quote,
                       todo, sent, history>>
    BY DEF Resume, book, clock
  <1>2. Held' = Held
    BY <1>1 DEF Held
  <1>3. HistoryKept' /\ PeakKept'
    BY <1>1, HistoryFrame, PeakFrame DEF IInv
  <1>4. TypeOK'
    BY <1>1 DEF IInv, TypeOK, Days, Quotes
  <1>5. PhaseSound'
    BY <1>1, <1>2 DEF IInv, PhaseSound
  <1>6. TodoSound'
    BY <1>1, <1>2 DEF IInv, TodoSound, SellSound, SellsAll, BuySound, Justified
  <1>7. SentSound'
    BY <1>1 DEF IInv, SentSound, BuysAreJustified, Justified, Bought
  <1>8. PositionsFit'
    BY <1>1, <1>2 DEF IInv, PositionsFit, Buying
  <1>9. ExitsPending'
    BY <1>1, <1>2 DEF IInv, ExitsPending, Due, HoldingDays, SellSent, SellPending, SellsAll
  <1> QED BY <1>3, <1>4, <1>5, <1>6, <1>7, <1>8, <1>9 DEF IInv

LEMMA TickKeepsIInv ==
  ASSUME IInv, Tick
  PROVE  IInv'
  <1>1. /\ phase = "idle" /\ now < MaxSlots /\ now' = now + 1
        /\ UNCHANGED <<cash, positions, closed, cycles, snapshots, halted, phase, open, quote,
                       todo, sent, history>>
    BY DEF Tick, book
  <1>2. todo' = << >> /\ sent' = << >> /\ phase' = "idle"
    BY <1>1 DEF IInv, PhaseSound
  <1>3. Held' = Held /\ Buying' = Buying
    BY <1>1 DEF Held, Buying
  <1>4. now \in Nat /\ now' \in 0..MaxSlots
    BY <1>1, PriceFacts DEF IInv, TypeOK
  <1>5. HistoryKept'
    BY <1>1, HistoryFrame DEF IInv
  <1>6. TypeOK'
    BY <1>1, <1>4 DEF IInv, TypeOK, Days, Quotes
  <1>7. PhaseSound' /\ TodoSound' /\ ExitsPending'
    BY <1>2 DEF PhaseSound, TodoSound, ExitsPending
  <1>8. SentSound'
    BY <1>2, NothingSent
  <1>9. PositionsFit'
    BY <1>3 DEF IInv, PositionsFit
  <1>10. PeakKept'
    <2>1. Day \in Nat /\ Day' \in Nat /\ Day <= Day'
      <3>1. SlotsPerDay \in Nat \ {0} /\ now' \in Nat /\ now <= now'
        BY <1>1, <1>4, PortfolioAssumption
      <3> QED BY <1>4, <3>1, DivMonotone DEF Day
    <2>2. \A d \in DOMAIN snapshots : d \in Nat
      BY DayFacts DEF IInv, TypeOK
    <2>3. \A d \in DOMAIN snapshots' : d <= Day'
      BY <1>1, <2>1, <2>2 DEF IInv, PeakKept
    <2>4. \A d \in DOMAIN snapshots' :
             /\ snapshots'[d].peak \in EquitiesTo(d)'
             /\ \A x \in EquitiesTo(d)' : x <= snapshots'[d].peak
      BY <1>1 DEF IInv, PeakKept, EquitiesTo
    <2> QED BY <2>3, <2>4 DEF PeakKept
  <1> QED BY <1>5, <1>6, <1>7, <1>8, <1>9, <1>10 DEF IInv

-------------------------------------------------------------------------------
(***************************************************************************)
(* The candidates and the entries decided on.                              *)
(***************************************************************************)

\* What an answer proposes is a sequence of candidates with a price.
LEMMA ProposalsAreCandidates ==
  ASSUME NEW C \in SUBSET Ticker, NEW answer \in BoundedSeq(Ticker, MaxProposals)
  PROVE  /\ Proposals(answer, C) \in Seq(Ticker)
         /\ \A i \in 1..Len(Proposals(answer, C)) : Proposals(answer, C)[i] \in C
  <1>1. answer \in Seq(Ticker)
    <2>1. answer \in UNION {[1..m -> Ticker] : m \in 0..MaxProposals}
      BY DEF BoundedSeq, SeqOf
    <2>2. PICK m \in 0..MaxProposals : answer \in [1..m -> Ticker]
      BY <2>1
    <2>3. m \in Nat
      BY PortfolioAssumption
    <2> QED BY <2>2, <2>3
  <1>2. CASE ToSet(answer) \subseteq C
    <2>1. Proposals(answer, C) = answer
      BY <1>2 DEF Proposals
    <2>2. \A i \in 1..Len(answer) : answer[i] \in C
      BY <1>1, <1>2 DEF ToSet
    <2> QED BY <1>1, <2>1, <2>2
  <1>3. CASE ~(ToSet(answer) \subseteq C)
    <2>1. Proposals(answer, C) = << >>
      BY <1>3 DEF Proposals
    <2>2. << >> \in Seq(Ticker) /\ Len(<< >>) = 0
      OBVIOUS
    <2> QED BY <2>1, <2>2
  <1> QED BY <1>2, <1>3

LEMMA CandidatesKeepIInv ==
  ASSUME IInv, NEW price \in [Candidates -> Quotes],
         NEW answer \in BoundedSeq(Ticker, MaxProposals), EvaluateCandidates(price, answer)
  PROVE  IInv'
  <1> DEFINE C == {t \in Candidates : price[t] # Unpriced}
             p == Proposals(answer, C)
             B == Buys(p, price)
             F == todo \o B
             m == Len(todo)
  <1>1. /\ phase = "candidates" /\ phase' = "execute"
        /\ UNCHANGED <<cash, positions, closed, now, cycles, snapshots, halted, open, quote,
                       history, sent>>
        /\ todo' = IF open THEN F ELSE << >>
    BY DEF EvaluateCandidates, Execute, book, clock
  <1>2. /\ sent = << >> /\ DOMAIN quote = Held
        /\ \A i \in DOMAIN todo : todo[i].side = "sell"
    BY <1>1 DEF IInv, PhaseSound
  <1>3. /\ C \in SUBSET Ticker
        /\ \A t \in C : price[t] \in Prices /\ \E k \in Mentions[t] : k > now - Window
    <2>1. \A t \in Candidates : t \in Ticker /\ \E k \in Mentions[t] : k > now - Window
      BY CandidatesMentioned
    <2>2. \A t \in Candidates : price[t] \in Prices \cup {Unpriced}
      BY DEF Quotes
    <2> QED BY <2>1, <2>2
  <1> HIDE DEF C
  <1>4. p \in Seq(Ticker) /\ \A i \in 1..Len(p) : p[i] \in C
    BY <1>3, ProposalsAreCandidates
  <1> HIDE DEF p
  <1>5. /\ B \in Seq(DecisionRecord)
        /\ \A i \in 1..Len(B) : Accepted(B[i]) /\ \E k \in 1..Len(p) : B[i].ticker = p[k]
        /\ \A i, j \in 1..Len(B) : B[i].ticker = B[j].ticker => i = j
        /\ Cardinality(Held \cup {B[i].ticker : i \in 1..Len(B)}) <= Rule.maxPositions
    <2>1. \A i \in 1..Len(p) : price[p[i]] \in Prices
      BY <1>3, <1>4
    <2>2. Cardinality(Held) <= Rule.maxPositions
      BY HeldFit DEF IInv
    <2>3. TypeOK
      BY DEF IInv
    <2>4. BuysFit(B, p)
      BY <1>4, <2>1, <2>2, <2>3, BuysAreSound
    <2> HIDE DEF B
    <2> QED BY <2>4 DEF BuysFit
  <1> HIDE DEF B
  <1>6. Held' = Held
    BY <1>1 DEF Held
  <1>7. /\ todo \in Seq(DecisionRecord) /\ m \in Nat /\ DOMAIN todo = 1..m
        /\ Len(B) \in Nat
    BY <1>5 DEF IInv, TypeOK
  <1>8. /\ F \in Seq(DecisionRecord) /\ Len(F) = m + Len(B) /\ DOMAIN F = 1..Len(F)
        /\ \A i \in 1..m : F[i] = todo[i]
        /\ \A i \in 1..Len(B) : F[m + i] = B[i]
    BY <1>5, <1>7
  <1> HIDE DEF F
  <1>9. /\ \A i \in 1..m : i \in 1..Len(F)
        /\ \A i \in 1..Len(B) : m + i \in 1..Len(F)
        /\ \A i \in 1..Len(F) : i \in 1..m \/ \E j \in 1..Len(B) : i = m + j
    <2>1. \A i \in 1..Len(F) : i \in 1..m \/ (i - m \in 1..Len(B) /\ i = m + (i - m))
      BY <1>7, <1>8
    <2>2. /\ \A i \in 1..m : i \in 1..Len(F)
          /\ \A i \in 1..Len(B) : m + i \in 1..Len(F)
      BY <1>7, <1>8
    <2> QED BY <2>1, <2>2
  <1>10. \A i \in 1..m : /\ todo[i].side = "sell" /\ todo[i].ticker \in Held
                         /\ todo[i].notional = Notional(todo[i].shares, todo[i].price)
                         /\ SellIn(positions, todo[i])
    <2> SUFFICES ASSUME NEW i \in 1..m
                 PROVE  /\ todo[i].side = "sell" /\ todo[i].ticker \in Held
                        /\ todo[i].notional = Notional(todo[i].shares, todo[i].price)
                        /\ SellIn(positions, todo[i])
      OBVIOUS
    <2>1. todo[i].side = "sell" /\ SellSound(todo[i])
          /\ todo[i].notional = Notional(todo[i].shares, todo[i].price)
      BY <1>2, <1>7 DEF IInv, TodoSound
    <2>2. todo[i] \in DecisionRecord
      BY <1>7
    <2>3. todo[i].ticker \in Ticker
      BY <2>2 DEF DecisionRecord
    <2> QED BY <2>1, <2>3 DEF Held, SellSound, SellsAll, SellIn
  <1>11. \A i \in 1..Len(B) : /\ B[i].side = "buy" /\ B[i].ticker \notin Held
                              /\ B[i].notional = Notional(B[i].shares, B[i].price)
                              /\ BuyIn(Held, quote, B[i])
    <2> SUFFICES ASSUME NEW i \in 1..Len(B)
                 PROVE  /\ B[i].side = "buy" /\ B[i].ticker \notin Held
                        /\ B[i].notional = Notional(B[i].shares, B[i].price)
                        /\ BuyIn(Held, quote, B[i])
      OBVIOUS
    <2>1. /\ B[i].side = "buy" /\ B[i].ticker \notin Held
          /\ B[i].notional = Notional(B[i].shares, B[i].price)
          /\ B[i].shares * B[i].price <= Limit
          /\ B[i].ticker \in Liquid \ Rule.excluded
      BY <1>5 DEF Accepted
    <2>2. \E k \in Mentions[B[i].ticker] : k > now - Window
      <3>1. PICK k \in 1..Len(p) : B[i].ticker = p[k]
        BY <1>5
      <3> QED BY <1>3, <1>4, <3>1
    <2> QED BY <1>2, <2>1, <2>2 DEF BuyIn, Justified
  <1>12. todo' \in Seq(DecisionRecord) /\ (todo' = F \/ DOMAIN todo' = {})
    <2>1. << >> \in Seq(DecisionRecord) /\ DOMAIN << >> = {}
      OBVIOUS
    <2> QED BY <1>1, <1>8, <2>1
  <1>13. TypeOK'
    BY <1>1, <1>12 DEF IInv, TypeOK, Days, Quotes
  <1>14. HistoryKept' /\ PeakKept'
    BY <1>1, HistoryFrame, PeakFrame DEF IInv
  <1>15. PhaseSound'
    BY <1>1 DEF PhaseSound
  <1>16. TodoSound'
    <2>1. ASSUME NEW i \in 1..Len(F)
          PROVE  /\ F[i].notional = Notional(F[i].shares, F[i].price)
                 /\ F[i].side = "sell" => SellIn(positions, F[i])
                 /\ F[i].side = "buy" => BuyIn(Held, quote, F[i])
      <3>1. CASE i \in 1..m
        BY <3>1, <1>8, <1>10
      <3>2. CASE \E j \in 1..Len(B) : i = m + j
        BY <3>2, <1>8, <1>11
      <3> QED BY <3>1, <3>2, <1>9
    <2>2. ASSUME NEW i \in 1..Len(F), NEW j \in 1..Len(F), F[i].ticker = F[j].ticker
          PROVE  i = j
      <3>1. CASE i \in 1..m /\ j \in 1..m
        BY <2>2, <3>1, <1>7, <1>8 DEF IInv, TodoSound
      <3>2. CASE i \in 1..m /\ \E k \in 1..Len(B) : j = m + k
        <4>1. F[i].ticker \in Held
          BY <3>2, <1>8, <1>10
        <4>2. F[j].ticker \notin Held
          BY <3>2, <1>8, <1>11
        <4> QED BY <2>2, <4>1, <4>2
      <3>3. CASE j \in 1..m /\ \E k \in 1..Len(B) : i = m + k
        <4>1. F[j].ticker \in Held
          BY <3>3, <1>8, <1>10
        <4>2. F[i].ticker \notin Held
          BY <3>3, <1>8, <1>11
        <4> QED BY <2>2, <4>1, <4>2
      <3>4. CASE (\E k \in 1..Len(B) : i = m + k) /\ \E k \in 1..Len(B) : j = m + k
        <4>1. PICK k \in 1..Len(B), l \in 1..Len(B) : i = m + k /\ j = m + l
          BY <3>4
        <4>2. F[i] = B[k] /\ F[j] = B[l]
          BY <1>8, <4>1
        <4>3. k = l
          BY <1>5, <2>2, <4>2
        <4> QED BY <4>1, <4>3
      <3> QED BY <3>1, <3>2, <3>3, <3>4, <1>9
    <2>3. \A i \in DOMAIN todo' :
             /\ todo'[i].notional = Notional(todo'[i].shares, todo'[i].price)
             /\ todo'[i].side = "sell" => SellIn(positions', todo'[i])
             /\ todo'[i].side = "buy" => BuyIn(Held', quote', todo'[i])
      BY <1>1, <1>6, <1>8, <1>12, <2>1
    <2>4. \A i, j \in DOMAIN todo' : todo'[i].ticker = todo'[j].ticker => i = j
      BY <1>8, <1>12, <2>2
    <2>5. DOMAIN sent' = {}
      BY <1>1, <1>2
    <2> QED BY <1>1, <2>3, <2>4, <2>5, TodoSoundNext
  <1>17. SentSound'
    BY <1>1, <1>2, NothingSent
  <1>18. PositionsFit'
    <2>1. CASE DOMAIN todo' = {}
      <3>1. Buying' = {}
        BY <2>1 DEF Buying
      <3>2. Cardinality(Held) <= Rule.maxPositions
        BY HeldFit DEF IInv
      <3> QED BY <1>6, <3>1, <3>2 DEF PositionsFit
    <2>2. CASE todo' = F
      <3>1. Buying' = {F[i].ticker : i \in {i \in 1..Len(F) : F[i].side = "buy"}}
        BY <1>8, <2>2 DEF Buying
      <3>2. \A i \in 1..Len(F) : F[i].side = "buy" =>
               \E j \in 1..Len(B) : F[i].ticker = B[j].ticker
        <4> SUFFICES ASSUME NEW i \in 1..Len(F), F[i].side = "buy"
                     PROVE  \E j \in 1..Len(B) : F[i].ticker = B[j].ticker
          OBVIOUS
        <4>1. i \notin 1..m
          BY <1>8, <1>10
        <4>2. PICK j \in 1..Len(B) : i = m + j
          BY <4>1, <1>9
        <4> QED BY <1>8, <4>2
      <3>3. \A j \in 1..Len(B) : \E i \in {i \in 1..Len(F) : F[i].side = "buy"} :
               F[i].ticker = B[j].ticker
        <4> SUFFICES ASSUME NEW j \in 1..Len(B)
                     PROVE  \E i \in {i \in 1..Len(F) : F[i].side = "buy"} :
                               F[i].ticker = B[j].ticker
          OBVIOUS
        <4>1. m + j \in 1..Len(F) /\ F[m + j] = B[j] /\ B[j].side = "buy"
          BY <1>8, <1>9, <1>11
        <4> QED BY <4>1
      <3>4. Buying' = {B[i].ticker : i \in 1..Len(B)}
        <4>1. ASSUME NEW x \in Buying' PROVE x \in {B[i].ticker : i \in 1..Len(B)}
          <5>1. PICK i \in 1..Len(F) : F[i].side = "buy" /\ x = F[i].ticker
            BY <3>1
          <5>2. PICK j \in 1..Len(B) : F[i].ticker = B[j].ticker
            BY <3>2, <5>1
          <5> QED BY <5>1, <5>2
        <4>2. ASSUME NEW j \in 1..Len(B) PROVE B[j].ticker \in Buying'
          BY <3>1, <3>3
        <4> QED BY <4>1, <4>2
      <3> QED BY <1>5, <1>6, <3>4 DEF PositionsFit
    <2> QED BY <1>12, <2>1, <2>2
  <1>19. ExitsPending'
    <2> SUFFICES ASSUME SharesCostACent, open', NEW t \in (DOMAIN quote \cap Held)',
                        quote'[t] # Unpriced, Due(t)'
                 PROVE  SellPending(t)'
      BY DEF ExitsPending
    <2>1. t \in DOMAIN quote \cap Held /\ quote[t] # Unpriced /\ Due(t) /\ open
      BY <1>1, <1>6 DEF Due, HoldingDays
    <2>2. SellSent(t) \/ SellPending(t)
      BY <1>1, <2>1 DEF IInv, ExitsPending
    <2>3. ~SellSent(t)
      BY <1>2 DEF SellSent
    <2>4. PICK i \in DOMAIN todo :
             todo[i].ticker = t /\ todo[i].side = "sell" /\ SellsAll(todo[i])
      BY <2>2, <2>3 DEF SellPending
    <2>5. i \in DOMAIN F /\ F[i] = todo[i] /\ todo' = F
      BY <1>1, <1>7, <1>8, <1>9, <2>1, <2>4
    <2> QED BY <1>1, <2>4, <2>5 DEF SellPending, SellsAll
  <1> QED BY <1>13, <1>14, <1>15, <1>16, <1>17, <1>18, <1>19 DEF IInv

-------------------------------------------------------------------------------
(***************************************************************************)
(* Execution: an order and its fill.                                       *)
(***************************************************************************)

\* A fill opens a position that is not there.
LEMMA OpenedFields ==
  ASSUME TypeOK, NEW n \in Nat \ {0}, NEW price \in Prices
  PROVE  LET q == ApplyBuy(Flat, n, price)
         IN  q \in Position /\ q.hwm = price /\ q.tp = FALSE
  <1>1. price \in Nat \ {0}
    BY PriceFacts
  <1> DEFINE q == [Flat EXCEPT !.qty = n, !.avg = price, !.opened = now, !.hwm = price]
  <1>2. /\ Flat \in [qty : Nat, avg : Nat, opened : Nat, hwm : Nat, tp : BOOLEAN, realized : Int]
        /\ Flat.tp = FALSE
    BY DEF Flat
  <1>3. q \in Position /\ q.hwm = price /\ q.tp = FALSE
    BY <1>1, <1>2 DEF Position, TypeOK
  <1>4. ApplyBuy(Flat, n, price) = q
    BY DEF ApplyBuy
  <1> QED BY <1>3, <1>4

\* A fill of less than is held leaves the rest.
LEMMA ReducedFields ==
  ASSUME NEW p \in Position, NEW reason, NEW n \in Nat \ {0}, n <= p.qty, n # p.qty,
         NEW price \in Prices
  PROVE  LET q == ApplySell(p, reason, n, price)
         IN  /\ q \in Position /\ q.hwm = p.hwm /\ q.qty <= p.qty
             /\ q.tp = (p.tp \/ reason = "partial_take_profit")
  <1>1. /\ p.qty \in Nat \ {0} /\ p.avg \in Nat \ {0} /\ p.tp \in BOOLEAN /\ p.realized \in Int
    BY DEF Position
  <1> DEFINE pnl == RealizedPnl(price, p.avg, n)
             flag == p.tp \/ reason = "partial_take_profit"
             q == [p EXCEPT !.qty = @ - n, !.tp = flag, !.realized = @ + pnl]
  <1>2. pnl \in Int
    <2>1. price \in Int /\ p.avg \in Int /\ n \in Int
      BY <1>1, PriceFacts
    <2> QED BY <2>1, PnlType
  <1> HIDE DEF pnl
  <1>3. flag \in BOOLEAN
    BY <1>1
  <1>4. p.qty - n \in Nat \ {0} /\ p.qty - n <= p.qty /\ p.realized + pnl \in Int
    BY <1>1, <1>2
  <1>5. ApplySell(p, reason, n, price) = q
    BY DEF ApplySell, Closes, TakeProfitFlag, pnl
  <1> HIDE DEF flag
  <1>6. q \in Position /\ q.hwm = p.hwm /\ q.qty = p.qty - n /\ q.tp = flag
    BY <1>3, <1>4 DEF Position
  <1> HIDE DEF q
  <1> QED BY <1>4, <1>5, <1>6 DEF flag

\* What booking a fill of a sound decision does to the tables.
LEMMA SettleFacts ==
  ASSUME IInv, NEW d \in DecisionRecord, NEW n \in Nat, NEW price \in FillPrices,
         d.side = "sell" => SellIn(positions, d),
         d.side = "buy" => d.ticker \notin Held,
         Settle(d, n, price)
  PROVE  /\ cash' \in Int
         /\ positions' \in [Ticker -> Position \cup {Flat}]
         /\ closed' \in [Days -> Int]
         /\ history' \in [Ticker -> [seen : SUBSET Prices, takes : Nat]]
         /\ HistoryKept'
         /\ \A t \in Ticker : t # d.ticker => /\ positions'[t] = positions[t]
                                              /\ history'[t] = history[t]
         /\ d.side = "sell" => Held' \subseteq Held
         /\ d.side = "sell" => positions'[d.ticker].qty <= positions[d.ticker].qty
  <1> DEFINE t == d.ticker
             p == positions[t]
             h == history[t]
  <1>1. /\ t \in Ticker /\ d.side \in {"buy", "sell"}
        /\ price \in Prices /\ price \in Int
    BY PriceFacts DEF DecisionRecord
  <1>2. /\ cash \in Int /\ positions \in [Ticker -> Position \cup {Flat}]
        /\ closed \in [Days -> Int]
        /\ history \in [Ticker -> [seen : SUBSET Prices, takes : Nat]]
        /\ TypeOK
    BY DEF IInv, TypeOK
  <1>3. \A u \in Ticker :
           /\ positions[u] = Flat => history[u] = NoHistory
           /\ history[u].takes = (IF positions[u].tp THEN 1 ELSE 0)
           /\ positions[u] # Flat =>
                 /\ positions[u].hwm \in history[u].seen
                 /\ \A x \in history[u].seen : x <= positions[u].hwm
    BY DEF IInv, HistoryKept
  <1>4. d.side = "sell" => p \in Position
    BY <1>1, <1>2 DEF SellIn
  <1>5. d.side = "buy" => p = Flat
    BY <1>1 DEF Held
  <1>6. n * price \in Int
    BY <1>1
  <1>7. CASE n = 0 \/ (d.side = "sell" /\ n > p.qty)
    <2>1. UNCHANGED <<cash, positions, closed, history>>
      BY <1>7 DEF Settle, book
    <2>2. Held' = Held
      BY <2>1 DEF Held
    <2>3. HistoryKept'
      BY <2>1, HistoryFrame DEF IInv
    <2>4. d.side = "sell" => positions'[t].qty <= positions[t].qty
      <3>1. d.side = "sell" => p.qty \in Nat
        BY <1>4 DEF Position
      <3> QED BY <2>1, <3>1
    <2> QED BY <1>2, <2>1, <2>2, <2>3, <2>4 DEF Days
  <1>8. CASE n # 0 /\ d.side = "buy"
    <2> DEFINE q == ApplyBuy(Flat, n, price)
               g == [h EXCEPT !.seen = @ \cup {price}]
    <2>1. /\ cash' = cash - n * price /\ positions' = [positions EXCEPT ![t] = q]
          /\ UNCHANGED closed /\ history' = [history EXCEPT ![t] = g]
      <3>1. /\ cash' = cash - n * price
            /\ positions' = [positions EXCEPT ![t] = ApplyBuy(positions[t], n, price)]
            /\ UNCHANGED closed
            /\ history' = [history EXCEPT ![t] = Remember(history[t], d, n, price)]
        BY <1>8 DEF Settle
      <3>2. positions[t] = Flat
        BY <1>5, <1>8
      <3>3. ~Closes(positions[d.ticker], n)
        BY <1>8, <3>2 DEF Closes, Flat
      <3>4. Remember(history[t], d, n, price) = g
        BY <1>8, <3>3 DEF Remember
      <3> QED BY <3>1, <3>2, <3>4
    <2>2. n \in Nat \ {0}
      BY <1>8
    <2>3. q \in Position /\ q.hwm = price /\ q.tp = FALSE
      BY <1>1, <1>2, <2>2, OpenedFields
    <2>4. h \in [seen : SUBSET Prices, takes : Nat] /\ h.seen = {} /\ h.takes = 0
      <3>1. h = NoHistory
        BY <1>1, <1>3, <1>5, <1>8
      <3> QED BY <3>1 DEF NoHistory
    <2>5. g \in [seen : SUBSET Prices, takes : Nat] /\ g.seen = {price} /\ g.takes = 0
      <3> HIDE DEF h
      <3> QED BY <1>1, <2>4
    <2> HIDE DEF q, g, h, p, t
    <2>6. /\ cash' \in Int /\ positions' \in [Ticker -> Position \cup {Flat}]
          /\ history' \in [Ticker -> [seen : SUBSET Prices, takes : Nat]]
      BY <1>1, <1>2, <1>6, <2>1, <2>3, <2>5
    <2>7. /\ positions'[t] = q /\ history'[t] = g
          /\ \A u \in Ticker : u # t => positions'[u] = positions[u] /\ history'[u] = history[u]
      BY <1>1, <1>2, <2>1
    <2>8. HistoryKept'
      <3> SUFFICES ASSUME NEW u \in Ticker
                   PROVE  /\ positions'[u] = Flat => history'[u] = NoHistory
                          /\ history'[u].takes = (IF positions'[u].tp THEN 1 ELSE 0)
                          /\ positions'[u] # Flat =>
                                /\ positions'[u].hwm \in history'[u].seen
                                /\ \A x \in history'[u].seen : x <= positions'[u].hwm
        BY DEF HistoryKept
      <3>1. CASE u = t
        BY <3>1, <1>1, <2>3, <2>5, <2>7, FlatIsNoPosition
      <3>2. CASE u # t
        BY <3>2, <1>3, <2>7
      <3> QED BY <3>1, <3>2
    <2>9. closed' \in [Days -> Int]
      BY <1>2, <2>1 DEF Days
    <2> QED BY <1>8, <2>6, <2>7, <2>8, <2>9 DEF t
  <1>9. CASE n # 0 /\ d.side = "sell" /\ ~(n > p.qty)
    <2> DEFINE q == ApplySell(p, d.reason, n, price)
               g == Remember(h, d, n, price)
               pnl == p.realized + RealizedPnl(price, p.avg, n)
    <2>1. /\ cash' = cash + n * price /\ positions' = [positions EXCEPT ![t] = q]
          /\ closed' = [closed EXCEPT ![Day] = IF Closes(p, n) THEN @ + pnl ELSE @]
          /\ history' = [history EXCEPT ![t] = g]
      BY <1>1, <1>9 DEF Settle
    <2>2. p \in Position /\ n \in Nat \ {0} /\ p.qty \in Nat /\ n <= p.qty
      BY <1>4, <1>9 DEF Position
    <2>3. pnl \in Int
      <3>1. p.realized \in Int /\ p.avg \in Int /\ n \in Int
        BY <2>2 DEF Position
      <3> HIDE DEF p
      <3>2. RealizedPnl(price, p.avg, n) \in Int
        BY <1>1, <3>1, PnlType
      <3> QED BY <3>1, <3>2
    <2>4. h \in [seen : SUBSET Prices, takes : Nat]
          /\ h.takes = (IF p.tp THEN 1 ELSE 0)
          /\ p.hwm \in h.seen /\ \A x \in h.seen : x <= p.hwm
      BY <1>1, <1>2, <1>3, <2>2, FlatIsNoPosition
    <2>5. d.reason = "partial_take_profit" => ~p.tp
      BY <1>9 DEF SellIn
    <2>6. /\ q \in Position \cup {Flat}
          /\ g \in [seen : SUBSET Prices, takes : Nat]
          /\ q = Flat => g = NoHistory
          /\ g.takes = (IF q.tp THEN 1 ELSE 0)
          /\ q # Flat => q.hwm \in g.seen /\ \A x \in g.seen : x <= q.hwm
          /\ q.qty <= p.qty
      <3>1. CASE n = p.qty
        <4>1. q = Flat
          BY <3>1 DEF ApplySell, Closes
        <4>2. g = NoHistory
          BY <1>9, <3>1 DEF Remember, Closes
        <4>3. /\ Flat.tp = FALSE /\ Flat.qty = 0 /\ NoHistory.takes = 0
              /\ NoHistory \in [seen : SUBSET Prices, takes : Nat]
          BY DEF Flat, NoHistory
        <4> HIDE DEF q, g, p
        <4> QED BY <4>1, <4>2, <4>3, <2>2
      <3>2. CASE n # p.qty
        <4>1. /\ q \in Position /\ q.hwm = p.hwm /\ q.qty <= p.qty
              /\ q.tp = (p.tp \/ d.reason = "partial_take_profit")
          <5> HIDE DEF p
          <5> QED BY <1>1, <2>2, <3>2, ReducedFields
        <4>2. g = IF d.reason = "partial_take_profit" THEN [h EXCEPT !.takes = @ + 1] ELSE h
          BY <1>9, <3>2 DEF Remember, Closes
        <4> HIDE DEF q, g, p, h
        <4>3. CASE d.reason = "partial_take_profit"
          <5>1. /\ ~p.tp /\ h.takes = 0 /\ g = [h EXCEPT !.takes = @ + 1]
            BY <2>4, <2>5, <4>2, <4>3
          <5>2. /\ g \in [seen : SUBSET Prices, takes : Nat] /\ g.takes = 1 /\ g.seen = h.seen
            BY <2>4, <5>1
          <5> QED BY <2>4, <4>1, <4>3, <5>2, FlatIsNoPosition
        <4>4. CASE d.reason # "partial_take_profit"
          <5>1. g = h
            BY <4>2, <4>4
          <5>2. p.tp \in BOOLEAN /\ q.tp = p.tp
            BY <2>2, <4>1, <4>4 DEF Position
          <5> QED BY <2>4, <4>1, <5>1, <5>2, FlatIsNoPosition
        <4> QED BY <4>3, <4>4
      <3> QED BY <3>1, <3>2
    <2> HIDE DEF q, g, h, pnl
    <2>7. p # Flat /\ t \in Held
      BY <1>1, <2>2, FlatIsNoPosition DEF Held
    <2> HIDE DEF p, t
    <2>8. /\ cash' \in Int /\ positions' \in [Ticker -> Position \cup {Flat}]
          /\ history' \in [Ticker -> [seen : SUBSET Prices, takes : Nat]]
      BY <1>1, <1>2, <1>6, <2>1, <2>6
    <2>9. closed' \in [Days -> Int]
      <3>1. Day \in Days
        BY <1>2, DayFacts DEF TypeOK
      <3>2. closed[Day] \in Int
        BY <1>2, <3>1
      <3> DEFINE v == IF Closes(p, n) THEN closed[Day] + pnl ELSE closed[Day]
      <3>3. v \in Int
        BY <2>3, <3>2
      <3>4. closed' = [closed EXCEPT ![Day] = v]
        BY <2>1
      <3> HIDE DEF v
      <3> QED BY <1>2, <3>3, <3>4 DEF Days
    <2>10. /\ positions'[t] = q /\ history'[t] = g
           /\ \A u \in Ticker : u # t => positions'[u] = positions[u] /\ history'[u] = history[u]
      BY <1>1, <1>2, <2>1
    <2>11. HistoryKept'
      <3> SUFFICES ASSUME NEW u \in Ticker
                   PROVE  /\ positions'[u] = Flat => history'[u] = NoHistory
                          /\ history'[u].takes = (IF positions'[u].tp THEN 1 ELSE 0)
                          /\ positions'[u] # Flat =>
                                /\ positions'[u].hwm \in history'[u].seen
                                /\ \A x \in history'[u].seen : x <= positions'[u].hwm
        BY DEF HistoryKept
      <3>1. CASE u = t
        BY <3>1, <2>6, <2>10
      <3>2. CASE u # t
        BY <3>2, <1>3, <2>10
      <3> QED BY <3>1, <3>2
    <2>12. Held' \subseteq Held
      BY <2>7, <2>10 DEF Held
    <2>13. positions'[t].qty <= positions[t].qty
      BY <2>6, <2>10 DEF p
    <2> QED BY <2>8, <2>9, <2>10, <2>11, <2>12, <2>13, <1>9 DEF t
  <1> QED BY <1>1, <1>7, <1>8, <1>9

\* An order more costs what its shares cost of its own ticker, and nothing of others.
LEMMA BoughtMore ==
  ASSUME NEW s \in Seq([decision : DecisionRecord, qty : Nat]),
         NEW o \in [decision : DecisionRecord, qty : Nat], NEW t
  PROVE  /\ BoughtIn(Append(s, o), t) = BoughtIn(s, t) + Cost(o, t)
         /\ BoughtIn(s, t) \in Int
         /\ (\A i \in DOMAIN s : s[i].decision.ticker # t) => BoughtIn(s, t) = 0
  <1> DEFINE g == Append(s, o)
             f == [i \in DOMAIN s |-> Cost(s[i], t)]
             h == [i \in DOMAIN g |-> Cost(g[i], t)]
  <1>1. /\ Len(s) \in Nat /\ DOMAIN s = 1..Len(s) /\ Len(g) = Len(s) + 1
        /\ DOMAIN g = 1..Len(g) /\ \A i \in 1..Len(s) : g[i] = s[i]
        /\ g[Len(g)] = o
        /\ \A i \in 1..Len(s) : s[i] \in [decision : DecisionRecord, qty : Nat]
        /\ \A i \in 1..Len(g) : g[i] \in [decision : DecisionRecord, qty : Nat]
    <2> DEFINE R == [decision : DecisionRecord, qty : Nat]
    <2>1. s \in Seq(R) /\ o \in R
      OBVIOUS
    <2> HIDE DEF R
    <2>2. /\ Len(s) \in Nat /\ DOMAIN s = 1..Len(s) /\ g \in Seq(R) /\ Len(g) = Len(s) + 1
          /\ \A i \in 1..Len(s) : g[i] = s[i]
          /\ g[Len(s) + 1] = o
      BY <2>1
    <2> HIDE DEF g
    <2>3. /\ DOMAIN g = 1..Len(g) /\ \A i \in 1..Len(s) : s[i] \in R
          /\ \A i \in 1..Len(g) : g[i] \in R
      BY <2>1, <2>2
    <2> QED BY <2>2, <2>3 DEF R
  <1> HIDE DEF g
  <1>2. ASSUME NEW r \in [decision : DecisionRecord, qty : Nat] PROVE Cost(r, t) \in Int
    <2>1. r.qty \in Nat /\ r.decision \in DecisionRecord
      OBVIOUS
    <2>2. r.decision.price \in Prices
      BY <2>1 DEF DecisionRecord
    <2>3. r.qty \in Int /\ r.decision.price \in Int
      <3> DEFINE x == r.decision.price
      <3> HIDE DEF x
      <3>1. x \in Prices /\ \A y \in Prices : y \in Int
        BY <2>2, PriceFacts DEF x
      <3>2. x \in Int
        BY <3>1
      <3> QED BY <2>1, <3>2 DEF x
    <2> DEFINE c == r.qty * r.decision.price
    <2>4. c \in Int
      BY <2>3
    <2> HIDE DEF c
    <2> QED BY <2>4 DEF Cost, c
  <1>3. f \in Seq(Int) /\ Len(f) = Len(s) /\ \A i \in 1..Len(f) : f[i] = Cost(s[i], t)
    <2>1. \A i \in 1..Len(s) : Cost(s[i], t) \in Int
      BY <1>1, <1>2
    <2> QED BY <1>1, <2>1
  <1>4. h \in Seq(Int) /\ Len(h) = Len(g) /\ \A i \in 1..Len(h) : h[i] = Cost(g[i], t)
    <2>1. \A i \in 1..Len(g) : Cost(g[i], t) \in Int
      BY <1>1, <1>2
    <2>2. Len(g) \in Nat
      BY <1>1
    <2> QED BY <1>1, <2>1, <2>2
  <1>5. BoughtIn(s, t) = Total(f) /\ BoughtIn(g, t) = Total(h)
    BY DEF BoughtIn
  <1> HIDE DEF f, h
  <1>6. Len(h) = Len(f) + 1 /\ (\A i \in 1..Len(f) : h[i] = f[i]) /\ h[Len(h)] = Cost(o, t)
    <2>1. Len(h) = Len(f) + 1 /\ Len(f) \in Nat
      BY <1>1, <1>3, <1>4
    <2>2. \A i \in 1..Len(f) : i \in 1..Len(h)
      BY <2>1
    <2>3. Len(h) \in 1..Len(h)
      BY <2>1
    <2> QED BY <1>1, <1>3, <1>4, <2>1, <2>2, <2>3
  <1>7. Total(f) \in Int /\ Total(h) = Total(f) + h[Len(h)]
    BY <1>3, <1>4, <1>6, TotalLonger
  <1>8. ASSUME \A i \in DOMAIN s : s[i].decision.ticker # t PROVE Total(f) = 0
    <2>1. \A i \in 1..Len(f) : f[i] = 0
      BY <1>1, <1>3, <1>8 DEF Cost
    <2> QED BY <1>3, <2>1, TotalZero
  <1> QED BY <1>5, <1>6, <1>7, <1>8 DEF g

\* What is sent next is sound if its decision is: an order is for the shares decided
\* on, and the first of its ticker.
LEMMA NextSent ==
  ASSUME IInv, now' = now, NEW d \in DecisionRecord, NEW qty \in Nat,
         qty = OrderQty(d.notional, d.price), d.notional = Notional(d.shares, d.price),
         d.side = "buy" => BuySound(d),
         \A i \in DOMAIN sent : sent[i].decision.ticker # d.ticker,
         sent' = Append(sent, [decision |-> d, qty |-> qty])
  PROVE  /\ SentSound'
         /\ SharesCostACent => qty = d.shares
  <1> DEFINE o == [decision |-> d, qty |-> qty]
  <1>1. /\ sent \in Seq([decision : DecisionRecord, qty : Nat])
        /\ o \in [decision : DecisionRecord, qty : Nat]
        /\ o.decision = d /\ o.qty = qty /\ sent' = Append(sent, o)
    BY DEF IInv, TypeOK
  <1> HIDE DEF o
  <1>2. /\ DOMAIN sent' = DOMAIN sent \cup {Len(sent) + 1}
        /\ sent'[Len(sent) + 1] = o /\ \A i \in DOMAIN sent : sent'[i] = sent[i]
    BY <1>1
  <1>3. SharesCostACent => qty = d.shares
    <2> SUFFICES ASSUME SharesCostACent PROVE qty = d.shares
      OBVIOUS
    <2>1. d.price \in Prices /\ d.shares \in Nat
      BY DEF DecisionRecord
    <2>2. d.price \in Nat /\ d.price >= Cent
      BY <2>1, PriceFacts DEF SharesCostACent
    <2> QED BY <2>1, <2>2, OrderSizeRecovered
  <1>4. BuysAreJustified'
    <2>1. \A i \in DOMAIN sent : sent[i].decision.side = "buy" => Justified(sent[i].decision.ticker)
      BY DEF IInv, SentSound, BuysAreJustified
    <2>2. d.side = "buy" => Justified(d.ticker)
      BY DEF BuySound
    <2>3. \A i \in DOMAIN sent' :
             sent'[i].decision.side = "buy" => Justified(sent'[i].decision.ticker)
      BY <1>1, <1>2, <2>1, <2>2
    <2> QED BY <2>3 DEF BuysAreJustified, Justified
  <1>5. SharesCostACent => \A i \in DOMAIN sent' : sent'[i].qty = sent'[i].decision.shares
    <2> SUFFICES ASSUME SharesCostACent
                 PROVE  \A i \in DOMAIN sent' : sent'[i].qty = sent'[i].decision.shares
      OBVIOUS
    <2>1. \A i \in DOMAIN sent : sent[i].qty = sent[i].decision.shares
      BY DEF IInv, SentSound
    <2> QED BY <1>1, <1>2, <1>3, <2>1
  <1>6. SharesCostACent => \A t \in Ticker : BoughtIn(sent', t) <= Limit
    <2> SUFFICES ASSUME SharesCostACent, NEW t \in Ticker PROVE BoughtIn(sent', t) <= Limit
      OBVIOUS
    <2>1. /\ BoughtIn(sent', t) = BoughtIn(sent, t) + Cost(o, t)
          /\ BoughtIn(sent, t) \in Int
          /\ (\A i \in DOMAIN sent : sent[i].decision.ticker # t) => BoughtIn(sent, t) = 0
      BY <1>1, BoughtMore
    <2>2. BoughtIn(sent, t) <= Limit
      BY DEF IInv, SentSound, Bought, BoughtIn
    <2>3. CASE d.ticker = t /\ d.side = "buy"
      <3>1. Cost(o, t) = d.shares * d.price
        BY <1>1, <1>3, <2>3 DEF Cost
      <3>2. d.shares * d.price <= Limit
        BY <2>3 DEF BuySound
      <3>3. BoughtIn(sent, t) = 0
        BY <2>1, <2>3
      <3> DEFINE c == d.shares * d.price
      <3>4. c \in Int
        <4>1. d.price \in Prices /\ d.shares \in Nat
          BY DEF DecisionRecord
        <4>2. d.price \in Int /\ d.shares \in Int
          BY <4>1, PriceFacts
        <4> QED BY <4>2
      <3> HIDE DEF c
      <3>5. Cost(o, t) = c /\ c <= Limit
        BY <3>1, <3>2 DEF c
      <3> QED BY <2>1, <3>3, <3>4, <3>5
    <2>4. CASE ~(d.ticker = t /\ d.side = "buy")
      <3>1. Cost(o, t) = 0
        BY <1>1, <2>4 DEF Cost
      <3> QED BY <2>1, <2>2, <3>1
    <2> QED BY <2>3, <2>4
  <1>7. SentSound'
    BY <1>4, <1>5, <1>6 DEF SentSound, Bought, BoughtIn
  <1> QED BY <1>3, <1>7

LEMMA ExecuteKeepsIInv ==
  ASSUME IInv, NEW price \in FillPrices, ExecuteNext(price)
  PROVE  IInv'
  <1> DEFINE d == todo[1]
             rest == Tail(todo)
             qty == OrderQty(d.notional, d.price)
             o == [decision |-> d, qty |-> qty]
  <1>1. /\ todo \in Seq(DecisionRecord) /\ todo # << >> /\ Len(todo) \in Nat /\ 1 \in DOMAIN todo
        /\ d \in DecisionRecord /\ Head(todo) = d
        /\ rest \in Seq(DecisionRecord)
        /\ \A i \in DOMAIN rest : i \in Nat /\ i + 1 \in DOMAIN todo /\ i + 1 # 1
                                 /\ rest[i] = todo[i + 1]
        /\ \A i \in DOMAIN todo : i # 1 => i - 1 \in DOMAIN rest /\ rest[i - 1] = todo[i]
    <2>1. todo \in Seq(DecisionRecord) /\ todo # << >>
      BY DEF IInv, TypeOK, ExecuteNext
    <2>2. /\ Len(todo) \in Nat /\ Len(todo) > 0 /\ DOMAIN todo = 1..Len(todo)
          /\ Head(todo) = d /\ d \in DecisionRecord
      BY <2>1
    <2>3. /\ rest \in Seq(DecisionRecord) /\ Len(rest) = Len(todo) - 1
          /\ DOMAIN rest = 1..Len(rest)
          /\ \A i \in 1..Len(rest) : rest[i] = todo[i + 1]
      BY <2>1
    <2> HIDE DEF d, rest
    <2>4. \A i \in 1..Len(rest) : i + 1 \in 1..Len(todo) /\ i + 1 # 1
      BY <2>2, <2>3
    <2>5. \A i \in 1..Len(todo) : i # 1 => i - 1 \in 1..Len(rest) /\ (i - 1) + 1 = i
      BY <2>2, <2>3
    <2>6. 1 \in 1..Len(todo)
      BY <2>2
    <2> QED BY <2>1, <2>2, <2>3, <2>4, <2>5, <2>6
  <1>2. /\ phase = "execute" /\ todo' = rest
        /\ UNCHANGED <<now, cycles, snapshots, halted, phase, open, quote>>
        /\ \/ qty <= 0 /\ UNCHANGED <<cash, positions, closed, history, sent>>
           \/ ~(qty <= 0) /\ sent' = Append(sent, o) /\ \E n \in 0..qty : Settle(d, n, price)
    BY <1>1 DEF ExecuteNext, book, clock
  <1>3. /\ d.notional = Notional(d.shares, d.price)
        /\ d.side = "sell" => SellSound(d)
        /\ d.side = "buy" => BuySound(d)
        /\ \A i \in DOMAIN rest : rest[i].ticker # d.ticker
        /\ \A i \in DOMAIN sent : sent[i].decision.ticker # d.ticker
    <2>1. TodoSound
      BY DEF IInv
    <2>2. \A i \in DOMAIN rest : rest[i].ticker # d.ticker
      BY <1>1, <2>1 DEF TodoSound
    <2> QED BY <1>1, <2>1, <2>2 DEF TodoSound
  <1>4. /\ d.ticker \in Ticker /\ d.side \in {"buy", "sell"} /\ d.shares \in Nat \ {0}
        /\ d.price \in Prices /\ d.notional \in Nat
    BY <1>1 DEF DecisionRecord
  <1>5. qty \in Nat
    <2> HIDE DEF d
    <2>1. d.price \in Nat \ {0}
      BY <1>4, PriceFacts
    <2> QED BY <1>4, <2>1, OrderQtyType
  <1> HIDE DEF d, rest, qty
  <1>6. \A i \in DOMAIN rest :
           /\ rest[i].ticker \in Ticker /\ rest[i].ticker # d.ticker
           /\ rest[i].notional = Notional(rest[i].shares, rest[i].price)
           /\ rest[i].side = "sell" => SellSound(rest[i])
           /\ rest[i].side = "buy" => BuySound(rest[i])
           /\ \A j \in DOMAIN sent : sent[j].decision.ticker # rest[i].ticker
    <2> SUFFICES ASSUME NEW i \in DOMAIN rest
                 PROVE  /\ rest[i].ticker \in Ticker /\ rest[i].ticker # d.ticker
                        /\ rest[i].notional = Notional(rest[i].shares, rest[i].price)
                        /\ rest[i].side = "sell" => SellSound(rest[i])
                        /\ rest[i].side = "buy" => BuySound(rest[i])
                        /\ \A j \in DOMAIN sent : sent[j].decision.ticker # rest[i].ticker
      OBVIOUS
    <2>1. i + 1 \in DOMAIN todo /\ rest[i] = todo[i + 1] /\ rest[i] \in DecisionRecord
      BY <1>1
    <2>2. rest[i].ticker \in Ticker
      BY <2>1 DEF DecisionRecord
    <2> QED BY <1>3, <2>1, <2>2 DEF IInv, TodoSound
  <1>7. \A i, j \in DOMAIN rest : rest[i].ticker = rest[j].ticker => i = j
    <2> SUFFICES ASSUME NEW i \in DOMAIN rest, NEW j \in DOMAIN rest,
                        rest[i].ticker = rest[j].ticker
                 PROVE  i = j
      OBVIOUS
    <2>1. /\ i \in Nat /\ i + 1 \in DOMAIN todo /\ rest[i] = todo[i + 1]
          /\ j \in Nat /\ j + 1 \in DOMAIN todo /\ rest[j] = todo[j + 1]
      BY <1>1
    <2>2. \A a, b \in DOMAIN todo : todo[a].ticker = todo[b].ticker => a = b
      BY DEF IInv, TodoSound
    <2>3. i + 1 = j + 1
      BY <2>1, <2>2
    <2> QED BY <2>1, <2>3
  <1>8. /\ cash' \in Int
        /\ positions' \in [Ticker -> Position \cup {Flat}]
        /\ closed' \in [Days -> Int]
        /\ history' \in [Ticker -> [seen : SUBSET Prices, takes : Nat]]
        /\ HistoryKept'
        /\ \A t \in Ticker : t # d.ticker => /\ positions'[t] = positions[t]
                                             /\ history'[t] = history[t]
        /\ d.side = "sell" => Held' \subseteq Held
        /\ d.side = "sell" => positions'[d.ticker].qty <= positions[d.ticker].qty
    <2>1. CASE qty <= 0 /\ UNCHANGED <<cash, positions, closed, history, sent>>
      <3>1. Held' = Held
        BY <2>1 DEF Held
      <3>2. HistoryKept'
        BY <2>1, HistoryFrame DEF IInv
      <3>3. d.side = "sell" => positions[d.ticker].qty \in Nat
        BY <1>3, <1>4 DEF SellSound, IInv, TypeOK, Position
      <3> QED BY <2>1, <3>1, <3>2, <3>3 DEF IInv, TypeOK, Days
    <2>2. CASE sent' = Append(sent, o) /\ \E n \in 0..qty : Settle(d, n, price)
      <3>1. PICK n \in 0..qty : Settle(d, n, price)
        BY <2>2
      <3>2. n \in Nat
        BY <1>5
      <3>3. d.side = "sell" => SellIn(positions, d)
        BY <1>3 DEF SellSound, SellsAll, SellIn
      <3>4. d.side = "buy" => d.ticker \notin Held
        BY <1>3 DEF BuySound
      <3> QED BY <1>1, <3>1, <3>2, <3>3, <3>4, SettleFacts
    <2> QED BY <1>2, <2>1, <2>2
  <1>9. /\ Held' \subseteq Held \cup {d.ticker}
        /\ \A t \in Ticker : t # d.ticker => (t \in Held' <=> t \in Held)
    BY <1>8 DEF Held
  <1>10. /\ sent' \in Seq([decision : DecisionRecord, qty : Nat])
         /\ SentSound'
         /\ \A i \in DOMAIN sent' : \/ sent'[i].decision = d
                                    \/ i \in DOMAIN sent /\ sent'[i] = sent[i]
         /\ \A i \in DOMAIN sent : i \in DOMAIN sent' /\ sent'[i] = sent[i]
         /\ SharesCostACent =>
               \E i \in DOMAIN sent' : sent'[i].decision = d /\ sent'[i].qty = d.shares
    <2>1. sent \in Seq([decision : DecisionRecord, qty : Nat])
      BY DEF IInv, TypeOK
    <2>2. SharesCostACent => qty = d.shares
      <3> SUFFICES ASSUME SharesCostACent PROVE qty = d.shares
        OBVIOUS
      <3>1. d.price \in Nat /\ d.price >= Cent /\ d.shares \in Nat
        BY <1>4, PriceFacts DEF SharesCostACent
      <3> QED BY <1>3, <3>1, OrderSizeRecovered DEF qty
    <2>3. CASE qty <= 0 /\ UNCHANGED <<cash, positions, closed, history, sent>>
      <3>1. SentSound'
        BY <1>2, <2>3 DEF IInv, SentSound, BuysAreJustified, Justified, Bought
      <3>2. ~SharesCostACent
        BY <1>4, <1>5, <2>2, <2>3
      <3> QED BY <2>1, <2>3, <3>1, <3>2
    <2>4. CASE sent' = Append(sent, o)
      <3>1. o \in [decision : DecisionRecord, qty : Nat]
        BY <1>1, <1>5
      <3>2. qty = OrderQty(d.notional, d.price)
        BY DEF qty
      <3>3. SentSound'
        BY <1>1, <1>2, <1>3, <1>5, <2>4, <3>2, NextSent
      <3>4. o.decision = d /\ o.qty = qty
        OBVIOUS
      <3> DEFINE R == [decision : DecisionRecord, qty : Nat]
      <3> HIDE DEF o, R
      <3>5. sent \in Seq(R) /\ o \in R
        BY <2>1, <3>1 DEF R
      <3>6. /\ sent' \in Seq(R) /\ DOMAIN sent' = DOMAIN sent \cup {Len(sent) + 1}
            /\ sent'[Len(sent) + 1] = o /\ \A i \in DOMAIN sent : sent'[i] = sent[i]
        BY <2>4, <3>5
      <3>7. /\ \A i \in DOMAIN sent' : \/ sent'[i].decision = d
                                       \/ i \in DOMAIN sent /\ sent'[i] = sent[i]
            /\ \A i \in DOMAIN sent : i \in DOMAIN sent' /\ sent'[i] = sent[i]
            /\ SharesCostACent =>
                  \E i \in DOMAIN sent' : sent'[i].decision = d /\ sent'[i].qty = d.shares
        BY <2>2, <3>4, <3>6
      <3> QED BY <3>3, <3>6, <3>7 DEF R
    <2> QED BY <1>2, <2>3, <2>4
  <1>11. TypeOK'
    BY <1>1, <1>2, <1>8, <1>10 DEF IInv, TypeOK, Days, Quotes
  <1>12. PeakKept'
    BY <1>2, PeakFrame DEF IInv
  <1>13. PhaseSound'
    BY <1>2 DEF PhaseSound
  <1>14. TodoSound'
    <2>1. ASSUME NEW i \in DOMAIN rest
          PROVE  /\ rest[i].notional = Notional(rest[i].shares, rest[i].price)
                 /\ rest[i].side = "sell" => SellIn(positions', rest[i])
                 /\ rest[i].side = "buy" => BuyIn(Held', quote', rest[i])
      <3>1. positions'[rest[i].ticker] = positions[rest[i].ticker]
        BY <1>6, <1>8
      <3>2. rest[i].ticker \in Held' <=> rest[i].ticker \in Held
        BY <1>6, <1>9
      <3>3. rest[i].side = "sell" => SellIn(positions', rest[i])
        BY <1>6, <3>1 DEF SellSound, SellsAll, SellIn
      <3>4. rest[i].side = "buy" => BuyIn(Held', quote', rest[i])
        BY <1>2, <1>6, <3>2 DEF BuySound, BuyIn
      <3> QED BY <1>6, <3>3, <3>4
    <2>2. \A i \in DOMAIN sent', j \in DOMAIN rest : sent'[i].decision.ticker # rest[j].ticker
      BY <1>6, <1>10
    <2> QED BY <1>2, <1>7, <2>1, <2>2, TodoSoundNext
  <1>15. PositionsFit'
    <2>1. Buying' \subseteq Buying
      <3>1. \A i \in DOMAIN rest : \E j \in DOMAIN todo : todo[j] = rest[i]
        BY <1>1
      <3> QED BY <1>2, <3>1 DEF Buying
    <2>2. d.side = "buy" => d.ticker \in Buying
      BY <1>1 DEF Buying, d
    <2>3. (Held \cup Buying)' \subseteq Held \cup Buying
      <3>1. CASE d.side = "buy"
        BY <1>9, <2>1, <2>2, <3>1
      <3>2. CASE d.side = "sell"
        BY <1>8, <2>1, <3>2
      <3> QED BY <1>4, <3>1, <3>2
    <2>4. IsFiniteSet(Held \cup Buying)
      <3>1. \A i \in DOMAIN todo : todo[i] \in DecisionRecord
        BY <1>1
      <3>2. \A i \in DOMAIN todo : todo[i].ticker \in Ticker
        BY <3>1 DEF DecisionRecord
      <3>3. Held \cup Buying \subseteq Ticker
        BY <3>2 DEF Held, Buying
      <3> QED BY <3>3, TickerFacts, FS_Subset
    <2>5. /\ Cardinality((Held \cup Buying)') <= Cardinality(Held \cup Buying)
          /\ Cardinality((Held \cup Buying)') \in Nat /\ Cardinality(Held \cup Buying) \in Nat
      BY <2>3, <2>4, FS_Subset, FS_CardinalityType
    <2> QED BY <2>5, RuleTypes DEF IInv, PositionsFit
  <1>16. ExitsPending'
    <2> SUFFICES ASSUME SharesCostACent, open', NEW t \in (DOMAIN quote \cap Held)',
                        quote'[t] # Unpriced, Due(t)'
                 PROVE  SellSent(t)' \/ SellPending(t)'
      BY DEF ExitsPending
    <2>1. t \in DOMAIN quote /\ quote[t] # Unpriced /\ open /\ t \in Held' /\ t \in Ticker
      BY <1>2 DEF Held
    <2>2. CASE t = d.ticker
      <3>1. d.side = "sell"
        BY <1>3, <1>4, <2>1, <2>2 DEF BuySound
      <3>2. PICK i \in DOMAIN sent' : sent'[i].decision = d /\ sent'[i].qty = d.shares
        BY <1>10
      <3>3. d.shares >= positions[t].qty \/ d.reason = "partial_take_profit"
        BY <1>3, <2>2, <3>1 DEF SellSound, SellsAll
      <3>4. positions'[t].qty <= positions[t].qty
        BY <1>8, <2>2, <3>1
      <3>5. positions[t].qty \in Nat /\ positions'[t].qty \in Nat /\ d.shares \in Nat
        <4>1. Flat.qty \in Nat
          BY DEF Flat
        <4>2. \A p \in Position : p.qty \in Nat
          BY DEF Position
        <4> QED BY <1>4, <1>8, <2>1, <4>1, <4>2 DEF IInv, TypeOK
      <3>6. d.shares >= positions'[t].qty \/ d.reason = "partial_take_profit"
        BY <3>3, <3>4, <3>5
      <3> QED BY <2>2, <3>1, <3>2, <3>6 DEF SellSent
    <2>3. CASE t # d.ticker
      <3>1. positions'[t] = positions[t] /\ history'[t] = history[t] /\ t \in Held
        BY <1>8, <1>9, <2>1, <2>3
      <3>2. Due(t)
        BY <1>2, <3>1 DEF Due, HoldingDays
      <3>3. SellSent(t) \/ SellPending(t)
        BY <1>2, <2>1, <3>1, <3>2 DEF IInv, ExitsPending
      <3>4. CASE SellSent(t)
        BY <1>10, <3>1, <3>4 DEF SellSent
      <3>5. CASE SellPending(t)
        <4>1. PICK i \in DOMAIN todo :
                 todo[i].ticker = t /\ todo[i].side = "sell" /\ SellsAll(todo[i])
          BY <3>5 DEF SellPending
        <4>2. i # 1
          BY <2>3, <4>1 DEF d
        <4>3. i - 1 \in DOMAIN rest /\ rest[i - 1] = todo[i]
          BY <1>1, <4>1, <4>2
        <4> QED BY <1>2, <3>1, <4>1, <4>3 DEF SellPending, SellsAll
      <3> QED BY <3>3, <3>4, <3>5
    <2> QED BY <2>2, <2>3
  <1> QED BY <1>8, <1>10, <1>11, <1>12, <1>13, <1>14, <1>15, <1>16 DEF IInv

\* A step that changes nothing.
LEMMA StutterKeepsIInv ==
  ASSUME IInv, UNCHANGED vars
  PROVE  IInv'
  <1>1. UNCHANGED <<cash, positions, closed, now, cycles, snapshots, halted, phase, open, quote,
                    todo, sent, history>>
    BY DEF vars, book, clock
  <1>2. Held' = Held
    BY <1>1 DEF Held
  <1>3. HistoryKept' /\ PeakKept'
    BY <1>1, HistoryFrame, PeakFrame DEF IInv
  <1>4. TypeOK'
    BY <1>1 DEF IInv, TypeOK, Days, Quotes
  <1>5. PhaseSound'
    BY <1>1, <1>2 DEF IInv, PhaseSound
  <1>6. TodoSound'
    BY <1>1, <1>2 DEF IInv, TodoSound, SellSound, SellsAll, BuySound, Justified
  <1>7. SentSound'
    BY <1>1 DEF IInv, SentSound, BuysAreJustified, Justified, Bought
  <1>8. PositionsFit'
    BY <1>1, <1>2 DEF IInv, PositionsFit, Buying
  <1>9. ExitsPending'
    BY <1>1, <1>2 DEF IInv, ExitsPending, Due, HoldingDays, SellSent, SellPending, SellsAll
  <1> QED BY <1>3, <1>4, <1>5, <1>6, <1>7, <1>8, <1>9 DEF IInv

-------------------------------------------------------------------------------
(***************************************************************************)
(* The theorems.                                                           *)
(***************************************************************************)

\* IInv holds of every reachable state, for every rule set and all prices.
THEOREM PortfolioInvariant == Spec => []IInv
  <1>1. Init => IInv
    BY InitialState
  <1>2. IInv /\ [Next]_vars => IInv'
    <2> SUFFICES ASSUME IInv, [Next]_vars PROVE IInv'
      OBVIOUS
    <2>1. ASSUME NEW prices \in [Held -> Quotes], NEW isOpen \in BOOLEAN,
                 EvaluateHoldings(prices, isOpen)
          PROVE  IInv'
      BY <2>1, HoldingsKeepIInv
    <2>2. CASE EvaluateRisk
      BY <2>2, RiskKeepsIInv
    <2>3. CASE AccountUnavailable
      BY <2>3, EndKeepsIInv DEF AccountUnavailable
    <2>4. ASSUME NEW price \in [Candidates -> Quotes],
                 NEW answer \in BoundedSeq(Ticker, MaxProposals), EvaluateCandidates(price, answer)
          PROVE  IInv'
      BY <2>4, CandidatesKeepIInv
    <2>5. ASSUME NEW price \in FillPrices, ExecuteNext(price) PROVE IInv'
      BY <2>5, ExecuteKeepsIInv
    <2>6. CASE Finish
      BY <2>6, EndKeepsIInv DEF Finish
    <2>7. CASE Resume
      BY <2>7, ResumeKeepsIInv
    <2>8. CASE Tick
      BY <2>8, TickKeepsIInv
    <2>9. CASE UNCHANGED vars
      BY <2>9, StutterKeepsIInv
    <2> QED BY <2>1, <2>2, <2>3, <2>4, <2>5, <2>6, <2>7, <2>8, <2>9 DEF Next
  <1> QED BY <1>1, <1>2, PTL DEF Spec

\* The tables and the locals have their values, and an open position has shares and
\* a watermark.
THEOREM PortfolioTypeCorrect == Spec => []TypeOK
  <1>1. IInv => TypeOK
    BY DEF IInv
  <1> QED BY <1>1, PortfolioInvariant, PTL

\* R-19: the peak that a drawdown is measured from is the highest equity of the
\* snapshots up to its day, and no row overwritten during a day loses it.
THEOREM PeakIsHighestEquity == Spec => []PeakIsRunningMax
  <1>1. IInv => PeakIsRunningMax
    <2> SUFFICES ASSUME IInv, NEW d \in DOMAIN snapshots
                 PROVE  snapshots[d].peak = Max(EquitiesTo(d))
      BY DEF PeakIsRunningMax
    <2>1. /\ Rule.capital \in Int
          /\ \A e \in DOMAIN snapshots : snapshots[e].equity \in Int
      BY RuleTypes DEF IInv, TypeOK
    <2>2. EquitiesTo(d) \in SUBSET Int
      BY <2>1 DEF EquitiesTo
    <2>3. /\ snapshots[d].peak \in EquitiesTo(d)
          /\ \A x \in EquitiesTo(d) : x <= snapshots[d].peak
      BY DEF IInv, PeakKept
    <2> QED BY <2>2, <2>3, MaxIs
  <1> QED BY <1>1, PortfolioInvariant, PTL

\* R-13: a position takes its partial profit at most once, however its orders fill.
THEOREM PartialProfitOnce == Spec => []TakeProfitOnce
  <1>1. IInv => TakeProfitOnce
    BY DEF IInv, HistoryKept, TakeProfitOnce
  <1> QED BY <1>1, PortfolioInvariant, PTL

\* R-4, R-6, R-7: whatever the LLM answers, nothing is bought that was not mentioned
\* lately, that is excluded, or that is too thin.
THEOREM NothingUnjustifiedBought == Spec => []BuysAreJustified
  <1>1. IInv => BuysAreJustified
    BY DEF IInv, SentSound
  <1> QED BY <1>1, PortfolioInvariant, PTL

\* R-12: an order is for exactly the shares decided on, and sells no more than is
\* held, where a share costs a cent or more.
THEOREM OrdersAreForTheDecision ==
  ASSUME SharesCostACent PROVE Spec => []OrdersMatchDecisions
  <1>1. IInv => OrdersMatchDecisions
    BY DEF IInv, SentSound, TodoSound, SellSound, OrdersMatchDecisions
  <1> QED BY <1>1, PortfolioInvariant, PTL

\* R-12: what a cycle orders of a ticker stays within the limit, and what is held
\* within the slots, whatever the LLM repeats.
THEOREM BuysStayWithinLimits ==
  ASSUME SharesCostACent PROVE Spec => []BuysWithinLimits
  <1>1. IInv => BuysWithinLimits
    BY HeldFit DEF IInv, SentSound, BuysWithinLimits
  <1> QED BY <1>1, PortfolioInvariant, PTL

\* R-13: a cycle that reaches its order loop in an open market has sent, when the
\* loop ends, a sell for every position that is due.
THEOREM DueExitsAreSent ==
  ASSUME SharesCostACent PROVE Spec => []ExitsAreSent
  <1>1. IInv => ExitsAreSent
    <2> SUFFICES ASSUME IInv, phase = "execute", todo = << >>, open,
                        NEW t \in DOMAIN quote \cap Held, quote[t] # Unpriced, Due(t)
                 PROVE  SellSent(t)
      BY DEF ExitsAreSent
    <2>1. SellSent(t) \/ SellPending(t)
      BY DEF IInv, ExitsPending
    <2>2. ~SellPending(t)
      BY DEF SellPending
    <2> QED BY <2>1, <2>2
  <1> QED BY <1>1, PortfolioInvariant, PTL
===============================================================================
