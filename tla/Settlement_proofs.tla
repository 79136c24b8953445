--------------------------- MODULE Settlement_proofs ---------------------------
(***************************************************************************)
(* IInv is an inductive invariant of the settlement of a ticker: the fills *)
(* table, the positions row, the trades and the broker agree on the shares *)
(* and, up to the roundings, on the money, for every lot, every price and  *)
(* however the polls cut the fills.                                        *)
(***************************************************************************)
EXTENDS SettlementSafety, Arithmetic_proofs

-------------------------------------------------------------------------------
(***************************************************************************)
(* The replay.                                                             *)
(***************************************************************************)

\* The equations of the replay.
LEMMA ReplayedDef ==
  ASSUME NEW rows, Len(rows) \in Nat
  PROVE  \A n \in 0..Len(rows) :
            Replayed(rows)[n] = IF n = 0 THEN NoReplay
                                ELSE ReplayRow(Replayed(rows)[n - 1], rows[n])
  <1> DEFINE Step(g, n) == IF n = 0 THEN NoReplay ELSE ReplayRow(g[n - 1], rows[n])
             IsReplay(g, m) == g = [n \in 0..m |-> Step(g, n)]
             S == {m \in Nat : \E g : IsReplay(g, m)}
  <1>1. 0 \in S
    <2> DEFINE g == [n \in 0..0 |-> NoReplay]
    <2>1. g = [n \in 0..0 |-> Step(g, n)]
      OBVIOUS
    <2> QED BY <2>1
  <1>2. \A m \in Nat : m \in S => m + 1 \in S
    <2> SUFFICES ASSUME NEW m \in Nat, m \in S PROVE \E g : IsReplay(g, m + 1)
      OBVIOUS
    <2>1. PICK g : IsReplay(g, m)
      OBVIOUS
    <2> DEFINE h == [n \in 0..(m + 1) |-> Step(g, n)]
    <2>2. \A n \in 0..m : h[n] = g[n]
      BY <2>1
    <2>3. \A n \in 0..(m + 1) : Step(h, n) = Step(g, n)
      <3> HIDE DEF h
      <3> SUFFICES ASSUME NEW n \in 0..(m + 1), n # 0 PROVE h[n - 1] = g[n - 1]
        OBVIOUS
      <3>1. n - 1 \in 0..m
        OBVIOUS
      <3> QED BY <3>1, <2>2
    <2>4. h = [n \in 0..(m + 1) |-> Step(h, n)]
      <3>1. h = [n \in 0..(m + 1) |-> Step(g, n)]
        OBVIOUS
      <3> HIDE DEF h, Step
      <3> QED BY <2>3, <3>1
    <2> QED BY <2>4
  <1>3. PICK g : IsReplay(g, Len(rows))
    <2> HIDE DEF S
    <2>1. Len(rows) \in S
      BY <1>1, <1>2, SetInduction
    <2> QED BY <2>1 DEF S
  <1>4. Replayed(rows) = CHOOSE u : IsReplay(u, Len(rows))
    BY DEF Replayed
  <1>5. IsReplay(Replayed(rows), Len(rows))
    BY <1>3, <1>4
  <1> QED BY <1>5

\* The replay of no rows.
LEMMA ReplayEmpty == Replay(<< >>) = NoReplay
  <1>1. Len(<< >>) = 0 /\ 0 \in 0..0
    OBVIOUS
  <1> QED BY <1>1, ReplayedDef DEF Replay

\* The bookkeeping after one row more.
LEMMA ReplayStep ==
  ASSUME NEW rows, Len(rows) \in Nat, NEW n \in Nat, n + 1 <= Len(rows)
  PROVE  Replayed(rows)[n + 1] = ReplayRow(Replayed(rows)[n], rows[n + 1])
  <1>1. n + 1 \in 0..Len(rows) /\ n + 1 # 0 /\ (n + 1) - 1 = n
    OBVIOUS
  <1>2. Replayed(rows)[n + 1] = IF n + 1 = 0 THEN NoReplay
                                ELSE ReplayRow(Replayed(rows)[(n + 1) - 1], rows[n + 1])
    BY <1>1, ReplayedDef
  <1> QED BY <1>1, <1>2

\* A row more is replayed last.
LEMMA ReplayLonger ==
  ASSUME NEW S, NEW f \in Seq(S), NEW g \in Seq(S), Len(g) = Len(f) + 1,
         \A i \in 1..Len(f) : g[i] = f[i]
  PROVE  Replay(g) = ReplayRow(Replay(f), g[Len(g)])
  <1> DEFINE T == {n \in Nat : n <= Len(f) => Replayed(f)[n] = Replayed(g)[n]}
  <1>1. 0 \in T
    BY ReplayedDef
  <1>2. \A n \in Nat : n \in T => n + 1 \in T
    <2> SUFFICES ASSUME NEW n \in Nat, n \in T, n + 1 <= Len(f)
                 PROVE  Replayed(f)[n + 1] = Replayed(g)[n + 1]
      OBVIOUS
    <2>0. /\ n + 1 \in 0..Len(f) /\ n + 1 \in 0..Len(g) /\ n + 1 \in 1..Len(f)
          /\ n + 1 # 0 /\ (n + 1) - 1 = n
      OBVIOUS
    <2>1. Replayed(f)[n + 1] = ReplayRow(Replayed(f)[n], f[n + 1])
      BY <2>0, ReplayStep
    <2>2. Replayed(g)[n + 1] = ReplayRow(Replayed(g)[n], g[n + 1])
      BY <2>0, ReplayStep
    <2> QED BY <2>0, <2>1, <2>2
  <1> HIDE DEF T
  <1>3. \A n \in Nat : n \in T
    BY <1>1, <1>2, SetInduction
  <1>4. Replayed(f)[Len(f)] = Replayed(g)[Len(f)]
    BY <1>3 DEF T
  <1>5. Len(f) \in Nat /\ Len(g) \in Nat
    OBVIOUS
  <1>6. Replayed(g)[Len(f) + 1] = ReplayRow(Replayed(g)[Len(f)], g[Len(f) + 1])
    BY <1>5, ReplayStep
  <1> QED BY <1>4, <1>6 DEF Replay

\* The rows since the position opened, when a row is added: those there were, and
\* the row; all of them but the row are the prior fills of its settlement.
LEMMA Windows ==
  ASSUME NEW S, NEW rows \in Seq(S), NEW f \in S, NEW k \in 1..Len(rows)
  PROVE  LET g == Append(rows, f)
         IN  /\ Replay(FillsSince(g, k)) = ReplayRow(Replay(FillsSince(rows, k)), f)
             /\ PriorFills(g, k) = FillsSince(rows, k)
  <1> DEFINE g == Append(rows, f)
             old == FillsSince(rows, k)
             new == FillsSince(g, k)
  <1>1. /\ g \in Seq(S) /\ Len(g) = Len(rows) + 1 /\ g[Len(g)] = f
        /\ \A i \in 1..Len(rows) : g[i] = rows[i]
    OBVIOUS
  <1> HIDE DEF g
  <1>2. /\ old \in Seq(S) /\ Len(old) = Len(rows) - k + 1
        /\ \A i \in 1..Len(old) : old[i] = rows[k + i - 1]
    BY DEF FillsSince
  <1>3. /\ new \in Seq(S) /\ Len(new) = Len(rows) - k + 2
        /\ \A i \in 1..Len(new) : new[i] = g[k + i - 1]
    BY <1>1 DEF FillsSince
  <1>4. /\ PriorFills(g, k) \in Seq(S) /\ Len(PriorFills(g, k)) = Len(rows) - k + 1
        /\ \A i \in 1..Len(PriorFills(g, k)) : PriorFills(g, k)[i] = g[k + i - 1]
    BY <1>1 DEF PriorFills
  <1> HIDE DEF old, new
  <1>5. \A i \in 1..Len(old) : k + i - 1 \in 1..Len(rows) /\ i \in 1..Len(new)
    BY <1>2, <1>3
  <1>6. \A i \in 1..Len(old) : new[i] = old[i]
    BY <1>1, <1>2, <1>3, <1>5
  <1>7. Len(new) = Len(old) + 1
    BY <1>2, <1>3
  <1>8. new[Len(new)] = f
    <2>1. Len(new) \in 1..Len(new) /\ k + Len(new) - 1 = Len(g)
      BY <1>1, <1>3
    <2> QED BY <2>1, <1>1, <1>3
  <1>9. Replay(new) = ReplayRow(Replay(old), new[Len(new)])
    BY <1>2, <1>3, <1>6, <1>7, ReplayLonger
  <1>10. PriorFills(g, k) = old
    <2> DEFINE h == PriorFills(g, k)
    <2> HIDE DEF h
    <2>1. h \in Seq(S) /\ Len(h) = Len(old) /\ \A i \in 1..Len(old) : h[i] = old[i]
      BY <1>1, <1>2, <1>4, <1>5 DEF h
    <2>2. h = old
      BY <2>1, <1>2
    <2> QED BY <2>2 DEF h
  <1> QED BY <1>8, <1>9, <1>10 DEF g, old, new

\* A position that opens with a row is the replay of that row.
LEMMA OpeningWindow ==
  ASSUME NEW S, NEW rows \in Seq(S), NEW f \in S
  PROVE  LET g == Append(rows, f)
         IN  Replay(FillsSince(g, Len(g))) = ReplayRow(NoReplay, f)
  <1> DEFINE g == Append(rows, f)
             new == FillsSince(g, Len(g))
  <1>1. g \in Seq(S) /\ Len(g) \in Nat \ {0} /\ g[Len(g)] = f
    OBVIOUS
  <1> HIDE DEF g
  <1>2. new \in Seq(S) /\ Len(new) = 1 /\ new[1] = f
    BY <1>1 DEF FillsSince
  <1>3. << >> \in Seq(S) /\ Len(<< >>) = 0
    OBVIOUS
  <1> HIDE DEF new
  <1>4. Replay(new) = ReplayRow(Replay(<< >>), new[Len(new)])
    <2>1. Len(new) = Len(<< >>) + 1 /\ \A i \in 1..Len(<< >>) : new[i] = << >>[i]
      BY <1>2, <1>3
    <2> QED BY <2>1, <1>2, <1>3, ReplayLonger
  <1> QED BY <1>2, <1>4, ReplayEmpty DEF new, g

-------------------------------------------------------------------------------
(***************************************************************************)
(* The sums over the tables.                                               *)
(***************************************************************************)

CashOf(rows) == Total([i \in DOMAIN rows |-> CashFlow(rows[i])])
SlackOf(rows) == Total([i \in DOMAIN rows |-> Slack(rows[i])])
PnlOf(rows) == Total([i \in DOMAIN rows |-> rows[i].pnl])
PartOf(f, id) == IF f.order = id THEN f.qty * f.price ELSE 0
NotionalOf(rows, id) == Total([i \in DOMAIN rows |-> PartOf(rows[i], id)])

\* The sums of the safety properties, as functions of the tables.
LEMMA SumsOfTables ==
  /\ Cash = CashOf(fills) /\ TotalSlack = SlackOf(fills) /\ ClosedPnl = PnlOf(trades)
  /\ \A id : OrderNotional(id) = NotionalOf(fills, id)
  BY DEF Cash, TotalSlack, ClosedPnl, OrderNotional, CashOf, SlackOf, PnlOf, NotionalOf,
         PartOf

\* What a row adds is a number.
LEMMA RowNumbers ==
  ASSUME NEW f \in Fill
  PROVE  CashFlow(f) \in Int /\ Slack(f) \in Int /\ \A id : PartOf(f, id) \in Int
  BY SettlementAssumption DEF Fill, CashFlow, Slack, PartOf, Cent

\* The notional of an order is a number.
LEMMA NotionalType ==
  ASSUME NEW rows \in Seq(Fill), NEW id
  PROVE  NotionalOf(rows, id) \in Int
  <1> DEFINE V == [i \in DOMAIN rows |-> PartOf(rows[i], id)]
  <1>0. \A i \in 1..Len(rows) : PartOf(rows[i], id) \in Int
    BY RowNumbers
  <1>1. V \in Seq(Int) /\ Len(V) = Len(rows)
    BY <1>0
  <1>2. Len(rows) \in 0..Len(rows)
    OBVIOUS
  <1> HIDE DEF V
  <1>3. Running(V)[Len(V)] \in Int
    BY <1>1, <1>2, TotalType
  <1> QED BY <1>3 DEF V, NotionalOf, Total

\* What the sums become when a row is added, and that they are numbers.
LEMMA RowAdded ==
  ASSUME NEW rows \in Seq(Fill), NEW f \in Fill
  PROVE  /\ CashOf(rows) \in Int /\ CashFlow(f) \in Int
         /\ CashOf(Append(rows, f)) = CashOf(rows) + CashFlow(f)
         /\ SlackOf(rows) \in Int /\ Slack(f) \in Int
         /\ SlackOf(Append(rows, f)) = SlackOf(rows) + Slack(f)
         /\ \A id : /\ NotionalOf(rows, id) \in Int /\ PartOf(f, id) \in Int
                    /\ NotionalOf(Append(rows, f), id) = NotionalOf(rows, id) + PartOf(f, id)
  <1> DEFINE g == Append(rows, f)
  <1>1. /\ g \in Seq(Fill) /\ Len(g) = Len(rows) + 1 /\ g[Len(g)] = f
        /\ \A i \in 1..Len(rows) : g[i] = rows[i] /\ i \in DOMAIN g
    OBVIOUS
  <1> HIDE DEF g
  <1>2. CashOf(rows) \in Int /\ CashOf(g) = CashOf(rows) + CashFlow(f)
    <2> DEFINE V == [i \in DOMAIN rows |-> CashFlow(rows[i])]
               W == [i \in DOMAIN g |-> CashFlow(g[i])]
    <2>1. V \in Seq(Int) /\ Len(V) = Len(rows)
      BY RowNumbers
    <2>2. W \in Seq(Int) /\ Len(W) = Len(rows) + 1 /\ W[Len(W)] = CashFlow(f)
      BY <1>1, RowNumbers
    <2>3. \A i \in 1..Len(V) : W[i] = V[i]
      BY <1>1, <2>1
    <2> HIDE DEF V, W
    <2>4. Total(V) \in Int /\ Total(W) = Total(V) + CashFlow(f)
      BY <2>1, <2>2, <2>3, TotalLonger
    <2> QED BY <2>4 DEF CashOf, V, W
  <1>3. SlackOf(rows) \in Int /\ SlackOf(g) = SlackOf(rows) + Slack(f)
    <2> DEFINE V == [i \in DOMAIN rows |-> Slack(rows[i])]
               W == [i \in DOMAIN g |-> Slack(g[i])]
    <2>1. V \in Seq(Int) /\ Len(V) = Len(rows)
      BY RowNumbers
    <2>2. W \in Seq(Int) /\ Len(W) = Len(rows) + 1 /\ W[Len(W)] = Slack(f)
      BY <1>1, RowNumbers
    <2>3. \A i \in 1..Len(V) : W[i] = V[i]
      BY <1>1, <2>1
    <2> HIDE DEF V, W
    <2>4. Total(V) \in Int /\ Total(W) = Total(V) + Slack(f)
      BY <2>1, <2>2, <2>3, TotalLonger
    <2> QED BY <2>4 DEF SlackOf, V, W
  <1>4. ASSUME NEW id
        PROVE  /\ NotionalOf(rows, id) \in Int
               /\ NotionalOf(g, id) = NotionalOf(rows, id) + PartOf(f, id)
    <2> DEFINE V == [i \in DOMAIN rows |-> PartOf(rows[i], id)]
               W == [i \in DOMAIN g |-> PartOf(g[i], id)]
    <2>1. V \in Seq(Int) /\ Len(V) = Len(rows)
      BY RowNumbers
    <2>2. W \in Seq(Int) /\ Len(W) = Len(rows) + 1 /\ W[Len(W)] = PartOf(f, id)
      BY <1>1, RowNumbers
    <2>3. \A i \in 1..Len(V) : W[i] = V[i]
      BY <1>1, <2>1
    <2> HIDE DEF V, W
    <2>4. Total(V) \in Int /\ Total(W) = Total(V) + PartOf(f, id)
      BY <2>1, <2>2, <2>3, TotalLonger
    <2> QED BY <2>4 DEF NotionalOf, V, W
  <1> QED BY <1>2, <1>3, <1>4, RowNumbers DEF g

\* What the booked profit becomes when a trade is added.
LEMMA TradeAdded ==
  ASSUME NEW rows \in Seq(Trade), NEW t \in Trade
  PROVE  /\ PnlOf(rows) \in Int /\ t.pnl \in Int
         /\ PnlOf(Append(rows, t)) = PnlOf(rows) + t.pnl
  <1> DEFINE g == Append(rows, t)
             V == [i \in DOMAIN rows |-> rows[i].pnl]
             W == [i \in DOMAIN g |-> g[i].pnl]
  <1>1. /\ g \in Seq(Trade) /\ Len(g) = Len(rows) + 1 /\ g[Len(g)] = t
        /\ \A i \in 1..Len(rows) : g[i] = rows[i] /\ i \in DOMAIN g
    OBVIOUS
  <1> HIDE DEF g
  <1>0. \A u \in Trade : u.pnl \in Int
    BY DEF Trade
  <1>2. V \in Seq(Int) /\ Len(V) = Len(rows)
    BY <1>0
  <1>3. W \in Seq(Int) /\ Len(W) = Len(rows) + 1 /\ W[Len(W)] = t.pnl /\ t.pnl \in Int
    BY <1>0, <1>1
  <1>4. \A i \in 1..Len(V) : W[i] = V[i]
    BY <1>1, <1>2
  <1> HIDE DEF V, W
  <1>5. Total(V) \in Int /\ Total(W) = Total(V) + t.pnl
    BY <1>2, <1>3, <1>4, TotalLonger
  <1> QED BY <1>3, <1>5 DEF PnlOf, V, W, g

\* An order without rows has no notional.
LEMMA NoRows ==
  ASSUME NEW rows \in Seq(Fill), NEW id, \A i \in DOMAIN rows : rows[i].order # id
  PROVE  NotionalOf(rows, id) = 0
  <1> DEFINE V == [i \in DOMAIN rows |-> PartOf(rows[i], id)]
  <1>1. V \in Seq(Int) /\ Len(V) = Len(rows)
    BY RowNumbers
  <1>2. \A i \in 1..Len(V) : V[i] = 0
    BY <1>1 DEF PartOf
  <1> HIDE DEF V
  <1>3. Total(V) = 0
    BY <1>1, <1>2, TotalZero
  <1> QED BY <1>3 DEF V, NotionalOf

-------------------------------------------------------------------------------
(***************************************************************************)
(* The roundings of a row.                                                 *)
(***************************************************************************)

\* The cost of a blended position is off by half a tick a share at most.
LEMMA BlendError ==
  ASSUME NEW q \in Nat, NEW avg \in Nat, NEW n \in Nat \ {0}, NEW p \in Nat
  PROVE  /\ Blend(q, avg, n, p) \in Nat
         /\ 2 * Abs((q + n) * Blend(q, avg, n, p) - (q * avg + n * p)) <= q + n
  <1> DEFINE x == q * avg + n * p
             d == q + n
  <1>1. x \in Nat /\ d \in Nat \ {0}
    OBVIOUS
  <1>2. Blend(q, avg, n, p) = RoundDiv(x, d)
    BY DEF Blend
  <1> HIDE DEF x, d
  <1>3. /\ RoundDiv(x, d) \in Nat
        /\ 2 * (d * RoundDiv(x, d) - x) <= d
        /\ 2 * (x - d * RoundDiv(x, d)) <= d
    BY <1>1, RoundDivError
  <1>4. PICK y \in Int : y = d * RoundDiv(x, d)
    BY <1>1, <1>3
  <1>5. 2 * Abs(d * RoundDiv(x, d) - x) <= d
    BY <1>1, <1>3, <1>4 DEF Abs
  <1> QED BY <1>2, <1>3, <1>5 DEF x, d

\* The profit of a sell is off by half a cent at most.
LEMMA PnlError ==
  ASSUME NEW p \in Nat, NEW avg \in Nat, NEW n \in Nat
  PROVE  /\ RealizedPnl(p, avg, n) \in Int
         /\ 2 * Abs(n * p - n * avg - RealizedPnl(p, avg, n)) <= Cent
  <1>1. PICK t \in Int : t = (p - avg) * n /\ t = n * p - n * avg
    OBVIOUS
  <1>2. /\ Money(t) \in Int /\ 2 * (Money(t) - t) <= Cent /\ 2 * (t - Money(t)) <= Cent
    BY MoneyError
  <1>3. 2 * Abs(t - Money(t)) <= Cent
    BY <1>2 DEF Abs, Cent
  <1> QED BY <1>1, <1>2, <1>3 DEF RealizedPnl

\* The notional of a broker's average is off by half a tick a share and half a
\* cent at most.
LEMMA NotionalError ==
  ASSUME order.filled \in Nat \ {0}, order.spent \in Nat
  PROVE  /\ CumulativeNotional \in Int
         /\ 2 * Abs(CumulativeNotional - order.spent) <= order.filled + Cent
  <1> DEFINE a == FilledAvgPrice
             t == a * order.filled
  <1>1. /\ a \in Int
        /\ 2 * (order.filled * a - order.spent) <= order.filled
        /\ 2 * (order.spent - order.filled * a) <= order.filled
    <2>1. PICK x \in Int, d \in Nat \ {0} : x = order.spent /\ d = order.filled
      OBVIOUS
    <2>2. /\ RoundDiv(x, d) \in Int
          /\ 2 * (d * RoundDiv(x, d) - x) <= d /\ 2 * (x - d * RoundDiv(x, d)) <= d
      BY RoundDivError
    <2>3. a = RoundDiv(x, d)
      BY <2>1 DEF FilledAvgPrice
    <2> HIDE DEF a
    <2> QED BY <2>1, <2>2, <2>3
  <1> HIDE DEF a
  <1>2. /\ t \in Int /\ 2 * (t - order.spent) <= order.filled
        /\ 2 * (order.spent - t) <= order.filled
    BY <1>1
  <1>3. CumulativeNotional = Money(t)
    BY DEF CumulativeNotional, a
  <1> HIDE DEF t
  <1>4. /\ Money(t) \in Int /\ 2 * (Money(t) - t) <= Cent /\ 2 * (t - Money(t)) <= Cent
    BY <1>2, MoneyError
  <1> QED BY <1>2, <1>3, <1>4 DEF Abs, Cent

-------------------------------------------------------------------------------
(***************************************************************************)
(* A poll that settles a row.                                              *)
(***************************************************************************)

\* A poll settles row f of the polled order, whose amount is what the notional
\* has grown by, up to half a tick a share.
Records(f) ==
    /\ f \in Fill
    /\ f.order = order.id /\ f.side = order.side /\ f.day = today
    /\ f.qty = order.filled - polled.qty
    /\ 2 * Abs(f.qty * f.price - (polled'.notional - polled.notional)) <= f.qty
    /\ fills' = Append(fills, f)
    /\ Settle(fills', f)
    /\ polled' \in [qty : 0..Lot, notional : Nat]
    /\ polled'.qty = order.filled
    /\ 2 * Abs(polled'.notional - order.spent) <= order.filled + Cent
    /\ UNCHANGED <<order, placed, today>>

LEMMA PollRecords ==
  ASSUME TypeOK, PollTrails, Poll
  PROVE  \E f \in Fill : Records(f)
  <1> DEFINE n == order.filled - polled.qty
             cum == CumulativeNotional
             delta == cum - polled.notional
             f == [order |-> order.id, side |-> order.side, qty |-> n,
                   price |-> RoundDiv(delta, n), day |-> today]
  <1>1. /\ order.id \in 1..MaxOrders /\ order.side \in {"buy", "sell"}
        /\ order.qty \in 1..Lot /\ order.filled \in 0..Lot /\ order.spent \in Nat
        /\ polled.qty \in 0..Lot /\ polled.notional \in Nat /\ polled.qty < order.filled
        /\ today \in 1..MaxDays
    BY DEF TypeOK, Poll
  <1>2. /\ order.filled \in Nat \ {0} /\ n \in 1..Lot /\ n \in Nat \ {0}
    BY <1>1, SettlementAssumption
  <1>3. /\ cum \in Int /\ 2 * Abs(cum - order.spent) <= order.filled + Cent
    BY <1>1, <1>2, NotionalError
  <1>4. /\ delta > 0 /\ fills' = Append(fills, f) /\ Settle(fills', f)
        /\ polled' = [qty |-> order.filled, notional |-> cum]
        /\ UNCHANGED <<order, placed, today>>
    BY DEF Poll, DeltaNotional
  <1> HIDE DEF cum
  <1>5. delta \in Int /\ delta >= 0 /\ cum \in Nat
    BY <1>1, <1>3, <1>4
  <1> HIDE DEF n, delta
  <1>6. /\ RoundDiv(delta, n) \in Nat
        /\ 2 * (n * RoundDiv(delta, n) - delta) <= n
        /\ 2 * (delta - n * RoundDiv(delta, n)) <= n
    <2>1. PICK x \in Int, d \in Nat \ {0} : x = delta /\ d = n
      BY <1>2, <1>5
    <2>2. /\ x >= 0 => RoundDiv(x, d) >= 0
          /\ RoundDiv(x, d) \in Int
          /\ 2 * (d * RoundDiv(x, d) - x) <= d /\ 2 * (x - d * RoundDiv(x, d)) <= d
      BY RoundDivError
    <2> QED BY <2>1, <2>2, <1>5
  <1>7. f \in Fill
    BY <1>1, <1>2, <1>6 DEF Fill
  <1>8. 2 * Abs(n * RoundDiv(delta, n) - delta) <= n
    <2>1. PICK y \in Int : y = n * RoundDiv(delta, n)
      BY <1>2, <1>6
    <2> QED BY <2>1, <1>2, <1>5, <1>6 DEF Abs
  <1>9. f.qty = n /\ f.price = RoundDiv(delta, n) /\ polled'.notional - polled.notional = delta
    BY <1>4 DEF delta
  <1>10. polled' \in [qty : 0..Lot, notional : Nat] /\ polled'.qty = order.filled
         /\ polled'.notional = cum
    BY <1>1, <1>4, <1>5
  <1>11. f.order = order.id /\ f.side = order.side /\ f.day = today
    OBVIOUS
  <1> HIDE DEF f
  <1>12. n = order.filled - polled.qty
    BY DEF n
  <1>13. Records(f)
    BY <1>3, <1>4, <1>7, <1>8, <1>9, <1>10, <1>11, <1>12 DEF Records
  <1> QED BY <1>7, <1>13

\* The four things a row does to the position and to its replay: it opens the
\* position, adds to it, reduces it, or closes it and leaves a trade.
Opens(f) ==
    /\ f.side = "buy" /\ position = Flat /\ OpenReplay = NoReplay
    /\ position' = [qty |-> f.qty, avg |-> f.price, opened |-> Len(fills) + 1]
    /\ OpenReplay' = [entry |-> f.order, exits |-> << >>, realized |-> 0,
                      qty |-> f.qty, avg |-> f.price]
    /\ trades' = trades

Held == position # Flat /\ position \in [qty : 1..Lot, avg : Nat, opened : DOMAIN fills]

Adds(f) ==
    /\ f.side = "buy" /\ Held
    /\ position' = [qty |-> position.qty + f.qty, opened |-> position.opened,
                    avg |-> Blend(position.qty, position.avg, f.qty, f.price)]
    /\ OpenReplay' = [entry |-> OpenReplay.entry, exits |-> OpenReplay.exits,
                      realized |-> OpenReplay.realized, qty |-> position'.qty,
                      avg |-> position'.avg]
    /\ trades' = trades

Reduces(f) ==
    /\ f.side = "sell" /\ Held /\ f.qty < position.qty
    /\ position' = [qty |-> position.qty - f.qty, avg |-> position.avg,
                    opened |-> position.opened]
    /\ OpenReplay' = [entry |-> OpenReplay.entry,
                      exits |-> Append(OpenReplay.exits, f.order),
                      realized |-> OpenReplay.realized
                                     + RealizedPnl(f.price, position.avg, f.qty),
                      qty |-> position'.qty, avg |-> position.avg]
    /\ trades' = trades

Closes(f) ==
    /\ f.side = "sell" /\ Held /\ f.qty = position.qty
    /\ position' = Flat /\ OpenReplay' = NoReplay
    /\ trades' = Append(trades,
                   [entry |-> OpenReplay.entry, exits |-> Append(OpenReplay.exits, f.order),
                    pnl |-> OpenReplay.realized
                              + RealizedPnl(f.price, position.avg, f.qty),
                    day |-> f.day])

\* The replay after a row of a held position.
LEMMA HeldReplay ==
  ASSUME TypeOK, Held, NEW f \in Fill, fills' = Append(fills, f)
  PROVE  /\ Replay(FillsSince(fills', position.opened)) = ReplayRow(OpenReplay, f)
         /\ Replay(PriorFills(fills', position.opened)) = OpenReplay
  <1>1. position.opened \in 1..Len(fills) /\ fills \in Seq(Fill)
    BY DEF TypeOK, Held
  <1>2. OpenReplay = Replay(FillsSince(fills, position.opened))
    BY DEF OpenReplay, OpenFills, Held
  <1> QED BY <1>1, <1>2, Windows

LEMMA PollCases ==
  ASSUME IInv, NEW f, Records(f)
  PROVE  Opens(f) \/ Adds(f) \/ Reduces(f) \/ Closes(f)
  <1>1. /\ f \in Fill /\ f.side \in {"buy", "sell"} /\ f.qty \in 1..Lot /\ f.order \in 1..MaxOrders
        /\ fills \in Seq(Fill) /\ fills' = Append(fills, f) /\ Len(fills') = Len(fills) + 1
        /\ Len(fills') # 0 /\ Settle(fills', f)
    <2>1. f \in Fill /\ fills \in Seq(Fill) /\ fills' = Append(fills, f) /\ Settle(fills', f)
      BY DEF IInv, TypeOK, Records
    <2>2. Len(fills') = Len(fills) + 1 /\ Len(fills') # 0
      BY <2>1
    <2>3. f.side \in {"buy", "sell"} /\ f.qty \in 1..Lot /\ f.order \in 1..MaxOrders
      BY <2>1 DEF Fill
    <2> QED BY <2>1, <2>2, <2>3
  <1>2. position = Flat \/ Held
    BY DEF IInv, TypeOK, Held
  <1>3. /\ OpenReplay \in [entry : 0..MaxOrders, exits : Seq(1..MaxOrders), realized : Int,
                           qty : 0..Lot, avg : Nat]
        /\ OpenReplay.qty = position.qty /\ OpenReplay.avg = position.avg
    BY DEF IInv, ReplayType, ReplayAgrees
  <1>4. Held => OpenReplay.entry # 0
    <2> SUFFICES ASSUME Held PROVE OpenReplay.entry # 0
      OBVIOUS
    <2>1. position.opened \in DOMAIN fills /\ OpenReplay.entry = fills[position.opened].order
      BY DEF IInv, ReplayAgrees, Held
    <2>2. fills[position.opened] \in Fill
      BY <1>1, <2>1
    <2> QED BY <2>1, <2>2 DEF Fill
  <1>5. OpenReplay' = Replay(IF position' = Flat THEN << >>
                             ELSE FillsSince(fills', position'.opened))
    BY DEF OpenReplay, OpenFills
  <1>6. CASE f.side = "buy" /\ position = Flat
    <2>1. position' = [qty |-> f.qty, avg |-> f.price, opened |-> Len(fills')]
          /\ trades' = trades
      BY <1>1, <1>6 DEF Settle, ApplyBuy
    <2>2. position' # Flat
      BY <1>1, <2>1 DEF Flat
    <2>3. OpenReplay' = ReplayRow(NoReplay, f)
      BY <1>1, <1>5, <2>1, <2>2, OpeningWindow
    <2>4. OpenReplay' = [entry |-> f.order, exits |-> << >>, realized |-> 0,
                         qty |-> f.qty, avg |-> f.price]
      BY <2>3, <1>6 DEF ReplayRow, ReplayBuy, NoReplay
    <2>5. OpenReplay = NoReplay
      BY <1>6, ReplayEmpty DEF OpenReplay, OpenFills
    <2> QED BY <1>1, <1>6, <2>1, <2>4, <2>5 DEF Opens
  <1>7. CASE f.side = "buy" /\ Held
    <2>1. position' = [qty |-> position.qty + f.qty, opened |-> position.opened,
                       avg |-> Blend(position.qty, position.avg, f.qty, f.price)]
          /\ trades' = trades
      BY <1>1, <1>7 DEF Settle, ApplyBuy, Held
    <2>2. position' # Flat
      BY <1>1, <1>7, <2>1 DEF Flat, Held
    <2>3. OpenReplay' = ReplayRow(OpenReplay, f)
      BY <1>1, <1>5, <1>7, <2>1, <2>2, HeldReplay DEF IInv
    <2>4. OpenReplay' = ReplayBuy(OpenReplay, f)
      BY <2>3, <1>7 DEF ReplayRow
    <2>5. OpenReplay' = [entry |-> OpenReplay.entry, exits |-> OpenReplay.exits,
                         realized |-> OpenReplay.realized, qty |-> OpenReplay.qty + f.qty,
                         avg |-> Blend(OpenReplay.qty, OpenReplay.avg, f.qty, f.price)]
      BY <2>4, <1>3, <1>4, <1>7 DEF ReplayBuy
    <2> QED BY <1>3, <1>7, <2>1, <2>5 DEF Adds
  <1>8. CASE f.side = "sell"
    <2>1. f.qty <= position.qty /\ Held
      BY <1>1, <1>2, <1>8 DEF Settle, Flat
    <2>2. ReplayRow(OpenReplay, f)
            = [entry |-> OpenReplay.entry, exits |-> Append(OpenReplay.exits, f.order),
               realized |-> OpenReplay.realized
                              + RealizedPnl(f.price, position.avg, f.qty),
               qty |-> position.qty - f.qty, avg |-> position.avg]
      BY <1>3, <1>8 DEF ReplayRow, ReplaySell
    <2>3. CASE f.qty = position.qty
      <3>1. position' = Flat
            /\ trades' = Append(trades, ClosedTrade(position, fills', f))
        BY <1>1, <1>8, <2>3 DEF Settle, Exhausts
      <3>2. ClosedTrade(position, fills', f)
              = [entry |-> OpenReplay.entry, exits |-> Append(OpenReplay.exits, f.order),
                 pnl |-> OpenReplay.realized + RealizedPnl(f.price, position.avg, f.qty),
                 day |-> f.day]
        BY <1>1, <2>1, HeldReplay DEF ClosedTrade, IInv
      <3>3. OpenReplay' = NoReplay
        BY <1>5, <3>1, ReplayEmpty
      <3> QED BY <1>8, <2>1, <2>3, <3>1, <3>2, <3>3 DEF Closes
    <2>4. CASE f.qty # position.qty
      <3>1. position' = [qty |-> position.qty - f.qty, avg |-> position.avg,
                         opened |-> position.opened]
            /\ trades' = trades
        BY <1>1, <1>8, <2>1, <2>4 DEF Settle, Exhausts, Held
      <3>2. position' # Flat /\ f.qty < position.qty
        BY <1>1, <2>1, <2>4, <3>1 DEF Flat, Held
      <3>3. OpenReplay' = ReplayRow(OpenReplay, f)
        BY <1>1, <1>5, <2>1, <3>1, <3>2, HeldReplay DEF IInv
      <3> QED BY <1>8, <2>1, <2>2, <3>1, <3>2, <3>3 DEF Reduces
    <2> QED BY <2>3, <2>4
  <1> QED BY <1>1, <1>2, <1>6, <1>7, <1>8

\* What is known before a row of the states it relates.
LEMMA BeforeRow ==
  ASSUME IInv, NEW f, Records(f)
  PROVE  /\ f.order \in 1..MaxOrders /\ f.side \in {"buy", "sell"} /\ f.qty \in 1..Lot
         /\ f.price \in Nat /\ f.day \in 1..MaxDays
         /\ OpenReplay.entry \in 0..MaxOrders /\ OpenReplay.exits \in Seq(1..MaxOrders)
         /\ OpenReplay.realized \in Int
         /\ OpenReplay.qty = position.qty /\ OpenReplay.avg = position.avg
         /\ position.qty \in 0..Lot /\ position.avg \in Nat
         /\ Held => /\ OpenReplay.entry = fills[position.opened].order
                    /\ OpenReplay.entry \in 1..MaxOrders
         /\ f.order = order.id /\ f.side = order.side /\ f.qty = order.filled - polled.qty
         /\ order # NoOrder /\ order.qty \in 1..Lot /\ order.filled \in 0..order.qty
         /\ polled.qty \in Nat
         /\ polled'.qty = order.filled /\ order' = order /\ placed' = placed
  <1>1. f \in Fill
    BY DEF Records
  <1>2. /\ OpenReplay.entry \in 0..MaxOrders /\ OpenReplay.exits \in Seq(1..MaxOrders)
        /\ OpenReplay.realized \in Int
        /\ OpenReplay.qty = position.qty /\ OpenReplay.avg = position.avg
        /\ OpenReplay.qty \in 0..Lot /\ OpenReplay.avg \in Nat
    BY DEF IInv, ReplayType, ReplayAgrees
  <1>3. Held => /\ OpenReplay.entry = fills[position.opened].order
                /\ OpenReplay.entry \in 1..MaxOrders
    <2> SUFFICES ASSUME Held
                 PROVE  /\ OpenReplay.entry = fills[position.opened].order
                        /\ OpenReplay.entry \in 1..MaxOrders
      OBVIOUS
    <2>1. position.opened \in DOMAIN fills /\ OpenReplay.entry = fills[position.opened].order
      BY DEF IInv, ReplayAgrees, Held
    <2>2. fills[position.opened] \in Fill
      BY <2>1 DEF IInv, TypeOK
    <2> QED BY <2>1, <2>2 DEF Fill
  <1>4. order # NoOrder
    BY <1>1 DEF Records, NoOrder, Fill
  <1>5. /\ order.qty \in 1..Lot /\ order.filled \in 0..order.qty /\ polled.qty \in Nat
    BY <1>4 DEF IInv, TypeOK, PollTrails
  <1> QED BY <1>1, <1>2, <1>3, <1>4, <1>5 DEF Records, Fill

\* What a row does to the cost and to the profit, in numbers.
LEMMA RowRoundings ==
  ASSUME IInv, NEW f, Records(f)
  PROVE  \E q, avg, n, p \in Nat :
           /\ q = position.qty /\ avg = position.avg /\ n = f.qty /\ p = f.price
           /\ n # 0
           /\ Blend(q, avg, n, p) \in Nat
           /\ 2 * Abs((q + n) * Blend(q, avg, n, p) - (q * avg + n * p)) <= q + n
           /\ RealizedPnl(p, avg, n) \in Int
           /\ 2 * Abs(n * p - n * avg - RealizedPnl(p, avg, n)) <= Cent
           /\ Adds(f) => q = polled.qty /\ q + n = order.filled /\ q + n <= Lot
           /\ Reduces(f) => n < q /\ q <= Lot
  <1>1. /\ position.qty \in 0..Lot /\ position.avg \in Nat
        /\ f.qty \in 1..Lot /\ f.price \in Nat
    BY BeforeRow
  <1>2. PICK q \in Nat, avg \in Nat, n \in Nat \ {0}, p \in Nat :
           q = position.qty /\ avg = position.avg /\ n = f.qty /\ p = f.price
    BY <1>1, SettlementAssumption
  <1>3. Adds(f) => q = polled.qty /\ q + n = order.filled /\ q + n <= Lot
    <2> SUFFICES ASSUME Adds(f) PROVE q = polled.qty /\ q + n = order.filled /\ q + n <= Lot
      OBVIOUS
    <2>1. order.side = "buy"
      BY BeforeRow DEF Adds
    <2>2. q = polled.qty
      BY <2>1, <1>2 DEF IInv, PositionFollowsOrder
    <2>3. /\ n = order.filled - polled.qty /\ order.filled \in 0..order.qty
          /\ order.qty \in 1..Lot /\ polled.qty \in Nat
      BY <1>2, BeforeRow
    <2> QED BY <2>2, <2>3, SettlementAssumption
  <1>4. Reduces(f) => n < q /\ q <= Lot
    BY <1>1, <1>2 DEF Reduces
  <1>5. /\ Blend(q, avg, n, p) \in Nat
        /\ 2 * Abs((q + n) * Blend(q, avg, n, p) - (q * avg + n * p)) <= q + n
    BY BlendError
  <1>6. /\ RealizedPnl(p, avg, n) \in Int
        /\ 2 * Abs(n * p - n * avg - RealizedPnl(p, avg, n)) <= Cent
    BY PnlError
  <1> QED BY <1>2, <1>3, <1>4, <1>5, <1>6

\* The position after a row is one of a lot at most.
LEMMA RowTypes ==
  ASSUME IInv, NEW f, Records(f)
  PROVE  TypeOK' /\ ReplayType'
  <1>1. fills \in Seq(Fill) /\ fills' \in Seq(Fill) /\ Len(fills') = Len(fills) + 1
    BY DEF IInv, TypeOK, Records
  <1>2. /\ trades \in Seq(Trade)
        /\ Blend(position.qty, position.avg, f.qty, f.price) \in Nat
        /\ RealizedPnl(f.price, position.avg, f.qty) \in Int
    <2>1. trades \in Seq(Trade)
      BY DEF IInv, TypeOK
    <2>2. PICK q, avg, n, p \in Nat :
             /\ q = position.qty /\ avg = position.avg /\ n = f.qty /\ p = f.price
             /\ Blend(q, avg, n, p) \in Nat
             /\ RealizedPnl(p, avg, n) \in Int
      BY RowRoundings
    <2> QED BY <2>1, <2>2
  <1>3. DOMAIN fills' = 1..(Len(fills) + 1) /\ DOMAIN fills = 1..Len(fills)
        /\ Len(fills) \in Nat
    BY <1>1
  <1>4. /\ position' = Flat \/ position' \in [qty : 1..Lot, avg : Nat, opened : DOMAIN fills']
        /\ trades' \in Seq(Trade)
        /\ OpenReplay' \in [entry : 0..MaxOrders, exits : Seq(1..MaxOrders), realized : Int,
                            qty : 0..Lot, avg : Nat]
    <2>1. CASE Opens(f)
      <3>1. position' \in [qty : 1..Lot, avg : Nat, opened : DOMAIN fills']
        BY <2>1, <1>3, BeforeRow DEF Opens
      <3>2. OpenReplay' \in [entry : 0..MaxOrders, exits : Seq(1..MaxOrders), realized : Int,
                             qty : 0..Lot, avg : Nat]
        BY <2>1, BeforeRow DEF Opens
      <3> QED BY <2>1, <1>2, <3>1, <3>2 DEF Opens
    <2>2. CASE Adds(f)
      <3>1. position.qty + f.qty \in 1..Lot
        BY <2>2, RowRoundings, SettlementAssumption
      <3>2. Blend(position.qty, position.avg, f.qty, f.price) \in Nat
        BY <1>2
      <3>3. position' \in [qty : 1..Lot, avg : Nat, opened : DOMAIN fills']
        BY <2>2, <3>1, <3>2, <1>3 DEF Adds, Held
      <3>4. OpenReplay' \in [entry : 0..MaxOrders, exits : Seq(1..MaxOrders), realized : Int,
                             qty : 0..Lot, avg : Nat]
        BY <2>2, <3>1, <3>2, BeforeRow DEF Adds
      <3> QED BY <2>2, <1>2, <3>3, <3>4 DEF Adds
    <2>3. CASE Reduces(f)
      <3>1. position.qty - f.qty \in 1..Lot
        BY <2>3, RowRoundings, SettlementAssumption
      <3>2. RealizedPnl(f.price, position.avg, f.qty) \in Int
        BY <1>2
      <3>3. position' \in [qty : 1..Lot, avg : Nat, opened : DOMAIN fills']
        BY <2>3, <3>1, <1>3 DEF Reduces, Held
      <3>4. Append(OpenReplay.exits, f.order) \in Seq(1..MaxOrders)
        BY BeforeRow
      <3>5. OpenReplay' \in [entry : 0..MaxOrders, exits : Seq(1..MaxOrders), realized : Int,
                             qty : 0..Lot, avg : Nat]
        BY <2>3, <3>1, <3>2, <3>4, BeforeRow DEF Reduces
      <3> QED BY <2>3, <1>2, <3>3, <3>5 DEF Reduces
    <2>4. CASE Closes(f)
      <3>1. RealizedPnl(f.price, position.avg, f.qty) \in Int
        BY <1>2
      <3>2. Append(OpenReplay.exits, f.order) \in Seq(1..MaxOrders)
        BY BeforeRow
      <3>3. [entry |-> OpenReplay.entry, exits |-> Append(OpenReplay.exits, f.order),
             pnl |-> OpenReplay.realized + RealizedPnl(f.price, position.avg, f.qty),
             day |-> f.day] \in Trade
        BY <2>4, <3>1, <3>2, BeforeRow DEF Trade, Closes
      <3>4. trades' \in Seq(Trade)
        BY <2>4, <1>2, <3>3 DEF Closes
      <3>5. OpenReplay' \in [entry : 0..MaxOrders, exits : Seq(1..MaxOrders), realized : Int,
                             qty : 0..Lot, avg : Nat]
        BY <2>4, SettlementAssumption DEF Closes, NoReplay
      <3> QED BY <2>4, <3>4, <3>5 DEF Closes
    <2> QED BY <2>1, <2>2, <2>3, <2>4, PollCases
  <1>5. /\ polled' \in [qty : 0..Lot, notional : Nat]
        /\ order' = order /\ placed' = placed /\ today' = today
    BY DEF Records
  <1>6. /\ order = NoOrder \/ order \in [id : 1..MaxOrders, side : {"buy", "sell"},
                                         qty : 1..Lot, filled : 0..Lot, spent : Nat]
        /\ placed \in 0..MaxOrders
        /\ today \in 1..MaxDays
    BY DEF IInv, TypeOK
  <1> QED BY <1>1, <1>4, <1>5, <1>6 DEF TypeOK, ReplayType

\* The rows there were stay, and the new one is last.
LEMMA RowsStay ==
  ASSUME IInv, NEW f, Records(f)
  PROVE  /\ fills \in Seq(Fill) /\ f \in Fill
         /\ DOMAIN fills' = DOMAIN fills \cup {Len(fills) + 1}
         /\ fills'[Len(fills) + 1] = f
         /\ \A i \in DOMAIN fills : fills'[i] = fills[i]
  <1>1. fills \in Seq(Fill) /\ f \in Fill /\ fills' = Append(fills, f)
    BY DEF IInv, TypeOK, Records
  <1>2. DOMAIN fills' = 1..(Len(fills) + 1) /\ DOMAIN fills = 1..Len(fills)
        /\ Len(fills) \in Nat
    BY <1>1
  <1>3. DOMAIN fills' = DOMAIN fills \cup {Len(fills) + 1}
    BY <1>2
  <1> QED BY <1>1, <1>3

LEMMA RowAgrees ==
  ASSUME IInv, NEW f, Records(f)
  PROVE  ReplayAgrees'
  <1>1. CASE Opens(f)
    <2>1. position'.qty = OpenReplay'.qty /\ position'.avg = OpenReplay'.avg
          /\ position'.opened = Len(fills) + 1 /\ OpenReplay'.entry = f.order
      BY <1>1 DEF Opens
    <2> QED BY <2>1, RowsStay DEF ReplayAgrees
  <1>2. CASE Adds(f)
    <2>1. position'.qty = OpenReplay'.qty /\ position'.avg = OpenReplay'.avg
          /\ position'.opened = position.opened /\ OpenReplay'.entry = OpenReplay.entry
      BY <1>2 DEF Adds
    <2>2. OpenReplay.entry = fills[position.opened].order /\ position.opened \in DOMAIN fills
      BY <1>2, BeforeRow DEF Adds, Held
    <2> QED BY <2>1, <2>2, RowsStay DEF ReplayAgrees
  <1>3. CASE Reduces(f)
    <2>1. position'.qty = OpenReplay'.qty /\ position'.avg = OpenReplay'.avg
          /\ position'.opened = position.opened /\ OpenReplay'.entry = OpenReplay.entry
      BY <1>3 DEF Reduces
    <2>2. OpenReplay.entry = fills[position.opened].order /\ position.opened \in DOMAIN fills
      BY <1>3, BeforeRow DEF Reduces, Held
    <2> QED BY <2>1, <2>2, RowsStay DEF ReplayAgrees
  <1>4. CASE Closes(f)
    BY <1>4 DEF Closes, ReplayAgrees, Flat, NoReplay
  <1> QED BY <1>1, <1>2, <1>3, <1>4, PollCases

\* A row explains no money away but what it rounds.
LEMMA RowMoney ==
  ASSUME IInv, NEW f, Records(f)
  PROVE  MoneyConserved'
  <1> DEFINE cost == position.qty * position.avg
             cost2 == position'.qty * position'.avg
             real == OpenReplay.realized
             real2 == OpenReplay'.realized
  <1>1. PICK c, s, b \in Int :
           /\ c = Cash /\ s = TotalSlack /\ b = ClosedPnl
           /\ Cash' = c + CashFlow(f) /\ TotalSlack' = s + Slack(f)
    <2>1. fills' = Append(fills, f) /\ fills \in Seq(Fill) /\ f \in Fill
          /\ trades \in Seq(Trade)
      BY DEF Records, IInv, TypeOK
    <2>2. CashOf(fills) \in Int /\ SlackOf(fills) \in Int
          /\ Cash' = CashOf(fills) + CashFlow(f)
          /\ TotalSlack' = SlackOf(fills) + Slack(f)
      BY <2>1, RowAdded, SumsOfTables DEF Cash, TotalSlack, CashOf, SlackOf
    <2>3. PnlOf(trades) \in Int
      <3> DEFINE V == [i \in DOMAIN trades |-> trades[i].pnl]
      <3>1. \A u \in Trade : u.pnl \in Int
        BY DEF Trade
      <3>2. V \in Seq(Int) /\ Len(V) \in 0..Len(V)
        BY <2>1, <3>1
      <3> HIDE DEF V
      <3>3. Total(V) \in Int
        BY <3>2, TotalType DEF Total
      <3> QED BY <3>3 DEF V, PnlOf
    <2> QED BY <2>2, <2>3, SumsOfTables
  <1>2. PICK q, avg, n, p \in Nat :
           /\ q = position.qty /\ avg = position.avg /\ n = f.qty /\ p = f.price
           /\ n # 0
           /\ Blend(q, avg, n, p) \in Nat
           /\ 2 * Abs((q + n) * Blend(q, avg, n, p) - (q * avg + n * p)) <= q + n
           /\ RealizedPnl(p, avg, n) \in Int
           /\ 2 * Abs(n * p - n * avg - RealizedPnl(p, avg, n)) <= Cent
           /\ Adds(f) => q = polled.qty /\ q + n = order.filled /\ q + n <= Lot
           /\ Reduces(f) => n < q /\ q <= Lot
    BY RowRoundings
  <1>3. real \in Int
    BY BeforeRow
  <1>4. /\ MoneyConserved <=> 2 * Abs(c + q * avg - b - real) <= s
        /\ MoneyConserved' <=> 2 * Abs(c + CashFlow(f) + cost2 - ClosedPnl' - real2) <= s + Slack(f)
    BY <1>1, <1>2 DEF MoneyConserved, Unexplained
  <1>5. 2 * Abs(c + q * avg - b - real) <= s
    BY <1>4 DEF IInv
  <1>6. q * avg \in Int /\ n * p \in Int /\ Lot \in Nat
    BY SettlementAssumption
  <1>7. CASE Opens(f)
    <2>1. cost2 = n * p /\ real2 = 0 /\ real = 0 /\ q = 0
      BY <1>2, <1>7 DEF Opens, NoReplay, Flat
    <2>2. CashFlow(f) = -(n * p) /\ Slack(f) = Lot /\ ClosedPnl' = b
      BY <1>1, <1>2, <1>7 DEF Opens, CashFlow, Slack, ClosedPnl
    <2>3. q * avg = 0
      BY <2>1
    <2>4. 2 * Abs(c + CashFlow(f) + cost2 - ClosedPnl' - real2) <= s + Slack(f)
      <3> HIDE DEF cost2, real2, real
      <3> QED BY <1>5, <1>6, <2>1, <2>2, <2>3 DEF Abs
    <2> QED BY <1>4, <2>4
  <1>8. CASE Adds(f)
    <2>1. cost2 = (q + n) * Blend(q, avg, n, p) /\ real2 = real
      BY <1>2, <1>8 DEF Adds
    <2>2. CashFlow(f) = -(n * p) /\ Slack(f) = Lot /\ ClosedPnl' = b
      BY <1>1, <1>2, <1>8 DEF Adds, CashFlow, Slack, ClosedPnl
    <2>3. PICK x, y, z \in Int : /\ x = (q + n) * Blend(q, avg, n, p)
                                 /\ y = q * avg /\ z = n * p
      BY <1>2, <1>6
    <2>4. 2 * Abs(x - (y + z)) <= Lot
      BY <1>2, <1>6, <1>8, <2>3 DEF Abs
    <2>5. 2 * Abs(c + y - b - real) <= s
      BY <1>5, <2>3
    <2>6. 2 * Abs(c - z + x - b - real) <= s + Lot
      <3> HIDE DEF real
      <3> QED BY <1>3, <1>6, <2>4, <2>5 DEF Abs
    <2> QED BY <1>4, <2>1, <2>2, <2>3, <2>6
  <1>9. CASE Reduces(f)
    <2>1. cost2 = (q - n) * avg /\ real2 = real + RealizedPnl(p, avg, n)
      BY <1>2, <1>9 DEF Reduces
    <2>2. CashFlow(f) = n * p /\ Slack(f) = Cent /\ ClosedPnl' = b
      BY <1>1, <1>2, <1>9 DEF Reduces, CashFlow, Slack, ClosedPnl
    <2>3. PICK x, y, z, r \in Int : /\ x = (q - n) * avg /\ y = q * avg /\ z = n * p
                                    /\ r = RealizedPnl(p, avg, n)
                                    /\ n * avg = y - x
      <3>1. (q - n) * avg = q * avg - n * avg /\ (q - n) * avg \in Int /\ n * avg \in Int
        OBVIOUS
      <3>2. RealizedPnl(p, avg, n) \in Int
        BY <1>2
      <3> QED BY <3>1, <3>2, <1>6
    <2>4. 2 * Abs(z - (y - x) - r) <= Cent
      BY <1>2, <2>3
    <2>5. 2 * Abs(c + y - b - real) <= s
      BY <1>5, <2>3
    <2>6. 2 * Abs(c + z + x - b - (real + r)) <= s + Cent
      <3> HIDE DEF real
      <3> QED BY <1>3, <2>4, <2>5 DEF Abs, Cent
    <2> QED BY <1>4, <2>1, <2>2, <2>3, <2>6
  <1>10. CASE Closes(f)
    <2>1. cost2 = 0 /\ real2 = 0 /\ n = q
      BY <1>2, <1>10 DEF Closes, Flat, NoReplay
    <2>2. CashFlow(f) = n * p /\ Slack(f) = Cent
      BY <1>2, <1>10 DEF Closes, CashFlow, Slack
    <2>3. ClosedPnl' = b + (real + RealizedPnl(p, avg, n))
      <3> DEFINE t == [entry |-> OpenReplay.entry,
                       exits |-> Append(OpenReplay.exits, f.order),
                       pnl |-> real + RealizedPnl(p, avg, n), day |-> f.day]
      <3>1. trades \in Seq(Trade) /\ trades' = Append(trades, t)
        BY <1>2, <1>10 DEF IInv, TypeOK, Closes
      <3>2. t \in Trade
        <4>1. Append(OpenReplay.exits, f.order) \in Seq(1..MaxOrders)
          BY BeforeRow
        <4>2. OpenReplay.entry \in 1..MaxOrders
          BY <1>10, BeforeRow DEF Closes
        <4>3. real + RealizedPnl(p, avg, n) \in Int
          <5> HIDE DEF real
          <5> QED BY <1>2, <1>3
        <4>4. f.day \in 1..MaxDays
          BY BeforeRow
        <4> QED BY <4>1, <4>2, <4>3, <4>4 DEF Trade
      <3>3. t.pnl = real + RealizedPnl(p, avg, n)
        OBVIOUS
      <3> HIDE DEF t
      <3>4. PnlOf(Append(trades, t)) = PnlOf(trades) + t.pnl
        BY <3>1, <3>2, TradeAdded
      <3> QED BY <1>1, <3>1, <3>3, <3>4 DEF PnlOf, ClosedPnl
    <2>4. PICK y, z, r \in Int : /\ y = q * avg /\ z = n * p /\ r = RealizedPnl(p, avg, n)
                                 /\ n * avg = y
      BY <1>2, <1>6, <2>1
    <2>5. 2 * Abs(z - y - r) <= Cent
      BY <1>2, <2>4
    <2>6. 2 * Abs(c + y - b - real) <= s
      BY <1>5, <2>4
    <2>7. 2 * Abs(c + z + 0 - (b + (real + r)) - 0) <= s + Cent
      <3> HIDE DEF real
      <3> QED BY <1>3, <2>5, <2>6 DEF Abs, Cent
    <2> QED BY <1>4, <2>1, <2>2, <2>3, <2>4, <2>7
  <1> QED BY <1>7, <1>8, <1>9, <1>10, PollCases

ExitsOf(rows, s) == (UNION {Range(rows[i].exits) : i \in DOMAIN rows}) \cup Range(s.exits)

LEMMA ExitsFound ==
  \A rows, s, e : e \in ExitsOf(rows, s) <=> \/ \E i \in DOMAIN rows : e \in Range(rows[i].exits)
                                             \/ e \in Range(s.exits)
  <1> SUFFICES ASSUME NEW rows, NEW s, NEW e
               PROVE  e \in ExitsOf(rows, s) <=>
                         \/ \E i \in DOMAIN rows : e \in Range(rows[i].exits)
                         \/ e \in Range(s.exits)
    OBVIOUS
  <1> DEFINE sets == {Range(rows[i].exits) : i \in DOMAIN rows}
  <1>1. \A i \in DOMAIN rows : Range(rows[i].exits) \in sets
    OBVIOUS
  <1>2. \A x \in sets : \E i \in DOMAIN rows : x = Range(rows[i].exits)
    OBVIOUS
  <1> HIDE DEF sets
  <1>3. e \in UNION sets <=> \E i \in DOMAIN rows : e \in Range(rows[i].exits)
    BY <1>1, <1>2
  <1>4. ExitsOf(rows, s) = (UNION sets) \cup Range(s.exits)
    BY DEF ExitsOf, sets
  <1> QED BY <1>3, <1>4

\* The share of a row is explained by the position it goes to or by its trade, and
\* what explained the earlier rows stays, in the position or in its trade.
LEMMA RowExplained ==
  ASSUME IInv, NEW f, Records(f)
  PROVE  EveryFillIsExplained'
  <1>1. /\ trades \in Seq(Trade) /\ f.side \in {"buy", "sell"}
        /\ OpenReplay.exits \in Seq(1..MaxOrders)
    BY BeforeRow DEF IInv, TypeOK
  <1>2. \A i \in DOMAIN fills :
           fills[i].order \in (IF fills[i].side = "buy" THEN Entries ELSE Exits)
    BY DEF IInv, EveryFillIsExplained
  <1>3. Range(Append(OpenReplay.exits, f.order)) = Range(OpenReplay.exits) \cup {f.order}
    <2>1. PICK x \in Seq(1..MaxOrders) : x = OpenReplay.exits
      BY <1>1
    <2>2. DOMAIN Append(x, f.order) = 1..(Len(x) + 1) /\ DOMAIN x = 1..Len(x)
          /\ Len(x) \in Nat
          /\ Append(x, f.order)[Len(x) + 1] = f.order
          /\ \A i \in 1..Len(x) : Append(x, f.order)[i] = x[i]
      OBVIOUS
    <2>3. DOMAIN Append(x, f.order) = DOMAIN x \cup {Len(x) + 1}
      BY <2>2
    <2> QED BY <2>1, <2>2, <2>3 DEF Range
  <1>4. \A e \in Nat \ {0} : e \in Entries => e \in Entries'
    <2>1. CASE Opens(f)
      BY <2>1 DEF Opens, Entries, NoReplay
    <2>2. CASE Adds(f)
      BY <2>2 DEF Adds, Entries
    <2>3. CASE Reduces(f)
      BY <2>3 DEF Reduces, Entries
    <2>4. CASE Closes(f)
      <3>1. /\ DOMAIN trades' = DOMAIN trades \cup {Len(trades) + 1}
            /\ \A i \in DOMAIN trades : trades'[i] = trades[i]
            /\ trades'[Len(trades) + 1].entry = OpenReplay.entry
        BY <1>1, <2>4 DEF Closes
      <3> QED BY <3>1 DEF Entries
    <2> QED BY <2>1, <2>2, <2>3, <2>4, PollCases
  <1>5. \A e : /\ e \in Exits <=> \/ \E i \in DOMAIN trades : e \in Range(trades[i].exits)
                                  \/ e \in Range(OpenReplay.exits)
               /\ e \in Exits' <=> \/ \E i \in DOMAIN trades' : e \in Range(trades'[i].exits)
                                   \/ e \in Range(OpenReplay'.exits)
    <2>1. Exits = ExitsOf(trades, OpenReplay)
      BY DEF Exits, ExitsOf
    <2>2. Exits' = ExitsOf(trades', OpenReplay')
      BY DEF Exits, ExitsOf, Range
    <2> QED BY <2>1, <2>2, ExitsFound
  <1>6. Exits \subseteq Exits' /\ (f.side = "sell" => f.order \in Exits')
    <2>1. CASE Opens(f)
      <3>1. Range(<< >>) = {}
        BY DEF Range
      <3> QED BY <2>1, <3>1 DEF Opens, Exits, NoReplay
    <2>2. CASE Adds(f)
      BY <2>2 DEF Adds, Exits
    <2>3. CASE Reduces(f)
      <3>1. Range(OpenReplay'.exits) = Range(OpenReplay.exits) \cup {f.order}
            /\ trades' = trades
        BY <2>3, <1>3 DEF Reduces
      <3> QED BY <3>1, <1>5
    <2>4. CASE Closes(f)
      <3>1. /\ DOMAIN trades' = DOMAIN trades \cup {Len(trades) + 1}
            /\ \A i \in DOMAIN trades : trades'[i] = trades[i]
            /\ trades'[Len(trades) + 1].exits = Append(OpenReplay.exits, f.order)
        BY <1>1, <2>4 DEF Closes
      <3> QED BY <3>1, <1>3, <1>5
    <2> QED BY <2>1, <2>2, <2>3, <2>4, PollCases
  <1>7. f.side = "buy" => f.order \in Entries'
    <2>1. CASE Opens(f)
      BY <2>1 DEF Opens, Entries
    <2>2. CASE Adds(f)
      <3>1. OpenReplay'.entry = OpenReplay.entry
        BY <2>2 DEF Adds
      <3>2. OpenReplay.entry = order.id
        BY <2>2, BeforeRow DEF Adds, Held, IInv, PositionFollowsOrder
      <3>3. f.order = order.id
        BY BeforeRow
      <3> QED BY <3>1, <3>2, <3>3 DEF Entries
    <2> QED BY <2>1, <2>2, PollCases DEF Reduces, Closes
  <1>8. \A i \in DOMAIN fills : fills[i].order \in Nat \ {0}
    <2>1. \A i \in DOMAIN fills : fills[i] \in Fill
      BY RowsStay
    <2> QED BY <2>1 DEF Fill
  <1> QED BY <1>1, <1>2, <1>4, <1>6, <1>7, <1>8, RowsStay DEF EveryFillIsExplained

\* A row is of the order polled, and the polled order's records keep up with it.
LEMMA RowFollows ==
  ASSUME IInv, NEW f, Records(f)
  PROVE  RowsOfPlaced' /\ PollTrails' /\ PositionFollowsOrder'
  <1>1. /\ order.id = placed /\ order # NoOrder
        /\ polled.qty <= order.filled /\ order.filled <= order.qty
        /\ 2 * Abs(OrderNotional(order.id) - polled.notional) <= polled.qty
        /\ order' = order /\ placed' = placed /\ f.order = order.id /\ f.side = order.side
        /\ f.qty = order.filled - polled.qty /\ polled'.qty = order.filled
        /\ polled.qty \in Nat /\ order.filled \in Nat /\ order.qty \in Nat
    BY BeforeRow DEF IInv, PollTrails
  <1>2. RowsOfPlaced'
    <2>1. order.id \in Nat /\ f.order <= placed'
      BY <1>1, BeforeRow
    <2>2. \A i \in DOMAIN fills : fills[i].order <= placed
      BY DEF IInv, RowsOfPlaced
    <2> QED BY <1>1, <2>1, <2>2, RowsStay DEF RowsOfPlaced
  <1>3. PollTrails'
    <2>1. PICK o, a, k, w \in Int :
             /\ o = NotionalOf(fills, order.id) /\ a = f.qty * f.price
             /\ k = polled.notional /\ w = polled'.notional
      <3>1. NotionalOf(fills, order.id) \in Int
        BY RowAdded, RowsStay
      <3>2. f.qty * f.price \in Int
        <4>1. f.qty \in Nat /\ f.price \in Nat
          BY BeforeRow
        <4> QED BY <4>1
      <3>3. polled.notional \in Int /\ polled'.notional \in Int
        BY DEF IInv, TypeOK, Records
      <3> QED BY <3>1, <3>2, <3>3
    <2>2. OrderNotional(order.id)' = o + a
      <3>1. NotionalOf(fills', order.id) = NotionalOf(fills, order.id) + PartOf(f, order.id)
        BY RowAdded, RowsStay DEF Records
      <3>2. PartOf(f, order.id) = a
        BY <1>1, <2>1 DEF PartOf
      <3> QED BY <1>1, <2>1, <3>1, <3>2 DEF OrderNotional, NotionalOf, PartOf
    <2>3. 2 * Abs(o - k) <= polled.qty
      BY <1>1, <2>1, SumsOfTables
    <2>4. 2 * Abs(a - (w - k)) <= f.qty
      BY <2>1 DEF Records
    <2>5. 2 * Abs(o + a - w) <= order.filled
      BY <1>1, <2>3, <2>4 DEF Abs
    <2>6. 2 * Abs(w - order.spent) <= order.filled + Cent
      BY <2>1 DEF Records
    <2> QED BY <1>1, <2>1, <2>2, <2>5, <2>6 DEF PollTrails
  <1>4. PositionFollowsOrder'
    <2>1. CASE Opens(f)
      <3>1. polled.qty = 0
        BY <1>1, <2>1 DEF Opens, IInv, PositionFollowsOrder, Flat
      <3> QED BY <1>1, <2>1, <3>1 DEF Opens, PositionFollowsOrder
    <2>2. CASE Adds(f)
      <3>1. position.qty = polled.qty /\ OpenReplay.entry = order.id
        BY <1>1, <2>2 DEF Adds, Held, IInv, PositionFollowsOrder
      <3> QED BY <1>1, <2>2, <3>1 DEF Adds, PositionFollowsOrder
    <2>3. CASE Reduces(f)
      <3>1. order.qty - polled.qty <= position.qty /\ position.qty \in Nat
        BY <1>1, <2>3, BeforeRow DEF Reduces, IInv, PositionFollowsOrder
      <3> QED BY <1>1, <2>3, <3>1 DEF Reduces, PositionFollowsOrder
    <2>4. CASE Closes(f)
      <3>1. order.qty - polled.qty <= position.qty /\ position.qty \in Nat
        BY <1>1, <2>4, BeforeRow DEF Closes, IInv, PositionFollowsOrder
      <3> QED BY <1>1, <2>4, <3>1 DEF Closes, PositionFollowsOrder, Flat
    <2> QED BY <2>1, <2>2, <2>3, <2>4, PollCases
  <1> QED BY <1>2, <1>3, <1>4

LEMMA PollPreserves == ASSUME IInv, Poll PROVE IInv'
  <1>1. PICK f : Records(f)
    BY PollRecords DEF IInv
  <1> QED BY <1>1, RowTypes, RowAgrees, RowMoney, RowExplained, RowFollows DEF IInv

-------------------------------------------------------------------------------
(***************************************************************************)
(* Steps that settle nothing.                                              *)
(***************************************************************************)

\* What the tables determine stays while they stay.
LEMMA BooksStay ==
  ASSUME IInv, fills' = fills, position' = position, trades' = trades
  PROVE  /\ OpenReplay' = OpenReplay
         /\ ReplayType' /\ ReplayAgrees' /\ MoneyConserved' /\ EveryFillIsExplained'
  <1>1. OpenReplay' = OpenReplay
    BY DEF OpenReplay, OpenFills
  <1>2. /\ Cash' = Cash /\ TotalSlack' = TotalSlack /\ ClosedPnl' = ClosedPnl
        /\ Entries' = Entries /\ Exits' = Exits
    BY <1>1 DEF Cash, TotalSlack, ClosedPnl, Entries, Exits, CashFlow, Slack, Range
  <1>3. ReplayType' /\ ReplayAgrees'
    BY <1>1 DEF IInv, ReplayType, ReplayAgrees
  <1>4. MoneyConserved'
    BY <1>1, <1>2 DEF IInv, MoneyConserved, Unexplained
  <1>5. EveryFillIsExplained'
    BY <1>2 DEF IInv, EveryFillIsExplained
  <1> QED BY <1>1, <1>3, <1>4, <1>5

\* A new order has no row yet, and follows R-12.
LEMMA PlaceOrderPreserves ==
  ASSUME IInv, NEW side \in {"buy", "sell"}, NEW q \in 1..Lot, PlaceOrder(side, q)
  PROVE  IInv'
  <1>1. /\ fills' = fills /\ position' = position /\ trades' = trades
        /\ placed' = placed + 1 /\ today' = today /\ polled' = NothingPolled
        /\ order' = [id |-> placed + 1, side |-> side, qty |-> q, filled |-> 0, spent |-> 0]
        /\ placed < MaxOrders /\ Allowed(side, q)
    BY DEF PlaceOrder
  <1>2. /\ OpenReplay' = OpenReplay
        /\ ReplayType' /\ ReplayAgrees' /\ MoneyConserved' /\ EveryFillIsExplained'
    BY <1>1, BooksStay
  <1>3. placed \in 0..MaxOrders /\ fills \in Seq(Fill) /\ MaxOrders \in Nat /\ Lot \in Nat
    BY SettlementAssumption DEF IInv, TypeOK
  <1>4. order' # NoOrder /\ placed + 1 \in 1..MaxOrders
    BY <1>1, <1>3 DEF NoOrder
  <1>5. TypeOK'
    <2>1. order' \in [id : 1..MaxOrders, side : {"buy", "sell"}, qty : 1..Lot,
                      filled : 0..Lot, spent : Nat]
      BY <1>1, <1>3, <1>4
    <2>2. polled' \in [qty : 0..Lot, notional : Nat]
      BY <1>1, <1>3 DEF NothingPolled
    <2> QED BY <1>1, <1>3, <1>4, <2>1, <2>2 DEF IInv, TypeOK
  <1>6. \A i \in DOMAIN fills : fills[i].order \in Nat /\ fills[i].order <= placed
    <2>1. \A i \in DOMAIN fills : fills[i] \in Fill
      BY <1>3
    <2>2. \A f \in Fill : f.order \in Nat
      BY DEF Fill
    <2> QED BY <2>1, <2>2 DEF IInv, RowsOfPlaced
  <1>7. RowsOfPlaced'
    BY <1>1, <1>3, <1>6 DEF RowsOfPlaced
  <1>8. PollTrails'
    <2>1. \A i \in DOMAIN fills : fills[i].order # placed + 1
      BY <1>3, <1>6
    <2>2. NotionalOf(fills, placed + 1) = 0
      BY <1>3, <2>1, NoRows
    <2>3. OrderNotional(order.id)' = 0
      BY <1>1, <2>2 DEF OrderNotional, NotionalOf, PartOf
    <2> QED BY <1>1, <1>4, <2>3 DEF PollTrails, NothingPolled, Abs, Cent
  <1>9. PositionFollowsOrder'
    <2>1. side = "buy" => position = Flat
      BY <1>1 DEF Allowed
    <2>2. side = "sell" => q <= position.qty
      BY <1>1 DEF Allowed
    <2> QED BY <1>1, <2>1, <2>2 DEF PositionFollowsOrder, NothingPolled, Flat
  <1> QED BY <1>2, <1>5, <1>7, <1>8, <1>9 DEF IInv

\* A share the broker fills is not recorded yet.
LEMMA BrokerFillPreserves ==
  ASSUME IInv, NEW p \in Prices, BrokerFill(p)
  PROVE  IInv'
  <1>1. /\ fills' = fills /\ position' = position /\ trades' = trades
        /\ placed' = placed /\ today' = today /\ polled' = polled
        /\ order.filled < order.qty
    BY DEF BrokerFill
  <1>2. /\ OpenReplay' = OpenReplay
        /\ ReplayType' /\ ReplayAgrees' /\ MoneyConserved' /\ EveryFillIsExplained'
    BY <1>1, BooksStay
  <1>3. order # NoOrder
    BY <1>1 DEF NoOrder
  <1>4. order \in [id : 1..MaxOrders, side : {"buy", "sell"}, qty : 1..Lot,
                   filled : 0..Lot, spent : Nat]
    BY <1>3 DEF IInv, TypeOK
  <1>5. order' = [id |-> order.id, side |-> order.side, qty |-> order.qty,
                  filled |-> order.filled + 1, spent |-> order.spent + p]
    BY <1>4 DEF BrokerFill
  <1>6. p \in Nat /\ order.filled + 1 \in 0..Lot
    BY <1>1, <1>4, SettlementAssumption
  <1>7. order' \in [id : 1..MaxOrders, side : {"buy", "sell"}, qty : 1..Lot,
                    filled : 0..Lot, spent : Nat]
    BY <1>4, <1>5, <1>6
  <1>8. TypeOK'
    BY <1>1, <1>7 DEF IInv, TypeOK
  <1>9. PollTrails'
    <2>1. /\ order.id = placed /\ polled.qty <= order.filled /\ polled.qty \in Nat
          /\ 2 * Abs(OrderNotional(order.id) - polled.notional) <= polled.qty
      BY <1>3 DEF IInv, PollTrails, TypeOK
    <2>2. OrderNotional(order.id)' = OrderNotional(order.id)
      BY <1>1, <1>5 DEF OrderNotional
    <2>3. /\ order' # NoOrder /\ order'.id = placed'
          /\ polled'.qty <= order'.filled /\ order'.filled <= order'.qty
          /\ polled'.qty # order'.filled
      BY <1>1, <1>4, <1>5, <2>1 DEF NoOrder
    <2> QED BY <1>1, <2>1, <2>2, <2>3 DEF PollTrails
  <1>10. RowsOfPlaced' /\ PositionFollowsOrder'
    BY <1>1, <1>2, <1>5 DEF IInv, RowsOfPlaced, PositionFollowsOrder
  <1> QED BY <1>2, <1>8, <1>9, <1>10 DEF IInv

LEMMA EndPollPreserves == ASSUME IInv, EndPoll PROVE IInv'
  <1>1. /\ fills' = fills /\ position' = position /\ trades' = trades
        /\ placed' = placed /\ today' = today /\ polled' = NothingPolled /\ order' = NoOrder
    BY DEF EndPoll
  <1>2. ReplayType' /\ ReplayAgrees' /\ MoneyConserved' /\ EveryFillIsExplained'
    BY <1>1, BooksStay
  <1>3. TypeOK'
    <2>1. polled' \in [qty : 0..Lot, notional : Nat]
      BY <1>1, SettlementAssumption DEF NothingPolled
    <2> QED BY <1>1, <2>1 DEF IInv, TypeOK
  <1>4. RowsOfPlaced' /\ PollTrails' /\ PositionFollowsOrder'
    BY <1>1 DEF IInv, RowsOfPlaced, PollTrails, PositionFollowsOrder, NoOrder
  <1> QED BY <1>2, <1>3, <1>4 DEF IInv

\* A day passes, or nothing happens.
LEMMA QuietPreserves ==
  ASSUME IInv, NextDay \/ UNCHANGED vars
  PROVE  IInv'
  <1>1. /\ fills' = fills /\ position' = position /\ trades' = trades
        /\ placed' = placed /\ polled' = polled /\ order' = order
    BY DEF NextDay, vars
  <1>2. /\ OpenReplay' = OpenReplay
        /\ ReplayType' /\ ReplayAgrees' /\ MoneyConserved' /\ EveryFillIsExplained'
    BY <1>1, BooksStay
  <1>3. TypeOK'
    <2>1. today' \in 1..MaxDays
      BY SettlementAssumption DEF IInv, TypeOK, NextDay, vars
    <2> QED BY <1>1, <2>1 DEF IInv, TypeOK
  <1>4. OrderNotional(order.id)' = OrderNotional(order.id)
    BY <1>1 DEF OrderNotional
  <1>5. RowsOfPlaced' /\ PollTrails' /\ PositionFollowsOrder'
    BY <1>1, <1>2, <1>4 DEF IInv, RowsOfPlaced, PollTrails, PositionFollowsOrder
  <1> QED BY <1>2, <1>3, <1>5 DEF IInv

\* The book of one ticker, by what it says of the ticker.
LEMMA OneTicker ==
  ASSUME NEW a, NEW b
  PROVE  /\ [t \in {"ticker"} |-> a]["ticker"] = a
         /\ [[t \in {"ticker"} |-> a] EXCEPT !["ticker"] = b] = [t \in {"ticker"} |-> b]
  OBVIOUS

Entering == order.side = "buy" /\ polled.qty > 0

LEMMA OneTickerBook ==
  /\ \A n : Book!Buy("ticker", n, TRUE) <=>
         /\ position.qty = 0 \/ Entering
         /\ position'.qty = position.qty + n
         /\ Entering' = TRUE
         /\ Len(trades') = Len(trades)
  /\ Book!EndEntry("ticker") <=>
         Entering /\ Entering' = FALSE /\ position'.qty = position.qty /\ Len(trades') = Len(trades)
  /\ \A n : Book!Sell("ticker", n) <=>
         /\ ~Entering /\ n <= position.qty
         /\ position'.qty = position.qty - n
         /\ Len(trades') = IF n = position.qty THEN Len(trades) + 1 ELSE Len(trades)
         /\ Entering' = Entering
  <1>1. \A n : Book!Buy("ticker", n, TRUE) <=>
         /\ position.qty = 0 \/ Entering
         /\ position'.qty = position.qty + n
         /\ Entering' = TRUE
         /\ Len(trades') = Len(trades)
    BY OneTicker, Zenon DEF Book!Buy, Entering
  <1>2. Book!EndEntry("ticker") <=>
         Entering /\ Entering' = FALSE /\ position'.qty = position.qty /\ Len(trades') = Len(trades)
    BY OneTicker, Zenon DEF Book!EndEntry, Entering
  <1>3. \A n : Book!Sell("ticker", n) <=>
         /\ ~Entering /\ n <= position.qty
         /\ position'.qty = position.qty - n
         /\ Len(trades') = IF n = position.qty THEN Len(trades) + 1 ELSE Len(trades)
         /\ Entering' = Entering
    BY OneTicker, Zenon DEF Book!Sell, Entering
  <1> QED BY <1>1, <1>2, <1>3

\* What a step of the poll does to the ticker's shares, trades and entry: nothing,
\* or one step of the book.
LEMMA RowKeepsBook ==
  ASSUME IInv, NEW f, Records(f)
  PROVE  Book!Next
  <1>1. /\ f.qty \in 1..Lot /\ f.side = order.side /\ position.qty \in 0..Lot
        /\ polled.qty \in Nat /\ polled'.qty \in Nat \ {0} /\ order' = order
        /\ trades \in Seq(Trade)
    <2>1. f.qty = order.filled - polled.qty /\ polled'.qty = order.filled
          /\ order.filled \in Nat /\ polled.qty \in Nat
      BY BeforeRow
    <2> QED BY <2>1, BeforeRow DEF IInv, TypeOK
  <1>2. CASE Opens(f) \/ Adds(f)
    <2>1. /\ order.side = "buy" /\ order'.side = "buy" /\ Len(trades') = Len(trades)
          /\ position'.qty = position.qty + f.qty
      BY <1>1, <1>2 DEF Opens, Adds, Flat
    <2>2. position.qty = 0 \/ polled.qty > 0
      BY <1>1, <2>1 DEF IInv, PositionFollowsOrder
    <2>3. (position.qty = 0 \/ Entering) /\ Entering'
      BY <1>1, <2>1, <2>2 DEF Entering
    <2>4. Book!Buy("ticker", f.qty, TRUE)
      BY <2>1, <2>3, OneTickerBook
    <2> QED BY <1>1, <2>4 DEF Book!Next
  <1>3. CASE Reduces(f) \/ Closes(f)
    <2>1. /\ order.side # "buy" /\ order'.side # "buy" /\ f.qty <= position.qty
          /\ position'.qty = position.qty - f.qty
          /\ Len(trades') = IF f.qty = position.qty THEN Len(trades) + 1 ELSE Len(trades)
      BY <1>1, <1>3 DEF Reduces, Closes, Flat
    <2>2. ~Entering /\ ~Entering' /\ Entering' = Entering
      BY <2>1 DEF Entering
    <2>3. Book!Sell("ticker", f.qty)
      BY <2>1, <2>2, OneTickerBook
    <2> QED BY <1>1, <2>3 DEF Book!Next
  <1> QED BY <1>2, <1>3, PollCases

LEMMA StepKeepsBook ==
  ASSUME IInv, [Next]_vars
  PROVE  [Book!Next]_(Book!vars)
  <1>1. CASE Poll
    BY <1>1, PollRecords, RowKeepsBook DEF IInv
  <1>2. CASE EndPoll
    <2>1. position' = position /\ trades' = trades /\ polled'.qty = 0
      BY <1>2 DEF EndPoll, NothingPolled
    <2>2. CASE order.side = "buy" /\ polled.qty > 0
      <3>1. Entering /\ ~Entering'
        BY <2>1, <2>2 DEF Entering
      <3>2. Book!EndEntry("ticker")
        BY <2>1, <3>1, OneTickerBook
      <3> QED BY <3>2 DEF Book!Next
    <2>3. CASE ~(order.side = "buy" /\ polled.qty > 0)
      BY <2>1, <2>3 DEF Book!vars
    <2> QED BY <2>2, <2>3
  <1>3. CASE \E side \in {"buy", "sell"}, q \in 1..Lot : PlaceOrder(side, q)
    <2>1. /\ position' = position /\ trades' = trades
          /\ order.side # "buy" /\ polled'.qty = 0
      BY <1>3 DEF PlaceOrder, NoOrder, NothingPolled
    <2> QED BY <2>1 DEF Book!vars
  <1>4. CASE (\E p \in Prices : BrokerFill(p)) \/ NextDay \/ UNCHANGED vars
    <2>1. /\ position' = position /\ trades' = trades /\ polled' = polled
          /\ order'.side = order.side
      BY <1>4 DEF BrokerFill, NextDay, vars, IInv, TypeOK, NoOrder
    <2> QED BY <2>1 DEF Book!vars
  <1> QED BY <1>1, <1>2, <1>3, <1>4 DEF Next

-------------------------------------------------------------------------------
(***************************************************************************)
(* The theorems.                                                           *)
(***************************************************************************)

LEMMA SettlementInit == Init => IInv
  <1> SUFFICES ASSUME Init PROVE IInv
    OBVIOUS
  <1>1. /\ fills = << >> /\ position = Flat /\ trades = << >> /\ order = NoOrder
        /\ polled = NothingPolled /\ placed = 0 /\ today = 1
    BY DEF Init
  <1>2. OpenReplay = NoReplay
    BY <1>1, ReplayEmpty DEF OpenReplay, OpenFills
  <1>3. MaxOrders \in Nat /\ Lot \in Nat /\ MaxDays \in Nat \ {0}
    BY SettlementAssumption
  <1>4. TypeOK
    <2>1. polled \in [qty : 0..Lot, notional : Nat]
      BY <1>1, <1>3 DEF NothingPolled
    <2>2. fills \in Seq(Fill) /\ trades \in Seq(Trade)
      BY <1>1
    <2> QED BY <1>1, <1>3, <2>1, <2>2 DEF TypeOK
  <1>5. ReplayType
    <2>1. << >> \in Seq(1..MaxOrders)
      OBVIOUS
    <2> QED BY <1>2, <1>3, <2>1 DEF ReplayType, NoReplay
  <1>6. ReplayAgrees /\ EveryFillIsExplained /\ RowsOfPlaced /\ PollTrails
        /\ PositionFollowsOrder
    BY <1>1, <1>2 DEF ReplayAgrees, EveryFillIsExplained, RowsOfPlaced, PollTrails,
       PositionFollowsOrder, NoReplay, Flat, NoOrder
  <1>7. MoneyConserved
    <2>1. Cash = 0 /\ TotalSlack = 0 /\ ClosedPnl = 0
      <3>1. \A f : f \in Seq(Int) /\ Len(f) = 0 => Total(f) = 0
        <4> SUFFICES ASSUME NEW f \in Seq(Int), Len(f) = 0 PROVE Total(f) = 0
          OBVIOUS
        <4>1. \A i \in 1..Len(f) : f[i] = 0
          OBVIOUS
        <4> QED BY <4>1, TotalZero
      <3> DEFINE c == [i \in DOMAIN fills |-> CashFlow(fills[i])]
                 s == [i \in DOMAIN fills |-> Slack(fills[i])]
                 b == [i \in DOMAIN trades |-> trades[i].pnl]
      <3>2. c \in Seq(Int) /\ Len(c) = 0 /\ s \in Seq(Int) /\ Len(s) = 0
            /\ b \in Seq(Int) /\ Len(b) = 0
        BY <1>1
      <3> HIDE DEF c, s, b
      <3>3. Total(c) = 0 /\ Total(s) = 0 /\ Total(b) = 0
        BY <3>1, <3>2
      <3> QED BY <3>3 DEF c, s, b, Cash, TotalSlack, ClosedPnl
    <2> QED BY <1>1, <1>2, <2>1 DEF MoneyConserved, Unexplained, Abs, Flat, NoReplay
  <1> QED BY <1>4, <1>5, <1>6, <1>7 DEF IInv

\* IInv is inductive: every reachable state of the ledger and of the poll has it.
THEOREM SettlementInvariant == Spec => []IInv
  <1>1. IInv /\ [Next]_vars => IInv'
    BY PlaceOrderPreserves, BrokerFillPreserves, PollPreserves, EndPollPreserves,
       QuietPreserves DEF Next
  <1> QED BY <1>1, SettlementInit, PTL DEF Spec

\* The rows of the ledger and the state of the poll are what they should be; so a
\* position has never fewer shares than one, nor more than a lot.
THEOREM SettlementTypeCorrect == Spec => []TypeOK
  <1>1. IInv => TypeOK
    BY DEF IInv
  <1> QED BY <1>1, SettlementInvariant, PTL

\* The positions row and the replay of its fills never disagree (R-21).
THEOREM PositionIsReplayed == Spec => []ReplayAgrees
  <1>1. IInv => ReplayAgrees
    BY DEF IInv
  <1> QED BY <1>1, SettlementInvariant, PTL

\* No money appears or is lost in the books but for the roundings of the rows.
THEOREM MoneyIsConserved == Spec => []MoneyConserved
  <1>1. IInv => MoneyConserved
    BY DEF IInv
  <1> QED BY <1>1, SettlementInvariant, PTL

\* Every fill is explained by a trade or by the open position (R-21).
THEOREM FillsAreExplained == Spec => []EveryFillIsExplained
  <1>1. IInv => EveryFillIsExplained
    BY DEF IInv
  <1> QED BY <1>1, SettlementInvariant, PTL

\* The rows of an order that is recorded in full add up to what the broker was
\* paid, however the polls cut its fills (R-18).
THEOREM RowsFollowBroker == Spec => []FillRowsFollowBroker
  <1>1. IInv => FillRowsFollowBroker
    <2> SUFFICES ASSUME IInv, order # NoOrder, polled.qty = order.filled
                 PROVE  2 * Abs(OrderNotional(order.id) - order.spent)
                          <= 2 * order.filled + Cent
      BY DEF FillRowsFollowBroker
    <2>1. order.spent \in Nat /\ order.filled \in Nat /\ polled.notional \in Nat
      BY DEF IInv, TypeOK
    <2>2. OrderNotional(order.id) \in Int
      <3>1. fills \in Seq(Fill)
        BY DEF IInv, TypeOK
      <3> QED BY <3>1, NotionalType, SumsOfTables
    <2>3. /\ 2 * Abs(OrderNotional(order.id) - polled.notional) <= polled.qty
          /\ 2 * Abs(polled.notional - order.spent) <= order.filled + Cent
      BY DEF IInv, PollTrails
    <2> QED BY <2>1, <2>2, <2>3 DEF Abs, Cent
  <1> QED BY <1>1, SettlementInvariant, PTL
\* Every sequence of orders, polls and days implements the PositionBook: a ticker is
\* entered by the fills of one buy order, left by sells of what is held, and has a
\* trade for each time it was left (R-12, R-21).
THEOREM FillsImplementPositionBook == Spec => FillsKeepTheBook
  <1>1. Init => Book!Init
    <2> SUFFICES ASSUME Init PROVE Book!Init
      OBVIOUS
    <2>1. position.qty = 0 /\ Len(trades) = 0 /\ order.side # "buy"
      BY DEF Init, Flat, NoOrder
    <2>2. (order.side = "buy" /\ polled.qty > 0) = FALSE
      BY <2>1
    <2> QED BY <2>1, <2>2, Zenon DEF Book!Init
  <1>2. IInv /\ [Next]_vars => [Book!Next]_(Book!vars)
    BY StepKeepsBook
  <1> QED BY <1>1, <1>2, SettlementInvariant, PTL DEF Spec, FillsKeepTheBook, Book!Spec
===============================================================================
