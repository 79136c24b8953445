--------------------------- MODULE Arithmetic_proofs ---------------------------
(***************************************************************************)
(* Induction over the naturals, the sums of the ledger's queries, and what *)
(* rounding does to money and to share counts, for every amount.           *)
(***************************************************************************)
EXTENDS Sums, Sizing, WellFoundedInduction, TLAPS

-------------------------------------------------------------------------------
(***************************************************************************)
(* Induction, without an operator as a parameter.                          *)
(***************************************************************************)

\* Induction: what holds of zero and of every successor of one of its members
\* is all naturals.
LEMMA SetInduction ==
  ASSUME NEW S, 0 \in S, \A n \in Nat : n \in S => n + 1 \in S
  PROVE  \A n \in Nat : n \in S
  <1> DEFINE T == Nat \ S
             R == OpToRel(<, Nat)
  <1> SUFFICES ASSUME T # {} PROVE FALSE
    OBVIOUS
  <1>1. PICK x \in T : \A y \in T : ~ (<<y, x>> \in R)
    <2>1. T \subseteq Nat
      OBVIOUS
    <2>2. IsWellFoundedOn(R, Nat)
      BY NatLessThanWellFounded
    <2> HIDE DEF T, R
    <2> QED BY <2>1, <2>2, WFMin
  <1>2. x \in Nat \ {0}
    OBVIOUS
  <1>3. x - 1 \in Nat /\ <<x - 1, x>> \in R
    BY <1>2 DEF OpToRel
  <1> HIDE DEF R
  <1>4. x - 1 \in S
    BY <1>1, <1>3
  <1> QED BY <1>2, <1>3, <1>4

-------------------------------------------------------------------------------
(***************************************************************************)
(* Sums.                                                                   *)
(***************************************************************************)

\* The equations of the running sums.
LEMMA RunningDef ==
  ASSUME NEW f, Len(f) \in Nat
  PROVE  /\ DOMAIN Running(f) = 0..Len(f)
         /\ \A n \in 0..Len(f) : 
               Running(f)[n] = IF n = 0 THEN 0 ELSE Running(f)[n - 1] + f[n]
  <1> DEFINE Step(g, n) == IF n = 0 THEN 0 ELSE g[n - 1] + f[n]
             IsRunning(g, m) == g = [n \in 0..m |-> Step(g, n)]
             S == {m \in Nat : \E g : IsRunning(g, m)}
  <1>1. 0 \in S
    <2> DEFINE g == [n \in 0..0 |-> 0]
    <2>1. g = [n \in 0..0 |-> Step(g, n)]
      OBVIOUS
    <2> QED BY <2>1
  <1>2. \A m \in Nat : m \in S => m + 1 \in S
    <2> SUFFICES ASSUME NEW m \in Nat, m \in S PROVE \E g : IsRunning(g, m + 1)
      OBVIOUS
    <2>1. PICK g : IsRunning(g, m)
      OBVIOUS
    <2> DEFINE h == [n \in 0..(m + 1) |-> Step(g, n)]
    <2>2. \A n \in 0..m : h[n] = g[n]
      BY <2>1
    <2>3. \A n \in 0..(m + 1) : Step(h, n) = Step(g, n)
      <3> HIDE DEF h
      <3> SUFFICES ASSUME NEW n \in 0..(m + 1), n # 0 PROVE h[n - 1] = g[n - 1]
        OBVIOUS
      <3>1. n - 1 \in 0..m
        OBVIOUS
      <3> QED BY <3>1, <2>2
    <2>4. h = [n \in 0..(m + 1) |-> Step(h, n)]
      <3>1. h = [n \in 0..(m + 1) |-> Step(g, n)]
        OBVIOUS
      <3> HIDE DEF h, Step
      <3> QED BY <2>3, <3>1
    <2> QED BY <2>4
  <1>3. PICK g : IsRunning(g, Len(f))
    <2> HIDE DEF S
    <2>1. Len(f) \in S
      BY <1>1, <1>2, SetInduction
    <2> QED BY <2>1 DEF S
  <1>4. Running(f) = CHOOSE u : IsRunning(u, Len(f))
    BY DEF Running
  <1>5. IsRunning(Running(f), Len(f))
    BY <1>3, <1>4
  <1> QED BY <1>5

\* One number more.
LEMMA RunningStep ==
  ASSUME NEW f, Len(f) \in Nat, NEW n \in Nat, n + 1 <= Len(f)
  PROVE  Running(f)[n + 1] = Running(f)[n] + f[n + 1]
  <1>1. n + 1 \in 0..Len(f) /\ n + 1 # 0 /\ (n + 1) - 1 = n
    OBVIOUS
  <1>2. Running(f)[n + 1] = IF n + 1 = 0 THEN 0 ELSE Running(f)[(n + 1) - 1] + f[n + 1]
    BY <1>1, RunningDef
  <1> QED BY <1>1, <1>2

\* The sums are numbers, and the last number is added last.
LEMMA TotalType ==
  ASSUME NEW f \in Seq(Int)
  PROVE  \A n \in 0..Len(f) : Running(f)[n] \in Int
  <1> DEFINE S == {n \in Nat : n <= Len(f) => Running(f)[n] \in Int}
  <1>1. 0 \in S
    BY RunningDef
  <1>2. \A n \in Nat : n \in S => n + 1 \in S
    <2> SUFFICES ASSUME NEW n \in Nat, n \in S, n + 1 <= Len(f)
                 PROVE  Running(f)[n + 1] \in Int
      OBVIOUS
    <2>1. Running(f)[n + 1] = Running(f)[n] + f[n + 1]
      BY RunningStep
    <2>2. f[n + 1] \in Int
      OBVIOUS
    <2> QED BY <2>1, <2>2
  <1> HIDE DEF S
  <1>3. \A n \in Nat : n \in S
    BY <1>1, <1>2, SetInduction
  <1> QED BY <1>3 DEF S

\* Two sequences that agree up to n have the same sums up to n.
LEMMA SamePrefix ==
  ASSUME NEW f \in Seq(Int), NEW g \in Seq(Int), NEW m \in 0..Len(f), m <= Len(g),
         \A i \in 1..m : f[i] = g[i]
  PROVE  Running(f)[m] = Running(g)[m]
  <1> DEFINE S == {n \in Nat : n <= m => Running(f)[n] = Running(g)[n]}
  <1>1. 0 \in S
    BY RunningDef
  <1>2. \A n \in Nat : n \in S => n + 1 \in S
    <2> SUFFICES ASSUME NEW n \in Nat, n \in S, n + 1 <= m
                 PROVE  Running(f)[n + 1] = Running(g)[n + 1]
      OBVIOUS
    <2>0. /\ Len(f) \in Nat /\ n + 1 <= Len(f)
          /\ Len(g) \in Nat /\ n + 1 <= Len(g)
          /\ n \in Nat /\ n + 1 \in 1..m
      OBVIOUS
    <2> HIDE DEF S
    <2>1. Running(f)[n + 1] = Running(f)[n] + f[n + 1]
      BY <2>0, RunningStep, Zenon
    <2>2. Running(g)[n + 1] = Running(g)[n] + g[n + 1]
      BY <2>0, RunningStep, Zenon
    <2>3. f[n + 1] = g[n + 1] /\ Running(f)[n] = Running(g)[n]
      BY <2>0 DEF S
    <2> QED BY <2>1, <2>2, <2>3
  <1> HIDE DEF S
  <1>3. \A n \in Nat : n \in S
    BY <1>1, <1>2, SetInduction
  <1> QED BY <1>3 DEF S

\* A row more adds its number to the total.
LEMMA TotalLonger ==
  ASSUME NEW f \in Seq(Int), NEW g \in Seq(Int), Len(g) = Len(f) + 1,
         \A i \in 1..Len(f) : g[i] = f[i]
  PROVE  Total(f) \in Int /\ g[Len(g)] \in Int /\ Total(g) = Total(f) + g[Len(g)]
  <1>0. /\ Len(f) \in 0..Len(f) /\ Len(f) <= Len(g) /\ Len(g) \in 0..Len(g)
        /\ Len(f) \in Nat /\ Len(g) \in Nat /\ Len(f) + 1 <= Len(g)
        /\ Len(g) \in 1..Len(g)
    OBVIOUS
  <1>1. Running(g)[Len(g)] = Running(g)[Len(f)] + g[Len(g)]
    <2>1. Running(g)[Len(f) + 1] = Running(g)[Len(f)] + g[Len(f) + 1]
      BY <1>0, RunningStep
    <2> QED BY <1>0, <2>1
  <1>2. Running(f)[Len(f)] = Running(g)[Len(f)]
    BY <1>0, SamePrefix
  <1>3. Running(f)[Len(f)] \in Int /\ g[Len(g)] \in Int
    BY <1>0, TotalType
  <1> QED BY <1>1, <1>2, <1>3 DEF Total

\* Rows of zero, or no rows, add up to zero.
LEMMA TotalZero ==
  ASSUME NEW f \in Seq(Int), \A i \in 1..Len(f) : f[i] = 0
  PROVE  Total(f) = 0
  <1> DEFINE S == {n \in Nat : n <= Len(f) => Running(f)[n] = 0}
  <1>1. 0 \in S
    BY RunningDef
  <1>2. \A n \in Nat : n \in S => n + 1 \in S
    <2> SUFFICES ASSUME NEW n \in Nat, n \in S, n + 1 <= Len(f)
                 PROVE  Running(f)[n + 1] = 0
      OBVIOUS
    <2>0. n + 1 \in 0..Len(f) /\ n + 1 \in 1..Len(f) /\ n + 1 # 0 /\ (n + 1) - 1 = n
      OBVIOUS
    <2>1. Running(f)[n + 1] = Running(f)[n] + f[n + 1]
      BY <2>0, RunningStep
    <2> QED BY <2>0, <2>1
  <1> HIDE DEF S
  <1>3. \A n \in Nat : n \in S
    BY <1>1, <1>2, SetInduction
  <1> QED BY <1>3 DEF S, Total

\* One number replaced changes the total by the difference.
LEMMA TotalExcept ==
  ASSUME NEW f \in Seq(Int), NEW g \in Seq(Int), Len(g) = Len(f), NEW k \in 1..Len(f),
         \A i \in 1..Len(f) : i # k => g[i] = f[i]
  PROVE  Total(g) = Total(f) + g[k] - f[k]
  <1> DEFINE S == {n \in Nat : n <= Len(f) =>
                      Running(g)[n] = Running(f)[n] + IF n < k THEN 0 ELSE g[k] - f[k]}
  <1>1. 0 \in S
    BY RunningDef
  <1>2. \A n \in Nat : n \in S => n + 1 \in S
    <2> SUFFICES ASSUME NEW n \in Nat, n \in S, n + 1 <= Len(f)
                 PROVE  Running(g)[n + 1] = Running(f)[n + 1]
                                              + IF n + 1 < k THEN 0 ELSE g[k] - f[k]
      OBVIOUS
    <2>0. /\ n \in Nat /\ Len(f) \in Nat /\ n + 1 <= Len(f) /\ n \in 0..Len(f)
          /\ Len(g) \in Nat /\ n + 1 <= Len(g)
          /\ n + 1 \in 1..Len(f) /\ k \in Nat /\ k \in 1..Len(f)
      OBVIOUS
    <2>7. Running(g)[n] = Running(f)[n] + IF n < k THEN 0 ELSE g[k] - f[k]
      BY <2>0
    <2> HIDE DEF S
    <2>1. Running(f)[n + 1] = Running(f)[n] + f[n + 1]
      BY <2>0, RunningStep, Zenon
    <2>2. Running(g)[n + 1] = Running(g)[n] + g[n + 1]
      BY <2>0, RunningStep, Zenon
    <2>3. /\ Running(f)[n] \in Int
          /\ f[n + 1] \in Int /\ g[n + 1] \in Int /\ f[k] \in Int /\ g[k] \in Int
      <3>1. Running(f)[n] \in Int
        BY <2>0, TotalType
      <3> QED BY <2>0, <3>1
    <2>4. CASE n + 1 = k
      <3>1. n < k
        BY <2>0, <2>4
      <3>2. Running(g)[n] = Running(f)[n]
        BY <2>7, <2>3, <3>1
      <3> QED BY <2>0, <2>1, <2>2, <2>3, <2>4, <3>2
    <2>5. CASE n + 1 < k
      <3>1. n < k /\ n + 1 # k
        BY <2>0, <2>5
      <3>2. g[n + 1] = f[n + 1] /\ Running(g)[n] = Running(f)[n]
        BY <2>0, <2>7, <2>3, <3>1
      <3>3. Running(g)[n + 1] = Running(f)[n + 1] /\ Running(f)[n + 1] \in Int
        BY <2>1, <2>2, <2>3, <3>2
      <3> QED BY <2>5, <3>3
    <2>6. CASE n + 1 > k
      <3>1. ~(n < k) /\ ~(n + 1 < k) /\ n + 1 # k
        BY <2>0, <2>6
      <3>2. g[n + 1] = f[n + 1] /\ Running(g)[n] = Running(f)[n] + (g[k] - f[k])
        BY <2>0, <2>7, <3>1
      <3>3. Running(g)[n + 1] = Running(f)[n + 1] + (g[k] - f[k])
        BY <2>1, <2>2, <2>3, <3>2
      <3> QED BY <3>1, <3>3
    <2> QED BY <2>0, <2>4, <2>5, <2>6
  <1> HIDE DEF S
  <1>3. \A n \in Nat : n \in S
    BY <1>1, <1>2, SetInduction
  <1>4. Running(g)[Len(f)] = Running(f)[Len(f)] + (g[k] - f[k])
    BY <1>3 DEF S
  <1> QED BY <1>4, TotalType DEF Total

-------------------------------------------------------------------------------
(***************************************************************************)
(* Rounding and share counts.                                              *)
(***************************************************************************)

\* A rounded quotient is off by half a unit at most, whatever the divisor.
LEMMA RoundDivError ==
  ASSUME NEW n \in Int, NEW d \in Nat \ {0}
  PROVE  /\ RoundDiv(n, d) \in Int
         /\ 2 * (d * RoundDiv(n, d) - n) <= d
         /\ 2 * (n - d * RoundDiv(n, d)) <= d
         /\ n >= 0 => RoundDiv(n, d) >= 0
  <1> DEFINE q == n \div d
             r == n % d
  <1>1. q \in Int /\ r \in 0..(d - 1) /\ n = d * q + r
    OBVIOUS
  <1>2. d * (q + 1) = d * q + d
    BY <1>1
  <1>3. n >= 0 => q >= 0
    BY <1>1
  <1>4. (RoundDiv(n, d) = q /\ 2 * r <= d) \/ (RoundDiv(n, d) = q + 1 /\ 2 * r >= d)
    BY <1>1 DEF RoundDiv
  <1> HIDE DEF q, r
  <1> QED BY <1>1, <1>2, <1>3, <1>4

\* ROUND_HALF_EVEN to the cent (domain/money.py) is off by half a cent at most.
THEOREM MoneyError ==
  ASSUME NEW t \in Int
  PROVE  /\ Money(t) \in Int
         /\ 2 * (Money(t) - t) <= Cent
         /\ 2 * (t - Money(t)) <= Cent
  BY DEF Money, RoundDiv, Cent

\* A quotient is determined by its remainder's bounds.
LEMMA Quotient ==
  ASSUME NEW x \in Int, NEW p \in Nat \ {0}, NEW n \in Int,
         p * n <= x, x < p * n + p
  PROVE  x \div p = n
  <1> DEFINE q == x \div p
             r == x % p
  <1>1. q \in Int /\ r \in 0..(p - 1) /\ x = p * q + r
    OBVIOUS
  <1>2. q = n
    <2>1. q <= n
      BY <1>1
    <2>2. n <= q
      BY <1>1
    <2> QED BY <1>1, <2>1, <2>2
  <1> QED BY <1>2

\* A half cent makes up for what rounding a notional may have lost, and is too
\* little to add a share, if a share costs a cent or more (engine/approval.py).
THEOREM OrderSizeRecovered ==
  ASSUME NEW price \in Nat, price >= Cent, NEW n \in Nat
  PROVE  OrderQty(Notional(n, price), price) = n
  <1> DEFINE t == price * n
             x == Money(t) + 50
  <1>1. t \in Nat /\ price \in Nat \ {0}
    BY DEF Cent
  <1>2. x \in Int /\ t <= x /\ x <= t + Cent
    BY <1>1, MoneyError DEF Cent
  <1>3. x < t + price
    <2>1. CASE price = Cent
      <3>1. t % Cent = 0
        BY <2>1 DEF Cent
      <3>2. Money(t) = t
        BY <1>1, <3>1 DEF Money, RoundDiv, Cent
      <3> QED BY <1>1, <2>1, <3>2 DEF Cent
    <2>2. CASE price > Cent
      BY <1>1, <1>2, <2>2 DEF Cent
    <2> QED BY <2>1, <2>2 DEF Cent
  <1>4. price * n <= x /\ x < price * n + price
    BY <1>2, <1>3
  <1>5. x \div price = n
    <2> HIDE DEF x
    <2> QED BY <1>1, <1>2, <1>4, Quotient
  <1> QED BY <1>5 DEF OrderQty, Notional, Cent

\* The shares a limit buys cost at most the limit, and one more share would cost
\* more (rules/entry_checks.py).
THEOREM EntryUsesTheLimit ==
  ASSUME NEW limit \in Nat, NEW price \in Nat \ {0}
  PROVE  /\ EntryShares(limit, price) \in Nat
         /\ price * EntryShares(limit, price) <= limit
         /\ limit < price * EntryShares(limit, price) + price
  <1> DEFINE q == limit \div price
             r == limit % price
  <1>1. q \in Int /\ r \in 0..(price - 1) /\ limit = price * q + r
    OBVIOUS
  <1>2. q >= 0
    BY <1>1
  <1> QED BY <1>1, <1>2 DEF EntryShares

\* A partial sell is of at least one share and of no more than is held, even of
\* a single share (engine/holdings.py).
THEOREM SellsSomethingHeld ==
  ASSUME NEW qty \in Nat \ {0}, NEW num \in Nat \ {0}, NEW den \in Nat \ {0}, num < den
  PROVE  SellQty(qty, num, den) \in 1..qty
  <1> DEFINE q == (qty * num) \div den
             r == (qty * num) % den
  <1>1. q \in Int /\ r \in 0..(den - 1) /\ qty * num = den * q + r
    OBVIOUS
  <1>2. qty * num <= qty * den
    OBVIOUS
  <1>3. q <= qty
    <2>1. den * q <= den * qty
      BY <1>1, <1>2
    <2> QED BY <1>1, <2>1
  <1> QED BY <1>1, <1>3 DEF SellQty
===============================================================================
