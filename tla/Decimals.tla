------------------------------- MODULE Decimals -------------------------------
(***************************************************************************)
(* Money and Price (src/trader/domain/money.py) in whole ticks of $0.0001, *)
(* the quantum of Price; a Money is a multiple of Cent.                    *)
(***************************************************************************)
EXTENDS Integers

Cent == 100

\* n / d to the nearest integer, a tie to the even one (ROUND_HALF_EVEN).
RoundDiv(n, d) ==
    LET q == n \div d
        r == n % d
        down == 2 * r < d \/ (2 * r = d /\ q % 2 = 0)
    IN  IF down THEN q ELSE q + 1

Money(ticks) == Cent * RoundDiv(ticks, Cent)

\* A price changed by pct percent.
Percent(price, pct) == RoundDiv(price * (100 + pct), 100)

\* pct percent of a capital, which is whole cents and so makes whole ticks.
PctOf(capital, pct) == Money((capital * pct) \div 100)

-----------------------------------------------------------------------------
(* Average cost and profit, as trade_closer computes them *)

\* The average cost of q shares at avg and n more at p, as a Price.
Blend(q, avg, n, p) == RoundDiv(q * avg + n * p, q + n)

RealizedPnl(p, avg, n) == Money((p - avg) * n)
===============================================================================
