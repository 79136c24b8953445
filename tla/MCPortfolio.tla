------------------------------ MODULE MCPortfolio ------------------------------
(***************************************************************************)
(* An instance of the portfolio for TLC: $100, of which $22 per ticker.    *)
(***************************************************************************)
EXTENDS PortfolioSafety

CONSTANTS t1, t2, t3, t4

AllTickers == <<t1, t2, t3, t4>>

Rules ==
    [capital |-> 1000000, maxNotionalPct |-> 22, maxPositions |-> 2, maxHoldingDays |-> 1,
     stopLossPct |-> -15, takeProfitPct |-> 30, takeProfitNum |-> 2, takeProfitDen |-> 3,
     trailingStopPct |-> 20, dailyLossPct |-> 3, weeklyLossPct |-> 4, drawdownPct |-> 4,
     minPrice |-> 10000, excluded |-> {t3}]

\* With a window of one slot t1 comes back and t2 does not; t4 is too thin to be
\* bought, and takes a candidate's place only while fewer than two others do.
MentionTimes == (t1 :> {0, 2}) @@ (t2 :> {0}) @@ (t3 :> {0, 2}) @@ (t4 :> {0, 1})
===============================================================================
