---------------------------- MODULE MCTradingCycle ----------------------------
(***************************************************************************)
(* Instances of the trading cycle for TLC.                                 *)
(***************************************************************************)
EXTENDS CycleSafety, TLC

Symmetry == Permutations(Tickers)
===============================================================================
