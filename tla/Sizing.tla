-------------------------------- MODULE Sizing --------------------------------
(***************************************************************************)
(* How many shares: the rule engine derives a share count and stores the   *)
(* decision with a notional rounded to the cent; approval derives the      *)
(* count again from that notional (src/trader/rules/entry_checks.py,       *)
(* engine/holdings.py, engine/approval.py).                                *)
(***************************************************************************)
EXTENDS Decimals

\* check_entry: the shares a limit buys.
EntryShares(limit, price) == limit \div price

\* holdings._sell_qty: a fraction of a position, at least one share of it.
SellQty(qty, num, den) ==
    LET floored == (qty * num) \div den
    IN  IF floored < 1 THEN 1 ELSE floored

\* proposed_notional
Notional(shares, price) == Money(price * shares)

\* A mutant: the count is floored without the half cent, which loses a share
\* when the notional was rounded down.
PlainFloor(notional, price) == notional \div price

\* approval._order_qty
OrderQty(notional, price) == (notional + Cent \div 2) \div price
===============================================================================
