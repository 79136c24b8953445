----------------------------- MODULE PositionBook -----------------------------
(***************************************************************************)
(* What trade_closer promises of the positions and trades tables (R-12,    *)
(* R-21): a ticker is entered by the fills of one buy order at a time and  *)
(* only while it is not held, is left by sells of no more than is held,    *)
(* and has exactly one trade for each time it was left altogether.         *)
(***************************************************************************)
EXTENDS Naturals

CONSTANTS
    Ticker,
    Lot            \* bound: shares booked at once

VARIABLES
    held,          \* shares of each ticker
    closed,        \* trades of each ticker
    entering       \* whether the order that opened it may still add to it

vars == <<held, closed, entering>>

Init ==
    /\ held = [t \in Ticker |-> 0]
    /\ closed = [t \in Ticker |-> 0]
    /\ entering = [t \in Ticker |-> FALSE]

Buy(t, n, more) ==
    /\ held[t] = 0 \/ entering[t]
    /\ held' = [held EXCEPT ![t] = @ + n]
    /\ entering' = [entering EXCEPT ![t] = more]
    /\ UNCHANGED closed

EndEntry(t) ==
    /\ entering[t]
    /\ entering' = [entering EXCEPT ![t] = FALSE]
    /\ UNCHANGED <<held, closed>>

Sell(t, n) ==
    /\ ~entering[t]
    /\ n <= held[t]
    /\ held' = [held EXCEPT ![t] = @ - n]
    /\ closed' = [closed EXCEPT ![t] = IF n = held[t] THEN @ + 1 ELSE @]
    /\ UNCHANGED entering

Next ==
    \E t \in Ticker :
        \/ \E n \in 1..Lot, more \in BOOLEAN : Buy(t, n, more)
        \/ EndEntry(t)
        \/ \E n \in 1..Lot : Sell(t, n)

Spec == Init /\ [][Next]_vars
===============================================================================
