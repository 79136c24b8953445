------------------------------ MODULE WriteAhead ------------------------------
(***************************************************************************)
(* What order_executor promises of the ledger and the broker together      *)
(* (R-16): orders are durably recorded one at a time, an order is sent     *)
(* only once it is durable, and neither a durable record nor an order sent *)
(* is ever taken back, however the process that does so ends.              *)
(***************************************************************************)
CONSTANT Order

VARIABLES durable, sent

vars == <<durable, sent>>

Init ==
    /\ durable = {}
    /\ sent = {}

Record(o) ==
    /\ o \notin durable
    /\ durable' = durable \cup {o}
    /\ UNCHANGED sent

Send(o) ==
    /\ o \in durable \ sent
    /\ sent' = sent \cup {o}
    /\ UNCHANGED durable

Next == \E o \in Order : Record(o) \/ Send(o)

Spec == Init /\ [][Next]_vars
===============================================================================
