--------------------------------- MODULE Sums ---------------------------------
(***************************************************************************)
(* Sums over the rows of a table, as the queries of the ledger take them.  *)
(***************************************************************************)
EXTENDS Integers, Sequences

\* The sums of the first n numbers of f.
Running(f) ==
    LET upTo[n \in 0..Len(f)] == IF n = 0 THEN 0 ELSE upTo[n - 1] + f[n]
    IN  upTo

Total(f) == Running(f)[Len(f)]
===============================================================================
