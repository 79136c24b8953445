------------------------------ MODULE MCCommands ------------------------------
(***************************************************************************)
(* Instances of the commands for TLC.                                      *)
(***************************************************************************)
EXTENDS CommandsSafety, TLC

\* Every tweet names every ticker.
AllCashtags == [t \in Tweets |-> Tickers]

\* Sound while every content of the rules file is signed.
Symmetry == Permutations(Procs) \cup Permutations(Rules)
===============================================================================
