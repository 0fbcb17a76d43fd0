-------------------------- MODULE MC_TokenFaucet --------------------------
(* A small instance of TokenFaucet; requests and accounts are               *)
(* interchangeable model values.                                            *)
EXTENDS TokenFaucet, TLC

\* Two hours make a day.
ShortDays == [h \in 0 .. Hours - 1 |-> h \div 2]

Sym == Permutations(Requests) \cup Permutations(Accounts)
=============================================================================
