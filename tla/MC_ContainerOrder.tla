-------------------------- MODULE MC_ContainerOrder --------------------------
(* Small instances of ContainerOrder: order and instance names are model     *)
(* values, interchangeable wherever no liveness is checked.                  *)
EXTENDS ContainerOrder, TLC

CONSTANTS o1, o2, i1, i2

OneRequest == {<<i1, "h1">>}
TwoRequests == {<<i1, "h1">>, <<i1, "h2">>}

\* No database error: an UPDATE that finds its row is made.
OrderlySpec ==
  Init /\ [][Next /\ ~\E p \in Procs :
                       job[p] # NoJob /\ Hit(p) /\ UpdateOrderFails(p)]_vars

Sym == Permutations(Orders)
=============================================================================
