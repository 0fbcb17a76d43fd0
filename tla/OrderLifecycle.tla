--------------------------- MODULE OrderLifecycle ---------------------------
(* What the container platform promises about an order, whoever drives it:   *)
(* an order is placed unpaid, is served only for hours that have been paid   *)
(* for on the chain, and once it is over, or dropped unpaid, it stays so.    *)
(* ContainerOrder implements this specification.                             *)
EXTENDS Naturals

CONSTANTS
  Orders,     \* order ids
  MaxHours    \* longest duration an order can have

Hours == 1 .. MaxHours

VARIABLES
  state,    \* what has become of each order
  funded,   \* hours paid for on the chain
  granted   \* hours the platform has recorded for a served order, else 0

lifeVars == <<state, funded, granted>>

States == {"absent", "unpaid", "served", "over", "dropped"}

TypeOK ==
  /\ state \in [Orders -> States]
  /\ funded \in [Orders -> 0 .. MaxHours]
  /\ granted \in [Orders -> 0 .. MaxHours]

Init ==
  /\ state = [o \in Orders |-> "absent"]
  /\ funded = [o \in Orders |-> 0]
  /\ granted = [o \in Orders |-> 0]

Place(o) ==
  /\ state[o] = "absent"
  /\ state' = [state EXCEPT ![o] = "unpaid"]
  /\ UNCHANGED <<funded, granted>>

\* Money only ever buys more hours, and only for an order that was placed.
Fund(o, h) ==
  /\ state[o] # "absent"
  /\ h > funded[o]
  /\ funded' = [funded EXCEPT ![o] = h]
  /\ UNCHANGED <<state, granted>>

\* The first grant serves the order; a later one records a renewal.
Grant(o, h) ==
  /\ state[o] \in {"unpaid", "served"}
  /\ h <= funded[o]
  /\ state' = [state EXCEPT ![o] = "served"]
  /\ granted' = [granted EXCEPT ![o] = h]
  /\ UNCHANGED funded

\* An order ends from service, or without ever being paid (a lapsed upgrade).
End(o) ==
  /\ state[o] \in {"unpaid", "served"}
  /\ state' = [state EXCEPT ![o] = "over"]
  /\ granted' = [granted EXCEPT ![o] = 0]
  /\ UNCHANGED funded

\* Unpaid orders are cleaned up in one sweep.
Drop(S) ==
  /\ \A o \in S : state[o] = "unpaid"
  /\ state' = [o \in Orders |-> IF o \in S THEN "dropped" ELSE state[o]]
  /\ UNCHANGED <<funded, granted>>

Next ==
  \/ \E o \in Orders : Place(o) \/ End(o)
  \/ \E o \in Orders, h \in Hours : Fund(o, h) \/ Grant(o, h)
  \/ \E S \in SUBSET Orders : Drop(S)

Spec == Init /\ [][Next]_lifeVars
=============================================================================
