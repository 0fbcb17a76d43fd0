------------------------------ MODULE OrderPrice ------------------------------
(***************************************************************************)
(* What a container order costs, and what the page of an order offers back *)
(* when it is given up early: src/core/order/price.go, CalculateOrderRefund*)
(* of src/core/order/impl.go and the handlers of src/api/platform.go that  *)
(* use them. Prices are whole coins, divided in integers; a refund counts  *)
(* the hours that have begun, and hours beyond the longest duration are    *)
(* free. The prices are those of a new order; a renewal or an upgrade      *)
(* replaces the price by the funds the contract has locked.                *)
(***************************************************************************)
EXTENDS Integers

CONSTANTS
    Params,             \* what is asked: cpu, ram, storage and duration
    Ages,               \* half hours after which a refund is looked at
    Accounts, NoAccount,
    Hashes, NoHash      \* hashes of the transaction that pays

VARIABLES
    order,              \* the row: its parameters, price, account and hash
    age                 \* half hours since created_at
priceVars == <<order, age>>

NoOrder == [price |-> 0, account |-> NoAccount]

-----------------------------------------------------------------------------
CheckOrderParams(p) ==
    p.cpu \in 1 .. 32 /\ p.ram \in 1 .. 64 /\ p.storage \in 40 .. 4000 /\ p.duration \in 1 .. 720

\* A price by tiers: the first tier whose bound is not passed gives the rate, in
\* tenths of the base price.
CalculateCPUPrice(cores) ==
    CASE cores \in 1 .. 4 -> cores * 100
      [] cores \in 5 .. 8 -> (cores * 100 * 9) \div 10
      [] cores \in 9 .. 16 -> (cores * 100 * 8) \div 10
      [] cores \in 17 .. 32 -> (cores * 100 * 7) \div 10
      [] OTHER -> 0

CalculateRAMPrice(size) ==
    CASE size \in 1 .. 4 -> size * 100
      [] size \in 5 .. 16 -> (size * 100 * 9) \div 10
      [] size \in 17 .. 32 -> (size * 100 * 8) \div 10
      [] size \in 33 .. 64 -> (size * 100 * 7) \div 10
      [] OTHER -> 0

CalculateStoragePrice(size) ==
    CASE size \in 40 .. 100 -> size * 2
      [] size \in 101 .. 500 -> (size * 2 * 8) \div 10
      [] size \in 501 .. 2000 -> (size * 2 * 6) \div 10
      [] size \in 2001 .. 4000 -> (size * 2 * 5) \div 10
      [] OTHER -> 0

CalculateDurationCoefficient(hours) ==
    CASE hours \in 1 .. 24 -> 10
      [] hours \in 25 .. 72 -> 9
      [] hours \in 73 .. 168 -> 8
      [] hours \in 169 .. 720 -> 7
      [] OTHER -> 0

HourlyCost(p) ==
    CalculateCPUPrice(p.cpu) + CalculateRAMPrice(p.ram) + CalculateStoragePrice(p.storage)

CalculateTotalCost(p) ==
    (HourlyCost(p) * p.duration * CalculateDurationCoefficient(p.duration)) \div 10

\* The hours that have begun.
HoursUsed == (age + 1) \div 2

CalculateOrderRefund(row) ==
    LET pr == CalculateTotalCost([row EXCEPT !.duration = HoursUsed])
    IN  IF row.price > pr THEN row.price - pr ELSE 0

\* The answers of getPriceHandler: none for parameters that are refused.
GetPrice(p) == IF CheckOrderParams(p) THEN {CalculateTotalCost(p)} ELSE {}
\* The answers of getRefundHandler.
GetRefund == IF order = NoOrder THEN {} ELSE {CalculateOrderRefund(order)}
-----------------------------------------------------------------------------
Init == order = NoOrder /\ age = 0

\* createOrderHandler: the price is the one getPriceHandler shows.
CreateOrder(account, p) ==
    /\ order = NoOrder
    /\ \E price \in GetPrice(p) :
         order' = [cpu |-> p.cpu, ram |-> p.ram, storage |-> p.storage, duration |-> p.duration,
                   price |-> price, account |-> account, hash |-> NoHash]
    /\ UNCHANGED age

SetOrderHash(account, hash) ==
    /\ order # NoOrder /\ order.account = account
    /\ order' = [order EXCEPT !.hash = hash]
    /\ UNCHANGED age

TimePasses ==
    /\ order # NoOrder
    /\ age' \in {a \in Ages : a > age}
    /\ UNCHANGED order

Next ==
    \/ \E a \in Accounts : \/ \E p \in Params : CreateOrder(a, p)
                           \/ \E h \in Hashes : SetOrderHash(a, h)
    \/ TimePasses

Spec == Init /\ [][Next]_priceVars
-----------------------------------------------------------------------------
(* Properties.                                                             *)

TypeOK ==
    /\ age \in Ages \cup {0}
    /\ order = NoOrder \/ /\ order.price \in Nat
                          /\ order.account \in Accounts
                          /\ order.hash \in Hashes \cup {NoHash}

\* While an order runs, what is offered back is at most what the time that is
\* left costs at the rate that was paid, to the coin, although the hours used
\* are priced by a tier of their own; and nothing is left to pay back at its end.
RefundsBounded ==
    \A refund \in GetRefund : age \in 1 .. 2 * order.duration =>
        /\ refund <= 1 + (HourlyCost(order) * CalculateDurationCoefficient(order.duration)
                            * (2 * order.duration - age)) \div 20
        /\ age = 2 * order.duration => refund = 0

\* What is accepted is paid for: no number of cores, no size and no duration
\* that passes the checks falls between two tiers.
EveryPartIsPriced ==
    order # NoOrder =>
        /\ CalculateCPUPrice(order.cpu) > 0 /\ CalculateRAMPrice(order.ram) > 0
        /\ CalculateStoragePrice(order.storage) > 0 /\ order.price > 0

=============================================================================
