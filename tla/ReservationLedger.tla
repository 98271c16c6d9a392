------------------------- MODULE ReservationLedger -------------------------
(***************************************************************************)
(* What the inventory reservation system promises, without transactions:    *)
(* an order takes all its stock and its coupon use in one step or takes     *)
(* nothing, and gives them back at most once, all together.                 *)
(***************************************************************************)
EXTENDS Integers, FiniteSets

CONSTANTS Orders, Variants, Qty, Couponed, InitialStock, UsageLimit

\* What the theorems assume of the constants.
LedgerConstants ==
    /\ Qty \in [Orders -> [Variants -> Nat]]
    /\ Couponed \subseteq Orders
    /\ InitialStock \in [Variants -> Nat]
    /\ UsageLimit \in Nat

VARIABLES
    stock,  \* units of each variant that can still be sold
    used,   \* uses of the coupon
    claim   \* what each order has taken: nothing yet, its cart, or given back

vars == << stock, used, claim >>

Claims == { "none", "held", "freed" }

LedgerTypeOK ==
    /\ stock \in [Variants -> Nat]
    /\ used \in 0..UsageLimit
    /\ claim \in [Orders -> Claims]

Uses(o) == IF o \in Couponed THEN 1 ELSE 0

LedgerInit ==
    /\ stock = InitialStock
    /\ used = 0
    /\ claim = [ o \in Orders |-> "none" ]

Take(o) ==
    /\ claim[o] = "none"
    /\ \A v \in Variants : stock[v] >= Qty[o][v]
    /\ used + Uses(o) <= UsageLimit
    /\ stock' = [ v \in Variants |-> stock[v] - Qty[o][v] ]
    /\ used' = used + Uses(o)
    /\ claim' = [claim EXCEPT ![o] = "held"]

GiveBack(o) ==
    /\ claim[o] = "held"
    /\ stock' = [ v \in Variants |-> stock[v] + Qty[o][v] ]
    /\ used' = used - Uses(o)
    /\ claim' = [claim EXCEPT ![o] = "freed"]

LedgerNext == \E o \in Orders : Take(o) \/ GiveBack(o)

LedgerSpec == LedgerInit /\ [][LedgerNext]_vars

-----------------------------------------------------------------------------
Holders == { o \in Orders : claim[o] = "held" }

\* The units of v that a set of orders has taken, one element for each unit.
Units(S, v) == UNION { {o} \X (1 .. Qty[o][v]) : o \in S }

\* Every unit of every variant is either on the shelf or held by exactly one
\* order: the guarded decrements and increments of create and cancel neither
\* lose a unit nor hand one out twice.
Conservation ==
    \A v \in Variants : stock[v] + Cardinality(Units(Holders, v)) = InitialStock[v]

\* The coupon's usageCount is the number of orders that hold a use of it.
CouponExact == used = Cardinality(Holders \cap Couponed)
=============================================================================
