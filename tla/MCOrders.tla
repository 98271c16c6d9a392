------------------------------ MODULE MCOrders ------------------------------
(***************************************************************************)
(* Instances of the order transactions for TLC.                             *)
(***************************************************************************)
EXTENDS OrderRefinement, TLC

CONSTANTS o1, o2, o3, o4, v1, v2

AllOps == OpNames
ReservationOps == { "create", "cancel", "expire", "payFailed" }
LifecycleOps == { "create", "expire", "pay" }
DeletionOps == { "create", "cancel", "delete" }

\* Every cart asks for one unit of every variant.
UnitCarts == [ o \in Orders |-> [ v \in Variants |-> 1 ] ]

\* o1 and o2 want a unit of each variant, o3 two units of v2, o4 a unit of v1.
MixedCarts ==
    [ o \in Orders |-> [ v \in Variants |->
        CASE o \in {o1, o2} -> 1
          [] o = o3          -> IF v = v2 THEN 2 ELSE 0
          [] OTHER           -> IF v = v1 THEN 1 ELSE 0 ] ]

OneUnit  == [ v \in Variants |-> 1 ]
TwoUnits == [ v \in Variants |-> 2 ]

OwnKeys   == [ o \in Orders |-> o ]
\* o4 is a second attempt with the idempotency key of o1.
RetryKeys == [ o \in Orders |-> IF o = o4 THEN o1 ELSE o ]

OneCustomer == [ o \in Orders |-> "alice" ]
\* o3 is a guest checkout.
GuestThird  == [ o \in Orders |-> IF o = o3 THEN "guest" ELSE "alice" ]

\* A race can return stock twice and be repeated for ever: explore one surplus.
OneSurplusUnit == \A v \in Variants : stock[v] <= InitialStock[v] + 1

ProcSymmetry == Permutations(Procs)
=============================================================================
