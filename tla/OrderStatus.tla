---------------------------- MODULE OrderStatus ----------------------------
(***************************************************************************)
(* The order life cycle as data: the statuses, the transition table that   *)
(* OrdersService.assertTransition consults, and the sets of statuses that  *)
(* the guarded updates of the order and payment services name.             *)
(***************************************************************************)

\* enum OrderStatus; "NONE" stands for a row that was never inserted.
LiveStatuses == { "PENDING", "CONFIRMED", "PROCESSING", "PAID", "SHIPPED",
                  "DELIVERED", "CANCELLED", "REFUNDED", "EXPIRED" }

Statuses == LiveStatuses \cup {"NONE"}

\* enum PaymentStatus, less FAILED, which no code path assigns.
PaymentStatuses == { "PENDING", "PAID", "REFUNDED" }

\* const allowedTransitions
AllowedTransitions ==
    [ s \in LiveStatuses |->
        CASE s = "PENDING"    -> {"CONFIRMED", "PAID", "CANCELLED", "EXPIRED"}
          [] s = "CONFIRMED"  -> {"PROCESSING", "PAID", "CANCELLED"}
          [] s = "PROCESSING" -> {"SHIPPED", "PAID", "CANCELLED"}
          [] s = "PAID"       -> {"CONFIRMED", "PROCESSING", "SHIPPED", "REFUNDED"}
          [] s = "SHIPPED"    -> {"DELIVERED", "REFUNDED"}
          [] s = "DELIVERED"  -> {"REFUNDED"}
          [] OTHER            -> {} ]

\* assertTransition(currentStatus, nextStatus) does not throw.
TransitionAllowed(current, next) ==
    current = next \/ next \in AllowedTransitions[current]

\* ORDER_STATUSES_HOLDING_STOCK
HoldingStock == { "PENDING", "CONFIRMED", "PROCESSING", "PAID" }

\* Mutant: a shipped cash-on-delivery order may still be cancelled.
CodCancellableShipped == { "PENDING", "CONFIRMED", "PROCESSING", "SHIPPED" }

\* The statuses from which a cash-on-delivery order may be cancelled.
CodCancellable == { "PENDING", "CONFIRMED", "PROCESSING" }

\* The statuses whose stock and coupon use have been given back.
Released == { "CANCELLED", "EXPIRED" }
=============================================================================
