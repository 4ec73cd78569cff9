------------------------- MODULE OrderStateMachine -------------------------
(***************************************************************************)
(* The order state machine of the orders service: the enumerations of      *)
(* services/orders/app/models.py and the transition and refund rules of    *)
(* services/orders/app/state_machine.py.  Pure definitions, no state.      *)
(***************************************************************************)

OrderStatus ==
    {"CREATED", "PAYMENT_PENDING", "PAYMENT_SUCCESS", "RESTAURANT_ACCEPTED",
     "PREPARING", "READY_FOR_PICKUP", "OUT_FOR_DELIVERY", "DELIVERED",
     "COMPLETED", "CANCELLED", "REJECTED"}

\* FAILED is never written by the orders service; PARTIAL refunds neither.
PaymentStatus == {"PENDING", "SUCCESS", "FAILED", "REFUNDED"}
RefundStatus == {"NONE", "FULL", "PARTIAL"}
Actor == {"CUSTOMER", "RESTAURANT", "DRIVER", "SYSTEM"}
PaymentMethod == {"COD", "CARD"}

\* ALLOWED[s]: the statuses an order may move to from s.
ALLOWED ==
    [s \in OrderStatus |->
        CASE s = "CREATED"             -> {"PAYMENT_PENDING", "CANCELLED"}
          [] s = "PAYMENT_PENDING"     -> {"PAYMENT_SUCCESS", "CANCELLED"}
          [] s = "PAYMENT_SUCCESS"     -> {"RESTAURANT_ACCEPTED", "CANCELLED", "REJECTED"}
          [] s = "RESTAURANT_ACCEPTED" -> {"PREPARING", "CANCELLED"}
          [] s = "PREPARING"           -> {"READY_FOR_PICKUP", "CANCELLED"}
          [] s = "READY_FOR_PICKUP"    -> {"OUT_FOR_DELIVERY", "CANCELLED"}
          [] s = "OUT_FOR_DELIVERY"    -> {"DELIVERED", "CANCELLED"}
          [] s = "DELIVERED"           -> {"COMPLETED"}
          [] s \in {"COMPLETED", "CANCELLED", "REJECTED"} -> {}]

PRE_PREP_STATES ==
    {"CREATED", "PAYMENT_PENDING", "PAYMENT_SUCCESS", "RESTAURANT_ACCEPTED"}

UNPAID_STATES == {"CREATED", "PAYMENT_PENDING"}

\* assert_transition_allowed: the check every apply_transition makes.
TransitionAllowed(current, to) == to \in ALLOWED[current]

customer_cancel_allowed(current) == current \in PRE_PREP_STATES

\* Mutant: money that was never taken is refunded too.
refund_on_cancel_phantom(current, actor) ==
    IF actor \in {"SYSTEM", "CUSTOMER"} \/ current \in PRE_PREP_STATES
    THEN "FULL" ELSE "NONE"

\* What a cancellation from `current` by `actor` gives back.
refund_on_cancel(current, actor) ==
    IF /\ current \notin UNPAID_STATES
       /\ actor \in {"SYSTEM", "CUSTOMER"} \/ current \in PRE_PREP_STATES
    THEN "FULL" ELSE "NONE"

=============================================================================
