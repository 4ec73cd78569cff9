-------------------------- MODULE OrderLifecycle --------------------------
(***************************************************************************)
(* What the orders service promises about one order, as its docs state it: *)
(* status changes of an order are serialised, each one is a transition of  *)
(* the state machine, and the payment command a change justifies (refund   *)
(* or settle) is recorded together with it, never apart from it.  Requests,*)
(* row locks, sweeps and crashes do not appear: Orders is shown to         *)
(* implement this module.                                                  *)
(***************************************************************************)
EXTENDS OrderStateMachine, Sequences

CONSTANTS Orders, Absent

VARIABLES status,   \* status[o]: the order's status, Absent before checkout
          commands  \* commands[o]: the payment commands recorded for o

lvars == <<status, commands>>

LInit ==
    /\ status = [o \in Orders |-> Absent]
    /\ commands = [o \in Orders |-> <<>>]

\* Checkout leaves a card order waiting for payment and a COD order paid.
Place(o) ==
    /\ status[o] = Absent
    /\ \E s \in {"PAYMENT_PENDING", "PAYMENT_SUCCESS"} :
          status' = [status EXCEPT ![o] = s]
    /\ UNCHANGED commands

\* The commands a move from `from` to `to` may record: delivery settles;
\* ending a paid order may refund it; anything else moves no money.
Justified(from, to) ==
    CASE to = "DELIVERED" -> {<<"settle">>}
      [] to \in {"CANCELLED", "REJECTED"} /\ from \notin UNPAID_STATES ->
            {<<>>, <<"refund">>}
      [] OTHER -> {<<>>}

Move(o, to) ==
    /\ status[o] \in OrderStatus
    /\ TransitionAllowed(status[o], to)
    /\ status' = [status EXCEPT ![o] = to]
    /\ \E c \in Justified(status[o], to) :
          commands' = [commands EXCEPT ![o] = @ \o c]

LNext == \E o \in Orders : Place(o) \/ \E to \in OrderStatus : Move(o, to)

LSpec == LInit /\ [][LNext]_lvars

=============================================================================
