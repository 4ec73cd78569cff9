----------------------------- MODULE MCOrders -----------------------------
(* Instances of Orders for TLC. *)
EXTENDS Orders

\* What the three front ends, the consumers and the operator call: a status
\* the restaurant posts may be any member of the enumeration, and those the
\* state machine can never reach only add refusals.
RealCalls == AllCalls \ [kind : {"advance"}, to : {"CREATED", "PAYMENT_PENDING"}]

OnlyLocked == RealCalls \cap LockedCalls

\* Payment confirmations and the two sweeps: what happens to an order before
\* the kitchen answers, over several orders at once.
SweptCalls == SweepCalls \cup [kind : {"mark_paid"}, to : {"PAYMENT_SUCCESS"}]

\* The customer's cancel alone.
CancelOnly == CancelCalls

=============================================================================
