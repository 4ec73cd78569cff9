---------------------------- MODULE MCPayments ----------------------------
(* Instances of Payments for TLC. *)
EXTENDS Payments

AllCustomerCalls == {"resume", "retry", "confirm"}
ResumeOnly == {"resume"}

=============================================================================
