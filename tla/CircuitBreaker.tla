-------------------------- MODULE CircuitBreaker --------------------------
(***************************************************************************)
(* The circuit breaker around a call to another service                    *)
(* (shared/http_client.py): how the record changes with the outcome of a   *)
(* call.  The clock is abstracted to three phases: "cooled" is a breaker   *)
(* that opened and whose cooldown has passed since.  In that phase every   *)
(* call goes out, not one: is_open looks at the clock only.                *)
(***************************************************************************)
EXTENDS Naturals

CONSTANT Threshold   \* consecutive failures before the circuit opens

ASSUME ThresholdAssumption == Threshold \in Nat \ {0}

Breaker == [failures : 0..Threshold, phase : {"closed", "open", "cooled"}]

Closed == [failures |-> 0, phase |-> "closed"]

is_open(b) == b.phase = "open"

record_success(b) == Closed

\* The count stops at the threshold: what it is beyond makes no difference.
record_failure(b) ==
    LET n == IF b.failures < Threshold THEN b.failures + 1 ELSE Threshold
    IN  [failures |-> n, phase |-> IF n >= Threshold THEN "open" ELSE b.phase]

cooldown_elapsed(b) == [b EXCEPT !.phase = "cooled"]

=============================================================================
