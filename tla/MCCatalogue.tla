---------------------------- MODULE MCCatalogue ----------------------------
(* An instance of Catalogue for TLC. *)
EXTENDS Catalogue

\* The code's own bounds.
TwoBounds == [b \in 1..2 |-> IF b = 1 THEN 10 ELSE 25]

=============================================================================
