--------------------------- MODULE MCReadModels ---------------------------
(* An instance of ReadModels for TLC. *)
EXTENDS ReadModels

LastMile == <<"OUT_FOR_DELIVERY", "DELIVERED">>

=============================================================================
