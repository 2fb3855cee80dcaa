-------------------------- MODULE MCOrderCreation --------------------------
(***************************************************************************)
(* Instance of OrderCreation for TLC: one reference, which is all that the *)
(* lookups and keys distinguish besides service and currency.              *)
(***************************************************************************)
EXTENDS OrderCreation

=============================================================================
