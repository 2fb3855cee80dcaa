-------------------------- MODULE MCWalletCheckout --------------------------
(***************************************************************************)
(* Instance of WalletCheckout for TLC: one user who may get two wallets,   *)
(* one order, one funding, one sync and two payments of the order, each of *)
(* all or of half of what an account is given.                             *)
(***************************************************************************)
EXTENDS WalletCheckout

=============================================================================
