------------------------- MODULE MCWebhookDelivery -------------------------
(***************************************************************************)
(* Instances of WebhookDelivery for TLC: two webhooks and two attempts   *)
(* stand for any number and for five.                                      *)
(***************************************************************************)
EXTENDS WebhookDelivery

=============================================================================
