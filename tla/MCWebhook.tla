----------------------------- MODULE MCWebhook ------------------------------
(* Instances of WebhookDelivery for TLC: one event for one webhook, whose    *)
(* delivery two workers and a sweep share.                                   *)
EXTENDS WebhookDelivery
=============================================================================
