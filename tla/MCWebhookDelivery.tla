------------------------- MODULE MCWebhookDelivery -------------------------
(***************************************************************************)
(* WebhookDelivery on small instances: the lock lasts one unit, and the    *)
(* delays keep the order of _BACKOFF_SECONDS.                              *)
(***************************************************************************)
EXTENDS WebhookDelivery

ShortBackoff == <<1, 2, 3>>
=============================================================================
