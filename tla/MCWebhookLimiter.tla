--------------------------- MODULE MCWebhookLimiter ---------------------------
(* Model values for checking WebhookLimiter. *)
EXTENDS WebhookLimiter

CONSTANTS ip1, ip2
=============================================================================
