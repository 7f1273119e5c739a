-------------------------- MODULE MCWebhookRelay --------------------------
(* Small instances of WebhookRelay: one event, for events share nothing but *)
(* the queues' slots, and the workers that fight over it.                   *)
EXTENDS WebhookRelay

CONSTANTS e1, w1, w2
============================================================================
