---------------------------- MODULE MCWebhooks ----------------------------
(* Small instances of Webhooks: two workers and a batch of two events.      *)
EXTENDS Webhooks

CONSTANTS e1, e2, w1, w2
============================================================================
