----------------------------- MODULE MCWebhook ------------------------------
(* One event more than the channel holds.                                  *)
EXTENDS Webhook, TLC

CONSTANTS e1, e2, e3

MCEvents == {e1, e2, e3}
=============================================================================
