--------------------------- MODULE MCWebhookIntake ---------------------------
(* Two deliveries for one issue and two worker loops.                      *)
EXTENDS WebhookIntake
=============================================================================
