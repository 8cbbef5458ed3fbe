--------------------------- MODULE MCWebhookRuntime ----------------------------
EXTENDS WebhookRuntime
================================================================================
