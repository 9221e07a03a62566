----------------------------- MODULE MCFincloud -----------------------------
\* FincloudSession on the small instances of the configurations.
EXTENDS FincloudSession
=============================================================================
