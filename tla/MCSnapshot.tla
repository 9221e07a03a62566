----------------------------- MODULE MCSnapshot -----------------------------
\* SnapshotRefresh on the small instances of the configurations.
EXTENDS SnapshotRefresh
=============================================================================
