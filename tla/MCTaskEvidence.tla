---------------------------- MODULE MCTaskEvidence ----------------------------
EXTENDS TaskEvidence

=============================================================================
