------------------------- MODULE MCDeletionCleanup -------------------------
EXTENDS DeletionCleanup, TLC
=============================================================================
