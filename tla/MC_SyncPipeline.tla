--------------------------- MODULE MC_SyncPipeline ---------------------------
EXTENDS SyncPipeline
MCRidLess(a, b) == FALSE
==============================================================================
