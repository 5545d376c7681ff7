--------------------------- MODULE MCActionMerger ---------------------------
EXTENDS ActionMerger
=============================================================================
