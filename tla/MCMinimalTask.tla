--------------------------- MODULE MCMinimalTask ----------------------------
EXTENDS MinimalTask
=============================================================================
