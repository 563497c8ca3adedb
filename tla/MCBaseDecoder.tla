--------------------------- MODULE MCBaseDecoder ----------------------------
EXTENDS BaseDecoder
=============================================================================
