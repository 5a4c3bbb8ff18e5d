--------------------------- MODULE MCStemPipeline ---------------------------
EXTENDS StemPipeline

CONSTANTS A, B, t, u

MCJobIds == 1..3
=============================================================================
