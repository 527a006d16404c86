------------------------- MODULE MC_OverlayPublisher -------------------------
EXTENDS OverlayPublisher
==============================================================================
