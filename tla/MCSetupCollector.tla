------------------------- MODULE MCSetupCollector -------------------------
EXTENDS SetupCollector
=============================================================================
