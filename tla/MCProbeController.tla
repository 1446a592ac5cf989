----------------------- MODULE MCProbeController -----------------------
EXTENDS ProbeController
=============================================================================
