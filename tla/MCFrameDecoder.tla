-------------------------- MODULE MCFrameDecoder --------------------------
EXTENDS FrameDecoder

\* Bodies with a 0 are messages, any others are rejected.
MCMessages == {b \in Bodies : \E i \in DOMAIN b : b[i] = 0}

MCWeight == <<1, Base, Base * Base>>
=============================================================================
