--------------------------- MODULE MCNativeHost ---------------------------
EXTENDS NativeHost, TLC

CONSTANTS h1, h2

MCHosts == {h1, h2}

\* A second request of one host is enough for a late reply to meet it.
MCRequests == h1 :> 2 @@ h2 :> 1
=============================================================================
