-------------------------- MODULE MCProbeCapture --------------------------
EXTENDS ProbeCapture, TLC

\* A chunk "v" belongs to a valid result, "x" to somebody else's.
MCWellFormed(k, bytes) == TRUE
MCAccepts(k, bytes) == \A i \in 1..Len(bytes) : bytes[i] = "v"

\* Artifact ids are interchangeable.
Symmetry == Permutations(ArtifactIds)
=============================================================================
