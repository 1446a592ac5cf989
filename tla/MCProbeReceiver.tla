------------------------- MODULE MCProbeReceiver -------------------------
EXTENDS ProbeReceiverProps, TLC

\* A chunk "v" belongs to a valid result, "x" to well-formed bytes of somebody or
\* something else, "z" to bytes that are no result at all.
MCWellFormed(kind, bytes) == \A i \in 1..Len(bytes) : bytes[i] # "z"
MCAccepts(kind, bytes) == \A i \in 1..Len(bytes) : bytes[i] = "v"

\* Browsers, collectors and artifact ids are interchangeable.
Symmetry ==
  Permutations(Browsers) \cup Permutations(Collectors) \cup Permutations(ArtifactIds)
=============================================================================
