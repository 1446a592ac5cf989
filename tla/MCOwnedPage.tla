--------------------------- MODULE MCOwnedPage ---------------------------
EXTENDS OwnedPage, TLC

\* Accounts and permit ids are interchangeable.
Symmetry == Permutations(Accounts) \cup Permutations(PermitIds)
=============================================================================
