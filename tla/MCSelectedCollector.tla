----------------------- MODULE MCSelectedCollector -----------------------
EXTENDS SelectedCollector, TLC

\* Permit ids are interchangeable.
Symmetry == Permutations(PermitIds)
=============================================================================
