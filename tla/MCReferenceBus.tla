--------------------------- MODULE MCReferenceBus ---------------------------
\* Small instance of the reference bus.
EXTENDS ReferenceBus, TLC

NodeSymmetry == Permutations(Nodes)
=============================================================================
