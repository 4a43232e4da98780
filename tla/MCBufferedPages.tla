--------------------------- MODULE MCBufferedPages ---------------------------
EXTENDS BufferedPages, TLC

Symmetry == Permutations(Data)
=============================================================================
