---------------------------- MODULE MCHeapStorage ----------------------------
EXTENDS HeapStorage, TLC

\* A small and a large row; three units left in a page hold one of either.
MCRowSize == [r \in Rows |-> IF r = "small" THEN 1 ELSE 2]
=============================================================================
