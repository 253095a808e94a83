--------------------------- MODULE MCSlidingWindow ---------------------------
EXTENDS SlidingWindow

CallerSymmetry == Permutations(Callers)

=============================================================================
