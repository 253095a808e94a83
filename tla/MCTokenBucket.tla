--------------------------- MODULE MCTokenBucket ---------------------------
(* Model-checking instance of TokenBucket.  Callers and keys are           *)
(* interchangeable model values.                                           *)
EXTENDS TokenBucket

CallerSymmetry == Permutations(Callers)

\* A negative cost, which ReserveN accepts without the n <= 0 guard that
\* AllowN has.
NegativeCosts == {-1, 1}
=============================================================================
