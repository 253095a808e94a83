-------------------------- MODULE MCCircuitBreaker --------------------------
EXTENDS CircuitBreaker, TLC

CallerSymmetry == Permutations(Callers)

\* A positive interval, and a negative one: the only setting under which
\* an Open breaker reaches Half-Open (see TimeoutAdmitsProbe).
MCIntervals == {-1, 2}

=============================================================================
