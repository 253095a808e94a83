----------------------------- MODULE MCEtcdConfig -----------------------------
EXTENDS EtcdConfig

\* Watchers are interchangeable.
WatcherSymmetry == Permutations(Watchers)

=============================================================================
