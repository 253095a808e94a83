---------------------------- MODULE MCEtcdRegistry ----------------------------
EXTENDS EtcdRegistry

\* Services are interchangeable.
ServiceSymmetry == Permutations(Services)

=============================================================================
