-------------------------- MODULE MCAdministration --------------------------
EXTENDS Administration, TLC

Symmetry == Permutations(EditRequests)

=============================================================================
