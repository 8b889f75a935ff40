------------------------------ MODULE MCAdminOps ------------------------------
EXTENDS AdminOps, TLC

Symmetry == Permutations(Calls) \cup Permutations(Parts) \cup Permutations(PresetIds)
=============================================================================
