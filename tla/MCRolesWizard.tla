---- MODULE MCRolesWizard ----
EXTENDS RolesWizard, TLC
Symmetry == Permutations(Slots) \cup Permutations(Assignments)
====
