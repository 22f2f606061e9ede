---------------------------- MODULE MCMembership ----------------------------
EXTENDS Membership, TLC

Symmetry == Permutations(Requests)
HumanSymmetry == Permutations(Requests) \cup Permutations(Users \ Bots)
=============================================================================
