---------------------------- MODULE MCMembership ----------------------------
EXTENDS Membership, TLC

Anyone == Permutations(Nodes)
=============================================================================
