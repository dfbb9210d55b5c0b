---------------------------- MODULE MCVPNServer ----------------------------
EXTENDS VPNServer, TLC
TwoRules == <<"masquerade", "forward_accept">>
Symmetry == Permutations(Helpers) \cup Permutations(Callers)
=============================================================================
