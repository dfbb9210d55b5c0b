-------------------------- MODULE MCClientSessions --------------------------
EXTENDS ClientSessions, TLC
Symmetry == Permutations(Sess) \cup Permutations(Subscribers) \cup Permutations(Handlers)
=============================================================================
