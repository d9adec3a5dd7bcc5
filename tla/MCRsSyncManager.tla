-------------------------- MODULE MCRsSyncManager ---------------------------
EXTENDS RsSyncManager, TLC

Symmetry == Permutations(Peer) \cup Permutations(Hash)
=============================================================================
