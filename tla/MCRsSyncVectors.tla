-------------------------- MODULE MCRsSyncVectors ---------------------------
EXTENDS RsSyncVectors

Symmetry == Permutations(Peer) \cup Permutations(Hash)
=============================================================================
