--------------------------- MODULE MCTCPListener ---------------------------
EXTENDS TCPListener, TLC

CONSTANTS n1, n2

MCNode == {n1, n2}
MCNodeSymmetry == Permutations(MCNode)
=============================================================================
