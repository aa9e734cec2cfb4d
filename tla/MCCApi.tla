------------------------------- MODULE MCCApi -------------------------------
EXTENDS CApi, TLC

CONSTANTS t1, t2

Symmetry == Permutations(Threads)
=============================================================================
