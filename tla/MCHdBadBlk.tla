----------------------------- MODULE MCHdBadBlk -----------------------------
EXTENDS HdBadBlk, TLC
CONSTANTS q1, q2
Symmetry == Permutations(Req)
=============================================================================
