---------------------------- MODULE MCHdMirCach ----------------------------
EXTENDS HdMirCach, TLC
CONSTANTS r1, r2, r3, t1, t2, t3, l1, l2, p1, p2, p3
MCPart == t1 :> l1 @@ t2 :> l2
MCPart3 == t1 :> l1 @@ t2 :> l1 @@ t3 :> l2
MCCopies == l1 :> <<p1, p2>> @@ l2 :> <<p2, p3>>
Symmetry == Permutations(Req)
=============================================================================
