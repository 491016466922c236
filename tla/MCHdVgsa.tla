------------------------------ MODULE MCHdVgsa ------------------------------
(* Instances of the VGSA wheel for TLC. *)
EXTENDS HdVgsa, TLC

CONSTANTS r1, r2, r3, c1, m1, m2, l1

(* The copies of a partition are alike, and so are the I/O buffers. *)
Symmetric == Permutations(Req) \cup Permutations(Mirror)
=============================================================================
