----------------------------- MODULE MCHdStrat -----------------------------
(* Instances of HdStrat for TLC. *)
EXTENDS HdStrat, TLC

Symmetry == Permutations(Req) \cup Permutations(Page) \cup Permutations(Cpu)
=============================================================================
