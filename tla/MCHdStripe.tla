------------------------------ MODULE MCHdStripe ------------------------------
(* Instances of HdStripe for TLC: a request of four pieces that starts and    *)
(* ends inside a stripe, and one across two partition sets.  A bad block, if  *)
(* any, is the second of the stripe 2..3, or the first of the stripe 8..9.    *)
EXTENDS HdStripe

MCExtent == {<<1, 6>>, <<7, 2>>}
MCDefects == {{}, {[part |-> 1, blk |-> 1]}, {[part |-> 2, blk |-> 0]}}
=============================================================================
