------------------------------ MODULE MCHdSched ------------------------------
EXTENDS HdSched

(* The policies combine two ways to write with two ways to read: these two   *)
(* have all four.  A volume with refusals has LV_NOBBREL and repairs nothing. *)
MCVolumes == {<<"SCH_SEQWRTPARRD", {}>>, <<"SCH_PARWRTSEQRD", {<<NMir, 0>>}>>}
MCNearby == {<<"SCH_PARALLEL", {}>>}
=============================================================================
