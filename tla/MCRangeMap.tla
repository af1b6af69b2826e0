----------------------------- MODULE MCRangeMap -----------------------------
(* RangeMap on six addresses: room for two entries with a gap and a third   *)
(* range that is cut in the middle, next to, inside or around them.         *)
EXTENDS RangeMap
=============================================================================
