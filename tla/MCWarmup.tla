------------------------------ MODULE MCWarmup ------------------------------
(***************************************************************************)
(* The warm-up cache with a few tags, indexes and contents.                *)
(***************************************************************************)
EXTENDS WarmupTop

CONSTANTS t0, t1, i0, i1

(* Two blocks that compete for an index, or two of different indexes. *)
TwoBlocks ==
  LET B(t, i) == [tag |-> t, index |-> i]
  IN  {{B(t0, i0), B(t1, i0)}, {B(t1, i0), B(t1, i1)}}
=============================================================================
