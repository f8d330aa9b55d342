-------------------------- MODULE MCSegmentFetcher --------------------------
EXTENDS SegmentFetcher

CONSTANTS v1, v2

(* Two versions with up to three segments, names without or with a bad     *)
(* segment number and names below a segment, each with every FinalBlockId. *)
AllNames ==
  {<<v, n>> : v \in {v1, v2}, n \in 0 .. 2} \cup
  {<<v2>>, <<v2, BadSegment>>, <<v1, 0, 1>>, <<v1, 0, 0>>, <<v1, 1, v1, 1>>, <<v2, 2, 2>>}

AllPackets ==
  [name : AllNames, finalBlock : {NoFinalBlock, BadSegment, 0, 1, 2}, valid : BOOLEAN]
=============================================================================
