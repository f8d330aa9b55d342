------------------------ MODULE MCMemoryContentCache ------------------------
EXTENDS MemoryContentCache

CONSTANT p1

Packet(name, component, freshness) ==
  [name |-> name, component |-> component, freshness |-> freshness]
Request(names, child, mustBeFresh, lifetime) ==
  [names |-> names, child |-> child, mustBeFresh |-> mustBeFresh, lifetime |-> lifetime]

(* Data that is stale at once, later and never, below components in order, *)
(* and Interests for the first and for the last of them.                   *)
MixedData == {Packet(1, 1, 0), Packet(2, 2, 1), Packet(3, 3, -1)}
MixedRequests == {Request({1, 2, 3}, 0, TRUE, 1), Request({1, 2, 3}, 1, FALSE, 3)}
=============================================================================
