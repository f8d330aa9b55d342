---------------------------- MODULE MCChronoSync ----------------------------
EXTENDS ChronoSync

CONSTANTS a, b, c

(* Instances of different prefixes.                                        *)
OwnPrefix == [p \in Instances |-> p]
Session1 == [p \in Instances |-> 1]
NotGiven == [p \in Instances |-> -1]

(* c is a, started again with the same prefix and session.                 *)
SharedPrefix == [p \in Instances |-> IF p = c THEN a ELSE p]

(* c has published 0 before.                                               *)
GivenToC == [p \in Instances |-> IF p = c THEN 0 ELSE -1]

(* a publishes 1 after 0.                                                  *)
OneOfA == [p \in Instances |-> IF p = a THEN 1 ELSE 0]
=============================================================================
