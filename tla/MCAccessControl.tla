-------------------------- MODULE MCAccessControl ---------------------------
EXTENDS AccessControl

CONSTANTS d1, d2, d3

(* Two contents of one CK and one of another.                              *)
TwoKeys == [d \in Decrypts |-> IF d = d3 THEN 2 ELSE 1]
=============================================================================
