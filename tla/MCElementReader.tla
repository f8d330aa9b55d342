-------------------------- MODULE MCElementReader --------------------------
EXTENDS ElementReader

(* Elements without and with a value, with types and lengths of 1, 3, 5    *)
(* and 9 octets, with a value that ends like a header, and one that is     *)
(* longer than partialData and than the maximum packet size.               *)
Element ==
  {<<5, 0>>, <<6, 2, 5, 253>>, <<253, 1, 0, 1, 7>>, <<6, 253, 0, 2, 6, 1>>,
   <<254, 0, 0, 0, 1, 254, 0, 0, 0, 1, 9>>, <<6, 255, 0, 0, 0, 0, 0, 0, 0, 0>>,
   <<255, 0, 0, 0, 0, 0, 0, 0, 8, 0>>,
   <<6, 12, 5, 0, 5, 0, 5, 0, 5, 0, 5, 0, 5, 0>>}

AllStreams == {<<a, b, c>> : a, b \in Element, c \in {<<5, 0>>, <<253, 1, 0, 1, 7>>}}
=============================================================================
