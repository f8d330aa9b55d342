------------------------------- MODULE MCNode -------------------------------
EXTENDS NodeProperties

CONSTANTS d1, d2, p1, w1, w2

(* An Interest that can end in each way, one with the same wire encoding   *)
(* and a second Data, one without any timeout, one under /local/timeout    *)
(* and one that is too big.                                                *)
Plain == [answers |-> {d1}, under |-> Prefixes, wire |-> w1, onTimeout |-> TRUE,
          onNetworkNack |-> TRUE, lifetime |-> TRUE, local |-> FALSE,
          big |-> FALSE]
Other == [Plain EXCEPT !.answers = Packets, !.onTimeout = FALSE]
Endless == [Plain EXCEPT !.onTimeout = FALSE, !.lifetime = FALSE, !.wire = w2,
                         !.under = {}]
Local == [Plain EXCEPT !.answers = {d2}, !.local = TRUE, !.onNetworkNack = FALSE]
Big == [Plain EXCEPT !.big = TRUE]

\* Over an asynchronous connection, which can fail, and a blocking one.
AsyncInterests == {Plain, Other, Big}
SyncInterests == {Plain, Other, Endless, Local}
=============================================================================
