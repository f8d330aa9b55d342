-------------------------- MODULE MCThreadsafeFace --------------------------
EXTENDS ThreadsafeFace

CONSTANTS d1, p1, w1, t1, t2

\* An Interest that can end in each way, and one that is too big to send.
Plain == [answers |-> {d1}, under |-> Prefixes, wire |-> w1, onTimeout |-> TRUE,
          onNetworkNack |-> TRUE, lifetime |-> TRUE, local |-> FALSE,
          big |-> FALSE]
Big == [Plain EXCEPT !.big = TRUE]

PlainOrBig == {Plain, Big}
=============================================================================
