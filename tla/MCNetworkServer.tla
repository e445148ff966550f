--------------------------- MODULE MCNetworkServer ---------------------------
(* Two connections: one can be removed while the other is being accepted, or   *)
(* waits for the list mutex.                                                   *)
EXTENDS NetworkServer

\* Bound: a connection answers a request only while it is alone.  (Transmit()
\* takes its own connection's mutex only.)
OneAnswers == \A c, d \in Conns : c # d /\ transmitted[c] > 0 => life[d] # "alive"
==============================================================================
