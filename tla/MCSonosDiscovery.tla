-------------------------- MODULE MCSonosDiscovery --------------------------
(* Two players in one group or two, and a bridge that is never listed; one     *)
(* change of the zone between two searches.  Answers of three bytes through a   *)
(* buffer of two.                                                              *)
EXTENDS SonosDiscovery

MCResponses ==
    {[ok |-> TRUE, line |-> 1, rest |-> 2, length |-> TRUE],
     [ok |-> FALSE, line |-> 1, rest |-> 1, length |-> TRUE]}

\* Bound: the zone does not change in a behaviour with a shutdown, whose steps
\* do not look at it.
ZoneStillAtShutdown == shutdown => changes = 0
==============================================================================
