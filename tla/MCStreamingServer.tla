-------------------------- MODULE MCStreamingServer --------------------------
(* An interval of 3 bytes and packets of 0, 2 and 5: an empty one, one inside  *)
(* an interval or across its end, one across one or two.  A length byte of two *)
(* values makes a title of two blocks too long for it.                         *)
EXTENDS StreamingServer

CONSTANT Guest    \* a second player

\* Bound: while the guest is there, one request of each player, or one of one
\* player and a title of one block; and fewer bytes.
GuestStaysShort == life[Guest] = "absent" \/
    /\ titles + MapThenSumSet(LAMBDA c : requests[c], Conns) <= 2 /\ produced <= 4
    /\ \A c \in Conns : requests[c] <= 1 /\ metaData[c][2] <= 1

\* Bound: a player that asks a third time asks for the stream, in a playlist,
\* while there are no titles.
ThirdRequestIsPlain == \A c \in Conns : requests[c] = 3 =>
    titles = 0 /\ streamIdRequested[c] = TheStream /\ answering[c] \in {"none", "m3u"}
==============================================================================
