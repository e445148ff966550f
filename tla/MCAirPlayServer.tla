--------------------------- MODULE MCAirPlayServer ---------------------------
(* Three connections, two cookies, at most four requests; the buffer holds a   *)
(* POST with the Base64 of one request.                                        *)
EXTENDS AirPlayServer, TLC

CONSTANTS c1, c2, c3, k1, k2

\* Plain sessions, a tunnel, a GET connection that takes a second cookie or posts
\* to itself, two REGISTERs at once, a REGISTER through a tunnel.
MCScripts == {<<"bad", "SETUP">>, <<"REGISTER", "REGISTER">>,
              <<"GET">>, <<"GET", "GET">>, <<"GET", "POST", "FLUSH">>,
              <<"POST">>, <<"POST", "POST">>, <<"POST", "REGISTER">>, <<"POST", "ANNOUNCE", "DESCRIBE">>}

Alike == Permutations({c1, c2, c3}) \cup Permutations({k1, k2})
==============================================================================
