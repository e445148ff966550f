--------------------------- MODULE MCAppLifecycle ---------------------------
(* Three players, two of which have the same name; two ports for RTSP servers, *)
(* of which one may also be taken by the streaming server, and the one past    *)
(* the range; two tries.                                                       *)
EXTENDS AppLifecycle, TLC

CONSTANTS d1, d2, d3, n1, n2

MCNameOf == d1 :> n1 @@ d2 :> n2 @@ d3 :> n2

SameName == Permutations({d2, d3})
==============================================================================
