---------------------- MODULE MCNetworkServerConnection ----------------------
(* Connections share nothing here, so one is enough: three buffers of two     *)
(* bytes give partial sends, a backlog of several buffers and a gap push.     *)
EXTENDS NetworkServerConnection
==============================================================================
