-------------------------- MODULE MCRequestFraming ---------------------------
(* A buffer of 4 bytes, which a request with a body outgrows once or twice, and *)
(* three requests of every combination of header and body lengths.              *)
EXTENDS RequestFraming
==============================================================================
