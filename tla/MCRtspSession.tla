---------------------------- MODULE MCRtspSession ----------------------------
(* Two connections: a sender that comes back while its old connection is being *)
(* taken down, or another sender.  One of them may break the protocol in every *)
(* way there is, and do so before the list has it.  The other goes on only     *)
(* while it breaks none of it: its first body is an ANNOUNCE's, and it sets up *)
(* its session once it is listed.                                              *)
EXTENDS RtspSession

CONSTANT Polite    \* bound: the connection that goes on only without a breach

OneIsPolite ==
    /\ Polite \notin rude
    /\ hasContent[Polite] = announced[Polite]
    /\ setups[Polite] # 0 => entry[Polite] = "listed"
==============================================================================
