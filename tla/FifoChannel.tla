----------------------------- MODULE FifoChannel -----------------------------
(***************************************************************************)
(* What NetworkServerConnection promises the code that calls Transmit():   *)
(* the buffers of a connection leave in the order they were handed in,     *)
(* each is settled exactly once (sent, or dropped because the socket       *)
(* failed), and once the connection starts to close at most one more       *)
(* buffer is settled: the one the transmit thread already has in send().   *)
(*                                                                         *)
(* Nothing is promised about when a buffer is settled, nor that it is.     *)
(***************************************************************************)
EXTENDS Naturals, Sequences

CONSTANTS
    Conns,           \* the channels, one per connection
    MaxTransmits     \* bound: buffers handed in on each during a behaviour

VARIABLES
    accepted,   \* number of buffers handed in; buffer i is the i-th one
    pending,    \* buffers handed in and not settled, oldest first
    settled,    \* <<buffer, "sent" or "dropped">>, in the order settled
    phase       \* "open", "closing" (one buffer still inside send), "shut"

vars == <<accepted, pending, settled, phase>>

Outcomes == {"sent", "dropped"}

Init ==
    /\ accepted = [c \in Conns |-> 0]
    /\ pending = [c \in Conns |-> << >>]
    /\ settled = [c \in Conns |-> << >>]
    /\ phase = [c \in Conns |-> "open"]

\* A caller hands in a buffer; the channel takes it in every phase.
Accept(c) ==
    /\ accepted[c] < MaxTransmits
    /\ accepted' = [accepted EXCEPT ![c] = @ + 1]
    /\ pending' = [pending EXCEPT ![c] = Append(@, accepted[c] + 1)]
    /\ UNCHANGED <<settled, phase>>

\* The oldest buffer is disposed of.  A closing channel does this once.
Settle(c, result) ==
    /\ phase[c] # "shut"
    /\ pending[c] # << >>
    /\ pending' = [pending EXCEPT ![c] = Tail(@)]
    /\ settled' = [settled EXCEPT ![c] = Append(@, <<Head(pending[c]), result>>)]
    /\ phase' = [phase EXCEPT ![c] = IF @ = "closing" THEN "shut" ELSE @]
    /\ UNCHANGED accepted

BeginClose(c) ==
    /\ phase[c] = "open"
    /\ \E p \in {"closing", "shut"} : phase' = [phase EXCEPT ![c] = p]
    /\ UNCHANGED <<accepted, pending, settled>>

Next == \E c \in Conns :
    \/ Accept(c)
    \/ BeginClose(c)
    \/ \E result \in Outcomes : Settle(c, result)

Spec == Init /\ [][Next]_vars
==============================================================================
