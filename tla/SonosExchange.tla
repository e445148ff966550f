---------------------------- MODULE SonosExchange ----------------------------
(***************************************************************************)
(* SonosInterface::NetworkRequest() (src/SonosInterface.cpp): one HTTP     *)
(* exchange with a player.  The request is sent; the response is received  *)
(* into rbuff, flushed to respbuff whenever rbuff is full, until the       *)
(* player closes or recv() fails, which it also does after two seconds of  *)
(* silence.  Bytes are their positions in the response.                    *)
(*                                                                         *)
(* The header SonosInterface.h defines NO_SONOS, a switch for testing      *)
(* without players that makes the function return true at once; the model  *)
(* is of the program without it.                                           *)
(***************************************************************************)
EXTENDS Naturals, Sequences

CONSTANTS
    RbSize,         \* rbsize: 4096 in the build
    Responses       \* bound: what a player may answer

VARIABLES
    exchPc,       \* "none", "recv" (in the loop), "done"
    response,     \* the player's answer to the request in hand
    rbuff,        \* positions of the bytes in rbuff
    rbshift, tb,  \* as in the code
    respbuff,     \* positions of the bytes in respbuff
    ended,        \* how the loop ended: "closed" (b == 0), "error"
    success,      \* what is returned
    document

\* No request has been made.
NoResponse == [ok |-> FALSE, line |-> 1, rest |-> 0, length |-> FALSE]

exchVars == <<exchPc, response, rbuff, rbshift, tb, respbuff, ended, success, document>>

ExchInit ==
    /\ exchPc = "none"
    /\ response = NoResponse
    /\ rbuff = [i \in 1 .. RbSize |-> 0]
    /\ rbshift = 0
    /\ tb = 0
    /\ respbuff = << >>
    /\ ended = "closed"
    /\ success = FALSE
    /\ document = << >>

\* connect() and send(); a failure of either is only noticed by recv().
Request(r) ==
    /\ exchPc = "none"
    /\ exchPc' = "recv"
    /\ response' = r
    /\ UNCHANGED <<rbuff, rbshift, tb, respbuff, ended, success, document>>

\* Mutation of Recv: a full buffer is flushed and not emptied.
RecvUnshifted(n) ==
    /\ exchPc = "recv"
    /\ n <= RbSize - rbshift
    /\ tb + n <= response.line + response.rest
    /\ rbuff' = [i \in 1 .. RbSize |->
                   IF i \in rbshift + 1 .. rbshift + n THEN tb + i - rbshift ELSE rbuff[i]]
    /\ tb' = tb + n
    /\ respbuff' = IF rbshift + n = RbSize THEN respbuff \o rbuff' ELSE respbuff
    /\ rbshift' = rbshift + n
    /\ UNCHANGED <<exchPc, response, ended, success, document>>

\* recv() takes n bytes; a buffer that is full goes to respbuff.
Recv(n) ==
    /\ exchPc = "recv"
    /\ n <= RbSize - rbshift
    /\ tb + n <= response.line + response.rest
    /\ rbuff' = [i \in 1 .. RbSize |->
                   IF i \in rbshift + 1 .. rbshift + n THEN tb + i - rbshift ELSE rbuff[i]]
    /\ tb' = tb + n
    /\ IF rbshift + n = RbSize
       THEN respbuff' = respbuff \o rbuff' /\ rbshift' = 0
       ELSE rbshift' = rbshift + n /\ UNCHANGED respbuff
    /\ UNCHANGED <<exchPc, response, ended, success, document>>

\* What was received, as the code puts it together after the loop.
Received == respbuff \o SubSeq(rbuff, 1, rbshift)

\* The status line is complete, says 200 OK, and something follows it.
Accepted == response.ok /\ tb > response.line

\* The loop ends.  headertail is one CRLF, so posdata is the end of the status
\* line: the document begins with the header fields, and the field searched for
\* when the player did not close is searched for in the status line, where it
\* cannot be: cntlen_get stays 0 and cntlen_comp is not.
EndOfExchange(b) ==
    /\ exchPc = "recv"
    /\ exchPc' = "done"
    /\ ended' = b
    /\ success' = Accepted
    /\ document' = IF Accepted /\ b = "closed"
                   THEN SubSeq(Received, response.line + 1, tb)
                   ELSE << >>
    /\ UNCHANGED <<response, rbuff, rbshift, tb, respbuff>>

\* NetworkRequest() returns and its local variables go.
Return ==
    /\ exchPc = "done"
    /\ exchPc' = "none"
    /\ response' = NoResponse
    /\ rbuff' = [i \in 1 .. RbSize |-> 0]
    /\ rbshift' = 0
    /\ tb' = 0
    /\ respbuff' = << >>
    /\ ended' = "closed"
    /\ success' = FALSE
    /\ document' = << >>

Loop ==
    \/ \E n \in 1 .. RbSize : Recv(n)
    \/ \E b \in {"closed", "error"} : EndOfExchange(b)

ExchTypeOK ==
    /\ exchPc \in {"none", "recv", "done"}
    /\ response \in Responses \cup {NoResponse}
    /\ rbuff \in [1 .. RbSize -> Nat]
    /\ rbshift \in 0 .. RbSize - 1
    /\ tb \in 0 .. response.line + response.rest
    /\ respbuff \in Seq(Nat) /\ document \in Seq(Nat)
    /\ ended \in {"closed", "error"}
    /\ success \in BOOLEAN

\* However recv() cuts the response and wherever the buffer's end falls, what is
\* analysed is the bytes received, each once and in order; so the document is
\* the response from the end of its status line.
BytesInOrder ==
    /\ Received = [i \in 1 .. tb |-> i]
    /\ document # << >> => document = [i \in 1 .. tb - response.line |-> response.line + i]

\* "get content length from http header to check if number of received data is
\* equal to number of sent data": a complete answer with a right Content-Length
\* from a player that keeps its connection open is a document.
LengthIsChecked ==
    exchPc = "done" /\ success /\ ended = "error" /\ response.length
    /\ tb = response.line + response.rest => document # << >>
==============================================================================
