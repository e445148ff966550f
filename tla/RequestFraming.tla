--------------------------- MODULE RequestFraming ----------------------------
(***************************************************************************)
(* How ReadThread() (src/NetworkServer.cpp) cuts the bytes of a connection *)
(* into requests: recv() into _pRxBuff, double the buffer when it is full, *)
(* look for the blank line, parse the header, wait for the body if there   *)
(* is one, hand the request to OnRequest(), and start the buffer again.    *)
(*                                                                         *)
(* Bytes are their positions in what the client has sent; the buffer holds *)
(* the nRxBytes bytes from bufStart on.  A header or body has no blank     *)
(* line inside it, and a header (or what a pipelining client leaves of     *)
(* one) is one that ParseHeader() can read: on a line that lacks a part it *)
(* throws, which ends the process (HeaderThrows in NetworkServer,          *)
(* BadHeader in RtspSession).                                              *)
(*                                                                         *)
(* RtspSession is about the same thread; a module may extend both, so the  *)
(* names of the specification here begin with Framing.                     *)
(***************************************************************************)
EXTENDS Integers, Sequences

CONSTANTS
    InitialSize,    \* _rxBuffSize at the start: 32768 in the build
    HeaderLens,     \* bound: lengths of headers, without the blank line
    BodyLens,       \* bound: values of Content-Length (0: no such field)
    MaxRequests     \* bound: requests the client sends

Blank == 4    \* the length of "\r\n\r\n"

ASSUME SizeAssumption == InitialSize \in Nat \ {0}
ASSUME HeaderAssumption == HeaderLens \subseteq Nat \ {0}
ASSUME BodyAssumption == BodyLens \subseteq Nat

VARIABLES
    sent,         \* the client's requests: where each starts, header, body length
    sentBytes,    \* bytes the client has sent
    bufStart,     \* position of _pRxBuff[0]
    nRxBytes,     \* _nRxBytes
    rxBuffSize,   \* _rxBuffSize
    pContent,     \* what _networkRequest.pContent was copied from: [at, len]
    handled,      \* requests given to OnRequest(), with the pContent it saw
    pipelined     \* history: the client sent a request before its last was handled

framingVars ==
    <<sent, sentBytes, bufStart, nRxBytes, rxBuffSize, pContent, handled, pipelined>>

NoContent == [at |-> -1, len |-> 0]    \* pContent == nullptr

FramingInit ==
    /\ sent = << >>
    /\ sentBytes = 0
    /\ bufStart = 0
    /\ nRxBytes = 0
    /\ rxBuffSize = InitialSize
    /\ pContent = NoContent
    /\ handled = << >>
    /\ pipelined = FALSE

\* Where the blank line of a request is, and where its body starts.
BlankAt(r) == r.at + r.header
BodyAt(r) == BlankAt(r) + Blank

SendRequest(header, body) ==
    /\ Len(sent) < MaxRequests
    /\ sent' = Append(sent, [at |-> sentBytes, header |-> header, body |-> body])
    /\ sentBytes' = sentBytes + header + Blank + body
    /\ pipelined' = (pipelined \/ Len(handled) < Len(sent))
    /\ UNCHANGED <<bufStart, nRxBytes, rxBuffSize, pContent, handled>>
-----------------------------------------------------------------------------
(* One pass of the loop: n bytes received, m in the buffer now. *)

BuffAvail == rxBuffSize - nRxBytes

\* Requests whose blank line the search of the first m bytes finds.
BlanksFound(m) == {i \in 1 .. Len(sent) :
    BlankAt(sent[i]) >= bufStart /\ BodyAt(sent[i]) <= bufStart + m}

\* The header found: that of the first blank line, if it is not at the very start.
HeaderFound(m, i) ==
    /\ i \in BlanksFound(m)
    /\ \A j \in BlanksFound(m) : i <= j
    /\ BlankAt(sent[i]) > bufStart

\* contentLength as ParseHeader() finds it.  Of a header whose start is not in
\* the buffer any more the field may be cut off.
ContentLengths(i) ==
    IF bufStart <= sent[i].at THEN {sent[i].body} ELSE {0, sent[i].body}

\* Mutations of BodyThere: the blank line counted as body; > for >=.
BodyWithBlank(m, i, contentLength) == bufStart + m - BlankAt(sent[i]) >= contentLength

BodyAndMore(m, i, contentLength) ==
    bufStart + m - BodyAt(sent[i]) > contentLength \/ contentLength = 0

\* The request is complete with the m bytes there are.
BodyThere(m, i, contentLength) == bufStart + m - BodyAt(sent[i]) >= contentLength

\* _networkRequest.pContent is only replaced for a request with a body.
Content(i, contentLength) ==
    IF contentLength > 0 THEN [at |-> BodyAt(sent[i]), len |-> contentLength] ELSE pContent

\* A mutation of Grow: the buffer keeps its size.
GrowNever(n) == rxBuffSize' = rxBuffSize

\* if (nBytes == buffAvail) _rxBuffSize <<= 1
Grow(n) == rxBuffSize' = IF n = BuffAvail THEN 2 * rxBuffSize ELSE rxBuffSize

Receive(n) ==
    /\ n <= BuffAvail
    /\ n <= sentBytes - (bufStart + nRxBytes)
    /\ Grow(n)
    /\ UNCHANGED <<sent, sentBytes, pipelined>>

\* recv() completes a request: OnRequest(), then _nRxBytes = 0, which also
\* drops whatever the buffer holds after that request.
Handle(n) ==
    /\ Receive(n)
    /\ \E i \in BlanksFound(nRxBytes + n) : \E contentLength \in ContentLengths(i) :
         /\ HeaderFound(nRxBytes + n, i)
         /\ BodyThere(nRxBytes + n, i, contentLength)
         /\ pContent' = Content(i, contentLength)
         /\ handled' = Append(handled,
              [from |-> bufStart, header |-> BlankAt(sent[i]) - bufStart,
               contentLength |-> contentLength, content |-> pContent'])
    /\ bufStart' = bufStart + nRxBytes + n
    /\ nRxBytes' = 0

\* recv() does not: the bytes are kept.
Keep(n) ==
    /\ Receive(n)
    /\ \A i \in BlanksFound(nRxBytes + n) : HeaderFound(nRxBytes + n, i) =>
         \E contentLength \in ContentLengths(i) : ~BodyThere(nRxBytes + n, i, contentLength)
    /\ nRxBytes' = nRxBytes + n
    /\ UNCHANGED <<bufStart, pContent, handled>>

\* The sizes recv() may return now.
Received == 1 .. (sentBytes - (bufStart + nRxBytes))

ReadRequests == \E n \in Received : Handle(n) \/ Keep(n)

FramingNext ==
    \/ \E header \in HeaderLens, body \in BodyLens : SendRequest(header, body)
    \/ ReadRequests

FramingSpec == FramingInit /\ [][FramingNext]_framingVars

\* What has been sent arrives, in pieces of any size.
FairFramingSpec == FramingSpec /\ WF_framingVars(ReadRequests)
-----------------------------------------------------------------------------
(* Properties *)

FramingTypeOK ==
    /\ sent \in Seq([at : Nat, header : HeaderLens, body : BodyLens])
    /\ sentBytes \in Nat
    /\ bufStart \in Nat
    /\ nRxBytes \in Nat
    /\ rxBuffSize \in Nat
    /\ pContent \in [at : Int, len : Nat]
    /\ handled \in Seq([from : Nat, header : Nat, contentLength : Nat,
                        content : [at : Int, len : Nat]])
    /\ pipelined \in BOOLEAN

\* recv() is never called with no room in the buffer: it would return 0, and
\* the connection would be taken for closed.  (And everything has its type.)
BufferHasRoom == FramingTypeOK /\ nRxBytes < rxBuffSize

\* A client that waits for each answer has every request handled, once, in
\* order, cut where it begins and ends, and with its own body if it has one,
\* whatever pieces it arrives in.
EachRequestExact == ~pipelined => \A i \in 1 .. Len(handled) :
    /\ i <= Len(sent)
    /\ handled[i].from = sent[i].at
    /\ handled[i].header = sent[i].header
    /\ handled[i].contentLength = sent[i].body
    /\ sent[i].body > 0 => handled[i].content = [at |-> BodyAt(sent[i]), len |-> sent[i].body]

\* A client that waits for each answer gets one.
WaitingClientAnswered ==
    (Len(handled) < Len(sent)) ~> (Len(handled) = Len(sent) \/ pipelined)

\* "initialise these values ... in case this object is reused": a request
\* without a body is not handed the body of an earlier one.
NoStaleContent == \A i \in 1 .. Len(handled) :
    handled[i].contentLength = 0 => handled[i].content = NoContent
==============================================================================
