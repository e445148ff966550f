---------------------------- MODULE AirPlayServer ----------------------------
(***************************************************************************)
(* The RTSP server of src/AirPlayRTSPServer.cpp, which the repository keeps *)
(* beside the one it builds: one event loop (live555) that reads sockets,  *)
(* AirPlayRTSPClientConnection objects that frame and handle requests,     *)
(* RTSP-over-HTTP tunnels (a GET connection that answers go out of, a POST *)
(* connection whose Base64 data is its input), REGISTER with its delayed   *)
(* task, and the audio threads of SETUP.  The server is the one of class   *)
(* AirPlayRTSPServerWithREGISTERProxying, without an authentication        *)
(* database (the default).                                                 *)
(*                                                                         *)
(* Data is in units of a third of a request's head: a request has three    *)
(* units of head, the last of which ends it, and those of its body; three  *)
(* units are four characters of Base64.                                    *)
(***************************************************************************)
EXTENDS Integers, SequencesExt

CONSTANTS
    Conns,       \* bound: connections; the socket accepted for one has its name
    Cookies,     \* session cookies of the clients
    None,        \* no connection, socket or cookie; -1 and NULL in the code
    Scripts,     \* the kinds of requests clients write, one after the other, to a socket
    MaxSent,     \* bound: requests written
    MaxLost,     \* bound: connections closed by their clients
    MaxPending,  \* bound: streams being registered with others
    Reads,       \* bound: what one read returns, if not all there is
    BufferSize   \* REQUEST_BUFFER_SIZE

\* What the server tells apart of a request
Kinds == {"ANNOUNCE", "SET_PARAMETER", "OPTIONS", "CHALLENGE", "FLUSH", "PLAY", "DESCRIBE",
          "SETUP", "REGISTER", "GET", "POST", "bad"}

ASSUME NoneAssumption == None \notin Conns \cup Cookies
ASSUME ConnsAssumption == IsFiniteSet(Conns)
ASSUME ScriptsAssumption == \A script \in Scripts : script \in Seq(Kinds)
ASSUME BoundsAssumption == MaxPending \in Nat /\ BufferSize \in Nat

VARIABLES
    conn,        \* the AirPlayRTSPClientConnection objects
    sock,        \* what the server did with a socket
    watch,       \* the object whose handler the event loop calls for a socket
    table,       \* fClientConnectionsForHTTPTunneling
    delayed,     \* the scheduled ParamsForREGISTER
    proxied,     \* a REGISTER has added its ServerMediaSession
    pending,     \* fPendingRegisterRequests: how many RegisterRequestRecords
    up,          \* the AirPlayRTSPServer exists
    stack,       \* the calls of handleRequestBytes() that run, the innermost last
    fault,       \* what undefined behaviour has met, "none"
    sent,        \* history: the requests written to each socket
    wire,        \* what of them the server has not read
    lost,        \* sockets the client has closed
    handled,     \* history: the requests each object has handled
    replies      \* history: the answers written to each socket

application == <<pending, up>>
serverVars == <<conn, sock, watch, table, delayed, proxied, stack, fault, handled, replies,
                application>>
vars == <<serverVars, sent, wire, lost>>

Bodied == {"ANNOUNCE", "SET_PARAMETER"}
OfCookie == {"GET", "POST"}

\* The n-th request written to a socket, and what is not a request
Id(s, n) == [on |-> s, n |-> n]
Garbage == Id(None, 0)
NotOne == [kind |-> "bad", cookie |-> None]
Ask(id) == IF id = Garbage THEN NotOne ELSE sent[id.on][id.n]
BodySize(r) == IF r.kind \in Bodied THEN 3 ELSE 0

Unit(id, i, coded) == <<id, i, coded>>
Plain(id, r) == [i \in 1 .. 3 + BodySize(r) |-> Unit(id, i, FALSE)]
Base64(id, r) == [i \in 1 .. 4 + (4 * BodySize(r)) \div 3 |-> Unit(id, i, TRUE)]

\* The constructor; fResponseBuffer is not initialised.
NewObject(c) ==
    [obj |-> "live", in |-> c, out |-> c, active |-> TRUE, cookie |-> None, buf |-> <<>>,
     rem |-> 0, resp |-> [to |-> Garbage, status |-> "unset"], config |-> FALSE, threads |-> 0]

NoObject == [NewObject(None) EXCEPT !.obj = "none"]

Init ==
    /\ conn = [c \in Conns |-> NoObject]
    /\ sock = [c \in Conns |-> "none"]
    /\ watch = [c \in Conns |-> None]
    /\ table = [k \in Cookies |-> None]
    /\ delayed = {}
    /\ proxied = FALSE
    /\ pending = 0
    /\ up = TRUE
    /\ stack = <<>>
    /\ fault = "none"
    /\ sent = [c \in Conns |-> <<>>]
    /\ wire = [c \in Conns |-> <<>>]
    /\ lost = {}
    /\ handled = [c \in Conns |-> <<>>]
    /\ replies = [c \in Conns |-> <<>>]

Live(c) == conn[c].obj = "live"
Deleted(c) == c # None /\ conn[c].obj = "deleted"
EventLoop == fault = "none" /\ stack = <<>>
Serving == EventLoop /\ up

\* A member of something that was deleted is used.
Fault(what) ==
    /\ fault' = what
    /\ UNCHANGED <<conn, sock, watch, table, delayed, proxied, stack, handled, replies,
                   sent, wire, lost, application>>

\* fRequestBufferBytesLeft
Left(c) == BufferSize - Len(conn[c].buf)
-----------------------------------------------------------------------------
(* The clients.  What follows a POST on its socket is Base64.                  *)

HasSent(s, kind) == \E i \in DOMAIN sent[s] : sent[s][i].kind = kind
SentCount == LET Add(s, n) == n + Len(sent[s]) IN FoldSet(Add, 0, Conns)

\* All a client writes to its socket is there at once; that it comes later, or
\* after an answer, is a matter of how much a read returns.
Written(s, rs) ==
    LET coded(i) == \E j \in 1 .. i - 1 : rs[j].kind = "POST"
        units(i) == IF coded(i) THEN Base64(Id(s, i), rs[i]) ELSE Plain(Id(s, i), rs[i])
    IN FlattenSeq([i \in DOMAIN rs |-> units(i)])

ClientWrites(s, script, ks) ==
    LET rs == [i \in DOMAIN script |-> [kind |-> script[i], cookie |-> ks[i]]]
    IN /\ Serving
       /\ sock[s] = "open" /\ s \notin lost /\ sent[s] = <<>>
       /\ SentCount + Len(script) <= MaxSent
       /\ \A i \in DOMAIN script : ks[i] # None <=> script[i] \in OfCookie
       /\ sent' = [sent EXCEPT ![s] = rs]
       /\ wire' = [wire EXCEPT ![s] = Written(s, rs)]
       /\ UNCHANGED <<serverVars, lost>>

ClientCloses(s) ==
    /\ Serving
    /\ sock[s] = "open" /\ s \notin lost
    /\ Cardinality(lost) < MaxLost
    /\ lost' = lost \cup {s}
    /\ UNCHANGED <<serverVars, sent, wire>>

\* createNewClientConnection()
NewConnection(c) ==
    /\ conn[c].obj = "none"
    /\ conn' = [conn EXCEPT ![c] = NewObject(c)]
    /\ sock' = [sock EXCEPT ![c] = "open"]
    /\ watch' = [watch EXCEPT ![c] = c]

\* For a socket accepted on the RTSP or, with setUpTunnelingOverHTTP(), the HTTP port
Accept(c) ==
    /\ Serving
    /\ NewConnection(c)
    /\ UNCHANGED <<table, delayed, proxied, stack, fault, handled, replies, sent, wire, lost,
                   application>>
-----------------------------------------------------------------------------
(* handleRequestBytes() *)

Frame(c, new) == [c |-> c, new |-> new, pipelined |-> FALSE, pc |-> "bytes"]
Top == Last(stack)
At(c, pc) == fault = "none" /\ stack # <<>> /\ Top.c = c /\ Top.pc = pc
Goto(pc) == stack' = [stack EXCEPT ![Len(stack)].pc = pc]

\* The event loop reads what has arrived on a watched socket, at most
\* fRequestBufferBytesLeft of it.
Receive(s, n) ==
    LET c == watch[s]
    IN /\ EventLoop
       /\ c \in Conns /\ wire[s] # <<>>
       /\ IF Deleted(c) THEN n = 1 /\ Fault("socket")
          ELSE /\ n \in Reads \cup {Len(wire[s]), Left(c)} /\ n <= Len(wire[s]) /\ n <= Left(c)
               /\ conn' = [conn EXCEPT ![c].buf = @ \o SubSeq(wire[s], 1, n)]
               /\ wire' = [wire EXCEPT ![s] = SubSeq(@, n + 1, Len(@))]
               /\ stack' = <<Frame(c, n)>>
               /\ UNCHANGED <<sock, watch, table, delayed, proxied, fault, handled, replies,
                              sent, lost, application>>

\* The read fails: handleRequestBytes(-1).
ReceiveFails(s) ==
    LET c == watch[s]
    IN /\ EventLoop
       /\ c \in Conns /\ s \in lost /\ wire[s] = <<>>
       /\ IF Deleted(c) THEN Fault("socket")
          ELSE /\ conn' = [conn EXCEPT ![c].active = FALSE]
               /\ stack' = <<[Frame(c, 0) EXCEPT !.pc = "leave"]>>
               /\ UNCHANGED <<sock, watch, table, delayed, proxied, fault, handled, replies,
                              sent, wire, lost, application>>

\* The new bytes are no fewer than there was room for: they fill the buffer.
TooBig(c) ==
    /\ At(c, "bytes")
    /\ Left(c) = 0
    /\ conn' = [conn EXCEPT ![c].active = FALSE]
    /\ Goto("leave")
    /\ UNCHANGED <<sock, watch, table, delayed, proxied, fault, handled, replies, sent, wire,
                   lost, application>>

Tunnelled(c) == conn[c].in # conn[c].out

\* base64Decode() of whole groups of four characters
Decode(s) ==
    [i \in 1 .. 3 * (Len(s) \div 4) |->
        LET g == 4 * ((i - 1) \div 3) + 1
            id == s[g][1]
            at == s[g][2]
        IN IF at % 4 = 1 /\ SubSeq(s, g, g + 3) = [j \in 1 .. 4 |-> Unit(id, at + j - 1, TRUE)]
           THEN Unit(id, (3 * (at - 1)) \div 4 + 1 + ((i - 1) % 3), FALSE)
           ELSE Unit(Garbage, 0, FALSE)]

\* Mutation of Remainder: of the new bytes alone.
RemainderOfNew(c, new) == new % 4

\* What is left after whole groups of the remainder and the new bytes
Remainder(c, new) == (conn[c].rem + new) % 4

\* The buffer after Base64 decoding of them, in place.  The white space that is taken
\* out first is left out: these clients write none.
DecodeInPlace(c, new) ==
    LET b == conn[c].buf
        from == Len(b) - new - conn[c].rem
        to == Len(b) - Remainder(c, new)
    IN SubSeq(b, 1, from) \o Decode(SubSeq(b, from + 1, to)) \o SubSeq(b, to + 1, Len(b))

\* Where the first <CR><LF><CR><LF> of b is, 0 if there is none.
EndOfMsg(b) == SelectInSeq(b, LAMBDA u : u[2] = 3 /\ ~u[3])

\* parseRTSPRequestString() or parseHTTPRequestString() of a head; a head that
\* is not as it was written parses as neither.
Parse(b) ==
    LET id == b[EndOfMsg(b)][1]
    IN IF SubSeq(b, 1, EndOfMsg(b)) = [i \in 1 .. 3 |-> Unit(id, i, FALSE)] THEN id ELSE Garbage

\* A complete request is in the buffer, its body included.
Complete(b) == EndOfMsg(b) # 0 /\ Len(b) >= EndOfMsg(b) + BodySize(Ask(Parse(b)))

\* Tunnelled bytes are decoded, except those left after a pipelined request,
\* which are already; while a part of a group remains no end is looked for.
Scan(c) ==
    LET decodes == Tunnelled(c) /\ ~Top.pipelined
        b == IF decodes THEN DecodeInPlace(c, Top.new) ELSE conn[c].buf
        rem == IF decodes THEN Remainder(c, Top.new) ELSE conn[c].rem
    IN /\ At(c, "bytes")
       /\ Left(c) > 0
       /\ conn' = [conn EXCEPT ![c].buf = b, ![c].rem = rem]
       /\ Goto(IF rem = 0 /\ Complete(b) THEN "request" ELSE "leave")
       /\ UNCHANGED <<sock, watch, table, delayed, proxied, fault, handled, replies, sent,
                      wire, lost, application>>

\* The request of the call on top, and what follows it
RequestId(c) == Parse(conn[c].buf)
Request(c) == Ask(RequestId(c))
RequestSize(c) == EndOfMsg(conn[c].buf) + BodySize(Request(c))
Rest(c) == SubSeq(conn[c].buf, RequestSize(c) + 1, Len(conn[c].buf))
Handles(c, kind) == At(c, "request") /\ Request(c).kind = kind

\* The response is sent and the request removed; what follows it is handled next.
\* o is the object with what the handler did to it.
Finish(c, o) ==
    LET rest == Rest(c)
    IN /\ conn' = [conn EXCEPT ![c] = [o EXCEPT !.buf = rest, !.rem = 0]]
       /\ replies' = [replies EXCEPT ![o.out] = Append(@, o.resp)]
       /\ handled' = [handled EXCEPT ![c] = Append(@, RequestId(c))]
       /\ stack' = [stack EXCEPT ![Len(stack)] =
                       IF rest = <<>> THEN [@ EXCEPT !.pc = "leave"]
                       ELSE [Frame(c, Len(rest)) EXCEPT !.pipelined = TRUE]]
       /\ UNCHANGED <<sock, watch, fault, sent, wire, lost, application>>

Responds(c, status) ==
    [conn[c] EXCEPT !.resp = [to |-> RequestId(c), status |-> status]]

\* The rest of the members
Quiet == UNCHANGED <<table, delayed, proxied>>

(* The RTSP commands *)

\* handleCmd_ANNOUNCE() stores the keys and the codec parameters of the session.
Announce(c) ==
    /\ Handles(c, "ANNOUNCE")
    /\ Finish(c, [Responds(c, "ok") EXCEPT !.config = TRUE])
    /\ Quiet

\* Commands that are only answered.  OPTIONS with an Apple-Challenge: signed with
\* the server's key.  FLUSH: without the blank line that ends an answer.  PLAY and
\* its like belong to a session, and no session is ever made.
OptionsStatus(kind) == IF kind = "CHALLENGE" THEN "signed" ELSE "ok"
FlushStatus == "unended"
AnswerTo(kind) ==
    CASE kind = "FLUSH" -> FlushStatus
      [] kind = "PLAY" -> "sessionNotFound"
      [] OTHER -> OptionsStatus(kind)
AnswerOnly(c) ==
    /\ \E kind \in {"OPTIONS", "CHALLENGE", "SET_PARAMETER", "FLUSH", "PLAY"} :
          Handles(c, kind) /\ Finish(c, Responds(c, AnswerTo(kind)))
    /\ Quiet

\* handleCmd_DESCRIBE() of the stream that REGISTER may have added
Describe(c) ==
    /\ Handles(c, "DESCRIBE")
    /\ Finish(c, Responds(c, IF proxied THEN "sdp" ELSE "notFound"))
    /\ Quiet

\* handleCmd_SETUP(): new sockets and an audio thread; if a socket was not bound
\* fResponseBuffer is left as it is and sent again.
Setup(c) ==
    /\ Handles(c, "SETUP")
    /\ Finish(c, [Responds(c, "ok") EXCEPT !.threads = @ + 1])
    /\ Quiet

SetupFails(c) ==
    /\ Handles(c, "SETUP")
    /\ Finish(c, conn[c])
    /\ Quiet

\* What the "Transport:" header of a REGISTER may say: reuse_connection, or not
ReuseConnection == BOOLEAN

WeImplementREGISTER == ~proxied
ImplementREGISTER == proxied' = TRUE

\* handleCmd_REGISTER(), all with one proxy_url_suffix: weImplementREGISTER() looks
\* for the stream now, the delayed task adds it later.
Register(c, reuse) ==
    /\ Handles(c, "REGISTER")
    /\ IF WeImplementREGISTER
       THEN /\ Finish(c, Responds(c, "ok"))
            /\ delayed' = delayed \cup {[c |-> c, of |-> RequestId(c), reuse |-> reuse]}
       ELSE Finish(c, Responds(c, "invalid")) /\ UNCHANGED delayed
    /\ UNCHANGED <<table, proxied>>

\* Neither RTSP nor HTTP: handleCmd_bad()
Bad(c) ==
    /\ Handles(c, "bad")
    /\ Finish(c, Responds(c, "bad"))
    /\ Quiet
-----------------------------------------------------------------------------
(* RTSP over HTTP *)

\* The "x-sessioncookie:" header of a request
SessionCookie(c) == Request(c).cookie

\* handleHTTPCmd_TunnelingGET(): the cookie replaces the one the object has; the
\* table's entry of that one stays.
TunnelingGET(c) ==
    LET k == SessionCookie(c)
    IN /\ Handles(c, "GET")
       /\ table' = [table EXCEPT ![k] = c]
       /\ Finish(c, [Responds(c, "ok") EXCEPT !.cookie = k])
       /\ UNCHANGED <<delayed, proxied>>

\* handleHTTPCmd_TunnelingPOST() without an earlier GET: the object is deleted
\* once what is in the buffer has been handled.
PostUnknown(c) ==
    /\ Handles(c, "POST") /\ table[SessionCookie(c)] = None
    /\ Finish(c, [Responds(c, "notSupported") EXCEPT !.active = FALSE])
    /\ Quiet

PostDangling(c) ==
    /\ Handles(c, "POST") /\ Deleted(table[SessionCookie(c)])
    /\ Fault("cookie")

\* changeClientInputSocket() of the object of the GET, which also handles the
\* bytes after the POST, within this call.
Rewatch(old, new, prev) == [[s \in Conns |-> IF s = old THEN None ELSE watch[s]] EXCEPT ![new] = prev]
TunnelingPOST(c) ==
    LET prev == table[SessionCookie(c)]
        extra == Rest(c)
        room == extra # <<>> /\ Len(extra) <= Left(prev)
        posted == [stack EXCEPT ![Len(stack)].pc = "posted"]
    IN /\ Handles(c, "POST") /\ prev # None /\ Live(prev)
       /\ watch' = Rewatch(conn[prev].in, conn[c].in, prev)
       /\ conn' = [conn EXCEPT ![prev].in = conn[c].in,
                              ![prev].buf = IF room THEN @ \o extra ELSE @]
       /\ handled' = [handled EXCEPT ![c] = Append(@, RequestId(c))]
       /\ stack' = IF room THEN Append(posted, Frame(prev, Len(extra))) ELSE posted
       /\ UNCHANGED <<sock, table, delayed, proxied, fault, replies, sent, wire, lost,
                      application>>

\* Mutation of Posted: the socket is not given up.
PostedKeepsSocket(c) ==
    /\ At(c, "posted")
    /\ conn' = [conn EXCEPT ![c].active = FALSE]
    /\ Goto("leave")
    /\ UNCHANGED <<sock, watch, table, delayed, proxied, fault, handled, replies, sent, wire,
                   lost, application>>

\* The POST's object gives up its socket and goes away.
Posted(c) ==
    /\ At(c, "posted")
    /\ conn' = [conn EXCEPT ![c].in = None, ![c].out = None, ![c].active = FALSE]
    /\ Goto("leave")
    /\ UNCHANGED <<sock, watch, table, delayed, proxied, fault, handled, replies, sent, wire,
                   lost, application>>
-----------------------------------------------------------------------------
(* The end of a connection *)

\* disableBackgroundHandling() and closeSocket(); closing twice is a fault.
Closing(S) ==
    /\ sock' = [s \in Conns |-> IF s \in S THEN "closed" ELSE sock[s]]
    /\ watch' = [s \in Conns |-> IF s \in S THEN None ELSE watch[s]]
    /\ fault' = IF \E s \in S : sock[s] # "open" THEN "closedTwice" ELSE fault

\* Mutation of Forgotten: the cookie stays.
KeptCookie(c) == table

\* ~AirPlayRTSPClientConnection() takes its cookie out of the table; the audio
\* threads go on.
Forgotten(c) == [table EXCEPT ![conn[c].cookie] = None]
Destroyed(c) == [conn[c] EXCEPT !.obj = "deleted", !.in = None, !.out = None]
OwnSockets(c) == {conn[c].in, conn[c].out} \ {None}

\* An inner call closes the input socket only and leaves the deletion to the outermost.
Leave(c) ==
    LET outer == Front(stack)
        inner == \E i \in DOMAIN outer : outer[i].c = c
    IN /\ At(c, "leave")
       /\ stack' = outer
       /\ CASE conn[c].active ->
                 UNCHANGED <<conn, sock, watch, table, fault>>
            [] ~conn[c].active /\ inner ->
                 /\ Closing({conn[c].in} \ {None})
                 /\ conn' = [conn EXCEPT ![c].in = None]
                 /\ UNCHANGED table
            [] ~conn[c].active /\ ~inner ->
                 /\ Closing(OwnSockets(c))
                 /\ conn' = [conn EXCEPT ![c] = Destroyed(c)]
                 /\ table' = IF conn[c].cookie = None THEN table ELSE Forgotten(c)
       /\ UNCHANGED <<delayed, proxied, handled, replies, sent, wire, lost, application>>

\* continueHandlingREGISTER(): with reuse_connection the object goes and its
\* output socket becomes the proxy's, which watches it; then the stream is added,
\* which a server that is gone does not survive.
ContinueRegister(p) ==
    LET s == conn[p.c].out
    IN /\ EventLoop
       /\ IF Deleted(p.c) THEN Fault("register")
          ELSE /\ IF p.reuse /\ s # None
                  THEN /\ conn' = [conn EXCEPT ![p.c] = Destroyed(p.c)]
                       /\ table' = IF conn[p.c].cookie = None THEN table ELSE Forgotten(p.c)
                       /\ sock' = [sock EXCEPT ![s] = "given"]
                       /\ watch' = [watch EXCEPT ![s] = None]
                  ELSE UNCHANGED <<conn, table, sock, watch>>
               /\ ImplementREGISTER
               /\ delayed' = delayed \ {p}
               /\ UNCHANGED <<stack, fault, handled, replies, sent, wire, lost, application>>

\* AudioThread(), also in the middle of an event: nobody sets _stopAudioThread or
\* joins it.  A datagram from anybody, shorter than the header that is skipped, is
\* copied by a negative length.
AudioThread(c) ==
    /\ fault = "none" /\ conn[c].threads > 0
    /\ \/ Deleted(c) /\ Fault("audio")
       \/ Live(c) /\ ~conn[c].config /\ Fault("config")
       \/ Live(c) /\ Fault("datagram")
-----------------------------------------------------------------------------
(* The application *)

\* registerStream() asks another server to fetch a stream from this one; if it
\* agrees, its connection is one of ours from then on.
RegisterStream ==
    /\ Serving /\ pending < MaxPending
    /\ pending' = pending + 1
    /\ UNCHANGED <<conn, sock, watch, table, delayed, proxied, stack, fault, handled, replies, up,
                   sent, wire, lost>>

HandleResponse(c) ==
    /\ Serving /\ pending > 0
    /\ pending' = pending - 1
    /\ NewConnection(c) \/ UNCHANGED <<conn, sock, watch>>
    /\ UNCHANGED <<table, delayed, proxied, stack, fault, handled, replies, up, sent, wire, lost>>

\* ~AirPlayRTSPServer() deletes the table of cookies before the connections, which
\* take theirs out of it, and then what is pending.
DeleteServer ==
    /\ Serving
    /\ IF \E c \in Conns : Live(c) /\ conn[c].cookie # None THEN Fault("table")
       ELSE /\ Closing(UNION {OwnSockets(c) : c \in {d \in Conns : Live(d)}})
            /\ conn' = [c \in Conns |-> IF Live(c) THEN Destroyed(c) ELSE conn[c]]
            /\ table' = [k \in Cookies |-> None]
            /\ pending' = 0
            /\ up' = FALSE
            /\ UNCHANGED <<delayed, proxied, stack, handled, replies, sent, wire, lost>>
-----------------------------------------------------------------------------
Client ==
    \E s \in Conns :
        \/ \E script \in Scripts : \E ks \in [DOMAIN script -> Cookies \cup {None}] :
              ClientWrites(s, script, ks)
        \/ ClientCloses(s)

HandleRequestBytes(c) ==
    \/ TooBig(c) \/ Scan(c) \/ Posted(c) \/ Leave(c)
    \/ Announce(c) \/ AnswerOnly(c) \/ Describe(c)
    \/ Setup(c) \/ SetupFails(c) \/ (\E reuse \in ReuseConnection : Register(c, reuse)) \/ Bad(c)
    \/ TunnelingGET(c) \/ PostUnknown(c) \/ PostDangling(c) \/ TunnelingPOST(c)

Next ==
    \/ Client
    \/ \E s \in Conns : (\E n \in 1 .. BufferSize : Receive(s, n)) \/ ReceiveFails(s)
    \/ \E c \in Conns : Accept(c) \/ HandleRequestBytes(c) \/ AudioThread(c) \/ HandleResponse(c)
    \/ RegisterStream \/ DeleteServer
    \/ \E p \in delayed : ContinueRegister(p)

Spec == Init /\ [][Next]_vars
-----------------------------------------------------------------------------
TypeOK ==
    /\ \A c \in Conns :
          /\ conn[c].obj \in {"none", "live", "deleted"}
          /\ {conn[c].in, conn[c].out, watch[c]} \subseteq Conns \cup {None}
          /\ conn[c].rem \in 0 .. 3 /\ Len(conn[c].buf) \in 0 .. BufferSize
          /\ sock[c] \in {"none", "open", "closed", "given"}
    /\ table \in [Cookies -> Conns \cup {None}]
    /\ \A i \in DOMAIN stack : stack[i].pc \in {"bytes", "request", "posted", "leave"}
    /\ fault \in {"none", "socket", "cookie", "register", "closedTwice", "audio", "config", "datagram",
                  "table"}
    /\ pending \in 0 .. MaxPending /\ up \in BOOLEAN

\* What a client wrote to s for the object c: its own requests up to a POST, or
\* the requests in Base64 after the POST.
UntilOf(rs) ==
    LET i == SelectInSeq(rs, LAMBDA r : r.kind = "POST")
    IN IF i = 0 THEN Len(rs) ELSE i
Until(s) == UntilOf(sent[s])
Ids(s) == [i \in DOMAIN sent[s] |-> Id(s, i)]
Meant(c, s) == SubSeq(Ids(c), 1, Until(c)) \o
               (IF c = s THEN <<>> ELSE SubSeq(Ids(s), Until(s) + 1, Len(sent[s])))
Tunnels(c, s) == \E i \in DOMAIN sent[c], j \in DOMAIN sent[s] :
    sent[c][i].kind = "GET" /\ sent[s][j].kind = "POST" /\ sent[c][i].cookie = sent[s][j].cookie
Got(c, kind) == {r \in {Ask(id) : id \in ToSet(handled[c])} : r.kind = kind}
Posters == {s \in Conns : HasSent(s, "POST")}
Orderly == /\ Cardinality(Posters) <= 1
           /\ \A s \in Posters : \A i \in Until(s) + 1 .. Len(sent[s]) : sent[s][i].kind # "POST"
           /\ \A c \in Conns : Posters # {} /\ HasSent(c, "GET") => Len(sent[c]) = 1

(* However the requests and the Base64 of a tunnel are cut by the reads, an    *)
(* object handles exactly what was written for it, in order, its bodies whole  *)
(* and nothing else, and leaves none of it unhandled when there is nothing     *)
(* left to read; every answer is to the request just handled unless a SETUP    *)
(* failed (handleRequestBytes(), changeClientInputSocket()).  Of clients that  *)
(* make a tunnel of one GET and one POST: with a second POST the remainder of  *)
(* the first one's Base64 is decoded with the second's, and a request the GET's *)
(* socket was still sending stays in front of the tunnelled ones.              *)
RequestsExact ==
    /\ \A c \in Conns : \A i \in DOMAIN replies[c] :
          replies[c][i].to = handled[c][i] \/ Ask(handled[c][i]).kind = "SETUP"
    /\ fault = "none" /\ Orderly =>
        \A c \in Conns :
            /\ \E s \in Conns : (s = c \/ Tunnels(c, s)) /\ IsPrefix(handled[c], Meant(c, s))
            /\ \A s \in Conns : stack = <<>> /\ watch[s] = c /\ Live(c) /\ wire[s] = <<>>
                  => handled[c] = Meant(c, s)

Renamed(c) == Cardinality({r.cookie : r \in Got(c, "GET")}) > 1
PostedToItself(c) == Got(c, "GET") # {} /\ Got(c, "POST") # {}
GaveUp(c) == Got(c, "REGISTER") # {}

(* What the server still holds of a deleted connection: nothing calls its      *)
(* handleRequestBytes() and a deletion leaves no cookie and no handler behind, *)
(* except of a connection that took a second cookie, that was its own GET and  *)
(* POST, or whose tunnel was given away by REGISTER.                           *)
DeletedForgotten ==
    /\ TypeOK
    /\ \A i \in DOMAIN stack : Live(stack[i].c)
    /\ \A k \in Cookies : Deleted(table[k]) => Renamed(table[k])
    /\ \A s \in Conns : Deleted(watch[s]) =>
          PostedToItself(watch[s]) \/ (watch[s] # s /\ GaveUp(watch[s]))
    /\ fault = "cookie" => \E c \in Conns : Deleted(c) /\ Renamed(c)
    /\ fault = "audio" => \E c \in Conns : Deleted(c) /\ Got(c, "SETUP") # {}

\* A socket is lost where a POST was made on it and one is superseded by another,
\* made by a connection that is a GET's, or where a tunnel is given away.
MayLeak(s) ==
    /\ Got(s, "POST") # {}
    /\ \/ Cardinality(Posters) > 1
       \/ \E d \in Conns : PostedToItself(d) \/ (Deleted(d) /\ GaveUp(d))

(* Between events a socket belongs to one connection, which the event loop     *)
(* calls for what arrives on its input and whose output is open; no socket is  *)
(* closed twice, although a POST hands its own to another object and inner     *)
(* calls close what the outer one closes again; and none is left open that     *)
(* nobody owns, except of a POST.                                              *)
SocketsOwned ==
    /\ fault # "closedTwice"
    /\ EventLoop =>
        \A c \in Conns :
            /\ Live(c) => /\ sock[conn[c].in] = "open" /\ watch[conn[c].in] = c
                          /\ sock[conn[c].out] = "open"
                          /\ \A d \in Conns \ {c} : OwnSockets(c) \cap OwnSockets(d) = {}
            /\ sock[c] = "open" /\ (\A d \in Conns : c \notin OwnSockets(d)) => MayLeak(c)
==============================================================================
