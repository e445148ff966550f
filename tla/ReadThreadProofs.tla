--------------------------- MODULE ReadThreadProofs ---------------------------
(***************************************************************************)
(* Proofs about the two things a read thread of an RtspServer does: it     *)
(* cuts what it receives into requests (RequestFraming), and it handles    *)
(* them (RtspSession).  For every size of the buffer, any lengths of       *)
(* headers and bodies, any number of requests; any number of connections,  *)
(* each with any number of SETUP requests.                                 *)
(***************************************************************************)
EXTENDS RequestFraming, RtspSession, SequenceTheorems, TLAPS

(* RequestFraming *)

\* The first byte after a request.
RequestEnd(r) == BodyAt(r) + r.body

\* The requests lie in the stream one after the other, up to what has been sent.
LayoutInv ==
    /\ \A i, j \in 1 .. Len(sent) : i < j => RequestEnd(sent[i]) <= sent[j].at
    /\ \A i \in 1 .. Len(sent) : RequestEnd(sent[i]) <= sentBytes
    /\ sent # << >> => RequestEnd(sent[Len(sent)]) = sentBytes

\* A client that waits has at most its last request unanswered; the buffer begins
\* with that request, or has nothing to hold.
WaitingInv == ~pipelined =>
    /\ Len(handled) <= Len(sent) /\ Len(sent) <= Len(handled) + 1
    /\ Len(handled) = Len(sent) => bufStart = sentBytes
    /\ Len(handled) # Len(sent) => bufStart = sent[Len(sent)].at

FramingInv ==
    /\ FramingTypeOK
    /\ nRxBytes < rxBuffSize /\ bufStart + nRxBytes <= sentBytes
    /\ LayoutInv
    /\ WaitingInv
    /\ EachRequestExact

LEMMA FramingInitInv == FramingInit => FramingInv
  <1> SUFFICES ASSUME FramingInit PROVE FramingInv
    OBVIOUS
  <1> USE DEF FramingInit
  <1>1. FramingTypeOK
    <2>1. sent \in Seq([at : Nat, header : HeaderLens, body : BodyLens])
      BY EmptySeq
    <2>2. handled \in Seq([from : Nat, header : Nat, contentLength : Nat,
                           content : [at : Int, len : Nat]])
      BY EmptySeq
    <2>3. pContent \in [at : Int, len : Nat]
      BY DEF NoContent
    <2> QED BY <2>1, <2>2, <2>3, SizeAssumption DEF FramingTypeOK
  <1>2. nRxBytes < rxBuffSize /\ bufStart + nRxBytes <= sentBytes
    BY SizeAssumption
  <1>3. Len(sent) = 0 /\ Len(handled) = 0
    BY EmptySeq
  <1>4. LayoutInv /\ WaitingInv /\ EachRequestExact
    BY <1>3 DEF LayoutInv, WaitingInv, EachRequestExact
  <1> QED BY <1>1, <1>2, <1>4 DEF FramingInv

\* What the assumptions and the type invariant say of a request.
LEMMA RequestTypes ==
    ASSUME FramingTypeOK, NEW i \in 1 .. Len(sent)
    PROVE  /\ sent[i].at \in Nat /\ sent[i].header \in Nat \ {0} /\ sent[i].body \in Nat
           /\ BlankAt(sent[i]) = sent[i].at + sent[i].header
           /\ BodyAt(sent[i]) = sent[i].at + sent[i].header + 4
           /\ RequestEnd(sent[i]) = sent[i].at + sent[i].header + 4 + sent[i].body
  <1>1. sent[i] \in [at : Nat, header : HeaderLens, body : BodyLens]
    BY ElementOfSeq DEF FramingTypeOK
  <1> QED BY <1>1, HeaderAssumption, BodyAssumption DEF RequestEnd, BodyAt, BlankAt, Blank
-----------------------------------------------------------------------------
(* The client *)

LEMMA SendRequestStep ==
    ASSUME FramingInv, NEW header \in HeaderLens, NEW body \in BodyLens, SendRequest(header, body)
    PROVE  FramingInv'
  <1> DEFINE r == [at |-> sentBytes, header |-> header, body |-> body]
             n == Len(sent)
  <1> USE DEF SendRequest
  <1>1. header \in Nat \ {0} /\ body \in Nat /\ sentBytes \in Nat /\ n \in Nat
    BY HeaderAssumption, BodyAssumption, LenProperties DEF FramingInv, FramingTypeOK
  <1>2. r \in [at : Nat, header : HeaderLens, body : BodyLens]
    BY <1>1
  <1>3. /\ sent' \in Seq([at : Nat, header : HeaderLens, body : BodyLens])
        /\ Len(sent') = n + 1 /\ sent'[n + 1] = r
        /\ \A i \in 1 .. n : sent'[i] = sent[i]
    BY <1>2, AppendProperties DEF FramingInv, FramingTypeOK
  <1>4. sentBytes' = sentBytes + header + 4 + body
    BY DEF Blank
  <1>5. RequestEnd(r) = sentBytes'
    BY <1>1, <1>4 DEF RequestEnd, BodyAt, BlankAt, Blank
  <1>6. FramingTypeOK'
    BY <1>1, <1>3, <1>4 DEF FramingInv, FramingTypeOK
  <1>7. (nRxBytes < rxBuffSize /\ bufStart + nRxBytes <= sentBytes)'
    BY <1>1, <1>4 DEF FramingInv, FramingTypeOK
  <1>8. LayoutInv'
    <2>1. ASSUME NEW i \in 1 .. n
          PROVE  RequestEnd(sent[i]) \in Nat /\ RequestEnd(sent[i]) <= sentBytes
      <3>1. FramingTypeOK /\ LayoutInv
        BY DEF FramingInv
      <3>2. RequestEnd(sent[i]) <= sentBytes
        BY <3>1 DEF LayoutInv
      <3>3. i \in 1 .. Len(sent)
        OBVIOUS
      <3>4. /\ RequestEnd(sent[i]) = sent[i].at + sent[i].header + 4 + sent[i].body
            /\ sent[i].at \in Nat /\ sent[i].header \in Nat \ {0} /\ sent[i].body \in Nat
        BY ONLY <3>1, <3>3, RequestTypes
      <3>5. \A a, b, c \in Nat : a + b + 4 + c \in Nat
        OBVIOUS
      <3> QED BY ONLY <3>2, <3>4, <3>5
    <2>2. ASSUME NEW i \in 1 .. n + 1, NEW j \in 1 .. n + 1, i < j
          PROVE  RequestEnd(sent'[i]) <= sent'[j].at
      <3>1. CASE j = n + 1
        <4>1. sent'[i] = sent[i] /\ RequestEnd(sent[i]) <= sentBytes
          BY <1>1, <1>3, <2>1, <2>2, <3>1
        <4> QED BY <1>3, <3>1, <4>1
      <3>2. CASE j # n + 1
        <4>1. i \in 1 .. n /\ j \in 1 .. n
          BY <1>1, <2>2, <3>2
        <4>2. sent'[i] = sent[i] /\ sent'[j] = sent[j]
          BY <1>3, <4>1
        <4> QED BY <2>2, <4>1, <4>2 DEF FramingInv, LayoutInv
      <3> QED BY <3>1, <3>2
    <2>3. ASSUME NEW i \in 1 .. n + 1
          PROVE  RequestEnd(sent'[i]) <= sentBytes'
      <3>1. CASE i = n + 1
        BY <1>1, <1>3, <1>4, <1>5, <3>1
      <3>2. CASE i # n + 1
        <4>1. i \in 1 .. n
          BY <1>1, <3>2
        <4>2. sent'[i] = sent[i] /\ RequestEnd(sent[i]) \in Nat /\ RequestEnd(sent[i]) <= sentBytes
          BY <1>3, <2>1, <4>1
        <4> QED BY <1>1, <1>4, <4>2
      <3> QED BY <3>1, <3>2
    <2>4. (sent # << >> => RequestEnd(sent[Len(sent)]) = sentBytes)'
      BY <1>3, <1>5
    <2> QED BY <1>3, <2>2, <2>3, <2>4 DEF LayoutInv
  <1>9. WaitingInv'
    <2> SUFFICES ASSUME ~pipelined'
                 PROVE  /\ Len(handled) = n /\ bufStart = sentBytes
      BY <1>1, <1>3 DEF WaitingInv
    <2>1. ~pipelined /\ Len(handled) \in Nat /\ ~(Len(handled) < n)
      BY LenProperties DEF FramingInv, FramingTypeOK
    <2> QED BY <1>1, <2>1 DEF FramingInv, WaitingInv
  <1>10. EachRequestExact'
    <2> SUFFICES ASSUME ~pipelined', NEW i \in 1 .. Len(handled)
                 PROVE  /\ i <= n + 1
                        /\ handled[i].from = sent'[i].at
                        /\ handled[i].header = sent'[i].header
                        /\ handled[i].contentLength = sent'[i].body
                        /\ sent'[i].body > 0 =>
                               handled[i].content = [at |-> BodyAt(sent'[i]), len |-> sent'[i].body]
      BY <1>3 DEF EachRequestExact
    <2>1. ~pipelined /\ Len(handled) \in Nat
      BY LenProperties DEF FramingInv, FramingTypeOK
    <2>2. /\ i <= n
          /\ handled[i].from = sent[i].at
          /\ handled[i].header = sent[i].header
          /\ handled[i].contentLength = sent[i].body
          /\ sent[i].body > 0 =>
                 handled[i].content = [at |-> BodyAt(sent[i]), len |-> sent[i].body]
      <3>1. EachRequestExact
        BY DEF FramingInv
      <3> QED BY <2>1, <3>1 DEF EachRequestExact
    <2>3. sent'[i] = sent[i]
      BY <1>1, <1>3, <2>1, <2>2
    <2> QED BY <1>1, <2>1, <2>2, <2>3
  <1> QED BY <1>6, <1>7, <1>8, <1>9, <1>10 DEF FramingInv
-----------------------------------------------------------------------------
(* ReadThread() *)

\* Room remains whatever recv() returns: a full buffer is doubled.
LEMMA ReceiveRoom ==
    ASSUME FramingInv, NEW n \in Received, Receive(n)
    PROVE  /\ n \in Nat \ {0}
           /\ rxBuffSize' \in Nat /\ nRxBytes + n < rxBuffSize' /\ 0 < rxBuffSize'
           /\ bufStart + nRxBytes + n \in Nat
           /\ bufStart + nRxBytes + n <= sentBytes
  BY DEF FramingInv, FramingTypeOK, Receive, Grow, BuffAvail, Received

LEMMA KeepStep ==
    ASSUME FramingInv, NEW n \in Received, Keep(n)
    PROVE  FramingInv'
  <1>1. Receive(n)
    BY DEF Keep
  <1>2. /\ nRxBytes' = nRxBytes + n
        /\ UNCHANGED <<sent, sentBytes, pipelined, bufStart, pContent, handled>>
    BY DEF Keep, Receive
  <1>3. FramingTypeOK' /\ (nRxBytes < rxBuffSize /\ bufStart + nRxBytes <= sentBytes)'
    BY SMTT(30), <1>1, <1>2, ReceiveRoom DEF FramingInv, FramingTypeOK
  <1>4. LayoutInv' /\ WaitingInv' /\ EachRequestExact'
    BY <1>2 DEF FramingInv, LayoutInv, WaitingInv, EachRequestExact, RequestEnd, BodyAt, BlankAt
  <1> QED BY <1>3, <1>4 DEF FramingInv

LEMMA HandleStep ==
    ASSUME FramingInv, NEW n \in Received, Handle(n)
    PROVE  FramingInv'
  <1> DEFINE m == nRxBytes + n
  <1>1. Receive(n)
    BY DEF Handle
  <1>2. PICK i \in BlanksFound(m) : \E contentLength \in ContentLengths(i) :
            /\ HeaderFound(m, i)
            /\ BodyThere(m, i, contentLength)
            /\ pContent' = Content(i, contentLength)
            /\ handled' = Append(handled,
                 [from |-> bufStart, header |-> BlankAt(sent[i]) - bufStart,
                  contentLength |-> contentLength, content |-> pContent'])
    BY DEF Handle
  <1>3. PICK contentLength \in ContentLengths(i) :
            /\ HeaderFound(m, i)
            /\ BodyThere(m, i, contentLength)
            /\ pContent' = Content(i, contentLength)
            /\ handled' = Append(handled,
                 [from |-> bufStart, header |-> BlankAt(sent[i]) - bufStart,
                  contentLength |-> contentLength, content |-> pContent'])
    BY <1>2
  <1>4. /\ bufStart' = bufStart + nRxBytes + n /\ nRxBytes' = 0
        /\ UNCHANGED <<sent, sentBytes, pipelined>>
    BY DEF Handle, Receive
  <1> DEFINE h == [from |-> bufStart, header |-> BlankAt(sent[i]) - bufStart,
                   contentLength |-> contentLength, content |-> pContent']
             HandledType == [from : Nat, header : Nat, contentLength : Nat,
                             content : [at : Int, len : Nat]]
  <1>5. /\ i \in 1 .. Len(sent)
        /\ BlankAt(sent[i]) > bufStart
        /\ contentLength \in {0, sent[i].body}
        /\ bufStart <= sent[i].at => contentLength = sent[i].body
    BY <1>3 DEF BlanksFound, HeaderFound, ContentLengths
  <1>6. contentLength \in Nat /\ BlankAt(sent[i]) \in Nat /\ BodyAt(sent[i]) \in Nat
    BY <1>5, RequestTypes DEF FramingInv
  <1>7. pContent' \in [at : Int, len : Nat]
    BY <1>3, <1>6 DEF Content, FramingInv, FramingTypeOK
  <1>8. h \in HandledType
    BY SMTT(30), <1>5, <1>6, <1>7 DEF FramingInv, FramingTypeOK
  <1>9. /\ handled' \in Seq(HandledType)
        /\ Len(handled') = Len(handled) + 1 /\ handled'[Len(handled) + 1] = h
        /\ \A j \in 1 .. Len(handled) : handled'[j] = handled[j]
    <2>1. handled \in Seq(HandledType) /\ handled' = Append(handled, h)
      BY <1>3 DEF FramingInv, FramingTypeOK
    <2> QED BY ONLY <1>8, <2>1, AppendProperties
  <1>10. FramingTypeOK' /\ (nRxBytes < rxBuffSize /\ bufStart + nRxBytes <= sentBytes)'
    BY <1>1, <1>4, <1>7, <1>9, ReceiveRoom DEF FramingInv, FramingTypeOK
  <1>11. LayoutInv'
    BY <1>4 DEF FramingInv, LayoutInv, RequestEnd, BodyAt, BlankAt
  \* With a client that waits it is the last request, all of it and no more.
  <1>12. ASSUME ~pipelined
         PROVE  /\ Len(sent) = Len(handled) + 1 /\ i = Len(sent)
                /\ bufStart = sent[i].at
                /\ contentLength = sent[i].body
                /\ bufStart + nRxBytes + n = sentBytes
    <2> DEFINE k == Len(sent)
    <2>1. Len(handled) \in Nat /\ k \in Nat
      BY LenProperties DEF FramingInv, FramingTypeOK
    <2>2. n \in Nat \ {0} /\ bufStart + nRxBytes + n <= sentBytes
      BY <1>1, ReceiveRoom
    <2>3. Len(handled) # k
      BY <1>12, <2>2 DEF FramingInv, WaitingInv, FramingTypeOK
    <2>4. k = Len(handled) + 1 /\ k \in 1 .. Len(sent) /\ bufStart = sent[k].at
      BY <1>12, <2>1, <2>3 DEF FramingInv, WaitingInv
    <2>5. i = k
      <3> SUFFICES ASSUME i < k PROVE FALSE
        BY <1>5, <2>1
      <3>1. RequestEnd(sent[i]) <= sent[k].at
        BY <1>5, <2>4 DEF FramingInv, LayoutInv
      <3> QED BY SMTT(30), <1>5, <2>4, <3>1, RequestTypes DEF FramingInv
    <2>6. contentLength = sent[k].body
      BY <1>5, <2>4, <2>5, RequestTypes DEF FramingInv
    <2>7. RequestEnd(sent[k]) = sentBytes
      BY <2>1, <2>4, EmptySeq DEF FramingInv, LayoutInv
    <2>8. bufStart + (nRxBytes + n) - BodyAt(sent[k]) >= sent[k].body
      BY <1>3, <2>5, <2>6 DEF BodyThere
    <2>9. bufStart + nRxBytes + n = sentBytes
      <3>1. /\ BodyAt(sent[k]) \in Nat /\ sent[k].body \in Nat
            /\ sentBytes = BodyAt(sent[k]) + sent[k].body
        BY SMTT(30), <2>4, <2>7, RequestTypes DEF FramingInv, RequestEnd
      <3>2. bufStart \in Nat /\ nRxBytes \in Nat
        BY DEF FramingInv, FramingTypeOK
      <3>3. \A a, b, c, x, y, z \in Nat :
                a + b + c <= z /\ a + (b + c) - x >= y /\ z = x + y => a + b + c = z
        OBVIOUS
      <3>4. sentBytes \in Nat
        BY DEF FramingInv, FramingTypeOK
      <3> QED BY <2>2, <2>8, <3>1, <3>2, <3>3, <3>4
    <2> QED BY <2>4, <2>5, <2>6, <2>9
  <1>13. WaitingInv'
    BY <1>4, <1>9, <1>12 DEF WaitingInv
  <1>14. EachRequestExact'
    <2> SUFFICES ASSUME ~pipelined, NEW j \in 1 .. Len(handled) + 1
                 PROVE  /\ j <= Len(sent)
                        /\ handled'[j].from = sent[j].at
                        /\ handled'[j].header = sent[j].header
                        /\ handled'[j].contentLength = sent[j].body
                        /\ sent[j].body > 0 =>
                               handled'[j].content = [at |-> BodyAt(sent[j]), len |-> sent[j].body]
      BY <1>4, <1>9 DEF EachRequestExact, BodyAt, BlankAt
    <2>1. Len(handled) \in Nat
      BY LenProperties DEF FramingInv, FramingTypeOK
    <2>2. CASE j = Len(handled) + 1
      <3>1. j = i /\ handled'[j] = h
        BY <1>9, <1>12, <2>2
      <3>2. sent[i].body > 0 => pContent' = [at |-> BodyAt(sent[i]), len |-> sent[i].body]
        BY <1>3, <1>12 DEF Content
      <3>3. BlankAt(sent[i]) - bufStart = sent[i].header
        BY <1>5, <1>12, RequestTypes DEF FramingInv
      <3> QED BY <1>5, <1>12, <3>1, <3>2, <3>3
    <2>3. CASE j # Len(handled) + 1
      <3>1. j \in 1 .. Len(handled)
        BY ONLY <2>1, <2>3, j \in 1 .. Len(handled) + 1
      <3>2. handled'[j] = handled[j]
        BY <1>9, <3>1
      <3>3. EachRequestExact
        BY DEF FramingInv
      <3> QED BY <3>1, <3>2, <3>3 DEF EachRequestExact
    <2> QED BY <2>2, <2>3
  <1> QED BY <1>10, <1>11, <1>13, <1>14 DEF FramingInv
-----------------------------------------------------------------------------
LEMMA FramingNextInv == FramingInv /\ [FramingNext]_framingVars => FramingInv'
  <1> SUFFICES ASSUME FramingInv, [FramingNext]_framingVars PROVE FramingInv'
    OBVIOUS
  <1>1. CASE FramingNext
    BY <1>1, SendRequestStep, KeepStep, HandleStep DEF FramingNext, ReadRequests
  <1>2. CASE UNCHANGED framingVars
    BY <1>2 DEF framingVars, FramingInv, FramingTypeOK, LayoutInv, WaitingInv, EachRequestExact,
                RequestEnd, BodyAt, BlankAt
  <1> QED BY <1>1, <1>2

\* The inductive invariant holds in every reachable state.
THEOREM FramingInvariance == FramingSpec => []FramingInv
  BY FramingInitInv, FramingNextInv, PTL DEF FramingSpec

\* ReadThread() never calls recv() with no room left in _pRxBuff, whatever the
\* initial size and whatever the client sends.
THEOREM RoomForRecv == FramingSpec => []BufferHasRoom
  <1>1. FramingInv => BufferHasRoom
    BY DEF FramingInv, BufferHasRoom
  <1> QED BY <1>1, FramingInvariance, PTL

\* A client that waits for each answer has every request handed to OnRequest()
\* once, in order, and cut where it begins and ends, for requests of any lengths
\* arriving in pieces of any sizes.
THEOREM WaitingClientExact == FramingSpec => []EachRequestExact
  <1>1. FramingInv => EachRequestExact
    BY DEF FramingInv
  <1> QED BY <1>1, FramingInvariance, PTL
-----------------------------------------------------------------------------
(* RtspSession *)

Handling == {"uri", "play", "thread"}    \* HandleSetup() is under way

\* Audio threads are numbered by their SETUP: none is ahead of the requests, the
\* one HandleSetup() is about to start is not there yet, the recorded one is.
NumberingInv(c) ==
    /\ \A g \in Setups : audio[c][g] # "none" => g <= setups[c]
    /\ readPc[c] \in Handling => setups[c] \in Setups /\ audio[c][setups[c]] = "none"
    /\ latest[c] # 0 => audio[c][latest[c]] # "none"

\* A sender that keeps to the protocol announces before its one session and has
\* a single audio thread, the one RtspServerConnection joins.
PoliteInv(c) == c \notin rude =>
    /\ readPc[c] # "null"
    /\ readPc[c] \in Handling => announced[c] /\ latest[c] = 0
    /\ \A g \in Setups : audio[c][g] # "none" => announced[c] /\ g = latest[c]

\* The destructor has seen the recorded audio thread end.
JoinedInv(c) ==
    readPc[c] = "gone" /\ latest[c] # 0 => audio[c][latest[c]] = "exited"

ConnInv(c) == NumberingInv(c) /\ PoliteInv(c) /\ JoinedInv(c)

Inv ==
    /\ TypeOK
    /\ \A c \in Conns : ConnInv(c)
    /\ CrashHasCause
    /\ SonosStopsWithLast

LEMMA InitInv == Init => Inv
  <1> SUFFICES ASSUME Init PROVE Inv
    OBVIOUS
  <1>1. TypeOK
    <2>1. audio \in [Conns -> [Setups -> AudioStates]]
      BY DEF Init, AudioStates
    <2>2. setups \in [Conns -> 0 .. MaxSetups] /\ latest \in [Conns -> 0 .. MaxSetups]
      BY SetupsAssumption DEF Init
    <2>3. readPc \in [Conns -> ReadStates] /\ entry \in [Conns -> Entries]
      BY DEF Init, ReadStates, Entries
    <2> QED BY <2>1, <2>2, <2>3 DEF Init, TypeOK
  <1>2. \A c \in Conns : ConnInv(c)
    BY DEF Init, ConnInv, NumberingInv, PoliteInv, JoinedInv, Handling
  <1>3. CrashHasCause /\ SonosStopsWithLast
    BY DEF Init, CrashHasCause, SonosStopsWithLast
  <1> QED BY <1>1, <1>2, <1>3 DEF Inv
-----------------------------------------------------------------------------
\* What a step of c does, in three kinds: the process dies; the listening thread, a
\* request, a command or a step of the removal moves on; an audio thread moves.
Deaths(c) ==
    \/ NullContent(c) \/ BadHeader(c) \/ DetachNull(c)
    \/ UnsetConfig(c) \/ TranscoderRace(c) \/ Overrun(c) \/ StrayUse(c)

Reads(c) ==
    \/ Accept(c) \/ ListeningThread(c) \/ Announce(c) \/ SetParameter(c) \/ NoBody(c)
    \/ Setup(c) \/ SetUri(c) \/ Play(c) \/ StartAudio(c)
    \/ RecvFails(c) \/ LockList(c) \/ RemoveNotFound(c) \/ StopSonos(c)
    \/ Close(c) \/ CloseHangs(c) \/ Woken(c) \/ JoinAudio(c)

Audio(c, g) == AudioThread(c, g) \/ Datagram(c, g) \/ StrayExits(c, g)

LEMMA StepKinds ==
    Next <=> \E c \in Conns : Deaths(c) \/ Reads(c) \/ \E g \in Setups : Audio(c, g)
  BY DEF Next, ReadThread, Deaths, Reads, Audio

\* Every step keeps the types.
LEMMA TypeStep == Inv /\ [Next]_vars => TypeOK'
  <1> SUFFICES ASSUME Inv, [Next]_vars PROVE TypeOK'
    OBVIOUS
  <1> USE SetupsAssumption
  <1>1. ASSUME NEW c \in Conns, Deaths(c) PROVE TypeOK'
    BY <1>1 DEF Inv, TypeOK, Deaths, NullContent, BadHeader, DetachNull, UnsetConfig,
                TranscoderRace, Overrun, StrayUse, Die
  <1>2. ASSUME NEW c \in Conns,
               \/ Accept(c) \/ ListeningThread(c) \/ Announce(c) \/ SetParameter(c)
               \/ NoBody(c) \/ RecvFails(c) \/ LockList(c) \/ RemoveNotFound(c)
               \/ Close(c) \/ CloseHangs(c) \/ Woken(c) \/ JoinAudio(c)
        PROVE TypeOK'
    BY <1>2 DEF Inv, TypeOK, Accept, ListeningThread, StoreThread, PushBack, ListenMoves,
                Entries, Announce, SetParameter, NoBody, RecvFails, LockList, RemoveNotFound,
                Close, CloseHangs, Woken, JoinAudio, ReadMoves, ReadStates
  <1>3. ASSUME NEW c \in Conns, SetUri(c) \/ Play(c) \/ StopSonos(c) PROVE TypeOK'
    BY <1>3 DEF Inv, TypeOK, SetUri, Play, StopSonos, SonosSetUri, SonosPlay, SonosStop,
                Command, ReadMoves, ReadStates
  <1>4. ASSUME NEW c \in Conns, Setup(c) PROVE TypeOK'
    BY <1>4 DEF Inv, TypeOK, Setup, ReadMoves, ReadStates
  <1>5. ASSUME NEW c \in Conns, StartAudio(c) PROVE TypeOK'
    <2>1. setups[c] \in Setups /\ setups[c] \in 0 .. MaxSetups
      BY <1>5 DEF Inv, ConnInv, NumberingInv, StartAudio, ReadMoves, Handling, TypeOK
    <2>2. audio' \in [Conns -> [Setups -> AudioStates]]
      BY <1>5, <2>1 DEF Inv, TypeOK, StartAudio, AudioStates
    <2> QED BY <1>5, <2>1, <2>2 DEF Inv, TypeOK, StartAudio, ReadMoves, ReadStates
  <1>6. ASSUME NEW c \in Conns, NEW g \in Setups, Audio(c, g) PROVE TypeOK'
    <2>1. /\ UNCHANGED <<entry, readPc, hasContent, announced, setups, latest, stop, sonos,
                         lost, rude, crash>>
          /\ \E to \in AudioStates : audio' = [audio EXCEPT ![c][g] = to]
      BY <1>6 DEF Audio, AudioThread, AudioInit, AudioExits, AudioWrite,
                AudioSurvives, Datagram, AudioRead, AudioMisfit,
                  AudioMoves, StrayExits, AudioStates
    <2> QED BY <2>1 DEF Inv, TypeOK
  <1>7. CASE UNCHANGED vars
    BY <1>7 DEF Inv, TypeOK, vars
  <1> QED BY <1>1, <1>2, <1>3, <1>4, <1>5, <1>6, <1>7, StepKinds DEF Reads

\* A step of one connection leaves the state of the others as it is.
LEMMA OthersUntouched ==
    ASSUME TypeOK, NEW c \in Conns, NEW d \in Conns, c # d,
           Deaths(d) \/ Reads(d) \/ \E g \in Setups : Audio(d, g)
    PROVE  /\ readPc'[c] = readPc[c] /\ announced'[c] = announced[c]
           /\ setups'[c] = setups[c] /\ latest'[c] = latest[c]
           /\ audio'[c] = audio[c] /\ (c \in rude' <=> c \in rude)
  <1>1. CASE Deaths(d)
    BY <1>1 DEF Deaths, NullContent, BadHeader, DetachNull, UnsetConfig,
                TranscoderRace, Overrun, StrayUse, Die
  <1>2. CASE \E g \in Setups : Audio(d, g)
    BY <1>2 DEF TypeOK, Audio, AudioThread, AudioInit, AudioExits, AudioWrite,
                AudioSurvives, Datagram, AudioRead, AudioMisfit,
                AudioMoves, StrayExits
  <1>3. CASE Reads(d)
    BY <1>3 DEF TypeOK, Reads, Accept, ListeningThread, StoreThread, PushBack, ListenMoves,
                Announce, SetParameter, NoBody, Setup, SetUri, Play, StartAudio, RecvFails,
                LockList, RemoveNotFound, StopSonos, Close, CloseHangs, Woken, JoinAudio,
                ReadMoves
  <1> QED BY <1>1, <1>2, <1>3
-----------------------------------------------------------------------------
\* What holds of a connection survives every step.
LEMMA ConnStep == Inv /\ [Next]_vars => \A c \in Conns : ConnInv(c)'
  <1> SUFFICES ASSUME Inv, [Next]_vars, NEW c \in Conns PROVE ConnInv(c)'
    OBVIOUS
  <1> USE SetupsAssumption
  <1>0. TypeOK /\ NumberingInv(c) /\ PoliteInv(c) /\ JoinedInv(c)
    BY DEF Inv, ConnInv
  <1>1. ASSUME NEW d \in Conns, d # c,
               Deaths(d) \/ Reads(d) \/ \E g \in Setups : Audio(d, g)
        PROVE ConnInv(c)'
    BY <1>0, <1>1, OthersUntouched DEF ConnInv, NumberingInv, PoliteInv, JoinedInv
  <1>2. CASE Deaths(c)
    BY <1>0, <1>2 DEF Deaths, NullContent, BadHeader, DetachNull, UnsetConfig,
                TranscoderRace, Overrun, StrayUse, Die,
                      ConnInv, NumberingInv, PoliteInv, JoinedInv
  <1>3. ASSUME NEW g \in Setups, Audio(c, g) PROVE ConnInv(c)'
    <2>1. /\ UNCHANGED <<readPc, announced, setups, latest, rude>>
          /\ audio[c][g] \notin {"none", "exited"}
          /\ audio'[c][g] \in {"check", "write", "misfit", "exited"}
          /\ \A h \in Setups : h # g => audio'[c][h] = audio[c][h]
      BY <1>0, <1>3 DEF TypeOK, Audio, AudioThread, AudioInit, AudioExits, AudioSurvives,
                        Datagram, AudioRead, AudioMisfit,
                        AudioWrite, AudioMoves, StrayExits, Alive
    <2>2. \A h \in Setups : audio'[c][h] # "none" <=> audio[c][h] # "none"
      BY <2>1
    <2>3. latest[c] \in 0 .. MaxSetups
      BY <1>0 DEF TypeOK
    <2>4. NumberingInv(c)'
      BY <1>0, <2>1, <2>2, <2>3 DEF NumberingInv, Setups
    <2>5. PoliteInv(c)'
      BY <1>0, <2>1, <2>2 DEF PoliteInv
    <2>6. JoinedInv(c)'
      BY <1>0, <2>1, <2>2, <2>3 DEF JoinedInv, Setups
    <2> QED BY <2>4, <2>5, <2>6 DEF ConnInv
  <1>4. CASE Setup(c)
    BY <1>0, <1>4 DEF TypeOK, Setup, ReadMoves, Setups, Handling,
                      ConnInv, NumberingInv, PoliteInv, JoinedInv
  <1>5. CASE StartAudio(c)
    <2>1. setups[c] \in Setups /\ readPc[c] = "thread"
      BY <1>0, <1>5 DEF StartAudio, ReadMoves, NumberingInv, Handling
    <2>2. /\ latest'[c] = setups[c] /\ setups'[c] = setups[c] /\ readPc'[c] = "request"
          /\ audio'[c][setups[c]] = "init"
          /\ \A h \in Setups : h # setups[c] => audio'[c][h] = audio[c][h]
          /\ UNCHANGED <<announced, rude>>
      BY <1>0, <1>5, <2>1 DEF TypeOK, StartAudio, ReadMoves
    <2>3. NumberingInv(c)'
      BY <1>0, <2>1, <2>2 DEF NumberingInv, Handling, Setups
    <2>4. PoliteInv(c)'
      \* before it, latest is 0, so there was no audio thread at all
      BY <1>0, <2>1, <2>2 DEF PoliteInv, Handling, Setups
    <2> QED BY <2>2, <2>3, <2>4 DEF ConnInv, JoinedInv
  <1>6. CASE Announce(c) \/ NoBody(c)
    BY <1>0, <1>6 DEF TypeOK, Announce, NoBody, ReadMoves, Handling,
                      ConnInv, NumberingInv, PoliteInv, JoinedInv
  <1>7. CASE JoinAudio(c)
    BY <1>0, <1>7 DEF TypeOK, JoinAudio, ReadMoves, Handling,
                      ConnInv, NumberingInv, PoliteInv, JoinedInv
  <1>8. CASE \/ Accept(c) \/ ListeningThread(c) \/ SetParameter(c) \/ SetUri(c) \/ Play(c)
             \/ RecvFails(c) \/ LockList(c) \/ RemoveNotFound(c) \/ StopSonos(c)
             \/ Close(c) \/ CloseHangs(c) \/ Woken(c)
    BY <1>0, <1>8 DEF TypeOK, Accept, ListeningThread, StoreThread, PushBack, ListenMoves,
                      SetParameter, SetUri, Play, RecvFails, LockList, RemoveNotFound,
                      StopSonos, Close, CloseHangs, Woken, ReadMoves, Handling,
                      ConnInv, NumberingInv, PoliteInv, JoinedInv
  <1>9. CASE UNCHANGED vars
    BY <1>0, <1>9 DEF vars, ConnInv, NumberingInv, PoliteInv, JoinedInv
  <1> QED
    BY <1>1, <1>2, <1>3, <1>4, <1>5, <1>6, <1>7, <1>8, <1>9, StepKinds DEF Reads

\* A step of a process that runs: none is left when it has died.
LEMMA StepRuns == Next => crash = Nobody
  BY DEF Next, Accept, ListeningThread, StoreThread, PushBack, ListenMoves, Announce,
     SetParameter, NoBody, NullContent, BadHeader, Setup, RecvFails, DetachNull, ReadThread,
     SetUri, Play, StartAudio, LockList, RemoveNotFound, StopSonos, Close, CloseHangs, Woken,
     JoinAudio, ReadMoves, UnsetConfig, TranscoderRace, Overrun, StrayUse, Die, AudioThread,
     AudioInit, AudioExits, AudioWrite, AudioSurvives, Datagram, AudioRead, AudioMisfit,
     AudioMoves, StrayExits, Running

\* How the process dies, if the sender of the connection in question is polite.
LEMMA CauseStep == Inv /\ [Next]_vars => CrashHasCause'
  <1> SUFFICES ASSUME Inv, [Next]_vars PROVE CrashHasCause'
    OBVIOUS
  <1> USE DEF CrashHasCause
  <1>1. ASSUME NEW c \in Conns, Deaths(c) PROVE CrashHasCause'
    <2>0. TypeOK /\ PoliteInv(c) /\ JoinedInv(c)
      BY DEF Inv, ConnInv
    <2>1. CASE BadHeader(c)
      BY <2>1 DEF BadHeader
    <2>2. CASE ~BadHeader(c)
      <3>1. /\ crash' = c
            /\ UNCHANGED <<entry, readPc, latest, audio, rude>>
        BY <1>1, <2>2 DEF Deaths, NullContent, DetachNull, UnsetConfig, TranscoderRace,
                Overrun, StrayUse, Die
      <3>2. CASE NullContent(c)
        BY <2>0, <3>1, <3>2 DEF NullContent, PoliteInv
      <3>3. CASE UnsetConfig(c)
        BY <2>0, <3>1, <3>3 DEF UnsetConfig, PoliteInv
      <3>4. CASE TranscoderRace(c)
        <4>1. PICK g \in Setups, h \in Setups :
                g # h /\ {audio[c][g], audio[c][h]} \subseteq {"init", "write", "misfit"}
          BY <3>4 DEF TranscoderRace
        <4> QED BY <2>0, <3>1, <4>1 DEF PoliteInv
      <3>5. CASE StrayUse(c)
        <4>1. PICK g \in Setups : Alive(c, g) /\ readPc[c] = "gone"
          BY <3>5 DEF StrayUse
        <4>2. c \notin rude => g = latest[c] /\ latest[c] # 0
          BY <2>0, <4>1, SetupsAssumption DEF PoliteInv, Alive, Setups
        <4> QED BY <2>0, <3>1, <4>1, <4>2 DEF JoinedInv, Alive
      <3>6. CASE Overrun(c)
        <4>1. PICK g \in Setups : audio[c][g] = "misfit" /\ readPc[c] # "gone"
          BY <3>6 DEF Overrun
        <4>2. c \notin rude => g = latest[c] /\ latest[c] # 0
          BY <2>0, <4>1, SetupsAssumption DEF PoliteInv, Setups
        <4> QED BY <3>1, <4>1, <4>2
      <3>7. CASE DetachNull(c)
        BY <3>1, <3>7 DEF DetachNull
      <3> QED BY <1>1, <2>2, <3>2, <3>3, <3>4, <3>5, <3>6, <3>7 DEF Deaths
    <2> QED BY <2>1, <2>2
  <1>2. ASSUME NEW c \in Conns, Reads(c) PROVE UNCHANGED crash
    BY <1>2 DEF Reads, Accept, ListeningThread, StoreThread, PushBack, ListenMoves,
                Announce, SetParameter, NoBody, Setup, SetUri, Play, StartAudio, RecvFails,
                LockList, RemoveNotFound, StopSonos, Close, CloseHangs, Woken, JoinAudio,
                ReadMoves
  <1>3. ASSUME NEW c \in Conns, NEW g \in Setups, Audio(c, g) PROVE UNCHANGED crash
    BY <1>3 DEF Audio, AudioThread, AudioInit, AudioExits, AudioWrite, AudioSurvives,
                Datagram, AudioRead, AudioMisfit, AudioMoves, StrayExits
  <1>4. CASE UNCHANGED vars
    BY <1>4 DEF Inv, vars
  <1>5. CASE Next /\ UNCHANGED crash
    BY <1>5, StepRuns
  <1> QED BY <1>1, <1>2, <1>3, <1>4, <1>5, StepKinds

\* A session ends only where Close() has told the Sonos to stop.
LEMMA SonosStep == Inv /\ [Next]_vars => SonosStopsWithLast'
  <1> SUFFICES ASSUME Inv, [Next]_vars, sonos' = "playing", ~lost'
               PROVE  \E c \in Conns : Session(c)'
    BY DEF SonosStopsWithLast
  <1> USE DEF Session
  <1>0. TypeOK
    BY DEF Inv
  <1>1. ASSUME NEW d \in Conns, Play(d) PROVE \E c \in Conns : Session(c)'
    BY <1>0, <1>1 DEF TypeOK, Play, ReadMoves
  <1>2. ASSUME NEW d \in Conns, StopSonos(d) PROVE FALSE
    BY <1>2 DEF StopSonos, SonosStop, Command
  <1>3. ASSUME sonos = "playing", ~lost,
               \A c \in Conns : Session(c) => Session(c)'
        PROVE \E c \in Conns : Session(c)'
    BY <1>3 DEF Inv, SonosStopsWithLast
  <1>4. ASSUME NEW d \in Conns,
               \/ Accept(d) \/ ListeningThread(d) \/ Announce(d) \/ SetParameter(d)
               \/ NoBody(d) \/ Setup(d) \/ SetUri(d) \/ RecvFails(d) \/ LockList(d)
               \/ RemoveNotFound(d) \/ Close(d) \/ CloseHangs(d) \/ Woken(d) \/ JoinAudio(d)
        PROVE \E c \in Conns : Session(c)'
    <2>1. sonos = "playing" /\ ~lost
      BY <1>4 DEF Accept, ListeningThread, StoreThread, PushBack, ListenMoves, Announce,
                  SetParameter, NoBody, Setup, SetUri, SonosSetUri, Command, RecvFails,
                  LockList, RemoveNotFound, Close, CloseHangs, Woken, JoinAudio
    <2>2. ASSUME NEW c \in Conns, Session(c) PROVE Session(c)'
      <3>1. latest' = latest /\ readPc \in [Conns -> ReadStates]
        BY <1>0, <1>4 DEF TypeOK, Accept, ListeningThread, StoreThread, PushBack, ListenMoves,
                  Announce, SetParameter, NoBody, Setup, SetUri, RecvFails, LockList,
                  RemoveNotFound, Close, CloseHangs, Woken, JoinAudio
      <3>2. CASE Accept(d) \/ ListeningThread(d)
        BY <2>2, <3>1, <3>2 DEF Accept, ListeningThread, StoreThread, PushBack, ListenMoves
      <3>3. CASE Announce(d) \/ SetParameter(d) \/ NoBody(d) \/ Setup(d) \/ SetUri(d)
        BY <2>2, <3>1, <3>3 DEF Announce, SetParameter, NoBody, Setup, SetUri, ReadMoves
      <3>4. CASE RecvFails(d) \/ LockList(d) \/ RemoveNotFound(d)
        BY <2>2, <3>1, <3>4 DEF RecvFails, LockList, RemoveNotFound, ReadMoves
      <3>5. CASE Close(d) \/ CloseHangs(d) \/ Woken(d) \/ JoinAudio(d)
        BY <2>2, <3>1, <3>5 DEF Close, CloseHangs, Woken, JoinAudio, ReadMoves
      <3> QED BY <1>4, <3>2, <3>3, <3>4, <3>5
    <2> QED BY <1>3, <2>1, <2>2
  <1>5. ASSUME NEW d \in Conns, StartAudio(d) PROVE \E c \in Conns : Session(c)'
    <2>1. setups[d] # 0
      BY <1>5, SetupsAssumption
         DEF Inv, ConnInv, NumberingInv, Handling, StartAudio, ReadMoves, Setups
    <2>2. sonos = "playing" /\ ~lost
      BY <1>5 DEF StartAudio
    <2>3. ASSUME NEW c \in Conns, Session(c) PROVE Session(c)'
      BY <1>0, <1>5, <2>1, <2>3 DEF TypeOK, StartAudio, ReadMoves
    <2> QED BY <1>3, <2>2, <2>3
  <1>6. ASSUME NEW d \in Conns, Deaths(d) \/ \E g \in Setups : Audio(d, g)
        PROVE \E c \in Conns : Session(c)'
    <2>1. UNCHANGED <<readPc, latest, sonos, lost>>
      BY <1>6 DEF Deaths, NullContent, BadHeader, DetachNull, UnsetConfig, TranscoderRace,
                Overrun, StrayUse, Die, Audio, AudioThread, AudioInit, AudioExits, AudioWrite,
                AudioSurvives, Datagram, AudioRead, AudioMisfit, AudioMoves, StrayExits
    <2> QED BY <1>3, <2>1
  <1>7. CASE UNCHANGED vars
    BY <1>3, <1>7 DEF vars
  <1> QED BY <1>1, <1>2, <1>4, <1>5, <1>6, <1>7, StepKinds DEF Reads
-----------------------------------------------------------------------------
\* The inductive invariant: types, numbering, what a polite sender's connection
\* looks like, the join, and the two properties that stand on them.
THEOREM Invariance == Spec => []Inv
  <1>1. Inv /\ [Next]_vars => Inv'
    BY TypeStep, ConnStep, CauseStep, SonosStep DEF Inv
  <1> QED BY InitInv, <1>1, PTL DEF Spec

\* The variables keep their types.
THEOREM TypeCorrect == Spec => []TypeOK
  <1>1. Inv => TypeOK
    BY DEF Inv
  <1> QED BY <1>1, Invariance, PTL

\* ~RtspServerConnection() leaves no audio thread of a polite sender behind, and
\* never the recorded one.
THEOREM DeletedConnectionIsQuiet == Spec => []GoneIsQuiet
  <1>1. Inv => GoneIsQuiet
    BY SetupsAssumption
       DEF Inv, ConnInv, PoliteInv, JoinedInv, GoneIsQuiet, Alive, TypeOK, Setups
  <1> QED BY <1>1, Invariance, PTL

\* Apart from a breach of the protocol by its own sender, a connection brings the
\* process down only by a datagram that does not fit, which anybody may send, or by
\* being lost before its read thread is stored.
THEOREM CrashesHaveCause == Spec => []CrashHasCause
  <1>1. Inv => CrashHasCause
    BY DEF Inv
  <1> QED BY <1>1, Invariance, PTL

\* The last session to end leaves the Sonos stopped, if commands arrive.
THEOREM LastSessionStopsSonos == Spec => []SonosStopsWithLast
  <1>1. Inv => SonosStopsWithLast
    BY DEF Inv
  <1> QED BY <1>1, Invariance, PTL
==============================================================================
