--------------------------- MODULE StreamingServer ---------------------------
(***************************************************************************)
(* The MP3 stream to the Sonos players (src/StreamingServer.cpp).  Audio   *)
(* threads call AddStreamData(), RTSP read threads MetaDataUpdate(); both  *)
(* walk _connectionList under _connectionListMutex.  The read thread of a  *)
(* connection runs OnRequest() with no lock at all.  TransmitStreamData()  *)
(* puts a metadata block into the stream after every MetaDataInterval      *)
(* bytes of audio.                                                         *)
(*                                                                         *)
(* Transmit() is the Accept action of a FifoChannel, which                 *)
(* NetworkServerConnection implements: out[c] is what c was handed, in     *)
(* order.  The build defines ONE_STREAM, so every audio thread feeds       *)
(* TheStream; a player may still ask for any stream id.                    *)
(***************************************************************************)
EXTENDS Naturals, Sequences, SequencesExt

CONSTANTS
    Conns,              \* connections of players
    Streams,            \* stream ids a player asks for
    MetaDataInterval,   \* 8192 in the build
    LengthValues,       \* values of the metadata length byte: 256 in the build
    PacketSizes,        \* bound: sizes of the MP3 packets the transcoder returns
    MaxBytes,           \* bound: bytes of audio produced
    BlockCounts,        \* bound: lengths of a title, in blocks of 16 bytes
    MaxTitles,          \* bound: metadata updates
    MaxRequests         \* bound: requests per connection

ASSUME IntervalAssumption == MetaDataInterval \in Nat \ {0}
ASSUME LengthAssumption == LengthValues \in Nat \ {0}
ASSUME PacketAssumption == PacketSizes \subseteq Nat
ASSUME BlockAssumption == BlockCounts \subseteq Nat \ {0}
ASSUME BoundsAssumption == MaxBytes \in Nat /\ MaxTitles \in Nat /\ MaxRequests \in Nat

\* GetStreamId() with ONE_STREAM; -1 in the code for no stream requested.
TheStream == 1
NoStream == 0

ASSUME StreamAssumption == Streams \subseteq Nat \ {NoStream}

VARIABLES
    connectionList,      \* _connectionList
    life,                \* "absent", "accepted" (not yet listed), "listed", "gone"
    streamIdRequested,   \* _streamIdRequested
    metaCount,           \* _metaCount
    newMetaData,         \* _newMetaData
    metaData,            \* _metaData: <<number of the update, blocks>>
    answering,           \* response OnRequest() is about to send, "none"
    requests,            \* requests so far
    out,                 \* what the connection was handed, oldest first
    lock,                \* "stream": an AddStreamData() holds the list mutex
    todo,                \* connections it still has to visit
    stage,               \* where it is with the first of them
    size, left,          \* its packet: len at the call, len now
    produced,            \* bytes of audio produced, this packet included
    titles               \* metadata updates so far

connVars == <<connectionList, life, streamIdRequested, metaCount, newMetaData,
              metaData, answering, requests, out>>
producerVars == <<lock, todo, stage, size, left, produced, titles>>
vars == <<connVars, producerVars>>

Init ==
    /\ connectionList = << >>
    /\ life = [c \in Conns |-> "absent"]
    /\ streamIdRequested = [c \in Conns |-> NoStream]
    /\ metaCount = [c \in Conns |-> 0]
    /\ newMetaData = [c \in Conns |-> FALSE]
    /\ metaData = [c \in Conns |-> <<0, 0>>]
    /\ answering = [c \in Conns |-> "none"]
    /\ requests = [c \in Conns |-> 0]
    /\ out = [c \in Conns |-> << >>]
    /\ lock = "free"
    /\ todo = << >>
    /\ stage = "visit"
    /\ size = 0
    /\ left = 0
    /\ produced = 0
    /\ titles = 0

\* What a connection is handed: audio from byte `at` of the stream, n bytes; a
\* metadata block of n 16-byte blocks for update `at` (0: nothing new, one zero
\* byte); the response to a request for stream `at`.
Item(kind, at, n) == [kind |-> kind, at |-> at, n |-> n]
Responses == {"m3u", "listen", "icy"}    \* "icy": with an icy-metaint field

\* Transmit() returns at once when there is nothing to send.
Handed(c, item) ==
    out' = [out EXCEPT ![c] = IF item.kind = "audio" /\ item.n = 0 THEN @ ELSE Append(@, item)]
-----------------------------------------------------------------------------
(* Connections come and go (NetworkServer). *)

Accept(c) ==
    /\ life[c] = "absent"
    /\ life' = [life EXCEPT ![c] = "accepted"]
    /\ UNCHANGED <<connectionList, streamIdRequested, metaCount, newMetaData, metaData,
                   answering, requests, out, producerVars>>

PushBack(c) ==
    /\ lock = "free"
    /\ life[c] = "accepted"
    /\ life' = [life EXCEPT ![c] = "listed"]
    /\ connectionList' = Append(connectionList, c)
    /\ UNCHANGED <<streamIdRequested, metaCount, newMetaData, metaData, answering,
                   requests, out, producerVars>>

RemoveConnection(c) ==
    /\ lock = "free"
    /\ life[c] = "listed"
    /\ answering[c] = "none"
    /\ life' = [life EXCEPT ![c] = "gone"]
    /\ \E i \in 1 .. Len(connectionList) :
         /\ connectionList[i] = c
         /\ connectionList' = RemoveAt(connectionList, i)
    /\ UNCHANGED <<streamIdRequested, metaCount, newMetaData, metaData, answering,
                   requests, out, producerVars>>
-----------------------------------------------------------------------------
(* OnRequest(), on the connection's read thread: /<s>/listen.m3u, or          *)
(* /<s>/listen with or without ICY-METADATA: 1                                *)

\* _streamIdRequested = streamId, while an audio thread may be reading it.
Request(c, kind, s) ==
    /\ life[c] \in {"accepted", "listed"}
    /\ answering[c] = "none"
    /\ requests[c] < MaxRequests
    /\ streamIdRequested' = [streamIdRequested EXCEPT ![c] = s]
    /\ answering' = [answering EXCEPT ![c] = kind]
    /\ requests' = [requests EXCEPT ![c] = @ + 1]
    /\ UNCHANGED <<connectionList, life, metaCount, newMetaData, metaData, out, producerVars>>

\* connection.SendResponse(resp)
Respond(c) ==
    /\ answering[c] # "none"
    /\ Handed(c, Item(answering[c], streamIdRequested[c], 0))
    /\ answering' = [answering EXCEPT ![c] = "none"]
    /\ UNCHANGED <<connectionList, life, streamIdRequested, metaCount, newMetaData,
                   metaData, requests, producerVars>>
-----------------------------------------------------------------------------
(* AddStreamData(), on an audio thread *)

AddStreamData(n) ==
    /\ lock = "free"
    /\ produced + n <= MaxBytes
    /\ lock' = "stream"
    /\ todo' = connectionList
    /\ stage' = "visit"
    /\ size' = n
    /\ left' = n
    /\ produced' = produced + n
    /\ UNCHANGED <<connVars, titles>>

\* Mutation of Visit: len is still what the last connection left of it.
VisitLeftKept ==
    /\ lock = "stream"
    /\ stage = "visit"
    /\ todo # << >>
    /\ IF streamIdRequested[Head(todo)] = TheStream /\ left > 0
       THEN stage' = "split" /\ UNCHANGED todo
       ELSE todo' = Tail(todo) /\ UNCHANGED stage
    /\ UNCHANGED <<connVars, lock, size, left, produced, titles>>

\* if (_streamIdRequested == streamId) and TransmitStreamData()'s len == 0
Visit ==
    /\ lock = "stream"
    /\ stage = "visit"
    /\ todo # << >>
    /\ IF streamIdRequested[Head(todo)] = TheStream /\ size > 0
       THEN stage' = "split" /\ left' = size /\ UNCHANGED todo
       ELSE todo' = Tail(todo) /\ UNCHANGED <<stage, left>>
    /\ UNCHANGED <<connVars, lock, size, produced, titles>>

\* Mutation of SplitPacket: all of the packet, len for preMetaBytes.
SplitWhole ==
    /\ stage = "split"
    /\ left + metaCount[Head(todo)] > MetaDataInterval
    /\ Handed(Head(todo), Item("audio", produced - left, left))
    /\ stage' = "meta"
    /\ UNCHANGED <<connectionList, life, streamIdRequested, metaCount, newMetaData,
                   metaData, answering, requests, lock, todo, size, left, produced, titles>>

\* Mutation of TransmitMetaData: _newMetaData stays.
TitleKept ==
    /\ stage = "meta"
    /\ LET c == Head(todo) IN
         /\ Handed(c, IF newMetaData[c] THEN Item("meta", metaData[c][1], metaData[c][2])
                                        ELSE Item("meta", 0, 0))
         /\ metaCount' = [metaCount EXCEPT ![c] = 0]
         /\ left' = left - (MetaDataInterval - metaCount[c])
    /\ stage' = "split"
    /\ UNCHANGED <<connectionList, life, streamIdRequested, newMetaData, metaData,
                   answering, requests, lock, todo, size, produced, titles>>

\* Mutation of TransmitRest: _metaCount is not advanced.
RestUncounted ==
    /\ stage = "split"
    /\ left + metaCount[Head(todo)] <= MetaDataInterval
    /\ Handed(Head(todo), Item("audio", produced - left, left))
    /\ todo' = Tail(todo)
    /\ stage' = "visit"
    /\ UNCHANGED <<connectionList, life, streamIdRequested, metaCount, newMetaData, metaData,
                   answering, requests, lock, size, left, produced, titles>>

\* The audio still to go starts at this byte of the stream.
At == produced - left

\* preMetaBytes
PreMetaBytes(c) == MetaDataInterval - metaCount[c]

\* while (len + _metaCount > MetaDataInterval): the bytes up to the boundary ...
SplitPacket ==
    /\ stage = "split"
    /\ LET c == Head(todo) IN
         /\ left + metaCount[c] > MetaDataInterval
         /\ Handed(c, Item("audio", At, PreMetaBytes(c)))
    /\ stage' = "meta"
    /\ UNCHANGED <<connectionList, life, streamIdRequested, metaCount, newMetaData,
                   metaData, answering, requests, lock, todo, size, left, produced, titles>>

\* ... then TransmitMetaData(), and _metaCount starts again.
TransmitMetaData ==
    /\ stage = "meta"
    /\ LET c == Head(todo) IN
         /\ Handed(c, IF newMetaData[c] THEN Item("meta", metaData[c][1], metaData[c][2])
                                        ELSE Item("meta", 0, 0))
         /\ newMetaData' = [newMetaData EXCEPT ![c] = FALSE]
         /\ metaCount' = [metaCount EXCEPT ![c] = 0]
         /\ left' = left - PreMetaBytes(c)
    /\ stage' = "split"
    /\ UNCHANGED <<connectionList, life, streamIdRequested, metaData, answering,
                   requests, lock, todo, size, produced, titles>>

\* The rest of the packet fits before the boundary.
TransmitRest ==
    /\ stage = "split"
    /\ LET c == Head(todo) IN
         /\ left + metaCount[c] <= MetaDataInterval
         /\ Handed(c, Item("audio", At, left))
         /\ metaCount' = [metaCount EXCEPT ![c] = @ + left]
    /\ todo' = Tail(todo)
    /\ stage' = "visit"
    /\ UNCHANGED <<connectionList, life, streamIdRequested, newMetaData, metaData,
                   answering, requests, lock, size, left, produced, titles>>

AddStreamDataReturns ==
    /\ lock = "stream"
    /\ todo = << >>
    /\ lock' = "free"
    /\ UNCHANGED <<connVars, todo, stage, size, left, produced, titles>>

\* StreamingServer::MetaDataUpdate(): the whole walk under the list mutex; the
\* fields it writes are only read and written under that mutex.
MetaDataUpdate(s, blocks) ==
    /\ lock = "free"
    /\ titles < MaxTitles
    /\ titles' = titles + 1
    /\ LET told == {c \in Conns : life[c] = "listed" /\ streamIdRequested[c] = s} IN
         /\ metaData' = [c \in Conns |-> IF c \in told THEN <<titles + 1, blocks>> ELSE metaData[c]]
         /\ newMetaData' = [c \in Conns |-> c \in told \/ newMetaData[c]]
    /\ UNCHANGED <<connectionList, life, streamIdRequested, metaCount, answering,
                   requests, out, lock, todo, stage, size, left, produced>>

\* The steps of an AddStreamData() that has been called.
Streaming == Visit \/ SplitPacket \/ TransmitMetaData \/ TransmitRest \/ AddStreamDataReturns

Next ==
    \/ \E n \in PacketSizes : AddStreamData(n)
    \/ Streaming
    \/ \E s \in Streams, b \in BlockCounts : MetaDataUpdate(s, b)
    \/ \E c \in Conns :
         \/ Accept(c)
         \/ PushBack(c)
         \/ RemoveConnection(c)
         \/ \E kind \in Responses, s \in Streams : Request(c, kind, s)
         \/ Respond(c)

Spec == Init /\ [][Next]_vars
-----------------------------------------------------------------------------
(* Properties *)

TypeOK ==
    /\ connectionList \in Seq(Conns)
    /\ life \in [Conns -> {"absent", "accepted", "listed", "gone"}]
    /\ streamIdRequested \in [Conns -> Streams \cup {NoStream}]
    /\ metaCount \in [Conns -> 0 .. MetaDataInterval]
    /\ newMetaData \in [Conns -> BOOLEAN]
    /\ metaData \in [Conns -> Nat \X Nat]
    /\ answering \in [Conns -> Responses \cup {"none"}]
    /\ requests \in [Conns -> 0 .. MaxRequests]
    /\ out \in [Conns -> Seq([kind : Responses \cup {"audio", "meta"}, at : Nat, n : Nat])]
    /\ lock \in {"free", "stream"}
    /\ todo \in Seq(Conns)
    /\ stage \in {"visit", "split", "meta"}
    /\ size \in Nat /\ left \in 0 .. size
    /\ produced \in 0 .. MaxBytes
    /\ titles \in 0 .. MaxTitles

\* Bytes of audio in a piece of out.
AudioBytes(s) == FoldLeft(LAMBDA n, item : IF item.kind = "audio" THEN n + item.n ELSE n, 0, s)

Metas(c) == {i \in 1 .. Len(out[c]) : out[c][i].kind = "meta"}

\* However packets are sized, split and interleaved with responses, a metadata
\* block comes after exactly MetaDataInterval bytes of audio since the last
\* one, or since the first byte of audio the connection was handed.
BlockEveryInterval ==
    /\ TypeOK
    /\ \A c \in Conns : \A i \in Metas(c) :
         LET before == {j \in Metas(c) : j < i}
             from == IF before = {} THEN 1 ELSE 1 + CHOOSE j \in before : \A k \in before : k <= j
         IN AudioBytes(SubSeq(out[c], from, i)) = MetaDataInterval

Answered(c, k) == out[c][k].kind \in Responses

\* Up to item j the player has asked for this stream only, since the request that
\* item i was sent for.
AskedForStream(c, i, j) == \A k \in 1 .. j - 1 :
    Answered(c, k) /\ (\A l \in k + 1 .. i - 1 : ~Answered(c, l)) => out[c][k].at = TheStream

\* What a connection gets of the stream has no gap and no repetition, except
\* where the player asked for another stream; a packet that was being split when
\* that request was answered may end after the answer.
AudioContiguous == \A c \in Conns : \A i, j \in 1 .. Len(out[c]) :
    /\ i < j
    /\ out[c][i].kind = "audio" /\ out[c][j].kind = "audio"
    /\ \A k \in i + 1 .. j - 1 : out[c][k].kind # "audio"
    /\ AskedForStream(c, i, j)
    => out[c][j].at = out[c][i].at + out[c][i].n

\* A title is sent once, and never after a newer one.
TitleOnceAndNewest == \A c \in Conns : \A i, j \in Metas(c) :
    i < j /\ out[c][i].at # 0 /\ out[c][j].at # 0 => out[c][i].at < out[c][j].at

\* The player's side: MetaDataInterval bytes of audio, a length byte, that many
\* blocks of 16 bytes, and again.  ok: it never took one kind for another.
Player(item, p) ==
    IF item.kind = "audio"
    THEN [ok |-> p.ok /\ item.n <= p.due, due |-> p.due - item.n]
    ELSE [ok |-> p.ok /\ p.due = 0 /\ item.n % LengthValues = item.n,
          due |-> MetaDataInterval]

Play(s) == FoldLeft(LAMBDA p, item : IF p.ok THEN Player(item, p) ELSE p,
                    [ok |-> TRUE, due |-> MetaDataInterval], s)

\* The player asked for the stream once, with metadata, and had the answer
\* before any audio.
OneCleanRequest(c) ==
    /\ out[c] # << >>
    /\ Head(out[c]).kind = "icy"
    /\ \A i \in 2 .. Len(out[c]) : out[c][i].kind \notin Responses

\* Such a player reads the stream as it was meant: audio where it expects
\* audio, a length byte where it expects one, as long as the titles' lengths
\* fit their byte.
CleanPlayerInStep == \A c \in Conns :
    OneCleanRequest(c) /\ (\A i \in Metas(c) : out[c][i].n < LengthValues)
        => Play(Tail(out[c])).ok

\* "... then start sending data...": no audio goes out before the response.
AudioAfterResponse == \A c \in Conns : \A i \in 1 .. Len(out[c]) :
    out[c][i].kind = "audio" => \E j \in 1 .. i - 1 : out[c][j].kind \in {"listen", "icy"}
==============================================================================
