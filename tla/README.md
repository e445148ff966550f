# A TLA+ model of WinSonosAirPlay

WinSonosAirPlay is a Windows program that makes Sonos players look like AirPlay
speakers. It finds the players of the network, opens one RTSP server for each,
takes the encrypted ALAC audio an AirPlay sender delivers over UDP, transcodes it
to MP3, and serves the MP3 as a shoutcast stream that it tells the Sonos to play.
This directory holds TLA+ modules of it, the TLC configurations that check them,
and proofs that TLAPS checks. All paths are those of the repository (`src/` is
its root).

- [The system](#the-system): components, state, interactions, what is hard
- [Modules](#modules): what each models and how it corresponds to the code
- [Runs](#runs): what each checks, what it shows, why its bounds are enough
- [Fairness](#fairness)
- [Proofs](#proofs)
- [Findings](#findings), and what else the code does not satisfy
- [Limits](#limits): only model-checked, not modelled
- [Plan](#plan)

Check a run with `tlc -workers 2 -config X.cfg M`, the proofs of a module with
`tlapm MProofs.tla`. `PROJECT.json` lists the runs with
their properties, the source lines of every definition, the hazards, and the
mutations described under Modules.

## The system

### Components

| component | state | operations |
|---|---|---|
| `NetworkServerConnection` (NetworkServer.h/.cpp) | socket, `_txQueue` with `_transmitMutex` and `_transmitCv`, `_closeConnection`, two thread pointers | `Initialise`, `Transmit`, `SendResponse`, `Close`, `ReadThread`, `TransmitThread` |
| `NetworkServer<T>` (NetworkServer.h) | `_connectionList` with `_connectionListMutex`, listening socket and thread, `_stopServer` | `StartListening`, `ListeningThread`, `RemoveConnection`, destructor |
| `NetworkRequest`, `NetworkResponse` | the parsed header, `pContent`, `contentLength`; header text | `ParseHeader`; `AddHeaderField` |
| `StreamingServer`, `StreamingServerConnection` | per player: `_streamIdRequested`, `_metaCount`, `_newMetaData`, `_metaData`; the singleton `InstancePtr` | `OnRequest`, `AddStreamData`, `TransmitStreamData`, `TransmitMetaData`, `MetaDataUpdate`, `Delete` |
| `RtspServer`, `RtspServerConnection` | per sender: keys and ALAC configuration, three UDP sockets, `_pAudioThread`, `_stopAudioThread`, `_streamId`, a transcoder; per server: the UDN of its Sonos | the handlers of eight RTSP methods, `AudioThread`, `Close`, destructor |
| `SonosInterface` | `_deviceList`, `_groupList`, the search thread and the COM search, the registered client | `SearchThread`, `UpnpDeviceAdded/Removed`, `ParseZoneTopology`, `NetworkRequest`, `Play`, `Stop`, `SetAvTransportUri`, `FormatMetaData` |
| tinyxml2 | a tree of nodes with its memory pools, the text it points into | `Parse`, `FirstChildElement`, `NextSiblingElement`, `Attribute`, `GetText`, destruction |
| `CWinAirSonosApp` | `_airplayServerMap`, `_sdRefMap` with the mDNS registrations | `InitInstance`, `OnNewDevice`, `AdvertiseServer`, destructor |
| `AirPlayRTSPServer` | connections with buffers and sockets, `fClientConnectionsForHTTPTunneling`, pending REGISTERs | framing, RTSP commands, HTTP tunnels, REGISTER, destructors |
| `CTranscoder` | decoder, encoder, buffers, `_streamId` | `Init`, `Write`, `Shutdown` |
| `CUdpSocket` | socket and port | `Initialise`, `Read` |

`HttpServer` (a test server nothing instantiates) and the MFC dialog have no
logic to model. `AirPlayRTSPServer`, adapted from live555, is kept beside the
program as an alternative to `RtspServer`: the project file does not build it and
its include is commented out (WinAirSonos.cpp:11).

### How they interact

```
 AirPlay sender --RTSP--> RtspServerConnection --SOAP--> Sonos player
       |                      |  ReadThread: OnRequest         |
       |                      |  SETUP: SetAvTransportUri, Play, new AudioThread
       +----UDP audio----> AudioThread -> CTranscoder::Write   |
                                             |                 |
                               StreamingServer::AddStreamData  |
                                             |                 |
                     StreamingServerConnection::Transmit --HTTP+
```

Threads: per server a listening thread; per connection a read thread, which runs
`OnRequest()`, and a transmit thread; per SETUP an audio thread; a search thread,
on which COM calls back for players and `OnNewDevice()` creates servers; the main
thread, which deletes them. Two mutexes carry the
design: `_connectionListMutex` of each server, under which connections are listed,
closed, deleted and fed with audio, and `_transmitMutex` of each connection.

### What is hard

- A connection is closed by its own read thread, which deletes the object it runs
  in, or by the destructor's sweep; meanwhile the listening thread may still be
  building it, and audio threads transmit to it.
- The transmit thread waits on a condition variable without a predicate and is
  notified without the mutex: notifications get lost, and `Close()` joins that
  thread with the list mutex held.
- `send()` and `recv()` take any part of what they are given; sockets fail at any
  step.
- Metadata blocks have to sit at exact byte distances in a stream that several
  threads write and that a player can join at any time.
- A command to the Sonos may fail, and nobody looks at the result; several
  connections of a server share one Sonos.
- Shutdown: objects are deleted while threads still use them, and the search thread
  advertises players while the destructor withdraws them.
- Answers of players are received through a buffer that is flushed when full, parsed
  in place by a parser with its own memory pools, and trusted.
- In `AirPlayRTSPServer` objects hand their sockets to each other in the middle of
  each other's calls and delete themselves, and tables keep pointers to them.

`PROJECT.json` lists each hazard at its line with the properties that would catch
it; a hazard without a property says why.

## Modules

| module | models | composes |
|---|---|---|
| `FifoChannel` | what a connection promises the callers of `Transmit()` | |
| `NetworkServerConnection` | the transmit side of connections | implements `FifoChannel` |
| `NetworkServer` | listening thread, list, read threads, destructor | `INSTANCE NetworkServerConnection` for the connections' transmit threads and `Close()` |
| `StreamingServer` | the stream to the players | takes a connection as the FIFO of `FifoChannel` (`out`) |
| `RequestFraming` | how `ReadThread()` cuts bytes into requests | |
| `RtspSession` | the sessions of one RTSP server | takes the list mutex of `NetworkServer` |
| `SonosExchange` | one HTTP exchange with a player | |
| `SonosDiscovery` | search thread, COM callbacks, lists, destructor | `INSTANCE SonosExchange` for the question it asks a player |
| `AppLifecycle` | start and end of the program | takes `SonosDiscovery` as who calls `OnNewDevice()`, `RtspSession` as sessions that feed the streaming server |
| `XmlDocument` | tinyxml2's parser, pools and tree, and the walk of `ParseZoneTopology()` | |
| `XmlText` | tinyxml2's decoding in place, of what `FormatMetaData()` wrote | |
| `AirPlayServer` | the server of AirPlayRTSPServer.cpp | |

The `MC*` modules instantiate them for TLC. The `*Proofs` modules hold the theorems
about the module of their name, `SonosDiscoveryProofs` also about `SonosExchange`;
`ReadThreadProofs` is about `RequestFraming` and `RtspSession`, the two views of
`ReadThread()`, and `TinyXmlProofs` about `XmlDocument` and `XmlText`.

A definition whose comment calls it a *mutation* is not part of any specification:
it is a plausible bug, an alternative body for the definition that follows it.
`PROJECT.json` pairs every property with one, and the property fails
when the definition's body is replaced by it. A property no mutation can break
would say nothing about the code.

### FifoChannel, NetworkServerConnection

`FifoChannel` promises order, that a buffer is settled once (sent, or dropped
because the socket failed), and that after closing has begun at most one more is
settled: the one inside `send()`. It does not promise that a buffer is ever
settled, because the code does not.

In `NetworkServerConnection`, `txPc` is where `TransmitThread()` is: `check` (the
`while (!_closeConnection)`), `lock` (from there to `wait()`), `waiting`, `drain`
(the inner loop's condition, mutex held), `send`, `exited`; `closePc` is where a
caller of `Close()` is, one state per statement: flag raised, `notify_all()`,
`closesocket()`, join. `send()` is one action: it takes any positive number of
bytes, or fails. A buffer is its number, counted by calls of `Transmit()`;
`txLen` is the `len` member of each buffer. The variables `wire`, `outcome` and
`missed` are histories: what reached the network, how each buffer was settled, and
which buffers were pushed between `lock` and `waiting`, where `notify_all()` finds
no waiter. `LockAndWait` is atomic because `wait()` releases the mutex and begins
waiting in one step; the gap the code leaves is between `CheckClosed` and it.

### NetworkServer

One action per statement at which another thread can come in between. The
listening thread: stop check, `accept()` with the construction, start of the read
thread, assignment of `_pReadThread`, start of the transmit thread, assignment,
`push_back`. A read thread: check, `recv()`, response, `detach()`,
`RemoveConnection()`. The destructor: `_stopServer`, `closesocket()`, join, lock,
close and delete each front element, unlock, destruction of the members. The list
mutex is held exactly while a read thread is `removing` or the destructor is in
`sweep`. `RemoveFound` finds the connection's first place in the list and erases it
(`Erase`, NetworkServer.h:228). Closing a victim is the `Close()` of
`NetworkServerConnection`, step by step, whoever runs it. What ends the process ends
in a state of `crash`: the `std::out_of_range` that `ParseHeader()` throws on a
request line without a path or protocol, or on a header field without a value, and
that nothing on the read thread catches (`HeaderThrows`); `detach()` through a null
pointer, `join()` through one, `std::terminate` by a joinable thread's destructor,
or a read thread that runs on in a deleted object (which need not crash: it is a
choice).

### StreamingServer

`AddStreamData()` is split at each connection it visits and, within a connection,
into `SplitPacket` (audio up to the interval), `TransmitMetaData` and
`TransmitRest`, so that the unlocked `OnRequest()` of the read thread can come
between any two. `RemoveConnection` takes out one place of the list that holds the
connection, as the code does. `Request` is `OnRequest()` up to its assignment of
`_streamIdRequested`, `Respond` the transmission of the response. Audio is
counted, not carried: an item of `out` has the kind, the position of its first
byte and its length, for metadata the number of the title and its blocks.
`LengthValues` is the number of values of the length byte. Requests are of kind
`listen` (without `Icy-MetaData`), `icy` (with it, answered with `icy-metaint`)
and the other paths. `AudioContiguous` looks back to the request a piece of audio
was sent for (`AskedForStream`): a player that asks for another stream while a
packet is being split is still handed the rest of it, which then follows the answer,
and asking for the first stream again afterwards makes a gap that is meant. Two
requests do not reach that; three do.

### RequestFraming

Bytes are positions in what the client sent. One pass of the loop in
`ReadThread()` is one action, `Handle` or `Keep`, for every number of bytes
`recv()` may return: the growth of the buffer, the search for the first blank
line, the header's `Content-Length` and the comparison with what is there are all
in it. When bytes of a header were dropped by an earlier reset, its
`Content-Length` may be found or not. The names of this specification begin with
`Framing`, so that one module of proofs can extend it and `RtspSession`.

### RtspSession

`entry` is how far the listening thread has got with a connection: its read thread
is started, and serves at once, before `_pReadThread` is stored and before
`push_back`. `readPc` follows a handler of the read thread at the points where it
touches the Sonos or another thread: SETUP is sockets and response,
`SetAvTransportUri()`, `Play()`, `new std::thread`; a lost connection is
`RemoveConnection()`, which may find that the list does not have it yet
(`RemoveNotFound`), the list mutex, `Stop()`, the base class's `Close()`, the
destructor's join. The base class's `Close()` may hang in its join, as the finding
`close_lost_wakeup` shows, with the list mutex held (`CloseHangs`); only a spurious
wakeup ends that (`Woken`). Audio threads
are numbered by the SETUP that started them; `latest` is the number in
`_pAudioThread`. A command to the Sonos succeeds or fails (`lost` records that one
has). A datagram shorter than the header that is skipped, or longer than the
transcoder's buffer, is a copy that does not fit (`AudioMisfit`), whoever sent it to
the port. `rude` records connections whose sender left out a body, sent a header
that `ParseHeader()` throws on, set up without announcing, or set up twice; `crash`
is the connection whose threads brought the process down. A failed bind in SETUP sends no response and starts nothing, but
counts as a SETUP.

### SonosExchange, SonosDiscovery

`SonosExchange` is `NetworkRequest()`: `rbuff`, `rbshift`, `tb` and `respbuff` are
the code's variables, a byte is its position in the player's answer, and `Recv`
takes any number of bytes, as `recv()` may. `EndOfExchange` covers the ways out of
the loop (the player closes; an error or two seconds of silence) and the cutting of
the header from the document as the code does it: after the status line, so that the
header fields stay in the document.

In `SonosDiscovery`, `searchPc` is where the search thread is. COM calls back only
while that thread pumps messages, so `UpnpDeviceAdded`, `UpnpDeviceRemoved` and
`UpnpSearchComplete` are steps of it. `finder` and `callback` count references, so
that two `CancelAsyncSearch()` at once, the thread's and the destructor's, show as
negative counts. The players live in `zone`, which may change between searches; an
answer is the zone as it was when it was asked for. `ParseZonePlayer` is the body
of the loop in `ParseZoneTopology()` for one player, in any order, with the local
variable `group` that outlives an iteration.

### AppLifecycle

`mainPc` follows `InitInstance()` and, after `DialogCloses`, the deletion of the
streaming server and `~CWinAirSonosApp()`; `findPc` follows `OnNewDevice()` on the
search thread (or on the main one, in the build with `NO_SONOS`: `noSonos` is either
and does not change). A `StreamingServer` is a number, `instance` the pointer to the
singleton; creation is split into the test and the assignment, which two threads can
both pass. Ports that other programs hold (`taken`) are any subset. `boundPort` and
`advertised` are what `bind()` got and what mDNS was told; the conversions to 16
bits of a port past the range are those of the code (`Bound`, `Advertise`).

### XmlDocument, XmlText

A text is a sequence of tokens (tags, text, CDATA sections, comments, cut or stray
ones). `frames`
are the activations of `XMLNode::ParseDeep()`, `deleting` those of `DeleteNode()`;
each action is one call, or what follows its return; deleting an element frees its
attributes first, then its children, then its chunk. `node` holds the links of the
code's nodes, named by their chunks in the memory pools, and `free` the pools' free
lists, so a chunk that is reused while somebody points to it is the same node
again. `PassOver`, `Descend` and `VisitPlayer` are the loops of
`ParseZoneTopology()` on that tree. The meaning of a text, against which the tree is
compared, is defined without a parser (`Encloser`, `WellFormed`).

`XmlText` is `StrPair::GetStr()` byte by byte: `p` reads, `q` writes, in one buffer.
Each pass of its loop is an action for its case. Texts are put together from units
whose meaning is known, or are metadata that `FormatMetaData()` escaped.

### AirPlayServer

One event loop: an event is a read (`Receive`), a failed read, a delayed task or a
call of the application, and runs to its end before the next. Because
`handleRequestBytes()` calls itself on another object (a POST gives its socket and
what follows it to the object of the GET), its activations are a `stack`, and an
object deletes itself only at its outermost one. Data is in units of a third of a
request's head; Base64 in units of a quarter of a group of three, so that reads cut
groups anywhere (`Decode`, `Remainder`). `table` is the table of session cookies,
`watch` the handlers of the event loop, `sock` what became of each socket. What the
code does with deleted objects ends in a `fault`, and so does a short datagram to an
audio thread, which runs at any time, also in the middle of an event; `wire`, `sent`, `handled` and
`replies` are histories.

## Runs

A passing run explores every state within its bounds. Its `about` in
`PROJECT.json` says what it asks.

| run | module, cfg | properties | states |
|---|---|---|---|
| `transmit_queue` | MCNetworkServerConnection | `TypeOK`, `FifoConserved`, `WireKeepsCountAndOrder`, `BacklogWasMissed`, `QuietAfterClose`, `HeardCloseReturns`, `ImplementsChannel` | 21 584 |
| `close_lost_wakeup` | MCNetworkServerConnection, MCCloseLostWakeup | `CloseReturns`: violated | |
| `connection_lifetime` | MCNetworkServer | `TypeOK`, `ListedIsUsable`, `DeletedIsQuiet`, `RunningServerCrash`, `FailedIsRemoved`, `DestructorReturns` | 221 506 |
| `stream_metadata` | MCStreamingServer | `BlockEveryInterval`, `AudioContiguous`, `TitleOnceAndNewest`, `CleanPlayerInStep` | 945 336 |
| `request_framing` | MCRequestFraming | `BufferHasRoom`, `EachRequestExact`, `WaitingClientAnswered` | 48 411 |
| `rtsp_sessions` | MCRtspSession | `TypeOK`, `GoneIsQuiet`, `CrashHasCause`, `SonosStopsWithLast`, `LostIsTakenDown` | 676 368 |
| `stop_hits_other` | MCRtspSession, MCStopsOther | `SessionKeepsPlaying`: violated | |
| `sonos_discovery` | MCSonosDiscovery | `AnnouncedOnce`, `ListsAgree`, `BytesInOrder`, `CompletedIsEnded` | 352 862 |
| `app_lifecycle` | MCAppLifecycle | `AdvertisedListens`, `WithdrawnFirst` | 3 915 073 |
| `xml_document` | MCXmlDocument | `WellLinked`, `ChunksOnce`, `ParsedIsSource`, `EveryPlayerVisited` | 424 585 |
| `xml_text` | MCXmlText | `UnreadIntact`, `DecodedIsMeaning` | 190 020 |
| `airplay_tunnel` | MCAirPlayServer | `RequestsExact`, `DeletedForgotten`, `SocketsOwned` | 255 171 |

Where a module's `TypeOK` is not listed it is the first conjunct of one of the
properties that are.

What the passing runs show, and why their bounds reach it:

- **transmit_queue.** Three buffers of two bytes on one connection: one in
  `send()`, one queued behind it, one arriving; a buffer can be sent in parts. The
  connections of this module do not touch each other's state, so one suffices. A
  buffer is never lost, settled twice or overtaken; the thread sleeps only over
  buffers it was never told of; after `Close()` returned nothing moves; and
  `Close()` returns unless its notification falls into the one gap.
- **connection_lifetime.** Two connections: one can be removed while the other is
  accepted, answers or waits for the mutex; a third would meet the same three
  situations. A connection answers only while it is alone (`OneAnswers`): a
  response takes nothing but its own connection's mutex. While the server runs,
  nothing lives in a deleted connection, what is listed can be used, and a crash
  can only come from a read thread that fails before `Initialise()` has stored its
  pointer, or from a header that `ParseHeader()` throws on. A failed connection that is listed is deleted and `~NetworkServer()`
  returns, except after a lost notification or a crash. Both provisos are needed.
- **stream_metadata.** An interval of 3 and packets of 0, 2 and 5 bytes: empty,
  inside an interval, across one boundary, across two. Seven bytes, in any order of
  packets, pass two boundaries. Two titles, of which a block count can exceed the length
  byte; three requests of a player, for the stream and for another, of which the third
  is for the stream again (`ThirdRequestIsPlain`). A second player, the guest,
  can join, leave or ask while a packet is at the first, with fewer bytes, and one
  request of each player or one request and a title (`GuestStaysShort`): the players
  share the walk over the list, not their counts.
- **request_framing.** A buffer of 4 bytes doubles once or twice; every
  combination of three requests with a short or longer header and no, a short or
  a long body; every way to cut the bytes. Properties about exactness are for
  clients that wait for each answer (`~pipelined`), which senders and players do.
- **rtsp_sessions.** Two connections, one of which sets up twice, so that an audio
  thread is forgotten. The list mutex, the shared Sonos and the join are contended
  by two; a third connection would only queue behind. One of the two breaks the
  protocol in every way there is, the other goes on only while it breaks none of it
  (`OneIsPolite`). The process is brought down by the connection of a sender that
  breaks the protocol, and else in two ways only: a datagram that does not fit, from
  whoever can send one to the port, and a connection lost before its read thread was
  stored. If commands arrive, the last session leaves the Sonos stopped; every lost
  connection that the list has is taken down unless a `Close()` hangs.
- **sonos_discovery.** Two players in one group or two, a bridge, one change of the
  zone, two searches, answers of three bytes through a buffer of two, which is
  flushed in the middle and may be exactly full at the end. Two players are what it
  takes to be coordinator and member, to be known by the other's topology, and to
  share the local `group`. A player is announced once, devices and groups agree, an
  answer is kept whole, a completed search is ended. The zone does not change in
  behaviours with a shutdown (`ZoneStillAtShutdown`), whose steps do not look at it.
- **app_lifecycle.** Three players, two of one name, so that one replaces the other
  in the maps while both live; two ports, of which the first tried may be the one
  past the range, and two tries, so that trying wraps around and fails. What mDNS is
  told within the range is where that server listens; a server is deleted only
  after it is withdrawn, but for those the search thread advertised later.
- **xml_document.** Every text of up to four tokens out of thirteen, a CDATA section
  and a start tag with an attribute twice among them, and every text
  that one deletion, replacement or insertion makes of an answer with a header, a
  declaration and two players: nested, truncated and mismatched ones. Blocks of two
  chunks, so that pools grow and chunks are reused. The tree is the text's, links
  and pools are sound at every step of parsing and deleting, and each player of the
  answer is visited once.
- **xml_text.** Texts of up to three units of each kind, among them the first and
  last code of each length in UTF-8, one past the last, and one that overflows; every
  title of up to three bytes that matter. An unsigned has 24 bits instead of 32, so
  that a reference of eight digits overflows. What the string then is, is claimed of
  texts without such a reference and without an unknown entity after something
  shorter (`kept`); that nothing unread is overwritten, of all.
- **airplay_tunnel.** Three connections: the GET and the POST of a tunnel and one
  that supersedes either. Two cookies, at most four requests, one lost connection,
  one stream that is being registered elsewhere, a second POST of one connection,
  reads of five units (which cut a
  group), of all there is, or of what there is room for; a buffer that a POST and
  what follows it just fill. Connections and cookies are symmetric, which is sound
  because no temporal property is checked. Requests are whole and in order, sockets
  have one owner, and what is left of a deleted connection is one of the cases that
  `DeletedForgotten` names.

## Fairness

Weak fairness of the steps of each thread, because the operating system schedules
every runnable thread, and nothing else: no fairness of the peers, of requests, of
the arrival of connections, of the end of a search or of failures. A `send()` that
has been called returns (the sockets are blocking; a peer that never reads would
block it for ever, so `HeardCloseReturns`, `FailedIsRemoved` and `DestructorReturns`
hold for peers that read or close). A mutex or a join is weakly fair because its
owner gives it up only once; where an action needs the list mutex again and again
it is never contended for ever within the bounds. Spurious wakeups are possible and
not fair: they cannot be relied on to repair a lost notification. What a peer sends,
a header that `ParseHeader()` throws on and a datagram among it, is not fair either,
nor is undefined behaviour that need not be fatal, nor that the race for a null
`detach()` is lost; a step that is sure to be taken, such as the destructor's `join()`
through a null pointer, is part of its thread like any other, and ends the process. In `RequestFraming` what was sent arrives. In
`SonosDiscovery` the search thread runs; `recv()` returns after two seconds at the
latest (`SO_RCVTIMEO`), and its waits are pauses of half a second. `AppLifecycle`,
the XML modules and `AirPlayServer` state no fairness and no liveness.

Three runs with liveness properties have a constraint (`OneAnswers`, `OneIsPolite`,
`ZoneStillAtShutdown`): their liveness is claimed of the
behaviours within it. Each constraint cuts off an event of the environment, which
no fairness demands, and none a step of a thread the property waits for.

## Proofs

Eight modules of proofs, each about every value of the constants its specification
allows. The assumptions are those the specifications state (`ASSUME`), no stronger
than the code: sizes and bounds are natural numbers, a buffer length, an initial
size or an interval is not zero, `NoConn` is not a connection, a bridge is a player,
a title is a C string and has no NUL in it, the connections of `AirPlayServer` are
finitely many and a script is a sequence of its kinds of requests.
TLC evaluates each of them in the run of its module.

| module | theorem | property |
|---|---|---|
| `NetworkServerConnectionProofs` | `TypeCorrect` | `TypeOK` |
| | `FifoTheorem` | `FifoConserved` |
| | `WireTheorem` | `WireKeepsCountAndOrder` |
| | `BacklogTheorem` | `BacklogWasMissed` |
| | `QuietTheorem` | `QuietAfterClose` (action property) |
| | `Refinement` | `ImplementsChannel` |
| `NetworkServerProofs` | `TypeCorrect` | `TypeOK` |
| | `ListIsUsable` | `ListedIsUsable` |
| | `DeletedConnectionIsQuiet` | `DeletedIsQuiet` |
| | `RunningServerCrashes` | `RunningServerCrash` |
| | `ServedFifo` | `Conn!FifoConserved`, of every connection of a server |
| `StreamingServerProofs` | `BlocksAtTheirPlaces` | `BlockEveryInterval` |
| | `StreamHasNoGap` | `AudioContiguous` |
| | `TitlesOnceInOrder` | `TitleOnceAndNewest` |
| | `PlayerInStep` | `CleanPlayerInStep` |
| `ReadThreadProofs` | `RoomForRecv` | `BufferHasRoom`, of `RequestFraming` |
| | `WaitingClientExact` | `EachRequestExact` |
| | `TypeCorrect` | `TypeOK`, of `RtspSession` |
| | `DeletedConnectionIsQuiet` | `GoneIsQuiet` |
| | `CrashesHaveCause` | `CrashHasCause` |
| | `LastSessionStopsSonos` | `SonosStopsWithLast` |
| `SonosDiscoveryProofs` | `ExchangeInOrder` | `BytesInOrder` |
| | `PlayerAnnouncedOnce` | `AnnouncedOnce` |
| | `DevicesAreInTheirGroups` | `ListsAgree` |
| `AppLifecycleProofs` | `AdvertisedPortListens` | `AdvertisedListens` |
| | `AdvertisedLast` | `WithdrawnFirst` (action property) |
| `TinyXmlProofs` | `DecodesInPlace` | `UnreadIntact` |
| | `TitleRoundTrip` | `DecodedIsMeaning`, of what `FormatMetaData()` writes |
| | `ListsAreLinked` | `WellLinked`, of `XmlDocument` |
| | `ChunksReturn` | `ChunksOnce`, of `XmlDocument` |
| | `ParseIsFaithful` | `ParsedIsSource`, of `XmlDocument` |
| | `WalkIsComplete` | `EveryPlayerVisited`, of `XmlDocument` |
| `AirPlayServerProofs` | `DeletedIsForgotten` | `DeletedForgotten` |
| | `SocketsHaveOneOwner` | `SocketsOwned` |
| | `RequestsAreExact` | `RequestsExact` |

Each module has one inductive invariant, `Inv`, a conjunction of named parts, and a
lemma per part (`...Step`) that says how a step preserves it; `Invariance` puts them
together. Before it was proved TLC checked it on the instance of the module's run.

**NetworkServerConnection.** `TypeOK`, `FifoConserved`, and per
connection `ThreadInv` and `MissedInv`. `FifoConserved` with the types is not
enough: that a settled buffer is the head of the queue needs a queue that is not
empty whenever the thread is in `send` (`ThreadInv`), which is what the `empty()`
test under the mutex is for. `BacklogWasMissed` speaks of `waiting` only; it becomes
inductive as `MissedInv`, which covers the way from the check of
`_closeConnection` to `wait()`. `QuietAfterClose` needs that `Close()` ends after
the thread does (`ThreadInv` again). The queue lemmas (`PushKeepsOrder`,
`PopKeepsOrder`) are about any sequence in order; `QueueStep` says that every step
pushes, pops or leaves the queue of a connection, so the proof of `FifoStep` has
these three cases instead of one per action. `Refinement` maps `accepted`,
`pending` and `settled` to `transmitted`, `txQueue` and `outcome`, and the phase to
`Phase(c)`. `WireTheorem` counts the bytes on the wire as the cardinality of a set
of positions; it needs, beyond `Inv`, that nothing on the wire is of a later buffer
than the head of the queue, and that the settled buffers are the ones before it.

**NetworkServer.** The invariant relates where the three kinds of threads are
(`listenPc`, `readPc`, `destroyPc`) to what exists: `FreshInv` says how much of
`Initialise()` the connection under construction has behind it, `VictimInv` who is
closing the connection that is being deleted, `ConnInv` what is true of a
connection that is unborn, built, listed, closing or deleted. No part is inductive
without the others: that a listed connection is not the fresh one needs that it was
listed by `push_back`, which needs that the listening thread was at `lockList`. The
proof is compositional: `Tx == INSTANCE NetworkServerConnectionProofs`, every step
of the server is a step of its connections' transmit sides or starts one of their
threads (`TransmitIsTx`, `ThreadIsTx`, `CloseIsTx`), and what was proved there is
used here as it stands, `ServedFifo` among it.

**StreamingServer.** Two of its properties are stated with a fold over what a player
was handed. The proofs begin with the induction that takes (below) and with what a
fold makes of a sequence that grows by an item, and then have one lemma per notion
on sequences that grow: `Fits` (audio since the last block, every block in its
place), `Rising` (titles), `LastAsked`, `Contiguous`. In the invariant, `WalkInv`
describes the walk of `AddStreamData()`, `FitsInv` says that `_metaCount` is the
audio since the last block (`MetaDataInterval` if the block is on its way), and
`JoinInv` what byte a connection is due next, from where the walk is: all of a
packet for those still to be visited, the rest for the one in hand, none for those
behind. The exceptions of the properties are in it too: `JoinInv` speaks of
`Following` connections, `AskInv` of those whose answer is not still to be sent.

**RequestFraming** (`FramingInvariance` in `ReadThreadProofs`). `LayoutInv`: requests lie one after the other in what was sent;
`WaitingInv`: a client that waits has at most its last request unanswered, and the
buffer begins with that request or has nothing to hold. The room for `recv()` comes
from growing before the loop goes round.

**RtspSession.** `NumberingInv` and `PoliteInv`: audio threads are numbered by their
SETUP, and a connection that is not `rude` has no other than the recorded one,
which is what `GoneIsQuiet` and `CrashHasCause` come from; `JoinedInv` is the join in the
destructor.

**SonosDiscovery.** `OrderInv` of the exchange: `respbuff` and the filled part of
`rbuff` are the bytes received, in order, at every size of the buffer. `RefInv` is
about the two that may cancel one search, the search thread and the destructor: who
of them may still release the finder or the callback, from where each is, so that
the counts never fall below minus one. `ListsAgree` is inductive with three facts
the property does not show: a coordinator's group has its own name, group names are
unique, and whoever is a member of a group, or of the local variable `group` that
outlives an iteration, is in the device list. The last is what keeps the members a
new group inherits (`GroupsHoldTheirOwn` above) from being counted as those of a
device that is new.

**AppLifecycle.** `StartedInv` ties the port `OnNewDevice()` has settled on to the one
that `bind()` got, `FirstPortRange` that the first try is in the range or one past
it for every value of `rand()`. `WithdrawInv`: a server that mDNS knows is among
those the first walk has still to deallocate, unless it came late; it needs that the
maps are keyed by the device's name (`KeyInv`).

**XmlText.** That decoding in place loses nothing comes down to one fact per step:
what a pass of the loop writes is no longer than what it reads, and it reads nothing
past the NUL (`TurnStep`). For a character reference that is not obvious
(`ReferenceFits`): up to four bytes are written, for "&#" and ";" around digits that
may be none; it is true because without digits the code is 0, which is one byte. The
code is a fold over the digits with recursively defined weights in the arithmetic of
an `unsigned`, and the text at the beginning is flattened from units: `CodeType`,
`WeightType` and `FlattenType` are inductions. The proof found that the cases of
`Utf8` overlapped in an earlier version of the model, where a `CASE` must not depend
on the order of its arms; they are disjoint now.

`TitleRoundTrip` is about the specification that begins with an escaped title
(`TitleSpec`), with `Titles` any set of C strings: for every title without a carriage
return the text that `GetStr()` leaves is the title. `Places` says where in the
escaped text each byte of the title begins (`PlacesExist`, by induction on the
title), and `TitleInv` that `p` is at one of these places and `q` has copied the
bytes before it. A byte that is not escaped is never a '&', and the entity of one
that is is the only one of the table that matches (`EntityNext`), so the branches for
references and unknown entities cannot be taken. A carriage return is excluded
because it is read as a line feed.

**XmlDocument** (`DocumentInvariance` in `TinyXmlProofs`). `DocumentInv` describes the heap while it is changed. `Links` says
what the four pointers of a node have to do with each other, for any function from
nodes to their fields, so that inserting, unlinking, making and freeing a node are
lemmas about such functions (`InsertKeepsLinks`, `UnlinkKeepsLinks`,
`MakeKeepsLinks`, `FreeKeepsLinks`).

- That a node with children has a first and a last one does not follow from what
  each pointer says of the next: a ring of siblings satisfies that too. `Links`
  therefore also says that along `next`, and from a parent to its child, the places
  in the text grow. Then the eldest child can only be the first (`EldestIsFirst`),
  and a node whose parent is gone would have an eldest one like it (`NoOrphans`:
  when the document has no child, there is no node).
- That `InsertEndChild()` keeps this order is `ValueInv`: what a call of
  `ParseDeep()` holds is younger than the node whose children it parses and than all
  the children that were inserted there.
- `HandsInv`: a node has no parent if and only if a call holds it, in `frames`, `cur` or
  `deleting`, and only the document may be in two hands.
- `PoolInv` and `AttrInv` count chunks and attributes, the latter of those nodes that are not
  being deleted (`Owners`); `UntrackedInv` counts the
  nodes that are not inserted yet, as long as there was no error: after one,
  `DeleteNode()` does not count them back, and only `ClearPools` does. `PhaseInv` says
  where the calls are, and that nothing is left of the tree when the pools are
  cleared.

`ParseIsFaithful` compares the tree with the text. What a text means is defined
without a parser: a token is inside the last start tag before it whose balance of
start and end tags since is one (`Encloser`). `MeaningInv` connects the two:

- `FrameInv`: each call of `ParseDeep()` is for a start tag that is inside of the one of
  the call below. `Balanced` says, of the list of these start tags, that since the
  j-th the balance is that of the calls above it, and since any other token after it
  at most that; so the innermost call is the `Encloser` of the next token
  (`EncloserIsInnermost`), and a token that opens, ends or does neither keeps `Balanced`
  for a list with one more, one less or the same calls (the lemmas on balance, about
  any text).
- `CallInv` lists where the call on top can be: before a token, with a child that it
  has just read, with an end tag that is its own or its child's, or at the end of the
  text. Each comes with a `History`: all tokens before are as in a well-formed text,
  and the start tags among them that have no end tag are those of the calls. An error
  is reported where the history and the last token show
  that the text is not well-formed (`OutcomeInv`).
- `TreeInv`: every token before `pos` but the end tags has a node, and a node that has
  a parent has it where `Encloser` says. An end tag has a node only while it is held
  or being deleted.

`WalkIsComplete` adds `VisitInv`: nodes differ in their places in the text, and the
walk is at the element the path has led to (`WalkAt`): among the children the cursor
has passed none was wanted on a level above the last, and on the last level the
wanted ones are what has been visited, in order. That the cursor passes a child with
every step and skips none (`NextIsSuccessor`) is from `Links`: a child between two
neighbours would have a neighbour of its own between them. That the recursive
function `PathEnd` satisfies its equation at all is proved from the least length
for which no such function exists (`PathEndExists`).

Both assume of a text what the parser's cases are distinguished by: an end tag has a name
(`</>` is a `stray`), and no two texts follow each other.

**AirPlayServer.** A POST runs the object of its GET inside the call of its own, so
between two events of the event loop there is a `stack` of calls, and what holds
between events does not hold inside one. The invariant therefore speaks of three
sorts of objects: those that hold their sockets (`Holds`: alive and not in a POST),
those in the middle of a POST (`Posting`), which still name a socket that is another
object's now, and the one whose call runs.

- `StackInv`: only the innermost call is not at its POST (`Nested`), every object on
  the stack is alive, and the bytes that are still to be handled are in its buffer.
  That an object is alive is what `fRecursionCount` is for: an inner call closes
  the input socket and leaves the deletion to the outermost.
- `OwnerInv`: what an object that holds its sockets reads from and writes to is open,
  is watched for it, and is nobody else's, unless it has given up both and is about
  to be deleted (`Ending`). `CallInv` is the same for the socket of the call that
  runs: the objects in a POST still name it, but give it up before they could close it
  again, and no object that holds its sockets has it.
- `WatchInv` and `TableInv`: whom a handler or a cookie still names. A deletion
  removes the handler of the socket the object has as its input and the cookie it
  has now, so the invariant says which others there can be, from what the object has
  handled: it was its own GET and POST, gave its tunnel away by REGISTER, or took a
  second cookie (`TwoCookies`). `HandedInv`, `PendingInv` and `ObjectInv` connect
  `in`, `out`, delayed tasks and threads to these histories.
- `LeakInv`: an open socket belongs to an object that holds it or to the call that
  runs, or is `Excused`.
- `DataInv`: what an object reads and what it has handled are ids of requests that
  were sent, on its own socket as long as that is its input, so that `Got` looks up
  requests that exist. Decoding Base64 keeps it (the lemmas on texts).

A step of an event is cut into the calls it consists of, with a lemma each, so that
`closeSockets()` or a deletion is argued once for all the ways there. Attempting the
proof showed that an earlier form of `SocketsOwned` excused too little: a socket is
also lost when one connection makes two POSTs and the object that had its GET is the
connection itself. TLC reaches it with two POSTs in one script, which the run has
since; `MayLeak` names the case.

`RequestsAreExact` needs two more invariants over the one above:

- `Kept`, of any clients: an answer is to the request just handled unless it is a
  SETUP's (`RepliedInv`); while a POST runs another object's call, it is still in
  front of its own buffer, and the GET it names is still there (`WaitInv`); an object that no call runs
  is active and has no complete request left (`StillInv`); nothing is written to a
  socket before it is accepted (`UnusedInv`).
- `ExactInv`, of clients that make a tunnel of one GET and one POST (`Orderly`). It
  says of every object where it is in what was written for it. While it reads its own
  socket (`PlainAt`), the first n requests have been handled, and its buffer and
  the unread bytes are together the text of the rest. Once it reads the POST's socket
  (`TunnelAt`), the last k units of the buffer are still Base64, and what is decoded
  already, with the decoding of those and of the unread bytes, is the text of the
  requests that remain. So a read may end inside a group of four or inside a
  request, and neither the remainder kept in `rem` nor the buffer handed over by
  `changeClientInputSocket()` loses a byte. An object in its POST (`Posting`) has
  handled all that was written for itself.

That decoding may be cut at any group is `DecodeConcat`; that `FlattenSeq`, by which the
texts are written, puts the requests one after another is `FlattenIsAfter`. `Steps` cuts
`Next` into what these invariants tell apart, one lemma for each. `Orderly` is used
through `OnePoster`: with a second POST the remainder of one client's Base64 would be
decoded with the other's, which the code does and the invariant excludes. The
inductive form showed that `RequestsExact` could say more than it did: one order across
both sockets, from the first request on, and nothing else handled.

**Induction.** The library's induction theorems take an operator as a parameter,
which the provers here cannot instantiate; that the natural numbers are
well-founded (`NatLessThanWellFounded`, `WFMin`) is about sets. `LeastNumber` and
`Induction` in `StreamingServerProofs`, `TinyXmlProofs` and `AirPlayServerProofs` are
derived from it. With them it is proved for every sequence what `FoldLeft` and
`FlattenSeq` compute, and of `FoldSet` and a recursive function that the values
are of their types.
What a parser computes is proved by invariants over its steps, with the meaning of
the text defined without recursion (`XmlDocument`).

## Findings

| run | what the code does |
|---|---|
| `close_lost_wakeup` | `Close()` can block for ever, with the list mutex held: `notify_all()` without the mutex, `wait()` without a predicate (NetworkServer.cpp:193, 363) |
| `stop_hits_other` | closing any RTSP connection stops the Sonos under another connection's session (RtspServer.cpp:550) |

Definitions that state what a comment says and the model does not satisfy, kept in
their modules without a run:

| definition | what the code does instead |
|---|---|
| `BreakMeansDeleted` (`NetworkServer`) | a connection whose `recv()` fails before `push_back` is not found by `RemoveConnection()` and stays listed, with no read thread, until the server goes (NetworkServer.h:223) |
| `AudioAfterResponse` (`StreamingServer`) | audio may be transmitted before the HTTP response (StreamingServer.cpp:132) |
| `NoStaleContent` (`RequestFraming`) | a request without a body is handled with an earlier body (NetworkServer.cpp:432) |
| `LengthIsChecked` (`SonosExchange`) | Content-Length is searched for in the status line and never found, so an answer from a player that keeps its connection open is an empty document, with success (SonosInterface.cpp:549) |
| `GroupsHoldTheirOwn` (`SonosDiscovery`) | a group created later also lists the members of the groups before it (SonosInterface.cpp:801) |
| `ReferencesFit` (`XmlText`) | the asserts on products and sums are compiled out; a numeric reference with enough digits wraps to another character (tinyxml2.cpp:483-521) |
| `DuplicatesAdded` (`XmlDocument`) | the comment says that a duplicated attribute is not detected and added twice; it is detected, and `Parse()` fails (tinyxml2.cpp:1621, 1626-1630) |
| `OneStreamingServer` (`AppLifecycle`) | two threads may both find no instance and create one (StreamingServer.cpp:21) |
| `ProducersEndFirst` (`AppLifecycle`) | the streaming server is deleted before the sessions that feed it (WinAirSonos.cpp:369-371), and `InstancePtr` keeps its value |

Seen while modelling, and part of the models: a port of 65536 is bound as port 0
(WinAirSonos.cpp:156); `ParseHeader()` ends the process on a request line without a
protocol or a field without a value (NetworkServer.cpp:472-501); a datagram shorter than
its header is copied by a negative length (RtspServer.cpp:574, also
AirPlayRTSPServer.cpp:1812); `~NetworkServer()` joins a null thread if the server never
listened; `~SonosInterface()` deletes a joinable thread; "&#0;" ends a string and
"&#" at the end of a text loses its '&'. Not part of them: the BSTR of a device name
is freed twice in `DeviceAdded()` (SonosInterface.cpp:103, 126); `~RtspServer()`
destroys `_sonosUdn` before the base class closes connections that use it;
`SetAvTransportUri()` escapes a title once where the metadata needs it twice.

## Limits

Only model-checked:

- all liveness (`HeardCloseReturns`, `FailedIsRemoved`, `DestructorReturns`,
  `WaitingClientAnswered`, `LostIsTakenDown`, `CompletedIsEnded`): fairness and
  `ENABLED` are beyond the prover;
- `DecodedIsMeaning` of `XmlText` for texts that are not titles: what a text means is
  a recursive definition over it (or, of a unit, given by the instance), and decoding
  skips what it does not know; the proof for titles rests on the places where their
  bytes begin, which an arbitrary text does not have.

Builds. SonosInterface.h defines `NO_SONOS`, a switch for work without players:
`NetworkRequest()` returns at once and `Init()` announces one test device.
`AppLifecycle` has both builds; `SonosExchange`, `SonosDiscovery` and `RtspSession`
are about the program without the switch. `ONE_STREAM` is defined
(StreamingServer.cpp:11), so there is one stream.

Abstracted within the modelled components:

- the contents of buffers, titles, headers and audio. In particular, that
  `TransmitThread()` starts a partly sent buffer again at `pData` is kept in
  `Sent`, but no property claims which bytes arrive;
- `StartListening()` returning false is in `AppLifecycle`, not in `NetworkServer`;
  the address handling of `accept()`;
- header fields other than `Content-Length`, and a blank line inside a body;
- decryption, volume arithmetic and DMAP parsing in `RtspServer`; OPTIONS, RECORD,
  FLUSH, GET_PARAMETER and TEARDOWN, which only answer;
- that metadata blocks also go to players that did not ask for them, and
  `_streamId` before SETUP: modelled or immaterial with one stream, claimed by no
  property;
- races on the lists of `SonosInterface`, whose `_listMutex` is never locked:
  `SonosDiscovery` has the search thread as their only user;
- `AirPlayServer`: live555's event loop and base classes are external, modelled from
  how the code uses them. There is no authentication database, all REGISTERs ask for
  one stream name, and `DESCRIBE` does not re-enter the event loop. White space in
  Base64, which is taken out before it is decoded (AirPlayRTSPServer.cpp:1098-1106),
  is left out: these clients write none. `RegisterStream` and `pending` are there for
  what they let happen: a connection that another server was asked to take over becomes
  a client's. No property is about how many there are. Session objects
  are not modelled: the code of SETUP that would create one is commented out
  (AirPlayRTSPServer.cpp:1235-1266).

Not modelled: the formatting of responses, of SOAP requests and of the mDNS record
(pure text); the codecs (library calls; `RtspSession` has the transcoder's two
entries and what two threads in them at once may do); `CUdpSocket` (a thin wrapper:
sockets that do not bind are an outcome of SETUP); `FindSpeakers()`, `Pause()`,
`SetVolume()` and `ParseUrl()` of `SonosInterface`; the printer, visitors, number
conversions, file loading and editing of tinyxml2, which the program does not use;
`StreamingServerStream`, which the build compiles out; the user interface;
`HttpServer`.

## Plan

Done, in this order: `FifoChannel`, `NetworkServerConnection` and its proofs;
`NetworkServer`; `StreamingServer`; `RequestFraming`; `RtspSession`;
`SonosExchange` and `SonosDiscovery`; `AppLifecycle`; `XmlDocument` and `XmlText`;
`AirPlayServer`.

The proofs about `RtspSession`, `NetworkServer`, `AppLifecycle`, `RequestFraming`,
`StreamingServer`, `SonosExchange`, `SonosDiscovery`, `XmlText`, `AirPlayServer` and
`XmlDocument`, in this order: nodes and chunks first, then what is parsed and
visited. Last came `RequestsExact` of `AirPlayServer`.

What is left: `StreamingServer` composed with `NetworkServerConnection`. A player that
stops reading blocks `send()` with `_transmitMutex` held, and with it `AddStreamData()`
inside the list mutex (the hazard at NetworkServer.cpp:368).
