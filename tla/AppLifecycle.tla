----------------------------- MODULE AppLifecycle -----------------------------
(***************************************************************************)
(* Start and end of the program (src/WinAirSonos.cpp): which objects and   *)
(* threads there are, who still uses them, and which port a server is      *)
(* advertised with.                                                        *)
(*                                                                         *)
(* Threads: the main thread runs InitInstance() and, after the dialog is   *)
(* closed, the destructor of theApp; the search thread of SonosInterface   *)
(* runs OnNewDevice() for each player it announces (SonosDiscovery); a     *)
(* session is an RTSP connection that is past SETUP, whose audio thread    *)
(* feeds the streaming server (RtspSession, StreamingServer).              *)
(*                                                                         *)
(* With NO_SONOS, as in the committed SonosInterface.h, there is no search *)
(* thread and Init() announces one test device itself.                     *)
(***************************************************************************)
EXTENDS Naturals, FiniteSets

CONSTANTS
    Devices,            \* players that are announced, or the test device
    Names, NameOf,      \* their names: two players may have the same
    None,
    Mp3Port,            \* MP3_PORT: 50001
    MinPort, MaxPort,   \* of OnNewDevice(): 50002, 65535
    RandMax,            \* RAND_MAX: 32767
    Tries               \* ports tried by a server: 5

ASSUME NamesAssumption == NameOf \in [Devices -> Names]
ASSUME NoneAssumption == None \notin Devices \cup Names
ASSUME PortsAssumption ==
    /\ Mp3Port \in Nat \ {0} /\ MinPort \in Nat /\ MaxPort \in Nat
    /\ Mp3Port < MinPort /\ MinPort <= MaxPort
ASSUME TriesAssumption == Tries \in Nat \ {0} /\ RandMax \in Nat \ {0}

Ports == Mp3Port .. MaxPort
NoPort == 0
Ephemeral == MaxPort + 2    \* a free port the system picks: bind() to port 0

VARIABLES
    noSonos,            \* the build
    taken,              \* ports other programs listen on
    mainPc,
    instance,           \* StreamingServer::InstancePtr, 0: nullptr
    created,            \* StreamingServer objects created
    streaming,          \* those that exist
    streamListening,    \* those with a listening thread
    streamPort,
    server,             \* RtspServer of a device: "none", "idle", "listening", "deleted"
    boundPort,          \* where it listens
    findPc, finding, port, tries,    \* OnNewDevice()
    airplayServerMap,   \* _airplayServerMap
    sdRefMap,           \* _sdRefMap
    advertised,         \* the port a device is registered with in mDNS
    session,            \* the device's session, if any
    pending,            \* entries of the map the destructor walks through
    late,               \* history: devices advertised after that walk began
    crash               \* how the process ended, "none" while it runs

streamVars == <<instance, created, streaming, streamListening, streamPort>>
findVars == <<findPc, finding, port, tries>>
serverVars == <<server, boundPort>>
mapVars == <<airplayServerMap, sdRefMap, advertised, late>>
vars == <<noSonos, taken, mainPc, streamVars, findVars, serverVars, mapVars, session,
          pending, crash>>

Init ==
    /\ noSonos \in BOOLEAN
    /\ taken \in SUBSET Ports
    /\ mainPc = "init"
    /\ instance = 0 /\ created = 0 /\ streaming = {} /\ streamListening = {}
    /\ streamPort = NoPort
    /\ server = [d \in Devices |-> "none"]
    /\ boundPort = [d \in Devices |-> NoPort]
    /\ findPc = "idle" /\ finding = None /\ port = NoPort /\ tries = 0
    /\ airplayServerMap = [n \in Names |-> None]
    /\ sdRefMap = [n \in Names |-> None]
    /\ advertised = [d \in Devices |-> NoPort]
    /\ session = [d \in Devices |-> "none"]
    /\ pending = {}
    /\ late = {}
    /\ crash = "none"

Used == taken \cup {streamPort} \cup {boundPort[d] : d \in Devices}
Destroying == mainPc \in {"deleteStreaming", "deallocate", "deleteServers", "deleteSonos", "exited"}
Found == {d \in Devices : server[d] # "none"}
-----------------------------------------------------------------------------
(* OnNewDevice(), on the search thread, or inside Init() with NO_SONOS *)

\* minPort + (rand() * (maxPort - minPort + 1)) / RAND_MAX
FirstPort(r) == MinPort + (r * (MaxPort - MinPort + 1)) \div RandMax

NewDevice(d, r) ==
    /\ findPc = "idle"
    /\ IF noSonos THEN mainPc = "initSonos" /\ Found = {} ELSE mainPc \notin {"init", "initSonos"}
    /\ server[d] = "none"
    /\ server' = [server EXCEPT ![d] = "idle"]
    /\ finding' = d
    /\ port' = FirstPort(r)
    /\ tries' = 0
    /\ findPc' = "listen"
    /\ UNCHANGED <<noSonos, taken, mainPc, streamVars, boundPort, mapVars, session, pending, crash>>

\* (unsigned short)port is 0 for 65536: bind() succeeds on a port of its own.
Bound(p) == IF p > MaxPort THEN Ephemeral ELSE p

NextPort(p) == IF p + 1 > MaxPort THEN MinPort ELSE p + 1

\* Mutation of Listens: the port is moved on after a success too.
ListensAndMovesOn ==
    /\ findPc = "listen"
    /\ Bound(port) \notin Used \ {Ephemeral}
    /\ server' = [server EXCEPT ![finding] = "listening"]
    /\ boundPort' = [boundPort EXCEPT ![finding] = Bound(port)]
    /\ port' = NextPort(port)
    /\ findPc' = "insert"
    /\ UNCHANGED <<noSonos, taken, mainPc, streamVars, finding, tries, mapVars, session,
                   pending, crash>>

\* StartListening() succeeds.
Listens ==
    /\ findPc = "listen"
    /\ Bound(port) \notin Used \ {Ephemeral}
    /\ server' = [server EXCEPT ![finding] = "listening"]
    /\ boundPort' = [boundPort EXCEPT ![finding] = Bound(port)]
    /\ findPc' = "insert"
    /\ UNCHANGED <<noSonos, taken, mainPc, streamVars, finding, port, tries, mapVars, session,
                   pending, crash>>

\* It fails, and the next port is tried ...
TriesNext ==
    /\ findPc = "listen"
    /\ Bound(port) \in Used \ {Ephemeral}
    /\ tries + 1 < Tries
    /\ port' = NextPort(port)
    /\ tries' = tries + 1
    /\ UNCHANGED <<noSonos, taken, mainPc, streamVars, findPc, finding, serverVars, mapVars,
                   session, pending, crash>>

\* ... or, after the last, the server is left as it is.
GivesUp ==
    /\ findPc = "listen"
    /\ Bound(port) \in Used \ {Ephemeral}
    /\ tries + 1 = Tries
    /\ findPc' = "idle"
    /\ finding' = None
    /\ port' = NoPort
    /\ tries' = 0
    /\ UNCHANGED <<noSonos, taken, mainPc, streamVars, serverVars, mapVars, session, pending,
                   crash>>

\* _airplayServerMap[dev._name] = pAirPlayServer, which the destructor may be
\* walking through.
InsertServer ==
    /\ findPc = "insert"
    /\ airplayServerMap' = [airplayServerMap EXCEPT ![NameOf[finding]] = finding]
    /\ findPc' = "advertise"
    /\ crash' \in IF mainPc = "deleteServers" THEN {"none", "mapRace"} ELSE {"none"}
    /\ UNCHANGED <<noSonos, taken, mainPc, streamVars, finding, port, tries, serverVars,
                   sdRefMap, advertised, late, session, pending>>

\* AdvertiseServer(): htons(port), so 65536 is 0 again.
Advertise(ok) ==
    /\ findPc = "advertise"
    /\ IF ok
       THEN /\ advertised' = [advertised EXCEPT ![finding] = IF port > MaxPort THEN MaxPort + 1 ELSE port]
            /\ sdRefMap' = [sdRefMap EXCEPT ![NameOf[finding]] = finding]
            /\ late' = IF Destroying /\ mainPc # "deleteStreaming" THEN late \cup {finding} ELSE late
            /\ crash' \in IF mainPc = "deallocate" THEN {"none", "mapRace"} ELSE {"none"}
       ELSE UNCHANGED <<advertised, sdRefMap, late, crash>>
    /\ findPc' = "idle"
    /\ finding' = None
    /\ port' = NoPort
    /\ tries' = 0
    /\ UNCHANGED <<noSonos, taken, mainPc, streamVars, serverVars, airplayServerMap, session,
                   pending>>

OnNewDevice ==
    \/ \E d \in Devices, r \in 0 .. RandMax : NewDevice(d, r)
    \/ Listens \/ TriesNext \/ GivesUp \/ InsertServer
    \/ \E ok \in BOOLEAN : Advertise(ok)
-----------------------------------------------------------------------------
(* StreamingServer::GetStreamingServer(), by any thread: test, then create *)

NewStreaming ==
    /\ created' = created + 1
    /\ instance' = created + 1
    /\ streaming' = streaming \cup {created + 1}

\* A sender's SETUP asks for the port, and creates the server if there is none.
BeginSession(d) ==
    /\ server[d] = "listening"
    /\ session[d] = "none"
    /\ session' = [session EXCEPT ![d] = IF instance = 0 THEN "create" ELSE "on"]
    /\ UNCHANGED <<noSonos, taken, mainPc, streamVars, findVars, serverVars, mapVars, pending,
                   crash>>

SessionCreates(d) ==
    /\ session[d] = "create"
    /\ NewStreaming
    /\ session' = [session EXCEPT ![d] = "on"]
    /\ UNCHANGED <<noSonos, taken, mainPc, streamListening, streamPort, findVars, serverVars,
                   mapVars, pending, crash>>

\* The audio thread's AddStreamData().
Feed(d) ==
    /\ session[d] = "on"
    /\ instance \notin streaming
    /\ crash' \in {"none", "dangling"}
    /\ UNCHANGED <<noSonos, taken, mainPc, streamVars, findVars, serverVars, mapVars, session,
                   pending>>

\* The sender leaves.
EndSession(d) ==
    /\ session[d] = "on"
    /\ session' = [session EXCEPT ![d] = "none"]
    /\ UNCHANGED <<noSonos, taken, mainPc, streamVars, findVars, serverVars, mapVars, pending,
                   crash>>

Sender(d) == BeginSession(d) \/ SessionCreates(d) \/ Feed(d) \/ EndSession(d)
-----------------------------------------------------------------------------
(* InitInstance() *)

\* WSAStartup(), InitmDNS(), RegisterClient(), then SonosInterface::Init()
Start ==
    /\ mainPc = "init"
    /\ mainPc' = IF noSonos THEN "initSonos" ELSE "getStreaming"
    /\ UNCHANGED <<noSonos, taken, streamVars, findVars, serverVars, mapVars, session,
                   pending, crash>>

\* With NO_SONOS, Init() returns after the test device's OnNewDevice().
SonosInitReturns ==
    /\ mainPc = "initSonos"
    /\ Found # {} /\ findPc = "idle"
    /\ mainPc' = "getStreaming"
    /\ UNCHANGED <<noSonos, taken, streamVars, findVars, serverVars, mapVars, session,
                   pending, crash>>

GetStreaming ==
    /\ mainPc = "getStreaming"
    /\ mainPc' = IF instance = 0 THEN "createStreaming" ELSE "listen"
    /\ UNCHANGED <<noSonos, taken, streamVars, findVars, serverVars, mapVars, session,
                   pending, crash>>

CreateStreaming ==
    /\ mainPc = "createStreaming"
    /\ NewStreaming
    /\ mainPc' = "listen"
    /\ UNCHANGED <<noSonos, taken, streamListening, streamPort, findVars, serverVars, mapVars,
                   session, pending, crash>>

\* Five ports from MP3_PORT on, some of which may be taken by RTSP servers.
StreamPorts == {p \in Mp3Port .. Mp3Port + Tries - 1 : p \notin Used}

StartStreaming ==
    /\ mainPc = "listen"
    /\ IF StreamPorts = {} THEN UNCHANGED <<streamListening, streamPort>>
       ELSE /\ \E p \in StreamPorts :
                 /\ \A q \in StreamPorts : p <= q
                 /\ streamPort' = p
            /\ streamListening' = streamListening \cup {instance}
    /\ mainPc' = "dialog"
    /\ UNCHANGED <<noSonos, taken, instance, created, streaming, findVars, serverVars, mapVars,
                   session, pending, crash>>

DialogCloses ==
    /\ mainPc = "dialog"
    /\ mainPc' = "deleteStreaming"
    /\ UNCHANGED <<noSonos, taken, streamVars, findVars, serverVars, mapVars, session,
                   pending, crash>>
-----------------------------------------------------------------------------
(* The end: StreamingServer::Delete(), then ~CWinAirSonosApp() *)

\* ~NetworkServer() joins a null pointer if the server never listened.
\* InstancePtr keeps its value.
DeleteStreaming ==
    /\ mainPc = "deleteStreaming"
    /\ IF instance \in streamListening
       THEN /\ streaming' = streaming \ {instance}
            /\ streamPort' = NoPort
            /\ mainPc' = "deallocate"
            /\ pending' = {n \in Names : sdRefMap[n] # None}
            /\ UNCHANGED crash
       ELSE /\ crash' = "joinNull"
            /\ UNCHANGED <<streaming, streamPort, mainPc, pending>>
    /\ UNCHANGED <<noSonos, taken, instance, created, streamListening, findVars, serverVars,
                   mapVars, session>>

\* Mutation of Deallocate: the reference is dropped, the registration stays.
DropRef(n) ==
    /\ mainPc = "deallocate"
    /\ n \in pending
    /\ pending' = pending \ {n}
    /\ UNCHANGED <<noSonos, taken, mainPc, streamVars, findVars, serverVars, mapVars, session,
                   crash>>

\* DNSServiceRefDeallocate(): the device is no longer advertised.
Deallocate(n) ==
    /\ mainPc = "deallocate"
    /\ n \in pending
    /\ pending' = pending \ {n}
    /\ advertised' = [advertised EXCEPT ![sdRefMap[n]] = NoPort]
    /\ UNCHANGED <<noSonos, taken, mainPc, streamVars, findVars, serverVars, airplayServerMap,
                   sdRefMap, late, session, crash>>

\* _sdRefMap.clear()
ClearRefs ==
    /\ mainPc = "deallocate"
    /\ pending = {}
    /\ sdRefMap' = [n \in Names |-> None]
    /\ pending' = {n \in Names : airplayServerMap[n] # None}
    /\ mainPc' = "deleteServers"
    /\ UNCHANGED <<noSonos, taken, streamVars, findVars, serverVars, airplayServerMap, advertised,
                   late, session, crash>>

\* delete it->second: the sockets close, the sessions' threads are joined.
DeleteServer(n) ==
    /\ mainPc = "deleteServers"
    /\ n \in pending
    /\ LET d == airplayServerMap[n] IN
         /\ session[d] # "create"
         /\ server' = [server EXCEPT ![d] = "deleted"]
         /\ boundPort' = [boundPort EXCEPT ![d] = NoPort]
         /\ session' = [session EXCEPT ![d] = "none"]
    /\ pending' = pending \ {n}
    /\ UNCHANGED <<noSonos, taken, mainPc, streamVars, findVars, mapVars, crash>>

\* The second _sdRefMap.clear()
ServersDeleted ==
    /\ mainPc = "deleteServers"
    /\ pending = {}
    /\ sdRefMap' = [n \in Names |-> None]
    /\ mainPc' = "deleteSonos"
    /\ UNCHANGED <<noSonos, taken, streamVars, findVars, serverVars, airplayServerMap, advertised,
                   late, session, pending, crash>>

\* SonosInterface::Delete(): deletes the joinable thread, if there is one.
DeleteSonos ==
    /\ mainPc = "deleteSonos"
    /\ IF noSonos THEN mainPc' = "exited" /\ UNCHANGED crash
                  ELSE crash' = "terminate" /\ UNCHANGED mainPc
    /\ UNCHANGED <<noSonos, taken, streamVars, findVars, serverVars, mapVars, session, pending>>

Main ==
    \/ Start \/ SonosInitReturns \/ GetStreaming \/ CreateStreaming \/ StartStreaming
    \/ DialogCloses \/ DeleteStreaming \/ ClearRefs \/ ServersDeleted \/ DeleteSonos
    \/ \E n \in Names : Deallocate(n) \/ DeleteServer(n)

Next ==
    /\ crash = "none" /\ mainPc # "exited"
    /\ Main \/ OnNewDevice \/ \E d \in Devices : Sender(d)

Spec == Init /\ [][Next]_vars
-----------------------------------------------------------------------------
(* Properties *)

TypeOK ==
    /\ noSonos \in BOOLEAN /\ taken \subseteq Ports
    /\ mainPc \in {"init", "initSonos", "getStreaming", "createStreaming", "listen", "dialog",
                   "deleteStreaming", "deallocate", "deleteServers", "deleteSonos", "exited"}
    /\ instance \in 0 .. created
    /\ streaming \subseteq 1 .. created /\ streamListening \subseteq 1 .. created
    /\ streamPort \in Nat
    /\ server \in [Devices -> {"none", "idle", "listening", "deleted"}]
    /\ boundPort \in [Devices -> Nat]
    /\ findPc \in {"idle", "listen", "insert", "advertise"} /\ finding \in Devices \cup {None}
    /\ port \in {NoPort} \cup MinPort .. MaxPort + 1
    /\ tries \in 0 .. Tries - 1
    /\ airplayServerMap \in [Names -> Devices \cup {None}]
    /\ sdRefMap \in [Names -> Devices \cup {None}]
    /\ advertised \in [Devices -> Nat]
    /\ session \in [Devices -> {"none", "create", "on"}]
    /\ pending \subseteq Names /\ late \subseteq Devices
    /\ crash \in {"none", "joinNull", "mapRace", "dangling", "terminate"}

\* Until the destructor turns to the servers, a service that mDNS knows by a port
\* of the range has its server listening on that very port, whatever ports were
\* taken, however often the server had to try, and whichever players share a name.
AdvertisedListens ==
    /\ TypeOK
    /\ mainPc \notin {"deleteServers", "deleteSonos", "exited"} =>
        \A d \in Devices : advertised[d] \in MinPort .. MaxPort =>
            server[d] = "listening" /\ boundPort[d] = advertised[d]

\* "stop advertising" comes before "stop the airplay servers": a server is deleted
\* only when mDNS does not know it any more, unless the search thread advertised
\* it after the destructor began to withdraw them.
WithdrawnFirst == [][\A d \in Devices :
    (server[d] # "deleted" /\ server'[d] = "deleted")
    => advertised[d] = NoPort \/ d \in late]_vars

\* "kill the AirPlay (music producing end first)": no session is left to feed a
\* streaming server that is deleted.
ProducersEndFirst == \A d \in Devices : session[d] = "on" => instance \in streaming

\* "this is a Singleton"
OneStreamingServer == created <= 1

==============================================================================
