-------------------------- MODULE AppLifecycleProofs --------------------------
(***************************************************************************)
(* Proofs about AppLifecycle for any players, names and ranges of ports.   *)
(***************************************************************************)
EXTENDS AppLifecycle, TLAPS

\* The destructor has not begun to delete servers.
Serving == mainPc \notin {"deleteServers", "deleteSonos", "exited"}

\* The player OnNewDevice() works on has a server object and is not advertised ...
FindingInv == findPc # "idle" =>
    /\ finding \in Devices
    /\ port \in MinPort .. MaxPort + 1
    /\ server[finding] # "none"
    /\ advertised[finding] = NoPort

\* ... which, once StartListening() succeeded, listens on the port that will be
\* advertised, and is in the map when the registration is made.
StartedInv ==
    /\ findPc \in {"insert", "advertise"} /\ Serving =>
           server[finding] = "listening" /\ boundPort[finding] = Bound(port)
    /\ findPc = "advertise" => airplayServerMap[NameOf[finding]] = finding

UnknownInv == \A d \in Devices : server[d] = "none" => advertised[d] = NoPort

\* Both maps are keyed by the device's name.
KeyInv == \A n \in Names :
    /\ airplayServerMap[n] # None => NameOf[airplayServerMap[n]] = n
    /\ sdRefMap[n] # None => NameOf[sdRefMap[n]] = n

\* The destructor walks through entries that are there.
WalkInv == \A n \in pending :
    /\ mainPc = "deallocate" => sdRefMap[n] # None
    /\ mainPc = "deleteServers" => airplayServerMap[n] # None

\* A server in the map that mDNS still knows has its registration among those the
\* first walk deallocates, and none is left when the second walk begins.
WithdrawInv == \A n \in Names : LET d == airplayServerMap[n] IN
    d # None /\ d \notin late /\ advertised[d] # NoPort =>
        /\ Serving
        /\ sdRefMap[n] = d
        /\ mainPc = "deallocate" => n \in pending

\* There is a streaming server to start when the main thread comes to it.
InstanceInv == mainPc = "listen" => instance # 0

RangeInv == Serving => \A d \in Devices : advertised[d] \in MinPort .. MaxPort =>
    server[d] = "listening" /\ boundPort[d] = advertised[d]

Inv ==
    /\ TypeOK /\ created \in Nat
    /\ FindingInv /\ StartedInv /\ UnknownInv
    /\ KeyInv /\ WalkInv /\ WithdrawInv
    /\ RangeInv /\ InstanceInv

LEMMA InitInv == Init => Inv
  <1> SUFFICES ASSUME Init PROVE Inv
    OBVIOUS
  <1>1. TypeOK /\ created \in Nat
    BY TriesAssumption DEF Init, TypeOK, Ports, NoPort
  <1>2. FindingInv /\ StartedInv /\ UnknownInv /\ KeyInv /\ WalkInv /\ WithdrawInv
    BY DEF Init, FindingInv, StartedInv, UnknownInv, KeyInv, WalkInv, WithdrawInv, NoPort
  <1>3. RangeInv /\ InstanceInv
    BY PortsAssumption DEF Init, RangeInv, InstanceInv, NoPort
  <1> QED BY <1>1, <1>2, <1>3 DEF Inv
-----------------------------------------------------------------------------
(* Ports *)

LEMMA Quotient ==
    ASSUME NEW a \in Nat, NEW b \in Nat \ {0}
    PROVE  a \div b \in Nat /\ b * (a \div b) <= a
  OBVIOUS

\* The first port is in the range or one past it, whatever rand() returns.
LEMMA FirstPortRange ==
    ASSUME NEW r \in 0 .. RandMax
    PROVE  FirstPort(r) \in MinPort .. MaxPort + 1
  <1> DEFINE n == MaxPort - MinPort + 1
             q == (r * n) \div RandMax
  <1>1. n \in Nat /\ r \in Nat /\ RandMax \in Nat \ {0} /\ r <= RandMax
    BY PortsAssumption, TriesAssumption
  <1>2. \A x, y, z \in Nat : x <= z => x * y \in Nat /\ x * y <= z * y
    OBVIOUS
  <1>3. r * n \in Nat /\ r * n <= RandMax * n
    BY <1>1, <1>2
  <1>4. q \in Nat /\ RandMax * q <= r * n
    BY <1>1, <1>3, Quotient
  <1>5. \A x, y \in Nat, z \in Nat \ {0} : z * x <= z * y => x <= y
    OBVIOUS
  <1>6. \A x, y, z \in Nat : x <= y /\ y <= z => x <= z
    OBVIOUS
  <1> HIDE DEF n, q
  <1>7. RandMax * q <= RandMax * n
    <2>1. RandMax * q \in Nat /\ RandMax * n \in Nat
      BY <1>1, <1>4
    <2> QED BY <1>3, <1>4, <1>6, <2>1
  <1>8. q <= n
    BY <1>1, <1>4, <1>5, <1>7
  <1> QED BY <1>4, <1>8, PortsAssumption DEF FirstPort, n, q

LEMMA NextPortRange ==
    ASSUME NEW p \in MinPort .. MaxPort + 1
    PROVE  NextPort(p) \in MinPort .. MaxPort + 1
  BY PortsAssumption DEF NextPort

LEMMA BoundPort ==
    ASSUME NEW p \in MinPort .. MaxPort + 1
    PROVE  /\ Bound(p) \in Nat
           /\ p \in MinPort .. MaxPort => Bound(p) = p
  BY PortsAssumption DEF Bound, Ephemeral
-----------------------------------------------------------------------------
(* OnNewDevice() *)

LEMMA NewDeviceStep ==
    ASSUME Inv, NEW d \in Devices, NEW r \in 0 .. RandMax, NewDevice(d, r)
    PROVE  Inv'
  <1> USE DEF NewDevice, mapVars, streamVars
  <1>1. port' \in MinPort .. MaxPort + 1
    BY FirstPortRange
  <1>2. TypeOK' /\ created' \in Nat
    BY <1>1, TriesAssumption DEF Inv, TypeOK
  <1>3. FindingInv'
    BY <1>1 DEF Inv, TypeOK, FindingInv, UnknownInv
  <1>4. StartedInv' /\ UnknownInv'
    BY DEF Inv, TypeOK, StartedInv, UnknownInv, Serving
  <1>5. KeyInv' /\ WalkInv' /\ WithdrawInv'
    BY DEF Inv, KeyInv, WalkInv, WithdrawInv, Serving
  <1>6. RangeInv' /\ InstanceInv'
    BY DEF Inv, TypeOK, RangeInv, InstanceInv, Serving
  <1> QED BY <1>2, <1>3, <1>4, <1>5, <1>6 DEF Inv

LEMMA ListensStep == Inv /\ Listens => Inv'
  <1> SUFFICES ASSUME Inv, Listens PROVE Inv'
    OBVIOUS
  <1> USE DEF Listens, mapVars, streamVars
  <1>1. finding \in Devices /\ advertised[finding] = NoPort /\ Bound(port) \in Nat
    BY BoundPort DEF Inv, FindingInv
  <1>2. TypeOK' /\ created' \in Nat
    BY <1>1 DEF Inv, TypeOK
  <1>3. FindingInv' /\ StartedInv'
    BY <1>1 DEF Inv, TypeOK, FindingInv, StartedInv
  <1>4. UnknownInv' /\ KeyInv' /\ WalkInv' /\ WithdrawInv'
    BY <1>1 DEF Inv, TypeOK, UnknownInv, KeyInv, WalkInv, WithdrawInv, Serving
  <1>5. RangeInv' /\ InstanceInv'
    BY <1>1, PortsAssumption DEF Inv, TypeOK, RangeInv, InstanceInv, Serving, NoPort
  <1> QED BY <1>2, <1>3, <1>4, <1>5 DEF Inv

LEMMA TriesNextStep == Inv /\ TriesNext => Inv'
  <1> SUFFICES ASSUME Inv, TriesNext PROVE Inv'
    OBVIOUS
  <1> USE DEF TriesNext, mapVars, streamVars, serverVars
  <1>1. port' \in MinPort .. MaxPort + 1
    BY NextPortRange DEF Inv, FindingInv
  <1>2. TypeOK' /\ created' \in Nat
    BY <1>1, TriesAssumption DEF Inv, TypeOK
  <1>3. FindingInv' /\ StartedInv'
    BY <1>1 DEF Inv, FindingInv, StartedInv
  <1>4. UnknownInv' /\ KeyInv' /\ WalkInv' /\ WithdrawInv' /\ RangeInv' /\ InstanceInv'
    BY DEF Inv, UnknownInv, KeyInv, WalkInv, WithdrawInv, RangeInv, InstanceInv, Serving
  <1> QED BY <1>2, <1>3, <1>4 DEF Inv

LEMMA GivesUpStep == Inv /\ GivesUp => Inv'
  <1> SUFFICES ASSUME Inv, GivesUp PROVE Inv'
    OBVIOUS
  <1> USE DEF GivesUp, mapVars, streamVars, serverVars
  <1>1. TypeOK' /\ created' \in Nat
    BY TriesAssumption DEF Inv, TypeOK
  <1>2. FindingInv' /\ StartedInv'
    BY DEF Inv, FindingInv, StartedInv
  <1>3. UnknownInv' /\ KeyInv' /\ WalkInv' /\ WithdrawInv' /\ RangeInv' /\ InstanceInv'
    BY DEF Inv, UnknownInv, KeyInv, WalkInv, WithdrawInv, RangeInv, InstanceInv, Serving
  <1> QED BY <1>1, <1>2, <1>3 DEF Inv

LEMMA InsertServerStep == Inv /\ InsertServer => Inv'
  <1> SUFFICES ASSUME Inv, InsertServer PROVE Inv'
    OBVIOUS
  <1> USE DEF InsertServer, streamVars, serverVars
  <1>1. /\ finding \in Devices /\ finding # None /\ NameOf[finding] \in Names
        /\ advertised[finding] = NoPort
    BY NamesAssumption, NoneAssumption DEF Inv, FindingInv
  <1>2. TypeOK' /\ created' \in Nat
    BY <1>1 DEF Inv, TypeOK
  <1>3. FindingInv' /\ StartedInv'
    BY <1>1 DEF Inv, TypeOK, FindingInv, StartedInv, Serving
  <1>4. UnknownInv' /\ KeyInv' /\ WalkInv'
    BY <1>1 DEF Inv, TypeOK, UnknownInv, KeyInv, WalkInv
  <1>5. WithdrawInv' /\ RangeInv' /\ InstanceInv'
    BY <1>1 DEF Inv, TypeOK, WithdrawInv, RangeInv, InstanceInv, Serving
  <1> QED BY <1>2, <1>3, <1>4, <1>5 DEF Inv

LEMMA AdvertiseStep ==
    ASSUME Inv, NEW ok \in BOOLEAN, Advertise(ok)
    PROVE  Inv'
  <1> USE DEF Advertise, streamVars, serverVars
  <1>1. /\ finding \in Devices /\ finding # None /\ NameOf[finding] \in Names
        /\ airplayServerMap[NameOf[finding]] = finding
        /\ server[finding] # "none"
    BY NamesAssumption, NoneAssumption DEF Inv, FindingInv, StartedInv
  <1>2. TypeOK' /\ created' \in Nat
    <2>1. advertised' \in [Devices -> Nat] /\ late' \subseteq Devices
      BY <1>1, PortsAssumption DEF Inv, TypeOK, FindingInv
    <2>2. sdRefMap' \in [Names -> Devices \cup {None}]
      BY <1>1 DEF Inv, TypeOK
    <2> QED BY <2>1, <2>2, TriesAssumption DEF Inv, TypeOK
  <1>3. FindingInv' /\ StartedInv'
    BY DEF FindingInv, StartedInv
  <1>4. UnknownInv' /\ KeyInv' /\ WalkInv'
    BY <1>1 DEF Inv, TypeOK, UnknownInv, KeyInv, WalkInv
  <1>5. WithdrawInv'
    <2> SUFFICES ASSUME NEW n \in Names, ok,
                        airplayServerMap[n] # None, airplayServerMap[n] \notin late',
                        advertised'[airplayServerMap[n]] # NoPort
                 PROVE  /\ Serving' /\ sdRefMap'[n] = airplayServerMap[n]
                        /\ mainPc' = "deallocate" => n \in pending'
      BY DEF Inv, WithdrawInv, Serving
    <2>1. NameOf[airplayServerMap[n]] = n
      BY DEF Inv, KeyInv
    <2>2. CASE airplayServerMap[n] = finding
      BY <1>1, <2>1, <2>2 DEF Inv, TypeOK, Destroying, Serving
    <2>3. CASE airplayServerMap[n] # finding
      BY <1>1, <2>1, <2>3 DEF Inv, TypeOK, WithdrawInv, Serving
    <2> QED BY <2>2, <2>3
  <1>6. RangeInv'
    <2> SUFFICES ASSUME Serving, NEW d \in Devices, advertised'[d] \in MinPort .. MaxPort
                 PROVE  server[d] = "listening" /\ boundPort[d] = advertised'[d]
      BY DEF RangeInv, Serving
    <2>1. CASE ok /\ d = finding
      <3>1. server[d] = "listening" /\ boundPort[d] = Bound(port)
        BY <2>1 DEF Inv, StartedInv
      <3>2. port \in MinPort .. MaxPort /\ advertised'[d] = port
        BY <2>1, PortsAssumption DEF Inv, TypeOK, FindingInv
      <3> QED BY <3>1, <3>2, BoundPort, PortsAssumption
    <2>2. CASE ~(ok /\ d = finding)
      BY <2>2 DEF Inv, TypeOK, RangeInv
    <2> QED BY <2>1, <2>2
  <1>7. InstanceInv'
    BY DEF Inv, InstanceInv
  <1> QED BY <1>2, <1>3, <1>4, <1>5, <1>6, <1>7 DEF Inv
-----------------------------------------------------------------------------
(* Sessions *)

\* What OnNewDevice() and the destructor work on: no session disturbs it.
keptVars == <<mainPc, findPc, finding, port, server, boundPort, mapVars, pending>>

LEMMA Kept ==
    ASSUME Inv, UNCHANGED keptVars, TypeOK', created' \in Nat, InstanceInv'
    PROVE  Inv'
  <1> USE DEF keptVars, mapVars
  <1>1. FindingInv' /\ StartedInv' /\ UnknownInv'
    BY DEF Inv, FindingInv, StartedInv, UnknownInv, Serving
  <1>2. KeyInv' /\ WalkInv' /\ WithdrawInv' /\ RangeInv'
    BY DEF Inv, KeyInv, WalkInv, WithdrawInv, RangeInv, Serving
  <1> QED BY <1>1, <1>2 DEF Inv

LEMMA NewStreamingTypes ==
    ASSUME created \in Nat, streaming \subseteq 1 .. created,
           streamListening \subseteq 1 .. created, NewStreaming
    PROVE  /\ created' \in Nat /\ instance' \in 0 .. created'
           /\ streaming' \subseteq 1 .. created' /\ streamListening \subseteq 1 .. created'
  BY DEF NewStreaming

LEMMA SenderStep ==
    ASSUME Inv, NEW d \in Devices, Sender(d)
    PROVE  Inv'
  <1>1. UNCHANGED keptVars
    BY DEF Sender, BeginSession, SessionCreates, Feed, EndSession, keptVars, findVars,
           serverVars
  <1>2. TypeOK' /\ created' \in Nat
    <2>1. CASE SessionCreates(d)
      BY <2>1, NewStreamingTypes DEF SessionCreates, Inv, TypeOK, findVars, serverVars, mapVars
    <2>2. CASE BeginSession(d)
      BY <2>2 DEF BeginSession, Inv, TypeOK, streamVars, findVars, serverVars, mapVars
    <2>3. CASE Feed(d)
      BY <2>3 DEF Feed, Inv, TypeOK, streamVars, findVars, serverVars, mapVars
    <2>4. CASE EndSession(d)
      BY <2>4 DEF EndSession, Inv, TypeOK, streamVars, findVars, serverVars, mapVars
    <2> QED BY <2>1, <2>2, <2>3, <2>4 DEF Sender
  <1>3. InstanceInv'
    BY DEF Sender, BeginSession, SessionCreates, Feed, EndSession, NewStreaming, streamVars,
           Inv, InstanceInv, TypeOK
  <1> QED BY <1>1, <1>2, <1>3, Kept
-----------------------------------------------------------------------------
(* The main thread *)

\* Until the dialog is closed, and when it ends, the main thread only moves on.
Forward ==
    \/ Start \/ SonosInitReturns \/ GetStreaming \/ CreateStreaming \/ StartStreaming
    \/ DialogCloses

LEMMA ForwardStep == Inv /\ Forward => Inv'
  <1> SUFFICES ASSUME Inv, Forward PROVE Inv'
    OBVIOUS
  <1>1. /\ UNCHANGED <<findPc, finding, port, server, boundPort, mapVars, pending>>
        /\ Serving /\ Serving' /\ mainPc # "deallocate" /\ mainPc' # "deallocate"
    BY DEF Forward, Start, SonosInitReturns, GetStreaming, CreateStreaming, StartStreaming,
           DialogCloses, Serving, findVars, serverVars, mapVars
  <1>2. TypeOK' /\ created' \in Nat
    <2>1. CASE CreateStreaming
      BY <2>1, NewStreamingTypes DEF CreateStreaming, Inv, TypeOK, findVars, serverVars, mapVars
    <2>2. CASE StartStreaming
      <3>1. instance \in 1 .. created
        BY <2>2 DEF StartStreaming, Inv, InstanceInv, TypeOK
      <3>2. StreamPorts \subseteq Nat
        BY PortsAssumption, TriesAssumption DEF StreamPorts
      <3> QED BY <2>2, <3>1, <3>2
              DEF StartStreaming, Inv, TypeOK, findVars, serverVars, mapVars
    <2>3. CASE Start \/ SonosInitReturns \/ GetStreaming \/ DialogCloses
      BY <2>3 DEF Start, SonosInitReturns, GetStreaming, DialogCloses, Inv, TypeOK,
                  streamVars, findVars, serverVars, mapVars
    <2> QED BY <2>1, <2>2, <2>3 DEF Forward
  <1>3. FindingInv' /\ StartedInv' /\ UnknownInv' /\ KeyInv'
    BY <1>1 DEF Inv, FindingInv, StartedInv, UnknownInv, KeyInv, mapVars
  <1>4. WalkInv' /\ WithdrawInv' /\ RangeInv'
    BY <1>1 DEF Inv, WalkInv, WithdrawInv, RangeInv, Serving, mapVars
  <1>5. InstanceInv'
    BY DEF Forward, Start, SonosInitReturns, GetStreaming, CreateStreaming, StartStreaming,
           DialogCloses, NewStreaming, Inv, InstanceInv, TypeOK, streamVars
  <1> QED BY <1>2, <1>3, <1>4, <1>5 DEF Inv

-----------------------------------------------------------------------------
(* The destructor *)

LEMMA DeleteStreamingStep == Inv /\ DeleteStreaming => Inv'
  <1> SUFFICES ASSUME Inv, DeleteStreaming PROVE Inv'
    OBVIOUS
  <1> USE DEF DeleteStreaming, findVars, serverVars, mapVars
  <1>1. TypeOK' /\ created' \in Nat
    <2>1. streaming' \subseteq streaming /\ streamPort' \in {streamPort, NoPort}
      OBVIOUS
    <2>2. /\ mainPc' \in {mainPc, "deallocate"} /\ crash' \in {crash, "joinNull"}
          /\ pending' = pending \/ pending' \subseteq Names
      OBVIOUS
    <2>3. UNCHANGED <<noSonos, taken, instance, created, streamListening, server, boundPort,
                      findPc, finding, port, tries, airplayServerMap, sdRefMap, advertised,
                      late, session>>
      OBVIOUS
    <2> QED BY ONLY <2>1, <2>2, <2>3, Inv DEF Inv, TypeOK, NoPort
  <1>2. FindingInv' /\ StartedInv' /\ UnknownInv' /\ KeyInv'
    BY DEF Inv, FindingInv, StartedInv, UnknownInv, KeyInv, Serving
  <1>3. WalkInv'
    BY DEF Inv, WalkInv
  <1>4. WithdrawInv'
    <2> SUFFICES ASSUME NEW n \in Names,
                        airplayServerMap[n] # None, airplayServerMap[n] \notin late,
                        advertised[airplayServerMap[n]] # NoPort
                 PROVE  /\ Serving' /\ sdRefMap[n] = airplayServerMap[n]
                        /\ mainPc' = "deallocate" => n \in pending'
      BY DEF WithdrawInv
    <2> QED BY DEF Inv, WithdrawInv, Serving
  <1>5. RangeInv' /\ InstanceInv'
    BY DEF Inv, RangeInv, InstanceInv, Serving
  <1> QED BY <1>1, <1>2, <1>3, <1>4, <1>5 DEF Inv

LEMMA DeallocateStep ==
    ASSUME Inv, NEW m \in Names, Deallocate(m)
    PROVE  Inv'
  <1> USE DEF Deallocate, streamVars, findVars, serverVars
  <1>1. sdRefMap[m] \in Devices /\ NameOf[sdRefMap[m]] = m
    BY DEF Inv, TypeOK, KeyInv, WalkInv
  <1>2. TypeOK' /\ created' \in Nat
    BY <1>1 DEF Inv, TypeOK, NoPort
  <1>3. FindingInv' /\ StartedInv' /\ UnknownInv'
    BY <1>1 DEF Inv, TypeOK, FindingInv, StartedInv, UnknownInv, Serving
  <1>4. KeyInv' /\ WalkInv'
    BY DEF Inv, KeyInv, WalkInv
  <1>5. WithdrawInv'
    BY <1>1 DEF Inv, TypeOK, WithdrawInv, Serving
  <1>6. RangeInv' /\ InstanceInv'
    BY <1>1, PortsAssumption DEF Inv, TypeOK, RangeInv, InstanceInv, Serving, NoPort
  <1> QED BY <1>2, <1>3, <1>4, <1>5, <1>6 DEF Inv

LEMMA ClearRefsStep == Inv /\ ClearRefs => Inv'
  <1> SUFFICES ASSUME Inv, ClearRefs PROVE Inv'
    OBVIOUS
  <1> USE DEF ClearRefs, streamVars, findVars, serverVars
  <1>1. TypeOK' /\ created' \in Nat
    BY DEF Inv, TypeOK
  <1>2. FindingInv' /\ StartedInv' /\ UnknownInv' /\ KeyInv'
    BY DEF Inv, FindingInv, StartedInv, UnknownInv, KeyInv, Serving
  <1>3. WalkInv'
    BY DEF Inv, WalkInv
  <1>4. WithdrawInv'
    BY DEF Inv, WithdrawInv
  <1>5. RangeInv' /\ InstanceInv'
    BY DEF RangeInv, InstanceInv, Serving
  <1> QED BY <1>1, <1>2, <1>3, <1>4, <1>5 DEF Inv

LEMMA DeleteServerStep ==
    ASSUME Inv, NEW m \in Names, DeleteServer(m)
    PROVE  Inv'
  <1> USE DEF DeleteServer, streamVars, findVars, mapVars
  <1>1. airplayServerMap[m] \in Devices /\ ~Serving
    BY DEF Inv, TypeOK, WalkInv, Serving
  <1>2. TypeOK' /\ created' \in Nat
    BY <1>1 DEF Inv, TypeOK, NoPort
  <1>3. FindingInv' /\ StartedInv' /\ UnknownInv'
    BY <1>1 DEF Inv, TypeOK, FindingInv, StartedInv, UnknownInv, Serving
  <1>4. KeyInv' /\ WalkInv' /\ WithdrawInv'
    BY DEF Inv, KeyInv, WalkInv, WithdrawInv, Serving
  <1>5. RangeInv' /\ InstanceInv'
    BY DEF RangeInv, InstanceInv, Serving
  <1> QED BY <1>2, <1>3, <1>4, <1>5 DEF Inv

LEMMA LastStep == Inv /\ (ServersDeleted \/ DeleteSonos) => Inv'
  <1> SUFFICES ASSUME Inv, ServersDeleted \/ DeleteSonos PROVE Inv'
    OBVIOUS
  <1> USE DEF ServersDeleted, DeleteSonos, streamVars, findVars, serverVars, mapVars
  <1>1. TypeOK' /\ created' \in Nat
    BY DEF Inv, TypeOK
  <1>2. FindingInv' /\ StartedInv' /\ UnknownInv' /\ KeyInv'
    BY DEF Inv, FindingInv, StartedInv, UnknownInv, KeyInv, Serving
  <1>3. WalkInv' /\ WithdrawInv' /\ RangeInv' /\ InstanceInv'
    BY DEF Inv, WalkInv, WithdrawInv, RangeInv, InstanceInv, Serving
  <1> QED BY <1>1, <1>2, <1>3 DEF Inv
-----------------------------------------------------------------------------
LEMMA NextInv == Inv /\ [Next]_vars => Inv'
  <1> SUFFICES ASSUME Inv, [Next]_vars PROVE Inv'
    OBVIOUS
  <1>1. CASE Main
    <2>1. CASE \E n \in Names : Deallocate(n) \/ DeleteServer(n)
      BY <2>1, DeallocateStep, DeleteServerStep
    <2> QED BY <1>1, <2>1, ForwardStep, DeleteStreamingStep, ClearRefsStep, LastStep
            DEF Main, Forward
  <1>2. CASE OnNewDevice
    BY <1>2, NewDeviceStep, ListensStep, TriesNextStep, GivesUpStep, InsertServerStep,
       AdvertiseStep DEF OnNewDevice
  <1>3. CASE \E d \in Devices : Sender(d)
    BY <1>3, SenderStep
  <1>4. CASE UNCHANGED vars
    <2>1. UNCHANGED keptVars /\ TypeOK' /\ created' \in Nat /\ InstanceInv'
      BY <1>4 DEF vars, streamVars, findVars, serverVars, mapVars, keptVars, Inv, TypeOK,
                  InstanceInv
    <2> QED BY <2>1, Kept
  <1> QED BY <1>1, <1>2, <1>3, <1>4 DEF Next

\* The inductive invariant holds in every reachable state.
THEOREM Invariance == Spec => []Inv
  BY InitInv, NextInv, PTL DEF Spec

\* Until the destructor turns to the servers, a service that mDNS knows by a port
\* of the range has its server listening on that very port, however many players
\* and ports there are, whichever ports are taken and whichever names are equal.
THEOREM AdvertisedPortListens == Spec => []AdvertisedListens
  <1>1. Inv => AdvertisedListens
    BY DEF Inv, AdvertisedListens, RangeInv, Serving
  <1> QED BY <1>1, Invariance, PTL

\* ~CWinAirSonosApp() deletes a server only when mDNS no longer knows it, or when
\* the search thread advertised it after the destructor began to withdraw them.
THEOREM AdvertisedLast == Spec => WithdrawnFirst
  <1> DEFINE Withdrawn == \A d \in Devices :
                 (server[d] # "deleted" /\ server'[d] = "deleted")
                 => advertised[d] = NoPort \/ d \in late
  <1>1. Inv /\ [Next]_vars => [Withdrawn]_vars
    <2> SUFFICES ASSUME Inv, Next, NEW d \in Devices,
                        server[d] # "deleted", server'[d] = "deleted"
                 PROVE  advertised[d] = NoPort \/ d \in late
      OBVIOUS
    <2>1. PICK n \in Names : DeleteServer(n)
      <3>1. CASE OnNewDevice
        <4>1. \A e \in Devices, r \in 0 .. RandMax : ~NewDevice(e, r)
          BY DEF NewDevice, Inv, TypeOK
        <4>2. ~Listens
          BY DEF Listens, Inv, TypeOK
        <4> QED BY <3>1, <4>1, <4>2
                DEF OnNewDevice, TriesNext, GivesUp, InsertServer, Advertise, serverVars
      <3>2. CASE \E e \in Devices : Sender(e)
        BY <3>2 DEF Sender, BeginSession, SessionCreates, Feed, EndSession, serverVars
      <3>3. CASE Main
        BY <3>3 DEF Main, Start, SonosInitReturns, GetStreaming, CreateStreaming,
                    StartStreaming, DialogCloses, DeleteStreaming, Deallocate, ClearRefs,
                    ServersDeleted, DeleteSonos, serverVars
      <3> QED BY <3>1, <3>2, <3>3 DEF Next
    <2>2. airplayServerMap[n] = d /\ d # None
      BY <2>1, NoneAssumption DEF DeleteServer, Inv, TypeOK
    <2> QED BY <2>1, <2>2 DEF DeleteServer, Inv, WithdrawInv, Serving
  <1> QED BY <1>1, Invariance, PTL DEF Spec, WithdrawnFirst
==============================================================================
