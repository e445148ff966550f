---------------------------- MODULE SonosDiscovery ----------------------------
(***************************************************************************)
(* How SonosInterface finds players (src/SonosInterface.cpp).  The search  *)
(* thread starts a UPnP search every five minutes, lets Windows call it    *)
(* back for players that come and go (it pumps the messages that carry the *)
(* calls, so they run on this thread), and ends a search that is complete. *)
(* A player that is not in _deviceList is asked for the topology of the    *)
(* zone, by the exchange of SonosExchange, and all players in the answer   *)
(* are put into _deviceList and _groupList; the player whose call this was *)
(* is announced to the client if it coordinates its group.                 *)
(*                                                                         *)
(* A group is named after its coordinator.  ~SonosInterface() runs on the  *)
(* main thread, concurrently with all this.                                *)
(***************************************************************************)
EXTENDS Naturals, Integers, Sequences, FiniteSets, SequencesExt

CONSTANTS
    Players,        \* zone players, by _udn
    Bridges,        \* those named BRIDGE or BOOST
    Nobody,         \* no player
    MaxSearches,    \* bound: calls of StartAsyncSearch()
    MaxChanges,     \* bound: players that join, leave or change their group
    RbSize,         \* rbsize of SonosExchange
    Responses       \* bound: what a player may answer, see the assumption

ASSUME PlayersAssumption == Bridges \subseteq Players /\ Nobody \notin Players

ASSUME RbSizeAssumption == RbSize \in Nat \ {0}
ASSUME BoundsAssumption == MaxSearches \in Nat /\ MaxChanges \in Nat

\* Of a response, ok: the status line says 200 OK; line: its bytes, CRLF included;
\* rest: the bytes after it, header fields and body; length: one of the fields is a
\* Content-Length, which is right.
ASSUME ResponseAssumption ==
    Responses \subseteq [ok : BOOLEAN, line : Nat \ {0}, rest : Nat, length : BOOLEAN]

VARIABLES
    \* the network: the group of each player that is on
    zone, changes,
    \* the UPnP finder: players it has called back for
    reported,
    \* the search thread
    searchPc, searching, searchCompleted, shutdown, due, searches,
    finder, callback,     \* references held to the finder and its callback
    current,              \* the player a call back is for
    todo, topology,       \* ParseZoneTopology(): players to come, the answer
    group,                \* its local variable group
    deviceList, groupList,
    announced,            \* OnNewDevice() calls, a history
    destroyPc,            \* ~SonosInterface()
    crash,                \* how the process ended, "none" while it runs
    \* the exchange with the player that is asked
    exchPc, response, rbuff, rbshift, tb, respbuff, ended, success, document

Exch == INSTANCE SonosExchange

exchVars == <<exchPc, response, rbuff, rbshift, tb, respbuff, ended, success, document>>
netVars == <<zone, changes>>
flagVars == <<searching, searchCompleted, shutdown, due, searches>>
refVars == <<finder, callback>>
parseVars == <<todo, topology, group>>
listVars == <<deviceList, groupList, announced>>
mainVars == <<destroyPc, crash>>
vars == <<netVars, reported, searchPc, flagVars, refVars, current, parseVars,
          listVars, mainVars, exchVars>>

In(z, p) == IF p \in DOMAIN z THEN z[p] ELSE Nobody

NoGroup == [members |-> << >>, coordinator |-> Nobody]

\* Every group has its coordinator among its members; a bridge is on its own.
Zone(z) ==
    /\ \A p \in DOMAIN z : z[p] \in DOMAIN z /\ z[z[p]] = z[p]
    /\ \A b \in Bridges \cap DOMAIN z : \A p \in DOMAIN z : z[p] = b <=> p = b
Zones == {z \in UNION {[s -> s] : s \in SUBSET Players} : Zone(z)}

Init ==
    /\ zone \in Zones
    /\ changes = 0
    /\ reported = {}
    /\ searchPc = "check"
    /\ searching = FALSE /\ searchCompleted = FALSE /\ shutdown = FALSE
    /\ due = TRUE
    /\ searches = 0
    /\ finder = 0 /\ callback = 0
    /\ current = Nobody
    /\ todo = {} /\ topology = << >> /\ group = NoGroup
    /\ deviceList = << >> /\ groupList = << >>
    /\ announced = [p \in Players |-> 0]
    /\ destroyPc = "running"
    /\ crash = "none"
    /\ Exch!ExchInit

Running == crash = "none"
-----------------------------------------------------------------------------
(* The network *)

\* A player joins, leaves or changes its group.
ZoneChanges(z) ==
    /\ Running
    /\ changes < MaxChanges
    /\ Cardinality({p \in Players : In(zone, p) # In(z, p)}) = 1
    /\ changes' = changes + 1
    /\ zone' = z
    /\ UNCHANGED <<reported, searchPc, flagVars, refVars, current, parseVars, listVars,
                   mainVars, exchVars>>

\* now - lastSearchTime > SearchInterval
IntervalPasses ==
    /\ Running
    /\ ~due /\ searches < MaxSearches
    /\ due' = TRUE
    /\ UNCHANGED <<netVars, reported, searchPc, searching, searchCompleted, shutdown, searches,
                   refVars, current, parseVars, listVars, mainVars, exchVars>>
-----------------------------------------------------------------------------
(* SearchThread() *)

\* while (!_shutdown), and whether a search is to be started
LoopCheck ==
    /\ searchPc = "check"
    /\ searchPc' = IF shutdown THEN "exited"
                   ELSE IF ~searching /\ due /\ searches < MaxSearches THEN "start"
                   ELSE "completed"
    /\ UNCHANGED <<netVars, reported, flagVars, refVars, current, parseVars, listVars,
                   mainVars, exchVars>>

\* StartAsyncSearch() and what is done with its result.  The old finder and
\* callback, if CreateAsyncFind() failed before, are forgotten, not released.
StartAsyncSearch(ok) ==
    /\ searchPc = "start"
    /\ searches' = searches + 1
    /\ finder' = 1 /\ callback' = 1
    /\ searchCompleted' = FALSE
    /\ searching' = ok
    /\ due' = ~ok
    /\ reported' = {}
    /\ searchPc' = "completed"
    /\ UNCHANGED <<netVars, shutdown, current, parseVars, listVars, mainVars, exchVars>>

\* CoCreateInstance() fails and sets the pointer to null; Release() through it.
NoFinder ==
    /\ searchPc = "start"
    /\ crash' = "nullFinder"
    /\ UNCHANGED <<netVars, reported, searchPc, flagVars, refVars, current, parseVars,
                   listVars, destroyPc, exchVars>>

\* if (_searchCompleted)
TestCompleted ==
    /\ searchPc = "completed"
    /\ searchPc' = IF searchCompleted THEN "releaseFinder" ELSE "pump"
    /\ UNCHANGED <<netVars, reported, flagVars, refVars, current, parseVars, listVars,
                   mainVars, exchVars>>
-----------------------------------------------------------------------------
(* CancelAsyncSearch(), by the search thread or by the destructor: the two do   *)
(* not exclude each other.                                                      *)

\* CancelAsyncFind() and Release(): the finder calls back no more.
ReleaseFinder ==
    /\ finder' = finder - 1
    /\ UNCHANGED callback

ReleaseCallback ==
    /\ callback' = callback - 1
    /\ UNCHANGED finder

\* Mutation of ClearFlags: _searching stays.
ClearCompleted ==
    /\ searchCompleted' = FALSE
    /\ UNCHANGED <<searching, shutdown, due, searches>>

ClearFlags ==
    /\ searchCompleted' = FALSE
    /\ searching' = FALSE
    /\ UNCHANGED <<shutdown, due, searches>>

CancelSteps == {"releaseFinder", "releaseCallback", "clearFlags"}
After(step, next) ==
    CASE step = "releaseFinder" -> "releaseCallback"
      [] step = "releaseCallback" -> "clearFlags"
      [] step = "clearFlags" -> next

CancelStep(step) ==
    \/ step = "releaseFinder" /\ ReleaseFinder /\ UNCHANGED flagVars
    \/ step = "releaseCallback" /\ ReleaseCallback /\ UNCHANGED flagVars
    \/ step = "clearFlags" /\ ClearFlags /\ UNCHANGED refVars

CancelAsyncSearch ==
    /\ searchPc \in CancelSteps
    /\ searchPc' = After(searchPc, "pump")
    /\ CancelStep(searchPc)
    /\ UNCHANGED <<netVars, reported, current, parseVars, listVars, mainVars, exchVars>>
-----------------------------------------------------------------------------
(* PeekMessage() and DispatchMessage(): the finder's calls *)

Calling == searchPc = "pump" /\ finder > 0 /\ searching

InList(p) == \E i \in 1 .. Len(deviceList) : deviceList[i].udn = p
IsCoordinator(p) == \E i \in 1 .. Len(deviceList) :
    deviceList[i].udn = p /\ deviceList[i].isCoordinator

\* Mutation of UpnpDeviceAdded: no IsDeviceInList().
DeviceAddedAgain(p) ==
    /\ Calling
    /\ p \in DOMAIN zone \ reported
    /\ reported' = reported \cup {p}
    /\ current' = p
    /\ searchPc' = "request"
    /\ UNCHANGED <<netVars, flagVars, refVars, parseVars, listVars, mainVars, exchVars>>

\* DeviceAdded() and UpnpDeviceAdded(), up to IsDeviceInList()
UpnpDeviceAdded(p) ==
    /\ Calling
    /\ p \in DOMAIN zone \ reported
    /\ reported' = reported \cup {p}
    /\ IF InList(p) THEN UNCHANGED <<current, searchPc>>
                    ELSE current' = p /\ searchPc' = "request"
    /\ UNCHANGED <<netVars, flagVars, refVars, parseVars, listVars, mainVars, exchVars>>

\* The client does nothing in OnDeviceRemoved(); the device stays in the list.
UpnpDeviceRemoved(p) ==
    /\ Calling
    /\ p \in reported \ DOMAIN zone
    /\ reported' = reported \ {p}
    /\ UNCHANGED <<netVars, searchPc, flagVars, refVars, current, parseVars, listVars,
                   mainVars, exchVars>>

UpnpSearchComplete ==
    /\ Calling
    /\ ~searchCompleted
    /\ searchCompleted' = TRUE
    /\ UNCHANGED <<netVars, reported, searchPc, searching, shutdown, due, searches, refVars,
                   current, parseVars, listVars, mainVars, exchVars>>

\* No message is left; Sleep(500).
PumpEmpty ==
    /\ searchPc = "pump"
    /\ searchPc' = "check"
    /\ UNCHANGED <<netVars, reported, flagVars, refVars, current, parseVars, listVars,
                   mainVars, exchVars>>
-----------------------------------------------------------------------------
(* The rest of UpnpDeviceAdded() *)

\* HttpRequest(".../status/topology"); the player answers with the zone as it is.
HttpRequest(r) ==
    /\ searchPc = "request"
    /\ Exch!Request(r)
    /\ topology' = zone
    /\ searchPc' = "exchange"
    /\ UNCHANGED <<netVars, reported, flagVars, refVars, current, todo, group, listVars, mainVars>>

Exchange ==
    /\ searchPc = "exchange"
    /\ Exch!Loop
    /\ UNCHANGED <<netVars, reported, searchPc, flagVars, refVars, current, parseVars,
                   listVars, mainVars>>

\* xmlDoc.Parse(): the text is a topology if nothing of it is missing.
Parses == success /\ document # << >> /\ Last(document) = response.line + response.rest

ParseBegins ==
    /\ searchPc = "exchange"
    /\ Exch!Return
    /\ todo' = IF Parses THEN DOMAIN topology ELSE {}
    /\ group' = NoGroup
    /\ searchPc' = "parse"
    /\ UNCHANGED <<netVars, reported, flagVars, refVars, current, topology, listVars,
                   mainVars>>

\* Mutation of Skipped: no IsDeviceInList().
SkippedBridges(p) == p \in Bridges

\* BOOST and BRIDGE devices, and devices of the list, are passed over.
Skipped(p) == p \in Bridges \/ InList(p)

\* The first group of the list with that name gets the device ...
Joined(groups, p, name) == [i \in 1 .. Len(groups) |->
    IF groups[i].name = name /\ \A j \in 1 .. i - 1 : groups[j].name # name
    THEN [name |-> name, members |-> Append(groups[i].members, p),
          coordinator |-> IF p = name THEN p ELSE groups[i].coordinator]
    ELSE groups[i]]

\* ... or else a new one, a copy of the local variable with all it holds.
Grown(p, name) == [members |-> Append(group.members, p),
                   coordinator |-> IF p = name THEN p ELSE group.coordinator]

\* The body of the loop over the ZonePlayer elements.
ParseZonePlayer(p) ==
    /\ searchPc = "parse"
    /\ p \in todo
    /\ todo' = todo \ {p}
    /\ LET name == topology[p] IN
         IF Skipped(p) THEN UNCHANGED <<group, deviceList, groupList>>
         ELSE /\ deviceList' = Append(deviceList, [udn |-> p, group |-> name, isCoordinator |-> p = name])
              /\ IF \E i \in 1 .. Len(groupList) : groupList[i].name = name
                 THEN groupList' = Joined(groupList, p, name) /\ UNCHANGED group
                 ELSE /\ group' = Grown(p, name)
                      /\ groupList' = Append(groupList, [name |-> name, members |-> group'.members,
                                                         coordinator |-> group'.coordinator])
    /\ UNCHANGED <<netVars, reported, searchPc, flagVars, refVars, current, topology, announced,
                   mainVars, exchVars>>

\* if (GetDeviceByUdn() && d._isCoordinator) OnNewDevice()
Announce ==
    /\ searchPc = "parse"
    /\ todo = {}
    /\ announced' = IF IsCoordinator(current) THEN [announced EXCEPT ![current] = @ + 1] ELSE announced
    /\ searchPc' = "pump"
    /\ current' = Nobody
    /\ topology' = << >>
    /\ group' = NoGroup
    /\ UNCHANGED <<netVars, reported, flagVars, refVars, todo, deviceList, groupList,
                   mainVars, exchVars>>
-----------------------------------------------------------------------------
(* ~SonosInterface() *)

RaiseShutdown ==
    /\ destroyPc = "running"
    /\ shutdown' = TRUE
    /\ destroyPc' = "test"
    /\ UNCHANGED <<netVars, reported, searchPc, searching, searchCompleted, due, searches,
                   refVars, current, parseVars, listVars, crash, exchVars>>

TestSearching ==
    /\ destroyPc = "test"
    /\ destroyPc' = IF searching THEN "releaseFinder" ELSE "deleteThread"
    /\ UNCHANGED <<netVars, reported, searchPc, flagVars, refVars, current, parseVars,
                   listVars, crash, exchVars>>

DestructorCancels ==
    /\ destroyPc \in CancelSteps
    /\ destroyPc' = After(destroyPc, "deleteThread")
    /\ CancelStep(destroyPc)
    /\ UNCHANGED <<netVars, reported, searchPc, current, parseVars, listVars, crash, exchVars>>

\* The thread object is joinable, whether or not the thread has ended.
DeleteThread ==
    /\ destroyPc = "deleteThread"
    /\ crash' = "terminate"
    /\ UNCHANGED <<netVars, reported, searchPc, flagVars, refVars, current, parseVars,
                   listVars, destroyPc, exchVars>>
-----------------------------------------------------------------------------
SearchThread ==
    /\ Running
    /\ \/ LoopCheck
       \/ \E ok \in BOOLEAN : StartAsyncSearch(ok)
       \/ NoFinder
       \/ TestCompleted
       \/ CancelAsyncSearch
       \/ \E p \in Players : UpnpDeviceAdded(p) \/ UpnpDeviceRemoved(p) \/ ParseZonePlayer(p)
       \/ UpnpSearchComplete
       \/ PumpEmpty
       \/ \E r \in Responses : HttpRequest(r)
       \/ Exchange
       \/ ParseBegins
       \/ Announce

Destructor ==
    /\ Running
    /\ RaiseShutdown \/ TestSearching \/ DestructorCancels \/ DeleteThread

Next ==
    \/ \E z \in Zones : ZoneChanges(z)
    \/ IntervalPasses
    \/ SearchThread
    \/ Destructor

Spec == Init /\ [][Next]_vars

\* The search thread runs; recv() returns, after two seconds at the latest.
FairSpec == Spec /\ WF_vars(SearchThread)
-----------------------------------------------------------------------------
(* Properties *)

TypeOK ==
    /\ zone \in Zones /\ changes \in 0 .. MaxChanges
    /\ reported \subseteq Players
    /\ searchPc \in {"check", "start", "completed", "pump", "request", "exchange", "parse", "exited"}
                    \cup CancelSteps
    /\ {searching, searchCompleted, shutdown, due} \subseteq BOOLEAN
    /\ searches \in 0 .. MaxSearches
    /\ finder \in -1 .. 1 /\ callback \in -1 .. 1
    /\ current \in Players \cup {Nobody}
    /\ todo \subseteq DOMAIN topology
    /\ \A i \in 1 .. Len(deviceList) : deviceList[i] \in
         [udn : Players, group : Players, isCoordinator : BOOLEAN]
    /\ \A i \in 1 .. Len(groupList) : groupList[i] \in
         [name : Players, members : Seq(Players), coordinator : Players \cup {Nobody}]
    /\ announced \in [Players -> Nat]
    /\ destroyPc \in {"running", "test", "deleteThread"} \cup CancelSteps
    /\ crash \in {"none", "nullFinder", "terminate"}
    /\ Exch!ExchTypeOK

Count(s, x) == Cardinality({i \in 1 .. Len(s) : s[i] = x})

\* However searches repeat, players restart and answers fail, the client hears
\* of a player at most once, and can then find it in the list as a coordinator.
AnnouncedOnce == \A p \in Players : announced[p] <= 1 /\ (announced[p] = 1 => IsCoordinator(p))

\* One entry per device, one group per name; a device is a member of the group
\* it names, once, and its group knows it if it is the coordinator.
ListsAgree ==
    /\ \A i, j \in 1 .. Len(deviceList) : deviceList[i].udn = deviceList[j].udn => i = j
    /\ \A i \in 1 .. Len(deviceList) :
         LET d == deviceList[i]
             named == {j \in 1 .. Len(groupList) : groupList[j].name = d.group}
         IN \E j \in named :
              /\ named = {j}
              /\ Count(groupList[j].members, d.udn) = 1
              /\ d.isCoordinator => groupList[j].coordinator = d.udn

\* "list of the device UDNs" (SonosInterface.h): a group holds its own devices.
GroupsHoldTheirOwn == \A i \in 1 .. Len(groupList) : \A k \in 1 .. Len(groupList[i].members) :
    \E j \in 1 .. Len(deviceList) :
      deviceList[j].udn = groupList[i].members[k] /\ deviceList[j].group = groupList[i].name

\* A search that Windows reports complete is ended, so that the next can start.
CompletedIsEnded == [](searching /\ searchCompleted => <>(~searching \/ shutdown \/ crash # "none"))

\* However recv() cuts an answer and the buffer is flushed, the bytes that were
\* received are kept once and in order, and a document is all that follows the status
\* line: headertail is a single CRLF, so the header fields stay in the document.
BytesInOrder == TypeOK /\ Exch!BytesInOrder

\* The comment of NetworkRequest() on Content-Length, of the exchanges made here; the
\* code does not satisfy it, and no run claims it.
LengthIsChecked == Exch!LengthIsChecked
==============================================================================
