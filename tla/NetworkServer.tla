---------------------------- MODULE NetworkServer ----------------------------
(***************************************************************************)
(* The template NetworkServer<ConnectionType> (src/NetworkServer.h) and    *)
(* the read thread of its connections (src/NetworkServer.cpp), composed    *)
(* with their transmit threads (NetworkServerConnection).                  *)
(*                                                                         *)
(* Threads: the listening thread, which builds a connection and lists it;  *)
(* per connection a read thread, which handles requests and, when recv()   *)
(* fails, has its own connection removed, and a transmit thread; and the   *)
(* thread that runs ~NetworkServer().                                      *)
(*                                                                         *)
(* _connectionListMutex is held while a read thread is "removing" and      *)
(* while the destructor sweeps; whoever holds it closes the victim.        *)
(***************************************************************************)
EXTENDS Naturals, Sequences, FiniteSets

CONSTANTS
    Conns,          \* bound: the connections ever accepted
    NoConn,         \* no connection
    MaxTransmits,   \* bound: responses per connection
    BufLen          \* bytes in a response

ASSUME NoConnAssumption == NoConn \notin Conns
ASSUME TransmitsAssumption == MaxTransmits \in Nat
ASSUME BufLenAssumption == BufLen \in Nat \ {0}

VARIABLES
    \* of the connections (see NetworkServerConnection)
    txPc, txQueue, txLen, closeConnection, socket, closePc,
    transmitted, wire, outcome, missed,
    \* of the server
    connectionList,   \* _connectionList
    listenPc,         \* where ListeningThread() is
    fresh,            \* its pConnection: constructed and not yet listed
    victim,           \* taken from the list, being closed and deleted
    destroyPc,        \* where ~NetworkServer() is; past "running": _stopServer
    \* of each connection object
    life,             \* "unborn", "alive", "deleted"
    threads,          \* which of _pReadThread, _pTransmitThread is assigned
    readPc,           \* where ReadThread() is
    detached,         \* _pReadThread->detach() was called
    crash             \* how the process died, "none" while it runs

Conn == INSTANCE NetworkServerConnection

connVars == <<txPc, txQueue, txLen, closeConnection, socket, closePc,
              transmitted, wire, outcome, missed>>
serverVars == <<connectionList, listenPc, fresh, victim, destroyPc>>
objectVars == <<life, threads, readPc, detached>>
vars == <<connVars, serverVars, objectVars, crash>>

ListenStates == {"none", "loop", "accept", "startRead", "assignRead", "startTx",
                 "assignTx", "lockList", "exited"}
ReadStates == {"none", "check", "recv", "handle", "detach", "callRemove",
               "lockList", "removing", "exited"}
DestroyStates == {"running", "stopping", "socketClosed", "joined", "sweep",
                  "unlocked", "destroyed"}
Crashes == {"none", "detachNull", "outOfRange", "joinNull", "terminate", "useAfterFree"}

\* _connectionListMutex is held.
ListLocked == (\E c \in Conns : readPc[c] = "removing") \/ destroyPc = "sweep"

Listed(c) == \E i \in 1 .. Len(connectionList) : connectionList[i] = c

Init ==
    /\ Conn!NewConnection
    /\ txPc = [c \in Conns |-> "none"]
    /\ connectionList = << >>
    /\ listenPc = "none"
    /\ fresh = NoConn
    /\ victim = NoConn
    /\ destroyPc = "running"
    /\ life = [c \in Conns |-> "unborn"]
    /\ threads = [c \in Conns |-> {}]
    /\ readPc = [c \in Conns |-> "none"]
    /\ detached = [c \in Conns |-> FALSE]
    /\ crash = "none"

\* The process is still there: every action needs it.
Running == crash = "none"

Die(reason) ==
    /\ Running
    /\ crash' = reason
    /\ UNCHANGED <<connVars, serverVars, objectVars>>
-----------------------------------------------------------------------------
(* StartListening() and ListeningThread() *)

\* The listening thread goes from one place to another.
ListenMoves(from, to) ==
    /\ Running
    /\ listenPc = from
    /\ listenPc' = to
    /\ UNCHANGED <<victim, destroyPc, detached, crash>>

(* Mutations: plausible slips, each put in place of the definition it is a  *)
(* form of to see that a property notices.  No behaviour of Spec uses them. *)

\* ListenCheck without !_stopServer.
ListenForever ==
    /\ ListenMoves("loop", "accept")
    /\ UNCHANGED <<connVars, connectionList, fresh, life, threads, readPc>>

\* AcceptFails without the test for INVALID_SOCKET.
AcceptUnchecked ==
    /\ destroyPc \notin {"running", "stopping"}
    /\ ListenMoves("accept", "lockList")
    /\ UNCHANGED <<connVars, connectionList, fresh, life, threads, readPc>>

\* bind() and listen() succeeded.  (When they fail nothing changes: the caller
\* tries another port or gives up, and the listening thread does not exist.)
StartListening ==
    /\ destroyPc = "running"
    /\ ListenMoves("none", "loop")
    /\ UNCHANGED <<connVars, connectionList, fresh, life, threads, readPc>>

\* while (!_stopServer)
ListenCheck ==
    /\ ListenMoves("loop", IF destroyPc = "running" THEN "accept" ELSE "exited")
    /\ UNCHANGED <<connVars, connectionList, fresh, life, threads, readPc>>

\* accept() returns a socket; new ConnectionType
Accept(c) ==
    /\ destroyPc \in {"running", "stopping"}
    /\ life[c] = "unborn"
    /\ ListenMoves("accept", "startRead")
    /\ life' = [life EXCEPT ![c] = "alive"]
    /\ fresh' = c
    /\ UNCHANGED <<connVars, connectionList, threads, readPc>>

\* The listening socket is closed: accept() returns INVALID_SOCKET.
AcceptFails ==
    /\ destroyPc \notin {"running", "stopping"}
    /\ ListenMoves("accept", "loop")
    /\ UNCHANGED <<connVars, connectionList, fresh, life, threads, readPc>>

\* Initialise(): the read thread runs before new std::thread has returned ...
StartRead ==
    /\ ListenMoves("startRead", "assignRead")
    /\ readPc' = [readPc EXCEPT ![fresh] = "check"]
    /\ UNCHANGED <<connVars, connectionList, fresh, life, threads>>

\* ... and _pReadThread is assigned after that; the same for the transmit thread.
AssignRead ==
    /\ ListenMoves("assignRead", "startTx")
    /\ threads' = [threads EXCEPT ![fresh] = @ \cup {"read"}]
    /\ UNCHANGED <<connVars, connectionList, fresh, life, readPc>>

StartTransmit ==
    /\ ListenMoves("startTx", "assignTx")
    /\ txPc' = [txPc EXCEPT ![fresh] = "check"]
    /\ UNCHANGED <<txQueue, txLen, closeConnection, socket, closePc, transmitted,
                   wire, outcome, missed, connectionList, fresh, life, threads, readPc>>

AssignTransmit ==
    /\ ListenMoves("assignTx", "lockList")
    /\ threads' = [threads EXCEPT ![fresh] = @ \cup {"tx"}]
    /\ UNCHANGED <<connVars, connectionList, fresh, life, readPc>>

\* lock_guard; _connectionList.push_back(pConnection)
PushBack ==
    /\ ~ListLocked
    /\ ListenMoves("lockList", "loop")
    /\ connectionList' = Append(connectionList, fresh)
    /\ fresh' = NoConn
    /\ UNCHANGED <<connVars, life, threads, readPc>>

ListeningThread ==
    \/ ListenCheck
    \/ AcceptFails
    \/ StartRead
    \/ AssignRead
    \/ StartTransmit
    \/ AssignTransmit
    \/ PushBack
-----------------------------------------------------------------------------
(* ReadThread() *)

\* The read thread of c goes from one place to another, touching c.
ReadMoves(c, from, to) ==
    /\ Running
    /\ readPc[c] = from
    /\ life[c] = "alive"
    /\ readPc' = [readPc EXCEPT ![c] = to]

\* Mutations of Detach: no call of detach(), no call of RemoveConnection() ...
NoDetach(c) ==
    /\ "read" \in threads[c]
    /\ ReadMoves(c, "detach", "callRemove")
    /\ UNCHANGED <<connVars, serverVars, life, threads, detached, crash>>

DetachOnly(c) ==
    /\ "read" \in threads[c]
    /\ ReadMoves(c, "detach", "exited")
    /\ detached' = [detached EXCEPT ![c] = TRUE]
    /\ UNCHANGED <<connVars, serverVars, life, threads, crash>>

\* ... of RemoveFound: no erase().
RemoveKeepsListed(c) ==
    /\ Running
    /\ readPc[c] = "lockList"
    /\ destroyPc # "destroyed"
    /\ ~ListLocked
    /\ Listed(c)
    /\ victim' = c
    /\ readPc' = [readPc EXCEPT ![c] = "removing"]
    /\ UNCHANGED <<connVars, connectionList, listenPc, fresh, destroyPc, life,
                   threads, detached, crash>>

\* while (!_closeConnection)
ReadCheck(c) ==
    /\ ReadMoves(c, "check", IF closeConnection[c] THEN "exited" ELSE "recv")
    /\ UNCHANGED <<connVars, serverVars, life, threads, detached, crash>>

\* recv() completes a request, of which ParseHeader() can read every line ...
RecvRequest(c) ==
    /\ ReadMoves(c, "recv", "handle")
    /\ socket[c] = "open"
    /\ UNCHANGED <<connVars, serverVars, life, threads, detached, crash>>

\* ... or one with a line that lacks a part, "Name:" for one: find() leaves npos,
\* substr(npos) throws std::out_of_range and nothing on the read thread catches it.
HeaderThrows(c) ==
    /\ readPc[c] = "recv"
    /\ life[c] = "alive"
    /\ socket[c] = "open"
    /\ Die("outOfRange")

\* _pServer->OnRequest(), which sends one response ...
Respond(c) ==
    /\ ReadMoves(c, "handle", "check")
    /\ Conn!Transmit(c)
    /\ UNCHANGED <<serverVars, life, threads, detached, crash>>

\* ... or, for a request it does not know, none.
IgnoreRequest(c) ==
    /\ ReadMoves(c, "handle", "check")
    /\ UNCHANGED <<connVars, serverVars, life, threads, detached, crash>>

\* recv() returns 0 or an error.
RecvFails(c) ==
    /\ ReadMoves(c, "recv", "detach")
    /\ socket[c] # "open"
    /\ UNCHANGED <<connVars, serverVars, life, threads, detached, crash>>

\* _pReadThread->detach()
Detach(c) ==
    /\ "read" \in threads[c]
    /\ ReadMoves(c, "detach", "callRemove")
    /\ detached' = [detached EXCEPT ![c] = TRUE]
    /\ UNCHANGED <<connVars, serverVars, life, threads, crash>>

DetachNull(c) ==
    /\ readPc[c] = "detach"
    /\ "read" \notin threads[c]
    /\ Die("detachNull")

\* _pServer->RemoveConnection(_id): the last read of a member of c.
CallRemove(c) ==
    /\ ReadMoves(c, "callRemove", "lockList")
    /\ UNCHANGED <<connVars, serverVars, life, threads, detached, crash>>

\* _connectionList.erase(it), it at the i-th element
Erase(list, i) == [j \in 1 .. Len(list) - 1 |-> IF j < i THEN list[j] ELSE list[j + 1]]

\* RemoveConnection(): lock, find the first with this id, erase it ...
RemoveFound(c) ==
    /\ Running
    /\ readPc[c] = "lockList"
    /\ destroyPc # "destroyed"
    /\ ~ListLocked
    /\ \E i \in 1 .. Len(connectionList) :
         /\ connectionList[i] = c
         /\ \A j \in 1 .. i - 1 : connectionList[j] # c
         /\ connectionList' = Erase(connectionList, i)
    /\ victim' = c
    /\ readPc' = [readPc EXCEPT ![c] = "removing"]
    /\ UNCHANGED <<connVars, listenPc, fresh, destroyPc, life, threads, detached, crash>>

\* ... or find nothing: unlock, return, break.
RemoveNotFound(c) ==
    /\ Running
    /\ readPc[c] = "lockList"
    /\ destroyPc # "destroyed"
    /\ ~ListLocked
    /\ ~Listed(c)
    /\ readPc' = [readPc EXCEPT ![c] = "exited"]
    /\ UNCHANGED <<connVars, serverVars, life, threads, detached, crash>>

\* The read thread reads a member of the deleted connection, or locks the
\* mutex of the destroyed server.
UseAfterFree(c) ==
    /\ \/ life[c] = "deleted" /\ readPc[c] \in {"check", "recv", "handle", "detach", "callRemove"}
       \/ destroyPc = "destroyed" /\ readPc[c] = "lockList"
    /\ Die("useAfterFree")

ReadThread(c) ==
    \/ ReadCheck(c)
    \/ Respond(c)
    \/ IgnoreRequest(c)
    \/ RecvFails(c)
    \/ Detach(c)
    \/ CallRemove(c)
    \/ RemoveFound(c)
    \/ RemoveNotFound(c)
-----------------------------------------------------------------------------
(* Close() and delete of the victim, by the thread that holds the list mutex *)

CloseVictim(c) ==
    /\ Running
    /\ c = victim
    /\ Conn!Close(c)
    /\ UNCHANGED <<serverVars, objectVars, crash>>

\* delete pConn; a read thread that was detached is let go, one that is still
\* joinable takes the process down (std::terminate in ~thread).
DeleteVictim(c) ==
    /\ Running
    /\ c = victim
    /\ closePc[c] = "closed"
    /\ detached[c]
    /\ life' = [life EXCEPT ![c] = "deleted"]
    /\ victim' = NoConn
    /\ readPc' = [readPc EXCEPT ![c] = IF @ = "removing" THEN "exited" ELSE @]
    /\ UNCHANGED <<connVars, connectionList, listenPc, fresh, destroyPc, threads,
                   detached, crash>>

DeleteJoinable(c) ==
    /\ c = victim
    /\ closePc[c] = "closed"
    /\ ~detached[c]
    /\ Die("terminate")

EndVictim(c) == CloseVictim(c) \/ DeleteVictim(c) \/ DeleteJoinable(c)
-----------------------------------------------------------------------------
(* ~NetworkServer() *)

DestroyMoves(from, to) ==
    /\ Running
    /\ destroyPc = from
    /\ destroyPc' = to
    /\ UNCHANGED <<connVars, connectionList, listenPc, fresh, objectVars, crash>>

\* A mutation of LockAll: no lock_guard.

\* _stopServer = true
StopServer == DestroyMoves("running", "stopping") /\ UNCHANGED victim

\* closesocket(_listeningSocket)
CloseListeningSocket == DestroyMoves("stopping", "socketClosed") /\ UNCHANGED victim

\* _pListeningThread->join(), through a null pointer if it never listened
JoinListening ==
    /\ listenPc = "exited"
    /\ DestroyMoves("socketClosed", "joined")
    /\ UNCHANGED victim

JoinNull ==
    /\ destroyPc = "socketClosed"
    /\ listenPc = "none"
    /\ Die("joinNull")

LockAll ==
    /\ ~ListLocked
    /\ DestroyMoves("joined", "sweep")
    /\ UNCHANGED victim

\* pConn = front(); pop_front()
TakeFront ==
    /\ Running
    /\ destroyPc = "sweep"
    /\ victim = NoConn
    /\ connectionList # << >>
    /\ victim' = Head(connectionList)
    /\ connectionList' = Tail(connectionList)
    /\ UNCHANGED <<connVars, listenPc, fresh, destroyPc, objectVars, crash>>

\* The list is empty: the body ends and lock_guard releases the mutex.
Unlock ==
    /\ victim = NoConn
    /\ connectionList = << >>
    /\ DestroyMoves("sweep", "unlocked")
    /\ UNCHANGED victim

\* The members, _connectionListMutex among them, are destroyed.
DestroyMembers == DestroyMoves("unlocked", "destroyed") /\ UNCHANGED victim

Destructor ==
    \/ CloseListeningSocket
    \/ JoinListening
    \/ JoinNull
    \/ LockAll
    \/ TakeFront
    \/ Unlock
    \/ DestroyMembers
-----------------------------------------------------------------------------
\* The transmit threads and the peers.
Elsewhere == Running /\ UNCHANGED <<serverVars, objectVars, crash>>

TransmitThread(c) == Conn!TransmitThread(c) /\ Elsewhere

SpuriousWakeup(c) == Conn!SpuriousWakeup(c) /\ Elsewhere

PeerCloses(c) == life[c] = "alive" /\ Conn!PeerCloses(c) /\ Elsewhere

Next ==
    \/ StartListening
    \/ ListeningThread
    \/ StopServer
    \/ Destructor
    \/ \E c \in Conns :
         \/ Accept(c)
         \/ RecvRequest(c)
         \/ HeaderThrows(c)
         \/ ReadThread(c)
         \/ DetachNull(c)
         \/ UseAfterFree(c)
         \/ EndVictim(c)
         \/ TransmitThread(c)
         \/ SpuriousWakeup(c)
         \/ PeerCloses(c)

Spec == Init /\ [][Next]_vars

(***************************************************************************)
(* Fairness: every thread that can run does.  accept() and recv() need not *)
(* return while the sockets are open, the destructor need not be called,   *)
(* spurious wakeups are not owed, nor is a race lost or freed memory       *)
(* fatal; send() returns in the end.  A join through a null pointer, the   *)
(* one step ~NetworkServer() has left then, is taken.                      *)
(***************************************************************************)
Fairness ==
    /\ WF_vars(ListeningThread)
    /\ WF_vars(Destructor)
    /\ \A c \in Conns :
         /\ WF_vars(ReadThread(c))
         /\ WF_vars(EndVictim(c))
         /\ WF_vars(TransmitThread(c))
         /\ WF_vars(Conn!SendReturns(c) /\ Elsewhere)

FairSpec == Spec /\ Fairness
-----------------------------------------------------------------------------
(* Properties *)

TypeOK ==
    /\ Conn!TypeOK
    /\ connectionList \in Seq(Conns)
    /\ listenPc \in ListenStates
    /\ fresh \in Conns \cup {NoConn}
    /\ victim \in Conns \cup {NoConn}
    /\ destroyPc \in DestroyStates
    /\ life \in [Conns -> {"unborn", "alive", "deleted"}]
    /\ threads \in [Conns -> SUBSET {"read", "tx"}]
    /\ readPc \in [Conns -> ReadStates]
    /\ detached \in [Conns -> BOOLEAN]
    /\ crash \in Crashes

\* Whoever holds the list mutex may use what it finds in the list: a listed
\* connection is there once, is not deleted or closing, and both its threads
\* have been started and recorded.
ListedIsUsable ==
    /\ \A i, j \in 1 .. Len(connectionList) :
         i # j => connectionList[i] # connectionList[j]
    /\ \A c \in Conns : Listed(c) =>
         /\ life[c] = "alive"
         /\ c \notin {fresh, victim}
         /\ closePc[c] = "idle"
         /\ threads[c] = {"read", "tx"}

\* While the server runs, no thread of a deleted connection is left: nothing
\* reads the object, its queue or its thread objects after delete.
DeletedIsQuiet ==
    destroyPc = "running" =>
        \A c \in Conns : life[c] = "deleted" => readPc[c] = "exited" /\ txPc[c] = "exited"

\* While the server runs, two things can bring it down, and no other thread is at
\* fault: a read thread whose first recv() fails before Initialise() has stored
\* _pReadThread, and one whose peer is there and sends a header with a line that
\* ParseHeader() throws on.
RunningServerCrash ==
    crash # "none" /\ destroyPc = "running" =>
        \/ crash = "detachNull" /\ fresh # NoConn /\ readPc[fresh] = "detach"
        \/ /\ crash = "outOfRange"
           /\ \E c \in Conns : readPc[c] = "recv" /\ life[c] = "alive" /\ socket[c] = "open"

\* A Close() whose notification was missed: it waits for the transmit thread,
\* which waits for a notification.
Stuck == \E c \in Conns : closePc[c] = "joining" /\ txPc[c] = "waiting"

\* A listed connection whose recv() failed is closed and deleted, unless a
\* missed notification keeps the list mutex locked (or the process dies).
FailedIsRemoved == \A c \in Conns :
    (readPc[c] = "detach" /\ Listed(c)) ~> (life[c] = "deleted" \/ Stuck \/ crash # "none")

\* ~NetworkServer() returns, under the same proviso.
DestructorReturns ==
    (destroyPc = "stopping") ~> (destroyPc = "destroyed" \/ Stuck \/ crash # "none")

\* "member vars will no longer be valid": when RemoveConnection() has returned
\* to the read thread the connection is gone.
BreakMeansDeleted == \A c \in Conns :
    readPc[c] = "exited" /\ detached[c] => life[c] = "deleted"
==============================================================================
