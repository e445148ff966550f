------------------------- MODULE NetworkServerProofs -------------------------
(***************************************************************************)
(* Proofs about NetworkServer for any number of connections, responses and *)
(* bytes.  What is proved of a connection's transmit side on its own, in   *)
(* NetworkServerConnectionProofs, is carried over to every connection of   *)
(* the server: a step of the server is a step of those, or starts one of   *)
(* their transmit threads.                                                 *)
(***************************************************************************)
EXTENDS NetworkServer, SequenceTheorems, TLAPS

Tx == INSTANCE NetworkServerConnectionProofs

\* Between accept() and push_back().
Building == {"startRead", "assignRead", "startTx", "assignTx", "lockList"}

\* The connection under construction: how much of Initialise() has been done.
FreshInv ==
    /\ fresh = NoConn <=> listenPc \notin Building
    /\ fresh # NoConn =>
         /\ life[fresh] = "alive"
         /\ closePc[fresh] = "idle"
         /\ readPc[fresh] # "removing"
         /\ readPc[fresh] = "none" <=> listenPc = "startRead"
         /\ "read" \in threads[fresh] <=> listenPc \in {"startTx", "assignTx", "lockList"}
         /\ "tx" \in threads[fresh] <=> listenPc = "lockList"
         /\ txPc[fresh] = "none" <=> listenPc \in {"startRead", "assignRead", "startTx"}

\* Who closes and deletes: the read thread that removes itself, or the destructor.
VictimInv ==
    /\ victim # NoConn =>
         /\ life[victim] = "alive" /\ victim # fresh /\ ~Listed(victim)
         /\ readPc[victim] = "removing" \/ destroyPc = "sweep"
    /\ \A c \in Conns : readPc[c] = "removing" => c = victim /\ destroyPc # "sweep"

\* No connection is in the list twice.
OnceInv == \A i, j \in 1 .. Len(connectionList) :
    i # j => connectionList[i] # connectionList[j]

\* Before accept() there is nothing of a connection; after its construction it
\* has both threads; it is listed only while it can be used; Close() is for the
\* victim; a read thread detaches itself before it asks to be removed.
UnbornInv(c) == life[c] = "unborn" =>
    /\ c \notin {fresh, victim} /\ ~Listed(c)
    /\ readPc[c] = "none" /\ txPc[c] = "none" /\ closePc[c] = "idle" /\ threads[c] = {}

BuiltInv(c) == life[c] # "unborn" /\ c # fresh =>
    threads[c] = {"read", "tx"} /\ readPc[c] # "none" /\ txPc[c] # "none"

ListInv(c) == Listed(c) => life[c] = "alive" /\ c # fresh /\ closePc[c] = "idle"

CloseInv(c) == closePc[c] # "idle" => c = victim \/ life[c] = "deleted"

DetachInv(c) == readPc[c] \in {"callRemove", "lockList", "removing"} => detached[c]

\* While the destructor has not begun to sweep, only its own read thread deletes
\* a connection, as the last thing it does.
DeletedInv(c) == life[c] = "deleted" =>
    /\ closePc[c] = "closed"
    /\ destroyPc \in {"running", "stopping", "socketClosed", "joined"} => readPc[c] = "exited"

ConnInv(c) ==
    /\ UnbornInv(c)
    /\ BuiltInv(c)
    /\ ListInv(c)
    /\ CloseInv(c)
    /\ DetachInv(c)
    /\ DeletedInv(c)

Shape == FreshInv /\ VictimInv /\ OnceInv /\ \A c \in Conns : ConnInv(c)

Inv == TypeOK /\ Tx!Inv /\ Shape /\ RunningServerCrash
-----------------------------------------------------------------------------
(* The transmit sides *)

LEMMA SameType == Tx!Inv => Conn!TypeOK
  BY DEF Tx!Inv, Tx!TypeOK, Conn!TypeOK, Tx!TxStates, Conn!TxStates, Tx!CloseStates,
         Conn!CloseStates, Tx!Outcomes, Conn!Outcomes, Tx!Buffers, Conn!Buffers

\* A step of a connection in the server is one of the connection on its own.
LEMMA TransmitIsTx ==
    ASSUME NEW c \in Conns, Conn!Transmit(c)
    PROVE  Tx!Next
  BY DEF Tx!Next, Tx!Transmit, Conn!Transmit, Tx!MutexHeld, Conn!MutexHeld, Tx!NotifyAll,
         Conn!NotifyAll

LEMMA ThreadIsTx ==
    ASSUME NEW c \in Conns,
           Conn!TransmitThread(c) \/ Conn!SpuriousWakeup(c) \/ Conn!PeerCloses(c)
    PROVE  Tx!Next
  <1>1. CASE Conn!TransmitThread(c)
    BY <1>1 DEF Tx!Next, Tx!TransmitThread, Conn!TransmitThread, Tx!CheckClosed,
         Conn!CheckClosed, Tx!LockAndWait, Conn!LockAndWait, Tx!WaitReturns,
         Conn!WaitReturns, Tx!DrainCheck, Conn!DrainCheck, Tx!SendReturns, Conn!SendReturns,
         Tx!SendAll, Conn!SendAll, Tx!SendFails, Conn!SendFails, Tx!PopFront,
         Conn!PopFront, Tx!Sent, Conn!Sent, Tx!SendSome, Conn!SendSome
  <1>2. CASE Conn!SpuriousWakeup(c) \/ Conn!PeerCloses(c)
    BY <1>2 DEF Tx!Next, Tx!SpuriousWakeup, Conn!SpuriousWakeup, Tx!PeerCloses,
         Conn!PeerCloses, Tx!txVars, Conn!txVars
  <1> QED BY <1>1, <1>2

LEMMA CloseIsTx ==
    ASSUME NEW c \in Conns, Conn!Close(c)
    PROVE  Tx!Next
  BY DEF Tx!Next, Tx!Close, Conn!Close, Tx!RaiseClose, Conn!RaiseClose, Tx!NotifyClose,
         Conn!NotifyClose, Tx!NotifyAll, Conn!NotifyAll, Tx!CloseSocket, Conn!CloseSocket,
         Tx!JoinTransmit, Conn!JoinTransmit, Tx!txVars, Conn!txVars

\* What steps of the transmit sides leave alone: no transmit thread comes into
\* being, and only Close() moves closePc.
LEMMA ThreadFrame ==
    ASSUME TypeOK, NEW c \in Conns,
           \/ Conn!TransmitThread(c) \/ Conn!SpuriousWakeup(c) \/ Conn!PeerCloses(c)
           \/ Conn!Transmit(c)
    PROVE  /\ UNCHANGED closePc
           /\ \A d \in Conns : txPc'[d] = "none" <=> txPc[d] = "none"
  <1>0. txPc \in [Conns -> Conn!TxStates]
    BY DEF TypeOK, Conn!TypeOK
  <1>1. CASE Conn!TransmitThread(c)
    BY <1>0, <1>1 DEF Conn!TransmitThread, Conn!CheckClosed, Conn!LockAndWait,
         Conn!WaitReturns, Conn!DrainCheck, Conn!SendReturns, Conn!SendAll, Conn!SendFails,
         Conn!PopFront, Conn!SendSome
  <1>2. CASE Conn!SpuriousWakeup(c) \/ Conn!PeerCloses(c)
    BY <1>0, <1>2 DEF Conn!SpuriousWakeup, Conn!PeerCloses, Conn!txVars
  <1>3. CASE Conn!Transmit(c)
    BY <1>0, <1>3 DEF Conn!Transmit, Conn!NotifyAll
  <1> QED BY <1>1, <1>2, <1>3

LEMMA CloseFrame ==
    ASSUME TypeOK, NEW c \in Conns, Conn!Close(c)
    PROVE  /\ \A d \in Conns : d # c => closePc'[d] = closePc[d]
           /\ closePc[c] # "closed"
           /\ \A d \in Conns : txPc'[d] = "none" <=> txPc[d] = "none"
  BY SMTT(30) DEF TypeOK, Conn!TypeOK, Conn!Close, Conn!RaiseClose, Conn!NotifyClose,
         Conn!NotifyAll, Conn!CloseSocket, Conn!JoinTransmit, Conn!txVars
-----------------------------------------------------------------------------
(* The list *)

\* erase() takes out one element and keeps the order of the rest.
LEMMA EraseProperties ==
    ASSUME NEW S, NEW list \in Seq(S), NEW i \in 1 .. Len(list)
    PROVE  /\ Erase(list, i) \in Seq(S)
           /\ Len(Erase(list, i)) = Len(list) - 1
           /\ \A j \in 1 .. Len(list) - 1 :
                Erase(list, i)[j] = IF j < i THEN list[j] ELSE list[j + 1]
  <1>1. Len(list) \in Nat /\ Len(list) - 1 \in Nat
    OBVIOUS
  <1>2. Erase(list, i) \in [1 .. Len(list) - 1 -> S]
    BY <1>1 DEF Erase
  <1>3. Erase(list, i) \in Seq(S) /\ Len(Erase(list, i)) = Len(list) - 1
    BY <1>1, <1>2
  <1> QED BY <1>3 DEF Erase

LEMMA ListSame ==
    ASSUME UNCHANGED connectionList
    PROVE  OnceInv' = OnceInv /\ \A c \in Conns : Listed(c)' <=> Listed(c)
  BY DEF OnceInv, Listed

LEMMA ListAfterPush ==
    ASSUME TypeOK, OnceInv, NEW d \in Conns, ~Listed(d),
           connectionList' = Append(connectionList, d)
    PROVE  /\ connectionList' \in Seq(Conns)
           /\ OnceInv'
           /\ \A c \in Conns : Listed(c)' => Listed(c) \/ c = d
  <1>1. connectionList \in Seq(Conns)
    BY DEF TypeOK
  <1>2. /\ connectionList' \in Seq(Conns)
        /\ Len(connectionList') = Len(connectionList) + 1
        /\ \A i \in 1 .. Len(connectionList) : connectionList'[i] = connectionList[i]
        /\ connectionList'[Len(connectionList) + 1] = d
        /\ Len(connectionList) \in Nat
    BY <1>1, AppendProperties, LenProperties
  <1>3. \A i \in 1 .. Len(connectionList') :
          i \in 1 .. Len(connectionList) \/ i = Len(connectionList) + 1
    BY <1>2
  <1>4. OnceInv'
    BY <1>2, <1>3 DEF OnceInv, Listed
  <1> QED BY <1>2, <1>3, <1>4 DEF Listed

LEMMA ListAfterErase ==
    ASSUME TypeOK, OnceInv, NEW d \in Conns, NEW i \in 1 .. Len(connectionList),
           connectionList[i] = d, connectionList' = Erase(connectionList, i)
    PROVE  /\ connectionList' \in Seq(Conns)
           /\ OnceInv'
           /\ Listed(d) /\ ~Listed(d)'
           /\ \A c \in Conns : Listed(c)' => Listed(c)
  <1>1. connectionList \in Seq(Conns) /\ Len(connectionList) \in Nat
    BY DEF TypeOK
  <1> DEFINE old(j) == IF j < i THEN j ELSE j + 1
  <1>2. /\ connectionList' \in Seq(Conns)
        /\ Len(connectionList') = Len(connectionList) - 1
        /\ \A j \in 1 .. Len(connectionList') : connectionList'[j] = connectionList[old(j)]
    BY <1>1, EraseProperties
  <1>3. \A j \in 1 .. Len(connectionList') : old(j) \in 1 .. Len(connectionList) /\ old(j) # i
    BY <1>1, <1>2
  <1>4. \A j, k \in 1 .. Len(connectionList') : j # k => old(j) # old(k)
    BY <1>1, <1>2
  <1> HIDE DEF old
  <1>5. OnceInv'
    <2> SUFFICES ASSUME NEW j \in 1 .. Len(connectionList'), NEW k \in 1 .. Len(connectionList'),
                        j # k
                 PROVE  connectionList'[j] # connectionList'[k]
      BY DEF OnceInv
    <2>1. /\ old(j) \in 1 .. Len(connectionList) /\ old(k) \in 1 .. Len(connectionList)
          /\ old(j) # old(k)
      BY <1>3, <1>4
    <2>2. connectionList[old(j)] # connectionList[old(k)]
      BY <2>1 DEF OnceInv
    <2> QED BY <1>2, <2>2
  <1>6. ASSUME NEW j \in 1 .. Len(connectionList'), connectionList'[j] = d PROVE FALSE
    <2>1. /\ old(j) \in 1 .. Len(connectionList) /\ old(j) # i
          /\ connectionList[old(j)] = connectionList[i]
      BY <1>2, <1>3, <1>6
    <2> QED BY <2>1 DEF OnceInv
  <1>7. Listed(d) /\ ~Listed(d)'
    BY <1>6 DEF Listed
  <1>8. ASSUME NEW c \in Conns, Listed(c)' PROVE Listed(c)
    BY <1>2, <1>3, <1>8 DEF Listed
  <1> QED BY <1>2, <1>5, <1>7, <1>8

\* pop_front() is erase() of the first.
LEMMA TailIsErase ==
    ASSUME NEW S, NEW list \in Seq(S), list # << >>
    PROVE  /\ 1 \in 1 .. Len(list) /\ list[1] = Head(list)
           /\ Tail(list) = Erase(list, 1)
  <1>1. Len(list) \in Nat \ {0}
    BY EmptySeq
  <1>2. /\ Tail(list) \in Seq(S) /\ Len(Tail(list)) = Len(list) - 1
        /\ \A j \in 1 .. Len(Tail(list)) : Tail(list)[j] = list[j + 1]
    BY HeadTailProperties
  <1>3. 1 \in 1 .. Len(list) /\ list[1] = Head(list)
    BY <1>1
  <1>4. /\ Erase(list, 1) \in Seq(S) /\ Len(Erase(list, 1)) = Len(list) - 1
        /\ \A j \in 1 .. Len(list) - 1 : Erase(list, 1)[j] = list[j + 1]
    BY <1>1, <1>3, EraseProperties
  <1>5. Tail(list) = Erase(list, 1)
    BY <1>2, <1>4, SeqEqual
  <1> QED BY <1>3, <1>5
-----------------------------------------------------------------------------
(* The steps by kind.  ReadSteps move one read thread and nothing else but its *)
(* detached flag and a response; Quiet steps leave the connections alone.      *)

ReadSteps(c) ==
    \/ ReadCheck(c) \/ RecvRequest(c) \/ Respond(c) \/ IgnoreRequest(c)
    \/ RecvFails(c) \/ Detach(c) \/ CallRemove(c) \/ RemoveNotFound(c)

TransmitSide(c) == TransmitThread(c) \/ SpuriousWakeup(c) \/ PeerCloses(c)

Deaths ==
    \/ JoinNull
    \/ \E c \in Conns : HeaderThrows(c) \/ DetachNull(c) \/ UseAfterFree(c) \/ DeleteJoinable(c)

ListenSteps == StartListening \/ ListenCheck \/ AcceptFails

BuildSteps == StartRead \/ AssignRead \/ AssignTransmit

DestroySteps ==
    \/ StopServer \/ CloseListeningSocket \/ JoinListening \/ LockAll \/ Unlock
    \/ DestroyMembers

LEMMA StepKinds ==
    ASSUME Next
    PROVE  \/ Deaths \/ ListenSteps \/ BuildSteps \/ StartTransmit \/ PushBack
           \/ DestroySteps \/ TakeFront
           \/ \E c \in Conns : \/ Accept(c) \/ ReadSteps(c) \/ RemoveFound(c)
                              \/ CloseVictim(c) \/ DeleteVictim(c) \/ TransmitSide(c)
  BY DEF Next, ListeningThread, Destructor, ReadThread, EndVictim, Deaths, ListenSteps,
         BuildSteps, DestroySteps, ReadSteps, TransmitSide

\* Nothing happens in a process that has died.
LEMMA StepRuns ==
    ASSUME Next
    PROVE  crash = "none"
  BY DEF Next, ListeningThread, Destructor, ReadThread, EndVictim, StartListening, ListenCheck,
         AcceptFails, StartRead, AssignRead, StartTransmit, AssignTransmit, PushBack,
         ListenMoves, StopServer, CloseListeningSocket, JoinListening, JoinNull, LockAll,
         TakeFront, Unlock, DestroyMembers, DestroyMoves, Accept, RecvRequest, ReadCheck,
         HeaderThrows, Respond, IgnoreRequest, RecvFails, Detach, DetachNull, CallRemove, RemoveFound,
         RemoveNotFound, UseAfterFree, ReadMoves, CloseVictim, DeleteVictim, DeleteJoinable,
         TransmitThread, SpuriousWakeup, PeerCloses, Elsewhere, Die, Running
-----------------------------------------------------------------------------
\* The read threads' steps, summarised: where they may go, and what they leave.
LEMMA ReadFrame ==
    ASSUME TypeOK, NEW c \in Conns, ReadSteps(c)
    PROVE  /\ UNCHANGED <<serverVars, life, threads, closePc, crash>>
           /\ \A d \in Conns : txPc'[d] = "none" <=> txPc[d] = "none"
           /\ detached' \in [Conns -> BOOLEAN]
           /\ \A d \in Conns : detached[d] => detached'[d]
           /\ readPc[c] \notin {"none", "removing", "exited"}
           /\ life[c] = "alive" \/ readPc[c] = "lockList"
           /\ \E to \in ReadStates \ {"none", "removing"} :
                /\ readPc' = [readPc EXCEPT ![c] = to]
                /\ to \in {"callRemove", "lockList"} =>
                     detached'[c] \/ (readPc[c] = "callRemove" /\ UNCHANGED detached)
  <1>0. readPc \in [Conns -> ReadStates] /\ detached \in [Conns -> BOOLEAN]
    BY DEF TypeOK
  <1>1. CASE Respond(c)
    <2>1. Conn!Transmit(c)
      BY <1>1 DEF Respond
    <2>2. UNCHANGED closePc /\ \A d \in Conns : txPc'[d] = "none" <=> txPc[d] = "none"
      BY <2>1, ThreadFrame
    <2>3. /\ readPc[c] = "handle" /\ life[c] = "alive"
          /\ readPc' = [readPc EXCEPT ![c] = "check"]
          /\ UNCHANGED <<serverVars, life, threads, detached, crash>>
      BY <1>1 DEF Respond, ReadMoves
    <2>4. "check" \in ReadStates \ {"none", "removing"}
      BY DEF ReadStates
    <2> QED BY <1>0, <2>2, <2>3, <2>4
  <1>2. CASE ReadCheck(c) \/ RecvRequest(c) \/ IgnoreRequest(c) \/ RecvFails(c)
    BY <1>0, <1>2 DEF ReadCheck, RecvRequest, IgnoreRequest, RecvFails, ReadMoves, ReadStates,
                      connVars
  <1>3. CASE Detach(c) \/ CallRemove(c)
    BY <1>0, <1>3 DEF Detach, CallRemove, ReadMoves, ReadStates, connVars
  <1>4. CASE RemoveNotFound(c)
    <2>1. /\ readPc[c] = "lockList" /\ readPc' = [readPc EXCEPT ![c] = "exited"]
          /\ UNCHANGED <<serverVars, life, threads, detached, crash, txPc, closePc>>
      BY <1>4 DEF RemoveNotFound, connVars
    <2>2. "exited" \in ReadStates \ {"none", "removing"}
      BY DEF ReadStates
    <2> QED BY <1>0, <2>1, <2>2
  <1> QED BY <1>1, <1>2, <1>3, <1>4 DEF ReadSteps

LEMMA DeathFrame ==
    ASSUME Deaths
    PROVE  UNCHANGED <<connVars, serverVars, objectVars>>
  BY DEF Deaths, JoinNull, HeaderThrows, DetachNull, UseAfterFree, DeleteJoinable, Die

LEMMA TransmitFrame ==
    ASSUME TypeOK, NEW c \in Conns, TransmitSide(c)
    PROVE  /\ UNCHANGED <<serverVars, objectVars, crash, closePc>>
           /\ \A d \in Conns : txPc'[d] = "none" <=> txPc[d] = "none"
  <1>1. Conn!TransmitThread(c) \/ Conn!SpuriousWakeup(c) \/ Conn!PeerCloses(c)
    BY DEF TransmitSide, TransmitThread, SpuriousWakeup, PeerCloses
  <1>2. UNCHANGED <<serverVars, objectVars, crash>>
    BY DEF TransmitSide, TransmitThread, SpuriousWakeup, PeerCloses, Elsewhere
  <1> QED BY <1>1, <1>2, ThreadFrame

\* The transmit sides keep the invariant they have on their own.
LEMMA TxStep == Inv /\ [Next]_vars => Tx!Inv'
  <1> SUFFICES ASSUME Inv, [Next]_vars PROVE Tx!Inv'
    OBVIOUS
  <1> USE TransmitsAssumption, BufLenAssumption
  <1>1. ASSUME Tx!Next \/ UNCHANGED connVars PROVE Tx!Inv'
    <2>1. [Tx!Next]_(Tx!vars)
      BY <1>1 DEF connVars, Tx!vars
    <2> QED BY <2>1, Tx!StepInv DEF Inv
  <1>2. CASE StartTransmit
    <2>1. fresh \in Conns /\ txPc[fresh] = "none"
      BY <1>2, NoConnAssumption
         DEF Inv, Shape, FreshInv, TypeOK, StartTransmit, ListenMoves, Building
    <2>2. /\ txPc' = [txPc EXCEPT ![fresh] = "check"]
          /\ UNCHANGED <<txQueue, txLen, closeConnection, socket, closePc, transmitted,
                         wire, outcome, missed>>
      BY <1>2 DEF StartTransmit
    <2>3. Tx!TypeOK /\ Tx!FifoConserved
      BY DEF Inv, Tx!Inv
    <2>4. Tx!TypeOK'
      BY <2>1, <2>2, <2>3 DEF Tx!TypeOK, Tx!TxStates
    <2>5. Tx!FifoConserved'
      BY <2>2, <2>3 DEF Tx!FifoConserved
    <2>6. ASSUME NEW c \in Conns PROVE Tx!ThreadInv(c)' /\ Tx!MissedInv(c)'
      <3>1. Tx!ThreadInv(c) /\ Tx!MissedInv(c)
        BY DEF Inv, Tx!Inv
      <3>2. txPc'[c] = IF c = fresh THEN "check" ELSE txPc[c]
        BY <2>1, <2>2, <2>3 DEF Tx!TypeOK
      <3> QED BY <2>1, <2>2, <3>1, <3>2 DEF Tx!ThreadInv, Tx!MissedInv
    <2> QED BY <2>4, <2>5, <2>6 DEF Tx!Inv
  <1>3. ASSUME NEW c \in Conns, TransmitSide(c) PROVE Tx!Inv'
    <2>1. Conn!TransmitThread(c) \/ Conn!SpuriousWakeup(c) \/ Conn!PeerCloses(c)
      BY <1>3 DEF TransmitSide, TransmitThread, SpuriousWakeup, PeerCloses
    <2> QED BY <1>1, <2>1, ThreadIsTx
  <1>4. ASSUME NEW c \in Conns, ReadSteps(c) PROVE Tx!Inv'
    <2>1. Conn!Transmit(c) \/ UNCHANGED connVars
      BY <1>4 DEF ReadSteps, ReadCheck, RecvRequest, Respond, IgnoreRequest, RecvFails,
                  Detach, CallRemove, RemoveNotFound
    <2> QED BY <1>1, <2>1, TransmitIsTx
  <1>5. ASSUME NEW c \in Conns, CloseVictim(c) PROVE Tx!Inv'
    BY <1>1, <1>5, CloseIsTx DEF CloseVictim
  <1>6. ASSUME NEW c \in Conns, Accept(c) \/ RemoveFound(c) \/ DeleteVictim(c)
        PROVE Tx!Inv'
    BY <1>1, <1>6 DEF Accept, RemoveFound, DeleteVictim
  <1>7. CASE Deaths \/ ListenSteps \/ BuildSteps \/ PushBack \/ DestroySteps \/ TakeFront
    <2>1. UNCHANGED connVars
      BY <1>7, DeathFrame DEF ListenSteps, StartListening, ListenCheck, AcceptFails,
           BuildSteps, StartRead, AssignRead, AssignTransmit, PushBack, DestroySteps,
           StopServer, CloseListeningSocket, JoinListening, LockAll, Unlock, DestroyMembers,
           DestroyMoves, TakeFront
    <2> QED BY <1>1, <2>1
  <1>8. CASE UNCHANGED vars
    BY <1>1, <1>8 DEF vars
  <1> QED BY <1>2, <1>3, <1>4, <1>5, <1>6, <1>7, <1>8, StepKinds

LEMMA SameTypeNext == Tx!Inv' => Conn!TypeOK'
  BY DEF Tx!Inv, Tx!TypeOK, Conn!TypeOK, Tx!TxStates, Conn!TxStates, Tx!CloseStates,
         Conn!CloseStates, Tx!Outcomes, Conn!Outcomes, Tx!Buffers, Conn!Buffers

\* Every step keeps the types.
LEMMA TypeStep == Inv /\ [Next]_vars => TypeOK'
  <1> SUFFICES ASSUME Inv, [Next]_vars PROVE TypeOK'
    OBVIOUS
  <1>0. TypeOK /\ Shape /\ Conn!TypeOK'
    BY TxStep, SameTypeNext DEF Inv
  <1>1. ASSUME NEW c \in Conns, ReadSteps(c) PROVE TypeOK'
    BY <1>0, <1>1, ReadFrame DEF TypeOK, serverVars
  <1>2. ASSUME NEW c \in Conns, TransmitSide(c) \/ CloseVictim(c) PROVE TypeOK'
    <2>1. UNCHANGED <<serverVars, objectVars, crash>>
      BY <1>0, <1>2, TransmitFrame DEF CloseVictim
    <2> QED BY <1>0, <2>1 DEF TypeOK, serverVars, objectVars
  <1>3. ASSUME NEW c \in Conns, RemoveFound(c) PROVE TypeOK'
    <2>1. connectionList' \in Seq(Conns)
      BY <1>0, <1>3, ListAfterErase DEF RemoveFound, Shape
    <2> QED BY <1>0, <1>3, <2>1 DEF TypeOK, RemoveFound, ReadStates
  <1>4. ASSUME NEW c \in Conns, DeleteVictim(c) PROVE TypeOK'
    BY <1>0, <1>4 DEF TypeOK, DeleteVictim, ReadStates
  <1>5. ASSUME NEW c \in Conns, Accept(c) PROVE TypeOK'
    BY <1>0, <1>5 DEF TypeOK, Accept, ListenMoves, ListenStates
  <1>6. CASE ListenSteps \/ BuildSteps \/ StartTransmit
    BY <1>0, <1>6 DEF TypeOK, ListenSteps, StartListening, ListenCheck, AcceptFails, BuildSteps,
         StartRead, AssignRead, AssignTransmit, StartTransmit, ListenMoves, ListenStates,
         ReadStates
  <1>7. CASE PushBack
    <2>1. fresh \in Conns /\ ~Listed(fresh)
      BY <1>0, <1>7, NoConnAssumption
         DEF TypeOK, Shape, FreshInv, ConnInv, ListInv, PushBack, ListenMoves, Building
    <2>2. connectionList' \in Seq(Conns)
      BY <1>0, <1>7, <2>1, ListAfterPush DEF Shape, PushBack
    <2> QED BY <1>0, <1>7, <2>2 DEF TypeOK, PushBack, ListenMoves, ListenStates
  <1>8. CASE DestroySteps
    BY <1>0, <1>8 DEF TypeOK, DestroySteps, StopServer, CloseListeningSocket, JoinListening,
         LockAll, Unlock, DestroyMembers, DestroyMoves, DestroyStates, objectVars
  <1>9. CASE TakeFront
    BY <1>0, <1>9, HeadTailProperties DEF TypeOK, TakeFront, objectVars
  <1>10. CASE Deaths
    <2>1. crash' \in Crashes
      BY <1>10 DEF Deaths, JoinNull, HeaderThrows, DetachNull, UseAfterFree, DeleteJoinable, Die, Crashes
    <2> QED BY <1>0, <1>10, <2>1, DeathFrame DEF TypeOK, serverVars, objectVars
  <1>11. CASE UNCHANGED vars
    BY <1>0, <1>11 DEF TypeOK, vars, serverVars, objectVars
  <1> QED BY <1>1, <1>2, <1>3, <1>4, <1>5, <1>6, <1>7, <1>8, <1>9, <1>10, <1>11, StepKinds
-----------------------------------------------------------------------------
(* What holds of the server and its connections survives every kind of step. *)

LEMMA ShapeSame ==
    ASSUME Shape, UNCHANGED <<serverVars, life, threads, closePc, readPc>>,
           \A d \in Conns : txPc'[d] = "none" <=> txPc[d] = "none",
           \A d \in Conns : detached[d] => detached'[d],
           fresh \in Conns \cup {NoConn}
    PROVE  Shape'
  <1>0. fresh # NoConn => fresh \in Conns
    OBVIOUS
  <1>1. /\ UNCHANGED <<connectionList, listenPc, fresh, victim, destroyPc>>
        /\ OnceInv' /\ \A c \in Conns : Listed(c)' <=> Listed(c)
    BY ListSame DEF Shape, serverVars
  <1>2. FreshInv'
    BY <1>0, <1>1 DEF Shape, FreshInv
  <1>3. VictimInv'
    BY <1>1 DEF Shape, VictimInv, Listed
  <1>4. \A c \in Conns : ConnInv(c)'
    BY <1>1 DEF Shape, ConnInv, UnbornInv, BuiltInv, ListInv, CloseInv, DetachInv, DeletedInv
  <1> QED BY <1>1, <1>2, <1>3, <1>4 DEF Shape

\* A read thread that is neither before its start, nor removing, nor past its end
\* moves on.
LEMMA ShapeRead ==
    ASSUME TypeOK, Shape, NEW c \in Conns, ReadSteps(c)
    PROVE  Shape'
  <1> USE DEF Shape
  <1>0. /\ UNCHANGED <<connectionList, listenPc, fresh, victim, destroyPc, life, threads,
                       closePc>>
        /\ OnceInv' /\ \A d \in Conns : Listed(d)' <=> Listed(d)
    BY ReadFrame, ListSame DEF serverVars
  <1>1. PICK to \in ReadStates \ {"none", "removing"} :
          /\ readPc' = [readPc EXCEPT ![c] = to]
          /\ to \in {"callRemove", "lockList"} =>
               detached'[c] \/ (readPc[c] = "callRemove" /\ UNCHANGED detached)
    BY ReadFrame
  <1>2. /\ readPc[c] \notin {"none", "removing", "exited"}
        /\ life[c] = "alive" \/ readPc[c] = "lockList"
        /\ \A d \in Conns : (txPc'[d] = "none" <=> txPc[d] = "none")
                             /\ (detached[d] => detached'[d])
    BY ReadFrame
  <1>3. /\ \A d \in Conns :
             /\ readPc'[d] = IF d = c THEN to ELSE readPc[d]
             /\ readPc'[d] = "none" <=> readPc[d] = "none"
             /\ readPc'[d] = "removing" <=> readPc[d] = "removing"
        /\ fresh # NoConn => fresh \in Conns
        /\ victim # NoConn => victim \in Conns
    BY <1>1, <1>2 DEF TypeOK
  <1>4. FreshInv'
    BY <1>0, <1>2, <1>3 DEF FreshInv
  <1>5. VictimInv'
    BY <1>0, <1>3 DEF VictimInv, Listed
  <1>6. ASSUME NEW d \in Conns PROVE ConnInv(d)'
    <2>1. UnbornInv(d)' /\ BuiltInv(d)' /\ ListInv(d)' /\ CloseInv(d)'
      BY <1>0, <1>2, <1>3 DEF ConnInv, UnbornInv, BuiltInv, ListInv, CloseInv
    <2>2. DetachInv(d)'
      BY <1>1, <1>2, <1>3 DEF ConnInv, DetachInv
    <2>3. DeletedInv(d)'
      BY <1>0, <1>2, <1>3 DEF ConnInv, DeletedInv
    <2> QED BY <2>1, <2>2, <2>3 DEF ConnInv
  <1> QED BY <1>0, <1>4, <1>5, <1>6

\* Whoever takes a connection from the list does so with the mutex held and no
\* victim of an earlier removal left.
LEMMA ShapeTake ==
    ASSUME TypeOK, Shape, NEW c \in Conns, RemoveFound(c) \/ (TakeFront /\ c = victim')
    PROVE  Shape'
  <1> USE DEF Shape
  <1>0. /\ UNCHANGED <<listenPc, fresh, destroyPc, life, threads, closePc, txPc, detached>>
        /\ victim' = c
        /\ fresh # NoConn => fresh \in Conns
    BY DEF TypeOK, RemoveFound, TakeFront, connVars, objectVars
  <1>1. /\ OnceInv' /\ Listed(c) /\ ~Listed(c)'
        /\ \A d \in Conns : Listed(d)' => Listed(d)
    <2>1. CASE RemoveFound(c)
      BY <2>1, ListAfterErase DEF RemoveFound
    <2>2. CASE TakeFront /\ c = victim'
      <3>1. /\ connectionList \in Seq(Conns) /\ connectionList # << >>
            /\ c = Head(connectionList) /\ connectionList' = Tail(connectionList)
        BY <2>2 DEF TypeOK, TakeFront
      <3>2. /\ 1 \in 1 .. Len(connectionList) /\ connectionList[1] = c
            /\ connectionList' = Erase(connectionList, 1)
        BY <3>1, TailIsErase
      <3> QED BY <3>2, ListAfterErase
    <2> QED BY <2>1, <2>2
  <1>2. victim = NoConn /\ \A d \in Conns : readPc[d] # "removing"
    BY DEF TypeOK, RemoveFound, TakeFront, ListLocked, VictimInv
  <1>3. /\ \A d \in Conns : d # c => readPc'[d] = readPc[d]
        /\ \/ readPc[c] = "lockList" /\ readPc'[c] = "removing" /\ destroyPc # "sweep"
           \/ readPc'[c] = readPc[c] /\ destroyPc = "sweep"
    BY DEF TypeOK, RemoveFound, TakeFront, objectVars, ListLocked
  <1>4. c # fresh /\ life[c] = "alive" /\ closePc[c] = "idle"
    BY <1>1 DEF ConnInv, ListInv
  <1>5. FreshInv'
    BY <1>0, <1>3, <1>4 DEF FreshInv
  <1>6. VictimInv'
    BY <1>0, <1>1, <1>2, <1>3, <1>4 DEF VictimInv
  <1>7. ASSUME NEW d \in Conns PROVE ConnInv(d)'
    <2>1. UnbornInv(d)' /\ BuiltInv(d)' /\ ListInv(d)'
      BY <1>0, <1>1, <1>3, <1>4 DEF ConnInv, UnbornInv, BuiltInv, ListInv
    <2>2. CloseInv(d)'
      BY <1>0, <1>2, <1>4, NoConnAssumption DEF ConnInv, CloseInv
    <2>3. DetachInv(d)' /\ DeletedInv(d)'
      BY <1>0, <1>3, <1>4 DEF ConnInv, DetachInv, DeletedInv
    <2> QED BY <2>1, <2>2, <2>3 DEF ConnInv
  <1> QED BY <1>1, <1>5, <1>6, <1>7

LEMMA ShapeClose ==
    ASSUME TypeOK, Shape, NEW c \in Conns, CloseVictim(c)
    PROVE  Shape'
  <1> USE DEF Shape
  <1>0. /\ UNCHANGED <<connectionList, listenPc, fresh, victim, destroyPc, life, threads,
                       readPc, detached>>
        /\ c = victim
        /\ OnceInv' /\ \A d \in Conns : Listed(d)' <=> Listed(d)
    BY ListSame DEF CloseVictim, serverVars, objectVars
  <1>1. /\ \A d \in Conns : d # c => closePc'[d] = closePc[d]
        /\ closePc[c] # "closed"
        /\ \A d \in Conns : txPc'[d] = "none" <=> txPc[d] = "none"
    BY CloseFrame DEF CloseVictim
  <1>2. /\ life[c] = "alive" /\ c # fresh /\ ~Listed(c)
        /\ fresh # NoConn => fresh \in Conns
    BY <1>0, NoConnAssumption DEF VictimInv, TypeOK
  <1>3. FreshInv'
    BY <1>0, <1>1, <1>2 DEF FreshInv
  <1>4. VictimInv'
    BY <1>0 DEF VictimInv, Listed
  <1>5. ASSUME NEW d \in Conns PROVE ConnInv(d)'
    BY <1>0, <1>1, <1>2 DEF ConnInv, UnbornInv, BuiltInv, ListInv, CloseInv, DetachInv,
                            DeletedInv
  <1> QED BY <1>0, <1>3, <1>4, <1>5

LEMMA ShapeDelete ==
    ASSUME TypeOK, Shape, NEW c \in Conns, DeleteVictim(c)
    PROVE  Shape'
  <1> USE DEF Shape
  <1>0. /\ UNCHANGED <<connectionList, listenPc, fresh, destroyPc, threads, detached, txPc,
                       closePc>>
        /\ c = victim /\ victim' = NoConn /\ closePc[c] = "closed"
        /\ OnceInv' /\ \A d \in Conns : Listed(d)' <=> Listed(d)
    BY ListSame DEF DeleteVictim, connVars
  <1>1. \A d \in Conns :
          /\ life'[d] = IF d = c THEN "deleted" ELSE life[d]
          /\ readPc'[d] = IF d = c /\ readPc[c] = "removing" THEN "exited" ELSE readPc[d]
    BY DEF TypeOK, DeleteVictim
  <1>2. /\ life[c] = "alive" /\ c # fresh /\ ~Listed(c)
        /\ readPc[c] = "removing" \/ destroyPc = "sweep"
        /\ \A d \in Conns : readPc[d] = "removing" => d = c
        /\ fresh # NoConn => fresh \in Conns
    BY <1>0, NoConnAssumption DEF VictimInv, TypeOK
  <1>3. FreshInv'
    BY <1>0, <1>1, <1>2 DEF FreshInv
  <1>4. VictimInv'
    BY <1>0, <1>1, <1>2 DEF VictimInv
  <1>5. ASSUME NEW d \in Conns PROVE ConnInv(d)'
    <2>1. UnbornInv(d)' /\ BuiltInv(d)' /\ ListInv(d)'
      BY <1>0, <1>1, <1>2, NoConnAssumption DEF ConnInv, UnbornInv, BuiltInv, ListInv
    <2>2. CloseInv(d)' /\ DetachInv(d)' /\ DeletedInv(d)'
      BY <1>0, <1>1, <1>2 DEF ConnInv, CloseInv, DetachInv, DeletedInv
    <2> QED BY <2>1, <2>2 DEF ConnInv
  <1> QED BY <1>0, <1>3, <1>4, <1>5
-----------------------------------------------------------------------------
\* The steps of the listening thread and of the destructor that leave the
\* connections and the list alone.
LEMMA ShapeListen ==
    ASSUME TypeOK, Shape, ListenSteps \/ DestroySteps
    PROVE  Shape'
  <1> USE DEF Shape
  <1>0. /\ UNCHANGED <<connectionList, fresh, victim, life, threads, readPc, detached, txPc,
                       closePc>>
        /\ OnceInv' /\ \A d \in Conns : Listed(d)' <=> Listed(d)
    BY ListSame DEF ListenSteps, StartListening, ListenCheck, AcceptFails, ListenMoves,
         DestroySteps, StopServer, CloseListeningSocket, JoinListening, LockAll, Unlock,
         DestroyMembers, DestroyMoves, connVars, objectVars
  <1>1. listenPc \in Building <=> listenPc' \in Building
    BY DEF ListenSteps, StartListening, ListenCheck, AcceptFails, ListenMoves, Building,
         DestroySteps, StopServer, CloseListeningSocket, JoinListening, LockAll, Unlock,
         DestroyMembers, DestroyMoves
  <1>2. listenPc' # listenPc => listenPc \notin Building /\ UNCHANGED destroyPc
    BY DEF ListenSteps, StartListening, ListenCheck, AcceptFails, ListenMoves, Building,
         DestroySteps, StopServer, CloseListeningSocket, JoinListening, LockAll, Unlock,
         DestroyMembers, DestroyMoves
  <1>3. destroyPc' # destroyPc =>
          /\ destroyPc' = "sweep" => ~ListLocked
          /\ destroyPc = "sweep" => victim = NoConn
          /\ destroyPc' \in {"running", "stopping", "socketClosed", "joined"} =>
               destroyPc \in {"running", "stopping", "socketClosed", "joined"}
    BY DEF ListenSteps, StartListening, ListenCheck, AcceptFails, ListenMoves,
         DestroySteps, StopServer, CloseListeningSocket, JoinListening, LockAll, Unlock,
         DestroyMembers, DestroyMoves
  <1>4. FreshInv'
    BY <1>0, <1>1, <1>2 DEF FreshInv, Building
  <1>5. VictimInv'
    BY <1>0, <1>3 DEF VictimInv, ListLocked, Listed
  <1>6. ASSUME NEW d \in Conns PROVE ConnInv(d)'
    <2>1. UnbornInv(d)' /\ BuiltInv(d)' /\ ListInv(d)' /\ CloseInv(d)' /\ DetachInv(d)'
      BY <1>0 DEF ConnInv, UnbornInv, BuiltInv, ListInv, CloseInv, DetachInv
    <2>2. DeletedInv(d)'
      BY <1>0, <1>3 DEF ConnInv, DeletedInv
    <2> QED BY <2>1, <2>2 DEF ConnInv
  <1> QED BY <1>0, <1>4, <1>5, <1>6

\* accept() and the constructor
LEMMA ShapeAccept ==
    ASSUME TypeOK, Shape, NEW c \in Conns, Accept(c)
    PROVE  Shape'
  <1> USE DEF Shape
  <1>0. /\ UNCHANGED <<connectionList, victim, destroyPc, threads, readPc, detached, txPc,
                       closePc>>
        /\ OnceInv' /\ \A d \in Conns : Listed(d)' <=> Listed(d)
    BY ListSame DEF Accept, ListenMoves, connVars
  <1>1. /\ fresh = NoConn /\ fresh' = c /\ listenPc' = "startRead"
        /\ life[c] = "unborn" /\ \A d \in Conns : life'[d] = IF d = c THEN "alive" ELSE life[d]
    BY DEF TypeOK, Accept, ListenMoves, FreshInv, Building
  <1>2. /\ c # victim /\ ~Listed(c) /\ readPc[c] = "none" /\ txPc[c] = "none"
        /\ closePc[c] = "idle" /\ threads[c] = {}
    BY <1>1 DEF ConnInv, UnbornInv
  <1>3. FreshInv'
    BY <1>0, <1>1, <1>2, NoConnAssumption DEF FreshInv, Building
  <1>4. VictimInv'
    <2>1. victim # NoConn => victim \in Conns
      BY DEF TypeOK
    <2> QED BY <1>0, <1>1, <1>2, <2>1 DEF VictimInv, Listed
  <1>5. ASSUME NEW d \in Conns PROVE ConnInv(d)'
    <2>1. UnbornInv(d)' /\ BuiltInv(d)' /\ ListInv(d)'
      BY <1>0, <1>1, <1>2, NoConnAssumption DEF ConnInv, UnbornInv, BuiltInv, ListInv
    <2>2. CloseInv(d)' /\ DetachInv(d)' /\ DeletedInv(d)'
      BY <1>0, <1>1, <1>2 DEF ConnInv, CloseInv, DetachInv, DeletedInv
    <2> QED BY <2>1, <2>2 DEF ConnInv
  <1> QED BY <1>0, <1>3, <1>4, <1>5

\* Initialise()
LEMMA ShapeBuild ==
    ASSUME TypeOK, Shape, BuildSteps \/ StartTransmit
    PROVE  Shape'
  <1> USE DEF Shape
  <1>0. /\ UNCHANGED <<connectionList, fresh, victim, destroyPc, life, detached, closePc>>
        /\ OnceInv' /\ \A d \in Conns : Listed(d)' <=> Listed(d)
        /\ fresh \in Conns /\ listenPc' \in Building
    BY ListSame, NoConnAssumption
    DEF TypeOK, BuildSteps, StartRead, AssignRead, AssignTransmit, StartTransmit, ListenMoves,
        FreshInv, Building, connVars
  <1>1. life[fresh] = "alive" /\ readPc[fresh] # "removing" /\ fresh # victim
    BY <1>0, NoConnAssumption DEF FreshInv, VictimInv
  <1>2. \A d \in Conns : d # fresh =>
          readPc'[d] = readPc[d] /\ threads'[d] = threads[d] /\ txPc'[d] = txPc[d]
    BY DEF TypeOK, Conn!TypeOK, BuildSteps, StartRead, AssignRead, AssignTransmit,
        StartTransmit, connVars
  <1>3. readPc'[fresh] = readPc[fresh] \/ readPc'[fresh] = "check"
    BY <1>0 DEF TypeOK, BuildSteps, StartRead, AssignRead, AssignTransmit, StartTransmit
  <1>4. FreshInv'
    <2>1. CASE StartRead
      BY <1>0, <2>1, NoConnAssumption DEF TypeOK, FreshInv, StartRead, ListenMoves, Building,
           connVars
    <2>2. CASE AssignRead \/ AssignTransmit
      BY <1>0, <2>2, NoConnAssumption DEF TypeOK, FreshInv, AssignRead, AssignTransmit,
           ListenMoves, Building, connVars
    <2>3. CASE StartTransmit
      BY <1>0, <2>3, NoConnAssumption DEF TypeOK, Conn!TypeOK, FreshInv, StartTransmit,
           ListenMoves, Building
    <2> QED BY <2>1, <2>2, <2>3 DEF BuildSteps
  <1>5. VictimInv'
    <2>1. victim # NoConn => victim \in Conns
      BY DEF TypeOK
    <2> QED BY <1>0, <1>1, <1>2, <1>3, <2>1 DEF VictimInv, Listed
  <1>6. ASSUME NEW d \in Conns PROVE ConnInv(d)'
    <2>1. UnbornInv(d)' /\ BuiltInv(d)' /\ ListInv(d)'
      BY <1>0, <1>1, <1>2 DEF ConnInv, UnbornInv, BuiltInv, ListInv
    <2>2. CloseInv(d)' /\ DetachInv(d)' /\ DeletedInv(d)'
      BY <1>0, <1>1, <1>2, <1>3 DEF ConnInv, CloseInv, DetachInv, DeletedInv
    <2> QED BY <2>1, <2>2 DEF ConnInv
  <1> QED BY <1>0, <1>4, <1>5, <1>6

\* push_back(): what is listed now has been built.
LEMMA ShapePush ==
    ASSUME TypeOK, Shape, PushBack
    PROVE  Shape'
  <1> USE DEF Shape
  <1>0. /\ UNCHANGED <<victim, destroyPc, life, threads, readPc, detached, txPc, closePc>>
        /\ listenPc = "lockList" /\ listenPc' = "loop" /\ fresh' = NoConn
        /\ connectionList' = Append(connectionList, fresh)
    BY DEF PushBack, ListenMoves, connVars
  <1>1. /\ fresh \in Conns /\ fresh # victim /\ life[fresh] = "alive"
        /\ closePc[fresh] = "idle" /\ ~Listed(fresh)
        /\ threads[fresh] = {"read", "tx"} /\ readPc[fresh] # "none" /\ txPc[fresh] # "none"
    BY <1>0, NoConnAssumption DEF TypeOK, FreshInv, VictimInv, ConnInv, ListInv, Building
  <1>2. OnceInv' /\ \A d \in Conns : Listed(d)' => Listed(d) \/ d = fresh
    BY <1>0, <1>1, ListAfterPush
  <1>3. FreshInv'
    BY <1>0 DEF FreshInv, Building
  <1>4. VictimInv'
    <2>1. victim # NoConn => victim \in Conns
      BY DEF TypeOK
    <2> QED BY <1>0, <1>1, <1>2, <2>1, NoConnAssumption DEF VictimInv
  <1>5. ASSUME NEW d \in Conns PROVE ConnInv(d)'
    <2>1. UnbornInv(d)' /\ BuiltInv(d)' /\ ListInv(d)'
      BY <1>0, <1>1, <1>2, NoConnAssumption DEF ConnInv, UnbornInv, BuiltInv, ListInv
    <2>2. CloseInv(d)' /\ DetachInv(d)' /\ DeletedInv(d)'
      BY <1>0 DEF ConnInv, CloseInv, DetachInv, DeletedInv
    <2> QED BY <2>1, <2>2 DEF ConnInv
  <1> QED BY <1>2, <1>3, <1>4, <1>5

LEMMA ShapeStep == Inv /\ [Next]_vars => Shape'
  <1> SUFFICES ASSUME Inv, [Next]_vars PROVE Shape'
    OBVIOUS
  <1>0. TypeOK /\ Shape /\ fresh \in Conns \cup {NoConn}
    BY DEF Inv, TypeOK
  <1>1. CASE Deaths \/ UNCHANGED vars
    <2>1. UNCHANGED <<connVars, serverVars, objectVars>>
      BY <1>1, DeathFrame DEF vars
    <2> QED BY <1>0, <2>1, ShapeSame DEF connVars, objectVars
  <1>2. ASSUME NEW c \in Conns, TransmitSide(c) PROVE Shape'
    BY <1>0, <1>2, TransmitFrame, ShapeSame DEF objectVars
  <1>3. CASE TakeFront
    <2>1. Head(connectionList) \in Conns /\ Head(connectionList) = victim'
      BY <1>0, <1>3, HeadTailProperties DEF TypeOK, TakeFront
    <2> QED BY <1>0, <1>3, <2>1, ShapeTake
  <1>4. ASSUME NEW c \in Conns,
               \/ Accept(c) \/ ReadSteps(c) \/ RemoveFound(c) \/ CloseVictim(c)
               \/ DeleteVictim(c)
        PROVE Shape'
    BY <1>0, <1>4, ShapeAccept, ShapeRead, ShapeTake, ShapeClose, ShapeDelete
  <1>5. CASE ListenSteps \/ BuildSteps \/ StartTransmit \/ PushBack \/ DestroySteps
    BY <1>0, <1>5, ShapeListen, ShapeBuild, ShapePush
  <1> QED BY <1>1, <1>2, <1>3, <1>4, <1>5, StepKinds
-----------------------------------------------------------------------------
\* How a running server can die: a header may throw, but a listed connection has
\* its thread recorded, a victim has detached itself, a deleted connection has no
\* read thread.
LEMMA CrashStep == Inv /\ [Next]_vars => RunningServerCrash'
  <1> SUFFICES ASSUME Inv, [Next]_vars, crash' # "none", destroyPc' = "running"
               PROVE  RunningServerCrash'
    BY DEF RunningServerCrash
  <1>0. TypeOK /\ Shape /\ RunningServerCrash
    BY DEF Inv
  <1>1. CASE UNCHANGED vars
    <2>1. UNCHANGED <<crash, destroyPc, fresh, readPc, life, socket>>
      BY <1>1 DEF vars, connVars, serverVars, objectVars
    <2> QED BY <1>0, <2>1 DEF RunningServerCrash
  <1>2. CASE Deaths
    <2>1. UNCHANGED <<destroyPc, fresh, readPc>> /\ destroyPc = "running"
      BY <1>2, DeathFrame DEF serverVars, objectVars
    <2>2. CASE JoinNull
      BY <2>1, <2>2 DEF JoinNull
    <2>3. ASSUME NEW c \in Conns, DetachNull(c) PROVE RunningServerCrash'
      <3>1. readPc[c] = "detach" /\ "read" \notin threads[c] /\ crash' = "detachNull"
        BY <2>3 DEF DetachNull, Die
      <3>2. c = fresh
        BY <1>0, <3>1 DEF Shape, ConnInv, UnbornInv, BuiltInv
      <3> QED BY <2>1, <3>1, <3>2, NoConnAssumption DEF RunningServerCrash
    <2>4. ASSUME NEW c \in Conns, UseAfterFree(c) PROVE FALSE
      BY <1>0, <2>1, <2>4 DEF Shape, ConnInv, DeletedInv, UseAfterFree
    <2>5. ASSUME NEW c \in Conns, DeleteJoinable(c) PROVE FALSE
      <3>1. c = victim /\ ~detached[c]
        BY <2>5 DEF DeleteJoinable
      <3>2. readPc[c] = "removing"
        BY <1>0, <2>1, <3>1, NoConnAssumption DEF Shape, VictimInv
      <3> QED BY <1>0, <3>1, <3>2 DEF Shape, ConnInv, DetachInv
    <2>6. ASSUME NEW c \in Conns, HeaderThrows(c) PROVE RunningServerCrash'
      BY <2>6 DEF HeaderThrows, Die, connVars, objectVars, RunningServerCrash
    <2> QED BY <1>2, <2>2, <2>3, <2>4, <2>5, <2>6 DEF Deaths
  <1>3. CASE Next /\ ~Deaths
    <2>1. crash = "none"
      BY <1>3, StepRuns
    <2>2. UNCHANGED crash
      <3>1. ASSUME NEW c \in Conns, ReadSteps(c) \/ TransmitSide(c) PROVE UNCHANGED crash
        BY <1>0, <3>1, ReadFrame, TransmitFrame
      <3>2. ASSUME NEW c \in Conns,
                   Accept(c) \/ RemoveFound(c) \/ CloseVictim(c) \/ DeleteVictim(c)
            PROVE UNCHANGED crash
        BY <3>2 DEF Accept, ListenMoves, RemoveFound, CloseVictim, DeleteVictim
      <3>3. CASE \/ ListenSteps \/ BuildSteps \/ StartTransmit \/ PushBack
                 \/ DestroySteps \/ TakeFront
        BY <3>3 DEF ListenSteps, StartListening, ListenCheck, AcceptFails, BuildSteps, StartRead,
             AssignRead, AssignTransmit, StartTransmit, PushBack, ListenMoves, DestroySteps,
             StopServer, CloseListeningSocket, JoinListening, LockAll, Unlock, DestroyMembers,
             DestroyMoves, TakeFront
      <3> QED BY <1>3, <3>1, <3>2, <3>3, StepKinds
    <2> QED BY <2>1, <2>2
  <1> QED BY <1>1, <1>2, <1>3

LEMMA InitInv == Init => Inv
  <1> SUFFICES ASSUME Init PROVE Inv
    OBVIOUS
  <1>1. Tx!Inv
    <2>1. Tx!NewConnection /\ txPc \in [Conns -> {"none", "check"}]
      BY DEF Init, Conn!NewConnection, Tx!NewConnection, Conn!Buffers, Tx!Buffers
    <2> QED BY <2>1, Tx!NewInv, TransmitsAssumption, BufLenAssumption
  <1>2. TypeOK
    BY <1>1, SameType
    DEF Init, TypeOK, ListenStates, DestroyStates, ReadStates, Crashes
  <1>3. Shape
    <2>1. Len(connectionList) = 0 /\ \A c \in Conns : ~Listed(c)
      BY DEF Init, Listed
    <2>2. OnceInv
      BY <2>1 DEF OnceInv
    <2>3. FreshInv /\ VictimInv
      BY DEF Init, FreshInv, VictimInv, Building
    <2>4. \A c \in Conns : ConnInv(c)
      BY <2>1, NoConnAssumption DEF Init, Conn!NewConnection, ConnInv, UnbornInv, BuiltInv,
           ListInv, CloseInv, DetachInv, DeletedInv
    <2> QED BY <2>2, <2>3, <2>4 DEF Shape
  <1>4. RunningServerCrash
    BY DEF Init, RunningServerCrash
  <1> QED BY <1>1, <1>2, <1>3, <1>4 DEF Inv
-----------------------------------------------------------------------------
\* The inductive invariant holds throughout.
THEOREM Invariance == Spec => []Inv
  <1>1. Inv /\ [Next]_vars => Inv'
    BY TypeStep, TxStep, ShapeStep, CrashStep DEF Inv
  <1> QED BY InitInv, <1>1, PTL DEF Spec

\* The server's, its connections' and their transmit threads' state keep their types.
THEOREM TypeCorrect == Spec => []TypeOK
  <1>1. Inv => TypeOK
    BY DEF Inv
  <1> QED BY <1>1, Invariance, PTL

\* Whoever locks _connectionListMutex finds only connections it can use.
THEOREM ListIsUsable == Spec => []ListedIsUsable
  <1>1. Inv => ListedIsUsable
    <2> SUFFICES ASSUME Inv PROVE ListedIsUsable
      OBVIOUS
    <2>1. OnceInv
      BY DEF Inv, Shape
    <2>2. ASSUME NEW c \in Conns, Listed(c)
          PROVE  /\ life[c] = "alive" /\ c \notin {fresh, victim}
                 /\ closePc[c] = "idle" /\ threads[c] = {"read", "tx"}
      <3>1. life[c] = "alive" /\ c # fresh /\ closePc[c] = "idle"
        BY <2>2 DEF Inv, Shape, ConnInv, ListInv
      <3>2. threads[c] = {"read", "tx"}
        BY <3>1 DEF Inv, Shape, ConnInv, BuiltInv
      <3>3. c # victim
        BY <2>2, NoConnAssumption DEF Inv, Shape, VictimInv
      <3> QED BY <3>1, <3>2, <3>3
    <2> QED BY <2>1, <2>2 DEF ListedIsUsable, OnceInv
  <1> QED BY <1>1, Invariance, PTL

\* delete comes after the end of both threads of the connection, while the server
\* runs: the read thread is the deleter, the transmit thread was joined.
THEOREM DeletedConnectionIsQuiet == Spec => []DeletedIsQuiet
  <1>1. Inv => DeletedIsQuiet
    <2> SUFFICES ASSUME Inv, destroyPc = "running", NEW c \in Conns, life[c] = "deleted"
                 PROVE  readPc[c] = "exited" /\ txPc[c] = "exited"
      BY DEF DeletedIsQuiet
    <2>1. readPc[c] = "exited" /\ closePc[c] = "closed"
      BY DEF Inv, Shape, ConnInv, DeletedInv
    <2>2. closePc[c] = "closed" => txPc[c] = "exited"
      BY DEF Inv, Tx!Inv, Tx!ThreadInv
    <2> QED BY <2>1, <2>2
  <1> QED BY <1>1, Invariance, PTL

\* A running server dies only by detach() through a _pReadThread not yet stored, or
\* by a header that ParseHeader() throws on: never of what another thread has freed,
\* and never of a thread object deleted while joinable.
THEOREM RunningServerCrashes == Spec => []RunningServerCrash
  <1>1. Inv => RunningServerCrash
    BY DEF Inv
  <1> QED BY <1>1, Invariance, PTL

\* In the server too, every connection loses, repeats and overtakes no response.
THEOREM ServedFifo == Spec => []Conn!FifoConserved
  <1>1. Inv => Conn!FifoConserved
    BY DEF Inv, Tx!Inv, Tx!FifoConserved, Conn!FifoConserved
  <1> QED BY <1>1, Invariance, PTL
==============================================================================
