----------------------- MODULE NetworkServerConnection -----------------------
(***************************************************************************)
(* The transmit side of a connection (src/NetworkServer.cpp): Transmit()   *)
(* appends a buffer to _txQueue under _transmitMutex and notifies          *)
(* _transmitCv; TransmitThread() waits on _transmitCv and sends what is    *)
(* queued; Close() raises _closeConnection, notifies without the mutex,    *)
(* closes the socket and joins the transmit thread.                        *)
(*                                                                         *)
(* Every variable is a function over Conns, so that a server can compose   *)
(* the connections it owns; on its own this module runs each connection    *)
(* with callers of Transmit(), one caller of Close() and a peer.           *)
(*                                                                         *)
(* _transmitMutex is held exactly while the transmit thread drains or      *)
(* sends; Transmit() takes and releases it within one action.              *)
(***************************************************************************)
EXTENDS Naturals, Sequences, FiniteSets

CONSTANTS
    Conns,          \* connection objects
    MaxTransmits,   \* bound: calls of Transmit() per connection
    BufLen          \* bytes in a buffer handed to Transmit()

ASSUME TransmitsAssumption == MaxTransmits \in Nat
ASSUME BufLenAssumption == BufLen \in Nat \ {0}

VARIABLES
    txPc,             \* where TransmitThread() is
    txQueue,          \* _txQueue: buffers by number, oldest first
    txLen,            \* TransmitBuffer::len of each buffer: bytes still to send
    closeConnection,  \* _closeConnection
    socket,           \* _socket: "open", "peerClosed", "closed" (closesocket)
    closePc,          \* where Close() is
    transmitted,      \* calls of Transmit() so far; the i-th call's buffer is i
    wire,             \* bytes given to the network: <<buffer, index in pData>>
    outcome,          \* history: <<buffer, "sent" or "dropped">>
    missed            \* history: buffers pushed with nobody to hear notify_all()

txVars == <<txPc, txQueue, txLen, transmitted, wire, outcome, missed>>
vars == <<txPc, txQueue, txLen, closeConnection, socket, closePc,
          transmitted, wire, outcome, missed>>

Buffers == 1 .. MaxTransmits
TxStates == {"none", "check", "lock", "waiting", "woken", "drain", "send", "exited"}
Outcomes == {"sent", "dropped"}
CloseStates == {"idle", "flagged", "notified", "joining", "closed"}

\* _transmitMutex is held by the transmit thread of c.
MutexHeld(c) == txPc[c] \in {"drain", "send"}

\* notify_all() moves the transmit thread only if it waits now.
NotifyAll(c) == txPc' = [txPc EXCEPT ![c] = IF @ = "waiting" THEN "woken" ELSE @]

NewConnection ==
    /\ txQueue = [c \in Conns |-> << >>]
    /\ txLen = [c \in Conns |-> [b \in Buffers |-> 0]]
    /\ closeConnection = [c \in Conns |-> FALSE]
    /\ socket = [c \in Conns |-> "open"]
    /\ closePc = [c \in Conns |-> "idle"]
    /\ transmitted = [c \in Conns |-> 0]
    /\ wire = [c \in Conns |-> << >>]
    /\ outcome = [c \in Conns |-> << >>]
    /\ missed = [c \in Conns |-> {}]

\* Initialise() has already started the transmit thread of every connection.
Init == NewConnection /\ txPc = [c \in Conns |-> "check"]
-----------------------------------------------------------------------------
(* Mutations: plausible slips, each put in place of the definition it is a  *)
(* form of to see that a property notices.  No behaviour of Spec uses them. *)

\* Sent, one byte past the end.
SentPastEnd(b, n) == [i \in 1 .. n + 1 |-> <<b, i>>]

\* PopFront with pop_back().
PopBack(c, result) ==
    /\ txQueue' = [txQueue EXCEPT ![c] = SubSeq(@, 1, Len(@) - 1)]
    /\ outcome' = [outcome EXCEPT ![c] = Append(@, <<Head(txQueue[c]), result>>)]
    /\ txPc' = [txPc EXCEPT ![c] = "drain"]

\* PopFront in an if instead of a while: one buffer per wakeup.
PopFrontOnce(c, result) ==
    /\ txQueue' = [txQueue EXCEPT ![c] = Tail(@)]
    /\ outcome' = [outcome EXCEPT ![c] = Append(@, <<Head(txQueue[c]), result>>)]
    /\ txPc' = [txPc EXCEPT ![c] = "check"]

\* DrainCheck without !_closeConnection: the backlog is flushed first.
DrainCheckQueue(c) ==
    /\ txPc[c] = "drain"
    /\ txPc' = [txPc EXCEPT ![c] = IF txQueue[c] # << >> THEN "send" ELSE "check"]
    /\ UNCHANGED <<txQueue, txLen, closeConnection, socket, closePc,
                   transmitted, wire, outcome, missed>>

\* SendSome without pTxBuff->len -= nBytes.
SendSomeLenKept(c) ==
    /\ txPc[c] = "send"
    /\ socket[c] # "closed"
    /\ Len(wire[c]) < BufLen * MaxTransmits
    /\ \E n \in 1 .. txLen[c][Head(txQueue[c])] - 1 :
         wire' = [wire EXCEPT ![c] = @ \o [i \in 1 .. n |-> <<Head(txQueue[c]), i>>]]
    /\ UNCHANGED <<txPc, txQueue, txLen, closeConnection, socket, closePc,
                   transmitted, outcome, missed>>

\* SendFails with a break out of the inner loop.

\* NotifyClose without notify_all().
NotifyCloseSilent(c) ==
    /\ closePc[c] = "flagged"
    /\ closePc' = [closePc EXCEPT ![c] = "notified"]
    /\ UNCHANGED <<txVars, closeConnection, socket>>

\* JoinTransmit with detach() for join().
DetachTransmit(c) ==
    /\ closePc[c] = "joining"
    /\ closePc' = [closePc EXCEPT ![c] = "closed"]
    /\ UNCHANGED <<txVars, closeConnection, socket>>
-----------------------------------------------------------------------------
(* Transmit(), called by the read thread (SendResponse) or an audio thread. *)

Transmit(c) ==
    /\ ~MutexHeld(c)
    /\ transmitted[c] < MaxTransmits
    /\ transmitted' = [transmitted EXCEPT ![c] = @ + 1]
    /\ txQueue' = [txQueue EXCEPT ![c] = Append(@, transmitted[c] + 1)]
    /\ txLen' = [txLen EXCEPT ![c][transmitted[c] + 1] = BufLen]
    /\ NotifyAll(c)
    /\ missed' = [missed EXCEPT ![c] = IF txPc[c] \in {"waiting", "woken"} THEN @
                                       ELSE @ \cup {transmitted[c] + 1}]
    /\ UNCHANGED <<closeConnection, socket, closePc, wire, outcome>>
-----------------------------------------------------------------------------
(* TransmitThread() *)

\* while (!_closeConnection) of the outer loop.
CheckClosed(c) ==
    /\ txPc[c] = "check"
    /\ txPc' = [txPc EXCEPT ![c] = IF closeConnection[c] THEN "exited" ELSE "lock"]
    /\ UNCHANGED <<txQueue, txLen, closeConnection, socket, closePc,
                   transmitted, wire, outcome, missed>>

\* unique_lock, then wait() without a predicate: it releases the mutex and
\* sleeps whatever the queue and _closeConnection hold.
LockAndWait(c) ==
    /\ txPc[c] = "lock"
    /\ txPc' = [txPc EXCEPT ![c] = "waiting"]
    /\ UNCHANGED <<txQueue, txLen, closeConnection, socket, closePc,
                   transmitted, wire, outcome, missed>>

\* A condition variable may wake without a notification.
SpuriousWakeup(c) ==
    /\ txPc[c] = "waiting"
    /\ txPc' = [txPc EXCEPT ![c] = "woken"]
    /\ UNCHANGED <<txQueue, txLen, closeConnection, socket, closePc,
                   transmitted, wire, outcome, missed>>

\* wait() takes the mutex again and returns.
WaitReturns(c) ==
    /\ txPc[c] = "woken"
    /\ txPc' = [txPc EXCEPT ![c] = "drain"]
    /\ UNCHANGED <<txQueue, txLen, closeConnection, socket, closePc,
                   transmitted, wire, outcome, missed>>

\* while (!_closeConnection && _txQueue.size() > 0); leaving it unlocks.
DrainCheck(c) ==
    /\ txPc[c] = "drain"
    /\ txPc' = [txPc EXCEPT ![c] =
                  IF ~closeConnection[c] /\ txQueue[c] # << >> THEN "send" ELSE "check"]
    /\ UNCHANGED <<txQueue, txLen, closeConnection, socket, closePc,
                   transmitted, wire, outcome, missed>>

\* What send(ptr, n) puts on the wire: ptr is pTxBuff->pData again on every
\* pass through tx:, so the bytes are always the first n of the buffer.
Sent(b, n) == [i \in 1 .. n |-> <<b, i>>]

\* _txQueue.pop_front(); delete pTxBuff
PopFront(c, result) ==
    /\ txQueue' = [txQueue EXCEPT ![c] = Tail(@)]
    /\ outcome' = [outcome EXCEPT ![c] = Append(@, <<Head(txQueue[c]), result>>)]
    /\ txPc' = [txPc EXCEPT ![c] = "drain"]

\* send() took all pTxBuff->len bytes.
SendAll(c) ==
    /\ txPc[c] = "send"
    /\ socket[c] # "closed"
    /\ wire' = [wire EXCEPT ![c] = @ \o Sent(Head(txQueue[c]), txLen[c][Head(txQueue[c])])]
    /\ PopFront(c, "sent")
    /\ UNCHANGED <<txLen, closeConnection, socket, closePc, transmitted, missed>>

\* send() took some of them: len shrinks, and goto tx.
SendSome(c) ==
    /\ txPc[c] = "send"
    /\ socket[c] # "closed"
    /\ \E n \in 1 .. txLen[c][Head(txQueue[c])] - 1 :
         /\ wire' = [wire EXCEPT ![c] = @ \o Sent(Head(txQueue[c]), n)]
         /\ txLen' = [txLen EXCEPT ![c][Head(txQueue[c])] = @ - n]
    /\ UNCHANGED <<txPc, txQueue, closeConnection, socket, closePc,
                   transmitted, outcome, missed>>

\* send() failed or returned 0: the error is traced and the buffer dropped.
SendFails(c) ==
    /\ txPc[c] = "send"
    /\ socket[c] # "open"
    /\ PopFront(c, "dropped")
    /\ UNCHANGED <<txLen, closeConnection, socket, closePc, transmitted, wire, missed>>
-----------------------------------------------------------------------------
(* Close() *)

RaiseClose(c) ==
    /\ closePc[c] = "idle"
    /\ closePc' = [closePc EXCEPT ![c] = "flagged"]
    /\ closeConnection' = [closeConnection EXCEPT ![c] = TRUE]
    /\ UNCHANGED <<txVars, socket>>

\* _transmitCv.notify_all(), _transmitMutex not held.
NotifyClose(c) ==
    /\ closePc[c] = "flagged"
    /\ closePc' = [closePc EXCEPT ![c] = "notified"]
    /\ NotifyAll(c)
    /\ UNCHANGED <<txQueue, txLen, closeConnection, socket, transmitted, wire,
                   outcome, missed>>

CloseSocket(c) ==
    /\ closePc[c] = "notified"
    /\ closePc' = [closePc EXCEPT ![c] = "joining"]
    /\ socket' = [socket EXCEPT ![c] = "closed"]
    /\ UNCHANGED <<txVars, closeConnection>>

\* _pTransmitThread->join()
JoinTransmit(c) ==
    /\ closePc[c] = "joining"
    /\ txPc[c] = "exited"
    /\ closePc' = [closePc EXCEPT ![c] = "closed"]
    /\ UNCHANGED <<txVars, closeConnection, socket>>
-----------------------------------------------------------------------------
\* The peer shuts or resets its end, or the network does.
PeerCloses(c) ==
    /\ socket[c] = "open"
    /\ socket' = [socket EXCEPT ![c] = "peerClosed"]
    /\ UNCHANGED <<txVars, closeConnection, closePc>>

SendReturns(c) == SendAll(c) \/ SendFails(c)

TransmitThread(c) ==
    \/ CheckClosed(c)
    \/ LockAndWait(c)
    \/ WaitReturns(c)
    \/ DrainCheck(c)
    \/ SendReturns(c)
    \/ SendSome(c)

Close(c) == RaiseClose(c) \/ NotifyClose(c) \/ CloseSocket(c) \/ JoinTransmit(c)

Next == \E c \in Conns :
    \/ Transmit(c)
    \/ TransmitThread(c)
    \/ SpuriousWakeup(c)
    \/ Close(c)
    \/ PeerCloses(c)

Spec == Init /\ [][Next]_vars

(***************************************************************************)
(* Fairness.  The scheduler runs every runnable thread; a caller that has  *)
(* entered Close() goes on; send() returns in the end, all taken or failed *)
(* (a peer that keeps its window shut for ever is left out).  Nobody has   *)
(* to call Transmit() or Close(), and spurious wakeups are never owed.     *)
(***************************************************************************)
Fairness == \A c \in Conns :
    /\ WF_vars(CheckClosed(c) \/ LockAndWait(c) \/ WaitReturns(c) \/ DrainCheck(c))
    /\ WF_vars(SendReturns(c))
    /\ WF_vars(NotifyClose(c) \/ CloseSocket(c) \/ JoinTransmit(c))

FairSpec == Spec /\ Fairness
-----------------------------------------------------------------------------
(* Properties *)

TypeOK ==
    /\ txPc \in [Conns -> TxStates]
    /\ txQueue \in [Conns -> Seq(Buffers)]
    /\ txLen \in [Conns -> [Buffers -> 0 .. BufLen]]
    /\ closeConnection \in [Conns -> BOOLEAN]
    /\ socket \in [Conns -> {"open", "peerClosed", "closed"}]
    /\ closePc \in [Conns -> CloseStates]
    /\ transmitted \in [Conns -> 0 .. MaxTransmits]
    /\ wire \in [Conns -> Seq(Buffers \X (1 .. BufLen))]
    /\ outcome \in [Conns -> Seq(Buffers \X Outcomes)]
    /\ missed \in [Conns -> SUBSET Buffers]

\* Every buffer handed to Transmit() is settled once or still queued, and both
\* in the order of the calls: the k-th settled buffer is that of the k-th call.
FifoConserved == \A c \in Conns :
    /\ Len(outcome[c]) + Len(txQueue[c]) = transmitted[c]
    /\ \A i \in 1 .. Len(outcome[c]) : outcome[c][i][1] = i
    /\ \A i \in 1 .. Len(txQueue[c]) : txQueue[c][i] = Len(outcome[c]) + i

BytesOf(c, b) == Cardinality({i \in 1 .. Len(wire[c]) : wire[c][i][1] = b})

\* However send() splits a buffer, the network gets as many bytes of it as it
\* has, and none of a later buffer before the last of an earlier one.  (That
\* they are the RIGHT bytes is not claimed: after a partial send the loop
\* starts from pData again.)
WireKeepsCountAndOrder == \A c \in Conns :
    /\ \A i, j \in 1 .. Len(wire[c]) : i < j => wire[c][i][1] <= wire[c][j][1]
    /\ \A i \in 1 .. Len(outcome[c]) :
         outcome[c][i][2] = "sent" => BytesOf(c, outcome[c][i][1]) = BufLen
    /\ \A i \in 1 .. Len(txQueue[c]) :
         BytesOf(c, txQueue[c][i]) = BufLen - txLen[c][txQueue[c][i]]

\* The transmit thread sleeps over a backlog only if every buffer of it was
\* pushed in the gap between its unlock and its wait(), where notify_all()
\* finds nobody; any buffer it was told of has been sent before it sleeps.
BacklogWasMissed == \A c \in Conns :
    txPc[c] = "waiting" /\ ~closeConnection[c]
        => \A i \in 1 .. Len(txQueue[c]) : txQueue[c][i] \in missed[c]

\* Once Close() has returned the transmit thread has let go of the connection:
\* nothing more goes to the socket and no buffer is taken from the queue.
QuietAfterClose == [][\A c \in Conns :
    closePc[c] = "closed" => UNCHANGED <<wire[c], outcome[c], txPc[c]>>]_vars

\* Close() returns whenever _closeConnection is raised while the transmit thread
\* is anywhere but between its check of that flag and wait().
HeardCloseReturns == \A c \in Conns :
    (closePc[c] = "flagged" /\ txPc[c] # "lock") ~> (closePc[c] = "closed")

\* "must wake the Tx thread so it can exit": Close(), once begun, returns.
CloseReturns == \A c \in Conns : (closePc[c] = "flagged") ~> (closePc[c] = "closed")

\* How far c is from closing, as its callers could tell.
Phase(c) == IF ~closeConnection[c] THEN "open"
            ELSE IF txPc[c] = "send" THEN "closing" ELSE "shut"

Channel == INSTANCE FifoChannel WITH
    accepted <- transmitted, pending <- txQueue, settled <- outcome,
    phase <- [c \in Conns |-> Phase(c)]

\* Seen from its callers every connection is a FifoChannel: in order, settled
\* once, at most one buffer settled after closing has begun.
ImplementsChannel == Channel!Spec
==============================================================================
