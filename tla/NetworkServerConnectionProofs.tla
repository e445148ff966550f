-------------------- MODULE NetworkServerConnectionProofs --------------------
(***************************************************************************)
(* Proofs about NetworkServerConnection for any number of connections,     *)
(* any number of buffers of any length.                                    *)
(***************************************************************************)
EXTENDS NetworkServerConnection, SequenceTheorems, FiniteSetTheorems, TLAPS

\* What makes the properties inductive: Close() raises _closeConnection before
\* anything else, the transmit thread only sends when the queue has a head with
\* bytes left, it exits only from a closing connection, and Close() outlives it.
ThreadInv(c) ==
    /\ closePc[c] = "idle" <=> ~closeConnection[c]
    /\ txPc[c] = "send" => txQueue[c] # << >>
    /\ txPc[c] = "exited" => closeConnection[c]
    /\ closePc[c] = "closed" => txPc[c] = "exited"

\* Before its first wait(), and from the check of _closeConnection to wait(), the
\* transmit thread leaves only buffers in the queue whose notification was missed.
MissedInv(c) ==
    txPc[c] \in {"none", "check", "lock", "waiting"} /\ ~closeConnection[c]
        => \A i \in 1 .. Len(txQueue[c]) : txQueue[c][i] \in missed[c]

Inv ==
    /\ TypeOK
    /\ FifoConserved
    /\ \A c \in Conns : ThreadInv(c) /\ MissedInv(c)

\* The bytes a send() puts on the wire are bytes of buffers.
LEMMA SentType ==
    ASSUME NEW b \in Buffers, NEW n \in 0 .. BufLen
    PROVE  Sent(b, n) \in Seq(Buffers \X (1 .. BufLen))
  BY BufLenAssumption DEF Sent

\* New connections satisfy the invariant, their transmit threads started or not.
LEMMA NewInv == NewConnection /\ txPc \in [Conns -> {"none", "check"}] => Inv
  <1> SUFFICES ASSUME NewConnection, txPc \in [Conns -> {"none", "check"}] PROVE Inv
    OBVIOUS
  <1>1. TypeOK
    BY TransmitsAssumption, BufLenAssumption
    DEF NewConnection, TypeOK, TxStates, CloseStates, Buffers
  <1>2. FifoConserved
    BY DEF NewConnection, FifoConserved
  <1>3. \A c \in Conns : ThreadInv(c) /\ MissedInv(c)
    BY DEF NewConnection, ThreadInv, MissedInv
  <1> QED BY <1>1, <1>2, <1>3 DEF Inv

LEMMA InitInv == Init => Inv
  BY NewInv DEF Init

\* Every step keeps the types.
LEMMA TypeStep == Inv /\ [Next]_vars => TypeOK'
  <1> SUFFICES ASSUME Inv, [Next]_vars PROVE TypeOK'
    OBVIOUS
  <1> USE TransmitsAssumption, BufLenAssumption
  <1>1. ASSUME NEW c \in Conns, Transmit(c) PROVE TypeOK'
    <2> DEFINE b == transmitted[c] + 1
    <2>1. b \in Buffers /\ b \in 0 .. MaxTransmits
      BY <1>1 DEF Inv, TypeOK, Transmit, Buffers
    <2>2. txQueue' \in [Conns -> Seq(Buffers)]
      <3>1. Append(txQueue[c], b) \in Seq(Buffers)
        BY <2>1 DEF Inv, TypeOK
      <3> QED BY <1>1, <3>1 DEF Inv, TypeOK, Transmit
    <2>3. txLen' \in [Conns -> [Buffers -> 0 .. BufLen]]
      <3>1. txLen[c] \in [Buffers -> 0 .. BufLen] /\ BufLen \in 0 .. BufLen
        BY DEF Inv, TypeOK
      <3>2. [txLen[c] EXCEPT ![b] = BufLen] \in [Buffers -> 0 .. BufLen]
        BY <3>1
      <3> QED BY <1>1, <3>2 DEF Inv, TypeOK, Transmit
    <2>4. missed' \in [Conns -> SUBSET Buffers]
      BY <1>1, <2>1 DEF Inv, TypeOK, Transmit
    <2>5. txPc' \in [Conns -> TxStates] /\ transmitted' \in [Conns -> 0 .. MaxTransmits]
      BY <1>1, <2>1 DEF Inv, TypeOK, Transmit, NotifyAll, TxStates
    <2> QED BY <1>1, <2>2, <2>3, <2>4, <2>5 DEF Inv, TypeOK, Transmit
  <1>2. ASSUME NEW c \in Conns,
               CheckClosed(c) \/ LockAndWait(c) \/ WaitReturns(c) \/ DrainCheck(c)
                 \/ SpuriousWakeup(c)
        PROVE TypeOK'
    BY <1>2 DEF Inv, TypeOK, CheckClosed, LockAndWait, WaitReturns, DrainCheck,
                SpuriousWakeup, TxStates
  <1>3. ASSUME NEW c \in Conns, SendReturns(c) \/ SendSome(c) PROVE TypeOK'
    <2> DEFINE b == Head(txQueue[c])
    <2>1. /\ txQueue[c] \in Seq(Buffers) /\ txQueue[c] # << >>
          /\ b \in Buffers /\ Tail(txQueue[c]) \in Seq(Buffers)
          /\ txLen[c][b] \in 0 .. BufLen
      <3>1. txPc[c] = "send"
        BY <1>3 DEF SendReturns, SendAll, SendFails, SendSome
      <3>2. txQueue[c] \in Seq(Buffers) /\ txQueue[c] # << >>
        BY <3>1 DEF Inv, TypeOK, ThreadInv
      <3>3. b \in Buffers /\ Tail(txQueue[c]) \in Seq(Buffers)
        BY <3>2
      <3>4. txLen[c][b] \in 0 .. BufLen
        BY <3>3 DEF Inv, TypeOK
      <3> QED BY <3>2, <3>3, <3>4
    <2> USE DEF Outcomes
    <2>5. ASSUME NEW result \in Outcomes, PopFront(c, result)
          PROVE  /\ txQueue' \in [Conns -> Seq(Buffers)]
                 /\ outcome' \in [Conns -> Seq(Buffers \X Outcomes)]
                 /\ txPc' \in [Conns -> TxStates]
      <3>1. Append(outcome[c], <<b, result>>) \in Seq(Buffers \X Outcomes)
        BY <2>1, AppendProperties DEF Inv, TypeOK
      <3> QED BY <2>1, <2>5, <3>1 DEF Inv, TypeOK, PopFront, TxStates
    <2>6. ASSUME NEW n \in 0 .. txLen[c][b],
                 wire' = [wire EXCEPT ![c] = @ \o Sent(b, n)]
          PROVE  wire' \in [Conns -> Seq(Buffers \X (1 .. BufLen))]
      <3>0. n \in 0 .. BufLen
        BY <2>1
      <3>1. Sent(b, n) \in Seq(Buffers \X (1 .. BufLen))
        BY <2>1, <3>0, SentType
      <3>2. wire[c] \o Sent(b, n) \in Seq(Buffers \X (1 .. BufLen))
        BY <3>1, ConcatProperties DEF Inv, TypeOK
      <3> QED BY <2>6, <3>2 DEF Inv, TypeOK
    <2>2. CASE SendAll(c)
      <3>1. wire' \in [Conns -> Seq(Buffers \X (1 .. BufLen))]
        <4>1. wire' = [wire EXCEPT ![c] = @ \o Sent(b, txLen[c][b])]
          BY <2>2 DEF SendAll
        <4>2. txLen[c][b] \in 0 .. txLen[c][b]
          BY <2>1
        <4> QED BY <2>6, <4>1, <4>2
      <3>2. PopFront(c, "sent")
        BY <2>2 DEF SendAll
      <3> QED BY <2>2, <2>5, <3>1, <3>2 DEF Inv, TypeOK, SendAll
    <2>3. CASE SendFails(c)
      BY <2>3, <2>5 DEF Inv, TypeOK, SendFails
    <2>4. CASE SendSome(c)
      <3>1. PICK n \in 1 .. txLen[c][b] - 1 :
              /\ wire' = [wire EXCEPT ![c] = @ \o Sent(b, n)]
              /\ txLen' = [txLen EXCEPT ![c][b] = @ - n]
        BY <2>4 DEF SendSome
      <3>3. wire' \in [Conns -> Seq(Buffers \X (1 .. BufLen))]
        <4>1. n \in 0 .. txLen[c][b]
          BY <2>1
        <4> QED BY <2>6, <3>1, <4>1
      <3>4. txLen' \in [Conns -> [Buffers -> 0 .. BufLen]]
        <4>1. [txLen[c] EXCEPT ![b] = @ - n] \in [Buffers -> 0 .. BufLen]
          BY <2>1 DEF Inv, TypeOK
        <4> QED BY <3>1, <4>1 DEF Inv, TypeOK
      <3> QED BY <2>4, <3>3, <3>4 DEF Inv, TypeOK, SendSome
    <2> QED BY <1>3, <2>2, <2>3, <2>4 DEF SendReturns
  <1>4. ASSUME NEW c \in Conns, Close(c) \/ PeerCloses(c) PROVE TypeOK'
    BY <1>4 DEF Inv, TypeOK, Close, RaiseClose, NotifyClose, CloseSocket, JoinTransmit,
                PeerCloses, NotifyAll, txVars, TxStates, CloseStates
  <1>5. CASE UNCHANGED vars
    BY <1>5 DEF Inv, TypeOK, vars
  <1> QED BY <1>1, <1>2, <1>3, <1>4, <1>5 DEF Next, TransmitThread
-----------------------------------------------------------------------------
\* FifoConserved of one connection, as a relation of its queue, what it has
\* settled and how many buffers it was handed.
InOrder(q, o, n) ==
    /\ Len(o) + Len(q) = n
    /\ \A i \in 1 .. Len(o) : o[i][1] = i
    /\ \A i \in 1 .. Len(q) : q[i] = Len(o) + i

LEMMA FifoIsInOrder ==
    FifoConserved <=> \A c \in Conns : InOrder(txQueue[c], outcome[c], transmitted[c])
  BY DEF FifoConserved, InOrder

\* Pushing the next buffer keeps the order ...
LEMMA PushKeepsOrder ==
    ASSUME NEW S, NEW T, NEW q \in Seq(S), NEW o \in Seq(T), NEW n \in Nat,
           InOrder(q, o, n), n + 1 \in S
    PROVE  InOrder(Append(q, n + 1), o, n + 1)
  <1> DEFINE p == Append(q, n + 1)
  <1>1. Len(p) = Len(q) + 1 /\ p[Len(q) + 1] = n + 1 /\ \A i \in 1 .. Len(q) : p[i] = q[i]
    BY AppendProperties
  <1>2. Len(q) \in Nat /\ Len(o) \in Nat
    BY LenProperties
  <1> HIDE DEF p
  <1>3. /\ Len(o) + Len(p) = n + 1
        /\ \A i \in 1 .. Len(o) : o[i][1] = i
        /\ \A i \in 1 .. Len(p) : p[i] = Len(o) + i
    <2>1. /\ Len(o) + Len(q) = n
          /\ \A i \in 1 .. Len(o) : o[i][1] = i
          /\ \A i \in 1 .. Len(q) : q[i] = Len(o) + i
      BY DEF InOrder
    <2>2. Len(o) + Len(p) = n + 1
      <3>1. \A x, y \in Nat : x + y = n => x + (y + 1) = n + 1
        OBVIOUS
      <3>2. Len(o) + (Len(q) + 1) = n + 1
        BY ONLY <1>2, <2>1, <3>1
      <3> QED BY ONLY <1>1, <3>2
    <2>3. ASSUME NEW i \in 1 .. Len(p) PROVE p[i] = Len(o) + i
      <3>1. CASE i = Len(q) + 1
        BY <1>1, <1>2, <2>1, <3>1
      <3>2. CASE i # Len(q) + 1
        <4>1. i \in 1 .. Len(q)
          BY <1>1, <1>2, <3>2
        <4> QED BY <1>1, <2>1, <4>1
      <3> QED BY <3>1, <3>2
    <2> QED BY <2>1, <2>2, <2>3
  <1> QED BY <1>3 DEF InOrder, p

\* ... and so does settling the oldest.
LEMMA PopKeepsOrder ==
    ASSUME NEW S, NEW R, NEW q \in Seq(S), NEW o \in Seq(S \X R), NEW n \in Nat,
           NEW r \in R, InOrder(q, o, n), q # << >>
    PROVE  InOrder(Tail(q), Append(o, <<Head(q), r>>), n)
  <1> DEFINE p == Append(o, <<Head(q), r>>)
  <1>1. Head(q) \in S /\ Len(Tail(q)) = Len(q) - 1
        /\ \A i \in 1 .. Len(Tail(q)) : Tail(q)[i] = q[i + 1]
    BY HeadTailProperties
  <1>2. <<Head(q), r>> \in S \X R
    BY <1>1
  <1>3. Len(p) = Len(o) + 1 /\ p[Len(o) + 1] = <<Head(q), r>>
        /\ \A i \in 1 .. Len(o) : p[i] = o[i]
    BY <1>2, AppendProperties
  <1>4. Len(q) \in Nat \ {0} /\ Len(o) \in Nat /\ Head(q) = q[1]
    BY LenProperties, EmptySeq
  <1>5. Head(q) = Len(o) + 1
    BY <1>4 DEF InOrder
  <1> HIDE DEF p
  <1>6. ASSUME NEW i \in 1 .. Len(p) PROVE p[i][1] = i
    <2>1. CASE i = Len(o) + 1
      BY <1>3, <1>5, <2>1
    <2>2. CASE i # Len(o) + 1
      <3>1. i \in 1 .. Len(o)
        BY <1>3, <1>4, <2>2
      <3> QED BY <1>3, <3>1 DEF InOrder
    <2> QED BY <2>1, <2>2
  <1>7. ASSUME NEW i \in 1 .. Len(Tail(q)) PROVE Tail(q)[i] = Len(p) + i
    BY <1>1, <1>3, <1>4 DEF InOrder
  <1>8. Len(p) + Len(Tail(q)) = n
    <2>1. Len(o) + Len(q) = n
      BY DEF InOrder
    <2>2. \A x, y \in Nat : x + y = n => (x + 1) + (y - 1) = n
      OBVIOUS
    <2>3. (Len(o) + 1) + (Len(q) - 1) = n
      BY <1>4, <2>1, <2>2
    <2> QED BY <1>1, <1>3, <2>3
  <1> QED BY <1>6, <1>7, <1>8 DEF InOrder, p

\* What a step can do to the queue of a connection.
Pushes(c) ==
    /\ ~MutexHeld(c)
    /\ transmitted[c] < MaxTransmits
    /\ transmitted'[c] = transmitted[c] + 1
    /\ txQueue'[c] = Append(txQueue[c], transmitted[c] + 1)
    /\ outcome'[c] = outcome[c]

Pops(c) == \E result \in Outcomes :
    /\ txPc[c] = "send"
    /\ txPc'[c] = "drain"
    /\ transmitted'[c] = transmitted[c]
    /\ txQueue'[c] = Tail(txQueue[c])
    /\ outcome'[c] = Append(outcome[c], <<Head(txQueue[c]), result>>)

Leaves(c) == UNCHANGED <<txQueue[c], outcome[c], transmitted[c]>>

LEMMA QueueStep ==
    ASSUME TypeOK, [Next]_vars, NEW d \in Conns
    PROVE  Pushes(d) \/ Pops(d) \/ Leaves(d)
  <1>1. ASSUME NEW c \in Conns, Transmit(c) PROVE Pushes(d) \/ Leaves(d)
    BY <1>1 DEF TypeOK, Transmit, Pushes, Leaves
  <1>2. ASSUME NEW c \in Conns, SendReturns(c) PROVE Pops(d) \/ Leaves(d)
    <2>1. PICK result \in Outcomes : PopFront(c, result) /\ txPc[c] = "send"
            /\ UNCHANGED transmitted
      BY <1>2 DEF SendReturns, SendAll, SendFails, Outcomes
    <2>2. CASE c = d
      BY <2>1, <2>2 DEF TypeOK, PopFront, Pops
    <2>3. CASE c # d
      BY <2>1, <2>3 DEF TypeOK, PopFront, Leaves
    <2> QED BY <2>2, <2>3
  <1>3. ASSUME NEW c \in Conns,
               CheckClosed(c) \/ LockAndWait(c) \/ WaitReturns(c) \/ DrainCheck(c)
                 \/ SpuriousWakeup(c) \/ SendSome(c) \/ Close(c) \/ PeerCloses(c)
        PROVE Leaves(d)
    BY <1>3 DEF CheckClosed, LockAndWait, WaitReturns, DrainCheck, SpuriousWakeup,
                SendSome, Close, RaiseClose, NotifyClose, CloseSocket, JoinTransmit,
                PeerCloses, txVars, Leaves
  <1>4. CASE UNCHANGED vars
    BY <1>4 DEF vars, Leaves
  <1> QED BY <1>1, <1>2, <1>3, <1>4 DEF Next, TransmitThread

\* Every step keeps the buffers in order, none lost and none settled twice.
LEMMA FifoStep == Inv /\ [Next]_vars => FifoConserved'
  <1> SUFFICES ASSUME Inv, [Next]_vars, NEW d \in Conns
               PROVE  InOrder(txQueue[d], outcome[d], transmitted[d])'
    BY DEF FifoConserved, InOrder
  <1>1. /\ txQueue[d] \in Seq(Buffers) /\ outcome[d] \in Seq(Buffers \X Outcomes)
        /\ transmitted[d] \in Nat
        /\ InOrder(txQueue[d], outcome[d], transmitted[d])
    BY TransmitsAssumption, FifoIsInOrder DEF Inv, TypeOK
  <1>2. CASE Pushes(d)
    <2>1. transmitted[d] + 1 \in Buffers
      BY <1>1, <1>2, TransmitsAssumption DEF Pushes, Buffers
    <2> QED BY <1>1, <1>2, <2>1, PushKeepsOrder DEF Pushes
  <1>3. CASE Pops(d)
    <2>1. txQueue[d] # << >>
      BY <1>3 DEF Inv, ThreadInv, Pops
    <2> QED BY <1>1, <1>3, <2>1, PopKeepsOrder DEF Pops
  <1>4. CASE Leaves(d)
    BY <1>1, <1>4 DEF Leaves
  <1> QED BY <1>2, <1>3, <1>4, QueueStep DEF Inv
-----------------------------------------------------------------------------
LEMMA ThreadStep ==
    ASSUME Inv, [Next]_vars, NEW d \in Conns
    PROVE  ThreadInv(d)'
  <1>0. TypeOK /\ ThreadInv(d)
    BY DEF Inv
  <1>1. ASSUME NEW c \in Conns, Transmit(c) PROVE ThreadInv(d)'
    <2>1. txQueue[d] \in Seq(Buffers) /\ transmitted[d] + 1 \in Nat
      BY <1>0, TransmitsAssumption DEF TypeOK
    <2>2. txQueue'[d] = txQueue[d] \/ txPc'[d] # "send"
      BY <1>0, <1>1 DEF TypeOK, Transmit, NotifyAll, MutexHeld
    <2>3. UNCHANGED <<closePc, closeConnection>>
      BY <1>1 DEF Transmit
    <2>4. /\ txPc'[d] = "send" <=> txPc[d] = "send"
          /\ txPc'[d] = "exited" <=> txPc[d] = "exited"
      BY <1>0, <1>1 DEF TypeOK, Transmit, NotifyAll
    <2> QED BY <1>0, <2>2, <2>3, <2>4 DEF ThreadInv
  <1>2. ASSUME NEW c \in Conns,
               CheckClosed(c) \/ LockAndWait(c) \/ WaitReturns(c) \/ DrainCheck(c)
                 \/ SpuriousWakeup(c)
        PROVE ThreadInv(d)'
    <2>1. UNCHANGED <<txQueue, closeConnection, closePc>>
      BY <1>2 DEF CheckClosed, LockAndWait, WaitReturns, DrainCheck, SpuriousWakeup
    <2>2. CASE c # d
      <3>1. txPc'[d] = txPc[d]
        BY <1>0, <1>2, <2>2 DEF TypeOK, CheckClosed, LockAndWait, WaitReturns,
                                DrainCheck, SpuriousWakeup
      <3> QED BY <1>0, <2>1, <3>1 DEF ThreadInv
    <2>3. CASE c = d
      <3>1. CASE CheckClosed(c)
        BY <1>0, <2>1, <2>3, <3>1 DEF TypeOK, ThreadInv, CheckClosed
      <3>2. CASE LockAndWait(c) \/ WaitReturns(c) \/ SpuriousWakeup(c)
        BY <1>0, <2>1, <2>3, <3>2 DEF TypeOK, ThreadInv, LockAndWait, WaitReturns,
                                      SpuriousWakeup
      <3>3. CASE DrainCheck(c)
        BY <1>0, <2>1, <2>3, <3>3 DEF TypeOK, ThreadInv, DrainCheck
      <3> QED BY <1>2, <3>1, <3>2, <3>3
    <2> QED BY <2>2, <2>3
  <1>3. ASSUME NEW c \in Conns, SendReturns(c) PROVE ThreadInv(d)'
    <2>1. PICK result \in Outcomes : PopFront(c, result) /\ txPc[c] = "send"
            /\ UNCHANGED <<closePc, closeConnection>>
      BY <1>3 DEF SendReturns, SendAll, SendFails, Outcomes
    <2>2. CASE c = d
      BY <1>0, <2>1, <2>2 DEF TypeOK, ThreadInv, PopFront
    <2>3. CASE c # d
      BY <1>0, <2>1, <2>3 DEF TypeOK, ThreadInv, PopFront
    <2> QED BY <2>2, <2>3
  <1>4. ASSUME NEW c \in Conns, SendSome(c) PROVE ThreadInv(d)'
    BY <1>0, <1>4 DEF ThreadInv, SendSome
  <1>5. ASSUME NEW c \in Conns, Close(c) PROVE ThreadInv(d)'
    BY <1>0, <1>5 DEF TypeOK, ThreadInv, Close, RaiseClose, NotifyClose, CloseSocket,
                      JoinTransmit, NotifyAll, txVars
  <1>6. ASSUME NEW c \in Conns, PeerCloses(c) PROVE ThreadInv(d)'
    BY <1>0, <1>6 DEF ThreadInv, PeerCloses, txVars
  <1>7. CASE UNCHANGED vars
    BY <1>0, <1>7 DEF ThreadInv, vars
  <1> QED BY <1>1, <1>2, <1>3, <1>4, <1>5, <1>6, <1>7 DEF Next, TransmitThread

\* The transmit thread comes to the check of _closeConnection from an empty
\* queue, and what is pushed before it waits is recorded as missed.
LEMMA MissedStep ==
    ASSUME Inv, [Next]_vars, NEW d \in Conns
    PROVE  MissedInv(d)'
  <1>0. TypeOK /\ ThreadInv(d) /\ MissedInv(d)
    BY DEF Inv
  <1>1. ASSUME NEW c \in Conns, Transmit(c) PROVE MissedInv(d)'
    <2> DEFINE b == transmitted[c] + 1
    <2>1. CASE c # d
      BY <1>0, <1>1, <2>1 DEF TypeOK, MissedInv, Transmit, NotifyAll
    <2>2. CASE c = d
      <3>0. /\ txQueue'[d] = Append(txQueue[d], b)
            /\ closeConnection'[d] = closeConnection[d]
            /\ txPc'[d] \in {"none", "check", "lock", "waiting"} =>
                 txPc[d] \in {"none", "check", "lock"} /\ missed'[d] = missed[d] \cup {b}
        BY <1>0, <1>1, <2>2 DEF TypeOK, Transmit, NotifyAll
      <3> SUFFICES ASSUME txPc[d] \in {"none", "check", "lock"}, ~closeConnection[d],
                          NEW i \in 1 .. Len(Append(txQueue[d], b))
                   PROVE  Append(txQueue[d], b)[i] \in missed[d] \cup {b}
        BY <3>0 DEF MissedInv
      <3>1. txQueue[d] \in Seq(Buffers) /\ b \in Buffers
        <4>1. /\ transmitted[d] \in 0 .. MaxTransmits
              /\ transmitted[d] < MaxTransmits
          BY <1>0, <1>1, <2>2 DEF TypeOK, Transmit
        <4> QED BY <1>0, <2>2, <4>1, TransmitsAssumption DEF TypeOK, Buffers
      <3>2. CASE i \in 1 .. Len(txQueue[d])
        <4>1. Append(txQueue[d], b)[i] = txQueue[d][i]
          BY <3>1, <3>2, AppendProperties
        <4>2. txQueue[d][i] \in missed[d]
          BY <1>0, <3>2 DEF MissedInv
        <4> QED BY <4>1, <4>2
      <3>3. CASE i \notin 1 .. Len(txQueue[d])
        <4>1. /\ Len(Append(txQueue[d], b)) = Len(txQueue[d]) + 1
              /\ Append(txQueue[d], b)[Len(txQueue[d]) + 1] = b
              /\ Len(txQueue[d]) \in Nat
          BY <3>1, AppendProperties, LenProperties
        <4>2. i = Len(txQueue[d]) + 1
          BY <3>3, <4>1
        <4> QED BY <4>1, <4>2
      <3> QED BY <3>2, <3>3
    <2> QED BY <2>1, <2>2
  <1>2. ASSUME NEW c \in Conns,
               CheckClosed(c) \/ LockAndWait(c) \/ WaitReturns(c) \/ SpuriousWakeup(c)
        PROVE MissedInv(d)'
    BY <1>0, <1>2 DEF TypeOK, MissedInv, CheckClosed, LockAndWait, WaitReturns,
                      SpuriousWakeup
  <1>3. ASSUME NEW c \in Conns, DrainCheck(c) PROVE MissedInv(d)'
    <2>1. CASE c = d /\ txQueue[d] = << >>
      <3>1. Len(txQueue'[d]) = 0
        BY <1>3, <2>1 DEF DrainCheck
      <3> QED BY <3>1 DEF MissedInv
    <2>2. CASE c # d \/ txQueue[d] # << >>
      BY <1>0, <1>3, <2>2 DEF TypeOK, MissedInv, DrainCheck
    <2> QED BY <2>1, <2>2
  <1>4. ASSUME NEW c \in Conns, SendReturns(c) PROVE MissedInv(d)'
    BY <1>0, <1>4 DEF TypeOK, MissedInv, SendReturns, SendAll, SendFails, PopFront
  <1>5. ASSUME NEW c \in Conns, SendSome(c) PROVE MissedInv(d)'
    BY <1>0, <1>5 DEF MissedInv, SendSome
  <1>6. ASSUME NEW c \in Conns, Close(c) PROVE MissedInv(d)'
    <2>1. CASE NotifyClose(c)
      BY <1>0, <2>1 DEF TypeOK, MissedInv, NotifyClose, NotifyAll
    <2>2. CASE RaiseClose(c)
      BY <1>0, <2>2 DEF TypeOK, MissedInv, RaiseClose, txVars
    <2>3. CASE CloseSocket(c) \/ JoinTransmit(c)
      BY <1>0, <2>3 DEF MissedInv, CloseSocket, JoinTransmit, txVars
    <2> QED BY <1>6, <2>1, <2>2, <2>3 DEF Close
  <1>7. ASSUME NEW c \in Conns, PeerCloses(c) PROVE MissedInv(d)'
    BY <1>0, <1>7 DEF MissedInv, PeerCloses, txVars
  <1>8. CASE UNCHANGED vars
    BY <1>0, <1>8 DEF MissedInv, vars
  <1> QED BY <1>1, <1>2, <1>3, <1>4, <1>5, <1>6, <1>7, <1>8 DEF Next, TransmitThread

LEMMA StepInv == Inv /\ [Next]_vars => Inv'
  <1> SUFFICES ASSUME Inv, [Next]_vars PROVE Inv'
    OBVIOUS
  <1>1. TypeOK' /\ FifoConserved'
    BY TypeStep, FifoStep
  <1>2. \A c \in Conns : ThreadInv(c)' /\ MissedInv(c)'
    BY ThreadStep, MissedStep
  <1> QED BY <1>1, <1>2 DEF Inv
-----------------------------------------------------------------------------
\* The invariant holds throughout.
THEOREM Invariance == Spec => []Inv
  <1>1. Init => Inv
    BY InitInv
  <1>2. Inv /\ [Next]_vars => Inv'
    BY StepInv
  <1> QED BY <1>1, <1>2, PTL DEF Spec

\* TransmitThread(), Transmit() and Close() keep every variable in its type.
THEOREM TypeCorrect == Spec => []TypeOK
  <1>1. Inv => TypeOK
    BY DEF Inv
  <1> QED BY <1>1, Invariance, PTL

\* No buffer handed to Transmit() is lost, settled twice or overtaken, however
\* many callers and whatever the network does to send().
THEOREM FifoTheorem == Spec => []FifoConserved
  <1>1. Inv => FifoConserved
    BY DEF Inv
  <1> QED BY <1>1, Invariance, PTL

\* The transmit thread never sleeps over a buffer it was told of.
THEOREM BacklogTheorem == Spec => []BacklogWasMissed
  <1>1. Inv => BacklogWasMissed
    BY DEF Inv, MissedInv, BacklogWasMissed
  <1> QED BY <1>1, Invariance, PTL

\* When Close() has returned the transmit thread is gone for good.
THEOREM QuietTheorem == Spec => QuietAfterClose
  <1> DEFINE Quiet(d) == wire'[d] = wire[d] /\ outcome'[d] = outcome[d] /\ txPc'[d] = txPc[d]
  <1>1. ASSUME Inv, Next, NEW d \in Conns, closePc[d] = "closed" PROVE Quiet(d)
    <2>0. TypeOK /\ txPc[d] = "exited"
      BY <1>1 DEF Inv, ThreadInv
    <2>1. ASSUME NEW c \in Conns, Transmit(c) PROVE Quiet(d)
      BY <2>0, <2>1 DEF TypeOK, Transmit, NotifyAll
    <2>2. ASSUME NEW c \in Conns, CheckClosed(c) \/ LockAndWait(c) \/ WaitReturns(c)
                                    \/ DrainCheck(c) \/ SpuriousWakeup(c)
          PROVE  Quiet(d)
      BY <2>0, <2>2 DEF TypeOK, CheckClosed, LockAndWait, WaitReturns, DrainCheck,
                        SpuriousWakeup
    <2>3. ASSUME NEW c \in Conns, SendReturns(c) \/ SendSome(c) PROVE Quiet(d)
      <3>1. c # d
        BY <2>0, <2>3 DEF SendReturns, SendAll, SendSome, SendFails
      <3> QED BY <2>0, <2>3, <3>1 DEF TypeOK, SendReturns, SendAll, SendSome, SendFails,
                                      PopFront
    <2>4. ASSUME NEW c \in Conns, Close(c) \/ PeerCloses(c) PROVE Quiet(d)
      BY <2>0, <2>4 DEF TypeOK, Close, RaiseClose, NotifyClose, CloseSocket,
                        JoinTransmit, PeerCloses, NotifyAll, txVars
    <2> QED BY <1>1, <2>1, <2>2, <2>3, <2>4 DEF Next, TransmitThread
  <1> DEFINE Closed == \A c \in Conns : closePc[c] = "closed" =>
                          UNCHANGED <<wire[c], outcome[c], txPc[c]>>
  <1>2. Inv /\ Next => Closed
    BY <1>1
  <1> HIDE DEF Closed
  <1>3. Inv /\ [Next]_vars => [Closed]_vars
    BY <1>2
  <1> USE DEF Closed
  <1> QED BY <1>3, Invariance, PTL DEF Spec, QuietAfterClose

-----------------------------------------------------------------------------
(* The bytes on the wire *)

BytesIn(w, b) == Cardinality({i \in 1 .. Len(w) : w[i][1] = b})

\* A send() puts n bytes of one buffer behind what is there ...
LEMMA SentAtEnd ==
    ASSUME NEW w \in Seq(Buffers \X (1 .. BufLen)), NEW b \in Buffers, NEW n \in 0 .. BufLen
    PROVE  /\ Len(w) \in Nat /\ Len(w \o Sent(b, n)) = Len(w) + n
           /\ \A i \in 1 .. Len(w) : (w \o Sent(b, n))[i] = w[i]
           /\ \A i \in Len(w) + 1 .. Len(w) + n : (w \o Sent(b, n))[i][1] = b
  <1>1. /\ Sent(b, n) \in Seq(Buffers \X (1 .. BufLen))
        /\ Len(Sent(b, n)) = n
        /\ \A i \in 1 .. n : Sent(b, n)[i][1] = b
    <2>1. n \in Nat
      BY BufLenAssumption
    <2> QED BY <2>1, SentType DEF Sent
  <1>2. n \in Nat /\ Len(w) \in Nat
    BY BufLenAssumption, LenProperties
  <1>3. /\ Len(w \o Sent(b, n)) = Len(w) + n
        /\ \A i \in 1 .. Len(w) + n : (w \o Sent(b, n))[i] =
             IF i <= Len(w) THEN w[i] ELSE Sent(b, n)[i - Len(w)]
    BY ZenonT(30), <1>1, ConcatProperties
  <1>4. ASSUME NEW i \in Len(w) + 1 .. Len(w) + n PROVE (w \o Sent(b, n))[i][1] = b
    <2>1. i \in 1 .. Len(w) + n /\ ~(i <= Len(w)) /\ i - Len(w) \in 1 .. n
      BY <1>2
    <2>2. (w \o Sent(b, n))[i] = Sent(b, n)[i - Len(w)]
      BY <1>3, <2>1
    <2> QED BY <1>1, <2>1, <2>2
  <1>5. ASSUME NEW i \in 1 .. Len(w) PROVE (w \o Sent(b, n))[i] = w[i]
    <2>1. i \in 1 .. Len(w) + n /\ i <= Len(w)
      BY <1>2
    <2> QED BY <1>3, <2>1
  <1> QED BY <1>2, <1>3, <1>4, <1>5

\* ... and adds n to the bytes of that buffer, none to those of another.
LEMMA SentCounts ==
    ASSUME NEW w \in Seq(Buffers \X (1 .. BufLen)), NEW b \in Buffers, NEW n \in 0 .. BufLen
    PROVE  /\ \A d : BytesIn(w, d) \in Nat
           /\ BytesIn(w \o Sent(b, n), b) = BytesIn(w, b) + n
           /\ \A d : d # b => BytesIn(w \o Sent(b, n), d) = BytesIn(w, d)
  <1> DEFINE v == w \o Sent(b, n)
             of(d) == {i \in 1 .. Len(w) : w[i][1] = d}
             new == Len(w) + 1 .. Len(w) + n
  <1>1. /\ Len(w) \in Nat /\ n \in Nat /\ Len(v) = Len(w) + n
        /\ \A i \in 1 .. Len(w) : v[i] = w[i]
        /\ \A i \in new : v[i][1] = b
    <2>1. n \in Nat
      BY BufLenAssumption
    <2>2. /\ Len(w) \in Nat /\ Len(v) = Len(w) + n
          /\ \A i \in 1 .. Len(w) : v[i] = w[i]
          /\ \A i \in new : v[i][1] = b
      BY SentAtEnd, Zenon
    <2> QED BY <2>1, <2>2
  <1>2. \A d : IsFiniteSet(of(d)) /\ Cardinality(of(d)) \in Nat
    <2>1. IsFiniteSet(1 .. Len(w))
      BY <1>1, FS_Interval
    <2>2. ASSUME NEW d PROVE IsFiniteSet(of(d)) /\ Cardinality(of(d)) \in Nat
      <3>1. of(d) \in SUBSET (1 .. Len(w))
        OBVIOUS
      <3>2. IsFiniteSet(of(d))
        BY <2>1, <3>1, FS_Subset
      <3> QED BY <3>2, FS_CardinalityType
    <2> QED BY <2>2
  <1>3. IsFiniteSet(new) /\ Cardinality(new) = n
    BY <1>1, FS_Interval
  <1>4. 1 .. Len(v) = (1 .. Len(w)) \cup new /\ (1 .. Len(w)) \cap new = {}
    BY <1>1
  <1> HIDE DEF v, new
  <1>5. {i \in 1 .. Len(v) : v[i][1] = b} = of(b) \cup new /\ of(b) \cap new = {}
    BY <1>1, <1>4
  <1>6. Cardinality(of(b) \cup new) = Cardinality(of(b)) + n
    <2>1. Cardinality({}) = 0
      BY FS_EmptySet
    <2> HIDE DEF of
    <2>2. Cardinality(of(b) \cup new)
            = Cardinality(of(b)) + Cardinality(new) - Cardinality(of(b) \cap new)
      BY <1>2, <1>3, FS_Union
    <2>3. Cardinality(of(b) \cap new) = 0
      BY <1>5, <2>1, Zenon
    <2> QED BY <1>1, <1>2, <1>3, <2>2, <2>3
  <1>7. ASSUME NEW d, d # b PROVE {i \in 1 .. Len(v) : v[i][1] = d} = of(d)
    BY <1>1, <1>4, <1>7
  <1> QED BY <1>2, <1>5, <1>6, <1>7 DEF BytesIn, v

\* WireKeepsCountAndOrder of one connection, and what makes it inductive: only
\* buffers that were handed in and are settled or at the head have bytes there.
OnWire(w, o, q, len, n) ==
    /\ \A i, j \in 1 .. Len(w) : i < j => w[i][1] <= w[j][1]
    /\ \A i \in 1 .. Len(w) : w[i][1] <= Len(o) + 1 /\ w[i][1] <= n
    /\ \A i \in 1 .. Len(o) : o[i][2] = "sent" => BytesIn(w, o[i][1]) = BufLen
    /\ \A i \in 1 .. Len(q) : BytesIn(w, q[i]) = BufLen - len[q[i]]

WireInv(c) == OnWire(wire[c], outcome[c], txQueue[c], txLen[c], transmitted[c])

LEMMA WireInvIsProperty ==
    (\A c \in Conns : WireInv(c)) => WireKeepsCountAndOrder
  BY DEF WireInv, OnWire, WireKeepsCountAndOrder, BytesOf, BytesIn

\* The buffers are numbers.
LEMMA WireOfNat ==
    ASSUME NEW w \in Seq(Buffers \X (1 .. BufLen)), NEW i \in 1 .. Len(w)
    PROVE  w[i][1] \in Buffers /\ w[i][1] \in Nat
  <1>1. w[i] \in Buffers \X (1 .. BufLen)
    BY ElementOfSeq
  <1> QED BY <1>1, TransmitsAssumption DEF Buffers

\* Nothing on the wire is of a buffer not yet handed in.
LEMMA WirePush ==
    ASSUME NEW w \in Seq(Buffers \X (1 .. BufLen)), NEW o, NEW q \in Seq(Buffers),
           NEW len \in [Buffers -> 0 .. BufLen], NEW n \in Nat, n + 1 \in Buffers,
           InOrder(q, o, n), OnWire(w, o, q, len, n), Len(o) \in Nat
    PROVE  OnWire(w, o, Append(q, n + 1), [len EXCEPT ![n + 1] = BufLen], n + 1)
  <1> DEFINE p == Append(q, n + 1)
             new == [len EXCEPT ![n + 1] = BufLen]
  <1>1. Len(p) = Len(q) + 1 /\ p[Len(q) + 1] = n + 1 /\ \A i \in 1 .. Len(q) : p[i] = q[i]
    BY AppendProperties
  <1>2. Len(q) \in Nat /\ Len(w) \in Nat /\ \A i \in 1 .. Len(w) : w[i][1] \in Nat
    BY SMTT(30), LenProperties, ElementOfSeq, TransmitsAssumption DEF Buffers
  <1>3. Len(o) + Len(q) = n /\ \A i \in 1 .. Len(q) : q[i] = Len(o) + i
    BY DEF InOrder
  <1>4. \A i \in 1 .. Len(q) : q[i] # n + 1 /\ q[i] \in Buffers
    <2> SUFFICES ASSUME NEW i \in 1 .. Len(q) PROVE q[i] # n + 1 /\ q[i] \in Buffers
      OBVIOUS
    <2>1. q[i] = Len(o) + i
      BY <1>3
    <2>2. \A x, y, z \in Nat : x + y = n /\ z \in 1 .. y => x + z # n + 1
      OBVIOUS
    <2> QED BY <1>2, <1>3, <2>1, <2>2, ElementOfSeq
  <1>5. BytesIn(w, n + 1) = 0
    <2>1. {i \in 1 .. Len(w) : w[i][1] = n + 1} = {}
      BY SMTT(30), <1>2 DEF OnWire
    <2> QED BY <2>1, FS_EmptySet DEF BytesIn
  <1>6. ASSUME NEW i \in 1 .. Len(p) PROVE BytesIn(w, p[i]) = BufLen - new[p[i]]
    <2>1. CASE i \in 1 .. Len(q)
      <3>1. p[i] = q[i] /\ new[q[i]] = len[q[i]]
        BY <1>1, <1>4, <2>1
      <3>2. BytesIn(w, q[i]) = BufLen - len[q[i]]
        BY <2>1 DEF OnWire
      <3> QED BY <3>1, <3>2
    <2>2. CASE i = Len(q) + 1
      <3>1. p[i] = n + 1 /\ new[n + 1] = BufLen
        BY <1>1, <2>2
      <3> QED BY <1>5, <3>1, BufLenAssumption
    <2> QED BY <1>1, <1>2, <2>1, <2>2
  <1>7. \A i \in 1 .. Len(w) : w[i][1] <= n + 1
    BY SMTT(30), <1>2 DEF OnWire
  <1> HIDE DEF p, new
  <1>8. OnWire(w, o, p, new, n + 1)
    BY <1>6, <1>7 DEF OnWire
  <1> QED BY <1>8 DEF p, new

\* A send() of k bytes of the head.
LEMMA WireSend ==
    ASSUME NEW w \in Seq(Buffers \X (1 .. BufLen)), NEW o, NEW q, NEW len, NEW n \in Nat,
           NEW b \in Buffers, b = Len(o) + 1, b <= n, NEW k \in 0 .. BufLen,
           OnWire(w, o, q, len, n)
    PROVE  /\ \A i, j \in 1 .. Len(w \o Sent(b, k)) :
                i < j => (w \o Sent(b, k))[i][1] <= (w \o Sent(b, k))[j][1]
           /\ \A i \in 1 .. Len(w \o Sent(b, k)) : (w \o Sent(b, k))[i][1] <= b
  <1> DEFINE v == w \o Sent(b, k)
  <1>1. Len(w) \in Nat /\ k \in Nat /\ b \in Nat
        /\ \A i \in 1 .. Len(w) : w[i][1] \in Nat
    BY SMTT(30), LenProperties, ElementOfSeq, BufLenAssumption, TransmitsAssumption DEF Buffers
  <1>2. /\ Len(v) = Len(w) + k
        /\ \A i \in 1 .. Len(w) : v[i] = w[i]
        /\ \A i \in Len(w) + 1 .. Len(w) + k : v[i][1] = b
    <2>1. w \in Seq(Buffers \X (1 .. BufLen)) /\ b \in Buffers /\ k \in 0 .. BufLen
      OBVIOUS
    <2> QED BY ONLY <2>1, SentAtEnd
  <1> HIDE DEF v
  <1>3. \A i \in 1 .. Len(w) : w[i][1] <= b
    BY DEF OnWire
  <1>4. ASSUME NEW i \in 1 .. Len(v)
        PROVE  \/ i \in 1 .. Len(w) /\ v[i][1] = w[i][1]
               \/ i \in Len(w) + 1 .. Len(w) + k /\ v[i][1] = b
    BY <1>1, <1>2
  <1>5. \A i \in 1 .. Len(v) : v[i][1] <= b
    BY <1>1, <1>3, <1>4
  <1>6. ASSUME NEW i \in 1 .. Len(v), NEW j \in 1 .. Len(v), i < j
        PROVE  v[i][1] <= v[j][1]
    <2>1. CASE j \in 1 .. Len(w)
      <3>1. i \in 1 .. Len(w)
        BY <1>1, <1>6, <2>1
      <3> QED BY <1>2, <1>6, <2>1, <3>1 DEF OnWire
    <2>2. CASE v[j][1] = b
      BY <1>5, <2>2
    <2> QED BY <1>4, <2>1, <2>2
  <1> QED BY <1>5, <1>6 DEF v

\* What each step does to the relation of a connection's bytes to its buffers.
WireSame(d) == UNCHANGED <<wire[d], outcome[d], txQueue[d], txLen[d], transmitted[d]>>

LEMMA WireStep ==
    ASSUME Inv, [Next]_vars, NEW d \in Conns, WireInv(d)
    PROVE  WireInv(d)'
  <1> USE TransmitsAssumption, BufLenAssumption
  <1>0. /\ wire[d] \in Seq(Buffers \X (1 .. BufLen)) /\ txQueue[d] \in Seq(Buffers)
        /\ outcome[d] \in Seq(Buffers \X Outcomes) /\ Len(outcome[d]) \in Nat
        /\ txLen[d] \in [Buffers -> 0 .. BufLen] /\ transmitted[d] \in Nat
        /\ InOrder(txQueue[d], outcome[d], transmitted[d])
        /\ OnWire(wire[d], outcome[d], txQueue[d], txLen[d], transmitted[d])
    BY FifoIsInOrder, LenProperties DEF Inv, TypeOK, WireInv
  <1>1. CASE Transmit(d)
    <2>1. transmitted[d] + 1 \in Buffers
      <3>1. transmitted[d] < MaxTransmits
        BY <1>1 DEF Transmit
      <3> QED BY <1>0, <3>1 DEF Buffers
    <2>2. OnWire(wire[d], outcome[d], Append(txQueue[d], transmitted[d] + 1),
                 [txLen[d] EXCEPT ![transmitted[d] + 1] = BufLen], transmitted[d] + 1)
      BY <1>0, <2>1, WirePush
    <2>3. /\ wire'[d] = wire[d] /\ outcome'[d] = outcome[d]
          /\ txQueue'[d] = Append(txQueue[d], transmitted[d] + 1)
          /\ txLen'[d] = [txLen[d] EXCEPT ![transmitted[d] + 1] = BufLen]
          /\ transmitted'[d] = transmitted[d] + 1
      BY <1>1 DEF Inv, TypeOK, Transmit
    <2> QED BY <2>2, <2>3 DEF WireInv
  <1> DEFINE b == Head(txQueue[d])
  <1>2. ASSUME txPc[d] = "send"
        PROVE  /\ b \in Buffers /\ b = Len(outcome[d]) + 1 /\ b <= transmitted[d]
               /\ Len(txQueue[d]) \in Nat \ {0} /\ b = txQueue[d][1]
               /\ txLen[d][b] \in 0 .. BufLen /\ BytesIn(wire[d], b) = BufLen - txLen[d][b]
    <2>1. txQueue[d] # << >>
      BY <1>2 DEF Inv, ThreadInv
    <2>2. b \in Buffers /\ b = txQueue[d][1] /\ Len(txQueue[d]) \in Nat \ {0}
      BY <1>0, <2>1, HeadTailProperties, EmptySeq
    <2>3. b = Len(outcome[d]) + 1 /\ Len(outcome[d]) + Len(txQueue[d]) = transmitted[d]
      <3>1. 1 \in 1 .. Len(txQueue[d])
        BY <2>2
      <3> QED BY <1>0, <2>2, <3>1 DEF InOrder
    <2>4. \A x, y, z \in Nat : x + y = z /\ y # 0 => x + 1 <= z
      OBVIOUS
    <2>5. b <= transmitted[d]
      BY <1>0, <2>2, <2>3, <2>4
    <2>6. BytesIn(wire[d], b) = BufLen - txLen[d][b]
      BY <1>0, <2>2 DEF OnWire
    <2> QED BY <1>0, <2>2, <2>3, <2>5, <2>6
  <1> HIDE DEF b
  <1>3. ASSUME NEW result \in Outcomes, NEW w, PopFront(d, result), txPc[d] = "send",
               wire'[d] = w, UNCHANGED <<txLen, transmitted>>,
               \A i, j \in 1 .. Len(w) : i < j => w[i][1] <= w[j][1],
               \A i \in 1 .. Len(w) : w[i][1] \in Nat /\ w[i][1] <= b,
               \A x \in Buffers : x # b => BytesIn(w, x) = BytesIn(wire[d], x),
               result = "sent" => BytesIn(w, b) = BufLen
        PROVE  WireInv(d)'
    <2> DEFINE q == Tail(txQueue[d])
               o == Append(outcome[d], <<b, result>>)
    <2>1. txQueue'[d] = q /\ outcome'[d] = o
      BY <1>3 DEF Inv, TypeOK, PopFront, b
    <2>2. /\ Len(o) = Len(outcome[d]) + 1 /\ o[Len(outcome[d]) + 1] = <<b, result>>
          /\ \A i \in 1 .. Len(outcome[d]) : o[i] = outcome[d][i]
      BY <1>0, <1>2, <1>3, AppendProperties
    <2>3. /\ Len(q) = Len(txQueue[d]) - 1
          /\ \A i \in 1 .. Len(q) : q[i] = txQueue[d][i + 1]
      BY <1>0, <1>2, <1>3, EmptySeq, HeadTailProperties
    <2> HIDE DEF q, o
    <2>4. ASSUME NEW i \in 1 .. Len(o), o[i][2] = "sent" PROVE BytesIn(w, o[i][1]) = BufLen
      <3>1. CASE i = Len(outcome[d]) + 1
        BY <1>3, <2>2, <2>4, <3>1
      <3>2. CASE i # Len(outcome[d]) + 1
        <4>1. i \in 1 .. Len(outcome[d]) /\ o[i] = outcome[d][i]
          <5>1. i \in 1 .. Len(outcome[d])
            BY <1>0, <2>2, <3>2
          <5> QED BY <2>2, <5>1
        <4>2. outcome[d][i] \in Buffers \X Outcomes /\ outcome[d][i][1] = i
          BY <1>0, <4>1, ElementOfSeq DEF InOrder
        <4>3. i \in Buffers /\ i # b
          BY <1>0, <1>2, <1>3, <3>2, <4>2
        <4> QED BY <1>0, <1>3, <2>4, <4>1, <4>2, <4>3 DEF OnWire
      <3> QED BY <3>1, <3>2
    <2>5. ASSUME NEW i \in 1 .. Len(q) PROVE BytesIn(w, q[i]) = BufLen - txLen[d][q[i]]
      <3>1. i + 1 \in 1 .. Len(txQueue[d]) /\ q[i] = txQueue[d][i + 1]
        BY <1>2, <1>3, <2>3
      <3>2. q[i] \in Buffers /\ q[i] = Len(outcome[d]) + (i + 1)
        BY <1>0, <3>1, ElementOfSeq DEF InOrder
      <3>3. \A x \in Nat : x + (i + 1) # x + 1
        BY <1>2, <1>3, <2>3
      <3>4. q[i] # b
        BY <1>0, <1>2, <1>3, <3>2, <3>3
      <3> QED BY <1>0, <1>3, <3>1, <3>2, <3>4 DEF OnWire
    <2>6. \A i \in 1 .. Len(w) : w[i][1] <= Len(o) + 1 /\ w[i][1] <= transmitted[d]
      <3>1. b \in Nat /\ b = Len(outcome[d]) + 1 /\ b <= transmitted[d]
        BY <1>2, <1>3 DEF Buffers
      <3>2. Len(o) + 1 = b + 1
        BY <2>2, <3>1
      <3>3. \A x \in Nat : x <= b => x <= b + 1 /\ x <= transmitted[d]
        BY <1>0, <3>1
      <3> QED BY <1>3, <3>2, <3>3
    <2> QED BY <1>3, <2>1, <2>4, <2>5, <2>6 DEF WireInv, OnWire
  <1>4. CASE SendAll(d)
    <2>1. txPc[d] = "send" /\ PopFront(d, "sent") /\ "sent" \in Outcomes
          /\ UNCHANGED <<txLen, transmitted>>
      BY <1>4 DEF SendAll, Outcomes
    <2> DEFINE n == txLen[d][b]
               w == wire[d] \o Sent(b, n)
    <2>2. wire'[d] = w
      BY <1>4 DEF Inv, TypeOK, SendAll, b
    <2>3. n \in 0 .. BufLen
      BY <1>2, <2>1
    <2>4. /\ \A i, j \in 1 .. Len(w) : i < j => w[i][1] <= w[j][1]
          /\ \A i \in 1 .. Len(w) : w[i][1] <= b
      BY <1>0, <1>2, <2>1, <2>3, WireSend
    <2>5. /\ \A x : BytesIn(wire[d], x) \in Nat
          /\ BytesIn(w, b) = BytesIn(wire[d], b) + n
          /\ \A x : x # b => BytesIn(w, x) = BytesIn(wire[d], x)
      BY <1>0, <1>2, <2>1, <2>3, SentCounts
    <2>6. \A i \in 1 .. Len(w) : w[i][1] \in Nat
      <3>1. w \in Seq(Buffers \X (1 .. BufLen))
        BY <1>0, <1>2, <2>1, <2>3, SentType, ConcatProperties
      <3> QED BY <3>1, WireOfNat
    <2> HIDE DEF w
    <2>7. BytesIn(w, b) = BufLen
      BY <1>2, <2>1, <2>3, <2>5
    <2> QED BY <1>3, <2>1, <2>2, <2>4, <2>5, <2>6, <2>7
  <1>5. CASE SendFails(d)
    <2>1. txPc[d] = "send" /\ PopFront(d, "dropped") /\ "dropped" \in Outcomes
          /\ wire'[d] = wire[d] /\ UNCHANGED <<txLen, transmitted>>
      BY <1>5 DEF SendFails, Outcomes
    <2>2. \A i \in 1 .. Len(wire[d]) : wire[d][i][1] \in Nat /\ wire[d][i][1] <= b
      <3>1. b = Len(outcome[d]) + 1
        BY <1>2, <2>1
      <3> QED BY <1>0, <3>1, WireOfNat DEF OnWire
    <2>3. \A i, j \in 1 .. Len(wire[d]) : i < j => wire[d][i][1] <= wire[d][j][1]
      BY <1>0 DEF OnWire
    <2> QED BY <1>3, <2>1, <2>2, <2>3
  <1>6. CASE SendSome(d)
    <2>1. PICK n \in 1 .. txLen[d][b] - 1 :
            /\ wire' = [wire EXCEPT ![d] = @ \o Sent(b, n)]
            /\ txLen' = [txLen EXCEPT ![d][b] = @ - n]
      BY <1>6 DEF SendSome, b
    <2>2. txPc[d] = "send" /\ UNCHANGED <<txQueue, outcome, transmitted>>
      BY <1>6 DEF SendSome
    <2>3. n \in 0 .. BufLen /\ n \in Nat
      BY <1>2, <2>1, <2>2
    <2> DEFINE w == wire[d] \o Sent(b, n)
    <2>4. wire'[d] = w /\ txLen'[d] = [txLen[d] EXCEPT ![b] = @ - n]
      BY <1>2, <2>1, <2>2 DEF Inv, TypeOK
    <2>5. /\ \A i, j \in 1 .. Len(w) : i < j => w[i][1] <= w[j][1]
          /\ \A i \in 1 .. Len(w) : w[i][1] <= b
      BY <1>0, <1>2, <2>2, <2>3, WireSend
    <2>6. /\ \A x : BytesIn(wire[d], x) \in Nat
          /\ BytesIn(w, b) = BytesIn(wire[d], b) + n
          /\ \A x : x # b => BytesIn(w, x) = BytesIn(wire[d], x)
      BY <1>0, <1>2, <2>2, <2>3, SentCounts
    <2> HIDE DEF w
    <2>7. ASSUME NEW i \in 1 .. Len(outcome[d]), outcome[d][i][2] = "sent"
          PROVE  BytesIn(w, outcome[d][i][1]) = BufLen
      <3>1. outcome[d][i][1] # b
        <4>1. outcome[d][i][1] = i /\ b = Len(outcome[d]) + 1
          BY <1>0, <1>2, <2>2 DEF InOrder
        <4> QED BY <1>0, <4>1
      <3> QED BY <1>0, <2>6, <2>7, <3>1 DEF OnWire
    <2>8. ASSUME NEW i \in 1 .. Len(txQueue[d])
          PROVE  BytesIn(w, txQueue[d][i]) = BufLen - txLen'[d][txQueue[d][i]]
      <3>1. txQueue[d][i] \in Buffers /\ txLen[d][txQueue[d][i]] \in 0 .. BufLen
            /\ BytesIn(wire[d], txQueue[d][i]) = BufLen - txLen[d][txQueue[d][i]]
        BY <1>0, ElementOfSeq DEF OnWire
      <3>2. CASE txQueue[d][i] = b
        <4>1. txLen'[d][b] = txLen[d][b] - n
          BY <1>0, <1>2, <2>2, <2>4
        <4> QED BY <2>3, <2>6, <3>1, <3>2, <4>1
      <3>3. CASE txQueue[d][i] # b
        <4>1. txLen'[d][txQueue[d][i]] = txLen[d][txQueue[d][i]]
          BY <1>0, <2>4, <3>1, <3>3
        <4> QED BY <2>6, <3>1, <3>3, <4>1
      <3> QED BY <3>2, <3>3
    <2>9. \A i \in 1 .. Len(w) : w[i][1] <= Len(outcome[d]) + 1 /\ w[i][1] <= transmitted[d]
      <3>1. ASSUME NEW i \in 1 .. Len(w) PROVE w[i][1] \in Nat /\ w[i][1] <= b
        <4>1. w \in Seq(Buffers \X (1 .. BufLen))
          BY <1>0, <1>2, <2>2, <2>3, SentType, ConcatProperties DEF w
        <4> QED BY <2>5, <4>1, WireOfNat
      <3>2. b \in Nat /\ b = Len(outcome[d]) + 1 /\ b <= transmitted[d]
        BY <1>2, <2>2 DEF Buffers
      <3>3. \A x \in Nat : x <= b => x <= transmitted[d]
        BY <1>0, <3>2
      <3> QED BY <3>1, <3>2, <3>3
    <2> QED BY <2>2, <2>4, <2>5, <2>7, <2>8, <2>9 DEF WireInv, OnWire
  <1>7. ASSUME NEW c \in Conns, c # d, Transmit(c) \/ SendReturns(c) \/ SendSome(c)
        PROVE WireSame(d)
    BY <1>7 DEF Inv, TypeOK, Transmit, SendReturns, SendAll, SendFails, SendSome, PopFront,
                WireSame
  <1>8. ASSUME NEW c \in Conns,
               CheckClosed(c) \/ LockAndWait(c) \/ WaitReturns(c) \/ DrainCheck(c)
                 \/ SpuriousWakeup(c) \/ Close(c) \/ PeerCloses(c)
        PROVE WireSame(d)
    BY <1>8 DEF CheckClosed, LockAndWait, WaitReturns, DrainCheck, SpuriousWakeup, Close,
                RaiseClose, NotifyClose, CloseSocket, JoinTransmit, PeerCloses, txVars,
                WireSame
  <1>9. CASE UNCHANGED vars
    BY <1>9 DEF vars, WireSame, WireInv
  <1>10. WireSame(d) => WireInv(d)'
    BY DEF WireSame, WireInv
  <1> QED BY <1>1, <1>4, <1>5, <1>6, <1>7, <1>8, <1>9, <1>10
          DEF Next, TransmitThread, SendReturns

\* However send() splits the buffers, the network gets as many bytes of each as it
\* has and those of an earlier buffer first.
THEOREM WireTheorem == Spec => []WireKeepsCountAndOrder
  <1> DEFINE WInv == \A c \in Conns : WireInv(c)
  <1>1. Init => WInv
    <2> SUFFICES ASSUME Init, NEW c \in Conns PROVE WireInv(c)
      OBVIOUS
    <2>1. /\ wire[c] = << >> /\ outcome[c] = << >> /\ txQueue[c] = << >>
      BY DEF Init, NewConnection
    <2> QED BY <2>1 DEF WireInv, OnWire
  <1>2. Inv /\ WInv /\ [Next]_vars => WInv'
    BY WireStep
  <1>3. WInv => WireKeepsCountAndOrder
    BY WireInvIsProperty
  <1> HIDE DEF WInv
  <1> QED BY <1>1, <1>2, <1>3, Invariance, PTL DEF Spec

-----------------------------------------------------------------------------
\* Every connection is a FifoChannel to its callers.
THEOREM Refinement == Spec => ImplementsChannel
  <1>1. Init => Channel!Init
    BY DEF Init, NewConnection, Channel!Init, Phase
  <1>2. Inv /\ [Next]_vars => [Channel!Next]_(Channel!vars)
    <2> SUFFICES ASSUME Inv, [Next]_vars PROVE Channel!Next \/ UNCHANGED Channel!vars
      OBVIOUS
    <2>0. TypeOK /\ \A c \in Conns : ThreadInv(c)
      BY DEF Inv
    <2>1. ASSUME NEW c \in Conns, Transmit(c) PROVE Channel!Accept(c)
      <3>1. \A d \in Conns : Phase(d)' = Phase(d)
        BY <2>0, <2>1 DEF TypeOK, Transmit, NotifyAll, MutexHeld, Phase
      <3> QED BY <2>1, <3>1 DEF Transmit, Channel!Accept
    <2>2. ASSUME NEW c \in Conns, CheckClosed(c) \/ LockAndWait(c) \/ WaitReturns(c)
                                    \/ DrainCheck(c) \/ SpuriousWakeup(c) \/ SendSome(c)
                                    \/ PeerCloses(c)
          PROVE  UNCHANGED Channel!vars
      <3>1. \A d \in Conns : Phase(d)' = Phase(d)
        BY <2>0, <2>2 DEF TypeOK, CheckClosed, LockAndWait, WaitReturns, DrainCheck,
                          SpuriousWakeup, SendSome, PeerCloses, txVars, Phase
      <3>2. UNCHANGED <<transmitted, txQueue, outcome>>
        BY <2>2 DEF CheckClosed, LockAndWait, WaitReturns, DrainCheck,
                    SpuriousWakeup, SendSome, PeerCloses, txVars
      <3> QED BY <3>1, <3>2 DEF Channel!vars
    <2>3. ASSUME NEW c \in Conns, SendReturns(c)
          PROVE  \E result \in Outcomes : Channel!Settle(c, result)
      <3>1. PICK result \in Outcomes : PopFront(c, result) /\ txPc[c] = "send"
              /\ UNCHANGED <<transmitted, closeConnection>>
        BY <2>3 DEF SendReturns, SendAll, SendFails, Outcomes
      <3>2. txQueue[c] # << >> /\ Phase(c) # "shut"
        BY <2>0, <3>1 DEF ThreadInv, Phase
      <3>3. /\ Phase(c)' = IF Phase(c) = "closing" THEN "shut" ELSE Phase(c)
            /\ \A d \in Conns \ {c} : Phase(d)' = Phase(d)
        BY <2>0, <3>1 DEF TypeOK, PopFront, Phase
      <3> QED BY <3>1, <3>2, <3>3 DEF PopFront, Channel!Settle
    <2>4. ASSUME NEW c \in Conns, Close(c) PROVE Channel!BeginClose(c) \/ UNCHANGED Channel!vars
      <3>1. UNCHANGED <<transmitted, txQueue, outcome>>
        BY <2>4 DEF Close, RaiseClose, NotifyClose, CloseSocket, JoinTransmit, txVars
      <3>2. CASE RaiseClose(c)
        <4>1. Phase(c) = "open" /\ Phase(c)' \in {"closing", "shut"}
              /\ \A d \in Conns \ {c} : Phase(d)' = Phase(d)
          BY <2>0, <3>2 DEF TypeOK, ThreadInv, RaiseClose, txVars, Phase
        <4> QED BY <3>1, <4>1 DEF Channel!BeginClose
      <3>3. CASE NotifyClose(c) \/ CloseSocket(c) \/ JoinTransmit(c)
        <4>1. \A d \in Conns : Phase(d)' = Phase(d)
          BY <2>0, <3>3 DEF TypeOK, NotifyClose, CloseSocket, JoinTransmit, NotifyAll,
                            txVars, Phase
        <4> QED BY <3>1, <4>1 DEF Channel!vars
      <3> QED BY <2>4, <3>2, <3>3 DEF Close
    <2>5. CASE UNCHANGED vars
      BY <2>5 DEF vars, Channel!vars, Phase
    <2> QED BY <2>1, <2>2, <2>3, <2>4, <2>5
            DEF Next, TransmitThread, Channel!Next, Channel!Outcomes, Outcomes
  <1> QED BY <1>1, <1>2, Invariance, PTL DEF Spec, ImplementsChannel, Channel!Spec
==============================================================================
