------------------------- MODULE SonosDiscoveryProofs -------------------------
(***************************************************************************)
(* Proofs about SonosDiscovery and the exchange it makes, for any players, *)
(* bridges, changes of the zone, number of searches, size of the receive   *)
(* buffer and answers.                                                     *)
(***************************************************************************)
EXTENDS SonosDiscovery, SequenceTheorems, FiniteSetTheorems, TLAPS

(* The exchange *)

\* respbuff and rbuff hold the bytes received so far, in order.
OrderInv ==
    /\ exchPc = "none" => tb = 0
    /\ exchPc # "done" => document = << >>
    /\ Len(respbuff) + rbshift = tb
    /\ \A i \in 1 .. Len(respbuff) : respbuff[i] = i
    /\ \A i \in 1 .. rbshift : rbuff[i] = Len(respbuff) + i
    /\ document # << >> => document = [i \in 1 .. tb - response.line |-> response.line + i]

ExchInv == Exch!ExchTypeOK /\ OrderInv

LEMMA ExchNumbers ==
    ASSUME Exch!ExchTypeOK
    PROVE  /\ RbSize \in Nat /\ rbshift \in Nat /\ rbshift < RbSize
           /\ response.line \in Nat \ {0} /\ response.rest \in Nat
           /\ tb \in Nat /\ tb <= response.line + response.rest
           /\ respbuff \in Seq(Nat) /\ Len(respbuff) \in Nat
           /\ rbuff \in [1 .. RbSize -> Nat]
  <1>1. RbSize \in Nat /\ rbshift \in Nat /\ rbshift < RbSize
    BY RbSizeAssumption DEF Exch!ExchTypeOK
  <1>2. response.line \in Nat \ {0} /\ response.rest \in Nat
    <2>1. response \in Responses \/ response = Exch!NoResponse
      BY DEF Exch!ExchTypeOK
    <2> QED BY <2>1, ResponseAssumption DEF Exch!NoResponse
  <1>3. tb \in Nat /\ tb <= response.line + response.rest
    BY <1>2 DEF Exch!ExchTypeOK
  <1>4. respbuff \in Seq(Nat) /\ rbuff \in [1 .. RbSize -> Nat]
    BY DEF Exch!ExchTypeOK
  <1>5. Len(respbuff) \in Nat
    BY <1>4, LenProperties
  <1> QED BY <1>1, <1>2, <1>3, <1>4, <1>5

\* A buffer after the bytes of another.
LEMMA Flushed ==
    ASSUME NEW s \in Seq(Nat), NEW n \in Nat, NEW b \in [1 .. n -> Nat],
           \A i \in 1 .. Len(s) : s[i] = i, \A i \in 1 .. n : b[i] = Len(s) + i
    PROVE  /\ s \o b \in Seq(Nat) /\ Len(s \o b) = Len(s) + n
           /\ s \o b = [i \in 1 .. Len(s) + n |-> i]
  <1>1. b \in Seq(Nat) /\ Len(b) = n /\ Len(s) \in Nat
    BY LenProperties
  <1>2. PICK r : r = s \o b
    OBVIOUS
  <1>3. /\ r \in Seq(Nat) /\ Len(r) = Len(s) + n
        /\ \A i \in 1 .. Len(s) + n : r[i] = IF i <= Len(s) THEN s[i] ELSE b[i - Len(s)]
    BY ZenonT(30), <1>1, <1>2, ConcatProperties
  <1>4. ASSUME NEW i \in 1 .. Len(s) + n PROVE r[i] = i
    <2>1. CASE i <= Len(s)
      BY <1>1, <1>3, <2>1
    <2>2. CASE ~(i <= Len(s))
      <3>1. i - Len(s) \in 1 .. n /\ Len(s) + (i - Len(s)) = i
        BY <1>1, <2>2
      <3> QED BY <1>3, <2>2, <3>1
    <2> QED BY <2>1, <2>2
  <1>5. DOMAIN r = 1 .. Len(s) + n /\ r = [i \in DOMAIN r |-> r[i]]
    BY <1>3
  <1> QED BY <1>2, <1>3, <1>4, <1>5

LEMMA ReceivedIsAll ==
    ASSUME ExchInv
    PROVE  Exch!Received = [i \in 1 .. tb |-> i]
  <1>1. Exch!ExchTypeOK /\ OrderInv
    BY DEF ExchInv
  <1>2. PICK b : b = SubSeq(rbuff, 1, rbshift)
    OBVIOUS
  <1>3. b \in [1 .. rbshift -> Nat] /\ \A i \in 1 .. rbshift : b[i] = rbuff[i]
    <2>1. \A i \in 1 .. rbshift : rbuff[i] \in Nat
      BY <1>1, ExchNumbers
    <2>2. b = [i \in 1 .. rbshift |-> rbuff[i]]
      BY <1>1, <1>2, ExchNumbers
    <2> QED BY <2>1, <2>2
  <1>4. /\ respbuff \in Seq(Nat) /\ rbshift \in Nat
        /\ \A i \in 1 .. Len(respbuff) : respbuff[i] = i
        /\ \A i \in 1 .. rbshift : b[i] = Len(respbuff) + i
    BY <1>1, <1>3, ExchNumbers DEF OrderInv
  <1>5. respbuff \o b = [i \in 1 .. Len(respbuff) + rbshift |-> i]
    BY ONLY <1>3, <1>4, Flushed
  <1> QED BY <1>1, <1>2, <1>5 DEF OrderInv, Exch!Received

LEMMA RecvKeepsOrder ==
    ASSUME ExchInv, NEW n \in 1 .. RbSize, Exch!Recv(n)
    PROVE  ExchInv'
  <1>1. Exch!ExchTypeOK /\ OrderInv
    BY DEF ExchInv
  <1>2. /\ n <= RbSize - rbshift /\ tb + n <= response.line + response.rest
        /\ exchPc = "recv" /\ tb' = tb + n
        /\ UNCHANGED <<exchPc, response, ended, success, document>>
    BY DEF Exch!Recv
  <1>3. rbuff' = [i \in 1 .. RbSize |->
                   IF i \in rbshift + 1 .. rbshift + n THEN tb + i - rbshift ELSE rbuff[i]]
    BY DEF Exch!Recv
  <1>4. n \in Nat /\ rbshift + n <= RbSize
    BY <1>1, <1>2, ExchNumbers
  <1>5. rbuff' \in [1 .. RbSize -> Nat]
    <2>1. \A i \in rbshift + 1 .. rbshift + n : tb + i - rbshift \in Nat
      BY <1>1, <1>4, ExchNumbers
    <2>2. \A i \in 1 .. RbSize : rbuff[i] \in Nat
      BY <1>1, ExchNumbers
    <2> QED BY <1>3, <2>1, <2>2
  <1>6. \A i \in 1 .. rbshift + n : rbuff'[i] = Len(respbuff) + i
    <2> SUFFICES ASSUME NEW i \in 1 .. rbshift + n PROVE rbuff'[i] = Len(respbuff) + i
      OBVIOUS
    <2>1. i \in 1 .. RbSize /\ i \in Nat
      BY <1>1, <1>4, ExchNumbers
    <2>2. CASE i \in 1 .. rbshift
      <3>1. i \notin rbshift + 1 .. rbshift + n
        BY <1>1, <2>2, ExchNumbers
      <3> QED BY <1>1, <1>3, <2>1, <2>2, <3>1 DEF OrderInv
    <2>3. CASE i \notin 1 .. rbshift
      <3>1. i \in rbshift + 1 .. rbshift + n
        BY <1>1, <2>1, <2>3, ExchNumbers
      <3>2. tb + i - rbshift = Len(respbuff) + i
        <4>1. Len(respbuff) + rbshift = tb
          BY <1>1 DEF OrderInv
        <4> QED BY <1>1, <2>1, <4>1, ExchNumbers
      <3> QED BY <1>3, <2>1, <3>1, <3>2
    <2> QED BY <2>2, <2>3
  <1>7. tb' \in 0 .. response'.line + response'.rest
    BY <1>1, <1>2, <1>4, ExchNumbers
  <1>8. CASE rbshift + n = RbSize
    <2>1. respbuff' = respbuff \o rbuff' /\ rbshift' = 0
      BY <1>8 DEF Exch!Recv
    <2>2. PICK b \in [1 .. RbSize -> Nat] : b = rbuff'
      BY <1>5
    <2>3. /\ respbuff \in Seq(Nat) /\ RbSize \in Nat
          /\ \A i \in 1 .. Len(respbuff) : respbuff[i] = i
          /\ \A i \in 1 .. RbSize : b[i] = Len(respbuff) + i
      BY <1>1, <1>6, <1>8, <2>2, ExchNumbers DEF OrderInv
    <2>4. /\ respbuff \o b \in Seq(Nat) /\ Len(respbuff \o b) = Len(respbuff) + RbSize
          /\ respbuff \o b = [i \in 1 .. Len(respbuff) + RbSize |-> i]
      BY ONLY <2>3, b \in [1 .. RbSize -> Nat], Flushed
    <2>5. /\ respbuff' \in Seq(Nat) /\ Len(respbuff') = Len(respbuff) + RbSize
          /\ \A i \in 1 .. Len(respbuff) + RbSize : respbuff'[i] = i
      BY <2>1, <2>2, <2>4
    <2>6. Len(respbuff') + rbshift' = tb'
      <3>1. Len(respbuff) + rbshift = tb
        BY <1>1 DEF OrderInv
      <3> QED BY <1>1, <1>2, <1>4, <1>8, <2>1, <2>5, <3>1, ExchNumbers
    <2>7. OrderInv'
      <3>1. \A i \in 1 .. rbshift' : FALSE
        BY <2>1
      <3> QED BY <1>1, <1>2, <2>5, <2>6, <3>1 DEF OrderInv
    <2>8. rbshift' \in 0 .. RbSize - 1
      BY <2>1, RbSizeAssumption
    <2>9. Exch!ExchTypeOK'
      BY <1>1, <1>2, <1>5, <1>7, <2>5, <2>8 DEF Exch!ExchTypeOK
    <2> QED BY <2>7, <2>9 DEF ExchInv
  <1>9. CASE rbshift + n # RbSize
    <2>1. respbuff' = respbuff /\ rbshift' = rbshift + n
      BY <1>9 DEF Exch!Recv
    <2>2. rbshift' \in 0 .. RbSize - 1
      BY <1>1, <1>4, <1>9, <2>1, ExchNumbers
    <2>3. Len(respbuff') + rbshift' = tb'
      <3>1. Len(respbuff) + rbshift = tb
        BY <1>1 DEF OrderInv
      <3> QED BY <1>1, <1>2, <1>4, <2>1, <3>1, ExchNumbers
    <2>4. OrderInv'
      BY <1>1, <1>2, <1>6, <2>1, <2>3 DEF OrderInv
    <2>5. Exch!ExchTypeOK'
      BY <1>1, <1>2, <1>5, <1>7, <2>1, <2>2 DEF Exch!ExchTypeOK
    <2> QED BY <2>4, <2>5 DEF ExchInv
  <1> QED BY <1>8, <1>9

LEMMA EndKeepsOrder ==
    ASSUME ExchInv, NEW b \in {"closed", "error"}, Exch!EndOfExchange(b)
    PROVE  ExchInv'
  <1>1. Exch!ExchTypeOK /\ OrderInv
    BY DEF ExchInv
  <1>2. /\ exchPc' = "done" /\ ended' = b /\ success' = Exch!Accepted
        /\ UNCHANGED <<response, rbuff, rbshift, tb, respbuff>>
    BY DEF Exch!EndOfExchange
  <1>3. CASE Exch!Accepted /\ b = "closed"
    <2>1. document' = SubSeq(Exch!Received, response.line + 1, tb)
      BY <1>3 DEF Exch!EndOfExchange
    <2>2. PICK l \in Nat, n \in Nat : l = response.line /\ n = tb /\ l < n
      BY <1>1, <1>3, ExchNumbers DEF Exch!Accepted
    <2>3. document' = SubSeq([i \in 1 .. n |-> i], l + 1, n)
      BY <2>1, <2>2, ReceivedIsAll
    <2>4. SubSeq([i \in 1 .. n |-> i], l + 1, n) = [i \in 1 .. n - l |-> l + i]
      OBVIOUS
    <2>5. document' = [i \in 1 .. tb - response.line |-> response.line + i]
      BY <2>2, <2>3, <2>4
    <2>6. document' \in Seq(Nat)
      <3>1. [i \in 1 .. n - l |-> l + i] \in Seq(Nat)
        OBVIOUS
      <3> QED BY <2>3, <2>4, <3>1
    <2>7. success' \in BOOLEAN
      BY <1>2, <1>3
    <2>8. OrderInv'
      BY <1>1, <1>2, <2>5 DEF OrderInv
    <2> QED BY <1>1, <1>2, <2>6, <2>7, <2>8 DEF ExchInv, Exch!ExchTypeOK
  <1>4. CASE ~(Exch!Accepted /\ b = "closed")
    <2>1. document' = << >>
      BY <1>4 DEF Exch!EndOfExchange
    <2>2. success' \in BOOLEAN
      <3>1. response.ok \in BOOLEAN
        <4>1. response \in Responses \/ response = Exch!NoResponse
          BY <1>1 DEF Exch!ExchTypeOK
        <4>2. Exch!NoResponse.ok \in BOOLEAN
          BY DEF Exch!NoResponse
        <4>3. \A r \in Responses : r.ok \in BOOLEAN
          BY ResponseAssumption
        <4> QED BY <4>1, <4>2, <4>3
      <3> QED BY <1>2, <3>1 DEF Exch!Accepted
    <2>3. document' \in Seq(Nat)
      BY <2>1, EmptySeq
    <2>4. OrderInv'
      BY <1>1, <1>2, <2>1 DEF OrderInv
    <2> QED BY <1>1, <1>2, <2>2, <2>3, <2>4 DEF ExchInv, Exch!ExchTypeOK
  <1> QED BY <1>3, <1>4

\* Nothing has been received.
Blank ==
    /\ rbuff = [i \in 1 .. RbSize |-> 0] /\ rbshift = 0 /\ tb = 0
    /\ respbuff = << >> /\ ended = "closed" /\ success = FALSE /\ document = << >>

LEMMA BlankIsOrdered ==
    /\ Blank
    /\ exchPc \in {"none", "recv", "done"}
    /\ response \in Responses \cup {Exch!NoResponse}
    => ExchInv
  <1> SUFFICES ASSUME Blank, exchPc \in {"none", "recv", "done"},
                      response \in Responses \cup {Exch!NoResponse}
               PROVE  ExchInv
    OBVIOUS
  <1>1. << >> \in Seq(Nat) /\ Len(<< >>) = 0
    BY EmptySeq
  <1>2. response.line \in Nat \ {0} /\ response.rest \in Nat
    BY ResponseAssumption DEF Exch!NoResponse
  <1>3. 0 \in 0 .. response.line + response.rest /\ 0 \in 0 .. RbSize - 1 /\ 1 .. 0 = {}
    BY <1>2, RbSizeAssumption
  <1>4. [i \in 1 .. RbSize |-> 0] \in [1 .. RbSize -> Nat]
    OBVIOUS
  <1>5. Exch!ExchTypeOK
    BY <1>1, <1>3, <1>4 DEF Blank, Exch!ExchTypeOK
  <1>6. OrderInv
    BY <1>1, <1>3 DEF Blank, OrderInv
  <1> QED BY <1>5, <1>6 DEF ExchInv

ExchStep ==
    \/ \E r \in Responses : Exch!Request(r)
    \/ Exch!Loop
    \/ Exch!Return
    \/ UNCHANGED exchVars

LEMMA ExchangeStep == ExchInv /\ ExchStep => ExchInv'
  <1> SUFFICES ASSUME ExchInv, ExchStep PROVE ExchInv'
    OBVIOUS
  <1>0. Exch!ExchTypeOK /\ OrderInv
    BY DEF ExchInv
  <1>1. ASSUME NEW r \in Responses, Exch!Request(r) PROVE ExchInv'
    <2>1. /\ exchPc = "none" /\ exchPc' = "recv" /\ response' = r
          /\ UNCHANGED <<rbuff, rbshift, tb, respbuff, ended, success, document>>
      BY <1>1 DEF Exch!Request
    <2>2. tb' = 0 /\ document' = << >>
      BY <1>0, <2>1 DEF OrderInv
    <2>3. tb' \in 0 .. response'.line + response'.rest
      <3>1. r.line \in Nat /\ r.rest \in Nat
        BY ResponseAssumption
      <3> QED BY <2>1, <2>2, <3>1
    <2>4. Exch!ExchTypeOK'
      BY <1>0, <2>1, <2>3 DEF Exch!ExchTypeOK
    <2>5. OrderInv'
      BY <1>0, <2>1, <2>2 DEF OrderInv
    <2> QED BY <2>4, <2>5 DEF ExchInv
  <1>2. CASE Exch!Loop
    BY <1>2, RecvKeepsOrder, EndKeepsOrder DEF Exch!Loop
  <1>3. CASE Exch!Return
    <2>1. Blank' /\ exchPc' = "none" /\ response' = Exch!NoResponse
      BY <1>3 DEF Exch!Return, Blank
    <2>2. Blank' /\ (exchPc \in {"none", "recv", "done"})'
                /\ (response \in Responses \cup {Exch!NoResponse})'
      BY <2>1
    <2> QED BY <2>2, BlankIsOrdered, PTL
  <1>4. CASE UNCHANGED exchVars
    BY <1>0, <1>4 DEF exchVars, ExchInv, OrderInv, Exch!ExchTypeOK
  <1> QED BY <1>1, <1>2, <1>3, <1>4 DEF ExchStep
-----------------------------------------------------------------------------
(* The inductive invariant *)

Devices == [udn : Players, group : Players, isCoordinator : BOOLEAN]
Groups == [name : Players, members : Seq(Players), coordinator : Players \cup {Nobody}]
LocalGroups == [members : Seq(Players), coordinator : Players \cup {Nobody}]

\* What TypeOK leaves open.
ShapeInv ==
    /\ deviceList \in Seq(Devices) /\ groupList \in Seq(Groups) /\ group \in LocalGroups
    /\ topology \in Zones \cup {<< >>}

CtlInv ==
    /\ zone \in Zones /\ changes \in 0 .. MaxChanges
    /\ reported \subseteq Players
    /\ searchPc \in {"check", "start", "completed", "pump", "request", "exchange", "parse", "exited"}
                    \cup CancelSteps
    /\ {searching, searchCompleted, shutdown, due} \subseteq BOOLEAN
    /\ searches \in 0 .. MaxSearches
    /\ current \in Players \cup {Nobody}
    /\ todo \subseteq DOMAIN topology
    /\ announced \in [Players -> Nat]
    /\ destroyPc \in {"running", "test", "deleteThread"} \cup CancelSteps
    /\ crash \in {"none", "nullFinder", "terminate"}

PlaceInv ==
    /\ searchPc = "start" => searches < MaxSearches
    /\ searchPc # "parse" => todo = {}

\* The search thread, or the destructor, may still release the finder or the
\* callback of this search.
ThreadEnds(then) == searchPc \in then \cup {"releaseFinder"}
                    \/ (searchCompleted /\ searchPc \notin CancelSteps)
DestructorEnds(then) == destroyPc \in then \cup {"running", "test", "releaseFinder"}

\* Each of the two releases a reference at most once for a search, so that both
\* together leave minus one at the least.
RefInv ==
    /\ finder \in -1 .. 1 /\ callback \in -1 .. 1
    /\ DestructorEnds({}) => finder >= 0
    /\ ThreadEnds({}) => finder >= 0
    /\ DestructorEnds({}) /\ ThreadEnds({}) => finder = 1
    /\ DestructorEnds({"releaseCallback"}) => callback >= 0
    /\ ThreadEnds({"releaseCallback"}) => callback >= 0
    /\ DestructorEnds({"releaseCallback"}) /\ ThreadEnds({"releaseCallback"}) => callback = 1
    /\ finder = 1 => /\ callback >= 0 /\ searchPc # "releaseCallback"
                     /\ DestructorEnds({"releaseCallback"}) => callback = 1

\* A coordinator's group has its name; the names are unique; who is a member of a
\* group, or of the local variable that becomes one, is in the device list.
NameInv ==
    /\ \A i \in 1 .. Len(deviceList) :
         deviceList[i].isCoordinator => deviceList[i].group = deviceList[i].udn
    /\ \A i, j \in 1 .. Len(groupList) : groupList[i].name = groupList[j].name => i = j

Holds(devices, p) == \E i \in 1 .. Len(devices) : devices[i].udn = p

MemberInv ==
    /\ \A i \in 1 .. Len(groupList) : \A k \in 1 .. Len(groupList[i].members) :
         Holds(deviceList, groupList[i].members[k])
    /\ \A k \in 1 .. Len(group.members) : Holds(deviceList, group.members[k])

\* The player a call back is for has not been announced.
CallInv ==
    /\ current # Nobody => announced[current] = 0
    /\ AnnouncedOnce

Inv == /\ CtlInv /\ ShapeInv /\ PlaceInv /\ RefInv /\ ListsAgree /\ NameInv /\ MemberInv
       /\ CallInv /\ ExchInv

LEMMA InvHasTypes == Inv => TypeOK
  <1> SUFFICES ASSUME Inv PROVE TypeOK
    OBVIOUS
  <1>1. \A i \in 1 .. Len(deviceList) : deviceList[i] \in Devices
    BY ElementOfSeq DEF Inv, ShapeInv
  <1>2. \A i \in 1 .. Len(groupList) : groupList[i] \in Groups
    BY ElementOfSeq DEF Inv, ShapeInv
  <1>3. finder \in -1 .. 1 /\ callback \in -1 .. 1
    BY DEF Inv, RefInv
  <1>4. Exch!ExchTypeOK
    BY DEF Inv, ExchInv
  <1> QED BY <1>1, <1>2, <1>3, <1>4 DEF Inv, CtlInv, TypeOK, Devices, Groups

LEMMA ZoneValues ==
    ASSUME NEW z \in Zones \cup {<< >>}, NEW p \in DOMAIN z
    PROVE  p \in Players /\ z[p] \in Players
  <1>1. CASE z = << >>
    <2>1. DOMAIN << >> = {}
      BY EmptySeq
    <2> QED BY <1>1, <2>1
  <1>2. CASE z \in Zones
    BY <1>2 DEF Zones
  <1> QED BY <1>1, <1>2

LEMMA CtlStep == CtlInv /\ ShapeInv /\ PlaceInv /\ [Next]_vars => CtlInv' /\ PlaceInv'
  <1> SUFFICES ASSUME CtlInv, ShapeInv, PlaceInv, [Next]_vars PROVE CtlInv' /\ PlaceInv'
    OBVIOUS
  <1> USE DEF vars, netVars, flagVars, refVars, parseVars, listVars, mainVars, exchVars, CancelSteps
  <1>0. searches \in 0 .. MaxSearches /\ MaxSearches \in Nat /\ MaxChanges \in Nat
    BY BoundsAssumption DEF CtlInv
  <1>1. ASSUME NEW z \in Zones, ZoneChanges(z) PROVE CtlInv' /\ PlaceInv'
    <2>1. changes' \in 0 .. MaxChanges
      BY <1>0, <1>1 DEF ZoneChanges, CtlInv
    <2> QED BY <1>1, <2>1 DEF ZoneChanges, CtlInv, PlaceInv
  <1>2. CASE IntervalPasses
    BY <1>2 DEF IntervalPasses, CtlInv, PlaceInv
  <1>3. CASE LoopCheck
    BY <1>3 DEF LoopCheck, CtlInv, PlaceInv
  <1>4. ASSUME NEW ok \in BOOLEAN, StartAsyncSearch(ok) PROVE CtlInv' /\ PlaceInv'
    <2>1. searches' \in 0 .. MaxSearches
      BY <1>0, <1>4 DEF StartAsyncSearch, PlaceInv
    <2> QED BY <1>4, <2>1 DEF StartAsyncSearch, CtlInv, PlaceInv
  <1>5. CASE NoFinder
    BY <1>5 DEF NoFinder, CtlInv, PlaceInv
  <1>6. CASE TestCompleted
    BY <1>6 DEF TestCompleted, CtlInv, PlaceInv
  <1>7. CASE CancelAsyncSearch
    <2>1. searchPc' \in {"releaseCallback", "clearFlags", "pump"} /\ searchPc \in CancelSteps
      BY <1>7 DEF CancelAsyncSearch, After
    <2>2. /\ {searching', searchCompleted', shutdown', due'} \subseteq BOOLEAN
          /\ UNCHANGED searches
      BY <1>7 DEF CancelAsyncSearch, CancelStep, ClearFlags, CtlInv
    <2>3. UNCHANGED <<netVars, reported, current, parseVars, listVars, mainVars>>
      BY <1>7 DEF CancelAsyncSearch
    <2> QED BY <2>1, <2>2, <2>3 DEF CtlInv, PlaceInv
  <1>8. ASSUME NEW p \in Players, UpnpDeviceAdded(p) \/ UpnpDeviceRemoved(p)
        PROVE  CtlInv' /\ PlaceInv'
    BY <1>8 DEF UpnpDeviceAdded, UpnpDeviceRemoved, Calling, CtlInv, PlaceInv
  <1>9. ASSUME NEW p \in Players, ParseZonePlayer(p) PROVE CtlInv' /\ PlaceInv'
    BY <1>9 DEF ParseZonePlayer, CtlInv, PlaceInv
  <1>10. CASE UpnpSearchComplete \/ PumpEmpty
    BY <1>10 DEF UpnpSearchComplete, PumpEmpty, Calling, CtlInv, PlaceInv
  <1>11. ASSUME NEW r \in Responses, HttpRequest(r) PROVE CtlInv' /\ PlaceInv'
    BY <1>11 DEF HttpRequest, CtlInv, PlaceInv
  <1>12. CASE Exchange
    BY <1>12 DEF Exchange, CtlInv, PlaceInv
  <1>13. CASE ParseBegins
    <2>1. todo' \in {DOMAIN topology, {}} /\ UNCHANGED topology /\ searchPc' = "parse"
      BY <1>13 DEF ParseBegins
    <2> QED BY <1>13, <2>1 DEF ParseBegins, CtlInv, PlaceInv
  <1>14. CASE Announce
    <2>1. announced' \in [Players -> Nat]
      <3>1. announced \in [Players -> Nat]
        BY DEF CtlInv
      <3>2. CASE announced' = announced
        BY <3>1, <3>2
      <3>3. CASE announced' = [announced EXCEPT ![current] = announced[current] + 1]
        <4>1. \A p \in Players : announced'[p] = IF p = current THEN announced[p] + 1 ELSE announced[p]
          BY <3>1, <3>3
        <4>2. \A p \in Players : announced[p] \in Nat
          BY <3>1
        <4>3. \A p \in Players : announced'[p] \in Nat
          BY <4>1, <4>2
        <4>4. announced' = [p \in Players |-> announced'[p]]
          BY <3>1, <3>3
        <4> QED BY <4>3, <4>4
      <3> QED BY <1>14, <3>2, <3>3 DEF Announce
    <2> QED BY <1>14, <2>1 DEF Announce, CtlInv, PlaceInv
  <1>15. CASE RaiseShutdown \/ TestSearching \/ DeleteThread
    BY <1>15 DEF RaiseShutdown, TestSearching, DeleteThread, CtlInv, PlaceInv
  <1>16. CASE DestructorCancels
    <2>1. destroyPc' \in {"releaseCallback", "clearFlags", "deleteThread"}
      BY <1>16 DEF DestructorCancels, After
    <2>2. /\ {searching', searchCompleted', shutdown', due'} \subseteq BOOLEAN
          /\ UNCHANGED searches
      BY <1>16 DEF DestructorCancels, CancelStep, ClearFlags, CtlInv
    <2>3. UNCHANGED <<netVars, reported, searchPc, current, parseVars, listVars, crash>>
      BY <1>16 DEF DestructorCancels
    <2> QED BY <2>1, <2>2, <2>3 DEF CtlInv, PlaceInv
  <1>17. CASE UNCHANGED vars
    BY <1>17 DEF CtlInv, PlaceInv
  <1> QED BY <1>1, <1>2, <1>3, <1>4, <1>5, <1>6, <1>7, <1>8, <1>9, <1>10, <1>11, <1>12, <1>13,
             <1>14, <1>15, <1>16, <1>17 DEF Next, SearchThread, Destructor

LEMMA RefStep == CtlInv /\ RefInv /\ [Next]_vars => RefInv'
  <1> SUFFICES ASSUME CtlInv, RefInv, [Next]_vars PROVE RefInv'
    OBVIOUS
  <1> USE DEF vars, netVars, flagVars, refVars, parseVars, listVars, mainVars, exchVars, CancelSteps
  <1>0. finder \in -1 .. 1 /\ callback \in -1 .. 1
    BY DEF RefInv
  \* Where nothing is released, and neither side is nearer to it than before.
  <1>1. ASSUME UNCHANGED refVars, UNCHANGED searchCompleted,
               \/ UNCHANGED destroyPc
               \/ destroyPc \in {"running", "test", "releaseFinder"}
               \/ destroyPc' = "deleteThread",
               \/ UNCHANGED searchPc
               \/ (searchPc \notin CancelSteps /\ searchPc' \notin CancelSteps)
               \/ (searchPc \notin CancelSteps /\ searchPc' = "releaseFinder" /\ searchCompleted)
        PROVE  RefInv'
    <2>1. \A a \in {{}, {"releaseCallback"}} : DestructorEnds(a)' => DestructorEnds(a)
      BY <1>1 DEF DestructorEnds
    <2>2. \A a \in {{}, {"releaseCallback"}} : ThreadEnds(a)' => ThreadEnds(a)
      BY <1>1 DEF ThreadEnds
    <2> QED BY <1>1, <2>1, <2>2 DEF RefInv
  <1>2. CASE IntervalPasses \/ \E z \in Zones : ZoneChanges(z)
    BY <1>1, <1>2 DEF IntervalPasses, ZoneChanges
  <1>3. CASE LoopCheck \/ TestCompleted \/ PumpEmpty
    BY <1>1, <1>3 DEF LoopCheck, TestCompleted, PumpEmpty
  <1>4. CASE NoFinder \/ Exchange \/ ParseBegins \/ Announce
    BY <1>1, <1>4 DEF NoFinder, Exchange, ParseBegins, Announce
  <1>5. CASE \/ \E p \in Players : UpnpDeviceAdded(p) \/ UpnpDeviceRemoved(p) \/ ParseZonePlayer(p)
             \/ \E r \in Responses : HttpRequest(r)
    BY <1>1, <1>5 DEF UpnpDeviceAdded, UpnpDeviceRemoved, ParseZonePlayer, HttpRequest, Calling
  <1>6. CASE RaiseShutdown \/ DeleteThread
    BY <1>1, <1>6 DEF RaiseShutdown, DeleteThread
  <1>7. CASE TestSearching
    BY <1>1, <1>7 DEF TestSearching
  <1>8. ASSUME NEW ok \in BOOLEAN, StartAsyncSearch(ok) PROVE RefInv'
    <2>1. finder' = 1 /\ callback' = 1 /\ searchPc' = "completed"
      BY <1>8 DEF StartAsyncSearch
    <2> QED BY <2>1 DEF RefInv
  <1>9. CASE UpnpSearchComplete
    <2>1. searchPc = "pump" /\ finder = 1 /\ UNCHANGED <<refVars, destroyPc, searchPc>>
      BY <1>0, <1>9 DEF UpnpSearchComplete, Calling
    <2> QED BY <2>1 DEF RefInv, DestructorEnds
  <1>10. CASE CancelAsyncSearch
    <2>1. UNCHANGED destroyPc
      BY <1>10 DEF CancelAsyncSearch
    <2>2. CASE searchPc = "releaseFinder"
      <3>1. /\ finder' = finder - 1 /\ UNCHANGED <<callback, searchCompleted>>
            /\ searchPc' = "releaseCallback"
        BY <1>10, <2>2 DEF CancelAsyncSearch, CancelStep, ReleaseFinder, After
      <3>2. \A a : ThreadEnds(a)
        BY <2>2 DEF ThreadEnds
      <3>3. ~ThreadEnds({})'
        BY <3>1 DEF ThreadEnds
      <3> QED BY <1>0, <2>1, <3>1, <3>2, <3>3 DEF RefInv, DestructorEnds
    <2>3. CASE searchPc = "releaseCallback"
      <3>1. /\ callback' = callback - 1 /\ UNCHANGED <<finder, searchCompleted>>
            /\ searchPc' = "clearFlags"
        BY <1>10, <2>3 DEF CancelAsyncSearch, CancelStep, ReleaseCallback, After
      <3>2. ThreadEnds({"releaseCallback"}) /\ finder # 1
        BY <2>3 DEF ThreadEnds, RefInv
      <3>3. ~ThreadEnds({})' /\ ~ThreadEnds({"releaseCallback"})'
        BY <3>1 DEF ThreadEnds
      <3> QED BY <1>0, <2>1, <3>1, <3>2, <3>3 DEF RefInv, DestructorEnds
    <2>4. CASE searchPc = "clearFlags"
      <3>1. UNCHANGED refVars /\ ~searchCompleted' /\ searchPc' = "pump"
        BY <1>10, <2>4 DEF CancelAsyncSearch, CancelStep, ClearFlags, After
      <3>2. ~ThreadEnds({})' /\ ~ThreadEnds({"releaseCallback"})'
        BY <3>1 DEF ThreadEnds
      <3> QED BY <2>1, <3>1, <3>2 DEF RefInv, DestructorEnds
    <2> QED BY <1>10, <2>2, <2>3, <2>4 DEF CancelAsyncSearch
  <1>11. CASE DestructorCancels
    <2>1. UNCHANGED searchPc
      BY <1>11 DEF DestructorCancels
    <2>2. CASE destroyPc = "releaseFinder"
      <3>1. /\ finder' = finder - 1 /\ UNCHANGED <<callback, searchCompleted>>
            /\ destroyPc' = "releaseCallback"
        BY <1>11, <2>2 DEF DestructorCancels, CancelStep, ReleaseFinder, After
      <3>2. \A a : DestructorEnds(a)
        BY <2>2 DEF DestructorEnds
      <3>3. ~DestructorEnds({})'
        BY <3>1 DEF DestructorEnds
      <3> QED BY <1>0, <2>1, <3>1, <3>2, <3>3 DEF RefInv, ThreadEnds
    <2>3. CASE destroyPc = "releaseCallback"
      <3>1. /\ callback' = callback - 1 /\ UNCHANGED <<finder, searchCompleted>>
            /\ destroyPc' = "clearFlags"
        BY <1>11, <2>3 DEF DestructorCancels, CancelStep, ReleaseCallback, After
      <3>2. DestructorEnds({"releaseCallback"})
        BY <2>3 DEF DestructorEnds
      <3>3. ~DestructorEnds({})' /\ ~DestructorEnds({"releaseCallback"})'
        BY <3>1 DEF DestructorEnds
      <3> QED BY <1>0, <2>1, <3>1, <3>2, <3>3 DEF RefInv, ThreadEnds
    <2>4. CASE destroyPc = "clearFlags"
      <3>1. UNCHANGED refVars /\ ~searchCompleted' /\ destroyPc' = "deleteThread"
        BY <1>11, <2>4 DEF DestructorCancels, CancelStep, ClearFlags, After
      <3>2. ~DestructorEnds({})' /\ ~DestructorEnds({"releaseCallback"})'
        BY <3>1 DEF DestructorEnds
      <3>3. \A a \in {{}, {"releaseCallback"}} : ThreadEnds(a)' => ThreadEnds(a)
        BY <2>1, <3>1 DEF ThreadEnds
      <3> QED BY <2>1, <3>1, <3>2, <3>3 DEF RefInv
    <2> QED BY <1>11, <2>2, <2>3, <2>4 DEF DestructorCancels
  <1>12. CASE UNCHANGED vars
    BY <1>1, <1>12
  <1> QED BY <1>2, <1>3, <1>4, <1>5, <1>6, <1>7, <1>8, <1>9, <1>10, <1>11, <1>12
          DEF Next, SearchThread, Destructor
-----------------------------------------------------------------------------
(* The lists *)

LEMMA CountGrows ==
    ASSUME NEW S, NEW s \in Seq(S), NEW x \in S
    PROVE  /\ (\A k \in 1 .. Len(s) : s[k] # x) => Count(Append(s, x), x) = 1
           /\ \A y : y # x => Count(Append(s, x), y) = Count(s, y)
  <1>1. PICK n \in Nat : n = Len(s)
    BY LenProperties
  <1>2. PICK r : r = Append(s, x)
    OBVIOUS
  <1>3. Len(r) = n + 1 /\ r[n + 1] = x /\ \A i \in 1 .. n : r[i] = s[i]
    BY <1>1, <1>2, AppendProperties
  <1>4. \A k \in 1 .. n + 1 : k \in 1 .. n \/ k = n + 1
    OBVIOUS
  <1>5. n + 1 \in 1 .. n + 1 /\ \A k \in 1 .. n : k \in 1 .. n + 1
    OBVIOUS
  <1>6. ASSUME \A k \in 1 .. n : s[k] # x PROVE Count(r, x) = 1
    <2>1. {i \in 1 .. n + 1 : r[i] = x} = {n + 1}
      BY <1>3, <1>4, <1>5, <1>6
    <2>2. Cardinality({n + 1}) = 1
      BY FS_Singleton
    <2> QED BY <1>3, <2>1, <2>2 DEF Count
  <1>7. ASSUME NEW y, y # x PROVE Count(r, y) = Count(s, y)
    <2>1. {i \in 1 .. n + 1 : r[i] = y} = {i \in 1 .. n : s[i] = y}
      BY <1>3, <1>4, <1>5, <1>7
    <2> QED BY <1>1, <1>3, <2>1 DEF Count
  <1> QED BY <1>1, <1>2, <1>6, <1>7

\* What ListsAgree says of one device.
Placed(d, groups) == \E j \in 1 .. Len(groups) :
    /\ \A k \in 1 .. Len(groups) : groups[k].name = d.group <=> k = j
    /\ Count(groups[j].members, d.udn) = 1
    /\ d.isCoordinator => groups[j].coordinator = d.udn

Unique(devices) == \A i, j \in 1 .. Len(devices) : devices[i].udn = devices[j].udn => i = j

LEMMA ListsAgreeIsPlaced ==
    ListsAgree <=> Unique(deviceList) /\ \A i \in 1 .. Len(deviceList) : Placed(deviceList[i], groupList)
  <1>1. ASSUME NEW d
        PROVE  Placed(d, groupList) <=>
                 LET named == {j \in 1 .. Len(groupList) : groupList[j].name = d.group}
                 IN \E j \in named : /\ named = {j}
                                     /\ Count(groupList[j].members, d.udn) = 1
                                     /\ d.isCoordinator => groupList[j].coordinator = d.udn
    <2> DEFINE named == {j \in 1 .. Len(groupList) : groupList[j].name = d.group}
    <2>1. \A j \in 1 .. Len(groupList) :
            (\A k \in 1 .. Len(groupList) : groupList[k].name = d.group <=> k = j) <=> named = {j}
      OBVIOUS
    <2>2. \A j : named = {j} => j \in 1 .. Len(groupList)
      OBVIOUS
    <2> QED BY <2>1, <2>2 DEF Placed
  <1> QED BY <1>1 DEF ListsAgree, Unique

\* The group of the list that a device is put into.
LEMMA JoinedGroups ==
    ASSUME NEW groups \in Seq(Groups), NEW p \in Players, NEW j \in 1 .. Len(groups),
           \A k \in 1 .. Len(groups) : groups[k].name = groups[j].name => k = j
    PROVE  \E r \in Seq(Groups) :
             /\ r = Joined(groups, p, groups[j].name) /\ Len(r) = Len(groups)
             /\ r[j] = [name |-> groups[j].name, members |-> Append(groups[j].members, p),
                        coordinator |-> IF p = groups[j].name THEN p ELSE groups[j].coordinator]
             /\ \A k \in 1 .. Len(groups) : k # j => r[k] = groups[k]
  <1>1. PICK n \in Nat : n = Len(groups)
    BY LenProperties
  <1>2. PICK r : r = Joined(groups, p, groups[j].name)
    OBVIOUS
  <1>3. \A k \in 1 .. n : groups[k] \in Groups
    BY <1>1, ElementOfSeq
  <1>4. PICK g \in Groups : g = groups[j]
    BY <1>1, <1>3
  <1>6. [name |-> g.name, members |-> Append(g.members, p),
         coordinator |-> IF p = g.name THEN p ELSE g.coordinator] \in Groups
    <2>1. Append(g.members, p) \in Seq(Players)
      BY AppendProperties DEF Groups
    <2> QED BY <2>1 DEF Groups
  <1>7. \A i \in 1 .. j - 1 : i \in 1 .. n /\ i # j
    BY <1>1
  <1>8. r = [k \in 1 .. n |-> IF k = j THEN [name |-> g.name, members |-> Append(g.members, p),
                                            coordinator |-> IF p = g.name THEN p ELSE g.coordinator]
                              ELSE groups[k]]
    BY <1>1, <1>2, <1>4, <1>7 DEF Joined
  <1>9. r \in [1 .. n -> Groups]
    BY <1>3, <1>6, <1>8
  <1>10. r \in Seq(Groups) /\ Len(r) = n
    BY <1>9
  <1> QED BY <1>1, <1>2, <1>4, <1>8, <1>10

\* Everything about the lists that a step may change.
ListInv == ShapeInv /\ Unique(deviceList) /\ NameInv /\ MemberInv
           /\ \A i \in 1 .. Len(deviceList) : Placed(deviceList[i], groupList)

LEMMA ParseKeepsLists ==
    ASSUME ListInv, NEW p \in Players, p \in todo, todo \subseteq DOMAIN topology, ParseZonePlayer(p)
    PROVE  ListInv'
  <1>0. /\ deviceList \in Seq(Devices) /\ groupList \in Seq(Groups) /\ group \in LocalGroups
        /\ topology \in Zones \cup {<< >>} /\ UNCHANGED topology
    BY DEF ListInv, ShapeInv, ParseZonePlayer
  <1>1. CASE Skipped(p)
    <2>1. UNCHANGED <<deviceList, groupList, group>>
      BY <1>1 DEF ParseZonePlayer
    <2> QED BY <1>0, <2>1 DEF ListInv, ShapeInv, NameInv, MemberInv, Holds
  <1>2. CASE ~Skipped(p)
    <2>1. PICK name \in Players : name = topology[p]
      BY <1>0, ZoneValues
    <2>2. PICK d \in Devices : /\ d = [udn |-> p, group |-> name, isCoordinator |-> p = name]
                               /\ d.udn = p /\ d.group = name /\ (d.isCoordinator <=> p = name)
      <3>1. PICK b \in BOOLEAN : b = (p = name)
        OBVIOUS
      <3>2. [udn |-> p, group |-> name, isCoordinator |-> b] \in Devices
        BY <2>1, <3>1 DEF Devices
      <3> QED BY <3>1, <3>2
    <2>3. deviceList' = Append(deviceList, d)
      BY <1>2, <2>1, <2>2 DEF ParseZonePlayer
    <2>4. PICK n \in Nat : n = Len(deviceList)
      BY <1>0, LenProperties
    <2>5. /\ deviceList' \in Seq(Devices) /\ Len(deviceList') = n + 1 /\ deviceList'[n + 1] = d
          /\ \A i \in 1 .. n : deviceList'[i] = deviceList[i]
      BY <1>0, <2>3, <2>4, AppendProperties
    <2>6. \A k \in 1 .. n + 1 : k \in 1 .. n \/ k = n + 1
      OBVIOUS
    <2>7. \A i \in 1 .. n : deviceList[i].udn # p
      BY <1>2, <2>4 DEF Skipped, InList
    <2>8. Unique(deviceList')
      BY <2>2, <2>4, <2>5, <2>6, <2>7 DEF Unique, ListInv
    <2>9. \A q : Holds(deviceList', q) <=> Holds(deviceList, q) \/ q = p
      <3>1. n + 1 \in 1 .. n + 1 /\ \A k \in 1 .. n : k \in 1 .. n + 1
        OBVIOUS
      <3> QED BY <2>2, <2>4, <2>5, <2>6, <3>1 DEF Holds
    <2>10. \A i \in 1 .. n + 1 :
             deviceList'[i].isCoordinator => deviceList'[i].group = deviceList'[i].udn
      BY <2>2, <2>4, <2>5, <2>6 DEF ListInv, NameInv
    <2>11. PICK m \in Nat : m = Len(groupList)
      BY <1>0, LenProperties
    <2>12. \A k \in 1 .. m : groupList[k] \in Groups
      BY <1>0, <2>11, ElementOfSeq
    <2>13. ~Holds(deviceList, p)
      BY <1>2 DEF Skipped, InList, Holds
    <2>14. CASE \E i \in 1 .. Len(groupList) : groupList[i].name = name
      <3>1. UNCHANGED group /\ groupList' = Joined(groupList, p, name)
        BY <1>2, <2>1, <2>14 DEF ParseZonePlayer
      <3>2. PICK j \in 1 .. m : groupList[j].name = name
        BY <2>11, <2>14
      <3>3. \A k \in 1 .. m : groupList[k].name = name => k = j
        BY <2>11, <3>2 DEF ListInv, NameInv
      <3>4. /\ groupList' \in Seq(Groups) /\ Len(groupList') = m
            /\ groupList'[j] = [name |-> name, members |-> Append(groupList[j].members, p),
                                coordinator |-> IF p = name THEN p ELSE groupList[j].coordinator]
            /\ \A k \in 1 .. m : k # j => groupList'[k] = groupList[k]
        <4>1. j \in 1 .. Len(groupList)
          BY <2>11
        <4>2. \A k \in 1 .. Len(groupList) : groupList[k].name = groupList[j].name => k = j
          BY <2>11, <3>2, <3>3
        <4>3. groupList \in Seq(Groups)
          BY <1>0
        <4>4. PICK r \in Seq(Groups) :
               /\ r = Joined(groupList, p, groupList[j].name) /\ Len(r) = Len(groupList)
               /\ r[j] = [name |-> groupList[j].name, members |-> Append(groupList[j].members, p),
                          coordinator |-> IF p = groupList[j].name THEN p
                                          ELSE groupList[j].coordinator]
               /\ \A k \in 1 .. Len(groupList) : k # j => r[k] = groupList[k]
          BY ONLY ZenonT(30), p \in Players, <4>1, <4>2, <4>3, JoinedGroups
        <4>5. r = groupList'
          BY <3>1, <3>2, <4>4
        <4> QED BY <2>11, <3>2, <4>4, <4>5
      <3>5. groupList[j].members \in Seq(Players)
        BY <2>12 DEF Groups
      <3>6. \A k \in 1 .. m : groupList'[k].name = groupList[k].name
        BY <3>2, <3>4
      <3>7. /\ Count(groupList'[j].members, p) = 1
            /\ \A q : q # p => Count(groupList'[j].members, q) = Count(groupList[j].members, q)
        <4>1. \A k \in 1 .. Len(groupList[j].members) : groupList[j].members[k] # p
          BY <2>11, <2>13 DEF ListInv, MemberInv
        <4>2. groupList'[j].members = Append(groupList[j].members, p)
          BY <3>4
        <4> QED BY <3>5, <4>1, <4>2, CountGrows
      <3>8. ASSUME NEW i \in 1 .. n PROVE Placed(deviceList[i], groupList')
        <4>1. PICK l \in 1 .. m :
                /\ \A k \in 1 .. m : groupList[k].name = deviceList[i].group <=> k = l
                /\ Count(groupList[l].members, deviceList[i].udn) = 1
                /\ deviceList[i].isCoordinator => groupList[l].coordinator = deviceList[i].udn
          BY <2>4, <2>11 DEF ListInv, Placed
        <4>2. Count(groupList'[l].members, deviceList[i].udn) = 1
          BY <2>7, <3>4, <3>7, <4>1
        <4>3. deviceList[i].isCoordinator => groupList'[l].coordinator = deviceList[i].udn
          <5>1. CASE l = j
            <6>1. deviceList[i].isCoordinator => deviceList[i].udn = name
              BY <2>4, <3>2, <4>1, <5>1 DEF ListInv, NameInv
            <6> QED BY <2>7, <3>4, <4>1, <5>1, <6>1
          <5>2. CASE l # j
            BY <3>4, <4>1, <5>2
          <5> QED BY <5>1, <5>2
        <4> QED BY <3>4, <3>6, <4>1, <4>2, <4>3 DEF Placed
      <3>9. Placed(d, groupList')
        <4>1. \A k \in 1 .. m : groupList'[k].name = d.group <=> k = j
          BY <2>2, <3>2, <3>3, <3>6
        <4>2. d.isCoordinator => groupList'[j].coordinator = d.udn
          BY <2>2, <3>4
        <4> QED BY <2>2, <3>4, <3>7, <4>1, <4>2 DEF Placed
      <3>10. ASSUME NEW i \in 1 .. m, NEW k \in 1 .. Len(groupList'[i].members)
             PROVE  Holds(deviceList', groupList'[i].members[k])
        <4>1. CASE i = j
          <5>1. PICK l \in Nat : l = Len(groupList[j].members)
            BY <3>5, LenProperties
          <5>2. groupList'[i].members = Append(groupList[j].members, p)
            BY <3>4, <4>1
          <5>3. k \in 1 .. l + 1
            BY <3>5, <5>1, <5>2, AppendProperties
          <5>4. CASE k = l + 1
            <6>1. groupList'[i].members[k] = p
              BY <3>5, <5>1, <5>2, <5>4, AppendProperties
            <6> QED BY <2>9, <6>1
          <5>5. CASE k # l + 1
            <6>1. k \in 1 .. l
              BY <5>3, <5>5
            <6>2. groupList'[i].members[k] = groupList[j].members[k]
              BY <3>5, <5>1, <5>2, <6>1, AppendProperties
            <6>3. Holds(deviceList, groupList[j].members[k])
              BY <2>11, <5>1, <6>1 DEF ListInv, MemberInv
            <6> QED BY <2>9, <6>2, <6>3
          <5> QED BY <5>4, <5>5
        <4>2. CASE i # j
          BY <2>9, <2>11, <3>4, <4>2 DEF ListInv, MemberInv
        <4> QED BY <4>1, <4>2
      <3>11. MemberInv'
        BY <2>9, <3>1, <3>4, <3>10 DEF ListInv, MemberInv
      <3>12. NameInv'
        BY <2>5, <2>10, <2>11, <3>4, <3>6 DEF ListInv, NameInv
      <3>13. \A i \in 1 .. n + 1 : Placed(deviceList'[i], groupList')
        BY <2>5, <2>6, <3>8, <3>9
      <3> QED BY <1>0, <2>5, <2>8, <3>1, <3>4, <3>11, <3>12, <3>13 DEF ListInv, ShapeInv
    <2>15. CASE ~\E i \in 1 .. Len(groupList) : groupList[i].name = name
      <3>1. PICK g \in LocalGroups : g = Grown(p, name)
        <4>1. Append(group.members, p) \in Seq(Players)
          BY <1>0, AppendProperties DEF LocalGroups
        <4> QED BY <1>0, <4>1 DEF Grown, LocalGroups
      <3>2. PICK h \in Groups :
              h = [name |-> name, members |-> g.members, coordinator |-> g.coordinator]
        BY DEF Groups, LocalGroups
      <3>3. group' = g /\ groupList' = Append(groupList, h)
        BY <1>2, <2>1, <2>15, <3>1, <3>2 DEF ParseZonePlayer
      <3>4. /\ groupList' \in Seq(Groups) /\ Len(groupList') = m + 1 /\ groupList'[m + 1] = h
            /\ \A k \in 1 .. m : groupList'[k] = groupList[k]
        BY <1>0, <2>11, <3>3, AppendProperties
      <3>5. \A k \in 1 .. m + 1 : k \in 1 .. m \/ k = m + 1
        OBVIOUS
      <3>6. m + 1 \in 1 .. m + 1 /\ m + 1 \notin 1 .. m /\ \A k \in 1 .. m : k \in 1 .. m + 1
        OBVIOUS
      <3>7. \A k \in 1 .. m : groupList[k].name # name
        BY <2>11, <2>15
      <3>8. group.members \in Seq(Players) /\ g.members = Append(group.members, p)
        BY <1>0, <3>1 DEF Grown, LocalGroups
      <3>9. \A k \in 1 .. Len(g.members) : Holds(deviceList', g.members[k])
        <4> SUFFICES ASSUME NEW k \in 1 .. Len(g.members) PROVE Holds(deviceList', g.members[k])
          OBVIOUS
        <4>1. PICK l \in Nat : l = Len(group.members)
          BY <3>8, LenProperties
        <4>2. k \in 1 .. l + 1
          BY <3>8, <4>1, AppendProperties
        <4>3. CASE k = l + 1
          <5>1. g.members[k] = p
            BY <3>8, <4>1, <4>3, AppendProperties
          <5> QED BY <2>9, <5>1
        <4>4. CASE k # l + 1
          <5>1. k \in 1 .. l
            BY <4>2, <4>4
          <5>2. g.members[k] = group.members[k]
            BY <3>8, <4>1, <5>1, AppendProperties
          <5>3. Holds(deviceList, group.members[k])
            BY <4>1, <5>1 DEF ListInv, MemberInv
          <5> QED BY <2>9, <5>2, <5>3
        <4> QED BY <4>3, <4>4
      <3>10. Count(g.members, p) = 1
        <4>1. \A k \in 1 .. Len(group.members) : group.members[k] # p
          BY <2>13 DEF ListInv, MemberInv
        <4> QED BY <3>8, <4>1, CountGrows
      <3>11. ASSUME NEW i \in 1 .. n PROVE Placed(deviceList[i], groupList')
        <4>1. PICK l \in 1 .. m :
                /\ \A k \in 1 .. m : groupList[k].name = deviceList[i].group <=> k = l
                /\ Count(groupList[l].members, deviceList[i].udn) = 1
                /\ deviceList[i].isCoordinator => groupList[l].coordinator = deviceList[i].udn
          BY <2>4, <2>11 DEF ListInv, Placed
        <4>2. h.name # deviceList[i].group
          BY <3>2, <3>7, <4>1
        <4>3. \A k \in 1 .. m + 1 : groupList'[k].name = deviceList[i].group <=> k = l
          BY <3>4, <3>5, <3>6, <4>1, <4>2
        <4> QED BY <3>4, <3>6, <4>1, <4>3 DEF Placed
      <3>12. Placed(d, groupList')
        <4>1. \A k \in 1 .. m + 1 : groupList'[k].name = d.group <=> k = m + 1
          BY <2>2, <3>2, <3>4, <3>5, <3>6, <3>7
        <4>2. d.isCoordinator => groupList'[m + 1].coordinator = d.udn
          BY <2>2, <3>1, <3>2, <3>4 DEF Grown
        <4>3. Count(groupList'[m + 1].members, d.udn) = 1
          BY <2>2, <3>2, <3>4, <3>10
        <4> QED BY <3>4, <3>6, <4>1, <4>2, <4>3 DEF Placed
      <3>13. MemberInv'
        <4>1. \A i \in 1 .. m + 1 : \A k \in 1 .. Len(groupList'[i].members) :
                 Holds(deviceList', groupList'[i].members[k])
          BY <2>9, <2>11, <3>2, <3>4, <3>5, <3>9 DEF ListInv, MemberInv
        <4> QED BY <3>3, <3>4, <3>9, <4>1 DEF MemberInv
      <3>14. NameInv'
        <4>1. \A i, j \in 1 .. m + 1 : groupList'[i].name = groupList'[j].name => i = j
          BY <2>11, <3>2, <3>4, <3>5, <3>7 DEF ListInv, NameInv
        <4> QED BY <2>5, <2>10, <3>4, <4>1 DEF NameInv
      <3>15. \A i \in 1 .. n + 1 : Placed(deviceList'[i], groupList')
        BY <2>5, <2>6, <3>11, <3>12
      <3> QED BY <1>0, <2>5, <2>8, <3>3, <3>4, <3>13, <3>14, <3>15 DEF ListInv, ShapeInv
    <2> QED BY <2>14, <2>15
  <1> QED BY <1>1, <1>2

LEMMA ListStep == CtlInv /\ ListInv /\ [Next]_vars => ListInv'
  <1> SUFFICES ASSUME CtlInv, ListInv, [Next]_vars PROVE ListInv'
    OBVIOUS
  <1> USE DEF vars, netVars, flagVars, refVars, parseVars, listVars, mainVars, exchVars
  <1>1. ASSUME UNCHANGED <<deviceList, groupList>>, UNCHANGED group \/ group' = NoGroup,
               topology' \in Zones \cup {<< >>}
        PROVE  ListInv'
    <2>1. NoGroup \in LocalGroups /\ \A k \in 1 .. Len(NoGroup.members) : FALSE
      BY EmptySeq DEF NoGroup, LocalGroups
    <2>2. ShapeInv'
      BY <1>1, <2>1 DEF ListInv, ShapeInv
    <2>3. MemberInv'
      BY <1>1, <2>1 DEF ListInv, MemberInv
    <2> QED BY <1>1, <2>2, <2>3 DEF ListInv, NameInv
  <1>2. topology \in Zones \cup {<< >>} /\ zone \in Zones
    BY DEF ListInv, ShapeInv, CtlInv
  <1>3. CASE IntervalPasses \/ \E z \in Zones : ZoneChanges(z)
    BY <1>1, <1>2, <1>3 DEF IntervalPasses, ZoneChanges
  <1>4. CASE LoopCheck \/ TestCompleted \/ PumpEmpty \/ UpnpSearchComplete \/ NoFinder \/ Exchange
    BY <1>1, <1>2, <1>4 DEF LoopCheck, TestCompleted, PumpEmpty, UpnpSearchComplete, NoFinder, Exchange
  <1>5. CASE CancelAsyncSearch \/ \E ok \in BOOLEAN : StartAsyncSearch(ok)
    BY <1>1, <1>2, <1>5 DEF CancelAsyncSearch, StartAsyncSearch
  <1>6. CASE \E r \in Responses : HttpRequest(r)
    BY <1>1, <1>2, <1>6 DEF HttpRequest
  <1>7. CASE ParseBegins \/ Announce
    BY <1>1, <1>2, <1>7 DEF ParseBegins, Announce
  <1>8. CASE \E p \in Players : UpnpDeviceAdded(p) \/ UpnpDeviceRemoved(p)
    BY <1>1, <1>2, <1>8 DEF UpnpDeviceAdded, UpnpDeviceRemoved
  <1>9. ASSUME NEW p \in Players, ParseZonePlayer(p) PROVE ListInv'
    <2>1. p \in todo /\ todo \subseteq DOMAIN topology
      BY <1>9 DEF ParseZonePlayer, CtlInv
    <2> QED BY <1>9, <2>1, ParseKeepsLists
  <1>10. CASE Destructor
    BY <1>1, <1>2, <1>10 DEF Destructor, RaiseShutdown, TestSearching, DestructorCancels, DeleteThread
  <1>11. CASE UNCHANGED vars
    BY <1>1, <1>2, <1>11
  <1> QED BY <1>3, <1>4, <1>5, <1>6, <1>7, <1>8, <1>9, <1>10, <1>11 DEF Next, SearchThread

LEMMA CallStep == CtlInv /\ ShapeInv /\ CallInv /\ [Next]_vars => CallInv'
  <1> SUFFICES ASSUME CtlInv, ShapeInv, CallInv, [Next]_vars PROVE CallInv'
    OBVIOUS
  <1> USE DEF vars, netVars, flagVars, refVars, parseVars, listVars, mainVars, exchVars
  <1>0. announced \in [Players -> Nat] /\ current \in Players \cup {Nobody} /\ Nobody \notin Players
    BY PlayersAssumption DEF CtlInv
  <1>1. ASSUME UNCHANGED <<announced, current>>,
               \A p \in Players : IsCoordinator(p) => IsCoordinator(p)'
        PROVE  CallInv'
    BY <1>1 DEF CallInv, AnnouncedOnce
  <1>2. CASE UNCHANGED <<announced, current, deviceList>>
    BY <1>1, <1>2 DEF IsCoordinator
  <1>3. ASSUME NEW p \in Players, UpnpDeviceAdded(p) PROVE CallInv'
    <2>1. CASE InList(p)
      BY <1>2, <1>3, <2>1 DEF UpnpDeviceAdded
    <2>2. CASE ~InList(p)
      <3>1. current' = p /\ UNCHANGED <<announced, deviceList>>
        BY <1>3, <2>2 DEF UpnpDeviceAdded
      <3>2. announced[p] # 1 /\ announced[p] <= 1
        BY <2>2 DEF CallInv, AnnouncedOnce, IsCoordinator, InList
      <3>3. announced[p] = 0
        BY <1>0, <3>2
      <3> QED BY <3>1, <3>3 DEF CallInv, AnnouncedOnce, IsCoordinator
    <2> QED BY <2>1, <2>2
  <1>4. ASSUME NEW p \in Players, ParseZonePlayer(p) PROVE CallInv'
    <2>1. PICK n \in Nat : n = Len(deviceList)
      BY LenProperties DEF ShapeInv
    <2>2. CASE Skipped(p)
      BY <1>2, <1>4, <2>2 DEF ParseZonePlayer
    <2>3. CASE ~Skipped(p)
      <3>1. PICK d : d = [udn |-> p, group |-> topology[p], isCoordinator |-> p = topology[p]]
        OBVIOUS
      <3>2. deviceList' = Append(deviceList, d) /\ UNCHANGED <<announced, current>>
        BY <1>4, <2>3, <3>1 DEF ParseZonePlayer
      <3>3. /\ Len(deviceList') = n + 1 /\ \A i \in 1 .. n : deviceList'[i] = deviceList[i]
        <4>1. deviceList \in Seq(Devices \cup {d}) /\ d \in Devices \cup {d}
          BY DEF ShapeInv
        <4> QED BY ONLY <2>1, <3>2, <4>1, AppendProperties
      <3>4. \A i \in 1 .. n : i \in 1 .. n + 1
        OBVIOUS
      <3>5. \A q \in Players : IsCoordinator(q) => IsCoordinator(q)'
        BY <2>1, <3>3, <3>4 DEF IsCoordinator
      <3> QED BY <1>1, <3>2, <3>5
    <2> QED BY <2>2, <2>3
  <1>5. CASE Announce
    <2>1. current' = Nobody /\ UNCHANGED deviceList
      BY <1>5 DEF Announce
    <2>2. CASE IsCoordinator(current) /\ current \in Players
      <3>1. announced' = [announced EXCEPT ![current] = announced[current] + 1]
        BY <1>5, <2>2 DEF Announce
      <3>2. announced[current] = 0
        BY <1>0, <2>2 DEF CallInv
      <3>3. announced'[current] = 1
        BY <1>0, <2>2, <3>1, <3>2
      <3>4. \A p \in Players : p # current => announced'[p] = announced[p]
        BY <1>0, <3>1
      <3>5. \A p \in Players : IsCoordinator(p)' <=> IsCoordinator(p)
        BY <2>1 DEF IsCoordinator
      <3> QED BY <2>1, <2>2, <3>3, <3>4, <3>5 DEF CallInv, AnnouncedOnce
    <2>3. CASE ~(IsCoordinator(current) /\ current \in Players)
      <3>1. \A p \in Players : announced'[p] = announced[p]
        BY <1>0, <1>5, <2>3 DEF Announce
      <3>2. \A p \in Players : IsCoordinator(p)' <=> IsCoordinator(p)
        BY <2>1 DEF IsCoordinator
      <3> QED BY <2>1, <3>1, <3>2 DEF CallInv, AnnouncedOnce
    <2> QED BY <2>2, <2>3
  <1>6. CASE IntervalPasses \/ \E z \in Zones : ZoneChanges(z)
    BY <1>2, <1>6 DEF IntervalPasses, ZoneChanges
  <1>7. CASE LoopCheck \/ TestCompleted \/ PumpEmpty \/ UpnpSearchComplete \/ NoFinder \/ Exchange
    BY <1>2, <1>7 DEF LoopCheck, TestCompleted, PumpEmpty, UpnpSearchComplete, NoFinder, Exchange
  <1>8. CASE CancelAsyncSearch \/ ParseBegins \/ \E ok \in BOOLEAN : StartAsyncSearch(ok)
    BY <1>2, <1>8 DEF CancelAsyncSearch, ParseBegins, StartAsyncSearch
  <1>9. CASE \/ \E r \in Responses : HttpRequest(r)
             \/ \E p \in Players : UpnpDeviceRemoved(p)
    BY <1>2, <1>9 DEF HttpRequest, UpnpDeviceRemoved
  <1>10. CASE Destructor
    BY <1>2, <1>10 DEF Destructor, RaiseShutdown, TestSearching, DestructorCancels, DeleteThread
  <1>11. CASE UNCHANGED vars
    BY <1>2, <1>11
  <1> QED BY <1>3, <1>4, <1>5, <1>6, <1>7, <1>8, <1>9, <1>10, <1>11 DEF Next, SearchThread

LEMMA NextHasExchStep == Next => ExchStep
  <1> SUFFICES ASSUME Next PROVE ExchStep
    OBVIOUS
  <1>1. CASE IntervalPasses \/ \E z \in Zones : ZoneChanges(z)
    BY <1>1 DEF IntervalPasses, ZoneChanges, ExchStep
  <1>2. CASE Destructor
    BY <1>2 DEF Destructor, RaiseShutdown, TestSearching, DestructorCancels, DeleteThread, ExchStep
  <1>3. CASE \/ LoopCheck \/ NoFinder \/ TestCompleted \/ CancelAsyncSearch \/ UpnpSearchComplete
             \/ PumpEmpty \/ Announce \/ \E ok \in BOOLEAN : StartAsyncSearch(ok)
             \/ \E p \in Players : UpnpDeviceAdded(p) \/ UpnpDeviceRemoved(p) \/ ParseZonePlayer(p)
    BY <1>3 DEF LoopCheck, NoFinder, TestCompleted, CancelAsyncSearch, UpnpSearchComplete,
                PumpEmpty, Announce, StartAsyncSearch, UpnpDeviceAdded, UpnpDeviceRemoved,
                ParseZonePlayer, ExchStep
  <1>4. CASE Exchange \/ ParseBegins \/ \E r \in Responses : HttpRequest(r)
    BY <1>4 DEF Exchange, ParseBegins, HttpRequest, ExchStep
  <1> QED BY <1>1, <1>2, <1>3, <1>4 DEF Next, SearchThread

LEMMA DiscoveryInitial == Init => Inv
  <1> SUFFICES ASSUME Init PROVE Inv
    OBVIOUS
  <1>1. CtlInv
    <2>1. DOMAIN << >> = {}
      BY EmptySeq
    <2>2. 0 \in 0 .. MaxChanges /\ 0 \in 0 .. MaxSearches
      BY BoundsAssumption
    <2> QED BY <2>1, <2>2 DEF Init, CtlInv
  <1>2. Len(<< >>) = 0 /\ \A i : i \notin 1 .. 0
    BY EmptySeq
  <1>3. ListInv
    <2>1. NoGroup \in LocalGroups /\ NoGroup.members = << >>
      BY EmptySeq DEF NoGroup, LocalGroups
    <2>2. ShapeInv
      BY <2>1, EmptySeq DEF Init, ShapeInv
    <2>3. Unique(deviceList) /\ NameInv
      BY <1>2 DEF Init, Unique, NameInv
    <2>4. MemberInv
      BY <1>2, <2>1 DEF Init, MemberInv
    <2>5. \A i \in 1 .. Len(deviceList) : Placed(deviceList[i], groupList)
      BY <1>2 DEF Init
    <2> QED BY <2>2, <2>3, <2>4, <2>5 DEF ListInv
  <1>4. PlaceInv /\ CallInv
    BY DEF Init, PlaceInv, CallInv, AnnouncedOnce
  <1>5. RefInv
    BY DEF Init, RefInv, ThreadEnds, DestructorEnds, CancelSteps
  <1>6. ExchInv
    <2>1. Blank
      BY DEF Init, Exch!ExchInit, Blank
    <2> QED BY <2>1, BlankIsOrdered DEF Init, Exch!ExchInit
  <1> QED BY <1>1, <1>3, <1>4, <1>5, <1>6, ListsAgreeIsPlaced DEF Inv, ListInv

THEOREM Invariance == Spec => []Inv
  <1>1. Init => Inv
    BY DiscoveryInitial
  <1>2. ListInv' => ListsAgree'
    <2>1. ListInv => ListsAgree
      BY ListsAgreeIsPlaced DEF ListInv
    <2> QED BY <2>1, PTL
  <1>3. Inv /\ [Next]_vars => Inv'
    <2> SUFFICES ASSUME Inv, [Next]_vars PROVE Inv'
      OBVIOUS
    <2>1. ListInv /\ CtlInv
      BY ListsAgreeIsPlaced DEF Inv, ListInv
    <2>2. ListInv'
      BY <2>1, ListStep
    <2>3. ExchInv'
      <3>1. ExchStep
        BY NextHasExchStep DEF vars, ExchStep
      <3> QED BY <3>1, ExchangeStep DEF Inv
    <2>4. CtlInv' /\ PlaceInv' /\ RefInv' /\ CallInv'
      BY CtlStep, RefStep, CallStep DEF Inv
    <2> QED BY <2>2, <2>3, <2>4, <1>2 DEF Inv, ListInv
  <1> QED BY <1>1, <1>3, PTL DEF Spec
-----------------------------------------------------------------------------
(* Theorems *)

\* However recv() cuts an answer and the receive buffer is flushed, what
\* NetworkRequest() returns as the document is the bytes after the status line,
\* each once and in order; and the counts of references and lists have their types.
THEOREM ExchangeInOrder == Spec => []BytesInOrder
  <1>1. Inv => BytesInOrder
    <2> SUFFICES ASSUME Inv PROVE BytesInOrder
      OBVIOUS
    <2>1. ExchInv
      BY DEF Inv
    <2>2. Exch!BytesInOrder
      BY <2>1, ReceivedIsAll DEF ExchInv, OrderInv, Exch!BytesInOrder
    <2> QED BY <2>2, InvHasTypes DEF BytesInOrder
  <1> QED BY <1>1, Invariance, PTL

\* However often a search finds a player and whatever the topologies say, the
\* client is told of it at most once, when the list has it as a coordinator.
THEOREM PlayerAnnouncedOnce == Spec => []AnnouncedOnce
  BY Invariance, PTL DEF Inv, CallInv

\* The device list and the group list agree, after each element of any sequence
\* of topologies.
THEOREM DevicesAreInTheirGroups == Spec => []ListsAgree
  BY Invariance, PTL DEF Inv
==============================================================================
