------------------------- MODULE AirPlayServerProofs -------------------------
(***************************************************************************)
(* Proofs about AirPlayServer for any connections, cookies, scripts, reads *)
(* and sizes of the buffer: what a deleted connection leaves behind, whose *)
(* the sockets are, however calls of handleRequestBytes() nest, and that   *)
(* an object handles exactly the requests that were written for it.        *)
(***************************************************************************)
EXTENDS AirPlayServer, SequenceTheorems, FiniteSetTheorems, WellFoundedInduction, TLAPS

(* Types *)

RequestIds == [on : Conns \cup {None}, n : Int]
Text(S) == Seq(S \X Int \X BOOLEAN)
Requests == {r \in [kind : Kinds, cookie : Cookies \cup {None}] : r.cookie # None <=> r.kind \in OfCookie}
Statuses == {"unset", "ok", "signed", "unended", "sessionNotFound", "sdp", "notFound", "invalid",
             "bad", "notSupported"}
Objects == [obj : {"none", "live", "deleted"}, in : Conns \cup {None}, out : Conns \cup {None},
            active : BOOLEAN, cookie : Cookies \cup {None}, buf : Text(RequestIds), rem : 0 .. 3,
            resp : [to : RequestIds, status : Statuses], config : BOOLEAN, threads : Nat]
Frames == [c : Conns, new : Nat, pipelined : BOOLEAN,
           pc : {"bytes", "request", "posted", "leave"}]
SockStates == {"none", "open", "closed", "given"}

TypeInv ==
    /\ conn \in [Conns -> Objects]
    /\ sock \in [Conns -> SockStates]
    /\ watch \in [Conns -> Conns \cup {None}]
    /\ table \in [Cookies -> Conns \cup {None}]
    /\ delayed \subseteq [c : Conns, of : RequestIds, reuse : BOOLEAN]
    /\ pending \in 0 .. MaxPending /\ up \in BOOLEAN
    /\ stack \in Seq(Frames)
    /\ sent \in [Conns -> Seq(Requests)]
    /\ wire \in [Conns -> Text(RequestIds)]
    /\ handled \in [Conns -> Seq(RequestIds)]

(* The calls *)

\* A stack of calls of which only the innermost is not in a POST
Nested(st) == st \in Seq(Frames) /\ \A i \in 1 .. Len(st) - 1 : st[i].pc = "posted"
OuterOf(st) == {st[i].c : i \in 1 .. Len(st) - 1}
PostingOf(st) == {st[i].c : i \in {j \in 1 .. Len(st) : st[j].pc = "posted"}}

\* Objects with a POST under way: they still name sockets that are not theirs any more.
Outer == OuterOf(stack)
Posting == PostingOf(stack)
Holds(c) == Live(c) /\ c \notin Posting

\* The call that runs, if it is not one that waits for its POST's extra bytes
Running == stack # <<>> /\ Top.pc # "posted"

\* An object that has given up its sockets and is about to be deleted
Ending(c) ==
    /\ stack # <<>> /\ Top.c = c /\ Top.pc = "leave"
    /\ conn[c].in = None /\ conn[c].out = None /\ ~conn[c].active

\* All calls are of objects there are.
StackInv ==
    /\ Nested(stack)
    /\ \A c \in Outer : Live(c)
    /\ stack # <<>> => Live(Top.c)
    /\ stack # <<>> /\ Top.pc = "bytes" => Top.new + conn[Top.c].rem <= Len(conn[Top.c].buf)
    /\ stack # <<>> /\ Top.pc = "request" => Complete(conn[Top.c].buf)

(* The data *)

OfSocket(s) == {Garbage} \cup {Id(s, n) : n \in 1 .. Len(sent[s])}
Known == {Garbage} \cup UNION {OfSocket(s) : s \in Conns}

\* What an object may have read: from its own socket only, while that is its input.
Source(c) == IF Holds(c) /\ conn[c].in = c THEN OfSocket(c) ELSE Known

DataInv ==
    /\ \A s \in Conns : wire[s] \in Text(OfSocket(s))
    /\ \A c \in Conns : conn[c].buf \in Text(Source(c)) /\ handled[c] \in Seq(Source(c))
    /\ \A c \in Conns : Len(conn[c].buf) <= BufferSize /\ conn[c].rem <= Len(conn[c].buf)

(* The sockets *)

Owner(c) ==
    /\ conn[c].in # None /\ conn[c].out = c
    /\ sock[conn[c].in] = "open" /\ sock[c] = "open"
    /\ watch[conn[c].in] = c

\* Objects outside a POST own their sockets, each its own.
OwnerInv ==
    /\ \A c \in Conns : Holds(c) => Owner(c) \/ Ending(c)
    /\ \A c, d \in Conns : Holds(c) /\ Holds(d) /\ c # d => OwnSockets(c) \cap OwnSockets(d) = {}

\* What an object is and is not, wherever it is in a POST
ObjectInv == \A c \in Conns :
    /\ conn[c].out \in {c, None}
    /\ conn[c].obj = "none" => /\ sock[c] = "none" /\ watch[c] = None
                               /\ handled[c] = <<>> /\ conn[c].threads = 0
    /\ ~Live(c) => conn[c].in = None /\ conn[c].out = None
    /\ conn[c].in # None => conn[conn[c].in].obj # "none"

\* The input of the call that runs is nobody else's; those in a POST gave it theirs.
CallInv == Running =>
    LET s == conn[Top.c].in
    IN /\ s = None => Top.pc = "leave"
       /\ s # None => /\ sock[s] = "open" /\ watch[s] = Top.c
                      /\ \A d \in Conns : Holds(d) /\ d # Top.c => s \notin OwnSockets(d)
       /\ Top.pc # "leave" => \A d \in Posting : conn[d].in = s

\* Whom the event loop calls for a socket
WatchInv == \A s, d \in Conns : watch[s] = d =>
    /\ conn[d].obj # "none"
    /\ Holds(d) /\ ~Ending(d) => conn[d].in = s
    /\ \/ Live(d) /\ conn[d].in = s
       \/ PostedToItself(d)
       \/ Deleted(d) /\ d # s /\ GaveUp(d)
    /\ d \in Posting => Got(d, "GET") # {}

(* The cookies *)

GotCookie(c, k) == \E r \in Got(c, "GET") : r.cookie = k
TwoCookies(c) == \E j, k \in Cookies : j # k /\ GotCookie(c, j) /\ GotCookie(c, k)

TableInv == \A k \in Cookies, d \in Conns : table[k] = d =>
    /\ conn[d].obj # "none"
    /\ GotCookie(d, k)
    /\ Live(d) => \E j \in Cookies : conn[d].cookie = j /\ GotCookie(d, j)
    /\ Deleted(d) => TwoCookies(d)

(* What has been handled *)

\* A socket handed to another object came from one that got a POST.
HandedInv ==
    /\ \A d \in Posting : Got(d, "POST") # {}
    /\ \A c \in Conns : conn[c].in \notin {c, None} => Got(c, "GET") # {}
    /\ \A c \in Conns : LET s == conn[c].in IN
          s # None /\ (s # c \/ c \in Posting) => HasSent(s, "POST") /\ Got(s, "POST") # {}

PendingInv ==
    /\ \A p \in delayed : GaveUp(p.c)
    /\ \A c \in Conns : conn[c].threads > 0 => Got(c, "SETUP") # {}

Rivals == \E s, t \in Conns : s # t /\ HasSent(s, "POST") /\ HasSent(t, "POST")
Excused(s) ==
    /\ Got(s, "POST") # {}
    /\ Rivals \/ \E d \in Conns : PostedToItself(d) \/ (Deleted(d) /\ GaveUp(d))

LeakInv == \A s \in Conns :
    \/ sock[s] # "open"
    \/ \E d \in Conns : Holds(d) /\ s \in OwnSockets(d)
    \/ Running /\ conn[Top.c].in = s
    \/ Excused(s)

FaultInv ==
    /\ fault \in {"none", "socket", "cookie", "register", "audio", "config", "datagram", "table"}
    /\ fault = "cookie" => \E c \in Conns : Deleted(c) /\ TwoCookies(c)
    /\ fault = "audio" => \E c \in Conns : Deleted(c) /\ Got(c, "SETUP") # {}

Inv ==
    /\ TypeInv /\ StackInv /\ DataInv
    /\ OwnerInv /\ ObjectInv /\ CallInv /\ WatchInv
    /\ TableInv /\ HandedInv /\ PendingInv /\ LeakInv /\ FaultInv
-----------------------------------------------------------------------------
(* Induction *)

LEMMA LeastNumber ==
    ASSUME NEW T, T \subseteq Nat, T # {}
    PROVE  \E x \in T : \A y \in T : x <= y
  <1> DEFINE R == OpToRel(<, Nat)
  <1>1. IsWellFoundedOn(R, Nat)
    BY NatLessThanWellFounded
  <1>2. \A x, y \in Nat : x < y => <<x, y>> \in R
    BY DEF OpToRel
  <1> HIDE DEF R
  <1>3. PICK x \in T : \A y \in T : ~ (<<y, x>> \in R)
    BY <1>1, WFMin
  <1>4. ASSUME NEW y \in T PROVE x <= y
    <2>1. x \in Nat /\ y \in Nat
      OBVIOUS
    <2>2. ~(y < x)
      BY <1>2, <1>3, <2>1
    <2> QED BY <2>1, <2>2
  <1> QED BY <1>4

LEMMA Induction ==
    ASSUME NEW T, T \subseteq Nat, 0 \in T, \A n \in T : n + 1 \in T
    PROVE  T = Nat
  <1> SUFFICES ASSUME Nat \ T # {} PROVE FALSE
    OBVIOUS
  <1> PICK x \in Nat \ T : \A y \in Nat \ T : x <= y
    BY LeastNumber
  <1> QED OBVIOUS
-----------------------------------------------------------------------------
(* Texts *)

\* The sequences of ss up to the i-th, one after the other.
Flattened(f, ss, n) == f = [i \in 1 .. n |-> IF i = 1 THEN ss[i] ELSE f[i - 1] \o ss[i]]

LEMMA FlattenExists ==
    ASSUME NEW ss
    PROVE  \A n \in Nat : \E f : Flattened(f, ss, n)
  <1> DEFINE T == {n \in Nat : \E f : Flattened(f, ss, n)}
  <1>1. 0 \in T
    <2>1. 1 .. 0 = {}
      OBVIOUS
    <2>2. Flattened([i \in 1 .. 0 |-> ss[i]], ss, 0)
      BY <2>1 DEF Flattened
    <2> QED BY <2>2
  <1>2. ASSUME NEW n \in T PROVE n + 1 \in T
    <2>1. n \in Nat
      OBVIOUS
    <2>2. PICK f : Flattened(f, ss, n)
      OBVIOUS
    <2> DEFINE g == [i \in 1 .. n + 1 |->
                       IF i = 1 THEN ss[i] ELSE f[i - 1] \o ss[i]]
    <2>3. ASSUME NEW i \in 1 .. n PROVE g[i] = f[i]
      <3>1. i \in 1 .. n + 1
        BY <2>1
      <3>2. f = [j \in 1 .. n |-> IF j = 1 THEN ss[j] ELSE f[j - 1] \o ss[j]]
        BY <2>2 DEF Flattened
      <3>3. f[i] = IF i = 1 THEN ss[i] ELSE f[i - 1] \o ss[i]
        BY ONLY <3>2, i \in 1 .. n
      <3> QED BY <3>1, <3>3
    <2>4. ASSUME NEW i \in 1 .. n + 1, i # 1 PROVE g[i] = g[i - 1] \o ss[i]
      <3>1. i - 1 \in 1 .. n
        BY <2>1, <2>4
      <3>2. g[i] = f[i - 1] \o ss[i]
        BY <2>4
      <3>3. g[i - 1] = f[i - 1]
        BY <2>3, <3>1
      <3> QED BY <3>2, <3>3
    <2>5. Flattened(g, ss, n + 1)
      <3>1. g = [i \in 1 .. n + 1 |-> g[i]] /\ (1 \in 1 .. n + 1 => g[1] = ss[1])
        OBVIOUS
      <3> HIDE DEF g
      <3> QED BY <2>4, <3>1 DEF Flattened
    <2> QED BY <2>1, <2>5
  <1> HIDE DEF T
  <1>3. T = Nat
    BY <1>1, <1>2, Induction DEF T
  <1> QED BY <1>3 DEF T

\* FlattenSeq() by that function.
LEMMA FlattenSeqIs ==
    ASSUME NEW S, NEW ss \in Seq(S), Len(ss) # 0
    PROVE  \E f : Flattened(f, ss, Len(ss)) /\ FlattenSeq(ss) = f[Len(ss)]
  <1> DEFINE c == CHOOSE f : f = [i \in 1 .. Len(ss) |-> IF i = 1 THEN ss[i] ELSE f[i - 1] \o ss[i]]
  <1>1. Len(ss) \in Nat
    OBVIOUS
  <1>2. \E f : Flattened(f, ss, Len(ss))
    BY <1>1, FlattenExists
  <1>3. c = [i \in 1 .. Len(ss) |-> IF i = 1 THEN ss[i] ELSE c[i - 1] \o ss[i]]
    BY <1>2 DEF Flattened
  <1>4. FlattenSeq(ss) = c[Len(ss)]
    BY DEF FlattenSeq
  <1> HIDE DEF c
  <1> QED BY <1>3, <1>4 DEF Flattened

LEMMA FlattenedType ==
    ASSUME NEW S, NEW ss \in Seq(Seq(S)), NEW f, Flattened(f, ss, Len(ss))
    PROVE  \A i \in 1 .. Len(ss) : f[i] \in Seq(S)
  <1> DEFINE T == {n \in Nat : n \in 1 .. Len(ss) => f[n] \in Seq(S)}
  <1>0. Len(ss) \in Nat
    OBVIOUS
  <1>1. 0 \in T
    OBVIOUS
  <1>2. ASSUME NEW n \in T PROVE n + 1 \in T
    <2> SUFFICES ASSUME n + 1 \in 1 .. Len(ss) PROVE f[n + 1] \in Seq(S)
      OBVIOUS
    <2>1. ss[n + 1] \in Seq(S)
      BY ElementOfSeq
    <2>2. CASE n = 0
      BY <2>1, <2>2 DEF Flattened
    <2>3. CASE n # 0
      <3>1. n \in 1 .. Len(ss) /\ n + 1 # 1 /\ (n + 1) - 1 = n
        BY <1>0, <2>3
      <3>2. f[n + 1] = f[n] \o ss[n + 1]
        BY <3>1 DEF Flattened
      <3>3. f[n] \in Seq(S)
        BY <3>1
      <3> QED BY <2>1, <3>2, <3>3
    <2> QED BY <2>2, <2>3
  <1> HIDE DEF T
  <1>3. T = Nat
    BY <1>1, <1>2, Induction DEF T
  <1>4. ASSUME NEW i \in 1 .. Len(ss) PROVE f[i] \in Seq(S)
    <2>1. i \in T
      BY <1>0, <1>3
    <2> QED BY <2>1 DEF T
  <1> QED BY <1>4

LEMMA FlattenType ==
    ASSUME NEW S, NEW ss \in Seq(Seq(S))
    PROVE  FlattenSeq(ss) \in Seq(S)
  <1>1. CASE Len(ss) = 0
    <2>1. ss = << >>
      BY <1>1, EmptySeq
    <2> QED BY <1>1, <2>1, EmptySeq DEF FlattenSeq
  <1>2. CASE Len(ss) # 0
    <2>1. PICK f : Flattened(f, ss, Len(ss)) /\ FlattenSeq(ss) = f[Len(ss)]
      BY <1>2, FlattenSeqIs
    <2>2. Len(ss) \in 1 .. Len(ss)
      BY <1>2
    <2> QED BY <2>1, <2>2, FlattenedType
  <1> QED BY <1>1, <1>2
-----------------------------------------------------------------------------
(* Bytes in a buffer *)

LEMMA TextMonotonic ==
    ASSUME NEW S, NEW T, S \subseteq T, NEW b \in Text(S)
    PROVE  b \in Text(T)
  <1>1. S \X Int \X BOOLEAN \subseteq T \X Int \X BOOLEAN
    OBVIOUS
  <1> QED BY <1>1, SeqMonotonic DEF Text

LEMMA TextLen == \A S : \A b \in Text(S) : Len(b) \in Nat /\ DOMAIN b = 1 .. Len(b)
  BY LenProperties DEF Text

LEMMA TextEmpty == \A S : << >> \in Text(S) /\ Len(<< >>) = 0
  BY EmptySeq DEF Text

LEMMA TextUnit ==
    ASSUME NEW S, NEW b \in Text(S), NEW i \in 1 .. Len(b)
    PROVE  b[i] \in S \X Int \X BOOLEAN /\ b[i][1] \in S /\ b[i][2] \in Int
  <1>1. b[i] \in S \X Int \X BOOLEAN
    BY ElementOfSeq DEF Text
  <1> QED BY <1>1

LEMMA TextConcat ==
    ASSUME NEW S, NEW a \in Text(S), NEW b \in Text(S)
    PROVE  a \o b \in Text(S) /\ Len(a \o b) = Len(a) + Len(b)
  BY ConcatProperties DEF Text

LEMMA TextPart ==
    ASSUME NEW S, NEW b \in Text(S), NEW m \in Int, NEW n \in Int, 1 <= m, n <= Len(b)
    PROVE  SubSeq(b, m, n) \in Text(S) /\ Len(SubSeq(b, m, n)) = IF m <= n THEN n - m + 1 ELSE 0
  <1>1. ASSUME NEW i \in m .. n PROVE b[i] \in S \X Int \X BOOLEAN
    <2>1. i \in 1 .. Len(b)
      BY TextLen
    <2> QED BY <2>1, TextUnit
  <1> QED BY <1>1, SubSeqProperties DEF Text

\* Of an integer by a positive number
LEMMA Quotients ==
    /\ \A n \in Int : n \div 3 \in Int /\ n \div 4 \in Int /\ n % 3 \in Int /\ n % 4 \in Int
    /\ \A n \in Nat : n \div 4 \in Nat /\ n % 4 \in 0 .. 3 /\ n % 4 <= n
                      /\ 4 * (n \div 4) <= n /\ 3 * (n \div 4) <= n
    /\ \A n \in Nat : n - (n % 4) \in Nat
  OBVIOUS

LEMMA DecodeType ==
    ASSUME NEW S, Garbage \in S, NEW b \in Text(S)
    PROVE  Decode(b) \in Text(S) /\ Len(Decode(b)) = 3 * (Len(b) \div 4)
  <1> DEFINE q == Len(b) \div 4
             unit(i) == LET g == 4 * ((i - 1) \div 3) + 1
                            id == b[g][1]
                            at == b[g][2]
                        IN IF at % 4 = 1 /\ SubSeq(b, g, g + 3) = [j \in 1 .. 4 |-> Unit(id, at + j - 1, TRUE)]
                           THEN Unit(id, (3 * (at - 1)) \div 4 + 1 + ((i - 1) % 3), FALSE)
                           ELSE Unit(Garbage, 0, FALSE)
  <1>1. Len(b) \in Nat /\ q \in Nat /\ 4 * q <= Len(b) /\ 3 * q \in Nat
    BY TextLen, Quotients
  <1>2. ASSUME NEW i \in 1 .. 3 * q PROVE unit(i) \in S \X Int \X BOOLEAN
    <2> DEFINE g == 4 * ((i - 1) \div 3) + 1
    <2>1. g \in 1 .. Len(b)
      <3>1. i - 1 \in Nat /\ i - 1 < 3 * q
        BY <1>1
      <3>2. \A n \in Nat, m \in Nat : n < 3 * m => n \div 3 \in Nat /\ n \div 3 + 1 <= m
        OBVIOUS
      <3>3. (i - 1) \div 3 \in Nat /\ (i - 1) \div 3 + 1 <= q
        BY <1>1, <3>1, <3>2
      <3> QED BY <1>1, <3>3
    <2> HIDE DEF g
    <2>2. b[g][1] \in S /\ b[g][2] \in Int
      BY <2>1, TextUnit
    <2>3. \A id \in S, n \in Int : Unit(id, n, FALSE) \in S \X Int \X BOOLEAN
      BY DEF Unit
    <2>4. (3 * (b[g][2] - 1)) \div 4 + 1 + ((i - 1) % 3) \in Int
      <3>1. i - 1 \in Int /\ 3 * (b[g][2] - 1) \in Int
        BY <1>1, <2>2
      <3> QED BY <3>1, Quotients
    <2>5. Unit(b[g][1], (3 * (b[g][2] - 1)) \div 4 + 1 + ((i - 1) % 3), FALSE) \in S \X Int \X BOOLEAN
      BY <2>2, <2>3, <2>4
    <2>6. Unit(Garbage, 0, FALSE) \in S \X Int \X BOOLEAN
      BY 0 \in Int, <2>3
    <2> QED BY <2>5, <2>6 DEF g
  <1>3. Decode(b) = [i \in 1 .. 3 * q |-> unit(i)]
    BY DEF Decode
  <1> HIDE DEF unit, q
  <1>4. \A T : \A f, n : n \in Nat /\ f \in [1 .. n -> T] => f \in Seq(T) /\ Len(f) = n
    OBVIOUS
  <1>5. Decode(b) \in [1 .. 3 * q -> S \X Int \X BOOLEAN]
    BY <1>2, <1>3
  <1> QED BY <1>1, <1>4, <1>5 DEF Text, q

LEMMA EndOfMsgRange ==
    ASSUME NEW S, NEW b \in Text(S)
    PROVE  EndOfMsg(b) \in Nat /\ EndOfMsg(b) <= Len(b)
  <1> DEFINE T == {i \in 1 .. Len(b) : b[i][2] = 3 /\ ~b[i][3]}
  <1>1. EndOfMsg(b) = IF T # {} THEN Min(T) ELSE 0
    BY DEF EndOfMsg, SelectInSeq
  <1>2. Len(b) \in Nat
    BY TextLen
  <1>3. CASE T # {}
    <2>0. T \subseteq Nat
      BY <1>2
    <2>1. \E x \in T : \A y \in T : x <= y
      <3> HIDE DEF T
      <3> QED BY <1>3, <2>0, LeastNumber
    <2>2. Min(T) \in T
      BY <2>1 DEF Min
    <2> QED BY <1>1, <1>2, <1>3, <2>2
  <1> QED BY <1>1, <1>2, <1>3

LEMMA ParseType ==
    ASSUME NEW S, Garbage \in S, NEW b \in Text(S), EndOfMsg(b) # 0
    PROVE  Parse(b) \in S
  <1>1. EndOfMsg(b) \in 1 .. Len(b)
    BY EndOfMsgRange, TextLen
  <1> QED BY <1>1, TextUnit DEF Parse
-----------------------------------------------------------------------------
(* Requests *)

LEMMA BodySizes == \A r : BodySize(r) \in {0, 3}
  BY DEF BodySize

\* The bytes of a request, plain or in Base64
LEMMA RequestText ==
    ASSUME NEW S, NEW id \in S, NEW r
    PROVE  Plain(id, r) \in Text(S) /\ Base64(id, r) \in Text(S)
  <1>2. \A n \in Nat : \A f : f \in [1 .. n -> S \X Int \X BOOLEAN] => f \in Text(S)
    <2>1. \A T : \A n \in Nat : \A f : f \in [1 .. n -> T] => f \in Seq(T)
      OBVIOUS
    <2> QED BY <2>1 DEF Text
  <1>3. 3 + BodySize(r) \in Nat /\ 4 + (4 * BodySize(r)) \div 3 \in Nat
    BY BodySizes
  <1>4. ASSUME NEW n \in Nat, NEW coded \in BOOLEAN
        PROVE  [i \in 1 .. n |-> Unit(id, i, coded)] \in [1 .. n -> S \X Int \X BOOLEAN]
    <2>1. \A i \in 1 .. n : Unit(id, i, coded) \in S \X Int \X BOOLEAN
      BY DEF Unit
    <2> HIDE DEF Unit
    <2> QED BY <2>1
  <1> QED BY <1>2, <1>3, <1>4 DEF Plain, Base64

LEMMA WrittenType ==
    ASSUME NEW s, NEW rs \in Seq(Requests)
    PROVE  Written(s, rs) \in Text({Id(s, n) : n \in 1 .. Len(rs)})
  <1> DEFINE S == {Id(s, n) : n \in 1 .. Len(rs)}
             coded(i) == \E j \in 1 .. i - 1 : rs[j].kind = "POST"
             units(i) == IF coded(i) THEN Base64(Id(s, i), rs[i]) ELSE Plain(Id(s, i), rs[i])
             ss == [i \in 1 .. Len(rs) |-> units(i)]
  <1>1. Len(rs) \in Nat /\ DOMAIN rs = 1 .. Len(rs)
    BY LenProperties
  <1>2. ASSUME NEW i \in 1 .. Len(rs) PROVE units(i) \in Text(S)
    <2>1. Id(s, i) \in S
      OBVIOUS
    <2> HIDE DEF S
    <2> QED BY <2>1, RequestText
  <1>3. Written(s, rs) = FlattenSeq(ss)
    BY <1>1 DEF Written
  <1> HIDE DEF units, S
  <1>4. \A T : \A f, n : n \in Nat /\ f \in [1 .. n -> T] => f \in Seq(T)
    OBVIOUS
  <1>5. ss \in Seq(Text(S))
    BY <1>1, <1>2, <1>4
  <1> HIDE DEF ss
  <1> QED BY <1>3, <1>5, FlattenType DEF Text, S

LEMMA Sources ==
    ASSUME TypeInv, NEW c \in Conns
    PROVE  /\ Garbage \in Source(c) /\ Source(c) \subseteq Known /\ OfSocket(c) \subseteq Known
           /\ Known \subseteq RequestIds /\ Garbage \in OfSocket(c)
  <1>1. ASSUME NEW s \in Conns PROVE OfSocket(s) \subseteq RequestIds
    <2>1. Len(sent[s]) \in Nat
      BY LenProperties DEF TypeInv
    <2> QED BY <2>1 DEF OfSocket, RequestIds, Id, Garbage
  <1>2. Garbage \in RequestIds
    BY DEF Garbage, Id, RequestIds
  <1> QED BY <1>1, <1>2 DEF Source, Known, OfSocket

LEMMA AskType ==
    ASSUME TypeInv
    PROVE  \A id \in Known : Ask(id) \in Requests
  <1>1. NotOne \in Requests
    BY DEF NotOne, Requests, Kinds, OfCookie
  <1>2. ASSUME NEW s \in Conns, NEW n \in 1 .. Len(sent[s]) PROVE Ask(Id(s, n)) \in Requests
    <2>1. sent[s][n] \in Requests
      BY ElementOfSeq DEF TypeInv
    <2>2. Ask(Id(s, n)) = sent[s][n]
      BY NoneAssumption DEF Ask, Id, Garbage
    <2> QED BY <2>1, <2>2
  <1>3. Ask(Garbage) \in Requests
    BY <1>1 DEF Ask
  <1> QED BY <1>2, <1>3 DEF Known, OfSocket

(* What has been handled *)

LEMMA ToSetIs == \A S : \A h \in Seq(S) : \A x : x \in ToSet(h) <=> \E i \in 1 .. Len(h) : x = h[i]
  BY LenProperties DEF ToSet

LEMMA AppendSet ==
    ASSUME NEW S, NEW h \in Seq(S), NEW e \in S
    PROVE  ToSet(h) \subseteq ToSet(Append(h, e)) /\ e \in ToSet(Append(h, e))
  <1>1. PICK g : g = Append(h, e)
    OBVIOUS
  <1>2. /\ g \in Seq(S) /\ Len(g) = Len(h) + 1 /\ g[Len(h) + 1] = e
        /\ \A i \in 1 .. Len(h) : g[i] = h[i]
    BY <1>1, AppendProperties
  <1>3. Len(h) \in Nat
    BY LenProperties
  <1>4. e \in ToSet(g)
    BY <1>2, <1>3, ToSetIs
  <1>5. ASSUME NEW x \in ToSet(h) PROVE x \in ToSet(g)
    <2>1. PICK i \in 1 .. Len(h) : x = h[i]
      BY ToSetIs
    <2>2. i \in 1 .. Len(g) /\ g[i] = x
      BY <1>2, <1>3, <2>1
    <2> QED BY <1>2, <2>2, ToSetIs
  <1> QED BY <1>1, <1>4, <1>5

\* No step forgets what was handled and sent.
Remembers ==
    /\ \A c \in Conns : \A k : Got(c, k) \subseteq Got(c, k)'
    /\ \A s \in Conns : HasSent(s, "POST") => HasSent(s, "POST")'

LEMMA RemembersSame ==
    ASSUME UNCHANGED <<handled, sent>>
    PROVE  Remembers
  BY DEF Remembers, Got, HasSent, Ask, NotOne

LEMMA HandlesOne ==
    ASSUME TypeInv, NEW c \in Conns, NEW id \in RequestIds, sent' = sent,
           handled' = [handled EXCEPT ![c] = Append(@, id)]
    PROVE  Remembers /\ Ask(id) \in Got(c, Ask(id).kind)'
  <1>1. \A x : Ask(x)' = Ask(x)
    BY DEF Ask, NotOne
  <1>2. handled[c] \in Seq(RequestIds) /\ handled'[c] = Append(handled[c], id)
    BY DEF TypeInv
  <1>4. id \in ToSet(handled'[c]) /\ ToSet(handled[c]) \subseteq ToSet(handled'[c])
    BY <1>2, AppendSet
  <1>5. \A d \in Conns : ToSet(handled[d]) \subseteq ToSet(handled'[d])
    BY <1>4 DEF TypeInv
  <1>6. \A d \in Conns : \A k : Got(d, k) \subseteq Got(d, k)'
    BY <1>1, <1>5 DEF Got
  <1>7. Ask(id) \in Got(c, Ask(id).kind)'
    BY <1>1, <1>4 DEF Got
  <1>8. \A s \in Conns : HasSent(s, "POST") => HasSent(s, "POST")'
    BY DEF HasSent
  <1> QED BY <1>6, <1>7, <1>8 DEF Remembers

\* Requests are only written to a socket without any.
LEMMA SendsMore ==
    ASSUME TypeInv, DataInv, NEW s \in Conns, sent[s] = << >>, NEW rs \in Seq(Requests),
           sent' = [sent EXCEPT ![s] = rs], UNCHANGED handled
    PROVE  Remembers
  <1>1. ASSUME NEW id \in Known PROVE Ask(id)' = Ask(id)
    <2>1. CASE id = Garbage
      BY <2>1 DEF Ask, NotOne
    <2>2. CASE id # Garbage
      <3>0. PICK t \in Conns : \E n \in 1 .. Len(sent[t]) : id = Id(t, n)
        BY <2>2 DEF Known, OfSocket
      <3>1. PICK n \in 1 .. Len(sent[t]) : id = Id(t, n)
        BY <3>0
      <3>2. t # s
        BY <3>1, EmptySeq
      <3> QED BY <2>2, <3>1, <3>2 DEF Ask, Id, TypeInv
    <2> QED BY <2>1, <2>2
  <1>2. ASSUME NEW c \in Conns PROVE ToSet(handled[c]) \subseteq Known
    <2>1. handled[c] \in Seq(Source(c)) /\ Source(c) \subseteq Known
      BY Sources DEF DataInv
    <2> QED BY <2>1, ToSetIs, ElementOfSeq
  <1>3. \A c \in Conns : \A k : Got(c, k) \subseteq Got(c, k)'
    BY <1>1, <1>2 DEF Got
  <1>4. ASSUME NEW t \in Conns, HasSent(t, "POST") PROVE HasSent(t, "POST")'
    <2>1. t # s
      BY <1>4, EmptySeq DEF HasSent
    <2> QED BY <1>4, <2>1 DEF HasSent, TypeInv
  <1> QED BY <1>3, <1>4 DEF Remembers
-----------------------------------------------------------------------------
(* Stacks *)

LEMMA StackFacts == \A st \in Seq(Frames) :
    /\ Len(st) \in Nat
    /\ st # << >> => Len(st) >= 1 /\ Len(st) \in 1 .. Len(st)
    /\ \A i \in 1 .. Len(st) : st[i] \in Frames
  BY LenProperties, EmptySeq, ElementOfSeq

LEMMA StackEmpty == Nested(<< >>) /\ OuterOf(<< >>) = {} /\ PostingOf(<< >>) = {}
  <1>1. << >> \in Seq(Frames) /\ Len(<< >>) = 0
    BY EmptySeq
  <1> QED BY <1>1 DEF Nested, OuterOf, PostingOf

LEMMA StackPosting ==
    ASSUME NEW st, Nested(st), st # << >>
    PROVE  /\ Last(st) \in Frames /\ Last(st).c \in Conns
           /\ PostingOf(st) = OuterOf(st) \cup (IF Last(st).pc = "posted" THEN {Last(st).c} ELSE {})
           /\ OuterOf(st) \subseteq Conns /\ PostingOf(st) \subseteq Conns
  <1>1. st \in Seq(Frames) /\ Last(st) = st[Len(st)] /\ Len(st) \in Nat /\ Len(st) \in 1 .. Len(st)
    BY StackFacts DEF Nested, Last
  <1>2. \A i \in 1 .. Len(st) : st[i] \in Frames /\ st[i].c \in Conns
    BY <1>1, StackFacts DEF Frames
  <1>3. \A i \in 1 .. Len(st) : i = Len(st) \/ i \in 1 .. Len(st) - 1
    BY <1>1
  <1>4. \A i \in 1 .. Len(st) - 1 : i \in 1 .. Len(st) /\ st[i].pc = "posted"
    BY <1>1 DEF Nested
  <1> QED BY <1>1, <1>2, <1>3, <1>4 DEF PostingOf, OuterOf

LEMMA StackTop ==
    ASSUME NEW st, Nested(st), st # << >>, NEW f \in Frames
    PROVE  LET t == [st EXCEPT ![Len(st)] = f]
           IN  Nested(t) /\ t # << >> /\ Last(t) = f /\ OuterOf(t) = OuterOf(st)
  <1> PICK t : t = [st EXCEPT ![Len(st)] = f]
    OBVIOUS
  <1>1. st \in Seq(Frames) /\ Len(st) \in Nat /\ Len(st) \in 1 .. Len(st)
    BY StackFacts DEF Nested
  <1>2. /\ t \in Seq(Frames) /\ Len(t) = Len(st)
        /\ \A j \in 1 .. Len(st) : t[j] = IF j = Len(st) THEN f ELSE st[j]
    BY <1>1, ExceptSeq
  <1>3. \A i \in 1 .. Len(st) - 1 : i \in 1 .. Len(st) /\ i # Len(st)
    BY <1>1
  <1>4. Last(t) = f /\ t # << >>
    BY <1>1, <1>2, EmptySeq DEF Last
  <1>5. \A i \in 1 .. Len(st) - 1 : t[i] = st[i]
    BY <1>2, <1>3
  <1>6. Nested(t)
    BY <1>2, <1>5 DEF Nested
  <1>7. OuterOf(t) = OuterOf(st)
    BY <1>2, <1>5 DEF OuterOf
  <1> QED BY <1>4, <1>6, <1>7

LEMMA StackPush ==
    ASSUME NEW st, Nested(st), st # << >>, Last(st).pc = "posted", NEW f \in Frames
    PROVE  LET t == Append(st, f)
           IN  Nested(t) /\ t # << >> /\ Last(t) = f /\ OuterOf(t) = PostingOf(st)
  <1> PICK t : t = Append(st, f)
    OBVIOUS
  <1>1. st \in Seq(Frames) /\ Len(st) \in Nat /\ Len(st) \in 1 .. Len(st)
    BY StackFacts DEF Nested
  <1>2. /\ t \in Seq(Frames) /\ t # << >> /\ Len(t) = Len(st) + 1 /\ t[Len(st) + 1] = f
        /\ \A i \in 1 .. Len(st) : t[i] = st[i]
    BY <1>1, AppendProperties
  <1>3. \A i \in 1 .. Len(st) : st[i].pc = "posted"
    <2>1. \A i \in 1 .. Len(st) : i = Len(st) \/ i \in 1 .. Len(st) - 1
      BY <1>1
    <2> QED BY <2>1 DEF Nested, Last
  <1>4. Len(t) - 1 = Len(st)
    BY <1>1, <1>2
  <1>5. Last(t) = f
    BY <1>2 DEF Last
  <1>6. Nested(t)
    BY <1>2, <1>3, <1>4 DEF Nested
  <1>7. OuterOf(t) = PostingOf(st)
    BY <1>2, <1>3, <1>4 DEF OuterOf, PostingOf
  <1> QED BY <1>2, <1>5, <1>6, <1>7

LEMMA StackPop ==
    ASSUME NEW st, Nested(st), st # << >>
    PROVE  LET t == Front(st)
           IN  /\ Nested(t) /\ PostingOf(t) = OuterOf(st) /\ OuterOf(t) \subseteq OuterOf(st)
               /\ {t[i].c : i \in DOMAIN t} = OuterOf(st)
               /\ t # << >> => Last(t).pc = "posted" /\ Last(t).c \in OuterOf(st)
  <1> PICK t : t = Front(st)
    OBVIOUS
  <1>1. st \in Seq(Frames) /\ Len(st) \in Nat /\ Len(st) >= 1
    BY StackFacts DEF Nested
  <1>2. \A i \in 1 .. Len(st) - 1 : st[i] \in Frames /\ st[i].pc = "posted"
    <2>1. \A i \in 1 .. Len(st) - 1 : i \in 1 .. Len(st)
      BY <1>1
    <2> QED BY <1>1, <2>1, StackFacts DEF Nested
  <1>3. /\ t \in Seq(Frames) /\ Len(t) = Len(st) - 1
        /\ \A i \in 1 .. Len(st) - 1 : t[i] = st[i]
    <2>1. t = SubSeq(st, 1, Len(st) - 1)
      BY DEF Front
    <2>2. /\ SubSeq(st, 1, Len(st) - 1) \in Seq(Frames)
          /\ Len(SubSeq(st, 1, Len(st) - 1)) = IF 1 <= Len(st) - 1 THEN Len(st) - 1 - 1 + 1 ELSE 0
          /\ \A i \in 1 .. Len(st) - 1 - 1 + 1 : SubSeq(st, 1, Len(st) - 1)[i] = st[1 + i - 1]
      BY <1>1, <1>2, SubSeqProperties
    <2>3. (IF 1 <= Len(st) - 1 THEN Len(st) - 1 - 1 + 1 ELSE 0) = Len(st) - 1
      <3>1. \A n \in Nat : n >= 1 => (IF 1 <= n - 1 THEN n - 1 - 1 + 1 ELSE 0) = n - 1
        OBVIOUS
      <3> QED BY ONLY <1>1, <3>1
    <2>4. \A i \in 1 .. Len(st) - 1 : i \in 1 .. Len(st) - 1 - 1 + 1 /\ 1 + i - 1 = i
      BY <1>1
    <2> QED BY <2>1, <2>2, <2>3, <2>4
  <1>4. Nested(t)
    <2>1. \A i \in 1 .. Len(t) - 1 : i \in 1 .. Len(st) - 1
      BY <1>1, <1>3
    <2> QED BY <1>2, <1>3, <2>1 DEF Nested
  <1>5. PostingOf(t) = OuterOf(st) /\ {t[i].c : i \in DOMAIN t} = OuterOf(st)
    <2>1. DOMAIN t = 1 .. Len(st) - 1
      BY <1>3, LenProperties
    <2>2. {j \in 1 .. Len(t) : t[j].pc = "posted"} = 1 .. Len(st) - 1
      BY <1>2, <1>3
    <2> QED BY <1>3, <2>1, <2>2 DEF PostingOf, OuterOf
  <1>6. OuterOf(t) \subseteq OuterOf(st)
    <2>1. \A i \in 1 .. Len(t) - 1 : i \in 1 .. Len(st) - 1
      BY <1>1, <1>3
    <2> QED BY <1>3, <2>1 DEF OuterOf
  <1>7. ASSUME t # << >> PROVE Last(t).pc = "posted" /\ Last(t).c \in OuterOf(st)
    <2>1. Len(t) \in 1 .. Len(t)
      BY <1>3, <1>7, StackFacts
    <2> QED BY <1>2, <1>3, <2>1 DEF Last, OuterOf
  <1> QED BY <1>4, <1>5, <1>6, <1>7

LEMMA StackOne ==
    ASSUME NEW f \in Frames
    PROVE  Nested(<<f>>) /\ <<f>> # << >> /\ Last(<<f>>) = f /\ OuterOf(<<f>>) = {}
  <1>1. <<f>> \in Seq(Frames) /\ Len(<<f>>) = 1 /\ <<f>>[1] = f
    OBVIOUS
  <1> QED BY <1>1 DEF Nested, Last, OuterOf

LEMMA FrameType == \A c \in Conns : \A n \in Nat : Frame(c, n) \in Frames
  BY DEF Frame, Frames
-----------------------------------------------------------------------------
(* The beginning *)

LEMMA NewObjectType == \A c \in Conns \cup {None} : NewObject(c) \in Objects /\ NoObject \in Objects
  <1> SUFFICES ASSUME NEW c \in Conns \cup {None} PROVE NewObject(c) \in Objects /\ NoObject \in Objects
    OBVIOUS
  <1>1. << >> \in Text(RequestIds) /\ 0 \in 0 .. 3
    BY TextEmpty
  <1>2. Garbage \in RequestIds
    BY DEF Garbage, Id, RequestIds
  <1>3. [to |-> Garbage, status |-> "unset"] \in [to : RequestIds, status : Statuses] /\ 0 \in Nat
    BY <1>2 DEF Statuses
  <1> DEFINE R == [to : RequestIds, status : Statuses]
             T == Text(RequestIds)
             Rem == 0 .. 3
  <1>4. /\ [to |-> Garbage, status |-> "unset"] \in R /\ << >> \in T /\ 0 \in Rem
        /\ Objects = [obj : {"none", "live", "deleted"}, in : Conns \cup {None}, out : Conns \cup {None},
            active : BOOLEAN, cookie : Cookies \cup {None}, buf : T, rem : Rem,
            resp : R, config : BOOLEAN, threads : Nat]
    BY <1>1, <1>3 DEF Objects
  <1> HIDE DEF R, T, Rem
  <1>5. \A d \in Conns \cup {None} : NewObject(d) \in Objects
    BY <1>3, <1>4 DEF NewObject
  <1>6. NoObject \in Objects
    BY <1>4, <1>5 DEF NoObject
  <1> QED BY <1>5, <1>6

LEMMA InitInv == Init => Inv
  <1> SUFFICES ASSUME Init PROVE Inv
    OBVIOUS
  <1>1. stack = << >> /\ Nested(stack) /\ Outer = {} /\ Posting = {}
    BY StackEmpty DEF Init, Outer, Posting
  <1>2. /\ NoObject.obj = "none" /\ NoObject.in = None /\ NoObject.out = None /\ NoObject.buf = << >>
        /\ NoObject.rem = 0 /\ NoObject.threads = 0
    BY DEF NoObject, NewObject
  <1>3. \A c \in Conns : /\ conn[c] = NoObject /\ sock[c] = "none" /\ watch[c] = None
                         /\ sent[c] = << >> /\ wire[c] = << >> /\ handled[c] = << >>
    BY DEF Init
  <1>4. TypeInv
    <2>1. NoObject \in Objects
      BY NewObjectType
    <2>2. conn \in [Conns -> Objects]
      BY <2>1 DEF Init
    <2>3. sent \in [Conns -> Seq(Requests)] /\ handled \in [Conns -> Seq(RequestIds)]
      BY EmptySeq DEF Init
    <2>4. wire \in [Conns -> Text(RequestIds)]
      BY TextEmpty DEF Init
    <2>5. stack \in Seq(Frames)
      BY <1>1 DEF Nested
    <2>6. pending \in 0 .. MaxPending
      BY BoundsAssumption DEF Init
    <2>7. /\ sock \in [Conns -> SockStates] /\ watch \in [Conns -> Conns \cup {None}]
          /\ table \in [Cookies -> Conns \cup {None}] /\ up \in BOOLEAN
      BY DEF Init, SockStates
    <2>8. delayed = {}
      BY DEF Init
    <2> QED BY <2>2, <2>3, <2>4, <2>5, <2>6, <2>7, <2>8 DEF TypeInv
  <1>5. StackInv
    BY <1>1 DEF StackInv
  <1>6. \A c \in Conns : ~Live(c) /\ OwnSockets(c) = {}
    BY <1>2, <1>3 DEF Live, OwnSockets
  <1>7. DataInv
    <2>1. \A S : << >> \in Text(S) /\ << >> \in Seq(S) /\ Len(<< >>) = 0
      BY TextEmpty, EmptySeq
    <2>2. \A c \in Conns : conn[c].buf = << >> /\ conn[c].rem = 0
      BY <1>2, <1>3
    <2>3. \A c \in Conns : Len(conn[c].buf) <= BufferSize /\ conn[c].rem <= Len(conn[c].buf)
      BY <2>1, <2>2, BoundsAssumption
    <2>4. \A c \in Conns : conn[c].buf \in Text(Source(c)) /\ handled[c] \in Seq(Source(c))
      BY <1>3, <2>1, <2>2
    <2> QED BY <1>3, <2>1, <2>3, <2>4 DEF DataInv
  <1>8. OwnerInv
    BY <1>6 DEF OwnerInv, Holds
  <1>9. ObjectInv
    BY <1>2, <1>3 DEF ObjectInv, Live
  <1>10. CallInv
    BY <1>1 DEF CallInv, Running
  <1>11. WatchInv
    BY <1>3, NoneAssumption DEF WatchInv
  <1>12. TableInv
    BY NoneAssumption DEF Init, TableInv
  <1>13. HandedInv
    BY <1>1, <1>2, <1>3 DEF HandedInv
  <1>14. PendingInv
    BY <1>2, <1>3 DEF Init, PendingInv
  <1>15. LeakInv
    BY <1>3 DEF LeakInv
  <1>16. FaultInv
    BY DEF Init, FaultInv
  <1> QED BY <1>4, <1>5, <1>7, <1>8, <1>9, <1>10, <1>11, <1>12, <1>13, <1>14, <1>15, <1>16 DEF Inv
-----------------------------------------------------------------------------
(* Steps that leave the sockets alone *)

Calm ==
    /\ UNCHANGED <<sock, watch>>
    /\ \A c \in Conns :
          /\ conn'[c].obj = conn[c].obj /\ conn'[c].in = conn[c].in /\ conn'[c].out = conn[c].out
          /\ conn[c].obj = "none" => handled'[c] = handled[c] /\ conn'[c].threads = conn[c].threads
    /\ Posting' = Posting
    /\ \/ Running /\ Top.pc # "leave" /\ Running' /\ Top'.c = Top.c
       \/ stack = << >> /\ (Running' => Top'.c \in Conns /\ Live(Top'.c))
    /\ Remembers

\* What a step that remembers leaves true of what was handled
LEMMA Remembered ==
    ASSUME Remembers
    PROVE  /\ \A c \in Conns : \A k : Got(c, k) # {} => Got(c, k)' # {}
           /\ \A c \in Conns : /\ PostedToItself(c) => PostedToItself(c)'
                               /\ GaveUp(c) => GaveUp(c)'
           /\ Rivals => Rivals'
           /\ \A c \in Conns : \A k : GotCookie(c, k) => GotCookie(c, k)'
           /\ \A c \in Conns : TwoCookies(c) => TwoCookies(c)'
  <1>1. \A c \in Conns : \A k : Got(c, k) # {} => Got(c, k)' # {}
    BY DEF Remembers
  <1>2. \A c \in Conns : \A k : GotCookie(c, k) => GotCookie(c, k)'
    BY DEF Remembers, GotCookie
  <1>3. Rivals => Rivals'
    BY DEF Remembers, Rivals
  <1> QED BY <1>1, <1>2, <1>3 DEF PostedToItself, GaveUp, TwoCookies

LEMMA ExcusedStays ==
    ASSUME Remembers, \A d \in Conns : Deleted(d) => Deleted(d)', NEW s \in Conns, Excused(s)
    PROVE  Excused(s)'
  <1>1. Got(s, "POST")' # {}
    BY Remembered DEF Excused
  <1>2. CASE Rivals
    BY <1>1, <1>2, Remembered DEF Excused
  <1>3. ASSUME NEW d \in Conns, PostedToItself(d) \/ (Deleted(d) /\ GaveUp(d)) PROVE Excused(s)'
    <2>1. PostedToItself(d)' \/ (Deleted(d)' /\ GaveUp(d)')
      BY <1>3, Remembered
    <2> QED BY <1>1, <2>1 DEF Excused
  <1> QED BY <1>2, <1>3 DEF Excused

LEMMA CalmStep ==
    ASSUME Inv, Calm
    PROVE  /\ OwnerInv' /\ ObjectInv' /\ CallInv' /\ WatchInv' /\ HandedInv' /\ LeakInv'
           /\ \A c \in Conns : Live(c)' = Live(c) /\ Holds(c)' = Holds(c)
  <1> USE DEF Inv
  <1>1. \A c \in Conns : /\ Live(c)' = Live(c) /\ Deleted(c)' = Deleted(c)
                         /\ Holds(c)' = Holds(c) /\ OwnSockets(c)' = OwnSockets(c)
    BY DEF Calm, Live, Deleted, Holds, OwnSockets
  <1>2. \A c \in Conns : ~Ending(c)
    BY DEF Calm, Ending
  <1>3. \A c \in Conns : Owner(c) => Owner(c)'
    BY DEF Calm, Owner
  <1>4. \A c \in Conns : Holds(c) => Owner(c)
    BY <1>2 DEF OwnerInv
  <1>5. OwnerInv'
    BY <1>1, <1>3, <1>4 DEF OwnerInv
  <1>6. ObjectInv'
    BY <1>1 DEF Calm, ObjectInv, TypeInv, Objects
  <1>7. CallInv'
    <2> SUFFICES ASSUME Running' PROVE CallInv'
      BY DEF CallInv
    <2> DEFINE c == Top'.c
               s == conn[c].in
    <2>1. /\ c \in Conns /\ s # None /\ sock[s] = "open" /\ watch[s] = c
          /\ \A d \in Conns : Holds(d) /\ d # c => s \notin OwnSockets(d)
          /\ \A d \in Posting : conn[d].in = s
      <3>1. CASE Running /\ Top.pc # "leave" /\ Top'.c = Top.c
        <4>1. Top.c \in Conns
          BY <3>1, StackPosting DEF StackInv, Running, Top
        <4> QED BY <3>1, <4>1 DEF CallInv
      <3>2. CASE stack = << >> /\ Top'.c \in Conns /\ Live(Top'.c)
        <4>1. Posting = {}
          BY <3>2, StackEmpty DEF Posting
        <4>2. Holds(c) /\ Owner(c)
          BY <1>4, <3>2, <4>1 DEF Holds
        <4>3. s \in OwnSockets(c)
          BY <4>2 DEF OwnSockets, Owner
        <4> QED BY <3>2, <4>1, <4>2, <4>3 DEF OwnerInv, Owner
      <3> QED BY <3>1, <3>2 DEF Calm
    <2>2. Posting \subseteq Conns
      <3>1. CASE stack = << >>
        BY <3>1, StackEmpty DEF Posting
      <3>2. CASE stack # << >>
        BY <3>2, StackPosting DEF StackInv, Posting
      <3> QED BY <3>1, <3>2
    <2>3. \A d \in Conns : conn'[d].in = conn[d].in
      BY DEF Calm
    <2>4. UNCHANGED <<sock, watch>> /\ Posting' = Posting
      BY DEF Calm
    <2> HIDE DEF s
    <2>5. conn'[Top'.c].in = s
      BY <2>1, <2>3 DEF s
    <2> QED BY <1>1, <2>1, <2>2, <2>3, <2>4, <2>5 DEF CallInv
  <1>8. WatchInv'
    <2>0. watch' = watch
      BY DEF Calm
    <2> SUFFICES ASSUME NEW s \in Conns, NEW d \in Conns, watch[s] = d
                 PROVE  /\ conn'[d].obj # "none"
                        /\ Holds(d)' /\ ~Ending(d)' => conn'[d].in = s
                        /\ \/ Live(d)' /\ conn'[d].in = s
                           \/ PostedToItself(d)'
                           \/ Deleted(d)' /\ d # s /\ GaveUp(d)'
                        /\ d \in Posting' => Got(d, "GET")' # {}
      BY <2>0 DEF WatchInv
    <2>1. d \in Conns
      OBVIOUS
    <2>2. /\ conn[d].obj # "none"
          /\ Holds(d) /\ ~Ending(d) => conn[d].in = s
          /\ \/ Live(d) /\ conn[d].in = s
             \/ PostedToItself(d)
             \/ Deleted(d) /\ d # s /\ GaveUp(d)
          /\ d \in Posting => Got(d, "GET") # {}
      BY <2>1 DEF WatchInv
    <2>3. conn'[d].obj = conn[d].obj /\ conn'[d].in = conn[d].in /\ Posting' = Posting
      BY <2>1 DEF Calm
    <2>r. Remembers
      BY DEF Calm
    <2>4. /\ PostedToItself(d) => PostedToItself(d)'
          /\ GaveUp(d) => GaveUp(d)'
          /\ Got(d, "GET") # {} => Got(d, "GET")' # {}
      BY <2>1, <2>r, Remembered
    <2>5. /\ conn'[d].obj # "none"
          /\ Holds(d)' /\ ~Ending(d)' => conn'[d].in = s
          /\ \/ Live(d)' /\ conn'[d].in = s
             \/ PostedToItself(d)'
             \/ Deleted(d)' /\ d # s /\ GaveUp(d)'
          /\ d \in Posting' => Got(d, "GET")' # {}
      BY <1>1, <1>2, <2>1, <2>2, <2>3, <2>4
    <2> QED BY <2>5
  <1>9. HandedInv'
    <2>1. /\ Posting' = Posting /\ Remembers
          /\ \A c \in Conns : conn'[c].in = conn[c].in /\ conn[c].in \in Conns \cup {None}
      BY DEF Calm, TypeInv, Objects
    <2>2. Posting \subseteq Conns
      <3>1. CASE stack = << >>
        BY <3>1, StackEmpty DEF Posting
      <3>2. CASE stack # << >>
        BY <3>2, StackPosting DEF StackInv, Posting
      <3> QED BY <3>1, <3>2
    <2>3. \A c \in Conns : \A k : Got(c, k) # {} => Got(c, k)' # {}
      BY <2>1, Remembered
    <2>4. \A c \in Conns : HasSent(c, "POST") => HasSent(c, "POST")'
      BY <2>1 DEF Remembers
    <2> QED BY <2>1, <2>2, <2>3, <2>4 DEF HandedInv
  <1>10. LeakInv'
    <2> SUFFICES ASSUME NEW s \in Conns
                 PROVE  \/ sock'[s] # "open"
                        \/ \E d \in Conns : Holds(d)' /\ s \in OwnSockets(d)'
                        \/ Running' /\ conn'[Top'.c].in = s
                        \/ Excused(s)'
      BY DEF LeakInv
    <2>1. CASE sock[s] # "open"
      BY <2>1 DEF Calm
    <2>2. CASE \E d \in Conns : Holds(d) /\ s \in OwnSockets(d)
      BY <1>1, <2>2
    <2>3. CASE Running /\ conn[Top.c].in = s
      <3>1. Top.c \in Conns
        BY <2>3, StackPosting DEF StackInv, Running, Top
      <3>2. Running' /\ Top'.c = Top.c
        BY <2>3 DEF Calm, Running
      <3> QED BY <2>3, <3>1, <3>2 DEF Calm
    <2>4. CASE Excused(s)
      <3>1. Remembers
        BY DEF Calm
      <3> QED BY <1>1, <2>4, <3>1, ExcusedStays
    <2>5. \/ sock[s] # "open"
          \/ \E d \in Conns : Holds(d) /\ s \in OwnSockets(d)
          \/ Running /\ conn[Top.c].in = s
          \/ Excused(s)
      BY DEF LeakInv
    <2> QED BY <2>1, <2>2, <2>3, <2>4, <2>5
  <1> QED BY <1>1, <1>5, <1>6, <1>7, <1>8, <1>9, <1>10
-----------------------------------------------------------------------------
(* A step within the call that runs, which may handle a request *)

LEMMA TableStays ==
    ASSUME Inv, Remembers, table' = table,
           \A d \in Conns : conn'[d].obj = conn[d].obj /\ conn'[d].cookie = conn[d].cookie
    PROVE  TableInv'
  <1> SUFFICES ASSUME NEW k \in Cookies, NEW d \in Conns, table[k] = d
               PROVE  /\ conn'[d].obj # "none"
                      /\ GotCookie(d, k)'
                      /\ Live(d)' => \E j \in Cookies : conn'[d].cookie = j /\ GotCookie(d, j)'
                      /\ Deleted(d)' => TwoCookies(d)'
    BY DEF TableInv
  <1>1. /\ conn[d].obj # "none" /\ GotCookie(d, k)
        /\ Live(d) => \E j \in Cookies : conn[d].cookie = j /\ GotCookie(d, j)
        /\ Deleted(d) => TwoCookies(d)
    BY DEF Inv, TableInv
  <1>2. Live(d)' = Live(d) /\ Deleted(d)' = Deleted(d)
    BY DEF Live, Deleted
  <1> QED BY <1>1, <1>2, Remembered

\* A GET
LEMMA TableGets ==
    ASSUME Inv, Remembers, NEW c \in Conns, NEW k \in Cookies, Live(c),
           GotCookie(c, k)', table' = [table EXCEPT ![k] = c], conn'[c].cookie = k,
           \A d \in Conns : /\ conn'[d].obj = conn[d].obj
                            /\ d # c => conn'[d].cookie = conn[d].cookie
    PROVE  TableInv'
  <1> SUFFICES ASSUME NEW i \in Cookies, NEW d \in Conns, table'[i] = d
               PROVE  /\ conn'[d].obj # "none"
                      /\ GotCookie(d, i)'
                      /\ Live(d)' => \E j \in Cookies : conn'[d].cookie = j /\ GotCookie(d, j)'
                      /\ Deleted(d)' => TwoCookies(d)'
    BY DEF TableInv
  <1>1. Live(d)' = Live(d) /\ Deleted(d)' = Deleted(d)
    BY DEF Live, Deleted
  <1>2. CASE d = c /\ i = k
    BY <1>1, <1>2 DEF Live, Deleted
  <1>3. CASE ~(d = c /\ i = k)
    <2>1. table[i] = d
      BY <1>3 DEF Inv, TypeInv
    <2>2. /\ conn[d].obj # "none" /\ GotCookie(d, i)
          /\ Live(d) => \E j \in Cookies : conn[d].cookie = j /\ GotCookie(d, j)
          /\ Deleted(d) => TwoCookies(d)
      BY <2>1 DEF Inv, TableInv
    <2> QED BY <1>1, <2>2, Remembered
  <1> QED BY <1>2, <1>3

LEMMA PendingStays ==
    ASSUME Inv, Remembers,
           \A p \in delayed' : p \in delayed \/ GaveUp(p.c)',
           \A c \in Conns : conn'[c].threads = conn[c].threads \/ Got(c, "SETUP")' # {}
    PROVE  PendingInv'
  <1>1. \A p \in delayed : p.c \in Conns /\ GaveUp(p.c)
    BY DEF Inv, TypeInv, PendingInv
  <1>2. \A p \in delayed' : GaveUp(p.c)'
    BY <1>1, Remembered
  <1>3. \A c \in Conns : conn[c].threads > 0 => Got(c, "SETUP") # {}
    BY DEF Inv, PendingInv
  <1>4. \A c \in Conns : conn'[c].threads > 0 => Got(c, "SETUP")' # {}
    BY <1>3, Remembered
  <1> QED BY <1>2, <1>4 DEF PendingInv

\* The call that runs changes its object to o, and goes on or ends as f says; id is
\* what it has handled.
LEMMA CallStep ==
    ASSUME Inv, stack # << >>, Top.pc \in {"bytes", "request"},
           NEW c \in Conns, c = Top.c, NEW o \in Objects, NEW f \in Frames, NEW id \in Source(c),
           UNCHANGED <<sock, watch, sent, wire, fault, application>>,
           conn' = [conn EXCEPT ![c] = o], stack' = [stack EXCEPT ![Len(stack)] = f],
           o.obj = conn[c].obj, o.in = conn[c].in, o.out = conn[c].out,
           o.buf \in Text(Source(c)), Len(o.buf) <= BufferSize, o.rem <= Len(o.buf),
           f.c = c, f.pc # "posted",
           f.pc = "bytes" => f.new + o.rem <= Len(o.buf),
           f.pc = "request" => Complete(o.buf),
           handled' = handled \/ handled' = [handled EXCEPT ![c] = Append(@, id)],
           table' \in [Cookies -> Conns \cup {None}], TableInv',
           delayed' \subseteq [c : Conns, of : RequestIds, reuse : BOOLEAN], PendingInv'
    PROVE  Inv'
  <1>0. Nested(stack) /\ TypeInv /\ DataInv /\ StackInv
    BY DEF Inv, StackInv
  <1>1. /\ Nested(stack') /\ stack' # << >> /\ Top' = f /\ Outer' = Outer
        /\ Posting = Outer /\ Posting' = Outer
    <2>1. Nested(stack') /\ stack' # << >> /\ Last(stack') = f /\ OuterOf(stack') = OuterOf(stack)
      BY <1>0, StackTop
    <2>2. PostingOf(stack) = OuterOf(stack)
      BY <1>0, StackPosting DEF Top
    <2>3. PostingOf(stack') = OuterOf(stack')
      BY <2>1, StackPosting
    <2> QED BY <2>1, <2>2, <2>3 DEF Top, Outer, Posting
  <1>2. id \in RequestIds
    BY <1>0, Sources
  <1>3. Remembers
    BY <1>0, <1>2, RemembersSame, HandlesOne
  <1>4. handled[c] \in Seq(Source(c)) /\ Append(handled[c], id) \in Seq(Source(c))
    BY <1>0, AppendProperties DEF DataInv
  <1>5. handled'[c] \in Seq(Source(c)) /\ \A d \in Conns : d # c => handled'[d] = handled[d]
    BY <1>0, <1>4 DEF TypeInv
  <1>6. /\ conn'[c] = o /\ \A d \in Conns : d # c => conn'[d] = conn[d]
        /\ conn' \in [Conns -> Objects]
    BY <1>0 DEF TypeInv
  <1>7. TypeInv'
    <2>1. handled' \in [Conns -> Seq(RequestIds)]
      <3>1. Append(handled[c], id) \in Seq(RequestIds)
        BY <1>0, <1>2, AppendProperties DEF TypeInv
      <3> QED BY <1>0, <3>1 DEF TypeInv
    <2>2. stack' \in Seq(Frames)
      BY <1>1 DEF Nested
    <2> QED BY <1>0, <1>6, <2>1, <2>2 DEF TypeInv, application
  <1>8. Live(c)
    BY <1>0 DEF StackInv
  <1>9. Calm
    <2>1. Running /\ Top.pc # "leave" /\ Running' /\ Top'.c = Top.c
      BY <1>1 DEF Running
    <2> QED BY <1>1, <1>3, <1>5, <1>6, <1>8, <2>1 DEF Calm, Live
  <1>10. StackInv'
    <2>1. \A d \in Conns : Live(d)' = Live(d)
      BY <1>9, CalmStep
    <2>2. \A d \in Outer' : Live(d)'
      <3>1. Outer \subseteq Conns
        BY <1>0, StackPosting DEF Outer
      <3> QED BY <1>0, <1>1, <2>1, <3>1 DEF StackInv
    <2>3. f.pc = "request" => Complete(o.buf)'
      BY DEF Complete, Ask, NotOne
    <2>4. conn'[f.c] = o
      BY <1>6
    <2> QED BY <1>1, <1>8, <2>1, <2>2, <2>3, <2>4 DEF StackInv
  <1>11. DataInv'
    <2>1. \A d \in Conns : OfSocket(d)' = OfSocket(d) /\ Known' = Known
      BY DEF OfSocket, Known
    <2>2. \A d \in Conns : Source(d)' = Source(d)
      BY <1>6, <1>9, <2>1, CalmStep DEF Source
    <2>3. \A d \in Conns : wire'[d] \in Text(OfSocket(d)')
      BY <1>0, <2>1 DEF DataInv
    <2>4. \A d \in Conns : /\ conn'[d].buf \in Text(Source(d)') /\ handled'[d] \in Seq(Source(d)')
                          /\ Len(conn'[d].buf) <= BufferSize /\ conn'[d].rem <= Len(conn'[d].buf)
      BY <1>0, <1>5, <1>6, <2>2 DEF DataInv
    <2> QED BY <2>3, <2>4 DEF DataInv
  <1>12. FaultInv'
    <2>1. \A d \in Conns : Deleted(d) => Deleted(d)'
      BY <1>6, <1>8 DEF Live, Deleted
    <2> QED BY <1>3, <2>1, Remembered DEF Inv, FaultInv
  <1> QED BY <1>7, <1>9, <1>10, <1>11, <1>12, CalmStep DEF Inv
-----------------------------------------------------------------------------
(* handleRequestBytes() *)

LEMMA AtIs ==
    ASSUME Inv, NEW c \in Conns, NEW pc, At(c, pc)
    PROVE  /\ stack # << >> /\ Nested(stack) /\ c = Top.c /\ Top.pc = pc /\ Top \in Frames /\ fault = "none"
           /\ Live(c) /\ conn[c] \in Objects /\ conn[c].buf \in Text(Source(c))
           /\ Len(conn[c].buf) <= BufferSize /\ conn[c].rem <= Len(conn[c].buf) /\ Len(conn[c].buf) \in Nat
           /\ Garbage \in Source(c)
  <1>1. TypeInv /\ StackInv /\ DataInv /\ stack # << >> /\ Nested(stack)
    BY DEF Inv, StackInv, At
  <1>2. Top \in Frames
    BY <1>1, StackPosting DEF Top
  <1>3. conn[c] \in Objects
    BY <1>1 DEF TypeInv
  <1>4. conn[c].buf \in Text(Source(c)) /\ Len(conn[c].buf) \in Nat
    BY <1>1, TextLen DEF DataInv
  <1> QED BY <1>1, <1>2, <1>3, <1>4, Sources DEF At, StackInv, DataInv

LEMMA GotoIs ==
    ASSUME Inv, stack # << >>, NEW pc \in {"bytes", "request", "posted", "leave"}, Goto(pc)
    PROVE  \E f \in Frames : /\ stack' = [stack EXCEPT ![Len(stack)] = f]
                             /\ f.c = Top.c /\ f.new = Top.new /\ f.pc = pc
  <1>1. Nested(stack)
    BY DEF Inv, StackInv
  <1>2. Top \in Frames /\ Top = stack[Len(stack)] /\ Len(stack) \in DOMAIN stack
    BY <1>1, StackPosting, StackFacts, LenProperties DEF Top, Last, Nested
  <1> DEFINE f == [Top EXCEPT !.pc = pc]
  <1>3. f \in Frames /\ f.c = Top.c /\ f.new = Top.new /\ f.pc = pc
    BY <1>2 DEF Frames
  <1>4. stack' = [stack EXCEPT ![Len(stack)] = f]
    BY <1>2 DEF Goto
  <1> QED BY <1>3, <1>4

\* Of an object nothing but these is changed.
LEMMA ObjectChanges ==
    ASSUME NEW o \in Objects
    PROVE  /\ [o EXCEPT !.active = FALSE] \in Objects
           /\ \A b \in Text(RequestIds), r \in 0 .. 3 : [o EXCEPT !.buf = b, !.rem = r] \in Objects
           /\ \A r \in [to : RequestIds, status : Statuses] : [o EXCEPT !.resp = r] \in Objects
           /\ [o EXCEPT !.config = TRUE] \in Objects
           /\ [o EXCEPT !.threads = @ + 1] \in Objects
           /\ \A k \in Cookies : [o EXCEPT !.cookie = k] \in Objects
           /\ \A s \in Conns : [o EXCEPT !.in = s] \in Objects
           /\ [o EXCEPT !.in = None] \in Objects
           /\ [o EXCEPT !.in = None, !.out = None, !.active = FALSE] \in Objects
           /\ [o EXCEPT !.obj = "deleted", !.in = None, !.out = None] \in Objects
  <1> DEFINE T == Text(RequestIds)
             Rem == 0 .. 3
             R == [to : RequestIds, status : Statuses]
  <1>1. Objects = [obj : {"none", "live", "deleted"}, in : Conns \cup {None}, out : Conns \cup {None},
            active : BOOLEAN, cookie : Cookies \cup {None}, buf : T, rem : Rem,
            resp : R, config : BOOLEAN, threads : Nat]
    BY DEF Objects
  <1> HIDE DEF T, Rem, R
  <1>2. [o EXCEPT !.active = FALSE] \in Objects
    BY <1>1
  <1>3. \A b \in T, r \in Rem : [o EXCEPT !.buf = b, !.rem = r] \in Objects
    BY <1>1
  <1>4. \A r \in R : [o EXCEPT !.resp = r] \in Objects
    BY <1>1
  <1>5. [o EXCEPT !.config = TRUE] \in Objects
    BY <1>1
  <1>6. [o EXCEPT !.threads = @ + 1] \in Objects
    BY <1>1
  <1>7. \A k \in Cookies : [o EXCEPT !.cookie = k] \in Objects
    BY <1>1
  <1>8. \A s \in Conns : [o EXCEPT !.in = s] \in Objects
    BY <1>1
  <1>9. [o EXCEPT !.in = None] \in Objects
    BY <1>1
  <1>10. [o EXCEPT !.in = None, !.out = None, !.active = FALSE] \in Objects
    BY <1>1
  <1>11. [o EXCEPT !.obj = "deleted", !.in = None, !.out = None] \in Objects
    BY <1>1
  <1> QED BY <1>2, <1>3, <1>4, <1>5, <1>6, <1>7, <1>8, <1>9, <1>10, <1>11 DEF T, Rem, R

LEMMA TooBigInv ==
    ASSUME Inv, NEW c \in Conns, TooBig(c)
    PROVE  Inv'
  <1> DEFINE o == [conn[c] EXCEPT !.active = FALSE]
  <1>1. /\ stack # << >> /\ Nested(stack) /\ c = Top.c /\ Top.pc = "bytes" /\ conn[c] \in Objects
        /\ conn[c].buf \in Text(Source(c)) /\ Len(conn[c].buf) <= BufferSize
        /\ conn[c].rem <= Len(conn[c].buf) /\ Garbage \in Source(c)
    BY AtIs DEF TooBig
  <1>2. PICK f \in Frames : stack' = [stack EXCEPT ![Len(stack)] = f] /\ f.c = Top.c /\ f.pc = "leave"
    BY <1>1, GotoIs DEF TooBig
  <1>3. /\ o.obj = conn[c].obj /\ o.in = conn[c].in /\ o.out = conn[c].out
        /\ o.buf = conn[c].buf /\ o.rem = conn[c].rem /\ o.cookie = conn[c].cookie /\ o.threads = conn[c].threads
    BY <1>1 DEF Objects
  <1>10. o \in Objects
    BY <1>1, ObjectChanges
  <1>4. conn' = [conn EXCEPT ![c] = o]
    BY DEF TooBig
  <1> HIDE DEF o
  <1>5. UNCHANGED <<sock, watch, table, delayed, fault, sent, wire, application, handled>>
    BY DEF TooBig, application
  <1>6. \A d \in Conns : /\ conn'[d].obj = conn[d].obj /\ conn'[d].cookie = conn[d].cookie
                         /\ conn'[d].threads = conn[d].threads
    BY <1>3, <1>4 DEF Inv, TypeInv
  <1>7. Remembers
    BY <1>5, RemembersSame
  <1>8. TableInv' /\ PendingInv'
    BY <1>5, <1>6, <1>7, TableStays, PendingStays
  <1>9. table \in [Cookies -> Conns \cup {None}] /\ delayed \subseteq [c : Conns, of : RequestIds, reuse : BOOLEAN]
    BY DEF Inv, TypeInv
  <1> QED BY <1>1, <1>2, <1>3, <1>4, <1>5, <1>8, <1>9, <1>10, CallStep

\* Base64 decoding makes the buffer no longer.
LEMMA DecodeInPlaceIs ==
    ASSUME NEW S, Garbage \in S, NEW c, NEW new \in Nat, conn[c].buf \in Text(S), conn[c].rem \in 0 .. 3,
           new + conn[c].rem <= Len(conn[c].buf)
    PROVE  /\ DecodeInPlace(c, new) \in Text(S)
           /\ Len(DecodeInPlace(c, new)) <= Len(conn[c].buf)
           /\ Remainder(c, new) \in 0 .. 3 /\ Remainder(c, new) <= Len(DecodeInPlace(c, new))
  <1>1. PICK b : b = conn[c].buf
    OBVIOUS
  <1>2. PICK n \in Nat : n = Len(b)
    BY <1>1, TextLen
  <1>3. PICK m \in Nat : m = conn[c].rem + new
    OBVIOUS
  <1>4. PICK r \in 0 .. 3 : r = m % 4 /\ r <= m
    BY <1>3, Quotients
  <1>5. m <= n /\ Remainder(c, new) = r
    BY <1>1, <1>2, <1>3, <1>4 DEF Remainder
  <1>6. PICK from \in Nat : from = n - m /\ n - new - conn[c].rem = from
    <2>1. PICK q \in Nat : q = conn[c].rem
      OBVIOUS
    <2>2. \A a, d, e \in Nat : d + a <= e => e - (d + a) \in Nat /\ e - a - d = e - (d + a)
      OBVIOUS
    <2>3. q + new <= n
      BY <1>3, <1>5, <2>1
    <2>4. n - (q + new) \in Nat /\ n - new - q = n - (q + new)
      BY ONLY q \in Nat, n \in Nat, new \in Nat, <2>2, <2>3
    <2> QED BY <1>3, <2>1, <2>4
  <1>7. PICK to \in Nat : to = n - r /\ from <= to /\ to <= n
    <2>1. n - r \in Nat /\ from <= n - r /\ n - r <= n
      BY <1>4, <1>5, <1>6
    <2> QED BY <2>1
  <1>8. PICK x : x = SubSeq(b, 1, from) /\ x \in Text(S) /\ Len(x) = from
    <2>1. SubSeq(b, 1, from) \in Text(S) /\ Len(SubSeq(b, 1, from)) = IF 1 <= from THEN from - 1 + 1 ELSE 0
      BY <1>1, <1>2, <1>6, <1>7, TextPart
    <2>2. (IF 1 <= from THEN from - 1 + 1 ELSE 0) = from
      BY ONLY from \in Nat
    <2> QED BY <2>1, <2>2
  <1>9. PICK y : y = SubSeq(b, from + 1, to) /\ y \in Text(S) /\ Len(y) = to - from
    <2>1. /\ SubSeq(b, from + 1, to) \in Text(S)
          /\ Len(SubSeq(b, from + 1, to)) = IF from + 1 <= to THEN to - (from + 1) + 1 ELSE 0
      BY <1>1, <1>2, <1>6, <1>7, TextPart
    <2>2. (IF from + 1 <= to THEN to - (from + 1) + 1 ELSE 0) = to - from
      BY ONLY from \in Nat, to \in Nat, <1>7
    <2> QED BY <2>1, <2>2
  <1>10. PICK z : z = SubSeq(b, to + 1, n) /\ z \in Text(S) /\ Len(z) = r
    <2>1. /\ SubSeq(b, to + 1, n) \in Text(S)
          /\ Len(SubSeq(b, to + 1, n)) = IF to + 1 <= n THEN n - (to + 1) + 1 ELSE 0
      BY <1>1, <1>2, <1>7, TextPart
    <2>2. (IF to + 1 <= n THEN n - (to + 1) + 1 ELSE 0) = r
      BY ONLY n \in Nat, to \in Nat, r \in 0 .. 3, <1>7
    <2> QED BY <2>1, <2>2
  <1>11. PICK w : w = Decode(y) /\ w \in Text(S) /\ Len(w) \in Nat /\ Len(w) <= to - from
    <2>1. Decode(y) \in Text(S) /\ Len(Decode(y)) = 3 * (Len(y) \div 4) /\ Len(Decode(y)) \in Nat
      BY <1>9, DecodeType, TextLen
    <2>2. to - from \in Nat
      BY <1>7
    <2>3. 3 * ((to - from) \div 4) <= to - from
      BY <2>2, Quotients
    <2> QED BY <1>9, <2>1, <2>3
  <1>12. DecodeInPlace(c, new) = (x \o w) \o z
    BY <1>1, <1>2, <1>5, <1>6, <1>7, <1>8, <1>9, <1>10, <1>11 DEF DecodeInPlace
  <1>13. (x \o w) \in Text(S) /\ Len(x \o w) = from + Len(w)
    BY <1>8, <1>11, TextConcat
  <1>14. (x \o w) \o z \in Text(S) /\ Len((x \o w) \o z) = from + Len(w) + r
    BY <1>10, <1>13, TextConcat
  <1>15. from + Len(w) + r <= n /\ r <= from + Len(w) + r
    BY <1>6, <1>7, <1>11
  <1> QED BY <1>1, <1>2, <1>5, <1>12, <1>14, <1>15

LEMMA ScanInv ==
    ASSUME Inv, NEW c \in Conns, Scan(c)
    PROVE  Inv'
  <1> DEFINE decodes == Tunnelled(c) /\ ~Top.pipelined
  <1>1. PICK b : b = IF decodes THEN DecodeInPlace(c, Top.new) ELSE conn[c].buf
    OBVIOUS
  <1>2. PICK rem : rem = IF decodes THEN Remainder(c, Top.new) ELSE conn[c].rem
    OBVIOUS
  <1>3. At(c, "bytes") /\ conn' = [conn EXCEPT ![c].buf = b, ![c].rem = rem]
        /\ Goto(IF rem = 0 /\ Complete(b) THEN "request" ELSE "leave")
    BY <1>1, <1>2 DEF Scan
  <1>4. /\ stack # << >> /\ Nested(stack) /\ c = Top.c /\ Top.pc = "bytes" /\ conn[c] \in Objects
        /\ conn[c].buf \in Text(Source(c)) /\ Len(conn[c].buf) <= BufferSize /\ Top \in Frames
        /\ conn[c].rem <= Len(conn[c].buf) /\ Garbage \in Source(c) /\ Len(conn[c].buf) \in Nat
    BY <1>3, AtIs
  <1>5. /\ b \in Text(Source(c)) /\ Len(b) <= BufferSize /\ rem \in 0 .. 3 /\ rem <= Len(b)
    <2>1. conn[c].rem \in 0 .. 3 /\ Top.new \in Nat
      BY <1>4 DEF Objects, Frames
    <2>2. CASE decodes
      <3>1. Top.new + conn[c].rem <= Len(conn[c].buf)
        BY <1>4 DEF Inv, StackInv
      <3>2. /\ DecodeInPlace(c, Top.new) \in Text(Source(c))
            /\ Len(DecodeInPlace(c, Top.new)) <= Len(conn[c].buf)
            /\ Remainder(c, Top.new) \in 0 .. 3
            /\ Remainder(c, Top.new) <= Len(DecodeInPlace(c, Top.new))
        BY <1>4, <2>1, <3>1, DecodeInPlaceIs
      <3>3. Len(DecodeInPlace(c, Top.new)) \in Nat
        BY <3>2, TextLen
      <3> QED BY <1>1, <1>2, <1>4, <2>2, <3>2, <3>3, BoundsAssumption
    <2>3. CASE ~decodes
      BY <1>1, <1>2, <1>4, <2>1, <2>3
    <2> QED BY <2>2, <2>3
  <1> HIDE DEF decodes
  <1> DEFINE pc == IF rem = 0 /\ Complete(b) THEN "request" ELSE "leave"
  <1>6. PICK f \in Frames : stack' = [stack EXCEPT ![Len(stack)] = f] /\ f.c = Top.c /\ f.pc = pc
    <2>1. pc \in {"bytes", "request", "posted", "leave"}
      OBVIOUS
    <2> QED BY <1>3, <1>4, <2>1, GotoIs
  <1>7. PICK o : o = [conn[c] EXCEPT !.buf = b, !.rem = rem]
    OBVIOUS
  <1>8. /\ o.obj = conn[c].obj /\ o.in = conn[c].in /\ o.out = conn[c].out
        /\ o.buf = b /\ o.rem = rem /\ o.cookie = conn[c].cookie /\ o.threads = conn[c].threads
    BY <1>4, <1>7 DEF Objects
  <1>9. o \in Objects
    <2>1. Source(c) \subseteq RequestIds
      BY Sources DEF Inv
    <2>2. b \in Text(RequestIds)
      BY <1>5, <2>1, TextMonotonic
    <2> QED BY <1>4, <1>5, <1>7, <2>2, ObjectChanges
  <1>10. conn' = [conn EXCEPT ![c] = o]
    BY <1>3, <1>7 DEF Inv, TypeInv
  <1>11. UNCHANGED <<sock, watch, table, delayed, fault, sent, wire, application, handled>>
    BY DEF Scan, application
  <1>12. \A d \in Conns : /\ conn'[d].obj = conn[d].obj /\ conn'[d].cookie = conn[d].cookie
                          /\ conn'[d].threads = conn[d].threads
    BY <1>8, <1>10 DEF Inv, TypeInv
  <1>13. Remembers
    BY <1>11, RemembersSame
  <1>14. TableInv' /\ PendingInv'
    BY <1>11, <1>12, <1>13, TableStays, PendingStays
  <1>15. table \in [Cookies -> Conns \cup {None}] /\ delayed \subseteq [c : Conns, of : RequestIds, reuse : BOOLEAN]
    BY DEF Inv, TypeInv
  <1>16. f.pc # "posted" /\ f.pc # "bytes" /\ (f.pc = "request" => Complete(o.buf))
    BY <1>6, <1>8
  <1> QED BY <1>4, <1>5, <1>6, <1>8, <1>9, <1>10, <1>11, <1>14, <1>15, <1>16, CallStep

\* The request at the front of the buffer, and what follows it
LEMMA RequestIs ==
    ASSUME Inv, NEW c \in Conns, At(c, "request")
    PROVE  /\ RequestId(c) \in Source(c) /\ RequestId(c) \in RequestIds /\ Request(c) \in Requests
           /\ Rest(c) \in Text(Source(c)) /\ Len(Rest(c)) \in Nat /\ Len(Rest(c)) <= Len(conn[c].buf)
           /\ Request(c).kind = "GET" => Request(c).cookie \in Cookies
           /\ Request(c).kind = "POST" => Request(c).cookie \in Cookies
  <1>1. /\ stack # << >> /\ c = Top.c /\ Top.pc = "request" /\ conn[c].buf \in Text(Source(c))
        /\ Len(conn[c].buf) \in Nat /\ Garbage \in Source(c)
    BY AtIs
  <1>2. PICK b : b = conn[c].buf
    OBVIOUS
  <1>3. PICK e \in Nat : e = EndOfMsg(b)
    BY <1>1, <1>2, EndOfMsgRange
  <1>4. PICK body \in {0, 3} : body = BodySize(Ask(Parse(b)))
    BY BodySizes
  <1>5. e # 0 /\ Len(b) >= e + body
    BY <1>1, <1>2, <1>3, <1>4 DEF Inv, StackInv, Complete
  <1>6. RequestId(c) \in Source(c) /\ Source(c) \subseteq Known /\ Known \subseteq RequestIds
    BY <1>1, <1>2, <1>3, <1>5, ParseType, Sources DEF RequestId, Inv
  <1>7. Request(c) \in Requests
    BY <1>6, AskType DEF Request, Inv
  <1>8. PICK n \in Nat : n = Len(b)
    BY <1>1, <1>2
  <1>9. PICK m \in Nat : m = e + body
    OBVIOUS
  <1>10. Rest(c) = SubSeq(b, m + 1, n)
    BY <1>2, <1>3, <1>4, <1>8, <1>9 DEF Rest, RequestSize, Request, RequestId
  <1>11. /\ SubSeq(b, m + 1, n) \in Text(Source(c))
         /\ Len(SubSeq(b, m + 1, n)) = IF m + 1 <= n THEN n - (m + 1) + 1 ELSE 0
    BY <1>1, <1>2, <1>8, TextPart
  <1>12. PICK k \in Nat : k = (IF m + 1 <= n THEN n - (m + 1) + 1 ELSE 0) /\ k <= n
    <2>1. \A i, j \in Nat : LET x == IF i + 1 <= j THEN j - (i + 1) + 1 ELSE 0 IN x \in Nat /\ x <= j
      OBVIOUS
    <2> QED BY <2>1
  <1>13. Rest(c) \in Text(Source(c)) /\ Len(Rest(c)) \in Nat /\ Len(Rest(c)) <= Len(conn[c].buf)
    BY <1>2, <1>8, <1>10, <1>11, <1>12
  <1> QED BY <1>6, <1>7, <1>13 DEF Requests, OfCookie

\* The end of a request: o is the object with what its handler did to it.
LEMMA FinishInv ==
    ASSUME Inv, NEW c \in Conns, At(c, "request"), NEW o \in Objects, Finish(c, o),
           o.obj = conn[c].obj, o.in = conn[c].in, o.out = conn[c].out,
           \/ table' = table /\ o.cookie = conn[c].cookie
           \/ /\ Request(c).kind = "GET" /\ o.cookie = Request(c).cookie
              /\ table' = [table EXCEPT ![Request(c).cookie] = c],
           o.threads = conn[c].threads \/ Request(c).kind = "SETUP",
           \/ delayed' = delayed
           \/ /\ Request(c).kind = "REGISTER"
              /\ \E reuse \in BOOLEAN :
                    delayed' = delayed \cup {[c |-> c, of |-> RequestId(c), reuse |-> reuse]}
    PROVE  Inv'
  <1>1. /\ stack # << >> /\ Nested(stack) /\ c = Top.c /\ Top.pc = "request" /\ Top \in Frames
        /\ conn[c] \in Objects /\ Live(c) /\ Len(conn[c].buf) <= BufferSize /\ Len(conn[c].buf) \in Nat
        /\ TypeInv
    BY AtIs DEF Inv
  <1>2. /\ RequestId(c) \in Source(c) /\ RequestId(c) \in RequestIds /\ Request(c) \in Requests
        /\ Request(c).kind = "GET" => Request(c).cookie \in Cookies
    BY RequestIs
  <1>0. PICK r : r = Request(c)
    OBVIOUS
  <1>3. PICK rest \in Text(Source(c)) : /\ rest = Rest(c) /\ Len(rest) \in Nat
                                        /\ Len(rest) <= Len(conn[c].buf)
    BY RequestIs
  <1>4. PICK p : p = [o EXCEPT !.buf = rest, !.rem = 0]
    OBVIOUS
  <1>5. /\ p.obj = o.obj /\ p.in = o.in /\ p.out = o.out /\ p.buf = rest /\ p.rem = 0
        /\ p.cookie = o.cookie /\ p.threads = o.threads
    BY <1>4 DEF Objects
  <1>6. p \in Objects
    <2>1. Source(c) \subseteq RequestIds
      BY Sources DEF Inv
    <2>2. rest \in Text(RequestIds) /\ 0 \in 0 .. 3
      BY <2>1, TextMonotonic
    <2> QED BY <1>4, <2>2, ObjectChanges
  <1>7. /\ conn' = [conn EXCEPT ![c] = p]
        /\ handled' = [handled EXCEPT ![c] = Append(@, RequestId(c))]
        /\ UNCHANGED <<sock, watch, fault, sent, wire, lost, application>>
    BY <1>3, <1>4 DEF Finish
  <1>8. PICK f \in Frames : /\ stack' = [stack EXCEPT ![Len(stack)] = f] /\ f.c = c
                            /\ f.pc = "leave" \/ (f.pc = "bytes" /\ f.new = Len(rest))
    <2>1. Top = stack[Len(stack)] /\ Len(stack) \in DOMAIN stack
      BY <1>1, StackFacts, LenProperties DEF Top, Last, Nested
    <2> DEFINE g == [Top EXCEPT !.pc = "leave"]
               h == [Frame(c, Len(rest)) EXCEPT !.pipelined = TRUE]
    <2>2. g \in Frames /\ g.c = c /\ g.pc = "leave"
      BY <1>1 DEF Frames
    <2>3. h \in Frames /\ h.c = c /\ h.pc = "bytes" /\ h.new = Len(rest)
      BY <1>3 DEF Frames, Frame
    <2>4. stack' = [stack EXCEPT ![Len(stack)] = IF rest = << >> THEN g ELSE h]
      BY <1>3, <2>1 DEF Finish
    <2> HIDE DEF g, h
    <2> QED BY <2>2, <2>3, <2>4
  <1>9. Remembers /\ r \in Got(c, r.kind)'
    <2>1. PICK id \in RequestIds : id = RequestId(c)
      BY <1>2
    <2>2. r = Ask(id) /\ handled' = [handled EXCEPT ![c] = Append(@, id)] /\ sent' = sent
      BY <1>0, <1>7, <2>1 DEF Request
    <2>3. Ask(id)' = Ask(id)
      BY <2>2 DEF Ask, NotOne
    <2>4. Remembers /\ Ask(id) \in Got(c, Ask(id).kind)'
      BY <1>1, <2>2, HandlesOne
    <2> QED BY <2>2, <2>3, <2>4
  <1>10. /\ conn'[c] = p /\ \A d \in Conns : d # c => conn'[d] = conn[d]
         /\ \A d \in Conns : conn'[d].obj = conn[d].obj
    BY <1>1, <1>5, <1>7 DEF TypeInv
  <1>11. TableInv' /\ table' \in [Cookies -> Conns \cup {None}]
    <2>1. CASE table' = table /\ o.cookie = conn[c].cookie
      <3>1. \A d \in Conns : conn'[d].cookie = conn[d].cookie
        BY <1>5, <1>10, <2>1
      <3> QED BY <1>1, <1>9, <1>10, <2>1, <3>1, TableStays DEF TypeInv
    <2>2. CASE /\ Request(c).kind = "GET" /\ o.cookie = Request(c).cookie
               /\ table' = [table EXCEPT ![Request(c).cookie] = c]
      <3>1. PICK k \in Cookies : k = Request(c).cookie
        BY <1>2, <2>2
      <3>3. r \in Got(c, "GET")' /\ r.cookie = k
        BY <1>0, <1>9, <2>2, <3>1
      <3>4. GotCookie(c, k)'
        BY <3>3 DEF GotCookie
      <3>5. conn'[c].cookie = k /\ \A d \in Conns : d # c => conn'[d].cookie = conn[d].cookie
        BY <1>5, <1>10, <2>2, <3>1
      <3>6. TableInv'
        BY <1>1, <1>9, <1>10, <2>2, <3>1, <3>4, <3>5, TableGets
      <3> QED BY <1>1, <2>2, <3>1, <3>6 DEF TypeInv
    <2> QED BY <2>1, <2>2
  <1>12. PendingInv' /\ delayed' \subseteq [c : Conns, of : RequestIds, reuse : BOOLEAN]
    <2>1. \A q \in delayed' : q \in delayed \/ (q.c = c /\ Request(c).kind = "REGISTER")
      OBVIOUS
    <2>2. Request(c).kind = "REGISTER" => GaveUp(c)'
      BY <1>0, <1>9 DEF GaveUp
    <2>3. \A d \in Conns : conn'[d].threads = conn[d].threads \/ Got(d, "SETUP")' # {}
      BY <1>0, <1>5, <1>9, <1>10
    <2>4. PendingInv'
      BY <1>9, <2>1, <2>2, <2>3, PendingStays
    <2> QED BY <1>1, <1>2, <2>4 DEF TypeInv
  <1>13. /\ p.buf \in Text(Source(c)) /\ Len(p.buf) <= BufferSize /\ p.rem <= Len(p.buf)
         /\ f.pc = "bytes" => f.new + p.rem <= Len(p.buf)
    BY <1>1, <1>3, <1>5, <1>8, BoundsAssumption
  <1> QED BY <1>1, <1>2, <1>5, <1>6, <1>7, <1>8, <1>11, <1>12, <1>13, CallStep

LEMMA RespondsIs ==
    ASSUME Inv, NEW c \in Conns, At(c, "request"), NEW status \in Statuses
    PROVE  LET o == Responds(c, status)
           IN  /\ o \in Objects /\ o.obj = conn[c].obj /\ o.in = conn[c].in /\ o.out = conn[c].out
               /\ o.cookie = conn[c].cookie /\ o.threads = conn[c].threads
  <1>1. conn[c] \in Objects /\ RequestId(c) \in RequestIds
    BY AtIs, RequestIs
  <1>2. PICK r \in [to : RequestIds, status : Statuses] : r = [to |-> RequestId(c), status |-> status]
    BY <1>1
  <1>3. Responds(c, status) = [conn[c] EXCEPT !.resp = r]
    BY <1>2 DEF Responds
  <1> HIDE DEF Responds
  <1>4. Responds(c, status) \in Objects
    <2>1. \A q \in [to : RequestIds, status : Statuses] : [conn[c] EXCEPT !.resp = q] \in Objects
      BY <1>1, ObjectChanges
    <2> QED BY <1>3, <2>1
  <1> QED BY <1>1, <1>3, <1>4 DEF Objects

\* The requests that leave tunnels, and who else is called, alone
LEMMA CommandInv ==
    ASSUME Inv, NEW c \in Conns,
           \/ Announce(c) \/ AnswerOnly(c) \/ Describe(c) \/ Setup(c) \/ SetupFails(c)
           \/ (\E reuse \in ReuseConnection : Register(c, reuse)) \/ Bad(c)
           \/ TunnelingGET(c) \/ PostUnknown(c)
    PROVE  Inv'
  <1>1. At(c, "request") /\ conn[c] \in Objects
    <2>1. At(c, "request")
      BY DEF Announce, AnswerOnly, Describe, Setup, SetupFails, Register, Bad, TunnelingGET, PostUnknown, Handles
    <2> QED BY <2>1, AtIs
  <1>2. \A status \in Statuses : \A o : o = Responds(c, status) =>
            /\ o \in Objects /\ o.obj = conn[c].obj /\ o.in = conn[c].in /\ o.out = conn[c].out
            /\ o.cookie = conn[c].cookie /\ o.threads = conn[c].threads
    BY <1>1, RespondsIs
  <1>3. \A status \in {"ok", "signed", "unended", "sessionNotFound", "sdp", "notFound", "invalid",
                       "bad", "notSupported"} : status \in Statuses
    BY DEF Statuses
  <1>4. PICK ok \in Objects : /\ ok = Responds(c, "ok")
                              /\ ok.obj = conn[c].obj /\ ok.in = conn[c].in /\ ok.out = conn[c].out
                              /\ ok.cookie = conn[c].cookie /\ ok.threads = conn[c].threads
    BY <1>2, <1>3
  <1>5. CASE Announce(c)
    <2>1. PICK o : o = [ok EXCEPT !.config = TRUE]
      OBVIOUS
    <2>2. o \in Objects
      BY <2>1, ObjectChanges
    <2>3. /\ o.obj = conn[c].obj /\ o.in = conn[c].in /\ o.out = conn[c].out
          /\ o.cookie = conn[c].cookie /\ o.threads = conn[c].threads
      BY <1>4, <2>1 DEF Objects
    <2>4. Finish(c, o) /\ table' = table /\ delayed' = delayed
      BY <1>4, <1>5, <2>1 DEF Announce, Quiet
    <2> QED BY <1>1, <2>2, <2>3, <2>4, FinishInv
  <1>6. CASE AnswerOnly(c)
    <2>1. PICK kind \in {"OPTIONS", "CHALLENGE", "SET_PARAMETER", "FLUSH", "PLAY"} :
              Finish(c, Responds(c, AnswerTo(kind)))
      BY <1>6 DEF AnswerOnly
    <2>2. AnswerTo(kind) \in Statuses
      BY <2>1 DEF AnswerTo, OptionsStatus, FlushStatus, Statuses
    <2>3. PICK o : o = Responds(c, AnswerTo(kind))
      OBVIOUS
    <2>4. /\ o \in Objects /\ o.obj = conn[c].obj /\ o.in = conn[c].in /\ o.out = conn[c].out
          /\ o.cookie = conn[c].cookie /\ o.threads = conn[c].threads
      BY <1>2, <2>2, <2>3
    <2>5. Finish(c, o) /\ table' = table /\ delayed' = delayed
      BY <1>6, <2>1, <2>3 DEF AnswerOnly, Quiet
    <2> QED BY <1>1, <2>4, <2>5, FinishInv
  <1>7. CASE Describe(c) \/ Bad(c)
    <2>1. PICK status \in Statuses : Finish(c, Responds(c, status)) /\ table' = table /\ delayed' = delayed
      BY <1>3, <1>7 DEF Describe, Bad, Quiet
    <2>3. PICK o : o = Responds(c, status)
      OBVIOUS
    <2>4. /\ o \in Objects /\ o.obj = conn[c].obj /\ o.in = conn[c].in /\ o.out = conn[c].out
          /\ o.cookie = conn[c].cookie /\ o.threads = conn[c].threads
      BY <1>2, <2>3
    <2> QED BY <1>1, <2>1, <2>3, <2>4, FinishInv
  <1>8. CASE Setup(c)
    <2>1. PICK o : o = [ok EXCEPT !.threads = @ + 1]
      OBVIOUS
    <2>2. o \in Objects
      BY <2>1, ObjectChanges
    <2>3. /\ o.obj = conn[c].obj /\ o.in = conn[c].in /\ o.out = conn[c].out
          /\ o.cookie = conn[c].cookie
      BY <1>4, <2>1 DEF Objects
    <2>4. Finish(c, o) /\ table' = table /\ delayed' = delayed /\ Request(c).kind = "SETUP"
      BY <1>4, <1>8, <2>1 DEF Setup, Quiet, Handles
    <2> QED BY <1>1, <2>2, <2>3, <2>4, FinishInv
  <1>9. CASE SetupFails(c)
    <2>1. Finish(c, conn[c]) /\ table' = table /\ delayed' = delayed
      BY <1>9 DEF SetupFails, Quiet
    <2> QED BY <1>1, <2>1, FinishInv
  <1>10. CASE \E reuse \in ReuseConnection : Register(c, reuse)
    <2>1. PICK reuse \in BOOLEAN : Register(c, reuse)
      BY <1>10 DEF ReuseConnection
    <2>2. PICK status \in Statuses :
              /\ Finish(c, Responds(c, status)) /\ table' = table /\ Request(c).kind = "REGISTER"
              /\ \/ delayed' = delayed
                 \/ delayed' = delayed \cup {[c |-> c, of |-> RequestId(c), reuse |-> reuse]}
      BY <1>3, <2>1 DEF Register, Handles
    <2>3. PICK o : o = Responds(c, status)
      OBVIOUS
    <2>4. /\ o \in Objects /\ o.obj = conn[c].obj /\ o.in = conn[c].in /\ o.out = conn[c].out
          /\ o.cookie = conn[c].cookie /\ o.threads = conn[c].threads
      BY <1>2, <2>3
    <2> QED BY <1>1, <2>2, <2>3, <2>4, FinishInv
  <1>11. CASE TunnelingGET(c)
    <2>0. PICK k : k = SessionCookie(c)
      OBVIOUS
    <2>1. PICK o : o = [ok EXCEPT !.cookie = k]
      OBVIOUS
    <2>2. Request(c).kind = "GET" /\ k = Request(c).cookie /\ k \in Cookies
      BY <1>1, <1>11, <2>0, RequestIs DEF TunnelingGET, Handles, SessionCookie
    <2>3. o \in Objects
      BY <2>1, <2>2, ObjectChanges
    <2>4. /\ o.obj = conn[c].obj /\ o.in = conn[c].in /\ o.out = conn[c].out
          /\ o.cookie = k /\ o.threads = conn[c].threads
      BY <1>4, <2>1 DEF Objects
    <2>5. Finish(c, o) /\ table' = [table EXCEPT ![Request(c).cookie] = c] /\ delayed' = delayed
      BY <1>4, <1>11, <2>0, <2>1, <2>2 DEF TunnelingGET
    <2> QED BY <1>1, <2>2, <2>3, <2>4, <2>5, FinishInv
  <1>12. CASE PostUnknown(c)
    <2>0. PICK p : p = Responds(c, "notSupported")
      OBVIOUS
    <2>1. PICK o : o = [p EXCEPT !.active = FALSE]
      OBVIOUS
    <2>2. /\ p \in Objects /\ p.obj = conn[c].obj /\ p.in = conn[c].in /\ p.out = conn[c].out
          /\ p.cookie = conn[c].cookie /\ p.threads = conn[c].threads
      BY <1>2, <1>3, <2>0
    <2>3. o \in Objects
      BY <2>1, <2>2, ObjectChanges
    <2>4. /\ o.obj = conn[c].obj /\ o.in = conn[c].in /\ o.out = conn[c].out
          /\ o.cookie = conn[c].cookie /\ o.threads = conn[c].threads
      BY <2>1, <2>2 DEF Objects
    <2>5. Finish(c, o) /\ table' = table /\ delayed' = delayed
      BY <1>12, <2>0, <2>1 DEF PostUnknown, Quiet
    <2> QED BY <1>1, <2>3, <2>4, <2>5, FinishInv
  <1> QED BY <1>5, <1>6, <1>7, <1>8, <1>9, <1>10, <1>11, <1>12
-----------------------------------------------------------------------------
(* Steps that leave the objects alone *)

LEMMA QuietStep ==
    ASSUME Inv, UNCHANGED <<conn, sock, watch, table, stack, handled>>, delayed' \subseteq delayed,
           \/ stack = << >>
           \/ stack # << >> /\ Top.pc \in {"bytes", "request"} /\ sent' = sent,
           Remembers, TypeInv', DataInv', FaultInv'
    PROVE  Inv'
  <1>1. Posting' = Posting /\ Outer' = Outer /\ Top' = Top
    BY DEF Posting, Outer, Top
  <1>2. Calm
    <2>1. \/ Running /\ Top.pc # "leave" /\ Running' /\ Top'.c = Top.c
          \/ stack = << >> /\ ~Running'
      BY <1>1 DEF Running
    <2> QED BY <1>1, <2>1 DEF Calm
  <1>3. TableInv'
    BY TableStays
  <1>4. PendingInv'
    BY PendingStays
  <1>5. StackInv'
    <2>1. CASE stack = << >>
      <3>1. stack' = << >> /\ Nested(stack') /\ Outer' = {}
        BY <2>1, StackEmpty DEF Outer
      <3> QED BY <3>1 DEF StackInv
    <2>2. CASE sent' = sent
      <3>1. \A b : Complete(b)' = Complete(b)
        BY <2>2 DEF Complete, Ask, NotOne
      <3>2. \A c : Live(c)' = Live(c)
        BY DEF Live
      <3>3. StackInv
        BY DEF Inv
      <3> QED BY <1>1, <3>1, <3>2, <3>3 DEF StackInv
    <2> QED BY <2>1, <2>2
  <1> QED BY <1>2, <1>3, <1>4, <1>5, CalmStep DEF Inv

\* Nothing but the application's own data, what clients have closed and the fault.
LEMMA IdleStep ==
    ASSUME Inv, UNCHANGED <<conn, sock, watch, table, stack, handled, sent, wire>>,
           delayed' \subseteq delayed,
           stack = << >> \/ (stack # << >> /\ Top.pc \in {"bytes", "request"}),
           pending' \in 0 .. MaxPending, up' \in BOOLEAN, FaultInv'
    PROVE  Inv'
  <1>1. TypeInv /\ DataInv
    BY DEF Inv
  <1>2. TypeInv'
    BY <1>1 DEF TypeInv
  <1>3. DataInv'
    <2>1. \A c : Source(c)' = Source(c) /\ OfSocket(c)' = OfSocket(c)
      BY DEF Source, OfSocket, Known, Holds, Live, Posting
    <2> QED BY <1>1, <2>1 DEF DataInv
  <1>4. Remembers
    BY RemembersSame
  <1> QED BY <1>2, <1>3, <1>4, QuietStep

\* Nothing but the fault, wherever the calls are.
LEMMA SameStep ==
    ASSUME Inv, UNCHANGED <<conn, sock, watch, table, delayed, stack, handled, sent, wire, pending, up>>,
           FaultInv'
    PROVE  Inv'
  <1>1. UNCHANGED <<conn, sock, watch, table, delayed, pending, up, stack, sent, wire, handled>>
    OBVIOUS
  <1>2. /\ Posting' = Posting /\ Outer' = Outer /\ Top' = Top
        /\ \A d : (Live(d)' <=> Live(d)) /\ (Deleted(d)' <=> Deleted(d))
    BY <1>1 DEF Posting, Outer, Top, Live, Deleted
  <1>3. /\ \A d : (Holds(d)' <=> Holds(d)) /\ (Ending(d)' <=> Ending(d)) /\ OwnSockets(d)' = OwnSockets(d)
        /\ \A d : (Owner(d)' <=> Owner(d)) /\ OfSocket(d)' = OfSocket(d)
        /\ Known' = Known /\ (Running' <=> Running)
    BY <1>1, <1>2 DEF Holds, Ending, OwnSockets, Owner, OfSocket, Known, Running
  <1>4. /\ \A d : Source(d)' = Source(d)
        /\ \A d : (Complete(d)' <=> Complete(d))
        /\ \A d, k : Got(d, k)' = Got(d, k) /\ (HasSent(d, k)' <=> HasSent(d, k))
    BY <1>1, <1>3 DEF Source, Complete, Ask, NotOne, Got, HasSent
  <1>5. Remembers /\ \A d \in Conns : Deleted(d) => Deleted(d)'
    BY <1>1, <1>2, RemembersSame
  <1>6. TypeInv' /\ DataInv'
    BY <1>1, <1>3, <1>4 DEF Inv, TypeInv, DataInv
  <1>7. StackInv'
    BY <1>1, <1>2, <1>4 DEF Inv, StackInv
  <1>8. OwnerInv' /\ ObjectInv' /\ CallInv'
    BY <1>1, <1>2, <1>3 DEF Inv, OwnerInv, ObjectInv, CallInv
  <1>9. TableInv' /\ PendingInv'
    BY <1>1, <1>5, TableStays, PendingStays
  <1>10. HandedInv'
    BY <1>1, <1>2, <1>4 DEF Inv, HandedInv
  <1>11. WatchInv'
    BY <1>1, <1>2, <1>3, <1>4 DEF Inv, WatchInv, PostedToItself, GaveUp
  <1>12. LeakInv'
    <2> SUFFICES ASSUME NEW s \in Conns
                 PROVE  \/ sock[s] # "open"
                        \/ \E d \in Conns : Holds(d) /\ s \in OwnSockets(d)
                        \/ Running /\ conn[Top.c].in = s
                        \/ Excused(s)'
      BY <1>1, <1>2, <1>3 DEF LeakInv
    <2> QED BY <1>5, ExcusedStays DEF Inv, LeakInv
  <1> QED BY <1>6, <1>7, <1>8, <1>9, <1>10, <1>11, <1>12 DEF Inv

LEMMA FaultStep ==
    ASSUME Inv, NEW what \in {"socket", "cookie", "register", "audio", "config", "datagram", "table"}, Fault(what),
           what = "cookie" => \E c \in Conns : Deleted(c) /\ TwoCookies(c),
           what = "audio" => \E c \in Conns : Deleted(c) /\ Got(c, "SETUP") # {}
    PROVE  Inv'
  <1>1. Remembers
    BY RemembersSame DEF Fault
  <1>2. \A c \in Conns : Deleted(c)' = Deleted(c)
    BY DEF Fault, Deleted
  <1>3. FaultInv'
    BY <1>1, <1>2, Remembered DEF FaultInv, Fault
  <1>4. UNCHANGED <<conn, sock, watch, table, delayed, stack, handled, sent, wire, pending, up>>
    BY DEF Fault, application
  <1> QED BY <1>3, <1>4, SameStep

LEMMA PostDanglingInv ==
    ASSUME Inv, NEW c \in Conns, PostDangling(c)
    PROVE  Inv'
  <1>1. At(c, "request") /\ Fault("cookie") /\ Request(c).kind = "POST" /\ Deleted(table[SessionCookie(c)])
    BY DEF PostDangling, Handles
  <1>2. PICK k \in Cookies : k = SessionCookie(c)
    BY <1>1, RequestIs DEF SessionCookie
  <1>3. stack # << >> /\ Top.pc = "request"
    BY <1>1 DEF At
  <1>4. PICK d : d = table[k]
    OBVIOUS
  <1>5. d \in Conns /\ Deleted(d)
    BY <1>1, <1>2, <1>4 DEF Inv, TypeInv, Deleted
  <1>6. TwoCookies(d)
    BY <1>2, <1>4, <1>5 DEF Inv, TableInv
  <1> QED BY <1>1, <1>3, <1>5, <1>6, FaultStep

LEMMA AudioThreadInv ==
    ASSUME Inv, NEW c \in Conns, AudioThread(c)
    PROVE  Inv'
  <1>1. Got(c, "SETUP") # {}
    BY DEF AudioThread, Inv, PendingInv
  <1> QED BY <1>1, FaultStep DEF AudioThread

LEMMA ClientWritesInv ==
    ASSUME Inv, NEW s \in Conns, NEW script \in Scripts,
           NEW ks \in [DOMAIN script -> Cookies \cup {None}], ClientWrites(s, script, ks)
    PROVE  Inv'
  <1>1. TypeInv /\ DataInv /\ stack = << >> /\ sent[s] = << >>
    BY DEF Inv, ClientWrites, Serving, EventLoop
  <1>2. PICK rs : rs = [i \in DOMAIN script |-> [kind |-> script[i], cookie |-> ks[i]]]
    OBVIOUS
  <1>3. /\ sent' = [sent EXCEPT ![s] = rs] /\ wire' = [wire EXCEPT ![s] = Written(s, rs)]
        /\ UNCHANGED <<conn, sock, watch, table, delayed, proxied, stack, fault, handled, pending, up>>
        /\ \A i \in DOMAIN script : ks[i] # None <=> script[i] \in OfCookie
    BY <1>2 DEF ClientWrites, serverVars, application
  <1>4. rs \in Seq(Requests)
    <2>1. script \in Seq(Kinds) /\ Len(script) \in Nat /\ DOMAIN script = 1 .. Len(script)
      BY ScriptsAssumption, LenProperties
    <2>2. \A i \in 1 .. Len(script) : script[i] \in Kinds
      BY <2>1, ElementOfSeq
    <2>3. \A i \in 1 .. Len(script) : [kind |-> script[i], cookie |-> ks[i]] \in Requests
      BY <1>3, <2>1, <2>2 DEF Requests
    <2>4. \A S : \A f, n : n \in Nat /\ f \in [1 .. n -> S] => f \in Seq(S)
      OBVIOUS
    <2>5. rs \in [1 .. Len(script) -> Requests]
      BY <1>2, <2>1, <2>3
    <2> QED BY <2>1, <2>4, <2>5
  <1>5. Remembers
    BY <1>1, <1>3, <1>4, SendsMore
  <1>6. /\ sent'[s] = rs /\ wire'[s] = Written(s, rs)
        /\ \A d \in Conns : d # s => sent'[d] = sent[d] /\ wire'[d] = wire[d]
        /\ sent' \in [Conns -> Seq(Requests)]
    BY <1>1, <1>3, <1>4 DEF TypeInv
  <1>7. \A d \in Conns : OfSocket(d) \subseteq OfSocket(d)'
    <2>1. Len(sent[s]) = 0
      BY <1>1, EmptySeq
    <2>2. OfSocket(s) = {Garbage}
      BY <2>1 DEF OfSocket
    <2> QED BY <1>6, <2>2 DEF OfSocket
  <1>8. Known \subseteq Known'
    BY <1>7 DEF Known
  <1>9. \A d \in Conns : Source(d) \subseteq Source(d)'
    <2>1. \A d : Holds(d)' = Holds(d)
      BY <1>3 DEF Holds, Live, Posting
    <2> QED BY <1>3, <1>7, <1>8, <2>1 DEF Source
  <1>10. Written(s, rs) \in Text(OfSocket(s)')
    <2>1. Written(s, rs) \in Text({Id(s, n) : n \in 1 .. Len(rs)})
      BY <1>4, WrittenType
    <2>2. {Id(s, n) : n \in 1 .. Len(rs)} \subseteq OfSocket(s)'
      BY <1>6 DEF OfSocket
    <2> QED BY <2>1, <2>2, TextMonotonic
  <1>11. DataInv'
    <2>1. ASSUME NEW d \in Conns PROVE wire'[d] \in Text(OfSocket(d)')
      <3>1. CASE d = s
        BY ONLY <1>6, <1>10, <3>1
      <3>2. CASE d # s
        <4>1. OfSocket(d)' = OfSocket(d)
          BY ONLY <1>6, <3>2, d \in Conns DEF OfSocket
        <4>2. wire[d] \in Text(OfSocket(d))
          BY <1>1 DEF DataInv
        <4> QED BY ONLY <1>6, <3>2, <4>1, <4>2, d \in Conns
      <3> QED BY ONLY <3>1, <3>2
    <2>2. ASSUME NEW d \in Conns PROVE conn'[d].buf \in Text(Source(d)') /\ handled'[d] \in Seq(Source(d)')
      <3>1. conn[d].buf \in Text(Source(d)) /\ handled[d] \in Seq(Source(d))
        BY <1>1 DEF DataInv
      <3>2. PICK S : S = Source(d)'
        OBVIOUS
      <3>3. conn[d].buf \in Text(S) /\ handled[d] \in Seq(S)
        BY <1>9, <3>1, <3>2, TextMonotonic, SeqMonotonic
      <3> QED BY <1>3, <3>2, <3>3
    <2>3. \A d \in Conns : Len(conn'[d].buf) <= BufferSize /\ conn'[d].rem <= Len(conn'[d].buf)
      BY <1>1, <1>3 DEF DataInv
    <2> QED BY <2>1, <2>2, <2>3 DEF DataInv
  <1>12. TypeInv'
    <2>1. PICK w \in Text(OfSocket(s)') : w = Written(s, rs)
      BY <1>10
    <2>2. OfSocket(s)' \subseteq RequestIds
      <3>1. Len(rs) \in Nat
        BY <1>4, LenProperties
      <3> QED BY <1>6, <3>1 DEF OfSocket, RequestIds, Id, Garbage
    <2>3. PICK S : S = OfSocket(s)'
      OBVIOUS
    <2>4. w \in Text(RequestIds)
      BY <2>1, <2>2, <2>3, TextMonotonic
    <2>5. wire' = [wire EXCEPT ![s] = w]
      BY <1>3, <2>1
    <2>6. wire' \in [Conns -> Text(RequestIds)]
      BY <1>1, <2>4, <2>5 DEF TypeInv
    <2> QED BY <1>1, <1>3, <1>6, <2>6 DEF TypeInv
  <1>13. FaultInv'
    <2>1. \A d : Deleted(d)' = Deleted(d)
      BY <1>3 DEF Deleted
    <2> QED BY <1>3, <1>5, <2>1, Remembered DEF Inv, FaultInv
  <1> QED BY <1>1, <1>3, <1>5, <1>11, <1>12, <1>13, QuietStep

\* What clients close, and what the application asks other servers for
LEMMA ApplicationInv ==
    ASSUME Inv, RegisterStream \/ \E s \in Conns : ClientCloses(s)
    PROVE  Inv'
  <1>1. /\ stack = << >>
        /\ UNCHANGED <<conn, sock, watch, table, delayed, stack, fault, handled, sent, wire, up>>
        /\ pending' = pending \/ (pending < MaxPending /\ pending' = pending + 1)
    BY DEF RegisterStream, ClientCloses, Serving, EventLoop, serverVars, application
  <1>2. pending' \in 0 .. MaxPending
    BY <1>1, BoundsAssumption DEF Inv, TypeInv
  <1>3. FaultInv'
    <2>1. \A d : Deleted(d)' = Deleted(d)
      BY <1>1 DEF Deleted
    <2>2. Remembers
      BY <1>1, RemembersSame
    <2> QED BY <1>1, <2>1, <2>2, Remembered DEF Inv, FaultInv
  <1> QED BY <1>1, <1>2, <1>3, IdleStep DEF Inv, TypeInv
-----------------------------------------------------------------------------
(* The event loop *)

\* Between events no object has a POST under way.
LEMMA BetweenEvents ==
    ASSUME Inv, stack = << >>
    PROVE  /\ Posting = {} /\ Outer = {} /\ ~Running
           /\ \A c \in Conns : (Holds(c) <=> Live(c)) /\ ~Ending(c)
           /\ \A c \in Conns : Live(c) => Owner(c)
  <1>1. Posting = {} /\ Outer = {} /\ ~Running
    BY StackEmpty DEF Posting, Outer, Running
  <1>2. \A c \in Conns : (Holds(c) <=> Live(c)) /\ ~Ending(c)
    BY <1>1 DEF Holds, Ending
  <1> QED BY <1>1, <1>2 DEF Inv, OwnerInv

\* A call of handleRequestBytes() begins with the frame f, its object being o.
LEMMA EventStep ==
    ASSUME Inv, stack = << >>, NEW c \in Conns, Live(c), NEW o \in Objects, NEW f \in Frames,
           UNCHANGED <<sock, watch, table, delayed, fault, handled, sent, application>>,
           conn' = [conn EXCEPT ![c] = o], stack' = <<f>>,
           o.obj = conn[c].obj, o.in = conn[c].in, o.out = conn[c].out,
           o.cookie = conn[c].cookie, o.threads = conn[c].threads,
           o.buf \in Text(Source(c)), Len(o.buf) <= BufferSize, o.rem <= Len(o.buf),
           f.c = c, f.pc \in {"bytes", "leave"},
           f.pc = "bytes" => f.new + o.rem <= Len(o.buf),
           wire' \in [Conns -> Text(RequestIds)],
           \A s \in Conns : wire'[s] \in Text(OfSocket(s))
    PROVE  Inv'
  <1>0. TypeInv /\ DataInv
    BY DEF Inv
  <1>1. Nested(stack') /\ stack' # << >> /\ Top' = f /\ Outer' = {} /\ Posting' = {} /\ Posting = {}
    <2>1. Nested(stack') /\ stack' # << >> /\ Last(stack') = f /\ OuterOf(stack') = {}
      BY StackOne
    <2>2. PostingOf(stack') = {}
      BY <2>1, StackPosting
    <2> QED BY <2>1, <2>2, BetweenEvents DEF Top, Outer, Posting
  <1>2. Remembers
    BY RemembersSame
  <1>3. /\ conn'[c] = o /\ \A d \in Conns : d # c => conn'[d] = conn[d]
        /\ conn' \in [Conns -> Objects]
    BY <1>0 DEF TypeInv
  <1>4. Calm
    BY <1>1, <1>2, <1>3 DEF Calm, Live
  <1>5. \A d \in Conns : Live(d)' = Live(d) /\ Holds(d)' = Holds(d)
    BY <1>4, CalmStep
  <1>6. TypeInv'
    BY <1>0, <1>1, <1>3 DEF TypeInv, application, Nested
  <1>7. StackInv'
    BY <1>1, <1>3, <1>5 DEF StackInv
  <1>8. DataInv'
    <2>1. \A d \in Conns : Source(d)' = Source(d) /\ OfSocket(d)' = OfSocket(d)
      BY <1>3, <1>5 DEF Source, OfSocket, Known
    <2>2. \A d \in Conns : wire'[d] \in Text(OfSocket(d)')
      BY <2>1
    <2>3. \A d \in Conns : /\ conn'[d].buf \in Text(Source(d)') /\ handled'[d] \in Seq(Source(d)')
                          /\ Len(conn'[d].buf) <= BufferSize /\ conn'[d].rem <= Len(conn'[d].buf)
      BY <1>0, <1>3, <2>1 DEF DataInv
    <2> QED BY <2>2, <2>3 DEF DataInv
  <1>9. \A d \in Conns : /\ conn'[d].obj = conn[d].obj /\ conn'[d].cookie = conn[d].cookie
                         /\ conn'[d].threads = conn[d].threads
    BY <1>3
  <1>10. TableInv' /\ PendingInv'
    BY <1>2, <1>9, TableStays, PendingStays
  <1>11. FaultInv'
    <2>1. \A d \in Conns : Deleted(d)' = Deleted(d)
      BY <1>9 DEF Deleted
    <2> QED BY <1>2, <2>1, Remembered DEF Inv, FaultInv
  <1> QED BY <1>4, <1>6, <1>7, <1>8, <1>10, <1>11, CalmStep DEF Inv

LEMMA ReceiveInv ==
    ASSUME Inv, NEW s \in Conns, NEW n \in 1 .. BufferSize, Receive(s, n)
    PROVE  Inv'
  <1>1. PICK c : c = watch[s]
    OBVIOUS
  <1>2. /\ c \in Conns /\ stack = << >> /\ TypeInv /\ DataInv /\ fault = "none" /\ n \in Nat
        /\ conn[c] \in Objects
    BY <1>1, BoundsAssumption DEF Receive, EventLoop, Inv, TypeInv
  <1>3. CASE Deleted(c)
    <2>1. Fault("socket")
      BY <1>1, <1>3 DEF Receive
    <2> QED BY <1>2, <2>1, FaultStep
  <1>4. CASE ~Deleted(c)
    <2>1. /\ n <= Len(wire[s]) /\ n <= Left(c)
          /\ conn' = [conn EXCEPT ![c].buf = @ \o SubSeq(wire[s], 1, n)]
          /\ wire' = [wire EXCEPT ![s] = SubSeq(@, n + 1, Len(@))]
          /\ stack' = <<Frame(c, n)>>
          /\ UNCHANGED <<sock, watch, table, delayed, proxied, fault, handled, replies, sent, lost,
                         application>>
      BY <1>1, <1>4 DEF Receive
    <2>2. Live(c) /\ conn[c].in = s
      <3>1. conn[c].obj # "none"
        BY <1>1, <1>2 DEF Inv, WatchInv
      <3>2. Live(c)
        BY <1>2, <1>4, <3>1, NoneAssumption DEF Live, Deleted, Objects
      <3> QED BY <1>1, <1>2, <3>2, BetweenEvents DEF Inv, WatchInv
    <2>3. OfSocket(s) \subseteq Source(c)
      <3>1. OfSocket(s) \subseteq Known
        BY <1>2, Sources
      <3> QED BY <2>2, <3>1 DEF Source
    <2>4. PICK w \in Text(OfSocket(s)) : w = wire[s] /\ Len(w) \in Nat
      BY <1>2, TextLen DEF DataInv
    <2>5. PICK a \in Text(Source(c)) : a = SubSeq(w, 1, n) /\ Len(a) = n
      <3>1. SubSeq(w, 1, n) \in Text(OfSocket(s)) /\ Len(SubSeq(w, 1, n)) = IF 1 <= n THEN n - 1 + 1 ELSE 0
        <4>1. 1 \in Int /\ 1 <= 1 /\ n \in Int /\ n <= Len(w)
          BY <1>2, <2>1, <2>4
        <4> QED BY <4>1, TextPart
      <3>2. (IF 1 <= n THEN n - 1 + 1 ELSE 0) = n
        BY ONLY n \in Nat
      <3> QED BY <2>3, <3>1, <3>2, TextMonotonic
    <2>6. PICK rest \in Text(OfSocket(s)) : rest = SubSeq(w, n + 1, Len(w))
      <3>1. \A j \in Nat : j \in Int /\ j <= j
        OBVIOUS
      <3>2. n + 1 \in Int /\ 1 <= n + 1
        BY <1>2
      <3> QED BY <2>4, <3>1, <3>2, TextPart
    <2>7. PICK b \in Text(Source(c)) : b = conn[c].buf /\ Len(b) \in Nat /\ conn[c].rem <= Len(b)
      BY <1>2, TextLen DEF DataInv
    <2>8. PICK x \in Text(Source(c)) : x = b \o a /\ Len(x) = Len(b) + n
      <3>1. \A S : \A u, v \in Text(S) : u \o v \in Text(S) /\ Len(u \o v) = Len(u) + Len(v)
        BY TextConcat
      <3>2. b \o a \in Text(Source(c)) /\ Len(b \o a) = Len(b) + Len(a)
        BY <3>1
      <3> QED BY <2>5, <3>2
    <2>9. PICK o : o = [conn[c] EXCEPT !.buf = x]
      OBVIOUS
    <2>10. /\ o.obj = conn[c].obj /\ o.in = conn[c].in /\ o.out = conn[c].out /\ o.buf = x
           /\ o.cookie = conn[c].cookie /\ o.threads = conn[c].threads /\ o.rem = conn[c].rem
      BY <1>2, <2>9 DEF Objects
    <2>11. o \in Objects
      <3>1. Source(c) \subseteq RequestIds
        BY <1>2, Sources
      <3>2. x \in Text(RequestIds)
        BY <3>1, TextMonotonic
      <3>3. PICK r \in 0 .. 3 : r = conn[c].rem
        BY <1>2 DEF Objects
      <3>4. o = [conn[c] EXCEPT !.buf = x, !.rem = r]
        BY <1>2, <2>9, <3>3 DEF Objects
      <3> QED BY <1>2, <3>2, <3>4, ObjectChanges
    <2>12. conn' = [conn EXCEPT ![c] = o]
      BY <1>2, <2>1, <2>4, <2>5, <2>7, <2>8, <2>9 DEF TypeInv
    <2>13. wire' = [wire EXCEPT ![s] = rest]
      BY <1>2, <2>1, <2>4, <2>6 DEF TypeInv
    <2>14. /\ wire' \in [Conns -> Text(RequestIds)]
           /\ \A t \in Conns : wire'[t] \in Text(OfSocket(t))
      <3>1. OfSocket(s) \subseteq RequestIds
        BY <1>2, Sources
      <3>2. rest \in Text(RequestIds)
        BY <2>6, <3>1, TextMonotonic
      <3> QED BY <1>2, <2>6, <2>13, <3>2 DEF TypeInv, DataInv
    <2>15. Len(x) <= BufferSize /\ o.rem <= Len(x) /\ n + o.rem <= Len(x)
      <3>1. PICK k \in Nat : k = Len(b)
        BY <2>7
      <3>2. PICK r \in Nat : r = conn[c].rem
        BY <1>2 DEF Objects
      <3>3. n <= BufferSize - k /\ r <= k
        BY <2>1, <2>7, <3>1, <3>2 DEF Left
      <3>4. k + n <= BufferSize /\ r <= k + n /\ n + r <= k + n
        BY <1>2, <3>3, BoundsAssumption
      <3> QED BY <2>8, <2>10, <3>1, <3>2, <3>4
    <2>16. Frame(c, n) \in Frames /\ Frame(c, n).c = c /\ Frame(c, n).pc = "bytes" /\ Frame(c, n).new = n
      BY <1>2 DEF Frame, Frames
    <2>17. PICK f : f = Frame(c, n)
      OBVIOUS
    <2> QED BY <1>2, <2>1, <2>2, <2>10, <2>11, <2>12, <2>14, <2>15, <2>16, <2>17, EventStep
  <1> QED BY <1>3, <1>4

LEMMA ReceiveFailsInv ==
    ASSUME Inv, NEW s \in Conns, ReceiveFails(s)
    PROVE  Inv'
  <1>1. PICK c : c = watch[s]
    OBVIOUS
  <1>2. c \in Conns /\ stack = << >> /\ TypeInv /\ DataInv /\ fault = "none" /\ conn[c] \in Objects
    BY <1>1 DEF ReceiveFails, EventLoop, Inv, TypeInv
  <1>3. CASE Deleted(c)
    <2>1. Fault("socket")
      BY <1>1, <1>3 DEF ReceiveFails
    <2> QED BY <1>2, <2>1, FaultStep
  <1>4. CASE ~Deleted(c)
    <2>1. /\ conn' = [conn EXCEPT ![c].active = FALSE]
          /\ stack' = <<[Frame(c, 0) EXCEPT !.pc = "leave"]>>
          /\ UNCHANGED <<sock, watch, table, delayed, fault, handled, sent, wire, application>>
      BY <1>1, <1>4 DEF ReceiveFails
    <2>2. Live(c)
      BY <1>1, <1>2, <1>4, NoneAssumption DEF Inv, WatchInv, Live, Deleted, Objects
    <2>3. PICK o : o = [conn[c] EXCEPT !.active = FALSE]
      OBVIOUS
    <2>4. o \in Objects /\ conn' = [conn EXCEPT ![c] = o]
      BY <1>2, <2>1, <2>3, ObjectChanges DEF TypeInv
    <2>5. /\ o.obj = conn[c].obj /\ o.in = conn[c].in /\ o.out = conn[c].out /\ o.buf = conn[c].buf
          /\ o.cookie = conn[c].cookie /\ o.threads = conn[c].threads /\ o.rem = conn[c].rem
      BY <1>2, <2>3 DEF Objects
    <2>6. PICK f \in Frames : f = [Frame(c, 0) EXCEPT !.pc = "leave"] /\ f.c = c /\ f.pc = "leave"
      <3>1. PICK g \in Frames : g = Frame(c, 0) /\ g.c = c
        BY <1>2, 0 \in Nat, FrameType DEF Frame
      <3>2. [g EXCEPT !.pc = "leave"] \in Frames /\ [g EXCEPT !.pc = "leave"].c = c
        BY <3>1 DEF Frames
      <3>3. [g EXCEPT !.pc = "leave"].pc = "leave"
        BY DEF Frames
      <3> QED BY <3>1, <3>2, <3>3
    <2>7. /\ conn[c].buf \in Text(Source(c)) /\ Len(conn[c].buf) <= BufferSize
          /\ conn[c].rem <= Len(conn[c].buf)
          /\ wire \in [Conns -> Text(RequestIds)] /\ \A t \in Conns : wire[t] \in Text(OfSocket(t))
      BY <1>2 DEF DataInv, TypeInv
    <2> QED BY <1>2, <2>1, <2>2, <2>4, <2>5, <2>6, <2>7, EventStep
  <1> QED BY <1>3, <1>4

LEMMA NewConnectionInv ==
    ASSUME Inv, stack = << >>, NEW c \in Conns, NewConnection(c),
           UNCHANGED <<table, delayed, stack, fault, handled, sent, wire, up>>,
           pending' \in 0 .. MaxPending
    PROVE  Inv'
  <1>0. TypeInv /\ DataInv /\ StackInv /\ ObjectInv /\ OwnerInv
    BY DEF Inv
  <1>1. PICK o : o = NewObject(c)
    OBVIOUS
  <1>2. /\ o \in Objects /\ o.obj = "live" /\ o.in = c /\ o.out = c /\ o.active /\ o.buf = << >>
        /\ o.rem = 0 /\ o.threads = 0
    <2>1. o \in Objects
      BY <1>1, NewObjectType
    <2> QED BY <1>1, <2>1 DEF NewObject
  <1>3. /\ conn[c].obj = "none" /\ sock[c] = "none" /\ watch[c] = None /\ handled[c] = << >>
        /\ conn[c].in = None /\ conn[c].out = None
    BY <1>0 DEF NewConnection, ObjectInv, Live
  <1>4. /\ conn' \in [Conns -> Objects] /\ sock' \in [Conns -> SockStates]
        /\ watch' \in [Conns -> Conns \cup {None}]
        /\ conn'[c] = o /\ sock'[c] = "open" /\ watch'[c] = c
        /\ \A d \in Conns : d # c => conn'[d] = conn[d] /\ sock'[d] = sock[d] /\ watch'[d] = watch[d]
    BY <1>0, <1>1, <1>2 DEF NewConnection, TypeInv, SockStates
  <1>5. /\ Posting' = {} /\ Posting = {} /\ Outer' = {} /\ ~Running /\ ~Running'
        /\ \A d \in Conns : (Live(d) => Owner(d)) /\ ~Ending(d)'
    BY BetweenEvents, StackEmpty DEF Posting, Outer, Running, Ending
  <1>6. Remembers
    BY RemembersSame
  <1>7. /\ Live(c)' /\ Holds(c)' /\ ~Live(c)
        /\ \A d \in Conns : d # c => (Live(d)' <=> Live(d)) /\ (Holds(d)' <=> Live(d))
        /\ \A d \in Conns : Deleted(d)' <=> Deleted(d)
    BY <1>2, <1>3, <1>4, <1>5 DEF Live, Holds, Deleted
  <1>8. TypeInv'
    BY <1>0, <1>4 DEF TypeInv
  <1>9. StackInv'
    BY <1>5, StackEmpty DEF StackInv
  <1>10. DataInv'
    <2>1. Known' = Known /\ \A d \in Conns : OfSocket(d)' = OfSocket(d)
      BY DEF OfSocket, Known
    <2>2. \A d \in Conns : d # c => Source(d)' = Source(d)
      BY <1>4, <1>5, <1>7, <2>1 DEF Source, Holds
    <2>3. \A S : << >> \in Text(S) /\ << >> \in Seq(S) /\ Len(<< >>) = 0
      BY TextEmpty, EmptySeq
    <2>4. /\ conn'[c].buf \in Text(Source(c)') /\ handled'[c] \in Seq(Source(c)')
          /\ Len(conn'[c].buf) <= BufferSize /\ conn'[c].rem <= Len(conn'[c].buf)
      BY <1>2, <1>3, <1>4, <2>3, BoundsAssumption
    <2>5. \A d \in Conns : d # c =>
              /\ conn'[d].buf \in Text(Source(d)') /\ handled'[d] \in Seq(Source(d)')
              /\ Len(conn'[d].buf) <= BufferSize /\ conn'[d].rem <= Len(conn'[d].buf)
      BY <1>0, <1>4, <2>2 DEF DataInv
    <2>6. \A d \in Conns : wire'[d] \in Text(OfSocket(d)')
      BY <1>0, <2>1 DEF DataInv
    <2> QED BY <2>4, <2>5, <2>6 DEF DataInv
  <1>11. \A d \in Conns : /\ conn[d].out \in {d, None}
                          /\ conn[d].in \in Conns \cup {None} /\ conn[d].in # c
    BY <1>0, <1>3, NoneAssumption DEF ObjectInv, TypeInv, Objects
  <1>12. OwnerInv'
    <2>1. Owner(c)'
      BY <1>2, <1>4, NoneAssumption DEF Owner
    <2>2. \A d \in Conns : d # c /\ Owner(d) => Owner(d)'
      BY <1>4, <1>11 DEF Owner
    <2>3. OwnSockets(c)' = {c}
      BY <1>2, <1>4, NoneAssumption DEF OwnSockets
    <2>4. \A d \in Conns : d # c => OwnSockets(d)' = OwnSockets(d) /\ c \notin OwnSockets(d)
      BY <1>4, <1>11, NoneAssumption DEF OwnSockets
    <2>5. \A d, e \in Conns : Live(d) /\ Live(e) /\ d # e => OwnSockets(d) \cap OwnSockets(e) = {}
      BY <1>0, BetweenEvents DEF OwnerInv
    <2>6. ASSUME NEW d \in Conns, NEW e \in Conns, Holds(d)', Holds(e)', d # e
          PROVE  OwnSockets(d)' \cap OwnSockets(e)' = {}
      <3>1. CASE d = c
        BY <2>3, <2>4, <2>6, <3>1
      <3>2. CASE e = c
        BY <2>3, <2>4, <2>6, <3>2
      <3>3. CASE d # c /\ e # c
        BY <1>7, <2>4, <2>5, <2>6, <3>3
      <3> QED BY <3>1, <3>2, <3>3
    <2>7. \A d \in Conns : Holds(d)' => Owner(d)'
      BY <1>5, <1>7, <2>1, <2>2
    <2> QED BY <2>6, <2>7 DEF OwnerInv
  <1>13. ObjectInv'
    <2>1. \A d \in Conns : conn'[d].obj = "none" => d # c /\ conn[d].obj = "none"
      BY <1>2, <1>4
    <2>2. \A d \in Conns : conn'[d].in # None => conn'[conn'[d].in].obj # "none"
      BY <1>0, <1>2, <1>4, <1>11 DEF ObjectInv
    <2> QED BY <1>0, <1>2, <1>4, <1>7, <2>1, <2>2 DEF ObjectInv
  <1>14. CallInv'
    BY <1>5 DEF CallInv
  <1>15. WatchInv'
    <2> SUFFICES ASSUME NEW s \in Conns, NEW d \in Conns, watch'[s] = d
                 PROVE  /\ conn'[d].obj # "none"
                        /\ conn'[d].in = s \/ ~Holds(d)'
                        /\ \/ Live(d)' /\ conn'[d].in = s
                           \/ PostedToItself(d)'
                           \/ Deleted(d)' /\ d # s /\ GaveUp(d)'
      BY <1>5 DEF WatchInv
    <2>1. CASE s = c
      BY <1>2, <1>4, <1>7, <2>1
    <2>2. CASE s # c
      <3>1. watch[s] = d
        BY <1>4, <2>2
      <3>2. /\ conn[d].obj # "none"
            /\ Live(d) => conn[d].in = s
            /\ \/ Live(d) /\ conn[d].in = s
               \/ PostedToItself(d)
               \/ Deleted(d) /\ d # s /\ GaveUp(d)
        BY <3>1, BetweenEvents DEF Inv, WatchInv
      <3>3. d # c
        BY <1>3, <3>2
      <3> QED BY <1>4, <1>6, <1>7, <3>2, <3>3, Remembered
    <2> QED BY <2>1, <2>2
  <1>16. TableInv'
    <2> SUFFICES ASSUME NEW k \in Cookies, NEW d \in Conns, table[k] = d
                 PROVE  /\ conn'[d].obj # "none"
                        /\ GotCookie(d, k)'
                        /\ Live(d)' => \E j \in Cookies : conn'[d].cookie = j /\ GotCookie(d, j)'
                        /\ Deleted(d)' => TwoCookies(d)'
      BY DEF TableInv
    <2>1. /\ conn[d].obj # "none" /\ GotCookie(d, k)
          /\ Live(d) => \E j \in Cookies : conn[d].cookie = j /\ GotCookie(d, j)
          /\ Deleted(d) => TwoCookies(d)
      BY DEF Inv, TableInv
    <2>2. d # c
      BY <1>3, <2>1
    <2> QED BY <1>4, <1>6, <1>7, <2>1, <2>2, Remembered
  <1>17. HandedInv'
    <2>1. ASSUME NEW d \in Conns, NEW s \in Conns, conn'[d].in = s, s # d
          PROVE  Got(d, "GET")' # {} /\ HasSent(s, "POST")' /\ Got(s, "POST")' # {}
      <3>1. d # c /\ conn[d].in = s
        BY <1>2, <1>4, <2>1
      <3>2. Got(d, "GET") # {} /\ HasSent(s, "POST") /\ Got(s, "POST") # {}
        BY <2>1, <3>1, NoneAssumption DEF Inv, HandedInv
      <3> QED BY <1>6, <3>2, Remembered DEF Remembers
    <2>2. \A d \in Conns : conn'[d].in \in Conns \cup {None}
      BY <1>4 DEF Objects
    <2> QED BY <1>5, <2>1, <2>2 DEF HandedInv
  <1>18. PendingInv'
    <2>1. \A d \in Conns : conn'[d].threads = conn[d].threads
      BY <1>0, <1>2, <1>3, <1>4 DEF ObjectInv
    <2> QED BY <1>6, <2>1, PendingStays
  <1>19. LeakInv'
    <2> SUFFICES ASSUME NEW s \in Conns
                 PROVE  \/ sock'[s] # "open"
                        \/ \E d \in Conns : Holds(d)' /\ s \in OwnSockets(d)'
                        \/ Excused(s)'
      BY DEF LeakInv
    <2>1. CASE s = c
      <3>1. c \in OwnSockets(c)'
        BY <1>2, <1>4, NoneAssumption DEF OwnSockets
      <3> QED BY <1>7, <2>1, <3>1
    <2>2. CASE s # c /\ \E d \in Conns : Live(d) /\ s \in OwnSockets(d)
      <3>1. PICK d \in Conns : Live(d) /\ s \in OwnSockets(d)
        BY <2>2
      <3>2. d # c
        BY <1>7, <3>1
      <3> QED BY <1>4, <1>7, <3>1, <3>2 DEF OwnSockets
    <2>3. CASE s # c /\ sock[s] # "open"
      BY <1>4, <2>3
    <2>4. CASE Excused(s)
      BY <1>6, <1>7, <2>4, ExcusedStays
    <2> QED BY <1>5, <2>1, <2>2, <2>3, <2>4, BetweenEvents DEF Inv, LeakInv
  <1>20. FaultInv'
    BY <1>6, <1>7, Remembered DEF Inv, FaultInv
  <1> QED BY <1>8, <1>9, <1>10, <1>12, <1>13, <1>14, <1>15, <1>16, <1>17, <1>18, <1>19, <1>20 DEF Inv

LEMMA AcceptInv ==
    ASSUME Inv, NEW c \in Conns, Accept(c)
    PROVE  Inv'
  <1>1. /\ stack = << >> /\ NewConnection(c)
        /\ UNCHANGED <<table, delayed, stack, fault, handled, sent, wire, pending, up>>
    BY DEF Accept, Serving, EventLoop, application
  <1> QED BY <1>1, NewConnectionInv DEF Inv, TypeInv

LEMMA HandleResponseInv ==
    ASSUME Inv, NEW c \in Conns, HandleResponse(c)
    PROVE  Inv'
  <1>1. /\ stack = << >> /\ (NewConnection(c) \/ UNCHANGED <<conn, sock, watch>>)
        /\ UNCHANGED <<table, delayed, stack, fault, handled, sent, wire, up>>
        /\ pending > 0 /\ pending' = pending - 1
    BY DEF HandleResponse, Serving, EventLoop
  <1>2. pending' \in 0 .. MaxPending /\ up \in BOOLEAN
    BY <1>1, BoundsAssumption DEF Inv, TypeInv
  <1>3. FaultInv'
    <2>1. CASE NewConnection(c)
      BY <1>1, <1>2, <2>1, NewConnectionInv DEF Inv
    <2>2. CASE UNCHANGED <<conn, sock, watch>>
      <3>1. \A d : Deleted(d)' = Deleted(d)
        BY <2>2 DEF Deleted
      <3>2. Remembers
        BY <1>1, RemembersSame
      <3> QED BY <1>1, <3>1, <3>2, Remembered DEF Inv, FaultInv
    <2> QED BY <1>1, <2>1, <2>2
  <1> QED BY <1>1, <1>2, <1>3, NewConnectionInv, IdleStep
-----------------------------------------------------------------------------
(* The end of a POST and of a call *)

LEMMA PostingIs ==
    ASSUME Inv
    PROVE  /\ Posting \subseteq Conns /\ Outer \subseteq Posting
           /\ stack # << >> => Posting = Outer \cup (IF Top.pc = "posted" THEN {Top.c} ELSE {})
  <1>1. CASE stack = << >>
    BY <1>1, StackEmpty DEF Posting, Outer
  <1>2. CASE stack # << >>
    BY <1>2, StackPosting DEF Inv, StackInv, Posting, Outer, Top
  <1> QED BY <1>1, <1>2

\* An object within its own POST is its own GET and POST.
LEMMA PostingToItself ==
    ASSUME Inv, NEW c \in Posting, NEW s \in Conns, watch[s] = c
    PROVE  PostedToItself(c)
  <1>1. c \in Conns
    <2>1. Posting \subseteq Conns
      BY PostingIs
    <2> QED BY <2>1
  <1> QED BY <1>1 DEF Inv, WatchInv, HandedInv, PostedToItself

LEMMA PostedInv ==
    ASSUME Inv, NEW c \in Conns, Posted(c)
    PROVE  Inv'
  <1>0. TypeInv /\ DataInv /\ StackInv /\ ObjectInv /\ OwnerInv /\ WatchInv /\ HandedInv
    BY DEF Inv
  <1>1. /\ stack # << >> /\ Nested(stack) /\ c = Top.c /\ Top.pc = "posted" /\ conn[c] \in Objects
        /\ Live(c)
    BY AtIs DEF Posted
  <1>2. PICK f \in Frames : stack' = [stack EXCEPT ![Len(stack)] = f] /\ f.c = c /\ f.pc = "leave"
    BY <1>1, GotoIs DEF Posted
  <1>3. PICK o : o = [conn[c] EXCEPT !.in = None, !.out = None, !.active = FALSE]
    OBVIOUS
  <1>4. /\ o \in Objects /\ o.obj = conn[c].obj /\ o.in = None /\ o.out = None /\ ~o.active
        /\ o.buf = conn[c].buf /\ o.rem = conn[c].rem /\ o.cookie = conn[c].cookie
        /\ o.threads = conn[c].threads
    <2>1. o \in Objects
      BY <1>1, <1>3, ObjectChanges
    <2> QED BY <1>1, <1>3, <2>1 DEF Objects
  <1>5. UNCHANGED <<sock, watch, table, delayed, fault, handled, sent, wire, pending, up>>
    BY DEF Posted, application
  <1>6. /\ conn'[c] = o /\ \A d \in Conns : d # c => conn'[d] = conn[d]
        /\ conn' \in [Conns -> Objects]
    BY <1>0, <1>3, <1>4 DEF TypeInv, Posted
  <1>7. /\ Nested(stack') /\ stack' # << >> /\ Top' = f /\ Outer' = Outer /\ Posting' = Outer
        /\ Posting = Outer \cup {c} /\ Posting \subseteq Conns
    <2>1. Nested(stack') /\ stack' # << >> /\ Last(stack') = f /\ OuterOf(stack') = OuterOf(stack)
      BY <1>1, <1>2, StackTop
    <2>2. PostingOf(stack') = OuterOf(stack')
      BY <1>2, <2>1, StackPosting
    <2>3. Posting = Outer \cup {c} /\ Posting \subseteq Conns
      BY <1>1, PostingIs
    <2> QED BY <2>1, <2>2, <2>3 DEF Top, Outer, Posting
  <1>8. Remembers
    BY <1>5, RemembersSame
  <1>9. /\ \A d \in Conns : (Live(d)' <=> Live(d)) /\ (Deleted(d)' <=> Deleted(d)) /\ ~Ending(d)
        /\ \A d \in Conns : d # c => (Holds(d)' <=> Holds(d)) /\ ~Ending(d)'
        /\ Ending(c)' /\ ~Holds(c)
    BY <1>1, <1>2, <1>4, <1>6, <1>7 DEF Live, Deleted, Holds, Ending
  <1>10. TypeInv'
    BY <1>0, <1>5, <1>6, <1>7 DEF TypeInv, Nested
  <1>11. StackInv'
    BY <1>0, <1>1, <1>2, <1>7, <1>9 DEF StackInv
  <1>12. DataInv'
    <2>1. Known' = Known /\ \A d \in Conns : OfSocket(d)' = OfSocket(d)
      BY <1>5 DEF OfSocket, Known
    <2>2. \A d \in Conns : d # c => Source(d)' = Source(d)
      BY <1>6, <1>9, <2>1 DEF Source
    <2>3. Source(c) = Known /\ Source(c)' = Known
      BY <1>4, <1>6, <1>9, <2>1, NoneAssumption DEF Source
    <2>4. \A d \in Conns : /\ conn'[d].buf \in Text(Source(d)') /\ handled'[d] \in Seq(Source(d)')
                          /\ Len(conn'[d].buf) <= BufferSize /\ conn'[d].rem <= Len(conn'[d].buf)
      BY <1>0, <1>4, <1>5, <1>6, <2>2, <2>3 DEF DataInv
    <2>5. \A d \in Conns : wire'[d] \in Text(OfSocket(d)')
      BY <1>0, <1>5, <2>1 DEF DataInv
    <2> QED BY <2>4, <2>5 DEF DataInv
  <1>13. OwnerInv'
    <2>1. \A d \in Conns : d # c /\ Owner(d) => Owner(d)'
      BY <1>5, <1>6 DEF Owner
    <2>2. \A d \in Conns : Holds(d)' => Owner(d)' \/ Ending(d)'
      BY <1>0, <1>9, <2>1 DEF OwnerInv
    <2>3. OwnSockets(c)' = {} /\ \A d \in Conns : d # c => OwnSockets(d)' = OwnSockets(d)
      BY <1>4, <1>6 DEF OwnSockets
    <2>4. \A d, e \in Conns : Holds(d)' /\ Holds(e)' /\ d # e => OwnSockets(d)' \cap OwnSockets(e)' = {}
      BY <1>0, <1>9, <2>3 DEF OwnerInv
    <2> QED BY <2>2, <2>4 DEF OwnerInv
  <1>14. ObjectInv'
    <2>1. \A d \in Conns : conn'[d].obj = conn[d].obj /\ conn'[d].threads = conn[d].threads
      BY <1>4, <1>6
    <2>2. \A d \in Conns : conn'[d].in = None \/ conn'[d].in = conn[d].in
      BY <1>4, <1>6
    <2>3. \A d \in Conns : conn[d].in \in Conns \cup {None}
      BY <1>0 DEF TypeInv, Objects
    <2>4. \A d \in Conns : conn'[d].in # None => conn'[conn'[d].in].obj # "none"
      BY <1>0, <2>1, <2>2, <2>3 DEF ObjectInv
    <2>5. \A d \in Conns : conn'[d].out = None \/ conn'[d].out = conn[d].out
      BY <1>4, <1>6
    <2> QED BY <1>0, <1>5, <1>9, <2>1, <2>2, <2>4, <2>5 DEF ObjectInv
  <1>15. CallInv'
    BY <1>2, <1>4, <1>6, <1>7 DEF CallInv
  <1>16. WatchInv'
    <2> SUFFICES ASSUME NEW s \in Conns, NEW d \in Conns, watch[s] = d
                 PROVE  /\ conn'[d].obj # "none"
                        /\ Holds(d)' /\ ~Ending(d)' => conn'[d].in = s
                        /\ \/ Live(d)' /\ conn'[d].in = s
                           \/ PostedToItself(d)'
                           \/ Deleted(d)' /\ d # s /\ GaveUp(d)'
                        /\ d \in Posting' => Got(d, "GET")' # {}
      BY <1>5 DEF WatchInv
    <2>1. /\ conn[d].obj # "none" /\ (Holds(d) /\ ~Ending(d) => conn[d].in = s)
          /\ \/ Live(d) /\ conn[d].in = s
             \/ PostedToItself(d)
             \/ Deleted(d) /\ d # s /\ GaveUp(d)
          /\ d \in Posting => Got(d, "GET") # {}
      BY <1>0 DEF WatchInv
    <2>2. d \in Posting' => d \in Posting
      BY <1>7
    <2>3. CASE d = c
      <3>1. PostedToItself(c)
        BY <1>7, <2>3, PostingToItself
      <3> QED BY <1>4, <1>6, <1>8, <1>9, <2>1, <2>2, <2>3, <3>1, Remembered
    <2>4. CASE d # c
      BY <1>6, <1>8, <1>9, <2>1, <2>2, <2>4, Remembered
    <2> QED BY <2>3, <2>4
  <1>17. TableInv' /\ PendingInv'
    <2>1. \A d \in Conns : /\ conn'[d].obj = conn[d].obj /\ conn'[d].cookie = conn[d].cookie
                           /\ conn'[d].threads = conn[d].threads
      BY <1>4, <1>6
    <2> QED BY <1>5, <1>8, <2>1, TableStays, PendingStays
  <1>18. HandedInv'
    <2>1. \A d \in Conns : conn'[d].in = None \/ conn'[d].in = conn[d].in
      BY <1>4, <1>6
    <2>2. \A d \in Conns : conn[d].in \in Conns \cup {None}
      BY <1>0 DEF TypeInv, Objects
    <2>3. \A d \in Conns : \A k : Got(d, k) # {} => Got(d, k)' # {}
      BY <1>8, Remembered
    <2>4. \A d \in Conns : HasSent(d, "POST") => HasSent(d, "POST")'
      BY <1>8 DEF Remembers
    <2> QED BY <1>0, <1>7, <2>1, <2>2, <2>3, <2>4 DEF HandedInv
  <1>19. LeakInv'
    <2> SUFFICES ASSUME NEW s \in Conns
                 PROVE  \/ sock'[s] # "open"
                        \/ \E d \in Conns : Holds(d)' /\ s \in OwnSockets(d)'
                        \/ Excused(s)'
      BY DEF LeakInv
    <2>1. CASE \E d \in Conns : Holds(d) /\ s \in OwnSockets(d)
      BY <1>6, <1>9, <2>1 DEF OwnSockets
    <2>2. CASE Excused(s)
      BY <1>8, <1>9, <2>2, ExcusedStays
    <2> QED BY <1>1, <1>5, <2>1, <2>2 DEF Inv, LeakInv, Running
  <1>20. FaultInv'
    BY <1>5, <1>8, <1>9, Remembered DEF Inv, FaultInv
  <1> QED BY <1>10, <1>11, <1>12, <1>13, <1>14, <1>15, <1>16, <1>17, <1>18, <1>19, <1>20 DEF Inv
-----------------------------------------------------------------------------
(* The end of an object *)

LEMMA DestroyedType ==
    ASSUME TypeInv, NEW c \in Conns
    PROVE  LET o == Destroyed(c)
           IN  /\ o \in Objects /\ o.obj = "deleted" /\ o.in = None /\ o.out = None
               /\ o.buf = conn[c].buf /\ o.rem = conn[c].rem /\ o.threads = conn[c].threads
               /\ o.cookie = conn[c].cookie
  <1>1. PICK o : o = Destroyed(c)
    OBVIOUS
  <1>2. conn[c] \in Objects
    BY DEF TypeInv
  <1>3. o \in Objects
    BY <1>1, <1>2, ObjectChanges DEF Destroyed
  <1>4. o.obj = "deleted" /\ o.in = None /\ o.out = None
    BY <1>1, <1>2 DEF Destroyed, Objects
  <1>5. o.buf = conn[c].buf /\ o.rem = conn[c].rem /\ o.threads = conn[c].threads /\ o.cookie = conn[c].cookie
    BY <1>1, <1>2 DEF Destroyed, Objects
  <1> QED BY <1>1, <1>3, <1>4, <1>5

LEMMA DeletionTable ==
    ASSUME Inv, NEW c \in Conns, Live(c),
           table' = IF conn[c].cookie = None THEN table ELSE Forgotten(c)
    PROVE  /\ table' \in [Cookies -> Conns \cup {None}]
           /\ \A k \in Cookies, d \in Conns : table'[k] = d => table[k] = d /\ (d = c => TwoCookies(c))
  <1>1. table \in [Cookies -> Conns \cup {None}] /\ conn[c].cookie \in Cookies \cup {None}
    BY DEF Inv, TypeInv, Objects
  <1>2. table' \in [Cookies -> Conns \cup {None}]
    BY <1>1 DEF Forgotten
  <1>3. ASSUME NEW k \in Cookies, NEW d \in Conns, table'[k] = d
        PROVE  table[k] = d /\ (d = c => TwoCookies(c))
    <2>1. table[k] = d
      BY <1>1, <1>3, NoneAssumption DEF Forgotten
    <2>2. ASSUME d = c PROVE TwoCookies(c)
      <3>1. GotCookie(c, k)
        BY <2>1, <2>2 DEF Inv, TableInv
      <3>2. PICK j \in Cookies : conn[c].cookie = j /\ GotCookie(c, j)
        BY <2>1, <2>2 DEF Inv, TableInv
      <3>3. j # k
        BY <1>1, <1>3, <2>2, <3>2, NoneAssumption DEF Forgotten
      <3> QED BY <3>1, <3>2, <3>3 DEF TwoCookies
    <2> QED BY <2>1, <2>2
  <1> QED BY <1>2, <1>3

\* c is deleted; those of its sockets in S are closed or given to another owner.
LEMMA DeletionStep ==
    ASSUME Inv, NEW c \in Conns, Holds(c), NEW S, S \subseteq OwnSockets(c),
           conn' = [conn EXCEPT ![c] = Destroyed(c)],
           table' = IF conn[c].cookie = None THEN table ELSE Forgotten(c),
           sock' \in [Conns -> SockStates], watch' \in [Conns -> Conns \cup {None}],
           \A s \in Conns : IF s \in S THEN sock'[s] # "open" /\ watch'[s] = None
                            ELSE sock'[s] = sock[s] /\ watch'[s] = watch[s],
           \A s \in OwnSockets(c) \ S : s # c /\ GaveUp(c),
           \A d \in Conns : Ending(d) => d = c,
           stack = << >> \/ (stack # << >> /\ Top.c = c /\ Top.pc = "leave"),
           Posting' = Posting, ~Running', StackInv', UNCHANGED <<handled, sent, wire, fault>>,
           delayed' \subseteq delayed, UNCHANGED <<pending, up>>
    PROVE  Inv'
  <1>0. /\ TypeInv /\ DataInv /\ StackInv /\ ObjectInv /\ OwnerInv /\ WatchInv /\ HandedInv
        /\ TableInv /\ LeakInv
    BY DEF Inv
  <1>1. PICK o : o = Destroyed(c)
    OBVIOUS
  <1>2. /\ o \in Objects /\ o.obj = "deleted" /\ o.in = None /\ o.out = None
        /\ o.buf = conn[c].buf /\ o.rem = conn[c].rem /\ o.threads = conn[c].threads
        /\ o.cookie = conn[c].cookie
    BY <1>0, <1>1, DestroyedType
  <1>3. /\ conn'[c] = o /\ \A d \in Conns : d # c => conn'[d] = conn[d]
        /\ conn' \in [Conns -> Objects]
    BY <1>0, <1>1, <1>2 DEF TypeInv
  <1>4. Remembers
    BY RemembersSame
  <1>5. /\ Live(c) /\ ~Live(c)' /\ Deleted(c)' /\ ~Holds(c)' /\ c \notin Posting
        /\ \A d \in Conns : ~Ending(d)'
        /\ \A d \in Conns : d # c =>
              /\ Live(d)' <=> Live(d)
              /\ Deleted(d)' <=> Deleted(d)
              /\ Holds(d)' <=> Holds(d)
              /\ OwnSockets(d)' = OwnSockets(d)
        /\ \A d \in Conns : Deleted(d) => Deleted(d)'
    BY <1>2, <1>3, NoneAssumption DEF Live, Deleted, Holds, Ending, Running, OwnSockets
  <1>6. TypeInv'
    BY <1>0, <1>3, DeletionTable DEF TypeInv, StackInv, Nested, Holds
  <1>7. DataInv'
    <2>1. Known' = Known /\ \A d \in Conns : OfSocket(d)' = OfSocket(d)
      BY DEF OfSocket, Known
    <2>2. \A d \in Conns : d # c => Source(d)' = Source(d)
      BY <1>3, <1>5, <2>1 DEF Source
    <2>3. Source(c)' = Known /\ Source(c) \subseteq Known
      BY <1>0, <1>5, <2>1, Sources DEF Source
    <2>4. conn[c].buf \in Text(Known) /\ handled[c] \in Seq(Known)
      BY <1>0, <2>3, TextMonotonic, SeqMonotonic DEF DataInv
    <2>5. \A d \in Conns : conn'[d].buf = conn[d].buf /\ conn'[d].rem = conn[d].rem
      BY <1>2, <1>3
    <2>6. \A d \in Conns : conn'[d].buf \in Text(Source(d)') /\ handled'[d] \in Seq(Source(d)')
      BY <1>0, <2>2, <2>3, <2>4, <2>5 DEF DataInv
    <2>7. \A d \in Conns : Len(conn'[d].buf) <= BufferSize /\ conn'[d].rem <= Len(conn'[d].buf)
      BY <1>0, <2>5 DEF DataInv
    <2>8. \A d \in Conns : wire'[d] \in Text(OfSocket(d)')
      BY <1>0, <2>1 DEF DataInv
    <2> QED BY <2>6, <2>7, <2>8 DEF DataInv
  <1>8. \A d \in Conns : d # c /\ Holds(d) => /\ Owner(d) /\ conn[d].in \in Conns
                                              /\ conn[d].in \notin S /\ d \notin S
    <2> SUFFICES ASSUME NEW d \in Conns, d # c, Holds(d)
                 PROVE  Owner(d) /\ conn[d].in \in Conns /\ conn[d].in \notin S /\ d \notin S
      OBVIOUS
    <2>1. Owner(d)
      BY <1>0 DEF OwnerInv
    <2>2. conn[d].in \in OwnSockets(d) /\ d \in OwnSockets(d) /\ conn[d].in \in Conns
      BY <1>0, <2>1, NoneAssumption DEF OwnSockets, Owner, TypeInv, Objects
    <2>3. OwnSockets(d) \cap OwnSockets(c) = {}
      BY <1>0 DEF OwnerInv
    <2> QED BY <2>1, <2>2, <2>3
  <1>9. OwnerInv'
    <2>1. \A d \in Conns : Holds(d)' => Owner(d)'
      BY <1>3, <1>5, <1>8 DEF Owner
    <2>2. \A d, e \in Conns : Holds(d)' /\ Holds(e)' /\ d # e => OwnSockets(d)' \cap OwnSockets(e)' = {}
      BY <1>0, <1>5 DEF OwnerInv
    <2> QED BY <2>1, <2>2 DEF OwnerInv
  <1>10. \A s \in S : sock[s] = "open"
    <2>1. CASE Owner(c)
      BY <2>1 DEF Owner, OwnSockets
    <2>2. CASE Ending(c)
      BY <2>2 DEF Ending, OwnSockets
    <2> QED BY <1>0, <2>1, <2>2 DEF OwnerInv
  <1>11. ObjectInv'
    <2>1. \A d \in Conns : d # c => /\ conn'[d].out \in {d, None}
                                    /\ ~Live(d)' => conn'[d].in = None /\ conn'[d].out = None
      BY <1>0, <1>3, <1>5 DEF ObjectInv
    <2>2. \A d \in Conns : conn'[d].obj = "none" => d # c /\ conn[d].obj = "none"
      BY <1>2, <1>3
    <2>3. \A d \in Conns : conn'[d].obj = "none" =>
              /\ sock'[d] = "none" /\ watch'[d] = None /\ handled'[d] = << >> /\ conn'[d].threads = 0
      BY <1>0, <1>3, <1>10, <2>2 DEF ObjectInv
    <2>4. \A d \in Conns : conn[d].in \in Conns \cup {None}
      BY <1>0 DEF TypeInv, Objects
    <2>5. \A d \in Conns : conn'[d].in # None => conn'[conn'[d].in].obj # "none"
      BY <1>0, <1>2, <1>3, <2>4 DEF ObjectInv
    <2> QED BY <1>2, <1>3, <2>1, <2>3, <2>5 DEF ObjectInv
  <1>12. CallInv'
    BY DEF CallInv
  <1>13. WatchInv'
    <2> SUFFICES ASSUME NEW s \in Conns, NEW d \in Conns, watch'[s] = d
                 PROVE  /\ conn'[d].obj # "none"
                        /\ Holds(d)' => conn'[d].in = s
                        /\ \/ Live(d)' /\ conn'[d].in = s
                           \/ PostedToItself(d)'
                           \/ Deleted(d)' /\ d # s /\ GaveUp(d)'
                        /\ d \in Posting' => Got(d, "GET")' # {}
      BY <1>5 DEF WatchInv
    <2>1. s \notin S /\ watch[s] = d
      BY NoneAssumption
    <2>2. /\ conn[d].obj # "none"
          /\ Holds(d) /\ ~Ending(d) => conn[d].in = s
          /\ \/ Live(d) /\ conn[d].in = s
             \/ PostedToItself(d)
             \/ Deleted(d) /\ d # s /\ GaveUp(d)
          /\ d \in Posting => Got(d, "GET") # {}
      BY <1>0, <2>1 DEF WatchInv
    <2>3. CASE d # c
      BY <1>3, <1>4, <1>5, <2>2, <2>3, Remembered
    <2>4. CASE d = c
      <3>1. conn[c].in = s => s # c /\ GaveUp(c)
        BY <2>1, NoneAssumption DEF OwnSockets
      <3>2. PostedToItself(c) \/ (c # s /\ GaveUp(c))
        BY <1>5, <2>2, <2>4, <3>1 DEF Live, Deleted
      <3> QED BY <1>2, <1>3, <1>4, <1>5, <2>4, <3>2, Remembered
    <2> QED BY <2>3, <2>4
  <1>14. TableInv'
    <2> SUFFICES ASSUME NEW k \in Cookies, NEW d \in Conns, table'[k] = d
                 PROVE  /\ conn'[d].obj # "none"
                        /\ GotCookie(d, k)'
                        /\ Live(d)' => \E j \in Cookies : conn'[d].cookie = j /\ GotCookie(d, j)'
                        /\ Deleted(d)' => TwoCookies(d)'
      BY DEF TableInv
    <2>1. table[k] = d /\ (d = c => TwoCookies(c))
      BY DeletionTable DEF Holds
    <2>2. /\ conn[d].obj # "none" /\ GotCookie(d, k)
          /\ Live(d) => \E j \in Cookies : conn[d].cookie = j /\ GotCookie(d, j)
          /\ Deleted(d) => TwoCookies(d)
      BY <1>0, <2>1 DEF TableInv
    <2>3. CASE d # c
      BY <1>3, <1>4, <1>5, <2>2, <2>3, Remembered
    <2>4. CASE d = c
      BY <1>2, <1>3, <1>4, <1>5, <2>1, <2>2, <2>4, Remembered
    <2> QED BY <2>3, <2>4
  <1>15. HandedInv'
    <2>1. \A d \in Conns : conn'[d].in = None \/ conn'[d].in = conn[d].in
      BY <1>2, <1>3
    <2>2. \A d \in Conns : conn[d].in \in Conns \cup {None}
      BY <1>0 DEF TypeInv, Objects
    <2>3. \A d \in Conns : \A k : Got(d, k) # {} => Got(d, k)' # {}
      BY <1>4, Remembered
    <2>4. \A d \in Conns : HasSent(d, "POST") => HasSent(d, "POST")'
      BY <1>4 DEF Remembers
    <2>5. Posting \subseteq Conns
      BY PostingIs
    <2> QED BY <1>0, <2>1, <2>2, <2>3, <2>4, <2>5 DEF HandedInv
  <1>16. PendingInv'
    <2>1. \A d \in Conns : conn'[d].threads = conn[d].threads
      BY <1>2, <1>3
    <2> QED BY <1>4, <2>1, PendingStays
  <1>17. LeakInv'
    <2> SUFFICES ASSUME NEW s \in Conns, sock'[s] = "open"
                 PROVE  \/ \E d \in Conns : Holds(d)' /\ s \in OwnSockets(d)'
                        \/ Excused(s)'
      BY DEF LeakInv
    <2>1. s \notin S /\ sock[s] = "open"
      OBVIOUS
    <2>2. CASE \E d \in Conns : Holds(d) /\ s \in OwnSockets(d) /\ d # c
      BY <1>5, <2>2
    <2>3. CASE s \in OwnSockets(c)
      <3>1. s # c /\ GaveUp(c)
        BY <2>1, <2>3
      <3>2. conn[c].in = s
        BY <1>0, <2>3, <3>1 DEF ObjectInv, OwnSockets
      <3>3. Got(s, "POST")' # {}
        BY <1>0, <1>4, <3>1, <3>2, NoneAssumption, Remembered DEF HandedInv
      <3>4. GaveUp(c)' /\ Deleted(c)'
        BY <1>4, <1>5, <3>1, Remembered
      <3> QED BY <3>3, <3>4 DEF Excused
    <2>4. CASE Excused(s)
      BY <1>4, <1>5, <2>4, ExcusedStays
    <2>5. CASE Running /\ conn[Top.c].in = s
      <3>1. s \in OwnSockets(c)
        BY <2>5, NoneAssumption DEF Running, OwnSockets
      <3> QED BY <2>3, <3>1
    <2> QED BY <1>0, <2>1, <2>2, <2>3, <2>4, <2>5 DEF LeakInv
  <1>18. FaultInv'
    BY <1>4, <1>5, Remembered DEF Inv, FaultInv
  <1> QED BY <1>6, <1>7, <1>9, <1>11, <1>12, <1>13, <1>14, <1>15, <1>16, <1>17, <1>18 DEF Inv

\* Whether another call of the object waits
LEMMA InnerIs ==
    ASSUME Inv, NEW c \in Conns, At(c, "leave")
    PROVE  /\ (\E i \in DOMAIN Front(stack) : Front(stack)[i].c = c) <=> c \in Outer
           /\ Posting = Outer
  <1>1. stack # << >> /\ Nested(stack) /\ Top.pc = "leave"
    BY AtIs
  <1>2. {Front(stack)[i].c : i \in DOMAIN Front(stack)} = Outer
    BY <1>1, StackPop DEF Outer
  <1>3. Posting = Outer
    BY <1>1, PostingIs
  <1> QED BY <1>2, <1>3

\* The call that returns leaves those that wait for their POST's extra bytes.
LEMMA LeaveStack ==
    ASSUME Inv, NEW c \in Conns, At(c, "leave"), stack' = Front(stack),
           \A d \in Outer : Live(d)'
    PROVE  StackInv' /\ ~Running' /\ Posting' = Posting
  <1>1. stack # << >> /\ Nested(stack) /\ Top.pc = "leave"
    BY AtIs
  <1>2. /\ Nested(stack') /\ PostingOf(stack') = OuterOf(stack) /\ OuterOf(stack') \subseteq OuterOf(stack)
        /\ {stack'[i].c : i \in DOMAIN stack'} = OuterOf(stack)
        /\ stack' # << >> => Last(stack').pc = "posted" /\ Last(stack').c \in OuterOf(stack)
    BY <1>1, StackPop
  <1>3. ~Running' /\ Posting' = Outer /\ Outer' \subseteq Outer
    BY <1>2 DEF Running, Top, Posting, Outer
  <1>4. Posting = Outer
    BY <1>1, PostingIs
  <1>5. StackInv'
    BY <1>2, <1>3 DEF StackInv, Top, Outer
  <1> QED BY <1>3, <1>4, <1>5

\* Nobody loses its socket when a call returns: an object that still is within its
\* own POST is excused.
LEMMA LeaveLeak ==
    ASSUME Inv, NEW c \in Conns, At(c, "leave"), NEW s \in Conns, conn[c].in = s
    PROVE  (\E d \in Conns : Holds(d) /\ s \in OwnSockets(d)) \/ Excused(s)
  <1>1. stack # << >> /\ c = Top.c /\ Top.pc = "leave" /\ Live(c)
    BY AtIs
  <1>2. CASE c \notin Posting
    BY <1>1, <1>2, NoneAssumption DEF Holds, OwnSockets
  <1>3. CASE c \in Posting
    <2>1. watch[s] = c
      BY <1>1, NoneAssumption DEF Inv, CallInv, Running
    <2>2. PostedToItself(c)
      BY <1>3, <2>1, PostingToItself
    <2>3. Got(s, "POST") # {}
      BY <1>3, NoneAssumption DEF Inv, HandedInv
    <2> QED BY <2>2, <2>3 DEF Excused
  <1> QED BY <1>2, <1>3

\* The call of an active object
LEMMA LeaveActive ==
    ASSUME Inv, NEW c \in Conns, Leave(c), conn[c].active
    PROVE  Inv'
  <1>0. /\ TypeInv /\ DataInv /\ StackInv /\ ObjectInv /\ OwnerInv /\ WatchInv /\ HandedInv
        /\ TableInv /\ LeakInv
    BY DEF Inv
  <1>1. /\ At(c, "leave") /\ stack' = Front(stack)
        /\ UNCHANGED <<conn, sock, watch, table, fault, delayed, handled, sent, wire, pending, up>>
    BY DEF Leave, application
  <1>2. Remembers
    BY <1>1, RemembersSame
  <1>3. /\ \A d : (Live(d)' <=> Live(d)) /\ (Deleted(d)' <=> Deleted(d))
        /\ \A d : OwnSockets(d)' = OwnSockets(d) /\ (Owner(d)' <=> Owner(d))
    BY <1>1 DEF Live, Deleted, OwnSockets, Owner
  <1>4. StackInv' /\ ~Running' /\ Posting' = Posting
    BY <1>0, <1>1, <1>3, LeaveStack DEF StackInv
  <1>5. /\ \A d \in Conns : (Holds(d)' <=> Holds(d)) /\ ~Ending(d)'
        /\ \A d \in Conns : ~Ending(d)
    <2>1. c = Top.c
      BY <1>1, AtIs
    <2> QED BY <1>3, <1>4, <2>1 DEF Holds, Ending, Running
  <1>6. TypeInv'
    BY <1>0, <1>1, <1>4 DEF TypeInv, StackInv, Nested
  <1>7. DataInv'
    <2>1. \A d \in Conns : OfSocket(d)' = OfSocket(d) /\ Source(d)' = Source(d)
      BY <1>1, <1>5 DEF OfSocket, Source, Known
    <2> QED BY <1>0, <1>1, <2>1 DEF DataInv
  <1>8. OwnerInv'
    BY <1>0, <1>3, <1>5 DEF OwnerInv
  <1>9. ObjectInv'
    BY <1>0, <1>1, <1>3 DEF ObjectInv
  <1>10. CallInv'
    BY <1>4 DEF CallInv
  <1>11. WatchInv'
    <2>1. \A d \in Conns : \A k : Got(d, k) # {} => Got(d, k)' # {}
      BY <1>2, Remembered
    <2>2. \A d \in Conns : (PostedToItself(d) => PostedToItself(d)') /\ (GaveUp(d) => GaveUp(d)')
      BY <1>2, Remembered
    <2> QED BY <1>0, <1>1, <1>3, <1>4, <1>5, <2>1, <2>2 DEF WatchInv
  <1>12. TableInv' /\ PendingInv'
    BY <1>1, <1>2, TableStays, PendingStays
  <1>13. HandedInv'
    <2>2. \A d \in Conns : conn[d].in \in Conns \cup {None}
      BY <1>0 DEF TypeInv, Objects
    <2>3. \A d \in Conns : \A k : Got(d, k) # {} => Got(d, k)' # {}
      BY <1>2, Remembered
    <2>4. \A d \in Conns : HasSent(d, "POST") => HasSent(d, "POST")'
      BY <1>2 DEF Remembers
    <2>5. Posting \subseteq Conns
      BY PostingIs
    <2> QED BY <1>0, <1>1, <1>4, <2>2, <2>3, <2>4, <2>5 DEF HandedInv
  <1>14. LeakInv'
    <2> SUFFICES ASSUME NEW s \in Conns, sock'[s] = "open"
                 PROVE  (\E d \in Conns : Holds(d)' /\ s \in OwnSockets(d)') \/ Excused(s)'
      BY DEF LeakInv
    <2>1. Running /\ conn[Top.c].in = s =>
              (\E d \in Conns : Holds(d) /\ s \in OwnSockets(d)) \/ Excused(s)
      BY <1>1, AtIs, LeaveLeak
    <2>2. (\E d \in Conns : Holds(d) /\ s \in OwnSockets(d)) \/ Excused(s)
      BY <1>0, <1>1, <2>1 DEF LeakInv
    <2>3. Excused(s) => Excused(s)'
      BY <1>2, <1>3, ExcusedStays
    <2> QED BY <1>3, <1>5, <2>2, <2>3
  <1>15. FaultInv'
    BY <1>1, <1>2, <1>3, Remembered DEF Inv, FaultInv
  <1> QED BY <1>4, <1>6, <1>7, <1>8, <1>9, <1>10, <1>11, <1>12, <1>13, <1>14, <1>15 DEF Inv

\* An inner call of an object that goes away closes its input.
LEMMA LeaveInner ==
    ASSUME Inv, NEW c \in Conns, Leave(c), ~conn[c].active, c \in Outer
    PROVE  Inv'
  <1>0. /\ TypeInv /\ DataInv /\ StackInv /\ ObjectInv /\ OwnerInv /\ WatchInv /\ HandedInv
        /\ TableInv /\ LeakInv /\ CallInv
    BY DEF Inv
  <1>1. /\ At(c, "leave") /\ stack' = Front(stack) /\ stack # << >> /\ c = Top.c /\ Top.pc = "leave"
        /\ conn[c] \in Objects /\ Live(c) /\ c \in Posting /\ Posting = Outer
    BY AtIs, InnerIs DEF Leave
  <1>2. PICK S : S = {conn[c].in} \ {None}
    OBVIOUS
  <1>3. Closing(S) /\ conn' = [conn EXCEPT ![c].in = None] /\ table' = table
    BY <1>1, <1>2, InnerIs DEF Leave
  <1>4. UNCHANGED <<delayed, handled, sent, wire, pending, up>>
    BY DEF Leave, application
  <1>5. PICK o : o = [conn[c] EXCEPT !.in = None]
    OBVIOUS
  <1>6. /\ o \in Objects /\ o.in = None /\ o.obj = conn[c].obj /\ o.out = conn[c].out
        /\ o.buf = conn[c].buf /\ o.rem = conn[c].rem /\ o.cookie = conn[c].cookie
        /\ o.threads = conn[c].threads
    <2>1. o \in Objects
      BY <1>1, <1>5, ObjectChanges
    <2> QED BY <1>1, <1>5, <2>1 DEF Objects
  <1>7. /\ conn'[c] = o /\ \A d \in Conns : d # c => conn'[d] = conn[d]
        /\ conn' \in [Conns -> Objects]
    BY <1>0, <1>3, <1>5, <1>6 DEF TypeInv
  <1>8. \A s \in S : sock[s] = "open" /\ watch[s] = c /\ s \in Conns
    BY <1>0, <1>1, <1>2 DEF CallInv, Running, Objects
  <1>9. /\ fault' = fault
        /\ \A s \in Conns : IF s \in S THEN sock'[s] = "closed" /\ watch'[s] = None
                            ELSE sock'[s] = sock[s] /\ watch'[s] = watch[s]
        /\ sock' \in [Conns -> SockStates] /\ watch' \in [Conns -> Conns \cup {None}]
    BY <1>0, <1>3, <1>8 DEF Closing, TypeInv, SockStates
  <1>10. Remembers
    BY <1>4, RemembersSame
  <1>11. \A d \in Conns : (Live(d)' <=> Live(d)) /\ (Deleted(d)' <=> Deleted(d))
    BY <1>6, <1>7 DEF Live, Deleted
  <1>12. StackInv' /\ ~Running' /\ Posting' = Posting
    <2>1. \A d \in Outer : Live(d)'
      BY <1>0, <1>1, <1>11, PostingIs DEF StackInv
    <2> QED BY <1>1, <2>1, LeaveStack
  <1>13. /\ \A d \in Conns : (Holds(d)' <=> Holds(d)) /\ ~Ending(d)'
         /\ \A d \in Conns : Holds(d) => d # c /\ ~Ending(d)
    BY <1>1, <1>11, <1>12 DEF Holds, Ending, Running
  <1>14. TypeInv'
    BY <1>0, <1>3, <1>4, <1>7, <1>9, <1>12 DEF TypeInv, StackInv, Nested
  <1>15. DataInv'
    <2>1. Known' = Known /\ \A d \in Conns : OfSocket(d)' = OfSocket(d)
      BY <1>4 DEF OfSocket, Known
    <2>2. \A d \in Conns : Source(d)' = Source(d)
      BY <1>7, <1>13, <2>1 DEF Source
    <2>3. \A d \in Conns : conn'[d].buf = conn[d].buf /\ conn'[d].rem = conn[d].rem
      BY <1>6, <1>7
    <2> QED BY <1>0, <1>4, <2>1, <2>2, <2>3 DEF DataInv
  <1>16. OwnerInv'
    <2>1. ASSUME NEW d \in Conns, Holds(d) PROVE Owner(d)'
      <3>1. Owner(d) /\ d # c
        BY <1>0, <1>13, <2>1 DEF OwnerInv
      <3>2. conn[d].in \in OwnSockets(d) /\ d \in OwnSockets(d) /\ conn[d].in \in Conns
        BY <1>0, <3>1, NoneAssumption DEF OwnSockets, Owner, TypeInv, Objects
      <3>3. \A s \in S : s \notin OwnSockets(d)
        BY <1>0, <1>1, <1>2, <2>1, <3>1 DEF CallInv, Running
      <3> QED BY <1>7, <1>9, <3>1, <3>2, <3>3 DEF Owner
    <2>2. \A d \in Conns : d # c => OwnSockets(d)' = OwnSockets(d)
      BY <1>7 DEF OwnSockets
    <2>3. \A d, e \in Conns : Holds(d)' /\ Holds(e)' /\ d # e => OwnSockets(d)' \cap OwnSockets(e)' = {}
      BY <1>0, <1>13, <2>2 DEF OwnerInv
    <2> QED BY <1>13, <2>1, <2>3 DEF OwnerInv
  <1>17. ObjectInv'
    <2>1. \A d \in Conns : /\ conn'[d].obj = conn[d].obj /\ conn'[d].threads = conn[d].threads
                           /\ conn'[d].out = conn[d].out
                           /\ conn'[d].in = None \/ conn'[d].in = conn[d].in
      BY <1>6, <1>7
    <2>2. \A d \in Conns : conn[d].in \in Conns \cup {None}
      BY <1>0 DEF TypeInv, Objects
    <2>3. \A d \in Conns : conn'[d].in # None => conn'[conn'[d].in].obj # "none"
      BY <1>0, <2>1, <2>2 DEF ObjectInv
    <2>4. \A d \in Conns : conn'[d].obj = "none" =>
              /\ sock'[d] = "none" /\ watch'[d] = None /\ handled'[d] = << >> /\ conn'[d].threads = 0
      BY <1>0, <1>4, <1>8, <1>9, <2>1 DEF ObjectInv
    <2>5. \A d \in Conns : /\ conn'[d].out \in {d, None}
                           /\ ~Live(d)' => conn'[d].in = None /\ conn'[d].out = None
      BY <1>0, <1>11, <2>1 DEF ObjectInv
    <2> QED BY <2>3, <2>4, <2>5 DEF ObjectInv
  <1>18. CallInv'
    BY <1>12 DEF CallInv
  <1>19. WatchInv'
    <2> SUFFICES ASSUME NEW s \in Conns, NEW d \in Conns, watch'[s] = d
                 PROVE  /\ conn'[d].obj # "none"
                        /\ Holds(d)' => conn'[d].in = s
                        /\ \/ Live(d)' /\ conn'[d].in = s
                           \/ PostedToItself(d)'
                           \/ Deleted(d)' /\ d # s /\ GaveUp(d)'
                        /\ d \in Posting' => Got(d, "GET")' # {}
      BY <1>13 DEF WatchInv
    <2>1. s \notin S /\ watch[s] = d
      BY <1>9, NoneAssumption
    <2>2. /\ conn[d].obj # "none"
          /\ Holds(d) /\ ~Ending(d) => conn[d].in = s
          /\ \/ Live(d) /\ conn[d].in = s
             \/ PostedToItself(d)
             \/ Deleted(d) /\ d # s /\ GaveUp(d)
          /\ d \in Posting => Got(d, "GET") # {}
      BY <1>0, <2>1 DEF WatchInv
    <2>3. CASE d # c
      BY <1>7, <1>10, <1>11, <1>12, <1>13, <2>2, <2>3, Remembered
    <2>4. CASE d = c
      <3>1. PostedToItself(c)
        BY <1>1, <2>1, <2>4, PostingToItself
      <3>2. ~Holds(c)
        BY <1>13
      <3> QED BY <1>6, <1>7, <1>10, <1>12, <1>13, <2>2, <2>4, <3>1, <3>2, Remembered
    <2> QED BY <2>3, <2>4
  <1>20. TableInv' /\ PendingInv'
    <2>1. \A d \in Conns : /\ conn'[d].obj = conn[d].obj /\ conn'[d].cookie = conn[d].cookie
                           /\ conn'[d].threads = conn[d].threads
      BY <1>6, <1>7
    <2> QED BY <1>3, <1>4, <1>10, <2>1, TableStays, PendingStays
  <1>21. HandedInv'
    <2>1. \A d \in Conns : conn'[d].in = None \/ conn'[d].in = conn[d].in
      BY <1>6, <1>7
    <2>2. \A d \in Conns : conn[d].in \in Conns \cup {None}
      BY <1>0 DEF TypeInv, Objects
    <2>3. \A d \in Conns : \A k : Got(d, k) # {} => Got(d, k)' # {}
      BY <1>10, Remembered
    <2>4. \A d \in Conns : HasSent(d, "POST") => HasSent(d, "POST")'
      BY <1>10 DEF Remembers
    <2>5. Posting \subseteq Conns
      BY PostingIs
    <2> QED BY <1>0, <1>12, <2>1, <2>2, <2>3, <2>4, <2>5 DEF HandedInv
  <1>22. LeakInv'
    <2> SUFFICES ASSUME NEW s \in Conns, sock'[s] = "open"
                 PROVE  (\E d \in Conns : Holds(d)' /\ s \in OwnSockets(d)') \/ Excused(s)'
      BY DEF LeakInv
    <2>1. s \notin S /\ sock[s] = "open"
      BY <1>9
    <2>2. ~(Running /\ conn[Top.c].in = s)
      BY <1>1, <1>2, <2>1, NoneAssumption
    <2>3. (\E d \in Conns : Holds(d) /\ s \in OwnSockets(d)) \/ Excused(s)
      BY <1>0, <2>1, <2>2 DEF LeakInv
    <2>4. Excused(s) => Excused(s)'
      BY <1>10, <1>11, ExcusedStays
    <2>5. \A d \in Conns : Holds(d) => OwnSockets(d)' = OwnSockets(d)
      BY <1>7, <1>13 DEF OwnSockets
    <2> QED BY <1>13, <2>3, <2>4, <2>5
  <1>23. FaultInv'
    BY <1>9, <1>10, <1>11, Remembered DEF Inv, FaultInv
  <1> QED BY <1>12, <1>14, <1>15, <1>16, <1>17, <1>18, <1>19, <1>20, <1>21, <1>22, <1>23 DEF Inv

\* The outermost call of an object that goes away deletes it.
LEMMA LeaveOuter ==
    ASSUME Inv, NEW c \in Conns, Leave(c), ~conn[c].active, c \notin Outer
    PROVE  Inv'
  <1>0. TypeInv /\ StackInv /\ OwnerInv
    BY DEF Inv
  <1>1. /\ At(c, "leave") /\ stack' = Front(stack) /\ stack # << >> /\ c = Top.c /\ Top.pc = "leave"
        /\ conn[c] \in Objects /\ Live(c) /\ c \notin Posting /\ Posting = Outer
    BY AtIs, InnerIs DEF Leave
  <1>2. /\ Closing(OwnSockets(c)) /\ conn' = [conn EXCEPT ![c] = Destroyed(c)]
        /\ table' = IF conn[c].cookie = None THEN table ELSE Forgotten(c)
    BY <1>1, InnerIs DEF Leave
  <1>3. UNCHANGED <<delayed, handled, sent, wire, pending, up>>
    BY DEF Leave, application
  <1>4. Holds(c)
    BY <1>1 DEF Holds
  <1>5. \A s \in OwnSockets(c) : sock[s] = "open" /\ s \in Conns
    <2>1. conn[c].in \in Conns \cup {None} /\ conn[c].out \in Conns \cup {None}
      BY <1>1 DEF Objects
    <2>2. CASE Owner(c)
      BY <2>1, <2>2 DEF Owner, OwnSockets
    <2>3. CASE Ending(c)
      BY <2>3 DEF Ending, OwnSockets
    <2> QED BY <1>0, <1>4, <2>2, <2>3 DEF OwnerInv
  <1>6. /\ fault' = fault
        /\ \A s \in Conns : IF s \in OwnSockets(c) THEN sock'[s] # "open" /\ watch'[s] = None
                            ELSE sock'[s] = sock[s] /\ watch'[s] = watch[s]
        /\ sock' \in [Conns -> SockStates] /\ watch' \in [Conns -> Conns \cup {None}]
    BY <1>0, <1>2, <1>5 DEF Closing, TypeInv, SockStates
  <1>7. StackInv' /\ ~Running' /\ Posting' = Posting
    <2>1. \A d \in Outer : d \in Conns /\ d # c /\ Live(d)
      BY <1>0, <1>1, PostingIs DEF StackInv
    <2>2. \A d \in Outer : Live(d)'
      BY <1>0, <1>2, <2>1 DEF Live, TypeInv
    <2> QED BY <1>1, <2>2, LeaveStack
  <1>8. \A d \in Conns : Ending(d) => d = c
    BY <1>1 DEF Ending
  <1>9. PICK S : S = OwnSockets(c)
    OBVIOUS
  <1>10. S \subseteq OwnSockets(c) /\ OwnSockets(c) \ S = {}
    BY <1>9
  <1> QED BY <1>1, <1>2, <1>3, <1>4, <1>6, <1>7, <1>8, <1>9, <1>10, DeletionStep

LEMMA LeaveInv ==
    ASSUME Inv, NEW c \in Conns, Leave(c)
    PROVE  Inv'
  BY LeaveActive, LeaveInner, LeaveOuter

\* The delayed task of a REGISTER
LEMMA ContinueRegisterInv ==
    ASSUME Inv, NEW p \in delayed, ContinueRegister(p)
    PROVE  Inv'
  <1>0. TypeInv /\ OwnerInv /\ ObjectInv /\ stack = << >>
    BY DEF Inv, ContinueRegister, EventLoop
  <1>1. PICK c \in Conns : c = p.c
    BY <1>0 DEF TypeInv
  <1>2. CASE Deleted(c)
    <2>1. Fault("register")
      BY <1>1, <1>2 DEF ContinueRegister
    <2> QED BY <1>0, <2>1, FaultStep
  <1>3. CASE ~Deleted(c)
    <2>0. GaveUp(c)
      BY <1>1 DEF Inv, PendingInv
    <2>1. Live(c)
      <3>1. handled[c] # << >>
        <4>1. ToSet(<< >>) = {}
          BY EmptySeq DEF ToSet
        <4> QED BY <2>0, <4>1 DEF GaveUp, Got
      <3> QED BY <1>0, <1>3, <3>1, NoneAssumption DEF Live, Deleted, ObjectInv, TypeInv, Objects
    <2>2. Holds(c) /\ Owner(c) /\ Posting = {} /\ \A d \in Conns : ~Ending(d)
      BY <1>0, <2>1, BetweenEvents
    <2>3. /\ delayed' = delayed \ {p}
          /\ UNCHANGED <<stack, fault, handled, sent, wire, pending, up>>
      BY <1>1, <1>3 DEF ContinueRegister, application
    <2>4. CASE UNCHANGED <<conn, table, sock, watch>>
      <3>1. FaultInv'
        <4>1. \A d : Deleted(d)' = Deleted(d)
          BY <2>4 DEF Deleted
        <4>2. Remembers
          BY <2>3, RemembersSame
        <4> QED BY <2>3, <4>1, <4>2, Remembered DEF Inv, FaultInv
      <3> QED BY <1>0, <2>3, <2>4, <3>1, IdleStep DEF TypeInv
    <2>5. CASE p.reuse /\ conn[c].out # None
      <3>1. /\ conn' = [conn EXCEPT ![c] = Destroyed(c)]
            /\ table' = IF conn[c].cookie = None THEN table ELSE Forgotten(c)
            /\ sock' = [sock EXCEPT ![c] = "given"] /\ watch' = [watch EXCEPT ![c] = None]
        BY <1>1, <1>3, <2>2, <2>5 DEF ContinueRegister, Owner
      <3>2. PICK S : S = {c}
        OBVIOUS
      <3>3. S \subseteq OwnSockets(c) /\ \A s \in OwnSockets(c) \ S : s # c /\ GaveUp(c)
        BY <2>0, <2>2, <3>2, NoneAssumption DEF OwnSockets, Owner
      <3>4. /\ sock' \in [Conns -> SockStates] /\ watch' \in [Conns -> Conns \cup {None}]
            /\ \A s \in Conns : IF s \in S THEN sock'[s] # "open" /\ watch'[s] = None
                                ELSE sock'[s] = sock[s] /\ watch'[s] = watch[s]
        BY <1>0, <3>1, <3>2 DEF TypeInv, SockStates
      <3>5. StackInv' /\ ~Running' /\ Posting' = Posting
        BY <1>0, <2>2, <2>3, StackEmpty DEF StackInv, Outer, Posting, Running
      <3> QED BY <1>0, <2>2, <2>3, <3>1, <3>3, <3>4, <3>5, DeletionStep
    <2> QED BY <1>1, <1>3, <2>4, <2>5 DEF ContinueRegister
  <1> QED BY <1>2, <1>3

\* The end of the server
LEMMA DeleteServerInv ==
    ASSUME Inv, DeleteServer
    PROVE  Inv'
  <1>0. /\ TypeInv /\ DataInv /\ OwnerInv /\ ObjectInv /\ WatchInv /\ HandedInv /\ LeakInv
        /\ stack = << >>
    BY DEF Inv, DeleteServer, Serving, EventLoop
  <1>1. CASE \E c \in Conns : Live(c) /\ conn[c].cookie # None
    <2>1. Fault("table")
      BY <1>1 DEF DeleteServer
    <2> QED BY <1>0, <2>1, FaultStep
  <1>2. CASE ~\E c \in Conns : Live(c) /\ conn[c].cookie # None
    <2>1. PICK S : S = UNION {OwnSockets(c) : c \in {d \in Conns : Live(d)}}
      OBVIOUS
    <2>2. /\ Closing(S) /\ conn' = [c \in Conns |-> IF Live(c) THEN Destroyed(c) ELSE conn[c]]
          /\ table' = [k \in Cookies |-> None] /\ pending' = 0 /\ up' = FALSE
          /\ UNCHANGED <<delayed, stack, handled, sent, wire>>
      BY <1>2, <2>1 DEF DeleteServer
    <2>3. \A d \in Conns : (Holds(d) <=> Live(d)) /\ ~Ending(d) /\ (Live(d) => Owner(d))
      BY <1>0, BetweenEvents
    <2>4. Posting = {} /\ Posting' = {} /\ Outer' = {} /\ ~Running /\ ~Running' /\ \A d \in Conns : ~Ending(d)'
      BY <1>0, <2>2, BetweenEvents, StackEmpty DEF Posting, Outer, Running, Ending
    <2>5. /\ \A s \in S : sock[s] = "open" /\ s \in Conns
          /\ \A d \in Conns : \A s \in OwnSockets(d) : Live(d) => s \in S
      <3>1. \A d \in Conns : conn[d].in \in Conns \cup {None} /\ conn[d].out \in Conns \cup {None}
        BY <1>0 DEF TypeInv, Objects
      <3>2. \A d \in Conns : \A s \in OwnSockets(d) : Live(d) => sock[s] = "open" /\ s \in Conns
        BY <2>3, <3>1 DEF Owner, OwnSockets
      <3> QED BY <2>1, <3>2
    <2>6. /\ fault' = fault
          /\ \A s \in Conns : IF s \in S THEN sock'[s] = "closed" /\ watch'[s] = None
                              ELSE sock'[s] = sock[s] /\ watch'[s] = watch[s]
          /\ sock' \in [Conns -> SockStates] /\ watch' \in [Conns -> Conns \cup {None}]
      BY <1>0, <2>2, <2>5 DEF Closing, TypeInv, SockStates
    <2>7. \A d \in Conns :
              /\ conn'[d].buf = conn[d].buf /\ conn'[d].rem = conn[d].rem
              /\ conn'[d].threads = conn[d].threads
              /\ ~Live(d)' /\ ~Holds(d)' /\ (Deleted(d)' <=> Live(d) \/ Deleted(d))
              /\ conn'[d].in = None /\ conn'[d].out = None
              /\ ~Live(d) => conn'[d] = conn[d]
              /\ conn'[d].obj = "none" => ~Live(d) /\ conn[d].obj = "none"
              /\ conn'[d] \in Objects
      <3> SUFFICES ASSUME NEW d \in Conns
                   PROVE  /\ conn'[d].buf = conn[d].buf /\ conn'[d].rem = conn[d].rem
                          /\ conn'[d].threads = conn[d].threads
                          /\ ~Live(d)' /\ ~Holds(d)' /\ (Deleted(d)' <=> Live(d) \/ Deleted(d))
                          /\ conn'[d].in = None /\ conn'[d].out = None
                          /\ ~Live(d) => conn'[d] = conn[d]
                          /\ conn'[d].obj = "none" => ~Live(d) /\ conn[d].obj = "none"
                          /\ conn'[d] \in Objects
        OBVIOUS
      <3>1. PICK o : o = Destroyed(d)
        OBVIOUS
      <3>2. /\ o \in Objects /\ o.obj = "deleted" /\ o.in = None /\ o.out = None
            /\ o.buf = conn[d].buf /\ o.rem = conn[d].rem /\ o.threads = conn[d].threads
        BY <1>0, <3>1, DestroyedType
      <3>3. conn'[d] = IF Live(d) THEN o ELSE conn[d]
        BY <2>2, <3>1
      <3>4. CASE Live(d)
        BY <3>2, <3>3, <3>4, NoneAssumption DEF Live, Holds, Deleted
      <3>5. CASE ~Live(d)
        BY <1>0, <3>3, <3>5 DEF Live, Holds, Deleted, ObjectInv, TypeInv
      <3> QED BY <3>4, <3>5
    <2>8. Remembers
      BY <2>2, RemembersSame
    <2>9. TypeInv'
      <3>1. conn' \in [Conns -> Objects]
        BY <2>2, <2>7
      <3>2. pending' \in 0 .. MaxPending
        BY <2>2, BoundsAssumption
      <3> QED BY <1>0, <2>2, <2>6, <3>1, <3>2 DEF TypeInv
    <2>10. StackInv'
      BY <1>0, <2>2, <2>4, StackEmpty DEF StackInv
    <2>11. DataInv'
      <3>1. Known' = Known /\ \A d \in Conns : OfSocket(d)' = OfSocket(d)
        BY <2>2 DEF OfSocket, Known
      <3>2. \A d \in Conns : Source(d)' = Known /\ Source(d) \subseteq Known
        BY <1>0, <2>7, <3>1, Sources DEF Source
      <3>3. \A d \in Conns : conn[d].buf \in Text(Known) /\ handled[d] \in Seq(Known)
        BY <1>0, <3>2, TextMonotonic, SeqMonotonic DEF DataInv
      <3>4. \A d \in Conns : conn'[d].buf \in Text(Source(d)') /\ handled'[d] \in Seq(Source(d)')
        BY <2>2, <2>7, <3>2, <3>3
      <3>5. \A d \in Conns : Len(conn'[d].buf) <= BufferSize /\ conn'[d].rem <= Len(conn'[d].buf)
        BY <1>0, <2>7 DEF DataInv
      <3>6. \A d \in Conns : wire'[d] \in Text(OfSocket(d)')
        BY <1>0, <2>2, <3>1 DEF DataInv
      <3> QED BY <3>4, <3>5, <3>6 DEF DataInv
    <2>12. OwnerInv' /\ CallInv' /\ TableInv' /\ HandedInv'
      BY <2>2, <2>4, <2>7, NoneAssumption DEF OwnerInv, CallInv, TableInv, HandedInv
    <2>13. ObjectInv'
      BY <1>0, <2>2, <2>5, <2>6, <2>7 DEF ObjectInv
    <2>14. WatchInv'
      <3> SUFFICES ASSUME NEW s \in Conns, NEW d \in Conns, watch'[s] = d
                   PROVE  /\ conn'[d].obj # "none"
                          /\ PostedToItself(d)' \/ (Deleted(d)' /\ d # s /\ GaveUp(d)')
        BY <2>4, <2>7 DEF WatchInv
      <3>1. s \notin S /\ watch[s] = d
        BY <2>6, NoneAssumption
      <3>2. /\ conn[d].obj # "none"
            /\ Live(d) => conn[d].in = s
            /\ \/ Live(d) /\ conn[d].in = s
               \/ PostedToItself(d)
               \/ Deleted(d) /\ d # s /\ GaveUp(d)
        BY <1>0, <2>3, <3>1 DEF WatchInv
      <3>3. ~Live(d)
        BY <2>5, <3>1, <3>2, NoneAssumption DEF OwnSockets
      <3> QED BY <2>7, <2>8, <3>2, <3>3, Remembered
    <2>15. PendingInv'
      BY <2>2, <2>7, <2>8, PendingStays
    <2>16. LeakInv'
      <3> SUFFICES ASSUME NEW s \in Conns, sock'[s] = "open" PROVE Excused(s)'
        BY DEF LeakInv
      <3>1. s \notin S /\ sock[s] = "open"
        BY <2>6
      <3>2. Excused(s)
        BY <1>0, <2>3, <2>4, <2>5, <3>1 DEF LeakInv
      <3> QED BY <2>7, <2>8, <3>2, ExcusedStays
    <2>17. FaultInv'
      BY <2>6, <2>7, <2>8, Remembered DEF Inv, FaultInv
    <2> QED BY <2>9, <2>10, <2>11, <2>12, <2>13, <2>14, <2>15, <2>16, <2>17 DEF Inv
  <1> QED BY <1>1, <1>2
-----------------------------------------------------------------------------
(* The POST of a tunnel *)

\* A POST came on a socket that a client made one on.
LEMMA PostSent ==
    ASSUME Inv, NEW c \in Conns, At(c, "request"), Request(c).kind = "POST"
    PROVE  /\ conn[c].in \in Conns /\ HasSent(conn[c].in, "POST")
           /\ conn[c].in # c => Got(conn[c].in, "POST") # {}
           /\ conn[c].in # c => Got(c, "GET") # {}
  <1>1. /\ stack # << >> /\ c = Top.c /\ Top.pc = "request" /\ Live(c) /\ conn[c] \in Objects
    BY AtIs
  <1>2. PICK s : s = conn[c].in
    OBVIOUS
  <1>3. s \in Conns
    BY <1>1, <1>2 DEF Inv, CallInv, Running, Objects
  <1>4. CASE s # c \/ c \in Posting
    BY <1>2, <1>3, <1>4, NoneAssumption DEF Inv, HandedInv
  <1>5. CASE s = c /\ c \notin Posting
    <2>1. RequestId(c) \in OfSocket(c)
      BY <1>1, <1>2, <1>5, RequestIs DEF Source, Holds
    <2>2. RequestId(c) # Garbage
      BY DEF Request, Ask, NotOne
    <2>3. PICK n \in 1 .. Len(sent[c]) : RequestId(c) = Id(c, n)
      BY <2>1, <2>2 DEF OfSocket
    <2>4. sent[c][n].kind = "POST"
      BY <2>2, <2>3 DEF Request, Ask, Id
    <2>5. n \in DOMAIN sent[c]
      BY LenProperties DEF Inv, TypeInv
    <2> QED BY <1>2, <1>3, <1>5, <2>4, <2>5 DEF HasSent
  <1> QED BY <1>2, <1>4, <1>5

\* The stack of a POST
LEMMA PostStack ==
    ASSUME Inv, NEW c \in Conns, At(c, "request"), NEW f \in Frames, f.pc = "bytes", NEW room \in BOOLEAN,
           LET posted == [stack EXCEPT ![Len(stack)].pc = "posted"]
           IN  stack' = IF room THEN Append(posted, f) ELSE posted
    PROVE  /\ Nested(stack') /\ stack' # << >> /\ Posting' = Outer \cup {c} /\ Outer' \subseteq Posting'
           /\ Posting = Outer
           /\ room => Top' = f
           /\ ~room => Top'.c = c /\ Top'.pc = "posted"
  <1>1. stack # << >> /\ Nested(stack) /\ c = Top.c /\ Top.pc = "request" /\ Top \in Frames
    BY AtIs
  <1>2. PICK p : p = [stack EXCEPT ![Len(stack)].pc = "posted"]
    OBVIOUS
  <1>3. PICK g \in Frames : g = [Top EXCEPT !.pc = "posted"] /\ g.c = c /\ g.pc = "posted"
    <2>1. [Top EXCEPT !.pc = "posted"] \in Frames /\ [Top EXCEPT !.pc = "posted"].c = c
      BY <1>1 DEF Frames
    <2>2. [Top EXCEPT !.pc = "posted"].pc = "posted"
      BY <1>1 DEF Frames
    <2> QED BY <2>1, <2>2
  <1>4. p = [stack EXCEPT ![Len(stack)] = g]
    BY <1>1, <1>2, <1>3, StackFacts, LenProperties DEF Top, Last, Nested
  <1>5. Nested(p) /\ p # << >> /\ Last(p) = g /\ OuterOf(p) = OuterOf(stack)
    BY <1>1, <1>4, StackTop
  <1>6. PostingOf(p) = OuterOf(stack) \cup {c}
    BY <1>3, <1>5, StackPosting
  <1>7. Posting = Outer
    BY <1>1, PostingIs
  <1>8. CASE room
    <2>1. stack' = Append(p, f)
      BY <1>2, <1>8
    <2>2. Nested(stack') /\ stack' # << >> /\ Last(stack') = f /\ OuterOf(stack') = PostingOf(p)
      BY <1>3, <1>5, <2>1, StackPush
    <2>3. PostingOf(stack') = OuterOf(stack')
      BY <2>2, StackPosting
    <2> QED BY <1>6, <1>7, <1>8, <2>2, <2>3 DEF Posting, Outer, Top
  <1>9. CASE ~room
    <2>1. stack' = p
      BY <1>2, <1>9
    <2> QED BY <1>3, <1>5, <1>6, <1>7, <1>9, <2>1 DEF Posting, Outer, Top
  <1> QED BY <1>8, <1>9

LEMMA TunnelingPOSTInv ==
    ASSUME Inv, NEW c \in Conns, TunnelingPOST(c)
    PROVE  Inv'
  <1>0. /\ TypeInv /\ DataInv /\ StackInv /\ ObjectInv /\ OwnerInv /\ CallInv /\ WatchInv /\ HandedInv
        /\ LeakInv /\ At(c, "request") /\ Request(c).kind = "POST"
    BY DEF Inv, TunnelingPOST, Handles
  <1>1. /\ stack # << >> /\ Nested(stack) /\ c = Top.c /\ Top.pc = "request" /\ conn[c] \in Objects
        /\ Live(c)
    BY <1>0, AtIs
  <1>2. PICK k \in Cookies : k = SessionCookie(c)
    BY <1>0, RequestIs DEF SessionCookie
  <1>3. PICK prev \in Conns : prev = table[k]
    BY <1>0, <1>2 DEF TunnelingPOST, TypeInv
  <1>4. Live(prev) /\ Got(prev, "GET") # {} /\ conn[prev] \in Objects
    <2>1. GotCookie(prev, k)
      BY <1>3 DEF Inv, TableInv
    <2> QED BY <1>0, <1>2, <1>3, <2>1 DEF TunnelingPOST, GotCookie, TypeInv
  <1>5. PICK s \in Conns : s = conn[c].in
    BY <1>0, PostSent
  <1>6. PICK old \in Conns \cup {None} : old = conn[prev].in
    BY <1>4 DEF Objects
  <1>7. PICK extra \in Text(Source(c)) : extra = Rest(c) /\ Len(extra) \in Nat
    BY <1>0, RequestIs
  <1>8. PICK room \in BOOLEAN : room = (extra # << >> /\ Len(extra) <= Left(prev))
    OBVIOUS
  <1>9. PICK b : b = IF room THEN conn[prev].buf \o extra ELSE conn[prev].buf
    OBVIOUS
  <1>10. PICK f \in Frames : f = Frame(prev, Len(extra)) /\ f.c = prev /\ f.pc = "bytes" /\ f.new = Len(extra)
    BY <1>7, FrameType DEF Frame
  <1>11. /\ watch' = Rewatch(old, s, prev)
         /\ conn' = [conn EXCEPT ![prev].in = s, ![prev].buf = b]
         /\ handled' = [handled EXCEPT ![c] = Append(@, RequestId(c))]
         /\ UNCHANGED <<sock, table, delayed, fault, sent, wire, pending, up>>
    BY <1>0, <1>2, <1>3, <1>5, <1>6, <1>7, <1>8, <1>9 DEF TunnelingPOST, application, TypeInv
  <1>12. LET posted == [stack EXCEPT ![Len(stack)].pc = "posted"]
         IN  stack' = IF room THEN Append(posted, f) ELSE posted
    BY <1>2, <1>3, <1>7, <1>8, <1>10 DEF TunnelingPOST
  <1>13. /\ Nested(stack') /\ stack' # << >> /\ Posting' = Outer \cup {c} /\ Outer' \subseteq Posting'
         /\ Posting = Outer
         /\ room => Top' = f
         /\ ~room => Top'.c = c /\ Top'.pc = "posted"
    BY <1>0, <1>10, <1>12, PostStack
  <1>14. Outer \subseteq Conns /\ Posting' \subseteq Conns /\ \A d \in Posting' : d \in Outer \/ d = c
    BY <1>13, PostingIs
  (* The buffer *)
  <1>15. /\ b \in Text(Known) /\ Len(b) <= BufferSize /\ conn[prev].rem <= Len(b)
         /\ room => Len(extra) + conn[prev].rem <= Len(b)
    <2>1. extra \in Text(Known) /\ conn[prev].buf \in Text(Known)
      <3>1. Source(c) \subseteq Known /\ Source(prev) \subseteq Known
        BY <1>0, Sources
      <3> QED BY <1>0, <3>1, TextMonotonic DEF DataInv
    <2>2. PICK n \in Nat : n = Len(conn[prev].buf)
      BY <2>1, TextLen
    <2>3. PICK m \in Nat : m = Len(extra)
      BY <1>7
    <2>4. PICK r \in Nat : r = conn[prev].rem
      BY <1>4 DEF Objects
    <2>5. n <= BufferSize /\ r <= n
      BY <1>0, <2>2, <2>4 DEF DataInv
    <2>6. CASE room
      <3>1. m <= BufferSize - n
        BY <1>8, <2>2, <2>3, <2>6 DEF Left
      <3>2. PICK x, y : x = conn[prev].buf /\ y = extra
        OBVIOUS
      <3>3. x \in Text(Known) /\ y \in Text(Known) /\ b = x \o y /\ Len(x) = n /\ Len(y) = m
        BY <1>9, <2>1, <2>2, <2>3, <2>6, <3>2
      <3>4. b \in Text(Known) /\ Len(b) = n + m
        BY <3>3, TextConcat
      <3>5. n + m <= BufferSize /\ r <= n + m /\ m + r <= n + m
        BY <2>5, <3>1, BoundsAssumption
      <3> QED BY <2>3, <2>4, <3>4, <3>5
    <2>7. CASE ~room
      BY <1>9, <2>1, <2>2, <2>4, <2>5, <2>7
    <2> QED BY <2>6, <2>7
  (* The objects *)
  <1>16. PICK o : o = [conn[prev] EXCEPT !.in = s, !.buf = b]
    OBVIOUS
  <1>17. /\ o.in = s /\ o.buf = b /\ o.obj = conn[prev].obj /\ o.out = conn[prev].out
         /\ o.rem = conn[prev].rem /\ o.cookie = conn[prev].cookie /\ o.threads = conn[prev].threads
    BY <1>4, <1>16 DEF Objects
  <1>18. o \in Objects
    <2>1. Known \subseteq RequestIds
      BY <1>0, Sources
    <2>2. b \in Text(RequestIds)
      BY <1>15, <2>1, TextMonotonic
    <2>3. PICK p : p = [conn[prev] EXCEPT !.in = s]
      OBVIOUS
    <2>4. p \in Objects
      BY <1>4, <2>3, ObjectChanges
    <2>5. PICK r \in 0 .. 3 : r = p.rem
      BY <2>4 DEF Objects
    <2>6. o = [p EXCEPT !.buf = b, !.rem = r]
      BY <1>4, <1>16, <2>3, <2>4, <2>5 DEF Objects
    <2> QED BY <2>2, <2>4, <2>6, ObjectChanges
  <1>19. /\ conn'[prev] = o /\ \A d \in Conns : d # prev => conn'[d] = conn[d]
         /\ conn' \in [Conns -> Objects]
    BY <1>0, <1>11, <1>16, <1>18 DEF TypeInv
  <1>20. \A d \in Conns : /\ conn'[d].obj = conn[d].obj /\ conn'[d].out = conn[d].out
                          /\ conn'[d].cookie = conn[d].cookie /\ conn'[d].threads = conn[d].threads
                          /\ conn'[d].rem = conn[d].rem
    BY <1>17, <1>19
  <1>21. /\ \A t \in Conns : watch'[t] = IF t = s THEN prev ELSE IF t = old THEN None ELSE watch[t]
         /\ watch' \in [Conns -> Conns \cup {None}]
    BY <1>0, <1>11 DEF Rewatch, TypeInv
  <1>22. /\ \A d \in Conns : (Live(d)' <=> Live(d)) /\ (Deleted(d)' <=> Deleted(d)) /\ ~Ending(d) /\ ~Ending(d)'
         /\ \A d \in Conns : Holds(d)' <=> Holds(d) /\ d # c
    BY <1>1, <1>10, <1>13, <1>20 DEF Live, Deleted, Holds, Ending
  (* What is handled *)
  <1>23. Remembers /\ Got(c, "POST")' # {}
    <2>1. PICK id \in RequestIds : id = RequestId(c)
      BY <1>0, RequestIs
    <2>2. Ask(id).kind = "POST" /\ handled' = [handled EXCEPT ![c] = Append(@, id)] /\ sent' = sent
      BY <1>0, <1>11, <2>1 DEF Request
    <2>3. Ask(id)' = Ask(id)
      BY <2>2 DEF Ask, NotOne
    <2>4. Remembers /\ Ask(id) \in Got(c, Ask(id).kind)'
      BY <1>0, <2>2, HandlesOne
    <2> QED BY <2>2, <2>3, <2>4
  <1>24. HasSent(s, "POST")' /\ Got(s, "POST")' # {} /\ HasSent(s, "POST")
    <2>1. HasSent(s, "POST") /\ (s # c => Got(s, "POST") # {})
      BY <1>0, <1>5, PostSent
    <2> QED BY <1>23, <2>1, Remembered DEF Remembers
  <1>25. \A d \in Posting' : Got(d, "POST")' # {}
    BY <1>0, <1>13, <1>14, <1>23, Remembered DEF HandedInv
  (* The sockets *)
  <1>26. /\ sock[s] = "open" /\ watch[s] = c /\ s # None
         /\ \A d \in Conns : Holds(d) /\ d # c => s \notin OwnSockets(d)
         /\ \A d \in Posting : conn[d].in = s
    BY <1>0, <1>1, <1>5, NoneAssumption DEF CallInv, Running
  <1>27. \A d \in Conns : Holds(d) => /\ Owner(d) /\ conn[d].in \in Conns
                                      /\ OwnSockets(d) = {conn[d].in, d}
    BY <1>0, <1>22, NoneAssumption DEF OwnerInv, Owner, OwnSockets, TypeInv, Objects
  <1>28. \A d \in Conns : Holds(d)' /\ d # prev => conn[d].in # s /\ d # s /\ conn[d].in # old /\ d # prev
    <2> SUFFICES ASSUME NEW d \in Conns, Holds(d), d # c, d # prev
                 PROVE  conn[d].in # s /\ d # s /\ conn[d].in # old
      BY <1>22
    <2>1. conn[d].in # s /\ d # s
      BY <1>26, <1>27
    <2>2. CASE Holds(prev)
      <3>1. OwnSockets(d) \cap OwnSockets(prev) = {}
        BY <1>0, <2>2 DEF OwnerInv
      <3> QED BY <1>6, <1>27, <2>1, <2>2, <3>1
    <2>3. CASE ~Holds(prev)
      <3>1. old = s
        BY <1>4, <1>6, <1>26, <2>3 DEF Holds
      <3> QED BY <2>1, <3>1
    <2> QED BY <2>1, <2>2, <2>3
  <1>29. /\ \A d \in Conns : d # prev => OwnSockets(d)' = OwnSockets(d)
         /\ Holds(prev) => OwnSockets(prev)' = {s, prev}
    BY <1>17, <1>19, <1>26, <1>27, NoneAssumption DEF OwnSockets, Owner
  <1>30. TypeInv'
    <2>1. RequestId(c) \in RequestIds
      BY <1>0, RequestIs
    <2>2. Append(handled[c], RequestId(c)) \in Seq(RequestIds)
      BY <1>0, <2>1, AppendProperties DEF TypeInv
    <2>3. handled' \in [Conns -> Seq(RequestIds)]
      BY <1>0, <1>11, <2>2 DEF TypeInv
    <2> QED BY <1>0, <1>11, <1>13, <1>19, <1>21, <2>3 DEF TypeInv, Nested
  <1>31. StackInv'
    <2>1. \A d \in Posting' : Live(d)
      BY <1>0, <1>1, <1>14 DEF StackInv
    <2>2. \A d \in Outer' : Live(d)'
      BY <1>13, <1>14, <1>22, <2>1
    <2>3. conn'[Top'.c].obj = "live"
      BY <1>1, <1>4, <1>10, <1>13, <1>20 DEF Live
    <2>4. Top'.pc = "bytes" => Top'.new + conn'[Top'.c].rem <= Len(conn'[Top'.c].buf)
      BY <1>10, <1>13, <1>15, <1>17, <1>19
    <2>5. Top'.pc # "request"
      BY <1>10, <1>13
    <2> QED BY <1>13, <2>2, <2>3, <2>4, <2>5 DEF StackInv, Live
  <1>32. DataInv'
    <2>1. Known' = Known /\ \A d \in Conns : OfSocket(d)' = OfSocket(d)
      BY <1>11 DEF OfSocket, Known
    <2>2. \A d \in Conns : d # c /\ d # prev => Source(d)' = Source(d)
      BY <1>19, <1>22, <2>1 DEF Source
    <2>3. Source(c)' = Known /\ Source(prev)' = Known
      <3>1. ~Holds(c)'
        BY <1>22
      <3>2. Holds(prev)' => conn'[prev].in # prev
        BY <1>17, <1>19, <1>22, <1>26, <1>27
      <3> QED BY <2>1, <3>1, <3>2 DEF Source
    <2>4. \A d \in Conns : Source(d) \subseteq Known
      BY <1>0, Sources
    <2>5. \A d \in Conns : conn[d].buf \in Text(Known) /\ handled[d] \in Seq(Known)
      BY <1>0, <2>4, TextMonotonic, SeqMonotonic DEF DataInv
    <2>6. handled'[c] \in Seq(Known) /\ \A d \in Conns : d # c => handled'[d] = handled[d]
      <3>1. RequestId(c) \in Known
        BY <1>0, <2>4, RequestIs
      <3>2. Append(handled[c], RequestId(c)) \in Seq(Known)
        BY <2>5, <3>1, AppendProperties
      <3> QED BY <1>0, <1>11, <3>2 DEF TypeInv
    <2>7. \A d \in Conns : conn'[d].buf \in Text(Source(d)')
      BY <1>0, <1>15, <1>17, <1>19, <2>2, <2>3, <2>5 DEF DataInv
    <2>8. \A d \in Conns : handled'[d] \in Seq(Source(d)')
      BY <1>0, <2>2, <2>3, <2>5, <2>6 DEF DataInv
    <2>9. \A d \in Conns : Len(conn'[d].buf) <= BufferSize /\ conn'[d].rem <= Len(conn'[d].buf)
      BY <1>0, <1>15, <1>17, <1>19 DEF DataInv
    <2>10. \A d \in Conns : wire'[d] \in Text(OfSocket(d)')
      BY <1>0, <1>11, <2>1 DEF DataInv
    <2> QED BY <2>7, <2>8, <2>9, <2>10 DEF DataInv
  <1>33. OwnerInv'
    <2>1. ASSUME NEW d \in Conns, Holds(d)' PROVE Owner(d)'
      <3>1. Owner(d) /\ conn[d].in \in Conns
        BY <1>22, <1>27, <2>1
      <3>2. CASE d = prev
        BY <1>11, <1>17, <1>19, <1>21, <1>26, <3>1, <3>2 DEF Owner
      <3>3. CASE d # prev
        <4>1. conn[d].in # s /\ conn[d].in # old
          BY <1>28, <2>1, <3>3
        <4> QED BY <1>11, <1>19, <1>21, <3>1, <3>3, <4>1 DEF Owner
      <3> QED BY <3>2, <3>3
    <2>2. ASSUME NEW d \in Conns, NEW e \in Conns, Holds(d)', Holds(e)', d # e
          PROVE  OwnSockets(d)' \cap OwnSockets(e)' = {}
      <3>1. /\ Holds(d) /\ d # c /\ OwnSockets(d) = {conn[d].in, d} /\ s \notin OwnSockets(d)
            /\ Holds(e) /\ e # c /\ OwnSockets(e) = {conn[e].in, e} /\ s \notin OwnSockets(e)
            /\ OwnSockets(d) \cap OwnSockets(e) = {}
        BY <1>0, <1>22, <1>26, <1>27, <2>2 DEF OwnerInv
      <3>2. CASE d = prev
        BY <1>29, <2>2, <3>1, <3>2
      <3>3. CASE e = prev
        BY <1>29, <2>2, <3>1, <3>3
      <3>4. CASE d # prev /\ e # prev
        BY <1>29, <3>1, <3>4
      <3> QED BY <3>2, <3>3, <3>4
    <2> QED BY <2>1, <2>2 DEF OwnerInv
  <1>34. ObjectInv'
    <2>1. conn[s].obj # "none"
      BY <1>0, <1>5, <1>26 DEF ObjectInv
    <2>2. \A d \in Conns : conn[d].in \in Conns \cup {None}
      BY <1>0 DEF TypeInv, Objects
    <2>3. \A d \in Conns : conn'[d].in # None => conn'[conn'[d].in].obj # "none"
      BY <1>0, <1>17, <1>19, <1>20, <2>1, <2>2 DEF ObjectInv
    <2>4. \A d \in Conns : conn'[d].obj = "none" => watch'[d] = None /\ handled'[d] = << >>
      <3> SUFFICES ASSUME NEW d \in Conns, conn[d].obj = "none"
                   PROVE  watch'[d] = None /\ handled'[d] = << >>
        BY <1>20
      <3>1. watch[d] = None /\ handled[d] = << >>
        BY <1>0 DEF ObjectInv
      <3>2. d # s /\ d # c
        BY <1>1, <2>1 DEF Live
      <3>3. watch'[d] = None
        BY <1>21, <3>1, <3>2
      <3>4. handled'[d] = << >>
        BY <1>0, <1>11, <3>1, <3>2 DEF TypeInv
      <3> QED BY <3>3, <3>4
    <2>5. \A d \in Conns : ~Live(d)' => d # prev /\ conn'[d].in = None /\ conn'[d].out = None
      BY <1>0, <1>4, <1>19, <1>22 DEF ObjectInv
    <2>6. \A d \in Conns : conn'[d].obj = "none" => sock'[d] = "none" /\ conn'[d].threads = 0
      <3>1. \A d \in Conns : conn[d].obj = "none" => sock[d] = "none" /\ conn[d].threads = 0
        BY <1>0 DEF ObjectInv
      <3>2. sock' = sock
        BY <1>11
      <3> QED BY ONLY <1>20, <3>1, <3>2
    <2>7. \A d \in Conns : conn'[d].out \in {d, None}
      <3>1. \A d \in Conns : conn[d].out \in {d, None}
        BY <1>0 DEF ObjectInv
      <3> QED BY ONLY <1>20, <3>1
    <2> QED BY <2>3, <2>4, <2>5, <2>6, <2>7 DEF ObjectInv
  <1>35. CallInv'
    <2> SUFFICES ASSUME Running' PROVE CallInv'
      BY DEF CallInv
    <2>1. Top' = f
      BY <1>13 DEF Running
    <2>2. conn'[Top'.c].in = s
      BY <1>10, <1>17, <1>19, <2>1
    <2>3. \A d \in Posting' : conn'[d].in = s
      BY <1>5, <1>13, <1>14, <1>17, <1>19, <1>26
    <2>4. \A d \in Conns : Holds(d)' /\ d # prev => s \notin OwnSockets(d)'
      BY <1>22, <1>26, <1>29
    <2> QED BY <1>10, <1>11, <1>21, <1>26, <2>1, <2>2, <2>3, <2>4 DEF CallInv
  <1>36. WatchInv'
    <2> SUFFICES ASSUME NEW t \in Conns, NEW d \in Conns, watch'[t] = d
                 PROVE  /\ conn'[d].obj # "none"
                        /\ Holds(d)' => conn'[d].in = t
                        /\ \/ Live(d)' /\ conn'[d].in = t
                           \/ PostedToItself(d)'
                           \/ Deleted(d)' /\ d # t /\ GaveUp(d)'
                        /\ d \in Posting' => Got(d, "GET")' # {}
      BY <1>22 DEF WatchInv
    <2>1. CASE t = s
      <3>1. d = prev
        BY <1>21, <2>1
      <3> QED BY <1>4, <1>17, <1>19, <1>22, <1>23, <2>1, <3>1, Remembered DEF Live
    <2>2. CASE t # s
      <3>1. t # old /\ watch[t] = d
        BY <1>21, <2>2, NoneAssumption
      <3>2. /\ conn[d].obj # "none"
            /\ Holds(d) => conn[d].in = t
            /\ \/ Live(d) /\ conn[d].in = t
               \/ PostedToItself(d)
               \/ Deleted(d) /\ d # t /\ GaveUp(d)
            /\ d \in Posting => Got(d, "GET") # {}
        BY <1>0, <1>22, <3>1 DEF WatchInv
      <3>3. conn[d].in = t => conn'[d].in = t
        BY <1>6, <1>19, <3>1
      <3>4. d \in Posting' => d \in Posting
        BY <1>1, <1>5, <1>13, <1>14, <2>2, <3>2 DEF Holds
      <3> QED BY <1>20, <1>22, <1>23, <3>2, <3>3, <3>4, Remembered
    <2> QED BY <2>1, <2>2
  <1>37. TableInv' /\ PendingInv'
    BY <1>11, <1>20, <1>23, TableStays, PendingStays
  <1>38. HandedInv'
    <2>1. ASSUME NEW d \in Conns, NEW t \in Conns, conn'[d].in = t, t # d PROVE Got(d, "GET")' # {}
      BY <1>0, <1>4, <1>19, <1>23, <2>1, NoneAssumption, Remembered DEF HandedInv
    <2>2. ASSUME NEW d \in Conns, NEW t \in Conns, conn'[d].in = t, t # d \/ d \in Posting'
          PROVE  HasSent(t, "POST")' /\ Got(t, "POST")' # {}
      <3>1. CASE t = s
        BY <1>24, <3>1
      <3>2. CASE t # s
        <4>1. d # prev /\ d # c /\ conn[d].in = t
          BY <1>5, <1>17, <1>19, <2>2, <3>2
        <4>2. t # d \/ d \in Posting
          BY <1>13, <1>14, <2>2, <4>1
        <4>3. HasSent(t, "POST") /\ Got(t, "POST") # {}
          BY <1>0, <4>1, <4>2, NoneAssumption DEF HandedInv
        <4> QED BY <1>23, <4>3, Remembered DEF Remembers
      <3> QED BY <3>1, <3>2
    <2>3. \A d \in Conns : conn'[d].in \in Conns \cup {None}
      BY <1>19 DEF Objects
    <2> QED BY <1>25, <2>1, <2>2, <2>3 DEF HandedInv
  <1>39. LeakInv'
    <2> SUFFICES ASSUME NEW t \in Conns, sock[t] = "open"
                 PROVE  \/ \E d \in Conns : Holds(d)' /\ t \in OwnSockets(d)'
                        \/ Running' /\ conn'[Top'.c].in = t
                        \/ Excused(t)'
      BY <1>11 DEF LeakInv
    <2>1. CASE t = s
      <3>1. CASE room
        BY <1>10, <1>13, <1>17, <1>19, <2>1, <3>1 DEF Running
      <3>2. CASE Holds(prev)'
        BY <1>22, <1>29, <2>1, <3>2
      <3>3. CASE ~Holds(prev)'
        <4>1. prev \in Posting'
          BY <1>4, <1>22, <3>3 DEF Holds
        <4>2. PostedToItself(prev)'
          BY <1>4, <1>23, <1>25, <4>1, Remembered DEF PostedToItself
        <4> QED BY <1>24, <2>1, <4>2 DEF Excused
      <3> QED BY <3>1, <3>2, <3>3
    <2>2. CASE Excused(t)
      BY <1>22, <1>23, <2>2, ExcusedStays
    <2>3. ASSUME t # s, NEW d \in Conns, Holds(d), t \in OwnSockets(d)
          PROVE  (\E e \in Conns : Holds(e)' /\ t \in OwnSockets(e)') \/ Excused(t)'
      <3>1. t = conn[d].in \/ t = d
        BY <1>27, <2>3
      <3>2. CASE d = c
        <4>1. t = c /\ s # c
          BY <1>5, <2>3, <3>1, <3>2
        <4>2. Got(c, "GET")' # {}
          BY <1>0, <1>5, <1>23, <4>1, PostSent, Remembered
        <4> QED BY <1>23, <4>1, <4>2 DEF Excused, PostedToItself
      <3>3. CASE d = prev /\ d # c
        <4>1. Holds(prev)' /\ OwnSockets(prev)' = {s, prev}
          BY <1>22, <1>29, <2>3, <3>3
        <4>2. CASE t = prev
          BY <4>1, <4>2
        <4>3. CASE t # prev
          <5>1. t = conn[prev].in
            BY <3>1, <3>3, <4>3
          <5>2. HasSent(t, "POST") /\ Got(t, "POST") # {}
            BY <1>0, <4>3, <5>1, NoneAssumption DEF HandedInv
          <5>3. HasSent(t, "POST")' /\ Got(t, "POST")' # {}
            BY <1>23, <5>2, Remembered DEF Remembers
          <5>4. Rivals'
            BY <1>24, <2>3, <5>3 DEF Rivals
          <5> QED BY <5>3, <5>4 DEF Excused
        <4> QED BY <4>2, <4>3
      <3>4. CASE d # prev /\ d # c
        BY <1>22, <1>29, <2>3, <3>4
      <3> QED BY <3>2, <3>3, <3>4
    <2>4. Running /\ conn[Top.c].in = t => t = s
      BY <1>1, <1>5
    <2> QED BY <1>0, <2>1, <2>2, <2>3, <2>4 DEF LeakInv
  <1>40. FaultInv'
    BY <1>11, <1>22, <1>23, Remembered DEF Inv, FaultInv
  <1> QED BY <1>30, <1>31, <1>32, <1>33, <1>34, <1>35, <1>36, <1>37, <1>38, <1>39, <1>40 DEF Inv
-----------------------------------------------------------------------------
(* Every step *)

LEMMA StutterInv ==
    ASSUME Inv, UNCHANGED vars
    PROVE  Inv'
  <1>1. UNCHANGED <<conn, sock, watch, table, delayed, pending, up, stack, fault, sent, wire, handled>>
    BY DEF vars, serverVars, application
  <1>2. Remembers /\ \A d : Deleted(d)' <=> Deleted(d)
    BY <1>1, RemembersSame DEF Deleted
  <1>3. FaultInv'
    BY <1>1, <1>2, Remembered DEF Inv, FaultInv
  <1> QED BY <1>1, <1>3, SameStep

LEMMA NextInv ==
    ASSUME Inv, [Next]_vars
    PROVE  Inv'
  <1>1. CASE Client
    BY <1>1, ClientWritesInv, ApplicationInv DEF Client
  <1>2. CASE \E s \in Conns : (\E n \in 1 .. BufferSize : Receive(s, n)) \/ ReceiveFails(s)
    BY <1>2, ReceiveInv, ReceiveFailsInv
  <1>3. CASE \E c \in Conns : Accept(c) \/ HandleRequestBytes(c) \/ AudioThread(c) \/ HandleResponse(c)
    <2>1. PICK c \in Conns : Accept(c) \/ HandleRequestBytes(c) \/ AudioThread(c) \/ HandleResponse(c)
      BY <1>3
    <2>2. CASE HandleRequestBytes(c)
      <3>1. CASE TooBig(c) \/ Scan(c) \/ Posted(c) \/ Leave(c)
        BY <3>1, TooBigInv, ScanInv, PostedInv, LeaveInv
      <3>2. CASE \/ Announce(c) \/ AnswerOnly(c) \/ Describe(c) \/ Setup(c) \/ SetupFails(c)
                 \/ (\E reuse \in ReuseConnection : Register(c, reuse)) \/ Bad(c)
                 \/ TunnelingGET(c) \/ PostUnknown(c)
        BY <3>2, CommandInv
      <3>3. CASE PostDangling(c) \/ TunnelingPOST(c)
        BY <3>3, PostDanglingInv, TunnelingPOSTInv
      <3> QED BY <2>2, <3>1, <3>2, <3>3 DEF HandleRequestBytes
    <2>3. CASE Accept(c) \/ AudioThread(c) \/ HandleResponse(c)
      BY <2>3, AcceptInv, AudioThreadInv, HandleResponseInv
    <2> QED BY <2>1, <2>2, <2>3
  <1>4. CASE RegisterStream \/ DeleteServer
    BY <1>4, ApplicationInv, DeleteServerInv
  <1>5. CASE \E p \in delayed : ContinueRegister(p)
    BY <1>5, ContinueRegisterInv
  <1>6. CASE UNCHANGED vars
    BY <1>6, StutterInv
  <1> QED BY <1>1, <1>2, <1>3, <1>4, <1>5, <1>6 DEF Next

(* Of any sequence of requests, reads, closed sockets and deletions: what the   *)
(* calls, the cookies and the sockets are to each other (Inv).                  *)
THEOREM Invariance == Spec => []Inv
  <1>1. Init => Inv
    BY InitInv
  <1>2. Inv /\ [Next]_vars => Inv'
    BY NextInv
  <1> QED BY <1>1, <1>2, PTL DEF Spec
-----------------------------------------------------------------------------
(* What it shows *)

LEMMA TypeFollows ==
    ASSUME Inv
    PROVE  TypeOK
  <1>0. TypeInv /\ DataInv /\ StackInv /\ FaultInv
    BY DEF Inv
  <1>1. ASSUME NEW c \in Conns
        PROVE  /\ conn[c].obj \in {"none", "live", "deleted"}
               /\ {conn[c].in, conn[c].out, watch[c]} \subseteq Conns \cup {None}
               /\ conn[c].rem \in 0 .. 3 /\ Len(conn[c].buf) \in 0 .. BufferSize
               /\ sock[c] \in {"none", "open", "closed", "given"}
    <2>1. conn[c] \in Objects /\ sock[c] \in SockStates /\ watch[c] \in Conns \cup {None}
      BY <1>0 DEF TypeInv
    <2>2. Len(conn[c].buf) \in Nat /\ Len(conn[c].buf) <= BufferSize
      BY <1>0, TextLen DEF DataInv
    <2>3. Len(conn[c].buf) \in 0 .. BufferSize
      BY <2>2, BoundsAssumption
    <2>4. conn[c].rem \in 0 .. 3 /\ conn[c].obj \in {"none", "live", "deleted"}
      BY <2>1 DEF Objects
    <2>5. {conn[c].in, conn[c].out, watch[c]} \subseteq Conns \cup {None}
      BY <2>1 DEF Objects
    <2> QED BY <2>1, <2>3, <2>4, <2>5 DEF SockStates
  <1>2. \A i \in DOMAIN stack : stack[i].pc \in {"bytes", "request", "posted", "leave"}
    <2>1. \A i \in DOMAIN stack : stack[i] \in Frames
      BY <1>0, StackFacts, LenProperties DEF TypeInv
    <2> QED BY <2>1 DEF Frames
  <1>3. table \in [Cookies -> Conns \cup {None}] /\ pending \in 0 .. MaxPending /\ up \in BOOLEAN
    BY <1>0 DEF TypeInv
  <1>4. fault \in {"none", "socket", "cookie", "register", "closedTwice", "audio", "config", "datagram", "table"}
    BY <1>0 DEF FaultInv
  <1> QED BY <1>1, <1>2, <1>3, <1>4 DEF TypeOK

LEMMA TwoOf ==
    ASSUME NEW S, IsFiniteSet(S), NEW x \in S, NEW y \in S, x # y
    PROVE  Cardinality(S) > 1
  <1>1. IsFiniteSet({x}) /\ Cardinality({x}) = 1
    BY FS_Singleton
  <1>2. IsFiniteSet({x} \cup {y}) /\ Cardinality({x} \cup {y}) = 1 + 1
    BY <1>1, FS_AddElement
  <1>3. {x} \cup {y} \in SUBSET S
    OBVIOUS
  <1>4. Cardinality({x} \cup {y}) <= Cardinality(S)
    BY <1>3, FS_Subset
  <1>5. Cardinality(S) \in Nat
    BY FS_CardinalityType
  <1> QED BY <1>2, <1>4, <1>5

LEMMA TwoCookiesRename ==
    ASSUME TypeInv, NEW c \in Conns, TwoCookies(c)
    PROVE  Renamed(c)
  <1> DEFINE h == handled[c]
             C == {r.cookie : r \in Got(c, "GET")}
             f == [i \in 1 .. Len(h) |-> Ask(h[i]).cookie]
             D == {Ask(h[i]).cookie : i \in 1 .. Len(h)}
  <1>1. h \in Seq(RequestIds) /\ Len(h) \in Nat
    BY LenProperties DEF TypeInv
  <1>2. IsFiniteSet(1 .. Len(h))
    BY <1>1, FS_Interval
  <1>3. f \in Surjection(1 .. Len(h), D)
    BY DEF Surjection
  <1>4. IsFiniteSet(D)
    <2> HIDE DEF f, D
    <2> QED BY <1>2, <1>3, FS_Surjection
  <1>5. C \in SUBSET D
    <2>1. \A r \in Got(c, "GET") : \E i \in 1 .. Len(h) : r = Ask(h[i])
      BY <1>1, ToSetIs DEF Got
    <2> QED BY <2>1
  <1>6. IsFiniteSet(C)
    <2> HIDE DEF C, D
    <2> QED BY <1>4, <1>5, FS_Subset
  <1>7. PICK j, k \in Cookies : j # k /\ GotCookie(c, j) /\ GotCookie(c, k)
    BY DEF TwoCookies
  <1>8. j \in C /\ k \in C
    BY <1>7 DEF GotCookie
  <1>9. Cardinality(C) > 1
    <2> HIDE DEF C
    <2> QED BY <1>6, <1>7, <1>8, TwoOf
  <1> QED BY <1>9 DEF Renamed

LEMMA ForgottenFollows ==
    ASSUME Inv
    PROVE  DeletedForgotten
  <1>0. TypeInv /\ StackInv /\ TableInv /\ WatchInv /\ FaultInv
    BY DEF Inv
  <1>1. ASSUME NEW i \in DOMAIN stack PROVE Live(stack[i].c)
    <2>1. stack \in Seq(Frames) /\ Len(stack) \in Nat /\ i \in 1 .. Len(stack) /\ stack # << >>
      BY <1>0, LenProperties, EmptySeq DEF TypeInv
    <2>2. CASE i = Len(stack)
      BY <1>0, <2>1, <2>2 DEF StackInv, Top, Last
    <2>3. CASE i # Len(stack)
      <3>1. i \in 1 .. Len(stack) - 1
        BY <2>1, <2>3
      <3> QED BY <1>0, <3>1 DEF StackInv, Outer, OuterOf
    <2> QED BY <2>2, <2>3
  <1>2. ASSUME NEW k \in Cookies, Deleted(table[k]) PROVE Renamed(table[k])
    <2>1. PICK d \in Conns : d = table[k]
      BY <1>0, <1>2 DEF TypeInv, Deleted
    <2>2. TwoCookies(d)
      BY <1>0, <1>2, <2>1 DEF TableInv
    <2> QED BY <1>0, <2>1, <2>2, TwoCookiesRename
  <1>3. ASSUME NEW s \in Conns, Deleted(watch[s])
        PROVE  PostedToItself(watch[s]) \/ (watch[s] # s /\ GaveUp(watch[s]))
    <2>1. PICK d \in Conns : d = watch[s]
      BY <1>0, <1>3 DEF TypeInv, Deleted
    <2>2. ~Live(d)
      BY <1>3, <2>1 DEF Live, Deleted
    <2>3. PostedToItself(d) \/ (d # s /\ GaveUp(d))
      BY <1>0, <2>1, <2>2 DEF WatchInv
    <2> QED BY <2>1, <2>3
  <1>4. fault = "cookie" => \E c \in Conns : Deleted(c) /\ Renamed(c)
    BY <1>0, TwoCookiesRename DEF FaultInv
  <1>5. fault = "audio" => \E c \in Conns : Deleted(c) /\ Got(c, "SETUP") # {}
    BY <1>0 DEF FaultInv
  <1> QED BY <1>1, <1>2, <1>3, <1>4, <1>5, TypeFollows DEF DeletedForgotten

LEMMA OwnedFollows ==
    ASSUME Inv
    PROVE  SocketsOwned
  <1>1. fault # "closedTwice"
    BY DEF Inv, FaultInv
  <1>2. ASSUME EventLoop, NEW c \in Conns, Live(c)
        PROVE  /\ sock[conn[c].in] = "open" /\ watch[conn[c].in] = c
               /\ sock[conn[c].out] = "open"
               /\ \A d \in Conns \ {c} : OwnSockets(c) \cap OwnSockets(d) = {}
    <2>1. stack = << >>
      BY <1>2 DEF EventLoop
    <2>2. Owner(c) /\ Holds(c)
      BY <1>2, <2>1, BetweenEvents
    <2>3. ASSUME NEW d \in Conns \ {c} PROVE OwnSockets(c) \cap OwnSockets(d) = {}
      <3>1. CASE Live(d)
        <4>1. Holds(d)
          BY <2>1, <3>1, BetweenEvents
        <4> QED BY <2>2, <4>1 DEF Inv, OwnerInv
      <3>2. CASE ~Live(d)
        <4>1. OwnSockets(d) = {}
          BY <3>2 DEF Inv, ObjectInv, OwnSockets
        <4> QED BY <4>1
      <3> QED BY <3>1, <3>2
    <2> QED BY <2>2, <2>3 DEF Owner
  <1>3. ASSUME EventLoop, NEW c \in Conns, sock[c] = "open", \A d \in Conns : c \notin OwnSockets(d)
        PROVE  MayLeak(c)
    <2>1. ~Running
      BY <1>3, BetweenEvents DEF EventLoop
    <2>2. Excused(c)
      BY <1>3, <2>1 DEF Inv, LeakInv
    <2>3. Rivals => Cardinality(Posters) > 1
      <3> SUFFICES ASSUME Rivals PROVE Cardinality(Posters) > 1
        OBVIOUS
      <3>1. PICK s, t \in Conns : s # t /\ HasSent(s, "POST") /\ HasSent(t, "POST")
        BY DEF Rivals
      <3>2. s \in Posters /\ t \in Posters /\ Posters \in SUBSET Conns
        BY <3>1 DEF Posters
      <3>3. IsFiniteSet(Posters)
        BY <3>2, ConnsAssumption, FS_Subset
      <3> QED BY <3>1, <3>2, <3>3, TwoOf
    <2> QED BY <2>2, <2>3 DEF Excused, MayLeak
  <1> QED BY <1>1, <1>2, <1>3 DEF SocketsOwned

(* A deleted connection is forgotten: nothing calls its handleRequestBytes(),   *)
(* and a deletion leaves no cookie and no handler behind, except where the      *)
(* property says (~AirPlayRTSPClientConnection(), handleRequestBytes()).        *)
THEOREM DeletedIsForgotten == Spec => []DeletedForgotten
  <1>1. Inv => DeletedForgotten
    BY ForgottenFollows
  <1> QED BY <1>1, Invariance, PTL

(* Between events each socket has one owner that watches it, none is closed     *)
(* twice however POSTs nest, and one that nobody owns is closed or a POST's     *)
(* (changeClientInputSocket(), closeSockets()).                                 *)
THEOREM SocketsHaveOneOwner == Spec => []SocketsOwned
  <1>1. Inv => SocketsOwned
    BY OwnedFollows
  <1> QED BY <1>1, Invariance, PTL
-----------------------------------------------------------------------------
(* Parts of a text *)

Upto(b, k) == SubSeq(b, 1, k)
Beyond(b, k) == SubSeq(b, k + 1, Len(b))

LEMMA Cut ==
    ASSUME NEW V, NEW b \in Seq(V), NEW k \in 0 .. Len(b)
    PROVE  /\ Upto(b, k) \in Seq(V) /\ Len(Upto(b, k)) = k
           /\ Beyond(b, k) \in Seq(V) /\ Len(Beyond(b, k)) = Len(b) - k
           /\ \A i \in 1 .. k : Upto(b, k)[i] = b[i]
           /\ \A i \in 1 .. Len(b) - k : Beyond(b, k)[i] = b[k + i]
           /\ Upto(b, k) \o Beyond(b, k) = b
  <1>1. Len(b) \in Nat /\ \A i \in 1 .. Len(b) : b[i] \in V
    BY LenProperties, ElementOfSeq
  <1>2. k \in Nat /\ k <= Len(b)
    BY <1>1
  <1>3. /\ Upto(b, k) \in Seq(V) /\ Len(Upto(b, k)) = k
        /\ \A i \in 1 .. k : Upto(b, k)[i] = b[i]
    <2>1. \A i \in 1 .. k : b[i] \in V
      BY <1>1, <1>2
    <2>2. /\ Upto(b, k) \in Seq(V) /\ Len(Upto(b, k)) = IF 1 <= k THEN k - 1 + 1 ELSE 0
          /\ \A i \in 1 .. k - 1 + 1 : Upto(b, k)[i] = b[1 + i - 1]
      BY <1>2, <2>1, SubSeqProperties DEF Upto
    <2>3. \A n \in Nat : (IF 1 <= n THEN n - 1 + 1 ELSE 0) = n /\ n - 1 + 1 = n
      OBVIOUS
    <2>4. \A i \in 1 .. k : 1 + i - 1 = i
      BY <1>2
    <2>5. Len(Upto(b, k)) = k /\ k - 1 + 1 = k
      BY ONLY <1>2, <2>2, <2>3
    <2> QED BY <2>2, <2>4, <2>5
  <1>4. /\ Beyond(b, k) \in Seq(V) /\ Len(Beyond(b, k)) = Len(b) - k
        /\ \A i \in 1 .. Len(b) - k : Beyond(b, k)[i] = b[k + i]
    <2>1. \A i \in k + 1 .. Len(b) : b[i] \in V
      BY <1>1, <1>2
    <2>2. /\ Beyond(b, k) \in Seq(V) /\ Len(Beyond(b, k)) = IF k + 1 <= Len(b) THEN Len(b) - (k + 1) + 1 ELSE 0
          /\ \A i \in 1 .. Len(b) - (k + 1) + 1 : Beyond(b, k)[i] = b[(k + 1) + i - 1]
      BY <1>1, <1>2, <2>1, SubSeqProperties DEF Beyond
    <2>3. \A m, n \in Nat : m <= n => (IF m + 1 <= n THEN n - (m + 1) + 1 ELSE 0) = n - m /\ n - (m + 1) + 1 = n - m
      OBVIOUS
    <2>4. \A m, n \in Nat : \A i \in 1 .. n : (m + 1) + i - 1 = m + i
      OBVIOUS
    <2>5. Len(Beyond(b, k)) = Len(b) - k /\ Len(b) - (k + 1) + 1 = Len(b) - k /\ Len(b) - k \in Nat
      BY ONLY <1>1, <1>2, <2>2, <2>3
    <2>6. \A i \in 1 .. Len(b) - k : (k + 1) + i - 1 = k + i
      BY ONLY <1>2, <2>4, <2>5
    <2> QED BY <2>2, <2>5, <2>6
  <1>5. Upto(b, k) \o Beyond(b, k) = b
    <2>1. 1 \in 1 .. Len(b) + 1 /\ k \in 1 - 1 .. Len(b) /\ Len(b) \in k .. Len(b)
      BY <1>1, <1>2
    <2>2. SubSeq(b, 1, k) \o SubSeq(b, k + 1, Len(b)) = SubSeq(b, 1, Len(b))
      BY <2>1, ConcatAdjacentSubSeq
    <2> QED BY <2>2, SubSeqFull DEF Upto, Beyond
  <1> QED BY <1>3, <1>4, <1>5

\* The parts of a concatenation
LEMMA Joined ==
    ASSUME NEW V, NEW a \in Seq(V), NEW b \in Seq(V)
    PROVE  /\ a \o b \in Seq(V) /\ Len(a \o b) = Len(a) + Len(b)
           /\ Upto(a \o b, Len(a)) = a /\ Beyond(a \o b, Len(a)) = b
           /\ \A i \in 1 .. Len(a) : (a \o b)[i] = a[i]
           /\ \A i \in 1 .. Len(b) : (a \o b)[Len(a) + i] = b[i]
  <1>1. Len(a) \in Nat /\ Len(b) \in Nat
    BY LenProperties
  <1>2. PICK t : t = a \o b
    OBVIOUS
  <1>3. /\ t \in Seq(V) /\ Len(t) = Len(a) + Len(b)
        /\ \A i \in 1 .. Len(a) + Len(b) : t[i] = IF i <= Len(a) THEN a[i] ELSE b[i - Len(a)]
    BY <1>2, ConcatProperties
  <1>4. \A m, n \in Nat : /\ m \in 0 .. m + n /\ (m + n) - m = n
                          /\ \A i \in 1 .. m : i \in 1 .. m + n /\ i <= m
                          /\ \A i \in 1 .. n : m + i \in 1 .. m + n /\ ~(m + i <= m) /\ (m + i) - m = i
    OBVIOUS
  <1>5. \A i \in 1 .. Len(a) : t[i] = a[i]
    BY <1>1, <1>3, <1>4
  <1>6. \A i \in 1 .. Len(b) : t[Len(a) + i] = b[i]
    <2> SUFFICES ASSUME NEW i \in 1 .. Len(b) PROVE t[Len(a) + i] = b[i]
      OBVIOUS
    <2>1. Len(a) + i \in 1 .. Len(a) + Len(b) /\ ~(Len(a) + i <= Len(a)) /\ (Len(a) + i) - Len(a) = i
      BY ONLY <1>1, i \in 1 .. Len(b)
    <2>2. t[Len(a) + i] = b[(Len(a) + i) - Len(a)]
      BY ONLY <1>3, <2>1
    <2> QED BY ONLY <2>1, <2>2
  <1>7. Len(a) \in 0 .. Len(t) /\ Len(t) - Len(a) = Len(b)
    BY ONLY <1>1, <1>3, <1>4
  <1>8. Upto(t, Len(a)) = a
    <2>1. /\ Upto(t, Len(a)) \in Seq(V) /\ Len(Upto(t, Len(a))) = Len(a)
          /\ \A i \in 1 .. Len(a) : Upto(t, Len(a))[i] = t[i]
      BY ONLY <1>3, <1>7, Cut
    <2>2. \A i \in 1 .. Len(a) : Upto(t, Len(a))[i] = a[i]
      BY <1>5, <2>1
    <2> QED BY ONLY <2>1, <2>2, SeqEqual, a \in Seq(V)
  <1>9. Beyond(t, Len(a)) = b
    <2>1. /\ Beyond(t, Len(a)) \in Seq(V) /\ Len(Beyond(t, Len(a))) = Len(b)
          /\ \A i \in 1 .. Len(b) : Beyond(t, Len(a))[i] = t[Len(a) + i]
      <3>1. Beyond(t, Len(a)) \in Seq(V) /\ Len(Beyond(t, Len(a))) = Len(t) - Len(a)
        BY ONLY <1>3, <1>7, Cut
      <3>2. \A i \in 1 .. Len(t) - Len(a) : Beyond(t, Len(a))[i] = t[Len(a) + i]
        BY ONLY <1>3, <1>7, Cut
      <3> QED BY ONLY <1>7, <3>1, <3>2
    <2>2. \A i \in 1 .. Len(b) : Beyond(t, Len(a))[i] = b[i]
      BY ONLY <1>6, <2>1
    <2> QED BY ONLY <2>1, <2>2, SeqEqual, b \in Seq(V)
  <1> QED BY <1>2, <1>3, <1>5, <1>6, <1>8, <1>9

Associates(S) == \A x, y, z \in S : (x \o y) \o z = x \o (y \o z)

LEMMA ConcatThrice ==
    ASSUME NEW V
    PROVE  Associates(Seq(V))
  <1> SUFFICES ASSUME NEW x \in Seq(V), NEW y \in Seq(V), NEW z \in Seq(V)
               PROVE  (x \o y) \o z = x \o (y \o z)
    BY DEF Associates
  <1> QED BY ONLY ConcatAssociative, x \in Seq(V), y \in Seq(V), z \in Seq(V)

LEMMA CutJoined ==
    ASSUME NEW V, NEW a \in Seq(V), NEW b \in Seq(V), NEW k \in 0 .. Len(a)
    PROVE  Upto(a, k) \o (Beyond(a, k) \o b) = a \o b /\ Beyond(a, k) \o b \in Seq(V)
  <1>1. \A e, f \in Seq(V) : (e \o f) \o b = e \o (f \o b)
    <2>1. Associates(Seq(V))
      BY ONLY ConcatThrice
    <2> QED BY ONLY <2>1 DEF Associates
  <1>2. Upto(a, k) \in Seq(V) /\ Beyond(a, k) \in Seq(V) /\ Upto(a, k) \o Beyond(a, k) = a
    BY Cut
  <1> QED BY <1>1, <1>2, ConcatProperties

\* Of two ways to cut a text, the first piece of the shorter is a part of the other's.
LEMMA CutShorter ==
    ASSUME NEW V, NEW a \in Seq(V), NEW b \in Seq(V), NEW c \in Seq(V), NEW d \in Seq(V),
           a \o b = c \o d, Len(c) <= Len(a)
    PROVE  /\ Upto(a, Len(c)) = c /\ Beyond(a, Len(c)) \o b = d
           /\ \A i \in 1 .. Len(c) : a[i] = c[i]
  <1>1. Len(a) \in Nat /\ Len(c) \in 0 .. Len(a) /\ Len(c) \in Nat
    BY LenProperties
  <1>2. /\ Upto(a, Len(c)) \in Seq(V) /\ Len(Upto(a, Len(c))) = Len(c)
        /\ \A i \in 1 .. Len(c) : Upto(a, Len(c))[i] = a[i]
    BY <1>1, Cut
  <1>3. /\ Upto(a, Len(c)) \o (Beyond(a, Len(c)) \o b) = c \o d
        /\ Beyond(a, Len(c)) \o b \in Seq(V)
    BY <1>1, CutJoined
  <1>4. ASSUME NEW e \in Seq(V), NEW g \in Seq(V), Len(e) = Len(c), e \o g = c \o d
        PROVE  e = c /\ g = d
    <2>1. Upto(e \o g, Len(e)) = e /\ Beyond(e \o g, Len(e)) = g
      BY ONLY e \in Seq(V), g \in Seq(V), Joined
    <2>2. Upto(c \o d, Len(c)) = c /\ Beyond(c \o d, Len(c)) = d
      BY ONLY c \in Seq(V), d \in Seq(V), Joined
    <2> QED BY <1>4, <2>1, <2>2
  <1>5. Upto(a, Len(c)) = c /\ Beyond(a, Len(c)) \o b = d
    BY <1>2, <1>3, <1>4
  <1> QED BY <1>2, <1>5
-----------------------------------------------------------------------------
(* Texts, from the end *)

\* What follows the first n sequences of ss
After(ss) == LET R[n \in 0 .. Len(ss)] == IF n = Len(ss) THEN << >> ELSE ss[n + 1] \o R[n + 1] IN R
AfterFrom(R, ss, k) == R = [n \in Len(ss) - k .. Len(ss) |-> IF n = Len(ss) THEN << >> ELSE ss[n + 1] \o R[n + 1]]

LEMMA AfterExists ==
    ASSUME NEW V, NEW ss \in Seq(V)
    PROVE  \A k \in Nat : \E R : AfterFrom(R, ss, k)
  <1> DEFINE T == {k \in Nat : \E R : AfterFrom(R, ss, k)}
  <1>0. PICK N \in Nat : N = Len(ss)
    BY LenProperties
  <1>1. 0 \in T
    <2>1. AfterFrom([n \in N .. N |-> << >>], ss, 0)
      <3>1. N - 0 = N /\ \A n \in N .. N : n = N
        BY <1>0
      <3> QED BY <1>0, <3>1 DEF AfterFrom
    <2> QED BY <2>1
  <1>2. ASSUME NEW k \in T PROVE k + 1 \in T
    <2>1. k \in Nat
      OBVIOUS
    <2>2. PICK f : AfterFrom(f, ss, k)
      OBVIOUS
    <2> DEFINE g == [n \in N - (k + 1) .. N |-> IF n = N THEN << >> ELSE ss[n + 1] \o f[n + 1]]
    <2>3. ASSUME NEW n \in N - k .. N PROVE g[n] = f[n]
      <3>1. n \in N - (k + 1) .. N
        BY <1>0, <2>1
      <3>2. f[n] = IF n = N THEN << >> ELSE ss[n + 1] \o f[n + 1]
        BY <1>0, <2>2 DEF AfterFrom
      <3> QED BY <3>1, <3>2
    <2>4. ASSUME NEW n \in N - (k + 1) .. N, n # N PROVE g[n] = ss[n + 1] \o g[n + 1]
      <3>1. n + 1 \in N - k .. N
        BY <1>0, <2>1, <2>4
      <3> QED BY <2>3, <2>4, <3>1
    <2>5. g = [n \in N - (k + 1) .. N |-> IF n = N THEN << >> ELSE ss[n + 1] \o g[n + 1]]
      <3>1. g = [n \in N - (k + 1) .. N |-> g[n]] /\ (N \in N - (k + 1) .. N => g[N] = << >>)
        OBVIOUS
      <3> HIDE DEF g
      <3> QED BY <2>4, <3>1
    <2>6. AfterFrom(g, ss, k + 1)
      <3> HIDE DEF g
      <3> QED BY <1>0, <2>5 DEF AfterFrom
    <2> QED BY <2>1, <2>6
  <1> HIDE DEF T
  <1>3. T = Nat
    BY <1>1, <1>2, Induction DEF T
  <1> QED BY <1>3 DEF T

LEMMA AfterIs ==
    ASSUME NEW V, NEW ss \in Seq(Seq(V))
    PROVE  /\ After(ss)[Len(ss)] = << >>
           /\ \A n \in 0 .. Len(ss) - 1 : After(ss)[n] = ss[n + 1] \o After(ss)[n + 1]
           /\ \A n \in 0 .. Len(ss) : After(ss)[n] \in Seq(V)
  <1>0. PICK N \in Nat : N = Len(ss)
    BY LenProperties
  <1> DEFINE A == CHOOSE R : R = [n \in 0 .. Len(ss) |-> IF n = Len(ss) THEN << >> ELSE ss[n + 1] \o R[n + 1]]
  <1>1. \E R : R = [n \in 0 .. Len(ss) |-> IF n = Len(ss) THEN << >> ELSE ss[n + 1] \o R[n + 1]]
    <2>1. N - N = 0
      BY <1>0
    <2>2. PICK R : AfterFrom(R, ss, N)
      BY <1>0, AfterExists
    <2> QED BY <1>0, <2>1, <2>2 DEF AfterFrom
  <1>2. A = [n \in 0 .. Len(ss) |-> IF n = Len(ss) THEN << >> ELSE ss[n + 1] \o A[n + 1]]
    BY <1>1
  <1>3. After(ss) = A
    BY DEF After
  <1> HIDE DEF A
  <1>4. N \in 0 .. N /\ \A n \in 0 .. N - 1 : n \in 0 .. N /\ n # N
    BY <1>0
  <1>5. A[N] = << >> /\ \A n \in 0 .. N - 1 : A[n] = ss[n + 1] \o A[n + 1]
    BY <1>0, <1>2, <1>4
  <1> DEFINE T == {k \in Nat : N - k \in 0 .. N => A[N - k] \in Seq(V)}
  <1>6. 0 \in T
    <2>1. N - 0 = N /\ A[N] \in Seq(V)
      BY <1>0, <1>5, EmptySeq
    <2> QED BY <2>1
  <1>7. ASSUME NEW k \in T PROVE k + 1 \in T
    <2> SUFFICES ASSUME N - (k + 1) \in 0 .. N PROVE A[N - (k + 1)] \in Seq(V)
      OBVIOUS
    <2>1. /\ k \in Nat /\ N - (k + 1) \in 0 .. N - 1 /\ (N - (k + 1)) + 1 = N - k
          /\ N - k \in 0 .. N /\ N - k \in 1 .. N
      BY <1>0
    <2>2. A[N - k] \in Seq(V)
      BY <2>1
    <2>3. ss[N - k] \in Seq(V)
      BY <1>0, <2>1, ElementOfSeq
    <2>4. A[N - (k + 1)] = ss[N - k] \o A[N - k]
      BY <1>5, <2>1
    <2> QED BY <2>2, <2>3, <2>4, ConcatProperties
  <1> HIDE DEF T
  <1>8. T = Nat
    BY <1>6, <1>7, Induction DEF T
  <1>9. ASSUME NEW n \in 0 .. N PROVE A[n] \in Seq(V)
    <2>1. N - n \in T /\ N - (N - n) = n
      BY <1>0, <1>8
    <2> QED BY <2>1 DEF T
  <1> QED BY <1>0, <1>3, <1>5, <1>9

\* The whole is what follows none of its parts.
LEMMA FlattenIsAfter ==
    ASSUME NEW V, NEW ss \in Seq(Seq(V))
    PROVE  FlattenSeq(ss) = After(ss)[0]
  <1>0. PICK N \in Nat : N = Len(ss)
    BY LenProperties
  <1>1. PICK A : A = After(ss)
    OBVIOUS
  <1>2. /\ A[N] = << >> /\ \A n \in 0 .. N - 1 : A[n] = ss[n + 1] \o A[n + 1]
        /\ \A n \in 0 .. N : A[n] \in Seq(V)
    BY <1>0, <1>1, AfterIs
  <1>3. CASE N = 0
    <2>1. ss = << >>
      BY <1>0, <1>3, EmptySeq
    <2>2. FlattenSeq(ss) = << >>
      BY <2>1 DEF FlattenSeq
    <2> QED BY <1>1, <1>2, <1>3, <2>2
  <1>4. CASE N # 0
    <2>1. PICK f : Flattened(f, ss, N) /\ FlattenSeq(ss) = f[N]
      BY <1>0, <1>4, FlattenSeqIs
    <2>2. \A i \in 1 .. N : f[i] \in Seq(V) /\ ss[i] \in Seq(V)
      BY <1>0, <2>1, FlattenedType, ElementOfSeq
    <2>3. ASSUME NEW i \in Nat, i + 1 \in 1 .. N, i \in 1 .. N => f[i] \o A[i] = A[0]
          PROVE  f[i + 1] \o A[i + 1] = A[0]
      <3>1. /\ i \in 0 .. N - 1 /\ i + 1 \in 0 .. N
            /\ i # 0 => i \in 1 .. N /\ i + 1 # 1 /\ (i + 1) - 1 = i
        BY <1>0, <2>3
      <3>2. A[i] = ss[i + 1] \o A[i + 1]
        BY <1>2, <3>1
      <3>3. CASE i = 0
        <4>1. f[i + 1] = ss[i + 1]
          BY <2>1, <2>3, <3>3 DEF Flattened
        <4> QED BY <3>2, <3>3, <4>1
      <3>4. CASE i # 0
        <4>1. f[i + 1] = f[i] \o ss[i + 1]
          BY <2>1, <2>3, <3>1, <3>4 DEF Flattened
        <4>2. f[i] \o A[i] = A[0]
          BY <2>3, <3>1, <3>4
        <4>3. \A x, y, z \in Seq(V) : (x \o y) \o z = x \o (y \o z)
          <5>1. Associates(Seq(V))
            BY ONLY ConcatThrice
          <5> QED BY ONLY <5>1 DEF Associates
        <4>4. f[i] \in Seq(V) /\ ss[i + 1] \in Seq(V) /\ A[i + 1] \in Seq(V)
          BY <1>2, <2>2, <2>3, <3>1, <3>4
        <4>5. (f[i] \o ss[i + 1]) \o A[i + 1] = f[i] \o (ss[i + 1] \o A[i + 1])
          BY <4>3, <4>4
        <4> QED BY <3>2, <4>1, <4>2, <4>5
      <3> QED BY <3>3, <3>4
    <2> DEFINE T == {i \in Nat : i \in 1 .. N => f[i] \o A[i] = A[0]}
    <2>4. 0 \in T /\ \A i \in T : i + 1 \in T
      <3>1. 0 \in T
        OBVIOUS
      <3>2. ASSUME NEW i \in T PROVE i + 1 \in T
        <4>1. i \in Nat /\ i + 1 \in Nat
          OBVIOUS
        <4>2. i \in 1 .. N => f[i] \o A[i] = A[0]
          OBVIOUS
        <4>3. i + 1 \in 1 .. N => f[i + 1] \o A[i + 1] = A[0]
          BY <2>3, <4>1, <4>2
        <4> QED BY <4>1, <4>3
      <3> QED BY <3>1, <3>2
    <2> HIDE DEF T
    <2>5. T = Nat
      BY <2>4, Induction DEF T
    <2>6. f[N] \o A[N] = A[0]
      <3>1. N \in T /\ N \in 1 .. N
        BY <1>0, <1>4, <2>5
      <3> QED BY <3>1 DEF T
    <2>7. f[N] \o << >> = f[N]
      <3>1. N \in 1 .. N
        BY <1>0, <1>4
      <3> QED BY <2>2, <3>1, ConcatEmptySeq
    <2> QED BY <1>1, <1>2, <2>1, <2>6, <2>7
  <1> QED BY <1>3, <1>4
-----------------------------------------------------------------------------
(* Base64 *)

DecodedAt(b, i) ==
    LET g == 4 * ((i - 1) \div 3) + 1
        id == b[g][1]
        at == b[g][2]
    IN IF at % 4 = 1 /\ SubSeq(b, g, g + 3) = [j \in 1 .. 4 |-> Unit(id, at + j - 1, TRUE)]
       THEN Unit(id, (3 * (at - 1)) \div 4 + 1 + ((i - 1) % 3), FALSE)
       ELSE Unit(Garbage, 0, FALSE)

LEMMA DecodeIs == \A b : Decode(b) = [i \in 1 .. 3 * (Len(b) \div 4) |-> DecodedAt(b, i)]
  BY DEF Decode, DecodedAt

LEMMA Groups ==
    /\ \A n \in Nat : n % 4 = 0 => n = 4 * (n \div 4)
    /\ \A m, n \in Nat : (4 * m + n) \div 4 = m + (n \div 4)
    /\ \A m \in Nat : \A i \in 1 .. 3 * m : LET g == 4 * ((i - 1) \div 3) + 1
                                            IN g \in 1 .. 4 * m /\ g + 3 \in 1 .. 4 * m
    /\ \A m \in Nat, i \in Nat \ {0} : /\ (3 * m + i - 1) % 3 = (i - 1) % 3
                                       /\ 4 * ((3 * m + i - 1) \div 3) + 1 = 4 * m + (4 * ((i - 1) \div 3) + 1)
  <1>1. \A n \in Nat : n % 4 = 0 => n = 4 * (n \div 4)
    OBVIOUS
  <1>2. \A m, n \in Nat : (4 * m + n) \div 4 = m + (n \div 4)
    OBVIOUS
  <1>3. \A m \in Nat : \A i \in 1 .. 3 * m : LET g == 4 * ((i - 1) \div 3) + 1
                                             IN g \in 1 .. 4 * m /\ g + 3 \in 1 .. 4 * m
    OBVIOUS
  <1>4. \A m \in Nat, i \in Nat \ {0} : /\ (3 * m + i - 1) % 3 = (i - 1) % 3
                                        /\ 4 * ((3 * m + i - 1) \div 3) + 1 = 4 * m + (4 * ((i - 1) \div 3) + 1)
    OBVIOUS
  <1> QED BY <1>1, <1>2, <1>3, <1>4

LEMMA DecodeConcat ==
    ASSUME NEW S, Garbage \in S, NEW a \in Text(S), NEW b \in Text(S), Len(a) % 4 = 0
    PROVE  Decode(a \o b) = Decode(a) \o Decode(b)
  <1>a. PICK V : V = S \X Int \X BOOLEAN
    OBVIOUS
  <1>b. \A e : e \in Text(S) <=> e \in Seq(V)
    BY <1>a DEF Text
  <1>0. a \in Seq(V) /\ b \in Seq(V) /\ Len(a) \in Nat /\ Len(b) \in Nat
    BY <1>b, TextLen
  <1>1. PICK m \in Nat, n \in Nat : m = Len(a) \div 4 /\ n = Len(b) \div 4 /\ Len(a) = 4 * m /\ 4 * n <= Len(b)
    BY <1>0, Groups, Quotients
  <1>2. PICK t : t = a \o b
    OBVIOUS
  <1>3. /\ t \in Text(S) /\ Len(t) = Len(a) + Len(b)
        /\ \A i \in 1 .. Len(a) : t[i] = a[i]
        /\ \A i \in 1 .. Len(b) : t[Len(a) + i] = b[i]
    <2>1. /\ a \o b \in Seq(V) /\ Len(a \o b) = Len(a) + Len(b)
          /\ \A i \in 1 .. Len(a) : (a \o b)[i] = a[i]
          /\ \A i \in 1 .. Len(b) : (a \o b)[Len(a) + i] = b[i]
      BY ONLY <1>0, Joined
    <2> QED BY <1>b, <1>2, <2>1
  <1>4. Len(t) \div 4 = m + n
    <2>1. \A x, y \in Nat : (4 * x + y) \div 4 = x + (y \div 4)
      BY Groups
    <2>2. Len(t) = 4 * m + Len(b)
      BY ONLY <1>1, <1>3
    <2> QED BY ONLY <1>0, <1>1, <2>1, <2>2
  <1>5. /\ Decode(a) \in Seq(V) /\ Len(Decode(a)) = 3 * m /\ Decode(b) \in Seq(V) /\ Len(Decode(b)) = 3 * n
        /\ Decode(t) \in Seq(V) /\ Len(Decode(t)) = 3 * (m + n)
    BY <1>b, <1>1, <1>3, <1>4, DecodeType
  <1>6. ASSUME NEW i \in 1 .. 3 * m PROVE Decode(t)[i] = Decode(a)[i]
    <2>1. PICK g : g = 4 * ((i - 1) \div 3) + 1
      OBVIOUS
    <2>2. g \in 1 .. Len(a) /\ g + 3 \in 1 .. Len(a)
      BY <1>1, <2>1, Groups
    <2>3. t[g] = a[g] /\ SubSeq(t, g, g + 3) = SubSeq(a, g, g + 3)
      <3>1. SubSeq(a \o b, g, g + 3) = SubSeq(a, g, g + 3)
        BY ONLY <1>0, <2>2, SubSeqOfConcat1
      <3> QED BY <1>2, <1>3, <2>2, <3>1
    <2>4. DecodedAt(t, i) = DecodedAt(a, i)
      BY ONLY <2>1, <2>3 DEF DecodedAt
    <2>5. i \in 1 .. 3 * (m + n)
      BY <1>1
    <2> QED BY <1>1, <1>4, <2>4, <2>5, DecodeIs
  <1>7. ASSUME NEW i \in 1 .. 3 * n PROVE Decode(t)[3 * m + i] = Decode(b)[i]
    <2>1. PICK g : g = 4 * ((i - 1) \div 3) + 1
      OBVIOUS
    <2>2. g \in 1 .. Len(b) /\ g + 3 \in 1 .. Len(b)
      <3>1. g \in 1 .. 4 * n /\ g + 3 \in 1 .. 4 * n
        BY <2>1, Groups
      <3>2. \A x \in Nat : \A y \in 1 .. 4 * n : 4 * n <= x => y \in 1 .. x
        BY ONLY <1>1
      <3> QED BY ONLY <1>0, <1>1, <3>1, <3>2
    <2>3. PICK h : h = Len(a) + g
      OBVIOUS
    <2>4. t[h] = b[g] /\ SubSeq(t, h, h + 3) = SubSeq(b, g, g + 3)
      <3>1. /\ h \in Len(a) + 1 .. Len(a) + Len(b) /\ h + 3 \in Len(a) + 1 .. Len(a) + Len(b)
            /\ h - Len(a) = g /\ h + 3 - Len(a) = g + 3
        BY <1>0, <2>2, <2>3
      <3>2. \A x, y \in Seq(V) : \A i1, i2 \in Len(x) + 1 .. Len(x) + Len(y) :
                SubSeq(x \o y, i1, i2) = SubSeq(y, i1 - Len(x), i2 - Len(x))
        BY SubSeqOfConcat2
      <3>3. PICK h3 : h3 = h + 3
        OBVIOUS
      <3>4. /\ h \in Len(a) + 1 .. Len(a) + Len(b) /\ h3 \in Len(a) + 1 .. Len(a) + Len(b)
            /\ h - Len(a) = g /\ h3 - Len(a) = g + 3
        BY ONLY <3>1, <3>3
      <3>5. SubSeq(a \o b, h, h3) = SubSeq(b, h - Len(a), h3 - Len(a))
        BY ONLY <1>0, <3>4, <3>2, Zenon
      <3> QED BY <1>2, <1>3, <2>2, <2>3, <3>3, <3>4, <3>5
    <2>5. i \in Nat \ {0} /\ 3 * m + i \in 1 .. 3 * (m + n)
      BY <1>1
    <2> DEFINE k == 3 * m + i
    <2>6. (k - 1) % 3 = (i - 1) % 3 /\ h = 4 * ((k - 1) \div 3) + 1
      BY <1>1, <2>1, <2>3, <2>5, Groups
    <2>a. k \in 1 .. 3 * (m + n)
      BY <2>5
    <2> HIDE DEF k
    <2>7. DecodedAt(t, k) = DecodedAt(b, i)
      BY ONLY <2>1, <2>4, <2>6 DEF DecodedAt
    <2>8. Decode(t)[k] = Decode(b)[i]
      BY <1>1, <1>4, <2>a, <2>7, DecodeIs
    <2> QED BY <2>8 DEF k
  <1>8. PICK u : u = Decode(a) \o Decode(b)
    OBVIOUS
  <1>9. /\ u \in Seq(V) /\ Len(u) = 3 * m + 3 * n
        /\ \A i \in 1 .. 3 * m : u[i] = Decode(a)[i]
        /\ \A i \in 1 .. 3 * n : u[3 * m + i] = Decode(b)[i]
    <2>1. /\ Decode(a) \o Decode(b) \in Seq(V) /\ Len(Decode(a) \o Decode(b)) = Len(Decode(a)) + Len(Decode(b))
          /\ \A i \in 1 .. Len(Decode(a)) : (Decode(a) \o Decode(b))[i] = Decode(a)[i]
          /\ \A i \in 1 .. Len(Decode(b)) : (Decode(a) \o Decode(b))[Len(Decode(a)) + i] = Decode(b)[i]
      <3>1. PICK x : x = Decode(a)
        OBVIOUS
      <3>2. PICK y : y = Decode(b)
        OBVIOUS
      <3>3. x \in Seq(V) /\ y \in Seq(V)
        BY <1>5, <3>1, <3>2
      <3>4. /\ x \o y \in Seq(V) /\ Len(x \o y) = Len(x) + Len(y)
            /\ \A i \in 1 .. Len(x) : (x \o y)[i] = x[i]
            /\ \A i \in 1 .. Len(y) : (x \o y)[Len(x) + i] = y[i]
        BY ONLY <3>3, Joined
      <3> QED BY ONLY <3>1, <3>2, <3>4
    <2> QED BY <1>5, <1>8, <2>1
  <1>10. \A i \in 1 .. 3 * (m + n) : Decode(t)[i] = u[i]
    <2>1. ASSUME NEW i \in 1 .. 3 * (m + n) PROVE Decode(t)[i] = u[i]
      <3>1. CASE i <= 3 * m
        <4>1. i \in 1 .. 3 * m
          BY <3>1
        <4> QED BY <1>6, <1>9, <4>1
      <3>2. CASE ~(i <= 3 * m)
        <4>1. PICK j \in 1 .. 3 * n : i = 3 * m + j
          <5>1. i - 3 * m \in 1 .. 3 * n /\ i = 3 * m + (i - 3 * m)
            BY <3>2
          <5> QED BY <5>1
        <4> QED BY <1>7, <1>9, <4>1
      <3> QED BY <3>1, <3>2
    <2> QED BY <2>1
  <1>11. 3 * m + 3 * n = 3 * (m + n)
    OBVIOUS
  <1>12. Decode(t) = u
    BY ONLY <1>5, <1>9, <1>10, <1>11, SeqEqual
  <1> QED BY <1>2, <1>8, <1>12
-----------------------------------------------------------------------------
(* Heads *)

Ends(u) == u[2] = 3 /\ ~u[3]

LEMMA EndOfMsgIs ==
    ASSUME NEW S, NEW b \in Text(S)
    PROVE  /\ EndOfMsg(b) = 0 <=> \A i \in 1 .. Len(b) : ~Ends(b[i])
           /\ EndOfMsg(b) # 0 => /\ EndOfMsg(b) \in 1 .. Len(b) /\ Ends(b[EndOfMsg(b)])
                                 /\ \A j \in 1 .. Len(b) : Ends(b[j]) => EndOfMsg(b) <= j
  <1> DEFINE T == {i \in 1 .. Len(b) : b[i][2] = 3 /\ ~b[i][3]}
  <1>1. EndOfMsg(b) = IF T # {} THEN Min(T) ELSE 0
    BY DEF EndOfMsg, SelectInSeq
  <1>2. Len(b) \in Nat
    BY TextLen
  <1>3. CASE T # {}
    <2>0. T \subseteq Nat
      BY <1>2
    <2>1. \E x \in T : \A y \in T : x <= y
      <3> HIDE DEF T
      <3> QED BY <1>3, <2>0, LeastNumber
    <2>2. Min(T) \in T /\ \A y \in T : Min(T) <= y
      BY <2>1 DEF Min
    <2>3. EndOfMsg(b) \in T /\ \A y \in T : EndOfMsg(b) <= y
      BY ONLY <1>1, <1>3, <2>2
    <2>4. \A j \in 1 .. Len(b) : Ends(b[j]) <=> j \in T
      BY DEF Ends
    <2>5. EndOfMsg(b) \in 1 .. Len(b) /\ EndOfMsg(b) # 0
      BY ONLY <1>2, <2>3
    <2> HIDE DEF T
    <2> QED BY <2>3, <2>4, <2>5
  <1>4. CASE T = {}
    BY <1>1, <1>4 DEF Ends
  <1> QED BY <1>3, <1>4

\* A head that is there is the same whatever follows it.
LEMMA SameHead ==
    ASSUME NEW S, NEW a \in Text(S), NEW b \in Text(S), EndOfMsg(a) # 0, EndOfMsg(a) <= Len(b),
           \A i \in 1 .. EndOfMsg(a) : b[i] = a[i]
    PROVE  EndOfMsg(b) = EndOfMsg(a) /\ Parse(b) = Parse(a)
  <1>1. PICK e : e = EndOfMsg(a)
    OBVIOUS
  <1>2. /\ e \in 1 .. Len(a) /\ Ends(a[e]) /\ \A j \in 1 .. Len(a) : Ends(a[j]) => e <= j
    BY <1>1, EndOfMsgIs
  <1>3. Len(a) \in Nat /\ Len(b) \in Nat /\ e \in 1 .. Len(b) /\ e \in 0 .. Len(a) /\ e \in 0 .. Len(b)
    BY <1>1, <1>2, TextLen
  <1>4. EndOfMsg(b) # 0
    BY <1>1, <1>2, <1>3, EndOfMsgIs
  <1>5. /\ EndOfMsg(b) \in 1 .. Len(b) /\ Ends(b[EndOfMsg(b)]) /\ EndOfMsg(b) <= e
    BY <1>1, <1>2, <1>3, <1>4, EndOfMsgIs
  <1>6. EndOfMsg(b) \in 1 .. e /\ EndOfMsg(b) \in 1 .. Len(a)
    BY <1>2, <1>3, <1>5
  <1>7. e <= EndOfMsg(b)
    BY <1>1, <1>2, <1>5, <1>6
  <1>8. EndOfMsg(b) = e
    BY <1>3, <1>5, <1>7
  <1>a. PICK V : V = S \X Int \X BOOLEAN
    OBVIOUS
  <1>b. a \in Seq(V) /\ b \in Seq(V)
    BY <1>a DEF Text
  <1>9. Upto(a, e) = Upto(b, e)
    <2>1. /\ Upto(a, e) \in Seq(V) /\ Len(Upto(a, e)) = e
          /\ \A i \in 1 .. e : Upto(a, e)[i] = a[i]
      BY ONLY <1>3, <1>b, Cut
    <2>2. /\ Upto(b, e) \in Seq(V) /\ Len(Upto(b, e)) = e
          /\ \A i \in 1 .. e : Upto(b, e)[i] = b[i]
      BY ONLY <1>3, <1>b, Cut
    <2>3. \A i \in 1 .. e : Upto(a, e)[i] = Upto(b, e)[i]
      BY <1>1, <2>1, <2>2
    <2> QED BY ONLY <2>1, <2>2, <2>3, SeqEqual
  <1>10. b[e] = a[e]
    BY <1>1, <1>2
  <1> QED BY <1>1, <1>8, <1>9, <1>10 DEF Parse, Upto

LEMMA PartIs ==
    ASSUME NEW V, NEW b \in Seq(V), NEW m \in 1 .. Len(b), NEW n \in m .. Len(b)
    PROVE  SubSeq(b, m, n) = [i \in 1 .. n - m + 1 |-> b[m + i - 1]]
  <1>1. Len(b) \in Nat /\ m \in Int /\ n \in Int /\ n - m + 1 \in Nat /\ m <= n
    BY LenProperties
  <1>2. \A i \in m .. n : b[i] \in V
    BY <1>1, ElementOfSeq
  <1>3. /\ SubSeq(b, m, n) \in Seq(V) /\ Len(SubSeq(b, m, n)) = n - m + 1
        /\ \A i \in 1 .. n - m + 1 : SubSeq(b, m, n)[i] = b[m + i - 1]
    BY <1>1, <1>2, SubSeqProperties
  <1>4. \A i \in 1 .. n - m + 1 : m + i - 1 \in m .. n
    BY <1>1
  <1>5. \A k \in Nat : \A f : f \in [1 .. k -> V] => f \in Seq(V) /\ Len(f) = k
    OBVIOUS
  <1>6. PICK f : f = [i \in 1 .. n - m + 1 |-> b[m + i - 1]]
    OBVIOUS
  <1>7. f \in Seq(V) /\ Len(f) = n - m + 1
    BY <1>1, <1>2, <1>4, <1>5, <1>6
  <1>8. \A i \in 1 .. n - m + 1 : SubSeq(b, m, n)[i] = f[i]
    BY <1>3, <1>6
  <1> QED BY ONLY <1>3, <1>6, <1>7, <1>8, SeqEqual

LEMMA PlainIs ==
    ASSUME NEW id, NEW r
    PROVE  /\ Len(Plain(id, r)) = 3 + BodySize(r)
           /\ \A i \in 1 .. 3 + BodySize(r) : Plain(id, r)[i] = Unit(id, i, FALSE)
  BY BodySizes DEF Plain

LEMMA Base64Is ==
    ASSUME NEW id, NEW r
    PROVE  \E m \in {1, 2} : /\ Len(Base64(id, r)) = 4 * m /\ 3 + BodySize(r) = 3 * m
                             /\ \A i \in 1 .. 4 * m : Base64(id, r)[i] = Unit(id, i, TRUE)
  <1>1. CASE BodySize(r) = 0
    <2>1. 4 + (4 * BodySize(r)) \div 3 = 4 * 1 /\ 3 + BodySize(r) = 3 * 1
      BY <1>1
    <2>2. Base64(id, r) = [i \in 1 .. 4 * 1 |-> Unit(id, i, TRUE)]
      BY <2>1 DEF Base64
    <2>3. Len(Base64(id, r)) = 4 * 1 /\ \A i \in 1 .. 4 * 1 : Base64(id, r)[i] = Unit(id, i, TRUE)
      BY <2>2
    <2> QED BY <2>1, <2>3
  <1>2. CASE BodySize(r) = 3
    <2>1. 4 + (4 * BodySize(r)) \div 3 = 4 * 2 /\ 3 + BodySize(r) = 3 * 2
      BY <1>2
    <2>2. Base64(id, r) = [i \in 1 .. 4 * 2 |-> Unit(id, i, TRUE)]
      BY <2>1 DEF Base64
    <2>3. Len(Base64(id, r)) = 4 * 2 /\ \A i \in 1 .. 4 * 2 : Base64(id, r)[i] = Unit(id, i, TRUE)
      BY <2>2
    <2> QED BY <2>1, <2>3
  <1> QED BY <1>1, <1>2, BodySizes

\* A request's Base64 is decoded to the request.
LEMMA DecodeRequest ==
    ASSUME NEW S, Garbage \in S, NEW id \in S, NEW r
    PROVE  Decode(Base64(id, r)) = Plain(id, r) /\ Len(Base64(id, r)) % 4 = 0
  <1>1. PICK b : b = Base64(id, r)
    OBVIOUS
  <1>2. PICK m \in {1, 2} : /\ Len(b) = 4 * m /\ 3 + BodySize(r) = 3 * m
                            /\ \A i \in 1 .. 4 * m : b[i] = Unit(id, i, TRUE)
    BY <1>1, Base64Is
  <1>3. b \in Text(S) /\ Plain(id, r) \in Text(S)
    BY <1>1, RequestText
  <1>4. Len(b) \div 4 = m /\ Len(b) % 4 = 0
    BY <1>2
  <1>5. ASSUME NEW i \in 1 .. 3 * m PROVE DecodedAt(b, i) = Unit(id, i, FALSE)
    <2>1. PICK g : g = 4 * ((i - 1) \div 3) + 1
      OBVIOUS
    <2>2. g \in 1 .. 4 * m /\ g + 3 \in 1 .. 4 * m
      BY <1>2, <2>1, Groups
    <2>3. b[g] = Unit(id, g, TRUE)
      BY <1>2, <2>2
    <2>4. SubSeq(b, g, g + 3) = [j \in 1 .. 4 |-> Unit(id, g + j - 1, TRUE)]
      <3>1. \A j \in 1 .. 4 : g + j - 1 \in 1 .. 4 * m
        BY <1>2, <2>2
      <3>2. SubSeq(b, g, g + 3) = [j \in 1 .. 4 |-> b[g + j - 1]]
        <4>1. PICK h : h = g + 3
          OBVIOUS
        <4>2. g \in 1 .. Len(b) /\ h \in g .. Len(b) /\ h - g + 1 = 4
          BY <1>2, <2>2, <4>1
        <4>3. b \in Seq(S \X Int \X BOOLEAN)
          BY <1>3 DEF Text
        <4>4. SubSeq(b, g, h) = [j \in 1 .. h - g + 1 |-> b[g + j - 1]]
          BY ONLY <4>2, <4>3, PartIs
        <4> QED BY <4>1, <4>2, <4>4
      <3>3. \A j \in 1 .. 4 : b[g + j - 1] = Unit(id, g + j - 1, TRUE)
        BY <1>2, <3>1
      <3> QED BY <3>2, <3>3
    <2>5. g % 4 = 1 /\ (3 * (g - 1)) \div 4 + 1 + ((i - 1) % 3) = i
      BY <1>2, <2>1
    <2>6. b[g][1] = id /\ b[g][2] = g
      BY <2>3 DEF Unit
    <2> QED BY ONLY <2>1, <2>4, <2>5, <2>6 DEF DecodedAt
  <1>6. Decode(b) = [i \in 1 .. 3 * m |-> DecodedAt(b, i)]
    BY <1>4, DecodeIs
  <1>7. Plain(id, r) = [i \in 1 .. 3 * m |-> Unit(id, i, FALSE)]
    BY <1>2 DEF Plain
  <1> QED BY <1>1, <1>4, <1>5, <1>6, <1>7

\* A text, of which b has been read, begins with a request.
Starts(b, w, id, r, t) == b \o w = Plain(id, r) \o t
SizeOf(r) == 3 + BodySize(r)

LEMMA FirstRequest ==
    ASSUME NEW S, NEW id \in S, NEW r, NEW b \in Text(S), NEW w \in Text(S), NEW t \in Text(S),
           Starts(b, w, id, r, t), Ask(id) = r
    PROVE  /\ Complete(b) <=> Len(b) >= SizeOf(r)
           /\ Complete(b) => /\ EndOfMsg(b) = 3 /\ Parse(b) = id /\ SizeOf(r) \in 0 .. Len(b)
                             /\ Beyond(b, SizeOf(r)) \o w = t
  <1>a. PICK V : V = S \X Int \X BOOLEAN
    OBVIOUS
  <1>b. PICK p : p = Plain(id, r)
    OBVIOUS
  <1>c. p \in Text(S) /\ p \in Seq(V) /\ b \in Seq(V) /\ w \in Seq(V) /\ t \in Seq(V) /\ b \o w = p \o t
    BY <1>a, <1>b, RequestText DEF Text, Starts
  <1>0. PICK n \in Nat : n = SizeOf(r) /\ n = 3 + BodySize(r) /\ n >= 3
    BY BodySizes DEF SizeOf
  <1>1. Len(p) = n /\ \A i \in 1 .. n : p[i] = Unit(id, i, FALSE)
    BY <1>0, <1>b, PlainIs
  <1>2. PICK l \in Nat : l = Len(b)
    BY TextLen
  <1>3. ASSUME NEW i \in 1 .. l, i <= n PROVE b[i] = Unit(id, i, FALSE) /\ (Ends(b[i]) <=> i = 3)
    <2>1. b[i] = p[i]
      <3>1. CASE n <= l
        <4>1. \A j \in 1 .. Len(p) : b[j] = p[j]
          <5>1. Len(p) <= Len(b)
            BY <1>1, <1>2, <3>1
          <5> QED BY ONLY <1>c, <5>1, CutShorter
        <4> QED BY <1>1, <1>3, <4>1
      <3>2. CASE l <= n
        <4>1. \A j \in 1 .. Len(b) : p[j] = b[j]
          <5>1. Len(b) <= Len(p) /\ p \o t = b \o w
            BY <1>1, <1>2, <1>c, <3>2
          <5> QED BY ONLY <1>c, <5>1, CutShorter
        <4> QED BY <1>2, <1>3, <4>1
      <3> QED BY <3>1, <3>2
    <2>2. i \in 1 .. n
      BY <1>3
    <2>3. b[i] = Unit(id, i, FALSE)
      BY <1>1, <2>1, <2>2
    <2> QED BY <2>3 DEF Unit, Ends
  <1>4. CASE l < 3
    <2>1. \A i \in 1 .. l : ~Ends(b[i])
      <3>1. \A i \in 1 .. l : i <= n /\ i # 3
        BY <1>0, <1>4
      <3> QED BY <1>3, <3>1
    <2>2. EndOfMsg(b) = 0
      BY <1>2, <2>1, EndOfMsgIs
    <2> QED BY <1>0, <1>2, <1>4, <2>2 DEF Complete
  <1>5. CASE l >= 3
    <2>1. 3 \in 1 .. l /\ 3 <= n
      BY <1>0, <1>5
    <2>2. EndOfMsg(b) # 0
      BY <1>2, <1>3, <2>1, EndOfMsgIs
    <2>3. EndOfMsg(b) \in 1 .. l /\ Ends(b[EndOfMsg(b)]) /\ EndOfMsg(b) <= 3
      <3>1. Ends(b[3])
        BY <1>3, <2>1
      <3> QED BY <1>2, <2>1, <2>2, <3>1, EndOfMsgIs
    <2>4. EndOfMsg(b) = 3
      <3>1. PICK e : e = EndOfMsg(b)
        OBVIOUS
      <3>2. e \in 1 .. l /\ Ends(b[e]) /\ e <= n
        BY <1>0, <2>3, <3>1
      <3>3. e = 3
        BY <1>3, <3>2
      <3> QED BY <3>1, <3>3
    <2>5. b[3] = Unit(id, 3, FALSE)
      BY <1>3, <2>1
    <2>6. SubSeq(b, 1, 3) = [i \in 1 .. 3 |-> Unit(id, i, FALSE)]
      <3>1. \A i \in 1 .. 3 : i \in 1 .. l /\ i <= n
        BY <2>1
      <3>2. \A i \in 1 .. 3 : b[i] = Unit(id, i, FALSE)
        BY <1>3, <3>1
      <3>3. 3 \in 1 .. Len(b) /\ 1 \in 1 .. Len(b) /\ 3 \in 1 .. 3
        BY <1>2, <2>1
      <3>4. b \in Seq(V) /\ 3 \in 1 .. Len(b) /\ 1 \in 1 .. Len(b)
        BY <1>c, <3>3
      <3>5. \A x \in Seq(V) : Len(x) \in Nat /\ 3 \in 1 .. Len(x) => SubSeq(x, 1, 3) = [i \in 1 .. 3 |-> x[i]]
        <4> SUFFICES ASSUME NEW x \in Seq(V), Len(x) \in Nat, 3 \in 1 .. Len(x)
                     PROVE  SubSeq(x, 1, 3) = [i \in 1 .. 3 |-> x[i]]
          OBVIOUS
        <4>1. 1 \in 1 .. Len(x) /\ 3 \in 1 .. Len(x) /\ 3 - 1 + 1 = 3
          OBVIOUS
        <4>2. SubSeq(x, 1, 3) = [i \in 1 .. 3 - 1 + 1 |-> x[1 + i - 1]]
          BY <4>1, PartIs
        <4>3. \A i \in 1 .. 3 : 1 + i - 1 = i
          OBVIOUS
        <4> QED BY <4>1, <4>2, <4>3
      <3> QED BY <1>2, <3>2, <3>4, <3>5
    <2>7. Parse(b) = id
      BY <2>4, <2>5, <2>6 DEF Parse, Unit
    <2>8. Complete(b) <=> l >= n
      BY <1>0, <1>2, <2>4, <2>7 DEF Complete
    <2>9. ASSUME l >= n PROVE n \in 0 .. l /\ Beyond(b, n) \o w = t
      <3>1. Len(p) <= Len(b) /\ n \in 0 .. l
        BY <1>1, <1>2, <2>9
      <3>2. Beyond(b, Len(p)) \o w = t
        <4>1. /\ b \in Seq(V) /\ w \in Seq(V) /\ p \in Seq(V) /\ t \in Seq(V)
              /\ b \o w = p \o t /\ Len(p) <= Len(b)
          BY ONLY <1>c, <3>1
        <4>2. /\ Upto(b, Len(p)) = p /\ Beyond(b, Len(p)) \o w = t
              /\ \A j \in 1 .. Len(p) : b[j] = p[j]
          BY ONLY <4>1, CutShorter, Zenon
        <4> QED BY ONLY <4>2
      <3> QED BY <1>1, <3>1, <3>2
    <2> QED BY <1>0, <1>2, <2>4, <2>7, <2>8, <2>9
  <1> QED BY <1>4, <1>5

\* There is none in what is not decoded.
LEMMA NoRequest ==
    ASSUME NEW S, NEW b \in Text(S), NEW w \in Text(S), \A i \in 1 .. Len(b \o w) : (b \o w)[i][3]
    PROVE  EndOfMsg(b) = 0 /\ ~Complete(b)
  <1>1. Len(b) \in Nat /\ Len(w) \in Nat /\ Len(b \o w) = Len(b) + Len(w)
    BY TextLen, TextConcat
  <1>2. ASSUME NEW i \in 1 .. Len(b) PROVE ~Ends(b[i])
    <2>1. i \in 1 .. Len(b \o w)
      BY <1>1
    <2>2. (b \o w)[i] = b[i]
      <3>1. PICK V : V = S \X Int \X BOOLEAN
        OBVIOUS
      <3>2. b \in Seq(V) /\ w \in Seq(V)
        BY <3>1 DEF Text
      <3>3. \A j \in 1 .. Len(b) : (b \o w)[j] = b[j]
        BY ONLY <3>2, Joined
      <3> QED BY <3>3
    <2> QED BY <2>1, <2>2 DEF Ends
  <1>3. EndOfMsg(b) = 0
    BY <1>2, EndOfMsgIs
  <1> QED BY <1>3 DEF Complete
-----------------------------------------------------------------------------
(* What a client wrote to a socket s: the requests rs *)

HasPost(rs) == \E i \in DOMAIN rs : rs[i].kind = "POST"
IdsOf(s, rs) == [i \in DOMAIN rs |-> Id(s, i)]
CodedIn(rs, i) == \E j \in 1 .. i - 1 : rs[j].kind = "POST"
UnitsOf(s, rs, i) == IF CodedIn(rs, i) THEN Base64(Id(s, i), rs[i]) ELSE Plain(Id(s, i), rs[i])

\* What follows the first n requests on the socket, and what it says
WiredOf(s, rs) == After([i \in DOMAIN rs |-> UnitsOf(s, rs, i)])
SpelledOf(s, rs) == After([i \in DOMAIN rs |-> Plain(Id(s, i), rs[i])])

LEMMA IdType == Garbage \in RequestIds /\ \A s \in Conns : \A i \in Int : Id(s, i) \in RequestIds
  BY DEF RequestIds, Garbage, Id

LEMMA WiredIs ==
    ASSUME NEW s \in Conns, NEW rs \in Seq(Requests)
    PROVE  /\ WiredOf(s, rs)[Len(rs)] = << >>
           /\ \A n \in 0 .. Len(rs) - 1 : WiredOf(s, rs)[n] = UnitsOf(s, rs, n + 1) \o WiredOf(s, rs)[n + 1]
           /\ \A n \in 0 .. Len(rs) : WiredOf(s, rs)[n] \in Text(RequestIds)
           /\ Written(s, rs) = WiredOf(s, rs)[0]
  <1>0. PICK V : V = RequestIds \X Int \X BOOLEAN
    OBVIOUS
  <1>a. Text(RequestIds) = Seq(V)
    BY <1>0 DEF Text
  <1>1. PICK N \in Nat : N = Len(rs) /\ DOMAIN rs = 1 .. N
    BY LenProperties
  <1>2. PICK ss : ss = [i \in 1 .. N |-> UnitsOf(s, rs, i)]
    OBVIOUS
  <1>3. ASSUME NEW i \in 1 .. N PROVE UnitsOf(s, rs, i) \in Seq(V)
    <2>1. Id(s, i) \in RequestIds
      BY IdType
    <2> QED BY <1>a, <2>1, RequestText DEF UnitsOf
  <1>4. \A T : \A f, n : n \in Nat /\ f \in [1 .. n -> T] => f \in Seq(T) /\ Len(f) = n
    OBVIOUS
  <1>5. ss \in Seq(Seq(V)) /\ Len(ss) = N
    <2>1. ss \in [1 .. N -> Seq(V)]
      BY <1>2, <1>3
    <2> QED BY ONLY <1>4, <2>1, N \in Nat
  <1>6. \A n \in 0 .. N - 1 : ss[n + 1] = UnitsOf(s, rs, n + 1)
    BY <1>2
  <1>7. WiredOf(s, rs) = After(ss)
    BY <1>1, <1>2 DEF WiredOf
  <1>8. /\ After(ss)[N] = << >>
        /\ \A n \in 0 .. N - 1 : After(ss)[n] = ss[n + 1] \o After(ss)[n + 1]
        /\ \A n \in 0 .. N : After(ss)[n] \in Seq(V)
    BY <1>5, AfterIs
  <1>9. Written(s, rs) = FlattenSeq(ss)
    BY <1>1, <1>2 DEF Written, UnitsOf, CodedIn
  <1>10. FlattenSeq(ss) = After(ss)[0]
    BY <1>5, FlattenIsAfter
  <1> HIDE DEF WiredOf
  <1> QED BY <1>a, <1>1, <1>6, <1>7, <1>8, <1>9, <1>10

LEMMA SpelledIs ==
    ASSUME NEW s \in Conns, NEW rs \in Seq(Requests)
    PROVE  /\ SpelledOf(s, rs)[Len(rs)] = << >>
           /\ \A n \in 0 .. Len(rs) - 1 :
                 SpelledOf(s, rs)[n] = Plain(Id(s, n + 1), rs[n + 1]) \o SpelledOf(s, rs)[n + 1]
           /\ \A n \in 0 .. Len(rs) : SpelledOf(s, rs)[n] \in Text(RequestIds)
  <1>0. PICK V : V = RequestIds \X Int \X BOOLEAN
    OBVIOUS
  <1>a. Text(RequestIds) = Seq(V)
    BY <1>0 DEF Text
  <1>1. PICK N \in Nat : N = Len(rs) /\ DOMAIN rs = 1 .. N
    BY LenProperties
  <1>2. PICK ss : ss = [i \in 1 .. N |-> Plain(Id(s, i), rs[i])]
    OBVIOUS
  <1>3. ASSUME NEW i \in 1 .. N PROVE Plain(Id(s, i), rs[i]) \in Seq(V)
    <2>1. Id(s, i) \in RequestIds
      BY IdType
    <2> QED BY <1>a, <2>1, RequestText
  <1>4. \A T : \A f, n : n \in Nat /\ f \in [1 .. n -> T] => f \in Seq(T) /\ Len(f) = n
    OBVIOUS
  <1>5. ss \in Seq(Seq(V)) /\ Len(ss) = N
    <2>1. ss \in [1 .. N -> Seq(V)]
      BY <1>2, <1>3
    <2> QED BY ONLY <1>4, <2>1, N \in Nat
  <1>6. \A n \in 0 .. N - 1 : ss[n + 1] = Plain(Id(s, n + 1), rs[n + 1])
    BY <1>2
  <1>7. SpelledOf(s, rs) = After(ss)
    BY <1>1, <1>2 DEF SpelledOf
  <1>8. /\ After(ss)[N] = << >>
        /\ \A n \in 0 .. N - 1 : After(ss)[n] = ss[n + 1] \o After(ss)[n + 1]
        /\ \A n \in 0 .. N : After(ss)[n] \in Seq(V)
    BY <1>5, AfterIs
  <1> HIDE DEF SpelledOf
  <1> QED BY <1>a, <1>1, <1>6, <1>7, <1>8

\* The first POST
LEMMA UntilIs ==
    ASSUME NEW rs \in Seq(Requests)
    PROVE  /\ UntilOf(rs) \in 0 .. Len(rs) /\ UntilOf(rs) \in Nat
           /\ HasPost(rs) => /\ UntilOf(rs) \in 1 .. Len(rs) /\ rs[UntilOf(rs)].kind = "POST"
                             /\ \A i \in 1 .. Len(rs) : rs[i].kind = "POST" => UntilOf(rs) <= i
           /\ ~HasPost(rs) => UntilOf(rs) = Len(rs)
           /\ \A i \in 1 .. UntilOf(rs) : ~CodedIn(rs, i)
           /\ \A i \in UntilOf(rs) + 1 .. Len(rs) : CodedIn(rs, i)
  <1> DEFINE T == {i \in 1 .. Len(rs) : rs[i].kind = "POST"}
  <1>0. PICK N \in Nat : N = Len(rs) /\ DOMAIN rs = 1 .. N
    BY LenProperties
  <1>1. UntilOf(rs) = IF (IF T # {} THEN Min(T) ELSE 0) = 0 THEN Len(rs) ELSE IF T # {} THEN Min(T) ELSE 0
    BY DEF UntilOf, SelectInSeq
  <1>2. HasPost(rs) <=> T # {}
    BY <1>0 DEF HasPost
  <1>3. CASE T # {}
    <2>0. T \subseteq Nat
      BY <1>0
    <2>1. \E x \in T : \A y \in T : x <= y
      <3> HIDE DEF T
      <3> QED BY <1>3, <2>0, LeastNumber
    <2>2. Min(T) \in T /\ \A y \in T : Min(T) <= y
      BY <2>1 DEF Min
    <2>3. PICK u \in 1 .. N : u = Min(T) /\ UntilOf(rs) = u
      <3>1. Min(T) \in 1 .. N
        BY <1>0, <2>2
      <3> HIDE DEF T
      <3>2. UntilOf(rs) = Min(T)
        <4>1. Min(T) # 0
          BY <3>1
        <4> QED BY <1>1, <1>3, <4>1
      <3> QED BY <3>1, <3>2
    <2>4. rs[u].kind = "POST" /\ \A i \in 1 .. N : rs[i].kind = "POST" => u <= i
      BY <1>0, <2>2, <2>3
    <2>5. \A i \in 1 .. u : ~CodedIn(rs, i)
      <3>1. \A i \in 1 .. u : \A j \in 1 .. i - 1 : j \in 1 .. N /\ ~(u <= j)
        OBVIOUS
      <3> QED BY <2>4, <3>1 DEF CodedIn
    <2>6. \A i \in u + 1 .. N : CodedIn(rs, i)
      <3>1. \A i \in u + 1 .. N : u \in 1 .. i - 1
        OBVIOUS
      <3> QED BY <2>4, <3>1 DEF CodedIn
    <2>7. u \in 0 .. N /\ u \in Nat
      OBVIOUS
    <2> HIDE DEF T
    <2> QED BY <1>0, <1>2, <1>3, <2>3, <2>4, <2>5, <2>6, <2>7
  <1>4. CASE T = {}
    <2>1. UntilOf(rs) = N
      BY <1>0, <1>1, <1>4
    <2>2. \A i \in 1 .. N : ~CodedIn(rs, i)
      <3>1. \A i \in 1 .. N : \A j \in 1 .. i - 1 : j \in 1 .. N
        OBVIOUS
      <3>2. \A j \in 1 .. N : rs[j].kind # "POST"
        BY <1>0, <1>4
      <3> QED BY <3>1, <3>2 DEF CodedIn
    <2>3. N \in 0 .. N /\ \A i \in N + 1 .. N : FALSE
      OBVIOUS
    <2> HIDE DEF T
    <2> QED BY <1>0, <1>2, <1>4, <2>1, <2>2, <2>3
  <1> QED BY <1>3, <1>4

\* What follows a POST is Base64 of what it says.
LEMMA CodedOnly ==
    ASSUME NEW s \in Conns, NEW rs \in Seq(Requests), NEW n \in UntilOf(rs) .. Len(rs)
    PROVE  /\ \A i \in 1 .. Len(WiredOf(s, rs)[n]) : WiredOf(s, rs)[n][i][3]
           /\ Decode(WiredOf(s, rs)[n]) = SpelledOf(s, rs)[n]
           /\ Len(WiredOf(s, rs)[n]) % 4 = 0
  <1>a. PICK N \in Nat : N = Len(rs)
    BY LenProperties
  <1>b. PICK u \in 0 .. N : u = UntilOf(rs)
    BY <1>a, UntilIs
  <1>0. N = Len(rs) /\ u = UntilOf(rs)
    BY <1>a, <1>b
  <1>1. PICK W : W = WiredOf(s, rs)
    OBVIOUS
  <1>2. PICK D : D = SpelledOf(s, rs)
    OBVIOUS
  <1> DEFINE P(i) == /\ \A j \in 1 .. Len(W[i]) : W[i][j][3]
                     /\ Decode(W[i]) = D[i] /\ Len(W[i]) % 4 = 0
             T == {k \in Nat : N - k \in u .. N => P(N - k)}
  <1>3. P(N)
    <2>1. W[N] = << >> /\ D[N] = << >>
      BY <1>0, <1>1, <1>2, WiredIs, SpelledIs
    <2>2. Decode(<< >>) = << >>
      <3>1. Decode(<< >>) \in Text(RequestIds) /\ Len(Decode(<< >>)) = 3 * (Len(<< >>) \div 4)
        BY TextEmpty, IdType, DecodeType
      <3>2. Len(<< >>) = 0 /\ 3 * (0 \div 4) = 0
        OBVIOUS
      <3>3. Len(Decode(<< >>)) = 0
        BY ONLY <3>1, <3>2
      <3> QED BY <3>1, <3>3, EmptySeq DEF Text
    <2>3. Len(<< >>) = 0 /\ 0 % 4 = 0
      OBVIOUS
    <2> QED BY <2>1, <2>2, <2>3
  <1>4. ASSUME NEW i \in u .. N - 1, P(i + 1) PROVE P(i)
    <2>1. i \in 0 .. N - 1 /\ i + 1 \in 0 .. N /\ i + 1 \in u + 1 .. N /\ i + 1 \in Int
      BY <1>0
    <2>2. PICK id : id = Id(s, i + 1)
      OBVIOUS
    <2>3. PICK r : r = rs[i + 1]
      OBVIOUS
    <2>4. /\ W[i] = Base64(id, r) \o W[i + 1] /\ D[i] = Plain(id, r) \o D[i + 1]
          /\ W[i + 1] \in Text(RequestIds)
      <3>1. UnitsOf(s, rs, i + 1) = Base64(id, r)
        BY <1>0, <2>1, <2>2, <2>3, UntilIs DEF UnitsOf
      <3> QED BY <1>0, <1>1, <1>2, <2>1, <2>2, <2>3, <3>1, WiredIs, SpelledIs
    <2>5. id \in RequestIds /\ Garbage \in RequestIds
      BY <2>1, <2>2, IdType
    <2>6. Base64(id, r) \in Text(RequestIds)
      BY <2>5, RequestText
    <2>7. Decode(Base64(id, r)) = Plain(id, r) /\ Len(Base64(id, r)) % 4 = 0
      BY <2>5, DecodeRequest
    <2>8. Decode(W[i]) = D[i]
      <3>1. Decode(Base64(id, r) \o W[i + 1]) = Decode(Base64(id, r)) \o Decode(W[i + 1])
        BY ONLY <2>4, <2>5, <2>6, <2>7, DecodeConcat
      <3>2. Decode(W[i + 1]) = D[i + 1]
        BY <1>4
      <3> QED BY <2>4, <2>7, <3>1, <3>2
    <2>9. PICK m \in {1, 2} : /\ Len(Base64(id, r)) = 4 * m
                              /\ \A j \in 1 .. 4 * m : Base64(id, r)[j] = Unit(id, j, TRUE)
      BY Base64Is
    <2>10. PICK b : b = Base64(id, r)
      OBVIOUS
    <2>11. PICK t : t = W[i + 1]
      OBVIOUS
    <2>12. /\ Len(W[i]) = 4 * m + Len(t) /\ Len(t) \in Nat
           /\ \A j \in 1 .. 4 * m : W[i][j] = Unit(id, j, TRUE)
           /\ \A j \in 1 .. Len(t) : W[i][4 * m + j] = t[j]
      <3>1. PICK V : V = RequestIds \X Int \X BOOLEAN
        OBVIOUS
      <3>2. b \in Seq(V) /\ t \in Seq(V)
        BY <2>4, <2>6, <2>10, <2>11, <3>1 DEF Text
      <3>3. /\ Len(b \o t) = Len(b) + Len(t)
            /\ \A j \in 1 .. Len(b) : (b \o t)[j] = b[j]
            /\ \A j \in 1 .. Len(t) : (b \o t)[Len(b) + j] = t[j]
        BY ONLY <3>2, Joined
      <3>4. Len(t) \in Nat
        BY <3>2, LenProperties
      <3> QED BY <2>4, <2>9, <2>10, <2>11, <3>3, <3>4
    <2>13. Len(W[i]) % 4 = 0
      <3>1. Len(t) % 4 = 0
        BY <1>4, <2>11
      <3> QED BY ONLY <2>9, <2>12, <3>1
    <2>14. ASSUME NEW j \in 1 .. Len(W[i]) PROVE W[i][j][3]
      <3>1. CASE j \in 1 .. 4 * m
        <4>1. W[i][j] = <<id, j, TRUE>>
          BY <2>12, <3>1 DEF Unit
        <4> QED BY <4>1
      <3>2. CASE ~(j \in 1 .. 4 * m)
        <4>1. PICK l : l = j - 4 * m
          OBVIOUS
        <4>2. l \in 1 .. Len(t) /\ j = 4 * m + l
          BY ONLY <2>9, <2>12, <3>2, <4>1, j \in 1 .. Len(W[i])
        <4> QED BY <1>4, <2>11, <2>12, <4>2
      <3> QED BY <3>1, <3>2
    <2> QED BY <2>8, <2>13, <2>14
  <1> HIDE DEF P
  <1>5. 0 \in T
    <2>1. N - 0 = N
      OBVIOUS
    <2> QED BY <1>3, <2>1
  <1>6. ASSUME NEW k \in T PROVE k + 1 \in T
    <2> SUFFICES ASSUME N - (k + 1) \in u .. N PROVE P(N - (k + 1))
      OBVIOUS
    <2>1. k \in Nat /\ (N - k \in u .. N => P(N - k))
      OBVIOUS
    <2>2. PICK i : i = N - (k + 1)
      OBVIOUS
    <2>3. i \in u .. N - 1 /\ i + 1 = N - k /\ N - k \in u .. N
      BY <2>1, <2>2
    <2>4. P(i + 1)
      BY <2>1, <2>3
    <2> QED BY <1>4, <2>2, <2>3, <2>4
  <1> HIDE DEF T
  <1>7. T = Nat
    BY <1>5, <1>6, Induction DEF T
  <1>8. N - n \in T /\ N - (N - n) = n /\ n \in u .. N
    BY <1>0, <1>7
  <1>9. P(n)
    BY <1>8 DEF T
  <1> QED BY <1>1, <1>2, <1>9 DEF P
-----------------------------------------------------------------------------
(* An object and what was written for it *)

TunnelsOf(rs, ss) == \E i \in DOMAIN rs, j \in DOMAIN ss :
    rs[i].kind = "GET" /\ ss[j].kind = "POST" /\ rs[i].cookie = ss[j].cookie

\* The object c, its requests being rs, has handled the first n of them; w is to be read.
PlainAt(c, rs, n, h, o, w) ==
    /\ n \in 0 .. UntilOf(rs) /\ h = SubSeq(IdsOf(c, rs), 1, n)
    /\ o.buf \o w = WiredOf(c, rs)[n] /\ o.rem = 0
    /\ n = UntilOf(rs) /\ HasPost(rs) => ~o.active

\* The object c of a GET gets the requests ss that follow the POST on s, and has
\* handled those up to the m-th.  Of b the last k units are still to be decoded.
TunnelAt(c, rs, s, ss, m, h, b, k, w) ==
    /\ TunnelsOf(rs, ss) /\ Len(rs) = 1
    /\ m \in UntilOf(ss) .. Len(ss)
    /\ h = IdsOf(c, rs) \o SubSeq(IdsOf(s, ss), UntilOf(ss) + 1, m)
    /\ k \in 0 .. Len(b)
    /\ Upto(b, Len(b) - k) \o Decode(Beyond(b, Len(b) - k) \o w) = SpelledOf(s, ss)[m]
    /\ Len(Beyond(b, Len(b) - k) \o w) % 4 = 0

LEMMA TakeMore ==
    ASSUME NEW V, NEW q \in Seq(V), NEW u \in Nat, NEW n \in Nat, u <= n, n + 1 \in 1 .. Len(q)
    PROVE  /\ SubSeq(q, u + 1, n) \in Seq(V) /\ q[n + 1] \in V
           /\ Append(SubSeq(q, u + 1, n), q[n + 1]) = SubSeq(q, u + 1, n + 1)
  <1>1. Len(q) \in Nat /\ u + 1 \in 1 .. Len(q) /\ n + 1 \in u + 1 .. Len(q)
    BY LenProperties
  <1>2. PICK m : m = n + 1
    OBVIOUS
  <1>3. PICK v : v = u + 1
    OBVIOUS
  <1>4. v \in 1 .. Len(q) /\ m \in v .. Len(q) /\ m - 1 = n /\ v \in Int /\ n \in Int
    BY <1>1, <1>2, <1>3
  <1>5. SubSeq(q, v, m) = SubSeq(q, v, m - 1) \o <<q[m]>>
    BY ONLY <1>4, SubSeqRecursiveSecond, q \in Seq(V)
  <1>6. SubSeq(q, v, n) \in Seq(V)
    <2>1. \A i \in v .. n : q[i] \in V
      BY <1>1, <1>4, ElementOfSeq
    <2> QED BY <1>4, <2>1, SubSeqProperties
  <1>7. q[m] \in V
    BY <1>1, <1>2, ElementOfSeq
  <1> QED BY <1>2, <1>3, <1>4, <1>5, <1>6, <1>7, AppendIsConcat

LEMMA IdsIs ==
    ASSUME NEW s \in Conns, NEW rs \in Seq(Requests)
    PROVE  /\ IdsOf(s, rs) \in Seq(RequestIds) /\ Len(IdsOf(s, rs)) = Len(rs)
           /\ \A i \in 1 .. Len(rs) : IdsOf(s, rs)[i] = Id(s, i)
  <1>1. Len(rs) \in Nat /\ DOMAIN rs = 1 .. Len(rs)
    BY LenProperties
  <1>2. \A T : \A f, n : n \in Nat /\ f \in [1 .. n -> T] => f \in Seq(T) /\ Len(f) = n
    OBVIOUS
  <1>3. \A i \in 1 .. Len(rs) : Id(s, i) \in RequestIds
    BY <1>1, IdType
  <1>4. IdsOf(s, rs) = [i \in 1 .. Len(rs) |-> Id(s, i)]
    BY <1>1 DEF IdsOf
  <1>5. IdsOf(s, rs) \in [1 .. Len(rs) -> RequestIds] /\ \A i \in 1 .. Len(rs) : IdsOf(s, rs)[i] = Id(s, i)
    BY <1>3, <1>4
  <1> HIDE DEF IdsOf
  <1> QED BY <1>1, <1>2, <1>5

LEMMA AskIs ==
    ASSUME NEW s \in Conns, NEW n
    PROVE  Ask(Id(s, n)) = sent[s][n]
  BY NoneAssumption DEF Ask, Garbage, Id

\* The request that is complete is the next one.
LEMMA PlainHandles ==
    ASSUME NEW c \in Conns, NEW rs \in Seq(Requests), NEW n, NEW h, NEW o, NEW w \in Text(RequestIds),
           o.buf \in Text(RequestIds), PlainAt(c, rs, n, h, o, w), sent[c] = rs, Complete(o.buf)
    PROVE  /\ n + 1 \in 1 .. UntilOf(rs) /\ n + 1 \in 1 .. Len(rs)
           /\ EndOfMsg(o.buf) = 3 /\ Parse(o.buf) = Id(c, n + 1) /\ Ask(Id(c, n + 1)) = rs[n + 1]
           /\ Beyond(o.buf, SizeOf(rs[n + 1])) \in Text(RequestIds)
           /\ Beyond(o.buf, SizeOf(rs[n + 1])) \o w = WiredOf(c, rs)[n + 1]
           /\ Append(h, Id(c, n + 1)) = SubSeq(IdsOf(c, rs), 1, n + 1)
  <1>a. PICK N \in Nat : N = Len(rs)
    BY LenProperties
  <1>b. PICK u \in 0 .. N : u = UntilOf(rs) /\ u \in Nat
    BY <1>a, UntilIs
  <1>c. PICK b : b = o.buf
    OBVIOUS
  <1>0. /\ n \in 0 .. u /\ n \in Nat /\ n \in 0 .. N /\ b \in Text(RequestIds)
        /\ h = SubSeq(IdsOf(c, rs), 1, n) /\ b \o w = WiredOf(c, rs)[n]
    BY <1>a, <1>b, <1>c DEF PlainAt
  <1>1. n # u
    <2> SUFFICES ASSUME n = u PROVE FALSE
      OBVIOUS
    <2>1. n \in UntilOf(rs) .. Len(rs)
      <3>1. u \in u .. N
        BY ONLY <1>b, u \in 0 .. N, N \in Nat
      <3> QED BY <1>a, <1>b, <3>1
    <2>2. \A i \in 1 .. Len(b \o w) : (b \o w)[i][3]
      <3>1. \A i \in 1 .. Len(WiredOf(c, rs)[n]) : WiredOf(c, rs)[n][i][3]
        BY ONLY <2>1, CodedOnly, c \in Conns, rs \in Seq(Requests)
      <3> QED BY ONLY <1>0, <3>1
    <2> QED BY <1>0, <1>c, <2>2, NoRequest
  <1>2. n + 1 \in 1 .. u /\ n + 1 \in 1 .. N /\ n \in 0 .. N - 1 /\ n + 1 \in 0 .. N /\ n + 1 \in Int
    BY <1>0, <1>1
  <1>3. PICK id : id = Id(c, n + 1)
    OBVIOUS
  <1>4. PICK r : r = rs[n + 1]
    OBVIOUS
  <1>5. PICK t : t = WiredOf(c, rs)[n + 1]
    OBVIOUS
  <1>6. b \o w = Plain(id, r) \o t /\ t \in Text(RequestIds)
    <2>1. UnitsOf(c, rs, n + 1) = Plain(id, r)
      <3>1. ~CodedIn(rs, n + 1)
        BY ONLY <1>b, <1>2, UntilIs, rs \in Seq(Requests)
      <3> QED BY ONLY <1>3, <1>4, <3>1 DEF UnitsOf
    <2>2. n \in 0 .. Len(rs) - 1 /\ n + 1 \in 0 .. Len(rs)
      BY <1>a, <1>2
    <2>3. /\ WiredOf(c, rs)[n] = UnitsOf(c, rs, n + 1) \o WiredOf(c, rs)[n + 1]
          /\ WiredOf(c, rs)[n + 1] \in Text(RequestIds)
      BY ONLY <2>2, WiredIs, c \in Conns, rs \in Seq(Requests)
    <2> QED BY ONLY <1>0, <1>5, <2>1, <2>3
  <1>7. id \in RequestIds /\ Ask(id) = r
    BY <1>2, <1>3, <1>4, IdType, AskIs
  <1>8. Complete(b)
    BY <1>c
  <1>9. /\ EndOfMsg(b) = 3 /\ Parse(b) = id /\ SizeOf(r) \in 0 .. Len(b)
        /\ Beyond(b, SizeOf(r)) \o w = t
    <2>1. Starts(b, w, id, r, t)
      BY <1>6 DEF Starts
    <2>2. Complete(b) => EndOfMsg(b) = 3 /\ Parse(b) = id /\ SizeOf(r) \in 0 .. Len(b) /\ Beyond(b, SizeOf(r)) \o w = t
      BY <1>0, <1>6, <1>7, <2>1, FirstRequest
    <2> QED BY ONLY <1>8, <2>2
  <1>10. Beyond(b, SizeOf(r)) \in Text(RequestIds)
    <2>1. b \in Seq(RequestIds \X Int \X BOOLEAN)
      BY <1>0 DEF Text
    <2> QED BY <1>9, <2>1, Cut DEF Text
  <1>11. Append(h, Id(c, n + 1)) = SubSeq(IdsOf(c, rs), 1, n + 1)
    <2>1. PICK q : q = IdsOf(c, rs)
      OBVIOUS
    <2>2. q \in Seq(RequestIds) /\ Len(q) = N /\ q[n + 1] = Id(c, n + 1)
      BY <1>a, <1>2, <2>1, IdsIs
    <2>3. 0 \in Nat /\ 0 <= n /\ n + 1 \in 1 .. Len(q) /\ 0 + 1 = 1
      BY <1>0, <1>2, <2>2
    <2>4. Append(SubSeq(q, 0 + 1, n), q[n + 1]) = SubSeq(q, 0 + 1, n + 1)
      BY ONLY <1>0, <2>2, <2>3, TakeMore
    <2> QED BY <1>0, <2>1, <2>2, <2>3, <2>4
  <1> QED BY <1>a, <1>b, <1>c, <1>2, <1>3, <1>4, <1>5, <1>7, <1>9, <1>10, <1>11

\* When everything has been read and nothing is complete, everything is handled.
LEMMA PlainEnds ==
    ASSUME NEW c \in Conns, NEW rs \in Seq(Requests), NEW n, NEW h, NEW o,
           o.buf \in Text(RequestIds), PlainAt(c, rs, n, h, o, << >>), sent[c] = rs, ~Complete(o.buf)
    PROVE  n = UntilOf(rs)
  <1> SUFFICES ASSUME n # UntilOf(rs) PROVE FALSE
    OBVIOUS
  <1>a. PICK N \in Nat : N = Len(rs)
    BY LenProperties
  <1>b. PICK u \in 0 .. N : u = UntilOf(rs) /\ u \in Nat
    BY <1>a, UntilIs
  <1>c. PICK b : b = o.buf
    OBVIOUS
  <1>0. n \in 0 .. u /\ n # u /\ b \in Text(RequestIds) /\ b \o << >> = WiredOf(c, rs)[n] /\ ~Complete(b)
    BY <1>b, <1>c DEF PlainAt
  <1>2. n + 1 \in 1 .. u /\ n + 1 \in 1 .. N /\ n \in 0 .. N - 1 /\ n + 1 \in 0 .. N /\ n + 1 \in Int
    BY <1>0
  <1>3. PICK id : id = Id(c, n + 1)
    OBVIOUS
  <1>4. PICK r : r = rs[n + 1]
    OBVIOUS
  <1>5. PICK t : t = WiredOf(c, rs)[n + 1]
    OBVIOUS
  <1>6. b \o << >> = Plain(id, r) \o t /\ t \in Text(RequestIds)
    <2>1. UnitsOf(c, rs, n + 1) = Plain(id, r)
      <3>1. ~CodedIn(rs, n + 1)
        BY ONLY <1>b, <1>2, UntilIs, rs \in Seq(Requests)
      <3> QED BY ONLY <1>3, <1>4, <3>1 DEF UnitsOf
    <2>2. n \in 0 .. Len(rs) - 1 /\ n + 1 \in 0 .. Len(rs)
      BY <1>a, <1>2
    <2>3. /\ WiredOf(c, rs)[n] = UnitsOf(c, rs, n + 1) \o WiredOf(c, rs)[n + 1]
          /\ WiredOf(c, rs)[n + 1] \in Text(RequestIds)
      BY ONLY <2>2, WiredIs, c \in Conns, rs \in Seq(Requests)
    <2> QED BY ONLY <1>0, <1>5, <2>1, <2>3
  <1>7. id \in RequestIds /\ Ask(id) = r
    BY <1>2, <1>3, <1>4, IdType, AskIs
  <1>8. Complete(b) <=> Len(b) >= SizeOf(r)
    <2>1. Starts(b, << >>, id, r, t) /\ << >> \in Text(RequestIds)
      BY <1>6, TextEmpty DEF Starts
    <2> QED BY <1>0, <1>6, <1>7, <2>1, FirstRequest
  <1>9. Len(b) >= SizeOf(r)
    <2>1. Len(b \o << >>) = Len(b) + Len(<< >>) /\ Len(b) \in Nat
      BY <1>0, TextConcat, TextEmpty, TextLen
    <2>2. Len(Plain(id, r) \o t) = SizeOf(r) + Len(t) /\ Len(t) \in Nat
      <3>1. Plain(id, r) \in Text(RequestIds) /\ Len(Plain(id, r)) = SizeOf(r)
        BY <1>7, RequestText, PlainIs DEF SizeOf
      <3>2. Len(Plain(id, r) \o t) = Len(Plain(id, r)) + Len(t)
        BY ONLY <1>6, <3>1, TextConcat
      <3> QED BY <1>6, <3>1, <3>2, TextLen
    <2>3. Len(<< >>) = 0 /\ SizeOf(r) \in Nat
      BY BodySizes DEF SizeOf
    <2> QED BY ONLY <1>6, <2>1, <2>2, <2>3
  <1> QED BY <1>0, <1>8, <1>9

\* The same of what a tunnel's socket says, of which b has been decoded
Spells(b, x, s, ss, m) == b \o x = SpelledOf(s, ss)[m]

LEMMA SpelledHandles ==
    ASSUME NEW s \in Conns, NEW ss \in Seq(Requests), NEW m \in UntilOf(ss) .. Len(ss), NEW b \in Text(RequestIds),
           NEW x \in Text(RequestIds), Spells(b, x, s, ss, m), sent[s] = ss
    PROVE  /\ Complete(b) => /\ m + 1 \in UntilOf(ss) + 1 .. Len(ss)
                             /\ EndOfMsg(b) = 3 /\ Parse(b) = Id(s, m + 1) /\ Ask(Id(s, m + 1)) = ss[m + 1]
                             /\ Beyond(b, SizeOf(ss[m + 1])) \in Text(RequestIds)
                             /\ Spells(Beyond(b, SizeOf(ss[m + 1])), x, s, ss, m + 1)
           /\ ~Complete(b) /\ x = << >> => m = Len(ss)
  <1>a. PICK N \in Nat : N = Len(ss)
    BY LenProperties
  <1>b. PICK u \in 0 .. N : u = UntilOf(ss) /\ u \in Nat
    BY <1>a, UntilIs
  <1>0. m \in u .. N /\ m \in Nat /\ m \in 0 .. N /\ Len(b) \in Nat /\ Len(x) \in Nat
    BY <1>a, <1>b, TextLen
  <1>1. ASSUME m = N PROVE ~Complete(b)
    <2>1. b \o x = << >>
      BY <1>a, <1>1, SpelledIs DEF Spells
    <2>2. Len(b \o x) = Len(b) + Len(x) /\ Len(<< >>) = 0
      BY TextConcat
    <2>3. Len(b) = 0
      BY ONLY <1>0, <2>1, <2>2
    <2>4. EndOfMsg(b) = 0
      <3>1. \A i \in 1 .. Len(b) : FALSE
        BY <2>3
      <3> QED BY <3>1, EndOfMsgIs
    <2> QED BY <2>4 DEF Complete
  <1>2. ASSUME m # N
        PROVE  /\ m + 1 \in u + 1 .. N /\ Ask(Id(s, m + 1)) = ss[m + 1]
               /\ Complete(b) => /\ EndOfMsg(b) = 3 /\ Parse(b) = Id(s, m + 1)
                                 /\ Beyond(b, SizeOf(ss[m + 1])) \in Text(RequestIds)
                                 /\ Spells(Beyond(b, SizeOf(ss[m + 1])), x, s, ss, m + 1)
               /\ x = << >> => Complete(b)
    <2>1. m + 1 \in u + 1 .. N /\ m \in 0 .. N - 1 /\ m + 1 \in 0 .. N /\ m + 1 \in Int
      BY <1>0, <1>2
    <2>2. PICK id : id = Id(s, m + 1)
      OBVIOUS
    <2>3. PICK r : r = ss[m + 1]
      OBVIOUS
    <2>4. PICK t : t = SpelledOf(s, ss)[m + 1]
      OBVIOUS
    <2>5. b \o x = Plain(id, r) \o t /\ t \in Text(RequestIds)
      BY <1>a, <2>1, <2>2, <2>3, <2>4, SpelledIs DEF Spells
    <2>6. id \in RequestIds /\ Ask(id) = r
      BY <2>1, <2>2, <2>3, IdType, AskIs
    <2>7. /\ Complete(b) <=> Len(b) >= SizeOf(r)
          /\ Complete(b) => /\ EndOfMsg(b) = 3 /\ Parse(b) = id /\ SizeOf(r) \in 0 .. Len(b)
                            /\ Beyond(b, SizeOf(r)) \o x = t
      <3>1. Starts(b, x, id, r, t)
        BY <2>5 DEF Starts
      <3>2. Complete(b) <=> Len(b) >= SizeOf(r)
        BY <2>5, <2>6, <3>1, FirstRequest
      <3>3. Complete(b) => /\ EndOfMsg(b) = 3 /\ Parse(b) = id /\ SizeOf(r) \in 0 .. Len(b)
                           /\ Beyond(b, SizeOf(r)) \o x = t
        BY <2>5, <2>6, <3>1, FirstRequest
      <3> QED BY <3>2, <3>3
    <2>8. SizeOf(r) \in 0 .. Len(b) => Beyond(b, SizeOf(r)) \in Text(RequestIds)
      <3>1. b \in Seq(RequestIds \X Int \X BOOLEAN)
        BY DEF Text
      <3> QED BY <3>1, Cut DEF Text
    <2>9. x = << >> => Complete(b)
      <3>1. Len(b \o x) = Len(b) + Len(x)
        BY TextConcat
      <3>2. Len(Plain(id, r) \o t) = SizeOf(r) + Len(t) /\ Len(t) \in Nat
        <4>1. Plain(id, r) \in Text(RequestIds) /\ Len(Plain(id, r)) = SizeOf(r)
          BY <2>6, RequestText, PlainIs DEF SizeOf
        <4>2. Len(Plain(id, r) \o t) = Len(Plain(id, r)) + Len(t)
          BY ONLY <2>5, <4>1, TextConcat
        <4> QED BY <2>5, <4>1, <4>2, TextLen
      <3>3. (x = << >> => Len(x) = 0) /\ SizeOf(r) \in Nat
        BY BodySizes DEF SizeOf
      <3>4. x = << >> => Len(b) >= SizeOf(r)
        BY ONLY <1>0, <2>5, <3>1, <3>2, <3>3
      <3> QED BY <2>7, <3>4
    <2> QED BY <2>1, <2>2, <2>3, <2>4, <2>6, <2>7, <2>8, <2>9 DEF Spells
  <1> QED BY <1>a, <1>b, <1>1, <1>2
-----------------------------------------------------------------------------
(* A tunnel *)

LEMMA CutEnds ==
    ASSUME NEW V, NEW b \in Seq(V)
    PROVE  /\ Upto(b, Len(b)) = b /\ Beyond(b, Len(b)) = << >>
           /\ Upto(b, 0) = << >> /\ Beyond(b, 0) = b
  <1>1. Len(b) \in Nat
    BY LenProperties
  <1>2. Upto(b, Len(b)) = b
    BY SubSeqFull DEF Upto
  <1>3. Beyond(b, Len(b)) = << >>
    <2>1. Len(b) + 1 \in Int /\ Len(b) \in Int /\ Len(b) < Len(b) + 1
      BY <1>1
    <2> QED BY <2>1, SubSeqEmpty DEF Beyond
  <1>4. Upto(b, 0) = << >>
    <2>1. 1 \in Int /\ 0 \in Int /\ 0 < 1
      OBVIOUS
    <2> QED BY <2>1, SubSeqEmpty DEF Upto
  <1>5. Beyond(b, 0) = b
    <2>1. 0 + 1 = 1
      OBVIOUS
    <2> QED BY <2>1, SubSeqFull DEF Beyond
  <1> QED BY <1>2, <1>3, <1>4, <1>5

\* All of b decoded, the text in front of what is to be read
TunnelText(c, rs, s, ss, m, h, b, w) ==
    /\ TunnelsOf(rs, ss) /\ Len(rs) = 1
    /\ m \in UntilOf(ss) .. Len(ss)
    /\ h = IdsOf(c, rs) \o SubSeq(IdsOf(s, ss), UntilOf(ss) + 1, m)
    /\ Spells(b, Decode(w), s, ss, m)
    /\ Len(w) % 4 = 0

LEMMA TunnelDecoded ==
    ASSUME NEW c, NEW rs, NEW s, NEW ss, NEW m, NEW h, NEW b \in Text(RequestIds), NEW w \in Text(RequestIds)
    PROVE  TunnelAt(c, rs, s, ss, m, h, b, 0, w) <=> TunnelText(c, rs, s, ss, m, h, b, w)
  <1>1. PICK V : V = RequestIds \X Int \X BOOLEAN
    OBVIOUS
  <1>2. b \in Seq(V) /\ w \in Seq(V) /\ Len(b) \in Nat
    BY <1>1, TextLen DEF Text
  <1>3. Len(b) - 0 = Len(b) /\ 0 \in 0 .. Len(b)
    BY <1>2
  <1>4. Upto(b, Len(b)) = b /\ Beyond(b, Len(b)) = << >>
    BY <1>2, CutEnds
  <1>5. << >> \o w = w
    BY <1>2, ConcatEmptySeq
  <1> QED BY <1>3, <1>4, <1>5 DEF TunnelAt, TunnelText, Spells

LEMMA TunnelStarts ==
    ASSUME NEW c \in Conns, NEW rs \in Seq(Requests), NEW s \in Conns, NEW ss \in Seq(Requests),
           NEW b \in Text(RequestIds), NEW w \in Text(RequestIds),
           TunnelsOf(rs, ss), Len(rs) = 1, b \o w = WiredOf(s, ss)[UntilOf(ss)]
    PROVE  TunnelAt(c, rs, s, ss, UntilOf(ss), IdsOf(c, rs), b, Len(b), w)
  <1>1. PICK V : V = RequestIds \X Int \X BOOLEAN
    OBVIOUS
  <1>2. b \in Seq(V) /\ w \in Seq(V) /\ Len(b) \in Nat /\ Len(ss) \in Nat
    BY <1>1, TextLen, LenProperties DEF Text
  <1>3. PICK u : u = UntilOf(ss)
    OBVIOUS
  <1>4. u \in 0 .. Len(ss) /\ u \in Nat
    BY <1>3, UntilIs
  <1>5. u \in u .. Len(ss)
    BY ONLY <1>2, <1>4
  <1>6. Decode(b \o w) = SpelledOf(s, ss)[u] /\ Len(b \o w) % 4 = 0
    <2>1. \A n \in UntilOf(ss) .. Len(ss) :
              Decode(WiredOf(s, ss)[n]) = SpelledOf(s, ss)[n] /\ Len(WiredOf(s, ss)[n]) % 4 = 0
      <3> TAKE n \in UntilOf(ss) .. Len(ss)
      <3>1. Decode(WiredOf(s, ss)[n]) = SpelledOf(s, ss)[n]
        BY ONLY CodedOnly, s \in Conns, ss \in Seq(Requests), n \in UntilOf(ss) .. Len(ss)
      <3>2. Len(WiredOf(s, ss)[n]) % 4 = 0
        BY ONLY CodedOnly, s \in Conns, ss \in Seq(Requests), n \in UntilOf(ss) .. Len(ss)
      <3> QED BY <3>1, <3>2
    <2>2. b \o w = WiredOf(s, ss)[u] /\ u \in UntilOf(ss) .. Len(ss)
      BY <1>3, <1>5
    <2> QED BY ONLY <2>1, <2>2
  <1>7. Len(b) - Len(b) = 0 /\ Len(b) \in 0 .. Len(b)
    BY <1>2
  <1>8. Upto(b, 0) = << >> /\ Beyond(b, 0) = b
    BY <1>2, CutEnds
  <1>9. << >> \o Decode(b \o w) = Decode(b \o w)
    <2>1. b \o w \in Text(RequestIds)
      BY TextConcat
    <2>2. Decode(b \o w) \in Seq(V)
      BY <1>1, <2>1, IdType, DecodeType DEF Text
    <2> QED BY <2>2, ConcatEmptySeq
  <1>10. IdsOf(c, rs) \o SubSeq(IdsOf(s, ss), u + 1, u) = IdsOf(c, rs)
    <2>1. SubSeq(IdsOf(s, ss), u + 1, u) = << >>
      <3>1. u + 1 \in Int /\ u \in Int /\ u < u + 1
        BY <1>4
      <3> QED BY <3>1, SubSeqEmpty
    <2>2. IdsOf(c, rs) \in Seq(RequestIds)
      BY IdsIs
    <2> QED BY <2>1, <2>2, ConcatEmptySeq
  <1> QED BY <1>3, <1>5, <1>6, <1>7, <1>8, <1>9, <1>10 DEF TunnelAt

\* More is read.
LEMMA TunnelReceives ==
    ASSUME NEW c, NEW rs, NEW s, NEW ss, NEW m, NEW h, NEW b \in Text(RequestIds), NEW w \in Text(RequestIds),
           NEW k, TunnelAt(c, rs, s, ss, m, h, b, k, w), NEW n \in 0 .. Len(w)
    PROVE  TunnelAt(c, rs, s, ss, m, h, b \o Upto(w, n), k + n, Beyond(w, n))
  <1>1. PICK V : V = RequestIds \X Int \X BOOLEAN
    OBVIOUS
  <1>2. b \in Seq(V) /\ w \in Seq(V) /\ Len(b) \in Nat /\ Len(w) \in Nat
    BY <1>1, TextLen DEF Text
  <1>3. PICK f : f = Len(b) - k
    OBVIOUS
  <1>4. k \in 0 .. Len(b) /\ f \in 0 .. Len(b) /\ f \in Nat
    BY <1>2, <1>3 DEF TunnelAt
  <1>5. PICK x : x = Upto(w, n)
    OBVIOUS
  <1>6. PICK y : y = Beyond(w, n)
    OBVIOUS
  <1>7. x \in Seq(V) /\ Len(x) = n /\ y \in Seq(V) /\ x \o y = w
    <2>1. /\ Upto(w, n) \in Seq(V) /\ Len(Upto(w, n)) = n /\ Beyond(w, n) \in Seq(V)
          /\ Upto(w, n) \o Beyond(w, n) = w
      BY <1>2, Cut
    <2> QED BY <1>5, <1>6, <2>1
  <1>8. PICK a : a = Upto(b, f)
    OBVIOUS
  <1>9. PICK d : d = Beyond(b, f)
    OBVIOUS
  <1>10. a \in Seq(V) /\ Len(a) = f /\ d \in Seq(V) /\ a \o d = b
    <2>1. /\ Upto(b, f) \in Seq(V) /\ Len(Upto(b, f)) = f /\ Beyond(b, f) \in Seq(V)
          /\ Upto(b, f) \o Beyond(b, f) = b
      BY <1>2, <1>4, Cut
    <2> QED BY <1>8, <1>9, <2>1
  <1>11. \A p, q, r \in Seq(V) : (p \o q) \o r = p \o (q \o r)
    <2>1. Associates(Seq(V))
      BY ONLY ConcatThrice
    <2> QED BY ONLY <2>1 DEF Associates
  <1>12. d \o x \in Seq(V) /\ b \o x = a \o (d \o x)
    BY <1>7, <1>10, <1>11, ConcatProperties
  <1>13. Upto(b \o x, f) = a /\ Beyond(b \o x, f) = d \o x
    <2>1. PICK e : e = d \o x
      OBVIOUS
    <2>2. a \in Seq(V) /\ e \in Seq(V)
      BY <1>10, <1>12, <2>1
    <2>3. Upto(a \o e, Len(a)) = a /\ Beyond(a \o e, Len(a)) = e
      BY ONLY <2>2, Joined
    <2> QED BY ONLY <1>10, <1>12, <2>1, <2>3
  <1>14. (d \o x) \o y = d \o w
    BY <1>7, <1>10, <1>11
  <1>15. Len(b \o x) = Len(b) + n
    BY <1>2, <1>7, ConcatProperties
  <1>16. Len(b \o x) - (k + n) = f /\ k + n \in 0 .. Len(b \o x)
    BY ONLY <1>2, <1>3, <1>4, <1>15, n \in 0 .. Len(w)
  <1> QED BY <1>3, <1>5, <1>6, <1>8, <1>9, <1>13, <1>14, <1>16 DEF TunnelAt

\* What is there of it is decoded, in groups of four.
LEMMA TunnelScans ==
    ASSUME NEW c, NEW rs, NEW s, NEW ss, NEW m, NEW h, NEW b \in Text(RequestIds), NEW w \in Text(RequestIds),
           NEW x, conn[x].buf = b, conn[x].rem \in Nat, NEW new \in Nat,
           TunnelAt(c, rs, s, ss, m, h, b, conn[x].rem + new, w)
    PROVE  TunnelAt(c, rs, s, ss, m, h, DecodeInPlace(x, new), Remainder(x, new), w)
  <1>1. PICK V : V = RequestIds \X Int \X BOOLEAN
    OBVIOUS
  <1>t. \A e : e \in Text(RequestIds) <=> e \in Seq(V)
    BY <1>1 DEF Text
  <1>2. b \in Seq(V) /\ w \in Seq(V) /\ Len(b) \in Nat /\ Len(w) \in Nat
    BY <1>t, TextLen
  <1>3. PICK k \in Nat : k = conn[x].rem + new
    OBVIOUS
  <1>4. PICK l \in Nat : l = Len(b)
    BY <1>2
  <1>5. k <= l
    BY <1>3, <1>4 DEF TunnelAt
  <1>6. PICK r \in 0 .. 3 : r = k % 4 /\ r <= k /\ k - r = 4 * (k \div 4)
    <2>1. k % 4 \in 0 .. 3 /\ k % 4 <= k /\ k - (k % 4) = 4 * (k \div 4)
      OBVIOUS
    <2> QED BY <2>1
  <1>q. PICK q \in Nat : k - r = 4 * q
    <2>1. k \div 4 \in Nat
      OBVIOUS
    <2> QED BY <1>6, <2>1
  <1>7. r = Remainder(x, new)
    BY <1>3, <1>6 DEF Remainder
  <1>8. PICK f \in Nat : f = l - k
    BY <1>5
  <1>9. PICK e \in Nat : e = l - r
    BY <1>5, <1>6, <1>7
  <1>10. f \in 0 .. l /\ e \in f .. l /\ e - f = 4 * q /\ l - e = r
    <2>1. r \in Nat /\ r <= k /\ k - r = 4 * q
      BY ONLY <1>6, <1>q, r \in 0 .. 3
    <2>2. \A k1, l1, r1 \in Nat : k1 <= l1 /\ r1 <= k1 =>
              /\ l1 - k1 \in 0 .. l1 /\ l1 - r1 \in l1 - k1 .. l1
              /\ (l1 - r1) - (l1 - k1) = k1 - r1 /\ l1 - (l1 - r1) = r1
      OBVIOUS
    <2> QED BY <1>5, <1>8, <1>9, <2>1, <2>2
  <1>11. PICK A : A = Upto(b, f)
    OBVIOUS
  <1>12. PICK G : G = SubSeq(b, f + 1, e)
    OBVIOUS
  <1>13. PICK T : T = Beyond(b, e)
    OBVIOUS
  <1>14. A \in Seq(V) /\ Beyond(b, f) \in Seq(V)
    BY <1>2, <1>4, <1>10, <1>11, Cut
  <1>15. T \in Seq(V) /\ Len(T) = r
    <2>1. e \in 0 .. Len(b)
      BY <1>4, <1>10
    <2>2. Beyond(b, e) \in Seq(V) /\ Len(Beyond(b, e)) = Len(b) - e
      BY <1>2, <2>1, Cut
    <2> QED BY <1>4, <1>10, <1>13, <2>2
  <1>16. G \in Seq(V) /\ Len(G) = 4 * q
    <2>1. f + 1 \in Int /\ e \in Int /\ 1 <= f + 1 /\ e <= Len(b)
      BY <1>4, <1>10
    <2>2. G \in Text(RequestIds) /\ Len(G) = IF f + 1 <= e THEN e - (f + 1) + 1 ELSE 0
      BY <1>12, <2>1, TextPart
    <2>3. (IF f + 1 <= e THEN e - (f + 1) + 1 ELSE 0) = 4 * q
      BY <1>10
    <2> QED BY <1>t, <2>2, <2>3
  <1>17. Beyond(b, f) = G \o T
    <2>1. PICK v : v = f + 1
      OBVIOUS
    <2>2. v \in 1 .. Len(b) + 1 /\ e \in v - 1 .. Len(b) /\ Len(b) \in e .. Len(b)
      BY <1>4, <1>10, <2>1
    <2>3. SubSeq(b, v, e) \o SubSeq(b, e + 1, Len(b)) = SubSeq(b, v, Len(b))
      BY <1>2, <2>2, ConcatAdjacentSubSeq
    <2> QED BY <1>12, <1>13, <2>1, <2>3 DEF Beyond
  <1>18. PICK D : D = Decode(G)
    OBVIOUS
  <1>19. D \in Seq(V)
    BY <1>t, <1>16, <1>18, IdType, DecodeType
  <1>20. \A y1, y2, y3 \in Seq(V) : (y1 \o y2) \o y3 = y1 \o (y2 \o y3)
    <2>1. Associates(Seq(V))
      BY ONLY ConcatThrice
    <2> QED BY ONLY <2>1 DEF Associates
  <1>21. \A y1, y2 \in Seq(V) : y1 \o y2 \in Seq(V) /\ Len(y1 \o y2) = Len(y1) + Len(y2)
    BY ConcatProperties
  <1>22. DecodeInPlace(x, new) = (A \o D) \o T
    <2>1. Len(b) - new - conn[x].rem = f /\ Len(b) - Remainder(x, new) = e
      <3>1. \A n1, n2, n3 \in Nat : n1 - n2 - n3 = n1 - (n3 + n2)
        OBVIOUS
      <3>2. Len(b) - new - conn[x].rem = l - k
        BY <1>3, <1>4, <3>1
      <3> QED BY ONLY <1>4, <1>7, <1>8, <1>9, <3>2
    <2> QED BY <1>11, <1>12, <1>13, <1>18, <2>1 DEF DecodeInPlace, Upto, Beyond
  <1>23. PICK y : y = A \o D
    OBVIOUS
  <1>24. y \in Seq(V) /\ Len(y) \in Nat
    BY <1>14, <1>19, <1>21, <1>23, LenProperties
  <1>25. Upto(y \o T, Len(y)) = y /\ Beyond(y \o T, Len(y)) = T /\ Len(y \o T) = Len(y) + r
    BY <1>15, <1>21, <1>24, Joined
  <1>26. Len(y \o T) - r = Len(y) /\ r \in 0 .. Len(y \o T)
    BY <1>24, <1>25
  <1>27. A \o Decode(Beyond(b, f) \o w) = SpelledOf(s, ss)[m] /\ Len(Beyond(b, f) \o w) % 4 = 0
    BY <1>3, <1>4, <1>8, <1>11 DEF TunnelAt
  <1>28. PICK z : z = T \o w
    OBVIOUS
  <1>29. z \in Seq(V) /\ Beyond(b, f) \o w = G \o z
    <2>1. T \o w \in Seq(V) /\ (G \o T) \o w = G \o (T \o w)
      <3>1. G \in Seq(V) /\ T \in Seq(V) /\ w \in Seq(V)
        BY ONLY <1>2, <1>15, <1>16
      <3>2. T \o w \in Seq(V)
        BY ONLY <1>21, <3>1
      <3>3. (G \o T) \o w = G \o (T \o w)
        BY ONLY <1>20, <3>1, Zenon
      <3> QED BY ONLY <3>2, <3>3
    <2> QED BY <1>17, <1>28, <2>1
  <1>30. Decode(G \o z) = D \o Decode(z)
    <2>1. G \in Text(RequestIds) /\ z \in Text(RequestIds) /\ Garbage \in RequestIds
      BY <1>t, <1>16, <1>29, IdType
    <2>2. Len(G) % 4 = 0
      BY <1>16
    <2>3. Decode(G \o z) = Decode(G) \o Decode(z)
      BY ONLY <2>1, <2>2, DecodeConcat
    <2> QED BY <1>18, <2>3
  <1>31. y \o Decode(z) = SpelledOf(s, ss)[m]
    <2>1. Decode(z) \in Seq(V)
      BY <1>t, <1>29, IdType, DecodeType
    <2>2. (A \o D) \o Decode(z) = A \o (D \o Decode(z))
      <3>1. PICK e1 : e1 = Decode(z)
        OBVIOUS
      <3>2. A \in Seq(V) /\ D \in Seq(V) /\ e1 \in Seq(V)
        BY ONLY <1>14, <1>19, <2>1, <3>1
      <3>3. (A \o D) \o e1 = A \o (D \o e1)
        BY ONLY <1>20, <3>2, Zenon
      <3> QED BY ONLY <3>1, <3>3
    <2> QED BY <1>23, <1>27, <1>29, <1>30, <2>2
  <1>32. Len(z) % 4 = 0
    <2>1. Len(G \o z) = 4 * q + Len(z) /\ Len(z) \in Nat
      BY <1>16, <1>21, <1>29, LenProperties
    <2>2. Len(G \o z) % 4 = 0
      BY <1>27, <1>29
    <2> QED BY ONLY <2>1, <2>2, q \in Nat
  <1> QED BY <1>7, <1>22, <1>23, <1>25, <1>26, <1>28, <1>31, <1>32 DEF TunnelAt

\* The request that is complete is the next one.
LEMMA TunnelHandles ==
    ASSUME NEW c \in Conns, NEW rs \in Seq(Requests), NEW s \in Conns, NEW ss \in Seq(Requests), NEW m, NEW h,
           NEW b \in Text(RequestIds), NEW w \in Text(RequestIds),
           TunnelAt(c, rs, s, ss, m, h, b, 0, w), sent[s] = ss, Complete(b)
    PROVE  /\ m + 1 \in UntilOf(ss) + 1 .. Len(ss)
           /\ EndOfMsg(b) = 3 /\ Parse(b) = Id(s, m + 1) /\ Ask(Id(s, m + 1)) = ss[m + 1]
           /\ TunnelAt(c, rs, s, ss, m + 1, Append(h, Id(s, m + 1)), Beyond(b, SizeOf(ss[m + 1])), 0, w)
  <1>1. /\ TunnelsOf(rs, ss) /\ Len(rs) = 1
        /\ m \in UntilOf(ss) .. Len(ss)
        /\ h = IdsOf(c, rs) \o SubSeq(IdsOf(s, ss), UntilOf(ss) + 1, m)
        /\ Spells(b, Decode(w), s, ss, m)
        /\ Len(w) % 4 = 0
    <2>1. TunnelText(c, rs, s, ss, m, h, b, w)
      BY TunnelDecoded
    <2> QED BY <2>1 DEF TunnelText
  <1>2. Decode(w) \in Text(RequestIds)
    BY IdType, DecodeType
  <1>3. /\ m + 1 \in UntilOf(ss) + 1 .. Len(ss)
        /\ EndOfMsg(b) = 3 /\ Parse(b) = Id(s, m + 1) /\ Ask(Id(s, m + 1)) = ss[m + 1]
        /\ Beyond(b, SizeOf(ss[m + 1])) \in Text(RequestIds)
        /\ Spells(Beyond(b, SizeOf(ss[m + 1])), Decode(w), s, ss, m + 1)
    BY <1>1, <1>2, SpelledHandles
  <1>4. PICK u \in Nat : u = UntilOf(ss)
    BY UntilIs
  <1>5. m + 1 \in u .. Len(ss) /\ u <= m /\ m \in Nat /\ m + 1 \in 1 .. Len(ss) /\ Len(ss) \in Nat
    BY <1>1, <1>3, <1>4, LenProperties
  <1>6. Append(h, Id(s, m + 1)) = IdsOf(c, rs) \o SubSeq(IdsOf(s, ss), u + 1, m + 1)
    <2>1. PICK q : q = IdsOf(s, ss)
      OBVIOUS
    <2>2. PICK p : p = IdsOf(c, rs)
      OBVIOUS
    <2>3. q \in Seq(RequestIds) /\ Len(q) = Len(ss) /\ q[m + 1] = Id(s, m + 1) /\ p \in Seq(RequestIds)
      BY <1>5, <2>1, <2>2, IdsIs
    <2>4. m + 1 \in 1 .. Len(q)
      BY <1>5, <2>3
    <2>5. /\ SubSeq(q, u + 1, m) \in Seq(RequestIds) /\ q[m + 1] \in RequestIds
          /\ Append(SubSeq(q, u + 1, m), q[m + 1]) = SubSeq(q, u + 1, m + 1)
      BY <1>5, <2>3, <2>4, TakeMore
    <2>6. PICK v : v = SubSeq(q, u + 1, m)
      OBVIOUS
    <2>7. PICK i : i = q[m + 1]
      OBVIOUS
    <2>8. v \in Seq(RequestIds) /\ i \in RequestIds /\ Append(v, i) = SubSeq(q, u + 1, m + 1)
      BY <2>5, <2>6, <2>7
    <2>9. Append(p \o v, i) = p \o Append(v, i)
      <3>1. p \o v \in Seq(RequestIds) /\ <<i>> \in Seq(RequestIds)
        BY <2>3, <2>8, ConcatProperties
      <3>2. Append(p \o v, i) = (p \o v) \o <<i>> /\ Append(v, i) = v \o <<i>>
        BY ONLY <2>8, <3>1, AppendIsConcat
      <3>3. \A y1, y2, y3 \in Seq(RequestIds) : (y1 \o y2) \o y3 = y1 \o (y2 \o y3)
        <4>1. Associates(Seq(RequestIds))
          BY ONLY ConcatThrice
        <4> QED BY ONLY <4>1 DEF Associates
      <3>4. (p \o v) \o <<i>> = p \o (v \o <<i>>)
        BY <2>3, <2>8, <3>1, <3>3
      <3> QED BY <3>2, <3>4
    <2> QED BY <1>1, <1>4, <2>1, <2>2, <2>3, <2>6, <2>7, <2>8, <2>9
  <1>7. TunnelAt(c, rs, s, ss, m + 1, Append(h, Id(s, m + 1)), Beyond(b, SizeOf(ss[m + 1])), 0, w)
    <2>1. PICK d : d = Beyond(b, SizeOf(ss[m + 1]))
      OBVIOUS
    <2>2. d \in Text(RequestIds) /\ Spells(d, Decode(w), s, ss, m + 1)
      BY <1>3, <2>1
    <2>3. PICK e : e = Append(h, Id(s, m + 1))
      OBVIOUS
    <2>4. TunnelText(c, rs, s, ss, m + 1, e, d, w)
      BY ONLY <1>1, <1>4, <1>5, <1>6, <2>2, <2>3 DEF TunnelText
    <2>5. TunnelAt(c, rs, s, ss, m + 1, e, d, 0, w)
      BY ONLY <2>2, <2>4, TunnelDecoded, w \in Text(RequestIds)
    <2> QED BY ONLY <2>1, <2>3, <2>5
  <1> QED BY <1>3, <1>7

\* When everything has been read and nothing is complete, everything is handled.
LEMMA TunnelEnds ==
    ASSUME NEW c \in Conns, NEW rs \in Seq(Requests), NEW s \in Conns, NEW ss \in Seq(Requests), NEW m, NEW h,
           NEW b \in Text(RequestIds), NEW k \in 0 .. 3,
           TunnelAt(c, rs, s, ss, m, h, b, k, << >>), sent[s] = ss, k = 0 => ~Complete(b)
    PROVE  m = Len(ss)
  <1>1. PICK V : V = RequestIds \X Int \X BOOLEAN
    OBVIOUS
  <1>2. b \in Seq(V) /\ Len(b) \in Nat /\ << >> \in Text(RequestIds) /\ << >> \in Seq(V) /\ Len(<< >>) = 0
    BY <1>1, TextLen, TextEmpty DEF Text
  <1>3. k \in 0 .. Len(b) /\ Len(Beyond(b, Len(b) - k) \o << >>) % 4 = 0
    BY DEF TunnelAt
  <1>4. k = 0
    <2>1. PICK f : f = Len(b) - k
      OBVIOUS
    <2>2. f \in 0 .. Len(b) /\ Len(b) - f = k
      BY <1>2, <1>3, <2>1
    <2>3. Beyond(b, f) \in Seq(V) /\ Len(Beyond(b, f)) = k
      BY <1>2, <2>2, Cut
    <2>4. Beyond(b, f) \o << >> = Beyond(b, f)
      BY <2>3, ConcatEmptySeq
    <2>5. k % 4 = 0
      BY <1>3, <2>1, <2>3, <2>4
    <2>6. \A i \in 0 .. 3 : i % 4 = 0 => i = 0
      OBVIOUS
    <2> QED BY ONLY <2>5, <2>6, k \in 0 .. 3
  <1>5. m \in UntilOf(ss) .. Len(ss) /\ Spells(b, Decode(<< >>), s, ss, m)
    BY <1>2, <1>4, TunnelDecoded DEF TunnelText
  <1>6. Decode(<< >>) \in Text(RequestIds) /\ Decode(<< >>) = << >>
    <2>1. Decode(<< >>) \in Text(RequestIds) /\ Len(Decode(<< >>)) = 3 * (Len(<< >>) \div 4)
      BY <1>2, IdType, DecodeType
    <2>2. 3 * (0 \div 4) = 0
      OBVIOUS
    <2>3. Len(Decode(<< >>)) = 0
      BY ONLY <1>2, <2>1, <2>2
    <2> QED BY <2>1, <2>3, EmptySeq DEF Text
  <1> QED BY <1>2, <1>4, <1>5, <1>6, SpelledHandles
-----------------------------------------------------------------------------
(* What is answered and what waits *)

\* Ask() and Complete() of what clients have sent, q
AskIn(q, id) == IF id = Garbage THEN NotOne ELSE q[id.on][id.n]
CompleteIn(q, b) == EndOfMsg(b) # 0 /\ Len(b) >= EndOfMsg(b) + BodySize(AskIn(q, Parse(b)))

\* In front of b is a POST of a GET that there is.
AwaitsIn(q, tab, objects, b) ==
    /\ EndOfMsg(b) # 0 /\ AskIn(q, Parse(b)).kind = "POST" /\ AskIn(q, Parse(b)).cookie \in Cookies
    /\ tab[AskIn(q, Parse(b)).cookie] # None
    /\ objects[tab[AskIn(q, Parse(b)).cookie]].obj = "live"

Handling == stack # << >> /\ Top.pc \in {"bytes", "request"}

\* The answers to what each object has handled, but those to a POST that got through
RepliedInv ==
    /\ replies \in [Conns -> Seq([to : RequestIds, status : Statuses])]
    /\ \A c \in Conns : \A i \in 1 .. Len(replies[c]) :
          /\ i <= Len(handled[c])
          /\ replies[c][i].to = handled[c][i] \/ AskIn(sent, handled[c][i]).kind = "SETUP"
    /\ \A c \in Conns : Holds(c) /\ ~Ending(c) => Len(replies[c]) = Len(handled[c])

\* An object whose POST is under way still has it in its buffer, and would handle it again.
WaitInv ==
    /\ Handling => \A c \in Posting :
          /\ AwaitsIn(sent, table, conn, conn[c].buf) /\ conn[c].rem = 0
          /\ Top.c = c /\ Top.pc = "bytes" => EndOfMsg(conn[c].buf) + Top.new <= Len(conn[c].buf)
    /\ stack # << >> /\ Top.pc = "request" => conn[Top.c].rem = 0

\* An object that is not called is active and has no request to handle.
StillInv ==
    /\ \A c \in Conns : Live(c) /\ c \notin Posting /\ ~(stack # << >> /\ Top.c = c) =>
          conn[c].active /\ (conn[c].rem = 0 => ~CompleteIn(sent, conn[c].buf))
    /\ stack # << >> /\ Top.pc = "leave" /\ conn[Top.c].active /\ conn[Top.c].rem = 0 =>
          ~CompleteIn(sent, conn[Top.c].buf)

\* Nothing is written to a socket before it is accepted.
UnusedInv == \A s \in Conns : sock[s] = "none" => sent[s] = << >> /\ wire[s] = << >>

Kept == RepliedInv /\ WaitInv /\ StillInv /\ UnusedInv

LEMMA AskInIs ==
    /\ \A id : Ask(id) = AskIn(sent, id)
    /\ \A b : Complete(b) <=> CompleteIn(sent, b)
  BY DEF Ask, AskIn, Complete, CompleteIn

LEMMA InitKept == Init => Kept
  <1> SUFFICES ASSUME Init PROVE Kept
    OBVIOUS
  <1>1. /\ stack = << >> /\ conn = [c \in Conns |-> NoObject] /\ replies = [c \in Conns |-> << >>]
        /\ sent = [c \in Conns |-> << >>] /\ wire = [c \in Conns |-> << >>]
        /\ handled = [c \in Conns |-> << >>]
    BY DEF Init
  <1>2. \A c \in Conns : ~Live(c)
    BY <1>1 DEF Live, NoObject, NewObject
  <1>3. Len(<< >>) = 0 /\ << >> \in Seq([to : RequestIds, status : Statuses])
    OBVIOUS
  <1>4. RepliedInv
    <2>1. replies \in [Conns -> Seq([to : RequestIds, status : Statuses])]
      BY <1>1, <1>3
    <2>2. \A c \in Conns : Len(replies[c]) = 0 /\ Len(handled[c]) = 0 /\ \A i \in 1 .. Len(replies[c]) : FALSE
      BY <1>1, <1>3
    <2> QED BY <2>1, <2>2 DEF RepliedInv
  <1>5. WaitInv
    BY <1>1 DEF WaitInv, Handling
  <1>6. StillInv
    BY <1>1, <1>2 DEF StillInv
  <1>7. UnusedInv
    BY <1>1 DEF UnusedInv
  <1> QED BY <1>4, <1>5, <1>6, <1>7 DEF Kept

\* Nothing but what is not said of happens.
LEMMA IdleKept ==
    ASSUME Kept, UNCHANGED <<conn, sock, table, stack, handled, replies, sent, wire>>
    PROVE  Kept'
  <1>1. \A c \in Conns : (Holds(c)' <=> Holds(c)) /\ (Ending(c)' <=> Ending(c)) /\ (Live(c)' <=> Live(c))
    BY DEF Holds, Ending, Live, Posting, Top
  <1>2. Posting' = Posting /\ Top' = Top /\ (Handling' <=> Handling)
    BY DEF Posting, Top, Handling
  <1>3. RepliedInv'
    BY <1>1 DEF Kept, RepliedInv
  <1>4. WaitInv'
    BY <1>2 DEF Kept, WaitInv
  <1>5. StillInv'
    BY <1>1, <1>2 DEF Kept, StillInv
  <1>6. UnusedInv'
    BY DEF Kept, UnusedInv
  <1> QED BY <1>3, <1>4, <1>5, <1>6 DEF Kept

\* StackTop and StackPosting of any stack
LEMMA StackTops ==
    \A st : Nested(st) /\ st # << >> =>
        /\ \A f \in Frames : /\ Nested([st EXCEPT ![Len(st)] = f]) /\ [st EXCEPT ![Len(st)] = f] # << >>
                             /\ Last([st EXCEPT ![Len(st)] = f]) = f
                             /\ OuterOf([st EXCEPT ![Len(st)] = f]) = OuterOf(st)
        /\ OuterOf(st) \subseteq Conns
        /\ Last(st).pc # "posted" => PostingOf(st) = OuterOf(st)
  <1> SUFFICES ASSUME NEW st, Nested(st), st # << >>
               PROVE  /\ \A f \in Frames : /\ Nested([st EXCEPT ![Len(st)] = f]) /\ [st EXCEPT ![Len(st)] = f] # << >>
                                           /\ Last([st EXCEPT ![Len(st)] = f]) = f
                                           /\ OuterOf([st EXCEPT ![Len(st)] = f]) = OuterOf(st)
                      /\ OuterOf(st) \subseteq Conns
                      /\ Last(st).pc # "posted" => PostingOf(st) = OuterOf(st)
    OBVIOUS
  <1>1. ASSUME NEW f \in Frames
        PROVE  /\ Nested([st EXCEPT ![Len(st)] = f]) /\ [st EXCEPT ![Len(st)] = f] # << >>
               /\ Last([st EXCEPT ![Len(st)] = f]) = f
               /\ OuterOf([st EXCEPT ![Len(st)] = f]) = OuterOf(st)
    BY StackTop
  <1>2. OuterOf(st) \subseteq Conns /\ (Last(st).pc # "posted" => PostingOf(st) = OuterOf(st))
    BY StackPosting
  <1> QED BY <1>1, <1>2

\* The call that runs changes its object to o and goes on or ends as f says; it may
\* handle id and answer it.
LEMMA CallKept ==
    ASSUME Inv, Kept, Handling, NEW c \in Conns, c = Top.c, NEW o \in Objects, NEW f \in Frames,
           NEW id \in RequestIds, NEW resp \in [to : RequestIds, status : Statuses],
           UNCHANGED <<sock, sent, wire>>,
           conn' = [conn EXCEPT ![c] = o], stack' = [stack EXCEPT ![Len(stack)] = f],
           o.obj = conn[c].obj, f.c = c, f.pc # "posted",
           table' = table \/ \E k \in Cookies : table' = [table EXCEPT ![k] = c],
           \/ UNCHANGED <<handled, replies>>
           \/ /\ c \notin Posting
              /\ handled' = [handled EXCEPT ![c] = Append(@, id)]
              /\ replies' = [replies EXCEPT ![c] = Append(@, resp)]
              /\ resp.to = id \/ AskIn(sent, id).kind = "SETUP",
           c \in Posting /\ f.pc # "leave" =>
              /\ AwaitsIn(sent, table, conn, o.buf) /\ o.rem = 0
              /\ f.pc = "bytes" => EndOfMsg(o.buf) + f.new <= Len(o.buf),
           f.pc = "request" => o.rem = 0,
           f.pc = "leave" /\ o.active /\ o.rem = 0 => ~CompleteIn(sent, o.buf)
    PROVE  Kept'
  <1>0. TypeInv /\ StackInv /\ Nested(stack) /\ stack # << >> /\ Top.pc # "posted" /\ Top.pc # "leave" /\ Live(c)
    BY DEF Inv, StackInv, Handling
  <1>1. stack' # << >> /\ Top' = f /\ Posting' = Posting /\ Posting \subseteq Conns
    <2>1. Nested(stack') /\ stack' # << >> /\ Last(stack') = f /\ OuterOf(stack') = OuterOf(stack)
      <3>1. f \in Frames /\ stack' = [stack EXCEPT ![Len(stack)] = f]
        OBVIOUS
      <3> QED BY ONLY <1>0, <3>1, StackTops
    <2>2. PostingOf(stack) = OuterOf(stack) /\ OuterOf(stack) \subseteq Conns
      <3>1. Last(stack).pc # "posted"
        BY ONLY <1>0 DEF Top
      <3> QED BY ONLY <1>0, <3>1, StackTops
    <2>3. PostingOf(stack') = OuterOf(stack')
      <3>1. f.pc # "posted"
        OBVIOUS
      <3> QED BY ONLY <2>1, <3>1, StackTops
    <2> QED BY <2>1, <2>2, <2>3 DEF Top, Posting
  <1>2. conn'[c] = o /\ \A d \in Conns : d # c => conn'[d] = conn[d]
    BY <1>0 DEF TypeInv
  <1>3. \A d \in Conns : (Live(d)' <=> Live(d)) /\ (Holds(d)' <=> Holds(d)) /\ ~Ending(d)
    BY <1>0, <1>1, <1>2 DEF Live, Holds, Ending
  <1>4. RepliedInv'
    <2>1. CASE UNCHANGED <<handled, replies>>
      <3>1. RepliedInv /\ handled' = handled /\ replies' = replies /\ sent' = sent
        BY <2>1 DEF Kept
      <3>2. \A d \in Conns : Holds(d)' /\ ~Ending(d)' => Len(replies'[d]) = Len(handled'[d])
        BY ONLY <1>3, <3>1 DEF RepliedInv
      <3> QED BY ONLY <3>1, <3>2 DEF RepliedInv
    <2>2. CASE /\ c \notin Posting
               /\ handled' = [handled EXCEPT ![c] = Append(@, id)]
               /\ replies' = [replies EXCEPT ![c] = Append(@, resp)]
               /\ resp.to = id \/ AskIn(sent, id).kind = "SETUP"
      <3>1. /\ handled[c] \in Seq(RequestIds) /\ replies[c] \in Seq([to : RequestIds, status : Statuses])
            /\ handled \in [Conns -> Seq(RequestIds)]
            /\ replies \in [Conns -> Seq([to : RequestIds, status : Statuses])]
        BY <1>0 DEF TypeInv, Kept, RepliedInv
      <3>2. PICK n \in Nat : n = Len(replies[c]) /\ n = Len(handled[c])
        <4>1. Holds(c) /\ ~Ending(c)
          BY <1>0, <1>3, <2>2 DEF Holds
        <4> QED BY <3>1, <4>1, LenProperties DEF Kept, RepliedInv
      <3>3. PICK h : h = Append(handled[c], id)
        OBVIOUS
      <3>4. PICK a : a = Append(replies[c], resp)
        OBVIOUS
      <3>5. /\ Len(h) = n + 1 /\ h[n + 1] = id /\ \A i \in 1 .. n : h[i] = handled[c][i]
        BY <3>1, <3>2, <3>3, AppendProperties
      <3>6. /\ a \in Seq([to : RequestIds, status : Statuses])
            /\ Len(a) = n + 1 /\ a[n + 1] = resp /\ \A i \in 1 .. n : a[i] = replies[c][i]
        <4>1. PICK R : R = [to : RequestIds, status : Statuses]
          OBVIOUS
        <4>2. replies[c] \in Seq(R) /\ resp \in R
          BY <3>1, <4>1
        <4>3. a \in Seq(R) /\ Len(a) = n + 1 /\ a[n + 1] = resp /\ \A i \in 1 .. n : a[i] = replies[c][i]
          <5>1. /\ Append(replies[c], resp) \in Seq(R)
                /\ Len(Append(replies[c], resp)) = Len(replies[c]) + 1
                /\ Append(replies[c], resp)[Len(replies[c]) + 1] = resp
                /\ \A i \in 1 .. Len(replies[c]) : Append(replies[c], resp)[i] = replies[c][i]
            BY ONLY <4>2, AppendProperties
          <5> QED BY ONLY <3>2, <3>4, <5>1
        <4> QED BY <4>1, <4>3
      <3>7. /\ handled'[c] = h /\ \A d \in Conns : d # c => handled'[d] = handled[d]
            /\ replies'[c] = a /\ \A d \in Conns : d # c => replies'[d] = replies[d]
            /\ replies' \in [Conns -> Seq([to : RequestIds, status : Statuses])]
        BY <2>2, <3>1, <3>3, <3>4, <3>6
      <3>8. ASSUME NEW i \in 1 .. n + 1
            PROVE  i <= n + 1 /\ (a[i].to = h[i] \/ AskIn(sent, h[i]).kind = "SETUP")
        <4>1. CASE i = n + 1
          BY <2>2, <3>5, <3>6, <4>1
        <4>2. CASE i # n + 1
          <5>1. i \in 1 .. n
            BY <4>2
          <5>2. replies[c][i].to = handled[c][i] \/ AskIn(sent, handled[c][i]).kind = "SETUP"
            BY <3>2, <5>1 DEF Kept, RepliedInv
          <5>3. a[i] = replies[c][i] /\ h[i] = handled[c][i]
            BY <3>5, <3>6, <5>1
          <5> QED BY ONLY <5>2, <5>3, i \in 1 .. n + 1, n \in Nat
        <4> QED BY <4>1, <4>2
      <3>9. \A d \in Conns : \A i \in 1 .. Len(replies'[d]) :
               /\ i <= Len(handled'[d])
               /\ replies'[d][i].to = handled'[d][i] \/ AskIn(sent, handled'[d][i]).kind = "SETUP"
        <4>1. \A i \in 1 .. Len(replies'[c]) :
                 /\ i <= Len(handled'[c])
                 /\ replies'[c][i].to = handled'[c][i] \/ AskIn(sent, handled'[c][i]).kind = "SETUP"
          BY <3>5, <3>6, <3>7, <3>8
        <4>2. \A d \in Conns : d # c => \A i \in 1 .. Len(replies'[d]) :
                 /\ i <= Len(handled'[d])
                 /\ replies'[d][i].to = handled'[d][i] \/ AskIn(sent, handled'[d][i]).kind = "SETUP"
          <5>1. RepliedInv
            BY DEF Kept
          <5> QED BY ONLY <3>7, <5>1 DEF RepliedInv
        <4> QED BY ONLY <4>1, <4>2
      <3>10. \A d \in Conns : Holds(d)' /\ ~Ending(d)' => Len(replies'[d]) = Len(handled'[d])
        BY <1>3, <3>5, <3>6, <3>7 DEF Kept, RepliedInv
      <3> QED BY <3>7, <3>9, <3>10 DEF RepliedInv
    <2> QED BY <2>1, <2>2
  <1>5. WaitInv'
    <2>1. \A d \in Conns : conn'[d].obj = conn[d].obj
      BY <1>2
    <2>2. \A b : AwaitsIn(sent, table, conn, b) => AwaitsIn(sent, table', conn', b)
      <3> SUFFICES ASSUME NEW b, AwaitsIn(sent, table, conn, b) PROVE AwaitsIn(sent, table', conn', b)
        OBVIOUS
      <3>1. PICK k : k = AskIn(sent, Parse(b)).cookie
        OBVIOUS
      <3>2. table[k] # None /\ conn[table[k]].obj = "live"
        BY <3>1 DEF AwaitsIn
      <3>3. k \in Cookies
        BY <3>1 DEF AwaitsIn
      <3>4. table'[k] = table[k] \/ table'[k] = c
        <4>1. table \in [Cookies -> Conns \cup {None}]
          BY <1>0 DEF TypeInv
        <4>2. ASSUME NEW j \in Cookies, table' = [table EXCEPT ![j] = c]
              PROVE  table'[k] = table[k] \/ table'[k] = c
          <5>1. CASE k = j
            BY <4>1, <4>2, <5>1
          <5>2. CASE k # j
            BY ONLY <3>3, <4>1, <4>2, <5>2
          <5> QED BY <5>1, <5>2
        <4> QED BY <4>2
      <3>5. \A d \in Conns \cup {None} : d # None => d \in Conns
        OBVIOUS
      <3>6. table'[k] # None /\ conn'[table'[k]].obj = "live"
        <4>1. CASE table'[k] = c
          BY <1>0, <2>1, <4>1, NoneAssumption DEF Live
        <4>2. CASE table'[k] = table[k]
          <5>1. \A d : conn[d].obj = "live" => conn'[d].obj = "live"
            <6>1. conn' = [conn EXCEPT ![c] = o]
              OBVIOUS
            <6> QED BY <1>0, <6>1 DEF TypeInv
          <5> QED BY <3>2, <4>2, <5>1
        <4> QED BY <3>4, <4>1, <4>2
      <3> QED BY <3>1, <3>3, <3>6 DEF AwaitsIn
    <2>3. ASSUME f.pc # "leave", NEW d \in Posting
          PROVE  /\ AwaitsIn(sent, table', conn', conn'[d].buf) /\ conn'[d].rem = 0
                 /\ f.c = d /\ f.pc = "bytes" => EndOfMsg(conn'[d].buf) + f.new <= Len(conn'[d].buf)
      <3>1. d \in Conns
        BY <1>1
      <3>2. CASE d = c
        BY <1>2, <2>2, <2>3, <3>2
      <3>3. CASE d # c
        <4>1. AwaitsIn(sent, table, conn, conn[d].buf) /\ conn[d].rem = 0
          BY DEF Kept, WaitInv
        <4> QED BY <1>2, <2>2, <3>1, <3>3, <4>1
      <3> QED BY <3>2, <3>3
    <2>4. Handling' => f.pc # "leave"
      BY <1>1 DEF Handling
    <2>5. f.pc = "request" => conn'[f.c].rem = 0
      BY <1>2
    <2> QED BY <1>1, <2>3, <2>4, <2>5 DEF WaitInv
  <1>6. StillInv'
    <2>1. \A d \in Conns : Live(d)' /\ d \notin Posting' /\ ~(stack' # << >> /\ Top'.c = d) =>
             conn'[d].active /\ (conn'[d].rem = 0 => ~CompleteIn(sent, conn'[d].buf))
      BY <1>1, <1>2, <1>3 DEF Kept, StillInv
    <2>2. f.pc = "leave" /\ conn'[f.c].active /\ conn'[f.c].rem = 0 => ~CompleteIn(sent, conn'[f.c].buf)
      BY <1>2
    <2> QED BY <1>1, <2>1, <2>2 DEF StillInv
  <1>7. UnusedInv'
    BY DEF Kept, UnusedInv
  <1> QED BY <1>4, <1>5, <1>6, <1>7 DEF Kept
-----------------------------------------------------------------------------
(* What a call does *)

\* The call of c that runs changes its object to o and goes on as f says.
Ran(c, o, f) ==
    /\ conn' = [conn EXCEPT ![c] = o] /\ stack' = [stack EXCEPT ![Len(stack)] = f]
    /\ o \in Objects /\ f \in Frames /\ f.c = c
    /\ o.obj = conn[c].obj /\ o.in = conn[c].in /\ o.out = conn[c].out
    /\ UNCHANGED <<sock, fault, sent, wire>>

LEMMA TooBigIs ==
    ASSUME Inv, NEW c \in Conns, TooBig(c)
    PROVE  \E o, f : /\ Ran(c, o, f) /\ f.pc = "leave" /\ ~o.active
                     /\ o.buf = conn[c].buf /\ o.rem = conn[c].rem
                     /\ UNCHANGED <<table, handled, replies>>
  <1>1. /\ stack # << >> /\ Nested(stack) /\ c = Top.c /\ conn[c] \in Objects
    BY AtIs DEF TooBig
  <1>2. PICK f \in Frames : stack' = [stack EXCEPT ![Len(stack)] = f] /\ f.c = Top.c /\ f.pc = "leave"
    BY <1>1, GotoIs DEF TooBig
  <1>3. PICK o : o = [conn[c] EXCEPT !.active = FALSE]
    OBVIOUS
  <1>4. /\ o.obj = conn[c].obj /\ o.in = conn[c].in /\ o.out = conn[c].out
        /\ o.buf = conn[c].buf /\ o.rem = conn[c].rem
    BY <1>1, <1>3 DEF Objects
  <1>5. ~o.active
    BY <1>1, <1>3, Zenon DEF Objects
  <1>6. o \in Objects
    BY <1>1, <1>3, ObjectChanges
  <1>7. conn' = [conn EXCEPT ![c] = o] /\ UNCHANGED <<sock, fault, sent, wire, table, handled, replies>>
    BY <1>3 DEF TooBig
  <1>8. Ran(c, o, f)
    BY <1>1, <1>2, <1>4, <1>6, <1>7 DEF Ran
  <1> QED BY <1>2, <1>4, <1>5, <1>7, <1>8

LEMMA ScanIs ==
    ASSUME Inv, NEW c \in Conns, Scan(c)
    PROVE  \E o, f : /\ Ran(c, o, f) /\ f.pc = IF o.rem = 0 /\ Complete(o.buf) THEN "request" ELSE "leave"
                     /\ o.active = conn[c].active
                     /\ IF Tunnelled(c) /\ ~Top.pipelined
                        THEN o.buf = DecodeInPlace(c, Top.new) /\ o.rem = Remainder(c, Top.new)
                        ELSE o.buf = conn[c].buf /\ o.rem = conn[c].rem
                     /\ UNCHANGED <<table, handled, replies>>
  <1> DEFINE decodes == Tunnelled(c) /\ ~Top.pipelined
  <1>1. PICK b : b = IF decodes THEN DecodeInPlace(c, Top.new) ELSE conn[c].buf
    OBVIOUS
  <1>2. PICK rem : rem = IF decodes THEN Remainder(c, Top.new) ELSE conn[c].rem
    OBVIOUS
  <1>3. At(c, "bytes") /\ conn' = [conn EXCEPT ![c].buf = b, ![c].rem = rem]
        /\ Goto(IF rem = 0 /\ Complete(b) THEN "request" ELSE "leave")
    BY <1>1, <1>2 DEF Scan
  <1>4. /\ stack # << >> /\ Nested(stack) /\ c = Top.c /\ Top.pc = "bytes" /\ conn[c] \in Objects
        /\ conn[c].buf \in Text(Source(c)) /\ Top \in Frames /\ Garbage \in Source(c)
    BY <1>3, AtIs
  <1>5. b \in Text(Source(c)) /\ rem \in 0 .. 3
    <2>1. conn[c].rem \in 0 .. 3 /\ Top.new \in Nat
      BY <1>4 DEF Objects, Frames
    <2>2. CASE decodes
      <3>1. Top.new + conn[c].rem <= Len(conn[c].buf)
        BY <1>4 DEF Inv, StackInv
      <3>2. DecodeInPlace(c, Top.new) \in Text(Source(c)) /\ Remainder(c, Top.new) \in 0 .. 3
        BY <1>4, <2>1, <3>1, DecodeInPlaceIs
      <3> QED BY <1>1, <1>2, <2>2, <3>2
    <2>3. CASE ~decodes
      BY <1>1, <1>2, <1>4, <2>1, <2>3
    <2> QED BY <2>2, <2>3
  <1>6. IF decodes THEN b = DecodeInPlace(c, Top.new) /\ rem = Remainder(c, Top.new)
        ELSE b = conn[c].buf /\ rem = conn[c].rem
    BY <1>1, <1>2
  <1> HIDE DEF decodes
  <1> DEFINE pc == IF rem = 0 /\ Complete(b) THEN "request" ELSE "leave"
  <1>7. PICK f \in Frames : stack' = [stack EXCEPT ![Len(stack)] = f] /\ f.c = Top.c /\ f.pc = pc
    <2>1. pc \in {"bytes", "request", "posted", "leave"}
      OBVIOUS
    <2> QED BY <1>3, <1>4, <2>1, GotoIs
  <1>8. PICK o : o = [conn[c] EXCEPT !.buf = b, !.rem = rem]
    OBVIOUS
  <1>9. /\ o.obj = conn[c].obj /\ o.in = conn[c].in /\ o.out = conn[c].out /\ o.buf = b /\ o.rem = rem
    BY <1>4, <1>8 DEF Objects
  <1>10. o.active = conn[c].active
    BY <1>4, <1>8, Zenon DEF Objects
  <1>11. o \in Objects
    <2>1. Source(c) \subseteq RequestIds
      BY Sources DEF Inv
    <2>2. b \in Text(RequestIds)
      BY <1>5, <2>1, TextMonotonic
    <2> QED BY <1>4, <1>5, <1>8, <2>2, ObjectChanges
  <1>12. conn' = [conn EXCEPT ![c] = o]
    BY <1>3, <1>8 DEF Inv, TypeInv
  <1>13. UNCHANGED <<sock, fault, sent, wire, table, handled, replies>>
    BY DEF Scan
  <1>14. Ran(c, o, f)
    BY <1>4, <1>7, <1>9, <1>11, <1>12, <1>13 DEF Ran
  <1>15. f.pc = IF o.rem = 0 /\ Complete(o.buf) THEN "request" ELSE "leave"
    BY <1>7, <1>9
  <1>16. IF Tunnelled(c) /\ ~Top.pipelined
         THEN o.buf = DecodeInPlace(c, Top.new) /\ o.rem = Remainder(c, Top.new)
         ELSE o.buf = conn[c].buf /\ o.rem = conn[c].rem
    BY <1>6, <1>9 DEF decodes
  <1> QED BY <1>10, <1>13, <1>14, <1>15, <1>16

\* The commands that are not of a tunnel's POST, all of which Finish()
Commands(c) ==
    \/ Announce(c) \/ AnswerOnly(c) \/ Describe(c) \/ Setup(c) \/ SetupFails(c)
    \/ (\E reuse \in ReuseConnection : Register(c, reuse)) \/ Bad(c)
    \/ TunnelingGET(c) \/ PostUnknown(c)

\* The object the command leaves, and its answer
Answered(c, o) ==
    /\ o \in Objects /\ Finish(c, o)
    /\ o.obj = conn[c].obj /\ o.in = conn[c].in /\ o.out = conn[c].out
    /\ o.resp \in [to : RequestIds, status : Statuses]
    /\ o.resp.to = RequestId(c) \/ Request(c).kind = "SETUP"
    /\ table' = table \/ \E k \in Cookies : table' = [table EXCEPT ![k] = c]
    /\ Request(c).kind = "POST" => ~o.active /\ table[Request(c).cookie] = None

LEMMA CommandIs ==
    ASSUME Inv, NEW c \in Conns, Commands(c)
    PROVE  At(c, "request") /\ \E o : Answered(c, o)
  <1>1. At(c, "request")
    BY DEF Commands, Announce, AnswerOnly, Describe, Setup, SetupFails, Register, Bad, TunnelingGET, PostUnknown, Handles
  <1>2. conn[c] \in Objects /\ RequestId(c) \in RequestIds
    BY <1>1, AtIs, RequestIs
  <1>3. \A status \in Statuses : \A o : o = Responds(c, status) =>
            /\ o \in Objects /\ o.obj = conn[c].obj /\ o.in = conn[c].in /\ o.out = conn[c].out
            /\ o.resp = [to |-> RequestId(c), status |-> status]
    <2> SUFFICES ASSUME NEW status \in Statuses, NEW o, o = Responds(c, status)
                 PROVE  /\ o \in Objects /\ o.obj = conn[c].obj /\ o.in = conn[c].in /\ o.out = conn[c].out
                        /\ o.resp = [to |-> RequestId(c), status |-> status]
      OBVIOUS
    <2>1. PICK r : r = [to |-> RequestId(c), status |-> status]
      OBVIOUS
    <2>2. r \in [to : RequestIds, status : Statuses]
      BY <1>2, <2>1
    <2>3. o = [conn[c] EXCEPT !.resp = r]
      <3>1. Responds(c, status) = [conn[c] EXCEPT !.resp = [to |-> RequestId(c), status |-> status]]
        BY DEF Responds
      <3> QED BY ONLY <2>1, <3>1, o = Responds(c, status)
    <2>4. o \in Objects
      BY <1>1, RespondsIs
    <2>5. o.obj = conn[c].obj /\ o.in = conn[c].in /\ o.out = conn[c].out /\ o.resp = r
      BY <1>2, <2>3 DEF Objects
    <2> QED BY <2>1, <2>4, <2>5
  <1>4. \A status \in {"ok", "signed", "unended", "sessionNotFound", "sdp", "notFound", "invalid",
                       "bad", "notSupported"} : status \in Statuses
    BY DEF Statuses
  <1>5. \A status \in Statuses : [to |-> RequestId(c), status |-> status] \in [to : RequestIds, status : Statuses]
    BY <1>2
  <1>6. ASSUME NEW status \in Statuses, NEW o \in Objects, Finish(c, o), Request(c).kind # "POST",
               o.resp = [to |-> RequestId(c), status |-> status],
               o.obj = conn[c].obj, o.in = conn[c].in, o.out = conn[c].out,
               table' = table \/ \E k \in Cookies : table' = [table EXCEPT ![k] = c]
        PROVE  Answered(c, o)
    <2>1. o.resp \in [to : RequestIds, status : Statuses] /\ o.resp.to = RequestId(c)
      BY <1>5, <1>6
    <2> QED BY <1>6, <2>1 DEF Answered
  <1>7. PICK ok \in Objects : /\ ok = Responds(c, "ok") /\ ok.resp = [to |-> RequestId(c), status |-> "ok"]
                              /\ ok.obj = conn[c].obj /\ ok.in = conn[c].in /\ ok.out = conn[c].out
    BY <1>3, <1>4
  <1>8. CASE Announce(c)
    <2>1. PICK o : o = [ok EXCEPT !.config = TRUE]
      OBVIOUS
    <2>2. o \in Objects
      BY <2>1, ObjectChanges
    <2>3. o.obj = ok.obj /\ o.in = ok.in /\ o.out = ok.out /\ o.resp = ok.resp
      BY <2>1 DEF Objects
    <2>4. Finish(c, o) /\ table' = table /\ Request(c).kind # "POST"
      BY <1>7, <1>8, <2>1 DEF Announce, Quiet, Handles
    <2>5. Answered(c, o)
      BY <1>4, <1>6, <1>7, <2>2, <2>3, <2>4
    <2> QED BY <1>1, <2>5
  <1>9. CASE AnswerOnly(c)
    <2>1. PICK kind \in {"OPTIONS", "CHALLENGE", "SET_PARAMETER", "FLUSH", "PLAY"} :
              Finish(c, Responds(c, AnswerTo(kind))) /\ Request(c).kind = kind
      BY <1>9 DEF AnswerOnly, Handles
    <2>2. AnswerTo(kind) \in Statuses
      BY <2>1 DEF AnswerTo, OptionsStatus, FlushStatus, Statuses
    <2>3. PICK o : o = Responds(c, AnswerTo(kind))
      OBVIOUS
    <2>4. /\ o \in Objects /\ o.obj = conn[c].obj /\ o.in = conn[c].in /\ o.out = conn[c].out
          /\ o.resp = [to |-> RequestId(c), status |-> AnswerTo(kind)]
      BY <1>3, <2>2, <2>3
    <2>5. Finish(c, o) /\ table' = table /\ Request(c).kind # "POST"
      BY <1>9, <2>1, <2>3 DEF AnswerOnly, Quiet
    <2>6. Answered(c, o)
      BY <1>6, <2>2, <2>4, <2>5
    <2> QED BY <1>1, <2>6
  <1>10. CASE Describe(c) \/ Bad(c) \/ \E reuse \in ReuseConnection : Register(c, reuse)
    <2>1. PICK status \in Statuses :
              Finish(c, Responds(c, status)) /\ table' = table /\ Request(c).kind # "POST"
      BY <1>4, <1>10 DEF Describe, Bad, Quiet, Register, Handles
    <2>3. PICK o : o = Responds(c, status)
      OBVIOUS
    <2>4. /\ o \in Objects /\ o.obj = conn[c].obj /\ o.in = conn[c].in /\ o.out = conn[c].out
          /\ o.resp = [to |-> RequestId(c), status |-> status]
      BY <1>3, <2>3
    <2>5. Answered(c, o)
      BY <1>6, <2>1, <2>3, <2>4
    <2> QED BY <1>1, <2>5
  <1>11. CASE Setup(c)
    <2>1. PICK o : o = [ok EXCEPT !.threads = @ + 1]
      OBVIOUS
    <2>2. o \in Objects
      BY <2>1, ObjectChanges
    <2>3. o.obj = ok.obj /\ o.in = ok.in /\ o.out = ok.out /\ o.resp = ok.resp
      BY <2>1 DEF Objects
    <2>4. Finish(c, o) /\ table' = table /\ Request(c).kind # "POST"
      BY <1>7, <1>11, <2>1 DEF Setup, Quiet, Handles
    <2>5. Answered(c, o)
      BY <1>4, <1>6, <1>7, <2>2, <2>3, <2>4
    <2> QED BY <1>1, <2>5
  <1>12. CASE SetupFails(c)
    <2>1. Finish(c, conn[c]) /\ table' = table /\ Request(c).kind = "SETUP"
      BY <1>12 DEF SetupFails, Quiet, Handles
    <2>2. conn[c].resp \in [to : RequestIds, status : Statuses]
      BY <1>2 DEF Objects
    <2>3. Answered(c, conn[c])
      BY <1>2, <2>1, <2>2 DEF Answered
    <2> QED BY <1>1, <2>3
  <1>13. CASE TunnelingGET(c)
    <2>0. PICK k : k = SessionCookie(c)
      OBVIOUS
    <2>1. PICK o : o = [ok EXCEPT !.cookie = k]
      OBVIOUS
    <2>2. Request(c).kind = "GET" /\ k \in Cookies
      BY <1>1, <1>13, <2>0, RequestIs DEF TunnelingGET, Handles, SessionCookie
    <2>3. o \in Objects
      BY <2>1, <2>2, ObjectChanges
    <2>4. o.obj = ok.obj /\ o.in = ok.in /\ o.out = ok.out /\ o.resp = ok.resp
      BY <2>1 DEF Objects
    <2>5. Finish(c, o) /\ table' = [table EXCEPT ![k] = c] /\ Request(c).kind # "POST"
      BY <1>7, <1>13, <2>0, <2>1, <2>2 DEF TunnelingGET
    <2>6. Answered(c, o)
      BY <1>4, <1>6, <1>7, <2>2, <2>3, <2>4, <2>5
    <2> QED BY <1>1, <2>6
  <1>14. CASE PostUnknown(c)
    <2>0. PICK p : p = Responds(c, "notSupported")
      OBVIOUS
    <2>1. PICK o : o = [p EXCEPT !.active = FALSE]
      OBVIOUS
    <2>2. /\ p \in Objects /\ p.obj = conn[c].obj /\ p.in = conn[c].in /\ p.out = conn[c].out
          /\ p.resp = [to |-> RequestId(c), status |-> "notSupported"]
      BY <1>3, <1>4, <2>0
    <2>3. o \in Objects
      BY <2>1, <2>2, ObjectChanges
    <2>4. o.obj = p.obj /\ o.in = p.in /\ o.out = p.out /\ o.resp = p.resp
      BY <2>1, <2>2 DEF Objects
    <2>5. ~o.active
      BY <2>1, <2>2, Zenon DEF Objects
    <2>6. Finish(c, o) /\ table' = table /\ table[Request(c).cookie] = None
      BY <1>14, <2>0, <2>1 DEF PostUnknown, Quiet, SessionCookie
    <2>7. o.resp \in [to : RequestIds, status : Statuses] /\ o.resp.to = RequestId(c)
      BY <1>4, <1>5, <2>2, <2>4
    <2>8. Answered(c, o)
      BY <2>2, <2>3, <2>4, <2>5, <2>6, <2>7 DEF Answered
    <2> QED BY <1>1, <2>8
  <1> QED BY <1>8, <1>9, <1>10, <1>11, <1>12, <1>13, <1>14 DEF Commands

\* The end of a request
LEMMA FinishIs ==
    ASSUME Inv, NEW c \in Conns, At(c, "request"), NEW o, Answered(c, o)
    PROVE  \E p, f : /\ Ran(c, p, f)
                     /\ p.active = o.active /\ p.buf = Rest(c) /\ p.rem = 0
                     /\ \/ f.pc = "leave" /\ p.buf = << >>
                        \/ f.pc = "bytes" /\ f.pipelined
                     /\ handled' = [handled EXCEPT ![c] = Append(@, RequestId(c))]
                     /\ replies' = [replies EXCEPT ![conn[c].out] = Append(@, o.resp)]
  <1>1. /\ stack # << >> /\ Nested(stack) /\ c = Top.c /\ Top.pc = "request" /\ Top \in Frames
        /\ conn[c] \in Objects /\ Live(c) /\ TypeInv /\ o \in Objects
    BY AtIs DEF Inv, Answered
  <1>3. PICK rest \in Text(Source(c)) : rest = Rest(c) /\ Len(rest) \in Nat
    BY RequestIs
  <1>4. PICK p : p = [o EXCEPT !.buf = rest, !.rem = 0]
    OBVIOUS
  <1>5. p.obj = o.obj /\ p.in = o.in /\ p.out = o.out /\ p.buf = rest /\ p.rem = 0
    BY <1>1, <1>4 DEF Objects
  <1>55. p.active = o.active
    BY <1>1, <1>4, Zenon DEF Objects
  <1>6. p \in Objects
    <2>1. Source(c) \subseteq RequestIds
      BY Sources DEF Inv
    <2>2. rest \in Text(RequestIds) /\ 0 \in 0 .. 3
      BY <2>1, TextMonotonic
    <2> QED BY <1>1, <1>4, <2>2, ObjectChanges
  <1>7. /\ conn' = [conn EXCEPT ![c] = p]
        /\ handled' = [handled EXCEPT ![c] = Append(@, RequestId(c))]
        /\ replies' = [replies EXCEPT ![conn[c].out] = Append(@, o.resp)]
        /\ UNCHANGED <<sock, fault, sent, wire>>
    BY <1>3, <1>4 DEF Finish, Answered
  <1>8. PICK f \in Frames : /\ stack' = [stack EXCEPT ![Len(stack)] = f] /\ f.c = c
                            /\ \/ f.pc = "leave" /\ rest = << >>
                               \/ f.pc = "bytes" /\ f.pipelined
    <2>1. Top = stack[Len(stack)] /\ Len(stack) \in DOMAIN stack
      BY <1>1, StackFacts, LenProperties DEF Top, Last, Nested
    <2> DEFINE g == [Top EXCEPT !.pc = "leave"]
               h == [Frame(c, Len(rest)) EXCEPT !.pipelined = TRUE]
    <2>2. g \in Frames /\ g.c = c /\ g.pc = "leave"
      BY <1>1 DEF Frames
    <2>3. h \in Frames /\ h.c = c /\ h.pc = "bytes"
      BY <1>3 DEF Frames, Frame
    <2>35. h.pipelined
      BY <1>3, Zenon DEF Frame
    <2>4. stack' = [stack EXCEPT ![Len(stack)] = IF rest = << >> THEN g ELSE h]
      BY <1>3, <2>1 DEF Finish, Answered
    <2> HIDE DEF g, h
    <2>5. CASE rest = << >>
      BY <2>2, <2>4, <2>5
    <2>6. CASE rest # << >>
      BY <2>3, <2>35, <2>4, <2>6
    <2> QED BY <2>5, <2>6
  <1>9. Ran(c, p, f)
    BY <1>5, <1>6, <1>7, <1>8 DEF Ran, Answered
  <1> QED BY <1>3, <1>5, <1>55, <1>7, <1>8, <1>9
-----------------------------------------------------------------------------
(* What is answered and what waits: the steps of a call *)

\* What has been read before the new bytes is not touched by their decoding.
LEMMA DecodeKeeps ==
    ASSUME NEW S, Garbage \in S, NEW c, NEW new \in Nat, conn[c].buf \in Text(S), conn[c].rem = 0,
           NEW e \in Nat, e + new <= Len(conn[c].buf)
    PROVE  /\ DecodeInPlace(c, new) \in Text(S) /\ e <= Len(DecodeInPlace(c, new))
           /\ \A i \in 1 .. e : DecodeInPlace(c, new)[i] = conn[c].buf[i]
  <1>1. PICK b : b = conn[c].buf
    OBVIOUS
  <1>2. PICK n \in Nat : n = Len(b)
    BY <1>1, TextLen
  <1>3. PICK r \in 0 .. 3 : r = Remainder(c, new) /\ r <= new
    <2>1. PICK q : q = new % 4
      OBVIOUS
    <2>2. q \in 0 .. 3 /\ q <= new
      BY <2>1, Quotients
    <2>3. 0 + new = new
      OBVIOUS
    <2> QED BY <2>1, <2>2, <2>3 DEF Remainder
  <1>4. PICK from \in Nat : from = n - new /\ n - new - 0 = from /\ e <= from /\ from <= n
    <2>1. e + new <= n
      BY <1>1, <1>2
    <2>2. n - new \in Nat /\ n - new - 0 = n - new /\ e <= n - new /\ n - new <= n
      BY ONLY n \in Nat, new \in Nat, e \in Nat, <2>1
    <2> QED BY <2>2
  <1>5. PICK to \in Nat : to = n - r /\ from <= to /\ to <= n
    <2>1. n - r \in Nat /\ from <= n - r /\ n - r <= n
      BY ONLY n \in Nat, r \in 0 .. 3, new \in Nat, from \in Nat, <1>3, <1>4
    <2> QED BY <2>1
  <1>6. PICK x : x = SubSeq(b, 1, from) /\ x \in Text(S) /\ Len(x) = from
    <2>1. SubSeq(b, 1, from) \in Text(S) /\ Len(SubSeq(b, 1, from)) = IF 1 <= from THEN from - 1 + 1 ELSE 0
      BY <1>1, <1>2, <1>4, TextPart
    <2>2. (IF 1 <= from THEN from - 1 + 1 ELSE 0) = from
      BY ONLY from \in Nat
    <2> QED BY <2>1, <2>2
  <1>7. PICK y : y = Decode(SubSeq(b, from + 1, to)) /\ y \in Text(S)
    <2>1. SubSeq(b, from + 1, to) \in Text(S)
      <3>1. from + 1 \in Int /\ 1 <= from + 1 /\ to \in Int /\ to <= Len(b) /\ b \in Text(S)
        BY <1>1, <1>2, <1>4, <1>5
      <3> QED BY ONLY <3>1, TextPart
    <2> QED BY <2>1, DecodeType
  <1>8. PICK z : z = SubSeq(b, to + 1, n) /\ z \in Text(S)
    <2>1. SubSeq(b, to + 1, n) \in Text(S)
      BY <1>1, <1>2, <1>5, TextPart
    <2> QED BY <2>1
  <1>9. DecodeInPlace(c, new) = (x \o y) \o z
    BY <1>1, <1>2, <1>3, <1>4, <1>5, <1>6, <1>7, <1>8 DEF DecodeInPlace
  <1>10. PICK V : V = S \X Int \X BOOLEAN
    OBVIOUS
  <1>11. x \in Seq(V) /\ y \in Seq(V) /\ z \in Seq(V) /\ b \in Seq(V) /\ Text(S) = Seq(V)
    BY <1>1, <1>6, <1>7, <1>8, <1>10 DEF Text
  <1>12. PICK xy : xy = x \o y
    OBVIOUS
  <1>13. xy \in Seq(V) /\ Len(xy) = from + Len(y) /\ (\A i \in 1 .. from : xy[i] = x[i]) /\ Len(y) \in Nat
    <2>1. x \o y \in Seq(V) /\ Len(x \o y) = Len(x) + Len(y) /\ \A i \in 1 .. Len(x) : (x \o y)[i] = x[i]
      BY ONLY <1>11, Joined
    <2>2. Len(y) \in Nat
      BY ONLY <1>11, LenProperties
    <2> QED BY <1>6, <1>12, <2>1, <2>2
  <1>14. xy \o z \in Seq(V) /\ Len(xy \o z) = Len(xy) + Len(z) /\ (\A i \in 1 .. Len(xy) : (xy \o z)[i] = xy[i])
         /\ Len(z) \in Nat
    <2>1. xy \o z \in Seq(V) /\ Len(xy \o z) = Len(xy) + Len(z) /\ \A i \in 1 .. Len(xy) : (xy \o z)[i] = xy[i]
      <3>1. xy \in Seq(V) /\ z \in Seq(V)
        BY <1>11, <1>13
      <3> QED BY ONLY <3>1, Joined
    <2>2. Len(z) \in Nat
      BY ONLY <1>11, LenProperties
    <2> QED BY <2>1, <2>2
  <1>15. from <= Len(xy) /\ e <= Len(xy \o z)
    BY <1>4, <1>13, <1>14
  <1>16. \A i \in 1 .. from : x[i] = b[i]
    <2>1. from \in 0 .. Len(b)
      BY <1>2, <1>4
    <2>2. \A i \in 1 .. from : Upto(b, from)[i] = b[i]
      BY ONLY <1>11, <2>1, Cut
    <2> QED BY <1>6, <2>2 DEF Upto
  <1>17. ASSUME NEW i \in 1 .. e
         PROVE  (xy \o z)[i] = b[i]
    <2>1. i \in 1 .. from /\ i \in 1 .. Len(xy)
      BY <1>4, <1>13, <1>15
    <2> QED BY <1>13, <1>14, <1>16, <2>1
  <1> QED BY <1>1, <1>9, <1>11, <1>12, <1>14, <1>15, <1>17

LEMMA TooBigKept ==
    ASSUME Inv, Kept, NEW c \in Conns, TooBig(c)
    PROVE  Kept'
  <1>1. PICK o, f : /\ Ran(c, o, f) /\ f.pc = "leave" /\ ~o.active
                    /\ UNCHANGED <<table, handled, replies>>
    BY TooBigIs
  <1>2. Handling /\ c = Top.c
    BY AtIs DEF TooBig, Handling
  <1>3. conn[c].resp \in [to : RequestIds, status : Statuses] /\ Garbage \in RequestIds
    BY IdType DEF Inv, TypeInv, Objects
  <1> QED BY <1>1, <1>2, <1>3, CallKept DEF Ran

LEMMA ScanKept ==
    ASSUME Inv, Kept, NEW c \in Conns, Scan(c)
    PROVE  Kept'
  <1>1. PICK o, f : /\ Ran(c, o, f) /\ f.pc = IF o.rem = 0 /\ Complete(o.buf) THEN "request" ELSE "leave"
                    /\ IF Tunnelled(c) /\ ~Top.pipelined
                       THEN o.buf = DecodeInPlace(c, Top.new) /\ o.rem = Remainder(c, Top.new)
                       ELSE o.buf = conn[c].buf /\ o.rem = conn[c].rem
                    /\ UNCHANGED <<table, handled, replies>>
    BY ScanIs
  <1>2. /\ Handling /\ c = Top.c /\ Top.pc = "bytes" /\ Top \in Frames
        /\ conn[c].buf \in Text(Source(c)) /\ Garbage \in Source(c)
    BY AtIs DEF Scan, Handling
  <1>3. conn[c].resp \in [to : RequestIds, status : Statuses] /\ Garbage \in RequestIds
    BY IdType DEF Inv, TypeInv, Objects
  <1>4. ASSUME c \in Posting PROVE AwaitsIn(sent, table, conn, o.buf)
    <2>1. /\ AwaitsIn(sent, table, conn, conn[c].buf) /\ conn[c].rem = 0
          /\ EndOfMsg(conn[c].buf) + Top.new <= Len(conn[c].buf)
      BY <1>2, <1>4 DEF Kept, WaitInv
    <2>2. CASE Tunnelled(c) /\ ~Top.pipelined
      <3>1. Top.new \in Nat
        BY <1>2 DEF Frames
      <3>2. EndOfMsg(conn[c].buf) \in Nat /\ EndOfMsg(conn[c].buf) # 0
        BY <1>2, <2>1, EndOfMsgRange DEF AwaitsIn
      <3>3. PICK e \in Nat : e = EndOfMsg(conn[c].buf)
        BY <3>2
      <3>4. /\ DecodeInPlace(c, Top.new) \in Text(Source(c)) /\ e <= Len(DecodeInPlace(c, Top.new))
            /\ \A i \in 1 .. e : DecodeInPlace(c, Top.new)[i] = conn[c].buf[i]
        BY <1>2, <2>1, <3>1, <3>3, DecodeKeeps
      <3>5. PICK b : b = o.buf
        OBVIOUS
      <3>6. b = DecodeInPlace(c, Top.new)
        BY <1>1, <2>2, <3>5
      <3>7. EndOfMsg(b) = EndOfMsg(conn[c].buf) /\ Parse(b) = Parse(conn[c].buf)
        BY <1>2, <3>2, <3>3, <3>4, <3>6, SameHead
      <3> QED BY <2>1, <3>5, <3>7 DEF AwaitsIn
    <2>3. CASE ~(Tunnelled(c) /\ ~Top.pipelined)
      BY <1>1, <2>1, <2>3
    <2> QED BY <2>2, <2>3
  <1>5. /\ c \in Posting /\ f.pc # "leave" =>
              /\ AwaitsIn(sent, table, conn, o.buf) /\ o.rem = 0
              /\ f.pc = "bytes" => EndOfMsg(o.buf) + f.new <= Len(o.buf)
        /\ f.pc = "request" => o.rem = 0
        /\ f.pc = "leave" /\ o.active /\ o.rem = 0 => ~CompleteIn(sent, o.buf)
        /\ f.pc # "posted"
    BY <1>1, <1>4, AskInIs
  <1> QED BY <1>1, <1>2, <1>3, <1>5, CallKept DEF Ran

\* Objects that wait have a POST in front, and no command is called for that.
LEMMA CommandHolds ==
    ASSUME Inv, Kept, NEW c \in Conns, At(c, "request"), NEW o, Answered(c, o)
    PROVE  Handling /\ c = Top.c /\ c \notin Posting /\ Holds(c) /\ conn[c].out = c /\ conn[c].rem = 0
  <1>1. stack # << >> /\ c = Top.c /\ Top.pc = "request" /\ Live(c)
    BY AtIs
  <1>2. c \notin Posting
    <2> SUFFICES ASSUME c \in Posting PROVE FALSE
      OBVIOUS
    <2>1. AwaitsIn(sent, table, conn, conn[c].buf)
      BY <1>1 DEF Kept, WaitInv, Handling
    <2>2. Request(c) = AskIn(sent, Parse(conn[c].buf))
      BY AskInIs DEF Request, RequestId
    <2> QED BY <2>1, <2>2 DEF AwaitsIn, Answered
  <1>3. Holds(c) /\ ~Ending(c)
    BY <1>1, <1>2 DEF Holds, Ending
  <1>4. conn[c].out = c
    BY <1>3 DEF Inv, OwnerInv, Owner
  <1> QED BY <1>1, <1>2, <1>3, <1>4 DEF Kept, WaitInv, Handling

LEMMA CommandKept ==
    ASSUME Inv, Kept, NEW c \in Conns, Commands(c)
    PROVE  Kept'
  <1>1. At(c, "request")
    BY CommandIs
  <1>2. PICK o : Answered(c, o)
    BY CommandIs
  <1>3. /\ Handling /\ c = Top.c /\ c \notin Posting /\ conn[c].out = c
    BY <1>1, <1>2, CommandHolds
  <1>4. PICK p, f : /\ Ran(c, p, f) /\ p.buf = Rest(c) /\ p.rem = 0
                    /\ \/ f.pc = "leave" /\ p.buf = << >>
                       \/ f.pc = "bytes" /\ f.pipelined
                    /\ handled' = [handled EXCEPT ![c] = Append(@, RequestId(c))]
                    /\ replies' = [replies EXCEPT ![conn[c].out] = Append(@, o.resp)]
    BY <1>1, <1>2, FinishIs
  <1>5. PICK id \in RequestIds : id = RequestId(c)
    BY <1>1, RequestIs
  <1>6. PICK resp \in [to : RequestIds, status : Statuses] : resp = o.resp
    BY <1>2 DEF Answered
  <1>7. resp.to = id \/ AskIn(sent, id).kind = "SETUP"
    BY <1>2, <1>5, <1>6, AskInIs DEF Answered, Request
  <1>8. f.pc = "leave" => ~CompleteIn(sent, p.buf)
    <2>1. EndOfMsg(<< >>) = 0
      <3>1. << >> \in Text(RequestIds) /\ Len(<< >>) = 0
        BY TextEmpty
      <3>2. EndOfMsg(<< >>) \in Nat /\ EndOfMsg(<< >>) <= Len(<< >>)
        BY <3>1, EndOfMsgRange
      <3> QED BY ONLY <3>1, <3>2
    <2> QED BY <1>4, <2>1 DEF CompleteIn
  <1>9. /\ handled' = [handled EXCEPT ![c] = Append(@, id)]
        /\ replies' = [replies EXCEPT ![c] = Append(@, resp)]
    BY <1>3, <1>4, <1>5, <1>6
  <1>10. table' = table \/ \E k \in Cookies : table' = [table EXCEPT ![k] = c]
    BY <1>2 DEF Answered
  <1>11. f.pc # "posted" /\ f.pc # "request"
    BY <1>4
  <1> QED BY <1>3, <1>4, <1>7, <1>8, <1>9, <1>10, <1>11, CallKept DEF Ran
-----------------------------------------------------------------------------
(* What is answered and what waits: the event loop *)

\* A call begins, or there is none; objects that are not called stay, or are new.
Event ==
    /\ stack = << >> /\ UNCHANGED <<handled, replies, sent>>
    /\ stack' = << >> \/ \E f \in Frames : /\ stack' = <<f>> /\ f.pc \in {"bytes", "leave"}
                                           /\ f.pc = "leave" => ~conn'[f.c].active
    /\ \A d \in Conns : Live(d)' => \/ Live(d) /\ conn'[d] = conn[d]
                                    \/ conn[d].obj = "none" /\ conn'[d] = NewObject(d)
                                    \/ Live(d) /\ stack' # << >> /\ Top'.c = d
    /\ \A s \in Conns : /\ sock'[s] = "none" => sock[s] = "none"
                        /\ wire'[s] = wire[s] \/ wire[s] # << >>

LEMMA EmptyText == EndOfMsg(<< >>) = 0 /\ ~Complete(<< >>)
  <1>1. << >> \in Text(RequestIds) /\ Len(<< >>) = 0
    BY TextEmpty
  <1>2. EndOfMsg(<< >>) \in Nat /\ EndOfMsg(<< >>) <= Len(<< >>)
    BY <1>1, EndOfMsgRange
  <1>3. EndOfMsg(<< >>) = 0
    BY ONLY <1>1, <1>2
  <1> QED BY <1>3 DEF Complete

LEMMA EventStack ==
    ASSUME Event
    PROVE  /\ Posting' = {}
           /\ stack' # << >> => Top' \in Frames /\ Top'.pc \in {"bytes", "leave"} /\ (Top'.pc = "leave" => ~conn'[Top'.c].active)
  <1>1. CASE stack' = << >>
    <2>1. Posting' = {}
      BY <1>1, StackEmpty DEF Posting
    <2> QED BY <1>1, <2>1
  <1>2. CASE stack' # << >>
    <2>1. PICK f \in Frames : /\ stack' = <<f>> /\ f.pc \in {"bytes", "leave"}
                              /\ f.pc = "leave" => ~conn'[f.c].active
      BY <1>2 DEF Event
    <2>2. Nested(stack') /\ Last(stack') = f /\ OuterOf(stack') = {}
      BY <2>1, StackOne
    <2>3. PICK t : t = stack'
      OBVIOUS
    <2>4. PostingOf(t) = OuterOf(t)
      <3>1. Last(t).pc # "posted" /\ Nested(t) /\ t # << >>
        BY <1>2, <2>1, <2>2, <2>3
      <3> QED BY ONLY <3>1, StackTops
    <2> QED BY <2>1, <2>2, <2>3, <2>4 DEF Posting, Top
  <1> QED BY <1>1, <1>2

LEMMA EventKept ==
    ASSUME Inv, Kept, Event
    PROVE  Kept'
  <1>1. /\ stack = << >> /\ Posting = {} /\ (\A d \in Conns : (Holds(d) <=> Live(d)) /\ ~Ending(d))
        /\ UNCHANGED <<handled, replies, sent>>
    BY BetweenEvents DEF Event
  <1>2. /\ Posting' = {}
        /\ stack' # << >> => Top'.pc \in {"bytes", "leave"} /\ (Top'.pc = "leave" => ~conn'[Top'.c].active)
    BY EventStack
  <1>3. RepliedInv'
    <2>1. ASSUME NEW d \in Conns, Holds(d)'
          PROVE  Len(replies'[d]) = Len(handled'[d])
      <3>1. Live(d)'
        BY <2>1 DEF Holds
      <3>2. CASE Live(d)
        BY <1>1, <3>2 DEF Kept, RepliedInv
      <3>3. CASE conn[d].obj = "none"
        <4>1. Len(handled[d]) = 0
          BY <3>3 DEF Inv, ObjectInv
        <4>2. replies[d] \in Seq([to : RequestIds, status : Statuses]) /\ \A i \in 1 .. Len(replies[d]) : i <= Len(handled[d])
          BY DEF Kept, RepliedInv
        <4>3. PICK n \in Nat : n = Len(replies[d])
          BY <4>2, LenProperties
        <4>4. n = 0
          <5>1. n # 0 => n \in 1 .. n
            BY ONLY n \in Nat
          <5>2. n \in 1 .. n => n <= 0
            BY <4>1, <4>2, <4>3
          <5> QED BY ONLY n \in Nat, <5>1, <5>2
        <4> QED BY <1>1, <4>1, <4>3, <4>4
      <3> QED BY <3>1, <3>2, <3>3 DEF Event
    <2> QED BY <1>1, <2>1 DEF Kept, RepliedInv
  <1>4. WaitInv'
    BY <1>2 DEF WaitInv
  <1>5. StillInv'
    <2>1. ASSUME NEW d \in Conns, Live(d)', ~(stack' # << >> /\ Top'.c = d)
          PROVE  conn'[d].active /\ (conn'[d].rem = 0 => ~CompleteIn(sent', conn'[d].buf))
      <3>1. CASE Live(d) /\ conn'[d] = conn[d]
        BY <1>1, <3>1 DEF Kept, StillInv
      <3>2. CASE conn'[d] = NewObject(d)
        <4>1. ~CompleteIn(sent', << >>)
          BY EmptyText DEF CompleteIn
        <4>2. conn'[d].active /\ conn'[d].buf = << >>
          BY <3>2 DEF NewObject
        <4> QED BY <4>1, <4>2
      <3> QED BY <2>1, <3>1, <3>2 DEF Event
    <2> QED BY <1>2, <2>1 DEF StillInv
  <1>6. UnusedInv'
    BY <1>1 DEF Kept, UnusedInv, Event
  <1> QED BY <1>3, <1>4, <1>5, <1>6 DEF Kept

\* The object that is called owns the socket.
LEMMA CalledIs ==
    ASSUME Inv, stack = << >>, NEW s \in Conns, NEW c \in Conns, c = watch[s], ~Deleted(c)
    PROVE  Live(c) /\ Holds(c) /\ conn[c].in = s /\ conn[c].out = c
  <1>1. conn[c] \in Objects /\ conn[c].obj # "none"
    BY DEF Inv, TypeInv, WatchInv
  <1>2. Live(c)
    BY <1>1, NoneAssumption DEF Live, Deleted, Objects
  <1>3. Holds(c) /\ ~Ending(c) /\ Owner(c)
    BY <1>2, BetweenEvents
  <1> QED BY <1>2, <1>3 DEF Inv, WatchInv, Owner

\* What a read does
Read(c, s, n, o) ==
    /\ Live(c) /\ Holds(c) /\ conn[c].in = s /\ conn[c].out = c /\ stack = << >>
    /\ wire[s] # << >> /\ n \in 1 .. Len(wire[s])
    /\ conn' = [conn EXCEPT ![c] = o] /\ wire' = [wire EXCEPT ![s] = Beyond(wire[s], n)]
    /\ o.obj = conn[c].obj /\ o.in = conn[c].in /\ o.out = conn[c].out
    /\ o.rem = conn[c].rem /\ o.active = conn[c].active /\ o.buf = conn[c].buf \o Upto(wire[s], n)
    /\ stack' = <<Frame(c, n)>> /\ Frame(c, n) \in Frames
    /\ UNCHANGED <<sock, fault, handled, replies, sent>>

LEMMA ReceiveIs ==
    ASSUME Inv, NEW s \in Conns, NEW n \in 1 .. BufferSize, Receive(s, n), ~Deleted(watch[s])
    PROVE  \E c \in Conns : \E o : Read(c, s, n, o)
  <1>1. PICK c : c = watch[s]
    OBVIOUS
  <1>2. /\ c \in Conns /\ stack = << >> /\ n \in Nat /\ conn[c] \in Objects /\ wire[s] # << >>
    BY <1>1, BoundsAssumption DEF Receive, EventLoop, Inv, TypeInv
  <1>3. /\ n <= Len(wire[s])
        /\ conn' = [conn EXCEPT ![c].buf = @ \o SubSeq(wire[s], 1, n)]
        /\ wire' = [wire EXCEPT ![s] = SubSeq(@, n + 1, Len(@))]
        /\ stack' = <<Frame(c, n)>>
        /\ UNCHANGED <<sock, fault, handled, replies, sent>>
    BY <1>1 DEF Receive
  <1>4. Live(c) /\ Holds(c) /\ conn[c].in = s /\ conn[c].out = c
    BY <1>1, <1>2, CalledIs
  <1>5. n \in 1 .. Len(wire[s])
    <2>1. Len(wire[s]) \in Nat
      BY TextLen DEF Inv, TypeInv
    <2> QED BY <1>3, <2>1
  <1>6. PICK b : b = conn[c].buf \o Upto(wire[s], n)
    OBVIOUS
  <1>7. PICK o : o = [conn[c] EXCEPT !.buf = b]
    OBVIOUS
  <1>8. o.obj = conn[c].obj /\ o.in = conn[c].in /\ o.out = conn[c].out /\ o.buf = b /\ o.rem = conn[c].rem
    BY <1>2, <1>7 DEF Objects
  <1>9. o.active = conn[c].active
    BY <1>2, <1>7, Zenon DEF Objects
  <1>10. conn' = [conn EXCEPT ![c] = o] /\ wire' = [wire EXCEPT ![s] = Beyond(wire[s], n)]
    BY <1>2, <1>3, <1>6, <1>7 DEF Inv, TypeInv, Upto, Beyond
  <1>11. Frame(c, n) \in Frames
    BY <1>2, FrameType
  <1>12. Read(c, s, n, o)
    <2>1. stack' = <<Frame(c, n)>> /\ UNCHANGED <<sock, fault, handled, replies, sent>>
      BY <1>3
    <2> QED BY ONLY <1>2, <1>4, <1>5, <1>6, <1>8, <1>9, <1>10, <1>11, <2>1 DEF Read
  <1> QED BY <1>2, <1>12

\* What a read that fails does
Failed(c, o) ==
    /\ Live(c) /\ Holds(c) /\ stack = << >>
    /\ conn' = [conn EXCEPT ![c] = o] /\ ~o.active
    /\ o.obj = conn[c].obj /\ o.in = conn[c].in /\ o.out = conn[c].out
    /\ o.rem = conn[c].rem /\ o.buf = conn[c].buf
    /\ \E f \in Frames : f.c = c /\ f.pc = "leave" /\ stack' = <<f>>
    /\ UNCHANGED <<sock, fault, handled, replies, sent, wire>>

LEMMA ReceiveFailsIs ==
    ASSUME Inv, NEW s \in Conns, ReceiveFails(s), ~Deleted(watch[s])
    PROVE  \E c \in Conns : \E o : Failed(c, o)
  <1>1. PICK c : c = watch[s]
    OBVIOUS
  <1>2. c \in Conns /\ stack = << >> /\ conn[c] \in Objects
    BY <1>1 DEF ReceiveFails, EventLoop, Inv, TypeInv
  <1>3. /\ conn' = [conn EXCEPT ![c].active = FALSE]
        /\ stack' = <<[Frame(c, 0) EXCEPT !.pc = "leave"]>>
        /\ UNCHANGED <<sock, fault, handled, replies, sent, wire>>
    BY <1>1 DEF ReceiveFails
  <1>4. Live(c) /\ Holds(c)
    BY <1>1, <1>2, CalledIs
  <1>5. PICK o : o = [conn[c] EXCEPT !.active = FALSE]
    OBVIOUS
  <1>6. o.obj = conn[c].obj /\ o.in = conn[c].in /\ o.out = conn[c].out /\ o.buf = conn[c].buf /\ o.rem = conn[c].rem
    BY <1>2, <1>5 DEF Objects
  <1>7. ~o.active
    BY <1>2, <1>5, Zenon DEF Objects
  <1>8. conn' = [conn EXCEPT ![c] = o]
    BY <1>2, <1>3, <1>5 DEF Inv, TypeInv
  <1>9. PICK f \in Frames : f = [Frame(c, 0) EXCEPT !.pc = "leave"] /\ f.c = c /\ f.pc = "leave"
    <2>1. PICK g \in Frames : g = Frame(c, 0) /\ g.c = c
      BY <1>2, 0 \in Nat, FrameType DEF Frame
    <2>2. [g EXCEPT !.pc = "leave"] \in Frames /\ [g EXCEPT !.pc = "leave"].c = c
      BY <2>1 DEF Frames
    <2>3. [g EXCEPT !.pc = "leave"].pc = "leave"
      BY DEF Frames
    <2> QED BY <2>1, <2>2, <2>3
  <1> QED BY <1>2, <1>3, <1>4, <1>6, <1>7, <1>8, <1>9 DEF Failed

LEMMA NewEvent ==
    ASSUME Inv, stack = << >>, NEW c \in Conns, NewConnection(c), UNCHANGED <<stack, handled, replies, sent, wire>>
    PROVE  Event
  <1>1. /\ conn[c].obj = "none" /\ conn' = [conn EXCEPT ![c] = NewObject(c)]
        /\ sock' = [sock EXCEPT ![c] = "open"] /\ TypeInv
    BY DEF NewConnection, Inv
  <1>2. conn'[c] = NewObject(c) /\ \A d \in Conns : d # c => conn'[d] = conn[d]
    BY <1>1 DEF TypeInv
  <1>3. \A s \in Conns : sock'[s] = "none" => sock[s] = "none"
    BY <1>1 DEF TypeInv
  <1> QED BY <1>1, <1>2, <1>3 DEF Event, Live

LEMMA ReadEvent ==
    ASSUME Inv, NEW c \in Conns, NEW s \in Conns, NEW n, NEW o, Read(c, s, n, o)
    PROVE  Event /\ stack' # << >> /\ Top'.c = c /\ Top'.pc = "bytes" /\ ~Top'.pipelined /\ Top'.new = n
  <1>1. PICK f : f = Frame(c, n)
    OBVIOUS
  <1>2. f \in Frames /\ f.c = c /\ f.pc = "bytes" /\ f.new = n /\ stack' = <<f>>
    BY <1>1 DEF Read, Frame
  <1>3. ~f.pipelined
    BY <1>1, Zenon DEF Frame
  <1>4. stack' # << >> /\ Top' = f
    BY <1>2, StackOne DEF Top
  <1>5. \A d \in Conns : d # c => conn'[d] = conn[d]
    BY DEF Read, Inv, TypeInv
  <1>6. \A t \in Conns : sock'[t] = sock[t] /\ (wire'[t] = wire[t] \/ wire[t] # << >>)
    BY DEF Read, Inv, TypeInv
  <1>7. \A d \in Conns : Live(d)' => (Live(d) /\ conn'[d] = conn[d]) \/ (Live(d) /\ stack' # << >> /\ Top'.c = d)
    BY <1>2, <1>4, <1>5 DEF Read, Live
  <1>8. Event
    BY <1>2, <1>6, <1>7 DEF Event, Read
  <1> QED BY <1>2, <1>3, <1>4, <1>8

LEMMA FailedEvent ==
    ASSUME Inv, NEW c \in Conns, NEW o, Failed(c, o)
    PROVE  Event /\ stack' # << >> /\ Top'.c = c /\ Top'.pc = "leave"
  <1>1. PICK f \in Frames : f.c = c /\ f.pc = "leave" /\ stack' = <<f>>
    BY DEF Failed
  <1>2. stack' # << >> /\ Top' = f
    BY <1>1, StackOne DEF Top
  <1>3. \A d \in Conns : d # c => conn'[d] = conn[d]
    BY DEF Failed, Inv, TypeInv
  <1>4. conn'[c] = o
    BY DEF Failed, Inv, TypeInv
  <1>5. ~conn'[f.c].active
    BY <1>1, <1>4 DEF Failed
  <1>6. \A d \in Conns : Live(d)' => (Live(d) /\ conn'[d] = conn[d]) \/ (Live(d) /\ stack' # << >> /\ Top'.c = d)
    BY <1>1, <1>2, <1>3 DEF Failed, Live
  <1>7. Event
    BY <1>1, <1>5, <1>6 DEF Event, Failed
  <1> QED BY <1>1, <1>2, <1>7

\* Objects are deleted, or none.
LEMMA RegisterEvent ==
    ASSUME Inv, NEW p \in delayed, ContinueRegister(p), ~Deleted(p.c)
    PROVE  /\ Event /\ UNCHANGED <<stack, fault, wire>>
           /\ \A d \in Conns : Live(d)' => Live(d) /\ conn'[d] = conn[d]
  <1>0. stack = << >> /\ TypeInv
    BY DEF Inv, ContinueRegister, EventLoop
  <1>1. PICK c \in Conns : c = p.c
    BY <1>0 DEF TypeInv
  <1>2. UNCHANGED <<stack, fault, handled, replies, sent, wire>>
    BY DEF ContinueRegister
  <1>3. \/ UNCHANGED <<conn, sock>>
        \/ conn' = [conn EXCEPT ![c] = Destroyed(c)] /\ sock' = [sock EXCEPT ![conn[c].out] = "given"]
    BY <1>1 DEF ContinueRegister
  <1>4. Destroyed(c).obj = "deleted"
    BY <1>0, DestroyedType
  <1>5. \A d \in Conns : Live(d)' => Live(d) /\ conn'[d] = conn[d]
    BY <1>0, <1>3, <1>4 DEF Live, TypeInv
  <1>6. \A s \in Conns : sock'[s] = "none" => sock[s] = "none"
    BY <1>0, <1>3 DEF TypeInv
  <1>7. Event
    BY <1>0, <1>2, <1>5, <1>6 DEF Event
  <1> QED BY <1>2, <1>5, <1>7

LEMMA DeleteServerEvent ==
    ASSUME Inv, DeleteServer, ~\E c \in Conns : Live(c) /\ conn[c].cookie # None
    PROVE  /\ Event /\ UNCHANGED <<stack, wire>>
           /\ \A d \in Conns : ~Live(d)'
           /\ fault' = "none" => fault = "none"
  <1>0. stack = << >> /\ TypeInv /\ fault = "none"
    BY DEF Inv, DeleteServer, Serving, EventLoop
  <1>1. /\ Closing(UNION {OwnSockets(c) : c \in {d \in Conns : Live(d)}})
        /\ conn' = [c \in Conns |-> IF Live(c) THEN Destroyed(c) ELSE conn[c]]
        /\ UNCHANGED <<stack, handled, replies, sent, wire>>
    BY DEF DeleteServer
  <1>2. \A d \in Conns : Destroyed(d).obj = "deleted"
    BY <1>0, DestroyedType
  <1>3. \A d \in Conns : ~Live(d)'
    BY <1>1, <1>2 DEF Live
  <1>4. \A s \in Conns : sock'[s] = "none" => sock[s] = "none"
    BY <1>1 DEF Closing
  <1>5. Event
    BY <1>0, <1>1, <1>3, <1>4 DEF Event
  <1> QED BY <1>0, <1>1, <1>3, <1>5
-----------------------------------------------------------------------------
(* What is answered and what waits: the clients, a POST and the end of a call *)

\* A client writes rs to the socket s.
Wrote(s, rs) ==
    /\ stack = << >> /\ sent[s] = << >> /\ sock[s] = "open" /\ rs \in Seq(Requests)
    /\ sent' = [sent EXCEPT ![s] = rs] /\ wire' = [wire EXCEPT ![s] = Written(s, rs)]
    /\ UNCHANGED <<conn, sock, table, stack, fault, handled, replies>>

LEMMA ClientWritesIs ==
    ASSUME Inv, NEW s \in Conns, NEW script \in Scripts,
           NEW ks \in [DOMAIN script -> Cookies \cup {None}], ClientWrites(s, script, ks)
    PROVE  \E rs : Wrote(s, rs)
  <1>2. PICK rs : rs = [i \in DOMAIN script |-> [kind |-> script[i], cookie |-> ks[i]]]
    OBVIOUS
  <1>3. /\ sent' = [sent EXCEPT ![s] = rs] /\ wire' = [wire EXCEPT ![s] = Written(s, rs)]
        /\ UNCHANGED <<conn, sock, table, stack, fault, handled, replies>>
        /\ \A i \in DOMAIN script : ks[i] # None <=> script[i] \in OfCookie
        /\ stack = << >> /\ sent[s] = << >> /\ sock[s] = "open"
    BY <1>2 DEF ClientWrites, serverVars, Serving, EventLoop
  <1>4. rs \in Seq(Requests)
    <2>1. script \in Seq(Kinds) /\ Len(script) \in Nat /\ DOMAIN script = 1 .. Len(script)
      BY ScriptsAssumption, LenProperties
    <2>2. \A i \in 1 .. Len(script) : script[i] \in Kinds
      BY <2>1, ElementOfSeq
    <2>3. \A i \in 1 .. Len(script) : [kind |-> script[i], cookie |-> ks[i]] \in Requests
      BY <1>3, <2>1, <2>2 DEF Requests
    <2>4. \A S : \A f, n : n \in Nat /\ f \in [1 .. n -> S] => f \in Seq(S)
      OBVIOUS
    <2>5. rs \in [1 .. Len(script) -> Requests]
      BY <1>2, <2>1, <2>3
    <2> QED BY <2>1, <2>4, <2>5
  <1> QED BY <1>3, <1>4 DEF Wrote

\* What has been sent is still what it was.
LEMMA WroteAsk ==
    ASSUME Inv, NEW s \in Conns, NEW rs, Wrote(s, rs)
    PROVE  /\ \A id \in Known : AskIn(sent', id) = AskIn(sent, id)
           /\ \A d \in Conns : d # s => sent'[d] = sent[d] /\ wire'[d] = wire[d]
           /\ sent'[s] = rs /\ wire'[s] = Written(s, rs)
  <1>1. /\ \A d \in Conns : d # s => sent'[d] = sent[d] /\ wire'[d] = wire[d]
        /\ sent'[s] = rs /\ wire'[s] = Written(s, rs)
    BY DEF Wrote, Inv, TypeInv
  <1>2. ASSUME NEW id \in Known PROVE AskIn(sent', id) = AskIn(sent, id)
    <2>1. CASE id = Garbage
      BY <2>1 DEF AskIn
    <2>2. CASE id # Garbage
      <3>1. PICK t \in Conns : id \in OfSocket(t)
        BY <2>2 DEF Known
      <3>2. PICK n \in 1 .. Len(sent[t]) : id = Id(t, n)
        BY <2>2, <3>1 DEF OfSocket
      <3>3. t # s
        <4>1. Len(sent[s]) = 0
          BY EmptySeq DEF Wrote
        <4> QED BY <3>2, <4>1
      <3>4. id.on = t
        BY <3>2 DEF Id
      <3> QED BY <1>1, <3>3, <3>4 DEF AskIn
    <2> QED BY <2>1, <2>2
  <1> QED BY <1>1, <1>2

LEMMA WroteKept ==
    ASSUME Inv, Kept, NEW s \in Conns, NEW rs, Wrote(s, rs)
    PROVE  Kept'
  <1>1. /\ \A id \in Known : AskIn(sent', id) = AskIn(sent, id)
        /\ \A d \in Conns : d # s => sent'[d] = sent[d] /\ wire'[d] = wire[d]
    BY WroteAsk
  <1>2. stack = << >> /\ stack' = << >> /\ UNCHANGED <<conn, sock, table, handled, replies>> /\ sock[s] = "open"
    BY DEF Wrote
  <1>3. \A c \in Conns : (Holds(c)' <=> Holds(c)) /\ (Ending(c)' <=> Ending(c)) /\ (Live(c)' <=> Live(c))
    BY <1>2 DEF Holds, Ending, Live, Posting, Top
  <1>4. \A c \in Conns : \A i \in 1 .. Len(handled[c]) : AskIn(sent', handled[c][i]) = AskIn(sent, handled[c][i])
    <2> SUFFICES ASSUME NEW c \in Conns, NEW i \in 1 .. Len(handled[c])
                 PROVE  AskIn(sent', handled[c][i]) = AskIn(sent, handled[c][i])
      OBVIOUS
    <2>1. handled[c] \in Seq(Source(c)) /\ Source(c) \subseteq Known
      BY Sources DEF Inv, DataInv
    <2>2. handled[c][i] \in Source(c)
      BY <2>1, ElementOfSeq
    <2> QED BY <1>1, <2>1, <2>2
  <1>5. RepliedInv'
    <2>1. ASSUME NEW c \in Conns, NEW i \in 1 .. Len(replies[c])
          PROVE  i <= Len(handled[c]) /\ (replies[c][i].to = handled[c][i] \/ AskIn(sent', handled[c][i]).kind = "SETUP")
      <3>1. i <= Len(handled[c]) /\ (replies[c][i].to = handled[c][i] \/ AskIn(sent, handled[c][i]).kind = "SETUP")
        BY DEF Kept, RepliedInv
      <3>2. i \in 1 .. Len(handled[c])
        <4>1. Len(handled[c]) \in Nat
          BY LenProperties DEF Inv, TypeInv
        <4>2. i \in Int /\ 1 <= i
          OBVIOUS
        <4> QED BY ONLY <3>1, <4>1, <4>2
      <3> QED BY <1>4, <3>1, <3>2
    <2> QED BY <1>2, <1>3, <2>1 DEF Kept, RepliedInv
  <1>6. WaitInv'
    BY <1>2 DEF WaitInv, Handling
  <1>7. StillInv'
    <2>1. ASSUME NEW c \in Conns, CompleteIn(sent', conn[c].buf)
          PROVE  CompleteIn(sent, conn[c].buf)
      <3>1. conn[c].buf \in Text(Source(c)) /\ Source(c) \subseteq Known /\ Garbage \in Source(c)
        BY Sources DEF Inv, DataInv
      <3>2. Parse(conn[c].buf) \in Known
        BY <2>1, <3>1, ParseType DEF CompleteIn
      <3> QED BY <1>1, <2>1, <3>2 DEF CompleteIn
    <2> QED BY <1>2, <1>3, <2>1, StackEmpty DEF Kept, StillInv, Posting
  <1>8. UnusedInv'
    BY <1>1, <1>2 DEF Kept, UnusedInv
  <1> QED BY <1>5, <1>6, <1>7, <1>8 DEF Kept

\* The POST on c is that of prev's GET.
Joins(c, prev, o) ==
    /\ At(c, "request") /\ Request(c).kind = "POST" /\ Request(c).cookie \in Cookies
    /\ table[Request(c).cookie] = prev /\ Live(prev)
    /\ conn' = [conn EXCEPT ![prev] = o]
    /\ o.obj = conn[prev].obj /\ o.in = conn[c].in /\ o.out = conn[prev].out
    /\ o.rem = conn[prev].rem /\ o.active = conn[prev].active
    /\ Posting = Outer /\ Posting' = Outer \cup {c} /\ stack' # << >>
    /\ \/ /\ Rest(c) # << >> /\ Len(Rest(c)) <= Left(prev)
          /\ o.buf = conn[prev].buf \o Rest(c) /\ Top' = Frame(prev, Len(Rest(c)))
       \/ /\ ~(Rest(c) # << >> /\ Len(Rest(c)) <= Left(prev))
          /\ o.buf = conn[prev].buf /\ Top'.c = c /\ Top'.pc = "posted"
    /\ handled' = [handled EXCEPT ![c] = Append(@, RequestId(c))]
    /\ UNCHANGED <<sock, table, fault, replies, sent, wire>>

LEMMA TunnelingPOSTIs ==
    ASSUME Inv, NEW c \in Conns, TunnelingPOST(c)
    PROVE  \E prev \in Conns : \E o : Joins(c, prev, o)
  <1>0. TypeInv /\ At(c, "request") /\ Request(c).kind = "POST"
    BY DEF Inv, TunnelingPOST, Handles
  <1>2. PICK k \in Cookies : k = Request(c).cookie /\ k = SessionCookie(c)
    BY <1>0, RequestIs DEF SessionCookie
  <1>3. PICK prev \in Conns : prev = table[k] /\ Live(prev)
    BY <1>0, <1>2 DEF TunnelingPOST, TypeInv
  <1>5. PICK extra : extra = Rest(c) /\ Len(extra) \in Nat
    BY <1>0, RequestIs
  <1>6. PICK room \in BOOLEAN : room = (extra # << >> /\ Len(extra) <= Left(prev))
    OBVIOUS
  <1>7. PICK b : b = IF room THEN conn[prev].buf \o extra ELSE conn[prev].buf
    OBVIOUS
  <1>8. PICK f \in Frames : f = Frame(prev, Len(extra)) /\ f.pc = "bytes" /\ f.c = prev
    BY <1>5, FrameType DEF Frame
  <1>9. PICK o : o = [conn[prev] EXCEPT !.in = conn[c].in, !.buf = b]
    OBVIOUS
  <1>10. /\ conn' = [conn EXCEPT ![prev] = o]
         /\ handled' = [handled EXCEPT ![c] = Append(@, RequestId(c))]
         /\ UNCHANGED <<sock, table, fault, replies, sent, wire>>
    BY <1>0, <1>2, <1>3, <1>5, <1>6, <1>7, <1>9 DEF TunnelingPOST, TypeInv
  <1>11. LET posted == [stack EXCEPT ![Len(stack)].pc = "posted"]
         IN  stack' = IF room THEN Append(posted, f) ELSE posted
    BY <1>2, <1>3, <1>5, <1>6, <1>8 DEF TunnelingPOST
  <1>12. /\ stack' # << >> /\ Posting' = Outer \cup {c} /\ Posting = Outer
         /\ room => Top' = f
         /\ ~room => Top'.c = c /\ Top'.pc = "posted"
    BY <1>0, <1>8, <1>11, PostStack
  <1>13. conn[prev] \in Objects
    BY <1>0 DEF TypeInv
  <1>14. /\ o.obj = conn[prev].obj /\ o.in = conn[c].in /\ o.out = conn[prev].out
         /\ o.rem = conn[prev].rem /\ o.buf = b
    BY <1>9, <1>13 DEF Objects
  <1>15. o.active = conn[prev].active
    BY <1>9, <1>13, Zenon DEF Objects
  <1>16. \/ /\ Rest(c) # << >> /\ Len(Rest(c)) <= Left(prev)
            /\ o.buf = conn[prev].buf \o Rest(c) /\ Top' = Frame(prev, Len(Rest(c)))
         \/ /\ ~(Rest(c) # << >> /\ Len(Rest(c)) <= Left(prev))
            /\ o.buf = conn[prev].buf /\ Top'.c = c /\ Top'.pc = "posted"
    <2>1. CASE room
      BY <1>5, <1>6, <1>7, <1>8, <1>12, <1>14, <2>1
    <2>2. CASE ~room
      BY <1>5, <1>6, <1>7, <1>12, <1>14, <2>2
    <2> QED BY <2>1, <2>2
  <1>17. Joins(c, prev, o)
    BY <1>0, <1>2, <1>3, <1>10, <1>12, <1>14, <1>15, <1>16 DEF Joins
  <1> QED BY <1>3, <1>17

LEMMA JoinsKept ==
    ASSUME Inv, Kept, NEW c \in Conns, NEW prev \in Conns, NEW o, Joins(c, prev, o)
    PROVE  Kept'
  <1>1. /\ stack # << >> /\ c = Top.c /\ Top.pc = "request" /\ Live(c) /\ Handling
        /\ conn[c].buf \in Text(Source(c))
    BY AtIs DEF Joins, Handling
  <1>2. /\ conn'[prev] = o /\ \A d \in Conns : d # prev => conn'[d] = conn[d]
    BY DEF Joins, Inv, TypeInv
  <1>3. /\ Posting = Outer /\ Posting' = Outer \cup {c} /\ stack' # << >>
        /\ Outer \subseteq Conns
        /\ UNCHANGED <<sock, table, fault, replies, sent, wire>>
    BY PostingIs DEF Joins
  <1>4. \A d \in Conns : conn'[d].obj = conn[d].obj /\ conn'[d].rem = conn[d].rem /\ conn'[d].active = conn[d].active
    BY <1>2 DEF Joins
  <1>5. \A d \in Conns : (Live(d)' <=> Live(d)) /\ (Holds(d)' => Holds(d) /\ d # c) /\ ~Ending(d)
    BY <1>1, <1>3, <1>4 DEF Live, Holds, Ending
  <1>6. \A d \in Conns : d # c => handled'[d] = handled[d]
    BY DEF Joins, Inv, TypeInv
  <1>7. RepliedInv'
    <2>1. \A d \in Conns : Holds(d)' => Len(replies'[d]) = Len(handled'[d])
      BY <1>3, <1>5, <1>6 DEF Kept, RepliedInv
    <2>2. ASSUME NEW d \in Conns, NEW i \in 1 .. Len(replies[d])
          PROVE  i <= Len(handled'[d]) /\ (replies[d][i].to = handled'[d][i] \/ AskIn(sent, handled'[d][i]).kind = "SETUP")
      <3>1. i <= Len(handled[d]) /\ (replies[d][i].to = handled[d][i] \/ AskIn(sent, handled[d][i]).kind = "SETUP")
        BY DEF Kept, RepliedInv
      <3>2. CASE d # c
        BY <1>6, <3>1, <3>2
      <3>3. CASE d = c
        <4>1. RequestId(c) \in RequestIds /\ handled[c] \in Seq(RequestIds)
          BY RequestIs DEF Joins, Inv, TypeInv
        <4>2. handled'[c] = Append(handled[c], RequestId(c))
          BY DEF Joins, Inv, TypeInv
        <4>3. PICK h : h = handled[c]
          OBVIOUS
        <4>4. PICK id : id = RequestId(c)
          OBVIOUS
        <4>5. h \in Seq(RequestIds) /\ id \in RequestIds
          BY <4>1, <4>3, <4>4
        <4>6. Len(h) \in Nat /\ Len(Append(h, id)) = Len(h) + 1 /\ \A j \in 1 .. Len(h) : Append(h, id)[j] = h[j]
          BY ONLY <4>5, AppendProperties, LenProperties
        <4>7. i \in 1 .. Len(h) /\ i <= Len(h) + 1
          <5>1. i \in Int /\ 1 <= i /\ i <= Len(h)
            BY <3>1, <3>3, <4>3
          <5> QED BY ONLY <4>6, <5>1
        <4> QED BY <3>1, <3>3, <4>2, <4>3, <4>4, <4>6, <4>7
      <3> QED BY <3>2, <3>3
    <2> QED BY <1>3, <2>1, <2>2 DEF Kept, RepliedInv
  <1>8. \A b : AwaitsIn(sent, table, conn, b) => AwaitsIn(sent, table, conn', b)
    <2> SUFFICES ASSUME NEW b, AwaitsIn(sent, table, conn, b) PROVE AwaitsIn(sent, table, conn', b)
      OBVIOUS
    <2>1. PICK t : t = table[AskIn(sent, Parse(b)).cookie]
      OBVIOUS
    <2>2. t # None /\ conn[t].obj = "live"
      BY <2>1 DEF AwaitsIn
    <2>3. t \in Conns
      BY <2>1, <2>2 DEF AwaitsIn, Inv, TypeInv
    <2>4. conn'[t].obj = "live"
      BY <1>4, <2>2, <2>3
    <2> QED BY <2>1, <2>2, <2>4 DEF AwaitsIn
  <1>9. \A d \in Posting' : AwaitsIn(sent, table, conn, conn[d].buf) /\ conn[d].rem = 0
    <2>1. \A d \in Posting : AwaitsIn(sent, table, conn, conn[d].buf) /\ conn[d].rem = 0
      BY <1>1 DEF Kept, WaitInv
    <2>2. conn[c].rem = 0
      BY <1>1 DEF Kept, WaitInv
    <2>3. EndOfMsg(conn[c].buf) # 0
      BY <1>1 DEF Inv, StackInv, Complete
    <2>4. Request(c) = AskIn(sent, Parse(conn[c].buf))
      BY AskInIs DEF Request, RequestId
    <2>5. AwaitsIn(sent, table, conn, conn[c].buf)
      BY <2>3, <2>4, NoneAssumption DEF AwaitsIn, Joins, Live
    <2> QED BY <1>3, <2>1, <2>2, <2>5
  <1>10. WaitInv'
    <2>1. CASE Top'.c = c /\ Top'.pc = "posted"
      BY <2>1 DEF WaitInv, Handling
    <2>2. CASE o.buf = conn[prev].buf \o Rest(c) /\ Top' = Frame(prev, Len(Rest(c)))
      <3>1. Top'.c = prev /\ Top'.pc = "bytes" /\ Top'.new = Len(Rest(c))
        BY <2>2 DEF Frame
      <3>2. ASSUME prev \in Posting'
            PROVE  /\ AwaitsIn(sent, table, conn, o.buf)
                   /\ EndOfMsg(o.buf) + Len(Rest(c)) <= Len(o.buf)
        <4>1. PICK a : a = conn[prev].buf
          OBVIOUS
        <4>2. PICK e : e = Rest(c)
          OBVIOUS
        <4>3. a \in Text(Known) /\ e \in Text(Known)
          <5>1. conn[prev].buf \in Text(Source(prev)) /\ Source(prev) \subseteq Known
            BY Sources DEF Inv, DataInv
          <5>2. Rest(c) \in Text(Source(c)) /\ Source(c) \subseteq Known
            BY RequestIs, Sources DEF Joins, Inv
          <5> QED BY <4>1, <4>2, <5>1, <5>2, TextMonotonic
        <4>4. AwaitsIn(sent, table, conn, a)
          BY <1>9, <3>2, <4>1
        <4>5. EndOfMsg(a) \in Nat /\ EndOfMsg(a) <= Len(a) /\ EndOfMsg(a) # 0 /\ Len(a) \in Nat /\ Len(e) \in Nat
          BY <4>3, <4>4, EndOfMsgRange, TextLen DEF AwaitsIn
        <4>6. a \o e \in Text(Known) /\ Len(a \o e) = Len(a) + Len(e) /\ \A i \in 1 .. Len(a) : (a \o e)[i] = a[i]
          <5>1. PICK V : V = Known \X Int \X BOOLEAN
            OBVIOUS
          <5>2. a \in Seq(V) /\ e \in Seq(V) /\ Text(Known) = Seq(V)
            BY <4>3, <5>1 DEF Text
          <5>3. a \o e \in Seq(V) /\ Len(a \o e) = Len(a) + Len(e) /\ \A i \in 1 .. Len(a) : (a \o e)[i] = a[i]
            BY ONLY <5>2, Joined
          <5> QED BY <5>2, <5>3
        <4>7. PICK q : q = a \o e
          OBVIOUS
        <4>8. EndOfMsg(q) = EndOfMsg(a) /\ Parse(q) = Parse(a)
          <5>1. /\ q \in Text(Known) /\ EndOfMsg(a) <= Len(q) /\ \A i \in 1 .. EndOfMsg(a) : q[i] = a[i]
            BY <4>5, <4>6, <4>7
          <5> QED BY <4>3, <4>5, <5>1, SameHead
        <4>9. o.buf = q
          BY <2>2, <4>1, <4>2, <4>7
        <4>10. AwaitsIn(sent, table, conn, q)
          BY <4>4, <4>8 DEF AwaitsIn
        <4>11. EndOfMsg(q) + Len(e) <= Len(q)
          BY <4>5, <4>6, <4>7, <4>8
        <4> QED BY <4>2, <4>9, <4>10, <4>11
      <3>3. \A d \in Posting' :
               /\ AwaitsIn(sent, table, conn', conn'[d].buf) /\ conn'[d].rem = 0
               /\ Top'.c = d => EndOfMsg(conn'[d].buf) + Top'.new <= Len(conn'[d].buf)
        <4> SUFFICES ASSUME NEW d \in Posting'
                     PROVE  /\ AwaitsIn(sent, table, conn', conn'[d].buf) /\ conn'[d].rem = 0
                            /\ Top'.c = d => EndOfMsg(conn'[d].buf) + Top'.new <= Len(conn'[d].buf)
          OBVIOUS
        <4>1. d \in Conns /\ conn'[d].rem = 0
          BY <1>3, <1>4, <1>9
        <4>2. CASE d = prev
          BY <1>2, <1>8, <3>1, <3>2, <4>1, <4>2
        <4>3. CASE d # prev
          BY <1>2, <1>8, <1>9, <3>1, <4>1, <4>3
        <4> QED BY <4>1, <4>2, <4>3
      <3> QED BY <1>3, <3>1, <3>3 DEF WaitInv
    <2> QED BY <2>1, <2>2 DEF Joins
  <1>11. StillInv'
    <2>1. Top'.pc # "leave"
      BY DEF Joins, Frame
    <2>2. ASSUME NEW d \in Conns, Live(d)', d \notin Posting', Top'.c # d
          PROVE  conn'[d].active /\ (conn'[d].rem = 0 => ~CompleteIn(sent, conn'[d].buf))
      <3>1. Live(d) /\ d \notin Posting /\ Top.c # d
        BY <1>1, <1>3, <1>5, <2>2
      <3>2. conn[d].active /\ (conn[d].rem = 0 => ~CompleteIn(sent, conn[d].buf))
        BY <3>1 DEF Kept, StillInv
      <3>3. conn'[d].buf = conn[d].buf
        BY <1>2, <2>2 DEF Joins, Frame
      <3> QED BY <1>4, <3>2, <3>3
    <2> QED BY <1>3, <2>1, <2>2 DEF StillInv
  <1>12. UnusedInv'
    BY <1>3 DEF Kept, UnusedInv
  <1> QED BY <1>7, <1>10, <1>11, <1>12 DEF Kept

\* The object of a POST has given up its socket.
Gave(c, o) ==
    /\ stack # << >> /\ c = Top.c /\ Top.pc = "posted"
    /\ conn' = [conn EXCEPT ![c] = o] /\ o.obj = conn[c].obj
    /\ o.in = None /\ o.out = None /\ ~o.active
    /\ Posting = Outer \cup {c} /\ Posting' = Outer
    /\ stack' # << >> /\ Top'.c = c /\ Top'.pc = "leave"
    /\ UNCHANGED <<sock, fault, handled, replies, sent, wire>>

LEMMA PostedIs ==
    ASSUME Inv, NEW c \in Conns, Posted(c)
    PROVE  \E o : Gave(c, o)
  <1>1. /\ stack # << >> /\ Nested(stack) /\ c = Top.c /\ Top.pc = "posted" /\ conn[c] \in Objects
    BY AtIs DEF Posted
  <1>2. PICK f \in Frames : stack' = [stack EXCEPT ![Len(stack)] = f] /\ f.c = c /\ f.pc = "leave"
    BY <1>1, GotoIs DEF Posted
  <1>3. PICK o : o = [conn[c] EXCEPT !.in = None, !.out = None, !.active = FALSE]
    OBVIOUS
  <1>4. o.obj = conn[c].obj /\ o.in = None /\ o.out = None
    BY <1>1, <1>3 DEF Objects
  <1>5. ~o.active
    BY <1>1, <1>3, Zenon DEF Objects
  <1>6. conn' = [conn EXCEPT ![c] = o] /\ UNCHANGED <<sock, fault, handled, replies, sent, wire>>
    BY <1>3 DEF Posted, Inv, TypeInv
  <1>7. Nested(stack') /\ stack' # << >> /\ Last(stack') = f /\ OuterOf(stack') = OuterOf(stack)
    BY <1>1, <1>2, StackTop
  <1>8. PostingOf(stack') = OuterOf(stack')
    BY <1>2, <1>7, StackPosting
  <1>9. Posting = Outer \cup {c}
    BY <1>1, PostingIs
  <1> QED BY <1>1, <1>2, <1>4, <1>5, <1>6, <1>7, <1>8, <1>9 DEF Gave, Top, Outer, Posting

LEMMA GaveKept ==
    ASSUME Inv, Kept, NEW c \in Conns, NEW o, Gave(c, o)
    PROVE  Kept'
  <1>1. conn'[c] = o /\ \A d \in Conns : d # c => conn'[d] = conn[d]
    BY DEF Gave, Inv, TypeInv
  <1>2. Ending(c)'
    BY <1>1 DEF Gave, Ending
  <1>3. \A d \in Conns : d # c => (Live(d)' <=> Live(d)) /\ (Holds(d)' <=> Holds(d)) /\ (d \in Posting' <=> d \in Posting) /\ ~Ending(d)
    BY <1>1 DEF Gave, Live, Holds, Ending
  <1>4. RepliedInv'
    <2>1. \A d \in Conns : Holds(d)' /\ ~Ending(d)' => Len(replies[d]) = Len(handled[d])
      BY <1>2, <1>3 DEF Kept, RepliedInv
    <2> QED BY <2>1 DEF Kept, RepliedInv, Gave
  <1>5. WaitInv'
    BY DEF WaitInv, Handling, Gave
  <1>6. StillInv'
    <2>1. ~conn'[Top'.c].active
      BY <1>1 DEF Gave
    <2>2. \A d \in Conns : Live(d)' /\ d \notin Posting' /\ Top'.c # d =>
             conn'[d].active /\ (conn'[d].rem = 0 => ~CompleteIn(sent, conn'[d].buf))
      BY <1>1, <1>3 DEF Kept, StillInv, Gave
    <2> QED BY <2>1, <2>2 DEF StillInv, Gave
  <1>7. UnusedInv'
    BY DEF Kept, UnusedInv, Gave
  <1> QED BY <1>4, <1>5, <1>6, <1>7 DEF Kept

\* The call of c returns: c stays, or still waits within a POST, or is deleted.
Returned(c) ==
    /\ fault = "none" /\ stack # << >> /\ c = Top.c /\ Top.pc = "leave" /\ Live(c)
    /\ Posting = Outer /\ Posting' = Posting /\ (stack' # << >> => Top'.pc = "posted")
    /\ \A d \in Conns : d # c => conn'[d] = conn[d]
    /\ (conn'[c] = conn[c] /\ conn[c].active) \/ c \in Posting' \/ ~Live(c)'
    /\ \A s \in Conns : sock'[s] = "none" => sock[s] = "none"
    /\ UNCHANGED <<handled, replies, sent, wire>>

LEMMA LeaveIs ==
    ASSUME Inv, NEW c \in Conns, Leave(c)
    PROVE  Returned(c)
  <1>1. /\ At(c, "leave") /\ stack' = Front(stack) /\ stack # << >> /\ c = Top.c /\ Top.pc = "leave"
        /\ conn[c] \in Objects /\ Live(c) /\ Posting = Outer /\ TypeInv /\ fault = "none" /\ StackInv
        /\ Nested(stack) /\ Outer \subseteq Conns
    BY AtIs, InnerIs, PostingIs DEF Leave, Inv
  <1>2. UNCHANGED <<handled, replies, sent, wire>>
    BY DEF Leave
  <1>3. stack' # << >> => Top'.pc = "posted"
    <2>1. PICK t : t = Front(stack)
      OBVIOUS
    <2>2. t # << >> => Last(t).pc = "posted"
      BY <1>1, <2>1, StackPop
    <2> QED BY <1>1, <2>1, <2>2 DEF Top
  <1>4. CASE conn[c].active
    <2>1. UNCHANGED <<conn, sock>>
      BY <1>4 DEF Leave
    <2>2. \A d \in Outer : Live(d)'
      BY <1>1, <2>1 DEF StackInv, Live
    <2>3. Posting' = Posting
      BY <1>1, <2>2, LeaveStack
    <2> QED BY <1>1, <1>2, <1>3, <1>4, <2>1, <2>3 DEF Returned
  <1>5. CASE ~conn[c].active /\ c \in Outer
    <2>1. Closing({conn[c].in} \ {None}) /\ conn' = [conn EXCEPT ![c].in = None]
      BY <1>1, <1>5, InnerIs DEF Leave
    <2>2. \A d \in Conns : (d # c => conn'[d] = conn[d]) /\ conn'[d].obj = conn[d].obj
      BY <1>1, <2>1 DEF TypeInv, Objects
    <2>3. \A d \in Outer : Live(d)'
      BY <1>1, <2>2 DEF StackInv, Live
    <2>4. Posting' = Posting
      BY <1>1, <2>3, LeaveStack
    <2>5. \A s \in Conns : sock'[s] = "none" => sock[s] = "none"
      BY <2>1 DEF Closing
    <2> QED BY <1>1, <1>2, <1>3, <1>5, <2>2, <2>4, <2>5 DEF Returned
  <1>6. CASE ~conn[c].active /\ c \notin Outer
    <2>1. Closing(OwnSockets(c)) /\ conn' = [conn EXCEPT ![c] = Destroyed(c)]
      BY <1>1, <1>6, InnerIs DEF Leave
    <2>2. Destroyed(c).obj = "deleted"
      BY <1>1, DestroyedType
    <2>3. /\ \A d \in Conns : d # c => conn'[d] = conn[d]
          /\ ~Live(c)'
      BY <1>1, <2>1, <2>2 DEF TypeInv, Live
    <2>4. \A d \in Outer : Live(d)'
      BY <1>1, <1>6, <2>3 DEF StackInv, Live
    <2>5. Posting' = Posting
      BY <1>1, <2>4, LeaveStack
    <2>6. \A s \in Conns : sock'[s] = "none" => sock[s] = "none"
      BY <2>1 DEF Closing
    <2> QED BY <1>1, <1>2, <1>3, <1>6, <2>3, <2>5, <2>6 DEF Returned
  <1> QED BY <1>4, <1>5, <1>6

LEMMA ReturnedKept ==
    ASSUME Inv, Kept, NEW c \in Conns, Returned(c)
    PROVE  Kept'
  <1>1. \A d \in Conns : Holds(d)' => Holds(d) /\ ~Ending(d) /\ conn'[d] = conn[d]
    <2> SUFFICES ASSUME NEW d \in Conns, Holds(d)' PROVE Holds(d) /\ ~Ending(d) /\ conn'[d] = conn[d]
      OBVIOUS
    <2>1. Live(d)' /\ d \notin Posting'
      BY DEF Holds
    <2>2. conn'[d] = conn[d] /\ (d = c => conn[d].active)
      BY <2>1 DEF Returned
    <2>3. Live(d)
      BY <2>1, <2>2 DEF Live
    <2> QED BY <2>1, <2>2, <2>3 DEF Holds, Ending, Returned
  <1>2. RepliedInv'
    BY <1>1 DEF Kept, RepliedInv, Returned
  <1>3. WaitInv'
    BY DEF WaitInv, Handling, Returned
  <1>4. StillInv'
    <2>1. ASSUME NEW d \in Conns, Live(d)', d \notin Posting'
          PROVE  conn'[d].active /\ (conn'[d].rem = 0 => ~CompleteIn(sent, conn'[d].buf))
      <3>1. Holds(d) /\ conn'[d] = conn[d]
        BY <1>1, <2>1 DEF Holds
      <3>2. CASE d = c
        BY <2>1, <3>1, <3>2 DEF Kept, StillInv, Returned
      <3>3. CASE d # c
        BY <3>1, <3>3 DEF Kept, StillInv, Holds, Returned
      <3> QED BY <3>2, <3>3
    <2> QED BY <2>1 DEF StillInv, Returned
  <1>5. UnusedInv'
    BY DEF Kept, UnusedInv, Returned
  <1> QED BY <1>2, <1>3, <1>4, <1>5 DEF Kept

\* What changes nothing that is said of the objects
Idle == UNCHANGED <<conn, sock, table, stack, handled, replies, sent, wire>>

LEMMA FaultIdle ==
    ASSUME NEW what, Fault(what)
    PROVE  Idle /\ fault' = what
  BY DEF Fault, Idle

\* Every step is one of these.
Steps ==
    \/ Idle /\ (fault' = fault \/ fault' # "none")
    \/ \E s \in Conns : \E rs : Wrote(s, rs)
    \/ \E c \in Conns : NewConnection(c) /\ stack = << >> /\ UNCHANGED <<stack, fault, handled, replies, sent, wire>>
    \/ \E s, c \in Conns : \E n, o : Read(c, s, n, o)
    \/ \E c \in Conns : \E o : Failed(c, o)
    \/ \E c \in Conns : TooBig(c) \/ Scan(c) \/ Commands(c)
    \/ \E c, prev \in Conns : \E o : Joins(c, prev, o)
    \/ \E c \in Conns : \E o : Gave(c, o)
    \/ \E c \in Conns : Returned(c)
    \/ /\ Event /\ UNCHANGED <<stack, wire>> /\ (fault' = "none" => fault = "none")
       /\ \A d \in Conns : Live(d)' => Live(d) /\ conn'[d] = conn[d]

LEMMA StepIs ==
    ASSUME Inv, [Next]_vars
    PROVE  Steps
  <1>1. CASE UNCHANGED vars
    BY <1>1 DEF vars, serverVars, Idle, Steps
  <1>2. CASE Client
    <2>1. PICK s \in Conns : \/ \E script \in Scripts : \E ks \in [DOMAIN script -> Cookies \cup {None}] :
                                   ClientWrites(s, script, ks)
                             \/ ClientCloses(s)
      BY <1>2 DEF Client
    <2>2. CASE ClientCloses(s)
      BY <2>2 DEF ClientCloses, serverVars, Idle, Steps
    <2>3. CASE \E script \in Scripts : \E ks \in [DOMAIN script -> Cookies \cup {None}] : ClientWrites(s, script, ks)
      BY <2>3, ClientWritesIs DEF Steps
    <2> QED BY <2>1, <2>2, <2>3
  <1>3. CASE \E s \in Conns : \E n \in 1 .. BufferSize : Receive(s, n)
    <2>1. PICK s \in Conns : \E n \in 1 .. BufferSize : Receive(s, n)
      BY <1>3
    <2>2. PICK n \in 1 .. BufferSize : Receive(s, n)
      BY <2>1
    <2>3. CASE Deleted(watch[s])
      <3>1. Fault("socket")
        BY <2>2, <2>3 DEF Receive
      <3> QED BY <3>1, FaultIdle DEF Steps
    <2>4. CASE ~Deleted(watch[s])
      <3>1. PICK c \in Conns : \E o : Read(c, s, n, o)
        BY <2>2, <2>4, ReceiveIs
      <3> QED BY <3>1 DEF Steps
    <2> QED BY <2>3, <2>4
  <1>4. CASE \E s \in Conns : ReceiveFails(s)
    <2>1. PICK s \in Conns : ReceiveFails(s)
      BY <1>4
    <2>2. CASE Deleted(watch[s])
      <3>1. Fault("socket")
        BY <2>1, <2>2 DEF ReceiveFails
      <3> QED BY <3>1, FaultIdle DEF Steps
    <2>3. CASE ~Deleted(watch[s])
      BY <2>1, <2>3, ReceiveFailsIs DEF Steps
    <2> QED BY <2>2, <2>3
  <1>5. CASE \E c \in Conns : Accept(c)
    BY <1>5 DEF Accept, Serving, EventLoop, Steps
  <1>6. CASE \E c \in Conns : HandleRequestBytes(c)
    <2>1. PICK c \in Conns : HandleRequestBytes(c)
      BY <1>6
    <2>2. CASE TooBig(c) \/ Scan(c) \/ Commands(c)
      BY <2>2 DEF Steps
    <2>3. CASE Posted(c)
      BY <2>3, PostedIs DEF Steps
    <2>4. CASE Leave(c)
      BY <2>4, LeaveIs DEF Steps
    <2>5. CASE PostDangling(c)
      <3>1. Fault("cookie")
        BY <2>5 DEF PostDangling
      <3> QED BY <3>1, FaultIdle DEF Steps
    <2>6. CASE TunnelingPOST(c)
      BY <2>6, TunnelingPOSTIs DEF Steps
    <2> QED BY <2>1, <2>2, <2>3, <2>4, <2>5, <2>6 DEF HandleRequestBytes, Commands
  <1>7. CASE \E c \in Conns : AudioThread(c)
    <2>1. \E what \in {"audio", "config", "datagram"} : Fault(what)
      BY <1>7 DEF AudioThread
    <2> QED BY <2>1, FaultIdle DEF Steps
  <1>8. CASE \E c \in Conns : HandleResponse(c)
    BY <1>8 DEF HandleResponse, Serving, EventLoop, Steps, Idle
  <1>9. CASE RegisterStream
    BY <1>9 DEF RegisterStream, Idle, Steps
  <1>10. CASE DeleteServer
    <2>1. CASE \E c \in Conns : Live(c) /\ conn[c].cookie # None
      <3>1. Fault("table")
        BY <1>10, <2>1 DEF DeleteServer
      <3> QED BY <3>1, FaultIdle DEF Steps
    <2>2. CASE ~\E c \in Conns : Live(c) /\ conn[c].cookie # None
      BY <1>10, <2>2, DeleteServerEvent DEF Steps
    <2> QED BY <2>1, <2>2
  <1>11. CASE \E p \in delayed : ContinueRegister(p)
    <2>1. PICK p \in delayed : ContinueRegister(p)
      BY <1>11
    <2>2. CASE Deleted(p.c)
      <3>1. Fault("register")
        BY <2>1, <2>2 DEF ContinueRegister
      <3> QED BY <3>1, FaultIdle DEF Steps
    <2>3. CASE ~Deleted(p.c)
      <3>1. /\ Event /\ UNCHANGED <<stack, fault, wire>>
            /\ \A d \in Conns : Live(d)' => Live(d) /\ conn'[d] = conn[d]
        BY <2>1, <2>3, RegisterEvent
      <3> QED BY <3>1 DEF Steps
    <2> QED BY <2>2, <2>3
  <1> QED BY <1>1, <1>2, <1>3, <1>4, <1>5, <1>6, <1>7, <1>8, <1>9, <1>10, <1>11 DEF Next

LEMMA NextKept ==
    ASSUME Inv, Kept, [Next]_vars
    PROVE  Kept'
  <1>0. Steps
    BY StepIs
  <1>1. CASE Idle
    BY <1>1, IdleKept DEF Idle
  <1>2. CASE \E s \in Conns : \E rs : Wrote(s, rs)
    BY <1>2, WroteKept
  <1>3. CASE \E c \in Conns : NewConnection(c) /\ stack = << >> /\ UNCHANGED <<stack, fault, handled, replies, sent, wire>>
    BY <1>3, NewEvent, EventKept
  <1>4. CASE \E s, c \in Conns : \E n, o : Read(c, s, n, o)
    BY <1>4, ReadEvent, EventKept
  <1>5. CASE \E c \in Conns : \E o : Failed(c, o)
    BY <1>5, FailedEvent, EventKept
  <1>6. CASE \E c \in Conns : TooBig(c) \/ Scan(c) \/ Commands(c)
    BY <1>6, TooBigKept, ScanKept, CommandKept
  <1>7. CASE \E c, prev \in Conns : \E o : Joins(c, prev, o)
    BY <1>7, JoinsKept
  <1>8. CASE \E c \in Conns : \E o : Gave(c, o)
    BY <1>8, GaveKept
  <1>9. CASE \E c \in Conns : Returned(c)
    BY <1>9, ReturnedKept
  <1>10. CASE Event
    BY <1>10, EventKept
  <1> QED BY <1>0, <1>1, <1>2, <1>3, <1>4, <1>5, <1>6, <1>7, <1>8, <1>9, <1>10 DEF Steps
-----------------------------------------------------------------------------
(* What is handled exactly *)

\* How many bytes the call that runs is still to look at, of an object
New(c) == IF stack # << >> /\ Top.c = c /\ Top.pc = "bytes" /\ ~Top.pipelined THEN Top.new ELSE 0

\* An object whose call ends with its deletion
Gone(c) == stack # << >> /\ Top.c = c /\ Top.pc = "leave" /\ ~conn[c].active

OwnPart(c, rs, h) == \E n \in 0 .. UntilOf(rs) : h = SubSeq(IdsOf(c, rs), 1, n)
TunnelPart(c, rs, s, ss, h) ==
    /\ TunnelsOf(rs, ss) /\ Len(rs) = 1
    /\ \E m \in UntilOf(ss) .. Len(ss) : h = IdsOf(c, rs) \o SubSeq(IdsOf(s, ss), UntilOf(ss) + 1, m)

\* What c has handled begins what was meant for it; what it has not, it has still got
\* or will read.
Exact(c) ==
    /\ OwnPart(c, sent[c], handled[c]) \/ \E s \in Conns : TunnelPart(c, sent[c], s, sent[s], handled[c])
    /\ Holds(c) /\ conn[c].in = c => \E n : PlainAt(c, sent[c], n, handled[c], conn[c], wire[c])
    /\ Holds(c) /\ conn[c].in \in Conns \ {c} /\ ~Gone(c) =>
          \E m : TunnelAt(c, sent[c], conn[c].in, sent[conn[c].in], m, handled[c], conn[c].buf,
                          conn[c].rem + New(c), wire[conn[c].in])
    /\ c \in Posting =>
          HasPost(sent[c]) /\ handled[c] = SubSeq(IdsOf(c, sent[c]), 1, UntilOf(sent[c]))

ExactInv == fault = "none" /\ Orderly =>
    /\ \A c \in Conns : Exact(c)
    /\ Handling => Top.c \notin Posting

\* How many bytes a call with the frame f is still to look at
NewOf(f) == IF f.pc = "bytes" /\ ~f.pipelined THEN f.new ELSE 0

LEMMA NewIs ==
    /\ stack # << >> => New(Top.c) = NewOf(Top)
    /\ \A c : ~(stack # << >> /\ Top.c = c) => New(c) = 0 /\ ~Gone(c)
    /\ \A c : stack # << >> /\ Top.pc # "bytes" => New(c) = 0
    /\ \A f : f.pc # "bytes" => NewOf(f) = 0
  BY Zenon DEF New, NewOf, Gone

LEMMA NewNat == TypeInv => \A c \in Conns : New(c) \in Nat
  <1> SUFFICES ASSUME TypeInv, NEW c \in Conns PROVE New(c) \in Nat
    OBVIOUS
  <1>1. CASE stack # << >>
    <2>1. Top \in Frames
      BY <1>1, StackFacts DEF TypeInv, Top, Last
    <2>2. Top.new \in Nat
      BY <2>1 DEF Frames
    <2>3. New(c) = Top.new \/ New(c) = 0
      BY Zenon DEF New
    <2> QED BY <2>2, <2>3
  <1>2. CASE stack = << >>
    <2>1. New(c) = 0
      BY <1>2, NewIs
    <2> QED BY <2>1
  <1> QED BY <1>1, <1>2

LEMMA NothingOf ==
    ASSUME NEW c \in Conns
    PROVE  /\ UntilOf(<< >>) = 0 /\ ~HasPost(<< >>) /\ WiredOf(c, << >>)[0] = << >>
           /\ \A rs \in Seq(Requests) : SubSeq(IdsOf(c, rs), 1, 0) = << >>
  <1>1. << >> \in Seq(Requests) /\ Len(<< >>) = 0 /\ DOMAIN << >> = {}
    OBVIOUS
  <1>2. UntilOf(<< >>) \in 0 .. 0
    BY <1>1, UntilIs
  <1>3. WiredOf(c, << >>)[0] = << >>
    BY <1>1, WiredIs
  <1>4. ASSUME NEW rs \in Seq(Requests) PROVE SubSeq(IdsOf(c, rs), 1, 0) = << >>
    <2>1. PICK q : q = IdsOf(c, rs)
      OBVIOUS
    <2>2. q \in Seq(RequestIds)
      BY <2>1, IdsIs
    <2>3. Upto(q, 0) = << >>
      BY ONLY <2>2, CutEnds
    <2> QED BY <2>1, <2>3 DEF Upto
  <1> QED BY <1>1, <1>2, <1>3, <1>4 DEF HasPost

LEMMA OrderlyStays ==
    ASSUME sent' = sent
    PROVE  Orderly' <=> Orderly
  BY DEF Orderly, Posters, HasSent, Until

\* Of clients that make one tunnel, one makes the POST.
LEMMA OnePoster ==
    ASSUME Orderly, NEW s \in Conns, NEW t \in Conns, HasPost(sent[s]), HasPost(sent[t])
    PROVE  s = t
  <1>1. s \in Posters /\ t \in Posters
    BY DEF Posters, HasSent, HasPost
  <1>2. IsFiniteSet(Posters)
    BY ConnsAssumption, FS_Subset DEF Posters
  <1>3. Cardinality(Posters) \in Nat /\ Cardinality(Posters) <= 1
    BY <1>2, FS_CardinalityType DEF Orderly
  <1>4. s # t => Cardinality(Posters) > 1
    BY <1>1, <1>2, TwoOf
  <1> QED BY <1>3, <1>4

\* What c was, it still is.
LEMMA ExactStays ==
    ASSUME NEW d \in Conns, Exact(d), sent' = sent, handled'[d] = handled[d],
           d \in Posting' => d \in Posting,
           Holds(d)' => /\ Holds(d) /\ conn'[d] = conn[d] /\ New(d)' = New(d) /\ (Gone(d) => Gone(d)')
                        /\ conn[d].in \in Conns => wire'[conn[d].in] = wire[conn[d].in]
    PROVE  Exact(d)'
  <1>1. (OwnPart(d, sent[d], handled[d]) \/ \E s \in Conns : TunnelPart(d, sent[d], s, sent[s], handled[d]))'
    BY DEF Exact
  <1>2. (Holds(d) /\ conn[d].in = d => \E n : PlainAt(d, sent[d], n, handled[d], conn[d], wire[d]))'
    BY DEF Exact
  <1>3. (Holds(d) /\ conn[d].in \in Conns \ {d} /\ ~Gone(d) =>
            \E m : TunnelAt(d, sent[d], conn[d].in, sent[conn[d].in], m, handled[d], conn[d].buf,
                            conn[d].rem + New(d), wire[conn[d].in]))'
    BY DEF Exact
  <1>4. (d \in Posting => HasPost(sent[d]) /\ handled[d] = SubSeq(IdsOf(d, sent[d]), 1, UntilOf(sent[d])))'
    BY DEF Exact
  <1> QED BY <1>1, <1>2, <1>3, <1>4 DEF Exact

\* Objects that are not called
LEMMA OthersExact ==
    ASSUME NEW d \in Conns, Exact(d), sent' = sent, handled'[d] = handled[d],
           conn'[d] = conn[d], d \in Posting' <=> d \in Posting,
           ~(stack # << >> /\ Top.c = d), ~(stack' # << >> /\ Top'.c = d),
           Holds(d) /\ conn[d].in \in Conns => wire'[conn[d].in] = wire[conn[d].in]
    PROVE  Exact(d)'
  <1>1. New(d) = 0 /\ ~Gone(d)
    BY NewIs
  <1>2. New(d)' = 0
    BY Zenon DEF New
  <1>3. Holds(d)' <=> Holds(d)
    BY DEF Holds, Live
  <1> QED BY <1>1, <1>2, <1>3, ExactStays

LEMMA InitExact == Init => ExactInv
  <1> SUFFICES ASSUME Init PROVE ExactInv
    OBVIOUS
  <1>1. /\ stack = << >> /\ conn = [c \in Conns |-> NoObject] /\ sent = [c \in Conns |-> << >>]
        /\ handled = [c \in Conns |-> << >>]
    BY DEF Init
  <1>2. \A c \in Conns : ~Holds(c)
    BY <1>1 DEF Holds, Live, NoObject, NewObject
  <1>3. Posting = {} /\ ~Handling
    BY <1>1, StackEmpty DEF Posting, Handling
  <1>4. ASSUME NEW c \in Conns PROVE OwnPart(c, << >>, << >>)
    <2>1. << >> \in Seq(Requests) /\ 0 \in 0 .. 0
      OBVIOUS
    <2> QED BY <2>1, NothingOf DEF OwnPart
  <1>5. \A c \in Conns : Exact(c)
    BY <1>1, <1>2, <1>3, <1>4 DEF Exact
  <1> QED BY <1>3, <1>5 DEF ExactInv

\* What is said of parts follows of objects that have what they have not handled.
LEMMA PartOf ==
    ASSUME NEW c, NEW rs, NEW s, NEW ss, NEW h
    PROVE  /\ \A n, o, w : PlainAt(c, rs, n, h, o, w) => OwnPart(c, rs, h)
           /\ \A m, b, k, w : TunnelAt(c, rs, s, ss, m, h, b, k, w) => TunnelPart(c, rs, s, ss, h)
  BY DEF PlainAt, OwnPart, TunnelAt, TunnelPart

LEMMA RanStack ==
    ASSUME Inv, stack # << >>, NEW c \in Conns, NEW o, NEW f, Ran(c, o, f), Top.pc # "posted", f.pc # "posted"
    PROVE  stack' # << >> /\ Top' = f /\ Posting' = Posting
  <1>1. Nested(stack) /\ stack # << >> /\ Last(stack).pc # "posted"
    BY DEF Inv, StackInv, Top
  <1>2. f \in Frames /\ stack' = [stack EXCEPT ![Len(stack)] = f] /\ f.pc # "posted"
    BY DEF Ran
  <1>3. Nested(stack') /\ stack' # << >> /\ Last(stack') = f /\ OuterOf(stack') = OuterOf(stack)
    BY ONLY <1>1, <1>2, StackTops
  <1>4. PostingOf(stack) = OuterOf(stack)
    BY ONLY <1>1, StackTops
  <1>5. PostingOf(stack') = OuterOf(stack')
    BY ONLY <1>2, <1>3, StackTops
  <1> QED BY <1>3, <1>4, <1>5 DEF Top, Posting

\* The call that runs leaves its object exact.
LEMMA RanExact ==
    ASSUME Inv, ExactInv, Handling, NEW c \in Conns, c = Top.c, NEW o, NEW f, Ran(c, o, f),
           f.pc # "posted", fault = "none", Orderly,
           \A d \in Conns : d # c => handled'[d] = handled[d],
           OwnPart(c, sent[c], handled'[c]) \/ \E s \in Conns : TunnelPart(c, sent[c], s, sent[s], handled'[c]),
           conn[c].in = c => \E n : PlainAt(c, sent[c], n, handled'[c], o, wire[c]),
           conn[c].in \in Conns \ {c} /\ ~(f.pc = "leave" /\ ~o.active) =>
               \E m : TunnelAt(c, sent[c], conn[c].in, sent[conn[c].in], m, handled'[c], o.buf,
                               o.rem + NewOf(f), wire[conn[c].in])
    PROVE  ExactInv'
  <1>1. c \notin Posting /\ (\A d \in Conns : Exact(d)) /\ stack # << >> /\ Top.pc # "posted"
    BY DEF ExactInv, Handling
  <1>2. stack' # << >> /\ Top' = f /\ Posting' = Posting /\ f.c = c
    BY <1>1, RanStack DEF Ran
  <1>3. conn'[c] = o /\ \A d \in Conns : d # c => conn'[d] = conn[d]
    BY DEF Ran, Inv, TypeInv
  <1>4. ASSUME NEW d \in Conns, d # c PROVE Exact(d)'
    BY <1>1, <1>2, <1>3, <1>4, OthersExact DEF Ran
  <1>5. New(c)' = NewOf(f)
    BY <1>2, Zenon DEF New, NewOf
  <1>6. Gone(c)' <=> f.pc = "leave" /\ ~o.active
    BY <1>2, <1>3 DEF Gone
  <1>7. o.in = conn[c].in /\ sent' = sent /\ wire' = wire
    BY DEF Ran
  <1>8. Exact(c)'
    <2>1. (OwnPart(c, sent[c], handled[c]) \/ \E s \in Conns : TunnelPart(c, sent[c], s, sent[s], handled[c]))'
      BY <1>7
    <2>2. (Holds(c) /\ conn[c].in = c => \E n : PlainAt(c, sent[c], n, handled[c], conn[c], wire[c]))'
      BY <1>3, <1>7
    <2>3. (Holds(c) /\ conn[c].in \in Conns \ {c} /\ ~Gone(c) =>
              \E m : TunnelAt(c, sent[c], conn[c].in, sent[conn[c].in], m, handled[c], conn[c].buf,
                              conn[c].rem + New(c), wire[conn[c].in]))'
      BY <1>3, <1>5, <1>6, <1>7
    <2> QED BY <1>1, <1>2, <2>1, <2>2, <2>3 DEF Exact
  <1> QED BY <1>1, <1>2, <1>4, <1>8 DEF ExactInv
-----------------------------------------------------------------------------
(* What is handled exactly: the event loop and the clients *)

LEMMA IdleExact ==
    ASSUME ExactInv, Idle, fault' = fault \/ fault' # "none"
    PROVE  ExactInv'
  <1> SUFFICES ASSUME fault' = "none", Orderly'
               PROVE  (\A c \in Conns : Exact(c)') /\ (Handling' => Top'.c \notin Posting')
    BY DEF ExactInv
  <1>1. (\A c \in Conns : Exact(c)) /\ (Handling => Top.c \notin Posting)
    BY OrderlyStays DEF ExactInv, Idle
  <1>2. /\ Posting' = Posting /\ Top' = Top /\ (Handling' <=> Handling)
        /\ \A c \in Conns : (Holds(c)' <=> Holds(c)) /\ New(c)' = New(c) /\ (Gone(c)' <=> Gone(c))
    BY DEF Idle, Posting, Top, Handling, Holds, Live, New, Gone
  <1>3. ASSUME NEW c \in Conns PROVE Exact(c)'
    BY <1>1, <1>2, ExactStays DEF Idle
  <1> QED BY <1>1, <1>2, <1>3

\* Objects that stay while others are deleted
LEMMA DeletedExact ==
    ASSUME Inv, ExactInv, Event, UNCHANGED <<stack, wire>>, fault' = "none" => fault = "none",
           \A d \in Conns : Live(d)' => Live(d) /\ conn'[d] = conn[d]
    PROVE  ExactInv'
  <1> SUFFICES ASSUME fault' = "none", Orderly'
               PROVE  (\A c \in Conns : Exact(c)') /\ (Handling' => Top'.c \notin Posting')
    BY DEF ExactInv
  <1>1. /\ stack = << >> /\ stack' = << >> /\ sent' = sent /\ handled' = handled
        /\ \A c \in Conns : Exact(c)
    BY OrderlyStays DEF ExactInv, Event
  <1>2. Posting = {} /\ Posting' = {} /\ ~Handling'
    BY <1>1, StackEmpty DEF Posting, Handling
  <1>3. ASSUME NEW d \in Conns PROVE Exact(d)'
    <2>1. New(d) = 0 /\ New(d)' = 0 /\ ~Gone(d)
      BY <1>1 DEF New, Gone
    <2>2. Holds(d)' => Holds(d) /\ conn'[d] = conn[d]
      BY <1>2 DEF Holds
    <2> QED BY <1>1, <1>2, <2>1, <2>2, ExactStays
  <1> QED BY <1>2, <1>3

LEMMA NewExact ==
    ASSUME Inv, Kept, ExactInv, stack = << >>, NEW c \in Conns, NewConnection(c),
           UNCHANGED <<stack, fault, handled, replies, sent, wire>>
    PROVE  ExactInv'
  <1> SUFFICES ASSUME fault' = "none", Orderly'
               PROVE  (\A d \in Conns : Exact(d)') /\ (Handling' => Top'.c \notin Posting')
    BY DEF ExactInv
  <1>1. stack' = << >> /\ \A d \in Conns : Exact(d)
    BY OrderlyStays DEF ExactInv
  <1>2. Posting = {} /\ Posting' = {} /\ ~Handling'
    BY <1>1, StackEmpty DEF Posting, Handling
  <1>3. conn'[c] = NewObject(c) /\ \A d \in Conns : d # c => conn'[d] = conn[d]
    BY DEF NewConnection, Inv, TypeInv
  <1>4. ASSUME NEW d \in Conns, d # c PROVE Exact(d)'
    BY <1>1, <1>2, <1>3, <1>4, OthersExact
  <1>5. sent[c] = << >> /\ wire[c] = << >> /\ handled[c] = << >>
    <2>1. sock[c] = "none" /\ handled[c] = << >>
      BY DEF NewConnection, Inv, ObjectInv
    <2> QED BY <2>1 DEF Kept, UnusedInv
  <1>6. PlainAt(c, << >>, 0, << >>, NewObject(c), << >>)
    <2>1. NewObject(c).buf = << >> /\ NewObject(c).rem = 0
      BY DEF NewObject
    <2>2. << >> \o << >> = << >> /\ 0 \in 0 .. 0 /\ << >> \in Seq(Requests)
      OBVIOUS
    <2>3. /\ UntilOf(<< >>) = 0 /\ ~HasPost(<< >>) /\ WiredOf(c, << >>)[0] = << >>
          /\ SubSeq(IdsOf(c, << >>), 1, 0) = << >>
      BY <2>2, NothingOf
    <2> QED BY <2>1, <2>2, <2>3 DEF PlainAt
  <1>7. conn'[c].in = c
    BY <1>3 DEF NewObject
  <1>8. Exact(c)'
    <2>1. (OwnPart(c, sent[c], handled[c]) \/ \E s \in Conns : TunnelPart(c, sent[c], s, sent[s], handled[c]))'
      BY <1>1 DEF Exact
    <2>2. (Holds(c) /\ conn[c].in = c => \E n : PlainAt(c, sent[c], n, handled[c], conn[c], wire[c]))'
      BY <1>3, <1>5, <1>6
    <2>3. (Holds(c) /\ conn[c].in \in Conns \ {c} /\ ~Gone(c) =>
              \E m : TunnelAt(c, sent[c], conn[c].in, sent[conn[c].in], m, handled[c], conn[c].buf,
                              conn[c].rem + New(c), wire[conn[c].in]))'
      BY <1>7
    <2> QED BY <1>2, <2>1, <2>2, <2>3 DEF Exact
  <1> QED BY <1>2, <1>4, <1>8

LEMMA FailedExact ==
    ASSUME Inv, ExactInv, NEW c \in Conns, NEW o, Failed(c, o)
    PROVE  ExactInv'
  <1> SUFFICES ASSUME fault' = "none", Orderly'
               PROVE  (\A d \in Conns : Exact(d)') /\ (Handling' => Top'.c \notin Posting')
    BY DEF ExactInv
  <1>1. \A d \in Conns : Exact(d)
    BY OrderlyStays DEF ExactInv, Failed
  <1>2. stack = << >> /\ stack' # << >> /\ Top'.c = c /\ Top'.pc = "leave" /\ Posting' = {} /\ Posting = {}
    BY FailedEvent, EventStack, StackEmpty DEF Posting, Event
  <1>3. conn'[c] = o /\ \A d \in Conns : d # c => conn'[d] = conn[d]
    BY DEF Failed, Inv, TypeInv
  <1>4. ASSUME NEW d \in Conns, d # c PROVE Exact(d)'
    BY <1>1, <1>2, <1>3, <1>4, OthersExact DEF Failed
  <1>5. Gone(c)'
    BY <1>2, <1>3 DEF Gone, Failed
  <1>6. Exact(c)'
    <2>1. (OwnPart(c, sent[c], handled[c]) \/ \E s \in Conns : TunnelPart(c, sent[c], s, sent[s], handled[c]))'
      BY <1>1 DEF Exact, Failed
    <2>2. (Holds(c) /\ conn[c].in = c => \E n : PlainAt(c, sent[c], n, handled[c], conn[c], wire[c]))'
      <3> SUFFICES ASSUME conn'[c].in = c PROVE \E n : PlainAt(c, sent[c], n, handled[c], o, wire[c])
        BY <1>3 DEF Failed
      <3>1. PICK n : PlainAt(c, sent[c], n, handled[c], conn[c], wire[c])
        BY <1>1, <1>3 DEF Exact, Failed
      <3>2. PlainAt(c, sent[c], n, handled[c], o, wire[c])
        BY <3>1 DEF PlainAt, Failed
      <3> QED BY <3>2
    <2> QED BY <1>2, <1>5, <2>1, <2>2 DEF Exact
  <1> QED BY <1>2, <1>4, <1>6 DEF Handling

LEMMA ReadExact ==
    ASSUME Inv, ExactInv, NEW c \in Conns, NEW s \in Conns, NEW n, NEW o, Read(c, s, n, o)
    PROVE  ExactInv'
  <1> SUFFICES ASSUME fault' = "none", Orderly'
               PROVE  (\A d \in Conns : Exact(d)') /\ (Handling' => Top'.c \notin Posting')
    BY DEF ExactInv
  <1>1. \A d \in Conns : Exact(d)
    BY OrderlyStays DEF ExactInv, Read
  <1>2. /\ stack = << >> /\ stack' # << >> /\ Top'.c = c /\ Top'.pc = "bytes" /\ ~Top'.pipelined /\ Top'.new = n
        /\ Posting' = {} /\ Posting = {}
    BY ReadEvent, EventStack, StackEmpty DEF Posting, Event
  <1>3. /\ conn'[c] = o /\ \A d \in Conns : d # c => conn'[d] = conn[d]
        /\ wire'[s] = Beyond(wire[s], n) /\ \A d \in Conns : d # s => wire'[d] = wire[d]
    BY DEF Read, Inv, TypeInv
  <1>4. ASSUME NEW d \in Conns, d # c PROVE Exact(d)'
    <2>1. Holds(d) => conn[d].in # s
      BY <1>4, NoneAssumption DEF Inv, OwnerInv, OwnSockets, Read
    <2> QED BY <1>1, <1>2, <1>3, <1>4, <2>1, OthersExact DEF Read
  <1>t. wire[s] \in Text(RequestIds) /\ conn[c].buf \in Text(RequestIds) /\ Len(wire[s]) \in Nat /\ n \in 0 .. Len(wire[s]) /\ n \in Nat
    <2>1. wire[s] \in Text(RequestIds) /\ conn[c] \in Objects
      BY DEF Inv, TypeInv
    <2>2. conn[c].buf \in Text(RequestIds)
      BY <2>1 DEF Objects
    <2>3. Len(wire[s]) \in Nat
      BY <2>1, TextLen
    <2>4. n \in 1 .. Len(wire[s])
      BY DEF Read
    <2> QED BY <2>1, <2>2, <2>3, <2>4
  <1>5. CASE s = c
    <2>1. PICK k : PlainAt(c, sent[c], k, handled[c], conn[c], wire[c])
      BY <1>1, <1>5 DEF Exact, Read
    <2>2. (conn[c].buf \o Upto(wire[s], n)) \o Beyond(wire[s], n) = conn[c].buf \o wire[s]
      <3>1. PICK V : V = RequestIds \X Int \X BOOLEAN
        OBVIOUS
      <3>2. conn[c].buf \in Seq(V) /\ wire[s] \in Seq(V)
        BY <1>t, <3>1 DEF Text
      <3>3. /\ Upto(wire[s], n) \in Seq(V) /\ Beyond(wire[s], n) \in Seq(V)
            /\ Upto(wire[s], n) \o Beyond(wire[s], n) = wire[s]
        BY <1>t, <3>2, Cut
      <3>4. \A x, y, z \in Seq(V) : (x \o y) \o z = x \o (y \o z)
        <4>1. Associates(Seq(V))
          BY ONLY ConcatThrice
        <4> QED BY ONLY <4>1 DEF Associates
      <3>5. (conn[c].buf \o Upto(wire[s], n)) \o Beyond(wire[s], n) = conn[c].buf \o (Upto(wire[s], n) \o Beyond(wire[s], n))
        BY ONLY <3>2, <3>3, <3>4
      <3> QED BY ONLY <3>3, <3>5
    <2>3. PlainAt(c, sent[c], k, handled[c], o, wire'[c])
      BY <1>3, <1>5, <2>1, <2>2 DEF PlainAt, Read
    <2>4. Exact(c)'
      <3>1. (OwnPart(c, sent[c], handled[c]) \/ \E t \in Conns : TunnelPart(c, sent[c], t, sent[t], handled[c]))'
        BY <1>1 DEF Exact, Read
      <3>2. (Holds(c) /\ conn[c].in = c => \E j : PlainAt(c, sent[c], j, handled[c], conn[c], wire[c]))'
        BY <1>3, <2>3 DEF Read
      <3>3. conn'[c].in = c
        BY <1>3, <1>5 DEF Read
      <3> QED BY <1>2, <3>1, <3>2, <3>3 DEF Exact
    <2> QED BY <1>2, <1>4, <2>4
  <1>6. CASE s # c
    <2>1. New(c) = 0 /\ ~Gone(c) /\ New(c)' = n
      BY <1>2, Zenon DEF New, Gone
    <2>2. PICK m : TunnelAt(c, sent[c], s, sent[s], m, handled[c], conn[c].buf, conn[c].rem + 0, wire[s])
      BY <1>1, <1>6, <2>1 DEF Exact, Read
    <2>3. TunnelAt(c, sent[c], s, sent[s], m, handled[c], conn[c].buf \o Upto(wire[s], n), (conn[c].rem + 0) + n, Beyond(wire[s], n))
      BY <1>t, <2>2, TunnelReceives
    <2>4. (conn[c].rem + 0) + n = o.rem + n
      <3>1. conn[c].rem \in 0 .. 3
        BY DEF Inv, TypeInv, Objects
      <3>2. \A i \in 0 .. 3 : i + 0 = i
        OBVIOUS
      <3> QED BY <3>1, <3>2 DEF Read
    <2>5. TunnelAt(c, sent[c], s, sent[s], m, handled[c], o.buf, o.rem + n, wire'[s])
      BY <1>3, <2>3, <2>4 DEF Read
    <2>6. Exact(c)'
      <3>1. (OwnPart(c, sent[c], handled[c]) \/ \E t \in Conns : TunnelPart(c, sent[c], t, sent[t], handled[c]))'
        BY <1>1 DEF Exact, Read
      <3>2. (Holds(c) /\ conn[c].in \in Conns \ {c} /\ ~Gone(c) =>
                \E j : TunnelAt(c, sent[c], conn[c].in, sent[conn[c].in], j, handled[c], conn[c].buf,
                                conn[c].rem + New(c), wire[conn[c].in]))'
        BY <1>3, <2>1, <2>5 DEF Read
      <3>3. conn'[c].in # c
        BY <1>3, <1>6 DEF Read
      <3> QED BY <1>2, <3>1, <3>2, <3>3 DEF Exact
    <2> QED BY <1>2, <1>4, <2>6
  <1> QED BY <1>5, <1>6
-----------------------------------------------------------------------------
(* What is handled exactly: what clients write and the end of a call *)

\* The clients that make one tunnel made no more before one of them wrote.
LEMMA OrderlyBefore ==
    ASSUME Inv, NEW s \in Conns, NEW rs, Wrote(s, rs), Orderly'
    PROVE  Orderly
  <1>1. DOMAIN << >> = {}
    OBVIOUS
  <1>2. sent[s] = << >> /\ sent'[s] = rs /\ \A d \in Conns : d # s => sent'[d] = sent[d]
    BY WroteAsk DEF Wrote
  <1>3. \A d \in Conns : \A k : HasSent(d, k) => d # s /\ HasSent(d, k)'
    BY <1>1, <1>2 DEF HasSent
  <1>4. Cardinality(Posters) <= 1
    <2>1. PICK S : S = Posters'
      OBVIOUS
    <2>2. Posters \subseteq S /\ S \subseteq Conns
      BY <1>3, <2>1 DEF Posters
    <2>3. IsFiniteSet(S) /\ IsFiniteSet(Posters)
      BY <2>2, ConnsAssumption, FS_Subset
    <2>4. Cardinality(Posters) <= Cardinality(S) /\ Cardinality(Posters) \in Nat /\ Cardinality(S) \in Nat
      BY <2>2, <2>3, FS_Subset, FS_CardinalityType
    <2>5. Cardinality(S) <= 1
      BY <2>1 DEF Orderly
    <2> QED BY <2>4, <2>5
  <1>5. \A d \in Posters : \A i \in Until(d) + 1 .. Len(sent[d]) : sent[d][i].kind # "POST"
    <2> SUFFICES ASSUME NEW d \in Posters PROVE \A i \in Until(d) + 1 .. Len(sent[d]) : sent[d][i].kind # "POST"
      OBVIOUS
    <2>1. d \in Conns /\ d # s /\ d \in Posters' /\ sent'[d] = sent[d]
      BY <1>2, <1>3 DEF Posters
    <2>2. Until(d)' = Until(d)
      BY <2>1 DEF Until
    <2>3. \A i \in Until(d)' + 1 .. Len(sent'[d]) : sent'[d][i].kind # "POST"
      BY <2>1 DEF Orderly
    <2> QED BY <2>1, <2>2, <2>3
  <1>6. \A c \in Conns : Posters # {} /\ HasSent(c, "GET") => Len(sent[c]) = 1
    <2> SUFFICES ASSUME NEW c \in Conns, Posters # {}, HasSent(c, "GET") PROVE Len(sent[c]) = 1
      OBVIOUS
    <2>1. Posters' # {} /\ HasSent(c, "GET")' /\ sent'[c] = sent[c]
      BY <1>2, <1>3 DEF Posters
    <2>2. Len(sent'[c]) = 1
      BY <2>1 DEF Orderly
    <2> QED BY <2>1, <2>2
  <1> QED BY <1>4, <1>5, <1>6 DEF Orderly

LEMMA NoTunnel ==
    /\ \A rs : ~TunnelsOf(rs, << >>) /\ ~TunnelsOf(<< >>, rs)
    /\ Len(<< >>) = 0
  BY DEF TunnelsOf

\* Of nothing every part is nothing.
LEMMA EmptyPart ==
    ASSUME NEW S, NEW a \in Text(S), NEW b \in Text(S), a \o b = << >>
    PROVE  a = << >>
  <1>1. PICK V : V = S \X Int \X BOOLEAN
    OBVIOUS
  <1>2. a \in Seq(V) /\ b \in Seq(V) /\ Len(a \o b) = 0
    BY <1>1, NoTunnel DEF Text
  <1>3. \A x, y \in Seq(V) : Len(x \o y) = Len(x) + Len(y) /\ Len(x) \in Nat /\ Len(y) \in Nat
    BY ConcatProperties, LenProperties
  <1>4. \A m, n \in Nat : m + n = 0 => m = 0
    OBVIOUS
  <1>5. Len(a) = 0
    BY ONLY <1>2, <1>3, <1>4
  <1> QED BY <1>2, <1>5, EmptySeq

LEMMA WroteExact ==
    ASSUME Inv, ExactInv, NEW s \in Conns, NEW rs, Wrote(s, rs)
    PROVE  ExactInv'
  <1> SUFFICES ASSUME fault' = "none", Orderly'
               PROVE  (\A d \in Conns : Exact(d)') /\ (Handling' => Top'.c \notin Posting')
    BY DEF ExactInv
  <1>1. \A d \in Conns : Exact(d)
    BY OrderlyBefore DEF ExactInv, Wrote
  <1>2. stack = << >> /\ stack' = << >> /\ Posting = {} /\ Posting' = {} /\ ~Handling'
    BY StackEmpty DEF Posting, Handling, Wrote
  <1>3. /\ sent[s] = << >> /\ sent'[s] = rs /\ wire'[s] = Written(s, rs) /\ conn' = conn /\ handled' = handled
        /\ \A d \in Conns : d # s => sent'[d] = sent[d] /\ wire'[d] = wire[d]
    BY WroteAsk DEF Wrote
  <1>4. \A d \in Conns : New(d) = 0 /\ New(d)' = 0 /\ ~Gone(d) /\ ~Gone(d)' /\ (Holds(d)' <=> Holds(d))
    BY <1>2, <1>3 DEF New, Gone, Holds, Live
  <1>5. ASSUME NEW d \in Conns, d # s PROVE Exact(d)'
    <2>1. \A t \in Conns : TunnelsOf(sent[d], sent[t]) => t # s
      BY <1>3, NoTunnel
    <2>2. (OwnPart(d, sent[d], handled[d]) \/ \E t \in Conns : TunnelPart(d, sent[d], t, sent[t], handled[d]))'
      <3>1. CASE OwnPart(d, sent[d], handled[d])
        BY <1>3, <1>5, <3>1
      <3>2. CASE \E t \in Conns : TunnelPart(d, sent[d], t, sent[t], handled[d])
        <4>1. PICK t \in Conns : TunnelPart(d, sent[d], t, sent[t], handled[d])
          BY <3>2
        <4>2. t # s
          BY <2>1, <4>1 DEF TunnelPart
        <4> QED BY <1>3, <1>5, <4>1, <4>2
      <3> QED BY <1>1, <3>1, <3>2 DEF Exact
    <2>3. (Holds(d) /\ conn[d].in = d => \E n : PlainAt(d, sent[d], n, handled[d], conn[d], wire[d]))'
      BY <1>1, <1>3, <1>4, <1>5 DEF Exact
    <2>4. (Holds(d) /\ conn[d].in \in Conns \ {d} /\ ~Gone(d) =>
              \E m : TunnelAt(d, sent[d], conn[d].in, sent[conn[d].in], m, handled[d], conn[d].buf,
                              conn[d].rem + New(d), wire[conn[d].in]))'
      <3> SUFFICES ASSUME Holds(d), conn[d].in \in Conns \ {d}
                   PROVE  \E m : TunnelAt(d, sent'[d], conn[d].in, sent'[conn[d].in], m, handled[d], conn[d].buf,
                                          conn[d].rem + 0, wire'[conn[d].in])
        BY <1>3, <1>4
      <3>1. PICK m : TunnelAt(d, sent[d], conn[d].in, sent[conn[d].in], m, handled[d], conn[d].buf,
                              conn[d].rem + 0, wire[conn[d].in])
        BY <1>1, <1>4 DEF Exact
      <3>2. conn[d].in # s
        BY <2>1, <3>1 DEF TunnelAt
      <3> QED BY <1>3, <1>5, <3>1, <3>2
    <2> QED BY <1>2, <2>2, <2>3, <2>4 DEF Exact
  <1>6. Exact(s)'
    <2>0. rs \in Seq(Requests) /\ << >> \in Seq(Requests)
      BY DEF Wrote
    <2>1. handled[s] = << >>
      <3>1. OwnPart(s, << >>, handled[s])
        BY <1>1, <1>3, NoTunnel DEF Exact, TunnelPart
      <3>2. PICK n \in 0 .. 0 : handled[s] = SubSeq(IdsOf(s, << >>), 1, n)
        BY <3>1, NothingOf DEF OwnPart
      <3>3. n = 0
        OBVIOUS
      <3> QED BY <2>0, <3>2, <3>3, NothingOf
    <2>2. SubSeq(IdsOf(s, rs), 1, 0) = << >> /\ 0 \in 0 .. UntilOf(rs)
      BY <2>0, NothingOf, UntilIs
    <2>3. (OwnPart(s, sent[s], handled[s]) \/ \E t \in Conns : TunnelPart(s, sent[s], t, sent[t], handled[s]))'
      BY <1>3, <2>1, <2>2 DEF OwnPart
    <2>4. (Holds(s) /\ conn[s].in = s => \E n : PlainAt(s, sent[s], n, handled[s], conn[s], wire[s]))'
      <3> SUFFICES ASSUME Holds(s), conn[s].in = s
                   PROVE  \E n : PlainAt(s, rs, n, << >>, conn[s], Written(s, rs))
        BY <1>3, <1>4, <2>1
      <3>1. PICK n : PlainAt(s, << >>, n, << >>, conn[s], wire[s])
        BY <1>1, <1>3, <2>1 DEF Exact
      <3>2. conn[s].buf \o wire[s] = << >> /\ conn[s].rem = 0
        <4>1. n \in 0 .. 0 /\ conn[s].buf \o wire[s] = WiredOf(s, << >>)[n] /\ conn[s].rem = 0
          BY <3>1, NothingOf DEF PlainAt
        <4>2. n = 0
          BY <4>1
        <4> QED BY <4>1, <4>2, NothingOf
      <3>3. conn[s].buf = << >>
        <4>1. conn[s].buf \in Text(RequestIds) /\ wire[s] \in Text(RequestIds)
          BY DEF Inv, TypeInv, Objects
        <4> QED BY <3>2, <4>1, EmptyPart
      <3>4. << >> \o Written(s, rs) = WiredOf(s, rs)[0]
        <4>1. PICK V : V = RequestIds \X Int \X BOOLEAN
          OBVIOUS
        <4>2. Written(s, rs) = WiredOf(s, rs)[0] /\ WiredOf(s, rs)[0] \in Seq(V)
          <5>1. 0 \in 0 .. Len(rs)
            BY <2>0, LenProperties
          <5> QED BY <2>0, <4>1, <5>1, WiredIs DEF Text
        <4> QED BY <4>2, ConcatEmptySeq
      <3>5. ~(0 = UntilOf(rs) /\ HasPost(rs))
        <4>1. HasPost(rs) => UntilOf(rs) \in 1 .. Len(rs)
          BY <2>0, UntilIs
        <4> QED BY <4>1
      <3>6. PlainAt(s, rs, 0, << >>, conn[s], Written(s, rs))
        BY <2>2, <3>2, <3>3, <3>4, <3>5 DEF PlainAt
      <3> QED BY <3>6
    <2>5. (Holds(s) /\ conn[s].in \in Conns \ {s} /\ ~Gone(s) =>
              \E m : TunnelAt(s, sent[s], conn[s].in, sent[conn[s].in], m, handled[s], conn[s].buf,
                              conn[s].rem + New(s), wire[conn[s].in]))'
      <3> SUFFICES ASSUME Holds(s), conn[s].in \in Conns \ {s} PROVE FALSE
        BY <1>3, <1>4
      <3>1. PICK m : TunnelAt(s, << >>, conn[s].in, sent[conn[s].in], m, handled[s], conn[s].buf,
                              conn[s].rem + New(s), wire[conn[s].in])
        BY <1>1, <1>3, <1>4 DEF Exact
      <3> QED BY <3>1, NoTunnel DEF TunnelAt
    <2> QED BY <1>2, <2>3, <2>4, <2>5 DEF Exact
  <1> QED BY <1>2, <1>5, <1>6

LEMMA GaveExact ==
    ASSUME Inv, ExactInv, NEW c \in Conns, NEW o, Gave(c, o)
    PROVE  ExactInv'
  <1> SUFFICES ASSUME fault' = "none", Orderly'
               PROVE  (\A d \in Conns : Exact(d)') /\ (Handling' => Top'.c \notin Posting')
    BY DEF ExactInv
  <1>1. \A d \in Conns : Exact(d)
    BY OrderlyStays DEF ExactInv, Gave
  <1>2. conn'[c] = o /\ \A d \in Conns : d # c => conn'[d] = conn[d]
    BY DEF Gave, Inv, TypeInv
  <1>3. ASSUME NEW d \in Conns, d # c PROVE Exact(d)'
    <2>1. d \in Posting' <=> d \in Posting
      BY <1>3 DEF Gave
    <2> QED BY <1>1, <1>2, <1>3, <2>1, OthersExact DEF Gave
  <1>4. Exact(c)'
    <2>1. conn'[c].in = None /\ None \notin Conns /\ Posting' \subseteq Posting
      BY <1>2, NoneAssumption DEF Gave
    <2>2. (OwnPart(c, sent[c], handled[c]) \/ \E s \in Conns : TunnelPart(c, sent[c], s, sent[s], handled[c]))'
      BY <1>1 DEF Exact, Gave
    <2>3. (c \in Posting => HasPost(sent[c]) /\ handled[c] = SubSeq(IdsOf(c, sent[c]), 1, UntilOf(sent[c])))'
      BY <1>1, <2>1 DEF Exact, Gave
    <2> QED BY <2>1, <2>2, <2>3 DEF Exact
  <1> QED BY <1>3, <1>4 DEF Handling, Gave

LEMMA ReturnedExact ==
    ASSUME Inv, ExactInv, NEW c \in Conns, Returned(c)
    PROVE  ExactInv'
  <1> SUFFICES ASSUME fault' = "none", Orderly'
               PROVE  (\A d \in Conns : Exact(d)') /\ (Handling' => Top'.c \notin Posting')
    BY DEF ExactInv
  <1>1. \A d \in Conns : Exact(d)
    BY OrderlyStays DEF ExactInv, Returned
  <1>2. ASSUME NEW d \in Conns PROVE Exact(d)'
    <2>1. Holds(d)' => Holds(d) /\ conn'[d] = conn[d] /\ (d = c => conn[d].active)
      <3> SUFFICES ASSUME Holds(d)' PROVE Holds(d) /\ conn'[d] = conn[d] /\ (d = c => conn[d].active)
        OBVIOUS
      <3>1. Live(d)' /\ d \notin Posting'
        BY DEF Holds
      <3>2. conn'[d] = conn[d] /\ (d = c => conn[d].active)
        BY <3>1 DEF Returned
      <3>3. Live(d)
        BY <3>1, <3>2 DEF Live
      <3> QED BY <3>1, <3>2, <3>3 DEF Holds, Returned
    <2>2. New(d) = 0 /\ New(d)' = 0 /\ (Gone(d) => d = c /\ ~conn[d].active)
      BY DEF New, Gone, Returned
    <2>3. Holds(d)' => ~Gone(d)
      BY <2>1, <2>2
    <2> QED BY <1>1, <2>1, <2>2, <2>3, ExactStays DEF Returned
  <1> QED BY <1>2 DEF Handling, Returned
-----------------------------------------------------------------------------
(* What is handled exactly: the steps of a call *)

\* The object of a call that handles requests
LEMMA HandlingIs ==
    ASSUME Inv, Handling, NEW c \in Conns, c = Top.c, c \notin Posting
    PROVE  /\ Holds(c) /\ conn[c].out = c /\ conn[c].in \in Conns /\ ~Gone(c)
           /\ conn[c] \in Objects /\ conn[c].buf \in Text(RequestIds) /\ conn[c].rem \in Nat
           /\ \A s \in Conns : wire[s] \in Text(RequestIds) /\ sent[s] \in Seq(Requests)
  <1>1. Holds(c)
    BY DEF Holds, Handling, Inv, StackInv
  <1>2. ~Ending(c) /\ ~Gone(c)
    BY DEF Ending, Gone, Handling
  <1>3. Owner(c)
    BY <1>1, <1>2 DEF Inv, OwnerInv
  <1>4. conn[c] \in Objects /\ \A s \in Conns : wire[s] \in Text(RequestIds) /\ sent[s] \in Seq(Requests)
    BY DEF Inv, TypeInv
  <1>5. conn[c].buf \in Text(RequestIds) /\ conn[c].rem \in Nat /\ conn[c].in \in Conns \cup {None}
    BY <1>4 DEF Objects
  <1> QED BY <1>1, <1>2, <1>3, <1>4, <1>5 DEF Owner

LEMMA TooBigExact ==
    ASSUME Inv, ExactInv, NEW c \in Conns, TooBig(c)
    PROVE  ExactInv'
  <1>1. PICK o, f : /\ Ran(c, o, f) /\ f.pc = "leave" /\ ~o.active
                    /\ o.buf = conn[c].buf /\ o.rem = conn[c].rem
                    /\ UNCHANGED <<table, handled, replies>>
    BY TooBigIs
  <1> SUFFICES ASSUME fault' = "none", Orderly'
               PROVE  ExactInv'
    BY DEF ExactInv
  <1>2. fault = "none" /\ Orderly
    BY <1>1, OrderlyStays DEF Ran
  <1>3. Handling /\ c = Top.c /\ c \notin Posting /\ Exact(c)
    BY <1>2 DEF TooBig, At, Handling, ExactInv
  <1>4. Holds(c)
    BY <1>3, HandlingIs
  <1>5. OwnPart(c, sent[c], handled'[c]) \/ \E s \in Conns : TunnelPart(c, sent[c], s, sent[s], handled'[c])
    BY <1>1, <1>3 DEF Exact
  <1>6. conn[c].in = c => \E n : PlainAt(c, sent[c], n, handled'[c], o, wire[c])
    <2> SUFFICES ASSUME conn[c].in = c PROVE \E n : PlainAt(c, sent[c], n, handled'[c], o, wire[c])
      OBVIOUS
    <2>1. PICK n : PlainAt(c, sent[c], n, handled[c], conn[c], wire[c])
      BY <1>3, <1>4 DEF Exact
    <2>2. PlainAt(c, sent[c], n, handled'[c], o, wire[c])
      BY <1>1, <2>1 DEF PlainAt
    <2> QED BY <2>2
  <1> QED BY <1>1, <1>2, <1>3, <1>5, <1>6, RanExact

LEMMA ScanExact ==
    ASSUME Inv, ExactInv, NEW c \in Conns, Scan(c)
    PROVE  ExactInv'
  <1>1. PICK o, f : /\ Ran(c, o, f) /\ f.pc \in {"request", "leave"}
                    /\ o.active = conn[c].active
                    /\ IF Tunnelled(c) /\ ~Top.pipelined
                       THEN o.buf = DecodeInPlace(c, Top.new) /\ o.rem = Remainder(c, Top.new)
                       ELSE o.buf = conn[c].buf /\ o.rem = conn[c].rem
                    /\ UNCHANGED <<table, handled, replies>>
    BY ScanIs
  <1> SUFFICES ASSUME fault' = "none", Orderly'
               PROVE  ExactInv'
    BY DEF ExactInv
  <1>2. fault = "none" /\ Orderly
    BY <1>1, OrderlyStays DEF Ran
  <1>3. Handling /\ c = Top.c /\ Top.pc = "bytes" /\ c \notin Posting /\ Exact(c) /\ stack # << >>
    BY <1>2 DEF Scan, At, Handling, ExactInv
  <1>4. /\ Holds(c) /\ conn[c].out = c /\ conn[c].in \in Conns /\ ~Gone(c)
        /\ conn[c].buf \in Text(RequestIds) /\ conn[c].rem \in Nat /\ wire[conn[c].in] \in Text(RequestIds)
    BY <1>3, HandlingIs
  <1>5. OwnPart(c, sent[c], handled'[c]) \/ \E s \in Conns : TunnelPart(c, sent[c], s, sent[s], handled'[c])
    BY <1>1, <1>3 DEF Exact
  <1>6. conn[c].in = c => \E n : PlainAt(c, sent[c], n, handled'[c], o, wire[c])
    <2> SUFFICES ASSUME conn[c].in = c PROVE \E n : PlainAt(c, sent[c], n, handled'[c], o, wire[c])
      OBVIOUS
    <2>1. PICK n : PlainAt(c, sent[c], n, handled[c], conn[c], wire[c])
      BY <1>3, <1>4 DEF Exact
    <2>2. o.buf = conn[c].buf /\ o.rem = conn[c].rem
      BY <1>1, <1>4 DEF Tunnelled
    <2>3. PlainAt(c, sent[c], n, handled'[c], o, wire[c])
      BY <1>1, <2>1, <2>2 DEF PlainAt
    <2> QED BY <2>3
  <1>7. conn[c].in # c =>
            \E m : TunnelAt(c, sent[c], conn[c].in, sent[conn[c].in], m, handled'[c], o.buf,
                            o.rem + NewOf(f), wire[conn[c].in])
    <2> SUFFICES ASSUME conn[c].in # c
                 PROVE  \E m : TunnelAt(c, sent[c], conn[c].in, sent[conn[c].in], m, handled'[c], o.buf,
                                        o.rem + NewOf(f), wire[conn[c].in])
      OBVIOUS
    <2>1. PICK m : TunnelAt(c, sent[c], conn[c].in, sent[conn[c].in], m, handled[c], conn[c].buf,
                            conn[c].rem + New(c), wire[conn[c].in])
      BY <1>3, <1>4 DEF Exact
    <2>2. Tunnelled(c)
      BY <1>4 DEF Tunnelled
    <2>3. o.rem + NewOf(f) = o.rem
      <3>1. NewOf(f) = 0
        BY <1>1 DEF NewOf
      <3>2. o.rem \in Nat
        BY <1>1 DEF Ran, Objects
      <3> QED BY <3>1, <3>2
    <2>4. CASE ~Top.pipelined
      <3>1. New(c) = Top.new /\ Top.new \in Nat
        <4>1. New(c) = Top.new
          BY <1>3, <2>4, Zenon DEF New
        <4> QED BY <4>1, NewNat DEF Inv
      <3>2. o.buf = DecodeInPlace(c, Top.new) /\ o.rem = Remainder(c, Top.new)
        BY <1>1, <2>2, <2>4
      <3>3. TunnelAt(c, sent[c], conn[c].in, sent[conn[c].in], m, handled[c], DecodeInPlace(c, Top.new),
                     Remainder(c, Top.new), wire[conn[c].in])
        BY <1>4, <2>1, <3>1, TunnelScans
      <3> QED BY <1>1, <2>3, <3>2, <3>3
    <2>5. CASE Top.pipelined
      <3>1. New(c) = 0
        BY <2>5, Zenon DEF New
      <3>2. o.buf = conn[c].buf /\ o.rem = conn[c].rem /\ conn[c].rem + New(c) = o.rem
        <4>1. o.buf = conn[c].buf /\ o.rem = conn[c].rem
          BY <1>1, <2>5
        <4> QED BY <1>4, <3>1, <4>1
      <3> QED BY <1>1, <2>1, <2>3, <3>2
    <2> QED BY <2>4, <2>5
  <1>8. f.pc # "posted" /\ \A d \in Conns : d # c => handled'[d] = handled[d]
    BY <1>1
  <1> QED BY <1>1, <1>2, <1>3, <1>5, <1>6, <1>7, <1>8, RanExact

\* The request of c and what follows it
LEMMA RestIs ==
    ASSUME NEW c, EndOfMsg(conn[c].buf) = 3, NEW r, Request(c) = r
    PROVE  Rest(c) = Beyond(conn[c].buf, SizeOf(r))
  BY DEF Rest, RequestSize, Beyond, SizeOf

LEMMA CommandExact ==
    ASSUME Inv, Kept, ExactInv, NEW c \in Conns, Commands(c)
    PROVE  ExactInv'
  <1>a. At(c, "request") /\ \E o : Answered(c, o)
    BY CommandIs
  <1>b. PICK o : Answered(c, o)
    BY <1>a
  <1>1. PICK p, f : /\ Ran(c, p, f)
                    /\ p.active = o.active /\ p.buf = Rest(c) /\ p.rem = 0
                    /\ \/ f.pc = "leave" /\ p.buf = << >>
                       \/ f.pc = "bytes" /\ f.pipelined
                    /\ handled' = [handled EXCEPT ![c] = Append(@, RequestId(c))]
    BY <1>a, <1>b, FinishIs
  <1> SUFFICES ASSUME fault' = "none", Orderly'
               PROVE  ExactInv'
    BY DEF ExactInv
  <1>2. fault = "none" /\ Orderly
    BY <1>1, OrderlyStays DEF Ran
  <1>3. /\ Handling /\ c = Top.c /\ c \notin Posting /\ conn[c].rem = 0 /\ Exact(c)
        /\ stack # << >> /\ Top.pc = "request"
    BY <1>a, <1>b, <1>2, CommandHolds DEF At, ExactInv
  <1>4. /\ Holds(c) /\ conn[c].in \in Conns /\ ~Gone(c)
        /\ conn[c].buf \in Text(RequestIds)
        /\ \A s \in Conns : wire[s] \in Text(RequestIds) /\ sent[s] \in Seq(Requests)
    BY <1>3, HandlingIs
  <1>5. Complete(conn[c].buf)
    BY <1>3 DEF Inv, StackInv
  <1>6. handled'[c] = Append(handled[c], RequestId(c)) /\ \A d \in Conns : d # c => handled'[d] = handled[d]
    BY <1>1 DEF Inv, TypeInv
  <1>7. f.pc # "posted" /\ p.rem + NewOf(f) = 0
    <2>1. NewOf(f) = 0
      BY <1>1, Zenon DEF NewOf
    <2> QED BY <1>1, <2>1
  <1>8. CASE conn[c].in = c
    <2>1. PICK rs : rs = sent[c]
      OBVIOUS
    <2>2. PICK n : PlainAt(c, rs, n, handled[c], conn[c], wire[c])
      BY <1>3, <1>4, <1>8, <2>1 DEF Exact
    <2>3. /\ n + 1 \in 1 .. UntilOf(rs) /\ n + 1 \in 1 .. Len(rs)
          /\ EndOfMsg(conn[c].buf) = 3 /\ Parse(conn[c].buf) = Id(c, n + 1) /\ Ask(Id(c, n + 1)) = rs[n + 1]
          /\ Beyond(conn[c].buf, SizeOf(rs[n + 1])) \o wire[c] = WiredOf(c, rs)[n + 1]
          /\ Append(handled[c], Id(c, n + 1)) = SubSeq(IdsOf(c, rs), 1, n + 1)
      <3>1. PICK x : x = conn[c]
        OBVIOUS
      <3>2. PICK w : w = wire[c]
        OBVIOUS
      <3>3. PICK h : h = handled[c]
        OBVIOUS
      <3>4. /\ rs \in Seq(Requests) /\ w \in Text(RequestIds) /\ x.buf \in Text(RequestIds)
            /\ PlainAt(c, rs, n, h, x, w) /\ sent[c] = rs /\ Complete(x.buf)
        BY <1>4, <1>5, <2>1, <2>2, <3>1, <3>2, <3>3
      <3>5. /\ n + 1 \in 1 .. UntilOf(rs) /\ n + 1 \in 1 .. Len(rs)
            /\ EndOfMsg(x.buf) = 3 /\ Parse(x.buf) = Id(c, n + 1) /\ Ask(Id(c, n + 1)) = rs[n + 1]
            /\ Beyond(x.buf, SizeOf(rs[n + 1])) \o w = WiredOf(c, rs)[n + 1]
            /\ Append(h, Id(c, n + 1)) = SubSeq(IdsOf(c, rs), 1, n + 1)
        BY ONLY <3>4, c \in Conns, PlainHandles
      <3> QED BY ONLY <3>1, <3>2, <3>3, <3>5
    <2>4. RequestId(c) = Id(c, n + 1) /\ Request(c) = rs[n + 1]
      BY <2>3 DEF RequestId, Request
    <2>5. p.buf = Beyond(conn[c].buf, SizeOf(rs[n + 1]))
      BY <1>1, <2>3, <2>4, RestIs
    <2>6. n + 1 = UntilOf(rs) /\ HasPost(rs) => ~p.active
      <3> SUFFICES ASSUME n + 1 = UntilOf(rs), HasPost(rs) PROVE ~p.active
        OBVIOUS
      <3>1. rs[UntilOf(rs)].kind = "POST"
        BY <1>4, <2>1, UntilIs
      <3>2. Request(c).kind = "POST"
        BY <2>4, <3>1
      <3>3. ~o.active
        BY <1>b, <3>2 DEF Answered
      <3> QED BY <1>1, <3>3
    <2>7. n + 1 \in 0 .. UntilOf(rs)
      BY <2>3
    <2>8. PlainAt(c, rs, n + 1, handled'[c], p, wire[c])
      BY <1>1, <1>6, <2>3, <2>4, <2>5, <2>6, <2>7 DEF PlainAt
    <2>9. OwnPart(c, rs, handled'[c])
      BY <2>8, PartOf
    <2> QED BY <1>1, <1>2, <1>3, <1>6, <1>7, <1>8, <2>1, <2>8, <2>9, RanExact
  <1>9. CASE conn[c].in # c
    <2>1. PICK s \in Conns : s = conn[c].in
      BY <1>4
    <2>2. PICK ss \in Seq(Requests) : ss = sent[s]
      BY <1>4
    <2>3. PICK rs \in Seq(Requests) : rs = sent[c]
      BY <1>4
    <2>4. PICK m : TunnelAt(c, rs, s, ss, m, handled[c], conn[c].buf, 0, wire[s])
      <3>1. New(c) = 0 /\ 0 + 0 = 0
        BY <1>3, NewIs
      <3> QED BY <1>3, <1>4, <1>9, <2>1, <2>2, <2>3, <3>1 DEF Exact
    <2>5. /\ EndOfMsg(conn[c].buf) = 3 /\ Parse(conn[c].buf) = Id(s, m + 1) /\ Ask(Id(s, m + 1)) = ss[m + 1]
          /\ TunnelAt(c, rs, s, ss, m + 1, Append(handled[c], Id(s, m + 1)),
                      Beyond(conn[c].buf, SizeOf(ss[m + 1])), 0, wire[s])
      <3>1. PICK b : b = conn[c].buf
        OBVIOUS
      <3>2. PICK w : w = wire[s]
        OBVIOUS
      <3>3. PICK h : h = handled[c]
        OBVIOUS
      <3>4. /\ w \in Text(RequestIds) /\ b \in Text(RequestIds)
            /\ TunnelAt(c, rs, s, ss, m, h, b, 0, w) /\ sent[s] = ss /\ Complete(b)
        BY <1>4, <1>5, <2>2, <2>4, <3>1, <3>2, <3>3
      <3>5. /\ EndOfMsg(b) = 3 /\ Parse(b) = Id(s, m + 1) /\ Ask(Id(s, m + 1)) = ss[m + 1]
            /\ TunnelAt(c, rs, s, ss, m + 1, Append(h, Id(s, m + 1)), Beyond(b, SizeOf(ss[m + 1])), 0, w)
        BY ONLY <3>4, c \in Conns, s \in Conns, rs \in Seq(Requests), ss \in Seq(Requests), TunnelHandles
      <3> QED BY ONLY <3>1, <3>2, <3>3, <3>5
    <2>6. RequestId(c) = Id(s, m + 1) /\ Request(c) = ss[m + 1]
      BY <2>5 DEF RequestId, Request
    <2>7. p.buf = Beyond(conn[c].buf, SizeOf(ss[m + 1]))
      BY <1>1, <2>5, <2>6, RestIs
    <2>8. TunnelAt(c, rs, s, ss, m + 1, handled'[c], p.buf, 0, wire[s])
      BY <1>6, <2>5, <2>6, <2>7
    <2>9. TunnelPart(c, rs, s, ss, handled'[c])
      BY <2>8, PartOf
    <2>10. OwnPart(c, sent[c], handled'[c]) \/ \E t \in Conns : TunnelPart(c, sent[c], t, sent[t], handled'[c])
      BY <2>2, <2>3, <2>9
    <2>11. \E j : TunnelAt(c, sent[c], conn[c].in, sent[conn[c].in], j, handled'[c], p.buf,
                           p.rem + NewOf(f), wire[conn[c].in])
      BY <1>7, <2>1, <2>2, <2>3, <2>8
    <2> QED BY <1>1, <1>2, <1>3, <1>6, <1>7, <1>9, <2>10, <2>11, RanExact
  <1> QED BY <1>8, <1>9
-----------------------------------------------------------------------------
(* What is handled exactly: a tunnel's POST *)

\* What a POST that is handled is of: the first on its own socket
Posts(c, n, rs) ==
    /\ rs = sent[c] /\ rs \in Seq(Requests) /\ HasPost(rs) /\ conn[c].in = c
    /\ n \in Nat /\ n + 1 = UntilOf(rs) /\ n + 1 \in 1 .. Len(rs)
    /\ handled[c] = SubSeq(IdsOf(c, rs), 1, n) /\ Append(handled[c], RequestId(c)) = SubSeq(IdsOf(c, rs), 1, n + 1)
    /\ Request(c) = rs[n + 1]
    /\ Rest(c) \in Text(RequestIds) /\ Len(Rest(c)) <= BufferSize
    /\ Rest(c) \o wire[c] = WiredOf(c, rs)[n + 1]

LEMMA PostIs ==
    ASSUME Inv, Kept, ExactInv, fault = "none", Orderly, NEW c \in Conns, At(c, "request"), Request(c).kind = "POST"
    PROVE  \E n, rs : Posts(c, n, rs)
  <1>1. /\ Handling /\ c = Top.c /\ c \notin Posting /\ conn[c].rem = 0 /\ Exact(c)
        /\ stack # << >> /\ Top.pc = "request"
    BY DEF At, Handling, ExactInv, Kept, WaitInv
  <1>2. /\ Holds(c) /\ conn[c].in \in Conns /\ ~Gone(c)
        /\ conn[c].buf \in Text(RequestIds)
        /\ \A s \in Conns : wire[s] \in Text(RequestIds) /\ sent[s] \in Seq(Requests)
    BY <1>1, HandlingIs
  <1>3. Complete(conn[c].buf)
    BY <1>1 DEF Inv, StackInv
  <1>4. PICK rs \in Seq(Requests) : rs = sent[c]
    BY <1>2
  <1>b. PICK b : b = conn[c].buf
    OBVIOUS
  <1>h. PICK h : h = handled[c]
    OBVIOUS
  <1>5. conn[c].in = c
    <2> SUFFICES ASSUME conn[c].in # c PROVE FALSE
      OBVIOUS
    <2>1. PICK s \in Conns : s = conn[c].in
      BY <1>2
    <2>2. PICK ss \in Seq(Requests) : ss = sent[s]
      BY <1>2
    <2>w. PICK w : w = wire[s]
      OBVIOUS
    <2>3. PICK m : TunnelAt(c, rs, s, ss, m, h, b, 0, w)
      <3>1. New(c) = 0 /\ 0 + 0 = 0
        BY <1>1, NewIs
      <3> QED BY <1>1, <1>2, <1>4, <1>b, <1>h, <2>1, <2>2, <2>w, <3>1 DEF Exact
    <2>4. m + 1 \in UntilOf(ss) + 1 .. Len(ss) /\ Parse(b) = Id(s, m + 1) /\ Ask(Id(s, m + 1)) = ss[m + 1]
      <3>1. w \in Text(RequestIds) /\ b \in Text(RequestIds) /\ sent[s] = ss /\ Complete(b)
        BY <1>2, <1>3, <1>b, <2>2, <2>w
      <3>2. m + 1 \in UntilOf(ss) + 1 .. Len(ss)
        BY ONLY <2>3, <3>1, c \in Conns, s \in Conns, rs \in Seq(Requests), ss \in Seq(Requests), TunnelHandles
      <3>3. /\ EndOfMsg(b) = 3 /\ Parse(b) = Id(s, m + 1) /\ Ask(Id(s, m + 1)) = ss[m + 1]
            /\ TunnelAt(c, rs, s, ss, m + 1, Append(h, Id(s, m + 1)), Beyond(b, SizeOf(ss[m + 1])), 0, w)
        BY ONLY <2>3, <3>1, c \in Conns, s \in Conns, rs \in Seq(Requests), ss \in Seq(Requests), TunnelHandles
      <3> QED BY <3>2, <3>3
    <2>5. ss[m + 1].kind = "POST"
      BY <1>b, <2>4 DEF Request, RequestId
    <2>6. s \in Posters
      BY <2>2, <2>3 DEF TunnelAt, TunnelsOf, Posters, HasSent
    <2>7. \A i \in UntilOf(ss) + 1 .. Len(ss) : ss[i].kind # "POST"
      BY <2>2, <2>6 DEF Orderly, Until
    <2> QED BY <2>4, <2>5, <2>7
  <1>w. PICK w : w = wire[c]
    OBVIOUS
  <1>x. PICK x : x = conn[c]
    OBVIOUS
  <1>6. PICK n : PlainAt(c, rs, n, h, x, w)
    BY <1>1, <1>2, <1>4, <1>5, <1>h, <1>w, <1>x DEF Exact
  <1>7. /\ n + 1 \in 1 .. UntilOf(rs) /\ n + 1 \in 1 .. Len(rs)
        /\ EndOfMsg(b) = 3 /\ Parse(b) = Id(c, n + 1) /\ Ask(Id(c, n + 1)) = rs[n + 1]
        /\ Beyond(b, SizeOf(rs[n + 1])) \in Text(RequestIds)
        /\ Beyond(b, SizeOf(rs[n + 1])) \o w = WiredOf(c, rs)[n + 1]
        /\ Append(h, Id(c, n + 1)) = SubSeq(IdsOf(c, rs), 1, n + 1)
    <2>1. w \in Text(RequestIds) /\ x.buf \in Text(RequestIds) /\ sent[c] = rs /\ Complete(x.buf) /\ b = x.buf
      BY <1>2, <1>3, <1>4, <1>b, <1>w, <1>x
    <2> QED BY ONLY <1>6, <2>1, c \in Conns, rs \in Seq(Requests), PlainHandles
  <1>8. RequestId(c) = Id(c, n + 1) /\ Request(c) = rs[n + 1]
    BY <1>7, <1>b DEF RequestId, Request
  <1>9. Rest(c) = Beyond(b, SizeOf(rs[n + 1]))
    BY <1>7, <1>8, <1>b, RestIs
  <1>10. n \in Nat /\ h = SubSeq(IdsOf(c, rs), 1, n)
    <2>1. n \in 0 .. UntilOf(rs) /\ h = SubSeq(IdsOf(c, rs), 1, n)
      BY <1>6 DEF PlainAt
    <2> QED BY <2>1
  <1>11. HasPost(rs) /\ n + 1 = UntilOf(rs)
    <2>1. rs[n + 1].kind = "POST"
      BY <1>8
    <2>2. DOMAIN rs = 1 .. Len(rs)
      BY LenProperties
    <2>3. HasPost(rs)
      BY <1>7, <2>1, <2>2 DEF HasPost
    <2>4. UntilOf(rs) <= n + 1 /\ UntilOf(rs) \in Nat
      BY <1>7, <2>1, <2>3, UntilIs
    <2> QED BY ONLY <1>7, <1>10, <2>3, <2>4
  <1>12. Len(Rest(c)) <= BufferSize
    <2>1. PICK z \in Nat : z = SizeOf(rs[n + 1])
      <3>1. BodySize(rs[n + 1]) \in {0, 3}
        BY BodySizes
      <3> QED BY <3>1 DEF SizeOf
    <2>2. Len(b) \in Nat /\ b \in Text(RequestIds) /\ Len(b) <= BufferSize /\ BufferSize \in Nat
      BY <1>2, <1>b, TextLen, BoundsAssumption DEF Inv, DataInv
    <2>3. Len(SubSeq(b, z + 1, Len(b))) = IF z + 1 <= Len(b) THEN Len(b) - (z + 1) + 1 ELSE 0
      BY <2>2, TextPart
    <2>4. \A y, l, e \in Nat : l <= e => (IF y + 1 <= l THEN l - (y + 1) + 1 ELSE 0) <= e
      OBVIOUS
    <2>5. Len(Beyond(b, z)) <= BufferSize
      BY ONLY <2>2, <2>3, <2>4, z \in Nat DEF Beyond
    <2> QED BY <1>9, <2>1, <2>5
  <1> QED BY <1>4, <1>5, <1>7, <1>8, <1>9, <1>10, <1>11, <1>12, <1>h, <1>w DEF Posts

\* One that has its POST's GET has handled nothing else, and there is no more of it.
Gets(prev, ps, k) ==
    /\ ps = sent[prev] /\ ps \in Seq(Requests) /\ Len(ps) = 1 /\ ps[1].kind = "GET" /\ ps[1].cookie = k
    /\ handled[prev] = IdsOf(prev, ps)
    /\ conn[prev].buf = << >> /\ conn[prev].rem = 0 /\ conn[prev].in = prev

\* A GET in what c has handled of its own
LEMMA GetOf ==
    ASSUME TypeInv, NEW c \in Conns, NEW rs \in Seq(Requests), rs = sent[c], NEW n \in 0 .. Len(rs),
           handled[c] = SubSeq(IdsOf(c, rs), 1, n), NEW k, GotCookie(c, k)
    PROVE  \E i \in 1 .. n : rs[i].kind = "GET" /\ rs[i].cookie = k
  <1>1. Len(rs) \in Nat /\ n \in Nat
    BY LenProperties
  <1>2. PICK q : q = IdsOf(c, rs)
    OBVIOUS
  <1>3. q \in Seq(RequestIds) /\ Len(q) = Len(rs) /\ \A i \in 1 .. Len(rs) : q[i] = Id(c, i)
    BY <1>2, IdsIs
  <1>4. Upto(q, n) \in Seq(RequestIds) /\ Len(Upto(q, n)) = n /\ \A i \in 1 .. n : Upto(q, n)[i] = q[i]
    <2>1. n \in 0 .. Len(q)
      BY <1>3
    <2> QED BY ONLY <1>3, <2>1, Cut
  <1>5. handled[c] = Upto(q, n)
    BY <1>2 DEF Upto
  <1>6. PICK r \in Got(c, "GET") : r.cookie = k
    BY DEF GotCookie
  <1>7. PICK id \in ToSet(handled[c]) : r = Ask(id) /\ r.kind = "GET"
    BY <1>6 DEF Got
  <1>8. PICK i \in 1 .. n : id = Upto(q, n)[i]
    <2>1. id \in ToSet(Upto(q, n))
      BY <1>5
    <2>2. \E i \in 1 .. Len(Upto(q, n)) : id = Upto(q, n)[i]
      BY <1>4, <2>1, ToSetIs
    <2> QED BY <1>4, <2>2
  <1>9. i \in 1 .. Len(rs)
    BY <1>1
  <1>10. id = Id(c, i)
    BY <1>3, <1>4, <1>8, <1>9
  <1>11. Ask(id) = rs[i]
    BY <1>10, AskIs
  <1> QED BY <1>6, <1>7, <1>11

LEMMA GetIs ==
    ASSUME Inv, Kept, ExactInv, fault = "none", Orderly, NEW c \in Conns, At(c, "request"),
           NEW n, NEW rs, Posts(c, n, rs),
           NEW k \in Cookies, NEW prev \in Conns, table[k] = prev, Live(prev)
    PROVE  /\ prev # c /\ Holds(prev) /\ Posting = {}
           /\ \E ps : Gets(prev, ps, k)
  <1>1. TypeInv /\ GotCookie(prev, k) /\ (\A d \in Conns : Exact(d)) /\ c \notin Posting /\ HasPost(sent[c])
    BY DEF Inv, TableInv, ExactInv, Posts, At, Handling
  <1>2. c \in Posters
    BY <1>1 DEF Posters, HasSent, HasPost
  <1>3. Posting = {}
    <2>1. \A d \in Posting : d \in Conns /\ HasPost(sent[d]) /\ d # c
      <3>1. Nested(stack) /\ stack # << >>
        BY DEF Inv, StackInv, At
      <3>2. Posting \subseteq Conns
        BY <3>1, StackPosting DEF Posting
      <3> QED BY <1>1, <3>2 DEF Exact
    <2> QED BY <1>1, <2>1, OnePoster
  <1>4. Holds(prev)
    BY <1>3 DEF Holds
  <1>5. \A d \in Conns : sent[d] \in Seq(Requests) /\ Len(sent[d]) \in Nat /\ DOMAIN sent[d] = 1 .. Len(sent[d])
    BY <1>1, LenProperties DEF TypeInv
  <1>6. \A d \in Conns : (\E i \in 1 .. Len(sent[d]) : sent[d][i].kind = "GET") => Len(sent[d]) = 1
    BY <1>2, <1>5 DEF Orderly, HasSent
  <1>7. prev # c
    <2> SUFFICES ASSUME prev = c PROVE FALSE
      OBVIOUS
    <2>1. rs = sent[c] /\ rs \in Seq(Requests) /\ n \in Nat /\ n + 1 \in 1 .. Len(rs) /\ handled[c] = SubSeq(IdsOf(c, rs), 1, n)
      BY DEF Posts
    <2>2. n \in 0 .. Len(rs)
      BY <2>1, LenProperties
    <2>3. PICK i \in 1 .. n : rs[i].kind = "GET"
      <3>1. TypeInv /\ GotCookie(c, k) /\ c \in Conns
        BY <1>1
      <3> QED BY ONLY <2>1, <2>2, <3>1, GetOf
    <2>4. i \in 1 .. Len(rs)
      BY <2>2, LenProperties
    <2>5. Len(rs) = 1
      BY <1>6, <2>1, <2>3, <2>4
    <2> QED BY ONLY <2>1, <2>5, i \in 1 .. n
  <1>8. ~Ending(prev) /\ ~Gone(prev) /\ ~Ending(c) /\ Holds(c)
    BY <1>1, <1>7 DEF Ending, Gone, At, Holds, Inv, StackInv
  <1>9. Owner(prev) /\ Owner(c) /\ OwnSockets(prev) \cap OwnSockets(c) = {}
    BY <1>4, <1>7, <1>8 DEF Inv, OwnerInv
  <1>10. conn[prev].in = prev
    <2> SUFFICES ASSUME conn[prev].in # prev PROVE FALSE
      OBVIOUS
    <2>1. conn[prev].in \in Conns
      BY <1>1, <1>9 DEF Owner, TypeInv, Objects
    <2>2. PICK s \in Conns : s = conn[prev].in
      BY <2>1
    <2>3. PICK m : TunnelAt(prev, sent[prev], s, sent[s], m, handled[prev], conn[prev].buf,
                            conn[prev].rem + New(prev), wire[s])
      BY <1>1, <1>4, <1>8, <2>2 DEF Exact
    <2>4. HasPost(sent[s])
      BY <2>3 DEF TunnelAt, TunnelsOf, HasPost
    <2>5. s = c
      BY <1>1, <2>4, OnePoster
    <2> QED BY <1>9, <2>2, <2>5, NoneAssumption DEF OwnSockets, Owner
  <1>11. PICK ps \in Seq(Requests) : ps = sent[prev]
    BY <1>5
  <1>12. PICK j : PlainAt(prev, ps, j, handled[prev], conn[prev], wire[prev])
    BY <1>1, <1>4, <1>10, <1>11 DEF Exact
  <1>13. /\ j \in 0 .. UntilOf(ps) /\ UntilOf(ps) \in 0 .. Len(ps) /\ Len(ps) \in Nat
         /\ handled[prev] = SubSeq(IdsOf(prev, ps), 1, j)
         /\ conn[prev].buf \o wire[prev] = WiredOf(prev, ps)[j] /\ conn[prev].rem = 0
    BY <1>12, UntilIs, LenProperties DEF PlainAt
  <1>14. j \in 0 .. Len(ps)
    BY <1>13
  <1>15. PICK i \in 1 .. j : ps[i].kind = "GET" /\ ps[i].cookie = k
    <2>1. TypeInv /\ GotCookie(prev, k) /\ prev \in Conns
      BY <1>1
    <2> QED BY ONLY <1>11, <1>13, <1>14, <2>1, GetOf
  <1>16. Len(ps) = 1
    <2>1. i \in 1 .. Len(ps)
      BY <1>13, <1>14
    <2> QED BY <1>6, <1>11, <1>15, <2>1
  <1>17. j = 1 /\ i = 1
    BY ONLY <1>14, <1>16, i \in 1 .. j
  <1>18. handled[prev] = IdsOf(prev, ps)
    <2>1. PICK q : q = IdsOf(prev, ps)
      OBVIOUS
    <2>2. q \in Seq(RequestIds) /\ Len(q) = 1
      BY <1>16, <2>1, IdsIs
    <2>3. Upto(q, 1) = q
      BY ONLY <2>2, CutEnds
    <2> QED BY <1>13, <1>17, <2>1, <2>3 DEF Upto
  <1>19. conn[prev].buf = << >>
    <2>1. WiredOf(prev, ps)[1] = << >>
      BY <1>16, WiredIs
    <2>2. conn[prev].buf \o wire[prev] = << >>
      BY <1>13, <1>17, <2>1
    <2>3. conn[prev].buf \in Text(RequestIds) /\ wire[prev] \in Text(RequestIds)
      BY <1>1 DEF TypeInv, Objects
    <2> QED BY <2>2, <2>3, EmptyPart
  <1>20. Gets(prev, ps, k)
    BY <1>10, <1>11, <1>13, <1>15, <1>16, <1>17, <1>18, <1>19 DEF Gets
  <1> QED BY <1>3, <1>4, <1>7, <1>20

LEMMA JoinsExact ==
    ASSUME Inv, Kept, ExactInv, NEW c \in Conns, NEW prev \in Conns, NEW o, Joins(c, prev, o)
    PROVE  ExactInv'
  <1> SUFFICES ASSUME fault' = "none", Orderly'
               PROVE  (\A d \in Conns : Exact(d)') /\ (Handling' => Top'.c \notin Posting')
    BY DEF ExactInv
  <1>1. fault = "none" /\ Orderly /\ At(c, "request") /\ Request(c).kind = "POST" /\ \A d \in Conns : Exact(d)
    BY OrderlyStays DEF ExactInv, Joins
  <1>2. PICK n, rs : Posts(c, n, rs)
    BY <1>1, PostIs
  <1>3. PICK k \in Cookies : k = Request(c).cookie /\ table[k] = prev /\ Live(prev)
    BY DEF Joins
  <1>4. prev # c /\ Holds(prev) /\ Posting = {} /\ \E ps : Gets(prev, ps, k)
    BY <1>1, <1>2, <1>3, GetIs
  <1>5. PICK ps : Gets(prev, ps, k)
    BY <1>4
  <1>6. Posting' = {c}
    BY <1>4 DEF Joins
  <1>7. /\ conn'[prev] = o /\ \A d \in Conns : d # prev => conn'[d] = conn[d]
        /\ handled'[c] = Append(handled[c], RequestId(c)) /\ \A d \in Conns : d # c => handled'[d] = handled[d]
        /\ sent' = sent /\ wire' = wire /\ stack # << >> /\ Top.c = c /\ stack' # << >>
    BY DEF Joins, Inv, TypeInv, At
  <1>8. PICK b \in Text(RequestIds) : b = Rest(c)
    BY <1>2 DEF Posts
  <1>9. Len(b) \in Nat /\ Len(b) <= Left(prev)
    <2>1. Len(b) \in Nat /\ Len(b) <= BufferSize /\ BufferSize \in Nat
      BY <1>2, <1>8, TextLen, BoundsAssumption DEF Posts
    <2>2. Left(prev) = BufferSize - 0
      BY <1>5, NoTunnel DEF Gets, Left
    <2> QED BY <2>1, <2>2
  <1>10. /\ o.buf = b /\ o.rem = 0 /\ o.in = c
         /\ New(prev)' = Len(b)
         /\ Top'.c \in {c, prev} /\ (Handling' => Top'.c = prev)
    <2>1. o.rem = 0 /\ o.in = c
      BY <1>2, <1>5 DEF Joins, Gets, Posts
    <2>2. CASE b # << >>
      <3>1. o.buf = << >> \o b /\ Top' = Frame(prev, Len(b))
        BY <1>5, <1>8, <1>9, <2>2 DEF Joins, Gets
      <3>2. << >> \o b = b
        BY ConcatEmptySeq DEF Text
      <3>3. Top'.c = prev /\ Top'.pc = "bytes" /\ ~Top'.pipelined /\ Top'.new = Len(b)
        BY <3>1 DEF Frame
      <3>4. New(prev)' = Len(b)
        BY <1>7, <3>3, Zenon DEF New
      <3> QED BY <2>1, <3>1, <3>2, <3>3, <3>4
    <2>3. CASE b = << >>
      <3>1. o.buf = << >> /\ Top'.c = c /\ Top'.pc = "posted"
        BY <1>5, <1>8, <2>3 DEF Joins, Gets
      <3>2. New(prev)' = 0
        BY <1>4, <3>1, Zenon DEF New
      <3> QED BY <2>1, <2>3, <3>1, <3>2, NoTunnel DEF Handling
    <2> QED BY <2>2, <2>3
  <1>11. ASSUME NEW d \in Conns, d # c, d # prev PROVE Exact(d)'
    BY <1>1, <1>4, <1>6, <1>7, <1>10, <1>11, OthersExact
  <1>12. Exact(c)'
    <2>1. HasPost(sent[c]) /\ handled'[c] = SubSeq(IdsOf(c, sent[c]), 1, UntilOf(sent[c])) /\ UntilOf(sent[c]) \in 0 .. UntilOf(sent[c])
      <3>1. rs = sent[c] /\ HasPost(rs) /\ n \in Nat /\ n + 1 = UntilOf(rs)
            /\ Append(handled[c], RequestId(c)) = SubSeq(IdsOf(c, rs), 1, n + 1)
        BY <1>2 DEF Posts
      <3> QED BY <1>7, <3>1
    <2>2. OwnPart(c, sent'[c], handled'[c]) /\ ~Holds(c)'
      BY <1>6, <1>7, <2>1 DEF OwnPart, Holds
    <2> QED BY <1>7, <2>1, <2>2 DEF Exact
  <1>13. Exact(prev)'
    <2>1. TunnelAt(prev, ps, c, rs, UntilOf(rs), IdsOf(prev, ps), b, Len(b), wire[c])
      <3>1. /\ rs \in Seq(Requests) /\ ps \in Seq(Requests) /\ Len(ps) = 1 /\ wire[c] \in Text(RequestIds)
            /\ b \o wire[c] = WiredOf(c, rs)[UntilOf(rs)]
        BY <1>2, <1>5, <1>8 DEF Posts, Gets, Inv, TypeInv
      <3>2. TunnelsOf(ps, rs)
        <4>1. DOMAIN ps = 1 .. Len(ps) /\ DOMAIN rs = 1 .. Len(rs) /\ 1 \in 1 .. 1
          BY <3>1, LenProperties
        <4>2. n + 1 \in DOMAIN rs /\ rs[n + 1].kind = "POST" /\ rs[n + 1].cookie = k
          BY <1>1, <1>2, <1>3, <4>1 DEF Posts
        <4>3. 1 \in DOMAIN ps /\ ps[1].kind = "GET" /\ ps[1].cookie = k
          BY <1>5, <3>1, <4>1 DEF Gets
        <4> QED BY <4>2, <4>3 DEF TunnelsOf
      <3>3. PICK w : w = wire[c]
        OBVIOUS
      <3>4. w \in Text(RequestIds) /\ b \o w = WiredOf(c, rs)[UntilOf(rs)]
        BY <3>1, <3>3
      <3>5. TunnelAt(prev, ps, c, rs, UntilOf(rs), IdsOf(prev, ps), b, Len(b), w)
        BY ONLY <3>1, <3>2, <3>4, prev \in Conns, c \in Conns, b \in Text(RequestIds), TunnelStarts
      <3> QED BY <3>3, <3>5
    <2>2. o.rem + New(prev)' = Len(b)
      BY <1>9, <1>10
    <2>3. sent[prev] = ps /\ sent[c] = rs /\ handled'[prev] = IdsOf(prev, ps)
      BY <1>2, <1>4, <1>5, <1>7 DEF Posts, Gets
    <2>4. (Holds(prev) /\ conn[prev].in \in Conns \ {prev} /\ ~Gone(prev) =>
              \E m : TunnelAt(prev, sent[prev], conn[prev].in, sent[conn[prev].in], m, handled[prev], conn[prev].buf,
                              conn[prev].rem + New(prev), wire[conn[prev].in]))'
      BY <1>7, <1>10, <2>1, <2>2, <2>3
    <2>5. (OwnPart(prev, sent[prev], handled[prev]) \/ \E s \in Conns : TunnelPart(prev, sent[prev], s, sent[s], handled[prev]))'
      BY <1>1, <1>4, <1>7 DEF Exact
    <2>6. conn'[prev].in # prev /\ prev \notin Posting'
      BY <1>4, <1>6, <1>7, <1>10
    <2> QED BY <2>4, <2>5, <2>6 DEF Exact
  <1> QED BY <1>4, <1>6, <1>10, <1>11, <1>12, <1>13
-----------------------------------------------------------------------------
(* What is handled is exactly what was meant *)

LEMMA NextExact ==
    ASSUME Inv, Kept, ExactInv, [Next]_vars
    PROVE  ExactInv'
  <1>0. Steps
    BY StepIs
  <1>1. CASE Idle /\ (fault' = fault \/ fault' # "none")
    BY <1>1, IdleExact
  <1>2. CASE \E s \in Conns : \E rs : Wrote(s, rs)
    BY <1>2, WroteExact
  <1>3. CASE \E c \in Conns : NewConnection(c) /\ stack = << >> /\ UNCHANGED <<stack, fault, handled, replies, sent, wire>>
    BY <1>3, NewExact
  <1>4. CASE \E s, c \in Conns : \E n, o : Read(c, s, n, o)
    BY <1>4, ReadExact
  <1>5. CASE \E c \in Conns : \E o : Failed(c, o)
    BY <1>5, FailedExact
  <1>6. CASE \E c \in Conns : TooBig(c) \/ Scan(c) \/ Commands(c)
    BY <1>6, TooBigExact, ScanExact, CommandExact
  <1>7. CASE \E c, prev \in Conns : \E o : Joins(c, prev, o)
    BY <1>7, JoinsExact
  <1>8. CASE \E c \in Conns : \E o : Gave(c, o)
    BY <1>8, GaveExact
  <1>9. CASE \E c \in Conns : Returned(c)
    BY <1>9, ReturnedExact
  <1>10. CASE /\ Event /\ UNCHANGED <<stack, wire>> /\ (fault' = "none" => fault = "none")
              /\ \A d \in Conns : Live(d)' => Live(d) /\ conn'[d] = conn[d]
    BY <1>10, DeletedExact
  <1> QED BY <1>0, <1>1, <1>2, <1>3, <1>4, <1>5, <1>6, <1>7, <1>8, <1>9, <1>10 DEF Steps

LEMMA PrefixOf ==
    ASSUME NEW V, NEW a \in Seq(V), NEW b \in Seq(V)
    PROVE  IsPrefix(a, a \o b)
  <1>1. Len(a \o b) = Len(a) + Len(b) /\ Upto(a \o b, Len(a)) = a /\ Upto(a, Len(a)) = a
    BY Joined, CutEnds
  <1>2. Len(a) \in Nat /\ Len(b) \in Nat
    BY LenProperties
  <1>3. Len(a) <= Len(a \o b)
    BY ONLY <1>1, <1>2
  <1> QED BY <1>1, <1>3 DEF IsPrefix, Upto

\* The first parts of a part
LEMMA PartsOf ==
    ASSUME NEW V, NEW q \in Seq(V), NEW v \in Nat, NEW m \in v .. Len(q), NEW l \in m .. Len(q)
    PROVE  /\ SubSeq(q, v + 1, m) \in Seq(V) /\ SubSeq(q, m + 1, l) \in Seq(V)
           /\ SubSeq(q, v + 1, l) = SubSeq(q, v + 1, m) \o SubSeq(q, m + 1, l)
  <1>1. Len(q) \in Nat /\ m \in Nat /\ l \in Nat
    BY LenProperties
  <1>2. PICK x : x = v + 1
    OBVIOUS
  <1>3. x \in 1 .. Len(q) + 1 /\ m \in x - 1 .. Len(q) /\ l \in m .. Len(q) /\ x \in Int
    BY <1>1, <1>2
  <1>4. SubSeq(q, x, m) \o SubSeq(q, m + 1, l) = SubSeq(q, x, l)
    BY ONLY <1>3, ConcatAdjacentSubSeq, q \in Seq(V)
  <1>5. (\A i \in x .. m : q[i] \in V) /\ (\A i \in m + 1 .. l : q[i] \in V)
    BY <1>1, <1>3, ElementOfSeq
  <1>6. SubSeq(q, x, m) \in Seq(V)
    BY <1>1, <1>3, <1>5, SubSeqProperties
  <1>7. SubSeq(q, m + 1, l) \in Seq(V)
    <2>1. m + 1 \in Int
      BY <1>1
    <2> QED BY <1>1, <1>5, <2>1, SubSeqProperties
  <1> QED BY <1>2, <1>4, <1>6, <1>7

LEMMA MeantIs ==
    ASSUME TypeInv, NEW c \in Conns, NEW s \in Conns
    PROVE  /\ Meant(c, c) = SubSeq(IdsOf(c, sent[c]), 1, UntilOf(sent[c]))
           /\ TunnelsOf(sent[c], sent[s]) /\ Len(sent[c]) = 1 =>
                 /\ c # s
                 /\ Meant(c, s) = IdsOf(c, sent[c]) \o SubSeq(IdsOf(s, sent[s]), UntilOf(sent[s]) + 1, Len(sent[s]))
  <1>1. sent[c] \in Seq(Requests) /\ sent[s] \in Seq(Requests)
    BY DEF TypeInv
  <1>2. PICK rs \in Seq(Requests) : rs = sent[c]
    BY <1>1
  <1>3. PICK q : q = IdsOf(c, rs)
    OBVIOUS
  <1>4. q \in Seq(RequestIds) /\ Len(q) = Len(rs) /\ Len(rs) \in Nat /\ DOMAIN rs = 1 .. Len(rs)
    BY <1>3, IdsIs, LenProperties
  <1>5. PICK u : u = UntilOf(rs)
    OBVIOUS
  <1>6. u \in 0 .. Len(rs) /\ (~HasPost(rs) => u = Len(rs))
    BY <1>5, UntilIs
  <1>7. Meant(c, c) = SubSeq(q, 1, u)
    <2>1. 0 \in Nat /\ 0 + 1 = 1 /\ u \in 0 .. Len(q) /\ u \in u .. Len(q)
      BY <1>4, <1>6
    <2>2. SubSeq(q, 1, u) \in Seq(RequestIds)
      BY <1>4, <2>1, Cut DEF Upto
    <2>3. Meant(c, c) = SubSeq(q, 1, u) \o << >>
      BY <1>2, <1>3, <1>5 DEF Meant, Ids, IdsOf, Until
    <2> QED BY <2>2, <2>3, ConcatEmptySeq
  <1>8. ASSUME TunnelsOf(rs, sent[s]), Len(rs) = 1
        PROVE  c # s /\ Meant(c, s) = q \o SubSeq(IdsOf(s, sent[s]), UntilOf(sent[s]) + 1, Len(sent[s]))
    <2>1. \A i \in DOMAIN rs : i = 1
      BY <1>4, <1>8
    <2>2. rs[1].kind = "GET"
      BY <1>8, <2>1 DEF TunnelsOf
    <2>3. ~HasPost(rs)
      BY <2>1, <2>2 DEF HasPost
    <2>4. c # s
      BY <1>2, <1>8, <2>3 DEF TunnelsOf, HasPost
    <2>5. u = Len(q) /\ SubSeq(q, 1, u) = q
      <3>1. u = Len(q)
        BY <1>4, <1>6, <2>3
      <3>2. Upto(q, Len(q)) = q
        BY ONLY <1>4, CutEnds
      <3> QED BY <3>1, <3>2 DEF Upto
    <2>6. Meant(c, s) = SubSeq(q, 1, u) \o SubSeq(IdsOf(s, sent[s]), UntilOf(sent[s]) + 1, Len(sent[s]))
      BY <1>2, <1>3, <1>5, <2>4 DEF Meant, Ids, IdsOf, Until
    <2> QED BY <2>4, <2>5, <2>6
  <1> QED BY <1>2, <1>3, <1>5, <1>7, <1>8

\* What an object has handled is the beginning of what was meant for it.
LEMMA ExactPrefix ==
    ASSUME TypeInv, NEW c \in Conns, Exact(c)
    PROVE  \E s \in Conns : (s = c \/ Tunnels(c, s)) /\ IsPrefix(handled[c], Meant(c, s))
  <1>1. CASE OwnPart(c, sent[c], handled[c])
    <2>1. PICK rs \in Seq(Requests) : rs = sent[c]
      BY DEF TypeInv
    <2>2. PICK u : u = UntilOf(rs)
      OBVIOUS
    <2>3. PICK n \in 0 .. u : handled[c] = SubSeq(IdsOf(c, rs), 1, n)
      BY <1>1, <2>1, <2>2 DEF OwnPart
    <2>4. PICK q : q = IdsOf(c, rs)
      OBVIOUS
    <2>5. q \in Seq(RequestIds) /\ Len(q) = Len(rs) /\ Len(rs) \in Nat /\ u \in 0 .. Len(rs)
      BY <2>2, <2>4, IdsIs, UntilIs, LenProperties
    <2>6. 0 \in Nat /\ 0 + 1 = 1 /\ n \in 0 .. Len(q) /\ u \in n .. Len(q)
      BY <2>5
    <2>7. /\ SubSeq(q, 0 + 1, n) \in Seq(RequestIds) /\ SubSeq(q, n + 1, u) \in Seq(RequestIds)
          /\ SubSeq(q, 0 + 1, u) = SubSeq(q, 0 + 1, n) \o SubSeq(q, n + 1, u)
      BY ONLY <2>5, <2>6, PartsOf
    <2>8. IsPrefix(SubSeq(q, 0 + 1, n), SubSeq(q, 0 + 1, n) \o SubSeq(q, n + 1, u))
      BY ONLY <2>7, PrefixOf
    <2>9. IsPrefix(handled[c], Meant(c, c))
      BY <2>1, <2>2, <2>3, <2>4, <2>6, <2>7, <2>8, MeantIs
    <2> QED BY <2>9
  <1>2. CASE \E s \in Conns : TunnelPart(c, sent[c], s, sent[s], handled[c])
    <2>1. PICK s \in Conns : TunnelPart(c, sent[c], s, sent[s], handled[c])
      BY <1>2
    <2>2. PICK ss \in Seq(Requests) : ss = sent[s]
      BY DEF TypeInv
    <2>3. PICK rs \in Seq(Requests) : rs = sent[c]
      BY DEF TypeInv
    <2>4. PICK v : v = UntilOf(ss)
      OBVIOUS
    <2>5. PICK l : l = Len(ss)
      OBVIOUS
    <2>6. PICK m \in v .. l : handled[c] = IdsOf(c, rs) \o SubSeq(IdsOf(s, ss), v + 1, m)
      BY <2>1, <2>2, <2>3, <2>4, <2>5 DEF TunnelPart
    <2>7. PICK q : q = IdsOf(s, ss)
      OBVIOUS
    <2>8. PICK p : p = IdsOf(c, rs)
      OBVIOUS
    <2>9. q \in Seq(RequestIds) /\ Len(q) = l /\ p \in Seq(RequestIds) /\ l \in Nat /\ v \in Nat
      BY <2>4, <2>5, <2>7, <2>8, IdsIs, UntilIs, LenProperties
    <2>10. m \in v .. Len(q) /\ l \in m .. Len(q)
      BY <2>9
    <2>11. /\ SubSeq(q, v + 1, m) \in Seq(RequestIds) /\ SubSeq(q, m + 1, l) \in Seq(RequestIds)
           /\ SubSeq(q, v + 1, l) = SubSeq(q, v + 1, m) \o SubSeq(q, m + 1, l)
      <3>1. q \in Seq(RequestIds) /\ v \in Nat /\ m \in v .. Len(q) /\ l \in m .. Len(q)
        BY ONLY <2>9, <2>10
      <3> QED BY ONLY <3>1, PartsOf
    <2>12. PICK x : x = SubSeq(q, v + 1, m)
      OBVIOUS
    <2>13. PICK y : y = SubSeq(q, m + 1, l)
      OBVIOUS
    <2>14. /\ x \in Seq(RequestIds) /\ y \in Seq(RequestIds) /\ p \o x \in Seq(RequestIds)
           /\ p \o (x \o y) = (p \o x) \o y
      <3>1. x \in Seq(RequestIds) /\ y \in Seq(RequestIds)
        BY <2>11, <2>12, <2>13
      <3>2. p \o x \in Seq(RequestIds)
        BY ONLY <2>9, <3>1, ConcatProperties
      <3>3. p \o (x \o y) = (p \o x) \o y
        <4>1. \A e, f, g \in Seq(RequestIds) : (e \o f) \o g = e \o (f \o g)
          <5>1. Associates(Seq(RequestIds))
            BY ONLY ConcatThrice
          <5> QED BY ONLY <5>1 DEF Associates
        <4> QED BY ONLY <2>9, <3>1, <4>1
      <3> QED BY <3>1, <3>2, <3>3
    <2>15. IsPrefix(p \o x, (p \o x) \o y)
      BY ONLY <2>14, PrefixOf
    <2>16. handled[c] = p \o x
      BY <2>6, <2>7, <2>8, <2>12
    <2>17. Meant(c, s) = p \o (x \o y)
      <3>1. TunnelsOf(sent[c], sent[s]) /\ Len(sent[c]) = 1
        BY <2>1 DEF TunnelPart
      <3>2. Meant(c, s) = IdsOf(c, sent[c]) \o SubSeq(IdsOf(s, sent[s]), UntilOf(sent[s]) + 1, Len(sent[s]))
        BY <3>1, MeantIs
      <3>3. Meant(c, s) = p \o SubSeq(q, v + 1, l)
        BY <2>2, <2>3, <2>4, <2>5, <2>7, <2>8, <3>2
      <3> QED BY <2>11, <2>12, <2>13, <3>3
    <2>18. Tunnels(c, s)
      BY <2>1 DEF TunnelPart, TunnelsOf, Tunnels
    <2> QED BY <2>14, <2>15, <2>16, <2>17, <2>18
  <1> QED BY <1>1, <1>2 DEF Exact

\* Between events, when nothing is left to read, it has handled all of that.
LEMMA ExactWhole ==
    ASSUME Inv, Kept, NEW c \in Conns, Exact(c), NEW s \in Conns,
           stack = << >>, watch[s] = c, Live(c), wire[s] = << >>
    PROVE  handled[c] = Meant(c, s)
  <1>1. Posting = {} /\ Holds(c) /\ ~Ending(c) /\ ~Gone(c) /\ New(c) = 0
    <2>1. Posting = {}
      BY StackEmpty DEF Posting
    <2> QED BY <2>1, NewIs DEF Holds, Ending
  <1>2. conn[c].in = s
    BY <1>1 DEF Inv, WatchInv
  <1>3. conn[c].rem = 0 => ~Complete(conn[c].buf)
    BY <1>1, AskInIs DEF Kept, StillInv
  <1>4. PICK b \in Text(RequestIds) : b = conn[c].buf
    BY DEF Inv, TypeInv, Objects
  <1>5. PICK k \in 0 .. 3 : k = conn[c].rem
    BY DEF Inv, TypeInv, Objects
  <1>6. PICK rs \in Seq(Requests) : rs = sent[c]
    BY DEF Inv, TypeInv
  <1>7. PICK ss \in Seq(Requests) : ss = sent[s]
    BY DEF Inv, TypeInv
  <1>h. PICK h : h = handled[c]
    OBVIOUS
  <1>8. CASE s = c
    <2>1. PICK o : o = conn[c]
      OBVIOUS
    <2>2. PICK n : PlainAt(c, rs, n, h, o, << >>)
      BY <1>1, <1>2, <1>6, <1>8, <1>h, <2>1 DEF Exact
    <2>3. o.rem = 0 /\ h = SubSeq(IdsOf(c, rs), 1, n)
      BY <2>2 DEF PlainAt
    <2>4. o.buf \in Text(RequestIds) /\ sent[c] = rs /\ ~Complete(o.buf)
      BY <1>3, <1>4, <1>6, <2>1, <2>3
    <2>5. n = UntilOf(rs)
      BY ONLY <2>2, <2>4, c \in Conns, rs \in Seq(Requests), PlainEnds
    <2>6. Meant(c, c) = SubSeq(IdsOf(c, rs), 1, UntilOf(rs))
      BY <1>6, MeantIs DEF Inv
    <2> QED BY <1>8, <1>h, <2>3, <2>5, <2>6
  <1>9. CASE s # c
    <2>1. PICK m : TunnelAt(c, rs, s, ss, m, h, b, k, << >>)
      <3>1. conn[c].rem + New(c) = k
        BY <1>1, <1>5
      <3> QED BY <1>1, <1>2, <1>4, <1>6, <1>7, <1>9, <1>h, <3>1 DEF Exact
    <2>2. sent[s] = ss /\ (k = 0 => ~Complete(b))
      BY <1>3, <1>4, <1>5, <1>7
    <2>3. m = Len(ss)
      BY ONLY <2>1, <2>2, c \in Conns, s \in Conns, rs \in Seq(Requests), ss \in Seq(Requests),
              b \in Text(RequestIds), k \in 0 .. 3, TunnelEnds
    <2>4. /\ TunnelsOf(rs, ss) /\ Len(rs) = 1
          /\ h = IdsOf(c, rs) \o SubSeq(IdsOf(s, ss), UntilOf(ss) + 1, m)
      BY <2>1 DEF TunnelAt
    <2>5. Meant(c, s) = IdsOf(c, rs) \o SubSeq(IdsOf(s, ss), UntilOf(ss) + 1, Len(ss))
      BY <1>6, <1>7, <2>4, MeantIs DEF Inv
    <2> QED BY <1>h, <2>3, <2>4, <2>5
  <1> QED BY <1>8, <1>9

LEMMA ExactMeant ==
    ASSUME Inv, Kept, ExactInv
    PROVE  RequestsExact
  <1>1. ASSUME NEW c \in Conns, NEW i \in DOMAIN replies[c]
        PROVE  replies[c][i].to = handled[c][i] \/ Ask(handled[c][i]).kind = "SETUP"
    <2>1. i \in 1 .. Len(replies[c])
      BY LenProperties DEF Kept, RepliedInv
    <2> QED BY <2>1, AskInIs DEF Kept, RepliedInv
  <1>2. ASSUME fault = "none", Orderly, NEW c \in Conns
        PROVE  /\ \E s \in Conns : (s = c \/ Tunnels(c, s)) /\ IsPrefix(handled[c], Meant(c, s))
               /\ \A s \in Conns : stack = <<>> /\ watch[s] = c /\ Live(c) /\ wire[s] = <<>>
                     => handled[c] = Meant(c, s)
    <2>1. Exact(c)
      BY <1>2 DEF ExactInv
    <2> QED BY <2>1, ExactPrefix, ExactWhole DEF Inv
  <1> QED BY <1>1, <1>2 DEF RequestsExact

\* However its requests are cut by the reads, and whether they come on its own
\* socket or, in Base64, on that of a POST, an object handles exactly what was
\* written for it and answers each.
THEOREM RequestsAreExact == Spec => []RequestsExact
  <1>1. Init => Inv /\ Kept /\ ExactInv
    BY InitInv, InitKept, InitExact
  <1>2. (Inv /\ Kept /\ ExactInv) /\ [Next]_vars => (Inv /\ Kept /\ ExactInv)'
    BY NextInv, NextKept, NextExact
  <1>3. Inv /\ Kept /\ ExactInv => RequestsExact
    BY ExactMeant
  <1> QED BY <1>1, <1>2, <1>3, PTL DEF Spec
==============================================================================
