------------------------ MODULE StreamingServerProofs ------------------------
(***************************************************************************)
(* Proofs about StreamingServer for any players, streams, interval, sizes  *)
(* of packets and titles.  Two of its properties are stated with a fold    *)
(* over what a player was handed, so the proofs begin with what a fold     *)
(* from the left makes of a sequence that grows by one element; the        *)
(* induction it takes is that on the least number of a set.                *)
(***************************************************************************)
EXTENDS StreamingServer, SequenceTheorems, WellFoundedInduction, TLAPS

(* Induction *)

LEMMA LeastNumber ==
    ASSUME NEW T, T \subseteq Nat, T # {}
    PROVE  \E x \in T : \A y \in T : x <= y
  <1> DEFINE R == OpToRel(<, Nat)
  <1>1. IsWellFoundedOn(R, Nat)
    BY NatLessThanWellFounded
  <1>2. \A x, y \in Nat : x < y => <<x, y>> \in R
    BY DEF OpToRel
  <1> HIDE DEF R
  <1>3. PICK x \in T : \A y \in T : ~ (<<y, x>> \in R)
    BY <1>1, WFMin
  <1>4. ASSUME NEW y \in T PROVE x <= y
    <2>1. x \in Nat /\ y \in Nat
      OBVIOUS
    <2>2. ~(y < x)
      BY <1>2, <1>3, <2>1
    <2> QED BY <2>1, <2>2
  <1> QED BY <1>4

LEMMA Induction ==
    ASSUME NEW T, T \subseteq Nat, 0 \in T, \A n \in T : n + 1 \in T
    PROVE  T = Nat
  <1> SUFFICES ASSUME Nat \ T # {} PROVE FALSE
    OBVIOUS
  <1> PICK x \in Nat \ T : \A y \in Nat \ T : x <= y
    BY LeastNumber
  <1> QED OBVIOUS
-----------------------------------------------------------------------------
(* The two folds: AudioBytes() and Play() *)

Counted(item, n) == IF item.kind = "audio" THEN n + item.n ELSE n
Heard(item, p) == IF p.ok THEN Player(item, p) ELSE p

Start(fold) == IF fold = "bytes" THEN 0 ELSE [ok |-> TRUE, due |-> MetaDataInterval]
Step(fold, item, v) == IF fold = "bytes" THEN Counted(item, v) ELSE Heard(item, v)

\* f is what the fold computes for the sets of the first n indexes of s.
Folded(fold, f, s, n) == f = [t \in SUBSET (1 .. n) |->
    IF t = {} THEN Start(fold) ELSE Step(fold, s[Max(t)], f[t \ {Max(t)}])]

LEMMA MaxTop ==
    ASSUME NEW k \in Nat, NEW t \in SUBSET (1 .. k + 1), k + 1 \in t
    PROVE  Max(t) = k + 1
  <1>1. \A y \in t : k + 1 >= y
    OBVIOUS
  <1>2. \A x \in t : (\A y \in t : x >= y) => x = k + 1
    OBVIOUS
  <1> QED BY <1>1, <1>2 DEF Max

LEMMA FoldExists ==
    ASSUME NEW fold, NEW s
    PROVE  \A n \in Nat : \E f : Folded(fold, f, s, n)
  <1> DEFINE T == {n \in Nat : \E f : Folded(fold, f, s, n)}
  <1>1. 0 \in T
    <2> DEFINE f == [t \in SUBSET (1 .. 0) |-> Start(fold)]
    <2>1. SUBSET (1 .. 0) = {{}}
      OBVIOUS
    <2>2. Folded(fold, f, s, 0)
      BY <2>1 DEF Folded
    <2> QED BY <2>2
  <1>2. ASSUME NEW n \in T PROVE n + 1 \in T
    <2>1. n \in Nat
      OBVIOUS
    <2>2. PICK f : Folded(fold, f, s, n)
      OBVIOUS
    <2> DEFINE top == n + 1
               g == [t \in SUBSET (1 .. top) |->
                       IF top \in t THEN Step(fold, s[top], f[t \ {top}]) ELSE f[t]]
    <2>3. ASSUME NEW t \in SUBSET (1 .. top)
          PROVE  g[t] = IF t = {} THEN Start(fold) ELSE Step(fold, s[Max(t)], g[t \ {Max(t)}])
      <3>1. CASE top \in t
        <4>1. Max(t) = top
          BY <3>1, MaxTop
        <4>2. t \ {top} \in SUBSET (1 .. top) /\ top \notin t \ {top}
          OBVIOUS
        <4>3. g[t \ {top}] = f[t \ {top}]
          BY <4>2
        <4>4. g[t] = Step(fold, s[top], f[t \ {top}])
          BY <3>1
        <4>5. t # {}
          BY <3>1
        <4> QED BY ONLY <4>1, <4>3, <4>4, <4>5
      <3>2. CASE top \notin t
        <4>1. \A i \in t : i \in 1 .. n /\ i # top
          BY <2>1, <3>2
        <4>2. /\ t \in SUBSET (1 .. n) /\ top \notin t
              /\ t \ {Max(t)} \in SUBSET (1 .. n) /\ t \ {Max(t)} \in SUBSET (1 .. top)
          BY ONLY <4>1, t \in SUBSET (1 .. top)
        <4>3. g[t] = f[t] /\ g[t \ {Max(t)}] = f[t \ {Max(t)}]
          BY <3>2, <4>2
        <4>4. f[t] = IF t = {} THEN Start(fold) ELSE Step(fold, s[Max(t)], f[t \ {Max(t)}])
          BY <2>2, <4>2 DEF Folded
        <4> QED BY <4>3, <4>4
      <3> QED BY <3>1, <3>2
    <2>4. Folded(fold, g, s, top)
      <3> HIDE DEF g
      <3>1. g = [t \in SUBSET (1 .. top) |-> g[t]]
        BY DEF g
      <3> QED BY <2>3, <3>1 DEF Folded
    <2> QED BY <2>4
  <1> HIDE DEF T
  <1>3. T = Nat
    BY <1>1, <1>2, Induction DEF T
  <1> QED BY <1>3 DEF T

\* r begins with the first n elements of s.
Begins(r, s, n) == \A i \in 1 .. n : r[i] = s[i]

LEMMA FoldsAgree ==
    ASSUME NEW fold, NEW s, NEW r, NEW m \in Nat, NEW n \in 0 .. m, Begins(r, s, n),
           NEW f, Folded(fold, f, s, n), NEW g, Folded(fold, g, r, m)
    PROVE  \A t \in SUBSET (1 .. n) : f[t] = g[t]
  <1> DEFINE T == {k \in Nat : k <= n => \A t \in SUBSET (1 .. k) : f[t] = g[t]}
  <1>1. 0 \in T
    <2>1. SUBSET (1 .. 0) = {{}}
      OBVIOUS
    <2>2. {} \in SUBSET (1 .. n) /\ {} \in SUBSET (1 .. m)
      OBVIOUS
    <2>3. f[{}] = Start(fold)
      BY ONLY <2>2, Folded(fold, f, s, n) DEF Folded
    <2>4. g[{}] = Start(fold)
      BY ONLY <2>2, Folded(fold, g, r, m) DEF Folded
    <2> QED BY <2>1, <2>3, <2>4
  <1>2. ASSUME NEW k \in T PROVE k + 1 \in T
    <2>1. k \in Nat /\ (k <= n => \A u \in SUBSET (1 .. k) : f[u] = g[u])
      OBVIOUS
    <2> SUFFICES ASSUME k + 1 <= n, NEW t \in SUBSET (1 .. k + 1) PROVE f[t] = g[t]
      BY <2>1
    <2>2. \A u \in SUBSET (1 .. k) : f[u] = g[u]
      BY <2>1
    <2>3. CASE k + 1 \in t
      <3>1. Max(t) = k + 1
        BY <2>3, MaxTop
      <3>2. t \in SUBSET (1 .. n) /\ t \in SUBSET (1 .. m) /\ k + 1 \in 1 .. n /\ t # {}
        BY <2>3
      <3>3. t \ {k + 1} \in SUBSET (1 .. k)
        OBVIOUS
      <3>4. /\ f[t] = Step(fold, s[k + 1], f[t \ {k + 1}])
            /\ g[t] = Step(fold, r[k + 1], g[t \ {k + 1}])
        BY <3>1, <3>2 DEF Folded
      <3> QED BY <2>2, <3>2, <3>3, <3>4 DEF Begins
    <2>4. CASE k + 1 \notin t
      <3>1. t \in SUBSET (1 .. k)
        BY <2>4
      <3> QED BY <2>2, <3>1
    <2> QED BY <2>3, <2>4
  <1> HIDE DEF T
  <1>3. T = Nat
    BY <1>1, <1>2, Induction DEF T
  <1> QED BY <1>3 DEF T

Fold(fold, s) == IF fold = "bytes" THEN AudioBytes(s) ELSE Play(s)

LEMMA FoldIsFolded ==
    ASSUME NEW fold, NEW S, NEW s \in Seq(S)
    PROVE  \E f : Folded(fold, f, s, Len(s)) /\ Fold(fold, s) = f[1 .. Len(s)]
  <1>1. DOMAIN s = 1 .. Len(s) /\ Len(s) \in Nat
    BY LenProperties
  <1>2. \E f : Folded(fold, f, s, Len(s))
    BY <1>1, FoldExists
  <1>3. CASE fold = "bytes"
    <2> DEFINE Solves(iter) == iter = [t \in SUBSET DOMAIN s |-> IF t = {} THEN 0 ELSE
                 LET x == Max(t)
                 IN  IF s[x].kind = "audio" THEN iter[t \ {x}] + s[x].n ELSE iter[t \ {x}]]
               g == CHOOSE iter : Solves(iter)
    <2>1. AudioBytes(s) = g[DOMAIN s]
      BY DEF AudioBytes, FoldLeft, MapThenFoldSet
    <2>2. \A f : Folded(fold, f, s, Len(s)) <=> Solves(f)
      BY <1>1, <1>3 DEF Folded, Start, Step, Counted
    <2> HIDE DEF Solves
    <2>3. Solves(g)
      BY <1>2, <2>2
    <2> QED BY <1>1, <1>3, <2>1, <2>2, <2>3 DEF Fold
  <1>4. CASE fold # "bytes"
    <2> DEFINE Solves(iter) == iter = [t \in SUBSET DOMAIN s |->
                 IF t = {} THEN [ok |-> TRUE, due |-> MetaDataInterval] ELSE
                 LET x == Max(t)
                 IN  IF iter[t \ {x}].ok THEN Player(s[x], iter[t \ {x}]) ELSE iter[t \ {x}]]
               g == CHOOSE iter : Solves(iter)
    <2>1. Play(s) = g[DOMAIN s]
      BY DEF Play, FoldLeft, MapThenFoldSet
    <2>2. \A f : Folded(fold, f, s, Len(s)) <=> Solves(f)
      BY <1>1, <1>4 DEF Folded, Start, Step, Heard
    <2> HIDE DEF Solves
    <2>3. Solves(g)
      BY <1>2, <2>2
    <2> QED BY <1>1, <1>4, <2>1, <2>2, <2>3 DEF Fold
  <1> QED BY <1>3, <1>4

LEMMA FoldOfNothing == ASSUME NEW fold PROVE Fold(fold, << >>) = Start(fold)
  <1>1. << >> \in Seq({}) /\ Len(<< >>) = 0
    BY EmptySeq
  <1>2. PICK f : Folded(fold, f, << >>, 0) /\ Fold(fold, << >>) = f[1 .. 0]
    BY <1>1, FoldIsFolded
  <1>3. 1 .. 0 = {}
    OBVIOUS
  <1> QED BY <1>2, <1>3 DEF Folded

LEMMA FoldGrows ==
    ASSUME NEW fold, NEW s, NEW r, NEW n \in Nat, Begins(r, s, n),
           NEW f, Folded(fold, f, s, n), NEW g, Folded(fold, g, r, n + 1)
    PROVE  g[1 .. n + 1] = Step(fold, r[n + 1], f[1 .. n])
  <1>1. g[1 .. n] = f[1 .. n]
    <2>1. PICK m \in Nat : m = n + 1
      OBVIOUS
    <2>2. n \in 0 .. m /\ Folded(fold, g, r, m)
      BY <2>1
    <2>3. \A t \in SUBSET (1 .. n) : f[t] = g[t]
      BY ONLY <2>1, <2>2, Begins(r, s, n), Folded(fold, f, s, n), FoldsAgree
    <2> QED BY <2>3
  <1>2. /\ 1 .. n + 1 \in SUBSET (1 .. n + 1) /\ n + 1 \in 1 .. n + 1
        /\ (1 .. n + 1) \ {n + 1} = 1 .. n
    OBVIOUS
  <1>3. Max(1 .. n + 1) = n + 1
    BY <1>2, MaxTop
  <1>4. g[1 .. n + 1] = Step(fold, r[n + 1], g[1 .. n])
    BY <1>2, <1>3 DEF Folded
  <1> QED BY <1>1, <1>4

LEMMA FoldAppend ==
    ASSUME NEW fold, NEW S, NEW s \in Seq(S), NEW x \in S
    PROVE  Fold(fold, Append(s, x)) = Step(fold, x, Fold(fold, s))
  <1>1. PICK r : r = Append(s, x)
    OBVIOUS
  <1>2. PICK n \in Nat : n = Len(s)
    BY LenProperties
  <1>3. r \in Seq(S) /\ Len(r) = n + 1 /\ r[n + 1] = x /\ \A i \in 1 .. n : r[i] = s[i]
    BY <1>1, <1>2, AppendProperties
  <1>4. PICK f : Folded(fold, f, s, n) /\ Fold(fold, s) = f[1 .. n]
    BY <1>2, FoldIsFolded
  <1>5. PICK g : Folded(fold, g, r, n + 1) /\ Fold(fold, r) = g[1 .. n + 1]
    BY <1>3, FoldIsFolded
  <1>6. Begins(r, s, n)
    BY <1>3 DEF Begins
  <1>7. g[1 .. n + 1] = Step(fold, r[n + 1], f[1 .. n])
    <2>1. Folded(fold, f, s, n)
      BY <1>4
    <2>2. Folded(fold, g, r, n + 1)
      BY <1>5
    <2> QED BY ONLY <1>6, <2>1, <2>2, n \in Nat, FoldGrows
  <1> QED BY <1>1, <1>3, <1>4, <1>5, <1>7

LEMMA AudioBytesGrows ==
    /\ AudioBytes(<< >>) = 0
    /\ \A S : \A s \in Seq(S), x \in S : AudioBytes(Append(s, x)) = Counted(x, AudioBytes(s))
  <1>1. Fold("bytes", << >>) = Start("bytes")
    BY FoldOfNothing
  <1>2. ASSUME NEW S, NEW s \in Seq(S), NEW x \in S
        PROVE  Fold("bytes", Append(s, x)) = Step("bytes", x, Fold("bytes", s))
    BY FoldAppend
  <1> QED BY <1>1, <1>2 DEF Fold, Start, Step

LEMMA PlayGoesOn ==
    /\ Play(<< >>) = [ok |-> TRUE, due |-> MetaDataInterval]
    /\ \A S : \A s \in Seq(S), x \in S : Play(Append(s, x)) = Heard(x, Play(s))
  <1>1. Fold("play", << >>) = Start("play")
    BY FoldOfNothing
  <1>2. ASSUME NEW S, NEW s \in Seq(S), NEW x \in S
        PROVE  Fold("play", Append(s, x)) = Step("play", x, Fold("play", s))
    BY FoldAppend
  <1> QED BY <1>1, <1>2 DEF Fold, Start, Step
-----------------------------------------------------------------------------
(* What a connection was handed, when one more item is *)

Items == [kind : Responses \cup {"audio", "meta"}, at : Nat, n : Nat]

MetasIn(s) == {i \in 1 .. Len(s) : s[i].kind = "meta"}

\* The items of s that come before item i, and after the last metadata block
\* before it, begin with item `from`.
Opens(s, from, i) ==
    /\ from # 1 => s[from - 1].kind = "meta"
    /\ \A k \in from .. i - 1 : s[k].kind # "meta"

\* Since the last metadata block of s, or the beginning, there were b bytes of audio.
Since(s, b) == \E from \in 1 .. Len(s) + 1 :
    Opens(s, from, Len(s) + 1) /\ AudioBytes(SubSeq(s, from, Len(s))) = b

\* BlockEveryInterval, of one sequence
Spaced(s) == \A i \in MetasIn(s) : \A from \in 1 .. i :
    Opens(s, from, i) => AudioBytes(SubSeq(s, from, i)) = MetaDataInterval

LEMMA SinceNothing == Since(<< >>, 0) /\ Spaced(<< >>) /\ \A b : Since(<< >>, b) => b = 0
  <1>1. Len(<< >>) = 0
    BY EmptySeq
  <1>2. SubSeq(<< >>, 1, 0) = << >>
    BY <1>1
  <1>3. Since(<< >>, 0)
    <2>1. AudioBytes(SubSeq(<< >>, 1, Len(<< >>))) = 0
      BY <1>1, <1>2, AudioBytesGrows
    <2>2. 1 \in 1 .. Len(<< >>) + 1 /\ 1 .. Len(<< >>) = {}
      BY <1>1
    <2> QED BY <1>1, <2>1, <2>2 DEF Since, Opens
  <1>4. ASSUME NEW b, Since(<< >>, b) PROVE b = 0
    <2>1. PICK from \in 1 .. 1 : AudioBytes(SubSeq(<< >>, from, 0)) = b
      BY <1>1, <1>4 DEF Since
    <2>2. from = 1
      OBVIOUS
    <2> QED BY <1>2, <2>1, <2>2, AudioBytesGrows
  <1>5. MetasIn(<< >>) = {}
    BY <1>1 DEF MetasIn
  <1> QED BY <1>3, <1>4, <1>5 DEF Spaced

\* A part of s is a part of what s grows into.
LEMMA SubSeqOfAppend ==
    ASSUME NEW S, NEW s \in Seq(S), NEW x \in S, NEW from \in 1 .. Len(s) + 1
    PROVE  /\ SubSeq(s, from, Len(s)) \in Seq(S)
           /\ SubSeq(Append(s, x), from, Len(s) + 1) = Append(SubSeq(s, from, Len(s)), x)
           /\ \A i \in 1 .. Len(s) : SubSeq(Append(s, x), from, i) = SubSeq(s, from, i)
  <1>1. Len(s) \in Nat /\ from \in Nat \ {0}
    BY LenProperties
  <1> QED BY <1>1

LEMMA SinceGrows ==
    ASSUME NEW s \in Seq(Items), NEW x \in Items, NEW b, Since(s, b), Spaced(s)
    PROVE  /\ x.kind = "audio" => Since(Append(s, x), b + x.n) /\ Spaced(Append(s, x))
           /\ x.kind \in Responses => Since(Append(s, x), b) /\ Spaced(Append(s, x))
           /\ x.kind = "meta" /\ b = MetaDataInterval =>
                  Since(Append(s, x), 0) /\ Spaced(Append(s, x))
  <1>1. PICK n \in Nat : n = Len(s)
    BY LenProperties
  <1>2. PICK r : r = Append(s, x)
    OBVIOUS
  <1>3. /\ r \in Seq(Items) /\ Len(r) = n + 1 /\ r[n + 1] = x
        /\ \A i \in 1 .. n : r[i] = s[i]
    BY <1>1, <1>2, AppendProperties
  <1>4. PICK from \in 1 .. n + 1 :
            Opens(s, from, n + 1) /\ AudioBytes(SubSeq(s, from, n)) = b
    BY <1>1 DEF Since
  <1>5. /\ SubSeq(s, from, n) \in Seq(Items)
        /\ SubSeq(r, from, n + 1) = Append(SubSeq(s, from, n), x)
    BY <1>1, <1>2, SubSeqOfAppend
  <1>6. AudioBytes(SubSeq(r, from, n + 1)) = Counted(x, b)
    BY <1>4, <1>5, AudioBytesGrows
  <1>7. \A i \in 1 .. n + 1 : \A f \in 1 .. i : Opens(r, f, i) <=> Opens(s, f, i)
    <2> SUFFICES ASSUME NEW i \in 1 .. n + 1, NEW f \in 1 .. i
                 PROVE  Opens(r, f, i) <=> Opens(s, f, i)
      OBVIOUS
    <2>1. (f # 1 => f - 1 \in 1 .. n) /\ \A k \in f .. i - 1 : k \in 1 .. n
      OBVIOUS
    <2> QED BY <1>3, <2>1 DEF Opens
  <1>8. Since(r, Counted(x, b)) \/ x.kind = "meta"
    <2> SUFFICES ASSUME x.kind # "meta" PROVE Since(r, Counted(x, b))
      OBVIOUS
    <2>1. from \in 1 .. Len(r) + 1 /\ from \in 1 .. n + 1 /\ n + 1 \in 1 .. n + 1
      BY <1>3
    <2>2. Opens(r, from, n + 1)
      BY <1>4, <1>7, <2>1
    <2>3. Opens(r, from, n + 2)
      <3>1. \A k \in from .. n + 1 : k \in from .. n \/ k = n + 1
        OBVIOUS
      <3> QED BY <1>3, <2>2, <3>1 DEF Opens
    <2> QED BY <1>3, <1>6, <2>1, <2>3 DEF Since
  <1>9. x.kind = "meta" => Since(r, 0)
    <2> SUFFICES ASSUME x.kind = "meta" PROVE Since(r, 0)
      OBVIOUS
    <2>1. PICK m \in Nat : m = Len(r) + 1
      BY <1>3
    <2>2. m \in 1 .. Len(r) + 1 /\ Len(r) \in Int /\ m \in Int /\ Len(r) < m
      BY <1>3, <2>1
    <2>3. Opens(r, m, Len(r) + 1)
      BY <1>3, <2>1 DEF Opens
    <2>4. AudioBytes(SubSeq(r, m, Len(r))) = 0
      BY <2>2, SubSeqEmpty, AudioBytesGrows
    <2> QED BY <2>2, <2>3, <2>4 DEF Since
  <1>10. ASSUME x.kind = "meta" => b = MetaDataInterval PROVE Spaced(r)
    <2> SUFFICES ASSUME NEW i \in MetasIn(r), NEW f \in 1 .. i, Opens(r, f, i)
                 PROVE  AudioBytes(SubSeq(r, f, i)) = MetaDataInterval
      BY DEF Spaced
    <2>1. i \in 1 .. n + 1 /\ r[i].kind = "meta"
      BY <1>3 DEF MetasIn
    <2>2. Opens(s, f, i)
      BY <1>7, <2>1
    <2>3. CASE i = n + 1
      <3>1. x.kind = "meta" /\ b = MetaDataInterval
        BY <1>3, <1>10, <2>1, <2>3
      <3>2. f = from
        <4>1. ~(f < from)
          <5> SUFFICES ASSUME f < from PROVE FALSE
            OBVIOUS
          <5>1. from # 1 /\ from - 1 \in f .. n
            OBVIOUS
          <5> QED BY <1>4, <2>2, <2>3, <5>1 DEF Opens
        <4>2. ~(from < f)
          <5> SUFFICES ASSUME from < f PROVE FALSE
            OBVIOUS
          <5>1. f # 1 /\ f - 1 \in from .. n
            BY <2>3
          <5> QED BY <1>4, <2>2, <5>1 DEF Opens
        <4> QED BY <2>3, <4>1, <4>2
      <3> QED BY <1>6, <2>3, <3>1, <3>2 DEF Counted
    <2>4. CASE i # n + 1
      <3>1. i \in 1 .. n /\ f \in 1 .. n + 1
        BY <2>1, <2>4
      <3>2. i \in MetasIn(s)
        BY <1>1, <1>3, <2>1, <3>1 DEF MetasIn
      <3>3. SubSeq(r, f, i) = SubSeq(s, f, i)
        BY <1>1, <1>2, <3>1, SubSeqOfAppend
      <3> QED BY <2>2, <3>2, <3>3 DEF Spaced
    <2> QED BY <2>3, <2>4
  <1>11. x.kind \in Responses => x.kind # "meta" /\ x.kind # "audio"
    BY DEF Responses
  <1> QED BY <1>2, <1>8, <1>9, <1>10, <1>11 DEF Counted

\* Where the items begin that come since the last metadata block before item i.
LEMMA OpensSomewhere ==
    ASSUME NEW s, NEW i \in Nat \ {0}
    PROVE  \E from \in 1 .. i : Opens(s, from, i)
  <1> DEFINE T == {f \in 1 .. i : \A k \in f .. i - 1 : s[k].kind # "meta"}
  <1>1. i \in T
    OBVIOUS
  <1>2. PICK from \in T : \A f \in T : from <= f
    <2>1. T \subseteq Nat /\ T # {}
      BY <1>1
    <2> QED BY ONLY <2>1, LeastNumber
  <1>3. ASSUME from # 1 PROVE s[from - 1].kind = "meta"
    <2>1. from - 1 \in 1 .. i /\ from - 1 \notin T
      BY <1>2, <1>3
    <2>2. PICK k \in from - 1 .. i - 1 : s[k].kind = "meta"
      BY <2>1
    <2>3. k = from - 1
      BY <2>2
    <2> QED BY <2>2, <2>3
  <1> QED BY <1>3 DEF Opens

LEMMA SpacedIsEveryInterval ==
    ASSUME NEW s, Len(s) \in Nat, Spaced(s), NEW i \in MetasIn(s)
    PROVE  LET before == {j \in MetasIn(s) : j < i}
               from == IF before = {} THEN 1 ELSE 1 + CHOOSE j \in before : \A k \in before : k <= j
           IN AudioBytes(SubSeq(s, from, i)) = MetaDataInterval
  <1> DEFINE before == {j \in MetasIn(s) : j < i}
             last == CHOOSE j \in before : \A k \in before : k <= j
  <1>1. i \in Nat \ {0} /\ i <= Len(s)
    BY DEF MetasIn
  <1>2. PICK from \in 1 .. i : Opens(s, from, i)
    BY <1>1, OpensSomewhere
  <1>3. AudioBytes(SubSeq(s, from, i)) = MetaDataInterval
    BY <1>2 DEF Spaced
  <1>4. \A k \in before : k < from
    BY <1>1, <1>2 DEF Opens, MetasIn
  <1>5. CASE from = 1
    <2>1. before = {}
      BY <1>4, <1>5 DEF MetasIn
    <2> QED BY <1>3, <1>5, <2>1
  <1>6. CASE from # 1
    <2>1. from - 1 \in before
      BY <1>1, <1>2, <1>6 DEF Opens, MetasIn
    <2>2. \A k \in before : k \in Nat /\ k <= from - 1
      BY <1>4 DEF MetasIn
    <2>3. \A j \in before : (\A k \in before : k <= j) => j = from - 1
      BY <2>1, <2>2
    <2>4. last = from - 1
      BY <2>1, <2>2, <2>3
    <2>5. before # {}
      BY <2>1
    <2>6. 1 + last = from
      <3>1. \A l : l = from - 1 => 1 + l = from
        OBVIOUS
      <3> QED BY ONLY <2>4, <3>1
    <2>7. (IF before = {} THEN 1 ELSE 1 + last) = from
      BY ONLY <2>5, <2>6
    <2> QED BY ONLY <1>3, <2>7
  <1> QED BY <1>5, <1>6
-----------------------------------------------------------------------------
(* What follows what *)

Answer(x) == x.kind \in Responses
Audio(x) == x.kind = "audio"

\* AskedForStream, AudioContiguous and OneCleanRequest, of one sequence
Asked(s, i, j) == \A k \in 1 .. j - 1 :
    Answer(s[k]) /\ (\A l \in k + 1 .. i - 1 : ~Answer(s[l])) => s[k].at = TheStream

Joined(s, i, j) ==
    /\ Audio(s[i])
    /\ \A k \in i + 1 .. j - 1 : ~Audio(s[k])
    /\ Asked(s, i, j)

Contiguous(s) == \A i, j \in 1 .. Len(s) :
    i < j /\ Joined(s, i, j) /\ Audio(s[j]) => s[j].at = s[i].at + s[i].n

Clean(s) ==
    /\ s # << >>
    /\ s[1].kind = "icy"
    /\ \A i \in 2 .. Len(s) : ~Answer(s[i])
    /\ \A i \in MetasIn(s) : s[i].n < LengthValues

\* The last audio of s ends where byte p begins.
EndsAt(s, p) == \A i \in 1 .. Len(s) : Joined(s, i, Len(s) + 1) => s[i].at + s[i].n = p

\* The last answer in s was to a request for stream a.
LastAsked(s, a) == \E k \in 1 .. Len(s) :
    Answer(s[k]) /\ s[k].at = a /\ \A l \in k + 1 .. Len(s) : ~Answer(s[l])

Silent(s) == \A i \in 1 .. Len(s) : ~Audio(s[i])

\* The last element of a sequence that has just grown, and the ones before it.
LEMMA Grown ==
    ASSUME NEW s \in Seq(Items), NEW x \in Items
    PROVE  \E n \in Nat, r \in Seq(Items) :
             /\ r = Append(s, x) /\ n = Len(s) /\ Len(r) = n + 1
             /\ r[n + 1] = x /\ \A i \in 1 .. n : r[i] = s[i]
  <1>1. PICK n \in Nat : n = Len(s)
    BY LenProperties
  <1>2. PICK r : r = Append(s, x)
    OBVIOUS
  <1>3. /\ r \in Seq(Items) /\ Len(r) = n + 1 /\ r[n + 1] = x
        /\ \A i \in 1 .. n : r[i] = s[i]
    BY <1>1, <1>2, AppendProperties
  <1> QED BY <1>1, <1>2, <1>3

LEMMA JoinedStays ==
    ASSUME NEW n \in Nat, NEW r, NEW s, \A i \in 1 .. n : r[i] = s[i]
    PROVE  \A j \in 1 .. n + 1 : \A i \in 1 .. n : i < j => (Joined(r, i, j) <=> Joined(s, i, j))
  <1> SUFFICES ASSUME NEW j \in 1 .. n + 1, NEW i \in 1 .. n, i < j
               PROVE  Joined(r, i, j) <=> Joined(s, i, j)
    OBVIOUS
  <1>1. \A k \in i + 1 .. j - 1 : k \in 1 .. n
    OBVIOUS
  <1>2. \A k \in 1 .. j - 1 : k \in 1 .. n /\ \A l \in k + 1 .. i - 1 : l \in 1 .. n
    OBVIOUS
  <1>3. \A k \in 1 .. n : Audio(r[k]) = Audio(s[k]) /\ Answer(r[k]) = Answer(s[k])
    OBVIOUS
  <1>4. Asked(r, i, j) <=> Asked(s, i, j)
    BY <1>2, <1>3 DEF Asked
  <1> QED BY <1>1, <1>3, <1>4 DEF Joined

\* One more item leaves less to be joined to the next.
LEMMA JoinedShrinks ==
    ASSUME NEW n \in Nat, NEW r, NEW i \in 1 .. n, Joined(r, i, n + 2)
    PROVE  Joined(r, i, n + 1) /\ ~Audio(r[n + 1]) /\ (Answer(r[n + 1]) => r[n + 1].at = TheStream)
  <1>1. \A k \in i + 1 .. n : k \in i + 1 .. n + 1
    OBVIOUS
  <1>2. \A k \in 1 .. n : k \in 1 .. n + 1
    OBVIOUS
  <1>3. n + 1 \in i + 1 .. n + 1 /\ n + 1 \in 1 .. n + 1 /\ (n + 1) + 1 .. i - 1 = {}
    OBVIOUS
  <1>4. n + 1 - 1 = n /\ n + 2 - 1 = n + 1
    OBVIOUS
  <1>5. Asked(r, i, n + 2)
    BY DEF Joined
  <1>6. Asked(r, i, n + 1)
    BY <1>2, <1>4, <1>5 DEF Asked
  <1>7. Answer(r[n + 1]) => r[n + 1].at = TheStream
    BY <1>3, <1>4, <1>5 DEF Asked
  <1> QED BY <1>1, <1>3, <1>4, <1>6, <1>7 DEF Joined

LEMMA ContiguousGrows ==
    ASSUME NEW s \in Seq(Items), NEW x \in Items, Contiguous(s)
    PROVE  /\ Audio(x) /\ EndsAt(s, x.at) =>
                  Contiguous(Append(s, x)) /\ EndsAt(Append(s, x), x.at + x.n)
           /\ ~Audio(x) => Contiguous(Append(s, x)) /\ \A p : EndsAt(s, p) => EndsAt(Append(s, x), p)
  <1>1. PICK n \in Nat, r \in Seq(Items) :
             /\ r = Append(s, x) /\ n = Len(s) /\ Len(r) = n + 1
             /\ r[n + 1] = x /\ \A i \in 1 .. n : r[i] = s[i]
    BY Grown
  <1>2. \A j \in 1 .. n + 1 : \A i \in 1 .. n : i < j => (Joined(r, i, j) <=> Joined(s, i, j))
    BY <1>1, JoinedStays
  <1>3. ASSUME Audio(x) => EndsAt(s, x.at) PROVE Contiguous(r)
    <2> SUFFICES ASSUME NEW i \in 1 .. n + 1, NEW j \in 1 .. n + 1,
                        i < j, Joined(r, i, j), Audio(r[j])
                 PROVE  r[j].at = r[i].at + r[i].n
      BY <1>1 DEF Contiguous
    <2>1. i \in 1 .. n
      OBVIOUS
    <2>2. Joined(s, i, j)
      BY <1>2, <2>1
    <2>3. CASE j = n + 1
      <3>1. EndsAt(s, x.at)
        BY <1>1, <1>3, <2>3
      <3>2. x.at = s[i].at + s[i].n
        BY <1>1, <2>1, <2>2, <2>3, <3>1 DEF EndsAt
      <3> QED BY <1>1, <2>1, <2>3, <3>2
    <2>4. CASE j # n + 1
      <3>1. j \in 1 .. n
        BY <2>4
      <3> QED BY <1>1, <2>1, <2>2, <3>1 DEF Contiguous
    <2> QED BY <2>3, <2>4
  <1>4. ASSUME Audio(x) PROVE EndsAt(r, x.at + x.n)
    <2> SUFFICES ASSUME NEW i \in 1 .. n + 1, Joined(r, i, n + 2)
                 PROVE  r[i].at + r[i].n = x.at + x.n
      BY <1>1 DEF EndsAt
    <2>1. i \notin 1 .. n
      BY <1>1, <1>4, JoinedShrinks
    <2>2. i = n + 1
      BY <2>1
    <2> QED BY <1>1, <2>2
  <1>5. ASSUME ~Audio(x), NEW p, EndsAt(s, p) PROVE EndsAt(r, p)
    <2> SUFFICES ASSUME NEW i \in 1 .. n + 1, Joined(r, i, n + 2)
                 PROVE  r[i].at + r[i].n = p
      BY <1>1 DEF EndsAt
    <2>1. i # n + 1
      BY <1>1, <1>5 DEF Joined
    <2>2. i \in 1 .. n /\ i < n + 1 /\ n + 1 \in 1 .. n + 1
      BY <2>1
    <2>3. Joined(r, i, n + 1)
      BY <2>2, JoinedShrinks
    <2>4. Joined(s, i, n + 1)
      BY <1>2, <2>2, <2>3
    <2> QED BY <1>1, <1>5, <2>2, <2>4 DEF EndsAt
  <1> QED BY <1>1, <1>3, <1>4, <1>5

LEMMA LastAskedGrows ==
    ASSUME NEW s \in Seq(Items), NEW x \in Items
    PROVE  /\ Answer(x) => LastAsked(Append(s, x), x.at)
           /\ ~Answer(x) => \A a : LastAsked(s, a) => LastAsked(Append(s, x), a)
           /\ ~Audio(x) /\ Silent(s) => Silent(Append(s, x))
  <1>1. PICK n \in Nat, r \in Seq(Items) :
             /\ r = Append(s, x) /\ n = Len(s) /\ Len(r) = n + 1
             /\ r[n + 1] = x /\ \A i \in 1 .. n : r[i] = s[i]
    BY Grown
  <1>2. \A k \in 1 .. n + 1 : k \in 1 .. n \/ k = n + 1
    OBVIOUS
  <1>3. ASSUME Answer(x) PROVE LastAsked(r, x.at)
    <2>1. n + 1 \in 1 .. n + 1 /\ (n + 1) + 1 .. n + 1 = {}
      OBVIOUS
    <2> QED BY <1>1, <1>3, <2>1 DEF LastAsked
  <1>4. ASSUME ~Answer(x), NEW a, LastAsked(s, a) PROVE LastAsked(r, a)
    <2>1. PICK k \in 1 .. n : Answer(s[k]) /\ s[k].at = a /\ \A l \in k + 1 .. n : ~Answer(s[l])
      BY <1>1, <1>4 DEF LastAsked
    <2>2. k \in 1 .. n + 1 /\ \A l \in k + 1 .. n + 1 : (l \in 1 .. n /\ l \in k + 1 .. n) \/ l = n + 1
      OBVIOUS
    <2>3. \A l \in k + 1 .. n + 1 : ~Answer(r[l])
      BY <1>1, <1>4, <2>1, <2>2
    <2> QED BY <1>1, <2>1, <2>2, <2>3 DEF LastAsked
  <1>5. ~Audio(x) /\ Silent(s) => Silent(r)
    BY <1>1, <1>2 DEF Silent
  <1> QED BY <1>1, <1>3, <1>4, <1>5

\* After the answer to a request for another stream, and before any audio,
\* nothing is owed to the player.
LEMMA NothingOwed ==
    ASSUME NEW s, Len(s) \in Nat, NEW p
    PROVE  /\ \A a : LastAsked(s, a) /\ a # TheStream => EndsAt(s, p)
           /\ Silent(s) => EndsAt(s, p)
  <1>1. ASSUME NEW a, LastAsked(s, a), a # TheStream PROVE EndsAt(s, p)
    <2>1. PICK k \in 1 .. Len(s) :
              Answer(s[k]) /\ s[k].at = a /\ \A l \in k + 1 .. Len(s) : ~Answer(s[l])
      BY <1>1 DEF LastAsked
    <2> SUFFICES ASSUME NEW i \in 1 .. Len(s), Asked(s, i, Len(s) + 1) PROVE FALSE
      BY DEF EndsAt, Joined
    <2>2. k \in 1 .. Len(s) + 1 - 1 /\ \A l \in k + 1 .. i - 1 : l \in k + 1 .. Len(s)
      OBVIOUS
    <2>3. s[k].at = TheStream
      BY <2>1, <2>2 DEF Asked
    <2> QED BY <1>1, <2>1, <2>3
  <1>2. ASSUME Silent(s) PROVE EndsAt(s, p)
    BY <1>2 DEF Silent, EndsAt, Joined
  <1> QED BY <1>1, <1>2
-----------------------------------------------------------------------------
(* A player that asked for the stream once, and titles *)

\* After s the player is where b bytes of audio since the last block put it.
Plays(s, b) == Clean(s) =>
    s # << >> /\ Play(Tail(s)) = [ok |-> TRUE, due |-> MetaDataInterval - b]

Fits(s, b) == Since(s, b) /\ Spaced(s) /\ Plays(s, b)

LEMMA FitsNothing == Fits(<< >>, 0)
  BY SinceNothing DEF Fits, Plays, Clean

\* The tail of a sequence that is clean, when it grows by one item.
LEMMA CleanGrows ==
    ASSUME NEW s \in Seq(Items), NEW x \in Items, Clean(Append(s, x))
    PROVE  \/ s = << >> /\ Answer(x) /\ Tail(Append(s, x)) = << >>
           \/ /\ s # << >> /\ Clean(s) /\ ~Answer(x)
              /\ x.kind = "meta" => x.n < LengthValues
              /\ Tail(s) \in Seq(Items) /\ Tail(Append(s, x)) = Append(Tail(s), x)
  <1>1. PICK n \in Nat, r \in Seq(Items) :
             /\ r = Append(s, x) /\ n = Len(s) /\ Len(r) = n + 1
             /\ r[n + 1] = x /\ \A i \in 1 .. n : r[i] = s[i]
    BY Grown
  <1>2. Clean(r)
    BY <1>1
  <1>3. CASE s = << >>
    <2>1. n = 0
      BY <1>1, <1>3
    <2>2. r[1] = x
      BY <1>1, <2>1
    <2>3. Answer(x)
      BY <1>2, <2>2 DEF Clean, Answer, Responses
    <2>4. Tail(Append(s, x)) = << >>
      BY <1>3
    <2> QED BY <1>3, <2>3, <2>4
  <1>4. CASE s # << >>
    <2>1. n # 0
      BY <1>1, <1>4, EmptySeq
    <2>2. 1 \in 1 .. n /\ n + 1 \in 2 .. n + 1 /\ n + 1 \in 1 .. n + 1
      BY <2>1
    <2>3. \A i \in 2 .. n : i \in 1 .. n /\ i \in 2 .. n + 1
      OBVIOUS
    <2>4. s[1].kind = "icy" /\ \A i \in 2 .. n : ~Answer(s[i])
      BY <1>1, <1>2, <2>2, <2>3 DEF Clean
    <2>5. \A i \in MetasIn(s) : s[i].n < LengthValues
      <3>1. \A i \in MetasIn(s) : i \in 1 .. n /\ i \in MetasIn(r)
        BY <1>1 DEF MetasIn
      <3> QED BY <1>1, <1>2, <3>1 DEF Clean
    <2>6. ~Answer(x)
      BY <1>1, <1>2, <2>2 DEF Clean
    <2>7. x.kind = "meta" => x.n < LengthValues
      <3>1. x.kind = "meta" => n + 1 \in MetasIn(r)
        BY <1>1, <2>2 DEF MetasIn
      <3> QED BY <1>1, <1>2, <3>1 DEF Clean
    <2>8. Tail(s) \in Seq(Items) /\ Tail(Append(s, x)) = Append(Tail(s), x)
      BY <1>4
    <2>9. Clean(s)
      BY <1>1, <1>4, <2>4, <2>5 DEF Clean
    <2> QED BY <1>4, <2>6, <2>7, <2>8, <2>9
  <1> QED BY <1>3, <1>4

LEMMA PlaysGrows ==
    ASSUME NEW s \in Seq(Items), NEW x \in Items, NEW b \in 0 .. MetaDataInterval,
           Since(s, b), Plays(s, b)
    PROVE  /\ x.kind = "audio" /\ b + x.n <= MetaDataInterval => Plays(Append(s, x), b + x.n)
           /\ x.kind \in Responses => Plays(Append(s, x), b)
           /\ x.kind = "meta" /\ b = MetaDataInterval => Plays(Append(s, x), 0)
  <1>1. PICK r \in Seq(Items) : r = Append(s, x) /\ r # << >>
    BY Grown, EmptySeq
  <1>2. CASE ~Clean(r)
    BY <1>1, <1>2 DEF Plays
  <1>3. CASE s = << >> /\ Answer(x) /\ Tail(r) = << >>
    <2>1. b = 0
      BY <1>3, SinceNothing
    <2>2. Play(Tail(r)) = [ok |-> TRUE, due |-> MetaDataInterval - b]
      <3>1. MetaDataInterval - 0 = MetaDataInterval
        BY IntervalAssumption
      <3> QED BY <1>3, <2>1, <3>1, PlayGoesOn
    <2>3. x.kind # "audio" /\ x.kind # "meta"
      BY <1>3 DEF Answer, Responses
    <2> QED BY <1>1, <2>2, <2>3 DEF Plays
  <1>4. CASE /\ s # << >> /\ Clean(s) /\ ~Answer(x)
             /\ x.kind = "meta" => x.n < LengthValues
             /\ Tail(s) \in Seq(Items) /\ Tail(r) = Append(Tail(s), x)
    <2>1. Play(Tail(s)) = [ok |-> TRUE, due |-> MetaDataInterval - b]
      BY <1>4 DEF Plays
    <2>2. Play(Tail(r)) = Heard(x, Play(Tail(s)))
      BY <1>4, PlayGoesOn
    <2>3. Play(Tail(r)) = Player(x, [ok |-> TRUE, due |-> MetaDataInterval - b])
      <3> DEFINE p == [ok |-> TRUE, due |-> MetaDataInterval - b]
      <3>1. p.ok
        OBVIOUS
      <3> HIDE DEF p
      <3>2. Heard(x, p) = Player(x, p)
        BY <3>1 DEF Heard
      <3> QED BY ONLY <2>1, <2>2, <3>2 DEF p
    <2>4. x.n \in Nat /\ b \in Nat /\ MetaDataInterval \in Nat
      BY IntervalAssumption DEF Items
    <2>5. ASSUME x.kind = "audio", b + x.n <= MetaDataInterval
          PROVE  Play(Tail(r)) = [ok |-> TRUE, due |-> MetaDataInterval - (b + x.n)]
      <3>1. x.n <= MetaDataInterval - b /\ MetaDataInterval - b - x.n = MetaDataInterval - (b + x.n)
        BY <2>4, <2>5
      <3> QED BY <2>3, <2>5, <3>1 DEF Player
    <2>6. ASSUME x.kind = "meta", b = MetaDataInterval
          PROVE  Play(Tail(r)) = [ok |-> TRUE, due |-> MetaDataInterval - 0]
      <3>1. MetaDataInterval - b = 0 /\ MetaDataInterval - 0 = MetaDataInterval
        BY <2>4, <2>6
      <3>2. x.n % LengthValues = x.n
        <4>1. \A m \in Nat, d \in Nat \ {0} : m < d => m % d = m
          OBVIOUS
        <4> QED BY <1>4, <2>4, <2>6, <4>1, LengthAssumption
      <3>3. x.kind # "audio"
        BY <2>6
      <3> QED BY ONLY <2>3, <3>1, <3>2, <3>3 DEF Player
    <2>7. x.kind \notin Responses
      BY <1>4 DEF Answer
    <2> QED BY <1>1, <2>5, <2>6, <2>7 DEF Plays
  <1>5. Clean(r) => \/ s = << >> /\ Answer(x) /\ Tail(r) = << >>
                    \/ /\ s # << >> /\ Clean(s) /\ ~Answer(x)
                       /\ x.kind = "meta" => x.n < LengthValues
                       /\ Tail(s) \in Seq(Items) /\ Tail(r) = Append(Tail(s), x)
    BY <1>1, CleanGrows
  <1> QED BY <1>2, <1>3, <1>4, <1>5

LEMMA FitsGrows ==
    ASSUME NEW s \in Seq(Items), NEW x \in Items, NEW b \in 0 .. MetaDataInterval, Fits(s, b)
    PROVE  /\ x.kind = "audio" /\ b + x.n <= MetaDataInterval => Fits(Append(s, x), b + x.n)
           /\ x.kind \in Responses => Fits(Append(s, x), b)
           /\ x.kind = "meta" /\ b = MetaDataInterval => Fits(Append(s, x), 0)
  <1>1. Since(s, b) /\ Spaced(s) /\ Plays(s, b)
    BY DEF Fits
  <1> QED BY <1>1, SinceGrows, PlaysGrows DEF Fits

\* TitleOnceAndNewest, of one sequence
Rising(s) == \A i, j \in MetasIn(s) : i < j /\ s[i].at # 0 /\ s[j].at # 0 => s[i].at < s[j].at

\* s has no title newer than update t.
UpTo(s, t) == \A i \in MetasIn(s) : s[i].at <= t

LEMMA RisingGrows ==
    ASSUME NEW s \in Seq(Items), NEW x \in Items, Rising(s), NEW t \in Nat, UpTo(s, t)
    PROVE  /\ x.kind # "meta" \/ x.at = 0 => Rising(Append(s, x)) /\ UpTo(Append(s, x), t)
           /\ x.at > t => Rising(Append(s, x)) /\ UpTo(Append(s, x), x.at)
  <1>1. PICK n \in Nat, r \in Seq(Items) :
             /\ r = Append(s, x) /\ n = Len(s) /\ Len(r) = n + 1
             /\ r[n + 1] = x /\ \A i \in 1 .. n : r[i] = s[i]
    BY Grown
  <1>2. \A i \in MetasIn(r) : \/ (i \in MetasIn(s) /\ r[i] = s[i] /\ i < n + 1)
                              \/ (i = n + 1 /\ r[i] = x /\ x.kind = "meta")
    <2> SUFFICES ASSUME NEW i \in 1 .. n + 1, r[i].kind = "meta"
                 PROVE  \/ (i \in MetasIn(s) /\ r[i] = s[i] /\ i < n + 1)
                        \/ (i = n + 1 /\ r[i] = x /\ x.kind = "meta")
      BY <1>1 DEF MetasIn
    <2>1. (i \in 1 .. n /\ i < n + 1) \/ i = n + 1
      OBVIOUS
    <2> QED BY <1>1, <2>1 DEF MetasIn
  <1>3. x.at \in Nat /\ \A i \in MetasIn(s) : s[i].at \in Nat /\ i \in Nat
    <2>1. \A i \in MetasIn(s) : i \in 1 .. n
      BY <1>1 DEF MetasIn
    <2>2. \A i \in 1 .. n : s[i] \in Items
      BY <1>1, ElementOfSeq
    <2> QED BY <2>1, <2>2 DEF Items
  <1>4. ASSUME x.kind # "meta" \/ x.at = 0 PROVE Rising(r) /\ UpTo(r, t)
    <2>1. UpTo(r, t)
      BY <1>2, <1>3, <1>4 DEF UpTo
    <2>2. Rising(r)
      BY <1>2, <1>3, <1>4 DEF Rising
    <2> QED BY <2>1, <2>2
  <1>5. ASSUME x.at > t PROVE Rising(r) /\ UpTo(r, x.at)
    <2>1. \A i \in MetasIn(s) : s[i].at < x.at
      BY <1>3, <1>5 DEF UpTo
    <2>2. UpTo(r, x.at)
      BY <1>2, <1>3, <2>1 DEF UpTo
    <2>3. Rising(r)
      BY SMTT(30), <1>2, <1>3, <2>1 DEF Rising
    <2> QED BY <2>2, <2>3
  <1> QED BY <1>1, <1>4, <1>5
-----------------------------------------------------------------------------
(* The walk over the list *)

Among(s, c) == \E i \in 1 .. Len(s) : s[i] = c
Distinct(s) == \A i, j \in 1 .. Len(s) : s[i] = s[j] => i = j

LEMMA Removed ==
    ASSUME NEW S, NEW s \in Seq(S), NEW i \in 1 .. Len(s)
    PROVE  /\ RemoveAt(s, i) \in Seq(S)
           /\ Distinct(s) => /\ Distinct(RemoveAt(s, i))
                             /\ \A c : Among(RemoveAt(s, i), c) <=> Among(s, c) /\ c # s[i]
  <1>1. PICK n \in Nat : n = Len(s)
    BY LenProperties
  <1>2. PICK r : r = RemoveAt(s, i)
    OBVIOUS
  <1>3. /\ r \in Seq(S) /\ Len(r) = n - 1
        /\ \A j \in 1 .. n - 1 : r[j] = IF j < i THEN s[j] ELSE s[j + 1]
    <2>1. i \in 1 .. n /\ i \in Nat /\ i - 1 \in Nat /\ n - i \in Nat
      BY <1>1
    <2>2. PICK a : a = SubSeq(s, 1, i - 1)
      OBVIOUS
    <2>3. PICK b : b = SubSeq(s, i + 1, n)
      OBVIOUS
    <2>4. a \in Seq(S) /\ Len(a) = i - 1 /\ \A j \in 1 .. i - 1 : a[j] = s[j]
      BY <1>1, <2>1, <2>2
    <2>5. b \in Seq(S) /\ Len(b) = n - i /\ \A j \in 1 .. n - i : b[j] = s[i + j]
      BY <1>1, <2>1, <2>3
    <2>6. r = a \o b
      BY <1>1, <1>2, <2>2, <2>3 DEF RemoveAt
    <2>7. /\ r \in Seq(S) /\ Len(r) = Len(a) + Len(b)
          /\ \A j \in 1 .. Len(a) + Len(b) :
               r[j] = IF j <= Len(a) THEN a[j] ELSE b[j - Len(a)]
      BY ONLY <2>4, <2>5, <2>6, ConcatProperties
    <2>8. Len(a) + Len(b) = n - 1
      BY <1>1, <2>1, <2>4, <2>5
    <2>9. ASSUME NEW j \in 1 .. n - 1 PROVE r[j] = IF j < i THEN s[j] ELSE s[j + 1]
      <3>1. j < i => j \in 1 .. i - 1 /\ j <= i - 1
        BY <2>1
      <3>2. ~(j < i) => /\ ~(j <= i - 1) /\ j - (i - 1) \in 1 .. n - i
                        /\ i + (j - (i - 1)) = j + 1
        BY <2>1
      <3> QED BY <2>4, <2>5, <2>7, <2>8, <3>1, <3>2
    <2> QED BY <2>7, <2>8, <2>9
  <1>4. \A j \in 1 .. n - 1 : \E k \in 1 .. n : k # i /\ r[j] = s[k]
    <2> SUFFICES ASSUME NEW j \in 1 .. n - 1 PROVE \E k \in 1 .. n : k # i /\ r[j] = s[k]
      OBVIOUS
    <2>1. j \in 1 .. n /\ j + 1 \in 1 .. n
      OBVIOUS
    <2> QED BY <1>3, <2>1
  <1>5. ASSUME NEW k \in 1 .. n, k # i PROVE \E j \in 1 .. n - 1 : r[j] = s[k]
    <2>1. CASE k < i
      BY <1>1, <1>3, <2>1
    <2>2. CASE i < k
      <3>1. k - 1 \in 1 .. n - 1 /\ ~(k - 1 < i) /\ k - 1 + 1 = k
        BY <1>1, <2>2
      <3> QED BY <1>3, <3>1
    <2> QED BY <1>1, <1>5, <2>1, <2>2
  <1>6. ASSUME Distinct(s) PROVE Distinct(r)
    <2> SUFFICES ASSUME NEW j \in 1 .. n - 1, NEW k \in 1 .. n - 1, r[j] = r[k] PROVE j = k
      BY <1>3 DEF Distinct
    <2>1. \A l \in 1 .. n - 1 : l \in 1 .. n /\ l + 1 \in 1 .. n
      OBVIOUS
    <2>2. \A l, m \in 1 .. n : s[l] = s[m] => l = m
      BY <1>1, <1>6 DEF Distinct
    <2> QED BY <1>3, <2>1, <2>2
  <1>7. ASSUME Distinct(s), NEW c PROVE Among(r, c) <=> Among(s, c) /\ c # s[i]
    <2>1. Among(r, c) => Among(s, c) /\ c # s[i]
      BY <1>1, <1>3, <1>4, <1>7 DEF Among, Distinct
    <2>2. Among(s, c) /\ c # s[i] => Among(r, c)
      BY <1>1, <1>3, <1>5 DEF Among
    <2> QED BY <2>1, <2>2
  <1> QED BY <1>2, <1>3, <1>6, <1>7

LEMMA Advanced ==
    ASSUME NEW S, NEW s \in Seq(S), s # << >>
    PROVE  Distinct(s) => /\ Distinct(Tail(s))
                          /\ \A c : Among(Tail(s), c) <=> Among(s, c) /\ c # Head(s)
  <1>1. PICK n \in Nat : n = Len(s) /\ n # 0
    BY EmptySeq, LenProperties
  <1>2. PICK r : r = Tail(s)
    OBVIOUS
  <1>3. /\ Len(r) = n - 1 /\ \A j \in 1 .. n - 1 : r[j] = s[j + 1]
        /\ Head(s) = s[1] /\ 1 \in 1 .. n
    BY <1>1, <1>2
  <1>4. \A j \in 1 .. n - 1 : j + 1 \in 1 .. n /\ j + 1 # 1
    OBVIOUS
  <1>5. \A k \in 1 .. n : k = 1 \/ (k - 1 \in 1 .. n - 1 /\ k - 1 + 1 = k)
    OBVIOUS
  <1>6. Distinct(s) => Distinct(r)
    <2> SUFFICES ASSUME Distinct(s), NEW j \in 1 .. n - 1, NEW k \in 1 .. n - 1, r[j] = r[k]
                 PROVE  j = k
      BY <1>3 DEF Distinct
    <2>1. j + 1 = k + 1
      BY <1>1, <1>3, <1>4 DEF Distinct
    <2> QED BY <2>1
  <1>7. ASSUME Distinct(s), NEW c PROVE Among(r, c) <=> Among(s, c) /\ c # Head(s)
    <2>1. Among(r, c) => Among(s, c) /\ c # Head(s)
      BY <1>1, <1>3, <1>4, <1>7 DEF Among, Distinct
    <2>2. ASSUME NEW k \in 1 .. n, s[k] = c, c # Head(s) PROVE Among(r, c)
      <3>1. k - 1 \in 1 .. n - 1 /\ k - 1 + 1 = k
        BY <1>3, <1>5, <2>2
      <3>2. r[k - 1] = c
        BY <1>3, <2>2, <3>1
      <3> QED BY <1>3, <3>1, <3>2 DEF Among
    <2> QED BY <1>1, <2>1, <2>2 DEF Among
  <1> QED BY <1>2, <1>6, <1>7

LEMMA Pushed ==
    ASSUME NEW S, NEW s \in Seq(S), NEW x \in S, ~Among(s, x)
    PROVE  Distinct(s) => /\ Distinct(Append(s, x))
                          /\ \A c : Among(Append(s, x), c) <=> Among(s, c) \/ c = x
  <1>1. PICK n \in Nat : n = Len(s)
    BY LenProperties
  <1>2. PICK r : r = Append(s, x)
    OBVIOUS
  <1>3. Len(r) = n + 1 /\ r[n + 1] = x /\ \A i \in 1 .. n : r[i] = s[i]
    BY <1>1, <1>2, AppendProperties
  <1>4. \A k \in 1 .. n + 1 : k \in 1 .. n \/ k = n + 1
    OBVIOUS
  <1>5. \A k \in 1 .. n : k \in 1 .. n + 1
    OBVIOUS
  <1>6. n + 1 \in 1 .. n + 1
    OBVIOUS
  <1>7. Distinct(s) => Distinct(r)
    BY <1>1, <1>3, <1>4 DEF Distinct, Among
  <1>8. \A c : Among(r, c) <=> Among(s, c) \/ c = x
    BY <1>1, <1>3, <1>4, <1>5, <1>6 DEF Among
  <1> QED BY <1>2, <1>7, <1>8

WalkInv ==
    /\ todo # << >> => lock = "stream"
    /\ stage # "visit" => /\ todo # << >> /\ left > 0
                          /\ streamIdRequested[Head(todo)] # NoStream
    /\ stage = "meta" => left + metaCount[Head(todo)] > MetaDataInterval
    /\ size <= produced

ListInv ==
    /\ Distinct(connectionList) /\ Distinct(todo)
    /\ \A c \in Conns : life[c] = "listed" <=> Among(connectionList, c)
    /\ \A c \in Conns : Among(todo, c) => life[c] = "listed"

\* Connection c is handed item x.
Gets(c, x) ==
    /\ c \in Conns /\ x \in Items
    /\ out' \in [Conns -> Seq(Items)]
    /\ out'[c] = IF Audio(x) /\ x.n = 0 THEN out[c] ELSE Append(out[c], x)
    /\ \A d \in Conns : d # c => out'[d] = out[d]

LEMMA Gotten ==
    ASSUME TypeOK, NEW c \in Conns, NEW x \in Items, Handed(c, x)
    PROVE  Gets(c, x)
  <1>1. out \in [Conns -> Seq(Items)]
    BY DEF TypeOK, Items
  <1>2. out' = [out EXCEPT ![c] = IF Audio(x) /\ x.n = 0 THEN out[c] ELSE Append(out[c], x)]
    BY DEF Handed, Audio
  <1>3. out[c] \in Seq(Items) /\ Append(out[c], x) \in Seq(Items)
    BY <1>1, AppendProperties
  <1> QED BY <1>1, <1>2, <1>3 DEF Gets

\* The parts of TypeOK that arithmetic needs.
LEMMA Numbers ==
    ASSUME TypeOK, WalkInv
    PROVE  /\ size \in Nat /\ left \in Nat /\ produced \in Nat /\ left <= size
           /\ size <= produced /\ produced <= MaxBytes
           /\ MetaDataInterval \in Nat /\ MaxBytes \in Nat
           /\ At \in Nat
           /\ \A c \in Conns : /\ metaCount[c] \in Nat /\ metaCount[c] <= MetaDataInterval
                               /\ PreMetaBytes(c) \in Nat
                               /\ PreMetaBytes(c) = MetaDataInterval - metaCount[c]
  <1>1. size \in Nat /\ left \in Nat /\ left <= size
    BY DEF TypeOK
  <1>2. produced \in Nat /\ produced <= MaxBytes /\ MaxBytes \in Nat /\ MetaDataInterval \in Nat
    BY BoundsAssumption, IntervalAssumption DEF TypeOK
  <1>3. size <= produced
    BY DEF WalkInv
  <1>4. At \in Nat
    BY <1>1, <1>2, <1>3 DEF At
  <1>5. ASSUME NEW c \in Conns
        PROVE  /\ metaCount[c] \in Nat /\ metaCount[c] <= MetaDataInterval
               /\ PreMetaBytes(c) \in Nat
               /\ PreMetaBytes(c) = MetaDataInterval - metaCount[c]
    <2>1. metaCount[c] \in 0 .. MetaDataInterval
      BY DEF TypeOK
    <2> QED BY <1>2, <2>1 DEF PreMetaBytes
  <1> QED BY <1>1, <1>2, <1>3, <1>4, <1>5

LEMMA HeadOfWalk ==
    ASSUME TypeOK, todo # << >>
    PROVE  Head(todo) \in Conns /\ Tail(todo) \in Seq(Conns) /\ Among(todo, Head(todo))
  <1>1. todo \in Seq(Conns)
    BY DEF TypeOK
  <1>2. Len(todo) \in Nat /\ Len(todo) # 0
    BY <1>1, EmptySeq, LenProperties
  <1>3. 1 \in 1 .. Len(todo) /\ Head(todo) = todo[1]
    BY <1>1, <1>2
  <1> QED BY <1>1, <1>3, ElementOfSeq, HeadTailProperties DEF Among

\* The steps that hand audio or metadata to the first connection of the walk.
LEMMA SplitPacketGives ==
    ASSUME TypeOK, WalkInv, SplitPacket
    PROVE  /\ Gets(Head(todo), Item("audio", At, PreMetaBytes(Head(todo))))
           /\ left + metaCount[Head(todo)] > MetaDataInterval
  <1>1. todo # << >>
    BY DEF SplitPacket, WalkInv
  <1>2. Head(todo) \in Conns
    BY <1>1, HeadOfWalk
  <1>3. Item("audio", At, PreMetaBytes(Head(todo))) \in Items
    BY <1>2, Numbers DEF Item, Items
  <1> QED BY <1>2, <1>3, Gotten DEF SplitPacket

LEMMA TransmitRestGives ==
    ASSUME TypeOK, WalkInv, TransmitRest
    PROVE  /\ Gets(Head(todo), Item("audio", At, left)) /\ left > 0
           /\ metaCount' = [metaCount EXCEPT ![Head(todo)] = metaCount[Head(todo)] + left]
           /\ metaCount[Head(todo)] + left <= MetaDataInterval
  <1>1. todo # << >> /\ left > 0
    BY DEF TransmitRest, WalkInv
  <1>2. Head(todo) \in Conns
    BY <1>1, HeadOfWalk
  <1>3. Item("audio", At, left) \in Items
    BY Numbers DEF Item, Items
  <1>4. left + metaCount[Head(todo)] <= MetaDataInterval
    BY DEF TransmitRest
  <1>5. metaCount[Head(todo)] + left <= MetaDataInterval
    BY <1>2, <1>4, Numbers
  <1> QED BY <1>1, <1>2, <1>3, <1>5, Gotten DEF TransmitRest

\* What a metadata block says of the title.
Block(c) == IF newMetaData[c] THEN Item("meta", metaData[c][1], metaData[c][2])
                              ELSE Item("meta", 0, 0)

LEMMA TransmitMetaDataGives ==
    ASSUME TypeOK, WalkInv, TransmitMetaData
    PROVE  /\ Gets(Head(todo), Block(Head(todo))) /\ Block(Head(todo)).kind = "meta"
           /\ left' = left - PreMetaBytes(Head(todo)) /\ left' \in Nat /\ left' > 0
           /\ left' <= left
  <1>1. todo # << >> /\ left + metaCount[Head(todo)] > MetaDataInterval
    BY DEF TransmitMetaData, WalkInv
  <1>2. Head(todo) \in Conns
    BY <1>1, HeadOfWalk
  <1>3. metaData[Head(todo)][1] \in Nat /\ metaData[Head(todo)][2] \in Nat
    BY <1>2 DEF TypeOK
  <1>4. Block(Head(todo)) \in Items /\ Block(Head(todo)).kind = "meta"
    BY <1>3 DEF Block, Item, Items
  <1>5. Handed(Head(todo), Block(Head(todo)))
    BY DEF TransmitMetaData, Block
  <1>6. left' = left - PreMetaBytes(Head(todo))
    BY DEF TransmitMetaData
  <1>7. left' \in Nat /\ left' > 0 /\ left' <= left
    <2>1. \A l, m, i, p \in Nat : p = i - m /\ l + m > i => l - p \in Nat /\ l - p > 0 /\ l - p <= l
      OBVIOUS
    <2> QED BY <1>1, <1>2, <1>6, <2>1, Numbers
  <1> QED BY <1>2, <1>4, <1>5, <1>6, <1>7, Gotten

LEMMA RespondGives ==
    ASSUME TypeOK, NEW c \in Conns, Respond(c)
    PROVE  /\ Gets(c, Item(answering[c], streamIdRequested[c], 0))
           /\ answering[c] \in Responses
  <1>1. answering[c] \in Responses /\ streamIdRequested[c] \in Nat
    <2>1. answering[c] \in Responses \cup {"none"} /\ answering[c] # "none"
      BY DEF TypeOK, Respond
    <2>2. streamIdRequested[c] \in Streams \cup {NoStream}
      BY DEF TypeOK
    <2>3. Streams \subseteq Nat /\ NoStream \in Nat
      BY StreamAssumption DEF NoStream
    <2> QED BY <2>1, <2>2, <2>3
  <1>2. Item(answering[c], streamIdRequested[c], 0) \in Items
    BY <1>1 DEF Item, Items
  <1> QED BY <1>1, <1>2, Gotten DEF Respond

LEMMA TypeStep == TypeOK /\ WalkInv /\ [Next]_vars => TypeOK'
  <1> SUFFICES ASSUME TypeOK, WalkInv, [Next]_vars PROVE TypeOK'
    OBVIOUS
  <1> USE DEF vars, connVars, producerVars
  <1>1. ASSUME NEW n \in PacketSizes, AddStreamData(n) PROVE TypeOK'
    <2>1. n \in Nat /\ produced + n \in Nat /\ produced + n <= MaxBytes
      BY <1>1, PacketAssumption, Numbers DEF AddStreamData
    <2>2. produced' \in 0 .. MaxBytes /\ size' \in Nat /\ left' \in 0 .. size'
      BY <1>1, <2>1, Numbers DEF AddStreamData
    <2> QED BY <1>1, <2>2 DEF AddStreamData, TypeOK
  <1>2. CASE Visit
    <2>1. left' \in 0 .. size'
      <3>1. left' = size \/ left' = left
        BY <1>2 DEF Visit
      <3>2. size' = size
        BY <1>2 DEF Visit
      <3> QED BY <3>1, <3>2, Numbers
    <2>3. stage' \in {"visit", "split", "meta"}
      BY <1>2 DEF Visit, TypeOK
    <2>2. todo' \in Seq(Conns)
      BY <1>2, HeadOfWalk DEF Visit, TypeOK
    <2> QED BY <1>2, <2>1, <2>2, <2>3 DEF Visit, TypeOK
  <1>3. CASE SplitPacket
    <2>1. out' \in [Conns -> Seq(Items)]
      BY <1>3, SplitPacketGives DEF Gets
    <2> QED BY <1>3, <2>1 DEF SplitPacket, TypeOK, Items
  <1>4. CASE TransmitMetaData
    <2>1. out' \in [Conns -> Seq(Items)]
      BY <1>4, TransmitMetaDataGives DEF Gets
    <2>2. left' \in 0 .. size'
      <3>1. left' \in Nat /\ left' <= left /\ size' = size
        BY <1>4, TransmitMetaDataGives DEF TransmitMetaData
      <3> QED BY <3>1, Numbers
    <2>3. metaCount' \in [Conns -> 0 .. MetaDataInterval]
      <3>1. 0 \in 0 .. MetaDataInterval
        BY IntervalAssumption
      <3> QED BY <1>4, <3>1 DEF TransmitMetaData, TypeOK
    <2>4. newMetaData' \in [Conns -> BOOLEAN]
      BY <1>4 DEF TransmitMetaData, TypeOK
    <2> QED BY <1>4, <2>1, <2>2, <2>3, <2>4 DEF TransmitMetaData, TypeOK, Items
  <1>5. CASE TransmitRest
    <2>1. out' \in [Conns -> Seq(Items)] /\ Head(todo) \in Conns
      BY <1>5, TransmitRestGives DEF Gets
    <2>2. metaCount' \in [Conns -> 0 .. MetaDataInterval]
      <3>1. metaCount[Head(todo)] + left \in 0 .. MetaDataInterval
        BY SMTT(30), <1>5, <2>1, TransmitRestGives, Numbers
      <3> QED BY <1>5, <2>1, <3>1, TransmitRestGives DEF TypeOK
    <2>3. todo' \in Seq(Conns)
      BY <1>5, HeadOfWalk DEF TransmitRest, TypeOK, WalkInv
    <2> QED BY <1>5, <2>1, <2>2, <2>3 DEF TransmitRest, TypeOK, Items
  <1>6. CASE AddStreamDataReturns
    BY <1>6 DEF AddStreamDataReturns, TypeOK
  <1>7. ASSUME NEW s \in Streams, NEW b \in BlockCounts, MetaDataUpdate(s, b) PROVE TypeOK'
    <2>1. titles \in Nat /\ titles + 1 \in Nat /\ b \in Nat /\ MaxTitles \in Nat
      BY BoundsAssumption, BlockAssumption DEF TypeOK
    <2>2. titles' \in 0 .. MaxTitles
      BY <1>7, <2>1 DEF MetaDataUpdate
    <2>3. metaData' \in [Conns -> Nat \X Nat] /\ newMetaData' \in [Conns -> BOOLEAN]
      BY <1>7, <2>1 DEF MetaDataUpdate, TypeOK
    <2> QED BY <1>7, <2>2, <2>3 DEF MetaDataUpdate, TypeOK
  <1>8. ASSUME NEW c \in Conns, Accept(c) PROVE TypeOK'
    BY <1>8 DEF Accept, TypeOK
  <1>9. ASSUME NEW c \in Conns, PushBack(c) PROVE TypeOK'
    <2>1. connectionList' \in Seq(Conns)
      BY <1>9, AppendProperties DEF PushBack, TypeOK
    <2> QED BY <1>9, <2>1 DEF PushBack, TypeOK
  <1>10. ASSUME NEW c \in Conns, RemoveConnection(c) PROVE TypeOK'
    <2>1. connectionList' \in Seq(Conns)
      <3>1. connectionList \in Seq(Conns)
        BY DEF TypeOK
      <3>2. PICK i \in 1 .. Len(connectionList) : connectionList' = RemoveAt(connectionList, i)
        BY <1>10 DEF RemoveConnection
      <3> QED BY <3>1, <3>2, Removed
    <2> QED BY <1>10, <2>1 DEF RemoveConnection, TypeOK
  <1>11. ASSUME NEW c \in Conns, NEW kind \in Responses, NEW s \in Streams, Request(c, kind, s)
         PROVE  TypeOK'
    <2>1. requests[c] + 1 \in 0 .. MaxRequests
      BY <1>11, BoundsAssumption DEF Request, TypeOK
    <2>2. requests' \in [Conns -> 0 .. MaxRequests]
      BY <1>11, <2>1 DEF Request, TypeOK
    <2> QED BY <1>11, <2>2 DEF Request, TypeOK
  <1>12. ASSUME NEW c \in Conns, Respond(c) PROVE TypeOK'
    <2>1. out' \in [Conns -> Seq(Items)]
      BY <1>12, RespondGives DEF Gets
    <2> QED BY <1>12, <2>1 DEF Respond, TypeOK, Items
  <1>13. CASE UNCHANGED vars
    BY <1>13 DEF TypeOK
  <1> QED BY <1>1, <1>2, <1>3, <1>4, <1>5, <1>6, <1>7, <1>8, <1>9, <1>10, <1>11, <1>12, <1>13
          DEF Next, Streaming
-----------------------------------------------------------------------------
(* The inductive invariant *)

\* Audio a connection has been handed since the last block, once the block that
\* is on its way has gone.
SinceMeta(c) == IF stage = "meta" /\ c = Head(todo) THEN MetaDataInterval ELSE metaCount[c]

FitsInv == \A c \in Conns : Fits(out[c], SinceMeta(c))

TitleInv == \A c \in Conns :
    /\ metaData[c][1] <= titles
    /\ Rising(out[c]) /\ UpTo(out[c], metaData[c][1])
    /\ newMetaData[c] => \A i \in MetasIn(out[c]) : out[c][i].at < metaData[c][1]

\* Only a listed connection that asked for a stream gets audio, and while no
\* answer is due the last one was for the stream that is on record.
AskInv == \A c \in Conns :
    /\ ~Silent(out[c]) => streamIdRequested[c] # NoStream /\ life[c] \in {"listed", "gone"}
    /\ answering[c] = "none" /\ streamIdRequested[c] # NoStream =>
           LastAsked(out[c], streamIdRequested[c])

InHand(c) == stage # "visit" /\ c = Head(todo)

\* The next byte a connection is due.
NextByte(c) ==
    IF InHand(c) THEN (IF stage = "split" THEN At ELSE At + PreMetaBytes(c))
    ELSE IF Among(todo, c) THEN produced - size ELSE produced

\* A packet in the middle of being split is finished even if the player asks
\* for another stream meanwhile.
Following(c) == InHand(c) \/ (life[c] = "listed" /\ streamIdRequested[c] = TheStream)

JoinInv == \A c \in Conns :
    /\ Contiguous(out[c])
    /\ Following(c) => EndsAt(out[c], NextByte(c))

Inv == TypeOK /\ WalkInv /\ ListInv /\ FitsInv /\ TitleInv /\ AskInv /\ JoinInv

LEMMA WalkStep == TypeOK /\ WalkInv /\ [Next]_vars => WalkInv'
  <1> SUFFICES ASSUME TypeOK, WalkInv, [Next]_vars PROVE WalkInv'
    OBVIOUS
  <1> USE DEF vars, connVars, producerVars
  <1>1. ASSUME NEW n \in PacketSizes, AddStreamData(n) PROVE WalkInv'
    <2>1. stage' = "visit" /\ lock' = "stream"
      BY <1>1 DEF AddStreamData
    <2>2. size' <= produced'
      <3>1. n \in Nat
        BY PacketAssumption
      <3> QED BY <1>1, <3>1, Numbers DEF AddStreamData
    <2> QED BY <2>1, <2>2 DEF WalkInv
  <1>2. CASE Visit
    <2>1. CASE streamIdRequested[Head(todo)] = TheStream /\ size > 0
      <3>1. UNCHANGED <<connVars, todo, lock, size, produced>> /\ stage' = "split" /\ left' = size
        BY <1>2, <2>1 DEF Visit
      <3>2. todo # << >> /\ streamIdRequested[Head(todo)] # NoStream
        BY <1>2, <2>1 DEF Visit, TheStream, NoStream
      <3> QED BY <2>1, <3>1, <3>2 DEF WalkInv
    <2>2. CASE ~(streamIdRequested[Head(todo)] = TheStream /\ size > 0)
      BY <1>2, <2>2 DEF Visit, WalkInv
    <2> QED BY <2>1, <2>2
  <1>3. CASE SplitPacket
    BY <1>3 DEF SplitPacket, WalkInv
  <1>4. CASE TransmitMetaData
    <2>1. left' > 0
      BY <1>4, TransmitMetaDataGives
    <2> QED BY <1>4, <2>1 DEF TransmitMetaData, WalkInv
  <1>5. CASE TransmitRest
    BY <1>5 DEF TransmitRest, WalkInv
  <1>6. CASE AddStreamDataReturns
    BY <1>6 DEF AddStreamDataReturns, WalkInv
  <1>7. ASSUME NEW s \in Streams, NEW b \in BlockCounts, MetaDataUpdate(s, b) PROVE WalkInv'
    BY <1>7 DEF MetaDataUpdate, WalkInv
  <1>8. ASSUME NEW c \in Conns, Accept(c) PROVE WalkInv'
    BY <1>8 DEF Accept, WalkInv
  <1>9. ASSUME NEW c \in Conns, PushBack(c) PROVE WalkInv'
    BY <1>9 DEF PushBack, WalkInv
  <1>10. ASSUME NEW c \in Conns, RemoveConnection(c) PROVE WalkInv'
    BY <1>10 DEF RemoveConnection, WalkInv
  <1>11. ASSUME NEW c \in Conns, NEW kind \in Responses, NEW s \in Streams, Request(c, kind, s)
         PROVE  WalkInv'
    <2>1. s # NoStream /\ UNCHANGED <<producerVars, metaCount>>
      BY <1>11, StreamAssumption DEF Request
    <2>2. todo # << >> => Head(todo) \in Conns
      BY HeadOfWalk
    <2>3. \A d \in Conns : streamIdRequested'[d] = IF d = c THEN s ELSE streamIdRequested[d]
      BY <1>11 DEF Request, TypeOK
    <2> QED BY <2>1, <2>2, <2>3 DEF WalkInv
  <1>12. ASSUME NEW c \in Conns, Respond(c) PROVE WalkInv'
    BY <1>12 DEF Respond, WalkInv
  <1>13. CASE UNCHANGED vars
    BY <1>13 DEF WalkInv
  <1> QED BY <1>1, <1>2, <1>3, <1>4, <1>5, <1>6, <1>7, <1>8, <1>9, <1>10, <1>11, <1>12, <1>13
          DEF Next, Streaming

LEMMA ListStep == TypeOK /\ WalkInv /\ ListInv /\ [Next]_vars => ListInv'
  <1> SUFFICES ASSUME TypeOK, WalkInv, ListInv, [Next]_vars PROVE ListInv'
    OBVIOUS
  <1> USE DEF vars, connVars, producerVars
  <1>0. /\ connectionList \in Seq(Conns) /\ todo \in Seq(Conns)
        /\ life \in [Conns -> {"absent", "accepted", "listed", "gone"}]
    BY DEF TypeOK
  <1>10. \A c : ~Among(<< >>, c)
    BY EmptySeq DEF Among
  <1>1. ASSUME NEW n \in PacketSizes, AddStreamData(n) PROVE ListInv'
    BY <1>1 DEF AddStreamData, ListInv
  <1>2. CASE UNCHANGED <<connectionList, life>> /\ todo # << >> /\ todo' = Tail(todo)
    <2>1. Distinct(todo') /\ \A c : Among(todo', c) => Among(todo, c)
      BY <1>0, <1>2, Advanced DEF ListInv
    <2> QED BY <1>2, <2>1 DEF ListInv
  <1>3. CASE UNCHANGED <<connectionList, life, todo>>
    BY <1>3 DEF ListInv
  <1>4. ASSUME NEW c \in Conns, PushBack(c) PROVE ListInv'
    <2>1. ~Among(connectionList, c) /\ UNCHANGED todo /\ todo = << >>
      BY <1>4 DEF PushBack, ListInv, WalkInv
    <2>2. /\ Distinct(connectionList')
          /\ \A d : Among(connectionList', d) <=> Among(connectionList, d) \/ d = c
      BY <1>0, <1>4, <2>1, Pushed DEF PushBack, ListInv
    <2>3. \A d \in Conns : life'[d] = IF d = c THEN "listed" ELSE life[d]
      BY <1>0, <1>4 DEF PushBack
    <2> QED BY <1>10, <2>1, <2>2, <2>3 DEF ListInv
  <1>5. ASSUME NEW c \in Conns, RemoveConnection(c) PROVE ListInv'
    <2>1. UNCHANGED todo /\ todo = << >>
      BY <1>5 DEF RemoveConnection, WalkInv
    <2>2. PICK i \in 1 .. Len(connectionList) :
              connectionList[i] = c /\ connectionList' = RemoveAt(connectionList, i)
      BY <1>5 DEF RemoveConnection
    <2>3. /\ Distinct(connectionList')
          /\ \A d : Among(connectionList', d) <=> Among(connectionList, d) /\ d # c
      BY <1>0, <2>2, Removed DEF ListInv
    <2>4. \A d \in Conns : life'[d] = IF d = c THEN "gone" ELSE life[d]
      BY <1>0, <1>5 DEF RemoveConnection
    <2> QED BY <1>10, <2>1, <2>3, <2>4 DEF ListInv
  <1>6. ASSUME NEW c \in Conns, Accept(c) PROVE ListInv'
    <2>1. \A d \in Conns : life'[d] = IF d = c THEN "accepted" ELSE life[d]
      BY <1>0, <1>6 DEF Accept
    <2>2. ~Among(connectionList, c) /\ ~Among(todo, c) /\ UNCHANGED <<connectionList, todo>>
      BY <1>6 DEF Accept, ListInv
    <2> QED BY <2>1, <2>2 DEF ListInv
  <1>7. CASE Streaming
    <2>1. CASE Visit
      BY <1>2, <1>3, <2>1 DEF Visit
    <2>2. CASE TransmitRest
      BY <1>2, <2>2 DEF TransmitRest, WalkInv
    <2>3. CASE SplitPacket \/ TransmitMetaData \/ AddStreamDataReturns
      BY <1>3, <2>3 DEF SplitPacket, TransmitMetaData, AddStreamDataReturns
    <2> QED BY <1>7, <2>1, <2>2, <2>3 DEF Streaming
  <1>8. CASE \/ \E s \in Streams, b \in BlockCounts : MetaDataUpdate(s, b)
             \/ \E c \in Conns : \/ \E kind \in Responses, s \in Streams : Request(c, kind, s)
                                 \/ Respond(c)
    BY <1>3, <1>8 DEF MetaDataUpdate, Request, Respond
  <1>9. CASE UNCHANGED vars
    BY <1>3, <1>9
  <1> QED BY <1>1, <1>4, <1>5, <1>6, <1>7, <1>8, <1>9 DEF Next

LEMMA FitsStep == TypeOK /\ WalkInv /\ FitsInv /\ [Next]_vars => FitsInv'
  <1> SUFFICES ASSUME TypeOK, WalkInv, FitsInv, [Next]_vars PROVE FitsInv'
    OBVIOUS
  <1> USE DEF vars, connVars, producerVars
  <1>1. CASE /\ UNCHANGED <<out, metaCount>>
             /\ UNCHANGED <<stage, todo>> \/ (stage # "meta" /\ stage' # "meta")
    <2>1. \A c \in Conns : SinceMeta(c)' = SinceMeta(c)
      BY <1>1 DEF SinceMeta
    <2> QED BY <1>1, <2>1 DEF FitsInv
  <1>2. \A c \in Conns : out[c] \in Seq(Items) /\ Fits(out[c], SinceMeta(c))
    BY DEF FitsInv, TypeOK, Items
  <1>3. CASE SplitPacket
    <2>1. PICK c, x : c = Head(todo) /\ x = Item("audio", At, PreMetaBytes(c))
      OBVIOUS
    <2>2. Gets(c, x)
      BY <1>3, <2>1, SplitPacketGives
    <2>3. /\ stage = "split" /\ stage' = "meta" /\ UNCHANGED <<todo, metaCount>>
      BY <1>3 DEF SplitPacket
    <2>4. SinceMeta(c) = metaCount[c] /\ SinceMeta(c)' = MetaDataInterval
      BY <2>1, <2>3 DEF SinceMeta
    <2>5. \A d \in Conns : d # c => SinceMeta(d)' = SinceMeta(d)
      BY <2>1, <2>3 DEF SinceMeta
    <2>6. x.kind = "audio" /\ x.n = PreMetaBytes(c) /\ Audio(x)
      BY <2>1 DEF Item, Audio
    <2>7. c \in Conns /\ x \in Items
      BY <2>2 DEF Gets
    <2>8. metaCount[c] \in 0 .. MetaDataInterval /\ metaCount[c] + x.n = MetaDataInterval
      BY <2>6, <2>7, Numbers
    <2>9. Fits(out[c], metaCount[c])
      BY <1>2, <2>4, <2>7
    <2>10. Fits(Append(out[c], x), MetaDataInterval)
      <3>1. metaCount[c] + x.n <= MetaDataInterval
        BY <2>8, IntervalAssumption
      <3>2. out[c] \in Seq(Items)
        BY <1>2, <2>7
      <3>3. Fits(Append(out[c], x), metaCount[c] + x.n)
        BY <2>6, <2>7, <2>8, <2>9, <3>1, <3>2, FitsGrows
      <3> QED BY <2>8, <3>3
    <2>11. x.n = 0 => Fits(out[c], MetaDataInterval)
      <3>1. x.n = 0 => metaCount[c] = MetaDataInterval
        BY <2>7, <2>8, Numbers
      <3> QED BY <2>9, <3>1
    <2>12. Fits(out'[c], MetaDataInterval)
      BY <2>2, <2>10, <2>11 DEF Gets
    <2> QED BY <2>2, <2>4, <2>5, <2>12 DEF FitsInv, Gets
  <1>4. CASE TransmitMetaData
    <2>1. PICK c, x : c = Head(todo) /\ x = Block(c)
      OBVIOUS
    <2>2. Gets(c, x) /\ x.kind = "meta"
      BY <1>4, <2>1, TransmitMetaDataGives
    <2>3. /\ stage = "meta" /\ stage' = "split" /\ UNCHANGED todo
          /\ metaCount' = [metaCount EXCEPT ![c] = 0]
      BY <1>4, <2>1 DEF TransmitMetaData
    <2>4. c \in Conns /\ x \in Items /\ ~Audio(x)
      BY <2>2 DEF Gets, Audio
    <2>5. metaCount'[c] = 0 /\ \A d \in Conns : d # c => metaCount'[d] = metaCount[d]
      BY <2>3, <2>4 DEF TypeOK
    <2>6. /\ SinceMeta(c) = MetaDataInterval /\ SinceMeta(c)' = 0
          /\ \A d \in Conns : d # c => SinceMeta(d)' = SinceMeta(d)
      BY <2>1, <2>3, <2>5 DEF SinceMeta
    <2>7. Fits(Append(out[c], x), 0)
      <3>1. MetaDataInterval \in 0 .. MetaDataInterval
        BY IntervalAssumption
      <3>2. out[c] \in Seq(Items) /\ Fits(out[c], MetaDataInterval)
        BY <1>2, <2>4, <2>6
      <3> QED BY <2>2, <2>4, <3>1, <3>2, FitsGrows
    <2>8. Fits(out'[c], 0)
      BY <2>2, <2>4, <2>7 DEF Gets
    <2> QED BY <2>2, <2>6, <2>8 DEF FitsInv, Gets
  <1>5. CASE TransmitRest
    <2>1. PICK c, x : c = Head(todo) /\ x = Item("audio", At, left)
      OBVIOUS
    <2>2. /\ Gets(c, x) /\ left > 0
          /\ metaCount' = [metaCount EXCEPT ![c] = metaCount[c] + left]
          /\ metaCount[c] + left <= MetaDataInterval
      BY <1>5, <2>1, TransmitRestGives
    <2>3. stage = "split" /\ stage' = "visit"
      BY <1>5 DEF TransmitRest
    <2>4. c \in Conns /\ x \in Items
      BY <2>2 DEF Gets
    <2>5. /\ metaCount'[c] = metaCount[c] + left
          /\ \A d \in Conns : d # c => metaCount'[d] = metaCount[d]
      BY <2>2, <2>4 DEF TypeOK
    <2>6. /\ SinceMeta(c) = metaCount[c] /\ SinceMeta(c)' = metaCount[c] + left
          /\ \A d \in Conns : d # c => SinceMeta(d)' = SinceMeta(d)
      BY <2>3, <2>5 DEF SinceMeta
    <2>7. x.kind = "audio" /\ x.n = left
      BY <2>1 DEF Item
    <2>8. Fits(Append(out[c], x), metaCount[c] + left)
      <3>1. metaCount[c] \in 0 .. MetaDataInterval /\ metaCount[c] + x.n <= MetaDataInterval
        BY <2>2, <2>4, <2>7, Numbers
      <3>2. out[c] \in Seq(Items) /\ Fits(out[c], metaCount[c])
        BY <1>2, <2>4, <2>6
      <3> QED BY <2>4, <2>7, <3>1, <3>2, FitsGrows
    <2>9. Fits(out'[c], metaCount[c] + left)
      <3>1. x.n # 0
        BY <2>2, <2>7
      <3> QED BY <2>2, <2>8, <3>1 DEF Gets
    <2> QED BY <2>2, <2>6, <2>9 DEF FitsInv, Gets
  <1>6. ASSUME NEW c \in Conns, Respond(c) PROVE FitsInv'
    <2>1. PICK x : x = Item(answering[c], streamIdRequested[c], 0)
      OBVIOUS
    <2>2. Gets(c, x) /\ x.kind \in Responses
      BY <1>6, <2>1, RespondGives DEF Item
    <2>3. x \in Items /\ ~Audio(x)
      BY <2>2 DEF Gets, Audio, Responses
    <2>4. \A d \in Conns : SinceMeta(d)' = SinceMeta(d)
      BY <1>6 DEF Respond, SinceMeta
    <2>5. SinceMeta(c) \in 0 .. MetaDataInterval
      BY IntervalAssumption DEF SinceMeta, TypeOK
    <2>6. Fits(Append(out[c], x), SinceMeta(c))
      BY <1>2, <2>2, <2>3, <2>5, FitsGrows
    <2> QED BY <2>2, <2>3, <2>4, <2>6 DEF FitsInv, Gets
  <1>7. ASSUME NEW n \in PacketSizes, AddStreamData(n) PROVE FitsInv'
    <2>1. stage = "visit"
      BY <1>7 DEF AddStreamData, WalkInv
    <2> QED BY <1>1, <1>7, <2>1 DEF AddStreamData
  <1>8. CASE Visit
    BY <1>1, <1>8 DEF Visit
  <1>9. CASE \/ AddStreamDataReturns
             \/ \E s \in Streams, b \in BlockCounts : MetaDataUpdate(s, b)
             \/ \E c \in Conns : \/ Accept(c) \/ PushBack(c) \/ RemoveConnection(c)
                                 \/ \E kind \in Responses, s \in Streams : Request(c, kind, s)
    BY <1>1, <1>9 DEF AddStreamDataReturns, MetaDataUpdate, Accept, PushBack, RemoveConnection,
                      Request
  <1>10. CASE UNCHANGED vars
    BY <1>1, <1>10
  <1> QED BY <1>3, <1>4, <1>5, <1>6, <1>7, <1>8, <1>9, <1>10 DEF Next, Streaming

LEMMA TitleStep == TypeOK /\ WalkInv /\ TitleInv /\ [Next]_vars => TitleInv'
  <1> SUFFICES ASSUME TypeOK, WalkInv, TitleInv, [Next]_vars PROVE TitleInv'
    OBVIOUS
  <1> USE DEF vars, connVars, producerVars
  <1>1. CASE UNCHANGED <<out, metaData, newMetaData, titles>>
    BY <1>1 DEF TitleInv
  <1>2. \A c \in Conns : out[c] \in Seq(Items) /\ metaData[c][1] \in Nat
    BY DEF TypeOK, Items
  <1>12. \A c \in Conns : \A i \in MetasIn(out[c]) : out[c][i].at \in Nat
    <2> SUFFICES ASSUME NEW c \in Conns, NEW i \in MetasIn(out[c]) PROVE out[c][i].at \in Nat
      OBVIOUS
    <2>1. i \in 1 .. Len(out[c])
      BY DEF MetasIn
    <2>2. out[c][i] \in Items
      BY <1>2, <2>1, ElementOfSeq
    <2> QED BY <2>2 DEF Items
  <1>3. \A c \in Conns : Rising(out[c]) /\ UpTo(out[c], metaData[c][1])
    BY DEF TitleInv
  <1>4. ASSUME NEW c, NEW x, Gets(c, x), x.kind # "meta", UNCHANGED <<metaData, newMetaData, titles>>
        PROVE  TitleInv'
    <2>1. c \in Conns /\ x \in Items
      BY <1>4 DEF Gets
    <2>2. /\ Rising(Append(out[c], x)) /\ UpTo(Append(out[c], x), metaData[c][1])
      BY <1>2, <1>3, <1>4, <2>1, RisingGrows
    <2>3. Rising(out'[c]) /\ UpTo(out'[c], metaData[c][1])
      BY <1>3, <1>4, <2>1, <2>2 DEF Gets
    <2>4. \A i \in MetasIn(out'[c]) : i \in MetasIn(out[c]) /\ out'[c][i] = out[c][i]
      <3>1. CASE out'[c] = out[c]
        BY <3>1
      <3>2. CASE out'[c] = Append(out[c], x)
        <4>1. PICK n \in Nat, r \in Seq(Items) :
                 /\ r = Append(out[c], x) /\ n = Len(out[c]) /\ Len(r) = n + 1
                 /\ r[n + 1] = x /\ \A i \in 1 .. n : r[i] = out[c][i]
          BY ZenonT(30), <1>2, <2>1, Grown
        <4>2. \A i \in 1 .. n + 1 : i \in 1 .. n \/ i = n + 1
          OBVIOUS
        <4> QED BY <1>4, <3>2, <4>1, <4>2 DEF MetasIn
      <3> QED BY <1>4, <3>1, <3>2 DEF Gets
    <2>5. \A d \in Conns : d # c => out'[d] = out[d]
      BY <1>4 DEF Gets
    <2> QED BY <1>4, <2>3, <2>4, <2>5 DEF TitleInv
  <1>5. CASE SplitPacket
    <2>1. Item("audio", At, PreMetaBytes(Head(todo))).kind # "meta"
      BY DEF Item
    <2> QED BY <1>4, <1>5, <2>1, SplitPacketGives DEF SplitPacket
  <1>6. CASE TransmitRest
    <2>1. Item("audio", At, left).kind # "meta"
      BY DEF Item
    <2> QED BY <1>4, <1>6, <2>1, TransmitRestGives DEF TransmitRest
  <1>7. ASSUME NEW c \in Conns, Respond(c) PROVE TitleInv'
    <2>1. Item(answering[c], streamIdRequested[c], 0).kind # "meta"
      BY <1>7, RespondGives DEF Item, Responses
    <2> QED BY <1>4, <1>7, <2>1, RespondGives DEF Respond
  <1>8. CASE TransmitMetaData
    <2>1. PICK c, x : c = Head(todo) /\ x = Block(c)
      OBVIOUS
    <2>2. Gets(c, x) /\ x.kind = "meta" /\ c \in Conns /\ x \in Items
      BY <1>8, <2>1, TransmitMetaDataGives DEF Gets
    <2>3. newMetaData' = [newMetaData EXCEPT ![c] = FALSE] /\ UNCHANGED <<metaData, titles>>
      BY <1>8, <2>1 DEF TransmitMetaData
    <2>4. out'[c] = Append(out[c], x)
      BY <2>2 DEF Gets, Audio
    <2>5. Rising(out'[c]) /\ UpTo(out'[c], metaData[c][1])
      <3>1. CASE newMetaData[c]
        <4>1. x.at = metaData[c][1]
          BY <2>1, <3>1 DEF Block, Item
        <4>2. \A i \in MetasIn(out[c]) : out[c][i].at < x.at
          BY <2>2, <3>1, <4>1 DEF TitleInv
        <4>3. CASE x.at = 0
          BY <1>2, <1>3, <2>2, <2>4, <4>3, RisingGrows
        <4>4. CASE x.at # 0
          <5>1. x.at \in Nat /\ x.at - 1 \in Nat /\ x.at > x.at - 1
            BY <2>2, <4>4 DEF Items
          <5>2. UpTo(out[c], x.at - 1)
            <6>1. \A i \in MetasIn(out[c]) : out[c][i].at \in Nat
              BY <1>12, <2>2
            <6>2. \A m, t \in Nat : m < t => m <= t - 1
              OBVIOUS
            <6> QED BY <4>2, <5>1, <6>1, <6>2 DEF UpTo
          <5>3. Rising(Append(out[c], x)) /\ UpTo(Append(out[c], x), x.at)
            BY <1>2, <1>3, <2>2, <5>1, <5>2, RisingGrows
          <5> QED BY <2>4, <4>1, <5>3
        <4> QED BY <4>3, <4>4
      <3>2. CASE ~newMetaData[c]
        <4>1. x.at = 0
          BY <2>1, <3>2 DEF Block, Item
        <4> QED BY <1>2, <1>3, <2>2, <2>4, <4>1, RisingGrows
      <3> QED BY <3>1, <3>2
    <2>6. ~newMetaData'[c] /\ \A d \in Conns : d # c => newMetaData'[d] = newMetaData[d]
      BY <2>2, <2>3 DEF TypeOK
    <2>7. \A d \in Conns : d # c => out'[d] = out[d]
      BY <2>2 DEF Gets
    <2> QED BY <2>3, <2>5, <2>6, <2>7 DEF TitleInv
  <1>9. ASSUME NEW s \in Streams, NEW b \in BlockCounts, MetaDataUpdate(s, b) PROVE TitleInv'
    <2>1. titles \in Nat /\ titles' = titles + 1 /\ UNCHANGED out
      BY <1>9 DEF MetaDataUpdate, TypeOK
    <2> SUFFICES ASSUME NEW c \in Conns
                 PROVE  /\ metaData'[c][1] <= titles'
                        /\ Rising(out[c]) /\ UpTo(out[c], metaData'[c][1])
                        /\ newMetaData'[c] => \A i \in MetasIn(out[c]) : out[c][i].at < metaData'[c][1]
      BY <2>1 DEF TitleInv
    <2>2. CASE metaData'[c] = metaData[c] /\ newMetaData'[c] = newMetaData[c]
      <3>1. metaData[c][1] <= titles'
        BY <1>2, <2>1 DEF TitleInv
      <3> QED BY <2>2, <3>1 DEF TitleInv
    <2>3. CASE metaData'[c] = <<titles + 1, b>>
      <3>1. metaData'[c][1] = titles + 1
        BY <2>3
      <3>2. ASSUME NEW i \in MetasIn(out[c]) PROVE out[c][i].at < titles + 1
        <4>1. out[c][i].at <= metaData[c][1] /\ metaData[c][1] <= titles
          BY DEF TitleInv, UpTo
        <4> QED BY <1>2, <1>12, <2>1, <4>1
      <3>3. UpTo(out[c], titles + 1)
        <4>1. \A i \in MetasIn(out[c]) : out[c][i].at \in Nat
          BY <1>12
        <4> QED BY <2>1, <3>2, <4>1 DEF UpTo
      <3> QED BY <1>3, <2>1, <3>1, <3>2, <3>3
    <2>4. \/ metaData'[c] = <<titles + 1, b>>
          \/ metaData'[c] = metaData[c] /\ newMetaData'[c] = newMetaData[c]
      <3>1. newMetaData[c] \in BOOLEAN
        BY DEF TypeOK
      <3> QED BY <1>9, <3>1 DEF MetaDataUpdate
    <2> QED BY <2>2, <2>3, <2>4
  <1>10. CASE \/ \E n \in PacketSizes : AddStreamData(n)
              \/ Visit \/ AddStreamDataReturns
              \/ \E c \in Conns : \/ Accept(c) \/ PushBack(c) \/ RemoveConnection(c)
                                  \/ \E kind \in Responses, s \in Streams : Request(c, kind, s)
    BY <1>1, <1>10 DEF AddStreamData, Visit, AddStreamDataReturns, Accept, PushBack,
                       RemoveConnection, Request
  <1>11. CASE UNCHANGED vars
    BY <1>1, <1>11
  <1> QED BY <1>5, <1>6, <1>7, <1>8, <1>9, <1>10, <1>11 DEF Next, Streaming

LEMMA AskStep == TypeOK /\ WalkInv /\ ListInv /\ AskInv /\ [Next]_vars => AskInv'
  <1> SUFFICES ASSUME TypeOK, WalkInv, ListInv, AskInv, [Next]_vars PROVE AskInv'
    OBVIOUS
  <1> USE DEF vars, connVars, producerVars
  <1>1. CASE UNCHANGED <<out, streamIdRequested, life, answering>>
    BY <1>1 DEF AskInv
  <1>2. \A c \in Conns : out[c] \in Seq(Items)
    BY DEF TypeOK, Items
  <1>3. ASSUME NEW x, Gets(Head(todo), x), ~Answer(x), stage # "visit",
               UNCHANGED <<streamIdRequested, life, answering>>
        PROVE  AskInv'
    <2>1. PICK c \in Conns : c = Head(todo)
      BY <1>3 DEF Gets
    <2>2. streamIdRequested[c] # NoStream /\ life[c] = "listed"
      BY <1>3, <2>1, HeadOfWalk DEF WalkInv, ListInv
    <2>3. x \in Items /\ out'[c] \in {out[c], Append(out[c], x)}
      BY <1>3, <2>1 DEF Gets
    <2>4. \A a : LastAsked(out[c], a) => LastAsked(out'[c], a)
      BY <1>2, <1>3, <2>3, LastAskedGrows
    <2>5. \A d \in Conns : d # c => out'[d] = out[d]
      BY <1>3, <2>1 DEF Gets
    <2> QED BY <1>3, <2>2, <2>4, <2>5 DEF AskInv
  <1>4. CASE SplitPacket
    <2>1. ~Answer(Item("audio", At, PreMetaBytes(Head(todo))))
      BY DEF Item, Answer, Responses
    <2> QED BY <1>3, <1>4, <2>1, SplitPacketGives DEF SplitPacket
  <1>5. CASE TransmitMetaData
    <2>1. ~Answer(Block(Head(todo)))
      BY <1>5, TransmitMetaDataGives DEF Answer, Responses
    <2> QED BY <1>3, <1>5, <2>1, TransmitMetaDataGives DEF TransmitMetaData
  <1>6. CASE TransmitRest
    <2>1. ~Answer(Item("audio", At, left))
      BY DEF Item, Answer, Responses
    <2> QED BY <1>3, <1>6, <2>1, TransmitRestGives DEF TransmitRest
  <1>7. ASSUME NEW c \in Conns, Respond(c) PROVE AskInv'
    <2>1. PICK x : x = Item(answering[c], streamIdRequested[c], 0)
      OBVIOUS
    <2>2. Gets(c, x) /\ Answer(x) /\ x.at = streamIdRequested[c]
      BY <1>7, <2>1, RespondGives DEF Item, Answer
    <2>3. x \in Items /\ ~Audio(x)
      BY <2>2 DEF Gets, Answer, Audio, Responses
    <2>4. out'[c] = Append(out[c], x) /\ \A d \in Conns : d # c => out'[d] = out[d]
      BY <2>2, <2>3 DEF Gets
    <2>5. LastAsked(out'[c], streamIdRequested[c]) /\ (Silent(out[c]) => Silent(out'[c]))
      BY <1>2, <2>2, <2>3, <2>4, LastAskedGrows
    <2>6. UNCHANGED <<streamIdRequested, life>> /\ \A d \in Conns : d # c => answering'[d] = answering[d]
      BY <1>7 DEF Respond, TypeOK
    <2> QED BY <2>4, <2>5, <2>6 DEF AskInv
  <1>8. ASSUME NEW c \in Conns, Accept(c) \/ PushBack(c) \/ RemoveConnection(c) PROVE AskInv'
    <2>1. UNCHANGED <<out, streamIdRequested, answering>>
      BY <1>8 DEF Accept, PushBack, RemoveConnection
    <2>2. \A d \in Conns : life[d] \in {"listed", "gone"} => life'[d] \in {"listed", "gone"}
      BY <1>8 DEF Accept, PushBack, RemoveConnection, TypeOK
    <2> QED BY <2>1, <2>2 DEF AskInv
  <1>9. ASSUME NEW c \in Conns, NEW kind \in Responses, NEW s \in Streams, Request(c, kind, s)
        PROVE  AskInv'
    <2>1. UNCHANGED <<out, life>>
      BY <1>9 DEF Request
    <2>2. streamIdRequested'[c] = s /\ s # NoStream /\ answering'[c] # "none"
      BY <1>9, StreamAssumption DEF Request, TypeOK, Responses
    <2>3. \A d \in Conns : d # c => /\ streamIdRequested'[d] = streamIdRequested[d]
                                    /\ answering'[d] = answering[d]
      BY <1>9 DEF Request, TypeOK
    <2> QED BY <2>1, <2>2, <2>3 DEF AskInv
  <1>10. CASE \/ \E n \in PacketSizes : AddStreamData(n)
              \/ Visit \/ AddStreamDataReturns
              \/ \E s \in Streams, b \in BlockCounts : MetaDataUpdate(s, b)
    BY <1>1, <1>10 DEF AddStreamData, Visit, AddStreamDataReturns, MetaDataUpdate
  <1>11. CASE UNCHANGED vars
    BY <1>1, <1>11
  <1> QED BY <1>4, <1>5, <1>6, <1>7, <1>8, <1>9, <1>10, <1>11 DEF Next, Streaming

LEMMA JoinStep == TypeOK /\ WalkInv /\ ListInv /\ AskInv /\ JoinInv /\ [Next]_vars => JoinInv'
  <1> SUFFICES ASSUME TypeOK, WalkInv, ListInv, AskInv, JoinInv, [Next]_vars PROVE JoinInv'
    OBVIOUS
  <1> USE DEF vars, connVars, producerVars
  <1> DEFINE Same(c) == Following(c)' => Following(c) /\ NextByte(c)' = NextByte(c)
  <1>1. \A c \in Conns : /\ out[c] \in Seq(Items) /\ Len(out[c]) \in Nat
                         /\ Contiguous(out[c])
                         /\ Following(c) => EndsAt(out[c], NextByte(c))
    <2>1. \A c \in Conns : out[c] \in Seq(Items)
      BY DEF TypeOK, Items
    <2> QED BY <2>1, LenProperties DEF JoinInv
  <1>2. ASSUME UNCHANGED out,
               \A c \in Conns : Same(c) \/ \A p : EndsAt(out[c], p)
        PROVE  JoinInv'
    BY <1>1, <1>2 DEF JoinInv
  <1>3. ASSUME NEW c, NEW x, Gets(c, x), ~Audio(x), \A d \in Conns : Same(d)
        PROVE  JoinInv'
    <2>1. c \in Conns /\ x \in Items /\ out'[c] = Append(out[c], x)
      BY <1>3 DEF Gets
    <2>2. Contiguous(out'[c]) /\ \A p : EndsAt(out[c], p) => EndsAt(out'[c], p)
      BY <1>1, <1>3, <2>1, ContiguousGrows
    <2>3. \A d \in Conns : d # c => out'[d] = out[d]
      BY <1>3 DEF Gets
    <2> QED BY <1>1, <1>3, <2>2, <2>3 DEF JoinInv
  <1>4. ASSUME NEW c, NEW x, Gets(c, x), Audio(x), Following(c), NextByte(c) = x.at,
               NextByte(c)' = x.at + x.n, \A d \in Conns : d # c => Same(d)
        PROVE  JoinInv'
    <2>1. c \in Conns /\ x \in Items
      BY <1>4 DEF Gets
    <2>2. CASE x.n = 0
      <3>1. UNCHANGED out
        BY <1>4, <2>1, <2>2 DEF Gets, TypeOK
      <3>2. NextByte(c)' = NextByte(c)
        BY <1>4, <2>1, <2>2 DEF Items
      <3> QED BY <1>2, <1>4, <3>1, <3>2
    <2>3. CASE x.n # 0
      <3>1. out'[c] = Append(out[c], x)
        BY <1>4, <2>3 DEF Gets
      <3>2. EndsAt(out[c], x.at)
        BY <1>1, <1>4, <2>1
      <3>3. Contiguous(out'[c]) /\ EndsAt(out'[c], NextByte(c)')
        BY <1>1, <1>4, <2>1, <3>1, <3>2, ContiguousGrows
      <3>4. \A d \in Conns : d # c => out'[d] = out[d]
        BY <1>4 DEF Gets
      <3> QED BY <1>1, <1>4, <3>3, <3>4 DEF JoinInv
    <2> QED BY <2>2, <2>3
  <1>5. todo \in Seq(Conns) /\ \A c : ~Among(<< >>, c)
    BY EmptySeq DEF TypeOK, Among
  <1>6. stage # "visit" =>
            /\ todo # << >> /\ Head(todo) \in Conns
            /\ \A c : Among(Tail(todo), c) <=> Among(todo, c) /\ c # Head(todo)
    BY <1>5, HeadOfWalk, Advanced DEF WalkInv, ListInv
  <1>7. ASSUME NEW n \in PacketSizes, AddStreamData(n) PROVE JoinInv'
    <2>1. /\ stage = "visit" /\ todo = << >> /\ stage' = "visit" /\ todo' = connectionList
          /\ produced' = produced + n /\ size' = n
          /\ UNCHANGED <<life, streamIdRequested, out>>
      BY <1>7 DEF AddStreamData, WalkInv
    <2>2. produced' - size' = produced
      BY <2>1, PacketAssumption, Numbers
    <2>3. ASSUME NEW c \in Conns PROVE Same(c)
      <3>1. Following(c)' => Following(c) /\ Among(todo', c)
        BY <2>1 DEF Following, InHand, ListInv
      <3>2. Among(todo', c) => NextByte(c)' = produced
        BY <2>1, <2>2 DEF NextByte, InHand
      <3>3. NextByte(c) = produced
        BY <1>5, <2>1 DEF NextByte, InHand
      <3> QED BY <3>1, <3>2, <3>3
    <2> QED BY <1>2, <2>1, <2>3
  <1>8. CASE Visit
    <2>1. /\ stage = "visit" /\ todo # << >>
          /\ UNCHANGED <<life, streamIdRequested, out, produced, size>>
      BY <1>8 DEF Visit
    <2>2. PICK c \in Conns : c = Head(todo) /\ Among(todo, c) /\ life[c] = "listed"
      BY <2>1, HeadOfWalk DEF ListInv
    <2>3. NextByte(c) = produced - size
      BY <2>1, <2>2 DEF NextByte, InHand
    <2>4. CASE streamIdRequested[c] = TheStream /\ size > 0
      <3>1. stage' = "split" /\ left' = size /\ UNCHANGED todo
        BY <1>8, <2>2, <2>4 DEF Visit
      <3>2. Following(c) /\ NextByte(c)' = produced - size
        BY <2>1, <2>2, <2>4, <3>1 DEF Following, NextByte, InHand, At
      <3>3. \A d \in Conns : d # c => Same(d)
        BY <2>1, <2>2, <3>1 DEF Following, NextByte, InHand
      <3> QED BY <1>2, <2>1, <2>3, <3>2, <3>3
    <2>5. CASE ~(streamIdRequested[c] = TheStream /\ size > 0)
      <3>1. stage' = "visit" /\ todo' = Tail(todo)
        BY <1>8, <2>1, <2>2, <2>5 DEF Visit
      <3>2. \A d : Among(todo', d) <=> Among(todo, d) /\ d # c
        BY <1>5, <2>1, <2>2, <3>1, Advanced DEF ListInv
      <3>3. \A d \in Conns : d # c => Same(d)
        BY <2>1, <3>1, <3>2 DEF Following, NextByte, InHand
      <3>4. Following(c)' => Following(c) /\ streamIdRequested[c] = TheStream
        BY <2>1, <3>1 DEF Following, InHand
      <3>5. NextByte(c)' = produced
        BY <2>1, <3>1, <3>2 DEF NextByte, InHand
      <3>6. size = 0 => NextByte(c) = produced
        BY <2>3, Numbers
      <3>7. size > 0 \/ size = 0
        BY Numbers
      <3> QED BY <1>2, <2>1, <2>5, <3>3, <3>4, <3>5, <3>6, <3>7
    <2> QED BY <2>4, <2>5
  <1>9. CASE SplitPacket
    <2>1. PICK c, x : c = Head(todo) /\ x = Item("audio", At, PreMetaBytes(c))
      OBVIOUS
    <2>2. /\ stage = "split" /\ stage' = "meta"
          /\ UNCHANGED <<todo, life, streamIdRequested, metaCount, left, produced, size>>
      BY <1>9 DEF SplitPacket
    <2>3. Gets(c, x) /\ Audio(x) /\ x.at = At /\ x.n = PreMetaBytes(c)
      BY <1>9, <2>1, SplitPacketGives DEF Item, Audio
    <2>4. Following(c) /\ NextByte(c) = x.at
      BY <2>1, <2>2, <2>3 DEF Following, NextByte, InHand
    <2>5. NextByte(c)' = x.at + x.n
      BY <2>1, <2>2, <2>3 DEF NextByte, InHand, At, PreMetaBytes
    <2>6. \A d \in Conns : d # c => Same(d)
      BY <2>1, <2>2 DEF Following, NextByte, InHand
    <2> QED BY <1>4, <2>3, <2>4, <2>5, <2>6
  <1>10. CASE TransmitMetaData
    <2>1. PICK c, x : c = Head(todo) /\ x = Block(c)
      OBVIOUS
    <2>2. /\ stage = "meta" /\ stage' = "split"
          /\ UNCHANGED <<todo, life, streamIdRequested, produced, size>>
      BY <1>10 DEF TransmitMetaData
    <2>3. Gets(c, x) /\ ~Audio(x) /\ left' = left - PreMetaBytes(c) /\ c \in Conns
      BY <1>10, <2>1, TransmitMetaDataGives DEF Gets, Audio
    <2>4. NextByte(c) = At + PreMetaBytes(c) /\ NextByte(c)' = At'
      BY <2>1, <2>2 DEF NextByte, InHand
    <2>5. At' = At + PreMetaBytes(c)
      <3>1. \A p, l, b \in Nat : p - (l - b) = p - l + b
        OBVIOUS
      <3> QED BY <2>2, <2>3, <3>1, Numbers DEF At
    <2>6. Following(c)
      BY <2>1, <2>2 DEF Following, InHand
    <2>7. \A d \in Conns : d # c => Same(d)
      BY <2>1, <2>2 DEF Following, NextByte, InHand
    <2> QED BY <1>3, <2>3, <2>4, <2>5, <2>6, <2>7
  <1>11. CASE TransmitRest
    <2>1. PICK c, x : c = Head(todo) /\ x = Item("audio", At, left)
      OBVIOUS
    <2>2. /\ stage = "split" /\ stage' = "visit" /\ todo' = Tail(todo)
          /\ UNCHANGED <<life, streamIdRequested, produced, size>>
      BY <1>11 DEF TransmitRest
    <2>3. Gets(c, x) /\ Audio(x) /\ x.at = At /\ x.n = left
      BY <1>11, <2>1, TransmitRestGives DEF Item, Audio
    <2>4. Following(c) /\ NextByte(c) = x.at
      BY <2>1, <2>2, <2>3 DEF Following, NextByte, InHand
    <2>5. NextByte(c)' = x.at + x.n
      <3>1. NextByte(c)' = produced
        BY <1>6, <2>1, <2>2 DEF NextByte, InHand
      <3>2. At + left = produced
        BY Numbers DEF At
      <3> QED BY <2>3, <3>1, <3>2
    <2>6. \A d \in Conns : d # c => Same(d)
      BY <1>6, <2>1, <2>2 DEF Following, NextByte, InHand
    <2> QED BY <1>4, <2>3, <2>4, <2>5, <2>6
  <1>12. ASSUME NEW c \in Conns, Respond(c) PROVE JoinInv'
    <2>1. /\ Gets(c, Item(answering[c], streamIdRequested[c], 0))
          /\ ~Audio(Item(answering[c], streamIdRequested[c], 0))
      BY <1>12, RespondGives DEF Item, Audio, Responses
    <2>2. \A d \in Conns : Same(d)
      BY <1>12 DEF Respond, Following, NextByte, InHand, At, PreMetaBytes
    <2> QED BY <1>3, <2>1, <2>2
  <1>13. ASSUME NEW c \in Conns, Accept(c) \/ RemoveConnection(c) PROVE JoinInv'
    <2>1. UNCHANGED <<out, streamIdRequested, metaCount, producerVars>>
      BY <1>13 DEF Accept, RemoveConnection
    <2>2. \A d \in Conns : life'[d] = "listed" => life[d] = "listed"
      BY <1>13 DEF Accept, RemoveConnection, TypeOK
    <2>3. \A d \in Conns : Same(d)
      BY <2>1, <2>2 DEF Following, NextByte, InHand, At, PreMetaBytes
    <2> QED BY <1>2, <2>1, <2>3
  <1>14. ASSUME NEW c \in Conns, PushBack(c) PROVE JoinInv'
    <2>1. UNCHANGED <<out, streamIdRequested, metaCount, producerVars>>
      BY <1>14 DEF PushBack
    <2>2. \A d \in Conns : d # c => life'[d] = life[d]
      BY <1>14 DEF PushBack, TypeOK
    <2>3. \A d \in Conns : d # c => Same(d)
      BY <2>1, <2>2 DEF Following, NextByte, InHand, At, PreMetaBytes
    <2>4. Silent(out[c])
      BY <1>14 DEF PushBack, AskInv
    <2> QED BY <1>1, <1>2, <2>1, <2>3, <2>4, NothingOwed
  <1>15. ASSUME NEW c \in Conns, NEW kind \in Responses, NEW s \in Streams, Request(c, kind, s)
         PROVE  JoinInv'
    <2>1. UNCHANGED <<out, life, metaCount, producerVars>> /\ answering[c] = "none"
      BY <1>15 DEF Request
    <2>2. \A d \in Conns : d # c => streamIdRequested'[d] = streamIdRequested[d]
      BY <1>15 DEF Request, TypeOK
    <2>3. \A d \in Conns : NextByte(d)' = NextByte(d)
      BY <2>1 DEF NextByte, InHand, At, PreMetaBytes
    <2>4. \A d \in Conns : d # c => Same(d)
      BY <2>1, <2>2, <2>3 DEF Following, InHand
    <2>5. CASE Following(c)
      BY <1>2, <2>1, <2>3, <2>4, <2>5
    <2>6. CASE streamIdRequested[c] # TheStream
      <3>1. Silent(out[c]) \/ LastAsked(out[c], streamIdRequested[c])
        BY <2>1 DEF AskInv
      <3>2. \A p : EndsAt(out[c], p)
        BY <1>1, <2>6, <3>1, NothingOwed
      <3> QED BY <1>2, <2>1, <2>4, <3>2
    <2>7. CASE life[c] # "listed"
      <3>1. Same(c)
        BY <2>1, <2>3, <2>7 DEF Following, InHand
      <3> QED BY <1>2, <2>1, <2>4, <3>1
    <2> QED BY <2>5, <2>6, <2>7 DEF Following
  <1>16. CASE \/ AddStreamDataReturns
              \/ \E s \in Streams, b \in BlockCounts : MetaDataUpdate(s, b)
              \/ UNCHANGED vars
    <2>1. UNCHANGED <<out, life, streamIdRequested, metaCount, todo, stage, size, left, produced>>
      BY <1>16 DEF AddStreamDataReturns, MetaDataUpdate
    <2>2. \A d \in Conns : Same(d)
      BY <2>1 DEF Following, NextByte, InHand, At, PreMetaBytes
    <2> QED BY <1>2, <2>1, <2>2
  <1> QED BY <1>7, <1>8, <1>9, <1>10, <1>11, <1>12, <1>13, <1>14, <1>15, <1>16
          DEF Next, Streaming

LEMMA StreamInitial == Init => Inv
  <1> SUFFICES ASSUME Init PROVE Inv
    OBVIOUS
  <1>1. TypeOK
    <2>1. /\ 0 \in 0 .. MetaDataInterval /\ 0 \in 0 .. MaxRequests /\ 0 \in 0 .. MaxBytes
          /\ 0 \in 0 .. MaxTitles /\ 0 \in 0 .. 0
      BY IntervalAssumption, BoundsAssumption
    <2>2. << >> \in Seq(Conns) /\ << >> \in Seq([kind : Responses \cup {"audio", "meta"}, at : Nat, n : Nat])
      BY EmptySeq
    <2> QED BY <2>1, <2>2 DEF Init, TypeOK
  <1>2. WalkInv
    BY DEF Init, WalkInv
  <1>3. \A c : ~Among(<< >>, c)
    BY EmptySeq DEF Among
  <1>4. ListInv
    <2>1. Distinct(<< >>)
      BY EmptySeq DEF Distinct
    <2> QED BY <1>3, <2>1 DEF Init, ListInv
  <1>5. \A c \in Conns : out[c] = << >>
    BY DEF Init
  <1>6. FitsInv
    BY <1>5, FitsNothing DEF Init, FitsInv, SinceMeta
  <1>7. Len(<< >>) = 0 /\ \A i : i \notin 1 .. 0
    BY EmptySeq
  <1>8. TitleInv
    <2>1. MetasIn(<< >>) = {}
      BY <1>7 DEF MetasIn
    <2> QED BY <1>5, <2>1 DEF Init, TitleInv, Rising, UpTo
  <1>9. AskInv
    <2>1. Silent(<< >>)
      BY <1>7 DEF Silent
    <2> QED BY <1>5, <2>1 DEF Init, AskInv
  <1>10. JoinInv
    <2>1. Contiguous(<< >>)
      BY <1>7 DEF Contiguous
    <2> QED BY <1>5, <2>1 DEF Init, JoinInv, Following, InHand
  <1> QED BY <1>1, <1>2, <1>4, <1>6, <1>8, <1>9, <1>10 DEF Inv

THEOREM Invariance == Spec => []Inv
  <1>1. Init => Inv
    BY StreamInitial
  <1>2. Inv /\ [Next]_vars => Inv'
    BY TypeStep, WalkStep, ListStep, FitsStep, TitleStep, AskStep, JoinStep DEF Inv
  <1> QED BY <1>1, <1>2, PTL DEF Spec
-----------------------------------------------------------------------------
(* Theorems *)

\* However packets are sized, split and interleaved with answers, the metadata
\* blocks of every stream are MetaDataInterval bytes of audio apart: the loop of
\* TransmitStreamData() loses no byte of its count.
THEOREM BlocksAtTheirPlaces == Spec => []BlockEveryInterval
  <1>1. Inv => BlockEveryInterval
    <2> SUFFICES ASSUME Inv PROVE BlockEveryInterval
      OBVIOUS
    <2>1. TypeOK /\ \A c \in Conns : Spaced(out[c])
      BY DEF Inv, FitsInv, Fits
    <2> SUFFICES ASSUME NEW c \in Conns, NEW i \in Metas(c)
                 PROVE  LET before == {j \in Metas(c) : j < i}
                            from == IF before = {} THEN 1
                                    ELSE 1 + CHOOSE j \in before : \A k \in before : k <= j
                        IN AudioBytes(SubSeq(out[c], from, i)) = MetaDataInterval
      BY <2>1 DEF BlockEveryInterval
    <2>2. PICK s : s = out[c] /\ s \in Seq(Items)
      BY <2>1 DEF TypeOK, Items
    <2>3. Metas(c) = MetasIn(s)
      BY <2>2 DEF Metas, MetasIn
    <2>4. Len(s) \in Nat /\ Spaced(s) /\ i \in MetasIn(s)
      BY <2>1, <2>2, <2>3, LenProperties
    <2> QED BY <2>2, <2>3, <2>4, SpacedIsEveryInterval
  <1> QED BY <1>1, Invariance, PTL

\* No byte of the stream is skipped or sent twice on the way to a player that
\* keeps asking for it, through any number of walks of the list, of requests and
\* of other players.
THEOREM StreamHasNoGap == Spec => []AudioContiguous
  <1>1. Inv => AudioContiguous
    <2> SUFFICES ASSUME Inv, NEW c \in Conns,
                        NEW i \in 1 .. Len(out[c]), NEW j \in 1 .. Len(out[c]), i < j,
                        out[c][i].kind = "audio", out[c][j].kind = "audio",
                        \A k \in i + 1 .. j - 1 : out[c][k].kind # "audio",
                        AskedForStream(c, i, j)
                 PROVE  out[c][j].at = out[c][i].at + out[c][i].n
      BY DEF AudioContiguous
    <2>1. Contiguous(out[c])
      BY DEF Inv, JoinInv
    <2>2. Asked(out[c], i, j)
      BY DEF AskedForStream, Asked, Answered, Answer
    <2>3. Joined(out[c], i, j) /\ Audio(out[c][j])
      BY <2>2 DEF Joined, Audio
    <2> QED BY <2>1, <2>3 DEF Contiguous
  <1> QED BY <1>1, Invariance, PTL

\* A title goes out once and never after a newer one, whichever threads bring
\* titles and audio.
THEOREM TitlesOnceInOrder == Spec => []TitleOnceAndNewest
  <1>1. Inv => \A c \in Conns : Rising(out[c])
    BY DEF Inv, TitleInv
  <1>2. (\A c \in Conns : Rising(out[c])) => TitleOnceAndNewest
    BY DEF TitleOnceAndNewest, Rising, MetasIn, Metas
  <1> QED BY <1>1, <1>2, Invariance, PTL

\* A player that counts the bytes of audio and believes the length bytes reads
\* the stream as it was meant.
THEOREM PlayerInStep == Spec => []CleanPlayerInStep
  <1>1. Inv => CleanPlayerInStep
    <2> SUFFICES ASSUME Inv, NEW c \in Conns, OneCleanRequest(c),
                        \A i \in Metas(c) : out[c][i].n < LengthValues
                 PROVE  Play(Tail(out[c])).ok
      BY DEF CleanPlayerInStep
    <2>1. PICK s : s = out[c] /\ s \in Seq(Items)
      BY DEF Inv, TypeOK, Items
    <2>2. Plays(s, SinceMeta(c))
      BY <2>1 DEF Inv, FitsInv, Fits
    <2>3. Clean(s)
      <3>1. s # << >> /\ Head(s) = s[1]
        BY <2>1 DEF OneCleanRequest
      <3> QED BY <2>1, <3>1 DEF Clean, OneCleanRequest, Answer, Metas, MetasIn
    <2>4. Play(Tail(s)) = [ok |-> TRUE, due |-> MetaDataInterval - SinceMeta(c)]
      BY <2>2, <2>3 DEF Plays
    <2>5. Play(Tail(s)).ok
      BY <2>4
    <2> QED BY <2>1, <2>5
  <1> QED BY <1>1, Invariance, PTL
==============================================================================
