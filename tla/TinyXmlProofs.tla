----------------------------- MODULE TinyXmlProofs -----------------------------
(***************************************************************************)
(* Proofs about tinyxml2: of XmlText for any units, titles, length of a    *)
(* text and width of an unsigned, that decoding in place loses nothing and *)
(* that titles are read back as they were; of XmlDocument for any texts,   *)
(* path and size of a block, that the children of a node are one list,     *)
(* that no chunk of memory is lost or handed out twice, that the tree is   *)
(* what the text means, and that the walk through it visits every player.  *)
(*                                                                         *)
(* Texts, the weights of digits and the code of a reference are defined    *)
(* recursively; the proofs begin with the induction this takes, on the     *)
(* least number of a set.                                                  *)
(***************************************************************************)
EXTENDS XmlDocument, XmlText, SequenceTheorems, FiniteSetTheorems, WellFoundedInduction, TLAPS

(* Induction *)

LEMMA LeastNumber ==
    ASSUME NEW T, T \subseteq Nat, T # {}
    PROVE  \E x \in T : \A y \in T : x <= y
  <1> DEFINE R == OpToRel(<, Nat)
  <1>1. IsWellFoundedOn(R, Nat)
    BY NatLessThanWellFounded
  <1>2. \A x, y \in Nat : x < y => <<x, y>> \in R
    BY DEF OpToRel
  <1> HIDE DEF R
  <1>3. PICK x \in T : \A y \in T : ~ (<<y, x>> \in R)
    BY <1>1, WFMin
  <1>4. ASSUME NEW y \in T PROVE x <= y
    <2>1. x \in Nat /\ y \in Nat
      OBVIOUS
    <2>2. ~(y < x)
      BY <1>2, <1>3, <2>1
    <2> QED BY <2>1, <2>2
  <1> QED BY <1>4

LEMMA Induction ==
    ASSUME NEW T, T \subseteq Nat, 0 \in T, \A n \in T : n + 1 \in T
    PROVE  T = Nat
  <1> SUFFICES ASSUME Nat \ T # {} PROVE FALSE
    OBVIOUS
  <1> PICK x \in Nat \ T : \A y \in Nat \ T : x <= y
    BY LeastNumber
  <1> QED OBVIOUS

LEMMA GreatestNumber ==
    ASSUME NEW T, T \subseteq Nat, T # {}, NEW top \in Nat, \A x \in T : x <= top
    PROVE  \E x \in T : \A y \in T : y <= x
  <1> DEFINE D == {top - x : x \in T}
  <1>1. D \subseteq Nat /\ D # {}
    <2>1. ASSUME NEW x \in T PROVE top - x \in Nat
      OBVIOUS
    <2> QED BY <2>1
  <1>2. PICK d \in D : \A e \in D : d <= e
    BY <1>1, LeastNumber
  <1>3. PICK x \in T : d = top - x
    OBVIOUS
  <1>4. ASSUME NEW y \in T PROVE y <= x
    <2>1. d <= top - y
      BY <1>2
    <2> QED BY <1>3, <2>1
  <1> QED BY <1>4
-----------------------------------------------------------------------------
(* Texts *)

\* The sequences of ss up to the i-th, one after the other.
Flattened(f, ss, n) == f = [i \in 1 .. n |-> IF i = 1 THEN ss[i] ELSE f[i - 1] \o ss[i]]

LEMMA FlattenExists ==
    ASSUME NEW ss
    PROVE  \A n \in Nat : \E f : Flattened(f, ss, n)
  <1> DEFINE T == {n \in Nat : \E f : Flattened(f, ss, n)}
  <1>1. 0 \in T
    <2>1. 1 .. 0 = {}
      OBVIOUS
    <2>2. Flattened([i \in 1 .. 0 |-> ss[i]], ss, 0)
      BY <2>1 DEF Flattened
    <2> QED BY <2>2
  <1>2. ASSUME NEW n \in T PROVE n + 1 \in T
    <2>1. n \in Nat
      OBVIOUS
    <2>2. PICK f : Flattened(f, ss, n)
      OBVIOUS
    <2> DEFINE g == [i \in 1 .. n + 1 |->
                       IF i = 1 THEN ss[i] ELSE f[i - 1] \o ss[i]]
    <2>3. ASSUME NEW i \in 1 .. n PROVE g[i] = f[i]
      <3>1. i \in 1 .. n + 1
        BY <2>1
      <3>2. f = [j \in 1 .. n |-> IF j = 1 THEN ss[j] ELSE f[j - 1] \o ss[j]]
        BY <2>2 DEF Flattened
      <3>3. f[i] = IF i = 1 THEN ss[i] ELSE f[i - 1] \o ss[i]
        BY ONLY <3>2, i \in 1 .. n
      <3> QED BY <3>1, <3>3
    <2>4. ASSUME NEW i \in 1 .. n + 1, i # 1 PROVE g[i] = g[i - 1] \o ss[i]
      <3>1. i - 1 \in 1 .. n
        BY <2>1, <2>4
      <3>2. g[i] = f[i - 1] \o ss[i]
        BY <2>4
      <3>3. g[i - 1] = f[i - 1]
        BY <2>3, <3>1
      <3> QED BY <3>2, <3>3
    <2>5. Flattened(g, ss, n + 1)
      <3>1. g = [i \in 1 .. n + 1 |-> g[i]] /\ (1 \in 1 .. n + 1 => g[1] = ss[1])
        OBVIOUS
      <3> HIDE DEF g
      <3> QED BY <2>4, <3>1 DEF Flattened
    <2> QED BY <2>1, <2>5
  <1> HIDE DEF T
  <1>3. T = Nat
    BY <1>1, <1>2, Induction DEF T
  <1> QED BY <1>3 DEF T

\* FlattenSeq() by that function.
LEMMA FlattenSeqIs ==
    ASSUME NEW S, NEW ss \in Seq(S), Len(ss) # 0
    PROVE  \E f : Flattened(f, ss, Len(ss)) /\ FlattenSeq(ss) = f[Len(ss)]
  <1> DEFINE c == CHOOSE f : f = [i \in 1 .. Len(ss) |-> IF i = 1 THEN ss[i] ELSE f[i - 1] \o ss[i]]
  <1>1. Len(ss) \in Nat
    OBVIOUS
  <1>2. \E f : Flattened(f, ss, Len(ss))
    BY <1>1, FlattenExists
  <1>3. c = [i \in 1 .. Len(ss) |-> IF i = 1 THEN ss[i] ELSE c[i - 1] \o ss[i]]
    BY <1>2 DEF Flattened
  <1>4. FlattenSeq(ss) = c[Len(ss)]
    BY DEF FlattenSeq
  <1> HIDE DEF c
  <1> QED BY <1>3, <1>4 DEF Flattened

LEMMA FlattenedType ==
    ASSUME NEW S, NEW ss \in Seq(Seq(S)), NEW f, Flattened(f, ss, Len(ss))
    PROVE  \A i \in 1 .. Len(ss) : f[i] \in Seq(S)
  <1> DEFINE T == {n \in Nat : n \in 1 .. Len(ss) => f[n] \in Seq(S)}
  <1>0. Len(ss) \in Nat
    OBVIOUS
  <1>1. 0 \in T
    OBVIOUS
  <1>2. ASSUME NEW n \in T PROVE n + 1 \in T
    <2> SUFFICES ASSUME n + 1 \in 1 .. Len(ss) PROVE f[n + 1] \in Seq(S)
      OBVIOUS
    <2>1. ss[n + 1] \in Seq(S)
      BY ElementOfSeq
    <2>2. CASE n = 0
      BY <2>1, <2>2 DEF Flattened
    <2>3. CASE n # 0
      <3>1. n \in 1 .. Len(ss) /\ n + 1 # 1 /\ (n + 1) - 1 = n
        BY <1>0, <2>3
      <3>2. f[n + 1] = f[n] \o ss[n + 1]
        BY <3>1 DEF Flattened
      <3>3. f[n] \in Seq(S)
        BY <3>1
      <3> QED BY <2>1, <3>2, <3>3
    <2> QED BY <2>2, <2>3
  <1> HIDE DEF T
  <1>3. T = Nat
    BY <1>1, <1>2, Induction DEF T
  <1>4. ASSUME NEW i \in 1 .. Len(ss) PROVE f[i] \in Seq(S)
    <2>1. i \in T
      BY <1>0, <1>3
    <2> QED BY <2>1 DEF T
  <1> QED BY <1>4

LEMMA FlattenType ==
    ASSUME NEW S, NEW ss \in Seq(Seq(S))
    PROVE  FlattenSeq(ss) \in Seq(S)
  <1>1. CASE Len(ss) = 0
    <2>1. ss = << >>
      BY <1>1, EmptySeq
    <2> QED BY <1>1, <2>1, EmptySeq DEF FlattenSeq
  <1>2. CASE Len(ss) # 0
    <2>1. PICK f : Flattened(f, ss, Len(ss)) /\ FlattenSeq(ss) = f[Len(ss)]
      BY <1>2, FlattenSeqIs
    <2>2. Len(ss) \in 1 .. Len(ss)
      BY <1>2
    <2> QED BY <2>1, <2>2, FlattenedType
  <1> QED BY <1>1, <1>2
-----------------------------------------------------------------------------
(* The code of a character reference *)

\* f is Weight for the first n digits.
Weights(f, n) == f = [k \in 0 .. n |-> IF k = 0 THEN 1 ELSE (Base * f[k - 1]) % Width]

LEMMA WeightsExist == \A n \in Nat : \E f : Weights(f, n)
  <1> DEFINE T == {n \in Nat : \E f : Weights(f, n)}
  <1>1. 0 \in T
    <2> DEFINE g == [k \in 0 .. 0 |-> 1]
    <2>1. g = [k \in 0 .. 0 |-> IF k = 0 THEN 1 ELSE (Base * g[k - 1]) % Width]
      OBVIOUS
    <2> HIDE DEF g
    <2> QED BY <2>1 DEF Weights
  <1>2. ASSUME NEW n \in T PROVE n + 1 \in T
    <2>1. n \in Nat
      OBVIOUS
    <2>2. PICK f : Weights(f, n)
      OBVIOUS
    <2> DEFINE g == [k \in 0 .. n + 1 |-> IF k = 0 THEN 1 ELSE (Base * f[k - 1]) % Width]
    <2>3. ASSUME NEW k \in 0 .. n PROVE g[k] = f[k]
      <3>1. k \in 0 .. n + 1
        BY <2>1
      <3>2. f = [j \in 0 .. n |-> IF j = 0 THEN 1 ELSE (Base * f[j - 1]) % Width]
        BY <2>2 DEF Weights
      <3>3. f[k] = IF k = 0 THEN 1 ELSE (Base * f[k - 1]) % Width
        BY ONLY <3>2, k \in 0 .. n
      <3> QED BY <3>1, <3>3
    <2>4. ASSUME NEW k \in 0 .. n + 1, k # 0 PROVE g[k] = (Base * g[k - 1]) % Width
      <3>1. k - 1 \in 0 .. n
        BY <2>1, <2>4
      <3>2. g[k] = (Base * f[k - 1]) % Width
        BY <2>4
      <3>3. g[k - 1] = f[k - 1]
        BY <2>3, <3>1
      <3> QED BY <3>2, <3>3
    <2>5. Weights(g, n + 1)
      <3>1. g = [k \in 0 .. n + 1 |-> g[k]] /\ (0 \in 0 .. n + 1 => g[0] = 1)
        OBVIOUS
      <3> HIDE DEF g
      <3> QED BY <2>4, <3>1 DEF Weights
    <2> QED BY <2>1, <2>5
  <1> HIDE DEF T
  <1>3. T = Nat
    BY <1>1, <1>2, Induction DEF T
  <1> QED BY <1>3 DEF T

LEMMA WeightsAgree ==
    ASSUME NEW n \in Nat, NEW m \in Nat, NEW f, NEW g, Weights(f, n), Weights(g, m)
    PROVE  \A k \in Nat : k <= n /\ k <= m => f[k] = g[k]
  <1> DEFINE T == {k \in Nat : k <= n /\ k <= m => f[k] = g[k]}
  <1>1. 0 \in T
    <2>1. 0 \in 0 .. n /\ 0 \in 0 .. m
      OBVIOUS
    <2>2. f[0] = 1 /\ g[0] = 1
      BY <2>1 DEF Weights
    <2> QED BY <2>2
  <1>2. ASSUME NEW k \in T PROVE k + 1 \in T
    <2> SUFFICES ASSUME k + 1 <= n, k + 1 <= m PROVE f[k + 1] = g[k + 1]
      OBVIOUS
    <2>1. k \in Nat /\ k + 1 \in 0 .. n /\ k + 1 \in 0 .. m /\ k + 1 # 0 /\ (k + 1) - 1 = k
      OBVIOUS
    <2>2. f[k] = g[k]
      BY <2>1
    <2>3. f[k + 1] = (Base * f[k]) % Width /\ g[k + 1] = (Base * g[k]) % Width
      BY <2>1 DEF Weights
    <2> QED BY <2>2, <2>3
  <1> HIDE DEF T
  <1>3. T = Nat
    BY <1>1, <1>2, Induction DEF T
  <1> QED BY <1>3 DEF T

LEMMA WeightIs == Weight = [n \in Nat |-> IF n = 0 THEN 1 ELSE (Base * Weight[n - 1]) % Width]
  <1> DEFINE w == [n \in Nat |-> (CHOOSE f : Weights(f, n))[n]]
  <1>1. ASSUME NEW n \in Nat, n # 0 PROVE w[n] = (Base * w[n - 1]) % Width
    <2>1. PICK f : f = CHOOSE h : Weights(h, n)
      OBVIOUS
    <2>2. PICK g : g = CHOOSE h : Weights(h, n - 1)
      OBVIOUS
    <2>3. n - 1 \in Nat
      BY <1>1
    <2>4. Weights(f, n) /\ Weights(g, n - 1)
      BY <2>1, <2>2, <2>3, WeightsExist
    <2>5. f[n - 1] = g[n - 1]
      <3>1. n - 1 <= n /\ n - 1 <= n - 1
        BY <2>3
      <3> QED BY ONLY <2>3, <2>4, <3>1, n \in Nat, WeightsAgree
    <2>6. f[n] = (Base * f[n - 1]) % Width
      <3>1. n \in 0 .. n
        OBVIOUS
      <3>2. f = [j \in 0 .. n |-> IF j = 0 THEN 1 ELSE (Base * f[j - 1]) % Width]
        BY <2>4 DEF Weights
      <3> QED BY ONLY <3>1, <3>2, <1>1
    <2>7. w[n] = f[n] /\ w[n - 1] = g[n - 1]
      BY <2>1, <2>2, <2>3
    <2> QED BY <2>5, <2>6, <2>7
  <1>2. w[0] = 1
    <2>1. PICK f : f = CHOOSE h : Weights(h, 0)
      OBVIOUS
    <2>2. Weights(f, 0)
      BY <2>1, WeightsExist
    <2>3. f[0] = 1
      <3>1. 0 \in 0 .. 0
        OBVIOUS
      <3>2. f = [j \in 0 .. 0 |-> IF j = 0 THEN 1 ELSE (Base * f[j - 1]) % Width]
        BY <2>2 DEF Weights
      <3> QED BY ONLY <3>1, <3>2
    <2> QED BY <2>1, <2>3
  <1>3. w = [n \in Nat |-> w[n]]
    OBVIOUS
  <1> HIDE DEF w
  <1>4. w = [n \in Nat |-> IF n = 0 THEN 1 ELSE (Base * w[n - 1]) % Width]
    BY <1>1, <1>2, <1>3
  <1> QED BY <1>4 DEF Weight

LEMMA Modulo ==
    ASSUME NEW a \in Nat, NEW b \in Nat \ {0}
    PROVE  a % b \in Nat
  OBVIOUS

LEMMA BaseIs == Base \in Nat /\ Base # 0
  BY DEF Base

LEMMA WeightType == \A n \in Nat : Weight[n] \in Nat
  <1> DEFINE T == {n \in Nat : Weight[n] \in Nat}
  <1>1. 0 \in T
    BY WeightIs
  <1>2. ASSUME NEW n \in T PROVE n + 1 \in T
    <2>1. n + 1 \in Nat /\ n + 1 # 0 /\ (n + 1) - 1 = n
      OBVIOUS
    <2>2. Weight[n + 1] = (Base * Weight[n]) % Width
      BY <2>1, WeightIs
    <2>3. Base * Weight[n] \in Nat
      <3>1. \A a, b \in Nat : a * b \in Nat
        OBVIOUS
      <3> QED BY <3>1, BaseIs
    <2>4. (Base * Weight[n]) % Width \in Nat
      BY ONLY <2>3, WidthAssumption, Modulo
    <2> QED BY <2>1, <2>2, <2>4
  <1> HIDE DEF T
  <1>3. T = Nat
    BY <1>1, <1>2, Induction DEF T
  <1> QED BY <1>3 DEF T
-----------------------------------------------------------------------------
Added(i, c) == (c + Digit(buf[i]) * Weight[End - 1 - i]) % Width
AnyOf(s) == CHOOSE x \in s : TRUE

\* f adds up the digits of the sets of at most n indexes.
Sums(f, S, n) == f = [s \in {t \in SUBSET S : Cardinality(t) <= n} |->
    IF s = {} THEN 0 ELSE Added(AnyOf(s), f[s \ {AnyOf(s)}])]

LEMMA TakeOne ==
    ASSUME NEW S, IsFiniteSet(S), NEW s \in SUBSET S, s # {}
    PROVE  /\ AnyOf(s) \in s /\ s \ {AnyOf(s)} \in SUBSET S
           /\ Cardinality(s) \in Nat \ {0}
           /\ Cardinality(s \ {AnyOf(s)}) = Cardinality(s) - 1
  <1>1. AnyOf(s) \in s
    BY DEF AnyOf
  <1>2. IsFiniteSet(s)
    BY FS_Subset
  <1>3. Cardinality(s) \in Nat /\ Cardinality(s) # 0
    BY <1>2, FS_CardinalityType, FS_EmptySet
  <1>4. Cardinality(s \ {AnyOf(s)}) = Cardinality(s) - 1
    BY <1>1, <1>2, FS_RemoveElement
  <1> QED BY <1>1, <1>3, <1>4

LEMMA SumsExist ==
    ASSUME NEW S, IsFiniteSet(S)
    PROVE  \A n \in Nat : \E f : Sums(f, S, n)
  <1> DEFINE T == {n \in Nat : \E f : Sums(f, S, n)}
             D(n) == {t \in SUBSET S : Cardinality(t) <= n}
  <1>1. 0 \in T
    <2>1. ASSUME NEW s \in D(0), s # {} PROVE FALSE
      <3>1. s \in SUBSET S /\ Cardinality(s) <= 0
        OBVIOUS
      <3>2. Cardinality(s) \in Nat \ {0}
        BY <2>1, <3>1, TakeOne
      <3> QED BY ONLY <3>1, <3>2
    <2> DEFINE g == [s \in D(0) |-> 0]
    <2>2. g = [s \in D(0) |-> IF s = {} THEN 0 ELSE Added(AnyOf(s), g[s \ {AnyOf(s)}])]
      <3>1. \A s \in D(0) : g[s] = IF s = {} THEN 0 ELSE Added(AnyOf(s), g[s \ {AnyOf(s)}])
        BY <2>1
      <3>2. g = [s \in D(0) |-> g[s]]
        OBVIOUS
      <3> HIDE DEF g, D
      <3> QED BY <3>1, <3>2
    <2> HIDE DEF g
    <2> QED BY <2>2 DEF Sums
  <1>2. ASSUME NEW n \in T PROVE n + 1 \in T
    <2>1. n \in Nat
      OBVIOUS
    <2>2. PICK f : Sums(f, S, n)
      OBVIOUS
    <2> DEFINE g == [s \in D(n + 1) |->
                       IF s = {} THEN 0 ELSE Added(AnyOf(s), f[s \ {AnyOf(s)}])]
    <2>3. ASSUME NEW s \in D(n) PROVE g[s] = f[s]
      <3>1. s \in D(n + 1)
        <4>1. Cardinality(s) \in Nat
          BY FS_Subset, FS_CardinalityType
        <4> QED BY <2>1, <4>1
      <3>2. f = [t \in D(n) |-> IF t = {} THEN 0 ELSE Added(AnyOf(t), f[t \ {AnyOf(t)}])]
        BY <2>2 DEF Sums
      <3>3. f[s] = IF s = {} THEN 0 ELSE Added(AnyOf(s), f[s \ {AnyOf(s)}])
        BY ONLY <3>2, s \in D(n)
      <3> QED BY <3>1, <3>3
    <2>4. ASSUME NEW s \in D(n + 1), s # {} PROVE g[s] = Added(AnyOf(s), g[s \ {AnyOf(s)}])
      <3>1. s \ {AnyOf(s)} \in D(n)
        <4>1. Cardinality(s \ {AnyOf(s)}) = Cardinality(s) - 1 /\ Cardinality(s) \in Nat
          BY <2>4, TakeOne
        <4>2. s \ {AnyOf(s)} \in SUBSET S /\ Cardinality(s) <= n + 1
          OBVIOUS
        <4>3. Cardinality(s \ {AnyOf(s)}) <= n
          BY ONLY <2>1, <4>1, <4>2
        <4> QED BY <4>2, <4>3
      <3>2. g[s \ {AnyOf(s)}] = f[s \ {AnyOf(s)}]
        BY <2>3, <3>1
      <3>3. g[s] = Added(AnyOf(s), f[s \ {AnyOf(s)}])
        BY <2>4
      <3> QED BY <3>2, <3>3
    <2>5. Sums(g, S, n + 1)
      <3>1. g = [s \in D(n + 1) |-> g[s]] /\ ({} \in D(n + 1) => g[{}] = 0)
        OBVIOUS
      <3> HIDE DEF g
      <3>2. \A s \in D(n + 1) : g[s] = IF s = {} THEN 0 ELSE Added(AnyOf(s), g[s \ {AnyOf(s)}])
        BY <2>4, <3>1
      <3>3. g = [s \in D(n + 1) |-> IF s = {} THEN 0 ELSE Added(AnyOf(s), g[s \ {AnyOf(s)}])]
        <4> HIDE DEF D
        <4> QED BY <3>1, <3>2
      <3> QED BY <3>3 DEF Sums
    <2> QED BY <2>1, <2>5
  <1> HIDE DEF T
  <1>3. T = Nat
    BY <1>1, <1>2, Induction DEF T
  <1> QED BY <1>3 DEF T

LEMMA CodeIs ==
    ASSUME IsFiniteSet(Digits)
    PROVE  \E f : Sums(f, Digits, Cardinality(Digits)) /\ Code = f[Digits]
  <1> DEFINE n == Cardinality(Digits)
             c == CHOOSE f : f = [s \in SUBSET Digits |->
                    IF s = {} THEN 0 ELSE Added(AnyOf(s), f[s \ {AnyOf(s)}])]
  <1>1. n \in Nat
    BY FS_CardinalityType
  <1>2. {t \in SUBSET Digits : Cardinality(t) <= n} = SUBSET Digits
    BY FS_Subset
  <1>3. PICK f : Sums(f, Digits, n)
    BY <1>1, SumsExist
  <1>4. f = [s \in SUBSET Digits |-> IF s = {} THEN 0 ELSE Added(AnyOf(s), f[s \ {AnyOf(s)}])]
    BY <1>2, <1>3 DEF Sums
  <1>5. c = [s \in SUBSET Digits |-> IF s = {} THEN 0 ELSE Added(AnyOf(s), c[s \ {AnyOf(s)}])]
    BY <1>4
  <1>6. Code = c[Digits]
    BY DEF Code, FoldSet, MapThenFoldSet, Added, AnyOf
  <1> HIDE DEF c
  <1>7. Sums(c, Digits, n)
    BY <1>2, <1>5 DEF Sums
  <1> QED BY <1>6, <1>7

LEMMA CodeOfNothing ==
    ASSUME Digits = {}
    PROVE  Code = 0
  <1>1. IsFiniteSet(Digits) /\ Cardinality(Digits) = 0
    BY FS_EmptySet
  <1>2. PICK f : Sums(f, Digits, Cardinality(Digits)) /\ Code = f[Digits]
    BY <1>1, CodeIs
  <1>3. {} \in {t \in SUBSET {} : Cardinality(t) <= 0}
    BY FS_EmptySet
  <1> QED BY <1>1, <1>2, <1>3 DEF Sums

LEMMA CodeType ==
    ASSUME IsFiniteSet(Digits),
           \A i \in Digits : Digit(buf[i]) \in Nat /\ End - 1 - i \in Nat
    PROVE  Code \in Nat
  <1> DEFINE n == Cardinality(Digits)
  <1>1. n \in Nat
    BY FS_CardinalityType
  <1>2. PICK f : Sums(f, Digits, n) /\ Code = f[Digits]
    BY CodeIs
  <1> DEFINE T == {k \in Nat : \A s \in SUBSET Digits :
                                  Cardinality(s) = k /\ k <= n => f[s] \in Nat}
             D == {t \in SUBSET Digits : Cardinality(t) <= n}
  <1>3. \A s \in D : f[s] = IF s = {} THEN 0 ELSE Added(AnyOf(s), f[s \ {AnyOf(s)}])
    BY <1>2 DEF Sums
  <1>4. 0 \in T
    <2> SUFFICES ASSUME NEW s \in SUBSET Digits, Cardinality(s) = 0 PROVE f[s] \in Nat
      OBVIOUS
    <2>1. s = {}
      BY TakeOne
    <2>2. s \in D
      BY <1>1
    <2> HIDE DEF D
    <2> QED BY <1>3, <2>1, <2>2
  <1>5. ASSUME NEW k \in T PROVE k + 1 \in T
    <2> SUFFICES ASSUME NEW s \in SUBSET Digits, Cardinality(s) = k + 1, k + 1 <= n
                 PROVE  f[s] \in Nat
      OBVIOUS
    <2>0. k \in Nat
      OBVIOUS
    <2>1. s # {} /\ s \in D
      <3>1. Cardinality({}) = 0 /\ k + 1 # 0
        BY ONLY <2>0, FS_EmptySet
      <3>2. s # {}
        BY <3>1
      <3>3. Cardinality(s) <= n
        OBVIOUS
      <3> QED BY <3>2, <3>3
    <2>2. AnyOf(s) \in s /\ s \ {AnyOf(s)} \in SUBSET Digits
          /\ Cardinality(s \ {AnyOf(s)}) = Cardinality(s) - 1
      BY <2>1, TakeOne
    <2>3. Cardinality(s \ {AnyOf(s)}) = k /\ k <= n
      BY <1>1, <2>0, <2>2
    <2>4. f[s \ {AnyOf(s)}] \in Nat
      BY <2>2, <2>3
    <2>5. f[s] = Added(AnyOf(s), f[s \ {AnyOf(s)}])
      <3> HIDE DEF D
      <3> QED BY <1>3, <2>1
    <2>6. Digit(buf[AnyOf(s)]) \in Nat /\ Weight[End - 1 - AnyOf(s)] \in Nat
      BY <2>2, WeightType
    <2>7. \A a, b, d \in Nat : a + b * d \in Nat
      OBVIOUS
    <2>8. f[s \ {AnyOf(s)}] + Digit(buf[AnyOf(s)]) * Weight[End - 1 - AnyOf(s)] \in Nat
      BY ONLY <2>4, <2>6, <2>7
    <2>9. Added(AnyOf(s), f[s \ {AnyOf(s)}]) \in Nat
      BY ONLY <2>8, WidthAssumption, Modulo DEF Added
    <2> QED BY <2>5, <2>9
  <1> HIDE DEF T
  <1>6. T = Nat
    BY <1>4, <1>5, Induction DEF T
  <1> QED BY <1>1, <1>2, <1>6 DEF T

Bytes == 0 .. 255

\* A sequence of at most four bytes, which has one if the code is NUL.
Coding(s, c) == s \in Seq(Bytes) /\ Len(s) \in 0 .. 4 /\ (c = 0 => Len(s) = 1)

LEMMA Tuples ==
    /\ \A a \in Bytes : \A c : Coding(<<a>>, c)
    /\ \A a, b \in Bytes : \A c : c # 0 => Coding(<<a, b>>, c)
    /\ \A a, b, d \in Bytes : \A c : c # 0 => Coding(<<a, b, d>>, c)
    /\ \A a, b, d, e \in Bytes : \A c : c # 0 => Coding(<<a, b, d, e>>, c)
    /\ \A c : c # 0 => Coding(<< >>, c)
  BY EmptySeq DEF Coding

\* Utf8() arm by arm, its sequences named.
One(c) == <<c>>
Two(c) == <<192 + (c \div 64), Low(c)>>
Three(c) == <<224 + (c \div 4096), Low(c \div 64), Low(c)>>
Four(c) == <<240 + (c \div 262144), Low(c \div 4096), Low(c \div 64), Low(c)>>

LEMMA Utf8Arms ==
    ASSUME NEW c \in Nat
    PROVE  /\ c < 128 => Utf8(c) = One(c)
           /\ 128 <= c /\ c < 2048 => Utf8(c) = Two(c)
           /\ 2048 <= c /\ c < 65536 => Utf8(c) = Three(c)
           /\ 65536 <= c /\ c < 2097152 => Utf8(c) = Four(c)
           /\ 2097152 <= c => Utf8(c) = << >>
  <1>1. Utf8(c) = CASE c < 128                   -> One(c)
                    [] 128 <= c /\ c < 2048      -> Two(c)
                    [] 2048 <= c /\ c < 65536    -> Three(c)
                    [] 65536 <= c /\ c < 2097152 -> Four(c)
                    [] 2097152 <= c              -> << >>
    BY ONLY SMT DEF Utf8, One, Two, Three, Four
  <1> QED BY ONLY <1>1, c \in Nat

LEMMA Utf8Is ==
    ASSUME NEW c \in Nat
    PROVE  Coding(Utf8(c), c)
  <1>1. \A x \in Nat : x % 64 \in 0 .. 63
    OBVIOUS
  <1>2. c \div 64 \in Nat /\ c \div 4096 \in Nat /\ c \div 262144 \in Nat
    OBVIOUS
  <1>3. \A x \in Nat : Low(x) \in Bytes
    BY <1>1 DEF Low, Bytes
  <1>4. Low(c) \in Bytes /\ Low(c \div 64) \in Bytes /\ Low(c \div 4096) \in Bytes
    BY ONLY <1>2, <1>3, c \in Nat
  <1>5. ASSUME c < 128 PROVE Coding(One(c), c)
    <2>1. c \in Bytes
      BY <1>5 DEF Bytes
    <2> QED BY ONLY <2>1, Tuples DEF One
  <1>6. ASSUME 128 <= c, c < 2048 PROVE Coding(Two(c), c)
    <2>1. 192 + (c \div 64) \in Bytes /\ c # 0
      BY <1>6 DEF Bytes
    <2> QED BY ONLY <1>4, <2>1, Tuples DEF Two
  <1>7. ASSUME 2048 <= c, c < 65536 PROVE Coding(Three(c), c)
    <2>1. 224 + (c \div 4096) \in Bytes /\ c # 0
      BY <1>7 DEF Bytes
    <2> QED BY ONLY <1>4, <2>1, Tuples DEF Three
  <1>8. ASSUME 65536 <= c, c < 2097152 PROVE Coding(Four(c), c)
    <2>1. 240 + (c \div 262144) \in Bytes /\ c # 0
      BY <1>8 DEF Bytes
    <2> QED BY ONLY <1>4, <2>1, Tuples DEF Four
  <1>9. ASSUME 2097152 <= c PROVE Coding(<< >>, c)
    <2>1. c # 0
      BY <1>9
    <2> QED BY ONLY <2>1, Tuples
  <1>10. c < 128 \/ (128 <= c /\ c < 2048) \/ (2048 <= c /\ c < 65536)
         \/ (65536 <= c /\ c < 2097152) \/ 2097152 <= c
    OBVIOUS
  <1> QED BY <1>5, <1>6, <1>7, <1>8, <1>9, <1>10, Utf8Arms
-----------------------------------------------------------------------------
(* The inductive invariant *)

Unread == \A i \in p .. end - 1 : buf[i] = original[i]

Inv ==
    /\ TypeOK
    /\ original \in Seq(1 .. 255)
    /\ ~done => q <= p /\ buf[end] = NUL /\ Unread

LEMMA Numbers ==
    ASSUME Inv
    PROVE  /\ end \in Nat \ {0} /\ p \in Nat \ {0} /\ q \in Nat \ {0}
           /\ p <= end /\ q <= end + 1 /\ DOMAIN buf = 1 .. end /\ Len(buf) = end
           /\ \A i \in 1 .. end : buf[i] \in Bytes
           /\ Len(original) \in Nat /\ end = Len(original) + 1
  <1>1. buf \in Seq(0 .. 255) /\ Len(buf) = Len(original) + 1 /\ end = Len(buf)
        /\ p \in 1 .. end /\ q \in 1 .. end + 1 /\ original \in Seq(1 .. 255)
    BY DEF Inv, TypeOK
  <1>2. Len(original) \in Nat /\ end \in Nat \ {0} /\ DOMAIN buf = 1 .. end
    BY <1>1, LenProperties
  <1>3. \A i \in 1 .. end : buf[i] \in Bytes
    BY <1>1, <1>2, ElementOfSeq DEF Bytes
  <1>4. p \in Nat \ {0} /\ q \in Nat \ {0} /\ p <= end /\ q <= end + 1
    BY <1>1, <1>2
  <1> QED BY <1>1, <1>2, <1>3, <1>4

LEMMA Tuples456 ==
    ASSUME NEW S
    PROVE  /\ \A a, b, d, e \in S : <<a, b, d, e>> \in Seq(S)
           /\ \A a, b, d, e, f \in S : <<a, b, d, e, f>> \in Seq(S)
           /\ \A a, b, d, e, f, g \in S : <<a, b, d, e, f, g>> \in Seq(S)
  <1>1. ASSUME NEW a \in S, NEW b \in S, NEW d \in S, NEW e \in S
        PROVE  <<a, b, d, e>> \in Seq(S)
    OBVIOUS
  <1>2. ASSUME NEW a \in S, NEW b \in S, NEW d \in S, NEW e \in S, NEW f \in S
        PROVE  <<a, b, d, e, f>> \in Seq(S)
    OBVIOUS
  <1>3. ASSUME NEW a \in S, NEW b \in S, NEW d \in S, NEW e \in S, NEW f \in S, NEW g \in S
        PROVE  <<a, b, d, e, f, g>> \in Seq(S)
    OBVIOUS
  <1> QED BY <1>1, <1>2, <1>3

LEMMA EscapeType ==
    ASSUME NEW c \in 1 .. 255
    PROVE  MustEscape(c) \in Seq(1 .. 255)
  <1> DEFINE S == 1 .. 255
  <1>1. PICK T : T = S
    OBVIOUS
  <1>2. /\ \A a, b, d, e \in T : <<a, b, d, e>> \in Seq(T)
        /\ \A a, b, d, e, f \in T : <<a, b, d, e, f>> \in Seq(T)
        /\ \A a, b, d, e, f, g \in T : <<a, b, d, e, f, g>> \in Seq(T)
    BY ONLY Tuples456
  <1>3. 38 \in T /\ 59 \in T /\ 97 \in T /\ 103 \in T /\ 108 \in T /\ 109 \in T /\ 111 \in T
        /\ 112 \in T /\ 113 \in T /\ 115 \in T /\ 116 \in T /\ 117 \in T
    BY <1>1
  <1> HIDE DEF S
  <1> USE DEF Amp, Lt, Gt, Quot, Apos, Semicolon
  <1>4. ASSUME c = Lt
        PROVE  MustEscape(c) \in Seq(T)
    <2>1. MustEscape(c) = <<38, 108, 116, 59>>
      BY <1>4 DEF MustEscape
    <2> QED BY ONLY <1>2, <1>3, <2>1
  <1>5. ASSUME c = Gt
        PROVE  MustEscape(c) \in Seq(T)
    <2>1. MustEscape(c) = <<38, 103, 116, 59>>
      BY <1>5 DEF MustEscape
    <2> QED BY ONLY <1>2, <1>3, <2>1
  <1>6. ASSUME c = Quot
        PROVE  MustEscape(c) \in Seq(T)
    <2>1. MustEscape(c) = <<38, 113, 117, 111, 116, 59>>
      BY <1>6 DEF MustEscape
    <2> QED BY ONLY <1>2, <1>3, <2>1
  <1>7. ASSUME c = Amp
        PROVE  MustEscape(c) \in Seq(T)
    <2>1. MustEscape(c) = <<38, 97, 109, 112, 59>>
      BY <1>7 DEF MustEscape
    <2> QED BY ONLY <1>2, <1>3, <2>1
  <1>8. ASSUME c = Apos
        PROVE  MustEscape(c) \in Seq(T)
    <2>1. MustEscape(c) = <<38, 97, 112, 111, 115, 59>>
      BY <1>8 DEF MustEscape
    <2> QED BY ONLY <1>2, <1>3, <2>1
  <1>9. ASSUME c \notin {Lt, Gt, Quot, Amp, Apos}
        PROVE  MustEscape(c) \in Seq(T)
    <2>1. MustEscape(c) = <<c>>
      BY <1>9 DEF MustEscape
    <2>2. c \in T
      BY <1>1 DEF S
    <2> QED BY ONLY <2>1, <2>2
  <1> QED BY <1>1, <1>4, <1>5, <1>6, <1>7, <1>8, <1>9 DEF S

LEMMA InitInv == Init => Inv
  <1> SUFFICES ASSUME Init PROVE Inv
    OBVIOUS
  <1>1. ASSUME NEW chars \in Seq(1 .. 255), NEW bytes, Begin(chars, bytes), entities \in BOOLEAN
        PROVE  Inv
    <2>1. /\ buf = Append(chars, NUL) /\ end = Len(chars) + 1
          /\ p = 1 /\ q = 1 /\ done = FALSE /\ original = chars /\ kept = TRUE
      BY <1>1 DEF Begin
    <2>2. chars \in Seq(0 .. 255) /\ 0 \in 0 .. 255 /\ Len(chars) \in Nat
      OBVIOUS
    <2>3. /\ buf \in Seq(0 .. 255) /\ Len(buf) = Len(chars) + 1 /\ buf[Len(chars) + 1] = 0
          /\ \A i \in 1 .. Len(chars) : buf[i] = chars[i]
      BY <2>1, <2>2, AppendProperties DEF NUL
    <2>4. TypeOK
      <3>1. end = Len(buf) /\ p \in 1 .. end /\ q \in 1 .. end + 1
        BY <2>1, <2>2, <2>3
      <3>2. {entities, done, kept} \subseteq BOOLEAN
        BY <1>1, <2>1
      <3> QED BY <2>1, <2>3, <3>1, <3>2 DEF TypeOK
    <2>5. q <= p /\ buf[end] = NUL /\ Unread
      <3>1. p .. end - 1 = 1 .. Len(chars)
        BY <2>1, <2>2
      <3> QED BY <2>1, <2>3, <3>1 DEF Unread, NUL
    <2> QED BY <2>1, <2>4, <2>5 DEF Inv
  <1>2. ASSUME NEW u \in Texts
        PROVE  FlattenSeq([i \in DOMAIN u |-> u[i].chars]) \in Seq(1 .. 255)
    <2>1. PICK n \in 0 .. MaxUnits : u \in [1 .. n -> Units]
      BY DEF Texts
    <2>2. n \in Nat
      BY WidthAssumption
    <2>3. \A i \in 1 .. n : u[i].chars \in Seq(1 .. 255)
      BY <2>1, UnitsAssumption
    <2>4. PICK ss : ss = [i \in DOMAIN u |-> u[i].chars]
      OBVIOUS
    <2>5. ss \in [1 .. n -> Seq(1 .. 255)]
      BY <2>1, <2>3, <2>4
    <2>6. ss \in Seq(Seq(1 .. 255))
      BY <2>2, <2>5
    <2> QED BY <2>4, <2>6, FlattenType
  <1>3. ASSUME NEW t \in Titles PROVE FormatMetaData(t) \in Seq(1 .. 255)
    <2>1. t \in Seq(1 .. 255) /\ Len(t) \in Nat /\ DOMAIN t = 1 .. Len(t)
      BY TitlesAssumption
    <2>2. \A c \in 1 .. 255 : MustEscape(c) \in Seq(1 .. 255)
      BY EscapeType
    <2>3. PICK ss : ss = [i \in DOMAIN t |-> MustEscape(t[i])]
      OBVIOUS
    <2>4. \A i \in 1 .. Len(t) : t[i] \in 1 .. 255
      BY <2>1, ElementOfSeq
    <2>5. ss \in [1 .. Len(t) -> Seq(1 .. 255)]
      BY <2>1, <2>2, <2>3, <2>4
    <2>6. ss \in Seq(Seq(1 .. 255))
      <3>1. PICK n : n = Len(t)
        OBVIOUS
      <3>2. n \in Nat /\ ss \in [1 .. n -> Seq(1 .. 255)]
        BY <2>1, <2>5, <3>1
      <3> QED BY ONLY <3>2
    <2> QED BY <2>3, <2>6, FlattenType DEF FormatMetaData
  <1> QED BY <1>1, <1>2, <1>3 DEF Init
-----------------------------------------------------------------------------
(* A pass of the loop *)

\* What is written stays behind what has been read.
LEMMA TurnStep ==
    ASSUME Inv, Reading, NEW n \in Nat, NEW s \in Seq(Bytes), Turn(n, s),
           p + n <= end, Len(s) <= n, UNCHANGED <<end, entities, done, original>>,
           kept' \in BOOLEAN
    PROVE  Inv'
  <1>1. Len(s) \in Nat /\ \A i \in 1 .. Len(s) : s[i] \in Bytes
    BY LenProperties, ElementOfSeq
  <1>2. ~done /\ q <= p /\ buf[end] = NUL /\ Unread
    BY DEF Inv, Reading
  <1>3. /\ buf' = [i \in 1 .. end |->
                    IF i \in q .. q + Len(s) - 1 THEN s[i - q + 1] ELSE buf[i]]
        /\ p' = p + n /\ q' = q + Len(s)
    BY Numbers DEF Turn
  <1>4. buf' \in [1 .. end -> Bytes]
    <2>1. \A i \in q .. q + Len(s) - 1 : i - q + 1 \in 1 .. Len(s)
      BY <1>1, Numbers
    <2>2. \A i \in q .. q + Len(s) - 1 : s[i - q + 1] \in Bytes
      BY <1>1, <2>1
    <2>3. \A i \in 1 .. end : buf[i] \in Bytes
      BY Numbers
    <2>4. \A i \in 1 .. end :
            (IF i \in q .. q + Len(s) - 1 THEN s[i - q + 1] ELSE buf[i]) \in Bytes
      BY <2>2, <2>3
    <2> QED BY ONLY <1>3, <2>4
  <1>5. buf' \in Seq(0 .. 255) /\ Len(buf') = end
    <2>1. \A S, k, f : k \in Nat /\ f \in [1 .. k -> S] => f \in Seq(S) /\ Len(f) = k
      OBVIOUS
    <2>2. end \in Nat
      BY Numbers
    <2>3. buf' \in Seq(Bytes) /\ Len(buf') = end
      BY ONLY <1>4, <2>1, <2>2
    <2> QED BY <2>3 DEF Bytes
  <1>6. \A i \in p + n .. end : buf'[i] = buf[i]
    <2>1. \A i \in p + n .. end : i \in 1 .. end /\ i \notin q .. q + Len(s) - 1
      BY <1>1, <1>2, Numbers
    <2> QED BY <1>3, <2>1
  <1>7. p' \in 1 .. end /\ q' \in 1 .. end + 1 /\ q' <= p'
    BY <1>1, <1>2, <1>3, Numbers
  <1>8. TypeOK'
    BY <1>5, <1>7 DEF Inv, TypeOK
  <1>9. buf'[end] = NUL
    BY <1>2, <1>6, Numbers
  <1>10. Unread'
    <2>1. \A i \in p + n .. end - 1 : i \in p .. end - 1 /\ i \in p + n .. end
      BY Numbers
    <2>2. \A i \in p + n .. end - 1 : buf'[i] = original[i]
      BY <1>2, <1>6, <2>1 DEF Unread
    <2> QED BY <1>3, <2>2 DEF Unread
  <1> QED BY <1>7, <1>8, <1>9, <1>10 DEF Inv

\* Nothing but the NUL at the end is a NUL at the end: a byte at i that is
\* another is followed by one that can be read.
LEMMA NotAtEnd ==
    ASSUME Inv, ~done, NEW i \in 1 .. end, buf[i] # NUL
    PROVE  i < end
  BY Numbers DEF Inv

\* What follows p, as entities are looked for in it.
LEMMA RestIs ==
    ASSUME Inv, Reading, NEW t, t = SubSeq(buf, p + 1, Len(buf))
    PROVE  Len(t) = end - p /\ \A i \in 1 .. end - p : t[i] = buf[p + i]
  <1>1. p \in Nat \ {0} /\ end \in Nat /\ p < end /\ Len(buf) = end
    BY Numbers DEF Reading
  <1>2. PICK m : m = p + 1
    OBVIOUS
  <1>3. m \in Int /\ end \in Int /\ m <= end /\ \A i \in m .. end : i \in 1 .. end
    BY <1>1, <1>2
  <1>4. \A i \in m .. end : buf[i] \in Bytes
    BY <1>3, Numbers
  <1>5. t = SubSeq(buf, m, end)
    BY <1>1, <1>2
  <1>6. Len(t) = end - m + 1 /\ \A i \in 1 .. end - m + 1 : t[i] = buf[m + i - 1]
    BY ONLY <1>3, <1>4, <1>5, SubSeqProperties
  <1>7. end - m + 1 = end - p /\ \A i \in 1 .. end - p : m + i - 1 = p + i
    BY <1>1, <1>2
  <1> QED BY ONLY <1>6, <1>7

LEMMA OneByte ==
    ASSUME NEW b \in Bytes
    PROVE  <<b>> \in Seq(Bytes) /\ Len(<<b>>) = 1
  OBVIOUS

\* A reference lies before the end and is at least as long as what it stands
\* for: a short one, "&#;", has the code of NUL.
LEMMA ReferenceFits ==
    ASSUME Inv, Reading, AtEntity, IsRef
    PROVE  /\ End + 1 - p \in Nat /\ p + (End + 1 - p) <= end
           /\ Utf8(Code) \in Seq(Bytes) /\ Len(Utf8(Code)) <= End + 1 - p
  <1>1. ~done /\ p < end
    BY DEF Reading
  <1>2. /\ buf[p + 1] = Hash /\ Ends # {}
        /\ \A i \in Digits : Digit(buf[i]) \in 0 .. Base - 1
    BY DEF IsRef
  <1>3. FirstDigit \in Nat /\ FirstDigit = p + (IF Hex THEN 3 ELSE 2)
    BY Numbers DEF FirstDigit
  <1>4. Ends \subseteq Nat /\ \A i \in Ends : i \in FirstDigit .. end /\ buf[i] = Semicolon
    BY <1>3, Numbers DEF Ends
  <1>5. End \in Ends
    <2>1. \E i \in Ends : \A j \in Ends : i <= j
      BY <1>2, <1>4, LeastNumber
    <2> QED BY <2>1 DEF End
  <1>6. End \in Nat /\ FirstDigit <= End /\ End < end
    <2>1. End \in FirstDigit .. end /\ buf[End] # NUL
      BY <1>4, <1>5 DEF Semicolon, NUL
    <2>2. End \in 1 .. end
      BY <1>3, <2>1, Numbers
    <2>3. End < end
      BY ONLY <1>1, <2>1, <2>2, NotAtEnd, Inv
    <2> QED BY <1>3, <2>1, <2>3, Numbers
  <1>7. Marks \subseteq Nat /\ Marks # {} /\ \A i \in Marks : i \in p + 1 .. End - 1
    <2>1. \A i \in Marks : i \in p + 1 .. End - 1
      BY DEF Marks
    <2>2. Marks \subseteq Nat
      BY <2>1, Numbers
    <2>3. Marks # {}
      <3>1. CASE Hex
        <4>1. p + 2 \in p + 1 .. End - 1
          BY <1>3, <1>6, <3>1, Numbers
        <4> QED BY <3>1, <4>1 DEF Marks, Hex
      <3>2. CASE ~Hex
        <4>1. p + 1 \in p + 1 .. End - 1
          BY <1>3, <1>6, <3>2, Numbers
        <4> QED BY <1>2, <3>2, <4>1 DEF Marks
      <3> QED BY <3>1, <3>2
    <2> QED BY <2>1, <2>2, <2>3
  <1>8. PICK m : m = CHOOSE i \in Marks : \A j \in Marks : j <= i
    OBVIOUS
  <1>9. m \in p + 1 .. End - 1
    <2>1. \A x \in Marks : x <= End
      BY <1>6, <1>7, Numbers
    <2>2. \E i \in Marks : \A j \in Marks : j <= i
      BY <1>6, <1>7, <2>1, GreatestNumber
    <2>3. m \in Marks
      BY <1>8, <2>2
    <2> QED BY <1>7, <2>3
  <1>10. Digits = m + 1 .. End - 1
    BY <1>8 DEF Digits
  <1>11. m \in Nat /\ IsFiniteSet(Digits) /\ \A i \in Digits : End - 1 - i \in Nat
    <2>1. m \in Nat
      BY <1>9, Numbers
    <2>2. \A i \in m + 1 .. End - 1 : End - 1 - i \in Nat
      BY <1>6, <2>1
    <2>3. IsFiniteSet(m + 1 .. End - 1)
      BY <1>6, <2>1, FS_Interval
    <2> QED BY <1>10, <2>1, <2>2, <2>3
  <1>12. \A i \in Digits : Digit(buf[i]) \in Nat
    BY <1>2, BaseIs
  <1>13. Code \in Nat
    BY <1>11, <1>12, CodeType
  <1>14. Coding(Utf8(Code), Code)
    BY <1>13, Utf8Is
  <1>15. Utf8(Code) \in Seq(Bytes) /\ Len(Utf8(Code)) \in 0 .. 4
         /\ (Code = 0 => Len(Utf8(Code)) = 1)
    BY ONLY <1>14 DEF Coding
  <1>16. End + 1 - p \in Nat /\ p + (End + 1 - p) <= end
    BY <1>3, <1>6, Numbers
  <1>17. CASE End + 1 - p >= 4
    <2>1. Len(Utf8(Code)) \in Nat /\ Len(Utf8(Code)) <= 4
      <3>1. \A k \in 0 .. 4 : k \in Nat /\ k <= 4
        OBVIOUS
      <3> QED BY ONLY <1>15, <3>1
    <2>2. \A a, b \in Nat : a <= 4 /\ b >= 4 => a <= b
      OBVIOUS
    <2> QED BY ONLY <1>15, <1>16, <1>17, <2>1, <2>2
  <1>18. CASE End + 1 - p < 4
    <2>1. End = p + 2
      BY <1>3, <1>6, <1>18, Numbers
    <2>2. Digits = {}
      BY <1>9, <1>10, <2>1, Numbers
    <2>3. Len(Utf8(Code)) = 1
      BY <1>15, <2>2, CodeOfNothing
    <2>4. End + 1 - p = 3
      BY <2>1, Numbers
    <2> QED BY <1>15, <1>16, <2>3, <2>4
  <1> QED BY <1>16, <1>17, <1>18
-----------------------------------------------------------------------------
(* The steps *)

LEMMA NormalizeNewlineInv == Inv /\ NormalizeNewline => Inv'
  <1> SUFFICES ASSUME Inv, NormalizeNewline PROVE Inv'
    OBVIOUS
  <1>1. Reading /\ ~done /\ p < end
    BY DEF NormalizeNewline, Reading
  <1>2. PICK n : /\ Turn(n, <<LF>>)
                 /\ n = IF buf[p + 1] = (IF buf[p] = CR THEN LF ELSE CR) THEN 2 ELSE 1
    BY DEF NormalizeNewline
  <1>3. n \in Nat /\ 1 <= n /\ p + n <= end
    <2>1. CASE n = 1
      BY <1>1, <2>1, Numbers
    <2>2. CASE n # 1
      <3>1. n = 2 /\ buf[p + 1] # NUL
        BY <1>2, <2>2 DEF LF, CR, NUL
      <3>2. p + 1 \in 1 .. end
        BY <1>1, Numbers
      <3>3. p + 1 < end
        BY ONLY <1>1, <3>1, <3>2, NotAtEnd, Inv
      <3> QED BY <3>1, <3>3, Numbers
    <2> QED BY <2>1, <2>2
  <1>4. <<LF>> \in Seq(Bytes) /\ Len(<<LF>>) = 1
    <2>1. LF \in Bytes
      BY DEF LF, Bytes
    <2> QED BY <2>1, OneByte
  <1>5. UNCHANGED <<end, entities, done, original>> /\ kept' \in BOOLEAN
    BY DEF NormalizeNewline, Inv, TypeOK
  <1> QED BY ONLY Inv, <1>1, <1>2, <1>3, <1>4, <1>5, TurnStep

LEMMA CopyInv == Inv /\ Copy => Inv'
  <1> SUFFICES ASSUME Inv, Copy PROVE Inv'
    OBVIOUS
  <1>1. Reading /\ ~done /\ p < end /\ Turn(1, <<buf[p]>>)
    BY DEF Copy, Reading
  <1>2. <<buf[p]>> \in Seq(Bytes) /\ Len(<<buf[p]>>) = 1
    <2>1. buf[p] \in Bytes
      BY Numbers
    <2> QED BY <2>1, OneByte
  <1>3. 1 \in Nat /\ p + 1 <= end /\ 1 <= 1
    BY <1>1, Numbers
  <1>4. UNCHANGED <<end, entities, done, original>> /\ kept' \in BOOLEAN
    BY DEF Copy, Inv, TypeOK
  <1> QED BY ONLY Inv, <1>1, <1>2, <1>3, <1>4, TurnStep

LEMMA CharacterRefInv == Inv /\ CharacterRef => Inv'
  <1> SUFFICES ASSUME Inv, CharacterRef PROVE Inv'
    OBVIOUS
  <1>1. Reading /\ AtEntity /\ IsRef /\ Turn(End + 1 - p, Utf8(Code))
    BY DEF CharacterRef
  <1>2. /\ End + 1 - p \in Nat /\ p + (End + 1 - p) <= end
        /\ Utf8(Code) \in Seq(Bytes) /\ Len(Utf8(Code)) <= End + 1 - p
    BY <1>1, ReferenceFits
  <1>3. UNCHANGED <<end, entities, done, original>> /\ kept' \in BOOLEAN
    BY DEF CharacterRef, Inv, TypeOK
  <1> QED BY ONLY Inv, <1>1, <1>2, <1>3, TurnStep

LEMMA NoRefInv == Inv /\ NoRef => Inv'
  <1> SUFFICES ASSUME Inv, NoRef PROVE Inv'
    OBVIOUS
  <1>1. PICK s : Turn(1, s) /\ s = IF buf[p + 2] = NUL THEN << >> ELSE <<Amp>>
    BY DEF NoRef
  <1>2. Reading /\ p < end
    BY DEF NoRef, Reading
  <1>3. s \in Seq(Bytes) /\ Len(s) <= 1
    <2>1. CASE s = << >>
      BY <2>1, EmptySeq
    <2>2. CASE s = <<Amp>>
      <3>1. Amp \in Bytes
        BY DEF Amp, Bytes
      <3> QED BY <2>2, <3>1, OneByte
    <2> QED BY <1>1, <2>1, <2>2
  <1>4. 1 \in Nat /\ p + 1 <= end
    BY <1>2, Numbers
  <1>5. UNCHANGED <<end, entities, done, original>> /\ kept' \in BOOLEAN
    BY DEF NoRef, Inv, TypeOK
  <1> QED BY ONLY Inv, <1>1, <1>2, <1>3, <1>4, <1>5, TurnStep

\* An entity of the table is in the buffer as a whole, before the end.
LEMMA EntityFits ==
    ASSUME Inv, Reading, NEW e \in Matching
    PROVE  Len(e.pattern) \in Nat /\ p + (Len(e.pattern) + 2) <= end
  <1>1. e \in Entity /\ Len(e.pattern) \in 2 .. 4
    BY DEF Matching, Entity
  <1>2. PICK n : n = Len(e.pattern)
    OBVIOUS
  <1>3. PICK t : t = SubSeq(buf, p + 1, Len(buf))
    OBVIOUS
  <1>4. PICK w : w = Append(e.pattern, Semicolon)
    OBVIOUS
  <1>5. Len(w) = n + 1 /\ w[n + 1] = Semicolon /\ n \in Nat
    BY <1>1, <1>2, <1>4 DEF Entity
  <1>6. IsPrefix(w, t)
    BY <1>3, <1>4 DEF Matching
  <1>7. Len(w) <= Len(t) /\ SubSeq(w, 1, Len(w)) = SubSeq(t, 1, Len(w))
    BY ONLY <1>6 DEF IsPrefix
  <1>8. Len(t) = end - p /\ \A i \in 1 .. end - p : t[i] = buf[p + i]
    BY <1>3, RestIs
  <1>9. n + 1 <= end - p
    BY <1>5, <1>7, <1>8
  <1>10. w[n + 1] = t[n + 1]
    <2>1. \A x : \A i \in 1 .. n + 1 : SubSeq(x, 1, n + 1)[i] = x[i]
      BY <1>5
    <2>2. n + 1 \in 1 .. n + 1
      BY <1>5
    <2> QED BY ONLY <1>5, <1>7, <2>1, <2>2
  <1>11. buf[p + (n + 1)] # NUL
    <2>1. n + 1 \in 1 .. end - p
      BY <1>5, <1>9, Numbers
    <2>2. buf[p + (n + 1)] = Semicolon
      BY <1>5, <1>8, <1>10, <2>1
    <2> QED BY <2>2 DEF Semicolon, NUL
  <1>12. p + (n + 1) \in 1 .. end /\ ~done
    BY <1>5, <1>9, Numbers DEF Reading
  <1>13. p + (n + 1) < end
    BY ONLY Inv, <1>11, <1>12, NotAtEnd
  <1> QED BY <1>2, <1>5, <1>13, Numbers

LEMMA EntityFoundInv == Inv /\ EntityFound => Inv'
  <1> SUFFICES ASSUME Inv, EntityFound PROVE Inv'
    OBVIOUS
  <1>1. PICK e \in Matching : Reading /\ Turn(Len(e.pattern) + 2, <<e.value>>)
                              /\ UNCHANGED <<end, entities, done, original, kept>>
    BY DEF EntityFound
  <1>2. PICK n : n = Len(e.pattern) + 2
    OBVIOUS
  <1>3. n \in Nat /\ 1 <= n /\ p + n <= end
    <2>1. Len(e.pattern) \in Nat /\ p + (Len(e.pattern) + 2) <= end
      BY <1>1, EntityFits
    <2> QED BY <1>2, <2>1
  <1>4. <<e.value>> \in Seq(Bytes) /\ Len(<<e.value>>) = 1
    <2>1. e.value \in {Quot, Amp, Apos, Lt, Gt}
      BY DEF Matching, Entity
    <2>2. {Quot, Amp, Apos, Lt, Gt} \subseteq Bytes
      BY DEF Quot, Amp, Apos, Lt, Gt, Bytes
    <2> QED BY <2>1, <2>2, OneByte
  <1>5. UNCHANGED <<end, entities, done, original>> /\ kept' \in BOOLEAN
    BY <1>1 DEF Inv, TypeOK
  <1> QED BY ONLY Inv, <1>1, <1>2, <1>3, <1>4, <1>5, TurnStep

LEMMA EntityUnknownInv == Inv /\ EntityUnknown => Inv'
  <1> SUFFICES ASSUME Inv, EntityUnknown PROVE Inv'
    OBVIOUS
  <1>1. Reading /\ ~done /\ p < end /\ Turn(1, <<buf[q]>>)
    BY DEF EntityUnknown, Reading
  <1>2. <<buf[q]>> \in Seq(Bytes) /\ Len(<<buf[q]>>) = 1
    <2>1. q <= p
      BY <1>1 DEF Inv
    <2>2. q \in 1 .. end
      BY <1>1, <2>1, Numbers
    <2>3. buf[q] \in Bytes
      BY <2>2, Numbers
    <2> QED BY <2>3, OneByte
  <1>3. 1 \in Nat /\ p + 1 <= end /\ 1 <= 1
    BY <1>1, Numbers
  <1>4. UNCHANGED <<end, entities, done, original>> /\ kept' \in BOOLEAN
    BY DEF EntityUnknown, Inv, TypeOK
  <1> QED BY ONLY Inv, <1>1, <1>2, <1>3, <1>4, TurnStep

LEMMA FinishInv == Inv /\ Finish => Inv'
  <1> SUFFICES ASSUME Inv, Finish PROVE Inv'
    OBVIOUS
  <1>1. /\ ~done /\ p >= end /\ Turn(0, <<NUL>>) /\ done' = TRUE
        /\ UNCHANGED <<end, entities, original, kept>>
    BY DEF Finish
  <1>2. q <= p
    BY <1>1 DEF Inv
  <1>3. q' = q + 1 /\ p' = p
    BY <1>1, Numbers DEF Turn
  <1>4. buf' = [i \in 1 .. end |-> IF i \in q .. q + Len(<<NUL>>) - 1
                                   THEN <<NUL>>[i - q + 1] ELSE buf[i]]
    BY <1>1, Numbers DEF Turn
  <1>5. \A i \in 1 .. end : buf'[i] \in Bytes
    <2>1. ASSUME NEW i \in 1 .. end PROVE buf'[i] \in Bytes
      <3>1. CASE i = q
        <4>1. i \in q .. q + Len(<<NUL>>) - 1 /\ i - q + 1 = 1
          BY <3>1, Numbers
        <4>2. buf'[i] = NUL
          BY <1>4, <4>1
        <4> QED BY <4>2 DEF NUL, Bytes
      <3>2. CASE i # q
        <4>1. i \notin q .. q + Len(<<NUL>>) - 1
          BY <3>2, Numbers
        <4>2. buf'[i] = buf[i]
          BY <1>4, <4>1
        <4> QED BY <4>2, Numbers
      <3> QED BY <3>1, <3>2
    <2> QED BY <2>1
  <1>6. buf' \in Seq(0 .. 255) /\ Len(buf') = end
    <2>1. \A S, k, f : k \in Nat /\ f \in [1 .. k -> S] => f \in Seq(S) /\ Len(f) = k
      OBVIOUS
    <2>2. end \in Nat
      BY Numbers
    <2>3. buf' \in [1 .. end -> Bytes]
      BY ONLY <1>4, <1>5
    <2>4. buf' \in Seq(Bytes) /\ Len(buf') = end
      BY ONLY <2>1, <2>2, <2>3
    <2> QED BY <2>4 DEF Bytes
  <1>7. q' \in 1 .. end + 1 /\ p' \in 1 .. end
    BY <1>2, <1>3, Numbers
  <1>8. TypeOK'
    <2>1. {entities, done, kept}' \subseteq BOOLEAN
      BY <1>1 DEF Inv, TypeOK
    <2> QED BY <1>1, <1>6, <1>7, <2>1, Numbers DEF TypeOK
  <1>9. original' \in Seq(1 .. 255) /\ done'
    BY <1>1 DEF Inv
  <1> QED BY <1>8, <1>9 DEF Inv

\* Whatever is read and written, the invariant is kept.
LEMMA Invariance == Inv /\ [Next]_vars => Inv'
  <1> SUFFICES ASSUME Inv, [Next]_vars PROVE Inv'
    OBVIOUS
  <1>1. CASE UNCHANGED vars
    BY <1>1 DEF vars, Inv, TypeOK, Unread
  <1> QED BY <1>1, NormalizeNewlineInv, CopyInv, CharacterRefInv, NoRefInv, EntityFoundInv,
             EntityUnknownInv, FinishInv DEF Next

LEMMA UnreadFollows == Inv => UnreadIntact
  <1> SUFFICES ASSUME Inv, ~done PROVE SubSeq(buf, p, end - 1) = SubSeq(original, p, end - 1)
    BY DEF Inv, UnreadIntact
  <1>1. \A i \in p .. end - 1 : buf[i] = original[i]
    BY DEF Inv, Unread
  <1> QED BY <1>1, Numbers

\* GetStr() may decode in place: whatever the text, for every set of units and
\* titles, the pointer that writes never passes the one that reads, so no byte
\* is lost before it has been read.  That a reference is never shorter than the
\* bytes it stands for is the fact behind it (ReferenceFits).
THEOREM DecodesInPlace == Spec => []UnreadIntact
  <1>1. Spec => []Inv
    BY InitInv, Invariance, PTL DEF Spec
  <1> QED BY <1>1, UnreadFollows, PTL
-----------------------------------------------------------------------------
(* A title, there and back *)

\* Where in s = FormatMetaData(t) what stands for each byte of t begins, and
\* where s ends.
Stands(s, from, e) == \A i \in 1 .. Len(e) : s[from + i - 1] = e[i]
Places(f, t, s) ==
    /\ f \in [0 .. Len(t) -> Nat]
    /\ f[0] = 1 /\ f[Len(t)] = Len(s) + 1
    /\ \A k \in 0 .. Len(t) - 1 :
          /\ f[k + 1] = f[k] + Len(MustEscape(t[k + 1])) /\ f[k + 1] <= Len(s) + 1
          /\ Stands(s, f[k], MustEscape(t[k + 1]))

LEMMA Appended ==
    ASSUME NEW S, NEW s \in Seq(S), NEW e \in Seq(S)
    PROVE  /\ s \o e \in Seq(S) /\ Len(s \o e) = Len(s) + Len(e)
           /\ Len(s) \in Nat /\ Len(e) \in Nat
           /\ \A i \in 1 .. Len(s) : (s \o e)[i] = s[i]
           /\ \A i \in 1 .. Len(e) : (s \o e)[Len(s) + i] = e[i]
  OBVIOUS

LEMMA PlacesExist ==
    ASSUME NEW t \in Seq(1 .. 255)
    PROVE  \E f : Places(f, t, FormatMetaData(t))
  <1> DEFINE E(k) == MustEscape(t[k])
  <1>1. Len(t) \in Nat /\ DOMAIN t = 1 .. Len(t) /\ \A i \in 1 .. Len(t) : t[i] \in 1 .. 255
    BY ElementOfSeq
  <1>2. \A k \in 1 .. Len(t) : E(k) \in Seq(1 .. 255)
    BY <1>1, EscapeType
  <1>3. PICK ss : ss = [i \in 1 .. Len(t) |-> E(i)]
    OBVIOUS
  <1>4. FormatMetaData(t) = FlattenSeq(ss)
    BY <1>1, <1>3 DEF FormatMetaData
  <1>5. ss \in Seq(Seq(1 .. 255)) /\ Len(ss) = Len(t)
    <2>1. \A S, k, g : k \in Nat /\ g \in [1 .. k -> S] => g \in Seq(S) /\ Len(g) = k
      OBVIOUS
    <2>2. ss \in [1 .. Len(t) -> Seq(1 .. 255)]
      BY <1>2, <1>3
    <2> QED BY ONLY <1>1, <2>1, <2>2
  <1>6. CASE Len(t) = 0
    <2>1. ss = << >> /\ FlattenSeq(ss) = << >>
      BY <1>5, <1>6, EmptySeq DEF FlattenSeq
    <2>2. Places([k \in 0 .. 0 |-> 1], t, << >>)
      BY <1>6 DEF Places
    <2> QED BY <1>4, <2>1, <2>2
  <1>7. CASE Len(t) # 0
    <2>1. PICK g : Flattened(g, ss, Len(t)) /\ FlattenSeq(ss) = g[Len(t)]
      BY <1>5, <1>7, FlattenSeqIs
    <2>2. \A i \in 1 .. Len(t) : g[i] \in Seq(1 .. 255)
      BY <1>5, <2>1, FlattenedType
    <2> DEFINE G(k) == IF k = 0 THEN << >> ELSE g[k]
    <2>3. \A k \in 0 .. Len(t) : G(k) \in Seq(1 .. 255)
      BY <2>2, EmptySeq
    <2>4. ASSUME NEW k \in 0 .. Len(t) - 1 PROVE G(k + 1) = G(k) \o E(k + 1)
      <3>1. k + 1 \in 1 .. Len(t) /\ E(k + 1) \in Seq(1 .. 255) /\ ss[k + 1] = E(k + 1)
        BY <1>1, <1>2, <1>3
      <3>2. g[k + 1] = IF k + 1 = 1 THEN ss[k + 1] ELSE g[(k + 1) - 1] \o ss[k + 1]
        BY <2>1, <3>1 DEF Flattened
      <3>3. CASE k = 0
        <4>1. << >> \o E(k + 1) = E(k + 1)
          BY <3>1
        <4> QED BY <3>1, <3>2, <3>3, <4>1
      <3>4. CASE k # 0
        <4>1. (k + 1) - 1 = k /\ k + 1 # 1 /\ k + 1 # 0
          BY <3>4
        <4> QED BY <3>1, <3>2, <3>4, <4>1
      <3> QED BY <3>3, <3>4
    <2> DEFINE f == [k \in 0 .. Len(t) |-> Len(G(k)) + 1]
               Held(m, k) == /\ f[k + 1] = f[k] + Len(E(k + 1)) /\ f[k + 1] <= Len(G(m)) + 1
                             /\ Stands(G(m), f[k], E(k + 1))
               T == {m \in Nat : m <= Len(t) => \A k \in 0 .. m - 1 : Held(m, k)}
    <2>5. f \in [0 .. Len(t) -> Nat] /\ f[0] = 1 /\ f[Len(t)] = Len(g[Len(t)]) + 1
          /\ \A k \in 0 .. Len(t) : f[k] = Len(G(k)) + 1
      <3>1. \A k \in 0 .. Len(t) : Len(G(k)) \in Nat
        BY <2>3, LenProperties
      <3>2. 0 \in 0 .. Len(t) /\ Len(t) \in 0 .. Len(t)
        BY <1>1
      <3> QED BY <1>7, <3>1, <3>2, EmptySeq
    <2> HIDE DEF f, G, E
    <2>6. 0 \in T
      OBVIOUS
    <2>7. ASSUME NEW m \in T PROVE m + 1 \in T
      <3> SUFFICES ASSUME m + 1 <= Len(t), NEW k \in 0 .. (m + 1) - 1 PROVE Held(m + 1, k)
        OBVIOUS
      <3>1. m \in Nat /\ m \in 0 .. Len(t) - 1 /\ m \in 0 .. Len(t) /\ m + 1 \in 0 .. Len(t)
            /\ m + 1 \in 1 .. Len(t)
        BY <1>1
      <3>2. G(m + 1) = G(m) \o E(m + 1)
        BY <2>4, <3>1
      <3>3. G(m) \in Seq(1 .. 255) /\ E(m + 1) \in Seq(1 .. 255)
        BY <1>2, <2>3, <3>1
      <3>4. /\ Len(G(m + 1)) = Len(G(m)) + Len(E(m + 1))
            /\ Len(G(m)) \in Nat /\ Len(E(m + 1)) \in Nat
            /\ \A i \in 1 .. Len(G(m)) : G(m + 1)[i] = G(m)[i]
            /\ \A i \in 1 .. Len(E(m + 1)) : G(m + 1)[Len(G(m)) + i] = E(m + 1)[i]
        BY ONLY <3>2, <3>3, Appended
      <3>5. CASE k = m
        <4>1. f[m] = Len(G(m)) + 1 /\ f[m + 1] = Len(G(m + 1)) + 1
          BY <2>5, <3>1
        <4>2. \A i \in 1 .. Len(E(m + 1)) : f[m] + i - 1 = Len(G(m)) + i
          BY <3>4, <4>1
        <4>3. Stands(G(m + 1), f[m], E(m + 1))
          BY <3>4, <4>2 DEF Stands
        <4>4. f[m + 1] = f[m] + Len(E(m + 1)) /\ f[m + 1] <= Len(G(m + 1)) + 1
          <5>1. PICK a \in Nat : a = Len(G(m))
            BY ONLY <3>4
          <5>2. PICK b \in Nat : b = Len(E(m + 1))
            BY ONLY <3>4
          <5>3. f[m] = a + 1 /\ f[m + 1] = (a + b) + 1 /\ Len(G(m + 1)) = a + b
            BY ONLY <3>4, <4>1, <5>1, <5>2
          <5>4. (a + b) + 1 = (a + 1) + b /\ (a + b) + 1 <= (a + b) + 1
            OBVIOUS
          <5> QED BY ONLY <5>2, <5>3, <5>4
        <4>5. Held(m + 1, m)
          BY ONLY <4>3, <4>4
        <4> QED BY ONLY <3>5, <4>5
      <3>6. CASE k # m
        <4>1. k \in 0 .. m - 1
          BY <3>1, <3>6
        <4>2. Held(m, k)
          BY <3>1, <4>1
        <4>3. k \in 0 .. Len(t) /\ k + 1 \in 1 .. Len(t)
          BY <3>1, <4>1
        <4>4. f[k] \in Nat \ {0} /\ Len(E(k + 1)) \in Nat
          <5>1. Len(G(k)) \in Nat /\ f[k] = Len(G(k)) + 1
            BY <2>3, <2>5, <4>3, LenProperties
          <5>2. Len(E(k + 1)) \in Nat
            BY <1>2, <4>3, LenProperties
          <5> QED BY <5>1, <5>2
        <4>5. \A i \in 1 .. Len(E(k + 1)) : f[k] + i - 1 \in 1 .. Len(G(m))
          <5>1. \A a, b, d \in Nat : a # 0 /\ a + b <= d + 1
                                   => \A i \in 1 .. b : a + i - 1 \in 1 .. d
            OBVIOUS
          <5>2. f[k] + Len(E(k + 1)) <= Len(G(m)) + 1
            BY ONLY <4>2
          <5> QED BY ONLY <3>4, <4>4, <5>1, <5>2
        <4>6. Stands(G(m + 1), f[k], E(k + 1))
          BY <3>4, <4>2, <4>5 DEF Stands
        <4>7. f[k + 1] <= Len(G(m + 1)) + 1
          BY <3>4, <4>2, <4>4
        <4> QED BY <4>2, <4>6, <4>7
      <3> QED BY <3>5, <3>6
    <2> HIDE DEF T
    <2>8. T = Nat
      BY <2>6, <2>7, Induction DEF T
    <2>9. \A k \in 0 .. Len(t) - 1 : Held(Len(t), k)
      <3> HIDE DEF Held
      <3>1. Len(t) \in T
        BY <1>1, <2>8
      <3>2. Len(t) <= Len(t)
        BY <1>1
      <3> QED BY ONLY <3>1, <3>2 DEF T
    <2>10. G(Len(t)) = g[Len(t)]
      BY <1>7 DEF G
    <2> QED BY <1>4, <2>1, <2>5, <2>9, <2>10 DEF Places, E
  <1> QED BY <1>6, <1>7
-----------------------------------------------------------------------------
(* The loop over a title *)

TitleInit ==
    /\ entities = TRUE
    /\ \E t \in Titles : CR \notin ToSet(t) /\ Begin(FormatMetaData(t), t)
TitleSpec == TitleInit /\ [][Next]_vars

Copied(k) == \A i \in 1 .. k : buf[i] = meaning[i]
Passed(f, k) == p = f[k] /\ q = k + 1 /\ Copied(k)

TitleInv ==
    /\ entities
    /\ meaning \in Seq(1 .. 255) /\ \A i \in 1 .. Len(meaning) : meaning[i] # CR
    /\ \E f : /\ Places(f, meaning, original)
              /\ ~done => \E k \in 0 .. Len(meaning) : Passed(f, k)
    /\ done => /\ Len(meaning) + 1 <= end
               /\ Copied(Len(meaning)) /\ buf[Len(meaning) + 1] = NUL

LEMMA TitleInitInv == TitleInit => Inv /\ TitleInv
  <1> SUFFICES ASSUME TitleInit PROVE Inv /\ TitleInv
    OBVIOUS
  <1>1. PICK t \in Titles : CR \notin ToSet(t) /\ Begin(FormatMetaData(t), t)
    BY DEF TitleInit
  <1>2. Init
    BY <1>1 DEF TitleInit, Init
  <1>3. t \in Seq(1 .. 255)
    BY TitlesAssumption
  <1>4. \A i \in 1 .. Len(t) : t[i] # CR
    BY <1>1, <1>3 DEF ToSet
  <1>5. /\ ~done /\ p = 1 /\ q = 1 /\ entities
        /\ original = FormatMetaData(t) /\ meaning = t
    BY <1>1 DEF Begin, TitleInit
  <1>6. PICK f : Places(f, t, original)
    BY <1>3, <1>5, PlacesExist
  <1>7. Passed(f, 0)
    <2>1. f[0] = 1 /\ 1 .. 0 = {} /\ 0 + 1 = 1
      BY <1>6 DEF Places
    <2> QED BY <1>5, <2>1 DEF Passed, Copied
  <1>8. 0 \in 0 .. Len(t)
    BY <1>3, LenProperties
  <1> QED BY <1>2, <1>3, <1>4, <1>5, <1>6, <1>7, <1>8, InitInv DEF TitleInv

Special == {Lt, Gt, Quot, Amp, Apos}

\* What is written for c: c, or an entity of the table with its '&' and its ';'.
Escapes(e, w) ==
    /\ Len(e) = Len(w.pattern) + 2 /\ e[1] = Amp /\ e[Len(w.pattern) + 2] = Semicolon
    /\ \A i \in 1 .. Len(w.pattern) : e[i + 1] = w.pattern[i]

LEMMA EscapeIs ==
    ASSUME NEW c
    PROVE  /\ c \notin Special => MustEscape(c) = <<c>>
           /\ c \in Special => \E w \in Entity : w.value = c /\ Escapes(MustEscape(c), w)
  <1> USE DEF Amp, Lt, Gt, Quot, Apos, Semicolon
  <1>1. ASSUME c \notin Special PROVE MustEscape(c) = <<c>>
    BY <1>1 DEF Special, MustEscape
  <1>2. ASSUME c = Lt
        PROVE  \E w \in Entity : w.value = c /\ Escapes(MustEscape(c), w)
    <2>1. MustEscape(c) = <<38, 108, 116, 59>>
      BY <1>2 DEF MustEscape
    <2> DEFINE w == [pattern |-> <<108, 116>>, value |-> 60]
    <2>2. w \in Entity
      BY DEF Entity
    <2>3. Escapes(MustEscape(c), w)
      BY <2>1 DEF Escapes
    <2> QED BY <1>2, <2>2, <2>3
  <1>3. ASSUME c = Gt
        PROVE  \E w \in Entity : w.value = c /\ Escapes(MustEscape(c), w)
    <2>1. MustEscape(c) = <<38, 103, 116, 59>>
      BY <1>3 DEF MustEscape
    <2> DEFINE w == [pattern |-> <<103, 116>>, value |-> 62]
    <2>2. w \in Entity
      BY DEF Entity
    <2>3. Escapes(MustEscape(c), w)
      BY <2>1 DEF Escapes
    <2> QED BY <1>3, <2>2, <2>3
  <1>4. ASSUME c = Quot
        PROVE  \E w \in Entity : w.value = c /\ Escapes(MustEscape(c), w)
    <2>1. MustEscape(c) = <<38, 113, 117, 111, 116, 59>>
      BY <1>4 DEF MustEscape
    <2> DEFINE w == [pattern |-> <<113, 117, 111, 116>>, value |-> 34]
    <2>2. w \in Entity
      BY DEF Entity
    <2>3. Escapes(MustEscape(c), w)
      BY <2>1 DEF Escapes
    <2> QED BY <1>4, <2>2, <2>3
  <1>5. ASSUME c = Amp
        PROVE  \E w \in Entity : w.value = c /\ Escapes(MustEscape(c), w)
    <2>1. MustEscape(c) = <<38, 97, 109, 112, 59>>
      BY <1>5 DEF MustEscape
    <2> DEFINE w == [pattern |-> <<97, 109, 112>>, value |-> 38]
    <2>2. w \in Entity
      BY DEF Entity
    <2>3. Escapes(MustEscape(c), w)
      BY <2>1 DEF Escapes
    <2> QED BY <1>5, <2>2, <2>3
  <1>6. ASSUME c = Apos
        PROVE  \E w \in Entity : w.value = c /\ Escapes(MustEscape(c), w)
    <2>1. MustEscape(c) = <<38, 97, 112, 111, 115, 59>>
      BY <1>6 DEF MustEscape
    <2> DEFINE w == [pattern |-> <<97, 112, 111, 115>>, value |-> 39]
    <2>2. w \in Entity
      BY DEF Entity
    <2>3. Escapes(MustEscape(c), w)
      BY <2>1 DEF Escapes
    <2> QED BY <1>6, <2>2, <2>3
  <1> QED BY <1>1, <1>2, <1>3, <1>4, <1>5, <1>6 DEF Special

\* Two bytes tell the entities apart, and no entity begins with a '#'.
LEMMA EntitiesDiffer ==
    /\ \A v, w \in Entity : v.pattern[1] = w.pattern[1] /\ v.pattern[2] = w.pattern[2] => v = w
    /\ \A w \in Entity : Len(w.pattern) \in 2 .. 4 /\ w.pattern[1] # Hash
  BY DEF Entity, Hash

\* What the loop has before it is what stands for the next byte of the title.
LEMMA NextEscape ==
    ASSUME Inv, TitleInv, Reading, NEW f, Places(f, meaning, original),
           NEW k \in 0 .. Len(meaning), Passed(f, k)
    PROVE  /\ k + 1 \in 1 .. Len(meaning) /\ k \in Nat /\ meaning[k + 1] \in 1 .. 255
           /\ Len(MustEscape(meaning[k + 1])) \in Nat
           /\ f[k + 1] = p + Len(MustEscape(meaning[k + 1])) /\ f[k + 1] <= end
           /\ \A i \in 1 .. Len(MustEscape(meaning[k + 1])) :
                 buf[p + i - 1] = MustEscape(meaning[k + 1])[i]
  <1>1. Len(meaning) \in Nat /\ k \in Nat /\ meaning \in Seq(1 .. 255)
    BY DEF TitleInv
  <1>2. p = f[k] /\ p < end /\ f[Len(meaning)] = end
    BY Numbers DEF Passed, Reading, Places
  <1>3. k \in 0 .. Len(meaning) - 1 /\ k + 1 \in 1 .. Len(meaning)
    <2>1. k # Len(meaning)
      BY <1>2, Numbers
    <2> QED BY ONLY <1>1, <2>1, k \in 0 .. Len(meaning)
  <1>4. PICK c : c = meaning[k + 1]
    OBVIOUS
  <1>5. c \in 1 .. 255
    BY <1>1, <1>3, <1>4, ElementOfSeq
  <1>6. MustEscape(c) \in Seq(1 .. 255)
    BY <1>5, EscapeType
  <1>7. PICK e : e = MustEscape(c)
    OBVIOUS
  <1>8. Len(e) \in Nat
    BY <1>6, <1>7, LenProperties
  <1>9. f[k + 1] = f[k] + Len(e) /\ f[k + 1] <= Len(original) + 1 /\ Stands(original, f[k], e)
    BY <1>3, <1>4, <1>7 DEF Places
  <1>10. f[k + 1] = p + Len(e) /\ f[k + 1] <= end
    BY <1>2, <1>9, Numbers
  <1>11. \A i \in 1 .. Len(e) : buf[p + i - 1] = e[i]
    <2>1. \A i \in 1 .. Len(e) : p + i - 1 \in p .. end - 1
      BY <1>8, <1>10, Numbers
    <2>2. \A i \in p .. end - 1 : buf[i] = original[i]
      BY DEF Inv, Unread, Reading
    <2> QED BY <1>2, <1>9, <2>1, <2>2 DEF Stands
  <1> QED BY <1>1, <1>3, <1>4, <1>5, <1>7, <1>8, <1>10, <1>11

\* One byte is written at q.
LEMMA TurnOne ==
    ASSUME Inv, ~done, NEW n, NEW b, Turn(n, <<b>>)
    PROVE  /\ q \in 1 .. end /\ p' = p + n /\ q' = q + 1 /\ buf'[q] = b
           /\ \A i \in 1 .. end : i # q => buf'[i] = buf[i]
  <1>1. q \in 1 .. end
    <2>1. q <= p
      BY DEF Inv
    <2> QED BY <2>1, Numbers
  <1>2. buf' = [i \in 1 .. end |-> IF i \in q .. q + Len(<<b>>) - 1
                                   THEN <<b>>[i - q + 1] ELSE buf[i]]
        /\ p' = p + n /\ q' = q + Len(<<b>>)
    BY Numbers DEF Turn
  <1>3. q' = q + 1
    BY <1>2
  <1>4. buf'[q] = b
    <2>1. q \in q .. q + Len(<<b>>) - 1 /\ q - q + 1 = 1
      BY Numbers
    <2> QED BY <1>1, <1>2, <2>1
  <1>5. \A i \in 1 .. end : i # q => buf'[i] = buf[i]
    <2>1. \A i \in 1 .. end : i # q => i \notin q .. q + Len(<<b>>) - 1
      BY Numbers
    <2> QED BY <1>2, <2>1
  <1> QED BY <1>1, <1>2, <1>3, <1>4, <1>5

\* A pass that reads what stands for the next byte and writes that byte.
LEMMA PassStep ==
    ASSUME Inv, TitleInv, Reading, NEW f, Places(f, meaning, original),
           NEW k \in 0 .. Len(meaning), Passed(f, k), NEW n,
           Turn(n, <<meaning[k + 1]>>), p + n = f[k + 1],
           UNCHANGED <<end, entities, done, original, meaning>>
    PROVE  TitleInv'
  <1>1. k + 1 \in 1 .. Len(meaning) /\ k + 1 \in 0 .. Len(meaning) /\ k \in Nat
        /\ Len(meaning) \in Nat
    BY NextEscape DEF TitleInv
  <1>2. ~done /\ p < end
    BY DEF Reading
  <1>3. /\ q \in 1 .. end /\ p' = f[k + 1] /\ q' = q + 1 /\ buf'[q] = meaning[k + 1]
        /\ \A i \in 1 .. end : i # q => buf'[i] = buf[i]
    BY <1>2, TurnOne
  <1>4. q = k + 1 /\ \A i \in 1 .. k : buf[i] = meaning[i]
    BY DEF Passed, Copied
  <1>5. \A i \in 1 .. k + 1 : buf'[i] = meaning[i]
    <2>1. \A i \in 1 .. k : i \in 1 .. end /\ i # q
      BY <1>1, <1>3, <1>4, Numbers
    <2>2. \A i \in 1 .. k : buf'[i] = meaning[i]
      BY <1>3, <1>4, <2>1
    <2>3. \A i \in 1 .. k + 1 : i \in 1 .. k \/ i = k + 1
      BY <1>1
    <2> QED BY <1>3, <1>4, <2>2, <2>3
  <1>6. p' = f[k + 1] /\ q' = (k + 1) + 1 /\ \A i \in 1 .. k + 1 : buf'[i] = meaning'[i]
    BY <1>3, <1>4, <1>5
  <1>7. Passed(f, k + 1)'
    BY <1>6 DEF Passed, Copied
  <1>8. \E j \in 0 .. Len(meaning) : Passed(f, j)'
    BY <1>1, <1>7
  <1>9. Places(f, meaning', original')
    OBVIOUS
  <1> QED BY <1>2, <1>8, <1>9 DEF TitleInv

\* A byte that is not escaped is there as it is; it is one that is read.
LEMMA PlainNext ==
    ASSUME Inv, TitleInv, Reading, NEW f, Places(f, meaning, original),
           NEW k \in 0 .. Len(meaning), Passed(f, k), meaning[k + 1] \notin Special
    PROVE  buf[p] = meaning[k + 1] /\ f[k + 1] = p + 1 /\ buf[p] # Amp
  <1>1. PICK e : e = MustEscape(meaning[k + 1])
    OBVIOUS
  <1>2. f[k + 1] = p + Len(e) /\ \A i \in 1 .. Len(e) : buf[p + i - 1] = e[i]
    BY <1>1, NextEscape
  <1>3. e = <<meaning[k + 1]>>
    BY <1>1, EscapeIs
  <1>4. Len(e) = 1 /\ e[1] = meaning[k + 1]
    BY ONLY <1>3
  <1>5. p + 1 - 1 = p /\ 1 \in 1 .. 1
    BY Numbers
  <1>6. buf[p] = meaning[k + 1] /\ f[k + 1] = p + 1
    BY ONLY <1>2, <1>4, <1>5
  <1> QED BY <1>6 DEF Special

\* The entity of a byte that is: it is the one the table gives.
LEMMA EntityNext ==
    ASSUME Inv, TitleInv, Reading, NEW f, Places(f, meaning, original),
           NEW k \in 0 .. Len(meaning), Passed(f, k), meaning[k + 1] \in Special
    PROVE  /\ buf[p] = Amp /\ buf[p + 1] # Hash
           /\ \E w \in Entity : /\ Matching = {w} /\ w.value = meaning[k + 1]
                                /\ f[k + 1] = p + (Len(w.pattern) + 2)
  <1>1. PICK e : e = MustEscape(meaning[k + 1])
    OBVIOUS
  <1>2. PICK w \in Entity : w.value = meaning[k + 1] /\ Escapes(e, w)
    BY <1>1, EscapeIs
  <1>3. PICK n : n = Len(w.pattern)
    OBVIOUS
  <1>4. n \in 2 .. 4 /\ n \in Nat /\ 2 <= n /\ w.pattern[1] # Hash
    <2>1. n \in 2 .. 4 /\ w.pattern[1] # Hash
      BY <1>3, EntitiesDiffer
    <2>2. \A i \in 2 .. 4 : i \in Nat /\ 2 <= i
      OBVIOUS
    <2> QED BY ONLY <2>1, <2>2
  <1>5. /\ Len(e) = n + 2 /\ f[k + 1] = p + (n + 2) /\ f[k + 1] <= end
        /\ \A i \in 1 .. n + 2 : buf[p + i - 1] = e[i]
    <2>1. Len(e) = n + 2
      BY <1>2, <1>3 DEF Escapes
    <2>2. /\ f[k + 1] = p + Len(e) /\ f[k + 1] <= end
          /\ \A i \in 1 .. Len(e) : buf[p + i - 1] = e[i]
      BY <1>1, NextEscape
    <2> QED BY ONLY <2>1, <2>2
  <1>6. /\ e[1] = Amp /\ e[n + 2] = Semicolon
        /\ \A i \in 1 .. n : e[i + 1] = w.pattern[i]
    BY <1>2, <1>3 DEF Escapes
  <1>7. buf[p] = Amp
    <2>1. 1 \in 1 .. n + 2 /\ p + 1 - 1 = p
      BY <1>4, Numbers
    <2> QED BY ONLY <1>5, <1>6, <2>1
  <1>8. \A i \in 1 .. n : buf[p + i] = w.pattern[i]
    <2>1. \A i \in 1 .. n : i + 1 \in 1 .. n + 2 /\ p + (i + 1) - 1 = p + i
      BY <1>4, Numbers
    <2> QED BY ONLY <1>5, <1>6, <2>1
  <1>9. buf[p + (n + 1)] = Semicolon
    <2>1. n + 2 \in 1 .. n + 2 /\ p + (n + 2) - 1 = p + (n + 1)
      BY <1>4, Numbers
    <2> QED BY ONLY <1>5, <1>6, <2>1
  <1>10. PICK t : t = SubSeq(buf, p + 1, Len(buf))
    OBVIOUS
  <1>11. Len(t) = end - p /\ \A i \in 1 .. end - p : t[i] = buf[p + i]
    BY <1>10, RestIs
  <1>12. n + 1 <= end - p /\ end - p \in Nat
    BY <1>4, <1>5, Numbers
  <1>13. w \in Matching
    <2>1. PICK W : W = Append(w.pattern, Semicolon)
      OBVIOUS
    <2>2. Len(W) = n + 1 /\ W[n + 1] = Semicolon /\ \A i \in 1 .. n : W[i] = w.pattern[i]
      BY <1>2, <1>3, <2>1 DEF Entity
    <2>3. \A i \in 1 .. n + 1 : i \in 1 .. end - p /\ (i \in 1 .. n \/ i = n + 1)
      BY <1>4, <1>12
    <2>4. \A i \in 1 .. n + 1 : W[i] = t[i]
      BY ONLY <1>8, <1>9, <1>11, <2>2, <2>3
    <2>5. SubSeq(W, 1, n + 1) = SubSeq(t, 1, n + 1)
      BY <1>4, <2>4
    <2>6. Len(W) <= Len(t) /\ SubSeq(W, 1, Len(W)) = SubSeq(t, 1, Len(W))
      BY ONLY <1>11, <1>12, <2>2, <2>5
    <2>7. IsPrefix(W, t)
      BY <2>6 DEF IsPrefix
    <2> QED BY <1>10, <2>1, <2>7 DEF Matching
  <1>14. ASSUME NEW v \in Matching PROVE v = w
    <2>1. v \in Entity /\ IsPrefix(Append(v.pattern, Semicolon), t)
      BY <1>10 DEF Matching
    <2>2. PICK V : V = Append(v.pattern, Semicolon)
      OBVIOUS
    <2>3. Len(V) \in Nat /\ 3 <= Len(V) /\ V[1] = v.pattern[1] /\ V[2] = v.pattern[2]
      BY <2>1, <2>2 DEF Entity
    <2>4. SubSeq(V, 1, Len(V)) = SubSeq(t, 1, Len(V))
      BY <2>1, <2>2 DEF IsPrefix
    <2>5. \A x : \A i \in 1 .. Len(V) : SubSeq(x, 1, Len(V))[i] = x[i]
      BY <2>3
    <2>6. 1 \in 1 .. Len(V) /\ 2 \in 1 .. Len(V)
      BY <2>3
    <2>7. V[1] = t[1] /\ V[2] = t[2]
      BY ONLY <2>4, <2>5, <2>6
    <2>8. 1 \in 1 .. n /\ 2 \in 1 .. n /\ 1 \in 1 .. end - p /\ 2 \in 1 .. end - p
      BY <1>4, <1>12
    <2>9. t[1] = w.pattern[1] /\ t[2] = w.pattern[2]
      BY ONLY <1>8, <1>11, <2>8
    <2> QED BY ONLY <2>1, <2>3, <2>7, <2>9, w \in Entity, EntitiesDiffer
  <1>15. buf[p + 1] # Hash
    <2>1. 1 \in 1 .. n
      BY <1>4
    <2> QED BY <1>4, <1>8, <2>1
  <1>16. Matching = {w}
    BY <1>13, <1>14
  <1> QED BY <1>2, <1>3, <1>5, <1>7, <1>15, <1>16

\* Every pass over a title is one of these.
LEMMA ReadStep ==
    ASSUME Inv, TitleInv, Reading, Next
    PROVE  TitleInv'
  <1>1. ~done /\ p < end /\ entities /\ ~Finish
    <2>1. ~done /\ p < end /\ entities
      BY DEF Reading, TitleInv
    <2>2. ~(p >= end)
      BY <2>1, Numbers
    <2>3. ~Finish
      BY ONLY <2>2 DEF Finish
    <2> QED BY <2>1, <2>3
  <1>2. PICK f : Places(f, meaning, original) /\ \E k \in 0 .. Len(meaning) : Passed(f, k)
    BY <1>1 DEF TitleInv
  <1>3. PICK k \in 0 .. Len(meaning) : Passed(f, k)
    BY <1>2
  <1>4. /\ k + 1 \in 1 .. Len(meaning) /\ f[k + 1] <= end
    BY <1>2, <1>3, NextEscape
  <1>5. meaning[k + 1] # CR
    BY <1>4 DEF TitleInv
  <1>6. CASE meaning[k + 1] \notin Special
    <2>1. buf[p] = meaning[k + 1] /\ f[k + 1] = p + 1 /\ ~AtEntity
      BY <1>2, <1>3, <1>6, PlainNext DEF AtEntity
    <2>2. CASE NormalizeNewline
      <3>1. buf[p] = LF
        BY <1>5, <2>1, <2>2 DEF NormalizeNewline, AtNewline
      <3>2. buf[p + 1] # CR
        <4>1. CASE p + 1 = end
          BY <1>1, <4>1 DEF Inv, NUL, CR
        <4>2. CASE p + 1 # end
          <5>1. /\ p + 1 < end /\ p + 1 \in p .. end - 1
            BY <1>1, <4>2, Numbers
          <5>2. k + 1 # Len(meaning)
            BY <1>2, <2>1, <4>2, Numbers DEF Places
          <5>3. Len(meaning) \in Nat /\ k \in Nat
            BY <1>3 DEF TitleInv
          <5>4. /\ k + 1 \in 0 .. Len(meaning) - 1 /\ (k + 1) + 1 \in 1 .. Len(meaning)
            BY <1>4, <5>2, <5>3
          <5>5. PICK c : c = meaning[(k + 1) + 1]
            OBVIOUS
          <5>6. c # CR
            BY <5>4, <5>5 DEF TitleInv
          <5>7. Stands(original, p + 1, MustEscape(c))
            BY <1>2, <2>1, <5>4, <5>5 DEF Places
          <5>8. 1 \in 1 .. Len(MustEscape(c)) /\ MustEscape(c)[1] # CR
            <6>1. CASE c \notin Special
              <7>1. MustEscape(c) = <<c>>
                BY <6>1, EscapeIs
              <7> QED BY <5>6, <7>1
            <6>2. CASE c \in Special
              <7>1. PICK w \in Entity : Escapes(MustEscape(c), w)
                BY <6>2, EscapeIs
              <7>2. Len(MustEscape(c)) = Len(w.pattern) + 2 /\ MustEscape(c)[1] = Amp
                BY <7>1 DEF Escapes
              <7>3. Len(w.pattern) \in 2 .. 4
                BY EntitiesDiffer
              <7> QED BY <7>2, <7>3 DEF Amp, CR
            <6> QED BY <6>1, <6>2
          <5>9. original[(p + 1) + 1 - 1] # CR
            BY <5>7, <5>8 DEF Stands
          <5>10. (p + 1) + 1 - 1 = p + 1
            BY Numbers
          <5> QED BY <1>1, <5>1, <5>9, <5>10 DEF Inv, Unread
        <4> QED BY <4>1, <4>2
      <3>3. Turn(1, <<LF>>) /\ UNCHANGED <<end, entities, done, original, meaning>>
        BY <2>2, <3>1, <3>2 DEF NormalizeNewline, LF, CR
      <3> QED BY <1>2, <1>3, <2>1, <3>1, <3>3, PassStep
    <2>3. CASE Copy
      <3>1. Turn(1, <<buf[p]>>) /\ UNCHANGED <<end, entities, done, original, meaning>>
        BY <2>3 DEF Copy
      <3> QED BY <1>2, <1>3, <2>1, <3>1, PassStep
    <2>4. ~CharacterRef /\ ~NoRef /\ ~EntityFound /\ ~EntityUnknown
      BY <2>1 DEF CharacterRef, NoRef, EntityFound, EntityUnknown
    <2> QED BY <1>1, <2>2, <2>3, <2>4 DEF Next
  <1>7. CASE meaning[k + 1] \in Special
    <2>1. PICK w \in Entity :
            /\ buf[p] = Amp /\ buf[p + 1] # Hash
            /\ Matching = {w} /\ w.value = meaning[k + 1]
            /\ f[k + 1] = p + (Len(w.pattern) + 2)
      BY <1>2, <1>3, <1>7, EntityNext
    <2>2. CASE EntityFound
      <3>1. PICK v \in Matching : Turn(Len(v.pattern) + 2, <<v.value>>)
                                  /\ UNCHANGED <<end, entities, done, original, meaning>>
        BY <2>2 DEF EntityFound
      <3>2. v = w
        BY <2>1
      <3>3. PICK n : n = Len(w.pattern) + 2
        OBVIOUS
      <3>4. Turn(n, <<meaning[k + 1]>>) /\ p + n = f[k + 1]
        BY <2>1, <3>1, <3>2, <3>3
      <3> QED BY <1>2, <1>3, <3>1, <3>4, PassStep
    <2>3. ~NormalizeNewline
      BY <2>1 DEF NormalizeNewline, AtNewline, Amp, LF, CR
    <2>4. ~Copy /\ ~CharacterRef /\ ~NoRef /\ ~EntityUnknown
      BY <1>1, <2>1 DEF Copy, AtEntity, CharacterRef, IsRef, NoRef, EntityUnknown
    <2> QED BY <1>1, <2>2, <2>3, <2>4 DEF Next
  <1> QED BY <1>6, <1>7

\* At the end the whole title is there, and the NUL after it.
LEMMA FinishTitle ==
    ASSUME Inv, TitleInv, Finish
    PROVE  TitleInv'
  <1>1. ~done /\ p >= end /\ Turn(0, <<NUL>>) /\ done'
        /\ UNCHANGED <<end, entities, original, meaning>>
    BY DEF Finish
  <1>2. PICK f : Places(f, meaning, original) /\ \E k \in 0 .. Len(meaning) : Passed(f, k)
    BY <1>1 DEF TitleInv
  <1>3. PICK k \in 0 .. Len(meaning) : Passed(f, k)
    BY <1>2
  <1>4. Len(meaning) \in Nat /\ meaning \in Seq(1 .. 255)
    BY DEF TitleInv
  <1>5. p = end /\ end = Len(original) + 1
    BY <1>1, Numbers
  <1>6. k = Len(meaning)
    <2> SUFFICES ASSUME k # Len(meaning) PROVE FALSE
      OBVIOUS
    <2>1. k \in 0 .. Len(meaning) - 1 /\ k + 1 \in 1 .. Len(meaning)
      BY <1>4
    <2>2. PICK c : c = meaning[k + 1]
      OBVIOUS
    <2>3. f[k + 1] = f[k] + Len(MustEscape(c)) /\ f[k + 1] <= end
      BY <1>2, <1>5, <2>1, <2>2 DEF Places
    <2>4. Len(MustEscape(c)) \in Nat \ {0}
      <3>1. CASE c \notin Special
        <4>1. MustEscape(c) = <<c>>
          BY <3>1, EscapeIs
        <4> QED BY <4>1
      <3>2. CASE c \in Special
        <4>1. PICK w \in Entity : Escapes(MustEscape(c), w)
          BY <3>2, EscapeIs
        <4>2. Len(MustEscape(c)) = Len(w.pattern) + 2
          BY <4>1 DEF Escapes
        <4>3. Len(w.pattern) \in 2 .. 4
          BY EntitiesDiffer
        <4> QED BY <4>2, <4>3
      <3> QED BY <3>1, <3>2
    <2>5. f[k] = end
      BY <1>3, <1>5 DEF Passed
    <2> QED BY <2>3, <2>4, <2>5, Numbers
  <1>7. /\ q \in 1 .. end /\ buf'[q] = NUL
        /\ \A i \in 1 .. end : i # q => buf'[i] = buf[i]
    BY <1>1, TurnOne
  <1>8. q = Len(meaning) + 1 /\ \A i \in 1 .. Len(meaning) : buf[i] = meaning[i]
    BY <1>3, <1>6 DEF Passed, Copied
  <1>9. \A i \in 1 .. Len(meaning) : buf'[i] = meaning[i]
    <2>1. \A i \in 1 .. Len(meaning) : i \in 1 .. end /\ i # q
      BY <1>4, <1>7, <1>8, Numbers
    <2> QED BY <1>7, <1>8, <2>1
  <1>10. Len(meaning') + 1 <= end' /\ buf'[Len(meaning') + 1] = NUL /\ Copied(Len(meaning))'
    <2>1. Len(meaning) + 1 <= end
      BY <1>7, <1>8, Numbers
    <2>2. Copied(Len(meaning))'
      BY <1>1, <1>9 DEF Copied
    <2> QED BY <1>1, <1>7, <1>8, <2>1, <2>2
  <1>11. Places(f, meaning', original')
    BY <1>1, <1>2
  <1> QED BY <1>1, <1>10, <1>11 DEF TitleInv

LEMMA TitleInvariance == Inv /\ TitleInv /\ [Next]_vars => TitleInv'
  <1> SUFFICES ASSUME Inv, TitleInv, [Next]_vars PROVE TitleInv'
    OBVIOUS
  <1>1. CASE UNCHANGED vars
    BY <1>1 DEF vars, TitleInv, Passed, Copied
  <1>2. CASE Next /\ Reading
    BY <1>2, ReadStep
  <1>3. CASE Next /\ ~Reading
    <2>1. Finish
      BY <1>3 DEF Next, NormalizeNewline, Copy, CharacterRef, NoRef, EntityFound, EntityUnknown
    <2> QED BY <2>1, FinishTitle
  <1> QED BY <1>1, <1>2, <1>3

\* The C string before the first NUL.
LEMMA CStringIs ==
    ASSUME NEW s \in Seq(0 .. 255), NEW n \in Nat, n + 1 <= Len(s), s[n + 1] = NUL,
           \A i \in 1 .. n : s[i] # NUL
    PROVE  CString(s) = SubSeq(s, 1, n)
  <1> DEFINE nuls == {i \in DOMAIN s : s[i] = NUL}
  <1>1. n + 1 \in nuls
    OBVIOUS
  <1>2. \A j \in nuls : n + 1 <= j
    OBVIOUS
  <1>3. \A i \in nuls : (\A j \in nuls : i <= j) => i = n + 1
    <2> SUFFICES ASSUME NEW i \in nuls, \A j \in nuls : i <= j PROVE i = n + 1
      OBVIOUS
    <2>1. i <= n + 1 /\ n + 1 <= i /\ i \in Nat
      BY <1>1, <1>2
    <2> QED BY ONLY <2>1, n \in Nat
  <1> HIDE DEF nuls
  <1>4. (CHOOSE i \in nuls : \A j \in nuls : i <= j) = n + 1
    BY <1>1, <1>2, <1>3
  <1>5. CString(s) = SubSeq(s, 1, (n + 1) - 1)
    BY <1>1, <1>4 DEF CString, nuls
  <1> QED BY <1>5

LEMMA TitleFollows == Inv /\ TitleInv => DecodedIsMeaning
  <1> SUFFICES ASSUME Inv, TitleInv, done PROVE CString(buf) = CString(meaning)
    BY DEF DecodedIsMeaning
  <1>1. meaning \in Seq(1 .. 255) /\ Len(meaning) \in Nat
        /\ \A i \in 1 .. Len(meaning) : meaning[i] \in 1 .. 255
    BY ElementOfSeq DEF TitleInv
  <1>2. /\ Len(meaning) + 1 <= Len(buf) /\ buf[Len(meaning) + 1] = NUL
        /\ \A i \in 1 .. Len(meaning) : buf[i] = meaning[i]
    BY Numbers DEF TitleInv, Copied
  <1>3. \A i \in 1 .. Len(meaning) : buf[i] # NUL
    <2>1. \A b \in 1 .. 255 : b # NUL
      BY DEF NUL
    <2> QED BY ONLY <1>1, <1>2, <2>1
  <1>4. buf \in Seq(0 .. 255)
    BY DEF Inv, TypeOK
  <1>5. PICK n \in Nat : n = Len(meaning)
    BY <1>1
  <1>6. CString(buf) = SubSeq(buf, 1, n)
    BY <1>2, <1>3, <1>4, <1>5, CStringIs
  <1>7. SubSeq(buf, 1, n) = meaning
    <2>1. SubSeq(buf, 1, n) = SubSeq(meaning, 1, n)
      BY <1>2, <1>5
    <2>2. SubSeq(meaning, 1, n) = meaning
      BY <1>1, <1>5
    <2> QED BY <2>1, <2>2
  <1>8. CString(meaning) = meaning
    <2>1. {i \in DOMAIN meaning : meaning[i] = NUL} = {}
      <3>1. \A b \in 1 .. 255 : b # NUL
        BY DEF NUL
      <3>2. DOMAIN meaning = 1 .. Len(meaning)
        BY <1>1
      <3> QED BY ONLY <1>1, <3>1, <3>2
    <2> QED BY <2>1 DEF CString
  <1> QED BY <1>6, <1>7, <1>8

\* What FormatMetaData() escapes, GetStr() reads back: every title of any length,
\* its entities in any order and titles that look like entities themselves, as
\* long as there is no carriage return in it, which XML takes for a line feed.
THEOREM TitleRoundTrip == TitleSpec => []DecodedIsMeaning
  <1>1. Inv /\ TitleInv /\ [Next]_vars => (Inv /\ TitleInv)'
    BY Invariance, TitleInvariance
  <1>2. TitleSpec => [](Inv /\ TitleInv)
    BY <1>1, TitleInitInv, PTL DEF TitleSpec
  <1> QED BY <1>2, TitleFollows, PTL
-----------------------------------------------------------------------------
(* Documents: the invariant *)

Addresses == Pools \X Nat
AttrNames == UNION {UNION {Range(d[j].attrs) : j \in {i \in DOMAIN d : d[i].kind \in {"open", "empty"}}} :
                     d \in Documents}
Fields == [parent : Addresses \cup {Doc, Null}, first : Addresses \cup {Null},
           last : Addresses \cup {Null}, prev : Addresses \cup {Null},
           next : Addresses \cup {Null}, value : Nat,
           closing : {"none", "open", "closed", "closing"}, attrs : Seq(AttrNames)]

ParseTypes ==
    /\ text \in Documents
    /\ pc \in {"start", "loop", "handle", "return", "delete", "clearPools", "walk", "done"}
    /\ pos \in Nat /\ 1 <= pos /\ pos <= Len(text) + 1
    /\ frames \in Seq(Addresses \cup {Doc}) /\ frames # << >> /\ frames[1] = Doc
    /\ cur \in Addresses \cup {Null}
    /\ result.ok \in BOOLEAN
    /\ errorID \in {"none", "empty", "text", "cdata", "comment", "attribute", "mismatch", "parsing"}
HeapTypes ==
    /\ node \in [DOMAIN node -> Fields]
    /\ DOMAIN node \subseteq Addresses \cup {Doc} /\ Doc \in DOMAIN node
    /\ IsFiniteSet(DOMAIN node)
PoolTypes ==
    /\ free \in [Pools -> Seq(Addresses)] /\ blocks \in [Pools -> Nat]
    /\ currentAllocs \in [Pools -> Int] /\ untracked \in [Pools -> Int] /\ attrAllocs \in Int
WalkTypes ==
    /\ deleting \in Seq(Addresses \cup {Doc}) /\ after \in {"none", "return", "clearPools", "done"}
    /\ level \in Nat /\ 1 <= level /\ level <= Len(Path)
    /\ cursor \in DOMAIN node \cup {Null}
    /\ crash \in {"none", "nullString"}
DocumentTypeInv == ParseTypes /\ HeapTypes /\ PoolTypes /\ WalkTypes

\* The lists of a heap
Links(h) == \A c \in DOMAIN h :
    /\ h[c].first # Null => /\ h[c].first \in DOMAIN h /\ h[h[c].first].parent = c
                            /\ h[h[c].first].prev = Null
    /\ h[c].last # Null => /\ h[c].last \in DOMAIN h /\ h[h[c].last].parent = c
                           /\ h[h[c].last].next = Null
    /\ h[c].parent # Null =>
         /\ h[c].parent \in DOMAIN h /\ h[h[c].parent].value < h[c].value
         /\ h[c].next # Null => /\ h[c].next \in DOMAIN h /\ h[h[c].next].parent = h[c].parent
                                /\ h[h[c].next].prev = c /\ h[c].value < h[h[c].next].value
         /\ h[c].prev # Null => /\ h[c].prev \in DOMAIN h /\ h[h[c].prev].parent = h[c].parent
                                /\ h[h[c].prev].next = c
         /\ h[c].next = Null => h[h[c].parent].last = c
         /\ h[c].prev = Null => h[h[c].parent].first = c

Hands == Range(frames) \cup {cur} \cup Range(deleting)
HandsInv ==
    /\ \A x \in DOMAIN node : node[x].parent = Null <=> x \in Hands
    /\ Hands \subseteq DOMAIN node \cup {Null}
    /\ IsInjective(frames) /\ IsInjective(deleting)
    /\ cur \notin Range(frames)
    /\ Range(frames) \cap Range(deleting) \subseteq {Doc}

ValueInv ==
    /\ \A x \in DOMAIN node : node[x].value < pos
    /\ \A j \in 1 .. Len(frames) - 1 :
         /\ node[frames[j]].value < node[frames[j + 1]].value
         /\ \A x \in DOMAIN node : node[x].parent = frames[j] => node[x].value < node[frames[j + 1]].value
    /\ cur # Null =>
         /\ node[Last(frames)].value < node[cur].value
         /\ \A x \in DOMAIN node : node[x].parent = Last(frames) => node[x].value < node[cur].value

PhaseInv ==
    /\ cur # Null <=> pc = "handle"
    /\ pc # "delete" => deleting = << >> /\ after = "none"
    /\ pc = "delete" => after # "none"
    /\ after = "return" => Doc \notin Range(deleting)
    /\ after \in {"clearPools", "done"} => deleting # << >> /\ deleting[1] = Doc
    /\ pc \in {"start", "walk", "clearPools", "done"} \/ after \in {"clearPools", "done"} =>
         frames = <<Doc>>
    /\ pc = "start" \/ pc = "clearPools" \/ (pc = "done" /\ crash = "none") => Nodes = {}
    /\ pc = "start" \/ pc = "walk" \/ after = "done" => errorID = "none"
    /\ crash # "none" => pc = "done"
    /\ cursor # Null => pc \in {"walk", "done"}
    /\ cursor # Doc

NodesOf(k) == {x \in Nodes : PoolOf(x) = k}
PoolInv ==
    /\ \A k \in Pools :
         /\ IsInjective(free[k])
         /\ Range(free[k]) \cap Nodes = {}
         /\ Range(free[k]) \cup NodesOf(k) = Chunks(k)
         /\ Cardinality(NodesOf(k)) = currentAllocs[k]
         /\ Len(free[k]) + currentAllocs[k] = blocks[k] * Count
    /\ \A x \in Nodes : node[x].closing # "none" => PoolOf(x) = "element"

\* Attributes of nodes of which ~XMLElement() has not freed them
Owners == Nodes \ Range(deleting)
AttrChunks == {y \in Owners \X Nat : y[2] \in 1 .. Len(node[y[1]].attrs)}
AttrInv == IsFiniteSet(AttrChunks) /\ attrAllocs = Cardinality(AttrChunks)

Unfinished(k) == {x \in Range(Tail(frames)) \cup ({cur} \ {Null}) : PoolOf(x) = k}
UntrackedInv ==
    /\ errorID = "none" => \A k \in Pools : untracked[k] = Cardinality(Unfinished(k))
    /\ pc = "done" => \A k \in Pools : untracked[k] = 0

DocumentInv ==
    /\ DocumentTypeInv /\ Links(node) /\ HandsInv /\ ValueInv /\ PhaseInv
    /\ PoolInv /\ AttrInv /\ UntrackedInv
-----------------------------------------------------------------------------
(* Documents: the lists of children *)

\* A heap: nodes with fields, of which Null is none, of tokens up to n
Heap(h, n) == /\ h \in [DOMAIN h -> Fields]
              /\ DOMAIN h \subseteq Addresses \cup {Doc} /\ Null \notin DOMAIN h
              /\ n \in Nat /\ \A c \in DOMAIN h : h[c].value <= n

LEMMA FieldTypes ==
    ASSUME NEW h, NEW n, Heap(h, n), NEW c \in DOMAIN h
    PROVE  /\ h[c].parent \in Addresses \cup {Doc, Null}
           /\ h[c].first \in Addresses \cup {Null} /\ h[c].last \in Addresses \cup {Null}
           /\ h[c].prev \in Addresses \cup {Null} /\ h[c].next \in Addresses \cup {Null}
           /\ h[c].value \in Nat /\ h[c].value <= n
           /\ h[c].closing \in {"none", "open", "closed", "closing"}
           /\ h[c].attrs \in Seq(AttrNames) /\ c # Null /\ h[c] \in Fields
  <1>1. h[c] \in Fields /\ c # Null /\ h[c].value <= n
    BY DEF Heap
  <1> QED BY <1>1 DEF Fields

\* A node with a child has a first child, which is its eldest, and a last one, its
\* youngest.
LEMMA EldestIsFirst ==
    ASSUME NEW h, NEW n, Heap(h, n), Links(h), NEW c \in DOMAIN h, h[c].parent # Null
    PROVE  LET x == h[c].parent IN h[x].first # Null /\ h[h[x].first].value <= h[c].value
  <1> DEFINE x == h[c].parent
             C == {d \in DOMAIN h : h[d].parent = x}
             T == {h[d].value : d \in C}
  <1>1. T \subseteq Nat
    BY FieldTypes
  <1>2. h[c].value \in T
    OBVIOUS
  <1>3. PICK m \in T : \A y \in T : m <= y
    BY <1>1, <1>2, LeastNumber
  <1>4. PICK d \in C : m = h[d].value
    OBVIOUS
  <1>5. h[d].prev = Null
    <2> SUFFICES ASSUME h[d].prev # Null PROVE FALSE
      OBVIOUS
    <2> DEFINE e == h[d].prev
    <2>1. e \in DOMAIN h /\ h[e].parent = x /\ h[e].next = d
      BY DEF Links
    <2>2. h[e].value < h[d].value
      BY <2>1, FieldTypes DEF Links
    <2>3. h[d].value <= h[e].value
      BY <1>3, <1>4, <2>1
    <2> QED BY <2>1, <2>2, <2>3, FieldTypes
  <1>6. h[x].first = d
    BY <1>5 DEF Links
  <1> QED BY <1>2, <1>3, <1>4, <1>6, FieldTypes

LEMMA YoungestIsLast ==
    ASSUME NEW h, NEW n, Heap(h, n), Links(h), NEW c \in DOMAIN h, h[c].parent # Null
    PROVE  LET x == h[c].parent IN h[x].last # Null /\ h[c].value <= h[h[x].last].value
  <1> DEFINE x == h[c].parent
             C == {d \in DOMAIN h : h[d].parent = x}
             T == {h[d].value : d \in C}
  <1>1. T \subseteq Nat /\ n \in Nat /\ \A y \in T : y <= n
    BY FieldTypes DEF Heap
  <1>2. h[c].value \in T
    OBVIOUS
  <1>3. PICK m \in T : \A y \in T : y <= m
    BY <1>1, <1>2, GreatestNumber
  <1>4. PICK d \in C : m = h[d].value
    OBVIOUS
  <1>5. h[d].next = Null
    <2> SUFFICES ASSUME h[d].next # Null PROVE FALSE
      OBVIOUS
    <2> DEFINE e == h[d].next
    <2>1. e \in DOMAIN h /\ h[e].parent = x /\ h[d].value < h[e].value
      BY DEF Links
    <2>2. h[e].value <= h[d].value
      BY <1>3, <1>4, <2>1
    <2> QED BY <2>1, <2>2, FieldTypes
  <1>6. h[x].last = d
    BY <1>5 DEF Links
  <1> QED BY <1>2, <1>3, <1>4, <1>6, FieldTypes

\* A node that is the first and the last child is the only one.
\* A new node
LEMMA MakeKeepsLinks ==
    ASSUME NEW h, NEW n, Heap(h, n), Links(h), NEW x, x \notin DOMAIN h, x # Null,
           NEW f, f.parent = Null, f.first = Null, f.last = Null
    PROVE  Links([y \in DOMAIN h \cup {x} |-> IF y = x THEN f ELSE h[y]])
  <1> DEFINE g == [y \in DOMAIN h \cup {x} |-> IF y = x THEN f ELSE h[y]]
  <1>1. DOMAIN g = DOMAIN h \cup {x} /\ g[x] = f /\ \A y \in DOMAIN h : g[y] = h[y]
    OBVIOUS
  <1> HIDE DEF g
  <1> QED BY <1>1 DEF Links

LEMMA FreeKeepsLinks ==
    ASSUME NEW h, NEW n, Heap(h, n), Links(h), NEW x \in DOMAIN h,
           h[x].parent = Null, h[x].first = Null
    PROVE  Links([y \in DOMAIN h \ {x} |-> h[y]])
  <1> DEFINE g == [y \in DOMAIN h \ {x} |-> h[y]]
  <1>1. DOMAIN g = DOMAIN h \ {x} /\ \A y \in DOMAIN g : g[y] = h[y]
    OBVIOUS
  <1> HIDE DEF g
  <1>2. \A y \in DOMAIN h : h[y].parent # x
    BY EldestIsFirst, FieldTypes
  <1>3. \A y \in DOMAIN h : /\ h[y].first # x /\ h[y].last # x
                            /\ h[y].parent # Null => h[y].prev # x /\ h[y].next # x
    BY FieldTypes DEF Links
  <1>4. \A y \in DOMAIN h : h[y].parent # Null => h[y].parent \in DOMAIN g
    BY <1>1, <1>2 DEF Links
  <1>5. \A y \in DOMAIN h :
          /\ h[y].first # Null => h[y].first \in DOMAIN g
          /\ h[y].last # Null => h[y].last \in DOMAIN g
          /\ h[y].parent # Null => /\ h[y].prev # Null => h[y].prev \in DOMAIN g
                                   /\ h[y].next # Null => h[y].next \in DOMAIN g
    BY <1>1, <1>3 DEF Links
  <1> QED BY <1>1, <1>4, <1>5 DEF Links

\* What InsertEndChild() does, field by field
Inserted(g, h, owner, c) ==
    /\ DOMAIN g = DOMAIN h
    /\ \A y \in DOMAIN h :
         /\ g[y].first = IF y = owner /\ h[owner].last = Null THEN c ELSE h[y].first
         /\ g[y].last = IF y = owner THEN c ELSE h[y].last
         /\ g[y].next = IF y = h[owner].last THEN c ELSE IF y = c THEN Null ELSE h[y].next
         /\ g[y].prev = IF y = c THEN h[owner].last ELSE h[y].prev
         /\ g[y].parent = IF y = c THEN owner ELSE h[y].parent
         /\ g[y].value = h[y].value /\ g[y].closing = h[y].closing /\ g[y].attrs = h[y].attrs

LEMMA InsertFields ==
    ASSUME NEW h, NEW n, Heap(h, n), Links(h), NEW owner \in DOMAIN h, NEW c \in DOMAIN h, owner # c,
           h[c].parent = Null, c # Doc, NEW g, g = InsertEndChild(h, owner, c)
    PROVE  Heap(g, n) /\ Inserted(g, h, owner, c) /\ h[owner].last # owner /\ h[owner].last # c
  <1> DEFINE last == h[owner].last
  <1>0. PICK first : first = IF h[owner].last = Null THEN c ELSE h[owner].first
    OBVIOUS
  <1>1. last # owner /\ last # c
    <2>1. ASSUME last = owner PROVE FALSE
      <3>1. last # Null
        BY <2>1 DEF Heap
      <3>2. h[owner].parent = owner
        BY <2>1, <3>1 DEF Links
      <3>3. owner # Null
        BY DEF Heap
      <3> QED BY <3>2, <3>3, FieldTypes DEF Links
    <2>2. ASSUME last = c PROVE FALSE
      <3>1. last # Null /\ owner # Null
        BY <2>2 DEF Heap
      <3> QED BY <2>2, <3>1 DEF Links
    <2> QED BY <2>1, <2>2
  <1>2. DOMAIN g = DOMAIN h
    BY DEF InsertEndChild
  <1>3. g[owner] = [h[owner] EXCEPT !.first = first, !.last = c]
    <2>1. g[owner] = [h[owner] EXCEPT !.first = IF h[owner].last = Null THEN c ELSE @, !.last = c]
      BY <1>1 DEF InsertEndChild
    <2>2. CASE h[owner].last = Null
      <3>1. g[owner] = [h[owner] EXCEPT !.first = c, !.last = c]
        BY <2>1, <2>2
      <3> QED BY <1>0, <2>2, <3>1
    <2>3. CASE h[owner].last # Null
      <3>1. g[owner] = [h[owner] EXCEPT !.first = @, !.last = c]
        BY <2>1, <2>3
      <3> QED BY <1>0, <2>3, <3>1
    <2> QED BY <2>2, <2>3
  <1>4. last \in DOMAIN h => g[last] = [h[last] EXCEPT !.next = c]
    BY <1>1 DEF InsertEndChild
  <1>5. g[c] = [h[c] EXCEPT !.prev = last, !.next = Null, !.parent = owner]
    BY <1>1 DEF InsertEndChild
  <1>6. \A y \in DOMAIN h : y \notin {owner, c, last} => g[y] = h[y]
    <2> SUFFICES ASSUME NEW y \in DOMAIN h, y # owner, y # c, y # last PROVE g[y] = h[y]
      OBVIOUS
    <2> QED BY DEF InsertEndChild
  <1>7. g = [y \in DOMAIN h |-> g[y]]
    <2> DEFINE e(y) == CASE y = owner -> [h[y] EXCEPT !.first = IF last = Null THEN c ELSE @, !.last = c]
                         [] y = last -> [h[y] EXCEPT !.next = c]
                         [] y = c -> [h[y] EXCEPT !.prev = last, !.next = Null, !.parent = owner]
                         [] OTHER -> h[y]
    <2>1. g = [y \in DOMAIN h |-> e(y)]
      BY DEF InsertEndChild
    <2> HIDE DEF e
    <2> QED BY <2>1
  <1>8. \A y \in DOMAIN h : h[y] \in Fields
    BY FieldTypes
  <1>9. c \in Addresses /\ owner \in Addresses \cup {Doc} /\ last \in Addresses \cup {Null}
        /\ first \in Addresses \cup {Null}
    BY <1>0, FieldTypes DEF Heap
  <1> HIDE DEF last
  <1>10. g[owner] \in Fields /\ g[c] \in Fields /\ (last \in DOMAIN h => g[last] \in Fields)
    BY <1>3, <1>4, <1>5, <1>8, <1>9 DEF Fields
  <1>11. \A y \in DOMAIN h :
                   /\ g[y].first = IF y = owner /\ last = Null THEN c ELSE h[y].first
                   /\ g[y].last = IF y = owner THEN c ELSE h[y].last
                   /\ g[y].next = IF y = last THEN c ELSE IF y = c THEN Null ELSE h[y].next
                   /\ g[y].prev = IF y = c THEN last ELSE h[y].prev
                   /\ g[y].parent = IF y = c THEN owner ELSE h[y].parent
                   /\ g[y].value = h[y].value /\ g[y].closing = h[y].closing
                   /\ g[y].attrs = h[y].attrs
    <2> SUFFICES ASSUME NEW y \in DOMAIN h
                 PROVE  /\ g[y].first = IF y = owner /\ last = Null THEN c ELSE h[y].first
                        /\ g[y].last = IF y = owner THEN c ELSE h[y].last
                        /\ g[y].next = IF y = last THEN c ELSE IF y = c THEN Null ELSE h[y].next
                        /\ g[y].prev = IF y = c THEN last ELSE h[y].prev
                        /\ g[y].parent = IF y = c THEN owner ELSE h[y].parent
                        /\ g[y].value = h[y].value /\ g[y].closing = h[y].closing
                        /\ g[y].attrs = h[y].attrs
      OBVIOUS
    <2>1. CASE y = owner
      BY <1>0, <1>1, <1>3, <1>8, <2>1 DEF Fields, last
    <2>2. CASE y = c
      BY <1>1, <1>5, <1>8, <2>2 DEF Fields
    <2>3. CASE y = last
      BY <1>1, <1>4, <1>8, <2>3 DEF Fields
    <2>4. CASE y \notin {owner, c, last}
      BY <1>6, <2>4
    <2> QED BY <2>1, <2>2, <2>3, <2>4
  <1>12. Heap(g, n)
    <2>1. \A y \in DOMAIN g : g[y] \in Fields /\ g[y].value <= n
      <3>1. \A y \in DOMAIN g : g[y] \in Fields
        BY <1>2, <1>6, <1>8, <1>10
      <3> QED BY <1>2, <1>11, <3>1 DEF Heap
    <2> QED BY <1>2, <1>7, <2>1 DEF Heap
  <1> QED BY <1>1, <1>2, <1>11, <1>12 DEF Inserted, last

\* A node behind its elder siblings
LEMMA InsertKeepsLinks ==
    ASSUME NEW h, NEW n, Heap(h, n), Links(h), NEW owner \in DOMAIN h, NEW c \in DOMAIN h, owner # c,
           h[c].parent = Null, c # Doc, h[owner].value < h[c].value,
           \A y \in DOMAIN h : h[y].parent = owner => h[y].value < h[c].value
    PROVE  Links(InsertEndChild(h, owner, c))
  <1> DEFINE last == h[owner].last
  <1>1. PICK g : g = InsertEndChild(h, owner, c)
    OBVIOUS
  <1>2. /\ DOMAIN g = DOMAIN h /\ last # owner /\ last # c
        /\ \A y \in DOMAIN h :
                   /\ g[y].first = IF y = owner /\ last = Null THEN c ELSE h[y].first
                   /\ g[y].last = IF y = owner THEN c ELSE h[y].last
                   /\ g[y].next = IF y = last THEN c ELSE IF y = c THEN Null ELSE h[y].next
                   /\ g[y].prev = IF y = c THEN last ELSE h[y].prev
                   /\ g[y].parent = IF y = c THEN owner ELSE h[y].parent
                   /\ g[y].value = h[y].value
    <2>1. Inserted(g, h, owner, c) /\ last # owner /\ last # c
      BY <1>1, InsertFields
    <2> QED BY <2>1 DEF Inserted
  <1>3. owner # Null /\ c # Null
    BY DEF Heap
  <1> SUFFICES ASSUME NEW y \in DOMAIN h
               PROVE  /\ g[y].first # Null => /\ g[y].first \in DOMAIN h /\ g[g[y].first].parent = y
                                              /\ g[g[y].first].prev = Null
                      /\ g[y].last # Null => /\ g[y].last \in DOMAIN h /\ g[g[y].last].parent = y
                                             /\ g[g[y].last].next = Null
                      /\ g[y].parent # Null =>
                         /\ g[y].parent \in DOMAIN h /\ g[g[y].parent].value < g[y].value
                         /\ g[y].next # Null => /\ g[y].next \in DOMAIN h /\ g[g[y].next].parent = g[y].parent
                                                /\ g[g[y].next].prev = y /\ g[y].value < g[g[y].next].value
                         /\ g[y].prev # Null => /\ g[y].prev \in DOMAIN h /\ g[g[y].prev].parent = g[y].parent
                                                /\ g[g[y].prev].next = y
                         /\ g[y].next = Null => g[g[y].parent].last = y
                         /\ g[y].prev = Null => g[g[y].parent].first = y
    BY <1>1, <1>2 DEF Links
  <1>4. last # Null => last \in DOMAIN h /\ h[last].parent = owner /\ h[last].next = Null
    BY DEF Links
  <1>5. h[owner].first # Null <=> last # Null
    BY EldestIsFirst, YoungestIsLast, <1>3 DEF Links
  <1>6. g[y].first # Null => /\ g[y].first \in DOMAIN h /\ g[g[y].first].parent = y
                             /\ g[g[y].first].prev = Null
    <2>1. CASE y = owner /\ last = Null
      BY <1>2, <1>3, <2>1
    <2>2. CASE ~(y = owner /\ last = Null)
      <3>1. g[y].first = h[y].first
        BY <1>2, <2>2
      <3>2. h[y].first # Null => h[y].first \in DOMAIN h /\ h[y].first # c /\ h[h[y].first].parent = y
                                 /\ h[h[y].first].prev = Null
        BY <1>3, FieldTypes DEF Links
      <3> QED BY <1>2, <3>1, <3>2
    <2> QED BY <2>1, <2>2
  <1>7. g[y].last # Null => /\ g[y].last \in DOMAIN h /\ g[g[y].last].parent = y
                            /\ g[g[y].last].next = Null
    <2>1. CASE y = owner
      BY <1>2, <1>3, <1>4, <2>1
    <2>2. CASE y # owner
      <3>1. g[y].last = h[y].last
        BY <1>2, <2>2
      <3>2. h[y].last # Null => h[y].last \in DOMAIN h /\ h[y].last # c /\ h[h[y].last].parent = y
                                 /\ h[h[y].last].next = Null
        BY <1>3, FieldTypes DEF Links
      <3>3. h[y].last # Null => h[y].last # last
        BY <1>4, <2>2, <3>2
      <3> QED BY <1>2, <3>1, <3>2, <3>3
    <2> QED BY <2>1, <2>2
  <1>8. ASSUME y = c
        PROVE  /\ g[y].parent \in DOMAIN h /\ g[g[y].parent].value < g[y].value
               /\ g[y].next # Null => /\ g[y].next \in DOMAIN h /\ g[g[y].next].parent = g[y].parent
                                      /\ g[g[y].next].prev = y /\ g[y].value < g[g[y].next].value
               /\ g[y].prev # Null => /\ g[y].prev \in DOMAIN h /\ g[g[y].prev].parent = g[y].parent
                                      /\ g[g[y].prev].next = y
               /\ g[y].next = Null => g[g[y].parent].last = y
               /\ g[y].prev = Null => g[g[y].parent].first = y
    BY <1>2, <1>3, <1>4, <1>8
  <1>9. ASSUME y # c, h[y].parent # Null
        PROVE  /\ g[y].parent \in DOMAIN h /\ g[g[y].parent].value < g[y].value
               /\ g[y].next # Null => /\ g[y].next \in DOMAIN h /\ g[g[y].next].parent = g[y].parent
                                      /\ g[g[y].next].prev = y /\ g[y].value < g[g[y].next].value
               /\ g[y].prev # Null => /\ g[y].prev \in DOMAIN h /\ g[g[y].prev].parent = g[y].parent
                                      /\ g[g[y].prev].next = y
               /\ g[y].next = Null => g[g[y].parent].last = y
               /\ g[y].prev = Null => g[g[y].parent].first = y
    <2>1. h[y].parent \in DOMAIN h /\ g[y].parent = h[y].parent /\ g[g[y].parent].value < g[y].value
      BY <1>2, <1>9 DEF Links
    <2>2. CASE y = last
      <3>1. h[y].parent = owner /\ g[y].next = c
        BY <1>2, <1>4, <1>9, <2>2, FieldTypes
      <3>2. g[y].value < g[c].value
        BY <1>2, <3>1
      <3>3. g[y].prev = h[y].prev
        BY <1>2, <1>9
      <3>4. h[y].prev # Null => h[y].prev \in DOMAIN h /\ h[y].prev # c /\ h[h[y].prev].parent = owner
                                /\ h[h[y].prev].next = y
        BY <1>3, <3>1, <1>9 DEF Links
      <3>5. h[y].prev # Null => h[y].prev # last
        BY <1>4, <3>4, FieldTypes
      <3>6. h[y].prev = Null => h[owner].first = y
        BY <1>9, <3>1 DEF Links
      <3>7. /\ g[y].next = Null => g[g[y].parent].last = y
            /\ g[y].next # Null => /\ g[y].next \in DOMAIN h /\ g[g[y].next].parent = g[y].parent
                                   /\ g[g[y].next].prev = y /\ g[y].value < g[g[y].next].value
        BY <1>2, <1>3, <2>1, <2>2, <3>1, <3>2
      <3>8. g[y].prev # Null => /\ g[y].prev \in DOMAIN h /\ g[g[y].prev].parent = g[y].parent
                                /\ g[g[y].prev].next = y
        BY <1>2, <2>1, <3>1, <3>3, <3>4, <3>5
      <3>9. g[y].prev = Null => g[g[y].parent].first = y
        <4>1. last # Null
          BY <2>2, FieldTypes
        <4> QED BY <1>2, <2>1, <3>1, <3>3, <3>6, <4>1
      <3> QED BY <2>1, <3>7, <3>8, <3>9
    <2>3. CASE y # last
      <3>1. g[y].next = h[y].next /\ g[y].prev = h[y].prev
        BY <1>2, <1>9, <2>3
      <3>2. h[y].next # Null => /\ h[y].next \in DOMAIN h /\ h[h[y].next].parent = h[y].parent
                                /\ h[h[y].next].prev = y /\ h[y].value < h[h[y].next].value
                                /\ h[y].next # c
        BY <1>9 DEF Links
      <3>3. h[y].prev # Null => /\ h[y].prev \in DOMAIN h /\ h[h[y].prev].parent = h[y].parent
                                /\ h[h[y].prev].next = y /\ h[y].prev # c
        BY <1>9 DEF Links
      <3>4. h[y].prev # Null => h[y].prev # last
        BY <1>4, <3>3, FieldTypes DEF Heap
      <3>5. h[y].next = Null => h[h[y].parent].last = y
        BY <1>9 DEF Links
      <3>6. h[y].prev = Null => h[h[y].parent].first = y
        BY <1>9 DEF Links
      <3>7. g[y].next = Null => g[h[y].parent].last = y
        BY <1>2, <2>1, <2>3, <3>1, <3>5
      <3>8. g[y].prev = Null => g[h[y].parent].first = y
        <4>1. h[y].parent = owner => last # Null
          BY <1>3, YoungestIsLast
        <4> QED BY <1>2, <2>1, <3>1, <3>6, <4>1
      <3>9. g[y].next # Null => /\ g[y].next \in DOMAIN h /\ g[g[y].next].parent = g[y].parent
                                /\ g[g[y].next].prev = y /\ g[y].value < g[g[y].next].value
        BY <1>2, <2>1, <3>1, <3>2
      <3>10. g[y].prev # Null => /\ g[y].prev \in DOMAIN h /\ g[g[y].prev].parent = g[y].parent
                                 /\ g[g[y].prev].next = y
        BY <1>2, <2>1, <3>1, <3>3, <3>4
      <3> QED BY <2>1, <3>7, <3>8, <3>9, <3>10
    <2> QED BY <2>2, <2>3
  <1>10. g[y].parent # Null => y = c \/ h[y].parent # Null
    BY <1>2
  <1> QED BY <1>6, <1>7, <1>8, <1>9, <1>10

\* What Unlink() does, field by field
Unlinked(g, h, c) ==
    /\ DOMAIN g = DOMAIN h
    /\ \A y \in DOMAIN h :
         /\ g[y].first = IF h[y].first = c THEN h[c].next ELSE h[y].first
         /\ g[y].last = IF h[y].last = c THEN h[c].prev ELSE h[y].last
         /\ g[y].next = IF y = h[c].prev THEN h[c].next ELSE h[y].next
         /\ g[y].prev = IF y = h[c].next THEN h[c].prev ELSE h[y].prev
         /\ g[y].parent = IF y = c THEN Null ELSE h[y].parent
         /\ g[y].value = h[y].value /\ g[y].closing = h[y].closing /\ g[y].attrs = h[y].attrs

LEMMA UnlinkFields ==
    ASSUME NEW h, NEW n, Heap(h, n), NEW c \in DOMAIN h, NEW g, g = Unlink(h, c)
    PROVE  Heap(g, n) /\ Unlinked(g, h, c)
  <1>1. g = [y \in DOMAIN h |-> g[y]]
    BY DEF Unlink
  <1>2. ASSUME NEW y \in DOMAIN h
        PROVE  /\ g[y] \in Fields
               /\ g[y].first = IF h[y].first = c THEN h[c].next ELSE h[y].first
               /\ g[y].last = IF h[y].last = c THEN h[c].prev ELSE h[y].last
               /\ g[y].next = IF y = h[c].prev THEN h[c].next ELSE h[y].next
               /\ g[y].prev = IF y = h[c].next THEN h[c].prev ELSE h[y].prev
               /\ g[y].parent = IF y = c THEN Null ELSE h[y].parent
               /\ g[y].value = h[y].value /\ g[y].closing = h[y].closing
               /\ g[y].attrs = h[y].attrs
    <2>1. h[y] \in Fields /\ h[c] \in Fields
      BY FieldTypes
    <2>2. PICK f, l, e, r, owner :
            /\ f = IF h[y].first = c THEN h[c].next ELSE h[y].first
            /\ l = IF h[y].last = c THEN h[c].prev ELSE h[y].last
            /\ e = IF y = h[c].prev THEN h[c].next ELSE h[y].next
            /\ r = IF y = h[c].next THEN h[c].prev ELSE h[y].prev
            /\ owner = IF y = c THEN Null ELSE h[y].parent
      OBVIOUS
    <2>3. g[y] = [h[y] EXCEPT !.first = f, !.last = l, !.next = e, !.prev = r, !.parent = owner]
      BY <2>2 DEF Unlink
    <2>4. /\ f \in Addresses \cup {Null} /\ l \in Addresses \cup {Null} /\ e \in Addresses \cup {Null}
          /\ r \in Addresses \cup {Null} /\ owner \in Addresses \cup {Doc, Null}
      BY <2>1, <2>2 DEF Fields
    <2>5. /\ g[y] \in Fields
          /\ g[y].first = f /\ g[y].last = l /\ g[y].next = e /\ g[y].prev = r /\ g[y].parent = owner
          /\ g[y].value = h[y].value /\ g[y].closing = h[y].closing /\ g[y].attrs = h[y].attrs
      <3>1. PICK a : a = h[y]
        OBVIOUS
      <3>2. PICK b : b = g[y]
        OBVIOUS
      <3>3. a \in Fields /\ b = [a EXCEPT !.first = f, !.last = l, !.next = e, !.prev = r, !.parent = owner]
        BY <2>1, <2>3, <3>1, <3>2
      <3>4. /\ b.first = f /\ b.last = l /\ b.next = e /\ b.prev = r /\ b.parent = owner
            /\ b.value = a.value /\ b.closing = a.closing /\ b.attrs = a.attrs
        BY ONLY <3>3 DEF Fields
      <3>5. b \in Fields
        BY ONLY <3>3, <2>4 DEF Fields
      <3> QED BY ONLY <3>1, <3>2, <3>4, <3>5
    <2> QED BY <2>2, <2>5
  <1>3. DOMAIN g = DOMAIN h
    BY <1>1
  <1>4. Heap(g, n)
    BY <1>1, <1>2, <1>3 DEF Heap
  <1> QED BY <1>2, <1>3, <1>4 DEF Unlinked

\* The first child
LEMMA UnlinkKeepsLinks ==
    ASSUME NEW h, NEW n, Heap(h, n), Links(h), NEW x \in DOMAIN h, h[x].first # Null
    PROVE  Links(Unlink(h, h[x].first))
  <1> DEFINE c == h[x].first
             second == h[c].next
  <1>1. PICK g : g = Unlink(h, c)
    OBVIOUS
  <1>2. c \in DOMAIN h /\ h[c].parent = x /\ h[c].prev = Null /\ x # Null
    BY DEF Links, Heap
  <1>3. second # Null => second \in DOMAIN h /\ h[second].parent = x /\ h[second].prev = c
                         /\ h[c].value < h[second].value
    BY <1>2 DEF Links
  <1>4. \A y \in DOMAIN h : (h[y].first = c <=> y = x) /\ (h[y].last = c => y = x)
    BY <1>2, FieldTypes DEF Links
  <1>5. \A y \in DOMAIN h : y # Null
    BY DEF Heap
  <1> HIDE DEF c
  <1>6. /\ DOMAIN g = DOMAIN h
        /\ \A y \in DOMAIN h :
                   /\ g[y].first = IF y = x THEN second ELSE h[y].first
                   /\ g[y].last = IF h[y].last = c THEN Null ELSE h[y].last
                   /\ g[y].next = h[y].next
                   /\ g[y].prev = IF y = second THEN Null ELSE h[y].prev
                   /\ g[y].parent = IF y = c THEN Null ELSE h[y].parent
                   /\ g[y].value = h[y].value
    <2>0. c \in DOMAIN h
      BY <1>2
    <2>1. /\ DOMAIN g = DOMAIN h
          /\ \A y \in DOMAIN h :
                   /\ g[y].first = IF h[y].first = c THEN h[c].next ELSE h[y].first
                   /\ g[y].last = IF h[y].last = c THEN h[c].prev ELSE h[y].last
                   /\ g[y].next = IF y = h[c].prev THEN h[c].next ELSE h[y].next
                   /\ g[y].prev = IF y = h[c].next THEN h[c].prev ELSE h[y].prev
                   /\ g[y].parent = IF y = c THEN Null ELSE h[y].parent
                   /\ g[y].value = h[y].value
      <3>1. Unlinked(g, h, c)
        BY <1>1, <2>0, UnlinkFields
      <3> QED BY <3>1 DEF Unlinked
    <2> QED BY <1>2, <1>4, <1>5, <2>1 DEF second
  <1> HIDE DEF second
  <1> SUFFICES ASSUME NEW y \in DOMAIN h
               PROVE  /\ g[y].first # Null => /\ g[y].first \in DOMAIN h /\ g[g[y].first].parent = y
                                              /\ g[g[y].first].prev = Null
                      /\ g[y].last # Null => /\ g[y].last \in DOMAIN h /\ g[g[y].last].parent = y
                                             /\ g[g[y].last].next = Null
                      /\ g[y].parent # Null =>
                         /\ g[y].parent \in DOMAIN h /\ g[g[y].parent].value < g[y].value
                         /\ g[y].next # Null => /\ g[y].next \in DOMAIN h /\ g[g[y].next].parent = g[y].parent
                                                /\ g[g[y].next].prev = y /\ g[y].value < g[g[y].next].value
                         /\ g[y].prev # Null => /\ g[y].prev \in DOMAIN h /\ g[g[y].prev].parent = g[y].parent
                                                /\ g[g[y].prev].next = y
                         /\ g[y].next = Null => g[g[y].parent].last = y
                         /\ g[y].prev = Null => g[g[y].parent].first = y
    BY <1>1, <1>6 DEF Links, c
  <1>7. second # c
    BY <1>2, <1>3, FieldTypes
  <1>8. g[y].first # Null => /\ g[y].first \in DOMAIN h /\ g[g[y].first].parent = y
                             /\ g[g[y].first].prev = Null
    <2>1. CASE y = x
      BY <1>3, <1>6, <1>7, <2>1
    <2>2. CASE y # x
      <3>1. h[y].first # Null => /\ h[y].first \in DOMAIN h /\ h[h[y].first].parent = y
                                 /\ h[h[y].first].prev = Null /\ h[y].first # c
        BY <1>4, <2>2 DEF Links
      <3> QED BY <1>6, <2>2, <3>1
    <2> QED BY <2>1, <2>2
  <1>9. g[y].last # Null => /\ g[y].last \in DOMAIN h /\ g[g[y].last].parent = y
                            /\ g[g[y].last].next = Null
    <2>1. h[y].last # Null => /\ h[y].last \in DOMAIN h /\ h[h[y].last].parent = y
                              /\ h[h[y].last].next = Null
      BY DEF Links
    <2> QED BY <1>6, <2>1
  <1>10. ASSUME y # c, h[y].parent # Null
         PROVE  /\ h[y].parent \in DOMAIN h /\ h[h[y].parent].value < h[y].value
                /\ h[y].next # Null => /\ h[y].next \in DOMAIN h /\ h[h[y].next].parent = h[y].parent
                                       /\ h[h[y].next].prev = y /\ h[y].value < h[h[y].next].value
                                       /\ h[y].next # c /\ h[y].next # second
                /\ h[y].prev # Null => /\ h[y].prev \in DOMAIN h /\ h[h[y].prev].parent = h[y].parent
                                       /\ h[h[y].prev].next = y
                                       /\ h[y].prev = c => y = second
                /\ h[y].next = Null => h[h[y].parent].last = y
                /\ h[y].prev = Null => h[h[y].parent].first = y
    <2>1. /\ h[y].parent \in DOMAIN h /\ h[h[y].parent].value < h[y].value
          /\ h[y].next # Null => /\ h[y].next \in DOMAIN h /\ h[h[y].next].parent = h[y].parent
                                 /\ h[h[y].next].prev = y /\ h[y].value < h[h[y].next].value
          /\ h[y].prev # Null => /\ h[y].prev \in DOMAIN h /\ h[h[y].prev].parent = h[y].parent
                                 /\ h[h[y].prev].next = y
          /\ h[y].next = Null => h[h[y].parent].last = y
          /\ h[y].prev = Null => h[h[y].parent].first = y
      BY <1>10 DEF Links
    <2>2. h[y].next # Null => h[y].next # c /\ h[y].next # second
      BY <1>2, <1>3, <1>5, <1>10, <2>1
    <2>3. h[y].prev = c => y = second
      BY <1>2, <1>5, <2>1 DEF second
    <2> QED BY <2>1, <2>2, <2>3
  <1>11. ASSUME y # c, h[y].parent # Null
         PROVE  /\ g[y].parent \in DOMAIN h /\ g[g[y].parent].value < g[y].value
                /\ g[y].next # Null => /\ g[y].next \in DOMAIN h /\ g[g[y].next].parent = g[y].parent
                                       /\ g[g[y].next].prev = y /\ g[y].value < g[g[y].next].value
                /\ g[y].prev # Null => /\ g[y].prev \in DOMAIN h /\ g[g[y].prev].parent = g[y].parent
                                       /\ g[g[y].prev].next = y
                /\ g[y].next = Null => g[g[y].parent].last = y
                /\ g[y].prev = Null => g[g[y].parent].first = y
    <2>1. g[y].parent = h[y].parent /\ g[y].next = h[y].next
      BY <1>6, <1>11
    <2>2. g[y].parent \in DOMAIN h /\ g[g[y].parent].value < g[y].value
      BY <1>6, <1>10, <1>11, <2>1
    <2>3. g[y].next # Null => /\ g[y].next \in DOMAIN h /\ g[g[y].next].parent = g[y].parent
                                       /\ g[g[y].next].prev = y /\ g[y].value < g[g[y].next].value
      BY <1>6, <1>10, <1>11, <2>1
    <2>4. g[y].prev # Null => /\ g[y].prev \in DOMAIN h /\ g[g[y].prev].parent = g[y].parent
                              /\ g[g[y].prev].next = y
      <3> SUFFICES ASSUME g[y].prev # Null
                   PROVE  /\ g[y].prev \in DOMAIN h /\ g[g[y].prev].parent = g[y].parent
                          /\ g[g[y].prev].next = y
        OBVIOUS
      <3>1. y # second /\ g[y].prev = h[y].prev
        BY <1>6
      <3>2. h[y].prev \in DOMAIN h /\ h[h[y].prev].parent = h[y].parent /\ h[h[y].prev].next = y
            /\ h[y].prev # c
        BY <1>10, <1>11, <3>1
      <3> QED BY <1>6, <2>1, <3>1, <3>2
    <2>5. g[y].next = Null => g[g[y].parent].last = y
      BY <1>6, <1>10, <1>11, <2>1
    <2>6. g[y].prev = Null => g[g[y].parent].first = y
      <3>1. CASE y = second
        BY <1>3, <1>5, <1>6, <2>1, <3>1
      <3>2. CASE y # second
        <4>1. g[y].prev = Null => h[h[y].parent].first = y
          BY <1>6, <1>10, <1>11, <3>2
        <4>2. h[x].first = c
          BY DEF c
        <4> QED BY <1>6, <1>10, <1>11, <2>1, <4>1, <4>2
      <3> QED BY <3>1, <3>2
    <2> QED BY <2>2, <2>3, <2>4, <2>5, <2>6
  <1>12. g[y].parent # Null => y # c /\ h[y].parent # Null
    BY <1>6
  <1> QED BY <1>8, <1>9, <1>11, <1>12
-----------------------------------------------------------------------------
(* Documents: what the pools hand out *)

LEMMA NodeHeap ==
    DocumentInv => Heap(node, pos) /\ \A x \in DOMAIN node : x # Null /\ (x # Doc => x \in Addresses)
  <1> SUFFICES ASSUME DocumentInv PROVE Heap(node, pos) /\ \A x \in DOMAIN node : x # Null /\ (x # Doc => x \in Addresses)
    OBVIOUS
  <1>1. /\ node \in [DOMAIN node -> Fields] /\ DOMAIN node \subseteq Addresses \cup {Doc}
        /\ pos \in Nat
    BY DEF DocumentInv, DocumentTypeInv, ParseTypes, HeapTypes, PoolTypes, WalkTypes
  <1>2. \A x \in DOMAIN node : node[x].value < pos /\ node[x].value \in Nat
    BY <1>1 DEF DocumentInv, ValueInv, Fields
  <1>3. Null \notin DOMAIN node
    BY <1>1, NullAssumption DEF Addresses
  <1> QED BY <1>1, <1>2, <1>3 DEF Heap

LEMMA Chunk ==
    ASSUME DocumentInv, NEW k \in Pools
    PROVE  LET f == FreeOrNew(k)
               b == blocks[k] + IF free[k] = << >> THEN 1 ELSE 0
           IN /\ f \in Seq(Addresses) /\ f # << >>
              /\ IsInjective(f)
              /\ Range(f) \cap Nodes = {}
              /\ \A y \in Range(f) : y \in Addresses /\ PoolOf(y) = k
              /\ Range(f) \cup NodesOf(k) = {<<k, i>> : i \in 1 .. b * Count}
              /\ Len(f) + currentAllocs[k] = b * Count
  <1>1. /\ free[k] \in Seq(Addresses) /\ blocks[k] \in Nat /\ currentAllocs[k] \in Int
        /\ IsInjective(free[k])
        /\ Range(free[k]) \cap Nodes = {}
        /\ Range(free[k]) \cup NodesOf(k) = Chunks(k)
        /\ Len(free[k]) + currentAllocs[k] = blocks[k] * Count
    BY DEF DocumentInv, DocumentTypeInv, ParseTypes, HeapTypes, PoolTypes, WalkTypes, PoolInv
  <1>2. PICK m \in Nat : m = blocks[k] * Count
    BY <1>1, CountAssumption
  <1>3. (blocks[k] + 1) * Count = m + Count
    BY <1>1, <1>2, CountAssumption
  <1>4. Chunks(k) = {<<k, i>> : i \in 1 .. m}
    BY <1>2 DEF Chunks
  <1>5. CASE free[k] # << >>
    <2>1. FreeOrNew(k) = free[k] /\ (IF free[k] = << >> THEN 1 ELSE 0) = 0
      BY <1>5 DEF FreeOrNew
    <2>2. blocks[k] + 0 = blocks[k]
      BY <1>1
    <2>3. \A y \in Range(free[k]) : y \in Addresses /\ PoolOf(y) = k
      <3>1. \A y \in Range(free[k]) : y \in Chunks(k)
        BY <1>1
      <3> QED BY <1>4, <3>1 DEF Addresses, PoolOf
    <2> QED BY <1>1, <1>2, <1>4, <1>5, <2>1, <2>2, <2>3
  <1>6. CASE free[k] = << >>
    <2> DEFINE f == [i \in 1 .. Count |-> <<k, m + i>>]
    <2>1. FreeOrNew(k) = f /\ (IF free[k] = << >> THEN 1 ELSE 0) = 1
      BY <1>2, <1>6 DEF FreeOrNew
    <2>2. f \in Seq(Addresses) /\ Len(f) = Count /\ f # << >> /\ DOMAIN f = 1 .. Count
      BY CountAssumption DEF Addresses
    <2>3. IsInjective(f)
      BY CountAssumption DEF IsInjective
    <2>4. Range(f) = {<<k, m + i>> : i \in 1 .. Count}
      BY DEF Range
    <2>5. Range(free[k]) = {} /\ Len(free[k]) = 0
      BY <1>6 DEF Range
    <2>6. NodesOf(k) = {<<k, i>> : i \in 1 .. m}
      BY <1>1, <1>4, <2>5
    <2>7. Range(f) \cap Nodes = {}
      <3> SUFFICES ASSUME NEW i \in 1 .. Count, <<k, m + i>> \in Nodes PROVE FALSE
        BY <2>4
      <3>1. <<k, m + i>> \in NodesOf(k)
        BY DEF NodesOf, PoolOf
      <3>2. PICK j \in 1 .. m : <<k, m + i>> = <<k, j>>
        BY <2>6, <3>1
      <3>3. m + i = j
        BY <3>2
      <3> QED BY <3>3, CountAssumption
    <2>8. \A y \in Range(f) : y \in Addresses /\ PoolOf(y) = k
      BY <2>4, CountAssumption DEF Addresses, PoolOf
    <2>9. Range(f) \cup NodesOf(k) = {<<k, i>> : i \in 1 .. m + Count}
      <3>1. \A i \in 1 .. m + Count : i \in 1 .. m \/ \E j \in 1 .. Count : i = m + j
        <4> SUFFICES ASSUME NEW i \in 1 .. m + Count, i \notin 1 .. m PROVE \E j \in 1 .. Count : i = m + j
          OBVIOUS
        <4>1. i - m \in 1 .. Count /\ i = m + (i - m)
          BY CountAssumption
        <4> QED BY <4>1
      <3>2. \A i \in 1 .. m : i \in 1 .. m + Count
        BY CountAssumption
      <3>3. \A j \in 1 .. Count : m + j \in 1 .. m + Count
        BY CountAssumption
      <3> QED BY <2>4, <2>6, <3>1, <3>2, <3>3
    <2>10. Len(f) + currentAllocs[k] = m + Count
      BY <1>1, <1>2, <2>2, <2>5, CountAssumption
    <2> HIDE DEF f
    <2> QED BY <1>3, <2>1, <2>2, <2>3, <2>7, <2>8, <2>9, <2>10
  <1> QED BY <1>5, <1>6

\* What Identify() does: a node x of a pool k gets a free chunk.
Made(k, x, f, b, closing, attrs) ==
    /\ k \in Pools /\ x \in Addresses /\ x \notin DOMAIN node /\ x # Null /\ x # Doc /\ PoolOf(x) = k
    /\ f \in Seq(Addresses) /\ IsInjective(f) /\ Range(f) \cap Nodes = {} /\ x \notin Range(f)
    /\ b \in Nat /\ Range(f) \cup NodesOf(k) \cup {x} = {<<k, i>> : i \in 1 .. b * Count}
    /\ Len(f) + currentAllocs[k] + 1 = b * Count
    /\ closing \in {"none", "open", "closed", "closing"} /\ (closing # "none" => k = "element")
    /\ attrs \in Seq(AttrNames)
    /\ pc = "loop" /\ pos <= Len(text)
    /\ free' = [free EXCEPT ![k] = f]
    /\ blocks' = [blocks EXCEPT ![k] = b]
    /\ currentAllocs' = [currentAllocs EXCEPT ![k] = @ + 1]
    /\ untracked' = [untracked EXCEPT ![k] = @ + 1]
    /\ attrAllocs' = attrAllocs + Len(attrs)
    /\ node' = [y \in DOMAIN node \cup {x} |-> IF y = x THEN NewNode(pos, closing, attrs) ELSE node[y]]
    /\ \/ frames' = Append(frames, x) /\ UNCHANGED <<pc, cur, result>>
       \/ cur' = x /\ result'.ok \in BOOLEAN /\ pc' = "handle" /\ UNCHANGED frames
    /\ pos' = pos + 1
    /\ errorID' \in {errorID, "text", "cdata", "comment", "attribute"}
    /\ UNCHANGED <<text, deleteVars, walkVars>>

LEMMA LinkedAttrs ==
    ASSUME DocumentInv, pos <= Len(text), text[pos].kind \in {"open", "empty"}
    PROVE  SubSeq(text[pos].attrs, 1, Cardinality(Linked(text[pos].attrs))) \in Seq(AttrNames)
  <1> DEFINE attrs == text[pos].attrs
             L == Linked(attrs)
  <1>1. text \in Documents /\ pos \in DOMAIN text
    <2>1. text \in Documents /\ pos \in Nat /\ 1 <= pos
      BY DEF DocumentInv, DocumentTypeInv, ParseTypes, HeapTypes, PoolTypes, WalkTypes
    <2>2. text \in Seq(Range(text))
      BY <2>1, DocumentsAssumption
    <2> QED BY <2>1, <2>2
  <1>2. attrs \in Seq(Range(attrs))
    BY <1>1, DocumentsAssumption
  <1>3. Range(attrs) \subseteq AttrNames
    BY <1>1 DEF AttrNames
  <1> HIDE DEF attrs
  <1>4. L \subseteq 1 .. Len(attrs) /\ Len(attrs) \in Nat
    BY <1>2 DEF Linked
  <1>5. Cardinality(L) \in Nat /\ Cardinality(L) <= Len(attrs)
    <2>1. PICK n \in Nat : n = Len(attrs)
      BY <1>4
    <2>2. IsFiniteSet(1 .. n) /\ Cardinality(1 .. n) = n
      <3>1. IsFiniteSet(1 .. n) /\ Cardinality(1 .. n) = IF 1 > n THEN 0 ELSE n - 1 + 1
        BY FS_Interval
      <3> QED BY <3>1
    <2>3. L \in SUBSET (1 .. n)
      BY <1>4, <2>1
    <2> HIDE DEF L
    <2>4. IsFiniteSet(L) /\ Cardinality(L) <= Cardinality(1 .. n)
      BY <2>2, <2>3, FS_Subset
    <2> QED BY <2>1, <2>2, <2>4, FS_CardinalityType
  <1>6. attrs \in Seq(AttrNames)
    BY <1>2, <1>3
  <1> HIDE DEF L
  <1>7. PICK m \in Nat : m = Cardinality(L) /\ m <= Len(attrs)
    BY <1>5
  <1>8. SubSeq(attrs, 1, m) \in Seq(AttrNames)
    BY <1>6, <1>7
  <1> QED BY <1>7, <1>8 DEF L, attrs

LEMMA HeadAndTail ==
    ASSUME NEW S, NEW c \in Seq(S), c # << >>, IsInjective(c)
    PROVE  /\ Head(c) \in S /\ Head(c) \in Range(c) /\ Tail(c) \in Seq(S) /\ Len(c) = Len(Tail(c)) + 1
           /\ Range(c) = Range(Tail(c)) \cup {Head(c)}
           /\ IsInjective(Tail(c)) /\ Head(c) \notin Range(Tail(c))
  <1>1. Len(c) \in Nat /\ Len(c) >= 1 /\ DOMAIN c = 1 .. Len(c) /\ Head(c) = c[1]
    OBVIOUS
  <1>2. /\ Tail(c) \in Seq(S) /\ Len(Tail(c)) = Len(c) - 1
        /\ \A i \in 1 .. Len(c) - 1 : Tail(c)[i] = c[i + 1]
    OBVIOUS
  <1>3. PICK d : d = Tail(c)
    OBVIOUS
  <1>4. d \in Seq(S) /\ DOMAIN d = 1 .. Len(c) - 1 /\ \A i \in 1 .. Len(c) - 1 : d[i] = c[i + 1]
    BY <1>2, <1>3
  <1>5. Range(c) = Range(d) \cup {c[1]}
    <2>1. \A i \in 1 .. Len(c) : i = 1 \/ (i - 1 \in 1 .. Len(c) - 1 /\ c[i] = d[i - 1])
      BY <1>1, <1>4
    <2>2. \A i \in 1 .. Len(c) - 1 : i + 1 \in 1 .. Len(c) /\ d[i] = c[i + 1]
      BY <1>1, <1>4
    <2>3. Range(c) \subseteq Range(d) \cup {c[1]}
      BY <1>1, <1>4, <2>1 DEF Range
    <2>4. Range(d) \cup {c[1]} \subseteq Range(c)
      <3>1. 1 \in 1 .. Len(c)
        BY <1>1
      <3> QED BY <1>1, <1>4, <2>2, <3>1 DEF Range
    <2> QED BY <2>3, <2>4
  <1>6. IsInjective(d) /\ c[1] \notin Range(d)
    <2>1. \A i, j \in 1 .. Len(c) : c[i] = c[j] => i = j
      BY <1>1 DEF IsInjective
    <2>2. \A i \in 1 .. Len(c) - 1 : i + 1 \in 1 .. Len(c) /\ i + 1 # 1
      BY <1>1
    <2>3. \A i, j \in 1 .. Len(c) - 1 : i + 1 = j + 1 => i = j
      BY <1>1
    <2> QED BY <1>1, <1>4, <2>1, <2>2, <2>3 DEF IsInjective, Range
  <1> QED BY <1>1, <1>2, <1>3, <1>5, <1>6 DEF Range

LEMMA IdentifyMakes ==
    ASSUME DocumentInv, Identify
    PROVE  \E k, x, f, b, closing, attrs : Made(k, x, f, b, closing, attrs)
  <1> DEFINE t == text[pos]
             k == PoolFor(t.kind)
             c == FreeOrNew(k)
             x == Head(c)
             f == Tail(c)
             b == blocks[k] + IF free[k] = << >> THEN 1 ELSE 0
             attrs == IF t.kind \in {"open", "empty"} THEN SubSeq(t.attrs, 1, Cardinality(Linked(t.attrs)))
                      ELSE << >>
             closing == ClosingType(t.kind)
  <1>1. k \in Pools
    BY DEF PoolFor, Pools
  <1>2. /\ c \in Seq(Addresses) /\ c # << >>
        /\ IsInjective(c)
        /\ Range(c) \cap Nodes = {}
        /\ \A y \in Range(c) : y \in Addresses /\ PoolOf(y) = k
        /\ Range(c) \cup NodesOf(k) = {<<k, i>> : i \in 1 .. b * Count}
        /\ Len(c) + currentAllocs[k] = b * Count
    BY <1>1, Chunk
  <1>3. /\ x \in Addresses /\ x \in Range(c) /\ f \in Seq(Addresses) /\ Len(c) = Len(f) + 1
        /\ Range(c) = Range(f) \cup {x} /\ IsInjective(f) /\ x \notin Range(f)
    <2> HIDE DEF c
    <2> QED BY <1>2, HeadAndTail
  <1>4. x # Null /\ x # Doc /\ x \notin DOMAIN node /\ PoolOf(x) = k /\ Range(f) \cap Nodes = {}
    <2>1. x # Null /\ x # Doc
      BY <1>3, NullAssumption DEF Addresses
    <2> QED BY <1>2, <1>3, <2>1 DEF Nodes
  <1>5. b \in Nat /\ Range(f) \cup NodesOf(k) \cup {x} = {<<k, i>> : i \in 1 .. b * Count}
    <2>1. blocks[k] \in Nat
      BY <1>1 DEF DocumentInv, DocumentTypeInv, ParseTypes, HeapTypes, PoolTypes, WalkTypes
    <2> QED BY <1>2, <1>3, <2>1
  <1>6. Len(f) + currentAllocs[k] + 1 = b * Count
    <2>1. currentAllocs[k] \in Int /\ Len(f) \in Nat /\ Len(c) = Len(f) + 1
          /\ Len(c) + currentAllocs[k] = b * Count
      BY <1>1, <1>2, <1>3 DEF DocumentInv, DocumentTypeInv, ParseTypes, HeapTypes, PoolTypes, WalkTypes
    <2> HIDE DEF f, c, b
    <2> QED BY <2>1
  <1>7. pc = "loop" /\ pos <= Len(text)
    BY DEF Identify
  <1>8. closing \in {"none", "open", "closed", "closing"} /\ (closing # "none" => k = "element")
    BY DEF ClosingType, PoolFor
  <1>9. attrs \in Seq(AttrNames)
    BY <1>7, LinkedAttrs
  <1>10. /\ free' = [free EXCEPT ![k] = f]
         /\ blocks' = [blocks EXCEPT ![k] = b]
         /\ currentAllocs' = [currentAllocs EXCEPT ![k] = @ + 1]
         /\ untracked' = [untracked EXCEPT ![k] = @ + 1]
         /\ attrAllocs' = attrAllocs + Len(attrs)
         /\ node' = [y \in DOMAIN node \cup {x} |-> IF y = x THEN NewNode(pos, closing, attrs) ELSE node[y]]
         /\ pos' = pos + 1
         /\ UNCHANGED <<text, deleteVars, walkVars>>
    BY DEF Identify
  <1>11. \/ frames' = Append(frames, x) /\ UNCHANGED <<pc, cur, result>>
         \/ cur' = x /\ result'.ok \in BOOLEAN /\ pc' = "handle" /\ UNCHANGED frames
    <2>1. PICK ok \in BOOLEAN : ok = ~LeafFails(t)
      BY DEF LeafFails
    <2>2. \/ frames' = Append(frames, x) /\ UNCHANGED <<pc, cur, result>>
          \/ cur' = x /\ result' = [ok |-> ok, endTag |-> Null] /\ pc' = "handle" /\ UNCHANGED frames
      BY <2>1 DEF Identify
    <2> QED BY <2>2
  <1>12. errorID' \in {errorID, "text", "cdata", "comment", "attribute"}
    <2>1. errorID' = LeafError(t)
      BY DEF Identify
    <2> QED BY <2>1 DEF LeafError
  <1> HIDE DEF k, x, f, b, closing, attrs
  <1>13. Made(k, x, f, b, closing, attrs)
    BY <1>1, <1>3, <1>4, <1>5, <1>6, <1>7, <1>8, <1>9, <1>10, <1>11, <1>12 DEF Made
  <1> QED BY <1>13
-----------------------------------------------------------------------------
(* Documents: what a step does to the heap *)

LEMMA HandFacts ==
    ASSUME DocumentInv
    PROVE  /\ Len(frames) \in Nat /\ Len(frames) >= 1 /\ DOMAIN frames = 1 .. Len(frames)
           /\ frames[1] = Doc /\ Last(frames) = frames[Len(frames)]
           /\ Last(frames) \in DOMAIN node /\ node[Last(frames)].parent = Null
           /\ \A i \in DOMAIN frames : frames[i] \in DOMAIN node /\ node[frames[i]].parent = Null
           /\ cur # Null => /\ cur \in DOMAIN node /\ cur # Doc /\ cur # Last(frames)
                            /\ node[cur].parent = Null /\ cur \in Addresses
           /\ Len(deleting) \in Nat /\ DOMAIN deleting = 1 .. Len(deleting)
           /\ \A i \in DOMAIN deleting : deleting[i] \in DOMAIN node /\ node[deleting[i]].parent = Null
           /\ deleting # << >> => /\ Last(deleting) \in DOMAIN node /\ node[Last(deleting)].parent = Null
                                  /\ Last(deleting) = deleting[Len(deleting)] /\ Len(deleting) >= 1
  <1>1. /\ frames \in Seq(Addresses \cup {Doc}) /\ frames # << >> /\ frames[1] = Doc
        /\ deleting \in Seq(Addresses \cup {Doc}) /\ cur \in Addresses \cup {Null}
    BY DEF DocumentInv, DocumentTypeInv, ParseTypes, HeapTypes, PoolTypes, WalkTypes
  <1>2. /\ Len(frames) \in Nat /\ Len(frames) >= 1 /\ DOMAIN frames = 1 .. Len(frames)
        /\ Last(frames) = frames[Len(frames)]
        /\ Len(deleting) \in Nat /\ DOMAIN deleting = 1 .. Len(deleting)
        /\ deleting # << >> => Last(deleting) = deleting[Len(deleting)] /\ Len(deleting) >= 1
    BY <1>1 DEF Last
  <1>3. Doc \notin Addresses /\ Null \notin Addresses /\ Doc # Null
    BY NullAssumption DEF Addresses
  <1>4. \A x \in Hands \ {Null} : x \in DOMAIN node /\ node[x].parent = Null
    BY DEF DocumentInv, HandsInv
  <1>5. /\ \A i \in DOMAIN frames : frames[i] \in Hands \ {Null}
        /\ \A i \in DOMAIN deleting : deleting[i] \in Hands \ {Null}
        /\ cur \in Hands
    BY <1>1, <1>3 DEF Hands, Range
  <1>6. cur \notin Range(frames)
    BY DEF DocumentInv, HandsInv
  <1>7. cur # Null => /\ cur \in DOMAIN node /\ cur # Doc /\ cur # Last(frames)
                      /\ node[cur].parent = Null /\ cur \in Addresses
    BY <1>1, <1>2, <1>3, <1>4, <1>5, <1>6 DEF Range
  <1>8. \A i \in DOMAIN frames : frames[i] \in DOMAIN node /\ node[frames[i]].parent = Null
    BY <1>4, <1>5
  <1>9. \A i \in DOMAIN deleting : deleting[i] \in DOMAIN node /\ node[deleting[i]].parent = Null
    BY <1>4, <1>5
  <1>10. Len(frames) \in DOMAIN frames /\ (deleting # << >> => Len(deleting) \in DOMAIN deleting)
    BY <1>2
  <1> QED BY <1>1, <1>2, <1>7, <1>8, <1>9, <1>10

LEMMA LinksStep ==
    DocumentInv /\ [DocumentNext]_documentVars => Links(node)'
  <1> SUFFICES ASSUME DocumentInv, [DocumentNext]_documentVars PROVE Links(node')
    OBVIOUS
  <1>1. Links(node) /\ Heap(node, pos)
    BY NodeHeap DEF DocumentInv
  <1>2. CASE Identify
    <2>1. PICK k, x, f, b, closing, attrs : Made(k, x, f, b, closing, attrs)
      BY <1>2, IdentifyMakes
    <2> DEFINE r == NewNode(pos, closing, attrs)
    <2>2. r.parent = Null /\ r.first = Null /\ r.last = Null
      BY DEF NewNode
    <2>3. node' = [y \in DOMAIN node \cup {x} |-> IF y = x THEN r ELSE node[y]]
          /\ x \notin DOMAIN node /\ x # Null
      BY <2>1 DEF Made
    <2> HIDE DEF r
    <2> QED BY <1>1, <2>2, <2>3, MakeKeepsLinks
  <1>3. CASE ChildInserted
    <2>1. cur # Null /\ node' = InsertEndChild(node, Last(frames), cur)
      BY <1>3 DEF ChildInserted, DocumentInv, PhaseInv
    <2>2. /\ node[Last(frames)].value < node[cur].value
          /\ \A x \in DOMAIN node : node[x].parent = Last(frames) => node[x].value < node[cur].value
      BY <2>1 DEF DocumentInv, ValueInv
    <2> QED BY <1>1, <2>1, <2>2, HandFacts, InsertKeepsLinks
  <1>4. CASE DeleteChild
    <2>1. deleting # << >> /\ node[Last(deleting)].first # Null
          /\ node' = Unlink(node, node[Last(deleting)].first)
      BY <1>4 DEF DeleteChild
    <2> QED BY <1>1, <2>1, HandFacts, UnlinkKeepsLinks
  <1>5. CASE FreeNode
    <2> DEFINE x == Last(deleting)
    <2>1. deleting # << >> /\ node[x].first = Null /\ node' = [y \in DOMAIN node \ {x} |-> node[y]]
      BY <1>5 DEF FreeNode
    <2>2. x \in DOMAIN node /\ node[x].parent = Null
      BY <2>1, HandFacts
    <2> HIDE DEF x
    <2> QED BY <1>1, <2>1, <2>2, FreeKeepsLinks
  <1>6. ASSUME node' = node PROVE Links(node')
    BY <1>1, <1>6
  <1>7. node' = node \/ Identify \/ ChildInserted \/ DeleteChild \/ FreeNode
    BY DEF DocumentNext, documentVars, Parse, TextEnds, ChildFailed, EndTag, ChildMismatched, Return,
           Deleted, ParseReturns, ClearPools, PassOver, Descend, VisitPlayer, WalkEnds
  <1> QED BY <1>2, <1>3, <1>4, <1>5, <1>6, <1>7
-----------------------------------------------------------------------------
(* Documents: types *)

LEMMA NodeSteps ==
    ASSUME [DocumentNext]_documentVars
    PROVE  node' = node \/ Identify \/ ChildInserted \/ DeleteChild \/ FreeNode
  BY DEF DocumentNext, documentVars, Parse, TextEnds, ChildFailed, EndTag, ChildMismatched, Return,
         Deleted, ParseReturns, ClearPools, PassOver, Descend, VisitPlayer, WalkEnds

LEMMA HeapTypeStep ==
    DocumentInv /\ [DocumentNext]_documentVars => HeapTypes'
  <1> SUFFICES ASSUME DocumentInv, [DocumentNext]_documentVars PROVE HeapTypes'
    OBVIOUS
  <1>1. HeapTypes /\ pos \in Nat /\ Heap(node, pos) /\ Links(node)
    BY NodeHeap DEF DocumentInv, DocumentTypeInv, ParseTypes
  <1>2. CASE Identify
    <2>1. PICK k, x, f, b, closing, attrs : Made(k, x, f, b, closing, attrs)
      BY <1>2, IdentifyMakes
    <2> DEFINE r == NewNode(pos, closing, attrs)
    <2>2. r \in Fields
      BY <1>1, <2>1 DEF NewNode, Fields, Made
    <2>3. node' = [y \in DOMAIN node \cup {x} |-> IF y = x THEN r ELSE node[y]] /\ x \in Addresses
      BY <2>1 DEF Made
    <2> HIDE DEF r
    <2>4. DOMAIN node' = DOMAIN node \cup {x}
      BY <2>3
    <2>5. IsFiniteSet(DOMAIN node \cup {x})
      BY <1>1, FS_AddElement DEF HeapTypes
    <2>6. \A y \in DOMAIN node \cup {x} : (IF y = x THEN r ELSE node[y]) \in Fields
      BY <1>1, <2>2 DEF HeapTypes
    <2> QED BY <1>1, <2>2, <2>3, <2>4, <2>5, <2>6 DEF HeapTypes
  <1>3. CASE ChildInserted
    <2>1. cur # Null /\ node' = InsertEndChild(node, Last(frames), cur)
      BY <1>3 DEF ChildInserted, DocumentInv, PhaseInv
    <2>2. Heap(node', pos) /\ Inserted(node', node, Last(frames), cur)
      BY <1>1, <2>1, HandFacts, InsertFields
    <2> QED BY <1>1, <2>2 DEF Heap, Inserted, HeapTypes
  <1>4. CASE DeleteChild
    <2>1. deleting # << >> /\ node[Last(deleting)].first # Null
          /\ node' = Unlink(node, node[Last(deleting)].first)
      BY <1>4 DEF DeleteChild
    <2>2. PICK c \in DOMAIN node : c = node[Last(deleting)].first
      BY <1>1, <2>1, HandFacts DEF Links
    <2>3. Heap(node', pos) /\ Unlinked(node', node, c)
      BY <1>1, <2>1, <2>2, UnlinkFields
    <2> QED BY <1>1, <2>3 DEF Heap, Unlinked, HeapTypes
  <1>5. CASE FreeNode
    <2> DEFINE x == Last(deleting)
    <2>1. x # Doc /\ node' = [y \in DOMAIN node \ {x} |-> node[y]]
      BY <1>5 DEF FreeNode
    <2> HIDE DEF x
    <2>2. DOMAIN node' = DOMAIN node \ {x}
      BY <2>1
    <2>3. IsFiniteSet(DOMAIN node \ {x})
      BY <1>1, FS_RemoveElement DEF HeapTypes
    <2> QED BY <1>1, <2>1, <2>2, <2>3 DEF HeapTypes
  <1>6. CASE node' = node
    BY <1>1, <1>6 DEF HeapTypes
  <1> QED BY <1>2, <1>3, <1>4, <1>5, <1>6, NodeSteps

LEMMA FrontElements ==
    ASSUME NEW S, NEW s \in Seq(S), s # << >>
    PROVE  /\ Front(s) \in Seq(S) /\ Len(Front(s)) = Len(s) - 1 /\ Len(s) \in Nat /\ Len(s) >= 1
           /\ \A i \in 1 .. Len(s) - 1 : Front(s)[i] = s[i]
           /\ Len(s) > 1 => Front(s) # << >> /\ Front(s)[1] = s[1]
  <1>1. PICK n \in Nat : n = Len(s) /\ n >= 1 /\ DOMAIN s = 1 .. n
    OBVIOUS
  <1>2. PICK d : d = SubSeq(s, 1, n - 1)
    OBVIOUS
  <1>3. d \in Seq(S) /\ Len(d) = n - 1 /\ \A i \in 1 .. n - 1 : d[i] = s[i]
    BY <1>1, <1>2
  <1>4. n > 1 => d # << >> /\ d[1] = s[1]
    BY <1>1, <1>3
  <1>5. Front(s) = d
    BY <1>1, <1>2 DEF Front
  <1> QED BY <1>1, <1>3, <1>4, <1>5

LEMMA ParseTypeStep ==
    DocumentInv /\ [DocumentNext]_documentVars => ParseTypes'
  <1> SUFFICES ASSUME DocumentInv, [DocumentNext]_documentVars PROVE ParseTypes'
    OBVIOUS
  <1>1. ParseTypes
    BY DEF DocumentInv, DocumentTypeInv
  <1>2. CASE Identify
    <2>1. PICK k, x, f, b, closing, attrs : Made(k, x, f, b, closing, attrs)
      BY <1>2, IdentifyMakes
    <2>2. pos' = pos + 1 /\ pos <= Len(text) /\ text' = text /\ x \in Addresses
          /\ errorID' \in {errorID, "text", "cdata", "comment", "attribute"}
      BY <2>1 DEF Made
    <2>3. Len(text) \in Nat
      BY <1>1, DocumentsAssumption DEF ParseTypes
    <2>4. pos' \in Nat /\ 1 <= pos' /\ pos' <= Len(text) + 1
      BY <1>1, <2>2, <2>3 DEF ParseTypes
    <2>5. CASE frames' = Append(frames, x) /\ UNCHANGED <<pc, cur, result>>
      <3>1. frames' \in Seq(Addresses \cup {Doc}) /\ frames' # << >> /\ frames'[1] = Doc
        BY <1>1, <2>2, <2>5 DEF ParseTypes
      <3> QED BY <1>1, <2>2, <2>4, <2>5, <3>1 DEF ParseTypes
    <2>6. CASE cur' = x /\ result'.ok \in BOOLEAN /\ pc' = "handle" /\ UNCHANGED frames
      BY <1>1, <2>2, <2>4, <2>6 DEF ParseTypes
    <2> QED BY <2>1, <2>5, <2>6 DEF Made
  <1>3. CASE Return
    <2>1. frames \in Seq(Addresses \cup {Doc}) /\ frames[1] = Doc /\ Len(frames) > 1
      BY <1>1, <1>3 DEF ParseTypes, Return
    <2>2. Front(frames) \in Seq(Addresses \cup {Doc}) /\ Front(frames) # << >> /\ Front(frames)[1] = Doc
      BY <2>1, FrontElements
    <2>3. Last(frames) \in Addresses
      <3>1. IsInjective(frames)
        BY DEF DocumentInv, HandsInv
      <3>2. 1 \in DOMAIN frames /\ Len(frames) \in DOMAIN frames /\ Len(frames) # 1
        BY <2>1
      <3>3. frames[Len(frames)] # Doc
        BY <2>1, <3>1, <3>2 DEF IsInjective
      <3> QED BY <2>1, <3>2, <3>3 DEF Last
    <2> QED BY <1>1, <1>3, <2>2, <2>3 DEF ParseTypes, Return
  <1>4. CASE TextEnds
    BY <1>1, <1>4 DEF TextEnds, ParseTypes
  <1>5. CASE ChildFailed
    BY <1>1, <1>5 DEF ChildFailed, StartDelete, ParseTypes
  <1>6. CASE EndTag
    BY <1>1, <1>6 DEF EndTag, StartDelete, ParseTypes
  <1>7. CASE ChildMismatched
    BY <1>1, <1>7 DEF ChildMismatched, StartDelete, ParseTypes
  <1>8. CASE ChildInserted
    BY <1>1, <1>8 DEF ChildInserted, ParseTypes
  <1>9. CASE Deleted
    <2>1. pc' \in {"return", "clearPools", "done"}
      BY <1>9 DEF Deleted, DocumentInv, PhaseInv, DocumentTypeInv, WalkTypes
    <2> QED BY <1>1, <1>9, <2>1 DEF Deleted, ParseTypes
  <1>10. CASE ParseReturns
    BY <1>1, <1>10 DEF ParseReturns, ParseTypes
  <1>11. CASE Parse
    BY <1>1, <1>11 DEF Parse, ParseTypes
  <1>12. CASE ClearPools \/ VisitPlayer \/ WalkEnds
    BY <1>1, <1>12 DEF ClearPools, VisitPlayer, WalkEnds, ParseTypes
  <1>13. CASE UNCHANGED <<text, pc, pos, frames, cur, result, errorID>>
    BY <1>1, <1>13 DEF ParseTypes
  <1>14. DeleteChild \/ FreeNode \/ PassOver \/ Descend \/ UNCHANGED documentVars
          => UNCHANGED <<text, pc, pos, frames, cur, result, errorID>>
    BY DEF DeleteChild, FreeNode, PassOver, Descend, documentVars
  <1> QED BY <1>2, <1>3, <1>4, <1>5, <1>6, <1>7, <1>8, <1>9, <1>10, <1>11, <1>12, <1>13, <1>14 DEF DocumentNext

LEMMA CountUpdate ==
    ASSUME NEW f \in [Pools -> Int], NEW k \in Pools
    PROVE  [f EXCEPT ![k] = @ + 1] \in [Pools -> Int] /\ [f EXCEPT ![k] = @ - 1] \in [Pools -> Int]
  OBVIOUS

LEMMA AttrTypes ==
    ASSUME DocumentInv
    PROVE  /\ \A x \in DOMAIN node : Len(node[x].attrs) \in Nat
           /\ cur # Null => Len(node[cur].attrs) \in Nat
  <1>1. \A x \in DOMAIN node : node[x].attrs \in Seq(AttrNames)
    BY NodeHeap, FieldTypes
  <1>2. \A x \in DOMAIN node : Len(node[x].attrs) \in Nat
    BY <1>1
  <1> QED BY <1>2, HandFacts

\* The first child of the node that is being deleted: it has a parent.
LEMMA FirstChild ==
    ASSUME DocumentInv, deleting # << >>, node[Last(deleting)].first # Null
    PROVE  /\ node[Last(deleting)].first \in DOMAIN node \ {Doc}
           /\ node[Last(deleting)].first \notin Range(deleting)
  <1>1. /\ Links(node) /\ Last(deleting) \in DOMAIN node /\ Doc \in DOMAIN node
        /\ node[Doc].parent = Null
    BY HandFacts DEF DocumentInv, DocumentTypeInv, HeapTypes
  <1>2. PICK c : c = node[Last(deleting)].first
    OBVIOUS
  <1>3. c \in DOMAIN node /\ node[c].parent = Last(deleting) /\ Last(deleting) # Null
    <2>1. c \in DOMAIN node /\ node[c].parent = Last(deleting)
      BY <1>1, <1>2 DEF Links
    <2>2. Null \notin DOMAIN node
      BY NullAssumption DEF DocumentInv, DocumentTypeInv, HeapTypes, Addresses
    <2> QED BY <1>1, <2>1, <2>2
  <1>4. c \notin Hands
    BY <1>3 DEF DocumentInv, HandsInv
  <1> QED BY <1>1, <1>2, <1>3, <1>4 DEF Hands

LEMMA PoolTypeStep ==
    DocumentInv /\ [DocumentNext]_documentVars => PoolTypes'
  <1> SUFFICES ASSUME DocumentInv, [DocumentNext]_documentVars PROVE PoolTypes'
    OBVIOUS
  <1>1. PoolTypes
    BY DEF DocumentInv, DocumentTypeInv
  <1>2. CASE Identify
    <2>1. PICK k, x, f, b, closing, attrs : Made(k, x, f, b, closing, attrs)
      BY <1>2, IdentifyMakes
    <2>2. /\ f \in Seq(Addresses) /\ b \in Nat /\ attrs \in Seq(AttrNames)
          /\ free' = [free EXCEPT ![k] = f] /\ blocks' = [blocks EXCEPT ![k] = b]
          /\ currentAllocs' = [currentAllocs EXCEPT ![k] = @ + 1]
          /\ untracked' = [untracked EXCEPT ![k] = @ + 1]
          /\ attrAllocs' = attrAllocs + Len(attrs)
      BY <2>1 DEF Made
    <2>3. attrAllocs' \in Int
      BY <1>1, <2>2 DEF PoolTypes
    <2>4. currentAllocs' \in [Pools -> Int] /\ untracked' \in [Pools -> Int]
      <3>1. k \in Pools
        BY <2>1 DEF Made
      <3> QED BY <1>1, <2>2, <3>1, CountUpdate DEF PoolTypes
    <2>5. free' \in [Pools -> Seq(Addresses)] /\ blocks' \in [Pools -> Nat]
      BY <1>1, <2>2 DEF PoolTypes
    <2> QED BY <2>3, <2>4, <2>5 DEF PoolTypes
  <1>3. CASE EndTag
    <2>1. "element" \in Pools /\ untracked' = [untracked EXCEPT !["element"] = @ - 1]
          /\ UNCHANGED <<free, blocks, currentAllocs>>
      BY <1>3 DEF EndTag, Pools
    <2>2. attrAllocs' \in Int
      BY <1>1, <1>3, AttrTypes DEF EndTag, StartDelete, PoolTypes, DocumentInv, PhaseInv
    <2> QED BY <1>1, <2>1, <2>2, CountUpdate DEF PoolTypes
  <1>4. CASE ChildInserted
    <2>1. untracked' = [untracked EXCEPT ![PoolOf(cur)] = @ - 1]
          /\ UNCHANGED <<free, blocks, currentAllocs, attrAllocs>>
      BY <1>4 DEF ChildInserted
    <2>2. cur # Null /\ cur \in Addresses
      BY <1>4, HandFacts DEF ChildInserted, DocumentInv, PhaseInv
    <2>3. PoolOf(cur) \in Pools
      BY <2>2 DEF Addresses, PoolOf
    <2> QED BY <1>1, <2>1, <2>3, CountUpdate DEF PoolTypes
  <1>5. CASE ClearPools
    BY <1>5 DEF ClearPools, PoolTypes
  <1>6. CASE FreeNode
    <2> DEFINE x == Last(deleting)
               k == PoolOf(x)
    <2>1. /\ x \in DOMAIN node /\ x # Doc
          /\ free' = [free EXCEPT ![k] = <<x>> \o @] /\ blocks' = blocks
          /\ currentAllocs' = [currentAllocs EXCEPT ![k] = @ - 1]
          /\ untracked' = untracked /\ attrAllocs' = attrAllocs
      BY <1>6, HandFacts DEF FreeNode
    <2>2. x \in Addresses
      BY <2>1, NodeHeap, FieldTypes
    <2>3. k \in Pools
      BY <2>2 DEF Addresses, PoolOf
    <2> HIDE DEF x, k
    <2>4. <<x>> \o free[k] \in Seq(Addresses)
      <3>1. free[k] \in Seq(Addresses) /\ <<x>> \in Seq(Addresses)
        BY <1>1, <2>2, <2>3 DEF PoolTypes
      <3> QED BY <3>1
    <2>5. free' \in [Pools -> Seq(Addresses)]
      BY <1>1, <2>1, <2>3, <2>4 DEF PoolTypes
    <2>6. currentAllocs' \in [Pools -> Int]
      BY <1>1, <2>1, <2>3, CountUpdate DEF PoolTypes
    <2> QED BY <1>1, <2>1, <2>5, <2>6 DEF PoolTypes
  <1>7. CASE UNCHANGED poolVars
    BY <1>1, <1>7 DEF PoolTypes, poolVars, chunkVars
  <1>8. CASE ChildFailed \/ ChildMismatched
    <2>1. cur # Null /\ attrAllocs' = attrAllocs - Len(node[cur].attrs) /\ UNCHANGED chunkVars
      BY <1>8 DEF ChildFailed, ChildMismatched, StartDelete, DocumentInv, PhaseInv
    <2>2. attrAllocs' \in Int
      BY <1>1, <2>1, AttrTypes DEF PoolTypes
    <2> QED BY <1>1, <2>1, <2>2 DEF PoolTypes, chunkVars
  <1>9. CASE DeleteChild
    <2>1. PICK c \in DOMAIN node : attrAllocs' = attrAllocs - Len(node[c].attrs) /\ UNCHANGED chunkVars
      BY <1>9, FirstChild DEF DeleteChild
    <2>2. attrAllocs' \in Int
      BY <1>1, <2>1, AttrTypes DEF PoolTypes
    <2> QED BY <1>1, <2>1, <2>2 DEF PoolTypes, chunkVars
  <1>10. Identify \/ EndTag \/ ChildInserted \/ ClearPools \/ FreeNode \/ ChildFailed
         \/ ChildMismatched \/ DeleteChild \/ UNCHANGED poolVars
    BY DEF DocumentNext, documentVars, Parse, TextEnds, Return, Deleted, ParseReturns, PassOver, Descend,
         VisitPlayer, WalkEnds
  <1> QED BY <1>2, <1>3, <1>4, <1>5, <1>6, <1>7, <1>8, <1>9, <1>10

LEMMA WalkTypeStep ==
    DocumentInv /\ [DocumentNext]_documentVars => WalkTypes'
  <1> SUFFICES ASSUME DocumentInv, [DocumentNext]_documentVars PROVE WalkTypes'
    OBVIOUS
  <1>1. WalkTypes /\ cur \in Addresses \cup {Null} /\ Heap(node, pos) /\ Links(node) /\ Doc \in DOMAIN node
    BY NodeHeap DEF DocumentInv, DocumentTypeInv, ParseTypes, HeapTypes
  <1>2. cursor # Null => pc \in {"walk", "done"}
    BY DEF DocumentInv, PhaseInv
  <1>3. CASE Identify
    <2>1. PICK k, x, f, b, closing, attrs : Made(k, x, f, b, closing, attrs)
      BY <1>3, IdentifyMakes
    <2>2. UNCHANGED <<deleting, after, level, cursor, crash>> /\ cursor = Null
      BY <1>2, <2>1 DEF Made, deleteVars, walkVars
    <2> QED BY <1>1, <2>2 DEF WalkTypes
  <1>4. CASE ChildFailed \/ EndTag \/ ChildMismatched
    <2>1. <<cur>> \in Seq(Addresses \cup {Doc})
      <3>1. cur # Null
        BY <1>4 DEF ChildFailed, EndTag, ChildMismatched, DocumentInv, PhaseInv
      <3> QED BY <1>1, <3>1
    <2>2. deleting' = <<cur>> /\ after' = "return" /\ UNCHANGED <<node, level, cursor, crash>>
      BY <1>4 DEF ChildFailed, EndTag, ChildMismatched, StartDelete, walkVars
    <2> QED BY <1>1, <2>1, <2>2 DEF WalkTypes
  <1>5. CASE ChildInserted \/ FreeNode \/ DeleteChild
    <2>1. UNCHANGED <<after, level, cursor, crash>> /\ cursor = Null
      BY <1>2, <1>5 DEF ChildInserted, FreeNode, DeleteChild, deleteVars, walkVars
    <2>2. deleting' \in Seq(Addresses \cup {Doc})
      <3>1. CASE ChildInserted
        BY <1>1, <3>1 DEF ChildInserted, deleteVars, WalkTypes
      <3>2. CASE FreeNode
        BY <1>1, <3>2 DEF FreeNode, WalkTypes, Front
      <3>3. CASE DeleteChild
        <4>1. deleting # << >> /\ node[Last(deleting)].first # Null
              /\ deleting' = Append(deleting, node[Last(deleting)].first)
          BY <3>3 DEF DeleteChild
        <4>2. node[Last(deleting)].first \in Addresses
          BY <1>1, <4>1, HandFacts, FieldTypes
        <4> QED BY <1>1, <4>1, <4>2 DEF WalkTypes
      <3> QED BY <1>5, <3>1, <3>2, <3>3
    <2> QED BY <1>1, <2>1, <2>2 DEF WalkTypes
  <1>6. CASE Deleted
    BY <1>1, <1>6 DEF Deleted, WalkTypes, walkVars
  <1>7. CASE ParseReturns
    <2>1. node[Doc].first \in DOMAIN node \cup {Null}
      BY <1>1 DEF Links
    <2>2. UNCHANGED <<node, level, crash>> /\ cursor' \in {cursor, node[Doc].first}
          /\ (UNCHANGED deleteVars \/ (deleting' = <<Doc>> /\ after' = "clearPools"))
      BY <1>7 DEF ParseReturns
    <2>3. deleting' \in Seq(Addresses \cup {Doc}) /\ after' \in {"none", "return", "clearPools", "done"}
      <3>1. <<Doc>> \in Seq(Addresses \cup {Doc})
        OBVIOUS
      <3> QED BY <1>1, <2>2, <3>1 DEF WalkTypes, deleteVars
    <2>4. cursor' \in DOMAIN node \cup {Null} /\ level' = level /\ crash' = crash
      BY <1>1, <2>1, <2>2 DEF WalkTypes
    <2> QED BY <1>1, <2>2, <2>3, <2>4 DEF WalkTypes
  <1>8. ASSUME pc = "walk", cursor # Null, cursor # Doc PROVE node[cursor].next \in DOMAIN node \cup {Null}
    <2>1. frames = <<Doc>> /\ cur = Null /\ deleting = << >>
      BY <1>8 DEF DocumentInv, PhaseInv
    <2>2. Range(frames) = {Doc} /\ Range(deleting) = {}
      BY <2>1 DEF Range
    <2>3. cursor \in DOMAIN node /\ cursor \notin Hands
      BY <1>1, <1>8, <2>1, <2>2 DEF Hands, WalkTypes
    <2>4. node[cursor].parent # Null
      BY <2>3 DEF DocumentInv, HandsInv
    <2> QED BY <1>1, <2>3, <2>4 DEF Links
  <1>9. CASE PassOver
    <2>1. pc = "walk" /\ cursor # Null /\ cursor' = node[cursor].next
          /\ UNCHANGED <<node, deleting, after, level, crash>>
      BY <1>9 DEF PassOver, deleteVars
    <2>2. cursor # Doc
      BY <2>1 DEF DocumentInv, PhaseInv
    <2>3. node[cursor].next \in DOMAIN node \cup {Null}
      BY <1>8, <2>1, <2>2
    <2> QED BY <1>1, <2>1, <2>3 DEF WalkTypes
  <1>10. CASE Descend
    <2>1. node[cursor].first \in DOMAIN node \cup {Null} /\ level + 1 <= Len(Path)
      BY <1>1, <1>10, PathAssumption DEF Descend, Links, WalkTypes
    <2> QED BY <1>1, <1>10, <2>1 DEF WalkTypes, Descend, deleteVars
  <1>11. CASE VisitPlayer
    <2>1. cursor # Doc /\ cursor # Null /\ pc = "walk"
      BY <1>11 DEF VisitPlayer, IsElement
    <2>2. node[cursor].next \in DOMAIN node \cup {Null}
      BY <1>8, <2>1
    <2>3. UNCHANGED <<node, deleting, after, level>> /\ cursor' \in {cursor, node[cursor].next}
          /\ crash' \in {crash, "nullString"}
      BY <1>11 DEF VisitPlayer, deleteVars
    <2> QED BY <1>1, <2>2, <2>3 DEF WalkTypes
  <1>12. CASE WalkEnds
    BY <1>1, <1>12 DEF WalkEnds, WalkTypes, walkVars
  <1>13. CASE UNCHANGED <<node, deleting, after, level, cursor, crash>>
    BY <1>1, <1>13 DEF WalkTypes
  <1>14. Parse \/ TextEnds \/ Return \/ ClearPools \/ UNCHANGED documentVars
         => UNCHANGED <<node, deleting, after, level, cursor, crash>>
    BY DEF Parse, TextEnds, Return, ClearPools, documentVars, deleteVars, walkVars
  <1> QED BY <1>3, <1>4, <1>5, <1>6, <1>7, <1>9, <1>10, <1>11, <1>12, <1>13, <1>14 DEF DocumentNext
-----------------------------------------------------------------------------
(* Documents: who holds a node that has no parent *)

LEMMA SingleElement ==
    ASSUME NEW c
    PROVE  Range(<<c>>) = {c} /\ IsInjective(<<c>>)
  BY DEF Range, IsInjective

LEMMA NoElement ==
    Range(<< >>) = {} /\ IsInjective(<< >>)
  BY DEF Range, IsInjective

LEMMA AppendDistinct ==
    ASSUME NEW S, NEW s \in Seq(S), NEW c, IsInjective(s), c \notin Range(s)
    PROVE  Range(Append(s, c)) = Range(s) \cup {c} /\ IsInjective(Append(s, c))
  <1>1. PICK n \in Nat : n = Len(s) /\ DOMAIN s = 1 .. n
    OBVIOUS
  <1>2. PICK t : t = Append(s, c)
    OBVIOUS
  <1>3. DOMAIN t = 1 .. n + 1 /\ t[n + 1] = c /\ \A i \in 1 .. n : t[i] = s[i]
    BY <1>1, <1>2
  <1>4. \A i \in 1 .. n + 1 : i \in 1 .. n \/ i = n + 1
    BY <1>1
  <1>5. Range(t) = Range(s) \cup {c}
    <2>1. ASSUME NEW v \in Range(t) PROVE v \in Range(s) \cup {c}
      BY <1>1, <1>3, <1>4, <2>1 DEF Range
    <2>2. \A i \in 1 .. n : i \in 1 .. n + 1
      BY <1>1
    <2>3. n + 1 \in 1 .. n + 1
      BY <1>1
    <2>4. ASSUME NEW v \in Range(s) \cup {c} PROVE v \in Range(t)
      BY <1>1, <1>3, <2>2, <2>3 DEF Range
    <2> QED BY <2>1, <2>4
  <1>6. IsInjective(t)
    <2>1. \A i \in 1 .. n : s[i] # c
      BY <1>1 DEF Range
    <2>2. \A i, j \in 1 .. n : s[i] = s[j] => i = j
      BY <1>1 DEF IsInjective
    <2>3. ASSUME NEW i \in 1 .. n + 1, NEW j \in 1 .. n + 1, t[i] = t[j] PROVE i = j
      BY <1>3, <1>4, <2>1, <2>2, <2>3
    <2> QED BY <1>3, <2>3 DEF IsInjective
  <1> QED BY <1>2, <1>5, <1>6

LEMMA FrontDistinct ==
    ASSUME NEW S, NEW s \in Seq(S), s # << >>, IsInjective(s)
    PROVE  /\ Range(Front(s)) = Range(s) \ {Last(s)} /\ IsInjective(Front(s))
           /\ Last(s) \in Range(s)
  <1>1. PICK n \in Nat : n = Len(s) /\ n >= 1 /\ DOMAIN s = 1 .. n
    OBVIOUS
  <1>2. PICK t : t = Front(s)
    OBVIOUS
  <1>3. t \in Seq(S) /\ Len(t) = n - 1 /\ \A i \in 1 .. n - 1 : t[i] = s[i]
    BY <1>1, <1>2, FrontElements
  <1>4. DOMAIN t = 1 .. n - 1
    BY <1>3
  <1>5. Last(s) = s[n]
    BY <1>1 DEF Last
  <1>6. \A i, j \in 1 .. n : s[i] = s[j] => i = j
    BY <1>1 DEF IsInjective
  <1>7. /\ \A i \in 1 .. n : i \in 1 .. n - 1 \/ i = n
        /\ \A i \in 1 .. n - 1 : i \in 1 .. n /\ i # n
        /\ n \in 1 .. n
    BY <1>1
  <1>8. Range(t) = Range(s) \ {s[n]}
    <2>1. ASSUME NEW v \in Range(t) PROVE v \in Range(s) \ {s[n]}
      <3>1. PICK i \in 1 .. n - 1 : v = s[i]
        BY <1>3, <1>4 DEF Range
      <3>2. i \in 1 .. n /\ i # n /\ s[i] # s[n]
        BY <1>6, <1>7
      <3> QED BY <1>1, <3>1, <3>2 DEF Range
    <2>2. ASSUME NEW v \in Range(s) \ {s[n]} PROVE v \in Range(t)
      BY <1>1, <1>3, <1>4, <1>7, <2>2 DEF Range
    <2> QED BY <2>1, <2>2
  <1>9. IsInjective(t)
    <2>1. ASSUME NEW i \in 1 .. n - 1, NEW j \in 1 .. n - 1, t[i] = t[j] PROVE i = j
      BY <1>3, <1>6, <1>7, <2>1
    <2> QED BY <1>4, <2>1 DEF IsInjective
  <1> QED BY <1>1, <1>2, <1>5, <1>7, <1>8, <1>9 DEF Range

LEMMA HandsStep ==
    DocumentInv /\ [DocumentNext]_documentVars => HandsInv'
  <1> SUFFICES ASSUME DocumentInv, [DocumentNext]_documentVars PROVE HandsInv'
    OBVIOUS
  <1>1. PICK F : F = Range(frames)
    OBVIOUS
  <1>2. PICK D : D = Range(deleting)
    OBVIOUS
  <1>3. /\ \A x \in DOMAIN node : node[x].parent = Null <=> x \in F \cup {cur} \cup D
        /\ F \cup {cur} \cup D \subseteq DOMAIN node \cup {Null}
        /\ IsInjective(frames) /\ IsInjective(deleting) /\ cur \notin F /\ F \cap D \subseteq {Doc}
    BY <1>1, <1>2 DEF DocumentInv, HandsInv, Hands
  <1>4. /\ frames \in Seq(Addresses \cup {Doc}) /\ frames # << >> /\ frames[1] = Doc
        /\ deleting \in Seq(Addresses \cup {Doc}) /\ Doc \in DOMAIN node
        /\ Heap(node, pos) /\ Links(node) /\ Null \notin DOMAIN node
    BY NodeHeap DEF DocumentInv, DocumentTypeInv, ParseTypes, HeapTypes, WalkTypes
  <1>5. Doc \in F /\ Null \notin F /\ Null \notin D /\ Doc # Null
    <2>1. 1 \in DOMAIN frames /\ Doc # Null /\ Null \notin Addresses
      BY <1>4, NullAssumption DEF Addresses
    <2> QED BY <1>1, <1>2, <1>4, <2>1 DEF Range
  <1>6. (cur # Null <=> pc = "handle") /\ (pc # "delete" => D = {} /\ deleting = << >>)
    BY <1>2, NoElement DEF DocumentInv, PhaseInv
  <1>7. Last(frames) \in F /\ (deleting # << >> => Last(deleting) \in D)
    BY <1>1, <1>2, <1>3, <1>4, FrontDistinct
  <1> DEFINE Goal(G, c, E) ==
        /\ \A x \in DOMAIN node' : node'[x].parent = Null <=> x \in G \cup {c} \cup E
        /\ G \cup {c} \cup E \subseteq DOMAIN node' \cup {Null}
        /\ c \notin G /\ G \cap E \subseteq {Doc}
  <1>8. ASSUME Goal(Range(frames'), cur', Range(deleting')), IsInjective(frames'), IsInjective(deleting')
        PROVE  HandsInv'
    BY <1>8 DEF HandsInv, Hands
  <1>9. CASE Identify
    <2>1. PICK k, x, f, b, closing, attrs : Made(k, x, f, b, closing, attrs)
      BY <1>9, IdentifyMakes
    <2>2. /\ pc = "loop" /\ x \notin DOMAIN node /\ x # Null /\ x # Doc /\ deleting' = deleting
          /\ node' = [y \in DOMAIN node \cup {x} |-> IF y = x THEN NewNode(pos, closing, attrs) ELSE node[y]]
      BY <2>1 DEF Made, deleteVars
    <2>3. cur = Null /\ D = {} /\ x \notin F
      BY <1>3, <1>6, <2>2
    <2>4. DOMAIN node' = DOMAIN node \cup {x} /\ node'[x].parent = Null
          /\ \A y \in DOMAIN node : node'[y].parent = node[y].parent
      BY <2>2 DEF NewNode
    <2>5. CASE frames' = Append(frames, x) /\ UNCHANGED <<pc, cur, result>>
      <3>1. Range(frames') = F \cup {x} /\ IsInjective(frames')
        BY <1>1, <1>3, <1>4, <2>3, <2>5, AppendDistinct
      <3>2. Goal(F \cup {x}, cur, D)
        BY <1>3, <2>2, <2>3, <2>4
      <3> QED BY <1>2, <1>3, <1>8, <2>2, <2>5, <3>1, <3>2
    <2>6. CASE cur' = x /\ UNCHANGED frames
      <3>1. Goal(F, x, D)
        BY <1>3, <1>4, <2>2, <2>3, <2>4
      <3> QED BY <1>1, <1>2, <1>3, <1>8, <2>2, <2>6, <3>1
    <2> QED BY <2>1, <2>5, <2>6 DEF Made
  <1>10. CASE ChildInserted
    <2>1. cur # Null /\ node' = InsertEndChild(node, Last(frames), cur) /\ cur' = Null
          /\ frames' = frames /\ deleting' = deleting /\ D = {}
      BY <1>6, <1>10 DEF ChildInserted, deleteVars
    <2>2. Inserted(node', node, Last(frames), cur)
      BY <1>4, <2>1, HandFacts, InsertFields
    <2>3. DOMAIN node' = DOMAIN node /\ Last(frames) # Null
          /\ \A y \in DOMAIN node : node'[y].parent = IF y = cur THEN Last(frames) ELSE node[y].parent
      BY <1>5, <1>7, <2>2 DEF Inserted
    <2>4. Goal(F, Null, D)
      BY <1>3, <1>4, <1>5, <2>1, <2>3
    <2> QED BY <1>1, <1>2, <1>3, <1>8, <2>1, <2>4
  <1>11. CASE DeleteChild
    <2>1. deleting # << >> /\ node[Last(deleting)].first # Null /\ pc = "delete"
          /\ node' = Unlink(node, node[Last(deleting)].first)
          /\ deleting' = Append(deleting, node[Last(deleting)].first) /\ UNCHANGED <<frames, cur>>
      BY <1>11 DEF DeleteChild
    <2>2. PICK c \in DOMAIN node : c = node[Last(deleting)].first /\ node[c].parent # Null
      BY <1>4, <1>7, <2>1, HandFacts DEF Links
    <2>3. Unlinked(node', node, c)
      BY <1>4, <2>1, <2>2, UnlinkFields
    <2>4. DOMAIN node' = DOMAIN node
          /\ \A y \in DOMAIN node : node'[y].parent = IF y = c THEN Null ELSE node[y].parent
      BY <2>3 DEF Unlinked
    <2>5. c \notin F /\ c \notin D /\ c # cur
      BY <1>3, <2>2
    <2>6. Range(deleting') = D \cup {c} /\ IsInjective(deleting')
      BY <1>2, <1>3, <1>4, <2>1, <2>2, <2>5, AppendDistinct
    <2>7. Goal(F, cur, D \cup {c})
      BY <1>3, <2>4, <2>5
    <2> QED BY <1>1, <1>3, <1>8, <2>1, <2>6, <2>7
  <1>12. CASE FreeNode
    <2> DEFINE x == Last(deleting)
    <2>1. deleting # << >> /\ pc = "delete" /\ x # Doc /\ node' = [y \in DOMAIN node \ {x} |-> node[y]]
          /\ deleting' = Front(deleting) /\ UNCHANGED <<frames, cur>>
      BY <1>12 DEF FreeNode
    <2>2. Range(deleting') = D \ {x} /\ IsInjective(deleting') /\ x \in D
      BY <1>2, <1>3, <1>4, <2>1, FrontDistinct
    <2> HIDE DEF x
    <2>3. cur = Null /\ x \notin F /\ x # Null
      BY <1>3, <1>5, <1>6, <2>1, <2>2
    <2>4. DOMAIN node' = DOMAIN node \ {x} /\ \A y \in DOMAIN node' : node'[y] = node[y]
      BY <2>1
    <2>5. Goal(F, cur, D \ {x})
      BY <1>3, <2>2, <2>3, <2>4
    <2> QED BY <1>1, <1>3, <1>8, <2>1, <2>2, <2>5
  <1>13. CASE ChildFailed \/ EndTag \/ ChildMismatched
    <2>1. pc = "handle" /\ deleting' = <<cur>> /\ cur' = Null /\ UNCHANGED <<frames, node>>
      BY <1>13 DEF ChildFailed, EndTag, ChildMismatched, StartDelete
    <2>2. Range(deleting') = {cur} /\ IsInjective(deleting') /\ D = {}
      BY <1>6, <2>1, SingleElement
    <2>3. Goal(F, Null, {cur})
      BY <1>3, <1>4, <1>5, <1>6, <2>1, <2>2
    <2> QED BY <1>1, <1>3, <1>8, <2>1, <2>2, <2>3
  <1>14. CASE Return
    <2>1. pc = "return" /\ cur' = Last(frames) /\ frames' = Front(frames) /\ UNCHANGED <<node, deleting>>
      BY <1>14 DEF Return, deleteVars
    <2>2. Range(frames') = F \ {Last(frames)} /\ IsInjective(frames')
      BY <1>1, <1>3, <1>4, <2>1, FrontDistinct
    <2>3. D = {} /\ cur = Null
      BY <1>6, <2>1
    <2>4. Goal(F \ {Last(frames)}, Last(frames), D)
      BY <1>3, <1>4, <1>5, <1>7, <2>1, <2>3
    <2> QED BY <1>2, <1>3, <1>8, <2>1, <2>2, <2>4
  <1>15. CASE Deleted \/ ParseReturns \/ WalkEnds
    <2>1. UNCHANGED <<frames, cur, node>> /\ deleting \in {<< >>, <<Doc>>} /\ deleting' \in {<< >>, <<Doc>>}
      BY <1>6, <1>15 DEF Deleted, ParseReturns, WalkEnds, deleteVars
    <2>2. D \subseteq {Doc} /\ Range(deleting') \subseteq {Doc} /\ IsInjective(deleting')
      BY <1>2, <2>1, SingleElement, NoElement
    <2>3. Goal(F, cur, Range(deleting'))
      BY <1>3, <1>5, <2>1, <2>2
    <2> QED BY <1>1, <1>3, <1>8, <2>1, <2>2, <2>3
  <1>16. CASE UNCHANGED <<frames, cur, node, deleting>>
    BY <1>1, <1>2, <1>3, <1>8, <1>16
  <1>17. Parse \/ TextEnds \/ ClearPools \/ PassOver \/ Descend \/ VisitPlayer \/ UNCHANGED documentVars
         => UNCHANGED <<frames, cur, node, deleting>>
    BY DEF Parse, TextEnds, ClearPools, PassOver, Descend, VisitPlayer, documentVars, deleteVars
  <1> QED BY <1>9, <1>10, <1>11, <1>12, <1>13, <1>14, <1>15, <1>16, <1>17 DEF DocumentNext

-----------------------------------------------------------------------------
(* Documents: nodes are made in the order of the text *)

LEMMA ValueKept ==
    ASSUME DocumentInv, DOMAIN node' \subseteq DOMAIN node,
           \A x \in DOMAIN node' : /\ node'[x].value = node[x].value
                                   /\ node'[x].parent \in {node[x].parent, Null},
           frames' = frames, pos' = pos, cur' \in {cur, Null}, Range(frames) \subseteq DOMAIN node',
           cur' # Null => cur \in DOMAIN node'
    PROVE  ValueInv'
  <1>1. ValueInv /\ Null \notin DOMAIN node
    BY NodeHeap DEF DocumentInv, Heap
  <1>2. /\ Len(frames) \in Nat /\ Len(frames) >= 1 /\ DOMAIN frames = 1 .. Len(frames)
        /\ Last(frames) = frames[Len(frames)]
    BY HandFacts
  <1>3. \A j \in 1 .. Len(frames) : frames[j] \in DOMAIN node' /\ frames[j] # Null
    BY <1>1, <1>2 DEF Range
  <1>4. \A j \in 1 .. Len(frames) - 1 : j \in 1 .. Len(frames) /\ j + 1 \in 1 .. Len(frames)
    BY <1>2
  <1>5. Len(frames) \in 1 .. Len(frames)
    BY <1>2
  <1>6. \A x \in DOMAIN node' : node'[x].value < pos
    BY <1>1 DEF ValueInv
  <1>7. ASSUME NEW j \in 1 .. Len(frames) - 1
        PROVE  /\ node'[frames[j]].value < node'[frames[j + 1]].value
               /\ \A x \in DOMAIN node' : node'[x].parent = frames[j] => node'[x].value < node'[frames[j + 1]].value
    <2>1. /\ node[frames[j]].value < node[frames[j + 1]].value
          /\ \A x \in DOMAIN node : node[x].parent = frames[j] => node[x].value < node[frames[j + 1]].value
      BY <1>1 DEF ValueInv
    <2> QED BY <1>3, <1>4, <2>1
  <1>8. ASSUME cur' # Null
        PROVE  /\ node'[Last(frames)].value < node'[cur].value
               /\ \A x \in DOMAIN node' : node'[x].parent = Last(frames) => node'[x].value < node'[cur].value
    <2>1. /\ node[Last(frames)].value < node[cur].value
          /\ \A x \in DOMAIN node : node[x].parent = Last(frames) => node[x].value < node[cur].value
      BY <1>1, <1>8 DEF ValueInv
    <2> QED BY <1>2, <1>3, <1>5, <1>8, <2>1
  <1> QED BY <1>6, <1>7, <1>8 DEF ValueInv

LEMMA ValueStep ==
    DocumentInv /\ [DocumentNext]_documentVars => ValueInv'
  <1> SUFFICES ASSUME DocumentInv, [DocumentNext]_documentVars PROVE ValueInv'
    OBVIOUS
  <1>1. ValueInv /\ Null \notin DOMAIN node /\ Heap(node, pos) /\ Links(node) /\ pos \in Nat
        /\ frames \in Seq(Addresses \cup {Doc})
    BY NodeHeap DEF DocumentInv, Heap, DocumentTypeInv, ParseTypes
  <1>2. PICK n \in Nat : n = Len(frames) /\ n >= 1 /\ DOMAIN frames = 1 .. n /\ Last(frames) = frames[n]
    BY HandFacts
  <1>3. \A j \in 1 .. n : frames[j] \in DOMAIN node /\ frames[j] # Null
    BY <1>1, <1>2, HandFacts
  <1>4. \A j \in 1 .. n - 1 : j \in 1 .. n /\ j + 1 \in 1 .. n /\ j # n
    BY <1>2
  <1>5. n \in 1 .. n
    BY <1>2
  <1>6. \A x \in DOMAIN node : node[x].value < pos /\ node[x].value \in Nat
    BY <1>1, FieldTypes DEF ValueInv
  <1>7. \A j \in 1 .. n - 1 :
           /\ node[frames[j]].value < node[frames[j + 1]].value
           /\ \A x \in DOMAIN node : node[x].parent = frames[j] => node[x].value < node[frames[j + 1]].value
    BY <1>1, <1>2 DEF ValueInv
  <1>8. Range(frames) \subseteq DOMAIN node /\ (cur # Null => cur \in DOMAIN node)
    BY <1>2, <1>3, HandFacts DEF Range
  <1>9. CASE Identify
    <2>1. PICK k, x, f, b, closing, attrs : Made(k, x, f, b, closing, attrs)
      BY <1>9, IdentifyMakes
    <2>2. /\ pc = "loop" /\ x \notin DOMAIN node /\ x # Null /\ pos' = pos + 1
          /\ node' = [y \in DOMAIN node \cup {x} |-> IF y = x THEN NewNode(pos, closing, attrs) ELSE node[y]]
      BY <2>1 DEF Made
    <2>3. cur = Null
      BY <2>2 DEF DocumentInv, PhaseInv
    <2>4. /\ DOMAIN node' = DOMAIN node \cup {x} /\ node'[x].value = pos /\ node'[x].parent = Null
          /\ \A y \in DOMAIN node : node'[y] = node[y]
      BY <2>2 DEF NewNode
    <2>5. \A y \in DOMAIN node' : node'[y].value < pos'
      BY <1>1, <1>6, <2>2, <2>4
    <2>6. ASSUME NEW c \in DOMAIN node, c # Null
          PROVE  /\ node'[c].value < node'[x].value
                 /\ \A y \in DOMAIN node' : node'[y].parent = c => node'[y].value < node'[x].value
      BY <1>6, <2>4, <2>6
    <2>7. ASSUME NEW j \in 1 .. n - 1
          PROVE  /\ node'[frames[j]].value < node'[frames[j + 1]].value
                 /\ \A y \in DOMAIN node' : node'[y].parent = frames[j] => node'[y].value < node'[frames[j + 1]].value
      BY <1>3, <1>4, <1>7, <2>4
    <2>8. CASE frames' = Append(frames, x) /\ UNCHANGED <<pc, cur, result>>
      <3>1. Len(frames') = n + 1 /\ frames'[n + 1] = x /\ \A j \in 1 .. n : frames'[j] = frames[j]
        BY <1>1, <1>2, <2>8
      <3>2. \A j \in 1 .. Len(frames') - 1 : j \in 1 .. n - 1 \/ j = n
        BY <1>2, <3>1
      <3>3. ASSUME NEW j \in 1 .. Len(frames') - 1
            PROVE  /\ node'[frames'[j]].value < node'[frames'[j + 1]].value
                   /\ \A y \in DOMAIN node' :
                        node'[y].parent = frames'[j] => node'[y].value < node'[frames'[j + 1]].value
        <4>1. CASE j = n
          BY <1>3, <1>5, <2>6, <3>1, <4>1
        <4>2. CASE j \in 1 .. n - 1
          BY <1>4, <2>7, <3>1, <4>2
        <4> QED BY <3>2, <4>1, <4>2
      <3> QED BY <2>3, <2>5, <2>8, <3>3 DEF ValueInv
    <2>9. CASE cur' = x /\ UNCHANGED frames
      <3>1. /\ node'[Last(frames)].value < node'[x].value
            /\ \A y \in DOMAIN node' : node'[y].parent = Last(frames) => node'[y].value < node'[x].value
        BY <1>2, <1>3, <1>5, <2>6
      <3> QED BY <1>2, <2>5, <2>7, <2>9, <3>1 DEF ValueInv
    <2> QED BY <2>1, <2>8, <2>9 DEF Made
  <1>10. CASE ChildInserted
    <2>1. /\ cur # Null /\ node' = InsertEndChild(node, Last(frames), cur)
          /\ cur' = Null /\ frames' = frames /\ pos' = pos
      BY <1>10 DEF ChildInserted, DocumentInv, PhaseInv
    <2>2. Inserted(node', node, Last(frames), cur)
      BY <1>1, <2>1, HandFacts, InsertFields
    <2>3. /\ DOMAIN node' = DOMAIN node
          /\ \A y \in DOMAIN node : /\ node'[y].value = node[y].value
                                    /\ node'[y].parent \in {frames[n], node[y].parent}
      BY <1>2, <2>2 DEF Inserted
    <2>4. \A j \in 1 .. n - 1 : frames[j] # frames[n]
      BY <1>2, <1>4, <1>5 DEF DocumentInv, HandsInv, IsInjective
    <2>5. ASSUME NEW j \in 1 .. n - 1
          PROVE  /\ node'[frames[j]].value < node'[frames[j + 1]].value
                 /\ \A y \in DOMAIN node' : node'[y].parent = frames[j] => node'[y].value < node'[frames[j + 1]].value
      <3>1. frames[j] \in DOMAIN node /\ frames[j + 1] \in DOMAIN node /\ frames[j] # frames[n]
        BY <1>3, <1>4, <2>4
      <3> QED BY <1>7, <2>3, <3>1
    <2>6. \A y \in DOMAIN node' : node'[y].value < pos
      BY <1>6, <2>3
    <2> QED BY <1>2, <2>1, <2>5, <2>6 DEF ValueInv
  <1>11. CASE DeleteChild
    <2>1. /\ deleting # << >> /\ node[Last(deleting)].first # Null
          /\ node' = Unlink(node, node[Last(deleting)].first) /\ UNCHANGED <<frames, cur, pos>>
      BY <1>11 DEF DeleteChild
    <2>2. PICK c \in DOMAIN node : c = node[Last(deleting)].first
      BY <1>1, <2>1, HandFacts DEF Links
    <2>3. Unlinked(node', node, c)
      BY <1>1, <2>1, <2>2, UnlinkFields
    <2>4. /\ DOMAIN node' = DOMAIN node
          /\ \A y \in DOMAIN node : /\ node'[y].value = node[y].value
                                    /\ node'[y].parent \in {node[y].parent, Null}
      BY <2>3 DEF Unlinked
    <2> QED BY <1>8, <2>1, <2>4, ValueKept
  <1>12. CASE FreeNode
    <2> DEFINE x == Last(deleting)
    <2>1. /\ deleting # << >> /\ pc = "delete" /\ x # Doc
          /\ node' = [y \in DOMAIN node \ {x} |-> node[y]] /\ UNCHANGED <<frames, cur, pos>>
      BY <1>12 DEF FreeNode
    <2>2. x \in Range(deleting) /\ cur = Null
      BY <2>1, HandFacts DEF Range, DocumentInv, PhaseInv
    <2>3. x \notin Range(frames)
      BY <2>1, <2>2 DEF DocumentInv, HandsInv
    <2> HIDE DEF x
    <2>4. DOMAIN node' = DOMAIN node \ {x} /\ \A y \in DOMAIN node' : node'[y] = node[y]
      BY <2>1
    <2>5. Range(frames) \subseteq DOMAIN node' /\ DOMAIN node' \subseteq DOMAIN node
      BY <1>8, <2>3, <2>4
    <2> QED BY <2>1, <2>2, <2>4, <2>5, ValueKept
  <1>13. CASE Return
    <2>1. /\ n > 1 /\ cur' = frames[n] /\ frames' = Front(frames) /\ UNCHANGED <<node, pos>>
      BY <1>2, <1>13 DEF Return
    <2>2. Len(frames') = n - 1 /\ \A j \in 1 .. n - 1 : frames'[j] = frames[j]
      BY <1>1, <1>2, <2>1, FrontElements
    <2>3. n - 1 \in 1 .. n - 1 /\ (n - 1) + 1 = n /\ \A j \in 1 .. (n - 1) - 1 : j \in 1 .. n - 1 /\ j + 1 \in 1 .. n - 1
      BY <1>2, <2>1
    <2>4. Last(frames') = frames[n - 1]
      BY <2>2, <2>3 DEF Last
    <2>5. /\ node[frames[n - 1]].value < node[frames[n]].value
          /\ \A x \in DOMAIN node : node[x].parent = frames[n - 1] => node[x].value < node[frames[n]].value
      BY <1>7, <2>3
    <2>6. ASSUME NEW j \in 1 .. Len(frames') - 1
          PROVE  /\ node[frames'[j]].value < node[frames'[j + 1]].value
                 /\ \A x \in DOMAIN node : node[x].parent = frames'[j] => node[x].value < node[frames'[j + 1]].value
      BY <1>7, <2>2, <2>3
    <2> QED BY <1>6, <2>1, <2>4, <2>5, <2>6 DEF ValueInv
  <1>14. CASE UNCHANGED <<frames, node, pos>> /\ cur' \in {cur, Null}
    BY <1>8, <1>14, ValueKept
  <1>15. Parse \/ TextEnds \/ ChildFailed \/ EndTag \/ ChildMismatched \/ Deleted \/ ParseReturns \/ ClearPools
         \/ PassOver \/ Descend \/ VisitPlayer \/ WalkEnds \/ UNCHANGED documentVars
         => UNCHANGED <<frames, node, pos>> /\ cur' \in {cur, Null}
    BY DEF Parse, TextEnds, ChildFailed, EndTag, ChildMismatched, StartDelete, Deleted, ParseReturns,
           ClearPools, PassOver, Descend, VisitPlayer, WalkEnds, documentVars
  <1> QED BY <1>9, <1>10, <1>11, <1>12, <1>13, <1>14, <1>15 DEF DocumentNext

-----------------------------------------------------------------------------
(* Documents: where the calls are *)

LEMMA NoOrphans ==
    ASSUME DocumentInv, frames = <<Doc>>, cur = Null, Range(deleting) \subseteq {Doc}, node[Doc].first = Null
    PROVE  Nodes = {}
  <1>1. Heap(node, pos) /\ Links(node) /\ Doc \in DOMAIN node /\ Null \notin DOMAIN node
    BY NodeHeap DEF DocumentInv, DocumentTypeInv, HeapTypes, Heap
  <1>2. Range(frames) = {Doc}
    BY SingleElement
  <1>3. \A x \in Nodes : x \in DOMAIN node /\ x # Doc
    BY DEF Nodes
  <1>4. \A x \in Nodes : node[x].parent # Null /\ node[x].value \in Nat
    <2>1. \A x \in Nodes : x \notin Hands
      BY <1>1, <1>2, <1>3 DEF Hands
    <2> QED BY <1>1, <1>3, <2>1, FieldTypes DEF DocumentInv, HandsInv
  <1>5. ASSUME Nodes # {} PROVE FALSE
    <2> DEFINE T == {node[x].value : x \in Nodes}
    <2>1. T \subseteq Nat /\ T # {}
      BY <1>4, <1>5
    <2> HIDE DEF T
    <2>2. PICK v \in T : \A u \in T : v <= u
      BY <2>1, LeastNumber
    <2>3. PICK x \in Nodes : v = node[x].value
      BY <2>2 DEF T
    <2>4. PICK y : y = node[x].parent
      OBVIOUS
    <2>5. y \in DOMAIN node /\ node[y].value < node[x].value
      BY <1>1, <1>3, <1>4, <2>3, <2>4 DEF Links
    <2>6. y # Doc
      BY <1>1, <1>3, <1>4, <2>3, <2>4, EldestIsFirst
    <2>7. y \in Nodes /\ node[y].value \in T
      BY <2>5, <2>6 DEF Nodes, T
    <2> QED BY <1>4, <2>2, <2>3, <2>5, <2>7
  <1> QED BY <1>5

LEMMA PhaseStep ==
    DocumentInv /\ [DocumentNext]_documentVars => PhaseInv'
  <1> SUFFICES ASSUME DocumentInv, [DocumentNext]_documentVars PROVE PhaseInv'
    OBVIOUS
  <1>1. /\ PhaseInv /\ Heap(node, pos) /\ Links(node) /\ Null \notin DOMAIN node /\ Doc \in DOMAIN node
        /\ Doc # Null /\ Doc \notin Addresses
    BY NodeHeap, NullAssumption DEF DocumentInv, Heap, DocumentTypeInv, HeapTypes, Addresses
  <1>2. CASE Identify
    <2>1. PICK k, x, f, b, closing, attrs : Made(k, x, f, b, closing, attrs)
      BY <1>2, IdentifyMakes
    <2>2. /\ pc = "loop" /\ x # Null /\ UNCHANGED <<deleting, after, cursor, crash>>
          /\ (pc' = pc /\ cur' = cur) \/ (pc' = "handle" /\ cur' = x)
      BY <2>1 DEF Made, deleteVars, walkVars
    <2> QED BY <1>1, <2>2 DEF PhaseInv
  <1>3. CASE ChildInserted
    <2>1. pc = "handle" /\ pc' = "loop" /\ cur' = Null /\ UNCHANGED <<deleting, after, cursor, crash>>
      BY <1>3 DEF ChildInserted, deleteVars, walkVars
    <2> QED BY <1>1, <2>1 DEF PhaseInv
  <1>4. CASE DeleteChild
    <2>1. /\ pc = "delete" /\ deleting # << >> /\ node[Last(deleting)].first # Null
          /\ deleting' = Append(deleting, node[Last(deleting)].first)
          /\ UNCHANGED <<pc, cur, after, frames, errorID, cursor, crash>>
      BY <1>4 DEF DeleteChild, walkVars
    <2>2. PICK c : c = node[Last(deleting)].first /\ c \in Addresses
      BY <1>1, <2>1, HandFacts, FieldTypes
    <2>3. deleting \in Seq(Addresses \cup {Doc})
      BY DEF DocumentInv, DocumentTypeInv, WalkTypes
    <2>4. deleting' # << >> /\ deleting'[1] = deleting[1]
      BY <2>1, <2>3
    <2>5. Range(deleting') = Range(deleting) \cup {c}
      <3>1. c \notin Range(deleting) /\ IsInjective(deleting)
        BY <1>1, <2>1, <2>2, HandFacts DEF DocumentInv, HandsInv, Links, Hands
      <3> QED BY <2>1, <2>2, <2>3, <3>1, AppendDistinct
    <2>6. Doc \in Range(deleting') => Doc \in Range(deleting)
      BY <1>1, <2>2, <2>5
    <2> QED BY <1>1, <2>1, <2>4, <2>6 DEF PhaseInv
  <1>5. CASE FreeNode
    <2>1. /\ pc = "delete" /\ deleting # << >> /\ Last(deleting) # Doc
          /\ deleting' = Front(deleting)
          /\ UNCHANGED <<pc, cur, after, frames, errorID, cursor, crash>>
      BY <1>5 DEF FreeNode, walkVars
    <2>2. deleting \in Seq(Addresses \cup {Doc}) /\ IsInjective(deleting)
      BY DEF DocumentInv, DocumentTypeInv, WalkTypes, HandsInv
    <2>3. Range(deleting') \subseteq Range(deleting)
      BY <2>1, <2>2, FrontDistinct
    <2>4. deleting[1] = Doc => deleting' # << >> /\ deleting'[1] = Doc
      <3>1. Len(deleting) = 1 => Last(deleting) = deleting[1]
        BY DEF Last
      <3>2. Len(deleting) \in Nat /\ Len(deleting) >= 1
        BY <2>1, <2>2, FrontElements
      <3>3. deleting[1] = Doc => Len(deleting) > 1
        BY <2>1, <3>1, <3>2
      <3> QED BY <2>1, <2>2, <3>3, FrontElements
    <2> QED BY <1>1, <2>1, <2>3, <2>4 DEF PhaseInv
  <1>6. CASE ChildFailed \/ EndTag \/ ChildMismatched
    <2>1. /\ pc = "handle" /\ deleting' = <<cur>> /\ after' = "return" /\ pc' = "delete" /\ cur' = Null
          /\ UNCHANGED <<cursor, crash>>
      BY <1>6 DEF ChildFailed, EndTag, ChildMismatched, StartDelete, walkVars
    <2>2. cur # Doc /\ Range(deleting') = {cur}
      BY <1>1, <2>1, HandFacts, SingleElement DEF PhaseInv
    <2> QED BY <1>1, <2>1, <2>2 DEF PhaseInv
  <1>7. CASE Return
    <2>1. /\ pc = "return" /\ cur' = Last(frames) /\ pc' = "handle" /\ UNCHANGED <<deleting, after, cursor, crash>>
      BY <1>7 DEF Return, deleteVars, walkVars
    <2>2. cur' # Null
      BY <1>1, <2>1, HandFacts
    <2> QED BY <1>1, <2>1, <2>2 DEF PhaseInv
  <1>8. CASE Deleted
    <2>1. /\ pc = "delete"
          /\ deleting = << >> \/ (deleting = <<Doc>> /\ node[Doc].first = Null)
          /\ deleting' = << >> /\ pc' = after /\ after' = "none"
          /\ UNCHANGED <<cur, frames, errorID, cursor, crash, node>>
      BY <1>8 DEF Deleted, walkVars
    <2>2. after \in {"return", "clearPools", "done"}
      BY <1>1, <2>1 DEF PhaseInv, DocumentInv, DocumentTypeInv, WalkTypes
    <2>3. cur = Null /\ cursor = Null /\ crash = "none"
      BY <1>1, <2>1 DEF PhaseInv
    <2>4. CASE after = "return"
      BY <1>1, <2>1, <2>3, <2>4 DEF PhaseInv
    <2>5. CASE after \in {"clearPools", "done"}
      <3>1. deleting = <<Doc>> /\ node[Doc].first = Null /\ frames = <<Doc>>
        BY <1>1, <2>1, <2>5 DEF PhaseInv
      <3>2. Nodes = {}
        BY <2>3, <3>1, SingleElement, NoOrphans
      <3>3. Nodes' = {}
        BY <2>1, <3>2 DEF Nodes
      <3> QED BY <1>1, <2>1, <2>3, <2>5, <3>1, <3>3 DEF PhaseInv
    <2> QED BY <2>2, <2>4, <2>5
  <1>9. CASE ParseReturns
    <2>1. pc = "return" /\ frames = <<Doc>> /\ UNCHANGED <<frames, cur, node, errorID, crash>>
      BY <1>9 DEF ParseReturns
    <2>2. CASE errorID = "none"
      <3>1. pc' = "walk" /\ cursor' = node[Doc].first /\ UNCHANGED <<deleting, after>>
        BY <1>9, <2>2 DEF ParseReturns, deleteVars
      <3>2. cursor' # Doc
        BY <1>1, <3>1, FieldTypes
      <3> QED BY <1>1, <2>1, <2>2, <3>1, <3>2 DEF PhaseInv
    <2>3. CASE errorID # "none"
      <3>1. pc' = "delete" /\ deleting' = <<Doc>> /\ after' = "clearPools" /\ cursor' = cursor
        BY <1>9, <2>3 DEF ParseReturns
      <3>2. deleting' # << >> /\ deleting'[1] = Doc
        BY <3>1
      <3> QED BY <1>1, <2>1, <3>1, <3>2 DEF PhaseInv
    <2> QED BY <2>2, <2>3
  <1>10. CASE Parse
    <2>1. pc = "start" /\ pc' \in {"done", "loop"} /\ UNCHANGED <<frames, cur, node, deleting, after, cursor, crash>>
      BY <1>10 DEF Parse, deleteVars, walkVars
    <2>2. Nodes' = Nodes
      BY <2>1 DEF Nodes
    <2> QED BY <1>1, <2>1, <2>2 DEF PhaseInv
  <1>11. CASE ClearPools
    <2>1. pc = "clearPools" /\ pc' = "done" /\ UNCHANGED <<frames, cur, node, errorID, deleting, after, cursor, crash>>
      BY <1>11 DEF ClearPools, deleteVars, walkVars
    <2>2. Nodes' = Nodes
      BY <2>1 DEF Nodes
    <2> QED BY <1>1, <2>1, <2>2 DEF PhaseInv
  <1>12. CASE PassOver \/ Descend \/ VisitPlayer
    <2>1. /\ pc = "walk" /\ cursor # Null /\ UNCHANGED <<frames, cur, node, errorID, deleting, after>>
          /\ cursor' \in {cursor, node[cursor].next, node[cursor].first}
          /\ (pc' = pc /\ crash' = crash) \/ (pc' = "done" /\ crash' # "none")
      BY <1>12 DEF PassOver, Descend, VisitPlayer, deleteVars
    <2>2. cursor \in DOMAIN node
      BY <2>1 DEF DocumentInv, DocumentTypeInv, WalkTypes
    <2>3. cursor' # Doc
      <3>1. node[cursor].next # Doc /\ node[cursor].first # Doc /\ cursor # Doc
        BY <1>1, <2>2, FieldTypes DEF PhaseInv
      <3> QED BY <2>1, <3>1
    <2> QED BY <1>1, <2>1, <2>3 DEF PhaseInv
  <1>13. CASE WalkEnds
    <2>1. /\ pc = "walk" /\ cursor = Null /\ pc' = "delete" /\ deleting' = <<Doc>> /\ after' = "done"
          /\ UNCHANGED <<frames, cur, node, errorID, cursor, crash>>
      BY <1>13 DEF WalkEnds, walkVars
    <2>2. deleting' # << >> /\ deleting'[1] = Doc
      BY <2>1
    <2> QED BY <1>1, <2>1, <2>2 DEF PhaseInv
  <1>14. CASE TextEnds
    <2>1. pc = "loop" /\ pc' = "return" /\ UNCHANGED <<frames, cur, node, errorID, deleting, after, cursor, crash>>
      BY <1>14 DEF TextEnds, deleteVars, walkVars
    <2> QED BY <1>1, <2>1 DEF PhaseInv
  <1>15. CASE UNCHANGED documentVars
    <2>1. UNCHANGED <<pc, frames, cur, node, errorID, deleting, after, cursor, crash>>
      BY <1>15 DEF documentVars, deleteVars, walkVars
    <2>2. Nodes' = Nodes
      BY <2>1 DEF Nodes
    <2> QED BY <1>1, <2>1, <2>2 DEF PhaseInv
  <1> QED BY <1>2, <1>3, <1>4, <1>5, <1>6, <1>7, <1>8, <1>9, <1>10, <1>11, <1>12, <1>13, <1>14, <1>15 DEF DocumentNext

-----------------------------------------------------------------------------
(* Documents: chunks *)

LEMMA PrependDistinct ==
    ASSUME NEW S, NEW s \in Seq(S), NEW c \in S, IsInjective(s), c \notin Range(s)
    PROVE  /\ Range(<<c>> \o s) = Range(s) \cup {c} /\ IsInjective(<<c>> \o s)
           /\ Len(<<c>> \o s) = Len(s) + 1 /\ Len(s) \in Nat
  <1>1. PICK n \in Nat : n = Len(s) /\ DOMAIN s = 1 .. n
    OBVIOUS
  <1>2. PICK t : t = <<c>> \o s
    OBVIOUS
  <1>3. Len(t) = n + 1 /\ DOMAIN t = 1 .. n + 1 /\ t[1] = c /\ \A i \in 1 .. n : t[i + 1] = s[i]
    BY <1>1, <1>2
  <1>4. \A i \in 1 .. n + 1 : i = 1 \/ \E j \in 1 .. n : i = j + 1
    <2>1. \A i \in 1 .. n + 1 : i = 1 \/ (i - 1 \in 1 .. n /\ i = (i - 1) + 1)
      BY <1>1
    <2> QED BY <2>1
  <1>5. 1 \in 1 .. n + 1 /\ \A j \in 1 .. n : j + 1 \in 1 .. n + 1
    BY <1>1
  <1>6. Range(t) = Range(s) \cup {c}
    <2>1. ASSUME NEW v \in Range(t) PROVE v \in Range(s) \cup {c}
      <3>1. PICK i \in 1 .. n + 1 : v = t[i]
        BY <1>3 DEF Range
      <3>2. CASE i = 1
        BY <1>3, <3>1, <3>2
      <3>3. ASSUME NEW j \in 1 .. n, i = j + 1 PROVE v \in Range(s)
        BY <1>1, <1>3, <3>1, <3>3 DEF Range
      <3> QED BY <1>4, <3>2, <3>3
    <2>2. ASSUME NEW v \in Range(s) PROVE v \in Range(t)
      <3>1. PICK j \in 1 .. n : v = s[j]
        BY <1>1 DEF Range
      <3> QED BY <1>3, <1>5, <3>1 DEF Range
    <2>3. c \in Range(t)
      BY <1>3, <1>5 DEF Range
    <2> QED BY <2>1, <2>2, <2>3
  <1>7. IsInjective(t)
    <2>1. \A i \in 1 .. n : s[i] # c
      BY <1>1 DEF Range
    <2>2. \A i, j \in 1 .. n : s[i] = s[j] => i = j
      BY <1>1 DEF IsInjective
    <2>3. ASSUME NEW i \in 1 .. n + 1, NEW j \in 1 .. n + 1, t[i] = t[j] PROVE i = j
      <3>1. CASE i = 1 /\ j # 1
        BY <1>3, <1>4, <2>1, <2>3, <3>1
      <3>2. CASE i # 1 /\ j = 1
        BY <1>3, <1>4, <2>1, <2>3, <3>2
      <3>3. CASE i # 1 /\ j # 1
        <4>1. PICK a \in 1 .. n : i = a + 1
          BY <1>4, <3>3
        <4>2. PICK b \in 1 .. n : j = b + 1
          BY <1>4, <3>3
        <4>3. s[a] = s[b]
          BY <1>3, <2>3, <4>1, <4>2
        <4>4. a = b
          BY <2>2, <4>3
        <4> QED BY <4>1, <4>2, <4>4
      <3> QED BY <3>1, <3>2, <3>3
    <2> QED BY <1>3, <2>3 DEF IsInjective
  <1> QED BY <1>1, <1>2, <1>3, <1>6, <1>7

PoolParts(k, f, N, a, b) ==
    /\ IsInjective(f)
    /\ Range(f) \cap N = {}
    /\ Range(f) \cup {x \in N : PoolOf(x) = k} = {<<k, i>> : i \in 1 .. b * Count}
    /\ Cardinality({x \in N : PoolOf(x) = k}) = a
    /\ Len(f) + a = b * Count

LEMMA PoolStep ==
    DocumentInv /\ [DocumentNext]_documentVars => PoolInv'
  <1> SUFFICES ASSUME DocumentInv, [DocumentNext]_documentVars PROVE PoolInv'
    OBVIOUS
  <1>1. /\ free \in [Pools -> Seq(Addresses)] /\ blocks \in [Pools -> Nat]
        /\ currentAllocs \in [Pools -> Int]
        /\ Heap(node, pos) /\ Links(node) /\ IsFiniteSet(Nodes)
    <2>1. IsFiniteSet(DOMAIN node)
      BY DEF DocumentInv, DocumentTypeInv, HeapTypes
    <2>2. IsFiniteSet(Nodes)
      BY <2>1, FS_RemoveElement DEF Nodes
    <2> QED BY <2>2, NodeHeap DEF DocumentInv, DocumentTypeInv, PoolTypes
  <1>2. \A k \in Pools : PoolParts(k, free[k], Nodes, currentAllocs[k], blocks[k])
    BY DEF DocumentInv, PoolInv, PoolParts, NodesOf, Chunks
  <1>3. \A x \in Nodes : node[x].closing # "none" => PoolOf(x) = "element"
    BY DEF DocumentInv, PoolInv
  <1>4. ASSUME \A k \in Pools : PoolParts(k, free'[k], Nodes', currentAllocs'[k], blocks'[k]),
               \A x \in Nodes' : node'[x].closing # "none" => PoolOf(x) = "element"
        PROVE  PoolInv'
    BY <1>4 DEF PoolInv, PoolParts, NodesOf, Chunks
  <1>5. \A k \in Pools : \A y \in Range(free[k]) : PoolOf(y) = k
    <2>1. ASSUME NEW k \in Pools, NEW y \in Range(free[k]) PROVE PoolOf(y) = k
      <3>1. y \in {<<k, i>> : i \in 1 .. blocks[k] * Count}
        BY <1>2 DEF PoolParts
      <3> QED BY <3>1 DEF PoolOf
    <2> QED BY <2>1
  <1>6. \A k \in Pools : IsFiniteSet({y \in Nodes : PoolOf(y) = k})
    BY <1>1, FS_Subset
  <1>7. CASE Identify
    <2>1. PICK k, x, f, b, closing, attrs : Made(k, x, f, b, closing, attrs)
      BY <1>7, IdentifyMakes
    <2>2. /\ k \in Pools /\ x \notin DOMAIN node /\ x # Doc /\ PoolOf(x) = k
          /\ free' = [free EXCEPT ![k] = f] /\ blocks' = [blocks EXCEPT ![k] = b]
          /\ currentAllocs' = [currentAllocs EXCEPT ![k] = @ + 1]
          /\ node' = [y \in DOMAIN node \cup {x} |-> IF y = x THEN NewNode(pos, closing, attrs) ELSE node[y]]
          /\ closing # "none" => k = "element"
      BY <2>1 DEF Made
    <2>3. /\ IsInjective(f) /\ Range(f) \cap Nodes = {} /\ x \notin Range(f)
          /\ Range(f) \cup NodesOf(k) \cup {x} = {<<k, i>> : i \in 1 .. b * Count}
          /\ Len(f) + currentAllocs[k] + 1 = b * Count /\ f \in Seq(Addresses) /\ b \in Nat
      BY <2>1 DEF Made
    <2>4. Nodes' = Nodes \cup {x} /\ x \notin Nodes
      BY <2>2 DEF Nodes
    <2>5. /\ free'[k] = f /\ blocks'[k] = b /\ currentAllocs'[k] = currentAllocs[k] + 1
          /\ \A j \in Pools \ {k} : /\ free'[j] = free[j] /\ blocks'[j] = blocks[j]
                                    /\ currentAllocs'[j] = currentAllocs[j]
      BY <1>1, <2>2
    <2>6. PoolParts(k, f, Nodes \cup {x}, currentAllocs[k] + 1, b)
      <3>1. {y \in Nodes \cup {x} : PoolOf(y) = k} = NodesOf(k) \cup {x}
        BY <2>2 DEF NodesOf
      <3>2. /\ Cardinality(NodesOf(k)) = currentAllocs[k] /\ IsFiniteSet(NodesOf(k)) /\ x \notin NodesOf(k)
        BY <1>2, <1>6, <2>2, <2>4 DEF PoolParts, NodesOf
      <3>3. Cardinality(NodesOf(k) \cup {x}) = currentAllocs[k] + 1
        BY <3>2, FS_AddElement
      <3>4. Len(f) + (currentAllocs[k] + 1) = b * Count
        <4>1. PICK a \in Int, m \in Nat : a = currentAllocs[k] /\ m = Len(f)
          BY <1>1, <2>2, <2>3
        <4> QED BY <2>3, <4>1
      <3> QED BY <2>3, <3>1, <3>3, <3>4 DEF PoolParts
    <2>7. ASSUME NEW j \in Pools \ {k}
          PROVE  PoolParts(j, free[j], Nodes \cup {x}, currentAllocs[j], blocks[j])
      <3>1. {y \in Nodes \cup {x} : PoolOf(y) = j} = {y \in Nodes : PoolOf(y) = j}
        BY <2>2
      <3>2. x \notin Range(free[j])
        BY <1>5, <2>2
      <3> QED BY <1>2, <3>1, <3>2 DEF PoolParts
    <2>8. \A j \in Pools : PoolParts(j, free'[j], Nodes', currentAllocs'[j], blocks'[j])
      BY <2>2, <2>4, <2>5, <2>6, <2>7
    <2>9. \A y \in Nodes' : node'[y].closing # "none" => PoolOf(y) = "element"
      <3>1. node'[x].closing = closing /\ \A y \in Nodes : node'[y] = node[y]
        BY <2>2 DEF NewNode, Nodes
      <3> QED BY <1>3, <2>2, <2>4, <3>1
    <2> QED BY <1>4, <2>8, <2>9
  <1>8. CASE FreeNode
    <2> DEFINE x == Last(deleting)
               k == PoolOf(x)
    <2>1. /\ x \in DOMAIN node /\ x # Doc /\ blocks' = blocks
          /\ free' = [free EXCEPT ![k] = <<x>> \o @]
          /\ currentAllocs' = [currentAllocs EXCEPT ![k] = @ - 1]
          /\ node' = [y \in DOMAIN node \ {x} |-> node[y]]
      BY <1>8, HandFacts DEF FreeNode
    <2>2. x \in Addresses
      BY <2>1, NodeHeap
    <2>3. k \in Pools /\ x \in Nodes
      BY <2>1, <2>2 DEF Addresses, PoolOf, Nodes
    <2>4. PICK c, j : c = x /\ j = k
      OBVIOUS
    <2> HIDE DEF x, k
    <2>5. /\ c \in Nodes /\ j \in Pools /\ PoolOf(c) = j /\ c \in Addresses
          /\ Nodes' = Nodes \ {c}
          /\ free'[j] = <<c>> \o free[j] /\ blocks'[j] = blocks[j] /\ currentAllocs'[j] = currentAllocs[j] - 1
          /\ \A i \in Pools \ {j} : /\ free'[i] = free[i] /\ blocks'[i] = blocks[i]
                                    /\ currentAllocs'[i] = currentAllocs[i]
      <3>1. PoolOf(c) = j
        BY <2>4 DEF x, k
      <3>2. Nodes' = Nodes \ {c}
        BY <2>1, <2>4 DEF Nodes
      <3> QED BY <1>1, <2>1, <2>2, <2>3, <2>4, <3>1, <3>2
    <2>6. PoolParts(j, <<c>> \o free[j], Nodes \ {c}, currentAllocs[j] - 1, blocks[j])
      <3>1. /\ IsInjective(free[j]) /\ Range(free[j]) \cap Nodes = {}
            /\ Range(free[j]) \cup NodesOf(j) = {<<j, i>> : i \in 1 .. blocks[j] * Count}
            /\ Cardinality(NodesOf(j)) = currentAllocs[j] /\ IsFiniteSet(NodesOf(j))
            /\ Len(free[j]) + currentAllocs[j] = blocks[j] * Count
        BY <1>2, <1>6, <2>5 DEF PoolParts, NodesOf
      <3>2. c \notin Range(free[j]) /\ c \in NodesOf(j)
        BY <2>5, <3>1 DEF NodesOf
      <3>3. /\ Range(<<c>> \o free[j]) = Range(free[j]) \cup {c} /\ IsInjective(<<c>> \o free[j])
            /\ Len(<<c>> \o free[j]) = Len(free[j]) + 1 /\ Len(free[j]) \in Nat
        BY <1>1, <2>5, <3>1, <3>2, PrependDistinct
      <3>4. {y \in Nodes \ {c} : PoolOf(y) = j} = NodesOf(j) \ {c}
        BY DEF NodesOf
      <3>5. Cardinality(NodesOf(j) \ {c}) = currentAllocs[j] - 1
        BY <3>1, <3>2, FS_RemoveElement
      <3>6. Range(<<c>> \o free[j]) \cup (NodesOf(j) \ {c}) = {<<j, i>> : i \in 1 .. blocks[j] * Count}
        BY <3>1, <3>2, <3>3
      <3>7. Len(<<c>> \o free[j]) + (currentAllocs[j] - 1) = blocks[j] * Count
        <4>1. PICK a \in Int, m \in Nat : a = currentAllocs[j] /\ m = Len(free[j])
          BY <1>1, <2>5, <3>3
        <4>2. (m + 1) + (a - 1) = m + a
          OBVIOUS
        <4> QED BY <3>1, <3>3, <4>1, <4>2
      <3>8. Range(<<c>> \o free[j]) \cap (Nodes \ {c}) = {}
        BY <3>1, <3>3
      <3> QED BY <3>3, <3>4, <3>5, <3>6, <3>7, <3>8 DEF PoolParts
    <2>7. ASSUME NEW i \in Pools \ {j}
          PROVE  PoolParts(i, free[i], Nodes \ {c}, currentAllocs[i], blocks[i])
      <3>1. {y \in Nodes \ {c} : PoolOf(y) = i} = {y \in Nodes : PoolOf(y) = i}
        BY <2>5
      <3> QED BY <1>2, <3>1 DEF PoolParts
    <2>8. \A i \in Pools : PoolParts(i, free'[i], Nodes', currentAllocs'[i], blocks'[i])
      BY <2>5, <2>6, <2>7
    <2>9. \A y \in Nodes' : node'[y].closing # "none" => PoolOf(y) = "element"
      <3>1. \A y \in Nodes' : y \in Nodes /\ node'[y] = node[y]
        BY <2>1, <2>5 DEF Nodes
      <3> QED BY <1>3, <3>1
    <2> QED BY <1>4, <2>8, <2>9
  <1>9. CASE ClearPools
    <2>1. /\ pc = "clearPools" /\ free' = [k \in Pools |-> << >>] /\ blocks' = [k \in Pools |-> 0]
          /\ currentAllocs' = [k \in Pools |-> 0] /\ node' = node
      BY <1>9 DEF ClearPools
    <2>2. Nodes = {} /\ Nodes' = {}
      BY <2>1 DEF DocumentInv, PhaseInv, Nodes
    <2>3. \A k \in Pools : PoolParts(k, << >>, {}, 0, 0)
      <3>1. Count \in Nat
        BY CountAssumption
      <3>2. 1 .. 0 * Count = {}
        BY <3>1
      <3>3. Cardinality({}) = 0 /\ Len(<< >>) + 0 = 0 * Count
        BY <3>1, FS_EmptySet
      <3>4. ASSUME NEW k PROVE {<<k, i>> : i \in 1 .. 0 * Count} = {} /\ {x \in {} : PoolOf(x) = k} = {}
        BY <3>2
      <3> QED BY <3>3, <3>4, NoElement DEF PoolParts
    <2> QED BY <1>4, <2>1, <2>2, <2>3
  <1>10. CASE /\ UNCHANGED <<free, blocks, currentAllocs>> /\ DOMAIN node' = DOMAIN node
              /\ \A y \in DOMAIN node : node'[y].closing = node[y].closing
    <2>1. Nodes' = Nodes
      BY <1>10 DEF Nodes
    <2>2. \A y \in Nodes : y \in DOMAIN node
      BY DEF Nodes
    <2> QED BY <1>2, <1>3, <1>4, <1>10, <2>1, <2>2
  <1>11. CASE ChildInserted
    <2>1. cur # Null /\ node' = InsertEndChild(node, Last(frames), cur) /\ UNCHANGED <<free, blocks, currentAllocs>>
      BY <1>11 DEF ChildInserted, DocumentInv, PhaseInv
    <2>2. Inserted(node', node, Last(frames), cur)
      BY <1>1, <2>1, HandFacts, InsertFields
    <2> QED BY <1>10, <2>1, <2>2 DEF Inserted
  <1>12. CASE DeleteChild
    <2>1. /\ deleting # << >> /\ node[Last(deleting)].first # Null
          /\ node' = Unlink(node, node[Last(deleting)].first) /\ UNCHANGED <<free, blocks, currentAllocs>>
      BY <1>12 DEF DeleteChild, poolVars, chunkVars
    <2>2. PICK c \in DOMAIN node : c = node[Last(deleting)].first
      BY <1>1, <2>1, HandFacts DEF Links
    <2>3. Unlinked(node', node, c)
      BY <1>1, <2>1, <2>2, UnlinkFields
    <2> QED BY <1>10, <2>1, <2>3 DEF Unlinked
  <1>13. Parse \/ TextEnds \/ ChildFailed \/ EndTag \/ ChildMismatched \/ Return \/ Deleted \/ ParseReturns
         \/ PassOver \/ Descend \/ VisitPlayer \/ WalkEnds \/ UNCHANGED documentVars
         => UNCHANGED <<free, blocks, currentAllocs, node>>
    BY DEF Parse, TextEnds, ChildFailed, EndTag, ChildMismatched, Return, Deleted, ParseReturns,
           PassOver, Descend, VisitPlayer, WalkEnds, documentVars, poolVars, chunkVars
  <1> QED BY <1>7, <1>8, <1>9, <1>10, <1>11, <1>12, <1>13 DEF DocumentNext

-----------------------------------------------------------------------------
(* Documents: attributes *)

LEMMA AttrsOfOne ==
    ASSUME NEW x, NEW n \in Nat
    PROVE  IsFiniteSet({x} \X (1 .. n)) /\ Cardinality({x} \X (1 .. n)) = n
  <1>1. IsFiniteSet({x}) /\ Cardinality({x}) = 1
    BY FS_Singleton
  <1>2. IsFiniteSet(1 .. n) /\ Cardinality(1 .. n) = n
    <2>1. n \in Int /\ 1 \in Int
      OBVIOUS
    <2>2. IsFiniteSet(1 .. n) /\ Cardinality(1 .. n) = IF 1 > n THEN 0 ELSE n - 1 + 1
      BY <2>1, FS_Interval
    <2>3. (IF 1 > n THEN 0 ELSE n - 1 + 1) = n
      OBVIOUS
    <2> QED BY <2>2, <2>3
  <1>3. PICK S, T : S = {x} /\ T = 1 .. n
    OBVIOUS
  <1>4. IsFiniteSet(S \X T) /\ Cardinality(S \X T) = Cardinality(S) * Cardinality(T)
    <2>1. IsFiniteSet(S) /\ IsFiniteSet(T)
      BY <1>1, <1>2, <1>3
    <2> QED BY ONLY <2>1, FS_Product
  <1>5. Cardinality(S) * Cardinality(T) = n
    <2>1. 1 * n = n
      OBVIOUS
    <2> QED BY <1>1, <1>2, <1>3, <2>1
  <1> QED BY <1>3, <1>4, <1>5

LEMMA AttrStep ==
    DocumentInv /\ [DocumentNext]_documentVars => AttrInv'
  <1> SUFFICES ASSUME DocumentInv, [DocumentNext]_documentVars PROVE AttrInv'
    OBVIOUS
  <1>1. /\ Heap(node, pos) /\ Links(node) /\ attrAllocs \in Int
        /\ \A y \in DOMAIN node : node[y].attrs \in Seq(AttrNames)
    BY NodeHeap, FieldTypes DEF DocumentInv, DocumentTypeInv, PoolTypes
  <1>2. PICK A : A = AttrChunks
    OBVIOUS
  <1>3. IsFiniteSet(A) /\ attrAllocs = Cardinality(A) /\ Cardinality(A) \in Nat
    BY <1>2, FS_CardinalityType DEF DocumentInv, AttrInv
  <1>4. CASE Identify
    <2>1. PICK k, x, f, b, closing, attrs : Made(k, x, f, b, closing, attrs)
      BY <1>4, IdentifyMakes
    <2>2. /\ x \notin DOMAIN node /\ x # Doc /\ attrs \in Seq(AttrNames)
          /\ attrAllocs' = attrAllocs + Len(attrs)
          /\ node' = [y \in DOMAIN node \cup {x} |-> IF y = x THEN NewNode(pos, closing, attrs) ELSE node[y]]
      BY <2>1 DEF Made
    <2>3. PICK n \in Nat : n = Len(attrs)
      BY <2>2
    <2>4. /\ Owners' = Owners \cup {x} /\ x \notin Owners /\ node'[x].attrs = attrs
          /\ \A y \in Owners : node'[y] = node[y]
      <3>1. deleting' = deleting /\ x \notin Range(deleting)
        <4>1. UNCHANGED deleteVars
          BY <2>1 DEF Made
        <4>2. Range(deleting) \subseteq DOMAIN node
          BY HandFacts DEF Range
        <4> QED BY <2>2, <4>1, <4>2 DEF deleteVars
      <3> QED BY <2>2, <3>1 DEF Owners, Nodes, NewNode
    <2>5. PICK B : B = {x} \X (1 .. n)
      OBVIOUS
    <2>6. AttrChunks' = A \cup B
      <3>1. AttrChunks' = {y \in Owners' \X Nat : y[2] \in 1 .. Len(node'[y[1]].attrs)}
        BY DEF AttrChunks
      <3>2. A = {y \in Owners \X Nat : y[2] \in 1 .. Len(node[y[1]].attrs)}
        BY <1>2 DEF AttrChunks
      <3>3. ASSUME NEW y \in AttrChunks' PROVE y \in A \cup B
        BY <2>3, <2>4, <2>5, <3>1, <3>2
      <3>4. ASSUME NEW y \in A PROVE y \in AttrChunks'
        BY <2>4, <3>1, <3>2
      <3>5. ASSUME NEW y \in B PROVE y \in AttrChunks'
        <4>1. y = <<x, y[2]>> /\ y[2] \in 1 .. n
          BY <2>5
        <4>2. y[2] \in Nat /\ y[1] = x
          BY <4>1
        <4> QED BY <2>3, <2>4, <3>1, <4>1, <4>2
      <3> QED BY <3>3, <3>4, <3>5
    <2>7. IsFiniteSet(B) /\ Cardinality(B) = n
      BY <2>5, AttrsOfOne
    <2>8. A \cap B = {}
      BY <1>2, <2>4, <2>5 DEF AttrChunks
    <2>9. /\ IsFiniteSet(A \cup B)
          /\ Cardinality(A \cup B) = Cardinality(A) + Cardinality(B) - Cardinality(A \cap B)
      BY <1>3, <2>7, FS_Union
    <2>10. Cardinality(A \cup B) = attrAllocs + n
      BY <1>3, <2>7, <2>8, <2>9, FS_EmptySet
    <2> QED BY <2>2, <2>3, <2>6, <2>9, <2>10 DEF AttrInv
  <1>5. ASSUME NEW x \in Owners, attrAllocs' = attrAllocs - Len(node[x].attrs),
               Owners' = Owners \ {x}, \A y \in Owners : node'[y].attrs = node[y].attrs
        PROVE  AttrInv'
    <2>3. PICK n \in Nat : n = Len(node[x].attrs)
      BY <1>1 DEF Owners, Nodes
    <2>4. Owners' = Owners \ {x} /\ \A y \in Owners : node'[y].attrs = node[y].attrs
      BY <1>5
    <2>5. PICK B : B = {x} \X (1 .. n)
      OBVIOUS
    <2>6. AttrChunks' = A \ B /\ B \subseteq A
      <3>1. AttrChunks' = {y \in Owners' \X Nat : y[2] \in 1 .. Len(node'[y[1]].attrs)}
        BY DEF AttrChunks
      <3>2. A = {y \in Owners \X Nat : y[2] \in 1 .. Len(node[y[1]].attrs)}
        BY <1>2 DEF AttrChunks
      <3>3. ASSUME NEW y \in AttrChunks' PROVE y \in A /\ y \notin B
        BY <2>4, <2>5, <3>1, <3>2
      <3>4. ASSUME NEW y \in A, y \notin B PROVE y \in AttrChunks'
        <4>1. y = <<y[1], y[2]>> /\ y[1] \in Owners /\ y[2] \in Nat /\ y[2] \in 1 .. Len(node[y[1]].attrs)
          BY <3>2
        <4>2. y[1] # x
          BY <2>3, <2>5, <3>4, <4>1
        <4> QED BY <2>4, <3>1, <4>1, <4>2
      <3>5. ASSUME NEW y \in B PROVE y \in A
        <4>1. y = <<x, y[2]>> /\ y[2] \in 1 .. n
          BY <2>5
        <4>2. y[2] \in Nat /\ y[1] = x
          BY <4>1
        <4> QED BY <2>3, <3>2, <4>1, <4>2
      <3> QED BY <3>3, <3>4, <3>5
    <2>7. IsFiniteSet(B) /\ Cardinality(B) = n /\ A \cap B = B
      BY <2>5, <2>6, AttrsOfOne
    <2>8. IsFiniteSet(A \ B) /\ Cardinality(A \ B) = Cardinality(A) - Cardinality(A \cap B)
      BY <1>3, FS_Difference
    <2>9. attrAllocs' = Cardinality(A \ B)
      BY <1>3, <1>5, <2>3, <2>7, <2>8
    <2> QED BY <2>6, <2>8, <2>9 DEF AttrInv
  <1>6. CASE ClearPools
    <2>1. pc = "clearPools" /\ attrAllocs' = 0 /\ node' = node
      BY <1>6 DEF ClearPools
    <2>2. Nodes' = {}
      BY <2>1 DEF DocumentInv, PhaseInv, Nodes
    <2>3. AttrChunks' = {}
      BY <2>2 DEF AttrChunks, Owners
    <2> QED BY <2>1, <2>3, FS_EmptySet DEF AttrInv
  <1>7. CASE /\ attrAllocs' = attrAllocs /\ Owners' = Owners
             /\ \A y \in Owners : node'[y].attrs = node[y].attrs
    <2>1. AttrChunks' = A
      BY <1>2, <1>7 DEF AttrChunks
    <2> QED BY <1>3, <1>7, <2>1 DEF AttrInv
  <1>8. CASE ChildInserted
    <2>1. /\ cur # Null /\ node' = InsertEndChild(node, Last(frames), cur) /\ attrAllocs' = attrAllocs
          /\ deleting' = deleting
      BY <1>8 DEF ChildInserted, DocumentInv, PhaseInv, deleteVars
    <2>2. Inserted(node', node, Last(frames), cur)
      BY <1>1, <2>1, HandFacts, InsertFields
    <2>3. Owners' = Owners /\ \A y \in Owners : node'[y].attrs = node[y].attrs
      BY <2>1, <2>2 DEF Inserted, Owners, Nodes
    <2> QED BY <1>7, <2>1, <2>3
  <1>9. CASE DeleteChild
    <2>1. /\ deleting # << >> /\ node[Last(deleting)].first # Null
          /\ node' = Unlink(node, node[Last(deleting)].first)
          /\ deleting' = Append(deleting, node[Last(deleting)].first)
          /\ attrAllocs' = attrAllocs - Len(node[node[Last(deleting)].first].attrs)
      BY <1>9 DEF DeleteChild
    <2>2. PICK c \in Owners : c = node[Last(deleting)].first
      BY <2>1, FirstChild DEF Owners, Nodes
    <2>3. c \in DOMAIN node
      BY DEF Owners, Nodes
    <2>4. Unlinked(node', node, c)
      BY <1>1, <2>1, <2>2, <2>3, UnlinkFields
    <2>5. Range(deleting') = Range(deleting) \cup {c}
      BY <2>1, <2>2, AppendDistinct DEF DocumentInv, DocumentTypeInv, WalkTypes, HandsInv, Owners
    <2>6. Owners' = Owners \ {c} /\ \A y \in Owners : node'[y].attrs = node[y].attrs
      BY <2>4, <2>5 DEF Unlinked, Owners, Nodes
    <2> QED BY <1>5, <2>1, <2>2, <2>6
  <1>10. CASE FreeNode
    <2> DEFINE e == Last(deleting)
    <2>1. /\ e \in DOMAIN node /\ e # Doc /\ attrAllocs' = attrAllocs /\ deleting # << >>
          /\ node' = [y \in DOMAIN node \ {e} |-> node[y]] /\ deleting' = Front(deleting)
      BY <1>10, HandFacts DEF FreeNode
    <2>2. Range(deleting') = Range(deleting) \ {e} /\ e \in Range(deleting)
      BY <2>1, FrontDistinct DEF DocumentInv, DocumentTypeInv, WalkTypes, HandsInv
    <2> HIDE DEF e
    <2>3. Owners' = Owners /\ \A y \in Owners : node'[y].attrs = node[y].attrs
      BY <2>1, <2>2 DEF Owners, Nodes
    <2> QED BY <1>7, <2>1, <2>3
  <1>11. CASE ChildFailed \/ EndTag \/ ChildMismatched
    <2>1. cur # Null /\ cur \in DOMAIN node \ {Doc} /\ cur \notin Range(deleting)
      <3>1. pc = "handle" /\ cur # Null
        BY <1>11 DEF ChildFailed, EndTag, ChildMismatched, DocumentInv, PhaseInv
      <3>2. deleting = << >>
        BY <3>1 DEF DocumentInv, PhaseInv
      <3> QED BY <3>1, <3>2, HandFacts DEF Range
    <2>2. deleting = << >> /\ deleting' = <<cur>> /\ node' = node
          /\ attrAllocs' = attrAllocs - Len(node[cur].attrs)
      BY <1>11 DEF ChildFailed, EndTag, ChildMismatched, StartDelete, DocumentInv, PhaseInv
    <2>3. Range(deleting) = {} /\ Range(deleting') = {cur}
      BY <2>2 DEF Range
    <2>4. cur \in Owners /\ Owners' = Owners \ {cur}
      BY <2>1, <2>2, <2>3 DEF Owners, Nodes
    <2> QED BY <1>5, <2>2, <2>4
  <1>12. CASE ParseReturns \/ WalkEnds \/ Deleted
    <2>1. /\ node' = node /\ attrAllocs' = attrAllocs
          /\ deleting \in {<< >>, <<Doc>>} /\ deleting' \in {<< >>, <<Doc>>}
      BY <1>12 DEF ParseReturns, WalkEnds, Deleted, poolVars, deleteVars, DocumentInv, PhaseInv
    <2>2. Range(deleting) \subseteq {Doc} /\ Range(deleting') \subseteq {Doc}
      BY <2>1 DEF Range
    <2>3. Owners' = Owners
      BY <2>1, <2>2 DEF Owners, Nodes
    <2> QED BY <1>7, <2>1, <2>3
  <1>13. CASE UNCHANGED <<attrAllocs, node, deleting>>
    BY <1>7, <1>13 DEF Owners, Nodes
  <1>14. Parse \/ TextEnds \/ Return \/ PassOver \/ Descend \/ VisitPlayer \/ UNCHANGED documentVars
         => UNCHANGED <<attrAllocs, node, deleting>>
    BY DEF Parse, TextEnds, Return, PassOver, Descend, VisitPlayer, documentVars, poolVars, deleteVars
  <1> QED BY <1>4, <1>6, <1>8, <1>9, <1>10, <1>11, <1>12, <1>13, <1>14 DEF DocumentNext

-----------------------------------------------------------------------------
(* Documents: nodes that no list has yet *)

LEMMA UnfinishedNodes ==
    ASSUME ParseTypes, HeapTypes, HandsInv, NEW k
    PROVE  /\ Unfinished(k) = {x \in (Range(frames) \ {Doc}) \cup ({cur} \ {Null}) : PoolOf(x) = k}
           /\ IsFiniteSet(Unfinished(k))
           /\ frames = <<Doc>> /\ cur = Null => Cardinality(Unfinished(k)) = 0
  <1>1. frames \in Seq(Addresses \cup {Doc}) /\ frames # << >> /\ IsInjective(frames) /\ frames[1] = Doc
    BY DEF ParseTypes, HandsInv
  <1>2. Head(frames) = Doc
    BY <1>1
  <1>3. Range(frames) = Range(Tail(frames)) \cup {Doc} /\ Doc \notin Range(Tail(frames))
    BY <1>1, <1>2, HeadAndTail
  <1>4. Range(Tail(frames)) = Range(frames) \ {Doc}
    BY <1>3
  <1>5. Unfinished(k) = {x \in (Range(frames) \ {Doc}) \cup ({cur} \ {Null}) : PoolOf(x) = k}
    BY <1>4 DEF Unfinished
  <1>6. (Range(frames) \ {Doc}) \cup ({cur} \ {Null}) \subseteq DOMAIN node \cup {Null}
    BY DEF HandsInv, Hands
  <1>7. IsFiniteSet(DOMAIN node \cup {Null})
    BY FS_AddElement DEF HeapTypes
  <1>8. IsFiniteSet(Unfinished(k))
    BY <1>5, <1>6, <1>7, FS_Subset
  <1>9. frames = <<Doc>> /\ cur = Null => Unfinished(k) = {}
    BY <1>5, SingleElement
  <1> QED BY <1>5, <1>8, <1>9, FS_EmptySet

LEMMA UntrackedStep ==
    ASSUME DocumentInv, [DocumentNext]_documentVars, ParseTypes', HeapTypes', HandsInv'
    PROVE  UntrackedInv'
  <1>1. /\ ParseTypes /\ HeapTypes /\ HandsInv /\ UntrackedInv /\ untracked \in [Pools -> Int]
        /\ Doc # Null /\ Doc \in Range(frames) /\ Null \notin Range(frames)
        /\ frames \in Seq(Addresses \cup {Doc}) /\ frames # << >> /\ IsInjective(frames)
    <2>1. /\ ParseTypes /\ HeapTypes /\ HandsInv /\ UntrackedInv /\ untracked \in [Pools -> Int]
          /\ frames \in Seq(Addresses \cup {Doc}) /\ frames # << >> /\ IsInjective(frames) /\ frames[1] = Doc
      BY DEF DocumentInv, DocumentTypeInv, PoolTypes, ParseTypes, HandsInv
    <2>2. Doc # Null /\ Null \notin Addresses
      BY NullAssumption DEF Addresses
    <2>3. 1 \in DOMAIN frames /\ \A i \in DOMAIN frames : frames[i] # Null
      BY <2>1, <2>2
    <2> QED BY <2>1, <2>2, <2>3 DEF Range
  <1>2. PICK F, c : F = Range(frames) /\ c = cur
    OBVIOUS
  <1> DEFINE U(G, d, k) == {x \in (G \ {Doc}) \cup ({d} \ {Null}) : PoolOf(x) = k}
  <1>3. \A k : /\ Unfinished(k) = U(F, c, k) /\ IsFiniteSet(Unfinished(k))
               /\ frames = <<Doc>> /\ cur = Null => Cardinality(Unfinished(k)) = 0
    BY <1>1, <1>2, UnfinishedNodes
  <1>4. \A k : Unfinished(k)' = U(Range(frames'), cur', k)
    <2>1. ASSUME NEW k PROVE Unfinished(k)' = U(Range(frames'), cur', k)
      <3>1. /\ frames' \in Seq(Addresses \cup {Doc}) /\ frames' # << >> /\ IsInjective(frames')
            /\ frames'[1] = Doc
        BY DEF ParseTypes, HandsInv
      <3>2. Head(frames') = Doc
        BY <3>1
      <3>3. Range(frames') = Range(Tail(frames')) \cup {Doc} /\ Doc \notin Range(Tail(frames'))
        BY <3>1, <3>2, HeadAndTail
      <3>4. Range(Tail(frames')) = Range(frames') \ {Doc}
        BY <3>3
      <3> QED BY <3>4 DEF Unfinished
    <2> QED BY <2>1
  <1>5. /\ errorID = "none" => \A k \in Pools : untracked[k] = Cardinality(U(F, c, k))
        /\ pc = "done" => \A k \in Pools : untracked[k] = 0
    BY <1>1, <1>3 DEF UntrackedInv
  <1>6. ASSUME errorID' = "none" => \A k \in Pools : untracked'[k] = Cardinality(U(Range(frames'), cur', k)),
               pc' = "done" => \A k \in Pools : untracked'[k] = 0
        PROVE  UntrackedInv'
    BY <1>4, <1>6 DEF UntrackedInv
  <1>7. ASSUME errorID = "none", frames = <<Doc>>, cur = Null PROVE \A k \in Pools : untracked[k] = 0
    BY <1>3, <1>5, <1>7
  <1>8. \A k : IsFiniteSet(U(F, c, k))
    BY <1>3
  <1> HIDE DEF U
  <1>9. CASE Identify
    <2>1. PICK k, x, f, b, closing, attrs : Made(k, x, f, b, closing, attrs)
      BY <1>9, IdentifyMakes
    <2>2. /\ pc = "loop" /\ k \in Pools /\ x \notin DOMAIN node /\ x # Doc /\ x # Null /\ PoolOf(x) = k
          /\ untracked' = [untracked EXCEPT ![k] = @ + 1]
          /\ errorID' = "none" => errorID = "none"
      BY <2>1 DEF Made
    <2>3. c = Null /\ x \notin F
      BY <1>2, <2>2 DEF DocumentInv, PhaseInv, HandsInv, Hands
    <2>4. /\ pc' # "done"
          /\ \/ Range(frames') = F \cup {x} /\ cur' = Null
             \/ Range(frames') = F /\ cur' = x
      <3>1. CASE frames' = Append(frames, x) /\ UNCHANGED <<pc, cur, result>>
        BY <1>1, <1>2, <2>2, <2>3, <3>1, AppendDistinct
      <3>2. CASE cur' = x /\ pc' = "handle" /\ UNCHANGED frames
        BY <1>2, <3>2
      <3> QED BY <2>1, <3>1, <3>2 DEF Made
    <2>5. U(Range(frames'), cur', k) = U(F, c, k) \cup {x} /\ x \notin U(F, c, k)
      BY <2>2, <2>3, <2>4 DEF U
    <2>6. \A j \in Pools \ {k} : U(Range(frames'), cur', j) = U(F, c, j)
      BY <2>2, <2>3, <2>4 DEF U
    <2>7. untracked'[k] = untracked[k] + 1 /\ \A j \in Pools \ {k} : untracked'[j] = untracked[j]
      BY <1>1, <2>2
    <2>8. Cardinality(U(F, c, k) \cup {x}) = Cardinality(U(F, c, k)) + 1
      BY <1>8, <2>5, FS_AddElement
    <2> QED BY <1>5, <1>6, <2>2, <2>4, <2>5, <2>6, <2>7, <2>8
  <1>10. CASE EndTag \/ ChildInserted
    <2> DEFINE e == PoolOf(cur)
    <2>1. /\ pc = "handle" /\ cur # Null /\ cur \in Addresses /\ cur \in Nodes
      BY <1>10, HandFacts DEF EndTag, ChildInserted, DocumentInv, PhaseInv, Nodes
    <2>2. PICK k : k = e /\ k \in Pools
      BY <2>1 DEF Addresses, PoolOf
    <2>3. untracked' = [untracked EXCEPT ![k] = @ - 1] /\ cur' = Null /\ frames' = frames
          /\ errorID' = errorID /\ pc' # "done"
      <3>1. CASE ChildInserted
        BY <2>2, <3>1 DEF ChildInserted
      <3>2. CASE EndTag
        <4>1. node[cur].closing # "none"
          BY <3>2 DEF EndTag
        <4>2. k = "element"
          BY <2>1, <2>2, <4>1 DEF DocumentInv, PoolInv
        <4> QED BY <3>2, <4>2 DEF EndTag, StartDelete
      <3> QED BY <1>10, <3>1, <3>2
    <2>4. c \notin F /\ c # Doc /\ c # Null /\ PoolOf(c) = k
      BY <1>1, <1>2, <2>1, <2>2, HandFacts DEF HandsInv
    <2> HIDE DEF e
    <2>5. U(F, Null, k) = U(F, c, k) \ {c} /\ c \in U(F, c, k)
      BY <2>4 DEF U
    <2>6. \A j \in Pools \ {k} : U(F, Null, j) = U(F, c, j)
      BY <2>4 DEF U
    <2>7. untracked'[k] = untracked[k] - 1 /\ \A j \in Pools \ {k} : untracked'[j] = untracked[j]
      BY <1>1, <2>2, <2>3
    <2>8. Cardinality(U(F, c, k) \ {c}) = Cardinality(U(F, c, k)) - 1
      BY <1>8, <2>5, FS_RemoveElement
    <2> QED BY <1>2, <1>5, <1>6, <2>2, <2>3, <2>5, <2>6, <2>7, <2>8
  <1>11. CASE Return
    <2>1. /\ pc = "return" /\ cur' = Last(frames) /\ frames' = Front(frames) /\ Len(frames) > 1
          /\ pc' = "handle" /\ UNCHANGED <<untracked, errorID>>
      BY <1>11 DEF Return, poolVars, chunkVars
    <2>2. Range(frames') = F \ {Last(frames)} /\ Last(frames) \in F
      BY <1>1, <1>2, <2>1, FrontDistinct
    <2>3. c = Null /\ Last(frames) # Null
      BY <1>1, <1>2, <2>1, <2>2 DEF DocumentInv, PhaseInv
    <2>4. Last(frames) # Doc
      <3>1. cur' \in Addresses \cup {Null} /\ Doc \notin Addresses
        BY NullAssumption DEF ParseTypes, Addresses
      <3> QED BY <1>1, <2>1, <3>1
    <2>5. \A j : U(Range(frames'), cur', j) = U(F, c, j)
      BY <2>1, <2>2, <2>3, <2>4 DEF U
    <2> QED BY <1>5, <1>6, <2>1, <2>5
  <1>12. CASE ChildFailed \/ ChildMismatched
    <2>1. errorID' # "none" /\ pc' # "done"
      BY <1>12 DEF ChildFailed, ChildMismatched, StartDelete
    <2> QED BY <1>6, <2>1
  <1>13. CASE ClearPools
    <2>1. pc = "clearPools" /\ untracked' = [k \in Pools |-> 0] /\ UNCHANGED <<frames, cur>>
      BY <1>13 DEF ClearPools
    <2>2. frames = <<Doc>> /\ cur = Null
      BY <2>1 DEF DocumentInv, PhaseInv
    <2>3. \A k \in Pools : Cardinality(U(F, c, k)) = 0
      BY <1>3, <2>2
    <2> QED BY <1>2, <1>6, <2>1, <2>3
  <1>14. CASE Parse
    <2>1. pc = "start" /\ UNCHANGED <<untracked, frames, cur>>
      BY <1>14 DEF Parse, poolVars, chunkVars
    <2>2. frames = <<Doc>> /\ cur = Null /\ errorID = "none"
      BY <2>1 DEF DocumentInv, PhaseInv
    <2>3. \A k \in Pools : untracked[k] = 0
      BY <1>7, <2>2
    <2> QED BY <1>2, <1>5, <1>6, <2>1, <2>2, <2>3
  <1>15. CASE Deleted \/ VisitPlayer
    <2>1. UNCHANGED <<untracked, frames, cur, errorID>>
      BY <1>15 DEF Deleted, VisitPlayer, poolVars, chunkVars
    <2>2. ASSUME pc' = "done" PROVE \A k \in Pools : untracked[k] = 0
      <3>1. pc = "walk" \/ after = "done"
        BY <1>15, <2>2 DEF Deleted, VisitPlayer
      <3>2. pc # "handle"
        BY <1>15 DEF Deleted, VisitPlayer
      <3>3. errorID = "none" /\ frames = <<Doc>> /\ cur = Null
        BY <3>1, <3>2 DEF DocumentInv, PhaseInv
      <3> QED BY <1>7, <3>3
    <2> QED BY <1>2, <1>5, <1>6, <2>1, <2>2
  <1>16. CASE UNCHANGED <<untracked, frames, cur, errorID>> /\ (pc' = "done" => pc = "done")
    BY <1>2, <1>5, <1>6, <1>16
  <1>17. TextEnds \/ DeleteChild \/ FreeNode \/ ParseReturns \/ PassOver \/ Descend \/ WalkEnds
         \/ UNCHANGED documentVars
         => UNCHANGED <<untracked, frames, cur, errorID>> /\ (pc' = "done" => pc = "done")
    BY DEF TextEnds, DeleteChild, FreeNode, ParseReturns, PassOver, Descend, WalkEnds, documentVars,
       poolVars, chunkVars
  <1> QED BY <1>9, <1>10, <1>11, <1>12, <1>13, <1>14, <1>15, <1>16, <1>17 DEF DocumentNext

-----------------------------------------------------------------------------
(* Documents: the theorems *)

LEMMA DocumentStart ==
    DocumentInit => DocumentInv
  <1> SUFFICES ASSUME DocumentInit PROVE DocumentInv
    OBVIOUS
  <1>1. /\ text \in Documents /\ pc = "start" /\ pos = 1 /\ frames = <<Doc>> /\ cur = Null
        /\ result.ok \in BOOLEAN /\ errorID = "none" /\ deleting = << >> /\ after = "none"
        /\ level = 1 /\ cursor = Null /\ crash = "none" /\ attrAllocs = 0
        /\ free = [k \in Pools |-> << >>] /\ blocks = [k \in Pools |-> 0]
        /\ currentAllocs = [k \in Pools |-> 0] /\ untracked = [k \in Pools |-> 0]
    BY DEF DocumentInit
  <1>2. Doc # Null /\ Doc \notin Addresses /\ Null \notin Addresses
    BY NullAssumption DEF Addresses
  <1>3. /\ DOMAIN node = {Doc} /\ node[Doc] \in Fields /\ node \in [DOMAIN node -> Fields]
        /\ node[Doc].parent = Null /\ node[Doc].first = Null /\ node[Doc].last = Null
        /\ node[Doc].prev = Null /\ node[Doc].next = Null /\ node[Doc].value = 0
    <2>1. node = [x \in {Doc} |-> NewNode(0, "none", << >>)]
      BY DEF DocumentInit
    <2>2. NewNode(0, "none", << >>) \in Fields
      BY DEF NewNode, Fields
    <2> QED BY <2>1, <2>2 DEF NewNode
  <1>4. Nodes = {}
    BY <1>3 DEF Nodes
  <1>5. Range(frames) = {Doc} /\ IsInjective(frames) /\ Range(deleting) = {} /\ IsInjective(deleting)
    BY <1>1, SingleElement, NoElement
  <1>6. ParseTypes
    <2>1. Len(text) \in Nat
      BY <1>1, DocumentsAssumption
    <2>2. 1 <= pos /\ pos <= Len(text) + 1 /\ pos \in Nat
      BY <1>1, <2>1
    <2>3. frames \in Seq(Addresses \cup {Doc}) /\ frames # << >> /\ frames[1] = Doc
      BY <1>1
    <2> QED BY <1>1, <2>2, <2>3 DEF ParseTypes
  <1>7. HeapTypes
    BY <1>3, FS_Singleton DEF HeapTypes
  <1>8. PoolTypes
    BY <1>1 DEF PoolTypes
  <1>9. WalkTypes
    <2>1. 1 <= Len(Path)
      BY PathAssumption
    <2>2. deleting \in Seq(Addresses \cup {Doc})
      BY <1>1
    <2> QED BY <1>1, <2>1, <2>2 DEF WalkTypes
  <1>10. Links(node)
    BY <1>3 DEF Links
  <1>11. HandsInv
    BY <1>1, <1>2, <1>3, <1>5 DEF HandsInv, Hands
  <1>12. ValueInv
    <2>1. Len(frames) = 1
      BY <1>1
    <2>2. 1 .. Len(frames) - 1 = {}
      BY <2>1
    <2> QED BY <1>1, <1>3, <2>2 DEF ValueInv
  <1>13. PhaseInv
    BY <1>1, <1>2, <1>4 DEF PhaseInv
  <1>14. PoolInv
    <2>1. Count \in Nat
      BY CountAssumption
    <2>2. 1 .. 0 * Count = {} /\ 0 + 0 = 0 * Count
      BY <2>1
    <2>3. ASSUME NEW k \in Pools
          PROVE  /\ IsInjective(free[k]) /\ Range(free[k]) = {} /\ NodesOf(k) = {} /\ Chunks(k) = {}
                 /\ Len(free[k]) + currentAllocs[k] = blocks[k] * Count /\ currentAllocs[k] = 0
      BY <1>1, <1>4, <2>2, NoElement DEF NodesOf, Chunks
    <2> QED BY <1>4, <2>3, FS_EmptySet DEF PoolInv
  <1>15. AttrInv
    <2>1. AttrChunks = {}
      BY <1>4 DEF AttrChunks, Owners
    <2> QED BY <1>1, <2>1, FS_EmptySet DEF AttrInv
  <1>16. UntrackedInv
    <2>1. \A k \in Pools : Cardinality(Unfinished(k)) = 0
      BY <1>1, <1>6, <1>7, <1>11, UnfinishedNodes
    <2> QED BY <1>1, <2>1 DEF UntrackedInv
  <1> QED BY <1>6, <1>7, <1>8, <1>9, <1>10, <1>11, <1>12, <1>13, <1>14, <1>15, <1>16
          DEF DocumentInv, DocumentTypeInv

\* The inductive invariant: besides the types, the lists of the heap are linked
\* both ways and in the order of the text; a node without parent is in the hands
\* of one call of ParseDeep() or DeleteNode(), and no other node is; what a call
\* of ParseDeep() still holds is younger than all that has been inserted before
\* it; and chunks, attributes and untracked nodes are counted.
THEOREM DocumentInvariance ==
    DocumentSpec => []DocumentInv
  <1>1. DocumentInv /\ [DocumentNext]_documentVars => DocumentInv'
    <2> SUFFICES ASSUME DocumentInv, [DocumentNext]_documentVars PROVE DocumentInv'
      OBVIOUS
    <2>1. ParseTypes' /\ HeapTypes' /\ PoolTypes' /\ WalkTypes'
      BY ParseTypeStep, HeapTypeStep, PoolTypeStep, WalkTypeStep
    <2>2. Links(node)' /\ HandsInv' /\ ValueInv' /\ PhaseInv' /\ PoolInv' /\ AttrInv'
      BY LinksStep, HandsStep, ValueStep, PhaseStep, PoolStep, AttrStep
    <2>3. UntrackedInv'
      BY <2>1, <2>2, UntrackedStep
    <2> QED BY <2>1, <2>2, <2>3 DEF DocumentInv, DocumentTypeInv
  <1> QED BY <1>1, DocumentStart, PTL DEF DocumentSpec

\* The children of a node are one list, from _firstChild to _lastChild along
\* _next and back along _prev, in every state of Parse(), of the walk and of
\* DeleteNode(), for every set of texts, path and block size.
THEOREM ListsAreLinked ==
    DocumentSpec => []WellLinked
  <1>1. DocumentInv => WellLinked
    <2> SUFFICES ASSUME DocumentInv PROVE WellLinked
      OBVIOUS
    <2>1. /\ ParseTypes /\ HeapTypes /\ PoolTypes /\ WalkTypes /\ Heap(node, pos) /\ Links(node) /\ HandsInv
          /\ Null \notin DOMAIN node /\ Doc # Null /\ Doc \notin Addresses
      BY NodeHeap, NullAssumption DEF DocumentInv, DocumentTypeInv, Heap, Addresses
    <2>2. \A c \in DOMAIN node : node[c].parent # Null => c \in Nodes
      <3>1. node[Doc].parent = Null
        <4>1. frames[1] = Doc /\ frames[1] \in DOMAIN node /\ node[frames[1]].parent = Null
          <5>1. 1 \in DOMAIN frames
            BY HandFacts
          <5> QED BY <5>1, HandFacts
        <4> QED BY <4>1
      <3> QED BY <3>1 DEF Nodes
    <2>3. ASSUME NEW x \in DOMAIN node
          PROVE  /\ Children(x) = {} => node[x].first = Null /\ node[x].last = Null
                 /\ Children(x) # {} =>
                      /\ node[x].first \in Children(x) /\ node[node[x].first].prev = Null
                      /\ node[x].last \in Children(x) /\ node[node[x].last].next = Null
                 /\ \A c \in Children(x) :
                      /\ node[c].next # Null => node[c].next \in Children(x) /\ node[node[c].next].prev = c
                      /\ node[c].next = Null => c = node[x].last
                      /\ node[c].prev = Null => c = node[x].first
      <3>1. x # Null
        BY <2>1
      <3>2. \A c : c \in Children(x) <=> c \in DOMAIN node /\ node[c].parent = x
        BY <2>2, <3>1 DEF Children, Nodes
      <3>3. \A c \in Children(x) : node[x].first # Null /\ node[x].last # Null
        BY <2>1, <3>1, <3>2, EldestIsFirst, YoungestIsLast
      <3>4. node[x].first # Null => node[x].first \in Children(x) /\ node[node[x].first].prev = Null
        BY <2>1, <3>2 DEF Links
      <3>5. node[x].last # Null => node[x].last \in Children(x) /\ node[node[x].last].next = Null
        BY <2>1, <3>2 DEF Links
      <3>6. ASSUME NEW c \in Children(x)
            PROVE  /\ node[c].next # Null => node[c].next \in Children(x) /\ node[node[c].next].prev = c
                   /\ node[c].next = Null => c = node[x].last
                   /\ node[c].prev = Null => c = node[x].first
        BY <2>1, <3>1, <3>2 DEF Links
      <3> QED BY <3>3, <3>4, <3>5, <3>6
    <2>4. DocumentTypeOK
      <3>1. pos \in 1 .. Len(text) + 1
        <4>1. Len(text) \in Nat
          BY <2>1, DocumentsAssumption DEF ParseTypes
        <4> QED BY <2>1, <4>1 DEF ParseTypes
      <3>2. cur \in Nodes \cup {Null}
        BY HandFacts DEF Nodes
      <3>3. Head(frames) = Doc /\ Range(Tail(frames)) \subseteq Nodes
        <4>1. frames \in Seq(Addresses \cup {Doc}) /\ frames # << >> /\ IsInjective(frames) /\ frames[1] = Doc
          BY <2>1 DEF ParseTypes, HandsInv
        <4>2. Head(frames) = Doc
          BY <4>1
        <4>3. Range(frames) = Range(Tail(frames)) \cup {Doc} /\ Doc \notin Range(Tail(frames))
          BY <4>1, <4>2, HeadAndTail
        <4>4. Range(frames) \subseteq DOMAIN node
          BY HandFacts DEF Range
        <4> QED BY <4>2, <4>3, <4>4 DEF Nodes
      <3>4. Range(deleting) \subseteq DOMAIN node
        BY HandFacts DEF Range
      <3>5. \A x \in DOMAIN node : {node[x].parent, node[x].first, node[x].last} \subseteq DOMAIN node \cup {Null}
        BY <2>1 DEF Links
      <3>6. ASSUME NEW k \in Pools PROVE free[k] \in Seq(Chunks(k)) /\ currentAllocs[k] \in Nat
        <4>1. free[k] \in Seq(Addresses) /\ Range(free[k]) \subseteq Chunks(k)
          BY <2>1 DEF PoolTypes, DocumentInv, PoolInv
        <4>2. \A i \in 1 .. Len(free[k]) : free[k][i] \in Chunks(k)
          BY <4>1 DEF Range
        <4>3. PICK s : s = free[k]
          OBVIOUS
        <4>4. s \in Seq(Addresses) /\ \A i \in 1 .. Len(s) : s[i] \in Chunks(k)
          BY <4>1, <4>2, <4>3
        <4>5. s \in Seq(Chunks(k))
          BY <4>4
        <4>6. IsFiniteSet(NodesOf(k))
          <5>1. NodesOf(k) \subseteq DOMAIN node
            BY DEF NodesOf, Nodes
          <5> QED BY <2>1, <5>1, FS_Subset DEF HeapTypes
        <4>7. currentAllocs[k] \in Nat
          BY <4>6, FS_CardinalityType DEF DocumentInv, PoolInv
        <4> QED BY <4>3, <4>5, <4>7
      <3>7. attrAllocs \in Nat
        BY FS_CardinalityType DEF DocumentInv, AttrInv
      <3>8. level \in 1 .. Len(Path)
        <4>1. Len(Path) \in Nat
          BY PathAssumption
        <4> QED BY <2>1, <4>1 DEF WalkTypes
      <3> QED BY <2>1, <3>1, <3>2, <3>3, <3>4, <3>5, <3>6, <3>7, <3>8 DEF DocumentTypeOK, ParseTypes, WalkTypes
    <2> QED BY <2>3, <2>4 DEF WellLinked
  <1> QED BY <1>1, DocumentInvariance, PTL

\* Every chunk of a pool is free, once, or the memory of one node; a node outside
\* of the tree is in the hands of a call; and when the document is gone, every
\* chunk and attribute has come back and no node counts as untracked.
THEOREM ChunksReturn ==
    DocumentSpec => []ChunksOnce
  <1>1. DocumentInv => ChunksOnce
    <2> SUFFICES ASSUME DocumentInv PROVE ChunksOnce
      OBVIOUS
    <2>1. \A k : {x \in Nodes : PoolOf(x) = k} = NodesOf(k)
      BY DEF NodesOf
    <2>2. ASSUME NEW k \in Pools
          PROVE  /\ IsInjective(free[k])
                 /\ Range(free[k]) \cup {x \in Nodes : PoolOf(x) = k} = Chunks(k)
                 /\ Cardinality({x \in Nodes : PoolOf(x) = k}) = currentAllocs[k]
                 /\ Len(free[k]) + currentAllocs[k] = blocks[k] * Count
      BY <2>1 DEF DocumentInv, PoolInv
    <2>3. ASSUME NEW x \in Nodes, node[x].parent = Null
          PROVE  x \in Range(frames) \cup {cur} \cup Range(deleting)
      BY <2>3 DEF DocumentInv, HandsInv, Hands, Nodes
    <2>4. ASSUME pc = "done", crash = "none", NEW k \in Pools
          PROVE  currentAllocs[k] = 0 /\ untracked[k] = 0 /\ attrAllocs = 0
      <3>1. Nodes = {}
        BY <2>4 DEF DocumentInv, PhaseInv
      <3>2. NodesOf(k) = {} /\ AttrChunks = {}
        BY <3>1 DEF NodesOf, AttrChunks, Owners
      <3>3. currentAllocs[k] = 0 /\ attrAllocs = 0
        BY <3>2, FS_EmptySet DEF DocumentInv, PoolInv, AttrInv
      <3> QED BY <2>4, <3>3 DEF DocumentInv, UntrackedInv
    <2> QED BY <2>2, <2>3, <2>4 DEF ChunksOnce
  <1> QED BY <1>1, DocumentInvariance, PTL
-----------------------------------------------------------------------------
(* Documents: what a text means *)

BalanceOf(t, i, j) == Cardinality({k \in i .. j : t[k].kind = "open"})
                      - Cardinality({k \in i .. j : t[k].kind = "close"})
Candidates(t, i) == {j \in 1 .. i - 1 : t[j].kind = "open" /\ BalanceOf(t, j, i - 1) = 1}
EncloserOf(t, i) == CHOOSE j \in Candidates(t, i) \cup {0} : \A k \in Candidates(t, i) : k <= j
StopsOf(t) == {i \in DOMAIN t : t[i].kind = "close" /\ EncloserOf(t, i) = 0}
ReadOf(t) == {i \in DOMAIN t : \A s \in StopsOf(t) : i < s}
Sound(t) ==
    /\ t # << >>
    /\ \A i \in ReadOf(t) :
         /\ t[i].kind \notin {"cut", "cutCdata", "stray"}
         /\ t[i].kind = "text" => i < Len(t)
         /\ t[i].kind \in {"open", "empty"} => Duplicates(t[i].attrs) = {}
         /\ t[i].kind = "close" => t[EncloserOf(t, i)].name = t[i].name
         /\ t[i].kind = "open" => \E c \in ReadOf(t) : t[c].kind = "close" /\ EncloserOf(t, c) = i

\* v[j] is the start tag of the j-th frame of n (v[1] = 0: the document), d of
\* them are not ended among the tokens before u.
Balanced(t, v, n, u, d) ==
    /\ \A j \in 2 .. n : BalanceOf(t, v[j], u - 1) = d - j + 1
    /\ \A j \in 1 .. n, m \in 1 .. u - 1 : m > v[j] => BalanceOf(t, m, u - 1) <= d - j

Stacked(t, v, n, u) ==
    /\ n \in Nat /\ n >= 1 /\ u \in Nat /\ u >= 1
    /\ \A j \in 1 .. n : v[j] \in Nat /\ v[j] < u
    /\ v[1] = 0
    /\ \A j \in 2 .. n : v[j] >= 1 /\ t[v[j]].kind = "open"

-----------------------------------------------------------------------------
(* Documents: what has been parsed means what the text does *)

\* Start tags of the calls of ParseDeep() that have not returned; 0: the document's
Starts == [j \in 1 .. Len(frames) |-> node[frames[j]].value]
Pending == {Starts[j] : j \in 2 .. Len(frames)}

\* Token i of a well-formed text
Accepted(t, i) ==
    /\ t[i].kind \notin {"cut", "cutCdata", "stray"}
    /\ t[i].kind = "text" => i < Len(t)
    /\ t[i].kind \in {"open", "empty"} => Duplicates(t[i].attrs) = {}
    /\ t[i].kind = "close" => EncloserOf(t, i) # 0 /\ t[EncloserOf(t, i)].name = t[i].name

\* The tokens before u are accepted, and of their start tags those in O, and no
\* others, have no end tag among them.
History(t, u, O) == \A i \in 1 .. u - 1 :
    /\ Accepted(t, i)
    /\ t[i].kind = "close" => EncloserOf(t, i) \notin O
    /\ t[i].kind = "open" => i \in O \/ \E c \in 1 .. u - 1 : t[c].kind = "close" /\ EncloserOf(t, c) = i

Parsing == errorID = "none" /\ (pc \in {"loop", "handle", "return"} \/ after = "return")
Building == errorID = "none" /\ (pc \in {"start", "loop", "handle", "return", "walk"} \/ after = "return")

\* Where ParseDeep() can be
Depth == Len(frames)
Held == node[cur].value
AtLoop == /\ pc = "loop"
          /\ History(text, pos, Pending)
          /\ Balanced(text, Starts, Depth, pos, Depth)
AtLeaf == /\ pc = "handle" /\ result.ok /\ result.endTag = Null
          /\ text[pos - 1].kind \notin {"open", "close"} /\ Held = pos - 1
          /\ History(text, pos, Pending)
          /\ Balanced(text, Starts, Depth, pos, Depth)
          /\ EncloserOf(text, pos - 1) = Starts[Depth]
AtTruncated == /\ pc = "handle" /\ result.ok /\ result.endTag = Null
               /\ text[pos - 1].kind = "open" /\ Held = pos - 1 /\ pos > Len(text)
               /\ History(text, pos - 1, Pending)
AtStray == /\ pc = "handle" /\ ~result.ok
           /\ text[pos - 1].kind = "stray" /\ pos > 1
           /\ History(text, pos - 1, Pending)
AtClose == /\ pc = "handle" /\ result.ok /\ result.endTag = Null
           /\ text[pos - 1].kind = "close" /\ Held = pos - 1
           /\ History(text, pos - 1, Pending)
           /\ Balanced(text, Starts, Depth, pos, Depth - 1)
           /\ EncloserOf(text, pos - 1) = Starts[Depth]
Ending == /\ pc = "return" \/ after = "return"
          /\ result.ok
          /\ text[pos - 1].kind = "close" /\ pos > 1
          /\ History(text, pos - 1, Pending)
          /\ Balanced(text, Starts, Depth, pos, Depth - 1)
          /\ EncloserOf(text, pos - 1) = Starts[Depth]
          /\ Depth > 1 => result.endTag = text[pos - 1].name
AtEnded == /\ pc = "handle" /\ result.ok /\ result.endTag = text[pos - 1].name
           /\ text[pos - 1].kind = "close" /\ pos > 1
           /\ History(text, pos - 1, Pending \cup {Held})
           /\ Balanced(text, Starts, Depth, pos, Depth)
           /\ EncloserOf(text, pos - 1) = Held
           /\ text[Held].kind = "open" /\ EncloserOf(text, Held) = Starts[Depth] /\ Held \notin Pending
Short == /\ pc = "return" /\ ~result.ok
         /\ pos > Len(text)
         /\ History(text, pos, Pending)
AtShort == /\ pc = "handle" /\ ~result.ok
           /\ pos > Len(text)
           /\ text[Held].kind = "open"
           /\ History(text, pos, Pending \cup {Held})

\* While nothing has failed, the call on top is at one of these places.
CallInv == Parsing => \/ AtLoop \/ AtLeaf \/ AtTruncated \/ AtStray \/ AtClose \/ Ending \/ AtEnded
                      \/ Short \/ AtShort

\* Each call but the document's is for a start tag inside of that of the call below.
FrameInv == errorID = "none" =>
    /\ \A j \in 2 .. Len(frames) :
         /\ text[Starts[j]].kind = "open"
         /\ EncloserOf(text, Starts[j]) = Starts[j - 1]

\* The tree is that of the tokens before pos.
TreeInv ==
    /\ node[Doc].value = 0
    /\ \A x \in Nodes :
         /\ node[x].value >= 1
         /\ node[x].closing = ClosingType(text[node[x].value].kind)
         /\ PoolOf(x) = PoolFor(text[node[x].value].kind)
    /\ errorID = "none" => \A x \in Nodes : node[x].parent # Null =>
         node[node[x].parent].value = EncloserOf(text, node[x].value)
    /\ Building =>
         /\ \A i \in 1 .. pos - 1 : text[i].kind # "close" => \E x \in Nodes : node[x].value = i
         /\ \A x \in Nodes : text[node[x].value].kind = "close" => x = cur \/ x \in Range(deleting)
         /\ \A x \in Range(deleting) : text[node[x].value].kind = "close"

\* An error is reported for an unsound text alone, and the walk begins when all
\* that is to be read has been.
OutcomeInv ==
    /\ pc = "start" => pos = 1
    /\ pc \notin {"start", "done"} => text # << >>
    /\ errorID # "none" => ~Sound(text)
    /\ pc = "walk" => /\ Sound(text)
                      /\ \A i : i \in ReadOf(text) /\ text[i].kind # "close"
                           <=> i \in 1 .. pos - 1 /\ text[i].kind # "close"

\* The definitions of XmlDocument are these, of the variable text.
LEMMA MeaningOfText ==
    /\ \A i : Encloser(i) = EncloserOf(text, i)
    /\ Read = ReadOf(text)
    /\ WellFormed <=> Sound(text)
  <1>1. ASSUME NEW i PROVE Encloser(i) = EncloserOf(text, i)
    BY DEF Encloser, EncloserOf, Balance, BalanceOf, Candidates
  <1>2. Read = ReadOf(text)
    BY <1>1 DEF Read, ReadOf, Stops, StopsOf
  <1> QED BY <1>1, <1>2 DEF WellFormed, Sound

LEMMA BalanceNext ==
    ASSUME NEW t, NEW u \in Nat, NEW i \in Nat, i <= u
    PROVE  /\ BalanceOf(t, i, u - 1) \in Int
           /\ t[u].kind = "open" => BalanceOf(t, i, u) = BalanceOf(t, i, u - 1) + 1
           /\ t[u].kind = "close" => BalanceOf(t, i, u) = BalanceOf(t, i, u - 1) - 1
           /\ t[u].kind \notin {"open", "close"} => BalanceOf(t, i, u) = BalanceOf(t, i, u - 1)
           /\ i = u => BalanceOf(t, i, u - 1) = 0
  <1> DEFINE A(m, kind) == {k \in i .. m : t[k].kind = kind}
  <1>1. \A k : k \in i .. u <=> k \in i .. u - 1 \/ k = u
    OBVIOUS
  <1>2. u \notin i .. u - 1
    OBVIOUS
  <1>3. ASSUME NEW kind
        PROVE  /\ IsFiniteSet(A(u - 1, kind)) /\ Cardinality(A(u - 1, kind)) \in Nat
               /\ t[u].kind = kind => Cardinality(A(u, kind)) = Cardinality(A(u - 1, kind)) + 1
               /\ t[u].kind # kind => Cardinality(A(u, kind)) = Cardinality(A(u - 1, kind))
               /\ i = u => Cardinality(A(u - 1, kind)) = 0
    <2>1. IsFiniteSet(i .. u - 1)
      <3>1. i \in Int /\ u - 1 \in Int
        OBVIOUS
      <3> QED BY <3>1, FS_Interval
    <2>2. IsFiniteSet(A(u - 1, kind))
      BY <2>1, FS_Subset
    <2>3. t[u].kind = kind => A(u, kind) = A(u - 1, kind) \cup {u}
      BY <1>1
    <2>4. t[u].kind # kind => A(u, kind) = A(u - 1, kind)
      BY <1>1
    <2>5. u \notin A(u - 1, kind)
      BY <1>2
    <2>6. i = u => i .. u - 1 = {}
      OBVIOUS
    <2>7. i = u => A(u - 1, kind) = {}
      BY <2>6
    <2> HIDE DEF A
    <2>8. Cardinality(A(u - 1, kind) \cup {u}) = Cardinality(A(u - 1, kind)) + 1
      BY <2>2, <2>5, FS_AddElement
    <2> QED BY <2>2, <2>3, <2>4, <2>7, <2>8, FS_CardinalityType, FS_EmptySet
  <1>4. \A m : BalanceOf(t, i, m) = Cardinality(A(m, "open")) - Cardinality(A(m, "close"))
    BY DEF BalanceOf
  <1> HIDE DEF A
  <1>5. "open" # "close"
    OBVIOUS
  <1> QED BY <1>3, <1>4, <1>5

\* What a token is inside of comes before it and is a start tag, or is the document.
LEMMA EncloserBefore ==
    ASSUME NEW t, NEW i \in Nat
    PROVE  EncloserOf(t, i) = 0 \/ (EncloserOf(t, i) \in 1 .. i - 1 /\ t[EncloserOf(t, i)].kind = "open")
  <1> DEFINE C == Candidates(t, i)
  <1>1. C \subseteq Nat /\ \A j \in C : j <= i /\ j >= 1
    BY DEF Candidates
  <1>2. C \subseteq 1 .. i - 1 /\ \A j \in C : t[j].kind = "open"
    BY DEF Candidates
  <1> HIDE DEF C
  <1>3. \E j \in C \cup {0} : \A k \in C : k <= j
    <2>1. CASE C = {}
      BY <2>1
    <2>2. CASE C # {}
      BY <1>1, <2>2, GreatestNumber
    <2> QED BY <2>1, <2>2
  <1>4. EncloserOf(t, i) \in C \cup {0}
    BY <1>3 DEF EncloserOf, C
  <1> QED BY <1>2, <1>4

\* The innermost frame is what the next token is inside of.
LEMMA EncloserIsInnermost ==
    ASSUME NEW t, NEW v, NEW n, NEW u, Stacked(t, v, n, u), Balanced(t, v, n, u, n)
    PROVE  EncloserOf(t, u) = v[n]
  <1>1. /\ n \in Nat /\ n >= 1 /\ u \in Nat /\ u >= 1 /\ v[1] = 0 /\ v[n] \in Nat /\ v[n] < u
        /\ n >= 2 => v[n] >= 1 /\ t[v[n]].kind = "open"
    <2>1. n \in Nat /\ n >= 1
      BY DEF Stacked
    <2>2. n \in 1 .. n /\ (n >= 2 => n \in 2 .. n)
      BY <2>1
    <2> QED BY <2>1, <2>2 DEF Stacked
  <1>2. ASSUME NEW m \in 1 .. u - 1, m > v[n] PROVE BalanceOf(t, m, u - 1) <= 0
    <2>1. n \in 1 .. n /\ n - n = 0
      BY <1>1
    <2> QED BY <1>2, <2>1 DEF Balanced
  <1>3. \A j \in Candidates(t, u) : j <= v[n]
    <2>1. ASSUME NEW j \in Candidates(t, u), ~(j <= v[n]) PROVE FALSE
      <3>1. j \in 1 .. u - 1 /\ BalanceOf(t, j, u - 1) = 1
        BY <2>1 DEF Candidates
      <3>2. j > v[n]
        BY <1>1, <2>1, <3>1
      <3> QED BY <1>2, <3>1, <3>2
    <2> QED BY <2>1
  <1>4. v[n] \in Candidates(t, u) \cup {0}
    <2>1. CASE n = 1
      BY <1>1, <2>1
    <2>2. CASE n >= 2
      <3>1. n \in 2 .. n /\ n - n + 1 = 1
        BY <1>1, <2>2
      <3>2. BalanceOf(t, v[n], u - 1) = 1
        BY <3>1 DEF Balanced
      <3>3. v[n] \in 1 .. u - 1
        BY <1>1, <2>2
      <3> QED BY <1>1, <2>2, <3>2, <3>3 DEF Candidates
    <2> QED BY <1>1, <2>1, <2>2
  <1>5. Candidates(t, u) \subseteq Nat
    BY <1>1 DEF Candidates
  <1>6. \A k \in Candidates(t, u) \cup {0} : (\A j \in Candidates(t, u) : j <= k) => k = v[n]
    <2>1. ASSUME NEW k \in Candidates(t, u) \cup {0}, \A j \in Candidates(t, u) : j <= k PROVE k = v[n]
      <3>1. k \in Nat
        BY <1>5
      <3>2. k <= v[n]
        BY <1>1, <1>3
      <3>3. v[n] <= k
        BY <1>1, <1>4, <2>1, <3>1
      <3> QED BY <1>1, <3>1, <3>2, <3>3
    <2> QED BY <2>1
  <1> HIDE DEF Candidates
  <1> QED BY <1>3, <1>4, <1>6 DEF EncloserOf

LEMMA BalancedNext ==
    ASSUME NEW t, NEW v, NEW n, NEW u, Stacked(t, v, n, u), Balanced(t, v, n, u, n)
    PROVE  /\ t[u].kind \notin {"open", "close"} => Balanced(t, v, n, u + 1, n)
           /\ t[u].kind = "close" => Balanced(t, v, n, u + 1, n - 1)
           /\ t[u].kind = "open" => \A w :
                (\A j \in 1 .. n : w[j] = v[j]) /\ w[n + 1] = u => Balanced(t, w, n + 1, u + 1, n + 1)
  <1>1. /\ n \in Nat /\ n >= 1 /\ u \in Nat /\ u >= 1
        /\ \A j \in 1 .. n : v[j] \in Nat /\ v[j] < u
    BY DEF Stacked
  <1>2. (u + 1) - 1 = u
    BY <1>1
  <1>3. \A j \in 2 .. n : j \in 1 .. n
    BY <1>1
  <1>4. \A j \in 1 .. n : /\ BalanceOf(t, v[j], u - 1) \in Int
                          /\ t[u].kind = "open" => BalanceOf(t, v[j], u) = BalanceOf(t, v[j], u - 1) + 1
                          /\ t[u].kind = "close" => BalanceOf(t, v[j], u) = BalanceOf(t, v[j], u - 1) - 1
                          /\ t[u].kind \notin {"open", "close"} => BalanceOf(t, v[j], u) = BalanceOf(t, v[j], u - 1)
    BY <1>1, BalanceNext
  <1>5. \A m \in 1 .. u : /\ BalanceOf(t, m, u - 1) \in Int
                          /\ t[u].kind = "open" => BalanceOf(t, m, u) = BalanceOf(t, m, u - 1) + 1
                          /\ t[u].kind = "close" => BalanceOf(t, m, u) = BalanceOf(t, m, u - 1) - 1
                          /\ t[u].kind \notin {"open", "close"} => BalanceOf(t, m, u) = BalanceOf(t, m, u - 1)
                          /\ m = u => BalanceOf(t, m, u - 1) = 0
    BY <1>1, BalanceNext
  <1>6. \A j \in 2 .. n : BalanceOf(t, v[j], u - 1) = n - j + 1
    BY DEF Balanced
  <1>7. \A j \in 1 .. n, m \in 1 .. u : m > v[j] => BalanceOf(t, m, u - 1) <= n - j
    <2>1. ASSUME NEW j \in 1 .. n, NEW m \in 1 .. u, m > v[j] PROVE BalanceOf(t, m, u - 1) <= n - j
      <3>1. CASE m = u
        <4>1. BalanceOf(t, m, u - 1) = 0
          BY <1>5, <3>1
        <4> QED BY <1>1, <4>1
      <3>2. CASE m # u
        <4>1. m \in 1 .. u - 1
          BY <1>1, <3>2
        <4> QED BY <2>1, <4>1 DEF Balanced
      <3> QED BY <3>1, <3>2
    <2> QED BY <2>1
  <1>8. ASSUME t[u].kind \notin {"open", "close"} PROVE Balanced(t, v, n, u + 1, n)
    <2>1. \A j \in 2 .. n : BalanceOf(t, v[j], u) = n - j + 1
      BY <1>3, <1>4, <1>6, <1>8
    <2>2. \A j \in 1 .. n, m \in 1 .. u : m > v[j] => BalanceOf(t, m, u) <= n - j
      BY <1>5, <1>7, <1>8
    <2> QED BY <1>2, <2>1, <2>2 DEF Balanced
  <1>9. ASSUME t[u].kind = "close" PROVE Balanced(t, v, n, u + 1, n - 1)
    <2>1. ASSUME NEW j \in 2 .. n PROVE BalanceOf(t, v[j], u) = (n - 1) - j + 1
      <3>1. BalanceOf(t, v[j], u) = BalanceOf(t, v[j], u - 1) - 1
        BY <1>3, <1>4, <1>9
      <3> QED BY <1>1, <1>6, <3>1
    <2>2. ASSUME NEW j \in 1 .. n, NEW m \in 1 .. u, m > v[j] PROVE BalanceOf(t, m, u) <= (n - 1) - j
      <3>1. PICK b \in Int : b = BalanceOf(t, m, u - 1) /\ b <= n - j /\ BalanceOf(t, m, u) = b - 1
        BY <1>5, <1>7, <1>9, <2>2
      <3> QED BY <1>1, <3>1
    <2> QED BY <1>2, <2>1, <2>2 DEF Balanced
  <1>10. ASSUME t[u].kind = "open", NEW w, \A j \in 1 .. n : w[j] = v[j], w[n + 1] = u
         PROVE  Balanced(t, w, n + 1, u + 1, n + 1)
    <2>1. \A j \in 2 .. n + 1 : j \in 2 .. n \/ j = n + 1
      BY <1>1
    <2>2. \A j \in 1 .. n + 1 : j \in 1 .. n \/ j = n + 1
      BY <1>1
    <2>3. ASSUME NEW j \in 2 .. n + 1 PROVE BalanceOf(t, w[j], u) = (n + 1) - j + 1
      <3>1. CASE j \in 2 .. n
        <4>1. BalanceOf(t, w[j], u) = BalanceOf(t, v[j], u - 1) + 1
          BY <1>3, <1>4, <1>10, <3>1
        <4> QED BY <1>1, <1>6, <3>1, <4>1
      <3>2. CASE j = n + 1
        <4>1. u \in 1 .. u /\ (n + 1) - (n + 1) + 1 = 1
          BY <1>1
        <4>2. BalanceOf(t, u, u - 1) = 0 /\ BalanceOf(t, u, u) = BalanceOf(t, u, u - 1) + 1
          BY <1>5, <1>10, <4>1
        <4> QED BY <1>10, <3>2, <4>1, <4>2
      <3> QED BY <2>1, <3>1, <3>2
    <2>4. ASSUME NEW j \in 1 .. n + 1, NEW m \in 1 .. u, m > w[j] PROVE BalanceOf(t, m, u) <= (n + 1) - j
      <3>1. CASE j \in 1 .. n
        <4>1. m > v[j]
          BY <1>10, <2>4, <3>1
        <4>2. PICK b \in Int : b = BalanceOf(t, m, u - 1) /\ b <= n - j /\ BalanceOf(t, m, u) = b + 1
          BY <1>5, <1>7, <1>10, <3>1, <4>1
        <4> QED BY <1>1, <3>1, <4>2
      <3>2. CASE j = n + 1
        <4>1. m > u
          BY <1>10, <2>4, <3>2
        <4> QED BY <1>1, <4>1
      <3> QED BY <2>2, <3>1, <3>2
    <2> QED BY <1>2, <2>3, <2>4 DEF Balanced
  <1> QED BY <1>8, <1>9, <1>10

LEMMA BalancedPop ==
    ASSUME NEW t, NEW v, NEW n \in Nat, NEW u, n > 1, Balanced(t, v, n, u, n - 1)
    PROVE  Balanced(t, v, n - 1, u, n - 1)
  <1>1. \A j \in 2 .. n - 1 : j \in 2 .. n
    OBVIOUS
  <1>2. \A j \in 1 .. n - 1 : j \in 1 .. n
    OBVIOUS
  <1> QED BY <1>1, <1>2 DEF Balanced

\* A token that is accepted is added to what has been parsed.
LEMMA HistoryLeaf ==
    ASSUME NEW t, NEW u \in Nat, u >= 1, NEW O, History(t, u, O), Accepted(t, u),
           t[u].kind \notin {"open", "close"}
    PROVE  History(t, u + 1, O)
  <1>1. \A i \in 1 .. (u + 1) - 1 : i \in 1 .. u - 1 \/ i = u
    OBVIOUS
  <1>2. \A i \in 1 .. u - 1 : i \in 1 .. (u + 1) - 1
    OBVIOUS
  <1> QED BY <1>1, <1>2 DEF History

LEMMA HistoryOpen ==
    ASSUME NEW t, NEW u \in Nat, u >= 1, NEW O, History(t, u, O), Accepted(t, u), t[u].kind = "open"
    PROVE  History(t, u + 1, O \cup {u})
  <1>1. \A i \in 1 .. (u + 1) - 1 : i \in 1 .. u - 1 \/ i = u
    OBVIOUS
  <1>2. \A i \in 1 .. u - 1 : i \in 1 .. (u + 1) - 1
    OBVIOUS
  <1>3. \A i \in 1 .. u - 1 : EncloserOf(t, i) # u
    <2>1. ASSUME NEW i \in 1 .. u - 1 PROVE EncloserOf(t, i) # u
      <3>1. i \in Nat /\ i < u /\ 0 # u /\ u \notin 1 .. i - 1
        OBVIOUS
      <3> QED BY <3>1, EncloserBefore
    <2> QED BY <2>1
  <1> QED BY <1>1, <1>2, <1>3 DEF History

LEMMA HistoryClose ==
    ASSUME NEW t, NEW u \in Nat, u >= 1, NEW O, NEW e, History(t, u, O \cup {e}), e \notin O, Accepted(t, u),
           t[u].kind = "close", EncloserOf(t, u) = e
    PROVE  History(t, u + 1, O)
  <1>1. \A i \in 1 .. (u + 1) - 1 : i \in 1 .. u - 1 \/ i = u
    OBVIOUS
  <1>2. \A i \in 1 .. u - 1 : i \in 1 .. (u + 1) - 1
    OBVIOUS
  <1>3. u \in 1 .. (u + 1) - 1
    OBVIOUS
  <1> QED BY <1>1, <1>2, <1>3 DEF History

\* All of what has been parsed is read, and the next token unless it ends the text.
LEMMA ParsedIsRead ==
    ASSUME NEW t, DOMAIN t = 1 .. Len(t), Len(t) \in Nat, NEW u \in Nat, NEW O, History(t, u, O),
           NEW m \in DOMAIN t, m <= u, m \notin StopsOf(t)
    PROVE  m \in ReadOf(t)
  <1>1. ASSUME NEW s \in StopsOf(t) PROVE m < s
    <2>1. s \in 1 .. Len(t) /\ t[s].kind = "close" /\ EncloserOf(t, s) = 0
      BY DEF StopsOf
    <2>2. s \notin 1 .. u - 1
      BY <2>1 DEF History, Accepted
    <2>3. s # m
      BY <1>1
    <2> QED BY <2>1, <2>2, <2>3
  <1> QED BY <1>1 DEF ReadOf

\* A token that is not accepted
LEMMA NotAccepted ==
    ASSUME NEW t, DOMAIN t = 1 .. Len(t), Len(t) \in Nat, NEW u \in DOMAIN t, NEW O, History(t, u, O),
           t[u].kind # "close" \/ EncloserOf(t, u) # 0, ~Accepted(t, u)
    PROVE  ~Sound(t)
  <1>1. u \in Nat /\ u <= u
    OBVIOUS
  <1>2. u \notin StopsOf(t)
    BY DEF StopsOf
  <1>3. u \in ReadOf(t)
    BY <1>1, <1>2, ParsedIsRead
  <1> QED BY <1>3 DEF Sound, Accepted

\* An element without an end tag
LEMMA NotEnded ==
    ASSUME NEW t, DOMAIN t = 1 .. Len(t), Len(t) \in Nat, NEW u \in Nat, NEW O, History(t, u, O),
           NEW h \in DOMAIN t, h <= u, t[h].kind = "open",
           \A c \in DOMAIN t : t[c].kind = "close" => EncloserOf(t, c) # h
    PROVE  ~Sound(t)
  <1>1. h \notin StopsOf(t)
    BY DEF StopsOf
  <1>2. h \in ReadOf(t)
    BY <1>1, ParsedIsRead
  <1>3. ReadOf(t) \subseteq DOMAIN t
    BY DEF ReadOf
  <1> QED BY <1>2, <1>3 DEF Sound

\* A text is parsed when there is nothing left of it, or an end tag outside of
\* every element, and no element is without its end tag.
LEMMA ParsedIsSound ==
    ASSUME NEW t, DOMAIN t = 1 .. Len(t), Len(t) \in Nat, t # << >>, NEW u \in Nat, u >= 1, History(t, u, {}),
           u > Len(t) \/ (t[u].kind = "close" /\ EncloserOf(t, u) = 0), u <= Len(t) + 1
    PROVE  Sound(t) /\ ReadOf(t) = 1 .. u - 1
  <1>1. \A i \in 1 .. u - 1 : i \in DOMAIN t /\ i <= u /\ i \in Nat
    OBVIOUS
  <1>2. ASSUME NEW i \in 1 .. u - 1 PROVE i \in ReadOf(t)
    <2>1. i \notin StopsOf(t)
      BY DEF StopsOf, History, Accepted
    <2> QED BY <1>1, <2>1, ParsedIsRead
  <1>3. ASSUME NEW i \in ReadOf(t) PROVE i \in 1 .. u - 1
    <2>1. i \in 1 .. Len(t) /\ \A s \in StopsOf(t) : i < s
      BY DEF ReadOf
    <2>2. CASE u > Len(t)
      BY <2>1, <2>2
    <2>3. CASE u <= Len(t) /\ t[u].kind = "close" /\ EncloserOf(t, u) = 0
      <3>1. u \in DOMAIN t
        BY <2>3
      <3>2. u \in StopsOf(t)
        BY <2>3, <3>1 DEF StopsOf
      <3> QED BY <2>1, <3>2
    <2> QED BY <2>2, <2>3
  <1>4. ReadOf(t) = 1 .. u - 1
    BY <1>2, <1>3
  <1>5. \A i \in ReadOf(t) : /\ Accepted(t, i)
                             /\ t[i].kind = "open" =>
                                  \E c \in ReadOf(t) : t[c].kind = "close" /\ EncloserOf(t, c) = i
    BY <1>4 DEF History
  <1> QED BY <1>4, <1>5 DEF Sound, Accepted

MeaningInv == FrameInv /\ TreeInv /\ CallInv /\ OutcomeInv

LEMMA TextFacts ==
    ASSUME DocumentInv
    PROVE  /\ DOMAIN text = 1 .. Len(text) /\ Len(text) \in Nat
           /\ pos \in Nat /\ 1 <= pos /\ pos <= Len(text) + 1
           /\ \A i \in DOMAIN text : text[i].kind \in Kinds /\ (text[i].kind = "close" => text[i].name # Null)
  <1>1. text \in Documents /\ pos \in Nat /\ 1 <= pos /\ pos <= Len(text) + 1
    BY DEF DocumentInv, DocumentTypeInv, ParseTypes
  <1>2. text \in Seq(Range(text))
    BY <1>1, DocumentsAssumption
  <1> QED BY <1>1, <1>2, DocumentsAssumption

\* The frames are the start tags of elements one inside of the other.
LEMMA FramesStacked ==
    ASSUME DocumentInv, FrameInv, TreeInv, errorID = "none"
    PROVE  Stacked(text, Starts, Depth, pos) /\ DOMAIN Starts = 1 .. Depth
  <1>1. /\ Len(frames) \in Nat /\ Len(frames) >= 1 /\ DOMAIN frames = 1 .. Len(frames) /\ frames[1] = Doc
        /\ \A j \in 1 .. Len(frames) : frames[j] \in DOMAIN node
    BY HandFacts
  <1>2. pos \in Nat /\ pos >= 1 /\ Heap(node, pos) /\ ValueInv /\ IsInjective(frames)
    BY TextFacts, NodeHeap DEF DocumentInv, HandsInv
  <1>3. \A x \in DOMAIN node : node[x].value \in Nat /\ node[x].value < pos
    BY <1>2, FieldTypes DEF ValueInv
  <1>4. \A j \in 1 .. Len(frames) : Starts[j] = node[frames[j]].value
    BY DEF Starts
  <1>5. \A j \in 2 .. Len(frames) : j \in 1 .. Len(frames) /\ j # 1
    BY <1>1
  <1>6. 1 \in 1 .. Len(frames)
    BY <1>1
  <1>7. \A j \in 2 .. Len(frames) : frames[j] \in Nodes
    BY <1>1, <1>2, <1>5, <1>6 DEF IsInjective, Nodes
  <1>8. Starts[1] = 0
    BY <1>1, <1>4, <1>6 DEF TreeInv
  <1>9. \A j \in 1 .. Len(frames) : Starts[j] \in Nat /\ Starts[j] < pos
    BY <1>1, <1>3, <1>4
  <1>10. \A j \in 2 .. Len(frames) : Starts[j] >= 1 /\ text[Starts[j]].kind = "open"
    BY <1>4, <1>5, <1>7 DEF TreeInv, FrameInv
  <1>11. DOMAIN Starts = 1 .. Len(frames)
    BY DEF Starts
  <1> QED BY <1>1, <1>2, <1>8, <1>9, <1>10, <1>11 DEF Stacked, Depth

LEMMA StartsKept ==
    ASSUME frames' = frames, \A j \in 1 .. Len(frames) : node'[frames[j]].value = node[frames[j]].value
    PROVE  Starts' = Starts /\ Pending' = Pending /\ Depth' = Depth
  <1>1. Starts' = Starts
    BY DEF Starts
  <1> QED BY <1>1 DEF Pending, Depth

\* The node that Identify() makes
Identified(x) ==
    /\ pc = "loop" /\ pos <= Len(text)
    /\ x \notin DOMAIN node /\ x # Null /\ x # Doc /\ PoolOf(x) = PoolFor(text[pos].kind)
    /\ DOMAIN node' = DOMAIN node \cup {x}
    /\ node'[x].value = pos /\ node'[x].closing = ClosingType(text[pos].kind) /\ node'[x].parent = Null
    /\ \A y \in DOMAIN node : node'[y] = node[y]
    /\ pos' = pos + 1 /\ text' = text /\ deleting' = deleting /\ after' = after
    /\ errorID' = LeafError(text[pos])
    /\ \/ /\ text[pos].kind = "open" /\ ~LeafFails(text[pos]) /\ pos < Len(text)
          /\ frames' = Append(frames, x) /\ pc' = pc /\ cur' = cur /\ result' = result
       \/ /\ ~(text[pos].kind = "open" /\ ~LeafFails(text[pos]) /\ pos < Len(text))
          /\ cur' = x /\ pc' = "handle" /\ frames' = frames
          /\ result'.endTag = Null
          /\ result'.ok <=> ~LeafFails(text[pos])

LEMMA IdentifyIs ==
    ASSUME DocumentInv, Identify
    PROVE  \E x : Identified(x)
  <1> DEFINE t == text[pos]
             k == PoolFor(t.kind)
             c == FreeOrNew(k)
             x == Head(c)
             attrs == IF t.kind \in {"open", "empty"} THEN SubSeq(t.attrs, 1, Cardinality(Linked(t.attrs)))
                      ELSE << >>
  <1>1. k \in Pools
    BY DEF PoolFor, Pools
  <1>2. /\ c \in Seq(Addresses) /\ c # << >>
        /\ IsInjective(c)
        /\ Range(c) \cap Nodes = {}
        /\ \A y \in Range(c) : y \in Addresses /\ PoolOf(y) = k
    BY <1>1, Chunk
  <1>3. x \in Addresses /\ x \in Range(c)
    <2> HIDE DEF c
    <2> QED BY <1>2, HeadAndTail
  <1>4. x # Null /\ x # Doc /\ x \notin DOMAIN node /\ PoolOf(x) = k
    <2>1. x # Null /\ x # Doc
      BY <1>3, NullAssumption DEF Addresses
    <2> QED BY <1>2, <1>3, <2>1 DEF Nodes
  <1>5. node' = [y \in DOMAIN node \cup {x} |-> IF y = x THEN NewNode(pos, ClosingType(t.kind), attrs) ELSE node[y]]
    BY DEF Identify
  <1>6. /\ DOMAIN node' = DOMAIN node \cup {x}
        /\ node'[x].value = pos /\ node'[x].closing = ClosingType(t.kind) /\ node'[x].parent = Null
        /\ \A y \in DOMAIN node : node'[y] = node[y]
    <2> DEFINE r == NewNode(pos, ClosingType(t.kind), attrs)
    <2>1. r.value = pos /\ r.closing = ClosingType(t.kind) /\ r.parent = Null
      BY DEF NewNode
    <2> HIDE DEF r, x
    <2>2. node' = [y \in DOMAIN node \cup {x} |-> IF y = x THEN r ELSE node[y]]
      BY <1>5 DEF r
    <2> QED BY <1>4, <2>1, <2>2
  <1>7. /\ pc = "loop" /\ pos <= Len(text)
        /\ pos' = pos + 1 /\ text' = text /\ deleting' = deleting /\ after' = after
        /\ errorID' = LeafError(t)
    BY DEF Identify, deleteVars
  <1>8. \/ /\ t.kind = "open" /\ ~LeafFails(t) /\ pos < Len(text)
           /\ frames' = Append(frames, x) /\ pc' = pc /\ cur' = cur /\ result' = result
        \/ /\ ~(t.kind = "open" /\ ~LeafFails(t) /\ pos < Len(text))
           /\ cur' = x /\ pc' = "handle" /\ frames' = frames
           /\ result' = [ok |-> ~LeafFails(t), endTag |-> Null]
    BY DEF Identify
  <1>9. result' = [ok |-> ~LeafFails(t), endTag |-> Null] => result'.endTag = Null /\ (result'.ok <=> ~LeafFails(t))
    <2>1. PICK ok \in BOOLEAN : ok = ~LeafFails(t)
      BY DEF LeafFails
    <2>2. ok <=> ~LeafFails(t)
      BY ONLY <2>1
    <2>3. result' = [ok |-> ok, endTag |-> Null] => result'.endTag = Null /\ result'.ok = ok
      OBVIOUS
    <2> HIDE DEF t
    <2> QED BY ONLY <2>1, <2>2, <2>3
  <1> HIDE DEF x, k
  <1>10. Identified(x)
    BY <1>4, <1>6, <1>7, <1>8, <1>9 DEF Identified, k
  <1> QED BY <1>10

-----------------------------------------------------------------------------
(* Documents: the tree is that of the text *)

\* What a step does to the fields that have a meaning
LEMMA NodeFields ==
    ASSUME DocumentInv, [DocumentNext]_documentVars, ~Identify
    PROVE  /\ Doc \in DOMAIN node' /\ DOMAIN node' \subseteq DOMAIN node
           /\ ~FreeNode => DOMAIN node' = DOMAIN node
           /\ \A x \in DOMAIN node' :
                /\ node'[x].value = node[x].value /\ node'[x].closing = node[x].closing
                /\ \/ node'[x].parent \in {node[x].parent, Null}
                   \/ ChildInserted /\ x = cur /\ node'[x].parent = Last(frames)
  <1>1. Doc \in DOMAIN node /\ Heap(node, pos) /\ Links(node)
    BY NodeHeap DEF DocumentInv, DocumentTypeInv, HeapTypes
  <1>2. CASE ChildInserted
    <2>1. cur # Null /\ node' = InsertEndChild(node, Last(frames), cur)
      BY <1>2 DEF ChildInserted, DocumentInv, PhaseInv
    <2>2. Inserted(node', node, Last(frames), cur)
      BY <1>1, <2>1, HandFacts, InsertFields
    <2> QED BY <1>1, <1>2, <2>2 DEF Inserted
  <1>3. CASE DeleteChild
    <2>1. deleting # << >> /\ node[Last(deleting)].first # Null
          /\ node' = Unlink(node, node[Last(deleting)].first)
      BY <1>3 DEF DeleteChild
    <2>2. PICK c \in DOMAIN node : c = node[Last(deleting)].first
      BY <1>1, <2>1, HandFacts DEF Links
    <2>3. Unlinked(node', node, c)
      BY <1>1, <2>1, <2>2, UnlinkFields
    <2> QED BY <1>1, <2>3 DEF Unlinked
  <1>4. CASE FreeNode
    <2> DEFINE x == Last(deleting)
    <2>1. x # Doc /\ node' = [y \in DOMAIN node \ {x} |-> node[y]]
      BY <1>4 DEF FreeNode
    <2> HIDE DEF x
    <2>2. DOMAIN node' = DOMAIN node \ {x} /\ \A y \in DOMAIN node' : node'[y] = node[y]
      BY <2>1
    <2> QED BY <1>1, <1>4, <2>1, <2>2
  <1>5. CASE node' = node
    BY <1>1, <1>5
  <1> QED BY <1>2, <1>3, <1>4, <1>5, NodeSteps

\* What other steps than Identify() do to the rest
LEMMA ParseFields ==
    ASSUME DocumentInv, [DocumentNext]_documentVars, ~Identify
    PROVE  /\ text' = text /\ pos' = pos
           /\ errorID # "none" => errorID' # "none"
           /\ frames' = frames \/ (Return /\ errorID' = errorID)
           /\ Building' => Building
           /\ Parsing' => Parsing \/ Parse
  <1>1. PhaseInv
    BY DEF DocumentInv
  <1>2. text' = text /\ pos' = pos /\ (frames' = frames \/ (Return /\ errorID' = errorID))
    BY DEF DocumentNext, documentVars, Parse, TextEnds, ChildFailed, EndTag, ChildMismatched, Return,
           ChildInserted, DeleteChild, FreeNode,
           Deleted, ParseReturns, ClearPools, PassOver, Descend, VisitPlayer, WalkEnds
  <1>3. errorID # "none" => errorID' # "none"
    BY DEF DocumentNext, documentVars, Parse, TextEnds, ChildFailed, EndTag, ChildMismatched, Return,
           ChildInserted, DeleteChild, FreeNode,
           Deleted, ParseReturns, ClearPools, PassOver, Descend, VisitPlayer, WalkEnds
  <1>4. CASE ChildFailed \/ ChildMismatched
    <2>1. errorID' # "none"
      BY <1>4 DEF ChildFailed, ChildMismatched
    <2> QED BY <1>2, <1>3, <2>1 DEF Building, Parsing
  <1>5. CASE Deleted
    <2>1. pc = "delete" /\ pc' = after /\ after' = "none" /\ errorID' = errorID
      BY <1>5 DEF Deleted
    <2>2. after \in {"none", "return", "clearPools", "done"}
      BY DEF DocumentInv, DocumentTypeInv, WalkTypes
    <2> QED BY <1>1, <1>2, <1>3, <2>1, <2>2 DEF Building, Parsing, PhaseInv
  <1>6. CASE Parse
    <2>1. pc = "start" /\ (errorID' = errorID \/ errorID' = "empty")
      BY <1>6 DEF Parse
    <2> QED BY <1>2, <1>3, <1>6, <2>1 DEF Building
  <1>7. CASE ParseReturns \/ EndTag \/ TextEnds \/ Return \/ ChildInserted
    <2>1. pc \in {"loop", "handle", "return"}
      BY <1>7 DEF ParseReturns, EndTag, TextEnds, Return, ChildInserted
    <2>2. errorID = errorID'
      BY <1>7 DEF ParseReturns, EndTag, TextEnds, Return, ChildInserted
    <2> QED BY <1>2, <1>3, <2>1, <2>2 DEF Building, Parsing
  <1>8. CASE WalkEnds \/ ClearPools
    <2>1. after' \in {after, "done"} /\ pc' \in {"delete", "done"} /\ errorID' = errorID
      BY <1>8 DEF WalkEnds, ClearPools, deleteVars
    <2> QED BY <1>2, <1>3, <2>1 DEF Building, Parsing
  <1>9. CASE PassOver \/ Descend \/ VisitPlayer \/ DeleteChild \/ FreeNode \/ UNCHANGED documentVars
    <2>1. after' = after /\ (pc' = pc \/ pc' = "done") /\ errorID' = errorID
      BY <1>9 DEF PassOver, Descend, VisitPlayer, DeleteChild, FreeNode, deleteVars, documentVars
    <2> QED BY <1>2, <1>3, <2>1 DEF Building, Parsing
  <1> QED BY <1>4, <1>5, <1>6, <1>7, <1>8, <1>9 DEF DocumentNext

\* A node that is inserted belongs into the last frame.
LEMMA InsertedBelongs ==
    ASSUME DocumentInv, MeaningInv, ChildInserted, errorID = "none"
    PROVE  (AtLeaf \/ AtEnded) /\ EncloserOf(text, Held) = Starts[Depth] /\ text[Held].kind # "close"
  <1>1. /\ pc = "handle" /\ result.ok /\ node[cur].closing # "closing" /\ ~Mismatch /\ cur # Null
    BY DEF ChildInserted, DocumentInv, PhaseInv
  <1>2. Parsing
    BY <1>1 DEF Parsing
  <1>3. cur \in Nodes /\ cur # Doc
    BY <1>1, HandFacts DEF Nodes
  <1>4. node[cur].closing = ClosingType(text[Held].kind) /\ PoolOf(cur) = PoolFor(text[Held].kind)
    BY <1>3 DEF MeaningInv, TreeInv, Held
  <1>5. text[Held].kind # "close"
    BY <1>1, <1>4 DEF ClosingType
  <1>6. ~AtTruncated
    <2>1. ASSUME AtTruncated PROVE FALSE
      <3>1. result.endTag = Null /\ text[Held].kind = "open"
        BY <2>1 DEF AtTruncated
      <3>2. node[cur].closing = "open" /\ PoolOf(cur) = "element"
        BY <1>4, <3>1 DEF ClosingType, PoolFor
      <3> QED BY <1>1, <1>3, <3>1, <3>2 DEF Mismatch, IsElement
    <2> QED BY <2>1
  <1>7. ~AtClose
    BY <1>5 DEF AtClose
  <1>8. after # "return"
    BY <1>1 DEF DocumentInv, PhaseInv
  <1>9. AtLeaf \/ AtEnded
    BY <1>1, <1>2, <1>6, <1>7, <1>8 DEF MeaningInv, CallInv, AtLoop, AtStray, Ending, Short, AtShort
  <1> QED BY <1>5, <1>9 DEF AtLeaf, AtEnded

LEMMA FrameStep ==
    DocumentInv /\ MeaningInv /\ [DocumentNext]_documentVars => FrameInv'
  <1> SUFFICES ASSUME DocumentInv, MeaningInv, [DocumentNext]_documentVars, errorID' = "none"
               PROVE  \A j \in 2 .. Len(frames') :
                        /\ text'[Starts'[j]].kind = "open"
                        /\ EncloserOf(text', Starts'[j]) = Starts'[j - 1]
    BY DEF FrameInv
  <1>1. /\ Len(frames) \in Nat /\ Len(frames) >= 1 /\ DOMAIN frames = 1 .. Len(frames)
        /\ \A j \in 1 .. Len(frames) : frames[j] \in DOMAIN node
        /\ frames \in Seq(Addresses \cup {Doc}) /\ frames # << >>
    BY HandFacts DEF DocumentInv, DocumentTypeInv, ParseTypes
  <1>2. \A j \in 2 .. Len(frames) : j \in 1 .. Len(frames) /\ j - 1 \in 1 .. Len(frames)
    BY <1>1
  <1>3. CASE Identify
    <2>1. PICK x : Identified(x)
      BY <1>3, IdentifyIs
    <2>2. /\ errorID' = LeafError(text[pos]) /\ text' = text /\ pc = "loop"
          /\ \A y \in DOMAIN node : node'[y] = node[y]
      BY <2>1 DEF Identified
    <2>3. errorID = "none"
      BY <2>2 DEF LeafError
    <2>4. Parsing /\ AtLoop
      <3>1. Parsing /\ after # "return"
        BY <2>2, <2>3 DEF Parsing, DocumentInv, PhaseInv
      <3> QED BY <2>2, <3>1 DEF MeaningInv, CallInv, AtLoop, AtLeaf, AtTruncated, AtStray, AtClose, Ending, AtEnded,
                   Short, AtShort
    <2>5. \A j \in 2 .. Len(frames) :
            /\ text[Starts[j]].kind = "open"
            /\ EncloserOf(text, Starts[j]) = Starts[j - 1]
      BY <2>3 DEF MeaningInv, FrameInv
    <2>6. CASE frames' = frames
      <3>1. Starts' = Starts
        BY <1>1, <2>2, <2>6, StartsKept
      <3> QED BY <2>2, <2>5, <2>6, <3>1
    <2>7. CASE frames' = Append(frames, x) /\ text[pos].kind = "open"
      <3>1. Len(frames') = Len(frames) + 1 /\ frames'[Len(frames) + 1] = x
            /\ \A j \in 1 .. Len(frames) : frames'[j] = frames[j]
        BY <1>1, <2>7
      <3>2. Starts'[Len(frames) + 1] = pos
        <4>1. node'[x].value = pos
          BY <2>1 DEF Identified
        <4>2. Len(frames) + 1 \in 1 .. Len(frames')
          BY <1>1, <3>1
        <4> QED BY <3>1, <4>1, <4>2 DEF Starts
      <3>3. \A j \in 1 .. Len(frames) : Starts'[j] = Starts[j]
        <4>1. \A j \in 1 .. Len(frames) : j \in 1 .. Len(frames')
          BY <1>1, <3>1
        <4> QED BY <1>1, <2>2, <3>1, <4>1 DEF Starts
      <3>4. EncloserOf(text, pos) = Starts[Len(frames)]
        <4>1. Stacked(text, Starts, Depth, pos) /\ Balanced(text, Starts, Depth, pos, Depth)
          BY <2>3, <2>4, FramesStacked DEF AtLoop, MeaningInv
        <4> QED BY <4>1, EncloserIsInnermost DEF Depth
      <3>5. \A j \in 2 .. Len(frames') : j \in 2 .. Len(frames) \/ j = Len(frames) + 1
        BY <1>1, <3>1
      <3>6. (Len(frames) + 1) - 1 = Len(frames) /\ Len(frames) \in 1 .. Len(frames)
        BY <1>1
      <3>7. ASSUME NEW j \in 2 .. Len(frames')
            PROVE  text[Starts'[j]].kind = "open" /\ EncloserOf(text, Starts'[j]) = Starts'[j - 1]
        <4>1. CASE j = Len(frames) + 1
          BY <2>7, <3>2, <3>3, <3>4, <3>6, <4>1
        <4>2. CASE j \in 2 .. Len(frames)
          BY <1>2, <2>5, <3>3, <4>2
        <4> QED BY <3>5, <4>1, <4>2
      <3> QED BY <2>2, <3>7
    <2> QED BY <2>1, <2>6, <2>7 DEF Identified
  <1>4. CASE ~Identify
    <2>1. /\ text' = text /\ errorID = "none"
          /\ frames' = frames \/ Return
      BY <1>4, ParseFields
    <2>2. \A y \in DOMAIN node' : node'[y].value = node[y].value
      BY <1>4, NodeFields
    <2>3. \A j \in 2 .. Len(frames) :
            /\ text[Starts[j]].kind = "open"
            /\ EncloserOf(text, Starts[j]) = Starts[j - 1]
      BY <2>1 DEF MeaningInv, FrameInv
    <2>4. CASE frames' = frames
      <3>1. \A j \in 1 .. Len(frames) : frames[j] \in DOMAIN node'
        <4>1. \A x \in Range(frames') : x \in DOMAIN node' \cup {Null}
          BY HandsStep DEF HandsInv, Hands
        <4>2. \A j \in 1 .. Len(frames) : frames[j] # Null
          BY <1>1, NodeHeap
        <4> QED BY <1>1, <2>4, <4>1, <4>2 DEF Range
      <3>2. Starts' = Starts
        BY <2>2, <2>4, <3>1, StartsKept
      <3> QED BY <2>1, <2>3, <2>4, <3>2
    <2>5. CASE Return
      <3>1. frames' = Front(frames) /\ node' = node
        BY <2>5 DEF Return
      <3>2. Len(frames') = Len(frames) - 1 /\ \A j \in 1 .. Len(frames) - 1 : frames'[j] = frames[j]
        BY <1>1, <3>1, FrontElements
      <3>3. \A j \in 1 .. Len(frames) - 1 : j \in 1 .. Len(frames) /\ j \in 1 .. Len(frames')
        BY <1>1, <3>2
      <3>4. \A j \in 1 .. Len(frames) - 1 : Starts'[j] = Starts[j]
        BY <3>1, <3>2, <3>3 DEF Starts
      <3>5. \A j \in 2 .. Len(frames') : /\ j \in 2 .. Len(frames) /\ j \in 1 .. Len(frames) - 1
                                         /\ j - 1 \in 1 .. Len(frames) - 1
        BY <1>1, <3>2
      <3> QED BY <2>1, <2>3, <3>4, <3>5
    <2> QED BY <2>1, <2>4, <2>5
  <1> QED BY <1>3, <1>4

LEMMA TreeOfIdentify ==
    ASSUME DocumentInv, MeaningInv, Identify
    PROVE  TreeInv'
  <1>1. PICK x : Identified(x)
    BY IdentifyIs
  <1>2. /\ pc = "loop" /\ pos <= Len(text) /\ pos \in Nat /\ pos >= 1
        /\ x \notin DOMAIN node /\ x # Null /\ x # Doc /\ PoolOf(x) = PoolFor(text[pos].kind)
        /\ DOMAIN node' = DOMAIN node \cup {x}
        /\ node'[x].value = pos /\ node'[x].closing = ClosingType(text[pos].kind) /\ node'[x].parent = Null
        /\ \A y \in DOMAIN node : node'[y] = node[y]
        /\ pos' = pos + 1 /\ text' = text /\ deleting' = deleting /\ after' = after
        /\ errorID' = LeafError(text[pos])
    BY <1>1, TextFacts DEF Identified
  <1>3. cur = Null /\ deleting = << >> /\ after # "return" /\ Doc \in DOMAIN node /\ Null \notin DOMAIN node
    BY <1>2, NodeHeap DEF DocumentInv, PhaseInv, DocumentTypeInv, HeapTypes, Heap
  <1>4. Range(deleting) = {}
    BY <1>3, NoElement
  <1>5. errorID' = "none" => errorID = "none"
    BY <1>2 DEF LeafError
  <1>6. Nodes' = Nodes \cup {x}
    BY <1>2 DEF Nodes
  <1>7. \A y \in Nodes : y \in DOMAIN node
    BY DEF Nodes
  <1>8. node'[Doc].value = 0
    BY <1>2, <1>3 DEF MeaningInv, TreeInv
  <1>9. ASSUME NEW y \in Nodes'
        PROVE  /\ node'[y].value >= 1
               /\ node'[y].closing = ClosingType(text'[node'[y].value].kind)
               /\ PoolOf(y) = PoolFor(text'[node'[y].value].kind)
    BY <1>2, <1>6, <1>7 DEF MeaningInv, TreeInv
  <1>10. ASSUME errorID' = "none", NEW y \in Nodes', node'[y].parent # Null
         PROVE  node'[node'[y].parent].value = EncloserOf(text', node'[y].value)
    <2>1. y \in Nodes /\ y \in DOMAIN node
      BY <1>2, <1>6, <1>7, <1>10
    <2>2. node'[y] = node[y] /\ node[y].parent \in DOMAIN node
      BY <1>2, <1>10, <2>1 DEF DocumentInv, Links
    <2>3. node[node[y].parent].value = EncloserOf(text, node[y].value)
      BY <1>5, <1>10, <2>1, <2>2 DEF MeaningInv, TreeInv
    <2> QED BY <1>2, <2>2, <2>3
  <1>11. ASSUME Building'
         PROVE  /\ \A i \in 1 .. pos' - 1 : text'[i].kind # "close" => \E y \in Nodes' : node'[y].value = i
                /\ \A y \in Nodes' : text'[node'[y].value].kind = "close" => y = cur' \/ y \in Range(deleting')
                /\ \A y \in Range(deleting') : text'[node'[y].value].kind = "close"
    <2>1. Building
      BY <1>2, <1>5, <1>11 DEF Building
    <2>2. /\ \A i \in 1 .. pos - 1 : text[i].kind # "close" => \E y \in Nodes : node[y].value = i
          /\ \A y \in Nodes : text[node[y].value].kind # "close"
      <3>1. \A y \in Nodes : y # cur
        BY <1>3, <1>7
      <3> QED BY <1>4, <2>1, <3>1 DEF MeaningInv, TreeInv
    <2>3. \A i \in 1 .. pos' - 1 : i \in 1 .. pos - 1 \/ i = pos
      BY <1>2
    <2>4. ASSUME NEW i \in 1 .. pos' - 1, text'[i].kind # "close"
          PROVE  \E y \in Nodes' : node'[y].value = i
      <3>1. CASE i = pos
        BY <1>2, <1>6, <3>1
      <3>2. CASE i \in 1 .. pos - 1
        <4>1. PICK y \in Nodes : node[y].value = i
          BY <1>2, <2>2, <2>4, <3>2
        <4> QED BY <1>2, <1>6, <1>7, <4>1
      <3> QED BY <2>3, <3>1, <3>2
    <2>5. text[pos].kind = "close" => cur' = x
      BY <1>1 DEF Identified
    <2>6. \A y \in Nodes' : text'[node'[y].value].kind = "close" => y = cur'
      BY <1>2, <1>6, <1>7, <2>2, <2>5
    <2> QED BY <1>2, <1>4, <2>4, <2>6
  <1> QED BY <1>8, <1>9, <1>10, <1>11 DEF TreeInv

LEMMA TreeStep ==
    DocumentInv /\ MeaningInv /\ [DocumentNext]_documentVars => TreeInv'
  <1> SUFFICES ASSUME DocumentInv, MeaningInv, [DocumentNext]_documentVars, ~Identify PROVE TreeInv'
    BY TreeOfIdentify
  <1>1. /\ text' = text /\ pos' = pos
        /\ errorID' = "none" => errorID = "none"
        /\ Building' => Building
    BY ParseFields
  <1>2. /\ Doc \in DOMAIN node' /\ DOMAIN node' \subseteq DOMAIN node
        /\ ~FreeNode => DOMAIN node' = DOMAIN node
        /\ \A x \in DOMAIN node' :
             /\ node'[x].value = node[x].value /\ node'[x].closing = node[x].closing
             /\ \/ node'[x].parent \in {node[x].parent, Null}
                \/ ChildInserted /\ x = cur /\ node'[x].parent = Last(frames)
    BY NodeFields
  <1>3. \A x : x \in Nodes' => x \in Nodes /\ x \in DOMAIN node' /\ x \in DOMAIN node
    BY <1>2 DEF Nodes
  <1>4. TreeInv
    BY DEF MeaningInv
  <1>5. Links(node') /\ PhaseInv /\ PhaseInv'
    BY LinksStep, PhaseStep DEF DocumentInv
  <1>6. /\ Len(frames) \in Nat /\ Len(frames) >= 1 /\ Last(frames) = frames[Len(frames)]
        /\ cur # Null => cur \in DOMAIN node
    BY HandFacts
  <1>7. node'[Doc].value = 0
    BY <1>2, <1>4 DEF TreeInv
  <1>8. ASSUME NEW x \in Nodes'
        PROVE  /\ node'[x].value >= 1
               /\ node'[x].closing = ClosingType(text'[node'[x].value].kind)
               /\ PoolOf(x) = PoolFor(text'[node'[x].value].kind)
    BY <1>1, <1>2, <1>3, <1>4 DEF TreeInv
  <1>9. ASSUME errorID' = "none", NEW x \in Nodes', node'[x].parent # Null
        PROVE  node'[node'[x].parent].value = EncloserOf(text', node'[x].value)
    <2>1. x \in Nodes /\ x \in DOMAIN node' /\ node'[x].parent \in DOMAIN node'
      BY <1>3, <1>5, <1>9 DEF Links
    <2>2. node'[node'[x].parent].value = node[node'[x].parent].value /\ node'[x].value = node[x].value
      BY <1>2, <2>1
    <2>3. CASE node'[x].parent = node[x].parent
      BY <1>1, <1>4, <1>9, <2>1, <2>2, <2>3 DEF TreeInv
    <2>4. CASE ChildInserted /\ x = cur /\ node'[x].parent = Last(frames)
      <3>1. EncloserOf(text, Held) = Starts[Depth]
        BY <1>1, <1>9, <2>4, InsertedBelongs
      <3>2. Starts[Depth] = node[Last(frames)].value
        <4>1. Len(frames) \in 1 .. Len(frames)
          BY <1>6
        <4> QED BY <1>6, <4>1 DEF Starts, Depth
      <3> QED BY <1>1, <2>2, <2>4, <3>1, <3>2 DEF Held
    <2> QED BY <1>2, <1>9, <2>1, <2>3, <2>4
  <1>10. ASSUME Building'
         PROVE  /\ \A i \in 1 .. pos' - 1 : text'[i].kind # "close" => \E y \in Nodes' : node'[y].value = i
                /\ \A y \in Nodes' : text'[node'[y].value].kind = "close" => y = cur' \/ y \in Range(deleting')
                /\ \A y \in Range(deleting') : text'[node'[y].value].kind = "close"
    <2>1. /\ \A i \in 1 .. pos - 1 : text[i].kind # "close" => \E y \in Nodes : node[y].value = i
          /\ \A y \in Nodes : text[node[y].value].kind = "close" => y = cur \/ y \in Range(deleting)
          /\ \A y \in Range(deleting) : text[node[y].value].kind = "close"
          /\ errorID = "none" /\ errorID' = "none"
      BY <1>1, <1>4, <1>10 DEF TreeInv, Building
    <2>2. \A y \in Range(deleting) : y \in DOMAIN node
      BY HandFacts DEF Range
    <2>3. CASE FreeNode
      <3> DEFINE x == Last(deleting)
      <3>1. /\ deleting # << >> /\ deleting' = Front(deleting) /\ x # Doc /\ cur' = cur
            /\ node' = [y \in DOMAIN node \ {x} |-> node[y]]
        BY <2>3 DEF FreeNode
      <3>2. /\ Range(deleting') = Range(deleting) \ {x} /\ x \in Range(deleting)
        BY <3>1, FrontDistinct DEF DocumentInv, HandsInv, DocumentTypeInv, WalkTypes
      <3> HIDE DEF x
      <3>3. \A y : y \in Nodes' <=> y \in Nodes /\ y # x
        BY <3>1 DEF Nodes
      <3>4. text[node[x].value].kind = "close"
        BY <2>1, <3>2
      <3>5. \A y \in Range(deleting') : y \in DOMAIN node'
        BY <2>2, <3>1, <3>2
      <3>6. ASSUME NEW i \in 1 .. pos' - 1, text'[i].kind # "close" PROVE \E y \in Nodes' : node'[y].value = i
        <4>1. PICK y \in Nodes : node[y].value = i
          BY <1>1, <2>1, <3>6
        <4>2. y # x
          BY <1>1, <3>4, <3>6, <4>1
        <4> QED BY <1>2, <1>3, <3>3, <4>1, <4>2
      <3>7. ASSUME NEW y \in Nodes', text'[node'[y].value].kind = "close" PROVE y = cur' \/ y \in Range(deleting')
        BY <1>1, <1>2, <1>3, <2>1, <3>1, <3>2, <3>3, <3>7
      <3>8. ASSUME NEW y \in Range(deleting') PROVE text'[node'[y].value].kind = "close"
        BY <1>1, <1>2, <2>1, <3>2, <3>5, <3>8
      <3> QED BY <3>6, <3>7, <3>8
    <2>4. ASSUME ~FreeNode
          PROVE  \A i \in 1 .. pos' - 1 : text'[i].kind # "close" => \E y \in Nodes' : node'[y].value = i
      <3>1. Nodes' = Nodes
        BY <1>2, <2>4 DEF Nodes
      <3> QED BY <1>1, <1>2, <1>3, <2>1, <3>1
    <2>5. CASE EndTag
      <3>1. /\ pc = "handle" /\ cur # Null /\ node[cur].closing = "closing" /\ deleting' = <<cur>>
            /\ deleting = << >> /\ node' = node
        BY <1>5, <2>5 DEF EndTag, StartDelete, PhaseInv
      <3>2. Range(deleting') = {cur} /\ Range(deleting) = {}
        BY <3>1, SingleElement, NoElement
      <3>3. cur \in Nodes
        BY <3>1, HandFacts DEF Nodes
      <3>4. text[node[cur].value].kind = "close"
        BY <1>4, <3>1, <3>3 DEF TreeInv, ClosingType
      <3> QED BY <1>1, <1>3, <2>1, <2>4, <2>5, <3>1, <3>2, <3>4 DEF FreeNode, EndTag
    <2>6. CASE DeleteChild
      <3>1. /\ pc = "delete" /\ deleting # << >> /\ node[Last(deleting)].first # Null /\ after' = after /\ pc' = pc
        BY <2>6 DEF DeleteChild
      <3>2. after = "return"
        BY <1>10, <3>1 DEF Building
      <3>3. Last(deleting) \in Range(deleting) /\ Last(deleting) \in Nodes
        <4>1. Last(deleting) \in Range(deleting)
          BY <3>1, HandFacts DEF Range
        <4> QED BY <1>5, <2>2, <3>2, <4>1 DEF PhaseInv, Nodes
      <3>4. PICK c \in DOMAIN node : c = node[Last(deleting)].first /\ node[c].parent = Last(deleting)
        BY <3>1, <3>3 DEF DocumentInv, Links, Nodes
      <3>5. c \in Nodes /\ Last(deleting) # Null
        <4>1. Last(deleting) # Null
          BY <3>3, NodeHeap DEF Nodes
        <4>2. node[Doc].parent = Null
          <5>1. 1 \in DOMAIN frames /\ frames[1] = Doc
            BY HandFacts
          <5> QED BY <5>1, HandFacts
        <4> QED BY <3>4, <4>1, <4>2 DEF Nodes
      <3>6. node[Last(deleting)].value = EncloserOf(text, node[c].value)
        BY <1>4, <2>1, <3>4, <3>5 DEF TreeInv
      <3>7. node[c].value \in Nat /\ node[Last(deleting)].value >= 1 /\ text[node[Last(deleting)].value].kind = "close"
        BY <1>4, <2>1, <3>3, NodeHeap, FieldTypes DEF TreeInv
      <3>8. ~(0 >= 1)
        OBVIOUS
      <3> QED BY <3>6, <3>7, <3>8, EncloserBefore
    <2>7. CASE ChildInserted
      <3>1. /\ text[Held].kind # "close" /\ UNCHANGED <<deleting, after>> /\ pc = "handle"
        BY <2>1, <2>7, InsertedBelongs DEF ChildInserted, deleteVars
      <3>2. Range(deleting) = {}
        BY <1>5, <3>1, NoElement DEF PhaseInv
      <3>3. ~FreeNode
        BY <3>1 DEF FreeNode
      <3> QED BY <1>1, <1>2, <1>3, <2>1, <2>4, <3>1, <3>2, <3>3 DEF Held
    <2>8. CASE Return
      <3>1. pc = "return" /\ deleting' = deleting /\ node' = node
        BY <2>8 DEF Return, deleteVars
      <3>2. cur = Null /\ Range(deleting) = {} /\ ~FreeNode
        BY <1>5, <3>1, NoElement DEF PhaseInv, FreeNode
      <3>3. \A y \in Nodes : y # Null
        BY NodeHeap DEF Nodes
      <3> QED BY <1>1, <1>3, <2>1, <2>4, <3>1, <3>2, <3>3
    <2>9. CASE UNCHANGED <<node, cur>> /\ Range(deleting') = Range(deleting) /\ ~FreeNode
      BY <1>1, <1>3, <2>1, <2>4, <2>9
    <2>10. CASE Deleted
      <3>1. pc = "delete" /\ pc' = after /\ after' = "none" /\ deleting' = << >> /\ UNCHANGED <<node, cur>>
            /\ (deleting = << >> \/ deleting = <<Doc>>)
        BY <2>10 DEF Deleted
      <3>2. after = "return"
        BY <1>5, <1>10, <3>1 DEF Building, PhaseInv, DocumentInv, DocumentTypeInv, WalkTypes
      <3>3. deleting = << >>
        BY <1>5, <3>1, <3>2, SingleElement DEF PhaseInv
      <3> QED BY <1>1, <1>3, <2>1, <2>4, <3>1, <3>3 DEF FreeNode
    <2>11. CASE ParseReturns
      <3>1. pc = "return" /\ errorID = "none" /\ deleting' = deleting /\ UNCHANGED <<node, cur>>
        BY <2>1, <2>11 DEF ParseReturns, deleteVars
      <3>2. ~FreeNode
        BY <3>1 DEF FreeNode
      <3> QED BY <2>9, <3>1, <3>2
    <2>12. ~ChildFailed /\ ~ChildMismatched /\ ~WalkEnds
      BY <2>1, <1>10 DEF ChildFailed, ChildMismatched, WalkEnds, Building
    <2>13. CASE Parse \/ TextEnds \/ ClearPools \/ PassOver \/ Descend \/ VisitPlayer \/ UNCHANGED documentVars
      <3>1. UNCHANGED <<node, cur, deleting>>
        BY <2>13 DEF Parse, TextEnds, ClearPools, PassOver, Descend, VisitPlayer, deleteVars, documentVars
      <3>2. CASE FreeNode
        BY <2>3, <3>2
      <3> QED BY <2>9, <3>1, <3>2
    <2> QED BY <2>3, <2>5, <2>6, <2>7, <2>8, <2>10, <2>11, <2>12, <2>13 DEF DocumentNext
  <1> QED BY <1>7, <1>8, <1>9, <1>10 DEF TreeInv

-----------------------------------------------------------------------------
(* Documents: ParseDeep() *)

LEMMA HeldFacts ==
    ASSUME DocumentInv, TreeInv, pc = "handle"
    PROVE  /\ cur # Null /\ cur # Doc /\ cur \in Nodes
           /\ Held \in Nat /\ Held >= 1 /\ Held < pos /\ Held \in DOMAIN text
           /\ node[cur].closing = ClosingType(text[Held].kind)
           /\ PoolOf(cur) = PoolFor(text[Held].kind)
           /\ Name(cur) = text[Held].name
  <1>1. cur # Null /\ cur # Doc /\ cur \in Nodes /\ cur \in DOMAIN node
    BY HandFacts DEF DocumentInv, PhaseInv, Nodes
  <1>2. Held \in Nat /\ Held < pos /\ Held >= 1
    BY <1>1, NodeHeap, FieldTypes DEF DocumentInv, ValueInv, Held, TreeInv
  <1>3. Held \in DOMAIN text
    BY <1>2, TextFacts
  <1> QED BY <1>1, <1>2, <1>3 DEF TreeInv, Held, Name

\* The phases of a handled child
LEMMA HandlePhase ==
    ASSUME DocumentInv, MeaningInv, errorID = "none", pc = "handle"
    PROVE  AtLeaf \/ AtTruncated \/ AtStray \/ AtClose \/ AtEnded \/ AtShort
  <1>1. Parsing /\ after # "return"
    BY DEF Parsing, DocumentInv, PhaseInv
  <1> QED BY <1>1 DEF MeaningInv, CallInv, AtLoop, Ending, Short

LEMMA LoopPhase ==
    ASSUME DocumentInv, MeaningInv, errorID = "none", pc = "loop"
    PROVE  AtLoop
  <1>1. Parsing /\ after # "return"
    BY DEF Parsing, DocumentInv, PhaseInv
  <1> QED BY <1>1 DEF MeaningInv, CallInv, AtLeaf, AtTruncated, AtStray, AtClose, AtEnded, AtShort, Ending, Short

LEMMA ReturnPhase ==
    ASSUME DocumentInv, MeaningInv, errorID = "none", pc = "return" \/ after = "return"
    PROVE  Ending \/ Short
  <1>1. Parsing
    BY DEF Parsing, DocumentInv, PhaseInv
  <1>2. pc # "loop" /\ pc # "handle"
    BY DEF DocumentInv, PhaseInv
  <1> QED BY <1>1, <1>2
      DEF MeaningInv, CallInv, AtLeaf, AtTruncated, AtStray, AtClose, AtEnded, AtShort, AtLoop

\* What the node's ParseDeep() does not object to is accepted.
LEMMA LeafAccepted ==
    ASSUME DocumentInv, errorID = "none", pos <= Len(text),
           text[pos].kind \notin {"close", "stray"}
    PROVE  Accepted(text, pos) <=> LeafError(text[pos]) = "none"
  <1> DEFINE t == text[pos]
  <1>1. pos \in DOMAIN text /\ t.kind \in Kinds /\ (pos < Len(text) <=> pos # Len(text))
    BY TextFacts
  <1>2. CASE t.kind = "text"
    BY <1>1, <1>2 DEF Accepted, LeafError
  <1>3. CASE t.kind \in {"cut", "cutCdata"}
    BY <1>1, <1>3 DEF Accepted, LeafError
  <1>4. CASE t.kind \in {"open", "empty"}
    BY <1>1, <1>4 DEF Accepted, LeafError
  <1>5. CASE t.kind \in {"cdata", "comment"}
    BY <1>1, <1>5 DEF Accepted, LeafError
  <1> QED BY <1>1, <1>2, <1>3, <1>4, <1>5 DEF Kinds

LEMMA CallOfIdentify ==
    ASSUME DocumentInv, MeaningInv, Identify, errorID' = "none"
    PROVE  AtLoop' \/ AtLeaf' \/ AtTruncated' \/ AtStray' \/ AtClose'
  <1> DEFINE t == text[pos]
  <1>1. PICK x : Identified(x)
    BY IdentifyIs
  <1>2. /\ pc = "loop" /\ pos <= Len(text) /\ node'[x].value = pos /\ pos' = pos + 1 /\ text' = text
        /\ errorID' = LeafError(t)
        /\ \A y \in DOMAIN node : node'[y] = node[y]
    BY <1>1 DEF Identified
  <1>3. /\ pos \in Nat /\ pos >= 1 /\ Len(text) \in Nat /\ pos' - 1 = pos /\ pos \in DOMAIN text
        /\ t.kind \in Kinds
    BY <1>2, TextFacts
  <1>4. errorID = "none" /\ LeafError(t) = errorID
    BY <1>2 DEF LeafError
  <1>5. AtLoop
    BY <1>2, <1>4, LoopPhase
  <1>6. Stacked(text, Starts, Depth, pos)
    BY <1>4, FramesStacked DEF MeaningInv
  <1>7. History(text, pos, Pending) /\ Balanced(text, Starts, Depth, pos, Depth)
    BY <1>5 DEF AtLoop
  <1>8. EncloserOf(text, pos) = Starts[Depth]
    BY <1>6, <1>7, EncloserIsInnermost
  <1>9. /\ t.kind \notin {"open", "close"} => Balanced(text, Starts, Depth, pos + 1, Depth)
        /\ t.kind = "close" => Balanced(text, Starts, Depth, pos + 1, Depth - 1)
        /\ t.kind = "open" => \A w :
             (\A j \in 1 .. Depth : w[j] = Starts[j]) /\ w[Depth + 1] = pos
               => Balanced(text, w, Depth + 1, pos + 1, Depth + 1)
    BY <1>6, <1>7, BalancedNext
  <1>10. t.kind \notin {"close", "stray"} => Accepted(text, pos)
    BY <1>2, <1>4, LeafAccepted
  <1>11. LeafFails(t) <=> t.kind = "stray"
    BY <1>4 DEF LeafFails
  <1>12. /\ Len(frames) \in Nat /\ Len(frames) >= 1 /\ DOMAIN frames = 1 .. Len(frames)
         /\ \A j \in 1 .. Len(frames) : frames[j] \in DOMAIN node
         /\ frames \in Seq(Addresses \cup {Doc})
    BY HandFacts DEF DocumentInv, DocumentTypeInv, ParseTypes
  <1>13. CASE frames' = Append(frames, x) /\ t.kind = "open" /\ pc' = pc
    <2>1. Len(frames') = Len(frames) + 1 /\ frames'[Len(frames) + 1] = x
          /\ \A j \in 1 .. Len(frames) : frames'[j] = frames[j]
      BY <1>12, <1>13
    <2>2. /\ \A j \in 1 .. Len(frames) : j \in 1 .. Len(frames')
          /\ Len(frames) + 1 \in 1 .. Len(frames') /\ Len(frames) + 1 \in 2 .. Len(frames')
      BY <1>12, <2>1
    <2>3. Starts'[Len(frames) + 1] = pos /\ \A j \in 1 .. Len(frames) : Starts'[j] = Starts[j]
      BY <1>2, <1>12, <2>1, <2>2 DEF Starts
    <2>4. Pending' = Pending \cup {pos}
      <3>1. \A j : j \in 2 .. Len(frames') <=> j \in 2 .. Len(frames) \/ j = Len(frames) + 1
        BY <1>12, <2>1
      <3>2. \A j \in 2 .. Len(frames) : j \in 1 .. Len(frames)
        BY <1>12
      <3> QED BY <2>3, <3>1, <3>2 DEF Pending
    <2>5. History(text, pos + 1, Pending \cup {pos})
      BY <1>3, <1>7, <1>10, <1>13, HistoryOpen
    <2>6. Depth = Len(frames) /\ Depth' = Depth + 1
      BY <2>1 DEF Depth
    <2>7. Balanced(text, Starts', Depth + 1, pos + 1, Depth + 1)
      BY <1>9, <1>13, <2>3, <2>6
    <2>8. pc' = "loop"
      BY <1>2, <1>13
    <2> QED BY <1>2, <2>4, <2>5, <2>6, <2>7, <2>8 DEF AtLoop
  <1>14. CASE /\ ~(t.kind = "open" /\ ~LeafFails(t) /\ pos < Len(text))
              /\ cur' = x /\ pc' = "handle" /\ frames' = frames
              /\ result'.endTag = Null /\ (result'.ok <=> ~LeafFails(t))
    <2>1. Starts' = Starts /\ Pending' = Pending /\ Depth' = Depth
      BY <1>2, <1>12, <1>14, StartsKept
    <2>2. Held' = pos
      BY <1>2, <1>14 DEF Held
    <2>3. pos' > 1
      BY <1>2, <1>3
    <2>4. CASE t.kind = "stray"
      <3>1. ~result'.ok
        BY <1>11, <1>14, <2>4
      <3> QED BY <1>2, <1>3, <1>7, <1>14, <2>1, <2>3, <2>4, <3>1 DEF AtStray
    <2>5. CASE t.kind = "close"
      <3>1. result'.ok
        BY <1>11, <1>14, <2>5
      <3> QED BY <1>2, <1>3, <1>7, <1>8, <1>9, <1>14, <2>1, <2>2, <2>5, <3>1 DEF AtClose
    <2>6. CASE t.kind = "open"
      <3>1. result'.ok /\ ~(pos < Len(text))
        BY <1>11, <1>14, <2>6
      <3>2. pos' > Len(text)
        BY <1>2, <1>3, <3>1
      <3> QED BY <1>2, <1>3, <1>7, <1>14, <2>1, <2>2, <2>6, <3>1, <3>2 DEF AtTruncated
    <2>7. CASE t.kind \notin {"open", "close", "stray"}
      <3>1. result'.ok
        BY <1>11, <1>14, <2>7
      <3>2. History(text, pos + 1, Pending)
        BY <1>3, <1>7, <1>10, <2>7, HistoryLeaf
      <3>3. Balanced(text, Starts, Depth, pos + 1, Depth)
        BY <1>9, <2>7
      <3> QED BY <1>2, <1>3, <1>8, <1>14, <2>1, <2>2, <2>7, <3>1, <3>2, <3>3 DEF AtLeaf
    <2> QED BY <2>4, <2>5, <2>6, <2>7
  <1> QED BY <1>1, <1>13, <1>14 DEF Identified

LEMMA CallOfReturn ==
    ASSUME DocumentInv, MeaningInv, Return, errorID = "none"
    PROVE  AtEnded' \/ AtShort'
  <1>1. /\ pc = "return" /\ cur' = Last(frames) /\ frames' = Front(frames) /\ pc' = "handle"
        /\ text' = text /\ pos' = pos /\ result' = result /\ node' = node
    BY DEF Return
  <1>2. PICK n \in Nat : n = Len(frames) /\ n > 1 /\ DOMAIN frames = 1 .. n /\ Last(frames) = frames[n]
    BY HandFacts DEF Return
  <1>3. Len(frames') = n - 1 /\ \A j \in 1 .. n - 1 : frames'[j] = frames[j]
    BY <1>1, <1>2, FrontElements DEF DocumentInv, DocumentTypeInv, ParseTypes
  <1>4. /\ Depth = n /\ Depth' = n - 1 /\ n \in 1 .. n /\ n \in 2 .. n /\ n - 1 \in 1 .. n - 1
        /\ \A j \in 1 .. n - 1 : j \in 1 .. n /\ j \in 1 .. Len(frames')
    BY <1>2, <1>3 DEF Depth
  <1>5. (\A j \in 1 .. n - 1 : Starts'[j] = Starts[j]) /\ Held' = Starts[n]
    BY <1>1, <1>2, <1>3, <1>4 DEF Starts, Held
  <1>6. Pending = Pending' \cup {Held'}
    <2>1. \A j : j \in 2 .. Len(frames) <=> j \in 2 .. Len(frames') \/ j = n
      BY <1>2, <1>3
    <2>2. \A j \in 2 .. Len(frames') : j \in 1 .. n - 1
      BY <1>2, <1>3
    <2> QED BY <1>5, <2>1, <2>2 DEF Pending
  <1>7. text[Held'].kind = "open" /\ EncloserOf(text, Held') = Starts'[n - 1]
    BY <1>2, <1>4, <1>5 DEF MeaningInv, FrameInv
  <1>8. CASE Ending
    <2>1. /\ result.ok /\ text[pos - 1].kind = "close" /\ pos > 1
          /\ History(text, pos - 1, Pending)
          /\ Balanced(text, Starts, n, pos, n - 1)
          /\ EncloserOf(text, pos - 1) = Starts[n]
          /\ result.endTag = text[pos - 1].name
      BY <1>2, <1>4, <1>8 DEF Ending
    <2>2. Balanced(text, Starts, n - 1, pos, n - 1)
      BY <1>2, <2>1, BalancedPop
    <2>3. Balanced(text, Starts', n - 1, pos, n - 1)
      <3>1. \A j \in 2 .. n - 1 : j \in 1 .. n - 1
        BY <1>2
      <3> QED BY <1>5, <2>2, <3>1 DEF Balanced
    <2>4. Held' \notin Pending'
      <3>1. ASSUME NEW j \in 2 .. n - 1, Starts[j] = Starts[n] PROVE FALSE
        <4>1. j \in 2 .. n
          BY <1>2
        <4>2. /\ BalanceOf(text, Starts[j], pos - 1) = (n - 1) - j + 1
              /\ BalanceOf(text, Starts[n], pos - 1) = (n - 1) - n + 1
          BY <1>4, <2>1, <4>1 DEF Balanced
        <4>3. j # n
          BY <1>2
        <4>4. (n - 1) - j + 1 = (n - 1) - n + 1
          BY <3>1, <4>2
        <4>5. j \in Nat
          BY <3>1
        <4> QED BY ONLY <4>3, <4>4, <4>5, n \in Nat
      <3>2. \A j \in 2 .. Len(frames') : j \in 2 .. n - 1 /\ j \in 1 .. n - 1
        BY <1>2, <1>3
      <3> QED BY <1>5, <3>1, <3>2 DEF Pending
    <2>5. EncloserOf(text, pos - 1) = Held'
      BY <1>5, <2>1
    <2> QED BY <1>1, <1>4, <1>6, <1>7, <2>1, <2>3, <2>4, <2>5 DEF AtEnded
  <1>9. CASE Short
    BY <1>1, <1>6, <1>7, <1>9 DEF Short, AtShort
  <1> QED BY <1>1, <1>8, <1>9, ReturnPhase

LEMMA CallOfInsert ==
    ASSUME DocumentInv, MeaningInv, ChildInserted, errorID = "none",
           Starts' = Starts, Pending' = Pending, Depth' = Depth
    PROVE  AtLoop'
  <1>1. /\ pc = "handle" /\ pc' = "loop" /\ result.ok /\ node[cur].closing # "closing" /\ ~Mismatch
        /\ text' = text /\ pos' = pos
    BY DEF ChildInserted
  <1>2. AtLeaf \/ AtEnded
    BY InsertedBelongs
  <1>3. CASE AtLeaf
    BY <1>1, <1>3 DEF AtLeaf, AtLoop
  <1>4. CASE AtEnded
    <2>1. /\ result.endTag = text[pos - 1].name /\ text[pos - 1].kind = "close" /\ pos > 1
          /\ History(text, pos - 1, Pending \cup {Held})
          /\ Balanced(text, Starts, Depth, pos, Depth)
          /\ EncloserOf(text, pos - 1) = Held
          /\ text[Held].kind = "open" /\ Held \notin Pending
      BY <1>4 DEF AtEnded
    <2>2. pos - 1 \in DOMAIN text /\ pos - 1 \in Nat /\ pos - 1 >= 1 /\ (pos - 1) + 1 = pos
      BY <2>1, TextFacts
    <2>3. text[pos - 1].name # Null
      BY <2>1, <2>2, TextFacts
    <2>4. cur # Doc /\ PoolOf(cur) = "element" /\ Name(cur) = text[Held].name /\ Held >= 1 /\ Held \in Nat
      BY <1>1, <2>1, HeldFacts DEF MeaningInv, PoolFor
    <2>5. text[Held].name = text[pos - 1].name
      BY <1>1, <2>1, <2>3, <2>4 DEF Mismatch, IsElement
    <2>6. Accepted(text, pos - 1)
      <3>1. Held # 0
        BY <2>4
      <3> QED BY <2>1, <2>5, <3>1 DEF Accepted
    <2>7. History(text, (pos - 1) + 1, Pending)
      BY <2>1, <2>2, <2>6, HistoryClose
    <2>8. History(text, pos, Pending)
      BY <2>2, <2>7
    <2> QED BY <1>1, <2>1, <2>8 DEF AtLoop
  <1> QED BY <1>2, <1>3, <1>4

LEMMA CallStep ==
    DocumentInv /\ MeaningInv /\ [DocumentNext]_documentVars => CallInv'
  <1> SUFFICES ASSUME DocumentInv, MeaningInv, [DocumentNext]_documentVars, Parsing'
               PROVE  \/ AtLoop' \/ AtLeaf' \/ AtTruncated' \/ AtStray' \/ AtClose' \/ Ending' \/ AtEnded'
                      \/ Short' \/ AtShort'
    BY DEF CallInv
  <1>1. CASE Identify
    <2>1. errorID' = "none"
      BY DEF Parsing
    <2> QED BY <1>1, <2>1, CallOfIdentify
  <1>2. CASE ~Identify
    <2>1. /\ text' = text /\ pos' = pos /\ errorID = "none" /\ errorID' = "none"
          /\ frames' = frames \/ Return
          /\ Parsing \/ Parse
      BY <1>2, ParseFields DEF Parsing
    <2>2. PhaseInv /\ PhaseInv'
      BY PhaseStep DEF DocumentInv
    <2>3. /\ Len(frames) \in Nat /\ Len(frames) >= 1 /\ DOMAIN frames = 1 .. Len(frames)
          /\ \A j \in 1 .. Len(frames) : frames[j] \in DOMAIN node
      BY HandFacts
    <2>4. frames' = frames => Starts' = Starts /\ Pending' = Pending /\ Depth' = Depth
      <3>1. \A y \in DOMAIN node' : node'[y].value = node[y].value
        BY <1>2, NodeFields
      <3>2. ASSUME frames' = frames PROVE \A j \in 1 .. Len(frames) : frames[j] \in DOMAIN node'
        <4>1. \A x \in Range(frames') : x \in DOMAIN node' \cup {Null}
          BY HandsStep DEF HandsInv, Hands
        <4>2. \A j \in 1 .. Len(frames) : frames[j] # Null
          BY <2>3, NodeHeap
        <4> QED BY <2>3, <3>2, <4>1, <4>2 DEF Range
      <3> QED BY <3>1, <3>2, StartsKept
    <2>5. CASE Parse
      <3>1. pc = "start" /\ pc' = "loop" /\ frames' = frames
        BY <2>1, <2>5 DEF Parse
      <3>2. frames = <<Doc>> /\ pos = 1
        BY <2>2, <3>1 DEF PhaseInv, MeaningInv, OutcomeInv
      <3>3. Len(frames) = 1 /\ 2 .. 1 = {} /\ 1 .. 1 - 1 = {}
        BY <3>2
      <3>4. Depth = 1 /\ Pending = {}
        BY <3>3 DEF Depth, Pending
      <3>5. History(text, 1, {}) /\ Balanced(text, Starts, 1, 1, 1)
        BY <3>3 DEF History, Balanced
      <3> QED BY <2>1, <2>4, <3>1, <3>2, <3>4, <3>5 DEF AtLoop
    <2>6. CASE TextEnds
      <3>1. pc = "loop" /\ pos > Len(text) /\ ~result'.ok /\ pc' = "return" /\ frames' = frames
        BY <2>6 DEF TextEnds
      <3> QED BY <2>1, <2>4, <3>1, LoopPhase DEF AtLoop, Short
    <2>7. CASE ChildFailed \/ ChildMismatched
      BY <2>1, <2>7 DEF ChildFailed, ChildMismatched
    <2>8. CASE EndTag
      <3>1. /\ pc = "handle" /\ result.ok /\ node[cur].closing = "closing" /\ frames' = frames
            /\ result' = [ok |-> TRUE, endTag |-> IF Len(frames) > 1 THEN Name(cur) ELSE Null]
            /\ after' = "return"
        BY <2>8 DEF EndTag, StartDelete
      <3>2. node[cur].closing = ClosingType(text[Held].kind) /\ Name(cur) = text[Held].name
        BY <3>1, HeldFacts DEF MeaningInv
      <3>3. text[Held].kind = "close"
        BY <3>1, <3>2 DEF ClosingType
      <3>4. AtClose
        BY <2>1, <3>1, <3>3, HandlePhase DEF AtLeaf, AtTruncated, AtStray, AtEnded, AtShort
      <3>5. result'.ok /\ (Depth > 1 => result'.endTag = text[pos - 1].name)
        BY <3>1, <3>2, <3>4 DEF Depth, AtClose
      <3>6. pos > 1
        <4>1. Held \in Nat /\ Held >= 1 /\ Held < pos /\ pos \in Nat
          BY <3>1, HeldFacts, TextFacts DEF MeaningInv
        <4> QED BY <4>1
      <3> QED BY <2>1, <2>4, <3>1, <3>4, <3>5, <3>6 DEF AtClose, Ending
    <2>9. CASE ChildInserted
      <3>1. frames' = frames
        BY <2>9 DEF ChildInserted
      <3> QED BY <2>1, <2>4, <2>9, <3>1, CallOfInsert
    <2>10. CASE Return
      BY <2>1, <2>10, CallOfReturn
    <2>11. CASE DeleteChild \/ FreeNode \/ Deleted
      <3>1. pc = "delete" /\ frames' = frames /\ result' = result
        BY <2>11 DEF DeleteChild, FreeNode, Deleted
      <3>2. after = "return" /\ ~Parse
        BY <2>1, <3>1 DEF Parsing, Parse
      <3>3. Ending
        BY <2>1, <3>1, <3>2, ReturnPhase DEF Short
      <3>4. pc' = "return" \/ after' = "return"
        BY <2>11, <3>2 DEF DeleteChild, FreeNode, Deleted
      <3> QED BY <2>1, <2>4, <3>1, <3>3, <3>4 DEF Ending
    <2>12. CASE ParseReturns \/ ClearPools \/ WalkEnds \/ PassOver \/ Descend \/ VisitPlayer
      <3>1. pc' \notin {"loop", "handle", "return"} /\ after' # "return"
        BY <2>1, <2>2, <2>12 DEF ParseReturns, ClearPools, WalkEnds, PassOver, Descend, VisitPlayer, deleteVars, PhaseInv
      <3> QED BY <3>1 DEF Parsing
    <2>13. CASE UNCHANGED documentVars
      <3>1. frames' = frames /\ pc' = pc /\ after' = after /\ cur' = cur /\ node' = node /\ result' = result
        BY <2>13 DEF documentVars, deleteVars
      <3>2. Held' = Held
        BY <3>1 DEF Held
      <3>3. Parsing
        BY <2>1, <3>1 DEF Parsing
      <3>4. Starts' = Starts /\ Pending' = Pending /\ Depth' = Depth
        BY <2>4, <3>1
      <3>5. \/ AtLoop \/ AtLeaf \/ AtTruncated \/ AtStray \/ AtClose \/ Ending \/ AtEnded
            \/ Short \/ AtShort
        BY <3>3 DEF MeaningInv, CallInv
      <3> QED BY <2>1, <3>1, <3>2, <3>4, <3>5
          DEF AtLoop, AtLeaf, AtTruncated, AtStray, AtClose, AtEnded, AtShort, Ending, Short
    <2> QED BY <1>2, <2>5, <2>6, <2>7, <2>8, <2>9, <2>10, <2>11, <2>12, <2>13 DEF DocumentNext
  <1> QED BY <1>1, <1>2

LEMMA OutcomeOfIdentify ==
    ASSUME DocumentInv, MeaningInv, Identify
    PROVE  OutcomeInv'
  <1>1. PICK x : Identified(x)
    BY IdentifyIs
  <1>2. /\ pc = "loop" /\ pos <= Len(text) /\ text' = text /\ errorID' = LeafError(text[pos])
        /\ pc' \in {"loop", "handle"}
    BY <1>1 DEF Identified
  <1>3. text # << >>
    BY <1>2 DEF MeaningInv, OutcomeInv
  <1>4. ASSUME errorID' # "none" PROVE ~Sound(text)
    <2>1. CASE errorID # "none"
      BY <2>1 DEF MeaningInv, OutcomeInv
    <2>2. CASE errorID = "none"
      <3>1. History(text, pos, Pending)
        BY <1>2, <2>2, LoopPhase DEF AtLoop
      <3>2. text[pos].kind \notin {"close", "stray"}
        BY <1>2, <1>4, <2>2 DEF LeafError
      <3>3. ~Accepted(text, pos)
        BY <1>2, <1>4, <2>2, <3>2, LeafAccepted
      <3>4. DOMAIN text = 1 .. Len(text) /\ Len(text) \in Nat /\ pos \in DOMAIN text
        BY <1>2, TextFacts
      <3> QED BY <3>1, <3>2, <3>3, <3>4, NotAccepted
    <2> QED BY <2>1, <2>2
  <1> QED BY <1>2, <1>3, <1>4 DEF OutcomeInv

\* The errors of the loop are errors of the text.
LEMMA OutcomeOfChild ==
    ASSUME DocumentInv, MeaningInv, ChildFailed \/ ChildMismatched, errorID = "none"
    PROVE  ~Sound(text)
  <1>1. /\ pc = "handle"
        /\ ChildFailed => ~result.ok
        /\ ChildMismatched => result.ok /\ node[cur].closing # "closing" /\ Mismatch
    BY DEF ChildFailed, ChildMismatched
  <1>2. /\ DOMAIN text = 1 .. Len(text) /\ Len(text) \in Nat /\ pos \in Nat /\ 1 <= pos /\ pos <= Len(text) + 1
        /\ \A i \in DOMAIN text : text[i].kind = "close" => text[i].name # Null
    BY TextFacts
  <1>3. /\ Held \in Nat /\ Held >= 1 /\ Held < pos /\ Held \in DOMAIN text
        /\ node[cur].closing = ClosingType(text[Held].kind)
        /\ Name(cur) = text[Held].name
    BY <1>1, HeldFacts DEF MeaningInv
  <1>4. pos > 1 => pos - 1 \in DOMAIN text /\ pos - 1 \in Nat
    BY <1>2
  <1>5. AtLeaf \/ AtTruncated \/ AtStray \/ AtClose \/ AtEnded \/ AtShort
    BY <1>1, HandlePhase
  <1>6. ASSUME AtStray PROVE ~Sound(text)
    <2>1. text[pos - 1].kind = "stray" /\ pos > 1 /\ History(text, pos - 1, Pending)
      BY <1>6 DEF AtStray
    <2>2. ~Accepted(text, pos - 1) /\ text[pos - 1].kind # "close"
      BY <2>1 DEF Accepted
    <2> QED BY <1>2, <1>4, <2>1, <2>2, NotAccepted
  <1>7. ASSUME AtShort PROVE ~Sound(text)
    <2>1. /\ text[Held].kind = "open" /\ pos > Len(text)
          /\ History(text, pos, Pending \cup {Held})
      BY <1>7 DEF AtShort
    <2>2. ASSUME NEW c \in DOMAIN text, text[c].kind = "close" PROVE EncloserOf(text, c) # Held
      <3>1. c \in 1 .. pos - 1
        BY <1>2, <2>1
      <3> QED BY <2>1, <2>2, <3>1 DEF History
    <2>3. Held <= pos
      BY <1>2, <1>3
    <2> QED BY <1>2, <1>3, <2>1, <2>2, <2>3, NotEnded
  <1>8. ASSUME AtTruncated PROVE ~Sound(text)
    <2>1. /\ text[pos - 1].kind = "open" /\ Held = pos - 1 /\ pos > Len(text)
          /\ History(text, pos - 1, Pending)
      BY <1>8 DEF AtTruncated
    <2>2. ASSUME NEW c \in DOMAIN text, text[c].kind = "close" PROVE EncloserOf(text, c) # Held
      <3>1. c \in Nat /\ c <= Held /\ Held \notin 1 .. c - 1 /\ Held # 0
        BY <1>2, <1>3, <2>1
      <3> QED BY <3>1, EncloserBefore
    <2>3. pos - 1 \in Nat /\ Held <= pos - 1
      BY <1>2, <1>3, <2>1
    <2> QED BY <1>2, <1>3, <2>1, <2>2, <2>3, NotEnded
  <1>9. ASSUME AtEnded, Mismatch PROVE ~Sound(text)
    <2>1. /\ result.endTag = text[pos - 1].name /\ text[pos - 1].kind = "close" /\ pos > 1
          /\ History(text, pos - 1, Pending \cup {Held})
          /\ EncloserOf(text, pos - 1) = Held
          /\ text[Held].kind = "open"
      BY <1>9 DEF AtEnded
    <2>2. result.endTag # Null
      BY <1>2, <1>4, <2>1
    <2>3. node[cur].closing = "open"
      BY <1>3, <2>1 DEF ClosingType
    <2>4. text[pos - 1].name # text[Held].name
      BY <1>3, <1>9, <2>1, <2>2, <2>3 DEF Mismatch
    <2>5. ~Accepted(text, pos - 1) /\ EncloserOf(text, pos - 1) # 0
      <3>1. Held # 0
        BY <1>3
      <3> QED BY <2>1, <2>4, <3>1 DEF Accepted
    <2> QED BY <1>2, <1>4, <2>1, <2>5, NotAccepted
  <1>10. ASSUME AtLeaf, Mismatch PROVE FALSE
    <2>1. result.endTag = Null /\ text[Held].kind \notin {"open", "close"}
      BY <1>10 DEF AtLeaf
    <2>2. node[cur].closing # "open"
      BY <1>3, <2>1 DEF ClosingType
    <2> QED BY <1>10, <2>1, <2>2 DEF Mismatch
  <1>11. AtClose => node[cur].closing = "closing" /\ result.ok
    BY <1>3 DEF AtClose, ClosingType
  <1>12. CASE ChildFailed
    BY <1>1, <1>5, <1>6, <1>7, <1>12 DEF AtLeaf, AtTruncated, AtClose, AtEnded
  <1>13. CASE ChildMismatched
    BY <1>1, <1>5, <1>8, <1>9, <1>10, <1>11, <1>13 DEF AtStray, AtShort
  <1> QED BY <1>12, <1>13

\* Parse() succeeds on well-formed texts.
LEMMA OutcomeOfParse ==
    ASSUME DocumentInv, MeaningInv, ParseReturns, errorID = "none"
    PROVE  /\ Sound(text)
           /\ \A i : i \in ReadOf(text) /\ text[i].kind # "close" <=> i \in 1 .. pos - 1 /\ text[i].kind # "close"
  <1>1. pc = "return" /\ frames = <<Doc>>
    BY DEF ParseReturns
  <1>2. /\ DOMAIN text = 1 .. Len(text) /\ Len(text) \in Nat /\ pos \in Nat /\ 1 <= pos /\ pos <= Len(text) + 1
        /\ text # << >>
    BY <1>1, TextFacts DEF MeaningInv, OutcomeInv
  <1>3. Depth = 1 /\ Pending = {} /\ Starts[1] = 0
    <2>1. Len(frames) = 1 /\ frames[1] = Doc /\ 2 .. 1 = {} /\ 1 \in 1 .. 1
      BY <1>1
    <2> QED BY <2>1 DEF Depth, Pending, Starts, MeaningInv, TreeInv
  <1>4. CASE Short
    <2>1. History(text, pos, {}) /\ pos > Len(text)
      BY <1>3, <1>4 DEF Short
    <2>2. Sound(text) /\ ReadOf(text) = 1 .. pos - 1
      BY <1>2, <2>1, ParsedIsSound
    <2> QED BY <2>2
  <1>5. CASE Ending
    <2>1. History(text, pos - 1, {}) /\ text[pos - 1].kind = "close" /\ EncloserOf(text, pos - 1) = 0 /\ pos > 1
      BY <1>3, <1>5 DEF Ending
    <2>2. pos - 1 \in Nat /\ pos - 1 >= 1 /\ pos - 1 <= Len(text) + 1
      BY <1>2, <2>1
    <2>3. Sound(text) /\ ReadOf(text) = 1 .. (pos - 1) - 1
      BY <1>2, <2>1, <2>2, ParsedIsSound
    <2>4. \A i : i \in 1 .. pos - 1 <=> i \in 1 .. (pos - 1) - 1 \/ i = pos - 1
      BY <2>2
    <2> QED BY <2>1, <2>3, <2>4
  <1> QED BY <1>1, <1>4, <1>5, ReturnPhase

LEMMA OutcomeStep ==
    DocumentInv /\ MeaningInv /\ [DocumentNext]_documentVars => OutcomeInv'
  <1> SUFFICES ASSUME DocumentInv, MeaningInv, [DocumentNext]_documentVars, ~Identify PROVE OutcomeInv'
    BY OutcomeOfIdentify
  <1>1. text' = text /\ pos' = pos
    BY ParseFields
  <1>2. OutcomeInv /\ PhaseInv /\ after \in {"none", "return", "clearPools", "done"}
    BY DEF MeaningInv, DocumentInv, DocumentTypeInv, WalkTypes
  <1>3. CASE Parse
    <2>1. /\ pc = "start" /\ errorID = "none"
          /\ \/ text = << >> /\ pc' = "done"
             \/ text # << >> /\ pc' = "loop" /\ errorID' = errorID
      BY <1>2, <1>3 DEF Parse, PhaseInv
    <2> QED BY <1>1, <2>1 DEF OutcomeInv, Sound
  <1>4. CASE ChildFailed \/ ChildMismatched
    <2>1. pc = "handle" /\ pc' = "delete"
      BY <1>4 DEF ChildFailed, ChildMismatched, StartDelete
    <2>2. ~Sound(text)
      BY <1>2, <1>4, OutcomeOfChild DEF OutcomeInv
    <2> QED BY <1>1, <1>2, <2>1, <2>2 DEF OutcomeInv
  <1>5. CASE ParseReturns
    <2>1. pc = "return" /\ errorID' = errorID /\ (pc' = "delete" \/ (pc' = "walk" /\ errorID = "none"))
      BY <1>5 DEF ParseReturns
    <2> QED BY <1>1, <1>2, <1>5, <2>1, OutcomeOfParse DEF OutcomeInv
  <1>6. CASE Deleted
    <2>1. pc = "delete" /\ pc' = after /\ errorID' = errorID
      BY <1>6 DEF Deleted
    <2> QED BY <1>1, <1>2, <2>1 DEF OutcomeInv, PhaseInv
  <1>7. CASE TextEnds \/ EndTag \/ ChildInserted \/ Return \/ ClearPools \/ WalkEnds
    <2>1. /\ pc \notin {"start", "done"} /\ pc' \notin {"start", "walk"} /\ errorID' = errorID
      BY <1>7 DEF TextEnds, EndTag, ChildInserted, Return, ClearPools, WalkEnds, StartDelete
    <2> QED BY <1>1, <1>2, <2>1 DEF OutcomeInv
  <1>8. CASE DeleteChild \/ FreeNode \/ PassOver \/ Descend \/ VisitPlayer \/ UNCHANGED documentVars
    <2>1. (pc' = pc \/ pc' = "done") /\ errorID' = errorID
      BY <1>8 DEF DeleteChild, FreeNode, PassOver, Descend, VisitPlayer, documentVars
    <2> QED BY <1>1, <1>2, <2>1 DEF OutcomeInv
  <1> QED BY <1>3, <1>4, <1>5, <1>6, <1>7, <1>8 DEF DocumentNext

LEMMA MeaningStart ==
    DocumentInit => MeaningInv
  <1> SUFFICES ASSUME DocumentInit PROVE MeaningInv
    OBVIOUS
  <1>1. /\ pc = "start" /\ pos = 1 /\ frames = <<Doc>> /\ errorID = "none" /\ deleting = << >> /\ after = "none"
        /\ node = [x \in {Doc} |-> NewNode(0, "none", << >>)]
    BY DEF DocumentInit
  <1>2. DOMAIN node = {Doc} /\ node[Doc].value = 0 /\ Nodes = {}
    BY <1>1 DEF NewNode, Nodes
  <1>3. 1 .. pos - 1 = {} /\ Range(deleting) = {} /\ 2 .. Len(frames) = {}
    BY <1>1, NoElement
  <1>4. FrameInv
    BY <1>3 DEF FrameInv
  <1>5. TreeInv
    BY <1>2, <1>3 DEF TreeInv
  <1>6. CallInv
    BY <1>1 DEF CallInv, Parsing
  <1>7. OutcomeInv
    BY <1>1 DEF OutcomeInv
  <1> QED BY <1>4, <1>5, <1>6, <1>7 DEF MeaningInv

\* The tree that ParseZoneTopology() is given
LEMMA TreeOfWalk ==
    ASSUME DocumentInv, MeaningInv, pc = "walk"
    PROVE  /\ WellFormed
           /\ {node[x].value : x \in Nodes} = {i \in Read : text[i].kind # "close"}
           /\ \A x \in Nodes :
                /\ node[x].value # 0 /\ node[x].parent # Null
                /\ node[node[x].parent].value = Encloser(node[x].value)
                /\ node[x].next # Null => node[x].value < node[node[x].next].value
  <1>0. /\ \A i : Encloser(i) = EncloserOf(text, i)
        /\ Read = ReadOf(text) /\ (WellFormed <=> Sound(text))
    BY MeaningOfText
  <1>1. /\ cur = Null /\ deleting = << >> /\ frames = <<Doc>> /\ errorID = "none" /\ Building
        /\ Heap(node, pos) /\ Links(node) /\ HandsInv /\ pos \in Nat
    BY NodeHeap, TextFacts DEF DocumentInv, PhaseInv, Building
  <1>2. Range(deleting) = {} /\ Range(frames) = {Doc}
    BY <1>1, NoElement, SingleElement
  <1>3. \A x \in Nodes : x \in DOMAIN node /\ x # Null /\ x # Doc
    BY <1>1 DEF Nodes, Heap
  <1>4. \A x \in Nodes : node[x].parent # Null
    BY <1>1, <1>2, <1>3 DEF HandsInv, Hands
  <1>5. \A x \in Nodes : node[x].value \in 1 .. pos - 1 /\ text[node[x].value].kind # "close"
    <2>1. \A x \in Nodes : node[x].value >= 1 /\ node[x].value \in Nat /\ node[x].value < pos
      BY <1>1, <1>3, FieldTypes DEF DocumentInv, ValueInv, MeaningInv, TreeInv
    <2>2. \A x \in Nodes : text[node[x].value].kind # "close"
      BY <1>1, <1>2, <1>3 DEF MeaningInv, TreeInv
    <2> QED BY <1>1, <2>1, <2>2
  <1>6. \A i \in 1 .. pos - 1 : text[i].kind # "close" => \E x \in Nodes : node[x].value = i
    BY <1>1 DEF MeaningInv, TreeInv
  <1>7. \A i : i \in Read /\ text[i].kind # "close" <=> i \in 1 .. pos - 1 /\ text[i].kind # "close"
    BY <1>0 DEF MeaningInv, OutcomeInv
  <1>8. {node[x].value : x \in Nodes} = {i \in Read : text[i].kind # "close"}
    BY <1>5, <1>6, <1>7
  <1>9. \A x \in Nodes : node[x].value # 0 /\ node[node[x].parent].value = Encloser(node[x].value)
    <2>1. \A i \in 1 .. pos - 1 : i # 0
      OBVIOUS
    <2> QED BY <1>0, <1>1, <1>4, <1>5, <2>1 DEF MeaningInv, TreeInv
  <1>10. \A x \in Nodes : node[x].next # Null => node[x].value < node[node[x].next].value
    BY <1>1, <1>3, <1>4 DEF Links
  <1>11. WellFormed
    BY <1>0 DEF MeaningInv, OutcomeInv
  <1> QED BY <1>4, <1>8, <1>9, <1>10, <1>11

\* Parse() succeeds on the well-formed texts and no others, and its tree is that
\* of the text: a node for each token but the end tags, inside the element it is
\* in there and after its elder siblings, for every set of texts.  That it needs
\* besides DocumentInv: the calls of ParseDeep() are the start tags that the
\* tokens read have not ended, from the outermost to the innermost (Balanced);
\* each token read is as a well-formed text has it, or is the one that is being
\* handled (History, CallInv); and an error is one of the text (OutcomeInv).
THEOREM ParseIsFaithful ==
    DocumentSpec => []ParsedIsSource
  <1>1. DocumentInv /\ MeaningInv /\ [DocumentNext]_documentVars => MeaningInv'
    BY FrameStep, TreeStep, CallStep, OutcomeStep DEF MeaningInv
  <1>2. DocumentInv /\ MeaningInv => ParsedIsSource
    <2>1. DocumentInv /\ MeaningInv /\ pc = "done" /\ WellFormed => errorID = "none"
      BY MeaningOfText DEF MeaningInv, OutcomeInv
    <2> QED BY <2>1, TreeOfWalk DEF ParsedIsSource
  <1> QED BY <1>1, <1>2, MeaningStart, DocumentInvariance, PTL DEF DocumentSpec

-----------------------------------------------------------------------------
(* Documents: the walk through the tree *)

ElementsOf(t, parent, name) == {i \in ReadOf(t) :
    t[i].kind \in {"open", "empty"} /\ t[i].name = name /\ EncloserOf(t, i) = parent}
StepOf(t, parent, name) ==
    IF ElementsOf(t, parent, name) = {} THEN -1
    ELSE CHOOSE i \in ElementsOf(t, parent, name) : \A j \in ElementsOf(t, parent, name) : i <= j
IsPathEnd(t, r) == r[0] = 0 /\ \A l \in 1 .. Len(Path) - 1 : r[l] = StepOf(t, r[l - 1], Path[l])

\* The children of x that the cursor c has passed, and which are wanted on level l
Behind(h, x, c) == {d \in DOMAIN h \ {Doc} : h[d].parent = x /\ (c # Null => h[d].value < h[c].value)}
Chosen(h, t, l, d) == d # Doc /\ PoolOf(d) = "element" /\ t[h[d].value].name = Path[l]
ValuesOf(h, S) == {h[d].value : d \in S}
Sorted(s) == \A i, j \in DOMAIN s : i < j => s[i] < s[j]

\* The walk is among the children of the element that r, the PathEnd of the text,
\* has for its level, and has visited the wanted ones that it has passed.
WalkAt(r) == \E x \in DOMAIN node :
    /\ node[x].value = r[level - 1]
    /\ cursor # Null => node[cursor].parent = x
    /\ level < Len(Path) => /\ visited = << >>
                            /\ \A d \in Behind(node, x, cursor) : ~Chosen(node, text, level, d)
    /\ level = Len(Path) =>
         /\ Sorted(visited)
         /\ Range(visited) = ValuesOf(node, {d \in Behind(node, x, cursor) : Chosen(node, text, level, d)})
Finished(r) == Sorted(visited) /\ Range(visited) = ElementsOf(text, r[Len(Path) - 1], Last(Path))

\* Before the walk nothing is visited; when it is over, all that was wanted is.
VisitInv ==
    /\ \A x, y \in DOMAIN node : node[x].value = node[y].value => x = y
    /\ visited \in Seq(Nat)
    /\ pc \notin {"walk", "done"} /\ after # "done" => level = 1 /\ visited = << >>
    /\ pc = "clearPools" \/ after = "clearPools" => errorID # "none"
    /\ \A r : IsPathEnd(text, r) =>
         /\ pc = "walk" => WalkAt(r)
         /\ after = "done" \/ (pc = "done" /\ errorID = "none" /\ crash = "none") => Finished(r)

LEMMA PathEndExists ==
    IsPathEnd(text, PathEnd)
  <1> DEFINE N == Len(Path) - 1
             F(n) == [0 .. n -> Int]
             IsEnd(n, r) == r[0] = 0 /\ \A l \in 1 .. n : r[l] = StepOf(text, r[l - 1], Path[l])
             Body(r) == [l \in 0 .. N |-> IF l = 0 THEN 0 ELSE Step(r[l - 1], Path[l])]
             Bad == {n \in Nat : ~ \E r : DOMAIN r = 0 .. n /\ r = [l \in 0 .. n |-> r[l]] /\ IsEnd(n, r)}
  <1>1. N \in Nat
    BY PathAssumption
  <1>2. ASSUME NEW u, NEW name PROVE Step(u, name) = StepOf(text, u, name)
    <2>1. Elements(u, name) = ElementsOf(text, u, name)
      BY MeaningOfText DEF Elements, ElementsOf
    <2> QED BY <2>1 DEF Step, StepOf
  <1>3. Bad = {}
    <2>1. ASSUME Bad # {} PROVE FALSE
      <3>1. PICK n \in Bad : \A m \in Bad : n <= m
        BY <2>1, LeastNumber
      <3>2. n \in Nat
        OBVIOUS
      <3>3. CASE n = 0
        <4> DEFINE r == [l \in 0 .. 0 |-> 0]
        <4>1. DOMAIN r = 0 .. 0 /\ r = [l \in 0 .. 0 |-> r[l]] /\ r[0] = 0
          OBVIOUS
        <4>2. 1 .. 0 = {}
          OBVIOUS
        <4>3. IsEnd(0, r)
          BY <4>1, <4>2
        <4> HIDE DEF r, IsEnd
        <4> QED BY <3>3, <4>1, <4>3
      <3>4. CASE n > 0
        <4>1. n - 1 \in Nat /\ ~(n <= n - 1)
          BY <3>2, <3>4
        <4>2. n - 1 \notin Bad
          BY <3>1, <4>1
        <4>3. PICK r : DOMAIN r = 0 .. n - 1 /\ IsEnd(n - 1, r)
          BY <4>1, <4>2
        <4> DEFINE w == [l \in 0 .. n |-> IF l = n THEN StepOf(text, r[n - 1], Path[n]) ELSE r[l]]
        <4>4. DOMAIN w = 0 .. n /\ w[n] = StepOf(text, r[n - 1], Path[n]) /\ w = [l \in 0 .. n |-> w[l]]
          BY <3>2
        <4>5. \A l \in 0 .. n - 1 : l \in 0 .. n /\ l # n
          BY <3>2
        <4>6. \A l \in 0 .. n - 1 : w[l] = r[l]
          BY <4>5
        <4>7. /\ 0 \in 0 .. n - 1 /\ n - 1 \in 0 .. n - 1
              /\ \A l \in 1 .. n : l = n \/ (l \in 1 .. n - 1 /\ l \in 0 .. n - 1 /\ l - 1 \in 0 .. n - 1)
          BY <3>2, <3>4
        <4> HIDE DEF w
        <4>8. w[0] = 0
          BY <4>3, <4>6, <4>7
        <4>9. ASSUME NEW l \in 1 .. n PROVE w[l] = StepOf(text, w[l - 1], Path[l])
          <5>1. CASE l = n
            BY <4>4, <4>6, <4>7, <5>1
          <5>2. CASE l \in 1 .. n - 1 /\ l \in 0 .. n - 1 /\ l - 1 \in 0 .. n - 1
            BY <4>3, <4>6, <5>2
          <5> QED BY <4>7, <5>1, <5>2
        <4>10. IsEnd(n, w)
          BY <4>8, <4>9
        <4> HIDE DEF IsEnd
        <4> QED BY <3>1, <4>4, <4>10
      <3> QED BY <3>2, <3>3, <3>4
    <2> QED BY <2>1
  <1>4. PICK r : DOMAIN r = 0 .. N /\ r = [l \in 0 .. N |-> r[l]] /\ IsEnd(N, r)
    BY <1>1, <1>3
  <1>5. r = Body(r)
    <2>1. ASSUME NEW l \in 0 .. N PROVE r[l] = IF l = 0 THEN 0 ELSE Step(r[l - 1], Path[l])
      <3>1. l # 0 => l \in 1 .. N
        BY <1>1
      <3> QED BY <1>2, <1>4, <3>1
    <2> QED BY <1>4, <2>1
  <1>6. PathEnd = CHOOSE f : f = Body(f)
    BY DEF PathEnd
  <1>7. PathEnd = Body(PathEnd)
    <2> HIDE DEF Body
    <2> QED BY <1>5, <1>6
  <1>8. 0 \in 0 .. N /\ \A l \in 1 .. N : l \in 0 .. N /\ l # 0
    BY <1>1
  <1>9. PathEnd[0] = 0
    BY <1>7, <1>8
  <1>10. ASSUME NEW l \in 1 .. N PROVE PathEnd[l] = StepOf(text, PathEnd[l - 1], Path[l])
    <2>1. PathEnd[l] = Step(PathEnd[l - 1], Path[l])
      BY <1>7, <1>8
    <2> QED BY <1>2, <2>1
  <1> QED BY <1>9, <1>10 DEF IsPathEnd

\* Below an element that is not there there is none.
LEMMA PathEndsEarly ==
    ASSUME DocumentInv, NEW r, IsPathEnd(text, r), NEW m \in 1 .. Len(Path) - 1, r[m] = -1
    PROVE  ElementsOf(text, r[Len(Path) - 1], Last(Path)) = {}
  <1> DEFINE N == Len(Path) - 1
             Bad == {n \in Nat : m <= n /\ n <= N /\ r[n] # -1}
  <1>1. N \in Nat /\ m \in Nat /\ m >= 1 /\ m <= N
    BY PathAssumption
  <1>2. ASSUME NEW name PROVE ElementsOf(text, -1, name) = {}
    <2>1. ASSUME NEW i \in ElementsOf(text, -1, name) PROVE FALSE
      <3>1. i \in 1 .. Len(text) /\ EncloserOf(text, i) = -1
        BY TextFacts DEF ElementsOf, ReadOf
      <3>2. i \in Nat /\ -1 # 0 /\ -1 \notin 1 .. i - 1
        BY <3>1, TextFacts
      <3> QED BY <3>1, <3>2, EncloserBefore
    <2> QED BY <2>1
  <1>3. Bad = {}
    <2>1. ASSUME Bad # {} PROVE FALSE
      <3>1. PICK n \in Bad : \A k \in Bad : n <= k
        BY <2>1, LeastNumber
      <3>2. n \in Nat /\ m <= n /\ n <= N /\ r[n] # -1 /\ n # m
        OBVIOUS
      <3>3. n \in 1 .. N /\ n - 1 \in Nat /\ m <= n - 1 /\ n - 1 <= N /\ ~(n <= n - 1)
        BY <1>1, <3>2
      <3>4. r[n - 1] = -1
        BY <3>1, <3>3
      <3>5. r[n] = StepOf(text, -1, Path[n])
        BY <3>3, <3>4 DEF IsPathEnd
      <3> QED BY <1>2, <3>2, <3>5 DEF StepOf
    <2> QED BY <2>1
  <1>4. r[N] = -1
    BY <1>1, <1>3
  <1> QED BY <1>2, <1>4

\* No child is between a child and its _next.
LEMMA NextIsSuccessor ==
    ASSUME NEW h, NEW n, Heap(h, n), Links(h), NEW c \in DOMAIN h, NEW d \in DOMAIN h,
           h[c].parent # Null, h[d].parent = h[c].parent, h[c].value < h[d].value,
           \A y, z \in DOMAIN h : h[y].value = h[z].value => y = z
    PROVE  h[c].next # Null /\ h[h[c].next].value <= h[d].value
  <1> DEFINE x == h[c].parent
             C == {y \in DOMAIN h : h[y].parent = x}
             Skipped(u, e) == h[u].value < h[e].value /\ (h[u].next # Null => h[e].value < h[h[u].next].value)
             Bad == {h[e].value : e \in {y \in C : \E u \in C : Skipped(u, y)}}
  <1>1. x # Null /\ c \in C /\ d \in C /\ \A y \in C : y \in DOMAIN h /\ h[y].value \in Nat
    BY FieldTypes
  <1>2. Bad = {}
    <2>1. ASSUME Bad # {} PROVE FALSE
      <3>1. Bad \subseteq Nat
        BY <1>1
      <3>2. PICK b \in Bad : \A a \in Bad : b <= a
        BY <2>1, <3>1, LeastNumber
      <3>3. PICK e \in C, u \in C : b = h[e].value /\ Skipped(u, e)
        OBVIOUS
      <3>4. /\ h[u].value \in Nat /\ h[e].value \in Nat /\ h[u].value < h[e].value
            /\ h[u].next # Null => h[e].value < h[h[u].next].value
            /\ h[u].parent = x /\ h[e].parent = x
        BY <1>1, <3>3
      <3>5. h[e].prev # Null
        <4>1. ASSUME h[e].prev = Null PROVE FALSE
          <5>1. h[x].first = e
            BY <1>1, <3>4, <4>1 DEF Links
          <5>2. h[e].value <= h[u].value
            BY <1>1, <3>4, <5>1, EldestIsFirst
          <5> QED BY <3>4, <5>2
        <4> QED BY <4>1
      <3>6. PICK f : f = h[e].prev
        OBVIOUS
      <3>7. /\ f \in C /\ h[f].next = e /\ h[f].value < h[e].value /\ h[f].value \in Nat
            /\ e # Null
        BY <1>1, <3>4, <3>5, <3>6, FieldTypes DEF Links
      <3>8. CASE h[u].value < h[f].value
        <4>1. Skipped(u, f)
          <5>1. h[u].next # Null => h[f].value < h[h[u].next].value
            <6>1. h[u].next # Null => h[h[u].next].value \in Nat
              BY <1>1, <3>4, FieldTypes DEF Links
            <6> QED BY <3>4, <3>7, <6>1
          <5> QED BY <3>8, <5>1
        <4>2. h[f].value \in Bad
          BY <3>7, <4>1
        <4>3. b <= h[f].value
          BY <3>2, <4>2
        <4> QED BY <3>3, <3>4, <3>7, <4>3
      <3>9. CASE h[f].value < h[u].value
        <4>1. Skipped(f, u)
          BY <3>4, <3>7, <3>9
        <4>2. h[u].value \in Bad
          BY <3>7, <4>1
        <4>3. b <= h[u].value
          BY <3>2, <4>2
        <4> QED BY <3>3, <3>4, <4>3
      <3>10. CASE h[f].value = h[u].value
        <4>1. f = u
          BY <1>1, <3>7, <3>10
        <4> QED BY <3>4, <3>7, <4>1
      <3> QED BY <3>4, <3>7, <3>8, <3>9, <3>10
    <2> QED BY <2>1
  <1>3. ~Skipped(c, d)
    BY <1>1, <1>2
  <1>4. h[c].next # Null => h[h[c].next].value \in Nat
    BY FieldTypes DEF Links
  <1> QED BY <1>1, <1>3, <1>4

LEMMA PassedFirst ==
    ASSUME NEW h, NEW n, Heap(h, n), Links(h), NEW x \in DOMAIN h
    PROVE  Behind(h, x, h[x].first) = {}
  <1>1. ASSUME NEW d \in Behind(h, x, h[x].first) PROVE FALSE
    <2>1. /\ d \in DOMAIN h /\ h[d].parent = x /\ x # Null
          /\ h[x].first # Null => h[d].value < h[h[x].first].value
      BY DEF Behind, Heap
    <2>2. h[x].first # Null /\ h[h[x].first].value <= h[d].value
      BY <2>1, EldestIsFirst
    <2>3. h[x].first \in DOMAIN h
      BY <2>2 DEF Links
    <2> QED BY <2>1, <2>2, <2>3, FieldTypes
  <1> QED BY <1>1

LEMMA PassedNext ==
    ASSUME NEW h, NEW n, Heap(h, n), Links(h), \A y, z \in DOMAIN h : h[y].value = h[z].value => y = z,
           NEW x \in DOMAIN h, NEW c \in DOMAIN h, c # Doc, h[c].parent = x
    PROVE  Behind(h, x, h[c].next) = Behind(h, x, c) \cup {c}
  <1>1. x # Null /\ c # Null /\ \A d \in DOMAIN h : h[d].value \in Nat
    BY FieldTypes DEF Heap
  <1>2. h[c].next # Null => h[c].next \in DOMAIN h /\ h[c].value < h[h[c].next].value
    BY <1>1 DEF Links
  <1>3. ASSUME NEW d \in Behind(h, x, h[c].next) PROVE d \in Behind(h, x, c) \cup {c}
    <2>1. /\ d \in DOMAIN h \ {Doc} /\ h[d].parent = x
          /\ h[c].next # Null => h[d].value < h[h[c].next].value
      BY DEF Behind
    <2>2. ~(h[c].value < h[d].value)
      <3>1. ASSUME h[c].value < h[d].value PROVE FALSE
        <4>1. h[c].next # Null /\ h[h[c].next].value <= h[d].value
          BY <1>1, <2>1, <3>1, NextIsSuccessor
        <4> QED BY <1>1, <1>2, <2>1, <4>1
      <3> QED BY <3>1
    <2>3. h[d].value = h[c].value \/ h[d].value < h[c].value
      BY <1>1, <2>1, <2>2
    <2> QED BY <2>1, <2>3 DEF Behind
  <1>4. ASSUME NEW d \in Behind(h, x, c) PROVE d \in Behind(h, x, h[c].next)
    <2>1. d \in DOMAIN h \ {Doc} /\ h[d].parent = x /\ h[d].value < h[c].value
      BY <1>1 DEF Behind
    <2>2. h[c].next # Null => h[d].value < h[h[c].next].value
      BY <1>1, <1>2, <2>1
    <2> QED BY <2>1, <2>2 DEF Behind
  <1>5. c \in Behind(h, x, h[c].next)
    BY <1>2 DEF Behind
  <1> QED BY <1>3, <1>4, <1>5

\* The elements that a node has in the text are those among its children.
LEMMA ElementNodes ==
    ASSUME DocumentInv, MeaningInv, pc = "walk",
           \A y, z \in DOMAIN node : node[y].value = node[z].value => y = z,
           NEW x \in DOMAIN node, NEW l
    PROVE  ElementsOf(text, node[x].value, Path[l])
             = ValuesOf(node, {d \in Behind(node, x, Null) : Chosen(node, text, l, d)})
  <1>1. /\ Sound(text) /\ Read = ReadOf(text)
        /\ {node[d].value : d \in Nodes} = {i \in Read : text[i].kind # "close"}
        /\ \A d \in Nodes : /\ node[d].parent # Null
                            /\ node[node[d].parent].value = EncloserOf(text, node[d].value)
    BY TreeOfWalk, MeaningOfText
  <1>2. ASSUME NEW d \in Nodes
        PROVE  /\ node[d].value \in ReadOf(text) /\ d # Doc /\ d \in DOMAIN node /\ node[d].parent \in DOMAIN node
               /\ text[node[d].value].kind \in {"open", "empty"} <=> PoolOf(d) = "element"
    <2>1. node[d].value \in ReadOf(text) /\ text[node[d].value].kind # "close"
      BY <1>1
    <2>2. d # Doc /\ d \in DOMAIN node
      BY DEF Nodes
    <2>3. node[d].parent \in DOMAIN node
      BY <1>1, <2>2 DEF DocumentInv, Links
    <2>4. text[node[d].value].kind \in Kinds
      BY <2>1, TextFacts DEF ReadOf
    <2>5. text[node[d].value].kind \notin {"cut", "cutCdata", "stray", "close"}
      BY <1>1, <2>1 DEF Sound
    <2>6. PoolOf(d) = PoolFor(text[node[d].value].kind)
      BY DEF MeaningInv, TreeInv
    <2>7. text[node[d].value].kind \in {"open", "empty", "text", "cdata", "comment"}
      BY <2>4, <2>5 DEF Kinds
    <2>8. text[node[d].value].kind \in {"open", "empty"} <=> PoolOf(d) = "element"
      BY <2>6, <2>7 DEF PoolFor
    <2> QED BY <2>1, <2>2, <2>3, <2>8
  <1>3. \A d : d \in Behind(node, x, Null) <=> d \in Nodes /\ node[d].parent = x
    BY DEF Behind, Nodes
  <1>4. ASSUME NEW i \in ElementsOf(text, node[x].value, Path[l])
        PROVE  i \in ValuesOf(node, {d \in Behind(node, x, Null) : Chosen(node, text, l, d)})
    <2>1. /\ i \in ReadOf(text) /\ text[i].kind \in {"open", "empty"} /\ text[i].name = Path[l]
          /\ EncloserOf(text, i) = node[x].value
      BY DEF ElementsOf
    <2>2. PICK d \in Nodes : i = node[d].value
      BY <1>1, <2>1
    <2>3. node[d].parent = x
      BY <1>1, <1>2, <2>1, <2>2
    <2> QED BY <1>2, <1>3, <2>1, <2>2, <2>3 DEF ValuesOf, Chosen
  <1>5. ASSUME NEW i \in ValuesOf(node, {d \in Behind(node, x, Null) : Chosen(node, text, l, d)})
        PROVE  i \in ElementsOf(text, node[x].value, Path[l])
    <2>1. PICK d \in Behind(node, x, Null) : i = node[d].value /\ Chosen(node, text, l, d)
      BY DEF ValuesOf
    <2>2. d \in Nodes /\ node[d].parent = x
      BY <1>3
    <2> QED BY <1>1, <1>2, <2>1, <2>2 DEF Chosen, ElementsOf
  <1> QED BY <1>4, <1>5

\* The walk begins at the first child of the document.
LEMMA WalkBegins ==
    ASSUME DocumentInv, MeaningInv, VisitInv, ParseReturns, errorID = "none", NEW r, IsPathEnd(text, r)
    PROVE  WalkAt(r)'
  <1>1. /\ pc = "return" /\ cursor' = node[Doc].first /\ UNCHANGED <<text, node, level, visited>>
        /\ level = 1 /\ visited = << >>
    BY DEF ParseReturns, VisitInv, DocumentInv, PhaseInv
  <1>2. /\ Doc \in DOMAIN node /\ Heap(node, pos) /\ Links(node) /\ node[Doc].value = 0
    BY NodeHeap DEF DocumentInv, DocumentTypeInv, HeapTypes, MeaningInv, TreeInv
  <1>3. Behind(node, Doc, cursor') = {}
    BY <1>1, <1>2, PassedFirst
  <1>4. r[0] = 0 /\ 1 - 1 = 0
    BY DEF IsPathEnd
  <1>5. cursor' # Null => node[cursor'].parent = Doc
    BY <1>1, <1>2 DEF Links
  <1>6. Sorted(<< >>) /\ Range(<< >>) = {} /\ ValuesOf(node, {}) = {}
    BY NoElement DEF Sorted, ValuesOf
  <1>7. {d \in Behind(node, Doc, cursor') : Chosen(node, text, level, d)} = {}
    BY <1>3
  <1> QED BY <1>1, <1>2, <1>3, <1>4, <1>5, <1>6, <1>7 DEF WalkAt

LEMMA WalkPasses ==
    ASSUME DocumentInv, VisitInv, PassOver, NEW r, WalkAt(r)
    PROVE  WalkAt(r)'
  <1>1. /\ pc = "walk" /\ cursor # Null /\ ~(IsElement(cursor) /\ Name(cursor) = Path[level])
        /\ cursor' = node[cursor].next /\ UNCHANGED <<text, node, level, visited>>
    BY DEF PassOver
  <1>2. /\ Heap(node, pos) /\ Links(node) /\ cursor \in DOMAIN node /\ cursor # Doc
        /\ \A y, z \in DOMAIN node : node[y].value = node[z].value => y = z
    BY <1>1, NodeHeap DEF DocumentInv, DocumentTypeInv, WalkTypes, PhaseInv, VisitInv
  <1>3. PICK x \in DOMAIN node :
          /\ node[x].value = r[level - 1]
          /\ node[cursor].parent = x
          /\ level < Len(Path) => /\ visited = << >>
                                  /\ \A d \in Behind(node, x, cursor) : ~Chosen(node, text, level, d)
          /\ level = Len(Path) =>
               /\ Sorted(visited)
               /\ Range(visited) = ValuesOf(node, {d \in Behind(node, x, cursor) : Chosen(node, text, level, d)})
    BY <1>1 DEF WalkAt
  <1>4. Behind(node, x, cursor') = Behind(node, x, cursor) \cup {cursor}
    BY <1>1, <1>2, <1>3, PassedNext
  <1>5. ~Chosen(node, text, level, cursor)
    BY <1>1 DEF Chosen, IsElement, Name
  <1>6. {d \in Behind(node, x, cursor') : Chosen(node, text, level, d)}
          = {d \in Behind(node, x, cursor) : Chosen(node, text, level, d)}
    BY <1>4, <1>5
  <1>7. cursor' # Null => node[cursor'].parent = x
    <2>1. x # Null
      BY <1>2 DEF Heap
    <2> QED BY <1>1, <1>2, <1>3, <2>1 DEF Links
  <1>8. /\ node'[x].value = r[level' - 1]
        /\ cursor' # Null => node'[cursor'].parent = x
        /\ level' < Len(Path) => /\ visited' = << >>
                                 /\ \A d \in Behind(node', x, cursor') : ~Chosen(node', text', level', d)
        /\ level' = Len(Path) =>
             /\ Sorted(visited')
             /\ Range(visited') = ValuesOf(node', {d \in Behind(node', x, cursor') : Chosen(node', text', level', d)})
    BY <1>1, <1>3, <1>4, <1>5, <1>6, <1>7
  <1> QED BY <1>1, <1>8 DEF WalkAt

LEMMA WalkDescends ==
    ASSUME DocumentInv, MeaningInv, VisitInv, Descend, NEW r, IsPathEnd(text, r), WalkAt(r)
    PROVE  WalkAt(r)'
  <1>1. /\ pc = "walk" /\ cursor # Null /\ level < Len(Path) /\ IsElement(cursor) /\ Name(cursor) = Path[level]
        /\ level' = level + 1 /\ cursor' = node[cursor].first /\ UNCHANGED <<text, node, visited>>
    BY DEF Descend
  <1>2. /\ Heap(node, pos) /\ Links(node) /\ cursor \in DOMAIN node /\ cursor # Doc
        /\ \A y, z \in DOMAIN node : node[y].value = node[z].value => y = z
        /\ level \in Nat /\ 1 <= level /\ Len(Path) \in Nat
    BY <1>1, NodeHeap, PathAssumption DEF DocumentInv, DocumentTypeInv, WalkTypes, PhaseInv, VisitInv
  <1>3. PICK x \in DOMAIN node :
          /\ node[x].value = r[level - 1]
          /\ node[cursor].parent = x
          /\ visited = << >>
          /\ \A d \in Behind(node, x, cursor) : ~Chosen(node, text, level, d)
    BY <1>1 DEF WalkAt
  <1>4. level \in 1 .. Len(Path) - 1 /\ (level + 1) - 1 = level
    BY <1>1, <1>2
  <1>5. r[level] = node[cursor].value
    <2> DEFINE S == ElementsOf(text, node[x].value, Path[level])
    <2>1. S = ValuesOf(node, {d \in Behind(node, x, Null) : Chosen(node, text, level, d)})
      BY <1>1, <1>2, ElementNodes
    <2>2. Chosen(node, text, level, cursor) /\ cursor \in Behind(node, x, Null)
      BY <1>1, <1>2, <1>3 DEF Chosen, IsElement, Name, Behind
    <2>3. node[cursor].value \in S
      BY <2>1, <2>2 DEF ValuesOf
    <2>4. ASSUME NEW j \in S PROVE j \in Nat /\ node[cursor].value <= j
      <3>1. PICK d \in Behind(node, x, Null) : j = node[d].value /\ Chosen(node, text, level, d)
        BY <2>1 DEF ValuesOf
      <3>2. d \in DOMAIN node \ {Doc} /\ node[d].parent = x
        BY DEF Behind
      <3>3. d \notin Behind(node, x, cursor)
        BY <1>3, <3>1
      <3>4. ~(node[d].value < node[cursor].value)
        BY <3>2, <3>3 DEF Behind
      <3>5. node[d].value \in Nat /\ node[cursor].value \in Nat
        BY <1>2, <3>2, FieldTypes
      <3> QED BY <3>1, <3>4, <3>5
    <2>5. node[cursor].value \in Nat
      BY <1>2, FieldTypes
    <2>6. r[level] = StepOf(text, node[x].value, Path[level])
      BY <1>3, <1>4 DEF IsPathEnd
    <2>7. r[level] = CHOOSE i \in S : \A j \in S : i <= j
      BY <2>3, <2>6 DEF StepOf
    <2> HIDE DEF S
    <2>8. r[level] \in S /\ \A j \in S : r[level] <= j
      BY <2>3, <2>4, <2>7
    <2>9. r[level] \in Nat /\ r[level] <= node[cursor].value /\ node[cursor].value <= r[level]
      BY <2>3, <2>4, <2>8
    <2> QED BY <2>5, <2>9
  <1>6. Behind(node, cursor, cursor') = {}
    BY <1>1, <1>2, PassedFirst
  <1>7. cursor' # Null => node[cursor'].parent = cursor
    BY <1>1, <1>2 DEF Links
  <1>8. Sorted(<< >>) /\ Range(<< >>) = {} /\ ValuesOf(node, {}) = {}
    BY NoElement DEF Sorted, ValuesOf
  <1>9. {d \in Behind(node, cursor, cursor') : Chosen(node, text, level', d)} = {}
    BY <1>6
  <1>10. node[cursor].value = r[level' - 1]
    BY <1>1, <1>4, <1>5
  <1>11. /\ node'[cursor].value = r[level' - 1]
         /\ cursor' # Null => node'[cursor'].parent = cursor
         /\ visited' = << >>
         /\ \A d \in Behind(node', cursor, cursor') : ~Chosen(node', text', level', d)
         /\ Sorted(visited')
         /\ Range(visited') = ValuesOf(node', {d \in Behind(node', cursor, cursor') : Chosen(node', text', level', d)})
    BY <1>1, <1>3, <1>6, <1>7, <1>8, <1>9, <1>10
  <1>12. PICK y : y = cursor
    OBVIOUS
  <1>13. y \in DOMAIN node'
    BY <1>1, <1>2, <1>12
  <1> QED BY <1>11, <1>12, <1>13 DEF WalkAt

LEMMA SortedAppend ==
    ASSUME NEW s \in Seq(Nat), Sorted(s), NEW v \in Nat, \A y \in Range(s) : y < v
    PROVE  Sorted(Append(s, v)) /\ Range(Append(s, v)) = Range(s) \cup {v} /\ Append(s, v) \in Seq(Nat)
  <1>1. PICK n \in Nat : n = Len(s) /\ DOMAIN s = 1 .. n
    OBVIOUS
  <1>2. PICK w : w = Append(s, v)
    OBVIOUS
  <1>3. /\ w \in Seq(Nat) /\ DOMAIN w = 1 .. n + 1 /\ w[n + 1] = v /\ \A i \in 1 .. n : w[i] = s[i]
    BY <1>1, <1>2
  <1>4. \A i : i \in 1 .. n + 1 <=> i \in 1 .. n \/ i = n + 1
    BY <1>1
  <1>5. Range(w) = Range(s) \cup {v}
    BY <1>1, <1>3, <1>4 DEF Range
  <1>6. \A i \in 1 .. n : s[i] < v
    BY <1>1 DEF Range
  <1>7. ASSUME NEW i \in 1 .. n + 1, NEW j \in 1 .. n + 1, i < j PROVE w[i] < w[j]
    <2>1. i \in 1 .. n
      BY <1>1, <1>7
    <2>2. CASE j = n + 1
      BY <1>3, <1>6, <2>1, <2>2
    <2>3. CASE j \in 1 .. n
      BY <1>1, <1>3, <1>7, <2>1, <2>3 DEF Sorted
    <2> QED BY <1>4, <2>2, <2>3
  <1> QED BY <1>2, <1>3, <1>5, <1>7 DEF Sorted

LEMMA WalkVisits ==
    ASSUME DocumentInv, VisitInv, VisitPlayer, pc' = "walk", NEW r, WalkAt(r)
    PROVE  WalkAt(r)'
  <1>1. /\ pc = "walk" /\ cursor # Null /\ level = Len(Path) /\ IsElement(cursor) /\ Name(cursor) = Path[level]
        /\ cursor' = node[cursor].next /\ UNCHANGED <<text, node, level>>
        /\ visited' = Append(visited, node[cursor].value)
    BY DEF VisitPlayer
  <1>2. /\ Heap(node, pos) /\ Links(node) /\ cursor \in DOMAIN node /\ cursor # Doc
        /\ \A y, z \in DOMAIN node : node[y].value = node[z].value => y = z
        /\ level \in Nat /\ visited \in Seq(Nat)
    BY <1>1, NodeHeap DEF DocumentInv, DocumentTypeInv, WalkTypes, PhaseInv, VisitInv
  <1>3. PICK x \in DOMAIN node :
          /\ node[x].value = r[level - 1]
          /\ node[cursor].parent = x
          /\ Sorted(visited)
          /\ Range(visited) = ValuesOf(node, {d \in Behind(node, x, cursor) : Chosen(node, text, level, d)})
    BY <1>1 DEF WalkAt
  <1>4. Behind(node, x, cursor') = Behind(node, x, cursor) \cup {cursor}
    BY <1>1, <1>2, <1>3, PassedNext
  <1>5. Chosen(node, text, level, cursor)
    BY <1>1, <1>2 DEF Chosen, IsElement, Name
  <1>6. {d \in Behind(node, x, cursor') : Chosen(node, text, level, d)}
          = {d \in Behind(node, x, cursor) : Chosen(node, text, level, d)} \cup {cursor}
    BY <1>4, <1>5
  <1>7. cursor' # Null => node[cursor'].parent = x
    <2>1. x # Null
      BY <1>2 DEF Heap
    <2> QED BY <1>1, <1>2, <1>3, <2>1 DEF Links
  <1>8. \A y \in Range(visited) : y < node[cursor].value
    BY <1>1, <1>3 DEF ValuesOf, Behind
  <1>9. node[cursor].value \in Nat
    BY <1>2, FieldTypes
  <1>10. Sorted(visited') /\ Range(visited') = Range(visited) \cup {node[cursor].value}
    BY <1>1, <1>2, <1>3, <1>8, <1>9, SortedAppend
  <1>11. Range(visited') = ValuesOf(node, {d \in Behind(node, x, cursor') : Chosen(node, text, level, d)})
    BY <1>3, <1>6, <1>10 DEF ValuesOf
  <1>12. ~(level' < Len(Path))
    BY <1>1, <1>2
  <1> QED BY <1>1, <1>3, <1>7, <1>10, <1>11, <1>12 DEF WalkAt

LEMMA WalkFinishes ==
    ASSUME DocumentInv, MeaningInv, VisitInv, pc = "walk", cursor = Null, NEW r, IsPathEnd(text, r), WalkAt(r)
    PROVE  Finished(r)
  <1>1. /\ \A y, z \in DOMAIN node : node[y].value = node[z].value => y = z
        /\ level \in Nat /\ 1 <= level /\ level <= Len(Path) /\ Len(Path) \in Nat
        /\ Last(Path) = Path[Len(Path)]
    BY PathAssumption DEF DocumentInv, DocumentTypeInv, WalkTypes, VisitInv, Last
  <1>2. PICK x \in DOMAIN node :
          /\ node[x].value = r[level - 1]
          /\ level < Len(Path) => /\ visited = << >>
                                  /\ \A d \in Behind(node, x, Null) : ~Chosen(node, text, level, d)
          /\ level = Len(Path) =>
               /\ Sorted(visited)
               /\ Range(visited) = ValuesOf(node, {d \in Behind(node, x, Null) : Chosen(node, text, level, d)})
    BY DEF WalkAt
  <1>3. ElementsOf(text, r[level - 1], Path[level])
          = ValuesOf(node, {d \in Behind(node, x, Null) : Chosen(node, text, level, d)})
    BY <1>1, <1>2, ElementNodes
  <1>4. CASE level = Len(Path)
    BY <1>1, <1>2, <1>3, <1>4 DEF Finished
  <1>5. CASE level < Len(Path)
    <2>1. ElementsOf(text, r[level - 1], Path[level]) = {}
      BY <1>2, <1>3, <1>5 DEF ValuesOf
    <2>2. level \in 1 .. Len(Path) - 1
      BY <1>1, <1>5
    <2>3. r[level] = -1
      BY <2>1, <2>2 DEF IsPathEnd, StepOf
    <2>4. ElementsOf(text, r[Len(Path) - 1], Last(Path)) = {}
      BY <2>2, <2>3, PathEndsEarly
    <2>5. Sorted(<< >>) /\ Range(<< >>) = {}
      BY NoElement DEF Sorted
    <2> QED BY <1>2, <1>5, <2>4, <2>5 DEF Finished
  <1> QED BY <1>1, <1>4, <1>5

LEMMA ValuesDistinct ==
    DocumentInv /\ VisitInv /\ [DocumentNext]_documentVars =>
      \A x, y \in DOMAIN node' : node'[x].value = node'[y].value => x = y
  <1> SUFFICES ASSUME DocumentInv, VisitInv, [DocumentNext]_documentVars
               PROVE  \A x, y \in DOMAIN node' : node'[x].value = node'[y].value => x = y
    OBVIOUS
  <1>1. \A x, y \in DOMAIN node : node[x].value = node[y].value => x = y
    BY DEF VisitInv
  <1>2. CASE Identify
    <2>1. PICK z : Identified(z)
      BY <1>2, IdentifyIs
    <2>2. /\ DOMAIN node' = DOMAIN node \cup {z} /\ node'[z].value = pos
          /\ \A y \in DOMAIN node : node'[y] = node[y]
      BY <2>1 DEF Identified
    <2>3. \A y \in DOMAIN node : node[y].value # pos
      BY NodeHeap, FieldTypes, TextFacts DEF DocumentInv, ValueInv
    <2> QED BY <1>1, <2>2, <2>3
  <1>3. CASE ~Identify
    BY <1>1, <1>3, NodeFields
  <1> QED BY <1>2, <1>3

LEMMA VisitStep ==
    DocumentInv /\ MeaningInv /\ VisitInv /\ [DocumentNext]_documentVars => VisitInv'
  <1> SUFFICES ASSUME DocumentInv, MeaningInv, VisitInv, [DocumentNext]_documentVars PROVE VisitInv'
    OBVIOUS
  <1>1. /\ PhaseInv /\ PhaseInv'
        /\ errorID # "none" => errorID' # "none"
        /\ text' = text
        /\ after \in {"none", "return", "clearPools", "done"}
    <2>1. text' = text /\ (errorID # "none" => errorID' # "none")
      <3>1. CASE Identify
        <4>1. PICK x : Identified(x)
          BY <3>1, IdentifyIs
        <4> QED BY <4>1 DEF Identified, LeafError
      <3> QED BY <3>1, ParseFields
    <2> QED BY <2>1, PhaseStep DEF DocumentInv, DocumentTypeInv, WalkTypes
  <1>2. \A x, y \in DOMAIN node' : node'[x].value = node'[y].value => x = y
    BY ValuesDistinct
  <1>3. visited' \in Seq(Nat)
    <2>1. CASE VisitPlayer
      <3>1. cursor \in DOMAIN node /\ (visited' = visited \/ visited' = Append(visited, node[cursor].value))
        BY <2>1 DEF VisitPlayer, DocumentInv, DocumentTypeInv, WalkTypes
      <3>2. node[cursor].value \in Nat
        BY <3>1, NodeHeap, FieldTypes
      <3> QED BY <3>1, <3>2 DEF VisitInv
    <2>2. CASE visited' = visited
      BY <2>2 DEF VisitInv
    <2>3. visited' = visited \/ VisitPlayer
      BY DEF DocumentNext, documentVars, walkVars, Parse, Identify, TextEnds, ChildFailed, EndTag, ChildMismatched, Return,
             ChildInserted, DeleteChild, FreeNode,
             Deleted, ParseReturns, ClearPools, PassOver, Descend, WalkEnds
    <2> QED BY <2>1, <2>2, <2>3
  <1>4. /\ pc' \notin {"walk", "done"} /\ after' # "done" => level' = 1 /\ visited' = << >>
        /\ pc' = "clearPools" \/ after' = "clearPools" => errorID' # "none"
        /\ \A r : IsPathEnd(text, r) =>
             /\ pc' = "walk" => WalkAt(r)'
             /\ after' = "done" \/ (pc' = "done" /\ errorID' = "none" /\ crash' = "none") => Finished(r)'
    <2>1. CASE Parse \/ Identify \/ TextEnds \/ ChildFailed \/ EndTag \/ ChildMismatched \/ Return \/ ChildInserted
      <3>1. /\ pc \notin {"walk", "done", "clearPools"} /\ after # "done" /\ after # "clearPools"
        BY <1>1, <2>1 DEF PhaseInv, Parse, Identify, TextEnds, ChildFailed, EndTag, ChildMismatched, Return, ChildInserted
      <3>2. /\ pc' \in {"loop", "handle", "return", "delete", "done"} /\ after' \in {after, "return"}
            /\ pc' = "done" => errorID' # "none"
            /\ level' = level /\ visited' = visited
        BY <2>1, <3>1 DEF Parse, Identify, TextEnds, ChildFailed, EndTag, ChildMismatched, Return, ChildInserted,
              StartDelete, deleteVars, walkVars
      <3> QED BY <3>1, <3>2 DEF VisitInv
    <2>2. CASE ParseReturns
      <3>1. /\ pc = "return" /\ after = "none" /\ errorID' = errorID /\ level' = level /\ visited' = visited
            /\ \/ errorID = "none" /\ pc' = "walk" /\ after' = after
               \/ errorID # "none" /\ pc' = "delete" /\ after' = "clearPools"
        BY <1>1, <2>2 DEF ParseReturns, PhaseInv, deleteVars
      <3> QED BY <2>2, <3>1, WalkBegins DEF VisitInv
    <2>3. CASE DeleteChild \/ FreeNode
      <3>1. pc = "delete" /\ UNCHANGED <<pc, after, level, visited, errorID>>
        BY <2>3 DEF DeleteChild, FreeNode, walkVars
      <3>2. ASSUME NEW r, IsPathEnd(text, r), after = "done" PROVE Finished(r)'
        BY <1>1, <3>1, <3>2 DEF VisitInv, Finished
      <3> QED BY <3>1, <3>2 DEF VisitInv
    <2>4. CASE Deleted
      <3>1. pc = "delete" /\ pc' = after /\ after' = "none" /\ UNCHANGED <<level, visited, errorID>>
        BY <2>4 DEF Deleted, walkVars
      <3>2. ASSUME NEW r, IsPathEnd(text, r), after = "done" PROVE Finished(r)'
        BY <1>1, <3>1, <3>2 DEF VisitInv, Finished
      <3> QED BY <1>1, <3>1, <3>2 DEF VisitInv
    <2>5. CASE ClearPools
      <3>1. pc = "clearPools" /\ pc' = "done" /\ UNCHANGED <<after, level, visited, errorID>>
        BY <2>5 DEF ClearPools, walkVars, deleteVars
      <3> QED BY <1>1, <3>1 DEF VisitInv, PhaseInv
    <2>6. CASE PassOver
      <3>1. pc = "walk" /\ after = "none" /\ UNCHANGED <<pc, after, errorID>>
        BY <1>1, <2>6 DEF PassOver, deleteVars, PhaseInv
      <3> QED BY <2>6, <3>1, WalkPasses DEF VisitInv
    <2>7. CASE Descend
      <3>1. pc = "walk" /\ after = "none" /\ UNCHANGED <<pc, after, errorID>>
        BY <1>1, <2>7 DEF Descend, deleteVars, PhaseInv
      <3> QED BY <2>7, <3>1, WalkDescends DEF VisitInv
    <2>8. CASE VisitPlayer
      <3>1. /\ pc = "walk" /\ after = "none" /\ UNCHANGED <<after, errorID>>
            /\ pc' = pc \/ (pc' = "done" /\ crash' = "nullString")
        BY <1>1, <2>8 DEF VisitPlayer, deleteVars, PhaseInv
      <3> QED BY <2>8, <3>1, WalkVisits DEF VisitInv
    <2>9. CASE WalkEnds
      <3>1. /\ pc = "walk" /\ cursor = Null /\ pc' = "delete" /\ after' = "done"
            /\ UNCHANGED <<text, level, visited, errorID>>
        BY <2>9 DEF WalkEnds, walkVars
      <3>2. ASSUME NEW r, IsPathEnd(text, r) PROVE Finished(r)'
        <4>1. Finished(r)
          BY <3>1, <3>2, WalkFinishes DEF VisitInv
        <4> QED BY <3>1, <4>1 DEF Finished
      <3> QED BY <3>1, <3>2
    <2>10. CASE UNCHANGED documentVars
      <3>1. UNCHANGED <<text, pc, node, after, errorID, level, cursor, visited, crash>>
        BY <2>10 DEF documentVars, deleteVars, walkVars
      <3>2. ASSUME NEW r
            PROVE  (WalkAt(r) => WalkAt(r)') /\ (Finished(r) => Finished(r)')
        BY <3>1 DEF WalkAt, Finished
      <3> QED BY <3>1, <3>2 DEF VisitInv
    <2> QED BY <2>1, <2>2, <2>3, <2>4, <2>5, <2>6, <2>7, <2>8, <2>9, <2>10 DEF DocumentNext
  <1> QED BY <1>1, <1>2, <1>3, <1>4 DEF VisitInv

\* ParseZoneTopology() reads every player of the first list of players, each once
\* and in order, for every set of texts, path and attribute: what it has visited
\* are the wanted nodes among the children its cursor has passed, and no node it
\* has passed on the way down was the one that the path asks for (WalkAt).
THEOREM WalkIsComplete ==
    DocumentSpec => []EveryPlayerVisited
  <1>1. DocumentInit => VisitInv
    <2> SUFFICES ASSUME DocumentInit PROVE VisitInv
      OBVIOUS
    <2>1. /\ pc = "start" /\ after = "none" /\ level = 1 /\ visited = << >>
          /\ node = [x \in {Doc} |-> NewNode(0, "none", << >>)]
      BY DEF DocumentInit
    <2> QED BY <2>1 DEF VisitInv
  <1>2. DocumentInv /\ MeaningInv /\ VisitInv /\ [DocumentNext]_documentVars => MeaningInv' /\ VisitInv'
    BY FrameStep, TreeStep, CallStep, OutcomeStep, VisitStep DEF MeaningInv
  <1>3. VisitInv => EveryPlayerVisited
    <2> SUFFICES ASSUME VisitInv, pc = "done", errorID = "none", crash = "none"
                 PROVE  /\ Range(visited) = Elements(PathEnd[Len(Path) - 1], Last(Path))
                        /\ \A i, j \in DOMAIN visited : i < j => visited[i] < visited[j]
      BY DEF EveryPlayerVisited
    <2>1. Finished(PathEnd)
      BY PathEndExists DEF VisitInv
    <2>2. \A u, name : Elements(u, name) = ElementsOf(text, u, name)
      BY MeaningOfText DEF Elements, ElementsOf
    <2> QED BY <2>1, <2>2 DEF Finished, Sorted
  <1> QED BY <1>1, <1>2, <1>3, MeaningStart, DocumentInvariance, PTL DEF DocumentSpec
==============================================================================
