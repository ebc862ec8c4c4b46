-------------------------- MODULE EapxResolveProofs --------------------------
(***************************************************************************)
(* Proofs about EapxResolve, for every recipe, every donor and every       *)
(* listing of them.                                                        *)
(***************************************************************************)
EXTENDS EapxResolve, SequenceTheorems, FiniteSetTheorems, WellFoundedInduction, TLAPS

-----------------------------------------------------------------------------
(* Facts about numbers and sequences.                                      *)

\* A set of naturals that is not empty has a least element.
LEMMA LeastIn ==
    ASSUME NEW S, S \subseteq Nat, S # {}
    PROVE  \E n \in S : \A m \in S : n <= m
<1> DEFINE R == OpToRel(<, Nat)
<1>1. \A x, y \in Nat : x < y => <<x, y>> \in R
  BY DEF OpToRel
<1>2. IsWellFoundedOn(R, Nat)
  BY NatLessThanWellFounded
<1> HIDE DEF R
<1>3. PICK x \in S : \A y \in S : <<y, x>> \notin R
  BY <1>2, WFMin
<1>4. \A y \in S : ~(y < x)
  BY <1>1, <1>3
<1>5. \A y \in S : x <= y
  BY <1>4
<1> QED
  BY <1>5

LEMMA MinIn ==
    ASSUME NEW S, S \subseteq Nat, S # {}
    PROVE  Min(S) \in S /\ \A m \in S : Min(S) <= m
BY LeastIn DEF Min

\* A sequence's members are those at its places.
LEMMA Members ==
    ASSUME NEW S, NEW s \in Seq(S)
    PROVE  /\ Len(s) \in Nat /\ DOMAIN s = 1..Len(s)
           /\ ToSet(s) = {s[n] : n \in 1..Len(s)} /\ ToSet(s) \subseteq S
           /\ s \in Seq(ToSet(s))
           /\ \A n \in 1..Len(s) : s[n] \in S
<1>1. Len(s) \in Nat /\ DOMAIN s = 1..Len(s)
  BY LenProperties
<1>2. \A n \in 1..Len(s) : s[n] \in S
  BY ElementOfSeq
<1>3. s \in Seq(Range(s)) /\ Range(s) = ToSet(s)
  BY SeqOfRange DEF Range, ToSet
<1> QED
  BY <1>1, <1>2, <1>3 DEF ToSet

LEMMA ConcatMembers ==
    ASSUME NEW S, NEW s \in Seq(S), NEW t \in Seq(S)
    PROVE  s \o t \in Seq(S) /\ ToSet(s \o t) = ToSet(s) \cup ToSet(t)
<1>1. \A u : Range(u) = ToSet(u)
  BY DEF Range, ToSet
<1>2. Range(s \o t) = Range(s) \cup Range(t)
  BY RangeConcatenation
<1>3. s \o t \in Seq(S)
  BY ConcatProperties
<1> QED
  BY <1>1, <1>2, <1>3

\* The partial results of FlattenSeq.
Flattens(f, ss, n) ==
    \A i \in 1..n : f[i] = IF i = 1 THEN ss[1] ELSE f[i - 1] \o ss[i]

LEMMA FlattenExists ==
    ASSUME NEW S, NEW ss \in Seq(Seq(S)), NEW m \in 1..Len(ss)
    PROVE  \E f \in [1..m -> Seq(S)] : Flattens(f, ss, m)
<1> DEFINE Bad == {n \in 1..Len(ss) : ~ \E f \in [1..n -> Seq(S)] : Flattens(f, ss, n)}
<1>0. /\ Len(ss) \in Nat
      /\ \A n \in 1..Len(ss) : ss[n] \in Seq(S)
  BY Members
<1>1. SUFFICES ASSUME Bad # {} PROVE FALSE
  OBVIOUS
<1>2. Bad \subseteq Nat
  BY <1>0
<1>3. PICK n \in Bad : \A k \in Bad : n <= k
  <2> HIDE DEF Bad
  <2> QED
    BY <1>1, <1>2, LeastIn
<1>4. n \in 1..Len(ss) /\ ~ \E f \in [1..n -> Seq(S)] : Flattens(f, ss, n)
  OBVIOUS
<1>5. CASE n = 1
  <2> DEFINE f == [i \in 1..1 |-> ss[1]]
  <2>1. f \in [1..1 -> Seq(S)] /\ Flattens(f, ss, 1)
    BY <1>0, <1>4, <1>5 DEF Flattens
  <2> QED
    BY <1>4, <1>5, <2>1
<1>6. CASE n # 1
  <2>1. n - 1 \in 1..Len(ss) /\ n - 1 \notin Bad
    <3> HIDE DEF Bad
    <3> QED
      BY <1>0, <1>3, <1>4, <1>6
  <2>2. PICK f \in [1..(n - 1) -> Seq(S)] : Flattens(f, ss, n - 1)
    BY <2>1
  <2> DEFINE g == [i \in 1..n |-> IF i = n THEN f[n - 1] \o ss[n] ELSE f[i]]
  <2>3. n - 1 \in 1..(n - 1) /\ f[n - 1] \o ss[n] \in Seq(S)
    BY <1>0, <1>4, <1>6, <2>2, ConcatProperties
  <2>4. \A i \in 1..n : i # n => i \in 1..(n - 1)
    BY <1>0, <1>4
  <2>5. g \in [1..n -> Seq(S)]
    BY <2>2, <2>3, <2>4
  <2>6. ASSUME NEW i \in 1..n
        PROVE  g[i] = IF i = 1 THEN ss[1] ELSE g[i - 1] \o ss[i]
    <3>1. CASE i = n
      <4>1. n - 1 \in 1..n /\ n - 1 # n /\ n \in 1..n
        BY <1>0, <1>4, <1>6
      <4>2. g[n] = f[n - 1] \o ss[n] /\ g[n - 1] = f[n - 1]
        BY <4>1
      <4> HIDE DEF g
      <4> QED
        BY <1>6, <3>1, <4>2
    <3>2. CASE i # n
      <4>1. i \in 1..(n - 1) /\ g[i] = f[i]
        BY <2>4, <3>2
      <4>2. i # 1 => i - 1 \in 1..n /\ i - 1 # n /\ g[i - 1] = f[i - 1]
        BY <1>0, <1>4, <4>1
      <4> QED
        BY <2>2, <4>1, <4>2 DEF Flattens
    <3> QED
      BY <3>1, <3>2
  <2>7. Flattens(g, ss, n)
    <3> HIDE DEF g
    <3> QED
      BY <2>6 DEF Flattens
  <2> QED
    BY <1>4, <2>5, <2>7
<1> QED
  BY <1>5, <1>6

\* FlattenSeq gives the last of them.
LEMMA Flattening ==
    ASSUME NEW S, NEW ss \in Seq(Seq(S)), Len(ss) # 0
    PROVE  \E f \in [1..Len(ss) -> Seq(S)] :
              Flattens(f, ss, Len(ss)) /\ FlattenSeq(ss) = f[Len(ss)]
<1> DEFINE Rec(f) == f = [i \in 1..Len(ss) |-> IF i = 1 THEN ss[i] ELSE f[i - 1] \o ss[i]]
           flatten == CHOOSE f : Rec(f)
<1>0. Len(ss) \in Nat /\ Len(ss) \in 1..Len(ss) /\ \A n \in 1..Len(ss) : ss[n] \in Seq(S)
  BY Members
<1>1. PICK f \in [1..Len(ss) -> Seq(S)] : Flattens(f, ss, Len(ss))
  BY <1>0, FlattenExists
<1>2. Rec(f)
  <2>1. \A i \in 1..Len(ss) : f[i] = IF i = 1 THEN ss[i] ELSE f[i - 1] \o ss[i]
    BY <1>1 DEF Flattens
  <2> QED
    BY <1>1, <2>1
<1>3. Rec(flatten)
  <2> HIDE DEF Rec
  <2> QED
    BY <1>2
<1>4. FlattenSeq(ss) = flatten[Len(ss)]
  BY DEF FlattenSeq
<1>5. /\ DOMAIN flatten = 1..Len(ss)
      /\ \A i \in 1..Len(ss) :
            flatten[i] = IF i = 1 THEN ss[1] ELSE flatten[i - 1] \o ss[i]
  <2> HIDE DEF flatten
  <2> QED
    BY <1>3
<1> HIDE DEF flatten
<1> DEFINE Bad == {i \in 1..Len(ss) : flatten[i] # f[i]}
<1>6. Bad = {}
  <2>1. SUFFICES ASSUME Bad # {} PROVE FALSE
    OBVIOUS
  <2>2. PICK i \in Bad : \A k \in Bad : i <= k
    <3>1. Bad \subseteq Nat
      BY <1>0
    <3> HIDE DEF Bad
    <3> QED
      BY <2>1, <3>1, LeastIn
  <2>3. i # 1
    BY <1>1, <1>5 DEF Flattens
  <2>4. i - 1 \in 1..Len(ss) /\ i - 1 \notin Bad
    <3>1. i \in 1..Len(ss)
      OBVIOUS
    <3> HIDE DEF Bad
    <3> QED
      BY <1>0, <2>2, <2>3, <3>1
  <2>5. flatten[i - 1] = f[i - 1]
    BY <2>4
  <2> QED
    BY <1>1, <1>5, <2>3, <2>5 DEF Flattens
<1>7. flatten[Len(ss)] = f[Len(ss)]
  BY <1>0, <1>6
<1> QED
  BY <1>1, <1>4, <1>7

\* What a sequence of sequences holds.
LEMMA FlattenMembers ==
    ASSUME NEW S, NEW ss \in Seq(Seq(S))
    PROVE  /\ FlattenSeq(ss) \in Seq(S)
           /\ ToSet(FlattenSeq(ss)) = UNION {ToSet(ss[n]) : n \in 1..Len(ss)}
<1>0. Len(ss) \in Nat /\ \A n \in 1..Len(ss) : ss[n] \in Seq(S)
  BY Members
<1>1. CASE Len(ss) = 0
  <2>1. FlattenSeq(ss) = ss /\ ss = <<>>
    BY <1>0, <1>1, EmptySeq DEF FlattenSeq
  <2>2. ToSet(<<>>) = {} /\ <<>> \in Seq(S)
    BY EmptySeq DEF ToSet
  <2>3. 1..Len(ss) = {}
    BY <1>1
  <2> QED
    BY <2>1, <2>2, <2>3
<1>2. CASE Len(ss) # 0
  <2>1. PICK f \in [1..Len(ss) -> Seq(S)] :
            Flattens(f, ss, Len(ss)) /\ FlattenSeq(ss) = f[Len(ss)]
    BY <1>2, Flattening
  <2> DEFINE Bad == {i \in 1..Len(ss) : ToSet(f[i]) # UNION {ToSet(ss[n]) : n \in 1..i}}
  <2>2. Bad = {}
    <3>1. SUFFICES ASSUME Bad # {} PROVE FALSE
      OBVIOUS
    <3>2. PICK i \in Bad : \A k \in Bad : i <= k
      <4>1. Bad \subseteq Nat
        BY <1>0
      <4> HIDE DEF Bad
      <4> QED
        BY <3>1, <4>1, LeastIn
    <3>3. i \in 1..Len(ss)
      OBVIOUS
    <3>4. i # 1
      <4>1. f[1] = ss[1] /\ 1..1 = {1}
        <5>1. 1 \in 1..Len(ss) /\ 1..1 = {1}
          BY <1>0, <3>3
        <5> QED
          BY <2>1, <5>1 DEF Flattens
      <4> QED
        BY <4>1
    <3>5. i - 1 \in 1..Len(ss) /\ i - 1 \notin Bad /\ 1..i = 1..(i - 1) \cup {i}
      <4> HIDE DEF Bad
      <4> QED
        BY <1>0, <3>2, <3>3, <3>4
    <3>6. ToSet(f[i - 1]) = UNION {ToSet(ss[n]) : n \in 1..(i - 1)}
      BY <3>5
    <3>7. ToSet(f[i]) = ToSet(f[i - 1]) \cup ToSet(ss[i])
      <4>1. f[i] = f[i - 1] \o ss[i]
        BY <2>1, <3>3, <3>4 DEF Flattens
      <4> QED
        BY <1>0, <2>1, <3>3, <3>5, <4>1, ConcatMembers
    <3>8. ToSet(f[i]) = UNION {ToSet(ss[n]) : n \in 1..i}
      BY <3>5, <3>6, <3>7
    <3> QED
      BY <3>8
  <2>3. Len(ss) \in 1..Len(ss)
    BY <1>0, <1>2
  <2>4. ToSet(f[Len(ss)]) = UNION {ToSet(ss[n]) : n \in 1..Len(ss)}
    BY <2>2, <2>3
  <2> QED
    BY <2>1, <2>3, <2>4
<1> QED
  BY <1>1, <1>2

\* One sequence more.
LEMMA FlattenAppend ==
    ASSUME NEW S, NEW ss \in Seq(Seq(S)), NEW s \in Seq(S)
    PROVE  FlattenSeq(Append(ss, s)) = FlattenSeq(ss) \o s
<1> DEFINE tt == Append(ss, s)
           n  == Len(ss)
<1>0. /\ n \in Nat /\ tt \in Seq(Seq(S)) /\ Len(tt) = n + 1
      /\ \A i \in 1..n : tt[i] = ss[i] /\ ss[i] \in Seq(S)
      /\ tt[n + 1] = s
  BY Members, AppendProperties
<1> HIDE DEF tt, n
<1>1. PICK g \in [1..(n + 1) -> Seq(S)] :
          Flattens(g, tt, n + 1) /\ FlattenSeq(tt) = g[n + 1]
  BY <1>0, Flattening
<1>2. CASE n = 0
  <2>1. FlattenSeq(ss) = <<>>
    BY <1>2, EmptySeq DEF FlattenSeq, n
  <2>2. g[1] = s
    BY <1>0, <1>1, <1>2 DEF Flattens
  <2> QED
    BY <1>1, <1>2, <2>1, <2>2, ConcatEmptySeq DEF tt
<1>3. CASE n # 0
  <2>1. PICK f \in [1..n -> Seq(S)] : Flattens(f, ss, n) /\ FlattenSeq(ss) = f[n]
    BY <1>3, Flattening DEF n
  <2> DEFINE Bad == {i \in 1..n : g[i] # f[i]}
  <2>2. Bad = {}
    <3>1. SUFFICES ASSUME Bad # {} PROVE FALSE
      OBVIOUS
    <3>2. PICK i \in Bad : \A k \in Bad : i <= k
      <4>1. Bad \subseteq Nat
        BY <1>0
      <4> HIDE DEF Bad
      <4> QED
        BY <3>1, <4>1, LeastIn
    <3>3. i \in 1..n /\ g[i] # f[i]
      OBVIOUS
    <3>4. /\ i \in 1..(n + 1)
          /\ i # 1 => i - 1 \in 1..n
      BY <1>0, <3>3
    <3>5. /\ g[i] = IF i = 1 THEN ss[1] ELSE g[i - 1] \o ss[i]
          /\ f[i] = IF i = 1 THEN ss[1] ELSE f[i - 1] \o ss[i]
      BY <1>0, <1>1, <2>1, <3>3, <3>4 DEF Flattens
    <3>6. i # 1 => g[i - 1] = f[i - 1]
      <4>1. i # 1 => i - 1 \in 1..n /\ i - 1 \notin Bad
        <5> HIDE DEF Bad
        <5> QED
          BY <1>0, <3>2, <3>3, <3>4
      <4> QED
        BY <4>1
    <3> QED
      BY <3>3, <3>5, <3>6
  <2>3. n \in 1..n /\ n + 1 \in 1..(n + 1) /\ n + 1 # 1 /\ (n + 1) - 1 = n
    BY <1>0, <1>3
  <2>4. g[n] = f[n]
    BY <2>2, <2>3
  <2>5. g[n + 1] = g[n] \o s
    BY <1>0, <1>1, <2>3 DEF Flattens
  <2> QED
    BY <1>1, <2>1, <2>4, <2>5 DEF tt
<1> QED
  BY <1>2, <1>3

-----------------------------------------------------------------------------
(* What is taken out of a listing.                                         *)

\* Only is FlattenSeq of a sequence of sequences.
Parts(cs, S) == [n \in DOMAIN cs |-> IF cs[n] \in S THEN <<cs[n]>> ELSE <<>>]

LEMMA SeqIntro ==
    ASSUME NEW T, NEW n \in Nat, NEW f, f \in [1..n -> T]
    PROVE  f \in Seq(T) /\ Len(f) = n
OBVIOUS

LEMMA Single ==
    ASSUME NEW T, NEW c \in T
    PROVE  <<c>> \in Seq(T) /\ ToSet(<<c>>) = {c}
<1>1. <<c>> \in Seq(T) /\ DOMAIN <<c>> = {1} /\ <<c>>[1] = c
  OBVIOUS
<1> QED
  BY <1>1 DEF ToSet

\* One more member, at either end.
LEMMA AppendMembers ==
    ASSUME NEW T, NEW s \in Seq(T), NEW c \in T
    PROVE  ToSet(Append(s, c)) = ToSet(s) \cup {c}
<1>1. PICK one : one = <<c>> /\ one \in Seq(T) /\ ToSet(one) = {c}
  BY Single
<1>2. ToSet(s \o one) = ToSet(s) \cup ToSet(one)
  BY <1>1, ConcatMembers
<1>3. Append(s, c) = s \o one
  BY <1>1, AppendIsConcat
<1> QED
  BY <1>1, <1>2, <1>3

LEMMA PrependMembers ==
    ASSUME NEW T, NEW s \in Seq(T), NEW c \in T
    PROVE  <<c>> \o s \in Seq(T) /\ ToSet(<<c>> \o s) = {c} \cup ToSet(s)
<1>1. PICK one : one = <<c>> /\ one \in Seq(T) /\ ToSet(one) = {c}
  BY Single
<1>2. one \o s \in Seq(T) /\ ToSet(one \o s) = ToSet(one) \cup ToSet(s)
  BY <1>1, ConcatMembers
<1> QED
  BY <1>1, <1>2

LEMMA PartsAt ==
    ASSUME NEW cs, NEW S, NEW n \in DOMAIN cs
    PROVE  /\ Parts(cs, S)[n] = IF cs[n] \in S THEN <<cs[n]>> ELSE <<>>
           /\ ToSet(Parts(cs, S)[n]) = {cs[n]} \cap S
<1>1. Parts(cs, S)[n] = IF cs[n] \in S THEN <<cs[n]>> ELSE <<>>
  BY DEF Parts
<1>2. ToSet(<<>>) = {}
  BY DEF ToSet
<1>3. ToSet(<<cs[n]>>) = {cs[n]}
  BY Single
<1> QED
  BY <1>1, <1>2, <1>3

LEMMA PartsEach ==
    ASSUME NEW T, NEW cs \in Seq(T), NEW S
    PROVE  \A n \in 1..Len(cs) :
              /\ Parts(cs, S)[n] = IF cs[n] \in S THEN <<cs[n]>> ELSE <<>>
              /\ ToSet(Parts(cs, S)[n]) = {cs[n]} \cap S
<1> SUFFICES ASSUME NEW n \in 1..Len(cs)
             PROVE  /\ Parts(cs, S)[n] = IF cs[n] \in S THEN <<cs[n]>> ELSE <<>>
                    /\ ToSet(Parts(cs, S)[n]) = {cs[n]} \cap S
  OBVIOUS
<1>1. n \in DOMAIN cs
  BY Members
<1> QED
  BY <1>1, PartsAt

LEMMA PartsType ==
    ASSUME NEW T, NEW cs \in Seq(T), NEW S
    PROVE  Parts(cs, S) \in Seq(Seq(T)) /\ Len(Parts(cs, S)) = Len(cs)
<1>1. Len(cs) \in Nat /\ DOMAIN cs = 1..Len(cs) /\ \A n \in 1..Len(cs) : cs[n] \in T
  BY Members
<1>2. \A n \in 1..Len(cs) : Parts(cs, S)[n] \in Seq(T)
  <2>1. ASSUME NEW n \in 1..Len(cs) PROVE Parts(cs, S)[n] \in Seq(T)
    <3>1. Parts(cs, S)[n] = IF cs[n] \in S THEN <<cs[n]>> ELSE <<>>
      BY <1>1, PartsAt
    <3>2. <<>> \in Seq(T) /\ <<cs[n]>> \in Seq(T)
      BY <1>1, EmptySeq, Single
    <3> QED
      BY <3>1, <3>2
  <2> QED
    BY <2>1
<1>3. Parts(cs, S) \in [1..Len(cs) -> Seq(T)]
  BY <1>1, <1>2 DEF Parts
<1> QED
  BY <1>1, <1>3, SeqIntro

LEMMA OnlyMembers ==
    ASSUME NEW T, NEW cs \in Seq(T), NEW S
    PROVE  Only(cs, S) \in Seq(T) /\ ToSet(Only(cs, S)) = ToSet(cs) \cap S
<1>1. Only(cs, S) = FlattenSeq(Parts(cs, S))
  BY DEF Only, Parts
<1>2. /\ FlattenSeq(Parts(cs, S)) \in Seq(T)
      /\ ToSet(FlattenSeq(Parts(cs, S))) = UNION {ToSet(Parts(cs, S)[n]) : n \in 1..Len(cs)}
  BY PartsType, FlattenMembers
<1>3. UNION {ToSet(Parts(cs, S)[n]) : n \in 1..Len(cs)} = UNION {{cs[n]} \cap S : n \in 1..Len(cs)}
  <2>1. \A n \in 1..Len(cs) : ToSet(Parts(cs, S)[n]) = {cs[n]} \cap S
    BY PartsEach
  <2> QED
    BY <2>1, Zenon
<1>4. UNION {{cs[n]} \cap S : n \in 1..Len(cs)} = ToSet(cs) \cap S
  BY Members
<1> QED
  BY <1>1, <1>2, <1>3, <1>4

\* One more at the end, and a set that takes the same.
LEMMA OnlyAppend ==
    ASSUME NEW T, NEW cs \in Seq(T), NEW c \in T, NEW S
    PROVE  Only(Append(cs, c), S) = IF c \in S THEN Append(Only(cs, S), c) ELSE Only(cs, S)
<1> DEFINE part == IF c \in S THEN <<c>> ELSE <<>>
<1>1. /\ Append(cs, c) \in Seq(T) /\ Len(Append(cs, c)) = Len(cs) + 1
      /\ \A n \in 1..Len(cs) : Append(cs, c)[n] = cs[n]
      /\ Append(cs, c)[Len(cs) + 1] = c
      /\ Len(cs) \in Nat
  BY AppendProperties, Members
<1>2. part \in Seq(T)
  BY Single, EmptySeq
<1> HIDE DEF part
<1>3. Parts(Append(cs, c), S) = Append(Parts(cs, S), part)
  <2>1. /\ Parts(Append(cs, c), S) \in Seq(Seq(T))
        /\ Len(Parts(Append(cs, c), S)) = Len(cs) + 1
        /\ \A n \in 1..Len(cs) : Parts(Append(cs, c), S)[n] = Parts(cs, S)[n]
        /\ Parts(Append(cs, c), S)[Len(cs) + 1] = part
    <3>1. \A n \in 1..Len(cs) : n \in 1..(Len(cs) + 1)
      BY <1>1
    <3>2. Len(cs) + 1 \in 1..(Len(cs) + 1)
      BY <1>1
    <3> QED
      <4>1. /\ Parts(Append(cs, c), S) \in Seq(Seq(T))
            /\ Len(Parts(Append(cs, c), S)) = Len(Append(cs, c))
            /\ \A n \in 1..Len(Append(cs, c)) :
                  Parts(Append(cs, c), S)[n] =
                      IF Append(cs, c)[n] \in S THEN <<Append(cs, c)[n]>> ELSE <<>>
        <5>1. \A n \in 1..Len(Append(cs, c)) :
                  Parts(Append(cs, c), S)[n] =
                      IF Append(cs, c)[n] \in S THEN <<Append(cs, c)[n]>> ELSE <<>>
          <6>1. PICK ct \in Seq(T) : ct = Append(cs, c)
            BY <1>1
          <6>2. \A n \in 1..Len(ct) :
                    Parts(ct, S)[n] = IF ct[n] \in S THEN <<ct[n]>> ELSE <<>>
            BY PartsEach
          <6> QED
            BY <6>1, <6>2
        <5>2. /\ Parts(Append(cs, c), S) \in Seq(Seq(T))
              /\ Len(Parts(Append(cs, c), S)) = Len(Append(cs, c))
          BY <1>1, PartsType
        <5> QED
          BY <5>1, <5>2
      <4>2. \A n \in 1..Len(cs) : Parts(cs, S)[n] = IF cs[n] \in S THEN <<cs[n]>> ELSE <<>>
        BY PartsEach
      <4>3. \A n \in 1..Len(cs) : Parts(Append(cs, c), S)[n] = Parts(cs, S)[n]
        BY <1>1, <3>1, <4>1, <4>2
      <4>4. Parts(Append(cs, c), S)[Len(cs) + 1] = part
        BY <1>1, <3>2, <4>1 DEF part
      <4> QED
        BY <1>1, <4>1, <4>3, <4>4
  <2>2. Parts(cs, S) \in Seq(Seq(T)) /\ Len(Parts(cs, S)) = Len(cs)
    BY PartsType
  <2>3. /\ Append(Parts(cs, S), part) \in Seq(Seq(T))
        /\ Len(Append(Parts(cs, S), part)) = Len(cs) + 1
        /\ \A n \in 1..Len(cs) : Append(Parts(cs, S), part)[n] = Parts(cs, S)[n]
        /\ Append(Parts(cs, S), part)[Len(cs) + 1] = part
    <3> DEFINE pp == Parts(cs, S)
    <3>1. pp \in Seq(Seq(T)) /\ Len(pp) = Len(cs)
      BY <2>2
    <3> HIDE DEF pp
    <3>2. /\ Append(pp, part) \in Seq(Seq(T)) /\ Len(Append(pp, part)) = Len(pp) + 1
          /\ \A n \in 1..Len(pp) : Append(pp, part)[n] = pp[n]
          /\ Append(pp, part)[Len(pp) + 1] = part
      <4>1. PICK U : U = Seq(T)
        OBVIOUS
      <4>2. pp \in Seq(U) /\ part \in U
        BY <1>2, <3>1, <4>1
      <4> QED
        BY <4>1, <4>2, AppendProperties
    <3> QED
      BY <3>1, <3>2 DEF pp
  <2>4. \A n \in 1..(Len(cs) + 1) : n \in 1..Len(cs) \/ n = Len(cs) + 1
    BY <1>1
  <2> QED
    BY <2>1, <2>3, <2>4, SeqEqual
<1>4. Only(Append(cs, c), S) = Only(cs, S) \o part
  <2>1. /\ Only(Append(cs, c), S) = FlattenSeq(Parts(Append(cs, c), S))
        /\ Only(cs, S) = FlattenSeq(Parts(cs, S))
    BY DEF Only, Parts
  <2>2. Parts(cs, S) \in Seq(Seq(T))
    BY PartsType
  <2>3. FlattenSeq(Append(Parts(cs, S), part)) = FlattenSeq(Parts(cs, S)) \o part
    BY <1>2, <2>2, FlattenAppend
  <2> QED
    BY <1>3, <2>1, <2>3
<1>5. Only(cs, S) \in Seq(T)
  BY OnlyMembers
<1> QED
  BY <1>4, <1>5, AppendIsConcat, ConcatEmptySeq DEF part

LEMMA OnlySame ==
    ASSUME NEW T, NEW cs \in Seq(T), NEW S, NEW R,
           \A c \in ToSet(cs) : c \in S <=> c \in R
    PROVE  Only(cs, S) = Only(cs, R)
<1>1. \A n \in DOMAIN cs : cs[n] \in S <=> cs[n] \in R
  BY DEF ToSet
<1>2. Parts(cs, S) = Parts(cs, R)
  BY <1>1 DEF Parts
<1> QED
  BY <1>2 DEF Only, Parts

LEMMA OnlyEmpty == \A S : Only(<<>>, S) = <<>>
<1> SUFFICES ASSUME NEW S PROVE Only(<<>>, S) = <<>>
  OBVIOUS
<1>1. Parts(<<>>, S) \in Seq(Seq({})) /\ Len(Parts(<<>>, S)) = 0
  BY PartsType, EmptySeq
<1>2. Parts(<<>>, S) = <<>>
  BY <1>1, EmptySeq
<1> QED
  BY <1>1, <1>2 DEF Only, Parts, FlattenSeq

-----------------------------------------------------------------------------
(* A run decides on the candidates that the card amounts to.               *)

\* A copy of an inner APK lists what the APK does, and is itself when it is whole.
LEMMA KnownFacts ==
    /\ \A a \in Inners, state \in Opening :
          Copy(a, state) \in Known /\ What[Copy(a, state)].form # "tree"
    /\ \A a \in Inners : Copy(a, "whole") = a
    /\ \A c \in Known : \A e \in What[c].entries : e.content # Nothing
<1>1. \A a \in Inners, state \in Opening :
         /\ What[Copy(a, state)].form = What[a].form
         /\ What[Copy(a, state)].entries = What[a].entries
  BY CopyAssumption
<1>2. \A c \in Donors \cup Inners : \A e \in What[c].entries : e.content # Nothing
  BY DonorAssumption
<1>3. \A a \in Inners : Copy(a, "whole") = a
  BY CopyAssumption
<1> QED
  BY <1>1, <1>2, <1>3, InnerAssumption DEF Known

\* The donors that can be read, and the APKs inside the bundles.
LEMMA FoundMembers ==
    ASSUME NEW ds \in Seq(Donors)
    PROVE  Found(ds) \in Seq(Donors) /\ ToSet(Found(ds)) = {d \in ToSet(ds) : Readable(d)}
<1>1. /\ Found(ds) \in Seq(Donors)
      /\ ToSet(Found(ds)) = ToSet(ds) \cap {d \in ToSet(ds) : Readable(d)}
  BY OnlyMembers DEF Found
<1> QED
  BY <1>1

LEMMA InnersOfMembers ==
    ASSUME NEW cs \in Seq(Donors)
    PROVE  /\ InnersOf(cs) \in Seq(Inners)
           /\ ToSet(InnersOf(cs)) = UNION {ToSet(What[c].inner) : c \in {c \in ToSet(cs) : IsBundle(c)}}
<1> DEFINE ss == [n \in DOMAIN cs |-> IF IsBundle(cs[n]) THEN What[cs[n]].inner ELSE <<>>]
<1>1. /\ Len(cs) \in Nat /\ DOMAIN cs = 1..Len(cs) /\ \A n \in 1..Len(cs) : cs[n] \in Donors
      /\ ToSet(cs) = {cs[n] : n \in 1..Len(cs)}
  BY Members
<1>2. \A n \in 1..Len(cs) : ss[n] \in Seq(Inners)
  BY <1>1, DonorAssumption, EmptySeq
<1>3. ss \in Seq(Seq(Inners)) /\ Len(ss) = Len(cs)
  <2>1. ss \in [1..Len(cs) -> Seq(Inners)]
    BY <1>1, <1>2
  <2> HIDE DEF ss
  <2> QED
    BY <1>1, <2>1, SeqIntro
<1>4. \A n \in 1..Len(cs) : ss[n] = IF IsBundle(cs[n]) THEN What[cs[n]].inner ELSE <<>>
  BY <1>1
<1>5. InnersOf(cs) = FlattenSeq(ss)
  BY DEF InnersOf
<1> HIDE DEF ss
<1>6. InnersOf(cs) \in Seq(Inners) /\ ToSet(InnersOf(cs)) = UNION {ToSet(ss[n]) : n \in 1..Len(cs)}
  BY <1>3, <1>5, FlattenMembers
<1>7. ASSUME NEW a
      PROVE  (\E n \in 1..Len(cs) : a \in ToSet(ss[n])) <=>
             (\E c \in ToSet(cs) : IsBundle(c) /\ a \in ToSet(What[c].inner))
  <2>1. ToSet(<<>>) = {}
    BY DEF ToSet
  <2> QED
    BY <1>1, <1>4, <2>1, Zenon
<1> QED
  BY <1>6, <1>7

\* The copies of some inner APKs, and those of one more.
LEMMA CopiesMembers ==
    ASSUME NEW as \in Seq(Inners), NEW reads
    PROVE  /\ CopiesOf(as, reads) \in Seq(Known)
           /\ ToSet(CopiesOf(as, reads)) =
                  {Copy(a, reads[a]) : a \in {a \in ToSet(as) : Opens(a, reads[a])}}
<1> DEFINE S == {a \in Inners : Opens(a, reads[a])}
           open == Only(as, S)
<1>1. open \in Seq(Inners) /\ ToSet(open) = ToSet(as) \cap S
  BY OnlyMembers
<1>2. ToSet(as) \subseteq Inners
  BY Members
<1>3. CopiesOf(as, reads) = [n \in DOMAIN open |-> Copy(open[n], reads[open[n]])]
  BY DEF CopiesOf
<1> HIDE DEF open
<1>4. /\ Len(open) \in Nat /\ DOMAIN open = 1..Len(open)
      /\ ToSet(open) = {open[n] : n \in 1..Len(open)}
  BY <1>1, Members
<1>5. \A n \in 1..Len(open) : open[n] \in Inners /\ reads[open[n]] \in Opening
  BY <1>1, <1>4 DEF Opens
<1>6. \A n \in 1..Len(open) : Copy(open[n], reads[open[n]]) \in Known
  BY <1>5, KnownFacts
<1>7. CopiesOf(as, reads) \in Seq(Known) /\ Len(CopiesOf(as, reads)) = Len(open)
  BY <1>3, <1>4, <1>6, SeqIntro
<1>8. ToSet(CopiesOf(as, reads)) = {Copy(open[n], reads[open[n]]) : n \in 1..Len(open)}
  BY <1>3, <1>4 DEF ToSet
<1>9. {Copy(open[n], reads[open[n]]) : n \in 1..Len(open)} = {Copy(a, reads[a]) : a \in ToSet(open)}
  BY <1>4
<1>10. ToSet(open) = {a \in ToSet(as) : Opens(a, reads[a])}
  BY <1>1, <1>2
<1> QED
  BY <1>7, <1>8, <1>9, <1>10

LEMMA CopiesAppend ==
    ASSUME NEW as \in Seq(Inners), NEW a \in Inners, NEW reads
    PROVE  CopiesOf(Append(as, a), reads) =
               IF Opens(a, reads[a]) THEN Append(CopiesOf(as, reads), Copy(a, reads[a]))
               ELSE CopiesOf(as, reads)
<1> DEFINE S == {b \in Inners : Opens(b, reads[b])}
<1>1. Only(Append(as, a), S) = IF a \in S THEN Append(Only(as, S), a) ELSE Only(as, S)
  BY OnlyAppend
<1>2. PICK open : open = Only(as, S)
  OBVIOUS
<1>3. open \in Seq(Inners)
  BY <1>2, OnlyMembers
<1>4. CASE ~Opens(a, reads[a])
  BY <1>1, <1>4 DEF CopiesOf
<1>5. CASE Opens(a, reads[a])
  <2>1. /\ CopiesOf(as, reads) = [n \in DOMAIN open |-> Copy(open[n], reads[open[n]])]
        /\ CopiesOf(Append(as, a), reads) =
              [n \in DOMAIN Append(open, a) |-> Copy(Append(open, a)[n], reads[Append(open, a)[n]])]
    BY <1>1, <1>2, <1>5 DEF CopiesOf
  <2>2. /\ Len(open) \in Nat /\ DOMAIN open = 1..Len(open)
        /\ DOMAIN Append(open, a) = 1..(Len(open) + 1)
        /\ \A n \in 1..Len(open) : Append(open, a)[n] = open[n]
        /\ Append(open, a)[Len(open) + 1] = a
    BY <1>3, AppendProperties, LenProperties
  <2>3. CopiesOf(as, reads) \in Seq(Known) /\ Len(CopiesOf(as, reads)) = Len(open)
    <3>1. CopiesOf(as, reads) \in Seq(Known)
      BY CopiesMembers
    <3>2. DOMAIN CopiesOf(as, reads) = 1..Len(open)
      BY <2>1, <2>2
    <3>3. PICK q : q = CopiesOf(as, reads)
      OBVIOUS
    <3>4. q \in Seq(Known) /\ DOMAIN q = 1..Len(open)
      BY <3>1, <3>2, <3>3
    <3>5. Len(q) = Len(open)
      BY <2>2, <3>4, LenProperties
    <3> QED
      BY <3>3, <3>4, <3>5
  <2>4. Copy(a, reads[a]) \in Known
    BY <1>5, KnownFacts DEF Opens
  <2> DEFINE cs == CopiesOf(as, reads)
             c == Copy(a, reads[a])
             ct == CopiesOf(Append(as, a), reads)
  <2>5. /\ ct = [n \in 1..(Len(open) + 1) |-> IF n = Len(open) + 1 THEN c ELSE cs[n]]
    BY <2>1, <2>2
  <2> HIDE DEF cs, c, ct
  <2>6. /\ Append(cs, c) \in Seq(Known) /\ Len(Append(cs, c)) = Len(open) + 1
        /\ \A n \in 1..Len(open) : Append(cs, c)[n] = cs[n]
        /\ Append(cs, c)[Len(open) + 1] = c
    <3>1. cs \in Seq(Known) /\ Len(cs) = Len(open) /\ c \in Known
      BY <2>3, <2>4 DEF cs, c
    <3> QED
      BY <3>1, AppendProperties
  <2>7. ct \in Seq(Known) /\ Len(ct) = Len(open) + 1
    <3>1. \A n \in 1..Len(open) : cs[n] \in Known
      BY <2>3, Members DEF cs
    <3>2. ct \in [1..(Len(open) + 1) -> Known]
      BY <2>2, <2>4, <2>5, <3>1 DEF c
    <3> QED
      BY <2>2, <3>2, SeqIntro
  <2>8. \A n \in 1..(Len(open) + 1) : ct[n] = Append(cs, c)[n]
    BY <2>2, <2>5, <2>6
  <2>9. ct = Append(cs, c)
    BY <2>6, <2>7, <2>8, SeqEqual
  <2> QED
    BY <1>5, <2>9 DEF ct, cs, c
<1> QED
  BY <1>4, <1>5

\* Copies that read the same.
LEMMA CopiesSame ==
    ASSUME NEW as \in Seq(Inners), NEW reads, NEW others,
           \A a \in ToSet(as) : reads[a] = others[a]
    PROVE  CopiesOf(as, reads) = CopiesOf(as, others)
<1> DEFINE S(r) == {a \in Inners : Opens(a, r[a])}
<1>1. \A a \in ToSet(as) : a \in S(reads) <=> a \in S(others)
  OBVIOUS
<1> HIDE DEF S
<1>2. Only(as, S(reads)) = Only(as, S(others))
  BY <1>1, OnlySame
<1>3. PICK open : open = Only(as, S(reads))
  OBVIOUS
<1>4. open \in Seq(Inners) /\ ToSet(open) \subseteq ToSet(as)
  BY <1>3, OnlyMembers
<1>5. \A n \in DOMAIN open : open[n] \in ToSet(open)
  BY DEF ToSet
<1>6. [n \in DOMAIN open |-> Copy(open[n], reads[open[n]])] =
      [n \in DOMAIN open |-> Copy(open[n], others[open[n]])]
  BY <1>4, <1>5
<1> QED
  BY <1>2, <1>3, <1>6 DEF CopiesOf, S

LEMMA CandidatesMembers ==
    ASSUME NEW ds \in Seq(Donors)
    PROVE  /\ Candidates(ds) \in Seq(Known)
           /\ ToSet(Candidates(ds)) =
                  {d \in ToSet(ds) : Readable(d)}
                    \cup {Copy(a, cache[a]) :
                             a \in {a \in ToSet(InnersOf(Found(ds))) : Opens(a, cache[a])}}
<1>1. Found(ds) \in Seq(Donors) /\ ToSet(Found(ds)) = {d \in ToSet(ds) : Readable(d)}
  BY FoundMembers
<1>2. InnersOf(Found(ds)) \in Seq(Inners)
  BY <1>1, InnersOfMembers
<1> DEFINE copies == CopiesOf(InnersOf(Found(ds)), cache)
<1>3. /\ copies \in Seq(Known)
      /\ ToSet(copies) = {Copy(a, cache[a]) :
                            a \in {a \in ToSet(InnersOf(Found(ds))) : Opens(a, cache[a])}}
  BY <1>2, CopiesMembers
<1>4. Found(ds) \in Seq(Known)
  BY <1>1, SeqMonotonic DEF Known
<1>5. Candidates(ds) = Found(ds) \o copies
  BY DEF Candidates, CandidatesAs
<1> HIDE DEF copies
<1>6. /\ Candidates(ds) \in Seq(Known)
      /\ ToSet(Candidates(ds)) = ToSet(Found(ds)) \cup ToSet(copies)
  BY <1>3, <1>4, <1>5, ConcatMembers
<1> QED
  BY <1>1, <1>3, <1>6

\* What a decision says.
LEMMA DecideType ==
    ASSUME NEW cs
    PROVE  /\ Decide(cs).why \in {"crashed", "no package", "no match", "versions", "plan"}
           /\ Decide(cs).why # "plan" => Decide(cs).items = {}
BY DEF Decide, Judge, Refused, FirstOf

\* What the copies read as once they are unpacked.
Settled == [a \in Inners |-> IF cache[a] = "none" THEN "whole" ELSE cache[a]]

\* The part of the inner APKs that has been unpacked.
Unpacked(done) ==
    /\ done \in Seq(Inners)
    /\ done \o todo = InnersOf(Found(listing))
    /\ seen = Found(listing) \o CopiesOf(done, Settled)
    /\ \A a \in ToSet(done) : cache[a] # "none"

Gathering == pc = "expanding" => verdict = Undecided /\ \E done : Unpacked(done)
Empty == verdict.why # "plan" => verdict.items = {}

Resolving == TypeOK /\ Gathering /\ Empty /\ DecidedByCard

LEMMA ResolvingInit == Init => Resolving
<1> SUFFICES ASSUME Init PROVE Resolving
  OBVIOUS
<1>1. PICK n \in 0..MaxDonors : listing \in [1..n -> Donors]
  BY DEF Init, Cards
<1>2. n \in Nat
  BY BoundAssumption
<1>3. listing \in Seq(Donors)
  BY <1>1, <1>2, SeqIntro
<1>4. todo \in Seq(Inners) /\ seen \in Seq(Known)
  BY EmptySeq DEF Init
<1>5. verdict.why = "none" /\ verdict.items = {}
  BY DEF Init, Undecided, Refused
<1>6. cache \in [Inners -> States] /\ fresh = {} /\ pc = "off"
  BY DEF Init, States
<1>7. TypeOK
  BY <1>3, <1>4, <1>5, <1>6 DEF TypeOK
<1>8. Gathering /\ Empty /\ DecidedByCard
  BY <1>5, <1>6 DEF Gathering, Empty, DecidedByCard, Decided
<1> QED
  BY <1>7, <1>8 DEF Resolving

\* A run that ends undecided.
LEMMA EndsUndecided ==
    ASSUME NEW why \in {"none", "failed"}, End(Refused(why))
    PROVE  /\ pc' = "off" /\ todo' \in Seq(Inners) /\ seen' \in Seq(Known)
           /\ verdict'.why = why
           /\ Gathering' /\ Empty' /\ DecidedByCard'
<1>1. /\ pc' = "off" /\ todo' = <<>> /\ seen' = <<>>
      /\ verdict'.why = why /\ verdict'.items = {}
  BY DEF End, Refused
<1> QED
  BY <1>1, EmptySeq DEF Gathering, Empty, DecidedByCard, Decided

LEMMA HeadThenTail ==
    ASSUME NEW T, NEW s \in Seq(T), s # <<>>, NEW d \in Seq(T)
    PROVE  /\ Head(s) \in T /\ Tail(s) \in Seq(T)
           /\ Append(d, Head(s)) \o Tail(s) = d \o s
<1>1. /\ Head(s) \in T /\ Tail(s) \in Seq(T) /\ Len(Tail(s)) = Len(s) - 1
      /\ \A i \in 1..Len(Tail(s)) : Tail(s)[i] = s[i + 1]
      /\ Len(s) \in Nat \ {0} /\ Head(s) = s[1]
  <2>1. /\ Head(s) \in T /\ Tail(s) \in Seq(T) /\ Len(Tail(s)) = Len(s) - 1
        /\ \A i \in 1..Len(Tail(s)) : Tail(s)[i] = s[i + 1]
    BY HeadTailProperties
  <2>2. Len(s) \in Nat \ {0}
    BY EmptySeq
  <2>3. Head(s) = s[1]
    OBVIOUS
  <2> QED
    BY <2>1, <2>2, <2>3
<1> DEFINE h == Head(s)
           u == Tail(s)
           e == Append(d, h)
<1> HIDE DEF h, u
<1>2. /\ e \in Seq(T) /\ Len(e) = Len(d) + 1 /\ Len(d) \in Nat
      /\ \A i \in 1..Len(d) : e[i] = d[i]
      /\ e[Len(d) + 1] = s[1]
  BY <1>1, AppendProperties, LenProperties DEF h
<1> HIDE DEF e
<1>3. /\ e \o u \in Seq(T) /\ Len(e \o u) = Len(d) + Len(s)
      /\ \A i \in 1..(Len(d) + Len(s)) :
            (e \o u)[i] = IF i <= Len(d) + 1 THEN e[i] ELSE u[i - (Len(d) + 1)]
  <2>1. u \in Seq(T) /\ Len(u) = Len(s) - 1
    BY <1>1 DEF u
  <2>2. Len(e) + Len(u) = Len(d) + Len(s)
    BY <1>1, <1>2, <2>1
  <2>3. /\ e \o u \in Seq(T) /\ Len(e \o u) = Len(e) + Len(u)
        /\ \A i \in 1..(Len(e) + Len(u)) :
              (e \o u)[i] = IF i <= Len(e) THEN e[i] ELSE u[i - Len(e)]
    BY <1>2, <2>1, ConcatProperties
  <2> QED
    BY <1>2, <2>2, <2>3
<1>4. /\ d \o s \in Seq(T) /\ Len(d \o s) = Len(d) + Len(s)
      /\ \A i \in 1..(Len(d) + Len(s)) :
            (d \o s)[i] = IF i <= Len(d) THEN d[i] ELSE s[i - Len(d)]
  BY ConcatProperties
<1>5. ASSUME NEW i \in 1..(Len(d) + Len(s))
      PROVE  (e \o u)[i] = (d \o s)[i]
  <2>1. CASE i <= Len(d)
    <3>1. i <= Len(d) + 1 /\ i \in 1..Len(d)
      BY <1>2, <2>1
    <3> QED
      BY <1>2, <1>3, <1>4, <2>1, <3>1
  <2>2. CASE i = Len(d) + 1
    <3>1. ~(i <= Len(d)) /\ i <= Len(d) + 1 /\ i - Len(d) = 1
      BY <1>2, <2>2
    <3> QED
      BY <1>2, <1>3, <1>4, <2>2, <3>1
  <2>3. CASE i > Len(d) + 1
    <3>1. /\ ~(i <= Len(d)) /\ ~(i <= Len(d) + 1)
          /\ i - (Len(d) + 1) \in 1..Len(u)
          /\ (i - (Len(d) + 1)) + 1 = i - Len(d)
      BY <1>1, <1>2, <2>3 DEF u
    <3>2. u[i - (Len(d) + 1)] = s[i - Len(d)]
      BY <1>1, <3>1 DEF u
    <3> QED
      BY <1>3, <1>4, <3>1, <3>2
  <2>4. i <= Len(d) \/ i = Len(d) + 1 \/ i > Len(d) + 1
    <3>1. \A n \in Nat : \A m \in Int : m <= n \/ m = n + 1 \/ m > n + 1
      OBVIOUS
    <3>2. i \in Int /\ Len(d) \in Nat
      BY <1>1, <1>2
    <3> QED
      BY <3>1, <3>2
  <2> QED
    BY <2>1, <2>2, <2>3, <2>4
<1>6. e \o u = d \o s
  BY <1>3, <1>4, <1>5, SeqEqual
<1> QED
  BY <1>1, <1>6 DEF e, h, u

\* Nothing that a decision or the gathering depends on changes.
LEMMA SameCard ==
    ASSUME UNCHANGED <<listing, cache>>
    PROVE  Settled' = Settled /\ Candidates(listing)' = Candidates(listing)
BY DEF Settled, Candidates

\* One inner APK more.
LEMMA UnpackStep ==
    ASSUME TypeOK, Gathering, Unpack
    PROVE  TypeOK' /\ Gathering'
<1> DEFINE a == Head(todo)
<1>1. PICK done : verdict = Undecided /\ Unpacked(done)
  BY DEF Gathering, Unpack
<1>2. /\ todo \in Seq(Inners) /\ done \in Seq(Inners) /\ a \in Inners /\ Tail(todo) \in Seq(Inners)
      /\ Append(done, a) \o Tail(todo) = done \o todo
  <2>1. todo \in Seq(Inners) /\ todo # <<>> /\ done \in Seq(Inners)
    BY <1>1 DEF TypeOK, Unpack, Unpacked
  <2> QED
    BY <2>1, HeadThenTail
<1> HIDE DEF a
<1>3. /\ cache' = IF Reused(cache[a]) THEN cache ELSE [cache EXCEPT ![a] = "whole"]
      /\ fresh' = IF Reused(cache[a]) THEN fresh ELSE fresh \cup {a}
      /\ seen' = IF Opens(a, cache'[a]) THEN Append(seen, Copy(a, cache'[a])) ELSE seen
      /\ todo' = Tail(todo) /\ pc = "expanding"
      /\ UNCHANGED <<listing, pc, verdict, cuts>>
  BY DEF Unpack, a
<1>4. /\ cache \in [Inners -> States] /\ cache' \in [Inners -> States]
      /\ cache'[a] # "none" /\ cache'[a] = Settled[a]
      /\ \A b \in Inners : b # a => cache'[b] = cache[b]
  BY <1>2, <1>3 DEF TypeOK, Reused, Settled, States, Opening
<1>5. Settled' = Settled
  <2>1. \A b \in Inners :
          (IF cache'[b] = "none" THEN "whole" ELSE cache'[b]) =
          (IF cache[b] = "none" THEN "whole" ELSE cache[b])
    BY <1>2, <1>4 DEF Settled
  <2> QED
    BY <2>1 DEF Settled
<1>6. listing \in Seq(Donors) /\ seen \in Seq(Known)
  BY DEF TypeOK
<1>7. Found(listing) \in Seq(Known) /\ CopiesOf(done, Settled) \in Seq(Known)
  <2>1. Found(listing) \in Seq(Donors)
    BY <1>6, FoundMembers
  <2> QED
    BY <1>2, <2>1, SeqMonotonic, CopiesMembers DEF Known
<1>8. Opens(a, Settled[a]) => Copy(a, Settled[a]) \in Known
  BY <1>2, KnownFacts DEF Opens
<1>9. seen' = Found(listing) \o CopiesOf(Append(done, a), Settled)
  <2>1. seen = Found(listing) \o CopiesOf(done, Settled)
    BY <1>1 DEF Unpacked
  <2> DEFINE c == Copy(a, Settled[a])
             f == Found(listing)
             o == CopiesOf(done, Settled)
  <2>2. CopiesOf(Append(done, a), Settled) = IF Opens(a, Settled[a]) THEN Append(o, c) ELSE o
    BY <1>2, CopiesAppend
  <2>3. CASE Opens(a, Settled[a])
    <3>1. /\ f \in Seq(Known) /\ o \in Seq(Known) /\ c \in Known
          /\ <<c>> \in Seq(Known) /\ f \o o \in Seq(Known)
      BY <1>7, <1>8, <2>3, Single, ConcatProperties
    <3> HIDE DEF f, o, c
    <3>2. Append(f \o o, c) = f \o Append(o, c)
      <4>1. Append(f \o o, c) = (f \o o) \o <<c>>
        BY <3>1, AppendIsConcat
      <4>2. Append(o, c) = o \o <<c>>
        BY <3>1, AppendIsConcat
      <4>3. (f \o o) \o <<c>> = f \o (o \o <<c>>)
        BY <3>1, ConcatAssociative
      <4> QED
        BY <4>1, <4>2, <4>3
    <3>3. seen = f \o o /\ seen' = Append(seen, c)
      BY <1>3, <1>4, <2>1, <2>3 DEF f, o, c
    <3>4. CopiesOf(Append(done, a), Settled) = Append(o, c)
      BY <2>2, <2>3
    <3> QED
      BY <3>2, <3>3, <3>4 DEF f
  <2>4. CASE ~Opens(a, Settled[a])
    BY <1>3, <1>4, <2>1, <2>2, <2>4
  <2> QED
    BY <2>3, <2>4
<1>10. \A b \in ToSet(Append(done, a)) : cache'[b] # "none"
  <2>1. ToSet(Append(done, a)) = ToSet(done) \cup {a} /\ ToSet(done) \subseteq Inners
    <3>1. ToSet(Append(done, a)) = ToSet(done) \cup {a}
      <4>1. done \in Seq(Inners) /\ a \in Inners
        BY <1>2
      <4> QED
        BY <4>1, AppendMembers
    <3>2. ToSet(done) \subseteq Inners
      BY <1>2, Members
    <3> QED
      BY <3>1, <3>2
  <2> QED
    BY <1>1, <1>4, <2>1 DEF Unpacked
<1>11. Found(listing)' = Found(listing) /\ InnersOf(Found(listing))' = InnersOf(Found(listing))
  BY <1>3 DEF Found
<1>12. PICK d \in Seq(Inners) : d = Append(done, a)
  BY <1>2, AppendProperties
<1>13. d \o todo' = InnersOf(Found(listing))
  BY <1>1, <1>2, <1>3, <1>12 DEF Unpacked
<1>14. Unpacked(d)'
  BY <1>5, <1>9, <1>10, <1>11, <1>12, <1>13 DEF Unpacked
<1>15. Gathering'
  BY <1>1, <1>3, <1>14 DEF Gathering, Undecided, Refused
<1>16. seen' \in Seq(Known)
  BY <1>3, <1>4, <1>6, <1>8, AppendProperties DEF Known
<1> QED
  BY <1>2, <1>3, <1>4, <1>15, <1>16 DEF TypeOK

LEMMA ResolvingStep == Resolving /\ [Next]_vars => Resolving'
<1> SUFFICES ASSUME Resolving, [Next]_vars PROVE Resolving'
  OBVIOUS
<1> USE DEF Resolving
<1>1. CASE Discover
  <2>1. CASE End(Refused("failed"))
    <3>1. UNCHANGED <<listing, cache, fresh, cuts>>
      BY <1>1 DEF Discover
    <3> QED
      BY <2>1, <3>1, EndsUndecided DEF TypeOK
  <2>2. CASE ~End(Refused("failed"))
    <3>1. /\ pc' = "expanding" /\ seen' = Found(listing) /\ todo' = InnersOf(Found(listing))
          /\ verdict' = Undecided /\ UNCHANGED <<listing, cache, fresh, cuts>>
      BY <1>1, <2>2 DEF Discover
    <3>2. Found(listing) \in Seq(Donors) /\ InnersOf(Found(listing)) \in Seq(Inners)
      BY FoundMembers, InnersOfMembers DEF TypeOK
    <3>3. Found(listing) \in Seq(Known)
      BY <3>2, SeqMonotonic DEF Known
    <3>4. Found(listing)' = Found(listing) /\ InnersOf(Found(listing))' = InnersOf(Found(listing))
      BY <3>1 DEF Found
    <3>5. /\ <<>> \in Seq(Inners) /\ ToSet(<<>>) = {}
          /\ <<>> \o todo' = InnersOf(Found(listing))
          /\ Found(listing) \o <<>> = Found(listing)
      BY <3>1, <3>2, EmptySeq, ConcatEmptySeq DEF ToSet
    <3>6. CopiesOf(<<>>, Settled') = <<>>
      <4>1. \A reads : CopiesOf(<<>>, reads) = <<>>
        BY OnlyEmpty DEF CopiesOf
      <4> QED
        BY <4>1
    <3>7. Unpacked(<<>>)'
      BY <3>1, <3>4, <3>5, <3>6 DEF Unpacked
    <3>8. verdict'.why = "none" /\ verdict'.items = {}
      BY <3>1 DEF Undecided, Refused
    <3>9. Gathering' /\ Empty' /\ DecidedByCard'
      BY <3>1, <3>7, <3>8 DEF Gathering, Empty, DecidedByCard, Decided, Undecided, Refused
    <3> QED
      BY <3>1, <3>2, <3>3, <3>8, <3>9 DEF TypeOK
  <2> QED
    BY <2>1, <2>2
<1>2. CASE Unpack
  <2>1. verdict' = verdict /\ verdict.why = "none"
    BY <1>2 DEF Unpack, Gathering, Undecided, Refused
  <2> QED
    BY <1>2, <2>1, UnpackStep DEF Empty, DecidedByCard, Decided
<1>3. CASE UnpackFails
  <2>1. End(Refused("failed")) /\ UNCHANGED <<listing, cache, fresh, cuts>>
    BY <1>3 DEF UnpackFails
  <2> QED
    BY <2>1, EndsUndecided DEF TypeOK
<1>4. CASE Resolve
  <2>1. /\ pc = "expanding" /\ todo = <<>> /\ UNCHANGED <<listing, cache, cuts>>
        /\ pc' = "off" /\ todo' = <<>> /\ seen' = <<>> /\ verdict' = Decide(seen)
        /\ fresh' \subseteq fresh
    BY <1>4 DEF Resolve, End
  <2>2. PICK done : Unpacked(done)
    BY <2>1 DEF Gathering
  <2>3. done \in Seq(Inners) /\ done = InnersOf(Found(listing))
    BY <2>1, <2>2, ConcatEmptySeq DEF Unpacked
  <2>4. \A a \in ToSet(done) : a \in Inners /\ Settled[a] = cache[a] /\ cache[a] # "none"
    BY <2>2, <2>3, Members DEF Unpacked, Settled
  <2>5. seen = Candidates(listing)
    <3>1. CopiesOf(done, Settled) = CopiesOf(done, cache)
      BY <2>3, <2>4, CopiesSame
    <3> QED
      BY <2>2, <2>3, <3>1 DEF Unpacked, Candidates, CandidatesAs
  <2>6. verdict' = Decide(Candidates(listing)')
    BY <2>1, <2>5, SameCard
  <2>7. ASSUME \A a \in ToSet(done) : cache[a] \in {"none", "whole"}
        PROVE  Candidates(listing) = CandidatesAs(listing, Pristine)
    <3>1. \A a \in ToSet(done) : cache[a] = Pristine[a]
      BY <2>4, <2>7 DEF Pristine
    <3>2. CopiesOf(done, cache) = CopiesOf(done, Pristine)
      BY <2>3, <3>1, CopiesSame
    <3> QED
      BY <2>3, <3>2 DEF Candidates, CandidatesAs
  <2>9. DecidedByCard' /\ Gathering'
    <3>1. (\A a \in ToSet(InnersOf(Found(listing))) : cache[a] \in {"none", "whole"})
             => verdict' = Decide(CandidatesAs(listing, Pristine))
      BY <2>1, <2>3, <2>5, <2>7
    <3>2. UNCHANGED <<Found(listing), InnersOf(Found(listing)), CandidatesAs(listing, Pristine)>>
      BY <2>1
    <3> QED
      BY <2>1, <2>6, <3>1, <3>2 DEF DecidedByCard, Gathering
  <2>8. /\ Empty'
        /\ verdict'.why \in {"none", "failed", "crashed", "no package", "no match", "versions", "plan"}
    BY <2>1, DecideType DEF Empty
  <2> QED
    BY <2>1, <2>8, <2>9, EmptySeq DEF TypeOK
<1>5. CASE Kill
  <2>1. End(Refused("none")) /\ UNCHANGED <<listing, cache, fresh>>
    BY <1>5 DEF Kill, Undecided
  <2> QED
    BY <2>1, EndsUndecided DEF TypeOK
<1>6. CASE PowerCut
  <2>1. End(Refused("none")) /\ fresh' = {} /\ listing' = listing
    BY <1>6 DEF PowerCut, Undecided
  <2>2. cache' \in [Inners -> States]
    <3>1. fresh \subseteq Inners /\ cache \in [Inners -> States]
      BY DEF TypeOK
    <3>2. PICK found \in [fresh -> Opening \cup {"lost"}] :
             cache' = [a \in Inners |-> IF a \in fresh THEN found[a] ELSE cache[a]]
      BY <1>6 DEF PowerCut
    <3> QED
      BY <3>1, <3>2 DEF States
  <2> QED
    BY <2>1, <2>2, EndsUndecided DEF TypeOK
<1>7. CASE Take
  <2>1. /\ pc = "off" /\ verdict' = Undecided /\ UNCHANGED <<cache, fresh, pc, todo, seen, cuts>>
    BY <1>7 DEF Take
  <2>2. PICK n \in DOMAIN listing : listing' = RemoveAt(listing, n)
    BY <1>7 DEF Take
  <2>3. listing \in Seq(Donors)
    BY DEF TypeOK
  <2>4. listing' \in Seq(Donors)
    <3>1. Len(listing) \in Nat /\ n \in 1..Len(listing) /\ \A i \in 1..Len(listing) : listing[i] \in Donors
      BY <2>3, Members
    <3>2. SubSeq(listing, 1, n - 1) \in Seq(Donors) /\ SubSeq(listing, n + 1, Len(listing)) \in Seq(Donors)
      BY <3>1, SubSeqProperties
    <3> QED
      BY <2>2, <3>2, ConcatProperties DEF RemoveAt
  <2>5. verdict'.why = "none" /\ verdict'.items = {}
    BY <2>1 DEF Undecided, Refused
  <2>6. Gathering' /\ Empty' /\ DecidedByCard'
    BY <2>1, <2>5 DEF Gathering, Empty, DecidedByCard, Decided
  <2> QED
    BY <2>1, <2>4, <2>5, <2>6 DEF TypeOK
<1>8. CASE UNCHANGED vars
  <2>1. Gathering' /\ Empty' /\ DecidedByCard' /\ TypeOK'
    BY <1>8, SameCard DEF vars, Gathering, Empty, DecidedByCard, Decided, Unpacked, Found, TypeOK
  <2> QED
    BY <2>1
<1> QED
  BY <1>1, <1>2, <1>3, <1>4, <1>5, <1>6, <1>7, <1>8 DEF Next

\* The importer's variables keep their types.
THEOREM ResolveTyped == Spec => []TypeOK
<1>1. Resolving => TypeOK
  BY DEF Resolving
<1> QED
  BY ResolvingInit, ResolvingStep, <1>1, PTL DEF Spec

\* Whatever earlier runs and kills left in the cache, a decision is the one that the donors
\* on the card lead to; a power cut changes it through what the torn copies of these
\* donors' APKs read as, and through nothing else (expand_bundles reuses copies by size).
THEOREM CardDecides == Spec => []DecidedByCard
<1>1. Resolving => DecidedByCard
  BY DEF Resolving
<1> QED
  BY ResolvingInit, ResolvingStep, <1>1, PTL DEF Spec

-----------------------------------------------------------------------------
(* Groups, as sets.                                                        *)

\* The candidates of each group, whatever order they are listed in.
Teams(S) ==
    IF {c \in S : IsApk(c)} # {}
      THEN {{c \in S : IsApk(c) => Key(c) = key} : key \in {Key(c) : c \in {c \in S : IsApk(c)}}}
    ELSE IF {c \in S : IsContainer(c)} # {}
      THEN {{c} \cup {d \in S : ~IsContainer(d)} : c \in {c \in S : IsContainer(c)}}
    ELSE {S}

LEMMA GroupOfKey ==
    ASSUME NEW cs \in Seq(Known), NEW key
    PROVE  LET g == Only(cs, {c \in Apks(cs) : Key(c) = key}) \o Only(cs, ToSet(cs) \ Apks(cs))
           IN  g \in Seq(Known) /\ ToSet(g) = {c \in ToSet(cs) : IsApk(c) => Key(c) = key}
<1> DEFINE s == Only(cs, {c \in Apks(cs) : Key(c) = key})
           t == Only(cs, ToSet(cs) \ Apks(cs))
<1>1. /\ s \in Seq(Known) /\ ToSet(s) = ToSet(cs) \cap {c \in Apks(cs) : Key(c) = key}
      /\ t \in Seq(Known) /\ ToSet(t) = ToSet(cs) \cap (ToSet(cs) \ Apks(cs))
  BY OnlyMembers
<1> HIDE DEF s, t
<1>2. s \o t \in Seq(Known) /\ ToSet(s \o t) = ToSet(s) \cup ToSet(t)
  BY <1>1, ConcatMembers
<1>3. ToSet(s) \cup ToSet(t) = {c \in ToSet(cs) : IsApk(c) => Key(c) = key}
  BY <1>1 DEF Apks
<1> QED
  BY <1>2, <1>3 DEF s, t

LEMMA GroupOfContainer ==
    ASSUME NEW cs \in Seq(Known), NEW c \in Containers(cs)
    PROVE  LET g == <<c>> \o Only(cs, ToSet(cs) \ Containers(cs))
           IN  g \in Seq(Known) /\ ToSet(g) = {c} \cup {d \in ToSet(cs) : ~IsContainer(d)}
<1> DEFINE t == Only(cs, ToSet(cs) \ Containers(cs))
<1>1. t \in Seq(Known) /\ ToSet(t) = ToSet(cs) \cap (ToSet(cs) \ Containers(cs))
  BY OnlyMembers
<1> HIDE DEF t
<1>2. c \in Known
  BY Members DEF Containers
<1>3. <<c>> \o t \in Seq(Known) /\ ToSet(<<c>> \o t) = {c} \cup ToSet(t)
  BY <1>1, <1>2, PrependMembers
<1>4. ToSet(t) = {d \in ToSet(cs) : ~IsContainer(d)}
  BY <1>1 DEF Containers
<1> QED
  BY <1>3, <1>4 DEF t

\* A group is a sequence of candidates, and they are one of the teams.
LEMMA GroupMembers ==
    ASSUME NEW cs \in Seq(Known), NEW g \in Groups(cs)
    PROVE  g \in Seq(Known) /\ ToSet(g) \in Teams(ToSet(cs))
<1>0. Apks(cs) = {c \in ToSet(cs) : IsApk(c)} /\ Containers(cs) = {c \in ToSet(cs) : IsContainer(c)}
  BY DEF Apks, Containers
<1>1. CASE Apks(cs) # {}
  <2>1. PICK key \in {Key(c) : c \in Apks(cs)} :
            g = Only(cs, {c \in Apks(cs) : Key(c) = key}) \o Only(cs, ToSet(cs) \ Apks(cs))
    BY <1>1 DEF Groups
  <2>2. g \in Seq(Known) /\ ToSet(g) = {c \in ToSet(cs) : IsApk(c) => Key(c) = key}
    BY <2>1, GroupOfKey
  <2> QED
    BY <1>0, <1>1, <2>1, <2>2 DEF Teams
<1>2. CASE Apks(cs) = {} /\ Containers(cs) # {}
  <2>1. PICK c \in Containers(cs) : g = <<c>> \o Only(cs, ToSet(cs) \ Containers(cs))
    BY <1>2 DEF Groups
  <2>2. g \in Seq(Known) /\ ToSet(g) = {c} \cup {d \in ToSet(cs) : ~IsContainer(d)}
    BY <2>1, GroupOfContainer
  <2> QED
    BY <1>0, <1>2, <2>1, <2>2 DEF Teams
<1>3. CASE Apks(cs) = {} /\ Containers(cs) = {}
  BY <1>0, <1>3 DEF Groups, Teams
<1> QED
  BY <1>1, <1>2, <1>3

LEMMA TeamHasGroup ==
    ASSUME NEW cs \in Seq(Known), NEW team \in Teams(ToSet(cs))
    PROVE  \E g \in Groups(cs) : ToSet(g) = team
<1>0. Apks(cs) = {c \in ToSet(cs) : IsApk(c)} /\ Containers(cs) = {c \in ToSet(cs) : IsContainer(c)}
  BY DEF Apks, Containers
<1>1. CASE Apks(cs) # {}
  <2>1. PICK key \in {Key(c) : c \in Apks(cs)} : team = {c \in ToSet(cs) : IsApk(c) => Key(c) = key}
    BY <1>0, <1>1 DEF Teams
  <2>2. PICK g : g = Only(cs, {c \in Apks(cs) : Key(c) = key}) \o Only(cs, ToSet(cs) \ Apks(cs))
    OBVIOUS
  <2>3. ToSet(g) = team
    BY <2>1, <2>2, GroupOfKey
  <2>4. g \in Groups(cs)
    BY <1>1, <2>1, <2>2 DEF Groups
  <2> QED
    BY <2>3, <2>4
<1>2. CASE Apks(cs) = {} /\ Containers(cs) # {}
  <2>1. PICK c \in Containers(cs) : team = {c} \cup {d \in ToSet(cs) : ~IsContainer(d)}
    BY <1>0, <1>2 DEF Teams
  <2>2. PICK g : g = <<c>> \o Only(cs, ToSet(cs) \ Containers(cs))
    OBVIOUS
  <2>3. ToSet(g) = team
    BY <2>1, <2>2, GroupOfContainer
  <2>4. g \in Groups(cs)
    BY <1>2, <2>1, <2>2 DEF Groups
  <2> QED
    BY <2>3, <2>4
<1>3. CASE Apks(cs) = {} /\ Containers(cs) = {}
  BY <1>0, <1>3 DEF Groups, Teams
<1> QED
  BY <1>1, <1>2, <1>3

\* A team is part of the card, is not empty, and all its APKs are one game.
LEMMA TeamMembers ==
    ASSUME NEW S, S # {}, NEW team \in Teams(S)
    PROVE  /\ team \subseteq S /\ team # {}
           /\ \E key : \A c \in team : IsApk(c) => Key(c) = key
<1>1. CASE {c \in S : IsApk(c)} # {}
  <2>1. PICK a \in {c \in S : IsApk(c)} : team = {c \in S : IsApk(c) => Key(c) = Key(a)}
    BY <1>1 DEF Teams
  <2> QED
    BY <2>1
<1>2. CASE {c \in S : IsApk(c)} = {} /\ {c \in S : IsContainer(c)} # {}
  <2>1. PICK c \in {c \in S : IsContainer(c)} : team = {c} \cup {d \in S : ~IsContainer(d)}
    BY <1>2 DEF Teams
  <2> QED
    BY <1>2, <2>1
<1>3. CASE {c \in S : IsApk(c)} = {} /\ {c \in S : IsContainer(c)} = {}
  <2>1. team = S
    BY <1>3 DEF Teams
  <2> QED
    BY <1>3, <2>1
<1> QED
  BY <1>1, <1>2, <1>3

-----------------------------------------------------------------------------
(* What the rules take.                                                    *)

\* An item is an entry of one of the candidates, published as the rule says.
LEMMA HitsAre ==
    ASSUME NEW k, NEW cs, NEW p, NEW abi, NEW i
    PROVE  i \in Hits(k, cs, p, abi) <=>
               \E c \in cs : \E e \in What[c].entries :
                  /\ i = Item(k, c, e)
                  /\ IsContainer(c) /\ e.place \in Matching[p]
                  /\ Rules[k].kind = "entry" => e.file = Rules[k].to[abi]
<1>1. ASSUME i \in Hits(k, cs, p, abi)
      PROVE  \E c \in cs : \E e \in What[c].entries :
                /\ i = Item(k, c, e)
                /\ IsContainer(c) /\ e.place \in Matching[p]
                /\ Rules[k].kind = "entry" => e.file = Rules[k].to[abi]
  <2>1. PICK h \in UNION {{c} \X What[c].entries : c \in cs} :
            /\ i = Item(k, h[1], h[2])
            /\ IsContainer(h[1]) /\ h[2].place \in Matching[p]
            /\ Rules[k].kind = "entry" => h[2].file = Rules[k].to[abi]
    BY <1>1 DEF Hits
  <2>2. PICK c \in cs : h \in {c} \X What[c].entries
    OBVIOUS
  <2>3. h[1] = c /\ h[2] \in What[c].entries
    BY <2>2
  <2> QED
    BY <2>1, <2>3
<1>2. ASSUME NEW c \in cs, NEW e \in What[c].entries,
             i = Item(k, c, e),
             IsContainer(c), e.place \in Matching[p],
             Rules[k].kind = "entry" => e.file = Rules[k].to[abi]
      PROVE  i \in Hits(k, cs, p, abi)
  <2>1. PICK h : h = <<c, e>>
    OBVIOUS
  <2>2. h \in {c} \X What[c].entries /\ h[1] = c /\ h[2] = e
    BY <2>1
  <2>3. h \in UNION {{d} \X What[d].entries : d \in cs}
    BY <2>2
  <2> QED
    BY <1>2, <2>2, <2>3 DEF Hits
<1> QED
  BY <1>1, <1>2

LEMMA ItemFields ==
    ASSUME NEW k, NEW c, NEW e
    PROVE  /\ Item(k, c, e).rule = k /\ Item(k, c, e).file = e.file
           /\ Item(k, c, e).size = SizeOf[e.content]
           /\ Item(k, c, e).content = e.content /\ Item(k, c, e).from = c
           /\ Item(k, c, e).crc = IF What[c].form = "tree" THEN Nothing ELSE e.content
BY DEF Item

\* Everything taken has its rule and is an entry of a candidate.
LEMMA CollectAre ==
    ASSUME NEW k, NEW cs, NEW abi, NEW i \in Collect(k, cs, abi)
    PROVE  /\ i.rule = k /\ i.from \in cs
           /\ Rules[k].kind = "entry" => i.file = Rules[k].to[abi]
           /\ \E e \in What[i.from].entries : i = Item(k, i.from, e)
           /\ \E n \in Used(k, cs, abi) : i \in Hits(k, cs, Rules[k].patterns[n], abi)
<1>1. PICK n \in Used(k, cs, abi) : i \in Hits(k, cs, Rules[k].patterns[n], abi)
  BY DEF Collect
<1>2. PICK c \in cs : \E e \in What[c].entries :
          /\ i = Item(k, c, e)
          /\ Rules[k].kind = "entry" => e.file = Rules[k].to[abi]
  BY <1>1, HitsAre
<1> QED
  BY <1>1, <1>2, ItemFields

LEMMA TakenAre ==
    ASSUME NEW cs, NEW abi, NEW i \in Taken(cs, abi)
    PROVE  /\ i.rule \in DOMAIN Rules /\ i \in Collect(i.rule, cs, abi)
           /\ i.rule \in 1..Len(Rules) /\ i.from \in cs
           /\ \E e \in What[i.from].entries : i = Item(i.rule, i.from, e)
<1>1. PICK k \in DOMAIN Rules : i \in Collect(k, cs, abi)
  BY DEF Taken
<1>2. DOMAIN Rules = 1..Len(Rules)
  BY RuleAssumption, Members
<1> QED
  BY <1>1, <1>2, CollectAre

\* The patterns of a rule are numbered, and those used are among them.
LEMMA PatternsAre ==
    ASSUME NEW k \in DOMAIN Rules
    PROVE  /\ Len(Rules[k].patterns) \in Nat
           /\ DOMAIN Rules[k].patterns = 1..Len(Rules[k].patterns)
           /\ DOMAIN Rules[k].patterns \subseteq Nat
           /\ \A cs, abi : Used(k, cs, abi) \subseteq DOMAIN Rules[k].patterns
<1>1. Rules[k].patterns \in Seq(DOMAIN Matching)
  BY RuleAssumption
<1>2. /\ Len(Rules[k].patterns) \in Nat
      /\ DOMAIN Rules[k].patterns = 1..Len(Rules[k].patterns)
  BY <1>1, Members
<1>3. \A cs, abi : Used(k, cs, abi) \subseteq DOMAIN Rules[k].patterns
  BY DEF Used
<1> QED
  BY <1>2, <1>3

\* If a pattern finds anything, the rule takes something.
LEMMA UsedIfHit ==
    ASSUME NEW k \in DOMAIN Rules, NEW cs, NEW abi, NEW n \in DOMAIN Rules[k].patterns,
           Hits(k, cs, Rules[k].patterns[n], abi) # {}
    PROVE  /\ Collect(k, cs, abi) # {}
           /\ Rules[k].kind = "entries" =>
                 Hits(k, cs, Rules[k].patterns[n], abi) \subseteq Collect(k, cs, abi)
<1> DEFINE hitting == {m \in DOMAIN Rules[k].patterns : Hits(k, cs, Rules[k].patterns[m], abi) # {}}
<1>1. n \in hitting /\ hitting \subseteq Nat
  BY PatternsAre
<1>2. Used(k, cs, abi) = IF Rules[k].kind = "entries" THEN hitting
                         ELSE {m \in hitting : \A j \in hitting : m <= j}
  BY DEF Used
<1>3. \A m \in hitting : Hits(k, cs, Rules[k].patterns[m], abi) # {}
  OBVIOUS
<1> HIDE DEF hitting
<1>4. PICK least \in hitting : \A j \in hitting : least <= j
  BY <1>1, LeastIn
<1>5. PICK used \in Used(k, cs, abi) : used \in hitting
  BY <1>2, <1>4
<1>6. Hits(k, cs, Rules[k].patterns[used], abi) # {}
  BY <1>3, <1>5
<1>7. Hits(k, cs, Rules[k].patterns[used], abi) \subseteq Collect(k, cs, abi)
  BY <1>5 DEF Collect
<1>8. Rules[k].kind = "entries" =>
          Hits(k, cs, Rules[k].patterns[n], abi) \subseteq Collect(k, cs, abi)
  BY <1>1, <1>2 DEF Collect
<1> QED
  BY <1>6, <1>7, <1>8

\* A destination that some rule writes has a last rule that writes it.
LEMMA LastingFiles ==
    ASSUME NEW cs, NEW abi, NEW i \in Taken(cs, abi)
    PROVE  \E j \in Lasting(Taken(cs, abi)) : j.file = i.file
<1> DEFINE same == {j \in Taken(cs, abi) : j.file = i.file}
           gaps == {Len(Rules) - j.rule : j \in same}
<1>0. Len(Rules) \in Nat
  BY RuleAssumption, Members
<1>1. \A j \in Taken(cs, abi) : j.rule \in 1..Len(Rules)
  BY TakenAre
<1>2. gaps \subseteq Nat
  <2>1. \A j \in same : Len(Rules) - j.rule \in Nat
    BY <1>0, <1>1
  <2> QED
    BY <2>1
<1>3. i \in same /\ gaps # {}
  OBVIOUS
<1>4. PICK gap \in gaps : \A m \in gaps : gap <= m
  <2> HIDE DEF gaps
  <2> QED
    BY <1>2, <1>3, LeastIn
<1>5. PICK j \in same : gap = Len(Rules) - j.rule
  OBVIOUS
<1>6. \A m \in same : m.rule <= j.rule
  <2> SUFFICES ASSUME NEW m \in same PROVE m.rule <= j.rule
    OBVIOUS
  <2>1. Len(Rules) - j.rule <= Len(Rules) - m.rule
    BY <1>4, <1>5
  <2>2. m.rule \in 1..Len(Rules) /\ j.rule \in 1..Len(Rules)
    BY <1>1, <1>5
  <2> QED
    BY <1>0, <2>1, <2>2
<1>7. j \in Lasting(Taken(cs, abi))
  BY <1>5, <1>6 DEF Lasting
<1> QED
  BY <1>5, <1>7

-----------------------------------------------------------------------------
(* Plans.                                                                  *)

\* The item taken first is one of them.
LEMMA FirstIn ==
    ASSUME NEW g \in Seq(Known), NEW items, items # {}, \A i \in items : i.from \in ToSet(g)
    PROVE  \E n \in DOMAIN g :
              /\ First(g, items) = CHOOSE i \in {i \in items : i.from = g[n]} : TRUE
              /\ First(g, items) \in items /\ First(g, items).from = g[n]
<1> DEFINE at == {n \in DOMAIN g : \E i \in items : i.from = g[n]}
<1>1. at \subseteq Nat /\ at # {}
  <2>1. DOMAIN g = 1..Len(g) /\ Len(g) \in Nat /\ ToSet(g) = {g[n] : n \in DOMAIN g}
    BY Members DEF ToSet
  <2> QED
    BY <2>1
<1>2. Min(at) \in at
  <2> HIDE DEF at
  <2> QED
    BY <1>1, MinIn
<1>3. First(g, items) = CHOOSE i \in {i \in items : i.from = g[Min(at)]} : TRUE
  BY DEF First
<1>4. PICK n : n = Min(at)
  OBVIOUS
<1>5. n \in DOMAIN g /\ {i \in items : i.from = g[n]} # {}
  BY <1>2, <1>4
<1>6. First(g, items) = CHOOSE i \in {i \in items : i.from = g[n]} : TRUE
  BY <1>3, <1>4
<1> HIDE DEF at
<1>7. First(g, items) \in {i \in items : i.from = g[n]}
  BY <1>5, <1>6
<1> QED
  BY <1>5, <1>6, <1>7

\* A plan has, for each destination of its lasting items, one of them.
LEMMA PlanIs ==
    ASSUME NEW g \in Seq(Known), NEW abi
    PROVE  LET items == Lasting(Taken(ToSet(g), abi)) IN
           /\ \A i \in Plan(g, abi) :
                 /\ i \in items
                 /\ i = CHOOSE j \in {j \in items : j.file = i.file /\ j.from = i.from} : TRUE
           /\ \A i \in items : \E j \in Plan(g, abi) : j.file = i.file
<1> DEFINE items == Lasting(Taken(ToSet(g), abi))
           of(f) == {i \in items : i.file = f}
<1>1. \A i \in items : i.from \in ToSet(g)
  BY TakenAre DEF Lasting
<1>2. Plan(g, abi) = {First(g, of(f)) : f \in {i.file : i \in items}}
  BY DEF Plan
<1> HIDE DEF items
<1>3. ASSUME NEW f \in {i.file : i \in items}
      PROVE  /\ First(g, of(f)) \in items /\ First(g, of(f)).file = f
             /\ First(g, of(f)) =
                   CHOOSE j \in {j \in items : j.file = f /\ j.from = First(g, of(f)).from} : TRUE
  <2>1. of(f) # {} /\ \A i \in of(f) : i.from \in ToSet(g)
    BY <1>1
  <2>2. PICK n \in DOMAIN g :
            /\ First(g, of(f)) = CHOOSE i \in {i \in of(f) : i.from = g[n]} : TRUE
            /\ First(g, of(f)) \in of(f) /\ First(g, of(f)).from = g[n]
    <3> HIDE DEF of
    <3> QED
      BY <2>1, FirstIn
  <2>3. {i \in of(f) : i.from = g[n]} = {j \in items : j.file = f /\ j.from = g[n]}
    OBVIOUS
  <2>4. First(g, of(f)) \in items /\ First(g, of(f)).file = f
    BY <2>2
  <2> HIDE DEF of
  <2> QED
    BY <2>2, <2>3, <2>4
<1>4. ASSUME NEW i \in Plan(g, abi)
      PROVE  /\ i \in items
             /\ i = CHOOSE j \in {j \in items : j.file = i.file /\ j.from = i.from} : TRUE
  <2>1. PICK f \in {j.file : j \in items} : i = First(g, of(f))
    BY <1>2
  <2> HIDE DEF of
  <2> QED
    BY <1>3, <2>1
<1>5. ASSUME NEW i \in items
      PROVE  \E j \in Plan(g, abi) : j.file = i.file
  <2>1. i.file \in {j.file : j \in items}
    OBVIOUS
  <2>2. First(g, of(i.file)) \in Plan(g, abi)
    BY <1>2, <2>1
  <2>3. First(g, of(i.file)).file = i.file
    BY <1>3, <2>1
  <2> QED
    BY <2>2, <2>3
<1> QED
  BY <1>4, <1>5 DEF items

\* What a team's plan is compared by.
TeamPrint(team) == Fingerprint(Lasting(Taken(team, Abis[Min(Fits(team))])))

LEMMA BestFit ==
    ASSUME NEW cs, Fits(cs) # {}
    PROVE  /\ Min(Fits(cs)) \in DOMAIN Abis /\ Resolves(cs, Abis[Min(Fits(cs))])
           /\ \A n \in Fits(cs) : Min(Fits(cs)) <= n
<1>1. DOMAIN Abis = 1..Len(Abis) /\ Len(Abis) \in Nat
  BY AbiAssumption, Members
<1>2. Fits(cs) \subseteq Nat
  BY <1>1 DEF Fits
<1>3. Min(Fits(cs)) \in Fits(cs) /\ \A n \in Fits(cs) : Min(Fits(cs)) <= n
  BY <1>2, MinIn
<1> QED
  BY <1>3 DEF Fits

\* The plan of a group that resolves.
LEMMA BestPlanIs ==
    ASSUME NEW g \in Seq(Known), Fits(ToSet(g)) # {}
    PROVE  Fingerprint(BestPlan(g)) = TeamPrint(ToSet(g))
<1> DEFINE abi   == Abis[Min(Fits(ToSet(g)))]
           items == Lasting(Taken(ToSet(g), abi))
<1>1. BestPlan(g) = Plan(g, abi) /\ TeamPrint(ToSet(g)) = Fingerprint(items)
  BY DEF BestPlan, TeamPrint
<1>2. Agree(Taken(ToSet(g), abi))
  BY BestFit DEF Resolves
<1> HIDE DEF abi
<1>3. /\ \A i \in Plan(g, abi) : i \in items
      /\ \A i \in items : \E j \in Plan(g, abi) : j.file = i.file
  BY PlanIs
<1>4. ASSUME NEW i \in items, NEW j \in items, i.file = j.file
      PROVE  i.rule = j.rule /\ i.size = j.size /\ i.crc = j.crc
  <2>1. i \in Taken(ToSet(g), abi) /\ j \in Taken(ToSet(g), abi)
    BY DEF Lasting
  <2>2. i.rule <= j.rule /\ j.rule <= i.rule
    BY <1>4, <2>1 DEF Lasting
  <2>3. i.rule \in Nat /\ j.rule \in Nat
    <3>1. i.rule \in 1..Len(Rules) /\ j.rule \in 1..Len(Rules) /\ Len(Rules) \in Nat
      BY <2>1, TakenAre, RuleAssumption, Members
    <3> QED
      BY <3>1
  <2>4. Identity(i) = Identity(j)
    BY <1>2, <1>4, <2>1 DEF Agree
  <2> QED
    BY <2>2, <2>3, <2>4 DEF Identity
<1> HIDE DEF items
<1>5. \A i \in items : \E j \in Plan(g, abi) :
          j.rule = i.rule /\ j.file = i.file /\ j.size = i.size /\ j.crc = i.crc
  BY <1>3, <1>4
<1>6. Fingerprint(Plan(g, abi)) = Fingerprint(items)
  <2>1. Fingerprint(Plan(g, abi)) \subseteq Fingerprint(items)
    BY <1>3 DEF Fingerprint
  <2>2. ASSUME NEW i \in items
        PROVE  [rule |-> i.rule, file |-> i.file, size |-> i.size, crc |-> i.crc]
                  \in Fingerprint(Plan(g, abi))
    <3>1. PICK j \in Plan(g, abi) :
              j.rule = i.rule /\ j.file = i.file /\ j.size = i.size /\ j.crc = i.crc
      BY <1>5
    <3>2. [rule |-> j.rule, file |-> j.file, size |-> j.size, crc |-> j.crc]
              \in Fingerprint(Plan(g, abi))
      BY DEF Fingerprint
    <3> QED
      BY <3>1, <3>2
  <2> QED
    BY <2>1, <2>2 DEF Fingerprint
<1> QED
  BY <1>1, <1>6

-----------------------------------------------------------------------------
(* The decision.                                                           *)

\* The plan of a winner with the least position is taken.
LEMMA FirstOfIs ==
    ASSUME NEW winners, winners # {}, \A w \in winners : w[1] \in Nat
    PROVE  \E w \in winners : FirstOf(winners) = [why |-> "plan", items |-> w[2]]
<1> DEFINE places == {w[1] : w \in winners}
<1>1. places \subseteq Nat /\ places # {}
  OBVIOUS
<1>2. PICK n \in places : \A m \in places : n <= m
  <2> HIDE DEF places
  <2> QED
    BY <1>1, LeastIn
<1>3. \E w \in winners : \A other \in winners : w[1] <= other[1]
  BY <1>2
<1>4. (CHOOSE w \in winners : \A other \in winners : w[1] <= other[1]) \in winners
  BY <1>3
<1> QED
  BY <1>4 DEF FirstOf

LEMMA WinnersAre ==
    ASSUME NEW cs \in Seq(Known), cs # <<>>
    PROVE  /\ \A w \in Winners(cs) :
                 /\ w[1] \in Nat
                 /\ \E g \in Groups(cs) : Fits(ToSet(g)) # {} /\ w[2] = BestPlan(g)
           /\ \A g \in Groups(cs) : Fits(ToSet(g)) # {} =>
                 \E w \in Winners(cs) : w[2] = BestPlan(g)
<1> DEFINE place(g) == Min({n \in DOMAIN cs : cs[n] = g[1]})
<1>1. Winners(cs) = {<<place(g), BestPlan(g)>> : g \in {g \in Groups(cs) : Fits(ToSet(g)) # {}}}
  BY DEF Winners
<1>2. ASSUME NEW g \in Groups(cs)
      PROVE  place(g) \in Nat
  <2>1. ToSet(cs) # {} /\ DOMAIN cs \subseteq Nat
    <3>1. Len(cs) \in Nat /\ DOMAIN cs = 1..Len(cs) /\ Len(cs) # 0
      BY Members, EmptySeq
    <3>2. 1 \in DOMAIN cs
      BY <3>1
    <3> QED
      BY <3>1, <3>2 DEF ToSet
  <2>2. g \in Seq(Known) /\ ToSet(g) \subseteq ToSet(cs) /\ ToSet(g) # {}
    BY <2>1, GroupMembers, TeamMembers
  <2>3. g[1] \in ToSet(cs)
    <3>1. Len(g) \in Nat /\ ToSet(g) = {g[n] : n \in 1..Len(g)}
      BY <2>2, Members
    <3>2. 1 \in 1..Len(g)
      BY <2>2, <3>1
    <3> QED
      BY <2>2, <3>1, <3>2
  <2>4. {n \in DOMAIN cs : cs[n] = g[1]} # {}
    BY <2>3 DEF ToSet
  <2>5. PICK at : at = {n \in DOMAIN cs : cs[n] = g[1]}
    OBVIOUS
  <2>6. Min(at) \in at
    BY <2>1, <2>4, <2>5, MinIn
  <2> QED
    BY <2>1, <2>5, <2>6
<1> HIDE DEF place
<1>3. ASSUME NEW w \in Winners(cs)
      PROVE  /\ w[1] \in Nat
             /\ \E g \in Groups(cs) : Fits(ToSet(g)) # {} /\ w[2] = BestPlan(g)
  <2>1. PICK g \in Groups(cs) : Fits(ToSet(g)) # {} /\ w = <<place(g), BestPlan(g)>>
    BY <1>1
  <2> QED
    BY <1>2, <2>1
<1>4. ASSUME NEW g \in Groups(cs), Fits(ToSet(g)) # {}
      PROVE  \E w \in Winners(cs) : w[2] = BestPlan(g)
  <2>1. PICK w : w = <<place(g), BestPlan(g)>>
    OBVIOUS
  <2>2. w \in Winners(cs) /\ w[2] = BestPlan(g)
    BY <1>1, <1>4, <2>1
  <2> QED
    BY <2>2
<1> QED
  BY <1>3, <1>4

\* The teams whose rules can be satisfied.
Fit(S) == {team \in Teams(S) : Fits(team) # {}}

\* The package of every APK of S can be read, or is known not to be readable.
Legible(S) == \A c \in S : IsApk(c) => What[c].package # Corrupt

\* Why a decision is made depends on the set of candidates only; a plan is that of a
\* group that resolves.
LEMMA DecideIs ==
    ASSUME NEW cs \in Seq(Known)
    PROVE  LET S == ToSet(cs) IN
           /\ S = {} => Decide(cs) = Refused("no package")
           /\ ~Legible(S) => Decide(cs) = Refused("crashed")
           /\ S # {} /\ Legible(S) /\ Fit(S) = {} => Decide(cs) = Refused("no match")
           /\ S # {} /\ Legible(S) /\ (\E t, u \in Fit(S) : TeamPrint(t) # TeamPrint(u)) =>
                 Decide(cs) = Refused("versions")
           /\ S # {} /\ Legible(S) /\ Fit(S) # {} /\ (\A t, u \in Fit(S) : TeamPrint(t) = TeamPrint(u)) =>
                 /\ Decide(cs).why = "plan"
                 /\ \E g \in Groups(cs) : ToSet(g) \in Fit(S) /\ Decide(cs).items = BestPlan(g)
<1> DEFINE S == ToSet(cs)
<1>1. S = {} <=> cs = <<>>
  <2>1. Len(cs) \in Nat /\ S = {cs[n] : n \in 1..Len(cs)} /\ (Len(cs) = 0 <=> cs = <<>>)
    BY Members, EmptySeq
  <2>2. Len(cs) = 0 <=> 1..Len(cs) = {}
    <3>1. Len(cs) # 0 => 1 \in 1..Len(cs)
      BY <2>1
    <3>2. Len(cs) = 0 => 1..Len(cs) = {}
      OBVIOUS
    <3> QED
      BY <3>1, <3>2
  <2> HIDE DEF S
  <2> QED
    BY <2>1, <2>2
<1>2. S = {} => Decide(cs) = Refused("no package")
  BY <1>1 DEF Decide
<1>4. ~Legible(S) => Decide(cs) = Refused("crashed")
  BY <1>1 DEF Decide, Legible, Apks
<1>3. ASSUME S # {}, Legible(S)
      PROVE  /\ Fit(S) = {} => Decide(cs) = Refused("no match")
             /\ (\E t, u \in Fit(S) : TeamPrint(t) # TeamPrint(u)) => Decide(cs) = Refused("versions")
             /\ Fit(S) # {} /\ (\A t, u \in Fit(S) : TeamPrint(t) = TeamPrint(u)) =>
                   /\ Decide(cs).why = "plan"
                   /\ \E g \in Groups(cs) : ToSet(g) \in Fit(S) /\ Decide(cs).items = BestPlan(g)
  <2>1. cs # <<>> /\ Decide(cs) = Judge(Winners(cs))
    BY <1>1, <1>3 DEF Decide, Legible, Apks
  <2>2. \A w \in Winners(cs) :
           /\ w[1] \in Nat
           /\ \E g \in Groups(cs) : ToSet(g) \in Fit(S) /\ w[2] = BestPlan(g)
    <3> SUFFICES ASSUME NEW w \in Winners(cs)
                 PROVE  /\ w[1] \in Nat
                        /\ \E g \in Groups(cs) : ToSet(g) \in Fit(S) /\ w[2] = BestPlan(g)
      OBVIOUS
    <3>1. PICK g \in Groups(cs) : w[1] \in Nat /\ Fits(ToSet(g)) # {} /\ w[2] = BestPlan(g)
      BY <2>1, WinnersAre
    <3>2. ToSet(g) \in Teams(S)
      BY GroupMembers
    <3> QED
      BY <3>1, <3>2 DEF Fit
  <2>3. \A w \in Winners(cs) : \E t \in Fit(S) : Fingerprint(w[2]) = TeamPrint(t)
    <3> SUFFICES ASSUME NEW w \in Winners(cs)
                 PROVE  \E t \in Fit(S) : Fingerprint(w[2]) = TeamPrint(t)
      OBVIOUS
    <3>1. PICK g \in Groups(cs) : ToSet(g) \in Fit(S) /\ w[2] = BestPlan(g)
      BY <2>2
    <3>2. g \in Seq(Known)
      BY GroupMembers
    <3>3. Fits(ToSet(g)) # {}
      BY <3>1 DEF Fit
    <3> QED
      BY <3>1, <3>2, <3>3, BestPlanIs
  <2>4. \A t \in Fit(S) : \E w \in Winners(cs) : Fingerprint(w[2]) = TeamPrint(t)
    <3> SUFFICES ASSUME NEW t \in Fit(S)
                 PROVE  \E w \in Winners(cs) : Fingerprint(w[2]) = TeamPrint(t)
      OBVIOUS
    <3>1. t \in Teams(S) /\ Fits(t) # {}
      BY DEF Fit
    <3>2. PICK g \in Groups(cs) : ToSet(g) = t
      BY <3>1, TeamHasGroup
    <3>3. PICK w \in Winners(cs) : w[2] = BestPlan(g)
      BY <2>1, <3>1, <3>2, WinnersAre
    <3>4. g \in Seq(Known)
      BY GroupMembers
    <3> QED
      BY <3>1, <3>2, <3>3, <3>4, BestPlanIs
  <2> HIDE DEF S
  <2>5. Fit(S) = {} => Decide(cs) = Refused("no match")
    BY <2>1, <2>3 DEF Judge
  <2>6. (\E t, u \in Fit(S) : TeamPrint(t) # TeamPrint(u)) => Decide(cs) = Refused("versions")
    <3> SUFFICES ASSUME NEW t \in Fit(S), NEW u \in Fit(S), TeamPrint(t) # TeamPrint(u)
                 PROVE  Decide(cs) = Refused("versions")
      OBVIOUS
    <3>1. PICK v \in Winners(cs) : Fingerprint(v[2]) = TeamPrint(t)
      BY <2>4
    <3>2. PICK w \in Winners(cs) : Fingerprint(w[2]) = TeamPrint(u)
      BY <2>4
    <3> QED
      BY <2>1, <3>1, <3>2 DEF Judge
  <2>7. ASSUME Fit(S) # {}, \A t, u \in Fit(S) : TeamPrint(t) = TeamPrint(u)
        PROVE  /\ Decide(cs).why = "plan"
               /\ \E g \in Groups(cs) : ToSet(g) \in Fit(S) /\ Decide(cs).items = BestPlan(g)
    <3>1. Winners(cs) # {}
      BY <2>4, <2>7
    <3>2. \A v, w \in Winners(cs) : Fingerprint(v[2]) = Fingerprint(w[2])
      <4> SUFFICES ASSUME NEW v \in Winners(cs), NEW w \in Winners(cs)
                   PROVE  Fingerprint(v[2]) = Fingerprint(w[2])
        OBVIOUS
      <4>1. PICK t \in Fit(S) : Fingerprint(v[2]) = TeamPrint(t)
        BY <2>3
      <4>2. PICK u \in Fit(S) : Fingerprint(w[2]) = TeamPrint(u)
        BY <2>3
      <4> QED
        BY <2>7, <4>1, <4>2
    <3>3. Decide(cs) = FirstOf(Winners(cs))
      BY <2>1, <3>1, <3>2 DEF Judge
    <3>4. PICK w \in Winners(cs) : FirstOf(Winners(cs)) = [why |-> "plan", items |-> w[2]]
      <4>1. PICK winners : winners = Winners(cs)
        OBVIOUS
      <4>2. winners # {} /\ \A w \in winners : w[1] \in Nat
        BY <2>2, <3>1, <4>1
      <4> QED
        BY <4>1, <4>2, FirstOfIs
    <3> QED
      BY <2>2, <3>3, <3>4
  <2> QED
    BY <2>5, <2>6, <2>7
<1> QED
  BY <1>2, <1>3, <1>4

\* A decision to install.
LEMMA PlanTaken ==
    ASSUME NEW cs \in Seq(Known), Decide(cs).why = "plan"
    PROVE  \E g \in Groups(cs) :
              /\ g \in Seq(Known) /\ ToSet(g) \in Fit(ToSet(cs)) /\ ToSet(cs) # {}
              /\ Decide(cs).items = BestPlan(g)
              /\ \A t, u \in Fit(ToSet(cs)) : TeamPrint(t) = TeamPrint(u)
<1> DEFINE S == ToSet(cs)
<1>1. /\ S # {} /\ Legible(S) /\ Fit(S) # {}
      /\ \A t, u \in Fit(S) : TeamPrint(t) = TeamPrint(u)
  <2>1. \A why \in {"crashed", "no package", "no match", "versions"} : Decide(cs) # Refused(why)
    <3>1. \A why : Refused(why).why = why
      BY DEF Refused
    <3> QED
      BY <3>1
  <2> QED
    BY <2>1, DecideIs
<1>2. PICK g \in Groups(cs) : ToSet(g) \in Fit(S) /\ Decide(cs).items = BestPlan(g)
  BY <1>1, DecideIs
<1>3. g \in Seq(Known)
  BY GroupMembers
<1> QED
  BY <1>1, <1>2, <1>3

\* What a plan publishes is from its group.
LEMMA BestPlanFrom ==
    ASSUME NEW g \in Seq(Known), NEW i \in BestPlan(g)
    PROVE  i.from \in ToSet(g)
<1>1. i \in Plan(g, Abis[Min(Fits(ToSet(g)))])
  BY DEF BestPlan
<1>2. i \in Lasting(Taken(ToSet(g), Abis[Min(Fits(ToSet(g)))]))
  BY <1>1, PlanIs
<1> QED
  BY <1>2, TakenAre DEF Lasting

-----------------------------------------------------------------------------
(* What follows from the decision being the card's.                        *)

LEMMA ResolvingOneGame == Resolving => OneGame
<1> SUFFICES ASSUME Resolving,
                    NEW i \in verdict.items, NEW j \in verdict.items,
                    IsApk(i.from), IsApk(j.from), i.from # j.from
             PROVE  /\ What[i.from].package = What[j.from].package
                    /\ What[i.from].package # Unreadable
  BY DEF OneGame
<1>1. verdict.why = "plan" /\ verdict = Decide(Candidates(listing))
  BY DEF Resolving, Empty, DecidedByCard, Decided
<1>2. PICK cs \in Seq(Known) : cs = Candidates(listing)
  BY CandidatesMembers DEF Resolving, TypeOK
<1>3. PICK g \in Groups(cs) :
          /\ g \in Seq(Known) /\ ToSet(g) \in Fit(ToSet(cs)) /\ ToSet(cs) # {}
          /\ verdict.items = BestPlan(g)
  BY <1>1, <1>2, PlanTaken
<1>4. i.from \in ToSet(g) /\ j.from \in ToSet(g)
  BY <1>3, BestPlanFrom
<1>5. ToSet(g) \in Teams(ToSet(cs))
  BY <1>3 DEF Fit
<1>6. PICK key : \A c \in ToSet(g) : IsApk(c) => Key(c) = key
  BY <1>3, <1>5, TeamMembers
<1>7. Key(i.from) = Key(j.from)
  BY <1>4, <1>6
<1> QED
  BY <1>7 DEF Key

\* A plan never mixes the APKs of two games (group_candidates: splits share a package).
THEOREM OneGamePlans == Spec => []OneGame
BY ResolvingInit, ResolvingStep, ResolvingOneGame, PTL DEF Spec

-----------------------------------------------------------------------------
(* What suffices is installed.                                             *)

LEMMA OffersAre ==
    ASSUME NEW cs, NEW i
    PROVE  i \in Offers(cs) <=>
              \E k \in DOMAIN Rules : \E n \in DOMAIN Rules[k].patterns :
                 i \in Hits(k, ToSet(cs), Rules[k].patterns[n], Abis[1])
<1>1. ASSUME i \in Offers(cs)
      PROVE  \E k \in DOMAIN Rules : \E n \in DOMAIN Rules[k].patterns :
                i \in Hits(k, ToSet(cs), Rules[k].patterns[n], Abis[1])
  <2>1. PICK k \in DOMAIN Rules : \E p \in ToSet(Rules[k].patterns) :
            i \in Hits(k, ToSet(cs), p, Abis[1])
    BY <1>1 DEF Offers
  <2>2. PICK p \in ToSet(Rules[k].patterns) : i \in Hits(k, ToSet(cs), p, Abis[1])
    BY <2>1
  <2>3. PICK n \in DOMAIN Rules[k].patterns : p = Rules[k].patterns[n]
    BY DEF ToSet
  <2> QED
    BY <2>2, <2>3
<1>2. ASSUME NEW k \in DOMAIN Rules, NEW n \in DOMAIN Rules[k].patterns,
             i \in Hits(k, ToSet(cs), Rules[k].patterns[n], Abis[1])
      PROVE  i \in Offers(cs)
  <2>1. Rules[k].patterns[n] \in ToSet(Rules[k].patterns)
    BY DEF ToSet
  <2> QED
    BY <1>2, <2>1 DEF Offers
<1> QED
  BY <1>1, <1>2

LEMMA TakenIsOffered ==
    ASSUME NEW cs
    PROVE  Taken(ToSet(cs), Abis[1]) \subseteq Offers(cs)
<1> SUFFICES ASSUME NEW i \in Taken(ToSet(cs), Abis[1]) PROVE i \in Offers(cs)
  OBVIOUS
<1>1. i.rule \in DOMAIN Rules /\ i \in Collect(i.rule, ToSet(cs), Abis[1])
  BY TakenAre
<1>2. PICK n \in Used(i.rule, ToSet(cs), Abis[1]) :
          i \in Hits(i.rule, ToSet(cs), Rules[i.rule].patterns[n], Abis[1])
  BY <1>1, CollectAre
<1>3. n \in DOMAIN Rules[i.rule].patterns
  BY <1>1, PatternsAre
<1> QED
  BY <1>1, <1>2, <1>3, OffersAre

\* Of what a rule is offered it takes something for the same destination.
LEMMA OfferedIsTaken ==
    ASSUME NEW cs, NEW i \in Offers(cs)
    PROVE  /\ i.rule \in DOMAIN Rules
           /\ \E j \in Collect(i.rule, ToSet(cs), Abis[1]) : j.file = i.file
<1>1. PICK k \in DOMAIN Rules : \E n \in DOMAIN Rules[k].patterns :
                 i \in Hits(k, ToSet(cs), Rules[k].patterns[n], Abis[1])
  BY OffersAre
<1>2. PICK n \in DOMAIN Rules[k].patterns : i \in Hits(k, ToSet(cs), Rules[k].patterns[n], Abis[1])
  BY <1>1
<1>3. /\ i.rule = k
      /\ Rules[k].kind = "entry" => i.file = Rules[k].to[Abis[1]]
  <2>1. PICK c \in ToSet(cs) : \E e \in What[c].entries :
            i = Item(k, c, e) /\ (Rules[k].kind = "entry" => e.file = Rules[k].to[Abis[1]])
    BY <1>2, HitsAre
  <2> QED
    BY <2>1, ItemFields
<1>4. CASE Rules[k].kind = "entries"
  <2>1. i \in Collect(k, ToSet(cs), Abis[1])
    BY <1>2, <1>4, UsedIfHit
  <2> QED
    BY <1>3, <2>1
<1>5. CASE Rules[k].kind = "entry"
  <2>1. PICK j : j \in Collect(k, ToSet(cs), Abis[1])
    BY <1>2, UsedIfHit
  <2>2. j.file = Rules[k].to[Abis[1]]
    BY <1>5, <2>1, CollectAre
  <2> QED
    BY <1>3, <1>5, <2>1, <2>2
<1> QED
  BY <1>3, <1>4, <1>5, RuleAssumption

LEMMA SufficientFits ==
    ASSUME NEW cs, Sufficient(cs)
    PROVE  /\ Fits(ToSet(cs)) # {} /\ Min(Fits(ToSet(cs))) = 1
           /\ {i.file : i \in Taken(ToSet(cs), Abis[1])} = {i.file : i \in Offers(cs)}
<1>1. \A k \in DOMAIN Rules : Rules[k].required => Collect(k, ToSet(cs), Abis[1]) # {}
  <2> SUFFICES ASSUME NEW k \in DOMAIN Rules, Rules[k].required
               PROVE  Collect(k, ToSet(cs), Abis[1]) # {}
    OBVIOUS
  <2>1. PICK i \in Offers(cs) : i.rule = k
    BY DEF Sufficient
  <2> QED
    BY <2>1, OfferedIsTaken
<1>2. Agree(Taken(ToSet(cs), Abis[1]))
  BY TakenIsOffered DEF Sufficient, Agree
<1>3. 1 \in DOMAIN Abis /\ DOMAIN Abis \subseteq Nat /\ \A n \in DOMAIN Abis : 1 <= n
  <2>1. DOMAIN Abis = 1..Len(Abis) /\ Len(Abis) \in Nat /\ Len(Abis) # 0
    BY AbiAssumption, Members, EmptySeq
  <2> QED
    BY <2>1
<1>4. 1 \in Fits(ToSet(cs))
  BY <1>1, <1>2, <1>3 DEF Fits, Resolves
<1>5. Min(Fits(ToSet(cs))) = 1
  <2>1. Min(Fits(ToSet(cs))) \in DOMAIN Abis /\ Min(Fits(ToSet(cs))) <= 1
    BY <1>4, BestFit
  <2> QED
    BY <1>3, <2>1
<1>6. \A i \in Offers(cs) : \E j \in Taken(ToSet(cs), Abis[1]) : j.file = i.file
  BY OfferedIsTaken DEF Taken
<1> QED
  BY <1>4, <1>5, <1>6, TakenIsOffered

\* The games on the card are finitely many.
LEMMA GamesFinite ==
    ASSUME NEW cs \in Seq(Known)
    PROVE  IsFiniteSet(Games(cs))
<1>1. Len(cs) \in Nat /\ ToSet(cs) = {cs[n] : n \in 1..Len(cs)}
  BY Members
<1> DEFINE places == {n \in 1..Len(cs) : IsApk(cs[n])}
           f == [n \in places |-> Key(cs[n])]
<1>2. IsFiniteSet(places)
  <2>1. IsFiniteSet(1..Len(cs))
    BY <1>1, FS_Interval
  <2>2. places \in SUBSET (1..Len(cs))
    OBVIOUS
  <2> HIDE DEF places
  <2> QED
    BY <2>1, <2>2, FS_Subset
<1>3. Games(cs) = {f[n] : n \in places}
  <2>1. \A n \in places : f[n] = Key(cs[n]) /\ cs[n] \in Apks(cs)
    BY <1>1 DEF Apks
  <2>2. \A c \in Apks(cs) : \E n \in places : c = cs[n]
    BY <1>1 DEF Apks
  <2> HIDE DEF f, places
  <2> QED
    BY <2>1, <2>2 DEF Games
<1>4. f \in Surjection(places, Games(cs))
  <2>1. \A key \in Games(cs) : \E n \in places : f[n] = key
    BY <1>3
  <2>2. f \in [places -> Games(cs)]
    <3>1. \A n \in places : f[n] \in Games(cs)
      BY <1>3
    <3> HIDE DEF places
    <3> QED
      BY <3>1
  <2> HIDE DEF f, places
  <2> QED
    BY <2>1, <2>2 DEF Surjection
<1> HIDE DEF f, places
<1> QED
  BY <1>2, <1>4, FS_Surjection

LEMMA ResolvingSuffices == Resolving => ApkAndDataSuffice
<1> SUFFICES ASSUME Resolving, Decided,
                    NEW cs, cs = Candidates(listing),
                    Sufficient(cs), Cardinality(Games(cs)) = 1
             PROVE  Everything(cs)
  BY DEF ApkAndDataSuffice
<1>1. cs \in Seq(Known) /\ verdict = Decide(cs)
  BY CandidatesMembers DEF Resolving, TypeOK, DecidedByCard
<1>2. PICK key : Games(cs) = {key}
  BY <1>1, GamesFinite, FS_Singleton
<1> DEFINE S == ToSet(cs)
<1>3. S # {} /\ Teams(S) = {S}
  <2>1. {Key(c) : c \in {c \in S : IsApk(c)}} = {key}
    BY <1>2 DEF Games, Apks
  <2>2. {c \in S : IsApk(c)} # {} /\ \A c \in S : IsApk(c) => Key(c) = key
    BY <2>1
  <2> HIDE DEF S
  <2>3. {c \in S : IsApk(c) => Key(c) = key} = S
    BY <2>2
  <2> QED
    BY <2>1, <2>2, <2>3 DEF Teams
<1>4. /\ Fits(S) # {} /\ Min(Fits(S)) = 1
      /\ {i.file : i \in Taken(S, Abis[1])} = {i.file : i \in Offers(cs)}
  BY SufficientFits
<1>5. Fit(S) = {S}
  BY <1>3, <1>4 DEF Fit
<1>6. verdict.why = "plan"
  <2>1. Refused("crashed").why = "crashed" /\ verdict.why # "crashed"
    BY DEF Refused, Decided
  <2>2. Legible(S)
    BY <1>1, <2>1, DecideIs
  <2> QED
    BY <1>1, <1>3, <1>5, <2>2, DecideIs
<1>7. PICK g \in Groups(cs) : g \in Seq(Known) /\ ToSet(g) = S /\ verdict.items = BestPlan(g)
  BY <1>1, <1>5, <1>6, PlanTaken
<1>8. verdict.items = Plan(g, Abis[1])
  BY <1>4, <1>7 DEF BestPlan
<1> HIDE DEF S
<1>9. /\ \A i \in verdict.items : i \in Taken(S, Abis[1])
      /\ \A i \in Taken(S, Abis[1]) : \E j \in verdict.items : j.file = i.file
  <2>1. /\ \A i \in verdict.items : i \in Lasting(Taken(S, Abis[1]))
        /\ \A i \in Lasting(Taken(S, Abis[1])) : \E j \in verdict.items : j.file = i.file
    BY <1>7, <1>8, PlanIs
  <2>2. \A i \in Taken(S, Abis[1]) : \E j \in Lasting(Taken(S, Abis[1])) : j.file = i.file
    BY LastingFiles
  <2>3. ASSUME NEW i \in Taken(S, Abis[1]) PROVE \E j \in verdict.items : j.file = i.file
    <3>1. PICK m \in Lasting(Taken(S, Abis[1])) : m.file = i.file
      BY <2>2
    <3> QED
      BY <2>1, <3>1
  <2> QED
    BY <2>1, <2>3 DEF Lasting
<1>10. {i.file : i \in verdict.items} = {i.file : i \in Taken(S, Abis[1])}
  BY <1>9
<1> QED
  BY <1>4, <1>6, <1>10 DEF Everything

\* One game's APKs and the rest of the card are enough if together they suffice, and
\* nothing they offer is left out (resolve_plan, group_candidates).
THEOREM SufficientIsInstalled == Spec => []ApkAndDataSuffice
BY ResolvingInit, ResolvingStep, ResolvingSuffices, PTL DEF Spec

-----------------------------------------------------------------------------
(* The order of the listing.                                               *)

\* What a pattern finds in one candidate it finds there in any team, if the ABIs call the
\* file the same.
LEMMA HitMoves ==
    ASSUME NEW k, NEW cs, NEW ct, NEW p, NEW abi, NEW abj,
           NEW i \in Hits(k, cs, p, abi), i.from \in ct,
           Rules[k].kind = "entry" => i.file = Rules[k].to[abj]
    PROVE  i \in Hits(k, ct, p, abj)
<1>1. PICK c \in cs : \E e \in What[c].entries :
          /\ i = Item(k, c, e)
          /\ IsContainer(c) /\ e.place \in Matching[p]
          /\ Rules[k].kind = "entry" => e.file = Rules[k].to[abi]
  BY HitsAre
<1>2. PICK e \in What[c].entries :
          i = Item(k, c, e) /\ IsContainer(c) /\ e.place \in Matching[p]
  BY <1>1
<1>3. i.from = c /\ i.file = e.file
  BY <1>2, ItemFields
<1>4. c \in ct /\ (Rules[k].kind = "entry" => e.file = Rules[k].to[abj])
  BY <1>3
<1> QED
  BY <1>2, <1>4, HitsAre

\* Two teams with a candidate in common, from which each takes a file for the same rule,
\* take the same from it.
LEMMA SameCollected ==
    ASSUME NEW k \in DOMAIN Rules, NEW cs, NEW ct, NEW abi, NEW abj,
           NEW i \in Collect(k, cs, abi), NEW j \in Collect(k, ct, abj),
           i.from = j.from, i.file = j.file,
           NEW x \in Collect(k, cs, abi), x.from = i.from, x.file = i.file
    PROVE  x \in Collect(k, ct, abj)
<1>1. i.from \in cs /\ j.from \in ct
  BY CollectAre
<1>2. Rules[k].kind = "entry" => i.file = Rules[k].to[abi] /\ j.file = Rules[k].to[abj]
  BY CollectAre
<1>3. PICK n \in Used(k, cs, abi) : x \in Hits(k, cs, Rules[k].patterns[n], abi)
  BY CollectAre
<1>4. PICK m \in Used(k, ct, abj) : j \in Hits(k, ct, Rules[k].patterns[m], abj)
  BY CollectAre
<1>5. n \in DOMAIN Rules[k].patterns /\ m \in DOMAIN Rules[k].patterns /\ n \in Nat /\ m \in Nat
  BY PatternsAre
<1>6. x \in Hits(k, ct, Rules[k].patterns[n], abj)
  BY <1>1, <1>2, <1>3, HitMoves
<1>7. j \in Hits(k, cs, Rules[k].patterns[m], abi)
  BY <1>1, <1>2, <1>4, HitMoves
<1>8. CASE Rules[k].kind = "entries"
  BY <1>5, <1>6, <1>8, UsedIfHit
<1>9. CASE Rules[k].kind = "entry"
  <2>1. n <= m
    BY <1>3, <1>5, <1>7, <1>9 DEF Used
  <2>2. m <= n
    BY <1>4, <1>5, <1>6, <1>9 DEF Used
  <2>3. n = m
    BY <1>5, <2>1, <2>2
  <2> QED
    BY <1>4, <1>6, <2>3 DEF Collect
<1> QED
  BY <1>8, <1>9, RuleAssumption

\* The lasting items of a destination are what one rule takes for it.
LEMMA LastingAre ==
    ASSUME NEW cs, NEW abi, NEW i \in Lasting(Taken(cs, abi))
    PROVE  {j \in Lasting(Taken(cs, abi)) : j.file = i.file /\ j.from = i.from} =
           {j \in Collect(i.rule, cs, abi) : j.file = i.file /\ j.from = i.from}
<1> DEFINE items == Taken(cs, abi)
<1>1. \A j \in items : /\ j.rule \in DOMAIN Rules /\ j.rule \in Nat
                       /\ j \in Collect(j.rule, cs, abi)
  <2>1. Len(Rules) \in Nat
    BY RuleAssumption, Members
  <2>2. \A j \in items : /\ j.rule \in DOMAIN Rules /\ j.rule \in 1..Len(Rules)
                         /\ j \in Collect(j.rule, cs, abi)
    BY TakenAre
  <2> QED
    BY <2>1, <2>2
<1>2. i \in items /\ \A j \in items : i.file = j.file => j.rule <= i.rule
  BY DEF Lasting
<1>3. ASSUME NEW j \in Lasting(items), j.file = i.file
      PROVE  j \in Collect(i.rule, cs, abi)
  <2>1. j \in items /\ i.rule <= j.rule
    BY <1>2, <1>3 DEF Lasting
  <2>2. j.rule <= i.rule
    BY <1>2, <1>3, <2>1
  <2>3. j.rule = i.rule
    BY <1>1, <1>2, <2>1, <2>2
  <2> QED
    BY <1>1, <2>1, <2>3
<1>4. ASSUME NEW j \in Collect(i.rule, cs, abi), j.file = i.file
      PROVE  j \in Lasting(items)
  <2>1. j \in items /\ j.rule = i.rule
    BY <1>1, <1>2, CollectAre DEF Taken
  <2> QED
    BY <1>2, <1>4, <2>1 DEF Lasting
<1> QED
  BY <1>3, <1>4

\* An item of a plan, and the content it carries if it has a checksum.
LEMMA PlanItem ==
    ASSUME NEW g \in Seq(Known), NEW i \in BestPlan(g)
    PROVE  LET team == ToSet(g)
               abi  == Abis[Min(Fits(team))] IN
           /\ i \in Lasting(Taken(team, abi)) /\ i \in Collect(i.rule, team, abi)
           /\ i.rule \in DOMAIN Rules /\ i.from \in team
           /\ i = CHOOSE j \in {j \in Collect(i.rule, team, abi) :
                                   j.file = i.file /\ j.from = i.from} : TRUE
           /\ What[i.from].form = "tree" => i.crc = Nothing
           /\ What[i.from].form # "tree" => i.crc = i.content /\ i.content # Nothing
<1> DEFINE team == ToSet(g)
           abi  == Abis[Min(Fits(team))]
<1>1. i \in Plan(g, abi)
  BY DEF BestPlan
<1> HIDE DEF abi
<1>2. /\ i \in Lasting(Taken(team, abi))
      /\ i = CHOOSE j \in {j \in Lasting(Taken(team, abi)) : j.file = i.file /\ j.from = i.from} : TRUE
  BY <1>1, PlanIs
<1>3. i \in Taken(team, abi)
  BY <1>2 DEF Lasting
<1>4. /\ i \in Collect(i.rule, team, abi) /\ i.rule \in DOMAIN Rules /\ i.from \in team
      /\ \E e \in What[i.from].entries : i = Item(i.rule, i.from, e)
  BY <1>3, TakenAre
<1>5. i = CHOOSE j \in {j \in Collect(i.rule, team, abi) : j.file = i.file /\ j.from = i.from} : TRUE
  BY <1>2, LastingAre
<1>6. PICK e \in What[i.from].entries : i = Item(i.rule, i.from, e)
  BY <1>4
<1>7. i.from \in Known
  BY <1>4, Members
<1>8. i.content = e.content /\ e.content # Nothing
  BY <1>6, <1>7, ItemFields, KnownFacts
<1>9. i.crc = IF What[i.from].form = "tree" THEN Nothing ELSE e.content
  BY <1>6, ItemFields
<1> QED
  BY <1>2, <1>4, <1>5, <1>8, <1>9 DEF abi

\* Items that two plans are compared by have the same bytes, if one folder at most is in
\* the two groups.
LEMMA SameContent ==
    ASSUME NEW g \in Seq(Known), NEW h \in Seq(Known),
           NEW i \in BestPlan(g), NEW j \in BestPlan(h),
           i.rule = j.rule, i.file = j.file, i.crc = j.crc,
           \A c \in ToSet(g), d \in ToSet(h) :
              What[c].form = "tree" /\ What[d].form = "tree" => c = d
    PROVE  i.content = j.content
<1> DEFINE P == ToSet(g)
           Q == ToSet(h)
           a == Abis[Min(Fits(P))]
           b == Abis[Min(Fits(Q))]
<1>1. /\ i \in Collect(i.rule, P, a) /\ i.rule \in DOMAIN Rules /\ i.from \in P
      /\ i = CHOOSE x \in {x \in Collect(i.rule, P, a) : x.file = i.file /\ x.from = i.from} : TRUE
      /\ What[i.from].form = "tree" => i.crc = Nothing
      /\ What[i.from].form # "tree" => i.crc = i.content /\ i.content # Nothing
  BY PlanItem
<1>2. /\ j \in Collect(j.rule, Q, b) /\ j.rule \in DOMAIN Rules /\ j.from \in Q
      /\ j = CHOOSE x \in {x \in Collect(j.rule, Q, b) : x.file = j.file /\ x.from = j.from} : TRUE
      /\ What[j.from].form = "tree" => j.crc = Nothing
      /\ What[j.from].form # "tree" => j.crc = j.content /\ j.content # Nothing
  BY PlanItem
<1> HIDE DEF a, b
<1>3. CASE What[i.from].form # "tree"
  BY <1>1, <1>2, <1>3
<1>4. CASE What[i.from].form = "tree"
  <2>1. What[j.from].form = "tree"
    BY <1>1, <1>2, <1>4
  <2>2. i.from = j.from
    BY <1>1, <1>2, <1>4, <2>1
  <2>3. j \in Collect(i.rule, Q, b)
    BY <1>2
  <2> DEFINE s == {x \in Collect(i.rule, P, a) : x.file = i.file /\ x.from = i.from}
             t == {x \in Collect(j.rule, Q, b) : x.file = j.file /\ x.from = j.from}
  <2>4. ASSUME NEW x \in Collect(i.rule, P, a), x.file = i.file, x.from = i.from
        PROVE  x \in Collect(j.rule, Q, b) /\ x.file = j.file /\ x.from = j.from
    <3>1. x \in Collect(i.rule, Q, b)
      BY <1>1, <2>2, <2>3, <2>4, SameCollected
    <3> QED
      BY <2>2, <2>4, <3>1
  <2>5. ASSUME NEW x \in Collect(j.rule, Q, b), x.file = j.file, x.from = j.from
        PROVE  x \in Collect(i.rule, P, a) /\ x.file = i.file /\ x.from = i.from
    <3>1. i \in Collect(j.rule, P, a)
      BY <1>1
    <3>2. x \in Collect(j.rule, P, a)
      BY <1>2, <2>2, <2>5, <3>1, SameCollected
    <3> QED
      BY <2>2, <2>5, <3>2
  <2>6. s = t
    BY <2>4, <2>5
  <2>7. i = (CHOOSE x \in s : TRUE) /\ j = (CHOOSE x \in t : TRUE)
    BY <1>1, <1>2
  <2> HIDE DEF s, t
  <2> QED
    BY <2>6, <2>7
<1> QED
  BY <1>3, <1>4

\* In another order the listing leads to the same candidates.
LEMMA SameCandidates ==
    ASSUME NEW ds \in Seq(Donors), NEW dt \in Seq(Donors), ToSet(ds) = ToSet(dt)
    PROVE  ToSet(Candidates(ds)) = ToSet(Candidates(dt))
<1>1. /\ Found(ds) \in Seq(Donors) /\ Found(dt) \in Seq(Donors)
      /\ ToSet(Found(ds)) = ToSet(Found(dt))
  BY FoundMembers
<1>2. ToSet(InnersOf(Found(ds))) = ToSet(InnersOf(Found(dt)))
  <2>1. \A cs \in Seq(Donors) : ToSet(InnersOf(cs)) =
            UNION {ToSet(What[c].inner) : c \in {c \in ToSet(cs) : IsBundle(c)}}
    BY InnersOfMembers
  <2> QED
    BY <1>1, <2>1
<1> QED
  BY <1>2, CandidatesMembers

\* A folder among the candidates is a donor on the card.
LEMMA TreesAreDonors ==
    ASSUME NEW ds \in Seq(Donors), NEW c \in ToSet(Candidates(ds)), What[c].form = "tree"
    PROVE  c \in ToSet(ds)
<1>1. ToSet(InnersOf(Found(ds))) \subseteq Inners
  BY FoundMembers, InnersOfMembers, Members
<1>2. ASSUME NEW a \in ToSet(InnersOf(Found(ds))), Opens(a, cache[a])
      PROVE  What[Copy(a, cache[a])].form # "tree"
  BY <1>1, <1>2, KnownFacts DEF Opens
<1> QED
  BY <1>2, CandidatesMembers

LEMMA ResolvingNames == Resolving => NamesDoNotMatter
<1> SUFFICES ASSUME Resolving, Decided, NEW ds \in Listings
             PROVE  SameAs(Decide(Candidates(ds)))
  BY DEF NamesDoNotMatter
<1>1. listing \in Seq(Donors) /\ verdict = Decide(Candidates(listing))
  BY DEF Resolving, TypeOK, DecidedByCard
<1>2. ds \in Seq(Donors) /\ ToSet(ds) = ToSet(listing)
  <2>1. Len(listing) \in Nat /\ DOMAIN listing = 1..Len(listing) /\ ToSet(listing) \subseteq Donors
    BY <1>1, Members
  <2>2. ds \in [DOMAIN listing -> ToSet(listing)] /\ ToSet(ds) = ToSet(listing)
    BY DEF Listings
  <2>3. ds \in [1..Len(listing) -> Donors]
    BY <2>1, <2>2
  <2> QED
    BY <2>1, <2>2, <2>3, SeqIntro
<1>3. PICK cs \in Seq(Known) : cs = Candidates(listing)
  BY <1>1, CandidatesMembers
<1>4. PICK ct \in Seq(Known) : ct = Candidates(ds)
  BY <1>2, CandidatesMembers
<1>5. ToSet(cs) = ToSet(ct)
  BY <1>1, <1>2, <1>3, <1>4, SameCandidates
<1>6. CASE Decide(cs).why # "plan"
  <2>1. Decide(ct) = Decide(cs)
    BY <1>5, <1>6, DecideIs
  <2> QED
    BY <1>1, <1>3, <1>4, <2>1 DEF SameAs
<1>7. CASE Decide(cs).why = "plan"
  <2>1. PICK g \in Groups(cs) :
            /\ g \in Seq(Known) /\ ToSet(g) \in Fit(ToSet(cs)) /\ ToSet(cs) # {}
            /\ Decide(cs).items = BestPlan(g)
            /\ \A t, u \in Fit(ToSet(cs)) : TeamPrint(t) = TeamPrint(u)
    BY <1>7, PlanTaken
  <2>2. Decide(ct).why = "plan"
    <3>1. ~Legible(ToSet(cs)) => Decide(cs) = Refused("crashed")
      BY DecideIs
    <3>2. Legible(ToSet(cs))
      BY <1>7, <3>1 DEF Refused
    <3> QED
      BY <1>5, <2>1, <3>2, DecideIs
  <2>3. PICK h \in Groups(ct) :
            h \in Seq(Known) /\ ToSet(h) \in Fit(ToSet(ct)) /\ Decide(ct).items = BestPlan(h)
    BY <2>2, PlanTaken
  <2>4. Fingerprint(BestPlan(g)) = Fingerprint(BestPlan(h))
    <3>1. Fits(ToSet(g)) # {} /\ Fits(ToSet(h)) # {}
      BY <2>1, <2>3 DEF Fit
    <3>2. /\ Fingerprint(BestPlan(g)) = TeamPrint(ToSet(g))
          /\ Fingerprint(BestPlan(h)) = TeamPrint(ToSet(h))
      BY <2>1, <2>3, <3>1, BestPlanIs
    <3> QED
      BY <1>5, <2>1, <2>3, <3>2
  <2>5. ASSUME \A c, d \in ToSet(listing) : What[c].form = "tree" /\ What[d].form = "tree" => c = d
        PROVE  Bytes(BestPlan(g)) = Bytes(BestPlan(h))
    <3>1. ToSet(g) \subseteq ToSet(cs) /\ ToSet(h) \subseteq ToSet(cs)
      <4>1. ToSet(g) \in Teams(ToSet(cs)) /\ ToSet(h) \in Teams(ToSet(cs))
        BY <1>5, <2>1, <2>3 DEF Fit
      <4> QED
        BY <2>1, <4>1, TeamMembers
    <3>2. \A c \in ToSet(cs) : What[c].form = "tree" => c \in ToSet(listing)
      BY <1>1, <1>3, TreesAreDonors
    <3>3. \A c \in ToSet(g), d \in ToSet(h) :
             /\ What[c].form = "tree" /\ What[d].form = "tree" => c = d
             /\ What[d].form = "tree" /\ What[c].form = "tree" => d = c
      BY <2>5, <3>1, <3>2
    <3>4. ASSUME NEW i \in BestPlan(g)
          PROVE  \E j \in BestPlan(h) : j.file = i.file /\ j.content = i.content
      <4>1. [rule |-> i.rule, file |-> i.file, size |-> i.size, crc |-> i.crc]
                \in Fingerprint(BestPlan(h))
        BY <2>4 DEF Fingerprint
      <4>2. PICK j \in BestPlan(h) : i.rule = j.rule /\ i.file = j.file /\ i.crc = j.crc
        BY <4>1 DEF Fingerprint
      <4> QED
        BY <2>1, <2>3, <3>3, <4>2, SameContent
    <3>5. ASSUME NEW j \in BestPlan(h)
          PROVE  \E i \in BestPlan(g) : i.file = j.file /\ i.content = j.content
      <4>1. [rule |-> j.rule, file |-> j.file, size |-> j.size, crc |-> j.crc]
                \in Fingerprint(BestPlan(g))
        BY <2>4 DEF Fingerprint
      <4>2. PICK i \in BestPlan(g) : i.rule = j.rule /\ i.file = j.file /\ i.crc = j.crc
        BY <4>1 DEF Fingerprint
      <4> QED
        BY <2>1, <2>3, <3>3, <4>2, SameContent
    <3>6. \A i \in BestPlan(g) : <<i.file, i.content>> \in Bytes(BestPlan(h))
      BY <3>4 DEF Bytes
    <3>7. \A j \in BestPlan(h) : <<j.file, j.content>> \in Bytes(BestPlan(g))
      BY <3>5 DEF Bytes
    <3> QED
      BY <3>6, <3>7 DEF Bytes
  <2> QED
    BY <1>1, <1>3, <1>4, <1>7, <2>1, <2>2, <2>3, <2>4, <2>5 DEF SameAs
<1> QED
  BY <1>6, <1>7

\* The order in which the donors are listed, which is that of their names, never changes
\* a decision, nor the bytes if they can be told apart (README.md: "The filenames do not
\* matter").
THEOREM NamesNeverMatter == Spec => []NamesDoNotMatter
BY ResolvingInit, ResolvingStep, ResolvingNames, PTL DEF Spec
=============================================================================
