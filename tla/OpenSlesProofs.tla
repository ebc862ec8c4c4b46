--------------------------- MODULE OpenSlesProofs ---------------------------
(***************************************************************************)
(* Proofs about the sound shim, for any players, buffer sizes and bounds:  *)
(* the pump stands on a live player, and the device never holds more sound *)
(* than the queue has buffers for, so the pump pops only what it counted.  *)
(***************************************************************************)
EXTENDS OpenSles, SequenceTheorems, FiniteSetTheorems, TLAPS

-----------------------------------------------------------------------------
(* Least elements, by which the proofs below do induction.                 *)

\* Of the naturals of a set up to one of them, the fewest are those up to the least.
LEMMA Smallest ==
    ASSUME NEW S, S \subseteq Nat, S # {}
    PROVE  \E m \in S : \A n \in S : m <= n
<1>1. PICK k \in S : TRUE
  OBVIOUS
<1> DEFINE UpTo(n) == S \cap (0..n)
           T == {UpTo(n) : n \in S \cap (0..k)}
<1>2. IsFiniteSet(0..k) /\ k \in Nat
  BY FS_Interval
<1>3. FiniteSubsetsOf(0..k) = SUBSET (0..k)
  BY <1>2, FS_FiniteSubsetsOfFinite
<1>4. IsWellFoundedOn(StrictSubsetOrdering(0..k), SUBSET (0..k))
  BY <1>3, FS_StrictSubsetOrderingWellFounded
<1>5. T \subseteq SUBSET (0..k) /\ UpTo(k) \in T
  BY <1>2
<1>6. PICK x \in T : \A y \in T : <<y, x>> \notin StrictSubsetOrdering(0..k)
  <2> HIDE DEF T
  <2> QED
    BY <1>4, <1>5, WFMin
<1>7. PICK m \in S \cap (0..k) : x = UpTo(m)
  BY <1>6
<1>8. ASSUME NEW n \in S, n < m
      PROVE  FALSE
  <2>1. n \in Nat /\ m \in Nat /\ n \in S \cap (0..k)
    BY <1>2, <1>7, <1>8
  <2>2. UpTo(n) \in T /\ UpTo(n) \subseteq UpTo(m) /\ UpTo(n) # UpTo(m)
    BY <1>7, <1>8, <2>1
  <2>3. <<UpTo(n), UpTo(m)>> \in StrictSubsetOrdering(0..k)
    BY <1>5, <1>6, <1>7, <2>2 DEF StrictSubsetOrdering
  <2> QED
    BY <1>6, <1>7, <2>2, <2>3
<1> QED
  BY <1>2, <1>7, <1>8

-----------------------------------------------------------------------------
(* What Sum computes: the order in which the fold takes the indices does   *)
(* not matter.                                                             *)

\* The fold of Sum, over some of the indices of t.
SumOver(t, I) ==
    MapThenFoldSet(LAMBDA x, y : x + y, 0, LAMBDA i : t[i],
                   LAMBDA s : CHOOSE x \in s : TRUE, I)

Chosen(J) == CHOOSE x \in J : TRUE

\* f follows the recursive definition of the fold.
Follows(f, t, I) ==
    \A J \in SUBSET I :
        f[J] = IF J = {} THEN 0 ELSE t[Chosen(J)] + f[J \ {Chosen(J)}]

\* f is the recursive function the fold is defined by.
Adds(f, t, I) == f \in [SUBSET I -> Nat] /\ Follows(f, t, I)

\* f adds up as the fold does, on the sets of at most n indices.
AddsUpTo(n, f, t, I) ==
    /\ f \in [SUBSET I -> Nat]
    /\ \A J \in SUBSET I : Cardinality(J) <= n =>
        f[J] = IF J = {} THEN 0 ELSE t[Chosen(J)] + f[J \ {Chosen(J)}]

\* The subsets of a finite set, their cardinalities, and one element less.
LEMMA Sizing ==
    ASSUME NEW I, IsFiniteSet(I), NEW J \in SUBSET I
    PROVE  /\ IsFiniteSet(J) /\ Cardinality(J) \in Nat
           /\ Cardinality(J) <= Cardinality(I)
           /\ Cardinality(J) = 0 <=> J = {}
           /\ \A y \in J : Cardinality(J \ {y}) = Cardinality(J) - 1
           /\ J # {} => Chosen(J) \in J
<1>1. IsFiniteSet(J) /\ Cardinality(J) <= Cardinality(I)
  BY FS_Subset
<1>2. Cardinality(J) \in Nat /\ (Cardinality(J) = 0 <=> J = {})
  BY <1>1, FS_CardinalityType, FS_EmptySet
<1>3. ASSUME NEW y \in J
      PROVE  Cardinality(J \ {y}) = Cardinality(J) - 1
  BY <1>1, FS_RemoveElement
<1>4. J # {} => Chosen(J) \in J
  BY DEF Chosen
<1> QED
  BY <1>1, <1>2, <1>3, <1>4

\* The recursive function exists.
LEMMA AddsExists ==
    ASSUME NEW t, NEW I, IsFiniteSet(I), \A i \in I : t[i] \in Nat
    PROVE  \E f : Adds(f, t, I)
<1> DEFINE Bad == {n \in Nat : ~ \E f : AddsUpTo(n, f, t, I)}
<1>1. \E f : AddsUpTo(0, f, t, I)
  <2> DEFINE f == [J \in SUBSET I |-> 0]
  <2>1. \A J \in SUBSET I : Cardinality(J) <= 0 => J = {}
    BY Sizing
  <2>2. AddsUpTo(0, f, t, I)
    BY <2>1 DEF AddsUpTo
  <2> QED
    BY <2>2
<1>2. ASSUME NEW n \in Nat, NEW f, AddsUpTo(n, f, t, I)
      PROVE  \E g : AddsUpTo(n + 1, g, t, I)
  <2> DEFINE g == [J \in SUBSET I |->
                     IF J = {} \/ Cardinality(J) > n + 1 THEN 0
                     ELSE t[Chosen(J)] + f[J \ {Chosen(J)}]]
  <2>1. f \in [SUBSET I -> Nat]
    BY <1>2 DEF AddsUpTo
  <2>2. g \in [SUBSET I -> Nat]
    <3>1. ASSUME NEW J \in SUBSET I, J # {}
          PROVE  t[Chosen(J)] + f[J \ {Chosen(J)}] \in Nat
      <4>1. Chosen(J) \in I /\ J \ {Chosen(J)} \in SUBSET I
        BY <3>1, Sizing
      <4> QED
        BY <2>1, <4>1
    <3> QED
      BY <3>1
  <2>3. ASSUME NEW J \in SUBSET I, Cardinality(J) <= n
        PROVE  g[J] = f[J]
    <3>1. Cardinality(J) \in Nat
      BY Sizing
    <3>2. f[J] = IF J = {} THEN 0 ELSE t[Chosen(J)] + f[J \ {Chosen(J)}]
      BY <1>2, <2>3 DEF AddsUpTo
    <3> QED
      BY <2>3, <3>1, <3>2
  <2>4. ASSUME NEW J \in SUBSET I, Cardinality(J) <= n + 1
        PROVE  g[J] = IF J = {} THEN 0 ELSE t[Chosen(J)] + g[J \ {Chosen(J)}]
    <3>1. CASE J = {}
      BY <3>1
    <3>2. CASE J # {}
      <4>1. /\ J \ {Chosen(J)} \in SUBSET I
            /\ Cardinality(J) \in Nat
            /\ Cardinality(J \ {Chosen(J)}) = Cardinality(J) - 1
        BY <3>2, Sizing
      <4> DEFINE K == J \ {Chosen(J)}
      <4>2. g[K] = f[K]
        <5>1. K \in SUBSET I /\ Cardinality(K) <= n
          BY <2>4, <4>1
        <5> HIDE DEF g, K
        <5> QED
          BY <2>3, <5>1
      <4>3. g[J] = t[Chosen(J)] + f[J \ {Chosen(J)}]
        BY <2>4, <3>2, <4>1
      <4> QED
        BY <3>2, <4>2, <4>3
    <3> QED
      BY <3>1, <3>2
  <2>5. AddsUpTo(n + 1, g, t, I)
    <3> HIDE DEF g
    <3> QED
      BY <2>2, <2>4 DEF AddsUpTo
  <2> QED
    BY <2>5
<1>3. Bad = {}
  <2>1. SUFFICES ASSUME Bad # {} PROVE FALSE
    OBVIOUS
  <2>2. PICK m \in Bad : \A n \in Bad : m <= n
    <3>1. Bad \subseteq Nat
      OBVIOUS
    <3> HIDE DEF Bad
    <3> QED
      BY <2>1, <3>1, Smallest
  <2>3. m \in Nat /\ m # 0
    BY <1>1, <2>2
  <2>4. m - 1 \in Nat /\ m - 1 \notin Bad /\ (m - 1) + 1 = m
    BY <2>2, <2>3
  <2>5. PICK f : AddsUpTo(m - 1, f, t, I)
    BY <2>4
  <2>6. \E g : AddsUpTo((m - 1) + 1, g, t, I)
    <3> HIDE DEF Bad
    <3> QED
      BY <1>2, <2>4, <2>5
  <2> QED
    BY <2>2, <2>4, <2>6
<1>4. Cardinality(I) \in Nat
  BY FS_CardinalityType
<1>5. PICK f : AddsUpTo(Cardinality(I), f, t, I)
  BY <1>3, <1>4
<1>6. Adds(f, t, I)
  <2>1. \A J \in SUBSET I : Cardinality(J) <= Cardinality(I)
    BY Sizing
  <2> QED
    BY <1>5, <2>1 DEF Adds, Follows, AddsUpTo
<1> QED
  BY <1>6

\* There is one such function: two agree where their arguments do.
LEMMA FollowsOnce ==
    ASSUME NEW t, NEW u, NEW I, NEW K, NEW f, NEW g, IsFiniteSet(I),
           Follows(f, t, I), Follows(g, u, K),
           NEW L \in SUBSET I, L \in SUBSET K, \A i \in L : t[i] = u[i]
    PROVE  f[L] = g[L]
<1> DEFINE Off == {J \in SUBSET L : f[J] # g[J]}
           Bad == {Cardinality(J) : J \in Off}
<1>1. SUFFICES ASSUME f[L] # g[L] PROVE FALSE
  OBVIOUS
<1>2. Bad \subseteq Nat /\ Bad # {}
  BY <1>1, Sizing
<1>3. PICK m \in Bad : \A n \in Bad : m <= n
  <2> HIDE DEF Bad
  <2> QED
    BY <1>2, Smallest
<1>4. PICK J \in Off : m = Cardinality(J)
  BY <1>3
<1>5. J \in SUBSET I /\ J \in SUBSET K /\ J # {}
  BY <1>4 DEF Follows
<1>6. /\ Chosen(J) \in J /\ Cardinality(J) \in Nat
      /\ Cardinality(J \ {Chosen(J)}) = Cardinality(J) - 1
  BY <1>5, Sizing
<1>7. J \ {Chosen(J)} \notin Off
  <2>1. Cardinality(J \ {Chosen(J)}) \notin Bad
    <3> HIDE DEF Bad
    <3> QED
      BY <1>2, <1>3, <1>4, <1>6
  <2> QED
    BY <2>1
<1>8. f[J \ {Chosen(J)}] = g[J \ {Chosen(J)}]
  BY <1>4, <1>7
<1>9. t[Chosen(J)] = u[Chosen(J)]
  BY <1>4, <1>6
<1> QED
  BY <1>4, <1>5, <1>8, <1>9 DEF Follows

\* The fold is the value of that function.
LEMMA SumAdds ==
    ASSUME NEW t, NEW I, IsFiniteSet(I), \A i \in I : t[i] \in Nat
    PROVE  \E f : Adds(f, t, I) /\ SumOver(t, I) = f[I]
<1> DEFINE Rec(f) == f = [J \in SUBSET I |->
                            IF J = {} THEN 0
                            ELSE t[Chosen(J)] + f[J \ {Chosen(J)}]]
           iter == CHOOSE f : Rec(f)
<1>1. PICK f : Adds(f, t, I)
  BY AddsExists
<1>2. Rec(f)
  BY <1>1 DEF Adds, Follows
<1>3. Rec(iter)
  <2> HIDE DEF Rec
  <2> QED
    BY <1>2
<1>4. SumOver(t, I) = iter[I]
  BY DEF SumOver, MapThenFoldSet, Chosen
<1>5. Follows(iter, t, I)
  <2> HIDE DEF iter
  <2> QED
    BY <1>3 DEF Follows
<1>6. iter[I] = f[I]
  <2> HIDE DEF iter
  <2> QED
    BY <1>1, <1>5, FollowsOnce DEF Adds
<1> QED
  BY <1>1, <1>4, <1>6

\* Any index may be taken first.
LEMMA AddsAny ==
    ASSUME NEW t, NEW I, NEW f, IsFiniteSet(I), \A i \in I : t[i] \in Nat,
           Adds(f, t, I), NEW L \in SUBSET I, NEW z \in L
    PROVE  f[L] = t[z] + f[L \ {z}]
<1> DEFINE Off == {J \in SUBSET I : \E y \in J : f[J] # t[y] + f[J \ {y}]}
           Bad == {Cardinality(J) : J \in Off}
<1>1. SUFFICES ASSUME f[L] # t[z] + f[L \ {z}] PROVE FALSE
  OBVIOUS
<1>2. Bad \subseteq Nat /\ Bad # {}
  <2>1. L \in Off
    BY <1>1
  <2>2. \A J \in Off : Cardinality(J) \in Nat
    BY Sizing
  <2> HIDE DEF Off
  <2> QED
    BY <2>1, <2>2
<1>3. PICK m \in Bad : \A n \in Bad : m <= n
  <2> HIDE DEF Bad
  <2> QED
    BY <1>2, Smallest
<1>4. PICK J \in Off : m = Cardinality(J)
  BY <1>3
<1>5. PICK y \in J : f[J] # t[y] + f[J \ {y}]
  BY <1>4
<1> DEFINE x == Chosen(J)
<1>6. /\ J \in SUBSET I /\ J # {} /\ x \in J /\ Cardinality(J) \in Nat
      /\ Cardinality(J \ {x}) = Cardinality(J) - 1
      /\ Cardinality(J \ {y}) = Cardinality(J) - 1
  BY <1>4, <1>5, Sizing
<1> HIDE DEF x
<1>7. f[J] = t[x] + f[J \ {x}]
  BY <1>6 DEF Adds, Follows, x
<1>8. x # y
  BY <1>5, <1>7
<1>9. J \ {x} \notin Off /\ J \ {y} \notin Off
  <2>1. \A K \in Off : m <= Cardinality(K)
    BY <1>3
  <2> HIDE DEF Off, Bad
  <2> QED
    BY <1>4, <1>6, <2>1
<1>10. f[J \ {x}] = t[y] + f[(J \ {x}) \ {y}]
  BY <1>6, <1>8, <1>9
<1>11. f[J \ {y}] = t[x] + f[(J \ {y}) \ {x}]
  BY <1>5, <1>6, <1>8, <1>9
<1>12. (J \ {x}) \ {y} = (J \ {y}) \ {x}
  OBVIOUS
<1>13. /\ t[x] \in Nat /\ t[y] \in Nat
       /\ f[(J \ {x}) \ {y}] \in Nat
  BY <1>5, <1>6 DEF Adds
<1> HIDE DEF Off, Bad
<1>14. f[J] = t[x] + (t[y] + f[(J \ {x}) \ {y}])
  BY <1>7, <1>10
<1>15. t[y] + f[J \ {y}] = t[y] + (t[x] + f[(J \ {x}) \ {y}])
  BY <1>11, <1>12
<1>16. f[J] = t[y] + f[J \ {y}]
  <2>1. \A a, b, c \in Nat : a + (b + c) = b + (a + c)
    OBVIOUS
  <2> QED
    BY <1>13, <1>14, <1>15, <2>1
<1> QED
  BY <1>5, <1>16

\* A sum of naturals is a natural.
LEMMA SumTyped ==
    ASSUME NEW s \in Seq(Nat)
    PROVE  Sum(s) \in Nat
<1>1. IsFiniteSet(DOMAIN s) /\ \A i \in DOMAIN s : s[i] \in Nat
  BY FS_Interval
<1>2. Sum(s) = SumOver(s, DOMAIN s)
  BY DEF Sum, FoldSeq, FoldFunction, FoldFunctionOnSet, SumOver
<1>3. PICK f : Adds(f, s, DOMAIN s) /\ SumOver(s, DOMAIN s) = f[DOMAIN s]
  BY <1>1, SumAdds
<1> QED
  BY <1>2, <1>3 DEF Adds

\* Nothing adds up to nothing.
LEMMA SumEmpty == Sum(<<>>) = 0
<1>1. IsFiniteSet({}) /\ DOMAIN <<>> = {}
  BY FS_EmptySet
<1>2. Sum(<<>>) = SumOver(<<>>, {})
  BY <1>1 DEF Sum, FoldSeq, FoldFunction, FoldFunctionOnSet, SumOver
<1>3. PICK f : Adds(f, <<>>, {}) /\ SumOver(<<>>, {}) = f[{}]
  BY <1>1, SumAdds
<1> QED
  BY <1>2, <1>3 DEF Adds, Follows

\* One more buffer.
LEMMA SumAppend ==
    ASSUME NEW s \in Seq(Nat), NEW x \in Nat
    PROVE  Sum(Append(s, x)) = Sum(s) + x
<1> DEFINE t == Append(s, x)
           n == Len(s) + 1
           I == DOMAIN s
           K == DOMAIN t
<1>1. /\ I = 1..Len(s) /\ K = 1..n /\ K \ {n} = I /\ n \in K
      /\ t[n] = x /\ \A i \in I : t[i] = s[i]
      /\ \A i \in K : t[i] \in Nat
      /\ \A i \in I : s[i] \in Nat
  <2>1. /\ t \in Seq(Nat) /\ Len(t) = n /\ Len(s) \in Nat /\ t[n] = x
        /\ \A i \in 1..Len(s) : t[i] = s[i]
    BY AppendProperties
  <2>2. I = 1..Len(s) /\ K = 1..n
    BY <2>1
  <2>3. \A i \in K : t[i] \in Nat
    BY <2>1, <2>2
  <2>4. \A i \in I : s[i] \in Nat
    BY <2>2
  <2> QED
    BY <2>1, <2>2, <2>3, <2>4
<1>2. IsFiniteSet(I) /\ IsFiniteSet(K)
  BY <1>1, FS_Interval
<1>3. Sum(s) = SumOver(s, I) /\ Sum(t) = SumOver(t, K)
  BY DEF Sum, FoldSeq, FoldFunction, FoldFunctionOnSet, SumOver
<1> HIDE DEF t, n, I, K
<1>4. PICK f : Adds(f, s, I) /\ SumOver(s, I) = f[I]
  BY <1>1, <1>2, SumAdds
<1>5. PICK g : Adds(g, t, K) /\ SumOver(t, K) = g[K]
  BY <1>1, <1>2, SumAdds
<1>6. g[K] = x + g[I]
  <2>1. /\ IsFiniteSet(K) /\ Adds(g, t, K) /\ K \in SUBSET K /\ n \in K
        /\ \A i \in K : t[i] \in Nat
    BY <1>1, <1>2, <1>5
  <2>2. g[K] = t[n] + g[K \ {n}]
    BY <2>1, AddsAny
  <2> QED
    BY <1>1, <2>2
<1>7. g[I] = f[I]
  <2>1. I \in SUBSET I /\ I \in SUBSET K
    BY <1>1
  <2>2. Follows(g, t, K) /\ Follows(f, s, I)
    BY <1>4, <1>5 DEF Adds
  <2>3. \A i \in I : t[i] = s[i]
    BY <1>1
  <2> QED
    BY <1>2, <2>1, <2>2, <2>3, FollowsOnce
<1>8. f[I] \in Nat
  BY <1>4 DEF Adds
<1> QED
  BY <1>3, <1>4, <1>5, <1>6, <1>7, <1>8 DEF t

\* A run of buffers, and the run that takes one more.
LEMMA OneMore ==
    ASSUME NEW S, NEW s \in Seq(S), NEW i \in Nat \ {0}, NEW k \in Nat,
           i - 1 <= k, k < Len(s)
    PROVE  SubSeq(s, i, k + 1) = Append(SubSeq(s, i, k), s[k + 1])
<1>1. Len(s) \in Nat /\ k + 1 \in 1..Len(s) /\ i \in 1..Len(s) /\ k + 1 \in i..Len(s)
  OBVIOUS
<1>2. SubSeq(s, i, k + 1) = SubSeq(s, i, (k + 1) - 1) \o <<s[k + 1]>>
  BY <1>1, SubSeqRecursiveSecond
<1>3. (k + 1) - 1 = k
  OBVIOUS
<1>4. SubSeq(s, i, k) \in Seq(S) /\ s[k + 1] \in S
  <2>1. \A j \in i..k : s[j] \in S
    BY <1>1
  <2> QED
    BY <1>1, <2>1, SubSeqProperties
<1> QED
  BY <1>2, <1>3, <1>4, AppendIsConcat

\* A run of a sequence of naturals is one.
LEMMA Runs ==
    ASSUME NEW s \in Seq(Nat), NEW i \in Nat \ {0}, NEW k \in Nat, k <= Len(s)
    PROVE  SubSeq(s, i, k) \in Seq(Nat) /\ Sum(SubSeq(s, i, k)) \in Nat
<1>1. \A j \in i..k : s[j] \in Nat
  OBVIOUS
<1>2. SubSeq(s, i, k) \in Seq(Nat)
  BY <1>1, SubSeqProperties
<1> QED
  BY <1>2, SumTyped

\* What is in front and what comes after add up.
LEMMA SumSplit ==
    ASSUME NEW s \in Seq(Nat), NEW n \in 0..Len(s), NEW m \in n..Len(s)
    PROVE  Sum(SubSeq(s, 1, m)) = Sum(SubSeq(s, 1, n)) + Sum(SubSeq(s, n + 1, m))
<1> DEFINE Splits(k) ==
             Sum(SubSeq(s, 1, k)) = Sum(SubSeq(s, 1, n)) + Sum(SubSeq(s, n + 1, k))
           Bad == {k \in n..Len(s) : ~Splits(k)}
<1>1. Splits(n)
  <2>1. Sum(SubSeq(s, n + 1, n)) = 0
    <3>1. SubSeq(s, n + 1, n) = <<>>
      BY SubSeqEmpty
    <3> QED
      BY <3>1, SumEmpty
  <2>2. Sum(SubSeq(s, 1, n)) \in Nat
    BY Runs
  <2> QED
    BY <2>1, <2>2
<1>2. ASSUME NEW k \in n..Len(s) - 1, Splits(k)
      PROVE  Splits(k + 1)
  <2>1. /\ SubSeq(s, 1, k + 1) = Append(SubSeq(s, 1, k), s[k + 1])
        /\ SubSeq(s, n + 1, k + 1) = Append(SubSeq(s, n + 1, k), s[k + 1])
    BY OneMore
  <2>2. /\ SubSeq(s, 1, k) \in Seq(Nat) /\ SubSeq(s, n + 1, k) \in Seq(Nat)
        /\ Sum(SubSeq(s, 1, n)) \in Nat /\ Sum(SubSeq(s, n + 1, k)) \in Nat
        /\ s[k + 1] \in Nat
    <3>1. /\ n \in Nat /\ k \in Nat /\ k <= Len(s) /\ n <= Len(s)
          /\ 1 \in Nat \ {0} /\ n + 1 \in Nat \ {0} /\ k + 1 \in 1..Len(s)
      OBVIOUS
    <3>2. s[k + 1] \in Nat
      BY <3>1
    <3> QED
      BY <3>1, <3>2, Runs
  <2>3. /\ Sum(SubSeq(s, 1, k + 1)) = Sum(SubSeq(s, 1, k)) + s[k + 1]
        /\ Sum(SubSeq(s, n + 1, k + 1)) = Sum(SubSeq(s, n + 1, k)) + s[k + 1]
    BY <2>1, <2>2, SumAppend
  <2> QED
    BY <1>2, <2>2, <2>3
<1>3. SUFFICES ASSUME Bad # {} PROVE FALSE
  OBVIOUS
<1>4. Bad \subseteq Nat
  OBVIOUS
<1>5. PICK k \in Bad : \A j \in Bad : k <= j
  <2> HIDE DEF Bad
  <2> QED
    BY <1>3, <1>4, Smallest
<1>6. k \in n..Len(s) /\ k # n
  BY <1>1, <1>5
<1>7. k - 1 \in n..Len(s) - 1 /\ k - 1 \notin Bad /\ (k - 1) + 1 = k
  BY <1>5, <1>6
<1>8. Splits(k - 1)
  BY <1>7
<1>9. Splits((k - 1) + 1)
  <2> HIDE DEF Splits
  <2> QED
    BY <1>2, <1>7, <1>8
<1> QED
  BY <1>5, <1>7, <1>9

\* The buffers counted as done are in the queue, and fit in the credit.
LEMMA DoneFits ==
    ASSUME NEW s \in Seq(Nat), NEW credit \in Nat
    PROVE  /\ DoneBy(s, credit) \in 0..Len(s)
           /\ Sum(SubSeq(s, 1, DoneBy(s, credit))) <= credit
<1> DEFINE G == {n \in 1..Len(s) : Sum(SubSeq(s, 1, n)) <= credit}
           U == {n \in 1..Len(s) + 1 : n \notin G}
<1>1. U \subseteq Nat /\ Len(s) + 1 \in U
  OBVIOUS
<1>2. PICK u \in U : \A n \in U : u <= n
  <2> HIDE DEF U
  <2> QED
    BY <1>1, Smallest
<1>3. G = 1..u - 1
  <2>1. ASSUME NEW n \in 1..u - 1
        PROVE  n \in G
    BY <1>2
  <2>2. ASSUME NEW n \in G, u <= n
        PROVE  FALSE
    <3>1. u \in 1..Len(s) /\ n \in u..Len(s) /\ n \in Nat /\ u \in Nat
      BY <1>2, <2>2
    <3>2. Sum(SubSeq(s, 1, n)) = Sum(SubSeq(s, 1, u)) + Sum(SubSeq(s, u + 1, n))
      BY <3>1, SumSplit
    <3>3. Sum(SubSeq(s, 1, u)) \in Nat /\ Sum(SubSeq(s, u + 1, n)) \in Nat
      <4>1. u \in Nat /\ u <= Len(s) /\ u + 1 \in Nat \ {0} /\ n <= Len(s)
        BY <3>1
      <4> QED
        BY <3>1, <4>1, Runs
    <3>4. Sum(SubSeq(s, 1, n)) <= credit
      BY <2>2
    <3> QED
      BY <1>2, <3>1, <3>2, <3>3, <3>4
  <2> QED
    BY <1>2, <2>1, <2>2
<1>4. u - 1 \in 0..Len(s)
  BY <1>2
<1>5. DoneBy(s, credit) = u - 1
  <2>1. Cardinality(1..u - 1) = u - 1
    BY <1>4, FS_Interval
  <2> QED
    BY <1>3, <2>1 DEF DoneBy
<1>6. Sum(SubSeq(s, 1, u - 1)) <= credit
  <2>1. CASE u - 1 \in 1..Len(s)
    <3>1. u - 1 \in G
      BY <1>3, <2>1
    <3> QED
      BY <3>1
  <2>2. CASE u - 1 = 0
    <3>1. SubSeq(s, 1, u - 1) = <<>>
      BY <2>2, SubSeqEmpty
    <3>2. Sum(SubSeq(s, 1, u - 1)) = 0
      BY <3>1, SumEmpty
    <3> QED
      BY <3>2
  <2> QED
    BY <1>4, <2>1, <2>2
<1> QED
  BY <1>4, <1>5, <1>6

-----------------------------------------------------------------------------
(* The list of players and the clock's arithmetic.                         *)

\* The smaller and the larger of two numbers.
LEMMA OfTwo ==
    ASSUME NEW a \in Int, NEW b \in Int
    PROVE  /\ Min({a, b}) \in {a, b} /\ Min({a, b}) <= a /\ Min({a, b}) <= b
           /\ Max({a, b}) \in {a, b} /\ Max({a, b}) >= a /\ Max({a, b}) >= b
<1>1. \E x \in {a, b} : \A y \in {a, b} : x <= y
  OBVIOUS
<1>2. \E x \in {a, b} : \A y \in {a, b} : x >= y
  OBVIOUS
<1>3. Min({a, b}) \in {a, b} /\ \A y \in {a, b} : Min({a, b}) <= y
  BY <1>1 DEF Min
<1>4. Max({a, b}) \in {a, b} /\ \A y \in {a, b} : Max({a, b}) >= y
  BY <1>2 DEF Max
<1> QED
  BY <1>3, <1>4

\* A uint32_t stays in its range, and so does the decaying gap.
LEMMA Wraps ==
    /\ \A x \in Int : x % Word \in 0..Word - 1
    /\ \A x \in 0..Word - 1 : x \div 64 \in 0..Word - 1
<1>1. Word \in Nat /\ Word > 0
  BY WordAssumption, PumpAssumption
<1>2. \A x \in Int : x % Word \in 0..Word - 1
  BY <1>1
<1>3. \A x \in 0..Word - 1 : x \div 64 \in 0..Word - 1
  BY <1>1
<1> QED
  BY <1>2, <1>3

\* The place of a player in the list.
Place(s, p) == SelectInSeq(s, LAMBDA q : q = p)

\* Every player of the list has a place in it.
LEMMA PlaceOf ==
    ASSUME NEW s \in Seq(Players), NEW p \in ToSet(s)
    PROVE  Place(s, p) \in 1..Len(s) /\ s[Place(s, p)] = p
<1> DEFINE I == {i \in 1..Len(s) : s[i] = p}
<1>1. I # {} /\ I \subseteq Nat
  BY DEF ToSet
<1>2. Min(I) \in I
  <2>1. \E m \in I : \A n \in I : m <= n
    <3> HIDE DEF I
    <3> QED
      BY <1>1, Smallest
  <2> HIDE DEF I
  <2> QED
    BY <2>1 DEF Min
<1>3. Place(s, p) = Min(I)
  BY <1>1 DEF Place, SelectInSeq
<1> QED
  BY <1>2, <1>3

\* What comes after a player of the list is of the list.
LEMMA AfterIsLive ==
    ASSUME g_players \in Seq(Players), NEW p \in ToSet(g_players), After(p) # <<>>
    PROVE  Head(After(p)) \in ToSet(g_players)
<1> DEFINE i == Place(g_players, p)
<1>1. i \in 1..Len(g_players)
  BY PlaceOf
<1> HIDE DEF i
<1>2. After(p) = SubSeq(g_players, i + 1, Len(g_players))
  BY DEF After, Place, i
<1>3. i + 1 \in 1..Len(g_players)
  BY <1>1, <1>2, SubSeqEmpty
<1>4. Head(After(p)) = g_players[i + 1]
  BY <1>2, <1>3, HeadTailOfSubSeq
<1> QED
  BY <1>3, <1>4 DEF ToSet

\* Taking a player out of the list leaves a list of distinct players.
LEMMA Removed ==
    ASSUME NEW s \in Seq(Players), IsInjective(s), NEW p \in ToSet(s)
    PROVE  RemoveFirst(s, p) \in Seq(Players) /\ IsInjective(RemoveFirst(s, p))
<1> DEFINE i == Place(s, p)
           a == SubSeq(s, 1, i - 1)
           b == SubSeq(s, i + 1, Len(s))
<1>1. i \in 1..Len(s) /\ Len(s) \in Nat
  BY PlaceOf
<1>2. RemoveFirst(s, p) = a \o b
  <2>1. \E j \in 1..Len(s) : s[j] = p
    BY DEF ToSet
  <2> QED
    BY <2>1 DEF RemoveFirst, RemoveAt, Place
<1> HIDE DEF i
<1>3. /\ a \in Seq(Players) /\ Len(a) = i - 1 /\ \A j \in 1..i - 1 : a[j] = s[j]
  <2>1. \A j \in 1..i - 1 : s[j] \in Players
    BY <1>1
  <2> QED
    BY <1>1, <2>1, SubSeqProperties
<1>4. /\ b \in Seq(Players) /\ Len(b) = Len(s) - i
      /\ \A j \in 1..Len(s) - i : b[j] = s[i + j]
  <2>1. \A j \in i + 1..Len(s) : s[j] \in Players
    BY <1>1
  <2>2. /\ SubSeq(s, i + 1, Len(s)) \in Seq(Players)
        /\ Len(SubSeq(s, i + 1, Len(s))) = IF i + 1 <= Len(s) THEN Len(s) - (i + 1) + 1 ELSE 0
        /\ \A j \in 1..Len(s) - (i + 1) + 1 : SubSeq(s, i + 1, Len(s))[j] = s[(i + 1) + j - 1]
    BY <1>1, <2>1, SubSeqProperties
  <2> QED
    BY <1>1, <2>2
<1> HIDE DEF a, b
<1>5. /\ a \o b \in Seq(Players) /\ Len(a \o b) = Len(s) - 1
      /\ \A j \in 1..Len(s) - 1 : (a \o b)[j] = IF j <= i - 1 THEN s[j] ELSE s[j + 1]
  <2>1. /\ a \o b \in Seq(Players) /\ Len(a \o b) = Len(a) + Len(b)
        /\ \A j \in 1..Len(a) + Len(b) : (a \o b)[j] = IF j <= Len(a) THEN a[j] ELSE b[j - Len(a)]
    BY <1>3, <1>4, ConcatProperties
  <2>2. ASSUME NEW j \in 1..Len(s) - 1
        PROVE  (a \o b)[j] = IF j <= i - 1 THEN s[j] ELSE s[j + 1]
    <3>1. CASE j <= i - 1
      BY <1>1, <1>3, <1>4, <2>1, <3>1
    <3>2. CASE j > i - 1
      <4>1. (a \o b)[j] = b[j - (i - 1)] /\ j - (i - 1) \in 1..Len(s) - i
        BY <1>1, <1>3, <1>4, <2>1, <3>2
      <4>2. b[j - (i - 1)] = s[i + (j - (i - 1))] /\ i + (j - (i - 1)) = j + 1
        BY <1>1, <1>4, <4>1
      <4> QED
        BY <1>1, <3>2, <4>1, <4>2
    <3>3. j <= i - 1 \/ j > i - 1
      BY <1>1
    <3> QED
      BY <3>1, <3>2, <3>3
  <2> QED
    BY <1>1, <1>3, <1>4, <2>1, <2>2
<1>6. IsInjective(a \o b)
  <2>1. DOMAIN (a \o b) = 1..Len(s) - 1
    BY <1>5
  <2>2. ASSUME NEW j \in 1..Len(s) - 1, NEW k \in 1..Len(s) - 1, (a \o b)[j] = (a \o b)[k]
        PROVE  j = k
    <3>1. DOMAIN s = 1..Len(s) /\ \A m, n \in 1..Len(s) : s[m] = s[n] => m = n
      BY DEF IsInjective
    <3> DEFINE At(m) == IF m <= i - 1 THEN m ELSE m + 1
    <3>2. At(j) \in 1..Len(s) /\ At(k) \in 1..Len(s) /\ (At(j) = At(k) => j = k)
      BY <1>1
    <3>3. (a \o b)[j] = s[At(j)] /\ (a \o b)[k] = s[At(k)]
      BY <1>5
    <3> HIDE DEF At
    <3> QED
      BY <2>2, <3>1, <3>2, <3>3
  <2> QED
    BY <2>1, <2>2 DEF IsInjective
<1> QED
  BY <1>2, <1>5, <1>6

\* A player put in front of a list it is not on.
LEMMA Prepended ==
    ASSUME NEW s \in Seq(Players), IsInjective(s), NEW p \in Players, p \notin ToSet(s)
    PROVE  /\ <<p>> \o s \in Seq(Players) /\ IsInjective(<<p>> \o s)
           /\ ToSet(s) \subseteq ToSet(<<p>> \o s)
<1> DEFINE t == <<p>> \o s
<1>1. /\ t \in Seq(Players) /\ Len(t) = Len(s) + 1 /\ Len(s) \in Nat
      /\ t[1] = p /\ \A j \in 1..Len(s) : t[j + 1] = s[j]
  <2>1. <<p>> \in Seq(Players) /\ Len(<<p>>) = 1 /\ <<p>>[1] = p
    OBVIOUS
  <2>2. /\ t \in Seq(Players) /\ Len(t) = 1 + Len(s)
        /\ \A j \in 1..1 + Len(s) : t[j] = IF j <= 1 THEN <<p>>[j] ELSE s[j - 1]
    BY <2>1, ConcatProperties
  <2> HIDE DEF t
  <2> QED
    BY <2>1, <2>2
<1> HIDE DEF t
<1>2. \A j \in 2..Len(t) : j - 1 \in 1..Len(s) /\ t[j] = s[j - 1]
  BY <1>1
<1>3. DOMAIN s = 1..Len(s) /\ \A m, n \in 1..Len(s) : s[m] = s[n] => m = n
  BY DEF IsInjective
<1>4. \A j \in 1..Len(s) : s[j] # p
  BY <1>3 DEF ToSet
<1>5. IsInjective(t)
  <2>1. ASSUME NEW j \in 1..Len(t), NEW k \in 1..Len(t), t[j] = t[k]
        PROVE  j = k
    <3>1. /\ j # 1 => j - 1 \in 1..Len(s) /\ t[j] = s[j - 1]
          /\ k # 1 => k - 1 \in 1..Len(s) /\ t[k] = s[k - 1]
      BY <1>1, <1>2
    <3>2. CASE j = 1 \/ k = 1
      BY <1>1, <1>4, <2>1, <3>1, <3>2
    <3>3. CASE j # 1 /\ k # 1
      <4>1. j - 1 = k - 1
        BY <1>3, <2>1, <3>1, <3>3
      <4> QED
        BY <1>1, <4>1
    <3> QED
      BY <3>2, <3>3
  <2> QED
    BY <1>1, <2>1 DEF IsInjective
<1>6. ToSet(s) \subseteq ToSet(t)
  BY <1>1, <1>3 DEF ToSet
<1> QED
  BY <1>1, <1>5, <1>6 DEF t

-----------------------------------------------------------------------------
(* The inductive invariant.                                                *)

PumpType ==
    [at : {"idle", "visit", "measure", "retire", "refill", "next", "undefined"},
     cur : Players \cup {NoPlayer}, snap : 0..MaxGap, elapsed : 0..Word - 1,
     done : Nat, target : 0..TargetHigh, queued : Nat, calls : 0..MaxCalls,
     declined : BOOLEAN]

GameType ==
    [at : {"idle", "drop_device", "drop_pending", "stamp"},
     p : Players \cup {NoPlayer}, to : PlayStates]

Typed == TypeOK /\ pump \in PumpType /\ game \in GameType

\* A player that was not realized has nothing to play and nobody to ask.
FreshIsEmpty ==
    \A p \in Players : ~pl[p].realized =>
        /\ ~pl[p].device /\ ~pl[p].callback
        /\ pl[p].queued = 0 /\ pl[p].pending = <<>>

\* The pump works on a realized player.
WorksOnRealized ==
    pump.at \in {"measure", "retire", "refill"} => pl[pump.cur].realized

\* The game's call holds a player; one that stops it meets no pump, or is recorded.
CallPlaced ==
    /\ game.at # "idle" => game.p \in Players
    /\ game.at \in Dropping /\ game.p \notin raced => pump.at = "idle"

\* SetPlayState empties the queue after the device.
DroppedInOrder ==
    game.at = "drop_pending" /\ game.p \notin raced => pl[game.p].queued = 0

Covered ==
    \A p \in Players \ raced : pl[p].device => pl[p].queued <= Sum(pl[p].pending)

\* What was counted as done can go without uncovering the device.
DoneIsPlayed ==
    pump.at = "retire" /\ pump.cur \notin raced =>
        LET r == pl[pump.cur]
        IN  /\ pump.done \in 0..Len(r.pending)
            /\ r.device => r.queued + Sum(SubSeq(r.pending, 1, pump.done)) <= Sum(r.pending)

Base == Typed /\ FreshIsEmpty /\ CursorIsLive /\ WorksOnRealized /\ CallPlaced

Held == Base /\ DroppedInOrder /\ Covered /\ DoneIsPlayed

\* The record of one player changes to another record of a player.
LEMMA PlayerChange ==
    ASSUME pl \in [Players -> Player], NEW p, NEW r,
           p \in Players => r \in Player
    PROVE  [pl EXCEPT ![p] = r] \in [Players -> Player]
OBVIOUS

\* One field of a player's record changes within its type.
LEMMA FieldChange ==
    ASSUME NEW r \in Player
    PROVE  /\ \A x \in BOOLEAN : /\ [r EXCEPT !.realized = x] \in Player
                                 /\ [r EXCEPT !.device = x] \in Player
                                 /\ [r EXCEPT !.unpaused = x] \in Player
                                 /\ [r EXCEPT !.callback = x] \in Player
           /\ \A n \in Nat : [r EXCEPT !.queued = n] \in Player
           /\ \A b \in Seq(Sizes) : [r EXCEPT !.pending = b] \in Player
           /\ \A to \in PlayStates : [r EXCEPT !.state = to] \in Player
           /\ \A t \in 0..MaxGap : [r EXCEPT !.since = t] \in Player
           /\ \A g \in 0..Word - 1 : [r EXCEPT !.gap = g] \in Player
           /\ \A c \in 0..MaxCarry : [r EXCEPT !.carry = c] \in Player
BY DEF Player

\* A played buffer, a stamp or a new depth leave a record of a player.
LEMMA PlayerFields ==
    ASSUME NEW r \in Player
    PROVE  /\ DOMAIN r = {"realized", "device", "unpaused", "queued", "pending", "state",
                          "callback", "since", "gap", "carry"}
           /\ r.device \in BOOLEAN /\ r.queued \in Nat /\ r.pending \in Seq(Sizes)
           /\ r.pending \in Seq(Nat) /\ r.since \in 0..MaxGap
           /\ r.gap \in 0..Word - 1 /\ r.carry \in 0..MaxCarry /\ r.state \in PlayStates
           /\ \A size \in Sizes : Enqueued(r, size) \in Player
<1>1. Sizes \subseteq Nat
  BY SizeAssumption
<1>2. r.pending \in Seq(Nat)
  <2>1. r.pending \in Seq(Sizes)
    BY DEF Player
  <2> QED
    BY <1>1, <2>1, SeqMonotonic
<1>3. ASSUME NEW size \in Sizes
      PROVE  Enqueued(r, size) \in Player
  <2> DEFINE m == [r EXCEPT !.pending = Append(@, size)]
             n == IF r.device THEN r.queued + size ELSE r.queued
  <2>1. Append(r.pending, size) \in Seq(Sizes) /\ n \in Nat
    BY <1>1, AppendProperties DEF Player
  <2>2. m \in Player
    BY <2>1, FieldChange
  <2>3. Enqueued(r, size) = [m EXCEPT !.queued = n]
    BY DEF Enqueued, Player
  <2> HIDE DEF m, n
  <2> QED
    BY <2>1, <2>2, <2>3, FieldChange
<1> QED
  BY <1>2, <1>3 DEF Player

\* Types of the constants.
LEMMA Constants ==
    /\ Sizes \subseteq Nat /\ MaxGap \in Nat /\ Word \in Nat /\ Word > MaxGap /\ Word > 0
    /\ TargetLow \in Nat /\ TargetHigh \in Nat /\ MaxCalls \in Nat /\ MaxCarry \in Nat
BY SizeAssumption, PumpAssumption, WordAssumption, BoundAssumption

\* The target stays under its clamp, and the gap under the width of its type.
LEMMA TargetTyped ==
    ASSUME NEW gap \in 0..Word - 1, NEW elapsed \in 0..Word - 1
    PROVE  Gap(gap, elapsed) \in 0..Word - 1 /\ Target(gap) \in 0..TargetHigh
<1>1. Gap(gap, elapsed) \in 0..Word - 1
  <2>1. gap * 63 \in Int
    BY Constants
  <2>2. ((gap * 63) % Word) \div 64 \in 0..Word - 1
    BY <2>1, Wraps
  <2> QED
    BY <2>2 DEF Gap
<1>2. (gap * 3) % Word \in Nat
  <2>1. gap * 3 \in Int
    BY Constants
  <2> QED
    BY <2>1, Wraps, Constants
<1>3. Max({(gap * 3) % Word, TargetLow}) \in Nat
  <2> DEFINE a == (gap * 3) % Word
  <2>1. a \in Nat /\ a \in Int /\ TargetLow \in Int
    BY <1>2, Constants
  <2> HIDE DEF a
  <2>2. Max({a, TargetLow}) \in {a, TargetLow}
    BY <2>1, OfTwo
  <2>3. Max({a, TargetLow}) \in Nat
    BY <2>1, <2>2, Constants
  <2> QED
    BY <2>3 DEF a
<1>4. Target(gap) \in 0..TargetHigh
  <2> DEFINE m == Max({(gap * 3) % Word, TargetLow})
  <2>1. m \in Int /\ m \in Nat
    BY <1>3
  <2>2. Target(gap) = Min({m, TargetHigh})
    BY DEF Target
  <2> HIDE DEF m
  <2>3. TargetHigh \in Nat /\ TargetHigh \in Int
    BY Constants
  <2>4. Min({m, TargetHigh}) \in {m, TargetHigh} /\ Min({m, TargetHigh}) <= TargetHigh
    BY <2>1, <2>3, OfTwo
  <2> QED
    BY <2>1, <2>2, <2>3, <2>4
<1> QED
  BY <1>1, <1>4

\* The state of the start is of its types.
LEMMA TypedInit == Init => Typed
<1> SUFFICES ASSUME Init PROVE Typed
  OBVIOUS
<1>1. Created \in Player /\ Idle \in PumpType /\ Quiet \in GameType
  BY Constants, EmptySeq DEF Created, Player, PlayStates, Stopped, Idle, PumpType, Quiet, GameType
<1>2. g_players \in Seq(Players) /\ IsInjective(g_players)
  <2>1. DOMAIN g_players = {} /\ g_players \in Seq(Players)
    BY DEF Init
  <2> QED
    BY <2>1 DEF IsInjective
<1>3. pl \in [Players -> Player] /\ pump \in PumpType /\ game \in GameType
  BY <1>1 DEF Init
<1> QED
  BY <1>2, <1>3 DEF Init, Typed, TypeOK, PumpType, GameType

\* TypeOK says of the fields what the types of the records say.
LEMMA TypedFields ==
    ASSUME g_players \in Seq(Players), IsInjective(g_players), pl \in [Players -> Player],
           run \in BOOLEAN, thread \in BOOLEAN, pump \in PumpType, game \in GameType,
           raced \subseteq Players
    PROVE  Typed
BY DEF Typed, TypeOK, PumpType, GameType

\* The objects and the queue: what the game calls.
LEMMA TypedCall ==
    ASSUME Typed, NEW p \in Players, GameCall(p)
    PROVE  Typed'
<1> USE DEF TypeOK
<1>1. /\ g_players \in Seq(Players) /\ IsInjective(g_players) /\ pl \in [Players -> Player]
      /\ run \in BOOLEAN /\ thread \in BOOLEAN /\ pump \in PumpType /\ game \in GameType
      /\ raced \subseteq Players
      /\ pl[p] \in Player
  BY DEF Typed
<1>2. Created \in Player
  BY Constants, EmptySeq DEF Created, Player, PlayStates, Stopped
<1>3. CASE CreateAudioPlayer(p)
  <2>1. g_players' \in Seq(Players) /\ IsInjective(g_players')
    BY <1>1, <1>3, Prepended DEF CreateAudioPlayer
  <2>2. pl' \in [Players -> Player]
    BY <1>1, <1>2, <1>3, PlayerChange DEF CreateAudioPlayer
  <2> QED
    BY <1>1, <1>3, <2>1, <2>2 DEF CreateAudioPlayer, Typed, PumpType, GameType
<1>4. CASE Realize(p)
  <2>1. PICK opened \in BOOLEAN :
          /\ pl' = [pl EXCEPT ![p].device = opened, ![p].realized = TRUE, ![p].since = 0]
          /\ audio_thread_start(opened)
    BY <1>4, SwitchAssumption DEF Realize
  <2>2. [pl[p] EXCEPT !.device = opened, !.realized = TRUE, !.since = 0] \in Player
    <3> DEFINE a == [pl[p] EXCEPT !.device = opened]
               b == [a EXCEPT !.realized = TRUE]
    <3>0. 0 \in 0..MaxGap
      BY Constants
    <3>1. a \in Player
      BY <1>1, FieldChange
    <3>2. b \in Player
      <4> HIDE DEF a
      <4> QED
        BY <3>0, <3>1, FieldChange
    <3>3. [b EXCEPT !.since = 0] \in Player
      <4> HIDE DEF b
      <4> QED
        BY <3>0, <3>2, FieldChange
    <3> QED
      BY <3>3
  <2>3. pl' \in [Players -> Player]
    BY <1>1, <2>1, <2>2, PlayerChange
  <2>4. run' \in BOOLEAN /\ thread' \in BOOLEAN
    BY <1>1, <2>1 DEF audio_thread_start
  <2> QED
    BY <1>1, <1>4, <2>3, <2>4 DEF Realize, Typed, PumpType, GameType
<1>5. CASE Destroy(p)
  <2>1. g_players' \in Seq(Players) /\ IsInjective(g_players')
    BY <1>1, <1>5, Removed DEF Destroy, Calling
  <2>2. pl' \in [Players -> Player]
    BY <1>1, <1>2, <1>5, PlayerChange DEF Destroy
  <2> QED
    BY <1>1, <1>5, <2>1, <2>2 DEF Destroy, Typed, PumpType, GameType
<1>6. CASE Clear(p)
  <2>1. [pl[p] EXCEPT !.queued = 0, !.pending = <<>>, !.carry = 0] \in Player
    <3> DEFINE a == [pl[p] EXCEPT !.queued = 0]
               b == [a EXCEPT !.pending = <<>>]
    <3>0. 0 \in Nat /\ 0 \in 0..MaxCarry /\ <<>> \in Seq(Sizes)
      BY Constants, EmptySeq
    <3>1. a \in Player
      BY <1>1, <3>0, FieldChange
    <3>2. b \in Player
      <4> HIDE DEF a
      <4> QED
        BY <3>0, <3>1, FieldChange
    <3>3. [b EXCEPT !.carry = 0] \in Player
      <4> HIDE DEF b
      <4> QED
        BY <3>0, <3>2, FieldChange
    <3> QED
      BY <3>3
  <2>2. pl' \in [Players -> Player]
    BY <1>1, <1>6, <2>1, PlayerChange DEF Clear
  <2> QED
    BY <1>1, <1>6, <2>2 DEF Clear, Typed, PumpType, GameType
<1>7. CASE RegisterCallback(p)
  <2>1. PICK cb \in BOOLEAN : pl' = [pl EXCEPT ![p].callback = cb]
    BY <1>7 DEF RegisterCallback
  <2>2. [pl[p] EXCEPT !.callback = cb] \in Player
    BY <1>1 DEF Player
  <2>3. pl' \in [Players -> Player]
    BY <1>1, <2>1, <2>2, PlayerChange
  <2> QED
    BY <1>1, <1>7, <2>3 DEF RegisterCallback, Typed, PumpType, GameType
<1>8. ASSUME NEW size \in Sizes, Enqueue(p, size)
      PROVE  Typed'
  <2>1. pl' \in [Players -> Player]
    BY <1>1, <1>8, PlayerFields, PlayerChange DEF Enqueue
  <2> QED
    BY <1>1, <1>8, <2>1 DEF Enqueue, Typed, PumpType, GameType
<1>9. ASSUME NEW to \in PlayStates, SetPlayState(p, to)
      PROVE  Typed'
  <2>1. [pl[p] EXCEPT !.state = to, !.unpaused = IF pl[p].device THEN to = Playing ELSE @] \in Player
    BY <1>1 DEF Player
  <2>2. pl' \in [Players -> Player]
    BY <1>1, <1>9, <2>1, PlayerChange DEF SetPlayState
  <2>3. game' \in GameType
    BY <1>1, <1>9 DEF SetPlayState, GameType
  <2> QED
    BY <1>1, <1>9, <2>2, <2>3 DEF SetPlayState, Typed, PumpType, GameType
<1> QED
  BY <1>3, <1>4, <1>5, <1>6, <1>7, <1>8, <1>9 DEF GameCall

\* The rest of SetPlayState, the sound device and the clock.
LEMMA TypedOutside ==
    ASSUME Typed, SetPlayStateStep \/ SDL_GetTicks \/ \E p \in Players : Drain(p)
    PROVE  Typed'
<1> USE DEF TypeOK
<1>1. /\ g_players \in Seq(Players) /\ IsInjective(g_players) /\ pl \in [Players -> Player]
      /\ run \in BOOLEAN /\ thread \in BOOLEAN /\ pump \in PumpType /\ game \in GameType
      /\ raced \subseteq Players
  BY DEF Typed
<1>2. CASE SetPlayStateStep
  <2> DEFINE p == game.p
  <2>0. 0 \in Nat /\ 0 \in 0..MaxGap /\ <<>> \in Seq(Sizes)
    BY Constants, EmptySeq
  <2>1. p \in Players =>
          /\ [pl[p] EXCEPT !.queued = 0] \in Player
          /\ [pl[p] EXCEPT !.pending = <<>>] \in Player
          /\ [pl[p] EXCEPT !.since = 0] \in Player
    BY <1>1, <2>0, FieldChange
  <2>2. pl' \in [Players -> Player]
    <3>1. \/ pl' = [pl EXCEPT ![p].queued = 0]
          \/ pl' = [pl EXCEPT ![p].pending = <<>>]
          \/ pl' = [pl EXCEPT ![p].since = 0]
      BY <1>2 DEF SetPlayStateStep
    <3> HIDE DEF p
    <3> QED
      BY <1>1, <2>1, <3>1, PlayerChange
  <2>3. Quiet \in GameType
    BY DEF Quiet, GameType, PlayStates, Stopped
  <2>4. game' \in GameType
    <3>1. \/ game' = [game EXCEPT !.at = "drop_pending"]
          \/ game' = [game EXCEPT !.at = "stamp"]
          \/ game' = Quiet
      BY <1>2 DEF SetPlayStateStep
    <3> QED
      BY <1>1, <2>3, <3>1 DEF GameType
  <2>5. UNCHANGED <<g_players, run, thread, pump, raced>>
    BY <1>2 DEF SetPlayStateStep
  <2> QED
    BY <1>1, <2>2, <2>4, <2>5 DEF Typed, PumpType, GameType
<1>3. ASSUME SDL_GetTicks
      PROVE  Typed'
  <2>1. ASSUME NEW p \in Players
        PROVE  [pl[p] EXCEPT !.since = Min({@ + 1, MaxGap})] \in Player
    <3> DEFINE n == pl[p].since + 1
    <3>1. pl[p] \in Player /\ n \in Int /\ n >= 0 /\ MaxGap \in Int /\ MaxGap >= 0
      BY <1>1, Constants DEF Player
    <3> HIDE DEF n
    <3>2. Min({n, MaxGap}) \in {n, MaxGap} /\ Min({n, MaxGap}) <= MaxGap
      BY <3>1, OfTwo
    <3>3. Min({n, MaxGap}) \in 0..MaxGap
      BY <3>1, <3>2
    <3>4. [pl[p] EXCEPT !.since = Min({n, MaxGap})] \in Player
      BY <3>1, <3>3, FieldChange
    <3> QED
      BY <3>4 DEF n
  <2>2. pl' \in [Players -> Player]
    BY <1>3, <2>1 DEF SDL_GetTicks
  <2>3. pump' \in PumpType
    <3>1. CASE pump.at = "idle"
      BY <1>1, <1>3, <3>1 DEF SDL_GetTicks
    <3>2. CASE pump.at # "idle"
      <4>1. pump.snap + 1 \in 0..MaxGap
        BY <1>1, <1>3, <3>2, Constants DEF SDL_GetTicks, PumpType
      <4>2. pump' = [pump EXCEPT !.snap = @ + 1]
        BY <1>3, <3>2 DEF SDL_GetTicks
      <4> QED
        BY <1>1, <4>1, <4>2 DEF PumpType
    <3> QED
      BY <3>1, <3>2
  <2>4. UNCHANGED <<g_players, run, thread, game, raced>>
    BY <1>3 DEF SDL_GetTicks
  <2> QED
    BY <1>1, <2>2, <2>3, <2>4 DEF Typed, PumpType, GameType
<1>4. ASSUME NEW p \in Players, Drain(p)
      PROVE  Typed'
  <2>1. pl[p] \in Player /\ pl[p].queued - 1 \in Nat
    BY <1>1, <1>4 DEF Drain, Player
  <2>2. [pl[p] EXCEPT !.queued = @ - 1] \in Player
    BY <2>1, FieldChange
  <2>3. pl' \in [Players -> Player]
    BY <1>1, <1>4, <2>2, PlayerChange DEF Drain
  <2> QED
    BY <1>1, <1>4, <2>3 DEF Drain, Typed, PumpType, GameType
<1> QED
  BY <1>2, <1>3, <1>4

\* The locals the pump starts a player with, and leaves it with.
LEMMA PumpPlaces ==
    ASSUME pump \in PumpType
    PROVE  /\ Idle \in PumpType
           /\ \A p \in Players, snap \in 0..MaxGap :
                [Idle EXCEPT !.at = "visit", !.cur = p, !.snap = snap] \in PumpType
           /\ \A p \in Players : [Idle EXCEPT !.at = "visit", !.cur = p] \in PumpType
           /\ \A d \in BOOLEAN : Leaving(d) \in PumpType
<1>1. Idle \in PumpType
  BY Constants DEF Idle, PumpType
<1>2. ASSUME NEW p \in Players
      PROVE  /\ [Idle EXCEPT !.at = "visit", !.cur = p] \in PumpType
             /\ \A snap \in 0..MaxGap :
                  [Idle EXCEPT !.at = "visit", !.cur = p, !.snap = snap] \in PumpType
  <2> DEFINE a == [Idle EXCEPT !.at = "visit"]
             b == [a EXCEPT !.cur = p]
  <2>1. a \in PumpType
    BY <1>1 DEF PumpType
  <2>2. b \in PumpType
    <3> HIDE DEF a
    <3> QED
      BY <2>1 DEF PumpType
  <2>3. \A snap \in 0..MaxGap : [b EXCEPT !.snap = snap] \in PumpType
    <3> HIDE DEF b
    <3> QED
      BY <2>2 DEF PumpType
  <2> QED
    BY <2>2, <2>3
<1>3. ASSUME NEW d \in BOOLEAN
      PROVE  Leaving(d) \in PumpType
  <2> DEFINE a == [Idle EXCEPT !.at = "next"]
             b == [a EXCEPT !.cur = pump.cur]
             c == [b EXCEPT !.snap = pump.snap]
  <2>1. a \in PumpType
    BY <1>1 DEF PumpType
  <2>2. b \in PumpType
    <3> HIDE DEF a
    <3> QED
      BY <2>1 DEF PumpType
  <2>3. c \in PumpType
    <3> HIDE DEF b
    <3> QED
      BY <2>2 DEF PumpType
  <2>4. [c EXCEPT !.declined = d] \in PumpType
    <3> HIDE DEF c
    <3> QED
      BY <2>3 DEF PumpType
  <2> QED
    BY <2>4 DEF Leaving
<1> QED
  BY <1>1, <1>2, <1>3

\* The locals the pump refills a player with.
LEMMA PumpRefills ==
    ASSUME pump \in PumpType, NEW t \in 0..TargetHigh, NEW n \in Nat
    PROVE  [pump EXCEPT !.at = "refill", !.target = t, !.queued = n, !.elapsed = 0, !.done = 0]
             \in PumpType
<1>1. /\ 0 \in Nat /\ 0 \in 0..Word - 1
  BY Constants
<1> DEFINE a == [pump EXCEPT !.at = "refill"]
           b == [a EXCEPT !.target = t]
           c == [b EXCEPT !.queued = n]
           d == [c EXCEPT !.elapsed = 0]
<1>2. a \in PumpType
  BY DEF PumpType
<1>3. b \in PumpType
  <2> HIDE DEF a
  <2> QED
    BY <1>2 DEF PumpType
<1>4. c \in PumpType
  <2> HIDE DEF b
  <2> QED
    BY <1>3 DEF PumpType
<1>5. d \in PumpType
  <2> HIDE DEF c
  <2> QED
    BY <1>1, <1>4 DEF PumpType
<1>6. [d EXCEPT !.done = 0] \in PumpType
  <2> HIDE DEF d
  <2> QED
    BY <1>1, <1>5 DEF PumpType
<1> QED
  BY <1>6

\* The pump's own steps.
LEMMA TypedPump ==
    ASSUME Typed, CursorIsLive, CallPlaced, PumpBegin \/ PumpStep
    PROVE  Typed'
<1> USE DEF TypeOK
<1>1. /\ g_players \in Seq(Players) /\ IsInjective(g_players) /\ pl \in [Players -> Player]
      /\ run \in BOOLEAN /\ thread \in BOOLEAN /\ pump \in PumpType /\ game \in GameType
      /\ raced \subseteq Players
      /\ pump.snap \in 0..MaxGap
  BY DEF Typed
<1>2. ToSet(g_players) \subseteq Players
  BY <1>1 DEF ToSet
<1> DEFINE p == pump.cur
           r == pl[p]
<1>3. pump.at # "idle" => p \in Players /\ r \in Player
  BY <1>1, <1>2 DEF CursorIsLive
<1>4. CASE PumpBegin
  <2>1. Head(g_players) \in Players
    BY <1>1, <1>4, HeadTailProperties DEF PumpBegin
  <2>2. pump' \in PumpType
    BY <1>1, <1>4, <2>1, PumpPlaces DEF PumpBegin
  <2>3. raced' \subseteq Players
    BY <1>1, <1>4 DEF PumpBegin, CallPlaced, Dropping
  <2> QED
    BY <1>1, <1>4, <2>2, <2>3 DEF PumpBegin, Typed, PumpType, GameType
<1>5. CASE PumpVisit
  <2>1. pump' \in PumpType
    <3>1. CASE ~Started(p)
      BY <1>1, <1>5, <3>1, PumpPlaces DEF PumpVisit
    <3>2. CASE Started(p)
      <4>1. r.since - pump.snap \in Int
        <5>1. r.since \in 0..MaxGap /\ pump.snap \in 0..MaxGap
          BY <1>1, <1>3, <1>5, PlayerFields DEF PumpVisit
        <5> QED
          BY <5>1, Constants
      <4>2. (r.since - pump.snap) % Word \in 0..Word - 1
        BY <4>1, Wraps
      <4>3. pump' = [pump EXCEPT !.at = "measure", !.elapsed = (r.since - pump.snap) % Word]
        BY <1>5, <3>2 DEF PumpVisit
      <4> DEFINE e == (r.since - pump.snap) % Word
      <4> HIDE DEF e
      <4> QED
        BY <1>1, <4>2, <4>3 DEF PumpType, e
    <3> QED
      BY <3>1, <3>2
  <2>2. pl' \in [Players -> Player]
    <3>1. r \in Player => [r EXCEPT !.since = pump.snap] \in Player
      BY <1>1, FieldChange
    <3>2. pl' = pl \/ pl' = [pl EXCEPT ![p].since = pump.snap]
      BY <1>5 DEF PumpVisit
    <3> QED
      BY <1>1, <1>3, <3>1, <3>2, PlayerChange
  <2>3. UNCHANGED <<g_players, run, thread, game, raced>>
    BY <1>5 DEF PumpVisit
  <2> QED
    BY <1>1, <2>1, <2>2, <2>3 DEF Typed, PumpType, GameType
<1>6. CASE PumpMeasure
  <2> DEFINE held   == Sum(r.pending)
             played == IF held > r.queued THEN held - r.queued ELSE 0
             carry  == Min({r.carry + pump.elapsed, MaxCarry})
             done   == IF r.state = Playing THEN DoneBy(r.pending, carry) ELSE 0
  <2>1. /\ r \in Player /\ p \in Players /\ r.pending \in Seq(Nat) /\ r.queued \in Nat
        /\ r.carry \in 0..MaxCarry
    BY <1>3, <1>6, PlayerFields DEF PumpMeasure
  <2>2. held \in Nat /\ played \in Nat
    BY <2>1, SumTyped
  <2>3. carry \in 0..MaxCarry
    <3> DEFINE n == r.carry + pump.elapsed
    <3>1. n \in Int /\ n >= 0 /\ MaxCarry \in Int /\ MaxCarry >= 0
      BY <1>1, <2>1, Constants DEF PumpType
    <3> HIDE DEF n
    <3>2. Min({n, MaxCarry}) \in {n, MaxCarry} /\ Min({n, MaxCarry}) <= MaxCarry
      BY <3>1, OfTwo
    <3> QED
      BY <3>1, <3>2 DEF n
  <2> HIDE DEF held, played, carry
  <2>4. /\ DoneBy(r.pending, played) \in 0..Len(r.pending)
        /\ DoneBy(r.pending, carry) \in 0..Len(r.pending)
        /\ Sum(SubSeq(r.pending, 1, DoneBy(r.pending, carry))) <= carry
    <3>1. carry \in Nat
      BY <2>3, Constants
    <3> QED
      BY <2>1, <2>2, <3>1, DoneFits
  <2>5. pump' \in PumpType
    <3>1. Len(r.pending) \in Nat
      BY <2>1
    <3>2. \E n \in Nat : pump' = [pump EXCEPT !.at = "retire", !.done = n]
      <4>1. CASE r.device
        <5>1. pump' = [pump EXCEPT !.at = "retire", !.done = DoneBy(r.pending, played)]
          BY <1>6, <4>1 DEF PumpMeasure, held, played
        <5> QED
          <6>1. DoneBy(r.pending, played) \in Nat
            BY <2>4, <3>1
          <6> HIDE DEF r
          <6> QED
            BY <5>1, <6>1
      <4>2. CASE ~r.device
        <5>1. pump' = [pump EXCEPT !.at = "retire", !.done = done]
          BY <1>6, <4>2 DEF PumpMeasure, carry
        <5>2. done \in Nat
          BY <2>4, <3>1
        <5> QED
          BY <5>1, <5>2
      <4> QED
        BY <4>1, <4>2
    <3> QED
      BY <1>1, <3>2 DEF PumpType
  <2>6. pl' \in [Players -> Player]
    <3>1. pl' = pl \/ (r.state = Playing
                        /\ pl' = [pl EXCEPT ![p].carry = carry - Sum(SubSeq(r.pending, 1, DoneBy(r.pending, carry)))])
                   \/ pl' = [pl EXCEPT ![p].carry = @]
      BY <1>6 DEF PumpMeasure, carry
    <3>2. carry - Sum(SubSeq(r.pending, 1, DoneBy(r.pending, carry))) \in 0..MaxCarry
      <4>1. Sum(SubSeq(r.pending, 1, DoneBy(r.pending, carry))) \in Nat
        <5>1. /\ DoneBy(r.pending, carry) \in Nat /\ DoneBy(r.pending, carry) <= Len(r.pending)
              /\ 1 \in Nat \ {0}
          BY <2>1, <2>4
        <5> QED
          BY <2>1, <5>1, Runs
      <4> QED
        BY <2>3, <2>4, <4>1, Constants
    <3>3. [r EXCEPT !.carry = carry - Sum(SubSeq(r.pending, 1, DoneBy(r.pending, carry)))] \in Player
      BY <2>1, <3>2, FieldChange
    <3>4. [r EXCEPT !.carry = @] \in Player
      BY <2>1, FieldChange
    <3> QED
      BY <1>1, <3>1, <3>3, <3>4, PlayerChange
  <2>7. UNCHANGED <<g_players, run, thread, game, raced>>
    BY <1>6 DEF PumpMeasure
  <2> QED
    BY <1>1, <2>5, <2>6, <2>7 DEF Typed, PumpType, GameType
<1>7. CASE PumpRetire /\ pump.done <= Len(r.pending)
  <2> DEFINE gap  == Gap(r.gap, pump.elapsed)
             rest == SubSeq(r.pending, pump.done + 1, Len(r.pending))
             a    == [r EXCEPT !.pending = rest]
  <2>1. r \in Player /\ p \in Players /\ r.pending \in Seq(Sizes) /\ r.gap \in 0..Word - 1
    BY <1>3, <1>7, PlayerFields DEF PumpRetire
  <2>2. gap \in 0..Word - 1 /\ Target(gap) \in 0..TargetHigh
    BY <1>1, <2>1, TargetTyped DEF PumpType
  <2>3. rest \in Seq(Sizes)
    <3>1. pump.done + 1 \in Int /\ pump.done + 1 >= 1 /\ Len(r.pending) \in Int
      BY <1>1, <2>1 DEF PumpType
    <3>2. \A j \in pump.done + 1..Len(r.pending) : r.pending[j] \in Sizes
      BY <2>1, <3>1
    <3> QED
      BY <3>1, <3>2, SubSeqProperties
  <2> HIDE DEF rest, gap
  <2>4. a \in Player
    BY <2>1, <2>3, FieldChange
  <2>5. [a EXCEPT !.gap = gap] \in Player
    <3> HIDE DEF a
    <3> QED
      BY <2>2, <2>4, FieldChange
  <2>6. [r EXCEPT !.pending = rest, !.gap = gap] \in Player
    BY <2>5
  <2>7. pl' = [pl EXCEPT ![p].pending = rest, ![p].gap = gap]
    <3>1. ~(pump.done > Len(r.pending))
      BY <1>1, <1>7, <2>1 DEF PumpType
    <3> QED
      BY <1>7, <3>1 DEF PumpRetire, rest, gap
  <2>8. pl' \in [Players -> Player]
    BY <1>1, <2>6, <2>7, PlayerChange
  <2>9. Depth(pl'[p]) \in Nat
    <3>1. pl'[p] \in Player
      BY <2>1, <2>8
    <3> QED
      BY <3>1, PlayerFields, SumTyped DEF Depth
  <2>10. pump' = [pump EXCEPT !.at = "refill", !.target = Target(gap),
                              !.queued = Depth(pl'[p]), !.elapsed = 0, !.done = 0]
    <3>1. ~(pump.done > Len(r.pending))
      BY <1>1, <1>7, <2>1 DEF PumpType
    <3> QED
      BY <1>7, <3>1 DEF PumpRetire, gap
  <2>11. pump' \in PumpType
    BY <1>1, <2>2, <2>9, <2>10, PumpRefills
  <2>12. UNCHANGED <<g_players, run, thread, game, raced>>
    BY <1>7 DEF PumpRetire
  <2> QED
    BY <1>1, <2>8, <2>11, <2>12 DEF Typed, PumpType, GameType
<1>8. CASE PumpRefill
  <2>1. r \in Player /\ p \in Players
    BY <1>3, <1>8 DEF PumpRefill
  <2>2. UNCHANGED <<g_players, run, thread, game, raced>>
    BY <1>8 DEF PumpRefill
  <2>3. CASE UNCHANGED pl /\ \E d \in BOOLEAN : pump' = Leaving(d)
    <3>1. pump' \in PumpType
      BY <1>1, <2>3, PumpPlaces
    <3> QED
      BY <1>1, <2>2, <2>3, <3>1 DEF Typed, PumpType, GameType
  <2>4. ASSUME NEW size \in Sizes, pump.calls # MaxCalls,
               pl' = [pl EXCEPT ![p] = Enqueued(@, size)],
               pump' = [pump EXCEPT !.calls = @ + 1, !.queued = Depth(pl'[p])]
        PROVE  Typed'
    <3>1. pl' \in [Players -> Player]
      BY <1>1, <2>1, <2>4, PlayerFields, PlayerChange
    <3>2. Depth(pl'[p]) \in Nat
      <4>1. pl'[p] \in Player
        BY <2>1, <3>1
      <4> QED
        BY <4>1, PlayerFields, SumTyped DEF Depth
    <3>3. pump.calls + 1 \in 0..MaxCalls
      BY <1>1, <2>4, Constants DEF PumpType
    <3>4. pump' \in PumpType
      BY <1>1, <2>4, <3>2, <3>3 DEF PumpType
    <3> QED
      BY <1>1, <2>2, <3>1, <3>4 DEF Typed, PumpType, GameType
  <2> QED
    BY <1>8, <2>3, <2>4 DEF PumpRefill
<1>9. CASE PumpNext
  <2>1. pump' \in PumpType
    <3>1. CASE After(p) = <<>>
      BY <1>1, <1>9, <3>1, PumpPlaces DEF PumpNext
    <3>2. CASE After(p) # <<>>
      <4>1. Head(After(p)) \in Players
        BY <1>1, <1>2, <1>9, <3>2, AfterIsLive DEF PumpNext, CursorIsLive
      <4> QED
        BY <1>1, <1>9, <3>2, <4>1, PumpPlaces DEF PumpNext
    <3> QED
      BY <3>1, <3>2
  <2> QED
    BY <1>1, <1>9, <2>1 DEF PumpNext, Typed, PumpType, GameType
<1>10. CASE PumpRetire /\ ~(pump.done <= Len(r.pending))
  <2>1. /\ pump' = [pump EXCEPT !.at = "undefined"] /\ pl' = pl
        /\ UNCHANGED <<g_players, run, thread, game, raced>>
    <3>1. r.pending \in Seq(Nat)
      BY <1>3, <1>10, PlayerFields DEF PumpRetire
    <3>2. pump.done > Len(r.pending)
      BY <1>1, <1>10, <3>1 DEF PumpType
    <3> QED
      BY <1>10, <3>2 DEF PumpRetire
  <2>2. pump' \in PumpType
    BY <1>1, <2>1 DEF PumpType
  <2> QED
    BY <1>1, <2>1, <2>2 DEF Typed, PumpType, GameType
<1> QED
  BY <1>4, <1>5, <1>6, <1>7, <1>8, <1>9, <1>10 DEF PumpStep

-----------------------------------------------------------------------------
(* What a step does to the fields that carry sound.                        *)

\* The fields of q that the invariant speaks of stay as they are.
Keeps(q) ==
    /\ pl'[q].realized = pl[q].realized /\ pl'[q].device = pl[q].device
    /\ pl'[q].callback = pl[q].callback
    /\ pl'[q].queued = pl[q].queued /\ pl'[q].pending = pl[q].pending

KeepsAllBut(p) == \A q \in Players \ {p} : Keeps(q)

\* Player p, which stays what it is, gets one buffer more.
Gets(p, size) ==
    /\ KeepsAllBut(p)
    /\ pl'[p].realized = pl[p].realized /\ pl'[p].device = pl[p].device
    /\ pl'[p].callback = pl[p].callback
    /\ pl'[p].pending = Append(pl[p].pending, size)
    /\ pl'[p].queued = IF pl[p].device THEN pl[p].queued + size ELSE pl[p].queued

\* Player p, which stays what it is, holds this much from now on.
Holds(p, queued, pending) ==
    /\ KeepsAllBut(p)
    /\ pl'[p].realized = pl[p].realized /\ pl'[p].device = pl[p].device
    /\ pl'[p].callback = pl[p].callback
    /\ pl'[p].queued = queued /\ pl'[p].pending = pending

\* The objects.
LEMMA ObjectEffects ==
    ASSUME Typed, NEW p \in Players
    PROVE  /\ CreateAudioPlayer(p) \/ Destroy(p) => KeepsAllBut(p) /\ pl'[p] = Created
           /\ Realize(p) =>
                /\ KeepsAllBut(p) /\ ~pl[p].realized /\ pl'[p].realized
                /\ pl'[p].queued = pl[p].queued /\ pl'[p].pending = pl[p].pending
           /\ RegisterCallback(p) =>
                /\ KeepsAllBut(p) /\ pl[p].realized /\ pl'[p].realized
                /\ pl'[p].device = pl[p].device
                /\ pl'[p].queued = pl[p].queued /\ pl'[p].pending = pl[p].pending
<1>1. pl \in [Players -> Player] /\ pl[p] \in Player
  BY DEF Typed, TypeOK
<1>2. ASSUME CreateAudioPlayer(p) \/ Destroy(p)
      PROVE  KeepsAllBut(p) /\ pl'[p] = Created
  BY <1>1, <1>2 DEF CreateAudioPlayer, Destroy, KeepsAllBut, Keeps
<1>3. ASSUME Realize(p)
      PROVE  /\ KeepsAllBut(p) /\ ~pl[p].realized /\ pl'[p].realized
             /\ pl'[p].queued = pl[p].queued /\ pl'[p].pending = pl[p].pending
  <2>1. PICK opened \in Devices[p] :
          pl' = [pl EXCEPT ![p].device = opened, ![p].realized = TRUE, ![p].since = 0]
    BY <1>3 DEF Realize
  <2>2. KeepsAllBut(p)
    BY <1>1, <2>1 DEF KeepsAllBut, Keeps
  <2>3. /\ pl'[p].realized
        /\ pl'[p].queued = pl[p].queued /\ pl'[p].pending = pl[p].pending
    BY <1>1, <2>1 DEF Player
  <2> QED
    BY <1>3, <2>2, <2>3 DEF Realize
<1>4. ASSUME RegisterCallback(p)
      PROVE  /\ KeepsAllBut(p) /\ pl[p].realized /\ pl'[p].realized
             /\ pl'[p].device = pl[p].device
             /\ pl'[p].queued = pl[p].queued /\ pl'[p].pending = pl[p].pending
  <2>1. PICK cb \in BOOLEAN : pl' = [pl EXCEPT ![p].callback = cb]
    BY <1>4 DEF RegisterCallback
  <2> QED
    BY <1>1, <1>4, <2>1 DEF RegisterCallback, KeepsAllBut, Keeps, Player
<1> QED
  BY <1>2, <1>3, <1>4

\* The queue, the device and the game's play state.
LEMMA QueueEffects ==
    ASSUME Typed, NEW p \in Players
    PROVE  /\ \A size \in Sizes : Enqueue(p, size) => Gets(p, size)
           /\ Clear(p) => Holds(p, 0, <<>>)
           /\ Drain(p) => Holds(p, pl[p].queued - 1, pl[p].pending) /\ pl[p].queued > 0
           /\ \A to \in PlayStates :
                SetPlayState(p, to) => KeepsAllBut(p) /\ Keeps(p)
<1>1. pl \in [Players -> Player] /\ pl[p] \in Player
  BY DEF Typed, TypeOK
<1>2. ASSUME NEW size \in Sizes, Enqueue(p, size)
      PROVE  Gets(p, size)
  <2>1. pl' = [pl EXCEPT ![p] = Enqueued(pl[p], size)]
    BY <1>2 DEF Enqueue
  <2>2. /\ Enqueued(pl[p], size).realized = pl[p].realized
        /\ Enqueued(pl[p], size).device = pl[p].device
        /\ Enqueued(pl[p], size).callback = pl[p].callback
        /\ Enqueued(pl[p], size).pending = Append(pl[p].pending, size)
        /\ Enqueued(pl[p], size).queued
             = IF pl[p].device THEN pl[p].queued + size ELSE pl[p].queued
    BY <1>1 DEF Enqueued, Player
  <2>3. KeepsAllBut(p) /\ pl'[p] = Enqueued(pl[p], size)
    BY <1>1, <2>1 DEF KeepsAllBut, Keeps
  <2> QED
    BY <2>2, <2>3 DEF Gets
<1>3. ASSUME Clear(p)
      PROVE  Holds(p, 0, <<>>)
  <2>1. pl' = [pl EXCEPT ![p].queued = 0, ![p].pending = <<>>, ![p].carry = 0]
    BY <1>3 DEF Clear
  <2>2. KeepsAllBut(p)
    BY <1>1, <2>1 DEF KeepsAllBut, Keeps
  <2>3. /\ pl'[p].realized = pl[p].realized /\ pl'[p].device = pl[p].device
        /\ pl'[p].callback = pl[p].callback
        /\ pl'[p].queued = 0 /\ pl'[p].pending = <<>>
    BY <1>1, <2>1 DEF Player
  <2> QED
    BY <2>2, <2>3 DEF Holds
<1>4. ASSUME Drain(p)
      PROVE  Holds(p, pl[p].queued - 1, pl[p].pending) /\ pl[p].queued > 0
  BY <1>1, <1>4 DEF Drain, Holds, KeepsAllBut, Keeps, Player
<1>5. ASSUME NEW to \in PlayStates, SetPlayState(p, to)
      PROVE  KeepsAllBut(p) /\ Keeps(p)
  <2>1. pl' = [pl EXCEPT ![p].state = to,
                         ![p].unpaused = IF pl[p].device THEN to = Playing ELSE @]
    BY <1>5 DEF SetPlayState
  <2>2. KeepsAllBut(p)
    BY <1>1, <2>1 DEF KeepsAllBut, Keeps
  <2>3. Keeps(p)
    BY <1>1, <2>1 DEF Keeps, Player
  <2> QED
    BY <2>2, <2>3
<1> QED
  BY <1>2, <1>3, <1>4, <1>5

\* The rest of SetPlayState, and the clock.
LEMMA OutsideEffects ==
    ASSUME Typed, CallPlaced
    PROVE  /\ SetPlayStateStep =>
                \/ /\ game.at = "drop_device" /\ game.p \in Players
                   /\ Holds(game.p, 0, pl[game.p].pending)
                \/ /\ game.at = "drop_pending" /\ game.p \in Players
                   /\ Holds(game.p, pl[game.p].queued, <<>>)
                \/ game.at = "stamp" /\ \A q \in Players : Keeps(q)
           /\ SDL_GetTicks => \A q \in Players : Keeps(q)
<1>1. pl \in [Players -> Player]
  BY DEF Typed, TypeOK
<1>2. ASSUME SetPlayStateStep
      PROVE  \/ /\ game.at = "drop_device" /\ game.p \in Players
                /\ Holds(game.p, 0, pl[game.p].pending)
             \/ /\ game.at = "drop_pending" /\ game.p \in Players
                /\ Holds(game.p, pl[game.p].queued, <<>>)
             \/ game.at = "stamp" /\ \A q \in Players : Keeps(q)
  <2> DEFINE p == game.p
  <2>1. \/ game.at = "drop_device" /\ pl' = [pl EXCEPT ![p].queued = 0]
        \/ game.at = "drop_pending" /\ pl' = [pl EXCEPT ![p].pending = <<>>]
        \/ game.at = "stamp" /\ pl' = [pl EXCEPT ![p].since = 0]
    BY <1>2 DEF SetPlayStateStep
  <2>2. p \in Players /\ pl[p] \in Player
    BY <1>1, <2>1 DEF CallPlaced
  <2> HIDE DEF p
  <2>3. CASE game.at = "drop_device" /\ pl' = [pl EXCEPT ![p].queued = 0]
    <3>1. Holds(p, 0, pl[p].pending)
      BY <1>1, <2>2, <2>3 DEF Holds, KeepsAllBut, Keeps, Player
    <3> QED
      BY <2>2, <2>3, <3>1 DEF p
  <2>4. CASE game.at = "drop_pending" /\ pl' = [pl EXCEPT ![p].pending = <<>>]
    <3>1. Holds(p, pl[p].queued, <<>>)
      BY <1>1, <2>2, <2>4 DEF Holds, KeepsAllBut, Keeps, Player
    <3> QED
      BY <2>2, <2>4, <3>1 DEF p
  <2>5. CASE game.at = "stamp" /\ pl' = [pl EXCEPT ![p].since = 0]
    BY <1>1, <2>2, <2>5 DEF Keeps, Player
  <2> QED
    BY <2>1, <2>3, <2>4, <2>5
<1>3. ASSUME SDL_GetTicks
      PROVE  \A q \in Players : Keeps(q)
  <2>1. pl' = [p \in Players |-> [pl[p] EXCEPT !.since = Min({@ + 1, MaxGap})]]
    BY <1>3 DEF SDL_GetTicks
  <2> QED
    BY <1>1, <2>1 DEF Keeps, Player
<1> QED
  BY <1>2, <1>3

\* The pump.
LEMMA PumpEffects ==
    ASSUME Typed, CursorIsLive
    PROVE  /\ PumpBegin \/ PumpVisit \/ PumpMeasure \/ PumpNext =>
                \A q \in Players : Keeps(q)
           /\ PumpRetire =>
                \/ Holds(pump.cur, pl[pump.cur].queued,
                         SubSeq(pl[pump.cur].pending, pump.done + 1, Len(pl[pump.cur].pending)))
                \/ pump'.at = "undefined" /\ \A q \in Players : Keeps(q)
           /\ PumpRefill =>
                \/ pump'.at = "next" /\ \A q \in Players : Keeps(q)
                \/ \E size \in Sizes : Gets(pump.cur, size)
<1>1. pl \in [Players -> Player] /\ g_players \in Seq(Players)
  BY DEF Typed, TypeOK
<1> DEFINE p == pump.cur
<1>2. pump.at # "idle" => p \in Players /\ pl[p] \in Player
  BY <1>1 DEF CursorIsLive, ToSet
<1>3. ASSUME PumpBegin \/ PumpNext
      PROVE  \A q \in Players : Keeps(q)
  BY <1>3 DEF PumpBegin, PumpNext, Keeps
<1>4. ASSUME PumpVisit
      PROVE  \A q \in Players : Keeps(q)
  <2>1. pl' = pl \/ pl' = [pl EXCEPT ![p].since = pump.snap]
    BY <1>4 DEF PumpVisit
  <2>2. p \in Players /\ pl[p] \in Player
    BY <1>2, <1>4 DEF PumpVisit
  <2> HIDE DEF p
  <2>3. ASSUME NEW x PROVE LET n == [pl[p] EXCEPT !.since = x]
                           IN  /\ n.realized = pl[p].realized /\ n.device = pl[p].device
                               /\ n.callback = pl[p].callback
                               /\ n.queued = pl[p].queued /\ n.pending = pl[p].pending
    BY <2>2 DEF Player
  <2>4. CASE pl' = pl
    BY <2>4 DEF Keeps
  <2>5. ASSUME NEW x, pl' = [pl EXCEPT ![p].since = x]
        PROVE  \A q \in Players : Keeps(q)
    <3>1. /\ pl'[p] = [pl[p] EXCEPT !.since = x]
          /\ \A q \in Players \ {p} : pl'[q] = pl[q]
      BY <1>1, <2>2, <2>5
    <3>2. Keeps(p)
      BY <2>3, <3>1 DEF Keeps
    <3>3. \A q \in Players \ {p} : Keeps(q)
      BY <3>1 DEF Keeps
    <3> QED
      BY <3>2, <3>3
  <2> QED
    BY <2>1, <2>4, <2>5
<1>5. ASSUME PumpMeasure
      PROVE  \A q \in Players : Keeps(q)
  <2>1. \E c : pl' = pl \/ pl' = [pl EXCEPT ![p].carry = c]
    <3>1. CASE pl[p].device
      BY <1>5, <3>1 DEF PumpMeasure
    <3>2. CASE ~pl[p].device
      BY <1>5, <3>2 DEF PumpMeasure
    <3> QED
      BY <3>1, <3>2
  <2>2. p \in Players /\ pl[p] \in Player
    BY <1>2, <1>5 DEF PumpMeasure
  <2> HIDE DEF p
  <2>3. ASSUME NEW x PROVE LET n == [pl[p] EXCEPT !.carry = x]
                           IN  /\ n.realized = pl[p].realized /\ n.device = pl[p].device
                               /\ n.callback = pl[p].callback
                               /\ n.queued = pl[p].queued /\ n.pending = pl[p].pending
    BY <2>2 DEF Player
  <2>4. CASE pl' = pl
    BY <2>4 DEF Keeps
  <2>5. ASSUME NEW x, pl' = [pl EXCEPT ![p].carry = x]
        PROVE  \A q \in Players : Keeps(q)
    <3>1. /\ pl'[p] = [pl[p] EXCEPT !.carry = x]
          /\ \A q \in Players \ {p} : pl'[q] = pl[q]
      BY <1>1, <2>2, <2>5
    <3>2. Keeps(p)
      BY <2>3, <3>1 DEF Keeps
    <3>3. \A q \in Players \ {p} : Keeps(q)
      BY <3>1 DEF Keeps
    <3> QED
      BY <3>2, <3>3
  <2> QED
    BY <2>1, <2>4, <2>5
<1>6. ASSUME PumpRetire, ~(pump.done > Len(pl[p].pending))
      PROVE  Holds(p, pl[p].queued, SubSeq(pl[p].pending, pump.done + 1, Len(pl[p].pending)))
  <2> DEFINE rest == SubSeq(pl[p].pending, pump.done + 1, Len(pl[p].pending))
             gap  == Gap(pl[p].gap, pump.elapsed)
  <2>1. pl' = [pl EXCEPT ![p].pending = rest, ![p].gap = gap]
    BY <1>6 DEF PumpRetire
  <2>2. p \in Players /\ pl[p] \in Player
    BY <1>2, <1>6 DEF PumpRetire
  <2> HIDE DEF rest, gap, p
  <2>3. KeepsAllBut(p)
    BY <1>1, <2>1 DEF KeepsAllBut, Keeps
  <2>4. /\ pl'[p].realized = pl[p].realized /\ pl'[p].device = pl[p].device
        /\ pl'[p].callback = pl[p].callback
        /\ pl'[p].queued = pl[p].queued /\ pl'[p].pending = rest
    BY <1>1, <2>1, <2>2 DEF Player
  <2> QED
    BY <2>3, <2>4 DEF Holds, rest
<1>8. ASSUME PumpRetire, pump.done > Len(pl[p].pending)
      PROVE  pump'.at = "undefined" /\ \A q \in Players : Keeps(q)
  <2>1. pump' = [pump EXCEPT !.at = "undefined"] /\ pl' = pl
    BY <1>8 DEF PumpRetire
  <2>2. pump \in PumpType
    BY DEF Typed
  <2> QED
    BY <2>1, <2>2 DEF Keeps, PumpType
<1>7. ASSUME PumpRefill
      PROVE  \/ pump'.at = "next" /\ \A q \in Players : Keeps(q)
             \/ \E size \in Sizes : Gets(p, size)
  <2>1. \/ UNCHANGED pl /\ \E d : pump' = Leaving(d)
        \/ \E size \in Sizes : pl' = [pl EXCEPT ![p] = Enqueued(@, size)]
    BY <1>7 DEF PumpRefill
  <2>2. CASE UNCHANGED pl /\ \E d : pump' = Leaving(d)
    BY <2>2 DEF Keeps, Leaving, Idle
  <2>3. ASSUME NEW size \in Sizes, pl' = [pl EXCEPT ![p] = Enqueued(@, size)]
        PROVE  Gets(p, size)
    <3>1. p \in Players /\ pl[p] \in Player
      BY <1>2, <1>7 DEF PumpRefill
    <3>2. /\ Enqueued(pl[p], size).realized = pl[p].realized
          /\ Enqueued(pl[p], size).device = pl[p].device
          /\ Enqueued(pl[p], size).callback = pl[p].callback
          /\ Enqueued(pl[p], size).pending = Append(pl[p].pending, size)
          /\ Enqueued(pl[p], size).queued
               = IF pl[p].device THEN pl[p].queued + size ELSE pl[p].queued
      BY <3>1 DEF Enqueued, Player
    <3>3. KeepsAllBut(p) /\ pl'[p] = Enqueued(pl[p], size)
      BY <1>1, <2>3, <3>1 DEF KeepsAllBut, Keeps
    <3> QED
      BY <3>2, <3>3 DEF Gets
  <2> QED
    BY <2>1, <2>2, <2>3
<1> QED
  BY <1>3, <1>4, <1>5, <1>6, <1>7, <1>8

\* The players recorded as stopped under a pump: only a new queue clears the record.
LEMMA RacedEffects ==
    ASSUME NEW p \in Players
    PROVE  /\ CreateAudioPlayer(p) \/ Destroy(p) \/ Clear(p) => raced \ {p} \subseteq raced'
           /\ Realize(p) \/ RegisterCallback(p) \/ Drain(p) => raced' = raced
           /\ \A size \in Sizes : Enqueue(p, size) => raced' = raced
           /\ \A to \in PlayStates : SetPlayState(p, to) => raced \subseteq raced'
BY DEF CreateAudioPlayer, Destroy, Clear, Realize, RegisterCallback, Drain, Enqueue, SetPlayState

LEMMA RacedKept ==
    /\ SetPlayStateStep \/ SDL_GetTicks \/ PumpStep => raced' = raced
    /\ PumpBegin => raced \subseteq raced'
    /\ PumpBegin /\ game.at \in Dropping => game.p \in raced'
BY DEF SetPlayStateStep, SDL_GetTicks, PumpBegin, PumpStep, PumpVisit, PumpMeasure, PumpRetire,
       PumpRefill, PumpNext

-----------------------------------------------------------------------------
(* The cursor.                                                             *)

LEMMA BaseInit == Init => Base
<1> SUFFICES ASSUME Init PROVE Base
  OBVIOUS
<1>1. Typed
  BY TypedInit
<1>2. FreshIsEmpty
  BY DEF Init, FreshIsEmpty, Created
<1> QED
  BY <1>1, <1>2 DEF Init, Base, CursorIsLive, WorksOnRealized, CallPlaced, Dropping, Idle, Quiet

\* A player is freed with the lock held, so between two pumps; one created
\* during a pump goes in front of the list.
LEMMA CursorStep ==
    ASSUME Typed, CursorIsLive, [Next]_vars
    PROVE  CursorIsLive'
<1>1. g_players \in Seq(Players) /\ IsInjective(g_players)
  BY DEF Typed, TypeOK
<1>2. ASSUME NEW p \in Players, CreateAudioPlayer(p)
      PROVE  CursorIsLive'
  <2>1. ToSet(g_players) \subseteq ToSet(g_players')
    BY <1>1, <1>2, Prepended DEF CreateAudioPlayer
  <2> QED
    BY <1>2, <2>1 DEF CreateAudioPlayer, CursorIsLive
<1>3. ASSUME NEW p \in Players, Destroy(p)
      PROVE  CursorIsLive'
  BY <1>3 DEF Destroy, LockFree, CursorIsLive
<1>4. ASSUME UNCHANGED <<g_players, pump>>
      PROVE  CursorIsLive'
  BY <1>4 DEF CursorIsLive
<1>5. CASE PumpBegin
  <2>1. Head(g_players) = g_players[1] /\ 1 \in DOMAIN g_players
    BY <1>1, <1>5 DEF PumpBegin
  <2>2. pump'.cur = Head(g_players) /\ g_players' = g_players
    BY <1>5 DEF PumpBegin, Idle
  <2>3. pump'.cur \in ToSet(g_players)
    BY <2>1, <2>2 DEF ToSet
  <2> QED
    BY <2>2, <2>3 DEF CursorIsLive
<1>6. CASE PumpNext
  <2>1. After(pump.cur) # <<>> => Head(After(pump.cur)) \in ToSet(g_players)
    BY <1>1, <1>6, AfterIsLive DEF PumpNext, CursorIsLive
  <2> QED
    BY <1>6, <2>1 DEF PumpNext, CursorIsLive, Idle
<1>7. ASSUME pump'.cur = pump.cur, pump.at # "idle" \/ pump'.at = "idle", g_players' = g_players
      PROVE  CursorIsLive'
  BY <1>7 DEF CursorIsLive
<1>8. CASE PumpVisit \/ PumpMeasure \/ PumpRetire \/ PumpRefill
  <2>1. pump \in PumpType
    BY DEF Typed
  <2>2. pump'.cur = pump.cur /\ pump.at # "idle"
    BY <1>8, <2>1 DEF PumpVisit, PumpMeasure, PumpRetire, PumpRefill, Leaving, Idle, PumpType
  <2>3. g_players' = g_players
    BY <1>8 DEF PumpVisit, PumpMeasure, PumpRetire, PumpRefill
  <2> QED
    BY <1>7, <2>2, <2>3
<1>9. CASE SDL_GetTicks
  <2>1. pump \in PumpType
    BY DEF Typed
  <2> QED
    BY <1>7, <1>9, <2>1 DEF SDL_GetTicks, PumpType
<1>10. ASSUME NEW p \in Players, GameCall(p) \/ Drain(p)
       PROVE  CursorIsLive'
  <2>1. CASE Realize(p) \/ Clear(p) \/ RegisterCallback(p) \/ Drain(p)
    BY <1>4, <2>1 DEF Realize, Clear, RegisterCallback, Drain
  <2>2. ASSUME NEW size \in Sizes, Enqueue(p, size)
        PROVE  CursorIsLive'
    BY <1>4, <2>2 DEF Enqueue
  <2>3. ASSUME NEW to \in PlayStates, SetPlayState(p, to)
        PROVE  CursorIsLive'
    BY <1>4, <2>3 DEF SetPlayState
  <2> QED
    BY <1>2, <1>3, <1>10, <2>1, <2>2, <2>3 DEF GameCall
<1>11. CASE SetPlayStateStep
  BY <1>4, <1>11 DEF SetPlayStateStep
<1>12. CASE UNCHANGED vars
  BY <1>4, <1>12 DEF vars
<1> QED
  BY <1>5, <1>6, <1>8, <1>9, <1>10, <1>11, <1>12
     DEF Next, PumpStep, audio_thread_main, android_opensles_frame_tick

\* The game's call: where it is, and whether a pump meets it.
LEMMA CallStep ==
    ASSUME Typed, CallPlaced, [Next]_vars
    PROVE  CallPlaced'
<1>1. pump \in PumpType /\ game \in GameType
  BY DEF Typed
<1>2. ASSUME game' = game, raced' = raced, pump.at # "idle" \/ pump'.at = "idle"
      PROVE  CallPlaced'
  BY <1>2 DEF CallPlaced, Dropping
<1>3. ASSUME NEW p \in Players, GameCall(p) \/ Drain(p)
      PROVE  CallPlaced'
  <2>1. CASE CreateAudioPlayer(p) \/ Destroy(p) \/ Clear(p)
    BY <2>1 DEF CreateAudioPlayer, Destroy, Clear, Calling, CallPlaced, Dropping
  <2>2. CASE Realize(p) \/ RegisterCallback(p) \/ Drain(p)
    BY <1>2, <2>2 DEF Realize, RegisterCallback, Drain
  <2>3. ASSUME NEW size \in Sizes, Enqueue(p, size)
        PROVE  CallPlaced'
    BY <1>2, <2>3 DEF Enqueue
  <2>4. ASSUME NEW to \in PlayStates, SetPlayState(p, to)
        PROVE  CallPlaced'
    BY <2>4 DEF SetPlayState, CallPlaced, Dropping, LockFree
  <2> QED
    BY <1>3, <2>1, <2>2, <2>3, <2>4 DEF GameCall
<1>4. CASE SetPlayStateStep
  BY <1>1, <1>4 DEF SetPlayStateStep, CallPlaced, Dropping, Quiet, GameType
<1>5. CASE PumpBegin
  BY <1>5 DEF PumpBegin, CallPlaced, Dropping
<1>6. CASE PumpStep
  BY <1>2, <1>6 DEF PumpStep, PumpVisit, PumpMeasure, PumpRetire, PumpRefill, PumpNext
<1>7. CASE SDL_GetTicks
  BY <1>1, <1>2, <1>7 DEF SDL_GetTicks, PumpType
<1>8. CASE UNCHANGED vars
  BY <1>2, <1>8 DEF vars
<1> QED
  BY <1>3, <1>4, <1>5, <1>6, <1>7, <1>8
     DEF Next, audio_thread_main, android_opensles_frame_tick

\* Only a realized player is given sound or a callback.
LEMMA FreshStep ==
    ASSUME Base, [Next]_vars
    PROVE  FreshIsEmpty'
<1>1. Typed /\ FreshIsEmpty /\ CursorIsLive /\ WorksOnRealized /\ CallPlaced
  BY DEF Base
<1> DEFINE Fresh(q) == pl[q].realized \/ (/\ ~pl[q].device /\ ~pl[q].callback
                                          /\ pl[q].queued = 0 /\ pl[q].pending = <<>>)
<1>2. \A q \in Players : Fresh(q)
  BY <1>1 DEF FreshIsEmpty
<1>3. SUFFICES \A q \in Players : Fresh(q)'
  BY DEF FreshIsEmpty
<1>4. ASSUME NEW q \in Players, Keeps(q)
      PROVE  Fresh(q)'
  BY <1>2, <1>4 DEF Keeps
<1>5. ASSUME NEW p \in Players, KeepsAllBut(p), Fresh(p)'
      PROVE  \A q \in Players : Fresh(q)'
  <2> HIDE DEF Fresh
  <2> QED
    BY <1>4, <1>5 DEF KeepsAllBut
<1>6. \A q \in Players : pl[q] \in Player
  BY <1>1 DEF Typed, TypeOK
<1>7. ASSUME NEW p \in Players, NEW queued, NEW pending, Holds(p, queued, pending),
             pl[p].realized \/ (queued = 0 /\ pending = <<>>)
      PROVE  \A q \in Players : Fresh(q)'
  <2>1. KeepsAllBut(p)
    BY <1>7 DEF Holds
  <2>2. Fresh(p)'
    BY <1>2, <1>7 DEF Holds
  <2> HIDE DEF Fresh
  <2> QED
    BY <1>5, <2>1, <2>2
<1>8. ASSUME NEW p \in Players, NEW size, Gets(p, size), pl[p].realized
      PROVE  \A q \in Players : Fresh(q)'
  <2>1. KeepsAllBut(p)
    BY <1>8 DEF Gets
  <2>2. Fresh(p)'
    BY <1>8 DEF Gets
  <2> HIDE DEF Fresh
  <2> QED
    BY <1>5, <2>1, <2>2
<1>9. ASSUME \A q \in Players : Keeps(q)
      PROVE  \A q \in Players : Fresh(q)'
  <2> HIDE DEF Fresh
  <2> QED
    BY <1>4, <1>9
<1>10. ASSUME NEW p \in Players, GameCall(p) \/ Drain(p)
       PROVE  \A q \in Players : Fresh(q)'
  <2>1. CASE CreateAudioPlayer(p) \/ Destroy(p)
    <3>1. KeepsAllBut(p) /\ pl'[p] = Created
      BY <1>1, <2>1, ObjectEffects
    <3>2. Fresh(p)'
      BY <3>1 DEF Created
    <3> HIDE DEF Fresh
    <3> QED
      BY <1>5, <3>1, <3>2
  <2>2. CASE Realize(p) \/ RegisterCallback(p)
    <3>1. KeepsAllBut(p) /\ pl'[p].realized
      BY <1>1, <2>2, ObjectEffects
    <3>2. Fresh(p)'
      BY <3>1
    <3> HIDE DEF Fresh
    <3> QED
      BY <1>5, <3>1, <3>2
  <2>3. CASE Clear(p)
    <3> HIDE DEF Fresh
    <3> QED
      BY <1>1, <1>7, <2>3, QueueEffects
  <2>4. CASE Drain(p)
    <3>1. Holds(p, pl[p].queued - 1, pl[p].pending) /\ pl[p].queued > 0
      BY <1>1, <2>4, QueueEffects
    <3>2. pl[p].realized
      BY <1>2, <3>1
    <3> HIDE DEF Fresh
    <3> QED
      BY <1>7, <3>1, <3>2
  <2>5. ASSUME NEW size \in Sizes, Enqueue(p, size)
        PROVE  \A q \in Players : Fresh(q)'
    <3>1. Gets(p, size) /\ pl[p].realized
      BY <1>1, <2>5, QueueEffects DEF Enqueue
    <3> HIDE DEF Fresh
    <3> QED
      BY <1>8, <3>1
  <2>6. ASSUME NEW to \in PlayStates, SetPlayState(p, to)
        PROVE  \A q \in Players : Fresh(q)'
    <3>1. KeepsAllBut(p) /\ Keeps(p)
      BY <1>1, <2>6, QueueEffects
    <3> HIDE DEF Fresh
    <3> QED
      BY <1>9, <3>1 DEF KeepsAllBut
  <2> HIDE DEF Fresh
  <2> QED
    BY <1>10, <2>1, <2>2, <2>3, <2>4, <2>5, <2>6 DEF GameCall
<1>11. CASE SetPlayStateStep
  <2>1. CASE \A q \in Players : Keeps(q)
    BY <1>9, <2>1
  <2>2. CASE game.p \in Players /\ Holds(game.p, 0, pl[game.p].pending)
    <3>1. pl[game.p].realized \/ pl[game.p].pending = <<>>
      BY <1>2, <2>2
    <3> HIDE DEF Fresh
    <3> QED
      BY <1>7, <2>2, <3>1
  <2>3. CASE game.p \in Players /\ Holds(game.p, pl[game.p].queued, <<>>)
    <3>1. pl[game.p].realized \/ pl[game.p].queued = 0
      BY <1>2, <2>3
    <3> HIDE DEF Fresh
    <3> QED
      BY <1>7, <2>3, <3>1
  <2> QED
    BY <1>1, <1>11, <2>1, <2>2, <2>3, OutsideEffects
<1>12. CASE SDL_GetTicks
  BY <1>1, <1>9, <1>12, OutsideEffects
<1>13. CASE PumpBegin \/ PumpVisit \/ PumpMeasure \/ PumpNext
  BY <1>1, <1>9, <1>13, PumpEffects
<1>14. CASE PumpRetire \/ PumpRefill
  <2>1. pump.cur \in Players
    <3>1. g_players \in Seq(Players) /\ pump.cur \in ToSet(g_players)
      BY <1>1, <1>14 DEF PumpRetire, PumpRefill, CursorIsLive, Typed, TypeOK
    <3> QED
      BY <3>1 DEF ToSet
  <2>2. pl[pump.cur].realized
    BY <1>1, <1>14 DEF PumpRetire, PumpRefill, WorksOnRealized
  <2> HIDE DEF Fresh
  <2>3. CASE PumpRetire
    BY <1>1, <1>7, <1>9, <2>1, <2>2, <2>3, PumpEffects
  <2>4. CASE PumpRefill
    BY <1>1, <1>8, <1>9, <2>1, <2>2, <2>4, PumpEffects
  <2> QED
    BY <1>14, <2>3, <2>4
<1>15. CASE UNCHANGED vars
  BY <1>9, <1>15 DEF vars, Keeps
<1> HIDE DEF Fresh
<1> QED
  BY <1>10, <1>11, <1>12, <1>13, <1>14, <1>15
     DEF Next, PumpStep, audio_thread_main, android_opensles_frame_tick

\* A player that was realized stays so as long as it lives.
LEMMA WorksStep ==
    ASSUME Base, [Next]_vars
    PROVE  WorksOnRealized'
<1>1. Typed /\ FreshIsEmpty /\ CursorIsLive /\ WorksOnRealized /\ CallPlaced
  BY DEF Base
<1>2. pump \in PumpType /\ g_players \in Seq(Players)
  BY <1>1 DEF Typed, TypeOK
<1> DEFINE Works == pump.at \in {"measure", "retire", "refill"}
<1>3. Works => pump.cur \in Players /\ pl[pump.cur].realized
  BY <1>1, <1>2 DEF CursorIsLive, WorksOnRealized, ToSet
<1>4. SUFFICES Works' => pl'[pump'.cur].realized
  BY DEF WorksOnRealized
<1>5. ASSUME NEW p \in Players, KeepsAllBut(p), pl[p].realized => pl'[p].realized,
             UNCHANGED pump
      PROVE  Works' => pl'[pump'.cur].realized
  BY <1>3, <1>5 DEF KeepsAllBut, Keeps
<1>6. ASSUME \A q \in Players : Keeps(q), pump'.cur = pump.cur, Works' => Works
      PROVE  Works' => pl'[pump'.cur].realized
  BY <1>3, <1>6 DEF Keeps
<1>7. ASSUME NEW p \in Players, GameCall(p) \/ Drain(p)
      PROVE  Works' => pl'[pump'.cur].realized
  <2>1. CASE CreateAudioPlayer(p)
    <3>1. KeepsAllBut(p) /\ UNCHANGED pump
      BY <1>1, <2>1, ObjectEffects DEF CreateAudioPlayer
    <3>2. Works => pump.cur # p
      BY <1>1, <2>1 DEF CreateAudioPlayer, CursorIsLive
    <3> QED
      BY <1>3, <3>1, <3>2 DEF KeepsAllBut, Keeps
  <2>2. CASE Destroy(p)
    BY <2>2 DEF Destroy, LockFree
  <2>3. CASE Realize(p) \/ RegisterCallback(p)
    <3>1. KeepsAllBut(p) /\ pl'[p].realized
      BY <1>1, <2>3, ObjectEffects
    <3>2. UNCHANGED pump
      BY <2>3 DEF Realize, RegisterCallback
    <3> HIDE DEF Works
    <3> QED
      BY <1>5, <3>1, <3>2
  <2>4. CASE Clear(p)
    BY <2>4 DEF Clear, LockFree
  <2>5. CASE Drain(p)
    <3>1. Holds(p, pl[p].queued - 1, pl[p].pending)
      BY <1>1, <2>5, QueueEffects
    <3>2. UNCHANGED pump
      BY <2>5 DEF Drain
    <3> HIDE DEF Works
    <3> QED
      BY <1>5, <3>1, <3>2 DEF Holds
  <2>6. ASSUME NEW size \in Sizes, Enqueue(p, size)
        PROVE  Works' => pl'[pump'.cur].realized
    BY <2>6 DEF Enqueue, LockFree
  <2>7. ASSUME NEW to \in PlayStates, SetPlayState(p, to)
        PROVE  Works' => pl'[pump'.cur].realized
    <3>1. KeepsAllBut(p) /\ Keeps(p)
      BY <1>1, <2>7, QueueEffects
    <3>2. UNCHANGED pump
      BY <2>7 DEF SetPlayState
    <3> HIDE DEF Works
    <3> QED
      BY <1>5, <3>1, <3>2 DEF Keeps
  <2> HIDE DEF Works
  <2> QED
    BY <1>7, <2>1, <2>2, <2>3, <2>4, <2>5, <2>6, <2>7 DEF GameCall
<1>8. CASE SetPlayStateStep
  <2>1. UNCHANGED pump
    BY <1>8 DEF SetPlayStateStep
  <2>2. CASE \A q \in Players : Keeps(q)
    BY <1>6, <2>1, <2>2
  <2>3. ASSUME NEW queued, NEW pending, game.p \in Players, Holds(game.p, queued, pending)
        PROVE  Works' => pl'[pump'.cur].realized
    <3> HIDE DEF Works
    <3> QED
      BY <1>5, <2>1, <2>3 DEF Holds
  <2> QED
    BY <1>1, <1>8, <2>2, <2>3, OutsideEffects
<1>9. CASE SDL_GetTicks
  <2>1. pump'.cur = pump.cur /\ pump'.at = pump.at
    BY <1>2, <1>9 DEF SDL_GetTicks, PumpType
  <2> QED
    BY <1>1, <1>6, <1>9, <2>1, OutsideEffects
<1>10. CASE PumpBegin \/ PumpNext
  <2>1. pump'.at \in {"idle", "visit"}
    <3>1. CASE PumpBegin
      BY <3>1 DEF PumpBegin, Idle
    <3>2. CASE PumpNext /\ After(pump.cur) = <<>>
      BY <3>2 DEF PumpNext, Idle
    <3>3. CASE PumpNext /\ After(pump.cur) # <<>>
      BY <3>3 DEF PumpNext, Idle
    <3> QED
      BY <1>10, <3>1, <3>2, <3>3
  <2> QED
    BY <2>1
<1>11. CASE PumpVisit
  <2>1. ASSUME Works'
        PROVE  pump'.cur = pump.cur /\ pump.cur \in Players /\ pl[pump.cur].realized
    <3>1. Started(pump.cur) /\ pump'.cur = pump.cur
      BY <1>2, <1>11, <2>1 DEF PumpVisit, Leaving, Idle, PumpType
    <3>2. pump.cur \in Players
      BY <1>1, <1>2, <1>11 DEF PumpVisit, CursorIsLive, ToSet
    <3> QED
      BY <1>1, <3>1, <3>2 DEF Started, FreshIsEmpty
  <2>2. \A q \in Players : Keeps(q)
    BY <1>1, <1>11, PumpEffects
  <2> QED
    BY <2>1, <2>2 DEF Keeps
<1>12. CASE PumpMeasure \/ PumpRetire \/ PumpRefill
  <2>1. pump'.cur = pump.cur /\ Works
    BY <1>2, <1>12 DEF PumpMeasure, PumpRetire, PumpRefill, Leaving, Idle, PumpType
  <2>2. pl'[pump.cur].realized = pl[pump.cur].realized
    <3>1. CASE \A q \in Players : Keeps(q)
      BY <1>3, <2>1, <3>1 DEF Keeps
    <3>2. ASSUME NEW queued, NEW pending, Holds(pump.cur, queued, pending)
          PROVE  pl'[pump.cur].realized = pl[pump.cur].realized
      BY <3>2 DEF Holds
    <3>3. ASSUME NEW size, Gets(pump.cur, size)
          PROVE  pl'[pump.cur].realized = pl[pump.cur].realized
      BY <3>3 DEF Gets
    <3> QED
      BY <1>1, <1>12, <3>1, <3>2, <3>3, PumpEffects
  <2> QED
    BY <1>3, <2>1, <2>2
<1>13. CASE UNCHANGED vars
  BY <1>3, <1>13 DEF vars
<1> HIDE DEF Works
<1> QED
  BY <1>7, <1>8, <1>9, <1>10, <1>11, <1>12, <1>13
     DEF Next, PumpStep, audio_thread_main, android_opensles_frame_tick

\* The types of every state.
LEMMA TypedStep ==
    ASSUME Typed, CursorIsLive, CallPlaced, [Next]_vars
    PROVE  Typed'
<1>1. CASE UNCHANGED vars
  BY <1>1 DEF vars, Typed, TypeOK, PumpType, GameType
<1>2. CASE \E p \in Players : GameCall(p)
  BY <1>2, TypedCall
<1>3. CASE SetPlayStateStep \/ SDL_GetTicks \/ \E p \in Players : Drain(p)
  BY <1>3, TypedOutside
<1>4. CASE PumpBegin \/ PumpStep
  BY <1>4, TypedPump
<1> QED
  BY <1>1, <1>2, <1>3, <1>4 DEF Next, audio_thread_main, android_opensles_frame_tick

LEMMA BaseStep ==
    ASSUME Base, [Next]_vars
    PROVE  Base'
BY TypedStep, FreshStep, CursorStep, WorksStep, CallStep DEF Base

\* Types, for any players, sizes and bounds.
THEOREM ShimTyped == Spec => []TypeOK
<1>1. Base => TypeOK
  BY DEF Base, Typed
<1> QED
  BY BaseInit, BaseStep, <1>1, PTL DEF Spec

\* The pump never stands on a freed player (player_Destroy waits for the lock
\* that audio_pump holds, and CreateAudioPlayer, which does not, prepends).
THEOREM CursorLive == Spec => []CursorIsLive
<1>1. Base => CursorIsLive
  BY DEF Base
<1> QED
  BY BaseInit, BaseStep, <1>1, PTL DEF Spec

-----------------------------------------------------------------------------
(* The device and the queue, for players that no pump saw stopped.         *)

LEMMA HeldInit == Init => Held
<1> SUFFICES ASSUME Init PROVE Held
  OBVIOUS
<1>1. Base
  BY BaseInit
<1> QED
  BY <1>1 DEF Init, Held, DroppedInOrder, Covered, DoneIsPlayed, Created, Idle, Quiet

\* Between emptying the device and emptying the queue nothing is played.
LEMMA DroppedStep ==
    ASSUME Held, [Next]_vars
    PROVE  DroppedInOrder'
<1>1. Typed /\ CursorIsLive /\ CallPlaced /\ DroppedInOrder
  BY DEF Held, Base
<1>2. game \in GameType
  BY <1>1 DEF Typed
<1>3. game.at = "drop_pending" /\ game.p \notin raced => game.p \in Players /\ pl[game.p].queued = 0
  BY <1>1 DEF DroppedInOrder, CallPlaced
<1>4. ASSUME game' = game, raced \subseteq raced',
             game.at = "drop_pending" /\ game.p \notin raced => Keeps(game.p)
      PROVE  DroppedInOrder'
  BY <1>3, <1>4 DEF DroppedInOrder, Keeps
<1>5. ASSUME NEW p \in Players, GameCall(p)
      PROVE  DroppedInOrder'
  <2>1. CASE CreateAudioPlayer(p) \/ Realize(p) \/ Destroy(p) \/ Clear(p) \/ RegisterCallback(p)
    <3>1. game.at = "idle" /\ game' = game
      BY <2>1 DEF CreateAudioPlayer, Realize, Destroy, Clear, RegisterCallback, Calling
    <3> QED
      BY <3>1 DEF DroppedInOrder
  <2>2. ASSUME NEW size \in Sizes, Enqueue(p, size)
        PROVE  DroppedInOrder'
    BY <2>2 DEF Enqueue, Calling, DroppedInOrder
  <2>3. ASSUME NEW to \in PlayStates, SetPlayState(p, to)
        PROVE  DroppedInOrder'
    <3>1. game'.at \in {"drop_device", "stamp"}
      BY <2>3 DEF SetPlayState
    <3> QED
      BY <3>1 DEF DroppedInOrder
  <2> QED
    BY <1>5, <2>1, <2>2, <2>3 DEF GameCall
<1>6. ASSUME NEW p \in Players, Drain(p)
      PROVE  DroppedInOrder'
  <2>1. Holds(p, pl[p].queued - 1, pl[p].pending) /\ pl[p].queued > 0
    BY <1>1, <1>6, QueueEffects
  <2>2. game' = game /\ raced' = raced
    BY <1>6 DEF Drain
  <2>3. game.at = "drop_pending" /\ game.p \notin raced => game.p \in Players \ {p}
    BY <1>3, <2>1
  <2> QED
    BY <1>4, <2>1, <2>2, <2>3 DEF Holds, KeepsAllBut
<1>7. CASE SetPlayStateStep
  <2>1. CASE game.at = "drop_device"
    <3>1. game.p \in Players /\ Holds(game.p, 0, pl[game.p].pending)
      BY <1>1, <1>7, <2>1, OutsideEffects
    <3>2. game'.p = game.p
      BY <1>2, <1>7, <2>1 DEF SetPlayStateStep, GameType
    <3> QED
      BY <3>1, <3>2 DEF Holds, DroppedInOrder
  <2>2. CASE game.at # "drop_device"
    <3>1. game'.at \in {"stamp", "idle"}
      BY <1>2, <1>7, <2>2 DEF SetPlayStateStep, GameType, Quiet
    <3> QED
      BY <3>1 DEF DroppedInOrder
  <2> QED
    BY <2>1, <2>2
<1>8. CASE SDL_GetTicks
  <2>1. game' = game /\ raced' = raced /\ \A q \in Players : Keeps(q)
    BY <1>1, <1>8, OutsideEffects DEF SDL_GetTicks
  <2> QED
    BY <1>3, <1>4, <2>1
<1>9. CASE PumpBegin \/ PumpStep
  <2>1. game.at = "drop_pending" => game.p \in raced'
    <3>1. CASE PumpBegin
      BY <3>1, RacedKept DEF Dropping
    <3>2. CASE PumpStep
      <4>1. pump.at # "idle"
        BY <3>2 DEF PumpStep, PumpVisit, PumpMeasure, PumpRetire, PumpRefill, PumpNext
      <4> QED
        BY <1>1, <3>2, <4>1, RacedKept DEF CallPlaced, Dropping
    <3> QED
      BY <1>9, <3>1, <3>2
  <2>2. game' = game
    BY <1>9 DEF PumpBegin, PumpStep, PumpVisit, PumpMeasure, PumpRetire, PumpRefill, PumpNext
  <2> QED
    BY <2>1, <2>2 DEF DroppedInOrder
<1>10. CASE UNCHANGED vars
  BY <1>3, <1>10 DEF vars, DroppedInOrder
<1> QED
  BY <1>5, <1>6, <1>7, <1>8, <1>9, <1>10
     DEF Next, audio_thread_main, android_opensles_frame_tick

\* A buffer enters the queue and the device together, and leaves the queue
\* only when the device has played it.
LEMMA CoveredStep ==
    ASSUME Held, [Next]_vars
    PROVE  Covered'
<1>1. /\ Typed /\ FreshIsEmpty /\ CursorIsLive /\ CallPlaced /\ DroppedInOrder
      /\ Covered /\ DoneIsPlayed
  BY DEF Held, Base
<1>2. \A q \in Players : /\ pl[q].pending \in Seq(Nat) /\ pl[q].queued \in Nat
                         /\ Sum(pl[q].pending) \in Nat
  <2>1. \A q \in Players : pl[q] \in Player
    BY <1>1 DEF Typed, TypeOK
  <2> QED
    BY <2>1, PlayerFields, SumTyped
<1> DEFINE Cov(q) == q \notin raced /\ pl[q].device => pl[q].queued <= Sum(pl[q].pending)
<1>3. \A q \in Players : Cov(q)
  BY <1>1 DEF Covered
<1>4. SUFFICES \A q \in Players : Cov(q)'
  BY DEF Covered
<1>5. ASSUME NEW q \in Players, Keeps(q), q \notin raced' => q \notin raced
      PROVE  Cov(q)'
  BY <1>3, <1>5 DEF Keeps
<1>6. ASSUME NEW p \in Players, KeepsAllBut(p), raced \ {p} \subseteq raced', Cov(p)'
      PROVE  \A q \in Players : Cov(q)'
  <2> HIDE DEF Cov
  <2> QED
    BY <1>5, <1>6 DEF KeepsAllBut
<1>7. ASSUME \A q \in Players : Keeps(q), raced \subseteq raced'
      PROVE  \A q \in Players : Cov(q)'
  <2> HIDE DEF Cov
  <2> QED
    BY <1>5, <1>7
<1>8. ASSUME NEW p \in Players, NEW queued, NEW pending, Holds(p, queued, pending),
             raced \ {p} \subseteq raced',
             p \notin raced' /\ pl[p].device => queued <= Sum(pending)
      PROVE  \A q \in Players : Cov(q)'
  <2>1. KeepsAllBut(p) /\ Cov(p)'
    BY <1>8 DEF Holds
  <2>2. raced \ {p} \subseteq raced'
    BY <1>8
  <2> HIDE DEF Cov
  <2> QED
    BY <1>6, <2>1, <2>2
<1>9. ASSUME NEW p \in Players, NEW size \in Sizes, Gets(p, size), raced \subseteq raced'
      PROVE  \A q \in Players : Cov(q)'
  <2>1. size \in Nat
    BY Constants
  <2>2. Sum(Append(pl[p].pending, size)) = Sum(pl[p].pending) + size
    BY <1>2, <2>1, SumAppend
  <2>3. Cov(p)'
    <3> SUFFICES ASSUME p \notin raced', pl'[p].device PROVE pl'[p].queued <= Sum(pl'[p].pending)
      OBVIOUS
    <3>1. /\ pl[p].device /\ pl'[p].queued = pl[p].queued + size
          /\ pl'[p].pending = Append(pl[p].pending, size)
      BY <1>9 DEF Gets
    <3>2. /\ pl[p].queued <= Sum(pl[p].pending) /\ pl[p].queued \in Nat
          /\ Sum(pl[p].pending) \in Nat
      BY <1>2, <1>3, <1>9, <3>1
    <3> QED
      BY <2>1, <2>2, <3>1, <3>2
  <2>4. KeepsAllBut(p) /\ raced \ {p} \subseteq raced'
    BY <1>9 DEF Gets
  <2> HIDE DEF Cov
  <2> QED
    BY <1>6, <2>3, <2>4
<1>10. ASSUME NEW p \in Players, GameCall(p) \/ Drain(p)
       PROVE  \A q \in Players : Cov(q)'
  <2>1. CASE CreateAudioPlayer(p) \/ Destroy(p)
    <3>1. KeepsAllBut(p) /\ pl'[p] = Created
      BY <1>1, <2>1, ObjectEffects
    <3>2. Cov(p)'
      BY <3>1 DEF Created
    <3> HIDE DEF Cov
    <3> QED
      BY <1>6, <2>1, <3>1, <3>2, RacedEffects
  <2>2. CASE Realize(p)
    <3>1. /\ KeepsAllBut(p) /\ ~pl[p].realized
          /\ pl'[p].queued = pl[p].queued /\ pl'[p].pending = pl[p].pending
      BY <1>1, <2>2, ObjectEffects
    <3>2. pl[p].queued = 0 /\ pl[p].pending = <<>>
      BY <1>1, <3>1 DEF FreshIsEmpty
    <3>3. Cov(p)'
      BY <1>2, <3>1, <3>2
    <3> HIDE DEF Cov
    <3> QED
      BY <1>6, <2>2, <3>1, <3>3, RacedEffects
  <2>3. CASE RegisterCallback(p)
    <3>1. /\ KeepsAllBut(p) /\ pl'[p].device = pl[p].device
          /\ pl'[p].queued = pl[p].queued /\ pl'[p].pending = pl[p].pending
      BY <1>1, <2>3, ObjectEffects
    <3>2. Cov(p)'
      BY <1>3, <2>3, <3>1, RacedEffects
    <3> HIDE DEF Cov
    <3> QED
      BY <1>6, <2>3, <3>1, <3>2, RacedEffects
  <2>4. CASE Clear(p)
    <3>1. Holds(p, 0, <<>>)
      BY <1>1, <2>4, QueueEffects
    <3>2. 0 <= Sum(<<>>)
      BY SumEmpty
    <3> HIDE DEF Cov
    <3> QED
      BY <1>8, <2>4, <3>1, <3>2, RacedEffects
  <2>5. CASE Drain(p)
    <3>1. Holds(p, pl[p].queued - 1, pl[p].pending)
      BY <1>1, <2>5, QueueEffects
    <3>2. p \notin raced' /\ pl[p].device => pl[p].queued - 1 <= Sum(pl[p].pending)
      BY <1>2, <1>3, <2>5, RacedEffects
    <3> HIDE DEF Cov
    <3> QED
      BY <1>8, <2>5, <3>1, <3>2, RacedEffects
  <2>6. ASSUME NEW size \in Sizes, Enqueue(p, size)
        PROVE  \A q \in Players : Cov(q)'
    <3>1. Gets(p, size)
      BY <1>1, <2>6, QueueEffects
    <3> HIDE DEF Cov
    <3> QED
      BY <1>9, <2>6, <3>1, RacedEffects
  <2>7. ASSUME NEW to \in PlayStates, SetPlayState(p, to)
        PROVE  \A q \in Players : Cov(q)'
    <3>1. KeepsAllBut(p) /\ Keeps(p)
      BY <1>1, <2>7, QueueEffects
    <3> HIDE DEF Cov
    <3> QED
      BY <1>7, <2>7, <3>1, RacedEffects DEF KeepsAllBut
  <2> HIDE DEF Cov
  <2> QED
    BY <1>10, <2>1, <2>2, <2>3, <2>4, <2>5, <2>6, <2>7 DEF GameCall
<1>11. CASE SetPlayStateStep
  <2>0. raced' = raced
    BY <1>11, RacedKept
  <2>1. CASE \A q \in Players : Keeps(q)
    <3> HIDE DEF Cov
    <3> QED
      BY <1>7, <2>0, <2>1
  <2>2. CASE game.p \in Players /\ Holds(game.p, 0, pl[game.p].pending)
    <3>1. 0 <= Sum(pl[game.p].pending)
      BY <1>2, <2>2
    <3> HIDE DEF Cov
    <3> QED
      BY <1>8, <2>0, <2>2, <3>1
  <2>3. CASE game.at = "drop_pending" /\ game.p \in Players /\ Holds(game.p, pl[game.p].queued, <<>>)
    <3>1. game.p \notin raced' => pl[game.p].queued <= Sum(<<>>)
      BY <1>1, <2>0, <2>3, SumEmpty DEF DroppedInOrder
    <3> HIDE DEF Cov
    <3> QED
      BY <1>8, <2>0, <2>3, <3>1
  <2> HIDE DEF Cov
  <2> QED
    BY <1>1, <1>11, <2>1, <2>2, <2>3, OutsideEffects
<1>12. CASE SDL_GetTicks
  <2> HIDE DEF Cov
  <2> QED
    BY <1>1, <1>7, <1>12, OutsideEffects, RacedKept
<1>13. CASE PumpBegin \/ PumpVisit \/ PumpMeasure \/ PumpNext
  <2> HIDE DEF Cov
  <2> QED
    <3>1. raced \subseteq raced'
      BY <1>13, RacedKept DEF PumpStep
    <3> QED
      BY <1>1, <1>7, <1>13, <3>1, PumpEffects
<1>14. CASE PumpRetire
  <2> DEFINE p    == pump.cur
             s    == pl[p].pending
             rest == SubSeq(s, pump.done + 1, Len(s))
  <2>1. p \in Players
    <3>1. g_players \in Seq(Players) /\ pump.cur \in ToSet(g_players)
      BY <1>1, <1>14 DEF PumpRetire, CursorIsLive, Typed, TypeOK
    <3> QED
      BY <3>1 DEF ToSet
  <2>2. Holds(p, pl[p].queued, rest) \/ \A q \in Players : Keeps(q)
    BY <1>1, <1>14, PumpEffects
  <2>0. raced' = raced
    BY <1>14, RacedKept DEF PumpStep
  <2>4. s \in Seq(Nat) /\ pl[p].queued \in Nat /\ Sum(s) \in Nat
    BY <1>2, <2>1
  <2>5. ASSUME p \notin raced, pl[p].device
        PROVE  pl[p].queued <= Sum(rest)
    <3>1. /\ pump.done \in 0..Len(s)
          /\ pl[p].queued + Sum(SubSeq(s, 1, pump.done)) <= Sum(s)
      BY <1>1, <1>14, <2>5 DEF PumpRetire, DoneIsPlayed
    <3> HIDE DEF p, s
    <3>2. Sum(s) = Sum(SubSeq(s, 1, pump.done)) + Sum(rest)
      <4>1. Len(s) \in pump.done..Len(s)
        BY <2>4, <3>1
      <4>2. SubSeq(s, 1, Len(s)) = s
        BY <2>4, SubSeqFull
      <4>3. Sum(SubSeq(s, 1, Len(s))) = Sum(SubSeq(s, 1, pump.done)) + Sum(rest)
        BY <2>4, <3>1, <4>1, SumSplit
      <4> QED
        BY <4>2, <4>3
    <3>3. Sum(SubSeq(s, 1, pump.done)) \in Nat /\ Sum(rest) \in Nat
      <4>1. /\ pump.done \in Nat /\ pump.done <= Len(s) /\ pump.done + 1 \in Nat \ {0}
            /\ 1 \in Nat \ {0} /\ Len(s) \in Nat /\ Len(s) <= Len(s)
        BY <2>4, <3>1
      <4> QED
        BY <2>4, <4>1, Runs
    <3> QED
      BY <2>4, <3>1, <3>2, <3>3
  <2> HIDE DEF p, s, rest, Cov
  <2> QED
    BY <1>7, <1>8, <2>0, <2>1, <2>2, <2>5
<1>15. CASE PumpRefill
  <2>1. pump.cur \in Players
    <3>1. g_players \in Seq(Players) /\ pump.cur \in ToSet(g_players)
      BY <1>1, <1>15 DEF PumpRefill, CursorIsLive, Typed, TypeOK
    <3> QED
      BY <3>1 DEF ToSet
  <2> HIDE DEF Cov
  <2> QED
    <3>1. raced' = raced
      BY <1>15, RacedKept DEF PumpStep
    <3> QED
      BY <1>1, <1>7, <1>9, <1>15, <2>1, <3>1, PumpEffects
<1>16. CASE UNCHANGED vars
  <2>1. raced' = raced /\ \A q \in Players : Keeps(q)
    BY <1>16 DEF vars, Keeps
  <2> HIDE DEF Cov
  <2> QED
    BY <1>7, <2>1
<1> HIDE DEF Cov
<1> QED
  BY <1>10, <1>11, <1>12, <1>13, <1>14, <1>15, <1>16
     DEF Next, PumpStep, audio_thread_main, android_opensles_frame_tick

\* What was counted stays in the queue until it is popped.
LEMMA DoneStep ==
    ASSUME Held, [Next]_vars
    PROVE  DoneIsPlayed'
<1>1. /\ Typed /\ FreshIsEmpty /\ CursorIsLive /\ WorksOnRealized /\ CallPlaced
      /\ Covered /\ DoneIsPlayed
  BY DEF Held, Base
<1>2. pump \in PumpType /\ game \in GameType /\ pl \in [Players -> Player]
  BY <1>1 DEF Typed, TypeOK
<1> DEFINE p == pump.cur
           s == pl[p].pending
           Fits(queued) == queued + Sum(SubSeq(s, 1, pump.done)) <= Sum(s)
<1>3. pump.at # "idle" => p \in Players
  <2>1. g_players \in Seq(Players)
    BY <1>1 DEF Typed, TypeOK
  <2> QED
    BY <1>1, <2>1 DEF CursorIsLive, ToSet
<1>4. pump.at = "retire" /\ p \notin raced =>
         pump.done \in 0..Len(s) /\ (pl[p].device => Fits(pl[p].queued))
  BY <1>1 DEF DoneIsPlayed
<1>5. ASSUME pump'.at # "retire"
      PROVE  DoneIsPlayed'
  BY <1>5 DEF DoneIsPlayed
<1>6. ASSUME pump'.at = pump.at, pump'.cur = p, pump'.done = pump.done, p \notin raced' => p \notin raced,
             pump.at = "retire" /\ p \notin raced => Keeps(p)
      PROVE  DoneIsPlayed'
  <2>1. CASE pump.at = "retire" /\ p \notin raced'
    <3>1. p \notin raced /\ Keeps(p)
      BY <1>6, <2>1
    <3> QED
      BY <1>4, <1>6, <2>1, <3>1 DEF DoneIsPlayed, Keeps
  <2>2. CASE p \in raced'
    BY <1>6, <2>2 DEF DoneIsPlayed
  <2> QED
    BY <1>5, <1>6, <2>1, <2>2
<1>7. ASSUME NEW q \in Players, GameCall(q)
      PROVE  DoneIsPlayed'
  <2>1. UNCHANGED pump
    BY <1>7 DEF GameCall, CreateAudioPlayer, Realize, Destroy, Clear, RegisterCallback,
                Enqueue, SetPlayState
  <2>2. pump.at = "retire" => Keeps(p)
    <3> SUFFICES ASSUME pump.at = "retire" PROVE Keeps(p)
      OBVIOUS
    <3>1. /\ ~Destroy(q) /\ ~Clear(q) /\ ~RegisterCallback(q)
          /\ \A size \in Sizes : ~Enqueue(q, size)
      BY DEF Destroy, Clear, RegisterCallback, Enqueue, LockFree
    <3>2. CASE CreateAudioPlayer(q)
      <4>1. KeepsAllBut(q) /\ q # p
        BY <1>1, <3>2, ObjectEffects DEF CreateAudioPlayer, CursorIsLive
      <4> QED
        BY <1>3, <4>1 DEF KeepsAllBut
    <3>3. CASE Realize(q)
      <4>1. KeepsAllBut(q) /\ ~pl[q].realized
        BY <1>1, <3>3, ObjectEffects
      <4>2. q # p
        BY <1>1, <4>1 DEF WorksOnRealized
      <4> QED
        BY <1>3, <4>1, <4>2 DEF KeepsAllBut
    <3>4. ASSUME NEW to \in PlayStates, SetPlayState(q, to)
          PROVE  Keeps(p)
      <4>1. KeepsAllBut(q) /\ Keeps(q)
        BY <1>1, <3>4, QueueEffects
      <4> QED
        BY <1>3, <4>1 DEF KeepsAllBut
    <3> QED
      BY <1>7, <3>1, <3>2, <3>3, <3>4 DEF GameCall
  <2>3. pump.at = "retire" => (p \notin raced' => p \notin raced)
    <3> SUFFICES ASSUME pump.at = "retire" PROVE p \notin raced' => p \notin raced
      OBVIOUS
    <3>1. ~Destroy(q) /\ ~Clear(q)
      BY DEF Destroy, Clear, LockFree
    <3>2. CreateAudioPlayer(q) => q # p /\ raced \ {q} \subseteq raced'
      BY <1>1, RacedEffects DEF CreateAudioPlayer, CursorIsLive
    <3>3. ~CreateAudioPlayer(q) => raced \subseteq raced'
      BY <1>7, <3>1, RacedEffects DEF GameCall
    <3> QED
      BY <3>2, <3>3
  <2> QED
    BY <1>5, <1>6, <2>1, <2>2, <2>3
<1>8. ASSUME NEW q \in Players, Drain(q)
      PROVE  DoneIsPlayed'
  <2>1. Holds(q, pl[q].queued - 1, pl[q].pending)
    BY <1>1, <1>8, QueueEffects
  <2>2. UNCHANGED <<pump, raced>>
    BY <1>8 DEF Drain
  <2>3. CASE q # p
    <3>1. pump.at = "retire" => Keeps(p)
      BY <1>3, <2>1, <2>3 DEF Holds, KeepsAllBut
    <3> QED
      BY <1>6, <2>2, <3>1
  <2>5. CASE p \in raced
    BY <2>2, <2>5 DEF DoneIsPlayed
  <2>4. CASE q = p /\ pump.at = "retire" /\ p \notin raced
    <3>1. /\ pl'[p].device = pl[p].device /\ pl'[p].pending = s
          /\ pl'[p].queued = pl[p].queued - 1
      BY <2>1, <2>4 DEF Holds
    <3>2. pl[p].queued \in Nat /\ s \in Seq(Nat) /\ Sum(s) \in Nat
      BY <1>2, <2>4, PlayerFields, SumTyped
    <3>3. pump.done \in 0..Len(s) /\ Sum(SubSeq(s, 1, pump.done)) \in Nat
      <4>1. pump.done \in Nat /\ pump.done <= Len(s) /\ 1 \in Nat \ {0}
        BY <1>4, <2>4, <3>2
      <4> QED
        BY <1>4, <2>4, <3>2, <4>1, Runs
    <3>4. pl[p].device => Fits(pl[p].queued - 1)
      BY <1>4, <2>4, <3>2, <3>3
    <3> QED
      BY <2>2, <3>1, <3>3, <3>4 DEF DoneIsPlayed
  <2> QED
    BY <1>5, <2>2, <2>3, <2>4, <2>5
<1>9. CASE SetPlayStateStep
  <2>1. UNCHANGED <<pump, raced>>
    BY <1>9 DEF SetPlayStateStep
  <2>2. pump.at = "retire" /\ p \notin raced => Keeps(p)
    <3> SUFFICES ASSUME pump.at = "retire", p \notin raced PROVE Keeps(p)
      OBVIOUS
    <3>1. game.at \in {"drop_device", "drop_pending"} => game.p # p
      BY <1>1 DEF CallPlaced, Dropping
    <3>2. \/ \A q \in Players : Keeps(q)
          \/ game.at \in {"drop_device", "drop_pending"} /\ KeepsAllBut(game.p)
      BY <1>1, <1>9, OutsideEffects DEF Holds
    <3> QED
      BY <1>3, <3>1, <3>2 DEF KeepsAllBut
  <2> QED
    BY <1>6, <2>1, <2>2
<1>10. CASE SDL_GetTicks
  <2>1. pump'.at = pump.at /\ pump'.cur = p /\ pump'.done = pump.done
    BY <1>2, <1>10 DEF SDL_GetTicks, PumpType
  <2>2. \A q \in Players : Keeps(q)
    BY <1>1, <1>10, OutsideEffects
  <2> QED
    BY <1>3, <1>6, <1>10, <2>1, <2>2, RacedKept
<1>11. CASE PumpMeasure
  <2> DEFINE r      == pl[p]
             held   == Sum(r.pending)
             played == IF held > r.queued THEN held - r.queued ELSE 0
             carry  == Min({r.carry + pump.elapsed, MaxCarry})
  <2>1. p \in Players /\ r \in Player
    BY <1>2, <1>3, <1>11 DEF PumpMeasure
  <2>2. /\ s \in Seq(Nat) /\ r.queued \in Nat /\ held \in Nat /\ played \in Nat
        /\ r.carry \in 0..MaxCarry /\ Len(s) \in Nat
    BY <2>1, PlayerFields, SumTyped
  <2>3. carry \in Nat
    <3> DEFINE n == r.carry + pump.elapsed
    <3>1. n \in Nat /\ n \in Int /\ MaxCarry \in Nat /\ MaxCarry \in Int
      <4>1. pump.elapsed \in 0..Word - 1
        BY <1>2 DEF PumpType
      <4> QED
        BY <2>2, <4>1, Constants
    <3> HIDE DEF n
    <3>2. Min({n, MaxCarry}) \in {n, MaxCarry}
      BY <3>1, OfTwo
    <3>3. Min({n, MaxCarry}) \in Nat
      BY <3>1, <3>2
    <3> QED
      BY <3>3 DEF n
  <2>4. Keeps(p)
    BY <1>1, <1>11, <2>1, PumpEffects
  <2>5. pump'.at = "retire" /\ pump'.cur = p /\ raced' = raced
    BY <1>2, <1>11 DEF PumpMeasure, PumpType
  <2>8. CASE p \in raced
    BY <2>5, <2>8 DEF DoneIsPlayed
  <2>6. CASE r.device /\ p \notin raced
    <3>1. pump'.done = DoneBy(s, played)
      BY <1>2, <1>11, <2>6 DEF PumpMeasure, PumpType
    <3> HIDE DEF played
    <3>2. DoneBy(s, played) \in 0..Len(s) /\ Sum(SubSeq(s, 1, DoneBy(s, played))) <= played
      BY <2>2, DoneFits
    <3> DEFINE d == DoneBy(s, played)
    <3>3. Sum(SubSeq(s, 1, d)) \in Nat
      <4>1. d \in Nat /\ d <= Len(s) /\ 1 \in Nat \ {0}
        BY <2>2, <3>2
      <4> HIDE DEF d
      <4> QED
        BY <2>2, <4>1, Runs
    <3>4. r.queued <= held
      BY <1>1, <2>1, <2>6 DEF Covered
    <3>5. r.queued + played <= held
      BY <2>2, <3>4 DEF played
    <3>6. r.queued + Sum(SubSeq(s, 1, d)) <= held
      BY <2>2, <3>2, <3>3, <3>5
    <3> QED
      BY <2>4, <2>5, <3>1, <3>2, <3>6 DEF DoneIsPlayed, Keeps
  <2>7. CASE ~r.device
    <3>1. pump'.done \in 0..Len(s)
      <4>1. pump'.done = IF r.state = Playing THEN DoneBy(s, carry) ELSE 0
        BY <1>2, <1>11, <2>7 DEF PumpMeasure, PumpType
      <4> HIDE DEF carry
      <4>2. DoneBy(s, carry) \in 0..Len(s)
        BY <2>2, <2>3, DoneFits
      <4>3. 0 \in 0..Len(s)
        BY <2>2
      <4> QED
        BY <4>1, <4>2, <4>3
    <3> QED
      BY <2>4, <2>5, <2>7, <3>1 DEF DoneIsPlayed, Keeps
  <2> QED
    BY <2>6, <2>7, <2>8
<1>12. CASE PumpBegin \/ PumpVisit \/ PumpRetire \/ PumpRefill \/ PumpNext
  <2>1. pump'.at # "retire"
    <3>1. CASE PumpBegin
      BY <3>1 DEF PumpBegin, Idle
    <3>2. CASE PumpVisit
      BY <1>2, <3>2 DEF PumpVisit, Leaving, Idle, PumpType
    <3>3. CASE PumpRetire
      BY <1>2, <3>3 DEF PumpRetire, PumpType
    <3>4. CASE PumpRefill
      BY <1>2, <3>4 DEF PumpRefill, Leaving, Idle, PumpType
    <3>5. CASE PumpNext
      <4>1. CASE After(pump.cur) = <<>>
        BY <3>5, <4>1 DEF PumpNext, Idle
      <4>2. CASE After(pump.cur) # <<>>
        BY <3>5, <4>2 DEF PumpNext, Idle
      <4> QED
        BY <4>1, <4>2
    <3> QED
      BY <1>12, <3>1, <3>2, <3>3, <3>4, <3>5
  <2> QED
    BY <1>5, <2>1
<1>13. CASE UNCHANGED vars
  BY <1>6, <1>13 DEF vars, Keeps
<1> QED
  BY <1>7, <1>8, <1>9, <1>10, <1>11, <1>12, <1>13
     DEF Next, PumpStep, audio_thread_main, android_opensles_frame_tick

LEMMA HeldStep == Held /\ [Next]_vars => Held'
BY BaseStep, DroppedStep, CoveredStep, DoneStep DEF Held

\* Until the game stops a player during a pump, no buffer of it is retired while the
\* device still holds it: android_opensles_pump pops what SDL_GetQueuedAudioSize says has
\* been played, and play_SetPlayState empties the device before the queue.
THEOREM DeviceCovered == Spec => []QueueCoversDevice
<1>1. Held => QueueCoversDevice
  <2> SUFFICES ASSUME Held PROVE QueueCoversDevice
    OBVIOUS
  <2>1. ToSet(g_players) \subseteq Players
    <3>1. g_players \in Seq(Players)
      BY DEF Held, Base, Typed, TypeOK
    <3> QED
      BY <3>1 DEF ToSet
  <2> QED
    BY <2>1 DEF Held, Covered, QueueCoversDevice
<1> QED
  BY HeldInit, HeldStep, <1>1, PTL DEF Spec

\* android_opensles_pump pops from an empty queue only if the game stopped that player
\* during a pump: of all that the game may call, play_SetPlayState alone takes no lock.
THEOREM CountedIsThere == Spec => []PopsUnlessStopped
<1>1. Held => PopsUnlessStopped
  <2> SUFFICES ASSUME Held, pump.at = "retire", pump.cur \notin raced
               PROVE  pump.done <= Len(pl[pump.cur].pending)
    BY DEF PopsUnlessStopped
  <2>1. pump.done \in 0..Len(pl[pump.cur].pending)
    BY DEF Held, DoneIsPlayed
  <2> QED
    BY <2>1
<1> QED
  BY HeldInit, HeldStep, <1>1, PTL DEF Spec

=============================================================================
