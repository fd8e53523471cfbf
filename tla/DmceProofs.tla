------------------------------ MODULE DmceProofs ------------------------------
(***************************************************************************)
(* Proofs about DmceEngine and StoreSwap, for any nodes, queries, engines  *)
(* and dimension: the sums and orders that scores are made of, the chain,  *)
(* the two loops, and the two stores.                                      *)
(***************************************************************************)
EXTENDS StoreSwap, FiniteSetTheorems, SequenceTheorems, TLAPS

(***************************************************************************)
(* Induction, for a set of numbers instead of a predicate: what a proof by *)
(* induction is about is the set of the numbers for which it holds.        *)
(***************************************************************************)

LEMMA LeastMember ==
  ASSUME NEW T, T \subseteq Nat, T # {}
  PROVE  \E n \in T : \A m \in T : n <= m
  <1> DEFINE R == OpToRel(<, Nat)
  <1>1. IsWellFoundedOn(R, Nat)
    BY NatLessThanWellFounded
  <1>2. \A m, n \in Nat : m < n => <<m, n>> \in R
    BY DEF OpToRel
  <1> HIDE DEF R
  <1>3. PICK n \in T : \A m \in T : <<m, n>> \notin R
    BY <1>1, WFMin
  <1>4. \A m \in T : m \in Nat /\ ~ (m < n)
    BY <1>2, <1>3
  <1> QED
    BY <1>4

LEMMA Induction ==
  ASSUME NEW S, 0 \in S, \A n \in Nat : n \in S => n + 1 \in S
  PROVE  \A n \in Nat : n \in S
  <1> SUFFICES ASSUME {n \in Nat : n \notin S} # {} PROVE FALSE
    OBVIOUS
  <1>1. PICK n \in {n \in Nat : n \notin S} : \A m \in {k \in Nat : k \notin S} : n <= m
    BY LeastMember
  <1>2. n # 0 /\ n - 1 \in Nat /\ n - 1 \notin S
    BY <1>1
  <1> QED
    BY <1>1, <1>2

-----------------------------------------------------------------------------
(***************************************************************************)
(* Sums.  A fold is defined by a function on the subsets that satisfies an *)
(* equation: there is one, and no two differ.                              *)
(***************************************************************************)

Pick(s) == CHOOSE x \in s : TRUE

Sums(f, S, g) ==
  g = [s \in SUBSET S |-> IF s = {} THEN 0 ELSE f[Pick(s)] + g[s \ {Pick(s)}]]

SumOver(f, S) == FoldFunctionOnSet(+, 0, f, S)

LEMMA SumIsFold ==
  ASSUME NEW f, NEW S
  PROVE  SumOver(f, S) = (CHOOSE g : Sums(f, S, g))[S]
  BY DEF SumOver, FoldFunctionOnSet, MapThenFoldSet, Sums, Pick

LEMMA PickIn ==
  ASSUME NEW s, s # {}
  PROVE  Pick(s) \in s
  BY DEF Pick

\* The subsets of at most n members, and a function that satisfies the equation on them.
Small(S, n) == {s \in SUBSET S : IsFiniteSet(s) /\ Cardinality(s) <= n}

SumsUpTo(f, S, n, g) ==
  g = [s \in Small(S, n) |-> IF s = {} THEN 0 ELSE f[Pick(s)] + g[s \ {Pick(s)}]]

LEMMA Smaller ==
  ASSUME NEW S, NEW n \in Nat, NEW s \in Small(S, n + 1), s # {}
  PROVE  s \ {Pick(s)} \in Small(S, n)
  <1>1. IsFiniteSet(s) /\ Cardinality(s) \in Nat /\ Cardinality(s) <= n + 1
    BY FS_CardinalityType DEF Small
  <1>2. IsFiniteSet(s \ {Pick(s)}) /\ Cardinality(s \ {Pick(s)}) = Cardinality(s) - 1
    BY <1>1, PickIn, FS_RemoveElement
  <1> QED
    BY <1>1, <1>2 DEF Small

LEMMA SmallNone ==
  ASSUME NEW S
  PROVE  Small(S, 0) = {{}}
  <1>1. \A s : IsFiniteSet(s) => Cardinality(s) \in Nat /\ (Cardinality(s) = 0 <=> s = {})
    BY FS_CardinalityType, FS_EmptySet
  <1> QED
    BY <1>1, FS_EmptySet DEF Small

LEMMA SmallGrows ==
  ASSUME NEW S, NEW n \in Nat, NEW s \in Small(S, n)
  PROVE  s \in Small(S, n + 1)
  <1>1. IsFiniteSet(s) /\ Cardinality(s) \in Nat
    BY FS_CardinalityType DEF Small
  <1> QED
    BY <1>1 DEF Small

LEMMA SumsExistUpTo ==
  ASSUME NEW f, NEW S
  PROVE  \A n \in Nat : \E g : SumsUpTo(f, S, n, g)
  <1> DEFINE T == {n \in Nat : \E g : SumsUpTo(f, S, n, g)}
  <1>1. 0 \in T
    <2>1. SumsUpTo(f, S, 0, [s \in Small(S, 0) |-> 0])
      BY SmallNone DEF SumsUpTo
    <2> QED
      BY <2>1
  <1>2. \A n \in Nat : n \in T => n + 1 \in T
    <2> SUFFICES ASSUME NEW n \in Nat, NEW g, SumsUpTo(f, S, n, g)
                 PROVE  \E h : SumsUpTo(f, S, n + 1, h)
      OBVIOUS
    <2> DEFINE h == [s \in Small(S, n + 1) |->
                       IF s = {} THEN 0 ELSE f[Pick(s)] + g[s \ {Pick(s)}]]
    <2>1. ASSUME NEW s \in Small(S, n) PROVE h[s] = g[s]
      <3>1. g[s] = IF s = {} THEN 0 ELSE f[Pick(s)] + g[s \ {Pick(s)}]
        BY DEF SumsUpTo
      <3> QED
        BY <3>1, SmallGrows
    <2>2. \A s \in Small(S, n + 1) : s # {} => h[s \ {Pick(s)}] = g[s \ {Pick(s)}]
      BY <2>1, Smaller
    <2>3. h = [s \in Small(S, n + 1) |-> IF s = {} THEN 0 ELSE f[Pick(s)] + h[s \ {Pick(s)}]]
      BY <2>2
    <2> HIDE DEF h
    <2>4. SumsUpTo(f, S, n + 1, h)
      BY <2>3 DEF SumsUpTo
    <2> QED
      BY <2>4
  <1> HIDE DEF T
  <1>3. \A n \in Nat : n \in T
    BY <1>1, <1>2, Induction
  <1> QED
    BY <1>3 DEF T

LEMMA SmallAll ==
  ASSUME NEW S, IsFiniteSet(S)
  PROVE  Cardinality(S) \in Nat /\ Small(S, Cardinality(S)) = SUBSET S
  <1>1. \A s \in SUBSET S : IsFiniteSet(s) /\ Cardinality(s) <= Cardinality(S)
    BY FS_Subset
  <1> QED
    BY <1>1, FS_CardinalityType DEF Small

LEMMA SumsExist ==
  ASSUME NEW f, NEW S, IsFiniteSet(S)
  PROVE  Sums(f, S, CHOOSE g : Sums(f, S, g))
  <1>1. Cardinality(S) \in Nat /\ Small(S, Cardinality(S)) = SUBSET S
    BY SmallAll
  <1>2. PICK g : SumsUpTo(f, S, Cardinality(S), g)
    BY <1>1, SumsExistUpTo
  <1>3. Sums(f, S, g)
    BY <1>1, <1>2 DEF SumsUpTo, Sums
  <1> QED
    BY <1>3

LEMMA SumsAgree ==
  ASSUME NEW f, NEW S, NEW T \in SUBSET S, IsFiniteSet(S), NEW g, NEW h,
         Sums(f, S, g), Sums(f, T, h)
  PROVE  \A s \in SUBSET T : g[s] = h[s]
  <1> DEFINE N == {n \in Nat : \A s \in Small(T, n) : g[s] = h[s]}
  <1>1. \A s \in SUBSET T :
          /\ g[s] = IF s = {} THEN 0 ELSE f[Pick(s)] + g[s \ {Pick(s)}]
          /\ h[s] = IF s = {} THEN 0 ELSE f[Pick(s)] + h[s \ {Pick(s)}]
    BY DEF Sums
  <1>2. 0 \in N
    BY <1>1, SmallNone
  <1>3. \A n \in Nat : n \in N => n + 1 \in N
    <2> SUFFICES ASSUME NEW n \in Nat, \A s \in Small(T, n) : g[s] = h[s],
                        NEW s \in Small(T, n + 1)
                 PROVE  g[s] = h[s]
      OBVIOUS
    <2>1. s \in SUBSET T
      BY DEF Small
    <2> QED
      BY <1>1, <2>1, Smaller
  <1> HIDE DEF N
  <1>4. \A n \in Nat : n \in N
    BY <1>2, <1>3, Induction
  <1>5. IsFiniteSet(T)
    BY FS_Subset
  <1>6. Cardinality(T) \in Nat /\ Small(T, Cardinality(T)) = SUBSET T
    BY <1>5, SmallAll
  <1> QED
    BY <1>4, <1>6 DEF N

LEMMA SumOfNone ==
  ASSUME NEW f
  PROVE  SumOver(f, {}) = 0
  <1> DEFINE g == CHOOSE g : Sums(f, {}, g)
  <1>1. Sums(f, {}, g)
    BY SumsExist, FS_EmptySet
  <1>2. SumOver(f, {}) = g[{}]
    BY SumIsFold
  <1> HIDE DEF g
  <1> QED
    BY <1>1, <1>2 DEF Sums

LEMMA SumPicks ==
  ASSUME NEW f, NEW S, IsFiniteSet(S), S # {}
  PROVE  SumOver(f, S) = f[Pick(S)] + SumOver(f, S \ {Pick(S)})
  <1> DEFINE T == S \ {Pick(S)}
             g == CHOOSE g : Sums(f, S, g)
             h == CHOOSE h : Sums(f, T, h)
  <1>1. IsFiniteSet(T) /\ T \in SUBSET S
    BY FS_Subset
  <1>2. Sums(f, S, g) /\ Sums(f, T, h)
    BY <1>1, SumsExist
  <1>3. SumOver(f, S) = g[S] /\ SumOver(f, T) = h[T]
    BY SumIsFold
  <1> HIDE DEF g, h
  <1>4. g[S] = f[Pick(S)] + g[T]
    BY <1>2 DEF Sums
  <1>5. g[T] = h[T]
    BY <1>1, <1>2, SumsAgree
  <1> QED
    BY <1>3, <1>4, <1>5

\* The sum is a number, and any member may be taken out of it.
Takes(f, s) ==
  /\ SumOver(f, s) \in Int
  /\ \A x \in s : SumOver(f, s) = f[x] + SumOver(f, s \ {x})

LEMMA SumTakesUpTo ==
  ASSUME NEW f, NEW S, \A x \in S : f[x] \in Int
  PROVE  \A n \in Nat : \A s \in Small(S, n) : Takes(f, s)
  <1> DEFINE T == {n \in Nat : \A s \in Small(S, n) : Takes(f, s)}
  <1>1. Takes(f, {})
    BY SumOfNone DEF Takes
  <1>2. 0 \in T
    BY <1>1, SmallNone
  <1>3. \A n \in Nat : n \in T => n + 1 \in T
    <2> SUFFICES ASSUME NEW n \in Nat, n \in T, NEW s \in Small(S, n + 1)
                 PROVE  Takes(f, s)
      OBVIOUS
    <2> SUFFICES ASSUME s # {} PROVE Takes(f, s)
      BY <1>1
    <2> DEFINE p == Pick(s)
    <2>1. p \in s /\ f[p] \in Int
      BY PickIn DEF Small
    <2>2. IsFiniteSet(s) /\ s \in SUBSET S
      BY DEF Small
    <2>3. SumOver(f, s) = f[p] + SumOver(f, s \ {p})
      BY <2>2, SumPicks
    <2>4. s \ {p} \in Small(S, n)
      BY Smaller
    <2> HIDE DEF p
    <2>5. SumOver(f, s \ {p}) \in Int
      BY <2>4 DEF Takes
    <2>6. ASSUME NEW x \in s PROVE SumOver(f, s) = f[x] + SumOver(f, s \ {x})
      <3>1. CASE x = p
        BY <2>3, <3>1
      <3>2. CASE x # p
        <4>1. IsFiniteSet(s \ {x}) /\ Cardinality(s \ {x}) = Cardinality(s) - 1
          BY <2>2, FS_RemoveElement
        <4>2. s \ {x} \in Small(S, n)
          BY <4>1, <2>2, FS_CardinalityType DEF Small
        <4>3. SumOver(f, s \ {p}) = f[x] + SumOver(f, (s \ {p}) \ {x})
          BY <2>4, <3>2 DEF Takes
        <4>4. SumOver(f, s \ {x}) = f[p] + SumOver(f, (s \ {x}) \ {p})
          BY <4>2, <3>2, <2>1 DEF Takes
        <4>5. (s \ {p}) \ {x} = (s \ {x}) \ {p}
          OBVIOUS
        <4>6. SumOver(f, (s \ {p}) \ {x}) \in Int
          <5>0. /\ IsFiniteSet((s \ {x}) \ {p})
                /\ Cardinality((s \ {x}) \ {p}) <= Cardinality(s \ {x})
                /\ Cardinality((s \ {x}) \ {p}) \in Nat /\ Cardinality(s \ {x}) \in Nat
            BY <4>1, FS_Subset, FS_CardinalityType
          <5>1. (s \ {x}) \ {p} \in Small(S, n)
            BY <4>2, <5>0 DEF Small
          <5> QED
            BY <5>1, <4>5 DEF Takes
        <4>7. f[x] \in Int
          BY <2>2
        <4> DEFINE a == SumOver(f, s \ {p})
                   b == SumOver(f, s \ {x})
                   c == SumOver(f, (s \ {p}) \ {x})
        <4>8. SumOver(f, s) = f[p] + a /\ a = f[x] + c /\ b = f[p] + c /\ c \in Int
          BY <2>3, <4>3, <4>4, <4>5, <4>6
        <4> HIDE DEF a, b, c
        <4>9. SumOver(f, s) = f[x] + b
          BY <4>8, <4>7, <2>1
        <4> QED
          BY <4>9 DEF b
      <3> QED
        BY <3>1, <3>2
    <2> QED
      BY <2>1, <2>3, <2>5, <2>6 DEF Takes
  <1> HIDE DEF T
  <1>4. \A n \in Nat : n \in T
    BY <1>2, <1>3, Induction
  <1> QED
    BY <1>4 DEF T

LEMMA SumTakes ==
  ASSUME NEW f, NEW S, IsFiniteSet(S), \A x \in S : f[x] \in Int
  PROVE  /\ SumOver(f, S) \in Int
         /\ \A x \in S : SumOver(f, S) = f[x] + SumOver(f, S \ {x})
  <1>1. Cardinality(S) \in Nat /\ S \in Small(S, Cardinality(S))
    BY SmallAll
  <1>2. \A n \in Nat : \A s \in Small(S, n) : Takes(f, s)
    BY SumTakesUpTo
  <1> QED
    BY <1>1, <1>2 DEF Takes

\* The sum of a sequence's first n numbers.
SumTo(f, n) == SumOver(f, 1 .. n)

LEMMA SumToStep ==
  ASSUME NEW f, NEW n \in Nat, \A i \in 1 .. n : f[i] \in Int
  PROVE  /\ SumTo(f, 0) = 0
         /\ SumTo(f, n) \in Int
         /\ n > 0 => SumTo(f, n) = SumTo(f, n - 1) + f[n] /\ SumTo(f, n - 1) \in Int
  <1>1. SumTo(f, 0) = 0
    BY SumOfNone, 1 .. 0 = {} DEF SumTo
  <1>2. \A m \in Nat : IsFiniteSet(1 .. m)
    BY FS_Interval
  <1>3. SumTo(f, n) \in Int
    BY <1>2, SumTakes DEF SumTo
  <1>4. ASSUME n > 0
        PROVE  SumTo(f, n) = SumTo(f, n - 1) + f[n] /\ SumTo(f, n - 1) \in Int
    <2>1. n \in 1 .. n /\ (1 .. n) \ {n} = 1 .. n - 1 /\ n - 1 \in Nat
      BY <1>4
    <2>2. SumTo(f, n) = f[n] + SumTo(f, n - 1)
      <3>1. \A x \in 1 .. n : SumOver(f, 1 .. n) = f[x] + SumOver(f, (1 .. n) \ {x})
        BY <1>2, SumTakes
      <3> QED
        BY <3>1, <2>1, Zenon DEF SumTo
    <2>3. \A i \in 1 .. n - 1 : f[i] \in Int
      BY <1>4
    <2>4. SumTo(f, n - 1) \in Int
      BY <1>2, <2>1, <2>3, SumTakes DEF SumTo
    <2> QED
      BY <2>1, <2>2, <2>4
  <1> QED
    BY <1>1, <1>3, <1>4

LEMMA FoldIsSum ==
  ASSUME NEW n \in Nat, NEW f, f = [i \in 1 .. n |-> f[i]]
  PROVE  FoldFunction(+, 0, f) = SumTo(f, n)
  <1>1. DOMAIN f = 1 .. n
    OBVIOUS
  <1> QED
    BY <1>1 DEF FoldFunction, SumOver, SumTo

\* A sum of sums, and sums of the same numbers.
LEMMA SumToAdds ==
  ASSUME NEW n \in Nat, NEW f, NEW g, NEW h,
         \A i \in 1 .. n : f[i] \in Int /\ g[i] \in Int /\ h[i] = f[i] + g[i]
  PROVE  SumTo(h, n) = SumTo(f, n) + SumTo(g, n)
  <1> DEFINE T == {m \in Nat : m <= n => SumTo(h, m) = SumTo(f, m) + SumTo(g, m)}
  <1>1. 0 \in T
    BY SumToStep
  <1>2. \A m \in Nat : m \in T => m + 1 \in T
    <2> SUFFICES ASSUME NEW m \in Nat, m + 1 <= n, SumTo(h, m) = SumTo(f, m) + SumTo(g, m)
                 PROVE  SumTo(h, m + 1) = SumTo(f, m + 1) + SumTo(g, m + 1)
      OBVIOUS
    <2>0. m + 1 \in Nat /\ m + 1 > 0 /\ (m + 1) - 1 = m
      OBVIOUS
    <2>1. \A i \in 1 .. m + 1 : f[i] \in Int /\ g[i] \in Int /\ h[i] \in Int
      OBVIOUS
    <2>2. SumTo(f, m + 1) = SumTo(f, m) + f[m + 1] /\ SumTo(f, m) \in Int
      BY <2>0, <2>1, SumToStep
    <2>3. SumTo(g, m + 1) = SumTo(g, m) + g[m + 1] /\ SumTo(g, m) \in Int
      BY <2>0, <2>1, SumToStep
    <2>4. SumTo(h, m + 1) = SumTo(h, m) + h[m + 1]
      BY <2>0, <2>1, SumToStep
    <2>5. h[m + 1] = f[m + 1] + g[m + 1] /\ f[m + 1] \in Int /\ g[m + 1] \in Int
      BY <2>0
    <2> QED
      BY <2>2, <2>3, <2>4, <2>5
  <1> HIDE DEF T
  <1>3. \A m \in Nat : m \in T
    BY <1>1, <1>2, Induction
  <1> QED
    BY <1>3 DEF T

LEMMA DoubleOfItselfIsZero ==
  ASSUME NEW x \in Int, x = x + x
  PROVE  x = 0
  OBVIOUS

LEMMA SumToZero ==
  ASSUME NEW n \in Nat, NEW f, \A i \in 1 .. n : f[i] = 0
  PROVE  SumTo(f, n) = 0
  <1>1. \A i \in 1 .. n : f[i] \in Int /\ f[i] = f[i] + f[i]
    OBVIOUS
  <1>2. SumTo(f, n) = SumTo(f, n) + SumTo(f, n)
    BY <1>1, SumToAdds
  <1>3. SumTo(f, n) \in Int
    BY <1>1, SumToStep
  <1> QED
    BY ONLY <1>2, <1>3, DoubleOfItselfIsZero

LEMMA SumToSame ==
  ASSUME NEW n \in Nat, NEW f, NEW g, \A i \in 1 .. n : f[i] \in Int /\ g[i] = f[i]
  PROVE  SumTo(g, n) = SumTo(f, n)
  <1> DEFINE z == [i \in 1 .. n |-> 0]
  <1>1. SumTo(g, n) = SumTo(f, n) + SumTo(z, n)
    BY SumToAdds
  <1>2. SumTo(z, n) = 0
    BY SumToZero
  <1> QED
    BY <1>1, <1>2, SumToStep

LEMMA SumToNatural ==
  ASSUME NEW n \in Nat, NEW f, \A i \in 1 .. n : f[i] \in Nat
  PROVE  SumTo(f, n) \in Nat
  <1> DEFINE T == {m \in Nat : m <= n => SumTo(f, m) \in Nat}
  <1>1. 0 \in T
    BY SumToStep
  <1>2. \A m \in Nat : m \in T => m + 1 \in T
    <2> SUFFICES ASSUME NEW m \in Nat, m + 1 <= n, SumTo(f, m) \in Nat
                 PROVE  SumTo(f, m + 1) \in Nat
      OBVIOUS
    <2>1. m + 1 \in Nat /\ m + 1 > 0 /\ (m + 1) - 1 = m /\ \A i \in 1 .. m + 1 : f[i] \in Int
      OBVIOUS
    <2>2. SumTo(f, m + 1) = SumTo(f, m) + f[m + 1]
      BY <2>1, SumToStep
    <2> QED
      BY <2>2
  <1> HIDE DEF T
  <1>3. \A m \in Nat : m \in T
    BY <1>1, <1>2, Induction
  <1> QED
    BY <1>3 DEF T

LEMMA Scale ==
  ASSUME NEW a \in Int, NEW b \in Int, NEW c \in Nat \ {0}
  PROVE  a < b <=> a * c < b * c
  OBVIOUS

LEMMA Swap3 ==
  ASSUME NEW a \in Int, NEW b \in Int, NEW c \in Int
  PROVE  (a * b) * c = (a * c) * b
  OBVIOUS

\* Numbers as similarities are: a sign and a square over a positive square.
Fraction == [num : Int, den : Nat \ {0}]

LEMMA TimesFraction ==
  ASSUME NEW x \in Fraction, NEW y \in Fraction
  PROVE  Times(x, y) \in Fraction
  <1>1. \A a, b \in Nat \ {0} : a * b \in Nat \ {0}
    OBVIOUS
  <1> QED
    BY <1>1 DEF Fraction, Times

LEMMA ZeroFraction ==
  Zero \in Fraction
  BY DEF Zero, Fraction

LEMMA NotBelowTransitive ==
  ASSUME NEW x \in Fraction, NEW y \in Fraction, NEW z \in Fraction,
         ~Below(x, y), ~Below(y, z)
  PROVE  ~Below(x, z)
  <1> DEFINE a == x.num b == x.den c == y.num d == y.den e == z.num f == z.den
  <1>1. a \in Int /\ b \in Nat \ {0} /\ c \in Int /\ d \in Nat \ {0} /\ e \in Int /\ f \in Nat \ {0}
    BY DEF Fraction
  <1>2. a * d >= c * b /\ c * f >= e * d
    BY <1>1 DEF Below
  <1>3. Below(x, z) <=> a * f < e * b
    BY <1>1 DEF Below
  <1> HIDE DEF a, b, c, d, e, f
  <1>4. (a * d) * f >= (c * b) * f
    BY <1>1, <1>2, Scale
  <1>5. (c * f) * b >= (e * d) * b
    BY <1>1, <1>2, Scale
  <1>6. (a * f) * d >= (e * b) * d
    BY <1>1, <1>4, <1>5, Swap3
  <1>7. ~(a * f < e * b)
    BY <1>1, <1>6, Scale
  <1> QED
    BY <1>3, <1>7

LEMMA BelowOneWay ==
  ASSUME NEW x \in Fraction, NEW y \in Fraction
  PROVE  /\ Below(x, y) => ~Below(y, x)
         /\ ~Below(x, x)
         /\ Below(x, y) \in BOOLEAN
  BY DEF Below, Fraction

LEMMA BelowTransitive ==
  ASSUME NEW x \in Fraction, NEW y \in Fraction, NEW z \in Fraction
  PROVE  /\ Below(x, y) /\ ~Below(z, y) => Below(x, z)
         /\ ~Below(y, x) /\ Below(y, z) => Below(x, z)
         /\ Below(x, y) /\ Below(y, z) => Below(x, z)
  <1>1. ~Below(x, z) /\ ~Below(z, y) => ~Below(x, y)
    BY NotBelowTransitive
  <1>2. ~Below(y, x) /\ ~Below(x, z) => ~Below(y, z)
    BY NotBelowTransitive
  <1> QED
    BY <1>1, <1>2, BelowOneWay

-----------------------------------------------------------------------------
(***************************************************************************)
(* The dot product of vectors.                                             *)
(***************************************************************************)

Vector == [1 .. Dim -> Int]

Products(a, b) == [i \in 1 .. Dim |-> a[i] * b[i]]

LEMMA DotIsSum ==
  ASSUME NEW a \in Vector, NEW b
  PROVE  Dot(a, b) = SumTo(Products(a, b), Dim)
  <1>1. Dim \in Nat /\ DOMAIN a = 1 .. Dim
    BY DimAssumption DEF Vector
  <1>2. Dot(a, b) = FoldFunction(+, 0, Products(a, b))
    BY <1>1 DEF Dot, Products
  <1>3. Products(a, b) = [i \in 1 .. Dim |-> Products(a, b)[i]]
    BY DEF Products
  <1> QED
    BY <1>1, <1>2, <1>3, FoldIsSum

LEMMA ProductsType ==
  ASSUME NEW a \in Vector, NEW b \in Vector
  PROVE  \A i \in 1 .. Dim : /\ a[i] \in Int /\ b[i] \in Int
                             /\ Products(a, b)[i] = a[i] * b[i] /\ Products(a, b)[i] \in Int
  BY DEF Vector, Products

LEMMA DotType ==
  ASSUME NEW a \in Vector, NEW b \in Vector
  PROVE  Dot(a, b) \in Int
  <1>1. Dim \in Nat
    BY DimAssumption
  <1> QED
    BY <1>1, DotIsSum, ProductsType, SumToStep

LEMMA DotSquare ==
  ASSUME NEW a \in Vector
  PROVE  Dot(a, a) \in Nat
  <1>1. Dim \in Nat
    BY DimAssumption
  <1>2. \A x \in Int : x * x \in Nat
    OBVIOUS
  <1>3. \A i \in 1 .. Dim : Products(a, a)[i] \in Nat
    BY <1>2, ProductsType
  <1> QED
    BY <1>1, <1>3, DotIsSum, SumToNatural

LEMMA DotSymmetric ==
  ASSUME NEW a \in Vector, NEW b \in Vector
  PROVE  Dot(a, b) = Dot(b, a)
  <1>1. \A i \in 1 .. Dim : a[i] * b[i] = b[i] * a[i]
    BY ProductsType
  <1>2. Products(a, b) = Products(b, a)
    BY <1>1 DEF Products
  <1> QED
    BY <1>2, DotIsSum

LEMMA DotAdds ==
  ASSUME NEW a \in Vector, NEW b \in Vector, NEW c \in Vector, NEW d \in Vector,
         \A i \in 1 .. Dim : d[i] = b[i] + c[i]
  PROVE  Dot(a, d) = Dot(a, b) + Dot(a, c)
  <1>1. Dim \in Nat
    BY DimAssumption
  <1>2. \A x, y, z \in Int : x * (y + z) = x * y + x * z
    OBVIOUS
  <1>3. \A i \in 1 .. Dim : /\ Products(a, b)[i] \in Int /\ Products(a, c)[i] \in Int
                            /\ Products(a, d)[i] = Products(a, b)[i] + Products(a, c)[i]
    BY <1>2, ProductsType
  <1> QED
    BY <1>1, <1>3, DotIsSum, SumToAdds

LEMMA CosineFraction ==
  ASSUME NEW a \in Vector, NEW b \in Vector
  PROVE  /\ cosine_similarity(a, b) \in Fraction
         /\ cosine_similarity(a, b) = cosine_similarity(b, a)
  <1> DEFINE dot == Dot(a, b) n == Dot(a, a) m == Dot(b, b)
  <1>1. dot \in Int /\ n \in Nat /\ m \in Nat /\ dot = Dot(b, a)
    BY DotType, DotSquare, DotSymmetric
  <1>2. cosine_similarity(a, b) =
          IF n * m = 0 THEN Zero
          ELSE [num |-> IF dot < 0 THEN -(dot * dot) ELSE dot * dot, den |-> n * m]
    BY DEF cosine_similarity
  <1>3. cosine_similarity(b, a) =
          IF m * n = 0 THEN Zero
          ELSE [num |-> IF dot < 0 THEN -(dot * dot) ELSE dot * dot, den |-> m * n]
    BY <1>1 DEF cosine_similarity
  <1> HIDE DEF dot, n, m
  <1>4. n * m = m * n /\ n * m \in Nat /\ dot * dot \in Int /\ -(dot * dot) \in Int
    BY <1>1
  <1>5. cosine_similarity(a, b) = cosine_similarity(b, a)
    BY <1>2, <1>3, <1>4
  <1>6. cosine_similarity(a, b) \in Fraction
    BY <1>2, <1>4, ZeroFraction DEF Fraction
  <1> QED
    BY <1>5, <1>6

-----------------------------------------------------------------------------
(***************************************************************************)
(* The chain's sum: the similarity to it is the coherence of chain.rs:16.  *)
(***************************************************************************)

\* A sequence of nodes whose embeddings have the store's dimension.
Fitting(seq) ==
  /\ Len(seq) \in Nat /\ DOMAIN seq = 1 .. Len(seq)
  /\ \A i \in 1 .. Len(seq) : seq[i].embedding \in Vector

\* The sum of the first n.
SumUpTo(chain, n) == [k \in 1 .. Dim |-> SumTo([i \in DOMAIN chain |-> chain[i].embedding[k]], n)]

LEMMA SumUpToType ==
  ASSUME NEW chain, Fitting(chain), NEW n \in 0 .. Len(chain)
  PROVE  /\ SumUpTo(chain, n) \in Vector
         /\ \A k \in 1 .. Dim :
              /\ SumUpTo(chain, 0)[k] = 0
              /\ n > 0 => SumUpTo(chain, n)[k] = SumUpTo(chain, n - 1)[k] + chain[n].embedding[k]
  <1>1. ASSUME NEW k \in 1 .. Dim
        PROVE  /\ SumUpTo(chain, n)[k] \in Int
               /\ SumUpTo(chain, 0)[k] = 0
               /\ n > 0 => SumUpTo(chain, n)[k] = SumUpTo(chain, n - 1)[k] + chain[n].embedding[k]
    <2> DEFINE f == [i \in DOMAIN chain |-> chain[i].embedding[k]]
    <2>0. \A i \in 1 .. n : i \in DOMAIN chain /\ chain[i].embedding \in Vector
      BY DEF Fitting
    <2>1. \A i \in 1 .. n : f[i] \in Int /\ f[i] = chain[i].embedding[k]
      BY <2>0 DEF Vector
    <2>2. \A m : SumUpTo(chain, m)[k] = SumTo(f, m)
      BY DEF SumUpTo
    <2> HIDE DEF f
    <2>3. n \in Nat
      BY DEF Fitting
    <2>4. /\ SumTo(f, 0) = 0 /\ SumTo(f, n) \in Int
          /\ n > 0 => SumTo(f, n) = SumTo(f, n - 1) + f[n]
      BY <2>1, <2>3, SumToStep
    <2>5. n > 0 => f[n] = chain[n].embedding[k]
      BY <2>1, <2>3
    <2> QED
      BY <2>2, <2>4, <2>5
  <1> QED
    BY <1>1 DEF Vector, SumUpTo

LEMMA SumIsSumUpTo ==
  ASSUME NEW chain, Fitting(chain)
  PROVE  Sum(chain) = SumUpTo(chain, Len(chain))
  <1>1. ASSUME NEW k \in 1 .. Dim
        PROVE  FoldFunction(+, 0, [i \in DOMAIN chain |-> chain[i].embedding[k]])
                 = SumTo([i \in DOMAIN chain |-> chain[i].embedding[k]], Len(chain))
    BY FoldIsSum DEF Fitting
  <1> QED
    BY <1>1 DEF Sum, SumUpTo

LEMMA SumVector ==
  ASSUME NEW chain, Fitting(chain)
  PROVE  Sum(chain) \in Vector
  BY SumIsSumUpTo, SumUpToType DEF Fitting

Towards(v, chain) == [i \in DOMAIN chain |-> Dot(v, chain[i].embedding)]

LEMMA TowardsType ==
  ASSUME NEW chain, Fitting(chain), NEW v \in Vector
  PROVE  \A i \in 1 .. Len(chain) :
           Towards(v, chain)[i] = Dot(v, chain[i].embedding) /\ Towards(v, chain)[i] \in Int
  BY DotType DEF Towards, Fitting

LEMMA DotOfSumUpTo ==
  ASSUME NEW chain, Fitting(chain), NEW v \in Vector
  PROVE  \A n \in Nat : n <= Len(chain) => Dot(v, SumUpTo(chain, n)) = SumTo(Towards(v, chain), n)
  <1> DEFINE T == {n \in Nat : n <= Len(chain) => Dot(v, SumUpTo(chain, n)) = SumTo(Towards(v, chain), n)}
  <1>1. Len(chain) \in Nat /\ Dim \in Nat
    BY DimAssumption DEF Fitting
  <1>2. 0 \in T
    <2>1. SumUpTo(chain, 0) \in Vector /\ \A k \in 1 .. Dim : SumUpTo(chain, 0)[k] = 0
      BY <1>1, SumUpToType
    <2>2. \A i \in 1 .. Dim : Products(v, SumUpTo(chain, 0))[i] = 0
      BY <2>1, ProductsType
    <2>3. Dot(v, SumUpTo(chain, 0)) = 0
      BY <1>1, <2>2, DotIsSum, SumToZero
    <2>4. SumTo(Towards(v, chain), 0) = 0
      BY SumToStep
    <2> QED
      BY <2>3, <2>4
  <1>3. \A n \in Nat : n \in T => n + 1 \in T
    <2> SUFFICES ASSUME NEW n \in Nat, n + 1 <= Len(chain),
                        Dot(v, SumUpTo(chain, n)) = SumTo(Towards(v, chain), n)
                 PROVE  Dot(v, SumUpTo(chain, n + 1)) = SumTo(Towards(v, chain), n + 1)
      BY <1>1
    <2>1. n \in 0 .. Len(chain) /\ n + 1 \in 1 .. Len(chain) /\ n + 1 > 0 /\ (n + 1) - 1 = n
          /\ n + 1 \in 0 .. Len(chain) /\ n + 1 \in Nat
      BY <1>1
    <2>2. SumUpTo(chain, n) \in Vector /\ SumUpTo(chain, n + 1) \in Vector
          /\ chain[n + 1].embedding \in Vector
      BY <2>1, SumUpToType DEF Fitting
    <2>3. \A k \in 1 .. Dim : SumUpTo(chain, n + 1)[k] = SumUpTo(chain, n)[k] + chain[n + 1].embedding[k]
      BY <2>1, SumUpToType
    <2>4. Dot(v, SumUpTo(chain, n + 1)) = Dot(v, SumUpTo(chain, n)) + Dot(v, chain[n + 1].embedding)
      <3>1. PICK b \in Vector, c \in Vector, d \in Vector :
              b = SumUpTo(chain, n) /\ c = chain[n + 1].embedding /\ d = SumUpTo(chain, n + 1)
        BY <2>2
      <3>2. \A k \in 1 .. Dim : d[k] = b[k] + c[k]
        BY <2>3, <3>1
      <3>3. Dot(v, d) = Dot(v, b) + Dot(v, c)
        BY <3>2, DotAdds
      <3> QED
        BY <3>1, <3>3
    <2>5. \A i \in 1 .. n + 1 : Towards(v, chain)[i] \in Int
      BY <1>1, TowardsType
    <2>6. SumTo(Towards(v, chain), n + 1) = SumTo(Towards(v, chain), n) + Towards(v, chain)[n + 1]
      BY <2>1, <2>5, SumToStep
    <2>7. Towards(v, chain)[n + 1] = Dot(v, chain[n + 1].embedding)
      BY <2>1, TowardsType
    <2> QED
      BY <2>4, <2>6, <2>7
  <1> HIDE DEF T
  <1>4. \A n \in Nat : n \in T
    BY <1>2, <1>3, Induction
  <1> QED
    BY <1>4 DEF T

LEMMA DotOfSum ==
  ASSUME NEW chain, Fitting(chain), NEW v \in Vector
  PROVE  FoldFunction(+, 0, Towards(v, chain)) = Dot(v, Sum(chain))
  <1>1. Len(chain) \in Nat /\ DOMAIN chain = 1 .. Len(chain)
    BY DEF Fitting
  <1>2. Dot(v, Sum(chain)) = SumTo(Towards(v, chain), Len(chain))
    BY <1>1, SumIsSumUpTo, DotOfSumUpTo
  <1>3. Towards(v, chain) = [i \in 1 .. Len(chain) |-> Towards(v, chain)[i]]
    BY <1>1 DEF Towards
  <1> QED
    BY <1>1, <1>2, <1>3, FoldIsSum

\* The score the code computes over the sum it keeps of the chain's embeddings
\* (chain.rs:163-169, 226-231) is that of chain.rs:16 as Score states it, from the
\* products of the embeddings two by two.
THEOREM GateIsScore ==
  ASSUME NEW node, node.embedding \in Vector, query \in Vector, NEW chain, Fitting(chain)
  PROVE  Gate(node, chain) = Score(node, chain)
  <1> DEFINE v == node.embedding
             relevance == cosine_similarity(v, query)
             sum == Sum(chain)
  <1>1. CASE chain = <<>>
    BY <1>1 DEF Gate, Score, Centroid
  <1>2. CASE chain # <<>>
    <2>1. Len(chain) \in Nat /\ DOMAIN chain = 1 .. Len(chain) /\ sum \in Vector
          /\ \A i \in 1 .. Len(chain) : chain[i].embedding \in Vector
      BY SumVector DEF Fitting
    <2>2. FoldFunction(+, 0, [i \in DOMAIN chain |-> Dot(v, chain[i].embedding)]) = Dot(v, sum)
      BY DotOfSum DEF Towards
    <2>3. \A i \in DOMAIN chain :
            FoldFunction(+, 0, [j \in DOMAIN chain |-> Dot(chain[i].embedding, chain[j].embedding)])
              = Dot(sum, chain[i].embedding)
      BY <2>1, DotOfSum, DotSymmetric DEF Towards
    <2>4. [i \in DOMAIN chain |->
             FoldFunction(+, 0, [j \in DOMAIN chain |-> Dot(chain[i].embedding, chain[j].embedding)])]
            = Towards(sum, chain)
      BY <2>3 DEF Towards
    <2>5. FoldFunction(+, 0, [i \in DOMAIN chain |->
             FoldFunction(+, 0, [j \in DOMAIN chain |-> Dot(chain[i].embedding, chain[j].embedding)])])
            = Dot(sum, sum)
      BY <2>1, <2>4, DotOfSum
    <2> DEFINE dot == Dot(v, sum) lengths == Dot(v, v) * Dot(sum, sum)
    <2>6. Score(node, chain) =
            Times(relevance, IF lengths = 0 THEN Zero
                             ELSE [num |-> dot * (IF dot < 0 THEN -dot ELSE dot), den |-> lengths])
      BY <1>2, <2>2, <2>5 DEF Score, Total
    <2>7. Gate(node, chain) =
            Times(relevance, IF lengths = 0 THEN Zero
                             ELSE [num |-> IF dot < 0 THEN -(dot * dot) ELSE dot * dot, den |-> lengths])
      BY <1>2 DEF Gate, Centroid, cosine_similarity
    <2>8. dot \in Int
      BY <2>1, DotType
    <2> HIDE DEF dot, lengths, relevance
    <2>9. dot * (IF dot < 0 THEN -dot ELSE dot) = IF dot < 0 THEN -(dot * dot) ELSE dot * dot
      BY <2>8
    <2> QED
      BY <2>6, <2>7, <2>9
  <1> QED
    BY <1>1, <1>2

LEMMA CentroidVector ==
  ASSUME query \in Vector, NEW chain, Fitting(chain)
  PROVE  Centroid(chain) \in Vector
  BY SumVector DEF Centroid

LEMMA GateFraction ==
  ASSUME NEW node, node.embedding \in Vector, query \in Vector, NEW chain, Fitting(chain)
  PROVE  Gate(node, chain) \in Fraction
  BY CentroidVector, CosineFraction, TimesFraction DEF Gate

\* The first score squares the similarity to the query.
LEMMA FirstGate ==
  ASSUME NEW node, node.embedding \in Vector, query \in Vector
  PROVE  /\ Gate(node, <<>>) = Times(cosine_similarity(node.embedding, query),
                                     cosine_similarity(node.embedding, query))
         /\ Gate(node, <<>>) \in Fraction
         /\ Gate(node, <<>>).num >= 0
  <1>1. \A x \in Fraction : Times(x, x) \in Fraction /\ Times(x, x).num >= 0
    <2>1. \A a \in Int : a * a >= 0
      OBVIOUS
    <2> QED
      BY <2>1, TimesFraction DEF Times, Fraction
  <1> QED
    BY <1>1, CosineFraction DEF Gate, Centroid

-----------------------------------------------------------------------------
(***************************************************************************)
(* The best candidate, and a set in order.                                 *)
(***************************************************************************)

LEMMA Greatest ==
  ASSUME NEW n \in Nat, n > 0, NEW g, \A i \in 1 .. n : g[i] \in Fraction
  PROVE  \E i \in 1 .. n : \A j \in 1 .. n : ~Below(g[i], g[j])
  <1> DEFINE T == {m \in Nat : m + 1 <= n => \E i \in 1 .. m + 1 : \A j \in 1 .. m + 1 : ~Below(g[i], g[j])}
  <1>1. 0 \in T
    <2>1. \A i \in 1 .. 1 : i = 1
      OBVIOUS
    <2>2. ~Below(g[1], g[1])
      BY BelowOneWay
    <2> QED
      BY <2>1, <2>2
  <1>2. \A m \in Nat : m \in T => m + 1 \in T
    <2> SUFFICES ASSUME NEW m \in Nat, m \in T, (m + 1) + 1 <= n
                 PROVE  \E i \in 1 .. (m + 1) + 1 : \A j \in 1 .. (m + 1) + 1 : ~Below(g[i], g[j])
      OBVIOUS
    <2> DEFINE k == (m + 1) + 1
    <2>1. PICK i \in 1 .. m + 1 : \A j \in 1 .. m + 1 : ~Below(g[i], g[j])
      OBVIOUS
    <2>2. i \in 1 .. k /\ k \in 1 .. k /\ k \in 1 .. n /\ i \in 1 .. n
          /\ \A j \in 1 .. k : j \in 1 .. n /\ (j = k \/ j \in 1 .. m + 1)
      OBVIOUS
    <2> HIDE DEF k
    <2>3. CASE Below(g[i], g[k])
      <3>1. \A j \in 1 .. k : ~Below(g[k], g[j])
        BY <2>1, <2>2, <2>3, BelowOneWay, NotBelowTransitive
      <3> QED
        BY <2>2, <3>1 DEF k
    <2>4. CASE ~Below(g[i], g[k])
      <3>1. \A j \in 1 .. k : ~Below(g[i], g[j])
        BY <2>1, <2>2, <2>4
      <3> QED
        BY <2>2, <3>1 DEF k
    <2> QED
      BY <2>3, <2>4
  <1> HIDE DEF T
  <1>3. \A m \in Nat : m \in T
    BY <1>1, <1>2, Induction
  <1>4. n - 1 \in Nat /\ (n - 1) + 1 = n
    OBVIOUS
  <1>5. n - 1 \in T
    BY <1>3, <1>4
  <1> QED
    BY <1>4, <1>5 DEF T

\* i is the first of the greatest of g[1 .. n].
First(g, n, i) ==
  /\ i \in 1 .. n
  /\ \A j \in 1 .. n : ~Below(g[i], g[j]) /\ (j < i => Below(g[j], g[i]))

LEMMA FirstExists ==
  ASSUME NEW n \in Nat, n > 0, NEW g, \A i \in 1 .. n : g[i] \in Fraction
  PROVE  \E i \in 1 .. n : First(g, n, i)
  <1> DEFINE M == {i \in 1 .. n : \A j \in 1 .. n : ~Below(g[i], g[j])}
  <1>1. M # {} /\ M \subseteq Nat
    BY Greatest
  <1>2. PICK i \in M : \A m \in M : i <= m
    BY <1>1, LeastMember
  <1>3. ASSUME NEW j \in 1 .. n, j < i PROVE Below(g[j], g[i])
    <2>1. j \notin M
      BY <1>2, <1>3
    <2>2. PICK k \in 1 .. n : Below(g[j], g[k])
      BY <2>1
    <2>3. ~Below(g[i], g[k])
      BY <1>2
    <2>4. g[i] \in Fraction /\ g[j] \in Fraction /\ g[k] \in Fraction
      BY <1>2
    <2> QED
      BY <2>2, <2>3, <2>4, BelowTransitive
  <1> QED
    BY <1>2, <1>3 DEF First

LEMMA BestIsFirst ==
  ASSUME query \in Vector, NEW pool, Fitting(pool), pool # <<>>, Len(pool) > 0, NEW chain, Fitting(chain)
  PROVE  /\ Best(pool, chain) \in 1 .. Len(pool)
         /\ \A j \in 1 .. Len(pool) :
              /\ Gate(pool[j], chain) \in Fraction
              /\ ~Below(Gate(pool[Best(pool, chain)], chain), Gate(pool[j], chain))
              /\ j < Best(pool, chain) => Below(Gate(pool[j], chain), Gate(pool[Best(pool, chain)], chain))
  <1> DEFINE n == Len(pool)
             g == [i \in 1 .. n |-> Gate(pool[i], chain)]
  <1>1. n \in Nat /\ n > 0 /\ DOMAIN pool = 1 .. n
    BY DEF Fitting
  <1>2. \A i \in 1 .. n : Gate(pool[i], chain) \in Fraction
    BY GateFraction DEF Fitting
  <1>3. PICK i \in 1 .. n : First(g, n, i)
    BY <1>1, <1>2, FirstExists
  <1>4. \A j \in 1 .. n : /\ ~Below(Gate(pool[i], chain), Gate(pool[j], chain))
                          /\ j < i => Below(Gate(pool[j], chain), Gate(pool[i], chain))
    BY <1>3 DEF First
  <1> HIDE DEF g, n
  <1>5. \E b \in DOMAIN pool : \A j \in DOMAIN pool :
          /\ ~Below(Gate(pool[b], chain), Gate(pool[j], chain))
          /\ j < b => Below(Gate(pool[j], chain), Gate(pool[b], chain))
    BY <1>1, <1>4
  <1>6. /\ Best(pool, chain) \in DOMAIN pool
        /\ \A j \in DOMAIN pool :
             /\ ~Below(Gate(pool[Best(pool, chain)], chain), Gate(pool[j], chain))
             /\ j < Best(pool, chain) => Below(Gate(pool[j], chain), Gate(pool[Best(pool, chain)], chain))
    BY <1>5, Zenon DEF Best
  <1> QED
    BY <1>1, <1>2, <1>6 DEF n

\* An order in which one of any two members comes first.
Orders(R, set) ==
  /\ \A i \in set : <<i, i>> \notin R
  /\ \A i, j \in set : i # j => <<i, j>> \in R \/ <<j, i>> \in R
  /\ \A i, j, k \in set : <<i, j>> \in R /\ <<j, k>> \in R => <<i, k>> \in R

\* f lists the members of the set, what comes first by R first.
InOrder(f, set, R) ==
  /\ Cardinality(set) \in Nat
  /\ f \in [1 .. Cardinality(set) -> set]
  /\ \A i \in set : \E k \in 1 .. Cardinality(set) : f[k] = i
  /\ \A k, l \in 1 .. Cardinality(set) : k < l => <<f[k], f[l]>> \in R

LEMMA ArrangedInOrder ==
  ASSUME NEW set, IsFiniteSet(set), NEW R, Orders(R, set)
  PROVE  InOrder(Arranged(set, R), set, R)
  <1> DEFINE n == Cardinality(set)
             down(i) == {j \in set : <<j, i>> \in R}
             rank == [i \in set |-> Cardinality(down(i)) + 1]
  <1>1. n \in Nat
    BY FS_CardinalityType
  <1>2. \A i \in set : IsFiniteSet(down(i)) /\ Cardinality(down(i)) \in Nat /\ rank[i] \in 1 .. n
    <2> SUFFICES ASSUME NEW i \in set
                 PROVE  IsFiniteSet(down(i)) /\ Cardinality(down(i)) \in Nat /\ Cardinality(down(i)) + 1 \in 1 .. n
      OBVIOUS
    <2>1. down(i) \in SUBSET set /\ down(i) # set
      BY DEF Orders
    <2>2. IsFiniteSet(down(i)) /\ Cardinality(down(i)) <= n /\ Cardinality(down(i)) # n
      BY <2>1, FS_Subset
    <2> HIDE DEF down
    <2>3. Cardinality(down(i)) \in Nat
      BY <2>2, FS_CardinalityType
    <2> QED
      BY <1>1, <2>2, <2>3
  <1>3. \A i, j \in set : <<i, j>> \in R => Cardinality(down(i)) < Cardinality(down(j))
    <2> SUFFICES ASSUME NEW i \in set, NEW j \in set, <<i, j>> \in R
                 PROVE  Cardinality(down(i)) < Cardinality(down(j))
      OBVIOUS
    <2>1. down(i) \in SUBSET down(j) /\ i \in down(j) /\ i \notin down(i)
      BY DEF Orders
    <2> HIDE DEF down
    <2>2. Cardinality(down(i)) <= Cardinality(down(j)) /\ Cardinality(down(i)) # Cardinality(down(j))
      BY <1>2, <2>1, FS_Subset
    <2> QED
      BY <1>2, <2>2
  <1>4. \A i \in set : rank[i] = Cardinality(down(i)) + 1 /\ Cardinality(down(i)) = rank[i] - 1
    BY <1>2
  <1>5. rank \in [set -> 1 .. n]
    BY <1>2
  <1>6. \A k : Arranged(set, R) = [l \in 1 .. n |-> CHOOSE i \in set : Cardinality(down(i)) = l - 1]
    BY DEF Arranged
  <1> HIDE DEF rank, down
  <1>7. \A i, j \in set : <<i, j>> \in R => rank[i] < rank[j]
    BY <1>2, <1>3, <1>4
  <1>8. \A i, j \in set : rank[i] = rank[j] => i = j
    <2> SUFFICES ASSUME NEW i \in set, NEW j \in set, rank[i] = rank[j], i # j PROVE FALSE
      OBVIOUS
    <2>1. rank[i] < rank[j] \/ rank[j] < rank[i]
      BY <1>7 DEF Orders
    <2>2. rank[i] \in Int /\ rank[j] \in Int
      BY <1>2
    <2> QED
      BY <2>1, <2>2
  <1>9. rank \in Injection(set, 1 .. n)
    BY <1>5, <1>8 DEF Injection, IsInjective
  <1>10. IsFiniteSet(1 .. n) /\ Cardinality(1 .. n) = n
    BY <1>1, FS_Interval
  <1>11. rank \in Surjection(set, 1 .. n)
    BY <1>9, <1>10, FS_Injection
  <1>12. \A k \in 1 .. n : Arranged(set, R)[k] \in set /\ rank[Arranged(set, R)[k]] = k
    <2> SUFFICES ASSUME NEW k \in 1 .. n
                 PROVE  Arranged(set, R)[k] \in set /\ rank[Arranged(set, R)[k]] = k
      OBVIOUS
    <2>1. PICK i \in set : rank[i] = k
      BY <1>11 DEF Surjection
    <2>2. Cardinality(down(i)) = k - 1
      BY <1>4, <2>1
    <2>3. Arranged(set, R)[k] = CHOOSE j \in set : Cardinality(down(j)) = k - 1
      BY <1>6
    <2>4. Arranged(set, R)[k] \in set /\ Cardinality(down(Arranged(set, R)[k])) = k - 1
      BY <2>2, <2>3, Zenon
    <2> QED
      BY <1>4, <1>1, <2>4
  <1>13. Arranged(set, R) \in [1 .. n -> set]
    BY <1>6, <1>12
  <1>14. \A i \in set : \E k \in 1 .. n : Arranged(set, R)[k] = i
    BY <1>5, <1>8, <1>12
  <1>15. ASSUME NEW k \in 1 .. n, NEW l \in 1 .. n, k < l
         PROVE  <<Arranged(set, R)[k], Arranged(set, R)[l]>> \in R
    <2> DEFINE a == Arranged(set, R)[k] b == Arranged(set, R)[l]
    <2>1. a \in set /\ b \in set /\ rank[a] = k /\ rank[b] = l
      BY <1>12
    <2> HIDE DEF a, b
    <2>2. a # b /\ ~(rank[b] < rank[a])
      BY <2>1, <1>15
    <2>3. <<a, b>> \in R
      BY <1>7, <2>1, <2>2 DEF Orders
    <2> QED
      BY <2>3 DEF a, b
  <1> QED
    BY <1>1, <1>13, <1>14, <1>15 DEF n, InOrder

-----------------------------------------------------------------------------
(***************************************************************************)
(* What top_k() returns.                                                   *)
(***************************************************************************)

Kept(exclude_ids) == {i \in DOMAIN nodes : nodes[i].id \notin exclude_ids}

Similar(q, i) == cosine_similarity(q, nodes[i].embedding)

Sooner(q, i, j) ==
  \/ Below(Similar(q, j), Similar(q, i))
  \/ i < j /\ ~Below(Similar(q, i), Similar(q, j))

Order(q, exclude_ids) ==
  {p \in Kept(exclude_ids) \X Kept(exclude_ids) : Sooner(q, p[1], p[2])}

Place(q, exclude_ids) == Arranged(Kept(exclude_ids), Order(q, exclude_ids))

LEMMA TopKIs ==
  ASSUME NEW q, NEW k, NEW exclude_ids
  PROVE  top_k(q, k, exclude_ids) =
           [i \in 1 .. Min({k, Cardinality(Kept(exclude_ids))}) |-> nodes[Place(q, exclude_ids)[i]]]
  BY DEF top_k, Kept, Similar, Sooner, Order, Place

LEMMA MinOfTwo ==
  ASSUME NEW a \in Nat, NEW b \in Nat
  PROVE  Min({a, b}) \in Nat /\ Min({a, b}) = IF a <= b THEN a ELSE b
  <1>1. \E x \in {a, b} : \A y \in {a, b} : x <= y
    OBVIOUS
  <1>2. Min({a, b}) \in {a, b} /\ \A y \in {a, b} : Min({a, b}) <= y
    BY <1>1, Zenon DEF Min
  <1> QED
    BY <1>2

LEMMA SoonerOrders ==
  ASSUME Fitting(nodes), NEW q \in Vector, NEW exclude_ids
  PROVE  Orders(Order(q, exclude_ids), Kept(exclude_ids))
  <1> DEFINE K == Kept(exclude_ids) R == Order(q, exclude_ids)
  <1>1. \A i \in K : i \in Nat /\ Similar(q, i) \in Fraction
    BY CosineFraction DEF Kept, Fitting, Similar
  <1>2. \A i, j \in K : <<i, j>> \in R <=> Sooner(q, i, j)
    BY DEF Order
  <1> HIDE DEF K, R
  <1>3. \A i \in K : <<i, i>> \notin R
    BY <1>1, <1>2, BelowOneWay DEF Sooner
  <1>4. \A i, j \in K : i # j => <<i, j>> \in R \/ <<j, i>> \in R
    BY <1>1, <1>2, BelowOneWay DEF Sooner
  <1>5. ASSUME NEW i \in K, NEW j \in K, NEW k \in K, <<i, j>> \in R, <<j, k>> \in R
        PROVE  <<i, k>> \in R
    <2> DEFINE a == Similar(q, i) b == Similar(q, j) c == Similar(q, k)
    <2>1. a \in Fraction /\ b \in Fraction /\ c \in Fraction /\ i \in Nat /\ j \in Nat /\ k \in Nat
      BY <1>1
    <2>2. /\ Below(b, a) \/ (i < j /\ ~Below(a, b))
          /\ Below(c, b) \/ (j < k /\ ~Below(b, c))
      BY <1>2, <1>5 DEF Sooner
    <2>3. <<i, k>> \in R <=> Below(c, a) \/ (i < k /\ ~Below(a, c))
      BY <1>2 DEF Sooner
    <2> HIDE DEF a, b, c
    <2>4. Below(b, a) => Below(c, a)
      BY <2>1, <2>2, BelowOneWay, BelowTransitive
    <2>5. Below(c, b) /\ ~Below(a, b) => Below(c, a)
      BY <2>1, BelowTransitive
    <2>6. ~Below(a, b) /\ ~Below(b, c) => ~Below(a, c)
      BY <2>1, NotBelowTransitive
    <2>7. i < j /\ j < k => i < k
      BY <2>1
    <2> QED
      BY <2>2, <2>3, <2>4, <2>5, <2>6, <2>7
  <1> QED
    BY <1>3, <1>4, <1>5 DEF Orders, K, R

LEMMA Ranked ==
  ASSUME Fitting(nodes), NEW q \in Vector, NEW exclude_ids
  PROVE  /\ IsFiniteSet(Kept(exclude_ids)) /\ Cardinality(Kept(exclude_ids)) \in Nat
         /\ Kept(exclude_ids) \subseteq 1 .. Len(nodes)
         /\ Place(q, exclude_ids) \in [1 .. Cardinality(Kept(exclude_ids)) -> Kept(exclude_ids)]
         /\ \A i \in Kept(exclude_ids) : \E k \in 1 .. Cardinality(Kept(exclude_ids)) : Place(q, exclude_ids)[k] = i
         /\ \A k, l \in 1 .. Cardinality(Kept(exclude_ids)) :
              k < l => Sooner(q, Place(q, exclude_ids)[k], Place(q, exclude_ids)[l])
  <1>1. Kept(exclude_ids) \subseteq 1 .. Len(nodes) /\ Len(nodes) \in Nat
    BY DEF Kept, Fitting
  <1>2. IsFiniteSet(Kept(exclude_ids))
    <2>1. IsFiniteSet(1 .. Len(nodes)) /\ Kept(exclude_ids) \in SUBSET (1 .. Len(nodes))
      BY <1>1, FS_Interval
    <2> QED
      BY <2>1, FS_Subset
  <1>3. /\ Cardinality(Kept(exclude_ids)) \in Nat
        /\ Place(q, exclude_ids) \in [1 .. Cardinality(Kept(exclude_ids)) -> Kept(exclude_ids)]
        /\ \A i \in Kept(exclude_ids) : \E k \in 1 .. Cardinality(Kept(exclude_ids)) : Place(q, exclude_ids)[k] = i
        /\ \A k, l \in 1 .. Cardinality(Kept(exclude_ids)) :
             k < l => <<Place(q, exclude_ids)[k], Place(q, exclude_ids)[l]>> \in Order(q, exclude_ids)
    <2>1. Orders(Order(q, exclude_ids), Kept(exclude_ids))
      BY SoonerOrders
    <2>2. InOrder(Place(q, exclude_ids), Kept(exclude_ids), Order(q, exclude_ids))
      BY <1>2, <2>1, ArrangedInOrder DEF Place
    <2> QED
      BY <2>2 DEF InOrder
  <1>4. \A i, j : <<i, j>> \in Order(q, exclude_ids) => Sooner(q, i, j)
    BY DEF Order
  <1> QED
    BY <1>1, <1>2, <1>3, <1>4

TakesFirst(t, q, exclude_ids) ==
  /\ Len(t) \in Nat /\ DOMAIN t = 1 .. Len(t)
  /\ Len(t) <= Cardinality(Kept(exclude_ids))
  /\ \A i \in 1 .. Len(t) :
       /\ i \in 1 .. Cardinality(Kept(exclude_ids))
       /\ Place(q, exclude_ids)[i] \in Kept(exclude_ids)
       /\ Place(q, exclude_ids)[i] \in 1 .. Len(nodes)
       /\ t[i] = nodes[Place(q, exclude_ids)[i]]

LEMMA TopKPlaces ==
  ASSUME Fitting(nodes), NEW q \in Vector, NEW k \in Nat, NEW exclude_ids
  PROVE  /\ Len(top_k(q, k, exclude_ids)) = Min({k, Cardinality(Kept(exclude_ids))})
         /\ TakesFirst(top_k(q, k, exclude_ids), q, exclude_ids)
  <1> DEFINE c == Cardinality(Kept(exclude_ids)) m == Min({k, c}) t == top_k(q, k, exclude_ids)
  <1>1. c \in Nat /\ Place(q, exclude_ids) \in [1 .. c -> Kept(exclude_ids)] /\ Kept(exclude_ids) \subseteq 1 .. Len(nodes)
    BY Ranked
  <1>2. m \in Nat /\ m <= c
    BY <1>1, MinOfTwo
  <1>3. t = [i \in 1 .. m |-> nodes[Place(q, exclude_ids)[i]]]
    BY TopKIs
  <1> HIDE DEF c, m, t
  <1>4. Len(t) = m /\ DOMAIN t = 1 .. m
    BY <1>2, <1>3
  <1>5. \A i \in 1 .. m : /\ i \in 1 .. c /\ Place(q, exclude_ids)[i] \in Kept(exclude_ids)
                          /\ Place(q, exclude_ids)[i] \in 1 .. Len(nodes) /\ t[i] = nodes[Place(q, exclude_ids)[i]]
    BY <1>1, <1>2, <1>3
  <1> QED
    BY <1>2, <1>4, <1>5 DEF c, m, t, TakesFirst

LEMMA TopKType ==
  ASSUME Fitting(nodes), NEW q \in Vector, NEW k \in Nat, NEW exclude_ids, NEW S, nodes \in Seq(S)
  PROVE  top_k(q, k, exclude_ids) \in Seq(S)
  <1> DEFINE t == top_k(q, k, exclude_ids)
  <1>1. /\ Len(t) \in Nat /\ DOMAIN t = 1 .. Len(t)
        /\ \A i \in 1 .. Len(t) : t[i] = nodes[Place(q, exclude_ids)[i]]
                                  /\ Place(q, exclude_ids)[i] \in 1 .. Len(nodes)
    <2>1. TakesFirst(t, q, exclude_ids)
      BY TopKPlaces
    <2> QED
      BY <2>1 DEF TakesFirst
  <1>2. \E f : t = [i \in 1 .. Len(t) |-> f[i]]
    BY <1>1, TopKIs
  <1>3. \A i \in 1 .. Len(t) : t[i] \in S
    BY <1>1, ElementOfSeq
  <1>4. t \in [1 .. Len(t) -> S]
    BY <1>2, <1>3
  <1> HIDE DEF t
  <1>5. t \in Seq(S)
    BY <1>1, <1>4, SeqDef
  <1> QED
    BY <1>5 DEF t

-----------------------------------------------------------------------------
(***************************************************************************)
(* Sequences of stored nodes: prefixes, occurrences, swap_remove().        *)
(***************************************************************************)

StoredNode == {node \in Nodes : Fits(node)}

LEMMA VectorOfDim ==
  ASSUME NEW v \in Seq(Int), Len(v) = Dim
  PROVE  v \in Vector
  BY LenProperties DEF Vector

LEMMA SeqFits ==
  ASSUME NEW s \in Seq(StoredNode)
  PROVE  /\ Fitting(s)
         /\ s = <<>> <=> Len(s) = 0
         /\ \A i \in 1 .. Len(s) : s[i] \in StoredNode /\ s[i].embedding \in Vector
  <1>1. \A node \in StoredNode : node.embedding \in Vector
    BY VectorOfDim, DmceAssumption DEF StoredNode, Fits
  <1>2. Len(s) \in Nat /\ DOMAIN s = 1 .. Len(s) /\ \A i \in 1 .. Len(s) : s[i] \in StoredNode
    BY LenProperties, ElementOfSeq
  <1>3. s = <<>> <=> Len(s) = 0
    BY EmptySeq
  <1> QED
    BY <1>1, <1>2, <1>3 DEF Fitting

LEMMA FirstPart ==
  ASSUME NEW S, NEW s \in Seq(S), NEW x \in S
  PROVE  /\ SubSeq(s, 1, Len(s)) = s
         /\ \A n \in 0 .. Len(s) : /\ SubSeq(Append(s, x), 1, n) = SubSeq(s, 1, n)
                                   /\ SubSeq(s, 1, n) \in Seq(S) /\ Len(SubSeq(s, 1, n)) = n
                                   /\ \A i \in 1 .. n : SubSeq(s, 1, n)[i] = s[i]
         /\ Append(s, x) \in Seq(S) /\ Len(Append(s, x)) = Len(s) + 1 /\ Append(s, x) # <<>>
         /\ \A i \in 1 .. Len(s) : Append(s, x)[i] = s[i]
         /\ Append(s, x)[Len(s) + 1] = x
  <1> DEFINE a == Append(s, x)
  <1>1. Len(s) \in Nat /\ \A i \in 1 .. Len(s) : s[i] \in S
    BY LenProperties, ElementOfSeq
  <1>2. /\ a \in Seq(S) /\ Len(a) = Len(s) + 1
        /\ \A i \in 1 .. Len(s) : a[i] = s[i]
        /\ a[Len(s) + 1] = x
    BY AppendProperties
  <1>3. a # <<>>
    BY <1>1, <1>2, EmptySeq
  <1> HIDE DEF a
  <1>4. ASSUME NEW n \in 0 .. Len(s)
        PROVE  /\ SubSeq(s, 1, n) \in Seq(S) /\ Len(SubSeq(s, 1, n)) = n
               /\ \A i \in 1 .. n : SubSeq(s, 1, n)[i] = s[i]
               /\ SubSeq(a, 1, n) = SubSeq(s, 1, n)
    <2>1. n \in Int /\ 1 \in Int /\ n - 1 + 1 = n /\ (\A i \in 1 .. n : s[i] \in S /\ a[i] \in S /\ a[i] = s[i] /\ 1 + i - 1 = i)
          /\ (IF 1 <= n THEN n - 1 + 1 ELSE 0) = n
      BY <1>1, <1>2
    <2>2. /\ SubSeq(s, 1, n) \in Seq(S) /\ Len(SubSeq(s, 1, n)) = n
          /\ \A i \in 1 .. n : SubSeq(s, 1, n)[i] = s[i]
      BY <2>1, SubSeqProperties
    <2>3. /\ SubSeq(a, 1, n) \in Seq(S) /\ Len(SubSeq(a, 1, n)) = n
          /\ \A i \in 1 .. n : SubSeq(a, 1, n)[i] = a[i]
      BY <2>1, SubSeqProperties
    <2>4. SubSeq(a, 1, n) = SubSeq(s, 1, n)
      BY <2>1, <2>2, <2>3, SeqEqual
    <2> QED
      BY <2>2, <2>4
  <1>5. SubSeq(s, 1, Len(s)) = s
    <2>1. Len(s) \in 0 .. Len(s)
      BY <1>1
    <2>2. /\ SubSeq(s, 1, Len(s)) \in Seq(S) /\ Len(SubSeq(s, 1, Len(s))) = Len(s)
          /\ \A i \in 1 .. Len(s) : SubSeq(s, 1, Len(s))[i] = s[i]
      BY <1>4, <2>1
    <2> QED
      BY <2>2, SeqEqual
  <1> QED
    BY <1>2, <1>3, <1>4, <1>5 DEF a

LEMMA OccurrencesType ==
  ASSUME NEW S, NEW s \in Seq(S), NEW v
  PROVE  /\ Occurrences(s, v) \in Nat
         /\ IsFiniteSet({i \in 1 .. Len(s) : s[i] = v})
         /\ Occurrences(s, v) = Cardinality({i \in 1 .. Len(s) : s[i] = v})
         /\ Occurrences(s, v) > 0 => \E i \in 1 .. Len(s) : s[i] = v
  <1> DEFINE O == {i \in 1 .. Len(s) : s[i] = v}
  <1>1. Len(s) \in Nat /\ DOMAIN s = 1 .. Len(s)
    BY LenProperties
  <1>2. IsFiniteSet(1 .. Len(s)) /\ O \in SUBSET (1 .. Len(s))
    BY <1>1, FS_Interval
  <1>3. IsFiniteSet(O)
    BY <1>2, FS_Subset
  <1>4. Occurrences(s, v) = Cardinality(O)
    BY <1>1 DEF Occurrences
  <1>5. Cardinality(O) \in Nat /\ (Cardinality(O) > 0 => O # {})
    BY <1>3, FS_CardinalityType, FS_EmptySet
  <1> QED
    BY <1>3, <1>4, <1>5

LEMMA OccurrencesAppend ==
  ASSUME NEW S, NEW s \in Seq(S), NEW x \in S, NEW v
  PROVE  Occurrences(Append(s, x), v) = Occurrences(s, v) + (IF x = v THEN 1 ELSE 0)
  <1> DEFINE a == Append(s, x)
             n == Len(s)
             O == {i \in 1 .. n : s[i] = v}
             P == {i \in 1 .. n + 1 : a[i] = v}
  <1>1. n \in Nat /\ a \in Seq(S) /\ Len(a) = n + 1 /\ (\A i \in 1 .. n : a[i] = s[i]) /\ a[n + 1] = x
    BY LenProperties, AppendProperties
  <1>2. IsFiniteSet(O) /\ Occurrences(s, v) = Cardinality(O) /\ Occurrences(s, v) \in Nat
    BY OccurrencesType
  <1> HIDE DEF a
  <1>3. Occurrences(a, v) = Cardinality(P)
    BY <1>1, OccurrencesType
  <1>4. CASE x = v
    <2>1. P = O \cup {n + 1} /\ n + 1 \notin O
      BY <1>1, <1>4
    <2> HIDE DEF P, O, n
    <2>2. Cardinality(P) = Cardinality(O) + 1
      BY <1>2, <2>1, FS_AddElement
    <2> QED
      BY <1>2, <1>3, <1>4, <2>2 DEF a
  <1>5. CASE x # v
    <2>1. P = O
      BY <1>1, <1>5
    <2> HIDE DEF P, O, n
    <2>2. Occurrences(a, v) = Occurrences(s, v) /\ Occurrences(s, v) = Occurrences(s, v) + 0
      BY <1>2, <1>3, <2>1
    <2> QED
      BY <1>5, <2>2, Zenon DEF a
  <1> QED
    BY <1>4, <1>5

LEMMA SwapRemoveType ==
  ASSUME NEW S, NEW s \in Seq(S), NEW b \in 1 .. Len(s)
  PROVE  SwapRemove(s, b) \in Seq(S)
  <1>1. Len(s) \in Nat /\ Len(s) - 1 \in Nat /\ Last(s) = s[Len(s)] /\ Last(s) \in S
        /\ \A j \in 1 .. Len(s) - 1 : s[j] \in S
    BY LenProperties, ElementOfSeq DEF Last
  <1> QED
    BY <1>1 DEF SwapRemove

LEMMA OccurrencesSwapRemove ==
  ASSUME NEW S, NEW s \in Seq(S), NEW b \in 1 .. Len(s), NEW v
  PROVE  Occurrences(s, v) = Occurrences(SwapRemove(s, b), v) + (IF s[b] = v THEN 1 ELSE 0)
  <1> DEFINE r == SwapRemove(s, b)
             n == Len(s)
             O == {i \in 1 .. n : s[i] = v}
             P == {i \in 1 .. n - 1 : r[i] = v}
  <1>1. n \in Nat /\ n - 1 \in Nat /\ n >= 1 /\ b \in Nat /\ b <= n /\ b >= 1
    BY LenProperties
  <1>2. r \in Seq(S)
    BY SwapRemoveType
  <1>3. Len(r) = n - 1 /\ \A j \in 1 .. n - 1 : r[j] = IF j = b THEN s[n] ELSE s[j]
    BY <1>1 DEF SwapRemove, Last
  <1>4. IsFiniteSet(O) /\ Occurrences(s, v) = Cardinality(O) /\ Occurrences(s, v) \in Nat
    BY OccurrencesType
  <1> HIDE DEF r
  <1>5. IsFiniteSet(P) /\ Occurrences(r, v) = Cardinality(P) /\ Occurrences(r, v) \in Nat
    <2>1. P = {i \in 1 .. Len(r) : r[i] = v}
      BY <1>3
    <2> HIDE DEF P, n
    <2> QED
      BY <1>2, <2>1, OccurrencesType
  <1> HIDE DEF n
  <1>6. CASE s[b] = v /\ s[n] = v
    <2>1. O = P \cup {n} /\ n \notin P
      BY <1>1, <1>3, <1>6
    <2> HIDE DEF O, P
    <2>2. Cardinality(O) = Cardinality(P) + 1
      BY <1>5, <2>1, FS_AddElement
    <2> QED
      BY <1>4, <1>5, <1>6, <2>2 DEF r
  <1>7. CASE s[b] = v /\ s[n] # v
    <2>1. O = P \cup {b} /\ b \notin P
      BY <1>1, <1>3, <1>7
    <2> HIDE DEF O, P
    <2>2. Cardinality(O) = Cardinality(P) + 1
      BY <1>5, <2>1, FS_AddElement
    <2> QED
      BY <1>4, <1>5, <1>7, <2>2 DEF r
  <1>8. CASE s[b] # v /\ s[n] = v
    <2>1. O \cup {b} = P \cup {n} /\ n \notin P /\ b \notin O
      BY <1>1, <1>3, <1>8
    <2> HIDE DEF O, P
    <2>2. Cardinality(O \cup {b}) = Cardinality(O) + 1 /\ Cardinality(P \cup {n}) = Cardinality(P) + 1
      BY <1>4, <1>5, <2>1, FS_AddElement
    <2>4. Cardinality(O) + 1 = Cardinality(P) + 1
      BY <2>1, <2>2, Zenon
    <2>3. Occurrences(s, v) = Occurrences(r, v) /\ Occurrences(r, v) = Occurrences(r, v) + 0
      BY <1>4, <1>5, <2>4
    <2> QED
      BY <1>8, <2>3, Zenon DEF r
  <1>9. CASE s[b] # v /\ s[n] # v
    <2>1. O = P
      BY <1>1, <1>3, <1>9
    <2> HIDE DEF O, P
    <2>2. Occurrences(s, v) = Occurrences(r, v) /\ Occurrences(r, v) = Occurrences(r, v) + 0
      BY <1>4, <1>5, <2>1
    <2> QED
      BY <1>9, <2>2, Zenon DEF r
  <1> QED
    BY <1>6, <1>7, <1>8, <1>9

-----------------------------------------------------------------------------
(***************************************************************************)
(* A run of a loop and one of its steps.                                   *)
(***************************************************************************)

\* The chain's scores are known not to be negative: the first is a square, and
\* none falls below beta times the one before.
GoodRun(run) ==
  /\ run = [pool |-> run.pool, chain |-> run.chain, prev_score |-> run.prev_score]
  /\ run.pool \in Seq(StoredNode) /\ run.chain \in Seq(StoredNode)
  /\ run.pool # <<>> \/ run.chain # <<>> => query \in Vector
  /\ run.chain = <<>> => run.prev_score = <<>>
  /\ run.chain # <<>> => \E x \in Fraction : run.prev_score = <<x>> /\ x.num >= 0

LEMMA AcceptIs ==
  ASSUME NEW run, run = [pool |-> run.pool, chain |-> run.chain, prev_score |-> run.prev_score],
         NEW b, NEW score
  PROVE  Accept(run, b, score) = [pool |-> SwapRemove(run.pool, b), chain |-> Append(run.chain, run.pool[b]),
                                  prev_score |-> <<score>>]
  <1> SUFFICES ASSUME NEW p, NEW c, NEW s, run = [pool |-> p, chain |-> c, prev_score |-> s]
               PROVE  Accept(run, b, score) = [pool |-> SwapRemove(p, b), chain |-> Append(c, p[b]),
                                               prev_score |-> <<score>>]
    OBVIOUS
  <1>1. run.pool = p /\ run.chain = c
    OBVIOUS
  <1>2. Accept(run, b, score) = [run EXCEPT !.pool = SwapRemove(p, b), !.chain = Append(c, p[b]),
                                            !.prev_score = <<score>>]
    BY <1>1 DEF Accept
  <1> QED
    BY <1>2

LEMMA NotBelowZero ==
  ASSUME NEW x \in Fraction, x.num >= 0, NEW s \in Fraction, NEW beta \in Fraction, beta.num >= 0,
         ~Below(s, Times(beta, x))
  PROVE  s.num >= 0
  <1> DEFINE a == x.num b == x.den c == s.num d == s.den e == beta.num f == beta.den
  <1>1. a \in Nat /\ b \in Nat \ {0} /\ c \in Int /\ d \in Nat \ {0} /\ e \in Nat /\ f \in Nat \ {0}
    BY DEF Fraction
  <1>2. ~(c * (f * b) < (e * a) * d)
    BY <1>1 DEF Below, Times
  <1> HIDE DEF a, b, c, d, e, f
  <1>3. \A u, v \in Nat : u * v \in Nat
    OBVIOUS
  <1>4. \A u, v \in Nat \ {0} : u * v \in Nat \ {0}
    OBVIOUS
  <1>5. f * b \in Nat \ {0} /\ (e * a) * d \in Nat
    BY <1>1, <1>3, <1>4
  <1>6. ~(c * (f * b) < 0)
    BY <1>1, <1>2, <1>5
  <1>7. c < 0 <=> c * (f * b) < 0 * (f * b)
    BY <1>1, <1>5, Scale
  <1>8. 0 * (f * b) = 0
    BY <1>5
  <1> QED
    BY <1>1, <1>6, <1>7, <1>8 DEF c

LEMMA EngineBeta ==
  ASSUME NEW e \in Engines
  PROVE  /\ e.beta \in Fraction /\ e.beta.num >= 0
         /\ e.top_k \in Nat /\ e.max_chain_len \in Nat
  <1> DEFINE m == e.beta.num d == e.beta.den
  <1>1. /\ e.beta = [num |-> m, den |-> d] /\ d \in Nat \ {0} /\ m \in Nat
        /\ e.top_k \in Nat /\ e.max_chain_len \in Nat
    BY DmceAssumption
  <1> HIDE DEF m, d
  <1>2. m \in Int /\ m >= 0
    BY <1>1
  <1> QED
    BY <1>1, <1>2 DEF Fraction

\* The node that is chosen, and its score.
LEMMA Chosen ==
  ASSUME NEW run, GoodRun(run), run.pool # <<>>
  PROVE  /\ Best(run.pool, run.chain) \in 1 .. Len(run.pool)
         /\ run.pool[Best(run.pool, run.chain)] \in StoredNode
         /\ Gate(run.pool[Best(run.pool, run.chain)], run.chain) \in Fraction
         /\ \A j \in 1 .. Len(run.pool) :
              /\ Gate(run.pool[j], run.chain) \in Fraction
              /\ ~Below(Gate(run.pool[Best(run.pool, run.chain)], run.chain), Gate(run.pool[j], run.chain))
              /\ j < Best(run.pool, run.chain) =>
                   Below(Gate(run.pool[j], run.chain), Gate(run.pool[Best(run.pool, run.chain)], run.chain))
         /\ run.chain = <<>> => Gate(run.pool[Best(run.pool, run.chain)], run.chain).num >= 0
  <1>1. /\ query \in Vector /\ Fitting(run.pool) /\ Fitting(run.chain) /\ Len(run.pool) > 0
        /\ \A i \in 1 .. Len(run.pool) : run.pool[i] \in StoredNode /\ run.pool[i].embedding \in Vector
    BY SeqFits DEF GoodRun, Fitting
  <1>2. /\ Best(run.pool, run.chain) \in 1 .. Len(run.pool)
        /\ \A j \in 1 .. Len(run.pool) :
             /\ Gate(run.pool[j], run.chain) \in Fraction
             /\ ~Below(Gate(run.pool[Best(run.pool, run.chain)], run.chain), Gate(run.pool[j], run.chain))
             /\ j < Best(run.pool, run.chain) =>
                  Below(Gate(run.pool[j], run.chain), Gate(run.pool[Best(run.pool, run.chain)], run.chain))
    BY <1>1, BestIsFirst
  <1>3. \A v : v \in 1 .. Len(run.pool) => Gate(run.pool[v], <<>>).num >= 0
    BY <1>1, FirstGate
  <1> QED
    BY <1>1, <1>2, <1>3

LEMMA GoodStep ==
  ASSUME NEW run, GoodRun(run), run.pool # <<>>, NEW e \in Engines, NEW b, NEW score,
         b = Best(run.pool, run.chain), score = Gate(run.pool[b], run.chain),
         ~Truncates(e, run.prev_score, score)
  PROVE  GoodRun(Accept(run, b, score))
  <1>1. /\ b \in 1 .. Len(run.pool) /\ run.pool[b] \in StoredNode /\ score \in Fraction
        /\ run.chain = <<>> => score.num >= 0
    BY Chosen
  <1>2. Accept(run, b, score) = [pool |-> SwapRemove(run.pool, b), chain |-> Append(run.chain, run.pool[b]),
                                 prev_score |-> <<score>>]
    BY AcceptIs DEF GoodRun
  <1>3. SwapRemove(run.pool, b) \in Seq(StoredNode)
    BY <1>1, SwapRemoveType DEF GoodRun
  <1>4. Append(run.chain, run.pool[b]) \in Seq(StoredNode) /\ Append(run.chain, run.pool[b]) # <<>>
    BY <1>1, FirstPart DEF GoodRun
  <1>5. ASSUME run.chain # <<>> PROVE score.num >= 0
    <2>1. PICK x \in Fraction : run.prev_score = <<x>> /\ x.num >= 0
      BY <1>5 DEF GoodRun
    <2>2. ~Below(score, Times(e.beta, x))
      BY <2>1 DEF Truncates
    <2> QED
      BY <1>1, <2>1, <2>2, NotBelowZero, EngineBeta
  <1> QED
    BY <1>1, <1>2, <1>3, <1>4, <1>5 DEF GoodRun

-----------------------------------------------------------------------------
(***************************************************************************)
(* What ChainSound and StartsAtMostSimilar rest on.                        *)
(***************************************************************************)

Offer(e) == Candidates(query, e)

\* The candidates not among the chain's first i nodes.
Left(e, chain, i) ==
  {n \in Nodes : Occurrences(Offer(e), n) > Occurrences(SubSeq(chain, 1, i), n)}

Counted(e, run) ==
  \A n \in Nodes : Occurrences(run.chain, n) + Occurrences(run.pool, n) = Occurrences(Offer(e), n)

ChosenWell(e, chain, i) ==
  /\ \A n \in Left(e, chain, i - 1) : ~Below(Scored(chain, i), Score(n, SubSeq(chain, 1, i - 1)))
  /\ i > 1 => ~Below(Scored(chain, i), Times(e.beta, Scored(chain, i - 1)))

Drops(e, chain, n) ==
  chain # <<>> /\ Below(Score(n, chain), Times(e.beta, Scored(chain, Len(chain))))

Ended(e, chain) ==
  \/ Len(chain) = e.max_chain_len
  \/ \A n \in Left(e, chain, Len(chain)) : Drops(e, chain, n)

StartsBest(e, chain) ==
  chain # <<>> =>
    \E b \in 1 .. Len(Offer(e)) :
      /\ chain[1] = Offer(e)[b]
      /\ \A j \in 1 .. Len(Offer(e)) :
           j < b => Below(Gate(Offer(e)[j], <<>>), Gate(Offer(e)[b], <<>>))

Sound(e, run) ==
  /\ Counted(e, run)
  /\ \A i \in 1 .. Len(run.chain) : ChosenWell(e, run.chain, i)
  /\ Len(run.chain) <= e.max_chain_len
  /\ run.chain # <<>> => run.prev_score = <<Scored(run.chain, Len(run.chain))>>
  /\ run.chain = <<>> => run.pool = Offer(e)
  /\ StartsBest(e, run.chain)

LEMMA WholeIsItself ==
  ASSUME NEW S, NEW s \in Seq(S)
  PROVE  SubSeq(s, 1, Len(s)) = s
  <1>1. Len(s) \in Nat /\ \A i \in 1 .. Len(s) : s[i] \in S
    BY LenProperties, ElementOfSeq
  <1>2. /\ Len(s) \in Int /\ 1 \in Int /\ Len(s) - 1 + 1 = Len(s)
        /\ (\A i \in 1 .. Len(s) : s[i] \in S /\ 1 + i - 1 = i)
        /\ (IF 1 <= Len(s) THEN Len(s) - 1 + 1 ELSE 0) = Len(s)
    BY <1>1
  <1>3. /\ SubSeq(s, 1, Len(s)) \in Seq(S) /\ Len(SubSeq(s, 1, Len(s))) = Len(s)
        /\ \A i \in 1 .. Len(s) : SubSeq(s, 1, Len(s))[i] = s[i]
    BY <1>2, SubSeqProperties
  <1> QED
    BY <1>3, SeqEqual

\* The candidates that are left are in the pool.
PoolHasLeft(e, run) ==
  \A n \in Left(e, run.chain, Len(run.chain)) : \E j \in 1 .. Len(run.pool) : run.pool[j] = n

LEMMA LeftInPool ==
  ASSUME NEW e \in Engines, NEW run, GoodRun(run), Sound(e, run)
  PROVE  PoolHasLeft(e, run)
  <1> SUFFICES ASSUME NEW n \in Left(e, run.chain, Len(run.chain))
               PROVE  \E j \in 1 .. Len(run.pool) : run.pool[j] = n
    BY DEF PoolHasLeft
  <1>1. SubSeq(run.chain, 1, Len(run.chain)) = run.chain
    BY WholeIsItself DEF GoodRun
  <1>2. n \in Nodes /\ Occurrences(Offer(e), n) > Occurrences(run.chain, n)
    BY <1>1 DEF Left
  <1>3. Occurrences(run.chain, n) \in Nat /\ Occurrences(run.pool, n) \in Nat
    BY OccurrencesType DEF GoodRun
  <1>4. Occurrences(run.chain, n) + Occurrences(run.pool, n) = Occurrences(Offer(e), n)
    BY <1>2 DEF Sound, Counted
  <1>5. Occurrences(run.pool, n) > 0
    BY <1>2, <1>3, <1>4
  <1> QED
    BY <1>5, OccurrencesType DEF GoodRun

LEMMA SoundStep ==
  ASSUME NEW run, GoodRun(run), run.pool # <<>>, NEW e \in Engines, NEW b, NEW score,
         b = Best(run.pool, run.chain), score = Gate(run.pool[b], run.chain),
         ~Truncates(e, run.prev_score, score), Sound(e, run), Len(run.chain) < e.max_chain_len
  PROVE  Sound(e, Accept(run, b, score))
  <1> DEFINE x == run.pool[b] chain == run.chain after == Append(run.chain, x) l == Len(run.chain)
  <1>1. /\ b \in 1 .. Len(run.pool) /\ x \in StoredNode /\ score \in Fraction
        /\ \A j \in 1 .. Len(run.pool) : ~Below(score, Gate(run.pool[j], run.chain))
        /\ \A j \in 1 .. Len(run.pool) : j < b => Below(Gate(run.pool[j], run.chain), score)
    BY Chosen
  <1>2. Accept(run, b, score) = [pool |-> SwapRemove(run.pool, b), chain |-> after, prev_score |-> <<score>>]
    BY AcceptIs DEF GoodRun
  <1>3. /\ chain \in Seq(StoredNode) /\ run.pool \in Seq(StoredNode) /\ query \in Vector
        /\ l \in Nat /\ Fitting(chain) /\ Fitting(run.pool)
        /\ \A j \in 1 .. Len(run.pool) : run.pool[j].embedding \in Vector /\ run.pool[j] \in StoredNode
    BY SeqFits, LenProperties DEF GoodRun
  <1>4. /\ SubSeq(chain, 1, l) = chain
        /\ \A i \in 0 .. l : SubSeq(after, 1, i) = SubSeq(chain, 1, i)
        /\ Len(after) = l + 1 /\ after # <<>> /\ (\A i \in 1 .. l : after[i] = chain[i]) /\ after[l + 1] = x
    BY <1>1, <1>3, FirstPart
  <1>5. \A j \in 1 .. Len(run.pool) : Gate(run.pool[j], chain) = Score(run.pool[j], chain)
    BY <1>3, GateIsScore
  <1>6. score = Score(x, chain)
    BY <1>1, <1>5
  <1>7. \A n \in Left(e, chain, l) : \E j \in 1 .. Len(run.pool) : run.pool[j] = n
    <2>1. PoolHasLeft(e, run)
      BY LeftInPool
    <2> QED
      BY <2>1 DEF PoolHasLeft
  <1>8. ASSUME NEW n \in Nodes
        PROVE  Occurrences(after, n) + Occurrences(SwapRemove(run.pool, b), n) = Occurrences(Offer(e), n)
    <2>1. Occurrences(after, n) = Occurrences(chain, n) + (IF x = n THEN 1 ELSE 0)
      BY <1>1, <1>3, OccurrencesAppend
    <2>2. Occurrences(run.pool, n) = Occurrences(SwapRemove(run.pool, b), n) + (IF x = n THEN 1 ELSE 0)
      BY <1>1, <1>3, OccurrencesSwapRemove
    <2>3. Occurrences(chain, n) + Occurrences(run.pool, n) = Occurrences(Offer(e), n)
      BY DEF Sound, Counted
    <2>4. Occurrences(chain, n) \in Nat /\ Occurrences(SwapRemove(run.pool, b), n) \in Nat
      BY <1>1, <1>3, OccurrencesType, SwapRemoveType
    <2>5. PICK u \in {0, 1} : u = IF x = n THEN 1 ELSE 0
      OBVIOUS
    <2> QED
      BY <2>1, <2>2, <2>3, <2>4, <2>5
  <1> HIDE DEF after, x, l, chain
  <1>9. \A i \in 1 .. l : Scored(after, i) = Scored(chain, i)
    <2>1. \A i \in 1 .. l : i - 1 \in 0 .. l
      BY <1>3
    <2> QED
      BY <1>4, <2>1 DEF Scored
  <1>10. Scored(after, l + 1) = score
    <2>1. SubSeq(after, 1, (l + 1) - 1) = chain
      BY <1>3, <1>4
    <2> QED
      BY <1>4, <1>6, <2>1 DEF Scored
  <1>11. ASSUME NEW i \in 1 .. l PROVE ChosenWell(e, after, i)
    <2>1. ChosenWell(e, chain, i)
      BY <1>11 DEF Sound, chain, l
    <2>2. i - 1 \in 0 .. l /\ (i > 1 => i - 1 \in 1 .. l)
      BY <1>3
    <2>3. SubSeq(after, 1, i - 1) = SubSeq(chain, 1, i - 1) /\ Left(e, after, i - 1) = Left(e, chain, i - 1)
      BY <1>4, <2>2 DEF Left
    <2> QED
      BY <1>9, <2>1, <2>2, <2>3 DEF ChosenWell
  <1>12. ChosenWell(e, after, l + 1)
    <2>1. (l + 1) - 1 = l /\ l \in 0 .. l
      BY <1>3
    <2>2. SubSeq(after, 1, l) = chain /\ Left(e, after, l) = Left(e, chain, l)
      BY <1>4, <2>1 DEF Left
    <2>3. \A n \in Left(e, after, l) : ~Below(score, Score(n, chain))
      BY <1>1, <1>5, <1>7, <2>2 DEF chain
    <2>4. ASSUME l + 1 > 1 PROVE ~Below(score, Times(e.beta, Scored(after, l)))
      <3>1. chain # <<>>
        BY <1>3, <2>4, EmptySeq DEF l, chain
      <3>2. run.prev_score = <<Scored(chain, l)>>
        BY <3>1 DEF Sound, chain, l
      <3>3. run.prev_score # <<>> /\ run.prev_score[1] = Scored(chain, l)
        BY <3>2
      <3>4. ~Below(score, Times(e.beta, Scored(chain, l)))
        BY <3>3 DEF Truncates
      <3> QED
        BY <1>3, <1>9, <2>4, <3>4
    <2> QED
      BY <1>10, <2>1, <2>2, <2>3, <2>4 DEF ChosenWell
  <1>13. StartsBest(e, after)
    <2>1. CASE chain = <<>>
      <3>1. run.pool = Offer(e) /\ l = 0
        BY <2>1, EmptySeq DEF Sound, chain, l
      <3>2. after[1] = x
        BY <1>4, <3>1
      <3>3. x = run.pool[b] /\ score = Gate(x, <<>>)
        BY <2>1 DEF x, chain
      <3> QED
        BY <1>1, <2>1, <3>1, <3>2, <3>3 DEF StartsBest, x, chain
    <2>2. CASE chain # <<>>
      <3>1. l > 0 /\ after[1] = chain[1]
        BY <1>3, <1>4, <2>2, EmptySeq DEF l
      <3>2. StartsBest(e, chain)
        BY DEF Sound, chain
      <3> QED
        BY <2>2, <3>1, <3>2 DEF StartsBest
    <2> QED
      BY <2>1, <2>2
  <1>14. l + 1 <= e.max_chain_len /\ \A i \in 1 .. l + 1 : i \in 1 .. l \/ i = l + 1
    BY <1>3, EngineBeta DEF l
  <1>15. \A i \in 1 .. Len(after) : ChosenWell(e, after, i)
    BY <1>4, <1>11, <1>12, <1>14
  <1>16. Counted(e, Accept(run, b, score))
    BY <1>2, <1>8 DEF Counted
  <1> QED
    BY <1>2, <1>4, <1>10, <1>13, <1>14, <1>15, <1>16 DEF Sound

\* A loop that stops has a reason that ChainSound names.
LEMMA SoundEnd ==
  ASSUME NEW run, GoodRun(run), NEW e \in Engines, Sound(e, run),
         \/ ~More(e, run)
         \/ run.pool # <<>> /\ Truncates(e, run.prev_score, Gate(run.pool[Best(run.pool, run.chain)], run.chain))
  PROVE  Ended(e, run.chain)
  <1>1. run.chain \in Seq(StoredNode) /\ run.pool \in Seq(StoredNode) /\ Len(run.chain) \in Nat
    BY LenProperties DEF GoodRun
  <1>2. e.max_chain_len \in Nat /\ Len(run.chain) <= e.max_chain_len
    BY EngineBeta DEF Sound
  <1>3. CASE run.pool = <<>>
    <2>1. Len(run.pool) = 0
      BY <1>1, <1>3, EmptySeq
    <2>2. Left(e, run.chain, Len(run.chain)) = {}
      BY <2>1, LeftInPool DEF PoolHasLeft
    <2> QED
      BY <2>2 DEF Ended
  <1>4. CASE ~(Len(run.chain) < e.max_chain_len)
    BY <1>1, <1>2, <1>4 DEF Ended
  <1>5. CASE run.pool # <<>> /\ Truncates(e, run.prev_score, Gate(run.pool[Best(run.pool, run.chain)], run.chain))
    <2> DEFINE b == Best(run.pool, run.chain) score == Gate(run.pool[b], run.chain)
               last == Scored(run.chain, Len(run.chain))
    <2>1. run.chain # <<>>
      BY <1>5 DEF GoodRun, Truncates
    <2>2. run.prev_score = <<last>>
      BY <2>1 DEF Sound
    <2>3. Below(score, Times(e.beta, last))
      BY <1>5, <2>2 DEF Truncates
    <2>4. last \in Fraction
      <3>1. PICK y \in Fraction : run.prev_score = <<y>>
        BY <2>1 DEF GoodRun
      <3> QED
        BY <2>2, <3>1
    <2>5. Times(e.beta, last) \in Fraction
      BY <2>4, EngineBeta, TimesFraction
    <2>6. /\ score \in Fraction
          /\ \A j \in 1 .. Len(run.pool) : /\ Gate(run.pool[j], run.chain) \in Fraction
                                           /\ ~Below(score, Gate(run.pool[j], run.chain))
      BY <1>5, Chosen
    <2>7. \A j \in 1 .. Len(run.pool) : Gate(run.pool[j], run.chain) = Score(run.pool[j], run.chain)
      BY <1>5, SeqFits, GateIsScore DEF GoodRun
    <2> HIDE DEF score, last, b
    <2>8. ASSUME NEW n \in Left(e, run.chain, Len(run.chain)) PROVE Drops(e, run.chain, n)
      <3>1. PICK j \in 1 .. Len(run.pool) : run.pool[j] = n
        BY LeftInPool DEF PoolHasLeft
      <3>2. Below(Gate(run.pool[j], run.chain), Times(e.beta, last))
        BY <2>3, <2>5, <2>6, BelowTransitive
      <3>3. Below(Score(n, run.chain), Times(e.beta, last))
        BY <2>7, <3>1, <3>2
      <3> QED
        BY <2>1, <3>3 DEF Drops, last
    <2> QED
      BY <2>8 DEF Ended
  <1> QED
    BY <1>3, <1>4, <1>5 DEF More

\* The part of the score that the query plays no part in.
Coherence(node, before) ==
  LET toAll(v) == Total(before, LAMBDA w : Dot(v, w))
      towards  == toAll(node.embedding)
      lengths  == Dot(node.embedding, node.embedding) * Total(before, toAll)
  IN  IF lengths = 0 THEN Zero
      ELSE [num |-> towards * (IF towards < 0 THEN -towards ELSE towards), den |-> lengths]

ScoreOf(q, node, before) ==
  Times(cosine_similarity(node.embedding, q),
        IF before = <<>> THEN cosine_similarity(node.embedding, q) ELSE Coherence(node, before))

LEMMA ScoreIs == \A node, before : Score(node, before) = ScoreOf(query, node, before)
  BY DEF Score, ScoreOf, Coherence

LEMMA ScoreIsNext == (\A node, before : Score(node, before) = ScoreOf(query, node, before))'
  BY ScoreIs, PTL

\* What these say of a run depends on the stored nodes and the query alone.
LEMMA SameStoreAndQuery ==
  ASSUME UNCHANGED <<nodes, query>>, NEW e, NEW run, NEW chain
  PROVE  /\ GoodRun(run) => GoodRun(run)'
         /\ Sound(e, run) => Sound(e, run)'
         /\ Ended(e, chain) => Ended(e, chain)'
  <1>1. nodes' = nodes /\ query' = query
    OBVIOUS
  <1>2. Offer(e)' = Offer(e)
    BY <1>1 DEF Offer, Candidates, top_k
  <1>3. \A node, before : Score(node, before)' = Score(node, before) /\ Gate(node, before)' = Gate(node, before)
    BY <1>1, ScoreIs, ScoreIsNext DEF Gate, Centroid
  <1>4. \A s, i : Scored(s, i)' = Scored(s, i)
    BY <1>3 DEF Scored
  <1>5. \A s, i : Left(e, s, i)' = Left(e, s, i)
    BY <1>2 DEF Left
  <1>6. GoodRun(run) => GoodRun(run)'
    BY <1>1 DEF GoodRun
  <1>7. \A n : Drops(e, chain, n) => Drops(e, chain, n)'
    BY <1>3, <1>4 DEF Drops
  <1>8. Ended(e, chain) => Ended(e, chain)'
    BY <1>5, <1>7 DEF Ended
  <1>9. \A s, i : ChosenWell(e, s, i) => ChosenWell(e, s, i)'
    BY <1>3, <1>4, <1>5 DEF ChosenWell
  <1>10. \A s : StartsBest(e, s) => StartsBest(e, s)'
    BY <1>2, <1>3 DEF StartsBest
  <1>11. Counted(e, run) => Counted(e, run)'
    BY <1>2 DEF Counted
  <1>12. Sound(e, run) => Sound(e, run)'
    BY <1>2, <1>4, <1>9, <1>10, <1>11 DEF Sound
  <1> QED
    BY <1>6, <1>8, <1>12

ChainInv ==
  /\ phase \in {"idle", "evolving", "evolved", "reporting", "reported"}
  /\ nodes \in Seq(StoredNode)
  /\ phase = "idle" => evolved = Nothing
  /\ phase # "idle" =>
       /\ query \in Queries
       /\ engine \in [Calls -> Engines]
       /\ GoodRun(evolved)
       /\ Sound(engine["evolve"], evolved)
       /\ phase # "evolving" => Ended(engine["evolve"], evolved.chain)

\* Nodes that do not fit, and what comes after them, are not stored.
LEMMA StoredType ==
  ASSUME NEW batch \in Seq(Nodes)
  PROVE  Stored(batch) \in Seq(StoredNode)
  <1> DEFINE misfits == {i \in DOMAIN batch : ~Fits(batch[i])}
  <1>1. /\ Len(batch) \in Nat /\ DOMAIN batch = 1 .. Len(batch)
        /\ \A i \in 1 .. Len(batch) : batch[i] \in Nodes
    BY LenProperties, ElementOfSeq
  <1>2. CASE misfits = {}
    <2>1. \A i \in 1 .. Len(batch) : batch[i] \in StoredNode
      BY <1>1, <1>2 DEF StoredNode
    <2>2. batch \in [1 .. Len(batch) -> StoredNode]
      BY <2>1, LenProperties
    <2>3. batch \in Seq(StoredNode)
      BY <1>1, <2>2, SeqDef
    <2> QED
      BY <1>2, <2>3 DEF Stored
  <1>3. CASE misfits # {}
    <2>1. misfits \subseteq Nat
      BY <1>1
    <2>2. PICK least \in misfits : \A i \in misfits : least <= i
      BY <1>3, <2>1, LeastMember
    <2>3. Min(misfits) \in misfits /\ \A i \in misfits : Min(misfits) <= i
      BY <2>2, Zenon DEF Min
    <2> DEFINE m == Min(misfits)
    <2> HIDE DEF m
    <2>4. m \in 1 .. Len(batch) /\ m \in Int /\ \A i \in misfits : m <= i
      BY <1>1, <2>3 DEF m
    <2>5. \A i \in 1 .. m - 1 : i \in DOMAIN batch /\ i \notin misfits
      BY <1>1, <2>4
    <2>6. \A i \in 1 .. m - 1 : batch[i] \in StoredNode
      BY <1>1, <2>5 DEF StoredNode
    <2>7. m - 1 \in Int /\ 1 \in Int
      BY <2>4
    <2>8. SubSeq(batch, 1, m - 1) \in Seq(StoredNode)
      BY <2>6, <2>7, SubSeqProperties
    <2> QED
      BY <1>3, <2>8 DEF Stored, m
  <1> QED
    BY <1>2, <1>3

LEMMA FillKeepsType ==
  ASSUME nodes \in Seq(StoredNode), Fill
  PROVE  nodes' \in Seq(StoredNode)
  <1>1. ASSUME NEW n \in Nodes, Insert(n) PROVE nodes' \in Seq(StoredNode)
    <2>1. <<n>> \in Seq(Nodes)
      OBVIOUS
    <2>2. Stored(<<n>>) \in Seq(StoredNode)
      BY <2>1, StoredType
    <2> QED
      BY <1>1, <2>2, ConcatProperties DEF Insert
  <1>2. ASSUME NEW m \in Nodes, NEW n \in Nodes, InsertBatch(<<m, n>>) PROVE nodes' \in Seq(StoredNode)
    <2>1. <<m, n>> \in Seq(Nodes)
      OBVIOUS
    <2>2. Stored(<<m, n>>) \in Seq(StoredNode)
      BY <2>1, StoredType
    <2> QED
      BY <1>2, <2>2, ConcatProperties DEF InsertBatch
  <1> QED
    BY <1>1, <1>2 DEF Fill

\* Where both loops begin.
LEMMA OfferType ==
  ASSUME nodes \in Seq(StoredNode), query \in Queries, NEW e \in Engines
  PROVE  /\ Offer(e) \in Seq(StoredNode)
         /\ Offer(e) # <<>> => query \in Vector
  <1>1. CASE Len(query) = Dim
    <2>1. query \in Vector
      BY <1>1, VectorOfDim, DmceAssumption
    <2>2. Offer(e) = top_k(query, e.top_k, {})
      BY <1>1 DEF Offer, Candidates
    <2>3. top_k(query, e.top_k, {}) \in Seq(StoredNode)
      BY <2>1, SeqFits, TopKType, EngineBeta
    <2> QED
      BY <2>1, <2>2, <2>3
  <1>2. CASE Len(query) # Dim
    BY <1>2, EmptySeq DEF Offer, Candidates
  <1> QED
    BY <1>1, <1>2

FirstRun(e) == [pool |-> Offer(e), chain |-> <<>>, prev_score |-> <<>>]

StartsSound ==
  nodes \in Seq(StoredNode) /\ query \in Queries =>
    \A e \in Engines : GoodRun(FirstRun(e)) /\ Sound(e, FirstRun(e))

LEMMA SoundStart == StartsSound
  <1> SUFFICES ASSUME nodes \in Seq(StoredNode), query \in Queries, NEW e \in Engines,
                      NEW run, run = FirstRun(e)
               PROVE  GoodRun(run) /\ Sound(e, run)
    BY DEF StartsSound
  <1>1. run = [pool |-> Offer(e), chain |-> <<>>, prev_score |-> <<>>]
    BY DEF FirstRun
  <1>2. <<>> \in Seq(StoredNode) /\ Len(<<>>) = 0
    BY EmptySeq
  <1>3. Offer(e) \in Seq(StoredNode) /\ (Offer(e) # <<>> => query \in Vector)
    BY OfferType
  <1>4. GoodRun(run)
    BY <1>1, <1>2, <1>3 DEF GoodRun
  <1>5. ASSUME NEW n \in Nodes PROVE Occurrences(<<>>, n) + Occurrences(Offer(e), n) = Occurrences(Offer(e), n)
    <2>1. Occurrences(<<>>, n) \in Nat /\ Occurrences(Offer(e), n) \in Nat
      BY <1>2, <1>3, OccurrencesType
    <2>2. ~(Occurrences(<<>>, n) > 0)
      <3>1. Occurrences(<<>>, n) > 0 => \E i \in 1 .. Len(<<>>) : <<>>[i] = n
        BY <1>2, OccurrencesType
      <3> QED
        BY <1>2, <3>1
    <2> QED
      BY <2>1, <2>2
  <1>6. Counted(e, run)
    BY <1>1, <1>5 DEF Counted
  <1>7. 0 <= e.max_chain_len
    BY EngineBeta
  <1>8. Sound(e, run)
    BY <1>1, <1>2, <1>6, <1>7 DEF Sound, StartsBest
  <1> QED
    BY <1>4, <1>8

LEMMA SoundStartNext == StartsSound'
  BY SoundStart, PTL

LEMMA EvolveSound ==
  ASSUME ChainInv, Evolve
  PROVE  ChainInv'
  <1>1. phase' = "evolving" /\ nodes' = nodes /\ nodes' \in Seq(StoredNode)
    BY DEF Evolve, ChainInv
  <1>2. PICK q \in Queries, f \in [Calls -> Engines] :
          query' = q /\ engine' = f /\ evolved' = [Nothing EXCEPT !.pool = Candidates(q, f["evolve"])]
    BY DEF Evolve
  <1>3. query' \in Queries /\ engine' \in [Calls -> Engines] /\ engine'["evolve"] \in Engines
    BY <1>2 DEF Calls
  <1>4. PICK e \in Engines : e = engine'["evolve"]
    BY <1>3
  <1>5. Candidates(q, e)' = Candidates(q, e)
    BY <1>1 DEF Candidates, top_k
  <1>6. evolved' = FirstRun(e)'
    <2>1. Offer(e)' = Candidates(q, e)'
      BY <1>2 DEF Offer, Candidates, top_k
    <2> QED
      BY <1>2, <1>4, <1>5, <2>1 DEF Nothing, FirstRun
  <1>7. GoodRun(FirstRun(e))' /\ Sound(e, FirstRun(e))'
    BY <1>1, <1>3, SoundStartNext DEF StartsSound
  <1>8. GoodRun(evolved)' /\ Sound(engine["evolve"], evolved)'
    BY <1>4, <1>6, <1>7
  <1> QED
    BY <1>1, <1>3, <1>8 DEF ChainInv

LEMMA EvolveStepSound ==
  ASSUME ChainInv, EvolveStep
  PROVE  ChainInv'
  <1> DEFINE e0    == engine["evolve"]
             best  == Best(evolved.pool, evolved.chain)
             score == Gate(evolved.pool[best], evolved.chain)
  <1>1. /\ phase = "evolving" /\ More(e0, evolved) /\ UNCHANGED <<nodes, query, engine, result>>
        /\ IF Truncates(e0, evolved.prev_score, score)
           THEN phase' = "evolved" /\ UNCHANGED evolved
           ELSE evolved' = Accept(evolved, best, score) /\ UNCHANGED phase
    BY DEF EvolveStep
  <1>2. /\ nodes \in Seq(StoredNode) /\ query \in Queries /\ engine \in [Calls -> Engines]
        /\ GoodRun(evolved) /\ Sound(e0, evolved)
    BY <1>1 DEF ChainInv
  <1>3. PICK e \in Engines : e = e0
    BY <1>2 DEF Calls
  <1>4. evolved.pool # <<>> /\ Len(evolved.chain) < e.max_chain_len
    BY <1>1, <1>3 DEF More
  <1>5. PICK run : run = evolved
    OBVIOUS
  <1>6. GoodRun(run) /\ Sound(e, run)
    BY <1>2, <1>3, <1>5
  <1>7. CASE Truncates(e, evolved.prev_score, score)
    <2>1. phase' = "evolved" /\ evolved' = run /\ engine' = engine
      BY <1>1, <1>3, <1>5, <1>7
    <2>2. Ended(e, run.chain)
      BY <1>4, <1>5, <1>6, <1>7, SoundEnd
    <2>3. GoodRun(run)' /\ Sound(e, run)' /\ Ended(e, run.chain)'
      BY <1>1, <1>6, <2>2, SameStoreAndQuery
    <2>4. GoodRun(evolved)' /\ Sound(engine["evolve"], evolved)' /\ Ended(engine["evolve"], evolved.chain)'
      BY <1>3, <2>1, <2>3
    <2> QED
      BY <1>1, <1>2, <2>1, <2>4 DEF ChainInv
  <1>8. CASE ~Truncates(e, evolved.prev_score, score)
    <2>1. phase' = "evolving" /\ evolved' = Accept(evolved, best, score) /\ engine' = engine
      BY <1>1, <1>3, <1>8
    <2>2. PICK b, s, next : b = best /\ s = score /\ next = Accept(evolved, best, score)
      OBVIOUS
    <2> HIDE DEF best, score
    <2>3. GoodRun(next) /\ Sound(e, next)
      <3>1. b = Best(run.pool, run.chain) /\ s = Gate(run.pool[b], run.chain) /\ next = Accept(run, b, s)
            /\ run.pool # <<>> /\ Len(run.chain) < e.max_chain_len /\ ~Truncates(e, run.prev_score, s)
        BY <1>4, <1>5, <1>8, <2>2 DEF best, score
      <3>2. GoodRun(next)
        BY <1>6, <3>1, GoodStep
      <3>3. Sound(e, next)
        BY <1>6, <3>1, SoundStep
      <3> QED
        BY <3>2, <3>3
    <2>4. GoodRun(next)' /\ Sound(e, next)'
      BY <1>1, <2>3, SameStoreAndQuery
    <2>5. GoodRun(evolved)' /\ Sound(engine["evolve"], evolved)'
      BY <1>3, <2>1, <2>2, <2>4
    <2> QED
      BY <1>1, <1>2, <2>1, <2>5 DEF ChainInv
  <1> QED
    BY <1>7, <1>8

\* Steps that leave the stored nodes, the query and evolve()'s run alone.
LEMMA OthersSound ==
  ASSUME ChainInv, UNCHANGED <<nodes, query, engine, evolved>>, phase # "idle",
         phase' \in {"evolving", "evolved", "reporting", "reported"},
         phase' # "evolving" => Ended(engine["evolve"], evolved.chain)
  PROVE  ChainInv'
  <1>1. /\ nodes \in Seq(StoredNode) /\ query \in Queries /\ engine \in [Calls -> Engines]
        /\ GoodRun(evolved) /\ Sound(engine["evolve"], evolved)
    BY DEF ChainInv
  <1>2. PICK e, run : e = engine["evolve"] /\ run = evolved
    OBVIOUS
  <1>3. GoodRun(run)' /\ Sound(e, run)' /\ (Ended(e, run.chain) => Ended(e, run.chain)')
    BY <1>1, <1>2, SameStoreAndQuery
  <1>4. /\ GoodRun(evolved)' /\ Sound(engine["evolve"], evolved)'
        /\ phase' # "evolving" => Ended(engine["evolve"], evolved.chain)'
    BY <1>2, <1>3
  <1> QED
    BY <1>1, <1>4 DEF ChainInv

LEMMA EvolveEndsSound ==
  ASSUME ChainInv, EvolveEnds
  PROVE  ChainInv'
  <1>1. /\ phase = "evolving" /\ phase' = "evolved" /\ ~More(engine["evolve"], evolved)
        /\ UNCHANGED <<nodes, query, engine, evolved, result>>
    BY DEF EvolveEnds
  <1>2. GoodRun(evolved) /\ Sound(engine["evolve"], evolved) /\ engine["evolve"] \in Engines
    BY <1>1 DEF ChainInv, Calls
  <1>3. Ended(engine["evolve"], evolved.chain)
    BY <1>1, <1>2, SoundEnd
  <1> QED
    BY <1>1, <1>3, OthersSound

LEMMA InitChain == DmceInit => ChainInv
  <1> SUFFICES ASSUME DmceInit PROVE ChainInv
    OBVIOUS
  <1>1. nodes = <<>> /\ phase = "idle" /\ evolved = Nothing
    BY DEF DmceInit, StoreInit
  <1>2. nodes \in Seq(StoredNode)
    BY <1>1
  <1> QED
    BY <1>1, <1>2 DEF ChainInv

LEMMA NextChain ==
  ASSUME ChainInv, [DmceNext]_dmceVars
  PROVE  ChainInv'
  <1>1. CASE Fill
    <2>1. phase' = "idle" /\ evolved' = Nothing
      BY <1>1 DEF Fill
    <2>2. nodes' \in Seq(StoredNode)
      BY <1>1, FillKeepsType DEF ChainInv
    <2> QED
      BY <2>1, <2>2 DEF ChainInv
  <1>2. CASE Evolve
    BY <1>2, EvolveSound
  <1>3. CASE EvolveStep
    BY <1>3, EvolveStepSound
  <1>4. CASE EvolveEnds
    BY <1>4, EvolveEndsSound
  <1>5. CASE Report \/ ReportStep \/ ReportEnds
    <2>1. /\ UNCHANGED <<nodes, query, engine, evolved>>
          /\ phase \in {"evolved", "reporting"} /\ phase' \in {"reporting", "reported"}
      BY <1>5 DEF Report, ReportStep, ReportEnds
    <2>2. Ended(engine["evolve"], evolved.chain)
      BY <2>1 DEF ChainInv
    <2> QED
      BY <2>1, <2>2, OthersSound
  <1>6. CASE UNCHANGED dmceVars
    <2>1. UNCHANGED <<nodes, query, engine, evolved, phase>>
      BY <1>6 DEF dmceVars
    <2>2. CASE phase = "idle"
      BY <2>1, <2>2 DEF ChainInv
    <2>3. CASE phase # "idle"
      BY <2>1, <2>3, OthersSound DEF ChainInv
    <2> QED
      BY <2>2, <2>3
  <1> QED
    BY <1>1, <1>2, <1>3, <1>4, <1>5, <1>6 DEF DmceNext

LEMMA ChainInvSound ==
  ASSUME ChainInv
  PROVE  ChainSound
  <1> SUFFICES ASSUME phase # "idle" PROVE ChainSound
    BY DEF ChainSound
  <1> DEFINE e     == engine["evolve"]
             chain == evolved.chain
             offer == Offer(e)
             left(i)  == {n \in Nodes : Occurrences(offer, n) > Occurrences(SubSeq(chain, 1, i), n)}
             drops(n) == chain # <<>> /\ Below(Score(n, chain), Times(e.beta, Scored(chain, Len(chain))))
  <1>1. GoodRun(evolved) /\ Sound(e, evolved) /\ (phase # "evolving" => Ended(e, chain))
    BY DEF ChainInv
  <1>2. DOMAIN chain = 1 .. Len(chain)
    BY <1>1, LenProperties DEF GoodRun
  <1>3. \A n \in Nodes : Occurrences(chain, n) + Occurrences(evolved.pool, n) = Occurrences(offer, n)
    BY <1>1 DEF Sound, Counted
  <1>4. \A i : left(i) = Left(e, chain, i)
    BY DEF Left
  <1>5. \A n : drops(n) <=> Drops(e, chain, n)
    BY DEF Drops
  <1>6. \A i \in DOMAIN chain :
          /\ \A n \in left(i - 1) : ~Below(Scored(chain, i), Score(n, SubSeq(chain, 1, i - 1)))
          /\ i > 1 => ~Below(Scored(chain, i), Times(e.beta, Scored(chain, i - 1)))
    BY <1>1, <1>2 DEF Sound, ChosenWell, Left
  <1>7. Len(chain) <= e.max_chain_len
    BY <1>1 DEF Sound
  <1>8. phase # "evolving" => \/ Len(chain) = e.max_chain_len
                              \/ \A n \in left(Len(chain)) : drops(n)
    BY <1>1, <1>4, <1>5 DEF Ended
  <1>9. Candidates(query, e) = offer
    BY DEF Offer
  <1> QED
    BY <1>3, <1>6, <1>7, <1>8, <1>9 DEF ChainSound

\* evolve() keeps each candidate as often as it was retrieved, chooses the best of
\* what is left at each step, drops nothing above beta times the score before, and
\* ends for one of its three reasons.
THEOREM ChainAlwaysSound == DmceSpec => []ChainSound
  BY InitChain, NextChain, ChainInvSound, PTL DEF DmceSpec

-----------------------------------------------------------------------------

LEMMA SquaresCompare ==
  ASSUME NEW x \in Fraction, NEW y \in Fraction, x.num >= 0, y.num >= 0,
         Below(Times(x, x), Times(y, y))
  PROVE  Below(x, y)
  <1> DEFINE a == x.num b == x.den c == y.num d == y.den
  <1>1. a \in Nat /\ b \in Nat \ {0} /\ c \in Nat /\ d \in Nat \ {0}
    BY DEF Fraction
  <1>2. (a * a) * (d * d) < (c * c) * (b * b)
    BY <1>1 DEF Below, Times
  <1>3. Below(x, y) <=> a * d < c * b
    BY <1>1 DEF Below
  <1> HIDE DEF a, b, c, d
  <1>4. \A u, v \in Nat : u >= v => u * u >= v * v
    OBVIOUS
  <1>5. a * d \in Nat /\ c * b \in Nat
    BY <1>1
  <1>6. (a * d) * (a * d) = (a * a) * (d * d) /\ (c * b) * (c * b) = (c * c) * (b * b)
    BY <1>1
  <1>7. ~(a * d >= c * b)
    BY <1>2, <1>4, <1>5, <1>6
  <1> QED
    BY <1>3, <1>5, <1>7

LEMMA ChainInvStarts ==
  ASSUME ChainInv
  PROVE  StartsAtMostSimilar
  <1> DEFINE similar(i) == cosine_similarity(query, nodes[i].embedding)
             e == engine["evolve"] chain == evolved.chain t == Offer(e)
  <1> SUFFICES ASSUME evolved.chain # <<>>, \A i \in DOMAIN nodes : ~Below(similar(i), Zero)
               PROVE  \E i \in DOMAIN nodes :
                        /\ evolved.chain[1] = nodes[i]
                        /\ \A j \in DOMAIN nodes : ~Below(similar(i), similar(j))
                        /\ \A j \in 1 .. i - 1 : Below(similar(j), similar(i))
    BY DEF StartsAtMostSimilar
  <1>1. phase # "idle"
    BY DEF ChainInv, Nothing
  <1>2. /\ nodes \in Seq(StoredNode) /\ e \in Engines /\ query \in Vector
        /\ StartsBest(e, chain)
    BY <1>1 DEF ChainInv, GoodRun, Sound, Calls
  <1>3. Fitting(nodes) /\ DOMAIN nodes = 1 .. Len(nodes) /\ Len(nodes) \in Nat
        /\ \A i \in DOMAIN nodes : nodes[i].embedding \in Vector
    BY <1>2, SeqFits DEF Fitting
  <1>4. \A i \in DOMAIN nodes : /\ Similar(query, i) = similar(i) /\ similar(i) \in Fraction /\ similar(i).num >= 0
                                /\ Gate(nodes[i], <<>>) = Times(similar(i), similar(i))
    <2> SUFFICES ASSUME NEW i \in DOMAIN nodes
                 PROVE  /\ Similar(query, i) = similar(i) /\ similar(i) \in Fraction /\ similar(i).num >= 0
                        /\ Gate(nodes[i], <<>>) = Times(similar(i), similar(i))
      OBVIOUS
    <2>1. similar(i) \in Fraction /\ similar(i) = cosine_similarity(nodes[i].embedding, query)
      BY <1>2, <1>3, CosineFraction
    <2>2. similar(i).num >= 0
      BY <2>1 DEF Below, Zero, Fraction
    <2> QED
      BY <1>2, <1>3, <2>1, <2>2, FirstGate DEF Similar
  <1> DEFINE K == Kept({}) c == Cardinality(K) place == Place(query, {})
  <1>5. K = DOMAIN nodes
    BY DEF Kept
  <1>6. /\ c \in Nat /\ place \in [1 .. c -> K]
        /\ \A i \in K : \E k \in 1 .. c : place[k] = i
        /\ \A k, l \in 1 .. c : k < l => Sooner(query, place[k], place[l])
    BY <1>2, <1>3, Ranked
  <1>7. PICK b \in 1 .. Len(t) :
          /\ chain[1] = t[b]
          /\ \A j \in 1 .. Len(t) : j < b => Below(Gate(t[j], <<>>), Gate(t[b], <<>>))
    BY <1>2 DEF StartsBest
  <1>8. /\ Len(t) \in Nat /\ Len(t) <= c
        /\ \A i \in 1 .. Len(t) : t[i] = nodes[place[i]]
    <2>1. t = <<>> \/ t = top_k(query, e.top_k, {})
      BY DEF Offer, Candidates
    <2>2. CASE t = <<>>
      BY <1>7, <2>2
    <2>3. CASE t = top_k(query, e.top_k, {})
      <3>1. PICK k \in Nat : k = e.top_k
        BY <1>2, EngineBeta
      <3>2. /\ Len(top_k(query, k, {})) \in Nat /\ Len(top_k(query, k, {})) <= c
            /\ \A i \in 1 .. Len(top_k(query, k, {})) : top_k(query, k, {})[i] = nodes[place[i]]
        <4>1. TakesFirst(top_k(query, k, {}), query, {})
          BY <1>2, <1>3, TopKPlaces
        <4> QED
          BY <4>1 DEF TakesFirst
      <3> QED
        BY <2>3, <3>1, <3>2
    <2> QED
      BY <2>1, <2>2, <2>3
  <1> HIDE DEF K, c, place, t, similar
  <1>9. b \in 1 .. c /\ 1 \in 1 .. c /\ 1 \in 1 .. Len(t) /\ b \in Nat
    BY <1>6, <1>8
  <1>10. b = 1
    <2> SUFFICES ASSUME 1 < b PROVE FALSE
      BY <1>9
    <2>1. Below(Gate(t[1], <<>>), Gate(t[b], <<>>))
      BY <1>7, <1>9
    <2>2. PICK i \in DOMAIN nodes, j \in DOMAIN nodes : i = place[1] /\ j = place[b]
      BY <1>5, <1>6, <1>9
    <2>3. Below(Times(similar(i), similar(i)), Times(similar(j), similar(j)))
      BY <1>4, <1>8, <1>9, <2>1, <2>2
    <2>4. Below(similar(i), similar(j))
      BY <1>4, <2>3, SquaresCompare
    <2>5. Sooner(query, i, j)
      BY <1>6, <1>9, <2>2
    <2> QED
      BY <1>4, <2>4, <2>5, BelowOneWay DEF Sooner
  <1>11. PICK i \in DOMAIN nodes : i = place[1]
    BY <1>5, <1>6, <1>9
  <1>12. evolved.chain[1] = nodes[i]
    BY <1>7, <1>8, <1>9, <1>10, <1>11
  <1>13. ASSUME NEW j \in DOMAIN nodes
         PROVE  ~Below(similar(i), similar(j)) /\ (j < i => Below(similar(j), similar(i)))
    <2>1. PICK k \in 1 .. c : place[k] = j
      BY <1>5, <1>6
    <2>2. CASE k = 1
      <3>1. i = j /\ i \in Nat
        BY <1>3, <1>11, <2>1, <2>2
      <3> QED
        BY <1>4, <3>1, BelowOneWay
    <2>3. CASE k # 1
      <3>1. Sooner(query, i, j)
        BY <1>6, <1>9, <1>11, <2>1, <2>3
      <3>2. i \in Nat /\ j \in Nat
        BY <1>3
      <3> QED
        BY <1>4, <3>1, <3>2, BelowOneWay DEF Sooner
    <2> QED
      BY <2>2, <2>3
  <1>14. \A j \in 1 .. i - 1 : j \in DOMAIN nodes /\ j < i
    BY <1>3
  <1> QED
    BY <1>12, <1>13, <1>14 DEF similar

\* Where no stored node points away from the query, evolve()'s chain starts with
\* the most similar one, the first stored of several.
THEOREM StartsAlwaysAtMostSimilar == DmceSpec => []StartsAtMostSimilar
  BY InitChain, NextChain, ChainInvStarts, PTL DEF DmceSpec

(***************************************************************************)
(* The two loops of DmceEngine.  What a run does next depends on the query *)
(* and the run alone: these are its functions, said of any query.          *)
(***************************************************************************)

GateFor(q, node, chain) ==
    Times(cosine_similarity(node.embedding, q),
          cosine_similarity(node.embedding, IF chain = <<>> THEN q ELSE Sum(chain)))

BestFor(q, pool, chain) ==
    CHOOSE i \in DOMAIN pool : \A j \in DOMAIN pool :
        /\ ~Below(GateFor(q, pool[i], chain), GateFor(q, pool[j], chain))
        /\ j < i => Below(GateFor(q, pool[j], chain), GateFor(q, pool[i], chain))

ScoreFor(q, run) == GateFor(q, run.pool[BestFor(q, run.pool, run.chain)], run.chain)

Advanced(q, run) ==
    LET best == BestFor(q, run.pool, run.chain)
    IN  [pool |-> SwapRemove(run.pool, best), chain |-> Append(run.chain, run.pool[best]),
         prev_score |-> <<ScoreFor(q, run)>>]

Cuts(q, e, run) == Truncates(e, run.prev_score, ScoreFor(q, run))

Stops(q, e, run) == ~More(e, run) \/ Cuts(q, e, run)

LEMMA GateIs == \A node, chain : Gate(node, chain) = GateFor(query, node, chain)
  BY DEF Gate, Centroid, GateFor

LEMMA BestIs == \A pool, chain : Best(pool, chain) = BestFor(query, pool, chain)
  BY GateIs DEF Best, BestFor

-----------------------------------------------------------------------------

Sequence(s) == \E S : s \in Seq(S)

Begins(s, t) == Len(s) <= Len(t) /\ \A k \in 1 .. Len(s) : s[k] = t[k]

IsRun(run) ==
    /\ run = [pool |-> run.pool, chain |-> run.chain, prev_score |-> run.prev_score]
    /\ Sequence(run.chain)

\* The runs of a loop that never stops, each with a chain one node longer.
Path(q, t, n) ==
    /\ \A i \in 0 .. n : IsRun(t[i]) /\ Len(t[i].chain) = i
    /\ \A i, j \in 0 .. n : j = i + 1 => t[j] = Advanced(q, t[i])
    /\ \A i, j \in 0 .. n : i <= j => Begins(t[i].chain, t[j].chain)

\* A loop that has come to the n-th of them, without a reason to stop before.
Passed(q, e, t, n) == \A i \in 0 .. n : i < n => ~Stops(q, e, t[i])

LEMMA BeginsIsPrefix ==
  ASSUME NEW s, NEW t, Sequence(s), Sequence(t), Begins(s, t)
  PROVE  IsPrefix(s, t)
  <1>1. Len(s) \in Nat /\ Len(t) \in Nat
    BY LenProperties DEF Sequence
  <1>2. SubSeq(s, 1, Len(s)) = SubSeq(t, 1, Len(s))
    BY <1>1 DEF Begins
  <1> QED
    BY <1>1, <1>2 DEF Begins, IsPrefix

LEMMA Extend ==
  ASSUME NEW s, Sequence(s), NEW v
  PROVE  /\ Sequence(Append(s, v)) /\ Len(s) \in Nat
         /\ Len(Append(s, v)) = Len(s) + 1
         /\ Begins(s, Append(s, v))
  <1>1. PICK S : s \in Seq(S)
    BY DEF Sequence
  <1>2. s \in Seq(S \cup {v}) /\ v \in S \cup {v}
    <2>1. Len(s) \in Nat /\ s \in [1 .. Len(s) -> S]
      BY <1>1, LenProperties
    <2>2. s \in [1 .. Len(s) -> S \cup {v}]
      BY <2>1
    <2> QED
      BY <2>1, <2>2, SeqDef
  <1>3. /\ Append(s, v) \in Seq(S \cup {v}) /\ Len(s) \in Nat
        /\ Len(Append(s, v)) = Len(s) + 1
        /\ \A i \in 1 .. Len(s) : Append(s, v)[i] = s[i]
    BY <1>2, AppendProperties, LenProperties
  <1> QED
    BY <1>3 DEF Sequence, Begins

LEMMA AdvancedRun ==
  ASSUME NEW q, NEW run, IsRun(run)
  PROVE  /\ IsRun(Advanced(q, run)) /\ Len(run.chain) \in Nat
         /\ Len(Advanced(q, run).chain) = Len(run.chain) + 1
         /\ Begins(run.chain, Advanced(q, run).chain)
  <1> DEFINE best == BestFor(q, run.pool, run.chain)
             chain == Append(run.chain, run.pool[best])
  <1>1. Advanced(q, run) = [pool |-> SwapRemove(run.pool, best), chain |-> chain,
                            prev_score |-> <<ScoreFor(q, run)>>]
    BY DEF Advanced
  <1>2. /\ Sequence(chain) /\ Len(run.chain) \in Nat
        /\ Len(chain) = Len(run.chain) + 1 /\ Begins(run.chain, chain)
    BY Extend DEF IsRun
  <1> HIDE DEF best, chain
  <1> QED
    BY <1>1, <1>2 DEF IsRun

\* One more run, whether or not the loop would stop.
LEMMA PathGrows ==
  ASSUME NEW q, NEW t, NEW n \in Nat, Path(q, t, n)
  PROVE  \E u : Path(q, u, n + 1) /\ \A i \in 0 .. n : u[i] = t[i]
  <1> DEFINE next == Advanced(q, t[n])
             u == [i \in 0 .. n + 1 |-> IF i = n + 1 THEN next ELSE t[i]]
  <1>1. IsRun(next) /\ Len(next.chain) = n + 1 /\ Begins(t[n].chain, next.chain)
    BY AdvancedRun DEF Path
  <1>2. /\ \A i \in 0 .. n : u[i] = t[i] /\ i \in 0 .. n + 1
        /\ u[n + 1] = next
        /\ \A i \in 0 .. n + 1 : i \in 0 .. n \/ i = n + 1
    OBVIOUS
  <1> HIDE DEF u
  <1>3. \A i \in 0 .. n + 1 : IsRun(u[i]) /\ Len(u[i].chain) = i
    BY <1>1, <1>2 DEF Path
  <1>4. \A i, j \in 0 .. n + 1 : j = i + 1 => u[j] = Advanced(q, u[i])
    BY <1>2 DEF Path
  <1>5. \A i \in 0 .. n : Begins(t[i].chain, next.chain)
    <2> SUFFICES ASSUME NEW i \in 0 .. n PROVE Begins(t[i].chain, next.chain)
      OBVIOUS
    <2>1. Begins(t[i].chain, t[n].chain) /\ Len(t[i].chain) = i /\ Len(t[n].chain) = n
      BY DEF Path
    <2> QED
      BY <1>1, <2>1 DEF Begins
  <1>6. Begins(next.chain, next.chain)
    BY <1>1 DEF Begins
  <1>7. \A i, j \in 0 .. n + 1 : i <= j => Begins(u[i].chain, u[j].chain)
    BY <1>1, <1>2, <1>5, <1>6 DEF Path
  <1> QED
    BY <1>2, <1>3, <1>4, <1>7 DEF Path

LEMMA OneMore ==
  ASSUME NEW q, NEW e, NEW t, NEW l \in Nat, NEW n \in 0 .. l,
         Path(q, t, l), Passed(q, e, t, n), ~Stops(q, e, t[n])
  PROVE  \E u : \E m \in Nat :
           /\ Path(q, u, m) /\ n + 1 <= m /\ l <= m
           /\ \A i \in 0 .. l : u[i] = t[i]
           /\ u[n + 1] = Advanced(q, t[n]) /\ Passed(q, e, u, n + 1)
  <1>1. PICK u : Path(q, u, l + 1) /\ \A i \in 0 .. l : u[i] = t[i]
    BY PathGrows
  <1>2. u[n + 1] = Advanced(q, t[n])
    BY <1>1 DEF Path
  <1>3. Passed(q, e, u, n + 1)
    <2> SUFFICES ASSUME NEW i \in 0 .. n PROVE ~Stops(q, e, u[i])
      BY DEF Passed
    <2>1. u[i] = t[i] /\ (i < n \/ i = n)
      BY <1>1
    <2> QED
      BY <2>1 DEF Passed
  <1> QED
    BY <1>1, <1>2, <1>3

-----------------------------------------------------------------------------

\* Where both loops start, when they retrieve as many candidates.
LEMMA SameStart ==
  ASSUME NEW e, NEW d, e.top_k = d.top_k
  PROVE  FirstRun(e) = FirstRun(d)
  BY DEF FirstRun, Offer, Candidates

LEMMA StartStays ==
  ASSUME UNCHANGED <<nodes, query>>, NEW e
  PROVE  FirstRun(e)' = FirstRun(e)
  BY DEF FirstRun, Offer, Candidates, top_k

Together(t, l) == t[0] = FirstRun(engine["evolve"]) /\ Path(query, t, l)

LEMMA TogetherStays ==
  ASSUME UNCHANGED <<nodes, query, engine>>, NEW t, NEW l, Together(t, l)
  PROVE  Together(t, l)'
  <1>1. PICK e : e = engine["evolve"]
    OBVIOUS
  <1>2. FirstRun(e)' = FirstRun(e) /\ engine' = engine
    BY StartStays
  <1>3. FirstRun(engine["evolve"])' = FirstRun(engine["evolve"])
    BY <1>1, <1>2
  <1> QED
    BY <1>3 DEF Together

\* evolve() has come to the n-th run of the path.
EvolvedOn(t, n) ==
    /\ Passed(query, engine["evolve"], t, n)
    /\ evolved = t[n]
    /\ phase # "evolving" => Stops(query, engine["evolve"], t[n])

ReportedOn(t, n) ==
    /\ Passed(query, engine["diagnostics"], t, n)
    /\ [pool |-> result.pool, chain |-> result.chain, prev_score |-> result.prev_score] = t[n]
    /\ phase = "reported" => Stops(query, engine["diagnostics"], t[n])

SameLimit == engine["diagnostics"].top_k = engine["evolve"].top_k

IsReport(r) ==
    r = [pool |-> r.pool, chain |-> r.chain, prev_score |-> r.prev_score,
         steps_executed |-> r.steps_executed, apt_triggered |-> r.apt_triggered,
         step_scores |-> r.step_scores]

Told(chain, steps, apt, scores) ==
    /\ Sequence(chain) /\ Sequence(scores)
    /\ steps = Len(scores)
    /\ \/ apt = TRUE /\ steps = Len(chain) + 1
       \/ apt = FALSE /\ steps = Len(chain)

Telemetry ==
    /\ IsReport(result)
    /\ Told(result.chain, result.steps_executed, result.apt_triggered, result.step_scores)
    /\ phase = "reporting" => result.apt_triggered = FALSE

LoopsInv ==
    /\ phase \in {"idle", "evolving", "evolved", "reporting", "reported"}
    /\ phase \in {"evolving", "evolved"} =>
          \E t : \E n \in Nat :
             t[0] = FirstRun(engine["evolve"]) /\ Path(query, t, n) /\ EvolvedOn(t, n)
    /\ phase \in {"reporting", "reported"} =>
          /\ Telemetry
          /\ SameLimit => \E t : \E l \in Nat : \E m, n \in 0 .. l :
                             Together(t, l) /\ EvolvedOn(t, m) /\ ReportedOn(t, n)

LEMMA EvolveLoops ==
  ASSUME LoopsInv, Evolve
  PROVE  LoopsInv'
  <1>1. PICK q \in Queries, f \in [Calls -> Engines] :
          query' = q /\ engine' = f /\ evolved' = [Nothing EXCEPT !.pool = Candidates(q, f["evolve"])]
    BY DEF Evolve
  <1>2. phase' = "evolving" /\ nodes' = nodes
    BY DEF Evolve
  <1>3. PICK start : start = FirstRun(engine["evolve"])'
    OBVIOUS
  <1> DEFINE t == [i \in {0} |-> start]
  <1>4. t[0] = start
    OBVIOUS
  <1>5. start = [pool |-> Candidates(query, engine["evolve"])', chain |-> <<>>, prev_score |-> <<>>]
    BY <1>3 DEF FirstRun, Offer
  <1>6. Candidates(query, engine["evolve"])' = Candidates(q, f["evolve"])
    BY <1>1, <1>2 DEF Candidates, top_k
  <1>7. evolved' = start
    BY <1>1, <1>5, <1>6 DEF Nothing
  <1> HIDE DEF t
  <1>8. IsRun(start) /\ Len(start.chain) = 0 /\ Begins(start.chain, start.chain)
    <2>1. <<>> \in Seq({}) /\ Len(<<>>) = 0
      OBVIOUS
    <2>2. start = [pool |-> start.pool, chain |-> start.chain, prev_score |-> start.prev_score]
          /\ start.chain = <<>>
      BY <1>5
    <2> QED
      BY <2>1, <2>2 DEF IsRun, Sequence, Begins
  <1>9. Path(query', t, 0)
    BY <1>4, <1>8 DEF Path
  <1>10. Passed(query', engine'["evolve"], t, 0)
    BY DEF Passed
  <1>11. EvolvedOn(t, 0)'
    BY <1>2, <1>4, <1>7, <1>10 DEF EvolvedOn
  <1>12. t[0] = FirstRun(engine["evolve"])'
    BY <1>3, <1>4
  <1> QED
    BY <1>2, <1>9, <1>11, <1>12 DEF LoopsInv

LEMMA EvolveStepLoops ==
  ASSUME LoopsInv, EvolveStep
  PROVE  LoopsInv'
  <1> DEFINE e == engine["evolve"]
  <1>1. phase = "evolving" /\ More(e, evolved) /\ UNCHANGED <<nodes, query, engine, result>>
    BY DEF EvolveStep
  <1>2. PICK t : \E n \in Nat :
          t[0] = FirstRun(e) /\ Path(query, t, n) /\ EvolvedOn(t, n)
    BY <1>1 DEF LoopsInv
  <1>3. PICK n \in Nat : t[0] = FirstRun(e) /\ Path(query, t, n) /\ EvolvedOn(t, n)
    BY <1>2
  <1>4. IsRun(evolved) /\ evolved = t[n] /\ Passed(query, e, t, n)
    BY <1>3 DEF EvolvedOn, Path
  <1>5. FirstRun(e)' = FirstRun(e)
    <2>1. PICK d : d = engine["evolve"]
      OBVIOUS
    <2>2. FirstRun(d)' = FirstRun(d) /\ engine' = engine
      BY <1>1, StartStays
    <2> QED
      BY <2>1, <2>2
  <1> DEFINE best  == Best(evolved.pool, evolved.chain)
             score == Gate(evolved.pool[best], evolved.chain)
  <1>6. score = ScoreFor(query, evolved) /\ best = BestFor(query, evolved.pool, evolved.chain)
    BY GateIs, BestIs DEF ScoreFor
  <1>7. IF Truncates(e, evolved.prev_score, score)
        THEN phase' = "evolved" /\ UNCHANGED evolved
        ELSE evolved' = Accept(evolved, best, score) /\ UNCHANGED phase
    BY DEF EvolveStep
  <1> HIDE DEF best, score, e
  <1>8. CASE Truncates(e, evolved.prev_score, score)
    <2>1. phase' = "evolved" /\ evolved' = evolved
      BY <1>7, <1>8
    <2>2. Stops(query, e, evolved)
      BY <1>6, <1>8 DEF Stops, Cuts
    <2>3. EvolvedOn(t, n)'
      BY <1>1, <1>4, <2>1, <2>2 DEF EvolvedOn, e
    <2> QED
      BY <1>1, <1>3, <1>5, <2>1, <2>3 DEF LoopsInv, e
  <1>9. CASE ~Truncates(e, evolved.prev_score, score)
    <2>1. phase' = "evolving" /\ evolved' = Accept(evolved, best, score)
      BY <1>1, <1>7, <1>9
    <2>2. evolved' = Advanced(query, evolved)
      BY <1>4, <1>6, <2>1 DEF Accept, Advanced, IsRun
    <2>3. ~Stops(query, e, evolved)
      BY <1>1, <1>6, <1>9 DEF Stops, Cuts, e
    <2>4. PICK u : \E m \in Nat :
            /\ Path(query, u, m) /\ n + 1 <= m
            /\ \A i \in 0 .. n : u[i] = t[i]
            /\ u[n + 1] = Advanced(query, t[n]) /\ Passed(query, e, u, n + 1)
      BY <1>3, <1>4, <2>3, OneMore
    <2>5. Path(query, u, n + 1)
      BY <2>4 DEF Path
    <2>6. EvolvedOn(u, n + 1)'
      BY <1>1, <1>4, <2>1, <2>2, <2>4 DEF EvolvedOn, e
    <2>7. u[0] = FirstRun(e)'
      BY <1>3, <1>5, <2>4
    <2> QED
      BY <1>1, <2>1, <2>5, <2>6, <2>7 DEF LoopsInv, e
  <1> QED
    BY <1>8, <1>9

LEMMA EvolveEndsLoops ==
  ASSUME LoopsInv, EvolveEnds
  PROVE  LoopsInv'
  <1>1. /\ phase = "evolving" /\ phase' = "evolved" /\ ~More(engine["evolve"], evolved)
        /\ UNCHANGED <<nodes, query, engine, evolved, result>>
    BY DEF EvolveEnds
  <1>2. PICK t : \E n \in Nat :
          t[0] = FirstRun(engine["evolve"]) /\ Path(query, t, n) /\ EvolvedOn(t, n)
    BY <1>1 DEF LoopsInv
  <1>3. PICK n \in Nat :
          t[0] = FirstRun(engine["evolve"]) /\ Path(query, t, n) /\ EvolvedOn(t, n)
    BY <1>2
  <1>4. Stops(query, engine["evolve"], t[n])
    BY <1>1, <1>3 DEF EvolvedOn, Stops
  <1>5. EvolvedOn(t, n)'
    BY <1>1, <1>3, <1>4 DEF EvolvedOn
  <1>6. t[0] = FirstRun(engine["evolve"])'
    <2>1. Together(t, n)
      BY <1>3 DEF Together
    <2> QED
      BY <1>1, <2>1, TogetherStays DEF Together
  <1> QED
    BY <1>1, <1>3, <1>5, <1>6 DEF LoopsInv

\* The second loop starts where the first one did.
LEMMA ReportLoops ==
  ASSUME LoopsInv, Report
  PROVE  LoopsInv'
  <1>1. /\ phase = "evolved" /\ phase' = "reporting"
        /\ UNCHANGED <<nodes, query, engine, evolved>>
        /\ result' = [NoReport EXCEPT !.pool = Candidates(query, engine["diagnostics"])]
    BY DEF Report
  <1>2. PICK t : \E n \in Nat :
          t[0] = FirstRun(engine["evolve"]) /\ Path(query, t, n) /\ EvolvedOn(t, n)
    BY <1>1 DEF LoopsInv
  <1>3. PICK n \in Nat :
          t[0] = FirstRun(engine["evolve"]) /\ Path(query, t, n) /\ EvolvedOn(t, n)
    BY <1>2
  <1>4. result' = [pool |-> Offer(engine["diagnostics"]), chain |-> <<>>,
                   prev_score |-> <<>>, steps_executed |-> 0, apt_triggered |-> FALSE,
                   step_scores |-> <<>>]
    BY <1>1 DEF NoReport, Offer
  <1>5. Telemetry'
    <2>1. <<>> \in Seq({}) /\ Len(<<>>) = 0
      OBVIOUS
    <2>2. Told(<<>>, 0, FALSE, <<>>)
      BY <2>1 DEF Told, Sequence
    <2>3. IsReport(result')
      BY <1>4 DEF IsReport
    <2>4. Told(result'.chain, result'.steps_executed, result'.apt_triggered, result'.step_scores)
      BY <1>4, <2>2
    <2>5. result'.apt_triggered = FALSE
      BY <1>4
    <2> QED
      BY <2>3, <2>4, <2>5 DEF Telemetry
  <1>6. EvolvedOn(t, n)'
    BY <1>1, <1>3 DEF EvolvedOn
  <1>7. ASSUME SameLimit' PROVE ReportedOn(t, 0)'
    <2>1. engine["diagnostics"].top_k = engine["evolve"].top_k
      BY <1>1, <1>7 DEF SameLimit
    <2>2. t[0] = [pool |-> Offer(engine["diagnostics"]), chain |-> <<>>, prev_score |-> <<>>]
      BY <1>3, <2>1, SameStart DEF FirstRun
    <2>3. Passed(query, engine["diagnostics"], t, 0)
      BY DEF Passed
    <2> QED
      BY <1>1, <1>4, <2>2, <2>3 DEF ReportedOn
  <1>8. 0 \in 0 .. n /\ n \in 0 .. n
    OBVIOUS
  <1>9. Together(t, n)'
    BY <1>1, <1>3, TogetherStays DEF Together
  <1> QED
    BY <1>1, <1>5, <1>6, <1>7, <1>8, <1>9 DEF LoopsInv

LEMMA CountedIs ==
  ASSUME NEW r, IsReport(r), r.apt_triggered = FALSE, NEW steps, NEW scores
  PROVE  [r EXCEPT !.steps_executed = steps, !.step_scores = scores]
         = [pool |-> r.pool, chain |-> r.chain, prev_score |-> r.prev_score,
            steps_executed |-> steps, apt_triggered |-> FALSE, step_scores |-> scores]
  <1> SUFFICES ASSUME NEW a, NEW b, NEW c, NEW g, NEW h, NEW i,
                      r = [pool |-> a, chain |-> b, prev_score |-> c,
                           steps_executed |-> g, apt_triggered |-> h, step_scores |-> i],
                      h = FALSE
               PROVE  [r EXCEPT !.steps_executed = steps, !.step_scores = scores]
                      = [pool |-> a, chain |-> b, prev_score |-> c,
                         steps_executed |-> steps, apt_triggered |-> h, step_scores |-> scores]
    BY DEF IsReport
  <1>1. [r EXCEPT !.steps_executed = steps]
        = [pool |-> a, chain |-> b, prev_score |-> c,
           steps_executed |-> steps, apt_triggered |-> h, step_scores |-> i]
    OBVIOUS
  <1>2. [[pool |-> a, chain |-> b, prev_score |-> c, steps_executed |-> steps,
           apt_triggered |-> h, step_scores |-> i] EXCEPT !.step_scores = scores]
        = [pool |-> a, chain |-> b, prev_score |-> c,
           steps_executed |-> steps, apt_triggered |-> h, step_scores |-> scores]
    OBVIOUS
  <1> QED
    BY <1>1, <1>2, Zenon

LEMMA ReportStepLoops ==
  ASSUME LoopsInv, ReportStep
  PROVE  LoopsInv'
  <1> DEFINE d       == engine["diagnostics"]
             best    == Best(result.pool, result.chain)
             score   == Gate(result.pool[best], result.chain)
             counted == [result EXCEPT !.steps_executed = Len(result.chain) + 1,
                                       !.step_scores = Append(result.step_scores, score)]
  <1>1. phase = "reporting" /\ More(d, result) /\ UNCHANGED <<nodes, query, engine, evolved>>
    BY DEF ReportStep
  <1>2. IF Truncates(d, result.prev_score, score)
        THEN phase' = "reported" /\ result' = [counted EXCEPT !.apt_triggered = TRUE]
        ELSE result' = Accept(counted, best, score) /\ UNCHANGED phase
    BY DEF ReportStep
  <1>3. Telemetry /\ result.apt_triggered = FALSE
    BY <1>1 DEF LoopsInv, Telemetry
  <1>4. score = ScoreFor(query, result) /\ best = BestFor(query, result.pool, result.chain)
    BY GateIs, BestIs DEF ScoreFor
  <1> HIDE DEF best, score, d
  <1>5. counted = [pool |-> result.pool, chain |-> result.chain, prev_score |-> result.prev_score,
                   steps_executed |-> Len(result.chain) + 1, apt_triggered |-> FALSE,
                   step_scores |-> Append(result.step_scores, score)]
    <2>1. IsReport(result)
      BY <1>3 DEF Telemetry
    <2> QED
      BY <1>3, <2>1, CountedIs
  <1>6. /\ Sequence(Append(result.step_scores, score)) /\ Len(result.chain) \in Nat
        /\ Len(Append(result.step_scores, score)) = Len(result.chain) + 1
        /\ Sequence(result.chain)
    <2>1. Told(result.chain, result.steps_executed, FALSE, result.step_scores)
      BY <1>3 DEF Telemetry
    <2>2. /\ Sequence(result.chain) /\ Sequence(result.step_scores)
          /\ Len(result.step_scores) = Len(result.chain)
      BY <2>1 DEF Told
    <2> QED
      BY <2>2, Extend
  <1> HIDE DEF counted
  <1> DEFINE run == [pool |-> result.pool, chain |-> result.chain, prev_score |-> result.prev_score]
  <1>7. ScoreFor(query, run) = score /\ BestFor(query, run.pool, run.chain) = best
        /\ (More(d, run) <=> More(d, result))
    BY <1>4 DEF ScoreFor, More
  <1>8. CASE Truncates(d, result.prev_score, score)
    <2>1. phase' = "reported" /\ result' = [counted EXCEPT !.apt_triggered = TRUE]
      BY <1>2, <1>8
    <2>2. result' = [pool |-> result.pool, chain |-> result.chain, prev_score |-> result.prev_score,
                     steps_executed |-> Len(result.chain) + 1, apt_triggered |-> TRUE,
                     step_scores |-> Append(result.step_scores, score)]
      BY <1>5, <2>1
    <2>3. Telemetry'
      <3>1. Told(result.chain, Len(result.chain) + 1, TRUE, Append(result.step_scores, score))
        BY <1>6 DEF Told
      <3>2. IsReport(result')
        BY <2>2 DEF IsReport
      <3>3. Told(result'.chain, result'.steps_executed, result'.apt_triggered, result'.step_scores)
        BY <2>2, <3>1
      <3> QED
        BY <2>1, <3>2, <3>3 DEF Telemetry
    <2>4. Stops(query, d, run)
      BY <1>7, <1>8 DEF Stops, Cuts
    <2>5. ASSUME SameLimit'
          PROVE  \E t : \E l \in Nat : \E m, n \in 0 .. l :
                   Together(t, l)' /\ EvolvedOn(t, m)' /\ ReportedOn(t, n)'
      <3>1. PICK t : \E l \in Nat : \E m, n \in 0 .. l :
              Together(t, l) /\ EvolvedOn(t, m) /\ ReportedOn(t, n)
        BY <1>1, <2>5 DEF LoopsInv, SameLimit
      <3>0. PICK l \in Nat : \E m, n \in 0 .. l :
              Together(t, l) /\ EvolvedOn(t, m) /\ ReportedOn(t, n)
        BY <3>1
      <3>2. PICK m \in 0 .. l, n \in 0 .. l :
              Together(t, l) /\ EvolvedOn(t, m) /\ ReportedOn(t, n)
        BY <3>0
      <3>3. EvolvedOn(t, m)'
        BY <1>1, <2>1, <3>2 DEF EvolvedOn
      <3>4. run = t[n] /\ Passed(query, d, t, n)
        BY <3>2 DEF ReportedOn, d
      <3>5. ReportedOn(t, n)'
        BY <1>1, <2>2, <2>4, <3>4 DEF ReportedOn, d
      <3>6. Together(t, l)'
        BY <1>1, <3>2, TogetherStays
      <3> QED
        BY <3>2, <3>3, <3>5, <3>6
    <2> QED
      BY <2>1, <2>3, <2>5 DEF LoopsInv
  <1>9. CASE ~Truncates(d, result.prev_score, score)
    <2>1. phase' = "reporting" /\ result' = Accept(counted, best, score)
      BY <1>1, <1>2, <1>9
    <2>2. result' = [pool |-> SwapRemove(result.pool, best),
                     chain |-> Append(result.chain, result.pool[best]),
                     prev_score |-> <<score>>,
                     steps_executed |-> Len(result.chain) + 1, apt_triggered |-> FALSE,
                     step_scores |-> Append(result.step_scores, score)]
      BY <1>5, <2>1 DEF Accept
    <2>3. Telemetry'
      <3>1. /\ Sequence(Append(result.chain, result.pool[best]))
            /\ Len(Append(result.chain, result.pool[best])) = Len(result.chain) + 1
        BY <1>6, Extend
      <3>2. Told(Append(result.chain, result.pool[best]), Len(result.chain) + 1, FALSE,
                 Append(result.step_scores, score))
        BY <1>6, <3>1 DEF Told
      <3>3. IsReport(result')
        BY <2>2 DEF IsReport
      <3>4. /\ Told(result'.chain, result'.steps_executed, result'.apt_triggered, result'.step_scores)
            /\ result'.apt_triggered = FALSE
        BY <2>2, <3>2
      <3> QED
        BY <3>3, <3>4 DEF Telemetry
    <2>4. Advanced(query, run) = [pool |-> result'.pool, chain |-> result'.chain,
                                  prev_score |-> result'.prev_score]
      BY <1>7, <2>2 DEF Advanced
    <2>5. ~Stops(query, d, run)
      BY <1>1, <1>7, <1>9 DEF Stops, Cuts
    <2>6. ASSUME SameLimit'
          PROVE  \E t : \E l \in Nat : \E m, n \in 0 .. l :
                   Together(t, l)' /\ EvolvedOn(t, m)' /\ ReportedOn(t, n)'
      <3>1. PICK t : \E l \in Nat : \E m, n \in 0 .. l :
              Together(t, l) /\ EvolvedOn(t, m) /\ ReportedOn(t, n)
        BY <1>1, <2>6 DEF LoopsInv, SameLimit
      <3>0. PICK l \in Nat : \E m, n \in 0 .. l :
              Together(t, l) /\ EvolvedOn(t, m) /\ ReportedOn(t, n)
        BY <3>1
      <3>2. PICK m \in 0 .. l, n \in 0 .. l :
              Together(t, l) /\ EvolvedOn(t, m) /\ ReportedOn(t, n)
        BY <3>0
      <3>3. run = t[n] /\ Passed(query, d, t, n)
        BY <3>2 DEF ReportedOn, d
      <3>4. PICK u : \E k \in Nat :
              /\ Path(query, u, k) /\ n + 1 <= k /\ l <= k
              /\ \A i \in 0 .. l : u[i] = t[i]
              /\ u[n + 1] = Advanced(query, t[n]) /\ Passed(query, d, u, n + 1)
        BY <2>5, <3>2, <3>3, OneMore DEF Together
      <3>5. PICK k \in Nat :
              /\ Path(query, u, k) /\ n + 1 <= k /\ l <= k
              /\ \A i \in 0 .. l : u[i] = t[i]
              /\ u[n + 1] = Advanced(query, t[n]) /\ Passed(query, d, u, n + 1)
        BY <3>4
      <3>6. u[m] = t[m] /\ Passed(query, engine["evolve"], u, m)
        BY <3>2, <3>5 DEF EvolvedOn, Passed
      <3>7. EvolvedOn(u, m)'
        BY <1>1, <2>1, <3>2, <3>6 DEF EvolvedOn
      <3>8. ReportedOn(u, n + 1)'
        BY <1>1, <2>1, <2>4, <3>3, <3>5 DEF ReportedOn, d
      <3>9. n + 1 \in 0 .. k /\ m \in 0 .. k
        BY <3>5
      <3>10. Together(u, k)
        BY <3>2, <3>5 DEF Together
      <3>11. Together(u, k)'
        BY <1>1, <3>10, TogetherStays
      <3> QED
        BY <3>7, <3>8, <3>9, <3>11
    <2> QED
      BY <2>1, <2>3, <2>6 DEF LoopsInv
  <1> QED
    BY <1>8, <1>9

LEMMA ReportEndsLoops ==
  ASSUME LoopsInv, ReportEnds
  PROVE  LoopsInv'
  <1> DEFINE d   == engine["diagnostics"]
             run == [pool |-> result.pool, chain |-> result.chain, prev_score |-> result.prev_score]
  <1>1. /\ phase = "reporting" /\ phase' = "reported" /\ ~More(d, result)
        /\ UNCHANGED <<nodes, query, engine, evolved, result>>
    BY DEF ReportEnds
  <1>2. Telemetry'
    BY <1>1 DEF LoopsInv, Telemetry
  <1>3. Stops(query, d, run)
    BY <1>1 DEF Stops, More
  <1>4. ASSUME SameLimit'
        PROVE  \E t : \E l \in Nat : \E m, n \in 0 .. l :
                 Together(t, l)' /\ EvolvedOn(t, m)' /\ ReportedOn(t, n)'
    <2>1. PICK t : \E l \in Nat : \E m, n \in 0 .. l :
            Together(t, l) /\ EvolvedOn(t, m) /\ ReportedOn(t, n)
      BY <1>1, <1>4 DEF LoopsInv, SameLimit
    <2>2. PICK l \in Nat : \E m, n \in 0 .. l :
            Together(t, l) /\ EvolvedOn(t, m) /\ ReportedOn(t, n)
      BY <2>1
    <2>3. PICK m \in 0 .. l, n \in 0 .. l :
            Together(t, l) /\ EvolvedOn(t, m) /\ ReportedOn(t, n)
      BY <2>2
    <2>4. EvolvedOn(t, m)' /\ ReportedOn(t, n)'
      BY <1>1, <1>3, <2>3 DEF EvolvedOn, ReportedOn
    <2>5. Together(t, l)'
      BY <1>1, <2>3, TogetherStays
    <2> QED
      BY <2>3, <2>4, <2>5
  <1> QED
    BY <1>1, <1>2, <1>4 DEF LoopsInv

LEMMA IdleLoops ==
  ASSUME LoopsInv, UNCHANGED dmceVars
  PROVE  LoopsInv'
  <1>1. UNCHANGED <<nodes, query, engine>> /\ UNCHANGED <<phase, evolved, result>>
    BY DEF dmceVars
  <1>2. \A t, l : Together(t, l) => Together(t, l)'
    BY <1>1, TogetherStays
  <1>3. ASSUME phase \in {"evolving", "evolved"}
        PROVE  \E t : \E n \in Nat :
                 t[0] = FirstRun(engine["evolve"])' /\ Path(query, t, n)' /\ EvolvedOn(t, n)'
    <2>1. PICK t : \E n \in Nat :
            t[0] = FirstRun(engine["evolve"]) /\ Path(query, t, n) /\ EvolvedOn(t, n)
      BY <1>3 DEF LoopsInv
    <2>2. PICK n \in Nat :
            t[0] = FirstRun(engine["evolve"]) /\ Path(query, t, n) /\ EvolvedOn(t, n)
      BY <2>1
    <2>3. Together(t, n)' /\ EvolvedOn(t, n)'
      BY <1>1, <1>2, <2>2 DEF Together, EvolvedOn
    <2> QED
      BY <2>3 DEF Together
  <1>4. ASSUME phase \in {"reporting", "reported"}, SameLimit
        PROVE  \E t : \E l \in Nat : \E m, n \in 0 .. l :
                 Together(t, l)' /\ EvolvedOn(t, m)' /\ ReportedOn(t, n)'
    <2>1. PICK t : \E l \in Nat : \E m, n \in 0 .. l :
            Together(t, l) /\ EvolvedOn(t, m) /\ ReportedOn(t, n)
      BY <1>4 DEF LoopsInv
    <2>2. PICK l \in Nat : \E m, n \in 0 .. l :
            Together(t, l) /\ EvolvedOn(t, m) /\ ReportedOn(t, n)
      BY <2>1
    <2>3. PICK m \in 0 .. l, n \in 0 .. l :
            Together(t, l) /\ EvolvedOn(t, m) /\ ReportedOn(t, n)
      BY <2>2
    <2>4. Together(t, l)' /\ EvolvedOn(t, m)' /\ ReportedOn(t, n)'
      BY <1>1, <1>2, <2>3 DEF EvolvedOn, ReportedOn
    <2> QED
      BY <2>4
  <1>5. Telemetry => Telemetry'
    BY <1>1 DEF Telemetry
  <1> QED
    BY <1>1, <1>3, <1>4, <1>5 DEF LoopsInv, SameLimit

\* Two loops of one path that have both stopped: the shorter chain begins the
\* longer, and loops that stop for the same reasons stop together.
LEMMA LoopsInvAgrees ==
  ASSUME LoopsInv
  PROVE  LoopsAgree
  <1> SUFFICES ASSUME phase = "reported" PROVE LoopsAgree
    BY DEF LoopsAgree
  <1> DEFINE e == engine["evolve"]
             d == engine["diagnostics"]
  <1>1. Told(result.chain, result.steps_executed, result.apt_triggered, result.step_scores)
    BY DEF LoopsInv, Telemetry
  <1>2. /\ result.steps_executed = Len(result.step_scores)
        /\ result.steps_executed = Len(result.chain) + (IF result.apt_triggered THEN 1 ELSE 0)
    <2>1. Len(result.chain) \in Nat
      BY <1>1, LenProperties DEF Told, Sequence
    <2>2. /\ result.steps_executed = Len(result.step_scores)
          /\ \/ result.apt_triggered = TRUE /\ result.steps_executed = Len(result.chain) + 1
             \/ result.apt_triggered = FALSE /\ result.steps_executed = Len(result.chain) + 0
      BY <1>1, <2>1 DEF Told
    <2> QED
      BY <2>2, Zenon
  <1>3. ASSUME e.top_k = d.top_k
        PROVE  /\ e = d => evolved.chain = result.chain
               /\ IsPrefix(evolved.chain, result.chain) \/ IsPrefix(result.chain, evolved.chain)
    <2>1. PICK t : \E l \in Nat : \E m, n \in 0 .. l :
            Together(t, l) /\ EvolvedOn(t, m) /\ ReportedOn(t, n)
      BY <1>3 DEF LoopsInv, SameLimit
    <2>2. PICK l \in Nat : \E m, n \in 0 .. l :
            Together(t, l) /\ EvolvedOn(t, m) /\ ReportedOn(t, n)
      BY <2>1
    <2>3. PICK m \in 0 .. l, n \in 0 .. l :
            Together(t, l) /\ EvolvedOn(t, m) /\ ReportedOn(t, n)
      BY <2>2
    <2>4. evolved.chain = t[m].chain /\ result.chain = t[n].chain
      BY <2>3 DEF EvolvedOn, ReportedOn
    <2>5. /\ Stops(query, e, t[m]) /\ \A i \in 0 .. m : i < m => ~Stops(query, e, t[i])
          /\ Stops(query, d, t[n]) /\ \A i \in 0 .. n : i < n => ~Stops(query, d, t[i])
      BY <2>3 DEF EvolvedOn, ReportedOn, Passed
    <2>6. ASSUME e = d PROVE m = n
      BY <2>5, <2>6
    <2>7. Sequence(t[m].chain) /\ Sequence(t[n].chain)
      BY <2>3 DEF Together, Path, IsRun
    <2>8. \/ Begins(t[m].chain, t[n].chain)
          \/ Begins(t[n].chain, t[m].chain)
      BY <2>3 DEF Together, Path
    <2> QED
      BY <2>4, <2>6, <2>7, <2>8, BeginsIsPrefix
  <1> QED
    BY <1>2, <1>3 DEF LoopsAgree

LEMMA InitLoops == DmceInit => LoopsInv
  BY DEF DmceInit, LoopsInv

LEMMA NextLoops ==
  ASSUME LoopsInv, [DmceNext]_dmceVars
  PROVE  LoopsInv'
  <1>1. CASE Fill
    BY <1>1 DEF Fill, LoopsInv
  <1>2. CASE Evolve
    BY <1>2, EvolveLoops
  <1>3. CASE EvolveStep
    BY <1>3, EvolveStepLoops
  <1>4. CASE EvolveEnds
    BY <1>4, EvolveEndsLoops
  <1>5. CASE Report
    BY <1>5, ReportLoops
  <1>6. CASE ReportStep
    BY <1>6, ReportStepLoops
  <1>7. CASE ReportEnds
    BY <1>7, ReportEndsLoops
  <1>8. CASE UNCHANGED dmceVars
    BY <1>8, IdleLoops
  <1> QED
    BY <1>1, <1>2, <1>3, <1>4, <1>5, <1>6, <1>7, <1>8 DEF DmceNext

\* The runs before the one at which evolve() stops are such as evolve() has.
LEMMA PathGood ==
  ASSUME ChainInv, phase # "idle", NEW e \in Engines, e = engine["evolve"],
         NEW t, NEW l \in Nat, Together(t, l), NEW m \in 0 .. l, Passed(query, e, t, m)
  PROVE  \A i \in Nat : i <= m => GoodRun(t[i])
  <1> DEFINE T == {i \in Nat : i <= m => GoodRun(t[i])}
  <1>1. 0 \in T
    <2>1. nodes \in Seq(StoredNode) /\ query \in Queries
      BY DEF ChainInv
    <2>2. GoodRun(FirstRun(e))
      BY <2>1, SoundStart DEF StartsSound
    <2> QED
      BY <2>2 DEF Together
  <1>2. \A i \in Nat : i \in T => i + 1 \in T
    <2> SUFFICES ASSUME NEW i \in Nat, i + 1 <= m, GoodRun(t[i])
                 PROVE  GoodRun(t[i + 1])
      OBVIOUS
    <2>1. i \in 0 .. m /\ i < m /\ i \in 0 .. l /\ i + 1 \in 0 .. l
      OBVIOUS
    <2>2. PICK run : run = t[i]
      OBVIOUS
    <2>3. ~Stops(query, e, run) /\ t[i + 1] = Advanced(query, run) /\ GoodRun(run)
      BY <2>1, <2>2 DEF Passed, Together, Path
    <2>4. PICK b, score : b = Best(run.pool, run.chain) /\ score = Gate(run.pool[b], run.chain)
      OBVIOUS
    <2>5. b = BestFor(query, run.pool, run.chain) /\ score = ScoreFor(query, run)
      BY <2>4, BestIs, GateIs DEF ScoreFor
    <2>6. run.pool # <<>> /\ ~Truncates(e, run.prev_score, score)
      BY <2>3, <2>5 DEF Stops, More, Cuts
    <2>7. GoodRun(Accept(run, b, score))
      BY <2>3, <2>4, <2>6, GoodStep
    <2>8. Accept(run, b, score) = Advanced(query, run)
      <3>1. Accept(run, b, score) = [pool |-> SwapRemove(run.pool, b), chain |-> Append(run.chain, run.pool[b]),
                                     prev_score |-> <<score>>]
        BY <2>3, AcceptIs DEF GoodRun
      <3> QED
        BY <2>5, <3>1 DEF Advanced
    <2> QED
      BY <2>3, <2>7, <2>8
  <1> HIDE DEF T
  <1>3. \A i \in Nat : i \in T
    BY <1>1, <1>2, Induction
  <1> QED
    BY <1>3 DEF T

LEMMA GreaterBetaCutsMore ==
  ASSUME NEW x \in Fraction, x.num >= 0, NEW c \in Fraction, NEW d \in Fraction, Below(c, d)
  PROVE  ~Below(Times(d, x), Times(c, x))
  <1> DEFINE a == x.num b == x.den p == c.num q == c.den r == d.num s == d.den
  <1>1. a \in Nat /\ b \in Nat \ {0} /\ p \in Int /\ q \in Nat \ {0} /\ r \in Int /\ s \in Nat \ {0}
    BY DEF Fraction
  <1>2. p * s < r * q
    BY <1>1 DEF Below
  <1>3. Below(Times(d, x), Times(c, x)) <=> (r * a) * (q * b) < (p * a) * (s * b)
    BY <1>1 DEF Below, Times
  <1> HIDE DEF a, b, p, q, r, s
  <1>4. (r * a) * (q * b) = (r * q) * (a * b) /\ (p * a) * (s * b) = (p * s) * (a * b)
    BY <1>1
  <1>5. \A u, v \in Int : \A w \in Nat : u < v => ~(v * w < u * w)
    OBVIOUS
  <1>6. a * b \in Nat /\ r * q \in Int /\ p * s \in Int
    BY <1>1
  <1>7. ~((r * q) * (a * b) < (p * s) * (a * b))
    BY <1>2, <1>5, <1>6
  <1> QED
    BY <1>3, <1>4, <1>7

\* The loop with the smaller beta does not stop where the other one goes on.
LEMMA InvsShorter ==
  ASSUME LoopsInv, ChainInv
  PROVE  GreaterBetaNotLonger
  <1> SUFFICES ASSUME phase = "reported" PROVE GreaterBetaNotLonger
    BY DEF GreaterBetaNotLonger
  <1>1. engine["evolve"] \in Engines /\ engine["diagnostics"] \in Engines
    BY DEF ChainInv, Calls
  <1>2. PICK e \in Engines, d \in Engines : e = engine["evolve"] /\ d = engine["diagnostics"]
    BY <1>1
  <1> SUFFICES ASSUME e.top_k = d.top_k, e.max_chain_len = d.max_chain_len, Below(d.beta, e.beta)
               PROVE  Len(evolved.chain) <= Len(result.chain)
    BY <1>2 DEF GreaterBetaNotLonger
  <1>3. PICK t : \E l \in Nat : \E m, n \in 0 .. l :
          Together(t, l) /\ EvolvedOn(t, m) /\ ReportedOn(t, n)
    BY <1>2 DEF LoopsInv, SameLimit
  <1>4. PICK l \in Nat : \E m, n \in 0 .. l :
          Together(t, l) /\ EvolvedOn(t, m) /\ ReportedOn(t, n)
    BY <1>3
  <1>5. PICK m \in 0 .. l, n \in 0 .. l :
          Together(t, l) /\ EvolvedOn(t, m) /\ ReportedOn(t, n)
    BY <1>4
  <1>6. /\ Passed(query, e, t, m) /\ Stops(query, d, t[n])
        /\ evolved.chain = t[m].chain /\ result.chain = t[n].chain
    BY <1>2, <1>5 DEF EvolvedOn, ReportedOn
  <1>7. Len(t[m].chain) = m /\ Len(t[n].chain) = n
    BY <1>5 DEF Together, Path
  <1>8. ASSUME n < m PROVE FALSE
    <2>1. PICK run : run = t[n]
      OBVIOUS
    <2>2. n \in 0 .. m /\ n \in Nat /\ n <= m
      BY <1>8
    <2>3. ~Stops(query, e, run) /\ Stops(query, d, run)
      BY <1>6, <1>8, <2>1, <2>2 DEF Passed
    <2>4. GoodRun(run)
      BY <1>2, <1>5, <1>6, <2>1, <2>2, PathGood
    <2>5. PICK score : score = ScoreFor(query, run)
      OBVIOUS
    <2>6. /\ run.pool # <<>>
          /\ Truncates(d, run.prev_score, score) /\ ~Truncates(e, run.prev_score, score)
      BY <2>3, <2>5 DEF Stops, More, Cuts
    <2>7. score \in Fraction
      BY <2>4, <2>5, <2>6, Chosen, BestIs, GateIs DEF ScoreFor
    <2>8. run.chain # <<>>
      BY <2>4, <2>6 DEF GoodRun, Truncates
    <2>9. PICK x \in Fraction : run.prev_score = <<x>> /\ x.num >= 0
      BY <2>4, <2>8 DEF GoodRun
    <2>10. Below(score, Times(d.beta, x)) /\ ~Below(score, Times(e.beta, x))
      BY <2>6, <2>9 DEF Truncates
    <2>11. d.beta \in Fraction /\ e.beta \in Fraction
      BY EngineBeta
    <2>12. Times(d.beta, x) \in Fraction /\ Times(e.beta, x) \in Fraction
      BY <2>9, <2>11, TimesFraction
    <2>13. Below(Times(e.beta, x), Times(d.beta, x))
      BY <2>7, <2>10, <2>12, BelowTransitive
    <2> QED
      BY <2>9, <2>11, <2>13, GreaterBetaCutsMore
  <1> QED
    BY <1>6, <1>7, <1>8

\* The two copies of the loop of chain.rs agree: the same engine chooses the same
\* chain twice, engines that retrieve as many candidates choose chains of which one
\* begins the other, the telemetry counts the steps that were taken, and a greater
\* beta does not make the chain longer.
THEOREM DiagnosticsAlwaysAgree == DmceSpec => []DiagnosticsAgree
  <1>1. DmceInit => LoopsInv /\ ChainInv
    BY InitLoops, InitChain
  <1>2. LoopsInv /\ ChainInv /\ [DmceNext]_dmceVars => LoopsInv' /\ ChainInv'
    BY NextLoops, NextChain
  <1>3. LoopsInv /\ ChainInv => DiagnosticsAgree
    BY LoopsInvAgrees, InvsShorter DEF DiagnosticsAgree
  <1> QED
    BY <1>1, <1>2, <1>3, PTL DEF DmceSpec

-----------------------------------------------------------------------------
(***************************************************************************)
(* The two stores.                                                         *)
(***************************************************************************)

LEMMA DistanceIs ==
  ASSUME NEW q \in Vector, NEW row, row.embedding \in Vector
  PROVE  /\ Distance(q, row) \in Int
         /\ Distance(q, row) + Dot(q, row.embedding) + Dot(q, row.embedding)
              = Dot(q, q) + Dot(row.embedding, row.embedding)
  <1> DEFINE r == row.embedding
             d == [i \in 1 .. Dim |-> (q[i] - r[i]) * (q[i] - r[i])]
             p == Products(q, r)
             a == Products(q, q)
             b == Products(r, r)
             h == [i \in 1 .. Dim |-> d[i] + p[i]]
             k == [i \in 1 .. Dim |-> a[i] + b[i]]
  <1>1. Dim \in Nat /\ r \in Vector /\ DOMAIN q = 1 .. Dim
    BY DimAssumption DEF Vector
  <1>2. Distance(q, row) = FoldFunction(+, 0, d)
    BY <1>1 DEF Distance
  <1>3. FoldFunction(+, 0, d) = SumTo(d, Dim)
    <2>1. d = [i \in 1 .. Dim |-> d[i]]
      OBVIOUS
    <2> HIDE DEF d
    <2> QED
      BY <1>1, <2>1, FoldIsSum
  <1>4. \A x, y \in Int : /\ (x - y) * (x - y) \in Int
                          /\ ((x - y) * (x - y) + x * y) + x * y = x * x + y * y
    OBVIOUS
  <1>5. \A i \in 1 .. Dim : /\ q[i] \in Int /\ r[i] \in Int
                            /\ d[i] = (q[i] - r[i]) * (q[i] - r[i])
                            /\ p[i] = q[i] * r[i] /\ a[i] = q[i] * q[i] /\ b[i] = r[i] * r[i]
                            /\ p[i] \in Int /\ a[i] \in Int /\ b[i] \in Int
                            /\ h[i] = d[i] + p[i] /\ k[i] = a[i] + b[i]
    BY <1>1, ProductsType
  <1> HIDE DEF d, p, a, b, h, k
  <1>6. \A i \in 1 .. Dim : d[i] \in Int /\ h[i] \in Int /\ k[i] = h[i] + p[i]
    <2> SUFFICES ASSUME NEW i \in 1 .. Dim
                 PROVE  d[i] \in Int /\ h[i] \in Int /\ k[i] = h[i] + p[i]
      OBVIOUS
    <2>1. /\ (q[i] - r[i]) * (q[i] - r[i]) \in Int
          /\ ((q[i] - r[i]) * (q[i] - r[i]) + q[i] * r[i]) + q[i] * r[i] = q[i] * q[i] + r[i] * r[i]
      BY <1>4, <1>5
    <2> QED
      BY <1>5, <2>1
  <1>7. SumTo(h, Dim) = SumTo(d, Dim) + SumTo(p, Dim)
    BY <1>1, <1>5, <1>6, SumToAdds
  <1>8. SumTo(k, Dim) = SumTo(h, Dim) + SumTo(p, Dim)
    BY <1>1, <1>5, <1>6, SumToAdds
  <1>9. SumTo(k, Dim) = SumTo(a, Dim) + SumTo(b, Dim)
    BY <1>1, <1>5, SumToAdds
  <1>10. SumTo(d, Dim) \in Int /\ SumTo(p, Dim) \in Int
    BY <1>1, <1>5, <1>6, SumToStep
  <1>11. Dot(q, r) = SumTo(p, Dim) /\ Dot(q, q) = SumTo(a, Dim) /\ Dot(r, r) = SumTo(b, Dim)
    BY <1>1, DotIsSum DEF p, a, b
  <1> QED
    BY <1>2, <1>3, <1>7, <1>8, <1>9, <1>10, <1>11

LEMMA SignedSquares ==
  ASSUME NEW x \in Int, NEW y \in Int, x >= y, NEW n \in Nat \ {0}
  PROVE  ~Below([num |-> IF x < 0 THEN -(x * x) ELSE x * x, den |-> n],
                [num |-> IF y < 0 THEN -(y * y) ELSE y * y, den |-> n])
  <1> DEFINE a == IF x < 0 THEN -(x * x) ELSE x * x
             b == IF y < 0 THEN -(y * y) ELSE y * y
  <1>1. a \in Int /\ b \in Int
    <2>1. x * x \in Int /\ y * y \in Int /\ -(x * x) \in Int /\ -(y * y) \in Int
      OBVIOUS
    <2> QED
      BY <2>1
  <1>2. a >= b
    <2>1. CASE x >= 0 /\ y >= 0
      <3>1. x * x >= y * y
        BY <2>1
      <3> QED
        BY <2>1, <3>1
    <2>2. CASE x >= 0 /\ y < 0
      <3>1. x * x >= 0 /\ y * y >= 0 /\ x * x \in Int /\ y * y \in Int
        OBVIOUS
      <3> QED
        BY <2>2, <3>1
    <2>3. CASE x < 0
      <3>1. y < 0 /\ y * y >= x * x /\ x * x \in Int /\ y * y \in Int
        BY <2>3
      <3> QED
        BY <2>3, <3>1
    <2> QED
      BY <2>1, <2>2, <2>3
  <1> HIDE DEF a, b
  <1>3. ~(a < b)
    BY <1>1, <1>2
  <1>4. ~(a * n < b * n)
    BY <1>1, <1>3, Scale
  <1> QED
    BY <1>4 DEF Below, a, b

\* For rows of unit length the nearer one is not the less similar one.
LEMMA NearerIsSimilar ==
  ASSUME NEW q \in Vector, NEW a, NEW b, a.embedding \in Vector, b.embedding \in Vector,
         Dot(a.embedding, a.embedding) = 1, Dot(b.embedding, b.embedding) = 1,
         Distance(q, a) <= Distance(q, b)
  PROVE  ~Below(cosine_similarity(q, a.embedding), cosine_similarity(q, b.embedding))
  <1> DEFINE x == Dot(q, a.embedding) y == Dot(q, b.embedding) n == Dot(q, q)
  <1>1. x \in Int /\ y \in Int /\ n \in Nat
    BY DotType, DotSquare
  <1>2. Distance(q, a) \in Int /\ Distance(q, a) + x + x = n + 1
        /\ Distance(q, b) \in Int /\ Distance(q, b) + y + y = n + 1
    BY DistanceIs
  <1>3. x >= y
    <2> HIDE DEF x, y, n
    <2> QED
      BY <1>1, <1>2
  <1>4. /\ cosine_similarity(q, a.embedding) =
             IF n * 1 = 0 THEN Zero ELSE [num |-> IF x < 0 THEN -(x * x) ELSE x * x, den |-> n * 1]
        /\ cosine_similarity(q, b.embedding) =
             IF n * 1 = 0 THEN Zero ELSE [num |-> IF y < 0 THEN -(y * y) ELSE y * y, den |-> n * 1]
    BY DEF cosine_similarity
  <1> HIDE DEF x, y, n
  <1>5. n * 1 = n
    BY <1>1
  <1>6. CASE n = 0
    BY <1>4, <1>5, <1>6, ZeroFraction, BelowOneWay
  <1>7. CASE n # 0
    <2>1. n \in Nat \ {0}
      BY <1>1, <1>7
    <2> QED
      BY <1>1, <1>3, <1>4, <1>5, <1>7, <2>1, SignedSquares
  <1> QED
    BY <1>6, <1>7

\* u lists m members of K, the greatest by g first, and none greater is missing.
TopList(K, g, m, u) ==
  /\ u \in [1 .. m -> K]
  /\ \A i, j \in 1 .. m : i < j => u[i] # u[j] /\ ~Below(g[u[i]], g[u[j]])
  /\ \A r \in K : \/ \E i \in 1 .. m : u[i] = r
                  \/ \A j \in 1 .. m : ~Below(g[u[j]], g[r])

\* Two such lists agree at every place: to be greater at one, the second list would
\* have as many members before it as the first one has places.
LEMMA TopListsAgree ==
  ASSUME NEW K, NEW g, \A r \in K : g[r] \in Fraction, NEW m \in Nat, NEW u, NEW v,
         TopList(K, g, m, u), TopList(K, g, m, v), NEW j \in 1 .. m
  PROVE  ~Below(g[u[j]], g[v[j]])
  <1> SUFFICES ASSUME Below(g[u[j]], g[v[j]]) PROVE FALSE
    OBVIOUS
  <1>1. \A i \in 1 .. m : u[i] \in K /\ v[i] \in K /\ g[u[i]] \in Fraction /\ g[v[i]] \in Fraction
    BY DEF TopList
  <1>2. \A i \in 1 .. j : i \in 1 .. m /\ Below(g[u[j]], g[v[i]])
    <2> SUFFICES ASSUME NEW i \in 1 .. j PROVE i \in 1 .. m /\ Below(g[u[j]], g[v[i]])
      OBVIOUS
    <2>1. i \in 1 .. m
      OBVIOUS
    <2>2. CASE i = j
      BY <2>1, <2>2
    <2>3. CASE i # j
      <3>1. ~Below(g[v[i]], g[v[j]])
        BY <2>1, <2>3 DEF TopList
      <3> QED
        BY <1>1, <2>1, <3>1, BelowTransitive
    <2> QED
      BY <2>2, <2>3
  <1>3. \A i \in 1 .. j : \E p \in 1 .. j - 1 : u[p] = v[i]
    <2> SUFFICES ASSUME NEW i \in 1 .. j PROVE \E p \in 1 .. j - 1 : u[p] = v[i]
      OBVIOUS
    <2>1. PICK p \in 1 .. m : u[p] = v[i]
      BY <1>1, <1>2 DEF TopList
    <2>2. ~(j <= p)
      <3>1. p # j
        BY <1>1, <1>2, <2>1, BelowOneWay
      <3>2. ~(j < p)
        BY <1>2, <2>1 DEF TopList
      <3> QED
        BY <3>1, <3>2
    <2> QED
      BY <2>1, <2>2
  <1> DEFINE f == [i \in 1 .. j |-> CHOOSE p \in 1 .. j - 1 : u[p] = v[i]]
  <1>4. \A i \in 1 .. j : f[i] \in 1 .. j - 1 /\ u[f[i]] = v[i]
    BY <1>3
  <1>5. f \in [1 .. j -> 1 .. j - 1]
    BY <1>4
  <1> HIDE DEF f
  <1>6. j \in Nat /\ j - 1 \in Nat
    OBVIOUS
  <1>7. /\ IsFiniteSet(1 .. j) /\ Cardinality(1 .. j) = j
        /\ IsFiniteSet(1 .. j - 1) /\ Cardinality(1 .. j - 1) = j - 1
    BY <1>6, FS_Interval
  <1>8. PICK x \in 1 .. j, y \in 1 .. j : x # y /\ f[x] = f[y]
    <2>1. PICK S, T : S = 1 .. j /\ T = 1 .. j - 1
      OBVIOUS
    <2>2. /\ IsFiniteSet(S) /\ IsFiniteSet(T) /\ Cardinality(T) < Cardinality(S)
          /\ f \in [S -> T]
      BY <1>5, <1>6, <1>7, <2>1
    <2>3. \E x, y \in S : x # y /\ f[x] = f[y]
      BY <2>2, FS_PigeonHole
    <2> QED
      BY <2>1, <2>3
  <1>9. v[x] = v[y]
    BY <1>4, <1>8
  <1>10. x \in 1 .. m /\ y \in 1 .. m /\ (x < y \/ y < x)
    BY <1>8
  <1> QED
    BY <1>9, <1>10 DEF TopList

Degrees(q, exclude_ids) == [r \in Kept(exclude_ids) |-> Similar(q, r)]

\* What top_k() returns is such a list.
LEMMA RankedIsTop ==
  ASSUME Fitting(nodes), NEW q \in Vector, NEW X, NEW m \in Nat, m <= Cardinality(Kept(X))
  PROVE  TopList(Kept(X), Degrees(q, X), m, [j \in 1 .. m |-> Place(q, X)[j]])
  <1> DEFINE K == Kept(X) c == Cardinality(K) g == Degrees(q, X) place == Place(q, X)
             v == [j \in 1 .. m |-> place[j]]
  <1>1. /\ c \in Nat /\ place \in [1 .. c -> K]
        /\ \A r \in K : \E l \in 1 .. c : place[l] = r
        /\ \A i, j \in 1 .. c : i < j => Sooner(q, place[i], place[j])
        /\ K \subseteq 1 .. Len(nodes)
    BY Ranked
  <1>2. \A r \in K : g[r] = Similar(q, r) /\ g[r] \in Fraction /\ r \in Int
    BY <1>1, CosineFraction DEF Degrees, Similar, Fitting
  <1> HIDE DEF K, c, g, place
  <1>3. \A i, j \in 1 .. c : i < j => place[i] # place[j] /\ ~Below(g[place[i]], g[place[j]])
    <2> SUFFICES ASSUME NEW i \in 1 .. c, NEW j \in 1 .. c, i < j
                 PROVE  place[i] # place[j] /\ ~Below(g[place[i]], g[place[j]])
      OBVIOUS
    <2>1. PICK r \in K, t \in K : r = place[i] /\ t = place[j]
      BY <1>1
    <2>2. Sooner(q, r, t)
      BY <1>1, <2>1
    <2> QED
      BY <1>2, <2>1, <2>2, BelowOneWay DEF Sooner
  <1>4. \A j \in 1 .. m : j \in 1 .. c /\ v[j] = place[j]
    BY <1>1 DEF c, K
  <1>5. v \in [1 .. m -> K]
    BY <1>1, <1>4
  <1>6. ASSUME NEW r \in K PROVE \/ \E i \in 1 .. m : v[i] = r
                                 \/ \A j \in 1 .. m : ~Below(g[v[j]], g[r])
    <2>1. PICK l \in 1 .. c : place[l] = r
      BY <1>1
    <2>2. CASE l <= m
      BY <1>4, <2>1, <2>2
    <2>3. CASE ~(l <= m)
      BY <1>3, <1>4, <2>1, <2>3
    <2> QED
      BY <2>2, <2>3
  <1> HIDE DEF v
  <1>7. TopList(K, g, m, v)
    BY <1>3, <1>4, <1>5, <1>6 DEF TopList
  <1> QED
    BY <1>7 DEF K, g, place, v

\* The rows of a scan, by their places in the table.
Scan(q, count, s) ==
  /\ count \in Nat /\ s \in [1 .. count -> DOMAIN nodes]
  /\ \A i, j \in 1 .. count : s[i] = s[j] => i = j
  /\ \A i, j \in 1 .. count : i < j => Distance(q, nodes[s[i]]) <= Distance(q, nodes[s[j]])
  /\ \A r \in DOMAIN nodes :
       \/ \E i \in 1 .. count : s[i] = r
       \/ \A i \in 1 .. count : Distance(q, nodes[s[i]]) <= Distance(q, nodes[r])

Rows(s, count) == [i \in 1 .. count |-> nodes[s[i]]]

LEMMA ScanIs ==
  ASSUME Fitting(nodes), NEW q, NEW n \in Nat, NEW found \in nearest_to(nodes, q, n)
  PROVE  \E count, s : /\ count = Min({n, Len(nodes)}) /\ Scan(q, count, s)
                       /\ found = Rows(s, count)
  <1> DEFINE count == Min({n, Len(nodes)})
             far(i) == Distance(q, nodes[i])
  <1>1. PICK s \in [1 .. count -> DOMAIN nodes] :
          /\ IsInjective(s)
          /\ \A i, j \in 1 .. count : i < j => far(s[i]) <= far(s[j])
          /\ \A i \in 1 .. count : \A r \in DOMAIN nodes \ Range(s) : far(s[i]) <= far(r)
          /\ found = [i \in 1 .. count |-> nodes[s[i]]]
    BY DEF nearest_to
  <1>2. count \in Nat
    BY MinOfTwo DEF Fitting
  <1> HIDE DEF count
  <1>3. \A i, j \in 1 .. count : s[i] = s[j] => i = j
    BY <1>1 DEF IsInjective
  <1>4. \A r \in DOMAIN nodes : \/ \E i \in 1 .. count : s[i] = r
                                \/ \A i \in 1 .. count : far(s[i]) <= far(r)
    BY <1>1 DEF Range
  <1>5. Scan(q, count, s)
    BY <1>1, <1>2, <1>3, <1>4 DEF Scan
  <1> QED
    BY <1>1, <1>5 DEF count, Rows

\* The places of a scan that are not excluded.
Unmet(s, count, X) == {i \in 1 .. count : s[i] \in Kept(X)}

Remaining(s, count, X) ==
  Arranged(Unmet(s, count, X), {p \in Unmet(s, count, X) \X Unmet(s, count, X) : p[1] < p[2]})

Distinct == \A i, j \in DOMAIN nodes : nodes[i].id = nodes[j].id => i = j

Enough(s, count, k, X) == Min({k, Cardinality(Unmet(s, count, X))}) = Min({k, Cardinality(Kept(X))})

LEMMA UnmetFinite ==
  ASSUME NEW count \in Nat, NEW s, NEW X
  PROVE  /\ IsFiniteSet(Unmet(s, count, X)) /\ Cardinality(Unmet(s, count, X)) \in Nat
         /\ Unmet(s, count, X) \in SUBSET (1 .. count)
         /\ IsFiniteSet(1 .. count) /\ Cardinality(1 .. count) = count
  <1>1. IsFiniteSet(1 .. count) /\ Cardinality(1 .. count) = count
    BY FS_Interval
  <1>2. Unmet(s, count, X) \in SUBSET (1 .. count)
    BY DEF Unmet
  <1>3. IsFiniteSet(Unmet(s, count, X))
    BY <1>1, <1>2, FS_Subset
  <1> QED
    BY <1>1, <1>2, <1>3, FS_CardinalityType

\* One row more for each excluded id is enough, where no id is stored twice: as
\* many remain as there are to choose from, or as were asked for.
LEMMA EnoughFound ==
  ASSUME Fitting(nodes), NEW q, NEW k \in Nat, NEW X, IsFiniteSet(X), NEW count, NEW s,
         Distinct, count = Min({k + Cardinality(X), Len(nodes)}), Scan(q, count, s)
  PROVE  Enough(s, count, k, X)
  <1> DEFINE K == Kept(X) U == Unmet(s, count, X) h == [i \in U |-> s[i]]
  <1>1. count \in Nat /\ DOMAIN nodes = 1 .. Len(nodes) /\ Len(nodes) \in Nat
    BY DEF Scan, Fitting
  <1>2. /\ IsFiniteSet(U) /\ Cardinality(U) \in Nat /\ U \in SUBSET (1 .. count)
        /\ IsFiniteSet(1 .. count) /\ Cardinality(1 .. count) = count
    BY <1>1, UnmetFinite
  <1>3. IsFiniteSet(K) /\ Cardinality(K) \in Nat
    <2>1. K \in SUBSET (1 .. Len(nodes)) /\ IsFiniteSet(1 .. Len(nodes))
      BY <1>1, FS_Interval DEF Kept
    <2>2. IsFiniteSet(K)
      BY <2>1, FS_Subset
    <2> QED
      BY <2>2, FS_CardinalityType
  <1>4. h \in Injection(U, K)
    <2>1. h \in [U -> K] /\ \A i, j \in U : h[i] = h[j] => i = j
      BY DEF Scan, Unmet
    <2> QED
      BY <2>1 DEF Injection, IsInjective
  <1> HIDE DEF h
  <1>5. Cardinality(U) <= Cardinality(K) /\ (Cardinality(U) = Cardinality(K) <=> h \in Surjection(U, K))
    BY <1>3, <1>4, FS_Injection
  <1>6. Cardinality(X) \in Nat
    BY FS_CardinalityType
  <1>7. count = IF k + Cardinality(X) <= Len(nodes) THEN k + Cardinality(X) ELSE Len(nodes)
    BY <1>1, <1>6, MinOfTwo
  <1>8. CASE count = Len(nodes)
    <2>1. s \in Injection(1 .. count, 1 .. count)
      BY <1>1, <1>8 DEF Scan, Injection, IsInjective
    <2>2. s \in Surjection(1 .. count, 1 .. count)
      BY <1>2, <2>1, FS_Injection
    <2>3. \A r \in K : \E i \in U : h[i] = r
      BY <1>1, <1>8, <2>2 DEF Surjection, Kept, Unmet, h
    <2>4. h \in Surjection(U, K)
      BY <1>4, <2>3 DEF Surjection, Injection
    <2> QED
      BY <1>5, <2>4 DEF Enough
  <1>9. CASE count = k + Cardinality(X)
    <2> DEFINE E == (1 .. count) \ U
               x == [i \in E |-> nodes[s[i]].id]
    <2>1. x \in Injection(E, X)
      <3>1. \A i \in E : i \in 1 .. count /\ s[i] \in DOMAIN nodes /\ s[i] \notin K
        BY DEF Scan, Unmet
      <3>2. \A i \in E : nodes[s[i]].id \in X
        BY <3>1 DEF Kept
      <3>3. ASSUME NEW i \in E, NEW j \in E, x[i] = x[j] PROVE i = j
        <4>1. nodes[s[i]].id = nodes[s[j]].id
          BY <3>3
        <4>2. s[i] = s[j]
          BY <3>1, <4>1 DEF Distinct
        <4> QED
          BY <3>1, <4>2 DEF Scan
      <3> QED
        BY <3>2, <3>3 DEF Injection, IsInjective
    <2>2. Cardinality(E) = count - Cardinality((1 .. count) \cap U)
      BY <1>2, FS_Difference
    <2>3. (1 .. count) \cap U = U
      BY <1>2
    <2> HIDE DEF E, x, U, K
    <2>4. Cardinality(E) <= Cardinality(X)
      BY <2>1, FS_Injection
    <2>5. Cardinality(E) = (k + Cardinality(X)) - Cardinality(U)
      BY <1>9, <2>2, <2>3
    <2>6. k <= Cardinality(U)
      BY <1>2, <1>6, <2>4, <2>5
    <2>7. k <= Cardinality(U) /\ k <= Cardinality(K)
      BY <1>2, <1>3, <1>5, <2>6
    <2>8. Min({k, Cardinality(U)}) = k /\ Min({k, Cardinality(K)}) = k
      BY <1>2, <1>3, <2>7, MinOfTwo
    <2> QED
      BY <2>8 DEF U, K, Enough
  <1> QED
    BY <1>7, <1>8, <1>9

\* Numbers in increasing order.
LEMMA Increasing ==
  ASSUME NEW set \in SUBSET Int
  PROVE  Orders({p \in set \X set : p[1] < p[2]}, set)
  BY DEF Orders

ScanTop(q, X, m, s, left, count) ==
  /\ TopList(Kept(X), Degrees(q, X), m, [j \in 1 .. m |-> s[left[j]]])
  /\ \A j \in 1 .. m : left[j] \in 1 .. count

\* So is what remains of a scan, where all rows have unit length.
LEMMA ScannedIsTop ==
  ASSUME Fitting(nodes), NEW q \in Vector, NEW X, NEW count, NEW s, Scan(q, count, s),
         UnitLength, NEW m \in Nat, m <= Cardinality(Unmet(s, count, X)),
         NEW left, left = Remaining(s, count, X)
  PROVE  ScanTop(q, X, m, s, left, count)
  <1> DEFINE K == Kept(X) U == Unmet(s, count, X) a == Cardinality(U) g == Degrees(q, X)
             u == [j \in 1 .. m |-> s[left[j]]]
             far(i) == Distance(q, nodes[i])
  <1>1. /\ count \in Nat /\ DOMAIN nodes = 1 .. Len(nodes) /\ Len(nodes) \in Nat
        /\ \A i \in 1 .. count : s[i] \in DOMAIN nodes
    BY DEF Scan, Fitting
  <1>2. IsFiniteSet(U) /\ a \in Nat /\ U \in SUBSET (1 .. count)
    BY <1>1, UnmetFinite
  <1>3. U \in SUBSET Int
    BY <1>2
  <1>4. Orders({p \in U \X U : p[1] < p[2]}, U)
    BY <1>3, Increasing
  <1>5. PICK R : R = {p \in U \X U : p[1] < p[2]}
    OBVIOUS
  <1>6. Orders(R, U) /\ left = Arranged(U, R)
    BY <1>4, <1>5 DEF Remaining
  <1>7. /\ left \in [1 .. a -> U]
        /\ \A i \in U : \E l \in 1 .. a : left[l] = i
        /\ \A i, j \in 1 .. a : i < j => <<left[i], left[j]>> \in R
    <2> HIDE DEF U
    <2>1. InOrder(left, U, R)
      BY <1>2, <1>6, ArrangedInOrder
    <2> QED
      BY <2>1 DEF InOrder
  <1>8. \A i, j \in 1 .. a : i < j => left[i] < left[j]
    BY <1>7, <1>5
  <1>9. \A j \in 1 .. m : j \in 1 .. a /\ left[j] \in U /\ left[j] \in 1 .. count /\ u[j] = s[left[j]]
    BY <1>2, <1>7
  <1>10. \A i \in U : i \in 1 .. count /\ s[i] \in K
    BY DEF Unmet
  <1>11. \A r \in K : r \in DOMAIN nodes /\ g[r] = Similar(q, r)
    BY DEF Kept, Degrees
  <1>12. \A r, t \in K : far(r) <= far(t) => ~Below(g[r], g[t])
    <2> SUFFICES ASSUME NEW r \in K, NEW t \in K, far(r) <= far(t)
                 PROVE  ~Below(Similar(q, r), Similar(q, t))
      BY <1>11
    <2>1. r \in DOMAIN nodes /\ t \in DOMAIN nodes
      BY <1>11
    <2>2. PICK x, y : x = nodes[r] /\ y = nodes[t]
      OBVIOUS
    <2>3. /\ x.embedding \in Vector /\ y.embedding \in Vector
          /\ Dot(x.embedding, x.embedding) = 1 /\ Dot(y.embedding, y.embedding) = 1
          /\ Distance(q, x) <= Distance(q, y)
      BY <1>1, <2>1, <2>2 DEF Fitting, UnitLength
    <2>4. ~Below(cosine_similarity(q, x.embedding), cosine_similarity(q, y.embedding))
      BY <2>3, NearerIsSimilar
    <2> QED
      BY <2>2, <2>4 DEF Similar
  <1>13. \A i, j \in 1 .. count : /\ s[i] = s[j] => i = j
                                  /\ i < j => far(s[i]) <= far(s[j])
    BY DEF Scan
  <1> HIDE DEF K, U, a, g, u, far
  <1>14. u \in [1 .. m -> K]
    BY <1>9, <1>10 DEF u
  <1>15. ASSUME NEW i \in 1 .. m, NEW j \in 1 .. m, i < j
         PROVE  u[i] # u[j] /\ ~Below(g[u[i]], g[u[j]])
    <2>1. left[i] < left[j] /\ left[i] # left[j]
      <3>1. left[i] < left[j]
        BY <1>8, <1>9, <1>15
      <3> QED
        BY <1>9, <3>1
    <2>2. u[i] # u[j] /\ far(u[i]) <= far(u[j])
      BY <1>9, <1>13, <2>1
    <2> QED
      BY <1>12, <1>14, <2>2
  <1>16. ASSUME NEW r \in K
         PROVE  \/ \E i \in 1 .. m : u[i] = r
                \/ \A j \in 1 .. m : ~Below(g[u[j]], g[r])
    <2>1. CASE \E i \in 1 .. count : s[i] = r
      <3>1. PICK i \in 1 .. count : s[i] = r
        BY <2>1
      <3>2. i \in U
        BY <3>1 DEF U, K, Unmet
      <3>3. PICK l \in 1 .. a : left[l] = i
        BY <1>7, <3>2 DEF U, a
      <3>4. CASE l <= m
        BY <1>9, <3>1, <3>3, <3>4
      <3>5. CASE ~(l <= m)
        <4> SUFFICES ASSUME NEW j \in 1 .. m PROVE ~Below(g[u[j]], g[r])
          OBVIOUS
        <4>1. j < l
          BY <1>2, <3>5 DEF a
        <4>2. left[j] < i
          BY <1>8, <1>9, <3>3, <4>1
        <4>3. far(u[j]) <= far(r)
          BY <1>9, <1>13, <3>1, <4>2
        <4> QED
          BY <1>12, <1>14, <4>3
      <3> QED
        BY <3>4, <3>5
    <2>2. CASE ~\E i \in 1 .. count : s[i] = r
      <3>1. \A i \in 1 .. count : far(s[i]) <= far(r)
        BY <1>11, <2>2 DEF Scan, far
      <3>2. \A j \in 1 .. m : far(u[j]) <= far(r)
        BY <1>9, <3>1
      <3> QED
        BY <1>12, <1>14, <3>2
    <2> QED
      BY <2>1, <2>2
  <1>17. TopList(K, g, m, u)
    BY <1>14, <1>15, <1>16 DEF TopList
  <1> QED
    BY <1>9, <1>17 DEF ScanTop, K, g, u

\* What the scan leaves, with its places.
LeavesUnmet(s, count, k, X) ==
  Unexcluded(Rows(s, count), k, X) =
    [j \in 1 .. Min({k, Cardinality(Unmet(s, count, X))}) |-> Rows(s, count)[Remaining(s, count, X)[j]]]

LEMMA UnexcludedIs ==
  ASSUME NEW q, NEW count, NEW s, Scan(q, count, s), NEW k, NEW X
  PROVE  LeavesUnmet(s, count, k, X)
  <1> DEFINE found == Rows(s, count)
             R(set) == {p \in set \X set : p[1] < p[2]}
             cut(set) == [j \in 1 .. Min({k, Cardinality(set)}) |-> found[Arranged(set, R(set))[j]]]
  <1>1. {i \in DOMAIN found : found[i].id \notin X} = Unmet(s, count, X)
    BY DEF Scan, Rows, Unmet, Kept
  <1>2. Unexcluded(found, k, X) = cut({i \in DOMAIN found : found[i].id \notin X})
    BY Zenon DEF Unexcluded
  <1>3. cut(Unmet(s, count, X)) = [j \in 1 .. Min({k, Cardinality(Unmet(s, count, X))}) |->
                                     found[Remaining(s, count, X)[j]]]
    BY Zenon DEF Remaining
  <1> HIDE DEF cut
  <1> QED
    BY <1>1, <1>2, <1>3 DEF LeavesUnmet

LEMMA SameAnswers ==
  ASSUME nodes \in Seq(StoredNode), UnitLength, IsInjective([i \in DOMAIN nodes |-> nodes[i].id]),
         NEW q \in Vector, NEW k \in Nat, NEW X, IsFiniteSet(X), k + Cardinality(X) < Word
  PROVE  SameAnswer(q, k, X)
  <1> DEFINE offered == top_k(q, k, X) K == Kept(X) g == Degrees(q, X)
             m == Min({k, Cardinality(K)})
             v == [j \in 1 .. m |-> Place(q, X)[j]]
  <1> SUFFICES ASSUME NEW answer \in Search(nodes, q, k, X)
               PROVE  LET a == Similarities(q, answer)
                          b == Similarities(q, offered)
                      IN  /\ Len(a) = Len(b)
                          /\ \A i \in DOMAIN a : ~Below(a[i], b[i]) /\ ~Below(b[i], a[i])
    BY DEF SameAnswer
  <1>1. Fitting(nodes)
    BY SeqFits
  <1>2. Distinct
    BY DEF Distinct, IsInjective
  <1>3. (k + Cardinality(X)) % Word = k + Cardinality(X) /\ k + Cardinality(X) \in Nat
    <2>1. Cardinality(X) \in Nat
      BY FS_CardinalityType
    <2>2. PICK n \in Nat : n = k + Cardinality(X)
      BY <2>1
    <2>3. n % Word = n
      BY <2>2, WordAssumption
    <2> QED
      BY <2>2, <2>3
  <1>4. PICK found \in nearest_to(nodes, q, k + Cardinality(X)) : answer = Unexcluded(found, k, X)
    BY <1>3 DEF Search
  <1>5. PICK count, s : /\ count = Min({k + Cardinality(X), Len(nodes)}) /\ Scan(q, count, s)
                        /\ found = Rows(s, count)
    <2>1. PICK n \in Nat : n = k + Cardinality(X)
      BY <1>3
    <2>2. found \in nearest_to(nodes, q, n)
      BY <1>4, <2>1
    <2>3. \E count, s : /\ count = Min({n, Len(nodes)}) /\ Scan(q, count, s)
                        /\ found = Rows(s, count)
      BY <1>1, <2>2, ScanIs
    <2> QED
      BY <2>1, <2>3
  <1> DEFINE U == Unmet(s, count, X)
  <1>6. PICK left : left = Remaining(s, count, X)
    OBVIOUS
  <1> DEFINE u == [j \in 1 .. m |-> s[left[j]]]
  <1>7. Min({k, Cardinality(U)}) = m
    <2> HIDE DEF m, K
    <2>1. Enough(s, count, k, X)
      BY <1>1, <1>2, <1>5, EnoughFound
    <2> QED
      BY <2>1 DEF Enough, m, K
  <1>8. m \in Nat /\ m <= Cardinality(K) /\ m <= Cardinality(U)
    <2>1. Cardinality(K) \in Nat
      BY <1>1, Ranked
    <2>2. Cardinality(U) \in Nat
      BY <1>5, UnmetFinite DEF Scan
    <2> QED
      BY <1>7, <2>1, <2>2, MinOfTwo
  <1>9. answer = [j \in 1 .. m |-> found[left[j]]]
    <2>1. LeavesUnmet(s, count, k, X)
      BY <1>5, UnexcludedIs
    <2> QED
      BY <1>4, <1>5, <1>6, <1>7, <2>1 DEF LeavesUnmet
  <1>10. offered = [j \in 1 .. m |-> nodes[Place(q, X)[j]]]
    BY TopKIs
  <1>11. TopList(K, g, m, u) /\ \A j \in 1 .. m : left[j] \in 1 .. count
    <2>1. m <= Cardinality(Unmet(s, count, X))
      BY <1>8
    <2>2. ScanTop(q, X, m, s, left, count)
      <3> HIDE DEF m, K
      <3> QED
        BY <1>1, <1>5, <1>6, <1>8, <2>1, ScannedIsTop
    <2> QED
      BY <2>2 DEF ScanTop
  <1>12. TopList(K, g, m, v)
    BY <1>1, <1>8, RankedIsTop
  <1>13. \A r \in K : g[r] = Similar(q, r) /\ g[r] \in Fraction
    BY <1>1, CosineFraction DEF Degrees, Kept, Similar, Fitting
  <1> HIDE DEF K, g, m, u, v, U, offered
  <1>14. \A j \in 1 .. m : u[j] \in K /\ v[j] \in K
    BY <1>11, <1>12 DEF TopList
  <1>15. \A j \in 1 .. m : /\ answer[j] = nodes[u[j]] /\ offered[j] = nodes[v[j]]
    BY <1>5, <1>9, <1>10, <1>11 DEF Rows, u, v
  <1>16. \A j \in 1 .. m : ~Below(g[u[j]], g[v[j]]) /\ ~Below(g[v[j]], g[u[j]])
    BY <1>8, <1>11, <1>12, <1>13, TopListsAgree
  <1>17. \A j \in 1 .. m : /\ cosine_similarity(q, answer[j].embedding) = g[u[j]]
                           /\ cosine_similarity(q, offered[j].embedding) = g[v[j]]
    BY <1>13, <1>14, <1>15 DEF Similar
  <1>18. DOMAIN answer = 1 .. m /\ DOMAIN offered = 1 .. m
    BY <1>9, <1>10
  <1>19. /\ Similarities(q, answer) = [j \in 1 .. m |-> g[u[j]]]
         /\ Similarities(q, offered) = [j \in 1 .. m |-> g[v[j]]]
    BY <1>17, <1>18 DEF Similarities
  <1>20. Len(Similarities(q, answer)) = m /\ Len(Similarities(q, offered)) = m
    BY <1>8, <1>19
  <1> QED
    BY <1>16, <1>19, <1>20

\* "Swap the retrieval implementation without changing the DMCE API" (store.rs:38-40):
\* for unit vectors with ids of their own, the persistent store answers every query
\* with the similarities the in-memory store answers with.
THEOREM SearchAlwaysAgrees == DmceSpec => []SearchAgrees
  <1>1. ASSUME ChainInv PROVE SearchAgrees
    <2> SUFFICES ASSUME UnitLength, IsInjective([i \in DOMAIN nodes |-> nodes[i].id]),
                        NEW q \in Queries, NEW k \in 1 .. Word - 1, NEW exclude_ids \in SUBSET Ids,
                        Len(q) = Dim, IsFiniteSet(exclude_ids), k + Cardinality(exclude_ids) < Word
                 PROVE  SameAnswer(q, k, exclude_ids)
      BY DEF SearchAgrees
    <2>1. q \in Vector
      BY VectorOfDim, DmceAssumption
    <2>2. nodes \in Seq(StoredNode) /\ k \in Nat
      BY <1>1 DEF ChainInv
    <2> QED
      BY <2>1, <2>2, SameAnswers
  <1> QED
    BY <1>1, InitChain, NextChain, PTL DEF DmceSpec
=============================================================================
