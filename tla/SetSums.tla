------------------------------ MODULE SetSums ------------------------------
(***************************************************************************)
(* Facts about finite sets of numbers that the proofs of the components    *)
(* need: least and greatest elements, and sums of a function over a set.   *)
(*                                                                         *)
(* The library defines a sum by recursion over the set.  No rule of        *)
(* induction is used here: a statement about every size is proved from the *)
(* least size for which it fails.                                          *)
(***************************************************************************)
EXTENDS Integers, FiniteSets, FiniteSetsExt, Functions, FiniteSetTheorems,
        WellFoundedInduction, TLAPS

----------------------------------------------------------------------------
(* Least and greatest elements *)

LEMMA NatLeast ==
  ASSUME NEW T \in SUBSET Nat, T # {} PROVE \E n \in T : \A m \in T : n <= m
<1> DEFINE R == OpToRel(<, Nat)
<1>1. \E n \in T : \A m \in T : ~ (<<m, n>> \in R)
  <2>1. IsWellFoundedOn(R, Nat)
    BY NatLessThanWellFounded
  <2> HIDE DEF R
  <2>2. QED BY <2>1, WFMin
<1>2. \A m, n \in Nat : <<m, n>> \in R <=> m < n
  BY DEF OpToRel
<1> HIDE DEF R
<1>3. PICK n \in T : \A m \in T : ~ (<<m, n>> \in R)
  BY <1>1
<1>4. \A m \in T : n <= m
  <2> TAKE m \in T
  <2>1. m \in Nat /\ n \in Nat /\ ~(m < n)
    BY <1>2, <1>3
  <2>2. QED BY <2>1
<1>5. QED BY <1>4

\* The least element of a set of numbers that is not empty.
LEMMA MinIsLeast ==
  ASSUME NEW S \in SUBSET Nat, S # {} PROVE Min(S) \in S /\ \A x \in S : Min(S) <= x
BY NatLeast DEF Min

\* The greatest element of a bounded one.
LEMMA MaxIsGreatest ==
  ASSUME NEW S \in SUBSET Int, S # {}, NEW b \in Int, \A x \in S : x <= b
  PROVE  Max(S) \in S /\ \A x \in S : Max(S) >= x
<1>1. PICK n \in {b - x : x \in S} : \A m \in {b - x : x \in S} : n <= m
  <2>1. \A x \in S : b - x \in Nat
    OBVIOUS
  <2>2. {b - x : x \in S} \in SUBSET Nat /\ {b - x : x \in S} # {}
    BY <2>1
  <2>3. QED BY <2>2, NatLeast
<1>2. PICK x \in S : n = b - x
  BY <1>1
<1>3. \A y \in S : x >= y
  BY <1>1, <1>2
<1>4. QED BY <1>2, <1>3 DEF Max

\* An element that is greater than all others.
LEMMA MaxIs ==
  ASSUME NEW S \in SUBSET Int, NEW x \in S, \A y \in S : y <= x PROVE Max(S) = x
<1>1. \E z \in S : \A y \in S : z >= y
  OBVIOUS
<1>2. Max(S) \in S /\ Max(S) >= x
  BY <1>1 DEF Max
<1>3. Max(S) <= x /\ Max(S) \in Int /\ x \in Int
  BY <1>2
<1>4. QED BY <1>2, <1>3

LEMMA MinIs ==
  ASSUME NEW S \in SUBSET Int, NEW x \in S, \A y \in S : x <= y PROVE Min(S) = x
<1>1. \E z \in S : \A y \in S : z <= y
  OBVIOUS
<1>2. Min(S) \in S /\ Min(S) <= x
  BY <1>1 DEF Min
<1>3. x <= Min(S) /\ Min(S) \in Int /\ x \in Int
  BY <1>2
<1>4. QED BY <1>2, <1>3

\* A finite set is bounded by an element of its own.
LEMMA FiniteMax ==
  ASSUME NEW S \in SUBSET Int, IsFiniteSet(S), S # {}
  PROVE  Max(S) \in S /\ \A x \in S : Max(S) >= x
<1> DEFINE Top(s) == \E x \in s : \A y \in s : x >= y
           Bad == {n \in Nat : \E s \in SUBSET S : s # {} /\ Cardinality(s) = n /\ ~Top(s)}
<1>1. \A s \in SUBSET S : IsFiniteSet(s) /\ Cardinality(s) \in Nat
  BY FS_Subset, FS_CardinalityType
<1>2. Bad = {}
  <2> SUFFICES ASSUME Bad # {} PROVE FALSE
    OBVIOUS
  <2>1. PICK n \in Bad : \A m \in Bad : n <= m
    BY NatLeast
  <2>2. PICK s \in SUBSET S : s # {} /\ Cardinality(s) = n /\ ~Top(s)
    BY <2>1
  <2>3. PICK p \in s : TRUE
    BY <2>2
  <2> DEFINE t == s \ {p}
  <2>4. t \in SUBSET S /\ Cardinality(t) = n - 1 /\ n \in Nat /\ n - 1 \in Nat
    <3>1. Cardinality(t) = n - 1 /\ t \in SUBSET S
      BY <1>1, <2>2, FS_RemoveElement
    <3>2. QED BY <1>1, <2>2, <3>1
  <2>5. n - 1 \notin Bad
    BY <2>1, <2>4
  <2>6. t = {} \/ Top(t)
    BY <2>4, <2>5
  <2>7. s \in SUBSET Int /\ s = t \cup {p} /\ p \in Int
    OBVIOUS
  <2>8. Top(s)
    <3>1. CASE t = {}
      BY <2>7, <3>1
    <3>2. CASE Top(t)
      <4>1. PICK x \in t : \A y \in t : x >= y
        BY <3>2
      <4>2. x \in s /\ x \in Int
        BY <2>7
      <4>3. CASE x >= p
        BY <2>7, <4>1, <4>2, <4>3
      <4>4. CASE ~(x >= p)
        <5>1. \A y \in s : p >= y
          BY <2>7, <4>1, <4>2, <4>4
        <5>2. QED BY <5>1
      <4>5. QED BY <4>3, <4>4
    <3>3. QED BY <2>6, <3>1, <3>2
  <2>9. QED BY <2>2, <2>8
<1>3. Top(S)
  BY <1>1, <1>2
<1>4. QED BY <1>3 DEF Max

----------------------------------------------------------------------------
(* Finite sets *)

LEMMA FinitePart ==
  ASSUME NEW n \in Int, NEW S \in SUBSET (1 .. n)
  PROVE  IsFiniteSet(S) /\ Cardinality(S) \in Nat
<1>1. 1 \in Int /\ IsFiniteSet(1 .. n)
  BY FS_Interval
<1>2. QED BY <1>1, FS_Subset, FS_CardinalityType

LEMMA IntervalSize ==
  ASSUME NEW n \in Nat PROVE IsFiniteSet(1 .. n) /\ Cardinality(1 .. n) = n
<1>1. 1 \in Int /\ n \in Int /\ (1 > n => n = 0)
  OBVIOUS
<1>2. IsFiniteSet(1 .. n) /\ Cardinality(1 .. n) = IF 1 > n THEN 0 ELSE n - 1 + 1
  BY <1>1, FS_Interval
<1>3. QED BY <1>1, <1>2

LEMMA FiniteSize ==
  ASSUME NEW S, IsFiniteSet(S), NEW T \in SUBSET S
  PROVE  /\ IsFiniteSet(T) /\ Cardinality(T) \in Nat /\ Cardinality(S) \in Nat
         /\ Cardinality(T) <= Cardinality(S)
BY FS_Subset, FS_CardinalityType

\* At most one element more.
LEMMA FiniteWith ==
  ASSUME NEW S, IsFiniteSet(S), NEW x, NEW T \in SUBSET (S \cup {x})
  PROVE  /\ IsFiniteSet(T) /\ Cardinality(T) \in Nat /\ Cardinality(S) \in Nat
         /\ Cardinality(T) <= Cardinality(S) + 1
<1>1. IsFiniteSet(S \cup {x}) /\ Cardinality(S) \in Nat
  BY FS_AddElement, FS_CardinalityType
<1>2. Cardinality(S \cup {x}) <= Cardinality(S) + 1
  BY <1>1, FS_AddElement
<1>3. QED BY <1>1, <1>2, FiniteSize

\* What a function makes of the elements of a finite set.
LEMMA FiniteImage ==
  ASSUME NEW S, IsFiniteSet(S), NEW f, NEW T, \A t \in T : \E x \in S : t = f[x]
  PROVE  IsFiniteSet(T) /\ Cardinality(T) \in Nat /\ Cardinality(T) <= Cardinality(S)
<1> DEFINE U == {x \in S : f[x] \in T}
           h == [x \in U |-> f[x]]
<1>1. IsFiniteSet(U) /\ Cardinality(U) \in Nat /\ Cardinality(U) <= Cardinality(S) /\ Cardinality(S) \in Nat
  BY FiniteSize
<1>2. h \in Surjection(U, T)
  BY DEF Surjection
<1>3. IsFiniteSet(T) /\ Cardinality(T) <= Cardinality(U)
  BY <1>1, <1>2, FS_Surjection
<1>4. Cardinality(T) \in Nat
  BY <1>3, FS_CardinalityType
<1>5. QED BY <1>1, <1>3, <1>4

----------------------------------------------------------------------------
(* Sums *)

pick(s) == CHOOSE x \in s : TRUE

\* One step of the recursion: the sums of the sets one smaller are in g.
Sums(f, S, g) == [s \in SUBSET S |-> IF s = {} THEN 0 ELSE f[pick(s)] + g[s \ {pick(s)}]]

LEMMA SumUnfold ==
  ASSUME NEW f, NEW S PROVE SumFunctionOnSet(f, S) = (CHOOSE g : g = Sums(f, S, g))[S]
BY DEF SumFunctionOnSet, FoldFunctionOnSet, MapThenFoldSet, Sums, pick

LEMMA PickSmaller ==
  ASSUME NEW s, IsFiniteSet(s), s # {}
  PROVE  /\ pick(s) \in s /\ IsFiniteSet(s \ {pick(s)})
         /\ Cardinality(s) \in Nat /\ Cardinality(s \ {pick(s)}) = Cardinality(s) - 1
BY FS_RemoveElement, FS_CardinalityType DEF pick

\* The recursion has a solution: the sums of the sets of up to n elements exist for
\* every n.
LEMMA SumsExist ==
  ASSUME NEW f, NEW S, IsFiniteSet(S) PROVE \E g : g = Sums(f, S, g)
<1> DEFINE Good(g, n) == \A s \in SUBSET S : Cardinality(s) <= n => g[s] = Sums(f, S, g)[s]
           Bad == {n \in Nat : ~ \E g : Good(g, n)}
<1>1. \A s \in SUBSET S : IsFiniteSet(s) /\ Cardinality(s) \in Nat
  BY FS_Subset, FS_CardinalityType
<1>2. ASSUME NEW g, NEW n \in Nat, Good(g, n) PROVE Good(Sums(f, S, g), n + 1)
  <2> SUFFICES ASSUME NEW s \in SUBSET S, Cardinality(s) <= n + 1
               PROVE  Sums(f, S, g)[s] = Sums(f, S, Sums(f, S, g))[s]
    OBVIOUS
  <2>1. CASE s = {}
    BY <2>1 DEF Sums
  <2>2. CASE s # {}
    <3> DEFINE t == s \ {pick(s)}
    <3>1. t \in SUBSET S /\ Cardinality(t) <= n
      BY <1>1, <2>2, PickSmaller
    <3>2. g[t] = Sums(f, S, g)[t]
      BY <1>2, <3>1
    <3>3. QED BY <2>2, <3>1, <3>2 DEF Sums
  <2>3. QED BY <2>1, <2>2
<1>3. Bad = {}
  <2> SUFFICES ASSUME Bad # {} PROVE FALSE
    OBVIOUS
  <2>1. PICK n \in Bad : \A m \in Bad : n <= m
    BY NatLeast
  <2>2. n # 0
    <3> SUFFICES ASSUME n = 0 PROVE FALSE
      OBVIOUS
    <3>1. \A s \in SUBSET S : Cardinality(s) <= 0 => s = {}
      BY <1>1, FS_EmptySet
    <3>2. Good(Sums(f, S, f), 0)
      BY <3>1 DEF Sums
    <3>3. QED BY <3>2
  <2>3. n - 1 \in Nat /\ n - 1 \notin Bad
    BY <2>1, <2>2
  <2>4. PICK g : Good(g, n - 1)
    BY <2>3
  <2>5. Good(Sums(f, S, g), n)
    BY <1>2, <2>3, <2>4
  <2>6. QED BY <2>5
<1>4. PICK g : Good(g, Cardinality(S))
  BY <1>1, <1>3
<1>5. \A s \in SUBSET S : g[s] = Sums(f, S, g)[s]
  BY <1>1, <1>4, FS_Subset
<1>6. \A s \in SUBSET S : s # {} => s \ {pick(s)} \in SUBSET S
  OBVIOUS
<1>7. Sums(f, S, g) = Sums(f, S, Sums(f, S, g))
  BY <1>5, <1>6 DEF Sums
<1>8. QED BY <1>7

\* On the sets they have in common all solutions agree.
LEMMA SumsAgree ==
  ASSUME NEW f, NEW S, IsFiniteSet(S), NEW T \in SUBSET S,
         NEW g, g = Sums(f, S, g), NEW h, h = Sums(f, T, h)
  PROVE  \A s \in SUBSET T : g[s] = h[s]
<1> DEFINE Bad == {n \in Nat : \E s \in SUBSET T : Cardinality(s) = n /\ g[s] # h[s]}
<1>1. \A s \in SUBSET T : IsFiniteSet(s) /\ Cardinality(s) \in Nat
  BY FS_Subset, FS_CardinalityType
<1>2. SUFFICES ASSUME Bad # {} PROVE FALSE
  BY <1>1
<1>3. PICK n \in Bad : \A m \in Bad : n <= m
  BY <1>2, NatLeast
<1>4. PICK s \in SUBSET T : Cardinality(s) = n /\ g[s] # h[s]
  BY <1>3
<1>5. g[s] = Sums(f, S, g)[s] /\ h[s] = Sums(f, T, h)[s]
  OBVIOUS
<1>6. s # {}
  BY <1>4, <1>5 DEF Sums
<1>7. g[s] = f[pick(s)] + g[s \ {pick(s)}] /\ h[s] = f[pick(s)] + h[s \ {pick(s)}]
  BY <1>5, <1>6 DEF Sums
<1>8. s \ {pick(s)} \in SUBSET T /\ n - 1 \in Nat /\ Cardinality(s \ {pick(s)}) = n - 1
  <2>1. Cardinality(s \ {pick(s)}) = n - 1 /\ n \in Nat
    BY <1>1, <1>3, <1>4, <1>6, PickSmaller
  <2>2. s \ {pick(s)} \in SUBSET T
    OBVIOUS
  <2>3. QED BY <1>1, <2>1, <2>2
<1>9. n - 1 \notin Bad
  BY <1>3, <1>8
<1>10. g[s \ {pick(s)}] = h[s \ {pick(s)}]
  BY <1>8, <1>9
<1>11. QED BY <1>4, <1>7, <1>10

LEMMA SumEmpty == ASSUME NEW f PROVE SumFunctionOnSet(f, {}) = 0
<1>1. IsFiniteSet({})
  BY FS_EmptySet
<1>2. PICK g : g = Sums(f, {}, g)
  BY <1>1, SumsExist
<1>3. QED BY <1>2, SumUnfold DEF Sums

LEMMA SumPick ==
  ASSUME NEW f, NEW S, IsFiniteSet(S), S # {}
  PROVE  SumFunctionOnSet(f, S) = f[pick(S)] + SumFunctionOnSet(f, S \ {pick(S)})
<1> DEFINE T == S \ {pick(S)}
           g == CHOOSE g : g = Sums(f, S, g)
           h == CHOOSE h : h = Sums(f, T, h)
<1>1. IsFiniteSet(T) /\ T \in SUBSET S
  BY FS_Subset
<1>2. g = Sums(f, S, g) /\ h = Sums(f, T, h)
  BY <1>1, SumsExist
<1>3. SumFunctionOnSet(f, S) = g[S] /\ SumFunctionOnSet(f, T) = h[T]
  BY SumUnfold
<1> HIDE DEF g, h
<1>4. g[T] = h[T]
  BY <1>1, <1>2, SumsAgree
<1>5. g[S] = Sums(f, S, g)[S]
  BY <1>2
<1>6. QED BY <1>3, <1>4, <1>5 DEF Sums

LEMMA SumType ==
  ASSUME NEW f, NEW S, IsFiniteSet(S), \A x \in S : f[x] \in Int
  PROVE  SumFunctionOnSet(f, S) \in Int
<1> DEFINE Bad == {n \in Nat : \E s \in SUBSET S : Cardinality(s) = n /\ SumFunctionOnSet(f, s) \notin Int}
<1>1. \A s \in SUBSET S : IsFiniteSet(s) /\ Cardinality(s) \in Nat
  BY FS_Subset, FS_CardinalityType
<1>2. SUFFICES ASSUME Bad # {} PROVE FALSE
  BY <1>1
<1>3. PICK n \in Bad : \A m \in Bad : n <= m
  BY <1>2, NatLeast
<1>4. PICK s \in SUBSET S : Cardinality(s) = n /\ SumFunctionOnSet(f, s) \notin Int
  BY <1>3
<1>5. s # {}
  BY <1>4, SumEmpty
<1> DEFINE t == s \ {pick(s)}
<1>6. t \in SUBSET S /\ pick(s) \in S /\ Cardinality(t) = n - 1 /\ n - 1 \in Nat
  <2>1. pick(s) \in s /\ Cardinality(t) = n - 1 /\ Cardinality(t) \in Nat
    BY <1>1, <1>4, <1>5, PickSmaller, FS_CardinalityType
  <2>2. QED BY <2>1
<1>7. n - 1 \notin Bad
  BY <1>3, <1>6
<1>8. SumFunctionOnSet(f, t) \in Int
  BY <1>6, <1>7
<1>9. SumFunctionOnSet(f, s) = f[pick(s)] + SumFunctionOnSet(f, t)
  BY <1>1, <1>5, SumPick
<1>10. QED BY <1>4, <1>6, <1>8, <1>9

\* The order in which the elements are added makes no difference.
LEMMA SumRemove ==
  ASSUME NEW f, NEW S, IsFiniteSet(S), \A x \in S : f[x] \in Int, NEW x \in S
  PROVE  SumFunctionOnSet(f, S) = f[x] + SumFunctionOnSet(f, S \ {x})
<1> DEFINE Sum(s) == SumFunctionOnSet(f, s)
           Apart(s, y) == Sum(s) = f[y] + Sum(s \ {y})
           Bad == {n \in Nat : \E s \in SUBSET S : Cardinality(s) = n /\ \E y \in s : ~Apart(s, y)}
<1>1. \A s \in SUBSET S : IsFiniteSet(s) /\ Cardinality(s) \in Nat /\ Sum(s) \in Int
  BY FS_Subset, FS_CardinalityType, SumType
<1>2. SUFFICES ASSUME Bad # {} PROVE FALSE
  BY <1>1
<1>3. PICK n \in Bad : \A m \in Bad : n <= m
  BY <1>2, NatLeast
<1>4. PICK s \in SUBSET S : Cardinality(s) = n /\ \E y \in s : ~Apart(s, y)
  BY <1>3
<1> PICK y \in s : ~Apart(s, y)
  BY <1>4
<1> DEFINE p == pick(s)
<1>5. n - 1 \in Nat /\ n - 1 < n /\ \A z \in s : s \ {z} \in SUBSET S /\ Cardinality(s \ {z}) = n - 1
  <2>1. \A z \in s : s \ {z} \in SUBSET S /\ Cardinality(s \ {z}) = n - 1
    BY <1>1, <1>4, FS_RemoveElement
  <2>2. n \in Nat /\ n - 1 \in Nat
    BY <1>1, <1>3, <1>4, <2>1
  <2>3. QED BY <2>1, <2>2
<1>6. p \in s /\ Apart(s, p)
  BY <1>1, <1>4, PickSmaller, SumPick
<1>7. p # y
  BY <1>4, <1>6
<1>8. n - 1 \notin Bad
  BY <1>3, <1>5
<1>9. Apart(s \ {p}, y) /\ Apart(s \ {y}, p)
  BY <1>4, <1>5, <1>6, <1>7, <1>8
<1>10. (s \ {p}) \ {y} = (s \ {y}) \ {p}
  OBVIOUS
<1>11. f[p] \in Int /\ f[y] \in Int /\ Sum((s \ {y}) \ {p}) \in Int
  BY <1>1, <1>4, <1>6
<1>12. /\ Sum(s) = f[p] + Sum(s \ {p})
       /\ Sum(s \ {p}) = f[y] + Sum((s \ {y}) \ {p})
       /\ Sum(s \ {y}) = f[p] + Sum((s \ {y}) \ {p})
  BY <1>6, <1>9, <1>10
<1>13. Sum(s) # f[y] + Sum(s \ {y})
  OBVIOUS
<1> HIDE DEF Sum
<1>14. QED BY <1>11, <1>12, <1>13

LEMMA SumAdd ==
  ASSUME NEW f, NEW S, IsFiniteSet(S), \A x \in S : f[x] \in Int, NEW x, x \notin S, f[x] \in Int
  PROVE  SumFunctionOnSet(f, S \cup {x}) = f[x] + SumFunctionOnSet(f, S)
<1>1. IsFiniteSet(S \cup {x}) /\ (S \cup {x}) \ {x} = S
  BY FS_AddElement
<1>2. QED BY <1>1, SumRemove

\* Only the values on the set count.
LEMMA SumSame ==
  ASSUME NEW f, NEW g, NEW S, IsFiniteSet(S), \A x \in S : f[x] = g[x]
  PROVE  SumFunctionOnSet(f, S) = SumFunctionOnSet(g, S)
<1> DEFINE Bad == {n \in Nat : \E s \in SUBSET S :
                     Cardinality(s) = n /\ SumFunctionOnSet(f, s) # SumFunctionOnSet(g, s)}
<1>1. \A s \in SUBSET S : IsFiniteSet(s) /\ Cardinality(s) \in Nat
  BY FS_Subset, FS_CardinalityType
<1>2. SUFFICES ASSUME Bad # {} PROVE FALSE
  BY <1>1
<1>3. PICK n \in Bad : \A m \in Bad : n <= m
  BY <1>2, NatLeast
<1>4. PICK s \in SUBSET S :
        Cardinality(s) = n /\ SumFunctionOnSet(f, s) # SumFunctionOnSet(g, s)
  BY <1>3
<1>5. s # {}
  BY <1>4, SumEmpty
<1> DEFINE t == s \ {pick(s)}
<1>6. t \in SUBSET S /\ pick(s) \in S /\ Cardinality(t) = n - 1 /\ n \in Nat /\ n - 1 \in Nat
  <2>1. pick(s) \in s /\ Cardinality(t) = n - 1 /\ Cardinality(t) \in Nat /\ n \in Nat
    BY <1>1, <1>4, <1>5, PickSmaller, FS_CardinalityType
  <2>2. QED BY <2>1
<1>7. n - 1 \notin Bad
  BY <1>3, <1>6
<1>8. SumFunctionOnSet(f, t) = SumFunctionOnSet(g, t)
  BY <1>6, <1>7
<1>9. QED BY <1>1, <1>4, <1>5, <1>6, <1>8, SumPick

\* A function that grows nowhere else.
LEMMA SumGrow ==
  ASSUME NEW f, NEW g, NEW S, IsFiniteSet(S), NEW x \in S,
         \A y \in S : f[y] \in Int /\ g[y] \in Int, \A y \in S \ {x} : f[y] = g[y]
  PROVE  SumFunctionOnSet(g, S) = SumFunctionOnSet(f, S) + g[x] - f[x]
<1>1. IsFiniteSet(S \ {x})
  BY FS_Subset
<1>2. SumFunctionOnSet(f, S \ {x}) = SumFunctionOnSet(g, S \ {x})
  BY <1>1, SumSame
<1>3. SumFunctionOnSet(f, S \ {x}) \in Int
  BY <1>1, SumType
<1>4. QED BY <1>2, <1>3, SumRemove

\* A sum of natural numbers is no less than any part of it.
LEMMA SumNat ==
  ASSUME NEW f, NEW S, IsFiniteSet(S), \A x \in S : f[x] \in Nat
  PROVE  SumFunctionOnSet(f, S) \in Nat
<1> DEFINE Bad == {n \in Nat : \E s \in SUBSET S : Cardinality(s) = n /\ SumFunctionOnSet(f, s) \notin Nat}
<1>1. \A s \in SUBSET S : IsFiniteSet(s) /\ Cardinality(s) \in Nat
  BY FS_Subset, FS_CardinalityType
<1>2. SUFFICES ASSUME Bad # {} PROVE FALSE
  BY <1>1
<1>3. PICK n \in Bad : \A m \in Bad : n <= m
  BY <1>2, NatLeast
<1>4. PICK s \in SUBSET S : Cardinality(s) = n /\ SumFunctionOnSet(f, s) \notin Nat
  BY <1>3
<1>5. s # {}
  BY <1>4, SumEmpty
<1> DEFINE t == s \ {pick(s)}
<1>6. t \in SUBSET S /\ pick(s) \in S /\ Cardinality(t) = n - 1 /\ n \in Nat /\ n - 1 \in Nat
  <2>1. pick(s) \in s /\ Cardinality(t) = n - 1 /\ Cardinality(t) \in Nat /\ n \in Nat
    BY <1>1, <1>4, <1>5, PickSmaller, FS_CardinalityType
  <2>2. QED BY <2>1
<1>7. n - 1 \notin Bad
  BY <1>3, <1>6
<1>8. SumFunctionOnSet(f, t) \in Nat
  BY <1>6, <1>7
<1>9. SumFunctionOnSet(f, s) = f[pick(s)] + SumFunctionOnSet(f, t)
  BY <1>1, <1>5, SumPick
<1>10. QED BY <1>4, <1>6, <1>8, <1>9

\* As often the same number.
LEMMA SumConstant ==
  ASSUME NEW f, NEW c \in Int, NEW S, IsFiniteSet(S), \A x \in S : f[x] = c
  PROVE  SumFunctionOnSet(f, S) = Cardinality(S) * c
<1> DEFINE Bad == {n \in Nat : \E s \in SUBSET S :
                     Cardinality(s) = n /\ SumFunctionOnSet(f, s) # Cardinality(s) * c}
<1>1. \A s \in SUBSET S : IsFiniteSet(s) /\ Cardinality(s) \in Nat
  BY FS_Subset, FS_CardinalityType
<1>2. SUFFICES ASSUME Bad # {} PROVE FALSE
  BY <1>1
<1>3. PICK n \in Bad : \A m \in Bad : n <= m
  BY <1>2, NatLeast
<1>4. PICK s \in SUBSET S : Cardinality(s) = n /\ SumFunctionOnSet(f, s) # Cardinality(s) * c
  BY <1>3
<1>5. s # {}
  <2>1. 0 * c = 0 /\ SumFunctionOnSet(f, {}) = 0 /\ Cardinality({}) = 0
    BY SumEmpty, FS_EmptySet
  <2>2. QED BY <1>4, <2>1
<1> DEFINE t == s \ {pick(s)}
<1>6. t \in SUBSET S /\ pick(s) \in S /\ Cardinality(t) = n - 1 /\ n \in Nat /\ n - 1 \in Nat
  <2>1. pick(s) \in s /\ Cardinality(t) = n - 1 /\ Cardinality(t) \in Nat /\ n \in Nat
    BY <1>1, <1>4, <1>5, PickSmaller, FS_CardinalityType
  <2>2. QED BY <2>1
<1>7. n - 1 \notin Bad
  BY <1>3, <1>6
<1>8. SumFunctionOnSet(f, t) = (n - 1) * c
  BY <1>6, <1>7
<1>9. SumFunctionOnSet(f, s) = c + SumFunctionOnSet(f, t)
  BY <1>1, <1>5, <1>6, SumPick
<1>10. n * c = c + (n - 1) * c
  BY <1>6
<1>11. QED BY <1>4, <1>8, <1>9, <1>10

----------------------------------------------------------------------------
(* Recursion along an interval: step[k] makes of the value before k the one at k. *)

Folding(f, n, start, step) ==
  /\ DOMAIN f = 0 .. n /\ f[0] = start
  /\ \A k \in 1 .. n : f[k] = step[k][f[k - 1]]

LEMMA FoldExists ==
  ASSUME NEW n \in Nat, NEW S, NEW start \in S, NEW step, \A k \in 1 .. n : \A x \in S : step[k][x] \in S
  PROVE  \E f \in [0 .. n -> S] : Folding(f, n, start, step)
<1> DEFINE Bad == {m \in Nat : m <= n /\ ~ \E f \in [0 .. m -> S] : Folding(f, m, start, step)}
<1> SUFFICES ASSUME Bad # {} PROVE FALSE
  OBVIOUS
<1>1. PICK m \in Bad : \A k \in Bad : m <= k
  BY NatLeast
<1>2. m # 0
  <2> SUFFICES ASSUME m = 0 PROVE FALSE
    OBVIOUS
  <2> DEFINE f == [k \in 0 .. 0 |-> start]
  <2>1. f \in [0 .. 0 -> S] /\ Folding(f, 0, start, step)
    BY DEF Folding
  <2> HIDE DEF f
  <2>2. QED BY <2>1
<1>3. m - 1 \in Nat /\ m - 1 <= n /\ m - 1 \notin Bad /\ m \in Nat /\ m <= n
  BY <1>1, <1>2
<1>4. PICK g \in [0 .. (m - 1) -> S] : Folding(g, m - 1, start, step)
  BY <1>3
<1>5. /\ m - 1 \in 0 .. (m - 1) /\ 0 \in 0 .. m /\ 0 # m /\ m \in 1 .. n
      /\ \A k \in 0 .. m : k # m => k \in 0 .. (m - 1)
      /\ \A k \in 1 .. m : k - 1 \in 0 .. m /\ k - 1 # m /\ k \in 0 .. m /\ k \in 1 .. n
      /\ \A k \in 1 .. m : k # m => k \in 1 .. (m - 1)
      /\ \A k \in 0 .. (m - 1) : k \in 0 .. m /\ k # m
  BY <1>2, <1>3
<1> DEFINE f == [k \in 0 .. m |-> IF k = m THEN step[m][g[m - 1]] ELSE g[k]]
<1>6. \A k \in 0 .. m : f[k] \in S
  BY <1>5
<1>7. f \in [0 .. m -> S]
  BY <1>6
<1>8. /\ DOMAIN f = 0 .. m
      /\ f[m] = step[m][g[m - 1]] /\ \A k \in 0 .. (m - 1) : f[k] = g[k]
  BY <1>5
<1>9. f[0] = start /\ \A k \in 1 .. m : f[k] = step[k][f[k - 1]]
  <2>1. f[0] = start
    BY <1>4, <1>5, <1>8 DEF Folding
  <2>2. ASSUME NEW k \in 1 .. m PROVE f[k] = step[k][f[k - 1]]
    <3> HIDE DEF f
    <3>1. CASE k = m
      BY <1>5, <1>8, <3>1
    <3>2. CASE k # m
      <4>1. k \in 1 .. (m - 1) /\ k - 1 \in 0 .. (m - 1) /\ k \in 0 .. (m - 1)
        BY <1>5, <3>2
      <4>2. g[k] = step[k][g[k - 1]]
        BY <1>4, <4>1 DEF Folding
      <4>3. QED BY <1>8, <4>1, <4>2
    <3>3. QED BY <3>1, <3>2
  <2>3. QED BY <2>1, <2>2
<1> HIDE DEF f
<1>10. Folding(f, m, start, step)
  BY <1>8, <1>9 DEF Folding
<1>11. QED BY <1>1, <1>7, <1>10

\* What holds of the start and is kept by each step holds of the end.
LEMMA FoldKeeps ==
  ASSUME NEW n \in Nat, NEW holds, 0 \in holds, \A k \in 1 .. n : k - 1 \in holds => k \in holds
  PROVE  0 .. n \subseteq holds
<1> DEFINE Bad == {m \in Nat : m <= n /\ m \notin holds}
<1> SUFFICES ASSUME Bad # {} PROVE FALSE
  OBVIOUS
<1>1. PICK m \in Bad : \A k \in Bad : m <= k
  BY NatLeast
<1>2. m # 0 /\ m \in Nat /\ m <= n /\ m \notin holds
  BY <1>1
<1>3. m - 1 \in Nat /\ m - 1 <= n /\ m \in 1 .. n /\ ~(m <= m - 1)
  BY <1>2
<1>4. m - 1 \in holds
  BY <1>1, <1>3
<1>5. QED BY <1>2, <1>3, <1>4
=============================================================================
