-------------------------- MODULE Collections_proofs --------------------------
(***************************************************************************)
(* What the proofs of the other modules need of sums over a finite set and *)
(* of vectors copied without an entry.  Both are defined by recursion: the *)
(* sum of the community modules takes some element out of the domain at a  *)
(* time, the copy goes through the vector.  That there are such functions, *)
(* and what they yield, is shown here by induction, with the set of what   *)
(* is known to be good in place of a predicate.                            *)
(***************************************************************************)
EXTENDS Vectors, FiniteSets, Functions, FiniteSetTheorems, WellFoundedInduction, TLAPS

-----------------------------------------------------------------------------
(* Induction, with the sets that are known to be good as one set.          *)
LEMMA SubsetInduction ==
  ASSUME NEW A, IsFiniteSet(A), NEW W,
         \A s \in SUBSET A : (\A t \in SUBSET s : t # s => t \in W) => s \in W
  PROVE  \A s \in SUBSET A : s \in W
<1> DEFINE Bad == {s \in SUBSET A : s \notin W}
<1> SUFFICES ASSUME Bad # {} PROVE FALSE
  OBVIOUS
<1>1. IsWellFoundedOn(StrictSubsetOrdering(A), FiniteSubsetsOf(A))
  BY FS_StrictSubsetOrderingWellFounded
<1>2. PICK s \in Bad : \A t \in Bad : ~ (<<t, s>> \in StrictSubsetOrdering(A))
  <2>1. Bad \subseteq FiniteSubsetsOf(A)
    BY FS_Subset DEF FiniteSubsetsOf
  <2> HIDE DEF Bad
  <2> QED
    BY <1>1, <2>1, WFMin
<1>3. ASSUME NEW t \in SUBSET s, t # s PROVE t \in W
  <2>1. t \in SUBSET A /\ <<t, s>> \in (SUBSET A) \X (SUBSET A)
    OBVIOUS
  <2>2. <<t, s>> \in StrictSubsetOrdering(A)
    BY <1>3, <2>1 DEF StrictSubsetOrdering
  <2> QED
    BY <1>2, <2>1, <2>2
<1> QED
  BY <1>3

(* The same over the natural numbers.                                      *)
LEMMA NumberInduction ==
  ASSUME NEW W, 0 \in W, \A k \in Nat : k \in W => k + 1 \in W
  PROVE  \A k \in Nat : k \in W
<1> DEFINE Bad == {k \in Nat : k \notin W}
<1> SUFFICES ASSUME Bad # {} PROVE FALSE
  OBVIOUS
<1>1. PICK m \in Bad : \A k \in Bad : ~ (<<k, m>> \in OpToRel(<, Nat))
  <2>1. Bad \subseteq Nat
    OBVIOUS
  <2> HIDE DEF Bad
  <2> QED
    BY <2>1, NatLessThanWellFounded, WFMin
<1>2. m - 1 \in Nat /\ m - 1 \in W
  <2>1. m # 0
    OBVIOUS
  <2>2. <<m - 1, m>> \in Nat \X Nat /\ m - 1 < m
    BY <2>1
  <2>3. <<m - 1, m>> \in OpToRel(<, Nat)
    BY <2>2 DEF OpToRel
  <2> QED
    BY <1>1, <2>2, <2>3
<1> QED
  BY <1>2

-----------------------------------------------------------------------------
(* Sums                                                                    *)

Pick(s) == CHOOSE x \in s : TRUE
Rest(s) == s \ {Pick(s)}

(* g adds f up over the sets of D.                                         *)
AddsUp(g, f, D) ==
  \A s \in D : g[s] = IF s = {} THEN 0 ELSE f[Pick(s)] + g[Rest(s)]

LEMMA RestProper ==
  ASSUME NEW s, s # {}
  PROVE  Pick(s) \in s /\ Rest(s) \in SUBSET s /\ Rest(s) # s
BY DEF Pick, Rest

(* The subsets of A that have at most n elements.                          *)
Small(A, n) == {s \in SUBSET A : Cardinality(s) <= n}

LEMMA SmallRest ==
  ASSUME NEW A, IsFiniteSet(A), NEW n \in Nat, NEW s \in Small(A, n + 1), s # {}
  PROVE  Rest(s) \in Small(A, n)
<1>1. s \in SUBSET A /\ IsFiniteSet(s) /\ Cardinality(s) <= n + 1
  BY FS_Subset DEF Small
<1>2. Cardinality(Rest(s)) = Cardinality(s) - 1 /\ Cardinality(s) \in Nat
  BY <1>1, RestProper, FS_RemoveElement, FS_CardinalityType DEF Rest
<1> QED
  BY <1>1, <1>2, RestProper DEF Small

LEMMA SumUpTo ==
  ASSUME NEW A, IsFiniteSet(A), NEW f, \A a \in A : f[a] \in Int, NEW n \in Nat
  PROVE  \E g \in [Small(A, n) -> Int] : AddsUp(g, f, Small(A, n))
<1> DEFINE Done == {k \in Nat : \E g \in [Small(A, k) -> Int] : AddsUp(g, f, Small(A, k))}
<1>1. 0 \in Done
  <2> DEFINE g == [s \in Small(A, 0) |-> 0]
  <2>1. ASSUME NEW s \in Small(A, 0) PROVE s = {}
    <3>1. IsFiniteSet(s) /\ Cardinality(s) <= 0
      BY FS_Subset DEF Small
    <3>2. Cardinality(s) \in Nat
      BY <3>1, FS_CardinalityType
    <3>3. Cardinality(s) = 0
      BY <3>1, <3>2
    <3> QED
      BY <3>1, <3>3, FS_EmptySet
  <2>2. g \in [Small(A, 0) -> Int] /\ AddsUp(g, f, Small(A, 0))
    BY <2>1 DEF AddsUp
  <2> QED
    BY <2>2
<1>2. ASSUME NEW k \in Done PROVE k + 1 \in Done
  <2>1. PICK g \in [Small(A, k) -> Int] : AddsUp(g, f, Small(A, k))
    OBVIOUS
  <2> DEFINE h == [s \in Small(A, k + 1) |->
                     IF s = {} THEN 0 ELSE f[Pick(s)] + g[Rest(s)]]
  <2>2. ASSUME NEW s \in Small(A, k + 1), s # {}
        PROVE  f[Pick(s)] \in Int /\ g[Rest(s)] \in Int /\ Rest(s) \in Small(A, k)
    <3>1. Rest(s) \in Small(A, k)
      BY <2>2, SmallRest
    <3>2. Pick(s) \in A
      BY <2>2, RestProper DEF Small
    <3> QED
      BY <3>1, <3>2
  <2>3. h \in [Small(A, k + 1) -> Int]
    BY <2>2
  <2>4. ASSUME NEW s \in Small(A, k) PROVE s \in Small(A, k + 1) /\ h[s] = g[s]
    <3>1. s \in Small(A, k + 1)
      <4>1. IsFiniteSet(s) /\ Cardinality(s) <= k
        BY FS_Subset DEF Small
      <4>2. Cardinality(s) \in Nat
        BY <4>1, FS_CardinalityType
      <4> QED
        BY <4>1, <4>2 DEF Small
    <3> QED
      BY <2>1, <3>1 DEF AddsUp
  <2>5. AddsUp(h, f, Small(A, k + 1))
    <3>1. ASSUME NEW s \in Small(A, k + 1), s # {} PROVE h[s] = f[Pick(s)] + h[Rest(s)]
      BY <2>2, <2>4, <3>1
    <3>2. ASSUME NEW s \in Small(A, k + 1), s = {} PROVE h[s] = 0
      BY <3>2
    <3> QED
      BY <3>1, <3>2 DEF AddsUp
  <2> HIDE DEF h
  <2> QED
    BY <2>3, <2>5
<1>3. \A k \in Nat : k \in Done
  <2> HIDE DEF Done
  <2> QED
    BY <1>1, <1>2, NumberInduction
<1> QED
  BY <1>3

(* The sum of f over A is what a function that adds f up says of A.        *)
LEMMA SumIs ==
  ASSUME NEW A, IsFiniteSet(A), NEW f, \A a \in A : f[a] \in Int
  PROVE  \E g \in [SUBSET A -> Int] :
           AddsUp(g, f, SUBSET A) /\ SumFunctionOnSet(f, A) = g[A]
<1> DEFINE D == SUBSET A
           Rec(g) == g = [s \in D |-> IF s = {} THEN 0 ELSE f[Pick(s)] + g[Rest(s)]]
<1>1. D = Small(A, Cardinality(A)) /\ Cardinality(A) \in Nat
  BY FS_Subset, FS_CardinalityType DEF Small
<1>2. PICK g \in [D -> Int] : AddsUp(g, f, D)
  <2>1. \E g \in [Small(A, Cardinality(A)) -> Int] : AddsUp(g, f, Small(A, Cardinality(A)))
    BY <1>1, SumUpTo
  <2> HIDE DEF D
  <2> QED
    BY <1>1, <2>1
<1>3. Rec(g)
  <2>1. g = [s \in D |-> g[s]]
    BY <1>2
  <2> QED
    BY <1>2, <2>1 DEF AddsUp
<1>4. Rec(CHOOSE h : Rec(h))
  <2> HIDE DEF Rec
  <2> QED
    BY <1>3
<1>5. PICK h : h = (CHOOSE i : Rec(i)) /\ Rec(h)
  BY <1>4
<1>6. AddsUp(h, f, D)
  BY <1>5 DEF AddsUp
<1>7. \A s \in D : h[s] = g[s]
  <2> DEFINE W == {s \in D : h[s] = g[s]}
  <2>1. ASSUME NEW s \in D, \A t \in SUBSET s : t # s => t \in W PROVE s \in W
    <3>1. CASE s = {}
      BY <1>2, <1>6, <3>1 DEF AddsUp
    <3>2. CASE s # {}
      <4>1. Rest(s) \in W
        BY <2>1, <3>2, RestProper
      <4> QED
        BY <1>2, <1>6, <3>2, <4>1 DEF AddsUp
    <3> QED
      BY <3>1, <3>2
  <2>2. \A s \in D : s \in W
    <3> HIDE DEF W
    <3> QED
      BY <2>1, SubsetInduction
  <2> QED
    BY <2>2
<1>8. h = g
  <2>1. h = [s \in D |-> h[s]]
    BY <1>5
  <2>2. g = [s \in D |-> g[s]]
    BY <1>2
  <2> QED
    BY <1>7, <2>1, <2>2
<1>9. SumFunctionOnSet(f, A) = h[A]
  BY <1>5 DEF SumFunctionOnSet, FoldFunctionOnSet, MapThenFoldSet, Pick, Rest
<1> QED
  BY <1>2, <1>8, <1>9

(* Functions that agree have the same sum.                                 *)
LEMMA SumSame ==
  ASSUME NEW A, IsFiniteSet(A), NEW f, NEW g, \A a \in A : f[a] \in Int /\ g[a] = f[a]
  PROVE  SumFunctionOnSet(g, A) = SumFunctionOnSet(f, A)
<1>1. PICK F \in [SUBSET A -> Int] : AddsUp(F, f, SUBSET A) /\ SumFunctionOnSet(f, A) = F[A]
  BY SumIs
<1>2. PICK G \in [SUBSET A -> Int] : AddsUp(G, g, SUBSET A) /\ SumFunctionOnSet(g, A) = G[A]
  BY SumIs
<1> DEFINE W == {s \in SUBSET A : G[s] = F[s]}
<1>3. ASSUME NEW s \in SUBSET A, \A t \in SUBSET s : t # s => t \in W PROVE s \in W
  <2>1. CASE s = {}
    BY <1>1, <1>2, <2>1 DEF AddsUp
  <2>2. CASE s # {}
    <3>1. Rest(s) \in W /\ Pick(s) \in A
      BY <1>3, <2>2, RestProper
    <3> QED
      BY <1>1, <1>2, <2>2, <3>1 DEF AddsUp
  <2> QED
    BY <2>1, <2>2
<1>4. \A s \in SUBSET A : s \in W
  <2> HIDE DEF W
  <2> QED
    BY <1>3, SubsetInduction
<1> QED
  BY <1>1, <1>2, <1>4

(* The sum of two functions, point by point, has the sum of their sums.    *)
LEMMA SumPlus ==
  ASSUME NEW A, IsFiniteSet(A), NEW f, NEW g, NEW h,
         \A a \in A : f[a] \in Int /\ g[a] \in Int /\ h[a] = f[a] + g[a]
  PROVE  SumFunctionOnSet(h, A) = SumFunctionOnSet(f, A) + SumFunctionOnSet(g, A)
<1>1. PICK F \in [SUBSET A -> Int] : AddsUp(F, f, SUBSET A) /\ SumFunctionOnSet(f, A) = F[A]
  BY SumIs
<1>2. PICK G \in [SUBSET A -> Int] : AddsUp(G, g, SUBSET A) /\ SumFunctionOnSet(g, A) = G[A]
  BY SumIs
<1>3. PICK H \in [SUBSET A -> Int] : AddsUp(H, h, SUBSET A) /\ SumFunctionOnSet(h, A) = H[A]
  <2>1. \A a \in A : h[a] \in Int
    OBVIOUS
  <2> QED
    BY <2>1, SumIs
<1> DEFINE W == {s \in SUBSET A : H[s] = F[s] + G[s]}
<1>4. ASSUME NEW s \in SUBSET A, \A t \in SUBSET s : t # s => t \in W PROVE s \in W
  <2>1. CASE s = {}
    <3>1. F[s] = 0 /\ G[s] = 0 /\ H[s] = 0
      BY <1>1, <1>2, <1>3, <2>1 DEF AddsUp
    <3> QED
      BY <3>1
  <2>2. CASE s # {}
    <3>1. /\ Rest(s) \in W /\ Rest(s) \in SUBSET A /\ Pick(s) \in A
      BY <1>4, <2>2, RestProper
    <3>2. /\ F[s] = f[Pick(s)] + F[Rest(s)] /\ G[s] = g[Pick(s)] + G[Rest(s)]
          /\ H[s] = h[Pick(s)] + H[Rest(s)]
      BY <1>1, <1>2, <1>3, <2>2 DEF AddsUp
    <3>3. /\ F[Rest(s)] \in Int /\ G[Rest(s)] \in Int
          /\ H[Rest(s)] = F[Rest(s)] + G[Rest(s)]
          /\ f[Pick(s)] \in Int /\ g[Pick(s)] \in Int
          /\ h[Pick(s)] = f[Pick(s)] + g[Pick(s)]
      BY <3>1
    <3> QED
      BY <3>2, <3>3
  <2> QED
    BY <2>1, <2>2
<1>5. \A s \in SUBSET A : s \in W
  <2> HIDE DEF W
  <2> QED
    BY <1>4, SubsetInduction
<1> QED
  BY <1>1, <1>2, <1>3, <1>5

(* It does not matter which element is added last.                         *)
LEMMA SumTake ==
  ASSUME NEW A, IsFiniteSet(A), NEW f, \A a \in A : f[a] \in Int, NEW a \in A
  PROVE  SumFunctionOnSet(f, A) = f[a] + SumFunctionOnSet(f, A \ {a})
<1>1. PICK F \in [SUBSET A -> Int] : AddsUp(F, f, SUBSET A) /\ SumFunctionOnSet(f, A) = F[A]
  BY SumIs
<1> DEFINE B == A \ {a}
<1>2. IsFiniteSet(B) /\ B \in SUBSET A
  BY FS_Subset
<1>3. PICK G \in [SUBSET B -> Int] : AddsUp(G, f, SUBSET B) /\ SumFunctionOnSet(f, B) = G[B]
  BY <1>2, SumIs
<1> HIDE DEF B
<1>4. \A s \in SUBSET B : G[s] = F[s]
  <2> DEFINE W == {s \in SUBSET B : G[s] = F[s]}
  <2>1. ASSUME NEW s \in SUBSET B, \A t \in SUBSET s : t # s => t \in W PROVE s \in W
    <3>0. s \in SUBSET A
      BY <1>2
    <3>1. CASE s = {}
      BY <1>1, <1>3, <3>0, <3>1 DEF AddsUp
    <3>2. CASE s # {}
      <4>1. Rest(s) \in W
        BY <2>1, <3>2, RestProper
      <4> QED
        BY <1>1, <1>3, <3>0, <3>2, <4>1 DEF AddsUp
    <3> QED
      BY <3>1, <3>2
  <2>2. \A s \in SUBSET B : s \in W
    <3> HIDE DEF W
    <3> QED
      BY <1>2, <2>1, SubsetInduction
  <2> QED
    BY <2>2
<1> DEFINE V == {s \in SUBSET A : \A b \in s : F[s] = f[b] + F[s \ {b}]}
<1>5. ASSUME NEW s \in SUBSET A, \A t \in SUBSET s : t # s => t \in V, NEW b \in s
      PROVE  F[s] = f[b] + F[s \ {b}]
  <2> DEFINE c == Pick(s)
  <2>1. c \in s /\ F[s] = f[c] + F[s \ {c}]
    BY <1>1, RestProper DEF AddsUp, Rest
  <2> HIDE DEF c
  <2>2. CASE b = c
    BY <2>1, <2>2
  <2>3. CASE b # c
    <3>1. s \ {c} \in V /\ s \ {b} \in V
      BY <1>5, <2>1
    <3>2. PICK u \in SUBSET A : u = (s \ {c}) \ {b} /\ u = (s \ {b}) \ {c}
      <4>1. (s \ {c}) \ {b} = (s \ {b}) \ {c} /\ (s \ {b}) \ {c} \in SUBSET A
        OBVIOUS
      <4> QED
        BY <4>1
    <3>3. F[s \ {c}] = f[b] + F[u] /\ F[s \ {b}] = f[c] + F[u]
      BY <2>1, <2>3, <3>1, <3>2
    <3>4. F[u] \in Int /\ f[b] \in Int /\ f[c] \in Int
      BY <2>1
    <3>5. F[s] = f[c] + (f[b] + F[u])
      BY <2>1, <3>3
    <3>6. f[c] + (f[b] + F[u]) = f[b] + (f[c] + F[u])
      BY <3>4
    <3> QED
      BY <3>3, <3>5, <3>6
  <2> QED
    BY <2>2, <2>3
<1>6. \A s \in SUBSET A : s \in V
  <2>1. \A s \in SUBSET A : (\A t \in SUBSET s : t # s => t \in V) => s \in V
    BY <1>5
  <2> HIDE DEF V
  <2> QED
    BY <2>1, SubsetInduction
<1> QED
  BY <1>1, <1>2, <1>3, <1>4, <1>6 DEF B

-----------------------------------------------------------------------------
(* What the modules need of sums.                                          *)
LEMMA SumInt ==
  ASSUME NEW A, IsFiniteSet(A), NEW f, \A a \in A : f[a] \in Int
  PROVE  SumFunctionOnSet(f, A) \in Int
<1>1. PICK g \in [SUBSET A -> Int] : SumFunctionOnSet(f, A) = g[A]
  BY SumIs
<1> QED
  BY <1>1

LEMMA SumEmpty ==
  ASSUME NEW f
  PROVE  SumFunctionOnSet(f, {}) = 0
<1>1. PICK g \in [SUBSET {} -> Int] : AddsUp(g, f, SUBSET {}) /\ SumFunctionOnSet(f, {}) = g[{}]
  BY FS_EmptySet, SumIs
<1>2. {} \in SUBSET {}
  OBVIOUS
<1> QED
  BY <1>1, <1>2 DEF AddsUp

(* A domain that grows by one element.                                     *)
LEMMA SumAdd ==
  ASSUME NEW A, IsFiniteSet(A), NEW a, a \notin A, NEW B, B = A \cup {a},
         NEW f, NEW g, \A b \in A : f[b] \in Int /\ g[b] = f[b],
         g[a] \in Int
  PROVE  SumFunctionOnSet(g, B) = SumFunctionOnSet(f, A) + g[a]
<1>1. IsFiniteSet(B) /\ a \in B
  BY FS_AddElement
<1>2. \A b \in B : g[b] \in Int
  OBVIOUS
<1>3. B \ {a} = A
  OBVIOUS
<1>4. SumFunctionOnSet(g, B) = g[a] + SumFunctionOnSet(g, A)
  BY <1>1, <1>2, <1>3, SumTake
<1>5. SumFunctionOnSet(g, A) = SumFunctionOnSet(f, A) /\ SumFunctionOnSet(f, A) \in Int
  BY SumSame, SumInt
<1> QED
  BY <1>4, <1>5

LEMMA SumNext ==
  ASSUME NEW n \in Nat, NEW f, NEW g, g[n + 1] \in Int,
         \A k \in 1 .. n : f[k] \in Int /\ g[k] = f[k]
  PROVE  SumFunctionOnSet(g, 1 .. n + 1) = SumFunctionOnSet(f, 1 .. n) + g[n + 1]
<1> DEFINE A == 1 .. n
           B == 1 .. n + 1
<1>1. IsFiniteSet(A) /\ n + 1 \notin A
  BY FS_Interval
<1>2. B = A \cup {n + 1}
  OBVIOUS
<1>3. g[n + 1] \in Int /\ \A k \in A : f[k] \in Int /\ g[k] = f[k]
  OBVIOUS
<1> HIDE DEF A, B
<1>4. SumFunctionOnSet(g, B) = SumFunctionOnSet(f, A) + g[n + 1]
  BY <1>1, <1>2, <1>3, SumAdd
<1> QED
  BY <1>4 DEF A, B

(* A function changed at one point.                                        *)
LEMMA SumChange ==
  ASSUME NEW A, IsFiniteSet(A), NEW a \in A, NEW f, NEW g,
         \A b \in A : f[b] \in Int /\ g[b] \in Int /\ (b # a => g[b] = f[b])
  PROVE  SumFunctionOnSet(g, A) - g[a] = SumFunctionOnSet(f, A) - f[a]
<1> DEFINE B == A \ {a}
<1>1. IsFiniteSet(B)
  BY FS_Subset
<1>2. SumFunctionOnSet(f, A) = f[a] + SumFunctionOnSet(f, B)
  BY SumTake
<1>3. SumFunctionOnSet(g, A) = g[a] + SumFunctionOnSet(g, B)
  BY SumTake
<1>4. \A b \in B : f[b] \in Int /\ g[b] = f[b]
  OBVIOUS
<1> HIDE DEF B
<1>5. SumFunctionOnSet(g, B) = SumFunctionOnSet(f, B) /\ SumFunctionOnSet(f, B) \in Int
  BY <1>1, <1>4, SumSame, SumInt
<1>6. f[a] \in Int /\ g[a] \in Int
  OBVIOUS
<1> QED
  BY <1>2, <1>3, <1>5, <1>6

LEMMA SumZero ==
  ASSUME NEW A, IsFiniteSet(A), NEW f, \A a \in A : f[a] = 0
  PROVE  SumFunctionOnSet(f, A) = 0
<1>1. \A a \in A : f[a] \in Int /\ f[a] = f[a] + f[a]
  OBVIOUS
<1>2. PICK x \in Int : x = SumFunctionOnSet(f, A)
  BY <1>1, SumInt
<1>3. x = x + x
  <2> DEFINE sum(g) == SumFunctionOnSet(g, A)
  <2>1. sum(f) = sum(f) + sum(f)
    BY <1>1, SumPlus
  <2>2. x = sum(f)
    BY <1>2
  <2> HIDE DEF sum
  <2> QED
    BY <2>1, <2>2, Zenon
<1>4. x = 0
  BY <1>3
<1> QED
  BY <1>2, <1>4

(* Of numbers that are not negative the sum is none either.                *)
LEMMA SumNat ==
  ASSUME NEW A, IsFiniteSet(A), NEW f, \A a \in A : f[a] \in Nat
  PROVE  SumFunctionOnSet(f, A) \in Nat
<1>1. PICK F \in [SUBSET A -> Int] : AddsUp(F, f, SUBSET A) /\ SumFunctionOnSet(f, A) = F[A]
  <2>1. \A a \in A : f[a] \in Int
    OBVIOUS
  <2> QED
    BY <2>1, SumIs
<1> DEFINE W == {s \in SUBSET A : F[s] \in Nat}
<1>2. ASSUME NEW s \in SUBSET A, \A t \in SUBSET s : t # s => t \in W PROVE s \in W
  <2>1. CASE s = {}
    BY <1>1, <2>1 DEF AddsUp
  <2>2. CASE s # {}
    <3>1. Rest(s) \in W /\ Pick(s) \in A
      BY <1>2, <2>2, RestProper
    <3>2. F[Rest(s)] \in Nat /\ f[Pick(s)] \in Nat
      BY <3>1
    <3> QED
      BY <1>1, <2>2, <3>2 DEF AddsUp
  <2> QED
    BY <2>1, <2>2
<1>3. \A s \in SUBSET A : s \in W
  <2> HIDE DEF W
  <2> QED
    BY <1>2, SubsetInduction
<1> QED
  BY <1>1, <1>3

(* A function that is nowhere below another has no lesser sum.             *)
LEMMA SumMonotone ==
  ASSUME NEW A, IsFiniteSet(A), NEW f, NEW g,
         \A a \in A : f[a] \in Int /\ g[a] \in Int /\ f[a] <= g[a]
  PROVE  SumFunctionOnSet(f, A) <= SumFunctionOnSet(g, A)
<1> DEFINE d == [a \in A |-> g[a] - f[a]]
<1>1. \A a \in A : d[a] \in Nat /\ d[a] \in Int /\ g[a] = f[a] + d[a]
  OBVIOUS
<1> HIDE DEF d
<1>2. SumFunctionOnSet(g, A) = SumFunctionOnSet(f, A) + SumFunctionOnSet(d, A)
  BY <1>1, SumPlus
<1>3. SumFunctionOnSet(d, A) \in Nat /\ SumFunctionOnSet(f, A) \in Int
  BY <1>1, SumNat, SumInt
<1> QED
  BY <1>2, <1>3

-----------------------------------------------------------------------------
(* Vectors copied without an entry                                         *)

(* c[n] is the copy after n entries.                                       *)
Copies(c, s, e, m) ==
  /\ c[0] = <<>>
  /\ \A n \in 1 .. m : c[n] = IF s[n] = e THEN c[n - 1] ELSE Append(c[n - 1], s[n])

LEMMA CopyUpTo ==
  ASSUME NEW S, NEW s \in Seq(S), NEW e, NEW m \in 0 .. Len(s)
  PROVE  \E c \in [0 .. m -> Seq(S)] : Copies(c, s, e, m)
<1> DEFINE Done == {k \in Nat : k <= Len(s) => \E c \in [0 .. k -> Seq(S)] : Copies(c, s, e, k)}
<1>1. 0 \in Done
  <2> DEFINE c == [n \in 0 .. 0 |-> <<>>]
  <2>1. c \in [0 .. 0 -> Seq(S)] /\ Copies(c, s, e, 0)
    BY DEF Copies
  <2> QED
    BY <2>1
<1>2. ASSUME NEW k \in Nat, k \in Done PROVE k + 1 \in Done
  <2> SUFFICES ASSUME k + 1 <= Len(s)
               PROVE  \E c \in [0 .. k + 1 -> Seq(S)] : Copies(c, s, e, k + 1)
    OBVIOUS
  <2>1. PICK c \in [0 .. k -> Seq(S)] : Copies(c, s, e, k)
    BY <1>2
  <2> DEFINE d == [n \in 0 .. k + 1 |->
                     IF n <= k THEN c[n]
                     ELSE IF s[n] = e THEN c[n - 1] ELSE Append(c[n - 1], s[n])]
  <2>2. s[k + 1] \in S
    OBVIOUS
  <2>3. d \in [0 .. k + 1 -> Seq(S)]
    BY <2>2
  <2>4. d[0] = <<>>
    BY <2>1 DEF Copies
  <2>5. ASSUME NEW n \in 1 .. k + 1
        PROVE  d[n] = IF s[n] = e THEN d[n - 1] ELSE Append(d[n - 1], s[n])
    <3>1. d[n - 1] = c[n - 1]
      OBVIOUS
    <3>2. CASE n <= k
      <4>1. n \in 1 .. k /\ d[n] = c[n]
        BY <3>2
      <4>2. c[n] = IF s[n] = e THEN c[n - 1] ELSE Append(c[n - 1], s[n])
        BY <2>1, <4>1 DEF Copies
      <4> HIDE DEF d
      <4> QED
        BY <3>1, <4>1, <4>2
    <3>3. CASE ~(n <= k)
      <4>1. d[n] = IF s[n] = e THEN c[n - 1] ELSE Append(c[n - 1], s[n])
        BY <3>3
      <4> HIDE DEF d
      <4> QED
        BY <3>1, <4>1
    <3> QED
      BY <3>2, <3>3
  <2> HIDE DEF d
  <2>6. Copies(d, s, e, k + 1)
    BY <2>4, <2>5 DEF Copies
  <2> QED
    BY <2>3, <2>6
<1>3. \A k \in Nat : k \in Done
  <2> HIDE DEF Done
  <2> QED
    BY <1>1, <1>2, NumberInduction
<1> QED
  BY <1>3

LEMMA WithoutIs ==
  ASSUME NEW S, NEW s \in Seq(S), NEW e
  PROVE  \E c \in [0 .. Len(s) -> Seq(S)] :
           Copies(c, s, e, Len(s)) /\ Without(s, e) = c[Len(s)]
<1> DEFINE D == 0 .. Len(s)
           Rec(c) == c = [n \in D |-> IF n = 0 THEN <<>>
                                      ELSE IF s[n] = e THEN c[n - 1] ELSE Append(c[n - 1], s[n])]
<1>0. Len(s) \in Nat /\ Len(s) \in 0 .. Len(s)
  OBVIOUS
<1>1. PICK c \in [D -> Seq(S)] : Copies(c, s, e, Len(s))
  <2>1. \E c \in [0 .. Len(s) -> Seq(S)] : Copies(c, s, e, Len(s))
    BY <1>0, CopyUpTo
  <2> QED
    BY <2>1
<1>2. Rec(c)
  <2>1. c = [n \in D |-> c[n]]
    BY <1>1
  <2>2. ASSUME NEW n \in D
        PROVE  c[n] = IF n = 0 THEN <<>>
                      ELSE IF s[n] = e THEN c[n - 1] ELSE Append(c[n - 1], s[n])
    <3>1. n = 0 \/ n \in 1 .. Len(s)
      BY <1>0
    <3> QED
      BY <1>1, <3>1 DEF Copies
  <2> QED
    BY <2>1, <2>2
<1>3. Rec(CHOOSE d : Rec(d))
  <2> HIDE DEF Rec
  <2> QED
    BY <1>2
<1>4. PICK d : d = (CHOOSE i : Rec(i)) /\ Rec(d)
  BY <1>3
<1> DEFINE W == {n \in Nat : n \in D => d[n] = c[n]}
<1>5. \A n \in Nat : n \in W
  <2>1. 0 \in W
    BY <1>0, <1>1, <1>4 DEF Copies
  <2>2. ASSUME NEW n \in Nat, n \in W PROVE n + 1 \in W
    <3> SUFFICES ASSUME n + 1 \in D PROVE d[n + 1] = c[n + 1]
      OBVIOUS
    <3>1. d[n] = c[n]
      BY <1>0, <2>2
    <3>2. c[n + 1] = IF s[n + 1] = e THEN c[n] ELSE Append(c[n], s[n + 1])
      BY <1>0, <1>1 DEF Copies
    <3>3. d[n + 1] = IF s[n + 1] = e THEN d[n] ELSE Append(d[n], s[n + 1])
      <4>1. n + 1 # 0 /\ (n + 1) - 1 = n
        OBVIOUS
      <4>2. d[n + 1] = IF n + 1 = 0 THEN <<>>
                       ELSE IF s[n + 1] = e THEN d[(n + 1) - 1]
                            ELSE Append(d[(n + 1) - 1], s[n + 1])
        BY <1>4
      <4> QED
        BY <4>1, <4>2
    <3> QED
      BY <3>1, <3>2, <3>3
  <2> HIDE DEF W
  <2> QED
    BY <2>1, <2>2, NumberInduction
<1>6. d = c
  <2>1. d = [n \in D |-> d[n]]
    BY <1>4
  <2>2. c = [n \in D |-> c[n]]
    BY <1>1
  <2>3. \A n \in D : d[n] = c[n]
    BY <1>0, <1>5
  <2> QED
    BY <2>1, <2>2, <2>3
<1>7. Without(s, e) = d[Len(s)]
  BY <1>4 DEF Without
<1> QED
  BY <1>1, <1>6, <1>7

LEMMA RangeOfAppend ==
  ASSUME NEW S, NEW s \in Seq(S), NEW x \in S
  PROVE  Range(Append(s, x)) = Range(s) \cup {x}
<1>1. Len(s) \in Nat /\ DOMAIN s = 1 .. Len(s)
      /\ DOMAIN Append(s, x) = 1 .. Len(s) + 1
  OBVIOUS
<1>2. \A i \in 1 .. Len(s) : Append(s, x)[i] = s[i]
  OBVIOUS
<1>3. Append(s, x)[Len(s) + 1] = x
  OBVIOUS
<1>4. ASSUME NEW y \in Range(Append(s, x)) PROVE y \in Range(s) \cup {x}
  BY <1>1, <1>2, <1>3 DEF Range
<1>5. ASSUME NEW y \in Range(s) PROVE y \in Range(Append(s, x))
  <2>1. PICK i \in DOMAIN s : y = s[i]
    BY DEF Range
  <2>2. i \in DOMAIN Append(s, x) /\ Append(s, x)[i] = y
    BY <1>1, <1>2, <2>1
  <2> QED
    BY <2>2 DEF Range
<1>6. x \in Range(Append(s, x))
  <2>1. Len(s) + 1 \in DOMAIN Append(s, x)
    BY <1>1
  <2> QED
    BY <1>3, <2>1 DEF Range
<1> QED
  BY <1>4, <1>5, <1>6

LEMMA AscendingAppend ==
  ASSUME NEW s \in Seq(Int), NEW x \in Int, Ascending(s), \A y \in Range(s) : y < x
  PROVE  Ascending(Append(s, x))
<1>1. \A i \in DOMAIN s : s[i] < x
  BY DEF Range
<1>2. \A i \in 1 .. Len(s) : Append(s, x)[i] = s[i]
  OBVIOUS
<1>3. Append(s, x)[Len(s) + 1] = x /\ DOMAIN s = 1 .. Len(s) /\ Len(s) \in Nat
  OBVIOUS
<1>4. DOMAIN Append(s, x) = 1 .. Len(s) + 1
  OBVIOUS
<1>5. ASSUME NEW j \in 1 .. Len(s) + 1, NEW k \in 1 .. Len(s) + 1, j < k
      PROVE  Append(s, x)[j] < Append(s, x)[k]
  <2>1. j \in 1 .. Len(s) /\ Append(s, x)[j] = s[j]
    BY <1>2, <1>3, <1>5
  <2>2. CASE k = Len(s) + 1
    BY <1>1, <1>3, <2>1, <2>2
  <2>3. CASE k # Len(s) + 1
    <3>1. k \in 1 .. Len(s) /\ Append(s, x)[k] = s[k]
      BY <1>2, <1>3, <2>3
    <3>2. s[j] < s[k]
      BY <1>3, <1>5, <2>1, <3>1 DEF Ascending
    <3> QED
      BY <2>1, <3>1, <3>2
  <2> QED
    BY <2>2, <2>3
<1> QED
  BY <1>4, <1>5 DEF Ascending

(* A copy holds the other entries, all of them.                            *)
LEMMA WithoutRange ==
  ASSUME NEW S, NEW s \in Seq(S), NEW e
  PROVE  Without(s, e) \in Seq(S) /\ Range(Without(s, e)) = Range(s) \ {e}
<1> DEFINE upTo(n) == {s[j] : j \in 1 .. n}
<1>1. PICK c \in [0 .. Len(s) -> Seq(S)] :
        Copies(c, s, e, Len(s)) /\ Without(s, e) = c[Len(s)]
  BY WithoutIs
<1>2. Len(s) \in Nat /\ DOMAIN s = 1 .. Len(s) /\ \A i \in 1 .. Len(s) : s[i] \in S
  OBVIOUS
<1> DEFINE W == {n \in Nat : n \in 0 .. Len(s) => Range(c[n]) = upTo(n) \ {e}}
<1>3. \A n \in Nat : n \in W
  <2>1. 0 \in W
    <3>1. c[0] = <<>>
      BY <1>1 DEF Copies
    <3>2. Range(c[0]) = {} /\ upTo(0) = {}
      BY <3>1 DEF Range
    <3> QED
      BY <3>2
  <2>2. ASSUME NEW n \in Nat, n \in W PROVE n + 1 \in W
    <3> SUFFICES ASSUME n + 1 \in 0 .. Len(s) PROVE Range(c[n + 1]) = upTo(n + 1) \ {e}
      OBVIOUS
    <3>1. Range(c[n]) = upTo(n) \ {e} /\ c[n] \in Seq(S) /\ s[n + 1] \in S
      BY <1>2, <2>2
    <3>2. upTo(n + 1) = upTo(n) \cup {s[n + 1]}
      <4>1. \A j \in 1 .. n + 1 : j \in 1 .. n \/ j = n + 1
        OBVIOUS
      <4>2. \A j \in 1 .. n : j \in 1 .. n + 1
        OBVIOUS
      <4>3. n + 1 \in 1 .. n + 1
        OBVIOUS
      <4> QED
        BY <4>1, <4>2, <4>3
    <3>3. c[n + 1] = IF s[n + 1] = e THEN c[n] ELSE Append(c[n], s[n + 1])
      <4>1. n + 1 \in 1 .. Len(s) /\ (n + 1) - 1 = n
        BY <1>2
      <4> QED
        BY <1>1, <4>1 DEF Copies
    <3> HIDE DEF upTo
    <3>4. CASE s[n + 1] = e
      BY <3>1, <3>2, <3>3, <3>4
    <3>5. CASE s[n + 1] # e
      <4>1. Range(c[n + 1]) = Range(c[n]) \cup {s[n + 1]}
        BY <3>1, <3>3, <3>5, RangeOfAppend
      <4> QED
        BY <3>1, <3>2, <3>5, <4>1
    <3> QED
      BY <3>4, <3>5
  <2> HIDE DEF W
  <2> QED
    BY <2>1, <2>2, NumberInduction
<1>4. Range(c[Len(s)]) = upTo(Len(s)) \ {e}
  <2>1. Len(s) \in Nat /\ Len(s) \in 0 .. Len(s)
    BY <1>2
  <2>2. Len(s) \in W
    BY <1>3, <2>1
  <2> HIDE DEF upTo
  <2> QED
    BY <2>1, <2>2
<1>5. upTo(Len(s)) = Range(s)
  BY <1>2 DEF Range
<1> QED
  BY <1>1, <1>2, <1>4, <1>5

(* It keeps their order.                                                   *)
LEMMA WithoutAscending ==
  ASSUME NEW s \in Seq(Int), NEW e, Ascending(s)
  PROVE  Ascending(Without(s, e))
<1>1. PICK c \in [0 .. Len(s) -> Seq(Int)] :
        Copies(c, s, e, Len(s)) /\ Without(s, e) = c[Len(s)]
  BY WithoutIs
<1>2. Len(s) \in Nat /\ DOMAIN s = 1 .. Len(s) /\ \A i \in 1 .. Len(s) : s[i] \in Int
  OBVIOUS
<1> DEFINE W == {n \in Nat : n \in 0 .. Len(s) =>
                   Ascending(c[n]) /\ \A x \in Range(c[n]) : \E j \in 1 .. n : x = s[j]}
<1>3. \A n \in Nat : n \in W
  <2>1. 0 \in W
    <3>1. c[0] = <<>>
      BY <1>1 DEF Copies
    <3>2. Range(c[0]) = {} /\ Ascending(c[0])
      BY <3>1 DEF Range, Ascending
    <3> QED
      BY <3>2
  <2>2. ASSUME NEW n \in Nat, n \in W PROVE n + 1 \in W
    <3> SUFFICES ASSUME n + 1 \in 0 .. Len(s)
                 PROVE  /\ Ascending(c[n + 1])
                        /\ \A x \in Range(c[n + 1]) : \E j \in 1 .. n + 1 : x = s[j]
      OBVIOUS
    <3>0. n + 1 \in 1 .. Len(s) /\ (n + 1) - 1 = n /\ n \in 0 .. Len(s)
      BY <1>2
    <3>1. Ascending(c[n]) /\ \A x \in Range(c[n]) : \E j \in 1 .. n : x = s[j]
      BY <2>2, <3>0
    <3>2. c[n] \in Seq(Int) /\ s[n + 1] \in Int
      BY <1>2, <3>0
    <3>3. c[n + 1] = IF s[n + 1] = e THEN c[n] ELSE Append(c[n], s[n + 1])
      BY <1>1, <3>0 DEF Copies
    <3>4. CASE s[n + 1] = e
      BY <3>1, <3>3, <3>4
    <3>5. CASE s[n + 1] # e
      <4>1. Range(c[n + 1]) = Range(c[n]) \cup {s[n + 1]}
        BY <3>2, <3>3, <3>5, RangeOfAppend
      <4>2. \A j \in 1 .. n : s[j] < s[n + 1]
        BY <1>2, <3>0 DEF Ascending
      <4>3. \A x \in Range(c[n]) : x < s[n + 1]
        BY <3>1, <4>2
      <4>4. Ascending(c[n + 1])
        BY <3>1, <3>2, <3>3, <3>5, <4>3, AscendingAppend
      <4>5. \A x \in Range(c[n + 1]) : \E j \in 1 .. n + 1 : x = s[j]
        <5>1. n + 1 \in 1 .. n + 1 /\ \A j \in 1 .. n : j \in 1 .. n + 1
          OBVIOUS
        <5> QED
          BY <3>1, <4>1, <5>1
      <4> QED
        BY <4>4, <4>5
    <3> QED
      BY <3>4, <3>5
  <2> HIDE DEF W
  <2> QED
    BY <2>1, <2>2, NumberInduction
<1>4. Len(s) \in Nat /\ Len(s) \in 0 .. Len(s)
  BY <1>2
<1>5. Len(s) \in W
  BY <1>3, <1>4
<1> QED
  BY <1>1, <1>4, <1>5
===============================================================================
