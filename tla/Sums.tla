-------------------------------- MODULE Sums --------------------------------
(***************************************************************************)
(* Sums over finite sets, as the community modules compute them            *)
(* (MapThenSumSet): that they exist, are whole numbers, and may be taken   *)
(* in any order.  Induction is by a least counterexample, a fact about     *)
(* sets of numbers.                                                        *)
(***************************************************************************)
EXTENDS Integers, FiniteSetsExt, FiniteSetTheorems, WellFoundedInduction, TLAPS

LEMMA LeastOf ==
    ASSUME NEW S \in SUBSET Nat, S # {}
    PROVE  \E m \in S : \A k \in S : m <= k
<1> DEFINE R == {p \in Nat \X Nat : p[1] < p[2]}
<1>1. IsWellFoundedOn(R, Nat)
  BY NatLessThanWellFounded DEF OpToRel
<1>2. \A j, k \in Nat : <<j, k>> \in R <=> j < k
  OBVIOUS
<1> HIDE DEF R
<1>3. PICK m \in S : \A k \in S : ~(<<k, m>> \in R)
  BY <1>1, WFMin
<1>4. ASSUME NEW k \in S PROVE m <= k
  <2>1. k \in Nat /\ m \in Nat
    OBVIOUS
  <2>2. ~(k < m)
    BY <1>2, <1>3, <2>1
  <2> QED BY <2>1, <2>2
<1> QED BY <1>4

(* A bad subset of a finite set has a smallest one.                        *)
LEMMA SmallestOf ==
    ASSUME NEW S, IsFiniteSet(S), NEW B \in SUBSET SUBSET S, B # {}
    PROVE  \E s \in B : \A t \in B : Cardinality(s) <= Cardinality(t)
<1>1. \A s \in SUBSET S : Cardinality(s) \in Nat
  BY FS_Subset, FS_CardinalityType
<1>2. {Cardinality(s) : s \in B} \in SUBSET Nat /\ {Cardinality(s) : s \in B} # {}
  BY <1>1
<1>3. PICK m \in {Cardinality(s) : s \in B} : \A k \in {Cardinality(s) : s \in B} : m <= k
  BY <1>2, LeastOf
<1> QED BY <1>3

LEMMA OneLess ==
    ASSUME NEW S, IsFiniteSet(S), NEW x \in S
    PROVE  Cardinality(S \ {x}) = Cardinality(S) - 1 /\ Cardinality(S) \in Nat \ {0} /\ Cardinality(S \ {x}) \in Nat
<1>1. Cardinality(S \ {x}) = Cardinality(S) - 1 /\ IsFiniteSet(S \ {x})
  BY FS_RemoveElement
<1>2. Cardinality(S) \in Nat /\ Cardinality(S \ {x}) \in Nat
  BY <1>1, FS_CardinalityType
<1> QED BY <1>1, <1>2

Pick(s) == CHOOSE x \in s : TRUE

(* The function MapThenSumSet computes with, on the subsets of S.          *)
Adds(F, S, g) == g = [s \in SUBSET S |-> IF s = {} THEN 0 ELSE LET x == Pick(s) IN F[x] + g[s \ {x}]]

SumOver(F, S) == (CHOOSE g : Adds(F, S, g))[S]

LEMMA SumsExist ==
    ASSUME NEW S, IsFiniteSet(S), NEW F
    PROVE  \E g : Adds(F, S, g)
<1> DEFINE Upto(k) == {s \in SUBSET S : Cardinality(s) <= k}
           Part(k, g) == g = [s \in Upto(k) |-> IF s = {} THEN 0 ELSE F[Pick(s)] + g[s \ {Pick(s)}]]
           Bad == {k \in Nat : ~\E g : Part(k, g)}
<1>1. \A s \in SUBSET S : IsFiniteSet(s) /\ Cardinality(s) \in Nat
  BY FS_Subset, FS_CardinalityType
<1>2. ASSUME NEW s \in SUBSET S, s # {}
      PROVE  Pick(s) \in s /\ s \ {Pick(s)} \in SUBSET S /\ Cardinality(s \ {Pick(s)}) = Cardinality(s) - 1
  <2>1. Pick(s) \in s
    BY <1>2 DEF Pick
  <2> QED BY <1>1, <2>1, OneLess
<1>3. ASSUME NEW k \in Nat, k # 0, NEW g, Part(k - 1, g) PROVE \E h : Part(k, h)
  <2> DEFINE h == [s \in Upto(k) |-> IF s = {} THEN 0 ELSE F[Pick(s)] + g[s \ {Pick(s)}]]
  <2>1. ASSUME NEW t \in Upto(k - 1) PROVE h[t] = g[t]
    <3>1. t \in Upto(k)
      BY <1>1, <1>3
    <3>2. h[t] = IF t = {} THEN 0 ELSE F[Pick(t)] + g[t \ {Pick(t)}]
      BY <3>1
    <3>3. g[t] = IF t = {} THEN 0 ELSE F[Pick(t)] + g[t \ {Pick(t)}]
      BY <1>3
    <3> QED BY <3>2, <3>3
  <2>2. ASSUME NEW s \in Upto(k), s # {} PROVE s \ {Pick(s)} \in Upto(k - 1)
    BY <1>1, <1>2, <1>3, <2>2
  <2>3. \A s \in Upto(k) : h[s] = IF s = {} THEN 0 ELSE F[Pick(s)] + h[s \ {Pick(s)}]
    <3> TAKE s \in Upto(k)
    <3>1. h[s] = IF s = {} THEN 0 ELSE F[Pick(s)] + g[s \ {Pick(s)}]
      OBVIOUS
    <3> HIDE DEF h, Upto
    <3> QED BY <2>1, <2>2, <3>1
  <2>4. Part(k, h)
    <3>1. h = [s \in Upto(k) |-> h[s]]
      OBVIOUS
    <3> HIDE DEF h, Upto
    <3> QED BY <2>3, <3>1
  <2> QED BY <2>4
<1>4. \E g : Part(0, g)
  <2> DEFINE g == [s \in Upto(0) |-> 0]
  <2>1. \A s \in Upto(0) : s = {}
    <3> TAKE s \in Upto(0)
    <3>1. Cardinality(s) = 0 /\ IsFiniteSet(s)
      BY <1>1
    <3> QED BY <3>1, FS_EmptySet
  <2>2. Part(0, g)
    <3> HIDE DEF Upto
    <3> QED BY <2>1
  <2> QED BY <2>2
<1>5. Bad = {}
  <2> SUFFICES ASSUME Bad # {} PROVE FALSE
    OBVIOUS
  <2>1. PICK m \in Bad : \A k \in Bad : m <= k
    <3>1. Bad \in SUBSET Nat
      OBVIOUS
    <3> HIDE DEF Bad
    <3> QED BY <3>1, LeastOf
  <2>2. m \in Nat /\ ~\E g : Part(m, g)
    BY <2>1
  <2>3. CASE m = 0
    <3> HIDE DEF Part
    <3> QED BY <1>4, <2>2, <2>3
  <2>4. CASE m # 0
    <3>1. m - 1 \in Nat /\ m - 1 \notin Bad
      <4>1. m - 1 \in Nat /\ ~(m <= m - 1)
        BY <2>2, <2>4
      <4> HIDE DEF Bad
      <4> QED BY <2>1, <4>1
    <3> HIDE DEF Part
    <3>2. \E g : Part(m - 1, g)
      BY <3>1
    <3> QED BY <1>3, <2>2, <2>4, <3>2
  <2> QED BY <2>3, <2>4
<1>6. Cardinality(S) \in Nat
  BY FS_CardinalityType
<1>7. Upto(Cardinality(S)) = SUBSET S
  BY FS_Subset
<1>8. PICK g : Part(Cardinality(S), g)
  <2> HIDE DEF Part
  <2> QED BY <1>5, <1>6
<1>9. Adds(F, S, g)
  <2> HIDE DEF Upto
  <2> QED BY <1>7, <1>8 DEF Adds
<1> QED BY <1>9

(* g gives each part of S its sum: any element may be taken out first.     *)
IsSums(F, S, g) ==
    /\ g \in [SUBSET S -> Int]
    /\ g[{}] = 0
    /\ \A s \in SUBSET S : \A x \in s : g[s] = F[x] + g[s \ {x}]

(* The function computed with is one of those.                             *)
LEMMA AddsSum ==
    ASSUME NEW S, IsFiniteSet(S), NEW F, \A x \in S : F[x] \in Int, NEW g, Adds(F, S, g)
    PROVE  IsSums(F, S, g)
<1>3. \A s \in SUBSET S : g[s] = IF s = {} THEN 0 ELSE F[Pick(s)] + g[s \ {Pick(s)}]
  BY DEF Adds
<1>4. \A s \in SUBSET S : IsFiniteSet(s)
  BY FS_Subset
<1>5. \A s \in SUBSET S : s # {} => Pick(s) \in s
  BY DEF Pick
<1>6. ASSUME NEW s \in SUBSET S, NEW x \in s
      PROVE  s \ {x} \in SUBSET S /\ ~(Cardinality(s) <= Cardinality(s \ {x})) /\ F[x] \in Int
  <2>1. Cardinality(s \ {x}) = Cardinality(s) - 1 /\ Cardinality(s) \in Nat
    BY <1>4, OneLess
  <2> QED BY <2>1
<1>7. \A s \in SUBSET S : g[s] \in Int
  <2> DEFINE Bad == {s \in SUBSET S : g[s] \notin Int}
  <2> SUFFICES ASSUME Bad # {} PROVE FALSE
    OBVIOUS
  <2>1. Bad \in SUBSET SUBSET S
    OBVIOUS
  <2>2. PICK s \in Bad : \A t \in Bad : Cardinality(s) <= Cardinality(t)
    <3> HIDE DEF Bad
    <3> QED BY <2>1, SmallestOf
  <2>3. s \in SUBSET S /\ g[s] \notin Int
    OBVIOUS
  <2>4. s # {}
    <3>1. g[s] = IF s = {} THEN 0 ELSE F[Pick(s)] + g[s \ {Pick(s)}]
      BY <1>3, <2>3
    <3>2. 0 \in Int
      OBVIOUS
    <3> QED BY <2>3, <3>1, <3>2
  <2>5. Pick(s) \in s /\ s \ {Pick(s)} \in SUBSET S /\ F[Pick(s)] \in Int /\ s \ {Pick(s)} \notin Bad
    <3> HIDE DEF Bad
    <3> QED BY <1>5, <1>6, <2>2, <2>3, <2>4
  <2>6. g[s \ {Pick(s)}] \in Int
    BY <2>5
  <2>7. g[s] = F[Pick(s)] + g[s \ {Pick(s)}]
    BY <1>3, <2>3, <2>4
  <2> QED BY <2>3, <2>5, <2>6, <2>7
<1>8. \A s \in SUBSET S : \A x \in s : g[s] = F[x] + g[s \ {x}]
  <2> DEFINE Bad == {s \in SUBSET S : \E x \in s : g[s] # F[x] + g[s \ {x}]}
  <2> SUFFICES ASSUME Bad # {} PROVE FALSE
    OBVIOUS
  <2>1. Bad \in SUBSET SUBSET S
    OBVIOUS
  <2>2. PICK s \in Bad : \A t \in Bad : Cardinality(s) <= Cardinality(t)
    <3> HIDE DEF Bad
    <3> QED BY <2>1, SmallestOf
  <2>3. s \in SUBSET S
    OBVIOUS
  <2>4. PICK x \in s : g[s] # F[x] + g[s \ {x}]
    OBVIOUS
  <2> DEFINE c == Pick(s)
  <2>5. c \in s /\ g[s] = F[c] + g[s \ {c}] /\ c # x
    BY <1>3, <1>5, <2>3, <2>4
  <2> HIDE DEF c
  <2>6. s \ {c} \notin Bad /\ s \ {x} \notin Bad /\ s \ {c} \in SUBSET S /\ s \ {x} \in SUBSET S
        /\ F[c] \in Int /\ F[x] \in Int
    <3> HIDE DEF Bad
    <3> QED BY <1>6, <2>2, <2>3, <2>5
  <2>7. x \in s \ {c} /\ c \in s \ {x} /\ (s \ {c}) \ {x} = (s \ {x}) \ {c}
    BY <2>5
  <2>8. g[s \ {c}] = F[x] + g[(s \ {c}) \ {x}] /\ g[s \ {x}] = F[c] + g[(s \ {x}) \ {c}]
    BY <2>6, <2>7
  <2>9. PICK n \in Int : n = g[(s \ {c}) \ {x}]
    <3>1. (s \ {c}) \ {x} \in SUBSET S
      BY <2>3
    <3> QED BY <1>7, <3>1
  <2>10. g[s \ {c}] = F[x] + n /\ g[s \ {x}] = F[c] + n
    BY <2>7, <2>8, <2>9
  <2>11. F[c] + (F[x] + n) = F[x] + (F[c] + n)
    BY <2>6
  <2> QED BY <2>4, <2>5, <2>10, <2>11
<1>9. g \in [SUBSET S -> Int] /\ g[{}] = 0
  BY <1>3, <1>7 DEF Adds
<1> QED BY <1>8, <1>9 DEF IsSums

(* The sum of whole numbers is such a function's value.                    *)
LEMMA SumParts ==
    ASSUME NEW S, IsFiniteSet(S), NEW F, \A x \in S : F[x] \in Int
    PROVE  \E g : IsSums(F, S, g) /\ SumOver(F, S) = g[S]
<1>1. Adds(F, S, CHOOSE g : Adds(F, S, g))
  BY SumsExist
<1>2. IsSums(F, S, CHOOSE g : Adds(F, S, g))
  BY <1>1, AddsSum
<1> QED BY <1>2 DEF SumOver

(* Two sums over the same amounts, differently indexed, are equal.         *)
LEMMA SumsAgree ==
    ASSUME NEW A, IsFiniteSet(A), NEW B, NEW F, NEW G,
           NEW f, IsSums(F, A, f), NEW g, IsSums(G, B, g),
           NEW h \in [A -> B],
           \A x, y \in A : h[x] = h[y] => x = y,
           \A y \in B : \E x \in A : h[x] = y,
           \A x \in A : F[x] = G[h[x]]
    PROVE  f[A] = g[B]
<1> DEFINE Image(s) == {h[x] : x \in s}
           Bad == {s \in SUBSET A : f[s] # g[Image(s)]}
<1>1. \A s \in SUBSET A : Image(s) \in SUBSET B
  OBVIOUS
<1>2. Bad = {}
  <2> SUFFICES ASSUME Bad # {} PROVE FALSE
    OBVIOUS
  <2>1. Bad \in SUBSET SUBSET A
    OBVIOUS
  <2>2. PICK s \in Bad : \A t \in Bad : Cardinality(s) <= Cardinality(t)
    <3> HIDE DEF Bad
    <3> QED BY <2>1, SmallestOf
  <2>3. s \in SUBSET A /\ f[s] # g[Image(s)]
    OBVIOUS
  <2>4. s # {}
    <3>1. Image({}) = {}
      OBVIOUS
    <3>2. f[{}] = g[{}]
      BY DEF IsSums
    <3> HIDE DEF Image
    <3> QED BY <2>3, <3>1, <3>2
  <2>5. PICK x \in s : TRUE
    BY <2>4
  <2>6. s \ {x} \in SUBSET A /\ s \ {x} \notin Bad
    <3>1. IsFiniteSet(s)
      BY <2>3, FS_Subset
    <3>2. ~(Cardinality(s) <= Cardinality(s \ {x}))
      BY <3>1, OneLess
    <3> HIDE DEF Bad
    <3> QED BY <2>2, <2>3, <3>2
  <2>7. f[s \ {x}] = g[Image(s \ {x})]
    BY <2>6
  <2>8. h[x] \in Image(s) /\ Image(s \ {x}) = Image(s) \ {h[x]}
    BY <2>3
  <2>9. f[s] = F[x] + f[s \ {x}]
    BY <2>3, <2>5 DEF IsSums
  <2> HIDE DEF Image
  <2>10. g[Image(s)] = G[h[x]] + g[Image(s) \ {h[x]}]
    BY <1>1, <2>3, <2>8 DEF IsSums
  <2>11. F[x] = G[h[x]]
    BY <2>3, <2>5
  <2> QED BY <2>3, <2>7, <2>8, <2>9, <2>10, <2>11
<1>3. Image(A) = B
  OBVIOUS
<1>4. A \in SUBSET A /\ A \notin Bad
  <2> HIDE DEF Bad
  <2> QED BY <1>2
<1>5. f[A] = g[Image(A)]
  BY <1>4
<1> HIDE DEF Image
<1> QED BY <1>3, <1>5

(* Nothing adds up to nothing.                                             *)
LEMMA SumOfNone ==
    ASSUME NEW S, IsFiniteSet(S), NEW F, NEW g, IsSums(F, S, g), \A x \in S : F[x] = 0
    PROVE  g[S] = 0
<1> DEFINE Bad == {s \in SUBSET S : g[s] # 0}
<1>1. Bad = {}
  <2> SUFFICES ASSUME Bad # {} PROVE FALSE
    OBVIOUS
  <2>1. Bad \in SUBSET SUBSET S
    OBVIOUS
  <2>2. PICK s \in Bad : \A t \in Bad : Cardinality(s) <= Cardinality(t)
    <3> HIDE DEF Bad
    <3> QED BY <2>1, SmallestOf
  <2>3. s \in SUBSET S /\ g[s] # 0
    OBVIOUS
  <2>4. PICK x \in s : TRUE
    BY <2>3 DEF IsSums
  <2>5. s \ {x} \in SUBSET S /\ s \ {x} \notin Bad
    <3>1. IsFiniteSet(s)
      BY <2>3, FS_Subset
    <3>2. ~(Cardinality(s) <= Cardinality(s \ {x}))
      BY <3>1, OneLess
    <3> HIDE DEF Bad
    <3> QED BY <2>2, <2>3, <3>2
  <2>6. g[s \ {x}] = 0
    BY <2>5
  <2>7. g[s] = F[x] + g[s \ {x}] /\ F[x] = 0
    BY <2>3, <2>4 DEF IsSums
  <2> QED BY <2>3, <2>6, <2>7
<1>2. S \in SUBSET S /\ S \notin Bad
  <2> HIDE DEF Bad
  <2> QED BY <1>1
<1> QED BY <1>2

(* A sum of differences is the difference of the ends.                     *)
LEMMA Telescope ==
    ASSUME NEW n \in Nat, NEW R, NEW P, \A k \in 0..n : P[k] \in Int,
           \A k \in 1..n : R[k] = P[k] - P[k - 1]
    PROVE  SumOver(R, 1..n) = P[n] - P[0]
<1>1. IsFiniteSet(1..n) /\ \A k \in 1..n : R[k] \in Int
  <2>1. \A k \in 1..n : k \in 0..n /\ k - 1 \in 0..n
    OBVIOUS
  <2>2. \A k \in 1..n : R[k] \in Int
    BY <2>1
  <2> QED BY <2>2, FS_Interval
<1>2. PICK g : IsSums(R, 1..n, g) /\ SumOver(R, 1..n) = g[1..n]
  BY <1>1, SumParts
<1> DEFINE Bad == {k \in Nat : k <= n /\ g[1..k] # P[k] - P[0]}
<1>3. g[1..0] = P[0] - P[0]
  <2>1. 1..0 = {} /\ P[0] \in Int
    OBVIOUS
  <2>2. g[{}] = 0
    BY <1>2 DEF IsSums
  <2> QED BY <2>1, <2>2
<1>4. Bad = {}
  <2> SUFFICES ASSUME Bad # {} PROVE FALSE
    OBVIOUS
  <2>1. PICK m \in Bad : \A k \in Bad : m <= k
    <3>1. Bad \in SUBSET Nat
      OBVIOUS
    <3> HIDE DEF Bad
    <3> QED BY <3>1, LeastOf
  <2>2. m \in Nat /\ m <= n /\ g[1..m] # P[m] - P[0]
    OBVIOUS
  <2>3. m # 0
    BY <1>3, <2>2
  <2>4. m \in 1..n /\ m - 1 \in 0..n /\ m \in 0..n /\ ~(m <= m - 1)
    BY <2>2, <2>3
  <2>5. m - 1 \notin Bad
    <3> HIDE DEF Bad
    <3> QED BY <2>1, <2>4
  <2>6. g[1..(m - 1)] = P[m - 1] - P[0]
    BY <2>4, <2>5
  <2>7. 1..m \in SUBSET (1..n) /\ m \in 1..m /\ (1..m) \ {m} = 1..(m - 1)
    BY <2>4
  <2>8. g[1..m] = R[m] + g[1..(m - 1)]
    <3>1. PICK s : s = 1..m
      OBVIOUS
    <3>2. s \in SUBSET (1..n) /\ m \in s /\ s \ {m} = 1..(m - 1)
      BY <2>7, <3>1
    <3>3. g[s] = R[m] + g[s \ {m}]
      BY <1>2, <3>2 DEF IsSums
    <3> QED BY <3>1, <3>2, <3>3
  <2>9. P[m] \in Int /\ P[m - 1] \in Int /\ P[0] \in Int /\ R[m] = P[m] - P[m - 1]
    BY <2>4
  <2> QED BY <2>2, <2>6, <2>8, <2>9
<1>5. n \notin Bad
  <2> HIDE DEF Bad
  <2> QED BY <1>4
<1> QED BY <1>2, <1>5
=============================================================================
