----------------------------- MODULE SumsProofs ------------------------------
(***************************************************************************)
(* TLAPS proofs about SumOf, which the abstract specifications use: it     *)
(* depends on the values over the set only, and it grows by the value of   *)
(* an element that is added.                                               *)
(***************************************************************************)
EXTENDS Sums, FiniteSetTheorems, WellFoundedInduction, TLAPS

-----------------------------------------------------------------------------
(* Induction over the natural numbers, as a least element.                 *)

LEMMA NatMin ==
  ASSUME NEW T \in SUBSET Nat, T # {}
  PROVE  \E n \in T : \A m \in T : n <= m
<1> DEFINE R == OpToRel(<, Nat)
<1>1. IsWellFoundedOn(R, Nat)
  BY NatLessThanWellFounded
<1>2. ASSUME NEW x \in Nat, NEW y \in Nat, ~(<<y, x>> \in R) PROVE x <= y
  BY <1>2 DEF OpToRel
<1> HIDE DEF R
<1>3. PICK x \in T : \A y \in T : ~(<<y, x>> \in R)
  BY <1>1, WFMin
<1> QED BY <1>2, <1>3

LEMMA BoundedMax ==
  ASSUME NEW T \in SUBSET Nat, T # {}, NEW n \in Nat, \A m \in T : m < n
  PROVE  \E k \in T : \A m \in T : m <= k
<1> DEFINE D == {n - m : m \in T}
<1>1. D \in SUBSET Nat /\ D # {}
  <2>1. \A m \in T : n - m \in Nat
    OBVIOUS
  <2>2. D # {}
    OBVIOUS
  <2> QED BY <2>1, <2>2
<1>2. PICK d \in D : \A e \in D : d <= e
  BY <1>1, NatMin
<1>3. PICK k \in T : d = n - k
  BY <1>2
<1>4. ASSUME NEW m \in T PROVE m <= k
  <2>1. n - m \in D
    OBVIOUS
  <2>2. n - k <= n - m
    BY <1>2, <1>3, <2>1
  <2> QED BY <2>2
<1> QED BY <1>4

\* A set of numbers with 0 and with the next of each of its numbers is Nat.
LEMMA NatInduct ==
  ASSUME NEW T, 0 \in T, \A n \in Nat : n \in T => n + 1 \in T
  PROVE  Nat \subseteq T
<1> SUFFICES ASSUME Nat \ T # {} PROVE FALSE
  OBVIOUS
<1>1. PICK n \in Nat \ T : \A m \in Nat \ T : n <= m
  BY NatMin
<1>2. n # 0 /\ n - 1 \in Nat
  BY <1>1
<1>3. n - 1 \in T
  BY <1>1, <1>2
<1> QED BY <1>1, <1>2, <1>3

-----------------------------------------------------------------------------
(* The recursive function behind SumOf exists.                             *)

Pick(s) == CHOOSE x \in s : TRUE

\* iter sums f over the sets of D, one picked element after the other.
IsSum(iter, f, D) ==
  iter = [s \in D |-> IF s = {} THEN 0 ELSE f[Pick(s)] + iter[s \ {Pick(s)}]]

LEMMA SumOfIsChosen ==
  ASSUME NEW f, NEW S
  PROVE  SumOf(f, S) = (CHOOSE iter : IsSum(iter, f, SUBSET S))[S]
BY DEF SumOf, MapThenSumSet, MapThenFoldSet, IsSum, Pick

LEMMA PickIn ==
  ASSUME NEW s, s # {}
  PROVE  Pick(s) \in s
BY DEF Pick

\* Taking an element away makes a finite set smaller by one.
LEMMA Smaller ==
  ASSUME NEW S, IsFiniteSet(S), NEW s \in SUBSET S, NEW x \in s
  PROVE  /\ IsFiniteSet(s) /\ s \ {x} \in SUBSET S
         /\ Cardinality(s) \in Nat /\ Cardinality(s \ {x}) \in Nat
         /\ Cardinality(s \ {x}) = Cardinality(s) - 1
<1>1. IsFiniteSet(s)
  BY FS_Subset
<1>2. Cardinality(s) \in Nat
  BY <1>1, FS_CardinalityType
<1>3. IsFiniteSet(s \ {x}) /\ Cardinality(s \ {x}) = Cardinality(s) - 1
  BY <1>1, FS_RemoveElement
<1>4. Cardinality(s \ {x}) \in Nat
  BY <1>3, FS_CardinalityType
<1> QED BY <1>1, <1>2, <1>3, <1>4

LEMMA SumExists ==
  ASSUME NEW f, NEW S, IsFiniteSet(S)
  PROVE  \E iter : IsSum(iter, f, SUBSET S)
<1> DEFINE D(n) == {s \in SUBSET S : Cardinality(s) <= n}
           T == {n \in Nat : \E g : IsSum(g, f, D(n))}
<1>1. 0 \in T
  <2>1. \A s \in D(0) : s = {}
    <3> TAKE s \in D(0)
    <3>1. IsFiniteSet(s)
      BY FS_Subset
    <3>2. Cardinality(s) \in Nat
      BY <3>1, FS_CardinalityType
    <3> QED BY <3>1, <3>2, FS_EmptySet
  <2>2. IsSum([s \in D(0) |-> 0], f, D(0))
    BY <2>1 DEF IsSum
  <2> HIDE DEF D
  <2> QED BY <2>2
<1>2. ASSUME NEW n \in Nat, n \in T PROVE n + 1 \in T
  <2>1. PICK g : IsSum(g, f, D(n))
    BY <1>2
  <2> DEFINE h == [s \in D(n + 1) |-> IF s = {} THEN 0 ELSE f[Pick(s)] + g[s \ {Pick(s)}]]
  <2>2. ASSUME NEW s \in D(n + 1), s # {}
        PROVE  s \ {Pick(s)} \in D(n) /\ s \ {Pick(s)} \in D(n + 1)
    <3>1. s \in SUBSET S /\ Pick(s) \in s
      BY <2>2, PickIn
    <3> QED BY <3>1, Smaller
  <2>3. D(n) \subseteq D(n + 1)
    <3> SUFFICES ASSUME NEW s \in D(n) PROVE Cardinality(s) <= n + 1
      OBVIOUS
    <3>1. IsFiniteSet(s)
      BY FS_Subset
    <3>2. Cardinality(s) \in Nat
      BY <3>1, FS_CardinalityType
    <3> QED BY <3>2
  <2> HIDE DEF D
  <2>4. ASSUME NEW s \in D(n) PROVE h[s] = g[s]
    BY <2>1, <2>3 DEF IsSum
  <2>5. ASSUME NEW s \in D(n + 1), s # {}
        PROVE  h[s] = f[Pick(s)] + h[s \ {Pick(s)}]
    BY <2>2, <2>4, <2>5
  <2>6. \A s \in D(n + 1) : s = {} => h[s] = 0
    OBVIOUS
  <2>7. h = [s \in D(n + 1) |-> h[s]]
    OBVIOUS
  <2> HIDE DEF h
  <2>8. IsSum(h, f, D(n + 1))
    BY <2>5, <2>6, <2>7 DEF IsSum
  <2> QED BY <2>8
<1>3. Cardinality(S) \in Nat
  BY FS_CardinalityType
<1>4. D(Cardinality(S)) = SUBSET S
  BY FS_Subset
<1> HIDE DEF D
<1>5. Cardinality(S) \in T
  <2> HIDE DEF T
  <2> QED BY <1>1, <1>2, <1>3, NatInduct
<1> QED BY <1>4, <1>5

LEMMA SumOfIs ==
  ASSUME NEW f, NEW S, IsFiniteSet(S)
  PROVE  \E iter : IsSum(iter, f, SUBSET S) /\ SumOf(f, S) = iter[S]
BY SumExists, SumOfIsChosen

-----------------------------------------------------------------------------
(* What the sum depends on and how it grows.                               *)

LEMMA SumsAgree ==
  ASSUME NEW f, NEW g, NEW S, NEW U, IsFiniteSet(S), IsFiniteSet(U),
         NEW i, NEW j, IsSum(i, f, SUBSET S), IsSum(j, g, SUBSET U),
         \A x \in S \cap U : f[x] = g[x]
  PROVE  \A s \in SUBSET (S \cap U) : i[s] = j[s]
<1> DEFINE Bad == {s \in SUBSET (S \cap U) : i[s] # j[s]}
           Sizes == {Cardinality(s) : s \in Bad}
<1> SUFFICES ASSUME Bad # {} PROVE FALSE
  OBVIOUS
<1>1. \A s \in Bad : IsFiniteSet(s) /\ Cardinality(s) \in Nat
  BY FS_Subset, FS_CardinalityType
<1>2. Sizes \in SUBSET Nat /\ Sizes # {}
  BY <1>1
<1>3. PICK n \in Sizes : \A m \in Sizes : n <= m
  BY <1>2, NatMin
<1>4. PICK s \in Bad : n = Cardinality(s)
  BY <1>3
<1>5. s # {}
  BY DEF IsSum
<1>6. Pick(s) \in s
  BY <1>5, PickIn
<1>7. /\ s \ {Pick(s)} \in SUBSET (S \cap U)
      /\ Cardinality(s \ {Pick(s)}) < n
  BY <1>4, <1>6, Smaller
<1>8. s \ {Pick(s)} \notin Bad
  <2> SUFFICES ASSUME s \ {Pick(s)} \in Bad PROVE FALSE
    OBVIOUS
  <2>1. Cardinality(s \ {Pick(s)}) \in Sizes
    OBVIOUS
  <2>2. n <= Cardinality(s \ {Pick(s)}) /\ n \in Nat /\ Cardinality(s \ {Pick(s)}) \in Nat
    BY <1>1, <1>2, <1>3, <2>1
  <2> QED BY <1>7, <2>2
<1>9. i[s \ {Pick(s)}] = j[s \ {Pick(s)}]
  BY <1>7, <1>8
<1>10. i[s] = f[Pick(s)] + i[s \ {Pick(s)}] /\ j[s] = g[Pick(s)] + j[s \ {Pick(s)}]
  <2>1. s \in SUBSET S /\ s \in SUBSET U
    BY <1>4
  <2> HIDE DEF Bad
  <2> QED BY <1>5, <2>1 DEF IsSum
<1>11. f[Pick(s)] = g[Pick(s)]
  BY <1>4, <1>6
<1> QED BY <1>4, <1>9, <1>10, <1>11

\* The sum over a set depends on the values there only.
THEOREM SumSame ==
  ASSUME NEW f, NEW g, NEW S, IsFiniteSet(S), \A x \in S : f[x] = g[x]
  PROVE  SumOf(f, S) = SumOf(g, S)
<1>1. PICK i : IsSum(i, f, SUBSET S) /\ SumOf(f, S) = i[S]
  BY SumOfIs
<1>2. PICK j : IsSum(j, g, SUBSET S) /\ SumOf(g, S) = j[S]
  BY SumOfIs
<1>3. \A s \in SUBSET (S \cap S) : i[s] = j[s]
  BY <1>1, <1>2, SumsAgree
<1> QED BY <1>1, <1>2, <1>3

LEMMA SumsInt ==
  ASSUME NEW f, NEW S, IsFiniteSet(S), NEW i, IsSum(i, f, SUBSET S), \A x \in S : f[x] \in Int
  PROVE  \A s \in SUBSET S : i[s] \in Int
<1> DEFINE T == {n \in Nat : \A s \in SUBSET S : Cardinality(s) = n => i[s] \in Int}
<1>1. \A s \in SUBSET S : IsFiniteSet(s) /\ Cardinality(s) \in Nat
  BY FS_Subset, FS_CardinalityType
<1>2. 0 \in T
  <2> SUFFICES ASSUME NEW s \in SUBSET S, Cardinality(s) = 0 PROVE i[s] \in Int
    OBVIOUS
  <2>1. s = {}
    BY <1>1, FS_EmptySet
  <2> QED BY <2>1 DEF IsSum
<1>3. ASSUME NEW n \in Nat, n \in T PROVE n + 1 \in T
  <2> SUFFICES ASSUME NEW s \in SUBSET S, Cardinality(s) = n + 1 PROVE i[s] \in Int
    OBVIOUS
  <2>1. s # {}
    BY FS_EmptySet
  <2>2. Pick(s) \in s
    BY <2>1, PickIn
  <2>3. s \ {Pick(s)} \in SUBSET S /\ Cardinality(s \ {Pick(s)}) = n
    BY <2>2, Smaller
  <2>4. i[s \ {Pick(s)}] \in Int
    BY <1>3, <2>3
  <2>5. i[s] = f[Pick(s)] + i[s \ {Pick(s)}]
    BY <2>1 DEF IsSum
  <2> QED BY <2>2, <2>4, <2>5
<1> HIDE DEF T
<1>4. Nat \subseteq T
  BY <1>2, <1>3, NatInduct
<1> QED BY <1>1, <1>4 DEF T

\* f gives integers on S; i loses the value of whichever element is taken away.
IntOn(f, S) == \A x \in S : f[x] \in Int
TakesAny(i, f, S) == \A s \in SUBSET S : \A c \in s : i[s] = f[c] + i[s \ {c}]

\* Whichever element is taken away, its value is what the sum loses.
LEMMA SumsTake ==
  ASSUME NEW f, NEW S, IsFiniteSet(S), NEW i, IsSum(i, f, SUBSET S), IntOn(f, S)
  PROVE  TakesAny(i, f, S)
<1> DEFINE Takes(s) == \A c \in s : i[s] = f[c] + i[s \ {c}]
           T == {n \in Nat : \A s \in SUBSET S : Cardinality(s) = n => Takes(s)}
<1>1. \A s \in SUBSET S : IsFiniteSet(s) /\ Cardinality(s) \in Nat
  BY FS_Subset, FS_CardinalityType
<1>2. 0 \in T
  <2> SUFFICES ASSUME NEW s \in SUBSET S, Cardinality(s) = 0 PROVE Takes(s)
    OBVIOUS
  <2>1. s = {}
    BY <1>1, FS_EmptySet
  <2> QED BY <2>1
<1>3. ASSUME NEW n \in Nat, n \in T PROVE n + 1 \in T
  <2> SUFFICES ASSUME NEW s \in SUBSET S, Cardinality(s) = n + 1, NEW c \in s
               PROVE  i[s] = f[c] + i[s \ {c}]
    OBVIOUS
  <2> DEFINE p == Pick(s)
  <2>1. p \in s
    BY PickIn
  <2>2. i[s] = f[p] + i[s \ {p}]
    BY DEF IsSum
  <2> HIDE DEF p
  <2>3. CASE c = p
    BY <2>2, <2>3
  <2>4. CASE c # p
    <3>1. s \ {p} \in SUBSET S /\ Cardinality(s \ {p}) = n /\ c \in s \ {p}
      BY <2>1, <2>4, Smaller
    <3>2. s \ {c} \in SUBSET S /\ Cardinality(s \ {c}) = n /\ p \in s \ {c}
      BY <2>1, <2>4, Smaller
    <3>3. i[s \ {p}] = f[c] + i[(s \ {p}) \ {c}]
      BY <1>3, <3>1
    <3>4. i[s \ {c}] = f[p] + i[(s \ {c}) \ {p}]
      BY <1>3, <3>2
    <3>5. (s \ {p}) \ {c} = (s \ {c}) \ {p}
      OBVIOUS
    <3>6. i[(s \ {c}) \ {p}] \in Int
      BY SumsInt DEF IntOn
    <3>7. f[c] \in Int /\ f[p] \in Int
      BY <2>1 DEF IntOn
    <3> DEFINE rest == i[(s \ {c}) \ {p}]
    <3>8. i[s] = f[p] + (f[c] + rest) /\ i[s \ {c}] = f[p] + rest
      BY <2>2, <3>3, <3>4, <3>5
    <3>9. rest \in Int
      BY <3>6
    <3> HIDE DEF rest
    <3> QED BY <3>7, <3>8, <3>9
  <2> QED BY <2>3, <2>4
<1> HIDE DEF T
<1>4. Nat \subseteq T
  BY <1>2, <1>3, NatInduct
<1> QED BY <1>1, <1>4 DEF T, TakesAny

THEOREM SumEmpty ==
  ASSUME NEW f
  PROVE  SumOf(f, {}) = 0
<1>1. IsFiniteSet({})
  BY FS_EmptySet
<1>2. PICK i : IsSum(i, f, SUBSET {}) /\ SumOf(f, {}) = i[{}]
  BY <1>1, SumOfIs
<1> QED BY <1>2 DEF IsSum

THEOREM SumInt ==
  ASSUME NEW f, NEW S, IsFiniteSet(S), \A x \in S : f[x] \in Int
  PROVE  SumOf(f, S) \in Int
<1>1. PICK i : IsSum(i, f, SUBSET S) /\ SumOf(f, S) = i[S]
  BY SumOfIs
<1> QED BY <1>1, SumsInt

\* An element that is added adds its value.
THEOREM SumAdd ==
  ASSUME NEW f, NEW S, IsFiniteSet(S), NEW c, c \notin S, \A x \in S \cup {c} : f[x] \in Int
  PROVE  SumOf(f, S \cup {c}) = SumOf(f, S) + f[c]
<1> DEFINE U == S \cup {c}
<1>1. IsFiniteSet(U)
  BY FS_AddElement
<1>2. PICK i : IsSum(i, f, SUBSET U) /\ SumOf(f, U) = i[U]
  BY <1>1, SumOfIs
<1>3. PICK j : IsSum(j, f, SUBSET S) /\ SumOf(f, S) = j[S]
  BY SumOfIs
<1>4. i[U] = f[c] + i[U \ {c}]
  <2>1. U \in SUBSET U /\ c \in U /\ IntOn(f, U)
    BY DEF IntOn
  <2> HIDE DEF U
  <2>2. TakesAny(i, f, U)
    BY <1>1, <1>2, <2>1, SumsTake
  <2> QED BY <2>1, <2>2 DEF TakesAny
<1>5. U \ {c} = S
  OBVIOUS
<1>6. i[S] = j[S]
  <2>1. S \in SUBSET (U \cap S)
    OBVIOUS
  <2> HIDE DEF U
  <2> QED BY <1>1, <1>2, <1>3, <2>1, SumsAgree
<1>7. f[c] \in Int /\ SumOf(f, S) \in Int
  BY SumInt
<1>8. SumOf(f, U) = f[c] + SumOf(f, S)
  BY <1>2, <1>3, <1>4, <1>5, <1>6
<1> HIDE DEF U
<1>9. SumOf(f, U) = SumOf(f, S) + f[c]
  BY <1>7, <1>8
<1> QED BY <1>9 DEF U

THEOREM SumOne ==
  ASSUME NEW f, NEW c, f[c] \in Int
  PROVE  SumOf(f, {c}) = f[c]
<1>1. IsFiniteSet({}) /\ {} \cup {c} = {c} /\ c \notin {}
  BY FS_EmptySet
<1>2. SumOf(f, {} \cup {c}) = SumOf(f, {}) + f[c]
  BY <1>1, SumAdd
<1> QED BY <1>1, <1>2, SumEmpty

=============================================================================
