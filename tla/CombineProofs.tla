---------------------------- MODULE CombineProofs ----------------------------
(***************************************************************************)
(* Lemmas about what the combines of a job hold of a set of reports: sums  *)
(* over sets, in words, for each index of a vector, in segments; and the   *)
(* buckets that the indexes of an expansion stand for.                     *)
(*                                                                         *)
(* Sums over sets are folds, defined by recursion.  What they compute is   *)
(* proved by induction in the form that the provers take: a set of "good"  *)
(* subsets that has the empty one and is closed under adding an element    *)
(* has them all.                                                           *)
(***************************************************************************)
EXTENDS BeamJobProofs, WellFoundedInduction

\* Among subsets of a finite set there is one that contains no other.
LEMMA SmallestSubset ==
  ASSUME NEW T, IsFiniteSet(T), NEW Bad \in SUBSET (SUBSET T), Bad # {}
  PROVE  \E B \in Bad : \A x \in B : B \ {x} \notin Bad
<1>1. Bad \subseteq FiniteSubsetsOf(T)
  BY FS_FiniteSubsetsOfFinite
<1>2. PICK B \in Bad : \A A \in Bad : <<A, B>> \notin StrictSubsetOrdering(T)
  BY <1>1, FS_StrictSubsetOrderingWellFounded, WFMin
<1>3. ASSUME NEW x \in B
      PROVE  <<B \ {x}, B>> \in StrictSubsetOrdering(T)
  BY DEF StrictSubsetOrdering
<1> QED
  BY <1>2, <1>3

\* Induction over the subsets of a finite set.
LEMMA SubsetInduction ==
  ASSUME NEW T, IsFiniteSet(T), NEW Good, {} \in Good,
         \A A \in SUBSET T : \A x \in T \ A : A \in Good => A \cup {x} \in Good
  PROVE  SUBSET T \subseteq Good
<1> DEFINE Bad == {A \in SUBSET T : A \notin Good}
<1> SUFFICES ASSUME Bad # {} PROVE FALSE
  OBVIOUS
<1>1. PICK B \in Bad : \A x \in B : B \ {x} \notin Bad
  <2>1. Bad \in SUBSET (SUBSET T)
    OBVIOUS
  <2> HIDE DEF Bad
  <2> QED
    BY <2>1, SmallestSubset
<1>2. PICK x \in B : TRUE
  OBVIOUS
<1>3. B \ {x} \in SUBSET T /\ B \ {x} \in Good
  BY <1>1
<1>4. B = (B \ {x}) \cup {x} /\ x \in T \ (B \ {x})
  BY <1>2
<1> QED
  BY <1>3, <1>4

\* Induction over the numbers up to n.
LEMMA IntervalInduction ==
  ASSUME NEW n \in Nat, NEW Good, 0 \in Good, \A k \in 0 .. n - 1 : k \in Good => k + 1 \in Good
  PROVE  0 .. n \subseteq Good
<1> DEFINE Sizes == {A \in SUBSET (1 .. n) : Cardinality(A) \in Good}
<1>1. IsFiniteSet(1 .. n) /\ Cardinality(1 .. n) = n
  BY FS_Interval
<1>2. {} \in Sizes
  BY FS_EmptySet
<1>3. ASSUME NEW A \in SUBSET (1 .. n), NEW x \in (1 .. n) \ A, A \in Sizes
      PROVE  A \cup {x} \in Sizes
  <2>1. IsFiniteSet(A) /\ IsFiniteSet(A \cup {x}) /\ A \cup {x} \subseteq 1 .. n
    BY <1>1, FS_Subset
  <2>2. Cardinality(A) \in Nat /\ Cardinality(A \cup {x}) = Cardinality(A) + 1
    BY <2>1, FS_CardinalityType, FS_AddElement
  <2>3. Cardinality(A \cup {x}) <= n
    BY <1>1, <2>1, FS_Subset
  <2>4. Cardinality(A) \in 0 .. n - 1
    BY <2>2, <2>3
  <2> QED
    BY <1>3, <2>1, <2>2, <2>4
<1>4. SUBSET (1 .. n) \subseteq Sizes
  <2> DEFINE T == 1 .. n
  <2>1. IsFiniteSet(T) /\ \A A \in SUBSET T : \A x \in T \ A : A \in Sizes => A \cup {x} \in Sizes
    BY <1>1, <1>3
  <2> HIDE DEF Sizes, T
  <2>2. SUBSET T \subseteq Sizes
    BY <1>2, <2>1, SubsetInduction, Zenon
  <2> QED
    BY <2>2 DEF T
<1>5. ASSUME NEW k \in 0 .. n PROVE k \in Good
  <2>1. 1 .. k \in SUBSET (1 .. n) /\ Cardinality(1 .. k) = k
    BY FS_Interval
  <2> QED
    BY <1>4, <2>1
<1> QED
  BY <1>5

\* A power of two is positive: it counts the subsets of a set.
LEMMA PowerOfTwo ==
  ASSUME NEW n \in Nat
  PROVE  2 ^ n \in Nat \ {0}
<1>1. IsFiniteSet(1 .. n) /\ Cardinality(1 .. n) = n
  BY FS_Interval
<1>2. IsFiniteSet(SUBSET (1 .. n)) /\ Cardinality(SUBSET (1 .. n)) = 2 ^ n
  BY <1>1, FS_SUBSET
<1>3. SUBSET (1 .. n) # {}
  OBVIOUS
<1> QED
  BY <1>2, <1>3, FS_CardinalityType, FS_EmptySet

\* The empty set has one subset.
LEMMA PowerZero == 2 ^ 0 = 1
<1>1. IsFiniteSet({}) /\ Cardinality({}) = 0
  BY FS_EmptySet
<1>2. Cardinality(SUBSET {}) = 2 ^ Cardinality({})
  BY <1>1, FS_SUBSET
<1>3. SUBSET {} = {{}} /\ Cardinality({{}}) = 1
  BY FS_Singleton
<1> QED
  BY <1>1, <1>2, <1>3
-----------------------------------------------------------------------------
(* Sums over the subsets of a finite set. *)

\* What a sum over the subsets of T does: an element more adds its value.
Additive(g, T, f) ==
  /\ g \in [SUBSET T -> Int]
  /\ g[{}] = 0
  /\ \A A \in SUBSET T : \A x \in T \ A : g[A \cup {x}] = g[A] + f[x]

\* There is such a function.
LEMMA AdditiveExists ==
  ASSUME NEW T, IsFiniteSet(T), NEW f, \A x \in T : f[x] \in Int
  PROVE  \E g : Additive(g, T, f)
<1> DEFINE Good == {A \in SUBSET T : \E g : Additive(g, A, f)}
<1>1. {} \in Good
  <2> DEFINE g == [A \in SUBSET {} |-> 0]
  <2>1. Additive(g, {}, f)
    BY DEF Additive
  <2> QED
    BY <2>1
<1>2. ASSUME NEW A \in SUBSET T, NEW x \in T \ A, A \in Good
      PROVE  A \cup {x} \in Good
  <2>1. PICK g : Additive(g, A, f)
    BY <1>2
  <2> DEFINE T2 == A \cup {x}
             h == [B \in SUBSET T2 |-> IF x \in B THEN g[B \ {x}] + f[x] ELSE g[B]]
  <2>2. h \in [SUBSET T2 -> Int]
    <3> SUFFICES ASSUME NEW B \in SUBSET T2
                 PROVE  (IF x \in B THEN g[B \ {x}] + f[x] ELSE g[B]) \in Int
      OBVIOUS
    <3>1. B \ {x} \in SUBSET A /\ (x \notin B => B \in SUBSET A)
      OBVIOUS
    <3>2. g[B \ {x}] \in Int /\ (x \notin B => g[B] \in Int) /\ f[x] \in Int
      BY <2>1, <3>1 DEF Additive
    <3> QED
      BY <3>2
  <2>3. h[{}] = 0
    BY <2>1 DEF Additive
  <2>4. ASSUME NEW B \in SUBSET T2, NEW y \in T2 \ B
        PROVE  h[B \cup {y}] = h[B] + f[y]
    <3>1. CASE y = x
      <4>1. (B \cup {y}) \ {x} = B /\ x \notin B
        BY <3>1
      <4> QED
        BY <3>1, <4>1
    <3>2. CASE y # x /\ x \in B
      <4>1. (B \cup {y}) \ {x} = (B \ {x}) \cup {y} /\ B \ {x} \in SUBSET A /\ y \in A \ (B \ {x})
        BY <3>2
      <4>2. g[(B \ {x}) \cup {y}] = g[B \ {x}] + f[y] /\ g[B \ {x}] \in Int
        BY <2>1, <4>1 DEF Additive
      <4>3. f[x] \in Int /\ f[y] \in Int
        BY <4>1
      <4>4. h[B \cup {y}] = g[(B \ {x}) \cup {y}] + f[x] /\ h[B] = g[B \ {x}] + f[x]
        BY <3>2, <4>1
      <4> HIDE DEF h
      <4> QED
        BY <4>2, <4>3, <4>4
    <3>3. CASE x \notin B /\ y # x
      <4>1. B \in SUBSET A /\ y \in A \ B /\ x \notin B \cup {y}
        BY <3>3
      <4>2. g[B \cup {y}] = g[B] + f[y]
        BY <2>1, <4>1 DEF Additive
      <4> QED
        BY <3>3, <4>1, <4>2
    <3> QED
      BY <3>1, <3>2, <3>3
  <2>5. Additive(h, T2, f)
    <3> HIDE DEF h
    <3> QED
      BY <2>2, <2>3, <2>4 DEF Additive
  <2> HIDE DEF h
  <2> QED
    BY <2>5
<1>3. SUBSET T \subseteq Good
  <2> HIDE DEF Good
  <2> QED
    BY <1>1, <1>2, SubsetInduction
<1> QED
  BY <1>3

\* A sum over a finite set is what such a function says of the whole set.
LEMMA SumIsAdditive ==
  ASSUME NEW T, IsFiniteSet(T), NEW f, \A x \in T : f[x] \in Int,
         NEW g, Additive(g, T, f)
  PROVE  SumOver(T, f) = g[T]
<1> DEFINE Step(h, s) == IF s = {} THEN 0
                         ELSE h[s \ {CHOOSE x \in s : TRUE}] + f[CHOOSE x \in s : TRUE]
<1>1. ASSUME NEW s \in SUBSET T, s # {}
      PROVE  LET x == CHOOSE x \in s : TRUE
             IN  x \in s /\ s \ {x} \in SUBSET T /\ g[s] = g[s \ {x}] + f[x]
  <2> DEFINE x == CHOOSE x \in s : TRUE
  <2>1. x \in s
    BY <1>1
  <2> HIDE DEF x
  <2>2. s \ {x} \in SUBSET T /\ x \in T \ (s \ {x}) /\ s = (s \ {x}) \cup {x}
    BY <2>1
  <2>3. g[s] = g[s \ {x}] + f[x]
    BY <2>2 DEF Additive
  <2> QED
    BY <2>1, <2>2, <2>3 DEF x
<1>2. g = [s \in SUBSET T |-> Step(g, s)]
  <2>1. \A s \in SUBSET T : g[s] = Step(g, s)
    BY <1>1 DEF Additive
  <2> HIDE DEF Step
  <2> QED
    BY <2>1 DEF Additive
<1>3. ASSUME NEW h, h = [s \in SUBSET T |-> Step(h, s)]
      PROVE  h[T] = g[T]
  <2> DEFINE Bad == {s \in SUBSET T : h[s] # g[s]}
  <2>1. SUFFICES ASSUME Bad # {} PROVE FALSE
    OBVIOUS
  <2>2. PICK B \in Bad : \A x \in B : B \ {x} \notin Bad
    <3>1. Bad \in SUBSET (SUBSET T)
      OBVIOUS
    <3> HIDE DEF Bad
    <3> QED
      BY <2>1, <3>1, SmallestSubset
  <2>3. h[B] = Step(h, B) /\ B \in SUBSET T
    <3> HIDE DEF Step
    <3> QED
      BY <1>3
  <2>4. B # {}
    <3>1. Step(h, {}) = 0 /\ g[{}] = 0
      BY DEF Additive
    <3> HIDE DEF Step
    <3> QED
      BY <2>3, <3>1
  <2> DEFINE x == CHOOSE x \in B : TRUE
  <2>5. x \in B /\ g[B] = g[B \ {x}] + f[x] /\ B \ {x} \in SUBSET T
    BY <1>1, <2>3, <2>4
  <2>6. h[B] = h[B \ {x}] + f[x]
    BY <2>3, <2>4
  <2> HIDE DEF x
  <2>7. h[B \ {x}] = g[B \ {x}]
    BY <2>2, <2>5
  <2> QED
    BY <2>5, <2>6, <2>7
<1>4. SumOver(T, f) = (CHOOSE h : h = [s \in SUBSET T |-> Step(h, s)])[T]
  BY DEF SumOver, FSets!FoldSet, FSets!MapThenFoldSet
<1> DEFINE Fold == CHOOSE h : h = [s \in SUBSET T |-> Step(h, s)]
<1>5. Fold = [s \in SUBSET T |-> Step(Fold, s)]
  <2> HIDE DEF Step
  <2> QED
    BY <1>2
<1> HIDE DEF Fold
<1>6. Fold[T] = g[T]
  BY <1>3, <1>5
<1> QED
  BY <1>4, <1>6 DEF Fold

\* The empty sum.
LEMMA SumEmpty ==
  ASSUME NEW f
  PROVE  SumOver({}, f) = 0
<1>1. IsFiniteSet({})
  BY FS_EmptySet
<1>2. \A x \in {} : f[x] \in Int
  OBVIOUS
<1>3. PICK g : Additive(g, {}, f)
  BY <1>1, <1>2, AdditiveExists
<1>4. SumOver({}, f) = g[{}]
  BY <1>1, <1>2, <1>3, SumIsAdditive
<1> QED
  BY <1>3, <1>4 DEF Additive

\* Sums of the subsets of a set are those that one additive function gives.
LEMMA SumsAreAdditive ==
  ASSUME NEW T, IsFiniteSet(T), NEW f, \A x \in T : f[x] \in Int,
         NEW g, Additive(g, T, f), NEW A \in SUBSET T
  PROVE  SumOver(A, f) = g[A]
<1> DEFINE h == [B \in SUBSET A |-> g[B]]
<1>1. Additive(h, A, f)
  BY DEF Additive
<1>2. IsFiniteSet(A) /\ \A x \in A : f[x] \in Int
  BY FS_Subset
<1>3. h[A] = g[A]
  OBVIOUS
<1> HIDE DEF h
<1> QED
  BY <1>1, <1>2, <1>3, SumIsAdditive

\* The sums of integers are integers, and one element more adds its value.
LEMMA SumAdd ==
  ASSUME NEW T, IsFiniteSet(T), NEW f, \A x \in T : f[x] \in Int
  PROVE  /\ \A A \in SUBSET T : SumOver(A, f) \in Int
         /\ \A A \in SUBSET T : \A x \in T \ A : SumOver(A \cup {x}, f) = SumOver(A, f) + f[x]
<1>1. PICK g : Additive(g, T, f)
  BY AdditiveExists
<1>2. \A A \in SUBSET T : SumOver(A, f) = g[A]
  BY <1>1, SumsAreAdditive
<1>3. \A A \in SUBSET T : \A x \in T \ A : A \cup {x} \in SUBSET T
  OBVIOUS
<1> QED
  BY <1>1, <1>2, <1>3 DEF Additive

\* Disjoint sets add up.
LEMMA SumUnion ==
  ASSUME NEW T, IsFiniteSet(T), NEW f, \A x \in T : f[x] \in Int,
         NEW A \in SUBSET T, NEW B \in SUBSET T, A \cap B = {}
  PROVE  SumOver(A \cup B, f) = SumOver(A, f) + SumOver(B, f)
<1> DEFINE Good == {C \in SUBSET T : C \cap A = {} =>
                      SumOver(A \cup C, f) = SumOver(A, f) + SumOver(C, f)}
<1>0. SumOver(A, f) \in Int /\ A \cup {} = A /\ f = f
  BY SumAdd
<1>1. {} \in Good
  BY <1>0, SumEmpty
<1>2. ASSUME NEW C \in SUBSET T, NEW x \in T \ C, C \in Good
      PROVE  C \cup {x} \in Good
  <2> SUFFICES ASSUME (C \cup {x}) \cap A = {}
               PROVE  SumOver(A \cup (C \cup {x}), f) = SumOver(A, f) + SumOver(C \cup {x}, f)
    OBVIOUS
  <2>1. SumOver(A \cup C, f) = SumOver(A, f) + SumOver(C, f)
    BY <1>2
  <2>2. SumOver(C \cup {x}, f) = SumOver(C, f) + f[x]
    BY SumAdd
  <2>3. PICK D \in SUBSET T : D = A \cup C
    OBVIOUS
  <2>4. A \cup (C \cup {x}) = D \cup {x} /\ x \in T \ D
    BY <2>3
  <2>7. SumOver(D \cup {x}, f) = SumOver(D, f) + f[x]
    BY <2>4, SumAdd
  <2>5. SumOver(A, f) \in Int /\ SumOver(C, f) \in Int /\ f[x] \in Int
    BY SumAdd
  <2>6. SumOver(A \cup (C \cup {x}), f) = SumOver(A \cup C, f) + f[x]
    BY <2>3, <2>4, <2>7
  <2> QED
    BY <2>1, <2>2, <2>5, <2>6
<1>3. SUBSET T \subseteq Good
  <2> HIDE DEF Good
  <2> QED
    BY <1>1, <1>2, SubsetInduction
<1>4. B \in Good /\ B \cap A = {}
  BY <1>3
<1> QED
  BY <1>4

\* Equal values have equal sums.
LEMMA SumSame ==
  ASSUME NEW T, IsFiniteSet(T), NEW f, \A x \in T : f[x] \in Int,
         NEW g, \A x \in T : g[x] = f[x]
  PROVE  SumOver(T, g) = SumOver(T, f)
<1> DEFINE Good == {A \in SUBSET T : SumOver(A, g) = SumOver(A, f)}
<1>1. {} \in Good
  BY SumEmpty
<1>2. ASSUME NEW A \in SUBSET T, NEW x \in T \ A, A \in Good
      PROVE  A \cup {x} \in Good
  <2>1. SumOver(A \cup {x}, f) = SumOver(A, f) + f[x]
    BY SumAdd
  <2>2. \A y \in T : g[y] \in Int
    OBVIOUS
  <2>3. SumOver(A \cup {x}, g) = SumOver(A, g) + g[x]
    BY <2>2, SumAdd
  <2> QED
    BY <1>2, <2>1, <2>3
<1>3. SUBSET T \subseteq Good
  <2> HIDE DEF Good
  <2> QED
    BY <1>1, <1>2, SubsetInduction
<1> QED
  BY <1>3

\* A sum of zeros.
LEMMA SumZero ==
  ASSUME NEW T, IsFiniteSet(T), NEW f, \A x \in T : f[x] = 0
  PROVE  SumOver(T, f) = 0
<1> DEFINE Good == {A \in SUBSET T : SumOver(A, f) = 0}
<1>1. {} \in Good
  BY SumEmpty
<1>2. ASSUME NEW A \in SUBSET T, NEW x \in T \ A, A \in Good
      PROVE  A \cup {x} \in Good
  <2>1. SumOver(A \cup {x}, f) = SumOver(A, f) + f[x]
    BY SumAdd
  <2> QED
    BY <1>2, <2>1
<1>3. SUBSET T \subseteq Good
  <2> HIDE DEF Good
  <2> QED
    BY <1>1, <1>2, SubsetInduction
<1> QED
  BY <1>3
-----------------------------------------------------------------------------
(* Words. *)

\* Division with remainder.
LEMMA DivMod ==
  ASSUME NEW a \in Int, NEW m \in Nat \ {0}
  PROVE  /\ a \div m \in Int /\ a % m \in 0 .. m - 1
         /\ a = m * (a \div m) + (a % m)
OBVIOUS

\* Only 0 is a multiple of m between -m and m.
LEMMA SmallMultiple ==
  ASSUME NEW k \in Int, NEW m \in Nat \ {0}, m * k < m, -m < m * k
  PROVE  k = 0
<1>1. CASE k >= 1
  <2>1. m * k >= m
    BY <1>1
  <2> QED
    BY <2>1
<1>2. CASE k <= -1
  <2>1. m * k <= -m
    BY <1>2
  <2> QED
    BY <2>1
<1> QED
  BY <1>1, <1>2

\* A word is its own remainder.
LEMMA WordRemainder ==
  /\ Modulus \in Nat \ {0}
  /\ \A x \in Word : x \in Int /\ x % Modulus = x /\ (x + 0) % Modulus = x
<1>1. ASSUME NEW m \in Nat \ {0}, NEW x \in 0 .. m - 1
      PROVE  x \in Int /\ x % m = x /\ x + 0 = x
  OBVIOUS
<1>2. Modulus \in Nat \ {0}
  BY QueryAssumption
<1> QED
  BY <1>1, <1>2 DEF Word

\* Numbers that differ by a multiple of m are the same word.
LEMMA SameRemainder ==
  \A m \in Nat \ {0} : \A a, b, k \in Int : a = b + m * k => a % m = b % m
<1> SUFFICES ASSUME NEW m \in Nat \ {0}, NEW a \in Int, NEW b \in Int, NEW k \in Int,
                    a = b + m * k
             PROVE  a % m = b % m
  OBVIOUS
<1> DEFINE qa == a \div m
           qb == b \div m
           ra == a % m
           rb == b % m
<1>1. qa \in Int /\ ra \in 0 .. m - 1 /\ a = m * qa + ra
  BY DivMod
<1>2. qb \in Int /\ rb \in 0 .. m - 1 /\ b = m * qb + rb
  BY DivMod
<1> HIDE DEF qa, qb, ra, rb
<1>3. m * ((qb + k) - qa) = ra - rb
  <2>1. m * ((qb + k) - qa) = (m * qb + m * k) - m * qa
    BY <1>1, <1>2
  <2> QED
    BY <1>1, <1>2, <2>1
<1>4. ra - rb < m /\ -m < ra - rb
  BY <1>1, <1>2
<1>5. (qb + k) - qa \in Int
  BY <1>1, <1>2
<1>6. (qb + k) - qa = 0
  BY <1>3, <1>4, <1>5, SmallMultiple
<1>7. ra - rb = 0
  BY <1>3, <1>6
<1>8. ra = rb
  BY <1>1, <1>2, <1>7
<1> QED
  BY <1>8 DEF ra, rb

\* A sum of words is the word of the sum.
LEMMA ModAdd ==
  ASSUME NEW a \in Int, NEW b \in Int, NEW m \in Nat \ {0}
  PROVE  /\ ((a % m) + b) % m = (a + b) % m
         /\ ((a % m) + (b % m)) % m = (a + b) % m
         /\ (a + (b % m)) % m = (a + b) % m
<1>0. \A x, y, k \in Int : x = y + m * k => x % m = y % m
  BY SameRemainder, Zenon
<1> DEFINE qa == a \div m
           qb == b \div m
           ra == a % m
           rb == b % m
<1>1. qa \in Int /\ ra \in Int /\ a = m * qa + ra
  BY DivMod
<1>2. qb \in Int /\ rb \in Int /\ b = m * qb + rb
  BY DivMod
<1> HIDE DEF qa, qb, ra, rb
<1>3. PICK s \in Int : s = a + b
  OBVIOUS
<1>4. PICK t \in Int : t = ra + b
  BY <1>1
<1>5. PICK u \in Int : u = a + rb
  BY <1>2
<1>6. PICK v \in Int : v = ra + rb
  BY <1>1, <1>2
<1>7. s = t + m * qa /\ s = u + m * qb
  BY <1>1, <1>2, <1>3, <1>4, <1>5
<1>8. PICK k \in Int : k = qa + qb /\ m * k = m * qa + m * qb
  BY <1>1, <1>2
<1>9. s = v + m * k
  BY <1>1, <1>2, <1>3, <1>6, <1>8
<1>10. s % m = t % m
  BY <1>0, <1>1, <1>7, Zenon
<1>11. s % m = u % m
  BY <1>0, <1>2, <1>7, Zenon
<1>12. s % m = v % m
  BY <1>0, <1>8, <1>9, Zenon
<1> QED
  BY <1>3, <1>4, <1>5, <1>6, <1>10, <1>11, <1>12 DEF ra, rb

\* Sums in words: an element more, and two disjoint sets.
LEMMA WordSums ==
  ASSUME IsFiniteSet(Report), NEW f, \A r \in Report : f[r] \in Int, NEW m \in Nat \ {0}
  PROVE  /\ SumOver({}, f) % m = 0
         /\ \A A \in SUBSET Report : SumOver(A, f) % m \in 0 .. m - 1
         /\ \A A \in SUBSET Report : \A r \in Report \ A :
              ((SumOver(A, f) % m) + f[r]) % m = SumOver(A \cup {r}, f) % m
         /\ \A A, B \in SUBSET Report : A \cap B = {} =>
              ((SumOver(A, f) % m) + (SumOver(B, f) % m)) % m = SumOver(A \cup B, f) % m
<1>1. \A A \in SUBSET Report : SumOver(A, f) \in Int
  BY SumAdd
<1>2. SumOver({}, f) % m = 0
  <2>1. 0 % m = 0
    OBVIOUS
  <2> QED
    BY <2>1, SumEmpty
<1>3. ASSUME NEW A \in SUBSET Report
      PROVE  SumOver(A, f) % m \in 0 .. m - 1
  BY <1>1, DivMod
<1>4. ASSUME NEW A \in SUBSET Report, NEW r \in Report \ A
      PROVE  ((SumOver(A, f) % m) + f[r]) % m = SumOver(A \cup {r}, f) % m
  <2>1. SumOver(A \cup {r}, f) = SumOver(A, f) + f[r]
    BY SumAdd
  <2>2. ((SumOver(A, f) % m) + f[r]) % m = (SumOver(A, f) + f[r]) % m
    BY <1>1, ModAdd
  <2> QED
    BY <2>1, <2>2
<1>5. ASSUME NEW A \in SUBSET Report, NEW B \in SUBSET Report, A \cap B = {}
      PROVE  ((SumOver(A, f) % m) + (SumOver(B, f) % m)) % m = SumOver(A \cup B, f) % m
  <2>1. SumOver(A \cup B, f) = SumOver(A, f) + SumOver(B, f)
    BY <1>5, SumUnion
  <2>2. ((SumOver(A, f) % m) + (SumOver(B, f) % m)) % m = (SumOver(A, f) + SumOver(B, f)) % m
    BY <1>1, ModAdd
  <2> QED
    BY <2>1, <2>2
<1> QED
  BY <1>2, <1>3, <1>4, <1>5

\* A sum over some elements is one over all, with zeros.
LEMMA SumFilter ==
  ASSUME NEW T, IsFiniteSet(T), NEW f, \A x \in T : f[x] \in Int, NEW S \in SUBSET T,
         NEW g, \A x \in T : g[x] = IF x \in S THEN f[x] ELSE 0
  PROVE  SumOver(S, f) = SumOver(T, g)
<1> DEFINE Good == {A \in SUBSET T : SumOver(A \cap S, f) = SumOver(A, g)}
<1>0. \A x \in T : g[x] \in Int
  OBVIOUS
<1>1. {} \in Good
  <2>1. {} \cap S = {}
    OBVIOUS
  <2> QED
    BY <2>1, SumEmpty
<1>2. ASSUME NEW A \in SUBSET T, NEW x \in T \ A, A \in Good
      PROVE  A \cup {x} \in Good
  <2>1. SumOver(A \cup {x}, g) = SumOver(A, g) + g[x] /\ SumOver(A, g) \in Int
    BY <1>0, SumAdd
  <2>2. SumOver(A \cap S, f) = SumOver(A, g)
    BY <1>2
  <2>3. PICK B \in SUBSET T : B = A \cap S
    OBVIOUS
  <2>4. CASE x \in S
    <3>1. (A \cup {x}) \cap S = B \cup {x} /\ x \in T \ B
      BY <2>3, <2>4
    <3>2. SumOver(B \cup {x}, f) = SumOver(B, f) + f[x]
      BY <3>1, SumAdd
    <3> QED
      BY <2>1, <2>2, <2>3, <2>4, <3>1, <3>2
  <2>5. CASE x \notin S
    <3>1. (A \cup {x}) \cap S = A \cap S
      BY <2>5
    <3>2. g[x] = 0
      BY <2>5
    <3>3. SumOver((A \cup {x}) \cap S, f) = SumOver(A, g)
      BY <2>2, <3>1
    <3>4. SumOver(A \cup {x}, g) = SumOver(A, g)
      BY <2>1, <3>2
    <3>5. A \cup {x} \in SUBSET T
      OBVIOUS
    <3> QED
      BY <3>3, <3>4, <3>5
  <2> QED
    BY <2>4, <2>5
<1>3. SUBSET T \subseteq Good
  <2> HIDE DEF Good
  <2> QED
    BY <1>1, <1>2, SubsetInduction
<1>4. T \cap S = S
  OBVIOUS
<1> QED
  BY <1>3, <1>4

\* Sums of terms that add up, in words.
LEMMA SumOfWords ==
  ASSUME NEW T, IsFiniteSet(T), NEW m \in Nat \ {0},
         NEW f, \A x \in T : f[x] \in Int, NEW g, \A x \in T : g[x] \in Int,
         NEW h, \A x \in T : h[x] \in Int, \A x \in T : (f[x] + g[x]) % m = h[x] % m
  PROVE  ((SumOver(T, f) % m) + (SumOver(T, g) % m)) % m = SumOver(T, h) % m
<1> DEFINE Good == {A \in SUBSET T : (SumOver(A, f) + SumOver(A, g)) % m = SumOver(A, h) % m}
<1>1. {} \in Good
  <2>1. (0 + 0) % m = 0 % m
    OBVIOUS
  <2> QED
    BY <2>1, SumEmpty
<1>2. ASSUME NEW A \in SUBSET T, NEW x \in T \ A, A \in Good
      PROVE  A \cup {x} \in Good
  <2>1. PICK a \in Int, b \in Int, c \in Int :
          a = SumOver(A, f) /\ b = SumOver(A, g) /\ c = SumOver(A, h)
    BY SumAdd
  <2>2. /\ SumOver(A \cup {x}, f) = a + f[x] /\ SumOver(A \cup {x}, g) = b + g[x]
        /\ SumOver(A \cup {x}, h) = c + h[x]
    BY <2>1, SumAdd
  <2>3. PICK u \in Int, v \in Int, w \in Int : u = f[x] /\ v = g[x] /\ w = h[x]
    OBVIOUS
  <2>4. (a + b) % m = c % m /\ (u + v) % m = w % m
    BY <1>2, <2>1, <2>3
  <2>5. PICK ab \in Int, uv \in Int : ab = a + b /\ uv = u + v
    OBVIOUS
  <2>6. ((ab % m) + (uv % m)) % m = (ab + uv) % m
    BY ModAdd
  <2>7. ((c % m) + (w % m)) % m = (c + w) % m
    BY ModAdd
  <2>8. (a + u) + (b + v) = ab + uv
    BY <2>5
  <2>9. ((a + u) + (b + v)) % m = (c + w) % m
    BY <2>4, <2>5, <2>6, <2>7, <2>8
  <2> QED
    BY <2>2, <2>3, <2>9
<1>3. SUBSET T \subseteq Good
  <2> HIDE DEF Good
  <2> QED
    BY <1>1, <1>2, SubsetInduction
<1>4. (SumOver(T, f) + SumOver(T, g)) % m = SumOver(T, h) % m
  BY <1>3
<1>5. SumOver(T, f) \in Int /\ SumOver(T, g) \in Int
  BY SumAdd
<1> QED
  BY <1>4, <1>5, ModAdd

\* A factor that all terms of a sum have.
LEMMA SumScale ==
  ASSUME NEW T, IsFiniteSet(T), NEW f, \A x \in T : f[x] \in Int, NEW g, NEW c \in Int,
         \A x \in T : g[x] = c * f[x]
  PROVE  SumOver(T, f) \in Int /\ SumOver(T, g) = c * SumOver(T, f)
<1> DEFINE Good == {A \in SUBSET T : SumOver(A, g) = c * SumOver(A, f)}
<1>0. \A x \in T : g[x] \in Int
  OBVIOUS
<1>1. {} \in Good
  <2>1. c * 0 = 0
    OBVIOUS
  <2> QED
    BY <2>1, SumEmpty
<1>2. ASSUME NEW A \in SUBSET T, NEW x \in T \ A, A \in Good
      PROVE  A \cup {x} \in Good
  <2>1. PICK a \in Int : a = SumOver(A, f) /\ SumOver(A \cup {x}, f) = a + f[x]
    BY SumAdd
  <2>2. SumOver(A \cup {x}, g) = SumOver(A, g) + g[x]
    BY <1>0, SumAdd
  <2>3. SumOver(A, g) = c * a
    BY <1>2, <2>1
  <2>4. PICK y \in Int : y = f[x] /\ g[x] = c * y
    OBVIOUS
  <2>5. c * a + c * y = c * (a + y)
    BY <2>1, <2>4
  <2>6. A \cup {x} \in SUBSET T
    OBVIOUS
  <2>7. SumOver(A \cup {x}, g) = c * SumOver(A \cup {x}, f)
    BY <2>1, <2>2, <2>3, <2>4, <2>5
  <2> QED
    BY <2>6, <2>7
<1>3. SUBSET T \subseteq Good
  <2> HIDE DEF Good
  <2> QED
    BY <1>1, <1>2, SubsetInduction
<1> QED
  BY <1>3, SumAdd

\* A sum of ones counts.
LEMMA SumCounts ==
  ASSUME NEW T, IsFiniteSet(T), NEW f, \A x \in T : f[x] = 1
  PROVE  SumOver(T, f) = Cardinality(T)
<1> DEFINE Good == {A \in SUBSET T : SumOver(A, f) = Cardinality(A)}
<1>0. \A x \in T : f[x] \in Int
  OBVIOUS
<1>1. {} \in Good
  BY SumEmpty, FS_EmptySet
<1>2. ASSUME NEW A \in SUBSET T, NEW x \in T \ A, A \in Good
      PROVE  A \cup {x} \in Good
  <2>1. IsFiniteSet(A)
    BY FS_Subset
  <2>2. Cardinality(A \cup {x}) = Cardinality(A) + 1
    BY <2>1, FS_AddElement
  <2>3. SumOver(A \cup {x}, f) = SumOver(A, f) + f[x]
    BY <1>0, SumAdd
  <2>4. SumOver(A, f) = Cardinality(A) /\ f[x] = 1 /\ A \cup {x} \in SUBSET T
    BY <1>2
  <2>5. SumOver(A \cup {x}, f) = Cardinality(A \cup {x})
    BY <2>2, <2>3, <2>4
  <2> QED
    BY <2>4, <2>5
<1>3. SUBSET T \subseteq Good
  <2> HIDE DEF Good
  <2> QED
    BY <1>1, <1>2, SubsetInduction
<1> QED
  BY <1>3

\* Taking the remainder twice is taking it once.
LEMMA ModTwice ==
  ASSUME NEW a \in Int, NEW m \in Nat \ {0}
  PROVE  (a % m) % m = a % m /\ 0 % m = 0
<1>1. PICK z \in Int : z = 0
  OBVIOUS
<1>2. ((a % m) + z) % m = (a + z) % m
  BY ModAdd
<1>3. a % m \in Int
  BY DivMod
<1>4. (a % m) + z = a % m /\ a + z = a
  BY <1>1, <1>3
<1>5. 0 % m = 0
  OBVIOUS
<1> QED
  BY <1>2, <1>4, <1>5

\* Products of words.
LEMMA ModMul ==
  ASSUME NEW a \in Int, NEW b \in Int, NEW m \in Nat \ {0}
  PROVE  /\ ((a % m) * b) % m = (a * b) % m
         /\ (a * (b % m)) % m = (a * b) % m
<1>1. ASSUME NEW x \in Int, NEW y \in Int
      PROVE  ((x % m) * y) % m = (x * y) % m
  <2>0. x \div m \in Int /\ x % m \in Int /\ x = m * (x \div m) + (x % m)
    BY DivMod
  <2>1. PICK e \in Int : e = x % m
    BY <2>0
  <2>8. PICK d \in Int : d = x \div m
    BY <2>0
  <2>2. x = m * d + e
    BY <2>0, <2>1, <2>8
  <2>3. PICK u \in Int : u = x * y
    OBVIOUS
  <2>4. PICK v \in Int : v = e * y
    OBVIOUS
  <2>5. PICK w \in Int : w = d * y
    OBVIOUS
  <2>9. \A i, j, k \in Int : (m * i + j) * k = j * k + m * (i * k)
    OBVIOUS
  <2>6. u = v + m * w
    <3>1. u = (m * d + e) * y
      BY <2>2, <2>3
    <3>2. (m * d + e) * y = e * y + m * (d * y)
      BY <2>1, <2>8, <2>9
    <3>3. u = e * y + m * (d * y)
      BY <3>1, <3>2
    <3>4. v = e * y /\ w = d * y
      BY <2>4, <2>5
    <3> QED
      BY <3>3, <3>4, Zenon
  <2>7. u % m = v % m
    BY <2>6, SameRemainder, Zenon
  <2> QED
    BY <2>1, <2>3, <2>4, <2>7
<1>2. ((a % m) * b) % m = (a * b) % m
  BY <1>1
<1>3. ((b % m) * a) % m = (b * a) % m
  BY <1>1
<1>4. (b % m) * a = a * (b % m) /\ b * a = a * b
  <2>1. b % m \in Int
    BY DivMod
  <2> QED
    BY <2>1
<1> QED
  BY <1>2, <1>3, <1>4
-----------------------------------------------------------------------------
(* Vectors and their segments. *)

\* The segments of a combine cover the indexes of the vector, and no others.
Covers(segments, n) ==
  /\ \A s \in segments : s.start \in Nat /\ \A i \in 0 .. s.length - 1 : i + s.start \in 0 .. n - 1
  /\ \A k \in 0 .. n - 1 : \E s \in segments : \E i \in 0 .. s.length - 1 : k = i + s.start

ValidCombine(c) == c.direct \in BOOLEAN /\ c.segmentLength \in Nat \ {0}

\* So they do, for one segment or several, with and without a remainder.
LEMMA SegmentsCover ==
  ASSUME NEW n \in Nat, NEW c, ValidCombine(c)
  PROVE  Covers(Dpf!Segments(n, c), n)
<1>1. CASE c.direct
  <2>1. Dpf!Segments(n, c) = {[start |-> 0, length |-> n]}
    BY <1>1 DEF Dpf!Segments
  <2> QED
    BY <2>1 DEF Covers
<1>2. CASE ~ c.direct
  <2>1. PICK size \in Nat \ {0} : size = c.segmentLength
    BY DEF ValidCombine
  <2> DEFINE count == n \div size
             rest == n % size
             Whole == {[start |-> i * size, length |-> size] : i \in 0 .. count - 1}
             Last == IF rest = 0 THEN {} ELSE {[start |-> count * size, length |-> rest]}
  <2>2. Dpf!Segments(n, c) = Whole \cup Last
    BY <1>2, <2>1 DEF Dpf!Segments, Dpf!Indexes
  <2>3. count \in Nat /\ rest \in 0 .. size - 1 /\ n = size * count + rest
    <3>1. count \in Int /\ rest \in 0 .. size - 1 /\ n = size * count + rest
      BY DivMod
    <3> HIDE DEF count, rest
    <3>2. CASE count <= -1
      <4>1. size * count <= -size
        BY <3>1, <3>2
      <4> QED
        BY <3>1, <4>1
    <3> QED
      BY <3>1, <3>2
  <2> HIDE DEF count, rest
  <2>4. ASSUME NEW s \in Whole, NEW i \in 0 .. s.length - 1
        PROVE  s.start \in Nat /\ i + s.start \in 0 .. n - 1
    <3>1. PICK j \in 0 .. count - 1 : s = [start |-> j * size, length |-> size]
      OBVIOUS
    <3>2. j * size \in Nat /\ i \in 0 .. size - 1 /\ s.start = j * size
      BY <3>1
    <3>3. j * size + size <= size * count
      <4>1. j + 1 <= count
        BY <2>3
      <4>2. (j + 1) * size <= count * size
        BY <2>3, <4>1
      <4> QED
        BY <4>2, <2>3
    <3>4. PICK t \in Nat : t = j * size
      BY <3>2
    <3>5. PICK u \in Int : u = size * count
      BY <2>3
    <3>6. t + size <= u /\ n = u + rest
      BY <2>3, <3>3, <3>4, <3>5
    <3> QED
      BY <2>3, <3>2, <3>4, <3>6
  <2>5. ASSUME NEW s \in Last, NEW i \in 0 .. s.length - 1
        PROVE  s.start \in Nat /\ i + s.start \in 0 .. n - 1
    <3>1. s.start = count * size /\ s.length = rest
      OBVIOUS
    <3>2. PICK u \in Nat : u = count * size /\ u = size * count
      BY <2>3
    <3> QED
      BY <2>3, <3>1, <3>2
  <2>6. ASSUME NEW k \in 0 .. n - 1
        PROVE  \E s \in Whole \cup Last : \E i \in 0 .. s.length - 1 : k = i + s.start
    <3> DEFINE j == k \div size
               i == k % size
    <3>1. j \in Int /\ i \in 0 .. size - 1 /\ k = size * j + i
      BY DivMod
    <3> HIDE DEF i, j
    <3>2. j >= 0
      <4>1. CASE j <= -1
        <5>1. size * j <= -size
          BY <3>1, <4>1
        <5> QED
          BY <3>1, <5>1
      <4> QED
        BY <3>1, <4>1
    <3>3. CASE j <= count - 1
      <4>1. j \in 0 .. count - 1
        BY <2>3, <3>1, <3>2, <3>3
      <4>2. [start |-> j * size, length |-> size] \in Whole
        BY <4>1
      <4>3. PICK s \in Whole : s.start = j * size /\ s.length = size
        BY <4>2
      <4>4. PICK t \in Int : t = j * size /\ t = size * j
        BY <3>1
      <4>5. k = i + s.start /\ i \in 0 .. s.length - 1
        BY <3>1, <4>3, <4>4
      <4> HIDE DEF Whole, Last
      <4> QED
        BY <4>5
    <3>4. CASE j >= count
      <4>1. size * j >= size * count
        BY <2>3, <3>1, <3>4
      <4>2. PICK u \in Int : u = size * count /\ u = count * size
        BY <2>3
      <4>3. PICK v \in Int : v = size * j
        BY <3>1
      <4>4. k - u \in 0 .. rest - 1
        BY <2>3, <3>1, <4>1, <4>2, <4>3
      <4>5. [start |-> u, length |-> rest] \in Last
        BY <4>2, <4>4, <2>3
      <4>6. PICK s \in Last : s.start = u /\ s.length = rest
        BY <4>5
      <4>7. k = (k - u) + s.start /\ k - u \in 0 .. s.length - 1
        BY <4>2, <4>4, <4>6
      <4> HIDE DEF Whole, Last
      <4> QED
        BY <4>7
    <3> HIDE DEF Whole, Last
    <3> QED
      BY <2>3, <3>1, <3>3, <3>4
  <2>7. \A s \in Whole : s.start \in Nat
    <3> SUFFICES ASSUME NEW j \in 0 .. count - 1 PROVE j * size \in Nat
      OBVIOUS
    <3> QED
      BY <2>3
  <2>8. \A s \in Last : s.start \in Nat
    BY <2>3
  <2> HIDE DEF Whole, Last
  <2> QED
    BY <2>2, <2>4, <2>5, <2>6, <2>7, <2>8 DEF Covers
<1> QED
  BY <1>1, <1>2 DEF ValidCombine

\* The sums, as words, of the vectors of the reports in R, in segments.
Terms(p, k) == [r \in Report |-> p[r][k]]

VectorSums(segments, p, R) ==
  [s \in segments |-> [i \in 0 .. s.length - 1 |-> SumOver(R, Terms(p, i + s.start)) % Modulus]]

\* An accumulator of no report is a new one, AddInput adds one report, and
\* MergeAccumulators those of two sets that share none.
LEMMA VectorLaws ==
  ASSUME IsFiniteSet(Report), NEW segments, NEW n, Covers(segments, n), NEW p,
         \A r \in Report, k \in 0 .. n - 1 : p[r][k] \in Int
  PROVE  /\ VectorSums(segments, p, {}) = Dpf!CreateAccumulator(segments)
         /\ \A A \in SUBSET Report : \A r \in Report \ A :
              Dpf!AddInput(VectorSums(segments, p, A), p[r]) = VectorSums(segments, p, A \cup {r})
         /\ \A A, B \in SUBSET Report : A \cap B = {} =>
              Dpf!MergeAccumulators(VectorSums(segments, p, A), VectorSums(segments, p, B))
                = VectorSums(segments, p, A \cup B)
<1> DEFINE Sum(R, k) == SumOver(R, Terms(p, k)) % Modulus
<1>1. Modulus \in Nat \ {0}
  BY QueryAssumption
<1>2. ASSUME NEW k \in 0 .. n - 1
      PROVE  /\ Sum({}, k) = 0
             /\ \A A \in SUBSET Report : \A r \in Report \ A :
                  (Sum(A, k) + p[r][k]) % Modulus = Sum(A \cup {r}, k)
             /\ \A A, B \in SUBSET Report : A \cap B = {} =>
                  (Sum(A, k) + Sum(B, k)) % Modulus = Sum(A \cup B, k)
  <2> DEFINE f == Terms(p, k)
  <2>1. \A r \in Report : f[r] = p[r][k] /\ f[r] \in Int
    BY DEF Terms
  <2> HIDE DEF f
  <2>2. /\ SumOver({}, f) % Modulus = 0
        /\ \A A \in SUBSET Report : \A r \in Report \ A :
              ((SumOver(A, f) % Modulus) + f[r]) % Modulus = SumOver(A \cup {r}, f) % Modulus
        /\ \A A, B \in SUBSET Report : A \cap B = {} =>
              ((SumOver(A, f) % Modulus) + (SumOver(B, f) % Modulus)) % Modulus
                = SumOver(A \cup B, f) % Modulus
    BY <1>1, <2>1, WordSums
  <2> QED
    BY <2>1, <2>2 DEF f
<1>3. \A s \in segments : \A i \in 0 .. s.length - 1 : i + s.start \in 0 .. n - 1
  BY DEF Covers
<1>4. \A R : VectorSums(segments, p, R)
               = [s \in segments |-> [i \in 0 .. s.length - 1 |-> Sum(R, i + s.start)]]
  BY DEF VectorSums
<1>8. ASSUME NEW R, NEW s \in segments, NEW i \in 0 .. s.length - 1
      PROVE  VectorSums(segments, p, R)[s][i] = Sum(R, i + s.start)
  BY DEF VectorSums
<1> HIDE DEF Sum
<1>5. VectorSums(segments, p, {}) = Dpf!CreateAccumulator(segments)
  BY <1>2, <1>3, <1>4 DEF Dpf!CreateAccumulator, Dpf!Indexes
<1>6. ASSUME NEW A \in SUBSET Report, NEW r \in Report \ A
      PROVE  Dpf!AddInput(VectorSums(segments, p, A), p[r]) = VectorSums(segments, p, A \cup {r})
  <2>1. \A s \in segments : \A i \in 0 .. s.length - 1 :
          (Sum(A, i + s.start) + p[r][i + s.start]) % Modulus = Sum(A \cup {r}, i + s.start)
    BY <1>2, <1>3
  <2> DEFINE V == VectorSums(segments, p, A)
  <2>2. DOMAIN V = segments /\ \A s \in segments : DOMAIN V[s] = 0 .. s.length - 1
    BY <1>4
  <2>3. \A s \in segments : \A i \in 0 .. s.length - 1 : V[s][i] = Sum(A, i + s.start)
    BY <1>8
  <2> HIDE DEF V
  <2>4. Dpf!AddInput(V, p[r])
          = [s \in DOMAIN V |-> [i \in DOMAIN V[s] |-> (V[s][i] + p[r][i + s.start]) % Modulus]]
    BY DEF Dpf!AddInput
  <2>5. \A s \in segments :
          [i \in DOMAIN V[s] |-> (V[s][i] + p[r][i + s.start]) % Modulus]
            = [i \in 0 .. s.length - 1 |-> Sum(A \cup {r}, i + s.start)]
    BY <2>1, <2>2, <2>3
  <2>6. VectorSums(segments, p, A \cup {r})
          = [s \in segments |-> [i \in 0 .. s.length - 1 |-> Sum(A \cup {r}, i + s.start)]]
    BY <1>4
  <2>7. Dpf!AddInput(V, p[r]) = VectorSums(segments, p, A \cup {r})
    BY <2>2, <2>4, <2>5, <2>6
  <2> QED
    BY <2>7 DEF V
<1>7. ASSUME NEW A \in SUBSET Report, NEW B \in SUBSET Report, A \cap B = {}
      PROVE  Dpf!MergeAccumulators(VectorSums(segments, p, A), VectorSums(segments, p, B))
               = VectorSums(segments, p, A \cup B)
  <2>1. \A s \in segments : \A i \in 0 .. s.length - 1 :
          (Sum(A, i + s.start) + Sum(B, i + s.start)) % Modulus = Sum(A \cup B, i + s.start)
    BY <1>2, <1>3, <1>7
  <2> DEFINE V == VectorSums(segments, p, A)
             W == VectorSums(segments, p, B)
  <2>2. /\ DOMAIN V = segments /\ \A s \in segments : DOMAIN V[s] = 0 .. s.length - 1
    BY <1>4
  <2>3. \A s \in segments : \A i \in 0 .. s.length - 1 :
          V[s][i] = Sum(A, i + s.start) /\ W[s][i] = Sum(B, i + s.start)
    BY <1>8
  <2> HIDE DEF V, W
  <2>4. Dpf!MergeAccumulators(V, W)
          = [s \in DOMAIN V |-> [i \in DOMAIN V[s] |-> (V[s][i] + W[s][i]) % Modulus]]
    BY DEF Dpf!MergeAccumulators
  <2>5. \A s \in segments :
          [i \in DOMAIN V[s] |-> (V[s][i] + W[s][i]) % Modulus]
            = [i \in 0 .. s.length - 1 |-> Sum(A \cup B, i + s.start)]
    BY <2>1, <2>2, <2>3
  <2>6. VectorSums(segments, p, A \cup B)
          = [s \in segments |-> [i \in 0 .. s.length - 1 |-> Sum(A \cup B, i + s.start)]]
    BY <1>4
  <2>7. Dpf!MergeAccumulators(V, W) = VectorSums(segments, p, A \cup B)
    BY <2>2, <2>4, <2>5, <2>6
  <2> QED
    BY <2>7 DEF V, W
<1> QED
  BY <1>5, <1>6, <1>7
-----------------------------------------------------------------------------
(* The expansion of a DPF key. *)

LevelParams == [level : Nat, previousLevel : Int, prefixes : Seq(Nat), direct : BOOLEAN]

\* The bucket of an index of the vector.
BucketAt(par, k) ==
  LET ids == Dpf!AllBucketIDs(par) IN IF ids # <<>> THEN ids[k + 1] ELSE k

\* What an expansion has at each index: the share of a bucket, and every
\* bucket of the level has an index.
Expands(par) ==
  LET n == Dpf!VectorLength(par)
      buckets == ExpandedBuckets(Dpf!AsQueryParams(par))
  IN  /\ n \in Nat
      /\ \A k \in 0 .. n - 1 : BucketAt(par, k) \in buckets
      /\ \A b \in buckets : \E k \in 0 .. n - 1 : BucketAt(par, k) = b
      /\ \A key : \A k \in 0 .. n - 1 :
           Dpf!ExpandDpfKey(par, key)[k] = Dpf!Share(key, par.level, BucketAt(par, k))

\* The prefixes as a set, and the domain of a level.
LEMMA ParamsFacts ==
  ASSUME NEW par \in LevelParams, CheckExpansionParameters(Dpf!AsQueryParams(par))
  PROVE  /\ Dpf!AsQueryParams(par).level = par.level
         /\ Dpf!AsQueryParams(par).previousLevel = par.previousLevel
         /\ Dpf!AsQueryParams(par).direct = par.direct
         /\ Dpf!AsQueryParams(par).prefixes = {par.prefixes[i] : i \in 1 .. Len(par.prefixes)}
         /\ par.previousLevel \in -1 .. par.level - 1 /\ par.level \in 0 .. KeyBitSize - 1
         /\ Dpf!LogDomainSize(par.level) = par.level + 1
         /\ par.previousLevel >= 0 => Dpf!LogDomainSize(par.previousLevel) = par.previousLevel + 1
         /\ par.direct => par.previousLevel = -1 /\ par.prefixes # <<>>
         /\ ~ par.direct => (par.previousLevel = -1 <=> par.prefixes = <<>>)
<1> DEFINE q == Dpf!AsQueryParams(par)
<1>0. par.level \in Nat /\ par.previousLevel \in Int /\ par.direct \in BOOLEAN
      /\ par.prefixes \in Seq(Nat)
  BY DEF LevelParams
<1>1. /\ q.level = par.level /\ q.previousLevel = par.previousLevel /\ q.direct = par.direct
      /\ q.prefixes = {par.prefixes[i] : i \in DOMAIN par.prefixes}
  BY DEF Dpf!AsQueryParams, LevelParams
<1>2. DOMAIN par.prefixes = 1 .. Len(par.prefixes)
  BY <1>0
<1>3. par.prefixes = <<>> <=> q.prefixes = {}
  <2>1. CASE par.prefixes = <<>>
    BY <1>1, <2>1
  <2>2. CASE par.prefixes # <<>>
    <3>1. 1 \in DOMAIN par.prefixes
      BY <1>0, <2>2
    <3> QED
      BY <1>1, <2>2, <3>1
  <2> QED
    BY <2>1, <2>2
<1> HIDE DEF q
<1>4. /\ q.previousLevel >= -1 /\ q.previousLevel < q.level /\ q.level <= KeyBitSize - 1
      /\ q.direct => q.previousLevel = -1 /\ q.prefixes # {}
      /\ ~ q.direct => (q.previousLevel = -1 <=> q.prefixes = {})
  BY DEF CheckExpansionParameters, CheckLevels, q
<1>5. par.previousLevel \in -1 .. par.level - 1 /\ par.level \in 0 .. KeyBitSize - 1
  BY <1>0, <1>1, <1>4, QueryAssumption
<1>6. \A l \in 0 .. KeyBitSize - 1 : Dpf!LogDomainSize(l) = l + 1
  BY DEF Dpf!LogDomainSize, Dpf!DefaultDPFParameters, Dpf!Indexes
<1>7. par.previousLevel >= 0 => par.previousLevel \in 0 .. KeyBitSize - 1
  BY <1>5, QueryAssumption
<1> QED
  BY <1>1, <1>2, <1>3, <1>4, <1>5, <1>6, <1>7 DEF q

\* A direct expansion has the buckets asked for, in their order.
LEMMA ExpandsDirect ==
  ASSUME NEW par \in LevelParams, CheckExpansionParameters(Dpf!AsQueryParams(par)), par.direct
  PROVE  Expands(par)
<1>1. par.prefixes \in Seq(Nat) /\ par.prefixes # <<>>
  BY ParamsFacts DEF LevelParams
<1> DEFINE n == Len(par.prefixes)
<1>2. n \in Nat /\ Dpf!VectorLength(par) = n
  BY <1>1 DEF Dpf!VectorLength
<1>3. ExpandedBuckets(Dpf!AsQueryParams(par)) = {par.prefixes[i] : i \in 1 .. n}
  BY ParamsFacts DEF ExpandedBuckets
<1>4. \A k \in 0 .. n - 1 : BucketAt(par, k) = par.prefixes[k + 1]
  BY <1>1 DEF BucketAt, Dpf!AllBucketIDs
<1>5. ASSUME NEW key, NEW k \in 0 .. n - 1
      PROVE  Dpf!ExpandDpfKey(par, key)[k] = Dpf!Share(key, par.level, par.prefixes[k + 1])
  BY DEF Dpf!ExpandDpfKey, Dpf!EvaluateAt64, Dpf!Indexes
<1>6. \A k \in 0 .. n - 1 : k + 1 \in 1 .. n
  BY <1>2
<1>7. \A i \in 1 .. n : i - 1 \in 0 .. n - 1 /\ (i - 1) + 1 = i
  BY <1>2
<1>8. ASSUME NEW b \in {par.prefixes[i] : i \in 1 .. n}
      PROVE  \E k \in 0 .. n - 1 : BucketAt(par, k) = b
  <2>1. PICK i \in 1 .. n : b = par.prefixes[i]
    OBVIOUS
  <2>2. BucketAt(par, i - 1) = b
    BY <1>4, <1>7, <2>1
  <2> QED
    BY <1>7, <2>2
<1> HIDE DEF n
<1> QED
  BY <1>2, <1>3, <1>4, <1>5, <1>6, <1>8 DEF Expands

\* The expansion of a first level has all the buckets of that length.
LEMMA ExpandsFirstLevel ==
  ASSUME NEW par \in LevelParams, CheckExpansionParameters(Dpf!AsQueryParams(par)),
         ~ par.direct, par.previousLevel = -1
  PROVE  Expands(par)
<1> DEFINE n == 2 ^ (par.level + 1)
<1>1. par.prefixes = <<>> /\ Dpf!LogDomainSize(par.level) = par.level + 1
  BY ParamsFacts
<1>2. n \in Nat \ {0}
  <2>1. par.level + 1 \in Nat
    BY DEF LevelParams
  <2> QED
    BY <2>1, PowerOfTwo
<1>3. Dpf!VectorLength(par) = n
  BY <1>1 DEF Dpf!VectorLength, Dpf!GetVectorLength
<1>4. ExpandedBuckets(Dpf!AsQueryParams(par)) = 0 .. n - 1
  BY ParamsFacts DEF ExpandedBuckets, ExpansionSize
<1>5. \A k \in 0 .. n - 1 : BucketAt(par, k) = k
  BY DEF BucketAt, Dpf!AllBucketIDs, Dpf!CalculateBucketID
<1>6. ASSUME NEW key, NEW k \in 0 .. n - 1
      PROVE  Dpf!ExpandDpfKey(par, key)[k] = Dpf!Share(key, par.level, k)
  BY <1>1 DEF Dpf!ExpandDpfKey, Dpf!EvaluateUntil64, Dpf!Indexes
<1> HIDE DEF n
<1> QED
  BY <1>2, <1>3, <1>4, <1>5, <1>6 DEF Expands

\* Rows and columns of a table with m columns.
LEMMA TableIndex ==
  ASSUME NEW c \in Nat, NEW m \in Nat \ {0}
  PROVE  /\ c * m \in Nat
         /\ \A k \in 0 .. (c * m) - 1 : k \div m \in 0 .. c - 1 /\ k % m \in 0 .. m - 1
         /\ \A i \in 0 .. c - 1, j \in 0 .. m - 1 :
              /\ (i * m) + j \in 0 .. (c * m) - 1
              /\ ((i * m) + j) \div m = i /\ ((i * m) + j) % m = j
<1>1. c * m \in Nat
  OBVIOUS
<1>2. ASSUME NEW k \in 0 .. (c * m) - 1
      PROVE  k \div m \in 0 .. c - 1 /\ k % m \in 0 .. m - 1
  <2> DEFINE j == k \div m
             i == k % m
  <2>1. k \in Nat /\ j \in Int /\ i \in 0 .. m - 1 /\ k = m * j + i
    BY <1>1, DivMod
  <2> HIDE DEF i, j
  <2>2. j >= 0
    <3>1. CASE j <= -1
      <4>1. m * j <= -m
        BY <2>1, <3>1
      <4> QED
        BY <2>1, <4>1
    <3> QED
      BY <2>1, <3>1
  <2>3. j < c
    <3>1. CASE j >= c
      <4>1. m * j >= m * c
        BY <2>1, <3>1
      <4>2. PICK u \in Int : u = m * c /\ u = c * m
        OBVIOUS
      <4>3. PICK v \in Int : v = m * j
        BY <2>1
      <4> QED
        BY <2>1, <4>1, <4>2, <4>3
    <3> QED
      BY <2>1, <3>1
  <2>4. j \in 0 .. c - 1 /\ i \in 0 .. m - 1
    BY <2>1, <2>2, <2>3
  <2> QED
    BY <2>4 DEF i, j
<1>3. ASSUME NEW i \in 0 .. c - 1, NEW j \in 0 .. m - 1
      PROVE  /\ (i * m) + j \in 0 .. (c * m) - 1
             /\ ((i * m) + j) \div m = i /\ ((i * m) + j) % m = j
  <2>1. PICK u \in Nat : u = i * m
    OBVIOUS
  <2>2. (i + 1) * m <= c * m
    OBVIOUS
  <2>3. (i + 1) * m = u + m
    BY <2>1
  <2>4. PICK v \in Nat : v = c * m
    OBVIOUS
  <2>5. u + j \in 0 .. v - 1
    BY <2>2, <2>3, <2>4
  <2>6. ((i * m) + j) \div m = i /\ ((i * m) + j) % m = j
    OBVIOUS
  <2> QED
    BY <2>1, <2>4, <2>5, <2>6
<1> QED
  BY <1>1, <1>2, <1>3

\* A deeper level has, for each prefix, the buckets below it.
LEMMA ExpandsBelow ==
  ASSUME NEW par \in LevelParams, CheckExpansionParameters(Dpf!AsQueryParams(par)),
         ~ par.direct, par.previousLevel # -1
  PROVE  Expands(par)
<1> DEFINE ps == par.prefixes
           c == Len(ps)
           d == par.level - par.previousLevel
           size == 2 ^ d
           n == c * size
           bucket(k) == ps[k \div size + 1] * size + (k % size)
<1>1. ps \in Seq(Nat) /\ ps # <<>> /\ par.previousLevel \in 0 .. par.level - 1 /\ par.level \in Nat
  BY ParamsFacts DEF LevelParams
<1>2. d \in Nat /\ Dpf!LogDomainSize(par.level) - Dpf!LogDomainSize(par.previousLevel) = d
  BY <1>1, ParamsFacts
<1>3. size \in Nat \ {0} /\ c \in Nat \ {0} /\ Dpf!SizePerPrefix(par) = size
  BY <1>1, <1>2, PowerOfTwo DEF Dpf!SizePerPrefix
<1>4. Dpf!VectorLength(par) = n
  BY <1>3 DEF Dpf!VectorLength, Dpf!GetVectorLength
<1>5. ExpandedBuckets(Dpf!AsQueryParams(par))
        = {p * size + j : p \in {ps[i] : i \in 1 .. c}, j \in 0 .. size - 1}
  <2> DEFINE q == Dpf!AsQueryParams(par)
  <2>1. /\ ~ q.direct /\ q.previousLevel # -1 /\ q.prefixes = {ps[i] : i \in 1 .. c}
        /\ q.level - q.previousLevel = d
    BY ParamsFacts
  <2> HIDE DEF q, ps, c, d
  <2>2. ExpandedBuckets(q) = {p * 2 ^ d + j : p \in q.prefixes, j \in 0 .. 2 ^ d - 1}
    BY <2>1 DEF ExpandedBuckets, ExpansionSize
  <2> QED
    BY <2>1, <2>2 DEF q
<1>6. Dpf!AllBucketIDs(par)
        = [i \in 1 .. n |-> ps[(i - 1) \div size + 1] * size + ((i - 1) % size)]
  BY <1>3 DEF Dpf!AllBucketIDs, Dpf!CalculateBucketID
<1>7. ASSUME NEW key
      PROVE  Dpf!ExpandDpfKey(par, key)
               = [i \in 0 .. n - 1 |-> Dpf!Share(key, par.level, ps[i \div size + 1] * size + (i % size))]
  BY <1>1, <1>3 DEF Dpf!ExpandDpfKey, Dpf!EvaluateUntil64, Dpf!Indexes
<1>8. /\ n \in Nat
      /\ \A k \in 0 .. n - 1 : k \div size \in 0 .. c - 1 /\ k % size \in 0 .. size - 1
      /\ \A i \in 0 .. c - 1, j \in 0 .. size - 1 :
           /\ (i * size) + j \in 0 .. n - 1
           /\ ((i * size) + j) \div size = i /\ ((i * size) + j) % size = j
  <2> HIDE DEF size, c
  <2> QED
    BY <1>3, TableIndex
<1> HIDE DEF size, c, d
<1>9. n # 0
  BY <1>3
<1> HIDE DEF n
<1>10. ASSUME NEW k \in 0 .. n - 1
       PROVE  BucketAt(par, k) = bucket(k)
  <2> DEFINE ids == Dpf!AllBucketIDs(par)
  <2>1. k + 1 \in 1 .. n /\ (k + 1) - 1 = k
    BY <1>8
  <2>2. ids[k + 1] = bucket(k)
    BY <1>6, <2>1
  <2>3. ids # <<>>
    <3>1. k + 1 \in DOMAIN ids
      BY <1>6, <2>1
    <3>2. DOMAIN <<>> = {}
      OBVIOUS
    <3> HIDE DEF ids
    <3> QED
      BY <3>1, <3>2
  <2> QED
    BY <2>2, <2>3 DEF BucketAt
<1>11. ASSUME NEW k \in 0 .. n - 1
       PROVE  bucket(k) \in ExpandedBuckets(Dpf!AsQueryParams(par))
  <2>1. PICK t \in 0 .. c - 1 : t = k \div size
    BY <1>8
  <2>2. t + 1 \in 1 .. c
    BY <1>3
  <2>3. ps[t + 1] \in {ps[i] : i \in 1 .. c}
    BY <2>2
  <2> QED
    BY <1>5, <1>8, <2>1, <2>3
<1>12. ASSUME NEW b \in ExpandedBuckets(Dpf!AsQueryParams(par))
       PROVE  \E k \in 0 .. n - 1 : BucketAt(par, k) = b
  <2>1. PICK i \in 1 .. c, j \in 0 .. size - 1 : b = ps[i] * size + j
    BY <1>5
  <2>2. i - 1 \in 0 .. c - 1 /\ (i - 1) + 1 = i
    BY <1>3
  <2> DEFINE k == ((i - 1) * size) + j
  <2>3. k \in 0 .. n - 1 /\ k \div size = i - 1 /\ k % size = j
    BY <1>8, <2>2
  <2> HIDE DEF k
  <2>4. bucket(k) = b
    BY <2>1, <2>2, <2>3
  <2> QED
    BY <1>10, <2>3, <2>4
<1>13. ASSUME NEW key, NEW k \in 0 .. n - 1
       PROVE  Dpf!ExpandDpfKey(par, key)[k] = Dpf!Share(key, par.level, bucket(k))
  BY <1>7
<1> HIDE DEF bucket
<1> QED
  BY <1>4, <1>8, <1>10, <1>11, <1>12, <1>13 DEF Expands

\* So every expansion that passes the check is one of its buckets.
LEMMA Expanded ==
  ASSUME NEW par \in LevelParams, CheckExpansionParameters(Dpf!AsQueryParams(par))
  PROVE  Expands(par)
BY ExpandsDirect, ExpandsFirstLevel, ExpandsBelow DEF LevelParams

\* The alignment of the segments of a vector with the buckets of a level.
LEMMA AlignedVector ==
  ASSUME NEW par, Expands(par), NEW segments, Covers(segments, Dpf!VectorLength(par)),
         NEW acc, NEW sum,
         DOMAIN acc = segments,
         \A s \in segments : DOMAIN acc[s] = 0 .. s.length - 1,
         \A s \in segments : \A i \in 0 .. s.length - 1 :
           acc[s][i] = sum[BucketAt(par, i + s.start)]
  PROVE  Dpf!AlignVector(Dpf!AllBucketIDs(par), acc)
           = {<<b, sum[b]>> : b \in ExpandedBuckets(Dpf!AsQueryParams(par))}
<1> DEFINE n == Dpf!VectorLength(par)
           ids == Dpf!AllBucketIDs(par)
           B == ExpandedBuckets(Dpf!AsQueryParams(par))
           id(s, i) == IF ids # <<>> THEN ids[i + s.start + 1] ELSE i + s.start
           Pairs(s) == {<<id(s, i), acc[s][i]>> : i \in DOMAIN acc[s]}
<1>0. Dpf!AlignVector(ids, acc) = UNION {Pairs(s) : s \in DOMAIN acc}
  BY DEF Dpf!AlignVector
<1>1. ASSUME NEW s \in segments, NEW i \in 0 .. s.length - 1
      PROVE  /\ i + s.start \in 0 .. n - 1
             /\ id(s, i) = BucketAt(par, i + s.start)
             /\ <<id(s, i), acc[s][i]>> = <<BucketAt(par, i + s.start), sum[BucketAt(par, i + s.start)]>>
  <2>1. i + s.start \in 0 .. n - 1
    BY DEF Covers
  <2>2. id(s, i) = BucketAt(par, i + s.start)
    BY DEF BucketAt
  <2> QED
    BY <2>1, <2>2
<1>2. ASSUME NEW s \in segments, NEW v \in Pairs(s)
      PROVE  v \in {<<b, sum[b]>> : b \in B}
  <2>1. PICK i \in 0 .. s.length - 1 : v = <<id(s, i), acc[s][i]>>
    OBVIOUS
  <2> DEFINE k == i + s.start
  <2>2. k \in 0 .. n - 1 /\ v = <<BucketAt(par, k), sum[BucketAt(par, k)]>>
    BY <1>1, <2>1
  <2> HIDE DEF k
  <2>3. BucketAt(par, k) \in B
    BY <2>2 DEF Expands
  <2> QED
    BY <2>2, <2>3
<1>3. ASSUME NEW b \in B
      PROVE  \E s \in segments : <<b, sum[b]>> \in Pairs(s)
  <2>1. PICK k \in 0 .. n - 1 : BucketAt(par, k) = b
    BY DEF Expands
  <2>2. PICK s \in segments : \E i \in 0 .. s.length - 1 : k = i + s.start
    BY DEF Covers
  <2>5. PICK i \in 0 .. s.length - 1 : k = i + s.start
    BY <2>2
  <2>3. <<id(s, i), acc[s][i]>> = <<b, sum[b]>>
    BY <1>1, <2>1, <2>5
  <2>4. <<id(s, i), acc[s][i]>> \in Pairs(s)
    OBVIOUS
  <2> QED
    BY <2>3, <2>4
<1> HIDE DEF Pairs, B
<1>4. ASSUME NEW v, v \in UNION {Pairs(s) : s \in segments}
      PROVE  v \in {<<b, sum[b]>> : b \in B}
  BY <1>2, <1>4
<1>5. ASSUME NEW v \in {<<b, sum[b]>> : b \in B}
      PROVE  v \in UNION {Pairs(s) : s \in segments}
  <2>1. PICK b \in B : v = <<b, sum[b]>>
    OBVIOUS
  <2> QED
    BY <1>3, <2>1
<1>6. UNION {Pairs(s) : s \in segments} = {<<b, sum[b]>> : b \in B}
  BY <1>4, <1>5
<1> QED
  BY <1>0, <1>6 DEF B
-----------------------------------------------------------------------------
(* The sums of a one-party job. *)

\* Positions have a last one.
LEMMA LastPosition ==
  ASSUME NEW n \in Nat, NEW S \in SUBSET (1 .. n), S # {}
  PROVE  Seqs!Max(S) \in S
<1> DEFINE T == 1 .. n
           Good == {A \in SUBSET T : A # {} => \E m \in A : \A k \in A : m >= k}
<1>1. IsFiniteSet(T) /\ T \subseteq Nat
  BY FS_Interval
<1>2. {} \in Good
  OBVIOUS
<1> HIDE DEF T
<1>3. ASSUME NEW A \in SUBSET T, NEW x \in T \ A, A \in Good
      PROVE  A \cup {x} \in Good
  <2>1. CASE A = {}
    BY <1>1, <2>1
  <2>2. CASE A # {}
    <3>1. PICK m \in A : \A k \in A : m >= k
      BY <1>3, <2>2
    <3>2. CASE m >= x
      BY <1>1, <3>1, <3>2
    <3>3. CASE ~ m >= x
      <4>1. \A k \in A \cup {x} : x >= k
        BY <1>1, <3>1, <3>3
      <4> QED
        BY <4>1
    <3> QED
      BY <3>2, <3>3
  <2> QED
    BY <2>1, <2>2
<1>4. SUBSET T \subseteq Good
  <2> HIDE DEF Good
  <2> QED
    BY <1>1, <1>2, <1>3, SubsetInduction
<1>5. \E m \in S : \A k \in S : m >= k
  BY <1>4 DEF T
<1> QED
  BY <1>5 DEF Seqs!Max

Contributions == Seq([bucket : Nat, value : Word])

ValuesIn(data) == [i \in DOMAIN data |-> data[i].value]

\* The positions of the contributions, and what is there.
LEMMA ContributionFacts ==
  ASSUME NEW data \in Contributions
  PROVE  /\ DOMAIN data = 1 .. Len(data) /\ Len(data) \in Nat
         /\ \A i \in DOMAIN data : data[i].bucket \in Nat /\ data[i].value \in Word
<1> DEFINE C == [bucket : Nat, value : Word]
<1>1. DOMAIN data = 1 .. Len(data) /\ Len(data) \in Nat
  BY LenProperties DEF Contributions
<1>2. \A i \in 1 .. Len(data) : data[i] \in C
  BY ElementOfSeq DEF Contributions
<1>3. \A c \in C : c.bucket \in Nat /\ c.value \in Word
  OBVIOUS
<1> HIDE DEF C
<1> QED
  BY <1>1, <1>2, <1>3

\* The sums after the contributions at the positions s were added.
SumsWith(acc, data, s) ==
  [b \in DOMAIN acc \cup {data[i].bucket : i \in s} |->
     (OneParty!ValueAt(acc, b) + SumOver({i \in s : data[i].bucket = b}, ValuesIn(data))) % Modulus]

\* One contribution more.
LEMMA OneContribution ==
  ASSUME NEW acc, acc \in [DOMAIN acc -> Word], NEW data \in Contributions,
         NEW s \in SUBSET (DOMAIN data), NEW m \in DOMAIN data, m \notin s
  PROVE  OneParty!Contribution(SumsWith(acc, data, s), data[m]) = SumsWith(acc, data, s \cup {m})
<1> DEFINE v == ValuesIn(data)
           At(t, b) == {i \in t : data[i].bucket = b}
           S(t, b) == SumOver(At(t, b), v)
           D(t) == DOMAIN acc \cup {data[i].bucket : i \in t}
           a(b) == OneParty!ValueAt(acc, b)
           one == [b \in {data[m].bucket} |-> data[m].value]
<1>0. Modulus \in Nat \ {0}
  BY QueryAssumption
<1>1. /\ DOMAIN data = 1 .. Len(data) /\ Len(data) \in Nat
      /\ \A i \in DOMAIN data : data[i].bucket \in Nat /\ data[i].value \in Word
  BY ContributionFacts
<1>2. IsFiniteSet(DOMAIN data) /\ \A i \in DOMAIN data : v[i] \in Int /\ v[i] = data[i].value
  <2>1. PICK n \in Nat : n = Len(data)
    BY <1>1
  <2>2. IsFiniteSet(1 .. n) /\ DOMAIN data = 1 .. n
    BY <1>1, <2>1, FS_Interval
  <2>3. IsFiniteSet(DOMAIN data)
    BY <2>2, Zenon
  <2>4. \A i \in DOMAIN data : v[i] \in Int /\ v[i] = data[i].value
    BY <1>0, <1>1 DEF ValuesIn, Word
  <2> QED
    BY <2>3, <2>4
<1>4. ASSUME NEW b
      PROVE  a(b) \in Int
  <2>1. CASE b \in DOMAIN acc
    <3>1. acc[b] \in Word
      BY <2>1
    <3> QED
      BY <1>0, <2>1, <3>1 DEF OneParty!ValueAt, Word
  <2>2. CASE b \notin DOMAIN acc
    BY <2>2 DEF OneParty!ValueAt
  <2> QED
    BY <2>1, <2>2
<1>5. ASSUME NEW b
      PROVE  S(s \cup {m}, b) = S(s, b) + (IF data[m].bucket = b THEN v[m] ELSE 0)
  <2>1. PICK A \in SUBSET (DOMAIN data) : A = At(s, b)
    OBVIOUS
  <2>2. m \notin A
    BY <2>1
  <2> HIDE DEF v
  <2>3. SumOver(A, v) \in Int /\ SumOver(A \cup {m}, v) = SumOver(A, v) + v[m]
    BY <1>2, <2>2, SumAdd
  <2>4. At(s \cup {m}, b) = IF data[m].bucket = b THEN A \cup {m} ELSE A
    BY <2>1
  <2> HIDE DEF At
  <2> QED
    BY <2>1, <2>3, <2>4
<1>6. SumsWith(acc, data, s) = [b \in D(s) |-> (a(b) + S(s, b)) % Modulus]
  BY DEF SumsWith
<1>7. SumsWith(acc, data, s \cup {m}) = [b \in D(s \cup {m}) |-> (a(b) + S(s \cup {m}, b)) % Modulus]
  BY DEF SumsWith
<1>8. D(s \cup {m}) = D(s) \cup DOMAIN one
  OBVIOUS
<1>9. ASSUME NEW b \in D(s) \cup DOMAIN one
      PROVE  (OneParty!ValueAt(SumsWith(acc, data, s), b) + OneParty!ValueAt(one, b)) % Modulus
               = (a(b) + S(s \cup {m}, b)) % Modulus
  <2> DEFINE y == OneParty!ValueAt(one, b)
  <2>1. y = (IF data[m].bucket = b THEN v[m] ELSE 0) /\ y \in Int
    BY <1>2 DEF OneParty!ValueAt
  <2>2. S(s, b) \in Int
    <3>1. At(s, b) \in SUBSET (DOMAIN data)
      OBVIOUS
    <3> HIDE DEF v
    <3> QED
      BY <1>2, <3>1, SumAdd
  <2>3. OneParty!ValueAt(SumsWith(acc, data, s), b) = (a(b) + S(s, b)) % Modulus
    <3>1. CASE b \in D(s)
      BY <1>6, <3>1 DEF OneParty!ValueAt
    <3>2. CASE b \notin D(s)
      <4>1. At(s, b) = {} /\ b \notin DOMAIN acc
        BY <3>2
      <4>2. S(s, b) = 0 /\ a(b) = 0
        BY <4>1, SumEmpty DEF OneParty!ValueAt
      <4>3. (0 + 0) % Modulus = 0
        BY <1>0
      <4>4. OneParty!ValueAt(SumsWith(acc, data, s), b) = 0
        BY <1>6, <3>2 DEF OneParty!ValueAt
      <4> HIDE DEF S, a
      <4> QED
        BY <4>2, <4>3, <4>4
    <3> QED
      BY <3>1, <3>2
  <2>4. a(b) \in Int
    BY <1>4
  <2>5. S(s \cup {m}, b) = S(s, b) + y
    BY <1>5, <2>1
  <2> HIDE DEF y, S, a
  <2>6. PICK x \in Int : x = a(b) + S(s, b)
    BY <2>2, <2>4
  <2>7. ((x % Modulus) + y) % Modulus = (x + y) % Modulus
    BY <1>0, <2>1, ModAdd
  <2>8. x + y = a(b) + (S(s, b) + y)
    BY <2>1, <2>2, <2>4, <2>6
  <2> QED
    BY <2>3, <2>5, <2>6, <2>7, <2>8 DEF y
<1>10. DOMAIN SumsWith(acc, data, s) = D(s)
  BY <1>6
<1>11. OneParty!Contribution(SumsWith(acc, data, s), data[m])
        = [b \in DOMAIN SumsWith(acc, data, s) \cup DOMAIN one |->
             (OneParty!ValueAt(SumsWith(acc, data, s), b) + OneParty!ValueAt(one, b)) % Modulus]
  BY DEF OneParty!Contribution, OneParty!MergeSums
<1> HIDE DEF S, a, one, D
<1> QED
  BY <1>7, <1>8, <1>9, <1>10, <1>11

\* The contributions of a report are folded one after the other: what comes out
\* is the sums with all of them.
LEMMA OneReport ==
  ASSUME NEW acc, acc \in [DOMAIN acc -> Word], NEW data \in Contributions
  PROVE  Seqs!FoldLeft(OneParty!Contribution, acc, data) = SumsWith(acc, data, DOMAIN data)
<1> DEFINE T == DOMAIN data
           Last(s) == Seqs!Max(s)
           Step(h, s) == IF s = {} THEN acc
                         ELSE OneParty!Contribution(h[s \ {Last(s)}], data[Last(s)])
           g == [s \in SUBSET T |-> SumsWith(acc, data, s)]
<1>0. PICK n \in Nat : n = Len(data) /\ T = 1 .. n
  BY ContributionFacts
<1>f. IsFiniteSet(T)
  <2>1. IsFiniteSet(1 .. n)
    BY FS_Interval
  <2> QED
    BY <1>0, <2>1, Zenon
<1>1. ASSUME NEW s \in SUBSET T, s # {}
      PROVE  Last(s) \in s
  BY <1>0, <1>1, LastPosition
<1>2. SumsWith(acc, data, {}) = acc
  <2> DEFINE V == ValuesIn(data)
             a(b) == OneParty!ValueAt(acc, b)
             none(b) == {i \in {} : data[i].bucket = b}
  <2>1. \A x \in Word : (x + 0) % Modulus = x
    BY WordRemainder
  <2>2. \A b : none(b) = {}
    OBVIOUS
  <2>3. \A b : SumOver(none(b), V) = 0
    BY <2>2, SumEmpty
  <2>4. \A b \in DOMAIN acc : a(b) = acc[b] /\ acc[b] \in Word
    BY DEF OneParty!ValueAt
  <2>5. SumsWith(acc, data, {})
          = [b \in DOMAIN acc \cup {data[i].bucket : i \in {}} |->
               (a(b) + SumOver(none(b), V)) % Modulus]
    BY DEF SumsWith
  <2> HIDE DEF V, a, none
  <2>6. DOMAIN acc \cup {data[i].bucket : i \in {}} = DOMAIN acc
    OBVIOUS
  <2>7. \A b \in DOMAIN acc : (a(b) + SumOver(none(b), V)) % Modulus = acc[b]
    BY <2>1, <2>3, <2>4
  <2>8. SumsWith(acc, data, {}) = [b \in DOMAIN acc |-> acc[b]]
    BY <2>5, <2>6, <2>7
  <2> QED
    BY <2>8
<1>3. g = [s \in SUBSET T |-> Step(g, s)]
  <2>1. ASSUME NEW s \in SUBSET T
        PROVE  SumsWith(acc, data, s) = Step(g, s)
    <3>1. CASE s = {}
      BY <1>2, <3>1
    <3>2. CASE s # {}
      <4>1. PICK m \in s : m = Last(s)
        BY <1>1, <3>2
      <4>2. s \ {m} \in SUBSET T /\ m \in T /\ m \notin s \ {m} /\ (s \ {m}) \cup {m} = s
        BY <4>1
      <4>3. PICK t \in SUBSET T : t = s \ {m}
        BY <4>2
      <4>4. OneParty!Contribution(SumsWith(acc, data, t), data[m]) = SumsWith(acc, data, t \cup {m})
        BY <4>2, <4>3, OneContribution
      <4>5. g[t] = SumsWith(acc, data, t)
        OBVIOUS
      <4> HIDE DEF g
      <4> QED
        BY <3>2, <4>1, <4>2, <4>3, <4>4, <4>5
    <3> QED
      BY <3>1, <3>2
  <2> HIDE DEF Step
  <2> QED
    BY <2>1
<1>4. ASSUME NEW h, h = [s \in SUBSET T |-> Step(h, s)]
      PROVE  h[T] = g[T]
  <2> DEFINE Bad == {s \in SUBSET T : h[s] # g[s]}
  <2>1. SUFFICES ASSUME Bad # {} PROVE FALSE
    OBVIOUS
  <2>2. PICK B \in Bad : \A x \in B : B \ {x} \notin Bad
    <3>1. Bad \in SUBSET (SUBSET T)
      OBVIOUS
    <3> HIDE DEF Bad, T
    <3> QED
      BY <1>f, <2>1, <3>1, SmallestSubset
  <2>3. h[B] = Step(h, B) /\ g[B] = Step(g, B) /\ B \in SUBSET T
    <3>1. B \in SUBSET T
      OBVIOUS
    <3> HIDE DEF Step, g, T
    <3> QED
      BY <1>3, <1>4, <3>1
  <2>4. B # {}
    <3>1. CASE B = {}
      <4>1. Step(h, B) = acc /\ Step(g, B) = acc
        BY <3>1
      <4> HIDE DEF Step, g
      <4> QED
        BY <2>3, <4>1
    <3> QED
      BY <3>1
  <2>5. PICK m \in B : m = Last(B)
    BY <1>1, <2>3, <2>4
  <2>6. h[B \ {m}] = g[B \ {m}]
    BY <2>2, <2>3, <2>5
  <2>7. Step(h, B) = Step(g, B)
    <3> HIDE DEF g
    <3> QED
      BY <2>4, <2>5, <2>6
  <2> HIDE DEF g, Step
  <2> QED
    BY <2>3, <2>7
<1>5. Seqs!FoldLeft(OneParty!Contribution, acc, data)
        = (CHOOSE h : h = [s \in SUBSET T |-> Step(h, s)])[T]
  BY DEF Seqs!FoldLeft, Seqs!MapThenFoldSet
<1> DEFINE Fold == CHOOSE h : h = [s \in SUBSET T |-> Step(h, s)]
<1>6. Fold = [s \in SUBSET T |-> Step(Fold, s)]
  <2> HIDE DEF Step
  <2> QED
    BY <1>3
<1> HIDE DEF Fold
<1>7. Fold[T] = g[T]
  BY <1>4, <1>6
<1> QED
  BY <1>5, <1>7 DEF Fold

\* What a report contributes to a bucket, and the sums of the reports in R at the
\* buckets they met.
Of(r, b) ==
  SumOver({i \in DOMAIN Raw[r].data : Raw[r].data[i].bucket = b}, ValuesIn(Raw[r].data))

OfAll(b) == [r \in Report |-> Of(r, b)]

BucketsOf(r) == {Raw[r].data[i].bucket : i \in DOMAIN Raw[r].data}

OneSums(R) ==
  [b \in UNION {BucketsOf(r) : r \in R} |-> SumOver(R, OfAll(b)) % Modulus]

\* A contribution is an integer, and 0 to a bucket the report does not name.
LEMMA Contributes ==
  ASSUME NEW r \in Report, NEW b
  PROVE  /\ Raw[r].data \in Contributions
         /\ Of(r, b) \in Int /\ OfAll(b)[r] = Of(r, b)
         /\ b \notin BucketsOf(r) => Of(r, b) = 0
<1> DEFINE data == Raw[r].data
           v == ValuesIn(data)
           At == {i \in DOMAIN data : data[i].bucket = b}
<1>1. data \in Contributions
  BY ReportsAssumption DEF Contributions
<1>2. PICK n \in Nat : n = Len(data) /\ DOMAIN data = 1 .. n
  BY <1>1, ContributionFacts
<1>3. IsFiniteSet(DOMAIN data)
  <2>1. IsFiniteSet(1 .. n)
    BY FS_Interval
  <2> QED
    BY <1>2, <2>1, Zenon
<1>4. \A i \in DOMAIN data : v[i] \in Int
  BY <1>1, ContributionFacts, WordRemainder DEF ValuesIn
<1>5. PICK A \in SUBSET (DOMAIN data) : A = At
  OBVIOUS
<1>6. SumOver(At, v) \in Int
  <2> HIDE DEF At, v
  <2> QED
    BY <1>3, <1>4, <1>5, SumAdd
<1>7. ASSUME b \notin BucketsOf(r) PROVE SumOver(At, v) = 0
  <2>1. At = {}
    BY <1>7 DEF BucketsOf
  <2> HIDE DEF At, v
  <2> QED
    BY <2>1, SumEmpty
<1> QED
  BY <1>1, <1>6, <1>7 DEF Of, OfAll

\* Also at a bucket that no report met, the sum is the word of the contributions.
LEMMA OneSumsValue ==
  ASSUME NEW R \in SUBSET Report, NEW b
  PROVE  /\ OneParty!ValueAt(OneSums(R), b) = SumOver(R, OfAll(b)) % Modulus
         /\ SumOver(R, OfAll(b)) \in Int
         /\ OneSums(R) \in [DOMAIN OneSums(R) -> Word]
<1> DEFINE D == UNION {BucketsOf(r) : r \in R}
<1>0. IsFiniteSet(Report) /\ IsFiniteSet(R)
  BY ReportsAssumption, FS_Subset
<1>1. ASSUME NEW c PROVE SumOver(R, OfAll(c)) \in Int
  <2>1. \A r \in Report : OfAll(c)[r] \in Int
    BY Contributes
  <2> QED
    BY <1>0, <2>1, SumAdd
<1>2. OneSums(R) = [c \in D |-> SumOver(R, OfAll(c)) % Modulus]
  BY DEF OneSums
<1>3. \A c : SumOver(R, OfAll(c)) % Modulus \in Word
  BY <1>1, DivMod, WordRemainder DEF Word
<1>4. CASE b \in D
  <2> HIDE DEF D
  <2>1. OneParty!ValueAt(OneSums(R), b) = SumOver(R, OfAll(b)) % Modulus
    BY <1>2, <1>4 DEF OneParty!ValueAt
  <2> QED
    BY <1>1, <1>2, <1>3, <2>1
<1>5. CASE b \notin D
  <2>1. \A r \in R : OfAll(b)[r] = 0
    <3> SUFFICES ASSUME NEW r \in R PROVE OfAll(b)[r] = 0
      OBVIOUS
    <3>1. r \in Report /\ b \notin BucketsOf(r)
      BY <1>5
    <3> QED
      BY <3>1, Contributes
  <2>2. SumOver(R, OfAll(b)) = 0
    BY <1>0, <2>1, SumZero
  <2>3. 0 % Modulus = 0
    BY WordRemainder DEF Word
  <2> HIDE DEF D
  <2>4. OneParty!ValueAt(OneSums(R), b) = 0
    BY <1>2, <1>5 DEF OneParty!ValueAt
  <2> QED
    BY <1>1, <1>2, <1>3, <2>2, <2>3, <2>4
<1> QED
  BY <1>4, <1>5

\* The laws of the sums of a one-party job, as those of vectors.
LEMMA OnePartyLaws ==
  /\ OneSums({}) = OneParty!EmptySums
  /\ \A A \in SUBSET Report : \A r \in Report \ A :
       Seqs!FoldLeft(OneParty!Contribution, OneSums(A), Raw[r].data) = OneSums(A \cup {r})
  /\ \A A, B \in SUBSET Report : A \cap B = {} =>
       OneParty!MergeSums(OneSums(A), OneSums(B)) = OneSums(A \cup B)
<1> DEFINE D(R) == UNION {BucketsOf(r) : r \in R}
           S(R, b) == SumOver(R, OfAll(b))
           W(R, b) == S(R, b) % Modulus
<1>0. IsFiniteSet(Report) /\ Modulus \in Nat \ {0}
  BY ReportsAssumption, WordRemainder
<1>1. ASSUME NEW R
      PROVE  OneSums(R) = [b \in D(R) |-> W(R, b)] /\ DOMAIN OneSums(R) = D(R)
  BY DEF OneSums
<1>2. ASSUME NEW R \in SUBSET Report, NEW b
      PROVE  OneParty!ValueAt(OneSums(R), b) = W(R, b) /\ S(R, b) \in Int
  BY OneSumsValue
<1>3. ASSUME NEW b
      PROVE  /\ \A A \in SUBSET Report : \A r \in Report \ A :
                  (W(A, b) + Of(r, b)) % Modulus = W(A \cup {r}, b)
             /\ \A A, B \in SUBSET Report : A \cap B = {} =>
                  (W(A, b) + W(B, b)) % Modulus = W(A \cup B, b)
  <2> DEFINE f == OfAll(b)
  <2>1. \A r \in Report : f[r] \in Int /\ f[r] = Of(r, b)
    BY Contributes
  <2> HIDE DEF f
  <2>2. /\ \A A \in SUBSET Report : \A r \in Report \ A :
              ((SumOver(A, f) % Modulus) + f[r]) % Modulus = SumOver(A \cup {r}, f) % Modulus
        /\ \A A, B \in SUBSET Report : A \cap B = {} =>
              ((SumOver(A, f) % Modulus) + (SumOver(B, f) % Modulus)) % Modulus
                = SumOver(A \cup B, f) % Modulus
    BY <1>0, <2>1, WordSums
  <2> QED
    BY <2>1, <2>2 DEF f
<1>4. OneSums({}) = OneParty!EmptySums
  BY <1>1 DEF OneParty!EmptySums
<1>5. ASSUME NEW A \in SUBSET Report, NEW r \in Report \ A
      PROVE  Seqs!FoldLeft(OneParty!Contribution, OneSums(A), Raw[r].data) = OneSums(A \cup {r})
  <2> DEFINE data == Raw[r].data
             acc == OneSums(A)
  <2>1. data \in Contributions
    BY Contributes
  <2>2. acc \in [DOMAIN acc -> Word]
    BY OneSumsValue
  <2>3. Seqs!FoldLeft(OneParty!Contribution, acc, data) = SumsWith(acc, data, DOMAIN data)
    <3> HIDE DEF acc, data
    <3> QED
      BY <2>1, <2>2, OneReport
  <2>4. SumsWith(acc, data, DOMAIN data)
          = [b \in DOMAIN acc \cup BucketsOf(r) |->
               (OneParty!ValueAt(acc, b) + Of(r, b)) % Modulus]
    BY DEF SumsWith, BucketsOf, Of
  <2>5. DOMAIN acc \cup BucketsOf(r) = D(A \cup {r})
    <3>1. D(A) \cup BucketsOf(r) = D(A \cup {r})
      OBVIOUS
    <3> QED
      BY <1>1, <3>1
  <2>6. \A b : (OneParty!ValueAt(acc, b) + Of(r, b)) % Modulus = W(A \cup {r}, b)
    BY <1>2, <1>3
  <2>7. OneSums(A \cup {r}) = [b \in D(A \cup {r}) |-> W(A \cup {r}, b)]
    BY <1>1
  <2> HIDE DEF acc, W, D
  <2>8. SumsWith(acc, data, DOMAIN data) = OneSums(A \cup {r})
    BY <2>4, <2>5, <2>6, <2>7
  <2> QED
    BY <2>3, <2>8 DEF acc
<1>6. ASSUME NEW A \in SUBSET Report, NEW B \in SUBSET Report, A \cap B = {}
      PROVE  OneParty!MergeSums(OneSums(A), OneSums(B)) = OneSums(A \cup B)
  <2>1. OneParty!MergeSums(OneSums(A), OneSums(B))
          = [b \in DOMAIN OneSums(A) \cup DOMAIN OneSums(B) |->
               (OneParty!ValueAt(OneSums(A), b) + OneParty!ValueAt(OneSums(B), b)) % Modulus]
    BY DEF OneParty!MergeSums
  <2>2. DOMAIN OneSums(A) \cup DOMAIN OneSums(B) = D(A \cup B)
    <3>1. D(A) \cup D(B) = D(A \cup B)
      OBVIOUS
    <3> QED
      BY <1>1, <3>1
  <2>3. \A b : (OneParty!ValueAt(OneSums(A), b) + OneParty!ValueAt(OneSums(B), b)) % Modulus
                 = W(A \cup B, b)
    BY <1>2, <1>3, <1>6
  <2>4. OneSums(A \cup B) = [b \in D(A \cup B) |-> W(A \cup B, b)]
    BY <1>1
  <2> HIDE DEF W, D
  <2> QED
    BY <2>1, <2>2, <2>3, <2>4
<1> QED
  BY <1>4, <1>5, <1>6
-----------------------------------------------------------------------------
(* A file with one line for each bucket of a histogram. *)
Graph(f) == {<<b, f[b]>> : b \in DOMAIN f}

\* What is read back from such a file.
LEMMA ReadGraph ==
  ASSUME NEW f, f = [b \in DOMAIN f |-> f[b]]
  PROVE  /\ Dpf!ReadHistogram(Graph(f)) = f /\ OneParty!ReadHistogram(Graph(f)) = f
         /\ Reach!ReadLines(Graph(f)) = f
<1> DEFINE B == DOMAIN f
           lines == Graph(f)
<1>0. ASSUME NEW b \in B
      PROVE  \E line \in lines : line[1] = b /\ line = <<b, f[b]>>
  <2>1. PICK line : line = <<b, f[b]>>
    OBVIOUS
  <2>2. line[1] = b
    BY <2>1
  <2> QED
    BY <2>1, <2>2 DEF Graph
<1>a. ASSUME NEW line \in lines
      PROVE  line[1] \in B
  BY DEF Graph
<1>1. {line[1] : line \in lines} = B
  <2>1. \A b \in {line[1] : line \in lines} : b \in B
    BY <1>a
  <2>2. \A b \in B : b \in {line[1] : line \in lines}
    BY <1>0
  <2> QED
    BY <2>1, <2>2
<1>2. ASSUME NEW b \in B
      PROVE  (CHOOSE line \in lines : line[1] = b)[2] = f[b]
  <2> DEFINE x == CHOOSE line \in lines : line[1] = b
  <2>1. x \in lines /\ x[1] = b
    BY <1>0
  <2> HIDE DEF x
  <2>2. PICK c \in B : x = <<c, f[c]>>
    BY <2>1 DEF Graph
  <2>3. x[2] = f[b]
    BY <2>1, <2>2
  <2> QED
    BY <2>3 DEF x
<1>3. /\ Dpf!ReadHistogram(lines) = [b \in B |-> f[b]] /\ OneParty!ReadHistogram(lines) = [b \in B |-> f[b]]
      /\ Reach!ReadLines(lines) = [b \in B |-> f[b]]
  <2>1. /\ Dpf!ReadHistogram(lines) = Reach!ReadLines(lines)
        /\ OneParty!ReadHistogram(lines) = Reach!ReadLines(lines)
    BY DEF Dpf!ReadHistogram, OneParty!ReadHistogram, Reach!ReadLines
  <2> HIDE DEF lines, B
  <2>2. Reach!ReadLines(lines) = [b \in B |-> f[b]]
    BY <1>1, <1>2 DEF Reach!ReadLines
  <2> QED
    BY <2>1, <2>2
<1> QED
  BY <1>3

-----------------------------------------------------------------------------
(* The sums of tuples of a reach job. *)

TupleTerms(p, x, k) == [r \in Report |-> p[r][k][x]]

\* The sums, as words, of each field of the reports in R at index k.
TupleSum(p, R, k) == [x \in Reach!Fields |-> SumOver(R, TupleTerms(p, x, k)) % Modulus]

TupleSums(segments, p, R) ==
  [s \in segments |-> [i \in 0 .. s.length - 1 |-> TupleSum(p, R, i + s.start)]]

\* The laws of vectors of tuples, as those of vectors of words.
LEMMA TupleLaws ==
  ASSUME IsFiniteSet(Report), NEW segments, NEW n, Covers(segments, n), NEW p,
         \A r \in Report, k \in 0 .. n - 1 : \A x \in Reach!Fields : p[r][k][x] \in Int
  PROVE  /\ TupleSums(segments, p, {}) = Reach!CreateAccumulator(segments)
         /\ \A A \in SUBSET Report : \A r \in Report \ A :
              Reach!AddInput(TupleSums(segments, p, A), p[r]) = TupleSums(segments, p, A \cup {r})
         /\ \A A, B \in SUBSET Report : A \cap B = {} =>
              Reach!MergeAccumulators(TupleSums(segments, p, A), TupleSums(segments, p, B))
                = TupleSums(segments, p, A \cup B)
<1> DEFINE Sum(R, k) == TupleSum(p, R, k)
<1>1. Modulus \in Nat \ {0}
  BY QueryAssumption
<1>2. ASSUME NEW k \in 0 .. n - 1
      PROVE  /\ Sum({}, k) = Reach!ZeroTuple
             /\ \A A \in SUBSET Report : \A r \in Report \ A :
                  Reach!AddTuple(Sum(A, k), p[r][k]) = Sum(A \cup {r}, k)
             /\ \A A, B \in SUBSET Report : A \cap B = {} =>
                  Reach!AddTuple(Sum(A, k), Sum(B, k)) = Sum(A \cup B, k)
  <2>1. ASSUME NEW x \in Reach!Fields
        PROVE  /\ SumOver({}, TupleTerms(p, x, k)) % Modulus = 0
               /\ \A A \in SUBSET Report : \A r \in Report \ A :
                     ((SumOver(A, TupleTerms(p, x, k)) % Modulus) + p[r][k][x]) % Modulus
                       = SumOver(A \cup {r}, TupleTerms(p, x, k)) % Modulus
               /\ \A A, B \in SUBSET Report : A \cap B = {} =>
                     ((SumOver(A, TupleTerms(p, x, k)) % Modulus)
                        + (SumOver(B, TupleTerms(p, x, k)) % Modulus)) % Modulus
                       = SumOver(A \cup B, TupleTerms(p, x, k)) % Modulus
    <3> DEFINE f == TupleTerms(p, x, k)
    <3>1. \A r \in Report : f[r] = p[r][k][x] /\ f[r] \in Int
      BY DEF TupleTerms
    <3> HIDE DEF f
    <3>2. /\ SumOver({}, f) % Modulus = 0
          /\ \A A \in SUBSET Report : \A r \in Report \ A :
                ((SumOver(A, f) % Modulus) + f[r]) % Modulus = SumOver(A \cup {r}, f) % Modulus
          /\ \A A, B \in SUBSET Report : A \cap B = {} =>
                ((SumOver(A, f) % Modulus) + (SumOver(B, f) % Modulus)) % Modulus
                  = SumOver(A \cup B, f) % Modulus
      BY <1>1, <3>1, WordSums
    <3> QED
      BY <3>1, <3>2 DEF f
  <2>2. \A R : Sum(R, k) = [x \in Reach!Fields |-> SumOver(R, TupleTerms(p, x, k)) % Modulus]
    BY DEF TupleSum
  <2>3. \A R : \A x \in Reach!Fields : Sum(R, k)[x] = SumOver(R, TupleTerms(p, x, k)) % Modulus
    BY DEF TupleSum
  <2> HIDE DEF Sum
  <2>4. Sum({}, k) = Reach!ZeroTuple
    BY <2>1, <2>2 DEF Reach!ZeroTuple
  <2>5. ASSUME NEW A \in SUBSET Report, NEW r \in Report \ A
        PROVE  Reach!AddTuple(Sum(A, k), p[r][k]) = Sum(A \cup {r}, k)
    <3>1. \A x \in Reach!Fields :
            (Sum(A, k)[x] + p[r][k][x]) % Modulus = SumOver(A \cup {r}, TupleTerms(p, x, k)) % Modulus
      BY <2>1, <2>3
    <3> QED
      BY <2>2, <3>1 DEF Reach!AddTuple
  <2>6. ASSUME NEW A \in SUBSET Report, NEW B \in SUBSET Report, A \cap B = {}
        PROVE  Reach!AddTuple(Sum(A, k), Sum(B, k)) = Sum(A \cup B, k)
    <3>1. \A x \in Reach!Fields :
            (Sum(A, k)[x] + Sum(B, k)[x]) % Modulus = SumOver(A \cup B, TupleTerms(p, x, k)) % Modulus
      BY <2>1, <2>3, <2>6
    <3> QED
      BY <2>2, <3>1 DEF Reach!AddTuple
  <2> QED
    BY <2>4, <2>5, <2>6
<1>3. \A s \in segments : \A i \in 0 .. s.length - 1 : i + s.start \in 0 .. n - 1
  BY DEF Covers
<1>4. \A R : TupleSums(segments, p, R)
               = [s \in segments |-> [i \in 0 .. s.length - 1 |-> Sum(R, i + s.start)]]
  BY DEF TupleSums
<1>8. ASSUME NEW R, NEW s \in segments, NEW i \in 0 .. s.length - 1
      PROVE  TupleSums(segments, p, R)[s][i] = Sum(R, i + s.start)
  BY DEF TupleSums
<1> HIDE DEF Sum
<1>5. TupleSums(segments, p, {}) = Reach!CreateAccumulator(segments)
  BY <1>2, <1>3, <1>4 DEF Reach!CreateAccumulator, Reach!Indexes
<1>6. ASSUME NEW A \in SUBSET Report, NEW r \in Report \ A
      PROVE  Reach!AddInput(TupleSums(segments, p, A), p[r]) = TupleSums(segments, p, A \cup {r})
  <2>1. \A s \in segments : \A i \in 0 .. s.length - 1 :
          Reach!AddTuple(Sum(A, i + s.start), p[r][i + s.start]) = Sum(A \cup {r}, i + s.start)
    BY <1>2, <1>3
  <2> DEFINE V == TupleSums(segments, p, A)
  <2>2. DOMAIN V = segments /\ \A s \in segments : DOMAIN V[s] = 0 .. s.length - 1
    BY <1>4
  <2>3. \A s \in segments : \A i \in 0 .. s.length - 1 : V[s][i] = Sum(A, i + s.start)
    BY <1>8
  <2> HIDE DEF V
  <2>4. Reach!AddInput(V, p[r])
          = [s \in DOMAIN V |-> [i \in DOMAIN V[s] |-> Reach!AddTuple(V[s][i], p[r][i + s.start])]]
    BY DEF Reach!AddInput
  <2>5. \A s \in segments :
          [i \in DOMAIN V[s] |-> Reach!AddTuple(V[s][i], p[r][i + s.start])]
            = [i \in 0 .. s.length - 1 |-> Sum(A \cup {r}, i + s.start)]
    BY <2>1, <2>2, <2>3
  <2>6. TupleSums(segments, p, A \cup {r})
          = [s \in segments |-> [i \in 0 .. s.length - 1 |-> Sum(A \cup {r}, i + s.start)]]
    BY <1>4
  <2>7. Reach!AddInput(V, p[r]) = TupleSums(segments, p, A \cup {r})
    BY <2>2, <2>4, <2>5, <2>6
  <2> QED
    BY <2>7 DEF V
<1>7. ASSUME NEW A \in SUBSET Report, NEW B \in SUBSET Report, A \cap B = {}
      PROVE  Reach!MergeAccumulators(TupleSums(segments, p, A), TupleSums(segments, p, B))
               = TupleSums(segments, p, A \cup B)
  <2>1. \A s \in segments : \A i \in 0 .. s.length - 1 :
          Reach!AddTuple(Sum(A, i + s.start), Sum(B, i + s.start)) = Sum(A \cup B, i + s.start)
    BY <1>2, <1>3, <1>7
  <2> DEFINE V == TupleSums(segments, p, A)
             W == TupleSums(segments, p, B)
  <2>2. /\ DOMAIN V = segments /\ \A s \in segments : DOMAIN V[s] = 0 .. s.length - 1
    BY <1>4
  <2>3. \A s \in segments : \A i \in 0 .. s.length - 1 :
          V[s][i] = Sum(A, i + s.start) /\ W[s][i] = Sum(B, i + s.start)
    BY <1>8
  <2> HIDE DEF V, W
  <2>4. Reach!MergeAccumulators(V, W)
          = [s \in DOMAIN V |-> [i \in DOMAIN V[s] |-> Reach!AddTuple(V[s][i], W[s][i])]]
    BY DEF Reach!MergeAccumulators
  <2>5. \A s \in segments :
          [i \in DOMAIN V[s] |-> Reach!AddTuple(V[s][i], W[s][i])]
            = [i \in 0 .. s.length - 1 |-> Sum(A \cup B, i + s.start)]
    BY <2>1, <2>2, <2>3
  <2>6. TupleSums(segments, p, A \cup B)
          = [s \in segments |-> [i \in 0 .. s.length - 1 |-> Sum(A \cup B, i + s.start)]]
    BY <1>4
  <2>7. Reach!MergeAccumulators(V, W) = TupleSums(segments, p, A \cup B)
    BY <2>2, <2>4, <2>5, <2>6
  <2> QED
    BY <2>7 DEF V, W
<1> QED
  BY <1>5, <1>6, <1>7

\* The bits of a bucket that a reach query evaluates.
ReachBits(params) == IF params.useHierarchy THEN params.evalBits ELSE KeyBitSize

ReachFlags == [useHierarchy : BOOLEAN, fullHierarchy : BOOLEAN, prefixBits : Nat, evalBits : Nat]

\* If the flags fit the levels of the keys, the evaluation ends where they say.
LEMMA ReachSizes ==
  ASSUME NEW params \in ReachFlags, params.useHierarchy, Reach!ExpandOK(params)
  PROVE  LET sizes == Reach!GetTupleDPFParameters(params)
             levels == Reach!GetHierarchyLevels(params)
         IN  /\ params.evalBits \in 1 .. KeyBitSize /\ params.prefixBits \in 0 .. params.evalBits - 1
             /\ sizes[levels.eval + 1] = params.evalBits
             /\ levels.prefix < 0 => params.prefixBits = 0
             /\ levels.prefix >= 0 => sizes[levels.prefix + 1] = params.prefixBits
             /\ levels.prefix \in Int
<1> DEFINE sizes == Reach!GetTupleDPFParameters(params)
           levels == Reach!GetHierarchyLevels(params)
<1>0. KeyBitSize \in Nat \ {0} /\ params.prefixBits \in Nat /\ params.evalBits \in Nat
  BY QueryAssumption DEF ReachFlags
<1>1. sizes # <<>> /\ levels.prefix < levels.eval /\ levels.eval < Len(sizes)
  BY DEF Reach!ExpandOK
<1>2. CASE params.fullHierarchy
  <2>1. sizes = [i \in 1 .. KeyBitSize |-> i]
    BY <1>2 DEF Reach!GetTupleDPFParameters
  <2>2. levels.prefix = params.prefixBits - 1 /\ levels.eval = params.evalBits - 1
    BY <1>2 DEF Reach!GetHierarchyLevels
  <2> HIDE DEF sizes, levels
  <2>3. Len(sizes) = KeyBitSize
    BY <1>0, <2>1
  <2>4. params.evalBits \in 1 .. KeyBitSize /\ params.prefixBits \in 0 .. params.evalBits - 1
    BY <1>0, <1>1, <2>2, <2>3
  <2>5. levels.eval + 1 = params.evalBits /\ levels.prefix + 1 = params.prefixBits
    BY <1>0, <2>2
  <2>6. levels.prefix >= 0 => params.prefixBits \in 1 .. KeyBitSize
    BY <1>0, <2>2, <2>4
  <2> QED
    BY <1>0, <2>1, <2>2, <2>4, <2>5, <2>6 DEF sizes, levels
<1>3. CASE ~ params.fullHierarchy
  <2>1. /\ params.evalBits \in 1 .. KeyBitSize /\ params.prefixBits \in 0 .. params.evalBits - 1
        /\ sizes = (IF params.prefixBits > 0 THEN <<params.prefixBits>> ELSE <<>>)
                     \o <<params.evalBits>>
                     \o (IF params.evalBits < KeyBitSize THEN <<KeyBitSize>> ELSE <<>>)
    BY <1>0, <1>1, <1>3 DEF Reach!GetTupleDPFParameters
  <2>2. levels = IF params.prefixBits > 0 THEN [prefix |-> 0, eval |-> 1]
                                          ELSE [prefix |-> -1, eval |-> 0]
    BY <1>3 DEF Reach!GetHierarchyLevels
  <2> HIDE DEF sizes, levels
  <2>3. CASE params.prefixBits > 0
    <3>1. sizes[1] = params.prefixBits /\ sizes[2] = params.evalBits
      BY <1>0, <2>1, <2>3
    <3> QED
      BY <2>1, <2>2, <2>3, <3>1 DEF sizes, levels
  <2>4. CASE ~ (params.prefixBits > 0)
    <3>1. sizes[1] = params.evalBits
      BY <1>0, <2>1, <2>4
    <3> QED
      BY <1>0, <2>1, <2>2, <2>4, <3>1 DEF sizes, levels
  <2> QED
    BY <2>3, <2>4
<1> QED
  BY <1>2, <1>3

\* What is expanded is the shares of each prefix of so many bits, as long as the vector.
LEMMA ReachExpands ==
  ASSUME NEW params \in ReachFlags, Reach!ExpandOK(params)
  PROVE  /\ Reach!VectorLength(params) \in Nat
         /\ Reach!SuffixBitSize(params) \in Nat
         /\ Reach!SuffixBitSize(params) = KeyBitSize - ReachBits(params)
         /\ \A key : \A k \in 0 .. Reach!VectorLength(params) - 1 :
              Reach!ExpandDpfKey(params, key)[k] = Reach!Share(key, ReachBits(params), k)
<1>0. KeyBitSize \in Nat \ {0}
  BY QueryAssumption
<1>1. CASE params.useHierarchy
  <2> DEFINE sizes == Reach!GetTupleDPFParameters(params)
             levels == Reach!GetHierarchyLevels(params)
             bits == params.evalBits - params.prefixBits
             prefixBits == IF levels.prefix < 0 THEN 0 ELSE sizes[levels.prefix + 1]
  <2>1. /\ params.evalBits \in 1 .. KeyBitSize /\ params.prefixBits \in 0 .. params.evalBits - 1
        /\ sizes[levels.eval + 1] = params.evalBits
        /\ levels.prefix < 0 => params.prefixBits = 0
        /\ levels.prefix >= 0 => sizes[levels.prefix + 1] = params.prefixBits
        /\ levels.prefix \in Int
    BY <1>1, ReachSizes
  <2>2. Reach!VectorLength(params) = 2 ^ bits /\ bits \in Nat
    BY <1>1, <2>1 DEF Reach!VectorLength
  <2>3. prefixBits = params.prefixBits
    <3> HIDE DEF sizes, levels
    <3> QED
      BY <2>1
  <2>4. \A key : Reach!ExpandDpfKey(params, key)
                   = [i \in 0 .. 2 ^ (params.evalBits - prefixBits) - 1 |->
                        Reach!Share(key, params.evalBits, i)]
    <3>1. \A key : Reach!ExpandDpfKey(params, key)
                     = [i \in 0 .. 2 ^ (sizes[levels.eval + 1] - prefixBits) - 1 |->
                          Reach!Share(key, sizes[levels.eval + 1], i)]
      BY <1>1 DEF Reach!ExpandDpfKey, Reach!Indexes
    <3> HIDE DEF sizes, levels, prefixBits
    <3> QED
      BY <2>1, <3>1
  <2> HIDE DEF sizes, levels, prefixBits
  <2>5. 2 ^ bits \in Nat \ {0}
    BY <2>2, PowerOfTwo
  <2>6. Reach!SuffixBitSize(params) = KeyBitSize - params.evalBits
    BY <1>1 DEF Reach!SuffixBitSize
  <2> QED
    BY <1>0, <1>1, <2>1, <2>2, <2>3, <2>4, <2>5, <2>6 DEF ReachBits
<1>2. CASE ~ params.useHierarchy
  <2>1. Reach!VectorLength(params) = 2 ^ KeyBitSize /\ Reach!SuffixBitSize(params) = 0
    BY <1>0, <1>2 DEF Reach!VectorLength, Reach!SuffixBitSize
  <2>2. 2 ^ KeyBitSize \in Nat \ {0}
    BY <1>0, PowerOfTwo
  <2>3. \A key : Reach!ExpandDpfKey(params, key)
                   = [i \in 0 .. 2 ^ KeyBitSize - 1 |-> Reach!Share(key, KeyBitSize, i)]
    BY <1>2 DEF Reach!ExpandDpfKey, Reach!Indexes
  <2> QED
    BY <1>0, <1>2, <2>1, <2>2, <2>3 DEF ReachBits
<1> QED
  BY <1>1, <1>2

ReachSegments(q) == Reach!Segments(Reach!VectorLength(q.reach), q.combine)
ReachVector(q, h) == [r \in Report |-> Reach!ExpandDpfKey(q.reach, ReachKey(h, r))]

\* What a report contributes to a field at an index.
BucketSize(q) == 2 ^ Reach!SuffixBitSize(q.reach)

TupleValue(q, r, x, k) ==
  IF Raw[r].bucket \div BucketSize(q) = k THEN Reach!ReachReportToTuple(Raw[r])[x] ELSE 0

\* The fields of a report are numbers.
LEMMA TupleNumbers ==
  ASSUME NEW r \in Report, NEW x \in Reach!Fields
  PROVE  Reach!ReachReportToTuple(Raw[r])[x] \in Int
<1> DEFINE raw == Raw[r]
<1>1. raw.r \in Int /\ raw.q \in Int /\ raw.person \in Int /\ Modulus \in Nat \ {0}
  BY ReportsAssumption, WordRemainder
<1> HIDE DEF raw
<1>2. PICK a \in Int : a = raw.r * raw.person
  BY <1>1
<1>3. PICK b \in Int : b = raw.q * raw.person
  BY <1>1
<1>4. a % Modulus \in Int /\ b % Modulus \in Int
  BY <1>1, DivMod
<1>5. Reach!ReachReportToTuple(raw)
        = [C |-> 1, Rf |-> a % Modulus, R |-> raw.r, Qf |-> b % Modulus, Q |-> raw.q]
  BY <1>2, <1>3 DEF Reach!ReachReportToTuple
<1>6. x \in {"C", "Rf", "R", "Qf", "Q"}
  BY DEF Reach!Fields
<1>7. Reach!ReachReportToTuple(raw)[x] \in Int
  BY <1>1, <1>4, <1>5, <1>6
<1> QED
  BY <1>7 DEF raw

\* What each report has at each index: a share of what it contributes there.
LEMMA ReachVectorFacts ==
  ASSUME NEW q \in Queries, NEW h \in Helper, Reach!ExpandOK(q.reach),
         NEW r \in Report, NEW k \in 0 .. Reach!VectorLength(q.reach) - 1, NEW x \in Reach!Fields
  PROVE  /\ ReachVector(q, h)[r][k][x] \in Int
         /\ ReachVector(q, h)[r][k][x]
              = IF h = 1 THEN ReachMask(r, x, k)
                ELSE (TupleValue(q, r, x, k) - ReachMask(r, x, k)) % Modulus
         /\ TupleValue(q, r, x, k) \in Int /\ ReachMask(r, x, k) \in Int
<1> DEFINE key == ReachKey(h, r)
           bits == ReachBits(q.reach)
           mask == ReachMask(r, x, k)
           value == TupleValue(q, r, x, k)
<1>1. q.reach \in ReachFlags
  BY QueriesAssumption DEF ReachFlags
<1>2. /\ Reach!ExpandDpfKey(q.reach, key)[k] = Reach!Share(key, bits, k)
      /\ BucketSize(q) = 2 ^ (KeyBitSize - bits)
  BY <1>1, ReachExpands DEF BucketSize
<1>3. key.helper = h /\ key.seed = r /\ key.alpha = Raw[r].bucket
      /\ key.beta = Reach!ReachReportToTuple(Raw[r])
  BY DEF ReachKey, Reach!GenerateReachTupleKeys, Reach!Helpers, Helper
<1>4. mask \in Int
  BY ReachMaskAssumption, WordRemainder
<1>5. value \in Int
  BY TupleNumbers DEF TupleValue
<1>6. Reach!Share(key, bits, k)[x] = IF h = 1 THEN mask ELSE (value - mask) % Modulus
  <2> HIDE DEF key, bits
  <2> QED
    BY <1>2, <1>3 DEF Reach!Share, TupleValue
<1>7. ReachVector(q, h)[r][k][x] = Reach!Share(key, bits, k)[x]
  BY <1>2 DEF ReachVector
<1> HIDE DEF value, mask
<1>8. (value - mask) % Modulus \in Int
  BY <1>4, <1>5, DivMod, WordRemainder
<1> QED
  BY <1>4, <1>5, <1>6, <1>7, <1>8 DEF value, mask

\* The combine of a reach job, as those of the other two.
ReachLawsHold(q, h, segments) ==
  /\ TupleSums(segments, ReachVector(q, h), {}) = Reach!CreateAccumulator(segments)
  /\ \A A \in SUBSET Report : \A r \in Report \ A :
       Reach!AddInput(TupleSums(segments, ReachVector(q, h), A),
                      Reach!ExpandDpfKey(q.reach, ReachKey(h, r)))
         = TupleSums(segments, ReachVector(q, h), A \cup {r})
  /\ \A A, B \in SUBSET Report : A \cap B = {} =>
       Reach!MergeAccumulators(TupleSums(segments, ReachVector(q, h), A),
                               TupleSums(segments, ReachVector(q, h), B))
         = TupleSums(segments, ReachVector(q, h), A \cup B)

\* It holds for every cut of the vector into segments.
LEMMA ReachLaws ==
  ASSUME NEW q \in Queries, NEW h \in Helper, Reach!ExpandOK(q.reach), NEW segments,
         Covers(segments, Reach!VectorLength(q.reach))
  PROVE  ReachLawsHold(q, h, segments)
<1> DEFINE n == Reach!VectorLength(q.reach)
           p == ReachVector(q, h)
<1>1. \A r \in Report, k \in 0 .. n - 1 : \A x \in Reach!Fields : p[r][k][x] \in Int
  BY ReachVectorFacts
<1>2. \A r \in Report : p[r] = Reach!ExpandDpfKey(q.reach, ReachKey(h, r))
  BY DEF ReachVector
<1>3. IsFiniteSet(Report)
  BY ReportsAssumption
<1> HIDE DEF n, p
<1>4. /\ TupleSums(segments, p, {}) = Reach!CreateAccumulator(segments)
      /\ \A A \in SUBSET Report : \A r \in Report \ A :
           Reach!AddInput(TupleSums(segments, p, A), p[r]) = TupleSums(segments, p, A \cup {r})
      /\ \A A, B \in SUBSET Report : A \cap B = {} =>
           Reach!MergeAccumulators(TupleSums(segments, p, A), TupleSums(segments, p, B))
             = TupleSums(segments, p, A \cup B)
  <2>1. Covers(segments, n)
    BY DEF n
  <2> QED
    BY <1>1, <1>3, <2>1, TupleLaws
<1> QED
  BY <1>2, <1>4 DEF p, ReachLawsHold

\* The segments of a reach job cover its vector, and so does one segment.
LEMMA ReachCovers ==
  ASSUME NEW q \in Queries, Reach!ExpandOK(q.reach)
  PROVE  /\ Covers(ReachSegments(q), Reach!VectorLength(q.reach))
         /\ Covers(Reach!Segments(Reach!VectorLength(q.reach), [direct |-> TRUE]),
                   Reach!VectorLength(q.reach))
<1> DEFINE n == Reach!VectorLength(q.reach)
           c == q.combine
<1>1. q.reach \in ReachFlags /\ ValidCombine(c)
  BY QueriesAssumption DEF ReachFlags, ValidCombine
<1>2. n \in Nat
  BY <1>1, ReachExpands
<1>3. Reach!Segments(n, c) = Dpf!Segments(n, c)
  BY DEF Reach!Segments, Dpf!Segments, Reach!Indexes, Dpf!Indexes
<1>4. Reach!Segments(n, [direct |-> TRUE]) = {[start |-> 0, length |-> n]}
  BY DEF Reach!Segments
<1> HIDE DEF n, c
<1>5. Covers(Dpf!Segments(n, c), n)
  BY <1>1, <1>2, SegmentsCover
<1>6. Covers({[start |-> 0, length |-> n]}, n)
  BY <1>2 DEF Covers
<1> QED
  BY <1>3, <1>4, <1>5, <1>6 DEF n, c, ReachSegments

\* The sums of a helper at the bucket of each index.
ReachBuckets(q) == {k * BucketSize(q) : k \in 0 .. Reach!VectorLength(q.reach) - 1}

ReachSums(q, h) ==
  [b \in ReachBuckets(q) |-> TupleSum(ReachVector(q, h), Report, b \div BucketSize(q))]

\* The index of a bucket.
LEMMA BucketIndex ==
  ASSUME NEW q \in Queries, Reach!ExpandOK(q.reach), NEW k \in Int
  PROVE  (k * BucketSize(q)) \div BucketSize(q) = k /\ BucketSize(q) \in Nat \ {0}
<1>1. q.reach \in ReachFlags
  BY QueriesAssumption DEF ReachFlags
<1>2. BucketSize(q) \in Nat \ {0}
  BY <1>1, ReachExpands, PowerOfTwo DEF BucketSize
<1>3. ASSUME NEW m \in Nat \ {0} PROVE (k * m) \div m = k
  <2>1. PICK a \in Int : a = k * m
    OBVIOUS
  <2>2. PICK d \in Int : d = a \div m
    BY DivMod
  <2>3. PICK e \in 0 .. m - 1 : e = a % m
    BY DivMod
  <2>4. a = m * d + e
    BY <2>2, <2>3, DivMod
  <2>5. \A i, j, x, y, z \in Int : x = i * y /\ x = y * j + z => y * (i - j) = z
    OBVIOUS
  <2>6. m * (k - d) = e
    BY <2>1, <2>4, <2>5
  <2>7. PICK f \in Int : f = k - d
    OBVIOUS
  <2>8. m * f < m /\ -m < m * f
    BY <2>6, <2>7
  <2>9. f = 0
    BY <2>8, SmallMultiple
  <2> QED
    BY <2>1, <2>2, <2>7, <2>9
<1> QED
  BY <1>2, <1>3

\* Aligned, the sums of all reports are one line for each bucket.
LEMMA ReachAligned ==
  ASSUME NEW q \in Queries, NEW h, Reach!ExpandOK(q.reach), NEW segments,
         Covers(segments, Reach!VectorLength(q.reach))
  PROVE  Reach!AlignVector(q.reach, TupleSums(segments, ReachVector(q, h), Report))
           = Graph(ReachSums(q, h))
<1> DEFINE n == Reach!VectorLength(q.reach)
           size == BucketSize(q)
           p == ReachVector(q, h)
           acc == TupleSums(segments, p, Report)
           S == ReachSums(q, h)
           At(k) == k * size
           Pairs(s) == {<<(i + s.start) * size, acc[s][i]>> : i \in DOMAIN acc[s]}
<1>1. Reach!AlignVector(q.reach, acc) = UNION {Pairs(s) : s \in DOMAIN acc}
  BY DEF Reach!AlignVector, BucketSize
<1>2. DOMAIN acc = segments /\ \A s \in segments : DOMAIN acc[s] = 0 .. s.length - 1
  BY DEF TupleSums
<1>3. ASSUME NEW k \in 0 .. n - 1
      PROVE  At(k) \in ReachBuckets(q) /\ S[At(k)] = TupleSum(p, Report, k)
  <2>1. At(k) \in ReachBuckets(q)
    BY DEF ReachBuckets
  <2>2. At(k) \div size = k
    BY BucketIndex
  <2> HIDE DEF At, p, size
  <2> QED
    BY <2>1, <2>2 DEF ReachSums, p, size
<1>4. ASSUME NEW s \in segments, NEW i \in 0 .. s.length - 1
      PROVE  /\ i + s.start \in 0 .. n - 1 /\ acc[s][i] = S[At(i + s.start)]
             /\ At(i + s.start) \in ReachBuckets(q)
  <2>1. i + s.start \in 0 .. n - 1
    BY DEF Covers
  <2>2. acc[s][i] = TupleSum(p, Report, i + s.start)
    BY DEF TupleSums
  <2> HIDE DEF At, S, acc, p
  <2> QED
    BY <1>3, <2>1, <2>2
<1>5. DOMAIN S = ReachBuckets(q) /\ ReachBuckets(q) = {At(k) : k \in 0 .. n - 1}
  BY DEF ReachSums, ReachBuckets
<1>6. ASSUME NEW v, v \in UNION {Pairs(s) : s \in segments}
      PROVE  v \in Graph(S)
  <2>1. PICK s \in segments : v \in Pairs(s)
    BY <1>6
  <2>2. PICK i \in 0 .. s.length - 1 : v = <<At(i + s.start), acc[s][i]>>
    BY <1>2, <2>1
  <2> HIDE DEF At, S, acc
  <2>3. v = <<At(i + s.start), S[At(i + s.start)]>> /\ At(i + s.start) \in DOMAIN S
    BY <1>4, <1>5, <2>2
  <2> QED
    BY <2>3 DEF Graph
<1>7. ASSUME NEW v, v \in Graph(S)
      PROVE  v \in UNION {Pairs(s) : s \in segments}
  <2>1. PICK b \in DOMAIN S : v = <<b, S[b]>>
    BY <1>7 DEF Graph
  <2>2. PICK k \in 0 .. n - 1 : b = At(k)
    <3> HIDE DEF At, S, n
    <3> QED
      BY <1>5, <2>1
  <2>3. PICK s \in segments : \E i \in 0 .. s.length - 1 : k = i + s.start
    BY DEF Covers
  <2>4. PICK i \in 0 .. s.length - 1 : k = i + s.start
    BY <2>3
  <2>5. acc[s][i] = S[At(k)]
    BY <1>4, <2>4
  <2>6. v = <<(i + s.start) * size, acc[s][i]>>
    <3>1. At(k) = (i + s.start) * size
      BY <2>4
    <3> HIDE DEF At, S, acc, size
    <3> QED
      BY <2>1, <2>2, <2>5, <3>1
  <2>7. v \in Pairs(s)
    <3> HIDE DEF acc, size
    <3> QED
      BY <1>2, <2>6
  <2> QED
    BY <2>7
<1>8. UNION {Pairs(s) : s \in segments} = Graph(S)
  <2> HIDE DEF Pairs, S
  <2> QED
    BY <1>6, <1>7
<1> QED
  BY <1>1, <1>2, <1>8

\* Adding the reports one by one, in any order, gives the same sums.
LEMMA FoldGivesSums ==
  ASSUME NEW q \in Queries, NEW h \in Helper, Reach!ExpandOK(q.reach), NEW segments,
         Covers(segments, Reach!VectorLength(q.reach))
  PROVE  FSets!FoldSet(LAMBDA r, acc : Reach!AddInput(acc, Reach!ExpandDpfKey(q.reach, ReachKey(h, r))),
                       Reach!CreateAccumulator(segments), Report)
           = TupleSums(segments, ReachVector(q, h), Report)
<1> DEFINE base == Reach!CreateAccumulator(segments)
           Add(r, acc) == Reach!AddInput(acc, Reach!ExpandDpfKey(q.reach, ReachKey(h, r)))
           Step(f, s) == IF s = {} THEN base
                         ELSE Add(CHOOSE x \in s : TRUE, f[s \ {CHOOSE x \in s : TRUE}])
           Sums(s) == TupleSums(segments, ReachVector(q, h), s)
           g == [s \in SUBSET Report |-> Sums(s)]
<1>1. /\ Sums({}) = base
      /\ \A A \in SUBSET Report : \A r \in Report \ A : Add(r, Sums(A)) = Sums(A \cup {r})
  <2>1. ReachLawsHold(q, h, segments)
    BY ReachLaws
  <2> QED
    BY <2>1 DEF ReachLawsHold
<1> HIDE DEF base, Add, Sums
<1>2. ASSUME NEW s \in SUBSET Report, s # {}
      PROVE  LET x == CHOOSE x \in s : TRUE
             IN  x \in s /\ s \ {x} \in SUBSET Report /\ g[s] = Add(x, g[s \ {x}])
  <2> DEFINE x == CHOOSE x \in s : TRUE
  <2>1. x \in s
    BY <1>2
  <2> HIDE DEF x
  <2>2. s \ {x} \in SUBSET Report /\ x \in Report \ (s \ {x}) /\ s = (s \ {x}) \cup {x}
    BY <2>1
  <2>3. Add(x, Sums(s \ {x})) = Sums((s \ {x}) \cup {x})
    BY <1>1, <2>2
  <2> QED
    BY <2>1, <2>2, <2>3 DEF x
<1>3. g = [s \in SUBSET Report |-> Step(g, s)]
  <2>1. \A s \in SUBSET Report : g[s] = Step(g, s)
    BY <1>1, <1>2
  <2>2. g = [s \in SUBSET Report |-> g[s]]
    OBVIOUS
  <2> HIDE DEF Step, g
  <2> QED
    BY <2>1, <2>2
<1>4. ASSUME NEW f, f = [s \in SUBSET Report |-> Step(f, s)]
      PROVE  f[Report] = g[Report]
  <2> DEFINE Bad == {s \in SUBSET Report : f[s] # g[s]}
  <2>1. SUFFICES ASSUME Bad # {} PROVE FALSE
    OBVIOUS
  <2>2. PICK B \in Bad : \A x \in B : B \ {x} \notin Bad
    <3>1. Bad \in SUBSET (SUBSET Report) /\ IsFiniteSet(Report)
      BY ReportsAssumption
    <3> HIDE DEF Bad
    <3> QED
      BY <2>1, <3>1, SmallestSubset
  <2>3. f[B] = Step(f, B) /\ B \in SUBSET Report
    <3> HIDE DEF Step
    <3> QED
      BY <1>4
  <2>4. B # {}
    <3>1. Step(f, {}) = base /\ g[{}] = base
      BY <1>1
    <3> HIDE DEF Step, g
    <3> QED
      BY <2>3, <3>1
  <2> DEFINE x == CHOOSE x \in B : TRUE
  <2>5. x \in B /\ g[B] = Add(x, g[B \ {x}]) /\ B \ {x} \in SUBSET Report
    BY <1>2, <2>3, <2>4
  <2>6. f[B] = Add(x, f[B \ {x}])
    BY <2>3, <2>4
  <2> HIDE DEF x, g
  <2>7. f[B \ {x}] = g[B \ {x}]
    BY <2>2, <2>5
  <2> QED
    BY <2>5, <2>6, <2>7
<1> DEFINE Fold == CHOOSE f : f = [s \in SUBSET Report |-> Step(f, s)]
<1>5. FSets!FoldSet(Add, base, Report) = Fold[Report]
  BY DEF FSets!FoldSet, FSets!MapThenFoldSet
<1>6. Fold = [s \in SUBSET Report |-> Step(Fold, s)]
  <2> HIDE DEF Step
  <2> QED
    BY <1>3
<1> HIDE DEF Fold
<1>7. Fold[Report] = g[Report]
  BY <1>4, <1>6
<1>8. g[Report] = Sums(Report)
  OBVIOUS
<1> QED
  BY <1>5, <1>7, <1>8 DEF Add, base, Sums

\* The sum of what the reports contribute to a field at an index.
FieldSum(q, x, k) == SumOver(Report, [r \in Report |-> TupleValue(q, r, x, k)])

\* The two helpers' sums add up to it.
LEMMA ReachSharesAddUp ==
  ASSUME NEW q \in Queries, NEW h \in Helper, Reach!ExpandOK(q.reach),
         NEW k \in 0 .. Reach!VectorLength(q.reach) - 1, NEW x \in Reach!Fields
  PROVE  LET b == k * BucketSize(q)
         IN  /\ b \in ReachBuckets(q) /\ FieldSum(q, x, k) \in Int
             /\ ReachSums(q, h)[b][x] \in Int
             /\ (ReachSums(q, h)[b][x] + ReachSums(q, Partner(h))[b][x]) % Modulus
                  = FieldSum(q, x, k) % Modulus
<1> DEFINE b == k * BucketSize(q)
           f(i) == TupleTerms(ReachVector(q, i), x, k)
           v == [r \in Report |-> TupleValue(q, r, x, k)]
<1>1. b \in ReachBuckets(q)
  BY DEF ReachBuckets
<1>2. ASSUME NEW i \in Helper
      PROVE  ReachSums(q, i)[b][x] = SumOver(Report, f(i)) % Modulus
  <2>1. b \div BucketSize(q) = k
    BY BucketIndex
  <2>2. ReachSums(q, i)[b] = TupleSum(ReachVector(q, i), Report, k)
    <3> HIDE DEF b
    <3> QED
      BY <1>1, <2>1 DEF ReachSums
  <2> QED
    BY <2>2 DEF TupleSum
<1>3. ASSUME NEW i \in Helper, NEW r \in Report
      PROVE  /\ f(i)[r] \in Int /\ v[r] \in Int /\ ReachMask(r, x, k) \in Int
             /\ f(i)[r] = IF i = 1 THEN ReachMask(r, x, k)
                          ELSE (v[r] - ReachMask(r, x, k)) % Modulus
  BY ReachVectorFacts DEF TupleTerms
<1>4. \/ h = 1 /\ Partner(h) = 2 /\ Partner(h) \in Helper
      \/ h = 2 /\ Partner(h) = 1 /\ Partner(h) \in Helper
  BY DEF Helper, Partner
<1>5. IsFiniteSet(Report) /\ Modulus \in Nat \ {0}
  BY ReportsAssumption, WordRemainder
<1> DEFINE f1 == f(h)
           f2 == f(Partner(h))
<1>6. ASSUME NEW r \in Report
      PROVE  (f1[r] + f2[r]) % Modulus = v[r] % Modulus
  <2>1. PICK mask \in Int : mask = ReachMask(r, x, k)
    BY <1>3, <1>4
  <2>2. PICK value \in Int : value = v[r]
    BY <1>3, <1>4
  <2>3. \/ f1[r] = mask /\ f2[r] = (value - mask) % Modulus
        \/ f1[r] = (value - mask) % Modulus /\ f2[r] = mask
    <3> HIDE DEF f, v
    <3> QED
      BY <1>3, <1>4, <2>1, <2>2
  <2>4. PICK d \in Int : d = value - mask
    OBVIOUS
  <2>5. /\ (mask + (d % Modulus)) % Modulus = (mask + d) % Modulus
        /\ ((d % Modulus) + mask) % Modulus = (d + mask) % Modulus
    BY <1>5, ModAdd
  <2>6. mask + d = value /\ d + mask = value
    BY <2>4
  <2> HIDE DEF f1, f2, v
  <2> QED
    BY <2>2, <2>3, <2>4, <2>5, <2>6
<1>7. \A r \in Report : f1[r] \in Int /\ f2[r] \in Int /\ v[r] \in Int
  BY <1>3, <1>4
<1>8. /\ ReachSums(q, h)[b][x] = SumOver(Report, f1) % Modulus
      /\ ReachSums(q, Partner(h))[b][x] = SumOver(Report, f2) % Modulus
  BY <1>2, <1>4
<1> HIDE DEF f1, f2, v
<1>9. ((SumOver(Report, f1) % Modulus) + (SumOver(Report, f2) % Modulus)) % Modulus
        = SumOver(Report, v) % Modulus
  BY <1>5, <1>6, <1>7, SumOfWords
<1>10. SumOver(Report, f1) \in Int /\ SumOver(Report, v) \in Int
  <2>1. Report \in SUBSET Report
    OBVIOUS
  <2> QED
    BY <1>5, <1>7, <2>1, SumAdd
<1>11. SumOver(Report, f1) % Modulus \in Int
  BY <1>5, <1>10, DivMod
<1> QED
  BY <1>1, <1>8, <1>9, <1>10, <1>11 DEF v, FieldSum, b

\* The reports of an index.
ReportsAt(q, k) == {r \in Report : Raw[r].bucket \div BucketSize(q) = k}

\* The counts add up to the number of reports.
LEMMA ReachCounts ==
  ASSUME NEW q \in Queries, NEW k
  PROVE  FieldSum(q, "C", k) = Cardinality(ReportsAt(q, k))
<1> DEFINE S == ReportsAt(q, k)
           one == [r \in Report |-> 1]
           v == [r \in Report |-> TupleValue(q, r, "C", k)]
<1>1. \A r \in Report : v[r] = IF r \in S THEN one[r] ELSE 0
  BY DEF ReportsAt, TupleValue, Reach!ReachReportToTuple
<1>2. IsFiniteSet(Report) /\ S \in SUBSET Report
  BY ReportsAssumption DEF ReportsAt
<1>3. \A r \in Report : one[r] = 1 /\ one[r] \in Int
  OBVIOUS
<1>4. IsFiniteSet(S)
  BY <1>2, FS_Subset
<1> HIDE DEF S, one, v
<1>5. SumOver(S, one) = SumOver(Report, v)
  BY <1>1, <1>2, <1>3, SumFilter
<1>6. \A r \in S : one[r] = 1
  BY <1>2, <1>3
<1>7. SumOver(S, one) = Cardinality(S)
  BY <1>4, <1>6, SumCounts
<1> QED
  BY <1>5, <1>7 DEF v, S, FieldSum

\* The products of reports of one person are the person times the sum.
LEMMA ReachProducts ==
  ASSUME NEW q \in Queries, NEW k, NEW p \in Int,
         \A r \in ReportsAt(q, k) : Raw[r].person = p
  PROVE  /\ FieldSum(q, "Rf", k) % Modulus = (p * FieldSum(q, "R", k)) % Modulus
         /\ FieldSum(q, "Qf", k) % Modulus = (p * FieldSum(q, "Q", k)) % Modulus
         /\ FieldSum(q, "R", k) \in Int /\ FieldSum(q, "Q", k) \in Int
         /\ FieldSum(q, "Rf", k) \in Int /\ FieldSum(q, "Qf", k) \in Int
<1>0. IsFiniteSet(Report) /\ Modulus \in Nat \ {0} /\ Report \in SUBSET Report
  BY ReportsAssumption, WordRemainder
<1> DEFINE v(x) == [r \in Report |-> TupleValue(q, r, x, k)]
<1>1. ASSUME NEW x \in Reach!Fields
      PROVE  /\ \A r \in Report : v(x)[r] \in Int
             /\ SumOver(Report, v(x)) \in Int
  <2>1. \A r \in Report : v(x)[r] \in Int
    BY TupleNumbers DEF TupleValue
  <2> HIDE DEF v
  <2> QED
    BY <1>0, <2>1, SumAdd
<1>2. ASSUME NEW x \in Reach!Fields, NEW y \in Reach!Fields,
             \A r \in Report : v(x)[r] % Modulus = (p * v(y)[r]) % Modulus
      PROVE  SumOver(Report, v(x)) % Modulus = (p * SumOver(Report, v(y))) % Modulus
  <2> DEFINE f == v(x)
             g == [r \in Report |-> 0]
             h == [r \in Report |-> p * v(y)[r]]
             w == v(y)
  <2>1. \A r \in Report : f[r] \in Int /\ w[r] \in Int
    BY <1>1
  <2>2. \A r \in Report : g[r] = 0 /\ g[r] \in Int
    OBVIOUS
  <2>3. \A r \in Report : h[r] = p * w[r]
    OBVIOUS
  <2>4. \A i, j \in Int : i * j \in Int
    OBVIOUS
  <2>5. \A r \in Report : h[r] \in Int
    <3> HIDE DEF w, h
    <3> QED
      BY <2>1, <2>3, <2>4
  <2>6. \A r \in Report : f[r] % Modulus = h[r] % Modulus
    BY <1>2
  <2> HIDE DEF f, g, h, w
  <2>7. \A r \in Report : (f[r] + g[r]) % Modulus = h[r] % Modulus
    <3> SUFFICES ASSUME NEW r \in Report PROVE (f[r] + g[r]) % Modulus = h[r] % Modulus
      OBVIOUS
    <3>1. f[r] + g[r] = f[r]
      BY <2>1, <2>2
    <3> QED
      BY <2>6, <3>1
  <2>8. ((SumOver(Report, f) % Modulus) + (SumOver(Report, g) % Modulus)) % Modulus
          = SumOver(Report, h) % Modulus
    BY <1>0, <2>1, <2>2, <2>5, <2>7, SumOfWords
  <2>9. SumOver(Report, g) = 0
    BY <1>0, <2>2, SumZero
  <2>10. SumOver(Report, h) = p * SumOver(Report, w)
    BY <1>0, <2>1, <2>3, SumScale
  <2>11. SumOver(Report, f) \in Int
    BY <1>1 DEF f
  <2>12. ((SumOver(Report, f) % Modulus) + (0 % Modulus)) % Modulus = SumOver(Report, f) % Modulus
    <3>1. PICK a \in Int : a = SumOver(Report, f)
      BY <2>11
    <3>2. (a % Modulus) % Modulus = a % Modulus /\ 0 % Modulus = 0
      BY <1>0, ModTwice
    <3>3. (a % Modulus) + 0 = a % Modulus
      BY <1>0, DivMod
    <3> QED
      BY <3>1, <3>2, <3>3
  <2> QED
    BY <2>8, <2>9, <2>10, <2>12 DEF f, w
<1>3. ASSUME NEW r \in Report
      PROVE  /\ v("Rf")[r] % Modulus = (p * v("R")[r]) % Modulus
             /\ v("Qf")[r] % Modulus = (p * v("Q")[r]) % Modulus
  <2>1. CASE r \in ReportsAt(q, k)
    <3>1. /\ v("Rf")[r] = (Raw[r].r * p) % Modulus /\ v("R")[r] = Raw[r].r
          /\ v("Qf")[r] = (Raw[r].q * p) % Modulus /\ v("Q")[r] = Raw[r].q
      BY <2>1 DEF ReportsAt, TupleValue, Reach!ReachReportToTuple
    <3>2. Raw[r].r \in Int /\ Raw[r].q \in Int
      BY ReportsAssumption, WordRemainder
    <3>3. \A a \in Int : ((a * p) % Modulus) % Modulus = (p * a) % Modulus
      <4> SUFFICES ASSUME NEW a \in Int PROVE ((a * p) % Modulus) % Modulus = (p * a) % Modulus
        OBVIOUS
      <4>1. PICK b \in Int : b = a * p /\ b = p * a
        OBVIOUS
      <4> QED
        BY <1>0, <4>1, ModTwice
    <3> HIDE DEF v
    <3> QED
      BY <3>1, <3>2, <3>3
  <2>2. CASE r \notin ReportsAt(q, k)
    <3>1. v("Rf")[r] = 0 /\ v("R")[r] = 0 /\ v("Qf")[r] = 0 /\ v("Q")[r] = 0
      BY <2>2 DEF ReportsAt, TupleValue
    <3>2. p * 0 = 0
      OBVIOUS
    <3> HIDE DEF v
    <3> QED
      BY <3>1, <3>2
  <2> QED
    BY <2>1, <2>2
<1>4. {"R", "Q", "Rf", "Qf"} \subseteq Reach!Fields
  BY DEF Reach!Fields
<1>5. \A x : FieldSum(q, x, k) = SumOver(Report, v(x))
  BY DEF FieldSum
<1> HIDE DEF v
<1> QED
  BY <1>1, <1>2, <1>3, <1>4, <1>5

\* Numbers that are the same word differ by a multiple.
LEMMA Congruent ==
  \A m \in Nat \ {0} : \A a, b \in Int : a % m = b % m => \E i \in Int : a = b + m * i
<1> SUFFICES ASSUME NEW m \in Nat \ {0}, NEW a \in Int, NEW b \in Int, a % m = b % m
             PROVE  \E i \in Int : a = b + m * i
  OBVIOUS
<1>1. PICK x \in Int : x = a \div m
  BY DivMod
<1>2. PICK y \in Int : y = b \div m
  BY DivMod
<1>3. PICK e \in Int : e = a % m
  BY DivMod
<1>4. a = m * x + e
  BY <1>1, <1>3, DivMod
<1>5. b = m * y + e
  BY <1>2, <1>3, DivMod
<1>6. PICK i \in Int : i = x - y
  OBVIOUS
<1>7. a = b + m * i
  BY <1>4, <1>5, <1>6
<1> QED
  BY <1>7

\* Numbers that are the same word.
SameWord(m, a, b) == a % m = b % m

\* Products of the same words are the same word.
LEMMA SameProducts ==
  \A m \in Nat \ {0} : \A a, b, c, d \in Int :
    SameWord(m, a, c) /\ SameWord(m, b, d) => SameWord(m, a * b, c * d)
<1> SUFFICES ASSUME NEW m \in Nat \ {0}, NEW a \in Int, NEW b \in Int, NEW c \in Int,
                    NEW d \in Int, SameWord(m, a, c), SameWord(m, b, d)
             PROVE  SameWord(m, a * b, c * d)
  OBVIOUS
<1>1. PICK i \in Int : a = c + m * i
  BY Congruent, Zenon DEF SameWord
<1>2. PICK j \in Int : b = d + m * j
  BY Congruent, Zenon DEF SameWord
<1>3. PICK n \in Int : n = (c * j) + (i * d) + (i * (m * j))
  OBVIOUS
<1>4. PICK x \in Int : x = a * b
  OBVIOUS
<1>5. PICK y \in Int : y = c * d
  OBVIOUS
<1>6. x = y + m * n
  <2>1. (c + m * i) * (d + m * j) = c * d + m * ((c * j) + (i * d) + (i * (m * j)))
    OBVIOUS
  <2> QED
    BY <1>1, <1>2, <1>3, <1>4, <1>5, <2>1, Zenon
<1>7. x % m = y % m
  BY <1>6, SameRemainder
<1> QED
  BY <1>4, <1>5, <1>7, Zenon DEF SameWord

\* So are the differences of the same words.
LEMMA SameDifferences ==
  \A m \in Nat \ {0} : \A a, b, c, d \in Int :
    SameWord(m, a, c) /\ SameWord(m, b, d) => SameWord(m, a - b, c - d)
<1> SUFFICES ASSUME NEW m \in Nat \ {0}, NEW a \in Int, NEW b \in Int, NEW c \in Int,
                    NEW d \in Int, SameWord(m, a, c), SameWord(m, b, d)
             PROVE  SameWord(m, a - b, c - d)
  OBVIOUS
<1>1. PICK i \in Int : a = c + m * i
  BY Congruent, Zenon DEF SameWord
<1>2. PICK j \in Int : b = d + m * j
  BY Congruent, Zenon DEF SameWord
<1>3. PICK n \in Int : n = i - j
  OBVIOUS
<1>4. PICK x \in Int : x = a - b
  OBVIOUS
<1>5. PICK y \in Int : y = c - d
  OBVIOUS
<1>6. x = y + m * n
  <2>1. (c + m * i) - (d + m * j) = (c - d) + m * (i - j)
    OBVIOUS
  <2> QED
    BY <1>1, <1>2, <1>3, <1>4, <1>5, <2>1, Zenon
<1>7. x % m = y % m
  BY <1>6, SameRemainder
<1> QED
  BY <1>4, <1>5, <1>7, Zenon DEF SameWord

\* Two helpers' sums of reports of the person p, whose randomness adds up to v and w.
OfOnePerson(m, p, v, w, r1, q1, f1, g1, r2, q2, f2, g2) ==
  /\ m \in Nat \ {0} /\ p \in Int /\ v \in Int /\ w \in Int
  /\ r1 \in Int /\ q1 \in Int /\ f1 \in Int /\ g1 \in Int
  /\ r2 \in Int /\ q2 \in Int /\ f2 \in Int /\ g2 \in Int
  /\ (r1 + r2) % m = v % m /\ (q1 + q2) % m = w % m
  /\ (f1 + f2) % m = (p * v) % m /\ (g1 + g2) % m = (p * w) % m

\* What the two helpers' verifications of such sums add up to.
Verification(m, r1, q1, f1, g1, r2, q2, f2, g2) ==
  (((((r2 + r1) * g1) - ((q2 + q1) * f1)) % m)
     + ((((r1 + r2) * g2) - ((q1 + q2) * f2)) % m)) % m

\* The verifications of one person cancel out: the sums r and q of the randomness
\* that the reports were made with, times the same person.
LEMMA Cancels ==
  \A m, p, v, w, r1, q1, f1, g1, r2, q2, f2, g2 :
    OfOnePerson(m, p, v, w, r1, q1, f1, g1, r2, q2, f2, g2)
      => Verification(m, r1, q1, f1, g1, r2, q2, f2, g2) = 0
<1> SUFFICES ASSUME NEW m, NEW p, NEW v, NEW w, NEW r1, NEW q1, NEW f1, NEW g1,
                    NEW r2, NEW q2, NEW f2, NEW g2,
                    OfOnePerson(m, p, v, w, r1, q1, f1, g1, r2, q2, f2, g2)
             PROVE  Verification(m, r1, q1, f1, g1, r2, q2, f2, g2) = 0
  OBVIOUS
<1>0. /\ m \in Nat \ {0} /\ p \in Int /\ v \in Int /\ w \in Int
      /\ r1 \in Int /\ q1 \in Int /\ f1 \in Int /\ g1 \in Int
      /\ r2 \in Int /\ q2 \in Int /\ f2 \in Int /\ g2 \in Int
  BY DEF OfOnePerson
<1>a. /\ (r1 + r2) % m = v % m /\ (q1 + q2) % m = w % m
      /\ (f1 + f2) % m = (p * v) % m /\ (g1 + g2) % m = (p * w) % m
  BY DEF OfOnePerson
<1>1. PICK pv \in Int : pv = p * v
  BY <1>0
<1>2. PICK pw \in Int : pw = p * w
  BY <1>0
<1>3. PICK r \in Int : r = r1 + r2 /\ r = r2 + r1
  BY <1>0
<1>4. PICK q \in Int : q = q1 + q2 /\ q = q2 + q1
  BY <1>0
<1>5. PICK f \in Int : f = f1 + f2
  BY <1>0
<1>6. PICK g \in Int : g = g1 + g2
  BY <1>0
<1>7. SameWord(m, r, v) /\ SameWord(m, q, w) /\ SameWord(m, f, pv) /\ SameWord(m, g, pw)
  BY <1>a, <1>1, <1>2, <1>3, <1>4, <1>5, <1>6 DEF SameWord
<1>8. PICK a \in Int : a = (r * g1) - (q * f1)
  BY <1>0
<1>9. PICK b \in Int : b = (r * g2) - (q * f2)
  BY <1>0
<1>10. ((a % m) + (b % m)) % m = (a + b) % m
  <2>1. m \in Nat \ {0}
    BY <1>0
  <2> QED
    BY <2>1, ModAdd, Zenon
<1>11. PICK x \in Int : x = r * g
  BY <1>0
<1>12. PICK y \in Int : y = q * f
  BY <1>0
<1>13. PICK z \in Int : z = v * pw
  BY <1>0
<1>14. a + b = x - y
  <2>1. a + b = (r * (g1 + g2)) - (q * (f1 + f2))
    BY <1>0, <1>8, <1>9
  <2> QED
    BY <1>0, <1>5, <1>6, <1>11, <1>12, <2>1
<1>15. z = w * pv
  <2>1. v * (p * w) = w * (p * v)
    BY <1>0
  <2> QED
    BY <1>1, <1>2, <1>13, <2>1
<1>16. SameWord(m, r * g, v * pw) /\ SameWord(m, q * f, w * pv)
  BY <1>0, <1>7, SameProducts
<1>17. SameWord(m, x, z) /\ SameWord(m, y, z)
  BY <1>11, <1>12, <1>13, <1>15, <1>16
<1>18. SameWord(m, x - y, z - z)
  BY <1>0, <1>17, SameDifferences
<1>19. (x - y) % m = 0 % m
  BY <1>18 DEF SameWord
<1>20. 0 % m = 0
  BY <1>0
<1>21. ((a % m) + (b % m)) % m = 0
  BY <1>0, <1>10, <1>14, <1>19, <1>20
<1> QED
  BY <1>3, <1>4, <1>8, <1>9, <1>21, Zenon DEF Verification
-----------------------------------------------------------------------------
(* What the combine of a job holds of a set of reports. *)

\* The level of a query and what each report has at each index.
LevelOf(q, l) == q.levels[l]
DpfSegments(q, l) == Dpf!Segments(Dpf!VectorLength(LevelOf(q, l)), q.combine)
DpfVector(q, l, h) == [r \in Report |-> Dpf!ExpandDpfKey(LevelOf(q, l), DpfKey(h, r))]

\* The accumulator of the reports in R.
AccFor(q, l, h, R) ==
  CASE q.kind = "dpf" -> VectorSums(DpfSegments(q, l), DpfVector(q, l, h), R)
    [] q.kind = "reach" -> TupleSums(ReachSegments(q), ReachVector(q, h), R)
    [] OTHER -> OneSums(R)

AccOf(R) == AccFor(query, level, helper, R)

\* What the flags say of a level.
LEMMA LevelFacts ==
  ASSUME NEW q \in Queries, NEW l \in 1 .. Len(q.levels)
  PROVE  /\ LevelOf(q, l) \in LevelParams /\ ValidCombine(q.combine)
         /\ l \in DOMAIN q.levels
<1> DEFINE L == LevelParams
<1>1. q.levels \in Seq(L) /\ ValidCombine(q.combine)
  BY QueriesAssumption DEF LevelParams, ValidCombine
<1>2. DOMAIN q.levels = 1 .. Len(q.levels)
  <2> HIDE DEF L
  <2> QED
    BY <1>1, LenProperties
<1>3. q.levels[l] \in L
  <2> HIDE DEF L
  <2> QED
    BY <1>1, ElementOfSeq
<1> QED
  BY <1>1, <1>2, <1>3 DEF LevelOf

\* A share is a word: the mask for helper 1, what is missing for helper 2.
LEMMA ShareWord ==
  ASSUME NEW q \in Queries, q.kind = "dpf", NEW l \in 1 .. Len(q.levels), NEW h \in Helper,
         CheckExpansionParameters(Dpf!AsQueryParams(LevelOf(q, l))),
         NEW r \in Report, NEW b \in ExpandedBuckets(Dpf!AsQueryParams(LevelOf(q, l)))
  PROVE  Dpf!Share(DpfKey(h, r), LevelOf(q, l).level, b) \in Word
<1> DEFINE par == LevelOf(q, l)
           key == DpfKey(h, r)
           mask == Mask(r, par.level, b)
           value == IF Dpf!PrefixOf(key.alpha, par.level) = b THEN key.betas[par.level] ELSE 0
<1>1. par \in LevelParams /\ l \in DOMAIN q.levels
  BY LevelFacts
<1>2. par.level \in 0 .. KeyBitSize - 1 /\ Dpf!AsQueryParams(par).level = par.level
  BY <1>1, ParamsFacts
<1>3. mask \in Word
  <2> DEFINE aq == Dpf!AsQueryParams(q.levels[l])
  <2>1. \A s \in Report, c \in ExpandedBuckets(aq) : Mask(s, aq.level, c) \in Word
    BY <1>1, SharesAssumption DEF LevelOf
  <2> HIDE DEF aq
  <2>2. Mask(r, aq.level, b) \in Word
    BY <2>1 DEF aq, LevelOf
  <2> QED
    BY <1>2, <2>2 DEF aq, LevelOf
<1>4. /\ key.helper = h /\ key.seed = r
      /\ key.betas = [k \in 0 .. KeyBitSize - 1 |-> Raw[r].value]
  BY DEF DpfKey, Dpf!GenerateDPFKeys, Dpf!Helper, Helper, Dpf!Indexes
<1>5. key.betas[par.level] \in Word
  BY <1>2, <1>4, ReportsAssumption
<1>6. value \in Int /\ mask \in Int
  BY <1>3, <1>5, WordRemainder
<1>7. (value - mask) % Modulus \in Word
  <2>1. value - mask \in Int
    BY <1>6
  <2> HIDE DEF value, mask
  <2> QED
    BY <2>1, DivMod, WordRemainder DEF Word
<1>8. Dpf!Share(key, par.level, b) = IF key.helper = 1 THEN mask ELSE (value - mask) % Modulus
  BY <1>4 DEF Dpf!Share
<1> HIDE DEF value, mask, key, par
<1>9. Dpf!Share(key, par.level, b) \in Word
  BY <1>3, <1>7, <1>8
<1> QED
  BY <1>9 DEF key, par

\* What each report has at each index of the vector of a level.
LEMMA DpfVectorFacts ==
  ASSUME NEW q \in Queries, q.kind = "dpf", NEW l \in 1 .. Len(q.levels), NEW h \in Helper,
         CheckExpansionParameters(Dpf!AsQueryParams(LevelOf(q, l)))
  PROVE  /\ Expands(LevelOf(q, l))
         /\ Covers(DpfSegments(q, l), Dpf!VectorLength(LevelOf(q, l)))
         /\ \A r \in Report, k \in 0 .. Dpf!VectorLength(LevelOf(q, l)) - 1 :
              /\ DpfVector(q, l, h)[r][k] \in Int
              /\ DpfVector(q, l, h)[r][k]
                   = Dpf!Share(DpfKey(h, r), LevelOf(q, l).level, BucketAt(LevelOf(q, l), k))
<1> DEFINE par == LevelOf(q, l)
           n == Dpf!VectorLength(par)
<1>1. par \in LevelParams /\ ValidCombine(q.combine)
  BY LevelFacts
<1>2. Expands(par)
  BY <1>1, Expanded
<1>3. Covers(DpfSegments(q, l), n)
  <2>1. n \in Nat
    BY <1>2 DEF Expands
  <2> HIDE DEF n, par
  <2>2. Covers(Dpf!Segments(n, q.combine), n)
    BY <1>1, <2>1, SegmentsCover
  <2> QED
    BY <2>2 DEF DpfSegments, n, par
<1>4. ASSUME NEW r \in Report, NEW k \in 0 .. n - 1
      PROVE  /\ DpfVector(q, l, h)[r][k] \in Int
             /\ DpfVector(q, l, h)[r][k] = Dpf!Share(DpfKey(h, r), par.level, BucketAt(par, k))
  <2>1. BucketAt(par, k) \in ExpandedBuckets(Dpf!AsQueryParams(par))
    BY <1>2 DEF Expands
  <2>2. DpfVector(q, l, h)[r][k] = Dpf!ExpandDpfKey(par, DpfKey(h, r))[k]
    BY DEF DpfVector
  <2>3. Dpf!ExpandDpfKey(par, DpfKey(h, r))[k] = Dpf!Share(DpfKey(h, r), par.level, BucketAt(par, k))
    BY <1>2 DEF Expands
  <2>4. Dpf!Share(DpfKey(h, r), par.level, BucketAt(par, k)) \in Word
    BY <2>1, ShareWord
  <2> QED
    BY <2>2, <2>3, <2>4, WordRemainder
<1> QED
  BY <1>2, <1>3, <1>4

\* The parameters are such that the reports can be expanded.
Expandable ==
  /\ HasLevels => CheckExpansionParameters(Dpf!AsQueryParams(Params))
  /\ query.kind = "reach" => Reach!ExpandOK(query.reach)

\* The combine of every kind of job: nothing to begin with, a report more with each
\* input, and the reports of two accumulators together.
LEMMA CombineLaws ==
  ASSUME ControlTypeOK, Expandable
  PROVE  /\ AccOf({}) = CreateAccumulator
         /\ \A A \in SUBSET Report : \A r \in Report \ A :
              AddInput(AccOf(A), r) = AccOf(A \cup {r})
         /\ \A A, B \in SUBSET Report : A \cap B = {} =>
              MergeAccumulators(AccOf(A), AccOf(B)) = AccOf(A \cup B)
<1>1. query \in Queries /\ level \in 1 .. Len(query.levels) /\ helper \in Helper
  BY DEF ControlTypeOK
<1>2. CASE query.kind = "dpf"
  <2> DEFINE segments == DpfSegments(query, level)
             p == DpfVector(query, level, helper)
             n == Dpf!VectorLength(LevelOf(query, level))
  <2>1. LevelOf(query, level) = Params /\ HasLevels
    BY <1>2 DEF LevelOf, Params, HasLevels
  <2>2. /\ Covers(segments, n)
        /\ \A r \in Report, k \in 0 .. n - 1 : p[r][k] \in Int
    <3>1. CheckExpansionParameters(Dpf!AsQueryParams(LevelOf(query, level)))
      BY <2>1 DEF Expandable
    <3> QED
      BY <1>1, <1>2, <3>1, DpfVectorFacts
  <2>3. IsFiniteSet(Report)
    BY ReportsAssumption
  <2>4. \A r \in Report : p[r] = Dpf!ExpandDpfKey(Params, DpfKey(helper, r))
    BY <2>1 DEF DpfVector
  <2>5. \A R : AccOf(R) = VectorSums(segments, p, R)
    BY <1>2 DEF AccOf, AccFor
  <2>6. CreateAccumulator = Dpf!CreateAccumulator(segments)
    BY <1>2, <2>1 DEF CreateAccumulator, DpfSegments
  <2>7. \A acc : \A r \in Report : AddInput(acc, r) = Dpf!AddInput(acc, p[r])
    BY <1>2, <2>4 DEF AddInput
  <2>8. \A a, b : MergeAccumulators(a, b) = Dpf!MergeAccumulators(a, b)
    BY <1>2 DEF MergeAccumulators
  <2> HIDE DEF segments, p, n
  <2>9. /\ VectorSums(segments, p, {}) = Dpf!CreateAccumulator(segments)
        /\ \A A \in SUBSET Report : \A r \in Report \ A :
             Dpf!AddInput(VectorSums(segments, p, A), p[r]) = VectorSums(segments, p, A \cup {r})
        /\ \A A, B \in SUBSET Report : A \cap B = {} =>
             Dpf!MergeAccumulators(VectorSums(segments, p, A), VectorSums(segments, p, B))
               = VectorSums(segments, p, A \cup B)
    BY <2>2, <2>3, VectorLaws
  <2> QED
    BY <2>5, <2>6, <2>7, <2>8, <2>9
<1>3. CASE query.kind \notin {"dpf", "reach"}
  <2>1. \A R : AccOf(R) = OneSums(R)
    BY <1>3 DEF AccOf, AccFor
  <2>2. CreateAccumulator = OneParty!EmptySums
    BY <1>3 DEF CreateAccumulator
  <2>3. \A acc : \A r \in Report :
          AddInput(acc, r) = Seqs!FoldLeft(OneParty!Contribution, acc, Raw[r].data)
    BY <1>3 DEF AddInput
  <2>4. \A a, b : MergeAccumulators(a, b) = OneParty!MergeSums(a, b)
    BY <1>3 DEF MergeAccumulators
  <2> QED
    BY <2>1, <2>2, <2>3, <2>4, OnePartyLaws
<1>4. CASE query.kind = "reach"
  <2> DEFINE segments == ReachSegments(query)
             p == ReachVector(query, helper)
  <2>1. Reach!ExpandOK(query.reach)
    BY <1>4 DEF Expandable
  <2>2. Covers(segments, Reach!VectorLength(query.reach))
    BY <1>1, <2>1, ReachCovers
  <2>3. \A R : AccOf(R) = TupleSums(segments, p, R)
    BY <1>4 DEF AccOf, AccFor
  <2>4. CreateAccumulator = Reach!CreateAccumulator(segments)
    BY <1>4 DEF CreateAccumulator, ReachSegments
  <2>5. \A acc : \A r \in Report :
          AddInput(acc, r) = Reach!AddInput(acc, Reach!ExpandDpfKey(query.reach, ReachKey(helper, r)))
    BY <1>4 DEF AddInput
  <2>6. \A a, b : MergeAccumulators(a, b) = Reach!MergeAccumulators(a, b)
    BY <1>4 DEF MergeAccumulators
  <2> HIDE DEF segments
  <2>7. ReachLawsHold(query, helper, segments)
    BY <1>1, <2>1, <2>2, ReachLaws
  <2> QED
    BY <2>3, <2>4, <2>5, <2>6, <2>7 DEF ReachLawsHold
<1> QED
  BY <1>2, <1>3, <1>4
=============================================================================
