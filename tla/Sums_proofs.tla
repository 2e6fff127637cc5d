------------------------------ MODULE Sums_proofs -----------------------------
(***************************************************************************)
(* Sums over finite sets, of integers as MapThenSumSet computes them and   *)
(* of fractions as Total does, and products of fractions: element by       *)
(* element, in an order that does not matter.  The library has no theorem  *)
(* about its folds, and no prover here does induction over sets; what is   *)
(* false for some set is false for one of the smallest, which the provers  *)
(* can refute.  Fractions come with what their operations and comparisons  *)
(* do, from remainders and greatest common divisors.                       *)
(***************************************************************************)
EXTENDS Fractions, FiniteSetsExt, FiniteSetTheorems, WellFoundedInduction, TLAPS

-----------------------------------------------------------------------------
(* 1. Sums of integers.                                                    *)

(* The sum of w[x] over the x of a set.                                    *)
SumOver(w, S) == MapThenSumSet(LAMBDA x : w[x], S)

Chosen(s) == CHOOSE x \in s : TRUE

(* What the recursive function of the fold is.                             *)
Folds(g, w, S) ==
    g = [s \in SUBSET S |->
            IF s = {} THEN 0 ELSE w[Chosen(s)] + g[s \ {Chosen(s)}]]

LEMMA SumIsFold ==
    ASSUME NEW w, NEW S
    PROVE  SumOver(w, S) = (CHOOSE g : Folds(g, w, S))[S]
BY DEF SumOver, MapThenSumSet, MapThenFoldSet, Folds, Chosen

(* Among finite sets one has no other as a proper subset.                  *)
LEMMA Smallest ==
    ASSUME NEW F, F # {}, \A s \in F : IsFiniteSet(s)
    PROVE  \E s \in F : \A t \in F : t \subseteq s => t = s
<1> DEFINE Below == OpToRel(<, Nat)
           Sizes == {n \in Nat : \E s \in F : Cardinality(s) = n}
<1>1. IsWellFoundedOn(Below, Nat)
  BY NatLessThanWellFounded
<1>2. Sizes \subseteq Nat /\ Sizes # {}
  BY FS_CardinalityType
<1>3. PICK n \in Sizes : \A m \in Sizes : <<m, n>> \notin Below
  <2> HIDE DEF Sizes, Below
  <2> QED BY <1>1, <1>2, WFMin
<1>4. PICK s \in F : Cardinality(s) = n
  BY <1>3
<1>5. ASSUME NEW t \in F, t \subseteq s, t # s PROVE FALSE
  <2>1. IsFiniteSet(s)
    OBVIOUS
  <2>2. Cardinality(t) \in Nat /\ Cardinality(t) <= n /\ Cardinality(t) # n
    BY <1>4, <1>5, <2>1, FS_Subset, FS_CardinalityType
  <2>3. Cardinality(t) \in Sizes
    BY <2>2
  <2>4. <<Cardinality(t), n>> \in Below
    BY <1>2, <2>2 DEF OpToRel
  <2> QED
    BY <1>3, <2>3, <2>4
<1> QED
  BY <1>4, <1>5

LEMMA ChosenIn == ASSUME NEW s, s # {} PROVE Chosen(s) \in s
BY DEF Chosen

(* Folds over two sets agree on the subsets of both.                       *)
LEMMA FoldsAgree ==
    ASSUME NEW w, NEW S, IsFiniteSet(S), NEW T, NEW g, NEW h,
           Folds(g, w, S), Folds(h, w, T), NEW r \in (SUBSET S) \cap (SUBSET T)
    PROVE  g[r] = h[r]
<1> DEFINE Bad == {s \in (SUBSET S) \cap (SUBSET T) : g[s] # h[s]}
<1> SUFFICES ASSUME Bad # {} PROVE FALSE
  OBVIOUS
<1>1. \A s \in Bad : IsFiniteSet(s)
  BY FS_Subset
<1>2. PICK s \in Bad : \A t \in Bad : t \subseteq s => t = s
  <2> HIDE DEF Bad
  <2> QED BY <1>1, Smallest
<1>3. s \in SUBSET S /\ s \in SUBSET T /\ g[s] # h[s]
  OBVIOUS
<1>4. s # {}
  BY <1>3 DEF Folds
<1> DEFINE t == s \ {Chosen(s)}
<1>5. t # s /\ t \subseteq s /\ t \in (SUBSET S) \cap (SUBSET T)
  BY <1>3, <1>4, ChosenIn
<1>6. g[t] = h[t]
  BY <1>2, <1>5
<1>7. g[s] = w[Chosen(s)] + g[t] /\ h[s] = w[Chosen(s)] + h[t]
  BY <1>3, <1>4 DEF Folds
<1> QED
  BY <1>3, <1>6, <1>7

LEMMA FoldExists ==
    ASSUME NEW w, NEW S, IsFiniteSet(S)
    PROVE  \E g : Folds(g, w, S)
<1> DEFINE Bad == {s \in SUBSET S : ~ \E g : Folds(g, w, s)}
<1> SUFFICES ASSUME Bad # {} PROVE FALSE
  OBVIOUS
<1>1. \A s \in Bad : IsFiniteSet(s)
  BY FS_Subset
<1>2. PICK s \in Bad : \A t \in Bad : t \subseteq s => t = s
  <2> HIDE DEF Bad
  <2> QED BY <1>1, Smallest
<1> DEFINE H(t) == SumOver(w, t)
           G == [t \in SUBSET s |->
                    IF t = {} THEN 0 ELSE w[Chosen(t)] + H(t \ {Chosen(t)})]
<1>3. ASSUME NEW t \in SUBSET s, t # s
      PROVE  /\ IsFiniteSet(t)
             /\ \E g : Folds(g, w, t) /\ H(t) = g[t]
  <2>1. t \in SUBSET S /\ IsFiniteSet(t)
    BY FS_Subset
  <2>2. \E g : Folds(g, w, t)
    BY <1>2, <1>3, <2>1
  <2>3. Folds(CHOOSE g : Folds(g, w, t), w, t)
    BY <2>2, Zenon
  <2> QED
    BY <2>1, <2>3, SumIsFold
<1>4. ASSUME NEW u \in SUBSET s, u # s
      PROVE  H(u) = G[u]
  <2>1. PICK g : Folds(g, w, u) /\ H(u) = g[u]
    BY <1>3, <1>4
  <2>2. CASE u = {}
    BY <2>1, <2>2 DEF Folds
  <2>3. CASE u # {}
    <3> DEFINE v == u \ {Chosen(u)}
    <3>1. v \in SUBSET u /\ v \in SUBSET s /\ v # s
      BY <1>4, <2>3, ChosenIn
    <3>2. PICK h : Folds(h, w, v) /\ H(v) = h[v]
      BY <1>3, <3>1
    <3>3. g[v] = h[v]
      <4>1. IsFiniteSet(u) /\ v \in (SUBSET u) \cap (SUBSET v)
        BY <1>3, <1>4, <3>1
      <4> HIDE DEF v
      <4> QED
        BY <2>1, <3>2, <4>1, FoldsAgree
    <3>4. g[u] = w[Chosen(u)] + g[v]
      BY <2>1, <2>3 DEF Folds
    <3> QED
      BY <2>1, <2>3, <3>2, <3>3, <3>4
  <2> QED
    BY <2>2, <2>3
<1>5. Folds(G, w, s)
  <2> SUFFICES ASSUME NEW t \in SUBSET s, t # {}
               PROVE  H(t \ {Chosen(t)}) = G[t \ {Chosen(t)}]
    BY DEF Folds
  <2>1. t \ {Chosen(t)} \in SUBSET s /\ t \ {Chosen(t)} # s
    BY ChosenIn
  <2> QED
    BY <1>4, <2>1
<1> QED
  BY <1>5

-----------------------------------------------------------------------------
LEMMA SumEmpty == ASSUME NEW w PROVE SumOver(w, {}) = 0
<1>1. \E g : Folds(g, w, {})
  BY FoldExists, FS_EmptySet
<1>2. Folds(CHOOSE g : Folds(g, w, {}), w, {})
  BY <1>1, Zenon
<1> QED
  BY <1>2, SumIsFold DEF Folds

LEMMA SumUnfolds ==
    ASSUME NEW w, NEW S, IsFiniteSet(S), S # {}
    PROVE  SumOver(w, S) = w[Chosen(S)] + SumOver(w, S \ {Chosen(S)})
<1> DEFINE T == S \ {Chosen(S)}
           g == CHOOSE g : Folds(g, w, S)
           h == CHOOSE h : Folds(h, w, T)
<1>1. IsFiniteSet(T) /\ T \in (SUBSET S) \cap (SUBSET T)
  BY FS_Subset
<1>2. (\E f : Folds(f, w, S)) /\ (\E f : Folds(f, w, T))
  BY <1>1, FoldExists
<1>3. Folds(g, w, S) /\ Folds(h, w, T)
  <2> HIDE DEF T
  <2> QED
    BY <1>2, Zenon
<1>4. SumOver(w, S) = g[S] /\ SumOver(w, T) = h[T]
  BY SumIsFold, Zenon
<1> HIDE DEF g, h
<1>5. g[T] = h[T]
  <2> HIDE DEF T
  <2> QED
    BY <1>1, <1>3, FoldsAgree
<1>6. g[S] = w[Chosen(S)] + g[T]
  BY <1>3 DEF Folds
<1> QED
  BY <1>4, <1>5, <1>6

(* A sum of integers is one; of naturals, a natural.                       *)
LEMMA SumType ==
    ASSUME NEW w, NEW S, IsFiniteSet(S), \A x \in S : w[x] \in Int
    PROVE  /\ SumOver(w, S) \in Int
           /\ (\A x \in S : w[x] >= 0) => SumOver(w, S) >= 0
<1> DEFINE Good(s) == /\ SumOver(w, s) \in Int
                      /\ (\A x \in S : w[x] >= 0) => SumOver(w, s) >= 0
           Bad == {s \in SUBSET S : ~ Good(s)}
<1> SUFFICES ASSUME Bad # {} PROVE FALSE
  OBVIOUS
<1>1. \A s \in Bad : IsFiniteSet(s)
  BY FS_Subset
<1>2. PICK s \in Bad : \A t \in Bad : t \subseteq s => t = s
  <2> HIDE DEF Bad
  <2> QED BY <1>1, Smallest
<1>3. s # {}
  BY SumEmpty
<1> DEFINE t == s \ {Chosen(s)}
<1>4. t \in SUBSET S /\ t # s /\ t \subseteq s /\ Chosen(s) \in S
  BY <1>3, ChosenIn
<1>5. Good(t)
  <2> HIDE DEF Good, t
  <2> QED BY <1>2, <1>4
<1>6. SumOver(w, s) = w[Chosen(s)] + SumOver(w, t)
  BY <1>1, <1>3, SumUnfolds
<1> QED
  BY <1>4, <1>5, <1>6

(* Any element may be summed first.                                        *)
LEMMA SumSplits ==
    ASSUME NEW w, NEW S, IsFiniteSet(S), \A x \in S : w[x] \in Int, NEW z \in S
    PROVE  SumOver(w, S) = w[z] + SumOver(w, S \ {z})
<1> DEFINE Good(s) == \A x \in s : SumOver(w, s) = w[x] + SumOver(w, s \ {x})
           Bad == {s \in SUBSET S : ~ Good(s)}
<1> SUFFICES ASSUME Bad # {} PROVE FALSE
  OBVIOUS
<1>1. \A s \in Bad : IsFiniteSet(s)
  BY FS_Subset
<1>2. PICK s \in Bad : \A t \in Bad : t \subseteq s => t = s
  <2> HIDE DEF Bad
  <2> QED BY <1>1, Smallest
<1>3. PICK y \in s : SumOver(w, s) # w[y] + SumOver(w, s \ {y})
  OBVIOUS
<1> DEFINE c == Chosen(s)
           t == s \ {c}
           u == s \ {y}
<1>4. s \in SUBSET S /\ IsFiniteSet(s) /\ c \in s /\ w[c] \in Int /\ w[y] \in Int
  BY <1>1, ChosenIn
<1>5. SumOver(w, s) = w[c] + SumOver(w, t)
  BY <1>4, SumUnfolds
<1>6. c # y
  BY <1>3, <1>5
<1>7. Good(t) /\ Good(u)
  <2>1. t \in SUBSET S /\ t \subseteq s /\ t # s
    BY <1>4
  <2>2. u \in SUBSET S /\ u \subseteq s /\ u # s
    BY <1>4
  <2> HIDE DEF Good, t, u
  <2> QED BY <1>2, <2>1, <2>2
<1> DEFINE v == t \ {y}
<1>8. SumOver(w, t) = w[y] + SumOver(w, v)
  BY <1>6, <1>7
<1>9. SumOver(w, u) = w[c] + SumOver(w, v)
  <2>1. c \in u /\ u \ {c} = v
    BY <1>4, <1>6
  <2> QED BY <1>7, <2>1
<1>10. SumOver(w, v) \in Int
  <2>1. IsFiniteSet(v) /\ \A x \in v : w[x] \in Int
    BY FS_Subset
  <2> HIDE DEF v
  <2> QED BY <2>1, SumType
<1> HIDE DEF t, u, v, c
<1> QED
  BY <1>3, <1>4, <1>5, <1>8, <1>9, <1>10 DEF u

(* Sums of what agrees, or is less, element by element.                    *)
(* A part is no more than a whole without negative parts.                  *)
LEMMA SumBounds ==
    ASSUME NEW w, NEW S, IsFiniteSet(S), \A x \in S : w[x] \in Int /\ w[x] >= 0, NEW y \in S
    PROVE  w[y] <= SumOver(w, S)
<1> DEFINE T == S \ {y}
<1>1. SumOver(w, S) = w[y] + SumOver(w, T)
  BY SumSplits
<1>2. SumOver(w, T) \in Int /\ SumOver(w, T) >= 0
  <2>1. IsFiniteSet(T) /\ \A x \in T : w[x] \in Int /\ w[x] >= 0
    BY FS_Subset
  <2> HIDE DEF T
  <2> QED BY <2>1, SumType
<1> HIDE DEF T
<1> QED BY <1>1, <1>2

LEMMA SumCompares ==
    ASSUME NEW w, NEW v, NEW S, IsFiniteSet(S),
           \A x \in S : w[x] \in Int /\ v[x] \in Int /\ w[x] <= v[x]
    PROVE  SumOver(w, S) <= SumOver(v, S)
<1> DEFINE Good(s) == SumOver(w, s) <= SumOver(v, s)
           Bad == {s \in SUBSET S : ~ Good(s)}
<1> SUFFICES ASSUME Bad # {} PROVE FALSE
  OBVIOUS
<1>1. \A s \in Bad : IsFiniteSet(s)
  BY FS_Subset
<1>2. PICK s \in Bad : \A t \in Bad : t \subseteq s => t = s
  <2> HIDE DEF Bad
  <2> QED BY <1>1, Smallest
<1>3. s # {} /\ IsFiniteSet(s)
  BY <1>1, SumEmpty
<1> DEFINE c == Chosen(s)
           t == s \ {c}
<1>4. t \in SUBSET S /\ t \subseteq s /\ t # s /\ c \in S
  BY <1>3, ChosenIn
<1>5. Good(t)
  <2> HIDE DEF Good, t
  <2> QED BY <1>2, <1>4
<1>6. SumOver(w, s) = w[c] + SumOver(w, t) /\ SumOver(v, s) = v[c] + SumOver(v, t)
  BY <1>3, SumUnfolds
<1>7. SumOver(w, t) \in Int /\ SumOver(v, t) \in Int
  <2>1. IsFiniteSet(t) /\ \A x \in t : w[x] \in Int /\ v[x] \in Int
    BY <1>4, FS_Subset
  <2> HIDE DEF t
  <2> QED BY <2>1, SumType
<1> HIDE DEF t, c
<1> QED
  BY <1>4, <1>5, <1>6, <1>7

LEMMA SumAgrees ==
    ASSUME NEW w, NEW v, NEW S, IsFiniteSet(S), \A x \in S : w[x] \in Int /\ v[x] = w[x]
    PROVE  SumOver(v, S) = SumOver(w, S)
<1>1. SumOver(v, S) \in Int /\ SumOver(w, S) \in Int
  BY SumType
<1>2. SumOver(v, S) <= SumOver(w, S) /\ SumOver(w, S) <= SumOver(v, S)
  BY SumCompares
<1> QED
  BY <1>1, <1>2

LEMMA SumOfZeros ==
    ASSUME NEW w, NEW S, IsFiniteSet(S), \A x \in S : w[x] = 0
    PROVE  SumOver(w, S) = 0
<1> DEFINE Bad == {s \in SUBSET S : SumOver(w, s) # 0}
<1> SUFFICES ASSUME Bad # {} PROVE FALSE
  OBVIOUS
<1>1. \A s \in Bad : IsFiniteSet(s)
  BY FS_Subset
<1>2. PICK s \in Bad : \A t \in Bad : t \subseteq s => t = s
  <2> HIDE DEF Bad
  <2> QED BY <1>1, Smallest
<1>3. s # {} /\ IsFiniteSet(s)
  BY <1>1, SumEmpty
<1> DEFINE t == s \ {Chosen(s)}
<1>4. t \in SUBSET S /\ t \subseteq s /\ t # s /\ w[Chosen(s)] = 0
  BY <1>3, ChosenIn
<1>5. SumOver(w, t) = 0
  BY <1>2, <1>4
<1>6. SumOver(w, s) = w[Chosen(s)] + SumOver(w, t)
  BY <1>3, SumUnfolds
<1> QED BY <1>4, <1>5, <1>6

(* When one element changes, so does the sum, by as much.                  *)
LEMMA SumMoves ==
    ASSUME NEW w, NEW v, NEW S, IsFiniteSet(S), NEW y \in S,
           \A x \in S : w[x] \in Int /\ v[x] \in Int,
           \A x \in S \ {y} : v[x] = w[x]
    PROVE  SumOver(v, S) = SumOver(w, S) + (v[y] - w[y])
<1> DEFINE T == S \ {y}
<1>1. SumOver(w, S) = w[y] + SumOver(w, T) /\ SumOver(v, S) = v[y] + SumOver(v, T)
  BY SumSplits
<1>2. SumOver(v, T) = SumOver(w, T) /\ SumOver(w, T) \in Int
  <2>1. IsFiniteSet(T) /\ \A x \in T : w[x] \in Int /\ v[x] = w[x]
    BY FS_Subset
  <2> HIDE DEF T
  <2> QED BY <2>1, SumAgrees, SumType
<1> HIDE DEF T
<1> QED
  BY <1>1, <1>2


(* What is zero may be left out of a sum.                                  *)
LEMMA SumIgnoresZeros ==
    ASSUME NEW w, NEW S, IsFiniteSet(S), NEW T \in SUBSET S,
           \A x \in S : w[x] \in Int, \A x \in S \ T : w[x] = 0
    PROVE  SumOver(w, S) = SumOver(w, T)
<1> DEFINE Good(s) == SumOver(w, s) = SumOver(w, s \cap T)
           Bad == {s \in SUBSET S : ~ Good(s)}
<1> SUFFICES ASSUME Bad # {} PROVE FALSE
  <2>1. S \cap T = T
    OBVIOUS
  <2> QED BY <2>1
<1>1. \A s \in Bad : IsFiniteSet(s)
  BY FS_Subset
<1>2. PICK s \in Bad : \A t \in Bad : t \subseteq s => t = s
  <2> HIDE DEF Bad
  <2> QED BY <1>1, Smallest
<1>3. s # {} /\ IsFiniteSet(s) /\ s \in SUBSET S
  BY <1>1
<1> DEFINE c == Chosen(s)
           t == s \ {c}
<1>4. t \in SUBSET S /\ t \subseteq s /\ t # s /\ c \in s /\ c \in S
  BY <1>3, ChosenIn
<1>5. Good(t)
  <2> HIDE DEF Good, t
  <2> QED BY <1>2, <1>4
<1>6. SumOver(w, s) = w[c] + SumOver(w, t)
  BY <1>3, SumUnfolds
<1>7. SumOver(w, t) \in Int
  <2>1. IsFiniteSet(t) /\ \A x \in t : w[x] \in Int
    BY <1>3, <1>4, FS_Subset
  <2> HIDE DEF t
  <2> QED BY <2>1, SumType
<1>8. ~ Good(s)
  OBVIOUS
<1>9. CASE c \in T
  <2> DEFINE u == s \cap T
  <2>1. IsFiniteSet(u) /\ c \in u /\ \A x \in u : w[x] \in Int
    BY <1>3, <1>4, <1>9, FS_Subset
  <2>2. u \ {c} = t \cap T
    OBVIOUS
  <2> HIDE DEF u
  <2>3. SumOver(w, u) = w[c] + SumOver(w, u \ {c})
    BY <2>1, SumSplits
  <2> QED BY <1>5, <1>6, <1>8, <2>2, <2>3 DEF u
<1>10. CASE c \notin T
  <2>1. w[c] = 0
    BY <1>4, <1>10
  <2>2. SumOver(w, s) = SumOver(w, t)
    <3> HIDE DEF t, c
    <3> QED BY <1>6, <1>7, <2>1
  <2>3. s \cap T = t \cap T
    BY <1>10
  <2>4. SumOver(w, t) = SumOver(w, s \cap T)
    BY <1>5, <2>3
  <2> QED BY <1>8, <2>2, <2>4
<1> QED BY <1>9, <1>10

LEMMA SumScales ==
    ASSUME NEW w, NEW v, NEW S, IsFiniteSet(S), NEW k \in Int,
           \A x \in S : w[x] \in Int /\ v[x] = k * w[x]
    PROVE  SumOver(v, S) = k * SumOver(w, S)
<1> DEFINE Good(s) == SumOver(v, s) = k * SumOver(w, s)
           Bad == {s \in SUBSET S : ~ Good(s)}
<1> SUFFICES ASSUME Bad # {} PROVE FALSE
  OBVIOUS
<1>1. \A s \in Bad : IsFiniteSet(s)
  BY FS_Subset
<1>2. PICK s \in Bad : \A t \in Bad : t \subseteq s => t = s
  <2> HIDE DEF Bad
  <2> QED BY <1>1, Smallest
<1>3. s # {} /\ IsFiniteSet(s) /\ s \in SUBSET S
  <2>1. k * 0 = 0
    OBVIOUS
  <2>2. Good({})
    BY <2>1, SumEmpty
  <2> QED BY <1>1, <2>2
<1> DEFINE c == Chosen(s)
           t == s \ {c}
<1>4. t \in SUBSET S /\ t \subseteq s /\ t # s /\ c \in S
  BY <1>3, ChosenIn
<1>5. Good(t)
  <2> HIDE DEF Good, t
  <2> QED BY <1>2, <1>4
<1>6. SumOver(w, s) = w[c] + SumOver(w, t) /\ SumOver(v, s) = v[c] + SumOver(v, t)
  BY <1>3, SumUnfolds
<1>7. SumOver(w, t) \in Int
  <2>1. IsFiniteSet(t) /\ \A x \in t : w[x] \in Int
    BY <1>3, <1>4, FS_Subset
  <2> HIDE DEF t
  <2> QED BY <2>1, SumType
<1>8. \A a, b \in Int : k * (a + b) = k * a + k * b
  OBVIOUS
<1>9. w[c] \in Int /\ v[c] = k * w[c] /\ ~ Good(s)
  BY <1>4
<1> HIDE DEF t, c
<1> QED BY <1>5, <1>6, <1>7, <1>8, <1>9

-----------------------------------------------------------------------------
(* 2. Fractions, and sums of them.                                         *)

Divides(x, n) == \E i \in Nat : n = i * x

(* Quotients and remainders.                                               *)
LEMMA Division ==
    ASSUME NEW a \in Nat, NEW b \in Nat \ {0}
    PROVE  a % b \in Nat /\ a % b < b /\ a \div b \in Nat /\ a = (a \div b) * b + (a % b)
OBVIOUS

LEMMA Remainder ==
    ASSUME NEW q \in Nat, NEW b \in Nat \ {0}, NEW r \in Nat, r < b
    PROVE  (q * b + r) % b = r /\ (q * b + r) \div b = q
OBVIOUS

LEMMA Quotient ==
    ASSUME NEW q \in Int, NEW b \in Nat \ {0}
    PROVE  (q * b) \div b = q
OBVIOUS

(* Products keep the order and the identity of what they scale.            *)
LEMMA Scales ==
    ASSUME NEW m \in Int, NEW n \in Int, NEW k \in Nat \ {0}
    PROVE  /\ m <= n <=> m * k <= n * k
           /\ m = n <=> m * k = n * k
OBVIOUS

LEMMA Distributes ==
    ASSUME NEW x \in Int, NEW y \in Int, NEW k \in Int
    PROVE  (x + y) * k = x * k + y * k /\ (x - y) * k = x * k - y * k
OBVIOUS

LEMMA NatTimes ==
    ASSUME NEW x \in Nat \ {0}, NEW y \in Nat \ {0}
    PROVE  x * y \in Nat \ {0}
OBVIOUS

LEMMA Regroups ==
    ASSUME NEW x \in Int, NEW y \in Int, NEW k \in Int
    PROVE  (x * y) * k = x * (y * k) /\ (x * y) * k = (x * k) * y
OBVIOUS

(* What divides two numbers divides what the one leaves of the other.      *)
LEMMA DividesRemainder ==
    ASSUME NEW a \in Nat, NEW b \in Nat \ {0}, NEW x \in Nat \ {0}, Divides(x, b)
    PROVE  Divides(x, a) <=> Divides(x, a % b)
<1> DEFINE q == a \div b
           r == a % b
<1>1. q \in Nat /\ r \in Nat /\ a = q * b + r
  BY Division
<1>2. PICK j \in Nat : b = j * x
  BY DEF Divides
<1>3. q * b = (q * j) * x /\ q * j \in Nat
  <2> HIDE DEF q
  <2>1. q * (j * x) = (q * j) * x
    BY <1>1, Regroups
  <2>2. q * j \in Nat
    BY <1>1
  <2> QED BY <1>2, <2>1, <2>2
<1> DEFINE m == q * j
<1>4. a = m * x + r /\ m \in Nat
  BY <1>1, <1>3
<1> HIDE DEF q, r, m
<1>5. ASSUME NEW i \in Nat, a = i * x PROVE Divides(x, r)
  <2>1. r = (i - m) * x
    BY <1>1, <1>4, <1>5, Distributes
  <2>2. 0 * x <= (i - m) * x
    BY <1>1, <2>1
  <2>3. 0 <= i - m
    BY <1>4, <2>2, Scales
  <2> DEFINE k == i - m
  <2>4. k \in Nat /\ r = k * x
    BY <1>4, <2>1, <2>3
  <2> HIDE DEF k
  <2> QED BY <2>4 DEF Divides
<1>6. ASSUME NEW i \in Nat, r = i * x PROVE Divides(x, a)
  <2>1. a = (m + i) * x
    BY <1>4, <1>6, Distributes
  <2> DEFINE k == m + i
  <2>4. k \in Nat /\ a = k * x
    BY <1>4, <2>1
  <2> HIDE DEF k
  <2> QED BY <2>4 DEF Divides
<1> QED BY <1>5, <1>6 DEF Divides, r

Euclid(g) == g = [p \in Nat \X Nat |-> IF p[2] = 0 THEN p[1] ELSE g[<<p[2], p[1] % p[2]>>]]

(* Euclid's algorithm: the recursive function exists, so it is what its    *)
(* equation says.                                                          *)
LEMMA EuclidExists == \E g : Euclid(g)
<1> DEFINE Common(a, b) == {x \in Nat \ {0} : Divides(x, a) /\ Divides(x, b)}
           Top(S) == CHOOSE x \in S : \A y \in S : y <= x
           g == [p \in Nat \X Nat |-> IF p[2] = 0 THEN p[1] ELSE Top(Common(p[1], p[2]))]
<1>1. ASSUME NEW a \in Nat, NEW b \in Nat \ {0}
      PROVE  g[<<a, b>>] = g[<<b, a % b>>]
  <2> DEFINE r == a % b
  <2>1. r \in Nat
    BY Division
  <2>2. g[<<a, b>>] = Top(Common(a, b))
    OBVIOUS
  <2>3. CASE r = 0
    <3>1. g[<<b, r>>] = b
      BY <2>3
    <3>2. b \in Common(a, b)
      <4>1. Divides(b, b)
        BY DEF Divides
      <4>2. Divides(b, r)
        BY <2>3 DEF Divides
      <4> QED BY <4>1, <4>2, DividesRemainder
    <3>3. ASSUME NEW x \in Common(a, b) PROVE x <= b
      <4>1. PICK j \in Nat : b = j * x
        BY DEF Divides
      <4>2. j # 0 /\ x \in Nat \ {0}
        BY <4>1
      <4> QED BY <4>1, <4>2
    <3>4. Common(a, b) \subseteq Nat
      OBVIOUS
    <3> HIDE DEF Common
    <3>5. \A x \in Common(a, b) : (\A y \in Common(a, b) : y <= x) <=> x = b
      BY <3>2, <3>3, <3>4
    <3>6. Top(Common(a, b)) = b
      BY <3>2, <3>5, Zenon
    <3> QED BY <2>2, <3>1, <3>6
  <2>4. CASE r # 0
    <3>1. g[<<b, r>>] = Top(Common(b, r))
      BY <2>1, <2>4
    <3>2. Common(a, b) = Common(b, r)
      BY DividesRemainder
    <3> QED BY <2>2, <3>1, <3>2
  <2> QED BY <2>3, <2>4
<1>2. Euclid(g)
  <2>1. ASSUME NEW p \in Nat \X Nat
        PROVE  g[p] = IF p[2] = 0 THEN p[1] ELSE g[<<p[2], p[1] % p[2]>>]
    <3>1. p = <<p[1], p[2]>> /\ p[1] \in Nat /\ p[2] \in Nat
      OBVIOUS
    <3>2. CASE p[2] = 0
      BY <3>1, <3>2
    <3>3. CASE p[2] # 0
      <4> HIDE DEF g
      <4> QED BY <1>1, <3>1, <3>3
    <3> QED BY <3>2, <3>3
  <2>2. g = [p \in Nat \X Nat |-> g[p]]
    OBVIOUS
  <2> HIDE DEF g
  <2> QED BY <2>1, <2>2 DEF Euclid
<1> QED BY <1>2

LEMMA GcdSteps ==
    ASSUME NEW a \in Nat, NEW b \in Nat
    PROVE  Gcd[<<a, b>>] = IF b = 0 THEN a ELSE Gcd[<<b, a % b>>]
<1>1. Gcd = CHOOSE g : Euclid(g)
  BY DEF Gcd, Euclid
<1>2. Euclid(Gcd)
  BY <1>1, EuclidExists, Zenon
<1> QED BY <1>2 DEF Euclid

(* Every set of naturals with an element has a least one.                  *)
LEMMA LeastNat ==
    ASSUME NEW S \in SUBSET Nat, S # {}
    PROVE  \E n \in S : \A m \in S : n <= m
<1> DEFINE Below == OpToRel(<, Nat)
<1>1. IsWellFoundedOn(Below, Nat)
  BY NatLessThanWellFounded
<1>2. PICK n \in S : \A m \in S : <<m, n>> \notin Below
  <2> HIDE DEF Below
  <2> QED BY <1>1, WFMin
<1>3. \A m \in S : ~ (m < n)
  BY <1>2 DEF OpToRel
<1> QED BY <1>3

(* It divides both numbers ...                                             *)
LEMMA GcdDivides ==
    ASSUME NEW a \in Nat, NEW b \in Nat \ {0}
    PROVE  /\ Gcd[<<a, b>>] \in Nat \ {0}
           /\ Divides(Gcd[<<a, b>>], a) /\ Divides(Gcd[<<a, b>>], b)
<1> DEFINE Good(m, n) == /\ Gcd[<<m, n>>] \in Nat \ {0}
                         /\ Divides(Gcd[<<m, n>>], m) /\ Divides(Gcd[<<m, n>>], n)
           Bad == {n \in Nat \ {0} : \E m \in Nat : ~ Good(m, n)}
<1> SUFFICES ASSUME Bad # {} PROVE FALSE
  OBVIOUS
<1>1. PICK n \in Bad : \A k \in Bad : n <= k
  <2>1. Bad \in SUBSET Nat
    OBVIOUS
  <2> HIDE DEF Bad
  <2> QED BY <2>1, LeastNat
<1>2. PICK m \in Nat : ~ Good(m, n)
  BY <1>1
<1> DEFINE r == m % n
<1>3. r \in Nat /\ r < n /\ n \in Nat \ {0}
  BY <1>1, Division
<1>4. Gcd[<<m, n>>] = Gcd[<<n, r>>]
  BY <1>3, GcdSteps
<1>5. Divides(n, n)
  BY <1>3 DEF Divides
<1>6. CASE r = 0
  <2>1. Gcd[<<n, r>>] = n
    BY <1>3, <1>6, GcdSteps
  <2>2. Divides(n, r)
    BY <1>3, <1>6 DEF Divides
  <2>3. Divides(n, m)
    BY <1>3, <1>5, <2>2, DividesRemainder
  <2> QED BY <1>2, <1>3, <1>4, <1>5, <2>1, <2>3
<1>7. CASE r # 0
  <2>1. Good(n, r)
    <3> HIDE DEF Good, r
    <3>1. r \notin Bad
      <4> HIDE DEF Bad
      <4>1. Bad \subseteq Nat
        BY DEF Bad
      <4> QED BY <1>1, <1>3, <4>1
    <3> QED BY <1>3, <1>7, <3>1
  <2>2. Divides(Gcd[<<n, r>>], m)
    BY <1>3, <2>1, DividesRemainder
  <2> QED BY <1>2, <1>4, <2>1, <2>2
<1> QED BY <1>6, <1>7

LEMMA RemainderScales ==
    ASSUME NEW a \in Nat, NEW b \in Nat, b # 0, NEW k \in Nat, k # 0
    PROVE  (a * k) % (b * k) = (a % b) * k
<1> DEFINE q == a \div b
           r == a % b
<1>1. q \in Nat /\ r \in Nat /\ r < b /\ a = q * b + r
  BY Division
<1> HIDE DEF q, r
<1>2. b * k \in Nat \ {0} /\ r * k \in Nat /\ a * k \in Nat
  BY <1>1
<1>3. r * k < b * k
  BY <1>1, Scales
<1>4. a * k = q * (b * k) + r * k
  <2>1. q * b \in Int
    BY <1>1
  <2>2. a * k = (q * b) * k + r * k
    BY <1>1, <2>1, Distributes
  <2> QED BY <1>1, <2>2, Regroups
<1> DEFINE bk == b * k
           rk == r * k
<1>5. bk \in Nat \ {0} /\ rk \in Nat /\ rk < bk /\ a * k = q * bk + rk
  BY <1>2, <1>3, <1>4
<1> HIDE DEF bk, rk
<1>6. (a * k) % bk = rk
  BY <1>1, <1>5, Remainder
<1> QED BY <1>6 DEF bk, rk, r

(* ... and scales with them, so that one number has one lowest fraction.   *)
LEMMA GcdScales ==
    ASSUME NEW a \in Nat, NEW b \in Nat \ {0}, NEW k \in Nat \ {0}
    PROVE  Gcd[<<a * k, b * k>>] = Gcd[<<a, b>>] * k
<1> DEFINE Good(m, n) == Gcd[<<m * k, n * k>>] = Gcd[<<m, n>>] * k
           Bad == {n \in Nat \ {0} : \E m \in Nat : ~ Good(m, n)}
<1> SUFFICES ASSUME Bad # {} PROVE FALSE
  OBVIOUS
<1>1. PICK n \in Bad : \A l \in Bad : n <= l
  <2>1. Bad \in SUBSET Nat
    OBVIOUS
  <2> HIDE DEF Bad
  <2> QED BY <2>1, LeastNat
<1>2. PICK m \in Nat : ~ Good(m, n)
  BY <1>1
<1>0. n \in Nat \ {0}
  BY <1>1
<1> DEFINE r == m % n
<1>3. r \in Nat /\ r < n /\ n \in Nat \ {0}
  BY <1>1, Division
<1>4. Gcd[<<m, n>>] = Gcd[<<n, r>>]
  BY <1>3, GcdSteps
<1>5. Gcd[<<m * k, n * k>>] = Gcd[<<n * k, r * k>>]
  <2> DEFINE mk == m * k
             nk == n * k
  <2> HIDE DEF mk, nk, r, Bad, Good
  <2>0. (m * k) % (n * k) = (m % n) * k
    BY <1>0, RemainderScales
  <2>1. mk \in Nat /\ nk \in Nat \ {0} /\ mk % nk = r * k
    <3>1. m * k \in Nat /\ n * k \in Nat \ {0}
      BY <1>0
    <3> QED BY <2>0, <3>1 DEF mk, nk, r
  <2>2. Gcd[<<mk, nk>>] = Gcd[<<nk, mk % nk>>]
    BY <2>1, GcdSteps
  <2> QED BY <2>1, <2>2 DEF mk, nk
<1>6. CASE r = 0
  <2>1. Gcd[<<n, 0>>] = n
    BY <1>3, GcdSteps
  <2>2. r * k = 0 /\ n * k \in Nat
    BY <1>3, <1>6
  <2>3. Gcd[<<n * k, 0>>] = n * k
    <3> DEFINE nk == n * k
    <3>1. nk \in Nat
      BY <2>2
    <3> HIDE DEF nk
    <3>2. Gcd[<<nk, 0>>] = nk
      BY <3>1, GcdSteps
    <3> QED BY <3>2 DEF nk
  <2> HIDE DEF r
  <2> QED BY <1>2, <1>4, <1>5, <1>6, <2>1, <2>2, <2>3
<1>7. CASE r # 0
  <2>1. Good(n, r)
    <3> HIDE DEF Good, r
    <3>1. r \notin Bad
      <4> HIDE DEF Bad
      <4>1. Bad \subseteq Nat
        BY DEF Bad
      <4> QED BY <1>1, <1>3, <4>1
    <3> QED BY <1>3, <1>7, <3>1
  <2> HIDE DEF r
  <2> QED BY <1>2, <1>4, <1>5, <2>1
<1> QED BY <1>6, <1>7

Absolute(n) == IF n < 0 THEN -n ELSE n

(* Lowering keeps the value.                                               *)
LEMMA FractionIs ==
    ASSUME NEW n \in Int, NEW d \in Nat \ {0}
    PROVE  /\ Fraction(n, d) \in Fractions
           /\ Fraction(n, d).num * d = n * Fraction(n, d).den
<1> DEFINE g == Gcd[<<Absolute(n), d>>]
<1>1. Absolute(n) \in Nat
  BY DEF Absolute
<1>2. g \in Nat \ {0} /\ Divides(g, Absolute(n)) /\ Divides(g, d)
  BY <1>1, GcdDivides
<1>3. Fraction(n, d) = [num |-> n \div g, den |-> d \div g]
  BY DEF Fraction, Divided, Absolute
<1> HIDE DEF g
<1>4. PICK i \in Nat : Absolute(n) = i * g
  BY <1>2 DEF Divides
<1>5. PICK j \in Nat : d = j * g
  BY <1>2 DEF Divides
<1>6. \E i1 \in Int : n = i1 * g
  <2>1. n = i * g \/ n = (-i) * g
    BY <1>2, <1>4 DEF Absolute
  <2> QED BY <2>1
<1>7. PICK s \in Int : n = s * g
  BY <1>6
<1>8. n \div g = s /\ d \div g = j
  BY <1>2, <1>5, <1>7, Quotient
<1>9. j # 0
  BY <1>2, <1>5
<1>10. s * (j * g) = (s * g) * j
  BY <1>2, Regroups
<1> QED BY <1>3, <1>5, <1>7, <1>8, <1>9, <1>10 DEF Fractions

LEMMA FractionScales ==
    ASSUME NEW n \in Int, NEW d \in Nat \ {0}, NEW k \in Nat \ {0}
    PROVE  Fraction(n * k, d * k) = Fraction(n, d)
<1> DEFINE g == Gcd[<<Absolute(n), d>>]
<1>1. Absolute(n) \in Nat /\ Absolute(n * k) = Absolute(n) * k
  <2>1. n < 0 <=> n * k < 0 * k
    BY Scales
  <2>2. (-n) * k = -(n * k) /\ n * k \in Int
    OBVIOUS
  <2> QED BY <2>1, <2>2 DEF Absolute
<1>2. g \in Nat \ {0} /\ Divides(g, Absolute(n)) /\ Divides(g, d)
  BY <1>1, GcdDivides
<1>3. Gcd[<<Absolute(n * k), d * k>>] = g * k
  BY <1>1, GcdScales
<1>4. /\ Fraction(n, d) = [num |-> n \div g, den |-> d \div g]
      /\ Fraction(n * k, d * k) = [num |-> (n * k) \div (g * k), den |-> (d * k) \div (g * k)]
  BY <1>3 DEF Fraction, Divided, Absolute
<1> HIDE DEF g
<1>5. PICK i \in Nat : Absolute(n) = i * g
  BY <1>2 DEF Divides
<1>6. PICK j \in Nat : d = j * g
  BY <1>2 DEF Divides
<1>7. \E i1 \in Int : n = i1 * g
  <2>1. n = i * g \/ n = (-i) * g
    BY <1>2, <1>5 DEF Absolute
  <2> QED BY <2>1
<1>8. PICK s \in Int : n = s * g
  BY <1>7
<1>9. n \div g = s /\ d \div g = j
  BY <1>2, <1>6, <1>8, Quotient
<1>10. n * k = s * (g * k) /\ d * k = j * (g * k) /\ g * k \in Nat \ {0}
  BY <1>2, <1>6, <1>8, Regroups
<1>11. (n * k) \div (g * k) = s /\ (d * k) \div (g * k) = j
  <2> DEFINE gk == g * k
  <2>1. gk \in Nat \ {0} /\ n * k = s * gk /\ d * k = j * gk
    BY <1>10
  <2> HIDE DEF gk
  <2>2. (n * k) \div gk = s /\ (d * k) \div gk = j
    BY <2>1, Quotient
  <2> QED BY <2>2 DEF gk
<1> QED BY <1>4, <1>9, <1>11

(* Equal fractions have one form.                                          *)
LEMMA FractionSame ==
    ASSUME NEW n \in Int, NEW d \in Nat \ {0}, NEW m \in Int, NEW e \in Nat \ {0},
           n * e = m * d
    PROVE  Fraction(n, d) = Fraction(m, e)
<1>1. Fraction(n * e, d * e) = Fraction(n, d)
  BY FractionScales
<1>2. Fraction(m * d, e * d) = Fraction(m, e)
  BY FractionScales
<1>3. d * e = e * d
  OBVIOUS
<1> QED BY <1>1, <1>2, <1>3

(* The fraction a is n over d.                                             *)
Is(a, n, d) ==
    a \in Fractions /\ n \in Int /\ d \in Nat \ {0} /\ a.num * d = n * a.den

LEMMA IsParts ==
    ASSUME NEW a \in Fractions
    PROVE  a.num \in Int /\ a.den \in Nat \ {0} /\ a = [num |-> a.num, den |-> a.den]
BY DEF Fractions

LEMMA IsSelf == ASSUME NEW a \in Fractions PROVE Is(a, a.num, a.den)
BY DEF Is, Fractions

LEMMA IsFraction ==
    ASSUME NEW n \in Int, NEW d \in Nat \ {0}
    PROVE  Is(Fraction(n, d), n, d)
BY FractionIs DEF Is

(* In lowest terms there is one fraction for a number.                     *)
Lowest(a) == a = Fraction(a.num, a.den)

LEMMA FractionIsLowest ==
    ASSUME NEW n \in Int, NEW d \in Nat \ {0}
    PROVE  Lowest(Fraction(n, d))
<1> DEFINE a == Fraction(n, d)
<1>1. a.num \in Int /\ a.den \in Nat \ {0} /\ a.num * d = n * a.den
  BY FractionIs DEF Fractions
<1> HIDE DEF a
<1>2. Fraction(a.num, a.den) = Fraction(n, d)
  BY <1>1, FractionSame
<1> QED BY <1>2 DEF Lowest, a

LEMMA LowestSame ==
    ASSUME NEW a, NEW b, NEW n, NEW d, Is(a, n, d), Is(b, n, d), Lowest(a), Lowest(b)
    PROVE  a = b
<1> DEFINE x == a.num
           y == b.num
           p == a.den
           q == b.den
<1>1. /\ x \in Int /\ y \in Int /\ p \in Nat \ {0} /\ q \in Nat \ {0}
      /\ n \in Int /\ d \in Nat \ {0}
      /\ x * d = n * p /\ y * d = n * q
  BY DEF Is, Fractions
<1>2. a = Fraction(x, p) /\ b = Fraction(y, q)
  BY DEF Lowest
<1> HIDE DEF x, y, p, q
<1>3. (x * q) * d = (y * p) * d
  <2>1. (x * q) * d = (x * d) * q /\ (y * p) * d = (y * d) * p
    BY <1>1, Regroups
  <2>2. (n * p) * q = (n * q) * p
    BY <1>1, Regroups
  <2> QED BY <1>1, <2>1, <2>2
<1>4. x * q = y * p
  <2>1. x * q \in Int /\ y * p \in Int
    BY <1>1
  <2> QED BY <1>1, <1>3, <2>1, Scales
<1>5. Fraction(x, p) = Fraction(y, q)
  BY <1>1, <1>4, FractionSame
<1> QED BY <1>2, <1>5

LEMMA IsScaled ==
    ASSUME NEW a, NEW n, NEW d, Is(a, n, d), NEW k \in Nat \ {0}
    PROVE  Is(a, n * k, d * k)
<1>1. a.num \in Int /\ a.den \in Nat \ {0} /\ n \in Int /\ d \in Nat \ {0}
  BY DEF Is, Fractions
<1>2. a.num * (d * k) = (a.num * d) * k /\ (n * a.den) * k = (n * k) * a.den
  BY <1>1, Regroups
<1>3. n * k \in Int /\ d * k \in Nat \ {0}
  BY <1>1
<1> QED BY <1>2, <1>3 DEF Is

(* Two have a common denominator.                                          *)
LEMMA Common ==
    ASSUME NEW a, NEW n, NEW d, Is(a, n, d), NEW b \in Fractions
    PROVE  \E k \in Nat \ {0}, m \in Int : Is(a, n * k, d * k) /\ Is(b, m, d * k)
<1>1. n \in Int /\ d \in Nat \ {0} /\ b.den \in Nat \ {0} /\ b.num \in Int
  BY IsParts DEF Is
<1>2. Is(a, n * b.den, d * b.den)
  BY <1>1, IsScaled
<1>3. Is(b, b.num * d, b.den * d) /\ b.den * d = d * b.den /\ b.num * d \in Int
  BY <1>1, IsSelf, IsScaled
<1> QED BY <1>1, <1>2, <1>3

(* Over a common denominator fractions compare, add and subtract by their  *)
(* numerators, and multiply apart.                                         *)
LEMMA LessIs ==
    ASSUME NEW a, NEW n, NEW d, NEW b, NEW m, Is(a, n, d), Is(b, m, d)
    PROVE  (a \preceq b <=> n <= m) /\ (a \prec b <=> n < m)
<1> DEFINE x == a.num
           y == b.num
           p == a.den
           q == b.den
           pq == p * q
<1>1. /\ x \in Int /\ y \in Int /\ p \in Nat \ {0} /\ q \in Nat \ {0}
      /\ n \in Int /\ m \in Int /\ d \in Nat \ {0}
      /\ x * d = n * p /\ y * d = m * q
  BY DEF Is, Fractions
<1>2. /\ a \preceq b <=> x * q <= y * p
      /\ a \prec b <=> x * q < y * p
  BY DEF \preceq, \prec
<1> HIDE DEF x, y, p, q
<1>3. (x * q) * d = n * pq /\ (y * p) * d = m * pq
  <2>1. (x * q) * d = (x * d) * q
    BY <1>1, Regroups
  <2>2. (n * p) * q = n * (p * q)
    BY <1>1, Regroups
  <2>3. (y * p) * d = (y * d) * p
    BY <1>1, Regroups
  <2>4. (m * q) * p = m * (q * p) /\ q * p = p * q
    BY <1>1, Regroups
  <2> QED BY <1>1, <2>1, <2>2, <2>3, <2>4
<1>4. x * q \in Int /\ y * p \in Int /\ pq \in Nat \ {0}
  BY <1>1
<1> DEFINE u == x * q
           v == y * p
<1>5. u \in Int /\ v \in Int /\ u * d = n * pq /\ v * d = m * pq
  BY <1>3, <1>4
<1> HIDE DEF pq, u, v
<1>6. u <= v <=> u * d <= v * d
  BY <1>1, <1>5, Scales
<1>7. n <= m <=> n * pq <= m * pq
  BY <1>1, <1>4, Scales
<1>8. v <= u <=> v * d <= u * d
  BY <1>1, <1>5, Scales
<1>9. m <= n <=> m * pq <= n * pq
  BY <1>1, <1>4, Scales
<1>10. u <= v <=> n <= m
  BY <1>5, <1>6, <1>7
<1>11. v <= u <=> m <= n
  BY <1>5, <1>8, <1>9
<1> QED BY <1>1, <1>2, <1>5, <1>10, <1>11 DEF u, v

LEMMA PlusIs ==
    ASSUME NEW a, NEW n, NEW d, NEW b, NEW m, Is(a, n, d), Is(b, m, d)
    PROVE  /\ Is(a \oplus b, n + m, d) /\ Lowest(a \oplus b)
           /\ Is(a \ominus b, n - m, d) /\ Lowest(a \ominus b)
<1> DEFINE x == a.num
           y == b.num
           p == a.den
           q == b.den
           pq == p * q
           xq == x * q
           yp == y * p
<1>1. /\ x \in Int /\ y \in Int /\ p \in Nat \ {0} /\ q \in Nat \ {0}
      /\ n \in Int /\ m \in Int /\ d \in Nat \ {0}
      /\ x * d = n * p /\ y * d = m * q
  BY DEF Is, Fractions
<1>2. a \oplus b = Fraction(xq + yp, pq) /\ a \ominus b = Fraction(xq - yp, pq)
  BY DEF \oplus, \ominus
<1> HIDE DEF x, y, p, q
<1>3. xq * d = n * pq /\ yp * d = m * pq
  <2>1. (x * q) * d = (x * d) * q
    BY <1>1, Regroups
  <2>2. (n * p) * q = n * (p * q)
    BY <1>1, Regroups
  <2>3. (y * p) * d = (y * d) * p
    BY <1>1, Regroups
  <2>4. (m * q) * p = m * (q * p) /\ q * p = p * q
    BY <1>1, Regroups
  <2> QED BY <1>1, <2>1, <2>2, <2>3, <2>4
<1>4. xq \in Int /\ yp \in Int /\ pq \in Nat \ {0}
  BY <1>1
<1> HIDE DEF pq, xq, yp
<1>5. (xq + yp) * d = (n + m) * pq /\ (xq - yp) * d = (n - m) * pq
  BY <1>1, <1>3, <1>4, Distributes
<1>6. /\ xq + yp \in Int /\ xq - yp \in Int /\ n + m \in Int /\ n - m \in Int
  BY <1>1, <1>4
<1>7. Fraction(xq + yp, pq) = Fraction(n + m, d)
  BY <1>1, <1>4, <1>5, <1>6, FractionSame
<1>8. Fraction(xq - yp, pq) = Fraction(n - m, d)
  BY <1>1, <1>4, <1>5, <1>6, FractionSame
<1> QED BY <1>1, <1>2, <1>4, <1>6, <1>7, <1>8, IsFraction, FractionIsLowest

LEMMA TimesIs ==
    ASSUME NEW a, NEW n, NEW d, NEW b, NEW m, NEW e, Is(a, n, d), Is(b, m, e)
    PROVE  Is(a \otimes b, n * m, d * e) /\ Lowest(a \otimes b)
<1> DEFINE x == a.num
           y == b.num
           p == a.den
           q == b.den
<1>1. /\ x \in Int /\ y \in Int /\ p \in Nat \ {0} /\ q \in Nat \ {0}
      /\ n \in Int /\ m \in Int /\ d \in Nat \ {0} /\ e \in Nat \ {0}
      /\ x * d = n * p /\ y * e = m * q
  BY DEF Is, Fractions
<1>2. a \otimes b = Fraction(x * y, p * q)
  BY DEF \otimes
<1> HIDE DEF x, y, p, q
<1>3. (x * y) * (d * e) = (n * m) * (p * q)
  <2>1. (x * y) * (d * e) = (x * d) * (y * e)
    BY <1>1
  <2>2. (n * p) * (m * q) = (n * m) * (p * q)
    BY <1>1
  <2> QED BY <1>1, <2>1, <2>2
<1>4. x * y \in Int /\ p * q \in Nat \ {0} /\ n * m \in Int /\ d * e \in Nat \ {0}
  BY <1>1
<1>5. Fraction(x * y, p * q) = Fraction(n * m, d * e)
  BY <1>3, <1>4, FractionSame
<1> QED BY <1>2, <1>4, <1>5, IsFraction, FractionIsLowest

LEMMA UnitsAre ==
    ASSUME NEW d \in Nat \ {0}
    PROVE  Is(Zero, 0, d) /\ Is(One, d, d)
BY DEF Is, Zero, One, Fractions

LEMMA NegativeIs ==
    ASSUME NEW a, NEW n, NEW d, Is(a, n, d)
    PROVE  Is(Negative(a), -n, d)
<1>1. a.num \in Int /\ a.den \in Nat \ {0} /\ n \in Int /\ d \in Nat \ {0}
  BY DEF Is, Fractions
<1>2. Negative(a) = [num |-> -a.num, den |-> a.den]
  BY DEF Negative, Is, Fractions
<1>3. (-a.num) * d = -(a.num * d) /\ (-n) * a.den = -(n * a.den)
  BY <1>1
<1> QED BY <1>1, <1>2, <1>3 DEF Is, Fractions

LEMMA SizeIs ==
    ASSUME NEW a, NEW n, NEW d, Is(a, n, d)
    PROVE  Is(Size(a), Absolute(n), d)
<1>1. n \in Int /\ d \in Nat \ {0}
  BY DEF Is
<1>2. a \prec Zero <=> n < 0
  BY <1>1, UnitsAre, LessIs
<1> QED BY <1>2, NegativeIs DEF Size, Absolute

LEMMA InvertedIs ==
    ASSUME NEW b, NEW m, NEW e, Is(b, m, e), Zero \prec b
    PROVE  m \in Nat \ {0} /\ Is(Inverted(b), e, m)
<1>1. m > 0 /\ m \in Int /\ e \in Nat \ {0} /\ b.num \in Int /\ b.den \in Nat \ {0}
  BY UnitsAre, LessIs DEF Is, Fractions
<1>2. b.num > 0
  <2>1. Zero \prec b <=> 0 < b.num
    BY IsSelf, UnitsAre, LessIs, <1>1 DEF Is
  <2> QED BY <2>1
<1>3. Inverted(b) = [num |-> b.den, den |-> b.num]
  BY <1>2 DEF Inverted
<1>4. b.den * m = e * b.num
  BY <1>1 DEF Is
<1> QED BY <1>1, <1>2, <1>3, <1>4 DEF Is, Fractions

(* Fractions are ordered and added as the numbers they are.                *)
LEMMA CommonFour ==
    ASSUME NEW a \in Fractions, NEW b \in Fractions, NEW c \in Fractions, NEW e \in Fractions
    PROVE  \E d \in Nat \ {0}, n, m, l, o \in Int :
              Is(a, n, d) /\ Is(b, m, d) /\ Is(c, l, d) /\ Is(e, o, d)
<1>1. Is(a, a.num, a.den)
  BY IsSelf
<1>2. PICK k1 \in Nat \ {0}, m1 \in Int : Is(a, a.num * k1, a.den * k1) /\ Is(b, m1, a.den * k1)
  BY <1>1, Common
<1> DEFINE n1 == a.num * k1
           d1 == a.den * k1
<1>3. Is(a, n1, d1) /\ Is(b, m1, d1)
  BY <1>2
<1> HIDE DEF n1, d1
<1>4. PICK k2 \in Nat \ {0}, l2 \in Int : Is(b, m1 * k2, d1 * k2) /\ Is(c, l2, d1 * k2)
  BY <1>3, Common
<1> DEFINE n2 == n1 * k2
           m2 == m1 * k2
           d2 == d1 * k2
<1>5. Is(a, n2, d2) /\ Is(b, m2, d2) /\ Is(c, l2, d2)
  BY <1>3, <1>4, IsScaled
<1> HIDE DEF n2, m2, d2
<1>6. PICK k3 \in Nat \ {0}, o3 \in Int : Is(c, l2 * k3, d2 * k3) /\ Is(e, o3, d2 * k3)
  BY <1>5, Common
<1> DEFINE n3 == n2 * k3
           m3 == m2 * k3
           l3 == l2 * k3
           d3 == d2 * k3
<1>7. Is(a, n3, d3) /\ Is(b, m3, d3) /\ Is(c, l3, d3) /\ Is(e, o3, d3)
  BY <1>5, <1>6, IsScaled
<1> HIDE DEF n3, m3, l3, d3
<1>8. d3 \in Nat \ {0} /\ n3 \in Int /\ m3 \in Int /\ l3 \in Int /\ o3 \in Int
  BY <1>7 DEF Is
<1> QED BY <1>7, <1>8

(* Fractions are closed under the operations.                              *)
LEMMA FractionsClosed ==
    ASSUME NEW a \in Fractions, NEW b \in Fractions
    PROVE  /\ a \oplus b \in Fractions /\ a \ominus b \in Fractions
           /\ a \otimes b \in Fractions
           /\ Negative(a) \in Fractions /\ Size(a) \in Fractions
           /\ Lesser(a, b) \in Fractions /\ Greater(a, b) \in Fractions
           /\ Zero \in Fractions /\ One \in Fractions
           /\ Zero \prec b => Inverted(b) \in Fractions /\ a \oslash b \in Fractions
<1>1. PICK d \in Nat \ {0}, n, m, l, o \in Int : Is(a, n, d) /\ Is(b, m, d)
  BY CommonFour
<1>2. Zero \in Fractions /\ One \in Fractions
  BY UnitsAre DEF Is
<1>3. /\ Is(a \oplus b, n + m, d) /\ Is(a \ominus b, n - m, d) /\ Is(a \otimes b, n * m, d * d)
      /\ Is(Negative(a), -n, d) /\ Is(Size(a), Absolute(n), d)
  BY <1>1, PlusIs, TimesIs, NegativeIs, SizeIs
<1>4. ASSUME Zero \prec b PROVE Inverted(b) \in Fractions /\ a \oslash b \in Fractions
  <2>1. Is(Inverted(b), d, m)
    BY <1>1, <1>4, InvertedIs
  <2>2. Is(a \otimes Inverted(b), n * d, d * m)
    BY <1>1, <2>1, TimesIs
  <2> QED BY <2>1, <2>2 DEF Is, \oslash
<1> QED BY <1>2, <1>3, <1>4 DEF Is, Lesser, Greater

(* They are totally ordered.                                               *)
LEMMA LessOrders ==
    ASSUME NEW a \in Fractions, NEW b \in Fractions, NEW c \in Fractions
    PROVE  /\ a \preceq a
           /\ a \preceq b /\ b \preceq c => a \preceq c
           /\ a \prec b <=> ~ (b \preceq a)
           /\ a \preceq b \/ b \preceq a
           /\ a \prec b => a \preceq b
<1>1. PICK d \in Nat \ {0}, n, m, l, o \in Int : Is(a, n, d) /\ Is(b, m, d) /\ Is(c, l, d)
  BY CommonFour
<1>2. /\ a \preceq a <=> n <= n
      /\ a \preceq b <=> n <= m
      /\ b \preceq c <=> m <= l
      /\ a \preceq c <=> n <= l
      /\ b \preceq a <=> m <= n
      /\ a \prec b <=> n < m
  BY <1>1, LessIs
<1> QED BY <1>2

(* Laws of addition and multiplication.                                    *)
LEMMA PlusMonotone ==
    ASSUME NEW a \in Fractions, NEW b \in Fractions, NEW c \in Fractions, NEW e \in Fractions,
           a \preceq b, c \preceq e
    PROVE  a \oplus c \preceq b \oplus e
<1>1. PICK d \in Nat \ {0}, n, m, l, o \in Int :
         Is(a, n, d) /\ Is(b, m, d) /\ Is(c, l, d) /\ Is(e, o, d)
  BY CommonFour
<1>2. Is(a \oplus c, n + l, d) /\ Is(b \oplus e, m + o, d)
  BY <1>1, PlusIs
<1>3. n <= m /\ l <= o
  BY <1>1, LessIs
<1>4. n + l <= m + o
  BY <1>3
<1> QED BY <1>2, <1>4, LessIs

LEMMA PlusSwaps ==
    ASSUME NEW a \in Fractions, NEW b \in Fractions, NEW c \in Fractions, NEW e \in Fractions
    PROVE  (a \oplus b) \oplus (c \oplus e) = (a \oplus c) \oplus (b \oplus e)
<1> DEFINE left == (a \oplus b) \oplus (c \oplus e)
           right == (a \oplus c) \oplus (b \oplus e)
<1>1. PICK d \in Nat \ {0}, n, m, l, o \in Int :
         Is(a, n, d) /\ Is(b, m, d) /\ Is(c, l, d) /\ Is(e, o, d)
  BY CommonFour
<1>2. /\ Is(a \oplus b, n + m, d) /\ Is(c \oplus e, l + o, d)
      /\ Is(a \oplus c, n + l, d) /\ Is(b \oplus e, m + o, d)
  BY <1>1, PlusIs
<1>3. /\ Is(left, (n + m) + (l + o), d) /\ Lowest(left)
      /\ Is(right, (n + l) + (m + o), d) /\ Lowest(right)
  BY <1>2, PlusIs
<1> DEFINE z == (n + m) + (l + o)
<1>4. (n + l) + (m + o) = z
  OBVIOUS
<1>5. Is(left, z, d) /\ Is(right, z, d)
  BY <1>3, <1>4
<1> HIDE DEF z, left, right
<1>6. left = right
  BY <1>3, <1>5, LowestSame
<1> QED BY <1>6 DEF left, right

LEMMA TimesDistributes ==
    ASSUME NEW a \in Fractions, NEW b \in Fractions, NEW k \in Fractions
    PROVE  (a \oplus b) \otimes k = (a \otimes k) \oplus (b \otimes k)
<1> DEFINE left == (a \oplus b) \otimes k
           right == (a \otimes k) \oplus (b \otimes k)
<1>1. PICK d \in Nat \ {0}, n, m, l, o \in Int : Is(a, n, d) /\ Is(b, m, d) /\ Is(k, l, d)
  BY CommonFour
<1>2. Is(a \oplus b, n + m, d) /\ Is(a \otimes k, n * l, d * d) /\ Is(b \otimes k, m * l, d * d)
  BY <1>1, PlusIs, TimesIs
<1>3. Is(left, (n + m) * l, d * d) /\ Lowest(left)
  BY <1>1, <1>2, TimesIs
<1>4. Is(right, n * l + m * l, d * d) /\ Lowest(right)
  BY <1>2, PlusIs
<1>5. (n + m) * l = n * l + m * l
  BY Distributes
<1> HIDE DEF left, right
<1>6. left = right
  BY <1>3, <1>4, <1>5, LowestSame
<1> QED BY <1>6 DEF left, right

LEMMA TimesMonotone ==
    ASSUME NEW a \in Fractions, NEW b \in Fractions, NEW k \in Fractions,
           a \preceq b, Zero \preceq k
    PROVE  a \otimes k \preceq b \otimes k
<1>1. PICK d \in Nat \ {0}, n, m, l, o \in Int : Is(a, n, d) /\ Is(b, m, d) /\ Is(k, l, d)
  BY CommonFour
<1>2. n <= m /\ 0 <= l
  BY <1>1, LessIs, UnitsAre
<1>3. n * l <= m * l
  <2>1. CASE l = 0
    BY <2>1
  <2>2. CASE l # 0
    BY <1>2, <2>2, Scales
  <2> QED BY <2>1, <2>2
<1>4. Is(a \otimes k, n * l, d * d) /\ Is(b \otimes k, m * l, d * d)
  BY <1>1, TimesIs
<1> QED BY <1>3, <1>4, LessIs

LEMMA TimesCommutes ==
    ASSUME NEW a \in Fractions, NEW b \in Fractions, NEW c \in Fractions
    PROVE  /\ a \otimes b = b \otimes a
           /\ (a \otimes b) \otimes c = a \otimes (b \otimes c)
<1> DEFINE ab == a \otimes b
           ba == b \otimes a
           left == ab \otimes c
           right == a \otimes (b \otimes c)
<1>1. PICK d \in Nat \ {0}, n, m, l, o \in Int : Is(a, n, d) /\ Is(b, m, d) /\ Is(c, l, d)
  BY CommonFour
<1>2. Is(ab, n * m, d * d) /\ Is(ba, m * n, d * d) /\ Is(b \otimes c, m * l, d * d)
      /\ Lowest(ab) /\ Lowest(ba)
  BY <1>1, TimesIs
<1>3. n * m = m * n /\ (n * m) * l = n * (m * l) /\ (d * d) * d = d * (d * d)
  BY Regroups
<1>4. Is(left, (n * m) * l, (d * d) * d) /\ Lowest(left)
  BY <1>1, <1>2, TimesIs
<1>5. Is(right, n * (m * l), d * (d * d)) /\ Lowest(right)
  BY <1>1, <1>2, TimesIs
<1> HIDE DEF ab, ba, left, right
<1>6. ab = ba
  BY <1>2, <1>3, LowestSame
<1>7. left = right
  BY <1>3, <1>4, <1>5, LowestSame
<1> QED BY <1>6, <1>7 DEF ab, ba, left, right

(* One step of a comparison of sums.                                       *)
LEMMA StepCompares ==
    ASSUME NEW h \in Fractions, NEW f \in Fractions, NEW g \in Fractions,
           NEW H \in Fractions, NEW F \in Fractions, NEW G \in Fractions, NEW k \in Fractions,
           h \preceq f \oplus (g \otimes k), H \preceq F \oplus (G \otimes k)
    PROVE  h \oplus H \preceq (f \oplus F) \oplus ((g \oplus G) \otimes k)
<1> DEFINE x == g \otimes k
           y == G \otimes k
<1>1. x \in Fractions /\ y \in Fractions /\ f \oplus x \in Fractions /\ F \oplus y \in Fractions
  BY FractionsClosed
<1>2. (g \oplus G) \otimes k = x \oplus y
  BY TimesDistributes
<1> HIDE DEF x, y
<1>3. h \oplus H \preceq (f \oplus x) \oplus (F \oplus y)
  BY <1>1, PlusMonotone DEF x, y
<1>4. (f \oplus x) \oplus (F \oplus y) = (f \oplus F) \oplus (x \oplus y)
  BY <1>1, PlusSwaps
<1> QED BY <1>2, <1>3, <1>4

(* Sums of fractions over finite sets, as Total adds them.                 *)
AddOver(w, S) == FoldFunctionOnSet(LAMBDA a, b : a \oplus b, Zero, w, S)

LEMMA TotalIs == ASSUME NEW f PROVE Total(f) = AddOver(f, DOMAIN f)
BY DEF Total, FoldFunction, AddOver

Adds(g, w, S) ==
    g = [s \in SUBSET S |->
            IF s = {} THEN Zero ELSE w[Chosen(s)] \oplus g[s \ {Chosen(s)}]]

LEMMA AddIsFold ==
    ASSUME NEW w, NEW S
    PROVE  AddOver(w, S) = (CHOOSE g : Adds(g, w, S))[S]
BY DEF AddOver, FoldFunctionOnSet, MapThenFoldSet, Adds, Chosen

(* Such sums over two sets agree on the subsets of both.                       *)
LEMMA AddsAgree ==
    ASSUME NEW w, NEW S, IsFiniteSet(S), NEW T, NEW g, NEW h,
           Adds(g, w, S), Adds(h, w, T), NEW r \in (SUBSET S) \cap (SUBSET T)
    PROVE  g[r] = h[r]
<1> DEFINE Bad == {s \in (SUBSET S) \cap (SUBSET T) : g[s] # h[s]}
<1> SUFFICES ASSUME Bad # {} PROVE FALSE
  OBVIOUS
<1>1. \A s \in Bad : IsFiniteSet(s)
  BY FS_Subset
<1>2. PICK s \in Bad : \A t \in Bad : t \subseteq s => t = s
  <2> HIDE DEF Bad
  <2> QED BY <1>1, Smallest
<1>3. s \in SUBSET S /\ s \in SUBSET T /\ g[s] # h[s]
  OBVIOUS
<1>4. s # {}
  BY <1>3 DEF Adds
<1> DEFINE t == s \ {Chosen(s)}
<1>5. t # s /\ t \subseteq s /\ t \in (SUBSET S) \cap (SUBSET T)
  BY <1>3, <1>4, ChosenIn
<1>6. g[t] = h[t]
  BY <1>2, <1>5
<1>7. g[s] = w[Chosen(s)] \oplus g[t] /\ h[s] = w[Chosen(s)] \oplus h[t]
  BY <1>3, <1>4 DEF Adds
<1> QED
  BY <1>3, <1>6, <1>7

LEMMA AddsExist ==
    ASSUME NEW w, NEW S, IsFiniteSet(S)
    PROVE  \E g : Adds(g, w, S)
<1> DEFINE Bad == {s \in SUBSET S : ~ \E g : Adds(g, w, s)}
<1> SUFFICES ASSUME Bad # {} PROVE FALSE
  OBVIOUS
<1>1. \A s \in Bad : IsFiniteSet(s)
  BY FS_Subset
<1>2. PICK s \in Bad : \A t \in Bad : t \subseteq s => t = s
  <2> HIDE DEF Bad
  <2> QED BY <1>1, Smallest
<1> DEFINE H(t) == AddOver(w, t)
           G == [t \in SUBSET s |->
                    IF t = {} THEN Zero ELSE w[Chosen(t)] \oplus H(t \ {Chosen(t)})]
<1>3. ASSUME NEW t \in SUBSET s, t # s
      PROVE  /\ IsFiniteSet(t)
             /\ \E g : Adds(g, w, t) /\ H(t) = g[t]
  <2>1. t \in SUBSET S /\ IsFiniteSet(t)
    BY FS_Subset
  <2>2. \E g : Adds(g, w, t)
    BY <1>2, <1>3, <2>1
  <2>3. Adds(CHOOSE g : Adds(g, w, t), w, t)
    BY <2>2, Zenon
  <2> QED
    BY <2>1, <2>3, AddIsFold
<1>4. ASSUME NEW u \in SUBSET s, u # s
      PROVE  H(u) = G[u]
  <2>1. PICK g : Adds(g, w, u) /\ H(u) = g[u]
    BY <1>3, <1>4
  <2>2. CASE u = {}
    BY <2>1, <2>2 DEF Adds
  <2>3. CASE u # {}
    <3> DEFINE v == u \ {Chosen(u)}
    <3>1. v \in SUBSET u /\ v \in SUBSET s /\ v # s
      BY <1>4, <2>3, ChosenIn
    <3>2. PICK h : Adds(h, w, v) /\ H(v) = h[v]
      BY <1>3, <3>1
    <3>3. g[v] = h[v]
      <4>1. IsFiniteSet(u) /\ v \in (SUBSET u) \cap (SUBSET v)
        BY <1>3, <1>4, <3>1
      <4> HIDE DEF v
      <4> QED
        BY <2>1, <3>2, <4>1, AddsAgree
    <3>4. g[u] = w[Chosen(u)] \oplus g[v]
      BY <2>1, <2>3 DEF Adds
    <3> QED
      BY <2>1, <2>3, <3>2, <3>3, <3>4
  <2> QED
    BY <2>2, <2>3
<1>5. Adds(G, w, s)
  <2> SUFFICES ASSUME NEW t \in SUBSET s, t # {}
               PROVE  H(t \ {Chosen(t)}) = G[t \ {Chosen(t)}]
    BY DEF Adds
  <2>1. t \ {Chosen(t)} \in SUBSET s /\ t \ {Chosen(t)} # s
    BY ChosenIn
  <2> QED
    BY <1>4, <2>1
<1> QED
  BY <1>5

LEMMA AddEmpty == ASSUME NEW w PROVE AddOver(w, {}) = Zero
<1>1. \E g : Adds(g, w, {})
  BY AddsExist, FS_EmptySet
<1>2. Adds(CHOOSE g : Adds(g, w, {}), w, {})
  BY <1>1, Zenon
<1> QED
  BY <1>2, AddIsFold DEF Adds

(* A sum is one term and the sum of the rest.                              *)
LEMMA AddUnfolds ==
    ASSUME NEW w, NEW S, IsFiniteSet(S), S # {}
    PROVE  AddOver(w, S) = w[Chosen(S)] \oplus AddOver(w, S \ {Chosen(S)})
<1> DEFINE T == S \ {Chosen(S)}
           g == CHOOSE g : Adds(g, w, S)
           h == CHOOSE h : Adds(h, w, T)
<1>1. IsFiniteSet(T) /\ T \in (SUBSET S) \cap (SUBSET T)
  BY FS_Subset
<1>2. (\E f : Adds(f, w, S)) /\ (\E f : Adds(f, w, T))
  BY <1>1, AddsExist
<1>3. Adds(g, w, S) /\ Adds(h, w, T)
  <2> HIDE DEF T
  <2> QED
    BY <1>2, Zenon
<1>4. AddOver(w, S) = g[S] /\ AddOver(w, T) = h[T]
  BY AddIsFold, Zenon
<1> HIDE DEF g, h
<1>5. g[T] = h[T]
  <2> HIDE DEF T
  <2>1. T \in (SUBSET S) \cap (SUBSET T)
    BY <1>1
  <2>2. Adds(g, w, S) /\ Adds(h, w, T)
    BY <1>3
  <2> QED
    BY <2>1, <2>2, AddsAgree
<1>6. g[S] = w[Chosen(S)] \oplus g[T]
  BY <1>3 DEF Adds
<1> QED
  BY <1>4, <1>5, <1>6

(* A sum of fractions is a fraction.                                       *)
LEMMA AddType ==
    ASSUME NEW w, NEW S, IsFiniteSet(S), \A x \in S : w[x] \in Fractions
    PROVE  AddOver(w, S) \in Fractions
<1> DEFINE Bad == {s \in SUBSET S : AddOver(w, s) \notin Fractions}
<1> SUFFICES ASSUME Bad # {} PROVE FALSE
  OBVIOUS
<1>1. \A s \in Bad : IsFiniteSet(s)
  BY FS_Subset
<1>2. PICK s \in Bad : \A t \in Bad : t \subseteq s => t = s
  <2> HIDE DEF Bad
  <2> QED BY <1>1, Smallest
<1>3. s # {}
  <2>1. Zero \in Fractions
    BY DEF Zero, Fractions
  <2> QED BY <2>1, AddEmpty
<1> DEFINE t == s \ {Chosen(s)}
<1>4. t \in SUBSET S /\ t # s /\ t \subseteq s /\ Chosen(s) \in S
  BY <1>3, ChosenIn
<1>5. AddOver(w, t) \in Fractions
  BY <1>2, <1>4
<1>6. AddOver(w, s) = w[Chosen(s)] \oplus AddOver(w, t)
  BY <1>1, <1>3, AddUnfolds
<1>7. w[Chosen(s)] \in Fractions
  BY <1>4
<1> QED
  BY <1>5, <1>6, <1>7, FractionsClosed

(* Sums compare as their terms do.                                         *)
LEMMA AddCompares ==
    ASSUME NEW S, IsFiniteSet(S), NEW h, NEW f, NEW g, NEW k \in Fractions,
           \A x \in S : /\ h[x] \in Fractions /\ f[x] \in Fractions /\ g[x] \in Fractions
                        /\ h[x] \preceq f[x] \oplus (g[x] \otimes k)
    PROVE  AddOver(h, S) \preceq AddOver(f, S) \oplus (AddOver(g, S) \otimes k)
<1> DEFINE Good(s) == AddOver(h, s) \preceq AddOver(f, s) \oplus (AddOver(g, s) \otimes k)
           Bad == {s \in SUBSET S : ~ Good(s)}
<1> SUFFICES ASSUME Bad # {} PROVE FALSE
  OBVIOUS
<1>1. \A s \in Bad : IsFiniteSet(s)
  BY FS_Subset
<1>2. PICK s \in Bad : \A t \in Bad : t \subseteq s => t = s
  <2> HIDE DEF Bad
  <2> QED BY <1>1, Smallest
<1>3. s # {}
  <2>1. PICK d \in Nat \ {0}, n, m, l, o \in Int : Is(k, n, d)
    BY CommonFour
  <2>2. Is(Zero, 0, d) /\ Is(Zero \otimes k, 0 * n, d * d)
    BY <2>1, UnitsAre, TimesIs
  <2>3. 0 * n = 0 /\ Is(Zero, 0, d * d)
    BY UnitsAre
  <2>4. Is(Zero \oplus (Zero \otimes k), 0 + 0, d * d)
    BY <2>2, <2>3, PlusIs
  <2>5. Zero \preceq Zero \oplus (Zero \otimes k)
    BY <2>3, <2>4, LessIs
  <2> QED BY <2>5, AddEmpty
<1> DEFINE c == Chosen(s)
           t == s \ {c}
<1>4. t \in SUBSET S /\ t # s /\ t \subseteq s /\ c \in S /\ IsFiniteSet(s) /\ IsFiniteSet(t)
  BY <1>1, <1>3, ChosenIn, FS_Subset
<1>5. Good(t)
  <2> HIDE DEF Good, t
  <2> QED BY <1>2, <1>4
<1>6. /\ AddOver(h, s) = h[c] \oplus AddOver(h, t)
      /\ AddOver(f, s) = f[c] \oplus AddOver(f, t)
      /\ AddOver(g, s) = g[c] \oplus AddOver(g, t)
  BY <1>3, <1>4, AddUnfolds
<1>7. AddOver(h, t) \in Fractions /\ AddOver(f, t) \in Fractions /\ AddOver(g, t) \in Fractions
  <2>1. \A x \in t : h[x] \in Fractions /\ f[x] \in Fractions /\ g[x] \in Fractions
    BY <1>4
  <2> HIDE DEF t
  <2> QED BY <1>4, <2>1, AddType
<1>8. /\ h[c] \in Fractions /\ f[c] \in Fractions /\ g[c] \in Fractions
      /\ h[c] \preceq f[c] \oplus (g[c] \otimes k)
  BY <1>4
<1>9. ~ Good(s)
  OBVIOUS
<1> HIDE DEF c, t
<1>10. h[c] \oplus AddOver(h, t)
         \preceq (f[c] \oplus AddOver(f, t)) \oplus ((g[c] \oplus AddOver(g, t)) \otimes k)
  <2> HIDE DEF Bad
  <2> QED BY <1>5, <1>7, <1>8, StepCompares
<1> QED BY <1>6, <1>9, <1>10

LEMMA PlusAssociates ==
    ASSUME NEW a \in Fractions, NEW b \in Fractions, NEW c \in Fractions
    PROVE  a \oplus (b \oplus c) = (a \oplus b) \oplus c
<1> DEFINE left == a \oplus (b \oplus c)
           right == (a \oplus b) \oplus c
<1>1. PICK d \in Nat \ {0}, n, m, l, o \in Int : Is(a, n, d) /\ Is(b, m, d) /\ Is(c, l, d)
  BY CommonFour
<1>2. Is(a \oplus b, n + m, d) /\ Is(b \oplus c, m + l, d)
  BY <1>1, PlusIs
<1>3. /\ Is(left, n + (m + l), d) /\ Lowest(left)
      /\ Is(right, (n + m) + l, d) /\ Lowest(right)
  BY <1>1, <1>2, PlusIs
<1>4. n + (m + l) = (n + m) + l
  OBVIOUS
<1> HIDE DEF left, right
<1>5. left = right
  BY <1>3, <1>4, LowestSame
<1> QED BY <1>5 DEF left, right

LEMMA NothingMore ==
    ASSUME NEW a \in Fractions, NEW b \in Fractions
    PROVE  /\ a \oplus (b \otimes Zero) \preceq a
           /\ a \preceq a \oplus (b \otimes Zero)
<1>1. PICK d \in Nat \ {0}, n, m, l, o \in Int : Is(a, n, d) /\ Is(b, m, d)
  BY CommonFour
<1> DEFINE nothing == 0
<1>2. Is(Zero, nothing, d)
  BY UnitsAre
<1>3. nothing \in Int /\ m * nothing = nothing
  OBVIOUS
<1> HIDE DEF nothing
<1>4. Is(b \otimes Zero, m * nothing, d * d)
  BY <1>1, <1>2, TimesIs
<1>5. Is(a, n * d, d * d) /\ n * d \in Int
  BY <1>1, IsScaled
<1> DEFINE nd == n * d
<1>6. Is(a \oplus (b \otimes Zero), nd + nothing, d * d)
  BY <1>3, <1>4, <1>5, PlusIs
<1>7. nd + nothing <= nd /\ nd <= nd + nothing
  BY <1>5 DEF nothing
<1> HIDE DEF nd
<1> QED BY <1>5, <1>6, <1>7, LessIs DEF nd

LEMMA SizePositive ==
    ASSUME NEW a \in Fractions
    PROVE  Zero \preceq Size(a) /\ Size(a) \preceq Size(a) \oplus (Size(a) \otimes One)
<1>1. PICK d \in Nat \ {0}, n, m, l, o \in Int : Is(a, n, d)
  BY CommonFour
<1>2. Is(Size(a), Absolute(n), d) /\ Absolute(n) \in Nat
  BY <1>1, SizeIs DEF Absolute
<1> DEFINE x == Absolute(n)
           y == x * d
<1>3. x \in Nat /\ y \in Nat
  BY <1>2
<1>4. Zero \preceq Size(a)
  BY <1>2, UnitsAre, LessIs
<1>5. Is(Size(a), y, d * d) /\ Is(Size(a) \otimes One, y, d * d)
  <2> HIDE DEF x
  <2> QED BY <1>2, UnitsAre, IsScaled, TimesIs DEF x
<1> HIDE DEF y
<1>6. Is(Size(a) \oplus (Size(a) \otimes One), y + y, d * d) /\ y <= y + y
  BY <1>3, <1>5, PlusIs
<1> QED BY <1>4, <1>5, <1>6, LessIs

(* One time more than k - 1 times.                                         *)
LEMMA OneMoreTime ==
    ASSUME NEW a \in Fractions, NEW k \in Fractions
    PROVE  /\ a \oplus (a \otimes (k \ominus One)) \preceq a \otimes k
           /\ a \otimes k \preceq a \oplus (a \otimes (k \ominus One))
<1>1. PICK d \in Nat \ {0}, n, m, l, o \in Int : Is(a, n, d) /\ Is(k, m, d)
  BY CommonFour
<1>2. Is(k \ominus One, m - d, d)
  BY <1>1, UnitsAre, PlusIs
<1>3. Is(a \otimes (k \ominus One), n * (m - d), d * d) /\ Is(a \otimes k, n * m, d * d)
  BY <1>1, <1>2, TimesIs
<1>4. Is(a, n * d, d * d)
  BY <1>1, IsScaled
<1>5. Is(a \oplus (a \otimes (k \ominus One)), n * d + n * (m - d), d * d)
  BY <1>3, <1>4, PlusIs
<1>6. n * d + n * (m - d) = n * m
  OBVIOUS
<1> QED BY <1>3, <1>5, <1>6, LessIs

(* The size of a sum is at most the sum of the sizes.                      *)
LEMMA SizeTriangle ==
    ASSUME NEW a \in Fractions, NEW b \in Fractions, NEW k \in Fractions, Zero \preceq k
    PROVE  Size(a \oplus (b \otimes k)) \preceq Size(a) \oplus (Size(b) \otimes k)
<1>1. PICK d \in Nat \ {0}, n, m, l, o \in Int : Is(a, n, d) /\ Is(b, m, d) /\ Is(k, l, d)
  BY CommonFour
<1>2. Is(b \otimes k, m * l, d * d) /\ Is(a, n * d, d * d)
  BY <1>1, TimesIs, IsScaled
<1>3. Is(a \oplus (b \otimes k), n * d + m * l, d * d)
  BY <1>2, PlusIs
<1>4. Is(Size(a \oplus (b \otimes k)), Absolute(n * d + m * l), d * d)
  BY <1>3, SizeIs
<1>5. Is(Size(a), Absolute(n * d), d * d) /\ Is(Size(b), Absolute(m), d)
  BY <1>1, <1>2, SizeIs
<1>6. Is(Size(b) \otimes k, Absolute(m) * l, d * d)
  BY <1>1, <1>5, TimesIs
<1>7. Is(Size(a) \oplus (Size(b) \otimes k), Absolute(n * d) + Absolute(m) * l, d * d)
  BY <1>5, <1>6, PlusIs
<1>8. Absolute(n * d + m * l) <= Absolute(n * d) + Absolute(m) * l
  <2>1. 0 <= l
    BY <1>1, UnitsAre, LessIs
  <2>2. Absolute(m) * l = Absolute(m * l)
    <3>1. m < 0 => m * l <= 0
      BY <2>1
    <3>2. m >= 0 => m * l >= 0
      BY <2>1
    <3>3. (-m) * l = -(m * l)
      OBVIOUS
    <3>4. m * l \in Int
      OBVIOUS
    <3> QED BY <3>1, <3>2, <3>3, <3>4 DEF Absolute
  <2> DEFINE x == n * d
             y == m * l
  <2>3. x \in Int /\ y \in Int
    OBVIOUS
  <2> HIDE DEF x, y
  <2>4. Absolute(x + y) <= Absolute(x) + Absolute(y)
    BY <2>3 DEF Absolute
  <2> QED BY <2>2, <2>4 DEF x, y
<1> QED BY <1>4, <1>7, <1>8, LessIs

(* What is left of a limit, shared in proportion.                          *)
LEMMA FillsRoom ==
    ASSUME NEW r \in Fractions, NEW l \in Fractions, NEW g \in Fractions, Zero \prec g
    PROVE  r \oplus (g \otimes ((l \ominus r) \oslash g)) \preceq l
<1>1. PICK d \in Nat \ {0}, n, m, p, o \in Int : Is(r, n, d) /\ Is(l, m, d) /\ Is(g, p, d)
  BY CommonFour
<1>2. p \in Nat \ {0} /\ Is(Inverted(g), d, p)
  BY <1>1, InvertedIs
<1>3. Is(l \ominus r, m - n, d)
  BY <1>1, PlusIs
<1>4. Is((l \ominus r) \oslash g, (m - n) * d, d * p)
  BY <1>2, <1>3, TimesIs DEF \oslash
<1> DEFINE z == p * ((m - n) * d)
           e == d * (d * p)
<1>5. Is(g \otimes ((l \ominus r) \oslash g), z, e)
  BY <1>1, <1>4, TimesIs
<1>6. d * p \in Nat \ {0}
  BY <1>2
<1>7. Is(r, n * (d * p), e) /\ Is(l, m * (d * p), e)
  BY <1>1, <1>6, IsScaled
<1>8. n * (d * p) + z = m * (d * p)
  <2>1. p * ((m - n) * d) = (m - n) * (d * p)
    BY <1>2
  <2>2. (m - n) * (d * p) = m * (d * p) - n * (d * p)
    BY <1>6, Distributes
  <2> QED BY <2>1, <2>2
<1> HIDE DEF z, e
<1>9. Is(r \oplus (g \otimes ((l \ominus r) \oslash g)), n * (d * p) + z, e)
  BY <1>5, <1>7, PlusIs
<1>10. n * (d * p) + z <= m * (d * p)
  BY <1>6, <1>8
<1> QED BY <1>7, <1>9, <1>10, LessIs

LEMMA PlusItself ==
    ASSUME NEW x \in Fractions, x \preceq x \oplus (x \otimes One)
    PROVE  Zero \preceq x
<1>1. PICK d \in Nat \ {0}, n, m, l, o \in Int : Is(x, n, d)
  BY CommonFour
<1>2. Is(x, n * d, d * d) /\ Is(x \otimes One, n * d, d * d)
  BY <1>1, UnitsAre, IsScaled, TimesIs
<1>3. Is(x \oplus (x \otimes One), n * d + n * d, d * d)
  BY <1>2, PlusIs
<1>4. n * d <= n * d + n * d
  BY <1>2, <1>3, LessIs
<1>5. 0 * d <= n * d
  BY <1>4
<1>6. 0 <= n
  BY <1>5, Scales
<1> QED BY <1>1, <1>6, UnitsAre, LessIs

(* A position that is reduced, and no further than to nothing.             *)
LEMMA ReducesSize ==
    ASSUME NEW p \in Fractions, NEW t \in Fractions
    PROVE  LET r == IF Zero \prec p /\ t \prec Zero THEN Greater(t, Negative(p))
                    ELSE IF p \prec Zero /\ Zero \prec t THEN Lesser(t, Negative(p))
                    ELSE Zero
           IN  /\ r \in Fractions
               /\ Size(p \oplus r) \preceq Size(p)
               /\ \A g \in Fractions : t = g \ominus p => Size(p \oplus r) \preceq Size(g)
<1> DEFINE r == IF Zero \prec p /\ t \prec Zero THEN Greater(t, Negative(p))
                ELSE IF p \prec Zero /\ Zero \prec t THEN Lesser(t, Negative(p))
                ELSE Zero
<1> SUFFICES ASSUME NEW g \in Fractions
             PROVE  /\ r \in Fractions
                    /\ Size(p \oplus r) \preceq Size(p)
                    /\ t = g \ominus p => Size(p \oplus r) \preceq Size(g)
  OBVIOUS
<1>1. PICK d \in Nat \ {0}, n, m, l, o \in Int : Is(p, n, d) /\ Is(t, m, d) /\ Is(g, l, d)
  BY CommonFour
<1>2. /\ Zero \prec p <=> 0 < n
      /\ p \prec Zero <=> n < 0
      /\ t \prec Zero <=> m < 0
      /\ Zero \prec t <=> 0 < m
      /\ t \preceq Negative(p) <=> m <= -n
      /\ Is(Negative(p), -n, d)
      /\ Is(Zero, 0, d)
  BY <1>1, UnitsAre, NegativeIs, LessIs
<1> DEFINE k == IF 0 < n /\ m < 0 THEN (IF m <= -n THEN -n ELSE m)
                ELSE IF n < 0 /\ 0 < m THEN (IF m <= -n THEN m ELSE -n)
                ELSE 0
<1>3. Is(r, k, d)
  <2>1. CASE 0 < n /\ m < 0
    <3>1. r = Greater(t, Negative(p)) /\ k = IF m <= -n THEN -n ELSE m
      BY <1>2, <2>1
    <3> HIDE DEF r, k
    <3> QED BY <1>1, <1>2, <3>1 DEF Greater
  <2>2. CASE ~(0 < n /\ m < 0) /\ n < 0 /\ 0 < m
    <3>1. r = Lesser(t, Negative(p)) /\ k = IF m <= -n THEN m ELSE -n
      BY <1>2, <2>2
    <3> HIDE DEF r, k
    <3> QED BY <1>1, <1>2, <3>1 DEF Lesser
  <2>3. CASE ~(0 < n /\ m < 0) /\ ~(n < 0 /\ 0 < m)
    <3>1. r = Zero /\ k = 0
      BY <1>2, <2>3
    <3> HIDE DEF r, k
    <3> QED BY <1>2, <3>1
  <2> QED BY <2>1, <2>2, <2>3
<1> HIDE DEF r
<1>4. k \in Int
  OBVIOUS
<1>5. Is(Size(p \oplus r), Absolute(n + k), d)
      /\ Is(Size(p), Absolute(n), d) /\ Is(Size(g), Absolute(l), d)
  <2> HIDE DEF k
  <2> QED BY <1>1, <1>3, PlusIs, SizeIs
<1>6. Absolute(n + k) <= Absolute(n)
  BY DEF Absolute
<1>7. m = l - n => Absolute(n + k) <= Absolute(l)
  BY DEF Absolute
<1>8. t = g \ominus p => m = l - n
  <2> SUFFICES ASSUME t = g \ominus p PROVE m = l - n
    OBVIOUS
  <2>1. Is(t, l - n, d) /\ Is(t, m, d)
    BY <1>1, PlusIs
  <2>2. m <= l - n /\ l - n <= m
    <3>1. t \preceq t <=> m <= l - n
      BY <2>1, LessIs
    <3>2. t \preceq t <=> l - n <= m
      BY <2>1, LessIs
    <3> QED BY <3>1, <3>2, LessOrders
  <2> QED BY <2>2
<1> HIDE DEF k
<1>9. Size(p \oplus r) \preceq Size(p)
  BY <1>5, <1>6, LessIs
<1>10. t = g \ominus p => Size(p \oplus r) \preceq Size(g)
  BY <1>5, <1>7, <1>8, LessIs
<1> QED BY <1>3, <1>9, <1>10 DEF Is

LEMMA SizeTriangleOne ==
    ASSUME NEW a \in Fractions, NEW b \in Fractions
    PROVE  Size(a \oplus b) \preceq Size(a) \oplus (Size(b) \otimes One)
<1>1. PICK d \in Nat \ {0}, n, m, l, o \in Int : Is(a, n, d) /\ Is(b, m, d)
  BY CommonFour
<1>2. Is(a \oplus b, n + m, d)
  BY <1>1, PlusIs
<1>3. /\ Is(Size(a \oplus b), Absolute(n + m), d)
      /\ Is(Size(a), Absolute(n), d) /\ Is(Size(b), Absolute(m), d)
  BY <1>1, <1>2, SizeIs
<1>4. Absolute(n) \in Nat /\ Absolute(m) \in Nat /\ Absolute(n + m) \in Nat
      /\ Absolute(n + m) <= Absolute(n) + Absolute(m)
  BY DEF Absolute
<1> DEFINE x == Absolute(n)
           y == Absolute(m)
           z == Absolute(n + m)
<1>5. x \in Nat /\ y \in Nat /\ z \in Nat /\ z <= x + y
  BY <1>4
<1>6. /\ Is(Size(a \oplus b), z, d) /\ Is(Size(a), x, d) /\ Is(Size(b), y, d)
  BY <1>3
<1> HIDE DEF x, y, z
<1>7. /\ Is(Size(a \oplus b), z * d, d * d) /\ Is(Size(a), x * d, d * d)
      /\ Is(Size(b) \otimes One, y * d, d * d)
  BY <1>6, UnitsAre, IsScaled, TimesIs
<1>8. Is(Size(a) \oplus (Size(b) \otimes One), x * d + y * d, d * d)
  BY <1>7, PlusIs
<1>9. z * d <= x * d + y * d
  <2>1. z * d <= (x + y) * d
    BY <1>5, Scales
  <2> QED BY <1>5, <2>1, Distributes
<1> QED BY <1>7, <1>8, <1>9, LessIs

LEMMA PlusNegative ==
    ASSUME NEW a \in Fractions, NEW b \in Fractions, NEW c \in Fractions,
           a \preceq c, b \preceq Zero
    PROVE  a \oplus (b \otimes One) \preceq c
<1>1. PICK d \in Nat \ {0}, n, m, l, o \in Int : Is(a, n, d) /\ Is(b, m, d) /\ Is(c, l, d)
  BY CommonFour
<1>2. n <= l /\ m <= 0
  BY <1>1, UnitsAre, LessIs
<1>3. /\ Is(b \otimes One, m * d, d * d) /\ Is(a, n * d, d * d) /\ Is(c, l * d, d * d)
  BY <1>1, UnitsAre, IsScaled, TimesIs
<1>4. Is(a \oplus (b \otimes One), n * d + m * d, d * d)
  BY <1>3, PlusIs
<1>5. n * d + m * d <= l * d
  <2>1. (n + m) * d <= l * d
    BY <1>2, Scales
  <2> QED BY <2>1, Distributes
<1> QED BY <1>3, <1>4, <1>5, LessIs

LEMMA MinusSign ==
    ASSUME NEW a \in Fractions, NEW b \in Fractions
    PROVE  a \ominus b \in Fractions /\ (a \ominus b \prec Zero <=> a \prec b)
<1>1. PICK d \in Nat \ {0}, n, m, l, o \in Int : Is(a, n, d) /\ Is(b, m, d)
  BY CommonFour
<1>2. Is(a \ominus b, n - m, d)
  BY <1>1, PlusIs
<1>3. n - m \in Int /\ 0 \in Int
  BY <1>1
<1>4. Is(Zero, 0, d)
  BY <1>1, UnitsAre
<1>5. (a \prec b <=> n < m) /\ (a \ominus b \prec Zero <=> n - m < 0)
  BY <1>1, <1>2, <1>3, <1>4, LessIs
<1>6. n < m <=> n - m < 0
  BY <1>1
<1> QED BY <1>2, <1>5, <1>6 DEF Is

LEMMA QuotientSign ==
    ASSUME NEW a \in Fractions, NEW b \in Fractions, Zero \preceq a, Zero \prec b
    PROVE  a \oslash b \in Fractions /\ Zero \preceq a \oslash b
<1>1. PICK d \in Nat \ {0}, n, m, l, o \in Int : Is(a, n, d) /\ Is(b, m, d)
  BY CommonFour
<1>2. 0 <= n /\ m \in Nat \ {0} /\ Is(Inverted(b), d, m)
  BY <1>1, UnitsAre, LessIs, InvertedIs
<1>3. Is(a \oslash b, n * d, d * m)
  BY <1>1, <1>2, TimesIs DEF \oslash
<1>4. 0 <= n * d /\ d * m \in Nat \ {0}
  BY <1>2
<1> QED BY <1>3, <1>4, UnitsAre, LessIs DEF Is

-----------------------------------------------------------------------------
(* 3. Fractions of one value.                                              *)

(* Two fractions of the same value.                                        *)
Even(a, b) == a \preceq b /\ b \preceq a

LEMMA EvenIs ==
    ASSUME NEW a \in Fractions, NEW b \in Fractions, NEW n, NEW d, Is(a, n, d)
    PROVE  Even(a, b) <=> Is(b, n, d)
<1>1. ASSUME Is(b, n, d) PROVE Even(a, b)
  <2>1. n \in Int
    BY DEF Is
  <2>2. n <= n
    BY <2>1
  <2> QED BY <1>1, <2>2, LessIs DEF Even
<1>2. ASSUME Even(a, b) PROVE Is(b, n, d)
  <2> DEFINE x == a.num
             p == a.den
             y == b.num
             q == b.den
  <2>1. /\ x \in Int /\ y \in Int /\ p \in Nat \ {0} /\ q \in Nat \ {0}
        /\ n \in Int /\ d \in Nat \ {0}
    BY IsParts DEF Is
  <2>2. x * q <= y * p /\ y * p <= x * q
    BY <1>2 DEF Even, \preceq
  <2>3. x * d = n * p
    BY DEF Is
  <2> HIDE DEF x, y, p, q
  <2>4. x * q \in Int /\ y * p \in Int
    BY <2>1
  <2>5. x * q = y * p
    BY <2>2, <2>4
  <2>6. (y * d) * p = (n * q) * p
    <3>1. (y * d) * p = (y * p) * d /\ (x * q) * d = (x * d) * q
          /\ (n * p) * q = (n * q) * p
      BY <2>1, Regroups
    <3> QED BY <2>3, <2>5, <3>1
  <2>7. y * d = n * q
    <3>1. y * d \in Int /\ n * q \in Int
      BY <2>1
    <3> DEFINE s == y * d
               t == n * q
    <3> HIDE DEF s, t
    <3>2. s * p = t * p /\ s \in Int /\ t \in Int
      BY <2>6, <3>1 DEF s, t
    <3>3. s = t
      BY <2>1, <3>2, Scales
    <3> QED BY <3>3 DEF s, t
  <2> QED BY <2>1, <2>7 DEF Is, y, q
<1> QED BY <1>1, <1>2

LEMMA EvenOrders ==
    ASSUME NEW a \in Fractions, NEW b \in Fractions, NEW c \in Fractions
    PROVE  /\ Even(a, a)
           /\ Even(a, b) => Even(b, a)
           /\ Even(a, b) /\ Even(b, c) => Even(a, c)
           /\ Even(a, b) /\ Lowest(a) /\ Lowest(b) => a = b
<1>1. Even(a, a) /\ (Even(a, b) => Even(b, a)) /\ (Even(a, b) /\ Even(b, c) => Even(a, c))
  BY LessOrders DEF Even
<1>2. ASSUME Even(a, b), Lowest(a), Lowest(b) PROVE a = b
  <2>1. Is(a, a.num, a.den)
    BY IsSelf
  <2>2. Is(b, a.num, a.den)
    BY <1>2, <2>1, EvenIs
  <2> QED BY <1>2, <2>1, <2>2, LowestSame
<1> QED BY <1>1, <1>2

(* What is computed from values is decided by the values.                  *)
LEMMA EvenComputes ==
    ASSUME NEW a \in Fractions, NEW b \in Fractions, NEW c \in Fractions, NEW e \in Fractions,
           Even(a, b), Even(c, e)
    PROVE  a \oplus c = b \oplus e /\ a \ominus c = b \ominus e /\ a \otimes c = b \otimes e
<1>1. PICK d \in Nat \ {0}, n, m, l, o \in Int : Is(a, n, d) /\ Is(c, m, d)
  BY CommonFour
<1>2. Is(b, n, d) /\ Is(e, m, d)
  BY <1>1, EvenIs
<1>3. /\ Is(a \oplus c, n + m, d) /\ Lowest(a \oplus c)
      /\ Is(b \oplus e, n + m, d) /\ Lowest(b \oplus e)
  BY <1>1, <1>2, PlusIs
<1>4. /\ Is(a \ominus c, n - m, d) /\ Lowest(a \ominus c)
      /\ Is(b \ominus e, n - m, d) /\ Lowest(b \ominus e)
  BY <1>1, <1>2, PlusIs
<1>5. /\ Is(a \otimes c, n * m, d * d) /\ Lowest(a \otimes c)
      /\ Is(b \otimes e, n * m, d * d) /\ Lowest(b \otimes e)
  BY <1>1, <1>2, TimesIs
<1>6. a \oplus c = b \oplus e
  BY <1>3, LowestSame
<1>7. a \ominus c = b \ominus e
  BY <1>4, LowestSame
<1>8. a \otimes c = b \otimes e
  BY <1>5, LowestSame
<1> QED BY <1>6, <1>7, <1>8

LEMMA EvenUnits ==
    ASSUME NEW a \in Fractions
    PROVE  /\ Even(a \otimes One, a) /\ Even(a \oplus Zero, a) /\ Even(a \ominus Zero, a)
           /\ Even(a \otimes Zero, Zero) /\ Even(Zero \otimes a, Zero)
<1> DEFINE n == a.num
           d == a.den
<1>1. Is(a, n, d) /\ n \in Int /\ d \in Nat \ {0}
  BY IsSelf, IsParts
<1>2. Is(One, 1, 1) /\ Is(Zero, 0, 1) /\ Is(Zero, 0, d)
  BY <1>1, UnitsAre
<1> HIDE DEF n, d
<1>3. Is(a \otimes One, n * 1, d * 1) /\ Is(a \otimes Zero, n * 0, d * 1)
      /\ Is(Zero \otimes a, 0 * n, 1 * d)
  BY <1>1, <1>2, TimesIs
<1>4. Is(a \oplus Zero, n + 0, d) /\ Is(a \ominus Zero, n - 0, d)
  BY <1>1, <1>2, PlusIs
<1>5. n * 1 = n /\ d * 1 = d /\ n * 0 = 0 /\ 0 * n = 0 /\ 1 * d = d /\ n + 0 = n /\ n - 0 = n
  BY <1>1
<1>6. Is(a \otimes One, n, d) /\ Is(a \otimes Zero, 0, d) /\ Is(Zero \otimes a, 0, d)
      /\ Is(a \oplus Zero, n, d) /\ Is(a \ominus Zero, n, d)
  BY <1>3, <1>4, <1>5
<1>7. n <= n /\ 0 <= 0
  BY <1>1
<1> QED BY <1>1, <1>2, <1>6, <1>7, LessIs DEF Even

(* A fraction is in the sum of two when either is what the other leaves.   *)
LEMMA LineSolved ==
    ASSUME NEW h \in Fractions, NEW f \in Fractions, NEW g \in Fractions, NEW k \in Fractions
    PROVE  /\ h \preceq f \oplus (g \otimes k) <=> h \oplus (g \otimes Negative(k)) \preceq f
           /\ f \oplus (g \otimes k) \preceq h <=> f \preceq h \oplus (g \otimes Negative(k))
<1>1. PICK d \in Nat \ {0}, n, m, l, o \in Int :
        Is(h, n, d) /\ Is(f, m, d) /\ Is(g, l, d) /\ Is(k, o, d)
  BY CommonFour
<1>2. Is(Negative(k), -o, d)
  BY <1>1, NegativeIs
<1>3. Is(g \otimes k, l * o, d * d) /\ Is(g \otimes Negative(k), l * (-o), d * d)
  BY <1>1, <1>2, TimesIs
<1>4. Is(h, n * d, d * d) /\ Is(f, m * d, d * d)
  BY <1>1, IsScaled
<1>5. Is(f \oplus (g \otimes k), m * d + l * o, d * d)
  BY <1>3, <1>4, PlusIs
<1>6. Is(h \oplus (g \otimes Negative(k)), n * d + l * (-o), d * d)
  BY <1>3, <1>4, PlusIs
<1> DEFINE x == n * d
           y == m * d
           z == l * o
<1>7. x \in Int /\ y \in Int /\ z \in Int /\ l * (-o) = -z
  BY <1>1
<1> HIDE DEF x, y, z
<1>8. (x <= y + z <=> x + (-z) <= y) /\ (y + z <= x <=> y <= x + (-z))
  BY <1>7
<1>9. /\ Is(f \oplus (g \otimes k), y + z, d * d) /\ Is(h, x, d * d) /\ Is(f, y, d * d)
      /\ Is(h \oplus (g \otimes Negative(k)), x + (-z), d * d)
  BY <1>4, <1>5, <1>6, <1>7 DEF x, y, z
<1>10. /\ h \preceq f \oplus (g \otimes k) <=> x <= y + z
       /\ h \oplus (g \otimes Negative(k)) \preceq f <=> x + (-z) <= y
  BY <1>9, LessIs
<1>11. /\ f \oplus (g \otimes k) \preceq h <=> y + z <= x
       /\ f \preceq h \oplus (g \otimes Negative(k)) <=> y <= x + (-z)
  BY <1>9, LessIs
<1> QED BY <1>8, <1>10, <1>11

(* A sum of multiples is the multiple of the sum, and a sum of sums the    *)
(* sum of the sums.                                                        *)
LEMMA AddLinear ==
    ASSUME NEW S, IsFiniteSet(S), NEW h, NEW f, NEW g, NEW k \in Fractions,
           \A x \in S : /\ h[x] \in Fractions /\ f[x] \in Fractions /\ g[x] \in Fractions
                        /\ Even(h[x], f[x] \oplus (g[x] \otimes k))
    PROVE  Even(AddOver(h, S), AddOver(f, S) \oplus (AddOver(g, S) \otimes k))
<1> DEFINE A == AddOver(h, S)
           F == AddOver(f, S)
           B == AddOver(g, S)
           j == Negative(k)
<1>1. A \in Fractions /\ F \in Fractions /\ B \in Fractions /\ j \in Fractions
  BY AddType, FractionsClosed
<1>2. A \preceq F \oplus (B \otimes k)
  BY AddCompares DEF Even
<1>3. F \preceq A \oplus (B \otimes j)
  <2>1. \A x \in S : f[x] \preceq h[x] \oplus (g[x] \otimes j)
    BY LineSolved DEF Even
  <2> HIDE DEF j
  <2> QED BY <1>1, <2>1, AddCompares
<1> HIDE DEF A, F, B
<1>4. F \oplus (B \otimes k) \preceq A
  BY <1>1, <1>3, LineSolved
<1> QED BY <1>2, <1>4 DEF Even, A, F, B

LEMMA AddTimes ==
    ASSUME NEW S, IsFiniteSet(S), NEW h, NEW g, NEW k \in Fractions,
           \A x \in S : /\ h[x] \in Fractions /\ g[x] \in Fractions
                        /\ Even(h[x], g[x] \otimes k)
    PROVE  Even(AddOver(h, S), AddOver(g, S) \otimes k)
<1> DEFINE j == k \ominus One
<1>1. j \in Fractions
  BY FractionsClosed
<1>2. ASSUME NEW a \in Fractions
      PROVE  /\ a \otimes k \in Fractions /\ a \oplus (a \otimes j) \in Fractions
             /\ Even(a \otimes k, a \oplus (a \otimes j))
  <2>1. a \otimes k \in Fractions /\ a \otimes j \in Fractions
    BY <1>1, FractionsClosed
  <2> QED BY <2>1, OneMoreTime, FractionsClosed DEF Even
<1> HIDE DEF j
<1>3. \A x \in S : Even(h[x], g[x] \oplus (g[x] \otimes j))
  <2> SUFFICES ASSUME NEW x \in S PROVE Even(h[x], g[x] \oplus (g[x] \otimes j))
    OBVIOUS
  <2> DEFINE a == g[x]
             b == h[x]
             u == a \otimes k
             v == a \oplus (a \otimes j)
  <2>1. a \in Fractions /\ b \in Fractions /\ Even(b, u)
    OBVIOUS
  <2>2. u \in Fractions /\ v \in Fractions /\ Even(u, v)
    <3> HIDE DEF a
    <3> QED BY <1>2, <2>1
  <2> HIDE DEF a, b, u, v
  <2>3. Even(b, v)
    BY <2>1, <2>2, EvenOrders
  <2> QED BY <2>3 DEF a, b, v
<1> DEFINE A == AddOver(h, S)
           B == AddOver(g, S)
           u == B \otimes k
           v == B \oplus (B \otimes j)
<1>4. A \in Fractions /\ B \in Fractions
  BY AddType
<1>5. Even(A, v)
  BY <1>1, <1>3, AddLinear
<1> HIDE DEF A, B
<1>6. u \in Fractions /\ v \in Fractions /\ Even(u, v)
  BY <1>2, <1>4
<1> HIDE DEF u, v
<1>7. Even(A, u)
  BY <1>4, <1>5, <1>6, EvenOrders
<1> QED BY <1>7 DEF A, B, u

(* When W of an equity E is invested, at returns that make X of it, and the *)
(* rest returns y, the equity grows by both.                               *)
LEMMA EquityGrows ==
    ASSUME NEW E \in Fractions, NEW W \in Fractions, NEW X \in Fractions, NEW y \in Fractions
    PROVE  ((E \otimes (One \ominus W)) \otimes (One \oplus y))
               \oplus ((X \oplus (W \otimes One)) \otimes E)
             = E \otimes (One \oplus (X \oplus (y \otimes (One \ominus W))))
<1> DEFINE c == E \otimes (One \ominus W)
           U == X \oplus (W \otimes One)
           H == U \otimes E
<1>1. PICK d \in Nat \ {0}, e, w, x, r \in Int :
        Is(E, e, d) /\ Is(W, w, d) /\ Is(X, x, d) /\ Is(y, r, d)
  BY CommonFour
<1>2. Is(One, d, d) /\ One \in Fractions
  BY <1>1, UnitsAre DEF One, Fractions
<1>3. Is(One \ominus W, d - w, d) /\ Is(One \oplus y, d + r, d)
  BY <1>1, <1>2, PlusIs
<1>4. Is(c, e * (d - w), d * d)
  BY <1>1, <1>3, TimesIs
<1>5. Is(U, x + w, d)
  <2>1. Is(W \otimes One, w, d)
    <3>1. W \otimes One \in Fractions /\ Even(W, W \otimes One)
      BY <1>2, EvenUnits, FractionsClosed DEF Even
    <3> QED BY <1>1, <3>1, EvenIs
  <2> QED BY <1>1, <2>1, PlusIs
<1> HIDE DEF c, U
<1>6. Is(H, (x + w) * e, d * d)
  BY <1>1, <1>5, TimesIs
<1> HIDE DEF H
<1>7. Is(H, ((x + w) * e) * d, (d * d) * d)
  BY <1>1, <1>6, IsScaled
<1>8. Is(c \otimes (One \oplus y), (e * (d - w)) * (d + r), (d * d) * d)
  BY <1>3, <1>4, TimesIs
<1>9. /\ Is((c \otimes (One \oplus y)) \oplus H,
            (e * (d - w)) * (d + r) + ((x + w) * e) * d, (d * d) * d)
      /\ Lowest((c \otimes (One \oplus y)) \oplus H)
  BY <1>7, <1>8, PlusIs
<1>10. Is(y \otimes (One \ominus W), r * (d - w), d * d)
  BY <1>1, <1>3, TimesIs
<1>11. Is(X \oplus (y \otimes (One \ominus W)), x * d + r * (d - w), d * d)
  <2>1. Is(X, x * d, d * d)
    BY <1>1, IsScaled
  <2> QED BY <1>10, <2>1, PlusIs
<1>12. Is(One \oplus (X \oplus (y \otimes (One \ominus W))),
          d * d + (x * d + r * (d - w)), d * d)
  <2>1. Is(One, d * d, d * d)
    BY <1>1, <1>2, IsScaled
  <2> QED BY <1>11, <2>1, PlusIs
<1>13. /\ Is(E \otimes (One \oplus (X \oplus (y \otimes (One \ominus W)))),
             e * (d * d + (x * d + r * (d - w))), d * (d * d))
       /\ Lowest(E \otimes (One \oplus (X \oplus (y \otimes (One \ominus W)))))
  BY <1>1, <1>12, TimesIs
<1>14. /\ (e * (d - w)) * (d + r) + ((x + w) * e) * d = e * (d * d + (x * d + r * (d - w)))
       /\ (d * d) * d = d * (d * d)
  <2>1. d \in Int /\ e \in Int /\ w \in Int /\ x \in Int /\ r \in Int
    BY <1>1
  <2> QED BY <2>1, SMTT(60)
<1>15. (c \otimes (One \oplus y)) \oplus H
          = E \otimes (One \oplus (X \oplus (y \otimes (One \ominus W))))
  BY <1>9, <1>13, <1>14, LowestSame
<1> QED BY <1>15 DEF c, H, U

-----------------------------------------------------------------------------
(* 4. Sums of terms that are not negative.                                 *)

LEMMA PlusCommutes ==
    ASSUME NEW a \in Fractions, NEW b \in Fractions
    PROVE  a \oplus b = b \oplus a
<1>1. PICK d \in Nat \ {0}, n, m, l, o \in Int : Is(a, n, d) /\ Is(b, m, d)
  BY CommonFour
<1>2. Is(a \oplus b, n + m, d) /\ Lowest(a \oplus b)
  BY <1>1, PlusIs
<1>3. Is(b \oplus a, m + n, d) /\ Lowest(b \oplus a)
  BY <1>1, PlusIs
<1>4. n + m = m + n
  OBVIOUS
<1> QED BY <1>2, <1>3, <1>4, LowestSame

(* Signs of sums and of multiples.                                         *)
LEMMA PlusSign ==
    ASSUME NEW a \in Fractions, NEW b \in Fractions, Zero \preceq b
    PROVE  a \preceq a \oplus b /\ a \preceq b \oplus a
<1>1. PICK d \in Nat \ {0}, n, m, l, o \in Int : Is(a, n, d) /\ Is(b, m, d)
  BY CommonFour
<1>2. Is(Zero, 0, d)
  BY UnitsAre
<1>3. 0 <= m
  BY <1>1, <1>2, LessIs
<1>4. Is(a \oplus b, n + m, d) /\ Is(b \oplus a, m + n, d)
  BY <1>1, PlusIs
<1>5. n <= n + m /\ n <= m + n
  BY <1>3
<1> QED BY <1>1, <1>4, <1>5, LessIs

LEMMA TimesSign ==
    ASSUME NEW a \in Fractions, NEW k \in Fractions
    PROVE  /\ Zero \preceq a /\ Zero \preceq k => Zero \preceq a \otimes k
           /\ Zero \prec k => /\ a \otimes k \preceq Zero <=> a \preceq Zero
                              /\ Zero \prec a \otimes k <=> Zero \prec a
<1>1. PICK d \in Nat \ {0}, n, m, l, o \in Int : Is(a, n, d) /\ Is(k, m, d)
  BY CommonFour
<1>2. d * d \in Nat \ {0} /\ Is(a \otimes k, n * m, d * d)
  BY <1>1, TimesIs
<1>3. Is(Zero, 0, d) /\ Is(Zero, 0, d * d)
  BY <1>2, UnitsAre
<1>4. /\ Zero \preceq a <=> 0 <= n
      /\ a \preceq Zero <=> n <= 0
      /\ Zero \prec a <=> 0 < n
      /\ Zero \preceq k <=> 0 <= m
      /\ Zero \prec k <=> 0 < m
      /\ Zero \preceq a \otimes k <=> 0 <= n * m
      /\ a \otimes k \preceq Zero <=> n * m <= 0
      /\ Zero \prec a \otimes k <=> 0 < n * m
  BY <1>1, <1>2, <1>3, LessIs
<1>5. 0 <= n /\ 0 <= m => 0 <= n * m
  OBVIOUS
<1>6. 0 < m => (n <= 0 <=> n * m <= 0 * m) /\ (0 <= n <=> 0 * m <= n * m) /\ 0 * m = 0
  BY Scales
<1>7. n * m \in Int
  OBVIOUS
<1> DEFINE z == n * m
<1>8. z \in Int /\ (0 < m => (n <= 0 <=> z <= 0)) /\ (0 <= n /\ 0 <= m => 0 <= z)
  BY <1>5, <1>6, <1>7
<1>9. /\ Zero \preceq a \otimes k <=> 0 <= z
      /\ a \otimes k \preceq Zero <=> z <= 0
      /\ Zero \prec a \otimes k <=> 0 < z
  BY <1>4
<1> HIDE DEF z
<1> QED BY <1>4, <1>8, <1>9

(* Any term can be the first.                                              *)
LEMMA AddAny ==
    ASSUME NEW w, NEW S, IsFiniteSet(S), \A x \in S : w[x] \in Fractions, NEW x \in S
    PROVE  Even(AddOver(w, S), w[x] \oplus AddOver(w, S \ {x}))
<1> DEFINE Good(s, y) == Even(AddOver(w, s), w[y] \oplus AddOver(w, s \ {y}))
           Bad == {s \in SUBSET S : \E y \in s : ~ Good(s, y)}
<1> SUFFICES ASSUME Bad # {} PROVE FALSE
  OBVIOUS
<1>1. \A s \in Bad : IsFiniteSet(s)
  BY FS_Subset
<1>2. PICK s \in Bad : \A t \in Bad : t \subseteq s => t = s
  <2> HIDE DEF Bad
  <2> QED BY <1>1, Smallest
<1>3. PICK y \in s : ~ Good(s, y)
  OBVIOUS
<1> DEFINE c == Chosen(s)
           t == s \ {c}
           u == s \ {y}
           v == s \ {c, y}
<1>4. c \in s /\ s \subseteq S
  BY ChosenIn
<1>5. AddOver(w, s) = w[c] \oplus AddOver(w, t)
  BY <1>1, <1>3, AddUnfolds
<1> HIDE DEF c
<1>6. /\ IsFiniteSet(t) /\ IsFiniteSet(u) /\ IsFiniteSet(v)
      /\ t \subseteq S /\ u \subseteq S /\ v \subseteq S
  <2>1. IsFiniteSet(s)
    BY <1>1
  <2>2. t \subseteq s /\ u \subseteq s /\ v \subseteq s
    OBVIOUS
  <2> QED BY <1>4, <2>1, <2>2, FS_Subset
<1> DEFINE T == AddOver(w, t)
           U == AddOver(w, u)
           V == AddOver(w, v)
           a == w[c]
           b == w[y]
<1>7. T \in Fractions /\ U \in Fractions /\ V \in Fractions /\ a \in Fractions /\ b \in Fractions
  <2>1. \A r \in SUBSET S : \A z \in r : w[z] \in Fractions
    OBVIOUS
  <2> HIDE DEF t, u, v, Bad
  <2> QED BY <1>4, <1>6, <2>1, AddType
<1>8. a \oplus T \in Fractions /\ b \oplus U \in Fractions
  <2> HIDE DEF a, b, T, U
  <2> QED BY <1>7, FractionsClosed
<1>9. CASE c = y
  <2>1. AddOver(w, s) = b \oplus U
    BY <1>5, <1>9
  <2> HIDE DEF b, U, Bad
  <2>2. Even(b \oplus U, b \oplus U)
    BY <1>8, EvenOrders
  <2> QED BY <1>3, <2>1, <2>2 DEF b, U
<1>10. CASE c # y
  <2>1. t \notin Bad /\ u \notin Bad
    <3> HIDE DEF Bad
    <3>1. t # s /\ t \subseteq s /\ u # s /\ u \subseteq s
      BY <1>3, <1>4
    <3> QED BY <1>2, <3>1
  <2>2. Good(t, y) /\ Good(u, c)
    <3>1. y \in t /\ c \in u
      BY <1>3, <1>4, <1>10
    <3> HIDE DEF Good
    <3> QED BY <1>6, <2>1, <3>1
  <2>3. t \ {y} = v /\ u \ {c} = v
    OBVIOUS
  <2>4. Even(T, b \oplus V) /\ Even(U, a \oplus V)
    BY <2>2, <2>3
  <2> HIDE DEF Bad, T, U, V, a, b
  <2>5. b \oplus V \in Fractions /\ a \oplus V \in Fractions
    BY <1>7, FractionsClosed
  <2>6. Even(a, a) /\ Even(b, b)
    BY <1>7, EvenOrders
  <2>7. a \oplus T = a \oplus (b \oplus V) /\ b \oplus U = b \oplus (a \oplus V)
    BY <1>7, <2>4, <2>5, <2>6, EvenComputes
  <2>8. a \oplus (b \oplus V) = (a \oplus b) \oplus V /\ b \oplus (a \oplus V) = (b \oplus a) \oplus V
    BY <1>7, PlusAssociates
  <2>9. a \oplus b = b \oplus a
    BY <1>7, PlusCommutes
  <2>10. AddOver(w, s) = b \oplus U
    BY <1>5, <2>7, <2>8, <2>9 DEF a, T
  <2>11. Even(b \oplus U, b \oplus U)
    BY <1>8, EvenOrders
  <2> QED BY <1>3, <2>10, <2>11 DEF b, U
<1> QED BY <1>9, <1>10

(* A sum over a set is the sums over two parts of it.                      *)
LEMMA AddUnion ==
    ASSUME NEW w, NEW S, IsFiniteSet(S), \A x \in S : w[x] \in Fractions, NEW T \in SUBSET S
    PROVE  Even(AddOver(w, S), AddOver(w, T) \oplus AddOver(w, S \ T))
<1> DEFINE Good(t) == Even(AddOver(w, t \cup (S \ T)), AddOver(w, t) \oplus AddOver(w, S \ T))
           Bad == {t \in SUBSET T : ~ Good(t)}
<1>0. ASSUME NEW r \in SUBSET S PROVE IsFiniteSet(r) /\ AddOver(w, r) \in Fractions
  <2>1. IsFiniteSet(r) /\ \A x \in r : w[x] \in Fractions
    BY FS_Subset
  <2> QED BY <2>1, AddType
<1>1. ASSUME Bad # {} PROVE FALSE
  <2>1. \A t \in Bad : IsFiniteSet(t)
    BY <1>0
  <2>2. PICK t \in Bad : \A u \in Bad : u \subseteq t => u = t
    <3> HIDE DEF Bad
    <3> QED BY <1>1, <2>1, Smallest
  <2> DEFINE R == S \ T
             V == AddOver(w, R)
             X == AddOver(w, t)
             Y == AddOver(w, t \cup R)
  <2>3. t \subseteq T /\ t \subseteq S /\ ~ Good(t)
    OBVIOUS
  <2>4. V \in Fractions /\ X \in Fractions /\ Y \in Fractions
    BY <1>0, <2>3
  <2>5. CASE t = {}
    <3>1. t \cup R = R /\ X = Zero
      BY <2>5, AddEmpty
    <3>2. Y = V
      BY <3>1
    <3>3. Zero \oplus V = V \oplus Zero /\ Even(V \oplus Zero, V) /\ V \oplus Zero \in Fractions
      <4> HIDE DEF V
      <4>1. Zero \in Fractions
        BY DEF Zero, Fractions
      <4> QED BY <2>4, <4>1, EvenUnits, PlusCommutes, FractionsClosed
    <3> HIDE DEF Bad, V, X, Y
    <3>4. Even(V, V \oplus Zero)
      BY <2>4, <3>3, EvenOrders
    <3> QED BY <2>3, <3>1, <3>2, <3>3, <3>4 DEF V, X, Y, R
  <2>6. CASE t # {}
    <3>1. PICK x \in t : TRUE
      BY <2>6
    <3> DEFINE u == t \ {x}
               a == w[x]
               P == AddOver(w, u)
               Q == AddOver(w, u \cup R)
    <3>2. u \in SUBSET S /\ u \cup R \in SUBSET S /\ u \in SUBSET T
      BY <2>3
    <3>3. a \in Fractions /\ P \in Fractions /\ Q \in Fractions
      BY <1>0, <2>3, <3>2
    <3>4. Good(u)
      <4>1. u # t /\ u \subseteq t /\ u \in SUBSET T
        BY <3>1, <3>2
      <4> HIDE DEF Good, u
      <4> QED BY <2>2, <4>1
    <3>5. (t \cup R) \ {x} = u \cup R
      BY <2>3
    <3>6. Even(X, a \oplus P)
      <4>1. IsFiniteSet(t) /\ \A z \in t : w[z] \in Fractions
        BY <1>0, <2>3
      <4> QED BY <4>1, AddAny
    <3>7. Even(Y, a \oplus Q)
      <4>1. IsFiniteSet(t \cup R) /\ (\A z \in t \cup R : w[z] \in Fractions) /\ x \in t \cup R
        BY <1>0, <2>3
      <4> HIDE DEF R
      <4>2. Even(AddOver(w, t \cup R), w[x] \oplus AddOver(w, (t \cup R) \ {x}))
        BY <4>1, AddAny
      <4> QED BY <3>5, <4>2
    <3>8. Even(Q, P \oplus V)
      BY <3>4
    <3> HIDE DEF Bad, V, X, Y, P, Q, a, Good, u
    <3>9. /\ P \oplus V \in Fractions /\ a \oplus P \in Fractions /\ a \oplus Q \in Fractions
          /\ (a \oplus P) \oplus V \in Fractions /\ X \oplus V \in Fractions
      BY <2>4, <3>3, FractionsClosed
    <3>10. Even(a, a) /\ Even(V, V) /\ Even(X \oplus V, X \oplus V)
      BY <2>4, <3>3, <3>9, EvenOrders
    <3>11. a \oplus Q = a \oplus (P \oplus V)
      BY <3>3, <3>8, <3>9, <3>10, EvenComputes
    <3>12. a \oplus (P \oplus V) = (a \oplus P) \oplus V
      BY <2>4, <3>3, PlusAssociates
    <3>13. X \oplus V = (a \oplus P) \oplus V
      BY <2>4, <3>3, <3>6, <3>9, <3>10, EvenComputes
    <3>14. Even(Y, X \oplus V)
      BY <3>7, <3>11, <3>12, <3>13
    <3> QED BY <2>3, <3>14 DEF Good, X, Y, V, R
  <2> QED BY <2>5, <2>6
<1>2. Good(T)
  BY <1>1
<1>3. T \cup (S \ T) = S
  OBVIOUS
<1> QED BY <1>2, <1>3

(* Sums are ordered as their terms.                                        *)
LEMMA AddLess ==
    ASSUME NEW S, IsFiniteSet(S), NEW h, NEW f,
           \A x \in S : h[x] \in Fractions /\ f[x] \in Fractions /\ h[x] \preceq f[x]
    PROVE  AddOver(h, S) \preceq AddOver(f, S)
<1>0. Zero \in Fractions
  BY DEF Zero, Fractions
<1>1. ASSUME NEW x \in S PROVE h[x] \preceq f[x] \oplus (f[x] \otimes Zero)
  <2> DEFINE a == h[x]
             b == f[x]
             c == b \oplus (b \otimes Zero)
  <2>1. a \in Fractions /\ b \in Fractions /\ a \preceq b
    OBVIOUS
  <2> HIDE DEF a, b
  <2>2. c \in Fractions /\ b \preceq c
    BY <1>0, <2>1, NothingMore, FractionsClosed
  <2> HIDE DEF c
  <2>3. a \preceq c
    BY <2>1, <2>2, LessOrders
  <2> QED BY <2>3 DEF a, b, c
<1> DEFINE A == AddOver(h, S)
           B == AddOver(f, S)
           C == B \oplus (B \otimes Zero)
<1>2. A \in Fractions /\ B \in Fractions
  BY AddType
<1>3. A \preceq C
  BY <1>0, <1>1, AddCompares
<1> HIDE DEF A, B
<1>4. C \in Fractions /\ C \preceq B
  BY <1>0, <1>2, NothingMore, FractionsClosed
<1> HIDE DEF C
<1>5. A \preceq B
  BY <1>2, <1>3, <1>4, LessOrders
<1> QED BY <1>5 DEF A, B

LEMMA AddEven ==
    ASSUME NEW S, IsFiniteSet(S), NEW h, NEW f,
           \A x \in S : h[x] \in Fractions /\ f[x] \in Fractions /\ Even(h[x], f[x])
    PROVE  Even(AddOver(h, S), AddOver(f, S))
BY AddLess DEF Even

LEMMA AddNothing ==
    ASSUME NEW S, IsFiniteSet(S), NEW w,
           \A x \in S : w[x] \in Fractions /\ Even(w[x], Zero)
    PROVE  Even(AddOver(w, S), Zero)
<1>0. Zero \in Fractions
  BY DEF Zero, Fractions
<1>1. ASSUME NEW x \in S PROVE Even(w[x], w[x] \otimes Zero)
  <2> DEFINE a == w[x]
             b == a \otimes Zero
  <2>1. a \in Fractions /\ Even(a, Zero)
    OBVIOUS
  <2> HIDE DEF a
  <2>2. b \in Fractions /\ Even(b, Zero)
    BY <1>0, <2>1, EvenUnits, FractionsClosed
  <2> HIDE DEF b
  <2>3. Even(a, b)
    BY <1>0, <2>1, <2>2, EvenOrders
  <2> QED BY <2>3 DEF a, b
<1> DEFINE A == AddOver(w, S)
           B == A \otimes Zero
<1>2. A \in Fractions /\ Even(A, B)
  BY <1>0, <1>1, AddType, AddTimes
<1> HIDE DEF A
<1>3. B \in Fractions /\ Even(B, Zero)
  BY <1>0, <1>2, EvenUnits, FractionsClosed
<1> HIDE DEF B
<1>4. Even(A, Zero)
  BY <1>0, <1>2, <1>3, EvenOrders
<1> QED BY <1>4 DEF A

(* Of terms that are not negative, none is above the sum.                  *)
LEMMA AddNotNegative ==
    ASSUME NEW S, IsFiniteSet(S), NEW w,
           \A x \in S : w[x] \in Fractions /\ Zero \preceq w[x]
    PROVE  /\ AddOver(w, S) \in Fractions /\ Zero \preceq AddOver(w, S)
           /\ \A x \in S : w[x] \preceq AddOver(w, S)
<1>0. Zero \in Fractions
  BY DEF Zero, Fractions
<1>1. ASSUME NEW T \in SUBSET S
      PROVE  AddOver(w, T) \in Fractions /\ Zero \preceq AddOver(w, T)
  <2> DEFINE z == [x \in T |-> Zero]
  <2>1. IsFiniteSet(T) /\ \A x \in T : w[x] \in Fractions /\ Zero \preceq w[x]
    BY FS_Subset
  <2>2. \A x \in T : z[x] \in Fractions /\ Even(z[x], Zero) /\ z[x] = Zero
    BY <1>0, EvenOrders
  <2> HIDE DEF z
  <2> DEFINE A == AddOver(z, T)
             B == AddOver(w, T)
  <2>3. A \in Fractions /\ B \in Fractions /\ Even(A, Zero)
    BY <2>1, <2>2, AddType, AddNothing
  <2>4. A \preceq B
    BY <2>1, <2>2, AddLess
  <2> HIDE DEF A, B
  <2>5. Zero \preceq B
    BY <1>0, <2>3, <2>4, LessOrders DEF Even
  <2> QED BY <2>3, <2>5 DEF B
<1>2. ASSUME NEW x \in S PROVE w[x] \preceq AddOver(w, S)
  <2> DEFINE a == w[x]
             B == AddOver(w, S \ {x})
             C == a \oplus B
             D == AddOver(w, S)
  <2>1. a \in Fractions /\ B \in Fractions /\ Zero \preceq B /\ D \in Fractions
    BY <1>1
  <2>2. Even(D, C)
    BY AddAny
  <2> HIDE DEF a, B, D
  <2>3. C \in Fractions /\ a \preceq C
    BY <2>1, PlusSign, FractionsClosed
  <2> HIDE DEF C
  <2>4. a \preceq D
    BY <2>1, <2>2, <2>3, LessOrders DEF Even
  <2> QED BY <2>4 DEF a, D
<1> QED BY <1>1, <1>2

(* Of finitely many fractions one is the least.                            *)
LEMMA LeastExists ==
    ASSUME NEW S, IsFiniteSet(S), S # {}, NEW val, \A x \in S : val[x] \in Fractions
    PROVE  \E x \in S : \A y \in S : val[x] \preceq val[y]
<1> DEFINE Least(s) == \E x \in s : \A y \in s : val[x] \preceq val[y]
           Bad == {s \in SUBSET S : s # {} /\ ~ Least(s)}
<1> SUFFICES ASSUME Bad # {} PROVE FALSE
  OBVIOUS
<1>1. \A s \in Bad : IsFiniteSet(s)
  BY FS_Subset
<1>2. PICK s \in Bad : \A t \in Bad : t \subseteq s => t = s
  <2> HIDE DEF Bad
  <2> QED BY <1>1, Smallest
<1>3. PICK x \in s : TRUE
  OBVIOUS
<1>4. \A y \in s : val[y] \in Fractions
  OBVIOUS
<1> DEFINE t == s \ {x}
<1>5. ~ Least(s)
  OBVIOUS
<1>6. CASE t = {}
  <2>1. \A y \in s : y = x
    BY <1>6
  <2>2. val[x] \preceq val[x]
    BY <1>3, <1>4, LessOrders
  <2> HIDE DEF Bad
  <2> QED BY <1>3, <1>5, <2>1, <2>2
<1>7. CASE t # {}
  <2>1. Least(t)
    <3>1. t \in SUBSET S /\ t # s /\ t \subseteq s
      BY <1>3
    <3> HIDE DEF Least, t
    <3>2. t \notin Bad
      <4> HIDE DEF Bad
      <4> QED BY <1>2, <3>1
    <3> QED BY <1>7, <3>1, <3>2
  <2>2. PICK z \in t : \A y \in t : val[z] \preceq val[y]
    BY <2>1
  <2>3. z \in s /\ val[x] \in Fractions /\ val[z] \in Fractions
    BY <1>3, <1>4
  <2> HIDE DEF Bad
  <2>4. CASE val[x] \preceq val[z]
    <3>1. ASSUME NEW y \in s PROVE val[x] \preceq val[y]
      <4>1. val[y] \in Fractions /\ (y = x \/ y \in t)
        BY <1>4
      <4>2. y \in t => val[x] \preceq val[y]
        BY <2>2, <2>3, <2>4, <4>1, LessOrders
      <4>3. val[x] \preceq val[x]
        BY <2>3, LessOrders
      <4> QED BY <4>1, <4>2, <4>3
    <3> QED BY <1>3, <1>5, <3>1
  <2>5. CASE ~ (val[x] \preceq val[z])
    <3>1. val[z] \preceq val[x]
      BY <2>3, <2>5, LessOrders
    <3>2. \A y \in s : val[z] \preceq val[y]
      BY <2>2, <3>1
    <3> QED BY <1>5, <2>3, <3>2
  <2> QED BY <2>4, <2>5
<1> QED BY <1>6, <1>7

-----------------------------------------------------------------------------
(* 5. Products of fractions.                                               *)

MulOver(w, S) == FoldFunctionOnSet(LAMBDA a, b : a \otimes b, One, w, S)

Muls(g, w, S) ==
    g = [s \in SUBSET S |->
            IF s = {} THEN One ELSE w[Chosen(s)] \otimes g[s \ {Chosen(s)}]]

LEMMA MulIsFold ==
    ASSUME NEW w, NEW S
    PROVE  MulOver(w, S) = (CHOOSE g : Muls(g, w, S))[S]
BY DEF MulOver, FoldFunctionOnSet, MapThenFoldSet, Muls, Chosen

LEMMA MulsAgree ==
    ASSUME NEW w, NEW S, IsFiniteSet(S), NEW T, NEW g, NEW h,
           Muls(g, w, S), Muls(h, w, T), NEW r \in (SUBSET S) \cap (SUBSET T)
    PROVE  g[r] = h[r]
<1> DEFINE Bad == {s \in (SUBSET S) \cap (SUBSET T) : g[s] # h[s]}
<1> SUFFICES ASSUME Bad # {} PROVE FALSE
  OBVIOUS
<1>1. \A s \in Bad : IsFiniteSet(s)
  BY FS_Subset
<1>2. PICK s \in Bad : \A t \in Bad : t \subseteq s => t = s
  <2> HIDE DEF Bad
  <2> QED BY <1>1, Smallest
<1>3. s \in SUBSET S /\ s \in SUBSET T /\ g[s] # h[s]
  OBVIOUS
<1>4. s # {}
  BY <1>3 DEF Muls
<1> DEFINE t == s \ {Chosen(s)}
<1>5. t # s /\ t \subseteq s /\ t \in (SUBSET S) \cap (SUBSET T)
  BY <1>3, <1>4, ChosenIn
<1>6. g[t] = h[t]
  BY <1>2, <1>5
<1>7. g[s] = w[Chosen(s)] \otimes g[t] /\ h[s] = w[Chosen(s)] \otimes h[t]
  BY <1>3, <1>4 DEF Muls
<1> QED
  BY <1>3, <1>6, <1>7

LEMMA MulsExist ==
    ASSUME NEW w, NEW S, IsFiniteSet(S)
    PROVE  \E g : Muls(g, w, S)
<1> DEFINE Bad == {s \in SUBSET S : ~ \E g : Muls(g, w, s)}
<1> SUFFICES ASSUME Bad # {} PROVE FALSE
  OBVIOUS
<1>1. \A s \in Bad : IsFiniteSet(s)
  BY FS_Subset
<1>2. PICK s \in Bad : \A t \in Bad : t \subseteq s => t = s
  <2> HIDE DEF Bad
  <2> QED BY <1>1, Smallest
<1> DEFINE H(t) == MulOver(w, t)
           G == [t \in SUBSET s |->
                    IF t = {} THEN One ELSE w[Chosen(t)] \otimes H(t \ {Chosen(t)})]
<1>3. ASSUME NEW t \in SUBSET s, t # s
      PROVE  /\ IsFiniteSet(t)
             /\ \E g : Muls(g, w, t) /\ H(t) = g[t]
  <2>1. t \in SUBSET S /\ IsFiniteSet(t)
    BY FS_Subset
  <2>2. \E g : Muls(g, w, t)
    BY <1>2, <1>3, <2>1
  <2>3. Muls(CHOOSE g : Muls(g, w, t), w, t)
    BY <2>2, Zenon
  <2> QED
    BY <2>1, <2>3, MulIsFold
<1>4. ASSUME NEW u \in SUBSET s, u # s
      PROVE  H(u) = G[u]
  <2>1. PICK g : Muls(g, w, u) /\ H(u) = g[u]
    BY <1>3, <1>4
  <2>2. CASE u = {}
    BY <2>1, <2>2 DEF Muls
  <2>3. CASE u # {}
    <3> DEFINE v == u \ {Chosen(u)}
    <3>1. v \in SUBSET u /\ v \in SUBSET s /\ v # s
      BY <1>4, <2>3, ChosenIn
    <3>2. PICK h : Muls(h, w, v) /\ H(v) = h[v]
      BY <1>3, <3>1
    <3>3. g[v] = h[v]
      <4>1. IsFiniteSet(u) /\ v \in (SUBSET u) \cap (SUBSET v)
        BY <1>3, <1>4, <3>1
      <4> HIDE DEF v
      <4> QED
        BY <2>1, <3>2, <4>1, MulsAgree
    <3>4. g[u] = w[Chosen(u)] \otimes g[v]
      BY <2>1, <2>3 DEF Muls
    <3> QED
      BY <2>1, <2>3, <3>2, <3>3, <3>4
  <2> QED
    BY <2>2, <2>3
<1>5. Muls(G, w, s)
  <2> SUFFICES ASSUME NEW t \in SUBSET s, t # {}
               PROVE  H(t \ {Chosen(t)}) = G[t \ {Chosen(t)}]
    BY DEF Muls
  <2>1. t \ {Chosen(t)} \in SUBSET s /\ t \ {Chosen(t)} # s
    BY ChosenIn
  <2> QED
    BY <1>4, <2>1
<1> QED
  BY <1>5

LEMMA MulEmpty == ASSUME NEW w PROVE MulOver(w, {}) = One
<1>1. \E g : Muls(g, w, {})
  BY MulsExist, FS_EmptySet
<1>2. Muls(CHOOSE g : Muls(g, w, {}), w, {})
  BY <1>1, Zenon
<1> QED
  BY <1>2, MulIsFold DEF Muls

LEMMA MulUnfolds ==
    ASSUME NEW w, NEW S, IsFiniteSet(S), S # {}
    PROVE  MulOver(w, S) = w[Chosen(S)] \otimes MulOver(w, S \ {Chosen(S)})
<1> DEFINE T == S \ {Chosen(S)}
           g == CHOOSE g : Muls(g, w, S)
           h == CHOOSE h : Muls(h, w, T)
<1>1. IsFiniteSet(T) /\ T \in (SUBSET S) \cap (SUBSET T)
  BY FS_Subset
<1>2. (\E f : Muls(f, w, S)) /\ (\E f : Muls(f, w, T))
  BY <1>1, MulsExist
<1>3. Muls(g, w, S) /\ Muls(h, w, T)
  <2> HIDE DEF T
  <2> QED
    BY <1>2, Zenon
<1>4. MulOver(w, S) = g[S] /\ MulOver(w, T) = h[T]
  BY MulIsFold, Zenon
<1> HIDE DEF g, h
<1>5. g[T] = h[T]
  <2> HIDE DEF T
  <2>1. T \in (SUBSET S) \cap (SUBSET T)
    BY <1>1
  <2>2. Muls(g, w, S) /\ Muls(h, w, T)
    BY <1>3
  <2> QED
    BY <2>1, <2>2, MulsAgree
<1>6. g[S] = w[Chosen(S)] \otimes g[T]
  BY <1>3 DEF Muls
<1> QED
  BY <1>4, <1>5, <1>6

LEMMA MulType ==
    ASSUME NEW w, NEW S, IsFiniteSet(S), \A x \in S : w[x] \in Fractions
    PROVE  MulOver(w, S) \in Fractions
<1> DEFINE Bad == {s \in SUBSET S : MulOver(w, s) \notin Fractions}
<1> SUFFICES ASSUME Bad # {} PROVE FALSE
  OBVIOUS
<1>1. \A s \in Bad : IsFiniteSet(s)
  BY FS_Subset
<1>2. PICK s \in Bad : \A t \in Bad : t \subseteq s => t = s
  <2> HIDE DEF Bad
  <2> QED BY <1>1, Smallest
<1>3. s # {}
  <2>1. One \in Fractions
    BY DEF One, Fractions
  <2> QED BY <2>1, MulEmpty
<1> DEFINE t == s \ {Chosen(s)}
<1>4. t \in SUBSET S /\ t # s /\ t \subseteq s /\ Chosen(s) \in S
  BY <1>3, ChosenIn
<1>5. MulOver(w, t) \in Fractions
  BY <1>2, <1>4
<1>6. MulOver(w, s) = w[Chosen(s)] \otimes MulOver(w, t)
  BY <1>1, <1>3, MulUnfolds
<1>7. w[Chosen(s)] \in Fractions
  BY <1>4
<1> QED
  BY <1>5, <1>6, <1>7, FractionsClosed

(* Factors that agree have one product.                                    *)
LEMMA MulAgrees ==
    ASSUME NEW w, NEW v, NEW S, IsFiniteSet(S), \A x \in S : w[x] = v[x]
    PROVE  MulOver(w, S) = MulOver(v, S)
<1> DEFINE Bad == {s \in SUBSET S : MulOver(w, s) # MulOver(v, s)}
<1> SUFFICES ASSUME Bad # {} PROVE FALSE
  OBVIOUS
<1>1. \A s \in Bad : IsFiniteSet(s)
  BY FS_Subset
<1>2. PICK s \in Bad : \A t \in Bad : t \subseteq s => t = s
  <2> HIDE DEF Bad
  <2> QED BY <1>1, Smallest
<1>3. s # {}
  BY MulEmpty
<1> DEFINE t == s \ {Chosen(s)}
<1>4. t \in SUBSET S /\ t # s /\ t \subseteq s /\ Chosen(s) \in S
  BY <1>3, ChosenIn
<1>5. MulOver(w, t) = MulOver(v, t)
  BY <1>2, <1>4
<1>6. /\ MulOver(w, s) = w[Chosen(s)] \otimes MulOver(w, t)
      /\ MulOver(v, s) = v[Chosen(s)] \otimes MulOver(v, t)
  BY <1>1, <1>3, MulUnfolds
<1> QED BY <1>4, <1>5, <1>6

(* Any factor can be the first.                                            *)
LEMMA MulAny ==
    ASSUME NEW w, NEW S, IsFiniteSet(S), \A x \in S : w[x] \in Fractions, NEW x \in S
    PROVE  MulOver(w, S) = w[x] \otimes MulOver(w, S \ {x})
<1> DEFINE Good(s, y) == MulOver(w, s) = w[y] \otimes MulOver(w, s \ {y})
           Bad == {s \in SUBSET S : \E y \in s : ~ Good(s, y)}
<1> SUFFICES ASSUME Bad # {} PROVE FALSE
  OBVIOUS
<1>1. \A s \in Bad : IsFiniteSet(s)
  BY FS_Subset
<1>2. PICK s \in Bad : \A t \in Bad : t \subseteq s => t = s
  <2> HIDE DEF Bad
  <2> QED BY <1>1, Smallest
<1>3. PICK y \in s : ~ Good(s, y)
  OBVIOUS
<1> DEFINE c == Chosen(s)
           t == s \ {c}
           u == s \ {y}
           v == s \ {c, y}
<1>4. c \in s /\ s \subseteq S
  BY ChosenIn
<1>5. MulOver(w, s) = w[c] \otimes MulOver(w, t)
  BY <1>1, <1>3, MulUnfolds
<1> HIDE DEF c
<1>6. /\ IsFiniteSet(t) /\ IsFiniteSet(u) /\ IsFiniteSet(v)
      /\ t \subseteq S /\ u \subseteq S /\ v \subseteq S
  <2>1. IsFiniteSet(s)
    BY <1>1
  <2>2. t \subseteq s /\ u \subseteq s /\ v \subseteq s
    OBVIOUS
  <2> QED BY <1>4, <2>1, <2>2, FS_Subset
<1> DEFINE T == MulOver(w, t)
           U == MulOver(w, u)
           V == MulOver(w, v)
           a == w[c]
           b == w[y]
<1>7. T \in Fractions /\ U \in Fractions /\ V \in Fractions /\ a \in Fractions /\ b \in Fractions
  <2>1. \A r \in SUBSET S : \A z \in r : w[z] \in Fractions
    OBVIOUS
  <2> HIDE DEF t, u, v, Bad
  <2> QED BY <1>4, <1>6, <2>1, MulType
<1>8. a \otimes T \in Fractions /\ b \otimes U \in Fractions
  <2> HIDE DEF a, b, T, U
  <2> QED BY <1>7, FractionsClosed
<1>9. CASE c = y
  <2>1. MulOver(w, s) = b \otimes U
    BY <1>5, <1>9
  <2> HIDE DEF Bad
  <2> QED BY <1>3, <2>1
<1>10. CASE c # y
  <2>1. t \notin Bad /\ u \notin Bad
    <3> HIDE DEF Bad
    <3>1. t # s /\ t \subseteq s /\ u # s /\ u \subseteq s
      BY <1>3, <1>4
    <3> QED BY <1>2, <3>1
  <2>2. Good(t, y) /\ Good(u, c)
    <3>1. y \in t /\ c \in u
      BY <1>3, <1>4, <1>10
    <3> HIDE DEF Good
    <3> QED BY <1>6, <2>1, <3>1
  <2>3. t \ {y} = v /\ u \ {c} = v
    OBVIOUS
  <2>4. T = b \otimes V /\ U = a \otimes V
    BY <2>2, <2>3
  <2> HIDE DEF Bad, T, U, V, a, b
  <2>5. a \otimes (b \otimes V) = (a \otimes b) \otimes V
        /\ b \otimes (a \otimes V) = (b \otimes a) \otimes V /\ a \otimes b = b \otimes a
    BY <1>7, TimesCommutes
  <2>6. MulOver(w, s) = b \otimes U
    BY <1>5, <2>4, <2>5 DEF a, T
  <2> QED BY <1>3, <2>6 DEF b, U
<1> QED BY <1>9, <1>10

(* What is worth something: prices, ratios, factors.                       *)
Positive(a) == a \in Fractions /\ Zero \prec a

LEMMA TimesPositive ==
    ASSUME NEW a, NEW b, Positive(a), Positive(b)
    PROVE  Positive(a \otimes b)
BY TimesSign, FractionsClosed DEF Positive

LEMMA OnePositive == Positive(One)
<1>1. Is(Zero, 0, 1) /\ Is(One, 1, 1)
  BY UnitsAre
<1> QED BY <1>1, LessIs DEF Positive, Is

LEMMA MulPositive ==
    ASSUME NEW w, NEW S, IsFiniteSet(S), \A x \in S : Positive(w[x])
    PROVE  Positive(MulOver(w, S))
<1> DEFINE Bad == {s \in SUBSET S : ~ Positive(MulOver(w, s))}
<1> SUFFICES ASSUME Bad # {} PROVE FALSE
  OBVIOUS
<1>1. \A s \in Bad : IsFiniteSet(s)
  BY FS_Subset
<1>2. PICK s \in Bad : \A t \in Bad : t \subseteq s => t = s
  <2> HIDE DEF Bad
  <2> QED BY <1>1, Smallest
<1>3. s # {}
  BY OnePositive, MulEmpty
<1> DEFINE t == s \ {Chosen(s)}
<1>4. t \in SUBSET S /\ t # s /\ t \subseteq s /\ Chosen(s) \in S
  BY <1>3, ChosenIn
<1>5. Positive(MulOver(w, t))
  BY <1>2, <1>4
<1>6. MulOver(w, s) = w[Chosen(s)] \otimes MulOver(w, t)
  BY <1>1, <1>3, MulUnfolds
<1>7. Positive(w[Chosen(s)])
  BY <1>4
<1> QED BY <1>5, <1>6, <1>7, TimesPositive

-----------------------------------------------------------------------------
(* 6. Quotients of what is positive.                                       *)

(* Products of one value are the same: they are in lowest terms.           *)
LEMMA TimesSame ==
    ASSUME NEW a \in Fractions, NEW b \in Fractions, NEW c \in Fractions, NEW e \in Fractions
    PROVE  Even(a \otimes b, c \otimes e) <=> a \otimes b = c \otimes e
<1>1. Is(a, a.num, a.den) /\ Is(b, b.num, b.den) /\ Is(c, c.num, c.den) /\ Is(e, e.num, e.den)
  BY IsSelf
<1>2. Lowest(a \otimes b) /\ Lowest(c \otimes e)
  BY <1>1, TimesIs
<1>3. a \otimes b \in Fractions /\ c \otimes e \in Fractions
  BY FractionsClosed
<1> DEFINE x == a \otimes b
           y == c \otimes e
<1> HIDE DEF x, y
<1>4. x \in Fractions /\ y \in Fractions /\ Lowest(x) /\ Lowest(y)
  BY <1>2, <1>3 DEF x, y
<1>5. Even(x, y) <=> x = y
  BY <1>4, EvenOrders
<1> QED BY <1>5 DEF x, y

LEMMA TimesSwaps ==
    ASSUME NEW a \in Fractions, NEW b \in Fractions, NEW c \in Fractions, NEW e \in Fractions
    PROVE  (a \otimes b) \otimes (c \otimes e) = (a \otimes c) \otimes (b \otimes e)
<1> DEFINE be == b \otimes e
           ce == c \otimes e
<1>1. be \in Fractions /\ ce \in Fractions
  BY FractionsClosed
<1>2. (a \otimes b) \otimes ce = a \otimes (b \otimes ce) /\ (a \otimes c) \otimes be = a \otimes (c \otimes be)
  <2> HIDE DEF be, ce
  <2> QED BY <1>1, TimesCommutes
<1>3. b \otimes ce = (b \otimes c) \otimes e /\ c \otimes be = (c \otimes b) \otimes e /\ b \otimes c = c \otimes b
  BY TimesCommutes
<1> QED BY <1>2, <1>3

LEMMA TimesCancels ==
    ASSUME NEW a \in Fractions, NEW b \in Fractions, NEW k, Positive(k)
    PROVE  a \otimes k = b \otimes k <=> Even(a, b)
<1>1. k \in Fractions /\ Zero \prec k
  BY DEF Positive
<1>2. PICK d \in Nat \ {0}, n, m, l, o \in Int : Is(a, n, d) /\ Is(b, m, d) /\ Is(k, l, d)
  BY <1>1, CommonFour
<1>3. l \in Nat \ {0}
  BY <1>1, <1>2, InvertedIs
<1>4. Is(a \otimes k, n * l, d * d) /\ Is(b \otimes k, m * l, d * d)
  BY <1>2, TimesIs
<1>5. Even(a \otimes k, b \otimes k) <=> n * l <= m * l /\ m * l <= n * l
  BY <1>4, LessIs DEF Even
<1>6. Even(a, b) <=> n <= m /\ m <= n
  BY <1>2, LessIs DEF Even
<1>7. (n * l <= m * l <=> n <= m) /\ (m * l <= n * l <=> m <= n)
  BY <1>3, Scales
<1>8. Even(a \otimes k, b \otimes k) <=> Even(a, b)
  BY <1>5, <1>6, <1>7
<1> QED BY <1>1, <1>8, TimesSame

(* A quotient times its divisor.                                           *)
LEMMA OverUndoes ==
    ASSUME NEW a \in Fractions, NEW b, Positive(b)
    PROVE  /\ a \oslash b \in Fractions /\ Even((a \oslash b) \otimes b, a)
           /\ Positive(a) => Positive(a \oslash b)
<1>1. b \in Fractions /\ Zero \prec b
  BY DEF Positive
<1>2. PICK d \in Nat \ {0}, n, m, l, o \in Int : Is(a, n, d) /\ Is(b, m, d)
  BY <1>1, CommonFour
<1>3. m \in Nat \ {0} /\ Is(Inverted(b), d, m)
  BY <1>1, <1>2, InvertedIs
<1>4. Is(a \oslash b, n * d, d * m)
  BY <1>2, <1>3, TimesIs DEF \oslash
<1>5. Is((a \oslash b) \otimes b, (n * d) * m, (d * m) * d)
  BY <1>2, <1>4, TimesIs
<1>6. (n * d) * m = n * (d * m) /\ (d * m) * d = d * (d * m) /\ d * m \in Nat \ {0}
  BY <1>3, Regroups, NatTimes
<1>7. Is(a, (n * d) * m, (d * m) * d)
  BY <1>2, <1>6, IsScaled
<1>8. a \oslash b \in Fractions /\ (a \oslash b) \otimes b \in Fractions
  BY <1>4, <1>5 DEF Is
<1>9. Even((a \oslash b) \otimes b, a)
  BY <1>5, <1>7, <1>8, EvenIs
<1>10. ASSUME Positive(a) PROVE Positive(a \oslash b)
  <2>1. n \in Nat \ {0}
    BY <1>2, <1>10, InvertedIs DEF Positive
  <2>2. n * d \in Nat \ {0}
    BY <2>1, NatTimes
  <2>3. Is(Zero, 0, d * m)
    BY <1>6, UnitsAre
  <2>4. 0 < n * d
    BY <2>2
  <2>5. Zero \prec a \oslash b
    BY <1>4, <2>3, <2>4, LessIs
  <2> QED BY <1>8, <2>5 DEF Positive
<1> QED BY <1>8, <1>9, <1>10

(* Quotients are equal when what they are of is proportional.              *)
LEMMA Proportion ==
    ASSUME NEW a \in Fractions, NEW b, Positive(b), NEW c \in Fractions, NEW e, Positive(e)
    PROVE  a \oslash b = c \oslash e <=> a \otimes e = c \otimes b
<1> DEFINE x == a \oslash b
           y == c \oslash e
           k == b \otimes e
<1>1. b \in Fractions /\ e \in Fractions /\ Positive(k) /\ k \in Fractions
  BY TimesPositive DEF Positive
<1>2. x \in Fractions /\ Even(x \otimes b, a) /\ y \in Fractions /\ Even(y \otimes e, c)
  BY OverUndoes
<1>3. Even(x, y) <=> x = y
  <2>1. Inverted(b) \in Fractions /\ Inverted(e) \in Fractions
    BY <1>1, FractionsClosed DEF Positive
  <2> QED BY <2>1, TimesSame DEF \oslash
<1>4. k = e \otimes b
  BY <1>1, TimesCommutes
<1> HIDE DEF x, y, k
<1>5. x \otimes b \in Fractions /\ y \otimes e \in Fractions /\ Even(e, e) /\ Even(b, b)
  BY <1>1, <1>2, FractionsClosed, EvenOrders
<1>6. x \otimes k = (x \otimes b) \otimes e
  BY <1>1, <1>2, TimesCommutes DEF k
<1>7. y \otimes k = (y \otimes e) \otimes b
  BY <1>1, <1>2, <1>4, TimesCommutes
<1>8. x \otimes k = a \otimes e /\ y \otimes k = c \otimes b
  BY <1>1, <1>2, <1>5, <1>6, <1>7, EvenComputes
<1>9. x \otimes k = y \otimes k <=> Even(x, y)
  BY <1>1, <1>2, TimesCancels
<1> QED BY <1>3, <1>8, <1>9 DEF x, y

-----------------------------------------------------------------------------
(* 7. Vectors.                                                             *)

(* A value held between two bounds.                                        *)
Clamped(x, lo, hi) == Lesser(Greater(x, lo), hi)

LEMMA ClampedIs ==
    ASSUME NEW x \in Fractions, NEW lo \in Fractions, NEW hi \in Fractions, lo \preceq hi
    PROVE  /\ Clamped(x, lo, hi) \in Fractions
           /\ lo \preceq Clamped(x, lo, hi) /\ Clamped(x, lo, hi) \preceq hi
           /\ x \preceq lo => Even(Clamped(x, lo, hi), lo)
           /\ hi \preceq x => Even(Clamped(x, lo, hi), hi)
           /\ lo \preceq x /\ x \preceq hi => Even(Clamped(x, lo, hi), x)
BY LessOrders DEF Clamped, Lesser, Greater, Even

LEMMA ClampedMonotone ==
    ASSUME NEW x \in Fractions, NEW y \in Fractions, NEW lo \in Fractions, NEW hi \in Fractions,
           lo \preceq hi, x \preceq y
    PROVE  Clamped(x, lo, hi) \preceq Clamped(y, lo, hi)
BY LessOrders DEF Clamped, Lesser, Greater

LEMMA WholeIs ==
    ASSUME NEW n \in Nat
    PROVE  /\ Fraction(n, 1) \in Fractions /\ Is(Fraction(n, 1), n, 1)
           /\ Zero \preceq Fraction(n, 1)
           /\ n # 0 => Positive(Fraction(n, 1))
<1>1. Is(Fraction(n, 1), n, 1) /\ Is(Zero, 0, 1)
  BY IsFraction, UnitsAre
<1>2. Zero \preceq Fraction(n, 1) <=> 0 <= n
  BY <1>1, LessIs
<1>3. Zero \prec Fraction(n, 1) <=> 0 < n
  BY <1>1, LessIs
<1> QED BY <1>1, <1>2, <1>3 DEF Is, Positive

(* Ones add up to their number.                                            *)
LEMMA OnesAdd ==
    ASSUME NEW w, NEW S, IsFiniteSet(S), \A x \in S : w[x] = One
    PROVE  Is(AddOver(w, S), Cardinality(S), 1)
<1> DEFINE Bad == {s \in SUBSET S : ~ Is(AddOver(w, s), Cardinality(s), 1)}
<1> SUFFICES ASSUME Bad # {} PROVE FALSE
  OBVIOUS
<1>1. \A s \in Bad : IsFiniteSet(s)
  BY FS_Subset
<1>2. PICK s \in Bad : \A t \in Bad : t \subseteq s => t = s
  <2> HIDE DEF Bad
  <2> QED BY <1>1, Smallest
<1>3. s # {}
  <2>1. Is(Zero, 0, 1)
    BY UnitsAre
  <2> QED BY <2>1, AddEmpty, FS_EmptySet
<1> DEFINE c == Chosen(s)
           t == s \ {c}
<1>4. c \in s /\ s \subseteq S /\ t \in SUBSET S /\ t # s /\ t \subseteq s
  BY <1>3, ChosenIn
<1>5. AddOver(w, s) = w[c] \oplus AddOver(w, t)
  BY <1>1, <1>3, AddUnfolds
<1>6. Is(AddOver(w, t), Cardinality(t), 1)
  BY <1>2, <1>4
<1>7. IsFiniteSet(s) /\ ~ Is(AddOver(w, s), Cardinality(s), 1)
  BY <1>1
<1>8. Cardinality(s) \in Nat /\ Cardinality(t) \in Nat /\ Cardinality(s) = 1 + Cardinality(t)
  <2> HIDE DEF c
  <2>1. Cardinality(t) = Cardinality(s) - 1 /\ Cardinality(s) \in Nat /\ Cardinality(t) \in Nat
    BY <1>4, <1>7, FS_RemoveElement, FS_CardinalityType
  <2> QED BY <2>1
<1>9. w[c] = One /\ Is(One, 1, 1)
  BY <1>4, UnitsAre
<1> DEFINE A == AddOver(w, t)
           k == Cardinality(t)
<1> HIDE DEF Bad, A, k
<1>10. Is(One \oplus A, 1 + k, 1)
  BY <1>6, <1>9, PlusIs DEF A, k
<1> QED BY <1>5, <1>7, <1>8, <1>9, <1>10 DEF A, k

(* What is the same everywhere adds up to as many times that.              *)
LEMMA ConstantAdds ==
    ASSUME NEW w, NEW S, IsFiniteSet(S), NEW k \in Fractions,
           \A x \in S : w[x] \in Fractions /\ Even(w[x], k)
    PROVE  Even(AddOver(w, S), Fraction(Cardinality(S), 1) \otimes k)
<1> DEFINE ones == [x \in S |-> One]
           n == Fraction(Cardinality(S), 1)
<1>1. Cardinality(S) \in Nat
  BY FS_CardinalityType
<1>2. One \in Fractions /\ n \in Fractions /\ Is(n, Cardinality(S), 1)
  BY <1>1, WholeIs, FractionsClosed
<1>3. \A x \in S : ones[x] = One
  OBVIOUS
<1>4. Even(One \otimes k, k)
  BY <1>2, EvenUnits, TimesCommutes
<1>5. \A x \in S : Even(w[x], One \otimes k)
  <2>1. One \otimes k \in Fractions
    BY <1>2, FractionsClosed
  <2> QED BY <1>4, <2>1, EvenOrders
<1> DEFINE A == AddOver(ones, S)
<1> HIDE DEF ones
<1>6. A \in Fractions /\ Even(AddOver(w, S), A \otimes k)
  BY <1>2, <1>3, <1>5, AddTimes, AddType
<1>7. Is(A, Cardinality(S), 1)
  BY <1>3, OnesAdd
<1> HIDE DEF A, n
<1>8. Even(A, n)
  BY <1>2, <1>6, <1>7, EvenIs
<1>9. A \otimes k = n \otimes k
  BY <1>2, <1>6, <1>8, EvenComputes, EvenOrders
<1> QED BY <1>6, <1>9 DEF n

(* The line M - x K through x = (M - T) / K.                               *)
LEMMA LineMeets ==
    ASSUME NEW M \in Fractions, NEW T \in Fractions, NEW K, Positive(K)
    PROVE  LET y == (M \ominus T) \oslash K
           IN  /\ y \in Fractions
               /\ Even(M \ominus (y \otimes K), T)
               /\ \A x \in Fractions : /\ x \preceq y <=> T \preceq M \ominus (x \otimes K)
                                       /\ y \preceq x <=> M \ominus (x \otimes K) \preceq T
<1> DEFINE y == (M \ominus T) \oslash K
<1>1. K \in Fractions /\ M \ominus T \in Fractions /\ Zero \prec K
  BY FractionsClosed DEF Positive
<1>2. y \in Fractions
  BY <1>1, FractionsClosed
<1>3. Even(y \otimes K, M \ominus T)
  BY <1>1, OverUndoes
<1> HIDE DEF y
<1>4. ASSUME NEW x \in Fractions
      PROVE  /\ x \preceq y <=> T \preceq M \ominus (x \otimes K)
             /\ y \preceq x <=> M \ominus (x \otimes K) \preceq T
  <2> DEFINE u == x \otimes K
             v == y \otimes K
  <2>1. u \in Fractions /\ v \in Fractions /\ Even(v, M \ominus T)
    BY <1>1, <1>2, <1>3, FractionsClosed
  <2>2. (x \preceq y <=> u \preceq v) /\ (y \preceq x <=> v \preceq u)
    <3>1. x \preceq y => u \preceq v
      BY <1>1, <1>2, TimesMonotone, LessOrders, FractionsClosed
    <3>2. y \preceq x => v \preceq u
      BY <1>1, <1>2, TimesMonotone, LessOrders, FractionsClosed
    <3>3. ASSUME Even(u, v) PROVE Even(x, y)
      <4>1. u = v
        BY <1>1, <1>2, <3>3, TimesSame
      <4> QED BY <1>2, <4>1, TimesCancels
    <3> HIDE DEF u, v
    <3> QED BY <1>2, <2>1, <3>1, <3>2, <3>3, LessOrders DEF Even
  <2> HIDE DEF u, v
  <2>3. PICK d \in Nat \ {0}, n, m, l, o \in Int :
           Is(u, n, d) /\ Is(v, m, d) /\ Is(M, l, d) /\ Is(T, o, d)
    BY <2>1, CommonFour
  <2>4. Is(M \ominus T, l - o, d) /\ Is(M \ominus u, l - n, d)
    BY <2>3, PlusIs
  <2>5. m <= l - o /\ l - o <= m
    BY <2>1, <2>3, <2>4, LessIs DEF Even
  <2>6. /\ u \preceq v <=> n <= m
        /\ v \preceq u <=> m <= n
        /\ T \preceq M \ominus u <=> o <= l - n
        /\ M \ominus u \preceq T <=> l - n <= o
    BY <2>3, <2>4, LessIs
  <2> QED BY <2>2, <2>5, <2>6 DEF u
<1>5. Even(M \ominus (y \otimes K), T)
  <2>1. y \preceq y
    BY <1>2, LessOrders
  <2> QED BY <1>2, <1>4, <2>1 DEF Even
<1> QED BY <1>2, <1>4, <1>5 DEF y


(* The entries of w less x, clamped; and what they add up to.              *)
Shifted(w, S, x, lo, hi) == [a \in S |-> Clamped(w[a] \ominus x, lo, hi)]

Filled(w, S, x, lo, hi) == AddOver(Shifted(w, S, x, lo, hi), S)

LEMMA ShiftedIs ==
    ASSUME NEW S, IsFiniteSet(S), NEW w \in [S -> Fractions],
           NEW x \in Fractions, NEW lo \in Fractions, NEW hi \in Fractions, lo \preceq hi
    PROVE  /\ Shifted(w, S, x, lo, hi) \in [S -> Fractions]
           /\ \A a \in S : /\ lo \preceq Shifted(w, S, x, lo, hi)[a]
                           /\ Shifted(w, S, x, lo, hi)[a] \preceq hi
           /\ Filled(w, S, x, lo, hi) \in Fractions
<1>1. ASSUME NEW a \in S PROVE w[a] \ominus x \in Fractions
  BY FractionsClosed
<1>2. Shifted(w, S, x, lo, hi) \in [S -> Fractions]
  BY <1>1, ClampedIs DEF Shifted
<1> QED BY <1>1, <1>2, ClampedIs, AddType DEF Shifted, Filled

(* The entries of an x: those at the lower bound, at the upper, and the    *)
(* others, which x moves.                                                  *)
Splits(w, S, x, lo, hi, L, H) ==
    /\ L \subseteq S /\ H \subseteq S /\ L \cap H = {}
    /\ \A a \in L : w[a] \ominus lo \preceq x
    /\ \A a \in H : x \preceq w[a] \ominus hi
    /\ \A a \in S \ (L \cup H) : w[a] \ominus hi \preceq x /\ x \preceq w[a] \ominus lo

Moved(w, S, lo, hi, L, H) ==
    AddOver(w, S \ (L \cup H))
        \oplus ((Fraction(Cardinality(L), 1) \otimes lo)
                    \oplus (Fraction(Cardinality(H), 1) \otimes hi))

LEMMA MinusMoves ==
    ASSUME NEW a \in Fractions, NEW b \in Fractions, NEW x \in Fractions
    PROVE  /\ a \ominus b \preceq x <=> a \ominus x \preceq b
           /\ x \preceq a \ominus b <=> b \preceq a \ominus x
<1>1. PICK d \in Nat \ {0}, n, m, l, o \in Int : Is(a, n, d) /\ Is(b, m, d) /\ Is(x, l, d)
  BY CommonFour
<1>2. Is(a \ominus b, n - m, d) /\ Is(a \ominus x, n - l, d)
  BY <1>1, PlusIs
<1>3. /\ a \ominus b \preceq x <=> n - m <= l
      /\ a \ominus x \preceq b <=> n - l <= m
      /\ x \preceq a \ominus b <=> l <= n - m
      /\ b \preceq a \ominus x <=> m <= n - l
  BY <1>1, <1>2, LessIs
<1> QED BY <1>3

(* a + (b + c) - x k is (a - x k) + b + c.                                  *)
LEMMA MinusAssociates ==
    ASSUME NEW a \in Fractions, NEW b \in Fractions, NEW k \in Fractions, NEW x \in Fractions
    PROVE  (a \oplus b) \ominus (x \otimes k) = (a \oplus (k \otimes Negative(x))) \oplus b
<1> DEFINE u == x \otimes k
           v == k \otimes Negative(x)
           left == (a \oplus b) \ominus u
           right == (a \oplus v) \oplus b
<1>1. PICK d \in Nat \ {0}, n, m, l, o \in Int :
         Is(a, n, d) /\ Is(b, m, d) /\ Is(k, l, d) /\ Is(x, o, d)
  BY CommonFour
<1>2. Is(Negative(x), -o, d)
  BY <1>1, NegativeIs
<1> DEFINE z == o * l
           N == n * d
           K == m * d
           D == d * d
<1>3. l * (-o) = -z /\ z \in Int /\ N \in Int /\ K \in Int
  BY <1>1
<1>4. Is(u, z, D) /\ Is(v, -z, D)
  BY <1>1, <1>2, <1>3, TimesIs
<1>5. Is(a, N, D) /\ Is(b, K, D)
  BY <1>1, IsScaled
<1> HIDE DEF z, N, K, D, u, v
<1>6. Is(a \oplus b, N + K, D) /\ Is(a \oplus v, N + (-z), D)
  BY <1>4, <1>5, PlusIs
<1>7. Is(left, (N + K) - z, D) /\ Lowest(left) /\ Is(right, (N + (-z)) + K, D) /\ Lowest(right)
  BY <1>4, <1>5, <1>6, PlusIs
<1>8. (N + K) - z = (N + (-z)) + K
  BY <1>3
<1> HIDE DEF left, right
<1>9. left = right
  BY <1>7, <1>8, LowestSame
<1> QED BY <1>9 DEF left, right, u, v

(* Between its splits the sum is a line.                                   *)
LEMMA FilledIs ==
    ASSUME NEW S, IsFiniteSet(S), NEW w \in [S -> Fractions],
           NEW x \in Fractions, NEW lo \in Fractions, NEW hi \in Fractions, lo \preceq hi,
           NEW L, NEW H, Splits(w, S, x, lo, hi, L, H)
    PROVE  /\ Moved(w, S, lo, hi, L, H) \in Fractions
           /\ Even(Filled(w, S, x, lo, hi),
                   Moved(w, S, lo, hi, L, H)
                       \ominus (x \otimes Fraction(Cardinality(S \ (L \cup H)), 1)))
<1> DEFINE F == S \ (L \cup H)
           e == Shifted(w, S, x, lo, hi)
           k == Fraction(Cardinality(F), 1)
           l == Fraction(Cardinality(L), 1)
           h == Fraction(Cardinality(H), 1)
<1>1. /\ L \subseteq S /\ H \subseteq S /\ F \subseteq S /\ L \subseteq S \ F /\ H = (S \ F) \ L
      /\ IsFiniteSet(L) /\ IsFiniteSet(H) /\ IsFiniteSet(F) /\ IsFiniteSet(S \ F)
      /\ S \ F \subseteq S
  BY FS_Subset DEF Splits
<1>2. Cardinality(F) \in Nat /\ Cardinality(L) \in Nat /\ Cardinality(H) \in Nat
  BY <1>1, FS_CardinalityType
<1>3. k \in Fractions /\ l \in Fractions /\ h \in Fractions /\ Is(k, Cardinality(F), 1)
  BY <1>2, WholeIs
<1>4. e \in [S -> Fractions]
  BY ShiftedIs
<1>5. \A a \in S : e[a] = Clamped(w[a] \ominus x, lo, hi) /\ w[a] \ominus x \in Fractions
  BY FractionsClosed DEF Shifted
<1>5a. ASSUME NEW y \in Fractions
       PROVE  /\ y \ominus lo \preceq x => Even(Clamped(y \ominus x, lo, hi), lo)
              /\ x \preceq y \ominus hi => Even(Clamped(y \ominus x, lo, hi), hi)
              /\ y \ominus hi \preceq x /\ x \preceq y \ominus lo =>
                    Even(Clamped(y \ominus x, lo, hi), y \ominus x)
  <2>1. y \ominus x \in Fractions
    BY FractionsClosed
  <2>2. /\ y \ominus lo \preceq x <=> y \ominus x \preceq lo
        /\ x \preceq y \ominus lo <=> lo \preceq y \ominus x
        /\ y \ominus hi \preceq x <=> y \ominus x \preceq hi
        /\ x \preceq y \ominus hi <=> hi \preceq y \ominus x
    BY MinusMoves
  <2> QED BY <2>1, <2>2, ClampedIs
<1>5b. /\ \A a \in L : w[a] \ominus lo \preceq x
       /\ \A a \in H : x \preceq w[a] \ominus hi
       /\ \A a \in F : w[a] \ominus hi \preceq x /\ x \preceq w[a] \ominus lo
  BY DEF Splits
<1>5c. \A a \in S : w[a] \in Fractions
  OBVIOUS
<1>6. \A a \in L : Even(e[a], lo)
  BY <1>1, <1>5, <1>5a, <1>5b, <1>5c, Zenon
<1>7. \A a \in H : Even(e[a], hi)
  BY <1>1, <1>5, <1>5a, <1>5b, <1>5c, Zenon
<1>8. \A a \in F : Even(e[a], w[a] \ominus x)
  <2> SUFFICES ASSUME NEW a \in F PROVE Even(e[a], w[a] \ominus x)
    OBVIOUS
  <2>1. a \in S /\ w[a] \in Fractions /\ w[a] \ominus hi \preceq x /\ x \preceq w[a] \ominus lo
    BY <1>1, <1>5b
  <2>2. Even(Clamped(w[a] \ominus x, lo, hi), w[a] \ominus x)
    BY <1>5a, <2>1
  <2> QED BY <1>5, <2>1, <2>2
<1> DEFINE A == AddOver(e, S)
           AF == AddOver(e, F)
           AL == AddOver(e, L)
           AH == AddOver(e, H)
           AR == AddOver(e, S \ F)
           W == AddOver(w, F)
<1> HIDE DEF e, F, k, l, h
<1>9. /\ A \in Fractions /\ AF \in Fractions /\ AL \in Fractions /\ AH \in Fractions
      /\ AR \in Fractions /\ W \in Fractions
  BY <1>1, <1>4, AddType
<1>10. Even(A, AF \oplus AR)
  BY <1>1, <1>4, AddUnion
<1>11. Even(AR, AL \oplus AH)
  BY <1>1, <1>4, AddUnion
<1>12. Even(AL, l \otimes lo)
  BY <1>1, <1>4, <1>6, ConstantAdds DEF l
<1>13. Even(AH, h \otimes hi)
  BY <1>1, <1>4, <1>7, ConstantAdds DEF h
<1>14. Even(AF, W \oplus (k \otimes Negative(x)))
  <2> DEFINE ones == [a \in F |-> One]
  <2>1. \A a \in F : ones[a] = One
    OBVIOUS
  <2> HIDE DEF ones
  <2>2. One \in Fractions /\ Negative(x) \in Fractions
    BY FractionsClosed
  <2>3. \A a \in F : Even(e[a], w[a] \oplus (One \otimes Negative(x)))
    <3> SUFFICES ASSUME NEW a \in F PROVE Even(e[a], w[a] \oplus (One \otimes Negative(x)))
      OBVIOUS
    <3>1. w[a] \in Fractions /\ e[a] \in Fractions /\ Even(e[a], w[a] \ominus x)
      BY <1>1, <1>4, <1>8
    <3> DEFINE y == w[a]
    <3> HIDE DEF y
    <3>2. Even(y \ominus x, y \oplus (One \otimes Negative(x)))
      <4>1. y \in Fractions
        BY <3>1 DEF y
      <4>2. PICK d \in Nat \ {0}, n, m, j, o \in Int : Is(y, n, d) /\ Is(x, m, d)
        BY <4>1, CommonFour
      <4>3. Is(Negative(x), -m, d) /\ Is(One, 1, 1)
        BY <4>2, NegativeIs, UnitsAre
      <4>4. Is(One \otimes Negative(x), 1 * (-m), 1 * d)
        BY <4>3, TimesIs
      <4>5. 1 * (-m) = -m /\ 1 * d = d /\ n - m = n + (-m) /\ n - m <= n - m
        BY <4>2
      <4>6. Is(One \otimes Negative(x), -m, d)
        BY <4>4, <4>5
      <4>7. Is(y \ominus x, n - m, d) /\ Is(y \oplus (One \otimes Negative(x)), n + (-m), d)
        BY <4>2, <4>6, PlusIs
      <4>8. Is(y \oplus (One \otimes Negative(x)), n - m, d)
        BY <4>5, <4>7
      <4> QED BY <4>5, <4>7, <4>8, LessIs DEF Even
    <3>3. y \ominus x \in Fractions /\ y \oplus (One \otimes Negative(x)) \in Fractions
      BY <2>2, <3>1, FractionsClosed DEF y
    <3>4. Even(e[a], y \oplus (One \otimes Negative(x)))
      BY <3>1, <3>2, <3>3, EvenOrders DEF y
    <3> QED BY <3>4 DEF y
  <2> DEFINE B == AddOver(ones, F)
             y == Negative(x)
  <2> HIDE DEF y
  <2>4. \A a \in F : w[a] \in Fractions /\ e[a] \in Fractions /\ ones[a] \in Fractions
    BY <1>1, <1>4, <2>1, <2>2
  <2>5. Even(AF, W \oplus (B \otimes y)) /\ B \in Fractions
    <3>1. y \in Fractions
      BY <2>2 DEF y
    <3>2. \A a \in F : Even(e[a], w[a] \oplus (ones[a] \otimes y))
      BY <2>1, <2>3 DEF y
    <3> QED BY <1>1, <2>4, <3>1, <3>2, AddLinear, AddType
  <2>6. Is(B, Cardinality(F), 1)
    BY <1>1, <2>1, OnesAdd
  <2> HIDE DEF B, AF, W
  <2>7. Even(B, k)
    BY <1>3, <2>5, <2>6, EvenIs
  <2>8. B \otimes y = k \otimes y
    BY <1>3, <2>2, <2>5, <2>7, EvenComputes, EvenOrders DEF y
  <2> QED BY <2>5, <2>8 DEF y
<1> DEFINE b == (l \otimes lo) \oplus (h \otimes hi)
           c == k \otimes Negative(x)
<1> HIDE DEF A, AF, AL, AH, AR, W
<1>15. l \otimes lo \in Fractions /\ h \otimes hi \in Fractions /\ b \in Fractions
       /\ c \in Fractions /\ W \oplus c \in Fractions /\ AL \oplus AH \in Fractions
       /\ W \oplus b \in Fractions /\ AF \oplus AR \in Fractions
  BY <1>3, <1>9, FractionsClosed
<1>16. AL \oplus AH = b
  BY <1>9, <1>12, <1>13, <1>15, EvenComputes
<1> HIDE DEF b, c
<1>17. AF \oplus AR = (W \oplus c) \oplus b
  <2>1. Even(AF, W \oplus c)
    BY <1>14 DEF c
  <2>2. Even(AR, b)
    BY <1>11, <1>16
  <2> QED BY <1>9, <1>15, <2>1, <2>2, EvenComputes
<1>18. (W \oplus b) \ominus (x \otimes k) = (W \oplus c) \oplus b
  BY <1>3, <1>9, <1>15, MinusAssociates DEF c
<1>19. Even(A, (W \oplus b) \ominus (x \otimes k))
  BY <1>10, <1>17, <1>18
<1>20. Moved(w, S, lo, hi, L, H) = W \oplus b
  BY DEF Moved, W, b, l, h, F
<1> QED BY <1>15, <1>19, <1>20 DEF A, Filled, e, k, F


LEMMA TimesOrders ==
    ASSUME NEW a \in Fractions, NEW b \in Fractions, NEW k, Positive(k)
    PROVE  a \otimes k \preceq b \otimes k <=> a \preceq b
<1>1. k \in Fractions /\ Zero \prec k
  BY DEF Positive
<1>2. PICK d \in Nat \ {0}, n, m, l, o \in Int : Is(a, n, d) /\ Is(b, m, d) /\ Is(k, l, d)
  BY <1>1, CommonFour
<1>3. l \in Nat \ {0}
  BY <1>1, <1>2, InvertedIs
<1>4. Is(a \otimes k, n * l, d * d) /\ Is(b \otimes k, m * l, d * d)
  BY <1>2, TimesIs
<1>5. a \otimes k \preceq b \otimes k <=> n * l <= m * l
  BY <1>4, LessIs
<1>6. a \preceq b <=> n <= m
  BY <1>2, LessIs
<1>7. n * l <= m * l <=> n <= m
  BY <1>3, Scales
<1> QED BY <1>5, <1>6, <1>7

LEMMA GreatestExists ==
    ASSUME NEW S, IsFiniteSet(S), S # {}, S \subseteq Fractions
    PROVE  /\ \E x \in S : \A y \in S : x \preceq y
           /\ \E x \in S : \A y \in S : y \preceq x
<1>1. \E x \in S : \A y \in S : x \preceq y
  <2> DEFINE val == [x \in S |-> x]
  <2>1. \A x \in S : val[x] = x /\ val[x] \in Fractions
    OBVIOUS
  <2> HIDE DEF val
  <2>2. \E x \in S : \A y \in S : val[x] \preceq val[y]
    BY <2>1, LeastExists
  <2> QED BY <2>1, <2>2
<1>2. \E x \in S : \A y \in S : y \preceq x
  <2> DEFINE val == [x \in S |-> Negative(x)]
  <2>1. \A x \in S : val[x] = Negative(x) /\ val[x] \in Fractions
    BY FractionsClosed
  <2> HIDE DEF val
  <2>2. PICK x \in S : \A y \in S : val[x] \preceq val[y]
    BY <2>1, LeastExists
  <2>3. ASSUME NEW y \in S PROVE y \preceq x
    <3>1. Negative(x) \preceq Negative(y) /\ x \in Fractions /\ y \in Fractions
      BY <2>1, <2>2
    <3>2. PICK d \in Nat \ {0}, n, m, l, o \in Int : Is(x, n, d) /\ Is(y, m, d)
      BY <3>1, CommonFour
    <3>3. Is(Negative(x), -n, d) /\ Is(Negative(y), -m, d)
      BY <3>2, NegativeIs
    <3>4. -n <= -m
      BY <3>1, <3>3, LessIs
    <3>5. m <= n
      BY <3>2, <3>4
    <3> QED BY <3>2, <3>5, LessIs
  <2> QED BY <2>3
<1> QED BY <1>1, <1>2

(* The more is taken off, the less there is.                               *)
LEMMA FilledMonotone ==
    ASSUME NEW S, IsFiniteSet(S), NEW w \in [S -> Fractions],
           NEW x \in Fractions, NEW y \in Fractions, NEW lo \in Fractions, NEW hi \in Fractions,
           lo \preceq hi, x \preceq y
    PROVE  Filled(w, S, y, lo, hi) \preceq Filled(w, S, x, lo, hi)
<1> DEFINE e == Shifted(w, S, x, lo, hi)
           f == Shifted(w, S, y, lo, hi)
<1>1. ASSUME NEW a \in S PROVE e[a] \in Fractions /\ f[a] \in Fractions /\ f[a] \preceq e[a]
  <2>1. w[a] \in Fractions /\ w[a] \ominus x \in Fractions /\ w[a] \ominus y \in Fractions
    BY FractionsClosed
  <2>2. w[a] \ominus y \preceq w[a] \ominus x
    <3> DEFINE z == w[a]
    <3>1. z \in Fractions
      BY <2>1
    <3> HIDE DEF z
    <3>2. PICK d \in Nat \ {0}, n, m, l, o \in Int : Is(z, n, d) /\ Is(x, m, d) /\ Is(y, l, d)
      BY <3>1, CommonFour
    <3>3. Is(z \ominus x, n - m, d) /\ Is(z \ominus y, n - l, d)
      BY <3>2, PlusIs
    <3>4. m <= l
      BY <3>2, LessIs
    <3>5. n - l <= n - m
      BY <3>4
    <3>6. z \ominus y \preceq z \ominus x
      BY <3>3, <3>5, LessIs
    <3> QED BY <3>6 DEF z
  <2>3. e[a] = Clamped(w[a] \ominus x, lo, hi) /\ f[a] = Clamped(w[a] \ominus y, lo, hi)
    BY DEF Shifted
  <2> QED BY <2>1, <2>2, <2>3, ClampedMonotone, ClampedIs
<1> HIDE DEF e, f
<1> QED BY <1>1, AddLess DEF Filled, e, f

(* Where all are at a bound.                                               *)
LEMMA FilledBounds ==
    ASSUME NEW S, IsFiniteSet(S), NEW w \in [S -> Fractions],
           NEW x \in Fractions, NEW lo \in Fractions, NEW hi \in Fractions, lo \preceq hi
    PROVE  LET N == Fraction(Cardinality(S), 1)
           IN  /\ (\A a \in S : w[a] \ominus lo \preceq x) =>
                     Even(Filled(w, S, x, lo, hi), N \otimes lo)
               /\ (\A a \in S : x \preceq w[a] \ominus hi) =>
                     Even(Filled(w, S, x, lo, hi), N \otimes hi)
<1> DEFINE e == Shifted(w, S, x, lo, hi)
<1>1. \A a \in S : /\ e[a] = Clamped(w[a] \ominus x, lo, hi) /\ e[a] \in Fractions
                   /\ w[a] \ominus x \in Fractions
  BY FractionsClosed, ClampedIs DEF Shifted
<1> HIDE DEF e
<1>2. ASSUME \A a \in S : w[a] \ominus lo \preceq x
      PROVE  \A a \in S : Even(e[a], lo)
  <2> TAKE a \in S
  <2>1. w[a] \in Fractions /\ w[a] \ominus lo \preceq x
    BY <1>2
  <2>2. w[a] \ominus x \preceq lo
    BY <2>1, MinusMoves
  <2>3. Even(Clamped(w[a] \ominus x, lo, hi), lo)
    BY <1>1, <2>2, ClampedIs
  <2> QED BY <1>1, <2>3
<1>3. ASSUME \A a \in S : x \preceq w[a] \ominus hi
      PROVE  \A a \in S : Even(e[a], hi)
  <2> TAKE a \in S
  <2>1. w[a] \in Fractions /\ x \preceq w[a] \ominus hi
    BY <1>3
  <2>2. hi \preceq w[a] \ominus x
    BY <2>1, MinusMoves
  <2>3. Even(Clamped(w[a] \ominus x, lo, hi), hi)
    BY <1>1, <2>2, ClampedIs
  <2> QED BY <1>1, <2>3
<1> QED BY <1>1, <1>2, <1>3, ConstantAdds DEF Filled, e


(* Values between the bounds can be given any sum that so many values      *)
(* between the bounds may have, by taking the same off each.               *)
LEMMA FillsTo ==
    ASSUME NEW S, IsFiniteSet(S), S # {}, NEW w \in [S -> Fractions],
           NEW lo \in Fractions, NEW hi \in Fractions, NEW T \in Fractions,
           Fraction(Cardinality(S), 1) \otimes lo \preceq T,
           T \preceq Fraction(Cardinality(S), 1) \otimes hi
    PROVE  \E L, H \in SUBSET S :
              LET K == Fraction(Cardinality(S \ (L \cup H)), 1)
                  x == (Moved(w, S, lo, hi, L, H) \ominus T) \oslash K
              IN  /\ L \cap H = {} /\ L \cup H # S
                  /\ x \in Fractions /\ Even(Filled(w, S, x, lo, hi), T)
<1> DEFINE N == Fraction(Cardinality(S), 1)
           V(x) == Filled(w, S, x, lo, hi)
           Low == {w[a] \ominus lo : a \in S}
           High == {w[a] \ominus hi : a \in S}
           B == Low \cup High
<1>1. Positive(N) /\ N \in Fractions
  <2>1. Cardinality(S) \in Nat /\ Cardinality(S) # 0
    BY FS_CardinalityType, FS_EmptySet
  <2> QED BY <2>1, WholeIs
<1>2. lo \preceq hi
  <2>1. N \otimes lo \in Fractions /\ N \otimes hi \in Fractions
    BY <1>1, FractionsClosed
  <2>2. N \otimes lo \preceq N \otimes hi
    BY <2>1, LessOrders
  <2>3. lo \otimes N \preceq hi \otimes N
    BY <1>1, <2>2, TimesCommutes
  <2> QED BY <1>1, <2>3, TimesOrders
<1>3. \A x \in Fractions : V(x) \in Fractions
  BY <1>2, ShiftedIs
<1>4. \A x, y \in Fractions : x \preceq y => V(y) \preceq V(x)
  BY <1>2, FilledMonotone
<1>5. IsFiniteSet(B) /\ B # {} /\ B \subseteq Fractions
  <2> DEFINE f == [a \in S |-> w[a] \ominus lo]
             g == [a \in S |-> w[a] \ominus hi]
  <2>1. f \in Surjection(S, Low) /\ g \in Surjection(S, High)
    BY DEF Surjection
  <2>2. IsFiniteSet(Low) /\ IsFiniteSet(High)
    <3> HIDE DEF f, g, Low, High
    <3> QED BY <2>1, FS_Surjection
  <2>3. IsFiniteSet(B)
    <3> HIDE DEF Low, High
    <3> QED BY <2>2, FS_Union
  <2>4. \A a \in S : w[a] \ominus lo \in Fractions /\ w[a] \ominus hi \in Fractions
    BY FractionsClosed
  <2> QED BY <2>3, <2>4
<1> DEFINE U == {b \in B : T \preceq V(b)}
           D == {b \in B : ~ (T \preceq V(b))}
<1>6. IsFiniteSet(U) /\ IsFiniteSet(D) /\ U \subseteq Fractions /\ D \subseteq Fractions
  <2> HIDE DEF B
  <2> QED BY <1>5, FS_Subset
<1>7. PICK least \in B, most \in B : \A b \in B : least \preceq b /\ b \preceq most
  <2> HIDE DEF B
  <2> QED BY <1>5, GreatestExists
<1>8. \A a \in S : w[a] \ominus lo \in B /\ w[a] \ominus hi \in B
  OBVIOUS
<1> HIDE DEF Low, High, B
<1>9. T \preceq V(least)
  <2>1. least \in Fractions /\ N \otimes hi \in Fractions /\ V(least) \in Fractions
    BY <1>1, <1>3, <1>5, FractionsClosed
  <2>2. Even(V(least), N \otimes hi)
    BY <1>2, <1>7, <1>8, <2>1, FilledBounds
  <2> HIDE DEF V, N
  <2> QED BY <2>1, <2>2, LessOrders DEF Even, N
<1>10. V(most) \preceq T
  <2>1. most \in Fractions /\ N \otimes lo \in Fractions /\ V(most) \in Fractions
    BY <1>1, <1>3, <1>5, FractionsClosed
  <2>2. Even(V(most), N \otimes lo)
    BY <1>2, <1>7, <1>8, <2>1, FilledBounds
  <2> HIDE DEF V, N
  <2> QED BY <2>1, <2>2, LessOrders DEF Even, N
<1>11. PICK b \in U : \A y \in U : y \preceq b
  <2>1. least \in U
    BY <1>9
  <2> HIDE DEF U
  <2> QED BY <1>6, <2>1, GreatestExists
<1>12. b \in B /\ b \in Fractions /\ T \preceq V(b) /\ V(b) \in Fractions
  BY <1>3, <1>6, <1>11
<1> DEFINE Goal(L, H) ==
              LET K == Fraction(Cardinality(S \ (L \cup H)), 1)
                  x == (Moved(w, S, lo, hi, L, H) \ominus T) \oslash K
              IN  /\ L \cap H = {} /\ L \cup H # S
                  /\ x \in Fractions /\ Even(Filled(w, S, x, lo, hi), T)
<1>13. ASSUME NEW L, NEW H, Splits(w, S, b, lo, hi, L, H), L \cup H # S,
              LET K == Fraction(Cardinality(S \ (L \cup H)), 1)
                  x == (Moved(w, S, lo, hi, L, H) \ominus T) \oslash K
              IN  Splits(w, S, x, lo, hi, L, H)
       PROVE  Goal(L, H)
  <2> DEFINE F == S \ (L \cup H)
             K == Fraction(Cardinality(F), 1)
             M == Moved(w, S, lo, hi, L, H)
             x == (M \ominus T) \oslash K
  <2>1. L \subseteq S /\ H \subseteq S /\ L \cap H = {} /\ F # {} /\ IsFiniteSet(F)
    BY <1>13, FS_Subset DEF Splits
  <2>2. Positive(K) /\ K \in Fractions
    <3> HIDE DEF F
    <3>1. Cardinality(F) \in Nat /\ Cardinality(F) # 0
      BY <2>1, FS_CardinalityType, FS_EmptySet
    <3> QED BY <3>1, WholeIs
  <2>3. M \in Fractions
    BY <1>2, <1>12, <1>13, FilledIs
  <2>4. x \in Fractions /\ Even(M \ominus (x \otimes K), T)
    <3> HIDE DEF M, K
    <3> QED BY <2>2, <2>3, LineMeets
  <2>5. Splits(w, S, x, lo, hi, L, H)
    BY <1>13
  <2> HIDE DEF x
  <2>6. Even(V(x), M \ominus (x \otimes K)) /\ V(x) \in Fractions
    BY <1>2, <1>3, <2>4, <2>5, FilledIs
  <2>7. M \ominus (x \otimes K) \in Fractions
    <3> HIDE DEF M, K
    <3> QED BY <2>2, <2>3, <2>4, FractionsClosed
  <2>8. Even(V(x), T)
    <3> HIDE DEF V, M, K
    <3> QED BY <2>4, <2>6, <2>7, EvenOrders
  <2> QED BY <2>1, <2>4, <2>8 DEF x
<1>14. CASE V(b) \preceq T
  <2> DEFINE L == {a \in S : w[a] \ominus lo \preceq b /\ ~ (b \preceq w[a] \ominus lo)}
             H == {a \in S : b \preceq w[a] \ominus hi /\ ~ (w[a] \ominus hi \preceq b)}
  <2>1. \A a \in S : /\ w[a] \ominus lo \in Fractions /\ w[a] \ominus hi \in Fractions
                     /\ w[a] \ominus hi \preceq w[a] \ominus lo
    <3> SUFFICES ASSUME NEW a \in S
                 PROVE  /\ w[a] \ominus lo \in Fractions /\ w[a] \ominus hi \in Fractions
                        /\ w[a] \ominus hi \preceq w[a] \ominus lo
      OBVIOUS
    <3> DEFINE z == w[a]
    <3>1. z \in Fractions
      OBVIOUS
    <3> HIDE DEF z
    <3>2. PICK d \in Nat \ {0}, n, m, l, o \in Int : Is(z, n, d) /\ Is(lo, m, d) /\ Is(hi, l, d)
      BY <3>1, CommonFour
    <3>3. Is(z \ominus lo, n - m, d) /\ Is(z \ominus hi, n - l, d)
      BY <3>2, PlusIs
    <3>4. m <= l
      BY <1>2, <3>2, LessIs
    <3>5. n - l <= n - m
      BY <3>4
    <3>6. z \ominus hi \preceq z \ominus lo
      BY <3>3, <3>5, LessIs
    <3> QED BY <3>1, <3>3, <3>6 DEF z, Is
  <2>2. Splits(w, S, b, lo, hi, L, H)
    <3>1. L \cap H = {}
      <4> SUFFICES ASSUME NEW a \in S, a \in L, a \in H PROVE FALSE
        OBVIOUS
      <4> QED BY <1>12, <2>1, LessOrders
    <3>2. \A a \in S \ (L \cup H) : w[a] \ominus hi \preceq b /\ b \preceq w[a] \ominus lo
      <4> TAKE a \in S \ (L \cup H)
      <4> QED BY <1>12, <2>1, LessOrders
    <3> QED BY <3>1, <3>2 DEF Splits
  <2>3. L \cup H # S
    <3>1. PICK a \in S : b = w[a] \ominus lo \/ b = w[a] \ominus hi
      BY <1>12 DEF B, Low, High
    <3>2. a \notin L
      BY <1>12, <2>1, <3>1, LessOrders
    <3>3. a \notin H
      BY <1>12, <2>1, <3>1, LessOrders
    <3> QED BY <3>2, <3>3
  <2> DEFINE F == S \ (L \cup H)
             K == Fraction(Cardinality(F), 1)
             M == Moved(w, S, lo, hi, L, H)
             x == (M \ominus T) \oslash K
  <2>4. L \in SUBSET S /\ H \in SUBSET S
    OBVIOUS
  <2> HIDE DEF L, H
  <2>5. Positive(K) /\ K \in Fractions
    <3>1. IsFiniteSet(F) /\ F # {}
      BY <2>3, <2>4, FS_Subset
    <3> HIDE DEF F
    <3>2. Cardinality(F) \in Nat /\ Cardinality(F) # 0
      BY <3>1, FS_CardinalityType, FS_EmptySet
    <3> QED BY <3>2, WholeIs
  <2>6. M \in Fractions /\ Even(V(b), M \ominus (b \otimes K))
    BY <1>2, <1>12, <2>2, FilledIs
  <2> HIDE DEF K, M
  <2>7. x \in Fractions /\ (b \preceq x <=> T \preceq M \ominus (b \otimes K))
        /\ (x \preceq b <=> M \ominus (b \otimes K) \preceq T)
    BY <1>12, <2>5, <2>6, LineMeets
  <2>8. M \ominus (b \otimes K) \in Fractions
    BY <1>12, <2>5, <2>6, FractionsClosed
  <2>9. Even(b, x)
    <3> HIDE DEF V
    <3> QED BY <1>12, <1>14, <2>6, <2>7, <2>8, LessOrders DEF Even
  <2> HIDE DEF x
  <2>10. Splits(w, S, x, lo, hi, L, H)
    <3>1. \A a \in S : /\ w[a] \ominus lo \preceq b <=> w[a] \ominus lo \preceq x
                       /\ b \preceq w[a] \ominus lo <=> x \preceq w[a] \ominus lo
                       /\ w[a] \ominus hi \preceq b <=> w[a] \ominus hi \preceq x
                       /\ b \preceq w[a] \ominus hi <=> x \preceq w[a] \ominus hi
      <4> TAKE a \in S
      <4> DEFINE y == w[a] \ominus lo
                 z == w[a] \ominus hi
      <4>1. y \in Fractions /\ z \in Fractions
        BY <2>1
      <4> HIDE DEF y, z
      <4>2. /\ y \preceq b <=> y \preceq x
            /\ b \preceq y <=> x \preceq y
            /\ z \preceq b <=> z \preceq x
            /\ b \preceq z <=> x \preceq z
        BY <1>12, <2>7, <2>9, <4>1, LessOrders DEF Even
      <4> QED BY <4>2 DEF y, z
    <3> QED BY <2>2, <2>4, <3>1 DEF Splits
  <2>11. Goal(L, H)
    BY <1>13, <2>2, <2>3, <2>10 DEF x, M, K
  <2> QED BY <2>4, <2>11
<1>15. CASE ~ (V(b) \preceq T)
  <2>1. most \in D
    <3>1. ASSUME most \in U PROVE FALSE
      <4>1. most \preceq b /\ most \in Fractions
        BY <1>6, <1>11, <3>1
      <4>2. V(b) \preceq V(most) /\ V(most) \in Fractions
        BY <1>3, <1>4, <1>12, <4>1
      <4> HIDE DEF V
      <4> QED BY <1>10, <1>12, <1>15, <4>2, LessOrders
    <3> QED BY <1>7, <3>1
  <2>2. PICK c \in D : \A y \in D : c \preceq y
    <3> HIDE DEF D
    <3> QED BY <1>6, <2>1, GreatestExists
  <2>3. c \in B /\ c \in Fractions /\ V(c) \in Fractions /\ ~ (T \preceq V(c))
    BY <1>3, <1>6, <2>2
  <2>4. b \preceq c
    <3>1. ASSUME c \preceq b PROVE FALSE
      <4>1. V(b) \preceq V(c)
        BY <1>4, <1>12, <2>3, <3>1
      <4> HIDE DEF V
      <4> QED BY <1>12, <2>3, <4>1, LessOrders
    <3> QED BY <1>12, <2>3, <3>1, LessOrders
  <2>5. \A y \in B : y \preceq b \/ c \preceq y
    BY <1>11, <2>2
  <2> DEFINE L == {a \in S : w[a] \ominus lo \preceq b}
             H == {a \in S \ L : c \preceq w[a] \ominus hi}
             F == S \ (L \cup H)
             K == Fraction(Cardinality(F), 1)
             M == Moved(w, S, lo, hi, L, H)
             x == (M \ominus T) \oslash K
  <2>6. \A a \in S : w[a] \ominus lo \in Fractions /\ w[a] \ominus hi \in Fractions
    BY FractionsClosed
  <2>7. /\ \A a \in L : w[a] \ominus lo \preceq b
        /\ \A a \in H : c \preceq w[a] \ominus hi
        /\ \A a \in F : w[a] \ominus hi \preceq b /\ c \preceq w[a] \ominus lo
    BY <1>8, <2>5
  <2>8. ASSUME NEW y \in Fractions, b \preceq y, y \preceq c
        PROVE  Splits(w, S, y, lo, hi, L, H)
    <3>1. \A a \in L : w[a] \ominus lo \preceq y
      <4> TAKE a \in L
      <4>1. w[a] \ominus lo \preceq b /\ w[a] \ominus lo \in Fractions
        BY <2>6, <2>7
      <4> QED BY <1>12, <2>8, <4>1, LessOrders
    <3>2. \A a \in H : y \preceq w[a] \ominus hi
      <4> TAKE a \in H
      <4>1. c \preceq w[a] \ominus hi /\ w[a] \ominus hi \in Fractions
        BY <2>6, <2>7
      <4> QED BY <2>3, <2>8, <4>1, LessOrders
    <3>3. \A a \in F : w[a] \ominus hi \preceq y /\ y \preceq w[a] \ominus lo
      <4> TAKE a \in F
      <4>1. /\ w[a] \ominus hi \preceq b /\ w[a] \ominus hi \in Fractions
            /\ c \preceq w[a] \ominus lo /\ w[a] \ominus lo \in Fractions
        BY <2>6, <2>7
      <4> QED BY <1>12, <2>3, <2>8, <4>1, LessOrders
    <3>4. L \subseteq S /\ H \subseteq S /\ L \cap H = {}
      OBVIOUS
    <3> HIDE DEF L, H
    <3> QED BY <3>1, <3>2, <3>3, <3>4 DEF Splits
  <2>9. b \preceq b /\ c \preceq c
    BY <1>12, <2>3, LessOrders
  <2>10. Splits(w, S, b, lo, hi, L, H) /\ Splits(w, S, c, lo, hi, L, H)
    BY <1>12, <2>3, <2>4, <2>8, <2>9
  <2>11. IsFiniteSet(F) /\ L \in SUBSET S /\ H \in SUBSET S
    BY FS_Subset
  <2> HIDE DEF L, H
  <2>12. /\ M \in Fractions
         /\ Even(V(b), M \ominus (b \otimes K)) /\ Even(V(c), M \ominus (c \otimes K))
    BY <1>2, <1>12, <2>3, <2>10, FilledIs
  <2>13. L \cup H # S
    <3>1. ASSUME F = {} PROVE FALSE
      <4>1. K = Fraction(0, 1) /\ Is(K, 0, 1) /\ K \in Fractions
        BY <3>1, FS_EmptySet, WholeIs
      <4>2. Even(K, Zero) /\ Zero \in Fractions
        BY <4>1, UnitsAre, EvenIs, EvenOrders, FractionsClosed
      <4> HIDE DEF K, M, V
      <4>3. b \otimes K = b \otimes Zero /\ c \otimes K = c \otimes Zero
        BY <1>12, <2>3, <4>1, <4>2, EvenComputes, EvenOrders
      <4>4. Even(b \otimes Zero, Zero) /\ Even(c \otimes Zero, Zero)
        BY <1>12, <2>3, EvenUnits
      <4>5. b \otimes Zero \in Fractions /\ c \otimes Zero \in Fractions
        BY <1>12, <2>3, <4>2, FractionsClosed
      <4>6. M \ominus (b \otimes K) = M \ominus (c \otimes K)
        <5>1. Even(b \otimes Zero, c \otimes Zero) /\ Even(M, M)
          BY <2>12, <4>2, <4>4, <4>5, EvenOrders
        <5>2. M \ominus (b \otimes Zero) = M \ominus (c \otimes Zero)
          BY <2>12, <4>5, <5>1, EvenComputes
        <5> QED BY <4>3, <5>2
      <4>7. M \ominus (b \otimes K) \in Fractions
        BY <1>12, <2>12, <4>1, FractionsClosed
      <4>8. V(b) \preceq V(c)
        BY <1>12, <2>3, <2>12, <4>6, <4>7, LessOrders DEF Even
      <4> QED BY <1>12, <2>3, <4>8, LessOrders
    <3> QED BY <3>1
  <2>14. Positive(K) /\ K \in Fractions
    <3>1. F # {}
      BY <2>11, <2>13
    <3> HIDE DEF F
    <3>2. Cardinality(F) \in Nat /\ Cardinality(F) # 0
      BY <2>11, <3>1, FS_CardinalityType, FS_EmptySet
    <3> QED BY <3>2, WholeIs
  <2> HIDE DEF K, M
  <2>15. /\ x \in Fractions
         /\ b \preceq x <=> T \preceq M \ominus (b \otimes K)
         /\ x \preceq c <=> M \ominus (c \otimes K) \preceq T
    BY <1>12, <2>3, <2>12, <2>14, LineMeets
  <2>16. M \ominus (b \otimes K) \in Fractions /\ M \ominus (c \otimes K) \in Fractions
    BY <1>12, <2>3, <2>12, <2>14, FractionsClosed
  <2> HIDE DEF x
  <2>17. b \preceq x /\ x \preceq c
    <3> HIDE DEF V
    <3> QED BY <1>12, <2>3, <2>12, <2>15, <2>16, LessOrders DEF Even
  <2>18. Splits(w, S, x, lo, hi, L, H)
    BY <2>8, <2>15, <2>17
  <2>19. Goal(L, H)
    BY <1>13, <2>10, <2>13, <2>18 DEF x, M, K
  <2> QED BY <2>11, <2>19
<1> QED BY <1>14, <1>15

LEMMA UnitsLowest == Lowest(One) /\ Lowest(Zero)
<1>1. \A a, b \in Nat : Gcd[<<a, b>>] = IF b = 0 THEN a ELSE Gcd[<<b, a % b>>]
  BY GcdSteps
<1>2. 1 % 1 = 0 /\ 0 % 1 = 0 /\ 1 \div 1 = 1 /\ 0 \div 1 = 0
  OBVIOUS
<1>3. Gcd[<<1, 0>>] = 1
  BY <1>1
<1>4. Gcd[<<1, 1>>] = Gcd[<<1, 1 % 1>>] /\ Gcd[<<0, 1>>] = Gcd[<<1, 0 % 1>>]
  BY <1>1
<1>5. Gcd[<<1, 1>>] = 1 /\ Gcd[<<0, 1>>] = 1
  BY <1>2, <1>3, <1>4
<1>6. /\ Fraction(1, 1) = [num |-> 1 \div 1, den |-> 1 \div 1]
      /\ Fraction(0, 1) = [num |-> 0 \div 1, den |-> 1 \div 1]
  BY <1>5 DEF Fraction, Divided
<1> QED BY <1>2, <1>6 DEF Lowest, One, Zero

(* Sums are in lowest terms, and depend on what is summed.                 *)
LEMMA AddLowest ==
    ASSUME NEW w, NEW S, IsFiniteSet(S), \A x \in S : w[x] \in Fractions
    PROVE  Lowest(AddOver(w, S))
<1>1. CASE S = {}
  BY <1>1, AddEmpty, UnitsLowest
<1>2. CASE S # {}
  <2> DEFINE c == Chosen(S)
             a == w[c]
             b == AddOver(w, S \ {c})
  <2>1. c \in S
    BY <1>2, ChosenIn
  <2>2. AddOver(w, S) = a \oplus b
    BY <1>2, AddUnfolds
  <2>3. a \in Fractions /\ b \in Fractions
    <3>1. IsFiniteSet(S \ {c})
      BY FS_Subset
    <3> HIDE DEF c
    <3> QED BY <2>1, <3>1, AddType
  <2> HIDE DEF a, b, c
  <2>4. PICK d \in Nat \ {0}, n, m, l, o \in Int : Is(a, n, d) /\ Is(b, m, d)
    BY <2>3, CommonFour
  <2> QED BY <2>2, <2>4, PlusIs
<1> QED BY <1>1, <1>2

LEMMA AddAgrees ==
    ASSUME NEW w, NEW v, NEW S, IsFiniteSet(S), \A x \in S : w[x] \in Fractions /\ w[x] = v[x]
    PROVE  AddOver(w, S) = AddOver(v, S)
<1>1. \A x \in S : w[x] \in Fractions /\ v[x] \in Fractions /\ Even(w[x], v[x])
  BY EvenOrders
<1>2. Even(AddOver(w, S), AddOver(v, S))
  BY <1>1, AddEven
<1>3. /\ AddOver(w, S) \in Fractions /\ Lowest(AddOver(w, S))
      /\ AddOver(v, S) \in Fractions /\ Lowest(AddOver(v, S))
  BY <1>1, AddType, AddLowest
<1> QED BY <1>2, <1>3, EvenOrders

LEMMA TotalsAre ==
    ASSUME NEW S, IsFiniteSet(S), NEW w \in [S -> Fractions]
    PROVE  /\ Total(w) = AddOver(w, S)
           /\ Total(w) \in Fractions /\ Lowest(Total(w))
<1>1. Total(w) = AddOver(w, S) /\ \A x \in S : w[x] \in Fractions
  BY TotalIs
<1> QED BY <1>1, AddType, AddLowest
=============================================================================
