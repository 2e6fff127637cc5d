--------------------------- MODULE Research_proofs ---------------------------
(***************************************************************************)
(* The parts of the research, for any number of days, reports, panels,     *)
(* commits, matrices, symbols and changes of membership: measures of       *)
(* fundamentals never look ahead, a published paper is built from one      *)
(* release and a reviewed one is reproduced or refused, who was a member   *)
(* of the index is what its reconstruction answers, adjusted closes have   *)
(* the returns of a holder, a strategy asks for the history it reads, no   *)
(* later session enters a decision, the folds of walk-forward tests stay   *)
(* apart, and no overlay adds risk to what an optimizer allocates.         *)
(***************************************************************************)
EXTENDS MCResearch, Sums_proofs, Sequences, FiniteSetTheorems, SequenceTheorems,
        WellFoundedInduction, TLAPS

researchVars ==
    <<exercised, vars, release, membership, adjustments, decisions, overlays, calendar>>

LEMMA MinExists ==
    ASSUME NEW S \in SUBSET Nat, S # {}
    PROVE  Min(S) \in S /\ \A n \in S : Min(S) <= n
<1> DEFINE Below == {p \in Nat \X Nat : p[1] < p[2]}
<1>1. IsWellFoundedOn(Below, Nat)
  BY NatLessThanWellFounded DEF OpToRel
<1>2. PICK m \in S : \A n \in S : <<n, m>> \notin Below
  <2> HIDE DEF Below
  <2> QED BY <1>1, WFMin
<1>3. ASSUME NEW n \in S PROVE m <= n
  <2>1. m \in Nat /\ n \in Nat
    OBVIOUS
  <2>2. ~ (n < m)
    BY <1>2, <2>1
  <2> QED BY <2>1, <2>2
<1> HIDE DEF Below
<1> QED BY <1>2, <1>3 DEF Min

-----------------------------------------------------------------------------
(* Overlays.  The instance defines the arithmetic of its vectors again.    *)
LEMMA PlainFractions ==
    /\ Overlays!Fractions = Fractions /\ Overlays!Zero = Zero /\ Overlays!One = One
    /\ \A n, d : Overlays!Fraction(n, d) = Fraction(n, d)
BY DEF Overlays!Fraction, Overlays!Divided, Overlays!Gcd, Fraction, Divided, Gcd,
       Overlays!Fractions, Fractions, Overlays!Zero, Zero, Overlays!One, One

LEMMA PlainArithmetic ==
    \A a, b : /\ Overlays!\oplus(a, b) = a \oplus b
              /\ Overlays!\ominus(a, b) = a \ominus b
              /\ Overlays!\otimes(a, b) = a \otimes b
              /\ Overlays!\oslash(a, b) = a \oslash b
<1>1. \A a, b : /\ Overlays!\oplus(a, b) = a \oplus b
                /\ Overlays!\ominus(a, b) = a \ominus b
                /\ Overlays!\otimes(a, b) = a \otimes b
  BY PlainFractions DEF Overlays!\oplus, \oplus, Overlays!\ominus, \ominus,
                        Overlays!\otimes, \otimes
<1>2. \A a : Overlays!Inverted(a) = Inverted(a)
  BY DEF Overlays!Inverted, Inverted
<1> QED BY <1>1, <1>2 DEF Overlays!\oslash, \oslash

LEMMA PlainOrder ==
    \A a, b : /\ Overlays!\preceq(a, b) <=> a \preceq b
              /\ Overlays!\prec(a, b) <=> a \prec b
              /\ Overlays!Lesser(a, b) = Lesser(a, b)
              /\ Overlays!Greater(a, b) = Greater(a, b)
              /\ Overlays!Negative(a) = Negative(a)
              /\ Overlays!Size(a) = Size(a)
<1>1. \A a, b : /\ Overlays!\preceq(a, b) <=> a \preceq b
                /\ Overlays!\prec(a, b) <=> a \prec b
  BY DEF Overlays!\preceq, \preceq, Overlays!\prec, \prec
<1>2. \A a : Overlays!Negative(a) = Negative(a)
  BY DEF Overlays!Negative, Negative
<1>3. \A a : Overlays!Size(a) = Size(a)
  BY <1>1, <1>2, PlainFractions DEF Overlays!Size, Size
<1>4. \A a, b : /\ Overlays!Lesser(a, b) = Lesser(a, b)
                /\ Overlays!Greater(a, b) = Greater(a, b)
  BY <1>1 DEF Overlays!Lesser, Lesser, Overlays!Greater, Greater
<1> QED BY <1>1, <1>2, <1>3, <1>4

LEMMA PlainTotal == \A f : Overlays!Total(f) = Total(f)
BY PlainFractions
   DEF Overlays!Total, Overlays!FoldFunction, Overlays!FoldFunctionOnSet,
       Overlays!MapThenFoldSet, Overlays!\oplus, Overlays!Zero,
       Total, FoldFunction, FoldFunctionOnSet, MapThenFoldSet, \oplus, Zero

LEMMA PlainVectors ==
    /\ \A f : Overlays!Gross(f) = Gross(f)
    /\ \A f, g : Overlays!Dot(f, g) = Dot(f, g)
    /\ \A f, k : Overlays!Scaled(f, k) = Scaled(f, k)
    /\ \A f, g : Overlays!Sum2(f, g) = Sum2(f, g)
<1>1. ASSUME NEW f, NEW g, NEW k
      PROVE  /\ [x \in DOMAIN f |-> Overlays!Size(f[x])] = [x \in DOMAIN f |-> Size(f[x])]
             /\ [x \in DOMAIN f |-> Overlays!\otimes(f[x], g[x])]
                  = [x \in DOMAIN f |-> f[x] \otimes g[x]]
             /\ [x \in DOMAIN f |-> Overlays!\otimes(f[x], k)] = [x \in DOMAIN f |-> f[x] \otimes k]
             /\ [x \in DOMAIN f |-> Overlays!\oplus(f[x], g[x])]
                  = [x \in DOMAIN f |-> f[x] \oplus g[x]]
  BY PlainOrder, PlainArithmetic
<1>2. \A f : Overlays!Gross(f) = Gross(f)
  BY <1>1, PlainTotal DEF Overlays!Gross, Gross
<1>3. \A f, g : Overlays!Dot(f, g) = Dot(f, g)
  BY <1>1, PlainTotal DEF Overlays!Dot, Dot
<1>4. \A f, k : Overlays!Scaled(f, k) = Scaled(f, k)
  BY <1>1 DEF Overlays!Scaled, Scaled
<1>5. \A f, g : Overlays!Sum2(f, g) = Sum2(f, g)
  BY <1>1 DEF Overlays!Sum2, Sum2
<1> QED BY <1>2, <1>3, <1>4, <1>5

LEMMA PlainSets ==
    /\ \A S : Overlays!Cardinality(S) = Cardinality(S)
    /\ \A f, S : Overlays!Restrict(f, S) = [x \in S |-> f[x]]
<1>1. \A S : Overlays!Cardinality(S) = Cardinality(S)
  BY Zenon DEF Overlays!Cardinality, Cardinality
<1> QED BY <1>1 DEF Overlays!Restrict

(* The shifts project_bounded_sum considers, one for each split.           *)
Theta(w, S, T, lo, hi, L, H) ==
    (Moved(w, S, lo, hi, L, H) \ominus T) \oslash Fraction(Cardinality(S \ (L \cup H)), 1)

Parted(S, L, H) == L \in SUBSET S /\ H \in SUBSET S /\ L \cap H = {} /\ L \cup H # S

LEMMA ThetaType ==
    ASSUME NEW S, IsFiniteSet(S), NEW w \in [S -> Fractions],
           NEW lo \in Fractions, NEW hi \in Fractions, NEW T \in Fractions,
           NEW L, NEW H, Parted(S, L, H)
    PROVE  Theta(w, S, T, lo, hi, L, H) \in Fractions
<1> DEFINE F == S \ (L \cup H)
<1>1. /\ IsFiniteSet(F) /\ F # {} /\ F \subseteq S
      /\ IsFiniteSet(L) /\ IsFiniteSet(H)
  BY FS_Subset DEF Parted
<1>2. Cardinality(L) \in Nat /\ Cardinality(H) \in Nat /\ Cardinality(F) \in Nat
      /\ Cardinality(F) # 0
  BY <1>1, FS_CardinalityType, FS_EmptySet
<1> DEFINE l == Fraction(Cardinality(L), 1)
           h == Fraction(Cardinality(H), 1)
           k == Fraction(Cardinality(F), 1)
           A == AddOver(w, F)
<1>3. l \in Fractions /\ h \in Fractions /\ Positive(k)
  BY <1>2, WholeIs
<1>4. A \in Fractions
  BY <1>1, AddType
<1> HIDE DEF l, h, k, A
<1>5. A \oplus ((l \otimes lo) \oplus (h \otimes hi)) \in Fractions
  <2>1. l \otimes lo \in Fractions /\ h \otimes hi \in Fractions
    BY <1>3, FractionsClosed
  <2>2. (l \otimes lo) \oplus (h \otimes hi) \in Fractions
    BY <2>1, FractionsClosed
  <2> QED BY <1>4, <2>2, FractionsClosed
<1> DEFINE M == A \oplus ((l \otimes lo) \oplus (h \otimes hi))
<1> HIDE DEF M
<1>6. M \ominus T \in Fractions
  BY <1>5, FractionsClosed DEF M
<1>7. (M \ominus T) \oslash k \in Fractions
  BY <1>3, <1>6, OverUndoes
<1> QED BY <1>7 DEF Theta, Moved, M, A, l, h, k, F

LEMMA ThetasAre ==
    ASSUME NEW S, IsFiniteSet(S), NEW w \in [S -> Fractions],
           NEW lo \in Fractions, NEW hi \in Fractions, NEW T \in Fractions, NEW theta
    PROVE  theta \in Overlays!Thetas(w, T, lo, hi) <=>
              \E L, H : Parted(S, L, H) /\ theta = Theta(w, S, T, lo, hi, L, H)
<1> DEFINE pairs == {p \in (SUBSET S) \X (SUBSET S) :
                         p[1] \cap p[2] = {} /\ p[1] \cup p[2] # S}
           at(p) == Theta(w, S, T, lo, hi, p[1], p[2])
           code(p) ==
             Overlays!\oslash(
                 Overlays!\ominus(
                     Overlays!\oplus(
                         Overlays!Total(Overlays!Restrict(w, S \ (p[1] \cup p[2]))),
                         Overlays!\oplus(
                             Overlays!\otimes(Overlays!Fraction(Overlays!Cardinality(p[1]), 1), lo),
                             Overlays!\otimes(Overlays!Fraction(Overlays!Cardinality(p[2]), 1), hi))),
                     T),
                 Overlays!Fraction(Overlays!Cardinality(S \ (p[1] \cup p[2])), 1))
<1>1. ASSUME NEW F \in SUBSET S
      PROVE  Overlays!Total(Overlays!Restrict(w, F)) = AddOver(w, F)
  <2> DEFINE v == [x \in F |-> w[x]]
  <2>1. Overlays!Restrict(w, F) = v
    BY PlainSets
  <2>2. IsFiniteSet(F) /\ \A x \in F : w[x] \in Fractions /\ w[x] = v[x]
    BY FS_Subset
  <2>3. DOMAIN v = F
    OBVIOUS
  <2> HIDE DEF v
  <2>4. Total(v) = AddOver(v, F)
    BY <2>3, TotalIs
  <2>5. AddOver(w, F) = AddOver(v, F)
    BY <2>2, AddAgrees
  <2> QED BY <2>1, <2>4, <2>5, PlainTotal
<1>2. ASSUME NEW p \in pairs PROVE code(p) = at(p)
  <2>1. S \ (p[1] \cup p[2]) \in SUBSET S
    OBVIOUS
  <2>2. Overlays!Total(Overlays!Restrict(w, S \ (p[1] \cup p[2])))
          = AddOver(w, S \ (p[1] \cup p[2]))
    BY <1>1, <2>1
  <2> QED BY <2>2, PlainFractions, PlainArithmetic, PlainSets DEF Theta, Moved
<1>3. Overlays!Thetas(w, T, lo, hi) = {code(p) : p \in pairs}
  <2>1. DOMAIN w = S
    OBVIOUS
  <2> QED BY <2>1, Zenon DEF Overlays!Thetas
<1> HIDE DEF code
<1>4. Overlays!Thetas(w, T, lo, hi) = {at(p) : p \in pairs}
  BY <1>2, <1>3
<1>5. ASSUME theta \in Overlays!Thetas(w, T, lo, hi)
      PROVE  \E L, H : Parted(S, L, H) /\ theta = Theta(w, S, T, lo, hi, L, H)
  <2>1. PICK p \in pairs : theta = at(p)
    BY <1>4, <1>5
  <2>2. Parted(S, p[1], p[2])
    BY DEF Parted
  <2> QED BY <2>1, <2>2
<1>6. ASSUME NEW L, NEW H, Parted(S, L, H), theta = Theta(w, S, T, lo, hi, L, H)
      PROVE  theta \in Overlays!Thetas(w, T, lo, hi)
  <2>1. <<L, H>> \in pairs
    BY <1>6 DEF Parted
  <2>2. at(<<L, H>>) = theta
    BY <1>6
  <2> HIDE DEF at, pairs
  <2> QED BY <1>4, <2>1, <2>2
<1> QED BY <1>5, <1>6

LEMMA PlainClipped ==
    /\ \A x, lo, hi : Overlays!Clip(x, lo, hi) = Clamped(x, lo, hi)
    /\ \A w, lo, hi : Overlays!Clipped(w, lo, hi) = [a \in DOMAIN w |-> Clamped(w[a], lo, hi)]
    /\ \A w, x, lo, hi : Overlays!Clipped([a \in DOMAIN w |-> Overlays!\ominus(w[a], x)], lo, hi)
                           = Shifted(w, DOMAIN w, x, lo, hi)
<1>1. \A x, lo, hi : Overlays!Clip(x, lo, hi) = Clamped(x, lo, hi)
  BY PlainOrder DEF Overlays!Clip, Clamped
<1>2. \A w, lo, hi : Overlays!Clipped(w, lo, hi) = [a \in DOMAIN w |-> Clamped(w[a], lo, hi)]
  BY <1>1 DEF Overlays!Clipped
<1>3. ASSUME NEW w, NEW x, NEW lo, NEW hi
      PROVE  Overlays!Clipped([a \in DOMAIN w |-> Overlays!\ominus(w[a], x)], lo, hi)
               = Shifted(w, DOMAIN w, x, lo, hi)
  <2> DEFINE v == [a \in DOMAIN w |-> Overlays!\ominus(w[a], x)]
  <2>1. DOMAIN v = DOMAIN w /\ \A a \in DOMAIN w : v[a] = w[a] \ominus x
    BY PlainArithmetic
  <2> HIDE DEF v
  <2>2. Overlays!Clipped(v, lo, hi) = [a \in DOMAIN v |-> Clamped(v[a], lo, hi)]
    BY <1>2
  <2>3. Overlays!Clipped(v, lo, hi) = Shifted(w, DOMAIN w, x, lo, hi)
    BY <2>1, <2>2 DEF Shifted
  <2> QED BY <2>3 DEF v
<1> QED BY <1>1, <1>2, <1>3

(* What project_bounded_sum returns keeps the bounds and has the sum, and  *)
(* is what was asked for, shifted, unless a bound leaves nothing to choose. *)
Bounded(v, S, lo, hi, T) ==
    /\ v \in [S -> Fractions] /\ Total(v) = T
    /\ \A a \in S : lo \preceq v[a] /\ v[a] \preceq hi

Possible(n, T, lo, hi) ==
    Fraction(n, 1) \otimes lo \preceq T /\ T \preceq Fraction(n, 1) \otimes hi

LEMMA PossibleOrders ==
    ASSUME NEW n \in Nat \ {0}, NEW lo \in Fractions, NEW hi \in Fractions, NEW T \in Fractions,
           Possible(n, T, lo, hi)
    PROVE  lo \preceq hi
<1> DEFINE N == Fraction(n, 1)
<1>1. Positive(N) /\ N \in Fractions
  BY WholeIs
<1> HIDE DEF N
<1>2. N \otimes lo \in Fractions /\ N \otimes hi \in Fractions
      /\ N \otimes lo = lo \otimes N /\ N \otimes hi = hi \otimes N
  BY <1>1, FractionsClosed, TimesCommutes
<1>3. N \otimes lo \preceq T /\ T \preceq N \otimes hi
  BY DEF Possible, N
<1>4. N \otimes lo \preceq N \otimes hi
  BY <1>2, <1>3, LessOrders
<1> QED BY <1>1, <1>2, <1>4, TimesOrders

LEMMA ConstantBounded ==
    ASSUME NEW S, IsFiniteSet(S), S # {},
           NEW lo \in Fractions, NEW hi \in Fractions, lo \preceq hi,
           NEW k \in Fractions, lo \preceq k, k \preceq hi
    PROVE  Bounded([a \in S |-> k], S, lo, hi, Fraction(Cardinality(S), 1) \otimes k)
<1> DEFINE v == [a \in S |-> k]
           n == Cardinality(S)
           N == Fraction(n, 1)
<1>1. v \in [S -> Fractions] /\ \A a \in S : v[a] = k
  OBVIOUS
<1> HIDE DEF v
<1>2. n \in Nat
  BY FS_CardinalityType
<1>3. \A a \in S : v[a] \in Fractions /\ Even(v[a], k)
  BY <1>1, EvenOrders
<1>4. Even(AddOver(v, S), N \otimes k)
  BY <1>3, ConstantAdds
<1>5. Total(v) = AddOver(v, S) /\ Total(v) \in Fractions /\ Lowest(Total(v))
  BY <1>1, TotalsAre
<1>6. N \otimes k \in Fractions /\ Lowest(N \otimes k)
  <2>1. N \in Fractions /\ Is(N, n, 1)
    BY <1>2, WholeIs
  <2> HIDE DEF N
  <2>2. Is(k, k.num, k.den)
    BY IsSelf
  <2> QED BY <2>1, <2>2, TimesIs, FractionsClosed
<1> HIDE DEF N
<1>7. Total(v) = N \otimes k
  BY <1>4, <1>5, <1>6, EvenOrders
<1> QED BY <1>1, <1>7 DEF Bounded, v, N, n

LEMMA ShiftedBounded ==
    ASSUME NEW S, IsFiniteSet(S), NEW w \in [S -> Fractions],
           NEW x \in Fractions, NEW lo \in Fractions, NEW hi \in Fractions, lo \preceq hi,
           NEW T \in Fractions, Lowest(T)
    PROVE  /\ Total(Shifted(w, S, x, lo, hi)) = Filled(w, S, x, lo, hi)
           /\ Even(Filled(w, S, x, lo, hi), T) =>
                 Bounded(Shifted(w, S, x, lo, hi), S, lo, hi, T)
           /\ Total(Shifted(w, S, x, lo, hi)) = T =>
                 Bounded(Shifted(w, S, x, lo, hi), S, lo, hi, T)
<1> DEFINE v == Shifted(w, S, x, lo, hi)
<1>1. /\ v \in [S -> Fractions] /\ Filled(w, S, x, lo, hi) = AddOver(v, S)
      /\ \A a \in S : lo \preceq v[a] /\ v[a] \preceq hi
  BY ShiftedIs DEF Filled
<1> HIDE DEF v
<1>2. Total(v) = AddOver(v, S) /\ Total(v) \in Fractions /\ Lowest(Total(v))
  BY <1>1, TotalsAre
<1>3. Even(Total(v), T) => Total(v) = T
  BY <1>2, EvenOrders
<1> QED BY <1>1, <1>2, <1>3 DEF Bounded, v

LEMMA ProjectionIs ==
    ASSUME NEW S, IsFiniteSet(S), S # {}, NEW w \in [S -> Fractions],
           NEW lo \in Fractions, NEW hi \in Fractions, NEW T \in Fractions, Lowest(T)
    PROVE  LET n == Cardinality(S)
               v == Overlays!ProjectBoundedSum(w, T, lo, hi)
           IN  /\ ~ Possible(n, T, lo, hi) => v = Raised
               /\ Possible(n, T, lo, hi) =>
                     /\ Bounded(v, S, lo, hi, T)
                     /\ \/ T = Fraction(n, 1) \otimes lo
                        \/ T = Fraction(n, 1) \otimes hi
                        \/ \E x \in Fractions : v = Shifted(w, S, x, lo, hi)
<1> DEFINE n == Cardinality(S)
           N == Fraction(n, 1)
           v == Overlays!ProjectBoundedSum(w, T, lo, hi)
           code(x) == Overlays!Clipped([a \in DOMAIN w |-> Overlays!\ominus(w[a], x)], lo, hi)
           theta == CHOOSE x \in Overlays!Thetas(w, T, lo, hi) : Overlays!Total(code(x)) = T
<1>0. DOMAIN w = S
  OBVIOUS
<1>1. v = IF ~ Overlays!Feasible(Overlays!Cardinality(DOMAIN w), T, lo, hi) THEN Raised
          ELSE IF T = Overlays!\otimes(Overlays!Fraction(Overlays!Cardinality(DOMAIN w), 1), lo)
            THEN [a \in DOMAIN w |-> lo]
          ELSE IF T = Overlays!\otimes(Overlays!Fraction(Overlays!Cardinality(DOMAIN w), 1), hi)
            THEN [a \in DOMAIN w |-> hi]
          ELSE code(theta)
  BY Zenon DEF Overlays!ProjectBoundedSum
<1>2. \A x : code(x) = Shifted(w, S, x, lo, hi)
  BY <1>0, PlainClipped
<1>3. \A m : Overlays!Feasible(m, T, lo, hi) <=> Possible(m, T, lo, hi)
  BY PlainFractions, PlainArithmetic, PlainOrder DEF Overlays!Feasible, Possible
<1> HIDE DEF v, code, theta
<1>4. v = IF ~ Possible(n, T, lo, hi) THEN Raised
          ELSE IF T = N \otimes lo THEN [a \in S |-> lo]
          ELSE IF T = N \otimes hi THEN [a \in S |-> hi]
          ELSE Shifted(w, S, theta, lo, hi)
  BY <1>0, <1>1, <1>2, <1>3, PlainFractions, PlainArithmetic, PlainSets
<1>5. n \in Nat \ {0}
  BY FS_CardinalityType, FS_EmptySet
<1> HIDE DEF n
<1>6. ASSUME Possible(n, T, lo, hi)
      PROVE  /\ Bounded(v, S, lo, hi, T)
             /\ \/ T = N \otimes lo
                \/ T = N \otimes hi
                \/ \E x \in Fractions : v = Shifted(w, S, x, lo, hi)
  <2>1. lo \preceq hi
    BY <1>5, <1>6, PossibleOrders
  <2>2. lo \preceq lo /\ hi \preceq hi
    BY LessOrders
  <2>3. Bounded([a \in S |-> lo], S, lo, hi, N \otimes lo)
    BY <2>1, <2>2, ConstantBounded DEF n
  <2>4. Bounded([a \in S |-> hi], S, lo, hi, N \otimes hi)
    BY <2>1, <2>2, ConstantBounded DEF n
  <2>5. PICK L, H \in SUBSET S :
           LET K == Fraction(Cardinality(S \ (L \cup H)), 1)
               x == (Moved(w, S, lo, hi, L, H) \ominus T) \oslash K
           IN  /\ L \cap H = {} /\ L \cup H # S
               /\ x \in Fractions /\ Even(Filled(w, S, x, lo, hi), T)
    <3>1. N \otimes lo \preceq T /\ T \preceq N \otimes hi
      BY <1>6 DEF Possible
    <3> QED BY <3>1, FillsTo DEF n
  <2> DEFINE x == Theta(w, S, T, lo, hi, L, H)
  <2>6. Parted(S, L, H) /\ x \in Fractions /\ Even(Filled(w, S, x, lo, hi), T)
    BY <2>5 DEF Parted, Theta
  <2>7. x \in Overlays!Thetas(w, T, lo, hi)
    BY <2>6, ThetasAre
  <2> HIDE DEF x
  <2>8. Total(Shifted(w, S, x, lo, hi)) = T
    BY <2>1, <2>6, ShiftedBounded DEF Bounded
  <2>9. Overlays!Total(code(x)) = T
    BY <1>2, <2>8, PlainTotal
  <2>10. theta \in Overlays!Thetas(w, T, lo, hi) /\ Overlays!Total(code(theta)) = T
    BY <2>7, <2>9 DEF theta
  <2>11. theta \in Fractions
    <3>1. PICK M, G : Parted(S, M, G) /\ theta = Theta(w, S, T, lo, hi, M, G)
      BY <2>10, ThetasAre
    <3> QED BY <3>1, ThetaType
  <2>12. Total(Shifted(w, S, theta, lo, hi)) = T
    BY <1>2, <2>10, PlainTotal
  <2>13. Bounded(Shifted(w, S, theta, lo, hi), S, lo, hi, T)
    BY <2>1, <2>11, <2>12, ShiftedBounded
  <2>14. CASE T = N \otimes lo
    BY <1>4, <1>6, <2>3, <2>14
  <2>15. CASE T # N \otimes lo /\ T = N \otimes hi
    BY <1>4, <1>6, <2>4, <2>15
  <2>16. CASE T # N \otimes lo /\ T # N \otimes hi
    BY <1>4, <1>6, <2>11, <2>13, <2>16
  <2> QED BY <2>14, <2>15, <2>16
<1>7. ~ Possible(n, T, lo, hi) => v = Raised
  BY <1>4
<1> QED BY <1>6, <1>7 DEF v, N, n

-----------------------------------------------------------------------------
(* What the optimisers return has a weight for each asset they were given, *)
(* unless they raise.                                                      *)
Books(S) == [S -> Fractions]

Answers(S) == Books(S) \cup {Raised}

LEMMA ScaledType ==
    ASSUME NEW S, NEW w \in Books(S), NEW k \in Fractions
    PROVE  /\ Scaled(w, k) \in Books(S)
           /\ \A a \in S : Scaled(w, k)[a] = w[a] \otimes k
<1>1. \A a \in S : w[a] \otimes k \in Fractions
  BY FractionsClosed DEF Books
<1> QED BY <1>1 DEF Books, Scaled

LEMMA GrossType ==
    ASSUME NEW S, IsFiniteSet(S), NEW w \in Books(S)
    PROVE  /\ Gross(w) = AddOver([a \in S |-> Size(w[a])], S)
           /\ Gross(w) \in Fractions /\ Lowest(Gross(w)) /\ Zero \preceq Gross(w)
           /\ \A a \in S : Size(w[a]) \preceq Gross(w)
<1> DEFINE v == [a \in S |-> Size(w[a])]
<1>1. ASSUME NEW a \in S PROVE v[a] \in Fractions /\ Zero \preceq v[a] /\ v[a] = Size(w[a])
  <2>1. w[a] \in Fractions
    BY DEF Books
  <2> QED BY <2>1, SizePositive, FractionsClosed
<1>2. v \in [S -> Fractions] /\ Gross(w) = Total(v)
  BY <1>1 DEF Gross, Books
<1> HIDE DEF v
<1>3. Gross(w) = AddOver(v, S) /\ Gross(w) \in Fractions /\ Lowest(Gross(w))
  BY <1>2, TotalsAre
<1>4. Zero \preceq AddOver(v, S) /\ \A a \in S : v[a] \preceq AddOver(v, S)
  BY <1>1, AddNotNegative
<1> QED BY <1>1, <1>3, <1>4 DEF v

(* What is not zero and not negative can be divided by.                    *)
LEMMA PositiveIs ==
    ASSUME NEW a \in Fractions, Lowest(a), a # Zero, Zero \preceq a
    PROVE  Positive(a)
<1>1. Zero \in Fractions
  BY FractionsClosed
<1>2. ~ Even(a, Zero)
  BY <1>1, EvenOrders, UnitsLowest
<1> QED BY <1>1, <1>2, LessOrders DEF Positive, Even

LEMMA LongOnlyType ==
    ASSUME NEW S, IsFiniteSet(S), NEW w \in Books(S)
    PROVE  Overlays!NormalizeLongOnly(w) \in Answers(S)
<1> DEFINE v == [a \in DOMAIN w |-> Overlays!Greater(w[a], Overlays!Zero)]
<1>1. ASSUME NEW a \in S PROVE v[a] \in Fractions /\ Zero \preceq v[a]
  <2>1. w[a] \in Fractions /\ Zero \in Fractions
    BY FractionsClosed DEF Books
  <2>2. v[a] = Greater(w[a], Zero)
    BY PlainOrder, PlainFractions DEF Books
  <2>3. Greater(w[a], Zero) \in Fractions /\ Zero \preceq Greater(w[a], Zero)
    BY <2>1, LessOrders DEF Greater
  <2> QED BY <2>2, <2>3
<1>2. v \in Books(S)
  BY <1>1 DEF Books
<1>3. Overlays!NormalizeLongOnly(w)
        = IF Overlays!Total(v) = Overlays!Zero THEN Raised
          ELSE Overlays!Scaled(v, Overlays!\oslash(Overlays!One, Overlays!Total(v)))
  BY Zenon DEF Overlays!NormalizeLongOnly
<1> HIDE DEF v
<1>4. Overlays!NormalizeLongOnly(w)
        = IF Total(v) = Zero THEN Raised ELSE Scaled(v, One \oslash Total(v))
  BY <1>3, PlainFractions, PlainArithmetic, PlainTotal, PlainVectors
<1>5. ASSUME Total(v) # Zero PROVE Scaled(v, One \oslash Total(v)) \in Books(S)
  <2>1. Total(v) = AddOver(v, S) /\ Total(v) \in Fractions /\ Lowest(Total(v))
    BY <1>2, TotalsAre DEF Books
  <2>2. Zero \preceq AddOver(v, S)
    BY <1>1, AddNotNegative
  <2>3. Positive(Total(v)) /\ One \in Fractions
    BY <1>5, <2>1, <2>2, PositiveIs, FractionsClosed
  <2>4. One \oslash Total(v) \in Fractions
    BY <2>3, OverUndoes
  <2> QED BY <1>2, <2>4, ScaledType
<1> QED BY <1>4, <1>5 DEF Answers

LEMMA CentredType ==
    ASSUME NEW S, IsFiniteSet(S), S # {}, NEW w \in Books(S)
    PROVE  Overlays!Centred(w) \in Books(S)
<1> DEFINE mean == Overlays!\oslash(Overlays!Total(w),
                                    Overlays!Fraction(Overlays!Cardinality(DOMAIN w), 1))
<1>1. Overlays!Centred(w) = [a \in DOMAIN w |-> Overlays!\ominus(w[a], mean)]
  BY Zenon DEF Overlays!Centred
<1>2. mean = Total(w) \oslash Fraction(Cardinality(S), 1)
  BY PlainFractions, PlainArithmetic, PlainTotal, PlainSets DEF Books
<1> HIDE DEF mean
<1>3. mean \in Fractions
  <2>1. Cardinality(S) \in Nat \ {0}
    BY FS_CardinalityType, FS_EmptySet
  <2>2. Positive(Fraction(Cardinality(S), 1))
    BY <2>1, WholeIs
  <2>3. Total(w) \in Fractions
    BY TotalsAre DEF Books
  <2> QED BY <1>2, <2>2, <2>3, OverUndoes
<1>4. ASSUME NEW a \in S PROVE Overlays!\ominus(w[a], mean) \in Fractions
  <2>1. w[a] \in Fractions
    BY DEF Books
  <2> QED BY <1>3, <2>1, PlainArithmetic, FractionsClosed
<1> QED BY <1>1, <1>4 DEF Books

LEMMA SignsOfUnits ==
    /\ Zero \in Fractions /\ One \in Fractions /\ Negative(One) \in Fractions
    /\ Negative(One) \preceq Zero /\ Zero \preceq One /\ Negative(One) \preceq One
    /\ Negative(Zero) = Zero
<1>1. Is(Zero, 0, 1) /\ Is(One, 1, 1) /\ Is(Negative(One), -1, 1)
  BY UnitsAre, NegativeIs
<1>2. Zero \in Fractions /\ One \in Fractions /\ Negative(One) \in Fractions
  BY <1>1 DEF Is
<1>3. /\ Negative(One) \preceq Zero <=> -1 <= 0
      /\ Zero \preceq One <=> 0 <= 1
      /\ Negative(One) \preceq One <=> -1 <= 1
  BY <1>1, LessIs
<1>4. Negative(Zero) = Zero
  BY DEF Negative, Zero
<1> QED BY <1>2, <1>3, <1>4

LEMMA MarketNeutralType ==
    ASSUME NEW S, IsFiniteSet(S), S # {}, NEW w \in Books(S)
    PROVE  Overlays!NormalizeMarketNeutral(w) \in Answers(S)
<1> DEFINE v == Overlays!Centred(w)
           u == Overlays!Scaled(v, Overlays!\oslash(Overlays!One, Overlays!Gross(v)))
           x == Overlays!Clipped(u, Overlays!Negative(Overlays!One), Overlays!One)
<1>1. v \in Books(S)
  BY CentredType
<1>2. Overlays!NormalizeMarketNeutral(w)
        = IF Overlays!Gross(v) = Overlays!Zero THEN Raised ELSE Overlays!Centred(x)
  BY Zenon DEF Overlays!NormalizeMarketNeutral
<1> HIDE DEF v
<1>3. ASSUME Gross(v) # Zero PROVE Overlays!Centred(x) \in Books(S)
  <2>1. Gross(v) \in Fractions /\ Lowest(Gross(v)) /\ Zero \preceq Gross(v)
    BY <1>1, GrossType
  <2>2. Positive(Gross(v)) /\ One \in Fractions
    BY <1>3, <2>1, PositiveIs, FractionsClosed
  <2>3. One \oslash Gross(v) \in Fractions
    BY <2>2, OverUndoes
  <2>4. u = Scaled(v, One \oslash Gross(v))
    BY PlainFractions, PlainArithmetic, PlainVectors
  <2>5. u \in Books(S)
    BY <1>1, <2>3, <2>4, ScaledType
  <2> HIDE DEF u
  <2>6. x = [a \in S |-> Clamped(u[a], Negative(One), One)]
    BY <2>5, PlainFractions, PlainOrder, PlainClipped DEF Books
  <2>7. Negative(One) \in Fractions /\ One \in Fractions /\ Negative(One) \preceq One
    BY SignsOfUnits
  <2>8. x \in Books(S)
    <3>1. \A a \in S : u[a] \in Fractions
      BY <2>5 DEF Books
    <3>2. \A a \in S : Clamped(u[a], Negative(One), One) \in Fractions
      BY <2>7, <3>1, ClampedIs
    <3> QED BY <2>6, <3>2 DEF Books
  <2> QED BY <2>8, CentredType
<1> HIDE DEF x
<1> QED BY <1>2, <1>3, PlainVectors, PlainFractions DEF Answers

(* The sum of a mode.                                                      *)
SumOf(mode) == IF mode = "long_only" THEN One ELSE Zero

Invested(v, S, o) == v = Raised \/ (v \in Books(S) /\ Total(v) = SumOf(o.mode))

LEMMA ConfiguredIs ==
    ASSUME NEW S, IsFiniteSet(S), S # {}, NEW w \in Answers(S),
           NEW o, o.lower \in Fractions, o.upper \in Fractions
    PROVE  Invested(Overlays!ProjectConfiguredBounds(w, o), S, o)
<1> DEFINE T == Overlays!TargetSum(o.mode)
           lo == Overlays!Floor(o)
           v == Overlays!ProjectBoundedSum(w, T, lo, o.upper)
<1>1. T = SumOf(o.mode) /\ T \in Fractions /\ Lowest(T)
  BY PlainFractions, SignsOfUnits, UnitsLowest DEF Overlays!TargetSum, SumOf
<1>2. lo \in Fractions
  BY PlainFractions, PlainOrder, SignsOfUnits, FractionsClosed DEF Overlays!Floor
<1>3. Overlays!ProjectConfiguredBounds(w, o) = IF w = Raised THEN Raised ELSE v
  BY Zenon DEF Overlays!ProjectConfiguredBounds
<1> HIDE DEF T, lo
<1>4. ASSUME w # Raised PROVE v = Raised \/ Bounded(v, S, lo, o.upper, T)
  <2>1. w \in [S -> Fractions]
    BY <1>4 DEF Answers, Books
  <2> QED BY <1>1, <1>2, <2>1, ProjectionIs
<1> HIDE DEF v
<1> QED BY <1>1, <1>3, <1>4 DEF Invested, Bounded, Books

LEMMA SingleIs ==
    ASSUME NEW S, IsFiniteSet(S), S # {},
           NEW o, o.lower \in Fractions, o.upper \in Fractions
    PROVE  Invested(Overlays!Single(S, o), S, o)
<1> DEFINE v == [a \in S |-> Overlays!TargetSum(o.mode)]
<1>1. Overlays!TargetSum(o.mode) \in Fractions
  BY PlainFractions, SignsOfUnits DEF Overlays!TargetSum
<1>2. v \in Answers(S)
  BY <1>1 DEF Books, Answers
<1>3. Overlays!Single(S, o) = Overlays!ProjectConfiguredBounds(v, o)
  BY Zenon DEF Overlays!Single
<1> HIDE DEF v
<1> QED BY <1>2, <1>3, ConfiguredIs

LEMMA SubsetsAre ==
    ASSUME NEW S \in SUBSET {1, 2, 3}, IsFiniteSet(S), S # {}, NEW w \in Answers({1, 2, 3}),
           NEW o, o.lower \in Fractions, o.upper \in Fractions
    PROVE  /\ Invested(Overlays!MeanVarianceSubset(w, S, o), S, o)
           /\ Invested(Overlays!MinimumVarianceSubset(w, S, o), S, o)
           /\ Invested(Overlays!RiskParitySubset(w, S, o), S, o)
<1> DEFINE v == Overlays!Restrict(w, S)
<1>0. Invested(Raised, S, o)
  BY DEF Invested
<1>1. Invested(Overlays!Single(S, o), S, o)
  BY SingleIs
<1>2. w # Raised => v \in Books(S) /\ v \in Answers(S)
  BY PlainSets DEF Books, Answers
<1> HIDE DEF v
<1>3. w # Raised => Invested(Overlays!ProjectConfiguredBounds(v, o), S, o)
  BY <1>2, ConfiguredIs
<1>4. w # Raised => Overlays!NormalizeMarketNeutral(v) \in Answers(S)
  BY <1>2, MarketNeutralType
<1>5. w # Raised =>
         Invested(Overlays!ProjectConfiguredBounds(Overlays!NormalizeMarketNeutral(v), o), S, o)
  BY <1>4, ConfiguredIs
<1>6. w # Raised => Overlays!NormalizeLongOnly(v) \in Answers(S)
  BY <1>2, LongOnlyType
<1>7. w # Raised =>
         Invested(Overlays!ProjectConfiguredBounds(Overlays!NormalizeLongOnly(v), o), S, o)
  BY <1>6, ConfiguredIs
<1>8. Invested(Overlays!MeanVarianceSubset(w, S, o), S, o)
  BY <1>0, <1>1, <1>3, <1>5 DEF Overlays!MeanVarianceSubset, v
<1>9. Invested(Overlays!MinimumVarianceSubset(w, S, o), S, o)
  BY <1>0, <1>1, <1>3 DEF Overlays!MinimumVarianceSubset, v
<1>10. Invested(Overlays!RiskParitySubset(w, S, o), S, o)
  BY <1>0, <1>1, <1>7 DEF Overlays!RiskParitySubset, v
<1> QED BY <1>8, <1>9, <1>10

LEMMA OnAliveType ==
    ASSUME NEW S \in SUBSET {1, 2, 3}, NEW w, NEW o, S # {} => Invested(w, S, o)
    PROVE  Overlays!OnAlive(w, S, o) \in Answers({1, 2, 3})
<1> DEFINE whole == IF o.mode = "long_only"
                      THEN Overlays!\oslash(Overlays!One, Overlays!Total(w)) ELSE Overlays!One
           v == [a \in {1, 2, 3} |-> IF a \in S THEN Overlays!\otimes(w[a], whole)
                                     ELSE Overlays!Zero]
<1>1. \/ Overlays!OnAlive(w, S, o) = Raised
      \/ S # {} /\ w # Raised /\ Overlays!OnAlive(w, S, o) = v
  BY Zenon DEF Overlays!OnAlive
<1>2. ASSUME S # {}, w # Raised PROVE v \in Books({1, 2, 3})
  <2>1. w \in Books(S) /\ Total(w) = SumOf(o.mode)
    BY <1>2 DEF Invested
  <2>2. whole \in Fractions
    <3>1. One \oslash One \in Fractions
      BY OnePositive, SignsOfUnits, OverUndoes
    <3>2. o.mode = "long_only" => whole = One \oslash One
      BY <2>1, PlainFractions, PlainArithmetic, PlainTotal DEF SumOf
    <3> QED BY <3>1, <3>2, PlainFractions, SignsOfUnits
  <2> HIDE DEF whole
  <2>3. ASSUME NEW a \in S PROVE Overlays!\otimes(w[a], whole) \in Fractions
    <3>1. w[a] \in Fractions
      BY <2>1 DEF Books
    <3> QED BY <2>2, <3>1, PlainArithmetic, FractionsClosed
  <2> QED BY <2>3, PlainFractions, SignsOfUnits DEF Books
<1> HIDE DEF v
<1> QED BY <1>1, <1>2 DEF Answers

LEMMA ThreeAssets ==
    /\ IsFiniteSet({1, 2, 3}) /\ {1, 2, 3} # {}
    /\ Cardinality({1, 2, 3}) = 3
<1>1. {1, 2, 3} = 1..3
  OBVIOUS
<1>2. IsFiniteSet(1..3) /\ Cardinality(1..3) = 3
  <2>1. 1 \in Int /\ 3 \in Int
    OBVIOUS
  <2>2. IsFiniteSet(1..3) /\ Cardinality(1..3) = IF 1 > 3 THEN 0 ELSE 3 - 1 + 1
    BY <2>1, FS_Interval, Zenon
  <2> QED BY <2>2
<1> QED BY <1>1, <1>2

LEMMA SolversType ==
    ASSUME NEW w \in Answers({1, 2, 3}), NEW S \in SUBSET {1, 2, 3},
           NEW o, o.lower \in Fractions, o.upper \in Fractions
    PROVE  /\ Overlays!MeanVariance(w, S, o) \in Answers({1, 2, 3})
           /\ Overlays!MinimumVariance(w, S, o) \in Answers({1, 2, 3})
           /\ Overlays!RiskParity(w, S, o) \in Answers({1, 2, 3})
<1>1. IsFiniteSet(S)
  <2>1. IsFiniteSet({1, 2, 3})
    BY ThreeAssets
  <2> QED BY <2>1, FS_Subset
<1>2. S # {} => /\ Invested(Overlays!MeanVarianceSubset(w, S, o), S, o)
                /\ Invested(Overlays!MinimumVarianceSubset(w, S, o), S, o)
                /\ Invested(Overlays!RiskParitySubset(w, S, o), S, o)
  BY <1>1, SubsetsAre
<1>3. Overlays!MeanVariance(w, S, o) \in Answers({1, 2, 3})
  BY <1>2, OnAliveType DEF Overlays!MeanVariance
<1>4. Overlays!MinimumVariance(w, S, o) \in Answers({1, 2, 3})
  BY <1>2, OnAliveType DEF Overlays!MinimumVariance
<1>5. Overlays!RiskParity(w, S, o) \in Answers({1, 2, 3})
  BY <1>2, OnAliveType DEF Overlays!RiskParity
<1> QED BY <1>3, <1>4, <1>5

LEMMA EqualWeightType == Overlays!EqualWeight({1, 2, 3}) \in Books({1, 2, 3})
<1>1. Overlays!Fraction(1, Overlays!Cardinality({1, 2, 3})) = Fraction(1, 3)
  BY PlainFractions, PlainSets, ThreeAssets
<1>2. Fraction(1, 3) \in Fractions
  BY FractionIs
<1> QED BY <1>1, <1>2 DEF Overlays!EqualWeight, Books

LEMMA BlackLittermanType ==
    ASSUME NEW caps \in Books({1, 2, 3}), NEW w \in Answers({1, 2, 3}), NEW views, NEW S,
           NEW o, o.lower \in Fractions, o.upper \in Fractions
    PROVE  Overlays!BlackLitterman(caps, views, w, S, o) \in Answers({1, 2, 3})
<1> DEFINE market == Overlays!MarketWeights(caps)
           raw == IF views = {} THEN market ELSE w
           normal == IF o.mode = "long_only" THEN Overlays!NormalizeLongOnly(raw)
                     ELSE Overlays!NormalizeMarketNeutral(raw)
<1>0. IsFiniteSet({1, 2, 3}) /\ {1, 2, 3} # {}
  BY ThreeAssets
<1>1. market \in Answers({1, 2, 3})
  <2> DEFINE bad == \E a \in DOMAIN caps : Overlays!\prec(caps[a], Overlays!Zero)
             v == Overlays!Scaled(caps, Overlays!\oslash(Overlays!One, Overlays!Total(caps)))
  <2>1. market = IF bad \/ Overlays!Total(caps) = Overlays!Zero THEN Raised ELSE v
    BY Zenon DEF Overlays!MarketWeights
  <2>2. ASSUME ~ bad, Total(caps) # Zero PROVE v \in Books({1, 2, 3})
    <3>1. /\ Total(caps) = AddOver(caps, {1, 2, 3})
          /\ Total(caps) \in Fractions /\ Lowest(Total(caps))
      BY <1>0, TotalsAre DEF Books
    <3>2. \A a \in {1, 2, 3} : caps[a] \in Fractions /\ Zero \preceq caps[a]
      <4>1. \A a \in {1, 2, 3} : caps[a] \in Fractions /\ ~ (caps[a] \prec Zero)
        BY <2>2, PlainFractions, PlainOrder DEF Books
      <4> QED BY <4>1, SignsOfUnits, LessOrders
    <3>3. Zero \preceq AddOver(caps, {1, 2, 3})
      BY <1>0, <3>2, AddNotNegative
    <3>4. Positive(Total(caps)) /\ One \in Fractions
      BY <2>2, <3>1, <3>3, PositiveIs, SignsOfUnits
    <3>5. One \oslash Total(caps) \in Fractions
      BY <3>4, OverUndoes
    <3>6. v = Scaled(caps, One \oslash Total(caps))
      BY PlainFractions, PlainArithmetic, PlainTotal, PlainVectors
    <3> QED BY <3>5, <3>6, ScaledType
  <2> HIDE DEF v, bad
  <2> QED BY <2>1, <2>2, PlainTotal, PlainFractions DEF Answers
<1>2. \/ Overlays!BlackLitterman(caps, views, w, S, o) = Raised
      \/ Overlays!BlackLitterman(caps, views, w, S, o) = Overlays!Single({1, 2, 3}, o)
      \/ /\ market # Raised /\ w # Raised
         /\ Overlays!BlackLitterman(caps, views, w, S, o)
              = Overlays!ProjectConfiguredBounds(normal, o)
  BY Zenon DEF Overlays!BlackLitterman
<1>3. Invested(Overlays!Single({1, 2, 3}, o), {1, 2, 3}, o)
  BY <1>0, SingleIs
<1>4. ASSUME market # Raised, w # Raised
      PROVE  Invested(Overlays!ProjectConfiguredBounds(normal, o), {1, 2, 3}, o)
  <2>1. raw \in Books({1, 2, 3})
    BY <1>1, <1>4 DEF Answers
  <2> HIDE DEF raw
  <2>2. normal \in Answers({1, 2, 3})
    BY <1>0, <2>1, LongOnlyType, MarketNeutralType
  <2> HIDE DEF normal
  <2> QED BY <1>0, <2>2, ConfiguredIs
<1> HIDE DEF normal, market
<1> QED BY <1>2, <1>3, <1>4 DEF Invested, Answers

LEMMA SoftmaxType ==
    ASSUME NEW S, IsFiniteSet(S), S # {}, NEW w \in Books(S)
    PROVE  Overlays!Softmax(w) \in Answers(S)
<1> DEFINE values == {w[a] : a \in DOMAIN w}
           least == CHOOSE x \in values : \A a \in DOMAIN w : Overlays!\preceq(x, w[a])
           v == [a \in DOMAIN w |-> Overlays!\oplus(Overlays!One, Overlays!\ominus(w[a], least))]
<1>1. Overlays!Softmax(w) = Overlays!NormalizeLongOnly(v)
  BY Zenon DEF Overlays!Softmax
<1>2. DOMAIN w = S /\ \A a \in S : w[a] \in Fractions
  BY DEF Books
<1>3. PICK b \in S : \A a \in S : w[b] \preceq w[a]
  BY <1>2, LeastExists
<1>4. least \in Fractions
  <2>1. w[b] \in values /\ \A a \in DOMAIN w : Overlays!\preceq(w[b], w[a])
    BY <1>2, <1>3, PlainOrder
  <2>2. least \in values
    <3> HIDE DEF values
    <3> QED BY <2>1
  <2> QED BY <1>2, <2>2
<1> HIDE DEF least
<1>5. ASSUME NEW a \in S
      PROVE  Overlays!\oplus(Overlays!One, Overlays!\ominus(w[a], least)) \in Fractions
  <2>1. w[a] \ominus least \in Fractions
    BY <1>2, <1>4, FractionsClosed
  <2>2. One \oplus (w[a] \ominus least) \in Fractions
    BY <2>1, SignsOfUnits, FractionsClosed
  <2> QED BY <2>2, PlainFractions, PlainArithmetic
<1>6. v \in Books(S)
  BY <1>2, <1>5 DEF Books
<1> HIDE DEF v
<1> QED BY <1>1, <1>6, LongOnlyType

LEMMA AllocatorType ==
    ASSUME NEW w \in Answers({1, 2, 3}), NEW trained, NEW previous, NEW S,
           NEW o, o.lower \in Fractions, o.upper \in Fractions
    PROVE  Overlays!DRLAllocator(trained, w, previous, S, o) \in Answers({1, 2, 3})
<1>1. ASSUME w # Raised
      PROVE  Invested(Overlays!ProjectConfiguredBounds(Overlays!Softmax(w), o), {1, 2, 3}, o)
  <2>1. Overlays!Softmax(w) \in Answers({1, 2, 3})
    BY <1>1, ThreeAssets, SoftmaxType DEF Answers
  <2> QED BY <2>1, ThreeAssets, ConfiguredIs
<1>2. Invested(Overlays!Single({1, 2, 3}, o), {1, 2, 3}, o)
  BY ThreeAssets, SingleIs
<1>3. \/ Overlays!DRLAllocator(trained, w, previous, S, o) = Raised
      \/ Overlays!DRLAllocator(trained, w, previous, S, o) = Overlays!Single({1, 2, 3}, o)
      \/ /\ w # Raised
         /\ Overlays!DRLAllocator(trained, w, previous, S, o)
              = Overlays!ProjectConfiguredBounds(Overlays!Softmax(w), o)
  BY Zenon DEF Overlays!DRLAllocator
<1> QED BY <1>1, <1>2, <1>3 DEF Invested, Answers

-----------------------------------------------------------------------------
(* The parts of hierarchical risk parity are those of the halves of the    *)
(* order; sequences are halved until one asset is left, so there is such a *)
(* function.                                                               *)
Left(s) == SubSeq(s, 1, Len(s) \div 2)

Right(s) == SubSeq(s, Len(s) \div 2 + 1, Len(s))

Leaves(s) == {s[i] : i \in 1..Len(s)}

LeftShare(w, s) ==
    Overlays!\ominus(Overlays!One,
                     Overlays!\oslash(Overlays!ClusterVariance(w, Left(s)),
                                      Overlays!\oplus(Overlays!ClusterVariance(w, Left(s)),
                                                      Overlays!ClusterVariance(w, Right(s)))))

Cluster(w, f, s) ==
    IF Len(s) = 1 THEN [a \in Overlays!Range(s) |-> Overlays!One]
    ELSE [a \in Overlays!Range(s) |->
             IF a \in Overlays!Range(Left(s))
               THEN Overlays!\otimes(f[Left(s)][a], LeftShare(w, s))
               ELSE Overlays!\otimes(f[Right(s)][a],
                                     Overlays!\ominus(Overlays!One, LeftShare(w, s)))]

Bipart(w, f) == f = [s \in Seq({1, 2, 3}) |-> Cluster(w, f, s)]

LEMMA LeavesAre ==
    ASSUME NEW A, NEW s \in Seq(A)
    PROVE  /\ Len(s) \in Nat /\ Overlays!Range(s) = Leaves(s) /\ Leaves(s) \subseteq A
           /\ Len(s) = 0 => Leaves(s) = {}
<1>1. Len(s) \in Nat /\ DOMAIN s = 1..Len(s) /\ \A i \in 1..Len(s) : s[i] \in A
  OBVIOUS
<1> QED BY <1>1 DEF Overlays!Range, Leaves

LEMMA HalvesAre ==
    ASSUME NEW A, NEW s \in Seq(A), Len(s) > 1
    PROVE  /\ Left(s) \in Seq(A) /\ Right(s) \in Seq(A)
           /\ Len(Left(s)) \in 1..(Len(s) - 1) /\ Len(Right(s)) \in 1..(Len(s) - 1)
           /\ Leaves(s) = Leaves(Left(s)) \cup Leaves(Right(s))
<1>1. Len(s) \in Nat /\ DOMAIN s = 1..Len(s) /\ \A i \in 1..Len(s) : s[i] \in A
  OBVIOUS
<1> DEFINE n == Len(s)
           k == n \div 2
<1>2. n \in Nat /\ k \in Nat /\ 1 <= k /\ k < n
  BY <1>1
<1> HIDE DEF k
<1>3. /\ SubSeq(s, 1, k) \in Seq(A) /\ Len(SubSeq(s, 1, k)) = k
      /\ \A i \in 1..k : SubSeq(s, 1, k)[i] = s[i]
  <2>1. \A i \in 1..k : s[i] \in A
    BY <1>1, <1>2
  <2>2. /\ SubSeq(s, 1, k) \in Seq(A)
        /\ Len(SubSeq(s, 1, k)) = IF 1 <= k THEN k - 1 + 1 ELSE 0
        /\ \A i \in 1..(k - 1 + 1) : SubSeq(s, 1, k)[i] = s[1 + i - 1]
    BY <1>2, <2>1, SubSeqProperties
  <2>3. k - 1 + 1 = k /\ \A i \in 1..k : 1 + i - 1 = i
    BY <1>2
  <2> QED BY <1>2, <2>2, <2>3
<1>4. /\ SubSeq(s, k + 1, n) \in Seq(A) /\ Len(SubSeq(s, k + 1, n)) = n - k
      /\ \A i \in 1..(n - k) : SubSeq(s, k + 1, n)[i] = s[k + i]
  <2> DEFINE m == k + 1
  <2>1. \A i \in m..n : s[i] \in A
    BY <1>1, <1>2
  <2>2. /\ SubSeq(s, m, n) \in Seq(A)
        /\ Len(SubSeq(s, m, n)) = IF m <= n THEN n - m + 1 ELSE 0
        /\ \A i \in 1..(n - m + 1) : SubSeq(s, m, n)[i] = s[m + i - 1]
    <3>1. m \in Int /\ n \in Int
      BY <1>2
    <3> HIDE DEF m
    <3> QED BY <2>1, <3>1, SubSeqProperties
  <2>3. n - (k + 1) + 1 = n - k /\ k + 1 <= n
        /\ \A i \in 1..(n - k) : (k + 1) + i - 1 = k + i
    BY <1>2
  <2> QED BY <2>2, <2>3
<1>5. Left(s) = SubSeq(s, 1, k) /\ Right(s) = SubSeq(s, k + 1, n)
  BY DEF Left, Right, k
<1>6. Leaves(Left(s)) = {s[i] : i \in 1..k}
  BY <1>3, <1>5 DEF Leaves
<1>7. Leaves(Right(s)) = {s[k + i] : i \in 1..(n - k)}
  BY <1>4, <1>5 DEF Leaves
<1>8. ASSUME NEW a \in Leaves(s) PROVE a \in Leaves(Left(s)) \cup Leaves(Right(s))
  <2>1. PICK i \in 1..n : a = s[i]
    BY DEF Leaves
  <2>2. CASE i <= k
    BY <1>2, <1>6, <2>1, <2>2
  <2>3. CASE k < i
    <3>1. i - k \in 1..(n - k) /\ k + (i - k) = i
      BY <1>1, <1>2, <2>3
    <3> QED BY <1>7, <2>1, <3>1
  <2> QED BY <1>2, <2>2, <2>3
<1>9. ASSUME NEW a \in Leaves(Left(s)) \cup Leaves(Right(s)) PROVE a \in Leaves(s)
  <2>1. CASE a \in Leaves(Left(s))
    <3>1. PICK i \in 1..k : a = s[i]
      BY <1>6, <2>1
    <3>2. i \in 1..n
      BY <1>2
    <3> QED BY <3>1, <3>2 DEF Leaves
  <2>2. CASE a \in Leaves(Right(s))
    <3>1. PICK i \in 1..(n - k) : a = s[k + i]
      BY <1>7, <2>2
    <3>2. k + i \in 1..n
      BY <1>2
    <3> QED BY <3>1, <3>2 DEF Leaves
  <2> QED BY <2>1, <2>2
<1>10. Leaves(s) = Leaves(Left(s)) \cup Leaves(Right(s))
  BY <1>8, <1>9
<1>11. k \in 1..(n - 1) /\ n - k \in 1..(n - 1)
  BY <1>2
<1> QED BY <1>3, <1>4, <1>5, <1>10, <1>11

LEMMA ClustersAgree ==
    ASSUME NEW w, NEW f, NEW g, NEW s \in Seq({1, 2, 3}),
           \A t \in Seq({1, 2, 3}) : Len(t) < Len(s) => f[t] = g[t]
    PROVE  Cluster(w, f, s) = Cluster(w, g, s)
<1>1. CASE Len(s) = 1
  BY <1>1 DEF Cluster
<1>2. CASE Len(s) # 1
  <2>1. ASSUME NEW a \in Overlays!Range(s)
        PROVE  f[Left(s)] = g[Left(s)] /\ f[Right(s)] = g[Right(s)]
    <3>1. Len(s) \in Nat /\ Len(s) # 0
      BY LeavesAre
    <3>2. Len(s) > 1
      <4> DEFINE n == Len(s)
      <4>1. n \in Nat /\ n # 0 /\ n # 1
        BY <1>2, <3>1
      <4> HIDE DEF n
      <4>2. n > 1
        BY ONLY <4>1
      <4> QED BY <4>2 DEF n
    <3>3. /\ Left(s) \in Seq({1, 2, 3}) /\ Right(s) \in Seq({1, 2, 3})
          /\ Len(Left(s)) \in 1..(Len(s) - 1) /\ Len(Right(s)) \in 1..(Len(s) - 1)
      BY <3>2, HalvesAre
    <3>4. Len(Left(s)) < Len(s) /\ Len(Right(s)) < Len(s)
      BY <3>1, <3>3
    <3> QED BY <3>3, <3>4
  <2> QED BY <1>2, <2>1 DEF Cluster
<1> QED BY <1>1, <1>2

Leveled(w, f, n) == \A s \in Seq({1, 2, 3}) : Len(s) <= n => f[s] = Cluster(w, f, s)

LEMMA LevelsAgree ==
    ASSUME NEW w, NEW f, NEW g, NEW n \in Nat, NEW m \in Nat,
           Leveled(w, f, n), Leveled(w, g, m),
           NEW s \in Seq({1, 2, 3}), Len(s) <= n, Len(s) <= m
    PROVE  f[s] = g[s]
<1> DEFINE Bad == {k \in Nat : \E t \in Seq({1, 2, 3}) :
                                  Len(t) = k /\ k <= n /\ k <= m /\ f[t] # g[t]}
<1>1. SUFFICES ASSUME f[s] # g[s] PROVE FALSE
  OBVIOUS
<1>2. Len(s) \in Nat
  OBVIOUS
<1>3. Bad # {} /\ Bad \in SUBSET Nat
  BY <1>1, <1>2
<1>4. PICK k \in Bad : \A j \in Bad : k <= j
  <2> HIDE DEF Bad
  <2> QED BY <1>3, LeastNat
<1>5. PICK t \in Seq({1, 2, 3}) : Len(t) = k /\ k <= n /\ k <= m /\ f[t] # g[t]
  BY <1>4
<1>6. ASSUME NEW r \in Seq({1, 2, 3}), Len(r) < Len(t) PROVE f[r] = g[r]
  <2>1. Len(r) \in Nat /\ Len(r) < k /\ k \in Nat
    BY <1>5, <1>6
  <2>2. Len(r) <= n /\ Len(r) <= m
    BY <1>5, <2>1
  <2>3. SUFFICES ASSUME f[r] # g[r] PROVE FALSE
    OBVIOUS
  <2>4. Len(r) \in Bad
    BY <2>1, <2>2, <2>3
  <2>5. k <= Len(r)
    BY <1>4, <2>4
  <2> QED BY <2>1, <2>5
<1>7. Cluster(w, f, t) = Cluster(w, g, t)
  BY <1>6, ClustersAgree
<1>8. f[t] = Cluster(w, f, t) /\ g[t] = Cluster(w, g, t)
  BY <1>5 DEF Leveled
<1> QED BY <1>5, <1>7, <1>8

LEMMA LevelsExist ==
    ASSUME NEW w, NEW n \in Nat
    PROVE  \E f : Leveled(w, f, n)
<1> DEFINE Bad == {k \in Nat : ~ \E f : Leveled(w, f, k)}
<1>1. SUFFICES ASSUME Bad # {} PROVE FALSE
  OBVIOUS
<1>2. PICK k \in Bad : \A j \in Bad : k <= j
  <2>1. Bad \in SUBSET Nat
    OBVIOUS
  <2> HIDE DEF Bad
  <2> QED BY <1>1, <2>1, LeastNat
<1>3. k \in Nat /\ ~ \E f : Leveled(w, f, k)
  OBVIOUS
<1>4. PICK f : \A s \in Seq({1, 2, 3}) : Len(s) < k => f[s] = Cluster(w, f, s)
  <2>1. CASE k = 0
    <3>1. \A s \in Seq({1, 2, 3}) : ~ (Len(s) < k)
      BY <2>1
    <3> QED BY <3>1
  <2>2. CASE k # 0
    <3>1. k - 1 \in Nat /\ ~ (k <= k - 1)
      BY <1>3, <2>2
    <3>2. k - 1 \notin Bad
      BY <1>2, <3>1
    <3>3. PICK g : Leveled(w, g, k - 1)
      BY <3>1, <3>2
    <3>4. ASSUME NEW s \in Seq({1, 2, 3}), Len(s) < k PROVE g[s] = Cluster(w, g, s)
      <4>1. Len(s) \in Nat
        OBVIOUS
      <4>2. Len(s) <= k - 1
        BY ONLY <1>3, <3>4, <4>1
      <4> QED BY <3>3, <4>2 DEF Leveled
    <3> QED BY <3>4
  <2> QED BY <2>1, <2>2
<1> DEFINE g == [s \in Seq({1, 2, 3}) |-> IF Len(s) = k THEN Cluster(w, f, s) ELSE f[s]]
<1>5. \A s \in Seq({1, 2, 3}) : /\ Len(s) = k => g[s] = Cluster(w, f, s)
                                /\ Len(s) < k => g[s] = f[s]
  BY <1>3
<1> HIDE DEF g
<1>6. ASSUME NEW s \in Seq({1, 2, 3}), Len(s) <= k PROVE g[s] = Cluster(w, g, s)
  <2>1. Len(s) \in Nat /\ (Len(s) = k \/ Len(s) < k)
    BY <1>3, <1>6
  <2>2. g[s] = Cluster(w, f, s)
    BY <1>4, <1>5, <2>1
  <2>3. ASSUME NEW t \in Seq({1, 2, 3}), Len(t) < Len(s) PROVE f[t] = g[t]
    <3>1. Len(t) \in Nat
      OBVIOUS
    <3>2. Len(t) < k
      BY ONLY <1>3, <1>6, <2>1, <2>3, <3>1
    <3> QED BY <1>5, <3>2
  <2>4. Cluster(w, f, s) = Cluster(w, g, s)
    BY <2>3, ClustersAgree
  <2> QED BY <2>2, <2>4
<1>7. Leveled(w, g, k)
  BY <1>6 DEF Leveled
<1> QED BY <1>3, <1>7

LEMMA BipartExists ==
    ASSUME NEW w
    PROVE  \E f : Bipart(w, f)
<1> DEFINE level(n) == CHOOSE f : Leveled(w, f, n)
           F == [s \in Seq({1, 2, 3}) |-> level(Len(s))[s]]
<1>1. ASSUME NEW n \in Nat PROVE Leveled(w, level(n), n)
  BY LevelsExist
<1> HIDE DEF level
<1>2. ASSUME NEW s \in Seq({1, 2, 3}) PROVE F[s] = Cluster(w, F, s)
  <2> DEFINE g == level(Len(s))
  <2>1. Len(s) \in Nat /\ Len(s) <= Len(s)
    OBVIOUS
  <2>2. Leveled(w, g, Len(s))
    BY <1>1, <2>1
  <2>3. F[s] = g[s]
    OBVIOUS
  <2> HIDE DEF g
  <2>4. g[s] = Cluster(w, g, s)
    BY <2>1, <2>2 DEF Leveled
  <2>5. ASSUME NEW t \in Seq({1, 2, 3}), Len(t) < Len(s) PROVE g[t] = F[t]
    <3>1. Len(t) \in Nat /\ Len(t) <= Len(t) /\ Len(t) <= Len(s)
      BY <2>1, <2>5
    <3>2. Leveled(w, level(Len(t)), Len(t))
      BY <1>1, <3>1
    <3>3. F[t] = level(Len(t))[t]
      OBVIOUS
    <3> HIDE DEF F
    <3>4. g[t] = level(Len(t))[t]
      BY <2>1, <2>2, <3>1, <3>2, LevelsAgree
    <3> QED BY <3>3, <3>4
  <2> HIDE DEF F
  <2>6. Cluster(w, g, s) = Cluster(w, F, s)
    BY <2>5, ClustersAgree
  <2> QED BY <2>3, <2>4, <2>6
<1>3. F = [s \in Seq({1, 2, 3}) |-> F[s]]
  OBVIOUS
<1> HIDE DEF F
<1>4. F = [s \in Seq({1, 2, 3}) |-> Cluster(w, F, s)]
  BY <1>2, <1>3
<1> QED BY <1>4 DEF Bipart

LEMMA RecBipartIs ==
    ASSUME NEW w, NEW s \in Seq({1, 2, 3})
    PROVE  Overlays!RecBipart(w)[s] = Cluster(w, Overlays!RecBipart(w), s)
<1>1. Overlays!RecBipart(w) = CHOOSE f : Bipart(w, f)
  BY Zenon DEF Overlays!RecBipart, Bipart, Cluster, LeftShare, Left, Right
<1>2. Bipart(w, Overlays!RecBipart(w))
  BY <1>1, BipartExists, Zenon
<1> DEFINE F == Overlays!RecBipart(w)
<1> HIDE DEF F
<1>3. F = [t \in Seq({1, 2, 3}) |-> Cluster(w, F, t)]
  BY <1>2 DEF Bipart, F
<1>4. F[s] = Cluster(w, F, s)
  BY <1>3
<1> QED BY <1>4 DEF F

LEMMA ClusterVariancePositive ==
    ASSUME NEW w, \A a \in {1, 2, 3} : Positive(w[a]), NEW s \in Seq({1, 2, 3}), Len(s) # 0
    PROVE  Positive(Overlays!ClusterVariance(w, s))
<1> DEFINE v == [i \in DOMAIN s |-> Overlays!\oslash(Overlays!One, w[s[i]])]
           D == DOMAIN s
<1>1. D = 1..Len(s) /\ Len(s) \in Nat /\ \A i \in D : s[i] \in {1, 2, 3}
  OBVIOUS
<1>2. IsFiniteSet(D)
  BY <1>1, FS_Interval
<1>3. ASSUME NEW i \in D PROVE Positive(v[i])
  <2>1. Positive(w[s[i]])
    BY <1>1
  <2>2. Positive(One \oslash w[s[i]])
    BY <2>1, OnePositive, SignsOfUnits, OverUndoes
  <2>3. v[i] = One \oslash w[s[i]]
    BY PlainFractions, PlainArithmetic
  <2> QED BY <2>2, <2>3
<1>4. Overlays!ClusterVariance(w, s) = Overlays!\oslash(Overlays!One, Overlays!Total(v))
  BY Zenon DEF Overlays!ClusterVariance, Overlays!InverseVariance
<1>5. v \in [D -> Fractions]
  BY <1>3 DEF Positive
<1> HIDE DEF v
<1>6. Total(v) = AddOver(v, D) /\ Total(v) \in Fractions
  <2> HIDE DEF D
  <2> QED BY <1>2, <1>5, TotalsAre
<1>7. Positive(Total(v))
  <2>1. 1 \in D
    BY <1>1
  <2> HIDE DEF D
  <2>2. \A i \in D : v[i] \in Fractions /\ Zero \preceq v[i]
    BY <1>3, SignsOfUnits, LessOrders DEF Positive
  <2>3. v[1] \preceq AddOver(v, D) /\ v[1] \in Fractions /\ Zero \prec v[1]
    BY <1>2, <1>3, <2>1, <2>2, AddNotNegative DEF Positive
  <2>4. Zero \prec AddOver(v, D)
    BY <1>6, <2>3, SignsOfUnits, LessOrders
  <2> QED BY <1>6, <2>4 DEF Positive
<1>8. Positive(One \oslash Total(v))
  BY <1>7, OnePositive, SignsOfUnits, OverUndoes
<1> QED BY <1>4, <1>8, PlainFractions, PlainArithmetic, PlainTotal

LEMMA LeftShareType ==
    ASSUME NEW w, \A a \in {1, 2, 3} : Positive(w[a]), NEW s \in Seq({1, 2, 3}), Len(s) > 1
    PROVE  LeftShare(w, s) \in Fractions
<1> DEFINE v == Overlays!ClusterVariance(w, Left(s))
           u == Overlays!ClusterVariance(w, Right(s))
<1>1. Positive(v) /\ Positive(u)
  <2>1. /\ Left(s) \in Seq({1, 2, 3}) /\ Right(s) \in Seq({1, 2, 3})
        /\ Len(Left(s)) \in 1..(Len(s) - 1) /\ Len(Right(s)) \in 1..(Len(s) - 1)
    BY HalvesAre
  <2>2. Len(Left(s)) # 0 /\ Len(Right(s)) # 0
    BY <2>1
  <2> QED BY <2>1, <2>2, ClusterVariancePositive
<1> HIDE DEF v, u
<1>2. LeftShare(w, s) = One \ominus (v \oslash (v \oplus u))
  BY PlainFractions, PlainArithmetic DEF LeftShare, v, u
<1>3. v \in Fractions /\ u \in Fractions /\ v \oplus u \in Fractions /\ Zero \preceq u
  BY <1>1, FractionsClosed, SignsOfUnits, LessOrders DEF Positive
<1>4. Zero \prec v \oplus u
  <2>1. v \preceq v \oplus u /\ Zero \prec v
    BY <1>1, <1>3, PlusSign DEF Positive
  <2> QED BY <1>3, <2>1, SignsOfUnits, LessOrders
<1>5. v \oslash (v \oplus u) \in Fractions
  BY <1>3, <1>4, OverUndoes DEF Positive
<1> QED BY <1>2, <1>5, SignsOfUnits, FractionsClosed

LEMMA PartsType ==
    ASSUME NEW w, \A a \in {1, 2, 3} : Positive(w[a]), NEW s \in Seq({1, 2, 3}), Len(s) # 0
    PROVE  Overlays!RecBipart(w)[s] \in Books(Leaves(s))
<1> DEFINE F == Overlays!RecBipart(w)
           Good(t) == F[t] \in Books(Leaves(t))
           Bad == {n \in Nat \ {0} : \E t \in Seq({1, 2, 3}) : Len(t) = n /\ ~ Good(t)}
<1>1. SUFFICES ASSUME ~ Good(s) PROVE FALSE
  OBVIOUS
<1>2. Len(s) \in Bad
  BY <1>1
<1>3. PICK n \in Bad : \A m \in Bad : n <= m
  <2>1. Bad \in SUBSET Nat /\ Bad # {}
    BY <1>2
  <2> HIDE DEF Bad
  <2> QED BY <2>1, LeastNat
<1>4. PICK t \in Seq({1, 2, 3}) : Len(t) = n /\ ~ Good(t)
  BY <1>3
<1>5. n \in Nat \ {0}
  OBVIOUS
<1>6. F[t] = Cluster(w, F, t)
  BY RecBipartIs
<1>7. Overlays!Range(t) = Leaves(t)
  BY LeavesAre
<1>8. CASE n = 1
  <2>1. F[t] = [a \in Leaves(t) |-> One]
    BY <1>4, <1>6, <1>7, <1>8, PlainFractions DEF Cluster
  <2>2. Good(t)
    BY <2>1, SignsOfUnits DEF Books
  <2> QED BY <1>4, <2>2
<1>9. CASE n > 1
  <2>1. /\ Left(t) \in Seq({1, 2, 3}) /\ Right(t) \in Seq({1, 2, 3})
        /\ Len(Left(t)) \in 1..(n - 1) /\ Len(Right(t)) \in 1..(n - 1)
        /\ Leaves(t) = Leaves(Left(t)) \cup Leaves(Right(t))
        /\ LeftShare(w, t) \in Fractions
    BY <1>4, <1>9, HalvesAre, LeftShareType
  <2>2. ASSUME NEW r \in Seq({1, 2, 3}), Len(r) \in 1..(n - 1) PROVE Good(r)
    <3>1. Len(r) \in Nat \ {0} /\ ~ (n <= Len(r))
      BY <1>5, <2>2
    <3>2. Len(r) \notin Bad
      BY <1>3, <3>1
    <3> QED BY <3>1, <3>2
  <2>3. Good(Left(t)) /\ Good(Right(t))
    BY <2>1, <2>2
  <2> DEFINE l == F[Left(t)]
             r == F[Right(t)]
             x == LeftShare(w, t)
             y == Overlays!\ominus(Overlays!One, x)
  <2>4. x \in Fractions /\ y \in Fractions
    BY <2>1, PlainFractions, PlainArithmetic, SignsOfUnits, FractionsClosed
  <2>5. F[t] = [a \in Leaves(t) |-> IF a \in Leaves(Left(t)) THEN Overlays!\otimes(l[a], x)
                                    ELSE Overlays!\otimes(r[a], y)]
    <3>1. Overlays!Range(Left(t)) = Leaves(Left(t)) /\ Len(t) # 1
      BY <1>4, <1>9, <2>1, LeavesAre
    <3> HIDE DEF F
    <3> QED BY <1>6, <1>7, <3>1 DEF Cluster
  <2> HIDE DEF x, y
  <2>6. ASSUME NEW a \in Leaves(t)
        PROVE  (IF a \in Leaves(Left(t)) THEN Overlays!\otimes(l[a], x)
                ELSE Overlays!\otimes(r[a], y)) \in Fractions
    <3> HIDE DEF F
    <3>1. CASE a \in Leaves(Left(t))
      <4>1. l[a] \in Fractions
        BY <2>3, <3>1 DEF Books
      <4> QED BY <2>4, <3>1, <4>1, PlainArithmetic, FractionsClosed
    <3>2. CASE a \notin Leaves(Left(t))
      <4>1. r[a] \in Fractions
        BY <2>1, <2>3, <3>2 DEF Books
      <4> QED BY <2>4, <3>2, <4>1, PlainArithmetic, FractionsClosed
    <3> QED BY <3>1, <3>2
  <2>7. Good(t)
    <3> HIDE DEF F, l, r
    <3> QED BY <2>5, <2>6 DEF Books
  <2> QED BY <1>4, <2>7
<1> QED BY <1>5, <1>8, <1>9

LEMMA HierarchicalType ==
    ASSUME NEW w \in Answers({1, 2, 3}), NEW S,
           NEW o, o.lower \in Fractions, o.upper \in Fractions
    PROVE  Overlays!HierarchicalRiskParity(w, <<2, 3, 1>>, S, o) \in Answers({1, 2, 3})
<1> DEFINE order == <<2, 3, 1>>
           v == Overlays!RecBipart(w)[order]
           refuses == w = Raised \/ \E a \in {1, 2, 3} : Overlays!\preceq(w[a], Overlays!Zero)
<1>1. \/ Overlays!HierarchicalRiskParity(w, order, S, o) = Raised
      \/ Overlays!HierarchicalRiskParity(w, order, S, o) = Overlays!Single({1, 2, 3}, o)
      \/ /\ ~ refuses
         /\ Overlays!HierarchicalRiskParity(w, order, S, o)
              = Overlays!ProjectConfiguredBounds(v, o)
  BY Zenon DEF Overlays!HierarchicalRiskParity
<1>2. order \in Seq({1, 2, 3}) /\ Len(order) = 3
  OBVIOUS
<1>3. Leaves(order) = {1, 2, 3}
  <2>1. order[1] = 2 /\ order[2] = 3 /\ order[3] = 1 /\ {1, 2, 3} = 1..3
    OBVIOUS
  <2> HIDE DEF order
  <2>2. Leaves(order) = {order[i] : i \in {1, 2, 3}}
    BY <1>2, <2>1 DEF Leaves
  <2> QED BY <2>1, <2>2
<1> HIDE DEF order
<1>4. ASSUME ~ refuses PROVE v \in Books({1, 2, 3})
  <2>1. w \in Books({1, 2, 3}) /\ \A a \in {1, 2, 3} : w[a] \in Fractions /\ ~ (w[a] \preceq Zero)
    BY <1>4, PlainFractions, PlainOrder DEF Books, Answers
  <2>2. \A a \in {1, 2, 3} : Positive(w[a])
    BY <2>1, SignsOfUnits, LessOrders DEF Positive
  <2>3. v \in Books(Leaves(order))
    BY <1>2, <2>1, <2>2, PartsType
  <2> QED BY <1>3, <2>3
<1> HIDE DEF v, refuses
<1>5. ~ refuses => Invested(Overlays!ProjectConfiguredBounds(v, o), {1, 2, 3}, o)
  BY <1>4, ThreeAssets, ConfiguredIs DEF Answers
<1>6. Invested(Overlays!Single({1, 2, 3}, o), {1, 2, 3}, o)
  BY ThreeAssets, SingleIs
<1> QED BY <1>1, <1>5, <1>6 DEF Invested, Answers, order

-----------------------------------------------------------------------------
(* The strategies of the runs.                                             *)
Optimizers == {"equal", "mean_variance", "minimum_variance", "risk_parity", "hrp",
               "black_litterman", "drl"}

PlainFields ==
    {"optimizer", "mode", "lower", "upper", "order", "views", "trained", "overlays",
     "decisions", "maxGross", "allowShort", "floor", "cap", "minScale", "leverage",
     "fraction", "exposure", "preserveSigns", "position", "maxDrawdown",
     "resetDrawdown", "autoReset"}

LEMMA PlainHas == DOMAIN Plain = PlainFields
BY DEF Plain, PlainFields

(* Shipped(s): every field the pipeline reads is one of those of a run.    *)
Shipped(s) ==
    /\ s.optimizer \in Optimizers /\ s.order = <<2, 3, 1>>
    /\ s.lower \in {Negative(One), Fraction(1, 8)}
    /\ s.upper \in {One, Fraction(3, 4), Half}
    /\ s.floor = Fraction(1, 4) /\ s.cap \in {One, Two}
    /\ s.minScale = Zero /\ s.leverage \in {One, Two} /\ s.fraction = Half
    /\ s.exposure = Fraction(1, 4) /\ s.preserveSigns = TRUE /\ s.position = Half
    /\ s.decisions \in {1, 2, 3}

LEMMA PlainIs ==
    /\ Plain.optimizer = "equal" /\ Plain.order = <<2, 3, 1>>
    /\ Plain.lower = Negative(One) /\ Plain.upper = One
    /\ Plain.floor = Fraction(1, 4) /\ Plain.cap = One /\ Plain.minScale = Zero
    /\ Plain.leverage = One /\ Plain.fraction = Half /\ Plain.exposure = Fraction(1, 4)
    /\ Plain.preserveSigns = TRUE /\ Plain.position = Half /\ Plain.decisions = 1
BY DEF Plain

LEMMA LeveredIs ==
    /\ DOMAIN Levered = PlainFields
    /\ Levered.optimizer = "equal" /\ Levered.order = <<2, 3, 1>>
    /\ Levered.lower = Negative(One) /\ Levered.upper = One
    /\ Levered.floor = Fraction(1, 4) /\ Levered.cap = One /\ Levered.minScale = Zero
    /\ Levered.leverage = Two /\ Levered.fraction = Half
    /\ Levered.exposure = Fraction(1, 4)
    /\ Levered.preserveSigns = TRUE /\ Levered.position = Half /\ Levered.decisions = 1
BY PlainHas, PlainIs DEF PlainFields, Levered

LEMMA StrategiesAre == \A s \in Strategies : Shipped(s)
<1> SUFFICES ASSUME NEW s \in Strategies PROVE Shipped(s)
  OBVIOUS
<1>1. CASE s = Plain
  BY <1>1, PlainIs, PlainHas, LeveredIs DEF Shipped, PlainFields, Optimizers
<1>2. CASE s = [Plain EXCEPT !.optimizer = "mean_variance", !.upper =
                       Fraction(3, 4), !.overlays = <<"regime",
                       "vix", "limit">>]
  BY <1>2, PlainIs, PlainHas, LeveredIs DEF Shipped, PlainFields, Optimizers
<1>3. CASE s = [Plain EXCEPT !.optimizer = "minimum_variance", !.lower =
                       Fraction(1, 8), !.overlays = <<"kama",
                       "factor", "vix">>]
  BY <1>3, PlainIs, PlainHas, LeveredIs DEF Shipped, PlainFields, Optimizers
<1>4. CASE s = [Plain EXCEPT !.optimizer = "risk_parity", !.upper = Half,
                       !.overlays = <<"breaker">>, !.autoReset =
                       TRUE, !.decisions = 3]
  BY <1>4, PlainIs, PlainHas, LeveredIs DEF Shipped, PlainFields, Optimizers
<1>5. CASE s = [Levered EXCEPT !.optimizer = "hrp", !.overlays = <<"factor",
                       "kelly", "breaker">>, !.decisions = 3]
  BY <1>5, PlainIs, PlainHas, LeveredIs DEF Shipped, PlainFields, Optimizers
<1>6. CASE s = [Levered EXCEPT !.optimizer = "black_litterman", !.views =
                       {"view"}, !.mode = "market_neutral",
                       !.upper = Half, !.overlays = <<"vol",
                       "regime">>]
  BY <1>6, PlainIs, PlainHas, LeveredIs DEF Shipped, PlainFields, Optimizers
<1>7. CASE s = [Levered EXCEPT !.optimizer = "black_litterman", !.overlays =
                       <<"vix", "limit">>, !.cap = Two]
  BY <1>7, PlainIs, PlainHas, LeveredIs DEF Shipped, PlainFields, Optimizers
<1>8. CASE s = [Plain EXCEPT !.optimizer = "mean_variance", !.mode =
                       "market_neutral", !.overlays = <<"tsmom",
                       "factor">>, !.allowShort = TRUE]
  BY <1>8, PlainIs, PlainHas, LeveredIs DEF Shipped, PlainFields, Optimizers
<1>9. CASE s = [Plain EXCEPT !.optimizer = "drl", !.trained = TRUE, !.overlays =
                       <<"regime", "kama">>, !.decisions = 2]
  BY <1>9, PlainIs, PlainHas, LeveredIs DEF Shipped, PlainFields, Optimizers
<1> QED BY <1>1, <1>2, <1>3, <1>4, <1>5, <1>6, <1>7, <1>8, <1>9
  DEF Strategies

-----------------------------------------------------------------------------
(* Two fractions are on one side of zero; one is between zero and another. *)
Side(a, b) == Zero \preceq a \otimes b

Between(v, u) == (Zero \preceq v /\ v \preceq u) \/ (u \preceq v /\ v \preceq Zero)

LEMMA SideIs ==
    ASSUME NEW a \in Fractions, NEW b \in Fractions
    PROVE  Side(a, b) <=> \/ Zero \preceq a /\ Zero \preceq b
                          \/ a \preceq Zero /\ b \preceq Zero
<1>1. PICK d \in Nat \ {0}, n, m, l, o \in Int : Is(a, n, d) /\ Is(b, m, d)
  BY CommonFour
<1>2. d * d \in Nat \ {0} /\ Is(a \otimes b, n * m, d * d)
  BY <1>1, TimesIs
<1>3. Is(Zero, 0, d) /\ Is(Zero, 0, d * d)
  BY <1>2, UnitsAre
<1>4. /\ Zero \preceq a <=> 0 <= n
      /\ a \preceq Zero <=> n <= 0
      /\ Zero \preceq b <=> 0 <= m
      /\ b \preceq Zero <=> m <= 0
      /\ Side(a, b) <=> 0 <= n * m
  BY <1>1, <1>2, <1>3, LessIs DEF Side
<1>5. 0 <= n * m <=> (0 <= n /\ 0 <= m) \/ (n <= 0 /\ m <= 0)
  OBVIOUS
<1> QED BY <1>4, <1>5

LEMMA SideOfItself ==
    ASSUME NEW a \in Fractions
    PROVE  Side(a, a) /\ (\A b \in Fractions : Even(b, Zero) => Side(a, b))
<1>1. Zero \in Fractions
  BY FractionsClosed
<1>2. Zero \preceq a \/ a \preceq Zero
  BY <1>1, LessOrders
<1>3. ASSUME NEW b \in Fractions, Even(b, Zero) PROVE Side(a, b)
  BY <1>2, <1>3, SideIs DEF Even
<1> QED BY <1>2, <1>3, SideIs

LEMMA BetweenIs ==
    ASSUME NEW u \in Fractions, NEW v \in Fractions, Between(v, u)
    PROVE  /\ Size(v) \preceq Size(u) /\ Side(u, v)
           /\ \A x \in Fractions : Side(x, u) => Side(x, v)
<1>0. Zero \in Fractions
  BY FractionsClosed
<1>1. Size(v) \preceq Size(u)
  <2>1. PICK d \in Nat \ {0}, n, m, l, o \in Int : Is(u, n, d) /\ Is(v, m, d)
    BY CommonFour
  <2>2. Is(Zero, 0, d) /\ Is(Size(u), Absolute(n), d) /\ Is(Size(v), Absolute(m), d)
    BY <2>1, UnitsAre, SizeIs
  <2>3. (0 <= m /\ m <= n) \/ (n <= m /\ m <= 0)
    BY <2>1, <2>2, LessIs DEF Between
  <2>4. Absolute(m) <= Absolute(n)
    BY <2>3 DEF Absolute
  <2> QED BY <2>2, <2>4, LessIs
<1>2. \/ Zero \preceq v /\ v \preceq u /\ Zero \preceq u
      \/ u \preceq v /\ v \preceq Zero /\ u \preceq Zero
  BY <1>0, LessOrders DEF Between
<1>3. Side(u, v)
  BY <1>2, SideIs
<1>4. ASSUME NEW x \in Fractions, Side(x, u) PROVE Side(x, v)
  <2>1. \/ Zero \preceq x /\ Zero \preceq u
        \/ x \preceq Zero /\ u \preceq Zero
    BY <1>4, SideIs
  <2>2. CASE Zero \preceq v /\ v \preceq u /\ u \preceq Zero
    <3>1. v \preceq Zero
      BY <1>0, <2>2, LessOrders
    <3> QED BY <1>4, <2>2, <3>1, SideOfItself DEF Even
  <2>3. CASE u \preceq v /\ v \preceq Zero /\ Zero \preceq u
    <3>1. Zero \preceq v
      BY <1>0, <2>3, LessOrders
    <3> QED BY <1>4, <2>3, <3>1, SideOfItself DEF Even
  <2> QED BY <1>2, <2>1, <2>2, <2>3, SideIs
<1> QED BY <1>1, <1>3, <1>4

LEMMA BetweenItself ==
    ASSUME NEW u \in Fractions
    PROVE  Between(u, u) /\ Between(Zero, u)
<1>1. Zero \in Fractions
  BY FractionsClosed
<1> QED BY <1>1, LessOrders DEF Between

LEMMA BetweenScaled ==
    ASSUME NEW u \in Fractions, NEW k \in Fractions, Zero \preceq k
    PROVE  /\ k \preceq One => Between(u \otimes k, u)
           /\ \A x \in Fractions : Side(x, u) => Side(x, u \otimes k)
<1>1. PICK d \in Nat \ {0}, n, m, l, o \in Int : Is(u, n, d) /\ Is(k, m, d)
  BY CommonFour
<1>2. Is(u \otimes k, n * m, d * d) /\ Is(u, n * d, d * d) /\ d * d \in Nat \ {0}
  <2>1. Is(u \otimes k, n * m, d * d)
    BY <1>1, TimesIs
  <2>2. Is(u, n * d, d * d)
    BY <1>1, IsScaled
  <2> QED BY <2>1, <2>2, NatTimes
<1>3. Is(Zero, 0, d * d) /\ Is(Zero, 0, d) /\ Is(One, d, d)
  <2>1. Is(Zero, 0, d) /\ Is(One, d, d)
    BY UnitsAre
  <2> QED BY <1>2, <2>1, UnitsAre
<1>4. 0 <= m /\ (k \preceq One <=> m <= d)
  BY <1>1, <1>3, LessIs
<1>5. ASSUME m <= d
      PROVE  (0 <= n * m /\ n * m <= n * d) \/ (n * d <= n * m /\ n * m <= 0)
  <2> DEFINE y == d - m
  <2>1. y \in Nat /\ n * d = n * m + n * y
    BY <1>4, <1>5
  <2>2. n * m \in Int /\ n * y \in Int
    BY <2>1
  <2>3. /\ 0 <= n => 0 <= n * m /\ 0 <= n * y
        /\ n <= 0 => n * m <= 0 /\ n * y <= 0
    BY <1>4, <2>1
  <2> HIDE DEF y
  <2> QED BY <2>1, <2>2, <2>3
<1>6. ASSUME k \preceq One PROVE Between(u \otimes k, u)
  BY <1>2, <1>3, <1>4, <1>5, <1>6, LessIs DEF Between
<1>7. u \otimes k \in Fractions
  BY FractionsClosed
<1>8. /\ Zero \preceq u => Zero \preceq u \otimes k
      /\ u \preceq Zero => u \otimes k \preceq Zero
  <2>1. (0 <= n => 0 <= n * m) /\ (n <= 0 => n * m <= 0)
    BY <1>4
  <2> QED BY <1>1, <1>2, <1>3, <2>1, LessIs
<1>9. ASSUME NEW x \in Fractions, Side(x, u) PROVE Side(x, u \otimes k)
  BY <1>7, <1>8, <1>9, SideIs
<1> QED BY <1>6, <1>9

LEMMA BetweenClamped ==
    ASSUME NEW u \in Fractions, NEW lo \in Fractions, NEW hi \in Fractions,
           lo \preceq Zero, Zero \preceq hi
    PROVE  Clamped(u, lo, hi) \in Fractions /\ Between(Clamped(u, lo, hi), u)
<1>1. Zero \in Fractions
  BY FractionsClosed
<1>2. lo \preceq hi
  BY <1>1, LessOrders
<1>3. Clamped(u, lo, hi) \in Fractions
  BY <1>2, ClampedIs
<1>4. CASE u \preceq lo
  <2>1. Even(Clamped(u, lo, hi), lo)
    BY <1>2, <1>4, ClampedIs
  <2> QED BY <1>1, <1>3, <1>4, <2>1, LessOrders DEF Between, Even
<1>5. CASE hi \preceq u
  <2>1. Even(Clamped(u, lo, hi), hi)
    BY <1>2, <1>5, ClampedIs
  <2> QED BY <1>1, <1>3, <1>5, <2>1, LessOrders DEF Between, Even
<1>6. CASE lo \preceq u /\ u \preceq hi
  <2>1. Even(Clamped(u, lo, hi), u)
    BY <1>2, <1>6, ClampedIs
  <2> QED BY <1>1, <1>3, <2>1, LessOrders DEF Between, Even
<1> QED BY <1>3, <1>4, <1>5, <1>6, LessOrders

LEMMA SizeScaled ==
    ASSUME NEW u \in Fractions, NEW k \in Fractions, Zero \preceq k
    PROVE  Even(Size(u \otimes k), Size(u) \otimes k)
<1>1. PICK d \in Nat \ {0}, n, m, l, o \in Int : Is(u, n, d) /\ Is(k, m, d)
  BY CommonFour
<1>2. Is(u \otimes k, n * m, d * d) /\ Is(Size(u), Absolute(n), d) /\ d * d \in Nat \ {0}
  BY <1>1, TimesIs, SizeIs
<1>3. Is(Size(u \otimes k), Absolute(n * m), d * d)
      /\ Is(Size(u) \otimes k, Absolute(n) * m, d * d)
  BY <1>1, <1>2, TimesIs, SizeIs
<1>4. 0 <= m
  BY <1>1, UnitsAre, LessIs
<1>5. Absolute(n * m) = Absolute(n) * m
  <2>1. CASE 0 <= n
    <3>1. 0 <= n * m
      BY <1>4, <2>1
    <3>2. n * m \in Int
      OBVIOUS
    <3> QED BY <2>1, <3>1, <3>2 DEF Absolute
  <2>2. CASE n < 0
    <3>1. n * m <= 0 /\ n * m \in Int /\ (-n) * m = -(n * m)
      BY <1>4, <2>2
    <3> QED BY <2>2, <3>1 DEF Absolute
  <2> QED BY <2>1, <2>2
<1>6. Size(u \otimes k) \in Fractions /\ Size(u) \otimes k \in Fractions
  BY FractionsClosed
<1> QED BY <1>3, <1>5, <1>6, EvenIs

LEMMA QuotientLess ==
    ASSUME NEW a \in Fractions, NEW b \in Fractions, Positive(b)
    PROVE  /\ a \oslash b \in Fractions
           /\ Zero \preceq a => Zero \preceq a \oslash b
           /\ a \preceq b => a \oslash b \preceq One
           /\ \A k \in Fractions : k \preceq a \oslash b => b \otimes k \preceq a
<1>0. One \in Fractions /\ Zero \in Fractions /\ Zero \prec b
  BY FractionsClosed DEF Positive
<1>1. a \oslash b \in Fractions /\ Even((a \oslash b) \otimes b, a)
  BY OverUndoes
<1> DEFINE q == a \oslash b
<1> HIDE DEF q
<1>2. q \in Fractions /\ Even(q \otimes b, a)
  BY <1>1 DEF q
<1>3. q \otimes b \in Fractions
  BY <1>2, FractionsClosed
<1>4. Zero \preceq a => Zero \preceq q
  BY <1>0, QuotientSign DEF q
<1>5. ASSUME a \preceq b PROVE q \preceq One
  <2>1. Even(b \otimes One, b) /\ b \otimes One = One \otimes b
    BY <1>0, EvenUnits, TimesCommutes
  <2>2. One \otimes b \in Fractions
    BY <1>0, FractionsClosed
  <2>3. q \otimes b \preceq One \otimes b
    <3>1. q \otimes b \preceq b
      BY <1>2, <1>3, <1>5, LessOrders DEF Even
    <3> QED BY <1>3, <2>1, <2>2, <3>1, LessOrders DEF Even
  <2> QED BY <1>0, <1>2, <2>3, TimesOrders
<1>6. ASSUME NEW k \in Fractions, k \preceq q PROVE b \otimes k \preceq a
  <2>1. k \otimes b \preceq q \otimes b /\ b \otimes k = k \otimes b
    BY <1>2, <1>6, TimesOrders, TimesCommutes
  <2>2. k \otimes b \in Fractions
    BY FractionsClosed
  <2> QED BY <1>2, <1>3, <2>1, <2>2, LessOrders DEF Even
<1> QED BY <1>2, <1>4, <1>5, <1>6 DEF q

(* Equal sums of terms of which none is more: equal terms.                 *)
LEMMA AddTight ==
    ASSUME NEW S, IsFiniteSet(S), NEW h, NEW f,
           \A x \in S : h[x] \in Fractions /\ f[x] \in Fractions /\ h[x] \preceq f[x],
           AddOver(f, S) \preceq AddOver(h, S)
    PROVE  \A x \in S : f[x] \preceq h[x]
<1> SUFFICES ASSUME NEW x \in S, h[x] \prec f[x] PROVE FALSE
  <2>1. \A x \in S : ~ (h[x] \prec f[x]) => f[x] \preceq h[x]
    BY LessOrders
  <2> QED BY <2>1
<1> DEFINE R == S \ {x}
<1>1. IsFiniteSet(R) /\ \A y \in R : h[y] \in Fractions /\ f[y] \in Fractions /\ h[y] \preceq f[y]
  BY FS_Subset
<1>2. AddOver(h, R) \in Fractions /\ AddOver(f, R) \in Fractions
      /\ AddOver(h, R) \preceq AddOver(f, R)
  BY <1>1, AddType, AddLess
<1>3. /\ Even(AddOver(h, S), h[x] \oplus AddOver(h, R))
      /\ Even(AddOver(f, S), f[x] \oplus AddOver(f, R))
      /\ AddOver(h, S) \in Fractions /\ AddOver(f, S) \in Fractions
  BY AddAny, AddType
<1> DEFINE a == h[x]
           b == f[x]
           c == AddOver(h, R)
           e == AddOver(f, R)
<1>4. a \in Fractions /\ b \in Fractions /\ c \in Fractions /\ e \in Fractions
      /\ a \prec b /\ c \preceq e
  BY <1>2
<1>5. b \oplus e \preceq a \oplus c
  <2>1. a \oplus c \in Fractions /\ b \oplus e \in Fractions
    BY <1>4, FractionsClosed
  <2>2. /\ b \oplus e \preceq AddOver(f, S)
        /\ AddOver(f, S) \preceq AddOver(h, S)
        /\ AddOver(h, S) \preceq a \oplus c
    BY <1>3 DEF Even
  <2> HIDE DEF a, b, c, e
  <2>3. b \oplus e \preceq AddOver(h, S)
    BY <1>3, <2>1, <2>2, LessOrders
  <2> QED BY <1>3, <2>1, <2>2, <2>3, LessOrders
<1> HIDE DEF a, b, c, e
<1>6. PICK d \in Nat \ {0}, n, m, l, o \in Int : Is(a, n, d) /\ Is(b, m, d) /\ Is(c, l, d) /\ Is(e, o, d)
  BY <1>4, CommonFour
<1>7. Is(a \oplus c, n + l, d) /\ Is(b \oplus e, m + o, d)
  BY <1>6, PlusIs
<1>8. n < m /\ l <= o /\ m + o <= n + l
  BY <1>4, <1>5, <1>6, <1>7, LessIs
<1> QED BY <1>8

(* What is left of a weight that is less after a clamp to [0, cap].        *)
LEMMA ClampedLess ==
    ASSUME NEW u \in Fractions, NEW x \in Fractions, NEW cap \in Fractions,
           Zero \preceq u, Zero \preceq cap
    PROVE  /\ Zero \preceq x => Clamped(u \ominus x, Zero, cap) \preceq u
           /\ x \preceq Zero /\ u \preceq cap => u \preceq Clamped(u \ominus x, Zero, cap)
<1>1. Zero \in Fractions /\ u \ominus x \in Fractions
  BY FractionsClosed
<1>2. PICK d \in Nat \ {0}, n, m, l, o \in Int : Is(u, n, d) /\ Is(x, m, d)
  BY CommonFour
<1>3. Is(u \ominus x, n - m, d) /\ Is(Zero, 0, d)
  BY <1>2, PlusIs, UnitsAre
<1>4. /\ Zero \preceq x => u \ominus x \preceq u
      /\ x \preceq Zero => u \preceq u \ominus x
  <2>1. /\ Zero \preceq x <=> 0 <= m
        /\ x \preceq Zero <=> m <= 0
        /\ u \ominus x \preceq u <=> n - m <= n
        /\ u \preceq u \ominus x <=> n <= n - m
    BY <1>2, <1>3, LessIs
  <2> QED BY <2>1
<1> DEFINE y == u \ominus x
<1> HIDE DEF y
<1>5. y \in Fractions /\ (Zero \preceq x => y \preceq u) /\ (x \preceq Zero => u \preceq y)
  BY <1>1, <1>4 DEF y
<1> SUFFICES /\ Zero \preceq x => Clamped(y, Zero, cap) \preceq u
             /\ x \preceq Zero /\ u \preceq cap => u \preceq Clamped(y, Zero, cap)
  BY DEF y
<1> QED BY <1>1, <1>5, LessOrders DEF Clamped, Lesser, Greater

-----------------------------------------------------------------------------
(* What overlays do to a book.                                             *)
Allowed(answer, w) == IF answer = Raised THEN w ELSE answer

Restrained(u, w, S) ==
    u \in Books(S) /\ Gross(u) \preceq Gross(w) /\ \A a \in S : Side(w[a], u[a])

Proportional(u, w, S) == \A a, b \in S : u[a] \otimes w[b] = u[b] \otimes w[a]

LEMMA ContractIs ==
    ASSUME NEW w, NEW g, NEW box
    PROVE  /\ Overlays!EnforceExposureContract(w, g, box) \in {w, Raised}
           /\ Overlays!EnforceExposureContract(w, g, box) # Raised => Gross(w) \preceq g
           /\ /\ w # Raised /\ DOMAIN w # {}
              /\ \A a \in DOMAIN w : box.lower \preceq w[a] /\ w[a] \preceq box.upper
              /\ Gross(w) \preceq g
              => Overlays!EnforceExposureContract(w, g, box) = w
<1>1. Overlays!EnforceExposureContract(w, g, box)
        = IF /\ w # Raised /\ DOMAIN w # {} /\ Overlays!InBox(w, box.lower, box.upper)
             /\ Overlays!\preceq(Overlays!Gross(w), g)
            THEN w ELSE Raised
  BY Zenon DEF Overlays!EnforceExposureContract
<1>2. Overlays!InBox(w, box.lower, box.upper)
        <=> \A a \in DOMAIN w : box.lower \preceq w[a] /\ w[a] \preceq box.upper
  BY PlainOrder DEF Overlays!InBox
<1>3. Overlays!\preceq(Overlays!Gross(w), g) <=> Gross(w) \preceq g
  BY PlainOrder, PlainVectors
<1> QED BY <1>1, <1>2, <1>3

LEMMA BetweenBooks ==
    ASSUME NEW S, IsFiniteSet(S), NEW w \in Books(S), NEW u \in Books(S),
           \A a \in S : Between(u[a], w[a])
    PROVE  Restrained(u, w, S)
<1>1. \A a \in S : w[a] \in Fractions /\ u[a] \in Fractions
  BY DEF Books
<1>2. \A a \in S : Size(u[a]) \preceq Size(w[a]) /\ Side(w[a], u[a])
  BY <1>1, BetweenIs
<1>3. \A a \in S : Size(u[a]) \in Fractions /\ Size(w[a]) \in Fractions
  BY <1>1, FractionsClosed
<1> DEFINE x == [a \in S |-> Size(u[a])]
           y == [a \in S |-> Size(w[a])]
<1>4. \A a \in S : x[a] \in Fractions /\ y[a] \in Fractions /\ x[a] \preceq y[a]
  BY <1>2, <1>3
<1>5. Gross(u) = AddOver(x, S) /\ Gross(w) = AddOver(y, S)
  BY GrossType
<1> HIDE DEF x, y
<1>6. Gross(u) \preceq Gross(w)
  BY <1>4, <1>5, AddLess
<1> QED BY <1>2, <1>6 DEF Restrained

LEMMA ScaledBooks ==
    ASSUME NEW S, IsFiniteSet(S), NEW w \in Books(S), NEW k \in Fractions, Zero \preceq k
    PROVE  LET u == Scaled(w, k)
           IN  /\ u \in Books(S) /\ Even(Gross(u), Gross(w) \otimes k)
               /\ \A a \in S : u[a] = w[a] \otimes k /\ Side(w[a], u[a])
               /\ Proportional(u, w, S)
               /\ k \preceq One => Restrained(u, w, S)
<1> DEFINE u == Scaled(w, k)
<1>1. u \in Books(S) /\ \A a \in S : u[a] = w[a] \otimes k
  BY ScaledType
<1> HIDE DEF u
<1>2. \A a \in S : w[a] \in Fractions /\ u[a] \in Fractions
  BY <1>1 DEF Books
<1>3. Even(Gross(u), Gross(w) \otimes k)
  <2> DEFINE x == [a \in S |-> Size(u[a])]
             y == [a \in S |-> Size(w[a])]
  <2>1. \A a \in S : x[a] = Size(u[a]) /\ y[a] = Size(w[a])
    OBVIOUS
  <2>2. Gross(u) = AddOver(x, S) /\ Gross(w) = AddOver(y, S)
    BY <1>1, GrossType
  <2> HIDE DEF x, y
  <2>3. ASSUME NEW a \in S
        PROVE  x[a] \in Fractions /\ y[a] \in Fractions /\ Even(x[a], y[a] \otimes k)
    <3>1. w[a] \in Fractions /\ u[a] \in Fractions /\ u[a] = w[a] \otimes k
      BY <1>1, <1>2
    <3>2. Even(Size(w[a] \otimes k), Size(w[a]) \otimes k)
      BY <3>1, SizeScaled
    <3> QED BY <2>1, <3>1, <3>2, FractionsClosed
  <2> QED BY <2>2, <2>3, AddTimes
<1>4. \A a \in S : Side(w[a], u[a])
  BY <1>1, <1>2, SideOfItself, BetweenScaled
<1>5. ASSUME NEW a \in S, NEW b \in S PROVE u[a] \otimes w[b] = u[b] \otimes w[a]
  <2> DEFINE x == w[a]
             y == w[b]
  <2>1. x \in Fractions /\ y \in Fractions /\ u[a] = x \otimes k /\ u[b] = y \otimes k
    BY <1>1, <1>2
  <2> HIDE DEF x, y
  <2>2. /\ x \otimes k = k \otimes x /\ y \otimes k = k \otimes y
        /\ (k \otimes x) \otimes y = k \otimes (x \otimes y)
        /\ (k \otimes y) \otimes x = k \otimes (y \otimes x)
        /\ x \otimes y = y \otimes x
    BY <2>1, TimesCommutes
  <2> QED BY <2>1, <2>2 DEF x, y
<1>6. ASSUME k \preceq One PROVE Restrained(u, w, S)
  <2>1. \A a \in S : Between(u[a], w[a])
    BY <1>1, <1>2, <1>6, BetweenScaled
  <2> QED BY <1>1, <2>1, BetweenBooks
<1> QED BY <1>1, <1>3, <1>4, <1>5, <1>6 DEF u, Proportional

LEMMA ItselfRestrained ==
    ASSUME NEW S, IsFiniteSet(S), NEW w \in Books(S)
    PROVE  Restrained(w, w, S) /\ Proportional(w, w, S)
<1>1. \A a \in S : w[a] \in Fractions
  BY DEF Books
<1>2. \A a \in S : Between(w[a], w[a])
  BY <1>1, BetweenItself
<1>3. \A a, b \in S : w[a] \otimes w[b] = w[b] \otimes w[a]
  BY <1>1, TimesCommutes
<1> QED BY <1>2, <1>3, BetweenBooks DEF Proportional

LEMMA NothingRestrained ==
    ASSUME NEW S, IsFiniteSet(S), NEW w \in Books(S)
    PROVE  Restrained([a \in S |-> Zero], w, S) /\ Proportional([a \in S |-> Zero], w, S)
<1> DEFINE u == [a \in S |-> Zero]
<1>1. u \in Books(S) /\ \A a \in S : u[a] = Zero
  BY SignsOfUnits DEF Books
<1> HIDE DEF u
<1>2. \A a \in S : w[a] \in Fractions
  BY DEF Books
<1>3. \A a \in S : Between(u[a], w[a])
  BY <1>1, <1>2, BetweenItself
<1>4. ASSUME NEW a \in S, NEW b \in S PROVE u[a] \otimes w[b] = u[b] \otimes w[a]
  <2>1. Even(Zero \otimes w[b], Zero) /\ Even(Zero \otimes w[a], Zero)
    BY <1>2, EvenUnits
  <2>2. Zero \in Fractions /\ Zero \otimes w[b] \in Fractions /\ Zero \otimes w[a] \in Fractions
    BY <1>2, FractionsClosed
  <2>3. Even(Zero \otimes w[b], Zero \otimes w[a])
    BY <2>1, <2>2, EvenOrders
  <2> QED BY <1>1, <1>2, <2>2, <2>3, TimesSame
<1> QED BY <1>1, <1>3, <1>4, BetweenBooks DEF u, Proportional

(* The largest weight.                                                     *)
LEMMA LargestIs ==
    ASSUME NEW S, IsFiniteSet(S), S # {}, NEW w \in Books(S)
    PROVE  /\ Overlays!Largest(w) \in Fractions
           /\ \A a \in S : Size(w[a]) \preceq Overlays!Largest(w)
<1> DEFINE val == [a \in S |-> Negative(Size(w[a]))]
           values == {Overlays!Size(w[a]) : a \in DOMAIN w}
           most == CHOOSE x \in values :
                      \A a \in DOMAIN w : Overlays!\preceq(Overlays!Size(w[a]), x)
<1>1. \A a \in S : Size(w[a]) \in Fractions
  <2>1. \A a \in S : w[a] \in Fractions
    BY DEF Books
  <2> QED BY <2>1, FractionsClosed
<1>2. \A a \in S : val[a] = Negative(Size(w[a])) /\ val[a] \in Fractions
  BY <1>1, FractionsClosed
<1> HIDE DEF val
<1>3. PICK b \in S : \A a \in S : val[b] \preceq val[a]
  BY <1>2, LeastExists
<1>4. ASSUME NEW a \in S PROVE Size(w[a]) \preceq Size(w[b])
  <2> DEFINE x == Size(w[a])
             y == Size(w[b])
  <2>1. x \in Fractions /\ y \in Fractions /\ Negative(y) \preceq Negative(x)
    BY <1>1, <1>2, <1>3
  <2> HIDE DEF x, y
  <2>2. PICK d \in Nat \ {0}, n, m, l, o \in Int : Is(x, n, d) /\ Is(y, m, d)
    BY <2>1, CommonFour
  <2>3. Is(Negative(x), -n, d) /\ Is(Negative(y), -m, d)
    BY <2>2, NegativeIs
  <2>4. -m <= -n /\ (x \preceq y <=> n <= m)
    BY <2>1, <2>2, <2>3, LessIs
  <2> QED BY <2>4 DEF x, y
<1>5. Overlays!Largest(w) = most
  BY Zenon DEF Overlays!Largest
<1>6. DOMAIN w = S
  BY DEF Books
<1>7. Overlays!Size(w[b]) \in values
      /\ \A a \in DOMAIN w : Overlays!\preceq(Overlays!Size(w[a]), Overlays!Size(w[b]))
  BY <1>4, <1>6, PlainOrder
<1>8. most \in values /\ \A a \in DOMAIN w : Overlays!\preceq(Overlays!Size(w[a]), most)
  <2> HIDE DEF values
  <2> QED BY <1>7
<1>9. most \in Fractions
  BY <1>1, <1>6, <1>8, PlainOrder
<1> HIDE DEF most
<1> QED BY <1>5, <1>6, <1>8, <1>9, PlainOrder

(* Scales of the overlays that can lever.                                  *)
LEMMA PlainScales ==
    \A x, w, lev :
       /\ Overlays!WithinBox(x, w)
            = IF Zero \prec Overlays!Largest(w) THEN Lesser(x, One \oslash Overlays!Largest(w)) ELSE x
       /\ Overlays!WithinLeverage(x, w, lev)
            = IF Zero \prec Gross(w) THEN Lesser(x, lev \oslash Gross(w)) ELSE x
<1> TAKE x, w, lev
<1>1. Overlays!WithinBox(x, w)
        = IF Zero \prec Overlays!Largest(w) THEN Lesser(x, One \oslash Overlays!Largest(w)) ELSE x
  BY PlainFractions, PlainArithmetic, PlainOrder DEF Overlays!WithinBox
<1>2. Overlays!WithinLeverage(x, w, lev)
        = IF Zero \prec Gross(w) THEN Lesser(x, lev \oslash Gross(w)) ELSE x
  BY PlainFractions, PlainArithmetic, PlainOrder, PlainVectors DEF Overlays!WithinLeverage
<1> QED BY <1>1, <1>2

LEMMA WithinBoxIs ==
    ASSUME NEW S, IsFiniteSet(S), S # {}, NEW w \in Books(S),
           NEW x \in Fractions, Zero \preceq x
    PROVE  LET k == Overlays!WithinBox(x, w)
           IN  /\ k \in Fractions /\ Zero \preceq k /\ k \preceq x
               /\ \A a \in S : Size(w[a] \otimes k) \preceq One
<1> DEFINE most == Overlays!Largest(w)
           k == Overlays!WithinBox(x, w)
<1>1. most \in Fractions /\ \A a \in S : Size(w[a]) \preceq most
  BY LargestIs
<1>2. k = IF Zero \prec most THEN Lesser(x, One \oslash most) ELSE x
  BY PlainScales
<1> HIDE DEF most, k
<1>3. Zero \in Fractions /\ One \in Fractions /\ Zero \preceq One
  BY SignsOfUnits
<1>4. /\ k \in Fractions /\ Zero \preceq k /\ k \preceq x
      /\ Zero \prec most => most \otimes k \preceq One
  <2>1. CASE Zero \prec most
    <3>1. Positive(most)
      BY <1>1, <2>1 DEF Positive
    <3>2. /\ One \oslash most \in Fractions /\ Zero \preceq One \oslash most
          /\ \A j \in Fractions : j \preceq One \oslash most => most \otimes j \preceq One
      BY <1>1, <1>3, <3>1, QuotientLess
    <3>3. /\ k \in Fractions /\ Zero \preceq k /\ k \preceq x
          /\ k \preceq One \oslash most
      BY <1>2, <2>1, <3>2, LessOrders DEF Lesser
    <3> QED BY <3>2, <3>3
  <2>2. CASE ~ (Zero \prec most)
    BY <1>2, <2>2, LessOrders
  <2> QED BY <2>1, <2>2
<1>5. ASSUME NEW a \in S PROVE Size(w[a] \otimes k) \preceq One
  <2> DEFINE s == Size(w[a])
             t == Size(w[a] \otimes k)
  <2>1. w[a] \in Fractions
    BY DEF Books
  <2>2. /\ s \in Fractions /\ Zero \preceq s /\ s \preceq most
        /\ t \in Fractions /\ Even(t, s \otimes k)
    BY <1>1, <1>4, <2>1, FractionsClosed, SizePositive, SizeScaled
  <2> HIDE DEF s, t
  <2>3. s \otimes k \preceq most \otimes k /\ s \otimes k \in Fractions /\ most \otimes k \in Fractions
    BY <1>1, <1>4, <2>2, TimesMonotone, FractionsClosed
  <2>4. most \otimes k \preceq One
    <3>1. CASE Zero \prec most
      BY <1>4, <3>1
    <3>2. CASE ~ (Zero \prec most)
      <4>1. most \preceq Zero
        BY <1>1, <1>3, <3>2, LessOrders
      <4>2. most \otimes k \preceq Zero \otimes k /\ Zero \otimes k \in Fractions
        BY <1>1, <1>3, <1>4, <4>1, TimesMonotone, FractionsClosed
      <4>3. Even(Zero \otimes k, Zero)
        BY <1>4, EvenUnits
      <4>4. most \otimes k \preceq Zero
        BY <1>3, <2>3, <4>2, <4>3, LessOrders DEF Even
      <4> QED BY <1>3, <2>3, <4>4, LessOrders
    <3> QED BY <3>1, <3>2
  <2>5. s \otimes k \preceq One
    BY <1>3, <2>3, <2>4, LessOrders
  <2>6. t \preceq One
    BY <1>3, <2>2, <2>3, <2>5, LessOrders DEF Even
  <2> QED BY <2>6 DEF t
<1> QED BY <1>4, <1>5 DEF k

LEMMA WithinLeverageIs ==
    ASSUME NEW S, IsFiniteSet(S), S # {}, NEW w \in Books(S),
           NEW x \in Fractions, Zero \preceq x, NEW lev \in Fractions, Zero \preceq lev
    PROVE  LET k == Overlays!WithinLeverage(x, w, lev)
           IN  /\ k \in Fractions /\ Zero \preceq k /\ k \preceq x
               /\ \A j \in Fractions : Zero \preceq j /\ j \preceq k => Gross(w) \otimes j \preceq lev
<1> DEFINE g == Gross(w)
           k == Overlays!WithinLeverage(x, w, lev)
<1>1. g \in Fractions /\ Zero \preceq g
  BY GrossType
<1>2. k = IF Zero \prec g THEN Lesser(x, lev \oslash g) ELSE x
  BY PlainScales
<1> HIDE DEF g, k
<1>3. Zero \in Fractions
  BY SignsOfUnits
<1>4. CASE Zero \prec g
  <2>1. Positive(g)
    BY <1>1, <1>4 DEF Positive
  <2>2. /\ lev \oslash g \in Fractions /\ Zero \preceq lev \oslash g
        /\ \A j \in Fractions : j \preceq lev \oslash g => g \otimes j \preceq lev
    BY <1>1, <2>1, QuotientLess
  <2>3. /\ k \in Fractions /\ Zero \preceq k /\ k \preceq x /\ k \preceq lev \oslash g
    BY <1>2, <1>4, <2>2, LessOrders DEF Lesser
  <2>4. ASSUME NEW j \in Fractions, j \preceq k PROVE g \otimes j \preceq lev
    <3>1. j \preceq lev \oslash g
      BY <2>2, <2>3, <2>4, LessOrders
    <3> QED BY <2>2, <3>1
  <2> QED BY <2>3, <2>4 DEF g, k
<1>5. CASE ~ (Zero \prec g)
  <2>1. k = x /\ k \preceq x
    BY <1>2, <1>5, LessOrders
  <2>2. g \preceq Zero
    BY <1>1, <1>3, <1>5, LessOrders
  <2>3. ASSUME NEW j \in Fractions, Zero \preceq j PROVE g \otimes j \preceq lev
    <3>1. g \otimes j \preceq Zero \otimes j /\ Even(Zero \otimes j, Zero)
          /\ g \otimes j \in Fractions /\ Zero \otimes j \in Fractions
      BY <1>1, <1>3, <2>2, <2>3, TimesMonotone, EvenUnits, FractionsClosed
    <3>2. g \otimes j \preceq Zero
      BY <1>3, <3>1, LessOrders DEF Even
    <3> QED BY <1>3, <3>1, <3>2, LessOrders
  <2> QED BY <2>1, <2>3 DEF g, k
<1> QED BY <1>4, <1>5

-----------------------------------------------------------------------------
(* Overlays with one scale.                                                *)
Three == {1, 2, 3}

LEMMA RegimeRestrains ==
    ASSUME NEW w \in Books(Three), NEW r \in DOMAIN Overlays!RegimeScale
    PROVE  LET u == Allowed(Overlays!ScaleWeights(w, r), w)
           IN  Restrained(u, w, Three) /\ Proportional(u, w, Three)
<1> DEFINE k == Overlays!RegimeScale[r]
           v == Scaled(w, k)
<1>1. k \in {Zero, Half, One}
  BY PlainFractions DEF Overlays!RegimeScale, Half
<1>2. k \in Fractions /\ Zero \preceq k /\ k \preceq One
  <2>1. Is(Half, 1, 2) /\ Is(Zero, 0, 2) /\ Is(One, 2, 2)
    BY IsFraction, UnitsAre DEF Half
  <2>2. \A x \in {Zero, Half, One} : x \in Fractions /\ Zero \preceq x /\ x \preceq One
    <3>1. Half \in Fractions /\ (Zero \preceq Half <=> 0 <= 1) /\ (Half \preceq One <=> 1 <= 2)
      BY <2>1, LessIs DEF Is
    <3> QED BY <3>1, SignsOfUnits, LessOrders
  <2> HIDE DEF k
  <2> QED BY <1>1, <2>2
<1>3. Overlays!ScaleWeights(w, r)
        = Overlays!EnforceExposureContract(v, Overlays!Unlevered(w), Overlays!PlusMinusOne)
  BY PlainVectors DEF Overlays!ScaleWeights
<1> HIDE DEF k
<1>4. Restrained(v, w, Three) /\ Proportional(v, w, Three)
  BY <1>2, ThreeAssets, ScaledBooks DEF Three
<1>5. Restrained(w, w, Three) /\ Proportional(w, w, Three)
  BY ThreeAssets, ItselfRestrained DEF Three
<1> HIDE DEF v
<1>6. Allowed(Overlays!ScaleWeights(w, r), w) \in {v, w}
  BY <1>3, ContractIs DEF Allowed
<1> QED BY <1>4, <1>5, <1>6

LEMMA UnitTimes ==
    ASSUME NEW u \in Fractions, NEW g \in {-1, 0, 1}
    PROVE  LET v == u \otimes Fraction(g, 1)
           IN  /\ v \in Fractions /\ Size(v) \preceq Size(u)
               /\ g # -1 => Between(v, u)
<1> DEFINE k == Fraction(g, 1)
           v == u \otimes k
<1>1. g \in Int /\ Is(k, g, 1) /\ k \in Fractions
  <2>1. g \in Int
    OBVIOUS
  <2> QED BY <2>1, IsFraction, FractionIs
<1> HIDE DEF k
<1>2. PICK d \in Nat \ {0}, n, m, l, o \in Int : Is(u, n, d)
  BY CommonFour
<1>3. Is(v, n * g, d)
  <2>1. Is(v, n * g, d * 1)
    BY <1>1, <1>2, TimesIs, Zenon
  <2>2. d * 1 = d
    OBVIOUS
  <2> QED BY <2>1, <2>2
<1>4. n * g = IF g = 1 THEN n ELSE IF g = 0 THEN 0 ELSE -n
  OBVIOUS
<1>5. /\ Is(v, IF g = 1 THEN n ELSE IF g = 0 THEN 0 ELSE -n, d)
      /\ v \in Fractions
  BY <1>1, <1>3, <1>4, FractionsClosed
<1> HIDE DEF v
<1> DEFINE x == IF g = 1 THEN n ELSE IF g = 0 THEN 0 ELSE -n
<1>6. x \in Int /\ Is(v, x, d) /\ Absolute(x) <= Absolute(n)
  BY <1>5 DEF Absolute
<1>7. g # -1 => (0 <= x /\ x <= n) \/ (n <= x /\ x <= 0)
  OBVIOUS
<1> HIDE DEF x
<1>8. Is(Size(v), Absolute(x), d) /\ Is(Size(u), Absolute(n), d) /\ Is(Zero, 0, d)
  BY <1>2, <1>6, SizeIs, UnitsAre
<1>9. Size(v) \preceq Size(u)
  BY <1>6, <1>8, LessIs
<1>10. g # -1 => Between(v, u)
  BY <1>2, <1>6, <1>7, <1>8, LessIs DEF Between
<1> QED BY <1>5, <1>9, <1>10 DEF k, v

LEMMA GatesRestrain ==
    ASSUME NEW w \in Books(Three), NEW g \in [Three -> {-1, 0, 1}]
    PROVE  LET u == Allowed(Overlays!Gated(w, g), w)
           IN  /\ u \in Books(Three) /\ Gross(u) \preceq Gross(w)
               /\ (\A a \in Three : g[a] # -1) => Restrained(u, w, Three)
<1> DEFINE v == [a \in Three |-> w[a] \otimes Fraction(g[a], 1)]
<1>0. IsFiniteSet(Three)
  BY ThreeAssets DEF Three
<1>1. ASSUME NEW a \in Three
      PROVE  /\ w[a] \in Fractions /\ v[a] \in Fractions /\ Size(v[a]) \preceq Size(w[a])
             /\ g[a] # -1 => Between(v[a], w[a])
  <2>1. w[a] \in Fractions /\ g[a] \in {-1, 0, 1}
    BY DEF Books
  <2> QED BY <2>1, UnitTimes
<1>2. v \in Books(Three)
  BY <1>1 DEF Books
<1>3. Overlays!Gated(w, g)
        = Overlays!EnforceExposureContract(v, Overlays!Unlevered(w), Overlays!PlusMinusOne)
  <2>1. [a \in Three |-> Overlays!\otimes(w[a], Overlays!Fraction(g[a], 1))] = v
    BY PlainFractions, PlainArithmetic
  <2> HIDE DEF v
  <2> QED BY <2>1 DEF Overlays!Gated, Three
<1> HIDE DEF v
<1>4. Gross(v) \preceq Gross(w)
  <2> DEFINE x == [a \in Three |-> Size(v[a])]
             y == [a \in Three |-> Size(w[a])]
  <2>1. \A a \in Three : x[a] \in Fractions /\ y[a] \in Fractions /\ x[a] \preceq y[a]
    BY <1>1, FractionsClosed
  <2>2. Gross(v) = AddOver(x, Three) /\ Gross(w) = AddOver(y, Three)
    BY <1>0, <1>2, GrossType
  <2> HIDE DEF x, y
  <2> QED BY <1>0, <2>1, <2>2, AddLess
<1>5. (\A a \in Three : g[a] # -1) => Restrained(v, w, Three)
  BY <1>0, <1>1, <1>2, BetweenBooks
<1>6. Restrained(w, w, Three)
  BY <1>0, ItselfRestrained
<1>7. Allowed(Overlays!Gated(w, g), w) \in {v, w}
  BY <1>3, ContractIs DEF Allowed
<1> QED BY <1>2, <1>4, <1>5, <1>6, <1>7 DEF Restrained

LEMMA NumbersOfStrategies ==
    /\ Fraction(1, 4) \in Fractions /\ Zero \preceq Fraction(1, 4) /\ Fraction(1, 4) \preceq One
    /\ Positive(Fraction(1, 4))
    /\ Half \in Fractions /\ Zero \preceq Half
    /\ Two \in Fractions /\ Zero \preceq Two /\ One \preceq Two
    /\ Zero \in Fractions /\ One \in Fractions /\ Zero \preceq One
<1>1. Is(Fraction(1, 4), 1, 4) /\ Is(Zero, 0, 4) /\ Is(One, 4, 4)
  BY IsFraction, UnitsAre
<1>2. Is(Half, 1, 2) /\ Is(Zero, 0, 2)
  BY IsFraction, UnitsAre DEF Half
<1>3. Is(Two, 2, 1) /\ Is(Zero, 0, 1) /\ Is(One, 1, 1)
  BY IsFraction, UnitsAre DEF Two
<1>4. /\ Zero \preceq Fraction(1, 4) <=> 0 <= 1
      /\ Zero \prec Fraction(1, 4) <=> 0 < 1
      /\ Fraction(1, 4) \preceq One <=> 1 <= 4
      /\ Zero \preceq Half <=> 0 <= 1
      /\ Zero \preceq Two <=> 0 <= 2
      /\ One \preceq Two <=> 1 <= 2
  BY <1>1, <1>2, <1>3, LessIs
<1>5. Fraction(1, 4) \in Fractions /\ Half \in Fractions /\ Two \in Fractions
  BY <1>1, <1>2, <1>3 DEF Is
<1> QED BY <1>4, <1>5, SignsOfUnits DEF Positive

LEMMA ScalesType == \A x \in {Half, Fraction(3, 1)} : x \in Fractions
BY FractionIs DEF Half

LEMMA VixRestrains ==
    ASSUME NEW w \in Books(Three), NEW p, Shipped(p), NEW x \in {Half, Fraction(3, 1)} \cup {None}
    PROVE  LET u == Allowed(Overlays!VixApply(w, x, p), w)
           IN  /\ u \in Books(Three) /\ Gross(u) \preceq Gross(w) \otimes Greater(One, p.cap)
               /\ \A a \in Three : Side(w[a], u[a])
               /\ Proportional(u, w, Three)
<1> DEFINE s == Overlays!ComputeScale(x, p)
           k == Overlays!WithinBox(s, w)
           v == Scaled(w, k)
           c == Greater(One, p.cap)
<1>0. IsFiniteSet(Three) /\ Three # {}
  BY ThreeAssets DEF Three
<1>1. /\ p.floor = Fraction(1, 4) /\ p.cap \in {One, Two} /\ p.cap \in Fractions
      /\ p.floor \preceq p.cap /\ p.floor \in Fractions /\ Zero \preceq p.floor
  BY NumbersOfStrategies, LessOrders DEF Shipped
<1>2. c \in Fractions /\ One \preceq c /\ p.cap \preceq c
  BY <1>1, NumbersOfStrategies, LessOrders DEF Greater
<1> HIDE DEF c
<1>3. s \in Fractions /\ p.floor \preceq s /\ s \preceq p.cap
  <2>1. s = IF x = None THEN p.floor ELSE Clamped(x, p.floor, p.cap)
    BY PlainClipped DEF Overlays!ComputeScale
  <2> HIDE DEF s
  <2>2. CASE x = None
    BY <1>1, <2>1, <2>2, LessOrders
  <2>3. CASE x # None
    <3>1. x \in Fractions
      BY <2>3, ScalesType
    <3> QED BY <1>1, <2>1, <2>3, <3>1, ClampedIs
  <2> QED BY <2>2, <2>3
<1> HIDE DEF s
<1>4. Zero \preceq s
  BY <1>1, <1>3, NumbersOfStrategies, LessOrders
<1>5. k \in Fractions /\ Zero \preceq k /\ k \preceq s
  BY <1>0, <1>3, <1>4, WithinBoxIs
<1> HIDE DEF k
<1>6. k \preceq c
  <2>1. k \preceq p.cap
    BY <1>1, <1>3, <1>5, LessOrders
  <2> QED BY <1>1, <1>2, <1>5, <2>1, LessOrders
<1>7. /\ v \in Books(Three) /\ Even(Gross(v), Gross(w) \otimes k)
      /\ \A a \in Three : Side(w[a], v[a])
      /\ Proportional(v, w, Three)
  BY <1>0, <1>5, ScaledBooks
<1>8. Overlays!VixApply(w, x, p) \in {v, Raised}
  <2>1. \A g : Overlays!EnforceExposureContract(v, g, Overlays!PlusMinusOne) \in {v, Raised}
    BY ContractIs
  <2>2. v = Overlays!Scaled(w, Overlays!WithinBox(Overlays!ComputeScale(x, p), w))
    BY PlainVectors DEF k, s
  <2> HIDE DEF v
  <2> QED BY <2>1, <2>2 DEF Overlays!VixApply
<1> HIDE DEF v
<1> DEFINE g == Gross(w)
           h == Gross(v)
<1>9. g \in Fractions /\ h \in Fractions /\ Zero \preceq g
  BY <1>0, <1>7, GrossType
<1> HIDE DEF g, h
<1>10. h \preceq g \otimes c /\ g \preceq g \otimes c
  <2>1. k \otimes g \preceq c \otimes g /\ One \otimes g \preceq c \otimes g
    BY <1>2, <1>5, <1>6, <1>9, NumbersOfStrategies, TimesMonotone
  <2>2. /\ k \otimes g = g \otimes k /\ c \otimes g = g \otimes c /\ One \otimes g = g \otimes One
        /\ Even(g \otimes One, g)
    BY <1>2, <1>5, <1>9, NumbersOfStrategies, TimesCommutes, EvenUnits
  <2>3. g \otimes k \in Fractions /\ g \otimes c \in Fractions /\ g \otimes One \in Fractions
    BY <1>2, <1>5, <1>9, NumbersOfStrategies, FractionsClosed
  <2>4. h \preceq g \otimes k
    BY <1>7 DEF Even, g, h
  <2>5. h \preceq g \otimes c
    BY <1>9, <2>1, <2>2, <2>3, <2>4, LessOrders
  <2>6. g \preceq g \otimes c
    BY <1>9, <2>1, <2>2, <2>3, LessOrders DEF Even
  <2> QED BY <2>5, <2>6
<1>11. Restrained(w, w, Three) /\ Proportional(w, w, Three)
  BY <1>0, ItselfRestrained
<1>12. Allowed(Overlays!VixApply(w, x, p), w) \in {v, w}
  BY <1>8 DEF Allowed
<1> QED BY <1>7, <1>10, <1>11, <1>12 DEF c, g, h, Restrained

(* Volatility targets and Kelly: a scale that no contract refuses.         *)
LEMMA LeversWithin ==
    ASSUME NEW w \in Books(Three), NEW x \in Fractions, Zero \preceq x,
           NEW lev \in Fractions, Zero \preceq lev
    PROVE  LET k == Overlays!WithinBox(Overlays!WithinLeverage(x, w, lev), w)
               answer == Overlays!EnforceExposureContract(
                            Overlays!Scaled(w, k), lev, Overlays!PlusMinusOne)
               u == Allowed(answer, w)
           IN  /\ u \in Books(Three) /\ Gross(u) \preceq lev
               /\ \A a \in Three : Side(w[a], u[a])
               /\ Proportional(u, w, Three)
<1> DEFINE s == Overlays!WithinLeverage(x, w, lev)
           k == Overlays!WithinBox(s, w)
           v == Scaled(w, k)
           box == Overlays!PlusMinusOne
<1>0. IsFiniteSet(Three) /\ Three # {}
  BY ThreeAssets DEF Three
<1>1. /\ s \in Fractions /\ Zero \preceq s
      /\ \A j \in Fractions : Zero \preceq j /\ j \preceq s => Gross(w) \otimes j \preceq lev
  BY <1>0, WithinLeverageIs
<1> HIDE DEF s
<1>2. /\ k \in Fractions /\ Zero \preceq k /\ k \preceq s
      /\ \A a \in Three : Size(w[a] \otimes k) \preceq One
  BY <1>0, <1>1, WithinBoxIs
<1> HIDE DEF k
<1>3. /\ v \in Books(Three) /\ Even(Gross(v), Gross(w) \otimes k)
      /\ \A a \in Three : v[a] = w[a] \otimes k /\ Side(w[a], v[a])
      /\ Proportional(v, w, Three)
  BY <1>0, <1>2, ScaledBooks
<1>4. v = Overlays!Scaled(w, k)
  BY PlainVectors
<1> HIDE DEF v
<1>5. Gross(v) \preceq lev
  <2>1. Gross(w) \otimes k \preceq lev
    BY <1>1, <1>2
  <2>2. Gross(w) \in Fractions /\ Gross(v) \in Fractions
    BY <1>0, <1>3, GrossType
  <2>3. Gross(w) \otimes k \in Fractions
    BY <1>2, <2>2, FractionsClosed
  <2> QED BY <1>3, <2>1, <2>2, <2>3, LessOrders DEF Even
<1>6. box.lower = Negative(One) /\ box.upper = One
  BY PlainFractions, PlainOrder DEF Overlays!PlusMinusOne
<1> HIDE DEF box
<1>7. ASSUME NEW a \in Three PROVE Negative(One) \preceq v[a] /\ v[a] \preceq One
  <2> DEFINE y == v[a]
  <2>1. y \in Fractions /\ Size(y) \preceq One
    BY <1>2, <1>3 DEF Books
  <2> HIDE DEF y
  <2>2. PICK d \in Nat \ {0}, n, m, l, o \in Int : Is(y, n, d)
    BY <2>1, CommonFour
  <2>3. Is(Size(y), Absolute(n), d) /\ Is(One, d, d)
    BY <2>2, SizeIs, UnitsAre
  <2>4. Is(Negative(One), -d, d)
    BY <2>3, NegativeIs
  <2>5. Absolute(n) <= d
    BY <2>1, <2>3, LessIs
  <2>6. -d <= n /\ n <= d
    BY <2>5 DEF Absolute
  <2> QED BY <2>2, <2>3, <2>4, <2>6, LessIs DEF y
<1>8. v # Raised
  BY <1>3, ResearchAssumption, PlainFractions DEF Books, Three
<1>9. DOMAIN v = Three
  BY <1>3 DEF Books
<1>10. Overlays!EnforceExposureContract(v, lev, box) = v
  BY <1>0, <1>5, <1>6, <1>7, <1>8, <1>9, ContractIs
<1>11. Allowed(Overlays!EnforceExposureContract(v, lev, box), w) = v
  BY <1>8, <1>10 DEF Allowed
<1> QED BY <1>3, <1>4, <1>5, <1>11 DEF k, s, box

LEMMA LeverageOf ==
    ASSUME NEW p, Shipped(p)
    PROVE  /\ p.leverage \in Fractions /\ Zero \preceq p.leverage
           /\ p.minScale = Zero /\ p.fraction = Half /\ Zero \in Fractions
BY NumbersOfStrategies DEF Shipped

LEMMA VolRestrains ==
    ASSUME NEW w \in Books(Three), NEW p, Shipped(p), NEW x \in {Half, Fraction(3, 1)} \cup {None}
    PROVE  LET u == Allowed(Overlays!VolApply(w, x, p), w)
           IN  /\ u \in Books(Three) /\ Gross(u) \preceq p.leverage
               /\ \A a \in Three : Side(w[a], u[a])
               /\ Proportional(u, w, Three)
<1> DEFINE s == IF x = None THEN Overlays!One ELSE Overlays!Clip(x, p.minScale, p.leverage)
<1>1. s \in Fractions /\ Zero \preceq s
  <2>1. s = IF x = None THEN One ELSE Clamped(x, Zero, p.leverage)
    BY PlainClipped, PlainFractions, LeverageOf
  <2> HIDE DEF s
  <2>2. CASE x = None
    BY <2>1, <2>2, NumbersOfStrategies
  <2>3. CASE x # None
    <3>1. x \in Fractions
      BY <2>3, ScalesType
    <3> QED BY <2>1, <2>3, <3>1, LeverageOf, ClampedIs
  <2> QED BY <2>2, <2>3
<1>2. Overlays!VolApply(w, x, p)
        = Overlays!EnforceExposureContract(
            Overlays!Scaled(w, Overlays!WithinBox(
                                 Overlays!WithinLeverage(s, w, p.leverage), w)),
            p.leverage, Overlays!PlusMinusOne)
  BY Zenon DEF Overlays!VolApply
<1> HIDE DEF s
<1> QED BY <1>1, <1>2, LeverageOf, LeversWithin

LEMMA KellyRestrains ==
    ASSUME NEW w \in Books(Three), NEW p, Shipped(p), NEW x \in {Half, Fraction(3, 1)} \cup {None}
    PROVE  LET u == Allowed(Overlays!KellyApply(w, x, p), w)
           IN  /\ u \in Books(Three) /\ Gross(u) \preceq p.leverage
               /\ \A a \in Three : Side(w[a], u[a])
               /\ Proportional(u, w, Three)
<1> DEFINE s == IF x = None \/ Overlays!Gross(w) = Overlays!Zero THEN Overlays!Zero
                ELSE Overlays!Clip(Overlays!\otimes(p.fraction, x), Overlays!Zero, p.leverage)
<1>1. s \in Fractions /\ Zero \preceq s
  <2>1. \/ s = Zero
        \/ x # None /\ s = Clamped(Half \otimes x, Zero, p.leverage)
    BY PlainClipped, PlainFractions, PlainArithmetic, LeverageOf
  <2> HIDE DEF s
  <2>2. CASE s = Zero
    BY <2>2, NumbersOfStrategies, LessOrders
  <2>3. CASE x # None /\ s = Clamped(Half \otimes x, Zero, p.leverage)
    <3>1. Half \otimes x \in Fractions
      BY <2>3, ScalesType, NumbersOfStrategies, FractionsClosed
    <3> QED BY <2>3, <3>1, LeverageOf, ClampedIs
  <2> QED BY <2>1, <2>2, <2>3
<1>2. Overlays!KellyApply(w, x, p)
        = Overlays!EnforceExposureContract(
            Overlays!Scaled(w, Overlays!WithinBox(
                                 Overlays!WithinLeverage(s, w, p.leverage), w)),
            p.leverage, Overlays!PlusMinusOne)
  BY Zenon DEF Overlays!KellyApply
<1> HIDE DEF s
<1> QED BY <1>1, <1>2, LeverageOf, LeversWithin

-----------------------------------------------------------------------------
(* The factor limit.                                                       *)
LEMMA RestrainedMore ==
    ASSUME NEW S, IsFiniteSet(S), NEW w \in Books(S), NEW u, Restrained(u, w, S),
           NEW v \in Books(S), \A a \in S : Between(v[a], u[a])
    PROVE  Restrained(v, w, S)
<1>1. u \in Books(S) /\ Gross(u) \preceq Gross(w) /\ \A a \in S : Side(w[a], u[a])
  BY DEF Restrained
<1>2. Gross(v) \preceq Gross(u)
  BY <1>1, BetweenBooks DEF Restrained
<1>3. Gross(v) \in Fractions /\ Gross(u) \in Fractions /\ Gross(w) \in Fractions
  BY <1>1, GrossType
<1>4. Gross(v) \preceq Gross(w)
  BY <1>1, <1>2, <1>3, LessOrders
<1>5. ASSUME NEW a \in S PROVE Side(w[a], v[a])
  <2>1. w[a] \in Fractions /\ u[a] \in Fractions /\ v[a] \in Fractions
    BY <1>1 DEF Books
  <2> QED BY <1>1, <2>1, BetweenIs
<1> QED BY <1>4, <1>5 DEF Restrained

LEMMA VectorsAre == \A x, y, z \in Int : Vector(x, y, z) \in Books(Three)
<1> TAKE x, y, z \in Int
<1>1. Fraction(x, 1) \in Fractions /\ Fraction(y, 1) \in Fractions /\ Fraction(z, 1) \in Fractions
  BY FractionIs
<1>2. Vector(x, y, z) = [a \in Three |-> IF a = 1 THEN Fraction(x, 1)
                                         ELSE IF a = 2 THEN Fraction(y, 1) ELSE Fraction(z, 1)]
  BY DEF Vector, Three
<1> QED BY <1>1, <1>2 DEF Books

Loads == {Vector(1, 0, -1), Vector(1, 1, 2)}

LEMMA LoadingsAre ==
    ASSUME NEW l \in Loads
    PROVE  l \in Books(Three) /\ Positive(l[1])
<1>1. l \in Books(Three)
  BY VectorsAre DEF Loads
<1>2. l[1] = Fraction(1, 1)
  BY DEF Vector, Loads
<1>3. Positive(Fraction(1, 1))
  BY WholeIs
<1> QED BY <1>1, <1>2, <1>3

LEMMA DotType ==
    ASSUME NEW S, IsFiniteSet(S), NEW f \in Books(S), NEW g \in Books(S)
    PROVE  /\ Dot(f, g) = AddOver([a \in S |-> f[a] \otimes g[a]], S)
           /\ Dot(f, g) \in Fractions
<1> DEFINE v == [a \in S |-> f[a] \otimes g[a]]
<1>1. v \in [S -> Fractions]
  <2>1. \A a \in S : f[a] \in Fractions /\ g[a] \in Fractions
    BY DEF Books
  <2> QED BY <2>1, FractionsClosed
<1>2. Dot(f, g) = Total(v)
  BY DEF Dot, Books
<1> HIDE DEF v
<1>3. Total(v) = AddOver(v, S) /\ Total(v) \in Fractions
  BY <1>1, TotalsAre
<1> QED BY <1>2, <1>3 DEF v

LEMMA DotPositive ==
    ASSUME NEW S, IsFiniteSet(S), NEW f \in Books(S), NEW b \in S, Positive(f[b])
    PROVE  Positive(Dot(f, f))
<1> DEFINE v == [a \in S |-> f[a] \otimes f[a]]
<1>1. ASSUME NEW a \in S PROVE v[a] \in Fractions /\ Zero \preceq v[a]
  <2>1. f[a] \in Fractions
    BY DEF Books
  <2> QED BY <2>1, FractionsClosed, SideOfItself DEF Side
<1>2. Positive(v[b])
  BY TimesPositive
<1>3. Dot(f, f) = AddOver(v, S)
  BY DotType
<1> HIDE DEF v
<1>4. AddOver(v, S) \in Fractions /\ v[b] \preceq AddOver(v, S)
  BY <1>1, AddNotNegative
<1>5. v[b] \in Fractions /\ Zero \in Fractions /\ Zero \prec v[b]
  BY <1>2, FractionsClosed DEF Positive
<1>6. Zero \prec AddOver(v, S)
  BY <1>4, <1>5, LessOrders
<1> QED BY <1>3, <1>4, <1>6 DEF Positive

LEMMA ProjectedType ==
    ASSUME NEW w \in Books(Three), NEW l \in Loads, NEW c \in Fractions
    PROVE  Overlays!Projected(w, l, c) \in Books(Three)
<1> DEFINE e == Overlays!Dot(l, w)
           edge == IF Overlays!\prec(Overlays!Zero, e) THEN c ELSE Overlays!Negative(c)
           k == Overlays!\oslash(Overlays!\ominus(edge, e), Overlays!Dot(l, l))
           v == Overlays!Sum2(w, Overlays!Scaled(l, k))
<1>0. IsFiniteSet(Three)
  BY ThreeAssets DEF Three
<1>1. l \in Books(Three) /\ Positive(l[1]) /\ 1 \in Three
  BY LoadingsAre DEF Loads, Three
<1>2. e \in Fractions
  BY <1>0, <1>1, DotType, PlainVectors
<1>3. Positive(Dot(l, l))
  BY <1>0, <1>1, DotPositive
<1>4. Overlays!Projected(w, l, c) = IF Overlays!\preceq(Overlays!Size(e), c) THEN w ELSE v
  BY Zenon DEF Overlays!Projected
<1> HIDE DEF e
<1>5. edge \in Fractions
  BY PlainOrder, FractionsClosed
<1> HIDE DEF edge
<1>6. k \in Fractions
  <2>1. edge \ominus e \in Fractions
    BY <1>2, <1>5, FractionsClosed
  <2>2. (edge \ominus e) \oslash Dot(l, l) \in Fractions
    BY <1>3, <2>1, OverUndoes
  <2> QED BY <2>2, PlainArithmetic, PlainVectors
<1> HIDE DEF k
<1>7. Scaled(l, k) \in Books(Three)
  BY <1>1, <1>6, ScaledType
<1>8. v = Sum2(w, Scaled(l, k))
  BY PlainVectors
<1>9. Sum2(w, Scaled(l, k)) \in Books(Three)
  <2> DEFINE x == Scaled(l, k)
  <2>1. \A a \in Three : w[a] \in Fractions /\ x[a] \in Fractions
    BY <1>7 DEF Books
  <2> HIDE DEF x
  <2>2. \A a \in Three : w[a] \oplus x[a] \in Fractions
    BY <2>1, FractionsClosed
  <2>3. Sum2(w, x) \in Books(Three)
    BY <2>2 DEF Sum2, Books
  <2> QED BY <2>3 DEF x
<1> QED BY <1>4, <1>8, <1>9

LEMMA KeepSignsIs ==
    ASSUME NEW w \in Books(Three), NEW x \in Books(Three)
    PROVE  LET v == Overlays!KeepSigns(x, w)
           IN  /\ v \in Books(Three)
               /\ \A a \in Three : /\ Side(w[a], v[a])
                                   /\ Even(w[a], Zero) => Even(v[a], Zero)
<1> DEFINE lo(a) == IF w[a] \prec Zero THEN Negative(One) ELSE Zero
           hi(a) == IF Zero \prec w[a] THEN One ELSE Zero
           v == [a \in Three |-> Clamped(x[a], lo(a), hi(a))]
<1>1. Overlays!KeepSigns(x, w) = v
  <2>1. \A a \in Three :
           Overlays!Clip(x[a],
                         IF Overlays!\prec(w[a], Overlays!Zero)
                           THEN Overlays!Negative(Overlays!One) ELSE Overlays!Zero,
                         IF Overlays!\prec(Overlays!Zero, w[a])
                           THEN Overlays!One ELSE Overlays!Zero)
             = Clamped(x[a], lo(a), hi(a))
    BY PlainClipped, PlainOrder, PlainFractions
  <2> HIDE DEF lo, hi
  <2> QED BY <2>1 DEF Overlays!KeepSigns, Three
<1>2. ASSUME NEW a \in Three
      PROVE  /\ v[a] \in Fractions /\ Side(w[a], v[a])
             /\ Even(w[a], Zero) => Even(v[a], Zero)
  <2> DEFINE y == w[a]
             z == v[a]
  <2>1. x[a] \in Fractions /\ y \in Fractions
    BY DEF Books
  <2>2. /\ lo(a) \in Fractions /\ hi(a) \in Fractions
        /\ lo(a) \preceq hi(a)
    BY SignsOfUnits, LessOrders
  <2>3. z \in Fractions /\ lo(a) \preceq z /\ z \preceq hi(a)
    BY <2>1, <2>2, ClampedIs
  <2>4. Zero \in Fractions /\ (y \prec Zero => hi(a) = Zero) /\ (Zero \prec y => lo(a) = Zero)
        /\ (~ (y \prec Zero) /\ ~ (Zero \prec y) => lo(a) = Zero /\ hi(a) = Zero)
    BY <2>1, SignsOfUnits, LessOrders
  <2> HIDE DEF y, z, lo, hi
  <2>5. Side(y, z)
    <3>1. CASE y \prec Zero
      BY <2>1, <2>3, <2>4, <3>1, LessOrders, SideIs
    <3>2. CASE Zero \prec y
      BY <2>1, <2>3, <2>4, <3>2, LessOrders, SideIs
    <3>3. CASE ~ (y \prec Zero) /\ ~ (Zero \prec y)
      <4>1. Even(z, Zero)
        BY <2>3, <2>4, <3>3 DEF Even
      <4> QED BY <2>1, <2>3, <4>1, SideOfItself
    <3> QED BY <3>1, <3>2, <3>3
  <2>6. Even(y, Zero) => Even(z, Zero)
    BY <2>1, <2>3, <2>4, LessOrders DEF Even
  <2> QED BY <2>3, <2>5, <2>6 DEF y, z
<1>3. v \in Books(Three)
  BY <1>2 DEF Books
<1> HIDE DEF v
<1> QED BY <1>1, <1>2, <1>3

LEMMA KeepGrossIs ==
    ASSUME NEW w \in Books(Three), NEW x \in Books(Three),
           \A a \in Three : /\ Side(w[a], x[a])
                            /\ Even(w[a], Zero) => Even(x[a], Zero)
    PROVE  Restrained(Overlays!KeepGross(x, w), w, Three)
<1> DEFINE g == Gross(w)
           h == Gross(x)
           v == Overlays!KeepGross(x, w)
<1>0. IsFiniteSet(Three)
  BY ThreeAssets DEF Three
<1>1. /\ g \in Fractions /\ h \in Fractions /\ Zero \preceq g /\ Zero \preceq h
      /\ \A a \in Three : Size(w[a]) \preceq g
  BY <1>0, GrossType
<1>2. v = IF g \prec h /\ Zero \prec g THEN Scaled(x, g \oslash h) ELSE x
  BY PlainFractions, PlainArithmetic, PlainOrder, PlainVectors DEF Overlays!KeepGross
<1> HIDE DEF v
<1>3. Zero \in Fractions /\ One \in Fractions
  BY SignsOfUnits
<1>4. ASSUME g \prec h, Zero \prec g PROVE Restrained(v, w, Three)
  <2> HIDE DEF g, h
  <2>1. Positive(h) /\ g \preceq h
    BY <1>1, <1>3, <1>4, LessOrders DEF Positive
  <2> DEFINE k == g \oslash h
  <2>2. k \in Fractions /\ Zero \preceq k /\ k \preceq One
    BY <1>1, <2>1, QuotientLess
  <2>3. Even(k \otimes h, g)
    BY <1>1, <2>1, OverUndoes
  <2> HIDE DEF k
  <2>4. /\ Scaled(x, k) \in Books(Three) /\ Even(Gross(Scaled(x, k)), h \otimes k)
        /\ \A a \in Three : Scaled(x, k)[a] = x[a] \otimes k
    BY <1>0, <2>2, ScaledBooks DEF h
  <2>5. v = Scaled(x, k)
    BY <1>2, <1>4 DEF k
  <2> DEFINE y == Gross(v)
  <2>6. y \in Fractions /\ Even(y, h \otimes k)
    BY <1>0, <2>4, <2>5, GrossType
  <2> HIDE DEF y
  <2>7. h \otimes k = k \otimes h /\ h \otimes k \in Fractions
    BY <1>1, <2>2, TimesCommutes, FractionsClosed
  <2>8. y \preceq g
    BY <1>1, <2>3, <2>6, <2>7, LessOrders DEF Even
  <2>9. ASSUME NEW a \in Three PROVE Side(w[a], v[a])
    <3>1. w[a] \in Fractions /\ x[a] \in Fractions /\ v[a] = x[a] \otimes k
      BY <2>4, <2>5 DEF Books
    <3> QED BY <2>2, <3>1, BetweenScaled
  <2> QED BY <2>4, <2>5, <2>8, <2>9 DEF Restrained, y, g
<1>5. ASSUME g \prec h, ~ (Zero \prec g) PROVE FALSE
  <2>1. g \preceq Zero
    BY <1>1, <1>3, <1>5, LessOrders
  <2>2. ASSUME NEW a \in Three PROVE Between(x[a], w[a])
    <3> DEFINE s == Size(w[a])
               y == w[a]
    <3>1. y \in Fractions /\ x[a] \in Fractions /\ s \in Fractions /\ s \preceq g
      BY <1>1, FractionsClosed DEF Books
    <3>2. s \preceq Zero
      <4> HIDE DEF s, g
      <4> QED BY <1>1, <1>3, <2>1, <3>1, LessOrders
    <3>3. Even(y, Zero)
      <4>1. PICK d \in Nat \ {0}, n, m, l, o \in Int : Is(y, n, d)
        BY <3>1, CommonFour
      <4>2. Is(Size(y), Absolute(n), d) /\ Is(Zero, 0, d)
        BY <4>1, SizeIs, UnitsAre
      <4>3. Absolute(n) <= 0
        BY <3>2, <4>2, LessIs
      <4>4. n = 0
        BY <4>3 DEF Absolute
      <4> QED BY <1>3, <3>1, <4>1, <4>2, <4>4, EvenIs
    <3>4. Even(x[a], Zero)
      BY <3>3
    <3> HIDE DEF y
    <3>5. Between(x[a], y)
      BY <1>3, <3>1, <3>3, <3>4, LessOrders DEF Between, Even
    <3> QED BY <3>5 DEF y
  <2>3. h \preceq g
    BY <1>0, <2>2, BetweenBooks DEF Restrained
  <2> HIDE DEF g, h
  <2> QED BY <1>1, <1>5, <2>3, LessOrders
<1>6. ASSUME ~ (g \prec h) PROVE Restrained(v, w, Three)
  <2>1. h \preceq g
    <3> HIDE DEF g, h
    <3> QED BY <1>1, <1>6, LessOrders
  <2> QED BY <1>2, <1>6, <2>1 DEF Restrained
<1> QED BY <1>4, <1>5, <1>6 DEF v

LEMMA KeepCapIs ==
    ASSUME NEW l \in Books(Three), NEW x \in Books(Three), NEW c, Positive(c)
    PROVE  LET v == Overlays!KeepCap(x, l, c)
           IN  v \in Books(Three) /\ \A a \in Three : Between(v[a], x[a])
<1> DEFINE e == Size(Dot(l, x))
           v == Overlays!KeepCap(x, l, c)
<1>0. IsFiniteSet(Three)
  BY ThreeAssets DEF Three
<1>1. e \in Fractions
  BY <1>0, DotType, FractionsClosed
<1>2. v = IF c \prec e THEN Scaled(x, c \oslash e) ELSE x
  BY PlainArithmetic, PlainOrder, PlainVectors DEF Overlays!KeepCap
<1> HIDE DEF e, v
<1>3. c \in Fractions /\ Zero \in Fractions /\ Zero \preceq c
  BY FractionsClosed, LessOrders DEF Positive
<1>4. \A a \in Three : x[a] \in Fractions /\ Between(x[a], x[a])
  BY BetweenItself DEF Books
<1>5. ASSUME c \prec e
      PROVE  LET k == c \oslash e
             IN  k \in Fractions /\ Zero \preceq k /\ k \preceq One
  <2>1. Positive(e) /\ c \preceq e
    BY <1>1, <1>3, <1>5, LessOrders DEF Positive
  <2> QED BY <1>1, <1>3, <2>1, QuotientLess
<1>6. ASSUME c \prec e PROVE v \in Books(Three) /\ \A a \in Three : Between(v[a], x[a])
  <2> DEFINE k == c \oslash e
  <2>1. k \in Fractions /\ Zero \preceq k /\ k \preceq One
    BY <1>5, <1>6
  <2>2. v = Scaled(x, k)
    BY <1>2, <1>6
  <2> HIDE DEF k
  <2>3. v \in Books(Three) /\ \A a \in Three : v[a] = x[a] \otimes k
    BY <2>1, <2>2, ScaledType
  <2> QED BY <1>4, <2>1, <2>3, BetweenScaled
<1> QED BY <1>2, <1>4, <1>6 DEF v

LEMMA FactorRestrains ==
    ASSUME NEW w \in Books(Three), NEW p, Shipped(p), NEW l \in Loads
    PROVE  Restrained(Allowed(Overlays!FactorApply(w, l, p), w), w, Three)
<1> DEFINE c == p.exposure
           x == Overlays!Projected(w, l, c)
           s == Overlays!KeepSigns(x, w)
           g == Overlays!KeepGross(s, w)
           b == Overlays!Clipped(g, Overlays!Negative(Overlays!One), Overlays!One)
           v == Overlays!KeepCap(b, l, c)
<1>0. IsFiniteSet(Three)
  BY ThreeAssets DEF Three
<1>1. c \in Fractions /\ Positive(c) /\ p.preserveSigns = TRUE
  BY NumbersOfStrategies DEF Shipped
<1>2. Overlays!FactorApply(w, l, p) \in {w, v, Raised}
  <2>1. Overlays!FactorApply(w, l, p)
          = Overlays!EnforceExposureContract(
              IF Overlays!\preceq(Overlays!Size(Overlays!Dot(l, w)), c) THEN w ELSE v,
              Overlays!Unlevered(w), Overlays!PlusMinusOne)
    BY <1>1, Zenon DEF Overlays!FactorApply
  <2> HIDE DEF v
  <2> QED BY <2>1, ContractIs
<1> HIDE DEF v
<1>3. x \in Books(Three)
  BY <1>1, ProjectedType
<1> HIDE DEF x
<1>4. /\ s \in Books(Three)
      /\ \A a \in Three : Side(w[a], s[a]) /\ (Even(w[a], Zero) => Even(s[a], Zero))
  BY <1>3, KeepSignsIs
<1> HIDE DEF s
<1>5. Restrained(g, w, Three)
  BY <1>4, KeepGrossIs
<1> HIDE DEF g
<1>6. g \in Books(Three)
  BY <1>5 DEF Restrained
<1>7. b = [a \in Three |-> Clamped(g[a], Negative(One), One)]
  BY <1>6, PlainClipped, PlainFractions, PlainOrder DEF Books
<1> HIDE DEF b
<1>8. \A a \in Three : b[a] \in Fractions /\ Between(b[a], g[a])
  <2>1. \A a \in Three : g[a] \in Fractions
    BY <1>6 DEF Books
  <2> QED BY <1>7, <2>1, SignsOfUnits, BetweenClamped
<1>9. b \in Books(Three)
  BY <1>7, <1>8 DEF Books
<1>10. Restrained(b, w, Three)
  BY <1>0, <1>5, <1>8, <1>9, RestrainedMore
<1>11. v \in Books(Three) /\ \A a \in Three : Between(v[a], b[a])
  BY <1>1, <1>9, LoadingsAre, KeepCapIs DEF v, Loads
<1>12. Restrained(v, w, Three)
  BY <1>0, <1>10, <1>11, RestrainedMore
<1>13. Restrained(w, w, Three)
  BY <1>0, ItselfRestrained
<1> QED BY <1>2, <1>12, <1>13 DEF Allowed

-----------------------------------------------------------------------------
(* The position limit.                                                     *)
LongOnly(w, S) == \A a \in S : Zero \preceq w[a]

LEMMA LongGross ==
    ASSUME NEW S, IsFiniteSet(S), NEW w \in Books(S), LongOnly(w, S)
    PROVE  Gross(w) = Total(w)
<1> DEFINE v == [a \in S |-> Size(w[a])]
<1>1. \A a \in S : w[a] \in Fractions /\ v[a] = w[a]
  <2>1. \A a \in S : w[a] \in Fractions /\ Zero \preceq w[a] /\ Zero \in Fractions
    BY SignsOfUnits DEF LongOnly, Books
  <2>2. \A a \in S : ~ (w[a] \prec Zero)
    BY <2>1, LessOrders
  <2> QED BY <2>1, <2>2 DEF Size
<1>2. v = w
  BY <1>1 DEF Books
<1>3. Gross(w) = Total(v)
  BY DEF Gross, Books
<1> QED BY <1>2, <1>3

(* Whatever is moved to reach a sum between those of the bounds, a weight  *)
(* under the cap is not reduced.                                           *)
Topped(u, w, cap, S) ==
    /\ u \in Books(S) /\ LongOnly(u, S) /\ Total(u) \preceq Total(w)
    /\ \A a \in S : w[a] \preceq cap => w[a] \preceq u[a]

LEMMA FilledUp ==
    ASSUME NEW S, IsFiniteSet(S), S # {}, NEW w \in Books(S), LongOnly(w, S),
           NEW cap \in Fractions, Zero \preceq cap,
           Total(w) \preceq Fraction(Cardinality(S), 1) \otimes cap
    PROVE  LET u == Overlays!ProjectBoundedSum(w, Total(w), Zero, cap)
           IN  Topped(u, w, cap, S) /\ Total(u) = Total(w)
<1> DEFINE T == Total(w)
           n == Cardinality(S)
           N == Fraction(n, 1)
           u == Overlays!ProjectBoundedSum(w, T, Zero, cap)
<1>0. Zero \in Fractions /\ Zero \preceq cap
  BY SignsOfUnits
<1>1. T = AddOver(w, S) /\ T \in Fractions /\ Lowest(T)
  BY TotalsAre DEF Books
<1>2. \A a \in S : w[a] \in Fractions /\ Zero \preceq w[a]
  BY DEF Books, LongOnly
<1>3. Zero \preceq T /\ \A a \in S : w[a] \preceq T
  BY <1>1, <1>2, AddNotNegative
<1>4. n \in Nat /\ N \in Fractions
  <2>1. n \in Nat
    BY FS_CardinalityType
  <2> QED BY <2>1, WholeIs
<1>5. Even(N \otimes Zero, Zero) /\ N \otimes Zero \in Fractions /\ N \otimes cap \in Fractions
  BY <1>0, <1>4, EvenUnits, FractionsClosed
<1>6. Possible(n, T, Zero, cap)
  <2>1. T \preceq N \otimes cap
    OBVIOUS
  <2> HIDE DEF T, N
  <2>2. N \otimes Zero \preceq T
    BY <1>0, <1>1, <1>3, <1>5, LessOrders DEF Even
  <2> QED BY <2>1, <2>2 DEF Possible, N
<1>7. /\ Bounded(u, S, Zero, cap, T)
      /\ \/ T = N \otimes Zero
         \/ T = N \otimes cap
         \/ \E x \in Fractions : u = Shifted(w, S, x, Zero, cap)
  BY <1>0, <1>1, <1>6, ProjectionIs DEF Books
<1> HIDE DEF u, T, n, N
<1>8. /\ u \in Books(S) /\ Total(u) = T
      /\ \A a \in S : Zero \preceq u[a] /\ u[a] \preceq cap
  BY <1>7 DEF Bounded, Books
<1>9. \A a \in S : u[a] \in Fractions
  BY <1>8 DEF Books
<1>10. AddOver(u, S) = T
  BY <1>8, TotalsAre DEF Books
<1>11. ASSUME NEW a \in S, w[a] \preceq cap PROVE w[a] \preceq u[a]
  <2>1. CASE T = N \otimes Zero
    <3> DEFINE y == w[a]
               z == u[a]
    <3>1. /\ y \in Fractions /\ z \in Fractions /\ y \preceq T /\ T \preceq Zero
          /\ Zero \preceq z
      BY <1>2, <1>3, <1>5, <1>8, <1>9, <2>1 DEF Even
    <3> HIDE DEF y, z
    <3>2. y \preceq Zero
      BY <1>0, <1>1, <3>1, LessOrders
    <3>3. y \preceq z
      BY <1>0, <3>1, <3>2, LessOrders
    <3> QED BY <3>3 DEF y, z
  <2>2. CASE T = N \otimes cap
    <3> DEFINE full == [b \in S |-> cap]
    <3>1. \A b \in S : full[b] \in Fractions /\ Even(full[b], cap) /\ full[b] = cap
      BY EvenOrders
    <3> HIDE DEF full
    <3>2. Even(AddOver(full, S), N \otimes cap)
      BY <3>1, ConstantAdds DEF N, n
    <3>3. AddOver(full, S) \preceq AddOver(u, S)
      BY <1>10, <2>2, <3>2 DEF Even
    <3>4. \A b \in S : u[b] \in Fractions /\ full[b] \in Fractions /\ u[b] \preceq full[b]
      BY <1>8, <1>9, <3>1
    <3>5. cap \preceq u[a]
      BY <3>1, <3>3, <3>4, AddTight
    <3> DEFINE y == w[a]
               z == u[a]
    <3>6. y \in Fractions /\ z \in Fractions /\ y \preceq cap /\ cap \preceq z
      BY <1>2, <1>9, <1>11, <3>5
    <3> HIDE DEF y, z
    <3>7. y \preceq z
      BY <3>6, LessOrders
    <3> QED BY <3>7 DEF y, z
  <2>3. ASSUME NEW x \in Fractions, u = Shifted(w, S, x, Zero, cap) PROVE w[a] \preceq u[a]
    <3>1. \A b \in S : u[b] = Clamped(w[b] \ominus x, Zero, cap)
      BY <2>3 DEF Shifted
    <3>2. CASE x \preceq Zero
      BY <1>2, <1>11, <3>1, <3>2, ClampedLess
    <3>3. CASE Zero \preceq x
      <4>1. \A b \in S : u[b] \in Fractions /\ w[b] \in Fractions /\ u[b] \preceq w[b]
        BY <1>2, <1>9, <3>1, <3>3, ClampedLess
      <4>2. AddOver(w, S) \preceq AddOver(u, S)
        BY <1>1, <1>10, LessOrders
      <4> QED BY <4>1, <4>2, AddTight
    <3> QED BY <1>0, <3>2, <3>3, LessOrders
  <2> QED BY <1>7, <2>1, <2>2, <2>3
<1>12. T \preceq T
  BY <1>1, LessOrders
<1>13. Topped(u, w, cap, S)
  BY <1>8, <1>11, <1>12 DEF Topped, LongOnly, T
<1> QED BY <1>8, <1>13 DEF u, T

LEMMA CutDown ==
    ASSUME NEW S, IsFiniteSet(S), NEW w \in Books(S), LongOnly(w, S),
           NEW cap \in Fractions, Zero \preceq cap
    PROVE  Topped(Overlays!Clipped(w, Zero, cap), w, cap, S)
<1> DEFINE u == Overlays!Clipped(w, Zero, cap)
<1>1. u = [a \in S |-> Clamped(w[a], Zero, cap)]
  BY PlainClipped DEF Books
<1>2. ASSUME NEW a \in S
      PROVE  /\ w[a] \in Fractions /\ u[a] \in Fractions /\ Zero \preceq u[a]
             /\ u[a] \preceq w[a] /\ (w[a] \preceq cap => w[a] \preceq u[a])
  <2> DEFINE y == w[a]
             z == Clamped(w[a], Zero, cap)
  <2>1. y \in Fractions /\ Zero \preceq y /\ Zero \in Fractions
    BY SignsOfUnits DEF Books, LongOnly
  <2>2. z = Clamped(y, Zero, cap)
    OBVIOUS
  <2> HIDE DEF y, z
  <2>3. /\ z \in Fractions /\ Zero \preceq z
        /\ z \preceq y /\ (y \preceq cap => y \preceq z)
    BY <2>1, <2>2, LessOrders DEF Clamped, Lesser, Greater
  <2> QED BY <1>1, <2>1, <2>3 DEF y, z
<1>3. u \in Books(S)
  BY <1>1, <1>2 DEF Books
<1> HIDE DEF u
<1>4. Total(u) \preceq Total(w)
  <2>1. Total(u) = AddOver(u, S) /\ Total(w) = AddOver(w, S)
    BY <1>3, TotalsAre DEF Books
  <2> QED BY <1>2, <2>1, AddLess
<1> QED BY <1>2, <1>3, <1>4 DEF Topped, LongOnly, u

LEMMA LimitRestrains ==
    ASSUME NEW w \in Books(Three), NEW p, Shipped(p)
    PROVE  LET u == Allowed(Overlays!PositionLimit(w, p.position), w)
           IN  /\ Restrained(u, w, Three)
               /\ Gross(w) \preceq Fraction(3, 1) \otimes p.position => Gross(u) = Gross(w)
               /\ \A a \in Three : w[a] \preceq p.position => w[a] \preceq u[a]
<1> DEFINE cap == p.position
           room == Fraction(3, 1) \otimes cap
           short == \E a \in Three : Overlays!\prec(w[a], Overlays!Zero)
           cut == Overlays!Clipped(w, Zero, cap)
           filled == Overlays!ProjectBoundedSum(w, Total(w), Zero, cap)
<1>0. IsFiniteSet(Three) /\ Three # {} /\ Cardinality(Three) = 3
  BY ThreeAssets DEF Three
<1>1. cap \in Fractions /\ Zero \preceq cap
  BY NumbersOfStrategies DEF Shipped
<1>2. Overlays!PositionLimit(w, cap)
        = IF short THEN Raised ELSE IF room \prec Total(w) THEN cut ELSE filled
  <2>1. Overlays!PositionLimit(w, cap)
          = IF \E a \in {1, 2, 3} : Overlays!\prec(w[a], Overlays!Zero) THEN Raised
            ELSE IF Overlays!\prec(Overlays!\otimes(Overlays!Fraction(
                                      Overlays!Cardinality({1, 2, 3}), 1), cap),
                                   Overlays!Total(w))
              THEN Overlays!Clipped(w, Overlays!Zero, cap)
              ELSE Overlays!ProjectBoundedSum(w, Overlays!Total(w), Overlays!Zero, cap)
    BY Zenon DEF Overlays!PositionLimit
  <2>2. Overlays!Cardinality({1, 2, 3}) = 3
    BY <1>0, PlainSets DEF Three
  <2>3. Overlays!\otimes(Overlays!Fraction(Overlays!Cardinality({1, 2, 3}), 1), cap) = room
    BY <2>2, PlainFractions, PlainArithmetic
  <2> HIDE DEF room
  <2> QED BY <2>1, <2>3, PlainFractions, PlainOrder, PlainTotal DEF Three
<1> HIDE DEF cap
<1>3. Fraction(3, 1) \in Fractions /\ room \in Fractions
  <2>1. Fraction(3, 1) \in Fractions
    BY FractionIs
  <2> QED BY <1>1, <2>1, FractionsClosed
<1>4. \A a \in Three : w[a] \in Fractions /\ w[a] \preceq w[a]
  BY LessOrders DEF Books
<1>5. CASE short
  <2>1. Allowed(Overlays!PositionLimit(w, cap), w) = w
    BY <1>2, <1>5 DEF Allowed
  <2> QED BY <1>0, <1>4, <2>1, ItselfRestrained DEF cap
<1>6. CASE ~ short
  <2>1. LongOnly(w, Three)
    <3>1. \A a \in Three : ~ (w[a] \prec Zero)
      BY <1>6, PlainFractions, PlainOrder
    <3> QED BY <1>4, <3>1, SignsOfUnits, LessOrders DEF LongOnly
  <2> DEFINE u == IF room \prec Total(w) THEN cut ELSE filled
  <2>2. Total(w) \in Fractions /\ Gross(w) = Total(w)
    BY <1>0, <2>1, TotalsAre, LongGross DEF Books
  <2>3. Topped(u, w, cap, Three) /\ (~ (room \prec Total(w)) => Total(u) = Total(w))
    <3>1. CASE room \prec Total(w)
      BY <1>0, <1>1, <2>1, <3>1, CutDown
    <3>2. CASE ~ (room \prec Total(w))
      <4>1. Total(w) \preceq room
        <5> HIDE DEF room
        <5> QED BY <1>3, <2>2, <3>2, LessOrders
      <4>2. Topped(filled, w, cap, Three) /\ Total(filled) = Total(w)
        BY <1>0, <1>1, <2>1, <4>1, FilledUp
      <4> HIDE DEF filled
      <4> QED BY <3>2, <4>2
    <3> QED BY <3>1, <3>2
  <2>4. Overlays!PositionLimit(w, cap) = u
    BY <1>2, <1>6
  <2> HIDE DEF u
  <2>5. u \in Books(Three) /\ LongOnly(u, Three)
    BY <2>3 DEF Topped
  <2>6. u # Raised
    BY <2>5, ResearchAssumption, PlainFractions DEF Books, Three
  <2>7. Allowed(Overlays!PositionLimit(w, cap), w) = u
    BY <2>4, <2>6 DEF Allowed
  <2>8. Gross(u) = Total(u)
    BY <1>0, <2>5, LongGross
  <2>9. ASSUME NEW a \in Three PROVE Side(w[a], u[a])
    <3>1. w[a] \in Fractions /\ u[a] \in Fractions /\ Zero \preceq w[a] /\ Zero \preceq u[a]
      BY <2>1, <2>5 DEF Books, LongOnly
    <3> QED BY <3>1, SideIs
  <2>10. Restrained(u, w, Three)
    BY <2>2, <2>3, <2>5, <2>8, <2>9 DEF Topped, Restrained
  <2>11. Gross(w) \preceq room => Gross(u) = Gross(w)
    <3>1. Gross(w) \preceq room => ~ (room \prec Total(w))
      <4> HIDE DEF room
      <4> QED BY <1>3, <2>2, LessOrders
    <3> QED BY <2>2, <2>3, <2>8, <3>1
  <2>12. \A a \in Three : w[a] \preceq cap => w[a] \preceq u[a]
    BY <2>3 DEF Topped
  <2> QED BY <2>7, <2>10, <2>11, <2>12 DEF cap
<1> QED BY <1>5, <1>6

LEMMA BreakerRestrains ==
    ASSUME NEW w \in Books(Three), NEW halted
    PROVE  LET u == Allowed(Overlays!EnforceExposureContract(
                               IF halted THEN Overlays!Flat ELSE w, Overlays!Unlevered(w),
                               Overlays!PlusMinusOne), w)
           IN  Restrained(u, w, Three) /\ Proportional(u, w, Three)
<1> DEFINE flat == [a \in Three |-> Zero]
           v == IF halted THEN flat ELSE w
<1>1. Overlays!Flat = flat
  BY PlainFractions DEF Overlays!Flat, Three
<1>2. IsFiniteSet(Three)
  BY ThreeAssets DEF Three
<1>3. /\ Restrained(flat, w, Three) /\ Proportional(flat, w, Three)
      /\ Restrained(w, w, Three) /\ Proportional(w, w, Three)
  BY <1>2, NothingRestrained, ItselfRestrained
<1> HIDE DEF flat
<1>4. Allowed(Overlays!EnforceExposureContract(
                 IF halted THEN Overlays!Flat ELSE w, Overlays!Unlevered(w),
                 Overlays!PlusMinusOne), w) \in {v, w}
  <2> HIDE DEF v
  <2>1. (IF halted THEN Overlays!Flat ELSE w) = v
    BY <1>1 DEF v
  <2> QED BY <2>1, ContractIs DEF Allowed
<1> QED BY <1>3, <1>4

-----------------------------------------------------------------------------
(* A decision of a strategy.                                               *)
Worths == {Fraction(8, 1), Fraction(9, 1), Fraction(10, 1)}

Answered == {Vector(1, 1, 1), Vector(2, 1, 1), Vector(4, 1, 0),
             Vector(-1, 1, 3), Vector(-1, -1, 0)}

LEMMA AnsweredAre == \A w \in Answered : w \in Books(Three)
BY VectorsAre DEF Answered

StrategyInv ==
    /\ strategy \in Strategies
    /\ stage \in {"allocate", "overlay", "emitted", "raised", "failed"}
    /\ book \in Books(Three) /\ target \in Books(Three)
    /\ equity \in Seq(Worths) /\ Len(equity) <= strategy.decisions

LEMMA FlatType == Overlays!Flat \in Books(Three)
BY PlainFractions, SignsOfUnits DEF Overlays!Flat, Books, Three

LEMMA StrategyStarts == Overlays!Init => StrategyInv
<1> SUFFICES ASSUME Overlays!Init PROVE StrategyInv
  OBVIOUS
<1>1. strategy \in Strategies /\ stage = "allocate" /\ book = Overlays!Flat
      /\ target = Overlays!Flat /\ tripped = FALSE
      /\ equity = <<CHOOSE nav \in Worths : \A n \in Worths : Overlays!\preceq(n, nav)>>
  BY DEF Overlays!Init, Worths
<1>2. (CHOOSE nav \in Worths : \A n \in Worths : Overlays!\preceq(n, nav)) \in Worths
  <2>1. Is(Fraction(8, 1), 8, 1) /\ Is(Fraction(9, 1), 9, 1) /\ Is(Fraction(10, 1), 10, 1)
    BY IsFraction
  <2>2. \A n \in Worths : n \preceq Fraction(10, 1)
    <3>1. /\ Fraction(8, 1) \preceq Fraction(10, 1) <=> 8 <= 10
          /\ Fraction(9, 1) \preceq Fraction(10, 1) <=> 9 <= 10
          /\ Fraction(10, 1) \preceq Fraction(10, 1) <=> 10 <= 10
      BY <2>1, LessIs
    <3> QED BY <3>1 DEF Worths
  <2>3. Fraction(10, 1) \in Worths /\ \A n \in Worths : Overlays!\preceq(n, Fraction(10, 1))
    BY <2>2, PlainOrder DEF Worths
  <2> QED BY <2>3
<1>3. equity \in Seq(Worths) /\ Len(equity) = 1
  <2> DEFINE nav == CHOOSE nav \in Worths : \A n \in Worths : Overlays!\preceq(n, nav)
  <2>1. nav \in Worths
    BY <1>2
  <2>2. equity = <<nav>>
    BY <1>1, Zenon
  <2> HIDE DEF nav
  <2> QED BY <2>1, <2>2
<1>4. strategy.decisions \in {1, 2, 3}
  BY <1>1, StrategiesAre DEF Shipped
<1>5. book \in Books(Three) /\ target \in Books(Three)
  BY <1>1, FlatType, Zenon
<1>6. stage \in {"allocate", "overlay", "emitted", "raised", "failed"}
  BY <1>1
<1>7. Len(equity) <= strategy.decisions
  BY <1>3, <1>4
<1> QED BY <1>1, <1>3, <1>5, <1>6, <1>7, Zenon DEF StrategyInv

LEMMA AllocatedType ==
    ASSUME StrategyInv, NEW w \in Answers(Three), NEW l \in SUBSET Three
    PROVE  Overlays!Allocated(strategy, w, l) \in Answers(Three)
<1> DEFINE s == strategy
           o == [mode |-> s.mode, lower |-> s.lower, upper |-> s.upper]
           equal == Overlays!EqualWeight({1, 2, 3})
           raw == CASE s.optimizer = "equal" -> equal
                    [] s.optimizer = "mean_variance" -> Overlays!MeanVariance(w, l, o)
                    [] s.optimizer = "minimum_variance" -> Overlays!MinimumVariance(w, l, o)
                    [] s.optimizer = "risk_parity" -> Overlays!RiskParity(w, l, o)
                    [] s.optimizer = "hrp" -> Overlays!HierarchicalRiskParity(w, s.order, l, o)
                    [] s.optimizer = "black_litterman" ->
                          Overlays!BlackLitterman(equal, s.views, w, l, o)
                    [] s.optimizer = "drl" ->
                          Overlays!DRLAllocator(s.trained, w, target, l, o)
<1>1. Shipped(s)
  BY StrategiesAre DEF StrategyInv
<1>2. s.optimizer \in Optimizers /\ s.order = <<2, 3, 1>>
  BY <1>1 DEF Shipped
<1>3. o.lower \in Fractions /\ o.upper \in Fractions
  <2>1. \A x \in {Negative(One), Fraction(1, 8)} : x \in Fractions
    BY SignsOfUnits, FractionIs
  <2>2. \A x \in {One, Fraction(3, 4), Half} : x \in Fractions
    BY SignsOfUnits, FractionIs DEF Half
  <2>3. s.lower \in Fractions /\ s.upper \in Fractions
    BY <1>1, <2>1, <2>2 DEF Shipped
  <2> QED BY <2>3
<1>4. Overlays!Allocated(s, w, l) = Overlays!Optimize(raw, o)
  BY Zenon DEF Overlays!Allocated
<1> HIDE DEF o
<1>5. equal \in Books({1, 2, 3})
  BY EqualWeightType
<1> HIDE DEF equal
<1>6. /\ Overlays!MeanVariance(w, l, o) \in Answers({1, 2, 3})
      /\ Overlays!MinimumVariance(w, l, o) \in Answers({1, 2, 3})
      /\ Overlays!RiskParity(w, l, o) \in Answers({1, 2, 3})
      /\ Overlays!HierarchicalRiskParity(w, s.order, l, o) \in Answers({1, 2, 3})
      /\ Overlays!BlackLitterman(equal, s.views, w, l, o) \in Answers({1, 2, 3})
      /\ Overlays!DRLAllocator(s.trained, w, target, l, o) \in Answers({1, 2, 3})
  <2>1. w \in Answers({1, 2, 3}) /\ l \in SUBSET {1, 2, 3}
    BY DEF Three
  <2>2. /\ Overlays!MeanVariance(w, l, o) \in Answers({1, 2, 3})
        /\ Overlays!MinimumVariance(w, l, o) \in Answers({1, 2, 3})
        /\ Overlays!RiskParity(w, l, o) \in Answers({1, 2, 3})
    BY <1>3, <2>1, SolversType
  <2>3. Overlays!HierarchicalRiskParity(w, s.order, l, o) \in Answers({1, 2, 3})
    BY <1>2, <1>3, <2>1, HierarchicalType
  <2>4. Overlays!BlackLitterman(equal, s.views, w, l, o) \in Answers({1, 2, 3})
    BY <1>3, <1>5, <2>1, BlackLittermanType
  <2>5. Overlays!DRLAllocator(s.trained, w, target, l, o) \in Answers({1, 2, 3})
    BY <1>3, <2>1, AllocatorType
  <2> QED BY <2>2, <2>3, <2>4, <2>5
<1>7. raw \in Answers({1, 2, 3})
  <2> HIDE DEF s
  <2> QED BY <1>2, <1>5, <1>6 DEF Optimizers, Answers
<1> HIDE DEF raw
<1>8. Overlays!Optimize(raw, o) \in {raw, Raised}
  BY DEF Overlays!Optimize, Overlays!EnforceWeightContract
<1> QED BY <1>4, <1>7, <1>8 DEF s, Answers, Three

LEMMA AllocateKeeps ==
    ASSUME StrategyInv, Overlays!Allocate
    PROVE  StrategyInv' /\ (stage = "overlay" => FALSE)
<1>1. PICK w \in Answered \cup {Raised}, l \in SUBSET {1, 2, 3} :
         Overlays!Allocates(Overlays!EnforceWeightContract(
            Overlays!Allocated(strategy, w, l), strategy.mode, Overlays!PlusMinusOne), w)
  BY DEF Overlays!Allocate, Answered
<1> DEFINE a == Overlays!Allocated(strategy, w, l)
           b == Overlays!EnforceWeightContract(a, strategy.mode, Overlays!PlusMinusOne)
<1>2. a \in Answers(Three)
  <2>1. w \in Answers(Three)
    BY AnsweredAre DEF Answers
  <2> QED BY <2>1, AllocatedType DEF Three
<1> HIDE DEF a
<1>3. b \in {a, Raised}
  BY DEF Overlays!EnforceWeightContract
<1>4. /\ book' = IF b = Raised THEN Overlays!Flat ELSE b
      /\ stage' \in {"raised", "overlay", "failed"}
  BY <1>1 DEF a, Overlays!Allocates
<1> HIDE DEF b
<1>5. book' \in Books(Three) /\ stage' \in {"raised", "overlay", "failed"}
  BY <1>2, <1>3, <1>4, FlatType DEF Answers
<1>6. UNCHANGED <<strategy, target, equity, tripped>> /\ stage = "allocate"
  BY DEF Overlays!Allocate
<1> QED BY <1>5, <1>6 DEF StrategyInv

(* Every overlay is given a book and answers with one, or raises.          *)
Restraint ==
    LET overlay == Head(rest)
        room == Fraction(3, 1) \otimes strategy.position
    IN  /\ overlay \in {"vol", "kelly"} => Gross(book') \preceq strategy.leverage
        /\ overlay = "vix" =>
              Gross(book') \preceq Gross(book) \otimes Greater(One, strategy.cap)
        /\ overlay \notin {"vol", "kelly", "vix"} => Gross(book') \preceq Gross(book)
        /\ ~(overlay = "tsmom" /\ strategy.allowShort) =>
              \A a \in Three : Side(book[a], book'[a])
        /\ overlay \in {"regime", "vix", "vol", "kelly", "breaker"} =>
              Proportional(book', book, Three)
        /\ overlay = "limit" =>
              /\ Gross(book) \preceq room => Gross(book') = Gross(book)
              /\ \A a \in Three :
                    book[a] \preceq strategy.position => book[a] \preceq book'[a]

(* An overlay that refuses its data leaves all but the stage as it is.     *)
Stops ==
    stage' = "failed" /\ UNCHANGED <<strategy, rest, book, target, equity>>

LEMMA Applies ==
    ASSUME StrategyInv, NEW overlay, NEW estimate, NEW answer,
           Overlays!Apply(overlay, estimate, answer)
    PROVE  \/ Stops
           \/ /\ estimate # Raised
              /\ Head(rest) = overlay /\ book' = Allowed(answer, book)
              /\ stage' \in {"raised", "overlay"}
              /\ UNCHANGED <<strategy, target, equity>>
BY DEF Overlays!Apply, Allowed, Stops

LEMMA OverlaysStep ==
    ASSUME StrategyInv,
           \/ Overlays!Regime \/ Overlays!Kama \/ Overlays!TSMomentum \/ Overlays!Vix
           \/ Overlays!VolTargeting \/ Overlays!Kelly \/ Overlays!Factor \/ Overlays!Limit
           \/ Overlays!Breaker
    PROVE  StrategyInv' /\ (rest' # rest => Restraint)
<1>1. book \in Books(Three) /\ Shipped(strategy)
  BY StrategiesAre DEF StrategyInv
<1>0. Stops => StrategyInv' /\ rest' = rest
  BY DEF Stops, StrategyInv
<1>2. CASE Overlays!Regime
  <2>1. PICK r \in DOMAIN Overlays!RegimeScale \cup {Raised} :
           Overlays!Apply("regime", r, Overlays!ScaleWeights(book, r)) /\ UNCHANGED tripped
    BY <1>2 DEF Overlays!Regime
  <2>2. ~ Stops => r \in DOMAIN Overlays!RegimeScale
    BY <2>1, Applies
  <2>3. ~ Stops => Restrained(book', book, Three) /\ Proportional(book', book, Three)
    BY <1>1, <2>1, <2>2, Applies, RegimeRestrains
  <2> QED BY <1>0, <2>1, <2>3, Applies DEF Restraint, Restrained, StrategyInv
<1>3. CASE Overlays!Kama
  <2>1. PICK g \in [Three -> {0, 1}] \cup {Raised} :
           Overlays!Apply("kama", g, Overlays!Gated(book, g)) /\ UNCHANGED tripped
    BY <1>3 DEF Overlays!Kama, Three
  <2>2. ~ Stops => g \in [Three -> {0, 1}]
    BY <2>1, Applies
  <2>3. ~ Stops => g \in [Three -> {-1, 0, 1}] /\ \A a \in Three : g[a] # -1
    BY <2>2
  <2>4. ~ Stops => Restrained(book', book, Three)
    BY <1>1, <2>1, <2>3, Applies, GatesRestrain
  <2> QED BY <1>0, <2>1, <2>4, Applies DEF Restraint, Restrained, StrategyInv
<1>4. CASE Overlays!TSMomentum
  <2>1. PICK signs \in [Three -> {-1, 0, 1}] \cup {Raised} :
           /\ Overlays!Apply("tsmom", signs,
                             Overlays!Gated(book, Overlays!Multiplier(signs, strategy.allowShort)))
           /\ UNCHANGED tripped
    BY <1>4 DEF Overlays!TSMomentum, Three
  <2> DEFINE g == Overlays!Multiplier(signs, strategy.allowShort)
  <2>2. signs # Raised =>
           /\ g \in [Three -> {-1, 0, 1}]
           /\ ~ strategy.allowShort => \A a \in Three : g[a] # -1
    BY DEF Overlays!Multiplier, Three
  <2> HIDE DEF g
  <2>3. ~ Stops => signs # Raised
    BY <2>1, Applies
  <2>4. ~ Stops => /\ book' \in Books(Three) /\ Gross(book') \preceq Gross(book)
                   /\ ~ strategy.allowShort => Restrained(book', book, Three)
    BY <1>1, <2>1, <2>2, <2>3, Applies, GatesRestrain DEF g
  <2> QED BY <1>0, <2>1, <2>4, Applies DEF Restraint, Restrained, StrategyInv
<1>5. CASE Overlays!Vix
  <2>1. PICK x \in {Half, Fraction(3, 1)} \cup {None, Raised} :
           /\ Overlays!Apply("vix", x, Overlays!VixApply(book, x, strategy))
           /\ UNCHANGED tripped
    BY <1>5, Zenon DEF Overlays!Vix
  <2> SUFFICES ASSUME ~ Stops PROVE StrategyInv' /\ Restraint
    BY <1>0
  <2>0. x \in {Half, Fraction(3, 1)} \cup {None}
    BY <2>1, Applies
  <2>2. book' = Allowed(Overlays!VixApply(book, x, strategy), book)
    BY <2>1, Applies, Zenon
  <2>3. /\ book' \in Books(Three)
        /\ Gross(book') \preceq Gross(book) \otimes Greater(One, strategy.cap)
        /\ \A a \in Three : Side(book[a], book'[a])
        /\ Proportional(book', book, Three)
    <3> DEFINE u == Allowed(Overlays!VixApply(book, x, strategy), book)
    <3>1. /\ u \in Books(Three)
          /\ Gross(u) \preceq Gross(book) \otimes Greater(One, strategy.cap)
          /\ \A a \in Three : Side(book[a], u[a])
          /\ Proportional(u, book, Three)
      BY <1>1, <2>0, VixRestrains, Zenon
    <3> QED BY <2>2, <3>1, Zenon
  <2>4. UNCHANGED <<strategy, target, equity, tripped>> /\ stage' \in {"raised", "overlay"}
        /\ Head(rest) = "vix"
    BY <2>1, Applies, Zenon
  <2> QED BY <2>3, <2>4 DEF Restraint, StrategyInv
<1>6. CASE Overlays!VolTargeting
  <2>1. PICK x \in {Half, Fraction(3, 1)} \cup {None, Raised} :
           /\ Overlays!Apply("vol", x, Overlays!VolApply(book, x, strategy))
           /\ UNCHANGED tripped
    BY <1>6, Zenon DEF Overlays!VolTargeting
  <2> SUFFICES ASSUME ~ Stops PROVE StrategyInv' /\ Restraint
    BY <1>0
  <2>0. x \in {Half, Fraction(3, 1)} \cup {None}
    BY <2>1, Applies
  <2>2. book' = Allowed(Overlays!VolApply(book, x, strategy), book)
    BY <2>1, Applies, Zenon
  <2>3. /\ book' \in Books(Three) /\ Gross(book') \preceq strategy.leverage
        /\ \A a \in Three : Side(book[a], book'[a])
        /\ Proportional(book', book, Three)
    <3> DEFINE u == Allowed(Overlays!VolApply(book, x, strategy), book)
    <3>1. /\ u \in Books(Three) /\ Gross(u) \preceq strategy.leverage
          /\ \A a \in Three : Side(book[a], u[a])
          /\ Proportional(u, book, Three)
      BY <1>1, <2>0, VolRestrains, Zenon
    <3> QED BY <2>2, <3>1, Zenon
  <2>4. UNCHANGED <<strategy, target, equity, tripped>> /\ stage' \in {"raised", "overlay"}
        /\ Head(rest) = "vol"
    BY <2>1, Applies, Zenon
  <2> QED BY <2>3, <2>4 DEF Restraint, StrategyInv
<1>7. CASE Overlays!Kelly
  <2>1. PICK x \in {Half, Fraction(3, 1)} \cup {None, Raised} :
           /\ Overlays!Apply("kelly", x, Overlays!KellyApply(book, x, strategy))
           /\ UNCHANGED tripped
    BY <1>7, Zenon DEF Overlays!Kelly
  <2> SUFFICES ASSUME ~ Stops PROVE StrategyInv' /\ Restraint
    BY <1>0
  <2>0. x \in {Half, Fraction(3, 1)} \cup {None}
    BY <2>1, Applies
  <2>2. book' = Allowed(Overlays!KellyApply(book, x, strategy), book)
    BY <2>1, Applies, Zenon
  <2>3. /\ book' \in Books(Three) /\ Gross(book') \preceq strategy.leverage
        /\ \A a \in Three : Side(book[a], book'[a])
        /\ Proportional(book', book, Three)
    <3> DEFINE u == Allowed(Overlays!KellyApply(book, x, strategy), book)
    <3>1. /\ u \in Books(Three) /\ Gross(u) \preceq strategy.leverage
          /\ \A a \in Three : Side(book[a], u[a])
          /\ Proportional(u, book, Three)
      BY <1>1, <2>0, KellyRestrains, Zenon
    <3> QED BY <2>2, <3>1, Zenon
  <2>4. UNCHANGED <<strategy, target, equity, tripped>> /\ stage' \in {"raised", "overlay"}
        /\ Head(rest) = "kelly"
    BY <2>1, Applies, Zenon
  <2> QED BY <2>3, <2>4 DEF Restraint, StrategyInv
<1>8. CASE Overlays!Factor
  <2>1. PICK l \in Loads \cup {Raised} :
           /\ Overlays!Apply("factor", l, Overlays!FactorApply(book, l, strategy))
           /\ UNCHANGED tripped
    BY <1>8 DEF Overlays!Factor, Loads
  <2>2. ~ Stops => l \in Loads
    BY <2>1, Applies
  <2>3. ~ Stops => Restrained(book', book, Three)
    BY <1>1, <2>1, <2>2, Applies, FactorRestrains
  <2> QED BY <1>0, <2>1, <2>3, Applies DEF Restraint, Restrained, StrategyInv
<1>9. CASE Overlays!Limit
  <2>1. /\ Overlays!Apply("limit", book, Overlays!PositionLimit(book, strategy.position))
        /\ UNCHANGED tripped
    BY <1>9 DEF Overlays!Limit
  <2>2. ~ Stops =>
           /\ Restrained(book', book, Three)
           /\ Gross(book) \preceq Fraction(3, 1) \otimes strategy.position
                 => Gross(book') = Gross(book)
           /\ \A a \in Three : book[a] \preceq strategy.position => book[a] \preceq book'[a]
    BY <1>1, <2>1, Applies, LimitRestrains
  <2> QED BY <1>0, <2>1, <2>2, Applies DEF Restraint, Restrained, StrategyInv
<1>10. CASE Overlays!Breaker
  <2> DEFINE Now(c) == Overlays!UpdateState(tripped, Overlays!Drawdown(c), strategy)
             Guarded(halted) == Overlays!EnforceExposureContract(
                            IF halted THEN Overlays!Flat ELSE book, Overlays!Unlevered(book),
                            Overlays!PlusMinusOne)
  <2>1. PICK curve : Overlays!Apply("breaker", curve, Guarded(Now(curve)))
    BY <1>10, Zenon DEF Overlays!Breaker
  <2> HIDE DEF Now
  <2>2. Restrained(Allowed(Guarded(Now(curve)), book), book, Three)
        /\ Proportional(Allowed(Guarded(Now(curve)), book), book, Three)
    BY <1>1, BreakerRestrains, Zenon
  <2> HIDE DEF Guarded
  <2> SUFFICES ASSUME ~ Stops PROVE StrategyInv' /\ Restraint
    BY <1>0
  <2>3. book' = Allowed(Guarded(Now(curve)), book) /\ Head(rest) = "breaker"
        /\ UNCHANGED <<strategy, target, equity>> /\ stage' \in {"raised", "overlay"}
    BY <2>1, Applies, Zenon
  <2>4. Restrained(book', book, Three) /\ Proportional(book', book, Three)
    BY <2>2, <2>3, Zenon
  <2> QED BY <2>3, <2>4 DEF Restraint, Restrained, StrategyInv
<1> QED BY <1>2, <1>3, <1>4, <1>5, <1>6, <1>7, <1>8, <1>9, <1>10, Zenon

LEMMA EmitKeeps ==
    ASSUME StrategyInv, Overlays!Emit
    PROVE  StrategyInv' /\ rest' = rest
<1> DEFINE final == Overlays!EnforceExposureContract(book, strategy.maxGross, Overlays!PlusMinusOne)
<1>1. final \in {book, Raised}
  BY ContractIs
<1>2. /\ stage' = IF final = Raised THEN "raised" ELSE "emitted"
      /\ target' = IF final = Raised THEN target ELSE final
      /\ UNCHANGED <<strategy, book, equity, tripped, rest>>
  BY DEF Overlays!Emit
<1> HIDE DEF final
<1> QED BY <1>1, <1>2 DEF StrategyInv

LEMMA NextDecisionKeeps ==
    ASSUME StrategyInv, Overlays!NextDecision
    PROVE  StrategyInv' /\ rest' = rest
<1>1. PICK nav \in Worths : equity' = Append(equity, nav)
  BY DEF Overlays!NextDecision, Worths
<1>2. /\ stage' = "allocate" /\ book' = Overlays!Flat
      /\ UNCHANGED <<strategy, rest, target>> /\ Len(equity) < strategy.decisions
      /\ tripped' \in {tripped, FALSE}
  BY DEF Overlays!NextDecision
<1>3. strategy.decisions \in {1, 2, 3}
  BY StrategiesAre DEF Shipped, StrategyInv
<1>4. equity' \in Seq(Worths) /\ Len(equity') = Len(equity) + 1 /\ Len(equity) \in Nat
  <2>1. equity \in Seq(Worths)
    BY DEF StrategyInv
  <2> QED BY <1>1, <2>1
<1>5. Len(equity') <= strategy'.decisions
  BY <1>2, <1>3, <1>4
<1> QED BY <1>2, <1>4, <1>5, FlatType DEF StrategyInv

LEMMA StrategySteps ==
    ASSUME StrategyInv, [ResearchNext]_researchVars
    PROVE  /\ StrategyInv'
           /\ stage = "overlay" /\ rest # <<>> /\ rest' # rest => Restraint
<1>1. CASE UNCHANGED overlays
  BY <1>1 DEF StrategyInv, overlays
<1>2. CASE Overlays!Next
  <2>1. CASE Overlays!Allocate
    BY <2>1, AllocateKeeps
  <2>2. CASE Overlays!Emit
    BY <2>2, EmitKeeps
  <2>3. CASE Overlays!NextDecision
    BY <2>3, NextDecisionKeeps
  <2> QED BY <1>2, <2>1, <2>2, <2>3, OverlaysStep DEF Overlays!Next
<1> QED BY <1>1, <1>2 DEF ResearchNext, researchVars

LEMMA StrategyHolds == ResearchSpec => []StrategyInv
<1>1. ResearchInit => StrategyInv
  BY StrategyStarts DEF ResearchInit
<1>2. StrategyInv /\ [ResearchNext]_researchVars => StrategyInv'
  BY StrategySteps
<1> QED BY <1>1, <1>2, PTL DEF ResearchSpec, researchVars

(***************************************************************************)
(* OverlaysNeverAddRisk, for the strategies and three assets of MCResearch *)
(* (the lemma on each overlay is about any book of exact weights): however *)
(* the market moves, no overlay adds gross that it may not add, turns a    *)
(* long into a short or back unless it is a momentum gate or a factor      *)
(* limit that may, or changes the proportions of a book that it scales,    *)
(* and the position limit takes only from positions over the cap.          *)
(***************************************************************************)
THEOREM OverlaysNeverAddRisk == ResearchSpec => OverlaysRestrain
<1> DEFINE Body ==
      stage = "overlay" /\ rest # <<>> /\ rest' # rest =>
          LET overlay == Head(rest)
              room == Overlays!\otimes(Overlays!Fraction(Overlays!Cardinality({1, 2, 3}), 1),
                                       strategy.position)
          IN  /\ overlay \in {"vol", "kelly"} =>
                    Overlays!\preceq(Overlays!Gross(book'), strategy.leverage)
              /\ overlay = "vix" =>
                    Overlays!\preceq(Overlays!Gross(book'),
                                     Overlays!\otimes(Overlays!Gross(book),
                                                      Overlays!Greater(Overlays!One, strategy.cap)))
              /\ overlay \notin {"vol", "kelly", "vix"} =>
                    Overlays!\preceq(Overlays!Gross(book'), Overlays!Gross(book))
              /\ \/ overlay = "tsmom" /\ strategy.allowShort
                 \/ overlay = "factor" /\ ~strategy.preserveSigns
                 \/ \A a \in {1, 2, 3} :
                       Overlays!\preceq(Overlays!Zero, Overlays!\otimes(book[a], book'[a]))
              /\ overlay \in {"regime", "vix", "vol", "kelly", "breaker"} =>
                    \A a, b \in {1, 2, 3} :
                        Overlays!\otimes(book'[a], book[b]) = Overlays!\otimes(book'[b], book[a])
              /\ overlay = "limit" =>
                    /\ Overlays!\preceq(Overlays!Gross(book), room) =>
                          Overlays!Gross(book') = Overlays!Gross(book)
                    /\ \A a \in {1, 2, 3} :
                          Overlays!\preceq(book[a], strategy.position) =>
                             Overlays!\preceq(book[a], book'[a])
<1>1. StrategyInv /\ [ResearchNext]_researchVars => Body
  <2> SUFFICES ASSUME StrategyInv, [ResearchNext]_researchVars PROVE Body
    OBVIOUS
  <2>1. stage = "overlay" /\ rest # <<>> /\ rest' # rest => Restraint
    BY StrategySteps
  <2>2. Overlays!Fraction(Overlays!Cardinality({1, 2, 3}), 1) = Fraction(3, 1)
    BY PlainFractions, PlainSets, ThreeAssets
  <2>3. Restraint => Body
    BY <2>2, PlainFractions, PlainArithmetic, PlainOrder, PlainVectors
       DEF Restraint, Side, Proportional, Three
  <2> QED BY <2>1, <2>3
<1>2. StrategyInv /\ [ResearchNext]_researchVars => [Body]_(Overlays!vars)
  BY <1>1
<1>3. OverlaysRestrain <=> [][Body]_(Overlays!vars)
  BY DEF OverlaysRestrain, Overlays!OverlaysRestrain
<1> HIDE DEF Body
<1> QED BY <1>2, <1>3, StrategyHolds, PTL DEF ResearchSpec, researchVars
-----------------------------------------------------------------------------
(* Fundamentals.                                                           *)
LEMMA MaxExists ==
    ASSUME NEW S \in SUBSET Nat, S # {}, NEW bound \in Nat, \A n \in S : n < bound
    PROVE  Max(S) \in S
<1> DEFINE Above == {m \in Nat : \A n \in S : n <= m}
           m == Min(Above)
<1>1. bound \in Above
  OBVIOUS
<1>2. m \in Above /\ \A k \in Above : m <= k
  <2>1. Above \in SUBSET Nat /\ Above # {}
    BY <1>1
  <2> HIDE DEF Above
  <2> QED BY <2>1, MinExists
<1>3. m \in Nat /\ \A n \in S : n \in Nat /\ n <= m
  BY <1>2
<1>4. m \in S
  <2> SUFFICES ASSUME m \notin S PROVE FALSE
    OBVIOUS
  <2> HIDE DEF m
  <2>1. \A n \in S : n \in Nat /\ n <= m - 1
    <3> SUFFICES ASSUME NEW n \in S PROVE n \in Nat /\ n <= m - 1
      OBVIOUS
    <3>1. n # m /\ n \in Nat /\ m \in Nat /\ n <= m
      BY <1>3
    <3> QED BY <3>1
  <2>2. PICK n : n \in S
    OBVIOUS
  <2>3. m - 1 \in Nat
    BY <1>3, <2>1, <2>2
  <2>4. m - 1 \in Above
    BY <2>1, <2>3
  <2> HIDE DEF Above
  <2>5. m <= m - 1
    BY <1>2, <2>4
  <2> QED BY <1>3, <2>5
<1>5. \E x \in S : \A y \in S : x >= y
  BY <1>3, <1>4
<1> HIDE DEF Above, m
<1> QED BY <1>5, Zenon DEF Max

(* A value of a day is the same whatever is announced on that day or later,*)
(* although the panel is made from the whole frame.                        *)
LEMMA LaterReportsUnseen ==
    ASSUME NEW R \in SUBSET Reports, NEW r \in Reports, NEW d \in Nat, d <= r.announced,
           NEW mode, NEW field
    PROVE  PitPanel(mode, field, R \cup {r}, d) = PitPanel(mode, field, R, d)
<1> DEFINE Of(Q) == {q \in Q : field \in q.fields}
           Until(Q, e) == {q \in Of(Q) : q.announced <= e}
           At(Q, e) == SnapshotValue(mode, Until(Q, e))
           Numbers(Q) == {e \in {q.announced : q \in Of(Q)} : e < d /\ At(Q, e) # {}}
           longer == R \cup {r}
<1>1. r.announced \in Nat /\ \A q \in R : q.announced \in Nat
  BY FundamentalsAssumption DEF Reports
<1>2. ASSUME NEW e \in Nat, e < d PROVE At(longer, e) = At(R, e)
  <2>1. ~(r.announced <= e)
    BY <1>1, <1>2
  <2>2. Until(longer, e) = Until(R, e)
    BY <2>1
  <2> QED BY <2>2
<1>3. \A e \in Nat : e < d =>
         (e \in {q.announced : q \in Of(longer)} <=> e \in {q.announced : q \in Of(R)})
  BY <1>1
<1>4. Numbers(R) \in SUBSET Nat /\ Numbers(longer) \in SUBSET Nat
  <2> HIDE DEF At
  <2> QED BY <1>1
<1>5. \A e \in Nat : e \in Numbers(longer) <=> e \in Numbers(R)
  <2> HIDE DEF At, Of
  <2> QED BY <1>2, <1>3
<1>6. Numbers(longer) = Numbers(R)
  <2> HIDE DEF Numbers
  <2> QED BY <1>4, <1>5
<1>7. Numbers(R) # {} => Max(Numbers(R)) \in Nat /\ Max(Numbers(R)) < d
  <2> SUFFICES ASSUME Numbers(R) # {}
               PROVE  Max(Numbers(R)) \in Nat /\ Max(Numbers(R)) < d
    OBVIOUS
  <2>1. \A e \in Numbers(R) : e \in Nat /\ e < d
    BY <1>4
  <2> HIDE DEF Numbers
  <2>2. Max(Numbers(R)) \in Numbers(R)
    BY <1>4, <2>1, MaxExists
  <2> QED BY <2>1, <2>2
<1>8. \A Q : PitPanel(mode, field, Q, d)
               = IF Numbers(Q) = {} THEN {} ELSE At(Q, Max(Numbers(Q)))
  BY DEF PitPanel
<1> HIDE DEF Numbers, At, Of, longer
<1>9. At(longer, Max(Numbers(R))) = At(R, Max(Numbers(R))) \/ Numbers(R) = {}
  BY <1>2, <1>7
<1>10. PitPanel(mode, field, longer, d) = PitPanel(mode, field, R, d)
  BY <1>6, <1>8, <1>9
<1> QED BY <1>10 DEF longer

(* So are the measures; the merge is too, unless it comes to refuse.       *)
LEMMA LaterReportsUnknown ==
    ASSUME NEW R \in SUBSET Reports, NEW r \in Reports, NEW d \in Nat, d <= r.announced
    PROVE  /\ Answer(R \cup {r}, d).value = Answer(R, d).value
           /\ Answer(R \cup {r}, d).quality = Answer(R, d).quality
           /\ Answer(R \cup {r}, d).merged \in {Answer(R, d).merged, Raised}
<1> DEFINE longer == R \cup {r}
<1>1. \A mode, field : PitPanel(mode, field, longer, d) = PitPanel(mode, field, R, d)
  BY LaterReportsUnseen
<1>2. AsOf(longer, d) = AsOf(R, d)
  <2>1. r.announced \in Nat
    BY FundamentalsAssumption DEF Reports
  <2> QED BY <2>1 DEF AsOf
<1>3. PointInTimeMerge(longer, d) \in {PointInTimeMerge(R, d), Raised}
  BY <1>2 DEF PointInTimeMerge
<1> HIDE DEF longer
<1>4. \A measure : Measured(measure, longer, d) = Measured(measure, R, d)
  BY <1>1 DEF Measured
<1>5. \A measures : AvailableMean(measures, longer, d) = AvailableMean(measures, R, d)
  BY <1>4 DEF AvailableMean
<1>6. ValueFactor(longer, d) = ValueFactor(R, d)
      /\ QualityFactor(longer, d) = QualityFactor(R, d)
  BY <1>5 DEF ValueFactor, QualityFactor
<1>7. /\ Answer(longer, d).value = Answer(R, d).value
      /\ Answer(longer, d).quality = Answer(R, d).quality
      /\ Answer(longer, d).merged \in {Answer(R, d).merged, Raised}
  BY <1>3, <1>6 DEF Answer
<1> QED BY <1>7 DEF longer

LEMMA NextDayAnswers ==
    ASSUME TypeOK, NextDay
    PROVE  /\ today' \in Days
           /\ DOMAIN answers' = {d \in Days : d <= today'}
           /\ \A d \in DOMAIN answers' :
                 answers'[d] = IF d = today' THEN Answer(reports, d) ELSE answers[d]
           /\ \A d \in DOMAIN answers' : d # today' => d \in DOMAIN answers
<1>1. PICK d \in Days :
        /\ d > today /\ \A e \in Days : e > today => d <= e
        /\ today' = d
        /\ answers' = [e \in DOMAIN answers \cup {d} |->
                          IF e = d THEN Answer(reports, d) ELSE answers[e]]
  BY DEF NextDay
<1>2. today \in Nat /\ d \in Nat
  BY <1>1, FundamentalsAssumption DEF TypeOK
<1>3. DOMAIN answers \cup {d} = {e \in Days : e <= d}
  <2>1. ASSUME NEW e \in Days PROVE e <= today \/ e = d <=> e <= d
    BY <1>1, <1>2, FundamentalsAssumption
  <2>2. DOMAIN answers = {e \in Days : e <= today}
    BY DEF TypeOK
  <2> QED BY <2>1, <2>2
<1>4. DOMAIN answers' = DOMAIN answers \cup {d}
  BY <1>1
<1>5. \A e \in DOMAIN answers' :
         answers'[e] = IF e = d THEN Answer(reports, e) ELSE answers[e]
  BY <1>1
<1> QED BY <1>1, <1>3, <1>4, <1>5

(* Every variable has its type; there is one answer for each day so far.   *)
THEOREM TypeCorrect == Spec => []TypeOK
<1>1. Init => TypeOK
  <2> SUFFICES ASSUME Init PROVE TypeOK
    OBVIOUS
  <2>1. Min(Days) \in Days /\ \A d \in Days : Min(Days) <= d
    BY FundamentalsAssumption, MinExists, Zenon
  <2>2. ASSUME NEW d \in Days PROVE d = Min(Days) <=> d <= Min(Days)
    <3>1. d \in Nat /\ Min(Days) \in Nat /\ Min(Days) <= d
      BY <2>1, FundamentalsAssumption
    <3> QED BY <3>1
  <2>3. {Min(Days)} = {d \in Days : d <= Min(Days)}
    BY <2>1, <2>2
  <2> QED BY <2>1, <2>3 DEF Init, TypeOK
<1>2. TypeOK /\ [Next]_vars => TypeOK'
  <2> SUFFICES ASSUME TypeOK, [Next]_vars PROVE TypeOK'
    OBVIOUS
  <2>1. CASE Announce
    BY <2>1 DEF Announce, TypeOK, Reports
  <2>2. CASE NextDay
    <3>1. reports' = reports
      BY <2>2 DEF NextDay
    <3> QED BY <2>2, <3>1, NextDayAnswers DEF TypeOK
  <2>3. CASE UNCHANGED vars
    BY <2>3 DEF vars, TypeOK
  <2> QED BY <2>1, <2>2, <2>3 DEF Next
<1> QED BY <1>1, <1>2, PTL DEF Spec

(* What a feature of a day was when the day came is what a backtest        *)
(* computes for it from the frame of any number of late and restated       *)
(* reports announced since, unless the merge refuses that frame.           *)
THEOREM NoRestatementLookahead == Spec => []NothingForeseen
<1>1. Init => NothingForeseen
  BY DEF Init, NothingForeseen
<1>2. TypeOK /\ NothingForeseen /\ [Next]_vars => NothingForeseen'
  <2> SUFFICES ASSUME TypeOK, NothingForeseen, [Next]_vars PROVE NothingForeseen'
    OBVIOUS
  <2>1. CASE Announce
    <3>1. PICK r \in Reports : r.announced = today /\ reports' = reports \cup {r}
      BY <2>1 DEF Announce, Reports, TypeOK
    <3>2. ASSUME NEW d \in DOMAIN answers
          PROVE  /\ Answer(reports \cup {r}, d).value = answers[d].value
                 /\ Answer(reports \cup {r}, d).quality = answers[d].quality
                 /\ Answer(reports \cup {r}, d).merged \in {answers[d].merged, Raised}
      <4>1. d \in Nat /\ d <= r.announced /\ reports \in SUBSET Reports
        BY <3>1, FundamentalsAssumption DEF TypeOK
      <4>2. /\ Answer(reports, d).value = answers[d].value
            /\ Answer(reports, d).quality = answers[d].quality
            /\ Answer(reports, d).merged \in {answers[d].merged, Raised}
        BY DEF NothingForeseen
      <4> QED BY <4>1, <4>2, LaterReportsUnknown
    <3>3. answers' = answers
      BY <2>1 DEF Announce
    <3> QED BY <3>1, <3>2, <3>3 DEF NothingForeseen
  <2>2. CASE NextDay
    <3>1. reports' = reports
      BY <2>2 DEF NextDay
    <3>2. \A d \in DOMAIN answers' :
             \/ answers'[d] = Answer(reports, d)
             \/ d \in DOMAIN answers /\ answers'[d] = answers[d]
      BY <2>2, NextDayAnswers
    <3>3. ASSUME NEW d \in DOMAIN answers'
          PROVE  /\ Answer(reports, d).value = answers'[d].value
                 /\ Answer(reports, d).quality = answers'[d].quality
                 /\ Answer(reports, d).merged \in {answers'[d].merged, Raised}
      BY <3>2 DEF NothingForeseen
    <3> QED BY <3>1, <3>3 DEF NothingForeseen
  <2>3. CASE UNCHANGED vars
    BY <2>3 DEF vars, NothingForeseen
  <2> QED BY <2>1, <2>2, <2>3 DEF Next
<1> QED BY <1>1, <1>2, TypeCorrect, PTL DEF Spec

-----------------------------------------------------------------------------
(* The release: its inductive invariant.                                   *)
PaperVintages == [kind : {"paper"}, commit : Nat, at : Nat, input : Nat]

ExpansionVintages ==
    [kind : {"expansion"}, commit : Nat, at : Nat, input : [Panels -> Nat \cup {None}]]

OneRelease(pdf) ==
    \E v \in pdf.expansion : pdf.expansion = {v} /\ v.commit = pdf.paper.commit

(* No download that runs, or is still to come, is older than this.         *)
Now == IF job # None /\ job.kind = "fetch" THEN job.at ELSE clock

(* A panel that is not the one a release was made from is younger than it, *)
(* unless the release was given a timestamp that was still to come.        *)
Sound(v) ==
    ~Release!Early(v.at) =>
        /\ v.at < Now
        /\ \A p \in Panels : v.input[p] = csv[p] \/ v.at < csv[p]

(* What may lie at a path, in the tree, in HEAD or in a wrapper's hands.   *)
Reviewed(f) ==
    {None} \cup
    IF f = "paper/pdf"
      THEN {b \in [paper : PaperVintages, expansion : SUBSET ExpansionVintages] :
               OneRelease(b)}
      ELSE IF f \in Release!ExpansionFiles
             THEN {v \in ExpansionVintages : Sound(v)}
             ELSE PaperVintages

FetchJobs == [kind : {"fetch"}, left : SUBSET Panels, at : Nat, written : Panels \cup {None}]

PublishSteps(files) == Seq([copies : BOOLEAN, files : SUBSET files])

ReleaseTypes ==
    /\ clock \in Nat
    /\ commits \in Seq(Nat) /\ Len(commits) > 0
    /\ matrix \in Nat
    /\ csv \in [Panels -> Nat \cup {None}]
    /\ metadata \in [Panels -> [input : Nat \cup {None}, retrieved : Nat] \cup {None}]
    /\ tree \in [Release!Paths -> UNION {Reviewed(f) : f \in Release!Paths}]
    /\ kept \in [Release!Paths -> UNION {Reviewed(f) : f \in Release!Paths}]

FilesInv ==
    \A f \in Release!Paths : tree[f] \in Reviewed(f) /\ kept[f] \in Reviewed(f)

(* A download that runs, started before now.                               *)
FetchInv ==
    job # None /\ job.kind = "fetch" =>
        /\ job \in FetchJobs
        /\ job.at < clock
        /\ job.written # None => csv[job.written] = job.at

PublishInv ==
    job # None /\ job.kind # "fetch" =>
        /\ job.kind = "publish"
        /\ job = [kind |-> "publish", steps |-> job.steps, reviewed |-> job.reviewed,
                  new |-> job.new]
        /\ DOMAIN job.new \in SUBSET Release!Paths
        /\ \A f \in DOMAIN job.new : job.new[f] \in Reviewed(f)
        /\ job.steps \in PublishSteps(DOMAIN job.new) /\ Len(job.steps) > 0

(* A sidecar tells when the matrix it describes was downloaded.            *)
SidecarInv ==
    \A p \in Panels :
       metadata[p] # None => metadata[p].retrieved = metadata[p].input

ReleaseInv ==
    /\ ReleaseTypes
    /\ FilesInv
    /\ FetchInv
    /\ PublishInv
    /\ SidecarInv
    /\ Release!RerunsReproduceReviewed

LEMMA ReleaseInitHolds ==
    ASSUME Release!Init
    PROVE  ReleaseInv
<1>1. Release!FirstVintage \in PaperVintages
  BY DEF Release!FirstVintage, PaperVintages
<1>2. \A f \in Release!Paths : Release!FirstTree[f] \in Reviewed(f)
  BY <1>1 DEF Release!FirstTree, Reviewed, Release!Paths, Release!ExpansionFiles,
              Release!PaperFiles
<1>3. Release!FirstTree \in [Release!Paths -> UNION {Reviewed(f) : f \in Release!Paths}]
  BY <1>2 DEF Release!FirstTree
<1>4. ReleaseTypes
  BY <1>3 DEF Release!Init, ReleaseTypes
<1>5. FilesInv
  BY <1>2 DEF Release!Init, FilesInv
<1>6. FetchInv /\ PublishInv
  BY DEF Release!Init, FetchInv, PublishInv
<1>7. SidecarInv /\ Release!RerunsReproduceReviewed
  BY DEF Release!Init, SidecarInv, Release!RerunsReproduceReviewed
<1> QED BY <1>4, <1>5, <1>6, <1>7 DEF ReleaseInv

(* What may lie at a path may still lie there after a step that lets what  *)
(* was sound be sound.                                                     *)
LEMMA StillReviewed ==
    ASSUME \A v \in ExpansionVintages : Sound(v) => Sound(v)'
    PROVE  /\ \A f \in Release!Paths : Reviewed(f) \subseteq Reviewed(f)'
           /\ UNION {Reviewed(f) : f \in Release!Paths}
              \subseteq (UNION {Reviewed(f) : f \in Release!Paths})'
<1>1. \A f \in Release!Paths : Reviewed(f) \subseteq Reviewed(f)'
  BY DEF Reviewed
<1> QED BY <1>1

(* A step that touches no file.                                            *)
LEMMA FilesStay ==
    ASSUME ReleaseInv, UNCHANGED <<tree, kept>>,
           \A v \in ExpansionVintages : Sound(v) => Sound(v)'
    PROVE  /\ \A f \in Release!Paths : Reviewed(f) \subseteq Reviewed(f)'
           /\ FilesInv'
           /\ tree' \in [Release!Paths -> (UNION {Reviewed(f) : f \in Release!Paths})']
           /\ kept' \in [Release!Paths -> (UNION {Reviewed(f) : f \in Release!Paths})']
BY StillReviewed DEF ReleaseInv, ReleaseTypes, FilesInv

(* What the maintainer does between commands, and a command that dies.     *)
LEMMA MaintainerKeeps ==
    ASSUME ReleaseInv,
           \/ Release!Edit \/ Release!Commit \/ Release!CheckOut
           \/ Release!ReplaceMatrix \/ Release!Die
    PROVE  ReleaseInv'
<1>1. job' = None /\ UNCHANGED <<clock, csv, metadata, supplied>>
  BY DEF Release!Edit, Release!Commit, Release!CheckOut, Release!ReplaceMatrix,
         Release!Die
<1>2. FetchInv' /\ PublishInv' /\ SidecarInv' /\ Release!RerunsReproduceReviewed'
  BY <1>1 DEF FetchInv, PublishInv, SidecarInv, Release!RerunsReproduceReviewed,
              ReleaseInv
<1>3. \A v \in ExpansionVintages : Sound(v) => Sound(v)'
  <2>1. csv' = csv /\ Now' = clock /\ \A at : Release!Early(at)' = Release!Early(at)
    BY <1>1 DEF Now, Release!Early
  <2>2. ASSUME NEW n \in Nat, n < Now PROVE n < clock
    BY <2>2 DEF Now, ReleaseInv, ReleaseTypes, FetchInv, FetchJobs
  <2> QED BY <2>1, <2>2 DEF Sound, ExpansionVintages
<1>4. /\ tree' \in [Release!Paths -> UNION {Reviewed(f) : f \in Release!Paths}]
      /\ kept' \in [Release!Paths -> UNION {Reviewed(f) : f \in Release!Paths}]
      /\ \A f \in Release!Paths : tree'[f] \in Reviewed(f) /\ kept'[f] \in Reviewed(f)
  <2>1. CASE Release!CheckOut
    BY <2>1 DEF Release!CheckOut, ReleaseInv, ReleaseTypes, FilesInv
  <2>2. CASE Release!Edit \/ Release!Commit \/ Release!ReplaceMatrix \/ Release!Die
    BY <2>2 DEF Release!Edit, Release!Commit, Release!ReplaceMatrix, Release!Die,
                ReleaseInv, ReleaseTypes, FilesInv
  <2> QED BY <2>1, <2>2
<1>5. /\ \A f \in Release!Paths : Reviewed(f) \subseteq Reviewed(f)'
      /\ UNION {Reviewed(f) : f \in Release!Paths}
         \subseteq (UNION {Reviewed(f) : f \in Release!Paths})'
  BY <1>3, StillReviewed
<1>6. commits' \in Seq(Nat) /\ Len(commits') > 0
  <2>1. commits \in Seq(Nat) /\ Len(commits) > 0
    BY DEF ReleaseInv, ReleaseTypes
  <2>2. CASE Release!Commit
    <3>1. commits[Len(commits)] \in Nat
      BY <2>1
    <3>2. PICK n \in Nat : commits' = Append(commits, n)
      BY <2>2, <3>1 DEF Release!Commit, Release!HeadCommit
    <3> QED BY <2>1, <3>2
  <2>3. CASE Release!Edit \/ Release!CheckOut \/ Release!ReplaceMatrix \/ Release!Die
    BY <2>1, <2>3 DEF Release!Edit, Release!CheckOut, Release!ReplaceMatrix, Release!Die
  <2> QED BY <2>2, <2>3
<1>7. matrix' \in Nat
  BY DEF Release!Edit, Release!Commit, Release!CheckOut, Release!ReplaceMatrix,
         Release!Die, ReleaseInv, ReleaseTypes
<1>8. ReleaseTypes' /\ FilesInv'
  BY <1>1, <1>4, <1>5, <1>6, <1>7 DEF ReleaseInv, ReleaseTypes, FilesInv
<1> QED BY <1>2, <1>8 DEF ReleaseInv

LEMMA FetchKeeps ==
    ASSUME ReleaseInv, Release!Fetch
    PROVE  ReleaseInv'
<1>1. /\ UNCHANGED <<commits, kept, tree, csv, metadata, matrix, supplied>>
      /\ clock \in Nat /\ clock' = clock + 1 /\ job = None
      /\ job' = [kind |-> "fetch", left |-> Panels, at |-> clock, written |-> None]
  BY DEF Release!Fetch, ReleaseInv, ReleaseTypes
<1>2. \A v \in ExpansionVintages : Sound(v) => Sound(v)'
  <2>1. Now = clock /\ Now' \in {clock, clock + 1}
        /\ \A at : Release!Early(at)' = Release!Early(at)
    BY <1>1 DEF Now, Release!Early
  <2>2. ASSUME NEW n \in Nat, n < Now PROVE n < Now'
    BY <1>1, <2>1, <2>2
  <2> QED BY <1>1, <2>1, <2>2 DEF Sound, ExpansionVintages
<1>3. ReleaseTypes' /\ FilesInv'
  BY <1>1, <1>2, FilesStay DEF ReleaseInv, ReleaseTypes
<1>4. FetchInv' /\ PublishInv' /\ Release!RerunsReproduceReviewed'
  BY <1>1 DEF FetchInv, PublishInv, FetchJobs, Release!RerunsReproduceReviewed
<1>5. SidecarInv'
  BY <1>1 DEF ReleaseInv, SidecarInv
<1> QED BY <1>3, <1>4, <1>5 DEF ReleaseInv

LEMMA WriteMatrixKeeps ==
    ASSUME ReleaseInv, Release!WriteMatrix
    PROVE  ReleaseInv'
<1>1. PICK p \in job.left : /\ csv' = [csv EXCEPT ![p] = job.at]
                            /\ job' = [job EXCEPT !.written = p, !.left = @ \ {p}]
  BY DEF Release!WriteMatrix
<1>2. /\ job # None /\ job.kind = "fetch"
      /\ UNCHANGED <<clock, commits, kept, tree, metadata, matrix, supplied>>
  BY DEF Release!WriteMatrix
<1>3. job \in FetchJobs /\ job.at < clock /\ job.at \in Nat /\ p \in Panels
  BY <1>2 DEF ReleaseInv, FetchInv, FetchJobs
<1>4. job' \in FetchJobs /\ job'.at = job.at /\ job'.written = p /\ job'.kind = "fetch"
  BY <1>1, <1>3 DEF FetchJobs
<1>5. csv \in [Panels -> Nat \cup {None}] /\ csv'[p] = job.at
      /\ \A q \in Panels \ {p} : csv'[q] = csv[q]
  BY <1>1, <1>3 DEF ReleaseInv, ReleaseTypes
<1>6. \A v \in ExpansionVintages : Sound(v) => Sound(v)'
  <2>1. Now = job.at /\ Now' \in {job.at, clock} /\ clock \in Nat
        /\ \A at : Release!Early(at)' = Release!Early(at)
    BY <1>2, <1>4 DEF Now, Release!Early, ReleaseInv, ReleaseTypes
  <2>2. ASSUME NEW n \in Nat, n < Now PROVE n < Now'
    BY <1>3, <2>1, <2>2
  <2> QED BY <1>5, <2>1, <2>2 DEF Sound, ExpansionVintages
<1>7. ReleaseTypes' /\ FilesInv'
  BY <1>1, <1>2, <1>3, <1>6, FilesStay DEF ReleaseInv, ReleaseTypes
<1>8. FetchInv' /\ PublishInv' /\ Release!RerunsReproduceReviewed'
  BY <1>2, <1>3, <1>4, <1>5 DEF FetchInv, PublishInv, Release!RerunsReproduceReviewed
<1>9. SidecarInv'
  BY <1>2 DEF ReleaseInv, SidecarInv
<1> QED BY <1>7, <1>8, <1>9 DEF ReleaseInv

LEMMA WriteMetadataKeeps ==
    ASSUME ReleaseInv, Release!WriteMetadata
    PROVE  ReleaseInv'
<1>1. /\ job # None /\ job.kind = "fetch" /\ job.written # None
      /\ metadata' = [metadata EXCEPT ![job.written] =
                         [input |-> csv[job.written], retrieved |-> job.at]]
      /\ job' = IF job.left = {} THEN None ELSE [job EXCEPT !.written = None]
      /\ UNCHANGED <<clock, commits, kept, tree, csv, matrix, supplied>>
  BY DEF Release!WriteMetadata
<1>2. /\ job \in FetchJobs /\ job.at \in Nat /\ job.at < clock /\ job.written \in Panels
      /\ csv[job.written] = job.at /\ clock \in Nat
  BY <1>1 DEF ReleaseInv, ReleaseTypes, FetchInv, FetchJobs
<1>3. job' # None => job' \in FetchJobs /\ job'.at = job.at /\ job'.written = None
                       /\ job'.kind = "fetch"
  BY <1>1, <1>2 DEF FetchJobs
<1>4. \A v \in ExpansionVintages : Sound(v) => Sound(v)'
  <2>1. Now = job.at /\ Now' \in {job.at, clock} /\ csv' = csv
        /\ \A at : Release!Early(at)' = Release!Early(at)
    BY <1>1, <1>3 DEF Now, Release!Early
  <2>2. ASSUME NEW n \in Nat, n < Now PROVE n < Now'
    BY <1>2, <2>1, <2>2
  <2> QED BY <2>1, <2>2 DEF Sound, ExpansionVintages
<1>5. ReleaseTypes' /\ FilesInv'
  BY <1>1, <1>2, <1>4, FilesStay DEF ReleaseInv, ReleaseTypes
<1>6. FetchInv' /\ PublishInv' /\ Release!RerunsReproduceReviewed'
  BY <1>1, <1>2, <1>3 DEF FetchInv, PublishInv, Release!RerunsReproduceReviewed
<1>7. SidecarInv'
  BY <1>1, <1>2 DEF ReleaseInv, SidecarInv, ReleaseTypes
<1> QED BY <1>6, <1>7, <1>5 DEF ReleaseInv

(* The head and the tail of a sequence that is not empty.                  *)
LEMMA NotEmpty ==
    ASSUME NEW S, NEW s \in Seq(S), Len(s) > 0
    PROVE  /\ Head(s) = s[1] /\ s[1] \in S
           /\ Tail(s) \in Seq(S)
           /\ Len(s) # 1 => Len(Tail(s)) > 0
<1>1. Head(s) = s[1] /\ 1 \in 1..Len(s)
  OBVIOUS
<1>2. Tail(s) \in Seq(S) /\ Len(Tail(s)) = Len(s) - 1
  OBVIOUS
<1> QED BY <1>1, <1>2

LEMMA PublishKeeps ==
    ASSUME ReleaseInv, Release!Publish
    PROVE  ReleaseInv'
<1>1. /\ job # None /\ job.kind = "publish"
      /\ UNCHANGED <<clock, commits, kept, csv, metadata, matrix, supplied>>
  BY DEF Release!Publish
<1>2. PICK steps, reviewed, new :
         /\ job = [kind |-> "publish", steps |-> steps, reviewed |-> reviewed, new |-> new]
         /\ \A f \in DOMAIN new : f \in Release!Paths /\ new[f] \in Reviewed(f)
         /\ DOMAIN new \in SUBSET Release!Paths
         /\ steps \in PublishSteps(DOMAIN new) /\ Len(steps) > 0
  BY <1>1 DEF ReleaseInv, PublishInv
<1>3. PICK f \in Head(steps).files :
         /\ tree' = [tree EXCEPT ![f] = IF Head(steps).copies THEN new[f] ELSE None]
         /\ job' = IF Head(steps).files # {f}
                     THEN [job EXCEPT !.steps[1].files = @ \ {f}]
                     ELSE IF Len(steps) = 1
                            THEN None
                            ELSE [job EXCEPT !.steps = Tail(@)]
  BY <1>2 DEF Release!Publish
<1>4. Head(steps) = steps[1] /\ steps[1] \in [copies : BOOLEAN, files : SUBSET DOMAIN new]
  BY <1>2, NotEmpty DEF PublishSteps
<1>5. f \in DOMAIN new /\ f \in Release!Paths /\ new[f] \in Reviewed(f)
  BY <1>2, <1>4
<1>6. \A v \in ExpansionVintages : Sound(v) => Sound(v)'
  <2>1. job' = None \/ job'.kind = "publish"
    BY <1>2, <1>3
  <2> QED BY <1>1, <2>1 DEF Sound, Now, Release!Early
<1>7. \A g \in Release!Paths : Reviewed(g) \subseteq Reviewed(g)'
  BY <1>6, StillReviewed
<1>8. PICK x \in Reviewed(f) : tree' = [tree EXCEPT ![f] = x]
  <2>1. None \in Reviewed(f)
    BY DEF Reviewed
  <2> QED BY <1>3, <1>5, <2>1
<1>9. /\ \A g \in Release!Paths : tree'[g] \in Reviewed(g)
      /\ tree' \in [Release!Paths -> UNION {Reviewed(g) : g \in Release!Paths}]
  BY <1>5, <1>8 DEF ReleaseInv, FilesInv, ReleaseTypes
<1>10. UNION {Reviewed(g) : g \in Release!Paths}
      \subseteq (UNION {Reviewed(g) : g \in Release!Paths})'
  BY <1>6, StillReviewed
<1>11. ReleaseTypes' /\ FilesInv'
  BY <1>1, <1>7, <1>9, <1>10 DEF ReleaseInv, ReleaseTypes, FilesInv
<1>12. FetchInv' /\ PublishInv' /\ Release!RerunsReproduceReviewed'
  <2>1. ASSUME NEW others \in PublishSteps(DOMAIN new), Len(others) > 0,
               job' = [kind |-> "publish", steps |-> others, reviewed |-> reviewed,
                       new |-> new]
        PROVE  FetchInv' /\ PublishInv' /\ Release!RerunsReproduceReviewed'
    <3>1. FetchInv' /\ PublishInv'
      BY <1>2, <1>7, <2>1 DEF FetchInv, PublishInv
    <3>2. job'.new = job.new /\ job'.reviewed = job.reviewed
      BY <1>2, <2>1
    <3> QED BY <1>1, <3>1, <3>2 DEF ReleaseInv, Release!RerunsReproduceReviewed,
                                    Release!Early
  <2>2. CASE Head(steps).files # {f}
    <3> DEFINE step == [steps[1] EXCEPT !.files = @ \ {f}]
               others == [steps EXCEPT ![1] = step]
    <3>1. step \in [copies : BOOLEAN, files : SUBSET DOMAIN new]
      BY <1>4
    <3>2. others \in PublishSteps(DOMAIN new) /\ Len(others) > 0
      BY <1>2, <3>1 DEF PublishSteps
    <3>3. job' = [kind |-> "publish", steps |-> others, reviewed |-> reviewed,
                       new |-> new]
      BY <1>2, <1>3, <2>2
    <3> QED BY <2>1, <3>2, <3>3
  <2>3. CASE Head(steps).files = {f} /\ Len(steps) = 1
    BY <1>3, <2>3 DEF FetchInv, PublishInv, Release!RerunsReproduceReviewed
  <2>4. CASE Head(steps).files = {f} /\ Len(steps) # 1
    <3>1. Tail(steps) \in PublishSteps(DOMAIN new) /\ Len(Tail(steps)) > 0
      BY <1>2, <2>4, NotEmpty DEF PublishSteps
    <3>2. job' = [kind |-> "publish", steps |-> Tail(steps),
                  reviewed |-> reviewed, new |-> new]
      BY <1>2, <1>3, <2>4
    <3> QED BY <2>1, <3>1, <3>2
  <2> QED BY <2>2, <2>3, <2>4
<1>13. SidecarInv'
  BY <1>1 DEF ReleaseInv, SidecarInv
<1> QED BY <1>11, <1>12, <1>13 DEF ReleaseInv

(* A release that is soundly made: its files and panels stay sound.        *)
LEMMA Generates ==
    ASSUME ReleaseInv, job = None, job'.kind = "publish",
           NEW v \in PaperVintages \cup ExpansionVintages,
           NEW pin, v.at = pin.at,
           \/ pin.reviewed = None
           \/ v.kind = "expansion" /\ ~Release!Early(v.at) => v.at < clock,
           Release!Passes(pin),
           v.kind = "expansion" => v.input = csv,
           UNCHANGED <<tree, kept, commits, csv, metadata, matrix>>
    PROVE  /\ ReleaseTypes' /\ FilesInv' /\ SidecarInv'
           /\ v.kind = "expansion" => Sound(v)'
<1>1. clock \in Nat /\ v.at \in Nat
  BY DEF ReleaseInv, ReleaseTypes, PaperVintages, ExpansionVintages
<1>2. /\ clock' \in Nat /\ clock <= clock' /\ Now = clock /\ Now' = clock'
      /\ supplied \subseteq supplied'
  BY <1>1 DEF Release!Passes, Now
<1>3. \A at : Release!Early(at) => Release!Early(at)'
  BY <1>2 DEF Release!Early
<1>4. \A w \in ExpansionVintages : Sound(w) => Sound(w)'
  <2>1. ASSUME NEW n \in Nat, n < clock PROVE n < clock'
    BY <1>1, <1>2, <2>1
  <2> QED BY <1>2, <1>3, <2>1 DEF Sound, ExpansionVintages
<1>5. ASSUME v.kind = "expansion" PROVE Sound(v)'
  <2>1. v.input = csv'
    BY <1>5
  <2>2. ASSUME ~Release!Early(v.at)' PROVE v.at < clock'
    <3>1. CASE pin.reviewed = None /\ v.at = clock
      BY <1>1, <3>1 DEF Release!Passes
    <3>2. CASE pin.reviewed = None /\ v.at # clock
      <4>1. [at |-> v.at, on |-> clock] \in supplied'
        BY <3>2 DEF Release!Passes
      <4>2. ~(clock < v.at)
        BY <2>2, <4>1 DEF Release!Early
      <4> QED BY <1>1, <1>2, <3>2, <4>2
    <3>3. CASE pin.reviewed # None
      BY <1>1, <1>2, <1>3, <1>5, <2>2, <3>3
    <3> QED BY <3>1, <3>2, <3>3
  <2> QED BY <1>2, <2>1, <2>2 DEF Sound
<1>6. ReleaseTypes' /\ FilesInv'
  BY <1>2, <1>4, FilesStay DEF ReleaseInv, ReleaseTypes
<1>7. SidecarInv'
  BY DEF ReleaseInv, SidecarInv
<1> QED BY <1>5, <1>6, <1>7

(* A panel that may be used under a reviewed timestamp is the one that was. *)
LEMMA SamePanels ==
    ASSUME ReleaseInv, NEW v \in ExpansionVintages, Sound(v), ~Release!Early(v.at),
           \A p \in Panels : Release!Loads(p, v.at)
    PROVE  v.input = csv
<1>1. csv \in [Panels -> Nat \cup {None}]
  BY DEF ReleaseInv, ReleaseTypes
<1>2. ASSUME NEW p \in Panels PROVE v.input[p] = csv[p]
  <2>1. /\ metadata[p] # None /\ metadata[p].input = csv[p]
        /\ metadata[p].retrieved <= v.at
    BY DEF Release!Loads
  <2>2. metadata[p].retrieved \in Nat /\ metadata[p].retrieved = csv[p]
    BY <2>1 DEF ReleaseInv, SidecarInv, ReleaseTypes
  <2>3. v.at \in Nat
    BY DEF ExpansionVintages
  <2> QED BY <2>1, <2>2, <2>3 DEF Sound
<1> QED BY <1>1, <1>2 DEF ExpansionVintages

(* A pin: HEAD and a timestamp, or those of what was reviewed.             *)
LEMMA PinOf ==
    ASSUME ReleaseInv, NEW reviewed, NEW pin \in Release!Pins(reviewed)
    PROVE  \/ pin.reviewed = None /\ pin.commit \in Nat /\ pin.at \in Nat
           \/ /\ reviewed # None /\ pin.reviewed = reviewed
              /\ pin.commit = reviewed.commit /\ pin.at = reviewed.at
<1>1. Len(commits) \in Nat
  BY DEF ReleaseInv, ReleaseTypes
<1>2. Release!Timestamps \subseteq Nat
  BY DEF Release!Timestamps
<1>3. CASE pin \in [commit : {Len(commits)}, at : Release!Timestamps, reviewed : {None}]
  BY <1>1, <1>2, <1>3
<1>4. CASE /\ reviewed # None
           /\ pin = [commit |-> reviewed.commit, at |-> reviewed.at, reviewed |-> reviewed]
  BY <1>4
<1> QED BY <1>3, <1>4 DEF Release!Pins, Release!HeadCommit

LEMMA ReleaseExpansionKeeps ==
    ASSUME ReleaseInv, Release!ReleaseExpansion
    PROVE  ReleaseInv'
<1>1. job = None /\ UNCHANGED <<commits, kept, tree, csv, metadata, matrix>>
  BY DEF Release!ReleaseExpansion
<1>2. PICK pin \in Release!Pins(tree["expansion/manifest"]) :
         /\ \A p \in Panels : Release!Loads(p, pin.at)
         /\ job' = [kind |-> "publish", steps |-> Release!ExpansionSteps,
                    reviewed |-> pin.reviewed,
                    new |-> [f \in Release!ExpansionFiles |-> Release!ExpansionVintage(pin)]]
         /\ Release!Passes(pin)
  BY DEF Release!ReleaseExpansion
<1> DEFINE reviewed == tree["expansion/manifest"]
<1>3. PICK v : v = Release!ExpansionVintage(pin)
  OBVIOUS
<1>4. reviewed # None => reviewed \in ExpansionVintages /\ Sound(reviewed)
  BY DEF ReleaseInv, FilesInv, Reviewed, Release!Paths, Release!ExpansionFiles
<1>5. /\ pin.commit \in Nat /\ pin.at \in Nat
      /\ \/ pin.reviewed = None
         \/ /\ pin.reviewed = reviewed /\ reviewed # None
            /\ pin.at = reviewed.at /\ pin.commit = reviewed.commit
  BY <1>4, PinOf DEF ExpansionVintages
<1>6. /\ v \in ExpansionVintages /\ v.at = pin.at /\ v.kind = "expansion"
      /\ v.input = csv /\ v.commit = pin.commit
  BY <1>5, <1>3 DEF Release!ExpansionVintage, ExpansionVintages, ReleaseInv, ReleaseTypes
<1>7. ASSUME pin.reviewed # None, ~Release!Early(v.at)
      PROVE  v.at < clock /\ v = pin.reviewed
  <2>1. reviewed \in ExpansionVintages /\ Sound(reviewed) /\ reviewed.at = v.at
    BY <1>4, <1>5, <1>6, <1>7
  <2>2. reviewed.input = csv
    BY <1>2, <1>5, <1>7, <2>1, SamePanels
  <2>3. v = reviewed
    BY <1>5, <1>6, <1>7, <2>1, <2>2 DEF ExpansionVintages
  <2> QED BY <1>1, <1>5, <1>7, <2>1, <2>3 DEF Sound, Now
<1>8. job' = [kind |-> "publish", steps |-> Release!ExpansionSteps,
              reviewed |-> pin.reviewed, new |-> [f \in Release!ExpansionFiles |-> v]]
  BY <1>2, <1>3
<1>9. /\ job'.kind = "publish" /\ job'.steps = Release!ExpansionSteps
      /\ job'.reviewed = pin.reviewed
      /\ job'.new = [f \in Release!ExpansionFiles |-> v]
  BY <1>8
<1>10. ReleaseTypes' /\ FilesInv' /\ SidecarInv' /\ Sound(v)'
  BY <1>1, <1>2, <1>6, <1>7, <1>9, Generates
<1>11. FetchInv' /\ PublishInv'
  <2>1. \A f \in Release!ExpansionFiles : v \in Reviewed(f)' /\ f \in Release!Paths
    BY <1>6, <1>10 DEF Reviewed, Release!Paths, Release!ExpansionFiles
  <2>2. /\ Release!ExpansionSteps \in PublishSteps(Release!ExpansionFiles)
        /\ Len(Release!ExpansionSteps) > 0
    BY DEF Release!ExpansionSteps, PublishSteps, Release!ExpansionFiles
  <2> QED BY <1>9, <1>8, <2>1, <2>2 DEF FetchInv, PublishInv
<1>12. Release!RerunsReproduceReviewed'
  <2>1. \A at : Release!Early(at) => Release!Early(at)'
    BY <1>2 DEF Release!Early, Release!Passes
  <2>2. pin.reviewed # None => pin.reviewed.at = v.at
    BY <1>5, <1>6
  <2> QED BY <1>7, <1>9, <2>1, <2>2 DEF Release!RerunsReproduceReviewed
<1> QED BY <1>10, <1>11, <1>12 DEF ReleaseInv

LEMMA ReleasePaperKeeps ==
    ASSUME ReleaseInv, Release!ReleasePaper
    PROVE  ReleaseInv'
<1>1. /\ tree["paper/results"] # None /\ tree["paper/results"].input = matrix
      /\ job = None /\ UNCHANGED <<commits, kept, tree, csv, metadata, matrix>>
  BY DEF Release!ReleasePaper
<1>2. PICK pin \in Release!Pins(tree["paper/results"]) :
         /\ Release!Republishes(pin.commit)
         /\ job' = [kind |-> "publish", steps |-> Release!PaperSteps,
                    reviewed |-> pin.reviewed,
                    new |-> [f \in Release!PaperFiles |->
                               IF f = "paper/pdf"
                                 THEN Release!Built(Release!PaperVintage(pin))
                                 ELSE Release!PaperVintage(pin)]]
         /\ Release!Passes(pin)
  BY DEF Release!ReleasePaper
<1> DEFINE reviewed == tree["paper/results"]
           v == Release!PaperVintage(pin)
           manifest == tree["expansion/manifest"]
<1>3. reviewed \in PaperVintages
  BY <1>1 DEF ReleaseInv, FilesInv, Reviewed, Release!Paths, Release!ExpansionFiles,
              Release!PaperFiles
<1>4. /\ pin.commit \in Nat /\ pin.at \in Nat
      /\ \/ pin.reviewed = None
         \/ /\ pin.reviewed = reviewed
            /\ pin.at = reviewed.at /\ pin.commit = reviewed.commit
  BY <1>3, PinOf DEF PaperVintages
<1>5. v \in PaperVintages /\ v.at = pin.at /\ v.kind = "paper" /\ v.commit = pin.commit
      /\ v.input = matrix
  BY <1>4 DEF Release!PaperVintage, PaperVintages, ReleaseInv, ReleaseTypes
<1>6. pin.reviewed # None => v = pin.reviewed
  BY <1>1, <1>3, <1>4, <1>5 DEF PaperVintages
<1>7. /\ Release!Built(v) \in [paper : PaperVintages, expansion : SUBSET ExpansionVintages]
      /\ OneRelease(Release!Built(v))
  <2>1. /\ \A f \in Release!ExpansionFiles : tree[f] = manifest
        /\ manifest # None /\ manifest.commit = pin.commit
    BY <1>2 DEF Release!Republishes, Release!Verified, Release!ExpansionFiles
  <2>2. manifest \in ExpansionVintages
    BY <2>1 DEF ReleaseInv, FilesInv, Reviewed, Release!Paths, Release!ExpansionFiles
  <2>3. {tree[f] : f \in Release!ExpansionFiles} = {manifest}
    BY <2>1 DEF Release!ExpansionFiles
  <2> QED BY <1>5, <2>1, <2>2, <2>3 DEF Release!Built, OneRelease
<1> DEFINE new == [f \in Release!PaperFiles |-> IF f = "paper/pdf" THEN Release!Built(v) ELSE v]
<1> HIDE DEF v, manifest
<1>8. job' = [kind |-> "publish", steps |-> Release!PaperSteps, reviewed |-> pin.reviewed,
              new |-> new]
  BY <1>2 DEF v
<1>9. /\ DOMAIN new = Release!PaperFiles
      /\ \A f \in DOMAIN new \ {"paper/pdf"} : new[f] = v
      /\ new["paper/pdf"] = Release!Built(v)
  BY DEF Release!PaperFiles
<1> HIDE DEF new
<1>10. /\ job'.kind = "publish" /\ job'.steps = Release!PaperSteps /\ job'.new = new
       /\ job'.reviewed = pin.reviewed
  BY <1>8
<1>11. ReleaseTypes' /\ FilesInv' /\ SidecarInv'
  BY <1>1, <1>2, <1>5, <1>10, Generates
<1>12. FetchInv' /\ PublishInv'
  <2>1. Release!Built(v) \in Reviewed("paper/pdf")'
    BY <1>7 DEF Reviewed
  <2>2. v \in Reviewed("paper/results")'
    BY <1>5 DEF Reviewed, Release!ExpansionFiles
  <2>3. \A f \in Release!PaperFiles : f \in Release!Paths /\ new[f] \in Reviewed(f)'
    BY <1>9, <2>1, <2>2 DEF Release!Paths, Release!PaperFiles
  <2>4. Release!PaperSteps \in PublishSteps(Release!PaperFiles) /\ Len(Release!PaperSteps) > 0
    BY DEF Release!PaperSteps, PublishSteps, Release!PaperFiles
  <2>5. DOMAIN new = Release!PaperFiles
    BY <1>9
  <2> QED BY <1>8, <1>10, <2>3, <2>4, <2>5 DEF FetchInv, PublishInv
<1>13. Release!RerunsReproduceReviewed'
  BY <1>6, <1>9, <1>10 DEF Release!RerunsReproduceReviewed
<1> QED BY <1>11, <1>12, <1>13 DEF ReleaseInv

LEMMA ReleaseNextKeeps ==
    ASSUME ReleaseInv, [Release!Next]_Release!vars
    PROVE  ReleaseInv'
<1>1. CASE UNCHANGED Release!vars
  <2>1. \A v \in ExpansionVintages : Sound(v) => Sound(v)'
    BY <1>1 DEF Release!vars, Sound, Now, Release!Early
  <2>2. /\ ReleaseTypes' /\ FilesInv'
        /\ \A f \in Release!Paths : Reviewed(f) \subseteq Reviewed(f)'
    BY <1>1, <2>1, FilesStay DEF Release!vars, ReleaseInv, ReleaseTypes
  <2>3. FetchInv' /\ SidecarInv' /\ Release!RerunsReproduceReviewed'
    BY <1>1 DEF Release!vars, ReleaseInv, FetchInv, SidecarInv,
                Release!RerunsReproduceReviewed, Release!Early
  <2>4. PublishInv'
    BY <1>1, <2>2 DEF Release!vars, ReleaseInv, PublishInv
  <2> QED BY <2>2, <2>3, <2>4 DEF ReleaseInv
<1>2. CASE \/ Release!Edit \/ Release!Commit \/ Release!CheckOut
           \/ Release!ReplaceMatrix \/ Release!Die
  BY <1>2, MaintainerKeeps
<1>3. CASE Release!Fetch
  BY <1>3, FetchKeeps
<1>4. CASE Release!WriteMatrix
  BY <1>4, WriteMatrixKeeps
<1>5. CASE Release!WriteMetadata
  BY <1>5, WriteMetadataKeeps
<1>6. CASE Release!ReleaseExpansion
  BY <1>6, ReleaseExpansionKeeps
<1>7. CASE Release!ReleasePaper
  BY <1>7, ReleasePaperKeeps
<1>8. CASE Release!Publish
  BY <1>8, PublishKeeps
<1> QED BY <1>1, <1>2, <1>3, <1>4, <1>5, <1>6, <1>7, <1>8 DEF Release!Next

LEMMA ReleaseSteps == [ResearchNext]_researchVars => [Release!Next]_Release!vars
BY DEF ResearchNext, researchVars, release, Release!vars

LEMMA ReleaseInvariant == ResearchSpec => []ReleaseInv
<1>1. ResearchInit => ReleaseInv
  BY ReleaseInitHolds DEF ResearchInit
<1>2. ReleaseInv /\ [ResearchNext]_researchVars => ReleaseInv'
  BY ReleaseSteps, ReleaseNextKeeps
<1> QED BY <1>1, <1>2, PTL DEF ResearchSpec, researchVars

(* A published paper was built from one release of the expansion, of its   *)
(* own commit, however wrappers die between their copies.                  *)
THEOREM PaperIsOneRelease == ResearchSpec => []PdfIsOneRelease
<1>1. ReleaseInv => PdfIsOneRelease
  BY DEF ReleaseInv, FilesInv, Reviewed, OneRelease, PdfIsOneRelease,
         Release!PdfIsOneRelease, Release!Paths, Release!PaperFiles
<1> QED BY <1>1, ReleaseInvariant, PTL

(* A wrapper run without a timestamp generates what was reviewed, or is    *)
(* refused, however often sources and panels change, commands die and      *)
(* timestamps are used again in between.                                   *)
THEOREM RerunsReproduce == ResearchSpec => []RerunsReproduceReviewed
<1>1. ReleaseInv => RerunsReproduceReviewed
  BY DEF ReleaseInv, RerunsReproduceReviewed
<1> QED BY <1>1, ReleaseInvariant, PTL

-----------------------------------------------------------------------------
(* Membership.  The days on which s was a member.                          *)
Tenure(s) == {d \in DOMAIN history : s \in history[d]}

(* What the changes of a symbol on days 1..n, its additions A and its      *)
(* removals R, say about the days P on which it was a member.              *)
Chronicle(P, A, R, n) ==
    /\ P \subseteq 0..n /\ A \subseteq 1..n /\ R \subseteq 1..n
    /\ A \subseteq P
    /\ \A d \in R : d - 1 \in P
    /\ \A d \in R \ A : d \notin P
    /\ \A d \in A \ R : d - 1 \notin P
    /\ \A d \in (1..n) \ (A \cup R) : d \in P <=> d - 1 \in P

(* A date in the table of members is that of the last addition.            *)
Dated(s) ==
    s \in members /\ added[s] # None =>
        \/ added[s] = 0 /\ Membership!Adds(s) = {} /\ Membership!Removals(s) = {}
        \/ /\ added[s] \in Membership!Adds(s)
           /\ \A a \in Membership!Adds(s) : a <= added[s]

MembershipInv ==
    /\ day \in Nat
    /\ history \in [0..day -> SUBSET Symbols]
    /\ members = history[day] /\ members # {}
    /\ DOMAIN added = Symbols
    /\ \A row \in log : row.date \in 1..day
    /\ \A s \in Symbols :
          /\ Chronicle(Tenure(s), Membership!Adds(s), Membership!Removals(s), day)
          /\ Dated(s)

LEMMA MinOf ==
    ASSUME NEW S \in SUBSET Nat, S # {}
    PROVE  Membership!Min(S) \in S /\ \A n \in S : Membership!Min(S) <= n
BY MinExists DEF Min, Membership!Min

LEMMA MaxOf ==
    ASSUME NEW n \in Nat, NEW S \in SUBSET (0..n), S # {}
    PROVE  Membership!Max(S) \in S /\ \A m \in S : m <= Membership!Max(S)
<1> DEFINE below == {n - m : m \in S}
<1>1. below \in SUBSET Nat /\ below # {}
  <2>1. \A m \in S : n - m \in Nat
    OBVIOUS
  <2>2. \A k \in below : k \in Nat
    BY <2>1
  <2> QED BY <2>2
<1>2. Min(below) \in below /\ \A k \in below : Min(below) <= k
  BY <1>1, MinExists
<1>3. PICK x \in S : Min(below) = n - x
  BY <1>2
<1>4. ASSUME NEW m \in S PROVE m <= x
  <2>1. n - m \in below
    OBVIOUS
  <2>2. n - x <= n - m /\ m \in 0..n /\ x \in 0..n
    BY <1>2, <1>3, <2>1
  <2> QED BY <2>2
<1>5. \E y \in S : \A m \in S : m <= y
  BY <1>4
<1> QED BY <1>5, Zenon DEF Membership!Max

(* Nobody leaves without a removal, and nobody was there before without    *)
(* an addition.                                                            *)
LEMMA Stays ==
    ASSUME NEW n \in Nat, NEW P, NEW A, NEW R, Chronicle(P, A, R, n),
           NEW a \in P, NEW b \in a..n, \A r \in R : ~(a < r /\ r <= b)
    PROVE  b \in P
<1> SUFFICES ASSUME b \notin P PROVE FALSE
  OBVIOUS
<1> DEFINE absent == {d \in a..b : d \notin P}
<1>1. a \in 0..n /\ b \in 0..n
  BY DEF Chronicle
<1>2. PICK m \in absent : \A d \in absent : m <= d
  <2>1. absent \in SUBSET Nat /\ absent # {}
    BY <1>1
  <2> QED BY <2>1, MinExists
<1>3. m # a /\ m - 1 \in P /\ m \in 1..n /\ a < m /\ m <= b
  BY <1>1, <1>2
<1>4. m \notin R
  BY <1>3
<1> QED BY <1>1, <1>2, <1>3, <1>4 DEF Chronicle

LEMMA WasThere ==
    ASSUME NEW n \in Nat, NEW P, NEW A, NEW R, Chronicle(P, A, R, n),
           NEW b \in P, NEW a \in 0..b, \A d \in A : ~(a < d /\ d <= b)
    PROVE  a \in P
<1> SUFFICES ASSUME a \notin P PROVE FALSE
  OBVIOUS
<1> DEFINE present == {d \in a..b : d \in P}
<1>1. b \in 0..n
  BY DEF Chronicle
<1>2. PICK m \in present : \A d \in present : m <= d
  <2>1. present \in SUBSET Nat /\ present # {}
    BY <1>1
  <2> QED BY <2>1, MinExists
<1>3. m # a /\ m - 1 \notin P /\ m \in 1..n /\ a < m /\ m <= b
  BY <1>1, <1>2
<1>4. m \notin A
  BY <1>3
<1> QED BY <1>1, <1>2, <1>3, <1>4 DEF Chronicle

(* A tenure that ended on day e: it began after the removals before e, its *)
(* days are days of membership, and the days before e since the last       *)
(* removal are its days.                                                   *)
LEMMA OpenedFits ==
    ASSUME NEW n \in Nat, NEW s, NEW P,
           Chronicle(P, Membership!Adds(s), Membership!Removals(s), n),
           NEW e \in Membership!Removals(s), NEW floor \in 0..n
    PROVE  LET o == Membership!Opened(s, e, floor)
           IN  /\ o \in Nat /\ floor <= o
               /\ \A r \in Membership!Removals(s) : r < e => r <= o
               /\ \A d \in Nat : o <= d /\ d < e => d \in P
               /\ \A d \in P :
                     /\ floor <= d /\ d < e
                     /\ \A r \in Membership!Removals(s) : ~(d < r /\ r < e)
                     => o <= d
<1> DEFINE A == Membership!Adds(s)
           R == Membership!Removals(s)
           before == {r \in R : r < e}
           adds == {a \in A : a < e /\ \A r \in before : a >= r}
           o == Membership!Opened(s, e, floor)
<1>1. /\ Chronicle(P, A, R, n) /\ e \in R
      /\ o = IF adds = {} THEN floor
             ELSE Membership!Max({floor, Membership!Min(adds)})
  BY DEF Membership!Opened
<1> HIDE DEF A, R, o
<1>2. /\ P \subseteq 0..n /\ A \subseteq 1..n /\ R \subseteq 1..n
      /\ e \in 1..n /\ e - 1 \in P
  BY <1>1 DEF Chronicle
(* With a removal before e there is an addition after the last of them.    *)
<1>3. before # {} => adds # {}
  <2> SUFFICES ASSUME before # {}, adds = {} PROVE FALSE
    OBVIOUS
  <2>1. before \in SUBSET (0..n)
    <3>1. \A r \in R : r \in 0..n
      BY <1>2
    <3> QED BY <3>1
  <2>2. PICK last \in before : \A r \in before : r <= last
    BY <2>1, MaxOf
  <2>3. last \in R /\ last < e /\ last \in 1..n
    BY <1>2
  <2>4. \A a \in A : a < e => a < last
    <3> SUFFICES ASSUME NEW a \in A, a < e, ~(a < last) PROVE FALSE
      OBVIOUS
    <3>1. \A r \in before : a >= r
      BY <1>2, <2>1, <2>2
    <3> QED BY <3>1
  <2>5. last \notin P
    <3>1. last \notin A
      BY <2>3, <2>4
    <3> QED BY <1>1, <2>3, <3>1 DEF Chronicle
  <2>6. last \in P
    <3>1. last \in 0..(e - 1)
      BY <1>2, <2>3
    <3>2. \A d \in A : ~(last < d /\ d <= e - 1)
      BY <1>2, <2>3, <2>4
    <3> QED BY <1>1, <1>2, <3>1, <3>2, WasThere
  <2> QED BY <2>5, <2>6
<1>4. CASE adds = {}
  <2>1. o = floor /\ before = {}
    BY <1>1, <1>3, <1>4
  <2>2. \A r \in R : ~(r < e)
    BY <2>1
  <2>3. \A a \in A : ~(a < e)
    BY <1>4, <2>1
  <2>4. ASSUME NEW d \in Nat, o <= d, d < e PROVE d \in P
    <3>1. d \in 0..(e - 1)
      BY <1>2, <2>4
    <3>2. \A a \in A : ~(d < a /\ a <= e - 1)
      BY <1>2, <2>3
    <3> QED BY <1>1, <1>2, <3>1, <3>2, WasThere
  <2> QED BY <2>1, <2>2, <2>4 DEF R, o
<1>5. CASE adds # {}
  <2> DEFINE first == Membership!Min(adds)
  <2>1. first \in adds /\ \A a \in adds : first <= a
    BY <1>2, <1>5, MinOf
  <2> HIDE DEF first
  <2>2. first \in A /\ first \in 1..n /\ first < e /\ \A r \in before : first >= r
    BY <1>2, <2>1
  <2>3. o \in {floor, first} /\ floor <= o /\ first <= o
    <3>1. {floor, first} \in SUBSET (0..n)
      BY <2>2
    <3>2. o = Membership!Max({floor, first})
      BY <1>1, <1>5 DEF first
    <3> QED BY <3>1, <3>2, MaxOf
  <2>4. o \in Nat
    BY <2>2, <2>3
  <2>5. \A r \in R : r < e => r <= o
    BY <1>2, <2>2, <2>3, <2>4
  <2>6. ASSUME NEW d \in Nat, o <= d, d < e PROVE d \in P
    <3>1. first \in P /\ d \in first..n
      BY <1>1, <1>2, <2>2, <2>3, <2>4, <2>6 DEF Chronicle
    <3>2. \A r \in R : ~(first < r /\ r <= d)
      BY <1>2, <2>2, <2>6
    <3> QED BY <1>1, <3>1, <3>2, Stays
  <2>7. ASSUME NEW d \in P, floor <= d, d < e, \A r \in R : ~(d < r /\ r < e)
        PROVE  o <= d
    <3> SUFFICES ASSUME d < first PROVE FALSE
      BY <1>2, <2>2, <2>3, <2>7
    <3>1. first \notin R /\ d \in 0..n
      BY <1>2, <2>2, <2>7
    <3>2. first - 1 \notin P
      BY <1>1, <2>2, <3>1 DEF Chronicle
    <3>3. first - 1 \in d..n /\ \A r \in R : ~(d < r /\ r <= first - 1)
      BY <1>2, <2>2, <2>7, <3>1
    <3> QED BY <1>1, <3>2, <3>3, Stays
  <2> QED BY <2>3, <2>4, <2>5, <2>6, <2>7 DEF R, o
<1> QED BY <1>4, <1>5

(* The open tenure of a member: no removal comes after it began, its days  *)
(* are days of membership, and so are its the days since the last removal. *)
LEMMA OpenSinceFits ==
    ASSUME ResearchAssumption,
           NEW n \in Nat, NEW s, NEW P,
           Chronicle(P, Membership!Adds(s), Membership!Removals(s), n),
           n \in P, s \in members, Dated(s), NEW floor \in 0..n
    PROVE  LET o == Membership!OpenSince(s, floor)
           IN  /\ o \in Nat /\ floor <= o
               /\ \A r \in Membership!Removals(s) : r <= o
               /\ \A d \in 0..n : o <= d => d \in P
               /\ \A d \in P :
                     floor <= d /\ (\A r \in Membership!Removals(s) : ~(d < r)) => o <= d
<1> DEFINE A == Membership!Adds(s)
           R == Membership!Removals(s)
           last == IF added[s] # None THEN added[s]
                   ELSE IF A # {} THEN Membership!Max(A) ELSE floor
           o == Membership!OpenSince(s, floor)
<1>1. /\ Chronicle(P, A, R, n)
      /\ o = Membership!Max({last, floor})
      /\ added[s] # None =>
            \/ added[s] = 0 /\ A = {} /\ R = {}
            \/ added[s] \in A /\ \A a \in A : a <= added[s]
  BY DEF Membership!OpenSince, Dated
<1> HIDE DEF o
<1>2. /\ P \subseteq 0..n /\ A \subseteq 1..n /\ R \subseteq 1..n
  BY <1>1 DEF Chronicle
<1>3. ASSUME A = {} PROVE R = {}
  <2> SUFFICES ASSUME NEW r \in R PROVE FALSE
    OBVIOUS
  <2>1. r \notin P
    BY <1>1, <1>3 DEF Chronicle
  <2>2. r \in 0..n /\ \A a \in A : ~(r < a /\ a <= n)
    BY <1>2, <1>3
  <2> QED BY <1>1, <2>1, <2>2, WasThere
<1>4. CASE A = {}
  <2>1. last \in {0, floor}
    BY <1>1, <1>4
  <2>2. o = floor
    <3>1. {last, floor} \in SUBSET (0..n) /\ {last, floor} # {}
      BY <2>1
    <3>2. o \in {last, floor} /\ \A m \in {last, floor} : m <= o
      BY <1>1, <3>1, MaxOf, Zenon
    <3>3. o \in {0, floor} /\ floor <= o
      BY <2>1, <3>2
    <3> QED BY <3>3
  <2>3. ASSUME NEW d \in 0..n, o <= d PROVE d \in P
    <3>1. \A a \in A : ~(d < a /\ a <= n)
      BY <1>4
    <3> QED BY <1>1, <3>1, WasThere
  <2>4. R = {}
    BY <1>3, <1>4
  <2> QED BY <2>2, <2>3, <2>4 DEF R, o
<1>5. CASE A # {}
  <2>1. last \in A /\ \A a \in A : a <= last
    <3>1. A \in SUBSET (0..n)
      BY <1>2
    <3>2. Membership!Max(A) \in A /\ \A a \in A : a <= Membership!Max(A)
      BY <1>5, <3>1, MaxOf
    <3> QED BY <1>1, <1>5, <3>2
  <2> HIDE DEF last
  <2>2. last \in 1..n /\ last \in P
    BY <1>1, <1>2, <2>1 DEF Chronicle
  <2>3. o \in {last, floor} /\ last <= o /\ floor <= o
    <3>1. {last, floor} \in SUBSET (0..n) /\ {last, floor} # {}
      BY <2>2
    <3> QED BY <1>1, <3>1, MaxOf
  <2>4. o \in 0..n
    BY <2>2, <2>3
  <2>5. ASSUME NEW r \in R PROVE r <= last
    <3> SUFFICES ASSUME last < r PROVE FALSE
      BY <1>2, <2>2
    <3>1. r \in 1..n /\ r \notin A
      BY <1>2, <2>1, <2>2
    <3>2. r \notin P
      BY <1>1, <3>1 DEF Chronicle
    <3>3. r \in 0..n /\ \A a \in A : ~(r < a /\ a <= n)
      BY <1>2, <2>1, <2>2, <3>1
    <3> QED BY <1>1, <3>2, <3>3, WasThere
  <2>6. ASSUME NEW r \in R PROVE r <= o
    BY <1>2, <2>2, <2>3, <2>4, <2>5
  <2>7. ASSUME NEW d \in 0..n, o <= d PROVE d \in P
    <3>1. d \in last..n /\ \A r \in R : ~(last < r /\ r <= d)
      BY <1>2, <2>2, <2>3, <2>4, <2>5, <2>7
    <3> QED BY <1>1, <2>2, <3>1, Stays
  <2>8. ASSUME NEW d \in P, floor <= d, \A r \in R : ~(d < r) PROVE o <= d
    <3> SUFFICES ASSUME d < last PROVE FALSE
      BY <1>2, <2>2, <2>3, <2>8
    <3>1. last \notin R /\ d \in 0..n
      BY <1>2, <2>2, <2>8
    <3>2. last - 1 \notin P
      BY <1>1, <2>1, <3>1 DEF Chronicle
    <3>3. last - 1 \in d..n /\ \A r \in R : ~(d < r /\ r <= last - 1)
      BY <1>2, <2>2, <2>8, <3>1
    <3> QED BY <1>1, <3>2, <3>3, Stays
  <2> QED BY <2>3, <2>4, <2>6, <2>7, <2>8 DEF R, o
<1> QED BY <1>4, <1>5

(* i is a tenure that ends on day i.end, or the open one of a member.      *)
Ended(s, i, floor) ==
    /\ i.end \in Membership!Removals(s)
    /\ i.start = Membership!Opened(s, i.end, floor) /\ i.start < i.end

Open(s, i, floor) ==
    s \in members /\ i.end = None /\ i.start = Membership!OpenSince(s, floor)

Lasts(i, d) == i.start <= d /\ (i.end = None \/ i.end > d)

LEMMA TenureIs ==
    ASSUME MembershipInv, ResearchAssumption, NEW s \in Symbols, NEW floor \in 0..day,
           NEW i \in Membership!Tenures(s, floor)
    PROVE  i.symbol = s /\ (Ended(s, i, floor) \/ Open(s, i, floor))
BY DEF Membership!Tenures, Membership!ClosedIntervals, Ended, Open

LEMMA TenureEq ==
    ASSUME ResearchAssumption, NEW s, NEW floor,
           NEW i \in Membership!Tenures(s, floor), NEW j \in Membership!Tenures(s, floor),
           i.start = j.start, i.end = j.end
    PROVE  i = j
BY DEF Membership!Tenures, Membership!ClosedIntervals

(* The tenures of a symbol do not overlap, and its days are their days.    *)
LEMMA TenuresFit ==
    ASSUME MembershipInv, ResearchAssumption, NEW s \in Symbols, NEW floor \in 0..day
    PROVE  /\ \A i \in Membership!Tenures(s, floor) : i.end = None \/ i.start < i.end
           /\ \A i, j \in Membership!Tenures(s, floor) :
                 i # j /\ i.start <= j.start => i.end # None /\ i.end <= j.start
           /\ \A d \in floor..day :
                 (\E i \in Membership!Tenures(s, floor) : Lasts(i, d)) <=> s \in history[d]
           /\ s \in members => Membership!Tenures(s, floor) # {}
<1> DEFINE R == Membership!Removals(s)
           T == Membership!Tenures(s, floor)
           o == Membership!OpenSince(s, floor)
           Since(e) == Membership!Opened(s, e, floor)
           P == Tenure(s)
<1>1. /\ day \in Nat /\ DOMAIN history = 0..day
      /\ Chronicle(P, Membership!Adds(s), R, day) /\ Dated(s)
      /\ s \in members <=> s \in history[day]
  BY DEF MembershipInv
<1>2. /\ \A d \in 0..day : d \in P <=> s \in history[d]
      /\ P \subseteq 0..day /\ R \subseteq 1..day
  BY <1>1 DEF Tenure, Chronicle
<1>3. \A i \in T : i.symbol = s /\ (Ended(s, i, floor) \/ Open(s, i, floor))
  BY TenureIs
<1>4. ASSUME NEW e \in R
      PROVE  /\ Since(e) \in Nat /\ floor <= Since(e)
             /\ \A r \in R : r < e => r <= Since(e)
             /\ \A d \in Nat : Since(e) <= d /\ d < e => d \in P
             /\ \A d \in P :
                   /\ floor <= d /\ d < e
                   /\ \A r \in R : ~(d < r /\ r < e)
                   => Since(e) <= d
  BY <1>1, OpenedFits
<1>5. ASSUME s \in members
      PROVE  /\ o \in Nat /\ floor <= o
             /\ \A r \in R : r <= o
             /\ \A d \in 0..day : o <= d => d \in P
             /\ \A d \in P : floor <= d /\ (\A r \in R : ~(d < r)) => o <= d
  <2>1. day \in P
    BY <1>1, <1>2, <1>5
  <2> QED BY <1>1, <1>5, <2>1, OpenSinceFits
<1>6. ASSUME NEW e \in R, Since(e) < e
      PROVE  [symbol |-> s, start |-> Since(e), end |-> e] \in T
  <2>1. s \in members => e <= o
    BY <1>5, <1>6
  <2> QED BY <1>6, <2>1 DEF Membership!Tenures, Membership!ClosedIntervals
<1>7. ASSUME s \in members
      PROVE  [symbol |-> s, start |-> o, end |-> None] \in T
  BY <1>7 DEF Membership!Tenures
<1>8. \A r \in R : r \in Nat /\ r # None
  BY <1>2 DEF ResearchAssumption
<1> HIDE DEF R, T, o, Since, P
<1>9. ASSUME NEW i \in T PROVE i.end = None \/ i.start < i.end
  BY <1>3 DEF Ended, Open
<1>10. ASSUME NEW i \in T, NEW j \in T, i # j, i.start <= j.start
       PROVE  i.end # None /\ i.end <= j.start
  <2>1. CASE Ended(s, i, floor) /\ Open(s, j, floor)
    BY <2>1, <1>5, <1>8 DEF Ended, Open, R, o
  <2>2. CASE Ended(s, i, floor) /\ Ended(s, j, floor)
    <3>1. /\ i.end \in R /\ i.start = Since(i.end) /\ i.start < i.end
          /\ j.end \in R /\ j.start = Since(j.end) /\ j.start < j.end
      BY <2>2 DEF Ended, R, Since
    <3>2. /\ i.start \in Nat /\ j.start \in Nat /\ i.end \in Nat /\ j.end \in Nat
          /\ i.end # None
      BY <1>4, <1>8, <3>1
    <3>3. i.end # j.end
      <4> SUFFICES ASSUME i.end = j.end PROVE FALSE
        OBVIOUS
      <4>1. i.start = j.start
        BY <3>1
      <4> QED BY <1>10, <4>1, TenureEq DEF T
    <3>4. j.end < i.end => j.end <= i.start
      BY <1>4, <3>1
    <3>5. i.end < j.end => i.end <= j.start
      BY <1>4, <3>1
    <3> QED BY <1>10, <3>1, <3>2, <3>3, <3>4, <3>5
  <2>3. CASE Open(s, i, floor) /\ Ended(s, j, floor)
    <3>1. i.start = o /\ o \in Nat /\ j.end \in R /\ j.end <= o
      BY <1>5, <2>3 DEF Ended, Open, R, o
    <3>2. j.end \in Nat /\ j.start \in Nat /\ j.start < j.end
      BY <1>4, <1>8, <2>3, <3>1 DEF Ended, Since
    <3> QED BY <1>10, <3>1, <3>2
  <2>4. CASE Open(s, i, floor) /\ Open(s, j, floor)
    <3>1. i.start = j.start /\ i.end = j.end
      BY <2>4 DEF Open
    <3> QED BY <1>10, <3>1, TenureEq DEF T
  <2> QED BY <1>3, <2>1, <2>2, <2>3, <2>4
<1>11. ASSUME NEW d \in floor..day
       PROVE  (\E i \in T : Lasts(i, d)) <=> s \in history[d]
  <2>1. d \in 0..day
    OBVIOUS
  <2>2. ASSUME NEW i \in T, Lasts(i, d) PROVE s \in history[d]
    <3>1. CASE Ended(s, i, floor)
      <4>1. i.end \in R /\ Since(i.end) <= d /\ d < i.end
        BY <1>8, <2>1, <2>2, <3>1 DEF Ended, Lasts, R, Since
      <4>2. d \in P
        BY <1>4, <2>1, <4>1
      <4> QED BY <1>2, <2>1, <4>2
    <3>2. CASE Open(s, i, floor)
      <4>1. s \in members /\ o <= d
        BY <2>2, <3>2 DEF Open, Lasts, o
      <4> QED BY <1>2, <1>5, <2>1, <4>1
    <3> QED BY <1>3, <3>1, <3>2
  <2>3. ASSUME s \in history[d] PROVE \E i \in T : Lasts(i, d)
    <3>1. d \in P
      BY <1>2, <2>1, <2>3
    <3> DEFINE later == {r \in R : d < r}
    <3>2. CASE later # {}
      <4>1. later \in SUBSET Nat
        BY <1>8
      <4>2. PICK e \in later : \A r \in later : e <= r
        BY <3>2, <4>1, MinExists
      <4>3. e \in R /\ d < e /\ e \in Nat /\ \A r \in R : ~(d < r /\ r < e)
        BY <1>8, <2>1, <4>2
      <4>4. Since(e) \in Nat /\ Since(e) <= d
        BY <1>4, <2>1, <3>1, <4>3
      <4>5. Since(e) < e
        BY <2>1, <4>3, <4>4
      <4> DEFINE i == [symbol |-> s, start |-> Since(e), end |-> e]
      <4>6. i \in T
        BY <1>6, <4>3, <4>5
      <4>7. Lasts(i, d)
        BY <4>3, <4>4 DEF Lasts
      <4> QED BY <4>6, <4>7
    <3>3. CASE later = {}
      <4>1. \A r \in R : ~(d < r)
        BY <3>3
      <4>2. day \in P
        <5>1. day \in d..day /\ \A r \in R : ~(d < r /\ r <= day)
          BY <1>1, <2>1, <4>1
        <5> QED BY <1>1, <3>1, <5>1, Stays
      <4>3. s \in members
        BY <1>1, <1>2, <4>2
      <4>4. o <= d
        BY <1>5, <2>1, <3>1, <4>1, <4>3
      <4> DEFINE i == [symbol |-> s, start |-> o, end |-> None]
      <4>5. i \in T
        BY <1>7, <4>3
      <4>6. Lasts(i, d)
        BY <4>4 DEF Lasts
      <4> QED BY <4>5, <4>6
    <3> QED BY <3>2, <3>3
  <2> QED BY <2>2, <2>3
<1> QED BY <1>7, <1>9, <1>10, <1>11 DEF T

(* What the intervals answer is what was recorded day by day.              *)
LEMMA HistoryIsAnswered ==
    ASSUME MembershipInv, ResearchAssumption
    PROVE  MembershipIsHistory
<1>1. /\ day \in Nat /\ history \in [0..day -> SUBSET Symbols]
      /\ members = history[day] /\ members # {} /\ members \subseteq Symbols
      /\ \A row \in log : row.date \in 1..day
  BY DEF MembershipInv
<1> SUFFICES ASSUME log # {}, NEW floor \in Membership!EarliestChange..day
             PROVE
    LET frame == Membership!BuildPitMembership(floor)
    IN  /\ Membership!Accepted(frame)
        /\ \A d \in floor..day : Membership!MembersAsOf(frame, d) = history[d]
        /\ Membership!ValidateBacktest(frame, [d \in floor..day |-> history[d]]) = {}
        /\ Membership!FlaggedSymbols(frame, [d \in floor..day |-> members]) =
              UNION {members \ history[d] : d \in floor..day}
  BY DEF MembershipIsHistory, Membership!MembershipIsHistory
<1> DEFINE frame == Membership!BuildPitMembership(floor)
           dates == {row.date : row \in log}
<1>2. floor \in 0..day
  <2>1. dates \in SUBSET Nat /\ dates # {}
    BY <1>1
  <2>2. Membership!EarliestChange \in Nat
    BY <2>1, MinOf DEF Membership!EarliestChange
  <2> QED BY <1>1, <2>2
<1>3. \A i : i \in frame <=> \E s \in Symbols : i \in Membership!Tenures(s, floor)
  BY DEF Membership!BuildPitMembership
<1>4. \A s \in Symbols : \A i \in Membership!Tenures(s, floor) : i.symbol = s
  BY <1>2, TenureIs
<1> HIDE DEF frame
<1>5. Membership!Accepted(frame)
  <2>1. frame # {}
    <3>1. PICK s \in Symbols : s \in members
      BY <1>1
    <3> QED BY <1>2, <1>3, <3>1, TenuresFit
  <2>2. \A i \in frame : i.end = None \/ i.start < i.end
    BY <1>2, <1>3, TenuresFit
  <2>3. ASSUME NEW i \in frame, NEW j \in frame,
               i # j, i.symbol = j.symbol, i.start <= j.start
        PROVE  i.end # None /\ i.end <= j.start
    <3>1. PICK s \in Symbols : i \in Membership!Tenures(s, floor)
      BY <1>3
    <3>2. j \in Membership!Tenures(s, floor)
      BY <1>3, <1>4, <2>3, <3>1
    <3> QED BY <1>2, <2>3, <3>1, <3>2, TenuresFit
  <2> QED BY <2>1, <2>2, <2>3 DEF Membership!Accepted
<1>6. ASSUME NEW d \in floor..day
      PROVE  Membership!MembersAsOf(frame, d) = history[d]
  <2>1. history[d] \subseteq Symbols
    BY <1>1, <1>2
  <2>2. \A s : s \in Membership!MembersAsOf(frame, d) <=>
                 \E i \in frame : s = i.symbol /\ Lasts(i, d)
    BY DEF Membership!MembersAsOf, Lasts
  <2>3. ASSUME NEW s
        PROVE  s \in Membership!MembersAsOf(frame, d) <=>
                 s \in Symbols /\ \E i \in Membership!Tenures(s, floor) : Lasts(i, d)
    BY <1>3, <1>4, <2>2
  <2>4. \A s : s \in Membership!MembersAsOf(frame, d) <=> s \in history[d]
    BY <1>2, <2>1, <2>3, TenuresFit
  <2> QED BY <2>4
<1>7. Membership!ValidateBacktest(frame, [d \in floor..day |-> history[d]]) = {}
  BY <1>6 DEF Membership!ValidateBacktest, Membership!SurvivorshipCheck
<1>8. Membership!FlaggedSymbols(frame, [d \in floor..day |-> members]) =
         UNION {members \ history[d] : d \in floor..day}
  <2> DEFINE survivors == [d \in floor..day |-> members]
             flagged == Membership!FlaggedSymbols(frame, survivors)
  <2>1. \A d \in floor..day :
           Membership!SurvivorshipCheck(frame, survivors[d], d) = members \ history[d]
    BY <1>6 DEF Membership!SurvivorshipCheck
  <2>2. \A s : s \in flagged <=> \E d \in floor..day : s \in members \ history[d]
    BY <2>1 DEF Membership!FlaggedSymbols, Membership!ValidateBacktest
  <2> HIDE DEF flagged
  <2>3. \A s : s \in UNION {members \ history[d] : d \in floor..day} <=>
                 \E d \in floor..day : s \in members \ history[d]
    OBVIOUS
  <2>4. flagged = UNION {members \ history[d] : d \in floor..day}
    BY <2>2, <2>3
  <2> QED BY <2>4 DEF flagged
<1> QED BY <1>5, <1>6, <1>7, <1>8 DEF frame

-----------------------------------------------------------------------------
LEMMA MembershipStarts ==
    ASSUME ResearchAssumption, ResearchInit
    PROVE  MembershipInv
<1>1. Membership!Init
  BY DEF ResearchInit
<1>2. /\ day = 0 /\ members \in (SUBSET Symbols) \ {{}}
      /\ history = [d \in 0..0 |-> members] /\ log = {}
      /\ added \in [Symbols -> {None, 0}]
  BY <1>1 DEF Membership!Init
<1>3. ASSUME NEW s
      PROVE  Membership!Adds(s) = {} /\ Membership!Removals(s) = {}
  BY <1>2 DEF Membership!Adds, Membership!Removals
<1>4. ASSUME NEW s \in Symbols
      PROVE  /\ Chronicle(Tenure(s), Membership!Adds(s), Membership!Removals(s), day)
             /\ Dated(s)
  BY <1>2, <1>3 DEF Chronicle, Tenure, Dated
<1> QED BY <1>2, <1>4 DEF MembershipInv

LEMMA NextDayKeeps ==
    ASSUME MembershipInv, Membership!NextDay
    PROVE  MembershipInv'
<1>1. /\ day' = day + 1 /\ day \in Nat
      /\ history \in [0..day -> SUBSET Symbols] /\ members \subseteq Symbols
      /\ history' = [d \in 0..day + 1 |-> IF d = day + 1 THEN members ELSE history[d]]
      /\ UNCHANGED <<members, added, log>>
  BY DEF MembershipInv, Membership!NextDay
<1>2. ASSUME NEW s \in Symbols
      PROVE  /\ Chronicle(Tenure(s), Membership!Adds(s), Membership!Removals(s), day)'
             /\ Dated(s)'
  <2>1. /\ Membership!Adds(s)' = Membership!Adds(s)
        /\ Membership!Removals(s)' = Membership!Removals(s)
    BY <1>1 DEF Membership!Adds, Membership!Removals
  <2>2. \A d \in 0..day : d \in Tenure(s)' <=> d \in Tenure(s)
    BY <1>1 DEF Tenure
  <2>3. /\ Tenure(s)' \subseteq 0..day + 1
        /\ day + 1 \in Tenure(s)' <=> day \in Tenure(s)
    BY <1>1 DEF Tenure, MembershipInv
  <2>4. Chronicle(Tenure(s), Membership!Adds(s), Membership!Removals(s), day) /\ Dated(s)
    BY DEF MembershipInv
  <2> HIDE DEF Membership!Adds, Membership!Removals, Tenure
  <2>5. Chronicle(Tenure(s)', Membership!Adds(s), Membership!Removals(s), day + 1)
    BY <1>1, <2>2, <2>3, <2>4 DEF Chronicle
  <2> QED BY <1>1, <2>1, <2>4, <2>5 DEF Chronicle, Dated
<1> QED BY <1>1, <1>2 DEF MembershipInv

LEMMA ChangeKeeps ==
    ASSUME ResearchAssumption, MembershipInv, Membership!Change
    PROVE  MembershipInv'
<1>1. /\ day \in Nat /\ day > 0 /\ day' = day
      /\ history \in [0..day -> SUBSET Symbols]
      /\ members = history[day] /\ members \subseteq Symbols
      /\ \A row \in log : row.date \in 1..day
      /\ None \notin Symbols /\ None \notin Int
  BY DEF MembershipInv, Membership!Change, ResearchAssumption
<1>2. PICK join \in (Symbols \ members) \cup {None}, leave \in members \cup {None} :
        /\ leave # None => ~Membership!ChangedToday(leave)
        /\ join # None => ~\E row \in log : row.date = day /\ row.added = join
        /\ members' = (members \ {leave}) \cup ({join} \ {None})
        /\ members' # {}
        /\ \E entered \in {None, day} :
              added' = [s \in Symbols |->
                           IF s = join THEN entered ELSE IF s = leave THEN None ELSE added[s]]
        /\ log' = log \cup {[date |-> day, added |-> join, removed |-> leave]}
        /\ history' = [history EXCEPT ![day] = members']
  BY DEF Membership!Change
<1>3. members' \subseteq Symbols
  BY <1>1, <1>2
<1>4. history' = [d \in 0..day |-> IF d = day THEN members' ELSE history[d]]
  BY <1>1, <1>2
<1>5. ASSUME NEW s \in Symbols
      PROVE  /\ Chronicle(Tenure(s), Membership!Adds(s), Membership!Removals(s), day)'
             /\ Dated(s)'
  <2> DEFINE A == Membership!Adds(s)
             R == Membership!Removals(s)
             P == Tenure(s)
  <2> DEFINE row == [date |-> day, added |-> join, removed |-> leave]
  <2>1. A' = A \cup (IF s = join THEN {day} ELSE {})
    <3>1. \A d : d \in A' <=> d \in A \/ (row.added = s /\ row.date = d)
      BY <1>2 DEF Membership!Adds
    <3>2. \A d : d \in A' <=> d \in A \/ (s = join /\ d = day)
      BY <3>1
    <3> HIDE DEF A
    <3> QED BY <3>2
  <2>2. R' = R \cup (IF s = leave THEN {day} ELSE {})
    <3>1. \A d : d \in R' <=> d \in R \/ (row.removed = s /\ row.date = d)
      BY <1>2 DEF Membership!Removals
    <3>2. \A d : d \in R' <=> d \in R \/ (s = leave /\ d = day)
      BY <3>1
    <3> HIDE DEF R
    <3> QED BY <3>2
  <2>3. /\ P' \subseteq 0..day
        /\ \A d \in 0..day - 1 : d \in P' <=> d \in P
        /\ day \in P' <=> s = join \/ (day \in P /\ s # leave)
    BY <1>1, <1>2, <1>4 DEF Tenure
  <2>4. /\ Chronicle(P, A, R, day) /\ Dated(s)
        /\ day \in P <=> s \in members
    BY <1>1 DEF MembershipInv, Tenure
  <2>5. s = leave => day \notin A /\ day \notin R /\ day \in P /\ s # join
    BY <1>1, <1>2, <2>4 DEF Membership!ChangedToday, Membership!Adds, Membership!Removals
  <2>6. s = join => day \notin A /\ day \notin P
    BY <1>1, <1>2, <2>4 DEF Membership!Adds
  <2>7. \E entered \in {None, day} :
           added'[s] = IF s = join THEN entered ELSE IF s = leave THEN None ELSE added[s]
    BY <1>2
  <2>8. s \in members' <=> s = join \/ (s \in members /\ s # leave)
    BY <1>1, <1>2
  <2>9. A = Membership!Adds(s) /\ R = Membership!Removals(s) /\ P = Tenure(s)
    OBVIOUS
  <2>10. A' = Membership!Adds(s)' /\ R' = Membership!Removals(s)' /\ P' = Tenure(s)'
    OBVIOUS
  <2> HIDE DEF A, R, P
  <2>11. Chronicle(P', A', R', day)
    <3>1. CASE s = join
      BY <1>1, <2>1, <2>2, <2>3, <2>4, <2>5, <2>6, <3>1 DEF Chronicle
    <3>2. CASE s = leave
      BY <1>1, <2>1, <2>2, <2>3, <2>4, <2>5, <2>6, <3>2 DEF Chronicle
    <3>3. CASE s # join /\ s # leave
      <4>1. A' = A /\ R' = R
        BY <2>1, <2>2, <3>3
      <4>2. P \subseteq 0..day /\ P' \subseteq 0..day
        BY <2>3, <2>4 DEF Chronicle
      <4>3. \A d \in 0..day : d \in P' <=> d \in P
        BY <1>1, <2>3, <3>3
      <4>4. P' = P
        BY <4>2, <4>3
      <4> QED BY <2>4, <4>1, <4>4
    <3> QED BY <3>1, <3>2, <3>3
  <2>12. Dated(s)'
    <3> SUFFICES ASSUME s \in members', added'[s] # None
                 PROVE  \/ added'[s] = 0 /\ A' = {} /\ R' = {}
                        \/ added'[s] \in A' /\ \A a \in A' : a <= added'[s]
      BY <2>10 DEF Dated
    <3>1. CASE s = join
      <4>1. added'[s] = day /\ A' = A \cup {day}
        BY <2>1, <2>7, <3>1
      <4>2. \A a \in A : a <= day
        BY <1>1, <2>4 DEF Chronicle
      <4> QED BY <1>1, <4>1, <4>2
    <3>2. CASE s # join
      <4>1. s \in members /\ s # leave /\ added'[s] = added[s] /\ A' = A /\ R' = R
        BY <2>1, <2>2, <2>7, <2>8, <3>2
      <4> QED BY <2>4, <2>9, <4>1 DEF Dated
    <3> QED BY <3>1, <3>2
  <2> QED BY <1>1, <2>10, <2>11, <2>12 DEF Chronicle
<1>6. \A row \in log' : row.date \in 1..day
  BY <1>1, <1>2
<1>7. DOMAIN added' = Symbols /\ history' \in [0..day -> SUBSET Symbols]
      /\ members' = history'[day]
  BY <1>1, <1>2, <1>3, <1>4
<1> QED BY <1>1, <1>2, <1>5, <1>6, <1>7 DEF MembershipInv

LEMMA MembershipStays == MembershipInv /\ UNCHANGED membership => MembershipInv'
<1> SUFFICES ASSUME MembershipInv, UNCHANGED membership PROVE MembershipInv'
  OBVIOUS
<1>1. day' = day /\ history' = history /\ members' = members /\ added' = added /\ log' = log
  BY DEF membership
<1>2. ASSUME NEW s
      PROVE  /\ Tenure(s)' = Tenure(s)
             /\ Membership!Adds(s)' = Membership!Adds(s)
             /\ Membership!Removals(s)' = Membership!Removals(s)
  BY <1>1 DEF Tenure, Membership!Adds, Membership!Removals
<1>3. \A s \in Symbols :
         /\ Chronicle(Tenure(s), Membership!Adds(s), Membership!Removals(s), day)'
         /\ Dated(s)'
  <2> TAKE s \in Symbols
  <2>1. Chronicle(Tenure(s), Membership!Adds(s), Membership!Removals(s), day) /\ Dated(s)
    BY DEF MembershipInv
  <2>2. Chronicle(Tenure(s), Membership!Adds(s), Membership!Removals(s), day)'
    BY <1>1, <1>2, <2>1 DEF Chronicle
  <2>3. Dated(s)'
    BY <1>1, <1>2, <2>1 DEF Dated
  <2> QED BY <2>2, <2>3
<1> QED BY <1>1, <1>3 DEF MembershipInv

(* Whoever asks who was a member on a day the log covers is told who was   *)
(* one, for any number of symbols, changes and days.                       *)
THEOREM MembersAreThoseOfTheDay == ResearchSpec => []MembershipIsHistory
<1>1. ResearchInit => MembershipInv
  BY ResearchAssumption, MembershipStarts
<1>2. MembershipInv /\ [ResearchNext]_researchVars => MembershipInv'
  <2> SUFFICES ASSUME MembershipInv, [ResearchNext]_researchVars PROVE MembershipInv'
    OBVIOUS
  <2>1. CASE UNCHANGED membership
    BY <2>1, MembershipStays
  <2>2. CASE Membership!Next
    BY <2>2, ResearchAssumption, NextDayKeeps, ChangeKeeps DEF Membership!Next
  <2> QED BY <2>1, <2>2 DEF ResearchNext, researchVars
<1>3. MembershipInv => MembershipIsHistory
  BY ResearchAssumption, HistoryIsAnswered
<1> QED BY <1>1, <1>2, <1>3, PTL DEF ResearchSpec, researchVars

-----------------------------------------------------------------------------
(* Decisions.                                                              *)
LEMMA GreatestIs ==
    ASSUME NEW S \in SUBSET Int, NEW m \in S, \A x \in S : x <= m
    PROVE  Decisions!Max(S) = m
<1>1. \A x \in S : (\A y \in S : x >= y) <=> x = m
  OBVIOUS
<1> QED BY <1>1, Zenon DEF Decisions!Max

LEMMA LeastIs ==
    ASSUME NEW S \in SUBSET Int, NEW m \in S, \A x \in S : m <= x
    PROVE  Decisions!Min(S) = m
<1>1. \A x \in S : (\A y \in S : x <= y) <=> x = m
  OBVIOUS
<1> QED BY <1>1, Zenon DEF Decisions!Min

LEMMA MaxOfTwo ==
    ASSUME NEW a \in Int, NEW b \in Int
    PROVE  Decisions!Max({a, b}) = IF a >= b THEN a ELSE b
<1>1. CASE a >= b
  BY <1>1, GreatestIs
<1>2. CASE ~(a >= b)
  BY <1>2, GreatestIs
<1> QED BY <1>1, <1>2

LEMMA MinOfTwo ==
    ASSUME NEW a \in Int, NEW b \in Int
    PROVE  Decisions!Min({a, b}) = IF a <= b THEN a ELSE b
<1>1. CASE a <= b
  BY <1>1, LeastIs
<1>2. CASE ~(a <= b)
  BY <1>2, LeastIs
<1> QED BY <1>1, <1>2

(* A maximum of four is reached by what reaches each.                      *)
LEMMA ReachesFour ==
    ASSUME NEW n \in Int, NEW w \in Int, NEW x \in Int, NEW y \in Int, NEW z \in Int
    PROVE  n >= Decisions!Max({w, x, y, z}) <=> n >= w /\ n >= x /\ n >= y /\ n >= z
<1> DEFINE S == {w, x, y, z}
<1>1. \E m \in S : \A v \in S : v <= m
  <2>1. CASE w >= x /\ w >= y /\ w >= z
    BY <2>1
  <2>2. CASE x >= w /\ x >= y /\ x >= z
    BY <2>2
  <2>3. CASE y >= w /\ y >= x /\ y >= z
    BY <2>3
  <2>4. CASE z >= w /\ z >= x /\ z >= y
    BY <2>4
  <2> QED BY <2>1, <2>2, <2>3, <2>4
<1>2. PICK m \in S : \A v \in S : v <= m
  BY <1>1
<1>3. Decisions!Max(S) = m
  <2>1. S \in SUBSET Int
    OBVIOUS
  <2> HIDE DEF S
  <2> QED BY <1>2, <2>1, GreatestIs
<1> QED BY <1>2, <1>3

(* Windows of any lengths, and overlays that are on or off.                *)
ProperWindows(c) ==
    /\ c.lookback \in Nat /\ c.gap \in Nat /\ c.ir \in Nat /\ c.vol \in Nat
    /\ c.vixWindow \in Nat /\ c.regime \in BOOLEAN /\ c.vixScale \in BOOLEAN

(* From the history that is required on, and not before, no part of the    *)
(* strategy falls back.                                                    *)
LEMMA RequiredIsWhole ==
    ASSUME ProperWindows(parameters), NEW n \in Nat \ {0}
    PROVE  n >= Decisions!RequiredHistory(parameters) <=> Decisions!FullWindows(n)
<1> DEFINE c == parameters
           residual == c.gap + 2 * c.lookback + 1
           regime == IF c.regime THEN Decisions!Max({3 + 1, c.vol + 1}) ELSE 0
           vix == IF c.vixScale THEN c.vixWindow + 1 ELSE 0
           whole == n >= residual /\ n >= regime /\ n >= vix /\ n >= c.ir + 1
<1>0. /\ c.lookback \in Nat /\ c.gap \in Nat /\ c.ir \in Nat /\ c.vol \in Nat
      /\ c.vixWindow \in Nat /\ c.regime \in BOOLEAN /\ c.vixScale \in BOOLEAN
  BY DEF ProperWindows
<1>1. regime = IF c.regime THEN (IF 4 >= c.vol + 1 THEN 4 ELSE c.vol + 1) ELSE 0
  BY <1>0, MaxOfTwo
<1>2. residual \in Int /\ regime \in Int /\ vix \in Int /\ c.ir + 1 \in Int
  BY <1>0, <1>1
<1>3. n >= Decisions!RequiredHistory(c) <=> whole
  <2>1. Decisions!RequiredHistory(c) = Decisions!Max({residual, regime, vix, c.ir + 1})
    BY DEF Decisions!RequiredHistory
  <2> HIDE DEF residual, regime, vix
  <2> QED BY <1>2, <2>1, ReachesFour
<1> DEFINE from == n - c.gap - c.lookback
<1>4. /\ Decisions!HasResidual(n, c) <=> n >= residual
      /\ Decisions!InformationWindow(n, c) = (n - (IF c.ir <= n - 1 THEN c.ir ELSE n - 1))..n
      /\ Decisions!VixWindow(n, c)
            = (n - (IF c.vixWindow <= n - 1 THEN c.vixWindow ELSE n - 1))..n
      /\ Decisions!FormationWindow(n, c) = (IF 1 >= from THEN 1 ELSE from)..(n - c.gap)
      /\ Decisions!EstimationWindow(n, c)
            = ((IF 1 >= from THEN 1 ELSE from) - c.lookback)..(IF 1 >= from THEN 1 ELSE from)
  <2>1. /\ Decisions!Min({c.ir, n - 1}) = IF c.ir <= n - 1 THEN c.ir ELSE n - 1
        /\ Decisions!Min({c.vixWindow, n - 1})
              = IF c.vixWindow <= n - 1 THEN c.vixWindow ELSE n - 1
    BY <1>0, MinOfTwo
  <2>2. Decisions!Max({1, from}) = IF 1 >= from THEN 1 ELSE from
    <3>1. from \in Int
      BY <1>0
    <3> HIDE DEF from
    <3> QED BY <3>1, MaxOfTwo
  <2> QED
    BY <2>1, <2>2 DEF Decisions!HasResidual, Decisions!InformationWindow,
       Decisions!VixWindow, Decisions!FormationWindow, Decisions!EstimationWindow
<1>5. ASSUME whole PROVE Decisions!FullWindows(n)
  <2>1. Decisions!HasResidual(n, c) /\ from >= 1 /\ from - c.lookback >= 1 /\ from <= n
    <3>1. Decisions!HasResidual(n, c)
      BY <1>4, <1>5
    <3>2. n >= c.gap + 2 * c.lookback + 1
      BY <1>5
    <3>3. from >= 1 /\ from - c.lookback >= 1 /\ from <= n
      <4>1. n \in Int /\ c.gap \in Nat /\ c.lookback \in Nat
        BY <1>0
      <4> HIDE DEF c
      <4> QED BY <3>2, <4>1
    <3> QED BY <3>1, <3>3
  <2>2. Decisions!FormationWindow(n, c) = (n - c.gap - c.lookback)..(n - c.gap)
    <3>1. (IF 1 >= from THEN 1 ELSE from) = from
      BY <1>0, <2>1
    <3> QED BY <1>4, <3>1
  <2>3. Decisions!EstimationWindow(n, c) \subseteq 1..n
    <3>1. Decisions!EstimationWindow(n, c) = (from - c.lookback)..from
      <4>1. (IF 1 >= from THEN 1 ELSE from) = from
        BY <1>0, <2>1
      <4> QED BY <1>4, <4>1
    <3>2. from - c.lookback \in Int /\ from \in Int
      BY <1>0
    <3> HIDE DEF from
    <3> QED BY <1>0, <2>1, <3>1, <3>2
  <2>4. Decisions!InformationWindow(n, c) = (n - c.ir)..n /\ n - c.ir >= 1
    <3>1. n >= c.ir + 1
      BY <1>5
    <3>2. c.ir <= n - 1 /\ n - c.ir >= 1
      <4>1. c.ir \in Nat
        BY <1>0
      <4> HIDE DEF c
      <4> QED BY <3>1, <4>1
    <3> QED BY <1>4, <3>2
  <2>5. c.regime => n - 1 >= 3 /\ n - c.vol >= 1
    BY <1>0, <1>1, <1>5
  <2>6. c.vixScale =>
          Decisions!VixWindow(n, c) = (n - c.vixWindow)..n /\ n - c.vixWindow >= 1
    <3> SUFFICES ASSUME c.vixScale
                 PROVE  /\ Decisions!VixWindow(n, c) = (n - c.vixWindow)..n
                        /\ n - c.vixWindow >= 1
      OBVIOUS
    <3>1. n >= c.vixWindow + 1
      BY <1>5
    <3>2. c.vixWindow <= n - 1 /\ n - c.vixWindow >= 1
      <4>1. c.vixWindow \in Nat
        BY <1>0
      <4> HIDE DEF c
      <4> QED BY <3>1, <4>1
    <3> QED BY <1>4, <3>2
  <2> QED
    BY <2>1, <2>2, <2>3, <2>4, <2>5, <2>6 DEF Decisions!FullWindows
<1>6. ASSUME Decisions!FullWindows(n) PROVE whole
  <2>1. /\ Decisions!HasResidual(n, c) /\ n - c.ir >= 1
        /\ c.regime => n - 1 >= 3 /\ n - c.vol >= 1
        /\ c.vixScale => n - c.vixWindow >= 1
    BY <1>6 DEF Decisions!FullWindows
  <2>2. n >= residual
    BY <1>4, <2>1
  <2>3. n >= regime
    BY <1>0, <1>1, <2>1
  <2>4. n >= vix /\ n >= c.ir + 1
    BY <1>0, <2>1
  <2> QED BY <2>2, <2>3, <2>4
<1> QED BY <1>3, <1>5, <1>6

(* required_history is exactly the history from which no part of           *)
(* MultiAssetRotation falls back, for panels of any sessions.              *)
THEOREM RequiredHistoryIsExact == ResearchSpec => []HistorySuffices
<1> DEFINE PanelInv == ProperWindows(parameters) /\ \E T : sessions \in Seq(T)
<1>1. ResearchInit => PanelInv
  <2> SUFFICES ASSUME ResearchInit PROVE PanelInv
    OBVIOUS
  <2>1. /\ parameters.lookback = 2 /\ parameters.ir = 3 /\ parameters.vixWindow = 2
        /\ parameters.regime = TRUE /\ parameters.vixScale = TRUE
        /\ \E gap \in {0, 1} : parameters.gap = gap /\ parameters.vol = 5 - 3 * gap
    BY DEF ResearchInit, Decisions!Init
  <2>2. sessions \in Seq({})
    BY DEF ResearchInit, Decisions!Init
  <2>3. parameters.gap \in Nat /\ parameters.vol \in Nat
    BY <2>1
  <2>4. ProperWindows(parameters)
    <3>1. /\ parameters.lookback \in Nat /\ parameters.ir \in Nat
          /\ parameters.vixWindow \in Nat
      BY <2>1
    <3>2. parameters.regime \in BOOLEAN /\ parameters.vixScale \in BOOLEAN
      BY <2>1, Zenon
    <3> QED BY <2>3, <3>1, <3>2 DEF ProperWindows
  <2> QED BY <2>2, <2>4
<1>2. PanelInv /\ [ResearchNext]_researchVars => PanelInv'
  <2> SUFFICES ASSUME PanelInv, [ResearchNext]_researchVars PROVE PanelInv'
    OBVIOUS
  <2>1. CASE UNCHANGED decisions
    BY <2>1 DEF decisions, ProperWindows
  <2>2. CASE Decisions!Next
    <3>1. parameters' = parameters
      BY <2>2 DEF Decisions!Next, Decisions!Close
    <3>2. PICK s : sessions' = Append(sessions, s)
      BY <2>2 DEF Decisions!Next, Decisions!Close
    <3>3. PICK T : sessions \in Seq(T)
      OBVIOUS
    <3>4. sessions' \in Seq(T \cup {s})
      BY <3>2, <3>3
    <3> QED BY <3>1, <3>4 DEF ProperWindows
  <2> QED BY <2>1, <2>2 DEF ResearchNext, researchVars
<1>3. PanelInv => HistorySuffices
  <2> SUFFICES ASSUME PanelInv, NEW n \in DOMAIN sessions PROVE n \in Nat \ {0}
    BY RequiredIsWhole DEF HistorySuffices, Decisions!HistorySuffices
  <2> QED OBVIOUS
<1> QED BY <1>1, <1>2, <1>3, PTL DEF ResearchSpec, researchVars

-----------------------------------------------------------------------------
(* Two panels agree on their first n sessions.                             *)
Agree(P, Q, n) ==
    /\ P \in Seq({P[m] : m \in DOMAIN P}) /\ Q \in Seq({Q[m] : m \in DOMAIN Q})
    /\ n \in Nat /\ n <= Len(P) /\ n <= Len(Q)
    /\ \A m \in 1..n : P[m] = Q[m]

LEMMA AgreeIs ==
    ASSUME NEW P, NEW Q, NEW n, Agree(P, Q, n)
    PROVE  /\ n \in Nat /\ Len(P) \in Nat /\ Len(Q) \in Nat /\ n <= Len(P) /\ n <= Len(Q)
           /\ DOMAIN P = 1..Len(P) /\ DOMAIN Q = 1..Len(Q)
           /\ \A m \in 1..n : m \in DOMAIN P /\ m \in DOMAIN Q /\ P[m] = Q[m]
BY DEF Agree

LEMMA SubSeqsAgree ==
    ASSUME NEW P, NEW Q, NEW n, Agree(P, Q, n), NEW a \in Int, NEW b \in Int,
           1 <= a, a <= b + 1, b <= n
    PROVE  SubSeq(P, a, b) = SubSeq(Q, a, b)
BY DEF Agree

LEMMA StartsAgree ==
    ASSUME NEW P, NEW Q, NEW n, Agree(P, Q, n), NEW b \in Int, b <= n
    PROVE  SubSeq(P, 1, b) = SubSeq(Q, 1, b)
BY DEF Agree

LEMMA ColumnsAgree ==
    ASSUME NEW T, NEW U, NEW n, Agree(T, U, n), NEW f
    PROVE  Agree(Decisions!Column(T, f), Decisions!Column(U, f), n)
<1> DEFINE P == Decisions!Column(T, f)
           Q == Decisions!Column(U, f)
<1>0. /\ Len(T) \in Nat /\ DOMAIN T = 1..Len(T)
      /\ Len(U) \in Nat /\ DOMAIN U = 1..Len(U)
  BY AgreeIs
<1>1. P \in Seq({P[m] : m \in DOMAIN P}) /\ Len(P) = Len(T)
  BY <1>0 DEF Decisions!Column
<1>2. Q \in Seq({Q[m] : m \in DOMAIN Q}) /\ Len(Q) = Len(U)
  BY <1>0 DEF Decisions!Column
<1>3. ASSUME NEW m \in 1..n PROVE P[m] = Q[m]
  <2>1. m \in DOMAIN T /\ m \in DOMAIN U /\ T[m] = U[m]
    BY AgreeIs
  <2> QED BY <2>1 DEF Decisions!Column
<1> HIDE DEF P, Q
<1> QED BY <1>1, <1>2, <1>3, AgreeIs DEF Agree, P, Q

LEMMA EarlierAgree ==
    ASSUME NEW P, NEW Q, NEW n, Agree(P, Q, n), NEW k \in 0..n
    PROVE  Agree(P, Q, k)
BY DEF Agree

LEMMA ContextsAgree ==
    ASSUME NEW P, NEW Q, NEW n, Agree(P, Q, n), NEW k \in 0..n
    PROVE  Decisions!BuildContext(P, k) = Decisions!BuildContext(Q, k)
<1>1. k \in Int /\ k <= n
  BY AgreeIs
<1> QED BY <1>1, StartsAgree DEF Decisions!BuildContext

LEMMA RowsAgree ==
    ASSUME NEW P, NEW Q, NEW n, Agree(P, Q, n), NEW a \in Int, NEW b \in Int, b <= n
    PROVE  Decisions!Rows(P, a, b) = Decisions!Rows(Q, a, b)
<1>1. ASSUME 1 <= a, a <= b PROVE SubSeq(P, a, b) = SubSeq(Q, a, b)
  <2>1. a <= b + 1
    BY <1>1
  <2> QED BY <1>1, <2>1, SubSeqsAgree
<1> QED BY <1>1 DEF Decisions!Rows

(* Lengths, and what keeps a label from reaching past the decision.        *)
Causal(c) ==
    /\ c.lookback \in Nat /\ c.gap \in Nat /\ c.skip \in Nat /\ c.reversal \in Nat
    /\ c.window \in Nat /\ c.betaWindow \in Nat /\ c.purge \in Nat /\ c.lag \in Nat
    /\ c.newsLookback \in Nat /\ c.trainWindow \in Nat /\ c.horizon \in Nat
    /\ c.label \in Nat /\ c.windows \subseteq Nat
    /\ c.gap <= c.lookback /\ c.skip <= c.lookback /\ c.horizon <= c.purge + 1

(* Factors.                                                                *)
LEMMA CrossSectionsAgree ==
    ASSUME NEW P, NEW Q, NEW n, Agree(P, Q, n), NEW c, Causal(c)
    PROVE  Decisions!CrossSectional(P, n, c) = Decisions!CrossSectional(Q, n, c)
<1>1. ASSUME NEW m \in Decisions!TrainDates(n, c)
      PROVE  /\ Decisions!Returns(P, m, c.window) = Decisions!Returns(Q, m, c.window)
             /\ Decisions!ForwardReturn(P, m, c) = Decisions!ForwardReturn(Q, m, c)
  <2>1. m \in Nat /\ 1 <= m /\ m <= n /\ m + c.horizon <= n /\ n \in Nat
    <3>1. n \in Nat
      BY AgreeIs
    <3>2. c.purge \in Nat /\ c.horizon \in Nat /\ c.horizon <= c.purge + 1
      BY DEF Causal
    <3>3. m \in 1..n - c.purge - 1
      BY DEF Decisions!TrainDates
    <3> QED BY <3>1, <3>2, <3>3
  <2>2. Decisions!Returns(P, m, c.window) = Decisions!Returns(Q, m, c.window)
    <3>1. m - c.window \in Int /\ m \in Int
      BY <2>1 DEF Causal
    <3> QED BY <2>1, <3>1, RowsAgree DEF Decisions!Returns
  <2>3. m + c.horizon \in 1..n /\ m \in 1..n
    BY <2>1 DEF Causal
  <2>4. /\ P[m] = Q[m] /\ P[m + c.horizon] = Q[m + c.horizon]
        /\ m + c.horizon <= Len(P) /\ m + c.horizon <= Len(Q)
    BY <2>1, <2>3, AgreeIs
  <2> QED BY <2>2, <2>4 DEF Decisions!ForwardReturn
<1>2. {<<Decisions!Returns(P, m, c.window), Decisions!ForwardReturn(P, m, c)>> :
          m \in Decisions!TrainDates(n, c)}
      = {<<Decisions!Returns(Q, m, c.window), Decisions!ForwardReturn(Q, m, c)>> :
          m \in Decisions!TrainDates(n, c)}
  BY <1>1
<1>3. Decisions!Returns(P, n, c.window) = Decisions!Returns(Q, n, c.window)
  <2>1. n \in Nat /\ c.window \in Nat
    BY AgreeIs DEF Causal
  <2>2. n - c.window \in Int /\ n \in Int /\ n <= n
    BY <2>1
  <2> QED BY <2>2, RowsAgree DEF Decisions!Returns
<1> QED BY <1>2, <1>3, Zenon DEF Decisions!CrossSectional

LEMMA FactorsAgree ==
    ASSUME NEW T, NEW U, NEW n, Agree(T, U, n), Causal(parameters)
    PROVE  Decisions!Factors(T, n) = Decisions!Factors(U, n)
<1> DEFINE c == parameters
           P == Decisions!Column(T, "closes")
           Q == Decisions!Column(U, "closes")
           M == Decisions!Column(T, "macro")
           N == Decisions!Column(U, "macro")
<1>1. Agree(P, Q, n) /\ Agree(M, N, n)
  BY ColumnsAgree
<1>2. n \in Nat /\ n \in 0..n
  BY AgreeIs
<1> HIDE DEF P, Q, M, N
<1>3. Decisions!Momentum(P, n, c.lookback, c.gap) = Decisions!Momentum(Q, n, c.lookback, c.gap)
  <2>1. n > c.lookback => n - c.gap \in 1..n /\ n - c.lookback \in 1..n
    <3>1. c.lookback \in Nat /\ c.gap \in Nat /\ c.gap <= c.lookback
      BY DEF Causal
    <3> HIDE DEF c
    <3> QED BY <1>2, <3>1
  <2>2. n > c.lookback => P[n - c.gap] = Q[n - c.gap] /\ P[n - c.lookback] = Q[n - c.lookback]
    <3>1. \A m \in 1..n : P[m] = Q[m]
      BY <1>1, AgreeIs
    <3> QED BY <2>1, <3>1
  <2> QED BY <2>2 DEF Decisions!Momentum
<1>4. Decisions!ResidualMomentum(P, n, c) = Decisions!ResidualMomentum(Q, n, c)
  <2>1. n - c.gap \in Int /\ n - c.gap <= n
        /\ n - c.gap - (c.lookback - c.gap) + 1 - c.window \in Int
    BY <1>2 DEF Causal
  <2> QED BY <1>1, <2>1, RowsAgree DEF Decisions!ResidualMomentum
<1>5. Decisions!Composite(P, n, c) = Decisions!Composite(Q, n, c)
  <2>1. /\ n - 1 \in Int /\ n - 1 <= n
        /\ n - 1 - c.window \in Int /\ n - 1 - c.betaWindow \in Int
    BY <1>2 DEF Causal
  <2>2. /\ Decisions!RealizedVolatility(P, n, c) = Decisions!RealizedVolatility(Q, n, c)
        /\ Decisions!Beta(P, n, c) = Decisions!Beta(Q, n, c)
    BY <1>1, <2>1, RowsAgree
    DEF Decisions!RealizedVolatility, Decisions!Beta, Decisions!Returns
  <2> QED BY <2>2 DEF Decisions!Composite
<1>6. Decisions!CrossSectional(P, n, c) = Decisions!CrossSectional(Q, n, c)
  BY <1>1, CrossSectionsAgree
<1>7. Decisions!MacroFeatures(M, n, c) = Decisions!MacroFeatures(N, n, c)
  <2>1. ASSUME NEW k \in Int, k <= n, NEW lag \in Nat
        PROVE  Decisions!Prepared(M, k, lag) = Decisions!Prepared(N, k, lag)
    <3>1. k > lag => k - lag \in 1..n
      BY <1>2, <2>1
    <3>2. k > lag => M[k - lag] = N[k - lag]
      BY <1>1, <3>1, AgreeIs
    <3> QED BY <3>2 DEF Decisions!Prepared
  <2>2. n - c.gap \in Int /\ n - c.gap <= n /\ n \in Int /\ n <= n /\ c.lag \in Nat /\ 0 \in Nat
    BY <1>2 DEF Causal
  <2> QED BY <2>1, <2>2 DEF Decisions!MacroFeatures
<1>8. Decisions!BuildContext(P, n) = Decisions!BuildContext(Q, n)
  BY <1>1, <1>2, ContextsAgree
<1> QED BY <1>3, <1>4, <1>5, <1>6, <1>7, <1>8 DEF Decisions!Factors, P, Q, M, N

(* Strategies: what depends on a context depends on a session before.  The *)
(* models kept from decision to decision are the same function of it.      *)
LEMMA FittedModelsAgree ==
    ASSUME NEW P, NEW Q, NEW D, NEW n \in Nat, NEW c,
           \A k \in 0..n : Decisions!BuildContext(P, k) = Decisions!BuildContext(Q, k)
    PROVE  Decisions!FittedModel(P, D, n, c) = Decisions!FittedModel(Q, D, n, c)
BY Zenon DEF Decisions!FittedModel

LEMMA PoliciesAgree ==
    ASSUME NEW P, NEW Q, NEW D, NEW n \in Nat, NEW c,
           \A k \in 0..n : Decisions!BuildContext(P, k) = Decisions!BuildContext(Q, k)
    PROVE  Decisions!DRL(P, D, n, c) = Decisions!DRL(Q, D, n, c)
<1> DEFINE Fresh(X, after, k) == Decisions!MaybeTrain(after[k - 1], Decisions!BuildContext(X, k), c)
           Held(X, after, k) ==
             IF k = 0 THEN [model |-> NaN, at |-> 0, weights |-> "flat"]
             ELSE IF k \notin D \/ k < 2 THEN after[k - 1]
             ELSE LET held == Fresh(X, after, k)
                  IN  [held EXCEPT !.weights =
                          IF held.model = NaN
                            THEN <<Decisions!BuildContext(X, k)>>
                            ELSE <<Decisions!BuildContext(X, k), held.model, held.weights>>]
           Path(X, after) == [k \in 0..n |-> Held(X, after, k)]
<1>1. ASSUME NEW after, NEW k \in 0..n PROVE Held(P, after, k) = Held(Q, after, k)
  <2>1. Decisions!BuildContext(P, k) = Decisions!BuildContext(Q, k)
    OBVIOUS
  <2> QED BY <2>1
<1>2. /\ Decisions!DRL(P, D, n, c) = (CHOOSE after : after = Path(P, after))[n]
      /\ Decisions!DRL(Q, D, n, c) = (CHOOSE after : after = Path(Q, after))[n]
  BY Zenon DEF Decisions!DRL
<1> HIDE DEF Held
<1>3. ASSUME NEW after PROVE Path(P, after) = Path(Q, after)
  BY <1>1
<1> HIDE DEF Path
<1> QED BY <1>2, <1>3, Zenon

LEMMA HeadlinesAgree ==
    ASSUME NEW P, NEW Q, NEW n, Agree(P, Q, n), NEW c, Causal(c)
    PROVE  Decisions!AggregateDaily(P, n, c) = Decisions!AggregateDaily(Q, n, c)
<1> DEFINE first == Decisions!Max({1, n - c.newsLookback})
<1>1. first \in Int /\ first >= 1
  <2>1. 1 \in Int /\ n - c.newsLookback \in Int
    BY AgreeIs DEF Causal
  <2>2. first = IF 1 >= n - c.newsLookback THEN 1 ELSE n - c.newsLookback
    BY <2>1, MaxOfTwo
  <2> QED BY <2>1, <2>2
<1> HIDE DEF first
<1>2. ASSUME NEW k \in (first..n) \X {"open", "late"} PROVE P[k[1]] = Q[k[1]]
  <2>1. k[1] \in 1..n
    BY <1>1, AgreeIs
  <2> QED BY <2>1, AgreeIs
<1>3. Decisions!AggregateDaily(P, n, c) =
      {k \in (first..n) \X {"open", "late"} :
          k[2] \in Decisions!Deduplicated(P[k[1]]) /\ (k[1] = n => k[2] = "open")}
  BY DEF Decisions!AggregateDaily, first
<1>4. Decisions!AggregateDaily(Q, n, c) =
      {k \in (first..n) \X {"open", "late"} :
          k[2] \in Decisions!Deduplicated(Q[k[1]]) /\ (k[1] = n => k[2] = "open")}
  BY DEF Decisions!AggregateDaily, first
<1> QED BY <1>2, <1>3, <1>4

LEMMA WeightsAgree ==
    ASSUME NEW T, NEW U, NEW n, Agree(T, U, n), Causal(parameters)
    PROVE  Decisions!GenerateWeights(T, n) = Decisions!GenerateWeights(U, n)
<1> DEFINE c == parameters
           P == Decisions!Column(T, "closes")
           Q == Decisions!Column(U, "closes")
           M == Decisions!Column(T, "news")
           N == Decisions!Column(U, "news")
<1>1. Agree(P, Q, n) /\ Agree(M, N, n)
  BY ColumnsAgree
<1>2. n \in Nat /\ n \in 0..n
  BY AgreeIs
<1> HIDE DEF P, Q, M, N
<1>3. \A k \in 0..n : Decisions!BuildContext(P, k) = Decisions!BuildContext(Q, k)
  BY <1>1, ContextsAgree
<1>4. Decisions!BuildContext(P, n) = Decisions!BuildContext(Q, n)
  BY <1>2, <1>3
<1>5. /\ Decisions!MultiAssetRotation(P, n, c) = Decisions!MultiAssetRotation(Q, n, c)
      /\ Decisions!MacroTiming(P, n, c) = Decisions!MacroTiming(Q, n, c)
  BY <1>4 DEF Decisions!MultiAssetRotation, Decisions!MacroTiming
<1>6. Decisions!FittedModel(P, c.decisions, n, c) = Decisions!FittedModel(Q, c.decisions, n, c)
  BY <1>2, <1>3, FittedModelsAgree
<1>7. Decisions!DRL(P, c.decisions, n, c) = Decisions!DRL(Q, c.decisions, n, c)
  BY <1>2, <1>3, PoliciesAgree
<1>8. Decisions!AggregateDaily(M, n, c) = Decisions!AggregateDaily(N, n, c)
  BY <1>1, HeadlinesAgree
<1>9. Decisions!MomentumML(P, c.decisions, n, c) = Decisions!MomentumML(Q, c.decisions, n, c)
  <2>1. Decisions!FeaturePanel(P, n, c) = Decisions!FeaturePanel(Q, n, c)
    <3>1. n - (c.window + c.gap) \in Int /\ n \in Int /\ n <= n
      BY <1>2 DEF Causal
    <3> QED BY <1>1, <3>1, RowsAgree DEF Decisions!FeaturePanel, Decisions!Returns
  <2> QED BY <1>4, <1>6, <2>1 DEF Decisions!MomentumML
<1>10. Decisions!Sentiment(P, M, n, c) = Decisions!Sentiment(Q, N, n, c)
  BY <1>4, <1>8, Zenon DEF Decisions!Sentiment
<1> QED
  BY <1>5, <1>7, <1>9, <1>10, Zenon DEF Decisions!GenerateWeights, P, Q, M, N

(* Features: of valid bars, those of a window.                             *)
ValidPanel(T) == \A n \in DOMAIN T, s \in {1, 2} : Decisions!Alpha!Valid(<<T[n].bars[s]>>)

LEMMA BarsAreValid ==
    ASSUME NEW T, ValidPanel(T), NEW s \in {1, 2}
    PROVE  Decisions!Alpha!Valid(Decisions!Bars(T, s))
<1>1. ASSUME NEW n \in DOMAIN T
      PROVE  LET b == T[n].bars[s]
             IN  /\ Decisions!Alpha!Min({b.open, b.low, b.close}) > 0 /\ b.volume >= 0
                 /\ b.high >= Decisions!Alpha!Max({b.open, b.low, b.close})
                 /\ b.low <= Decisions!Alpha!Min({b.open, b.high, b.close})
  <2> DEFINE b == T[n].bars[s]
  <2>1. b \in Decisions!Alpha!Range(<<b>>)
    BY DEF Decisions!Alpha!Range
  <2>2. Decisions!Alpha!Valid(<<b>>)
    BY DEF ValidPanel
  <2> HIDE DEF b
  <2> QED BY <2>1, <2>2 DEF Decisions!Alpha!Valid, b
<1> QED BY <1>1 DEF Decisions!Alpha!Valid, Decisions!Alpha!Range, Decisions!Bars

LEMMA BarsAgree ==
    ASSUME NEW T, NEW U, NEW n, Agree(T, U, n), NEW s
    PROVE  Agree(Decisions!Bars(T, s), Decisions!Bars(U, s), n)
<1> DEFINE P == Decisions!Bars(T, s)
           Q == Decisions!Bars(U, s)
<1>0. /\ Len(T) \in Nat /\ DOMAIN T = 1..Len(T)
      /\ Len(U) \in Nat /\ DOMAIN U = 1..Len(U)
  BY AgreeIs
<1>1. P \in Seq({P[m] : m \in DOMAIN P}) /\ Len(P) = Len(T)
  BY <1>0 DEF Decisions!Bars
<1>2. Q \in Seq({Q[m] : m \in DOMAIN Q}) /\ Len(Q) = Len(U)
  BY <1>0 DEF Decisions!Bars
<1>3. ASSUME NEW m \in 1..n PROVE P[m] = Q[m]
  <2>1. m \in DOMAIN T /\ m \in DOMAIN U /\ T[m] = U[m]
    BY AgreeIs
  <2> QED BY <2>1 DEF Decisions!Bars
<1> HIDE DEF P, Q
<1> QED BY <1>1, <1>2, <1>3, AgreeIs DEF Agree, P, Q

LEMMA AlphaRowsAgree ==
    ASSUME NEW P, NEW Q, NEW n, Agree(P, Q, n), NEW a \in Int
    PROVE  Decisions!Alpha!Rows(P, a, n) = Decisions!Alpha!Rows(Q, a, n)
<1>1. n \in Int /\ n <= n
  BY AgreeIs
<1>2. Decisions!Rows(P, a, n) = Decisions!Rows(Q, a, n)
  BY <1>1, RowsAgree
<1> QED BY <1>2 DEF Decisions!Alpha!Rows, Decisions!Rows

LEMMA FeaturesAgree ==
    ASSUME NEW T, NEW U, NEW n, Agree(T, U, n), 1 <= n, ValidPanel(T), ValidPanel(U),
           Causal(parameters)
    PROVE  Decisions!Features(T, n) = Decisions!Features(U, n)
<1>1. ASSUME NEW s \in {1, 2}
      PROVE  Decisions!Alpha!Compute(Decisions!Bars(T, s), n, parameters.windows)
             = Decisions!Alpha!Compute(Decisions!Bars(U, s), n, parameters.windows)
  <2> DEFINE P == Decisions!Bars(T, s)
             Q == Decisions!Bars(U, s)
  <2>1. Agree(P, Q, n) /\ Decisions!Alpha!Valid(P) /\ Decisions!Alpha!Valid(Q)
    BY BarsAgree, BarsAreValid
  <2> HIDE DEF P, Q
  <2>2. n \in Int /\ P[n] = Q[n]
    BY <2>1, AgreeIs
  <2>3. ASSUME NEW w \in parameters.windows
        PROVE  Decisions!Alpha!AddRolling(P, n, w) = Decisions!Alpha!AddRolling(Q, n, w)
    <3>1. n - w + 1 \in Int /\ n - w \in Int
      BY <2>2 DEF Causal
    <3>2. /\ Decisions!Alpha!Rows(P, n - w + 1, n) = Decisions!Alpha!Rows(Q, n - w + 1, n)
          /\ Decisions!Alpha!Rows(P, n - w, n) = Decisions!Alpha!Rows(Q, n - w, n)
      BY <2>1, <3>1, AlphaRowsAgree
    <3> QED BY <3>2 DEF Decisions!Alpha!AddRolling
  <2> QED BY <2>1, <2>2, <2>3 DEF Decisions!Alpha!Compute, P, Q
<1> QED BY <1>1 DEF Decisions!Features

(* Portfolios.                                                             *)
LEMMA GrowthAgrees ==
    ASSUME NEW P, NEW Q, NEW n, Agree(P, Q, n), NEW k \in 1..n, NEW m \in 1..n
    PROVE  Decisions!Study!Growth(P, k, m) = Decisions!Study!Growth(Q, k, m)
<1>1. P[k] = Q[k] /\ P[m] = Q[m]
  BY AgreeIs
<1> QED BY <1>1 DEF Decisions!Study!Growth

LEMMA PortfoliosAgree ==
    ASSUME NEW P, NEW Q, NEW n, Agree(P, Q, n), NEW c, Causal(c)
    PROVE  Decisions!Study!Portfolios(P, n, c) = Decisions!Study!Portfolios(Q, n, c)
<1>0. /\ n \in Nat /\ c.lookback \in Nat /\ c.skip \in Nat /\ c.skip <= c.lookback
      /\ c.reversal \in Nat
  BY AgreeIs DEF Causal
<1>1. n > c.lookback => /\ n \in 1..n /\ n - c.lookback \in 1..n /\ n - c.skip \in 1..n
  BY <1>0
<1>2. n > c.reversal => n \in 1..n /\ n - c.reversal \in 1..n
  BY <1>0
<1>3. n > c.lookback =>
        /\ Decisions!Study!Growth(P, n, n - c.lookback)
           = Decisions!Study!Growth(Q, n, n - c.lookback)
        /\ Decisions!Study!Growth(P, n - c.skip, n - c.lookback)
           = Decisions!Study!Growth(Q, n - c.skip, n - c.lookback)
  BY <1>1, GrowthAgrees
<1>4. n > c.reversal =>
        Decisions!Study!Growth(P, n, n - c.reversal)
        = Decisions!Study!Growth(Q, n, n - c.reversal)
  BY <1>2, GrowthAgrees
<1>5. Decisions!Study!TimeSeriesMomentumTargets(P, n, c)
      = Decisions!Study!TimeSeriesMomentumTargets(Q, n, c)
  BY <1>3 DEF Decisions!Study!TimeSeriesMomentumTargets, Decisions!Study!HasHistory
<1>6. Decisions!Study!CrossSectionalMomentumTargets(P, n, c)
      = Decisions!Study!CrossSectionalMomentumTargets(Q, n, c)
  BY <1>3 DEF Decisions!Study!CrossSectionalMomentumTargets, Decisions!Study!HasHistory
<1>7. Decisions!Study!ShortTermReversalTargets(P, n, c)
      = Decisions!Study!ShortTermReversalTargets(Q, n, c)
  BY <1>4 DEF Decisions!Study!ShortTermReversalTargets, Decisions!Study!HasHistory
<1> QED BY <1>5, <1>6, <1>7 DEF Decisions!Study!Portfolios

(* A model learns from the labels that have ended at the decision, however *)
(* many more there are since.                                              *)
LEMMA DatesAgree ==
    ASSUME NEW P, NEW Q, NEW n, Agree(P, Q, n), NEW c, Causal(c), NEW m \in 1..n
    PROVE  m \in Decisions!Study!FeatureDates(P, c) <=> m \in Decisions!Study!FeatureDates(Q, c)
<1> DEFINE Months == <<1, 1, 2, 2, 3, 3, 4>>
           First(X) == {k \in DOMAIN X : 1 <= k /\ k <= Len(X)}
<1>1. /\ m \in Nat /\ m \in First(P) /\ m \in First(Q)
      /\ \A k \in Nat : k < m => (k \in First(P) <=> k \in First(Q))
      /\ First(P) \subseteq Nat /\ First(Q) \subseteq Nat
  BY AgreeIs
<1>2. ASSUME NEW X
      PROVE  Decisions!Study!FeatureDates(X, c) =
             {d \in {k \in First(X) :
                       ~\E j \in First(X) : j < k /\ Months[j] = Months[k]} :
                Decisions!Study!HasHistory(d, c.window)}
  BY DEF Decisions!Study!FeatureDates, Decisions!Study!MonthlyDecisionDates
<1> HIDE DEF First, Months
<1> QED BY <1>1, <1>2

LEMMA DatesAre ==
    ASSUME NEW P, NEW Q, NEW n, Agree(P, Q, n), NEW c, NEW m \in Decisions!Study!FeatureDates(P, c)
    PROVE  m \in Nat /\ 1 <= m /\ m > c.window
<1>1. DOMAIN P \subseteq Nat
  BY AgreeIs
<1> QED BY <1>1
    DEF Decisions!Study!FeatureDates, Decisions!Study!MonthlyDecisionDates,
        Decisions!Study!HasHistory

LEMMA AgreeBoth ==
    ASSUME NEW P, NEW Q, NEW n, Agree(P, Q, n)
    PROVE  Agree(Q, P, n)
BY DEF Agree

LEMMA CandidatesKept ==
    ASSUME NEW P, NEW Q, NEW n, Agree(P, Q, n), NEW c, Causal(c),
           NEW m \in Decisions!Study!Candidates(P, n, c)
    PROVE  m \in Decisions!Study!Candidates(Q, n, c)
<1>1. m \in Decisions!Study!FeatureDates(P, c) /\ m + c.label <= n
  BY DEF Decisions!Study!Candidates, Decisions!Study!LabelDates
<1>2. m \in Nat /\ 1 <= m
  BY <1>1, DatesAre
<1>3. n \in Nat /\ Len(Q) \in Nat /\ n <= Len(Q) /\ c.label \in Nat
  BY AgreeIs DEF Causal
<1>4. m \in 1..n /\ m + c.label <= Len(Q)
  BY <1>1, <1>2, <1>3
<1>5. m \in Decisions!Study!FeatureDates(Q, c)
  BY <1>1, <1>4, DatesAgree
<1> QED BY <1>1, <1>4, <1>5 DEF Decisions!Study!Candidates, Decisions!Study!LabelDates

LEMMA LearnedAgree ==
    ASSUME NEW P, NEW Q, NEW n, Agree(P, Q, n), 1 <= n, NEW c, Causal(c)
    PROVE  Decisions!Study!LearnedTargets(P, n, c) = Decisions!Study!LearnedTargets(Q, n, c)
<1> DEFINE asked == n \in Decisions!Study!FeatureDates(P, c)
           S == Decisions!Study!Latest(Decisions!Study!Candidates(P, n, c), c.maxTrain)
           Example(X, m) == <<Decisions!Study!Features(X, m, c), Decisions!Study!Label(X, m, c)>>
<1>1. Agree(Q, P, n)
  BY AgreeBoth
<1>2. Decisions!Study!Candidates(P, n, c) = Decisions!Study!Candidates(Q, n, c)
  BY <1>1, CandidatesKept
<1>3. n \in Nat /\ n \in 1..n /\ c.window \in Nat /\ c.label \in Nat
  BY AgreeIs DEF Causal
<1>4. asked <=> n \in Decisions!Study!FeatureDates(Q, c)
  BY <1>3, DatesAgree
<1>5. ASSUME NEW m \in 1..n, m > c.window
      PROVE  Decisions!Study!Features(P, m, c) = Decisions!Study!Features(Q, m, c)
  <2> DEFINE first == m - c.window
  <2>1. first \in Int /\ 1 <= first /\ first <= m + 1 /\ m \in Int /\ m <= n
    BY <1>3, <1>5
  <2> HIDE DEF first
  <2>2. SubSeq(P, first, m) = SubSeq(Q, first, m)
    BY ONLY <2>1, Agree(P, Q, n), SubSeqsAgree
  <2> QED BY <2>2 DEF Decisions!Study!Features, first
<1>6. ASSUME NEW m \in S PROVE Example(P, m) = Example(Q, m)
  <2>1. m \in Decisions!Study!FeatureDates(P, c) /\ m + c.label <= n
    BY DEF Decisions!Study!Latest, Decisions!Study!Candidates, Decisions!Study!LabelDates
  <2>2. m \in Nat /\ 1 <= m /\ m > c.window
    BY <2>1, DatesAre
  <2>3. m \in 1..n /\ m + c.label \in 1..n
    BY <1>3, <2>1, <2>2
  <2>4. P[m] = Q[m] /\ P[m + c.label] = Q[m + c.label]
    BY <2>3, AgreeIs
  <2> QED BY <1>5, <2>2, <2>3, <2>4 DEF Decisions!Study!Label
<1>7. {Example(P, m) : m \in S} = {Example(Q, m) : m \in S}
  BY <1>6
<1>8. asked => Decisions!Study!Features(P, n, c) = Decisions!Study!Features(Q, n, c)
  <2>1. asked => n > c.window
    BY DatesAre
  <2> QED BY <1>3, <1>5, <2>1
<1>9. ASSUME NEW X
      PROVE  Decisions!Study!LearnedTargets(X, n, c) =
               IF \/ n \notin Decisions!Study!FeatureDates(X, c)
                  \/ Decisions!Study!Cardinality(
                        Decisions!Study!Latest(
                            Decisions!Study!Candidates(X, n, c), c.maxTrain)) < c.minMonths
                 THEN Raised
                 ELSE [train |-> {Example(X, m) :
                                    m \in Decisions!Study!Latest(
                                            Decisions!Study!Candidates(X, n, c), c.maxTrain)},
                       current |-> Decisions!Study!Features(X, n, c)]
  BY Zenon DEF Decisions!Study!LearnedTargets
<1> HIDE DEF Example
<1> QED BY <1>2, <1>4, <1>7, <1>8, <1>9, Zenon

(* Reports: a payoff that has been paid is that of the sessions it took.   *)
LEMMA PayoffsAgree ==
    ASSUME NEW P, NEW Q, NEW n, Agree(P, Q, n), 1 <= n,
           NEW lag \in Nat, NEW m \in Nat, m + lag <= n,
           \A k \in DOMAIN P : DOMAIN P[k] = {1, 2}, \A k \in DOMAIN Q : DOMAIN Q[k] = {1, 2}
    PROVE  Decisions!Judged!Payoff(P, m, lag) = Decisions!Judged!Payoff(Q, m, lag)
<1> DEFINE Product(f) ==
             Decisions!Judged!FoldFunction(LAMBDA a, b : Decisions!Judged!\otimes(a, b),
                                           Decisions!Judged!One, f)
           Row(X, s) == [k \in DOMAIN X |-> X[k][s]]
           Compound(R) ==
             IF m + lag < lag \/ \E k \in (m + lag) - lag + 1..m + lag : R[k] = NaN THEN NaN
             ELSE Product([k \in (m + lag) - lag + 1..m + lag |-> R[k]])
<1>1. ASSUME NEW R PROVE Decisions!Judged!Compounded(R, m + lag, lag) = Compound(R)
  BY Zenon DEF Decisions!Judged!Compounded
<1> HIDE DEF Product
<1>2. ASSUME NEW s
      PROVE  /\ Len(Row(P, s)) = Len(P) /\ Len(Row(Q, s)) = Len(Q)
             /\ \A k \in (m + lag) - lag + 1..m + lag : Row(P, s)[k] = Row(Q, s)[k]
  <2>1. Len(Row(P, s)) = Len(P) /\ Len(Row(Q, s)) = Len(Q)
    BY DEF Agree
  <2>2. ASSUME NEW k \in (m + lag) - lag + 1..m + lag PROVE Row(P, s)[k] = Row(Q, s)[k]
    <3>1. k \in 1..n
      BY AgreeIs
    <3> QED BY <3>1, AgreeIs
  <2> QED BY <2>1, <2>2
<1> HIDE DEF Row
<1>3. ASSUME NEW s
      PROVE  Decisions!Judged!ForwardReturn(Row(P, s), m, lag)
             = Decisions!Judged!ForwardReturn(Row(Q, s), m, lag)
  <2>1. Compound(Row(P, s)) = Compound(Row(Q, s))
    BY <1>2
  <2>2. ~(m + lag > Len(P)) /\ ~(m + lag > Len(Q))
    BY AgreeIs
  <2> HIDE DEF Compound
  <2> QED BY <1>1, <1>2, <2>1, <2>2 DEF Decisions!Judged!ForwardReturn
<1>4. DOMAIN P[1] = {1, 2} /\ DOMAIN Q[1] = {1, 2}
  BY AgreeIs
<1> QED BY <1>3, <1>4 DEF Decisions!Judged!Payoff, Row

LEMMA EvidenceAgrees ==
    ASSUME NEW T, NEW U, NEW n, Agree(T, U, n), 1 <= n, Causal(parameters)
    PROVE  Decisions!Evidence(T, n) = Decisions!Evidence(U, n)
<1> DEFINE lag == parameters.lag
           P == Decisions!Column(T, "closes")
           Q == Decisions!Column(U, "closes")
           G == Decisions!Gains(P)
           H == Decisions!Gains(Q)
           V == Decisions!Values(P)
           W == Decisions!Values(Q)
<1>1. Agree(P, Q, n)
  BY ColumnsAgree
<1>2. lag \in Nat /\ n \in Nat
  BY AgreeIs DEF Causal
<1> HIDE DEF P, Q, lag
<1>3. /\ Len(P) \in Nat /\ DOMAIN P = 1..Len(P) /\ Len(Q) \in Nat /\ DOMAIN Q = 1..Len(Q)
      /\ n <= Len(P) /\ n <= Len(Q) /\ \A m \in 1..n : P[m] = Q[m]
  BY <1>1, AgreeIs
<1>4. Agree(G, H, n)
  <2>1. G \in Seq({G[m] : m \in DOMAIN G}) /\ Len(G) = Len(P)
    BY <1>3 DEF Decisions!Gains
  <2>2. H \in Seq({H[m] : m \in DOMAIN H}) /\ Len(H) = Len(Q)
    BY <1>3 DEF Decisions!Gains
  <2>3. ASSUME NEW m \in 1..n PROVE G[m] = H[m]
    <3>1. P[m] = Q[m] /\ m \in DOMAIN P /\ m \in DOMAIN Q
      BY <1>2, <1>3
    <3>2. m # 1 => P[m - 1] = Q[m - 1]
      BY <1>2, <1>3
    <3> QED BY <3>1, <3>2 DEF Decisions!Gains
  <2> HIDE DEF G, H
  <2> QED BY <1>2, <1>3, <2>1, <2>2, <2>3 DEF Agree
<1>5. Agree(V, W, n)
  <2>1. V \in Seq({V[m] : m \in DOMAIN V}) /\ Len(V) = Len(P)
    BY <1>3 DEF Decisions!Values
  <2>2. W \in Seq({W[m] : m \in DOMAIN W}) /\ Len(W) = Len(Q)
    BY <1>3 DEF Decisions!Values
  <2>3. ASSUME NEW m \in 1..n PROVE V[m] = W[m]
    <3>1. P[m] = Q[m] /\ m \in DOMAIN P /\ m \in DOMAIN Q
      BY <1>2, <1>3
    <3> QED BY <3>1 DEF Decisions!Values
  <2> HIDE DEF V, W
  <2> QED BY <1>2, <1>3, <2>1, <2>2, <2>3 DEF Agree
<1>6. (\A k \in DOMAIN G : DOMAIN G[k] = {1, 2}) /\ (\A k \in DOMAIN H : DOMAIN H[k] = {1, 2})
  BY DEF Decisions!Gains
<1> HIDE DEF G, H, V, W
<1>7. ASSUME NEW m \in 1..n - lag
      PROVE  Decisions!Judged!Payoff(G, m, lag) = Decisions!Judged!Payoff(H, m, lag)
  <2>1. m \in Nat /\ m + lag <= n
    BY <1>2
  <2> QED BY ONLY <1>2, <1>4, <1>6, <2>1, 1 <= n, PayoffsAgree
<1>8. [m \in 1..n - lag |-> Decisions!Judged!Payoff(G, m, lag)]
      = [m \in 1..n - lag |-> Decisions!Judged!Payoff(H, m, lag)]
  BY <1>7
<1>9. SubSeq(V, 1, n - lag) = SubSeq(W, 1, n - lag)
  <2> DEFINE last == n - lag
  <2>1. last \in Int /\ last <= n
    BY <1>2
  <2> HIDE DEF last
  <2>2. SubSeq(V, 1, last) = SubSeq(W, 1, last)
    BY ONLY <1>5, <2>1, StartsAgree
  <2> QED BY <2>2 DEF last
<1> QED BY <1>8, <1>9, Zenon DEF Decisions!Evidence, P, Q, G, H, V, W, lag

(* The parts of an answer that are proved not to depend on what follows,   *)
(* and two answers that are equal in them.                                 *)
Lasting == {"features", "evidence", "portfolios", "learned", "factors", "strategies"}

Kept(before, after) == \A part \in Lasting : before[part] = after[part]

LEMMA AnswersAgree ==
    ASSUME NEW T, NEW U, NEW n, Agree(T, U, n), 1 <= n, ValidPanel(T), ValidPanel(U),
           Causal(parameters)
    PROVE  Kept(Decisions!Answer(T, n), Decisions!Answer(U, n))
<1> DEFINE P == Decisions!Column(T, "closes")
           Q == Decisions!Column(U, "closes")
<1>1. Agree(P, Q, n)
  BY ColumnsAgree
<1> HIDE DEF P, Q
<1>2. /\ Decisions!Study!Portfolios(P, n, parameters)
         = Decisions!Study!Portfolios(Q, n, parameters)
      /\ Decisions!Study!LearnedTargets(P, n, parameters)
         = Decisions!Study!LearnedTargets(Q, n, parameters)
  BY <1>1, PortfoliosAgree, LearnedAgree
<1>3. /\ Decisions!Features(T, n) = Decisions!Features(U, n)
      /\ Decisions!Evidence(T, n) = Decisions!Evidence(U, n)
      /\ Decisions!Factors(T, n) = Decisions!Factors(U, n)
      /\ Decisions!GenerateWeights(T, n) = Decisions!GenerateWeights(U, n)
  BY FeaturesAgree, EvidenceAgrees, FactorsAgree, WeightsAgree
<1> QED BY <1>2, <1>3 DEF Kept, Lasting, Decisions!Answer, P, Q

LEMMA AnswerIsRigid ==
    ASSUME NEW CONSTANT T, NEW CONSTANT n, parameters' = parameters
    PROVE  Kept(Decisions!Answer(T, n), Decisions!Answer(T, n)')
<1>1. Decisions!Features(T, n)' = Decisions!Features(T, n)
  BY DEF Decisions!Features
<1>2. Decisions!Evidence(T, n)' = Decisions!Evidence(T, n)
  BY Zenon DEF Decisions!Evidence
<1>3. Decisions!Factors(T, n)' = Decisions!Factors(T, n)
  BY Zenon DEF Decisions!Factors
<1>4. Decisions!GenerateWeights(T, n)' = Decisions!GenerateWeights(T, n)
  BY Zenon DEF Decisions!GenerateWeights
<1> DEFINE p == Decisions!Study!Portfolios(Decisions!Column(T, "closes"), n, parameters)
           l == Decisions!Study!LearnedTargets(Decisions!Column(T, "closes"), n, parameters)
<1>5. p' = p /\ l' = l
  OBVIOUS
<1>6. /\ Decisions!Answer(T, n).features = Decisions!Features(T, n)
      /\ Decisions!Answer(T, n).evidence = Decisions!Evidence(T, n)
      /\ Decisions!Answer(T, n).factors = Decisions!Factors(T, n)
      /\ Decisions!Answer(T, n).strategies = Decisions!GenerateWeights(T, n)
      /\ Decisions!Answer(T, n).portfolios = p
      /\ Decisions!Answer(T, n).learned = l
  BY DEF Decisions!Answer
<1>7. /\ Decisions!Answer(T, n)'.features = Decisions!Features(T, n)'
      /\ Decisions!Answer(T, n)'.evidence = Decisions!Evidence(T, n)'
      /\ Decisions!Answer(T, n)'.factors = Decisions!Factors(T, n)'
      /\ Decisions!Answer(T, n)'.strategies = Decisions!GenerateWeights(T, n)'
      /\ Decisions!Answer(T, n)'.portfolios = p'
      /\ Decisions!Answer(T, n)'.learned = l'
  BY DEF Decisions!Answer
<1> QED BY <1>1, <1>2, <1>3, <1>4, <1>5, <1>6, <1>7 DEF Kept, Lasting

(* The bars of the runs are bars that the code accepts.                    *)
LEMMA ExtremesOfThree ==
    ASSUME NEW a \in Int, NEW b \in Int, NEW c \in Int
    PROVE  Decisions!Min({a, b, c}) \in {a, b, c} /\ Decisions!Max({a, b, c}) \in {a, b, c}
<1> DEFINE S == {a, b, c}
<1>1. S \in SUBSET Int
  OBVIOUS
<1>2. \E m \in S : \A x \in S : m <= x
  <2>1. CASE a <= b /\ a <= c
    BY <2>1
  <2>2. CASE b <= a /\ b <= c
    BY <2>2
  <2>3. CASE c <= a /\ c <= b
    BY <2>3
  <2> QED BY <2>1, <2>2, <2>3
<1>3. \E m \in S : \A x \in S : x <= m
  <2>1. CASE a >= b /\ a >= c
    BY <2>1
  <2>2. CASE b >= a /\ b >= c
    BY <2>2
  <2>3. CASE c >= a /\ c >= b
    BY <2>3
  <2> QED BY <2>1, <2>2, <2>3
<1> HIDE DEF S
<1>4. Decisions!Min(S) \in S
  BY <1>1, <1>2, LeastIs
<1>5. Decisions!Max(S) \in S
  BY <1>1, <1>3, GreatestIs
<1> QED BY <1>4, <1>5 DEF S

LEMMA BarIsValid ==
    ASSUME NEW open \in Nat \ {0}, NEW high \in Nat \ {0}, NEW low \in Nat \ {0},
           NEW close \in Nat \ {0}, NEW volume \in Nat,
           low <= open, low <= close, open <= high, close <= high
    PROVE  Decisions!Alpha!Valid(<<Bar(open, high, low, close, volume)>>)
<1> DEFINE b == Bar(open, high, low, close, volume)
<1>1. Decisions!Alpha!Range(<<b>>) = {b}
  BY DEF Decisions!Alpha!Range
<1>2. /\ Decisions!Min({open, low, close}) \in {open, low, close}
      /\ Decisions!Max({open, low, close}) \in {open, low, close}
      /\ Decisions!Min({open, high, close}) \in {open, high, close}
  BY ExtremesOfThree
<1>3. /\ Decisions!Alpha!Min({open, low, close}) = Decisions!Min({open, low, close})
      /\ Decisions!Alpha!Max({open, low, close}) = Decisions!Max({open, low, close})
      /\ Decisions!Alpha!Min({open, high, close}) = Decisions!Min({open, high, close})
  BY DEF Decisions!Alpha!Min, Decisions!Min, Decisions!Alpha!Max, Decisions!Max
<1>4. /\ Decisions!Alpha!Min({open, low, close}) > 0
      /\ high >= Decisions!Alpha!Max({open, low, close})
      /\ low <= Decisions!Alpha!Min({open, high, close})
  BY <1>2, <1>3
<1>5. b.open = open /\ b.high = high /\ b.low = low /\ b.close = close /\ b.volume = volume
  BY DEF Bar
<1> HIDE DEF b
<1> QED BY <1>1, <1>4, <1>5 DEF Decisions!Alpha!Valid, b

LEMMA SessionsAreValid ==
    ASSUME Decisions!Close
    PROVE  \E s : /\ sessions' = Append(sessions, s)
                  /\ \A k \in {1, 2} : Decisions!Alpha!Valid(<<s.bars[k]>>)
<1>1. /\ Decisions!Alpha!Valid(<<Bar(1, 1, 1, 1, 0)>>)
      /\ Decisions!Alpha!Valid(<<Bar(2, 3, 1, 1, 1)>>)
      /\ Decisions!Alpha!Valid(<<Bar(1, 2, 1, 2, 2)>>)
      /\ Decisions!Alpha!Valid(<<Bar(1, 2, 1, 1, 1)>>)
      /\ Decisions!Alpha!Valid(<<Bar(2, 2, 1, 2, 3)>>)
  BY BarIsValid
<1>2. PICK s : /\ sessions' = Append(sessions, s)
               /\ s.bars \in {<<Bar(1, 1, 1, 1, 0), Bar(2, 3, 1, 1, 1)>>,
                              <<Bar(1, 2, 1, 2, 2), Bar(1, 2, 1, 1, 1)>>,
                              <<Bar(2, 3, 1, 1, 1), Bar(2, 2, 1, 2, 3)>>}
  BY DEF Decisions!Close
<1>3. \A k \in {1, 2} : s.bars[k] \in {Bar(1, 1, 1, 1, 0), Bar(2, 3, 1, 1, 1), Bar(1, 2, 1, 2, 2),
                                       Bar(1, 2, 1, 1, 1), Bar(2, 2, 1, 2, 3)}
  BY <1>2
<1>4. \A k \in {1, 2} : Decisions!Alpha!Valid(<<s.bars[k]>>)
  BY <1>1, <1>3
<1> QED BY <1>2, <1>4

LEMMA AppendIs ==
    ASSUME NEW S, S \in Seq({S[m] : m \in DOMAIN S}), NEW e, NEW R, R = Append(S, e)
    PROVE  /\ R \in Seq({R[m] : m \in DOMAIN R}) /\ Len(R) = Len(S) + 1
           /\ DOMAIN R = 1..Len(S) + 1 /\ \A m \in 1..Len(S) : R[m] = S[m]
           /\ R[Len(S) + 1] = e
<1>1. R \in Seq({S[m] : m \in DOMAIN S} \cup {e}) /\ Len(R) = Len(S) + 1 /\ Len(S) \in Nat
  OBVIOUS
<1>2. DOMAIN R = 1..Len(S) + 1 /\ \A m \in 1..Len(S) : R[m] = S[m]
  OBVIOUS
<1>3. R[Len(S) + 1] = e
  OBVIOUS
<1>4. R \in Seq({R[m] : m \in DOMAIN R})
  <2> DEFINE Y == {R[m] : m \in DOMAIN R}
  <2>1. R \in Seq({S[m] : m \in DOMAIN S} \cup {e}) /\ \A m \in 1..Len(R) : R[m] \in Y
    BY <1>1, <1>2
  <2> HIDE DEF Y
  <2> QED BY ONLY <2>1
<1> QED BY <1>1, <1>2, <1>3, <1>4

(* A row is decided for each session that has closed; bars are valid.      *)
ForesightInv ==
    /\ sessions \in Seq({sessions[m] : m \in DOMAIN sessions})
    /\ decided \in Seq({decided[m] : m \in DOMAIN decided})
    /\ Len(decided) = Len(sessions)
    /\ ValidPanel(sessions) /\ Causal(parameters)

(* What was decided when a session closed is what a panel of all sessions  *)
(* so far says of it.                                                      *)
AnswersStand == \A n \in DOMAIN decided : Kept(decided[n], Decisions!Answer(sessions, n))

LEMMA ForesightStarts == ResearchInit => ForesightInv /\ AnswersStand
<1> SUFFICES ASSUME ResearchInit PROVE ForesightInv /\ AnswersStand
  OBVIOUS
<1>1. sessions = <<>> /\ decided = <<>>
  BY DEF ResearchInit, Decisions!Init
<1>2. /\ parameters.lookback = 2 /\ parameters.skip = 1 /\ parameters.reversal = 1
      /\ parameters.window = 2 /\ parameters.betaWindow = 1 /\ parameters.purge = 1
      /\ parameters.lag = 1 /\ parameters.newsLookback = 2 /\ parameters.trainWindow = 4
      /\ parameters.windows = {2, 3}
      /\ \E gap \in {0, 1} : /\ parameters.gap = gap /\ parameters.horizon = 1 + gap
                             /\ parameters.label = 1 + 2 * gap
  BY DEF ResearchInit, Decisions!Init
<1>3. Causal(parameters)
  BY <1>2 DEF Causal
<1> QED BY <1>1, <1>3 DEF ForesightInv, AnswersStand, ValidPanel

LEMMA CloseStands ==
    ASSUME ForesightInv, AnswersStand, Decisions!Close
    PROVE  ForesightInv' /\ AnswersStand'
<1>1. PICK s : /\ sessions' = Append(sessions, s)
               /\ \A k \in {1, 2} : Decisions!Alpha!Valid(<<s.bars[k]>>)
  BY SessionsAreValid
<1> DEFINE T == sessions
           n == Len(sessions)
<1>2. PICK U : U = sessions'
  OBVIOUS
<1>3. /\ n \in Nat /\ DOMAIN T = 1..n /\ DOMAIN decided = 1..n /\ Len(decided) = n
      /\ T \in Seq({T[m] : m \in DOMAIN T}) /\ decided \in Seq({decided[m] : m \in DOMAIN decided})
      /\ Causal(parameters) /\ ValidPanel(T)
  BY DEF ForesightInv
<1>4. /\ U \in Seq({U[m] : m \in DOMAIN U}) /\ Len(U) = n + 1 /\ DOMAIN U = 1..n + 1
      /\ \A m \in 1..n : U[m] = T[m]
      /\ U[n + 1] = s
  <2>1. U = Append(T, s)
    BY <1>1, <1>2
  <2> QED BY ONLY <1>3, <2>1, AppendIs
<1>5. Agree(T, U, n)
  BY <1>3, <1>4 DEF Agree
<1>6. ValidPanel(U)
  <2>1. ASSUME NEW m \in 1..n + 1, NEW k \in {1, 2} PROVE Decisions!Alpha!Valid(<<U[m].bars[k]>>)
    <3>1. CASE m \in 1..n
      BY <1>3, <1>4, <3>1 DEF ValidPanel
    <3>2. CASE m = n + 1
      BY <1>1, <1>4, <3>2
    <3> QED BY <1>3, <3>1, <3>2
  <2> QED BY <1>4, <2>1 DEF ValidPanel
<1>7. parameters' = parameters /\ decided' = Append(decided, Decisions!Answer(U, n + 1))
  BY <1>2, <1>4 DEF Decisions!Close
<1>8. /\ decided' \in Seq({decided'[m] : m \in DOMAIN decided'})
      /\ Len(decided') = n + 1 /\ DOMAIN decided' = 1..n + 1
      /\ \A m \in 1..n : decided'[m] = decided[m]
      /\ decided'[n + 1] = Decisions!Answer(U, n + 1)
  <2> DEFINE e == Decisions!Answer(U, n + 1)
             D == decided
             E == decided'
  <2>1. E = Append(D, e) /\ n = Len(D) /\ D \in Seq({D[m] : m \in DOMAIN D})
    BY <1>3, <1>7
  <2> HIDE DEF e, D, E
  <2>2. /\ E \in Seq({E[m] : m \in DOMAIN E}) /\ Len(E) = Len(D) + 1
        /\ DOMAIN E = 1..Len(D) + 1 /\ \A m \in 1..Len(D) : E[m] = D[m]
        /\ E[Len(D) + 1] = e
    BY ONLY <2>1, AppendIs
  <2> QED BY <2>1, <2>2 DEF e, D, E
<1>9. ASSUME NEW m \in 1..n + 1 PROVE Kept(decided'[m], Decisions!Answer(U, m))
  <2>1. CASE m = n + 1
    BY <1>8, <2>1 DEF Kept
  <2>2. CASE m \in 1..n
    <3>1. Agree(T, U, m) /\ 1 <= m
      BY <1>3, <1>5, <2>2, EarlierAgree
    <3>2. Kept(Decisions!Answer(T, m), Decisions!Answer(U, m))
      BY <1>3, <1>6, <3>1, AnswersAgree
    <3>3. Kept(decided[m], Decisions!Answer(T, m))
      BY <1>3, <2>2 DEF AnswersStand
    <3> QED BY <1>8, <2>2, <3>2, <3>3 DEF Kept
  <2> QED BY <1>3, <2>1, <2>2
<1>10. ForesightInv'
  <2>1. Causal(parameters)'
    BY <1>3, <1>7 DEF Causal
  <2>2. ValidPanel(sessions')
    BY <1>2, <1>6
  <2> QED BY <1>2, <1>4, <1>8, <2>1, <2>2 DEF ForesightInv, ValidPanel
<1>11. AnswersStand'
  <2> SUFFICES ASSUME NEW m \in DOMAIN decided'
               PROVE  Kept(decided'[m], Decisions!Answer(sessions, m)')
    BY DEF AnswersStand, Kept
  <2>1. Kept(decided'[m], Decisions!Answer(U, m))
    BY <1>8, <1>9
  <2>2. Kept(Decisions!Answer(U, m), Decisions!Answer(U, m)')
    BY <1>7, AnswerIsRigid
  <2>3. Decisions!Answer(U, m)' = Decisions!Answer(sessions, m)'
    BY <1>2
  <2> QED BY <2>1, <2>2, <2>3 DEF Kept
<1> QED BY <1>10, <1>11

LEMMA ForesightHolds == ResearchSpec => [](ForesightInv /\ AnswersStand)
<1>1. ResearchInit => ForesightInv /\ AnswersStand
  BY ForesightStarts
<1>2. ForesightInv /\ AnswersStand /\ [ResearchNext]_researchVars => ForesightInv' /\ AnswersStand'
  <2> SUFFICES ASSUME ForesightInv, AnswersStand, [ResearchNext]_researchVars
               PROVE  ForesightInv' /\ AnswersStand'
    OBVIOUS
  <2>1. CASE UNCHANGED decisions
    <3>1. sessions' = sessions /\ parameters' = parameters /\ decided' = decided
      BY <2>1 DEF decisions
    <3>2. ForesightInv'
      BY <3>1 DEF ForesightInv, ValidPanel, Causal
    <3>3. ASSUME NEW m \in DOMAIN decided PROVE Kept(decided[m], Decisions!Answer(sessions, m)')
      <4>1. PICK U : U = sessions
        OBVIOUS
      <4>2. Kept(Decisions!Answer(U, m), Decisions!Answer(U, m)')
        BY <3>1, AnswerIsRigid
      <4>3. Decisions!Answer(U, m)' = Decisions!Answer(sessions, m)'
        BY <3>1, <4>1
      <4> QED BY <4>1, <4>2, <4>3 DEF Kept, AnswersStand
    <3> QED BY <3>1, <3>2, <3>3 DEF AnswersStand, Kept
  <2>2. CASE Decisions!Next
    BY <2>2, CloseStands DEF Decisions!Next
  <2> QED BY <2>1, <2>2 DEF ResearchNext, researchVars
<1> QED BY <1>1, <1>2, PTL DEF ResearchSpec, researchVars

(* Whatever sessions follow, in panels of any sessions, the factors,       *)
(* features, reports, trained models, portfolios and strategies of a       *)
(* longer panel say of a session what was decided when it closed: the      *)
(* answers of NothingForeseen (Decisions), but the studies.                *)
THEOREM DecisionsAreFinal == ResearchSpec => []AnswersStand
BY ForesightHolds, PTL

(* Folds that walk forward, of any lengths.                                *)
ProperFolds(w) ==
    /\ w.train \in Nat \ {0} /\ w.test \in Nat \ {0} /\ w.gap \in Nat /\ w.label \in Nat
    /\ w.mode \in {"expanding", "rolling"}

LEMMA BlocksFollow ==
    ASSUME NEW j \in Int, NEW k \in Int, j < k, NEW t \in Nat \ {0}
    PROVE  j * t + t <= k * t
OBVIOUS

LEMMA BlockOf ==
    ASSUME NEW d \in Nat, NEW t \in Nat \ {0}
    PROVE  \E i \in Nat : i * t <= d /\ d < i * t + t
<1>1. d \div t \in Nat /\ (d \div t) * t <= d /\ d < (d \div t) * t + t
  OBVIOUS
<1> QED BY <1>1

LEMMA FoldsFit ==
    ASSUME NEW n \in Nat, NEW w, ProperFolds(w)
    PROVE  Decisions!Judged!FoldsApart(n, w)
<1> DEFINE a == w.train
           t == w.test
           g == w.gap
           h == w.label
           F(k) == Decisions!Judged!Fold(k, w)
           Times(k) == k * t
           First(k) == a + Times(k) + g
           Trains(k) == IF w.mode = "expanding" THEN h + 1 <= a + Times(k) ELSE h + 1 <= a
           K == {k \in 0..n : Trains(k) /\ First(k) + t - 1 < n}
           folds == Decisions!Judged!Split(n, w)
           tested == UNION {fold.test : fold \in folds}
<1>1. /\ a \in Nat \ {0} /\ t \in Nat \ {0} /\ g \in Nat /\ h \in Nat
      /\ w.mode \in {"expanding", "rolling"}
  BY DEF ProperFolds
<1>2. ASSUME NEW k \in Nat
      PROVE  /\ Times(k) \in Nat /\ First(k) \in Nat
             /\ F(k).train = (IF w.mode = "expanding" THEN 0 ELSE Times(k))..a + Times(k) - h - 1
             /\ F(k).test = First(k)..First(k) + t - 1
  <2> DEFINE e == Times(k)
             u == a + e
  <2>1. e \in Nat /\ u \in Nat
    BY <1>1
  <2>2. /\ F(k).train = (IF w.mode = "expanding" THEN 0 ELSE u - a)..u - h - 1
        /\ F(k).test = u + g..u + g + t - 1
    BY Zenon DEF Decisions!Judged!Fold
  <2> HIDE DEF e, a, t, g, h, F
  <2>3. u - a = e /\ u - h - 1 = a + e - h - 1 /\ u + g = a + e + g
    BY <1>1, <2>1
  <2> QED BY <1>1, <2>1, <2>2, <2>3 DEF e
<1> HIDE DEF a, t, g, h, F, Times
<1>3. ASSUME NEW k \in Nat
      PROVE  /\ F(k).train # {} <=> Trains(k)
             /\ Decisions!Judged!Max(F(k).test) = First(k) + t - 1
  <2>1. F(k).train # {} <=> Trains(k)
    <3> DEFINE e == Times(k)
    <3>1. e \in Nat /\ F(k).train = (IF w.mode = "expanding" THEN 0 ELSE e)..a + e - h - 1
      BY <1>2
    <3>2. Trains(k) <=> IF w.mode = "expanding" THEN h + 1 <= a + e ELSE h + 1 <= a
      OBVIOUS
    <3> HIDE DEF e, Trains
    <3>3. CASE w.mode = "expanding"
      <4>1. F(k).train = 0..a + e - h - 1
        BY <3>1, <3>3
      <4>2. h + 1 <= a + e <=> 0 <= a + e - h - 1
        BY <1>1, <3>1
      <4>3. a + e - h - 1 \in Int
        BY <1>1, <3>1
      <4> QED BY <3>2, <3>3, <4>1, <4>2, <4>3
    <3>4. CASE w.mode # "expanding"
      <4>1. F(k).train = e..a + e - h - 1
        BY <3>1, <3>4
      <4>2. h + 1 <= a <=> e <= a + e - h - 1
        BY <1>1, <3>1
      <4>3. a + e - h - 1 \in Int
        BY <1>1, <3>1
      <4> QED BY <3>1, <3>2, <3>4, <4>1, <4>2, <4>3
    <3> QED BY <3>3, <3>4
  <2>2. Decisions!Judged!Max(F(k).test) = First(k) + t - 1
    <3> DEFINE S == First(k)..First(k) + t - 1
               m == First(k) + t - 1
    <3>1. S \in SUBSET Int /\ m \in S /\ \A x \in S : x <= m
      <4>1. First(k) \in Nat
        BY <1>2
      <4> HIDE DEF First
      <4> QED BY <1>1, <4>1
    <3> HIDE DEF S, m
    <3>2. Decisions!Max(S) = m
      BY <3>1, GreatestIs
    <3>3. Decisions!Judged!Max(S) = Decisions!Max(S)
      BY Zenon DEF Decisions!Judged!Max, Decisions!Max
    <3> QED BY <1>2, <3>2, <3>3 DEF S, m
  <2> QED BY <2>1, <2>2
<1>4. folds = {F(k) : k \in K}
  <2>1. folds = {fold \in {F(k) : k \in 0..n} :
                    fold.train # {} /\ Decisions!Judged!Max(fold.test) < n}
    BY Zenon DEF Decisions!Judged!Split, F
  <2>2. ASSUME NEW k \in 0..n
        PROVE  F(k).train # {} /\ Decisions!Judged!Max(F(k).test) < n <=> k \in K
    <3>1. k \in Nat
      OBVIOUS
    <3>2. (F(k).train # {} <=> Trains(k)) /\ Decisions!Judged!Max(F(k).test) = First(k) + t - 1
      BY <1>3, <3>1
    <3> HIDE DEF Trains, First
    <3> QED BY <3>2
  <2>3. K \subseteq 0..n
    OBVIOUS
  <2> HIDE DEF folds, K
  <2> QED BY <2>1, <2>2, <2>3
<1>5. ASSUME NEW j \in Nat, NEW k \in Nat, j < k PROVE First(j) + t <= First(k)
  <2>1. Times(j) + t <= Times(k)
    BY <1>1, <1>5, BlocksFollow DEF Times
  <2>2. Times(j) \in Nat /\ Times(k) \in Nat
    BY <1>2
  <2> DEFINE x == Times(j)
             y == Times(k)
  <2>3. a + x + g + t <= a + y + g
    <3> HIDE DEF x, y
    <3> QED BY <1>1, <2>1, <2>2 DEF x, y
  <2> QED BY <2>3
<1>6. ASSUME NEW k \in Nat, NEW m \in F(k).train, NEW d \in F(k).test PROVE m + h + g < d
  <2> DEFINE e == Times(k)
             z == a + e + g
  <2>1. /\ e \in Nat /\ z \in Nat /\ F(k).test = z..z + t - 1
        /\ F(k).train = (IF w.mode = "expanding" THEN 0 ELSE e)..a + e - h - 1
    BY <1>2
  <2> HIDE DEF e
  <2>2. a + e - h - 1 \in Int /\ z + t - 1 \in Int
    BY <1>1, <2>1
  <2>3. m \in Int /\ m <= a + e - h - 1
    BY <1>1, <2>1, <2>2
  <2>4. d \in Int /\ z <= d
    <3> HIDE DEF z
    <3> QED BY <2>1, <2>2
  <2> QED BY <1>1, <2>1, <2>3, <2>4
<1>7. \A fold \in folds : \A m \in fold.train, d \in fold.test : m + w.label + w.gap < d
  <2> SUFFICES ASSUME NEW fold \in folds, NEW m \in fold.train, NEW d \in fold.test
               PROVE  m + h + g < d
    BY DEF h, g
  <2>1. PICK k \in K : fold = F(k)
    BY <1>4
  <2> QED BY <1>6, <2>1
<1>8. CASE K = {}
  <2>1. folds = {} /\ tested = {}
    BY <1>4, <1>8
  <2>2. Decisions!Judged!Cardinality({}) = 0
    BY FS_EmptySet, Zenon DEF Decisions!Judged!Cardinality, Cardinality
  <2>3. Decisions!Judged!Cardinality(tested) = t * Decisions!Judged!Cardinality(folds)
    <3> HIDE DEF tested, folds
    <3> QED BY <1>1, <2>1, <2>2
  <2> HIDE DEF tested, folds
  <2> QED BY <1>7, <2>1, <2>3 DEF Decisions!Judged!FoldsApart, tested, folds, t
<1>9. CASE K # {}
  <2>1. PICK b \in K : \A k \in K : b <= k
    <3>1. K \in SUBSET Nat
      OBVIOUS
    <3> HIDE DEF K
    <3> QED BY <1>9, <3>1, MinExists
  <2>2. PICK z \in K : \A k \in K : k <= z
    <3> DEFINE L == {x \in 0..n : n - x \in K}
    <3>1. L \in SUBSET Nat
      OBVIOUS
    <3>2. n - b \in L
      BY <2>1
    <3> HIDE DEF L
    <3>3. PICK x \in L : \A y \in L : x <= y
      BY <3>1, <3>2, MinExists
    <3>4. x \in 0..n /\ n - x \in K
      BY <3>3 DEF L
    <3>5. ASSUME NEW k \in K PROVE k <= n - x
      <4>1. n - k \in L /\ k \in 0..n
        BY DEF L
      <4>2. x <= n - k
        BY <3>3, <4>1
      <4> QED BY <3>4, <4>1, <4>2
    <3> QED BY <3>4, <3>5
  <2>3. b \in Nat /\ z \in Nat /\ b <= z /\ z <= n
    BY <2>1, <2>2
  <2>4. K = b..z
    <3>1. ASSUME NEW k \in b..z PROVE k \in K
      <4>1. k \in 0..n /\ k \in Nat
        BY <2>3
      <4>2. First(b) <= First(k) /\ First(k) <= First(z)
        <5>1. b = k \/ First(b) + t <= First(k)
          BY <1>5, <2>3
        <5>2. k = z \/ First(k) + t <= First(z)
          BY <1>5, <2>3
        <5>3. First(b) \in Nat /\ First(k) \in Nat /\ First(z) \in Nat
          BY <1>2, <2>3, <4>1
        <5> HIDE DEF First
        <5> QED BY <1>1, <5>1, <5>2, <5>3
      <4>3. Trains(k)
        <5>1. Trains(b) /\ Times(b) \in Nat /\ Times(k) \in Nat
          BY <1>2, <2>1, <2>3, <4>1
        <5>2. Times(b) <= Times(k)
          BY <1>1, <4>2, <5>1
        <5> QED BY <1>1, <5>1, <5>2
      <4>4. First(k) + t - 1 < n
        <5>1. First(z) + t - 1 < n /\ First(k) \in Nat /\ First(z) \in Nat
          BY <1>2, <2>2, <2>3, <4>1
        <5> HIDE DEF First
        <5> QED BY <1>1, <4>2, <5>1
      <4> QED BY <4>1, <4>3, <4>4
    <3>2. ASSUME NEW k \in K PROVE k \in b..z
      <4>1. k \in 0..n /\ b <= k /\ k <= z
        BY <2>1, <2>2
      <4> QED BY <2>3, <4>1
    <3> QED BY <3>1, <3>2
  <2> HIDE DEF K
  <2>5. tested = First(b)..First(z) + t - 1
    <3>1. ASSUME NEW k \in b..z, NEW d \in F(k).test PROVE d \in First(b)..First(z) + t - 1
      <4>0. k \in Nat /\ b <= k /\ k <= z
        BY <2>3
      <4>1. b = k \/ First(b) + t <= First(k)
        BY <1>5, <2>3, <4>0
      <4>2. k = z \/ First(k) + t <= First(z)
        BY <1>5, <2>3, <4>0
      <4>3. /\ First(b) \in Nat /\ First(k) \in Nat /\ First(z) \in Nat
            /\ d \in First(k)..First(k) + t - 1
        BY <1>2, <2>3, <4>0
      <4> HIDE DEF First
      <4> QED BY <1>1, <4>1, <4>2, <4>3
    <3>2. ASSUME NEW d \in First(b)..First(z) + t - 1 PROVE \E k \in b..z : d \in F(k).test
      <4>1. First(b) \in Nat /\ First(z) \in Nat
        BY <1>2, <2>3
      <4>2. d - First(b) \in Nat
        <5> HIDE DEF First
        <5> QED BY <4>1
      <4>3. PICK i \in Nat : i * t <= d - First(b) /\ d - First(b) < i * t + t
        BY <1>1, <4>2, BlockOf
      <4> DEFINE k == b + i
      <4>4. k \in Nat /\ b <= k /\ i * t \in Nat /\ First(k) = First(b) + i * t
        <5>1. /\ Times(k) = Times(b) + i * t /\ i * t \in Nat /\ Times(b) \in Nat
              /\ k \in Nat /\ b <= k
          BY <1>1, <1>2, <2>3 DEF Times
        <5> HIDE DEF k
        <5> QED BY <1>1, <5>1
      <4>5. First(k) \in Nat
        BY <1>2, <4>4
      <4>6. d \in First(k)..First(k) + t - 1
        <5> HIDE DEF First, k
        <5> QED BY <1>1, <4>1, <4>3, <4>4, <4>5
      <4>7. k <= z
        <5> SUFFICES ASSUME z < k PROVE FALSE
          BY <2>3, <4>4
        <5>1. First(z) + t <= First(k)
          BY <1>5, <2>3, <4>4
        <5> HIDE DEF First, k
        <5> QED BY <1>1, <4>1, <4>5, <4>6, <5>1
      <4>8. k \in b..z
        <5> HIDE DEF k
        <5> QED BY <2>3, <4>4, <4>7
      <4>9. d \in F(k).test
        BY <1>2, <4>4, <4>6
      <4> QED BY <4>8, <4>9
    <3>3. \A d : d \in tested <=> \E k \in b..z : d \in F(k).test
      BY <1>4, <2>4
    <3> HIDE DEF tested, F, First
    <3> QED BY <3>1, <3>2, <3>3
  <2>6. IsFiniteSet(folds) /\ Cardinality(folds) = z - b + 1
    <3>1. IsFiniteSet(b..z) /\ Cardinality(b..z) = z - b + 1
      BY <2>3, FS_Interval
    <3> DEFINE f == [k \in b..z |-> F(k)]
    <3>2. ASSUME NEW j \in b..z, NEW k \in b..z, F(j) = F(k) PROVE j = k
      <4>1. ASSUME NEW x \in Nat, NEW y \in Nat, x < y PROVE F(x) # F(y)
        <5>1. First(x) + t <= First(y) /\ First(x) \in Nat /\ First(y) \in Nat
          BY <1>2, <1>5, <4>1
        <5>2. F(x).test = First(x)..First(x) + t - 1 /\ F(y).test = First(y)..First(y) + t - 1
          BY <1>2
        <5>3. First(x) \in F(x).test
          <6> HIDE DEF F, First
          <6> QED BY <1>1, <5>1, <5>2
        <5>4. First(x) \notin F(y).test
          <6> HIDE DEF F, First
          <6> QED BY <1>1, <5>1, <5>2
        <5> HIDE DEF F, First
        <5> QED BY <5>3, <5>4
      <4>2. j \in Nat /\ k \in Nat
        BY <2>3
      <4> HIDE DEF F
      <4> QED BY <3>2, <4>1, <4>2
    <3>3. folds = {F(k) : k \in b..z}
      BY <1>4, <2>4
    <3> HIDE DEF F, folds
    <3>4. f \in Bijection(b..z, folds)
      <4>1. f \in [b..z -> folds] /\ \A y \in folds : \E k \in b..z : f[k] = y
        BY <3>3
      <4>2. \A j, k \in b..z : f[j] = f[k] => j = k
        BY <3>2
      <4> HIDE DEF f
      <4> QED BY <4>1, <4>2 DEF Bijection, Injection, Surjection, IsInjective
    <3>5. ExistsBijection(b..z, folds)
      BY <3>4 DEF ExistsBijection
    <3> QED BY <3>1, <3>5, FS_Bijection
  <2>7. Cardinality(tested) = t * Cardinality(folds)
    <3>1. First(z) = First(b) + (z - b) * t /\ First(b) \in Nat /\ First(z) \in Nat
      <4>1. Times(z) = Times(b) + (z - b) * t /\ (z - b) * t \in Int
        BY <1>1, <2>3 DEF Times
      <4>2. Times(z) \in Nat /\ Times(b) \in Nat
        BY <1>2, <2>3
      <4> QED BY <1>1, <4>1, <4>2
    <3>2. First(b) <= First(z)
      <4>1. b = z \/ First(b) + t <= First(z)
        BY <1>5, <2>3
      <4> HIDE DEF First
      <4> QED BY <1>1, <3>1, <4>1
    <3>3. Cardinality(tested) = First(z) + t - 1 - First(b) + 1
      <4> DEFINE p == First(b)
                 q == First(z) + t - 1
      <4>1. p \in Int /\ q \in Int /\ p <= q
        BY <1>1, <3>1, <3>2
      <4>2. tested = p..q
        BY <2>5
      <4> HIDE DEF p, q, tested
      <4>3. Cardinality(tested) = q - p + 1
        BY <4>1, <4>2, FS_Interval
      <4> QED BY <1>1, <3>1, <4>3 DEF p, q
    <3>4. t * (z - b + 1) = (z - b) * t + t
      BY <1>1, <2>3
    <3>5. (z - b) * t \in Int
      BY <1>1, <2>3
    <3> HIDE DEF First, tested, folds
    <3> QED BY <1>1, <2>6, <3>1, <3>3, <3>4, <3>5
  <2>8. tested = Decisions!Judged!Min(tested)..Decisions!Judged!Max(tested)
    <3> DEFINE p == First(b)
               q == First(z) + t - 1
    <3>1. First(b) \in Nat /\ First(z) \in Nat /\ (b = z \/ First(b) + t <= First(z))
      BY <1>2, <1>5, <2>3
    <3>2. p \in Int /\ q \in Int /\ p <= q
      <4> HIDE DEF First
      <4> QED BY <1>1, <3>1
    <3>3. tested = p..q
      BY <2>5
    <3> HIDE DEF p, q, tested
    <3>4. /\ tested \in SUBSET Int /\ p \in tested /\ q \in tested
          /\ \A x \in tested : p <= x /\ x <= q
      BY <3>2, <3>3
    <3>5. Decisions!Min(tested) = p /\ Decisions!Max(tested) = q
      BY <3>4, LeastIs, GreatestIs
    <3>6. /\ Decisions!Judged!Min(tested) = Decisions!Min(tested)
          /\ Decisions!Judged!Max(tested) = Decisions!Max(tested)
      BY Zenon DEF Decisions!Judged!Min, Decisions!Min, Decisions!Judged!Max, Decisions!Max
    <3> QED BY <3>3, <3>5, <3>6
  <2>9. \A S : Decisions!Judged!Cardinality(S) = Cardinality(S)
    BY Zenon DEF Decisions!Judged!Cardinality, Cardinality
  <2> HIDE DEF tested, folds
  <2> QED BY <1>7, <2>7, <2>8, <2>9 DEF Decisions!Judged!FoldsApart, tested, folds, t
<1> QED BY <1>8, <1>9

(* However long the panel and the folds: the label of a training row has   *)
(* ended before the embargo, and the tested rows are one interval of which *)
(* none is tested twice (FoldsApart in NothingForeseen).                   *)
THEOREM FoldsStayApart ==
    ResearchSpec => [](\A w \in parameters.folds : Decisions!Judged!FoldsApart(Len(sessions), w))
<1> DEFINE FoldsInv == (\A w \in parameters.folds : ProperFolds(w)) /\ Len(sessions) \in Nat
           Apart == \A w \in parameters.folds : Decisions!Judged!FoldsApart(Len(sessions), w)
<1>1. ResearchInit => FoldsInv
  <2> SUFFICES ASSUME ResearchInit PROVE FoldsInv
    OBVIOUS
  <2>1. parameters.folds = FoldLengths /\ sessions = <<>>
    BY DEF ResearchInit, Decisions!Init
  <2> QED BY <2>1 DEF FoldLengths, ProperFolds
<1>2. FoldsInv /\ ForesightInv /\ [ResearchNext]_researchVars => FoldsInv'
  <2> SUFFICES ASSUME FoldsInv, ForesightInv, [ResearchNext]_researchVars PROVE FoldsInv'
    OBVIOUS
  <2>1. CASE UNCHANGED decisions
    BY <2>1 DEF decisions
  <2>2. CASE Decisions!Next
    <3>1. parameters' = parameters
      BY <2>2 DEF Decisions!Next, Decisions!Close
    <3>2. PICK s : sessions' = Append(sessions, s)
      BY <2>2 DEF Decisions!Next, Decisions!Close
    <3>3. Len(sessions') \in Nat
      BY <3>2 DEF ForesightInv
    <3> QED BY <3>1, <3>3
  <2> QED BY <2>1, <2>2 DEF ResearchNext, researchVars
<1>3. FoldsInv => Apart
  BY FoldsFit
<1> HIDE DEF FoldsInv, Apart
<1>4. ResearchSpec => []Apart
  BY <1>1, <1>2, <1>3, ForesightHolds, PTL DEF ResearchSpec, researchVars
<1> QED BY <1>4 DEF Apart

-----------------------------------------------------------------------------
(* Adjustments.  The prices, ratios and amounts of the runs are proper, so *)
(* what Adjustments_proofs shows for any that are holds for them.  The two *)
(* instances define the same operators, each its own.                      *)
Every == INSTANCE Adjustments_proofs WITH
    Prices <- {Fraction(2, 1), Fraction(4, 1)},
    Ratios <- {One, Fraction(2, 1), Fraction(1, 2)},
    Amounts <- {Zero, One}, MaxDay <- 3, Closed <- None, today <- date

LEMMA SameFractions == \A n, d : Adjustments!Fraction(n, d) = Every!Fraction(n, d)
BY DEF Adjustments!Fraction, Adjustments!Divided, Adjustments!Gcd,
       Every!Fraction, Every!Divided, Every!Gcd

LEMMA SameUnits == Adjustments!One = Every!One /\ Adjustments!Zero = Every!Zero
BY DEF Adjustments!One, Adjustments!Zero, Every!One, Every!Zero

LEMMA SameTimes == \A a, b : Adjustments!\otimes(a, b) = Every!\otimes(a, b)
BY SameFractions DEF Adjustments!\otimes, Every!\otimes

LEMMA SameMinus == \A a, b : Adjustments!\ominus(a, b) = Every!\ominus(a, b)
BY SameFractions DEF Adjustments!\ominus, Every!\ominus

LEMMA SameOver == \A a, b : Adjustments!\oslash(a, b) = Every!\oslash(a, b)
<1>1. \A a : Adjustments!Inverted(a) = Every!Inverted(a)
  BY DEF Adjustments!Inverted, Every!Inverted
<1> QED BY <1>1, SameTimes DEF Adjustments!\oslash, Every!\oslash

LEMMA SameLess == \A a, b : Adjustments!\prec(a, b) = Every!\prec(a, b)
BY DEF Adjustments!\prec, Every!\prec

LEMMA SameExtended == \A f, d, v : Adjustments!Extended(f, d, v) = Every!Extended(f, d, v)
BY DEF Adjustments!Extended, Every!Extended

LEMMA SameLatest == \A S : Adjustments!Latest(S) = Every!Latest(S)
BY DEF Adjustments!Latest, Every!Latest

LEMMA SameSessions == Adjustments!Sessions = Every!Sessions
BY DEF Adjustments!Sessions, Every!Sessions

LEMMA SamePriorClose == \A e : Adjustments!PriorClose(e) = Every!PriorClose(e)
BY SameLatest, SameSessions DEF Adjustments!PriorClose, Every!PriorClose

LEMMA SameProduct == \A f : Adjustments!Product(f) = Every!Product(f)
BY SameFractions
   DEF Adjustments!Product, Adjustments!FoldFunction, Adjustments!FoldFunctionOnSet,
       Adjustments!MapThenFoldSet, Adjustments!\otimes, Adjustments!One,
       Every!Product, Every!FoldFunction, Every!FoldFunctionOnSet,
       Every!MapThenFoldSet, Every!\otimes, Every!One

LEMMA SameFactors ==
    \A d, S : /\ Adjustments!SplitFactor(d, S) = Every!SplitFactor(d, S)
              /\ Adjustments!DividendFactor(d, S) = Every!DividendFactor(d, S)
<1> TAKE d, S
<1>1. [e \in {e \in S : e > d /\ splits[e] # Every!One} |->
          Adjustments!\oslash(Every!One, splits[e])]
    = [e \in {e \in S : e > d /\ splits[e] # Every!One} |->
          Every!\oslash(Every!One, splits[e])]
  BY SameOver
<1>2. [e \in {e \in S : e > d /\ dividends[e] # Every!Zero} |->
          Adjustments!\ominus(Every!One,
              Adjustments!\oslash(dividends[e], Adjustments!PriorClose(e)))]
    = [e \in {e \in S : e > d /\ dividends[e] # Every!Zero} |->
          Every!\ominus(Every!One, Every!\oslash(dividends[e], Every!PriorClose(e)))]
  BY SameOver, SameMinus, SamePriorClose
<1>3. Adjustments!SplitFactor(d, S) = Every!SplitFactor(d, S)
  BY <1>1, SameUnits, SameProduct DEF Adjustments!SplitFactor, Every!SplitFactor
<1>4. Adjustments!DividendFactor(d, S) = Every!DividendFactor(d, S)
  BY <1>2, SameUnits, SameProduct DEF Adjustments!DividendFactor, Every!DividendFactor
<1> QED BY <1>3, <1>4

LEMMA EveryReturn == Every!ReturnsArePreserved => ReturnsArePreserved
<1>1. \A S, D : Adjustments!AdjustedClose(S, D) = Every!AdjustedClose(S, D)
  BY SameFactors, SameTimes, SameSessions DEF Adjustments!AdjustedClose, Every!AdjustedClose
<1>2. \A s : Adjustments!SameReturns(s) <=> Every!SameReturns(s)
  BY SameTimes, SameSessions DEF Adjustments!SameReturns, Every!SameReturns
<1>3. \A s : Adjustments!ValidAdjustment(s) <=> Every!ValidAdjustment(s)
  BY SameTimes, SameOver, SameFactors, SameLatest, SameSessions
     DEF Adjustments!ValidAdjustment, Every!ValidAdjustment
<1>4. Adjustments!Undisturbed <=> Every!Undisturbed
  BY SameUnits, SameSessions DEF Adjustments!Undisturbed, Every!Undisturbed
<1> QED BY <1>1, <1>2, <1>3, <1>4
        DEF ReturnsArePreserved, Adjustments!ReturnsArePreserved, Every!ReturnsArePreserved

LEMMA GivenPositive ==
    ASSUME NEW n \in Nat \ {0}, NEW d \in Nat \ {0}
    PROVE  Every!Positive(Every!Fraction(n, d))
<1> DEFINE f == Every!Fraction(n, d)
<1>1. f \in Every!Fractions /\ f.num * d = n * f.den
  BY Every!FractionIs
<1> HIDE DEF f
<1>2. f.num \in Int /\ f.den \in Nat \ {0}
  BY <1>1 DEF Every!Fractions
<1>3. n * f.den \in Nat \ {0}
  BY <1>2, Every!NatTimes
<1>4. f.num > 0
  BY <1>1, <1>2, <1>3
<1>5. Every!\prec(Every!Zero, f)
  BY <1>2, <1>4 DEF Every!\prec, Every!Zero
<1> QED BY <1>1, <1>5 DEF f, Every!Positive

LEMMA RunsAreProper == Every!ProperActions
<1>1. \A n, d : Fraction(n, d) = Every!Fraction(n, d)
  BY DEF Fraction, Divided, Gcd, Every!Fraction, Every!Divided, Every!Gcd
<1>2. /\ Every!Positive(Every!Fraction(2, 1)) /\ Every!Positive(Every!Fraction(4, 1))
      /\ Every!Positive(Every!Fraction(1, 2))
  BY GivenPositive
<1>3. Every!Positive(One) /\ One \in Every!Fractions /\ Zero \in Every!Fractions
  BY DEF Every!Positive, One, Zero, Every!Fractions, Every!\prec, Every!Zero
<1> QED BY <1>1, <1>2, <1>3 DEF Every!ProperActions

LEMMA EveryBehaviour == ResearchSpec => Every!Spec
<1>1. ResearchInit => Every!Init
  BY SameUnits DEF ResearchInit, Adjustments!Init, Every!Init
<1>2. Adjustments!Next => Every!Next
  BY SameTimes, SameMinus, SameOver, SameLess, SameExtended, SameLatest, SameSessions, SameUnits
     DEF Adjustments!Next, Adjustments!NextDay, Every!Next, Every!NextDay
<1>3. ResearchNext => Every!Next \/ UNCHANGED Every!vars
  BY <1>2 DEF ResearchNext, adjustments, Every!vars
<1>4. UNCHANGED researchVars => UNCHANGED Every!vars
  BY DEF researchVars, adjustments, Every!vars
<1> QED BY <1>1, <1>3, <1>4, PTL DEF ResearchSpec, Every!Spec, researchVars

(***************************************************************************)
(* AdjustedReturns: on every day and whatever splits and dividends have    *)
(* come, no dividend after another action in the same gap between two      *)
(* sessions, adjusted closes have the returns of a holder who reinvests,   *)
(* and validate_adjustment accepts the closes adjusted for some of the     *)
(* actions exactly when they have those returns.                           *)
(***************************************************************************)
THEOREM AdjustedReturns == ResearchSpec => []ReturnsArePreserved
BY RunsAreProper, EveryReturn, EveryBehaviour, Every!HolderReturns, PTL

=============================================================================
