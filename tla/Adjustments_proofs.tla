------------------------- MODULE Adjustments_proofs --------------------------
(***************************************************************************)
(* For any prices and split ratios that are worth something, any dividends *)
(* and any number of days, with and without sessions: as long as no        *)
(* dividend follows another action before the next session, adjusted       *)
(* closes have the returns of a holder, and validate_adjustment accepts    *)
(* the closes adjusted for some of the actions exactly when they have them. *)
(*                                                                         *)
(* A day multiplies what one share has become by the ratio of a split and  *)
(* by what reinvests a dividend, and the factors of every earlier close by *)
(* the inverse of both: the product of the two never changes.              *)
(***************************************************************************)
EXTENDS Adjustments, Sums_proofs, TLAPS

(* What the checks of adjustments.py let through.                          *)
ProperActions ==
    /\ \A p \in Prices : Positive(p)
    /\ \A r \in Ratios : Positive(r)
    /\ Amounts \subseteq Fractions
    /\ MaxDay \in Nat \ {0}

Factor(d, S, D) == SplitFactor(d, S) \otimes DividendFactor(d, D)

DataInv ==
    /\ today \in Nat \ {0} /\ today <= MaxDay
    /\ Sessions \subseteq 1..today /\ 1 \in Sessions /\ DOMAIN wealth = Sessions
    /\ DOMAIN splits = 2..today /\ DOMAIN dividends = 2..today
    /\ \A d \in Sessions : closes[d] \in Prices /\ Positive(wealth[d])
    /\ \A e \in 2..today : /\ Positive(splits[e]) /\ dividends[e] \in Fractions
                           /\ dividends[e] \prec PriorClose(e)
    /\ Positive(shares) /\ Positive(fair)

(* Without an action since, the last close is what a share is worth.       *)
Quiet(f) == splits[f] = One /\ dividends[f] = Zero

FairInv ==
    (\A f \in 2..today : (\A d \in Sessions : d < f) => Quiet(f))
    => Even(fair, closes[Latest(Sessions)])

(* What one share has become, at the adjusted close of a day, is what it   *)
(* was worth on that day.                                                  *)
WealthInv ==
    Undisturbed =>
    \A d \in Sessions :
        Even((closes[d] \otimes Factor(d, 2..today, 2..today)) \otimes shares, wealth[d])

-----------------------------------------------------------------------------
(* 1. One symbol, one day.                                                 *)

LEMMA LatestIn ==
    ASSUME NEW n \in Nat, NEW S \in SUBSET (1..n), S # {}
    PROVE  Latest(S) \in S /\ \A e \in S : e <= Latest(S)
<1> DEFINE T == {m \in Nat : \E d \in S : m = n - d}
<1>1. \A d \in S : d \in Nat /\ n - d \in Nat
  OBVIOUS
<1>2. T \subseteq Nat /\ T # {}
  BY <1>1
<1>3. PICK m \in T : \A k \in T : m <= k
  <2> HIDE DEF T
  <2> QED BY <1>2, LeastNat
<1>4. PICK d \in S : m = n - d
  BY <1>3
<1>5. ASSUME NEW e \in S PROVE e <= d
  <2>1. n - e \in T
    BY <1>1
  <2>2. n - d <= n - e
    BY <1>3, <1>4, <2>1
  <2> QED BY <1>1, <2>2
<1> QED BY <1>5 DEF Latest

(* What an ex-date takes from a price a dividend reinvested gives back.    *)
LEMMA Reinvested ==
    ASSUME NEW p, Positive(p), NEW a \in Fractions, a \prec p
    PROVE  /\ Positive(One \ominus (a \oslash p)) /\ Positive(p \ominus a)
           /\ Positive(p \oslash (p \ominus a))
           /\ Even((One \ominus (a \oslash p)) \otimes (p \oslash (p \ominus a)), One)
<1> DEFINE q == p \ominus a
           f == One \ominus (a \oslash p)
           k == p \oslash q
<1>1. p \in Fractions /\ Zero \prec p
  BY DEF Positive
<1>2. PICK d \in Nat \ {0}, n, m, l, o \in Int : Is(a, n, d) /\ Is(p, m, d)
  BY <1>1, CommonFour
<1>3. m \in Nat \ {0} /\ Is(Inverted(p), d, m)
  BY <1>1, <1>2, InvertedIs
<1>4. n < m
  BY <1>2, LessIs
<1> DEFINE z == m - n
<1>5. z \in Nat \ {0}
  BY <1>3, <1>4
<1>6. Is(q, z, d)
  BY <1>2, PlusIs
<1> HIDE DEF z
<1>7. Positive(q)
  <2>1. Is(Zero, 0, d)
    BY UnitsAre
  <2>2. 0 < z
    BY <1>5
  <2>3. Zero \prec q
    BY <1>6, <2>1, <2>2, LessIs
  <2> QED BY <1>6, <2>3 DEF Positive, Is
<1>8. Is(f, z * d, d * m)
  <2>1. Is(a \oslash p, n * d, d * m)
    BY <1>2, <1>3, TimesIs DEF \oslash
  <2>2. d * m \in Nat \ {0}
    BY <1>3, NatTimes
  <2>3. Is(One, d * m, d * m)
    BY <2>2, UnitsAre
  <2>4. Is(f, d * m - n * d, d * m)
    BY <2>1, <2>3, PlusIs
  <2>5. d * m - n * d = z * d
    <3>1. (m - n) * d = m * d - n * d
      BY Distributes
    <3> QED BY <3>1 DEF z
  <2> QED BY <2>4, <2>5
<1>9. Positive(f)
  <2>1. d * m \in Nat \ {0} /\ z * d \in Nat \ {0}
    BY <1>3, <1>5, NatTimes
  <2>2. Is(Zero, 0, d * m) /\ 0 < z * d
    BY <2>1, UnitsAre
  <2>3. Zero \prec f
    BY <1>8, <2>2, LessIs
  <2> QED BY <1>8, <2>3 DEF Positive, Is
<1>10. Positive(k) /\ k \in Fractions
  BY <1>1, <1>7, OverUndoes DEF Positive
<1>11. Is(k, m * d, d * z)
  <2>1. Is(Inverted(q), d, z)
    BY <1>6, <1>7, InvertedIs DEF Positive
  <2> QED BY <1>2, <2>1, TimesIs DEF \oslash
<1> HIDE DEF q, f, k
<1>12. Is(f \otimes k, (z * d) * (m * d), (d * m) * (d * z))
  BY <1>8, <1>11, TimesIs
<1> DEFINE x == (z * d) * (m * d)
           y == (d * m) * (d * z)
<1>13. x = y /\ x \in Nat \ {0}
  <2>1. z * d \in Nat \ {0} /\ m * d \in Nat \ {0}
    BY <1>3, <1>5, NatTimes
  <2>2. d * m = m * d /\ d * z = z * d
    BY <1>3, <1>5
  <2> DEFINE u == z * d
             v == m * d
  <2>3. x = u * v /\ y = v * u
    BY <2>2
  <2> HIDE DEF u, v, x, y
  <2>4. u \in Nat \ {0} /\ v \in Nat \ {0}
    BY <2>1 DEF u, v
  <2> QED BY <2>3, <2>4, NatTimes
<1>14. Is(f \otimes k, x, x)
  BY <1>12, <1>13
<1> HIDE DEF x, y
<1>15. Is(One, x, x)
  BY <1>13, UnitsAre
<1>16. f \otimes k \in Fractions /\ One \in Fractions
  BY <1>14, <1>15 DEF Is
<1>17. Even(f \otimes k, One)
  BY <1>14, <1>15, <1>16, EvenIs
<1> QED BY <1>7, <1>9, <1>10, <1>17 DEF q, f, k

(* One more factor, and what undoes it.                                    *)
LEMMA ProductGrows ==
    ASSUME NEW w, NEW v, NEW X, IsFiniteSet(X), NEW t, t \notin X,
           \A x \in X : w[x] = v[x] /\ Positive(v[x]),
           Positive(w[t]), NEW k, Positive(k), Even(w[t] \otimes k, One)
    PROVE  MulOver(w, X \cup {t}) \otimes k = MulOver(v, X) \otimes One
<1> DEFINE T == X \cup {t}
           M == MulOver(v, X)
           a == w[t]
<1>1. IsFiniteSet(T)
  BY FS_AddElement
<1>2. \A x \in T : w[x] \in Fractions
  BY DEF Positive
<1>3. MulOver(w, T) = w[t] \otimes MulOver(w, T \ {t})
  <2>1. t \in T
    OBVIOUS
  <2> HIDE DEF T
  <2> QED BY <1>1, <1>2, <2>1, MulAny
<1>4. T \ {t} = X
  OBVIOUS
<1>5. MulOver(w, X) = M
  BY MulAgrees
<1>6. MulOver(w, T) = a \otimes M
  BY <1>3, <1>4, <1>5
<1>7. M \in Fractions /\ a \in Fractions /\ k \in Fractions /\ One \in Fractions
  <2>1. Positive(M)
    BY MulPositive
  <2> QED BY <2>1, OnePositive DEF Positive
<1>8. Even(a \otimes k, One)
  OBVIOUS
<1> HIDE DEF T, M, a
<1>9. (a \otimes M) \otimes k = M \otimes (a \otimes k)
  <2>1. a \otimes M = M \otimes a /\ (M \otimes a) \otimes k = M \otimes (a \otimes k)
    BY <1>7, TimesCommutes
  <2> QED BY <2>1
<1>10. M \otimes (a \otimes k) = M \otimes One
  <2>1. a \otimes k \in Fractions /\ Even(M, M)
    BY <1>7, FractionsClosed, EvenOrders
  <2> QED BY <1>7, <1>8, <2>1, EvenComputes
<1> QED BY <1>6, <1>9, <1>10 DEF T, M

(* Without an action nothing is multiplied.                                *)
LEMMA ProductStays ==
    ASSUME NEW w, NEW v, NEW X, IsFiniteSet(X),
           \A x \in X : w[x] = v[x] /\ Positive(v[x]),
           NEW k, Positive(k), Even(k, One)
    PROVE  MulOver(w, X) \otimes k = MulOver(v, X) \otimes One
<1> DEFINE M == MulOver(v, X)
<1>1. MulOver(w, X) = M
  BY MulAgrees
<1>2. M \in Fractions /\ k \in Fractions /\ One \in Fractions
  <2>1. Positive(M)
    BY MulPositive
  <2> QED BY <2>1, OnePositive DEF Positive
<1> HIDE DEF M
<1>3. Even(M, M)
  BY <1>2, EvenOrders
<1> QED BY <1>1, <1>2, <1>3, EvenComputes DEF M

SplitTerms == [e \in 2..today |-> One \oslash splits[e]]
DividendTerms == [e \in 2..today |-> One \ominus (dividends[e] \oslash PriorClose(e))]

SplitDays(d, S) == {e \in S : e > d /\ splits[e] # One}
DividendDays(d, D) == {e \in D : e > d /\ dividends[e] # Zero}

LEMMA ProductIs ==
    ASSUME NEW f, NEW w, NEW X, DOMAIN f = X, IsFiniteSet(X), \A x \in X : f[x] = w[x]
    PROVE  Product(f) = MulOver(w, X)
<1>1. Product(f) = MulOver(f, X)
  BY DEF Product, FoldFunction, MulOver
<1> QED BY <1>1, MulAgrees

LEMMA FactorsAre ==
    ASSUME today \in Nat, NEW d, NEW S \in SUBSET (2..today)
    PROVE  /\ SplitFactor(d, S) = MulOver(SplitTerms, SplitDays(d, S))
           /\ DividendFactor(d, S) = MulOver(DividendTerms, DividendDays(d, S))
           /\ IsFiniteSet(SplitDays(d, S)) /\ IsFiniteSet(DividendDays(d, S))
<1>1. IsFiniteSet(SplitDays(d, S)) /\ IsFiniteSet(DividendDays(d, S))
  <2>1. IsFiniteSet(2..today)
    BY FS_Interval
  <2>2. SplitDays(d, S) \subseteq 2..today /\ DividendDays(d, S) \subseteq 2..today
    BY DEF SplitDays, DividendDays
  <2> QED BY <2>1, <2>2, FS_Subset
<1>3. SplitFactor(d, S) = MulOver(SplitTerms, SplitDays(d, S))
  <2> DEFINE f == [e \in SplitDays(d, S) |-> One \oslash splits[e]]
  <2>1. SplitFactor(d, S) = Product(f)
    BY DEF SplitFactor, SplitDays
  <2>2. DOMAIN f = SplitDays(d, S)
    OBVIOUS
  <2>3. \A e \in SplitDays(d, S) : f[e] = SplitTerms[e]
    BY DEF SplitDays, SplitTerms
  <2> HIDE DEF f
  <2> QED BY <1>1, <2>1, <2>2, <2>3, ProductIs
<1>4. DividendFactor(d, S) = MulOver(DividendTerms, DividendDays(d, S))
  <2> DEFINE f == [e \in DividendDays(d, S) |-> One \ominus (dividends[e] \oslash PriorClose(e))]
  <2>1. DividendFactor(d, S) = Product(f)
    BY DEF DividendFactor, DividendDays
  <2>2. DOMAIN f = DividendDays(d, S)
    OBVIOUS
  <2>3. \A e \in DividendDays(d, S) : f[e] = DividendTerms[e]
    BY DEF DividendDays, DividendTerms
  <2> HIDE DEF f
  <2> QED BY <1>1, <2>1, <2>2, <2>3, ProductIs
<1> QED BY <1>1, <1>3, <1>4

(* There is a session before every ex-date, and every factor is positive.  *)
LEMMA TermsPositive ==
    ASSUME ProperActions, DataInv, NEW e \in 2..today
    PROVE  /\ PriorClose(e) \in Prices /\ Positive(PriorClose(e))
           /\ Positive(SplitTerms[e]) /\ Even(SplitTerms[e] \otimes splits[e], One)
           /\ Positive(DividendTerms[e])
<1>1. PriorClose(e) \in Prices
  <2> DEFINE before == {d \in Sessions : d < e}
  <2>0. today \in Nat /\ Sessions \subseteq 1..today /\ 1 \in Sessions
    BY DEF DataInv
  <2>1. today \in Nat /\ before \subseteq 1..today /\ 1 \in before
    <3>1. before \subseteq 1..today
      BY <2>0
    <3>2. 1 < e
      BY <2>0
    <3> QED BY <2>0, <3>1, <3>2
  <2> HIDE DEF before
  <2>2. Latest(before) \in before
    BY <2>1, LatestIn
  <2> QED BY <2>2 DEF DataInv, before, PriorClose
<1>2. Positive(PriorClose(e))
  BY <1>1 DEF ProperActions
<1>3. Positive(splits[e]) /\ dividends[e] \in Fractions /\ dividends[e] \prec PriorClose(e)
  BY DEF DataInv
<1>4. Positive(SplitTerms[e]) /\ Even(SplitTerms[e] \otimes splits[e], One)
  <2>1. One \in Fractions
    BY OnePositive DEF Positive
  <2> QED BY <1>3, <2>1, OverUndoes, OnePositive DEF SplitTerms
<1>5. Positive(DividendTerms[e])
  BY <1>2, <1>3, Reinvested DEF DividendTerms
<1> QED BY <1>1, <1>2, <1>4, <1>5

LEMMA FactorsPositive ==
    ASSUME ProperActions, DataInv, NEW d,
           NEW S \in SUBSET (2..today), NEW D \in SUBSET (2..today)
    PROVE  /\ Positive(SplitFactor(d, S)) /\ Positive(DividendFactor(d, D))
           /\ Positive(Factor(d, S, D))
<1>1. today \in Nat
  BY DEF DataInv
<1>2. Positive(SplitFactor(d, S))
  <2>1. \A e \in SplitDays(d, S) : Positive(SplitTerms[e])
    BY TermsPositive DEF SplitDays
  <2> QED BY <1>1, <2>1, FactorsAre, MulPositive
<1>3. Positive(DividendFactor(d, D))
  <2>1. \A e \in DividendDays(d, D) : Positive(DividendTerms[e])
    BY TermsPositive DEF DividendDays
  <2> QED BY <1>1, <2>1, FactorsAre, MulPositive
<1> QED BY <1>2, <1>3, TimesPositive DEF Factor

-----------------------------------------------------------------------------
(* 2. A day passes.                                                        *)

(* What a day brings: p, the close, or no session; r, the split; a, the    *)
(* dividend.                                                               *)
Brings(p, r, a) ==
    /\ today < MaxDay
    /\ today' = today + 1
    /\ p \in Prices \cup {Closed} /\ r \in Ratios /\ a \in Amounts
    /\ a \prec closes[Latest(Sessions)] /\ a \prec fair
    /\ splits' = Extended(splits, today', r)
    /\ dividends' = Extended(dividends, today', a)
    /\ shares' = shares \otimes r \otimes (fair \oslash (fair \ominus a))
    /\ IF p = Closed
         THEN /\ fair' = (fair \ominus a) \oslash r
              /\ UNCHANGED <<closes, wealth>>
         ELSE /\ fair' = p
              /\ closes' = Extended(closes, today', p)
              /\ wealth' = Extended(wealth, today', shares' \otimes p)

LEMMA DayBrings ==
    ASSUME NextDay
    PROVE  \E p, r, a : Brings(p, r, a)
BY DEF NextDay, Brings

(* The actions grow by those of the day, the sessions by its session.      *)
LEMMA DayExtends ==
    ASSUME ProperActions, DataInv, NEW p, NEW r, NEW a, Brings(p, r, a)
    PROVE  /\ today \in Nat \ {0} /\ today' = today + 1 /\ today' <= MaxDay
           /\ 2..today' = (2..today) \cup {today'}
           /\ today' \notin 2..today /\ today' \notin Sessions
           /\ DOMAIN splits' = 2..today' /\ DOMAIN dividends' = 2..today'
           /\ \A e \in 2..today : splits'[e] = splits[e] /\ dividends'[e] = dividends[e]
           /\ splits'[today'] = r /\ dividends'[today'] = a
           /\ Sessions' = IF p = Closed THEN Sessions ELSE Sessions \cup {today'}
           /\ \A d \in Sessions : closes'[d] = closes[d]
           /\ p # Closed => closes'[today'] = p /\ p \in Prices
           /\ DOMAIN wealth' = Sessions'
           /\ \A d \in Sessions : wealth'[d] = wealth[d]
           /\ p # Closed => wealth'[today'] = shares' \otimes p
<1>1. /\ today \in Nat \ {0} /\ today < MaxDay /\ MaxDay \in Nat
      /\ today' = today + 1
      /\ DOMAIN splits = 2..today /\ DOMAIN dividends = 2..today
      /\ Sessions \subseteq 1..today
  BY DEF DataInv, ProperActions, Brings
<1>2. /\ 2..today' = (2..today) \cup {today'} /\ today' <= MaxDay
      /\ today' \notin 2..today /\ today' \notin Sessions
  BY <1>1
<1>3. /\ splits' = Extended(splits, today', r) /\ dividends' = Extended(dividends, today', a)
      /\ p = Closed => closes' = closes
      /\ p # Closed => closes' = Extended(closes, today', p) /\ p \in Prices
  BY DEF Brings
<1> DEFINE t == today'
<1> HIDE DEF t
<1>5. /\ DOMAIN splits' = 2..t /\ splits'[t] = r
      /\ \A e \in 2..today : splits'[e] = splits[e]
  <2>1. splits' = Extended(splits, t, r)
    BY <1>3 DEF t
  <2>2. /\ DOMAIN splits' = DOMAIN splits \cup {t} /\ splits'[t] = r
        /\ \A e \in DOMAIN splits : e # t => splits'[e] = splits[e]
    BY <2>1 DEF Extended
  <2> QED BY <1>1, <1>2, <2>2, Zenon DEF t
<1>6. /\ DOMAIN dividends' = 2..t /\ dividends'[t] = a
      /\ \A e \in 2..today : dividends'[e] = dividends[e]
  <2>1. dividends' = Extended(dividends, t, a)
    BY <1>3 DEF t
  <2>2. /\ DOMAIN dividends' = DOMAIN dividends \cup {t} /\ dividends'[t] = a
        /\ \A e \in DOMAIN dividends : e # t => dividends'[e] = dividends[e]
    BY <2>1 DEF Extended
  <2> QED BY <1>1, <1>2, <2>2, Zenon DEF t
<1>7. /\ Sessions' = IF p = Closed THEN Sessions ELSE Sessions \cup {today'}
      /\ \A d \in Sessions : closes'[d] = closes[d]
      /\ p # Closed => closes'[today'] = p /\ p \in Prices
  <2>1. CASE p = Closed
    BY <1>3, <2>1 DEF Sessions
  <2>2. CASE p # Closed
    <3>1. closes' = Extended(closes, t, p) /\ p \in Prices
      BY <1>3, <2>2 DEF t
    <3>2. /\ DOMAIN closes' = DOMAIN closes \cup {t} /\ closes'[t] = p
          /\ \A e \in DOMAIN closes : e # t => closes'[e] = closes[e]
      BY <3>1 DEF Extended
    <3> QED BY <1>2, <2>2, <3>1, <3>2, Zenon DEF Sessions, t
  <2> QED BY <2>1, <2>2
<1>8. /\ DOMAIN wealth' = Sessions'
      /\ \A d \in Sessions : wealth'[d] = wealth[d]
      /\ p # Closed => wealth'[today'] = shares' \otimes p
  <2>0. DOMAIN wealth = Sessions
    BY DEF DataInv
  <2>1. CASE p = Closed
    <3>1. wealth' = wealth
      BY <2>1 DEF Brings
    <3> QED BY <1>7, <2>0, <2>1, <3>1
  <2>2. CASE p # Closed
    <3>1. wealth' = Extended(wealth, t, shares' \otimes p)
      BY <2>2 DEF Brings, t
    <3>2. /\ DOMAIN wealth' = DOMAIN wealth \cup {t} /\ wealth'[t] = shares' \otimes p
          /\ \A e \in DOMAIN wealth : e # t => wealth'[e] = wealth[e]
      BY <3>1 DEF Extended
    <3> QED BY <1>2, <1>7, <2>0, <2>2, <3>2, Zenon DEF t
  <2> QED BY <2>1, <2>2
<1> QED BY <1>1, <1>2, <1>5, <1>6, <1>7, <1>8 DEF t

(* Prior closes stay; that of the day is the last close so far.            *)
LEMMA PriorCloses ==
    ASSUME ProperActions, DataInv, NEW p, NEW r, NEW a, Brings(p, r, a),
           NEW t, t = today'
    PROVE  /\ \A e \in 2..today : PriorClose(e)' = PriorClose(e)
           /\ PriorClose(t)' = closes[Latest(Sessions)]
           /\ Latest(Sessions) \in Sessions /\ Positive(closes[Latest(Sessions)])
<1>1. today \in Nat \ {0} /\ Sessions \subseteq 1..today /\ 1 \in Sessions
  BY DEF DataInv
<1>2. /\ t = today + 1 /\ t \notin Sessions
      /\ Sessions' = Sessions \/ Sessions' = Sessions \cup {t}
      /\ \A d \in Sessions : closes'[d] = closes[d]
  BY DayExtends
<1>3. ASSUME NEW X, X \subseteq Sessions, 1 \in X PROVE Latest(X) \in X
  <2>1. today \in Nat /\ X \in SUBSET (1..today) /\ X # {}
    BY <1>1, <1>3
  <2> QED BY <2>1, LatestIn
<1>4. ASSUME NEW e \in 2..today PROVE PriorClose(e)' = PriorClose(e)
  <2> DEFINE X == {d \in Sessions : d < e}
             Y == {d \in Sessions' : d < e}
  <2>0. today \in Nat /\ t = today + 1
    BY <1>1, <1>2
  <2>1. e \in Int /\ 1 < e /\ e < t
    BY <2>0
  <2>2. Y = X
    <3>1. ~ (t < e)
      BY <1>1, <1>2, <2>1
    <3> QED BY <1>2, <3>1
  <2>3. X \subseteq Sessions /\ 1 \in X
    BY <1>1, <2>1
  <2>4. PriorClose(e) = closes[Latest(X)] /\ PriorClose(e)' = closes'[Latest(Y)]
    BY DEF PriorClose, Latest
  <2> HIDE DEF X, Y
  <2>5. Latest(X) \in Sessions
    BY <1>3, <2>3
  <2> QED BY <1>2, <2>2, <2>4, <2>5
<1>5. PriorClose(t)' = closes[Latest(Sessions)] /\ Latest(Sessions) \in Sessions
  <2> DEFINE Y == {d \in Sessions' : d < t}
  <2>1. ASSUME NEW d \in Sessions PROVE d < t
    <3>1. today \in Nat /\ d \in 1..today /\ t = today + 1
      BY <1>1, <1>2
    <3> QED BY <3>1
  <2>2. ~ (t < t)
    <3>1. today \in Nat /\ t = today + 1
      BY <1>1, <1>2
    <3> QED BY <3>1
  <2>3. Y = Sessions
    BY <1>2, <2>1, <2>2
  <2>4. PriorClose(t)' = closes'[Latest(Y)]
    BY DEF PriorClose, Latest
  <2> HIDE DEF Y
  <2>5. Latest(Sessions) \in Sessions
    BY <1>1, <1>3
  <2> QED BY <1>2, <2>3, <2>4, <2>5
<1>6. Positive(closes[Latest(Sessions)])
  <2>1. closes[Latest(Sessions)] \in Prices
    BY <1>5 DEF DataInv
  <2> QED BY <2>1 DEF ProperActions
<1> QED BY <1>4, <1>5, <1>6

(* What undoes the split of a day, and what reinvests its dividend.        *)
Reinvests(a) == closes[Latest(Sessions)] \oslash (closes[Latest(Sessions)] \ominus a)

(* What the holder gains by a dividend.                                    *)
Holds(a) == fair \oslash (fair \ominus a)

(* A new split divides the factor of every earlier close by its ratio.     *)
LEMMA SplitGrows ==
    ASSUME ProperActions, DataInv, NEW p, NEW r, NEW a, Brings(p, r, a),
           NEW d \in Sessions, NEW t, t = today'
    PROVE  /\ SplitFactor(d, 2..t)' \otimes r = SplitFactor(d, 2..today) \otimes One
           /\ Positive(SplitFactor(d, 2..t)') /\ Positive(r)
<1> DEFINE w == [e \in 2..t |-> One \oslash splits'[e]]
           X == SplitDays(d, 2..today)
           Y == {e \in 2..t : e > d /\ splits'[e] # One}
           f == [e \in Y |-> One \oslash splits'[e]]
<1>1. /\ today \in Nat \ {0} /\ t = today + 1 /\ 2..t = (2..today) \cup {t}
      /\ t \notin 2..today /\ splits'[t] = r
      /\ \A e \in 2..today : splits'[e] = splits[e]
  BY DayExtends
<1>2. Positive(r)
  BY DEF Brings, ProperActions
<1>3. d < t
  <2>1. today \in Nat /\ d \in 1..today /\ t = today + 1
    BY <1>1 DEF DataInv
  <2> QED BY <2>1
<1>4. SplitFactor(d, 2..t)' = Product(f)
  BY <1>1 DEF SplitFactor
<1>5. X = {e \in 2..today : e > d /\ splits[e] # One}
  BY DEF SplitDays
<1>6. Y = X \cup (IF r = One THEN {} ELSE {t}) /\ t \notin X
  BY <1>1, <1>3, <1>5
<1>7. IsFiniteSet(X) /\ SplitFactor(d, 2..today) = MulOver(SplitTerms, X)
  BY <1>1, FactorsAre
<1>8. IsFiniteSet(Y)
  <2>1. Y = X \/ Y = X \cup {t}
    BY <1>6
  <2> HIDE DEF X, Y
  <2> QED BY <1>7, <2>1, FS_AddElement
<1>9. Product(f) = MulOver(w, Y)
  <2>1. DOMAIN f = Y /\ \A e \in Y : f[e] = w[e]
    OBVIOUS
  <2> HIDE DEF f, w, Y
  <2> QED BY <1>8, <2>1, ProductIs
<1>10. \A e \in X : w[e] = SplitTerms[e] /\ Positive(SplitTerms[e])
  <2> SUFFICES ASSUME NEW e \in X PROVE w[e] = SplitTerms[e] /\ Positive(SplitTerms[e])
    OBVIOUS
  <2>1. e \in 2..today /\ e \in 2..t
    BY <1>1, <1>5
  <2>2. w[e] = One \oslash splits[e] /\ SplitTerms[e] = One \oslash splits[e]
    BY <1>1, <2>1 DEF SplitTerms
  <2> QED BY <2>1, <2>2, TermsPositive
<1>11. w[t] = One \oslash r
  BY <1>1
<1> HIDE DEF w, X, Y, f
<1>12. CASE r = One
  <2>1. Y = X
    BY <1>6, <1>12
  <2>2. Even(r, One)
    <3>1. One \in Fractions
      BY OnePositive DEF Positive
    <3> QED BY <1>12, <3>1, EvenOrders
  <2>3. MulOver(w, X) \otimes r = MulOver(SplitTerms, X) \otimes One
    BY <1>2, <1>7, <1>10, <2>2, ProductStays
  <2>4. Positive(MulOver(w, Y))
    <3>1. \A e \in Y : Positive(w[e])
      BY <1>10, <2>1
    <3> QED BY <1>8, <3>1, MulPositive
  <2> QED BY <1>2, <1>4, <1>7, <1>9, <2>1, <2>3, <2>4
<1>13. CASE r # One
  <2>1. Y = X \cup {t}
    BY <1>6, <1>13
  <2>2. One \in Fractions
    BY OnePositive DEF Positive
  <2>3. Positive(w[t]) /\ Even(w[t] \otimes r, One)
    BY <1>2, <1>11, <2>2, OverUndoes, OnePositive
  <2>4. MulOver(w, X \cup {t}) \otimes r = MulOver(SplitTerms, X) \otimes One
    BY <1>2, <1>6, <1>7, <1>10, <2>3, ProductGrows
  <2>5. Positive(MulOver(w, Y))
    <3>1. \A e \in Y : Positive(w[e])
      BY <1>10, <2>1, <2>3
    <3> QED BY <1>8, <3>1, MulPositive
  <2> QED BY <1>2, <1>4, <1>7, <1>9, <2>1, <2>4, <2>5
<1> QED BY <1>12, <1>13

(* Nothing is reinvested without a dividend.                               *)
LEMMA ReinvestsNothing ==
    ASSUME NEW p, Positive(p), NEW q \in Fractions, Even(q, p), NEW k, Positive(k),
           Even(k \otimes q, p)
    PROVE  Even(k, One)
<1>1. p \in Fractions /\ k \in Fractions /\ One \in Fractions
  BY OnePositive DEF Positive
<1>2. k \otimes q = k \otimes p
  <2>1. Even(k, k)
    BY <1>1, EvenOrders
  <2> QED BY <1>1, <2>1, EvenComputes
<1>3. Even(p \otimes One, p) /\ p \otimes One = One \otimes p
  BY <1>1, EvenUnits, TimesCommutes
<1>4. k \otimes p \in Fractions /\ One \otimes p \in Fractions
  BY <1>1, FractionsClosed
<1>5. Even(k \otimes p, One \otimes p)
  BY <1>1, <1>2, <1>3, <1>4, EvenOrders
<1>6. k \otimes p = One \otimes p
  BY <1>1, <1>5, TimesSame
<1> QED BY <1>1, <1>6, TimesCancels

(* A new dividend scales the factor of every earlier close.                *)
LEMMA DividendGrows ==
    ASSUME ProperActions, DataInv, NEW p, NEW r, NEW a, Brings(p, r, a),
           NEW d \in Sessions, NEW t, t = today'
    PROVE  /\ DividendFactor(d, 2..t)' \otimes Reinvests(a)
                = DividendFactor(d, 2..today) \otimes One
           /\ Positive(DividendFactor(d, 2..t)') /\ Positive(Reinvests(a))
<1> DEFINE prior == closes[Latest(Sessions)]
           k == Reinvests(a)
           w == [e \in 2..t |-> One \ominus (dividends'[e] \oslash PriorClose(e)')]
           X == DividendDays(d, 2..today)
           Y == {e \in 2..t : e > d /\ dividends'[e] # Zero}
           f == [e \in Y |-> One \ominus (dividends'[e] \oslash PriorClose(e)')]
<1>1. /\ today \in Nat \ {0} /\ t = today + 1 /\ 2..t = (2..today) \cup {t}
      /\ t \notin 2..today /\ dividends'[t] = a
      /\ \A e \in 2..today : dividends'[e] = dividends[e]
  BY DayExtends
<1>2. /\ \A e \in 2..today : PriorClose(e)' = PriorClose(e)
      /\ PriorClose(t)' = prior /\ Positive(prior)
  BY <1>1, PriorCloses
<1>3. a \in Fractions /\ a \prec prior
  BY DEF Brings, ProperActions
<1>4. d < t
  <2>1. today \in Nat /\ d \in 1..today /\ t = today + 1
    BY <1>1 DEF DataInv
  <2> QED BY <2>1
<1>5. DividendFactor(d, 2..t)' = Product(f)
  BY <1>1 DEF DividendFactor
<1>6. X = {e \in 2..today : e > d /\ dividends[e] # Zero}
  BY DEF DividendDays
<1>7. Y = X \cup (IF a = Zero THEN {} ELSE {t}) /\ t \notin X
  BY <1>1, <1>4, <1>6
<1>8. IsFiniteSet(X) /\ DividendFactor(d, 2..today) = MulOver(DividendTerms, X)
  BY <1>1, FactorsAre
<1>9. IsFiniteSet(Y)
  <2>1. Y = X \/ Y = X \cup {t}
    BY <1>7
  <2> HIDE DEF X, Y
  <2> QED BY <1>8, <2>1, FS_AddElement
<1>10. Product(f) = MulOver(w, Y)
  <2>1. DOMAIN f = Y /\ \A e \in Y : f[e] = w[e]
    OBVIOUS
  <2> HIDE DEF f, w, Y
  <2> QED BY <1>9, <2>1, ProductIs
<1>11. \A e \in X : w[e] = DividendTerms[e] /\ Positive(DividendTerms[e])
  <2> SUFFICES ASSUME NEW e \in X PROVE w[e] = DividendTerms[e] /\ Positive(DividendTerms[e])
    OBVIOUS
  <2>1. e \in 2..today /\ e \in 2..t
    BY <1>1, <1>6
  <2>2. /\ w[e] = One \ominus (dividends[e] \oslash PriorClose(e))
        /\ DividendTerms[e] = One \ominus (dividends[e] \oslash PriorClose(e))
    BY <1>1, <1>2, <2>1 DEF DividendTerms
  <2> QED BY <2>1, <2>2, TermsPositive
<1>12. w[t] = One \ominus (a \oslash prior)
  BY <1>1, <1>2
<1>13. k = prior \oslash (prior \ominus a)
  BY DEF Reinvests
<1> HIDE DEF w, X, Y, f, k, prior
<1>14. /\ Positive(w[t]) /\ Positive(prior \ominus a) /\ Positive(k)
       /\ Even(w[t] \otimes k, One)
  BY <1>2, <1>3, <1>12, <1>13, Reinvested
<1>15. CASE a = Zero
  <2>1. Y = X
    BY <1>7, <1>15
  <2> DEFINE q == prior \ominus a
  <2>2. prior \in Fractions /\ q \in Fractions /\ Positive(q)
    BY <1>2, <1>14 DEF Positive
  <2>3. Even(q, prior)
    BY <1>15, <2>2, EvenUnits
  <2> HIDE DEF q
  <2>4. Even(k \otimes q, prior)
    BY <1>13, <2>2, OverUndoes DEF q
  <2>5. Even(k, One)
    BY <1>2, <1>14, <2>2, <2>3, <2>4, ReinvestsNothing
  <2>6. MulOver(w, X) \otimes k = MulOver(DividendTerms, X) \otimes One
    BY <1>8, <1>11, <1>14, <2>5, ProductStays
  <2>7. Positive(MulOver(w, Y))
    <3>1. \A e \in Y : Positive(w[e])
      BY <1>11, <2>1
    <3> QED BY <1>9, <3>1, MulPositive
  <2> QED BY <1>5, <1>8, <1>10, <1>14, <2>1, <2>6, <2>7 DEF k
<1>16. CASE a # Zero
  <2>1. Y = X \cup {t}
    BY <1>7, <1>16
  <2>2. MulOver(w, X \cup {t}) \otimes k = MulOver(DividendTerms, X) \otimes One
    BY <1>7, <1>8, <1>11, <1>14, ProductGrows
  <2>3. Positive(MulOver(w, Y))
    <3>1. \A e \in Y : Positive(w[e])
      BY <1>11, <1>14, <2>1
    <3> QED BY <1>9, <3>1, MulPositive
  <2> QED BY <1>5, <1>8, <1>10, <1>14, <2>1, <2>2, <2>3 DEF k
<1> QED BY <1>15, <1>16

(* What the holder gains is what the factors lose.                         *)
LEMMA HolderFollows ==
    ASSUME NEW c \in Fractions, NEW f \in Fractions, NEW s \in Fractions, NEW g \in Fractions
    PROVE  (c \otimes f) \otimes (s \otimes g) = (c \otimes (f \otimes g)) \otimes s
<1> DEFINE cf == c \otimes f
           fg == f \otimes g
<1>1. cf \in Fractions /\ fg \in Fractions
  BY FractionsClosed
<1>2. cf \otimes g = c \otimes fg
  BY TimesCommutes
<1>3. s \otimes g = g \otimes s
  BY TimesCommutes
<1> HIDE DEF cf, fg
<1>4. (cf \otimes g) \otimes s = cf \otimes (g \otimes s)
  BY <1>1, TimesCommutes
<1> QED BY <1>2, <1>3, <1>4 DEF cf, fg

LEMMA FactorGrows ==
    ASSUME ProperActions, DataInv, NEW p, NEW r, NEW a, Brings(p, r, a),
           NEW d \in Sessions, NEW t, t = today'
    PROVE  /\ Factor(d, 2..t, 2..t)' \otimes (r \otimes Reinvests(a))
                = Factor(d, 2..today, 2..today)
           /\ Positive(Factor(d, 2..t, 2..t)')
<1> DEFINE S == SplitFactor(d, 2..today)
           D == DividendFactor(d, 2..today)
           U == SplitFactor(d, 2..t)'
           V == DividendFactor(d, 2..t)'
           k == Reinvests(a)
<1>1. U \otimes r = S \otimes One /\ Positive(U) /\ Positive(r)
  BY SplitGrows
<1>2. V \otimes k = D \otimes One /\ Positive(V) /\ Positive(k)
  BY DividendGrows
<1>3. Positive(S) /\ Positive(D)
  BY FactorsPositive
<1>4. /\ Factor(d, 2..t, 2..t)' = U \otimes V
      /\ Factor(d, 2..today, 2..today) = S \otimes D
  BY DEF Factor
<1> HIDE DEF S, D, U, V, k
<1>5. /\ S \in Fractions /\ D \in Fractions /\ U \in Fractions /\ V \in Fractions
      /\ k \in Fractions /\ r \in Fractions /\ One \in Fractions
  BY <1>1, <1>2, <1>3, OnePositive DEF Positive
<1>6. (U \otimes V) \otimes (r \otimes k) = (U \otimes r) \otimes (V \otimes k)
  BY <1>5, TimesSwaps
<1>7. Even(S \otimes One, S) /\ Even(D \otimes One, D)
  BY <1>5, EvenUnits
<1>8. S \otimes One \in Fractions /\ D \otimes One \in Fractions
  BY <1>5, FractionsClosed
<1>9. (S \otimes One) \otimes (D \otimes One) = S \otimes D
  BY <1>5, <1>7, <1>8, EvenComputes
<1>10. Positive(U \otimes V)
  BY <1>1, <1>2, TimesPositive
<1> QED BY <1>1, <1>2, <1>4, <1>6, <1>9, <1>10 DEF k

(* On the day itself nothing is adjusted.                                  *)
LEMMA NoFactors ==
    ASSUME NEW f, DOMAIN f = {}
    PROVE  Product(f) = One
<1>1. IsFiniteSet({})
  BY FS_EmptySet
<1>2. Product(f) = MulOver(f, {})
  BY <1>1, ProductIs
<1> QED BY <1>2, MulEmpty

LEMMA LastFactor ==
    ASSUME DataInv
    PROVE  Factor(today, 2..today, 2..today) = One \otimes One
<1> DEFINE f == [e \in {e \in 2..today : e > today /\ splits[e] # One} |-> One \oslash splits[e]]
           g == [e \in {e \in 2..today : e > today /\ dividends[e] # Zero} |->
                    One \ominus (dividends[e] \oslash PriorClose(e))]
<1>1. \A e \in 2..today : ~ (e > today)
  BY DEF DataInv
<1>2. DOMAIN f = {} /\ DOMAIN g = {}
  BY <1>1
<1>3. SplitFactor(today, 2..today) = Product(f) /\ DividendFactor(today, 2..today) = Product(g)
  BY DEF SplitFactor, DividendFactor
<1> HIDE DEF f, g
<1>4. Product(f) = One /\ Product(g) = One
  BY <1>2, NoFactors
<1> QED BY <1>3, <1>4 DEF Factor

LEMMA NextFactor ==
    ASSUME ProperActions, DataInv, NEW p, NEW r, NEW a, Brings(p, r, a), NEW t, t = today'
    PROVE  Factor(t, 2..t, 2..t)' = One \otimes One
<1> DEFINE f == [e \in {e \in 2..t : e > t /\ splits'[e] # One} |-> One \oslash splits'[e]]
           g == [e \in {e \in 2..t : e > t /\ dividends'[e] # Zero} |->
                    One \ominus (dividends'[e] \oslash PriorClose(e)')]
<1>1. \A e \in 2..t : ~ (e > t)
  <2>1. t \in Nat
    BY DEF DataInv, Brings
  <2> QED BY <2>1
<1>2. DOMAIN f = {} /\ DOMAIN g = {}
  BY <1>1
<1>3. SplitFactor(t, 2..t)' = Product(f) /\ DividendFactor(t, 2..t)' = Product(g)
  BY DEF SplitFactor, DividendFactor
<1> HIDE DEF f, g
<1>4. Product(f) = One /\ Product(g) = One
  BY <1>2, NoFactors
<1> QED BY <1>3, <1>4 DEF Factor

LEMMA DayKeepsData ==
    ASSUME ProperActions, DataInv, NEW p, NEW r, NEW a, Brings(p, r, a)
    PROVE  DataInv'
<1> DEFINE t == today'
           s == (shares \otimes r) \otimes Holds(a)
<1>1. Positive(r) /\ a \in Fractions
  BY DEF Brings, ProperActions
<1>2. shares' = s /\ Positive(s) /\ Positive(fair')
  <2>1. shares' = s
    BY DEF Brings, Holds
  <2>2. Positive(Holds(a)) /\ Positive(fair \ominus a)
    BY <1>1, Reinvested DEF Holds, Brings, DataInv
  <2>3. Positive(shares)
    BY DEF DataInv
  <2>4. Positive(fair')
    <3>1. CASE p = Closed
      <4>1. Positive((fair \ominus a) \oslash r)
        BY <1>1, <2>2, OverUndoes DEF Positive
      <4> QED BY <3>1, <4>1 DEF Brings
    <3>2. CASE p # Closed
      BY <3>2 DEF Brings, ProperActions
    <3> QED BY <3>1, <3>2
  <2> QED BY <1>1, <2>1, <2>2, <2>3, <2>4, TimesPositive
<1>3. /\ today \in Nat \ {0} /\ t = today + 1 /\ t <= MaxDay
      /\ 2..t = (2..today) \cup {t}
      /\ DOMAIN splits' = 2..t /\ DOMAIN dividends' = 2..t
      /\ DOMAIN wealth' = Sessions'
  BY DayExtends
<1>4. Sessions' \subseteq 1..t /\ 1 \in Sessions'
  <2>1. Sessions \subseteq 1..today /\ 1 \in Sessions
    BY DEF DataInv
  <2>2. Sessions' = Sessions \/ Sessions' = Sessions \cup {t}
    BY DayExtends
  <2>3. 1..today \subseteq 1..t /\ t \in 1..t
    BY <1>3
  <2> QED BY <2>1, <2>2, <2>3
<1>5. \A d \in Sessions' : closes'[d] \in Prices /\ Positive(wealth'[d])
  <2>1. \A d \in Sessions : closes'[d] \in Prices /\ Positive(wealth'[d])
    BY DayExtends DEF DataInv
  <2>2. CASE p = Closed
    <3>1. Sessions' = Sessions
      BY <2>2, DayExtends
    <3> QED BY <2>1, <3>1
  <2>3. CASE p # Closed
    <3>1. Sessions' = Sessions \cup {t} /\ closes'[t] = p /\ wealth'[t] = shares' \otimes p
          /\ p \in Prices
      BY <2>3, DayExtends
    <3>2. Positive(wealth'[t])
      BY <1>2, <3>1, TimesPositive DEF ProperActions
    <3> QED BY <2>1, <3>1, <3>2
  <2> QED BY <2>2, <2>3
<1>6. ASSUME NEW e \in 2..t
      PROVE  /\ Positive(splits'[e]) /\ dividends'[e] \in Fractions
             /\ dividends'[e] \prec PriorClose(e)'
  <2>1. CASE e \in 2..today
    <3>1. Positive(splits[e]) /\ dividends[e] \in Fractions /\ dividends[e] \prec PriorClose(e)
      BY <2>1 DEF DataInv
    <3>2. splits'[e] = splits[e] /\ dividends'[e] = dividends[e]
      BY <2>1, DayExtends
    <3>3. PriorClose(e)' = PriorClose(e)
      BY <2>1, PriorCloses
    <3> QED BY <3>1, <3>2, <3>3
  <2>2. CASE e = t
    <3>1. splits'[e] = r /\ dividends'[e] = a
      BY <2>2, DayExtends
    <3>2. PriorClose(e)' = closes[Latest(Sessions)]
      BY <2>2, PriorCloses
    <3>3. a \prec closes[Latest(Sessions)]
      BY DEF Brings
    <3> QED BY <1>1, <3>1, <3>2, <3>3
  <2> QED BY <1>3, <2>1, <2>2
<1>7. t \in Nat \ {0}
  BY <1>3
<1> QED BY <1>2, <1>3, <1>4, <1>5, <1>6, <1>7 DEF DataInv

LEMMA Unadjusted ==
    ASSUME NEW c \in Fractions, NEW f \in Fractions, Even(f, One), NEW s \in Fractions
    PROVE  Even((c \otimes f) \otimes s, s \otimes c)
<1>1. One \in Fractions
  BY OnePositive DEF Positive
<1>2. Even(c, c) /\ Even(c \otimes One, c)
  BY EvenOrders, EvenUnits
<1>3. c \otimes f = c \otimes One
  BY <1>1, <1>2, EvenComputes
<1> DEFINE x == c \otimes f
<1>4. x \in Fractions /\ Even(x, c)
  BY <1>2, <1>3, FractionsClosed
<1> HIDE DEF x
<1>5. Even(s, s) /\ s \otimes c \in Fractions
  BY EvenOrders, FractionsClosed
<1>6. x \otimes s = c \otimes s /\ c \otimes s = s \otimes c
  BY <1>4, <1>5, EvenComputes, TimesCommutes
<1> QED BY <1>5, <1>6, EvenOrders DEF x

(* A dividend that follows no other action finds the last close.           *)
LEMMA FollowsNone ==
    ASSUME ProperActions, DataInv, NEW p, NEW r, NEW a, Brings(p, r, a), Undisturbed'
    PROVE  /\ Undisturbed
           /\ a # Zero => \A f \in 2..today : (\A d \in Sessions : d < f) => Quiet(f)
<1> DEFINE t == today'
<1>1. /\ today \in Nat \ {0} /\ t = today + 1
      /\ 2..t = (2..today) \cup {t} /\ DOMAIN splits' = 2..t
      /\ dividends'[t] = a
      /\ \A e \in 2..today : splits'[e] = splits[e] /\ dividends'[e] = dividends[e]
      /\ Sessions' = Sessions \/ Sessions' = Sessions \cup {t}
  BY DayExtends
<1>2. DOMAIN splits = 2..today
  BY DEF DataInv
<1>3. \A e, f \in 2..t :
         dividends'[e] # Zero /\ f < e /\ (\A d \in Sessions' : ~(f <= d /\ d < e))
         => splits'[f] = One /\ dividends'[f] = Zero
  BY <1>1 DEF Undisturbed
<1> HIDE DEF t
<1>4. Undisturbed
  <2>1. ASSUME NEW e \in 2..today, NEW f \in 2..today, dividends[e] # Zero, f < e,
               \A d \in Sessions : ~(f <= d /\ d < e)
        PROVE  splits[f] = One /\ dividends[f] = Zero
    <3>1. ~(t < e)
      BY <1>1
    <3>2. \A d \in Sessions' : ~(f <= d /\ d < e)
      BY <1>1, <2>1, <3>1
    <3> QED BY <1>1, <1>3, <2>1, <3>2
  <2> QED BY <1>2, <2>1 DEF Undisturbed
<1>5. ASSUME a # Zero, NEW f \in 2..today, \A d \in Sessions : d < f
      PROVE  Quiet(f)
  <2>1. f < t /\ f \in 2..t /\ t \in 2..t
    BY <1>1
  <2>2. \A d \in Sessions' : ~(f <= d /\ d < t)
    <3>1. ASSUME NEW d \in Sessions PROVE ~(f <= d)
      <4>1. d \in Nat /\ f \in Nat /\ d < f
        BY <1>1, <1>5 DEF DataInv
      <4> QED BY <4>1
    <3>2. ~(t < t)
      BY <1>1
    <3> QED BY <1>1, <3>1, <3>2
  <2>3. splits'[f] = One /\ dividends'[f] = Zero
    BY <1>1, <1>3, <1>5, <2>1, <2>2
  <2> QED BY <1>1, <2>3 DEF Quiet
<1> QED BY <1>4, <1>5

(* Without a dividend nothing is reinvested, whatever a share is worth.    *)
LEMMA NothingHeld ==
    ASSUME NEW x, Positive(x), NEW a, a = Zero
    PROVE  Positive(x \oslash (x \ominus a)) /\ Even(x \oslash (x \ominus a), One)
<1> DEFINE q == x \ominus a
           k == x \oslash q
<1>1. x \in Fractions /\ a \in Fractions /\ Zero \prec x
  BY FractionsClosed DEF Positive
<1>2. Positive(q) /\ Positive(k)
  BY <1>1, Reinvested
<1>3. q \in Fractions /\ Even(q, x)
  BY <1>1, <1>2, EvenUnits DEF Positive
<1> HIDE DEF q
<1>4. Even(k \otimes q, x)
  BY <1>1, <1>2, OverUndoes
<1> HIDE DEF k
<1>5. Even(k, One)
  BY <1>2, <1>3, <1>4, ReinvestsNothing
<1> QED BY <1>2, <1>5 DEF k, q

(* What the factor takes for what a dividend is worth to a holder is it.   *)
LEMMA HolderReinvests ==
    ASSUME ProperActions, DataInv, FairInv, NEW p, NEW r, NEW a, Brings(p, r, a),
           Undisturbed', NEW s \in Fractions
    PROVE  s \otimes Holds(a) = s \otimes Reinvests(a)
<1> DEFINE prior == closes[Latest(Sessions)]
           h == fair \oslash (fair \ominus a)
           k == prior \oslash (prior \ominus a)
<1>1. Positive(fair) /\ Positive(prior) /\ a \in Fractions /\ a \prec prior /\ a \prec fair
  BY PriorCloses DEF DataInv, Brings, ProperActions
<1>2. Holds(a) = h /\ Reinvests(a) = k
  BY DEF Holds, Reinvests
<1>3. fair \in Fractions /\ prior \in Fractions
  BY <1>1 DEF Positive
<1>4. CASE a = Zero
  <2>1. Positive(h) /\ Even(h, One) /\ Positive(k) /\ Even(k, One)
    <3> HIDE DEF prior
    <3> QED BY <1>1, <1>4, NothingHeld
  <2> HIDE DEF h, k
  <2>2. h \in Fractions /\ k \in Fractions /\ One \in Fractions
    BY <2>1, OnePositive DEF Positive
  <2>3. Even(h, k) /\ Even(s, s)
    BY <2>1, <2>2, EvenOrders
  <2> QED BY <1>2, <2>2, <2>3, EvenComputes
<1>5. CASE a # Zero
  <2>1. Even(fair, prior)
    BY <1>5, FollowsNone DEF FairInv
  <2> HIDE DEF prior
  <2>2. Even(a, a)
    BY <1>1, EvenOrders
  <2>3. fair \ominus a = prior \ominus a
    BY <1>1, <1>3, <2>1, <2>2, EvenComputes
  <2> DEFINE q == prior \ominus a
             i == Inverted(q)
  <2>4. h = fair \otimes i /\ k = prior \otimes i
    BY <2>3 DEF \oslash
  <2>5. q \in Fractions /\ Zero \prec q
    BY <1>1, Reinvested DEF Positive
  <2>6. i \in Fractions
    <3> HIDE DEF q
    <3> QED BY <2>5, FractionsClosed
  <2> HIDE DEF i, q, h, k
  <2>7. h = k
    BY <1>3, <2>1, <2>4, <2>6, EvenOrders, EvenComputes
  <2> QED BY <1>2, <2>7
<1> QED BY <1>4, <1>5

LEMMA DayKeepsFair ==
    ASSUME ProperActions, DataInv, FairInv, NEW p, NEW r, NEW a, Brings(p, r, a),
           NEW t, t = today'
    PROVE  FairInv'
<1> DEFINE prior == closes[Latest(Sessions)]
           last == Latest(Sessions)
<1>1. /\ today \in Nat \ {0} /\ t = today + 1 /\ t \notin Sessions
      /\ 2..t = (2..today) \cup {t} /\ dividends'[t] = a /\ splits'[t] = r
      /\ \A e \in 2..today : splits'[e] = splits[e] /\ dividends'[e] = dividends[e]
  BY DayExtends
<1>2. Sessions \subseteq 1..today /\ Positive(fair) /\ Positive(prior) /\ last \in Sessions
      /\ a \in Fractions
  BY PriorCloses DEF DataInv, Brings, ProperActions
<1>3. CASE p = Closed
  <2> SUFFICES ASSUME \A f \in 2..t : (\A d \in Sessions' : d < f) => Quiet(f)'
               PROVE  Even(fair', closes'[Latest(Sessions')])
    BY DEF FairInv
  <2>1. Sessions' = Sessions /\ closes'[last] = prior
    BY <1>2, <1>3, DayExtends
  <2>2. \A f \in 2..today : (\A d \in Sessions : d < f) => Quiet(f)
    BY <1>1, <2>1 DEF Quiet
  <2>3. Even(fair, prior)
    BY <2>2 DEF FairInv
  <2>4. a = Zero /\ r = One
    <3>1. \A d \in Sessions' : d < t
      BY <1>1, <1>2, <2>1
    <3>2. Quiet(t)'
      BY <1>1, <3>1
    <3>3. splits'[t] = One /\ dividends'[t] = Zero
      BY <3>2 DEF Quiet
    <3> QED BY <1>1, <3>3
  <2> DEFINE q == fair \ominus a
             g == q \oslash r
  <2>5. fair' = g
    BY <1>3 DEF Brings
  <2>6. fair \in Fractions /\ prior \in Fractions /\ q \in Fractions
    BY <1>2, FractionsClosed DEF Positive
  <2>7. Even(q, fair)
    BY <2>4, <2>6, EvenUnits
  <2>8. g \in Fractions /\ Even(g \otimes One, q)
    <3> HIDE DEF q
    <3> QED BY <2>4, <2>6, OverUndoes, OnePositive
  <2> HIDE DEF q, g, prior, last
  <2>9. Even(g \otimes One, g) /\ g \otimes One \in Fractions
    BY <2>8, EvenUnits, FractionsClosed
  <2>10. Even(g, q)
    BY <2>6, <2>8, <2>9, EvenOrders
  <2>11. Even(g, prior)
    BY <2>3, <2>6, <2>7, <2>8, <2>10, EvenOrders
  <2> QED BY <2>1, <2>5, <2>11 DEF last
<1>4. CASE p # Closed
  <2>1. fair' = p /\ p \in Fractions
    BY <1>4 DEF Brings, ProperActions, Positive
  <2>2. Sessions' = Sessions \cup {t} /\ closes'[t] = p
    BY <1>4, DayExtends
  <2>3. Latest(Sessions') = t
    <3>1. t \in Nat /\ Sessions' \subseteq 1..t /\ t \in Sessions'
      BY <1>1, <1>2, <2>2
    <3>2. PICK m : m = Latest(Sessions')
      OBVIOUS
    <3>3. m \in Sessions' /\ t <= m
      BY <3>1, <3>2, LatestIn
    <3>4. m \in 1..t
      BY <3>1, <3>3
    <3>5. m = t
      BY <3>1, <3>3, <3>4
    <3> QED BY <3>2, <3>5
  <2>4. Even(p, p)
    BY <2>1, EvenOrders
  <2>5. Even(fair', closes'[Latest(Sessions')])
    BY <2>1, <2>2, <2>3, <2>4
  <2> QED BY <2>5 DEF FairInv
<1> QED BY <1>3, <1>4

(* The holder, priced at the adjusted close of any session, stays where he *)
(* is.                                                                     *)
LEMMA DayKeepsWealth ==
    ASSUME ProperActions, DataInv, FairInv, WealthInv,
           NEW p, NEW r, NEW a, Brings(p, r, a), NEW t, t = today', Undisturbed'
    PROVE  WealthInv'
<1> DEFINE k == Reinvests(a)
           g == r \otimes k
<1>1. /\ Positive(r) /\ Positive(k) /\ Positive(shares)
      /\ shares' = (shares \otimes r) \otimes k
  <2>1. 1 \in Sessions /\ Positive(shares)
    BY DEF DataInv
  <2>2. Positive(r) /\ Positive(k)
    BY <2>1, SplitGrows, DividendGrows
  <2> DEFINE s == shares \otimes r
  <2>3. s \in Fractions
    BY <2>1, <2>2, FractionsClosed DEF Positive
  <2>4. shares' = s \otimes Holds(a)
    BY DEF Brings, Holds
  <2> HIDE DEF s
  <2>5. s \otimes Holds(a) = s \otimes k
    BY <2>3, HolderReinvests
  <2> QED BY <2>1, <2>2, <2>4, <2>5 DEF s
<1>2. r \in Fractions /\ k \in Fractions /\ shares \in Fractions /\ g \in Fractions
  BY <1>1, FractionsClosed DEF Positive
<1>3. shares' = shares \otimes g
  BY <1>1, <1>2, TimesCommutes
<1>4. ASSUME NEW d \in Sessions
      PROVE  Even((closes'[d] \otimes Factor(d, 2..t, 2..t)') \otimes shares', wealth'[d])
  <2> DEFINE c == closes[d]
             F == Factor(d, 2..t, 2..t)'
             G == Factor(d, 2..today, 2..today)
  <2>1. F \otimes g = G /\ Positive(F)
    BY FactorGrows
  <2>2. closes'[d] = c /\ wealth'[d] = wealth[d]
    BY DayExtends
  <2>3. Even((c \otimes G) \otimes shares, wealth[d])
    BY FollowsNone DEF WealthInv
  <2>4. c \in Fractions /\ F \in Fractions
    BY <2>1 DEF DataInv, ProperActions, Positive
  <2> HIDE DEF c, F, G, g
  <2>5. (c \otimes F) \otimes (shares \otimes g) = (c \otimes G) \otimes shares
    BY <1>2, <2>1, <2>4, HolderFollows
  <2> QED BY <1>3, <2>2, <2>3, <2>5 DEF F
<1>5. ASSUME p # Closed
      PROVE  Even((closes'[t] \otimes Factor(t, 2..t, 2..t)') \otimes shares', wealth'[t])
  <2> DEFINE F == Factor(t, 2..t, 2..t)'
             s == shares'
             U == One \otimes One
  <2>1. closes'[t] = p /\ wealth'[t] = s \otimes p /\ p \in Prices
    BY <1>5, DayExtends
  <2>2. F = U
    BY NextFactor
  <2>3. p \in Fractions /\ s \in Fractions /\ One \in Fractions
    BY <1>2, <1>3, <2>1, OnePositive, FractionsClosed DEF ProperActions, Positive
  <2>4. U \in Fractions /\ Even(U, One)
    BY <2>3, FractionsClosed, EvenUnits
  <2> HIDE DEF F, U, s
  <2>5. Even((p \otimes U) \otimes s, s \otimes p)
    BY <2>3, <2>4, Unadjusted
  <2> QED BY <2>1, <2>2, <2>5 DEF F, s
<1>6. ASSUME NEW d \in Sessions'
      PROVE  Even((closes'[d] \otimes Factor(d, 2..t, 2..t)') \otimes shares', wealth'[d])
  <2>1. d \in Sessions \/ (p # Closed /\ d = t)
    BY DayExtends
  <2> QED BY <1>4, <1>5, <2>1
<1> HIDE DEF k, g
<1>7. WealthInv' <=> (Undisturbed' => \A d \in Sessions' :
        Even((closes'[d] \otimes Factor(d, 2..t, 2..t)') \otimes shares', wealth'[d]))
  BY DEF WealthInv
<1> QED BY <1>6, <1>7


LEMMA StartsUnadjusted ==
    ASSUME ProperActions, Init
    PROVE  DataInv /\ FairInv /\ WealthInv
<1>1. PICK p \in Prices : /\ closes = [d \in {1} |-> p] /\ wealth = [d \in {1} |-> p]
                          /\ fair = p
  BY DEF Init
<1>2. /\ today = 1 /\ splits = [d \in {} |-> One] /\ dividends = [d \in {} |-> Zero]
      /\ shares = One
  BY DEF Init
<1>3. Sessions = {1} /\ closes[1] = p /\ wealth[1] = p /\ DOMAIN wealth = {1}
  BY <1>1 DEF Sessions
<1>4. Positive(p) /\ Positive(One) /\ p \in Fractions /\ One \in Fractions
  BY OnePositive DEF ProperActions, Positive
<1>5. DataInv
  <2>1. 2..today = {}
    BY <1>2
  <2>2. DOMAIN splits = {} /\ DOMAIN dividends = {}
    BY <1>2
  <2>3. today \in Nat \ {0} /\ today <= MaxDay /\ {1} \subseteq 1..today
    BY <1>2 DEF ProperActions
  <2> QED BY <1>1, <1>2, <1>3, <1>4, <2>1, <2>2, <2>3 DEF DataInv
<1>6. Factor(1, 2..today, 2..today) = One \otimes One
  BY <1>2, <1>5, LastFactor
<1> DEFINE U == One \otimes One
<1>7. U \in Fractions /\ Even(U, One)
  BY <1>4, FractionsClosed, EvenUnits
<1>8. One \otimes p = p \otimes One /\ Even(p \otimes One, p) /\ p \otimes One \in Fractions
  BY <1>4, TimesCommutes, EvenUnits, FractionsClosed
<1> HIDE DEF U
<1>9. Even((p \otimes U) \otimes One, p)
  <2>1. Even((p \otimes U) \otimes One, One \otimes p)
    BY <1>4, <1>7, Unadjusted
  <2>2. (p \otimes U) \otimes One \in Fractions
    BY <1>4, <1>7, FractionsClosed
  <2> QED BY <1>4, <1>8, <2>1, <2>2, EvenOrders
<1>10. WealthInv
  BY <1>2, <1>3, <1>6, <1>9 DEF WealthInv, U
<1>11. FairInv
  <2>1. 1 \in Nat /\ {1} \in SUBSET (1..1) /\ {1} # {}
    OBVIOUS
  <2>2. Latest(Sessions) = 1
    BY <1>3, <2>1, LatestIn
  <2>3. Even(p, p)
    BY <1>4, EvenOrders
  <2> QED BY <1>1, <1>3, <2>2, <2>3 DEF FairInv
<1> QED BY <1>5, <1>10, <1>11

AdjustmentsInv == DataInv /\ FairInv /\ WealthInv

LEMMA DayKeeps ==
    ASSUME ProperActions, AdjustmentsInv, [Next]_vars
    PROVE  AdjustmentsInv'
<1>1. CASE UNCHANGED vars
  BY <1>1 DEF AdjustmentsInv, DataInv, FairInv, Quiet, WealthInv, Undisturbed, vars,
              Sessions, Factor, SplitFactor, DividendFactor, PriorClose
<1>2. CASE NextDay
  <2>1. PICK p, r, a : Brings(p, r, a)
    BY <1>2, DayBrings
  <2>2. DataInv'
    BY <2>1, DayKeepsData DEF AdjustmentsInv
  <2>3. PICK t : t = today'
    OBVIOUS
  <2>4. FairInv'
    BY <2>1, <2>3, DayKeepsFair DEF AdjustmentsInv
  <2>5. WealthInv'
    <3>1. CASE Undisturbed'
      BY <2>1, <2>3, <3>1, DayKeepsWealth DEF AdjustmentsInv
    <3>2. CASE ~Undisturbed'
      BY <3>2 DEF WealthInv
    <3> QED BY <3>1, <3>2
  <2> QED BY <2>2, <2>4, <2>5 DEF AdjustmentsInv
<1> QED BY <1>1, <1>2 DEF Next

LEMMA AdjustmentsStay == ProperActions => (Spec => []AdjustmentsInv)
<1> SUFFICES ASSUME ProperActions PROVE Spec => []AdjustmentsInv
  OBVIOUS
<1>1. Init => AdjustmentsInv
  BY StartsUnadjusted DEF AdjustmentsInv
<1>2. AdjustmentsInv /\ [Next]_vars => AdjustmentsInv'
  BY DayKeeps
<1> QED BY <1>1, <1>2, PTL DEF Spec

-----------------------------------------------------------------------------
(* 3. Returns.                                                             *)

(* c, the close of a day; g, its factor; s, what one share has become; w,  *)
(* what it was worth on the day.                                           *)
Priced(c, g, s, w) ==
    /\ Positive(c) /\ Positive(g) /\ Positive(s) /\ Positive(w)
    /\ Even((c \otimes g) \otimes s, w)

LEMMA PricedTimes ==
    ASSUME NEW k, NEW i, NEW s, NEW v, Priced(k, i, s, v),
           NEW c \in Fractions, NEW f \in Fractions
    PROVE  (c \otimes f) \otimes v = ((c \otimes k) \otimes (f \otimes i)) \otimes s
<1> DEFINE cf == c \otimes f
           ki == k \otimes i
           x == ki \otimes s
<1>1. k \in Fractions /\ i \in Fractions /\ s \in Fractions /\ v \in Fractions /\ Even(x, v)
  BY DEF Priced, Positive
<1>2. cf \in Fractions /\ ki \in Fractions /\ x \in Fractions
  BY <1>1, FractionsClosed
<1>3. cf \otimes ki = (c \otimes k) \otimes (f \otimes i)
  BY <1>1, TimesSwaps
<1> HIDE DEF cf, ki
<1>4. (cf \otimes ki) \otimes s = cf \otimes (ki \otimes s)
  BY <1>1, <1>2, TimesCommutes
<1> HIDE DEF x
<1>5. cf \otimes x = cf \otimes v
  BY <1>1, <1>2, EvenOrders, EvenComputes
<1> QED BY <1>3, <1>4, <1>5 DEF cf, x

(* Two adjusted closes have the return of the holder when their factors    *)
(* are in proportion to those of all the actions.                          *)
LEMMA ReturnsByFactors ==
    ASSUME NEW s, NEW c, NEW g, NEW w, Priced(c, g, s, w),
           NEW k, NEW i, NEW v, Priced(k, i, s, v), NEW f \in Fractions, NEW h \in Fractions
    PROVE  (c \otimes f) \otimes v = (k \otimes h) \otimes w <=> f \otimes i = h \otimes g
<1> DEFINE m == c \otimes k
           x == f \otimes i
           y == h \otimes g
<1>1. /\ c \in Fractions /\ k \in Fractions /\ g \in Fractions /\ i \in Fractions
      /\ s \in Fractions /\ Positive(s) /\ Positive(m)
  BY TimesPositive DEF Priced, Positive
<1>2. m \in Fractions /\ x \in Fractions /\ y \in Fractions /\ m = k \otimes c
  BY <1>1, FractionsClosed, TimesCommutes
<1>3. (c \otimes f) \otimes v = (m \otimes x) \otimes s
  BY <1>1, PricedTimes
<1>4. (k \otimes h) \otimes w = (m \otimes y) \otimes s
  BY <1>1, <1>2, PricedTimes
<1>5. Even(x, y) <=> x = y
  BY <1>1, TimesSame
<1> HIDE DEF m, x, y
<1>6. x \otimes m = m \otimes x /\ y \otimes m = m \otimes y
  BY <1>2, TimesCommutes
<1>7. m \otimes x \in Fractions /\ m \otimes y \in Fractions
  BY <1>2, FractionsClosed
<1>8. (m \otimes x) \otimes s = (m \otimes y) \otimes s <=> Even(m \otimes x, m \otimes y)
  BY <1>1, <1>7, TimesCancels
<1>9. Even(m \otimes x, m \otimes y) <=> m \otimes x = m \otimes y
  BY <1>2, TimesSame
<1>10. x \otimes m = y \otimes m <=> Even(x, y)
  BY <1>1, <1>2, TimesCancels
<1>11. (m \otimes x) \otimes s = (m \otimes y) \otimes s <=> x = y
  BY <1>5, <1>6, <1>8, <1>9, <1>10
<1> QED BY <1>3, <1>4, <1>11 DEF x, y

(* What a factor is relative to that of the last session, taken from the   *)
(* adjusted close and the close, is proportional to the factor.            *)
LEMMA ImpliedIs ==
    ASSUME NEW c, Positive(c), NEW f, Positive(f)
    PROVE  /\ Positive((c \otimes f) \oslash c)
           /\ Even((c \otimes f) \oslash c, f)
<1> DEFINE cf == c \otimes f
           j == cf \oslash c
<1>1. c \in Fractions /\ f \in Fractions /\ Positive(cf) /\ cf \in Fractions
  BY TimesPositive DEF Positive
<1>2. cf = f \otimes c
  BY <1>1, TimesCommutes
<1>3. f \otimes c = cf /\ Even(cf, cf)
  BY <1>1, <1>2, EvenOrders
<1> HIDE DEF cf
<1>4. j \in Fractions /\ Even(j \otimes c, cf) /\ Positive(j)
  BY <1>1, OverUndoes
<1> HIDE DEF j
<1>5. j \otimes c = f \otimes c
  BY <1>1, <1>3, <1>4, TimesSame
<1>6. Even(j, f)
  BY <1>1, <1>4, <1>5, TimesCancels
<1> QED BY <1>4, <1>6 DEF j, cf

Adjusts(c, f, g) == Positive(c) /\ Positive(f) /\ Positive(g)

LEMMA ImpliedProportion ==
    ASSUME NEW c, NEW f, NEW g, Adjusts(c, f, g), NEW k, NEW h, NEW i, Adjusts(k, h, i)
    PROVE  ((c \otimes f) \oslash c) \oslash ((k \otimes h) \oslash k) = g \oslash i
             <=> f \otimes i = h \otimes g
<1> DEFINE j == (c \otimes f) \oslash c
           l == (k \otimes h) \oslash k
<1>0. /\ Positive(c) /\ Positive(f) /\ Positive(g)
      /\ Positive(k) /\ Positive(h) /\ Positive(i)
  BY DEF Adjusts
<1>1. Positive(j) /\ Even(j, f) /\ Positive(l) /\ Even(l, h)
  BY <1>0, ImpliedIs
<1> HIDE DEF j, l
<1>2. /\ j \in Fractions /\ f \in Fractions /\ l \in Fractions /\ h \in Fractions
      /\ g \in Fractions /\ i \in Fractions
  BY <1>0, <1>1 DEF Positive
<1>3. j \oslash l = g \oslash i <=> j \otimes i = g \otimes l
  BY <1>0, <1>1, <1>2, Proportion
<1>4. Even(i, i) /\ Even(g, g)
  BY <1>2, EvenOrders
<1>5. j \otimes i = f \otimes i
  BY <1>1, <1>2, <1>4, EvenComputes
<1>6. l \otimes g = h \otimes g
  BY <1>1, <1>2, <1>4, EvenComputes
<1>7. g \otimes l = l \otimes g
  BY <1>2, TimesCommutes
<1> QED BY <1>3, <1>5, <1>6, <1>7 DEF j, l

(* In proportion to a third, in proportion to each other.                  *)
LEMMA InProportion ==
    ASSUME NEW f \in Fractions, NEW g \in Fractions, NEW h \in Fractions, NEW i \in Fractions,
           NEW j, NEW k, Positive(j), Positive(k),
           f \otimes k = j \otimes g, h \otimes k = j \otimes i
    PROVE  f \otimes i = h \otimes g
<1> DEFINE kj == k \otimes j
           fi == f \otimes i
           hg == h \otimes g
           jg == j \otimes g
           ji == j \otimes i
<1>1. j \in Fractions /\ k \in Fractions /\ Positive(kj)
  BY TimesPositive DEF Positive
<1>2. fi \in Fractions /\ hg \in Fractions /\ jg \in Fractions /\ ji \in Fractions
  BY <1>1, FractionsClosed
<1>3. fi \otimes kj = (f \otimes k) \otimes (i \otimes j)
  BY <1>1, TimesSwaps
<1>4. hg \otimes kj = (h \otimes k) \otimes (g \otimes j)
  BY <1>1, TimesSwaps
<1>5. i \otimes j = ji /\ g \otimes j = jg
  BY <1>1, TimesCommutes
<1>6. jg \otimes ji = ji \otimes jg
  <2> HIDE DEF jg, ji
  <2> QED BY <1>2, TimesCommutes
<1>7. fi \otimes kj = hg \otimes kj
  BY <1>3, <1>4, <1>5, <1>6
<1>8. Even(fi, hg) <=> fi = hg
  BY TimesSame
<1> HIDE DEF fi, hg, kj
<1>9. Even(fi, hg)
  BY <1>1, <1>2, <1>7, TimesCancels
<1> QED BY <1>8, <1>9 DEF fi, hg


(* The factors of every session, from any of the actions.                  *)
LEMMA SessionIs ==
    ASSUME ProperActions, AdjustmentsInv, Undisturbed, NEW d \in Sessions,
           NEW S \in SUBSET (2..today), NEW D \in SUBSET (2..today)
    PROVE  /\ Priced(closes[d], Factor(d, 2..today, 2..today), shares, wealth[d])
           /\ Positive(closes[d])
           /\ Positive(Factor(d, S, D)) /\ Factor(d, S, D) \in Fractions
           /\ Positive(Factor(d, 2..today, 2..today))
           /\ Factor(d, 2..today, 2..today) \in Fractions
           /\ AdjustedClose(S, D)[d] = closes[d] \otimes Factor(d, S, D)
<1>1. DataInv /\ WealthInv
  BY DEF AdjustmentsInv
<1>2. Positive(closes[d]) /\ closes[d] \in Fractions /\ Positive(wealth[d]) /\ Positive(shares)
  BY <1>1 DEF DataInv, ProperActions, Positive
<1>3. /\ Positive(SplitFactor(d, S)) /\ Positive(DividendFactor(d, D))
      /\ Positive(Factor(d, S, D)) /\ Positive(Factor(d, 2..today, 2..today))
  BY <1>1, FactorsPositive
<1>4. Even((closes[d] \otimes Factor(d, 2..today, 2..today)) \otimes shares, wealth[d])
  BY <1>1 DEF WealthInv
<1>5. AdjustedClose(S, D)[d] = (closes[d] \otimes SplitFactor(d, S)) \otimes DividendFactor(d, D)
  BY DEF AdjustedClose
<1>6. (closes[d] \otimes SplitFactor(d, S)) \otimes DividendFactor(d, D)
        = closes[d] \otimes Factor(d, S, D)
  BY <1>2, <1>3, TimesCommutes DEF Factor, Positive
<1>7. Priced(closes[d], Factor(d, 2..today, 2..today), shares, wealth[d])
  BY <1>2, <1>3, <1>4 DEF Priced
<1> QED BY <1>2, <1>3, <1>5, <1>6, <1>7 DEF Positive

(* The returns are those of the holder when the factors are in proportion. *)
LEMMA ReturnsMeet ==
    ASSUME ProperActions, AdjustmentsInv, Undisturbed,
           NEW S \in SUBSET (2..today), NEW D \in SUBSET (2..today)
    PROVE  SameReturns(AdjustedClose(S, D)) <=>
             \A d, e \in Sessions :
                Factor(d, S, D) \otimes Factor(e, 2..today, 2..today)
                  = Factor(e, S, D) \otimes Factor(d, 2..today, 2..today)
<1>1. ASSUME NEW d \in Sessions, NEW e \in Sessions
      PROVE  AdjustedClose(S, D)[d] \otimes wealth[e] = AdjustedClose(S, D)[e] \otimes wealth[d]
               <=> Factor(d, S, D) \otimes Factor(e, 2..today, 2..today)
                     = Factor(e, S, D) \otimes Factor(d, 2..today, 2..today)
  <2>1. /\ Priced(closes[d], Factor(d, 2..today, 2..today), shares, wealth[d])
        /\ Factor(d, S, D) \in Fractions
        /\ AdjustedClose(S, D)[d] = closes[d] \otimes Factor(d, S, D)
    BY SessionIs
  <2>2. /\ Priced(closes[e], Factor(e, 2..today, 2..today), shares, wealth[e])
        /\ Factor(e, S, D) \in Fractions
        /\ AdjustedClose(S, D)[e] = closes[e] \otimes Factor(e, S, D)
    BY SessionIs
  <2> QED BY <2>1, <2>2, ReturnsByFactors
<1> QED BY <1>1 DEF SameReturns

(* Factors from some of the actions are, relative to those of a session,   *)
(* what the factors from all of them are.                                  *)
Relative(S, D, last) ==
    \A d \in Sessions :
        Factor(d, S, D) \otimes Factor(last, 2..today, 2..today)
          = Factor(last, S, D) \otimes Factor(d, 2..today, 2..today)

LEMMA ValidMeets ==
    ASSUME ProperActions, AdjustmentsInv, Undisturbed,
           NEW S \in SUBSET (2..today), NEW D \in SUBSET (2..today),
           NEW last, last = Latest(Sessions)
    PROVE  /\ last \in Sessions
           /\ ValidAdjustment(AdjustedClose(S, D)) <=> Relative(S, D, last)
<1> DEFINE adjusted == AdjustedClose(S, D)
<1>1. /\ today \in Nat /\ Sessions \subseteq 1..today /\ 1 \in Sessions
      /\ DOMAIN splits = 2..today /\ DOMAIN dividends = 2..today
  BY DEF AdjustmentsInv, DataInv
<1>2. last \in Sessions
  <2>1. Sessions \in SUBSET (1..today) /\ Sessions # {}
    BY <1>1
  <2> QED BY <1>1, <2>1, LatestIn
<1>3. ValidAdjustment(adjusted) <=>
        \A d \in Sessions :
          (adjusted[d] \oslash closes[d]) \oslash (adjusted[last] \oslash closes[last])
            = Factor(d, 2..today, 2..today) \oslash Factor(last, 2..today, 2..today)
  <2> HIDE DEF adjusted
  <2> QED BY <1>1, <1>2 DEF ValidAdjustment, Factor
<1>4. ASSUME NEW d \in Sessions
      PROVE  (adjusted[d] \oslash closes[d]) \oslash (adjusted[last] \oslash closes[last])
               = Factor(d, 2..today, 2..today) \oslash Factor(last, 2..today, 2..today)
             <=> Factor(d, S, D) \otimes Factor(last, 2..today, 2..today)
                   = Factor(last, S, D) \otimes Factor(d, 2..today, 2..today)
  <2>1. /\ Adjusts(closes[d], Factor(d, S, D), Factor(d, 2..today, 2..today))
        /\ adjusted[d] = closes[d] \otimes Factor(d, S, D)
    BY SessionIs DEF Adjusts
  <2>2. /\ Adjusts(closes[last], Factor(last, S, D), Factor(last, 2..today, 2..today))
        /\ adjusted[last] = closes[last] \otimes Factor(last, S, D)
    BY <1>2, SessionIs DEF Adjusts
  <2> HIDE DEF adjusted
  <2> QED BY <2>1, <2>2, ImpliedProportion
<1> DEFINE L(d) == (adjusted[d] \oslash closes[d]) \oslash (adjusted[last] \oslash closes[last])
                     = Factor(d, 2..today, 2..today) \oslash Factor(last, 2..today, 2..today)
           M(d) == Factor(d, S, D) \otimes Factor(last, 2..today, 2..today)
                     = Factor(last, S, D) \otimes Factor(d, 2..today, 2..today)
<1>5. \A d \in Sessions : L(d) <=> M(d)
  BY <1>4
<1>6. /\ ValidAdjustment(adjusted) <=> \A d \in Sessions : L(d)
      /\ Relative(S, D, last) <=> \A d \in Sessions : M(d)
  BY <1>3 DEF Relative
<1> HIDE DEF L, M
<1> QED BY <1>2, <1>5, <1>6

(***************************************************************************)
(* ReturnsMatch: where the inductive invariant holds, adjusted closes from *)
(* all actions have the returns of the holder, and validate_adjustment     *)
(* accepts those from some of them exactly when they have.                 *)
(***************************************************************************)
LEMMA ReturnsMatch ==
    ASSUME ProperActions, AdjustmentsInv
    PROVE  ReturnsArePreserved
<1> SUFFICES ASSUME Undisturbed
             PROVE  /\ SameReturns(AdjustedClose(DOMAIN splits, DOMAIN dividends))
                    /\ \A S \in SUBSET DOMAIN splits, D \in SUBSET DOMAIN dividends :
                          LET adjusted == AdjustedClose(S, D)
                          IN  ValidAdjustment(adjusted) <=> SameReturns(adjusted)
  BY DEF ReturnsArePreserved
<1>1. DOMAIN splits = 2..today /\ DOMAIN dividends = 2..today
  BY DEF AdjustmentsInv, DataInv
<1>2. SameReturns(AdjustedClose(2..today, 2..today))
  <2>1. ASSUME NEW d \in Sessions, NEW e \in Sessions
        PROVE  Factor(d, 2..today, 2..today) \otimes Factor(e, 2..today, 2..today)
                 = Factor(e, 2..today, 2..today) \otimes Factor(d, 2..today, 2..today)
    <3>1. /\ Factor(d, 2..today, 2..today) \in Fractions
          /\ Factor(e, 2..today, 2..today) \in Fractions
      BY SessionIs
    <3> QED BY <3>1, TimesCommutes
  <2> QED BY <2>1, ReturnsMeet
<1>3. ASSUME NEW S \in SUBSET (2..today), NEW D \in SUBSET (2..today)
      PROVE  ValidAdjustment(AdjustedClose(S, D)) <=> SameReturns(AdjustedClose(S, D))
  <2>1. PICK last : last = Latest(Sessions)
    OBVIOUS
  <2> DEFINE F(d) == Factor(d, S, D)
             G(d) == Factor(d, 2..today, 2..today)
  <2>2. /\ last \in Sessions
        /\ ValidAdjustment(AdjustedClose(S, D)) <=> Relative(S, D, last)
    BY <2>1, ValidMeets
  <2>3. SameReturns(AdjustedClose(S, D)) <=>
          \A d, e \in Sessions : F(d) \otimes G(e) = F(e) \otimes G(d)
    BY ReturnsMeet
  <2>4. \A d \in Sessions : Positive(F(d)) /\ Positive(G(d)) /\ F(d) \in Fractions /\ G(d) \in Fractions
    BY SessionIs
  <2>5. Relative(S, D, last) <=> \A d \in Sessions : F(d) \otimes G(last) = F(last) \otimes G(d)
    BY DEF Relative
  <2> HIDE DEF F, G
  <2>6. ASSUME \A d \in Sessions : F(d) \otimes G(last) = F(last) \otimes G(d),
               NEW d \in Sessions, NEW e \in Sessions
        PROVE  F(d) \otimes G(e) = F(e) \otimes G(d)
    <3>1. /\ F(d) \in Fractions /\ G(d) \in Fractions /\ F(e) \in Fractions /\ G(e) \in Fractions
          /\ Positive(F(last)) /\ Positive(G(last))
      BY <2>2, <2>4
    <3>2. F(d) \otimes G(last) = F(last) \otimes G(d) /\ F(e) \otimes G(last) = F(last) \otimes G(e)
      BY <2>6
    <3> QED BY <3>1, <3>2, InProportion
  <2> QED BY <2>2, <2>3, <2>5, <2>6
<1> QED BY <1>1, <1>2, <1>3

(***************************************************************************)
(* HolderReturns: apply_adjustments and validate_adjustment, at every time *)
(* and whatever actions come, on days with and without a session, as long  *)
(* as no dividend follows another action before the next session: adjusted *)
(* closes have the returns of a holder who reinvests, and a series is      *)
(* accepted exactly when it has them.                                      *)
(***************************************************************************)
THEOREM HolderReturns == ProperActions => (Spec => []ReturnsArePreserved)
<1> SUFFICES ASSUME ProperActions PROVE Spec => []ReturnsArePreserved
  OBVIOUS
<1>1. AdjustmentsInv => ReturnsArePreserved
  BY ReturnsMatch
<1> QED BY <1>1, AdjustmentsStay, PTL
=============================================================================
