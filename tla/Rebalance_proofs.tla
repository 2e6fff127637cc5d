-------------------------- MODULE Rebalance_proofs --------------------------
(***************************************************************************)
(* For any universe, prices, targets and caps, whatever the venue fills or *)
(* cancels, and however prices move meanwhile: a long-only account comes   *)
(* to owe only what prices took and never goes short, no fill takes it     *)
(* above its caps at the closes its order was sized on, and the gate       *)
(* accepts what sizing makes of a target it accepts.                       *)
(***************************************************************************)
EXTENDS Rebalance, Sums_proofs, FiniteSetTheorems, TLAPS

-----------------------------------------------------------------------------
(* Arithmetic.                                                             *)

LEMMA Products ==
    \A a, b, c \in Int : /\ a * b \in Int /\ a * b = b * a
                         /\ a * (b * c) = (a * b) * c
                         /\ (a + b) * c = a * c + b * c
                         /\ (a - b) * c = a * c - b * c
                         /\ (-a) * b = -(a * b)
OBVIOUS

LEMMA Grows ==
    ASSUME NEW a \in Int, NEW b \in Int, NEW k \in Nat
    PROVE  /\ a <= b => a * k <= b * k
           /\ a >= 0 => a * k >= 0
           /\ k # 0 /\ a * k <= b * k => a <= b
           /\ k # 0 /\ a * k >= 0 => a >= 0
OBVIOUS

LEMMA AbsIs ==
    ASSUME NEW n \in Int
    PROVE  /\ Abs(n) \in Nat /\ Abs(-n) = Abs(n)
           /\ n >= 0 => Abs(n) = n
           /\ n <= 0 => Abs(n) = -n
           /\ Abs(n) = 0 <=> n = 0
BY DEF Abs

LEMMA AbsoluteProduct ==
    ASSUME NEW n \in Int, NEW k \in Nat
    PROVE  Abs(n * k) = Abs(n) * k
<1>1. CASE n >= 0
  <2>1. n * k \in Int /\ n * k >= 0
    BY <1>1, Grows, Products
  <2> QED BY <1>1, <2>1, AbsIs
<1>2. CASE n < 0
  <2>1. -n \in Int /\ -n >= 0 /\ n * k \in Int
    BY <1>2, Products
  <2>2. (-n) * k >= 0 /\ (-n) * k = -(n * k)
    BY <2>1, Grows, Products
  <2>3. n * k <= 0 /\ n <= 0
    BY <1>2, <2>1, <2>2
  <2>4. Abs(n * k) = -(n * k) /\ Abs(n) = -n
    BY <2>1, <2>3, AbsIs
  <2> QED BY <2>2, <2>4
<1> QED BY <1>1, <1>2

(* Of a position that moves towards another it is not further from zero    *)
(* than both.                                                              *)
LEMMA MovesTowards ==
    ASSUME NEW a \in Int, NEW b \in Int, NEW x \in Int,
           (a <= x /\ x <= b) \/ (b <= x /\ x <= a)
    PROVE  Abs(x) <= Abs(a) \/ Abs(x) <= Abs(b)
BY DEF Abs

LEMMA SumOfIsSum == ASSUME NEW f PROVE SumOf(f) = SumOver(f, DOMAIN f)
BY DEF SumOf, SumOver

-----------------------------------------------------------------------------
(* What is at the venue.                                                   *)

Orders == [symbol : Symbols, side : {"BUY", "SELL"}, quantity : Nat \ {0}]

Type ==
    /\ price \in [Symbols -> Nat \ {0}]
    /\ close \in [Symbols -> Nat \ {0}]
    /\ sizedAt \in [Symbols -> Nat \ {0}]
    /\ sizedFor \in Nat
    /\ slippage \in Nat
    /\ target \in [Symbols -> Int]
    /\ cash \in Int
    /\ shares \in [Symbols -> Int]
    /\ open \subseteq Orders

Unique(orders) == \A o, p \in orders : o.symbol = p.symbol => o = p

(* What the orders leave to be traded of a symbol.                         *)
Pending(orders, s) ==
    IF \E o \in orders : o.symbol = s
    THEN Signed(CHOOSE o \in orders : o.symbol = s) ELSE 0

After(s) == shares[s] + Pending(open, s)

LEMMA SignedType ==
    ASSUME NEW o \in Orders
    PROVE  /\ o.symbol \in Symbols /\ o.quantity \in Nat \ {0} /\ Signed(o) \in Int
           /\ o.side = "BUY" => Signed(o) = o.quantity
           /\ o.side = "SELL" => Signed(o) = -o.quantity
           /\ o.side \in {"BUY", "SELL"}
BY DEF Orders, Signed

LEMMA PendingOf ==
    ASSUME NEW orders \in SUBSET Orders, Unique(orders)
    PROVE  /\ \A o \in orders : Pending(orders, o.symbol) = Signed(o)
           /\ \A s : (\A o \in orders : o.symbol # s) => Pending(orders, s) = 0
           /\ \A s : Pending(orders, s) \in Int
<1>1. ASSUME NEW o \in orders PROVE Pending(orders, o.symbol) = Signed(o)
  <2> DEFINE c == CHOOSE p \in orders : p.symbol = o.symbol
  <2>1. c \in orders /\ c.symbol = o.symbol
    OBVIOUS
  <2>2. c = o
    BY <2>1 DEF Unique
  <2> QED BY <2>2 DEF Pending
<1>2. ASSUME NEW s, \A o \in orders : o.symbol # s PROVE Pending(orders, s) = 0
  BY <1>2 DEF Pending
<1>3. ASSUME NEW s PROVE Pending(orders, s) \in Int
  <2>1. CASE \E o \in orders : o.symbol = s
    BY <1>1, <2>1, SignedType
  <2>2. CASE ~ \E o \in orders : o.symbol = s
    BY <1>2, <2>2
  <2> QED BY <2>1, <2>2
<1> QED BY <1>1, <1>2, <1>3

(* The book check_post_trade_positions computes.                           *)
LEMMA PostTradeIs ==
    ASSUME Type, NEW orders \in SUBSET Orders, IsFiniteSet(orders), Unique(orders),
           NEW s \in Symbols
    PROVE  PostTrade(orders)[s] = shares[s] + Pending(orders, s)
<1> DEFINE e(o) == IF o.symbol = s THEN Signed(o) ELSE 0
           w == [o \in orders |-> e(o)]
           P(g) == g = [t \in SUBSET orders |->
                           IF t = {} THEN 0 ELSE e(Chosen(t)) + g[t \ {Chosen(t)}]]
           c == CHOOSE g : P(g)
<1>1. PostTrade(orders)[s] = shares[s] + c[orders]
  BY DEF PostTrade, MapThenSumSet, MapThenFoldSet, Chosen
<1>2. ASSUME NEW g PROVE P(g) <=> Folds(g, w, orders)
  <2>1. \A t \in SUBSET orders : t # {} => w[Chosen(t)] = e(Chosen(t))
    BY ChosenIn
  <2> HIDE DEF w, e
  <2>2. [t \in SUBSET orders |->
            IF t = {} THEN 0 ELSE e(Chosen(t)) + g[t \ {Chosen(t)}]]
        = [t \in SUBSET orders |->
            IF t = {} THEN 0 ELSE w[Chosen(t)] + g[t \ {Chosen(t)}]]
    BY <2>1
  <2> QED BY <2>2 DEF Folds
<1>3. \A o \in orders : w[o] \in Int
  BY SignedType
<1>4. SumOver(w, orders) = Pending(orders, s)
  <2>1. CASE \E o \in orders : o.symbol = s
    <3>1. PICK o \in orders : o.symbol = s
      BY <2>1
    <3>2. w[o] = Signed(o) /\ Pending(orders, s) = Signed(o) /\ Signed(o) \in Int
      BY <3>1, PendingOf, SignedType
    <3>3. \A p \in orders \ {o} : w[p] = 0
      BY <3>1 DEF Unique
    <3> HIDE DEF w
    <3>4. SumOver(w, orders) = w[o] + SumOver(w, orders \ {o})
      BY <1>3, SumSplits
    <3>5. SumOver(w, orders \ {o}) = 0
      <4>1. IsFiniteSet(orders \ {o})
        BY FS_Subset
      <4> QED BY <3>3, <4>1, SumOfZeros
    <3> QED BY <3>2, <3>4, <3>5
  <2>2. CASE ~ \E o \in orders : o.symbol = s
    <3>1. \A o \in orders : w[o] = 0
      BY <2>2
    <3> HIDE DEF w
    <3>2. SumOver(w, orders) = 0
      BY <3>1, SumOfZeros
    <3> QED BY <2>2, <3>2, PendingOf
  <2> QED BY <2>1, <2>2
<1> HIDE DEF w
<1>5. \E g : P(g)
  BY <1>2, FoldExists
<1>6. P(c)
  <2> HIDE DEF P
  <2> QED BY <1>5, Zenon
<1> HIDE DEF c, P, e
<1> DEFINE h == CHOOSE g : Folds(g, w, orders)
<1>7. Folds(c, w, orders) /\ Folds(h, w, orders)
  <2>1. \E g : Folds(g, w, orders)
    BY FoldExists
  <2>2. Folds(h, w, orders)
    BY <2>1, Zenon
  <2> QED BY <1>2, <1>6, <2>2
<1>8. SumOver(w, orders) = h[orders]
  BY SumIsFold
<1> HIDE DEF h
<1>9. c[orders] = h[orders]
  BY <1>7, FoldsAgree
<1> QED BY <1>1, <1>4, <1>8, <1>9


-----------------------------------------------------------------------------
(* The inductive invariant: the orders at the venue are of one side, and   *)
(* what remains of them leads, at the closes they were sized on, to a book *)
(* within the caps that cash and slippage pay for.                         *)

Held == [s \in Symbols |-> shares[s] * sizedAt[s]]
Reached == [s \in Symbols |-> After(s) * sizedAt[s]]
Reach == SumOver(Reached, Symbols)
Holding == SumOver(Held, Symbols)

OnePhase == \E side \in {"BUY", "SELL"} : \A o \in open : o.side = side

Buying == open # {} /\ \A o \in open : o.side = "BUY"

WithinCap ==
    \A o \in open :
        Abs(After(o.symbol) * sizedAt[o.symbol]) * Unit <= MaxPositionWeight * sizedFor

LongInv ==
    Mode = "long_only" =>
        /\ \A s \in Symbols : shares[s] >= 0 /\ After(s) >= 0
        /\ Buying => Reach * Unit <= MaxGross * sizedFor

CashInv ==
    Mode = "long_only" /\ MaxGross <= Unit =>
        /\ cash + slippage >= 0
        /\ Buying => cash + slippage + Holding >= Reach

VenueInv == Type /\ Unique(open) /\ OnePhase

Inv == VenueInv /\ WithinCap /\ LongInv /\ CashInv

LEMMA ValueTypes ==
    ASSUME Type, Unique(open)
    PROVE  /\ \A s \in Symbols : /\ shares[s] \in Int /\ sizedAt[s] \in Nat \ {0}
                                 /\ After(s) \in Int
                                 /\ Held[s] \in Int /\ Reached[s] \in Int
           /\ Reach \in Int /\ Holding \in Int
<1>1. IsFiniteSet(Symbols)
  BY RebalanceAssumption
<1>2. ASSUME NEW s \in Symbols
      PROVE  /\ shares[s] \in Int /\ sizedAt[s] \in Nat \ {0} /\ After(s) \in Int
             /\ Held[s] \in Int /\ Reached[s] \in Int
  <2>1. shares[s] \in Int /\ sizedAt[s] \in Nat \ {0}
    BY DEF Type
  <2>2. After(s) \in Int
    BY <2>1, PendingOf DEF After, Type
  <2> QED BY <2>1, <2>2, Products DEF Held, Reached
<1>3. Reach \in Int /\ Holding \in Int
  BY <1>1, <1>2, SumType DEF Reach, Holding
<1> QED BY <1>2, <1>3

(* The book at the market's prices, and at any closes.                     *)
LEMMA EquityType ==
    ASSUME Type, NEW closes \in [Symbols -> Nat \ {0}]
    PROVE  /\ Equity \in Int
           /\ SumOf([s \in Symbols |-> shares[s] * closes[s]]) \in Int
<1>1. ASSUME NEW p \in [Symbols -> Nat \ {0}]
      PROVE  SumOf([s \in Symbols |-> shares[s] * p[s]]) \in Int
  <2> DEFINE worth == [s \in Symbols |-> shares[s] * p[s]]
  <2>1. \A s \in Symbols : worth[s] \in Int
    BY Products DEF Type
  <2>2. DOMAIN worth = Symbols
    OBVIOUS
  <2> HIDE DEF worth
  <2>3. SumOf(worth) \in Int
    BY <2>1, <2>2, SumOfIsSum, SumType, RebalanceAssumption
  <2> QED BY <2>3 DEF worth
<1>2. SumOf([s \in Symbols |-> shares[s] * price[s]]) \in Int /\ cash \in Int
  BY <1>1 DEF Type
<1> QED BY <1>1, <1>2 DEF Equity

(* What the market took is what slippage grew by, or less.                 *)
LEMMA Overpaid ==
    ASSUME NEW signed \in Int, NEW p \in Int, NEW q \in Int
    PROVE  /\ signed * (p - q) = signed * p - signed * q
           /\ signed * p \in Int /\ signed * q \in Int
           /\ Excess(signed * (p - q)) \in Nat
           /\ Excess(signed * (p - q)) >= signed * p - signed * q
<1>1. \A a, b, c \in Int : a * (b - c) = a * b - a * c /\ a * b \in Int
  OBVIOUS
<1> DEFINE x == signed * (p - q)
<1>2. x \in Int /\ x = signed * p - signed * q
  BY <1>1
<1> HIDE DEF x
<1>3. Excess(x) \in Nat /\ Excess(x) >= x
  BY <1>2 DEF Excess
<1> QED BY <1>1, <1>2, <1>3 DEF x

(* What a fill does.                                                       *)
LEMMA FillFacts ==
    ASSUME Type, Unique(open), Fill
    PROVE  /\ Type' /\ Unique(open')
           /\ \A s \in Symbols : After(s)' = After(s)
           /\ UNCHANGED <<sizedAt, sizedFor>>
           /\ slippage' >= slippage
           /\ cash' + slippage' + Holding' >= cash + slippage + Holding
           /\ \A p \in open' : \E o \in open : p.symbol = o.symbol /\ p.side = o.side
           /\ \E o \in open, n \in Nat \ {0} :
                 LET signed == IF o.side = "BUY" THEN n ELSE -n
                 IN  /\ n <= o.quantity
                     /\ shares' = [shares EXCEPT ![o.symbol] = @ + signed]
                     /\ cash' = cash - signed * price[o.symbol]
<1> PICK o \in open : \E n \in 1..o.quantity :
        LET signed == IF o.side = "BUY" THEN n ELSE -n
        IN /\ shares' = [shares EXCEPT ![o.symbol] = @ + signed]
           /\ cash' = cash - signed * price[o.symbol]
           /\ slippage' = slippage
                  + Excess(signed * (price[o.symbol] - sizedAt[o.symbol]))
           /\ open' = (open \ {o}) \cup
                  (IF n = o.quantity THEN {} ELSE {[o EXCEPT !.quantity = @ - n]})
  BY DEF Fill
<1>1. PICK n \in 1..o.quantity :
          LET signed == IF o.side = "BUY" THEN n ELSE -n
          IN /\ shares' = [shares EXCEPT ![o.symbol] = @ + signed]
             /\ cash' = cash - signed * price[o.symbol]
             /\ slippage' = slippage
                    + Excess(signed * (price[o.symbol] - sizedAt[o.symbol]))
             /\ open' = (open \ {o}) \cup
                    (IF n = o.quantity THEN {} ELSE {[o EXCEPT !.quantity = @ - n]})
  OBVIOUS
<1> DEFINE signed == IF o.side = "BUY" THEN n ELSE -n
           z == o.symbol
           rest == [o EXCEPT !.quantity = @ - n]
<1>2. /\ o \in Orders /\ z \in Symbols /\ o.quantity \in Nat \ {0} /\ n \in Nat \ {0}
      /\ n <= o.quantity /\ signed \in Int /\ price[z] \in Nat \ {0}
      /\ cash \in Int /\ shares[z] \in Int /\ signed * price[z] \in Int
      /\ sizedAt[z] \in Nat \ {0} /\ slippage \in Nat
  <2>1. o \in Orders
    BY DEF Type
  <2>2. z \in Symbols /\ o.quantity \in Nat \ {0}
    BY <2>1, SignedType
  <2>3. n \in Nat \ {0} /\ n <= o.quantity
    BY <2>2
  <2>4. signed \in Int
    BY <2>3
  <2>5. /\ price[z] \in Nat \ {0} /\ cash \in Int /\ shares[z] \in Int
        /\ sizedAt[z] \in Nat \ {0} /\ slippage \in Nat
    BY <2>2 DEF Type
  <2> HIDE DEF z, signed
  <2>6. signed * price[z] \in Int
    BY <2>4, <2>5, Products
  <2> QED BY <2>1, <2>2, <2>3, <2>4, <2>5, <2>6
<1>3. /\ shares' = [shares EXCEPT ![z] = @ + signed]
      /\ cash' = cash - signed * price[z]
      /\ slippage' = slippage + Excess(signed * (price[z] - sizedAt[z]))
      /\ open' = (open \ {o}) \cup (IF n = o.quantity THEN {} ELSE {rest})
      /\ UNCHANGED <<price, close, target, sizedAt, sizedFor>>
  BY <1>1 DEF Fill, sizing
<1>4. n # o.quantity =>
         /\ rest \in Orders /\ rest.symbol = z /\ rest.side = o.side
         /\ Signed(rest) = Signed(o) - signed
  <2> DEFINE q == o.quantity - n
  <2> SUFFICES ASSUME n # o.quantity
               PROVE  /\ rest \in Orders /\ rest.symbol = z /\ rest.side = o.side
                      /\ Signed(rest) = Signed(o) - signed
    OBVIOUS
  <2>1. q \in Nat \ {0}
    <3>1. \A i, j \in Nat : j <= i /\ j # i => i - j \in Nat \ {0}
      OBVIOUS
    <3> QED BY <1>2, <3>1
  <2> HIDE DEF q
  <2>2. o = [symbol |-> o.symbol, side |-> o.side, quantity |-> o.quantity]
        /\ o.side \in {"BUY", "SELL"}
    BY <1>2 DEF Orders
  <2>3. rest = [symbol |-> z, side |-> o.side, quantity |-> q]
    BY <2>2 DEF q
  <2>4. rest \in Orders /\ rest.symbol = z /\ rest.side = o.side /\ rest.quantity = q
    BY <1>2, <2>1, <2>2, <2>3 DEF Orders
  <2>5. Signed(rest) = (IF o.side = "BUY" THEN q ELSE -q)
    BY <2>4 DEF Signed
  <2>6. Signed(o) = (IF o.side = "BUY" THEN o.quantity ELSE -o.quantity)
    BY DEF Signed
  <2>7. q = o.quantity - n
    BY DEF q
  <2> QED BY <1>2, <2>2, <2>4, <2>5, <2>6, <2>7
<1>5. n = o.quantity => Signed(o) = signed
  BY <1>2 DEF Signed
<1> HIDE DEF signed, rest
<1>6. \A p \in open' : p \in open \ {o} \/ (n # o.quantity /\ p = rest)
  BY <1>3
<1>7. Type' /\ slippage' >= slippage
  <2>1. open' \subseteq Orders
    BY <1>4, <1>6 DEF Type
  <2>2. slippage' \in Nat /\ slippage' >= slippage
    <3>1. Excess(signed * (price[z] - sizedAt[z])) \in Nat
      BY <1>2, Overpaid
    <3> QED BY <1>2, <1>3, <3>1
  <2>3. cash' \in Int /\ shares' \in [Symbols -> Int]
    BY <1>2, <1>3 DEF Type
  <2> QED BY <1>3, <2>1, <2>2, <2>3 DEF Type
<1>8. Unique(open')
  BY <1>4, <1>6 DEF Unique
<1>9. \A p \in open' : \E q \in open : p.symbol = q.symbol /\ p.side = q.side
  BY <1>4, <1>6
<1>10. ASSUME NEW s \in Symbols, s # z PROVE Pending(open', s) = Pending(open, s)
  <2>1. open' \subseteq Orders
    BY <1>7 DEF Type
  <2>2. CASE \E p \in open : p.symbol = s
    <3>1. PICK p \in open : p.symbol = s
      BY <2>2
    <3>2. p \in open'
      BY <1>3, <1>10, <3>1
    <3>3. Pending(open', p.symbol) = Signed(p) /\ Pending(open, p.symbol) = Signed(p)
      BY <1>8, <2>1, <3>2, PendingOf DEF Type
    <3> QED BY <3>1, <3>3
  <2>3. CASE \A p \in open : p.symbol # s
    <3>1. \A p \in open' : p.symbol # s
      BY <1>4, <1>6, <1>10, <2>3
    <3>2. Pending(open', s) = 0 /\ Pending(open, s) = 0
      BY <1>8, <2>1, <2>3, <3>1, PendingOf DEF Type
    <3> QED BY <3>2
  <2> QED BY <2>2, <2>3
<1>11. Pending(open', z) = Pending(open, z) - signed
  <2>1. open' \subseteq Orders
    BY <1>7 DEF Type
  <2>2. Pending(open, z) = Signed(o) /\ Signed(o) \in Int
    BY <1>2, PendingOf, SignedType DEF Type
  <2>3. CASE n = o.quantity
    <3>1. \A p \in open' : p.symbol # z
      BY <1>6, <2>3 DEF Unique
    <3>2. Pending(open', z) = 0
      BY <1>8, <2>1, <3>1, PendingOf
    <3> QED BY <1>2, <1>5, <2>2, <2>3, <3>2
  <2>4. CASE n # o.quantity
    <3>1. rest \in open'
      BY <1>3, <2>4
    <3>2. Pending(open', rest.symbol) = Signed(rest)
      BY <1>8, <2>1, <3>1, PendingOf
    <3> QED BY <1>4, <2>2, <2>4, <3>2
  <2> QED BY <2>3, <2>4
<1>12. /\ shares'[z] = shares[z] + signed
       /\ \A s \in Symbols : s # z => shares'[s] = shares[s]
  BY <1>2, <1>3 DEF Type
<1>13. ASSUME NEW s \in Symbols PROVE After(s)' = After(s)
  <2> DEFINE p == Pending(open, s)
  <2>1. shares[s] \in Int /\ p \in Int
    BY PendingOf DEF Type
  <2>2. After(s) = shares[s] + p /\ After(s)' = shares'[s] + Pending(open', s)
    BY DEF After
  <2>3. CASE s = z
    <3>1. Pending(open', s) = p - signed /\ shares'[s] = shares[s] + signed
      BY <1>11, <1>12, <2>3
    <3> HIDE DEF p
    <3> QED BY <1>2, <2>1, <2>2, <3>1
  <2>4. CASE s # z
    <3>1. Pending(open', s) = p /\ shares'[s] = shares[s]
      BY <1>10, <1>12, <2>4
    <3> QED BY <2>2, <3>1
  <2> QED BY <2>3, <2>4
<1>14. cash' + slippage' + Holding' >= cash + slippage + Holding
  <2> DEFINE w == Held
             v == Held'
             p == price[z]
             q == sizedAt[z]
             k == shares[z]
             x == Excess(signed * (p - q))
  <2>1. \A s \in Symbols : w[s] \in Int
    BY ValueTypes
  <2>2. \A s \in Symbols : shares'[s] \in Int /\ sizedAt'[s] \in Int
    BY <1>7 DEF Type
  <2>3. \A s \in Symbols : v[s] \in Int
    BY <2>2, Products DEF Held
  <2>4. \A s \in Symbols \ {z} : v[s] = w[s]
    BY <1>3, <1>12 DEF Held
  <2>5. v[z] = (k + signed) * q /\ w[z] = k * q
    BY <1>2, <1>3, <1>12 DEF Held
  <2>6. p \in Int /\ q \in Int /\ k \in Int
    BY <1>2
  <2>7. Holding = SumOver(w, Symbols) /\ Holding' = SumOver(v, Symbols) /\ Holding \in Int
    BY ValueTypes DEF Holding
  <2>8. cash' = cash - signed * p /\ slippage' = slippage + x
    BY <1>3
  <2> HIDE DEF w, v, p, q, k
  <2>9. SumOver(v, Symbols) = SumOver(w, Symbols) + (v[z] - w[z])
    BY <1>2, <2>1, <2>3, <2>4, RebalanceAssumption, SumMoves
  <2>10. /\ x \in Nat /\ x >= signed * p - signed * q
         /\ signed * p \in Int /\ signed * q \in Int
    <3>1. \A a, b, c \in Int :
              /\ a * b \in Int /\ a * c \in Int
              /\ Excess(a * (b - c)) \in Nat
              /\ Excess(a * (b - c)) >= a * b - a * c
      BY Overpaid, Zenon
    <3>2. signed \in Int
      BY <1>2
    <3> QED BY <2>6, <3>1, <3>2, Zenon
  <2>11. (k + signed) * q = k * q + signed * q /\ k * q \in Int
    <3>1. signed \in Int /\ q \in Int /\ k \in Int
      BY <1>2, <2>6
    <3>2. \A a, b, c \in Int : a * b \in Int /\ (a + b) * c = a * c + b * c
      BY Products
    <3> HIDE DEF x
    <3>3. k * q \in Int
      BY <3>1, <3>2
    <3>4. (k + signed) * q = k * q + signed * q
      BY <3>1, <3>2
    <3> QED BY <3>3, <3>4
  <2> HIDE DEF x
  <2>12. \A a, b, h, m, n1, y \in Int :
            y >= m - n1 => (a - m) + (b + y) + (h + n1) >= a + b + h
    OBVIOUS
  <2>13. Holding' = Holding + signed * q
    BY <2>5, <2>7, <2>9, <2>10, <2>11
  <2> QED BY <1>2, <2>7, <2>8, <2>10, <2>12, <2>13
<1>15. LET sg == IF o.side = "BUY" THEN n ELSE -n
       IN  /\ n <= o.quantity
           /\ shares' = [shares EXCEPT ![o.symbol] = @ + sg]
           /\ cash' = cash - sg * price[o.symbol]
  BY <1>1, <1>2
<1> QED BY <1>2, <1>3, <1>7, <1>8, <1>9, <1>13, <1>14, <1>15

LEMMA QuotientBelow ==
    ASSUME NEW a \in Nat, NEW b \in Nat \ {0}
    PROVE  a \div b \in Nat /\ (a \div b) * b <= a
OBVIOUS

LEMMA CancelFacts ==
    ASSUME Type, Unique(open), NEW o \in open, open' = open \ {o},
           UNCHANGED <<price, close, target, cash, shares, sizedAt, sizedFor, slippage>>
    PROVE  /\ Type' /\ Unique(open')
           /\ After(o.symbol)' = shares[o.symbol]
           /\ \A s \in Symbols : s # o.symbol => After(s)' = After(s)
<1>1. open' \subseteq Orders /\ Unique(open')
  BY DEF Type, Unique
<1>2. Type'
  BY <1>1 DEF Type
<1>3. \A p \in open' : p.symbol # o.symbol
  BY DEF Unique
<1>4. After(o.symbol)' = shares[o.symbol]
  <2>1. Pending(open', o.symbol) = 0
    BY <1>1, <1>3, PendingOf
  <2>2. o.symbol \in Symbols
    BY SignedType DEF Type
  <2>3. shares[o.symbol] \in Int
    BY <2>2 DEF Type
  <2> QED BY <2>1, <2>3 DEF After
<1>5. ASSUME NEW s \in Symbols, s # o.symbol PROVE After(s)' = After(s)
  <2>1. Pending(open', s) = Pending(open, s)
    <3>1. CASE \E p \in open : p.symbol = s
      <4>1. PICK p \in open : p.symbol = s
        BY <3>1
      <4>2. p \in open'
        BY <1>5, <4>1
      <4>3. Pending(open', p.symbol) = Signed(p) /\ Pending(open, p.symbol) = Signed(p)
        BY <1>1, <4>2, PendingOf DEF Type
      <4> QED BY <4>1, <4>3
    <3>2. CASE \A p \in open : p.symbol # s
      <4>1. Pending(open', s) = 0 /\ Pending(open, s) = 0
        BY <1>1, <3>2, PendingOf DEF Type
      <4> QED BY <4>1
    <3> QED BY <3>1, <3>2
  <2> QED BY <2>1 DEF After
<1> QED BY <1>1, <1>2, <1>4, <1>5

(* The orders sizing makes: one per symbol whose trade is not dust.        *)
Delta(s, capital) == TargetShares(s, capital) - shares[s]

LEMMA SizedFacts ==
    ASSUME Type, NEW capital \in Nat
    PROVE  /\ \A s \in Symbols : TargetShares(s, capital) \in Int /\ Delta(s, capital) \in Int
           /\ SizedOrders(capital) \in SUBSET Orders
           /\ IsFiniteSet(SizedOrders(capital))
           /\ Unique(SizedOrders(capital))
           /\ \A s \in Symbols :
                 Delta(s, capital) # 0
                 /\ Abs(Delta(s, capital)) * close[s] >= MinTradeNotional
                 => Pending(SizedOrders(capital), s) = Delta(s, capital)
           /\ \A s \in Symbols :
                 Delta(s, capital) = 0 => Pending(SizedOrders(capital), s) = 0
<1> DEFINE D == {s \in Symbols : Delta(s, capital) # 0
                                 /\ Abs(Delta(s, capital)) * close[s] >= MinTradeNotional}
           F == [s \in D |-> Order(s, Delta(s, capital))]
           orders == SizedOrders(capital)
<1>1. ASSUME NEW s \in Symbols
      PROVE TargetShares(s, capital) \in Int /\ Delta(s, capital) \in Int
  <2>1. target[s] \in Int /\ shares[s] \in Int /\ close[s] \in Nat \ {0} /\ Unit \in Nat \ {0}
    BY RebalanceAssumption DEF Type
  <2>2. Abs(target[s]) * capital \in Nat
    <3>1. \A a, c \in Nat : a * c \in Nat
      OBVIOUS
    <3> QED BY <2>1, <3>1, AbsIs
  <2>3. Unit * close[s] \in Nat \ {0}
    <3>1. \A a, c \in Nat \ {0} : a * c \in Nat \ {0}
      OBVIOUS
    <3> QED BY <2>1, <3>1
  <2>4. (Abs(target[s]) * capital) \div (Unit * close[s]) \in Nat
    BY <2>2, <2>3, QuotientBelow
  <2> QED BY <2>1, <2>4 DEF TargetShares, Delta
<1>2. ASSUME NEW s \in D
      PROVE  /\ Order(s, Delta(s, capital)) \in Orders
             /\ Order(s, Delta(s, capital)).symbol = s
             /\ Signed(Order(s, Delta(s, capital))) = Delta(s, capital)
  <2> DEFINE d == Delta(s, capital)
  <2>1. d \in Int /\ d # 0 /\ s \in Symbols
    BY <1>1
  <2> HIDE DEF d
  <2>2. Order(s, d) = [symbol |-> s, side |-> IF d > 0 THEN "BUY" ELSE "SELL",
                       quantity |-> Abs(d)]
    BY DEF Order
  <2>3. Abs(d) \in Nat \ {0} /\ (d > 0 => Abs(d) = d) /\ (~ (d > 0) => Abs(d) = -d)
    BY <2>1, AbsIs
  <2>4. Order(s, d) \in Orders
    BY <2>1, <2>2, <2>3 DEF Orders
  <2>5. Signed(Order(s, d)) = d
    BY <2>1, <2>2, <2>3 DEF Signed
  <2> QED BY <2>2, <2>4, <2>5 DEF d
<1>3. orders = {F[s] : s \in D}
  BY DEF SizedOrders, Delta
<1>4. IsFiniteSet(orders)
  <2>1. IsFiniteSet(D)
    BY RebalanceAssumption, FS_Subset
  <2> HIDE DEF D
  <2>2. F \in Surjection(D, orders)
    <3>1. F = [s \in D |-> F[s]]
      OBVIOUS
    <3> HIDE DEF F, orders
    <3> QED BY <1>3, <3>1 DEF Surjection
  <2> HIDE DEF F, orders
  <2> QED BY <2>1, <2>2, FS_Surjection
<1>5. \A s \in D : F[s] \in Orders /\ F[s].symbol = s /\ Signed(F[s]) = Delta(s, capital)
  BY <1>2
<1>6. \A s \in Symbols : s \in D <=> /\ Delta(s, capital) # 0
                                     /\ Abs(Delta(s, capital)) * close[s] >= MinTradeNotional
  OBVIOUS
<1> HIDE DEF F, D, orders
<1>7. orders \in SUBSET Orders /\ Unique(orders)
  BY <1>3, <1>5 DEF Unique
<1>8. ASSUME NEW s \in D PROVE Pending(orders, s) = Delta(s, capital)
  <2>1. F[s] \in orders
    BY <1>3
  <2>2. Pending(orders, F[s].symbol) = Signed(F[s])
    BY <1>7, <2>1, PendingOf
  <2> QED BY <1>5, <2>2
<1>9. ASSUME NEW s \in Symbols, s \notin D PROVE Pending(orders, s) = 0
  <2>1. \A o \in orders : o.symbol # s
    BY <1>3, <1>5, <1>9
  <2> QED BY <1>7, <2>1, PendingOf
<1> QED BY <1>1, <1>4, <1>6, <1>7, <1>8, <1>9 DEF orders


-----------------------------------------------------------------------------
(* What the gate promises of the book all orders together would give.      *)

Traded(orders) == [s \in Symbols |-> (shares[s] + Pending(orders, s)) * close[s]]

LEMMA GateFacts ==
    ASSUME Type, NEW orders \in SUBSET Orders, IsFiniteSet(orders), Unique(orders),
           NEW capital \in Nat \ {0}, CheckPostTrade(orders, capital)
    PROVE  /\ \A s \in Symbols :
                 Abs(Traded(orders)[s]) * Unit <= MaxPositionWeight * capital
           /\ Mode = "long_only" =>
                 /\ \A s \in Symbols : shares[s] + Pending(orders, s) >= 0
                 /\ SumOver(Traded(orders), Symbols) * Unit <= MaxGross * capital
<1> DEFINE after == PostTrade(orders)
           D == {s \in Symbols : after[s] # 0}
           weight == [s \in D |-> after[s] * close[s]]
           size == [s \in D |-> Abs(weight[s])]
           w == Traded(orders)
<1>1. CheckWeights(weight, capital)
  BY DEF CheckPostTrade
<1>2. \A s \in Symbols : /\ after[s] \in Int /\ close[s] \in Nat \ {0}
                         /\ after[s] = shares[s] + Pending(orders, s)
                         /\ w[s] = after[s] * close[s] /\ w[s] \in Int
  <2> SUFFICES ASSUME NEW s \in Symbols
               PROVE  /\ after[s] \in Int /\ close[s] \in Nat \ {0}
                      /\ after[s] = shares[s] + Pending(orders, s)
                      /\ w[s] = after[s] * close[s] /\ w[s] \in Int
    OBVIOUS
  <2>1. after[s] = shares[s] + Pending(orders, s)
    BY PostTradeIs
  <2>2. shares[s] \in Int /\ Pending(orders, s) \in Int /\ close[s] \in Nat \ {0}
    BY PendingOf DEF Type
  <2>3. w[s] = after[s] * close[s]
    BY <2>1 DEF Traded
  <2> HIDE DEF after, w
  <2>4. after[s] \in Int
    BY <2>1, <2>2
  <2>5. after[s] * close[s] \in Int
    BY <2>2, <2>4, Products
  <2> QED BY <2>1, <2>2, <2>3, <2>4, <2>5
<1>3. /\ Unit \in Nat \ {0} /\ MaxPositionWeight \in Nat /\ MaxGross \in Nat
      /\ IsFiniteSet(Symbols) /\ MaxPositionWeight * capital >= 0
      /\ MaxPositionWeight * capital \in Int /\ MaxGross * capital \in Int
  <2>1. MaxPositionWeight \in Nat /\ MaxGross \in Nat
    BY RebalanceAssumption
  <2>2. \A a, c \in Nat : a * c \in Nat
    OBVIOUS
  <2> QED BY RebalanceAssumption, <2>1, <2>2
<1>4. /\ \A s \in D : weight[s] = w[s] /\ size[s] = Abs(w[s])
      /\ D \subseteq Symbols /\ DOMAIN weight = D /\ DOMAIN size = D
  BY <1>2
<1>5. \A s \in Symbols \ D : after[s] = 0 /\ w[s] = 0
  <2> SUFFICES ASSUME NEW s \in Symbols \ D PROVE after[s] = 0 /\ w[s] = 0
    OBVIOUS
  <2>1. after[s] = 0
    OBVIOUS
  <2>2. w[s] = 0 * close[s] /\ close[s] \in Int
    BY <1>2, <2>1
  <2> QED BY <2>1, <2>2
<1>6. /\ \A s \in D : Abs(weight[s]) * Unit <= MaxPositionWeight * capital
      /\ Mode = "long_only" => \A s \in D : weight[s] >= 0
      /\ SumOf(size) * Unit <= MaxGross * capital
  <2> HIDE DEF D
  <2>1. size = [s \in DOMAIN weight |-> Abs(weight[s])]
    OBVIOUS
  <2> HIDE DEF weight, size
  <2> QED BY <1>1, <1>4, <2>1 DEF CheckWeights
<1> HIDE DEF after, D, weight, size, w
<1>7. ASSUME NEW s \in Symbols PROVE Abs(w[s]) * Unit <= MaxPositionWeight * capital
  <2>1. CASE s \in D
    BY <1>4, <1>6, <2>1
  <2>2. CASE s \notin D
    <3>1. Abs(w[s]) = 0
      BY <1>2, <1>5, <2>2, AbsIs
    <3>2. 0 * Unit = 0
      BY <1>3
    <3> QED BY <1>3, <3>1, <3>2
  <2> QED BY <2>1, <2>2
<1>8. ASSUME Mode = "long_only", NEW s \in Symbols PROVE after[s] >= 0 /\ w[s] >= 0
  <2>1. CASE s \in D
    <3>1. w[s] >= 0
      BY <1>4, <1>6, <1>8, <2>1
    <3>2. after[s] * close[s] >= 0 /\ close[s] \in Nat /\ close[s] # 0 /\ after[s] \in Int
      BY <1>2, <3>1
    <3>3. \A a \in Int, k \in Nat : k # 0 /\ a * k >= 0 => a >= 0
      BY Grows
    <3> QED BY <3>1, <3>2, <3>3
  <2>2. CASE s \notin D
    BY <1>5, <2>2
  <2> QED BY <2>1, <2>2
<1>9. ASSUME Mode = "long_only"
      PROVE  SumOver(w, Symbols) * Unit <= MaxGross * capital
  <2>1. \A s \in D : w[s] \in Int /\ size[s] = w[s]
    BY <1>2, <1>4, <1>8, <1>9, AbsIs
  <2>2. IsFiniteSet(D)
    BY <1>3, <1>4, FS_Subset
  <2>3. SumOver(size, D) = SumOver(w, D)
    BY <2>1, <2>2, SumAgrees
  <2>4. SumOver(w, Symbols) = SumOver(w, D)
    BY <1>2, <1>3, <1>4, <1>5, SumIgnoresZeros
  <2>5. SumOf(size) = SumOver(size, D)
    BY <1>4, SumOfIsSum
  <2> QED BY <1>6, <2>3, <2>4, <2>5
<1> QED BY <1>2, <1>7, <1>8, <1>9 DEF w

LEMMA CycleFacts ==
    ASSUME Type, Cycle
    PROVE  /\ Type' /\ Unique(open') /\ OnePhase' /\ sizedAt' = close /\ sizedFor' = Equity
           /\ UNCHANGED <<cash, shares>>
           /\ \A o \in open' : Abs(After(o.symbol)' * close[o.symbol]) * Unit
                                   <= MaxPositionWeight * Equity
           /\ cash + slippage' >= 0
           /\ cash + slippage' + Holding' >= Equity
           /\ Mode = "long_only" =>
                 /\ \A s \in Symbols : After(s)' >= 0 \/ After(s)' = shares[s]
                 /\ Buying' => Reach' * Unit <= MaxGross * Equity
<1> DEFINE orders == SizedOrders(Equity)
<1>1. /\ AssertSafe(orders, Equity) /\ open' = Phase(orders)
      /\ UNCHANGED <<price, close, target, cash, shares>>
      /\ sizedAt' = close /\ sizedFor' = Equity
      /\ slippage' = Excess(-cash) + Excess(Gap)
  BY DEF Cycle
<1>2. Equity \in Nat \ {0}
  <2>1. IsFiniteSet({}) /\ Unique({}) /\ open = {} /\ Equity > 0
    BY FS_EmptySet DEF Unique, Cycle
  <2>2. Equity \in Int
    BY EquityType DEF Type
  <2> QED BY <2>1, <2>2
<1>3. orders \in SUBSET Orders /\ IsFiniteSet(orders) /\ Unique(orders)
  BY <1>2, SizedFacts
<1>4. CheckPostTrade(orders, Equity)
  BY <1>1 DEF AssertSafe
<1>5. /\ \A s \in Symbols : Abs(Traded(orders)[s]) * Unit <= MaxPositionWeight * Equity
      /\ Mode = "long_only" =>
            /\ \A s \in Symbols : shares[s] + Pending(orders, s) >= 0
            /\ SumOver(Traded(orders), Symbols) * Unit <= MaxGross * Equity
  BY <1>2, <1>3, <1>4, GateFacts
<1>6. /\ slippage' \in Nat /\ cash + slippage' >= 0
      /\ cash + slippage' + Holding' >= Equity
  <2> DEFINE worth == SumOf([s \in Symbols |-> shares[s] * close[s]])
             debt == Excess(-cash)
             over == Excess(Gap)
  <2>1. cash \in Int /\ worth \in Int /\ Equity \in Int
    BY EquityType DEF Type
  <2>2. Gap = Equity - (cash + worth)
    BY DEF Gap
  <2>3. Holding' = worth
    <3>1. Held' = [s \in Symbols |-> shares[s] * close[s]]
      BY <1>1 DEF Held
    <3>2. worth = SumOver(Held', Symbols)
      BY <3>1, SumOfIsSum
    <3> QED BY <3>2 DEF Holding
  <2> HIDE DEF worth
  <2>4. \A n \in Int : Excess(n) \in Nat /\ Excess(n) >= n
    BY DEF Excess
  <2>5. Gap \in Int /\ -cash \in Int
    BY <2>1, <2>2
  <2>6. debt \in Nat /\ debt >= -cash /\ over \in Nat /\ over >= Gap
    BY <2>4, <2>5
  <2>7. slippage' = debt + over
    BY <1>1
  <2> HIDE DEF debt, over
  <2> QED BY <2>1, <2>2, <2>3, <2>6, <2>7
<1> HIDE DEF orders
<1>7. /\ open' \subseteq orders /\ Unique(open') /\ OnePhase'
      /\ (\A o \in open' : o.side = "BUY") => open' = orders \/ open' = {}
  <2>1. open' \subseteq orders
    BY <1>1 DEF Phase
  <2>2. \A o \in orders : o.side \in {"BUY", "SELL"}
    BY <1>3, SignedType
  <2> QED BY <1>1, <1>3, <2>1, <2>2 DEF Phase, Unique, OnePhase
<1>8. Type'
  BY <1>1, <1>2, <1>3, <1>6, <1>7 DEF Type
<1>9. \A s \in Symbols : After(s)' = shares[s] + Pending(open', s)
  BY <1>1 DEF After
<1>10. \A o \in open' : o.symbol \in Symbols /\ Pending(open', o.symbol) = Pending(orders, o.symbol)
  <2> SUFFICES ASSUME NEW o \in open'
               PROVE o.symbol \in Symbols /\ Pending(open', o.symbol) = Pending(orders, o.symbol)
    OBVIOUS
  <2>1. open' \in SUBSET Orders
    BY <1>8 DEF Type
  <2>2. Pending(open', o.symbol) = Signed(o)
    BY <1>7, <2>1, PendingOf
  <2>3. Pending(orders, o.symbol) = Signed(o)
    BY <1>3, <1>7, PendingOf
  <2> QED BY <2>1, <2>2, <2>3, SignedType
<1>11. \A o \in open' : Abs(After(o.symbol)' * close[o.symbol]) * Unit
                            <= MaxPositionWeight * Equity
  <2> SUFFICES ASSUME NEW o \in open'
               PROVE  Abs(After(o.symbol)' * close[o.symbol]) * Unit
                            <= MaxPositionWeight * Equity
    OBVIOUS
  <2>1. o.symbol \in Symbols /\ After(o.symbol)' = shares[o.symbol] + Pending(orders, o.symbol)
    BY <1>9, <1>10
  <2>2. Traded(orders)[o.symbol] = After(o.symbol)' * close[o.symbol]
    BY <2>1 DEF Traded
  <2>3. Abs(Traded(orders)[o.symbol]) * Unit <= MaxPositionWeight * Equity
    BY <1>5, <2>1
  <2> QED BY <2>2, <2>3
<1>12. ASSUME Mode = "long_only", NEW s \in Symbols
       PROVE  After(s)' >= 0 \/ After(s)' = shares[s]
  <2>1. CASE \E o \in open' : o.symbol = s
    <3>1. PICK o \in open' : o.symbol = s
      BY <2>1
    <3>2. After(s)' = shares[s] + Pending(orders, s)
      BY <1>9, <1>10, <3>1
    <3> QED BY <1>5, <1>12, <3>2
  <2>2. CASE \A o \in open' : o.symbol # s
    <3>1. open' \in SUBSET Orders
      BY <1>8 DEF Type
    <3>2. Pending(open', s) = 0
      BY <1>7, <2>2, <3>1, PendingOf
    <3>3. shares[s] \in Int
      BY DEF Type
    <3> QED BY <1>9, <3>2, <3>3
  <2> QED BY <2>1, <2>2
<1>13. ASSUME Mode = "long_only", Buying'
       PROVE  Reach' * Unit <= MaxGross * Equity
  <2>1. open' = orders
    BY <1>7, <1>13 DEF Buying
  <2>2. Reached' = Traded(orders)
    BY <1>1, <1>9, <2>1 DEF Reached, Traded
  <2>3. Reach' = SumOver(Traded(orders), Symbols)
    BY <2>2 DEF Reach
  <2> QED BY <1>5, <1>13, <2>3
<1> QED BY <1>1, <1>6, <1>7, <1>8, <1>11, <1>12, <1>13


-----------------------------------------------------------------------------
(* Every step keeps the invariant.                                         *)

LEMMA InvInit == Init => Inv
<1> SUFFICES ASSUME Init PROVE Inv
  OBVIOUS
<1>1. /\ price \in [Symbols -> Nat \ {0}] /\ target \in [Symbols -> Int]
      /\ close = price /\ sizedAt = price /\ sizedFor \in Nat /\ slippage = 0
      /\ cash \in Int /\ cash > 0 /\ shares = [s \in Symbols |-> 0] /\ open = {}
  <2>1. InitialCash \in Nat /\ InitialCash > 0
    BY RebalanceAssumption
  <2>2. price \in [Symbols -> Nat \ {0}]
    <3>1. Prices \subseteq Nat \ {0} /\ price \in [Symbols -> Prices]
      BY RebalanceAssumption DEF Init
    <3> QED BY <3>1
  <2>3. target \in [Symbols -> Int]
    BY RebalanceAssumption DEF Init
  <2> QED BY <2>1, <2>2, <2>3 DEF Init
<1>2. VenueInv
  BY <1>1 DEF VenueInv, Type, Unique, OnePhase
<1>3. \A s \in Symbols : shares[s] = 0 /\ After(s) = 0
  BY <1>1 DEF After, Pending
<1>4. LongInv
  BY <1>1, <1>3 DEF LongInv, Buying
<1>5. CashInv /\ WithinCap
  BY <1>1 DEF CashInv, WithinCap, Buying
<1> QED BY <1>2, <1>4, <1>5 DEF Inv

(* What the venue still has to buy is worth something.                     *)
LEMMA BuyingAdds ==
    ASSUME Type, Unique(open), \A o \in open : o.side = "BUY"
    PROVE  /\ \A s \in Symbols : shares[s] <= After(s) /\ Held[s] <= Reached[s]
           /\ Holding <= Reach
<1>1. ASSUME NEW s \in Symbols PROVE Pending(open, s) \in Int /\ Pending(open, s) >= 0
  <2>1. CASE \E o \in open : o.symbol = s
    <3>1. PICK o \in open : o.symbol = s
      BY <2>1
    <3>2. Pending(open, s) = Signed(o) /\ o \in Orders /\ o.side = "BUY"
      BY <3>1, PendingOf DEF Type
    <3>3. Signed(o) = o.quantity /\ o.quantity \in Nat
      BY <3>2, SignedType
    <3> QED BY <3>2, <3>3
  <2>2. CASE \A o \in open : o.symbol # s
    <3>1. Pending(open, s) = 0
      BY <2>2, PendingOf DEF Type
    <3> QED BY <3>1
  <2> QED BY <2>1, <2>2
<1>2. ASSUME NEW s \in Symbols PROVE shares[s] <= After(s) /\ Held[s] <= Reached[s]
  <2>1. shares[s] \in Int /\ After(s) \in Int /\ sizedAt[s] \in Nat
    BY ValueTypes
  <2>2. shares[s] <= After(s)
    BY <1>1, <2>1 DEF After
  <2>3. \A a, b \in Int, k \in Nat : a <= b => a * k <= b * k
    BY Grows
  <2>4. shares[s] * sizedAt[s] <= After(s) * sizedAt[s]
    BY <2>1, <2>2, <2>3
  <2> QED BY <2>2, <2>4 DEF Held, Reached
<1>3. Holding <= Reach
  <2>1. IsFiniteSet(Symbols)
    BY RebalanceAssumption
  <2>2. \A s \in Symbols : Held[s] \in Int /\ Reached[s] \in Int /\ Held[s] <= Reached[s]
    BY <1>2, ValueTypes
  <2> QED BY <2>1, <2>2, SumCompares DEF Reach, Holding
<1> QED BY <1>2, <1>3

LEMMA HeldIsWorth ==
    ASSUME Type, Unique(open), \A s \in Symbols : shares[s] >= 0
    PROVE  \A s \in Symbols : Held[s] >= 0
<1>1. ASSUME NEW s \in Symbols PROVE Held[s] >= 0 /\ Held[s] \in Int
  <2>1. shares[s] \in Int /\ sizedAt[s] \in Nat
    BY ValueTypes
  <2>2. \A a \in Int, k \in Nat : a >= 0 => a * k >= 0
    BY Grows
  <2> QED BY <2>1, <2>2, ValueTypes DEF Held
<1> QED BY <1>1

(* The fill of an order moves the position no further than the order may.  *)
LEMMA FillMoves ==
    ASSUME Inv, Fill
    PROVE  /\ Type' /\ Unique(open') /\ UNCHANGED <<sizedAt, sizedFor>>
           /\ slippage' >= slippage
           /\ cash' + slippage' + Holding' >= cash + slippage + Holding
           /\ \A s \in Symbols : After(s)' = After(s)
           /\ \E o \in open :
                 /\ o.symbol \in Symbols
                 /\ \A s \in Symbols : s # o.symbol => shares'[s] = shares[s]
                 /\ o.side = "BUY" => /\ shares[o.symbol] <= shares'[o.symbol]
                                      /\ shares'[o.symbol] <= After(o.symbol)
                 /\ o.side = "SELL" => /\ After(o.symbol) <= shares'[o.symbol]
                                       /\ shares'[o.symbol] <= shares[o.symbol]
                                       /\ cash' >= cash
                 /\ o.side \in {"BUY", "SELL"}
<1>1. Type /\ Unique(open)
  BY DEF Inv, VenueInv
<1>2. /\ Type' /\ Unique(open') /\ UNCHANGED <<sizedAt, sizedFor>>
      /\ slippage' >= slippage
      /\ cash' + slippage' + Holding' >= cash + slippage + Holding
      /\ \A s \in Symbols : After(s)' = After(s)
  BY <1>1, FillFacts
<1>3. PICK o \in open, n \in Nat \ {0} :
          LET signed == IF o.side = "BUY" THEN n ELSE -n
          IN  /\ n <= o.quantity
              /\ shares' = [shares EXCEPT ![o.symbol] = @ + signed]
              /\ cash' = cash - signed * price[o.symbol]
  BY <1>1, FillFacts
<1> DEFINE z == o.symbol
<1>4. /\ o \in Orders /\ z \in Symbols /\ o.quantity \in Nat /\ n \in Nat
      /\ n <= o.quantity /\ o.side \in {"BUY", "SELL"} /\ Signed(o) \in Int
      /\ o.side = "BUY" => Signed(o) = o.quantity
      /\ o.side = "SELL" => Signed(o) = -o.quantity
  BY <1>1, <1>3, SignedType DEF Type
<1>5. shares[z] \in Int /\ price[z] \in Nat /\ cash \in Int /\ shares \in [Symbols -> Int]
  BY <1>1, <1>4 DEF Type
<1>6. After(z) = shares[z] + Signed(o)
  BY <1>1, PendingOf DEF After, Type
<1>7. \A s \in Symbols : s # z => shares'[s] = shares[s]
  BY <1>3, <1>5
<1>8. CASE o.side = "BUY"
  <2>1. shares' = [shares EXCEPT ![z] = @ + n]
    BY <1>3, <1>8
  <2>2. shares'[z] = shares[z] + n
    BY <1>4, <1>5, <2>1
  <2>3. shares[z] <= shares'[z] /\ shares'[z] <= After(z)
    BY <1>4, <1>5, <1>6, <1>8, <2>2
  <2> QED BY <1>2, <1>4, <1>7, <1>8, <2>3
<1>9. CASE o.side = "SELL"
  <2>1. shares' = [shares EXCEPT ![z] = @ + (-n)] /\ cash' = cash - (-n) * price[z]
    BY <1>3, <1>9
  <2>2. shares'[z] = shares[z] + (-n)
    BY <1>4, <1>5, <2>1
  <2>3. After(z) <= shares'[z] /\ shares'[z] <= shares[z]
    BY <1>4, <1>5, <1>6, <1>9, <2>2
  <2>4. cash' >= cash
    <3>1. \A c \in Int, i, k \in Nat : c - (-i) * k >= c
      <4>1. \A i, k \in Nat : (-i) * k = -(i * k) /\ i * k \in Nat
        OBVIOUS
      <4> QED BY <4>1
    <3> QED BY <1>4, <1>5, <2>1, <3>1
  <2> QED BY <1>2, <1>4, <1>7, <1>9, <2>3, <2>4
<1> QED BY <1>4, <1>8, <1>9

LEMMA FillKeepsPhase ==
    ASSUME Inv, Fill
    PROVE  /\ OnePhase'
           /\ \A p \in open' : \E o \in open : p.symbol = o.symbol /\ p.side = o.side
           /\ Buying' => Buying
           /\ (\E o \in open : o.side = "BUY") => Buying
<1>1. /\ OnePhase
      /\ \A p \in open' : \E o \in open : p.symbol = o.symbol /\ p.side = o.side
  BY FillFacts DEF Inv, VenueInv
<1> QED BY <1>1 DEF OnePhase, Buying

(* A long-only account's orders spend no more than there is, at the closes *)
(* they were sized on, and slippage pays for the rest.                     *)
LEMMA FillPays ==
    ASSUME Inv, Fill, Mode = "long_only", MaxGross <= Unit
    PROVE  /\ cash' + slippage' >= 0
           /\ Buying' => cash' + slippage' + Holding' >= Reach'
<1>1. /\ Type /\ Unique(open) /\ Type' /\ Unique(open')
      /\ slippage' >= slippage
      /\ cash' + slippage' + Holding' >= cash + slippage + Holding
      /\ UNCHANGED <<sizedAt, sizedFor>> /\ \A s \in Symbols : After(s)' = After(s)
  BY FillMoves DEF Inv, VenueInv
<1>2. /\ cash \in Int /\ slippage \in Int /\ cash' \in Int /\ slippage' \in Int
      /\ Holding \in Int /\ Reach \in Int
  BY <1>1, ValueTypes DEF Type
<1>3. cash + slippage >= 0 /\ (Buying => cash + slippage + Holding >= Reach)
  BY DEF Inv, CashInv
<1>4. Reach' = Reach
  <2>1. \A s \in Symbols : Reached[s] \in Int /\ Reached'[s] = Reached[s]
    BY <1>1, ValueTypes DEF Reached
  <2> QED BY <2>1, RebalanceAssumption, SumAgrees DEF Reach
<1>5. PICK o \in open :
          /\ \A s \in Symbols : s # o.symbol => shares'[s] = shares[s]
          /\ o.side = "BUY" => shares'[o.symbol] <= After(o.symbol)
          /\ o.side = "SELL" => cash' >= cash
          /\ o.side \in {"BUY", "SELL"}
  BY FillMoves
<1>6. Holding' \in Int
  <2>1. \A s \in Symbols : shares'[s] \in Int /\ sizedAt'[s] \in Int
    BY <1>1 DEF Type
  <2>2. \A s \in Symbols : Held'[s] \in Int
    BY <2>1, Products DEF Held
  <2> QED BY <2>2, RebalanceAssumption, SumType DEF Holding
<1>7. CASE o.side = "SELL"
  <2>1. ~ Buying'
    BY <1>5, <1>7, FillKeepsPhase DEF Buying
  <2>2. cash' >= cash /\ slippage' >= slippage
    BY <1>1, <1>5, <1>7
  <2>3. cash' + slippage' >= 0
    <3>1. \A a, b, c, d \in Int : a + b >= 0 /\ c >= a /\ d >= b => c + d >= 0
      OBVIOUS
    <3>2. cash + slippage >= 0
      BY <1>3
    <3> QED BY <1>2, <2>2, <3>1, <3>2, Zenon
  <2> QED BY <2>1, <2>3
<1>8. CASE o.side = "BUY"
  <2>1. Buying
    BY <1>8, FillKeepsPhase
  <2>2. cash' + slippage' + Holding' >= Reach'
    <3>1. \A a, b, c, d \in Int : d >= b /\ b >= c => d >= c
      OBVIOUS
    <3>2. /\ cash' + slippage' + Holding' \in Int
          /\ cash + slippage + Holding \in Int
      BY <1>2, <1>6
    <3>3. cash + slippage + Holding >= Reach
      BY <1>3, <2>1
    <3>4. cash' + slippage' + Holding' >= Reach
      BY <1>1, <1>2, <3>1, <3>2, <3>3
    <3> QED BY <1>4, <3>4
  <2>3. Holding' <= Reach
    <3>1. ASSUME NEW s \in Symbols
          PROVE  Held'[s] \in Int /\ Reached[s] \in Int /\ Held'[s] <= Reached[s]
      <4>1. sizedAt' = sizedAt /\ sizedAt[s] \in Nat /\ After(s) \in Int /\ shares'[s] \in Int
        BY <1>1, ValueTypes DEF Type
      <4>2. shares'[s] <= After(s)
        <5>1. shares[s] <= After(s)
          BY <1>1, <2>1, BuyingAdds DEF Buying
        <5> QED BY <1>5, <1>8, <5>1
      <4>3. Held'[s] = shares'[s] * sizedAt[s] /\ Reached[s] = After(s) * sizedAt[s]
        BY <4>1 DEF Held, Reached
      <4>4. \A a, b \in Int, k \in Nat :
                a * k \in Int /\ b * k \in Int /\ (a <= b => a * k <= b * k)
        BY Grows
      <4> QED BY <4>1, <4>2, <4>3, <4>4
    <3> QED BY <3>1, RebalanceAssumption, SumCompares DEF Holding, Reach
  <2>4. cash' + slippage' >= 0
    <3>1. \A a, b, h, r \in Int : a + b + h >= r /\ h <= r => a + b >= 0
      OBVIOUS
    <3>2. cash' + slippage' + Holding' >= Reach
      BY <1>4, <2>2
    <3> QED BY <1>2, <1>6, <2>3, <3>1, <3>2
  <2> QED BY <2>2, <2>4
<1> QED BY <1>5, <1>7, <1>8

LEMMA FillKeeps == ASSUME Inv, Fill PROVE Inv'
<1>1. /\ Type /\ Unique(open) /\ Type' /\ Unique(open')
      /\ UNCHANGED <<sizedAt, sizedFor>> /\ \A s \in Symbols : After(s)' = After(s)
  BY FillMoves DEF Inv, VenueInv
<1>2. VenueInv'
  BY <1>1, FillKeepsPhase DEF VenueInv
<1>3. WithinCap'
  <2> SUFFICES ASSUME NEW p \in open'
               PROVE  Abs(After(p.symbol)' * sizedAt[p.symbol]) * Unit
                          <= MaxPositionWeight * sizedFor
    BY <1>1 DEF WithinCap
  <2>1. PICK o \in open : p.symbol = o.symbol
    BY FillKeepsPhase
  <2>2. o.symbol \in Symbols
    BY <1>1, SignedType DEF Type
  <2> QED BY <1>1, <2>1, <2>2 DEF Inv, WithinCap
<1>4. LongInv'
  <2> SUFFICES ASSUME Mode = "long_only"
               PROVE  /\ \A s \in Symbols : shares'[s] >= 0 /\ After(s)' >= 0
                      /\ Buying' => Reach' * Unit <= MaxGross * sizedFor
    BY <1>1 DEF LongInv
  <2>1. /\ \A s \in Symbols : shares[s] >= 0 /\ After(s) >= 0
        /\ Buying => Reach * Unit <= MaxGross * sizedFor
    BY DEF Inv, LongInv
  <2>2. \A s \in Symbols : shares[s] \in Int /\ shares'[s] \in Int /\ After(s) \in Int
    BY <1>1, ValueTypes DEF Type
  <2>3. ASSUME NEW s \in Symbols PROVE shares'[s] >= 0
    <3>1. PICK o \in open :
                 /\ \A t \in Symbols : t # o.symbol => shares'[t] = shares[t]
                 /\ o.side = "BUY" => shares[o.symbol] <= shares'[o.symbol]
                 /\ o.side = "SELL" => After(o.symbol) <= shares'[o.symbol]
                 /\ o.side \in {"BUY", "SELL"}
      BY FillMoves
    <3> QED BY <2>1, <2>2, <3>1
  <2>4. Reach' = Reach
    <3>1. \A s \in Symbols : Reached[s] \in Int /\ Reached'[s] = Reached[s]
      BY <1>1, ValueTypes DEF Reached
    <3> QED BY <3>1, RebalanceAssumption, SumAgrees DEF Reach
  <2> QED BY <1>1, <2>1, <2>3, <2>4, FillKeepsPhase
<1>5. CashInv'
  BY FillPays DEF CashInv
<1> QED BY <1>2, <1>3, <1>4, <1>5 DEF Inv

LEMMA CycleKeeps == ASSUME Inv, Cycle PROVE Inv'
<1>1. /\ Type' /\ Unique(open') /\ OnePhase' /\ sizedAt' = close /\ sizedFor' = Equity
      /\ UNCHANGED <<cash, shares>>
      /\ \A o \in open' : Abs(After(o.symbol)' * close[o.symbol]) * Unit
                              <= MaxPositionWeight * Equity
      /\ cash + slippage' >= 0
      /\ cash + slippage' + Holding' >= Equity
      /\ Mode = "long_only" =>
            /\ \A s \in Symbols : After(s)' >= 0 \/ After(s)' = shares[s]
            /\ Buying' => Reach' * Unit <= MaxGross * Equity
  BY CycleFacts DEF Inv, VenueInv
<1>2. VenueInv' /\ WithinCap'
  BY <1>1 DEF VenueInv, WithinCap, Inv
<1>3. LongInv'
  BY <1>1 DEF LongInv, Inv
<1>4. ASSUME Mode = "long_only", MaxGross <= Unit, Buying'
      PROVE  cash + slippage' + Holding' >= Reach'
  <2>1. Reach' * Unit <= MaxGross * Equity
    BY <1>1, <1>4
  <2>2. Type /\ Type' /\ Unique(open')
    BY <1>1 DEF Inv, VenueInv
  <2>3. Equity \in Nat /\ cash \in Int /\ slippage' \in Int
    <3>1. Equity > 0
      BY DEF Cycle
    <3>2. Equity \in Int
      BY <2>2, EquityType DEF Type
    <3> QED BY <2>2, <3>1, <3>2 DEF Type
  <2>4. Reach' \in Int /\ Holding' \in Int
    <3>1. \A s \in Symbols : shares'[s] \in Int /\ sizedAt'[s] \in Int /\ After(s)' \in Int
      <4>1. \A s : Pending(open', s) \in Int
        BY <2>2, PendingOf DEF Type
      <4> QED BY <2>2, <4>1 DEF Type, After
    <3>2. \A s \in Symbols : Held'[s] \in Int /\ Reached'[s] \in Int
      BY <3>1, Products DEF Held, Reached
    <3> QED BY <3>2, RebalanceAssumption, SumType DEF Reach, Holding
  <2>5. \A r \in Int, e, u, g \in Nat : u # 0 /\ g <= u /\ r * u <= g * e => r <= e
    <3>1. \A e, u, g \in Nat : g <= u => g * e <= u * e
      OBVIOUS
    <3>2. \A r \in Int, e, u \in Nat : u # 0 /\ r * u <= e * u => r <= e
      BY Grows
    <3>3. \A r \in Int, e, u, g \in Nat :
              g * e \in Int /\ r * u \in Int /\ u * e = e * u /\ e * u \in Int
      OBVIOUS
    <3> TAKE r \in Int, e \in Nat, u \in Nat, g \in Nat
    <3> HAVE u # 0 /\ g <= u /\ r * u <= g * e
    <3>4. r * u <= e * u
      BY <3>1, <3>3
    <3> QED BY <3>2, <3>4
  <2>6. Reach' <= Equity
    BY <1>4, <2>1, <2>3, <2>4, <2>5, RebalanceAssumption
  <2> QED BY <1>1, <2>3, <2>4, <2>6
<1>5. CashInv'
  BY <1>1, <1>4 DEF CashInv
<1> QED BY <1>2, <1>3, <1>5 DEF Inv

LEMMA CancelKeeps == ASSUME Inv, Cancel PROVE Inv'
<1>1. Type /\ Unique(open)
  BY DEF Inv, VenueInv
<1>2. UNCHANGED <<price, close, target, cash, shares, sizedAt, sizedFor, slippage>>
  BY DEF Cancel, sizing
<1>3. PICK o \in open : open' = open \ {o}
  BY DEF Cancel
<1>4. /\ Type' /\ Unique(open')
      /\ After(o.symbol)' = shares[o.symbol]
      /\ \A s \in Symbols : s # o.symbol => After(s)' = After(s)
  BY <1>1, <1>2, <1>3, CancelFacts
<1>5. OnePhase'
  BY <1>3 DEF OnePhase, Inv, VenueInv
<1>6. WithinCap'
  <2> SUFFICES ASSUME NEW p \in open'
               PROVE  Abs(After(p.symbol)' * sizedAt[p.symbol]) * Unit
                          <= MaxPositionWeight * sizedFor
    BY <1>2, <1>4 DEF WithinCap
  <2>1. p \in open /\ p.symbol # o.symbol /\ p.symbol \in Symbols
    BY <1>1, <1>3, SignedType DEF Unique, Type
  <2> QED BY <1>4, <2>1 DEF Inv, WithinCap
<1>7. Buying' => Buying /\ Reach' <= Reach /\ Reach' \in Int /\ Reach \in Int
  <2> SUFFICES ASSUME Buying'
               PROVE  Buying /\ Reach' <= Reach /\ Reach' \in Int /\ Reach \in Int
    OBVIOUS
  <2>1. Buying /\ \A p \in open : p.side = "BUY"
    BY <1>3 DEF Buying, Inv, VenueInv, OnePhase
  <2>2. ASSUME NEW s \in Symbols PROVE Reached'[s] \in Int /\ Reached'[s] <= Reached[s]
    <3>1. Held[s] <= Reached[s] /\ Held[s] \in Int /\ Reached[s] \in Int
      BY <1>1, <2>1, BuyingAdds, ValueTypes
    <3>2. Reached'[s] = Held[s] \/ Reached'[s] = Reached[s]
      BY <1>2, <1>4 DEF Reached, Held
    <3> QED BY <3>1, <3>2
  <2>3. \A s \in Symbols : Reached[s] \in Int
    BY <1>1, ValueTypes
  <2> QED BY <2>1, <2>2, <2>3, RebalanceAssumption, SumCompares, SumType DEF Reach
<1>8. LongInv'
  <2> SUFFICES ASSUME Mode = "long_only"
               PROVE  /\ \A s \in Symbols : shares[s] >= 0 /\ After(s)' >= 0
                      /\ Buying' => Reach' * Unit <= MaxGross * sizedFor
    BY <1>2, <1>4 DEF LongInv
  <2>1. /\ \A s \in Symbols : shares[s] >= 0 /\ After(s) >= 0
        /\ Buying => Reach * Unit <= MaxGross * sizedFor
    BY DEF Inv, LongInv
  <2>2. \A s \in Symbols : After(s)' >= 0
    BY <1>4, <2>1
  <2>3. ASSUME Buying' PROVE Reach' * Unit <= MaxGross * sizedFor
    <3>1. Unit \in Nat /\ MaxGross \in Int /\ sizedFor \in Int
      BY <1>1, RebalanceAssumption DEF Type
    <3>2. \A a, b \in Int, k \in Nat :
              a * k \in Int /\ b * k \in Int /\ (a <= b => a * k <= b * k)
      BY Grows
    <3>3. MaxGross * sizedFor \in Int
      BY <3>1, Products
    <3>4. Reach' * Unit <= Reach * Unit /\ Reach' * Unit \in Int /\ Reach * Unit \in Int
      BY <1>7, <2>3, <3>1, <3>2
    <3>5. Reach * Unit <= MaxGross * sizedFor
      BY <1>7, <2>1, <2>3
    <3> QED BY <3>3, <3>4, <3>5
  <2> QED BY <2>1, <2>2, <2>3
<1>9. CashInv'
  <2>1. Holding' = Holding /\ Holding \in Int /\ cash \in Int /\ slippage \in Int
    BY <1>1, <1>2, ValueTypes DEF Holding, Held, Type
  <2> QED BY <1>2, <1>7, <2>1 DEF CashInv, Inv
<1> QED BY <1>4, <1>5, <1>6, <1>8, <1>9 DEF Inv, VenueInv

(* Neither the market nor its close touches what the invariant is about.   *)
LEMMA StillKeeps ==
    ASSUME Inv, Type', UNCHANGED <<cash, shares, open, sizedAt, sizedFor, slippage>>
    PROVE  Inv'
<1>1. \A s : After(s)' = After(s)
  BY DEF After
<1>2. Reach' = Reach /\ Holding' = Holding /\ (Buying' <=> Buying)
  BY <1>1 DEF Reach, Reached, Holding, Held, Buying
<1>3. VenueInv'
  BY DEF Inv, VenueInv, OnePhase
<1>4. WithinCap'
  BY <1>1 DEF Inv, WithinCap
<1>5. LongInv' /\ CashInv'
  BY <1>1, <1>2 DEF Inv, LongInv, CashInv
<1> QED BY <1>3, <1>4, <1>5 DEF Inv

LEMMA MovesKeep == ASSUME Inv, MarketMoves \/ MarketCloses PROVE Inv'
<1>1. UNCHANGED <<cash, shares, open, sizedAt, sizedFor, slippage>>
  BY DEF MarketMoves, MarketCloses, sizing
<1>2. Type'
  <2>1. Type
    BY DEF Inv, VenueInv
  <2>2. CASE MarketMoves
    <3>1. Prices \subseteq Nat \ {0} /\ price' \in [Symbols -> Prices] /\ UNCHANGED <<close, target>>
      BY <2>2, RebalanceAssumption DEF MarketMoves
    <3>2. price' \in [Symbols -> Nat \ {0}]
      BY <3>1
    <3> QED BY <1>1, <2>1, <3>1, <3>2 DEF Type
  <2>3. CASE MarketCloses
    <3>1. close' = price /\ UNCHANGED price /\ target' \in [Symbols -> Int]
      BY <2>3, RebalanceAssumption DEF MarketCloses
    <3> QED BY <1>1, <2>1, <3>1 DEF Type
  <2> QED BY <2>2, <2>3
<1> QED BY <1>1, <1>2, StillKeeps

LEMMA InvStep == Inv /\ [Next]_vars => Inv'
<1> SUFFICES ASSUME Inv, [Next]_vars PROVE Inv'
  OBVIOUS
<1>1. CASE Cycle
  BY <1>1, CycleKeeps
<1>2. CASE Fill
  BY <1>2, FillKeeps
<1>3. CASE Cancel
  BY <1>3, CancelKeeps
<1>4. CASE MarketMoves \/ MarketCloses
  BY <1>4, MovesKeep
<1>5. CASE UNCHANGED vars
  <2>1. UNCHANGED <<price, close, target, cash, shares, open, sizedAt, sizedFor, slippage>>
    BY <1>5 DEF vars, sizing
  <2>2. Type'
    BY <2>1 DEF Inv, VenueInv, Type
  <2> QED BY <2>1, <2>2, StillKeeps
<1> QED BY <1>1, <1>2, <1>3, <1>4, <1>5 DEF Next

LEMMA Invariant == Spec => []Inv
BY InvInit, InvStep, PTL DEF Spec


(* A long-only account whose gross cap allows no leverage never sells what *)
(* it does not hold, and never owes more than prices took from it between  *)
(* the closes its orders were sized on and their fills, whatever the venue *)
(* fills of whichever orders (PreTradeRiskCheck before each submission and *)
(* the sells-first phases of run_paper).                                   *)
THEOREM OwesOnlySlippage ==
    ASSUME MaxGross <= Unit
    PROVE  Spec => []NoLeverage
<1>1. Inv => NoLeverage
  BY DEF Inv, CashInv, LongInv, NoLeverage
<1> QED BY <1>1, Invariant, PTL

-----------------------------------------------------------------------------
(* Caps.                                                                   *)

Sizes == [s \in Symbols |-> Value(s)]

LEMMA InvestedIs ==
    ASSUME Type, Unique(open), \A s \in Symbols : shares[s] >= 0
    PROVE  Invested = Holding
<1>1. Invested = SumOver(Sizes, Symbols)
  BY SumOfIsSum DEF Invested, Sizes
<1>2. \A s \in Symbols : Held[s] \in Int /\ Sizes[s] = Held[s]
  BY HeldIsWorth, ValueTypes, AbsIs DEF Held, Sizes, Value
<1> QED BY <1>1, <1>2, RebalanceAssumption, SumAgrees DEF Holding

LEMMA FillCaps ==
    ASSUME Inv, Inv', Fill, Mode = "long_only"
    PROVE  /\ \A s \in Symbols :
                 \/ Value(s)' <= Value(s)
                 \/ Value(s)' * Unit <= MaxPositionWeight * sizedFor
           /\ \/ Invested' <= Invested
              \/ Invested' * Unit <= MaxGross * sizedFor
<1>1. Type /\ Unique(open) /\ Type' /\ Unique(open')
  BY DEF Inv, VenueInv
<1>2. PICK o \in open :
          /\ o.symbol \in Symbols
          /\ \A s \in Symbols : s # o.symbol => shares'[s] = shares[s]
          /\ o.side = "BUY" => /\ shares[o.symbol] <= shares'[o.symbol]
                               /\ shares'[o.symbol] <= After(o.symbol)
          /\ o.side = "SELL" => /\ After(o.symbol) <= shares'[o.symbol]
                                /\ shares'[o.symbol] <= shares[o.symbol]
          /\ o.side \in {"BUY", "SELL"}
  BY FillMoves
<1>3. sizedAt' = sizedAt /\ sizedFor' = sizedFor
  BY FillMoves
<1>4. \A s \in Symbols : /\ shares[s] \in Int /\ shares'[s] \in Int /\ After(s) \in Int
                         /\ shares[s] >= 0 /\ shares'[s] >= 0 /\ After(s) >= 0
                         /\ sizedAt[s] \in Nat
  BY <1>1, ValueTypes DEF Inv, LongInv, Type
<1>5. Unit \in Nat /\ MaxGross \in Nat /\ MaxPositionWeight \in Nat /\ sizedFor \in Int
  BY <1>1, RebalanceAssumption DEF Type
<1>6. \A a, b \in Int, k \in Nat :
          a * k \in Int /\ b * k \in Int /\ (a <= b => a * k <= b * k)
  BY Grows
<1>7. \A s \in Symbols : /\ Value(s) = shares[s] * sizedAt[s] /\ Value(s) \in Int
                         /\ Value(s)' = shares'[s] * sizedAt[s] /\ Value(s)' \in Int
  <2> SUFFICES ASSUME NEW s \in Symbols
               PROVE  /\ Value(s) = shares[s] * sizedAt[s] /\ Value(s) \in Int
                      /\ Value(s)' = shares'[s] * sizedAt[s] /\ Value(s)' \in Int
    OBVIOUS
  <2>1. \A a \in Int, k \in Nat : a >= 0 => a * k >= 0 /\ a * k \in Int
    BY Grows
  <2>2. \A a \in Int, k \in Nat : a >= 0 => Abs(a * k) = a * k /\ a * k \in Int
    BY <2>1, AbsIs
  <2>3. Value(s) = Abs(shares[s] * sizedAt[s]) /\ Value(s)' = Abs(shares'[s] * sizedAt[s])
    BY <1>3 DEF Value
  <2> QED BY <1>4, <2>2, <2>3
<1>8. ASSUME NEW s \in Symbols
      PROVE  Value(s)' <= Value(s) \/ Value(s)' * Unit <= MaxPositionWeight * sizedFor
  <2>1. CASE shares'[s] <= shares[s]
    BY <1>4, <1>6, <1>7, <2>1
  <2>2. CASE ~ (shares'[s] <= shares[s])
    <3>1. s = o.symbol /\ o.side = "BUY" /\ shares'[s] <= After(s)
      BY <1>2, <1>4, <2>2
    <3>2. Abs(After(s) * sizedAt[s]) * Unit <= MaxPositionWeight * sizedFor
      BY <3>1 DEF Inv, WithinCap
    <3>3. After(s) * sizedAt[s] >= 0 /\ After(s) * sizedAt[s] \in Int
      <4>1. \A a \in Int, k \in Nat : a >= 0 => a * k >= 0 /\ a * k \in Int
        BY Grows
      <4> QED BY <1>4, <4>1
    <3>4. Abs(After(s) * sizedAt[s]) = After(s) * sizedAt[s]
      BY <3>3, AbsIs
    <3>5. Value(s)' <= After(s) * sizedAt[s]
      BY <1>4, <1>6, <1>7, <3>1
    <3>6. Value(s)' * Unit <= (After(s) * sizedAt[s]) * Unit
      BY <1>5, <1>6, <1>7, <3>3, <3>5
    <3>7. \A a, b, c \in Int : a <= b /\ b <= c => a <= c
      OBVIOUS
    <3>8. /\ Value(s)' * Unit \in Int /\ (After(s) * sizedAt[s]) * Unit \in Int
          /\ MaxPositionWeight * sizedFor \in Int
      BY <1>5, <1>6, <1>7, <3>3, Products
    <3>9. (After(s) * sizedAt[s]) * Unit <= MaxPositionWeight * sizedFor
      BY <3>2, <3>4
    <3> QED BY <1>3, <3>6, <3>7, <3>8, <3>9
  <2> QED BY <2>1, <2>2
<1>9. /\ Invested = Holding /\ Invested' = Holding'
      /\ \A s \in Symbols : /\ Held[s] = shares[s] * sizedAt[s] /\ Held[s] \in Int
                            /\ Held'[s] = shares'[s] * sizedAt[s] /\ Held'[s] \in Int
  <2>1. \A s \in Symbols : /\ Held[s] = shares[s] * sizedAt[s] /\ Held[s] \in Int
                           /\ Held'[s] = shares'[s] * sizedAt[s] /\ Held'[s] \in Int
    BY <1>3, <1>7 DEF Held
  <2>2. Invested = Holding
    BY <1>1, <1>4, InvestedIs
  <2>3. Invested' = Holding'
    <3>1. Invested' = SumOver(Sizes', Symbols)
      BY SumOfIsSum DEF Invested, Sizes
    <3>2. \A s \in Symbols : Sizes'[s] = Held'[s]
      BY <1>7, <2>1 DEF Sizes
    <3> QED BY <2>1, <3>1, <3>2, RebalanceAssumption, SumAgrees DEF Holding
  <2> QED BY <2>1, <2>2, <2>3
<1>10. CASE o.side = "SELL"
  <2>1. \A s \in Symbols : shares'[s] <= shares[s]
    BY <1>2, <1>4, <1>10
  <2>2. \A s \in Symbols : Held'[s] <= Held[s]
    BY <1>4, <1>6, <1>9, <2>1
  <2>3. Invested' <= Invested
    <3>1. \A s \in Symbols : Held'[s] \in Int /\ Held[s] \in Int /\ Held'[s] <= Held[s]
      BY <1>9, <2>2
    <3>2. IsFiniteSet(Symbols)
      BY RebalanceAssumption
    <3>3. Holding' <= Holding
      BY <3>1, <3>2, SumCompares DEF Holding
    <3> QED BY <1>9, <3>3
  <2> QED BY <1>8, <2>3
<1>11. CASE o.side = "BUY"
  <2>1. Buying
    BY <1>11, FillKeepsPhase
  <2>2. Reach * Unit <= MaxGross * sizedFor
    BY <2>1 DEF Inv, LongInv
  <2>3. \A s \in Symbols : shares'[s] <= After(s)
    <3>1. \A s \in Symbols : shares[s] <= After(s)
      BY <1>1, <2>1, BuyingAdds DEF Buying
    <3> QED BY <1>2, <1>11, <3>1
  <2>4. \A s \in Symbols : Reached[s] = After(s) * sizedAt[s] /\ Reached[s] \in Int
    BY <1>1, ValueTypes DEF Reached
  <2>5. \A s \in Symbols : Held'[s] <= Reached[s]
    BY <1>4, <1>6, <1>9, <2>3, <2>4
  <2>6. Invested' <= Reach /\ Invested' \in Int /\ Reach \in Int
    <3>1. \A s \in Symbols : Held'[s] \in Int /\ Reached[s] \in Int /\ Held'[s] <= Reached[s]
      BY <1>9, <2>4, <2>5
    <3>2. IsFiniteSet(Symbols)
      BY RebalanceAssumption
    <3>3. Holding' <= SumOver(Reached, Symbols)
      BY <3>1, <3>2, SumCompares DEF Holding
    <3>4. Holding' \in Int /\ SumOver(Reached, Symbols) \in Int
      BY <3>1, <3>2, SumType DEF Holding
    <3> QED BY <1>9, <3>3, <3>4 DEF Reach
  <2>7. /\ Invested' * Unit <= Reach * Unit
        /\ Invested' * Unit \in Int /\ Reach * Unit \in Int /\ MaxGross * sizedFor \in Int
    <3>1. MaxGross \in Int /\ \A a, b \in Int : a * b \in Int
      BY <1>5, Products
    <3> QED BY <1>5, <1>6, <2>6, <3>1
  <2>8. \A a, b, c \in Int : a <= b /\ b <= c => a <= c
    OBVIOUS
  <2>9. Invested' * Unit <= MaxGross * sizedFor
    BY <2>2, <2>7, <2>8
  <2> QED BY <1>3, <1>8, <2>9
<1> QED BY <1>2, <1>10, <1>11

(* No fill takes a long-only account's position, or its whole book, above  *)
(* the gate's caps, nor further above them where prices had taken it, at   *)
(* the closes and the equity the order was sized with.  (A market-neutral  *)
(* book does leave its gross cap: between its sells and its buys it is     *)
(* short of what it will buy back.)                                        *)
THEOREM FillsStayInside ==
    ASSUME Mode = "long_only"
    PROVE  Spec => FillsRespectCaps
<1> DEFINE Respects ==
        shares' # shares =>
            /\ \A s \in Symbols :
                  \/ Value(s)' <= Value(s)
                  \/ Value(s)' * Unit <= MaxPositionWeight * sizedFor
            /\ \/ Invested' <= Invested
               \/ Invested' * Unit <= MaxGross * sizedFor
<1>1. Inv /\ Inv' /\ [Next]_vars => [Respects]_vars
  <2> SUFFICES ASSUME Inv, Inv', [Next]_vars, shares' # shares PROVE Fill
    BY FillCaps
  <2> QED BY DEF Next, vars, Cycle, Cancel, MarketMoves, MarketCloses
<1> HIDE DEF Respects
<1>2. Spec => [][Respects]_vars
  BY <1>1, Invariant, PTL DEF Spec
<1> QED BY <1>2 DEF FillsRespectCaps, Respects

-----------------------------------------------------------------------------
(* The gate accepts what sizing makes of a target it accepts.              *)

(* The whole shares a weight buys, within any bound on the weight.         *)
LEMMA WholeShares ==
    ASSUME NEW t \in Nat, NEW capital \in Nat \ {0}, NEW p \in Nat \ {0}, NEW u \in Nat \ {0}
    PROVE  LET whole == (t * capital) \div (u * p)
           IN  /\ whole \in Nat /\ whole * p \in Nat
               /\ (whole * p) * u <= t * capital
               /\ \A b \in Nat : t <= b => (whole * p) * u <= b * capital
               /\ t <= u => whole * p <= capital
<1> DEFINE whole == (t * capital) \div (u * p)
<1>1. t * capital \in Nat /\ u * p \in Nat \ {0}
  <2>1. \A a, c \in Nat : a * c \in Nat /\ (a # 0 /\ c # 0 => a * c # 0)
    OBVIOUS
  <2> QED BY <2>1
<1>2. whole \in Nat /\ whole * (u * p) <= t * capital
  BY <1>1, QuotientBelow
<1> HIDE DEF whole
<1>3. whole * p \in Nat
  BY <1>2
<1>4. whole * (u * p) = (whole * p) * u
  <2>1. \A a, b, c \in Nat : a * (b * c) = (a * c) * b
    OBVIOUS
  <2> QED BY <1>2, <2>1
<1>5. (whole * p) * u <= t * capital /\ (whole * p) * u \in Nat
  BY <1>2, <1>3, <1>4
<1>6. \A b \in Nat : t <= b => (whole * p) * u <= b * capital
  <2>1. \A a, b, k \in Nat : a <= b => a * k <= b * k /\ a * k \in Nat /\ b * k \in Nat
    OBVIOUS
  <2> QED BY <1>5, <2>1
<1>7. t <= u => whole * p <= capital
  <2>1. \A a, b, k \in Nat : k # 0 /\ a * k <= k * b => a <= b
    OBVIOUS
  <2> QED BY <1>3, <1>6, <2>1
<1> QED BY <1>2, <1>3, <1>5, <1>6, <1>7 DEF whole

LEMMA SizingPasses ==
    ASSUME Type, open = {}, Equity > 0, Mode = "long_only",
           MaxOrderNotional = NoCap, MaxNotional = NoCap,
           CheckWeights(target, Unit),
           \A s \in Symbols : close[s] >= MinTradeNotional
    PROVE  AssertSafe(SizedOrders(Equity), Equity)
<1> DEFINE orders == SizedOrders(Equity)
           T(s) == TargetShares(s, Equity)
           after == PostTrade(orders)
           D == {s \in Symbols : after[s] # 0}
           weight == [s \in D |-> after[s] * close[s]]
           size == [s \in D |-> Abs(weight[s])]
           worth == [s \in Symbols |-> T(s) * close[s]]
           scaled == [s \in Symbols |-> Unit * worth[s]]
           paid == [s \in Symbols |-> Equity * target[s]]
<1>1. Equity \in Nat \ {0}
  <2>1. Equity \in Int
    BY EquityType DEF Type
  <2> QED BY <2>1
<1>2. /\ Unit \in Nat \ {0} /\ MaxPositionWeight \in Nat /\ MaxGross \in Nat
      /\ MinTradeNotional \in Nat /\ IsFiniteSet(Symbols)
  BY RebalanceAssumption
<1>3. \A s \in Symbols : /\ target[s] \in Nat /\ close[s] \in Nat \ {0} /\ shares[s] \in Int
                         /\ target[s] <= Unit /\ target[s] <= MaxPositionWeight
  <2> SUFFICES ASSUME NEW s \in Symbols
               PROVE  /\ target[s] \in Nat /\ close[s] \in Nat \ {0} /\ shares[s] \in Int
                      /\ target[s] <= Unit /\ target[s] <= MaxPositionWeight
    OBVIOUS
  <2>1. target[s] \in Int /\ close[s] \in Nat \ {0} /\ shares[s] \in Int /\ DOMAIN target = Symbols
    BY DEF Type
  <2>2. /\ target[s] >= 0 /\ Abs(target[s]) <= Unit
        /\ Abs(target[s]) * Unit <= MaxPositionWeight * Unit
    BY <2>1 DEF CheckWeights
  <2>3. Abs(target[s]) = target[s]
    BY <2>1, <2>2, AbsIs
  <2>4. \A a, b, k \in Nat : k # 0 /\ a * k <= b * k => a <= b
    OBVIOUS
  <2> QED BY <1>2, <2>1, <2>2, <2>3, <2>4
<1>4. ASSUME NEW s \in Symbols
      PROVE  /\ T(s) \in Nat /\ T(s) * close[s] \in Nat
             /\ (T(s) * close[s]) * Unit <= target[s] * Equity
             /\ (T(s) * close[s]) * Unit <= MaxPositionWeight * Equity
             /\ T(s) * close[s] <= Equity
  <2> DEFINE whole == (target[s] * Equity) \div (Unit * close[s])
  <2>1. /\ whole \in Nat /\ whole * close[s] \in Nat
        /\ (whole * close[s]) * Unit <= target[s] * Equity
        /\ \A b \in Nat : target[s] <= b => (whole * close[s]) * Unit <= b * Equity
        /\ target[s] <= Unit => whole * close[s] <= Equity
    BY <1>1, <1>2, <1>3, WholeShares
  <2>2. T(s) = whole
    <3>1. Abs(target[s]) = target[s] /\ ~ (target[s] < 0)
      BY <1>3, AbsIs
    <3> QED BY <3>1 DEF TargetShares
  <2> HIDE DEF whole, T
  <2> QED BY <1>2, <1>3, <2>1, <2>2
<1> HIDE DEF T
<1>5. /\ orders \in SUBSET Orders /\ IsFiniteSet(orders) /\ Unique(orders)
      /\ \A s \in Symbols : T(s) - shares[s] # 0
                            /\ Abs(T(s) - shares[s]) * close[s] >= MinTradeNotional
                            => Pending(orders, s) = T(s) - shares[s]
      /\ \A s \in Symbols : T(s) - shares[s] = 0 => Pending(orders, s) = 0
  BY <1>1, SizedFacts DEF Delta, T
<1> HIDE DEF orders
<1>6. ASSUME NEW s \in Symbols PROVE after[s] = T(s)
  <2> DEFINE d == T(s) - shares[s]
  <2>1. after[s] = shares[s] + Pending(orders, s)
    BY <1>5, PostTradeIs
  <2>2. d \in Int /\ T(s) \in Int /\ shares[s] \in Int
    BY <1>3, <1>4
  <2> HIDE DEF after
  <2>3. CASE d = 0
    BY <1>5, <2>1, <2>2, <2>3
  <2>4. CASE d # 0
    <3>1. Abs(d) \in Nat /\ Abs(d) # 0
      <4> HIDE DEF d
      <4> QED BY <2>2, <2>4, AbsIs
    <3>2. \A a, p, m \in Nat : a # 0 /\ p >= m => a * p >= m
      OBVIOUS
    <3>3. Abs(d) * close[s] >= MinTradeNotional
      <4> HIDE DEF d
      <4> QED BY <1>2, <1>3, <3>1, <3>2
    <3>4. Pending(orders, s) = T(s) - shares[s]
      BY <1>5, <2>4, <3>3
    <3> QED BY <2>1, <2>2, <3>4
  <2> QED BY <2>3, <2>4
<1>7. /\ DOMAIN weight = D /\ D \subseteq Symbols
      /\ \A s \in D : weight[s] = worth[s] /\ size[s] = worth[s] /\ Abs(weight[s]) = worth[s]
      /\ \A s \in Symbols \ D : worth[s] = 0
  <2>1. \A s \in D : weight[s] = worth[s] /\ size[s] = Abs(worth[s])
    BY <1>6
  <2>2. \A s \in Symbols : worth[s] \in Nat /\ Abs(worth[s]) = worth[s]
    BY <1>4, AbsIs
  <2>3. \A s \in Symbols \ D : worth[s] = 0
    <3> SUFFICES ASSUME NEW s \in Symbols \ D PROVE worth[s] = 0
      OBVIOUS
    <3>1. T(s) = 0 /\ close[s] \in Int
      BY <1>3, <1>6
    <3>2. \A p \in Int : 0 * p = 0
      OBVIOUS
    <3> QED BY <3>1, <3>2
  <2> QED BY <2>1, <2>2, <2>3
<1>8. \A s \in Symbols : /\ worth[s] \in Nat /\ worth[s] = T(s) * close[s]
                         /\ scaled[s] = Unit * worth[s] /\ paid[s] = Equity * target[s]
                         /\ scaled[s] \in Int /\ paid[s] \in Int /\ scaled[s] <= paid[s]
  <2> SUFFICES ASSUME NEW s \in Symbols
               PROVE  /\ worth[s] \in Nat /\ worth[s] = T(s) * close[s]
                      /\ scaled[s] = Unit * worth[s] /\ paid[s] = Equity * target[s]
                      /\ scaled[s] \in Int /\ paid[s] \in Int /\ scaled[s] <= paid[s]
    OBVIOUS
  <2>1. worth[s] = T(s) * close[s] /\ scaled[s] = Unit * worth[s] /\ paid[s] = Equity * target[s]
    OBVIOUS
  <2>2. worth[s] \in Nat /\ worth[s] * Unit <= target[s] * Equity
    BY <1>4, <2>1
  <2> HIDE DEF worth, scaled, paid
  <2>3. \A a, b \in Nat : a * b = b * a /\ a * b \in Nat
    OBVIOUS
  <2> QED BY <1>1, <1>2, <1>3, <2>1, <2>2, <2>3
<1>9. size = [s \in DOMAIN weight |-> Abs(weight[s])]
  OBVIOUS
<1>10. CheckPostTrade(orders, Equity) <=> CheckWeights(weight, Equity)
  BY DEF CheckPostTrade
<1>11. DOMAIN size = D
  OBVIOUS
<1> HIDE DEF after, D, weight, size, worth, scaled, paid
<1>12. SumOf(size) * Unit <= MaxGross * Equity
  <2>1. SumOf(size) = SumOver(size, D)
    BY <1>11, SumOfIsSum
  <2>2. SumOver(size, D) = SumOver(worth, D)
    <3>1. IsFiniteSet(D)
      BY <1>2, <1>7, FS_Subset
    <3>2. \A s \in D : worth[s] \in Int /\ size[s] = worth[s]
      BY <1>7, <1>8
    <3> QED BY <3>1, <3>2, SumAgrees
  <2>3. SumOver(worth, Symbols) = SumOver(worth, D)
    BY <1>2, <1>7, <1>8, SumIgnoresZeros
  <2>4. SumOver(scaled, Symbols) = Unit * SumOver(worth, Symbols)
    <3>1. Unit \in Int /\ \A s \in Symbols : worth[s] \in Int /\ scaled[s] = Unit * worth[s]
      BY <1>2, <1>8
    <3> QED BY <1>2, <3>1, SumScales
  <2>5. SumOver(scaled, Symbols) <= SumOver(paid, Symbols)
    BY <1>2, <1>8, SumCompares
  <2>6. SumOver(paid, Symbols) = Equity * SumOver(target, Symbols)
    <3>1. Equity \in Int /\ \A s \in Symbols : target[s] \in Int /\ paid[s] = Equity * target[s]
      BY <1>1, <1>3, <1>8
    <3> QED BY <1>2, <3>1, SumScales
  <2>7. SumOver(target, Symbols) \in Nat /\ SumOver(target, Symbols) <= MaxGross
    <3> DEFINE sizes == [s \in DOMAIN target |-> Abs(target[s])]
    <3>1. SumOf(sizes) * Unit <= MaxGross * Unit
      BY DEF CheckWeights
    <3>2. DOMAIN sizes = Symbols /\ \A s \in Symbols : sizes[s] = Abs(target[s])
      BY DEF Type
    <3>3. \A s \in Symbols : target[s] \in Int /\ target[s] >= 0 /\ sizes[s] = target[s]
      BY <1>3, <3>2, AbsIs
    <3> HIDE DEF sizes
    <3>4. SumOver(sizes, Symbols) = SumOver(target, Symbols)
      BY <1>2, <3>3, SumAgrees
    <3>5. SumOver(target, Symbols) \in Int /\ SumOver(target, Symbols) >= 0
      BY <1>2, <3>3, SumType
    <3>6. SumOf(sizes) = SumOver(target, Symbols)
      BY <3>2, <3>4, SumOfIsSum
    <3>7. \A a, b, k \in Nat : k # 0 /\ a * k <= b * k => a <= b
      OBVIOUS
    <3> QED BY <1>2, <3>1, <3>5, <3>6, <3>7
  <2>8. SumOver(worth, Symbols) \in Int /\ SumOver(worth, Symbols) >= 0
    <3>1. \A s \in Symbols : worth[s] \in Int /\ worth[s] >= 0
      BY <1>8
    <3> QED BY <1>2, <3>1, SumType
  <2>9. \A a, b, e, u, g \in Nat : u * a <= e * b /\ b <= g => a * u <= g * e
    <3>1. \A b, e, g \in Nat : b <= g => e * b <= g * e
      OBVIOUS
    <3>2. \A a, b \in Nat : a * b = b * a /\ a * b \in Nat
      OBVIOUS
    <3> QED BY <3>1, <3>2
  <2>10. Unit * SumOver(worth, Symbols) <= Equity * SumOver(target, Symbols)
    BY <2>4, <2>5, <2>6
  <2>11. SumOver(worth, Symbols) * Unit <= MaxGross * Equity
    BY <1>1, <1>2, <2>7, <2>8, <2>9, <2>10
  <2> QED BY <2>1, <2>2, <2>3, <2>11
<1>13. CheckWeights(weight, Equity)
  <2>1. \A s \in D : /\ Abs(weight[s]) <= Equity
                     /\ Abs(weight[s]) * Unit <= MaxPositionWeight * Equity
                     /\ weight[s] >= 0
    BY <1>4, <1>7, <1>8
  <2>2. SumOf([s \in DOMAIN weight |-> Abs(weight[s])]) * Unit <= MaxGross * Equity
    BY <1>9, <1>12
  <2> QED BY <1>7, <2>1, <2>2 DEF CheckWeights
<1>14. CheckOrders(orders)
  <2>1. \A o \in orders : o.symbol \in Symbols
    BY <1>5, SignedType
  <2> QED BY <2>1 DEF CheckOrders
<1> QED BY <1>10, <1>13, <1>14 DEF AssertSafe, orders

(* PreTradeRiskCheck accepts what target_weights_to_orders makes of any    *)
(* target it accepts, whatever the account holds and however far prices    *)
(* moved from the closes, when no notional cap is set and no share is      *)
(* cheaper than the smallest trade: a cycle is not stuck between sizing    *)
(* and the gate.                                                           *)
THEOREM GateAcceptsSized ==
    ASSUME MaxOrderNotional = NoCap, MaxNotional = NoCap
    PROVE  Spec => []GateAcceptsSizing
<1>1. Inv => GateAcceptsSizing
  BY SizingPasses DEF GateAcceptsSizing, Inv, VenueInv
<1> QED BY <1>1, Invariant, PTL
=============================================================================
