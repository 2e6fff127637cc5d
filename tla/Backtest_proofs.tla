--------------------------- MODULE Backtest_proofs ----------------------------
(***************************************************************************)
(* For any symbols, settings, targets, prices and lengths of the history:  *)
(*   - replaying a whole frame of decisions over the whole history executes *)
(*     at every bar what a trader knowing only the past would have sent;   *)
(*   - what either engine executed keeps to max_gross;                     *)
(*   - without costs, caps and concessions the engines have one equity     *)
(*     until a bar after the first trade goes without a rebalance;         *)
(*   - a long-only unlevered book never borrows, and is never exhausted,   *)
(*     when a round trip costs less than what is traded.                   *)
(*                                                                         *)
(* The first needs the calendar only.  The others are about fractions, and *)
(* rest on what Sums_proofs says of them and of their sums.  The last one  *)
(* also needs that the linear equations for the equity after costs,        *)
(* one for each set of symbols bought, have a solution that is consistent: *)
(* the least of their solutions is.                                        *)
(***************************************************************************)
EXTENDS Backtest, Sums_proofs, TLAPS

-----------------------------------------------------------------------------
(* 1. The calendar: a replay is what a trader would have sent.             *)

(* Bars that have closed: bar b closes at time 2 * b.                      *)
MarketInv ==
    /\ clock \in Nat \ {0}
    /\ Len(moves) \in 0..NBars
    /\ clock \in {2 * Len(moves), 2 * Len(moves) + 1}
    /\ Len(live) = Len(moves)
    /\ moves \in Seq(Relatives)
    /\ live \in Seq([Symbols -> Fractions] \cup {None})
    /\ bar \in Nat
    /\ bar > 0 => Len(moves) = NBars

(* Decisions are dated before now, each at a time of its own.              *)
FrameInv ==
    /\ decisions \subseteq [at : 1..clock, target : [Symbols -> Fractions]]
    /\ \A d, e \in decisions : d.at = e.at => d = e

(* What was live at a bar that has closed is what a replay executes there. *)
LiveInv == \A b \in 1..Len(live) : TargetAt(decisions, b) = live[b]

ReplayInv ==
    /\ setting \in Settings
    /\ MarketInv
    /\ FrameInv
    /\ LiveInv

(* A decision executes at the first close after it, if there is one: at    *)
(* most two steps of the clock away.                                       *)
LEMMA SnapIsNext ==
    ASSUME NEW at \in Nat
    PROVE  Snap(at) = IF at \div 2 < NBars THEN at \div 2 + 1 ELSE None
<1> DEFINE q == at \div 2
           n == q + 1
           due == {c \in Bars : 2 * c > at}
<1>1. q \in Nat /\ n \in Nat \ {0} /\ at < 2 * n /\ at >= 2 * n - 2
  OBVIOUS
<1>0. q \in Nat /\ n = q + 1
  OBVIOUS
<1> HIDE DEF n
<1>2. \A c \in Bars : c \in due <=> c >= n
  BY <1>1, BacktestAssumption DEF Bars
<1>3. CASE n <= NBars
  <2>1. n \in due /\ \A e \in due : n <= e
    BY <1>1, <1>2, <1>3, BacktestAssumption DEF Bars
  <2>2. \A c \in due : (\A e \in due : c <= e) => c = n
    BY <2>1, <1>2, <1>1, BacktestAssumption DEF Bars
  <2>3. Snap(at) = CHOOSE c \in due : \A e \in due : c <= e
    BY <2>1 DEF Snap
  <2> HIDE DEF due
  <2>4. Snap(at) = n
    BY <2>1, <2>2, <2>3
  <2> QED
    <3>1. q < NBars
      <4> HIDE DEF q
      <4> QED BY <1>0, <1>3, BacktestAssumption
    <3> QED
      BY <1>0, <2>4, <3>1
<1>4. CASE ~(n <= NBars)
  <2>1. due = {}
    BY <1>1, <1>2, <1>4, BacktestAssumption DEF Bars
  <2>2. Snap(at) = None
    BY <2>1 DEF Snap
  <2> QED
    BY <1>1, <1>4, <2>2, BacktestAssumption DEF n
<1> QED
  BY <1>3, <1>4

(* What is executed at a bar is decided by the decisions dated on the bar   *)
(* before it or between the two.                                           *)
Latest(due) == (CHOOSE d \in due : \A e \in due : e.at <= d.at).target

LEMMA TargetIsLatest ==
    ASSUME NEW D, \A d \in D : d.at \in Nat \ {0}, NEW b \in Bars
    PROVE  LET due == {d \in D : d.at \in {2 * b - 2, 2 * b - 1}}
           IN  TargetAt(D, b) = IF due = {} THEN None ELSE Latest(due)
<1>1. b \in Nat \ {0} /\ b <= NBars /\ None # b
  BY BacktestAssumption DEF Bars
<1>2. ASSUME NEW d \in D PROVE Snap(d.at) = b <=> d.at \in {2 * b - 2, 2 * b - 1}
  <2>1. Snap(d.at) = IF d.at \div 2 < NBars THEN d.at \div 2 + 1 ELSE None
    BY SnapIsNext
  <2> QED
    BY <1>1, <2>1, BacktestAssumption
<1>3. {d \in D : Snap(d.at) = b} = {d \in D : d.at \in {2 * b - 2, 2 * b - 1}}
  BY <1>2
<1> DEFINE executed == {d \in D : Snap(d.at) = b}
<1>4. TargetAt(D, b) = IF executed = {} THEN None ELSE Latest(executed)
  BY DEF TargetAt, Latest
<1> QED
  BY <1>3, <1>4

(* A target tape carries a frame without changing it.                      *)
LEMMA TapeIsFaithful ==
    ASSUME NEW D \in SUBSET [at : Nat, target : [Symbols -> Fractions]],
           \A d, e \in D : d.at = e.at => d = e,
           Symbols # {}
    PROVE  FromTape(ToTape(D)) = D
<1> DEFINE rows == ToTape(D)
           Row(d, s) == [at |-> d.at, symbol |-> s, weight |-> d.target[s]]
           Weight(at, s) == (CHOOSE row \in rows : row.at = at /\ row.symbol = s).weight
           Restored(at) == [at |-> at, target |-> [s \in Symbols |-> Weight(at, s)]]
<1>1. \A row : row \in rows <=> \E d \in D, s \in Symbols : row = Row(d, s)
  BY DEF ToTape
<1>2. ASSUME NEW d \in D, NEW s \in Symbols PROVE Weight(d.at, s) = d.target[s]
  <2>1. Row(d, s) \in rows
    BY <1>1
  <2>2. ASSUME NEW row \in rows, row.at = d.at, row.symbol = s PROVE row = Row(d, s)
    <3>1. PICK e \in D, x \in Symbols : row = Row(e, x)
      BY <1>1
    <3>2. e.at = d.at /\ x = s
      BY <2>2, <3>1
    <3> QED
      BY <3>1, <3>2
  <2>3. Row(d, s).at = d.at /\ Row(d, s).symbol = s /\ Row(d, s).weight = d.target[s]
    OBVIOUS
  <2> HIDE DEF rows, Row
  <2>4. (CHOOSE row \in rows : row.at = d.at /\ row.symbol = s) = Row(d, s)
    BY <2>1, <2>2, <2>3
  <2> QED
    BY <2>3, <2>4
<1> HIDE DEF Weight
<1>3. ASSUME NEW d \in D PROVE Restored(d.at) = d
  <2>1. d = [at |-> d.at, target |-> d.target] /\ d.target \in [Symbols -> Fractions]
    OBVIOUS
  <2>2. [s \in Symbols |-> Weight(d.at, s)] = d.target
    BY <1>2, <2>1
  <2> QED
    BY <2>1, <2>2
<1>4. {row.at : row \in rows} = {d.at : d \in D}
  <2>1. PICK s \in Symbols : TRUE
    OBVIOUS
  <2>2. ASSUME NEW d \in D PROVE d.at \in {row.at : row \in rows}
    <3>1. Row(d, s) \in rows /\ Row(d, s).at = d.at
      BY <1>1
    <3> QED
      BY <3>1
  <2>3. ASSUME NEW row \in rows PROVE row.at \in {d.at : d \in D}
    BY <1>1
  <2> QED
    BY <2>2, <2>3
<1>5. FromTape(rows) = {Restored(at) : at \in {row.at : row \in rows}}
  BY DEF FromTape, Weight
<1> QED
  BY <1>3, <1>4, <1>5

LEMMA Parity ==
    ASSUME NEW n \in Nat, NEW t \in {2 * n, 2 * n + 1}
    PROVE  /\ t % 2 = 1 => t = 2 * n + 1
           /\ t % 2 = 0 => t = 2 * n
OBVIOUS

LEMMA InitReplay == Init => ReplayInv
BY BacktestAssumption DEF Init, ReplayInv, MarketInv, FrameInv, LiveInv

LEMMA CloseBarReplay == ReplayInv /\ CloseBar => ReplayInv'
<1> SUFFICES ASSUME ReplayInv, CloseBar PROVE ReplayInv'
  OBVIOUS
<1> USE BacktestAssumption DEF ReplayInv, MarketInv, FrameInv
<1> DEFINE b == Len(moves) + 1
           recent == {d \in decisions : d.at \in {clock - 1, clock}}
           sent == IF recent = {} THEN None ELSE Latest(recent)
<1>0. /\ Len(moves) \in Nat /\ Len(moves) < NBars /\ clock % 2 = 1
      /\ bar = 0 /\ clock' = clock + 1
      /\ UNCHANGED <<setting, decisions, bar>>
      /\ \E move \in Relatives : moves' = Append(moves, move)
  BY DEF CloseBar
<1>1. b \in Bars /\ clock = 2 * b - 1
  <2> DEFINE n == Len(moves)
  <2>1. n \in 0..NBars /\ n < NBars /\ clock % 2 = 1 /\ clock \in {2 * n, 2 * n + 1}
    BY <1>0
  <2> HIDE DEF n
  <2>2. clock = 2 * n + 1
    <3> HIDE DEF ReplayInv, MarketInv, FrameInv
    <3>1. n \in Nat /\ clock \in {2 * n, 2 * n + 1} /\ clock % 2 = 1
      BY <2>1
    <3> QED
      BY <3>1, Parity, Zenon
  <2>3. n + 1 \in Bars /\ clock = 2 * (n + 1) - 1
    <3>1. NBars \in Nat /\ n \in Nat /\ n < NBars
      BY <2>1
    <3> HIDE DEF ReplayInv, MarketInv, FrameInv
    <3>2. n + 1 \in Bars
      BY <3>1 DEF Bars
    <3>3. clock = 2 * (n + 1) - 1
      BY <2>2, <3>1
    <3> QED BY <3>2, <3>3
  <2> QED
    BY <2>3 DEF n
<1>2. sent = TargetAt(decisions, b)
  <2>1. recent = {d \in decisions : d.at \in {2 * b - 2, 2 * b - 1}}
    <3>1. b \in Nat
      BY <1>0
    <3> HIDE DEF b
    <3>2. clock - 1 = 2 * b - 2 /\ clock = 2 * b - 1
      BY <1>1, <3>1
    <3>3. {clock - 1, clock} = {2 * b - 2, 2 * b - 1}
      BY <3>2
    <3> QED BY <3>3
  <2> HIDE DEF b
  <2> QED
    BY <1>1, <2>1, TargetIsLatest
<1>3. live' = Append(live, sent)
  BY DEF CloseBar, Latest
<1>4. sent \in [Symbols -> Fractions] \cup {None}
  <2>1. CASE recent # {}
    <3>1. PICK d \in recent : \A e \in recent : e.at <= d.at
      <4>1. CASE \E d \in recent : d.at = clock
        BY <4>1
      <4>2. CASE ~ \E d \in recent : d.at = clock
        BY <2>1, <4>2
      <4> QED
        BY <4>1, <4>2
    <3>2. \E e \in recent : Latest(recent) = e.target
      BY <3>1 DEF Latest
    <3> QED
      BY <2>1, <3>2
  <2>2. CASE recent = {}
    BY <2>2
  <2> QED
    BY <2>1, <2>2
<1> HIDE DEF sent
<1>5. /\ moves' \in Seq(Relatives) /\ Len(moves') = b
      /\ live' \in Seq([Symbols -> Fractions] \cup {None}) /\ Len(live') = b
      /\ live'[b] = sent /\ \A c \in 1..Len(live) : live'[c] = live[c]
  BY <1>0, <1>3, <1>4
<1>6. MarketInv'
  BY <1>0, <1>1, <1>5 DEF Bars
<1>7. FrameInv'
  BY <1>0, <1>1
<1>8. LiveInv'
  <2>1. \A c \in Int : TargetAt(decisions, c)' = TargetAt(decisions, c)
    BY <1>0 DEF TargetAt
  <2>2. Len(live) = b - 1 /\ b \in Nat /\ Len(live') = b
    BY <1>0, <1>5
  <2>3. live'[b] = sent /\ (\A c \in 1..Len(live) : live'[c] = live[c]) /\ decisions' = decisions
    BY <1>0, <1>5
  <2> HIDE DEF b, ReplayInv, MarketInv, FrameInv
  <2>4. ASSUME NEW c \in 1..Len(live') PROVE TargetAt(decisions, c)' = live'[c]
    <3>1. CASE c = b
      BY <1>2, <2>1, <2>2, <2>3, <3>1
    <3>2. CASE c # b
      <4>1. c \in 1..Len(live)
        BY <2>2, <3>2
      <4>2. TargetAt(decisions, c) = live[c]
        BY <4>1 DEF ReplayInv, LiveInv
      <4> QED BY <2>1, <2>3, <4>1, <4>2
    <3> QED BY <3>1, <3>2
  <2> QED BY <2>4 DEF LiveInv
<1> QED
  BY <1>0, <1>6, <1>7, <1>8

LEMMA DecideReplay == ReplayInv /\ Decide => ReplayInv'
<1> SUFFICES ASSUME ReplayInv, Decide PROVE ReplayInv'
  OBVIOUS
<1> USE BacktestAssumption DEF ReplayInv, MarketInv, FrameInv
<1>1. PICK target \in TargetsOf(setting) :
        decisions' = decisions \cup {[at |-> clock, target |-> target]}
  BY DEF Decide
<1>2. /\ target \in [Symbols -> Fractions]
      /\ UNCHANGED <<setting, clock, moves, live, bar>>
      /\ \A d \in decisions : d.at # clock
  BY DEF Decide
<1>3. MarketInv'
  BY <1>2
<1>4. FrameInv'
  BY <1>1, <1>2
<1>5. LiveInv'
  <2> SUFFICES ASSUME NEW b \in 1..Len(live) PROVE TargetAt(decisions', b) = TargetAt(decisions, b)
    BY <1>2 DEF LiveInv
  <2>1. b \in Bars /\ 2 * b <= clock
    BY DEF Bars
  <2>2. \A d \in decisions' : d.at \in Nat \ {0}
    BY <1>4
  <2>3. {d \in decisions' : d.at \in {2 * b - 2, 2 * b - 1}}
          = {d \in decisions : d.at \in {2 * b - 2, 2 * b - 1}}
    BY <1>1, <2>1
  <2>4. \A d \in decisions : d.at \in Nat \ {0}
    OBVIOUS
  <2> QED
    BY <2>1, <2>2, <2>3, <2>4, TargetIsLatest
<1> QED
  BY <1>2, <1>3, <1>4, <1>5

(* Submitting keeps every target, whether or not the frame is a valid tape. *)
LEMMA SubmitKeeps == ReplayInv /\ Submit => decisions' = decisions
<1> SUFFICES ASSUME ReplayInv, Submit, decisions' # decisions PROVE FALSE
  OBVIOUS
<1>1. ToTape(decisions) # {} /\ decisions' = FromTape(ToTape(decisions))
  BY DEF Submit, ValidTape
<1>2. Symbols # {}
  BY <1>1 DEF ToTape
<1>3. /\ decisions \in SUBSET [at : Nat, target : [Symbols -> Fractions]]
      /\ \A d, e \in decisions : d.at = e.at => d = e
  BY DEF ReplayInv, FrameInv, MarketInv
<1> QED
  BY <1>1, <1>2, <1>3, TapeIsFaithful

LEMMA NextReplay == ReplayInv /\ [Next]_vars => ReplayInv'
<1> SUFFICES ASSUME ReplayInv, [Next]_vars PROVE ReplayInv'
  OBVIOUS
<1> USE BacktestAssumption DEF ReplayInv, MarketInv, FrameInv, LiveInv
<1>1. CASE CloseBar
  BY <1>1, CloseBarReplay
<1>2. CASE Wait
  <2> DEFINE n == Len(moves)
  <2>1. n \in Nat /\ clock \in {2 * n, 2 * n + 1} /\ clock % 2 = 0
    BY <1>2 DEF Wait
  <2>2. clock = 2 * n
    <3> HIDE DEF n
    <3> QED
      BY <2>1, Parity
  <2>3. clock' = 2 * n + 1 /\ UNCHANGED <<setting, moves, decisions, live, bar>>
    BY <1>2, <2>2 DEF Wait
  <2> QED
    BY <2>2, <2>3
<1>3. CASE Decide
  BY <1>3, DecideReplay
<1>4. CASE Submit
  <2>1. decisions' = decisions
    BY <1>4, SubmitKeeps
  <2>2. bar' = 1 /\ Len(moves) = NBars /\ UNCHANGED <<setting, clock, moves, live>>
    BY <1>4 DEF Submit
  <2> QED
    BY <2>1, <2>2
<1>5. CASE Replay
  <2>1. bar \in Nat /\ bar > 0 /\ bar' = bar + 1
        /\ UNCHANGED <<setting, clock, moves, decisions, live>>
    BY <1>5 DEF Replay, Bars
  <2> QED
    BY <2>1
<1>6. CASE UNCHANGED vars
  BY <1>6 DEF vars
<1> QED
  BY <1>1, <1>2, <1>3, <1>4, <1>5, <1>6 DEF Next

(* Replaying a whole frame over a whole price history, as a tape or not,   *)
(* executes bar for bar what a trader knowing only the past would have     *)
(* sent: both engines, through the one TargetAt they ask.                  *)
THEOREM ReplayIsLive == Spec => []ReplaysLive
<1>1. ReplayInv => ReplaysLive
  BY DEF ReplayInv, MarketInv, LiveInv, ReplaysLive, Bars
<1>2. Spec => []ReplayInv
  BY InitReplay, NextReplay, PTL DEF Spec
<1> QED
  BY <1>1, <1>2, PTL

-----------------------------------------------------------------------------
(* 2. The gross of a vector.                                               *)

Vectors == [Symbols -> Fractions]

LEMMA FiniteSymbols == IsFiniteSet(Symbols)
BY BacktestAssumption

(* Gross and Total are sums of fractions.                                  *)
LEMMA GrossIs ==
    ASSUME NEW f \in Vectors
    PROVE  /\ Gross(f) = AddOver([s \in Symbols |-> Size(f[s])], Symbols)
           /\ Gross(f) \in Fractions /\ Total(f) \in Fractions
           /\ \A s \in Symbols : Size(f[s]) \in Fractions
<1>1. \A s \in Symbols : f[s] \in Fractions /\ Size(f[s]) \in Fractions
  BY FractionsClosed DEF Vectors
<1> DEFINE sizes == [s \in Symbols |-> Size(f[s])]
<1>2. DOMAIN f = Symbols /\ DOMAIN sizes = Symbols
  BY DEF Vectors
<1>3. Gross(f) = Total(sizes)
  BY <1>2 DEF Gross
<1>4. Gross(f) = AddOver(sizes, Symbols) /\ Total(f) = AddOver(f, Symbols)
  BY <1>2, <1>3, TotalIs
<1>5. \A s \in Symbols : sizes[s] \in Fractions
  BY <1>1
<1> HIDE DEF sizes
<1>6. AddOver(sizes, Symbols) \in Fractions /\ AddOver(f, Symbols) \in Fractions
  BY <1>1, <1>5, FiniteSymbols, AddType
<1> QED BY <1>1, <1>4, <1>6 DEF sizes

(* What bounds every leg bounds the gross.                                 *)
LEMMA GrossCompares ==
    ASSUME NEW h \in Vectors, NEW f \in Vectors, NEW g \in Vectors, NEW k \in Fractions,
           \A s \in Symbols : Size(h[s]) \preceq Size(f[s]) \oplus (Size(g[s]) \otimes k)
    PROVE  Gross(h) \preceq Gross(f) \oplus (Gross(g) \otimes k)
<1> DEFINE hs == [s \in Symbols |-> Size(h[s])]
           fs == [s \in Symbols |-> Size(f[s])]
           gs == [s \in Symbols |-> Size(g[s])]
<1>1. \A s \in Symbols : /\ hs[s] \in Fractions /\ fs[s] \in Fractions /\ gs[s] \in Fractions
                         /\ hs[s] \preceq fs[s] \oplus (gs[s] \otimes k)
  BY GrossIs
<1> HIDE DEF hs, fs, gs
<1>2. AddOver(hs, Symbols)
        \preceq AddOver(fs, Symbols) \oplus (AddOver(gs, Symbols) \otimes k)
  BY <1>1, FiniteSymbols, AddCompares
<1> QED BY <1>2, GrossIs DEF hs, fs, gs

LEMMA GrossLess ==
    ASSUME NEW h \in Vectors, NEW f \in Vectors,
           \A s \in Symbols : Size(h[s]) \preceq Size(f[s])
    PROVE  Gross(h) \preceq Gross(f)
<1>1. Zero \in Fractions
  BY DEF Zero, Fractions
<1>2. ASSUME NEW a \in Fractions PROVE a \preceq a \oplus (a \otimes Zero)
                                       /\ a \oplus (a \otimes Zero) \preceq a
  BY NothingMore
<1>3. ASSUME NEW s \in Symbols
      PROVE  Size(h[s]) \preceq Size(f[s]) \oplus (Size(f[s]) \otimes Zero)
  <2> DEFINE a == Size(f[s])
             b == Size(h[s])
             c == a \oplus (a \otimes Zero)
  <2>1. a \in Fractions /\ b \in Fractions /\ b \preceq a
    BY GrossIs
  <2>2. c \in Fractions /\ a \preceq c
    <3> HIDE DEF a, b
    <3> QED BY <1>1, <1>2, <2>1, FractionsClosed
  <2> HIDE DEF a, b, c
  <2>3. b \preceq c
    BY <2>1, <2>2, LessOrders
  <2> QED BY <2>3 DEF a, b, c
<1>4. Gross(h) \preceq Gross(f) \oplus (Gross(f) \otimes Zero)
  BY <1>1, <1>3, GrossCompares
<1> DEFINE x == Gross(f)
           y == Gross(h)
           z == x \oplus (x \otimes Zero)
<1>5. x \in Fractions /\ y \in Fractions
  BY GrossIs
<1>6. z \in Fractions /\ z \preceq x /\ y \preceq z
  <2> HIDE DEF x, y
  <2> QED BY <1>1, <1>2, <1>4, <1>5, FractionsClosed DEF x, y
<1> HIDE DEF x, y, z
<1>7. y \preceq x
  BY <1>5, <1>6, LessOrders
<1> QED BY <1>7 DEF x, y

LEMMA GrossScales ==
    ASSUME NEW h \in Vectors, NEW g \in Vectors, NEW k \in Fractions,
           \A s \in Symbols : Size(h[s]) \preceq Size(g[s]) \otimes k
    PROVE  Gross(h) \preceq Gross(g) \otimes k
<1> DEFINE j == k \ominus One
<1>1. j \in Fractions
  BY FractionsClosed
<1>2. ASSUME NEW a \in Fractions
      PROVE  /\ a \otimes k \preceq a \oplus (a \otimes j)
             /\ a \oplus (a \otimes j) \preceq a \otimes k
             /\ a \otimes k \in Fractions /\ a \oplus (a \otimes j) \in Fractions
  <2>1. a \otimes k \in Fractions /\ a \otimes j \in Fractions
    BY <1>1, FractionsClosed
  <2> QED BY <2>1, OneMoreTime, FractionsClosed
<1> HIDE DEF j
<1>3. ASSUME NEW s \in Symbols
      PROVE  Size(h[s]) \preceq Size(g[s]) \oplus (Size(g[s]) \otimes j)
  <2> DEFINE a == Size(g[s])
             b == Size(h[s])
             c == a \oplus (a \otimes j)
             e == a \otimes k
  <2>1. a \in Fractions /\ b \in Fractions /\ b \preceq e
    BY GrossIs
  <2>2. c \in Fractions /\ e \in Fractions /\ e \preceq c
    <3> HIDE DEF a, b
    <3> QED BY <1>2, <2>1
  <2> HIDE DEF a, b, c, e
  <2>3. b \preceq c
    BY <2>1, <2>2, LessOrders
  <2> QED BY <2>3 DEF a, b, c
<1>4. Gross(h) \preceq Gross(g) \oplus (Gross(g) \otimes j)
  BY <1>1, <1>3, GrossCompares
<1> DEFINE x == Gross(g)
           y == Gross(h)
           z == x \oplus (x \otimes j)
           w == x \otimes k
<1>5. x \in Fractions /\ y \in Fractions /\ y \preceq z
  BY <1>4, GrossIs
<1>6. z \in Fractions /\ w \in Fractions /\ z \preceq w
  <2> HIDE DEF x, y
  <2> QED BY <1>2, <1>5
<1> HIDE DEF x, y, z, w
<1>7. y \preceq w
  BY <1>5, <1>6, LessOrders
<1> QED BY <1>7 DEF x, y, w

LEMMA VectorsAre ==
    ASSUME NEW f \in Vectors, NEW g \in Vectors, NEW k \in Fractions
    PROVE  /\ Sum2(f, g) \in Vectors /\ Difference(f, g) \in Vectors /\ Scaled(f, k) \in Vectors
           /\ Flat \in Vectors
           /\ \A s \in Symbols : /\ f[s] \in Fractions
                                 /\ Sum2(f, g)[s] = f[s] \oplus g[s]
                                 /\ Difference(f, g)[s] = f[s] \ominus g[s]
                                 /\ Scaled(f, k)[s] = f[s] \otimes k
<1>1. \A s \in Symbols : f[s] \in Fractions /\ g[s] \in Fractions
  BY DEF Vectors
<1>2. DOMAIN f = Symbols
  BY DEF Vectors
<1>3. \A s \in Symbols : /\ f[s] \oplus g[s] \in Fractions /\ f[s] \ominus g[s] \in Fractions
                         /\ f[s] \otimes k \in Fractions /\ Zero \in Fractions
  BY <1>1, FractionsClosed
<1> QED BY <1>1, <1>2, <1>3 DEF Vectors, Sum2, Difference, Scaled, Flat

-----------------------------------------------------------------------------
(* 3. What is traded keeps to a limit.                                     *)

(* What increases exposure keeps to what the reductions leave of a limit.  *)
LEMMA AllowedKeeps ==
    ASSUME NEW previous \in Vectors, NEW reducing \in Vectors, NEW increasing \in Vectors,
           NEW limit \in Fractions
    PROVE  LET reduced == Sum2(previous, reducing)
               allowed == Allowed(reduced, reducing, increasing, limit)
           IN  /\ allowed \in Vectors
               /\ Gross(reduced) \preceq limit => Gross(Sum2(previous, allowed)) \preceq limit
<1> DEFINE reduced == Sum2(previous, reducing)
           allowed == Allowed(reduced, reducing, increasing, limit)
           whole == Sum2(reduced, increasing)
           room == limit \ominus Gross(reduced)
           more == Gross(increasing)
           share == room \oslash more
<1>1. reduced \in Vectors /\ whole \in Vectors /\ Sum2(reducing, increasing) \in Vectors
  BY VectorsAre, FractionsClosed
<1>2. Gross(reduced) \in Fractions /\ Gross(whole) \in Fractions /\ more \in Fractions
  BY <1>1, GrossIs
<1>3. room \in Fractions /\ (room \prec Zero <=> limit \prec Gross(reduced))
  BY <1>2, MinusSign
<1>4. CASE room \prec Zero
  <2>1. allowed = reducing
    BY <1>4 DEF Allowed
  <2>2. ~ (Gross(reduced) \preceq limit)
    BY <1>2, <1>3, <1>4, LessOrders
  <2> QED BY <2>1, <2>2
<1>5. CASE ~ (room \prec Zero) /\ Gross(whole) \preceq limit
  <2>1. allowed = Sum2(reducing, increasing)
    BY <1>5 DEF Allowed
  <2>2. Sum2(previous, Sum2(reducing, increasing)) = whole
    <3>1. ASSUME NEW s \in Symbols
          PROVE  Sum2(previous, Sum2(reducing, increasing))[s] = whole[s]
      <4>1. /\ previous[s] \in Fractions /\ reducing[s] \in Fractions
            /\ increasing[s] \in Fractions
        BY DEF Vectors
      <4>2. /\ Sum2(previous, Sum2(reducing, increasing))[s]
                 = previous[s] \oplus (reducing[s] \oplus increasing[s])
            /\ whole[s] = (previous[s] \oplus reducing[s]) \oplus increasing[s]
        BY <1>1 DEF Sum2, Vectors
      <4> QED BY <4>1, <4>2, PlusAssociates
    <3> QED BY <1>1, <3>1 DEF Vectors, Sum2
  <2> QED BY <1>1, <1>5, <2>1, <2>2
<1>6. CASE ~ (room \prec Zero) /\ ~ (Gross(whole) \preceq limit)
  <2>1. allowed = Sum2(reducing, Scaled(increasing, share))
    BY <1>6 DEF Allowed
  <2>2. Zero \preceq room /\ Gross(reduced) \preceq limit
    BY <1>2, <1>3, <1>6, LessOrders, FractionsClosed
  <2>3. Zero \prec more
    <3> SUFFICES ASSUME ~ (Zero \prec more) PROVE FALSE
      OBVIOUS
    <3>1. One \in Fractions /\ Zero \in Fractions
      BY DEF One, Zero, Fractions
    <3>2. Gross(whole) \preceq Gross(reduced) \oplus (more \otimes One)
      <4>1. ASSUME NEW s \in Symbols
            PROVE  Size(whole[s]) \preceq Size(reduced[s]) \oplus (Size(increasing[s]) \otimes One)
        <5>1. /\ reduced[s] \in Fractions /\ increasing[s] \in Fractions
              /\ whole[s] = reduced[s] \oplus increasing[s]
          BY <1>1 DEF Sum2, Vectors
        <5> HIDE DEF reduced, whole
        <5> QED BY <5>1, SizeTriangleOne
      <4> HIDE DEF reduced, whole
      <4> QED BY <1>1, <3>1, <4>1, GrossCompares
    <3>3. more \preceq Zero
      BY <1>2, <3>1, LessOrders
    <3> DEFINE x == Gross(reduced)
               y == Gross(whole)
    <3>4. x \oplus (more \otimes One) \preceq limit
      <4> HIDE DEF more, x, reduced
      <4> QED BY <1>2, <2>2, <3>3, PlusNegative DEF x
    <3>5. x \oplus (more \otimes One) \in Fractions
      <4>1. more \otimes One \in Fractions
        BY <1>2, <3>1, FractionsClosed
      <4> HIDE DEF more, x
      <4> QED BY <1>2, <4>1, FractionsClosed DEF x
    <3> HIDE DEF more, whole, reduced
    <3> DEFINE z == x \oplus (more \otimes One)
    <3>6. y \preceq z /\ z \preceq limit /\ z \in Fractions /\ y \in Fractions
      BY <1>2, <3>2, <3>4, <3>5
    <3> HIDE DEF x, y, z
    <3>7. y \preceq limit
      BY <3>6, LessOrders
    <3> QED BY <1>6, <3>7 DEF y
  <2>4. share \in Fractions /\ Zero \preceq share
    <3> HIDE DEF room, more
    <3> QED BY <1>2, <1>3, <2>2, <2>3, QuotientSign
  <2>5. Scaled(increasing, share) \in Vectors /\ allowed \in Vectors
    <3> HIDE DEF share
    <3> QED BY <2>1, <2>4, VectorsAre
  <2>6. Gross(Sum2(previous, allowed)) \preceq Gross(reduced) \oplus (more \otimes share)
    <3>1. ASSUME NEW s \in Symbols
          PROVE  Size(Sum2(previous, allowed)[s])
                   \preceq Size(reduced[s]) \oplus (Size(increasing[s]) \otimes share)
      <4>1. /\ previous[s] \in Fractions /\ reducing[s] \in Fractions
            /\ increasing[s] \in Fractions /\ reduced[s] = previous[s] \oplus reducing[s]
        BY DEF Vectors, Sum2
      <4>2. Sum2(previous, allowed)[s]
              = previous[s] \oplus (reducing[s] \oplus (increasing[s] \otimes share))
        <5> HIDE DEF share, allowed
        <5> QED BY <2>1, <2>4, <2>5 DEF Sum2, Scaled, Vectors
      <4>3. reduced[s] \in Fractions /\ increasing[s] \otimes share \in Fractions
        <5> HIDE DEF share, reduced
        <5> QED BY <1>1, <2>4, <4>1, FractionsClosed DEF Vectors
      <4>4. Sum2(previous, allowed)[s] = reduced[s] \oplus (increasing[s] \otimes share)
        <5> HIDE DEF share, allowed, reduced
        <5> QED BY <4>1, <4>2, <4>3, PlusAssociates
      <4> HIDE DEF share, allowed, reduced
      <4> QED BY <2>4, <4>1, <4>3, <4>4, SizeTriangle
    <3>2. Sum2(previous, allowed) \in Vectors
      <4> HIDE DEF allowed
      <4> QED BY <2>5, VectorsAre, FractionsClosed
    <3> HIDE DEF share, allowed, reduced
    <3> QED BY <1>1, <2>4, <3>1, <3>2, GrossCompares DEF more
  <2>7. Gross(reduced) \oplus (more \otimes share) \preceq limit
    <3> HIDE DEF more, reduced
    <3> QED BY <1>2, <2>3, FillsRoom DEF room, share
  <2>8. Gross(Sum2(previous, allowed)) \preceq limit
    <3> DEFINE y == Gross(Sum2(previous, allowed))
               z == Gross(reduced) \oplus (more \otimes share)
    <3>1. Sum2(previous, allowed) \in Vectors
      <4> HIDE DEF allowed
      <4> QED BY <2>5, VectorsAre, FractionsClosed
    <3>2. y \in Fractions
      <4> HIDE DEF allowed
      <4> QED BY <3>1, GrossIs
    <3>3. z \in Fractions
      <4>1. more \otimes share \in Fractions
        <5> HIDE DEF more, share
        <5> QED BY <1>2, <2>4, FractionsClosed
      <4> HIDE DEF more, share, reduced
      <4> QED BY <1>2, <4>1, FractionsClosed
    <3>4. y \preceq z /\ z \preceq limit
      BY <2>6, <2>7
    <3> HIDE DEF y, z
    <3>5. y \preceq limit
      BY <3>2, <3>3, <3>4, LessOrders
    <3> QED BY <3>5 DEF y
  <2> QED BY <2>5, <2>8
<1> QED BY <1>4, <1>5, <1>6

(* The ADV cap and the split into legs keep to fractions.                  *)
LEMMA BoundedType ==
    ASSUME NEW desired \in Vectors, NEW cap \in Vectors \cup {None}
    PROVE  Bounded(desired, cap) \in Vectors /\ Bounded(desired, None) = desired
<1>1. CASE cap = None
  BY <1>1 DEF Bounded
<1>2. CASE cap # None
  <2>1. cap \in Vectors
    BY <1>2
  <2> DEFINE Leg(s) == IF desired[s] \prec Zero
                         THEN Negative(Lesser(Negative(desired[s]), cap[s]))
                         ELSE Lesser(desired[s], cap[s])
  <2>2. ASSUME NEW s \in Symbols PROVE Leg(s) \in Fractions
    <3>1. desired[s] \in Fractions /\ cap[s] \in Fractions
      BY <2>1 DEF Vectors
    <3>2. Negative(desired[s]) \in Fractions
      BY <3>1, FractionsClosed
    <3>3. Lesser(Negative(desired[s]), cap[s]) \in Fractions
      BY <3>1, <3>2, FractionsClosed
    <3>4. Negative(Lesser(Negative(desired[s]), cap[s])) \in Fractions
      BY <3>3, FractionsClosed
    <3>5. Lesser(desired[s], cap[s]) \in Fractions
      BY <3>1, FractionsClosed
    <3> QED BY <3>4, <3>5
  <2>3. Bounded(desired, cap) = [s \in Symbols |-> Leg(s)]
    BY <1>2 DEF Bounded
  <2> HIDE DEF Leg
  <2>4. Bounded(desired, cap) \in Vectors
    BY <2>2, <2>3 DEF Vectors
  <2> QED BY <2>4 DEF Bounded
<1> QED BY <1>1, <1>2

(* After the legs that reduce, no position is larger than it was, nor than *)
(* the target that was traded to.                                          *)
LEMMA ReducingKeeps ==
    ASSUME NEW previous \in Vectors, NEW traded \in Vectors
    PROVE  LET reducing == Reducing(previous, traded)
               reduced == Sum2(previous, reducing)
           IN  /\ reducing \in Vectors /\ reduced \in Vectors
               /\ Gross(reduced) \preceq Gross(previous)
               /\ \A target \in Vectors :
                     traded = Difference(target, previous) => Gross(reduced) \preceq Gross(target)
<1> DEFINE reducing == Reducing(previous, traded)
           reduced == Sum2(previous, reducing)
           Leg(p, t) == IF Zero \prec p /\ t \prec Zero THEN Greater(t, Negative(p))
                        ELSE IF p \prec Zero /\ Zero \prec t THEN Lesser(t, Negative(p))
                        ELSE Zero
<1>1. reducing = [s \in Symbols |-> Leg(previous[s], traded[s])]
  BY DEF Reducing
<1>2. ASSUME NEW p \in Fractions, NEW t \in Fractions
      PROVE  /\ Leg(p, t) \in Fractions
             /\ Size(p \oplus Leg(p, t)) \preceq Size(p)
             /\ \A g \in Fractions : t = g \ominus p => Size(p \oplus Leg(p, t)) \preceq Size(g)
  BY ReducesSize
<1> HIDE DEF Leg
<1>3. \A s \in Symbols : previous[s] \in Fractions /\ traded[s] \in Fractions
  BY DEF Vectors
<1>4. reducing \in Vectors
  BY <1>1, <1>2, <1>3 DEF Vectors
<1>5. reduced \in Vectors
  <2> HIDE DEF reducing
  <2>1. One \in Fractions
    BY DEF One, Fractions
  <2> QED BY <1>4, <2>1, VectorsAre
<1>6. \A s \in Symbols : reduced[s] = previous[s] \oplus Leg(previous[s], traded[s])
  <2> HIDE DEF reducing
  <2>1. DOMAIN previous = Symbols
    BY DEF Vectors
  <2> QED BY <1>1, <2>1 DEF Sum2
<1> HIDE DEF reducing, reduced
<1>7. Gross(reduced) \preceq Gross(previous)
  <2>1. \A s \in Symbols : Size(reduced[s]) \preceq Size(previous[s])
    BY <1>2, <1>3, <1>6
  <2> QED BY <1>5, <2>1, GrossLess
<1>8. ASSUME NEW target \in Vectors, traded = Difference(target, previous)
      PROVE  Gross(reduced) \preceq Gross(target)
  <2>1. \A s \in Symbols : target[s] \in Fractions /\ traded[s] = target[s] \ominus previous[s]
    BY <1>8 DEF Vectors, Difference
  <2>2. \A s \in Symbols : Size(reduced[s]) \preceq Size(target[s])
    BY <1>2, <1>3, <1>6, <2>1
  <2> QED BY <1>5, <2>2, GrossLess
<1> QED BY <1>4, <1>5, <1>7, <1>8 DEF reducing, reduced

(* What is traded keeps the book within a limit that it was within, and    *)
(* without a cap one that the target is within.                            *)
LEMMA TradedKeeps ==
    ASSUME NEW previous \in Vectors, NEW target \in Vectors, NEW cap \in Vectors \cup {None},
           NEW limit \in Fractions
    PROVE  LET traded == Traded(previous, target, cap, limit)
           IN  /\ traded \in Vectors
               /\ Gross(previous) \preceq limit \/ (cap = None /\ Gross(target) \preceq limit)
                     => Gross(Sum2(previous, traded)) \preceq limit
<1> DEFINE desired == Difference(target, previous)
           bounded == Bounded(desired, cap)
           reducing == Reducing(previous, bounded)
           increasing == Difference(bounded, reducing)
           reduced == Sum2(previous, reducing)
           traded == Allowed(reduced, reducing, increasing, limit)
<1>1. Traded(previous, target, cap, limit) = traded
  BY DEF Traded
<1>2. desired \in Vectors
  BY VectorsAre, FractionsClosed
<1>3. bounded \in Vectors /\ (cap = None => bounded = desired)
  <2> HIDE DEF desired
  <2> QED BY <1>2, BoundedType
<1>4. /\ reducing \in Vectors /\ reduced \in Vectors
      /\ Gross(reduced) \preceq Gross(previous)
      /\ cap = None => Gross(reduced) \preceq Gross(target)
  <2> HIDE DEF bounded
  <2> QED BY <1>3, ReducingKeeps
<1>5. increasing \in Vectors
  <2> HIDE DEF bounded, reducing
  <2> QED BY <1>3, <1>4, VectorsAre, FractionsClosed
<1>6. /\ traded \in Vectors
      /\ Gross(reduced) \preceq limit => Gross(Sum2(previous, traded)) \preceq limit
  <2> HIDE DEF reducing, increasing
  <2> QED BY <1>4, <1>5, AllowedKeeps
<1>7. ASSUME Gross(previous) \preceq limit \/ (cap = None /\ Gross(target) \preceq limit)
      PROVE  Gross(reduced) \preceq limit
  <2> DEFINE x == Gross(reduced)
             y == Gross(previous)
             z == Gross(target)
  <2>1. x \in Fractions /\ y \in Fractions /\ z \in Fractions
    <3> HIDE DEF reduced
    <3> QED BY <1>4, GrossIs
  <2>2. x \preceq y /\ (cap = None => x \preceq z)
    BY <1>4
  <2>3. y \preceq limit \/ (cap = None /\ z \preceq limit)
    BY <1>7
  <2> HIDE DEF x, y, z
  <2>4. x \preceq limit
    BY <2>1, <2>2, <2>3, LessOrders
  <2> QED BY <2>4 DEF x
<1> HIDE DEF traded, reduced
<1> QED BY <1>1, <1>6, <1>7

LEMMA SizeTimes ==
    ASSUME NEW a \in Fractions, NEW k \in Fractions, Zero \preceq k
    PROVE  Size(a \otimes k) \preceq Size(a) \otimes k
<1>1. PICK d \in Nat \ {0}, n, m, l, o \in Int : Is(a, n, d) /\ Is(k, m, d)
  BY CommonFour
<1>2. Is(Zero, 0, d)
  BY <1>1, UnitsAre
<1>3. 0 <= m
  BY <1>1, <1>2, LessIs
<1>4. Is(Size(a \otimes k), Absolute(n * m), d * d)
  <2>1. Is(a \otimes k, n * m, d * d)
    BY <1>1, TimesIs
  <2> QED BY <2>1, SizeIs
<1>5. Is(Size(a) \otimes k, Absolute(n) * m, d * d)
  <2>1. Is(Size(a), Absolute(n), d)
    BY <1>1, SizeIs
  <2> QED BY <1>1, <2>1, TimesIs
<1>6. Absolute(n * m) <= Absolute(n) * m
  <2>1. n \in Int /\ m \in Int
    BY <1>1
  <2>2. CASE n < 0
    <3>1. Absolute(n) = -n /\ (-n) * m = -(n * m) /\ -(n * m) >= 0 /\ n * m \in Int
      BY <1>3, <2>1, <2>2, SMTT(30) DEF Absolute
    <3>2. Absolute(n * m) = -(n * m)
      BY <3>1 DEF Absolute
    <3> QED BY <3>1, <3>2
  <2>3. CASE ~ (n < 0)
    <3>1. Absolute(n) = n /\ n * m >= 0
      BY <1>3, <2>1, <2>3, SMTT(30) DEF Absolute
    <3> QED BY <2>1, <3>1 DEF Absolute
  <2> QED BY <2>2, <2>3
<1> QED BY <1>4, <1>5, <1>6, LessIs

LEMMA SameSize ==
    ASSUME NEW a \in Fractions, NEW b \in Fractions, NEW c \in Fractions,
           a \preceq b, b \preceq a
    PROVE  Size(a \oplus c) \preceq Size(b \oplus c)
<1>1. PICK d \in Nat \ {0}, n, m, l, o \in Int : Is(a, n, d) /\ Is(b, m, d) /\ Is(c, l, d)
  BY CommonFour
<1>2. n <= m /\ m <= n
  BY <1>1, LessIs
<1>3. n = m
  BY <1>1, <1>2
<1>4. Is(a \oplus c, n + l, d) /\ Is(b \oplus c, n + l, d)
  BY <1>1, <1>3, PlusIs
<1>5. Is(Size(a \oplus c), Absolute(n + l), d) /\ Is(Size(b \oplus c), Absolute(n + l), d)
  BY <1>4, SizeIs
<1>6. Absolute(n + l) <= Absolute(n + l)
  BY <1>1 DEF Absolute
<1> QED BY <1>5, <1>6, LessIs

(* A share of a value, times the value, is what was shared.                *)
LEMMA DividesBack ==
    ASSUME NEW a \in Fractions, NEW v \in Fractions, Zero \prec v
    PROVE  /\ One \oslash v \in Fractions
           /\ (a \otimes (One \oslash v)) \otimes v \preceq a
           /\ a \preceq (a \otimes (One \oslash v)) \otimes v
<1>1. PICK d \in Nat \ {0}, n, m, l, o \in Int : Is(a, n, d) /\ Is(v, m, d)
  BY CommonFour
<1>2. m \in Nat \ {0} /\ Is(Inverted(v), d, m)
  BY <1>1, InvertedIs
<1>3. Is(One, 1, 1)
  BY UnitsAre
<1>4. Is(One \oslash v, 1 * d, 1 * m)
  BY <1>2, <1>3, TimesIs DEF \oslash
<1>5. Is(a \otimes (One \oslash v), n * (1 * d), d * (1 * m))
  BY <1>1, <1>4, TimesIs
<1>6. Is((a \otimes (One \oslash v)) \otimes v, (n * (1 * d)) * m, (d * (1 * m)) * d)
  BY <1>1, <1>5, TimesIs
<1>7. Is(a, n * (m * d), d * (m * d))
  <2>1. m * d \in Nat \ {0}
    <3>1. m \in Nat \ {0} /\ d \in Nat \ {0}
      BY <1>1, <1>2
    <3> QED BY <3>1, NatTimes
  <2> QED BY <1>1, <2>1, IsScaled
<1>8. (n * (1 * d)) * m = n * (m * d) /\ (d * (1 * m)) * d = d * (m * d)
  <2>1. n \in Int /\ m \in Int /\ d \in Int /\ 1 * d = d /\ 1 * m = m
    BY <1>1
  <2>2. (n * d) * m = n * (d * m) /\ d * m = m * d /\ (d * m) * d = d * (m * d)
    BY <2>1, Regroups
  <2> QED BY <2>1, <2>2
<1>9. n * (m * d) <= n * (m * d)
  BY <1>1, <1>2
<1>10. Is((a \otimes (One \oslash v)) \otimes v, n * (m * d), d * (m * d))
  BY <1>6, <1>8
<1>11. One \oslash v \in Fractions
  BY <1>4 DEF Is
<1> QED BY <1>7, <1>9, <1>10, <1>11, LessIs

(* A book revalued: its value leg by leg against the shares it was sized in.*)
LEMMA LegRevalued ==
    ASSUME NEW h \in Fractions, NEW t \in Fractions, NEW v \in Fractions, Zero \prec v
    PROVE  LET p == h \otimes (One \oslash v)
           IN  Size(h \oplus (t \otimes v)) \preceq Size(p \oplus t) \otimes v
<1> DEFINE p == h \otimes (One \oslash v)
           x == Size(h \oplus (t \otimes v))
           y == Size((p \oplus t) \otimes v)
           z == Size(p \oplus t) \otimes v
<1>1. One \oslash v \in Fractions /\ p \otimes v \preceq h /\ h \preceq p \otimes v
  BY DividesBack
<1>2. p \in Fractions /\ Zero \in Fractions
  <2> DEFINE i == One \oslash v
  <2>1. i \in Fractions
    BY <1>1
  <2> HIDE DEF i
  <2> QED BY <2>1, FractionsClosed DEF i
<1> HIDE DEF p
<1>3. p \otimes v \in Fractions /\ t \otimes v \in Fractions /\ p \oplus t \in Fractions
  BY <1>2, FractionsClosed
<1>4. (p \oplus t) \otimes v = (p \otimes v) \oplus (t \otimes v)
  BY <1>2, TimesDistributes
<1>5. x \preceq y
  BY <1>1, <1>3, <1>4, SameSize
<1>6. y \preceq z
  BY <1>2, <1>3, SizeTimes, LessOrders
<1>7. x \in Fractions /\ y \in Fractions /\ z \in Fractions
  <2>1. h \oplus (t \otimes v) \in Fractions /\ (p \oplus t) \otimes v \in Fractions
        /\ Size(p \oplus t) \in Fractions
    BY <1>3, FractionsClosed
  <2> QED BY <2>1, FractionsClosed
<1>8. x \preceq z
  <2> HIDE DEF x, y, z
  <2> QED BY <1>5, <1>6, <1>7, LessOrders
<1> QED BY <1>8 DEF p

(* What the engines compute from fractions is fractions.                   *)
LEMMA SettingIs ==
    ASSUME setting \in Settings
    PROVE  /\ setting.buy \in Fractions /\ setting.sell \in Fractions
           /\ setting.slip \in Fractions /\ setting.gross \in Fractions
           /\ setting.yield \in Fractions /\ Zero \prec setting.gross
           /\ setting.capacity \in Vectors \cup {None}
BY BacktestAssumption DEF Vectors

LEMMA TotalType ==
    ASSUME NEW S \in SUBSET Symbols, NEW f \in [S -> Fractions]
    PROVE  Total(f) \in Fractions
<1>1. IsFiniteSet(S)
  BY FiniteSymbols, FS_Subset
<1>2. Total(f) = AddOver(f, S)
  BY TotalIs
<1> QED BY <1>1, <1>2, AddType

LEMMA CostType ==
    ASSUME setting \in Settings, NEW traded \in Vectors
    PROVE  Cost(traded) \in Fractions
<1> DEFINE buys == [s \in Symbols |-> Greater(traded[s], Zero)]
           sells == [s \in Symbols |-> Greater(Negative(traded[s]), Zero)]
<1>1. \A s \in Symbols : traded[s] \in Fractions
  BY DEF Vectors
<1>2. \A s \in Symbols : Negative(traded[s]) \in Fractions /\ Zero \in Fractions
  BY <1>1, FractionsClosed
<1>3. buys \in [Symbols -> Fractions] /\ sells \in [Symbols -> Fractions]
  BY <1>1, <1>2, FractionsClosed
<1> DEFINE bought == Total(buys) \otimes setting.buy
           sold == Total(sells) \otimes setting.sell
<1>4. Cost(traded) = bought \oplus sold
  BY DEF Cost
<1> HIDE DEF buys, sells
<1>5. Total(buys) \in Fractions /\ Total(sells) \in Fractions
  BY <1>3, TotalType
<1>6. bought \in Fractions /\ sold \in Fractions
  BY <1>5, SettingIs, FractionsClosed
<1> HIDE DEF bought, sold
<1> QED BY <1>4, <1>6, FractionsClosed

LEMMA SegmentType ==
    ASSUME setting \in Settings, NEW weights \in Vectors, NEW move \in Vectors
    PROVE  Segment(weights, move) \in Fractions
<1> DEFINE gains == [s \in Symbols |-> move[s] \ominus One]
           earned == [s \in Symbols |-> weights[s] \otimes gains[s]]
<1>1. One \in Fractions
  BY DEF One, Fractions
<1>2. \A s \in Symbols : weights[s] \in Fractions /\ gains[s] \in Fractions
  BY <1>1, FractionsClosed DEF Vectors
<1>3. DOMAIN weights = Symbols
  BY DEF Vectors
<1> DEFINE kept == CashReturn \otimes (One \ominus Total(weights))
<1>4. Segment(weights, move) = Total(earned) \oplus kept
  BY <1>3 DEF Segment, Dot
<1>5. earned \in [Symbols -> Fractions]
  <2> HIDE DEF gains
  <2> QED BY <1>2, FractionsClosed
<1> HIDE DEF earned
<1>6. Total(earned) \in Fractions /\ Total(weights) \in Fractions
  BY <1>5, TotalType DEF Vectors
<1>7. One \ominus Total(weights) \in Fractions
  BY <1>1, <1>6, FractionsClosed
<1>8. kept \in Fractions
  BY <1>7, SettingIs, FractionsClosed DEF CashReturn
<1> HIDE DEF kept
<1> QED BY <1>4, <1>6, <1>8, FractionsClosed

-----------------------------------------------------------------------------
(* 4. The engines keep to max_gross.                                       *)

(* The equity after costs is a fraction, whichever symbols are bought.     *)
LEMMA PostCostType ==
    ASSUME setting \in Settings, NEW previous \in Vectors, NEW target \in Vectors
    PROVE  PostCost(previous, target) \in Fractions
<1> DEFINE Over(f, S) == Total([s \in S |-> f[s]])
           Bought(f, S) == setting.buy \otimes Over(f, S)
           Sold(f, S) == setting.sell \otimes Over(f, Symbols \ S)
           Left(f, S) == One \oplus (Bought(f, S) \ominus Sold(f, S))
           Solution(S) == Left(previous, S) \oslash Left(target, S)
           Consistent(S, q) ==
             /\ Zero \prec Left(target, S) /\ Zero \prec q
             /\ \A s \in Symbols :
                   IF s \in S THEN previous[s] \preceq (target[s] \otimes q)
                   ELSE (target[s] \otimes q) \prec previous[s]
           consistent == {S \in SUBSET Symbols : Consistent(S, Solution(S))}
<1>1. ASSUME NEW f \in Vectors, NEW S \in SUBSET Symbols PROVE Left(f, S) \in Fractions
  <2>1. [s \in S |-> f[s]] \in [S -> Fractions]
        /\ [s \in Symbols \ S |-> f[s]] \in [Symbols \ S -> Fractions]
    BY DEF Vectors
  <2>2. Over(f, S) \in Fractions /\ Over(f, Symbols \ S) \in Fractions
    <3>1. Symbols \ S \in SUBSET Symbols
      OBVIOUS
    <3> QED BY <2>1, <3>1, TotalType
  <2> HIDE DEF Over
  <2>3. Bought(f, S) \in Fractions /\ Sold(f, S) \in Fractions /\ One \in Fractions
    BY <2>2, SettingIs, FractionsClosed
  <2> HIDE DEF Bought, Sold
  <2>4. Bought(f, S) \ominus Sold(f, S) \in Fractions
    BY <2>3, FractionsClosed
  <2> QED BY <2>3, <2>4, FractionsClosed
<1>2. PostCost(previous, target)
        = IF consistent = {} THEN Zero ELSE Solution(CHOOSE S \in consistent : TRUE)
  BY DEF PostCost
<1> HIDE DEF Left
<1>3. ASSUME NEW S \in consistent PROVE Solution(S) \in Fractions
  <2>1. S \in SUBSET Symbols /\ Zero \prec Left(target, S)
    OBVIOUS
  <2>2. Left(target, S) \in Fractions /\ Left(previous, S) \in Fractions
    BY <1>1, <2>1
  <2> QED BY <2>1, <2>2, FractionsClosed
<1> HIDE DEF Solution, consistent
<1>4. CASE consistent = {}
  BY <1>2, <1>4 DEF Zero, Fractions
<1>5. CASE consistent # {}
  <2>1. (CHOOSE S \in consistent : TRUE) \in consistent
    BY <1>5
  <2> QED BY <1>2, <1>3, <1>5, <2>1
<1> QED BY <1>4, <1>5

States == {"running", "exhausted", "financing", "unreconciled", "out of bounds"}
EventStates == [state : States, cash : Fractions, held : Vectors, equity : Fractions]
VectorStates == [state : States, weights : Vectors, equity : Fractions]

(* The vectorized engine keeps to the limit whatever it is asked for.      *)
LEMMA ExecutedKeeps ==
    ASSUME setting \in Settings, NEW engine \in VectorStates, NEW nav \in Fractions,
           NEW traded \in Vectors,
           Gross(engine.weights) \preceq setting.gross,
           Gross(Sum2(engine.weights, traded)) \preceq setting.gross
    PROVE  /\ Executed(engine, nav, traded) \in VectorStates
           /\ Gross(Executed(engine, nav, traded).weights) \preceq setting.gross
<1> DEFINE equity == nav \otimes (One \ominus Cost(traded))
<1>1. equity \in Fractions
  <2>1. Cost(traded) \in Fractions /\ One \in Fractions
    BY CostType DEF One, Fractions
  <2>2. One \ominus Cost(traded) \in Fractions
    BY <2>1, FractionsClosed
  <2> QED BY <2>2, FractionsClosed
<1>2. Executed(engine, nav, traded)
        = IF equity \preceq Zero THEN Failed(engine, "exhausted")
          ELSE [engine EXCEPT !.weights = Sum2(@, traded), !.equity = equity]
  BY DEF Executed
<1> HIDE DEF equity
<1>3. engine.weights \in Vectors
  BY DEF VectorStates
<1>4. Sum2(engine.weights, traded) \in Vectors
  BY <1>1, <1>3, VectorsAre
<1>5. CASE equity \preceq Zero
  <2>1. /\ Failed(engine, "exhausted") \in VectorStates
        /\ Failed(engine, "exhausted").weights = engine.weights
    BY DEF Failed, States, VectorStates
  <2> QED BY <1>2, <1>5, <2>1
<1>6. CASE ~ (equity \preceq Zero)
  <2> DEFINE w == Sum2(engine.weights, traded)
  <2>1. Executed(engine, nav, traded) = [engine EXCEPT !.weights = w, !.equity = equity]
    BY <1>2, <1>6
  <2> HIDE DEF w
  <2> QED BY <1>1, <1>4, <2>1 DEF VectorStates, w
<1> QED BY <1>5, <1>6

(* So over a bar, rebalanced or not.                                       *)
LEMMA VectorBarKeeps ==
    ASSUME setting \in Settings, NEW engine \in VectorStates, NEW move \in Vectors,
           NEW target \in Vectors \cup {None},
           Gross(engine.weights) \preceq setting.gross
    PROVE  /\ VectorBar(engine, move, target) \in VectorStates
           /\ Gross(VectorBar(engine, move, target).weights) \preceq setting.gross
<1> DEFINE nav == engine.equity \otimes (One \oplus Segment(engine.weights, move))
           cap == IF setting.capacity = None THEN None
                  ELSE Scaled(setting.capacity, One \oslash nav)
           traded == Traded(engine.weights, target, cap, setting.gross)
<1>1. engine.weights \in Vectors /\ engine.equity \in Fractions
  BY DEF VectorStates
<1>2. nav \in Fractions
  <2>1. Segment(engine.weights, move) \in Fractions /\ One \in Fractions
    BY <1>1, SegmentType DEF One, Fractions
  <2>2. One \oplus Segment(engine.weights, move) \in Fractions
    BY <2>1, FractionsClosed
  <2> QED BY <1>1, <2>2, FractionsClosed
<1>3. VectorBar(engine, move, target)
        = IF nav \preceq Zero THEN Failed(engine, "exhausted")
          ELSE IF target = None THEN [engine EXCEPT !.equity = nav]
          ELSE Executed(engine, nav, traded)
  BY DEF VectorBar
<1> HIDE DEF nav
<1>4. CASE nav \preceq Zero
  <2>1. /\ Failed(engine, "exhausted") \in VectorStates
        /\ Failed(engine, "exhausted").weights = engine.weights
    BY DEF Failed, States, VectorStates
  <2> QED BY <1>3, <1>4, <2>1
<1>5. CASE ~ (nav \preceq Zero) /\ target = None
  BY <1>2, <1>3, <1>5 DEF VectorStates
<1>6. CASE ~ (nav \preceq Zero) /\ target # None
  <2>1. Zero \prec nav /\ Zero \in Fractions /\ One \in Fractions
    BY <1>2, <1>6, LessOrders, FractionsClosed
  <2>2. One \oslash nav \in Fractions
    BY <1>2, <2>1, FractionsClosed
  <2>3. cap \in Vectors \cup {None}
    <3> DEFINE k == One \oslash nav
    <3>1. k \in Fractions
      BY <2>2
    <3> HIDE DEF k
    <3>2. \A c \in Vectors : Scaled(c, k) \in Vectors
      BY <3>1, VectorsAre
    <3> QED BY <3>2, SettingIs DEF k
  <2>4. traded \in Vectors /\ Gross(Sum2(engine.weights, traded)) \preceq setting.gross
    <3> HIDE DEF cap
    <3> QED BY <1>1, <1>6, <2>3, TradedKeeps, SettingIs
  <2> HIDE DEF traded
  <2> QED BY <1>2, <1>3, <1>6, <2>4, ExecutedKeeps
<1> QED BY <1>4, <1>5, <1>6

LEMMA AccruedType ==
    ASSUME setting \in Settings, NEW engine \in EventStates, NEW move \in Vectors
    PROVE  /\ Accrued(engine, move) \in EventStates
           /\ Accrued(engine, move).state = engine.state
<1> DEFINE cash == engine.cash \otimes (One \oplus CashReturn)
           held == [s \in Symbols |-> engine.held[s] \otimes move[s]]
<1>1. engine.cash \in Fractions /\ One \in Fractions /\ CashReturn \in Fractions
  BY SettingIs DEF EventStates, One, Fractions, CashReturn
<1>2. One \oplus CashReturn \in Fractions
  BY <1>1, FractionsClosed
<1>3. cash \in Fractions
  BY <1>1, <1>2, FractionsClosed
<1>4. \A s \in Symbols : engine.held[s] \in Fractions /\ move[s] \in Fractions
  BY DEF EventStates, Vectors
<1>5. held \in Vectors
  BY <1>4, FractionsClosed DEF Vectors
<1>6. Accrued(engine, move) = [engine EXCEPT !.cash = cash, !.held = held]
  BY DEF Accrued
<1> HIDE DEF cash, held
<1> QED BY <1>3, <1>5, <1>6 DEF EventStates

(* Settling either stops the engine or books the trade; at the close, what *)
(* is booked is worth the equity after costs.                              *)
LEMMA SettledIs ==
    ASSUME NEW engine \in EventStates, NEW held \in Vectors, NEW cash \in Fractions,
           NEW after \in Fractions
    PROVE  LET settled == Settled(engine, held, cash, after)
           IN  /\ settled \in EventStates
               /\ settled.state = "running" =>
                     /\ settled.cash = cash /\ settled.held = held
                     /\ setting.slip = Zero => cash \oplus Total(held) = after
<1>1. CASE Refuses(held, cash)
  <2>1. /\ Failed(engine, "financing") \in EventStates
        /\ Failed(engine, "financing").state = "financing"
    BY DEF Failed, States, EventStates
  <2> QED BY <1>1, <2>1 DEF Settled
<1>2. CASE ~ Refuses(held, cash) /\ setting.slip = Zero /\ cash \oplus Total(held) # after
  <2>1. /\ Failed(engine, "unreconciled") \in EventStates
        /\ Failed(engine, "unreconciled").state = "unreconciled"
    BY DEF Failed, States, EventStates
  <2> QED BY <1>2, <2>1 DEF Settled
<1>3. CASE ~ Refuses(held, cash) /\ ~ (setting.slip = Zero /\ cash \oplus Total(held) # after)
  <2>1. Settled(engine, held, cash, after) = [engine EXCEPT !.cash = cash, !.held = held]
    BY <1>3 DEF Settled
  <2> QED BY <1>3, <2>1 DEF EventStates
<1> QED BY <1>1, <1>2, <1>3

(* A rebalance booked at the close keeps to the limit on the equity after  *)
(* costs.                                                                  *)
LEMMA RebalancedKeeps ==
    ASSUME setting \in Settings, NEW engine \in EventStates, NEW nav \in Fractions,
           Zero \prec nav, NEW target \in Vectors
    PROVE  LET booked == Rebalanced(engine, nav, target)
           IN  /\ booked \in EventStates
               /\ /\ booked.state = "running" /\ setting.slip = Zero
                  /\ Gross(target) \preceq setting.gross
                  => Gross(booked.held)
                       \preceq setting.gross \otimes (booked.cash \oplus Total(booked.held))
<1> DEFINE i == One \oslash nav
           previous == Scaled(engine.held, i)
           q == PostCost(previous, target)
           sized == Scaled(target, q)
           limit == setting.gross \otimes q
           traded == Traded(previous, sized, None, limit)
           held == Sum2(engine.held, Scaled(traded, nav))
           paid == Total(traded) \oplus (Gross(traded) \otimes setting.slip) \oplus Cost(traded)
           cash == engine.cash \ominus (nav \otimes paid)
           booked == Rebalanced(engine, nav, target)
<1>1. engine.held \in Vectors /\ engine.cash \in Fractions /\ setting.gross \in Fractions
  BY SettingIs DEF EventStates
<1>2. i \in Fractions
  BY <1>1, DividesBack
<1>3. booked = IF q \preceq Zero THEN Failed(engine, "exhausted")
               ELSE Settled(engine, held, cash, nav \otimes q)
  BY DEF Rebalanced, TradedTo, Paid
<1> HIDE DEF i, booked
<1>4. previous \in Vectors
  BY <1>1, <1>2, VectorsAre
<1> HIDE DEF previous
<1>5. q \in Fractions
  BY <1>4, PostCostType
<1>6. CASE q \preceq Zero
  <2>1. /\ Failed(engine, "exhausted") \in EventStates
        /\ Failed(engine, "exhausted").state = "exhausted"
    BY DEF Failed, States, EventStates
  <2> HIDE DEF q
  <2> QED BY <1>3, <1>6, <2>1 DEF booked
<1>7. CASE ~ (q \preceq Zero)
  <2> HIDE DEF q
  <2>1. Zero \in Fractions /\ Zero \preceq q /\ Zero \preceq nav
    BY <1>5, <1>7, LessOrders, FractionsClosed
  <2>2. limit \in Fractions /\ sized \in Vectors
    BY <1>1, <1>5, VectorsAre, FractionsClosed
  <2>3. /\ traded \in Vectors
        /\ Gross(sized) \preceq limit => Gross(Sum2(previous, traded)) \preceq limit
    <3> HIDE DEF sized, limit
    <3> QED BY <1>4, <2>2, TradedKeeps
  <2> HIDE DEF traded
  <2>4. held \in Vectors
    <3>1. Scaled(traded, nav) \in Vectors
      BY <2>3, VectorsAre
    <3> DEFINE v == Scaled(traded, nav)
    <3>2. v \in Vectors
      BY <3>1
    <3> HIDE DEF v
    <3> QED BY <1>1, <2>1, <3>2, VectorsAre DEF v
  <2>5. cash \in Fractions /\ nav \otimes q \in Fractions
    <3>1. Total(traded) \in Fractions /\ Gross(traded) \in Fractions /\ Cost(traded) \in Fractions
      BY <2>3, GrossIs, CostType
    <3>2. Gross(traded) \otimes setting.slip \in Fractions
      BY <3>1, SettingIs, FractionsClosed
    <3> DEFINE x == Total(traded) \oplus (Gross(traded) \otimes setting.slip)
    <3>3. x \in Fractions
      BY <3>1, <3>2, FractionsClosed
    <3> HIDE DEF x
    <3>4. x \oplus Cost(traded) \in Fractions
      BY <3>1, <3>3, FractionsClosed
    <3>5. paid = x \oplus Cost(traded)
      BY DEF x
    <3> HIDE DEF paid
    <3>6. paid \in Fractions
      BY <3>4, <3>5
    <3>7. nav \otimes paid \in Fractions
      BY <3>6, FractionsClosed
    <3> QED BY <1>1, <1>5, <3>7, FractionsClosed
  <2>6. /\ booked \in EventStates
        /\ booked.state = "running" =>
              /\ booked.cash = cash /\ booked.held = held
              /\ setting.slip = Zero => cash \oplus Total(held) = nav \otimes q
    <3> HIDE DEF held, cash
    <3> QED BY <1>3, <1>7, <2>4, <2>5, SettledIs
  <2>7. ASSUME Gross(target) \preceq setting.gross
        PROVE  Gross(held) \preceq setting.gross \otimes (nav \otimes q)
    <3>1. Gross(sized) \preceq limit
      <4>1. ASSUME NEW s \in Symbols PROVE Size(sized[s]) \preceq Size(target[s]) \otimes q
        <5>1. target[s] \in Fractions /\ sized[s] = target[s] \otimes q
          BY DEF Vectors, Scaled
        <5> HIDE DEF sized
        <5> QED BY <1>5, <2>1, <5>1, SizeTimes
      <4> HIDE DEF sized
      <4>2. Gross(sized) \preceq Gross(target) \otimes q
        BY <1>5, <2>2, <4>1, GrossScales
      <4>3. Gross(target) \in Fractions /\ Gross(sized) \in Fractions
        BY <2>2, GrossIs
      <4>4. Gross(target) \otimes q \preceq limit
        BY <1>1, <1>5, <2>1, <2>7, <4>3, TimesMonotone
      <4>5. Gross(target) \otimes q \in Fractions
        BY <1>5, <4>3, FractionsClosed
      <4> DEFINE x == Gross(sized)
                 y == Gross(target) \otimes q
      <4>6. x \in Fractions /\ y \in Fractions /\ x \preceq y /\ y \preceq limit
        BY <4>2, <4>3, <4>4, <4>5
      <4> HIDE DEF x, y, limit
      <4>7. x \preceq limit
        BY <2>2, <4>6, LessOrders
      <4> QED BY <4>7 DEF x
    <3>2. Gross(Sum2(previous, traded)) \preceq limit
      BY <2>3, <3>1
    <3> DEFINE sum == Sum2(previous, traded)
    <3>3. sum \in Vectors
      BY <1>4, <2>1, <2>3, VectorsAre
    <3>4. Gross(held) \preceq Gross(sum) \otimes nav
      <4>1. ASSUME NEW s \in Symbols PROVE Size(held[s]) \preceq Size(sum[s]) \otimes nav
        <5>1. /\ engine.held[s] \in Fractions /\ traded[s] \in Fractions
              /\ held[s] = engine.held[s] \oplus (traded[s] \otimes nav)
          BY <1>1, <2>3 DEF Vectors, Sum2, Scaled
        <5>2. sum[s] = (engine.held[s] \otimes i) \oplus traded[s]
          BY <1>1 DEF Vectors, Sum2, Scaled, previous
        <5> HIDE DEF held, sum
        <5> QED BY <5>1, <5>2, LegRevalued DEF i
      <4> HIDE DEF held, sum
      <4> QED BY <2>4, <3>3, <4>1, GrossScales
    <3>5. Gross(sum) \otimes nav \preceq limit \otimes nav
      <4> HIDE DEF limit
      <4>1. Gross(sum) \in Fractions
        <5> HIDE DEF sum
        <5> QED BY <3>3, GrossIs
      <4> QED BY <2>1, <2>2, <3>2, <4>1, TimesMonotone
    <3>6. limit \otimes nav = setting.gross \otimes (nav \otimes q)
      <4>1. limit \otimes nav = setting.gross \otimes (q \otimes nav)
        BY <1>1, <1>5, TimesCommutes
      <4>2. q \otimes nav = nav \otimes q
        BY <1>5, TimesCommutes
      <4> QED BY <4>1, <4>2
    <3> DEFINE x == Gross(held)
               y == Gross(sum) \otimes nav
               z == setting.gross \otimes (nav \otimes q)
    <3>7. x \in Fractions /\ y \in Fractions /\ z \in Fractions
      <4>1. Gross(held) \in Fractions /\ Gross(sum) \in Fractions
        <5> HIDE DEF held, sum
        <5> QED BY <2>4, <3>3, GrossIs
      <4> QED BY <1>1, <2>5, <4>1, FractionsClosed
    <3>8. x \preceq y /\ y \preceq z
      BY <3>4, <3>5, <3>6
    <3> HIDE DEF x, y, z
    <3>9. x \preceq z
      BY <3>7, <3>8, LessOrders
    <3> QED BY <3>9 DEF x, z
  <2> HIDE DEF held, cash
  <2> QED BY <2>6, <2>7 DEF booked
<1> QED BY <1>6, <1>7

(* The event-driven engine keeps to it at every rebalance at the close.    *)
LEMMA EventBarKeeps ==
    ASSUME setting \in Settings, NEW engine \in EventStates, NEW move \in Vectors,
           NEW target \in Vectors \cup {None}
    PROVE  LET replayed == EventBar(engine, move, target)
           IN  /\ replayed \in EventStates
               /\ /\ replayed.state = "running" /\ setting.slip = Zero
                  /\ target # None /\ Gross(target) \preceq setting.gross
                  => Gross(replayed.held) \preceq setting.gross \otimes replayed.equity
<1> DEFINE accrued == Accrued(engine, move)
           nav == accrued.cash \oplus Total(accrued.held)
           booked == IF target = None THEN accrued ELSE Rebalanced(accrued, nav, target)
           worth == booked.cash \oplus Total(booked.held)
           replayed == EventBar(engine, move, target)
<1>1. accrued \in EventStates
  BY AccruedType
<1>2. replayed = IF nav \preceq Zero THEN Failed(accrued, "exhausted") ELSE Marked(booked)
  BY DEF EventBar, AtClose
<1> HIDE DEF accrued
<1>3. nav \in Fractions
  <2>1. accrued.cash \in Fractions /\ accrued.held \in Vectors
    BY <1>1 DEF EventStates
  <2> QED BY <2>1, GrossIs, FractionsClosed
<1> HIDE DEF replayed, nav
<1>4. CASE nav \preceq Zero
  <2>1. /\ Failed(accrued, "exhausted") \in EventStates
        /\ Failed(accrued, "exhausted").state = "exhausted"
    BY <1>1 DEF Failed, States, EventStates
  <2> QED BY <1>2, <1>4, <2>1 DEF replayed
<1>5. CASE ~ (nav \preceq Zero)
  <2>1. Zero \prec nav
    BY <1>3, <1>5, LessOrders, FractionsClosed
  <2>2. /\ booked \in EventStates
        /\ booked.state = "running" /\ setting.slip = Zero
           /\ target # None /\ Gross(target) \preceq setting.gross
           => Gross(booked.held) \preceq setting.gross \otimes worth
    <3>1. CASE target = None
      BY <1>1, <3>1
    <3>2. CASE target # None
      <4>1. booked = Rebalanced(accrued, nav, target)
        BY <3>2
      <4> HIDE DEF booked
      <4> QED BY <1>1, <1>3, <2>1, <3>2, <4>1, RebalancedKeeps
    <3> QED BY <3>1, <3>2
  <2> HIDE DEF booked
  <2>3. worth \in Fractions
    <3>1. booked.cash \in Fractions /\ booked.held \in Vectors
      BY <2>2 DEF EventStates
    <3> QED BY <3>1, GrossIs, FractionsClosed
  <2> HIDE DEF worth
  <2>4. \/ replayed = booked /\ booked.state # "running"
        \/ \E reason \in States \ {"running"} : replayed = Failed(booked, reason)
        \/ replayed = [booked EXCEPT !.equity = worth]
    BY <1>2, <1>5 DEF Marked, States, worth
  <2>5. CASE replayed = booked /\ booked.state # "running"
    BY <2>2, <2>5 DEF replayed
  <2>6. CASE \E reason \in States \ {"running"} : replayed = Failed(booked, reason)
    <3>1. PICK reason \in States \ {"running"} : replayed = Failed(booked, reason)
      BY <2>6
    <3>2. replayed \in EventStates /\ replayed.state = reason
      BY <2>2, <3>1 DEF Failed, EventStates
    <3> QED BY <3>1, <3>2 DEF replayed
  <2>7. CASE replayed = [booked EXCEPT !.equity = worth]
    <3>1. /\ replayed \in EventStates /\ replayed.state = booked.state
          /\ replayed.held = booked.held /\ replayed.equity = worth
      BY <2>2, <2>3, <2>7 DEF EventStates
    <3> QED BY <2>2, <3>1 DEF replayed
  <2> QED BY <2>4, <2>5, <2>6, <2>7
<1> QED BY <1>4, <1>5

LEMMA FlatIsEmpty ==
    ASSUME setting \in Settings
    PROVE  Flat \in Vectors /\ Gross(Flat) \preceq setting.gross
<1>1. Zero \in Fractions /\ Is(Zero, 0, 1)
  BY UnitsAre DEF Zero, Fractions
<1>2. Flat \in Vectors
  BY <1>1 DEF Flat, Vectors
<1>3. Size(Zero) \preceq Size(Zero) \otimes Zero
  <2>1. Is(Size(Zero), Absolute(0), 1) /\ Absolute(0) = 0
    BY <1>1, SizeIs DEF Absolute
  <2>2. Is(Size(Zero) \otimes Zero, 0 * 0, 1 * 1)
    BY <1>1, <2>1, TimesIs
  <2>3. Is(Size(Zero) \otimes Zero, 0, 1) /\ Is(Size(Zero), 0, 1)
    BY <2>1, <2>2
  <2> QED BY <2>3, LessIs
<1>4. \A s \in Symbols : Flat[s] = Zero
  BY DEF Flat
<1>5. Gross(Flat) \preceq Gross(Flat) \otimes Zero
  BY <1>1, <1>2, <1>3, <1>4, GrossScales
<1> DEFINE x == Gross(Flat)
           y == x \otimes Zero
<1>6. x \in Fractions
  BY <1>2, GrossIs
<1> HIDE DEF x
<1>7. y \in Fractions /\ y \preceq Zero
  <2>1. PICK d \in Nat \ {0}, n, m, l, o \in Int : Is(x, n, d) /\ Is(Zero, m, d)
    BY <1>1, <1>6, CommonFour
  <2>2. Is(y, n * 0, d * 1)
    BY <1>1, <2>1, TimesIs
  <2>3. Is(y, 0, d)
    BY <2>1, <2>2
  <2>4. Is(Zero, 0, d)
    BY <2>1, UnitsAre
  <2>5. y \preceq Zero
    BY <2>3, <2>4, LessIs
  <2> QED BY <1>1, <1>6, <2>5, FractionsClosed
<1>8. x \preceq y
  BY <1>5 DEF x
<1> HIDE DEF y
<1>9. setting.gross \in Fractions /\ Zero \prec setting.gross
  BY SettingIs
<1>10. x \preceq setting.gross
  <2>1. Zero \preceq setting.gross
    BY <1>1, <1>9, LessOrders
  <2>2. x \preceq Zero
    BY <1>1, <1>6, <1>7, <1>8, LessOrders
  <2> QED BY <1>1, <1>6, <1>9, <2>1, <2>2, LessOrders
<1> QED BY <1>2, <1>10 DEF x

(* The engines are in a state they can reach, every decision keeps to the  *)
(* limit, and so does what was executed.                                   *)
EngineInv ==
    /\ event \in EventStates /\ vector \in VectorStates
    /\ \A d \in decisions : Gross(d.target) \preceq setting.gross
    /\ GrossWithinLimit

(* The latest of the decisions due is one of them.                         *)
LEMMA LatestIsOne ==
    ASSUME NEW t \in Int, NEW D, D # {}, \A d \in D : d.at \in {t, t + 1}
    PROVE  \E d \in D : Latest(D) = d.target
<1>1. PICK d \in D : \A e \in D : e.at <= d.at
  <2>1. CASE \E d \in D : d.at = t + 1
    BY <2>1
  <2>2. CASE ~ \E d \in D : d.at = t + 1
    BY <2>2
  <2> QED BY <2>1, <2>2
<1> QED BY <1>1 DEF Latest

(* What is executed at a bar was decided, and within the contract.         *)
LEMMA TargetKeeps ==
    ASSUME ReplayInv, EngineInv, bar \in Bars, TargetAt(decisions, bar) # None
    PROVE  Gross(TargetAt(decisions, bar)) \preceq setting.gross
<1> DEFINE t == 2 * bar - 2
           due == {d \in decisions : d.at \in {2 * bar - 2, 2 * bar - 1}}
<1>1. bar \in Nat
  BY BacktestAssumption DEF Bars
<1>2. \A d \in decisions : d.at \in Nat \ {0}
  BY DEF ReplayInv, FrameInv, MarketInv
<1>3. TargetAt(decisions, bar) = IF due = {} THEN None ELSE Latest(due)
  BY <1>2, TargetIsLatest
<1>4. t \in Int /\ t + 1 = 2 * bar - 1
  BY <1>1
<1>5. \A d \in due : d.at \in {t, t + 1}
  BY <1>4
<1> HIDE DEF t
<1>6. due # {} => \E d \in due : Latest(due) = d.target
  BY <1>4, <1>5, LatestIsOne
<1> QED BY <1>3, <1>6 DEF EngineInv

LEMMA InitEngines == Init => EngineInv
<1> SUFFICES ASSUME Init PROVE EngineInv
  OBVIOUS
<1>1. setting \in Settings /\ decisions = {} /\ bar = 0
  BY DEF Init
<1>2. Flat \in Vectors /\ Gross(Flat) \preceq setting.gross
  BY <1>1, FlatIsEmpty
<1>3. /\ event = [state |-> "running", cash |-> One, held |-> Flat, equity |-> One]
      /\ vector = [state |-> "running", weights |-> Flat, equity |-> One]
  BY DEF Init
<1>4. One \in Fractions
  BY DEF One, Fractions
<1>5. event \in EventStates /\ vector \in VectorStates /\ vector.weights = Flat
  BY <1>2, <1>3, <1>4 DEF EventStates, VectorStates, States
<1> QED BY <1>1, <1>2, <1>5 DEF EngineInv, GrossWithinLimit

LEMMA ReplayEngines == ReplayInv /\ EngineInv /\ Replay => EngineInv'
<1> SUFFICES ASSUME ReplayInv, EngineInv, Replay PROVE EngineInv'
  OBVIOUS
<1> DEFINE target == TargetAt(decisions, bar)
           move == moves[bar]
<1>1. /\ bar \in Bars /\ bar' = bar + 1
      /\ UNCHANGED <<setting, decisions, live>>
      /\ event' = IF event.state = "running" THEN EventBar(event, move, target) ELSE event
      /\ vector' = IF vector.state = "running" THEN VectorBar(vector, move, target) ELSE vector
  BY DEF Replay
<1>2. bar \in Nat \ {0} /\ bar \in 1..Len(moves) /\ Len(live) = Len(moves)
  BY <1>1, BacktestAssumption DEF ReplayInv, MarketInv, Bars
<1>3. setting \in Settings /\ move \in Vectors
  BY <1>2, BacktestAssumption DEF ReplayInv, MarketInv, Vectors
<1>4. target = live[bar] /\ target \in Vectors \cup {None}
  BY <1>2 DEF ReplayInv, MarketInv, LiveInv, Vectors
<1>5. target # None => Gross(target) \preceq setting.gross
  BY <1>1, TargetKeeps
<1> HIDE DEF target, move
<1>6. /\ event' \in EventStates
      /\ event'.state = "running" /\ setting.slip = Zero /\ target # None
         => Gross(event'.held) \preceq setting.gross \otimes event'.equity
  <2>1. CASE event.state = "running"
    BY <1>1, <1>3, <1>4, <1>5, <2>1, EventBarKeeps DEF EngineInv
  <2>2. CASE event.state # "running"
    BY <1>1, <2>2 DEF EngineInv
  <2> QED BY <2>1, <2>2
<1>7. vector' \in VectorStates /\ Gross(vector'.weights) \preceq setting.gross
  <2>1. vector \in VectorStates /\ Gross(vector.weights) \preceq setting.gross
    BY DEF EngineInv, GrossWithinLimit
  <2>2. CASE vector.state = "running"
    BY <1>1, <1>3, <1>4, <2>1, <2>2, VectorBarKeeps
  <2>3. CASE vector.state # "running"
    BY <1>1, <2>1, <2>3
  <2> QED BY <2>2, <2>3
<1>8. bar' - 1 = bar /\ live'[bar' - 1] = target
  BY <1>1, <1>2, <1>4
<1>9. GrossWithinLimit'
  BY <1>1, <1>6, <1>7, <1>8 DEF GrossWithinLimit
<1> QED BY <1>1, <1>6, <1>7, <1>9 DEF EngineInv

LEMMA NextEngines == ReplayInv /\ EngineInv /\ [Next]_vars => EngineInv'
<1> SUFFICES ASSUME ReplayInv, EngineInv, [Next]_vars PROVE EngineInv'
  OBVIOUS
<1>1. CASE CloseBar \/ Wait
  <2>1. bar' = 0 /\ UNCHANGED <<setting, decisions, event, vector>>
    BY <1>1 DEF CloseBar, Wait
  <2> QED BY <2>1 DEF EngineInv, GrossWithinLimit
<1>2. CASE Decide
  <2>1. bar' = 0 /\ UNCHANGED <<setting, event, vector>>
    BY <1>2 DEF Decide
  <2>2. \A d \in decisions' : d \in decisions \/ Gross(d.target) \preceq setting.gross
    BY <1>2 DEF Decide, WithinContract
  <2> QED BY <2>1, <2>2 DEF EngineInv, GrossWithinLimit
<1>3. CASE Submit
  <2>1. decisions' = decisions
    BY <1>3, SubmitKeeps
  <2>2. bar' = 1 /\ UNCHANGED <<setting, event, vector>>
    BY <1>3 DEF Submit
  <2> QED BY <2>1, <2>2 DEF EngineInv, GrossWithinLimit
<1>4. CASE Replay
  BY <1>4, ReplayEngines
<1>5. CASE UNCHANGED vars
  <2>1. UNCHANGED <<setting, decisions, live, bar, event, vector>>
    BY <1>5 DEF vars
  <2> QED BY <2>1 DEF EngineInv, GrossWithinLimit
<1> QED BY <1>1, <1>2, <1>3, <1>4, <1>5 DEF Next

(* What was executed keeps to max_gross, although the ADV cap executes     *)
(* part of each leg and costs shrink the equity: the vectorized engine's   *)
(* weights at every bar, the event-driven one's positions at every bar it  *)
(* rebalanced at the close.                                                *)
THEOREM GrossStaysWithinLimit == Spec => []GrossWithinLimit
<1>1. Init => ReplayInv /\ EngineInv
  BY InitReplay, InitEngines
<1>2. ReplayInv /\ EngineInv /\ [Next]_vars => (ReplayInv /\ EngineInv)'
  BY NextReplay, NextEngines
<1>3. EngineInv => GrossWithinLimit
  BY DEF EngineInv
<1> QED BY <1>1, <1>2, <1>3, PTL DEF Spec

-----------------------------------------------------------------------------
(* 5. Without costs the engines reach their targets.                       *)

(* Reductions and increases together are what was desired.                 *)
LEMMA LegReached ==
    ASSUME NEW p \in Fractions, NEW r \in Fractions, NEW g \in Fractions
    PROVE  Even(p \oplus (r \oplus ((g \ominus p) \ominus r)), g)
<1>1. PICK d \in Nat \ {0}, n, m, l, o \in Int : Is(p, n, d) /\ Is(r, m, d) /\ Is(g, l, d)
  BY CommonFour
<1>2. Is(g \ominus p, l - n, d)
  BY <1>1, PlusIs
<1>3. Is((g \ominus p) \ominus r, (l - n) - m, d)
  BY <1>1, <1>2, PlusIs
<1>4. Is(r \oplus ((g \ominus p) \ominus r), m + ((l - n) - m), d)
  BY <1>1, <1>3, PlusIs
<1>5. Is(p \oplus (r \oplus ((g \ominus p) \ominus r)), n + (m + ((l - n) - m)), d)
  BY <1>1, <1>4, PlusIs
<1>6. n + (m + ((l - n) - m)) = l /\ l <= l
  BY <1>1
<1>7. Is(p \oplus (r \oplus ((g \ominus p) \ominus r)), l, d)
  BY <1>5, <1>6
<1> QED BY <1>1, <1>6, <1>7, LessIs DEF Even

LEMMA EvenSizes ==
    ASSUME NEW a \in Fractions, NEW b \in Fractions, Even(a, b)
    PROVE  Size(a) \preceq Size(b)
<1>1. Is(a, a.num, a.den) /\ a.num \in Int
  BY IsSelf, IsParts
<1>2. Is(b, a.num, a.den)
  BY <1>1, EvenIs
<1>3. Is(Size(a), Absolute(a.num), a.den) /\ Is(Size(b), Absolute(a.num), a.den)
  BY <1>1, <1>2, SizeIs
<1>4. Absolute(a.num) <= Absolute(a.num)
  BY <1>1 DEF Absolute
<1> QED BY <1>3, <1>4, LessIs

(* Without a cap a target within the limit is reached.                     *)
LEMMA TradedReaches ==
    ASSUME NEW previous \in Vectors, NEW target \in Vectors, NEW limit \in Fractions,
           Gross(target) \preceq limit
    PROVE  LET traded == Traded(previous, target, None, limit)
           IN  /\ traded \in Vectors
               /\ \A s \in Symbols : Even(previous[s] \oplus traded[s], target[s])
<1> DEFINE desired == Difference(target, previous)
           reducing == Reducing(previous, desired)
           increasing == Difference(desired, reducing)
           reduced == Sum2(previous, reducing)
           whole == Sum2(reduced, increasing)
           room == limit \ominus Gross(reduced)
           traded == Traded(previous, target, None, limit)
           both == Sum2(reducing, increasing)
<1>0. One \in Fractions
  BY DEF One, Fractions
<1>1. desired \in Vectors
  BY <1>0, VectorsAre
<1>2. traded = Allowed(reduced, reducing, increasing, limit)
  <2>1. Bounded(desired, None) = desired
    BY DEF Bounded
  <2> QED BY <2>1 DEF Traded
<1>3. reducing \in Vectors /\ reduced \in Vectors /\ Gross(reduced) \preceq Gross(target)
  BY <1>1, ReducingKeeps
<1>4. increasing \in Vectors
  <2> HIDE DEF desired, reducing
  <2> QED BY <1>0, <1>1, <1>3, VectorsAre
<1>5. whole \in Vectors /\ both \in Vectors
  <2> HIDE DEF reducing, reduced, increasing
  <2> QED BY <1>0, <1>3, <1>4, VectorsAre
<1>6. ASSUME NEW s \in Symbols
      PROVE  /\ Even(previous[s] \oplus both[s], target[s])
             /\ whole[s] = previous[s] \oplus both[s]
             /\ whole[s] \in Fractions /\ target[s] \in Fractions
  <2> DEFINE p == previous[s]
             r == reducing[s]
             g == target[s]
             i == increasing[s]
  <2>1. p \in Fractions /\ r \in Fractions /\ g \in Fractions /\ i \in Fractions
        /\ whole[s] \in Fractions
    <3> HIDE DEF reducing, increasing, whole
    <3> QED BY <1>3, <1>4, <1>5 DEF Vectors
  <2>2. i = (g \ominus p) \ominus r
    <3>1. desired[s] = g \ominus p
      BY DEF Difference, Vectors
    <3>2. DOMAIN desired = Symbols
      BY DEF Difference, Vectors
    <3>3. increasing = [x \in DOMAIN desired |-> desired[x] \ominus reducing[x]]
      BY DEF Difference
    <3> HIDE DEF desired, reducing, increasing
    <3> QED BY <3>1, <3>2, <3>3
  <2>3. both[s] = r \oplus i /\ whole[s] = (p \oplus r) \oplus i
    <3> HIDE DEF reducing, increasing
    <3>1. DOMAIN previous = Symbols /\ DOMAIN reducing = Symbols
      BY <1>3 DEF Vectors
    <3> QED BY <3>1 DEF Sum2
  <2> HIDE DEF both, whole, p, r, g, i
  <2>4. Even(p \oplus (r \oplus i), g)
    BY <2>1, <2>2, LegReached
  <2>5. (p \oplus r) \oplus i = p \oplus (r \oplus i)
    BY <2>1, PlusAssociates
  <2> QED BY <2>1, <2>3, <2>4, <2>5 DEF p, g
<1>7. Gross(whole) \preceq limit
  <2>1. \A s \in Symbols : Size(whole[s]) \preceq Size(target[s])
    <3> HIDE DEF whole, both
    <3> QED BY <1>6, EvenSizes
  <2> HIDE DEF whole
  <2>2. Gross(whole) \preceq Gross(target)
    BY <1>5, <2>1, GrossLess
  <2> DEFINE x == Gross(whole)
             y == Gross(target)
  <2>3. x \in Fractions /\ y \in Fractions /\ x \preceq y /\ y \preceq limit
    BY <1>5, <2>2, GrossIs
  <2> HIDE DEF x, y
  <2>4. x \preceq limit
    BY <2>3, LessOrders
  <2> QED BY <2>4 DEF x
<1>8. ~ (room \prec Zero)
  <2> DEFINE x == Gross(reduced)
             y == Gross(target)
  <2>1. x \in Fractions /\ y \in Fractions /\ x \preceq y /\ y \preceq limit
    <3> HIDE DEF reduced
    <3> QED BY <1>3, GrossIs
  <2>2. room \prec Zero <=> limit \prec x
    <3>1. room = limit \ominus x
      OBVIOUS
    <3> HIDE DEF x, room
    <3> QED BY <2>1, <3>1, MinusSign
  <2> HIDE DEF x, y, room
  <2> QED BY <2>1, <2>2, LessOrders
<1>9. traded = both
  <2> HIDE DEF traded
  <2>1. traded = IF room \prec Zero THEN reducing
                 ELSE IF Gross(whole) \preceq limit THEN both
                 ELSE Sum2(reducing, Scaled(increasing, room \oslash Gross(increasing)))
    BY <1>2 DEF Allowed
  <2> HIDE DEF reducing, reduced, increasing, whole, room, both
  <2> QED BY <1>7, <1>8, <2>1
<1> HIDE DEF traded, both
<1> QED BY <1>5, <1>6, <1>9 DEF traded

Costless ==
    {setting.buy, setting.sell, setting.slip} = {Zero} /\ setting.capacity = None

(* At no rates, no cost: the equity after costs is the equity.             *)
LEMMA CostIsZero ==
    ASSUME setting \in Settings, Costless, NEW traded \in Vectors
    PROVE  Even(Cost(traded), Zero)
<1> DEFINE buys == [s \in Symbols |-> Greater(traded[s], Zero)]
           sells == [s \in Symbols |-> Greater(Negative(traded[s]), Zero)]
<1>0. Zero \in Fractions
  BY DEF Zero, Fractions
<1>1. \A s \in Symbols : traded[s] \in Fractions
  BY DEF Vectors
<1>2. \A s \in Symbols : Negative(traded[s]) \in Fractions
  BY <1>1, FractionsClosed
<1>3. buys \in [Symbols -> Fractions] /\ sells \in [Symbols -> Fractions]
  BY <1>0, <1>1, <1>2, FractionsClosed
<1> DEFINE bought == Total(buys) \otimes Zero
           sold == Total(sells) \otimes Zero
<1>4. Cost(traded) = bought \oplus sold
  BY DEF Cost, Costless
<1> HIDE DEF buys, sells
<1>5. Total(buys) \in Fractions /\ Total(sells) \in Fractions
  BY <1>3, TotalType
<1>6. bought \in Fractions /\ sold \in Fractions /\ Even(bought, Zero) /\ Even(sold, Zero)
  BY <1>0, <1>5, EvenUnits, FractionsClosed
<1> HIDE DEF bought, sold
<1>7. bought \oplus sold = Zero \oplus Zero
  BY <1>0, <1>6, EvenComputes
<1>8. Even(Zero \oplus Zero, Zero)
  BY <1>0, EvenUnits
<1> QED BY <1>4, <1>7, <1>8

LEMMA PostCostIsOne ==
    ASSUME setting \in Settings, Costless, NEW previous \in Vectors, NEW target \in Vectors
    PROVE  PostCost(previous, target) = One
<1> DEFINE Over(f, S) == Total([s \in S |-> f[s]])
           Bought(f, S) == setting.buy \otimes Over(f, S)
           Sold(f, S) == setting.sell \otimes Over(f, Symbols \ S)
           Left(f, S) == One \oplus (Bought(f, S) \ominus Sold(f, S))
           Solution(S) == Left(previous, S) \oslash Left(target, S)
           Consistent(S, q) ==
             /\ Zero \prec Left(target, S) /\ Zero \prec q
             /\ \A s \in Symbols :
                   IF s \in S THEN previous[s] \preceq (target[s] \otimes q)
                   ELSE (target[s] \otimes q) \prec previous[s]
           consistent == {S \in SUBSET Symbols : Consistent(S, Solution(S))}
<1>0. Zero \in Fractions /\ One \in Fractions /\ setting.buy = Zero /\ setting.sell = Zero
  BY DEF Zero, One, Fractions, Costless
<1>1. ASSUME NEW f \in Vectors, NEW S \in SUBSET Symbols
      PROVE  Left(f, S) \in Fractions /\ Even(Left(f, S), One)
  <2>1. [s \in S |-> f[s]] \in [S -> Fractions]
        /\ [s \in Symbols \ S |-> f[s]] \in [Symbols \ S -> Fractions]
    BY DEF Vectors
  <2>2. Over(f, S) \in Fractions /\ Over(f, Symbols \ S) \in Fractions
    <3>1. Symbols \ S \in SUBSET Symbols
      OBVIOUS
    <3> QED BY <2>1, <3>1, TotalType
  <2> HIDE DEF Over
  <2>3. /\ Bought(f, S) \in Fractions /\ Even(Bought(f, S), Zero)
        /\ Sold(f, S) \in Fractions /\ Even(Sold(f, S), Zero)
    BY <1>0, <2>2, EvenUnits, FractionsClosed
  <2> DEFINE b == Bought(f, S)
             l == Sold(f, S)
             z == b \ominus l
  <2>4. b \in Fractions /\ l \in Fractions /\ Even(b, Zero) /\ Even(l, Zero)
    BY <2>3
  <2> HIDE DEF b, l
  <2>5. z = Zero \ominus Zero /\ z \in Fractions
    <3>1. b \ominus l = Zero \ominus Zero
      BY <1>0, <2>4, EvenComputes
    <3>2. Zero \ominus Zero \in Fractions
      BY <1>0, FractionsClosed
    <3> QED BY <3>1, <3>2
  <2>6. Even(z, Zero)
    BY <1>0, <2>5, EvenUnits
  <2> HIDE DEF z
  <2>7. One \oplus z = One \oplus Zero /\ One \oplus z \in Fractions
    <3>1. Even(One, One)
      BY <1>0, EvenOrders
    <3> QED BY <1>0, <2>5, <2>6, <3>1, EvenComputes, FractionsClosed
  <2>8. Even(One \oplus z, One)
    BY <1>0, <2>7, EvenUnits
  <2> QED BY <2>7, <2>8 DEF z, b, l
<1>2. PostCost(previous, target)
        = IF consistent = {} THEN Zero ELSE Solution(CHOOSE S \in consistent : TRUE)
  BY DEF PostCost
<1> HIDE DEF Left
<1>3. ASSUME NEW S \in SUBSET Symbols PROVE Zero \prec Left(target, S) /\ Solution(S) = One
  <2> DEFINE a == Left(previous, S)
             b == Left(target, S)
  <2>1. a \in Fractions /\ b \in Fractions /\ Even(a, One) /\ Even(b, One)
    BY <1>1
  <2> HIDE DEF a, b
  <2>2. Is(One, 1, 1) /\ Is(Zero, 0, 1) /\ 0 < 1
    BY UnitsAre
  <2>3. Is(a, 1, 1) /\ Is(b, 1, 1)
    BY <1>0, <2>1, <2>2, EvenIs, EvenOrders
  <2>4. Zero \prec b
    BY <2>2, <2>3, LessIs
  <2>5. Is(Inverted(b), 1, 1)
    BY <2>3, <2>4, InvertedIs
  <2>6. Is(a \oslash b, 1 * 1, 1 * 1) /\ Lowest(a \oslash b)
    BY <2>3, <2>5, TimesIs DEF \oslash
  <2>7. Is(a \oslash b, 1, 1)
    BY <2>6
  <2>8. a \oslash b = One
    BY <2>2, <2>6, <2>7, UnitsLowest, LowestSame
  <2> QED BY <2>4, <2>8 DEF a, b
<1> HIDE DEF Solution
<1>4. consistent # {}
  <2> DEFINE S == {s \in Symbols : previous[s] \preceq (target[s] \otimes One)}
  <2>1. \A s \in Symbols : previous[s] \in Fractions /\ target[s] \otimes One \in Fractions
    BY <1>0, FractionsClosed DEF Vectors
  <2>2. \A s \in Symbols : ~ (s \in S) => (target[s] \otimes One) \prec previous[s]
    BY <2>1, LessOrders
  <2>3. Zero \prec One
    BY UnitsAre, LessIs
  <2>4. S \in SUBSET Symbols
    OBVIOUS
  <2>5. Consistent(S, One)
    BY <1>3, <2>2, <2>3, <2>4
  <2>6. S \in consistent
    BY <1>3, <2>4, <2>5
  <2> QED BY <2>6
<1>5. (CHOOSE S \in consistent : TRUE) \in SUBSET Symbols
  BY <1>4
<1> HIDE DEF consistent
<1> QED BY <1>2, <1>3, <1>4, <1>5

(* What is not invested is cash.                                           *)
LEMMA RestIsCash ==
    ASSUME NEW E \in Fractions, NEW T \in Fractions, NEW c \in Fractions, NEW H \in Fractions,
           Even(c \oplus H, E), Even(H, T \otimes E)
    PROVE  Even(c, E \otimes (One \ominus T))
<1>1. PICK d \in Nat \ {0}, e, t, k, o \in Int : Is(E, e, d) /\ Is(T, t, d) /\ Is(c, k, d)
  BY CommonFour
<1>2. Is(T \otimes E, t * e, d * d) /\ T \otimes E \in Fractions
  BY <1>1, TimesIs, FractionsClosed
<1>3. Is(H, t * e, d * d)
  BY <1>2, EvenIs, EvenOrders
<1>4. Is(c, k * d, d * d) /\ Is(E, e * d, d * d)
  BY <1>1, IsScaled
<1>5. Is(c \oplus H, k * d + t * e, d * d)
  BY <1>3, <1>4, PlusIs
<1>6. k * d + t * e = e * d
  <2>1. k * d + t * e <= e * d /\ e * d <= k * d + t * e
    BY <1>4, <1>5, LessIs DEF Even
  <2>2. k * d + t * e \in Int /\ e * d \in Int
    BY <1>1
  <2> QED BY <2>1, <2>2
<1>7. Is(One, d, d)
  BY <1>1, UnitsAre
<1>8. Is(One \ominus T, d - t, d)
  BY <1>1, <1>7, PlusIs
<1>9. Is(E \otimes (One \ominus T), e * (d - t), d * d)
  BY <1>1, <1>8, TimesIs
<1>10. e * (d - t) = k * d
  <2> DEFINE x == k * d
             y == t * e
             z == e * d
  <2>1. x \in Int /\ y \in Int /\ z \in Int /\ x + y = z /\ e * (d - t) = z - y
    <3>1. e * (d - t) = e * d - t * e
      BY <1>1
    <3> QED BY <1>1, <1>6, <3>1
  <2> HIDE DEF x, y, z
  <2>2. z - y = x
    BY <2>1
  <2> QED BY <2>1, <2>2 DEF x
<1>11. k * d <= k * d
  BY <1>1
<1> QED BY <1>4, <1>9, <1>10, <1>11, LessIs DEF Even

LEMMA MoveSplits ==
    ASSUME NEW w \in Fractions, NEW m \in Fractions
    PROVE  Even(w \otimes m, (w \otimes (m \ominus One)) \oplus (w \otimes One))
<1>1. PICK d \in Nat \ {0}, n, k, l, o \in Int : Is(w, n, d) /\ Is(m, k, d)
  BY CommonFour
<1>2. Is(One, d, d)
  BY <1>1, UnitsAre
<1>3. Is(m \ominus One, k - d, d)
  BY <1>1, <1>2, PlusIs
<1>4. /\ Is(w \otimes m, n * k, d * d) /\ Is(w \otimes (m \ominus One), n * (k - d), d * d)
      /\ Is(w \otimes One, n * d, d * d)
  BY <1>1, <1>2, <1>3, TimesIs
<1>5. Is((w \otimes (m \ominus One)) \oplus (w \otimes One), n * (k - d) + n * d, d * d)
  BY <1>4, PlusIs
<1>6. n * (k - d) + n * d = n * k /\ n * k <= n * k
  BY <1>1
<1> QED BY <1>4, <1>5, <1>6, LessIs DEF Even

(* The shares of an event-driven engine are the weights of a vectorized    *)
(* one, on the same equity.                                                *)
Aligned(e, v) == \A s \in Symbols : Even(e.held[s], v.weights[s] \otimes e.equity)

Worth(e) == e.cash \oplus Total(e.held)

(* Aligned engines earn the same over a bar.                               *)
LEMMA NavsAgree ==
    ASSUME setting \in Settings, NEW e \in EventStates, NEW v \in VectorStates,
           NEW move \in Vectors, e.equity = v.equity, Aligned(e, v), Even(Worth(e), e.equity)
    PROVE  Worth(Accrued(e, move))
             = v.equity \otimes (One \oplus Segment(v.weights, move))
<1> DEFINE w == v.weights
           E == e.equity
           h == e.held
           gains == [s \in Symbols |-> move[s] \ominus One]
           moved == [s \in Symbols |-> w[s] \otimes move[s]]
           earned == [s \in Symbols |-> w[s] \otimes gains[s]]
           held == [s \in Symbols |-> h[s] \otimes move[s]]
           cash == e.cash \otimes (One \oplus CashReturn)
           W == Total(w)
           X == Total(earned)
           U == Total(moved)
           H == Total(held)
           c == e.cash
           y == CashReturn
<1>0. One \in Fractions
  BY DEF One, Fractions
<1>1. /\ w \in Vectors /\ h \in Vectors /\ E \in Fractions /\ c \in Fractions /\ y \in Fractions
      /\ v.equity = E
  BY SettingIs DEF EventStates, VectorStates, CashReturn
<1>2. Segment(w, move) = X \oplus (y \otimes (One \ominus W))
  <2>1. DOMAIN w = Symbols
    BY <1>1 DEF Vectors
  <2> QED BY <2>1 DEF Segment, Dot
<1>3. Worth(Accrued(e, move)) = cash \oplus H
  BY DEF Worth, Accrued, EventStates
<1>4. \A s \in Symbols : /\ w[s] \in Fractions /\ h[s] \in Fractions /\ move[s] \in Fractions
                         /\ gains[s] \in Fractions
  BY <1>0, <1>1, FractionsClosed DEF Vectors
<1>5. /\ moved \in Vectors /\ earned \in Vectors /\ held \in Vectors
  <2> HIDE DEF gains, w, h
  <2> QED BY <1>4, FractionsClosed DEF Vectors
<1>6. /\ W \in Fractions /\ X \in Fractions /\ U \in Fractions /\ H \in Fractions
      /\ Total(h) \in Fractions
  <2> HIDE DEF moved, earned, held, w, h
  <2> QED BY <1>1, <1>5, GrossIs
<1>7. /\ W = AddOver(w, Symbols) /\ X = AddOver(earned, Symbols)
      /\ U = AddOver(moved, Symbols) /\ H = AddOver(held, Symbols)
      /\ Total(h) = AddOver(h, Symbols)
  <2>1. /\ DOMAIN w = Symbols /\ DOMAIN earned = Symbols /\ DOMAIN moved = Symbols
        /\ DOMAIN held = Symbols /\ DOMAIN h = Symbols
    BY <1>1 DEF Vectors
  <2> QED BY <2>1, TotalIs
<1>8. Even(U, X \oplus (W \otimes One))
  <2>1. ASSUME NEW s \in Symbols
        PROVE  /\ moved[s] \in Fractions /\ earned[s] \in Fractions /\ w[s] \in Fractions
               /\ Even(moved[s], earned[s] \oplus (w[s] \otimes One))
    <3>1. moved[s] = w[s] \otimes move[s] /\ earned[s] = w[s] \otimes (move[s] \ominus One)
      OBVIOUS
    <3> HIDE DEF moved, earned, w
    <3> QED BY <1>4, <1>5, <3>1, MoveSplits DEF Vectors
  <2> HIDE DEF moved, earned, w
  <2>2. Even(AddOver(moved, Symbols),
             AddOver(earned, Symbols) \oplus (AddOver(w, Symbols) \otimes One))
    BY <1>0, <2>1, FiniteSymbols, AddLinear
  <2> QED BY <1>7, <2>2
<1>9. Even(H, U \otimes E)
  <2>1. ASSUME NEW s \in Symbols
        PROVE  /\ held[s] \in Fractions /\ moved[s] \in Fractions
               /\ Even(held[s], moved[s] \otimes E)
    <3> DEFINE a == h[s]
               b == w[s]
               m == move[s]
    <3>1. /\ a \in Fractions /\ b \in Fractions /\ m \in Fractions
          /\ Even(a, b \otimes E) /\ held[s] = a \otimes m /\ moved[s] = b \otimes m
      BY <1>4 DEF Aligned
    <3> HIDE DEF a, b, m, held, moved, E
    <3>2. b \otimes E \in Fractions /\ Even(m, m) /\ held[s] \in Fractions /\ moved[s] \in Fractions
      <4>1. b \otimes E \in Fractions /\ a \otimes m \in Fractions /\ b \otimes m \in Fractions
        BY <1>1, <3>1, FractionsClosed
      <4>2. Even(m, m)
        BY <3>1, EvenOrders
      <4> QED BY <3>1, <4>1, <4>2
    <3>3. a \otimes m = (b \otimes E) \otimes m
      BY <3>1, <3>2, EvenComputes
    <3>4. (b \otimes E) \otimes m = b \otimes (E \otimes m)
          /\ E \otimes m = m \otimes E
          /\ (b \otimes m) \otimes E = b \otimes (m \otimes E)
      BY <1>1, <3>1, TimesCommutes
    <3>5. held[s] = moved[s] \otimes E
      BY <3>1, <3>3, <3>4
    <3>6. Even(held[s], held[s])
      BY <3>2, EvenOrders
    <3> QED BY <3>2, <3>5, <3>6
  <2> HIDE DEF moved, held, E
  <2>2. Even(AddOver(held, Symbols), AddOver(moved, Symbols) \otimes E)
    BY <1>1, <2>1, FiniteSymbols, AddTimes
  <2> QED BY <1>7, <2>2
<1>10. Even(c, E \otimes (One \ominus W))
  <2>1. Even(Total(h), W \otimes E)
    <3>1. \A s \in Symbols : Even(h[s], w[s] \otimes E)
      BY DEF Aligned
    <3> HIDE DEF h, w, E
    <3>2. Even(AddOver(h, Symbols), AddOver(w, Symbols) \otimes E)
      BY <1>1, <1>4, <3>1, FiniteSymbols, AddTimes
    <3> QED BY <1>7, <3>2
  <2>2. Even(c \oplus Total(h), E)
    BY DEF Worth
  <2> DEFINE T == Total(h)
  <2>3. T \in Fractions /\ Even(T, W \otimes E) /\ Even(c \oplus T, E)
    BY <1>6, <2>1, <2>2
  <2> HIDE DEF T, W, E, c
  <2> QED BY <1>1, <1>6, <2>3, RestIsCash
<1>11. (c \otimes (One \oplus y)) \oplus H
         = E \otimes (One \oplus (X \oplus (y \otimes (One \ominus W))))
  <2> HIDE DEF c, y, H, E, X, W, U
  <2> DEFINE c0 == E \otimes (One \ominus W)
             U0 == X \oplus (W \otimes One)
             k == One \oplus y
  <2>1. /\ c0 \in Fractions /\ k \in Fractions /\ U0 \in Fractions
    <3>1. One \ominus W \in Fractions /\ W \otimes One \in Fractions
      BY <1>0, <1>6, FractionsClosed
    <3> QED BY <1>0, <1>1, <1>6, <3>1, FractionsClosed
  <2>2. Even(c, c0) /\ Even(U, U0)
    BY <1>8, <1>10
  <2>3. (c0 \otimes k) \oplus (U0 \otimes E)
          = E \otimes (One \oplus (X \oplus (y \otimes (One \ominus W))))
    BY <1>1, <1>6, EquityGrows
  <2> HIDE DEF c0, U0, k
  <2>4. Even(k, k) /\ Even(E, E)
    BY <1>1, <2>1, EvenOrders
  <2>5. c \otimes k = c0 \otimes k
    BY <1>1, <2>1, <2>2, <2>4, EvenComputes
  <2>6. U \otimes E = U0 \otimes E
    BY <1>1, <1>6, <2>1, <2>2, <2>4, EvenComputes
  <2> DEFINE a == c0 \otimes k
             b == U0 \otimes E
  <2>7. a \in Fractions /\ b \in Fractions /\ Even(H, b)
    BY <1>1, <1>9, <2>1, <2>6, FractionsClosed
  <2> HIDE DEF a, b
  <2>8. Even(a, a)
    BY <2>7, EvenOrders
  <2>9. a \oplus H = a \oplus b
    BY <1>6, <2>7, <2>8, EvenComputes
  <2> QED BY <2>3, <2>5, <2>9 DEF a, b, k
<1> QED BY <1>1, <1>2, <1>3, <1>11

(* A leg that reaches its share of the equity is worth it.                 *)
LEMMA LegBooked ==
    ASSUME NEW h \in Fractions, NEW t \in Fractions, NEW g \in Fractions, NEW v \in Fractions,
           Zero \prec v, Even((h \otimes (One \oslash v)) \oplus t, g \otimes One)
    PROVE  Even(h \oplus (t \otimes v), g \otimes v)
<1> DEFINE i == One \oslash v
           p == h \otimes i
           b == p \otimes v
           x == t \otimes v
<1>1. i \in Fractions /\ Even(b, h)
  BY DividesBack DEF Even
<1> HIDE DEF i
<1>2. p \in Fractions /\ One \in Fractions
  BY <1>1, FractionsClosed
<1>3. Even(p \oplus t, g \otimes One)
  BY DEF i
<1> HIDE DEF p
<1>4. b \in Fractions /\ x \in Fractions /\ p \oplus t \in Fractions /\ g \otimes One \in Fractions
  BY <1>2, FractionsClosed
<1>5. (p \oplus t) \otimes v = b \oplus x
  BY <1>2, TimesDistributes
<1> HIDE DEF b, x
<1>6. Even(x, x) /\ Even(v, v) /\ Even(h, b)
  BY <1>1, <1>4, EvenOrders
<1>7. h \oplus x = b \oplus x
  BY <1>4, <1>6, EvenComputes
<1> DEFINE q == p \oplus t
           o == g \otimes One
<1>8. q \in Fractions /\ o \in Fractions /\ Even(q, o) /\ Even(o, g)
  BY <1>3, <1>4, EvenUnits
<1> HIDE DEF q, o
<1>9. q \otimes v = g \otimes v
  <2>1. Even(q, g)
    BY <1>8, EvenOrders
  <2> QED BY <1>6, <1>8, <2>1, EvenComputes
<1>10. h \oplus x = g \otimes v /\ g \otimes v \in Fractions
  BY <1>5, <1>7, <1>9, FractionsClosed DEF q
<1>11. Even(g \otimes v, g \otimes v)
  BY <1>10, EvenOrders
<1> QED BY <1>10, <1>11 DEF x

(* Without costs the event-driven engine reaches a target, its equity      *)
(* unchanged.                                                              *)
LEMMA EventReaches ==
    ASSUME setting \in Settings, Costless, NEW engine \in EventStates, NEW nav \in Fractions,
           Zero \prec nav, NEW target \in Vectors, Gross(target) \preceq setting.gross
    PROVE  LET booked == Rebalanced(engine, nav, target)
           IN  booked.state = "running" =>
                 /\ Worth(booked) = nav \otimes One
                 /\ \A s \in Symbols : Even(booked.held[s], target[s] \otimes nav)
<1> DEFINE i == One \oslash nav
           previous == Scaled(engine.held, i)
           sized == Scaled(target, One)
           limit == setting.gross \otimes One
           traded == Traded(previous, sized, None, limit)
           held == Sum2(engine.held, Scaled(traded, nav))
           paid == Total(traded) \oplus (Gross(traded) \otimes setting.slip) \oplus Cost(traded)
           cash == engine.cash \ominus (nav \otimes paid)
           booked == Rebalanced(engine, nav, target)
<1>1. /\ engine.held \in Vectors /\ setting.gross \in Fractions /\ setting.slip = Zero
      /\ One \in Fractions /\ Zero \in Fractions
  BY SettingIs DEF EventStates, One, Zero, Fractions, Costless
<1>2. i \in Fractions
  BY <1>1, DividesBack
<1>3. previous \in Vectors
  <2> HIDE DEF i
  <2> QED BY <1>1, <1>2, VectorsAre
<1>4. PostCost(previous, target) = One
  <2> HIDE DEF previous
  <2> QED BY <1>3, PostCostIsOne
<1>5. ~ (One \preceq Zero)
  <2>1. Is(One, 1, 1) /\ Is(Zero, 0, 1) /\ ~ (1 <= 0)
    BY UnitsAre
  <2> QED BY <2>1, LessIs
<1>6. booked = Settled(engine, held, cash, nav \otimes One)
  <2>1. booked = TradedTo(engine, nav, previous, target, One)
    BY <1>4 DEF Rebalanced
  <2> HIDE DEF booked
  <2> QED BY <1>5, <2>1 DEF TradedTo, Paid
<1> HIDE DEF booked
<1>7. ASSUME booked.state = "running"
      PROVE  /\ booked.held = held /\ booked.cash = cash
             /\ cash \oplus Total(held) = nav \otimes One
  <2> HIDE DEF held, cash
  <2>1. CASE Refuses(held, cash)
    <3>1. Failed(engine, "financing").state = "financing"
      BY DEF Failed, EventStates
    <3> QED BY <1>6, <1>7, <2>1, <3>1 DEF Settled
  <2>2. CASE ~ Refuses(held, cash) /\ cash \oplus Total(held) # nav \otimes One
    <3>1. Failed(engine, "unreconciled").state = "unreconciled"
      BY DEF Failed, EventStates
    <3> QED BY <1>1, <1>6, <1>7, <2>2, <3>1 DEF Settled
  <2>3. CASE ~ Refuses(held, cash) /\ cash \oplus Total(held) = nav \otimes One
    <3>1. booked = [engine EXCEPT !.cash = cash, !.held = held]
      BY <1>6, <2>3 DEF Settled
    <3> QED BY <2>3, <3>1 DEF EventStates
  <2> QED BY <2>1, <2>2, <2>3
<1>8. sized \in Vectors /\ limit \in Fractions /\ Gross(sized) \preceq limit
  <2>1. sized \in Vectors /\ limit \in Fractions
    BY <1>1, VectorsAre, FractionsClosed
  <2>2. Zero \preceq One
    BY <1>1, <1>5, LessOrders
  <2>3. ASSUME NEW s \in Symbols PROVE Size(sized[s]) \preceq Size(target[s]) \otimes One
    <3>1. target[s] \in Fractions /\ sized[s] = target[s] \otimes One
      BY DEF Vectors, Scaled
    <3> HIDE DEF sized
    <3> QED BY <1>1, <2>2, <3>1, SizeTimes
  <2> HIDE DEF sized
  <2>4. Gross(sized) \preceq Gross(target) \otimes One
    BY <1>1, <2>1, <2>3, GrossScales
  <2>5. Gross(target) \in Fractions /\ Gross(sized) \in Fractions
    BY <2>1, GrossIs
  <2> DEFINE x == Gross(sized)
             y == Gross(target) \otimes One
  <2>6. x \in Fractions /\ y \in Fractions /\ x \preceq y /\ y \preceq limit
    BY <1>1, <2>2, <2>4, <2>5, TimesMonotone, FractionsClosed
  <2> HIDE DEF x, y, limit
  <2>7. x \preceq limit
    BY <2>1, <2>6, LessOrders
  <2> QED BY <2>1, <2>7 DEF x
<1>9. traded \in Vectors /\ \A s \in Symbols : Even(previous[s] \oplus traded[s], sized[s])
  <2> HIDE DEF previous, sized, limit
  <2> QED BY <1>3, <1>8, TradedReaches
<1>10. ASSUME NEW s \in Symbols PROVE Even(held[s], target[s] \otimes nav)
  <2> HIDE DEF traded
  <2>1. engine.held[s] \in Fractions /\ traded[s] \in Fractions /\ target[s] \in Fractions
    BY <1>1, <1>9 DEF Vectors
  <2>2. /\ held[s] = engine.held[s] \oplus (traded[s] \otimes nav)
        /\ previous[s] = engine.held[s] \otimes i
        /\ sized[s] = target[s] \otimes One
    BY <1>1, <1>9 DEF Vectors, Sum2, Scaled
  <2>3. Even((engine.held[s] \otimes (One \oslash nav)) \oplus traded[s], target[s] \otimes One)
    <3>1. Even(previous[s] \oplus traded[s], sized[s])
      BY <1>9
    <3> QED BY <2>2, <3>1
  <2> HIDE DEF held
  <2> QED BY <2>1, <2>2, <2>3, LegBooked
<1> HIDE DEF held, cash
<1> QED BY <1>7, <1>10 DEF Worth, booked

(* So does the vectorized one.                                             *)
LEMMA VectorReaches ==
    ASSUME setting \in Settings, Costless, NEW engine \in VectorStates, NEW nav \in Fractions,
           NEW target \in Vectors, Gross(target) \preceq setting.gross
    PROVE  LET executed == Executed(engine, nav,
                              Traded(engine.weights, target, None, setting.gross))
           IN  executed.state = "running" =>
                 /\ executed.equity = nav \otimes One
                 /\ \A s \in Symbols : Even(executed.weights[s], target[s])
<1> DEFINE traded == Traded(engine.weights, target, None, setting.gross)
           equity == nav \otimes (One \ominus Cost(traded))
           weights == Sum2(engine.weights, traded)
           executed == Executed(engine, nav, traded)
<1>1. engine.weights \in Vectors /\ setting.gross \in Fractions
  BY SettingIs DEF VectorStates
<1>2. traded \in Vectors /\ \A s \in Symbols : Even(engine.weights[s] \oplus traded[s], target[s])
  BY <1>1, TradedReaches
<1> HIDE DEF traded
<1>3. equity = nav \otimes One
  <2> DEFINE c == Cost(traded)
             z == One \ominus c
  <2>1. c \in Fractions /\ Even(c, Zero) /\ One \in Fractions /\ Zero \in Fractions
    BY <1>2, CostType, CostIsZero DEF One, Zero, Fractions
  <2> HIDE DEF c
  <2>2. Even(One, One) /\ Even(nav, nav)
    BY <2>1, EvenOrders
  <2>3. z = One \ominus Zero
    BY <2>1, <2>2, EvenComputes
  <2>4. z \in Fractions /\ Even(z, One)
    BY <2>1, <2>3, EvenUnits, FractionsClosed
  <2> HIDE DEF z
  <2>5. nav \otimes z = nav \otimes One
    BY <2>1, <2>2, <2>4, EvenComputes
  <2> QED BY <2>5 DEF z, c
<1>4. executed = IF equity \preceq Zero THEN Failed(engine, "exhausted")
                 ELSE [engine EXCEPT !.weights = weights, !.equity = equity]
  BY DEF Executed
<1>5. \A s \in Symbols : Even(weights[s], target[s])
  BY <1>1, <1>2 DEF Sum2, Vectors
<1> HIDE DEF equity, executed, weights
<1>6. CASE equity \preceq Zero
  <2>1. Failed(engine, "exhausted").state = "exhausted"
    BY DEF Failed, VectorStates
  <2> QED BY <1>4, <1>6, <2>1 DEF executed, traded
<1>7. CASE ~ (equity \preceq Zero)
  <2>1. executed.weights = weights /\ executed.equity = equity
    BY <1>4, <1>7 DEF VectorStates
  <2> QED BY <1>3, <1>5, <2>1 DEF executed, traded
<1> QED BY <1>6, <1>7

-----------------------------------------------------------------------------
(* 6. The engines have one equity.                                         *)

(* No bar before n was rebalanced; every bar from the first that was, was. *)
Untraded(n) == \A b \in 1..(n - 1) : live[b] = None
Continuous(n) == \A b, c \in 1..(n - 2) : b < c /\ live[b] # None => live[c] # None

(* The cash and the shares of a running engine are worth its equity; and   *)
(* without costs the engines have one equity, before the first trade and   *)
(* after a bar that was rebalanced in the same positions.                  *)
AgreeInv ==
    /\ event.state = "running" => Even(Worth(event), event.equity)
    /\ /\ Costless /\ Continuous(bar)
       /\ event.state = "running" /\ vector.state = "running"
       => /\ event.equity = vector.equity
          /\ Untraded(bar) => vector.weights = Flat
          /\ Untraded(bar) \/ live[bar - 1] # None => Aligned(event, vector)

LEMMA FlatIsNothing ==
    ASSUME NEW E \in Fractions
    PROVE  /\ \A s \in Symbols : Even(Flat[s], Flat[s] \otimes E)
           /\ Even(One \oplus Total(Flat), One)
<1>1. Zero \in Fractions /\ One \in Fractions /\ \A s \in Symbols : Flat[s] = Zero
  BY DEF Zero, One, Fractions, Flat
<1>2. ASSUME NEW k \in Fractions PROVE Even(Zero, Zero \otimes k)
  <2>1. Zero \otimes k \in Fractions /\ Even(Zero \otimes k, Zero)
    BY <1>1, EvenUnits, FractionsClosed
  <2> QED BY <1>1, <2>1, EvenOrders
<1>3. \A s \in Symbols : Even(Flat[s], Flat[s] \otimes E)
  BY <1>1, <1>2
<1> DEFINE T == Total(Flat)
<1>4. T \in Fractions /\ Even(T, T \otimes Zero)
  <2>1. Flat \in Vectors /\ T = AddOver(Flat, Symbols)
    BY <1>1, TotalIs DEF Vectors, Flat
  <2>2. Even(AddOver(Flat, Symbols), AddOver(Flat, Symbols) \otimes Zero)
    BY <1>1, <1>2, FiniteSymbols, AddTimes
  <2> QED BY <2>1, <2>2, GrossIs
<1> HIDE DEF T
<1>5. T \otimes Zero \in Fractions /\ Even(T \otimes Zero, Zero)
  BY <1>1, <1>4, EvenUnits, FractionsClosed
<1>6. Even(T, Zero) /\ Even(One, One)
  BY <1>1, <1>4, <1>5, EvenOrders
<1>7. One \oplus T = One \oplus Zero
  BY <1>1, <1>4, <1>6, EvenComputes
<1>8. Even(One \oplus Zero, One)
  BY <1>1, EvenUnits
<1> QED BY <1>3, <1>7, <1>8 DEF T

LEMMA InitAgree == Init => AgreeInv
<1> SUFFICES ASSUME Init PROVE AgreeInv
  OBVIOUS
<1>1. /\ event = [state |-> "running", cash |-> One, held |-> Flat, equity |-> One]
      /\ vector = [state |-> "running", weights |-> Flat, equity |-> One]
  BY DEF Init
<1>2. One \in Fractions
  BY DEF One, Fractions
<1>3. Even(Worth(event), event.equity)
  BY <1>1, <1>2, FlatIsNothing DEF Worth
<1>4. Aligned(event, vector)
  BY <1>1, <1>2, FlatIsNothing DEF Aligned
<1> QED BY <1>1, <1>3, <1>4 DEF AgreeInv

(* What the engines do over a bar, as far as they still run.               *)
LEMMA EventBarIs ==
    ASSUME setting \in Settings, NEW engine \in EventStates, NEW move \in Vectors,
           NEW target \in Vectors \cup {None}, EventBar(engine, move, target).state = "running",
           engine.state = "running"
    PROVE  LET accrued == Accrued(engine, move)
               booked == IF target = None THEN accrued
                         ELSE Rebalanced(accrued, Worth(accrued), target)
               replayed == EventBar(engine, move, target)
           IN  /\ accrued \in EventStates /\ booked \in EventStates
               /\ Worth(accrued) \in Fractions /\ Zero \prec Worth(accrued)
               /\ booked.state = "running" /\ replayed.held = booked.held
               /\ replayed.equity = Worth(booked) /\ replayed.cash = booked.cash
<1> DEFINE accrued == Accrued(engine, move)
           nav == Worth(accrued)
           booked == IF target = None THEN accrued ELSE Rebalanced(accrued, nav, target)
           worth == Worth(booked)
           replayed == EventBar(engine, move, target)
<1>1. accrued \in EventStates
  BY AccruedType
<1>2. replayed = IF nav \preceq Zero THEN Failed(accrued, "exhausted") ELSE Marked(booked)
  BY DEF EventBar, AtClose, Worth
<1> HIDE DEF accrued
<1>3. nav \in Fractions
  <2>1. accrued.cash \in Fractions /\ accrued.held \in Vectors
    BY <1>1 DEF EventStates
  <2> QED BY <2>1, GrossIs, FractionsClosed DEF Worth
<1>0. replayed.state = "running"
  OBVIOUS
<1> HIDE DEF replayed, nav
<1>4. ~ (nav \preceq Zero)
  <2>1. Failed(accrued, "exhausted").state = "exhausted"
    BY <1>1 DEF Failed, EventStates
  <2> QED BY <1>0, <1>2, <2>1
<1>5. Zero \prec nav
  BY <1>3, <1>4, LessOrders, FractionsClosed
<1>6. booked \in EventStates
  <2>1. CASE target = None
    BY <1>1, <2>1
  <2>2. CASE target # None
    <3>1. booked = Rebalanced(accrued, nav, target)
      BY <2>2
    <3> HIDE DEF booked
    <3> QED BY <1>1, <1>3, <1>5, <2>2, <3>1, RebalancedKeeps
  <2> QED BY <2>1, <2>2
<1> HIDE DEF booked
<1>7. \/ replayed = booked /\ booked.state # "running"
      \/ \E reason \in States \ {"running"} : replayed = Failed(booked, reason)
      \/ replayed = [booked EXCEPT !.equity = worth] /\ booked.state = "running"
  BY <1>2, <1>4 DEF Marked, States, Worth
<1>8. ASSUME NEW reason \in States \ {"running"} PROVE replayed # Failed(booked, reason)
  <2>1. Failed(booked, reason).state = reason
    BY <1>6 DEF Failed, EventStates
  <2> QED BY <1>0, <2>1
<1>9. replayed = [booked EXCEPT !.equity = worth] /\ booked.state = "running"
  BY <1>0, <1>7, <1>8
<1>10. /\ replayed.held = booked.held /\ replayed.equity = worth /\ replayed.cash = booked.cash
  BY <1>6, <1>9 DEF EventStates
<1> QED BY <1>1, <1>3, <1>5, <1>6, <1>9, <1>10 DEF accrued, nav, booked, replayed

LEMMA VectorBarIs ==
    ASSUME setting \in Settings, setting.capacity = None, NEW engine \in VectorStates,
           NEW move \in Vectors, NEW target \in Vectors \cup {None},
           VectorBar(engine, move, target).state = "running"
    PROVE  LET nav == engine.equity \otimes (One \oplus Segment(engine.weights, move))
               replayed == VectorBar(engine, move, target)
           IN  IF target = None
                 THEN replayed.equity = nav /\ replayed.weights = engine.weights
                 ELSE replayed = Executed(engine, nav,
                                   Traded(engine.weights, target, None, setting.gross))
<1> DEFINE nav == engine.equity \otimes (One \oplus Segment(engine.weights, move))
           traded == Traded(engine.weights, target, None, setting.gross)
           replayed == VectorBar(engine, move, target)
<1>1. replayed = IF nav \preceq Zero THEN Failed(engine, "exhausted")
                 ELSE IF target = None THEN [engine EXCEPT !.equity = nav]
                 ELSE Executed(engine, nav, traded)
  BY DEF VectorBar
<1>2. replayed.state = "running"
  OBVIOUS
<1> HIDE DEF nav, traded, replayed
<1>3. Failed(engine, "exhausted").state = "exhausted"
  BY DEF Failed, VectorStates
<1>4. ~ (nav \preceq Zero)
  BY <1>1, <1>2, <1>3
<1>5. CASE target = None
  BY <1>1, <1>4, <1>5 DEF VectorStates, nav, replayed
<1>6. CASE target # None
  BY <1>1, <1>4, <1>6 DEF nav, traded, replayed
<1> QED BY <1>5, <1>6

(* Nothing stays nothing, whatever its price does.                         *)
LEMMA IdleAligned ==
    ASSUME NEW h \in Fractions, NEW m \in Fractions, NEW E \in Fractions, NEW F \in Fractions,
           Even(h, Zero \otimes E)
    PROVE  Even(h \otimes m, Zero \otimes F)
<1>1. Zero \in Fractions
  BY DEF Zero, Fractions
<1> DEFINE z == Zero \otimes E
           y == Zero \otimes m
           x == Zero \otimes F
<1>2. /\ z \in Fractions /\ y \in Fractions /\ x \in Fractions
      /\ Even(z, Zero) /\ Even(y, Zero) /\ Even(x, Zero)
  BY <1>1, EvenUnits, FractionsClosed
<1>3. Even(h, z)
  OBVIOUS
<1> HIDE DEF z, x
<1>4. Even(h, Zero) /\ Even(m, m)
  BY <1>1, <1>2, <1>3, EvenOrders
<1>5. h \otimes m = y
  BY <1>1, <1>4, EvenComputes
<1> HIDE DEF y
<1>6. Even(Zero, x)
  BY <1>1, <1>2, EvenOrders
<1>7. Even(y, x)
  BY <1>1, <1>2, <1>6, EvenOrders
<1> QED BY <1>5, <1>7 DEF x

LEMMA SameShares ==
    ASSUME NEW h \in Fractions, NEW w \in Fractions, NEW g \in Fractions, NEW v \in Fractions,
           Even(h, g \otimes v), Even(w, g)
    PROVE  Even(h, w \otimes (v \otimes One))
<1> DEFINE u == v \otimes One
<1>1. u \in Fractions /\ Even(u, v) /\ One \in Fractions
  BY EvenUnits, FractionsClosed DEF One, Fractions
<1> HIDE DEF u
<1>2. w \otimes u = g \otimes v
  BY <1>1, EvenComputes
<1> QED BY <1>2 DEF u

(* A bar keeps the engines together.                                       *)
LEMMA ReplayAgree == ReplayInv /\ EngineInv /\ AgreeInv /\ Replay => AgreeInv'
<1> SUFFICES ASSUME ReplayInv, EngineInv, AgreeInv, Replay PROVE AgreeInv'
  OBVIOUS
<1> DEFINE target == TargetAt(decisions, bar)
           move == moves[bar]
           accrued == Accrued(event, move)
           nav == Worth(accrued)
           booked == IF target = None THEN accrued ELSE Rebalanced(accrued, nav, target)
<1>1. /\ bar \in Bars /\ bar' = bar + 1
      /\ UNCHANGED <<setting, decisions, live>>
      /\ event' = IF event.state = "running" THEN EventBar(event, move, target) ELSE event
      /\ vector' = IF vector.state = "running" THEN VectorBar(vector, move, target) ELSE vector
  BY DEF Replay
<1>2. /\ bar \in Nat \ {0} /\ bar \in 1..Len(moves) /\ Len(live) = Len(moves)
      /\ bar' - 1 = bar /\ bar' - 2 = bar - 1
  BY <1>1, BacktestAssumption DEF ReplayInv, MarketInv, Bars
<1>3. setting \in Settings /\ move \in Vectors
  BY <1>2, BacktestAssumption DEF ReplayInv, MarketInv, Vectors
<1>4. target = live[bar] /\ target \in Vectors \cup {None}
  BY <1>2 DEF ReplayInv, MarketInv, LiveInv, Vectors
<1>5. target # None => Gross(target) \preceq setting.gross
  BY <1>1, TargetKeeps
<1> HIDE DEF target, move
<1>6. event \in EventStates /\ vector \in VectorStates
  BY DEF EngineInv
<1>7. event' \in EventStates /\ vector' \in VectorStates
  <2>1. EngineInv'
    BY ReplayEngines
  <2> QED BY <2>1 DEF EngineInv
<1>8. ASSUME event'.state = "running"
      PROVE  /\ event.state = "running"
             /\ accrued \in EventStates /\ booked \in EventStates
             /\ nav \in Fractions /\ Zero \prec nav
             /\ booked.state = "running"
             /\ event'.held = booked.held /\ event'.cash = booked.cash
             /\ event'.equity = Worth(booked) /\ Worth(event') = Worth(booked)
  <2>1. event.state = "running" /\ event' = EventBar(event, move, target)
    BY <1>1, <1>8
  <2>2. /\ accrued \in EventStates /\ booked \in EventStates
        /\ nav \in Fractions /\ Zero \prec nav
        /\ booked.state = "running"
        /\ event'.held = booked.held /\ event'.cash = booked.cash
        /\ event'.equity = Worth(booked)
    BY <1>3, <1>4, <1>6, <1>8, <2>1, EventBarIs
  <2> HIDE DEF accrued, booked
  <2> QED BY <2>1, <2>2 DEF Worth
<1>9. event'.state = "running" => Even(Worth(event'), event'.equity)
  <2> SUFFICES ASSUME event'.state = "running" PROVE Even(Worth(event'), event'.equity)
    OBVIOUS
  <2>1. event'.equity \in Fractions /\ Worth(event') = event'.equity
    BY <1>7, <1>8 DEF EventStates
  <2> QED BY <2>1, EvenOrders
<1>10. ASSUME Costless, Continuous(bar'), event'.state = "running", vector'.state = "running"
       PROVE  /\ event'.equity = vector'.equity
              /\ Untraded(bar') => vector'.weights = Flat
              /\ Untraded(bar') \/ live[bar] # None => Aligned(event', vector')
  <2>1. vector.state = "running" /\ vector' = VectorBar(vector, move, target)
    BY <1>1, <1>10
  <2>2. Continuous(bar) /\ (Untraded(bar) \/ live[bar - 1] # None)
    <3>1. \A b, c \in 1..(bar - 1) : b < c /\ live[b] # None => live[c] # None
      BY <1>2, <1>10 DEF Continuous
    <3>2. Continuous(bar)
      BY <1>2, <3>1 DEF Continuous
    <3>3. ASSUME NEW b \in 1..(bar - 1), live[b] # None PROVE live[bar - 1] # None
      <4>1. bar - 1 \in 1..(bar - 1) /\ (b = bar - 1 \/ b < bar - 1)
        BY <1>2
      <4> QED BY <3>1, <3>3, <4>1
    <3> QED BY <3>2, <3>3 DEF Untraded
  <2>3. /\ event.equity = vector.equity /\ Aligned(event, vector)
        /\ Untraded(bar) => vector.weights = Flat
        /\ Even(Worth(event), event.equity)
    BY <1>8, <1>10, <2>1, <2>2 DEF AgreeInv
  <2> DEFINE N == vector.equity \otimes (One \oplus Segment(vector.weights, move))
  <2>4. nav = N
    BY <1>3, <1>6, <2>3, NavsAgree
  <2>5. setting.capacity = None
    BY <1>10 DEF Costless
  <2>6. /\ target = None => vector'.equity = nav /\ vector'.weights = vector.weights
        /\ target # None => vector' = Executed(vector, nav,
                                        Traded(vector.weights, target, None, setting.gross))
    <3> HIDE DEF nav
    <3> QED BY <1>3, <1>4, <1>6, <1>10, <2>1, <2>4, <2>5, VectorBarIs
  <2>7. CASE target = None
    <3>1. event'.equity = nav /\ event'.held = accrued.held
      BY <1>8, <1>10, <2>7
    <3>2. Untraded(bar') => Untraded(bar)
      BY <1>2 DEF Untraded
    <3>3. ASSUME Untraded(bar') PROVE Aligned(event', vector')
      <4>1. vector.weights = Flat /\ vector'.weights = Flat
        BY <2>3, <2>6, <2>7, <3>2, <3>3
      <4> SUFFICES ASSUME NEW s \in Symbols
                   PROVE  Even(event'.held[s], vector'.weights[s] \otimes event'.equity)
        BY DEF Aligned
      <4>2. Flat[s] = Zero
        BY DEF Flat
      <4>3. /\ event.held[s] \in Fractions /\ move[s] \in Fractions
            /\ event.equity \in Fractions /\ event'.equity \in Fractions
        BY <1>3, <1>6, <1>7 DEF EventStates, Vectors
      <4>4. Even(event.held[s], Zero \otimes event.equity)
        BY <2>3, <4>1, <4>2 DEF Aligned
      <4>5. event'.held[s] = event.held[s] \otimes move[s]
        BY <1>6, <3>1 DEF Accrued, EventStates
      <4>6. Even(event.held[s] \otimes move[s], Zero \otimes event'.equity)
        BY <4>3, <4>4, IdleAligned
      <4> QED BY <4>1, <4>2, <4>5, <4>6
    <3>4. live[bar] = None
      BY <1>4, <2>7
    <3> HIDE DEF nav, accrued
    <3> QED BY <2>3, <2>6, <2>7, <3>1, <3>2, <3>3, <3>4
  <2>8. CASE target # None
    <3>1. target \in Vectors /\ Gross(target) \preceq setting.gross
      BY <1>4, <1>5, <2>8
    <3>2. booked = Rebalanced(accrued, nav, target)
      BY <2>8
    <3> HIDE DEF nav, accrued, booked
    <3>3. /\ Worth(booked) = nav \otimes One
          /\ \A s \in Symbols : Even(booked.held[s], target[s] \otimes nav)
      BY <1>3, <1>8, <1>10, <3>1, <3>2, EventReaches
    <3>4. /\ vector'.equity = nav \otimes One
          /\ \A s \in Symbols : Even(vector'.weights[s], target[s])
      BY <1>3, <1>6, <1>8, <1>10, <2>6, <2>8, <3>1, VectorReaches
    <3>5. event'.equity = nav \otimes One /\ event'.held = booked.held
      BY <1>8, <1>10, <3>3
    <3>6. Aligned(event', vector')
      <4> SUFFICES ASSUME NEW s \in Symbols
                   PROVE  Even(event'.held[s], vector'.weights[s] \otimes (nav \otimes One))
        BY <3>5 DEF Aligned
      <4>1. /\ event'.held[s] \in Fractions /\ vector'.weights[s] \in Fractions
            /\ target[s] \in Fractions
        BY <1>7, <3>1 DEF EventStates, VectorStates, Vectors
      <4>2. Even(event'.held[s], target[s] \otimes nav) /\ Even(vector'.weights[s], target[s])
        BY <3>3, <3>4, <3>5
      <4> QED BY <1>8, <1>10, <4>1, <4>2, SameShares
    <3>7. ~ Untraded(bar')
      <4>1. bar \in 1..(bar' - 1) /\ live[bar] # None
        BY <1>2, <1>4, <2>8
      <4> QED BY <4>1 DEF Untraded
    <3> QED BY <3>4, <3>5, <3>6, <3>7
  <2> QED BY <2>7, <2>8
<1>11. /\ Costless' <=> Costless
       /\ Continuous(bar)' <=> Continuous(bar')
       /\ Untraded(bar)' <=> Untraded(bar')
       /\ Aligned(event, vector)' <=> Aligned(event', vector')
       /\ Worth(event)' = Worth(event') /\ live'[bar' - 1] = live[bar]
  BY <1>1, <1>2 DEF Costless, Continuous, Untraded, Aligned, Worth
<1> HIDE DEF accrued, nav, booked
<1> QED BY <1>9, <1>10, <1>11 DEF AgreeInv

LEMMA NextAgree == ReplayInv /\ EngineInv /\ AgreeInv /\ [Next]_vars => AgreeInv'
<1> SUFFICES ASSUME ReplayInv, EngineInv, AgreeInv, [Next]_vars PROVE AgreeInv'
  OBVIOUS
<1>1. CASE CloseBar \/ Wait \/ Decide \/ Submit
  <2>1. bar = 0 /\ bar' \in {0, 1} /\ UNCHANGED <<setting, event, vector>>
    BY <1>1 DEF CloseBar, Wait, Decide, Submit
  <2>2. Continuous(bar) /\ Untraded(bar)
    BY <2>1 DEF Continuous, Untraded
  <2>3. /\ Costless' <=> Costless /\ Worth(event)' = Worth(event)
        /\ Aligned(event, vector)' <=> Aligned(event, vector)
    BY <2>1 DEF Costless, Worth, Aligned
  <2> QED BY <2>1, <2>2, <2>3 DEF AgreeInv
<1>2. CASE Replay
  BY <1>2, ReplayAgree
<1>3. CASE UNCHANGED vars
  <2>1. UNCHANGED <<setting, live, bar, event, vector>>
    BY <1>3 DEF vars
  <2> QED BY <2>1 DEF AgreeInv, Costless, Worth, Aligned, Continuous, Untraded
<1> QED BY <1>1, <1>2, <1>3 DEF Next

(* Without costs, caps and concessions the two engines have the same       *)
(* equity, exactly, as long as every bar since the first trade was         *)
(* rebalanced: cash and shares, and weights, are two accounts of one book. *)
THEOREM EnginesHaveOneEquity == Spec => []EnginesAgree
<1>1. Init => ReplayInv /\ EngineInv /\ AgreeInv
  BY InitReplay, InitEngines, InitAgree
<1>2. ReplayInv /\ EngineInv /\ AgreeInv /\ [Next]_vars => (ReplayInv /\ EngineInv /\ AgreeInv)'
  BY NextReplay, NextEngines, NextAgree
<1>3. AgreeInv => EnginesAgree
  BY DEF AgreeInv, EnginesAgree, Costless, Continuous
<1> QED BY <1>1, <1>2, <1>3, PTL DEF Spec
-----------------------------------------------------------------------------
(* 7. The equity after costs.                                              *)

(* What PostCost is built from, by name.                                   *)
Over(f, S) == Total([s \in S |-> f[s]])
Left(f, S) ==
    One \oplus (setting.buy \otimes Over(f, S) \ominus setting.sell \otimes Over(f, Symbols \ S))
Solution(previous, target, S) == Left(previous, S) \oslash Left(target, S)
Consistent(previous, target, S) ==
    LET q == Solution(previous, target, S)
    IN /\ Zero \prec Left(target, S) /\ Zero \prec q
       /\ \A s \in Symbols :
             IF s \in S THEN previous[s] \preceq (target[s] \otimes q)
             ELSE (target[s] \otimes q) \prec previous[s]

(* What a trade of one costs in each symbol: a rate when it is bought, and *)
(* less than nothing when it is sold.                                      *)
Rate(S) == [s \in Symbols |-> IF s \in S THEN setting.buy ELSE Negative(setting.sell)]
Legs(f, S) == AddOver([s \in Symbols |-> f[s] \otimes Rate(S)[s]], Symbols)

LEMMA PostCostIs ==
    ASSUME NEW previous, NEW target
    PROVE  LET consistent == {S \in SUBSET Symbols : Consistent(previous, target, S)}
           IN  PostCost(previous, target)
                 = IF consistent = {} THEN Zero
                   ELSE Solution(previous, target, CHOOSE S \in consistent : TRUE)
BY DEF PostCost, Over, Left, Solution, Consistent

LEMMA MinusIsPlus ==
    ASSUME NEW x \in Fractions, NEW b \in Fractions, NEW k \in Fractions
    PROVE  x \ominus (k \otimes b) = x \oplus (b \otimes Negative(k))
<1>1. PICK d \in Nat \ {0}, n, m, l, o \in Int : Is(x, n, d) /\ Is(b, m, d) /\ Is(k, l, d)
  BY CommonFour
<1>2. Is(Negative(k), -l, d)
  BY <1>1, NegativeIs
<1>3. Is(k \otimes b, l * m, d * d) /\ Is(b \otimes Negative(k), m * (-l), d * d)
  BY <1>1, <1>2, TimesIs
<1>4. Is(x, n * d, d * d)
  BY <1>1, IsScaled
<1> DEFINE y == x \ominus (k \otimes b)
           z == x \oplus (b \otimes Negative(k))
<1>5. Is(y, n * d - l * m, d * d) /\ Lowest(y)
  BY <1>3, <1>4, PlusIs
<1>6. Is(z, n * d + m * (-l), d * d) /\ Lowest(z)
  BY <1>3, <1>4, PlusIs
<1>7. n * d - l * m = n * d + m * (-l)
  <2>1. n * d \in Int /\ l * m \in Int /\ m * (-l) = -(l * m)
    OBVIOUS
  <2> QED BY <2>1
<1> HIDE DEF y, z
<1>8. y = z
  BY <1>5, <1>6, <1>7, LowestSame
<1> QED BY <1>8 DEF y, z

LEMMA RateIs ==
    ASSUME setting \in Settings, NEW S \in SUBSET Symbols, NEW f \in Vectors
    PROVE  /\ Rate(S) \in Vectors
           /\ \A s \in Symbols : Rate(S)[s] \in Fractions /\ f[s] \otimes Rate(S)[s] \in Fractions
           /\ Legs(f, S) \in Fractions
<1>1. \A s \in Symbols : Rate(S)[s] \in Fractions
  BY SettingIs, FractionsClosed DEF Rate
<1>2. \A s \in Symbols : f[s] \otimes Rate(S)[s] \in Fractions
  BY <1>1, FractionsClosed DEF Vectors
<1> DEFINE w == [s \in Symbols |-> f[s] \otimes Rate(S)[s]]
<1>3. \A s \in Symbols : w[s] \in Fractions
  BY <1>2
<1>4. Legs(f, S) = AddOver(w, Symbols)
  BY DEF Legs
<1> HIDE DEF w
<1>5. Legs(f, S) \in Fractions
  BY <1>3, <1>4, FiniteSymbols, AddType
<1>6. Rate(S) \in Vectors
  BY <1>1 DEF Vectors, Rate
<1> QED BY <1>1, <1>2, <1>5, <1>6

(* One less the costs of a vector of trades, leg by leg.                   *)
LEMMA LeftIs ==
    ASSUME setting \in Settings, NEW S \in SUBSET Symbols, NEW f \in Vectors
    PROVE  Left(f, S) \in Fractions /\ Left(f, S) = One \oplus Legs(f, S)
<1> DEFINE R == Symbols \ S
           fS == [s \in S |-> f[s]]
           fR == [s \in R |-> f[s]]
           w == [s \in Symbols |-> f[s] \otimes Rate(S)[s]]
           buy == setting.buy
           loss == Negative(setting.sell)
<1>1. /\ buy \in Fractions /\ setting.sell \in Fractions /\ loss \in Fractions
      /\ One \in Fractions
  BY SettingIs, FractionsClosed
<1>2. \A s \in Symbols : w[s] \in Fractions /\ f[s] \in Fractions
  BY RateIs DEF Vectors
<1>3. IsFiniteSet(S) /\ IsFiniteSet(R) /\ S \subseteq Symbols /\ R \subseteq Symbols
  BY FiniteSymbols, FS_Subset
<1> DEFINE A == AddOver(fS, S)
           B == AddOver(fR, R)
           X == AddOver(w, S)
           Y == AddOver(w, R)
<1>4. Over(f, S) = A /\ Over(f, R) = B
  <2>1. DOMAIN fS = S /\ DOMAIN fR = R
    OBVIOUS
  <2> HIDE DEF R
  <2> QED BY <2>1, TotalIs DEF Over
<1>5. A \in Fractions /\ B \in Fractions /\ X \in Fractions /\ Y \in Fractions
  <2>1. (\A s \in S : fS[s] \in Fractions /\ w[s] \in Fractions)
        /\ (\A s \in R : fR[s] \in Fractions /\ w[s] \in Fractions)
    BY <1>2
  <2> HIDE DEF w, fS, fR, R
  <2> QED BY <1>3, <2>1, AddType
<1>6. Even(X, A \otimes buy)
  <2>1. \A s \in S : /\ w[s] \in Fractions /\ fS[s] \in Fractions
                     /\ w[s] = fS[s] \otimes buy
    BY <1>2, RateIs DEF Rate
  <2>2. \A s \in S : Even(w[s], fS[s] \otimes buy)
    <3> HIDE DEF w, fS
    <3> QED BY <2>1, EvenOrders
  <2> HIDE DEF w, fS, buy
  <2> QED BY <1>1, <1>3, <2>1, <2>2, AddTimes
<1>7. Even(Y, B \otimes loss)
  <2>1. \A s \in R : /\ w[s] \in Fractions /\ fR[s] \in Fractions
                     /\ w[s] = fR[s] \otimes loss
    BY <1>2, RateIs DEF Rate
  <2>2. \A s \in R : Even(w[s], fR[s] \otimes loss)
    <3> HIDE DEF w, fR
    <3> QED BY <2>1, EvenOrders
  <2> HIDE DEF w, fR, loss, R
  <2> QED BY <1>1, <1>3, <2>1, <2>2, AddTimes
<1>8. Even(Legs(f, S), X \oplus Y)
  <2>1. Legs(f, S) = AddOver(w, Symbols)
    BY DEF Legs
  <2> HIDE DEF w
  <2> QED BY <1>2, <2>1, FiniteSymbols, AddUnion
<1>9. Left(f, S) = One \oplus ((buy \otimes A) \ominus (setting.sell \otimes B))
  BY <1>4 DEF Left
<1> HIDE DEF A, B, X, Y, loss
<1>10. buy \otimes A = A \otimes buy /\ A \otimes buy \in Fractions /\ B \otimes loss \in Fractions
  BY <1>1, <1>5, TimesCommutes, FractionsClosed
<1>11. (A \otimes buy) \ominus (setting.sell \otimes B) = (A \otimes buy) \oplus (B \otimes loss)
  BY <1>1, <1>5, <1>10, MinusIsPlus DEF loss
<1>12. X \oplus Y = (A \otimes buy) \oplus (B \otimes loss)
  BY <1>5, <1>6, <1>7, <1>10, EvenComputes
<1>13. Legs(f, S) \in Fractions /\ X \oplus Y \in Fractions
  BY <1>5, RateIs, FractionsClosed
<1>14. Even(One, One)
  BY <1>1, EvenOrders
<1>15. One \oplus Legs(f, S) = One \oplus (X \oplus Y)
  BY <1>1, <1>8, <1>13, <1>14, EvenComputes
<1>16. Left(f, S) = One \oplus (X \oplus Y)
  BY <1>9, <1>10, <1>11, <1>12
<1>17. One \oplus (X \oplus Y) \in Fractions
  BY <1>1, <1>13, FractionsClosed
<1> QED BY <1>15, <1>16, <1>17

LEMMA RatesAre ==
    ASSUME setting \in Settings
    PROVE  /\ Zero \preceq setting.buy /\ Zero \preceq setting.sell /\ setting.sell \prec One
           /\ Zero \preceq setting.slip /\ Negative(One) \prec setting.yield
           /\ Negative(setting.sell) \preceq Zero
           /\ Negative(setting.sell) \preceq setting.buy
<1>1. /\ Zero \preceq setting.buy /\ Zero \preceq setting.sell /\ setting.sell \prec One
      /\ Zero \preceq setting.slip /\ Negative(One) \prec setting.yield
  BY RatesAssumption
<1>2. PICK d \in Nat \ {0}, n, m, l, o \in Int : Is(setting.buy, n, d) /\ Is(setting.sell, m, d)
  BY SettingIs, CommonFour
<1>3. Is(Negative(setting.sell), -m, d) /\ Is(Zero, 0, d)
  BY <1>2, NegativeIs, UnitsAre
<1>4. 0 <= n /\ 0 <= m
  BY <1>1, <1>2, <1>3, LessIs
<1>5. -m <= 0 /\ -m <= n
  BY <1>4
<1> QED BY <1>1, <1>2, <1>3, <1>5, LessIs

LEMMA TimesReverses ==
    ASSUME NEW a \in Fractions, NEW b \in Fractions, NEW k \in Fractions, a \preceq b
    PROVE  /\ Zero \preceq k => k \otimes a \preceq k \otimes b
           /\ k \preceq Zero => k \otimes b \preceq k \otimes a
<1>1. PICK d \in Nat \ {0}, n, m, l, o \in Int : Is(a, n, d) /\ Is(b, m, d) /\ Is(k, l, d)
  BY CommonFour
<1>2. Is(Zero, 0, d) /\ Is(k \otimes a, l * n, d * d) /\ Is(k \otimes b, l * m, d * d)
  BY <1>1, UnitsAre, TimesIs
<1>3. n <= m /\ (Zero \preceq k <=> 0 <= l) /\ (k \preceq Zero <=> l <= 0)
  BY <1>1, <1>2, LessIs
<1>4. 0 <= l => l * n <= l * m
  BY <1>3
<1>5. l <= 0 => l * m <= l * n
  BY <1>3
<1> QED BY <1>2, <1>3, <1>4, <1>5, LessIs

(* Costs below 100% leave some of it.                                      *)
LEMMA LeavesSome ==
    ASSUME NEW T \in Fractions, NEW k \in Fractions, NEW L \in Fractions,
           T \preceq One, Zero \preceq k, k \prec One, T \otimes Negative(k) \preceq L
    PROVE  Zero \prec One \oplus L
<1>1. PICK d \in Nat \ {0}, t, m, l, o \in Int : Is(T, t, d) /\ Is(k, m, d) /\ Is(L, l, d)
  BY CommonFour
<1>2. Is(Negative(k), -m, d) /\ Is(Zero, 0, d) /\ Is(One, d, d)
  BY <1>1, NegativeIs, UnitsAre
<1>3. Is(T \otimes Negative(k), t * (-m), d * d) /\ Is(L, l * d, d * d)
  BY <1>1, <1>2, TimesIs, IsScaled
<1>4. Is(One \oplus L, d + l, d)
  BY <1>1, <1>2, PlusIs
<1>5. t <= d /\ 0 <= m /\ m < d
  BY <1>1, <1>2, LessIs
<1>6. t * (-m) <= l * d
  BY <1>3, LessIs
<1>7. t * m <= d * m /\ t * (-m) = -(t * m) /\ d * m = m * d /\ t * m \in Int
  BY <1>5
<1>8. (-m) * d = -(m * d) /\ m * d \in Int /\ l * d \in Int
  BY <1>1
<1>9. (-m) * d <= l * d
  BY <1>6, <1>7, <1>8
<1>10. -m <= l
  BY <1>9, Scales
<1>11. 0 < d + l
  BY <1>5, <1>10
<1> QED BY <1>2, <1>4, <1>11, LessIs

Long(f) == f \in Vectors /\ (\A s \in Symbols : Zero \preceq f[s]) /\ Total(f) \preceq One

LEMMA LeftPositive ==
    ASSUME setting \in Settings, NEW S \in SUBSET Symbols, NEW f, Long(f)
    PROVE  Zero \prec Left(f, S)
<1> DEFINE loss == Negative(setting.sell)
           v == [s \in Symbols |-> f[s] \otimes loss]
           w == [s \in Symbols |-> f[s] \otimes Rate(S)[s]]
<1>1. /\ loss \in Fractions /\ setting.sell \in Fractions /\ setting.buy \in Fractions
      /\ Zero \in Fractions
  BY SettingIs, FractionsClosed
<1>2. f \in Vectors /\ DOMAIN f = Symbols /\ Total(f) \in Fractions
  BY GrossIs DEF Long, Vectors
<1>3. ASSUME NEW s \in Symbols
      PROVE  v[s] \in Fractions /\ w[s] \in Fractions /\ v[s] \preceq w[s]
  <2>1. f[s] \in Fractions /\ Zero \preceq f[s] /\ Rate(S)[s] \in Fractions
    BY <1>2, RateIs DEF Long, Vectors
  <2>2. loss \preceq Rate(S)[s]
    <3>1. Rate(S)[s] = setting.buy \/ Rate(S)[s] = loss
      BY DEF Rate
    <3>2. loss \preceq setting.buy /\ loss \preceq loss
      BY <1>1, RatesAre, LessOrders
    <3> QED BY <3>1, <3>2
  <2>3. v[s] = f[s] \otimes loss /\ w[s] = f[s] \otimes Rate(S)[s]
    OBVIOUS
  <2> DEFINE a == f[s]
             r == Rate(S)[s]
  <2>4. /\ a \in Fractions /\ Zero \preceq a /\ r \in Fractions /\ loss \preceq r
        /\ v[s] = a \otimes loss /\ w[s] = a \otimes r
    BY <2>1, <2>2, <2>3
  <2> HIDE DEF v, w, loss, a, r
  <2>5. a \otimes loss \in Fractions /\ a \otimes r \in Fractions
    BY <1>1, <2>4, FractionsClosed
  <2>6. a \otimes loss \preceq a \otimes r
    BY <1>1, <2>4, TimesReverses
  <2> QED BY <2>4, <2>5, <2>6
<1>4. \A s \in Symbols : f[s] \in Fractions /\ v[s] = f[s] \otimes loss
  BY <1>2 DEF Vectors
<1>5. Legs(f, S) = AddOver(w, Symbols)
  BY DEF Legs
<1> HIDE DEF v, w, loss
<1> DEFINE T == Total(f)
           V == AddOver(v, Symbols)
           L == Legs(f, S)
<1>6. V \preceq L /\ V \in Fractions /\ L \in Fractions
  BY <1>3, <1>5, FiniteSymbols, AddLess, AddType
<1>7. Even(V, T \otimes loss)
  <2>1. \A s \in Symbols : Even(v[s], f[s] \otimes loss)
    BY <1>3, <1>4, EvenOrders
  <2>2. T = AddOver(f, Symbols)
    BY <1>2, TotalIs
  <2> QED BY <1>1, <1>3, <1>4, <2>1, <2>2, FiniteSymbols, AddTimes
<1>8. T \in Fractions /\ T \preceq One
  BY <1>2 DEF Long
<1>9. Left(f, S) = One \oplus L
  BY <1>2, LeftIs
<1> HIDE DEF T, V, L
<1>10. T \otimes loss \in Fractions
  BY <1>1, <1>8, FractionsClosed
<1>11. T \otimes loss \preceq L
  BY <1>6, <1>7, <1>10, LessOrders DEF Even
<1> QED BY <1>1, <1>6, <1>8, <1>9, <1>11, RatesAre, LeavesSome DEF loss

(* What is missing from the positions after the trade.                     *)
Gap(p, t, q) == [s \in Symbols |-> (t[s] \otimes q) \ominus p[s]]

LEMMA LegSplits ==
    ASSUME NEW t \in Fractions, NEW p \in Fractions, NEW q \in Fractions, NEW r \in Fractions
    PROVE  Even((t \otimes r) \otimes q,
                (((t \otimes q) \ominus p) \otimes r) \oplus ((p \otimes r) \otimes One))
<1>1. PICK d \in Nat \ {0}, n, m, l, o \in Int :
        Is(t, n, d) /\ Is(p, m, d) /\ Is(q, l, d) /\ Is(r, o, d)
  BY CommonFour
<1>2. Is(t \otimes r, n * o, d * d) /\ Is(t \otimes q, n * l, d * d) /\ Is(p \otimes r, m * o, d * d)
      /\ Is(p, m * d, d * d) /\ Is(One, d, d)
  BY <1>1, TimesIs, IsScaled, UnitsAre
<1>3. Is((t \otimes q) \ominus p, n * l - m * d, d * d)
  BY <1>2, PlusIs
<1>4. /\ Is((t \otimes r) \otimes q, (n * o) * l, (d * d) * d)
      /\ Is(((t \otimes q) \ominus p) \otimes r, (n * l - m * d) * o, (d * d) * d)
      /\ Is((p \otimes r) \otimes One, (m * o) * d, (d * d) * d)
  BY <1>1, <1>2, <1>3, TimesIs
<1>5. Is((((t \otimes q) \ominus p) \otimes r) \oplus ((p \otimes r) \otimes One),
         (n * l - m * d) * o + (m * o) * d, (d * d) * d)
  BY <1>4, PlusIs
<1>6. (n * l - m * d) * o + (m * o) * d = (n * o) * l
  <2>1. (n * l - m * d) * o = (n * l) * o - (m * d) * o
    BY Distributes
  <2>2. (n * l) * o = (n * o) * l /\ (m * d) * o = (m * o) * d
    BY Regroups
  <2>3. (n * o) * l \in Int /\ (m * o) * d \in Int
    OBVIOUS
  <2> QED BY <2>1, <2>2, <2>3
<1>7. (n * o) * l <= (n * o) * l
  OBVIOUS
<1> QED BY <1>4, <1>5, <1>6, <1>7, LessIs DEF Even

LEMMA LegsBalance ==
    ASSUME setting \in Settings, NEW S \in SUBSET Symbols, NEW p \in Vectors, NEW t \in Vectors,
           NEW q \in Fractions
    PROVE  /\ Gap(p, t, q) \in Vectors
           /\ Even(Legs(t, S) \otimes q, Legs(Gap(p, t, q), S) \oplus (Legs(p, S) \otimes One))
<1>1. \A s \in Symbols : /\ t[s] \in Fractions /\ p[s] \in Fractions /\ t[s] \otimes q \in Fractions
                         /\ (t[s] \otimes q) \ominus p[s] \in Fractions
  BY FractionsClosed DEF Vectors
<1>2. Gap(p, t, q) \in Vectors
  BY <1>1 DEF Gap, Vectors
<1> DEFINE r == Rate(S)
           tr == [s \in Symbols |-> t[s] \otimes r[s]]
           gr == [s \in Symbols |-> Gap(p, t, q)[s] \otimes r[s]]
           pr == [s \in Symbols |-> p[s] \otimes r[s]]
           h == [s \in Symbols |-> tr[s] \otimes q]
<1>3. \A s \in Symbols : /\ r[s] \in Fractions /\ tr[s] \in Fractions /\ gr[s] \in Fractions
                         /\ pr[s] \in Fractions
  BY <1>2, RateIs
<1>4. \A s \in Symbols : h[s] = tr[s] \otimes q /\ h[s] \in Fractions /\ Even(h[s], tr[s] \otimes q)
  <2> SUFFICES ASSUME NEW s \in Symbols
               PROVE  /\ h[s] = tr[s] \otimes q /\ h[s] \in Fractions
                      /\ Even(h[s], tr[s] \otimes q)
    OBVIOUS
  <2> DEFINE a == tr[s]
             b == h[s]
  <2>1. a \in Fractions /\ b = a \otimes q
    BY <1>3
  <2> HIDE DEF h, tr, a, b
  <2>2. b \in Fractions
    BY <2>1, FractionsClosed
  <2>3. Even(b, b)
    BY <2>2, EvenOrders
  <2> QED BY <2>1, <2>2, <2>3 DEF a, b
<1>5. \A s \in Symbols : Even(h[s], gr[s] \oplus (pr[s] \otimes One))
  <2>1. \A s \in Symbols : /\ tr[s] = t[s] \otimes r[s] /\ pr[s] = p[s] \otimes r[s]
                           /\ gr[s] = ((t[s] \otimes q) \ominus p[s]) \otimes r[s]
    BY DEF Gap
  <2> HIDE DEF h, tr, gr, pr, r
  <2> QED BY <1>1, <1>3, <1>4, <2>1, LegSplits
<1>6. /\ Legs(t, S) = AddOver(tr, Symbols) /\ Legs(Gap(p, t, q), S) = AddOver(gr, Symbols)
      /\ Legs(p, S) = AddOver(pr, Symbols)
  BY DEF Legs
<1> HIDE DEF h, tr, gr, pr, r
<1>7. One \in Fractions
  BY DEF One, Fractions
<1> DEFINE H == AddOver(h, Symbols)
           X == AddOver(tr, Symbols) \otimes q
           Y == AddOver(gr, Symbols) \oplus (AddOver(pr, Symbols) \otimes One)
<1>8. Even(H, X) /\ Even(H, Y)
  <2>1. Even(H, X)
    BY <1>3, <1>4, FiniteSymbols, AddTimes
  <2>2. Even(H, Y)
    BY <1>3, <1>4, <1>5, <1>7, FiniteSymbols, AddLinear
  <2> QED BY <2>1, <2>2
<1>9. H \in Fractions /\ X \in Fractions /\ Y \in Fractions
  <2> DEFINE a == AddOver(tr, Symbols)
             b == AddOver(gr, Symbols)
             c == AddOver(pr, Symbols)
  <2>1. H \in Fractions /\ a \in Fractions /\ b \in Fractions /\ c \in Fractions
    BY <1>3, <1>4, FiniteSymbols, AddType
  <2> HIDE DEF a, b, c
  <2>2. a \otimes q \in Fractions /\ b \oplus (c \otimes One) \in Fractions
    BY <1>7, <2>1, FractionsClosed
  <2> QED BY <2>1, <2>2 DEF a, b, c
<1> HIDE DEF H, X, Y
<1>10. Even(X, Y)
  BY <1>8, <1>9, EvenOrders
<1> QED BY <1>2, <1>6, <1>10 DEF X, Y

(* A quotient solves a linear equation, and compares as it does.           *)
LEMMA SolvesLine ==
    ASSUME NEW T \in Fractions, NEW P \in Fractions, NEW G \in Fractions, NEW q \in Fractions,
           Even(T \otimes q, G \oplus (P \otimes One)), Zero \prec One \oplus T
    PROVE  LET x == (One \oplus P) \oslash (One \oplus T)
           IN  /\ x \in Fractions /\ Lowest(x)
               /\ x \preceq q <=> One \preceq q \oplus G
               /\ q \preceq x <=> q \oplus G \preceq One
               /\ Zero \prec One \oplus P => Zero \prec x
<1> DEFINE x == (One \oplus P) \oslash (One \oplus T)
<1>1. PICK d \in Nat \ {0}, t, p, g, k \in Int :
        Is(T, t, d) /\ Is(P, p, d) /\ Is(G, g, d) /\ Is(q, k, d)
  BY CommonFour
<1>2. Is(One, d, d) /\ Is(Zero, 0, d) /\ One \in Fractions
  BY <1>1, UnitsAre DEF Is
<1>3. Is(One \oplus P, d + p, d) /\ Is(One \oplus T, d + t, d)
  BY <1>1, <1>2, PlusIs
<1> DEFINE e == d + t
           n == d + p
<1>4. e \in Nat \ {0} /\ n \in Int /\ Is(Inverted(One \oplus T), d, e)
  <2>1. Is(One \oplus T, e, d)
    BY <1>3
  <2> HIDE DEF e
  <2> QED BY <1>1, <2>1, InvertedIs
<1>5. Is(x, n * d, d * e) /\ Lowest(x)
  BY <1>3, <1>4, TimesIs DEF \oslash
<1>6. Is(q, k * e, d * e)
  BY <1>1, <1>4, IsScaled
<1>7. Is(q \oplus G, k + g, d)
  BY <1>1, PlusIs
<1>8. t * k = g * d + p * d
  <2>1. Is(P \otimes One, p * d, d * d) /\ Is(G, g * d, d * d) /\ Is(T \otimes q, t * k, d * d)
    BY <1>1, <1>2, TimesIs, IsScaled
  <2>2. Is(G \oplus (P \otimes One), g * d + p * d, d * d)
    BY <2>1, PlusIs
  <2>3. t * k <= g * d + p * d /\ g * d + p * d <= t * k
    BY <2>1, <2>2, LessIs DEF Even
  <2>4. t * k \in Int /\ g * d + p * d \in Int
    BY <1>1
  <2> QED BY <2>3, <2>4
<1>9. /\ n * d <= k * e <=> d <= k + g
      /\ k * e <= n * d <=> k + g <= d
  <2>1. k * e = k * d + t * k /\ n * d = d * d + p * d
    <3>1. k * (d + t) = k * d + t * k /\ (d + p) * d = d * d + p * d
      BY <1>1
    <3> QED BY <3>1
  <2>2. (k + g) * d = k * d + g * d
    BY <1>1, Distributes
  <2> DEFINE a == k * d
             b == g * d
             c == p * d
             f == d * d
             u == (k + g) * d
  <2>3. a \in Int /\ b \in Int /\ c \in Int /\ f \in Int
    BY <1>1
  <2>4. k * e = a + (b + c) /\ n * d = f + c /\ u = a + b
    BY <1>8, <2>1, <2>2
  <2>5. (d <= k + g <=> f <= u) /\ (k + g <= d <=> u <= f)
    BY <1>1, Scales
  <2> HIDE DEF a, b, c, f, u, e, n
  <2> QED BY <2>3, <2>4, <2>5
<1>10. Is(Zero, 0, d * e)
  <2>1. d * e \in Nat \ {0}
    BY <1>1, <1>4, NatTimes
  <2> QED BY <2>1, UnitsAre
<1>11. Zero \prec One \oplus P => Zero \prec x
  <2>1. Zero \prec One \oplus P <=> 0 < n
    BY <1>2, <1>3, LessIs
  <2>2. Zero \prec x <=> 0 < n * d
    BY <1>5, <1>10, LessIs
  <2>3. 0 < n => n * d \in Nat \ {0}
    BY <1>1, <1>4, NatTimes
  <2> HIDE DEF n, x
  <2> QED BY <2>1, <2>2, <2>3
<1>12. /\ x \preceq q <=> n * d <= k * e
       /\ q \preceq x <=> k * e <= n * d
  BY <1>5, <1>6, LessIs
<1>13. /\ One \preceq q \oplus G <=> d <= k + g
       /\ q \oplus G \preceq One <=> k + g <= d
  BY <1>2, <1>7, LessIs
<1>14. x \in Fractions
  BY <1>5 DEF Is
<1> HIDE DEF x, n, e
<1> QED BY <1>5, <1>9, <1>11, <1>12, <1>13, <1>14 DEF x

(* The equity after costs solves its equation, for every part of the       *)
(* symbols that may be bought.                                             *)
LEMMA SolutionIs ==
    ASSUME setting \in Settings, NEW S \in SUBSET Symbols, NEW p, NEW t, Long(p), Long(t),
           NEW q \in Fractions
    PROVE  LET x == Solution(p, t, S)
               G == Legs(Gap(p, t, q), S)
           IN  /\ x \in Fractions /\ Lowest(x) /\ Zero \prec x
               /\ x \preceq q <=> One \preceq q \oplus G
               /\ q \preceq x <=> q \oplus G \preceq One
<1> DEFINE T == Legs(t, S)
           P == Legs(p, S)
           G == Legs(Gap(p, t, q), S)
<1>1. p \in Vectors /\ t \in Vectors
  BY DEF Long
<1>2. Gap(p, t, q) \in Vectors /\ Even(T \otimes q, G \oplus (P \otimes One))
  BY <1>1, LegsBalance
<1>3. T \in Fractions /\ P \in Fractions /\ G \in Fractions
  BY <1>1, <1>2, RateIs
<1>4. Left(t, S) = One \oplus T /\ Left(p, S) = One \oplus P
  BY <1>1, LeftIs
<1>5. Zero \prec One \oplus T /\ Zero \prec One \oplus P
  BY <1>4, LeftPositive
<1> HIDE DEF T, P, G
<1>6. LET x == (One \oplus P) \oslash (One \oplus T)
      IN  /\ x \in Fractions /\ Lowest(x) /\ Zero \prec x
          /\ x \preceq q <=> One \preceq q \oplus G
          /\ q \preceq x <=> q \oplus G \preceq One
  BY <1>2, <1>3, <1>5, SolvesLine
<1> QED BY <1>4, <1>6 DEF Solution, G

(* It exists: of the solutions for the parts of the symbols, the least is  *)
(* the one for the symbols that trading to it buys.                        *)
LEMMA PostCostExists ==
    ASSUME setting \in Settings, NEW p, NEW t, Long(p), Long(t)
    PROVE  \E S \in SUBSET Symbols : Consistent(p, t, S)
<1> DEFINE val == [S \in SUBSET Symbols |-> Solution(p, t, S)]
<1>0. p \in Vectors /\ t \in Vectors
  BY DEF Long
<1>1. \A S \in SUBSET Symbols : val[S] \in Fractions /\ val[S] = Solution(p, t, S)
  BY SolutionIs DEF Zero, Fractions
<1>2. IsFiniteSet(SUBSET Symbols) /\ SUBSET Symbols # {}
  BY FiniteSymbols, FS_SUBSET
<1> HIDE DEF val
<1>3. PICK A \in SUBSET Symbols : \A S \in SUBSET Symbols : val[A] \preceq val[S]
  BY <1>1, <1>2, LeastExists
<1> DEFINE q == Solution(p, t, A)
           B == {s \in Symbols : p[s] \preceq (t[s] \otimes q)}
           g == Gap(p, t, q)
           a == [s \in Symbols |-> g[s] \otimes Rate(A)[s]]
           b == [s \in Symbols |-> g[s] \otimes Rate(B)[s]]
<1>4. q \in Fractions /\ Lowest(q) /\ q \preceq Solution(p, t, B) /\ B \in SUBSET Symbols
  <2>1. B \in SUBSET Symbols
    OBVIOUS
  <2> HIDE DEF B
  <2>2. q \in Fractions /\ Lowest(q)
    BY SolutionIs DEF Zero, Fractions
  <2> QED BY <1>1, <1>3, <2>1, <2>2
<1>5. \A s \in Symbols : /\ p[s] \in Fractions /\ t[s] \in Fractions
                         /\ t[s] \otimes q \in Fractions
  <2> HIDE DEF q
  <2> QED BY <1>0, <1>4, FractionsClosed DEF Vectors
<1>6. g \in Vectors
  <2> HIDE DEF q
  <2> QED BY <1>0, <1>4, LegsBalance
<1>7. ASSUME NEW s \in Symbols
      PROVE  a[s] \in Fractions /\ b[s] \in Fractions /\ a[s] \preceq b[s]
  <2> DEFINE buy == setting.buy
             loss == Negative(setting.sell)
             h == g[s]
             i == Rate(A)[s]
             j == Rate(B)[s]
  <2>1. /\ h \in Fractions /\ buy \in Fractions /\ loss \in Fractions
        /\ i \in {buy, loss} /\ j \in {buy, loss}
    <3>1. setting.sell \in Fractions
      BY SettingIs
    <3> HIDE DEF g
    <3> QED BY <1>6, <3>1, SettingIs, FractionsClosed DEF Rate, Vectors
  <2>2. loss \preceq buy
    BY RatesAre
  <2>3. CASE s \in B
    <3>1. j = buy /\ p[s] \preceq (t[s] \otimes q)
      BY <2>3 DEF Rate
    <3>2. Zero \preceq h
      <4>1. h = (t[s] \otimes q) \ominus p[s]
        BY DEF Gap
      <4> DEFINE u == t[s] \otimes q
                 v == p[s]
      <4>2. u \in Fractions /\ v \in Fractions /\ h = u \ominus v /\ v \preceq u
        BY <1>5, <3>1, <4>1
      <4> HIDE DEF u, v, h
      <4>3. h \in Fractions /\ ~ (h \prec Zero) /\ Zero \in Fractions
        BY <4>2, MinusSign, LessOrders DEF Zero, Fractions
      <4> QED BY <4>3, LessOrders
    <3> HIDE DEF buy, loss, h, i, j, g, B, q
    <3>3. i \preceq j
      BY <2>1, <2>2, <3>1, LessOrders
    <3>4. i \in Fractions /\ j \in Fractions
      BY <2>1
    <3>5. h \otimes i \in Fractions /\ h \otimes j \in Fractions /\ h \otimes i \preceq h \otimes j
      BY <2>1, <3>2, <3>3, <3>4, TimesReverses, FractionsClosed
    <3> QED BY <3>5 DEF h, i, j
  <2>4. CASE s \notin B
    <3>1. j = loss /\ ~ (p[s] \preceq (t[s] \otimes q))
      BY <2>4 DEF Rate
    <3>2. h \preceq Zero
      <4>1. h = (t[s] \otimes q) \ominus p[s]
        BY DEF Gap
      <4> DEFINE u == t[s] \otimes q
                 v == p[s]
      <4>2. u \in Fractions /\ v \in Fractions /\ h = u \ominus v /\ ~ (v \preceq u)
        BY <1>5, <3>1, <4>1
      <4> HIDE DEF u, v, h
      <4>3. h \in Fractions /\ h \prec Zero /\ Zero \in Fractions
        BY <4>2, MinusSign, LessOrders DEF Zero, Fractions
      <4> QED BY <4>3, LessOrders
    <3> HIDE DEF buy, loss, h, i, j, g, B, q
    <3>3. j \preceq i
      BY <2>1, <2>2, <3>1, LessOrders
    <3>4. i \in Fractions /\ j \in Fractions
      BY <2>1
    <3>5. h \otimes i \in Fractions /\ h \otimes j \in Fractions /\ h \otimes i \preceq h \otimes j
      BY <2>1, <3>2, <3>3, <3>4, TimesReverses, FractionsClosed
    <3> QED BY <3>5 DEF h, i, j
  <2> QED BY <2>3, <2>4
<1>8. Legs(g, A) = AddOver(a, Symbols) /\ Legs(g, B) = AddOver(b, Symbols)
  BY DEF Legs
<1> DEFINE GA == Legs(g, A)
           GB == Legs(g, B)
<1>9. GA \preceq GB /\ GA \in Fractions /\ GB \in Fractions
  <2> HIDE DEF a, b, g
  <2> QED BY <1>7, <1>8, FiniteSymbols, AddLess, AddType
<1>10. /\ One \preceq q \oplus GA
       /\ One \preceq q \oplus GB => Solution(p, t, B) \preceq q
       /\ Solution(p, t, B) \in Fractions /\ Lowest(Solution(p, t, B))
       /\ Zero \prec Solution(p, t, B)
  <2>1. q \preceq q
    BY <1>4, LessOrders
  <2> HIDE DEF q, B
  <2>2. q \preceq q <=> One \preceq q \oplus Legs(Gap(p, t, q), A)
    BY <1>4, SolutionIs DEF q
  <2>3. /\ Solution(p, t, B) \preceq q <=> One \preceq q \oplus Legs(Gap(p, t, q), B)
        /\ Solution(p, t, B) \in Fractions /\ Lowest(Solution(p, t, B))
        /\ Zero \prec Solution(p, t, B)
    BY <1>4, SolutionIs
  <2> QED BY <2>1, <2>2, <2>3
<1>11. One \preceq q \oplus GB
  <2> HIDE DEF q, GA, GB, B
  <2>1. q \preceq q /\ One \in Fractions
    BY <1>4, LessOrders DEF One, Fractions
  <2>2. q \oplus GA \in Fractions /\ q \oplus GB \in Fractions
    BY <1>4, <1>9, FractionsClosed
  <2>3. q \oplus GA \preceq q \oplus GB
    BY <1>4, <1>9, <2>1, PlusMonotone
  <2> QED BY <1>10, <2>1, <2>2, <2>3, LessOrders
<1> HIDE DEF GA, GB, g, a, b
<1>12. Solution(p, t, B) = q
  <2> HIDE DEF q, B
  <2> DEFINE x == Solution(p, t, B)
  <2>1. x \in Fractions /\ Lowest(x) /\ Even(x, q)
    BY <1>4, <1>10, <1>11 DEF Even
  <2> HIDE DEF x
  <2>2. x = q
    BY <1>4, <2>1, EvenOrders
  <2> QED BY <2>2 DEF x
<1>13. Zero \prec Left(t, B)
  <2> HIDE DEF B
  <2> QED BY <1>4, LeftPositive
<1>14. \A s \in Symbols : IF s \in B THEN p[s] \preceq (t[s] \otimes q)
                          ELSE (t[s] \otimes q) \prec p[s]
  <2> SUFFICES ASSUME NEW s \in Symbols, s \notin B PROVE (t[s] \otimes q) \prec p[s]
    OBVIOUS
  <2> DEFINE u == t[s] \otimes q
             v == p[s]
  <2>1. u \in Fractions /\ v \in Fractions /\ ~ (v \preceq u)
    BY <1>5
  <2> HIDE DEF u, v
  <2>2. u \prec v
    BY <2>1, LessOrders
  <2> QED BY <2>2 DEF u, v
<1> HIDE DEF q, B
<1>15. Consistent(p, t, B)
  BY <1>10, <1>12, <1>13, <1>14 DEF Consistent
<1> QED BY <1>4, <1>15

LEMMA GreaterIs ==
    ASSUME NEW a, NEW n, NEW d, Is(a, n, d)
    PROVE  Is(Greater(a, Zero), IF n <= 0 THEN 0 ELSE n, d)
<1>1. Is(Zero, 0, d)
  BY UnitsAre DEF Is
<1>2. a \preceq Zero <=> n <= 0
  BY <1>1, LessIs
<1> QED BY <1>1, <1>2 DEF Greater

(* A leg costs by the rate of its side.                                    *)
LEMMA LegCosts ==
    ASSUME NEW x \in Fractions, NEW g \in Fractions, NEW b \in Fractions, NEW k \in Fractions,
           Even(x, g)
    PROVE  LET cost == (Greater(x, Zero) \otimes b) \oplus (Greater(Negative(x), Zero) \otimes k)
           IN  /\ Zero \preceq g => Even(g \otimes b, cost)
               /\ g \preceq Zero => Even(g \otimes Negative(k), cost)
<1>1. PICK d \in Nat \ {0}, n, m, l, o \in Int : Is(x, n, d) /\ Is(b, m, d) /\ Is(k, l, d)
  BY CommonFour
<1>2. Is(g, n, d) /\ Is(Zero, 0, d) /\ Is(Negative(k), -l, d) /\ Is(Negative(x), -n, d)
  BY <1>1, EvenIs, UnitsAre, NegativeIs
<1> DEFINE u == IF n <= 0 THEN 0 ELSE n
           v == IF -n <= 0 THEN 0 ELSE -n
           cost == (Greater(x, Zero) \otimes b) \oplus (Greater(Negative(x), Zero) \otimes k)
<1>3. Is(Greater(x, Zero), u, d) /\ Is(Greater(Negative(x), Zero), v, d)
  BY <1>1, <1>2, GreaterIs
<1> HIDE DEF u, v
<1>4. Is(cost, u * m + v * l, d * d)
  <2>1. Is(Greater(x, Zero) \otimes b, u * m, d * d)
        /\ Is(Greater(Negative(x), Zero) \otimes k, v * l, d * d)
    BY <1>1, <1>3, TimesIs
  <2> QED BY <2>1, PlusIs
<1>5. Is(g \otimes b, n * m, d * d) /\ Is(g \otimes Negative(k), n * (-l), d * d)
  BY <1>1, <1>2, TimesIs
<1>6. (Zero \preceq g <=> 0 <= n) /\ (g \preceq Zero <=> n <= 0)
  BY <1>2, LessIs
<1> HIDE DEF cost
<1>7. ASSUME Zero \preceq g PROVE Even(g \otimes b, cost)
  <2>1. u = n /\ v = 0
    BY <1>6, <1>7 DEF u, v
  <2>2. u * m + v * l = n * m
    BY <2>1
  <2>3. n * m <= n * m
    OBVIOUS
  <2> QED BY <1>4, <1>5, <2>2, <2>3, LessIs DEF Even
<1>8. ASSUME g \preceq Zero PROVE Even(g \otimes Negative(k), cost)
  <2>1. u = 0 /\ v = -n
    BY <1>6, <1>8 DEF u, v
  <2>2. u * m + v * l = n * (-l)
    BY <2>1
  <2>3. n * (-l) <= n * (-l)
    OBVIOUS
  <2> QED BY <1>4, <1>5, <2>2, <2>3, LessIs DEF Even
<1> QED BY <1>7, <1>8 DEF cost

Buys(traded) == [s \in Symbols |-> Greater(traded[s], Zero)]
Sells(traded) == [s \in Symbols |-> Greater(Negative(traded[s]), Zero)]

LEMMA GreaterZero ==
    ASSUME NEW a \in Fractions
    PROVE  /\ Greater(a, Zero) \in Fractions /\ Zero \preceq Greater(a, Zero)
           /\ a \preceq Greater(a, Zero)
           /\ \A b \in Fractions : Zero \preceq b /\ a \preceq b => Greater(a, Zero) \preceq b
<1>1. Zero \in Fractions
  BY DEF Zero, Fractions
<1>2. Zero \preceq Zero /\ a \preceq a /\ (a \preceq Zero \/ Zero \preceq a)
  BY <1>1, LessOrders
<1> QED BY <1>1, <1>2 DEF Greater

LEMMA CostIs ==
    ASSUME setting \in Settings, NEW traded \in Vectors
    PROVE  LET B == AddOver(Buys(traded), Symbols)
               S == AddOver(Sells(traded), Symbols)
           IN  /\ Cost(traded) = (B \otimes setting.buy) \oplus (S \otimes setting.sell)
               /\ B \in Fractions /\ Zero \preceq B /\ S \in Fractions /\ Zero \preceq S
               /\ \A s \in Symbols : /\ traded[s] \in Fractions
                                     /\ Buys(traded)[s] \in Fractions
                                     /\ Zero \preceq Buys(traded)[s]
                                     /\ Sells(traded)[s] \in Fractions
                                     /\ Zero \preceq Sells(traded)[s]
<1> DEFINE b == Buys(traded)
           k == Sells(traded)
<1>1. \A s \in Symbols : traded[s] \in Fractions /\ Negative(traded[s]) \in Fractions
  BY FractionsClosed DEF Vectors
<1>2. \A s \in Symbols : /\ b[s] \in Fractions /\ Zero \preceq b[s]
                         /\ k[s] \in Fractions /\ Zero \preceq k[s]
  <2>1. \A s \in Symbols : /\ b[s] = Greater(traded[s], Zero)
                           /\ k[s] = Greater(Negative(traded[s]), Zero)
    BY DEF Buys, Sells
  <2> HIDE DEF b, k
  <2> QED BY <1>1, <2>1, GreaterZero
<1>3. Cost(traded) = (Total(b) \otimes setting.buy) \oplus (Total(k) \otimes setting.sell)
  BY DEF Cost, Buys, Sells
<1>4. Total(b) = AddOver(b, Symbols) /\ Total(k) = AddOver(k, Symbols)
  <2>1. DOMAIN b = Symbols /\ DOMAIN k = Symbols
    BY DEF Buys, Sells
  <2> HIDE DEF b, k
  <2> QED BY <2>1, TotalIs
<1> HIDE DEF b, k
<1>5. /\ AddOver(b, Symbols) \in Fractions /\ Zero \preceq AddOver(b, Symbols)
      /\ AddOver(k, Symbols) \in Fractions /\ Zero \preceq AddOver(k, Symbols)
  BY <1>2, FiniteSymbols, AddNotNegative
<1> QED BY <1>1, <1>2, <1>3, <1>4, <1>5 DEF b, k

LEMMA IsGap ==
    ASSUME NEW p \in Fractions, NEW x \in Fractions, NEW u \in Fractions, Even(p \oplus x, u)
    PROVE  Even(x, u \ominus p)
<1>1. PICK d \in Nat \ {0}, n, m, l, o \in Int : Is(p, n, d) /\ Is(x, m, d)
  BY CommonFour
<1>2. Is(p \oplus x, n + m, d) /\ p \oplus x \in Fractions
  BY <1>1, PlusIs, FractionsClosed
<1>3. Is(u, n + m, d)
  BY <1>2, EvenIs
<1>4. Is(u \ominus p, (n + m) - n, d)
  BY <1>1, <1>3, PlusIs
<1>5. (n + m) - n = m /\ m <= m
  OBVIOUS
<1> QED BY <1>1, <1>4, <1>5, LessIs DEF Even

(* Trading to the target of the equity after costs costs what it says.     *)
LEMMA PostCostBalances ==
    ASSUME setting \in Settings, NEW p, NEW t, Long(p), Long(t)
    PROVE  LET q == PostCost(p, t)
           IN  /\ q \in Fractions /\ Zero \prec q
               /\ \A traded \in Vectors :
                     (\A s \in Symbols : Even(p[s] \oplus traded[s], t[s] \otimes q))
                        => Even(q \oplus Cost(traded), One)
<1> DEFINE consistent == {S \in SUBSET Symbols : Consistent(p, t, S)}
           S == CHOOSE R \in consistent : TRUE
           q == Solution(p, t, S)
           g == Gap(p, t, q)
<1>0. p \in Vectors /\ t \in Vectors /\ One \in Fractions
  BY DEF Long, One, Fractions
<1>1. consistent # {}
  BY PostCostExists
<1>2. S \in SUBSET Symbols /\ Consistent(p, t, S)
  BY <1>1
<1>3. PostCost(p, t) = q
  <2> HIDE DEF q, S
  <2>1. PostCost(p, t)
          = IF consistent = {} THEN Zero
            ELSE Solution(p, t, CHOOSE R \in consistent : TRUE)
    BY PostCostIs
  <2> QED BY <1>1, <2>1 DEF q, S
<1> HIDE DEF S, consistent
<1>4. q \in Fractions /\ Zero \prec q
  BY <1>2, SolutionIs DEF Zero, Fractions
<1>5. \A s \in Symbols : IF s \in S THEN p[s] \preceq (t[s] \otimes q)
                         ELSE (t[s] \otimes q) \prec p[s]
  BY <1>2 DEF Consistent
<1>6. Even(q \oplus Legs(g, S), One) /\ g \in Vectors
  <2>1. q \preceq q
    BY <1>4, LessOrders
  <2> HIDE DEF q
  <2>2. /\ q \preceq q <=> One \preceq q \oplus Legs(Gap(p, t, q), S)
        /\ q \preceq q <=> q \oplus Legs(Gap(p, t, q), S) \preceq One
    BY <1>2, <1>4, SolutionIs DEF q
  <2>3. g \in Vectors
    BY <1>0, <1>2, <1>4, LegsBalance
  <2> QED BY <2>1, <2>2, <2>3 DEF Even
<1> HIDE DEF q
<1>7. ASSUME NEW traded \in Vectors,
             \A s \in Symbols : Even(p[s] \oplus traded[s], t[s] \otimes q)
      PROVE  Even(q \oplus Cost(traded), One)
  <2> DEFINE b == Buys(traded)
             k == Sells(traded)
             buy == setting.buy
             sell == setting.sell
             h == [s \in Symbols |-> g[s] \otimes Rate(S)[s]]
             f == [s \in Symbols |-> b[s] \otimes buy]
  <2>1. buy \in Fractions /\ sell \in Fractions
    BY SettingIs
  <2>2. \A s \in Symbols : /\ h[s] \in Fractions /\ b[s] \in Fractions /\ k[s] \in Fractions
                           /\ f[s] = b[s] \otimes buy
    BY <1>2, <1>6, RateIs, CostIs
  <2>3. \A s \in Symbols : f[s] \in Fractions /\ Even(f[s], b[s] \otimes buy)
    <3> SUFFICES ASSUME NEW s \in Symbols
                 PROVE  f[s] \in Fractions /\ Even(f[s], b[s] \otimes buy)
      OBVIOUS
    <3> DEFINE x == b[s]
               y == f[s]
    <3>1. x \in Fractions /\ y = x \otimes buy
      BY <2>2
    <3> HIDE DEF x, y, buy
    <3>2. y \in Fractions
      BY <2>1, <3>1, FractionsClosed
    <3>3. Even(y, y)
      BY <3>2, EvenOrders
    <3> QED BY <3>1, <3>2, <3>3 DEF x, y
  <2>4. ASSUME NEW s \in Symbols
        PROVE  Even(h[s], f[s] \oplus (k[s] \otimes sell))
    <3> DEFINE x == traded[s]
               u == t[s] \otimes q
               v == p[s]
               c == g[s]
    <3>1. x \in Fractions /\ u \in Fractions /\ v \in Fractions /\ c = u \ominus v
          /\ c \in Fractions /\ Even(v \oplus x, u)
      <4>1. t[s] \in Fractions /\ v \in Fractions /\ x \in Fractions /\ c \in Fractions
        BY <1>0, <1>6 DEF Vectors
      <4>2. t[s] \otimes q \in Fractions
        BY <1>4, <4>1, FractionsClosed
      <4> QED BY <1>7, <4>1, <4>2 DEF Gap
    <3>2. /\ f[s] = Greater(x, Zero) \otimes buy
          /\ k[s] = Greater(Negative(x), Zero)
          /\ h[s] = c \otimes (IF s \in S THEN buy ELSE Negative(sell))
      BY DEF Buys, Sells, Rate
    <3>3. IF s \in S THEN v \preceq u ELSE u \prec v
      BY <1>5
    <3> HIDE DEF x, u, v, c, h, f, k, b, buy, sell, g
    <3>4. Even(x, c)
      BY <3>1, IsGap
    <3>5. c \prec Zero <=> u \prec v
      BY <3>1, MinusSign
    <3>6. Zero \in Fractions
      BY DEF Zero, Fractions
    <3>7. CASE s \in S
      <4>1. Zero \preceq c
        BY <3>1, <3>3, <3>5, <3>6, <3>7, LessOrders
      <4>2. Even(c \otimes buy, (Greater(x, Zero) \otimes buy)
                                  \oplus (Greater(Negative(x), Zero) \otimes sell))
        BY <2>1, <3>1, <3>4, <4>1, LegCosts
      <4> QED BY <3>2, <3>7, <4>2
    <3>8. CASE s \notin S
      <4>1. c \preceq Zero
        BY <3>1, <3>3, <3>5, <3>6, <3>8, LessOrders
      <4>2. Even(c \otimes Negative(sell), (Greater(x, Zero) \otimes buy)
                                  \oplus (Greater(Negative(x), Zero) \otimes sell))
        BY <2>1, <3>1, <3>4, <4>1, LegCosts
      <4> QED BY <3>2, <3>8, <4>2
    <3> QED BY <3>7, <3>8
  <2>5. Legs(g, S) = AddOver(h, Symbols)
    BY DEF Legs
  <2>6. LET B == AddOver(b, Symbols)
            K == AddOver(k, Symbols)
        IN  Cost(traded) = (B \otimes buy) \oplus (K \otimes sell)
            /\ B \in Fractions /\ K \in Fractions
    BY CostIs
  <2> HIDE DEF b, k, h, f, buy, sell, g
  <2> DEFINE B == AddOver(b, Symbols)
             K == AddOver(k, Symbols)
             F == AddOver(f, Symbols)
             H == AddOver(h, Symbols)
  <2>7. Even(H, F \oplus (K \otimes sell))
    BY <2>1, <2>2, <2>3, <2>4, FiniteSymbols, AddLinear
  <2>8. Even(F, B \otimes buy)
    BY <2>1, <2>2, <2>3, FiniteSymbols, AddTimes
  <2>9. H \in Fractions /\ F \in Fractions /\ B \in Fractions /\ K \in Fractions
    BY <2>2, <2>3, FiniteSymbols, AddType
  <2> HIDE DEF B, K, F, H
  <2>10. B \otimes buy \in Fractions /\ K \otimes sell \in Fractions
    BY <2>1, <2>9, FractionsClosed
  <2>11. F \oplus (K \otimes sell) = (B \otimes buy) \oplus (K \otimes sell)
    <3>1. Even(K \otimes sell, K \otimes sell)
      BY <2>10, EvenOrders
    <3> QED BY <2>8, <2>9, <2>10, <3>1, EvenComputes
  <2>12. Even(H, Cost(traded)) /\ Cost(traded) \in Fractions
    <3>1. Cost(traded) = (B \otimes buy) \oplus (K \otimes sell)
      BY <2>6 DEF B, K
    <3> QED BY <2>7, <2>10, <2>11, <3>1, FractionsClosed
  <2>13. q \oplus H = q \oplus Cost(traded)
    <3>1. Even(q, q)
      BY <1>4, EvenOrders
    <3> QED BY <1>4, <2>9, <2>12, <3>1, EvenComputes
  <2> QED BY <1>6, <2>5, <2>13 DEF H
<1> QED BY <1>3, <1>4, <1>7

-----------------------------------------------------------------------------
(* 8. A long-only book is funded.                                          *)

Alike(a, b, c, e, f, g, h, i) ==
    \E d \in Nat \ {0}, n, m, l, o, p, q, r, s \in Int :
       /\ Is(a, n, d) /\ Is(b, m, d) /\ Is(c, l, d) /\ Is(e, o, d)
       /\ Is(f, p, d) /\ Is(g, q, d) /\ Is(h, r, d) /\ Is(i, s, d)

(* Eight have a common denominator.                                        *)
LEMMA CommonEight ==
    ASSUME NEW a \in Fractions, NEW b \in Fractions, NEW c \in Fractions, NEW e \in Fractions,
           NEW f \in Fractions, NEW g \in Fractions, NEW h \in Fractions, NEW i \in Fractions
    PROVE  Alike(a, b, c, e, f, g, h, i)
<1>1. PICK j \in Nat \ {0}, n, m, l, o \in Int :
        Is(a, n, j) /\ Is(b, m, j) /\ Is(c, l, j) /\ Is(e, o, j)
  BY CommonFour
<1>2. PICK k \in Nat \ {0}, p, q, r, s \in Int :
        Is(f, p, k) /\ Is(g, q, k) /\ Is(h, r, k) /\ Is(i, s, k)
  BY CommonFour
<1>3. Is(a, n * k, j * k) /\ Is(b, m * k, j * k) /\ Is(c, l * k, j * k) /\ Is(e, o * k, j * k)
  BY <1>1, <1>2, IsScaled
<1>4. k * j = j * k /\ j * k \in Nat \ {0}
  BY NatTimes
<1>5. Is(f, p * j, j * k) /\ Is(g, q * j, j * k) /\ Is(h, r * j, j * k) /\ Is(i, s * j, j * k)
  BY <1>1, <1>2, <1>4, IsScaled
<1>6. /\ n * k \in Int /\ m * k \in Int /\ l * k \in Int /\ o * k \in Int
      /\ p * j \in Int /\ q * j \in Int /\ r * j \in Int /\ s * j \in Int
  OBVIOUS
<1> DEFINE d == j * k
<1>7. d \in Nat \ {0}
  BY <1>4
<1> QED BY <1>3, <1>5, <1>6, <1>7 DEF Alike

(* What one buys ends in the position, what one sells was in it.           *)
LEMMA LegBounded ==
    ASSUME NEW p \in Fractions, NEW x \in Fractions, NEW u \in Fractions,
           Even(p \oplus x, u), Zero \preceq p, Zero \preceq u
    PROVE  /\ Greater(x, Zero) \preceq u /\ Greater(Negative(x), Zero) \preceq p
           /\ Even(Size(x), Greater(x, Zero) \oplus (Greater(Negative(x), Zero) \otimes One))
<1>1. PICK d \in Nat \ {0}, n, m, l, o \in Int : Is(p, n, d) /\ Is(x, m, d)
  BY CommonFour
<1>2. Is(p \oplus x, n + m, d) /\ p \oplus x \in Fractions
  BY <1>1, PlusIs, FractionsClosed
<1>3. Is(u, n + m, d) /\ Is(Zero, 0, d) /\ Is(Negative(x), -m, d) /\ Is(One, d, d)
  BY <1>1, <1>2, EvenIs, UnitsAre, NegativeIs
<1> DEFINE y == IF m <= 0 THEN 0 ELSE m
           z == IF -m <= 0 THEN 0 ELSE -m
<1>4. Is(Greater(x, Zero), y, d) /\ Is(Greater(Negative(x), Zero), z, d)
  BY <1>1, <1>3, GreaterIs
<1>5. 0 <= n /\ 0 <= n + m
  BY <1>1, <1>3, LessIs
<1>6. y <= n + m /\ z <= n /\ y \in Int /\ z \in Int /\ Absolute(m) = y + z
  BY <1>5 DEF Absolute
<1> HIDE DEF y, z
<1>7. Is(Greater(Negative(x), Zero) \otimes One, z * d, d * d) /\ Is(Greater(x, Zero), y * d, d * d)
  BY <1>3, <1>4, TimesIs, IsScaled
<1>8. Is(Greater(x, Zero) \oplus (Greater(Negative(x), Zero) \otimes One), y * d + z * d, d * d)
  BY <1>7, PlusIs
<1>9. Is(Size(x), Absolute(m) * d, d * d)
  BY <1>1, SizeIs, IsScaled
<1>10. Absolute(m) * d = y * d + z * d
  BY <1>6, Distributes
<1>11. Absolute(m) * d <= Absolute(m) * d
  BY <1>6
<1>12. Even(Size(x), Greater(x, Zero) \oplus (Greater(Negative(x), Zero) \otimes One))
  BY <1>8, <1>9, <1>10, <1>11, LessIs DEF Even
<1> QED BY <1>1, <1>3, <1>4, <1>6, <1>12, LessIs

LEMMA LegsBounded ==
    ASSUME setting \in Settings, NEW p \in Vectors, NEW x \in Vectors, NEW u \in Vectors,
           \A s \in Symbols : /\ Even(p[s] \oplus x[s], u[s])
                              /\ Zero \preceq p[s] /\ Zero \preceq u[s]
    PROVE  LET B == AddOver(Buys(x), Symbols)
               S == AddOver(Sells(x), Symbols)
           IN  /\ B \preceq Total(u) /\ S \preceq Total(p)
               /\ Even(Gross(x), B \oplus (S \otimes One))
<1> DEFINE b == Buys(x)
           k == Sells(x)
           z == [s \in Symbols |-> Size(x[s])]
<1>1. \A s \in Symbols : /\ p[s] \in Fractions /\ x[s] \in Fractions /\ u[s] \in Fractions
                         /\ b[s] \in Fractions /\ k[s] \in Fractions
                         /\ b[s] = Greater(x[s], Zero) /\ k[s] = Greater(Negative(x[s]), Zero)
  <2>1. \A s \in Symbols : b[s] = Greater(x[s], Zero) /\ k[s] = Greater(Negative(x[s]), Zero)
    BY DEF Buys, Sells
  <2> HIDE DEF b, k
  <2> QED BY <2>1, CostIs DEF Vectors, b, k
<1>2. \A s \in Symbols : z[s] = Size(x[s]) /\ z[s] \in Fractions
  BY GrossIs
<1>3. Gross(x) = AddOver(z, Symbols) /\ Total(u) = AddOver(u, Symbols)
      /\ Total(p) = AddOver(p, Symbols)
  <2>1. DOMAIN u = Symbols /\ DOMAIN p = Symbols
    BY DEF Vectors
  <2> QED BY <2>1, GrossIs, TotalIs
<1> HIDE DEF b, k, z
<1>4. \A s \in Symbols : /\ b[s] \preceq u[s] /\ k[s] \preceq p[s]
                         /\ Even(z[s], b[s] \oplus (k[s] \otimes One))
  BY <1>1, <1>2, LegBounded
<1>5. One \in Fractions
  BY DEF One, Fractions
<1>6. AddOver(b, Symbols) \preceq AddOver(u, Symbols)
  BY <1>1, <1>4, FiniteSymbols, AddLess
<1>7. AddOver(k, Symbols) \preceq AddOver(p, Symbols)
  BY <1>1, <1>4, FiniteSymbols, AddLess
<1>8. Even(AddOver(z, Symbols), AddOver(b, Symbols) \oplus (AddOver(k, Symbols) \otimes One))
  BY <1>1, <1>2, <1>4, <1>5, FiniteSymbols, AddLinear
<1> QED BY <1>3, <1>6, <1>7, <1>8 DEF b, k

(* A part of a value is a share of it.                                     *)
LEMMA ShareIs ==
    ASSUME NEW v \in Fractions, Zero \prec v
    PROVE  /\ One \oslash v \in Fractions /\ Zero \prec One \oslash v
           /\ \A h \in Fractions : h \preceq v => h \otimes (One \oslash v) \preceq One
<1>1. PICK d \in Nat \ {0}, m, l, o, k \in Int : Is(v, m, d)
  BY CommonFour
<1>2. Is(One, 1, 1) /\ Is(Zero, 0, d) /\ m \in Nat \ {0} /\ Is(Inverted(v), d, m)
  BY <1>1, UnitsAre, InvertedIs
<1>3. Is(One \oslash v, 1 * d, 1 * m)
  BY <1>2, TimesIs DEF \oslash
<1>4. Is(One \oslash v, d, m) /\ Is(Zero, 0, m)
  BY <1>2, <1>3, UnitsAre
<1> DEFINE i == One \oslash v
<1>5. i \in Fractions /\ Zero \prec i /\ Is(i, d, m)
  <2>1. 0 < d
    OBVIOUS
  <2> QED BY <1>4, <2>1, LessIs DEF Is
<1> HIDE DEF i
<1>6. ASSUME NEW h \in Fractions, h \preceq v PROVE h \otimes i \preceq One
  <2>1. v \otimes i \in Fractions /\ h \otimes i \in Fractions /\ One \in Fractions
        /\ Zero \in Fractions
    BY <1>5, FractionsClosed
  <2>2. Zero \preceq i
    BY <1>5, <2>1, LessOrders
  <2>3. h \otimes i \preceq v \otimes i
    BY <1>5, <1>6, <2>2, TimesMonotone
  <2>4. Is(v \otimes i, m * d, d * m)
    BY <1>1, <1>5, TimesIs
  <2>5. m * d = d * m /\ d * m \in Nat \ {0} /\ m * d <= d * m
    BY <1>2, NatTimes
  <2>6. Is(One, d * m, d * m)
    BY <2>5, UnitsAre
  <2>7. v \otimes i \preceq One
    BY <2>4, <2>5, <2>6, LessIs
  <2> QED BY <2>1, <2>3, <2>7, LessOrders
<1> QED BY <1>5, <1>6 DEF i

(* A book that owes nothing and is worth something.                        *)
Funded(e) ==
    /\ e \in EventStates /\ Zero \preceq e.cash
    /\ \A s \in Symbols : Zero \preceq e.held[s]
    /\ Zero \prec Worth(e)

LEMMA FundedIs ==
    ASSUME NEW e, Funded(e)
    PROVE  LET H == Total(e.held)
           IN  /\ e.cash \in Fractions /\ e.held \in Vectors
               /\ \A s \in Symbols : e.held[s] \in Fractions /\ e.held[s] \preceq H
               /\ H \in Fractions /\ Zero \preceq H /\ H = AddOver(e.held, Symbols)
               /\ Worth(e) \in Fractions /\ Worth(e) = e.cash \oplus H
               /\ H \preceq Worth(e) /\ e.cash \preceq Worth(e)
<1> DEFINE h == e.held
           c == e.cash
           H == Total(h)
<1>1. c \in Fractions /\ h \in Vectors
  BY DEF Funded, EventStates
<1>2. \A s \in Symbols : h[s] \in Fractions /\ Zero \preceq h[s]
  BY <1>1 DEF Funded, Vectors
<1>3. DOMAIN h = Symbols
  BY <1>1 DEF Vectors
<1>4. Worth(e) = c \oplus H /\ Zero \preceq c
  BY DEF Worth, Funded
<1> HIDE DEF h, c, H
<1>5. H = AddOver(h, Symbols)
  BY <1>3, TotalIs DEF H
<1>6. H \in Fractions /\ Zero \preceq H /\ \A s \in Symbols : h[s] \preceq H
  BY <1>2, <1>5, FiniteSymbols, AddNotNegative
<1>7. c \oplus H \in Fractions /\ H \preceq c \oplus H /\ c \preceq c \oplus H
  BY <1>1, <1>4, <1>6, PlusSign, FractionsClosed
<1> QED BY <1>1, <1>2, <1>4, <1>5, <1>6, <1>7 DEF h, c, H

(* Its positions are shares of it.                                         *)
LEMMA HeldShares ==
    ASSUME NEW e, Funded(e)
    PROVE  LET v == Worth(e)
               p == Scaled(e.held, One \oslash v)
           IN  /\ Long(p) /\ Even(Total(e.held), Total(p) \otimes v)
               /\ \A s \in Symbols : p[s] = e.held[s] \otimes (One \oslash v)
<1> DEFINE v == Worth(e)
           i == One \oslash v
           h == e.held
           p == Scaled(h, i)
           H == Total(h)
           P == Total(p)
<1>1. /\ h \in Vectors /\ H \in Fractions /\ H = AddOver(h, Symbols)
      /\ v \in Fractions /\ H \preceq v /\ Zero \prec v
      /\ \A s \in Symbols : h[s] \in Fractions /\ Zero \preceq h[s]
  BY FundedIs DEF Funded
<1>2. i \in Fractions /\ Zero \prec i /\ H \otimes i \preceq One
  <2> HIDE DEF v, H
  <2> QED BY <1>1, ShareIs
<1> HIDE DEF v, i, h
<1>3. p \in Vectors /\ \A s \in Symbols : p[s] = h[s] \otimes i
  BY <1>1, <1>2, VectorsAre
<1>4. DOMAIN p = Symbols
  BY <1>3 DEF Vectors
<1> HIDE DEF p
<1>5. P = AddOver(p, Symbols)
  BY <1>4, TotalIs
<1>6. P \in Fractions
  BY <1>3, GrossIs
<1>7. Zero \preceq i
  <2>1. Zero \in Fractions
    BY DEF Zero, Fractions
  <2> QED BY <1>2, <2>1, LessOrders
<1>8. \A s \in Symbols : p[s] \in Fractions /\ Zero \preceq p[s] /\ Even(p[s], h[s] \otimes i)
  <2> SUFFICES ASSUME NEW s \in Symbols
               PROVE  p[s] \in Fractions /\ Zero \preceq p[s] /\ Even(p[s], h[s] \otimes i)
    OBVIOUS
  <2> DEFINE a == h[s]
             b == p[s]
  <2>1. a \in Fractions /\ Zero \preceq a /\ b = a \otimes i
    BY <1>1, <1>3
  <2> HIDE DEF a, b
  <2>2. b \in Fractions /\ Zero \preceq b
    BY <1>2, <1>7, <2>1, TimesSign, FractionsClosed
  <2>3. Even(b, b)
    BY <2>2, EvenOrders
  <2> QED BY <2>1, <2>2, <2>3 DEF a, b
<1>9. Even(P, H \otimes i)
  BY <1>1, <1>2, <1>5, <1>8, FiniteSymbols, AddTimes
<1> HIDE DEF H, P
<1> DEFINE X == H \otimes i
<1>10. X \in Fractions /\ X \preceq One /\ One \in Fractions
  BY <1>1, <1>2, FractionsClosed
<1>11. Even(X \otimes v, H) /\ X \otimes v \in Fractions
  <2>1. (H \otimes (One \oslash v)) \otimes v \preceq H /\ H \preceq (H \otimes (One \oslash v)) \otimes v
    BY <1>1, DividesBack
  <2>2. X \otimes v \in Fractions
    BY <1>1, <1>10, FractionsClosed
  <2> QED BY <2>1, <2>2 DEF Even, i
<1>12. Even(P, X)
  BY <1>9
<1> HIDE DEF X
<1>13. P \preceq One
  BY <1>6, <1>10, <1>12, LessOrders DEF Even
<1>14. P \otimes v = X \otimes v
  <2>1. Even(v, v)
    BY <1>1, EvenOrders
  <2> QED BY <1>1, <1>6, <1>10, <1>12, <2>1, EvenComputes
<1>15. Even(H, P \otimes v)
  BY <1>1, <1>11, <1>14, EvenOrders
<1>16. Long(p)
  BY <1>3, <1>8, <1>13 DEF Long, P
<1> QED BY <1>3, <1>15, <1>16 DEF p, P, H, v, i, h

(* What is left of the cash c of a book of value v = c + H, of whose value *)
(* P is held, once T is traded to reach U = P + T, at a concession of K    *)
(* and costs of C that leave q.                                            *)
LEMMA CashLeft ==
    ASSUME NEW c \in Fractions, NEW H \in Fractions, NEW v \in Fractions, NEW P \in Fractions,
           NEW T \in Fractions, NEW K \in Fractions, NEW C \in Fractions, NEW q \in Fractions,
           NEW U \in Fractions,
           v = c \oplus H, Even(H, P \otimes v), Even(P \oplus T, U), Even(q \oplus C, One)
    PROVE  Even(c \ominus (v \otimes ((T \oplus K) \oplus C)), v \otimes (q \ominus (U \oplus K)))
<1>0. Alike(c, H, v, P, T, K, C, q)
  BY CommonEight
<1>1. PICK d \in Nat \ {0}, n, h, w, p, t, k, l, r \in Int :
        /\ Is(c, n, d) /\ Is(H, h, d) /\ Is(v, w, d) /\ Is(P, p, d)
        /\ Is(T, t, d) /\ Is(K, k, d) /\ Is(C, l, d) /\ Is(q, r, d)
  BY <1>0 DEF Alike
<1>2. Is(One, d, d)
  BY <1>1, UnitsAre
<1>3. w = n + h
  <2>1. Is(v, n + h, d)
    BY <1>1, PlusIs
  <2>2. v \preceq v
    BY LessOrders
  <2>3. w <= n + h /\ n + h <= w
    BY <1>1, <2>1, <2>2, LessIs
  <2> QED BY <2>3
<1>4. h * d = p * w
  <2>1. Is(H, h * d, d * d) /\ Is(P \otimes v, p * w, d * d)
    BY <1>1, IsScaled, TimesIs
  <2>2. h * d <= p * w /\ p * w <= h * d
    BY <2>1, LessIs DEF Even
  <2>3. h * d \in Int /\ p * w \in Int
    BY <1>1
  <2> QED BY <2>2, <2>3
<1>5. Is(U, p + t, d)
  <2>1. Is(P \oplus T, p + t, d) /\ P \oplus T \in Fractions
    BY <1>1, PlusIs, FractionsClosed
  <2> QED BY <2>1, EvenIs
<1>6. l = d - r
  <2>1. Is(q \oplus C, r + l, d)
    BY <1>1, PlusIs
  <2>2. r + l <= d /\ d <= r + l
    BY <1>2, <2>1, LessIs DEF Even
  <2> QED BY <1>1, <2>2
<1> DEFINE paid == (T \oplus K) \oplus C
           a == (t + k) + l
           b == r - ((p + t) + k)
<1>7. Is(paid, a, d)
  <2>1. Is(T \oplus K, t + k, d)
    BY <1>1, PlusIs
  <2> QED BY <1>1, <2>1, PlusIs
<1>8. Is(q \ominus (U \oplus K), b, d)
  <2>1. Is(U \oplus K, (p + t) + k, d)
    BY <1>1, <1>5, PlusIs
  <2> QED BY <1>1, <2>1, PlusIs
<1>9. a \in Int /\ b \in Int
  BY <1>1
<1> HIDE DEF paid
<1>10. Is(v \otimes paid, w * a, d * d) /\ Is(c, n * d, d * d)
  <2> HIDE DEF a
  <2> QED BY <1>1, <1>7, TimesIs, IsScaled
<1>11. Is(c \ominus (v \otimes paid), n * d - w * a, d * d)
  <2> HIDE DEF a
  <2> QED BY <1>10, PlusIs
<1>12. Is(v \otimes (q \ominus (U \oplus K)), w * b, d * d)
  <2> HIDE DEF b
  <2> QED BY <1>1, <1>8, TimesIs
<1>13. n * d - w * a = w * b
  <2>1. n = w - h /\ n * d = w * d - h * d
    <3>1. n = w - h
      BY <1>1, <1>3
    <3> QED BY <1>1, <3>1, Distributes
  <2>2. a + b = d - p
    BY <1>1, <1>6
  <2>3. w * (d - p) = w * d - p * w
    BY <1>1
  <2>4. w * (a + b) = w * a + w * b
    <3> HIDE DEF a, b
    <3> QED BY <1>1, <1>9
  <2> DEFINE x == w * a
             y == w * b
             z == w * d
             g == h * d
             f == n * d
  <2>5. x \in Int /\ y \in Int /\ z \in Int /\ g \in Int /\ f \in Int
    <3> HIDE DEF a, b
    <3> QED BY <1>1, <1>9
  <2>6. x + y = z - g /\ f = z - g
    BY <1>4, <2>1, <2>2, <2>3, <2>4
  <2> HIDE DEF x, y, z, g, f
  <2>7. f - x = y
    BY <2>5, <2>6
  <2> QED BY <2>7 DEF f, x, y
<1>14. w * b <= w * b
  <2> HIDE DEF b
  <2> QED BY <1>1, <1>9
<1> HIDE DEF a, b
<1>15. Even(c \ominus (v \otimes paid), v \otimes (q \ominus (U \oplus K)))
  BY <1>11, <1>12, <1>13, <1>14, LessIs DEF Even
<1> QED BY <1>15 DEF paid

LEMMA WorthLeft ==
    ASSUME NEW c \in Fractions, NEW H \in Fractions, NEW v \in Fractions, NEW q \in Fractions,
           NEW U \in Fractions, NEW K \in Fractions,
           Even(c, v \otimes (q \ominus (U \oplus K))), Even(H, U \otimes v)
    PROVE  Even(c \oplus H, v \otimes (q \ominus K))
<1>1. PICK d \in Nat \ {0}, w, r, u, k, l1, l2, l3, l4 \in Int :
        Is(v, w, d) /\ Is(q, r, d) /\ Is(U, u, d) /\ Is(K, k, d)
  BY CommonFour
<1> DEFINE b == r - (u + k)
           e == r - k
<1>2. Is(q \ominus (U \oplus K), b, d) /\ Is(q \ominus K, e, d)
  <2>1. Is(U \oplus K, u + k, d)
    BY <1>1, PlusIs
  <2> QED BY <1>1, <2>1, PlusIs
<1>3. b \in Int /\ e \in Int /\ e = b + u
  BY <1>1
<1> HIDE DEF b, e
<1>4. /\ Is(v \otimes (q \ominus (U \oplus K)), w * b, d * d)
      /\ Is(v \otimes (q \ominus K), w * e, d * d) /\ Is(U \otimes v, u * w, d * d)
  BY <1>1, <1>2, TimesIs
<1>5. Is(c, w * b, d * d) /\ Is(H, u * w, d * d)
  <2>1. v \otimes (q \ominus (U \oplus K)) \in Fractions /\ U \otimes v \in Fractions
    BY <1>4 DEF Is
  <2>2. Even(v \otimes (q \ominus (U \oplus K)), c) /\ Even(U \otimes v, H)
    BY DEF Even
  <2> QED BY <1>4, <2>1, <2>2, EvenIs
<1>6. Is(c \oplus H, w * b + u * w, d * d)
  BY <1>5, PlusIs
<1>7. w * b + u * w = w * e /\ w * e <= w * e
  BY <1>1, <1>3
<1> QED BY <1>4, <1>6, <1>7, LessIs DEF Even

(* Worse fills do not exhaust a book that has the cash for them: it holds  *)
(* what it bought, and selling loses less than is sold.                    *)
LEMMA KeepsWorth ==
    ASSUME NEW q \in Fractions, NEW B \in Fractions, NEW S \in Fractions, NEW b \in Fractions,
           NEW k \in Fractions, NEW x \in Fractions, NEW U \in Fractions, NEW G \in Fractions,
           Even(q \oplus ((B \otimes b) \oplus (S \otimes k)), One),
           Even(G, B \oplus (S \otimes One)),
           Zero \preceq B, B \preceq U, Zero \preceq S, S \preceq One,
           Zero \preceq b, Zero \preceq x, x \oplus k \prec One,
           Zero \preceq q \ominus (U \oplus (G \otimes x))
    PROVE  Zero \prec q \ominus (G \otimes x)
<1>0. Alike(q, B, S, b, k, x, U, G)
  BY CommonEight
<1>1. PICK d \in Nat \ {0}, r, m, s, i, j, y, u, g \in Int :
        /\ Is(q, r, d) /\ Is(B, m, d) /\ Is(S, s, d) /\ Is(b, i, d)
        /\ Is(k, j, d) /\ Is(x, y, d) /\ Is(U, u, d) /\ Is(G, g, d)
  BY <1>0 DEF Alike
<1>2. Is(One, d, d) /\ Is(Zero, 0, d) /\ d * d \in Nat \ {0}
  BY <1>1, UnitsAre, NatTimes
<1>3. 0 <= m /\ m <= u /\ 0 <= s /\ s <= d /\ 0 <= i /\ 0 <= y
  BY <1>1, <1>2, LessIs
<1>4. y + j < d
  <2>1. Is(x \oplus k, y + j, d)
    BY <1>1, PlusIs
  <2> QED BY <1>2, <2>1, LessIs
<1>5. g = m + s
  <2>1. Is(S \otimes One, s, d)
    <3>1. S \otimes One \in Fractions /\ One \in Fractions /\ Even(S, S \otimes One)
      BY <1>2, EvenUnits, FractionsClosed DEF Even, Is
    <3> QED BY <1>1, <3>1, EvenIs
  <2>2. Is(B \oplus (S \otimes One), m + s, d)
    BY <1>1, <2>1, PlusIs
  <2>3. g <= m + s /\ m + s <= g
    BY <1>1, <2>2, LessIs DEF Even
  <2> QED BY <1>1, <2>3
<1> DEFINE mi == m * i
           sj == s * j
           gy == g * y
           rd == r * d
           ud == u * d
           dd == d * d
<1>6. /\ mi \in Int /\ sj \in Int /\ gy \in Int /\ rd \in Int /\ ud \in Int /\ dd \in Nat \ {0}
      /\ 0 <= mi
  BY <1>1, <1>2, <1>3
<1>7. rd + (mi + sj) = dd
  <2>1. Is(B \otimes b, mi, dd) /\ Is(S \otimes k, sj, dd) /\ Is(q, rd, dd) /\ Is(One, dd, dd)
    BY <1>1, <1>2, TimesIs, IsScaled
  <2> HIDE DEF mi, sj, rd, dd
  <2>2. Is(q \oplus ((B \otimes b) \oplus (S \otimes k)), rd + (mi + sj), dd)
    BY <2>1, PlusIs
  <2>3. rd + (mi + sj) <= dd /\ dd <= rd + (mi + sj)
    BY <2>1, <2>2, LessIs DEF Even
  <2> QED BY <1>6, <2>3
<1>8. Is(G \otimes x, gy, dd) /\ Is(q, rd, dd) /\ Is(U, ud, dd) /\ Is(Zero, 0, dd)
  BY <1>1, <1>2, TimesIs, IsScaled, UnitsAre
<1>9. 0 <= rd - (ud + gy)
  <2> HIDE DEF mi, sj, gy, rd, ud, dd
  <2>1. Is(q \ominus (U \oplus (G \otimes x)), rd - (ud + gy), dd)
    BY <1>8, PlusIs
  <2> QED BY <1>8, <2>1, LessIs
<1>10. 0 < rd - gy
  <2> SUFFICES ASSUME ~ (0 < rd - gy) PROVE FALSE
    OBVIOUS
  <2>1. ud <= 0 /\ ud \in Int
    BY <1>6, <1>9
  <2>2. u <= 0
    <3>1. u <= 0 <=> u * d <= 0 * d
      BY <1>1, Scales
    <3>2. 0 * d = 0
      BY <1>1
    <3> QED BY <2>1, <3>1, <3>2
  <2>3. m = 0 /\ g = s
    BY <1>1, <1>3, <1>5, <2>2
  <2>4. mi = 0 /\ gy = s * y
    BY <1>1, <2>3
  <2>5. dd <= s * y + s * j
    <3> DEFINE sy == s * y
    <3>1. gy = sy /\ sy \in Int
      BY <1>1, <2>4
    <3> HIDE DEF sy, mi, sj, gy, rd, ud, dd
    <3> QED BY <1>6, <1>7, <2>4, <3>1 DEF sj
  <2>6. s * y + s * j = s * (y + j)
    BY <1>1
  <2>7. s * (y + j) < dd
    <3>1. CASE y + j <= 0
      <4>1. s * (y + j) <= 0
        BY <1>1, <1>3, <3>1
      <4>2. s * (y + j) \in Int
        BY <1>1
      <4> QED BY <1>6, <4>1, <4>2
    <3>2. CASE 0 < y + j
      <4> DEFINE f == y + j
      <4>1. f \in Nat \ {0} /\ f < d
        BY <1>1, <1>4, <3>2
      <4> HIDE DEF f
      <4>2. s * f <= d * f
        BY <1>1, <1>3, <4>1, Scales
      <4>3. ~ (d * d <= f * d)
        BY <1>1, <4>1, Scales
      <4>4. d * f = f * d /\ f * d \in Int /\ d * d \in Int /\ s * f \in Int
        BY <1>1, <4>1
      <4>5. s * f < d * d
        BY <4>2, <4>3, <4>4
      <4> QED BY <4>5 DEF f
    <3> QED BY <1>1, <3>1, <3>2
  <2>8. s * (y + j) \in Int
    BY <1>1
  <2> QED BY <1>6, <2>5, <2>6, <2>7, <2>8
<1>11. Is(q \ominus (G \otimes x), rd - gy, dd)
  <2> HIDE DEF mi, sj, gy, rd, ud, dd
  <2> QED BY <1>8, PlusIs
<1> QED BY <1>8, <1>10, <1>11, LessIs

(* What a round trip costs is less than what is traded, and so is what a   *)
(* sale at the concession costs.                                           *)
RoundTripsCostLess ==
    /\ setting.buy \oplus setting.sell \prec One
    /\ setting.slip \oplus setting.sell \prec One

LEMMA SizeAbove ==
    ASSUME NEW a \in Fractions
    PROVE  a \preceq Size(a)
<1>1. PICK d \in Nat \ {0}, n, m, l, o \in Int : Is(a, n, d)
  BY CommonFour
<1>2. Is(Size(a), Absolute(n), d)
  BY <1>1, SizeIs
<1>3. n <= Absolute(n)
  BY <1>1 DEF Absolute
<1> QED BY <1>1, <1>2, <1>3, LessIs

LEMMA TargetLong ==
    ASSUME setting \in Settings, setting.gross \preceq One, NEW t \in Vectors,
           \A s \in Symbols : Zero \preceq t[s], Gross(t) \preceq setting.gross
    PROVE  Long(t)
<1> DEFINE z == [s \in Symbols |-> Size(t[s])]
           T == Total(t)
           G == Gross(t)
           g == setting.gross
<1>1. T = AddOver(t, Symbols) /\ G = AddOver(z, Symbols) /\ T \in Fractions /\ G \in Fractions
  <2>1. DOMAIN t = Symbols
    BY DEF Vectors
  <2> QED BY <2>1, TotalIs, GrossIs
<1>2. \A s \in Symbols : t[s] \in Fractions /\ z[s] \in Fractions /\ t[s] \preceq z[s]
  <2> SUFFICES ASSUME NEW s \in Symbols
               PROVE  t[s] \in Fractions /\ z[s] \in Fractions /\ t[s] \preceq z[s]
    OBVIOUS
  <2>1. t[s] \in Fractions /\ z[s] = Size(t[s])
    BY DEF Vectors
  <2> HIDE DEF z
  <2> QED BY <2>1, SizeAbove, FractionsClosed
<1>3. g \in Fractions /\ One \in Fractions /\ g \preceq One /\ G \preceq g
  BY SettingIs DEF One, Fractions
<1> HIDE DEF z, T, G, g
<1>4. T \preceq G
  BY <1>1, <1>2, FiniteSymbols, AddLess
<1>5. T \preceq One
  BY <1>1, <1>3, <1>4, LessOrders
<1> QED BY <1>5 DEF Long, T

(* A rebalance to a target t reaches it, as a share of the equity after    *)
(* costs.                                                                  *)
LEMMA ScaledReached ==
    ASSUME setting \in Settings, setting.gross \preceq One, NEW p, Long(p),
           NEW t \in Vectors, \A s \in Symbols : Zero \preceq t[s],
           Gross(t) \preceq setting.gross
    PROVE  LET q == PostCost(p, t)
               u == Scaled(t, q)
               x == Traded(p, u, None, setting.gross \otimes q)
           IN  /\ q \in Fractions /\ Zero \prec q
               /\ u \in Vectors /\ x \in Vectors
               /\ \A s \in Symbols : /\ Zero \preceq u[s] /\ u[s] = t[s] \otimes q
                                     /\ Even(p[s] \oplus x[s], u[s])
               /\ Total(u) \preceq q
               /\ Even(q \oplus Cost(x), One)
<1> DEFINE q == PostCost(p, t)
           u == Scaled(t, q)
           l == setting.gross \otimes q
           x == Traded(p, u, None, l)
<1>1. Long(t) /\ p \in Vectors
  BY TargetLong DEF Long
<1>2. /\ q \in Fractions /\ Zero \prec q
      /\ \A traded \in Vectors :
            (\A s \in Symbols : Even(p[s] \oplus traded[s], t[s] \otimes q))
               => Even(q \oplus Cost(traded), One)
  BY <1>1, PostCostBalances
<1>3. setting.gross \in Fractions /\ Zero \in Fractions /\ One \in Fractions
  BY SettingIs DEF Zero, One, Fractions
<1> HIDE DEF q
<1>4. Zero \preceq q
  BY <1>2, <1>3, LessOrders
<1>5. u \in Vectors /\ (\A s \in Symbols : t[s] \in Fractions /\ u[s] = t[s] \otimes q)
      /\ l \in Fractions
  <2>1. u \in Vectors /\ \A s \in Symbols : t[s] \in Fractions /\ u[s] = t[s] \otimes q
    BY <1>2, VectorsAre
  <2>2. l \in Fractions
    BY <1>2, <1>3, FractionsClosed
  <2> QED BY <2>1, <2>2
<1> HIDE DEF u
<1>6. \A s \in Symbols : u[s] \in Fractions /\ Zero \preceq u[s]
  <2> SUFFICES ASSUME NEW s \in Symbols PROVE u[s] \in Fractions /\ Zero \preceq u[s]
    OBVIOUS
  <2> DEFINE a == t[s]
  <2>1. a \in Fractions /\ Zero \preceq a /\ u[s] = a \otimes q
    BY <1>5
  <2> HIDE DEF a
  <2> QED BY <1>2, <1>4, <2>1, TimesSign, FractionsClosed
<1>7. Gross(u) \preceq l
  <2>1. \A s \in Symbols : Size(u[s]) \preceq Size(t[s]) \otimes q
    BY <1>2, <1>4, <1>5, SizeTimes
  <2>2. Gross(u) \preceq Gross(t) \otimes q
    BY <1>2, <1>5, <2>1, GrossScales
  <2> DEFINE a == Gross(u)
             b == Gross(t)
  <2>3. a \in Fractions /\ b \in Fractions /\ b \preceq setting.gross /\ a \preceq b \otimes q
    BY <1>5, <2>2, GrossIs
  <2> HIDE DEF a, b
  <2>4. b \otimes q \preceq setting.gross \otimes q /\ b \otimes q \in Fractions
    BY <1>2, <1>3, <1>4, <2>3, TimesMonotone, FractionsClosed
  <2>5. a \preceq l
    BY <1>5, <2>3, <2>4, LessOrders
  <2> QED BY <2>5 DEF a
<1> HIDE DEF l
<1>8. x \in Vectors /\ \A s \in Symbols : Even(p[s] \oplus x[s], u[s])
  BY <1>1, <1>5, <1>7, TradedReaches
<1> HIDE DEF x
<1>9. Even(q \oplus Cost(x), One)
  <2>1. \A s \in Symbols : Even(p[s] \oplus x[s], t[s] \otimes q)
    BY <1>5, <1>8
  <2> QED BY <1>2, <1>8, <2>1
<1>10. Total(u) \preceq q
  <2> DEFINE T == Total(t)
             U == Total(u)
             o == One \otimes q
  <2>1. U = AddOver(u, Symbols) /\ T = AddOver(t, Symbols) /\ T \in Fractions /\ U \in Fractions
        /\ T \preceq One
    <3>1. DOMAIN t = Symbols /\ DOMAIN u = Symbols
      BY <1>5 DEF Vectors
    <3> QED BY <1>1, <1>5, <3>1, TotalIs, GrossIs DEF Long
  <2> HIDE DEF T, U
  <2>2. \A s \in Symbols : u[s] \in Fractions /\ t[s] \in Fractions /\ Even(u[s], t[s] \otimes q)
    <3> SUFFICES ASSUME NEW s \in Symbols
                 PROVE  u[s] \in Fractions /\ t[s] \in Fractions /\ Even(u[s], t[s] \otimes q)
      OBVIOUS
    <3> DEFINE b == u[s]
    <3>1. b \in Fractions /\ b = t[s] \otimes q /\ t[s] \in Fractions
      BY <1>5, <1>6
    <3> HIDE DEF b
    <3>2. Even(b, b)
      BY <3>1, EvenOrders
    <3> QED BY <3>1, <3>2 DEF b
  <2>3. Even(U, T \otimes q)
    BY <1>2, <2>1, <2>2, FiniteSymbols, AddTimes
  <2>4. T \otimes q \preceq o /\ T \otimes q \in Fractions /\ o \in Fractions
    BY <1>2, <1>3, <1>4, <2>1, TimesMonotone, FractionsClosed
  <2>5. o = q \otimes One
    BY <1>2, <1>3, TimesCommutes
  <2>6. o \preceq q
    BY <1>2, <2>5, EvenUnits DEF Even
  <2> HIDE DEF o
  <2> DEFINE y == T \otimes q
  <2>7. y \in Fractions /\ U \preceq y /\ y \preceq o
    BY <2>3, <2>4 DEF Even
  <2> HIDE DEF y
  <2>8. U \preceq q
    BY <1>2, <2>1, <2>4, <2>6, <2>7, LessOrders
  <2> QED BY <2>8 DEF U
<1> QED BY <1>2, <1>5, <1>6, <1>8, <1>9, <1>10 DEF q, u, x, l

LEMMA AddPlus ==
    ASSUME NEW S, IsFiniteSet(S), NEW h, NEW f, NEW g,
           \A x \in S : /\ h[x] \in Fractions /\ f[x] \in Fractions /\ g[x] \in Fractions
                        /\ Even(f[x] \oplus g[x], h[x])
    PROVE  Even(AddOver(f, S) \oplus AddOver(g, S), AddOver(h, S))
<1>0. One \in Fractions
  BY DEF One, Fractions
<1>1. ASSUME NEW a \in Fractions, NEW b \in Fractions
      PROVE  a \oplus (b \otimes One) = a \oplus b /\ a \oplus b \in Fractions
  <2> DEFINE e == b \otimes One
  <2>1. Even(e, b) /\ Even(a, a) /\ e \in Fractions
    BY <1>0, <1>1, EvenUnits, EvenOrders, FractionsClosed
  <2> HIDE DEF e
  <2>2. a \oplus e = a \oplus b
    BY <1>1, <2>1, EvenComputes
  <2> QED BY <1>1, <2>2, FractionsClosed DEF e
<1>2. \A x \in S : Even(h[x], f[x] \oplus (g[x] \otimes One))
  <2> SUFFICES ASSUME NEW x \in S PROVE Even(h[x], f[x] \oplus (g[x] \otimes One))
    OBVIOUS
  <2>1. f[x] \oplus (g[x] \otimes One) = f[x] \oplus g[x]
    BY <1>1
  <2>2. Even(f[x] \oplus g[x], h[x])
    OBVIOUS
  <2> QED BY <2>1, <2>2 DEF Even
<1> DEFINE a == AddOver(f, S)
           b == AddOver(g, S)
           e == AddOver(h, S)
<1>3. Even(e, a \oplus (b \otimes One))
  BY <1>0, <1>2, AddLinear
<1>4. a \in Fractions /\ b \in Fractions
  BY AddType
<1> HIDE DEF a, b, e
<1>5. Even(e, a \oplus b)
  BY <1>1, <1>3, <1>4
<1> QED BY <1>5 DEF Even, a, b, e

(* What a rebalance of a funded book leaves: positions that are not short, *)
(* the equity after costs when it is filled at the close, and something    *)
(* whenever it needs no credit.                                            *)
LEMMA LeavesEnough ==
    ASSUME NEW c \in Fractions, NEW H \in Fractions, NEW v \in Fractions, NEW q \in Fractions,
           NEW U \in Fractions, NEW G \in Fractions, NEW x \in Fractions,
           Zero \prec v, U \preceq q, Zero \prec q, Zero \preceq x,
           Even(c, v \otimes (q \ominus (U \oplus (G \otimes x)))), Even(H, U \otimes v)
    PROVE  /\ x = Zero => Zero \preceq c /\ c \oplus H = v \otimes q
           /\ Zero \preceq c => Zero \preceq q \ominus (U \oplus (G \otimes x))
           /\ Zero \prec q \ominus (G \otimes x) => Zero \prec c \oplus H
<1> DEFINE K == G \otimes x
           y == q \ominus (U \oplus K)
           z == q \ominus K
           a == v \otimes y
           e == v \otimes z
<1>1. K \in Fractions /\ One \in Fractions /\ Zero \in Fractions
  BY FractionsClosed
<1>2. x = Zero => Even(K, Zero)
  <2>1. Even(G \otimes Zero, Zero)
    BY EvenUnits
  <2> QED BY <2>1
<1>3. Even(c, v \otimes (q \ominus (U \oplus K))) /\ Even(H, U \otimes v)
  OBVIOUS
<1> HIDE DEF K
<1>4. y \in Fractions /\ z \in Fractions
  <2>1. U \oplus K \in Fractions
    BY <1>1, FractionsClosed
  <2> QED BY <1>1, <2>1, FractionsClosed
<1>5. Even(c \oplus H, e)
  BY <1>1, <1>3, WorthLeft
<1>6. Even(K, Zero) => Zero \preceq y /\ Even(z, q)
  <2> SUFFICES ASSUME Even(K, Zero) PROVE Zero \preceq y /\ Even(z, q)
    OBVIOUS
  <2>1. PICK d \in Nat \ {0}, n, m, l, o \in Int : Is(q, n, d) /\ Is(U, m, d)
    BY CommonFour
  <2>2. Is(Zero, 0, d)
    BY <2>1, UnitsAre
  <2>3. Is(K, 0, d)
    <3>1. Even(Zero, K)
      BY DEF Even
    <3> QED BY <1>1, <2>2, <3>1, EvenIs
  <2>4. Is(z, n, d)
    <3>1. Is(z, n - 0, d) /\ n - 0 = n
      BY <2>1, <2>3, PlusIs
    <3> QED BY <3>1
  <2>5. Is(y, n - (m + 0), d)
    <3>1. Is(U \oplus K, m + 0, d)
      BY <2>1, <2>3, PlusIs
    <3> QED BY <2>1, <3>1, PlusIs
  <2>6. m <= n
    BY <2>1, LessIs
  <2>7. 0 <= n - (m + 0) /\ n <= n
    BY <2>1, <2>6
  <2> HIDE DEF y, z
  <2>8. Zero \preceq y
    BY <2>2, <2>5, <2>7, LessIs
  <2>9. z \preceq q /\ q \preceq z
    BY <2>1, <2>4, <2>7, LessIs
  <2> QED BY <2>8, <2>9 DEF Even
<1>7. a \in Fractions /\ a = y \otimes v /\ e \in Fractions /\ e = z \otimes v /\ Even(c, a)
  <2> HIDE DEF y, z
  <2>1. a \in Fractions /\ e \in Fractions
    BY <1>4, FractionsClosed
  <2>2. a = y \otimes v /\ e = z \otimes v
    BY <1>4, TimesCommutes
  <2>3. Even(c, a)
    BY <1>3 DEF y
  <2> QED BY <2>1, <2>2, <2>3
<1> HIDE DEF y, z
<1>8. /\ Zero \preceq y => Zero \preceq a
      /\ Zero \preceq a => Zero \preceq y
      /\ Zero \prec z => Zero \prec e
  <2>1. Zero \preceq v
    BY <1>1, LessOrders
  <2>2. /\ Zero \preceq y /\ Zero \preceq v => Zero \preceq y \otimes v
        /\ Zero \prec z \otimes v <=> Zero \prec z
        /\ Zero \prec y \otimes v <=> Zero \prec y
        /\ y \otimes v \preceq Zero <=> y \preceq Zero
    BY <1>4, TimesSign
  <2>3. Zero \preceq y \otimes v => Zero \preceq y
    <3> SUFFICES ASSUME ~ (Zero \preceq y) PROVE ~ (Zero \preceq y \otimes v)
      OBVIOUS
    <3>1. PICK d \in Nat \ {0}, n, m, l, o \in Int : Is(y, n, d) /\ Is(v, m, d)
      BY <1>4, CommonFour
    <3>2. Is(Zero, 0, d) /\ Is(Zero, 0, d * d) /\ Is(y \otimes v, n * m, d * d)
      BY <3>1, NatTimes, UnitsAre, TimesIs
    <3>3. n < 0 /\ 0 < m
      BY <3>1, <3>2, LessIs
    <3>4. n * m < 0
      BY <3>1, <3>3
    <3>5. ~ (0 <= n * m)
      BY <3>1, <3>4
    <3> QED BY <3>2, <3>5, LessIs
  <2> QED BY <1>7, <2>1, <2>2, <2>3
<1>9. Even(z, q) => e = v \otimes q
  <2>1. Even(v, v)
    BY EvenOrders
  <2> QED BY <1>4, <2>1, EvenComputes
<1>10. Lowest(c \oplus H) /\ Lowest(v \otimes q) /\ c \oplus H \in Fractions /\ v \otimes q \in Fractions
  <2>1. PICK d \in Nat \ {0}, n, m, l, o \in Int :
          Is(c, n, d) /\ Is(H, m, d) /\ Is(v, l, d) /\ Is(q, o, d)
    BY CommonFour
  <2>2. Lowest(c \oplus H) /\ Lowest(v \otimes q)
    BY <2>1, PlusIs, TimesIs
  <2> QED BY <2>2, FractionsClosed
<1> DEFINE w == c \oplus H
<1>11. w \in Fractions /\ Lowest(w) /\ Even(w, e)
  BY <1>5, <1>10
<1> HIDE DEF a, e, w
<1>12. Zero \preceq a => Zero \preceq c
  BY <1>1, <1>7, LessOrders DEF Even
<1>13. Zero \preceq c => Zero \preceq a
  BY <1>1, <1>7, LessOrders DEF Even
<1>14. Zero \prec e => Zero \prec w
  BY <1>1, <1>7, <1>11, LessOrders DEF Even
<1>15. Even(K, Zero) => w = v \otimes q
  BY <1>6, <1>9, <1>10, <1>11, EvenOrders
<1> QED BY <1>2, <1>6, <1>8, <1>12, <1>13, <1>14, <1>15 DEF w, y, z, K

(* What is paid for what is traded, of a book worth v.                     *)
Payment(x) == Total(x) \oplus (Gross(x) \otimes setting.slip) \oplus Cost(x)

LEMMA RebalanceLeaves ==
    ASSUME setting \in Settings, setting.gross \preceq One, RoundTripsCostLess,
           NEW e, Funded(e),
           NEW p, p = Scaled(e.held, One \oslash Worth(e)), Long(p),
           Even(Total(e.held), Total(p) \otimes Worth(e)),
           \A s \in Symbols : p[s] = e.held[s] \otimes (One \oslash Worth(e)),
           NEW q \in Fractions, NEW u \in Vectors, NEW x \in Vectors, Zero \prec q,
           \A s \in Symbols : Zero \preceq u[s] /\ Even(p[s] \oplus x[s], u[s]),
           Total(u) \preceq q, Even(q \oplus Cost(x), One)
    PROVE  LET v == Worth(e)
               held == Sum2(e.held, Scaled(x, v))
               cash == e.cash \ominus (v \otimes Payment(x))
           IN  /\ held \in Vectors /\ cash \in Fractions
               /\ \A s \in Symbols : Zero \preceq held[s]
               /\ setting.slip = Zero => /\ Zero \preceq cash
                                         /\ cash \oplus Total(held) = v \otimes q
               /\ Zero \preceq cash => Zero \prec cash \oplus Total(held)
<1> DEFINE v == Worth(e)
           c == e.cash
           h == e.held
           held == Sum2(h, Scaled(x, v))
           cash == c \ominus (v \otimes Payment(x))
           H == Total(h)
           P == Total(p)
           T == Total(x)
           U == Total(u)
           N == Total(held)
           G == Gross(x)
           C == Cost(x)
           r == setting.slip
           B == AddOver(Buys(x), Symbols)
           S == AddOver(Sells(x), Symbols)
<1>0. One \in Fractions /\ Zero \in Fractions
  BY DEF One, Zero, Fractions
<1>1. /\ c \in Fractions /\ h \in Vectors /\ H \in Fractions /\ v \in Fractions
      /\ v = c \oplus H /\ Zero \prec v /\ \A s \in Symbols : h[s] \in Fractions
  BY FundedIs DEF Funded
<1>2. p \in Vectors /\ P \preceq One /\ \A s \in Symbols : p[s] \in Fractions /\ Zero \preceq p[s]
  BY DEF Long, Vectors
<1>3. \A s \in Symbols : u[s] \in Fractions /\ x[s] \in Fractions
  BY DEF Vectors
<1>4. /\ r \in Fractions /\ Zero \preceq r /\ setting.buy \in Fractions /\ setting.sell \in Fractions
      /\ Zero \preceq setting.buy /\ r \oplus setting.sell \prec One
  BY SettingIs, RatesAre DEF RoundTripsCostLess
<1>5. Even(H, P \otimes v) /\ Even(q \oplus C, One) /\ U \preceq q
  OBVIOUS
<1> HIDE DEF v, c, h, r
<1>6. held \in Vectors /\ \A s \in Symbols : held[s] = h[s] \oplus (x[s] \otimes v)
  <2> DEFINE g == Scaled(x, v)
  <2>1. g \in Vectors /\ \A s \in Symbols : g[s] = x[s] \otimes v
    BY <1>1, VectorsAre
  <2> HIDE DEF g
  <2>2. Sum2(h, g) \in Vectors /\ \A s \in Symbols : Sum2(h, g)[s] = h[s] \oplus g[s]
    BY <1>1, <2>1, VectorsAre
  <2> QED BY <2>1, <2>2 DEF g
<1> HIDE DEF held
<1>7. /\ P \in Fractions /\ T \in Fractions /\ U \in Fractions /\ N \in Fractions
      /\ G \in Fractions
  BY <1>2, <1>6, GrossIs
<1>8. /\ P = AddOver(p, Symbols) /\ T = AddOver(x, Symbols) /\ U = AddOver(u, Symbols)
      /\ N = AddOver(held, Symbols)
  <2>1. /\ DOMAIN p = Symbols /\ DOMAIN x = Symbols /\ DOMAIN u = Symbols
        /\ DOMAIN held = Symbols
    BY <1>2, <1>6 DEF Vectors
  <2> QED BY <2>1, TotalIs
<1>9. C \in Fractions /\ C = (B \otimes setting.buy) \oplus (S \otimes setting.sell)
      /\ B \in Fractions /\ Zero \preceq B /\ S \in Fractions /\ Zero \preceq S
  BY CostIs, CostType
<1>10. B \preceq U /\ S \preceq P /\ Even(G, B \oplus (S \otimes One))
  BY <1>2, LegsBounded
<1>11. Payment(x) = (T \oplus (G \otimes r)) \oplus C
  BY DEF Payment, r
<1> HIDE DEF H, P, T, U, N, G, C, B, S
<1>12. Even(P \oplus T, U)
  <2>1. Even(AddOver(p, Symbols) \oplus AddOver(x, Symbols), AddOver(u, Symbols))
    BY <1>2, <1>3, FiniteSymbols, AddPlus
  <2> QED BY <1>8, <2>1
<1>13. ASSUME NEW s \in Symbols
       PROVE  /\ held[s] \in Fractions /\ Even(held[s], u[s] \otimes v) /\ Zero \preceq held[s]
  <2> DEFINE a == h[s]
             b == u[s]
             t == x[s]
             g == held[s]
             f == a \otimes (One \oslash v)
  <2>1. /\ a \in Fractions /\ b \in Fractions /\ t \in Fractions /\ f \in Fractions
        /\ g = a \oplus (t \otimes v) /\ f = p[s] /\ Zero \preceq b
    BY <1>1, <1>2, <1>3, <1>6 DEF h, v
  <2>2. Even(f \oplus t, b)
    BY <2>1
  <2> HIDE DEF a, b, t, g
  <2> HIDE DEF f
  <2>3. f \oplus t \in Fractions /\ b \otimes One \in Fractions /\ Even(b, b \otimes One)
    BY <1>0, <2>1, EvenUnits, FractionsClosed DEF Even
  <2>4. Even(f \oplus t, b \otimes One)
    BY <2>1, <2>2, <2>3, EvenOrders
  <2>5. Even(a \oplus (t \otimes v), b \otimes v)
    <3>1. Even((a \otimes (One \oslash v)) \oplus t, b \otimes One)
      BY <2>4 DEF f
    <3> QED BY <1>1, <2>1, <3>1, LegBooked
  <2>6. Zero \preceq b \otimes v /\ b \otimes v \in Fractions
    <3>1. Zero \preceq v
      BY <1>0, <1>1, LessOrders
    <3> QED BY <1>1, <2>1, <3>1, TimesSign, FractionsClosed
  <2>7. g \in Fractions /\ Even(g, b \otimes v)
    <3>1. t \otimes v \in Fractions
      BY <1>1, <2>1, FractionsClosed
    <3> QED BY <2>1, <2>5, <3>1, FractionsClosed
  <2>8. Zero \preceq g
    BY <1>0, <2>6, <2>7, LessOrders DEF Even
  <2> QED BY <2>7, <2>8 DEF g, b
<1>14. Even(N, U \otimes v)
  <2>1. Even(AddOver(held, Symbols), AddOver(u, Symbols) \otimes v)
    BY <1>1, <1>3, <1>13, FiniteSymbols, AddTimes
  <2> QED BY <1>8, <2>1
<1> DEFINE K == G \otimes r
<1>15. K \in Fractions
  BY <1>4, <1>7, FractionsClosed
<1>16. Even(cash, v \otimes (q \ominus (U \oplus K)))
  <2> HIDE DEF K
  <2>1. Even(c \ominus (v \otimes ((T \oplus K) \oplus C)), v \otimes (q \ominus (U \oplus K)))
    BY <1>1, <1>5, <1>7, <1>9, <1>12, <1>15, CashLeft
  <2> QED BY <1>11, <2>1 DEF K
<1>17. cash \in Fractions
  <2>1. (T \oplus K) \oplus C \in Fractions
    <3>1. T \oplus K \in Fractions
      BY <1>7, <1>15, FractionsClosed
    <3> QED BY <1>9, <3>1, FractionsClosed
  <2>2. v \otimes Payment(x) \in Fractions
    BY <1>1, <1>11, <2>1, FractionsClosed
  <2> QED BY <1>1, <2>2, FractionsClosed
<1> HIDE DEF cash
<1>18. /\ r = Zero => Zero \preceq cash /\ cash \oplus N = v \otimes q
       /\ Zero \preceq cash => Zero \preceq q \ominus (U \oplus (G \otimes r))
       /\ Zero \prec q \ominus (G \otimes r) => Zero \prec cash \oplus N
  <2>1. /\ cash \in Fractions /\ N \in Fractions /\ v \in Fractions /\ U \in Fractions
        /\ G \in Fractions /\ r \in Fractions
        /\ Zero \prec v /\ U \preceq q /\ Zero \preceq r
        /\ Even(cash, v \otimes (q \ominus (U \oplus (G \otimes r)))) /\ Even(N, U \otimes v)
    BY <1>1, <1>4, <1>5, <1>7, <1>14, <1>16, <1>17
  <2> QED BY <2>1, LeavesEnough
<1>19. Zero \preceq q \ominus (U \oplus (G \otimes r)) => Zero \prec q \ominus (G \otimes r)
  <2> SUFFICES ASSUME Zero \preceq q \ominus (U \oplus (G \otimes r))
               PROVE  Zero \prec q \ominus (G \otimes r)
    OBVIOUS
  <2>1. S \preceq One
    BY <1>0, <1>2, <1>7, <1>9, <1>10, LessOrders
  <2> DEFINE j == setting.buy
             k == setting.sell
  <2>2. j \in Fractions /\ k \in Fractions /\ Zero \preceq j /\ r \oplus k \prec One
    BY <1>4
  <2>3. Even(q \oplus ((B \otimes j) \oplus (S \otimes k)), One)
    BY <1>5, <1>9
  <2> HIDE DEF j, k
  <2> QED BY <1>4, <1>7, <1>9, <1>10, <2>1, <2>2, <2>3, KeepsWorth
<1>20. \A s \in Symbols : Zero \preceq held[s]
  BY <1>13
<1> QED BY <1>6, <1>17, <1>18, <1>19, <1>20 DEF held, cash, N, r, v, c, h

(* What a long-only book comes to: it stays funded, or fills worse than    *)
(* the close made its engine give up.                                      *)
Solvent(e) ==
    \/ e.state = "running" /\ Funded(e)
    \/ e.state = "financing" /\ setting.slip # Zero /\ Zero \preceq e.cash

LEMMA RebalancedFunds ==
    ASSUME setting \in Settings, setting.gross \preceq One, RoundTripsCostLess,
           NEW e, Funded(e), e.state = "running",
           NEW t \in Vectors, \A s \in Symbols : Zero \preceq t[s],
           Gross(t) \preceq setting.gross
    PROVE  Solvent(Rebalanced(e, Worth(e), t))
<1> DEFINE v == Worth(e)
           p == Scaled(e.held, One \oslash v)
           q == PostCost(p, t)
           u == Scaled(t, q)
           x == Traded(p, u, None, setting.gross \otimes q)
           held == Sum2(e.held, Scaled(x, v))
           cash == e.cash \ominus (v \otimes Payment(x))
           booked == Rebalanced(e, v, t)
           after == v \otimes q
           payer == [e EXCEPT !.cash = cash, !.held = held]
<1>1. /\ Long(p) /\ Even(Total(e.held), Total(p) \otimes Worth(e))
      /\ \A s \in Symbols : p[s] = e.held[s] \otimes (One \oslash Worth(e))
  BY HeldShares
<1>2. booked = TradedTo(e, v, p, t, q)
  BY DEF Rebalanced
<1>3. p = Scaled(e.held, One \oslash Worth(e))
  OBVIOUS
<1> HIDE DEF p, booked
<1>4. /\ q \in Fractions /\ Zero \prec q /\ u \in Vectors /\ x \in Vectors
      /\ \A s \in Symbols : Zero \preceq u[s] /\ Even(p[s] \oplus x[s], u[s])
      /\ Total(u) \preceq q /\ Even(q \oplus Cost(x), One)
  BY <1>1, ScaledReached
<1>5. booked = Settled(e, held, cash, after)
  <2>1. ~ (q \preceq Zero)
    <3>1. Zero \in Fractions
      BY DEF Zero, Fractions
    <3> HIDE DEF q
    <3> QED BY <1>4, <3>1, LessOrders
  <2> HIDE DEF q
  <2> QED BY <1>2, <2>1 DEF TradedTo, Paid, Payment
<1> HIDE DEF q, u, x
<1>6. /\ held \in Vectors /\ cash \in Fractions /\ \A s \in Symbols : Zero \preceq held[s]
      /\ setting.slip = Zero => Zero \preceq cash /\ cash \oplus Total(held) = after
      /\ Zero \preceq cash => Zero \prec cash \oplus Total(held)
  BY <1>1, <1>3, <1>4, RebalanceLeaves
<1>7. e \in EventStates /\ Zero \preceq e.cash /\ Zero \in Fractions
  BY DEF Funded, Zero, Fractions
<1> HIDE DEF held, cash, after
<1>8. Zero \preceq cash \/ cash \prec Zero
  BY <1>6, <1>7, LessOrders
<1>9. Zero \preceq cash => ~ (cash \prec Zero)
  BY <1>6, <1>7, LessOrders
<1>10. CASE ~ (Zero \preceq cash)
  <2>1. Refuses(held, cash)
    BY <1>6, <1>8, <1>10 DEF Refuses
  <2>2. booked = Failed(e, "financing")
    BY <1>5, <2>1 DEF Settled
  <2>3. booked.state = "financing" /\ booked.cash = e.cash
    BY <1>7, <2>2 DEF Failed, EventStates
  <2> QED BY <1>6, <1>7, <1>10, <2>3 DEF Solvent, booked
<1>11. CASE Zero \preceq cash
  <2>1. ~ Refuses(held, cash)
    BY <1>9, <1>11 DEF Refuses
  <2>2. booked = payer
    BY <1>5, <1>6, <2>1 DEF Settled
  <2>3. /\ payer \in EventStates /\ payer.cash = cash /\ payer.held = held
        /\ payer.state = "running"
    BY <1>6, <1>7 DEF EventStates
  <2>4. Funded(payer)
    BY <1>6, <1>11, <2>3 DEF Funded, Worth
  <2> QED BY <2>2, <2>3, <2>4 DEF Solvent, booked
<1> QED BY <1>10, <1>11

(* Positive returns keep what there is positive.                           *)
LEMMA AccruedFunds ==
    ASSUME setting \in Settings, NEW e, Funded(e), NEW move \in Relatives
    PROVE  Funded(Accrued(e, move)) /\ Accrued(e, move).state = e.state
<1> DEFINE c == e.cash
           h == e.held
           k == One \oplus CashReturn
           a == Accrued(e, move)
           d == c \otimes k
           g == [s \in Symbols |-> h[s] \otimes move[s]]
           H == Total(h)
           G == Total(g)
<1>0. One \in Fractions /\ Zero \in Fractions
  BY DEF One, Zero, Fractions
<1>1. move \in Vectors /\ \A s \in Symbols : move[s] \in Fractions /\ Zero \prec move[s]
  BY BacktestAssumption, RatesAssumption DEF Vectors
<1>2. /\ c \in Fractions /\ h \in Vectors /\ H \in Fractions /\ H = AddOver(h, Symbols)
      /\ Zero \prec c \oplus H /\ Zero \preceq c
      /\ \A s \in Symbols : h[s] \in Fractions /\ Zero \preceq h[s]
  BY FundedIs DEF Funded
<1>3. a \in EventStates /\ a.state = e.state /\ a.cash = d /\ a.held = g
  <2>1. e \in EventStates
    BY DEF Funded
  <2>2. a \in EventStates /\ a.state = e.state
    BY <1>1, <2>1, AccruedType
  <2> QED BY <2>1, <2>2 DEF Accrued, EventStates
<1>4. k \in Fractions /\ Zero \prec k
  <2> DEFINE y == setting.yield
  <2>1. y \in Fractions /\ Negative(One) \prec y
    BY SettingIs, RatesAre
  <2>2. k = One \oplus y
    BY DEF CashReturn
  <2> HIDE DEF y, k
  <2>3. PICK b \in Nat \ {0}, n, m, l, o \in Int : Is(y, n, b)
    BY <2>1, CommonFour
  <2>4. Is(One, b, b) /\ Is(Zero, 0, b)
    BY <2>3, UnitsAre
  <2>5. Is(Negative(One), -b, b)
    BY <2>4, NegativeIs
  <2>6. -b < n
    BY <2>1, <2>3, <2>5, LessIs
  <2>7. Is(k, b + n, b)
    BY <2>2, <2>3, <2>4, PlusIs
  <2>8. 0 < b + n
    BY <2>3, <2>6
  <2> QED BY <2>4, <2>7, <2>8, LessIs DEF Is
<1> HIDE DEF c, h, k, a
<1>5. d \in Fractions /\ Zero \preceq d /\ (d \preceq Zero <=> c \preceq Zero)
  <2>1. Zero \preceq k
    BY <1>0, <1>4, LessOrders
  <2> QED BY <1>2, <1>4, <2>1, TimesSign, FractionsClosed
<1>6. \A s \in Symbols : g[s] = h[s] \otimes move[s]
  OBVIOUS
<1>7. DOMAIN g = Symbols
  OBVIOUS
<1> HIDE DEF d, g
<1>8. ASSUME NEW s \in Symbols
      PROVE  g[s] \in Fractions /\ Zero \preceq g[s] /\ (g[s] \preceq Zero <=> h[s] \preceq Zero)
  <2> DEFINE x == h[s]
             m == move[s]
  <2>1. x \in Fractions /\ m \in Fractions /\ Zero \preceq x /\ Zero \prec m /\ g[s] = x \otimes m
    BY <1>1, <1>2, <1>6
  <2>2. h[s] = x
    OBVIOUS
  <2> HIDE DEF x, m
  <2>3. Zero \preceq m
    BY <1>0, <2>1, LessOrders
  <2>4. /\ x \otimes m \in Fractions /\ Zero \preceq x \otimes m
        /\ x \otimes m \preceq Zero <=> x \preceq Zero
    BY <2>1, <2>3, TimesSign, FractionsClosed
  <2> QED BY <2>1, <2>2, <2>4
<1>9. G = AddOver(g, Symbols)
  BY <1>7, TotalIs
<1> HIDE DEF G, H
<1>10. G \in Fractions /\ Zero \preceq G /\ \A s \in Symbols : g[s] \preceq G
  BY <1>8, <1>9, FiniteSymbols, AddNotNegative
<1>11. d \oplus G \in Fractions /\ d \preceq d \oplus G /\ G \preceq d \oplus G
  BY <1>5, <1>10, PlusSign, FractionsClosed
<1>12. Zero \prec d \oplus G
  <2> DEFINE w == d \oplus G
  <2> HIDE DEF w
  <2> SUFFICES ASSUME ~ (Zero \prec w) PROVE FALSE
    BY DEF w
  <2>1. w \in Fractions /\ w \preceq Zero /\ d \preceq w /\ G \preceq w
    <3>1. w \in Fractions /\ d \preceq w /\ G \preceq w
      BY <1>11 DEF w
    <3> QED BY <1>0, <3>1, LessOrders
  <2>2. c \preceq Zero
    BY <1>0, <1>5, <2>1, LessOrders
  <2>3. G \preceq Zero
    BY <1>0, <1>10, <2>1, LessOrders
  <2>4. ASSUME NEW s \in Symbols PROVE h[s] \in Fractions /\ Even(h[s], Zero)
    <3> DEFINE x == g[s]
    <3>1. x \in Fractions /\ x \preceq G /\ (x \preceq Zero <=> h[s] \preceq Zero)
      BY <1>8, <1>10
    <3> HIDE DEF x
    <3>2. x \preceq Zero
      BY <1>0, <1>10, <2>3, <3>1, LessOrders
    <3> QED BY <1>2, <3>1, <3>2 DEF Even
  <2>5. Even(H, Zero)
    <3>1. Even(AddOver(h, Symbols), Zero)
      BY <2>4, FiniteSymbols, AddNothing
    <3> QED BY <1>2, <3>1
  <2>6. c \oplus H = Zero \oplus Zero
    BY <1>0, <1>2, <2>2, <2>5, EvenComputes DEF Even
  <2>7. Zero \oplus Zero \preceq Zero /\ Zero \oplus Zero \in Fractions
    BY <1>0, EvenUnits, FractionsClosed DEF Even
  <2> QED BY <1>0, <1>2, <2>6, <2>7, LessOrders
<1>13. Worth(a) = d \oplus G
  BY <1>3 DEF Worth, G
<1> QED BY <1>3, <1>5, <1>8, <1>12, <1>13 DEF Funded, a

(* The mark at the close of a funded book is one, and leaves it funded.    *)
LEMMA MarkedFunds ==
    ASSUME NEW e, Funded(e), e.state = "running"
    PROVE  Solvent(Marked(e))
<1> DEFINE v == Worth(e)
           marked == [e EXCEPT !.equity = v]
<1>0. Zero \in Fractions
  BY DEF Zero, Fractions
<1>1. /\ v \in Fractions /\ Zero \prec v /\ e \in EventStates
      /\ \A s \in Symbols : Zero \preceq e.held[s]
      /\ Zero \preceq e.cash
  BY FundedIs DEF Funded
<1>2. v = e.cash \oplus Total(e.held)
  BY DEF Worth
<1>3. \A s \in Symbols : ~ (v \prec Size(e.held[s]))
  <2> SUFFICES ASSUME NEW s \in Symbols PROVE ~ (v \prec Size(e.held[s]))
    OBVIOUS
  <2> DEFINE h == e.held[s]
             H == Total(e.held)
  <2>1. h \in Fractions /\ Zero \preceq h /\ h \preceq H /\ H \in Fractions /\ H \preceq v
    BY <1>1, FundedIs
  <2> HIDE DEF v, h, H
  <2>2. h \preceq v
    BY <1>1, <2>1, LessOrders
  <2>3. Size(h) = h
    <3>1. ~ (h \prec Zero)
      BY <1>0, <2>1, LessOrders
    <3> QED BY <3>1 DEF Size
  <2> QED BY <1>1, <2>1, <2>2, <2>3, LessOrders DEF h
<1>4. ~ (v \preceq Zero)
  <2> HIDE DEF v
  <2> QED BY <1>0, <1>1, LessOrders
<1>5. Marked(e) = marked
  <2> HIDE DEF v
  <2> QED BY <1>2, <1>3, <1>4 DEF Marked
<1>6. /\ marked \in EventStates /\ marked.state = "running" /\ marked.cash = e.cash
      /\ marked.held = e.held
  <2> HIDE DEF v
  <2> QED BY <1>1 DEF EventStates
<1>7. Worth(marked) = v
  BY <1>6 DEF Worth
<1> HIDE DEF marked
<1> QED BY <1>1, <1>5, <1>6, <1>7 DEF Solvent, Funded

LEMMA EventBarFunds ==
    ASSUME setting \in Settings, setting.gross \preceq One, RoundTripsCostLess,
           NEW e, Funded(e), e.state = "running", NEW move \in Relatives,
           NEW t \in Vectors \cup {None},
           t # None => Gross(t) \preceq setting.gross /\ \A s \in Symbols : Zero \preceq t[s]
    PROVE  Solvent(EventBar(e, move, t))
<1> DEFINE a == Accrued(e, move)
           booked == Rebalanced(a, Worth(a), t)
<1>1. Funded(a) /\ a.state = "running"
  BY AccruedFunds
<1> HIDE DEF a
<1>2. ~ (Worth(a) \preceq Zero)
  <2> DEFINE w == Worth(a)
  <2>1. w \in Fractions /\ Zero \prec w /\ Zero \in Fractions
    BY <1>1, FundedIs DEF Funded, Zero, Fractions
  <2> HIDE DEF w
  <2>2. ~ (w \preceq Zero)
    BY <2>1, LessOrders
  <2> QED BY <2>2 DEF w
<1>3. EventBar(e, move, t) = Marked(IF t = None THEN a ELSE booked)
  BY <1>2 DEF EventBar, AtClose, Worth, a
<1>4. CASE t = None
  BY <1>1, <1>3, <1>4, MarkedFunds
<1>5. CASE t # None
  <2>1. t \in Vectors
    BY <1>5
  <2>2. Solvent(booked)
    BY <1>1, <1>5, <2>1, RebalancedFunds
  <2> HIDE DEF booked
  <2>3. EventBar(e, move, t) = Marked(booked)
    BY <1>3, <1>5
  <2>4. CASE booked.state = "running"
    <3>1. Funded(booked)
      BY <2>2, <2>4 DEF Solvent
    <3> QED BY <2>3, <2>4, <3>1, MarkedFunds
  <2>5. CASE booked.state # "running"
    <3>1. Marked(booked) = booked
      BY <2>5 DEF Marked
    <3> QED BY <2>2, <2>3, <3>1
  <2> QED BY <2>4, <2>5
<1> QED BY <1>4, <1>5

-----------------------------------------------------------------------------
(* 9. A long-only book of weights is worth something.                      *)

(* A capped trade between positions that are not short sells no more than  *)
(* there is, and neither does the leg that reduces it; the rest buys.      *)
SaleBounded(p, x) == Negative(p) \preceq x

LEMMA BoundedSale ==
    ASSUME NEW p \in Fractions, NEW t \in Fractions, Zero \preceq p, Zero \preceq t
    PROVE  LET x == t \ominus p
           IN  /\ SaleBounded(p, x)
               /\ \A k \in Fractions : Zero \preceq k =>
                    SaleBounded(p, IF x \prec Zero THEN Negative(Lesser(Negative(x), k))
                                   ELSE Lesser(x, k))
<1> DEFINE x == t \ominus p
<1>1. ASSUME NEW k \in Fractions, Zero \preceq k
      PROVE  /\ SaleBounded(p, x)
             /\ SaleBounded(p, IF x \prec Zero THEN Negative(Lesser(Negative(x), k))
                               ELSE Lesser(x, k))
  <2>1. PICK d \in Nat \ {0}, n, m, l, o \in Int : Is(p, n, d) /\ Is(t, m, d) /\ Is(k, l, d)
    BY CommonFour
  <2> DEFINE i == m - n
  <2>2. Is(x, i, d) /\ Is(Zero, 0, d) /\ Is(Negative(p), -n, d)
    BY <2>1, PlusIs, UnitsAre, NegativeIs
  <2>3. 0 <= n /\ 0 <= m /\ 0 <= l
    BY <1>1, <2>1, <2>2, LessIs
  <2>4. i \in Int /\ -n <= i
    BY <2>1, <2>3
  <2> HIDE DEF x, i
  <2>5. Is(Negative(x), -i, d)
    BY <2>2, NegativeIs
  <2>6. SaleBounded(p, x)
    BY <2>2, <2>4, LessIs DEF SaleBounded
  <2>7. CASE x \prec Zero
    <3>1. Negative(x) \preceq k => Is(Lesser(Negative(x), k), -i, d)
      BY <2>5 DEF Lesser
    <3>2. ~ (Negative(x) \preceq k) => Is(Lesser(Negative(x), k), l, d) /\ l < -i
      <4>1. Negative(x) \preceq k <=> -i <= l
        BY <2>1, <2>5, LessIs
      <4>2. ~ (-i <= l) => l < -i
        BY <2>1, <2>4
      <4> QED BY <2>1, <4>1, <4>2 DEF Lesser
    <3>3. \E j \in Int : Is(Lesser(Negative(x), k), j, d) /\ j <= -i
      BY <2>1, <2>4, <3>1, <3>2
    <3>4. PICK j \in Int : Is(Lesser(Negative(x), k), j, d) /\ j <= -i
      BY <3>3
    <3>5. Is(Negative(Lesser(Negative(x), k)), -j, d)
      BY <3>4, NegativeIs
    <3>6. i < 0
      BY <2>2, <2>7, LessIs
    <3>7. -n <= -j
      BY <2>1, <2>4, <3>4
    <3>8. SaleBounded(p, Negative(Lesser(Negative(x), k)))
      BY <2>2, <3>5, <3>7, LessIs DEF SaleBounded
    <3> QED BY <2>6, <2>7, <3>8
  <2>8. CASE ~ (x \prec Zero)
    <3>1. -n <= l /\ -n <= i
      BY <2>1, <2>3, <2>4
    <3>2. Negative(p) \preceq k /\ Negative(p) \preceq x
      BY <2>1, <2>2, <3>1, LessIs
    <3>3. SaleBounded(p, Lesser(x, k))
      BY <3>2 DEF SaleBounded, Lesser
    <3> QED BY <2>6, <2>8, <3>3
  <2> QED BY <2>7, <2>8
<1>2. Zero \in Fractions /\ Zero \preceq Zero
  <2>1. Zero \in Fractions
    BY DEF Zero, Fractions
  <2> QED BY <2>1, LessOrders
<1> QED BY <1>1, <1>2

LEMMA ReducedSale ==
    ASSUME NEW p \in Fractions, NEW b \in Fractions, Zero \preceq p, SaleBounded(p, b)
    PROVE  LET r == IF Zero \prec p /\ b \prec Zero THEN Greater(b, Negative(p))
                    ELSE IF p \prec Zero /\ Zero \prec b THEN Lesser(b, Negative(p))
                    ELSE Zero
           IN  r \in Fractions /\ Zero \preceq p \oplus r /\ Zero \preceq b \ominus r
<1> DEFINE r == IF Zero \prec p /\ b \prec Zero THEN Greater(b, Negative(p))
                ELSE IF p \prec Zero /\ Zero \prec b THEN Lesser(b, Negative(p))
                ELSE Zero
<1>1. PICK d \in Nat \ {0}, n, m, l, o \in Int : Is(p, n, d) /\ Is(b, m, d)
  BY CommonFour
<1>2. Is(Zero, 0, d) /\ Is(Negative(p), -n, d)
  BY <1>1, UnitsAre, NegativeIs
<1>3. 0 <= n /\ -n <= m
  BY <1>1, <1>2, LessIs DEF SaleBounded
<1>4. /\ Zero \prec p <=> 0 < n
      /\ b \prec Zero <=> m < 0
      /\ ~ (p \prec Zero)
      /\ b \preceq Negative(p) <=> m <= -n
  <2>1. /\ Zero \prec p <=> 0 < n
        /\ b \prec Zero <=> m < 0
        /\ p \prec Zero <=> n < 0
        /\ b \preceq Negative(p) <=> m <= -n
    BY <1>1, <1>2, LessIs
  <2>2. ~ (n < 0)
    BY <1>1, <1>3
  <2> QED BY <2>1, <2>2
<1>5. CASE Zero \prec p /\ b \prec Zero
  <2>1. r = Greater(b, Negative(p))
    BY <1>5
  <2>2. Is(r, m, d)
    <3>1. CASE m <= -n
      <4>1. m = -n
        BY <1>1, <1>3, <3>1
      <4>2. r = Negative(p)
        BY <1>4, <2>1, <3>1 DEF Greater
      <4> QED BY <1>2, <4>1, <4>2
    <3>2. CASE ~ (m <= -n)
      <4>1. r = b
        BY <1>4, <2>1, <3>2 DEF Greater
      <4> QED BY <1>1, <4>1
    <3> QED BY <3>1, <3>2
  <2> HIDE DEF r
  <2>3. Is(p \oplus r, n + m, d) /\ Is(b \ominus r, m - m, d)
    BY <1>1, <2>2, PlusIs
  <2>4. 0 <= n + m /\ 0 <= m - m
    BY <1>1, <1>3
  <2>5. Zero \preceq p \oplus r /\ Zero \preceq b \ominus r
    BY <1>2, <2>3, <2>4, LessIs
  <2> QED BY <2>2, <2>5 DEF Is, r
<1>6. CASE ~ (Zero \prec p /\ b \prec Zero)
  <2>1. r = Zero
    BY <1>4, <1>6
  <2>2. 0 <= m
    BY <1>1, <1>3, <1>4, <1>6
  <2> HIDE DEF r
  <2>3. Is(p \oplus r, n + 0, d) /\ Is(b \ominus r, m - 0, d)
    BY <1>1, <1>2, <2>1, PlusIs
  <2>4. 0 <= n + 0 /\ 0 <= m - 0
    BY <1>1, <1>3, <2>2
  <2>5. Zero \preceq p \oplus r /\ Zero \preceq b \ominus r
    BY <1>2, <2>3, <2>4, LessIs
  <2> QED BY <1>2, <2>1, <2>5 DEF Is, r
<1> QED BY <1>5, <1>6

LEMMA PlusNotNegative ==
    ASSUME NEW p \in Fractions, NEW r \in Fractions, NEW g \in Fractions,
           Zero \preceq p \oplus r, Zero \preceq g
    PROVE  Zero \preceq p \oplus (r \oplus g)
<1> DEFINE a == p \oplus r
<1>1. p \oplus (r \oplus g) = a \oplus g
  BY PlusAssociates
<1>2. a \in Fractions /\ Zero \preceq a /\ Zero \in Fractions
  BY FractionsClosed
<1> HIDE DEF a
<1>3. a \preceq a \oplus g /\ a \oplus g \in Fractions
  BY <1>2, PlusSign, FractionsClosed
<1> QED BY <1>1, <1>2, <1>3, LessOrders

(* What is allowed of it leaves no short position.                         *)
LEMMA AllowedStaysLong ==
    ASSUME NEW previous \in Vectors, NEW reducing \in Vectors, NEW increasing \in Vectors,
           NEW limit \in Fractions,
           \A s \in Symbols : /\ Zero \preceq previous[s] \oplus reducing[s]
                              /\ Zero \preceq increasing[s]
    PROVE  LET allowed == Allowed(Sum2(previous, reducing), reducing, increasing, limit)
           IN  \A s \in Symbols : Zero \preceq previous[s] \oplus allowed[s]
<1> DEFINE reduced == Sum2(previous, reducing)
           allowed == Allowed(reduced, reducing, increasing, limit)
           whole == Sum2(reduced, increasing)
           room == limit \ominus Gross(reduced)
           more == Gross(increasing)
           share == room \oslash more
<1>0. One \in Fractions /\ Zero \in Fractions
  BY DEF One, Zero, Fractions
<1>1. /\ reduced \in Vectors /\ whole \in Vectors
      /\ \A s \in Symbols : /\ previous[s] \in Fractions /\ reducing[s] \in Fractions
                            /\ increasing[s] \in Fractions
                            /\ reduced[s] = previous[s] \oplus reducing[s]
                            /\ whole[s] = reduced[s] \oplus increasing[s]
  <2>1. reduced \in Vectors
    BY <1>0, VectorsAre
  <2>2. \A s \in Symbols : reduced[s] = previous[s] \oplus reducing[s]
    BY DEF Vectors, Sum2
  <2> HIDE DEF reduced
  <2>3. whole \in Vectors /\ \A s \in Symbols : whole[s] = reduced[s] \oplus increasing[s]
    BY <1>0, <2>1, VectorsAre
  <2> QED BY <2>1, <2>2, <2>3 DEF Vectors
<1>2. Gross(reduced) \in Fractions /\ Gross(whole) \in Fractions /\ more \in Fractions
  BY <1>1, GrossIs
<1>3. room \in Fractions /\ (room \prec Zero <=> limit \prec Gross(reduced))
  BY <1>2, MinusSign
<1>4. CASE room \prec Zero
  <2>1. allowed = reducing
    BY <1>4 DEF Allowed
  <2> QED BY <2>1
<1>5. CASE ~ (room \prec Zero) /\ Gross(whole) \preceq limit
  <2>1. allowed = Sum2(reducing, increasing)
    BY <1>5 DEF Allowed
  <2> HIDE DEF allowed, reduced
  <2> SUFFICES ASSUME NEW s \in Symbols PROVE Zero \preceq previous[s] \oplus allowed[s]
    BY DEF allowed, reduced
  <2> DEFINE p == previous[s]
             r == reducing[s]
             g == increasing[s]
  <2>2. allowed[s] = r \oplus g
    BY <2>1 DEF Vectors, Sum2
  <2>3. /\ p \in Fractions /\ r \in Fractions /\ g \in Fractions
        /\ Zero \preceq p \oplus r /\ Zero \preceq g
    BY <1>1
  <2>4. previous[s] = p
    OBVIOUS
  <2> HIDE DEF p, r, g
  <2>5. Zero \preceq p \oplus (r \oplus g)
    BY <2>3, PlusNotNegative
  <2> QED BY <2>2, <2>4, <2>5
<1>6. CASE ~ (room \prec Zero) /\ ~ (Gross(whole) \preceq limit)
  <2>1. allowed = Sum2(reducing, Scaled(increasing, share))
    BY <1>6 DEF Allowed
  <2>2. Zero \preceq room /\ Gross(reduced) \preceq limit
    BY <1>0, <1>2, <1>3, <1>6, LessOrders
  <2>3. Zero \prec more
    <3> SUFFICES ASSUME ~ (Zero \prec more) PROVE FALSE
      OBVIOUS
    <3>1. Gross(whole) \preceq Gross(reduced) \oplus (more \otimes One)
      <4>1. \A s \in Symbols :
              Size(whole[s]) \preceq Size(reduced[s]) \oplus (Size(increasing[s]) \otimes One)
        <5> SUFFICES ASSUME NEW s \in Symbols
                     PROVE  Size(whole[s])
                              \preceq Size(reduced[s]) \oplus (Size(increasing[s]) \otimes One)
          OBVIOUS
        <5>1. /\ reduced[s] \in Fractions /\ increasing[s] \in Fractions
              /\ whole[s] = reduced[s] \oplus increasing[s]
          BY <1>1 DEF Vectors
        <5> HIDE DEF reduced, whole
        <5> QED BY <5>1, SizeTriangleOne
      <4> HIDE DEF reduced, whole
      <4> QED BY <1>0, <1>1, <4>1, GrossCompares
    <3>2. more \preceq Zero
      BY <1>0, <1>2, LessOrders
    <3> DEFINE x == Gross(reduced)
               y == Gross(whole)
               z == x \oplus (more \otimes One)
    <3>3. x \in Fractions /\ y \in Fractions /\ x \preceq limit /\ y \preceq z
          /\ ~ (y \preceq limit)
      BY <1>2, <1>6, <2>2, <3>1
    <3> HIDE DEF x, y, more, reduced, whole
    <3>4. z \preceq limit
      BY <1>2, <3>2, <3>3, PlusNegative
    <3>5. z \in Fractions
      <4>1. more \otimes One \in Fractions
        BY <1>0, <1>2, FractionsClosed
      <4> QED BY <3>3, <4>1, FractionsClosed
    <3> HIDE DEF z
    <3> QED BY <3>3, <3>4, <3>5, LessOrders
  <2>4. share \in Fractions /\ Zero \preceq share
    <3> HIDE DEF room, more
    <3> QED BY <1>2, <1>3, <2>2, <2>3, QuotientSign
  <2> HIDE DEF allowed, reduced, share
  <2> SUFFICES ASSUME NEW s \in Symbols PROVE Zero \preceq previous[s] \oplus allowed[s]
    BY DEF allowed, reduced
  <2> DEFINE p == previous[s]
             r == reducing[s]
             g == increasing[s]
             e == g \otimes share
  <2>5. allowed[s] = r \oplus e
    BY <2>1 DEF Vectors, Sum2, Scaled
  <2>6. /\ p \in Fractions /\ r \in Fractions /\ g \in Fractions
        /\ Zero \preceq p \oplus r /\ Zero \preceq g
    BY <1>1
  <2>7. previous[s] = p
    OBVIOUS
  <2> HIDE DEF p, r, g
  <2>8. e \in Fractions /\ Zero \preceq e
    BY <2>4, <2>6, TimesSign, FractionsClosed
  <2> HIDE DEF e
  <2>9. Zero \preceq p \oplus (r \oplus e)
    BY <2>6, <2>8, PlusNotNegative
  <2> QED BY <2>5, <2>7, <2>9
<1> QED BY <1>4, <1>5, <1>6

LEMMA TradedStaysLong ==
    ASSUME NEW p \in Vectors, NEW t \in Vectors, NEW cap \in Vectors \cup {None},
           NEW limit \in Fractions,
           \A s \in Symbols : Zero \preceq p[s] /\ Zero \preceq t[s],
           cap # None => \A s \in Symbols : Zero \preceq cap[s]
    PROVE  \A s \in Symbols : Zero \preceq p[s] \oplus Traded(p, t, cap, limit)[s]
<1> DEFINE desired == Difference(t, p)
           bounded == Bounded(desired, cap)
           reducing == Reducing(p, bounded)
           increasing == Difference(bounded, reducing)
<1>0. One \in Fractions
  BY DEF One, Fractions
<1>1. desired \in Vectors /\ \A s \in Symbols : /\ desired[s] = t[s] \ominus p[s]
                                                /\ p[s] \in Fractions /\ t[s] \in Fractions
  BY <1>0, VectorsAre
<1> HIDE DEF desired
<1>2. bounded \in Vectors
  BY <1>1, BoundedType
<1>3. ASSUME NEW s \in Symbols PROVE bounded[s] \in Fractions /\ SaleBounded(p[s], bounded[s])
  <2> DEFINE x == desired[s]
             a == p[s]
  <2>1. /\ a \in Fractions /\ t[s] \in Fractions /\ Zero \preceq a /\ Zero \preceq t[s]
        /\ x = t[s] \ominus a
    BY <1>1
  <2>2. /\ SaleBounded(a, x)
        /\ \A k \in Fractions : Zero \preceq k =>
             SaleBounded(a, IF x \prec Zero THEN Negative(Lesser(Negative(x), k))
                            ELSE Lesser(x, k))
    <3> HIDE DEF x, a
    <3> QED BY <2>1, BoundedSale
  <2>3. CASE cap = None
    <3>1. bounded = desired
      BY <2>3 DEF Bounded
    <3> QED BY <1>2, <2>2, <3>1 DEF Vectors
  <2>4. CASE cap # None
    <3>1. cap[s] \in Fractions /\ Zero \preceq cap[s]
      BY <2>4 DEF Vectors
    <3>2. bounded[s] = IF x \prec Zero THEN Negative(Lesser(Negative(x), cap[s]))
                       ELSE Lesser(x, cap[s])
      BY <2>4 DEF Bounded
    <3>3. bounded[s] \in Fractions
      BY <1>2 DEF Vectors
    <3> HIDE DEF x, bounded
    <3> QED BY <2>2, <3>1, <3>2, <3>3
  <2> QED BY <2>3, <2>4
<1> HIDE DEF bounded
<1>4. reducing \in Vectors
  BY <1>2, ReducingKeeps
<1>5. \A s \in Symbols : Zero \preceq p[s] \oplus reducing[s]
                         /\ Zero \preceq bounded[s] \ominus reducing[s]
  <2> SUFFICES ASSUME NEW s \in Symbols
               PROVE  Zero \preceq p[s] \oplus reducing[s]
                      /\ Zero \preceq bounded[s] \ominus reducing[s]
    OBVIOUS
  <2> DEFINE a == p[s]
             b == bounded[s]
  <2>1. a \in Fractions /\ b \in Fractions /\ Zero \preceq a /\ SaleBounded(a, b)
    BY <1>1, <1>3
  <2>2. reducing[s] = IF Zero \prec a /\ b \prec Zero THEN Greater(b, Negative(a))
                      ELSE IF a \prec Zero /\ Zero \prec b THEN Lesser(b, Negative(a))
                      ELSE Zero
    BY DEF Reducing
  <2>3. p[s] = a /\ bounded[s] = b
    OBVIOUS
  <2> HIDE DEF a, b, reducing
  <2> QED BY <2>1, <2>2, <2>3, ReducedSale
<1> HIDE DEF reducing
<1>6. increasing \in Vectors /\ \A s \in Symbols : increasing[s] = bounded[s] \ominus reducing[s]
  BY <1>0, <1>2, <1>4, VectorsAre
<1> HIDE DEF increasing
<1>7. \A s \in Symbols :
        Zero \preceq p[s] \oplus Allowed(Sum2(p, reducing), reducing, increasing, limit)[s]
  BY <1>4, <1>5, <1>6, AllowedStaysLong
<1>8. Traded(p, t, cap, limit) = Allowed(Sum2(p, reducing), reducing, increasing, limit)
  BY DEF Traded, desired, bounded, reducing, increasing
<1> QED BY <1>7, <1>8

(* A book that is not short and is worth something, in weights.            *)
Invested(v) ==
    /\ v \in VectorStates /\ v.state = "running" /\ Zero \prec v.equity
    /\ \A s \in Symbols : Zero \preceq v.weights[s]

LEMMA CashAndHeld ==
    ASSUME NEW E \in Fractions, NEW W \in Fractions, Zero \prec E, W \preceq One
    PROVE  LET c == E \otimes (One \ominus W)
           IN  /\ c \in Fractions /\ Zero \preceq c
               /\ \A H \in Fractions : Even(H, W \otimes E) => Even(c \oplus H, E)
<1> DEFINE k == One \ominus W
           c == E \otimes k
<1>1. PICK d \in Nat \ {0}, n, w, l, o \in Int : Is(E, n, d) /\ Is(W, w, d)
  BY CommonFour
<1>2. Is(One, d, d) /\ Is(Zero, 0, d) /\ d * d \in Nat \ {0} /\ Is(Zero, 0, d * d)
  BY <1>1, UnitsAre, NatTimes
<1>3. 0 < n /\ w <= d
  BY <1>1, <1>2, LessIs
<1> DEFINE i == d - w
<1>4. Is(k, i, d) /\ i \in Nat
  <2>1. Is(k, i, d)
    BY <1>1, <1>2, PlusIs
  <2> QED BY <1>1, <1>3, <2>1
<1> HIDE DEF k, i
<1>5. Is(c, n * i, d * d)
  BY <1>1, <1>4, TimesIs
<1>6. 0 <= n * i
  BY <1>1, <1>3, <1>4
<1>7. Zero \preceq c
  BY <1>2, <1>5, <1>6, LessIs
<1>8. ASSUME NEW H \in Fractions, Even(H, W \otimes E) PROVE Even(c \oplus H, E)
  <2>1. Is(W \otimes E, w * n, d * d) /\ W \otimes E \in Fractions
    BY <1>1, TimesIs, FractionsClosed
  <2>2. Even(W \otimes E, H)
    BY <1>8 DEF Even
  <2>3. Is(H, w * n, d * d)
    BY <2>1, <2>2, EvenIs
  <2>4. Is(c \oplus H, n * i + w * n, d * d)
    BY <1>5, <2>3, PlusIs
  <2>5. Is(E, n * d, d * d)
    BY <1>1, IsScaled
  <2>6. n * i + w * n = n * d
    <3>1. i + w = d
      BY <1>1 DEF i
    <3>2. n * i + w * n = n * (i + w)
      BY <1>1, <1>4
    <3> QED BY <3>1, <3>2
  <2>7. n * i + w * n <= n * d /\ n * d <= n * i + w * n
    BY <1>1, <2>6
  <2> QED BY <2>4, <2>5, <2>7, LessIs DEF Even
<1> QED BY <1>5, <1>7, <1>8 DEF Is, c, k

(* Positive returns keep what such a book is worth positive: it is a       *)
(* funded book of cash and shares.                                         *)
LEMMA NavPositive ==
    ASSUME setting \in Settings, NEW v, Invested(v), Long(v.weights), NEW move \in Relatives
    PROVE  LET nav == v.equity \otimes (One \oplus Segment(v.weights, move))
           IN  nav \in Fractions /\ Zero \prec nav
<1> DEFINE w == v.weights
           E == v.equity
           W == Total(w)
           c == E \otimes (One \ominus W)
           h == [s \in Symbols |-> w[s] \otimes E]
           e == [state |-> "running", cash |-> c, held |-> h, equity |-> E]
           H == Total(h)
<1>0. Zero \in Fractions /\ One \in Fractions
  BY DEF Zero, One, Fractions
<1>1. /\ E \in Fractions /\ Zero \prec E /\ w \in Vectors /\ W \in Fractions /\ W \preceq One
      /\ \A s \in Symbols : w[s] \in Fractions /\ Zero \preceq w[s]
  BY GrossIs DEF Invested, VectorStates, Long, Vectors
<1>2. move \in Vectors
  BY BacktestAssumption DEF Vectors
<1>3. v \in VectorStates /\ v.equity = E /\ v.weights = w
  BY DEF Invested
<1> HIDE DEF E, w
<1>4. Zero \preceq E
  BY <1>0, <1>1, LessOrders
<1>5. \A s \in Symbols : h[s] = w[s] \otimes E
  OBVIOUS
<1>6. h \in Vectors /\ \A s \in Symbols : /\ h[s] \in Fractions /\ Zero \preceq h[s]
                                          /\ Even(h[s], w[s] \otimes E)
  <2>1. ASSUME NEW s \in Symbols
        PROVE  w[s] \otimes E \in Fractions /\ Zero \preceq w[s] \otimes E
    BY <1>1, <1>4, TimesSign, FractionsClosed
  <2>2. h \in Vectors
    BY <2>1 DEF Vectors
  <2> HIDE DEF h
  <2>3. ASSUME NEW s \in Symbols
        PROVE  h[s] \in Fractions /\ Zero \preceq h[s] /\ Even(h[s], w[s] \otimes E)
    <3> DEFINE x == w[s] \otimes E
    <3>1. x \in Fractions /\ Zero \preceq x /\ h[s] = x
      BY <1>5, <2>1
    <3> HIDE DEF x
    <3>2. Even(x, x)
      BY <3>1, EvenOrders
    <3> QED BY <3>1, <3>2 DEF x
  <2> QED BY <2>2, <2>3
<1>7. c \in Fractions /\ Zero \preceq c /\ \A X \in Fractions : Even(X, W \otimes E)
                                                                  => Even(c \oplus X, E)
  <2> HIDE DEF W
  <2> QED BY <1>1, CashAndHeld
<1>8. H \in Fractions /\ Even(H, W \otimes E)
  <2>1. DOMAIN w = Symbols /\ DOMAIN h = Symbols
    BY <1>1 DEF Vectors
  <2> HIDE DEF h
  <2>2. H = AddOver(h, Symbols) /\ W = AddOver(w, Symbols) /\ H \in Fractions
    BY <1>6, <2>1, TotalIs, GrossIs
  <2>3. Even(AddOver(h, Symbols), AddOver(w, Symbols) \otimes E)
    BY <1>1, <1>6, FiniteSymbols, AddTimes
  <2> QED BY <2>2, <2>3
<1>9. Even(c \oplus H, E) /\ c \oplus H \in Fractions
  <2> HIDE DEF c, H, W
  <2> QED BY <1>7, <1>8, FractionsClosed
<1> HIDE DEF c, h
<1>10. /\ e \in EventStates /\ e.cash = c /\ e.held = h /\ e.equity = E
  BY <1>1, <1>6, <1>7 DEF EventStates, States
<1>11. Worth(e) = c \oplus H
  BY <1>10 DEF Worth
<1> HIDE DEF e, H
<1>12. Zero \prec c \oplus H
  <2> DEFINE x == c \oplus H
  <2>1. x \in Fractions /\ E \preceq x
    BY <1>9 DEF Even
  <2> HIDE DEF x
  <2>2. Zero \prec x
    BY <1>0, <1>1, <2>1, LessOrders
  <2> QED BY <2>2 DEF x
<1>13. Funded(e)
  BY <1>6, <1>7, <1>10, <1>11, <1>12 DEF Funded
<1>14. Aligned(e, v)
  BY <1>3, <1>6, <1>10 DEF Aligned
<1>15. Funded(Accrued(e, move))
  BY <1>13, AccruedFunds
<1>16. Worth(Accrued(e, move)) = v.equity \otimes (One \oplus Segment(v.weights, move))
  BY <1>2, <1>3, <1>9, <1>10, <1>11, <1>14, NavsAgree
<1>17. Worth(Accrued(e, move)) \in Fractions /\ Zero \prec Worth(Accrued(e, move))
  BY <1>15, FundedIs DEF Funded
<1> QED BY <1>16, <1>17

(* Trading between two such books costs less than they are worth.          *)
LEMMA CostBelow ==
    ASSUME setting \in Settings, RoundTripsCostLess,
           NEW p, Long(p), NEW x \in Vectors, NEW u, Long(u),
           \A s \in Symbols : u[s] = p[s] \oplus x[s]
    PROVE  Cost(x) \in Fractions /\ Zero \prec One \ominus Cost(x)
<1> DEFINE B == AddOver(Buys(x), Symbols)
           S == AddOver(Sells(x), Symbols)
           b == setting.buy
           k == setting.sell
           C == Cost(x)
<1>0. One \in Fractions /\ Zero \in Fractions
  BY DEF One, Zero, Fractions
<1>1. p \in Vectors /\ u \in Vectors
  BY DEF Long
<1>2. B \preceq Total(u) /\ S \preceq Total(p)
  <2>1. \A s \in Symbols : /\ Even(p[s] \oplus x[s], u[s]) /\ Zero \preceq p[s]
                           /\ Zero \preceq u[s]
    <3> SUFFICES ASSUME NEW s \in Symbols
                 PROVE  /\ Even(p[s] \oplus x[s], u[s]) /\ Zero \preceq p[s] /\ Zero \preceq u[s]
      OBVIOUS
    <3> DEFINE a == u[s]
    <3>1. a \in Fractions
      BY <1>1 DEF Vectors
    <3> HIDE DEF a
    <3>2. Even(a, a)
      BY <3>1, EvenOrders
    <3> QED BY <3>2 DEF a, Long
  <2> QED BY <1>1, <2>1, LegsBounded
<1>3. /\ B \in Fractions /\ Zero \preceq B /\ S \in Fractions /\ Zero \preceq S
      /\ C = (B \otimes b) \oplus (S \otimes k) /\ C \in Fractions
  BY CostIs, CostType
<1>4. /\ b \in Fractions /\ k \in Fractions /\ Zero \preceq b /\ Zero \preceq k
      /\ b \oplus k \prec One
  BY SettingIs, RatesAre DEF RoundTripsCostLess
<1> HIDE DEF B, S, b, k, C
<1>5. B \preceq One /\ S \preceq One
  <2> DEFINE X == Total(u)
             Y == Total(p)
  <2>1. /\ X \in Fractions /\ Y \in Fractions /\ X \preceq One /\ Y \preceq One
        /\ B \preceq X /\ S \preceq Y
    BY <1>1, <1>2, GrossIs DEF Long
  <2> HIDE DEF X, Y
  <2>2. ASSUME NEW f \in Fractions, NEW g \in Fractions, f \preceq g, g \preceq One
        PROVE  f \preceq One
    BY <1>0, <2>2, LessOrders
  <2>3. B \in Fractions /\ S \in Fractions
    BY <1>3
  <2> QED BY <2>1, <2>2, <2>3
<1>6. PICK d \in Nat \ {0}, n, m, i, j \in Int :
        Is(B, n, d) /\ Is(S, m, d) /\ Is(b, i, d) /\ Is(k, j, d)
  <2>1. B \in Fractions /\ S \in Fractions /\ b \in Fractions /\ k \in Fractions
    BY <1>3, <1>4
  <2> QED BY ONLY <2>1, CommonFour
<1>7. Is(One, d, d) /\ Is(Zero, 0, d) /\ d * d \in Nat \ {0} /\ Is(One, d * d, d * d)
      /\ Is(Zero, 0, d * d)
  BY <1>6, UnitsAre, NatTimes
<1>8. 0 <= n /\ n <= d /\ 0 <= m /\ m <= d /\ 0 <= i /\ 0 <= j
  BY <1>3, <1>4, <1>5, <1>6, <1>7, LessIs
<1>9. i + j < d
  <2>1. Is(b \oplus k, i + j, d)
    BY <1>6, PlusIs
  <2> QED BY <1>4, <1>7, <2>1, LessIs
<1> DEFINE ni == n * i
           mj == m * j
           dd == d * d
<1>10. Is(C, ni + mj, dd)
  <2>1. Is(B \otimes b, ni, dd) /\ Is(S \otimes k, mj, dd)
    BY <1>6, TimesIs
  <2> HIDE DEF ni, mj, dd
  <2> QED BY <1>3, <2>1, PlusIs
<1>11. ni + mj < dd
  <2>1. n * i <= d * i /\ m * j <= d * j
    <3>1. CASE i = 0
      <4>1. n * i = 0 /\ d * i = 0
        BY <1>6, <3>1
      <4>2. CASE j = 0
        BY <1>6, <4>1, <4>2
      <4>3. CASE j # 0
        <5>1. m * j <= d * j
          BY <1>6, <1>8, <4>3, Scales
        <5> QED BY <4>1, <5>1
      <4> QED BY <4>2, <4>3
    <3>2. CASE i # 0
      <4>1. n * i <= d * i
        BY <1>6, <1>8, <3>2, Scales
      <4>2. CASE j = 0
        BY <1>6, <4>1, <4>2
      <4>3. CASE j # 0
        <5>1. m * j <= d * j
          BY <1>6, <1>8, <4>3, Scales
        <5> QED BY <4>1, <5>1
      <4> QED BY <4>2, <4>3
    <3> QED BY <3>1, <3>2
  <2>2. d * i + d * j = (i + j) * d
    BY <1>6
  <2>3. (i + j) * d < d * d
    <3> DEFINE f == i + j
    <3>1. f \in Int /\ f < d
      BY <1>6, <1>9
    <3> HIDE DEF f
    <3>2. ~ (d * d <= f * d)
      BY <1>6, <3>1, Scales
    <3>3. f * d < d * d
      BY <1>6, <3>1, <3>2
    <3> QED BY <3>3 DEF f
  <2> DEFINE di == d * i
             dj == d * j
  <2>4. /\ ni \in Int /\ mj \in Int /\ di \in Int /\ dj \in Int /\ dd \in Int
        /\ ni <= di /\ mj <= dj /\ di + dj < dd
    BY <1>6, <2>1, <2>2, <2>3
  <2> HIDE DEF ni, mj, di, dj, dd
  <2> QED BY <2>4
<1>12. Zero \prec One \ominus C
  <2>1. ni \in Int /\ mj \in Int /\ dd \in Int
    BY <1>6
  <2>2. Is(One, dd, dd) /\ Is(Zero, 0, dd)
    BY <1>7
  <2> HIDE DEF ni, mj, dd
  <2>3. Is(One \ominus C, dd - (ni + mj), dd)
    BY <1>10, <2>2, PlusIs
  <2>4. 0 < dd - (ni + mj)
    BY <1>11, <2>1
  <2> QED BY <2>2, <2>3, <2>4, LessIs
<1> QED BY <1>3, <1>12 DEF C

LEMMA VectorBarFunds ==
    ASSUME setting \in Settings, setting.gross \preceq One, RoundTripsCostLess,
           NEW v, Invested(v), Gross(v.weights) \preceq setting.gross,
           NEW move \in Relatives, NEW t \in Vectors \cup {None},
           t # None => \A s \in Symbols : Zero \preceq t[s]
    PROVE  Invested(VectorBar(v, move, t))
<1> DEFINE w == v.weights
           nav == v.equity \otimes (One \oplus Segment(w, move))
           cap == IF setting.capacity = None THEN None
                  ELSE Scaled(setting.capacity, One \oslash nav)
           x == Traded(w, t, cap, setting.gross)
           u == Sum2(w, x)
           equity == nav \otimes (One \ominus Cost(x))
           marked == [v EXCEPT !.equity = nav]
           traded == [v EXCEPT !.weights = u, !.equity = equity]
<1>0. Zero \in Fractions /\ One \in Fractions
  BY DEF Zero, One, Fractions
<1>1. /\ v \in VectorStates /\ v.state = "running" /\ w \in Vectors
      /\ \A s \in Symbols : Zero \preceq w[s]
  BY DEF Invested, VectorStates
<1>2. Long(w)
  BY <1>1, TargetLong
<1>3. nav \in Fractions /\ Zero \prec nav
  BY <1>2, NavPositive
<1>4. VectorBar(v, move, t)
        = IF nav \preceq Zero THEN Failed(v, "exhausted")
          ELSE IF t = None THEN marked ELSE Executed(v, nav, x)
  BY DEF VectorBar
<1> HIDE DEF w, nav
<1>5. ~ (nav \preceq Zero)
  BY <1>0, <1>3, LessOrders
<1>6. CASE t = None
  <2>1. VectorBar(v, move, t) = marked
    BY <1>4, <1>5, <1>6
  <2>2. /\ marked \in VectorStates /\ marked.state = "running" /\ marked.equity = nav
        /\ marked.weights = v.weights
    BY <1>1, <1>3 DEF VectorStates
  <2> QED BY <1>1, <1>3, <2>1, <2>2 DEF Invested, w
<1>7. CASE t # None
  <2>1. t \in Vectors /\ \A s \in Symbols : Zero \preceq t[s]
    BY <1>7
  <2>2. /\ cap \in Vectors \cup {None}
        /\ cap # None => \A s \in Symbols : Zero \preceq cap[s]
    <3> DEFINE i == One \oslash nav
               a == setting.capacity
               c == Scaled(a, i)
    <3>1. i \in Fractions /\ Zero \preceq i
      <4>1. i \in Fractions /\ Zero \prec i
        BY <1>3, ShareIs
      <4> HIDE DEF i
      <4> QED BY <1>0, <4>1, LessOrders
    <3> HIDE DEF i
    <3>2. CASE a = None
      BY <3>2
    <3>3. CASE a # None
      <4>1. a \in Vectors /\ \A s \in Symbols : Zero \preceq a[s]
        BY <3>3, SettingIs, RatesAssumption
      <4>2. cap = c
        BY <3>3 DEF i
      <4> HIDE DEF a, cap
      <4>3. c \in Vectors /\ \A s \in Symbols : c[s] = a[s] \otimes i /\ a[s] \in Fractions
        BY <3>1, <4>1, VectorsAre
      <4> HIDE DEF c
      <4>4. \A s \in Symbols : Zero \preceq c[s]
        <5> SUFFICES ASSUME NEW s \in Symbols PROVE Zero \preceq c[s]
          OBVIOUS
        <5> DEFINE y == a[s]
        <5>1. y \in Fractions /\ Zero \preceq y /\ c[s] = y \otimes i
          BY <4>1, <4>3
        <5> HIDE DEF y
        <5> QED BY <3>1, <5>1, TimesSign
      <4> QED BY <4>2, <4>3, <4>4
    <3> QED BY <3>2, <3>3
  <2> HIDE DEF cap
  <2>3. setting.gross \in Fractions
    BY SettingIs
  <2>4. x \in Vectors /\ Gross(u) \preceq setting.gross
    BY <1>1, <2>1, <2>2, <2>3, TradedKeeps DEF w
  <2>5. \A s \in Symbols : Zero \preceq w[s] \oplus x[s]
    BY <1>1, <2>1, <2>2, <2>3, TradedStaysLong
  <2> HIDE DEF x
  <2>6. u \in Vectors /\ \A s \in Symbols : u[s] = w[s] \oplus x[s] /\ Zero \preceq u[s]
    <3>1. u \in Vectors /\ \A s \in Symbols : u[s] = w[s] \oplus x[s]
      BY <1>0, <1>1, <2>4, VectorsAre
    <3> QED BY <2>5, <3>1
  <2>7. Executed(v, nav, x) = IF equity \preceq Zero THEN Failed(v, "exhausted") ELSE traded
    BY DEF Executed, w
  <2> HIDE DEF u
  <2>8. Long(u)
    BY <2>4, <2>6, TargetLong
  <2>9. Cost(x) \in Fractions /\ Zero \prec One \ominus Cost(x)
    BY <1>2, <2>4, <2>6, <2>8, CostBelow
  <2>10. equity \in Fractions /\ Zero \prec equity
    <3> DEFINE k == One \ominus Cost(x)
    <3>1. k \in Fractions /\ Zero \prec k /\ equity = nav \otimes k
      BY <1>0, <2>9, FractionsClosed
    <3> HIDE DEF k, equity
    <3> QED BY <1>3, <3>1, TimesSign, FractionsClosed
  <2> HIDE DEF equity
  <2>11. ~ (equity \preceq Zero)
    BY <1>0, <2>10, LessOrders
  <2>12. VectorBar(v, move, t) = traded
    BY <1>4, <1>5, <1>7, <2>7, <2>11
  <2>13. /\ traded \in VectorStates /\ traded.state = "running" /\ traded.equity = equity
         /\ traded.weights = u
    BY <1>1, <2>6, <2>10 DEF VectorStates
  <2> QED BY <2>6, <2>10, <2>12, <2>13 DEF Invested
<1> QED BY <1>6, <1>7

-----------------------------------------------------------------------------
(* 10. The engines never borrow.                                           *)

(* The engines start funded, and stay so as long as every target is long.  *)
FundedInv ==
    /\ bar = 0 => Solvent(event) /\ Invested(vector)
    /\ RoundTripsCostLess /\ LongOnly => Solvent(event) /\ Invested(vector)

LEMMA InitFunded == Init => FundedInv
<1> SUFFICES ASSUME Init PROVE Solvent(event) /\ Invested(vector)
  BY DEF FundedInv
<1>1. setting \in Settings
  BY DEF Init
<1>2. Flat \in Vectors
  BY <1>1, FlatIsEmpty
<1>3. /\ event = [state |-> "running", cash |-> One, held |-> Flat, equity |-> One]
      /\ vector = [state |-> "running", weights |-> Flat, equity |-> One]
  BY DEF Init
<1>4. One \in Fractions /\ Zero \in Fractions
  BY DEF One, Zero, Fractions
<1>5. Zero \preceq Zero /\ Zero \preceq One /\ Zero \prec One
  <2>1. Is(Zero, 0, 1) /\ Is(One, 1, 1)
    BY UnitsAre
  <2>2. 0 <= 0 /\ 0 <= 1 /\ 0 < 1
    OBVIOUS
  <2> QED BY <2>1, <2>2, LessIs
<1>6. Zero \prec One \oplus Total(Flat)
  <2> DEFINE T == Total(Flat)
             x == One \oplus T
  <2>1. T \in Fractions
    BY <1>2, GrossIs
  <2>2. Even(x, One)
    BY <1>4, FlatIsNothing
  <2> HIDE DEF T
  <2>3. x \in Fractions
    BY <1>4, <2>1, FractionsClosed
  <2> HIDE DEF x
  <2>4. Zero \prec x
    BY <1>4, <1>5, <2>2, <2>3, LessOrders DEF Even
  <2> QED BY <2>4 DEF x, T
<1>7. \A s \in Symbols : Flat[s] = Zero
  BY DEF Flat
<1>8. Solvent(event)
  <2>1. event \in EventStates
    BY <1>2, <1>3, <1>4 DEF EventStates, States
  <2>2. Worth(event) = One \oplus Total(Flat)
    BY <1>3 DEF Worth
  <2> QED BY <1>3, <1>5, <1>6, <1>7, <2>1, <2>2 DEF Solvent, Funded
<1>9. Invested(vector)
  BY <1>2, <1>3, <1>4, <1>5, <1>7 DEF Invested, VectorStates, States
<1> QED BY <1>8, <1>9

(* What a long-only replay trades to is long.                              *)
LEMMA TargetIsLong ==
    ASSUME ReplayInv, LongOnly, bar \in Bars, TargetAt(decisions, bar) # None
    PROVE  \A s \in Symbols : Zero \preceq TargetAt(decisions, bar)[s]
<1> DEFINE t == 2 * bar - 2
           due == {d \in decisions : d.at \in {2 * bar - 2, 2 * bar - 1}}
<1>1. bar \in Nat
  BY BacktestAssumption DEF Bars
<1>2. \A d \in decisions : d.at \in Nat \ {0}
  BY DEF ReplayInv, FrameInv, MarketInv
<1>3. TargetAt(decisions, bar) = IF due = {} THEN None ELSE Latest(due)
  BY <1>2, TargetIsLatest
<1>4. t \in Int /\ t + 1 = 2 * bar - 1
  BY <1>1
<1>5. \A d \in due : d.at \in {t, t + 1}
  BY <1>4
<1> HIDE DEF t
<1>6. due # {} => \E d \in due : Latest(due) = d.target
  BY <1>4, <1>5, LatestIsOne
<1>7. \A d \in due : \A s \in Symbols : Zero \preceq d.target[s]
  BY DEF LongOnly
<1> HIDE DEF due
<1> QED BY <1>3, <1>6, <1>7

LEMMA ReplayFunds == ReplayInv /\ EngineInv /\ FundedInv /\ Replay => FundedInv'
<1> SUFFICES ASSUME ReplayInv, EngineInv, FundedInv, Replay PROVE FundedInv'
  OBVIOUS
<1> DEFINE target == TargetAt(decisions, bar)
           move == moves[bar]
<1>1. /\ bar \in Bars /\ bar' = bar + 1
      /\ UNCHANGED <<setting, decisions, live>>
      /\ event' = IF event.state = "running" THEN EventBar(event, move, target) ELSE event
      /\ vector' = IF vector.state = "running" THEN VectorBar(vector, move, target) ELSE vector
  BY DEF Replay
<1>2. bar \in Nat \ {0} /\ bar \in 1..Len(moves) /\ Len(live) = Len(moves)
  BY <1>1, BacktestAssumption DEF ReplayInv, MarketInv, Bars
<1>3. setting \in Settings /\ move \in Relatives
  BY <1>2 DEF ReplayInv, MarketInv
<1>4. target \in Vectors \cup {None}
  <2>1. target = live[bar]
    BY <1>2 DEF ReplayInv, LiveInv
  <2> QED BY <1>2, <2>1 DEF ReplayInv, MarketInv, Vectors
<1>5. ~ (bar' = 0)
  BY <1>1, <1>2
<1>6. ASSUME RoundTripsCostLess, LongOnly PROVE Solvent(event)' /\ Invested(vector)'
  <2>1. target # None => /\ Gross(target) \preceq setting.gross
                         /\ \A s \in Symbols : Zero \preceq target[s]
    BY <1>1, <1>6, TargetKeeps, TargetIsLong
  <2>2. setting.gross \preceq One
    BY <1>6 DEF LongOnly
  <2>3. Solvent(event) /\ Invested(vector)
    BY <1>6 DEF FundedInv
  <2> HIDE DEF target, move
  <2>4. Solvent(event')
    <3>1. CASE event.state = "running"
      <4>1. Funded(event)
        BY <2>3, <3>1 DEF Solvent
      <4>2. Solvent(EventBar(event, move, target))
        BY <1>3, <1>4, <1>6, <2>1, <2>2, <3>1, <4>1, EventBarFunds
      <4> QED BY <1>1, <3>1, <4>2
    <3>2. CASE event.state # "running"
      BY <1>1, <2>3, <3>2
    <3> QED BY <3>1, <3>2
  <2>5. Solvent(event)'
    BY <1>1, <2>4 DEF Solvent, Funded, Worth
  <2>6. Invested(vector')
    <3>1. Gross(vector.weights) \preceq setting.gross /\ vector.state = "running"
      BY <2>3 DEF EngineInv, GrossWithinLimit, Invested
    <3>2. Invested(VectorBar(vector, move, target))
      BY <1>3, <1>4, <1>6, <2>1, <2>2, <2>3, <3>1, VectorBarFunds
    <3> QED BY <1>1, <3>1, <3>2
  <2>7. Invested(vector)'
    BY <2>6 DEF Invested
  <2> QED BY <2>5, <2>7
<1>7. (RoundTripsCostLess' <=> RoundTripsCostLess) /\ (LongOnly' <=> LongOnly)
  BY <1>1 DEF RoundTripsCostLess, LongOnly
<1> QED BY <1>5, <1>6, <1>7 DEF FundedInv

LEMMA NextFunded == ReplayInv /\ EngineInv /\ FundedInv /\ [Next]_vars => FundedInv'
<1> SUFFICES ASSUME ReplayInv, EngineInv, FundedInv, [Next]_vars PROVE FundedInv'
  OBVIOUS
<1>1. CASE CloseBar \/ Wait \/ Decide \/ Submit
  <2>1. bar = 0 /\ UNCHANGED <<setting, event, vector>>
    BY <1>1 DEF CloseBar, Wait, Decide, Submit
  <2>2. Solvent(event) /\ Invested(vector)
    BY <2>1 DEF FundedInv
  <2>3. Solvent(event)' /\ Invested(vector)'
    BY <2>1, <2>2 DEF Solvent, Funded, Worth, Invested
  <2> QED BY <2>3 DEF FundedInv
<1>2. CASE Replay
  BY <1>2, ReplayFunds
<1>3. CASE UNCHANGED vars
  <2>1. UNCHANGED <<setting, decisions, bar, event, vector>>
    BY <1>3 DEF vars
  <2>2. /\ RoundTripsCostLess' <=> RoundTripsCostLess
        /\ LongOnly' <=> LongOnly
        /\ Solvent(event)' <=> Solvent(event)
        /\ Invested(vector)' <=> Invested(vector)
    BY <2>1 DEF RoundTripsCostLess, LongOnly, Solvent, Funded, Worth, Invested
  <2> QED BY <2>1, <2>2 DEF FundedInv
<1> QED BY <1>1, <1>2, <1>3 DEF Next

(* Costs, drift and the return of cash never make a long-only unlevered    *)
(* book borrow, whatever its prices, targets, capacities and costs, as     *)
(* long as a round trip costs less than what is traded: the event-driven   *)
(* engine's cash stays non-negative and it gives up only on fills worse    *)
(* than the close it sizes at, and the vectorized engine never gives up.   *)
THEOREM LongOnlyStaysFunded == Spec => [](RoundTripsCostLess => LongOnlyIsFunded)
<1>1. Init => ReplayInv /\ EngineInv /\ FundedInv
  BY InitReplay, InitEngines, InitFunded
<1>2. ReplayInv /\ EngineInv /\ FundedInv /\ [Next]_vars
        => (ReplayInv /\ EngineInv /\ FundedInv)'
  BY NextReplay, NextEngines, NextFunded
<1>3. FundedInv => (RoundTripsCostLess => LongOnlyIsFunded)
  BY DEF FundedInv, LongOnlyIsFunded, Solvent, Funded, Invested
<1> QED BY <1>1, <1>2, <1>3, PTL DEF Spec
=============================================================================
