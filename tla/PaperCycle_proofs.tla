-------------------------- MODULE PaperCycle_proofs --------------------------
(***************************************************************************)
(* Theorems about PaperCycle, for every set of overlapping invocations,    *)
(* every universe, market, command line and legacy ledger.                 *)
(***************************************************************************)
EXTENDS PaperCycle, TLAPS

USE DEF vars, market, venue, store, history, observed, work, context

Labels == {"idle", "open_orders", "account", "positions", "load",
           "next", "send", "await"} \cup Saving

LEMMA LedgerFacts ==
    /\ NoLedger \in Ledgers
    /\ NoLedger \in KnownOrders
    /\ \A l \in Ledgers, c \in ClientIds, s \in LedgerStates :
          [l EXCEPT ![c] = s] \in Ledgers
    /\ \A l \in KnownOrders, c \in ClientIds, s \in OrderStatuses :
          [l EXCEPT ![c] = s] \in KnownOrders
    /\ OrderStatuses \subseteq LedgerStates
    /\ OrderStatuses \subseteq RequestStates
BY DEF NoLedger, Ledgers, KnownOrders, LedgerStates, RequestStates

(* Ending an invocation leaves its variables typed.                        *)
LEMMA LeaveTypes ==
    ASSUME TypeOK, NEW p \in Cycles, Leave(p)
    PROVE  /\ pc' \in [Cycles -> Labels]
           /\ mode' \in [Cycles -> Modes \cup {None}]
           /\ asOf' \in [Cycles -> Days \cup {0}]
           /\ capital' \in [Cycles -> Equities \cup {0}]
           /\ todo' \in [Cycles -> SUBSET ClientIds]
           /\ current' \in [Cycles -> ClientIds \cup {NoId}]
           /\ ledger' \in [Cycles -> Ledgers]
           /\ orders' \in [Cycles -> KnownOrders]
           /\ revision' \in [Cycles -> Nat]
           /\ \A q \in Cycles : pc'[q] \in Submitting => current'[q] \in ClientIds
BY LedgerFacts DEF TypeOK, Leave, Labels, Submitting

(* A successful save stores a typed snapshot.                              *)
LEMMA PersistTypes ==
    ASSUME TypeOK, NEW p \in Cycles, Persist(p)
    PROVE  /\ disk' \in [revision : Nat, intents : Ledgers, orders : KnownOrders]
           /\ legacy' \in LegacyLedgers
           /\ disk'.revision = disk.revision + 1
           /\ disk'.intents = ledger[p]
           /\ disk'.orders = orders[p]
           /\ disk.revision \in Nat
BY DEF TypeOK, Persist

(* What the venue does: one request changes its state, and k of its shares *)
(* are traded.                                                             *)
Trades(c, n, s, k) ==
    /\ requests[c][n] \in {"INFLIGHT"} \cup OpenStatuses
    /\ s # "INFLIGHT"
    /\ requests[c][n] \in OpenStatuses => s \in OrderStatuses
    /\ requests' = [requests EXCEPT ![c][n] = s]
    /\ filled' = [filled EXCEPT ![c][n] = @ + k]
    /\ k <= c.quantity - filled[c][n] \/ k = 0
    /\ k # 0 => requests[c][n] \in OpenStatuses
    /\ k # 0 /\ s \in OpenStatuses => k < c.quantity - filled[c][n]
    /\ holdings' = [holdings EXCEPT ![c.symbol] =
                       IF c.side = "BUY" THEN @ + k ELSE @ - k]

LEMMA VenueTrades ==
    ASSUME TypeOK, VenueStep
    PROVE  \E c \in ClientIds : \E n \in DOMAIN requests[c] :
              \E s \in RequestStates, k \in Nat : Trades(c, n, s, k)
<1>1. PICK c \in ClientIds :
         \E n \in DOMAIN requests[c] : Route(c, n) \/ Fill(c, n) \/ Close(c, n)
  BY DEF VenueStep
<1>2. PICK n \in DOMAIN requests[c] : Route(c, n) \/ Fill(c, n) \/ Close(c, n)
  BY <1>1
<1>3. /\ c.symbol \in Symbols /\ c.quantity \in Int
      /\ requests[c] \in Seq(RequestStates)
      /\ filled[c] \in Seq(Nat) /\ Len(filled[c]) = Len(requests[c])
      /\ filled[c][n] \in Nat
      /\ holdings[c.symbol] \in Int
  <2>1. c.symbol \in Symbols /\ c.quantity \in Int
    BY PaperCycleAssumption DEF ClientIds, Quantities
  <2>2. /\ requests[c] \in Seq(RequestStates)
        /\ filled[c] \in Seq(Nat) /\ Len(filled[c]) = Len(requests[c])
    BY DEF TypeOK
  <2>3. n \in 1..Len(requests[c])
    BY <2>2
  <2>4. filled[c][n] \in Nat
    BY <2>2, <2>3
  <2> QED
    BY <2>1, <2>2, <2>4 DEF TypeOK
<1>4. /\ [filled EXCEPT ![c][n] = @ + 0] = filled
      /\ [holdings EXCEPT ![c.symbol] = IF c.side = "BUY" THEN @ + 0 ELSE @ - 0]
            = holdings
  <2>1. [filled EXCEPT ![c][n] = @ + 0] = filled
    BY <1>3 DEF TypeOK
  <2>2. [holdings EXCEPT ![c.symbol] = IF c.side = "BUY" THEN @ + 0 ELSE @ - 0]
           = holdings
    BY <1>3 DEF TypeOK
  <2> QED
    BY <2>1, <2>2
<1>5. CASE Route(c, n)
  <2>1. PICK s \in {"SUBMITTED", "DROPPED"} :
           requests' = [requests EXCEPT ![c][n] = s]
    BY <1>5 DEF Route, Set
  <2>2. s \in RequestStates /\ s # "INFLIGHT"
    BY DEF RequestStates, OrderStatuses, OpenStatuses
  <2>3. requests[c][n] = "INFLIGHT" /\ "INFLIGHT" \notin OpenStatuses
    BY <1>5 DEF Route, OpenStatuses
  <2>4. Trades(c, n, s, 0)
    BY <1>3, <1>4, <1>5, <2>1, <2>2, <2>3 DEF Trades, Route
  <2> QED
    BY <2>2, <2>4
<1>6. CASE Fill(c, n)
  <2>1. PICK k \in 1..(c.quantity - filled[c][n]) :
           /\ filled' = [filled EXCEPT ![c][n] = @ + k]
           /\ holdings' = [holdings EXCEPT ![c.symbol] =
                              IF c.side = "BUY" THEN @ + k ELSE @ - k]
           /\ \E s \in IF filled[c][n] + k = c.quantity THEN {"FILLED"}
                        ELSE OpenStatuses : Set(c, n, s)
    BY <1>6 DEF Fill
  <2>2. PICK s \in OrderStatuses :
           /\ s \in OpenStatuses => filled[c][n] + k # c.quantity
           /\ Set(c, n, s)
    <3>1. OpenStatuses \subseteq OrderStatuses /\ "FILLED" \in OrderStatuses
      BY DEF OrderStatuses
    <3>2. "FILLED" \notin OpenStatuses
      BY DEF OpenStatuses
    <3>3. CASE filled[c][n] + k = c.quantity
      BY <2>1, <3>1, <3>2, <3>3, Zenon
    <3>4. CASE filled[c][n] + k # c.quantity
      BY <2>1, <3>1, <3>4, Zenon
    <3> QED
      BY <3>3, <3>4
  <2>3. s \in RequestStates /\ s # "INFLIGHT"
    BY DEF RequestStates, OrderStatuses, OpenStatuses
  <2>4. s \in OpenStatuses => filled[c][n] + k # c.quantity
    BY <2>2
  <2>5. k \in Nat /\ k <= c.quantity - filled[c][n]
    BY <1>3
  <2>6. s \in OpenStatuses => k < c.quantity - filled[c][n]
    <3>1. PICK f \in Nat, q \in Int : f = filled[c][n] /\ q = c.quantity
      BY <1>3
    <3>2. f + k # q /\ k <= q - f => k < q - f
      BY <2>5
    <3> QED
      BY <2>4, <2>5, <3>1, <3>2
  <2>7. requests[c][n] \in OpenStatuses
    BY <1>6 DEF Fill
  <2>8. Trades(c, n, s, k)
    BY <2>1, <2>2, <2>3, <2>5, <2>6, <2>7 DEF Trades, Set
  <2> QED
    BY <2>3, <2>5, <2>8
<1>7. CASE Close(c, n)
  <2>1. PICK s \in {"CANCELLED", "REJECTED"} :
           requests' = [requests EXCEPT ![c][n] = s]
    BY <1>7 DEF Close, Set
  <2>2. s \in OrderStatuses /\ s \in RequestStates /\ s # "INFLIGHT"
    BY DEF RequestStates, OrderStatuses, OpenStatuses
  <2>3. requests[c][n] \in OpenStatuses
    BY <1>7 DEF Close
  <2>4. Trades(c, n, s, 0)
    BY <1>3, <1>4, <1>7, <2>1, <2>2, <2>3 DEF Trades, Close
  <2> QED
    BY <2>2, <2>4
<1> QED
  BY <1>2, <1>5, <1>6, <1>7

(* The states of requests, the venue's data.                               *)
LEMMA VenueTypes ==
    ASSUME TypeOK, VenueStep
    PROVE  /\ requests' \in [ClientIds -> Seq(RequestStates)]
           /\ filled' \in [ClientIds -> Seq(Nat)]
           /\ holdings' \in [Symbols -> Int]
           /\ \A c \in ClientIds : Len(requests'[c]) = Len(requests[c])
           /\ \A c \in ClientIds : Len(filled'[c]) = Len(filled[c])
<1>1. PICK c \in ClientIds :
         \E n \in DOMAIN requests[c] :
            \E s \in RequestStates, k \in Nat : Trades(c, n, s, k)
  BY VenueTrades
<1>2. PICK n \in DOMAIN requests[c], s \in RequestStates, k \in Nat :
         Trades(c, n, s, k)
  BY <1>1
<1>3. /\ requests[c] \in Seq(RequestStates) /\ filled[c] \in Seq(Nat)
      /\ Len(filled[c]) = Len(requests[c])
      /\ n \in 1..Len(requests[c])
      /\ c.symbol \in Symbols /\ holdings[c.symbol] \in Int
  <2>1. /\ requests[c] \in Seq(RequestStates) /\ filled[c] \in Seq(Nat)
        /\ Len(filled[c]) = Len(requests[c])
    BY DEF TypeOK
  <2>2. n \in 1..Len(requests[c])
    BY <2>1
  <2> QED
    BY <2>1, <2>2 DEF TypeOK, ClientIds
<1>4. /\ requests' = [requests EXCEPT ![c] = [requests[c] EXCEPT ![n] = s]]
      /\ [requests[c] EXCEPT ![n] = s] \in Seq(RequestStates)
      /\ Len([requests[c] EXCEPT ![n] = s]) = Len(requests[c])
  <2>1. requests' = [requests EXCEPT ![c][n] = s]
    BY <1>2 DEF Trades
  <2> QED
    BY <1>2, <1>3, <2>1
<1>5. PICK m \in Nat : m = filled[c][n] + k
  BY <1>2, <1>3
<1>6. /\ filled' = [filled EXCEPT ![c] = [filled[c] EXCEPT ![n] = m]]
      /\ [filled[c] EXCEPT ![n] = m] \in Seq(Nat)
      /\ Len([filled[c] EXCEPT ![n] = m]) = Len(filled[c])
  <2>1. filled' = [filled EXCEPT ![c][n] = @ + k]
    BY <1>2 DEF Trades
  <2> QED
    BY <1>2, <1>3, <1>5, <2>1
<1>7. holdings' \in [Symbols -> Int]
  BY <1>2, <1>3 DEF Trades, TypeOK
<1>8. /\ requests \in [ClientIds -> Seq(RequestStates)]
      /\ filled \in [ClientIds -> Seq(Nat)]
  BY DEF TypeOK
<1> QED
  BY <1>4, <1>6, <1>7, <1>8

(* Every step keeps every variable in its type.                            *)
THEOREM TypeCorrect == Spec => []TypeOK
<1>1. Init => TypeOK
  <2> SUFFICES ASSUME Init PROVE TypeOK
    OBVIOUS
  <2>1. legacy \in Ledgers
    BY PaperCycleAssumption DEF Init
  <2>2. requests \in [ClientIds -> Seq(RequestStates)]
    <3>1. \A s \in RequestStates : <<s>> \in Seq(RequestStates)
      OBVIOUS
    <3>2. <<>> \in Seq(RequestStates)
      OBVIOUS
    <3>3. {"INFLIGHT", "DROPPED"} \cup OrderStatuses = RequestStates
      BY DEF RequestStates
    <3> QED
      BY <3>1, <3>2, <3>3 DEF Init
  <2>3. /\ filled \in [ClientIds -> Seq(Nat)]
        /\ \A c \in ClientIds : Len(filled[c]) = Len(requests[c])
    <3>1. PICK share \in Quantities :
             filled = [c \in ClientIds |->
                IF legacy[c] = None THEN <<>>
                ELSE IF legacy[c] = "PARTIALLY_FILLED" THEN <<share>>
                ELSE IF legacy[c] = "FILLED" THEN <<c.quantity>>
                ELSE <<0>>]
      BY DEF Init
    <3>2. share \in Nat /\ \A c \in ClientIds : c.quantity \in Nat
      BY PaperCycleAssumption DEF Quantities, ClientIds
    <3>3. \A c \in ClientIds :
             /\ filled[c] \in Seq(Nat)
             /\ Len(filled[c]) = IF legacy[c] = None THEN 0 ELSE 1
      <4> SUFFICES ASSUME NEW c \in ClientIds
                   PROVE  /\ filled[c] \in Seq(Nat)
                          /\ Len(filled[c]) = IF legacy[c] = None THEN 0 ELSE 1
        OBVIOUS
      <4>1. filled[c] = IF legacy[c] = None THEN <<>>
                ELSE IF legacy[c] = "PARTIALLY_FILLED" THEN <<share>>
                ELSE IF legacy[c] = "FILLED" THEN <<c.quantity>>
                ELSE <<0>>
        BY <3>1, Zenon
      <4>2. filled[c] = <<>> \/ \E m \in Nat : filled[c] = <<m>>
        BY <3>2, <4>1
      <4> QED
        BY <4>1, <4>2, <3>2
    <3>4. \A c \in ClientIds : Len(requests[c]) = IF legacy[c] = None THEN 0 ELSE 1
      BY DEF Init
    <3>5. filled = [c \in ClientIds |-> filled[c]]
      BY <3>1
    <3> QED
      BY <3>3, <3>4, <3>5
  <2> QED
    BY <2>1, <2>2, <2>3, LedgerFacts, PaperCycleAssumption DEF Init, TypeOK, Submitting
<1>2. TypeOK /\ [Next]_vars => TypeOK'
  <2> SUFFICES ASSUME TypeOK, [Next]_vars PROVE TypeOK'
    OBVIOUS
  <2>1. ASSUME NEW p \in Cycles, CycleStep(p) PROVE TypeOK'
    <3>1. CASE Start(p)
      BY <3>1 DEF Start, Goto, TypeOK, Submitting
    <3>2. CASE CheckOpenOrders(p)
      BY <3>2, LeaveTypes DEF CheckOpenOrders, Goto, TypeOK, Submitting, Labels
    <3>3. CASE ReadAccount(p)
      BY <3>3 DEF ReadAccount, Goto, TypeOK, Submitting
    <3>4. CASE ReadPositions(p)
      <4>1. Phase(Intents(asOf[p], capital[p], holdings)) \subseteq ClientIds
        BY DEF Phase, Intents
      <4>2. CASE mode[p] = "preview"
        BY <3>4, <4>2, LeaveTypes DEF ReadPositions, TypeOK, Labels
      <4>t. torn \cup HalfTraded \subseteq Symbols
        BY DEF TypeOK, HalfTraded, ClientIds
      <4>3. CASE mode[p] # "preview"
        <5>1. todo' \in [Cycles -> SUBSET ClientIds]
          BY <3>4, <4>1, <4>3 DEF ReadPositions, TypeOK
        <5> QED
          BY <3>4, <4>3, <4>t, <5>1 DEF ReadPositions, Goto, TypeOK, Submitting
      <4> QED
        BY <4>2, <4>3
    <3>5. CASE LoadSnapshot(p)
      <4>1. StoredLedger \in Ledgers
        BY PaperCycleAssumption DEF StoredLedger, TypeOK
      <4> QED
        BY <3>5, <4>1 DEF LoadSnapshot, Goto, TypeOK, Submitting, Saving
    <3>6. CASE PersistInitial(p)
      BY <3>6, PersistTypes DEF PersistInitial, Persisted, Goto, TypeOK, Submitting
    <3>7. CASE LookupFound(p)
      <4>1. PICK c \in todo[p], s \in OrderStatuses :
               /\ ledger' = [ledger EXCEPT ![p][c] = s]
               /\ orders' = [orders EXCEPT ![p][c] = s]
        BY <3>7 DEF LookupFound, Routed
      <4>2. c \in ClientIds
        BY <4>1 DEF TypeOK
      <4>3. ledger' \in [Cycles -> Ledgers] /\ orders' \in [Cycles -> KnownOrders]
        BY <4>1, <4>2, LedgerFacts DEF TypeOK
      <4> QED
        BY <3>7, <4>3 DEF LookupFound, Goto, TypeOK, Submitting, Saving
    <3>8. CASE LookupUncertain(p)
      BY <3>8, LeaveTypes DEF LookupUncertain, TypeOK, Labels
    <3>9. CASE LookupMissing(p)
      <4>1. PICK c \in todo[p] :
               /\ current' = [current EXCEPT ![p] = c]
               /\ ledger' = [ledger EXCEPT ![p][c] = "ATTEMPTING"]
        BY <3>9 DEF LookupMissing
      <4>2. c \in ClientIds /\ "ATTEMPTING" \in LedgerStates
        BY DEF TypeOK, LedgerStates
      <4>3. ledger' \in [Cycles -> Ledgers]
        BY <4>1, <4>2, LedgerFacts DEF TypeOK
      <4> QED
        BY <3>9, <4>1, <4>2, <4>3 DEF LookupMissing, Goto, TypeOK, Submitting, Saving
    <3>10. CASE PhaseDone(p)
      BY <3>10, LeaveTypes DEF PhaseDone, TypeOK, Labels
    <3>11. CASE PersistReconciled(p)
      BY <3>11, LeaveTypes, PersistTypes DEF PersistReconciled, TypeOK, Labels
    <3>12. CASE PersistAttempt(p)
      <4>0. current[p] \in ClientIds
        BY <3>12 DEF PersistAttempt, TypeOK, Submitting
      <4>1. waived' \in SUBSET ClientIds
        BY <3>12, <4>0 DEF PersistAttempt, TypeOK
      <4> QED
        BY <3>12, <4>1, PersistTypes DEF PersistAttempt, Persisted, Goto, TypeOK, Submitting
    <3>13. CASE Send(p)
      <4>0. current[p] \in ClientIds
        BY <3>13 DEF Send, TypeOK, Submitting
      <4>1. requests' \in [ClientIds -> Seq(RequestStates)]
        BY <3>13, <4>0 DEF Send, TypeOK, RequestStates
      <4>2. /\ filled' \in [ClientIds -> Seq(Nat)]
            /\ \A c \in ClientIds : Len(filled'[c]) = Len(requests'[c])
        <5>1. /\ filled[current[p]] \in Seq(Nat)
              /\ requests[current[p]] \in Seq(RequestStates)
              /\ Len(filled[current[p]]) = Len(requests[current[p]])
          BY <4>0 DEF TypeOK
        <5>2. /\ filled' = [filled EXCEPT ![current[p]] = Append(@, 0)]
              /\ requests' = [requests EXCEPT ![current[p]] = Append(@, "INFLIGHT")]
          BY <3>13 DEF Send
        <5>3. /\ Append(filled[current[p]], 0) \in Seq(Nat)
              /\ Len(Append(filled[current[p]], 0))
                    = Len(Append(requests[current[p]], "INFLIGHT"))
          BY <5>1
        <5> QED
          BY <4>0, <5>2, <5>3 DEF TypeOK
      <4> QED
        BY <3>13, <4>1, <4>2 DEF Send, Goto, TypeOK, Submitting
    <3>14. CASE Placed(p)
      <4>0. current[p] \in ClientIds
        BY <3>14 DEF Placed, TypeOK, Submitting
      <4>1. PICK s \in OrderStatuses :
               /\ ledger' = [ledger EXCEPT ![p][current[p]] = s]
               /\ orders' = [orders EXCEPT ![p][current[p]] = s]
        BY <3>14 DEF Placed, Routed
      <4>2. ledger' \in [Cycles -> Ledgers] /\ orders' \in [Cycles -> KnownOrders]
        BY <4>0, <4>1, LedgerFacts DEF TypeOK
      <4> QED
        BY <3>14, <4>2 DEF Placed, Goto, TypeOK, Submitting, Saving
    <3>15. CASE SubmitFails(p)
      <4>0. current[p] \in ClientIds
        BY <3>15 DEF SubmitFails, TypeOK, Submitting
      <4>1. "UNKNOWN" \in LedgerStates
        BY DEF LedgerStates
      <4>2. ledger' \in [Cycles -> Ledgers]
        BY <3>15, <4>0, <4>1, LedgerFacts DEF SubmitFails, TypeOK
      <4> QED
        BY <3>15, <4>2 DEF SubmitFails, Goto, TypeOK, Submitting, Saving
    <3>16. CASE PersistUnknown(p)
      BY <3>16, LeaveTypes, PersistTypes DEF PersistUnknown, TypeOK, Labels
    <3>17. CASE PersistResult(p)
      <4>1. CASE ledger[p][current[p]] \in {"CANCELLED", "REJECTED"}
        BY <3>17, <4>1, LeaveTypes, PersistTypes DEF PersistResult, TypeOK, Labels
      <4>2. CASE ledger[p][current[p]] \notin {"CANCELLED", "REJECTED"}
        <5>1. /\ todo' \in [Cycles -> SUBSET ClientIds]
              /\ current' \in [Cycles -> ClientIds \cup {NoId}]
              /\ revision' \in [Cycles -> Nat]
          <6>1. todo' \in [Cycles -> SUBSET ClientIds]
            <7>1. todo[p] \ {current[p]} \subseteq ClientIds
              BY DEF TypeOK
            <7>2. todo' = [todo EXCEPT ![p] = todo[p] \ {current[p]}]
              BY <3>17, <4>2 DEF PersistResult
            <7> QED
              BY <7>1, <7>2 DEF TypeOK
          <6>2. current' \in [Cycles -> ClientIds \cup {NoId}]
            BY <3>17, <4>2 DEF PersistResult, TypeOK
          <6>3. revision' \in [Cycles -> Nat]
            <7>1. revision' = [revision EXCEPT ![p] = disk.revision + 1]
              BY <3>17, <4>2 DEF PersistResult, Persisted
            <7>2. disk.revision + 1 \in Nat
              BY DEF TypeOK
            <7> QED
              BY <7>1, <7>2 DEF TypeOK
          <6> QED
            BY <6>1, <6>2, <6>3
        <5>2. \A q \in Cycles :
                 pc'[q] \in Submitting => current'[q] \in ClientIds
          <6>1. pc'[p] \notin Submitting
            <7>1. pc' = [pc EXCEPT ![p] = "next"]
              BY <3>17, <4>2 DEF PersistResult, Goto
            <7>2. pc'[p] = "next"
              BY <7>1 DEF TypeOK
            <7> QED
              BY <7>2 DEF Submitting
          <6>2. \A q \in Cycles \ {p} : pc'[q] = pc[q] /\ current'[q] = current[q]
            <7>1. /\ pc' = [pc EXCEPT ![p] = "next"]
                  /\ current' = [current EXCEPT ![p] = NoId]
              BY <3>17, <4>2 DEF PersistResult, Goto
            <7> QED
              BY <7>1 DEF TypeOK
          <6> QED
            BY <6>1, <6>2 DEF TypeOK
        <5>3. pc' \in [Cycles -> Labels]
          BY <3>17, <4>2 DEF PersistResult, Goto, TypeOK, Labels
        <5> QED
          BY <3>17, <4>2, <5>1, <5>2, <5>3, PersistTypes
             DEF PersistResult, TypeOK, Labels
      <4> QED
        BY <4>1, <4>2
    <3>18. CASE PersistConflict(p)
      BY <3>18, LeaveTypes DEF PersistConflict, TypeOK, Labels
    <3>19. CASE PersistErrorAfterWrite(p)
      BY <3>19, LeaveTypes, PersistTypes DEF PersistErrorAfterWrite, TypeOK, Labels
    <3>20. CASE Stop(p)
      BY <3>20, LeaveTypes DEF Stop, TypeOK, Labels
    <3> QED
      BY <2>1, <3>1, <3>2, <3>3, <3>4, <3>5, <3>6, <3>7, <3>8, <3>9, <3>10,
         <3>11, <3>12, <3>13, <3>14, <3>15, <3>16, <3>17, <3>18, <3>19, <3>20
         DEF CycleStep, Proceed
  <2>2. CASE VenueStep
    BY <2>2, VenueTypes DEF VenueStep, TypeOK
  <2>3. CASE MarketMoves
    BY <2>3 DEF MarketMoves, TypeOK
  <2>4. CASE UNCHANGED vars
    BY <2>4 DEF TypeOK
  <2> QED
    BY <2>1, <2>2, <2>3, <2>4 DEF Next
<1> QED
  BY <1>1, <1>2, PTL DEF Spec

-----------------------------------------------------------------------------
(* Everyone but p keeps what the invariant reads.                          *)
OthersKeep(p) ==
    \A q \in Cycles \ {p} :
        /\ pc'[q] = pc[q]
        /\ mode'[q] = mode[q]
        /\ current'[q] = current[q]
        /\ ledger'[q] = ledger[q]
        /\ orders'[q] = orders[q]
        /\ revision'[q] = revision[q]
        /\ todo'[q] = todo[q]

LEMMA LeaveFrame ==
    ASSUME TypeOK, NEW p \in Cycles, Leave(p)
    PROVE  OthersKeep(p) /\ pc'[p] = "idle" /\ revision'[p] = 0
BY DEF TypeOK, Leave, OthersKeep

(* A step that neither saves nor sends keeps the invariant, provided p's   *)
(* copy of the ledger stays complete and an attempt p begins is new.       *)
LEMMA LocalStep ==
    ASSUME TypeOK, SubmissionInv, NEW p \in Cycles, OthersKeep(p),
           UNCHANGED <<requests, disk, legacy, waived>>,
           pc'[p] # "send",
           revision'[p] <= disk.revision,
           pc'[p] \in Working /\ revision'[p] = disk.revision
               => \A c \in ClientIds : Recorded(c) => ledger'[p][c] # None,
           pc'[p] = "attempt" =>
               /\ ledger'[p][current'[p]] # None
               /\ mode'[p] # "retry" /\ revision'[p] = disk.revision
                     => ~ Recorded(current'[p])
    PROVE  SubmissionInv'
<1>1. \A c \in ClientIds : Recorded(c)' <=> Recorded(c)
  BY DEF Recorded, StoredLedger
<1>2. SentIsRecorded' /\ SentOnce'
  BY <1>1 DEF SubmissionInv, SentIsRecorded, SentOnce
<1>3. \A q \in Cycles : revision'[q] <= disk'.revision
  BY DEF SubmissionInv, OthersKeep
<1>4. \A q \in Cycles : pc'[q] \in Working /\ revision'[q] = disk'.revision
         => \A c \in ClientIds : Recorded(c)' => ledger'[q][c] # None
  BY <1>1 DEF OthersKeep, SubmissionInv
<1>5. \A q \in Cycles :
          pc'[q] = "attempt" =>
              /\ ledger'[q][current'[q]] # None
              /\ mode'[q] # "retry" /\ revision'[q] = disk'.revision
                    => ~ Recorded(current[q])'
  BY DEF OthersKeep, SubmissionInv, Recorded, StoredLedger
<1>6. \A q \in Cycles :
          pc'[q] = "send" =>
              /\ Recorded(current[q])'
              /\ current'[q] \notin waived' => requests'[current'[q]] = <<>>
  BY DEF OthersKeep, SubmissionInv, Recorded, StoredLedger
<1>7. \A q, r \in Cycles :
          /\ pc'[q] = "send" /\ pc'[r] = "send"
          /\ current'[q] = current'[r] /\ current'[q] \notin waived'
          => q = r
  BY DEF OthersKeep, SubmissionInv
<1> QED
  BY <1>2, <1>3, <1>4, <1>5, <1>6, <1>7 DEF SubmissionInv

(* Leaving, or a step before the submission loop, is such a step.          *)
LEMMA QuietStep ==
    ASSUME TypeOK, SubmissionInv, NEW p \in Cycles, OthersKeep(p),
           UNCHANGED <<requests, disk, legacy, waived>>,
           pc'[p] \notin Working,
           revision'[p] \in {0, revision[p]}
    PROVE  SubmissionInv'
<1>1. revision'[p] <= disk.revision
  <2>1. revision[p] <= disk.revision /\ revision[p] \in Nat
    BY DEF SubmissionInv, TypeOK
  <2>2. disk.revision \in Nat
    BY DEF TypeOK
  <2> QED
    BY <2>1, <2>2
<1>2. "attempt" \in Working /\ "send" \in Working
  BY DEF Working, Saving
<1> QED
  BY <1>1, <1>2, LocalStep

(* A save keeps every record, and no other invocation can save at the      *)
(* revision it has seen any more.                                          *)
LEMMA PersistKeepsRecords ==
    ASSUME TypeOK, SubmissionInv, NEW p \in Cycles, pc[p] \in Saving, Persist(p)
    PROVE  /\ \A c \in ClientIds : Recorded(c) => Recorded(c)'
           /\ \A c \in ClientIds : Recorded(c)' <=> ledger[p][c] # None
           /\ disk'.revision = disk.revision + 1
           /\ \A q \in Cycles : revision[q] # disk'.revision
           /\ \A q \in Cycles : revision[q] <= disk'.revision
<1>1. /\ disk.revision \in Nat
      /\ disk'.revision = disk.revision + 1
      /\ disk'.intents = ledger[p]
      /\ revision[p] = disk.revision
  BY PersistTypes DEF Persist
<1>2. \A c \in ClientIds : Recorded(c)' <=> ledger[p][c] # None
  BY <1>1 DEF Recorded, StoredLedger
<1>3. \A c \in ClientIds : Recorded(c) => ledger[p][c] # None
  BY <1>1 DEF SubmissionInv, Working
<1>4. \A q \in Cycles : revision[q] \in Nat /\ revision[q] <= disk.revision
  BY DEF SubmissionInv, TypeOK
<1> QED
  BY <1>1, <1>2, <1>3, <1>4

(* A save after which the invocation is over, or goes on to its next       *)
(* intent, keeps the invariant.                                            *)
LEMMA PersistStep ==
    ASSUME TypeOK, SubmissionInv, NEW p \in Cycles, pc[p] \in Saving, Persist(p),
           UNCHANGED <<requests, waived>>, OthersKeep(p),
           \/ pc'[p] = "idle" /\ revision'[p] = 0
           \/ /\ pc'[p] = "next"
              /\ revision'[p] = disk.revision + 1
              /\ ledger'[p] = ledger[p]
    PROVE  SubmissionInv'
<1>1. /\ \A c \in ClientIds : Recorded(c) => Recorded(c)'
      /\ \A c \in ClientIds : Recorded(c)' <=> ledger[p][c] # None
      /\ disk'.revision = disk.revision + 1
      /\ \A q \in Cycles : revision[q] # disk'.revision
      /\ \A q \in Cycles : revision[q] <= disk'.revision
      /\ disk.revision \in Nat
  BY PersistKeepsRecords, PersistTypes
<1>2. SentIsRecorded' /\ SentOnce'
  BY <1>1 DEF SubmissionInv, SentIsRecorded, SentOnce
<1>3. \A q \in Cycles : revision'[q] <= disk'.revision
  BY <1>1 DEF OthersKeep
<1>4. \A q \in Cycles : pc'[q] \in Working /\ revision'[q] = disk'.revision
         => \A c \in ClientIds : Recorded(c)' => ledger'[q][c] # None
  BY <1>1 DEF OthersKeep, Working, Saving
<1>5. \A q \in Cycles :
          pc'[q] = "attempt" =>
              /\ ledger'[q][current'[q]] # None
              /\ mode'[q] # "retry" /\ revision'[q] = disk'.revision
                    => ~ Recorded(current[q])'
  BY <1>1 DEF OthersKeep, SubmissionInv
<1>6. \A q \in Cycles :
          pc'[q] = "send" =>
              /\ Recorded(current[q])'
              /\ current'[q] \notin waived' => requests'[current'[q]] = <<>>
  BY <1>1 DEF OthersKeep, SubmissionInv, TypeOK, Submitting
<1> QED
  BY <1>2, <1>3, <1>4, <1>5, <1>6 DEF SubmissionInv, OthersKeep

(* The invariant holds of every behaviour.                                 *)
THEOREM SubmissionInvariant == Spec => []SubmissionInv
<1>1. Init => SubmissionInv
  <2> SUFFICES ASSUME Init PROVE SubmissionInv
    OBVIOUS
  <2>1. \A c \in ClientIds :
           /\ requests[c] # <<>> => legacy[c] # None
           /\ Len(requests[c]) <= 1
    BY DEF Init
  <2> QED
    BY <2>1 DEF Init, SubmissionInv, SentIsRecorded, SentOnce, Recorded,
                StoredLedger, Working, Saving
<1>2. TypeOK /\ SubmissionInv /\ [Next]_vars => SubmissionInv'
  <2> SUFFICES ASSUME TypeOK, SubmissionInv, [Next]_vars PROVE SubmissionInv'
    OBVIOUS
  <2>1. ASSUME NEW p \in Cycles, CycleStep(p) PROVE SubmissionInv'
    <3> DEFINE quiet ==
          /\ OthersKeep(p)
          /\ UNCHANGED <<requests, disk, legacy, waived>>
          /\ pc'[p] \notin Working
          /\ revision'[p] \in {0, revision[p]}
    <3>q. quiet => SubmissionInv'
      BY QuietStep
    <3>w. {"idle", "open_orders", "account", "positions", "load"} \cap Working = {}
      BY DEF Working, Saving
    <3>n. /\ Saving \subseteq Working
          /\ {"next", "send", "await"} \subseteq Working
          /\ "attempt" \notin {"reconcile", "result", "unknown", "initialise", "next"}
      BY DEF Working
    <3>1. CASE Start(p)
      <4>1. quiet
        BY <3>1, <3>w DEF Start, Goto, OthersKeep, TypeOK
      <4> QED BY <4>1, <3>q
    <3>2. CASE CheckOpenOrders(p)
      <4>1. quiet
        BY <3>2, <3>w, LeaveFrame DEF CheckOpenOrders, Goto, OthersKeep, TypeOK
      <4> QED BY <4>1, <3>q
    <3>3. CASE ReadAccount(p)
      <4>1. quiet
        BY <3>3, <3>w DEF ReadAccount, Goto, OthersKeep, TypeOK
      <4> QED BY <4>1, <3>q
    <3>4. CASE ReadPositions(p)
      <4>1. quiet
        BY <3>4, <3>w, LeaveFrame DEF ReadPositions, Goto, OthersKeep, TypeOK
      <4> QED BY <4>1, <3>q
    <3>5. CASE LoadSnapshot(p)
      <4>1. /\ OthersKeep(p)
            /\ pc'[p] = "initialise"
            /\ revision'[p] = disk.revision
            /\ ledger'[p] = StoredLedger
        BY <3>5 DEF LoadSnapshot, Goto, OthersKeep, TypeOK
      <4>2. UNCHANGED <<requests, disk, legacy, waived>>
        BY <3>5 DEF LoadSnapshot
      <4>3. disk.revision \in Nat
        BY DEF TypeOK
      <4>4. \A c \in ClientIds : Recorded(c) => ledger'[p][c] # None
        BY <4>1 DEF Recorded
      <4> QED
        BY <4>1, <4>2, <4>3, <4>4, LocalStep
    <3>6. CASE PersistInitial(p)
      BY <3>6, PersistStep
         DEF PersistInitial, Persisted, Goto, OthersKeep, TypeOK, Saving
    <3>7. CASE LookupFound(p)
      <4>1. PICK c \in ClientIds, s \in OrderStatuses :
               ledger' = [ledger EXCEPT ![p][c] = s]
        BY <3>7 DEF LookupFound, Routed, TypeOK
      <4>2. s # None
        BY <4>1 DEF OrderStatuses, OpenStatuses, None
      <4>3. \A d \in ClientIds : ledger[p][d] # None => ledger'[p][d] # None
        BY <4>1, <4>2 DEF TypeOK, Ledgers
      <4>4. OthersKeep(p) /\ pc'[p] = "reconcile" /\ revision' = revision
        BY <3>7, <4>1 DEF LookupFound, Goto, OthersKeep, TypeOK
      <4>5. pc[p] \in Working
        BY <3>7, <3>n DEF LookupFound
      <4>6. UNCHANGED <<requests, disk, legacy, waived>>
        BY <3>7 DEF LookupFound
      <4> QED
        BY <4>3, <4>4, <4>5, <4>6, LocalStep DEF SubmissionInv
    <3>8. CASE LookupUncertain(p)
      <4>1. quiet
        BY <3>8, <3>w, LeaveFrame DEF LookupUncertain
      <4> QED BY <4>1, <3>q
    <3>9. CASE LookupMissing(p)
      <4>1. PICK c \in ClientIds :
               /\ mode[p] = "retry" \/ ledger[p][c] = None
               /\ current' = [current EXCEPT ![p] = c]
               /\ ledger' = [ledger EXCEPT ![p][c] = "ATTEMPTING"]
        BY <3>9 DEF LookupMissing, TypeOK
      <4>2. /\ current'[p] = c
            /\ ledger'[p][c] # None
            /\ \A d \in ClientIds : ledger[p][d] # None => ledger'[p][d] # None
        BY <4>1 DEF TypeOK, Ledgers, None
      <4>3. /\ OthersKeep(p) /\ pc'[p] = "attempt"
            /\ revision' = revision /\ mode' = mode
        BY <3>9, <4>1 DEF LookupMissing, Goto, OthersKeep, TypeOK
      <4>4. pc[p] \in Working
        BY <3>9, <3>n DEF LookupMissing
      <4>5. UNCHANGED <<requests, disk, legacy, waived>>
        BY <3>9 DEF LookupMissing
      <4>6. revision[p] = disk.revision /\ mode[p] # "retry" => ~ Recorded(c)
        BY <4>1, <4>4 DEF SubmissionInv
      <4> QED
        BY <4>2, <4>3, <4>4, <4>5, <4>6, LocalStep DEF SubmissionInv
    <3>10. CASE PhaseDone(p)
      <4>1. quiet
        BY <3>10, <3>w, LeaveFrame DEF PhaseDone
      <4> QED BY <4>1, <3>q
    <3>11. CASE PersistReconciled(p)
      BY <3>11, LeaveFrame, PersistStep DEF PersistReconciled, Saving
    <3>12. CASE PersistAttempt(p)
      <4> DEFINE c == current[p]
      <4>1. /\ \A d \in ClientIds : Recorded(d) => Recorded(d)'
            /\ \A d \in ClientIds : Recorded(d)' <=> ledger[p][d] # None
            /\ disk'.revision = disk.revision + 1
            /\ \A q \in Cycles : revision[q] # disk'.revision
            /\ \A q \in Cycles : revision[q] <= disk'.revision
            /\ disk.revision \in Nat
        BY <3>12, PersistKeepsRecords, PersistTypes DEF PersistAttempt, Saving
      <4>2. /\ OthersKeep(p)
            /\ pc'[p] = "send"
            /\ revision'[p] = disk'.revision
            /\ current' = current /\ mode' = mode /\ ledger' = ledger
            /\ requests' = requests
        BY <3>12, <4>1 DEF PersistAttempt, Persisted, Goto, OthersKeep, TypeOK
      <4>3. c \in ClientIds
        BY <3>12 DEF PersistAttempt, TypeOK, Submitting
      <4>4. Recorded(c)'
        BY <3>12, <4>1, <4>2, <4>3 DEF PersistAttempt, SubmissionInv
      <4>5. c \notin waived' => ~ Recorded(c)
        BY <3>12 DEF PersistAttempt, Persist, SubmissionInv
      <4>6. waived \subseteq waived'
        BY <3>12 DEF PersistAttempt
      <4>7. SentIsRecorded' /\ SentOnce'
        BY <4>1, <4>2, <4>6 DEF SubmissionInv, SentIsRecorded, SentOnce
      <4>8. \A q \in Cycles : revision'[q] <= disk'.revision
        BY <4>1, <4>2 DEF OthersKeep
      <4>9. \A q \in Cycles : pc'[q] \in Working /\ revision'[q] = disk'.revision
               => \A d \in ClientIds : Recorded(d)' => ledger'[q][d] # None
        BY <4>1, <4>2 DEF OthersKeep
      <4>10. \A q \in Cycles :
                pc'[q] = "attempt" =>
                    /\ ledger'[q][current'[q]] # None
                    /\ mode'[q] # "retry" /\ revision'[q] = disk'.revision
                          => ~ Recorded(current[q])'
        BY <4>1, <4>2 DEF OthersKeep, SubmissionInv
      <4>11. ASSUME NEW q \in Cycles, pc'[q] = "send"
             PROVE  /\ Recorded(current[q])'
                    /\ current'[q] \notin waived' => requests'[current'[q]] = <<>>
        <5>1. CASE q = p
          BY <4>2, <4>3, <4>4, <4>5, <5>1 DEF SubmissionInv, SentIsRecorded
        <5>2. CASE q # p
          <6>1. pc[q] = "send" /\ current[q] \in ClientIds
            BY <4>2, <4>11, <5>2 DEF OthersKeep, TypeOK, Submitting
          <6> QED
            BY <4>1, <4>2, <4>6, <6>1 DEF SubmissionInv
        <5> QED
          BY <5>1, <5>2
      <4>12. ASSUME NEW q \in Cycles, NEW r \in Cycles,
                    pc'[q] = "send", pc'[r] = "send",
                    current'[q] = current'[r], current'[q] \notin waived'
             PROVE  q = r
        BY <4>2, <4>5, <4>6, <4>12 DEF OthersKeep, SubmissionInv
      <4> QED
        BY <4>7, <4>8, <4>9, <4>10, <4>11, <4>12 DEF SubmissionInv
    <3>13. CASE Send(p)
      <4> DEFINE c == current[p]
      <4>1. /\ OthersKeep(p)
            /\ pc'[p] = "await"
            /\ UNCHANGED <<disk, legacy, waived, current, mode, ledger, revision>>
        BY <3>13 DEF Send, Goto, OthersKeep, TypeOK
      <4>2. c \in ClientIds /\ Recorded(c)
        BY <3>13 DEF Send, TypeOK, Submitting, SubmissionInv
      <4>3. /\ requests'[c] = Append(requests[c], "INFLIGHT")
            /\ \A d \in ClientIds \ {c} : requests'[d] = requests[d]
        BY <3>13, <4>2 DEF Send, TypeOK
      <4>4. c \notin waived => Len(requests'[c]) = 1
        BY <3>13, <4>3 DEF Send, SubmissionInv
      <4>5. \A d \in ClientIds : Recorded(d)' <=> Recorded(d)
        BY <4>1 DEF Recorded, StoredLedger
      <4>6. SentIsRecorded' /\ SentOnce'
        BY <4>1, <4>2, <4>3, <4>4, <4>5 DEF SubmissionInv, SentIsRecorded, SentOnce
      <4>7. \A q \in Cycles : pc'[q] \in Working => pc[q] \in Working
        BY <3>13, <3>n, <4>1 DEF Send, OthersKeep
      <4>8. ASSUME NEW q \in Cycles, pc'[q] = "send"
            PROVE  /\ Recorded(current[q])'
                   /\ current'[q] \notin waived' => requests'[current'[q]] = <<>>
        <5>1. q # p /\ pc[q] = "send" /\ current[q] \in ClientIds
          BY <4>1, <4>8 DEF OthersKeep, TypeOK, Submitting
        <5>2. current[q] \notin waived => current[q] # c
          BY <3>13, <5>1 DEF Send, SubmissionInv
        <5> QED
          BY <4>1, <4>3, <4>5, <5>1, <5>2 DEF SubmissionInv
      <4>9. \A q \in Cycles : pc'[q] \in {"attempt", "send"} => pc[q] = pc'[q]
        BY <4>1 DEF OthersKeep
      <4> QED
        BY <4>1, <4>5, <4>6, <4>7, <4>8, <4>9
           DEF SubmissionInv, Recorded, StoredLedger
    <3>14. CASE Placed(p)
      <4>1. PICK s \in OrderStatuses :
               ledger' = [ledger EXCEPT ![p][current[p]] = s]
        BY <3>14 DEF Placed, Routed
      <4>2. s # None
        BY <4>1 DEF OrderStatuses, OpenStatuses, None
      <4>3. \A d \in ClientIds : ledger[p][d] # None => ledger'[p][d] # None
        BY <4>1, <4>2 DEF TypeOK, Ledgers
      <4>4. OthersKeep(p) /\ pc'[p] = "result" /\ revision' = revision
        BY <3>14, <4>1 DEF Placed, Goto, OthersKeep, TypeOK
      <4>5. pc[p] \in Working
        BY <3>14, <3>n DEF Placed
      <4>6. UNCHANGED <<requests, disk, legacy, waived>>
        BY <3>14 DEF Placed
      <4> QED
        BY <4>3, <4>4, <4>5, <4>6, LocalStep DEF SubmissionInv
    <3>15. CASE SubmitFails(p)
      <4>1. \A d \in ClientIds : ledger[p][d] # None => ledger'[p][d] # None
        BY <3>15 DEF SubmitFails, TypeOK, Ledgers, None
      <4>2. OthersKeep(p) /\ pc'[p] = "unknown" /\ revision' = revision
        BY <3>15 DEF SubmitFails, Goto, OthersKeep, TypeOK
      <4>3. pc[p] \in Working
        BY <3>15, <3>n DEF SubmitFails
      <4>4. UNCHANGED <<requests, disk, legacy, waived>>
        BY <3>15 DEF SubmitFails
      <4> QED
        BY <4>1, <4>2, <4>3, <4>4, LocalStep DEF SubmissionInv
    <3>16. CASE PersistUnknown(p)
      BY <3>16, LeaveFrame, PersistStep DEF PersistUnknown, Saving
    <3>17. CASE PersistResult(p)
      <4>1. CASE ledger[p][current[p]] \in {"CANCELLED", "REJECTED"}
        BY <3>17, <4>1, LeaveFrame, PersistStep DEF PersistResult, Saving
      <4>2. CASE ledger[p][current[p]] \notin {"CANCELLED", "REJECTED"}
        BY <3>17, <4>2, PersistStep
           DEF PersistResult, Persisted, Goto, OthersKeep, TypeOK, Saving
      <4> QED
        BY <4>1, <4>2
    <3>18. CASE PersistConflict(p)
      <4>1. quiet
        BY <3>18, <3>w, LeaveFrame DEF PersistConflict
      <4> QED BY <4>1, <3>q
    <3>19. CASE PersistErrorAfterWrite(p)
      BY <3>19, LeaveFrame, PersistStep DEF PersistErrorAfterWrite
    <3>20. CASE Stop(p)
      <4>1. quiet
        BY <3>20, <3>w, LeaveFrame DEF Stop
      <4> QED BY <4>1, <3>q
    <3> QED
      BY <2>1, <3>1, <3>2, <3>3, <3>4, <3>5, <3>6, <3>7, <3>8, <3>9, <3>10,
         <3>11, <3>12, <3>13, <3>14, <3>15, <3>16, <3>17, <3>18, <3>19, <3>20
         DEF CycleStep, Proceed
  <2>2. CASE VenueStep
    <3>1. \A c \in ClientIds : Len(requests'[c]) = Len(requests[c])
      BY <2>2, VenueTypes
    <3>2. \A c \in ClientIds : requests'[c] = <<>> <=> requests[c] = <<>>
      BY <2>2, <3>1, VenueTypes DEF TypeOK
    <3>3. UNCHANGED <<disk, legacy, waived, pc, mode, current, ledger, revision>>
      BY <2>2 DEF VenueStep
    <3> QED
      BY <3>1, <3>2, <3>3
         DEF SubmissionInv, SentIsRecorded, SentOnce, Recorded, StoredLedger,
             TypeOK, Submitting
  <2>3. CASE MarketMoves
    BY <2>3 DEF MarketMoves, SubmissionInv, SentIsRecorded, SentOnce, Recorded,
                StoredLedger
  <2>4. CASE UNCHANGED vars
    BY <2>4 DEF SubmissionInv, SentIsRecorded, SentOnce, Recorded, StoredLedger
  <2> QED
    BY <2>1, <2>2, <2>3, <2>4 DEF Next
<1> QED
  BY <1>1, <1>2, TypeCorrect, PTL DEF Spec

(* No request is ever on the wire without a durable record of it: the      *)
(* ATTEMPTING marker is saved before broker.submit_order is called.        *)
THEOREM DurableIntent == Spec => []SentIsRecorded
<1>1. SubmissionInv => SentIsRecorded
  BY DEF SubmissionInv
<1> QED
  BY <1>1, SubmissionInvariant, PTL

(* However many invocations overlap, die and restart, an intent is sent at *)
(* most once unless the operator has it sent again.                        *)
THEOREM AtMostOnce == Spec => []SentOnce
<1>1. SubmissionInv => SentOnce
  BY DEF SubmissionInv
<1> QED
  BY <1>1, SubmissionInvariant, PTL

(* The stored snapshot changes only by a save that passed the revision     *)
(* check.                                                                  *)
LEMMA StoreChangesBySave ==
    ASSUME TypeOK, [Next]_vars
    PROVE  \/ UNCHANGED store
           \/ \E p \in Cycles : pc[p] \in Saving /\ Persist(p)
<1>1. ASSUME NEW p \in Cycles, CycleStep(p)
      PROVE  UNCHANGED store \/ (pc[p] \in Saving /\ Persist(p))
  <2>1. CASE \/ Start(p) \/ CheckOpenOrders(p) \/ ReadAccount(p)
             \/ ReadPositions(p) \/ LoadSnapshot(p) \/ LookupFound(p)
             \/ LookupUncertain(p) \/ LookupMissing(p) \/ PhaseDone(p)
             \/ Send(p) \/ Placed(p) \/ SubmitFails(p)
             \/ PersistConflict(p) \/ Stop(p)
    BY <2>1 DEF Start, CheckOpenOrders, ReadAccount, ReadPositions, LoadSnapshot,
                LookupFound, LookupUncertain, LookupMissing, PhaseDone, Send,
                Placed, SubmitFails, PersistConflict, Stop
  <2>2. CASE \/ PersistInitial(p) \/ PersistReconciled(p) \/ PersistAttempt(p)
             \/ PersistUnknown(p) \/ PersistResult(p)
             \/ PersistErrorAfterWrite(p)
    BY <2>2 DEF PersistInitial, PersistReconciled, PersistAttempt,
                PersistUnknown, PersistResult, PersistErrorAfterWrite, Saving
  <2> QED
    BY <1>1, <2>1, <2>2 DEF CycleStep, Proceed
<1>2. VenueStep \/ MarketMoves \/ UNCHANGED vars => UNCHANGED store
  BY DEF VenueStep, MarketMoves
<1> QED
  BY <1>1, <1>2 DEF Next

(* No save, by whichever invocation, drops a record another one made.      *)
THEOREM RecordsNeverLost == Spec => RecordsAreKept
<1>1. TypeOK /\ SubmissionInv /\ [Next]_vars
        => [\A c \in ClientIds : Recorded(c) => Recorded(c)']_vars
  <2> SUFFICES ASSUME TypeOK, SubmissionInv, [Next]_vars, NEW c \in ClientIds,
                      Recorded(c)
               PROVE  Recorded(c)'
    OBVIOUS
  <2>1. CASE UNCHANGED store
    BY <2>1 DEF Recorded, StoredLedger
  <2>2. CASE \E p \in Cycles : pc[p] \in Saving /\ Persist(p)
    BY <2>2, PersistKeepsRecords
  <2> QED
    BY <2>1, <2>2, StoreChangesBySave
<1> QED
  BY <1>1, TypeCorrect, SubmissionInvariant, PTL DEF Spec, RecordsAreKept

-----------------------------------------------------------------------------
(* What a step does to the requests and to the variables of the others.    *)

Final == OrderStatuses \ OpenStatuses

LEMMA RequestsChange ==
    ASSUME [Next]_vars
    PROVE  UNCHANGED requests \/ VenueStep \/ \E p \in Cycles : Send(p)
<1>1. ASSUME NEW p \in Cycles, CycleStep(p)
      PROVE  UNCHANGED requests \/ Send(p)
  BY <1>1 DEF CycleStep, Proceed, Start, CheckOpenOrders, ReadAccount,
              ReadPositions, LoadSnapshot, PersistInitial, LookupFound,
              LookupUncertain, LookupMissing, PhaseDone, PersistReconciled,
              PersistAttempt, Placed, SubmitFails, PersistUnknown, PersistResult,
              PersistConflict, PersistErrorAfterWrite, Stop
<1> QED
  BY <1>1 DEF Next, MarketMoves

(* An order stays an order, and one that is over stays as it ended.        *)
LEMMA OrdersStand ==
    ASSUME TypeOK, [Next]_vars, NEW c \in ClientIds, NEW n \in Routed(c)
    PROVE  /\ n \in Routed(c)'
           /\ requests[c][n] \in Final => requests'[c][n] = requests[c][n]
<1>1. CASE UNCHANGED requests
  BY <1>1 DEF Routed
<1>2. CASE VenueStep
  <2>0. PICK d \in ClientIds :
           \E m \in DOMAIN requests[d] :
              \E s \in RequestStates, k \in Nat : Trades(d, m, s, k)
    BY <1>2, VenueTrades
  <2>1. PICK m \in DOMAIN requests[d], s \in RequestStates, k \in Nat :
           Trades(d, m, s, k)
    BY <2>0
  <2>2. requests[c] \in Seq(RequestStates) /\ n \in DOMAIN requests[c]
    BY DEF TypeOK, Routed
  <2>3. DOMAIN requests'[c] = DOMAIN requests[c]
    BY <2>1, <2>2 DEF TypeOK, Trades
  <2>4. CASE c = d /\ n = m
    <3>1. requests'[c][n] = s
      BY <2>1, <2>2, <2>4 DEF TypeOK, Trades
    <3>2. requests[c][n] \in OpenStatuses
      BY <2>1, <2>4 DEF Routed, OrderStatuses, OpenStatuses, Trades
    <3> QED
      BY <2>1, <2>2, <2>3, <2>4, <3>1, <3>2 DEF Routed, Final, Trades
  <2>5. CASE ~ (c = d /\ n = m)
    <3>1. requests'[c][n] = requests[c][n]
      BY <2>1, <2>2, <2>5 DEF TypeOK, Trades
    <3> QED
      BY <2>2, <2>3, <3>1 DEF Routed
  <2> QED
    BY <2>4, <2>5
<1>3. ASSUME NEW p \in Cycles, Send(p)
      PROVE  /\ n \in DOMAIN requests'[c]
             /\ requests'[c][n] = requests[c][n]
  <2>1. n \in DOMAIN requests[c] /\ requests[c] \in Seq(RequestStates)
    BY DEF TypeOK, Routed
  <2>2. \/ requests'[c] = requests[c]
        \/ requests'[c] = Append(requests[c], "INFLIGHT")
    BY <1>3 DEF Send, TypeOK
  <2>3. CASE requests'[c] = requests[c]
    BY <2>1, <2>3
  <2>4. CASE requests'[c] = Append(requests[c], "INFLIGHT")
    <3> DEFINE r == requests[c]
    <3>1. r \in Seq(RequestStates) /\ n \in DOMAIN r
      BY <2>1
    <3>2. n \in 1..Len(r) /\ Len(r) \in Nat
      BY <3>1
    <3> HIDE DEF r
    <3>3. n \in DOMAIN Append(r, "INFLIGHT") /\ Append(r, "INFLIGHT")[n] = r[n]
      BY <3>1, <3>2
    <3> QED
      BY <2>4, <3>3 DEF r
  <2> QED
    BY <2>2, <2>3, <2>4
<1> QED
  BY <1>1, <1>2, <1>3, RequestsChange DEF Routed

(* An invocation's step leaves the others where they are.                  *)
LEMMA OnlyOneMoves ==
    ASSUME TypeOK, NEW p \in Cycles, CycleStep(p)
    PROVE  OthersKeep(p)
<1>1. CASE Leave(p)
  BY <1>1, LeaveFrame
<1>2. CASE ~ Leave(p)
  BY <1>2 DEF TypeOK, OthersKeep, CycleStep, Proceed, Start, CheckOpenOrders,
              ReadAccount, ReadPositions, LoadSnapshot, PersistInitial,
              LookupFound, LookupUncertain, LookupMissing, PhaseDone,
              PersistReconciled, PersistAttempt, Send, Placed, SubmitFails,
              PersistUnknown, PersistResult, PersistConflict,
              PersistErrorAfterWrite, Stop, Goto, Persisted
<1> QED
  BY <1>1, <1>2

-----------------------------------------------------------------------------
(* Why the stored snapshot is coherent: every working copy is, whatever    *)
(* revision it was read at, and a status anyone knows is that of an order. *)

Remembered(status) == IF status \in OrderStatuses THEN status ELSE None

StoreCoherent ==
    /\ SnapshotCoherent
    /\ \A c \in ClientIds : StoredLedger[c] \in OrderStatuses => Routed(c) # {}
    /\ disk.revision = 0 => \A c \in ClientIds : disk.intents[c] = None

CopyCoherent(p) ==
    /\ \A c \in ClientIds : ledger[p][c] \in OrderStatuses => Routed(c) # {}
    /\ \A c \in ClientIds :
          legacy[c] = None => orders[p][c] = Remembered(ledger[p][c])
    /\ pc[p] \in {"attempt", "send", "await"}
          => ledger[p][current[p]] = "ATTEMPTING"

CoherenceInv == StoreCoherent /\ \A p \in Cycles : CopyCoherent(p)

(* The statuses an order may have, none of them a ledger's own word.       *)
LEMMA StatusFacts ==
    /\ {"ATTEMPTING", "UNKNOWN", None} \cap OrderStatuses = {}
    /\ OpenStatuses \subseteq OrderStatuses
BY DEF OrderStatuses, OpenStatuses, None

(* What was an order's status still is one, and others' copies stand.      *)
LEMMA CoherentFrame ==
    ASSUME TypeOK, CoherenceInv, [Next]_vars, legacy' = legacy
    PROVE  /\ \A c \in ClientIds : Routed(c) # {} => Routed(c)' # {}
           /\ UNCHANGED disk => StoreCoherent'
           /\ \A q \in Cycles :
                 UNCHANGED <<pc[q], current[q], ledger[q], orders[q]>>
                     => CopyCoherent(q)'
<1>1. \A c \in ClientIds : Routed(c) # {} => Routed(c)' # {}
  BY OrdersStand
<1>2. UNCHANGED disk => StoreCoherent'
  BY <1>1 DEF CoherenceInv, StoreCoherent, SnapshotCoherent, StoredLedger
<1>3. ASSUME NEW q \in Cycles, UNCHANGED <<pc[q], current[q], ledger[q], orders[q]>>
      PROVE  CopyCoherent(q)'
  BY <1>1, <1>3 DEF CoherenceInv, CopyCoherent
<1> QED
  BY <1>1, <1>2, <1>3

(* What is saved is coherent.                                              *)
LEMMA CoherentSave ==
    ASSUME TypeOK, CoherenceInv, [Next]_vars, NEW p \in Cycles, Persist(p)
    PROVE  StoreCoherent'
<1>1. \A c \in ClientIds : Routed(c) # {} => Routed(c)' # {}
  BY OrdersStand
<1>2. /\ disk'.revision = disk.revision + 1
      /\ disk'.intents = ledger[p]
      /\ disk'.orders = orders[p]
      /\ disk.revision \in Nat
      /\ legacy' = legacy
  BY PersistTypes DEF Persist
<1>3. CopyCoherent(p)
  BY DEF CoherenceInv
<1>4. disk'.revision # 0
  BY <1>2
<1> QED
  BY <1>1, <1>2, <1>3, <1>4
     DEF StoreCoherent, CopyCoherent, SnapshotCoherent, StoredLedger, Remembered

(* An invocation that has left knows nothing.                              *)
LEMMA CoherentLeave ==
    ASSUME TypeOK, NEW p \in Cycles, Leave(p)
    PROVE  CopyCoherent(p)'
<1>1. /\ pc'[p] = "idle"
      /\ ledger'[p] = NoLedger
      /\ orders'[p] = NoLedger
  BY DEF TypeOK, Leave
<1> QED
  BY <1>1, StatusFacts DEF CopyCoherent, NoLedger, Remembered

LEMMA CoherenceInvariant == Spec => []CoherenceInv
<1>1. Init => CoherenceInv
  <2> SUFFICES ASSUME Init PROVE CoherenceInv
    OBVIOUS
  <2>1. \A c \in ClientIds : legacy[c] \in OrderStatuses => Routed(c) # {}
    <3> SUFFICES ASSUME NEW c \in ClientIds, legacy[c] \in OrderStatuses
                 PROVE  Routed(c) # {}
      OBVIOUS
    <3>1. requests[c] = <<legacy[c]>>
      BY StatusFacts DEF Init
    <3> QED
      BY <3>1 DEF Routed
  <2>2. StoreCoherent
    BY <2>1, StatusFacts DEF Init, StoreCoherent, SnapshotCoherent, StoredLedger,
                             NoLedger
  <2>3. \A p \in Cycles : CopyCoherent(p)
    BY StatusFacts DEF Init, CopyCoherent, Remembered, NoLedger
  <2> QED
    BY <2>2, <2>3 DEF CoherenceInv
<1>2. TypeOK /\ CoherenceInv /\ [Next]_vars => CoherenceInv'
  <2> SUFFICES ASSUME TypeOK, CoherenceInv, [Next]_vars PROVE CoherenceInv'
    OBVIOUS
  <2>1. ASSUME NEW p \in Cycles, CycleStep(p) PROVE CoherenceInv'
    <3>a. legacy' = legacy
      BY <2>1, StoreChangesBySave DEF Persist
    <3>b. \A q \in Cycles \ {p} : CopyCoherent(q)'
      BY <2>1, <3>a, OnlyOneMoves, CoherentFrame DEF OthersKeep
    <3>c. StoreCoherent'
      BY <3>a, StoreChangesBySave, CoherentSave, CoherentFrame
    <3>d. \A c \in ClientIds : Routed(c) # {} => Routed(c)' # {}
      BY OrdersStand
    <3> SUFFICES CopyCoherent(p)'
      BY <3>b, <3>c DEF CoherenceInv
    <3>1. CASE Leave(p)
      BY <3>1, CoherentLeave
    <3>2. CASE /\ UNCHANGED <<ledger[p], orders[p]>>
               /\ pc'[p] \in {"attempt", "send", "await"}
                     => /\ pc[p] \in {"attempt", "send", "await"}
                        /\ current'[p] = current[p]
      BY <3>2, <3>a, <3>d DEF CoherenceInv, CopyCoherent
    <3>3. CASE LoadSnapshot(p)
      <4>1. /\ ledger'[p] = StoredLedger
            /\ orders'[p] = disk.orders
            /\ pc'[p] = "initialise"
        BY <3>3 DEF LoadSnapshot, Goto, TypeOK
      <4>2. StoreCoherent
        BY DEF CoherenceInv
      <4> QED
        BY <3>a, <3>d, <4>1, <4>2, StatusFacts
           DEF CopyCoherent, StoreCoherent, SnapshotCoherent, StoredLedger, Remembered
    <3>4. CASE LookupFound(p) \/ Placed(p)
      <4>1. PICK c \in ClientIds, s \in OrderStatuses :
               /\ Routed(c) # {}
               /\ ledger' = [ledger EXCEPT ![p][c] = s]
               /\ orders' = [orders EXCEPT ![p][c] = s]
        BY <3>4 DEF LookupFound, Placed, Routed, TypeOK, Submitting
      <4>2. pc'[p] \in {"reconcile", "result"}
        BY <3>4 DEF LookupFound, Placed, Goto, TypeOK
      <4>3. /\ ledger'[p] = [ledger[p] EXCEPT ![c] = s]
            /\ orders'[p] = [orders[p] EXCEPT ![c] = s]
        BY <4>1 DEF TypeOK
      <4>4. ledger[p] \in Ledgers /\ orders[p] \in KnownOrders
        BY DEF TypeOK
      <4> QED
        BY <3>a, <3>d, <4>1, <4>2, <4>3, <4>4
           DEF CoherenceInv, CopyCoherent, Remembered, Ledgers, KnownOrders
    <3>5. CASE LookupMissing(p)
      <4>1. PICK c \in ClientIds :
               /\ Routed(c) = {}
               /\ current' = [current EXCEPT ![p] = c]
               /\ ledger' = [ledger EXCEPT ![p][c] = "ATTEMPTING"]
               /\ orders' = orders
        BY <3>5 DEF LookupMissing, TypeOK
      <4>2. /\ ledger'[p] = [ledger[p] EXCEPT ![c] = "ATTEMPTING"]
            /\ orders'[p] = orders[p]
            /\ current'[p] = c
        BY <4>1 DEF TypeOK
      <4>3. ledger[p] \in Ledgers
        BY DEF TypeOK
      <4>4. ledger[p][c] \notin OrderStatuses
        BY <4>1 DEF CoherenceInv, CopyCoherent
      <4> QED
        BY <3>a, <3>d, <4>2, <4>3, <4>4, StatusFacts
           DEF CoherenceInv, CopyCoherent, Remembered, Ledgers
    <3>6. CASE SubmitFails(p)
      <4> DEFINE c == current[p]
      <4>1. /\ c \in ClientIds
            /\ ledger[p][c] = "ATTEMPTING"
        BY <3>6 DEF SubmitFails, TypeOK, Submitting, CoherenceInv, CopyCoherent
      <4>2. /\ ledger'[p] = [ledger[p] EXCEPT ![c] = "UNKNOWN"]
            /\ orders'[p] = orders[p]
            /\ pc'[p] = "unknown"
        BY <3>6 DEF SubmitFails, Goto, TypeOK
      <4>3. ledger[p] \in Ledgers
        BY DEF TypeOK
      <4> QED
        BY <3>a, <3>d, <4>1, <4>2, <4>3, StatusFacts
           DEF CoherenceInv, CopyCoherent, Remembered, Ledgers
    <3>7. CASE ~ Leave(p) /\ ~ (LoadSnapshot(p) \/ LookupFound(p) \/ Placed(p)
                                \/ LookupMissing(p) \/ SubmitFails(p))
      <4>1. /\ UNCHANGED <<ledger[p], orders[p]>>
            /\ pc'[p] \in {"attempt", "send", "await"}
                  => /\ pc[p] \in {"attempt", "send", "await"}
                     /\ current'[p] = current[p]
        BY <2>1, <3>7
           DEF TypeOK, CycleStep, Proceed, Start, CheckOpenOrders, ReadAccount,
               ReadPositions, PersistInitial, LookupUncertain, PhaseDone,
               PersistReconciled, PersistAttempt, Send, PersistUnknown,
               PersistResult, PersistConflict, PersistErrorAfterWrite, Stop, Goto
      <4> QED
        BY <3>2, <4>1
    <3> QED
      BY <3>1, <3>3, <3>4, <3>5, <3>6, <3>7
  <2>2. CASE VenueStep \/ MarketMoves \/ UNCHANGED vars
    <3>1. UNCHANGED <<disk, legacy, pc, current, ledger, orders>>
      BY <2>2 DEF VenueStep, MarketMoves
    <3> QED
      BY <3>1, CoherentFrame DEF CoherenceInv
  <2> QED
    BY <2>1, <2>2 DEF Next
<1> QED
  BY <1>1, <1>2, TypeCorrect, PTL DEF Spec

(* Whatever is saved, by whichever of the overlapping invocations and from *)
(* a copy however old, the snapshot on disk shows an order for exactly the *)
(* intents whose last known state is a broker's status, in that status.    *)
THEOREM SnapshotsCohere == Spec => []SnapshotCoherent
<1>1. CoherenceInv => SnapshotCoherent
  BY DEF CoherenceInv, StoreCoherent
<1> QED
  BY <1>1, CoherenceInvariant, PTL

-----------------------------------------------------------------------------
(* Orders under one id.                                                    *)

(* Without --retry-confirmed-missing nothing is ever resent.               *)
LEMMA NothingWaived ==
    ASSUME "retry" \notin Modes
    PROVE  Spec => [](waived = {})
<1>1. Init => waived = {}
  BY DEF Init
<1>2. TypeOK /\ waived = {} /\ [Next]_vars => (waived = {})'
  <2> SUFFICES ASSUME TypeOK, waived = {}, [Next]_vars PROVE waived' = {}
    OBVIOUS
  <2>1. \A p \in Cycles : mode[p] # "retry"
    BY DEF TypeOK, None
  <2>2. ASSUME NEW p \in Cycles, CycleStep(p) PROVE waived' = {}
    BY <2>1, <2>2
       DEF CycleStep, Proceed, Start, CheckOpenOrders, ReadAccount,
           ReadPositions, LoadSnapshot, PersistInitial, LookupFound,
           LookupUncertain, LookupMissing, PhaseDone, PersistReconciled,
           PersistAttempt, Send, Placed, SubmitFails, PersistUnknown,
           PersistResult, PersistConflict, PersistErrorAfterWrite, Stop
  <2> QED
    BY <2>2 DEF Next, VenueStep, MarketMoves
<1> QED
  BY <1>1, <1>2, TypeCorrect, PTL DEF Spec

(* The requests under an id that are, or may become, orders.               *)
Live(c) == {n \in DOMAIN requests[c] : requests[c][n] # "DROPPED"}

(* What one invocation at a time knows when it retries: nothing is on its  *)
(* way but what it has itself just sent.                                   *)
RetryIsAlone(p) ==
    /\ mode[p] = "retry" =>
          /\ pc[p] \notin {"await", "unknown"} => InFlight = {}
          /\ pc[p] = "await" => InFlight \subseteq {current[p]}
          /\ pc[p] \in {"attempt", "send"} => Routed(current[p]) = {}
    /\ mode[p] # "retry" /\ pc[p] = "send" => requests[current[p]] = <<>>

OneOrderInv ==
    /\ \A c \in ClientIds : \A m, n \in Live(c) : m = n
    /\ \A p \in Cycles : RetryIsAlone(p)

LEMMA LiveFacts ==
    ASSUME TypeOK, NEW c \in ClientIds
    PROVE  /\ Routed(c) \subseteq Live(c)
           /\ Routed(c) = {} /\ c \notin InFlight => Live(c) = {}
<1>1. "DROPPED" \notin OrderStatuses
  BY DEF OrderStatuses, OpenStatuses
<1>2. requests[c] \in Seq(RequestStates)
  BY DEF TypeOK
<1> QED
  BY <1>1, <1>2 DEF Routed, Live, InFlight, RequestStates

(* The venue routes, fills and closes what was sent, and no more.          *)
LEMMA VenueOnlyLessens ==
    ASSUME TypeOK, VenueStep
    PROVE  /\ \A c \in ClientIds : Live(c)' \subseteq Live(c)
           /\ InFlight' \subseteq InFlight
           /\ \A c \in ClientIds : c \notin InFlight => Routed(c)' = Routed(c)
           /\ \A c \in ClientIds : requests[c] = <<>> => requests'[c] = <<>>
<1>1. PICK d \in ClientIds :
         \E m \in DOMAIN requests[d] :
            \E s \in RequestStates, k \in Nat : Trades(d, m, s, k)
  BY VenueTrades
<1>2. PICK m \in DOMAIN requests[d], s \in RequestStates, k \in Nat :
         Trades(d, m, s, k)
  BY <1>1
<1>3. /\ requests' = [requests EXCEPT ![d][m] = s]
      /\ s # "INFLIGHT"
      /\ \/ requests[d][m] = "INFLIGHT"
         \/ requests[d][m] \in OrderStatuses /\ s \in OrderStatuses
  BY <1>2, StatusFacts DEF Trades
<1>4. \A c \in ClientIds : requests[c] \in Seq(RequestStates)
  BY DEF TypeOK
<1>5. /\ \A c \in ClientIds \ {d} : requests'[c] = requests[c]
      /\ requests'[d] = [requests[d] EXCEPT ![m] = s]
      /\ m \in DOMAIN requests[d]
  BY <1>2, <1>3 DEF TypeOK
<1>6. "DROPPED" \notin OrderStatuses
  BY DEF OrderStatuses, OpenStatuses
<1> QED
  BY <1>3, <1>4, <1>5, <1>6 DEF Live, InFlight, Routed

LEMMA OneOrderInvariant ==
    ASSUME \A p, q \in Cycles : p = q
    PROVE  Spec => []OneOrderInv
<1>1. Init => OneOrderInv
  <2> SUFFICES ASSUME Init PROVE OneOrderInv
    OBVIOUS
  <2>1. \A c \in ClientIds : DOMAIN requests[c] \subseteq {1}
    <3> SUFFICES ASSUME NEW c \in ClientIds PROVE DOMAIN requests[c] \subseteq {1}
      OBVIOUS
    <3>1. requests[c] = <<>> \/ \E s : requests[c] = <<s>>
      BY DEF Init
    <3> QED
      BY <3>1
  <2> QED
    BY <2>1 DEF Init, OneOrderInv, Live, RetryIsAlone, None
<1>2. TypeOK /\ SubmissionInv /\ OneOrderInv /\ [Next]_vars => OneOrderInv'
  <2> SUFFICES ASSUME TypeOK, SubmissionInv, OneOrderInv, [Next]_vars
               PROVE  OneOrderInv'
    OBVIOUS
  <2>1. ASSUME NEW p \in Cycles, CycleStep(p) PROVE OneOrderInv'
    <3>a. RetryIsAlone(p)
      BY DEF OneOrderInv
    <3>b. RetryIsAlone(p)' => \A q \in Cycles : RetryIsAlone(q)'
      OBVIOUS
    <3>1. CASE Send(p)
      <4>1. PICK c \in ClientIds : c = current[p]
        BY <3>1 DEF Send, TypeOK, Submitting
      <4>2. /\ requests'[c] = Append(requests[c], "INFLIGHT")
            /\ \A d \in ClientIds \ {c} : requests'[d] = requests[d]
            /\ requests[c] \in Seq(RequestStates)
            /\ pc'[p] = "await" /\ current' = current /\ mode' = mode
        BY <3>1, <4>1 DEF Send, Goto, TypeOK
      <4>3. Live(c) = {}
        BY <3>a, <3>1, <4>1, LiveFacts DEF RetryIsAlone, Send, Live
      <4>4. /\ \A d \in ClientIds : \A m, n \in Live(d)' : m = n
            /\ InFlight' \subseteq InFlight \cup {c}
        <5>1. \A n \in DOMAIN requests[c] :
                 n \in DOMAIN requests'[c] /\ requests'[c][n] = requests[c][n]
          BY <4>2
        <5>2. DOMAIN requests'[c] = DOMAIN requests[c] \cup {Len(requests[c]) + 1}
          BY <4>2
        <5>3. Live(c)' \subseteq {Len(requests[c]) + 1}
          BY <4>3, <5>1, <5>2 DEF Live
        <5>4. \A d \in ClientIds \ {c} : Live(d)' = Live(d)
          BY <4>2 DEF Live
        <5>5. \A d \in ClientIds : \A m, n \in Live(d)' : m = n
          BY <4>1, <5>3, <5>4 DEF OneOrderInv
        <5>6. InFlight' \subseteq InFlight \cup {c}
          BY <4>2 DEF InFlight
        <5> QED
          BY <5>5, <5>6
      <4> QED
        BY <3>a, <3>b, <3>1, <4>1, <4>2, <4>4 DEF OneOrderInv, RetryIsAlone, Send
    <3>2. CASE ~ Send(p)
      <4>1. requests' = requests
        BY <2>1, <3>2
           DEF CycleStep, Proceed, Start, CheckOpenOrders, ReadAccount,
               ReadPositions, LoadSnapshot, PersistInitial, LookupFound,
               LookupUncertain, LookupMissing, PhaseDone, PersistReconciled,
               PersistAttempt, Placed, SubmitFails, PersistUnknown,
               PersistResult, PersistConflict, PersistErrorAfterWrite, Stop
      <4>2. /\ InFlight' = InFlight
            /\ \A c : Live(c)' = Live(c) /\ Routed(c)' = Routed(c)
        BY <4>1 DEF InFlight, Live, Routed
      <4> SUFFICES RetryIsAlone(p)'
        BY <3>b, <4>2 DEF OneOrderInv
      <4>3. CASE Leave(p)
        BY <4>3 DEF Leave, RetryIsAlone, TypeOK, None
      <4>4. CASE Start(p)
        BY <4>2, <4>4 DEF Start, Goto, RetryIsAlone, TypeOK
      <4>5. CASE LookupMissing(p)
        BY <3>a, <4>2, <4>5 DEF LookupMissing, Goto, RetryIsAlone, TypeOK
      <4>6. CASE PersistAttempt(p)
        <5>1. /\ pc[p] = "attempt" /\ pc'[p] = "send" /\ current' = current
              /\ mode' = mode /\ revision[p] = disk.revision
              /\ current[p] \in ClientIds
          BY <4>6 DEF PersistAttempt, Persist, Goto, TypeOK, Submitting
        <5>2. mode[p] # "retry" => requests[current[p]] = <<>>
          BY <5>1 DEF SubmissionInv, SentIsRecorded
        <5> QED
          BY <3>a, <4>1, <4>2, <5>1, <5>2 DEF RetryIsAlone
      <4>7. CASE Placed(p)
        <5>1. /\ pc[p] = "await" /\ pc'[p] = "result" /\ mode' = mode
              /\ current[p] \in ClientIds
              /\ Routed(current[p]) # {}
          BY <4>7 DEF Placed, Goto, TypeOK, Submitting
        <5>2. current[p] \notin InFlight
          <6> SUFFICES ASSUME NEW n \in DOMAIN requests[current[p]],
                              requests[current[p]][n] = "INFLIGHT"
                       PROVE  FALSE
            BY DEF InFlight
          <6>1. n \in Live(current[p])
            BY DEF Live
          <6>2. n \in Routed(current[p])
            BY <5>1, <6>1, LiveFacts DEF OneOrderInv
          <6> QED
            BY <6>2 DEF Routed, OrderStatuses, OpenStatuses
        <5> QED
          BY <3>a, <4>2, <5>1, <5>2 DEF RetryIsAlone
      <4>8. CASE ~ (Leave(p) \/ Start(p) \/ LookupMissing(p)
                    \/ PersistAttempt(p) \/ Placed(p))
        <5>1. /\ mode' = mode
              /\ pc'[p] \notin {"attempt", "send", "await"}
              /\ pc'[p] = "unknown" \/ pc[p] \notin {"await", "unknown"}
          BY <2>1, <3>2, <4>8
             DEF TypeOK, CycleStep, Proceed, CheckOpenOrders, ReadAccount,
                 ReadPositions, LoadSnapshot, PersistInitial, LookupFound,
                 LookupUncertain, PhaseDone, PersistReconciled, SubmitFails,
                 PersistUnknown, PersistResult, PersistConflict,
                 PersistErrorAfterWrite, Stop, Goto
        <5> QED
          BY <3>a, <4>2, <5>1 DEF RetryIsAlone
      <4> QED
        BY <4>3, <4>4, <4>5, <4>6, <4>7, <4>8
    <3> QED
      BY <3>1, <3>2
  <2>2. CASE VenueStep
    <3>1. UNCHANGED <<pc, mode, current>>
      BY <2>2 DEF VenueStep
    <3>2. \A p \in Cycles : pc[p] \in {"attempt", "send"} => current[p] \in ClientIds
      BY DEF TypeOK, Submitting
    <3> QED
      BY <2>2, <3>1, <3>2, VenueOnlyLessens DEF OneOrderInv, RetryIsAlone
  <2>3. CASE MarketMoves \/ UNCHANGED vars
    BY <2>3 DEF MarketMoves, OneOrderInv, RetryIsAlone, Live, InFlight, Routed
  <2> QED
    BY <2>1, <2>2, <2>3 DEF Next
<1> QED
  BY <1>1, <1>2, TypeCorrect, SubmissionInvariant, PTL DEF Spec

(* An id never has two orders where invocations do not overlap, retried or *)
(* not, and where they do but nobody uses --retry-confirmed-missing.       *)
THEOREM NoSecondOrder ==
    ASSUME (\A p, q \in Cycles : p = q) \/ "retry" \notin Modes
    PROVE  Spec => []OneOrderPerId
<1>1. CASE \A p, q \in Cycles : p = q
  <2>1. TypeOK /\ OneOrderInv => OneOrderPerId
    BY LiveFacts DEF OneOrderInv, OneOrderPerId
  <2>2. Spec => []OneOrderInv
    BY <1>1, OneOrderInvariant
  <2> QED
    BY <2>1, <2>2, TypeCorrect, PTL
<1>2. CASE "retry" \notin Modes
  <2>1. TypeOK /\ SentOnce /\ waived = {} => OneOrderPerId
    <3> SUFFICES ASSUME TypeOK, SentOnce, waived = {}, NEW c \in ClientIds,
                        NEW m \in Routed(c), NEW n \in Routed(c)
                 PROVE  m = n
      BY DEF OneOrderPerId
    <3>1. requests[c] \in Seq(RequestStates) /\ Len(requests[c]) <= 1
      BY DEF TypeOK, SentOnce
    <3> QED
      BY <3>1 DEF Routed
  <2>2. Spec => [](waived = {})
    BY <1>2, NothingWaived
  <2> QED
    BY <2>1, <2>2, TypeCorrect, AtMostOnce, PTL
<1> QED
  BY <1>1, <1>2

-----------------------------------------------------------------------------
(* Final statuses.                                                         *)

Answers(c) == {requests[c][n] : n \in Routed(c)}

(* Why a final status is safe: whoever may still save knows it, or knows   *)
(* of no order because there was none when it was last saved.              *)
StoreRemembers ==
    \A l \in {legacy, disk.intents}, c \in ClientIds :
        l[c] \in Final => l[c] \in Answers(c)

CopyRemembers(p) ==
    /\ \A c \in ClientIds : ledger[p][c] \in Final => ledger[p][c] \in Answers(c)
    /\ pc[p] \in Working /\ revision[p] = disk.revision
          => \A c \in ClientIds :
                disk.intents[c] \in Final => ledger[p][c] = disk.intents[c]
    /\ pc[p] \in {"send", "await"} /\ revision[p] = disk.revision
          => disk.intents[current[p]] = "ATTEMPTING"

FinalInv == StoreRemembers /\ \A p \in Cycles : CopyRemembers(p)

LEMMA AnswersStand ==
    ASSUME TypeOK, [Next]_vars, NEW c \in ClientIds, NEW s \in Final, s \in Answers(c)
    PROVE  s \in Answers(c)'
<1>1. PICK n \in Routed(c) : requests[c][n] = s
  BY DEF Answers
<1>2. n \in Routed(c)' /\ requests'[c][n] = s
  BY <1>1, OrdersStand
<1> QED
  BY <1>2 DEF Answers

(* A save leaves everyone else with a revision that can no longer be saved. *)
LEMMA SaveOutdatesOthers ==
    ASSUME TypeOK, SubmissionInv, FinalInv, [Next]_vars,
           NEW p \in Cycles, pc[p] \in Saving, Persist(p), OthersKeep(p)
    PROVE  StoreRemembers' /\ \A q \in Cycles \ {p} : CopyRemembers(q)'
<1>1. /\ disk'.intents = ledger[p]
      /\ \A q \in Cycles : revision[q] # disk'.revision
  BY PersistTypes, PersistKeepsRecords
<1>2. StoreRemembers'
  BY <1>1, AnswersStand DEF FinalInv, StoreRemembers, CopyRemembers, Persist
<1>3. ASSUME NEW q \in Cycles \ {p} PROVE CopyRemembers(q)'
  BY <1>1, AnswersStand DEF OthersKeep, FinalInv, CopyRemembers
<1> QED
  BY <1>2, <1>3

LEMMA FinalStep ==
    ASSUME TypeOK, SubmissionInv, CoherenceInv, OneOrderPerId, FinalInv, [Next]_vars
    PROVE  FinalInv'
<1>f. /\ {"ATTEMPTING", "UNKNOWN", None} \cap Final = {}
      /\ Final \subseteq OrderStatuses
  BY DEF Final, OrderStatuses, OpenStatuses, None
<1>1. ASSUME NEW p \in Cycles, CycleStep(p) PROVE FinalInv'
  <2>o. OthersKeep(p)
    BY <1>1, OnlyOneMoves
  <2>c. CopyRemembers(p)
    BY DEF FinalInv
  <2>1. CASE UNCHANGED store
    <3>a. StoreRemembers'
      BY <2>1, AnswersStand DEF FinalInv, StoreRemembers
    <3>b. \A q \in Cycles \ {p} : CopyRemembers(q)'
      BY <2>1, <2>o, AnswersStand DEF FinalInv, CopyRemembers, OthersKeep
    <3> SUFFICES CopyRemembers(p)'
      BY <3>a, <3>b DEF FinalInv
    <3>1. CASE Leave(p)
      <4>1. ledger'[p] = NoLedger /\ pc'[p] = "idle"
        BY <3>1 DEF Leave, TypeOK
      <4> QED
        BY <4>1, <1>f DEF CopyRemembers, NoLedger, Working, Saving
    <3>2. CASE LoadSnapshot(p)
      <4>1. ledger'[p] = StoredLedger /\ pc'[p] = "initialise"
        BY <3>2 DEF LoadSnapshot, Goto, TypeOK
      <4>2. CASE disk.revision = 0
        <5>1. \A c \in ClientIds : disk.intents[c] = None
          BY <4>2 DEF CoherenceInv, StoreCoherent
        <5>2. \A c \in ClientIds : legacy[c] \in Final => legacy[c] \in Answers(c)
          BY DEF FinalInv, StoreRemembers
        <5> QED
          BY <2>1, <1>f, <4>1, <4>2, <5>1, <5>2, AnswersStand
             DEF CopyRemembers, StoredLedger
      <4>3. CASE disk.revision # 0
        BY <2>1, <3>a, <4>1, <4>3 DEF CopyRemembers, StoredLedger, StoreRemembers
      <4> QED
        BY <4>2, <4>3
    <3>3. CASE LookupFound(p) \/ Placed(p)
      <4>1. PICK c \in ClientIds, s \in OrderStatuses :
               /\ s \in Answers(c)
               /\ ledger' = [ledger EXCEPT ![p][c] = s]
        <5>1. CASE LookupFound(p)
          <6>1. PICK c \in todo[p] : \E n \in Routed(c) :
                   ledger' = [ledger EXCEPT ![p][c] = requests[c][n]]
            BY <5>1 DEF LookupFound
          <6>2. c \in ClientIds
            BY DEF TypeOK
          <6> QED
            BY <6>1, <6>2 DEF Routed, Answers
        <5>2. CASE Placed(p)
          <6>1. current[p] \in ClientIds
            BY <5>2 DEF Placed, TypeOK, Submitting
          <6>2. PICK n \in Routed(current[p]) :
                   ledger' = [ledger EXCEPT ![p][current[p]] = requests[current[p]][n]]
            BY <5>2 DEF Placed
          <6> QED
            BY <6>1, <6>2 DEF Routed, Answers
        <5> QED
          BY <3>3, <5>1, <5>2
      <4>2. /\ pc'[p] \in {"reconcile", "result"}
            /\ pc[p] \in Working
            /\ revision' = revision
        BY <3>3 DEF LookupFound, Placed, Goto, TypeOK, Working
      <4>3. /\ ledger'[p] = [ledger[p] EXCEPT ![c] = s]
            /\ ledger[p] \in Ledgers
        BY <4>1 DEF TypeOK
      <4>4. disk.intents[c] \in Final => s = disk.intents[c]
        BY <4>1 DEF FinalInv, StoreRemembers, Answers, OneOrderPerId
      <4>5. requests' = requests
        BY <3>3 DEF LookupFound, Placed
      <4> QED
        BY <2>1, <2>c, <4>1, <4>2, <4>3, <4>4, <4>5
           DEF CopyRemembers, Ledgers, Answers, Routed
    <3>4. CASE LookupMissing(p)
      <4>1. PICK c \in ClientIds :
               /\ Routed(c) = {}
               /\ ledger' = [ledger EXCEPT ![p][c] = "ATTEMPTING"]
        BY <3>4 DEF LookupMissing, TypeOK
      <4>2. /\ pc'[p] = "attempt" /\ pc[p] \in Working
            /\ revision' = revision /\ requests' = requests
        BY <3>4 DEF LookupMissing, Goto, TypeOK, Working
      <4>3. /\ ledger'[p] = [ledger[p] EXCEPT ![c] = "ATTEMPTING"]
            /\ ledger[p] \in Ledgers
        BY <4>1 DEF TypeOK
      <4>4. disk.intents[c] \notin Final
        BY <4>1 DEF FinalInv, StoreRemembers, Answers
      <4> QED
        BY <1>f, <2>1, <2>c, <4>1, <4>2, <4>3, <4>4
           DEF CopyRemembers, Ledgers, Answers, Routed
    <3>5. CASE SubmitFails(p)
      <4>1. PICK c \in ClientIds : c = current[p]
        BY <3>5 DEF SubmitFails, TypeOK, Submitting
      <4>2. /\ pc'[p] = "unknown" /\ pc[p] \in {"send", "await"}
            /\ revision' = revision /\ requests' = requests
        BY <3>5 DEF SubmitFails, Goto, TypeOK
      <4>3. /\ ledger'[p] = [ledger[p] EXCEPT ![c] = "UNKNOWN"]
            /\ ledger[p] \in Ledgers
        BY <3>5, <4>1 DEF SubmitFails, TypeOK
      <4> QED
        BY <1>f, <2>1, <2>c, <4>1, <4>2, <4>3
           DEF CopyRemembers, Ledgers, Answers, Routed, Working
    <3>6. CASE Send(p)
      <4>1. /\ pc[p] = "send" /\ pc'[p] = "await"
            /\ UNCHANGED <<ledger, revision, current>>
        BY <3>6 DEF Send, Goto, TypeOK
      <4> QED
        BY <2>1, <2>c, <4>1, AnswersStand DEF CopyRemembers, Working
    <3>7. CASE ~ (Leave(p) \/ LoadSnapshot(p) \/ LookupFound(p) \/ Placed(p)
                  \/ LookupMissing(p) \/ SubmitFails(p) \/ Send(p))
      <4>1. ledger' = ledger /\ pc'[p] \in {"open_orders", "account", "positions", "load"}
        BY <1>1, <2>1, <3>7
           DEF TypeOK, CycleStep, Proceed, Start, CheckOpenOrders, ReadAccount,
               ReadPositions, PersistInitial, LookupUncertain, PhaseDone,
               PersistReconciled, PersistAttempt, Persist, PersistUnknown,
               PersistResult, PersistConflict, PersistErrorAfterWrite, Stop, Goto
      <4> QED
        BY <2>c, <4>1, AnswersStand DEF CopyRemembers, Working, Saving
    <3> QED
      BY <3>1, <3>2, <3>3, <3>4, <3>5, <3>6, <3>7
  <2>2. CASE pc[p] \in Saving /\ Persist(p)
    <3>a. StoreRemembers' /\ \A q \in Cycles \ {p} : CopyRemembers(q)'
      BY <2>2, <2>o, SaveOutdatesOthers
    <3> SUFFICES CopyRemembers(p)'
      BY <3>a DEF FinalInv
    <3>1. CASE Leave(p)
      <4>1. ledger'[p] = NoLedger /\ pc'[p] = "idle"
        BY <3>1 DEF Leave, TypeOK
      <4> QED
        BY <4>1, <1>f DEF CopyRemembers, NoLedger, Working, Saving
    <3>2. CASE ~ Leave(p)
      <4>1. /\ ledger' = ledger
            /\ pc'[p] \in {"next", "send"}
            /\ pc'[p] = "send" => pc[p] = "attempt" /\ current' = current
        BY <1>1, <2>2, <3>2
           DEF TypeOK, CycleStep, Proceed, Start, CheckOpenOrders, ReadAccount,
               ReadPositions, LoadSnapshot, PersistInitial, LookupFound,
               LookupUncertain, LookupMissing, PhaseDone, PersistReconciled,
               PersistAttempt, Send, Placed, SubmitFails, PersistUnknown,
               PersistResult, PersistConflict, PersistErrorAfterWrite, Stop,
               Goto, Saving
      <4>2. disk'.intents = ledger[p]
        BY <2>2, PersistTypes
      <4>3. pc[p] = "attempt" => ledger[p][current[p]] = "ATTEMPTING"
        BY DEF CoherenceInv, CopyCoherent
      <4> QED
        BY <2>c, <4>1, <4>2, <4>3, AnswersStand DEF CopyRemembers
    <3> QED
      BY <3>1, <3>2
  <2>3. \/ UNCHANGED store
        \/ pc[p] \in Saving /\ Persist(p)
    BY <1>1
       DEF CycleStep, Proceed, Start, CheckOpenOrders, ReadAccount,
           ReadPositions, LoadSnapshot, PersistInitial, LookupFound,
           LookupUncertain, LookupMissing, PhaseDone, PersistReconciled,
           PersistAttempt, Send, Placed, SubmitFails, PersistUnknown,
           PersistResult, PersistConflict, PersistErrorAfterWrite, Stop, Saving
  <2> QED
    BY <2>1, <2>2, <2>3
<1>2. CASE VenueStep \/ MarketMoves \/ UNCHANGED vars
  <2>1. UNCHANGED <<store, pc, current, ledger, revision>>
    BY <1>2 DEF VenueStep, MarketMoves
  <2> QED
    BY <2>1, AnswersStand DEF FinalInv, StoreRemembers, CopyRemembers
<1> QED
  BY <1>1, <1>2 DEF Next

(* As long as no id has two orders, see NoSecondOrder, a stored FILLED,    *)
(* CANCELLED or REJECTED is never overwritten, whichever invocation saves. *)
THEOREM FinalStatusStands == Spec /\ []OneOrderPerId => FinalStatusIsKept
<1>1. Init => FinalInv
  <2> SUFFICES ASSUME Init PROVE FinalInv
    OBVIOUS
  <2>0. {"ATTEMPTING", "UNKNOWN", None} \cap Final = {}
    BY StatusFacts DEF Final
  <2>1. ASSUME NEW c \in ClientIds, legacy[c] \in Final PROVE legacy[c] \in Answers(c)
    <3>1. requests[c] = <<legacy[c]>> /\ legacy[c] \in OrderStatuses
      BY <2>1, StatusFacts DEF Init, Final
    <3> QED
      BY <3>1 DEF Answers, Routed
  <2>2. \A c \in ClientIds : NoLedger[c] = None
    BY DEF NoLedger
  <2>3. StoreRemembers
    <3>1. disk.intents = NoLedger
      BY DEF Init
    <3> QED
      BY <2>0, <2>1, <2>2, <3>1 DEF StoreRemembers
  <2>4. ASSUME NEW p \in Cycles PROVE CopyRemembers(p)
    <3>1. pc[p] = "idle" /\ ledger[p] = NoLedger
      BY DEF Init
    <3> QED
      BY <2>0, <2>2, <3>1 DEF CopyRemembers, Working, Saving
  <2> QED
    BY <2>3, <2>4 DEF FinalInv
<1>2. TypeOK /\ SubmissionInv /\ FinalInv /\ [Next]_vars
        => [\A c \in ClientIds :
              disk.intents[c] \in OrderStatuses \ OpenStatuses
                  => disk'.intents[c] = disk.intents[c]]_vars
  <2> SUFFICES ASSUME TypeOK, SubmissionInv, FinalInv, [Next]_vars,
                      NEW c \in ClientIds, disk.intents[c] \in Final
               PROVE  disk'.intents[c] = disk.intents[c]
    BY DEF Final
  <2>1. CASE UNCHANGED store
    BY <2>1
  <2>2. ASSUME NEW p \in Cycles, pc[p] \in Saving, Persist(p)
        PROVE  disk'.intents[c] = disk.intents[c]
    BY <2>2 DEF Persist, FinalInv, CopyRemembers, Working
  <2> QED
    BY <2>1, <2>2, StoreChangesBySave
<1> QED
  BY <1>1, <1>2, FinalStep, TypeCorrect, SubmissionInvariant, CoherenceInvariant, PTL
     DEF Spec, FinalStatusIsKept

-----------------------------------------------------------------------------
(* The wanted book stands still: one day, one equity, no resending, and an *)
(* older release that left nothing half done, and nothing uncertain or     *)
(* open but what is wanted anyway.                                         *)
BookStandsStill ==
    /\ Days = {1}
    /\ \A d, e \in Equities : d = e
    /\ "retry" \notin Modes
    /\ \A e \in Equities, s \in Symbols :
          Target[e][s] - InitialHoldings[s] \in (-MaxQuantity)..MaxQuantity
    /\ \A l \in LegacyLedgers, c \in ClientIds :
          /\ l[c] # "PARTIALLY_FILLED"
          /\ l[c] \in {"ATTEMPTING", "UNKNOWN", "SUBMITTED"}
                => \A e \in Equities : c \in Intents(1, e, InitialHoldings)

(* What is missing of a symbol, and what a request still brings.           *)
Gap(s) == Target[equity][s] - holdings[s]
Rest(c, n) ==
    IF c.side = "BUY" THEN c.quantity - filled[c][n] ELSE filled[c][n] - c.quantity

Due == Intents(1, equity, holdings)

Pending(c) ==
    \E n \in DOMAIN requests[c] : requests[c][n] \in {"INFLIGHT"} \cup OpenStatuses

(* Why nothing is traded beyond its target: of every symbol whose position *)
(* nobody has read half traded, one request at most is on its way or open, *)
(* and it brings exactly what is missing.                                  *)
StillMarket ==
    /\ \A s \in Symbols \ torn :
          \/ InitialHoldings[s] <= holdings[s] /\ holdings[s] <= Target[equity][s]
          \/ Target[equity][s] <= holdings[s] /\ holdings[s] <= InitialHoldings[s]
    /\ \A c \in ClientIds : c.symbol \notin torn =>
          \A n \in DOMAIN requests[c] :
             requests[c][n] \in {"INFLIGHT"} \cup OpenStatuses =>
                filled[c][n] < c.quantity /\ Gap(c.symbol) = Rest(c, n)
    /\ \A c, d \in ClientIds :
          /\ c.symbol = d.symbol /\ c.symbol \notin torn
          /\ Pending(c) /\ Pending(d)
          => c = d
    /\ \A c \in ClientIds : \A n \in DOMAIN requests[c] :
          requests[c][n] = "INFLIGHT" => filled[c][n] = 0

(* An intent an invocation holds has been sent by somebody, or is still    *)
(* exactly what is missing, with nothing on its way.  Whoever buys has     *)
(* seen every sell done.                                                   *)
StillCycle(p) ==
    /\ asOf[p] \in {0, 1}
    /\ pc[p] \notin {"idle", "open_orders", "account"} => capital[p] = equity
    /\ pc[p] \notin {"idle"} => asOf[p] = 1
    /\ pc[p] \in Submitting => current[p] \in todo[p]
    /\ \A c \in todo[p] :
          \/ c.symbol \in torn
          \/ requests[c] # <<>>
          \/ /\ c \in Due
             /\ \A d \in ClientIds : d.symbol = c.symbol => ~ Pending(d)
    /\ (\E b \in todo[p] : b.side = "BUY")
          => \A s \in Symbols \ torn : holdings[s] <= Target[equity][s]

StillInv == StillMarket /\ \A p \in Cycles : StillCycle(p)

LEMMA StillTypes ==
    ASSUME TypeOK, BookStandsStill
    PROVE  /\ \A s \in Symbols :
                 /\ holdings[s] \in Int /\ Target[equity][s] \in Int
                 /\ InitialHoldings[s] \in Int /\ Gap(s) \in Int
           /\ \A c \in ClientIds :
                 /\ c.symbol \in Symbols /\ c.quantity \in Nat \ {0}
                 /\ c.side \in {"BUY", "SELL"} /\ c.day = 1
           /\ \A c \in ClientIds : \A n \in DOMAIN requests[c] : filled[c][n] \in Nat
           /\ equity \in Equities /\ \A e \in Equities : e = equity
<1>1. equity \in Equities /\ \A e \in Equities : e = equity
  BY DEF TypeOK, BookStandsStill
<1>2. \A s \in Symbols :
         /\ holdings[s] \in Int /\ Target[equity][s] \in Int
         /\ InitialHoldings[s] \in Int
  BY <1>1, PaperCycleAssumption DEF TypeOK
<1>3. \A s \in Symbols : Gap(s) \in Int
  BY <1>2 DEF Gap
<1>4. \A c \in ClientIds :
         /\ c.symbol \in Symbols /\ c.quantity \in Nat \ {0}
         /\ c.side \in {"BUY", "SELL"} /\ c.day = 1
  BY PaperCycleAssumption DEF ClientIds, Quantities, Sides, BookStandsStill
<1>5. \A c \in ClientIds : \A n \in DOMAIN requests[c] : filled[c][n] \in Nat
  <2> SUFFICES ASSUME NEW c \in ClientIds, NEW n \in DOMAIN requests[c]
               PROVE  filled[c][n] \in Nat
    OBVIOUS
  <2>1. /\ requests[c] \in Seq(RequestStates) /\ filled[c] \in Seq(Nat)
        /\ Len(filled[c]) = Len(requests[c])
    BY DEF TypeOK
  <2> QED
    BY <2>1
<1> QED
  BY <1>1, <1>2, <1>3, <1>4, <1>5

(* What is due of a symbol is one intent.                                  *)
LEMMA DueFacts ==
    ASSUME TypeOK, BookStandsStill
    PROVE  /\ \A c \in ClientIds :
                 c \in Due <=>
                    Gap(c.symbol) = IF c.side = "BUY" THEN c.quantity ELSE -c.quantity
           /\ \A c, d \in Due : c.symbol = d.symbol => c = d
           /\ Due \subseteq ClientIds
<1>1. \A c \in ClientIds :
         c \in Due <=>
            Gap(c.symbol) = IF c.side = "BUY" THEN c.quantity ELSE -c.quantity
  BY StillTypes DEF Due, Intents, Gap
<1>2. Due \subseteq ClientIds
  BY DEF Due, Intents
<1>3. ASSUME NEW c \in Due, NEW d \in Due, c.symbol = d.symbol PROVE c = d
  <2>1. c \in ClientIds /\ d \in ClientIds
    BY <1>2
  <2>2. /\ c = [day |-> c.day, symbol |-> c.symbol, side |-> c.side,
                quantity |-> c.quantity]
        /\ d = [day |-> d.day, symbol |-> d.symbol, side |-> d.side,
                quantity |-> d.quantity]
    BY <2>1 DEF ClientIds
  <2>3. c.side = d.side /\ c.quantity = d.quantity
    BY <1>1, <1>3, <2>1, StillTypes
  <2>4. c.day = d.day
    BY <2>1, StillTypes
  <2> QED
    BY <1>3, <2>2, <2>3, <2>4
<1> QED
  BY <1>1, <1>2, <1>3

(* The first phase of what a cycle finds to do.                            *)
LEMMA PhaseFacts ==
    ASSUME TypeOK, BookStandsStill, StillMarket
    PROVE  /\ Phase(Due) \subseteq Due
           /\ (\E b \in Phase(Due) : b.side = "BUY")
                 => \A s \in Symbols \ torn : holdings[s] <= Target[equity][s]
<1>1. Phase(Due) \subseteq Due
  BY DEF Phase
<1>2. ASSUME NEW b \in Phase(Due), b.side = "BUY",
             NEW s \in Symbols \ torn, ~ (holdings[s] <= Target[equity][s])
      PROVE  FALSE
  <2> DEFINE q == holdings[s] - Target[equity][s]
             c == [day |-> 1, symbol |-> s, side |-> "SELL", quantity |-> q]
  <2>1. /\ holdings[s] \in Int /\ Target[equity][s] \in Int
        /\ InitialHoldings[s] \in Int /\ MaxQuantity \in Nat
        /\ equity \in Equities
    BY StillTypes, PaperCycleAssumption
  <2>2. Target[equity][s] <= holdings[s] /\ holdings[s] <= InitialHoldings[s]
    BY <1>2, <2>1 DEF StillMarket
  <2>3. Target[equity][s] - InitialHoldings[s] \in (-MaxQuantity)..MaxQuantity
    BY <2>1 DEF BookStandsStill
  <2>4. q \in 1..MaxQuantity
    BY <1>2, <2>1, <2>2, <2>3
  <2>5. c \in ClientIds
    BY <2>4 DEF ClientIds, Sides, Quantities, BookStandsStill
  <2>6. c.symbol = s /\ c.side = "SELL" /\ c.quantity = q
    OBVIOUS
  <2>7. Gap(s) = -q
    BY <2>1 DEF Gap
  <2> HIDE DEF q, c
  <2>8. c \in Due
    BY <2>5, <2>6, <2>7, DueFacts
  <2>9. b \in {d \in Due : d.side = "SELL"}
    BY <2>6, <2>8 DEF Phase
  <2> QED
    BY <1>2, <2>9
<1> QED
  BY <1>1, <1>2

(* What the venue does to one symbol disturbs no other, and nobody's plan. *)
LEMMA StillVenue ==
    ASSUME TypeOK, SentOnce, waived = {}, BookStandsStill, StillInv, VenueStep
    PROVE  StillInv'
<1>1. PICK c \in ClientIds :
         \E n \in DOMAIN requests[c] :
            \E s \in RequestStates, k \in Nat : Trades(c, n, s, k)
  BY VenueTrades
<1>2. PICK n \in DOMAIN requests[c], s \in RequestStates, k \in Nat :
         Trades(c, n, s, k)
  BY <1>1
<1>3. /\ requests[c] \in Seq(RequestStates) /\ filled[c] \in Seq(Nat)
      /\ Len(filled[c]) = Len(requests[c]) /\ Len(requests[c]) <= 1
      /\ DOMAIN requests[c] = {n}
      /\ filled[c][n] \in Nat
  <2>1. /\ requests[c] \in Seq(RequestStates) /\ filled[c] \in Seq(Nat)
        /\ Len(filled[c]) = Len(requests[c]) /\ Len(requests[c]) <= 1
    BY DEF TypeOK, SentOnce
  <2> QED
    BY <1>2, <2>1
<1>4. /\ \A d \in ClientIds \ {c} : requests'[d] = requests[d] /\ filled'[d] = filled[d]
      /\ DOMAIN requests'[c] = {n}
      /\ requests'[c][n] = s
      /\ filled'[c][n] = filled[c][n] + k
  <2>1. /\ requests' = [requests EXCEPT ![c][n] = s]
        /\ filled' = [filled EXCEPT ![c][n] = @ + k]
    BY <1>2 DEF Trades
  <2> QED
    BY <1>2, <1>3, <2>1 DEF TypeOK
<1>5. /\ UNCHANGED <<equity, torn, pc, capital, asOf, todo, current>>
      /\ c.symbol \in Symbols /\ c.quantity \in Nat \ {0}
      /\ c.side \in {"BUY", "SELL"}
      /\ holdings[c.symbol] \in Int /\ Target[equity][c.symbol] \in Int
      /\ InitialHoldings[c.symbol] \in Int
  BY StillTypes DEF VenueStep
<1>6. /\ \A t \in Symbols \ {c.symbol} : holdings'[t] = holdings[t]
      /\ holdings'[c.symbol] = IF c.side = "BUY" THEN holdings[c.symbol] + k
                               ELSE holdings[c.symbol] - k
  BY <1>2, <1>5 DEF Trades, TypeOK
<1>7. Pending(c) /\ \A d \in ClientIds : Pending(d)' => Pending(d)
  <2>1. Pending(c)
    BY <1>2 DEF Trades, Pending
  <2> QED
    BY <1>4, <2>1 DEF Pending
<1>8. StillMarket /\ \A p \in Cycles : StillCycle(p)
  BY DEF StillInv
<1>9. \A t \in Symbols \ {c.symbol} : Gap(t)' = Gap(t)
  BY <1>5, <1>6 DEF Gap
<1>10. c.symbol \notin torn =>
         /\ filled[c][n] < c.quantity
         /\ Gap(c.symbol) = Rest(c, n)
         /\ k <= c.quantity - filled[c][n]
  <2> SUFFICES ASSUME c.symbol \notin torn
               PROVE  /\ filled[c][n] < c.quantity
                      /\ Gap(c.symbol) = Rest(c, n)
                      /\ k <= c.quantity - filled[c][n]
    OBVIOUS
  <2>1. filled[c][n] < c.quantity /\ Gap(c.symbol) = Rest(c, n)
    BY <1>2, <1>8 DEF StillMarket, Trades
  <2> QED
    BY <1>2, <1>3, <1>5, <2>1 DEF Trades
<1>11. c.symbol \notin torn =>
          \/ /\ InitialHoldings[c.symbol] <= holdings'[c.symbol]
             /\ holdings'[c.symbol] <= Target[equity][c.symbol]
          \/ /\ Target[equity][c.symbol] <= holdings'[c.symbol]
             /\ holdings'[c.symbol] <= InitialHoldings[c.symbol]
  <2> SUFFICES ASSUME c.symbol \notin torn
               PROVE  \/ /\ InitialHoldings[c.symbol] <= holdings'[c.symbol]
                         /\ holdings'[c.symbol] <= Target[equity][c.symbol]
                      \/ /\ Target[equity][c.symbol] <= holdings'[c.symbol]
                         /\ holdings'[c.symbol] <= InitialHoldings[c.symbol]
    OBVIOUS
  <2>1. \/ /\ InitialHoldings[c.symbol] <= holdings[c.symbol]
           /\ holdings[c.symbol] <= Target[equity][c.symbol]
        \/ /\ Target[equity][c.symbol] <= holdings[c.symbol]
           /\ holdings[c.symbol] <= InitialHoldings[c.symbol]
    BY <1>5, <1>8 DEF StillMarket
  <2> QED
    BY <1>2, <1>3, <1>5, <1>6, <1>10, <2>1 DEF Gap, Rest
<1>12. c.symbol \notin torn /\ s \in {"INFLIGHT"} \cup OpenStatuses =>
          filled'[c][n] < c.quantity /\ Gap(c.symbol)' = Rest(c, n)'
  <2> SUFFICES ASSUME c.symbol \notin torn, s \in {"INFLIGHT"} \cup OpenStatuses
               PROVE  filled'[c][n] < c.quantity /\ Gap(c.symbol)' = Rest(c, n)'
    OBVIOUS
  <2>1. k < c.quantity - filled[c][n]
    BY <1>2, <1>3, <1>5, <1>10 DEF Trades
  <2>2. filled'[c][n] < c.quantity
    BY <1>3, <1>4, <1>5, <2>1
  <2>3. Gap(c.symbol)' = Rest(c, n)'
    <3>1. Gap(c.symbol)' = Target[equity][c.symbol] - holdings'[c.symbol]
      BY <1>5 DEF Gap
    <3>2. Rest(c, n)' = IF c.side = "BUY" THEN c.quantity - filled'[c][n]
                          ELSE filled'[c][n] - c.quantity
      BY DEF Rest
    <3>3. Target[equity][c.symbol] - holdings[c.symbol]
             = IF c.side = "BUY" THEN c.quantity - filled[c][n]
                 ELSE filled[c][n] - c.quantity
      BY <1>10 DEF Gap, Rest
    <3>4. filled'[c][n] = filled[c][n] + k
      BY <1>4
    <3>5. holdings'[c.symbol] = IF c.side = "BUY" THEN holdings[c.symbol] + k
                                  ELSE holdings[c.symbol] - k
      BY <1>6
    <3>6. /\ Target[equity][c.symbol] \in Int /\ holdings[c.symbol] \in Int
          /\ filled[c][n] \in Int /\ c.quantity \in Int
      BY <1>3, StillTypes
    <3> QED
      BY <3>1, <3>2, <3>3, <3>4, <3>5, <3>6
  <2> QED
    BY <2>2, <2>3
<1>13. \A d \in ClientIds \ {c} : \A m \in DOMAIN requests'[d] :
          /\ m \in DOMAIN requests[d]
          /\ requests'[d][m] = requests[d][m] /\ filled'[d][m] = filled[d][m]
          /\ Rest(d, m)' = Rest(d, m)
  BY <1>4 DEF Rest
<1>14. \A d \in ClientIds \ {c} :
          d.symbol = c.symbol /\ d.symbol \notin torn => ~ Pending(d)
  BY <1>7, <1>8 DEF StillMarket
<1>15. \A d \in ClientIds : d.symbol \in Symbols
  BY StillTypes
<1>16. StillMarket'
  <2>1. \A t \in Symbols \ torn' :
           \/ InitialHoldings[t] <= holdings'[t] /\ holdings'[t] <= Target[equity'][t]
           \/ Target[equity'][t] <= holdings'[t] /\ holdings'[t] <= InitialHoldings[t]
    BY <1>5, <1>6, <1>8, <1>11 DEF StillMarket
  <2>2. ASSUME NEW d \in ClientIds, d.symbol \notin torn',
               NEW m \in DOMAIN requests'[d],
               requests'[d][m] \in {"INFLIGHT"} \cup OpenStatuses
        PROVE  filled'[d][m] < d.quantity /\ Gap(d.symbol)' = Rest(d, m)'
    <3>1. CASE d = c
      BY <1>4, <1>5, <1>12, <2>2, <3>1
    <3>2. CASE d # c
      <4>1. Pending(d)
        BY <1>13, <2>2, <3>2 DEF Pending
      <4>2. d.symbol # c.symbol
        BY <1>5, <1>14, <2>2, <3>2, <4>1
      <4>3. filled[d][m] < d.quantity /\ Gap(d.symbol) = Rest(d, m)
        BY <1>5, <1>8, <1>13, <2>2, <3>2 DEF StillMarket
      <4> QED
        BY <1>9, <1>13, <1>15, <3>2, <4>2, <4>3
    <3> QED
      BY <3>1, <3>2
  <2>3. \A d, e \in ClientIds :
           /\ d.symbol = e.symbol /\ d.symbol \notin torn'
           /\ Pending(d)' /\ Pending(e)'
           => d = e
    BY <1>5, <1>7, <1>8 DEF StillMarket
  <2>4. \A d \in ClientIds : \A m \in DOMAIN requests'[d] :
           requests'[d][m] = "INFLIGHT" => filled'[d][m] = 0
    <3>1. s # "INFLIGHT"
      BY <1>2 DEF Trades
    <3> QED
      BY <1>4, <1>8, <3>1 DEF StillMarket
  <2> QED
    BY <2>1, <2>2, <2>3, <2>4 DEF StillMarket
<1>17. ASSUME NEW p \in Cycles PROVE StillCycle(p)'
  <2>1. StillCycle(p)
    BY <1>8
  <2>2. ASSUME NEW d \in todo[p],
               d.symbol \notin torn, requests'[d] = <<>>
        PROVE  /\ d \in Due'
               /\ \A e \in ClientIds : e.symbol = d.symbol => ~ Pending(e)'
    <3>1. d \in ClientIds
      BY DEF TypeOK
    <3>2. d # c /\ requests[d] = <<>>
      BY <1>4, <2>2, <3>1
    <3>3. /\ d \in Due
          /\ \A e \in ClientIds : e.symbol = d.symbol => ~ Pending(e)
      BY <2>1, <2>2, <3>2 DEF StillCycle
    <3>4. d.symbol # c.symbol /\ d.symbol \in Symbols
      BY <1>7, <1>15, <3>1, <3>3
    <3>5. holdings'[d.symbol] = holdings[d.symbol]
      BY <1>6, <3>4
    <3>6. d \in Due'
      BY <1>5, <3>3, <3>5 DEF Due, Intents
    <3> QED
      BY <1>7, <3>3, <3>6
  <2>3. ASSUME \E b \in todo[p] : b.side = "BUY", NEW t \in Symbols \ torn
        PROVE  holdings'[t] <= Target[equity][t]
    <3>1. holdings[t] <= Target[equity][t]
      BY <2>1, <2>3 DEF StillCycle
    <3>2. CASE t # c.symbol
      BY <1>6, <3>1, <3>2
    <3>3. CASE t = c.symbol
      BY <1>2, <1>3, <1>5, <1>6, <1>10, <3>1, <3>3 DEF Gap, Rest
    <3> QED
      BY <3>2, <3>3
  <2> QED
    BY <1>5, <2>1, <2>2, <2>3 DEF StillCycle
<1> QED
  BY <1>16, <1>17 DEF StillInv

(* Nothing is known or planned where nothing has moved.                    *)
LEMMA StillFrame ==
    ASSUME StillInv, UNCHANGED <<equity, holdings, requests, filled, torn>>
    PROVE  /\ StillMarket'
           /\ Due' = Due
           /\ \A c \in ClientIds : Pending(c)' <=> Pending(c)
           /\ \A q \in Cycles :
                 UNCHANGED <<pc[q], asOf[q], capital[q], todo[q], current[q]>>
                    => StillCycle(q)'
<1>1. /\ Due' = Due
      /\ \A c : Pending(c)' <=> Pending(c)
      /\ \A t : Gap(t)' = Gap(t)
      /\ \A c, n : Rest(c, n)' = Rest(c, n)
  BY DEF Due, Intents, Pending, Gap, Rest
<1>2. StillMarket'
  BY <1>1 DEF StillInv, StillMarket
<1>3. ASSUME NEW q \in Cycles, UNCHANGED <<pc[q], asOf[q], capital[q], todo[q], current[q]>>
      PROVE  StillCycle(q)'
  BY <1>1, <1>3 DEF StillInv, StillCycle
<1> QED
  BY <1>1, <1>2, <1>3

(* A request goes out for exactly what is missing of its symbol.           *)
LEMMA StillSend ==
    ASSUME TypeOK, SubmissionInv, waived = {}, BookStandsStill, StillInv,
           NEW p \in Cycles, Send(p)
    PROVE  StillInv'
<1>1. PICK c \in ClientIds : c = current[p]
  BY DEF Send, TypeOK, Submitting
<1>2. /\ requests[c] = <<>> /\ c \in todo[p]
      /\ filled[c] \in Seq(Nat) /\ Len(filled[c]) = Len(requests[c])
  BY <1>1 DEF Send, SubmissionInv, StillInv, StillCycle, Submitting, TypeOK
<1>3. /\ requests'[c] = <<"INFLIGHT">> /\ filled'[c] = <<0>>
      /\ \A d \in ClientIds \ {c} : requests'[d] = requests[d] /\ filled'[d] = filled[d]
  <2>1. filled[c] = <<>>
    BY <1>2
  <2>2. /\ requests' = [requests EXCEPT ![c] = Append(requests[c], "INFLIGHT")]
        /\ filled' = [filled EXCEPT ![c] = Append(filled[c], 0)]
    BY <1>1 DEF Send
  <2> QED
    BY <1>2, <2>1, <2>2 DEF TypeOK
<1>4. /\ UNCHANGED <<equity, holdings, torn, asOf, capital, todo, current>>
      /\ pc[p] = "send" /\ pc'[p] = "await"
      /\ \A q \in Cycles \ {p} : pc'[q] = pc[q]
  BY DEF Send, Goto, TypeOK
<1>5. /\ Due' = Due
      /\ \A t : Gap(t)' = Gap(t)
      /\ \A d \in ClientIds \ {c} :
            /\ Pending(d)' <=> Pending(d)
            /\ \A n : Rest(d, n)' = Rest(d, n)
  BY <1>3, <1>4 DEF Due, Intents, Gap, Pending, Rest
<1>6. StillMarket /\ \A q \in Cycles : StillCycle(q)
  BY DEF StillInv
<1>7. c.symbol \notin torn =>
         /\ c \in Due
         /\ \A d \in ClientIds : d.symbol = c.symbol => ~ Pending(d)
  BY <1>2, <1>6 DEF StillCycle
<1>8. c.quantity \in Nat \ {0} /\ c.side \in {"BUY", "SELL"} /\ c.symbol \in Symbols
  BY StillTypes
<1>9. c.symbol \notin torn => 0 < c.quantity /\ Gap(c.symbol)' = Rest(c, 1)'
  <2> SUFFICES ASSUME c.symbol \notin torn PROVE Gap(c.symbol) = Rest(c, 1)'
    BY <1>5, <1>8
  <2>1. Gap(c.symbol) = IF c.side = "BUY" THEN c.quantity ELSE -c.quantity
    BY <1>7, DueFacts
  <2>2. filled'[c][1] = 0
    BY <1>3
  <2> QED
    BY <1>8, <2>1, <2>2 DEF Rest
<1>10. StillMarket'
  <2>1. \A t \in Symbols \ torn' :
           \/ InitialHoldings[t] <= holdings'[t] /\ holdings'[t] <= Target[equity'][t]
           \/ Target[equity'][t] <= holdings'[t] /\ holdings'[t] <= InitialHoldings[t]
    BY <1>4, <1>6 DEF StillMarket
  <2>2. ASSUME NEW d \in ClientIds, d.symbol \notin torn',
               NEW m \in DOMAIN requests'[d],
               requests'[d][m] \in {"INFLIGHT"} \cup OpenStatuses
        PROVE  filled'[d][m] < d.quantity /\ Gap(d.symbol)' = Rest(d, m)'
    <3>1. CASE d = c
      <4>1. m = 1 /\ filled'[c][1] = 0
        BY <1>3, <2>2, <3>1
      <4> QED
        BY <1>4, <1>9, <2>2, <3>1, <4>1
    <3>2. CASE d # c
      <4>1. filled[d][m] < d.quantity /\ Gap(d.symbol) = Rest(d, m)
        BY <1>3, <1>4, <1>6, <2>2, <3>2 DEF StillMarket
      <4> QED
        BY <1>3, <1>5, <3>2, <4>1
    <3> QED
      BY <3>1, <3>2
  <2>3. \A d, e \in ClientIds :
           /\ d.symbol = e.symbol /\ d.symbol \notin torn'
           /\ Pending(d)' /\ Pending(e)'
           => d = e
    BY <1>4, <1>5, <1>6, <1>7 DEF StillMarket
  <2>4. \A d \in ClientIds : \A m \in DOMAIN requests'[d] :
           requests'[d][m] = "INFLIGHT" => filled'[d][m] = 0
    <3>1. \A m \in DOMAIN requests'[c] : filled'[c][m] = 0
      BY <1>3
    <3> QED
      BY <1>3, <1>6, <3>1 DEF StillMarket
  <2> QED
    BY <2>1, <2>2, <2>3, <2>4 DEF StillMarket
<1>11. ASSUME NEW q \in Cycles PROVE StillCycle(q)'
  <2>1. StillCycle(q)
    BY <1>6
  <2>2. ASSUME NEW d \in todo[q], d.symbol \notin torn, requests'[d] = <<>>
        PROVE  /\ d \in Due'
               /\ \A e \in ClientIds : e.symbol = d.symbol => ~ Pending(e)'
    <3>1. d \in ClientIds
      BY DEF TypeOK
    <3>2. d # c /\ requests[d] = <<>>
      BY <1>3, <2>2, <3>1
    <3>3. /\ d \in Due
          /\ \A e \in ClientIds : e.symbol = d.symbol => ~ Pending(e)
      BY <2>1, <2>2, <3>2 DEF StillCycle
    <3>4. c.symbol # d.symbol
      BY <1>7, <2>2, <3>2, <3>3, DueFacts
    <3> QED
      BY <1>5, <3>3, <3>4
  <2>3. /\ pc'[q] \notin {"idle", "open_orders", "account"} => capital'[q] = equity'
        /\ pc'[q] \notin {"idle"} => asOf'[q] = 1
        /\ pc'[q] \in Submitting => current'[q] \in todo'[q]
    BY <1>4, <2>1 DEF StillCycle, Submitting
  <2> QED
    BY <1>4, <2>1, <2>2, <2>3 DEF StillCycle
<1> QED
  BY <1>10, <1>11 DEF StillInv

LEMMA StillInvariant ==
    ASSUME BookStandsStill
    PROVE  Spec => []StillInv
<1>1. Init => StillInv
  <2> SUFFICES ASSUME Init PROVE StillInv
    OBVIOUS
  <2>1. PICK share \in Quantities :
           filled = [c \in ClientIds |->
              IF legacy[c] = None THEN <<>>
              ELSE IF legacy[c] = "PARTIALLY_FILLED" THEN <<share>>
              ELSE IF legacy[c] = "FILLED" THEN <<c.quantity>>
              ELSE <<0>>]
    BY DEF Init
  <2>2. /\ equity \in Equities /\ holdings = InitialHoldings
        /\ \A s \in Symbols : Target[equity][s] \in Int /\ InitialHoldings[s] \in Int
        /\ \A c \in ClientIds : c.quantity \in Nat \ {0} /\ c.side \in {"BUY", "SELL"}
                                /\ c.symbol \in Symbols
    BY PaperCycleAssumption DEF Init, ClientIds, Quantities, Sides
  <2>3. ASSUME NEW c \in ClientIds, NEW n \in DOMAIN requests[c],
               requests[c][n] \in {"INFLIGHT"} \cup OpenStatuses
        PROVE  filled[c][n] = 0 /\ c \in Due
    <3>1. legacy[c] \in LedgerStates \cup {None} /\ legacy[c] # "PARTIALLY_FILLED"
      BY PaperCycleAssumption DEF Init, Ledgers, BookStandsStill
    <3>2. \/ requests[c] = <<>>
          \/ requests[c] = <<legacy[c]>> /\ legacy[c] \in OrderStatuses
          \/ \E fate : requests[c] = <<fate>> /\ legacy[c] \notin OrderStatuses \cup {None}
      BY DEF Init
    <3>3. n = 1 /\ legacy[c] \in {"ATTEMPTING", "UNKNOWN", "SUBMITTED"}
      BY <2>3, <3>1, <3>2 DEF LedgerStates, OrderStatuses, OpenStatuses
    <3>4. filled[c] = <<0>>
      BY <2>1, <3>3 DEF None
    <3>5. c \in Intents(1, equity, InitialHoldings)
      BY <2>2, <3>3 DEF Init, BookStandsStill
    <3> QED
      BY <2>2, <3>3, <3>4, <3>5 DEF Due
  <2>4. \A c \in ClientIds :
           c \in Due => Gap(c.symbol) = IF c.side = "BUY" THEN c.quantity ELSE -c.quantity
    BY DEF Due, Intents, Gap
  <2>5. \A c, d \in ClientIds : c \in Due /\ d \in Due /\ c.symbol = d.symbol => c = d
    <3> SUFFICES ASSUME NEW c \in ClientIds, NEW d \in ClientIds,
                        c \in Due, d \in Due, c.symbol = d.symbol
                 PROVE  c = d
      OBVIOUS
    <3>1. /\ c = [day |-> c.day, symbol |-> c.symbol, side |-> c.side,
                  quantity |-> c.quantity]
          /\ d = [day |-> d.day, symbol |-> d.symbol, side |-> d.side,
                  quantity |-> d.quantity]
      BY DEF ClientIds
    <3>2. c.side = d.side /\ c.quantity = d.quantity
      BY <2>2, <2>4
    <3>3. c.day = d.day
      BY DEF Due, Intents
    <3> QED
      BY <3>1, <3>2, <3>3
  <2>6. StillMarket
    <3>1. \A s \in Symbols \ torn :
             \/ InitialHoldings[s] <= holdings[s] /\ holdings[s] <= Target[equity][s]
             \/ Target[equity][s] <= holdings[s] /\ holdings[s] <= InitialHoldings[s]
      BY <2>2
    <3>2. ASSUME NEW c \in ClientIds, NEW n \in DOMAIN requests[c],
                 requests[c][n] \in {"INFLIGHT"} \cup OpenStatuses
          PROVE  filled[c][n] < c.quantity /\ Gap(c.symbol) = Rest(c, n)
      <4>1. filled[c][n] = 0
        BY <2>3, <3>2
      <4>2. Gap(c.symbol) = IF c.side = "BUY" THEN c.quantity ELSE -c.quantity
        BY <2>3, <2>4, <3>2
      <4> QED
        BY <2>2, <4>1, <4>2 DEF Rest
    <3>3. \A c, d \in ClientIds :
             c.symbol = d.symbol /\ Pending(c) /\ Pending(d) => c = d
      BY <2>3, <2>5 DEF Pending
    <3> QED
      BY <2>3, <3>1, <3>2, <3>3 DEF StillMarket
  <2> QED
    BY <2>6 DEF Init, StillInv, StillCycle, Submitting
<1>2. TypeOK /\ SubmissionInv /\ waived = {} /\ StillInv /\ [Next]_vars => StillInv'
  <2> SUFFICES ASSUME TypeOK, SubmissionInv, waived = {}, StillInv, [Next]_vars
               PROVE  StillInv'
    OBVIOUS
  <2>1. ASSUME NEW p \in Cycles, CycleStep(p) PROVE StillInv'
    <3>a. OthersKeep(p)
      BY <2>1, OnlyOneMoves
    <3>d. \A q \in Cycles \ {p} : asOf'[q] = asOf[q] /\ capital'[q] = capital[q]
      <4>1. CASE Leave(p)
        BY <4>1 DEF Leave, TypeOK
      <4>2. CASE ~ Leave(p)
        BY <2>1, <4>2
           DEF TypeOK, CycleStep, Proceed, Start, CheckOpenOrders, ReadAccount,
               ReadPositions, LoadSnapshot, PersistInitial, LookupFound,
               LookupUncertain, LookupMissing, PhaseDone, PersistReconciled,
               PersistAttempt, Send, Placed, SubmitFails, PersistUnknown,
               PersistResult, PersistConflict, PersistErrorAfterWrite, Stop
      <4> QED
        BY <4>1, <4>2
    <3>g. StillCycle(p)
      BY DEF StillInv
    <3>1. CASE Send(p)
      BY <3>1, StillSend
    <3>2. CASE ReadPositions(p) /\ ~ Leave(p)
      <4>1. /\ pc[p] = "positions" /\ pc'[p] = "load"
            /\ UNCHANGED <<asOf, capital, current, equity, holdings, requests, filled>>
            /\ todo'[p] = Phase(Intents(asOf[p], capital[p], holdings))
            /\ torn' = torn \cup HalfTraded
        BY <3>2 DEF ReadPositions, Goto, TypeOK
      <4>2. asOf[p] = 1 /\ capital[p] = equity
        BY <3>g, <4>1 DEF StillCycle
      <4>3. todo'[p] = Phase(Due)
        BY <4>1, <4>2 DEF Due
      <4>4. StillMarket /\ Phase(Due) \subseteq Due
            /\ ((\E b \in Phase(Due) : b.side = "BUY")
                  => \A s \in Symbols \ torn : holdings[s] <= Target[equity][s])
        BY PhaseFacts DEF StillInv
      <4>5. /\ Due' = Due
            /\ \A c : Pending(c)' <=> Pending(c)
            /\ \A t : Gap(t)' = Gap(t)
            /\ \A c, n : Rest(c, n)' = Rest(c, n)
        BY <4>1 DEF Due, Intents, Pending, Gap, Rest
      <4>6. StillMarket'
        BY <4>1, <4>4, <4>5 DEF StillMarket
      <4>7. ASSUME NEW c \in Phase(Due), c.symbol \notin torn', requests'[c] = <<>>
            PROVE  \A d \in ClientIds : d.symbol = c.symbol => ~ Pending(d)
        <5> SUFFICES ASSUME NEW d \in ClientIds, d.symbol = c.symbol, Pending(d)
                     PROVE  FALSE
          OBVIOUS
        <5>1. PICK n \in DOMAIN requests[d] :
                 requests[d][n] \in {"INFLIGHT"} \cup OpenStatuses
          BY DEF Pending
        <5>2. c \in ClientIds /\ c \in Due
          BY <4>4, DueFacts
        <5>3. /\ filled[d][n] \in Nat
              /\ d.quantity \in Nat \ {0} /\ d.side \in {"BUY", "SELL"}
          BY StillTypes
        <5>4. d.symbol \notin torn /\ d.symbol \notin HalfTraded
          BY <4>1, <4>7
        <5>5. Gap(d.symbol) = Rest(d, n)
          BY <4>4, <5>1, <5>4 DEF StillMarket
        <5>6. filled[d][n] = 0
          BY <4>4, <5>1, <5>3, <5>4 DEF StillMarket, HalfTraded
        <5>7. d \in Due
          BY <5>3, <5>5, <5>6, DueFacts DEF Rest
        <5>8. d = c
          BY <5>2, <5>7, DueFacts
        <5>9. requests[c] = <<>>
          BY <4>1, <4>7
        <5> QED
          BY <5>1, <5>8, <5>9
      <4>8. ASSUME NEW q \in Cycles PROVE StillCycle(q)'
        <5>1. CASE q = p
          <6>1. \A c \in todo'[p] :
                   \/ c.symbol \in torn'
                   \/ requests'[c] # <<>>
                   \/ /\ c \in Due'
                      /\ \A d \in ClientIds : d.symbol = c.symbol => ~ Pending(d)'
            BY <4>3, <4>4, <4>5, <4>7
          <6>2. (\E b \in todo'[p] : b.side = "BUY")
                   => \A s \in Symbols \ torn' : holdings'[s] <= Target[equity'][s]
            BY <4>1, <4>3, <4>4
          <6> QED
            BY <3>g, <4>1, <4>2, <5>1, <6>1, <6>2 DEF StillCycle, Submitting
        <5>2. CASE q # p
          <6>1. StillCycle(q)
            BY DEF StillInv
          <6>2. UNCHANGED <<pc[q], asOf[q], capital[q], todo[q], current[q]>>
            BY <3>a, <3>d, <5>2 DEF OthersKeep
          <6> QED
            BY <4>1, <4>5, <6>1, <6>2 DEF StillCycle
        <5> QED
          BY <5>1, <5>2
      <4> QED
        BY <4>6, <4>8 DEF StillInv
    <3>3. CASE ~ Send(p) /\ ~ (ReadPositions(p) /\ ~ Leave(p))
      <4>1. UNCHANGED <<equity, holdings, requests, filled, torn>>
        <5>1. CASE ReadPositions(p)
          <6>1. pc'[p] = "idle"
            BY <3>3, <5>1 DEF Leave, TypeOK
          <6>2. mode[p] = "preview"
            BY <5>1, <6>1 DEF ReadPositions, Goto, TypeOK
          <6> QED
            BY <5>1, <6>2 DEF ReadPositions, market, venue
        <5>2. CASE ~ ReadPositions(p)
          BY <2>1, <3>3, <5>2
             DEF CycleStep, Proceed, Start, CheckOpenOrders, ReadAccount,
                 LoadSnapshot, PersistInitial, LookupFound,
                 LookupUncertain, LookupMissing, PhaseDone, PersistReconciled,
                 PersistAttempt, Placed, SubmitFails, PersistUnknown,
                 PersistResult, PersistConflict, PersistErrorAfterWrite, Stop,
                 market, venue, history
        <5> QED
          BY <5>1, <5>2
      <4>2. StillMarket' /\ \A q \in Cycles \ {p} : StillCycle(q)'
        BY <3>a, <3>d, <4>1, StillFrame DEF OthersKeep
      <4>3. /\ Due' = Due
            /\ \A c \in ClientIds : Pending(c)' <=> Pending(c)
        BY <4>1, StillFrame
      <4>4. todo[p] \subseteq ClientIds
        BY DEF TypeOK
      <4>5. ASSUME todo'[p] \subseteq todo[p]
            PROVE  /\ \A c \in todo'[p] :
                         \/ c.symbol \in torn'
                         \/ requests'[c] # <<>>
                         \/ /\ c \in Due'
                            /\ \A d \in ClientIds : d.symbol = c.symbol => ~ Pending(d)'
                   /\ (\E b \in todo'[p] : b.side = "BUY")
                         => \A s \in Symbols \ torn' : holdings'[s] <= Target[equity'][s]
        BY <3>g, <4>1, <4>3, <4>5 DEF StillCycle
      <4> SUFFICES /\ todo'[p] \subseteq todo[p]
                   /\ asOf'[p] \in {0, 1}
                   /\ pc'[p] \notin {"idle", "open_orders", "account"}
                         => capital'[p] = equity
                   /\ pc'[p] # "idle" => asOf'[p] = 1
                   /\ pc'[p] \in Submitting => current'[p] \in todo'[p]
        BY <4>1, <4>2, <4>5 DEF StillInv, StillCycle
      <4>6. CASE Leave(p)
        <5>1. pc'[p] = "idle" /\ asOf'[p] = 0 /\ todo'[p] = {}
          BY <4>6 DEF Leave, TypeOK
        <5> QED
          BY <5>1 DEF Submitting
      <4>7. CASE Start(p)
        <5>1. pc'[p] = "open_orders" /\ asOf'[p] = day /\ todo' = todo
          BY <4>7 DEF Start, Goto, TypeOK
        <5>2. day = 1
          BY DEF TypeOK, BookStandsStill
        <5> QED
          BY <5>1, <5>2 DEF Submitting
      <4>8. CASE ReadAccount(p)
        <5>1. /\ pc[p] = "account" /\ pc'[p] = "positions"
              /\ capital'[p] = equity /\ todo' = todo /\ asOf' = asOf
          BY <4>8 DEF ReadAccount, Goto, TypeOK
        <5> QED
          BY <3>g, <5>1 DEF StillCycle, Submitting
      <4>9. CASE LookupMissing(p)
        <5>1. /\ pc[p] = "next" /\ pc'[p] = "attempt"
              /\ UNCHANGED <<asOf, capital, todo>>
              /\ current'[p] \in todo[p]
          BY <4>9 DEF LookupMissing, Goto, TypeOK
        <5> QED
          BY <3>g, <5>1 DEF StillCycle
      <4>10. CASE PersistResult(p) /\ ~ Leave(p)
        <5>1. /\ pc[p] = "result" /\ pc'[p] = "next"
              /\ UNCHANGED <<asOf, capital>>
              /\ todo'[p] = todo[p] \ {current[p]}
          BY <4>10 DEF PersistResult, Goto, TypeOK
        <5> QED
          BY <3>g, <5>1 DEF StillCycle, Submitting
      <4>11. CASE ~ Leave(p) /\ ~ (Start(p) \/ ReadAccount(p)
                                   \/ LookupMissing(p) \/ PersistResult(p))
        <5>1. /\ UNCHANGED <<asOf, capital, todo, current>>
              /\ pc[p] # "idle"
              /\ pc[p] = "open_orders" => pc'[p] = "account"
              /\ pc[p] # "account"
              /\ pc'[p] \in Submitting => pc[p] \in Submitting
          BY <2>1, <3>3, <4>11
             DEF TypeOK, CycleStep, Proceed, CheckOpenOrders, ReadPositions,
                 LoadSnapshot, PersistInitial, LookupFound, LookupUncertain,
                 PhaseDone, PersistReconciled, PersistAttempt, Placed,
                 SubmitFails, PersistUnknown, PersistConflict,
                 PersistErrorAfterWrite, Stop, Goto, Submitting
        <5> QED
          BY <3>g, <5>1 DEF StillCycle
      <4> QED
        BY <4>6, <4>7, <4>8, <4>9, <4>10, <4>11
    <3> QED
      BY <3>1, <3>2, <3>3
  <2>2. CASE VenueStep
    BY <2>2, StillVenue DEF SubmissionInv
  <2>3. CASE MarketMoves \/ UNCHANGED vars
    <3>1. day \in Days /\ equity \in Equities
      BY DEF TypeOK
    <3>2. day' = day /\ equity' = equity
      BY <2>3, <3>1 DEF MarketMoves, BookStandsStill
    <3>3. UNCHANGED <<holdings, requests, filled, torn, pc, asOf, capital, todo, current>>
      BY <2>3 DEF MarketMoves
    <3> QED
      BY <3>2, <3>3, StillFrame DEF StillInv
  <2> QED
    BY <2>1, <2>2, <2>3 DEF Next
<1>3. Spec => [](waived = {})
  BY NothingWaived DEF BookStandsStill
<1> QED
  BY <1>1, <1>2, <1>3, TypeCorrect, SubmissionInvariant, PTL DEF Spec

(* Where the wanted book stands still, no overlap, crash, restart, lost    *)
(* answer, partial fill or cancellation trades a symbol beyond its target, *)
(* or away from it, as long as nobody reads its position half traded.      *)
THEOREM NeverOvershoots ==
    ASSUME BookStandsStill
    PROVE  Spec => []NoOvershoot
<1>1. TypeOK /\ StillInv => NoOvershoot
  BY StillTypes DEF StillInv, StillMarket, NoOvershoot
<1>2. Spec => []StillInv
  BY StillInvariant
<1> QED
  BY <1>1, <1>2, TypeCorrect, PTL

(* There too no buy is sent by anyone while a sell is on its way or open,  *)
(* untouched or partly filled.                                             *)
THEOREM BuysFollowSells ==
    ASSUME BookStandsStill
    PROVE  Spec => BuysWaitForSells
<1>1. TypeOK /\ SubmissionInv /\ waived = {} /\ StillInv /\ [Next]_vars
        => [\A c \in ClientIds :
              Sending(c) /\ c.side = "BUY"
                  => \A s \in OpenOrders \cup InFlight :
                        s.side # "SELL" \/ s.symbol \in torn]_vars
  <2> SUFFICES ASSUME TypeOK, SubmissionInv, waived = {}, StillInv, [Next]_vars,
                      NEW c \in ClientIds, Sending(c), c.side = "BUY",
                      NEW s \in OpenOrders \cup InFlight, s.side = "SELL",
                      s.symbol \notin torn
               PROVE  FALSE
    OBVIOUS
  <2>1. PICK p \in Cycles : Send(p)
    <3>1. requests[c] \in Seq(RequestStates)
      BY DEF TypeOK
    <3>2. ~ UNCHANGED requests
      BY <3>1 DEF Sending
    <3>3. ~ VenueStep
      BY <3>1, VenueTypes DEF Sending
    <3> QED
      BY <3>2, <3>3, RequestsChange
  <2>2. c = current[p]
    <3>1. current[p] \in ClientIds
      BY <2>1 DEF Send, TypeOK, Submitting
    <3>2. c # current[p] => requests'[c] = requests[c]
      BY <2>1, <3>1 DEF Send, TypeOK
    <3>3. requests[c] \in Seq(RequestStates)
      BY DEF TypeOK
    <3> QED
      BY <3>2, <3>3 DEF Sending
  <2>3. c \in todo[p]
    BY <2>1, <2>2 DEF Send, Submitting, StillInv, StillCycle
  <2>4. s \in ClientIds
    BY DEF OpenOrders, InFlight
  <2>5. PICK n \in DOMAIN requests[s] :
           requests[s][n] \in {"INFLIGHT"} \cup OpenStatuses
    BY DEF OpenOrders, InFlight
  <2>6. filled[s][n] < s.quantity /\ Gap(s.symbol) = Rest(s, n)
    BY <2>4, <2>5 DEF StillInv, StillMarket
  <2>7. holdings[s.symbol] <= Target[equity][s.symbol]
    BY <2>3, <2>4, StillTypes DEF StillInv, StillCycle
  <2>8. /\ filled[s][n] \in Nat /\ s.quantity \in Nat \ {0}
        /\ holdings[s.symbol] \in Int /\ Target[equity][s.symbol] \in Int
    BY <2>4, StillTypes
  <2> QED
    BY <2>6, <2>7, <2>8 DEF Gap, Rest
<1>2. Spec => [](waived = {})
  BY NothingWaived DEF BookStandsStill
<1>3. Spec => []StillInv
  BY StillInvariant
<1> QED
  BY <1>1, <1>2, <1>3, TypeCorrect, SubmissionInvariant, PTL DEF Spec, BuysWaitForSells
=============================================================================
