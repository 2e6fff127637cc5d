----------------------------- MODULE PaperCycle -----------------------------
(***************************************************************************)
(* The paper rebalance cycle of scripts/paper_trade_cycle.py: run_paper,   *)
(* the submission ledger it keeps inside a versioned execution snapshot,   *)
(* and the Alpaca account it trades.  Several invocations may run at once, *)
(* each may die between any two of its steps, a submission may fail while  *)
(* its request is still on the way to the venue, and the venue may fill an *)
(* order in parts.                                                         *)
(*                                                                         *)
(* The snapshot store is the atomic compare-and-set register that module   *)
(* StatePersistence shows both of its backends to implement.  The venue is *)
(* external code: it does no more than the calls made here need.           *)
(***************************************************************************)
EXTENDS Integers, Sequences

CONSTANTS
    Cycles,          \* invocations of the script that may overlap
    Days,            \* the dates prices.index[-1] may have, in order 1..n
    Symbols,         \* the traded universe
    Equities,        \* account values get_account may return
    Target,          \* Target[e][s]: whole shares of s wanted at equity e
    InitialHoldings, \* shares held when the model starts
    MaxQuantity,     \* bound on the size of one order
    Modes,           \* command lines used: "preview", "submit", "retry"
    LegacyLedgers,   \* ledgers an older release may have left behind
    MaxRuns,         \* bound on the number of invocations started
    NoId             \* no intent

Quantities == 1..MaxQuantity
Sides == {"BUY", "SELL"}

(* make_client_order_id: equal ids exactly when date, symbol, side and     *)
(* quantity are equal.                                                     *)
ClientIds ==
    [day : Days, symbol : Symbols, side : Sides, quantity : Quantities]

None == "none"

(* What a broker's answer may say of an order; NEW is an order's status    *)
(* before it is submitted, and the status map has no word that yields it.  *)
OpenStatuses == {"SUBMITTED", "PARTIALLY_FILLED"}
OrderStatuses == OpenStatuses \cup {"FILLED", "CANCELLED", "REJECTED"}
LedgerStates == {"ATTEMPTING", "UNKNOWN"} \cup OrderStatuses

(* A request that left the program is on the way, lost, or an order.       *)
RequestStates == {"INFLIGHT", "DROPPED"} \cup OrderStatuses

Ledgers == [ClientIds -> LedgerStates \cup {None}]
KnownOrders == [ClientIds -> OrderStatuses \cup {None}]

NoLedger == [c \in ClientIds |-> None]

ASSUME PaperCycleAssumption ==
    /\ 1 \in Days /\ Days \subseteq Nat \ {0}
    /\ Equities \subseteq Nat \ {0}
    /\ NoId \notin ClientIds
    /\ MaxQuantity \in Nat
    /\ MaxRuns \in Nat
    /\ Target \in [Equities -> [Symbols -> Int]]
    /\ InitialHoldings \in [Symbols -> Int]
    /\ Modes \subseteq {"preview", "submit", "retry"}
    /\ LegacyLedgers \subseteq Ledgers

VARIABLES
    day,        \* the latest trading date
    equity,     \* the account's equity now
    holdings,   \* the account's positions
    requests,   \* requests[c]: the fate of every request sent under id c
    filled,     \* filled[c]: the shares each of them has traded
    disk,       \* the persisted execution snapshot; revision 0: none yet
    legacy,     \* the ledger under SUBMISSION_LEDGER_KEY, never rewritten
    waived,     \* history: ids resent on the operator's word
    runs,       \* history: invocations started
    torn,       \* history: symbols whose position was read half traded
    pc,         \* where each invocation is
    mode,       \* its command line
    asOf,       \* prices.index[-1]
    capital,    \* the equity it read, 0 before
    todo,       \* intents of its phase not yet dealt with
    current,    \* the intent being submitted
    ledger,     \* its copy of the intents
    orders,     \* snapshot_context["orders"]
    revision    \* snapshot_context["revision"], 0 for None

market == <<day, equity>>
venue == <<holdings, requests, filled>>
store == <<disk, legacy>>
history == <<waived, runs, torn>>
observed == <<mode, asOf, capital>>
work == <<todo, current>>
context == <<ledger, orders, revision>>
vars == <<market, venue, store, history, pc, observed, work, context>>

-----------------------------------------------------------------------------
(* What the venue answers.                                                 *)

Routed(c) == {n \in DOMAIN requests[c] : requests[c][n] \in OrderStatuses}

OpenOrders == {c \in ClientIds :
                  \E n \in DOMAIN requests[c] : requests[c][n] \in OpenStatuses}

InFlight == {c \in ClientIds :
                \E n \in DOMAIN requests[c] : requests[c][n] = "INFLIGHT"}

(* The symbols with an open order that is partly filled: the positions     *)
(* show what it has traded and not what it will.                           *)
HalfTraded ==
    {c.symbol : c \in {d \in ClientIds : \E n \in DOMAIN requests[d] :
                          requests[d][n] \in OpenStatuses /\ filled[d][n] > 0}}

(* The ledger that _initialise_submission_state would find.                *)
StoredLedger == IF disk.revision = 0 THEN legacy ELSE disk.intents

Recorded(c) == StoredLedger[c] # None

(* build_orders over target_weights_to_orders: one intent per symbol whose *)
(* whole-share target differs from the position.                           *)
Intents(d, e, held) ==
    {c \in ClientIds :
        /\ c.day = d
        /\ Target[e][c.symbol] - held[c.symbol] =
               IF c.side = "BUY" THEN c.quantity ELSE -c.quantity}

(* Mutant: sells and buys in one snapshot.                                 *)
PhaseOfEverything(intents) == intents

(* sell_orders if there are any, else buy_orders.                          *)
Phase(intents) ==
    LET sells == {c \in intents : c.side = "SELL"}
    IN IF sells # {} THEN sells ELSE intents

-----------------------------------------------------------------------------
Init ==
    /\ day = 1
    /\ equity \in Equities
    /\ holdings = InitialHoldings
    /\ legacy \in LegacyLedgers
    /\ \E fate \in {"INFLIGHT", "DROPPED"} :
          requests = [c \in ClientIds |->
              IF legacy[c] = None THEN <<>>
              ELSE IF legacy[c] \in OrderStatuses THEN <<legacy[c]>>
              ELSE <<fate>>]
    /\ \E share \in Quantities :
          /\ \A c \in ClientIds : legacy[c] = "PARTIALLY_FILLED" => share < c.quantity
          /\ filled = [c \in ClientIds |->
                IF legacy[c] = None THEN <<>>
                ELSE IF legacy[c] = "PARTIALLY_FILLED" THEN <<share>>
                ELSE IF legacy[c] = "FILLED" THEN <<c.quantity>>
                ELSE <<0>>]
    /\ disk = [revision |-> 0, intents |-> NoLedger, orders |-> NoLedger]
    /\ waived = {}
    /\ runs = 0
    /\ torn = {}
    /\ pc = [p \in Cycles |-> "idle"]
    /\ mode = [p \in Cycles |-> None]
    /\ asOf = [p \in Cycles |-> 0]
    /\ capital = [p \in Cycles |-> 0]
    /\ todo = [p \in Cycles |-> {}]
    /\ current = [p \in Cycles |-> NoId]
    /\ ledger = [p \in Cycles |-> NoLedger]
    /\ orders = [p \in Cycles |-> NoLedger]
    /\ revision = [p \in Cycles |-> 0]

(* The invocation is over, or dead: only what it persisted or sent is left. *)
Leave(p) ==
    /\ pc' = [pc EXCEPT ![p] = "idle"]
    /\ mode' = [mode EXCEPT ![p] = None]
    /\ asOf' = [asOf EXCEPT ![p] = 0]
    /\ capital' = [capital EXCEPT ![p] = 0]
    /\ todo' = [todo EXCEPT ![p] = {}]
    /\ current' = [current EXCEPT ![p] = NoId]
    /\ ledger' = [ledger EXCEPT ![p] = NoLedger]
    /\ orders' = [orders EXCEPT ![p] = NoLedger]
    /\ revision' = [revision EXCEPT ![p] = 0]

Goto(p, label) == pc' = [pc EXCEPT ![p] = label]

(* main: prices are loaded, fixing the as-of date, then run_paper starts.   *)
(* The operator passes --retry-confirmed-missing only once the venue has   *)
(* confirmed that no request is still on its way.                          *)
Start(p) ==
    /\ pc[p] = "idle"
    /\ runs < MaxRuns
    /\ runs' = runs + 1
    /\ \E m \in Modes :
          /\ m = "retry" => InFlight = {}
          /\ mode' = [mode EXCEPT ![p] = m]
    /\ asOf' = [asOf EXCEPT ![p] = day]
    /\ Goto(p, "open_orders")
    /\ UNCHANGED <<market, venue, store, waived, torn, capital, work, context>>

(* broker.get_open_orders: any open order refuses the cycle.               *)
CheckOpenOrders(p) ==
    /\ pc[p] = "open_orders"
    /\ IF OpenOrders # {}
         THEN Leave(p)
         ELSE /\ Goto(p, "account")
              /\ UNCHANGED <<observed, work, context>>
    /\ UNCHANGED <<market, venue, store, history>>

(* broker.get_account.                                                     *)
ReadAccount(p) ==
    /\ pc[p] = "account"
    /\ capital' = [capital EXCEPT ![p] = equity]
    /\ Goto(p, "positions")
    /\ UNCHANGED <<market, venue, store, history, mode, asOf, work, context>>

(* broker.get_positions, build_orders and assert_safe.  A preview stops    *)
(* here; otherwise the sell phase, or without sells the buy phase, is what *)
(* this invocation will try to submit.  The open orders were read before:  *)
(* one that appeared since may be half traded.                             *)
ReadPositions(p) ==
    /\ pc[p] = "positions"
    /\ IF mode[p] = "preview"
         THEN Leave(p) /\ UNCHANGED torn
         ELSE /\ todo' = [todo EXCEPT
                    ![p] = Phase(Intents(asOf[p], capital[p], holdings))]
              /\ torn' = torn \cup HalfTraded
              /\ Goto(p, "load")
              /\ UNCHANGED <<observed, current, context>>
    /\ UNCHANGED <<market, venue, store, waived, runs>>

(* Mutant: without a snapshot the legacy ledger is forgotten.              *)
LoadSnapshotOnly(p) ==
    /\ pc[p] = "load"
    /\ ledger' = [ledger EXCEPT ![p] = disk.intents]
    /\ orders' = [orders EXCEPT ![p] = disk.orders]
    /\ revision' = [revision EXCEPT ![p] = disk.revision]
    /\ Goto(p, "initialise")
    /\ UNCHANGED <<market, venue, store, history, observed, work>>

(* _initialise_submission_state up to its save: the snapshot, or without   *)
(* one the legacy ledger, becomes the invocation's working copy.           *)
LoadSnapshot(p) ==
    /\ pc[p] = "load"
    /\ ledger' = [ledger EXCEPT ![p] = StoredLedger]
    /\ orders' = [orders EXCEPT ![p] = disk.orders]
    /\ revision' = [revision EXCEPT ![p] = disk.revision]
    /\ Goto(p, "initialise")
    /\ UNCHANGED <<market, venue, store, history, observed, work>>

(* Mutant: the last writer wins.                                           *)
PersistUnchecked(p) ==
    /\ disk' = [revision |-> disk.revision + 1,
                intents |-> ledger[p],
                orders |-> orders[p]]
    /\ UNCHANGED legacy

(* _persist_submission_state that succeeds: the store still holds the      *)
(* revision this invocation last saw.                                      *)
Persist(p) ==
    /\ revision[p] = disk.revision
    /\ disk' = [revision |-> disk.revision + 1,
                intents |-> ledger[p],
                orders |-> orders[p]]
    /\ UNCHANGED legacy

Persisted(p) == revision' = [revision EXCEPT ![p] = disk.revision + 1]

(* The pre-submission snapshot.                                            *)
PersistInitial(p) ==
    /\ pc[p] = "initialise"
    /\ Persist(p)
    /\ Persisted(p)
    /\ Goto(p, "next")
    /\ UNCHANGED <<market, venue, history, observed, work, ledger, orders>>

(* Mutant: the ledger entry is updated, the order is not remembered.       *)
LookupFoundUnremembered(p) ==
    /\ pc[p] = "next"
    /\ \E c \in todo[p] : \E n \in Routed(c) :
          ledger' = [ledger EXCEPT ![p][c] = requests[c][n]]
    /\ Goto(p, "reconcile")
    /\ UNCHANGED <<market, venue, store, history, observed, work, orders, revision>>

(* _reconcile_or_submit finds an order under the id: it records what the   *)
(* broker says and will not send anything.                                 *)
LookupFound(p) ==
    /\ pc[p] = "next"
    /\ \E c \in todo[p] : \E n \in Routed(c) :
          /\ ledger' = [ledger EXCEPT ![p][c] = requests[c][n]]
          /\ orders' = [orders EXCEPT ![p][c] = requests[c][n]]
    /\ Goto(p, "reconcile")
    /\ UNCHANGED <<market, venue, store, history, observed, work, revision>>

(* No order, but a record of an attempt: its outcome is uncertain, and     *)
(* without --retry-confirmed-missing the phase ends in a BrokerError.      *)
LookupUncertain(p) ==
    /\ pc[p] = "next"
    /\ mode[p] # "retry"
    /\ \E c \in todo[p] : Routed(c) = {} /\ ledger[p][c] # None
    /\ Leave(p)
    /\ UNCHANGED <<market, venue, store, history>>

(* Mutant: a missing order is sent again whatever the ledger says.         *)
LookupMissingUnguarded(p) ==
    /\ pc[p] = "next"
    /\ \E c \in todo[p] :
          /\ Routed(c) = {}
          /\ current' = [current EXCEPT ![p] = c]
          /\ ledger' = [ledger EXCEPT ![p][c] = "ATTEMPTING"]
    /\ Goto(p, "attempt")
    /\ UNCHANGED <<market, venue, store, history, observed, todo, orders, revision>>

(* Mutant: the attempt is marked without noting which intent it is for.    *)
LookupMissingUnnamed(p) ==
    /\ pc[p] = "next"
    /\ \E c \in todo[p] :
          /\ Routed(c) = {}
          /\ mode[p] = "retry" \/ ledger[p][c] = None
          /\ ledger' = [ledger EXCEPT ![p][c] = "ATTEMPTING"]
    /\ Goto(p, "attempt")
    /\ UNCHANGED <<market, venue, store, history, observed, work, orders, revision>>

(* No order, and no record or the operator's permission: mark the attempt. *)
LookupMissing(p) ==
    /\ pc[p] = "next"
    /\ \E c \in todo[p] :
          /\ Routed(c) = {}
          /\ mode[p] = "retry" \/ ledger[p][c] = None
          /\ current' = [current EXCEPT ![p] = c]
          /\ ledger' = [ledger EXCEPT ![p][c] = "ATTEMPTING"]
    /\ Goto(p, "attempt")
    /\ UNCHANGED <<market, venue, store, history, observed, todo, orders, revision>>

(* The phase is exhausted.                                                 *)
PhaseDone(p) ==
    /\ pc[p] = "next"
    /\ todo[p] = {}
    /\ Leave(p)
    /\ UNCHANGED <<market, venue, store, history>>

(* Mutant: a broker status is saved over whatever is stored.               *)
PersistReconciledUnchecked(p) ==
    /\ pc[p] = "reconcile"
    /\ PersistUnchecked(p)
    /\ Leave(p)
    /\ UNCHANGED <<market, venue, history>>

(* A reconciled order is persisted and ends the phase.                     *)
PersistReconciled(p) ==
    /\ pc[p] = "reconcile"
    /\ Persist(p)
    /\ Leave(p)
    /\ UNCHANGED <<market, venue, history>>

(* Mutant: the attempt is marked in memory only.                           *)
AttemptUnsaved(p) ==
    /\ pc[p] = "attempt"
    /\ waived' = IF mode[p] = "retry" /\ Recorded(current[p])
                   THEN waived \cup {current[p]} ELSE waived
    /\ Goto(p, "send")
    /\ UNCHANGED <<market, venue, store, runs, torn, observed, work, context>>

(* The ATTEMPTING record is durable; only now may the request be sent.     *)
PersistAttempt(p) ==
    /\ pc[p] = "attempt"
    /\ Persist(p)
    /\ Persisted(p)
    /\ waived' = IF mode[p] = "retry" /\ Recorded(current[p])
                   THEN waived \cup {current[p]} ELSE waived
    /\ Goto(p, "send")
    /\ UNCHANGED <<market, venue, runs, torn, observed, work, ledger, orders>>

(* broker.submit_order puts the request on the wire ...                    *)
Send(p) ==
    /\ pc[p] = "send"
    /\ requests' = [requests EXCEPT ![current[p]] = Append(@, "INFLIGHT")]
    /\ filled' = [filled EXCEPT ![current[p]] = Append(@, 0)]
    /\ Goto(p, "await")
    /\ UNCHANGED <<market, holdings, store, history, observed, work, context>>

(* ... and returns an order placed under the id, whose status is           *)
(* remembered as it was when the answer was written.                       *)
Placed(p) ==
    /\ pc[p] = "await"
    /\ \E n \in Routed(current[p]) :
          /\ ledger' = [ledger EXCEPT ![p][current[p]] = requests[current[p]][n]]
          /\ orders' = [orders EXCEPT ![p][current[p]] = requests[current[p]][n]]
    /\ Goto(p, "result")
    /\ UNCHANGED <<market, venue, store, history, observed, work, revision>>

(* submit_order raises BrokerError: the connection broke, the venue        *)
(* refused, its answer cannot be used, or the call never left.             *)
SubmitFails(p) ==
    /\ pc[p] \in {"send", "await"}
    /\ ledger' = [ledger EXCEPT ![p][current[p]] = "UNKNOWN"]
    /\ Goto(p, "unknown")
    /\ UNCHANGED <<market, venue, store, history, observed, work, orders, revision>>

(* The UNKNOWN record is saved if the store takes it; the phase ends.      *)
PersistUnknown(p) ==
    /\ pc[p] = "unknown"
    /\ Persist(p)
    /\ Leave(p)
    /\ UNCHANGED <<market, venue, history>>

(* Mutant: an answer that is partly filled already is waited on.           *)
PersistResultWhole(p) ==
    /\ pc[p] = "result"
    /\ ledger[p][current[p]] # "PARTIALLY_FILLED"
    /\ Persist(p)
    /\ IF ledger[p][current[p]] \in {"CANCELLED", "REJECTED"}
         THEN Leave(p)
         ELSE /\ Persisted(p)
              /\ todo' = [todo EXCEPT ![p] = @ \ {current[p]}]
              /\ current' = [current EXCEPT ![p] = NoId]
              /\ Goto(p, "next")
              /\ UNCHANGED <<observed, ledger, orders>>
    /\ UNCHANGED <<market, venue, history>>

(* The placed order is saved.  A cancelled or rejected one ends the phase. *)
PersistResult(p) ==
    /\ pc[p] = "result"
    /\ Persist(p)
    /\ IF ledger[p][current[p]] \in {"CANCELLED", "REJECTED"}
         THEN Leave(p)
         ELSE /\ Persisted(p)
              /\ todo' = [todo EXCEPT ![p] = @ \ {current[p]}]
              /\ current' = [current EXCEPT ![p] = NoId]
              /\ Goto(p, "next")
              /\ UNCHANGED <<observed, ledger, orders>>
    /\ UNCHANGED <<market, venue, history>>

Saving == {"initialise", "reconcile", "attempt", "unknown", "result"}
Submitting == {"attempt", "send", "await", "unknown", "result"}

(* A save at a revision the store has moved past raises                    *)
(* StatePersistenceError.  run_paper does not catch it inside its loop, and *)
(* after an UNKNOWN the phase is over anyway.                              *)
PersistConflict(p) ==
    /\ pc[p] \in Saving
    /\ revision[p] # disk.revision
    /\ Leave(p)
    /\ UNCHANGED <<market, venue, store, history>>

(* A save that fails for another reason ends the invocation as well, yet   *)
(* may have replaced the snapshot: os.replace can succeed before the       *)
(* directory fsync fails, and a Redis EXEC can lose only its reply.        *)
PersistErrorAfterWrite(p) ==
    /\ pc[p] \in Saving
    /\ Persist(p)
    /\ Leave(p)
    /\ UNCHANGED <<market, venue, history>>

(* The process dies, a broker read raises BrokerError, the risk gate       *)
(* rejects the book, or a save fails without effect: nothing more happens. *)
Stop(p) ==
    /\ pc[p] # "idle"
    /\ Leave(p)
    /\ UNCHANGED <<market, venue, store, history>>

-----------------------------------------------------------------------------
(* The venue and the market.                                               *)

Set(c, n, s) == requests' = [requests EXCEPT ![c][n] = s]

Route(c, n) ==
    /\ requests[c][n] = "INFLIGHT"
    /\ \E s \in {"SUBMITTED", "DROPPED"} : Set(c, n, s)
    /\ UNCHANGED <<holdings, filled>>

(* Some of the shares left are traded, and the position moves with them.   *)
(* An order partly filled may read as SUBMITTED again, while its           *)
(* cancellation is pending.                                                *)
Fill(c, n) ==
    /\ requests[c][n] \in OpenStatuses
    /\ \E k \in 1..(c.quantity - filled[c][n]) :
          /\ filled' = [filled EXCEPT ![c][n] = @ + k]
          /\ holdings' = [holdings EXCEPT ![c.symbol] =
                             IF c.side = "BUY" THEN @ + k ELSE @ - k]
          /\ \E s \in IF filled[c][n] + k = c.quantity THEN {"FILLED"}
                       ELSE OpenStatuses : Set(c, n, s)

(* Cancelled, expired or rejected: what was traded stays traded.           *)
Close(c, n) ==
    /\ requests[c][n] \in OpenStatuses
    /\ \E s \in {"CANCELLED", "REJECTED"} : Set(c, n, s)
    /\ UNCHANGED <<holdings, filled>>

VenueStep ==
    /\ \E c \in ClientIds : \E n \in DOMAIN requests[c] :
          Route(c, n) \/ Fill(c, n) \/ Close(c, n)
    /\ UNCHANGED <<market, store, history, pc, observed, work, context>>

(* The account is revalued, or a new trading session begins.               *)
MarketMoves ==
    /\ \E d \in Days, e \in Equities :
          /\ d \in {day, day + 1}
          /\ <<d, e>> # market
          /\ day' = d
          /\ equity' = e
    /\ UNCHANGED <<venue, store, history, pc, observed, work, context>>

Proceed(p) ==
    \/ Start(p)
    \/ CheckOpenOrders(p)
    \/ ReadAccount(p)
    \/ ReadPositions(p)
    \/ LoadSnapshot(p)
    \/ PersistInitial(p)
    \/ LookupFound(p)
    \/ LookupUncertain(p)
    \/ LookupMissing(p)
    \/ PhaseDone(p)
    \/ PersistReconciled(p)
    \/ PersistAttempt(p)
    \/ Send(p)
    \/ Placed(p)
    \/ SubmitFails(p)
    \/ PersistUnknown(p)
    \/ PersistResult(p)
    \/ PersistConflict(p)
    \/ PersistErrorAfterWrite(p)

CycleStep(p) == Proceed(p) \/ Stop(p)

Next ==
    \/ \E p \in Cycles : CycleStep(p)
    \/ VenueStep
    \/ MarketMoves

Spec == Init /\ [][Next]_vars

(* Where an invocation waits for the venue.                                *)
AtVenue(p) ==
    \/ pc[p] \in {"open_orders", "account", "positions", "await"}
    \/ pc[p] = "next" /\ todo[p] # {}

(* What a running process does without the venue.  Its locks are held only *)
(* over local reads and writes, and fall with the process that holds them. *)
Local(p) ==
    \/ LoadSnapshot(p)
    \/ PersistInitial(p)
    \/ PhaseDone(p)
    \/ PersistReconciled(p)
    \/ PersistAttempt(p)
    \/ Send(p)
    \/ PersistUnknown(p)
    \/ PersistResult(p)
    \/ PersistConflict(p)

(* A running process keeps running.  No call to the venue need return: the *)
(* client is built without a timeout.  Nothing makes an invocation start,  *)
(* stop or fail to save.                                                   *)
FairSpec == Spec /\ \A p \in Cycles : WF_vars(Local(p))

-----------------------------------------------------------------------------
(* Every variable has its type.                                            *)
TypeOK ==
    /\ day \in Days
    /\ equity \in Equities
    /\ holdings \in [Symbols -> Int]
    /\ requests \in [ClientIds -> Seq(RequestStates)]
    /\ disk \in [revision : Nat, intents : Ledgers, orders : KnownOrders]
    /\ legacy \in LegacyLedgers
    /\ filled \in [ClientIds -> Seq(Nat)]
    /\ \A c \in ClientIds : Len(filled[c]) = Len(requests[c])
    /\ waived \in SUBSET ClientIds
    /\ torn \in SUBSET Symbols
    /\ runs \in Nat
    /\ pc \in [Cycles -> {"idle", "open_orders", "account", "positions", "load",
                         "next", "send", "await"} \cup Saving]
    /\ mode \in [Cycles -> Modes \cup {None}]
    /\ asOf \in [Cycles -> Days \cup {0}]
    /\ capital \in [Cycles -> Equities \cup {0}]
    /\ todo \in [Cycles -> SUBSET ClientIds]
    /\ current \in [Cycles -> ClientIds \cup {NoId}]
    /\ ledger \in [Cycles -> Ledgers]
    /\ orders \in [Cycles -> KnownOrders]
    /\ revision \in [Cycles -> Nat]
    /\ \A p \in Cycles : pc[p] \in Submitting => current[p] \in ClientIds

(* The comment at line 402 of paper_trade_cycle.py: a crash or timeout must *)
(* leave a durable marker.  No request ever reaches the wire that the      *)
(* stored ledger does not know.                                            *)
SentIsRecorded == \A c \in ClientIds : requests[c] # <<>> => Recorded(c)

(* "Reconcile a deterministic client id, then submit at most once": over   *)
(* all overlapping, crashed and restarted invocations an id is sent once,  *)
(* unless the operator had it sent again.                                  *)
SentOnce == \A c \in ClientIds : c \notin waived => Len(requests[c]) <= 1

Working == Saving \cup {"next", "send", "await"}

(* Why SentOnce holds, whatever overlaps.  The revision check makes a copy *)
(* of the ledger that may still be saved as complete as the stored one, so *)
(* an invocation about to mark an attempt knows whether anyone marked it   *)
(* before; and a marked intent belongs to the invocation that will send it. *)
SubmissionInv ==
    /\ SentIsRecorded
    /\ SentOnce
    /\ \A p \in Cycles : revision[p] <= disk.revision
    /\ \A p \in Cycles : pc[p] \in Working /\ revision[p] = disk.revision
          => \A c \in ClientIds : Recorded(c) => ledger[p][c] # None
    /\ \A p \in Cycles :
          pc[p] = "attempt" =>
              /\ ledger[p][current[p]] # None
              /\ mode[p] # "retry" /\ revision[p] = disk.revision
                    => ~ Recorded(current[p])
    /\ \A p \in Cycles :
          pc[p] = "send" =>
              /\ Recorded(current[p])
              /\ current[p] \notin waived => requests[current[p]] = <<>>
    /\ \A p, q \in Cycles :
          /\ pc[p] = "send" /\ pc[q] = "send"
          /\ current[p] = current[q] /\ current[p] \notin waived
          => p = q

(* A recorded intent is never lost, neither by the migration of a legacy   *)
(* ledger nor by an invocation that saves an old copy of the ledger.       *)
RecordsAreKept == [][\A c \in ClientIds : Recorded(c) => Recorded(c)']_vars

(* The snapshot is one coherent view: an intent whose last known state is a *)
(* broker status comes with that order, in that status, and an intent      *)
(* whose outcome is uncertain comes with none.                             *)
SnapshotCoherent ==
    \A c \in ClientIds :
        legacy[c] = None =>
            disk.orders[c] = (IF disk.intents[c] \in OrderStatuses
                                THEN disk.intents[c] ELSE None)

(* A final status, once persisted, is never overwritten by an answer that  *)
(* another invocation read earlier.                                        *)
FinalStatusIsKept ==
    [][\A c \in ClientIds :
          disk.intents[c] \in OrderStatuses \ OpenStatuses
              => disk'.intents[c] = disk.intents[c]]_vars

Sending(c) == Len(requests'[c]) > Len(requests[c])

(* "Re-run after all sell orders fill so positions and buying power are    *)
(* refreshed": no buy is sent while a sell is on its way or open, in whole *)
(* or in part, unless the sold symbol's position was read half traded.     *)
BuysWaitForSells ==
    [][\A c \in ClientIds :
          Sending(c) /\ c.side = "BUY"
              => \A s \in OpenOrders \cup InFlight :
                    s.side # "SELL" \/ s.symbol \in torn]_vars

(* While the wanted book stands still, no crash, retry, overlap, partial   *)
(* fill or cancellation trades a symbol beyond its target, unless some     *)
(* invocation read its position while an order was half traded.  That read *)
(* is possible, the open orders being another call, and then the rest goes *)
(* out under a second id: the quantity is part of the id.                  *)
NoOvershoot ==
    \A s \in Symbols \ torn, e \in Equities :
        \/ InitialHoldings[s] <= holdings[s] /\ holdings[s] <= Target[e][s]
        \/ Target[e][s] <= holdings[s] /\ holdings[s] <= InitialHoldings[s]

(* "An uncertain outcome blocks automatic retry until broker               *)
(* reconciliation" (production-readiness.md, architecture.md): a leg of    *)
(* the day's rebalance whose outcome is uncertain, its request still on    *)
(* the way, is not traded again without the operator.                      *)
UncertainLegBlocksRetry ==
    [][\A c \in ClientIds :
          Sending(c) /\ c \notin waived
              => ~ \E u \in InFlight \ {c} :
                      /\ u.day = c.day /\ u.symbol = c.symbol /\ u.side = c.side
                      /\ StoredLedger[u] \in {"ATTEMPTING", "UNKNOWN"}]_vars

(* If --retry-confirmed-missing is given only when nothing is on its way   *)
(* and invocations do not overlap, no id ever has two orders.              *)
OneOrderPerId ==
    \A c \in ClientIds : \A m, n \in Routed(c) : m = n

(* Whatever the answers, their order and the saves that fail, an           *)
(* invocation of run_paper comes to an end, or the venue does not return   *)
(* one of its calls: nothing of its own keeps it.                          *)
CycleEnds ==
    \A p \in Cycles : []<>(pc[p] = "idle") \/ <>[]AtVenue(p)
=============================================================================
