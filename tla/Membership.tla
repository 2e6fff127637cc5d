----------------------------- MODULE Membership ------------------------------
(***************************************************************************)
(* Index membership as of a date (data/universe): the table of today's     *)
(* members and the log of changes are published day by day; from these two *)
(* build_pit_membership reconstructs half-open intervals of membership,    *)
(* and PITMembership answers who was a member on a day.                    *)
(***************************************************************************)
EXTENDS Integers, FiniteSets, FiniteSetsExt

CONSTANTS
    Symbols,
    MaxDay, MaxChanges, \* bounds
    None

VARIABLES
    today,
    members, \* the current constituents
    added,   \* the table's "Date added", which may be blank
    log,     \* rows of the change log
    history  \* history[d]: who was a member on day d

vars == <<today, members, added, log, history>>

(* The log begins with the first change after day 0; the first members     *)
(* joined before.                                                          *)
Init ==
    /\ today = 0
    /\ members \in (SUBSET Symbols) \ {{}}
    /\ added \in [Symbols -> {None, 0}]
    /\ \A s \in Symbols \ members : added[s] = None
    /\ log = {}
    /\ history = [d \in {0} |-> members]

NextDay ==
    /\ today < MaxDay
    /\ today' = today + 1
    /\ history' = [d \in DOMAIN history \cup {today'} |->
                      IF d = today' THEN members ELSE history[d]]
    /\ UNCHANGED <<members, added, log>>

ChangedToday(s) == \E row \in log : row.date = today /\ s \in {row.added, row.removed}

(* A row of the log, effective today: somebody joins, leaves, or both.  A  *)
(* symbol changes once a day, except that one removed today may be put     *)
(* back (the successor of a company that split up).                        *)
Change ==
    /\ today > 0 /\ Cardinality(log) < MaxChanges
    /\ \E join \in (Symbols \ members) \cup {None}, leave \in members \cup {None} :
          /\ join # None \/ leave # None
          /\ leave # None => ~ChangedToday(leave)
          /\ join # None => ~\E row \in log : row.date = today /\ row.added = join
          /\ members' = (members \ {leave}) \cup ({join} \ {None})
          /\ members' # {}
          /\ \E date \in {None, today} :
                added' = [s \in Symbols |->
                             IF s = join THEN date ELSE IF s = leave THEN None ELSE added[s]]
          /\ log' = log \cup {[date |-> today, added |-> join, removed |-> leave]}
          /\ history' = [history EXCEPT ![today] = members']
    /\ UNCHANGED today

Next == NextDay \/ Change

Spec == Init /\ [][Next]_vars

-----------------------------------------------------------------------------
(* build_pit_membership: events of a ticker, as dates.                     *)
Adds(s) == {row.date : row \in {r \in log : r.added = s}}

Removals(s) == {row.date : row \in {r \in log : r.removed = s}}

(* An unlogged past ends where the log begins, or at a later floor.        *)
EarliestChange == Min({row.date : row \in log})

(* A tenure that ended on day e began with the first addition since the    *)
(* removal before it; an addition on the day of a removal comes after it.  *)
Opened(s, e, start) ==
    LET before == {r \in Removals(s) : r < e}
        adds == {a \in Adds(s) : a < e /\ \A r \in before : a >= r}
    IN  IF adds = {} THEN start ELSE Max({start, Min(adds)})

(* closed_intervals.                                                       *)
ClosedIntervals(s, removals, start) ==
    {[symbol |-> s, start |-> Opened(s, e, start), end |-> e] :
        e \in {e \in removals : Opened(s, e, start) < e}}

(* The open tenure of a current member: dated by the table, else by the    *)
(* last addition in the log, else by the log's beginning.                  *)
OpenSince(s, start) ==
    LET since == IF added[s] # None THEN added[s]
                 ELSE IF Adds(s) # {} THEN Max(Adds(s)) ELSE start
    IN  Max({since, start})

(* Mutant: what happened on the day of the last addition is left out.      *)
TenuresBefore(s, start) ==
    IF s \in members
      THEN ClosedIntervals(s, {e \in Removals(s) : e < OpenSince(s, start)}, start)
           \cup {[symbol |-> s, start |-> OpenSince(s, start), end |-> None]}
      ELSE ClosedIntervals(s, Removals(s), start)

(* A current member's closed tenures end no later than its open one began. *)
Tenures(s, start) ==
    IF s \in members
      THEN ClosedIntervals(s, {e \in Removals(s) : e <= OpenSince(s, start)}, start)
           \cup {[symbol |-> s, start |-> OpenSince(s, start), end |-> None]}
      ELSE ClosedIntervals(s, Removals(s), start)

BuildPitMembership(start) == UNION {Tenures(s, start) : s \in Symbols}

(* PITMembership accepts intervals that are not empty and do not overlap.  *)
Accepted(frame) ==
    /\ frame # {}
    /\ \A i \in frame : i.end = None \/ i.start < i.end
    /\ \A i, j \in frame :
          i # j /\ i.symbol = j.symbol /\ i.start <= j.start =>
              i.end # None /\ i.end <= j.start

(* members_asof: a constituent removed on day d is no member on d.         *)
MembersAsOf(frame, d) ==
    {i.symbol : i \in {i \in frame : i.start <= d /\ (i.end = None \/ i.end > d)}}

(* survivorship_check and validate_backtest: the holdings of each day that *)
(* were no members then.                                                   *)
SurvivorshipCheck(frame, used, d) == used \ MembersAsOf(frame, d)

ValidateBacktest(frame, holdings) ==
    {d \in DOMAIN holdings : SurvivorshipCheck(frame, holdings[d], d) # {}}

FlaggedSymbols(frame, holdings) ==
    UNION {SurvivorshipCheck(frame, holdings[d], d) : d \in ValidateBacktest(frame, holdings)}

-----------------------------------------------------------------------------
TypeOK ==
    /\ today \in 0..MaxDay
    /\ members \in (SUBSET Symbols) \ {{}}
    /\ added \in [Symbols -> 0..MaxDay \cup {None}]
    /\ log \subseteq [date : 1..MaxDay, added : Symbols \cup {None},
                      removed : Symbols \cup {None}]
    /\ history \in [0..today -> SUBSET Symbols]

(***************************************************************************)
(* MembershipIsHistory: whoever asks today who was a member on a day the   *)
(* log covers is told who was one then: no survivor is added, nobody who   *)
(* left and came back is merged into one tenure, and no table of intervals *)
(* built from a true log is refused ("the membership that was true on that *)
(* date, not the membership today").  A backtest of what was a member then *)
(* passes validate_backtest, and one of today's members is flagged for the *)
(* days before they joined.                                                *)
(***************************************************************************)
MembershipIsHistory ==
    log # {} =>
        \A start \in EarliestChange..today :
            LET frame == BuildPitMembership(start)
            IN  /\ Accepted(frame)
                /\ \A d \in start..today : MembersAsOf(frame, d) = history[d]
                /\ ValidateBacktest(frame, [d \in start..today |-> history[d]]) = {}
                /\ FlaggedSymbols(frame, [d \in start..today |-> members]) =
                      UNION {members \ history[d] : d \in start..today}
=============================================================================
