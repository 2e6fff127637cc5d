---------------------------- MODULE Fundamentals -----------------------------
(***************************************************************************)
(* Quarterly fundamentals as of a day (alpha/factors/classical and         *)
(* data/processors/pit_enforcer.py): what a feature of day d may know, how *)
(* a panel carries reports forward, and the measures of ValueFactor and    *)
(* QualityFactor made from it.  Reports of one symbol are announced while  *)
(* days pass, late, restated and with quarters left out; on each day the   *)
(* measures are asked for once, before that day's announcements.  A        *)
(* number is the set of reports it was computed from.                      *)
(***************************************************************************)
EXTENDS Integers, FiniteSets, FiniteSetsExt

CONSTANTS
    Days,       \* the days of the calendar on which anything happens
    Coverage,   \* the sets of fields a report may come with
    MaxLag,     \* bound: no report is announced later after its period
    MaxReports, \* bound
    None, Raised

ASSUME FundamentalsAssumption == Days \subseteq Nat /\ IsFiniteSet(Days) /\ Days # {}

VARIABLES
    today,
    reports, \* the tidy frame, one record for a period's fields
    answers  \* answers[d]: what was computed on day d

vars == <<today, reports, answers>>

-----------------------------------------------------------------------------
(* as_of: date-only announcements are known strictly after their date.     *)
AsOf(R, d) == {r \in R : r.announced < d}

(* by_period: the last announced vintage of each period.                   *)
Vintages(R) ==
    {r \in R : \A s \in R : s.period = r.period => s.announced <= r.announced}

After(r, V) == {s \in V : s.period > r.period}

(* The n latest periods.                                                   *)
Last(n, V) == {r \in V : Cardinality(After(r, V)) < n}

(* Gaps of less than 45 or more than 150 days break the chain.             *)
Consecutive(V) ==
    \A r \in V : After(r, V) # {} =>
        Min({s.period : s \in After(r, V)}) - r.period \in 45..150

(* The latest period together with the one a year before it.               *)
YearBefore(V) ==
    {r \in V : \E s \in Last(1, V) : s.period - r.period \in 300..430}

(* _snapshot_value: what the reports R say once they are all known.        *)
SnapshotValue(mode, R) ==
    LET V == Vintages(R)
    IN  CASE mode = "latest" -> Last(1, V)
          [] mode = "ttm" ->
                IF Cardinality(V) >= 4 /\ Consecutive(Last(4, V))
                  THEN Last(4, V) ELSE {}
          [] mode = "average_balance" ->
                IF YearBefore(V) # {} THEN Last(1, V) \cup Last(1, YearBefore(V)) ELSE {}

(* Mutant: the vintages are chosen once, for the whole frame.              *)
PitPanelRestated(mode, field, R, d) ==
    LET F == Vintages({r \in R : field \in r.fields})
        At(e) == SnapshotValue(mode, {r \in F : r.announced <= e})
        numbers == {e \in {r.announced : r \in F} : e < d /\ At(e) # {}}
    IN  IF numbers = {} THEN {} ELSE At(Max(numbers))

(* pit_panel, for the whole frame R: a value per announcement, and on day  *)
(* d the last of those before it that is a number (ffill).  {} is a        *)
(* missing value.                                                          *)
PitPanel(mode, field, R, d) ==
    LET F == {r \in R : field \in r.fields}
        At(e) == SnapshotValue(mode, {r \in F : r.announced <= e})
        numbers == {e \in {r.announced : r \in F} : e < d /\ At(e) # {}}
    IN  IF numbers = {} THEN {} ELSE At(Max(numbers))

-----------------------------------------------------------------------------
(* The parts of each measure: a quotient is a number when all of them are  *)
(* (and its denominator is positive: the sign of a value is left out).     *)
Parts ==
    [earnings_yield |-> {<<"ttm", "net_income">>, <<"latest", "shares_outstanding">>},
     book_to_price |-> {<<"latest", "book_value">>, <<"latest", "shares_outstanding">>},
     ebitda_yield |-> {<<"ttm", "ebitda">>, <<"latest", "enterprise_value">>},
     roe |-> {<<"ttm", "net_income">>, <<"average_balance", "book_value">>},
     gross_margin |-> {<<"ttm", "gross_profit">>, <<"ttm", "revenue">>},
     accruals |-> {<<"ttm", "net_income">>, <<"ttm", "operating_cashflow">>,
                   <<"average_balance", "total_assets">>}]

Measured(measure, R, d) ==
    [part \in Parts[measure] |-> PitPanel(part[1], part[2], R, d)]

IsNumber(m) == \A part \in DOMAIN m : m[part] # {}

(* available_mean: over the measures there are, or missing.                *)
AvailableMean(measures, R, d) ==
    {m \in {Measured(measure, R, d) : measure \in measures} : IsNumber(m)}

ValueFactor(R, d) ==
    AvailableMean({"earnings_yield", "book_to_price", "ebitda_yield"}, R, d)

QualityFactor(R, d) == AvailableMean({"roe", "gross_margin", "accruals"}, R, d)

(* point_in_time_merge: the record announced last before the day.  It      *)
(* refuses a frame anywhere in which two records share an announcement     *)
(* date, for every day asked.                                              *)
PointInTimeMerge(R, d) ==
    IF \E r, s \in R : r # s /\ r.announced = s.announced
      THEN Raised
      ELSE {r \in AsOf(R, d) : \A s \in AsOf(R, d) : s.announced <= r.announced}

(* All of a day, computed from a frame that may reach beyond it.           *)
Answer(R, d) ==
    [value |-> ValueFactor(R, d), quality |-> QualityFactor(R, d),
     merged |-> PointInTimeMerge(R, d)]

-----------------------------------------------------------------------------
Init ==
    /\ today = Min(Days)
    /\ reports = {}
    /\ answers = [d \in {today} |-> Answer({}, d)]

(* validate_fundamentals: one row per period and announcement, and none    *)
(* announced before its period ends.                                       *)
Announce ==
    /\ Cardinality(reports) < MaxReports
    /\ \E p \in Days, f \in Coverage :
          /\ p <= today /\ today - p <= MaxLag
          /\ ~\E r \in reports : r.period = p /\ r.announced = today
          /\ reports' = reports \cup {[period |-> p, announced |-> today, fields |-> f]}
    /\ UNCHANGED <<today, answers>>

NextDay ==
    /\ \E d \in Days :
          /\ d > today /\ \A e \in Days : e > today => d <= e
          /\ today' = d
          /\ answers' = [e \in DOMAIN answers \cup {d} |->
                            IF e = d THEN Answer(reports, d) ELSE answers[e]]
    /\ UNCHANGED reports

Next == Announce \/ NextDay

Spec == Init /\ [][Next]_vars

-----------------------------------------------------------------------------
Reports == [period : Days, announced : Days, fields : Coverage]

TypeOK ==
    /\ today \in Days
    /\ reports \subseteq Reports
    /\ DOMAIN answers = {d \in Days : d <= today}

(***************************************************************************)
(* NothingForeseen: what a feature of day d was when day d came is what a  *)
(* backtest computes for d over a frame that holds all that was announced  *)
(* since, late and restated reports among it ("without restatement         *)
(* lookahead").  The merge may only have come to refuse the frame, which   *)
(* one later pair of records of one date makes it do for every day.        *)
(***************************************************************************)
NothingForeseen ==
    \A d \in DOMAIN answers :
        LET then == answers[d]
            now == Answer(reports, d)
        IN  /\ now.value = then.value
            /\ now.quality = then.quality
            /\ now.merged \in {then.merged, Raised}

(***************************************************************************)
(* FlowsAreLatestFour: a trailing-four-quarter flow is made of the four    *)
(* latest announced periods (value.py: "Flow numerators use the latest     *)
(* four announced quarterly reports.").                                    *)
(***************************************************************************)
FlowsAreLatestFour ==
    \A d \in DOMAIN answers :
        \A f \in UNION Coverage :
            LET K == {r \in AsOf(reports, d) : f \in r.fields}
            IN  PitPanel("ttm", f, reports, d) \in {{}, Last(4, Vintages(K))}
=============================================================================
