------------------------------ MODULE Calendar -------------------------------
(***************************************************************************)
(* The days on which the paper cycle may trade, and on which prices: the   *)
(* offline exchange calendar (data/processors/calendar.py), and the panel  *)
(* of live prices that scripts/paper_trade_cycle.py accepts.  A provider   *)
(* has the bar of a session some time after its open, it may lag, and an   *)
(* operator may run the cycle at any hour of any day.  A day is its        *)
(* proleptic ordinal; day 1 is a Monday.                                   *)
(***************************************************************************)
EXTENDS Integers, FiniteSets, FiniteSetsExt

CONSTANTS
    Starts, \* the dates on which a behaviour may start: year, month, day
    Ahead   \* bound: days it goes on for

VARIABLES
    start,     \* the day the behaviour started
    today,     \* the day in New York
    finalized, \* the hour is at or past LIVE_BAR_FINALIZATION_HOUR_ET
    feed,      \* the last session of which the provider has a bar
    accepted   \* history: the last panel accepted, and the decision taken

vars == <<start, today, finalized, feed, accepted>>

-----------------------------------------------------------------------------
(* datetime.date.                                                          *)
Leap(y) == y % 4 = 0 /\ (y % 100 # 0 \/ y % 400 = 0)

MonthLength(y, m) ==
    IF m = 2 THEN IF Leap(y) THEN 29 ELSE 28 ELSE IF m \in {4, 6, 9, 11} THEN 30 ELSE 31

Date(y, m, d) ==
    365 * (y - 1) + ((y - 1) \div 4) - ((y - 1) \div 100) + ((y - 1) \div 400)
    + MapThenSumSet(LAMBDA k : MonthLength(y, k), 1..m - 1) + d

YearOf(day) ==
    LET guess == (day \div 366) + 1
    IN  CHOOSE y \in guess..guess + 6 : Date(y, 1, 1) <= day /\ day < Date(y + 1, 1, 1)

Monday == 0
Thursday == 3
Saturday == 5
Sunday == 6
Weekday(day) == (day + 6) % 7

(* _easter: the anonymous algorithm, April counted as days of March.       *)
Easter(year) ==
    LET a == year % 19
        b == year \div 100
        c == year % 100
        g == (b - ((b + 8) \div 25) + 1) \div 3
        h == (19 * a + b - (b \div 4) - g + 15) % 30
        l == (32 + 2 * (b % 4) + 2 * (c \div 4) - h - (c % 4)) % 7
        m == (a + 11 * h + 22 * l) \div 451
    IN  Date(year, 3, h + l - 7 * m + 22)

OnOrAfter(day, weekday) == day + ((weekday - Weekday(day)) % 7)

NthWeekday(year, month, weekday, n) ==
    OnOrAfter(Date(year, month, 1), weekday) + 7 * (n - 1)

LastWeekday(year, month, weekday) ==
    OnOrAfter(Date(year, month, MonthLength(year, month)) - 6, weekday)

(* _observed: on the nearest weekday.                                      *)
Observed(day) ==
    IF Weekday(day) = Saturday THEN day - 1
    ELSE IF Weekday(day) = Sunday THEN day + 1 ELSE day

(* A first of January on a Saturday is not observed.                       *)
NewYears(year) ==
    {Observed(day) : day \in {day \in {Date(year, 1, 1)} : Weekday(day) # Saturday}}

(* _us_market_holidays.                                                    *)
UsMarketHolidays(year) ==
    NewYears(year)
    \cup (IF year >= 1998 THEN {NthWeekday(year, 1, Monday, 3)} ELSE {})
    \cup {NthWeekday(year, 2, Monday, 3), Easter(year) - 2, LastWeekday(year, 5, Monday)}
    \cup (IF year >= 2022 THEN {Observed(Date(year, 6, 19))} ELSE {})
    \cup {Observed(Date(year, 7, 4)), NthWeekday(year, 9, Monday, 1),
          NthWeekday(year, 11, Thursday, 4), Observed(Date(year, 12, 25))}

HolidaysInRange(first, last) ==
    UNION {UsMarketHolidays(year) : year \in YearOf(first) - 1..YearOf(last) + 1}

Sessions(first, last) ==
    IF first > last THEN {}
    ELSE {day \in first..last : Weekday(day) < Saturday} \ HolidaysInRange(first, last)

IsTradingDay(day) == Weekday(day) < Saturday /\ day \notin HolidaysInRange(day, day)

(* next_session and previous_session probe windows of a month.             *)
FirstOpen(windows) ==
    windows[CHOOSE k \in 0..23 : windows[k] # {} /\ \A j \in 0..k - 1 : windows[j] = {}]

NextSession(day) ==
    Min(FirstOpen([k \in 0..23 |-> Sessions(day + 1 + 31 * k, day + 31 * (k + 1))]))

PreviousSession(day) ==
    Max(FirstOpen([k \in 0..23 |-> Sessions(day - 31 * (k + 1), day - 1 - 31 * k)]))

SessionsBetween(a, b) ==
    (IF a <= b THEN 1 ELSE -1) * Cardinality(Sessions(Min({a, b}), Max({a, b})))

(* Periods W-FRI, which start on Saturdays.                                *)
Week(day) == (day + 1) \div 7

FirstSessionEachWeek(sessions) ==
    {d \in sessions : ~\E e \in sessions : e < d /\ Week(e) = Week(d)}

-----------------------------------------------------------------------------
(* The session whose bar a live panel must end with.                       *)
Expected ==
    IF IsTradingDay(today) /\ finalized THEN today ELSE PreviousSession(today)

(* The panel is long enough to hold some weeks.                            *)
PanelDays == 21
Panel == Sessions(feed - PanelDays, feed)

(* validate_live_price_matrix.                                             *)
Accepts == feed = Expected

(* latest_target: the last weekly decision of the panel.                   *)
LatestDecision(panel) == Max(FirstSessionEachWeek(panel))

Init ==
    /\ start \in {Date(date[1], date[2], date[3]) : date \in Starts}
    /\ today = start
    /\ finalized = FALSE
    /\ feed = PreviousSession(start)
    /\ accepted = {}

(* Time passes.                                                            *)
Finalize ==
    /\ ~finalized
    /\ finalized' = TRUE
    /\ UNCHANGED <<start, today, feed, accepted>>

Midnight ==
    /\ finalized /\ today < start + Ahead
    /\ today' = today + 1
    /\ finalized' = FALSE
    /\ UNCHANGED <<start, feed, accepted>>

(* The provider adds the next bar, at the earliest on its day.             *)
AddBar ==
    /\ NextSession(feed) <= today
    /\ feed' = NextSession(feed)
    /\ UNCHANGED <<start, today, finalized, accepted>>

(* load_prices and latest_target of one invocation; a panel that is not    *)
(* accepted ends it.                                                       *)
Run ==
    /\ Accepts
    /\ accepted' = {[day |-> today, closed |-> finalized, last |-> feed,
                   decision |-> LatestDecision(Panel)]}
    /\ UNCHANGED <<start, today, finalized, feed>>

Next == Finalize \/ Midnight \/ AddBar \/ Run

Spec == Init /\ [][Next]_vars

-----------------------------------------------------------------------------
TypeOK ==
    /\ today \in start..start + Ahead
    /\ finalized \in BOOLEAN
    /\ feed \in Nat /\ feed <= today
    /\ \A r \in accepted : IsTradingDay(r.last) /\ IsTradingDay(r.decision)

(* The first Sunday after the full moon of the church, which comes 14 days *)
(* after the new moon that the epact of the year puts on or after March 8. *)
EasterBySunAndMoon(year) ==
    LET golden == (year % 19) + 1
        century == (year \div 100) + 1
        sun == ((3 * century) \div 4) - 12
        moon == ((8 * century + 5) \div 25) - 5
        epact == (11 * golden + 20 + moon - sun) % 30
        raised == IF epact = 24 \/ (epact = 25 /\ golden > 11) THEN epact + 1 ELSE epact
        full == IF 44 - raised < 21 THEN 74 - raised ELSE 44 - raised
        Sundays == {d \in 1..7 : Weekday(Date(year, 3, 1) - 1 + full + d) = Sunday}
    IN  Date(year, 3, 1) - 1 + full + Min(Sundays)

(* The calendar of a year: Easter is where the tables have it, no holiday  *)
(* falls on a weekend or on another, no week loses two sessions, and the   *)
(* ways of asking for sessions agree, also across the end of the year.     *)
CalendarFits(year) ==
    LET holidays == UsMarketHolidays(year)
        first == Date(year, 1, 1)
        last == Date(year + 1, 1, 1) - 1
        sessions == Sessions(first, last)
    IN  /\ Easter(year) = EasterBySunAndMoon(year)
        /\ \A h \in holidays : Weekday(h) < Saturday
        /\ Cardinality(holidays) =
              8 + (IF year >= 1998 THEN 1 ELSE 0) + (IF year >= 2022 THEN 1 ELSE 0)
                - (IF Weekday(first) = Saturday THEN 1 ELSE 0)
        /\ \A g, h \in holidays : Week(g) = Week(h) => g = h
        /\ \A day \in last - 10..last + 10 :
              /\ IsTradingDay(day) = (day \in Sessions(last - 10, last + 10))
              /\ IsTradingDay(day) => PreviousSession(NextSession(day)) = day
        /\ SessionsBetween(first, last) = Cardinality(sessions)
        /\ SessionsBetween(last, first) = -Cardinality(sessions)

(* What the docstring of validate_live_price_matrix asks for, whoever runs *)
(* the cycle when and however late the provider is: prices of the latest   *)
(* session that is over, and all invocations of a week act on one decision, *)
(* the one that a study of the whole history makes for that week.  And the *)
(* calendar of the years around the first day is one.                      *)
ActsOnFinalSessions ==
    /\ finalized /\ today = start =>
          \A year \in YearOf(start) - 3..YearOf(start) + 3 : CalendarFits(year)
    /\ \A r \in accepted :
          /\ r.last < r.day \/ r.closed
          /\ \A d \in r.last + 1..r.day :
                IsTradingDay(d) => d = r.day /\ ~r.closed
          /\ r.decision =
                Min({d \in Sessions(start - PanelDays, start + Ahead) : Week(d) = Week(r.last)})
=============================================================================
