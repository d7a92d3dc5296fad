------------------------------- MODULE Periods -------------------------------
(***************************************************************************)
(* The calendar periods a report is read over (pkg/reporting/period.go)    *)
(* and the window the API makes of one (internal/server/api/reports.go).   *)
(*                                                                         *)
(* A date is a day, counted from day 0 = Monday, January 1st of Year0, and *)
(* an instant is the number of half days since then, so that 2 * d is the  *)
(* midnight day d begins with and 2 * d + 1 its noon: a period never cuts  *)
(* finer, in a location whose offset does not change (RFC 3339 has no      *)
(* other).                                                                 *)
(***************************************************************************)
EXTENDS Integers

Year0 == 2024   \* a leap year that began on a Monday

Kinds == {"day", "week", "month", "quarter", "year"}

-----------------------------------------------------------------------------
(* Package time: dates, and time.Date, which takes months past December    *)
(* and days past the month's or before its first.                          *)

IsLeap(y) == y % 4 = 0 /\ (y % 100 # 0 \/ y % 400 = 0)

(* Days of a common year before its month m. *)
BeforeMonth == <<0, 31, 59, 90, 120, 151, 181, 212, 243, 273, 304, 334>>

(* Leap years before y. *)
LeapsBefore(y) == ((y - 1) \div 4) - ((y - 1) \div 100) + ((y - 1) \div 400)

DateIn(y, m, d) ==
  365 * (y - Year0) + LeapsBefore(y) - LeapsBefore(Year0)
    + BeforeMonth[m] + (IF m > 2 /\ IsLeap(y) THEN 1 ELSE 0) + d - 1

Date(y, m, d) == DateIn(y + ((m - 1) \div 12), ((m - 1) % 12) + 1, d)

YearOf(day)  == CHOOSE y \in Year0 + (day \div 365) - 2 .. Year0 + (day \div 365) + 1 :
                  Date(y, 1, 1) <= day /\ day < Date(y + 1, 1, 1)
MonthOf(day) ==
  LET y == YearOf(day) IN CHOOSE m \in 1 .. 12 : Date(y, m, 1) <= day /\ day < Date(y, m + 1, 1)
DayOf(day)   == day - Date(YearOf(day), MonthOf(day), 1) + 1

(* Sunday is 0. *)
Weekday(day) == (day + 1) % 7

-----------------------------------------------------------------------------
(* period.go *)

(* Mutant of DaysSinceMonday: as Sunday was the first day of the week. *)
DaysSinceSunday(wd) == wd

DaysSinceMonday(wd) == (wd + 6) % 7

Between(kind, from, to) == [kind |-> kind, start |-> 2 * from, end |-> 2 * to]

PeriodAt(kind, t) ==
  LET day    == t \div 2
      y      == YearOf(day)
      m      == MonthOf(day)
      d      == DayOf(day)
      monday == d - DaysSinceMonday(Weekday(day))
      qm     == ((m - 1) \div 3) * 3 + 1
  IN CASE kind = "week"    -> Between(kind, Date(y, m, monday), Date(y, m, monday + 7))
       [] kind = "month"   -> Between(kind, Date(y, m, 1), Date(y, m + 1, 1))
       [] kind = "quarter" -> Between(kind, Date(y, qm, 1), Date(y, qm + 3, 1))
       [] kind = "year"    -> Between(kind, Date(y, 1, 1), Date(y + 1, 1, 1))
       [] OTHER            -> Between("day", Date(y, m, d), Date(y, m, d + 1))

In(p, t) == p.start <= t /\ t < p.end

(* A nanosecond before the start is in the half day before it. *)
Previous(p) == PeriodAt(p.kind, p.start - 1)

Following(p) == PeriodAt(p.kind, p.end)

-----------------------------------------------------------------------------
(* What the API asks the store for. *)

(* Of instances: produced_at >= From and < Until. *)
InstanceWindow(p, t) == p.start <= t /\ t < p.end

(* Of events the query has at > Since and < Until, for a since that is     *)
(* none (-1) or given; the period narrows it, by a nanosecond before its   *)
(* start, which is before every instant of the period and not before any   *)
(* other.                                                                  *)
EventWindow(p, since, t) ==
  LET bounded == since = -1 \/ since < p.start
  IN (IF bounded THEN t >= p.start ELSE t > since) /\ t < p.end

-----------------------------------------------------------------------------
(* The periods of a kind tile the calendar: every instant is in the one    *)
(* made for it, the neighbours are the next and the previous one and touch *)
(* it, and every instant of a period gives that period.                    *)
Tile(t) ==
  \A p \in {PeriodAt(kind, t) : kind \in Kinds} :
    /\ In(p, t)
    /\ \A next \in {Following(p)} : next.start = p.end /\ next # p
    /\ \A before \in {Previous(p)} : before.end = p.start /\ Following(before) = p
    /\ \A u \in {p.start, p.end - 1} : PeriodAt(p.kind, u) = p

(* The shorter are parts of the longer: a day of its week, month, quarter  *)
(* and year, a month of its quarter, a quarter of its year; a week has     *)
(* seven days and begins on a Monday.                                      *)
Nest(t) ==
  \A at \in {[kind \in Kinds |-> PeriodAt(kind, t)]} :
    LET Part(a, b) == at[b].start <= at[a].start /\ at[a].end <= at[b].end
    IN /\ Part("day", "week") /\ Part("day", "month") /\ Part("month", "quarter")
       /\ Part("quarter", "year")
       /\ at["week"].end - at["week"].start = 14 /\ Weekday(at["week"].start \div 2) = 1

(* Instances and events are read over the same instants, and a since       *)
(* inside the period narrows the events while one before it does not.      *)
SameWindow(t) ==
  \A p \in {PeriodAt(kind, t) : kind \in Kinds} :
  \A u \in {p.start - 1, p.start, t, p.end - 1, p.end} :
    /\ EventWindow(p, -1, u) <=> InstanceWindow(p, u)
    /\ EventWindow(p, p.start - 1, u) <=> InstanceWindow(p, u)
    /\ EventWindow(p, t, u) <=> InstanceWindow(p, u) /\ u > t
=============================================================================
