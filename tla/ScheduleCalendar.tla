--------------------------- MODULE ScheduleCalendar ---------------------------
(***************************************************************************)
(* The calendar behind the slots of ScheduleDispatch: what                 *)
(* ScheduleCalculator answers for daily, weekly and monthly expressions,   *)
(* and the occurrences of an expression as its format defines them.        *)
(*                                                                         *)
(* An instant is counted in ticks from midnight of the first day of the    *)
(* first month; a day has Ticks of them, and an expression names one.      *)
(* The program passes no time zone: every day has the same length.         *)
(***************************************************************************)
EXTENDS ScheduleDispatch, FiniteSetsExt

CONSTANTS
  Months,        \* bound: the lengths of the months looked at
  FirstWeekday,  \* the weekday of the first day, 1 for Monday
  Ticks,         \* bound: the times of a day that are told apart
  Expression     \* expressions: a type, the days or dates, and a time of day

ASSUME CalendarAssumption ==
  /\ Months \in Seq(28 .. 31) /\ Months # <<>>
  /\ FirstWeekday \in 1 .. 7
  /\ Ticks \in Nat \ {0}
  /\ Expression \subseteq [type: {"daily", "weekly", "monthly"}, on: SUBSET (1 .. 31),
                           at: 0 .. Ticks - 1]

\* The day before the first of month m, and the days of all months.
DaysBefore[m \in 1 .. Len(Months) + 1] ==
  IF m = 1 THEN 0 ELSE DaysBefore[m - 1] + Months[m - 1]
Day == 0 .. DaysBefore[Len(Months) + 1] - 1
Moment == 0 .. Ticks * (Max(Day) + 1) - 1

DayOf(x) == x \div Ticks
MonthOf(day) == CHOOSE m \in DOMAIN Months : day \in DaysBefore[m] .. DaysBefore[m + 1] - 1
DateOf(day) == day - DaysBefore[MonthOf(day)] + 1
Weekday(day) == ((FirstWeekday - 1 + day) % 7) + 1
Clock(day, at) == day * Ticks + at

\* The reference: the instants an expression names.
Occurs(e, x) ==
  /\ x % Ticks = e.at
  /\ \/ e.type = "daily"
     \/ e.type = "weekly" /\ Weekday(DayOf(x)) \in e.on
     \/ e.type = "monthly" /\ DateOf(DayOf(x)) \in e.on
Occurrences == [e \in Expression |-> {x \in Moment : Occurs(e, x)}]

\* The months go on for longer than the clock.
ASSUME HorizonAssumption == \A e \in Expression : Cardinality(Occurrences[e]) > MaxTime

SlotOf == [e \in Expression |->
            [x \in Moment |-> Cardinality({y \in Occurrences[e] : y <= x})]]

-----------------------------------------------------------------------------
(* The calculators.                                                         *)

\* Faulty variant: an occurrence that is due now is the next one.
NextDailyOrNow(e, from) ==
  LET today == Clock(DayOf(from), e.at) IN IF today < from THEN today + Ticks ELSE today

\* _calculate_daily: today's time, or tomorrow's if that is not in the future.
NextDaily(e, from) ==
  LET today == Clock(DayOf(from), e.at) IN IF today <= from THEN today + Ticks ELSE today

\* _calculate_weekly: the first of the eight days from today on that is one of the
\* days named; today only if its time is in the future.
NextWeekly(e, from) ==
  LET target(ahead) == Clock(DayOf(from) + ahead, e.at)
      fits(ahead) == /\ Weekday(DayOf(from) + ahead) \in e.on
                     /\ ahead > 0 \/ target(ahead) > from
  IN target(Min({ahead \in 0 .. 7 : fits(ahead)}))

\* _calculate_monthly: the first date named, in this month or the next that has one,
\* whose time is in the future; a month without that date is passed over.
NextMonthly(e, from) ==
  LET targets(m) == {Clock(DaysBefore[m] + date - 1, e.at) : date \in e.on \cap (1 .. Months[m])}
      later(m) == {target \in targets(m) : target > from}
      month == Min({m \in MonthOf(DayOf(from)) .. Len(Months) : later(m) # {}})
  IN Min(later(month))

\* calculate_next_run.
NextRun(e, from) ==
  CASE e.type = "daily" -> NextDaily(e, from)
    [] e.type = "weekly" -> NextWeekly(e, from)
    [] e.type = "monthly" -> NextMonthly(e, from)

-----------------------------------------------------------------------------
\* While slot k is the last that has come, the calculator answers slot k + 1.
Answered == [k \in 0 .. MaxTime |->
  \A e \in Expression : \A x \in Moment :
    SlotOf[e][x] = k =>
      LET next == NextRun(e, x)
      IN next \in Occurrences[e] /\ SlotOf[e][next] = k + 1]

\* Time may be counted in occurrences: whenever the clock shows a slot, be it at its
\* very instant or long after, at the end of a week, of a year's shortest month or in
\* a month without that date, the calculators answer the slot that follows it and
\* skip none (schedule_calculator.py, as complete_scheduled_run calls it).
SlotsAreOccurrences == Answered[clock]
=============================================================================
