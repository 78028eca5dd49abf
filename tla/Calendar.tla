------------------------------- MODULE Calendar -------------------------------
(***************************************************************************)
(* The calendar the closing works on: days are numbered from 1, day 1 is a *)
(* Monday, and a period (a day, a week, a month) is named by its first     *)
(* day.  The length of a week and the first days of the months are         *)
(* parameters, so that small calendars have weeks that straddle two months.*)
(***************************************************************************)
EXTENDS FiniteSetsExt

CONSTANTS
  DaysPerWeek,   \* 7 in the code
  MonthStarts,   \* the first days of the months
  LastDay        \* bound: the last day that is today

Scope == {"day", "week", "month"}

ASSUME CalendarAssumption ==
  /\ DaysPerWeek \in Nat \ {0}
  /\ LastDay \in Nat \ {0}
  /\ MonthStarts \subseteq Nat \ {0}
  /\ IsFiniteSet(MonthStarts)
  /\ 1 \in MonthStarts
  /\ \E m \in MonthStarts : m > LastDay + DaysPerWeek

\* startOfWeek: the Monday of the week of day d.
WeekStart(d) == d - ((d - 1) % DaysPerWeek)

\* monthKeyFromTime and monthStartFromKey: the first day of the month of d, in
\* a table up to the end of the calendar.
MonthOf ==
  [d \in 1..(LastDay + 2 * DaysPerWeek) |-> Max({m \in MonthStarts : m <= d})]
Month(d) == MonthOf[d]

MonthAfter ==
  [m \in MonthStarts \ {Max(MonthStarts)} |-> Min({n \in MonthStarts : n > m})]
NextMonth(m) == MonthAfter[m]
PreviousMonth(m) == Max({n \in MonthStarts : n < m} \cup {0})

\* The period of a scope that contains day d, and the one after period p.
Period(scope, d) ==
  CASE scope = "day" -> d
    [] scope = "week" -> WeekStart(d)
    [] scope = "month" -> Month(d)

NextPeriod(scope, p) ==
  CASE scope = "day" -> p + 1
    [] scope = "week" -> p + DaysPerWeek
    [] scope = "month" -> NextMonth(p)

\* Mutant: the month of d counts as over.
LastOverTooEarly(scope, d) ==
  CASE scope = "day" -> d - 1
    [] scope = "week" -> WeekStart(d) - DaysPerWeek
    [] scope = "month" -> Month(d)

\* The last period of a scope that is over on day d.
LastOver(scope, d) ==
  CASE scope = "day" -> d - 1
    [] scope = "week" -> WeekStart(d) - DaysPerWeek
    [] scope = "month" -> PreviousMonth(Month(d))

\* Mutant: a week is charged to the month of its first day.
ChargedToFirstDay(scope, p) == Month(p)

\* The month a day or a week is charged to: for a week, that of its last day.
ChargedMonth(scope, p) ==
  IF scope = "week" THEN Month(p + DaysPerWeek - 1) ELSE Month(p)
================================================================================
