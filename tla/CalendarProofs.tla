----------------------------- MODULE CalendarProofs -----------------------------
(***************************************************************************)
(* Facts about the calendar, for any length of the week and any months: a  *)
(* day lies in one period of each scope, the periods of a scope follow one *)
(* another, and the last one that is over is the one before the present.   *)
(***************************************************************************)
EXTENDS Calendar, SumProofs

\* The first days of the weeks, and of the periods of a scope.
WeekStarts == {w \in Nat \ {0} : \E k \in Nat : w = k * DaysPerWeek + 1}
Begins(s) ==
  CASE s = "day" -> Nat \ {0}
    [] s = "week" -> WeekStarts
    [] s = "month" -> MonthStarts

\* The days the table of the months knows.
Known == 1..(LastDay + 2 * DaysPerWeek)

--------------------------------------------------------------------------------
(* Weeks                                                                    *)

LEMMA WeekOfDay ==
  ASSUME NEW d \in Nat \ {0}
  PROVE  /\ WeekStart(d) \in WeekStarts
         /\ WeekStart(d) <= d /\ d < WeekStart(d) + DaysPerWeek
<1> DEFINE q == (d - 1) \div DaysPerWeek
           r == (d - 1) % DaysPerWeek
<1>1. DaysPerWeek \in Nat /\ DaysPerWeek > 0 /\ d - 1 \in Nat
  BY CalendarAssumption
<1>2. q \in Nat /\ r \in 0..(DaysPerWeek - 1) /\ d - 1 = q * DaysPerWeek + r
  BY <1>1
<1>3. WeekStart(d) = d - r
  BY DEF WeekStart
<1> HIDE DEF q, r
<1>4. q * DaysPerWeek \in Nat
  BY <1>1, <1>2
<1>5. WeekStart(d) = q * DaysPerWeek + 1
  BY <1>2, <1>3, <1>4
<1> QED
  BY <1>1, <1>2, <1>3, <1>4, <1>5 DEF WeekStarts

\* One week after the other.
LEMMA WeeksApart ==
  ASSUME NEW v \in WeekStarts, NEW w \in WeekStarts, v < w
  PROVE  v + DaysPerWeek <= w
<1>1. DaysPerWeek \in Nat /\ DaysPerWeek > 0
  BY CalendarAssumption
<1>2. PICK k \in Nat : v = k * DaysPerWeek + 1
  BY DEF WeekStarts
<1>3. PICK l \in Nat : w = l * DaysPerWeek + 1
  BY DEF WeekStarts
<1>4. k < l
  <2>1. l <= k => l * DaysPerWeek <= k * DaysPerWeek
    BY <1>1
  <2> QED
    BY <1>1, <1>2, <1>3, <2>1
<1>5. (k + 1) * DaysPerWeek <= l * DaysPerWeek
  BY <1>1, <1>4
<1>6. (k + 1) * DaysPerWeek = k * DaysPerWeek + DaysPerWeek
  BY <1>1
<1>7. k * DaysPerWeek \in Nat /\ l * DaysPerWeek \in Nat
  BY <1>1
<1> QED
  BY <1>1, <1>2, <1>3, <1>5, <1>6, <1>7

\* The weeks before and after a week.
LEMMA WeeksAround ==
  ASSUME NEW w \in WeekStarts
  PROVE  /\ w + DaysPerWeek \in WeekStarts
         /\ w - DaysPerWeek > 0 => w - DaysPerWeek \in WeekStarts
<1>1. DaysPerWeek \in Nat /\ DaysPerWeek > 0
  BY CalendarAssumption
<1>2. PICK k \in Nat : w = k * DaysPerWeek + 1
  BY DEF WeekStarts
<1>3. k * DaysPerWeek \in Nat /\ (k + 1) * DaysPerWeek = k * DaysPerWeek + DaysPerWeek
  BY <1>1
<1>4. w + DaysPerWeek = (k + 1) * DaysPerWeek + 1 /\ w + DaysPerWeek \in Nat \ {0}
  BY <1>1, <1>2, <1>3
<1>5. ASSUME w - DaysPerWeek > 0 PROVE w - DaysPerWeek \in WeekStarts
  <2>1. k # 0
    BY <1>1, <1>2, <1>5
  <2>2. k - 1 \in Nat /\ (k - 1) * DaysPerWeek = k * DaysPerWeek - DaysPerWeek
    BY <1>1, <2>1
  <2>3. w - DaysPerWeek = (k - 1) * DaysPerWeek + 1 /\ w - DaysPerWeek \in Nat \ {0}
    BY <1>1, <1>2, <1>3, <1>5, <2>2
  <2> QED
    BY <2>2, <2>3 DEF WeekStarts
<1> QED
  BY <1>4, <1>5 DEF WeekStarts

--------------------------------------------------------------------------------
(* Months                                                                   *)

LEMMA MonthsAreDays ==
  /\ \A m \in MonthStarts : m \in Nat \ {0}
  /\ \A S \in SUBSET MonthStarts : S \in SUBSET Int /\ S \in SUBSET Nat /\ IsFiniteSet(S)
<1>1. \A m \in MonthStarts : m \in Nat \ {0}
  BY CalendarAssumption
<1>2. ASSUME NEW S \in SUBSET MonthStarts
      PROVE  S \in SUBSET Int /\ S \in SUBSET Nat /\ IsFiniteSet(S)
  <2>1. IsFiniteSet(MonthStarts)
    BY CalendarAssumption
  <2> QED
    BY <1>1, <2>1, FS_Subset
<1> QED
  BY <1>1, <1>2

LEMMA MonthOfDay ==
  ASSUME NEW d \in Known
  PROVE  /\ Month(d) \in MonthStarts /\ Month(d) <= d
         /\ \A m \in MonthStarts : m <= d => m <= Month(d)
<1> DEFINE S == {m \in MonthStarts : m <= d}
<1>1. S \in SUBSET MonthStarts /\ IsFiniteSet(MonthStarts)
  BY CalendarAssumption
<1>2. S \in SUBSET Int /\ 1 \in S
  <2>1. 1 \in MonthStarts /\ 1 <= d
    BY CalendarAssumption DEF Known
  <2> QED
    BY <1>1, <2>1, MonthsAreDays
<1>3. Month(d) = Max(S)
  BY DEF Month, MonthOf, Known
<1> HIDE DEF S
<1>4. IsFiniteSet(S)
  BY <1>1, FS_Subset
<1>5. Max(S) \in S /\ \A m \in S : Max(S) >= m
  BY <1>2, <1>4, MaxIsGreatest
<1> QED
  BY <1>2, <1>3, <1>5 DEF S

LEMMA MonthAfterMonth ==
  ASSUME NEW m \in MonthStarts, m <= LastDay + DaysPerWeek
  PROVE  /\ NextMonth(m) \in MonthStarts /\ NextMonth(m) > m
         /\ \A n \in MonthStarts : n > m => n >= NextMonth(m)
<1> DEFINE S == {n \in MonthStarts : n > m}
<1>1. /\ S \in SUBSET Nat /\ MonthStarts \in SUBSET Int /\ MonthStarts # {}
      /\ IsFiniteSet(MonthStarts)
  <2>1. S \in SUBSET MonthStarts /\ MonthStarts \in SUBSET MonthStarts
    OBVIOUS
  <2>2. MonthStarts # {}
    BY CalendarAssumption
  <2> HIDE DEF S
  <2> QED
    BY <2>1, <2>2, MonthsAreDays
<1>2. PICK n \in MonthStarts : n > m
  <2>1. PICK n \in MonthStarts : n > LastDay + DaysPerWeek
    BY CalendarAssumption
  <2>2. n \in Nat /\ m \in Nat /\ LastDay \in Nat /\ DaysPerWeek \in Nat
    BY CalendarAssumption
  <2> QED
    BY <2>1, <2>2
<1>3. Max(MonthStarts) # m
  <2>1. Max(MonthStarts) \in MonthStarts /\ Max(MonthStarts) >= n
    BY <1>1, MaxIsGreatest
  <2> QED
    BY <1>1, <1>2, <2>1
<1>4. NextMonth(m) = Min(S)
  BY <1>3 DEF NextMonth, MonthAfter
<1> HIDE DEF S
<1>5. Min(S) \in S /\ \A k \in S : Min(S) <= k
  <2>1. S # {}
    BY <1>2 DEF S
  <2> QED
    BY <1>1, <2>1, MinIsLeast
<1> QED
  BY <1>1, <1>4, <1>5 DEF S

LEMMA MonthBeforeMonth ==
  ASSUME NEW m \in MonthStarts
  PROVE  /\ PreviousMonth(m) \in MonthStarts \cup {0} /\ PreviousMonth(m) < m
         /\ \A n \in MonthStarts : n < m => n <= PreviousMonth(m)
<1> DEFINE S == {n \in MonthStarts : n < m} \cup {0}
<1>1. {n \in MonthStarts : n < m} \in SUBSET MonthStarts
  OBVIOUS
<1>2. IsFiniteSet(S)
  <2>1. IsFiniteSet({n \in MonthStarts : n < m})
    BY <1>1, CalendarAssumption, FS_Subset
  <2> QED
    BY <2>1, FS_AddElement
<1>6. S \in SUBSET Int /\ 0 \in S
  BY MonthsAreDays
<1>3. PreviousMonth(m) = Max(S)
  BY DEF PreviousMonth
<1>4. \A n \in S : n < m /\ n \in MonthStarts \cup {0}
  BY CalendarAssumption
<1> HIDE DEF S
<1>5. Max(S) \in S /\ \A n \in S : Max(S) >= n
  BY <1>2, <1>6, MaxIsGreatest
<1> QED
  BY <1>3, <1>4, <1>5 DEF S

--------------------------------------------------------------------------------
(* Periods                                                                  *)

LEMMA BeginsAreDays ==
  ASSUME NEW s \in Scope
  PROVE  Begins(s) \subseteq Nat \ {0}
BY CalendarAssumption DEF Begins, Scope, WeekStarts

\* A day lies in the latest period that has begun.
LEMMA PeriodOfDay ==
  ASSUME NEW s \in Scope, NEW d \in Known
  PROVE  /\ Period(s, d) \in Begins(s) /\ Period(s, d) <= d
         /\ \A p \in Begins(s) : p <= d => p <= Period(s, d)
<1>1. d \in Nat \ {0}
  BY CalendarAssumption DEF Known
<1>2. CASE s = "day"
  BY <1>1, <1>2 DEF Period, Begins
<1>3. CASE s = "week"
  <2>1. WeekStart(d) \in WeekStarts /\ WeekStart(d) <= d /\ d < WeekStart(d) + DaysPerWeek
    BY <1>1, WeekOfDay
  <2>2. ASSUME NEW p \in WeekStarts, p <= d PROVE p <= WeekStart(d)
    <3>1. p > WeekStart(d) => WeekStart(d) + DaysPerWeek <= p
      BY <2>1, WeeksApart
    <3>2. p \in Nat /\ WeekStart(d) \in Nat /\ DaysPerWeek \in Nat
      BY <2>1, CalendarAssumption DEF WeekStarts
    <3> QED
      BY <1>1, <2>1, <2>2, <3>1, <3>2
  <2> QED
    BY <1>3, <2>1, <2>2 DEF Period, Begins
<1>4. CASE s = "month"
  BY <1>4, MonthOfDay DEF Period, Begins
<1> QED
  BY <1>2, <1>3, <1>4 DEF Scope

\* The first day of a period lies in it.
LEMMA PeriodOfFirst ==
  ASSUME NEW s \in Scope, NEW p \in Begins(s), p \in Known
  PROVE  Period(s, p) = p
BY PeriodOfDay, BeginsAreDays

\* The next period is the first one after it.
LEMMA PeriodAfter ==
  ASSUME NEW s \in Scope, NEW p \in Begins(s), p <= LastDay + DaysPerWeek
  PROVE  /\ NextPeriod(s, p) \in Begins(s) /\ NextPeriod(s, p) > p
         /\ \A q \in Begins(s) : q > p => q >= NextPeriod(s, p)
<1>1. CASE s = "day"
  BY <1>1 DEF NextPeriod, Begins
<1>2. CASE s = "week"
  <2>1. p \in WeekStarts /\ p \in Nat /\ DaysPerWeek \in Nat \ {0}
    BY <1>2, CalendarAssumption DEF Begins, WeekStarts
  <2>2. p + DaysPerWeek \in WeekStarts /\ p + DaysPerWeek > p
    BY <2>1, WeeksAround
  <2>3. \A q \in WeekStarts : q > p => q >= p + DaysPerWeek
    BY <2>1, WeeksApart DEF WeekStarts
  <2> QED
    BY <1>2, <2>2, <2>3 DEF NextPeriod, Begins
<1>3. CASE s = "month"
  BY <1>3, MonthAfterMonth DEF NextPeriod, Begins
<1> QED
  BY <1>1, <1>2, <1>3 DEF Scope

\* The periods up to the last one that is over are those before the present.
LEMMA PeriodBefore ==
  ASSUME NEW s \in Scope, NEW d \in 1..LastDay
  PROVE  /\ LastOver(s, d) \in Int /\ LastOver(s, d) < Period(s, d)
         /\ LastOver(s, d) > 0 => LastOver(s, d) \in Begins(s)
         /\ \A p \in Begins(s) : p < Period(s, d) => p <= LastOver(s, d)
<1>1. d \in Known /\ d \in Nat \ {0}
  BY CalendarAssumption DEF Known
<1>2. CASE s = "day"
  BY <1>1, <1>2 DEF LastOver, Period, Begins
<1>3. CASE s = "week"
  <2>1. WeekStart(d) \in WeekStarts /\ WeekStart(d) \in Nat /\ DaysPerWeek \in Nat \ {0}
    BY <1>1, WeekOfDay, CalendarAssumption DEF WeekStarts
  <2>2. WeekStart(d) - DaysPerWeek > 0 => WeekStart(d) - DaysPerWeek \in WeekStarts
    BY <2>1, WeeksAround
  <2>3. ASSUME NEW p \in WeekStarts, p < WeekStart(d) PROVE p <= WeekStart(d) - DaysPerWeek
    <3>1. p + DaysPerWeek <= WeekStart(d)
      BY <2>1, <2>3, WeeksApart
    <3>2. p \in Nat
      BY DEF WeekStarts
    <3> QED
      BY <2>1, <3>1, <3>2
  <2>4. WeekStart(d) - DaysPerWeek \in Int /\ WeekStart(d) - DaysPerWeek < WeekStart(d)
    BY <2>1
  <2> QED
    BY <1>3, <2>2, <2>3, <2>4 DEF LastOver, Period, Begins
<1>4. CASE s = "month"
  <2>1. Month(d) \in MonthStarts
    BY <1>1, MonthOfDay
  <2>2. /\ PreviousMonth(Month(d)) \in MonthStarts \cup {0}
        /\ PreviousMonth(Month(d)) < Month(d)
        /\ \A n \in MonthStarts : n < Month(d) => n <= PreviousMonth(Month(d))
    BY <2>1, MonthBeforeMonth
  <2>3. PreviousMonth(Month(d)) \in Int
    BY <2>2, MonthsAreDays
  <2> QED
    BY <1>4, <2>2, <2>3 DEF LastOver, Period, Begins
<1> QED
  BY <1>2, <1>3, <1>4 DEF Scope

\* A period is over when the next one has begun.
LEMMA OverIsBefore ==
  ASSUME NEW s \in Scope, NEW d \in 1..LastDay, NEW p \in Begins(s)
  PROVE  /\ p <= LastOver(s, d) <=> p < Period(s, d)
         /\ p <= LastOver(s, d) => p < d /\ NextPeriod(s, p) <= d
         /\ p <= d /\ NextPeriod(s, p) <= d => p <= LastOver(s, d)
<1>1. d \in Known /\ d \in Nat /\ p \in Nat /\ LastDay \in Nat /\ DaysPerWeek \in Nat
  BY BeginsAreDays, CalendarAssumption DEF Known
<1>2. /\ Period(s, d) \in Begins(s) /\ Period(s, d) <= d /\ Period(s, d) \in Nat
      /\ \A q \in Begins(s) : q <= d => q <= Period(s, d)
  BY <1>1, PeriodOfDay, BeginsAreDays
<1>3. p <= LastOver(s, d) <=> p < Period(s, d)
  BY <1>1, <1>2, PeriodBefore
<1>4. ASSUME p <= d
      PROVE  /\ NextPeriod(s, p) \in Begins(s) /\ NextPeriod(s, p) > p
             /\ \A q \in Begins(s) : q > p => q >= NextPeriod(s, p)
             /\ NextPeriod(s, p) \in Nat
  BY <1>1, <1>4, PeriodAfter, BeginsAreDays
<1>5. p < Period(s, d) => p < d /\ NextPeriod(s, p) <= d
  BY <1>1, <1>2, <1>4
<1>6. p <= d /\ NextPeriod(s, p) <= d => p < Period(s, d)
  BY <1>1, <1>2, <1>4
<1> QED
  BY <1>3, <1>5, <1>6

\* As time goes by, more periods are over.
LEMMA OverStays ==
  ASSUME NEW s \in Scope, NEW d \in 1..LastDay, NEW e \in 1..LastDay, d <= e
  PROVE  Period(s, d) <= Period(s, e)
<1>1. d \in Known /\ e \in Known
  BY CalendarAssumption DEF Known
<1>2. Period(s, d) \in Begins(s) /\ Period(s, d) <= d /\ Period(s, d) \in Nat
  BY <1>1, PeriodOfDay, BeginsAreDays
<1> QED
  BY <1>1, <1>2, PeriodOfDay

\* The month a day or a week is charged to.
LEMMA MonthCharged ==
  ASSUME NEW s \in {"day", "week"}, NEW p \in Nat \ {0}, p <= LastDay
  PROVE  ChargedMonth(s, p) \in MonthStarts
<1>1. p \in Known /\ p + DaysPerWeek - 1 \in Known
  BY CalendarAssumption DEF Known
<1> QED
  BY <1>1, MonthOfDay DEF ChargedMonth
================================================================================
