------------------------------- MODULE TotalsProofs -------------------------------
(***************************************************************************)
(* Proofs about what Closing charges and Overview shows of it, for any     *)
(* calendar, tasks, rules, jobs and viewers: months closed in the order of *)
(* README.md:69 are complete, the totals and the rules recorded are what   *)
(* the runs pay for, and the status of a month explains them.              *)
(***************************************************************************)
EXTENDS ClosingProofs

\* All days and weeks of month m since the first task have a run.
Complete(m) ==
  /\ Seeded
  /\ \A s \in Evaluated : \A p \in PeriodsOf(s, m) : p >= Period(s, Seed) => <<s, p>> \in runs

\* A job closes months that are complete, and works on one that is open.
InOrder(j) ==
  /\ step[j] # "idle" /\ scope[j] = "month"
       => \A m \in MonthStarts : m <= end[j] => Complete(m)
  /\ Ensured(j) => ~MonthClosed(MonthOfJob(j))

\* What holds in the order of README.md:69.
OrderInv ==
  /\ \A i, j \in Job : i # j => step[i] = "idle" \/ step[j] = "idle"
  /\ \A m \in MonthStarts : MonthClosed(m) => Complete(m)
  /\ \A j \in Job : InOrder(j)

--------------------------------------------------------------------------------
(* The days and the weeks of a month                                        *)

LEMMA PeriodsOfMonths ==
  ASSUME NEW s \in Evaluated, NEW m \in MonthStarts
  PROVE  /\ PeriodsOf(s, m) = {p \in {Period(s, d) : d \in Day} : ChargedMonth(s, p) = m}
         /\ PeriodsOf(s, m) \in SUBSET Nat /\ IsFiniteSet(PeriodsOf(s, m))
         /\ \A p \in PeriodsOf(s, m) : p \in Begins(s) /\ p \in Day /\ ChargedMonth(s, p) = m
         /\ \A p \in Begins(s) : p <= LastDay /\ ChargedMonth(s, p) = m => p \in PeriodsOf(s, m)
<1>1. s \in Scope /\ s # "month"
  BY DEF Evaluated, Scope
<1>2. \A p : ChargedMonth(s, p) = Month(LastDayOf(s, p))
  <2>1. s = "day" \/ s = "week"
    BY DEF Evaluated
  <2> QED
    BY <2>1 DEF ChargedMonth, LastDayOf
<1> DEFINE S == {Period(s, d) : d \in Day}
<1>3. PeriodsOf(s, m) = {p \in S : ChargedMonth(s, p) = m}
  BY <1>2 DEF PeriodsOf, PeriodsOfMonth
<1>4. \A d \in Day : Period(s, d) \in Begins(s) /\ Period(s, d) \in Day
  BY <1>1, Days, PeriodOfDay, BeginsAreDays DEF Day
<1>5. \A p \in S : p \in Begins(s) /\ p \in Day
  BY <1>4
<1>6. \A p \in Begins(s) : p <= LastDay => p \in S
  BY <1>1, Days, PeriodOfFirst, BeginsAreDays DEF Day
<1>7. IsFiniteSet(Day) /\ \A p \in Day : p \in Nat
  BY Days, FS_Interval DEF Day
<1> HIDE DEF S
<1>8. IsFiniteSet(PeriodsOf(s, m))
  BY <1>3, <1>5, <1>7, FS_Subset
<1>9. PeriodsOf(s, m) = {p \in {Period(s, d) : d \in Day} : ChargedMonth(s, p) = m}
  BY <1>3 DEF S
<1> QED
  BY <1>3, <1>5, <1>6, <1>7, <1>8, <1>9

\* The days and weeks of a month that is over are over.
LEMMA PeriodsOfPastMonths ==
  ASSUME today \in Day, NEW s \in Evaluated, NEW m \in MonthStarts,
         m <= LastOver("month", today), NEW p \in PeriodsOf(s, m)
  PROVE  p <= LastOver(s, today)
<1> DEFINE last == LastDayOf(s, p)
<1>1. s \in Scope /\ p \in Begins(s) /\ p \in Day /\ ChargedMonth(s, p) = m
  BY PeriodsOfMonths DEF Evaluated, Scope
<1>2. last \in Known /\ p <= last /\ NextPeriod(s, p) = last + 1 /\ last \in Nat /\ Month(last) = m
  <2>1. s = "day" \/ s = "week"
    BY DEF Evaluated
  <2>2. CASE s = "day"
    BY <1>1, <2>2, Days DEF LastDayOf, NextPeriod, ChargedMonth, Known, Day
  <2>3. CASE s = "week"
    BY <1>1, <2>3, Days DEF LastDayOf, NextPeriod, ChargedMonth, Known, Day
  <2> QED
    BY <2>1, <2>2, <2>3
<1> HIDE DEF last
<1>3. m \in Begins("month") /\ NextPeriod("month", m) = NextMonth(m) /\ m \in Nat
  BY MonthsAreDays DEF Begins, NextPeriod
<1>4. NextMonth(m) <= today /\ m < today
  <2>1. "month" \in Scope /\ today \in 1..LastDay
    BY DEF Scope, Day
  <2> QED
    BY <1>3, <2>1, OverIsBefore
<1>5. NextMonth(m) \in MonthStarts /\ NextMonth(m) > m /\ NextMonth(m) \in Nat
  <2>1. m <= LastDay + DaysPerWeek
    BY <1>3, <1>4, Days DEF Day
  <2> QED
    BY <2>1, MonthAfterMonth, MonthsAreDays
<1>6. last < NextMonth(m)
  BY <1>2, <1>3, <1>5, MonthOfDay
<1>7. p <= today /\ NextPeriod(s, p) <= today
  BY <1>1, <1>2, <1>4, <1>5, <1>6, Days
<1> QED
  BY <1>1, <1>7, OverIsBefore DEF Day

--------------------------------------------------------------------------------
(* The order of the closings                                                *)

LEMMA CompleteStays ==
  ASSUME Seeded => Seeded' /\ Seed' = Seed, runs \subseteq runs',
         NEW m \in MonthStarts, Complete(m)
  PROVE  Complete(m)'
BY DEF Complete

\* Once the days and weeks are caught up, the months that are over are complete.
LEMMA CaughtUp ==
  ASSUME HouseholdTypeOK, RunInv, Seeded, ~Pending("day"), ~Pending("week"),
         NEW m \in MonthStarts, m <= LastOver("month", today)
  PROVE  Complete(m)
<1> SUFFICES ASSUME NEW s \in Evaluated, NEW p \in PeriodsOf(s, m), p >= Period(s, Seed)
             PROVE  <<s, p>> \in runs
  BY DEF Complete
<1>1. s \in Scope /\ today \in Day /\ p \in Begins(s) /\ p \in Nat /\ ~Pending(s)
  BY PeriodsOfMonths, Days DEF HouseholdTypeOK, Evaluated, Scope
<1>2. p <= LastOver(s, today) /\ LastOver(s, today) \in Int
  BY <1>1, PeriodsOfPastMonths, PeriodBefore DEF Day
<1>3. NextTarget(s) \in Begins(s) /\ NextTarget(s) \in Nat /\ Covered(s, NextTarget(s))
  BY <1>1, TargetIsFirst, BeginsAreDays
<1>4. p < NextTarget(s)
  BY <1>1, <1>2, <1>3 DEF Pending
<1> QED
  BY <1>1, <1>3, <1>4 DEF Covered

\* What a statement of a job does to the job, in the order of the closings.
Moves(j) ==
  /\ step[j] # "idle"
  /\ step'[j] # "idle" => scope'[j] = scope[j] /\ end'[j] = end[j]
  /\ Ensured(j)' =>
       /\ UNCHANGED summary /\ scope'[j] = scope[j] /\ target'[j] = target[j]
       /\ ~Ensured(j) => ~MonthClosed(MonthOfJob(j))
  /\ \A m \in MonthStarts : MonthClosed(m)' => MonthClosed(m) \/ (step[j] = "close" /\ m = target[j])

LEMMA NextInLoopMoves ==
  ASSUME JobTypes, NEW j \in Job, NextInLoop(j)
  PROVE  /\ step'[j] # "idle" => scope'[j] = scope[j] /\ end'[j] = end[j]
         /\ ~Ensured(j)'
<1>1. CASE NextPeriod(scope[j], target[j]) <= end[j]
  <2>1. step'[j] = FirstStep(scope[j]) /\ scope' = scope /\ end' = end
    BY <1>1 DEF NextInLoop, JobTypes
  <2> QED
    BY <2>1 DEF Ensured, FirstStep, Evaluated
<1>2. CASE ~(NextPeriod(scope[j], target[j]) <= end[j])
  <2>1. step'[j] = "idle"
    BY <1>2 DEF NextInLoop, EndJob, JobTypes
  <2> QED
    BY <2>1 DEF Ensured
<1> QED
  BY <1>1, <1>2

LEMMA AdvanceMoves ==
  ASSUME ClosingInv, NEW j \in Job
  PROVE  Advance(j) => Moves(j)
<1>0. /\ JobTypes /\ BookTypes
      /\ step[j] # "idle" => MonthOfJob(j) \in MonthStarts
      /\ Ensured(j) => summary[MonthOfJob(j)] # NoRow
  BY TypeParts, ChargedMonthOfTurn DEF ClosingInv, JobInv, JobOK, MonthOfJob, JobTypes
<1>1. ASSUME EnsureReads(j) PROVE Moves(j)
  <2> DEFINE row == GetSummary(MonthOfJob(j))
  <2>1. step[j] = "ensure" /\ UNCHANGED summary
    BY <1>1 DEF EnsureReads, bookVars
  <2>2. CASE row = NoRow
    <3>1. Goto(j, "upsert") /\ UNCHANGED jobVars
      BY <1>1, <2>2 DEF EnsureReads
    <3>2. step'[j] = "upsert" /\ scope' = scope /\ end' = end
      BY <1>0, <3>1 DEF Goto, jobVars, JobTypes
    <3> QED
      BY <2>1, <3>2 DEF Moves, Ensured, MonthClosed
  <2>3. CASE row # NoRow /\ row.closed
    <3>1. NextInLoop(j) \/ EndJob(j)
      BY <1>1, <2>3 DEF EnsureReads
    <3>2. EndJob(j) => step'[j] = "idle"
      BY <1>0 DEF EndJob, JobTypes
    <3> QED
      BY <1>0, <2>1, <3>1, <3>2, NextInLoopMoves DEF Moves, Ensured, MonthClosed
  <2>4. CASE row # NoRow /\ ~row.closed
    <3>1. scope' = scope /\ end' = end /\ target' = target
      BY <1>1, <2>4 DEF EnsureReads
    <3>2. ~MonthClosed(MonthOfJob(j))
      BY <2>4 DEF MonthClosed, GetSummary
    <3> QED
      BY <2>1, <3>1, <3>2 DEF Moves, MonthClosed
  <2> QED
    BY <2>2, <2>3, <2>4
<1>2. ASSUME EnsureUpserts(j) PROVE Moves(j)
  <2>1. /\ step[j] = "upsert" /\ UNCHANGED jobVars /\ step'[j] = "ensure"
        /\ Upsert(MonthOfJob(j))
    BY <1>0, <1>2 DEF EnsureUpserts, Goto, JobTypes
  <2>2. ~Ensured(j)'
    BY <2>1 DEF Ensured
  <2>3. \A m \in MonthStarts : MonthClosed(m)' => MonthClosed(m)
    BY <1>0, <2>1 DEF Upsert, MonthClosed, EmptyRow, BookTypes
  <2> QED
    BY <2>1, <2>2, <2>3 DEF Moves, jobVars
<1>3. ASSUME InsertRun(j) PROVE Moves(j)
  <2>1. step[j] = "insert" /\ UNCHANGED summary
    BY <1>3 DEF InsertRun
  <2>2. CASE <<scope[j], target[j]>> \in runs
    BY <1>0, <1>3, <2>1, <2>2, NextInLoopMoves DEF Moves, MonthClosed, InsertRun
  <2>3. CASE <<scope[j], target[j]>> \notin runs
    <3>1. UNCHANGED jobVars /\ step'[j] = IF scope[j] = "month" THEN "ensure" ELSE "sum"
      BY <1>0, <1>3, <2>3 DEF InsertRun, Goto, JobTypes
    <3>2. Ensured(j)' => Ensured(j)
      BY <1>0, <2>1, <3>1 DEF Ensured, jobVars, JobTypes, Scope, Evaluated
    <3> QED
      BY <2>1, <3>1, <3>2 DEF Moves, MonthClosed, jobVars
  <2> QED
    BY <2>2, <2>3
<1>4. ASSUME SumPenalty(j) PROVE Moves(j)
  <2>1. step[j] = "sum" /\ UNCHANGED summary /\ Ensured(j)
    BY <1>4 DEF SumPenalty, Ensured
  <2>2. NextInLoop(j) \/ UNCHANGED <<scope, target, end>>
    BY <1>4 DEF SumPenalty
  <2> QED
    BY <1>0, <2>1, <2>2, NextInLoopMoves DEF Moves, MonthClosed
<1>5. ASSUME Increment(j) PROVE Moves(j)
  <2>1. step[j] = "increment" /\ NextInLoop(j)
    BY <1>5 DEF Increment
  <2>2. /\ summary' = [summary EXCEPT ![MonthOfJob(j)] = Charge(scope[j], @, amount[j])]
        /\ \A m \in MonthStarts : m # MonthOfJob(j) => summary'[m] = summary[m]
    BY <1>0, <1>5 DEF Increment, BookTypes
  <2>3. PICK m \in MonthStarts : m = MonthOfJob(j) /\ summary[m] \in Row
    BY <1>0, <2>1 DEF Ensured, BookTypes
  <2>4. MonthClosed(m)' => MonthClosed(m)
    <3>1. summary'[m] = Charge(scope[j], summary[m], amount[j])
      BY <1>0, <2>2, <2>3 DEF BookTypes
    <3>2. summary'[m].closed = summary[m].closed
      BY <2>3, <3>1 DEF Charge, IncrementDailyPenalty, IncrementWeeklyPenalty, Row
    <3> QED
      BY <2>3, <3>2, Rows DEF MonthClosed
  <2>5. \A n \in MonthStarts : MonthClosed(n)' => MonthClosed(n)
    BY <2>2, <2>3, <2>4 DEF MonthClosed
  <2> QED
    BY <1>0, <2>1, <2>5, NextInLoopMoves DEF Moves
<1>6. ASSUME JudgeRules(j) PROVE Moves(j)
  BY <1>6 DEF JudgeRules, Moves, Ensured, MonthClosed
<1>7. ASSUME CloseSummary(j) PROVE Moves(j)
  <2>1. step[j] = "close" /\ UNCHANGED jobVars /\ step'[j] = "clear"
    BY <1>0, <1>7 DEF CloseSummary, Goto, JobTypes
  <2>2. \A m \in MonthStarts : m # target[j] => summary'[m] = summary[m]
    BY <1>0, <1>7 DEF CloseSummary, BookTypes
  <2> QED
    BY <2>1, <2>2 DEF Moves, Ensured, MonthClosed, jobVars
<1>8. ASSUME ClearTriggered(j) PROVE Moves(j)
  <2>1. step[j] = "clear" /\ UNCHANGED summary
    BY <1>8 DEF ClearTriggered
  <2>2. NextInLoop(j) \/ (UNCHANGED jobVars /\ step'[j] = "trigger")
    BY <1>0, <1>8 DEF ClearTriggered, Goto, JobTypes
  <2> QED
    BY <1>0, <2>1, <2>2, NextInLoopMoves DEF Moves, Ensured, MonthClosed, jobVars
<1>9. ASSUME AddTriggered(j) PROVE Moves(j)
  <2>1. step[j] = "trigger" /\ UNCHANGED summary
    BY <1>9 DEF AddTriggered
  <2>2. NextInLoop(j) \/ UNCHANGED <<step, scope, target, end>>
    BY <1>9 DEF AddTriggered
  <2> QED
    BY <1>0, <2>1, <2>2, NextInLoopMoves DEF Moves, Ensured, MonthClosed
<1> QED
  BY <1>1, <1>2, <1>3, <1>4, <1>5, <1>6, <1>7, <1>8, <1>9 DEF Advance

\* A job that is left alone, or ends, stays in order.
LEMMA InOrderStays ==
  ASSUME ClosingInv, \A m \in MonthStarts : Complete(m) => Complete(m)', 
         NEW i \in Job, InOrder(i), step'[i] = step[i], scope'[i] = scope[i],
         target'[i] = target[i], end'[i] = end[i],
         \/ step[i] = "idle" 
         \/ \A m \in MonthStarts : MonthClosed(m)' => MonthClosed(m)
  PROVE  InOrder(i)'
<1>1. (Ensured(i)' <=> Ensured(i)) /\ (Ensured(i) => step[i] # "idle")
  BY DEF Ensured
<1>2. /\ HouseholdTypeOK /\ JobTypes
      /\ step[i] # "idle" => MonthOfJob(i) \in MonthStarts
  BY TypeParts, ChargedMonthOfTurn DEF ClosingInv, JobInv, JobOK, MonthOfJob, JobTypes
<1>3. Ensured(i)' => ~MonthClosed(MonthOfJob(i))'
  <2> SUFFICES ASSUME Ensured(i)' PROVE ~MonthClosed(MonthOfJob(i))'
    OBVIOUS
  <2>1. PICK m \in MonthStarts : m = MonthOfJob(i)
    BY <1>1, <1>2
  <2>2. ~MonthClosed(m) /\ ~MonthClosed(m)'
    BY <1>1, <2>1 DEF InOrder
  <2>3. MonthOfJob(i)' = m
    BY <2>1 DEF MonthOfJob
  <2> QED
    BY <2>2, <2>3 DEF MonthClosed
<1> QED
  BY <1>3 DEF InOrder

LEMMA StartInOrder ==
  ASSUME Ordered, ClosingInv, OrderInv, NEW j \in Job, NEW s \in Scope, StartJob(j, s)
  PROVE  OrderInv'
<1>1. HouseholdTypeOK /\ LifeInv /\ JobTypes /\ RunInv /\ Acts(j)
  BY TypeParts, StartJobOK DEF ClosingInv
<1>2. /\ UNCHANGED <<householdVars, runs, summary>> /\ Pending(s)
      /\ \A i \in Job : step[i] = "idle"
      /\ s = "month" => ~Pending("day") /\ ~Pending("week")
  BY DEF StartJob, bookVars, MayClose
<1>3. \A m \in MonthStarts : (Complete(m)' <=> Complete(m)) /\ (MonthClosed(m)' <=> MonthClosed(m))
  BY <1>2 DEF Complete, MonthClosed, Seeded, Seed, householdVars, taskVars
<1>4. \A i \in Job \ {j} : step'[i] = "idle" /\ InOrder(i)'
  BY <1>1, <1>2, <1>3, InOrderStays DEF Acts, Others, OrderInv
<1>5. step'[j] = FirstStep(s) /\ scope'[j] = s /\ end'[j] = LastOver(s, today)
  BY <1>1 DEF StartJob, JobTypes
<1>6. ~Ensured(j)'
  BY <1>5 DEF Ensured, FirstStep, Evaluated
<1>7. s = "month" => \A m \in MonthStarts : m <= LastOver(s, today) => Complete(m)
  BY <1>1, <1>2, CaughtUp, TargetIsNext
<1>8. InOrder(j)'
  BY <1>3, <1>5, <1>6, <1>7 DEF InOrder
<1> QED
  BY <1>3, <1>4, <1>8 DEF OrderInv

LEMMA AdvanceInOrder ==
  ASSUME ClosingInv, OrderInv, NEW j \in Job, Advance(j)
  PROVE  OrderInv'
<1>1. HouseholdTypeOK /\ LifeInv /\ JobTypes /\ Acts(j) /\ Moves(j) /\ JobOK(j)
  BY TypeParts, AdvanceOK, AdvanceMoves DEF ClosingInv, JobInv
<1>2. Seeded => Seeded' /\ Seed' = Seed
  BY <1>1, SameDay DEF Acts
<1>3. \A m \in MonthStarts : Complete(m) => Complete(m)'
  BY <1>1, <1>2, CompleteStays DEF Acts
<1>4. \A i \in Job \ {j} : step[i] = "idle"
  BY <1>1 DEF OrderInv, Moves
<1>5. \A i \in Job \ {j} : step'[i] = "idle" /\ InOrder(i)'
  BY <1>1, <1>3, <1>4, InOrderStays DEF Acts, Others, OrderInv
<1>6. step[j] = "close" => scope[j] = "month" /\ target[j] <= end[j]
  BY <1>1 DEF JobOK
<1>7. \A m \in MonthStarts : MonthClosed(m)' => Complete(m)'
  BY <1>1, <1>3, <1>6 DEF OrderInv, InOrder, Moves
<1>8. InOrder(j)'
  <2>1. step'[j] # "idle" /\ scope'[j] = "month"
          => \A m \in MonthStarts : m <= end'[j] => Complete(m)'
    BY <1>1, <1>3 DEF OrderInv, InOrder, Moves
  <2>2. ASSUME Ensured(j)' PROVE ~MonthClosed(MonthOfJob(j))'
    <3>1. UNCHANGED summary /\ MonthOfJob(j)' = MonthOfJob(j) /\ ~MonthClosed(MonthOfJob(j))
      BY <1>1, <2>2 DEF OrderInv, InOrder, Moves, MonthOfJob
    <3> QED
      BY <3>1 DEF MonthClosed
  <2> QED
    BY <2>1, <2>2 DEF InOrder
<1> QED
  BY <1>5, <1>7, <1>8 DEF OrderInv

LEMMA FailInOrder ==
  ASSUME ClosingInv, OrderInv, NEW j \in Job, Fail(j)
  PROVE  OrderInv'
<1>1. HouseholdTypeOK /\ LifeInv /\ JobTypes /\ Acts(j)
  BY TypeParts, FailOK DEF ClosingInv
<1>2. UNCHANGED <<householdVars, runs, summary>> /\ step[j] # "idle" /\ step'[j] = "idle"
  BY <1>1 DEF Fail, EndJob, JobTypes, bookVars
<1>3. \A m \in MonthStarts : (Complete(m)' <=> Complete(m)) /\ (MonthClosed(m)' <=> MonthClosed(m))
  BY <1>2 DEF Complete, MonthClosed, Seeded, Seed, householdVars, taskVars
<1>4. \A i \in Job \ {j} : step'[i] = "idle" /\ InOrder(i)'
  BY <1>1, <1>2, <1>3, InOrderStays DEF Acts, Others, OrderInv
<1>5. InOrder(j)'
  BY <1>2 DEF InOrder, Ensured
<1> QED
  BY <1>2, <1>3, <1>4, <1>5 DEF OrderInv

\* A step that closes no month and starts no job.
LEMMA QuietInOrder ==
  ASSUME ClosingInv, OrderInv, UNCHANGED <<step, scope, target, end>>, runs \subseteq runs',
         Seeded => Seeded' /\ Seed' = Seed,
         \A m \in MonthStarts : MonthClosed(m)' => MonthClosed(m)
  PROVE  OrderInv'
<1>1. \A m \in MonthStarts : Complete(m) => Complete(m)'
  BY CompleteStays
<1>2. \A i \in Job : InOrder(i)'
  BY <1>1, InOrderStays DEF OrderInv
<1> QED
  BY <1>1, <1>2 DEF OrderInv

\* Closing days and weeks closes no month, nor reopens one.
LEMMA UserChargesOpen ==
  ASSUME BookTypes, NEW s, ChargeDue(s), NEW m \in MonthStarts
  PROVE  MonthClosed(m)' <=> MonthClosed(m)
<1> DEFINE charged(k) == {p \in Due(s) : ChargedMonth(s, p) = k}
           sum(k) == SumOver([p \in charged(k) |-> Cost(Fresh(s, p))], charged(k))
<1>1. /\ \A p \in Due(s) : ~MonthClosed(ChargedMonth(s, p))
      /\ summary' = [k \in MonthStarts |->
                       IF charged(k) = {} THEN summary[k] ELSE Charge(s, RowOf(k), sum(k))]
  BY DEF ChargeDue
<1> HIDE DEF sum
<1>2. charged(m) # {} => ~MonthClosed(m)
  BY <1>1
<1> HIDE DEF charged
<1>3. CASE charged(m) = {}
  BY <1>1, <1>3 DEF MonthClosed
<1>4. CASE charged(m) # {}
  <2>1. summary'[m] = Charge(s, RowOf(m), sum(m))
    BY <1>1, <1>4
  <2>2. RowOf(m) \in Row /\ ~RowOf(m).closed
    BY <1>2, <1>4, Rows DEF RowOf, GetSummary, BookTypes, MonthClosed, EmptyRow
  <2>3. ~summary'[m].closed
    BY <2>1, <2>2 DEF Charge, IncrementDailyPenalty, IncrementWeeklyPenalty, Row
  <2> QED
    BY <1>2, <1>4, <2>3 DEF MonthClosed
<1> QED
  BY <1>3, <1>4

LEMMA CloseForUserInOrder ==
  ASSUME Ordered, ClosingInv, OrderInv, NEW s \in Scope, CloseForUser(s)
  PROVE  OrderInv'
<1>1. HouseholdTypeOK /\ LifeInv /\ BookTypes /\ RunInv
  BY TypeParts DEF ClosingInv
<1>2. /\ UNCHANGED <<householdVars, step, jobVars>> /\ \A j \in Job : step[j] = "idle"
      /\ runs' = runs \cup {<<s, p>> : p \in Due(s)} /\ Pending(s)
      /\ IF s = "month" THEN CloseDue ELSE ChargeDue(s)
      /\ s = "month" => ~Pending("day") /\ ~Pending("week")
  BY DEF CloseForUser, MayClose
<1>3. runs \subseteq runs' /\ (Seeded => Seeded' /\ Seed' = Seed) /\ Seeded
  BY <1>1, <1>2, SameDay, TargetIsNext
<1>4. \A m \in MonthStarts : Complete(m) => Complete(m)'
  BY <1>3, CompleteStays
<1>5. CASE s # "month"
  BY <1>1, <1>2, <1>3, <1>5, UserChargesOpen, QuietInOrder DEF jobVars
<1>6. CASE s = "month"
  <2>1. \A m \in MonthStarts : MonthClosed(m)' => MonthClosed(m) \/ m \in Due("month")
    BY <1>2, <1>6 DEF CloseDue, MonthClosed
  <2>2. \A m \in MonthStarts : m \in Due("month") => Complete(m)
    BY <1>1, <1>2, <1>3, <1>6, CaughtUp DEF Due
  <2>3. \A i \in Job : InOrder(i)'
    BY <1>2, <1>4, InOrderStays DEF OrderInv, jobVars
  <2> QED
    BY <1>2, <1>4, <2>1, <2>2, <2>3 DEF OrderInv, jobVars
<1> QED
  BY <1>5, <1>6

LEMMA ViewInOrder ==
  ASSUME ClosingInv, OrderInv, NEW v \in Viewer, View(v)
  PROVE  OrderInv'
<1>1. HouseholdTypeOK /\ LifeInv /\ BookTypes /\ OtherTypes
  BY TypeParts DEF ClosingInv
<1>2. UNCHANGED <<householdVars, runs, step, jobVars>>
  BY DEF View, ViewReads, ViewUpserts, bookVars
<1>3. \A m \in MonthStarts : MonthClosed(m)' => MonthClosed(m)
  BY <1>1 DEF View, ViewReads, ViewUpserts, bookVars, Upsert, MonthClosed, EmptyRow, BookTypes
<1>4. Seeded => Seeded' /\ Seed' = Seed
  BY <1>1, <1>2, SameDay
<1> QED
  BY <1>2, <1>3, <1>4, QuietInOrder DEF jobVars

LEMMA NextInOrder ==
  ASSUME Ordered
  PROVE  ClosingInv /\ OrderInv /\ [Next]_vars => OrderInv'
<1> SUFFICES ASSUME ClosingInv, OrderInv, [Next]_vars PROVE OrderInv'
  OBVIOUS
<1>0. HouseholdTypeOK /\ LifeInv
  BY TypeParts DEF ClosingInv
<1>1. CASE Member /\ UNCHANGED <<bookVars, step, jobVars, viewing, failures>>
  <2>1. UNCHANGED <<runs, summary, step, scope, target, end>>
    BY <1>1 DEF bookVars, jobVars
  <2>2. Seeded => Seeded' /\ Seed' = Seed
    BY <1>0, <1>1, MemberKeepsSeed
  <2> QED
    BY <2>1, <2>2, QuietInOrder DEF MonthClosed
<1>2. CASE UNCHANGED vars
  <2>1. UNCHANGED <<householdVars, runs, summary, step, scope, target, end>>
    BY <1>2 DEF vars, bookVars, jobVars
  <2>2. Seeded => Seeded' /\ Seed' = Seed
    BY <1>0, <2>1, SameDay
  <2> QED
    BY <2>1, <2>2, QuietInOrder DEF MonthClosed
<1>3. ASSUME NEW j \in Job, NEW s \in Scope, NothingToClose(j, s) PROVE OrderInv'
  BY <1>2, <1>3 DEF NothingToClose
<1> QED
  BY <1>1, <1>2, <1>3, AdvanceInOrder, FailInOrder, StartInOrder, CloseForUserInOrder, ViewInOrder
     DEF Next

LEMMA InitInOrder == Init => OrderInv
BY DEF Init, OrderInv, InOrder, Ensured, MonthClosed

LEMMA AlwaysInOrder ==
  ASSUME Ordered
  PROVE  Spec => []OrderInv
<1>1. ClosingInv /\ OrderInv /\ [Next]_vars => OrderInv'
  BY NextInOrder
<1> QED
  BY <1>1, InitInOrder, AlwaysClosing, PTL DEF Spec

\* In the order the README recommends (README.md:69), a month is closed only
\* when all its days and weeks since the first task are settled, also when jobs
\* fail, edits interfere and pages create summaries (store_closing.go:257-321).
THEOREM ClosedMonthsStayComplete ==
  ASSUME Ordered
  PROVE  Spec => []ClosedMonthsAreComplete
<1>1. ClosingInv /\ OrderInv => ClosedMonthsAreComplete
  <2> SUFFICES ASSUME ClosingInv, OrderInv, NEW m \in MonthStarts, MonthClosed(m),
                      NEW s \in Evaluated, NEW p \in PeriodsOf(s, m), p >= Period(s, Seed)
               PROVE  Settled(s, p)
    BY DEF ClosedMonthsAreComplete
  <2>1. <<s, p>> \in runs
    BY DEF OrderInv, Complete
  <2>2. ASSUME NEW j \in Job, step[j] \in {"sum", "increment"}, scope[j] = s, target[j] = p
        PROVE  FALSE
    <3>1. MonthOfJob(j) = m
      BY <2>2, PeriodsOfMonths DEF MonthOfJob
    <3> QED
      BY <2>2, <3>1 DEF OrderInv, InOrder, Ensured
  <2> QED
    BY <2>1, <2>2 DEF Settled
<1> QED
  BY <1>1, AlwaysClosing, AlwaysInOrder, PTL

\* In that order the next day or week to close never belongs to a month that is
\* closed: errMonthAlreadyClosed stops no catch-up (store_closing.go:144, 207).
THEOREM CatchUpIsNotBlocked ==
  ASSUME Ordered
  PROVE  Spec => []NothingIsBlocked
<1>1. ClosingInv /\ OrderInv => NothingIsBlocked
  <2> SUFFICES ASSUME ClosingInv, OrderInv, NEW s \in Evaluated, NEW m \in MonthStarts,
                      Pending(s), NextTarget(s) \in PeriodsOf(s, m), MonthClosed(m)
               PROVE  FALSE
    BY DEF NothingIsBlocked
  <2>1. HouseholdTypeOK /\ RunInv /\ s \in Scope
    BY TypeParts DEF ClosingInv, Evaluated, Scope
  <2>2. /\ Seeded /\ NextTarget(s) \in Nat /\ Period(s, Seed) <= NextTarget(s)
        /\ <<s, NextTarget(s)>> \notin runs
    BY <2>1, TargetIsNext, TurnIsOver DEF Turn
  <2>3. Period(s, Seed) \in Nat
    BY <2>1, <2>2, SeedIsFirst, Days, PeriodOfDay, BeginsAreDays DEF SeedOK
  <2> QED
    BY <2>2, <2>3 DEF OrderInv, Complete
<1> QED
  BY <1>1, AlwaysClosing, AlwaysInOrder, PTL

--------------------------------------------------------------------------------
(* Bills                                                                    *)

\* Job j has entered a run and has not evaluated it.
Unjudged(j) ==
  \/ step[j] = "sum"
  \/ step[j] \in {"ensure", "upsert", "judge"} /\ scope[j] = "month"

\* What is noted of a run is noted by the one job that entered it.
Noted(s, p) == <<s, p>> \in DOMAIN tariff \/ \E t \in Task : <<s, p, t>> \in dedupes

NoteInv ==
  /\ \A s \in Scope, p \in Nat : Noted(s, p) =>
       /\ <<s, p>> \in runs
       /\ \A j \in Job : Unjudged(j) => scope[j] # s \/ target[j] # p
  /\ MaxEdits = 0 => DOMAIN tariff = {}

\* The tariff of the period is settled.
Counted(s, p) == MaxEdits = 0 \/ <<s, p>> \in DOMAIN tariff

PointsInv ==
  \A s \in Evaluated, p \in Nat : <<s, p>> \in DOMAIN tariff =>
    \A t \in Task : Existed(t, LastDayOf(s, p)) => tariff[<<s, p>>].points[t] \in Nat

\* A task existed at the end of a period if the closing takes it for evaluated.
LEMMA ExistedInEffect ==
  ASSUME HouseholdTypeOK, NEW s \in Evaluated, NEW p \in Nat, NEW t \in Task
  PROVE  Existed(t, LastDayOf(s, p)) <=> InEffect(t, NextPeriod(s, p))
<1>1. born[t] \in Nat /\ gone[t] \in Nat
  BY Days DEF HouseholdTypeOK, Never
<1>2. CASE s = "day"
  BY <1>1, <1>2 DEF Existed, LastDayOf, InEffect, NextPeriod, Never
<1>3. CASE s = "week"
  BY <1>1, <1>3, Days DEF Existed, LastDayOf, InEffect, NextPeriod, Never
<1> QED
  BY <1>2, <1>3 DEF Evaluated

\* The present tariff holds the present points and numbers.
LEMMA PresentTariff ==
  ASSUME HouseholdTypeOK, NEW s \in Evaluated, NEW p \in Nat,
         NEW t \in Task, Existed(t, LastDayOf(s, p))
  PROVE  /\ Tariff(s, p).points[t] = points[t] /\ points[t] \in Nat
         /\ t \in WeeklyTask => Tariff(s, p).required[t] = required[t]
<1> DEFINE B == {x \in DOMAIN born : born[x] # Never /\ born[x] < NextPeriod(s, p)}
<1>1. t \in B
  BY ExistedInEffect DEF InEffect, HouseholdTypeOK
<1>2. Tariff(s, p) = [points |-> [x \in B |-> points[x]],
                      required |-> [x \in B \cap WeeklyTask |-> required[x]]]
  BY DEF Tariff, Evaluated
<1> HIDE DEF B
<1> QED
  BY <1>1, <1>2 DEF HouseholdTypeOK

\* The bill of a period is made out by the present points and numbers.
AtPresent(s, p) ==
  \A t \in Task : Existed(t, LastDayOf(s, p)) =>
    /\ TariffOf(s, p).points[t] = points[t]
    /\ t \in WeeklyTask => TariffOf(s, p).required[t] = required[t]

\* By present points and numbers, what is neglected is what the closing misses.
LEMMA MissedBill ==
  ASSUME HouseholdTypeOK, NEW s \in Evaluated, NEW p \in Nat, AtPresent(s, p)
  PROVE  Bill(s, p) = Cost(Missed(s, p))
<1>1. \A t \in Task : Existed(t, LastDayOf(s, p)) =>
        /\ TariffOf(s, p).points[t] = points[t] /\ points[t] \in Nat
        /\ t \in WeeklyTask => TariffOf(s, p).required[t] = required[t]
  BY DEF AtPresent, HouseholdTypeOK
<1>2. Neglected(s, p) = Missed(s, p)
  BY <1>1, MissedByEnd, ExistedInEffect DEF Neglected
<1>3. Neglected(s, p) \in SUBSET Task /\ IsFiniteSet(Neglected(s, p))
  BY HouseholdAssumption, FS_Subset DEF Neglected
<1>4. \A t \in Neglected(s, p) : Existed(t, LastDayOf(s, p)) /\ t \in Task
  BY DEF Neglected
<1>5. SumOver(points, Neglected(s, p)) = SumOver(TariffOf(s, p).points, Neglected(s, p))
  BY <1>1, <1>3, <1>4, SumSame
<1> QED
  BY <1>2, <1>5 DEF Bill, Cost

LEMMA PresentBill ==
  ASSUME HouseholdTypeOK, NEW s \in Evaluated, NEW p \in Nat, TariffOf(s, p) = Tariff(s, p)
  PROVE  Bill(s, p) = Cost(Missed(s, p))
BY PresentTariff, MissedBill DEF AtPresent

LEMMA BillIsNat ==
  ASSUME HouseholdTypeOK, PointsInv, NEW s \in Evaluated, NEW p \in Nat
  PROVE  Bill(s, p) \in Nat
<1>1. \A t \in Task : Existed(t, LastDayOf(s, p)) => TariffOf(s, p).points[t] \in Nat
  BY PresentTariff DEF PointsInv, TariffOf
<1>2. IsFiniteSet(Neglected(s, p))
  BY HouseholdAssumption, FS_Subset DEF Neglected
<1>3. \A t \in Neglected(s, p) : TariffOf(s, p).points[t] \in Nat
  BY <1>1 DEF Neglected
<1> QED
  BY <1>2, <1>3, SumIsNat DEF Bill

\* A bill stays if what it is made of stays.
LEMMA BillStays ==
  ASSUME NEW s \in Evaluated, NEW p \in Nat,
         \A t \in Task : Existed(t, LastDayOf(s, p))' <=> Existed(t, LastDayOf(s, p)),
         s = "day" => \A t \in Task : <<t, p>> \in done' <=> <<t, p>> \in done,
         s = "week" => \A t \in WeeklyTask : count'[t][p] = count[t][p],
         \A t \in Task : Existed(t, LastDayOf(s, p)) =>
           /\ TariffOf(s, p).points[t] \in Nat
           /\ TariffOf(s, p)'.points[t] = TariffOf(s, p).points[t]
           /\ t \in WeeklyTask => TariffOf(s, p)'.required[t] = TariffOf(s, p).required[t]
  PROVE  Bill(s, p)' = Bill(s, p)
<1>1. Neglected(s, p)' = Neglected(s, p)
  BY DEF Neglected, Evaluated
<1>2. IsFiniteSet(Neglected(s, p))
  BY HouseholdAssumption, FS_Subset DEF Neglected
<1>3. \A t \in Neglected(s, p) : Existed(t, LastDayOf(s, p)) /\ t \in Task
  BY DEF Neglected
<1> DEFINE f == TariffOf(s, p).points
           g == TariffOf(s, p)'.points
           N == Neglected(s, p)
<1>4. \A t \in N : f[t] \in Nat /\ f[t] = g[t]
  BY <1>3
<1> HIDE DEF f, g, N
<1>5. SumOver(f, N) = SumOver(g, N)
  BY <1>2, <1>4, SumSame DEF N
<1>6. Bill(s, p) = SumOver(f, N) /\ Bill(s, p)' = SumOver(g, N)
  BY <1>1 DEF Bill, f, g, N
<1> QED
  BY <1>5, <1>6

\* The same, for the states before and after a step.
Effects ==
  \A s \in Evaluated, p \in Nat, t \in Task :
    /\ Existed(t, LastDayOf(s, p)) <=> InEffect(t, NextPeriod(s, p))
    /\ Existed(t, LastDayOf(s, p)) =>
         /\ Tariff(s, p).points[t] = points[t] /\ points[t] \in Nat
         /\ t \in WeeklyTask => Tariff(s, p).required[t] = required[t]

LEMMA EffectsAre == HouseholdTypeOK => Effects
BY ExistedInEffect, PresentTariff DEF Effects

LEMMA EffectsWillBe == HouseholdTypeOK' => Effects'
BY EffectsAre, PTL

BillFacts ==
  \A s \in Evaluated, p \in Nat :
    /\ Bill(s, p) \in Nat
    /\ TariffOf(s, p) = Tariff(s, p) => Bill(s, p) = Cost(Missed(s, p))

LEMMA BillsAre == HouseholdTypeOK /\ PointsInv => BillFacts
BY BillIsNat, PresentBill DEF BillFacts

LEMMA BillsWillBe == HouseholdTypeOK' /\ PointsInv' => BillFacts'
BY BillsAre, PTL

\* Members do not change the bill of a period whose turn has come, once its
\* tariff is settled.
LEMMA MembersLeaveBills ==
  ASSUME HouseholdTypeOK, HouseholdTypeOK', LifeInv, PointsInv, Member, UNCHANGED tariff,
         NEW s \in Evaluated, NEW p \in Nat, Turn(s, p), Counted(s, p)
  PROVE  Bill(s, p)' = Bill(s, p)
<1>1. s \in Scope /\ p \in Begins(s) /\ p < Period(s, today)
  BY DEF Turn, Evaluated, Scope
<1>2. /\ \A t \in Task : InEffect(t, NextPeriod(s, p))' <=> InEffect(t, NextPeriod(s, p))
      /\ s = "day" => \A t \in Task : <<t, p>> \in done' <=> <<t, p>> \in done
      /\ s = "week" => \A t \in WeeklyTask : count'[t][p] = count[t][p]
  BY <1>1, OverIsSealed
<1>3. \A t \in Task : Existed(t, LastDayOf(s, p))' <=> Existed(t, LastDayOf(s, p))
  <2>1. \A t \in Task : Existed(t, LastDayOf(s, p))' <=> InEffect(t, NextPeriod(s, p))'
    BY EffectsWillBe DEF Effects
  <2> QED
    BY <1>2, <2>1, ExistedInEffect
<1>4. CASE <<s, p>> \in DOMAIN tariff
  <2>1. TariffOf(s, p) = tariff[<<s, p>>] /\ TariffOf(s, p)' = tariff[<<s, p>>]
    BY <1>4 DEF TariffOf
  <2>2. \A t \in Task : Existed(t, LastDayOf(s, p)) => TariffOf(s, p).points[t] \in Nat
    BY <1>4, <2>1 DEF PointsInv
  <2> QED
    BY <1>2, <1>3, <2>1, <2>2, BillStays
<1>5. CASE <<s, p>> \notin DOMAIN tariff
  <2>1. TariffOf(s, p) = Tariff(s, p) /\ TariffOf(s, p)' = Tariff(s, p)'
    BY <1>5 DEF TariffOf
  <2>2. MaxEdits = 0
    BY <1>5 DEF Counted
  <2>4. ASSUME NEW t \in Task, Existed(t, LastDayOf(s, p))
        PROVE  /\ TariffOf(s, p).points[t] \in Nat
               /\ TariffOf(s, p)'.points[t] = TariffOf(s, p).points[t]
               /\ t \in WeeklyTask => TariffOf(s, p)'.required[t] = TariffOf(s, p).required[t]
    <3>1. /\ Tariff(s, p)'.points[t] = points'[t]
          /\ t \in WeeklyTask => Tariff(s, p)'.required[t] = required'[t]
      BY <1>3, <2>4, EffectsWillBe DEF Effects
    <3>2. born[t] # Never
      BY <2>4 DEF Existed, Never
    <3>3. points'[t] = points[t] /\ (t \in WeeklyTask => required'[t] = required[t])
      BY <2>2, <3>2, MembersLeaveThePast DEF MemberLeaves
    <3> QED
      BY <2>1, <2>4, <3>1, <3>3, PresentTariff
  <2> QED
    BY <1>2, <1>3, <2>4, BillStays
<1> QED
  BY <1>4, <1>5

--------------------------------------------------------------------------------
(* Sums of bills                                                            *)

LEMMA BillsAddUp ==
  ASSUME NEW s, NEW P \in SUBSET Nat, IsFiniteSet(P), NEW Q \in SUBSET Nat, IsFiniteSet(Q),
         P \cap Q = {}, \A p \in P \cup Q : Bill(s, p) \in Nat
  PROVE  /\ Bills(s, P) \in Nat /\ Bills(s, Q) \in Nat
         /\ Bills(s, P \cup Q) = Bills(s, P) + Bills(s, Q)
<1> DEFINE f == [p \in P \cup Q |-> Bill(s, p)]
           g == [p \in P |-> Bill(s, p)]
           h == [p \in Q |-> Bill(s, p)]
<1>1. /\ \A p \in P \cup Q : f[p] \in Nat
      /\ \A p \in P : g[p] \in Nat /\ g[p] = f[p]
      /\ \A p \in Q : h[p] \in Nat /\ h[p] = f[p]
  OBVIOUS
<1>2. Bills(s, P) = SumOver(g, P) /\ Bills(s, Q) = SumOver(h, Q) /\ Bills(s, P \cup Q) = SumOver(f, P \cup Q)
  BY DEF Bills
<1> HIDE DEF f, g, h
<1>3. SumOver(f, P \cup Q) = SumOver(f, P) + SumOver(f, Q)
  BY <1>1, SumOfParts
<1>4. SumOver(g, P) = SumOver(f, P) /\ SumOver(h, Q) = SumOver(f, Q)
  BY <1>1, SumSame
<1>5. SumOver(g, P) \in Nat /\ SumOver(h, Q) \in Nat
  BY <1>1, SumIsNat
<1> QED
  BY <1>2, <1>3, <1>4, <1>5

LEMMA BillOfOne ==
  ASSUME NEW s, NEW p \in Nat, Bill(s, p) \in Nat
  PROVE  Bills(s, {p}) = Bill(s, p)
<1> DEFINE f == [q \in {p} |-> Bill(s, q)]
<1>1. f[p] = Bill(s, p) /\ Bills(s, {p}) = SumOver(f, {p})
  BY DEF Bills
<1> HIDE DEF f
<1>2. SumOver(f, {} \cup {p}) = f[p] + SumOver(f, {})
  BY <1>1, SumAdded, FS_EmptySet
<1>3. {} \cup {p} = {p}
  OBVIOUS
<1> QED
  BY <1>1, <1>2, <1>3, SumOfNone

LEMMA BillOfNone == \A s : Bills(s, {}) = 0
BY SumOfNone DEF Bills

LEMMA BillsOfPart ==
  ASSUME NEW s, NEW Q \in SUBSET Nat, IsFiniteSet(Q), NEW P \in SUBSET Q,
         \A p \in Q : Bill(s, p) \in Nat
  PROVE  Bills(s, P) \in Nat /\ Bills(s, Q) \in Nat /\ Bills(s, P) <= Bills(s, Q)
<1>1. /\ IsFiniteSet(P) /\ IsFiniteSet(Q \ P) /\ P \cap (Q \ P) = {} /\ P \cup (Q \ P) = Q
      /\ P \in SUBSET Nat /\ Q \ P \in SUBSET Nat
  BY FS_Subset
<1>2. /\ Bills(s, P) \in Nat /\ Bills(s, Q \ P) \in Nat
      /\ Bills(s, P \cup (Q \ P)) = Bills(s, P) + Bills(s, Q \ P)
  BY <1>1, BillsAddUp
<1> QED
  BY <1>1, <1>2

\* The same facts of the state after a step.
SumFacts ==
  \A s \in Evaluated : \A P, Q \in SUBSET Nat :
    IsFiniteSet(P) /\ IsFiniteSet(Q) /\ P \cap Q = {} =>
      /\ Bills(s, P) \in Nat /\ Bills(s, Q) \in Nat
      /\ Bills(s, P \cup Q) = Bills(s, P) + Bills(s, Q)
      /\ Bills(s, {}) = 0
      /\ \A p \in Nat : Bills(s, {p}) = Bill(s, p)

LEMMA SumsAre == BillFacts => SumFacts
BY BillsAddUp, BillOfNone, BillOfOne DEF BillFacts, SumFacts

LEMMA SumsWillBe == BillFacts' => SumFacts'
BY SumsAre, PTL

\* The runs of a month whose bill is final.
Paid(s, m) == {p \in PeriodsOf(s, m) : Settled(s, p) /\ Counted(s, p)}

LEMMA PaidIsFinite ==
  ASSUME NEW s \in Evaluated, NEW m \in MonthStarts
  PROVE  /\ Paid(s, m) \in SUBSET Nat /\ IsFiniteSet(Paid(s, m))
         /\ Paid(s, m)' \in SUBSET Nat /\ IsFiniteSet(Paid(s, m)')
<1>1. Paid(s, m) \in SUBSET PeriodsOf(s, m) /\ Paid(s, m)' \in SUBSET PeriodsOf(s, m)
  BY DEF Paid
<1> QED
  BY <1>1, PeriodsOfMonths, FS_Subset

\* Bills that are final stay; the others of the month are added.
LEMMA BillsGrow ==
  ASSUME BillFacts, BillFacts', NEW s \in Evaluated, NEW m \in MonthStarts,
         Paid(s, m) \subseteq Paid(s, m)', \A p \in Paid(s, m) : Bill(s, p)' = Bill(s, p),
         NEW D, D = Paid(s, m)' \ Paid(s, m)
  PROVE  /\ Bills(s, Paid(s, m)) \in Nat /\ Bills(s, D)' \in Nat
         /\ Bills(s, Paid(s, m))' = Bills(s, Paid(s, m)) + Bills(s, D)'
<1>1. PICK P \in SUBSET Nat : P = Paid(s, m) /\ IsFiniteSet(P)
  BY PaidIsFinite
<1>2. PICK Q \in SUBSET Nat : Q = Paid(s, m)' /\ IsFiniteSet(Q)
  BY PaidIsFinite
<1>3. D \in SUBSET Nat /\ IsFiniteSet(D) /\ P \cup D = Q /\ P \cap D = {}
  BY <1>1, <1>2, FS_Subset
<1>4. Bills(s, P)' = Bills(s, P)
  BY <1>1 DEF Bills
<1>5. SumFacts /\ SumFacts'
  BY SumsAre, SumsWillBe
<1>6. /\ Bills(s, P) \in Nat /\ Bills(s, D)' \in Nat
      /\ Bills(s, Q)' = Bills(s, P)' + Bills(s, D)'
  <2>1. /\ Bills(s, P)' \in Nat /\ Bills(s, D)' \in Nat
        /\ Bills(s, P \cup D)' = Bills(s, P)' + Bills(s, D)'
    <3>1. \A A, B \in SUBSET Nat : IsFiniteSet(A) /\ IsFiniteSet(B) /\ A \cap B = {} =>
            /\ Bills(s, A)' \in Nat /\ Bills(s, B)' \in Nat
            /\ Bills(s, A \cup B)' = Bills(s, A)' + Bills(s, B)'
      BY <1>5 DEF SumFacts
    <3> QED
      BY <1>1, <1>3, <3>1
  <2> QED
    BY <1>3, <1>4, <2>1
<1>7. Bills(s, Paid(s, m))' = Bills(s, Q)'
  BY <1>2 DEF Bills
<1> QED
  BY <1>1, <1>4, <1>6, <1>7

--------------------------------------------------------------------------------
(* What a statement of a job does to the books                              *)

\* Job j is at period p of scope s.
At(j, s, p) == scope[j] = s /\ target[j] = p

\* What is noted, and of what runs.
Notes(j) ==
  /\ Unjudged(j)' => \/ Unjudged(j) /\ scope'[j] = scope[j] /\ target'[j] = target[j]
                     \/ <<scope'[j], target'[j]>> \notin runs
  /\ \A s \in Scope, p \in Nat : Noted(s, p)' =>
       Noted(s, p) \/ (At(j, s, p) /\ Unjudged(j) /\ ~Unjudged(j)')
  /\ MaxEdits = 0 => tariff' = tariff
  /\ \A s \in Scope, p \in Nat : <<s, p>> \in DOMAIN tariff =>
       /\ <<s, p>> \in DOMAIN tariff'
       /\ tariff'[<<s, p>>] = tariff[<<s, p>>] \/ (At(j, s, p) /\ Unjudged(j))
  /\ \A s \in Scope, p \in Nat : <<s, p>> \in DOMAIN tariff' /\ <<s, p>> \notin DOMAIN tariff =>
       At(j, s, p) /\ Unjudged(j) /\ tariff'[<<s, p>>] = Tariff(s, p)
  /\ \A s \in Evaluated, p \in Nat : <<s, p>> \in runs' /\ <<s, p>> \notin runs =>
       step'[j] = "sum" /\ At(j, s, p)'

\* What is charged.
Charges(j) ==
  /\ step'[j] = "increment" =>
       /\ step[j] = "sum" /\ scope'[j] = scope[j] /\ target'[j] = target[j]
       /\ amount'[j] = Cost(Fresh(scope[j], target[j]))
  /\ step[j] = "sum" =>
       /\ \A s \in Scope, p \in Nat : At(j, s, p) => Counted(s, p)'
       /\ step'[j] = "increment" \/ Cost(Fresh(scope[j], target[j])) = 0
  /\ step[j] \in {"sum", "increment"} /\ step'[j] # "increment" => ~Entered(j)'
  /\ \A s \in Evaluated, m \in MonthStarts :
       IF step[j] = "increment" /\ s = scope[j] /\ m = MonthOfJob(j)
       THEN Total(s, m)' = Total(s, m) + amount[j]
       ELSE \/ Total(s, m)' = Total(s, m)
            \/ step[j] = "upsert" /\ m = MonthOfJob(j) /\ Total(s, m)' = 0

LEMMA NextInLoopLeavesNothing ==
  ASSUME JobTypes, NEW j \in Job, NextInLoop(j) \/ EndJob(j)
  PROVE  ~Entered(j)' /\ ~Unjudged(j)' /\ step'[j] # "increment"
<1>1. CASE NextInLoop(j) /\ NextPeriod(scope[j], target[j]) <= end[j]
  <2>1. step'[j] = FirstStep(scope[j]) /\ scope' = scope
    BY <1>1 DEF NextInLoop, JobTypes
  <2> QED
    BY <2>1 DEF Entered, Unjudged, FirstStep
<1>2. CASE EndJob(j)
  <2>1. step'[j] = "idle"
    BY <1>2 DEF EndJob, JobTypes
  <2> QED
    BY <2>1 DEF Entered, Unjudged
<1> QED
  BY <1>1, <1>2 DEF NextInLoop

\* Statements that leave runs, dedupes and tariffs alone note nothing.
LEMMA NothingNoted ==
  ASSUME NEW j \in Job, UNCHANGED <<runs, dedupes, tariff>>,
         Unjudged(j)' => \/ Unjudged(j) /\ scope'[j] = scope[j] /\ target'[j] = target[j]
                         \/ <<scope'[j], target'[j]>> \notin runs
  PROVE  Notes(j)
BY DEF Notes, Noted

\* Statements that leave the summaries alone charge nothing.
LEMMA NothingCharged ==
  ASSUME NEW j \in Job, UNCHANGED summary, step[j] \notin {"sum", "increment"},
         step'[j] # "increment"
  PROVE  Charges(j)
BY DEF Charges, Total

LEMMA ReadsNote ==
  ASSUME JobTypes, NEW j \in Job, EnsureReads(j)
  PROVE  Notes(j) /\ Charges(j)
<1>1. step[j] = "ensure" /\ UNCHANGED <<runs, dedupes, tariff, summary>>
  BY DEF EnsureReads, bookVars
<1> DEFINE row == GetSummary(MonthOfJob(j))
<1>2. CASE row = NoRow
  <2>1. step'[j] = "upsert" /\ scope' = scope /\ target' = target
    BY <1>2 DEF EnsureReads, Goto, jobVars, JobTypes
  <2> QED
    BY <1>1, <2>1, NothingNoted, NothingCharged DEF Unjudged
<1>3. CASE row # NoRow /\ row.closed
  <2>1. NextInLoop(j) \/ EndJob(j)
    BY <1>3 DEF EnsureReads
  <2> QED
    BY <1>1, <2>1, NextInLoopLeavesNothing, NothingNoted, NothingCharged
<1>4. CASE row # NoRow /\ ~row.closed
  <2>1. /\ scope' = scope /\ target' = target
        /\ step'[j] = IF scope[j] = "month" THEN "judge" ELSE "insert"
    BY <1>4 DEF EnsureReads, Goto, JobTypes
  <2> QED
    BY <1>1, <2>1, NothingNoted, NothingCharged DEF Unjudged
<1> QED
  BY <1>2, <1>3, <1>4

LEMMA UpsertsNote ==
  ASSUME JobTypes, BookTypes, NEW j \in Job, EnsureUpserts(j)
  PROVE  Notes(j) /\ Charges(j)
<1>1. /\ step[j] = "upsert" /\ UNCHANGED <<runs, dedupes, tariff, scope, target>>
      /\ step'[j] = "ensure" /\ summary' = [summary EXCEPT ![MonthOfJob(j)] = EmptyRow]
  BY DEF EnsureUpserts, Goto, jobVars, JobTypes, Upsert
<1>2. Notes(j)
  BY <1>1, NothingNoted DEF Unjudged
<1>3. ASSUME NEW s \in Evaluated, NEW m \in MonthStarts
      PROVE  Total(s, m)' = Total(s, m) \/ (m = MonthOfJob(j) /\ Total(s, m)' = 0)
  <2>1. CASE m # MonthOfJob(j)
    BY <1>1, <2>1 DEF Total, BookTypes
  <2>2. CASE m = MonthOfJob(j)
    <3>1. summary'[m] = EmptyRow
      BY <1>1, <2>2 DEF BookTypes
    <3> QED
      BY <2>2, <3>1, Rows DEF Total, EmptyRow, Evaluated
  <2> QED
    BY <2>1, <2>2
<1> QED
  BY <1>1, <1>2, <1>3 DEF Charges

LEMMA InsertsNote ==
  ASSUME JobTypes, NEW j \in Job, InsertRun(j)
  PROVE  Notes(j) /\ Charges(j)
<1>1. step[j] = "insert" /\ UNCHANGED <<dedupes, tariff, summary>>
  BY DEF InsertRun
<1>2. CASE <<scope[j], target[j]>> \in runs
  BY <1>1, <1>2, NextInLoopLeavesNothing, NothingNoted, NothingCharged DEF InsertRun
<1>3. CASE <<scope[j], target[j]>> \notin runs
  <2>1. /\ UNCHANGED <<scope, target>> /\ runs' = runs \cup {<<scope[j], target[j]>>}
        /\ step'[j] = IF scope[j] = "month" THEN "ensure" ELSE "sum"
    BY <1>3 DEF InsertRun, InsertCloseRun, Goto, jobVars, JobTypes
  <2>2. Notes(j)
    BY <1>1, <1>3, <2>1 DEF Notes, Noted, At, Evaluated
  <2>3. Charges(j)
    BY <1>1, <2>1, NothingCharged
  <2> QED
    BY <2>2, <2>3
<1> QED
  BY <1>2, <1>3

\* What Note does to the tariffs.
LEMMA NoteNotes ==
  ASSUME NEW q, NEW P \in SUBSET Nat, Note(q, P)
  PROVE  /\ MaxEdits = 0 => tariff' = tariff
         /\ \A s, p : <<s, p>> \in DOMAIN tariff =>
              /\ <<s, p>> \in DOMAIN tariff'
              /\ tariff'[<<s, p>>] = tariff[<<s, p>>] \/ (s = q /\ p \in P)
         /\ \A s, p : <<s, p>> \in DOMAIN tariff' /\ <<s, p>> \notin DOMAIN tariff =>
              s = q /\ p \in P /\ tariff'[<<s, p>>] = Tariff(s, p)
         /\ MaxEdits # 0 => \A p \in P : <<q, p>> \in DOMAIN tariff' /\ tariff'[<<q, p>>] = Tariff(q, p)
<1>1. CASE MaxEdits = 0
  BY <1>1 DEF Note
<1>2. CASE MaxEdits # 0
  <2>1. tariff' = [run \in DOMAIN tariff \cup {q} \X P |->
                     IF run \in {q} \X P THEN Tariff(q, run[2]) ELSE tariff[run]]
    BY <1>2 DEF Note
  <2>2. \A s, p : <<s, p>> \in {q} \X P <=> s = q /\ p \in P
    OBVIOUS
  <2> QED
    BY <1>2, <2>1, <2>2
<1> QED
  BY <1>1, <1>2

LEMMA SumsNote ==
  ASSUME JobTypes, NEW j \in Job, scope[j] \in Evaluated, SumPenalty(j)
  PROVE  Notes(j) /\ Charges(j)
<1> DEFINE fresh == Fresh(scope[j], target[j])
<1>1. /\ step[j] = "sum" /\ UNCHANGED <<runs, summary>> /\ Note(scope[j], {target[j]})
      /\ dedupes' = dedupes \cup {<<scope[j], target[j], t>> : t \in fresh}
      /\ \/ Cost(fresh) = 0 /\ NextInLoop(j)
         \/ /\ step'[j] = "increment" /\ amount'[j] = Cost(fresh)
            /\ UNCHANGED <<scope, target>>
  BY DEF SumPenalty, Goto, JobTypes
<1>2. target[j] \in Nat /\ {target[j]} \in SUBSET Nat
  BY DEF JobTypes
<1>3. ~Unjudged(j)' /\ (step'[j] # "increment" => ~Entered(j)')
  BY <1>1, NextInLoopLeavesNothing DEF Unjudged
<1>4. \A s \in Scope, p \in Nat : At(j, s, p) => Counted(s, p)'
  BY <1>1, <1>2, NoteNotes DEF Counted, At
<1>5. Notes(j)
  <2>1. Unjudged(j)
    BY <1>1 DEF Unjudged
  <2>2. ASSUME NEW s \in Scope, NEW p \in Nat, Noted(s, p)' PROVE Noted(s, p) \/ At(j, s, p)
    <3>1. CASE <<s, p>> \in DOMAIN tariff'
      <4>1. <<s, p>> \in DOMAIN tariff \/ (s = scope[j] /\ p \in {target[j]})
        BY <1>1, <1>2, <3>1, NoteNotes
      <4> QED
        BY <4>1 DEF Noted, At
    <3>2. CASE \E t \in Task : <<s, p, t>> \in dedupes'
      <4>1. PICK t \in Task : <<s, p, t>> \in dedupes'
        BY <3>2
      <4>2. <<s, p, t>> \in dedupes \/ (s = scope[j] /\ p = target[j])
        BY <1>1, <4>1
      <4> QED
        BY <4>2 DEF Noted, At
    <3> QED
      BY <2>2, <3>1, <3>2 DEF Noted
  <2>3. /\ MaxEdits = 0 => tariff' = tariff
        /\ \A s \in Scope, p \in Nat : <<s, p>> \in DOMAIN tariff =>
             /\ <<s, p>> \in DOMAIN tariff'
             /\ tariff'[<<s, p>>] = tariff[<<s, p>>] \/ At(j, s, p)
        /\ \A s \in Scope, p \in Nat : <<s, p>> \in DOMAIN tariff' /\ <<s, p>> \notin DOMAIN tariff =>
             At(j, s, p) /\ tariff'[<<s, p>>] = Tariff(s, p)
    BY <1>1, <1>2, NoteNotes DEF At
  <2> QED
    BY <1>1, <1>3, <2>1, <2>2, <2>3 DEF Notes
<1>6. Charges(j)
  <2>1. /\ step'[j] = "increment" => amount'[j] = Cost(fresh) /\ UNCHANGED <<scope, target>>
        /\ step'[j] = "increment" \/ Cost(fresh) = 0
    BY <1>1, NextInLoopLeavesNothing
  <2> QED
    BY <1>1, <1>3, <1>4, <2>1 DEF Charges, Total
<1> QED
  BY <1>5, <1>6

LEMMA IncrementNotes ==
  ASSUME JobTypes, BookTypes, NEW j \in Job, scope[j] \in Evaluated,
         MonthOfJob(j) \in MonthStarts, summary[MonthOfJob(j)] # NoRow, Increment(j)
  PROVE  Notes(j) /\ Charges(j)
<1>1. /\ step[j] = "increment" /\ UNCHANGED <<runs, dedupes, tariff>> /\ NextInLoop(j)
      /\ summary' = [summary EXCEPT ![MonthOfJob(j)] = Charge(scope[j], @, amount[j])]
  BY DEF Increment
<1>2. ~Entered(j)' /\ ~Unjudged(j)' /\ step'[j] # "increment"
  BY <1>1, NextInLoopLeavesNothing
<1>3. Notes(j)
  BY <1>1, <1>2, NothingNoted
<1>4. PICK m0 \in MonthStarts : m0 = MonthOfJob(j)
  OBVIOUS
<1>5. PICK row \in Row : row = summary[m0]
  BY <1>4 DEF BookTypes
<1>6. amount[j] \in Nat /\ summary'[m0] = Charge(scope[j], row, amount[j])
  BY <1>1, <1>4, <1>5 DEF JobTypes, BookTypes
<1>7. PICK n \in Nat : n = amount[j]
  BY <1>6
<1>8. Charge(scope[j], row, n) \in Row
  BY Rows DEF Evaluated, Scope
<1>9. \A s \in Evaluated : Total(s, m0)' = IF s = scope[j] THEN Total(s, m0) + n ELSE Total(s, m0)
  <2>1. /\ \A s \in Evaluated : Total(s, m0) = IF s = "day" THEN row.daily ELSE row.weekly
        /\ \A s \in Evaluated : Total(s, m0)' = IF s = "day" THEN summary'[m0].daily ELSE summary'[m0].weekly
    BY <1>5, <1>6, <1>7, <1>8, Rows DEF Total, Evaluated
  <2>2. /\ summary'[m0].daily = IF scope[j] = "day" THEN row.daily + n ELSE row.daily
        /\ summary'[m0].weekly = IF scope[j] = "day" THEN row.weekly ELSE row.weekly + n
    BY <1>6, <1>7 DEF Charge, IncrementDailyPenalty, IncrementWeeklyPenalty, Row
  <2>3. CASE scope[j] = "day"
    BY <2>1, <2>2, <2>3 DEF Evaluated
  <2>4. CASE scope[j] = "week"
    BY <2>1, <2>2, <2>4 DEF Evaluated
  <2> QED
    BY <2>3, <2>4 DEF Evaluated
<1>10. \A s \in Evaluated, m \in MonthStarts : m # m0 => Total(s, m)' = Total(s, m)
  BY <1>1, <1>4 DEF Total, BookTypes
<1>11. Charges(j)
  BY <1>1, <1>2, <1>4, <1>7, <1>9, <1>10 DEF Charges
<1> QED
  BY <1>3, <1>11

LEMMA JudgesNote ==
  ASSUME JobTypes, NEW j \in Job, scope[j] = "month", JudgeRules(j)
  PROVE  Notes(j) /\ Charges(j)
<1>1. /\ step[j] = "judge" /\ step'[j] = "close"
      /\ UNCHANGED <<runs, dedupes, summary, scope, target>> /\ Note("month", {target[j]})
  BY DEF JudgeRules, Goto, JobTypes
<1>2. target[j] \in Nat /\ {target[j]} \in SUBSET Nat
  BY DEF JobTypes
<1>3. Unjudged(j) /\ ~Unjudged(j)'
  BY <1>1 DEF Unjudged
<1>4. \A s \in Scope, p \in Nat : Noted(s, p)' => Noted(s, p) \/ At(j, s, p)
  <2>1. \A s \in Scope, p \in Nat : <<s, p>> \in DOMAIN tariff' =>
          <<s, p>> \in DOMAIN tariff \/ (s = scope[j] /\ p \in {target[j]})
    BY <1>1, <1>2, NoteNotes
  <2> QED
    BY <1>1, <2>1 DEF Noted, At
<1>5. /\ MaxEdits = 0 => tariff' = tariff
      /\ \A s \in Scope, p \in Nat : <<s, p>> \in DOMAIN tariff =>
           /\ <<s, p>> \in DOMAIN tariff'
           /\ tariff'[<<s, p>>] = tariff[<<s, p>>] \/ At(j, s, p)
      /\ \A s \in Scope, p \in Nat : <<s, p>> \in DOMAIN tariff' /\ <<s, p>> \notin DOMAIN tariff =>
           At(j, s, p) /\ tariff'[<<s, p>>] = Tariff(s, p)
  BY <1>1, <1>2, NoteNotes DEF At
<1>6. Notes(j)
  BY <1>1, <1>3, <1>4, <1>5 DEF Notes
<1> QED
  BY <1>1, <1>6, NothingCharged

LEMMA ClosesNote ==
  ASSUME JobTypes, BookTypes, NEW j \in Job,
         target[j] \in MonthStarts, summary[target[j]] # NoRow, CloseSummary(j)
  PROVE  Notes(j) /\ Charges(j)
<1>1. /\ step[j] = "close" /\ step'[j] = "clear" /\ UNCHANGED <<runs, dedupes, tariff>>
      /\ summary' = [summary EXCEPT ![target[j]] = CloseMonthlyPenaltySummary(@)]
  BY DEF CloseSummary, Goto, JobTypes
<1>2. Notes(j)
  BY <1>1, NothingNoted DEF Unjudged
<1>3. PICK m0 \in MonthStarts : m0 = target[j]
  OBVIOUS
<1>4. PICK row \in Row : row = summary[m0]
  BY <1>3 DEF BookTypes
<1>5. summary'[m0] = CloseMonthlyPenaltySummary(row) /\ CloseMonthlyPenaltySummary(row) \in Row
  BY <1>1, <1>3, <1>4, Rows DEF BookTypes
<1>6. summary'[m0].daily = row.daily /\ summary'[m0].weekly = row.weekly
  BY <1>5 DEF CloseMonthlyPenaltySummary, Row
<1>7. \A s \in Evaluated : Total(s, m0)' = Total(s, m0)
  BY <1>4, <1>5, <1>6, Rows DEF Total, Evaluated
<1>8. \A s \in Evaluated, m \in MonthStarts : m # m0 => Total(s, m)' = Total(s, m)
  BY <1>1, <1>3 DEF Total, BookTypes
<1>9. \A s \in Evaluated, m \in MonthStarts : Total(s, m)' = Total(s, m)
  BY <1>7, <1>8
<1> QED
  BY <1>1, <1>2, <1>9 DEF Charges

LEMMA ClearsNote ==
  ASSUME JobTypes, NEW j \in Job, ClearTriggered(j) \/ AddTriggered(j)
  PROVE  Notes(j) /\ Charges(j)
<1>1. /\ step[j] \in {"clear", "trigger"} /\ UNCHANGED <<runs, dedupes, tariff, summary>>
      /\ NextInLoop(j) \/ step'[j] = "trigger"
  BY DEF ClearTriggered, AddTriggered, Goto, JobTypes
<1>2. ~Unjudged(j)' /\ step'[j] # "increment"
  BY <1>1, NextInLoopLeavesNothing DEF Unjudged
<1> QED
  BY <1>1, <1>2, NothingNoted, NothingCharged

LEMMA AdvanceNotes ==
  ASSUME ClosingInv, NEW j \in Job, Advance(j)
  PROVE  Notes(j) /\ Charges(j)
<1>1. HouseholdTypeOK /\ JobTypes /\ BookTypes /\ JobOK(j)
  BY TypeParts DEF ClosingInv, JobInv
<1>2. /\ step[j] \in {"sum", "increment"} => scope[j] \in Evaluated
      /\ step[j] \in {"judge", "close"} => scope[j] = "month"
      /\ step[j] \in {"increment", "close"} => summary[MonthOfJob(j)] # NoRow
  BY <1>1 DEF JobOK, Ensured
<1>3. /\ step[j] # "idle" => MonthOfJob(j) \in MonthStarts
      /\ step[j] = "close" => MonthOfJob(j) = target[j]
  BY <1>1, <1>2, ChargedMonthOfTurn DEF JobOK, JobTypes, MonthOfJob
<1>4. /\ SumPenalty(j) => step[j] = "sum"
      /\ Increment(j) => step[j] = "increment"
      /\ JudgeRules(j) => step[j] = "judge"
      /\ CloseSummary(j) => step[j] = "close"
  BY DEF SumPenalty, Increment, JudgeRules, CloseSummary
<1>5. CASE CloseSummary(j)
  BY <1>1, <1>2, <1>3, <1>4, <1>5, ClosesNote
<1>6. CASE Increment(j)
  BY <1>1, <1>2, <1>3, <1>4, <1>6, IncrementNotes
<1> QED
  BY <1>1, <1>2, <1>4, <1>5, <1>6, ReadsNote, UpsertsNote, InsertsNote, SumsNote, JudgesNote, ClearsNote
     DEF Advance

--------------------------------------------------------------------------------
(* The totals                                                               *)

\* A job that is about to add a bill has computed it.
AmountInv ==
  \A j \in Job, s \in Evaluated, p \in Nat : step[j] = "increment" /\ At(j, s, p) =>
    Counted(s, p) /\ amount[j] = Bill(s, p)

\* One job at a time, nothing fails, and no page creates a summary.
Careful == Ordered /\ MaxFailures = 0 /\ Viewer = {}

\* The total of a month is at most the sum of its final bills, and that sum if
\* care is taken.
TotalInv ==
  \A s \in Evaluated, m \in MonthStarts :
    /\ Total(s, m) <= Bills(s, Paid(s, m))
    /\ Careful => Total(s, m) = Bills(s, Paid(s, m))

\* With care, no run is left behind and no row is written over.
CareInv ==
  Careful =>
    /\ \A s \in Evaluated, p \in Nat : <<s, p>> \in runs =>
         Counted(s, p) \/ \E j \in Job : step[j] = "sum" /\ At(j, s, p)
    /\ \A j \in Job : step[j] = "upsert" => summary[MonthOfJob(j)] = NoRow

ChargeInv == NoteInv /\ PointsInv /\ AmountInv /\ TotalInv /\ CareInv

LEMMA TotalIsNat ==
  ASSUME BookTypes, NEW s \in Evaluated, NEW m \in MonthStarts
  PROVE  Total(s, m) \in Nat
<1>1. CASE summary[m] = NoRow
  BY <1>1 DEF Total
<1>2. CASE summary[m] # NoRow
  <2>1. summary[m] \in Row
    BY <1>2 DEF BookTypes
  <2>2. summary[m].daily \in Nat /\ summary[m].weekly \in Nat
    BY <2>1 DEF Row
  <2> QED
    BY <1>2, <2>2 DEF Total, Evaluated
<1> QED
  BY <1>1, <1>2

\* A run is settled once no job is between its entry and its end.
SettledFacts ==
  \A s \in Evaluated, p \in Nat :
    Settled(s, p) <=> <<s, p>> \in runs /\ \A j \in Job : Entered(j) => ~At(j, s, p)

LEMMA SettledIs == ClosingInv => SettledFacts
<1> SUFFICES ASSUME ClosingInv PROVE SettledFacts
  OBVIOUS
<1>1. \A j \in Job : scope[j] \in Evaluated => (Entered(j) <=> step[j] \in {"sum", "increment"})
  BY DEF ClosingInv, JobInv, JobOK, Entered, Evaluated
<1> QED
  BY <1>1 DEF SettledFacts, Settled, At

LEMMA SettledWillBe == ClosingInv' => SettledFacts'
BY SettledIs, PTL

\* Without steps of members, a bill by a settled tariff stays.
LEMMA CountedStays ==
  ASSUME UNCHANGED householdVars, NoteInv,
         NEW s \in Evaluated, NEW p \in Nat, Counted(s, p),
         MaxEdits = 0 => tariff' = tariff,
         <<s, p>> \in DOMAIN tariff => <<s, p>> \in DOMAIN tariff' /\ tariff'[<<s, p>>] = tariff[<<s, p>>]
  PROVE  Counted(s, p)' /\ Bill(s, p)' = Bill(s, p)
<1>1. Counted(s, p)'
  BY DEF Counted
<1>2. TariffOf(s, p)' = TariffOf(s, p)
  BY DEF Counted, TariffOf, Tariff, householdVars, taskVars, ruleVars
<1>3. Neglected(s, p)' = Neglected(s, p)
  BY <1>2 DEF Neglected, Existed, householdVars, taskVars
<1> QED
  BY <1>1, <1>2, <1>3 DEF Bill

LEMMA JobNotes ==
  ASSUME ClosingInv, NoteInv, NEW j \in Job, Acts(j), Notes(j)
  PROVE  /\ NoteInv'
         /\ \A s \in Scope, p \in Nat : <<s, p>> \in DOMAIN tariff =>
              <<s, p>> \in DOMAIN tariff' /\ tariff'[<<s, p>>] = tariff[<<s, p>>]
<1>1. /\ JobTypes /\ \A i \in Job : Unjudged(i) => Entered(i) /\ <<scope[i], target[i]>> \in runs
  BY TypeParts DEF ClosingInv, JobInv, JobOK, Unjudged, Entered
<1>2. \A i \in Job : Unjudged(i) => scope[i] \in Scope /\ target[i] \in Nat /\ ~Noted(scope[i], target[i])
  BY <1>1 DEF NoteInv, JobTypes
<1>3. \A s \in Scope, p \in Nat : <<s, p>> \in DOMAIN tariff =>
        <<s, p>> \in DOMAIN tariff' /\ tariff'[<<s, p>>] = tariff[<<s, p>>]
  BY <1>2 DEF Notes, At, Noted
<1>4. ASSUME NEW s \in Scope, NEW p \in Nat, Noted(s, p)'
      PROVE  <<s, p>> \in runs' /\ \A i \in Job : Unjudged(i)' => scope'[i] # s \/ target'[i] # p
  <2>1. \A i \in Job \ {j} : (Unjudged(i)' <=> Unjudged(i)) /\ scope'[i] = scope[i] /\ target'[i] = target[i]
    BY DEF Acts, Others, Unjudged
  <2>2. CASE Noted(s, p)
    <3>1. <<s, p>> \in runs /\ \A i \in Job : Unjudged(i) => scope[i] # s \/ target[i] # p
      BY <2>2 DEF NoteInv
    <3> QED
      BY <2>1, <3>1 DEF Acts, Notes
  <2>3. CASE ~Noted(s, p)
    <3>1. At(j, s, p) /\ Unjudged(j) /\ ~Unjudged(j)'
      BY <1>4, <2>3 DEF Notes
    <3>2. <<s, p>> \in runs /\ \A i \in Job \ {j} : Unjudged(i) => scope[i] # s \/ target[i] # p
      BY <1>1, <3>1 DEF ClosingInv, ExclusiveInv, At
    <3> QED
      BY <2>1, <3>1, <3>2 DEF Acts
  <2> QED
    BY <2>2, <2>3
<1> QED
  BY <1>3, <1>4 DEF NoteInv, Notes

\* Tariffs noted in a step hold the present points.
LEMMA PointsStay ==
  ASSUME HouseholdTypeOK, UNCHANGED householdVars, PointsInv,
         \A s \in Evaluated, p \in Nat : <<s, p>> \in DOMAIN tariff' =>
           \/ <<s, p>> \in DOMAIN tariff /\ tariff'[<<s, p>>] = tariff[<<s, p>>]
           \/ tariff'[<<s, p>>] = Tariff(s, p)
  PROVE  PointsInv'
<1> SUFFICES ASSUME NEW s \in Evaluated, NEW p \in Nat, <<s, p>> \in DOMAIN tariff',
                    NEW t \in Task, Existed(t, LastDayOf(s, p))'
             PROVE  tariff'[<<s, p>>].points[t] \in Nat
  BY DEF PointsInv
<1>1. Existed(t, LastDayOf(s, p))
  BY DEF Existed, householdVars, taskVars
<1>2. CASE <<s, p>> \in DOMAIN tariff /\ tariff'[<<s, p>>] = tariff[<<s, p>>]
  BY <1>1, <1>2 DEF PointsInv
<1>3. CASE tariff'[<<s, p>>] = Tariff(s, p)
  <2>1. Tariff(s, p).points[t] \in Nat
    BY <1>1, PresentTariff
  <2> QED
    BY <1>3, <2>1
<1> QED
  BY <1>2, <1>3

LEMMA JobPoints ==
  ASSUME ClosingInv, NoteInv, PointsInv, NEW j \in Job, Acts(j), Notes(j)
  PROVE  PointsInv'
<1>1. HouseholdTypeOK /\ UNCHANGED householdVars /\ Evaluated \subseteq Scope
  BY TypeParts DEF ClosingInv, Acts, Evaluated, Scope
<1>2. \A s \in Evaluated, p \in Nat : <<s, p>> \in DOMAIN tariff' =>
        \/ <<s, p>> \in DOMAIN tariff /\ tariff'[<<s, p>>] = tariff[<<s, p>>]
        \/ tariff'[<<s, p>>] = Tariff(s, p)
  BY <1>1, JobNotes DEF Notes
<1> QED
  BY <1>1, <1>2, PointsStay

\* Before its evaluation, nothing of a period is taken for evaluated: what is
\* fresh then is what its bill is made of.
LEMMA FreshBill ==
  ASSUME HouseholdTypeOK', PointsInv', UNCHANGED householdVars,
         NEW s \in Evaluated, NEW p \in Nat, ~Noted(s, p),
         <<s, p>> \in DOMAIN tariff' => tariff'[<<s, p>>] = Tariff(s, p)
  PROVE  Bill(s, p)' = Cost(Fresh(s, p))
<1>1. Fresh(s, p) = Missed(s, p)
  <2>1. Missed(s, p) \in SUBSET Task
    BY DEF Missed, MissedDaily, MissedWeekly, Task
  <2> QED
    BY <2>1 DEF Fresh, Noted
<1>2. Tariff(s, p)' = Tariff(s, p) /\ Cost(Missed(s, p))' = Cost(Missed(s, p))
  BY DEF Tariff, Cost, Missed, MissedDaily, MissedWeekly, InEffect, householdVars, taskVars, ruleVars
<1>3. TariffOf(s, p)' = Tariff(s, p)'
  BY <1>2 DEF TariffOf
<1>4. BillFacts'
  BY BillsWillBe
<1> QED
  BY <1>1, <1>2, <1>3, <1>4 DEF BillFacts

LEMMA JudgedBill ==
  ASSUME HouseholdTypeOK', PointsInv', NoteInv, NEW j \in Job, step[j] = "sum",
         UNCHANGED householdVars, Notes(j),
         NEW s \in Evaluated, NEW p \in Nat, At(j, s, p)
  PROVE  Bill(s, p)' = Cost(Fresh(s, p))
<1>1. ~Noted(s, p) /\ s \in Scope
  BY DEF NoteInv, Unjudged, At, Evaluated, Scope
<1>2. <<s, p>> \in DOMAIN tariff' => tariff'[<<s, p>>] = Tariff(s, p)
  BY <1>1 DEF Notes, Noted
<1> QED
  BY <1>1, <1>2, FreshBill

\* What a step of job j leaves of the bills that are final, and the one bill
\* that it may add to them.
LEMMA JobPays ==
  ASSUME ClosingInv, ClosingInv', NoteInv, NEW j \in Job, Acts(j), Notes(j),
         NEW s \in Evaluated, NEW m \in MonthStarts
  PROVE  /\ \A p \in Paid(s, m) : p \in Paid(s, m)' /\ Bill(s, p)' = Bill(s, p)
         /\ \A p \in Paid(s, m)' \ Paid(s, m) :
              At(j, s, p) /\ Entered(j) /\ ~(Entered(j)' /\ At(j, s, p)')
<1>1. /\ SettledFacts /\ SettledFacts'
      /\ \A q \in Scope, p \in Nat : <<q, p>> \in DOMAIN tariff =>
           <<q, p>> \in DOMAIN tariff' /\ tariff'[<<q, p>>] = tariff[<<q, p>>]
      /\ s \in Scope
  BY SettledIs, SettledWillBe, JobNotes DEF Evaluated, Scope
<1>2. \A p : (p \in Paid(s, m) => p \in PeriodsOf(s, m) /\ p \in Nat /\ Settled(s, p) /\ Counted(s, p))
  BY PeriodsOfMonths DEF Paid
<1>3. \A i \in Job \ {j} : \A p \in Nat :
        (Entered(i)' <=> Entered(i)) /\ (At(i, s, p)' <=> At(i, s, p))
  BY DEF Acts, Others, Entered, At
<1>4. \A p \in Nat : Entered(j)' /\ At(j, s, p)' =>
        (Entered(j) /\ At(j, s, p)) \/ <<s, p>> \notin runs
  BY DEF Acts, At
<1>5. ASSUME NEW p \in Paid(s, m)
      PROVE  p \in Paid(s, m)' /\ Bill(s, p)' = Bill(s, p)
  <2>1. p \in PeriodsOf(s, m) /\ p \in Nat /\ Settled(s, p) /\ Counted(s, p)
    BY <1>2
  <2>2. <<s, p>> \in runs /\ \A i \in Job : Entered(i) => ~At(i, s, p)
    BY <1>1, <2>1 DEF SettledFacts
  <2>3. <<s, p>> \in runs' /\ \A i \in Job : Entered(i)' => ~At(i, s, p)'
    BY <1>3, <1>4, <2>1, <2>2 DEF Acts
  <2>4. Settled(s, p)'
    BY <1>1, <2>1, <2>3 DEF SettledFacts
  <2>5. Counted(s, p)' /\ Bill(s, p)' = Bill(s, p)
    BY <1>1, <2>1, CountedStays DEF Acts, Notes
  <2> QED
    BY <2>1, <2>4, <2>5 DEF Paid
<1>6. ASSUME NEW p \in Paid(s, m)' \ Paid(s, m)
      PROVE  At(j, s, p) /\ Entered(j) /\ ~(Entered(j)' /\ At(j, s, p)')
  <2>1. p \in PeriodsOf(s, m) /\ p \in Nat /\ Settled(s, p)' /\ Counted(s, p)' /\ (~Settled(s, p) \/ ~Counted(s, p))
    BY PeriodsOfMonths DEF Paid
  <2>2. <<s, p>> \in runs' /\ \A i \in Job : Entered(i)' => ~At(i, s, p)'
    BY <1>1, <2>1 DEF SettledFacts
  <2>3. CASE Settled(s, p)
    <3>1. <<s, p>> \in DOMAIN tariff' /\ <<s, p>> \notin DOMAIN tariff
      BY <2>1, <2>3 DEF Counted
    <3>2. At(j, s, p) /\ Unjudged(j)
      BY <1>1, <2>1, <3>1 DEF Notes
    <3> QED
      BY <2>2, <3>2 DEF Unjudged, Entered
  <2>4. CASE ~Settled(s, p)
    <3>1. <<s, p>> \notin runs \/ \E i \in Job : Entered(i) /\ At(i, s, p)
      BY <1>1, <2>1, <2>4 DEF SettledFacts
    <3>2. <<s, p>> \in runs
      BY <2>1, <2>2 DEF Notes, Entered
    <3> QED
      BY <1>3, <2>1, <2>2, <3>1, <3>2
  <2> QED
    BY <2>3, <2>4
<1> QED
  BY <1>5, <1>6

\* The period a job leaves evaluated is added to the bills that are final.
LEMMA JobSettles ==
  ASSUME ClosingInv, ClosingInv', NoteInv, NEW j \in Job, Acts(j), Notes(j), Charges(j),
         AmountInv, step[j] \in {"sum", "increment"}, step'[j] # "increment",
         NEW s \in Evaluated, NEW m \in MonthStarts, s = scope[j], m = MonthOfJob(j)
  PROVE  Paid(s, m)' \ Paid(s, m) = {target[j]} /\ target[j] \in Nat
<1>1. /\ HouseholdTypeOK /\ JobTypes /\ JobOK(j) /\ SettledFacts /\ SettledFacts' /\ s \in Scope
  BY TypeParts, SettledIs, SettledWillBe DEF ClosingInv, JobInv, Evaluated, Scope
<1>2. PICK p \in Nat : p = target[j]
  BY <1>1 DEF JobTypes
<1>3. /\ Entered(j) /\ ~Entered(j)' /\ At(j, s, p) /\ <<s, p>> \in runs /\ Turn(s, p)
  BY <1>1, <1>2 DEF Entered, At, Charges, JobOK
<1>4. p \in PeriodsOf(s, m)
  <2>1. p \in Begins(s) /\ p <= LastDay /\ ChargedMonth(s, p) = m
    BY <1>1, <1>2, <1>3, TurnIsOver, Days DEF MonthOfJob, Day
  <2> QED
    BY <2>1, PeriodsOfMonths
<1>5. Settled(s, p)'
  <2>1. \A i \in Job \ {j} : Entered(i) => ~At(i, s, p)
    BY <1>3 DEF ClosingInv, ExclusiveInv, At
  <2>2. \A i \in Job \ {j} : Entered(i)' => ~At(i, s, p)'
    BY <2>1 DEF Acts, Others, Entered, At
  <2> QED
    BY <1>1, <1>3, <2>2 DEF SettledFacts, Acts
<1>6. Counted(s, p)'
  <2>1. CASE step[j] = "sum"
    BY <1>1, <1>3, <2>1 DEF Charges
  <2>2. CASE step[j] = "increment"
    <3>1. Counted(s, p)
      BY <1>3, <2>2 DEF AmountInv
    <3> QED
      BY <1>1, <3>1, JobNotes DEF Counted
  <2> QED
    BY <2>1, <2>2
<1>7. p \in Paid(s, m)' /\ p \notin Paid(s, m)
  BY <1>1, <1>3, <1>4, <1>5, <1>6 DEF Paid, SettledFacts
<1>8. \A q \in Paid(s, m)' \ Paid(s, m) : q = p
  BY <1>2, JobPays DEF At
<1> QED
  BY <1>2, <1>7, <1>8

\* A step of a job adds to a total what it adds to the bills that are final,
\* or overwrites the row.
LEMMA JobTotals ==
  ASSUME ClosingInv, ClosingInv', NoteInv, PointsInv, PointsInv', AmountInv,
         NEW j \in Job, Acts(j), Notes(j), Charges(j),
         NEW s \in Evaluated, NEW m \in MonthStarts,
         NEW D, D = Paid(s, m)' \ Paid(s, m)
  PROVE  \/ Total(s, m)' = Total(s, m) + Bills(s, D)'
         \/ step[j] = "upsert" /\ m = MonthOfJob(j) /\ Total(s, m)' = 0
<1>1. /\ HouseholdTypeOK /\ HouseholdTypeOK' /\ JobTypes /\ BookTypes /\ JobOK(j)
  BY TypeParts, SameDay DEF ClosingInv, JobInv, Acts
<1>2. SumFacts'
  BY <1>1, BillsWillBe, SumsWillBe
<1>3. \A p \in Nat : Bills(s, {p})' = Bill(s, p)' /\ Bills(s, {})' = 0
  BY <1>2, FS_EmptySet DEF SumFacts
<1>4. Total(s, m) \in Nat
  BY <1>1, TotalIsNat
<1>5. CASE step[j] \in {"sum", "increment"} /\ step'[j] # "increment" /\ s = scope[j] /\ m = MonthOfJob(j)
  <2>1. PICK p \in Nat : p = target[j] /\ D = {p}
    BY <1>5, JobSettles
  <2>2. p \in Paid(s, m)' /\ Counted(s, p)' /\ At(j, s, p)
    BY <1>5, <2>1 DEF Paid, At
  <2>3. Bills(s, D)' = Bill(s, p)'
    BY <1>3, <2>1
  <2>4. CASE step[j] = "sum"
    <3>1. Bill(s, p)' = Cost(Fresh(s, p)) /\ Cost(Fresh(s, p)) = 0
      BY <1>1, <1>5, <2>1, <2>2, <2>4, JudgedBill DEF Acts, Charges
    <3>2. Total(s, m)' = Total(s, m)
      BY <2>4 DEF Charges
    <3> QED
      BY <1>4, <2>3, <3>1, <3>2
  <2>5. CASE step[j] = "increment"
    <3>1. Counted(s, p) /\ amount[j] = Bill(s, p)
      BY <2>2, <2>5 DEF AmountInv
    <3>2. \A q \in Scope, k \in Nat : <<q, k>> \in DOMAIN tariff =>
            <<q, k>> \in DOMAIN tariff' /\ tariff'[<<q, k>>] = tariff[<<q, k>>]
      BY JobNotes
    <3>3. s \in Scope /\ UNCHANGED householdVars /\ (MaxEdits = 0 => tariff' = tariff)
      BY DEF Evaluated, Scope, Acts, Notes
    <3>4. Bill(s, p)' = Bill(s, p)
      BY <3>1, <3>2, <3>3, CountedStays
    <3>5. Total(s, m)' = Total(s, m) + amount[j]
      BY <1>5, <2>5 DEF Charges
    <3> QED
      BY <2>3, <3>1, <3>4, <3>5
  <2> QED
    BY <1>5, <2>4, <2>5
<1>6. CASE ~(step[j] \in {"sum", "increment"} /\ step'[j] # "increment" /\ s = scope[j] /\ m = MonthOfJob(j))
  <2>1. ASSUME NEW p \in D PROVE FALSE
    <3>1. At(j, s, p) /\ Entered(j) /\ ~(Entered(j)' /\ At(j, s, p)')
      BY <2>1, JobPays
    <3>2. p \in PeriodsOf(s, m)
      BY <2>1 DEF Paid
    <3>3. MonthOfJob(j) = m
      BY <3>1, <3>2, PeriodsOfMonths DEF MonthOfJob, At
    <3>4. step[j] \in {"sum", "increment"}
      BY <1>1, <3>1 DEF Entered, At, JobOK, Evaluated
    <3>5. step'[j] = "increment" /\ scope'[j] = scope[j] /\ target'[j] = target[j]
      BY <1>6, <3>1, <3>3, <3>4 DEF At, Charges
    <3> QED
      BY <3>1, <3>5 DEF At, Entered
  <2>2. D = {} /\ Bills(s, D)' = 0
    BY <1>3, <2>1
  <2>3. ~(step[j] = "increment" /\ s = scope[j] /\ m = MonthOfJob(j))
    BY <1>6 DEF Charges
  <2>4. Total(s, m)' = Total(s, m) \/ (step[j] = "upsert" /\ m = MonthOfJob(j) /\ Total(s, m)' = 0)
    BY <2>3 DEF Charges
  <2> QED
    BY <1>4, <2>2, <2>4
<1> QED
  BY <1>5, <1>6

\* What a step of a job does to the invariant of the totals.  Only a statement
\* of the job itself takes it to the creation of a row it has missed.
LEMMA JobCharges ==
  ASSUME ClosingInv, ClosingInv', ChargeInv, Careful => OrderInv,
         NEW j \in Job, Acts(j), Notes(j), Charges(j),
         step[j] # "idle" \/ UNCHANGED summary,
         step'[j] = "upsert" =>
           scope'[j] = scope[j] /\ target'[j] = target[j] /\ summary'[MonthOfJob(j)] = NoRow
  PROVE  ChargeInv'
<1>1. /\ HouseholdTypeOK /\ HouseholdTypeOK' /\ JobTypes /\ BookTypes /\ BookTypes' /\ JobInv /\ JobInv'
  BY TypeParts, SameDay, PTL DEF ClosingInv, Acts
<1>2. NoteInv' /\ PointsInv'
  BY JobNotes, JobPoints DEF ChargeInv
<1>3. \A s \in Scope, p \in Nat : <<s, p>> \in DOMAIN tariff =>
        <<s, p>> \in DOMAIN tariff' /\ tariff'[<<s, p>>] = tariff[<<s, p>>]
  BY JobNotes DEF ChargeInv
<1>4. \A s \in Evaluated, p \in Nat : Counted(s, p) => Counted(s, p)' /\ Bill(s, p)' = Bill(s, p)
  <2>1. Evaluated \subseteq Scope /\ UNCHANGED householdVars /\ (MaxEdits = 0 => tariff' = tariff) /\ NoteInv
    BY DEF Evaluated, Scope, Acts, Notes, ChargeInv
  <2> QED
    BY <1>3, <2>1, CountedStays
<1>5. AmountInv'
  <2> SUFFICES ASSUME NEW i \in Job, NEW s \in Evaluated, NEW p \in Nat,
                      step'[i] = "increment", At(i, s, p)'
               PROVE  Counted(s, p)' /\ amount'[i] = Bill(s, p)'
    BY DEF AmountInv
  <2>1. CASE i # j
    <3>1. step[i] = "increment" /\ At(i, s, p) /\ amount'[i] = amount[i]
      BY <2>1 DEF Acts, Others, At
    <3>2. Counted(s, p) /\ amount[i] = Bill(s, p)
      BY <3>1 DEF ChargeInv, AmountInv
    <3> QED
      BY <1>4, <3>1, <3>2
  <2>2. CASE i = j
    <3>1. step[j] = "sum" /\ At(j, s, p) /\ amount'[j] = Cost(Fresh(s, p))
      BY <2>2 DEF Charges, At
    <3>2. Counted(s, p)'
      BY <3>1 DEF Charges, Evaluated, Scope
    <3>3. Bill(s, p)' = Cost(Fresh(s, p))
      BY <1>1, <1>2, <3>1, <3>2, JudgedBill DEF Acts, ChargeInv
    <3> QED
      BY <2>2, <3>1, <3>2, <3>3
  <2> QED
    BY <2>1, <2>2
<1>6. TotalInv'
  <2> SUFFICES ASSUME NEW s \in Evaluated, NEW m \in MonthStarts
               PROVE  /\ Total(s, m)' <= Bills(s, Paid(s, m))'
                      /\ Careful => Total(s, m)' = Bills(s, Paid(s, m))'
    BY DEF TotalInv, Careful
  <2>0. PICK D : D = Paid(s, m)' \ Paid(s, m)
    OBVIOUS
  <2>1. BillFacts /\ BillFacts'
    BY <1>1, <1>2, BillsAre, BillsWillBe DEF ChargeInv
  <2>2. Paid(s, m) \subseteq Paid(s, m)' /\ \A p \in Paid(s, m) : Bill(s, p)' = Bill(s, p)
    BY JobPays DEF ChargeInv
  <2>3. \/ Total(s, m)' = Total(s, m) + Bills(s, D)'
        \/ step[j] = "upsert" /\ m = MonthOfJob(j) /\ Total(s, m)' = 0
    BY <1>2, <2>0, JobTotals DEF ChargeInv
  <2>4. ASSUME Careful, step[j] = "upsert", m = MonthOfJob(j)
        PROVE  Total(s, m) = 0 /\ Bills(s, D)' = 0
    <3>1. Total(s, m) = 0
      BY <2>4 DEF ChargeInv, CareInv, Total
    <3>2. ASSUME NEW p \in D PROVE FALSE
      <4>1. At(j, s, p) /\ Entered(j)
        BY <2>0, <3>2, JobPays DEF ChargeInv
      <4> QED
        BY <2>4, <4>1 DEF At, Entered, Evaluated
    <3>3. Bills(s, {})' = 0
      BY <2>1, SumsWillBe, FS_EmptySet DEF SumFacts
    <3>4. D = {}
      BY <3>2
    <3> QED
      BY <3>1, <3>3, <3>4
  <2>5. /\ Bills(s, Paid(s, m)) \in Nat /\ Bills(s, D)' \in Nat
        /\ Bills(s, Paid(s, m))' = Bills(s, Paid(s, m)) + Bills(s, D)'
    BY <2>0, <2>1, <2>2, BillsGrow
  <2>6. Total(s, m) \in Nat /\ Total(s, m) <= Bills(s, Paid(s, m)) /\ (Careful => Total(s, m) = Bills(s, Paid(s, m)))
    BY <1>1, TotalIsNat DEF ChargeInv, TotalInv
  <2>7. PICK x \in Nat, y \in Nat, t \in Nat :
          x = Bills(s, Paid(s, m)) /\ y = Bills(s, D)' /\ t = Total(s, m)
    BY <2>5, <2>6
  <2>8. Bills(s, Paid(s, m))' = x + y /\ t <= x /\ (Careful => t = x)
    BY <2>5, <2>6, <2>7
  <2>9. CASE Total(s, m)' = Total(s, m) + Bills(s, D)'
    <3>1. Total(s, m)' = t + y
      BY <2>7, <2>9
    <3> QED
      BY <2>8, <3>1
  <2>10. CASE step[j] = "upsert" /\ m = MonthOfJob(j) /\ Total(s, m)' = 0
    <3>1. Careful => x = 0 /\ y = 0
      BY <2>4, <2>7, <2>8, <2>10
    <3> QED
      BY <2>8, <2>10, <3>1
  <2> QED
    BY <2>3, <2>9, <2>10
<1>7. CareInv'
  <2> SUFFICES ASSUME Careful PROVE CareInv'
    BY DEF CareInv, Careful
  <2>1. ASSUME NEW s \in Evaluated, NEW p \in Nat, <<s, p>> \in runs'
        PROVE  Counted(s, p)' \/ \E i \in Job : step'[i] = "sum" /\ At(i, s, p)'
    <3>1. CASE <<s, p>> \notin runs
      BY <2>1, <3>1 DEF Notes
    <3>2. CASE <<s, p>> \in runs
      <4>1. CASE Counted(s, p)
        BY <1>4, <4>1
      <4>2. CASE ~Counted(s, p)
        <5>1. PICK i \in Job : step[i] = "sum" /\ At(i, s, p)
          BY <3>2, <4>2 DEF ChargeInv, CareInv
        <5>2. CASE i = j
          BY <5>1, <5>2 DEF Charges, Evaluated, Scope
        <5>3. CASE i # j
          BY <5>1, <5>3 DEF Acts, Others, At
        <5> QED
          BY <5>2, <5>3
      <4> QED
        BY <4>1, <4>2
    <3> QED
      BY <3>1, <3>2
  <2>2. ASSUME NEW i \in Job, step'[i] = "upsert" PROVE summary'[MonthOfJob(i)'] = NoRow
    <3>1. CASE i = j
      BY <2>2, <3>1 DEF MonthOfJob
    <3>2. CASE i # j
      <4>1. step[i] = "upsert" /\ MonthOfJob(i)' = MonthOfJob(i)
        BY <2>2, <3>2 DEF Acts, Others, MonthOfJob
      <4>2. UNCHANGED summary
        BY <3>2, <4>1 DEF OrderInv
      <4> QED
        BY <4>1, <4>2 DEF ChargeInv, CareInv
    <3> QED
      BY <3>1, <3>2
  <2> QED
    BY <2>1, <2>2 DEF CareInv
<1> QED
  BY <1>2, <1>5, <1>6, <1>7 DEF ChargeInv

\* A job comes to the creation of a row only when it has found none.
LEMMA AdvanceUpserts ==
  ASSUME ClosingInv, NEW j \in Job, Advance(j), step'[j] = "upsert"
  PROVE  scope'[j] = scope[j] /\ target'[j] = target[j] /\ summary'[MonthOfJob(j)] = NoRow
<1>1. JobTypes
  BY TypeParts DEF ClosingInv
<1>2. ASSUME NextInLoop(j) \/ EndJob(j) PROVE FALSE
  <2>1. CASE NextInLoop(j) /\ NextPeriod(scope[j], target[j]) <= end[j]
    <3>1. step'[j] = FirstStep(scope[j])
      BY <1>1, <2>1 DEF NextInLoop, JobTypes
    <3> QED
      BY <3>1 DEF FirstStep
  <2>2. CASE EndJob(j)
    BY <1>1, <2>2 DEF EndJob, JobTypes
  <2> QED
    BY <1>2, <2>1, <2>2 DEF NextInLoop
<1>3. \A x : Goto(j, x) => x = "upsert"
  BY <1>1 DEF Goto, JobTypes
<1>4. EnsureReads(j)
  <2>1. ~EnsureUpserts(j)
    BY <1>3 DEF EnsureUpserts
  <2>2. ~InsertRun(j)
    BY <1>2, <1>3 DEF InsertRun
  <2>3. ~SumPenalty(j)
    BY <1>2, <1>3 DEF SumPenalty
  <2>4. ~Increment(j)
    BY <1>2 DEF Increment
  <2>5. ~JudgeRules(j) /\ ~CloseSummary(j)
    BY <1>3 DEF JudgeRules, CloseSummary
  <2>6. ~ClearTriggered(j)
    BY <1>2, <1>3 DEF ClearTriggered
  <2>7. ~AddTriggered(j)
    BY <1>2 DEF AddTriggered
  <2> QED
    BY <2>1, <2>2, <2>3, <2>4, <2>5, <2>6, <2>7 DEF Advance
<1>5. GetSummary(MonthOfJob(j)) = NoRow /\ UNCHANGED jobVars /\ UNCHANGED summary
  <2>1. ~Goto(j, IF scope[j] = "month" THEN "judge" ELSE "insert")
    BY <1>3
  <2> DEFINE row == GetSummary(MonthOfJob(j))
  <2>2. row = NoRow \/ (row # NoRow /\ row.closed) \/ (row # NoRow /\ ~row.closed)
    OBVIOUS
  <2>3. ~(row # NoRow /\ row.closed)
    BY <1>2, <1>4 DEF EnsureReads
  <2>4. ~(row # NoRow /\ ~row.closed)
    BY <1>4, <2>1 DEF EnsureReads
  <2> QED
    BY <1>4, <2>2, <2>3, <2>4 DEF EnsureReads, bookVars
<1> QED
  BY <1>5 DEF GetSummary, jobVars

LEMMA AdvanceCharges ==
  ASSUME ClosingInv, ChargeInv, Careful => OrderInv, NEW j \in Job, Advance(j)
  PROVE  ChargeInv'
<1>1. ClosingInv' /\ Acts(j) /\ Notes(j) /\ Charges(j) /\ step[j] # "idle"
  BY AdvanceOK, AdvanceNotes, AdvanceMoves DEF Moves
<1> QED
  BY <1>1, JobCharges, AdvanceUpserts

LEMMA StartCharges ==
  ASSUME ClosingInv, ChargeInv, Careful => OrderInv, NEW j \in Job, NEW s \in Scope, StartJob(j, s)
  PROVE  ChargeInv'
<1>1. ClosingInv' /\ Acts(j) /\ JobTypes
  BY StartJobOK, TypeParts DEF ClosingInv
<1>2. /\ step[j] = "idle" /\ UNCHANGED <<runs, dedupes, tariff, summary>>
      /\ step'[j] = FirstStep(s) /\ scope'[j] = s
  BY <1>1 DEF StartJob, bookVars, JobTypes
<1>3. ~Unjudged(j)' /\ step'[j] \notin {"increment", "upsert"}
  BY <1>2 DEF Unjudged, FirstStep
<1>4. Notes(j) /\ Charges(j)
  BY <1>2, <1>3, NothingNoted, NothingCharged
<1> QED
  BY <1>1, <1>2, <1>3, <1>4, JobCharges

\* A job that fails leaves its period uncharged, or counted but not yet added.
LEMMA FailCharges ==
  ASSUME ClosingInv, ChargeInv, NEW j \in Job, Fail(j)
  PROVE  ChargeInv'
<1>1. /\ ClosingInv' /\ Acts(j) /\ JobTypes /\ BookTypes /\ OtherTypes
      /\ HouseholdTypeOK /\ HouseholdTypeOK' /\ UNCHANGED householdVars
  BY FailOK, TypeParts, SameDay DEF ClosingInv, Acts
<1>2. step'[j] = "idle" /\ UNCHANGED <<runs, dedupes, tariff, summary>>
  BY <1>1 DEF Fail, EndJob, bookVars, JobTypes
<1>3. Notes(j) /\ ~Careful
  <2>1. ~Unjudged(j)'
    BY <1>2 DEF Unjudged
  <2>2. MaxFailures # 0
    BY <1>1 DEF Fail, OtherTypes
  <2> QED
    BY <1>2, <2>1, <2>2, NothingNoted DEF Careful
<1>4. NoteInv' /\ PointsInv'
  BY <1>1, <1>3, JobNotes, JobPoints DEF ChargeInv
<1>5. \A s \in Evaluated, p \in Nat : Counted(s, p) => Counted(s, p)' /\ Bill(s, p)' = Bill(s, p)
  BY <1>1, <1>2, CountedStays DEF ChargeInv
<1>6. AmountInv'
  BY <1>1, <1>2, <1>5 DEF ChargeInv, AmountInv, Acts, Others, At
<1>7. TotalInv'
  <2> SUFFICES ASSUME NEW s \in Evaluated, NEW m \in MonthStarts
               PROVE  Total(s, m)' <= Bills(s, Paid(s, m))'
    BY <1>3 DEF TotalInv, Careful
  <2>0. PICK D : D = Paid(s, m)' \ Paid(s, m)
    OBVIOUS
  <2>1. BillFacts /\ BillFacts'
    BY <1>1, <1>4, BillsAre, BillsWillBe DEF ChargeInv
  <2>2. Paid(s, m) \subseteq Paid(s, m)' /\ \A p \in Paid(s, m) : Bill(s, p)' = Bill(s, p)
    BY <1>1, <1>3, JobPays DEF ChargeInv
  <2>3. /\ Bills(s, Paid(s, m)) \in Nat /\ Bills(s, D)' \in Nat
        /\ Bills(s, Paid(s, m))' = Bills(s, Paid(s, m)) + Bills(s, D)'
    BY <2>0, <2>1, <2>2, BillsGrow
  <2>4. PICK x \in Nat, y \in Nat : x = Bills(s, Paid(s, m)) /\ y = Bills(s, D)'
    BY <2>3
  <2>5. Total(s, m)' = Total(s, m) /\ Total(s, m) \in Nat /\ Total(s, m) <= x
    BY <1>1, <1>2, <2>4, TotalIsNat DEF Total, ChargeInv, TotalInv
  <2> QED
    BY <2>3, <2>4, <2>5
<1> QED
  BY <1>3, <1>4, <1>6, <1>7 DEF ChargeInv, CareInv, Careful

\* Steps that leave runs, evaluations and bills alone, and add to no total.
LEMMA QuietCharges ==
  ASSUME ClosingInv, ChargeInv, UNCHANGED <<runs, dedupes, tariff, step, jobVars>>, PointsInv',
         \A s \in Evaluated, p \in Nat : Turn(s, p) /\ Counted(s, p) => Bill(s, p)' = Bill(s, p),
         \A s \in Evaluated, m \in MonthStarts : Total(s, m)' = Total(s, m) \/ Total(s, m)' = 0,
         Careful => UNCHANGED summary
  PROVE  ChargeInv'
<1>1. JobTypes /\ BookTypes /\ HouseholdTypeOK /\ JobInv /\ RunInv
  BY TypeParts DEF ClosingInv
<1>2. /\ UNCHANGED <<runs, dedupes, tariff, step, scope, target, amount>>
      /\ \A s \in Scope, p \in Nat : (Settled(s, p)' <=> Settled(s, p)) /\ (Counted(s, p)' <=> Counted(s, p))
      /\ \A j \in Job : \A s, p : At(j, s, p)' <=> At(j, s, p)
      /\ Evaluated \subseteq Scope
  BY DEF jobVars, Settled, Counted, At, Evaluated, Scope
<1>3. NoteInv'
  BY <1>2 DEF ChargeInv, NoteInv, Noted, Unjudged
<1>4. AmountInv'
  <2> SUFFICES ASSUME NEW j \in Job, NEW s \in Evaluated, NEW p \in Nat,
                      step'[j] = "increment", At(j, s, p)'
               PROVE  Counted(s, p)' /\ amount'[j] = Bill(s, p)'
    BY DEF AmountInv
  <2>1. step[j] = "increment" /\ At(j, s, p)
    BY <1>2
  <2>2. Turn(s, p)
    BY <1>1, <2>1 DEF JobInv, JobOK, At
  <2>3. Counted(s, p) /\ amount[j] = Bill(s, p)
    BY <2>1 DEF ChargeInv, AmountInv
  <2> QED
    BY <1>2, <2>2, <2>3
<1>5. TotalInv'
  <2> SUFFICES ASSUME NEW s \in Evaluated, NEW m \in MonthStarts
               PROVE  /\ Total(s, m)' <= Bills(s, Paid(s, m))'
                      /\ Careful => Total(s, m)' = Bills(s, Paid(s, m))'
    BY DEF TotalInv, Careful
  <2>1. PICK P : P = Paid(s, m)
    OBVIOUS
  <2>2. Paid(s, m)' = P /\ P \in SUBSET Nat /\ IsFiniteSet(P)
    BY <1>2, <2>1, PeriodsOfMonths, PaidIsFinite DEF Paid
  <2>3. \A p \in P : Turn(s, p) /\ Counted(s, p)
    BY <1>1, <1>2, <2>1, <2>2 DEF Paid, Settled, RunInv
  <2>4. \A p \in P : Bill(s, p)' = Bill(s, p)
    BY <2>2, <2>3
  <2>5. Bills(s, Paid(s, m))' = Bills(s, P)
    BY <2>2, <2>4 DEF Bills
  <2>6. Bills(s, P) \in Nat
    BY <1>1, <2>2, BillsAre, SumsAre, FS_EmptySet DEF ChargeInv, SumFacts
  <2>7. Total(s, m) <= Bills(s, P) /\ (Careful => Total(s, m) = Bills(s, P) /\ Total(s, m)' = Total(s, m))
    BY <2>1 DEF ChargeInv, TotalInv, Total
  <2> QED
    BY <2>5, <2>6, <2>7
<1>6. CareInv'
  <2>1. ASSUME Careful, NEW s \in Evaluated, NEW p \in Nat, <<s, p>> \in runs'
        PROVE  Counted(s, p)' \/ \E j \in Job : step'[j] = "sum" /\ At(j, s, p)'
    BY <1>2, <2>1 DEF ChargeInv, CareInv
  <2>2. ASSUME Careful, NEW j \in Job, step'[j] = "upsert" PROVE summary'[MonthOfJob(j)'] = NoRow
    BY <1>2, <2>2 DEF ChargeInv, CareInv, MonthOfJob
  <2> QED
    BY <2>1, <2>2 DEF CareInv, Careful
<1> QED
  BY <1>3, <1>4, <1>5, <1>6 DEF ChargeInv

LEMMA MemberCharges ==
  ASSUME ClosingInv, ChargeInv, Member, UNCHANGED <<bookVars, step, jobVars, viewing, failures>>
  PROVE  ChargeInv'
<1>1. /\ HouseholdTypeOK /\ HouseholdTypeOK' /\ LifeInv /\ RunInv /\ PointsInv /\ NoteInv
      /\ UNCHANGED <<runs, dedupes, summary, tariff>>
  BY TypeParts, MemberKeepsTypes DEF ClosingInv, ChargeInv, bookVars
<1>2. PointsInv'
  <2> SUFFICES ASSUME NEW s \in Evaluated, NEW p \in Nat, <<s, p>> \in DOMAIN tariff,
                      NEW t \in Task, Existed(t, LastDayOf(s, p))'
               PROVE  tariff[<<s, p>>].points[t] \in Nat
    BY <1>1 DEF PointsInv
  <2>1. s \in Scope /\ Turn(s, p)
    BY <1>1 DEF NoteInv, Noted, RunInv, Evaluated, Scope
  <2>2. InEffect(t, NextPeriod(s, p))' <=> InEffect(t, NextPeriod(s, p))
    BY <1>1, <2>1, OverIsSealed DEF Turn
  <2>3. Existed(t, LastDayOf(s, p))
    BY <1>1, <2>2, EffectsAre, EffectsWillBe DEF Effects
  <2> QED
    BY <1>1, <2>3 DEF PointsInv
<1>3. \A s \in Evaluated, p \in Nat : Turn(s, p) /\ Counted(s, p) => Bill(s, p)' = Bill(s, p)
  BY <1>1, MembersLeaveBills
<1> QED
  BY <1>1, <1>2, <1>3, QuietCharges DEF Total

LEMMA StutterCharges ==
  ASSUME ClosingInv, ChargeInv, UNCHANGED vars
  PROVE  ChargeInv'
<1>1. /\ UNCHANGED <<householdVars, runs, dedupes, tariff, summary, step, jobVars>>
      /\ HouseholdTypeOK /\ PointsInv /\ NoteInv
  BY TypeParts DEF vars, bookVars, ClosingInv, ChargeInv
<1>2. PointsInv'
  BY <1>1, PointsStay
<1>3. \A s \in Evaluated, p \in Nat : Turn(s, p) /\ Counted(s, p) => Bill(s, p)' = Bill(s, p)
  BY <1>1, CountedStays
<1> QED
  BY <1>1, <1>2, <1>3, QuietCharges DEF Total

\* A page that creates a summary may overwrite the totals of the month.
LEMMA ViewCharges ==
  ASSUME ClosingInv, ChargeInv, NEW v \in Viewer, View(v)
  PROVE  ChargeInv'
<1>1. /\ UNCHANGED <<householdVars, runs, dedupes, tariff, step, jobVars>>
      /\ HouseholdTypeOK /\ BookTypes /\ OtherTypes /\ PointsInv /\ NoteInv
  BY TypeParts DEF View, ViewReads, ViewUpserts, bookVars, ClosingInv, ChargeInv
<1>2. PointsInv'
  BY <1>1, PointsStay
<1>3. \A s \in Evaluated, p \in Nat : Turn(s, p) /\ Counted(s, p) => Bill(s, p)' = Bill(s, p)
  BY <1>1, CountedStays
<1>4. \A s \in Evaluated, m \in MonthStarts : Total(s, m)' = Total(s, m) \/ Total(s, m)' = 0
  <2> SUFFICES ASSUME NEW s \in Evaluated, NEW m \in MonthStarts
               PROVE  Total(s, m)' = Total(s, m) \/ Total(s, m)' = 0
    OBVIOUS
  <2>1. summary'[m] = summary[m] \/ summary'[m] = EmptyRow
    BY <1>1 DEF View, ViewReads, ViewUpserts, bookVars, Upsert, BookTypes
  <2> QED
    BY <2>1, Rows DEF Total, EmptyRow, Evaluated
<1>5. ~Careful
  BY DEF Careful
<1> QED
  BY <1>1, <1>2, <1>3, <1>4, <1>5, QuietCharges

\* Statements of a user that close all the periods due at once: what they
\* settle, and by what tariff.
Settles(s) ==
  /\ UNCHANGED <<householdVars, step, jobVars>> /\ \A j \in Job : step[j] = "idle"
  /\ runs' = runs \cup {<<s, p>> : p \in Due(s)}
  /\ Due(s) \in SUBSET Nat /\ \A p \in Due(s) : <<s, p>> \notin runs
  /\ MaxEdits = 0 => tariff' = tariff
  /\ \A q \in Scope, p \in Nat : <<q, p>> \in DOMAIN tariff =>
       /\ <<q, p>> \in DOMAIN tariff'
       /\ tariff'[<<q, p>>] = tariff[<<q, p>>] \/ (q = s /\ p \in Due(s))
  /\ \A q \in Scope, p \in Nat : <<q, p>> \in DOMAIN tariff' /\ <<q, p>> \notin DOMAIN tariff =>
       q = s /\ p \in Due(s) /\ tariff'[<<q, p>>] = Tariff(q, p)
  /\ s # "month" /\ MaxEdits # 0 => \A p \in Due(s) : <<s, p>> \in DOMAIN tariff'
  /\ \A q \in Scope, p \in Nat, t \in Task : <<q, p, t>> \in dedupes' =>
       <<q, p, t>> \in dedupes \/ (q = s /\ p \in Due(s))

LEMMA UserSettles ==
  ASSUME ClosingInv, NEW s \in Scope, CloseForUser(s)
  PROVE  Settles(s)
<1>1. HouseholdTypeOK /\ RunInv
  BY TypeParts DEF ClosingInv
<1>2. /\ UNCHANGED <<householdVars, step, jobVars>> /\ \A j \in Job : step[j] = "idle"
      /\ runs' = runs \cup {<<s, p>> : p \in Due(s)} /\ Pending(s)
      /\ IF s = "month" THEN CloseDue ELSE ChargeDue(s)
  BY DEF CloseForUser
<1>3. Due(s) \in SUBSET Nat /\ \A p \in Due(s) : <<s, p>> \notin runs
  BY <1>1, <1>2, DueIsOver
<1>4. CASE s = "month"
  <2> DEFINE open == {m \in Due("month") : ~MonthClosed(m)}
  <2>1. Note("month", open) /\ UNCHANGED dedupes
    BY <1>2, <1>4 DEF CloseDue
  <2>2. open \in SUBSET Nat /\ open \subseteq Due(s)
    BY <1>3, <1>4
  <2> HIDE DEF open
  <2>3. /\ MaxEdits = 0 => tariff' = tariff
        /\ \A q \in Scope, p \in Nat : <<q, p>> \in DOMAIN tariff =>
             /\ <<q, p>> \in DOMAIN tariff'
             /\ tariff'[<<q, p>>] = tariff[<<q, p>>] \/ (q = s /\ p \in Due(s))
        /\ \A q \in Scope, p \in Nat : <<q, p>> \in DOMAIN tariff' /\ <<q, p>> \notin DOMAIN tariff =>
             q = s /\ p \in Due(s) /\ tariff'[<<q, p>>] = Tariff(q, p)
    BY <1>4, <2>1, <2>2, NoteNotes
  <2> QED
    BY <1>2, <1>3, <1>4, <2>1, <2>3 DEF Settles
<1>5. CASE s # "month"
  <2>1. /\ Note(s, Due(s))
        /\ dedupes' = dedupes \cup UNION {{<<s, p, t>> : t \in Fresh(s, p)} : p \in Due(s)}
    BY <1>2, <1>5 DEF ChargeDue
  <2>2. /\ MaxEdits = 0 => tariff' = tariff
        /\ \A q \in Scope, p \in Nat : <<q, p>> \in DOMAIN tariff =>
             /\ <<q, p>> \in DOMAIN tariff'
             /\ tariff'[<<q, p>>] = tariff[<<q, p>>] \/ (q = s /\ p \in Due(s))
        /\ \A q \in Scope, p \in Nat : <<q, p>> \in DOMAIN tariff' /\ <<q, p>> \notin DOMAIN tariff =>
             q = s /\ p \in Due(s) /\ tariff'[<<q, p>>] = Tariff(q, p)
        /\ MaxEdits # 0 => \A p \in Due(s) : <<s, p>> \in DOMAIN tariff'
    BY <1>3, <2>1, NoteNotes
  <2>3. \A q \in Scope, p \in Nat, t \in Task : <<q, p, t>> \in dedupes' =>
          <<q, p, t>> \in dedupes \/ (q = s /\ p \in Due(s))
    BY <2>1
  <2> QED
    BY <1>2, <1>3, <2>2, <2>3 DEF Settles
<1> QED
  BY <1>4, <1>5

\* What a user's closing settles keeps the notes and the points.
LEMMA UserNotes ==
  ASSUME ClosingInv, NoteInv, PointsInv, NEW s \in Scope, Settles(s)
  PROVE  /\ NoteInv' /\ PointsInv'
         /\ \A q \in Evaluated, p \in Nat : <<q, p>> \in runs /\ Counted(q, p) =>
              Counted(q, p)' /\ Bill(q, p)' = Bill(q, p)
<1>1. HouseholdTypeOK /\ Evaluated \subseteq Scope /\ UNCHANGED householdVars
  BY TypeParts DEF ClosingInv, Evaluated, Scope, Settles
<1>2. \A q \in Scope, p \in Nat : Noted(q, p) => <<q, p>> \in runs
  BY DEF NoteInv
<1>3. \A q \in Scope, p \in Nat : <<q, p>> \in runs => ~(q = s /\ p \in Due(s))
  BY DEF Settles
<1>4. \A q \in Scope, p \in Nat : <<q, p>> \in DOMAIN tariff =>
        <<q, p>> \in DOMAIN tariff' /\ tariff'[<<q, p>>] = tariff[<<q, p>>]
  BY <1>2, <1>3 DEF Settles, Noted
<1>5. \A q \in Scope, p \in Nat : Noted(q, p)' => <<q, p>> \in runs'
  <2> SUFFICES ASSUME NEW q \in Scope, NEW p \in Nat, Noted(q, p)' PROVE <<q, p>> \in runs'
    OBVIOUS
  <2>1. Noted(q, p) \/ (q = s /\ p \in Due(s))
    BY DEF Noted, Settles
  <2> QED
    BY <1>2, <2>1 DEF Settles
<1>6. \A j \in Job : ~Unjudged(j)'
  BY DEF Settles, Unjudged
<1>7. NoteInv'
  BY <1>5, <1>6 DEF NoteInv, Settles
<1>8. PointsInv'
  <2>1. \A q \in Evaluated, p \in Nat : <<q, p>> \in DOMAIN tariff' =>
          \/ <<q, p>> \in DOMAIN tariff /\ tariff'[<<q, p>>] = tariff[<<q, p>>]
          \/ tariff'[<<q, p>>] = Tariff(q, p)
    BY <1>1, <1>4 DEF Settles
  <2> QED
    BY <1>1, <2>1, PointsStay
<1>9. \A q \in Evaluated, p \in Nat : Counted(q, p) => Counted(q, p)' /\ Bill(q, p)' = Bill(q, p)
  <2>1. MaxEdits = 0 => tariff' = tariff
    BY DEF Settles
  <2> QED
    BY <1>1, <1>4, <2>1, CountedStays
<1> QED
  BY <1>7, <1>8, <1>9

\* The bills it makes final are those of the periods due.
LEMMA UserPays ==
  ASSUME ClosingInv, ClosingInv', NoteInv, PointsInv, NEW s \in Scope, Pending(s), Settles(s),
         NEW q \in Evaluated, NEW m \in MonthStarts
  PROVE  /\ \A p \in Paid(q, m) : p \in Paid(q, m)' /\ Bill(q, p)' = Bill(q, p)
         /\ Paid(q, m)' \ Paid(q, m) =
              IF q = s THEN {p \in Due(s) : ChargedMonth(s, p) = m} ELSE {}
         /\ q = s => \A p \in Due(s) : Bill(s, p)' = Cost(Fresh(s, p))
<1>1. /\ HouseholdTypeOK /\ HouseholdTypeOK' /\ RunInv /\ q \in Scope /\ q # "month"
      /\ UNCHANGED householdVars /\ PointsInv'
  BY TypeParts, SameDay, UserNotes DEF ClosingInv, Evaluated, Scope, Settles
<1>2. /\ Due(s) \in SUBSET Nat
      /\ \A p \in Nat : p \in Due(s) <=>
           p \in Begins(s) /\ NextTarget(s) <= p /\ p <= LastOver(s, today)
      /\ \A p \in Due(s) : p < Period(s, today) /\ <<s, p>> \notin runs
  BY <1>1, DueIsOver
<1>3. \A p \in Nat : /\ Settled(q, p) <=> <<q, p>> \in runs
                     /\ Settled(q, p)' <=> <<q, p>> \in runs'
  BY DEF Settles, Settled
<1>4. \A p \in Nat : <<q, p>> \in runs' <=> <<q, p>> \in runs \/ (q = s /\ p \in Due(s))
  BY DEF Settles
<1>5. \A p \in PeriodsOf(q, m) : p \in Nat
  BY PeriodsOfMonths
<1>6. \A p \in Paid(q, m) : p \in Paid(q, m)' /\ Bill(q, p)' = Bill(q, p)
  BY <1>3, <1>4, <1>5, UserNotes DEF Paid
<1>7. ASSUME NEW p \in Paid(q, m)' \ Paid(q, m)
      PROVE  q = s /\ p \in Due(s) /\ ChargedMonth(s, p) = m
  <2>1. p \in PeriodsOf(q, m) /\ p \in Nat /\ Settled(q, p)' /\ Counted(q, p)' /\ (~Settled(q, p) \/ ~Counted(q, p))
    BY <1>5 DEF Paid
  <2>2. q = s /\ p \in Due(s)
    BY <1>1, <1>3, <1>4, <2>1 DEF Counted, Settles
  <2> QED
    BY <2>1, <2>2, PeriodsOfMonths
<1>8. ASSUME q = s, NEW p \in Due(s), ChargedMonth(s, p) = m
      PROVE  p \in Paid(q, m)' \ Paid(q, m)
  <2>1. p \in Nat /\ p \in Begins(s) /\ p <= LastDay
    <3>1. p \in Begins(s) /\ p \in Nat /\ p < Period(s, today)
      BY <1>2
    <3>2. today \in Day /\ Period(s, today) <= today /\ Period(s, today) \in Nat
      BY <1>1, Days, PeriodOfDay, BeginsAreDays DEF HouseholdTypeOK
    <3> QED
      BY <3>1, <3>2, Days DEF Day
  <2>2. p \in PeriodsOf(q, m)
    BY <1>8, <2>1, PeriodsOfMonths
  <2>3. Counted(q, p)'
    BY <1>1, <1>8 DEF Counted, Settles
  <2> QED
    BY <1>2, <1>3, <1>4, <1>8, <2>1, <2>2, <2>3 DEF Paid
<1>9. q = s => \A p \in Due(s) : Bill(s, p)' = Cost(Fresh(s, p))
  <2> SUFFICES ASSUME q = s, NEW p \in Due(s) PROVE Bill(s, p)' = Cost(Fresh(s, p))
    OBVIOUS
  <2>1. ~Noted(s, p) /\ p \in Nat
    BY <1>2 DEF NoteInv
  <2>2. <<s, p>> \in DOMAIN tariff' => tariff'[<<s, p>>] = Tariff(s, p)
    BY <2>1 DEF Settles, Noted
  <2> QED
    BY <1>1, <2>1, <2>2, FreshBill
<1>10. Paid(q, m)' \ Paid(q, m) = IF q = s THEN {p \in Due(s) : ChargedMonth(s, p) = m} ELSE {}
  BY <1>7, <1>8
<1> QED
  BY <1>6, <1>9, <1>10

\* What a closing of a user adds to the totals.
LEMMA UserTotals ==
  ASSUME ClosingInv, NEW s \in Scope, CloseForUser(s), NEW q \in Evaluated, NEW m \in MonthStarts
  PROVE  Total(q, m)' = IF q = s /\ s # "month"
                        THEN Total(q, m) + SumOver([p \in {x \in Due(s) : ChargedMonth(s, x) = m} |-> Cost(Fresh(s, p))],
                                                   {x \in Due(s) : ChargedMonth(s, x) = m})
                        ELSE Total(q, m)
<1>1. /\ HouseholdTypeOK /\ BookTypes /\ RunInv /\ Pending(s)
      /\ IF s = "month" THEN CloseDue ELSE ChargeDue(s)
      /\ Total(q, m) \in Nat
  BY TypeParts, TotalIsNat DEF ClosingInv, CloseForUser
<1>2. /\ RowOf(m) \in Row
      /\ \A k \in Evaluated : Total(k, m) = IF k = "day" THEN RowOf(m).daily ELSE RowOf(m).weekly
  <2>1. CASE summary[m] = NoRow
    <3>1. RowOf(m) = EmptyRow
      BY <2>1 DEF RowOf, GetSummary
    <3> QED
      BY <2>1, <3>1, Rows DEF Total, EmptyRow, Evaluated
  <2>2. CASE summary[m] # NoRow
    <3>1. RowOf(m) = summary[m] /\ summary[m] \in Row
      BY <1>1, <2>2 DEF RowOf, GetSummary, BookTypes
    <3> QED
      BY <2>2, <3>1 DEF Total, Evaluated
  <2> QED
    BY <2>1, <2>2
<1>3. PICK row \in Row : row = RowOf(m)
  BY <1>2
<1>4. CASE s = "month"
  <2>1. summary'[m] = summary[m] \/ summary'[m] = CloseMonthlyPenaltySummary(row)
    BY <1>1, <1>3, <1>4 DEF CloseDue
  <2>2. CASE summary'[m] = summary[m]
    BY <1>4, <2>2 DEF Total
  <2>3. CASE summary'[m] = CloseMonthlyPenaltySummary(row)
    <3>1. summary'[m] \in Row /\ summary'[m].daily = row.daily /\ summary'[m].weekly = row.weekly
      BY <2>3, Rows DEF CloseMonthlyPenaltySummary, Row
    <3>2. Total(q, m)' = IF q = "day" THEN summary'[m].daily ELSE summary'[m].weekly
      BY <3>1, Rows DEF Total, Evaluated
    <3> QED
      BY <1>2, <1>3, <1>4, <3>1, <3>2
  <2> QED
    BY <2>1, <2>2, <2>3
<1>5. CASE s # "month"
  <2> DEFINE C == {x \in Due(s) : ChargedMonth(s, x) = m}
             f == [p \in C |-> Cost(Fresh(s, p))]
  <2>1. s \in Evaluated /\ ChargeDue(s)
    BY <1>1, <1>5 DEF Evaluated, Scope
  <2>2. summary'[m] = IF C = {} THEN summary[m] ELSE Charge(s, RowOf(m), SumOver(f, C))
    BY <2>1 DEF ChargeDue
  <2>3. SumOver(f, C) \in Nat
    <3>1. IsFiniteSet(C)
      BY <1>1, DueIsOver, FS_Subset
    <3>2. \A p \in C : f[p] \in Nat
      BY <1>1, CostIsNat
    <3> HIDE DEF C, f
    <3> QED
      BY <3>1, <3>2, SumIsNat
  <2>4. C = {} => SumOver(f, C) = 0
    <3> HIDE DEF f
    <3> QED
      BY SumOfNone
  <2>5. PICK n \in Nat : n = SumOver(f, C)
    BY <2>3
  <2>6. Total(q, m)' = IF q = s THEN Total(q, m) + n ELSE Total(q, m)
    <3> HIDE DEF f, C
    <3>1. CASE C = {}
      <4>1. n = 0 /\ Total(q, m)' = Total(q, m)
        BY <2>2, <2>4, <2>5, <3>1 DEF Total
      <4> QED
        BY <1>1, <4>1
    <3>2. CASE C # {}
      <4>1. summary'[m] = Charge(s, row, n) /\ Charge(s, row, n) \in Row
        BY <1>3, <2>2, <2>5, <3>2, Rows
      <4>2. /\ summary'[m].daily = IF s = "day" THEN row.daily + n ELSE row.daily
            /\ summary'[m].weekly = IF s = "day" THEN row.weekly ELSE row.weekly + n
        BY <4>1 DEF Charge, IncrementDailyPenalty, IncrementWeeklyPenalty, Row
      <4>3. Total(q, m)' = IF q = "day" THEN summary'[m].daily ELSE summary'[m].weekly
        BY <4>1, Rows DEF Total, Evaluated
      <4>4. CASE s = "day"
        BY <1>2, <1>3, <4>2, <4>3, <4>4 DEF Evaluated
      <4>5. CASE s = "week"
        BY <1>2, <1>3, <4>2, <4>3, <4>5 DEF Evaluated
      <4> QED
        BY <2>1, <4>4, <4>5 DEF Evaluated
    <3> QED
      BY <3>1, <3>2
  <2> QED
    BY <1>5, <2>5, <2>6
<1> QED
  BY <1>4, <1>5

LEMMA CloseForUserCharges ==
  ASSUME ClosingInv, ChargeInv, NEW s \in Scope, CloseForUser(s)
  PROVE  ChargeInv'
<1>1. /\ HouseholdTypeOK /\ HouseholdTypeOK' /\ BookTypes /\ RunInv
      /\ ClosingInv' /\ Settles(s) /\ Pending(s)
  BY TypeParts, SameDay, CloseForUserOK, UserSettles DEF ClosingInv, CloseForUser
<1>2. NoteInv' /\ PointsInv'
  BY <1>1, UserNotes DEF ChargeInv
<1>3. \A j \in Job : step'[j] = "idle"
  BY <1>1 DEF Settles
<1>4. AmountInv'
  BY <1>3 DEF AmountInv
<1>5. TotalInv'
  <2> SUFFICES ASSUME NEW q \in Evaluated, NEW m \in MonthStarts
               PROVE  /\ Total(q, m)' <= Bills(q, Paid(q, m))'
                      /\ Careful => Total(q, m)' = Bills(q, Paid(q, m))'
    BY DEF TotalInv, Careful
  <2>1. PICK D : D = Paid(q, m)' \ Paid(q, m)
    OBVIOUS
  <2>2. BillFacts /\ BillFacts'
    BY <1>1, <1>2, BillsAre, BillsWillBe DEF ChargeInv
  <2>3. /\ Paid(q, m) \subseteq Paid(q, m)' /\ \A p \in Paid(q, m) : Bill(q, p)' = Bill(q, p)
        /\ D = IF q = s THEN {p \in Due(s) : ChargedMonth(s, p) = m} ELSE {}
        /\ q = s => \A p \in Due(s) : Bill(s, p)' = Cost(Fresh(s, p))
    BY <1>1, <2>1, UserPays DEF ChargeInv
  <2>4. /\ Bills(q, Paid(q, m)) \in Nat /\ Bills(q, D)' \in Nat
        /\ Bills(q, Paid(q, m))' = Bills(q, Paid(q, m)) + Bills(q, D)'
    BY <2>1, <2>2, <2>3, BillsGrow
  <2>5. Total(q, m) \in Nat
    BY <1>1, TotalIsNat
  <2>6. Total(q, m)' = Total(q, m) + Bills(q, D)'
    <3>1. CASE q = s
      <4>1. s # "month" /\ D = {p \in Due(s) : ChargedMonth(s, p) = m}
        BY <2>3, <3>1 DEF Evaluated
      <4>2. Bills(q, D)' = SumOver([p \in D |-> Cost(Fresh(s, p))], D)
        BY <2>3, <3>1, <4>1 DEF Bills
      <4>3. Total(q, m)' = Total(q, m) + SumOver([p \in D |-> Cost(Fresh(s, p))], D)
        BY <3>1, <4>1, UserTotals
      <4> QED
        BY <4>2, <4>3
    <3>2. CASE q # s
      <4>1. D = {} /\ Total(q, m)' = Total(q, m)
        BY <2>3, <3>2, UserTotals
      <4>2. Bills(q, {})' = 0
        BY <2>2, SumsWillBe, FS_EmptySet DEF SumFacts
      <4> QED
        BY <2>5, <4>1, <4>2
    <3> QED
      BY <3>1, <3>2
  <2>7. PICK x \in Nat, y \in Nat, t \in Nat :
          x = Bills(q, Paid(q, m)) /\ y = Bills(q, D)' /\ t = Total(q, m)
    BY <2>4, <2>5
  <2>8. t <= x /\ (Careful => t = x)
    BY <2>7 DEF ChargeInv, TotalInv
  <2> QED
    BY <2>4, <2>6, <2>7, <2>8
<1>6. CareInv'
  <2>1. ASSUME Careful, NEW q \in Evaluated, NEW p \in Nat, <<q, p>> \in runs' PROVE Counted(q, p)'
    <3>1. CASE <<q, p>> \in runs
      <4>1. Counted(q, p)
        BY <1>1, <2>1, <3>1 DEF ChargeInv, CareInv, Settles
      <4> QED
        BY <1>1, <3>1, <4>1, UserNotes DEF ChargeInv
    <3>2. CASE <<q, p>> \notin runs
      <4>1. q = s /\ p \in Due(s) /\ s # "month"
        BY <1>1, <2>1, <3>2 DEF Settles, Evaluated
      <4> QED
        BY <1>1, <4>1 DEF Settles, Counted
    <3> QED
      BY <3>1, <3>2
  <2> QED
    BY <1>3, <2>1 DEF CareInv, Careful
<1> QED
  BY <1>2, <1>4, <1>5, <1>6 DEF ChargeInv

LEMMA InitCharges == Init => ChargeInv
<1> SUFFICES ASSUME Init PROVE ChargeInv
  OBVIOUS
<1>1. DOMAIN tariff = {} /\ dedupes = {} /\ runs = {} /\ \A j \in Job : step[j] = "idle"
  BY DEF Init
<1>2. NoteInv /\ PointsInv /\ AmountInv /\ CareInv
  BY <1>1 DEF NoteInv, Noted, PointsInv, AmountInv, CareInv
<1>3. TotalInv
  <2> SUFFICES ASSUME NEW s \in Evaluated, NEW m \in MonthStarts
               PROVE  Total(s, m) = 0 /\ Bills(s, Paid(s, m)) = 0
    BY DEF TotalInv
  <2>1. Paid(s, m) = {}
    BY <1>1 DEF Paid, Settled
  <2>2. Total(s, m) = 0
    BY DEF Init, Total
  <2> QED
    BY <2>1, <2>2, BillOfNone
<1> QED
  BY <1>2, <1>3 DEF ChargeInv

LEMMA NextCharges == ClosingInv /\ ChargeInv /\ (Careful => OrderInv) /\ [Next]_vars => ChargeInv'
<1> SUFFICES ASSUME ClosingInv, ChargeInv, Careful => OrderInv, [Next]_vars PROVE ChargeInv'
  OBVIOUS
<1>1. CASE Member /\ UNCHANGED <<bookVars, step, jobVars, viewing, failures>>
  BY <1>1, MemberCharges
<1>2. CASE UNCHANGED vars
  BY <1>2, StutterCharges
<1>3. ASSUME NEW j \in Job, NEW s \in Scope, NothingToClose(j, s) PROVE ChargeInv'
  BY <1>2, <1>3 DEF NothingToClose
<1> QED
  BY <1>1, <1>2, <1>3, AdvanceCharges, FailCharges, StartCharges, CloseForUserCharges, ViewCharges
     DEF Next

LEMMA AlwaysInOrderWithCare == Spec => [](Careful => OrderInv)
<1>1. CASE Ordered
  BY <1>1, AlwaysInOrder, PTL
<1>2. CASE ~Ordered
  <2>1. Careful => OrderInv
    BY <1>2 DEF Careful
  <2> QED
    BY <2>1, PTL
<1> QED
  BY <1>1, <1>2

LEMMA AlwaysCharges == Spec => []ChargeInv
BY InitCharges, NextCharges, AlwaysClosing, AlwaysInOrderWithCare, PTL DEF Spec

\* Whatever fails or interleaves, no month is ever charged more than its runs
\* cost: close_runs and task_evaluation_dedupes let no period be charged twice
\* nor to another month (store_closing.go:132-255, README.md:76).
THEOREM NothingIsChargedTwice == Spec => []NeverOvercharged
<1>1. ClosingInv /\ ChargeInv => NeverOvercharged
  <2> SUFFICES ASSUME ClosingInv, ChargeInv, NEW s \in Evaluated, NEW m \in MonthStarts
               PROVE  Total(s, m) <= Incurred(s, m)
    BY DEF NeverOvercharged
  <2>1. HouseholdTypeOK /\ BookTypes /\ BillFacts /\ Total(s, m) \in Nat
    BY TypeParts, BillsAre, TotalIsNat DEF ClosingInv, ChargeInv
  <2>2. PICK Q : Q = {p \in PeriodsOf(s, m) : <<s, p>> \in runs}
    OBVIOUS
  <2>3. Paid(s, m) \in SUBSET Q /\ Q \in SUBSET Nat /\ IsFiniteSet(Q)
    BY <2>2, PeriodsOfMonths, FS_Subset DEF Paid, Settled
  <2>4. /\ Bills(s, Paid(s, m)) \in Nat /\ Bills(s, Q) \in Nat
        /\ Bills(s, Paid(s, m)) <= Bills(s, Q)
    BY <2>1, <2>3, BillsOfPart DEF BillFacts
  <2>5. Total(s, m) <= Bills(s, Paid(s, m))
    BY DEF ChargeInv, TotalInv
  <2> QED
    BY <2>1, <2>2, <2>4, <2>5 DEF Incurred
<1> QED
  BY <1>1, AlwaysClosing, AlwaysCharges, PTL

\* What care buys: one job at a time in the order of README.md:69, none of which
\* fails, and no page that creates a summary.
LEMMA PaidIsSettled ==
  ASSUME ChargeInv, Careful, NEW s \in Evaluated, NEW m \in MonthStarts
  PROVE  /\ Paid(s, m) = {p \in PeriodsOf(s, m) : Settled(s, p)}
         /\ Total(s, m) = Owed(s, m) /\ Owed(s, m) = Bills(s, Paid(s, m))
<1>1. ASSUME NEW p \in PeriodsOf(s, m), Settled(s, p) PROVE Counted(s, p)
  BY <1>1, PeriodsOfMonths DEF ChargeInv, CareInv, Settled, At
<1>2. Paid(s, m) = {p \in PeriodsOf(s, m) : Settled(s, p)}
  BY <1>1 DEF Paid
<1> QED
  BY <1>2 DEF ChargeInv, TotalInv, Owed

\* In the order README.md:69 recommends, if no job fails and no page creates a
\* summary, the totals of every month are exactly what its settled days and
\* weeks cost, each counted once (store_closing.go:132-255).
THEOREM TotalsStayExact ==
  ASSUME Ordered, MaxFailures = 0, Viewer = {}
  PROVE  Spec => []TotalsExact
<1>1. ClosingInv /\ ChargeInv => TotalsExact
  BY PaidIsSettled DEF TotalsExact, Careful
<1> QED
  BY <1>1, AlwaysClosing, AlwaysCharges, PTL

--------------------------------------------------------------------------------
(* What every step keeps of the books                                       *)

Keeps ==
  /\ runs \subseteq runs'
  /\ Member \/ UNCHANGED householdVars
  /\ MaxEdits = 0 => tariff' = tariff
  /\ \A s \in Scope, p \in Nat : <<s, p>> \in DOMAIN tariff =>
       <<s, p>> \in DOMAIN tariff' /\ tariff'[<<s, p>>] = tariff[<<s, p>>]
  /\ \A s \in Scope, p \in Nat : <<s, p>> \in DOMAIN tariff' /\ <<s, p>> \notin DOMAIN tariff =>
       UNCHANGED householdVars /\ tariff'[<<s, p>>] = Tariff(s, p)
  /\ \A s \in Evaluated, m \in MonthStarts : \A p \in Paid(s, m) :
       p \in Paid(s, m)' /\ Bill(s, p)' = Bill(s, p)

LEMMA JobKeeps ==
  ASSUME ClosingInv, ClosingInv', NoteInv, NEW j \in Job, Acts(j), Notes(j)
  PROVE  Keeps
BY JobNotes, JobPays DEF Keeps, Acts, Notes

LEMMA QuietKeeps ==
  ASSUME ClosingInv, UNCHANGED <<runs, tariff, step, jobVars>>,
         Member \/ UNCHANGED householdVars,
         \A s \in Evaluated, p \in Nat : Turn(s, p) /\ Counted(s, p) => Bill(s, p)' = Bill(s, p)
  PROVE  Keeps
<1>1. RunInv /\ \A s \in Evaluated, m \in MonthStarts : \A p \in PeriodsOf(s, m) : p \in Nat
  BY PeriodsOfMonths DEF ClosingInv
<1>2. /\ \A s \in Evaluated, m \in MonthStarts : \A p \in Paid(s, m) :
           p \in PeriodsOf(s, m) /\ Settled(s, p) /\ Counted(s, p) /\ Turn(s, p)
  BY <1>1 DEF Paid, Settled, RunInv, Evaluated, Scope
<1>3. \A s \in Evaluated, m \in MonthStarts : Paid(s, m)' = Paid(s, m)
  BY DEF Paid, Settled, Counted, jobVars
<1> QED
  BY <1>1, <1>2, <1>3 DEF Keeps

LEMMA NextKeeps ==
  ASSUME ClosingInv, ChargeInv, [Next]_vars
  PROVE  Keeps
<1>1. /\ HouseholdTypeOK /\ LifeInv /\ JobTypes /\ BookTypes /\ OtherTypes
      /\ NoteInv /\ PointsInv
  BY TypeParts DEF ClosingInv, ChargeInv
<1>2. UNCHANGED <<householdVars, tariff>> =>
        \A s \in Evaluated, p \in Nat : Turn(s, p) /\ Counted(s, p) => Bill(s, p)' = Bill(s, p)
  BY <1>1, CountedStays
<1>3. ASSUME Member, UNCHANGED <<bookVars, step, jobVars, viewing, failures>> PROVE Keeps
  <2>1. HouseholdTypeOK' /\ UNCHANGED <<runs, tariff>>
    BY <1>1, <1>3, MemberKeepsTypes DEF bookVars
  <2>2. \A s \in Evaluated, p \in Nat : Turn(s, p) /\ Counted(s, p) => Bill(s, p)' = Bill(s, p)
    BY <1>1, <1>3, <2>1, MembersLeaveBills
  <2> QED
    BY <1>3, <2>1, <2>2, QuietKeeps
<1>4. ASSUME UNCHANGED vars PROVE Keeps
  BY <1>2, <1>4, QuietKeeps DEF vars, bookVars
<1>5. ASSUME NEW v \in Viewer, View(v) PROVE Keeps
  <2>1. UNCHANGED <<householdVars, runs, tariff, step, jobVars>>
    BY <1>5 DEF View, ViewReads, ViewUpserts, bookVars
  <2> QED
    BY <1>2, <2>1, QuietKeeps
<1>6. ASSUME NEW j \in Job, Advance(j) PROVE Keeps
  BY <1>1, <1>6, AdvanceOK, AdvanceNotes, JobKeeps
<1>7. ASSUME NEW j \in Job, NEW s \in Scope, StartJob(j, s) PROVE Keeps
  <2>1. ClosingInv' /\ Acts(j) /\ UNCHANGED <<runs, dedupes, tariff>>
    BY <1>7, StartJobOK DEF StartJob, bookVars
  <2>2. step'[j] = FirstStep(s) /\ scope'[j] = s
    BY <1>1, <1>7 DEF StartJob, JobTypes
  <2>3. ~Unjudged(j)'
    BY <2>2 DEF Unjudged, FirstStep
  <2> QED
    BY <1>1, <2>1, <2>3, NothingNoted, JobKeeps
<1>8. ASSUME NEW j \in Job, Fail(j) PROVE Keeps
  <2>1. ClosingInv' /\ Acts(j) /\ UNCHANGED <<runs, dedupes, tariff>> /\ step'[j] = "idle"
    BY <1>1, <1>8, FailOK DEF Fail, EndJob, JobTypes, bookVars
  <2>2. ~Unjudged(j)'
    BY <2>1 DEF Unjudged
  <2> QED
    BY <1>1, <2>1, <2>2, NothingNoted, JobKeeps
<1>9. ASSUME NEW s \in Scope, CloseForUser(s) PROVE Keeps
  <2>1. ClosingInv' /\ Settles(s) /\ Pending(s)
    BY <1>9, CloseForUserOK, UserSettles DEF CloseForUser
  <2>2. \A q \in Evaluated, m \in MonthStarts : \A p \in Paid(q, m) :
          p \in Paid(q, m)' /\ Bill(q, p)' = Bill(q, p)
    BY <1>1, <2>1, UserPays
  <2>3. \A q \in Scope, p \in Nat : <<q, p>> \in DOMAIN tariff =>
          <<q, p>> \in DOMAIN tariff' /\ tariff'[<<q, p>>] = tariff[<<q, p>>]
    BY <1>1, <2>1 DEF Settles, NoteInv, Noted
  <2> QED
    BY <2>1, <2>2, <2>3 DEF Keeps, Settles
<1>10. ASSUME NEW j \in Job, NEW s \in Scope, NothingToClose(j, s) PROVE Keeps
  BY <1>4, <1>10 DEF NothingToClose
<1> QED
  BY <1>3, <1>4, <1>5, <1>6, <1>7, <1>8, <1>9, <1>10 DEF Next

--------------------------------------------------------------------------------
(* Rules                                                                    *)

\* What the final bills of a month add up to.
Worth(m) == Bills("day", Paid("day", m)) + Bills("week", Paid("week", m))

WorthFacts == \A m \in MonthStarts : Worth(m) \in Nat

LEMMA WorthGrows ==
  ASSUME HouseholdTypeOK, HouseholdTypeOK', ChargeInv, ChargeInv', Keeps, NEW m \in MonthStarts
  PROVE  Worth(m) \in Nat /\ Worth(m)' \in Nat /\ Worth(m) <= Worth(m)'
<1>1. BillFacts /\ BillFacts'
  BY BillsAre, BillsWillBe DEF ChargeInv
<1>2. ASSUME NEW s \in Evaluated
      PROVE  \E x, y \in Nat : x = Bills(s, Paid(s, m)) /\ Bills(s, Paid(s, m))' = x + y
  <2>1. PICK D : D = Paid(s, m)' \ Paid(s, m)
    OBVIOUS
  <2>2. /\ Bills(s, Paid(s, m)) \in Nat /\ Bills(s, D)' \in Nat
        /\ Bills(s, Paid(s, m))' = Bills(s, Paid(s, m)) + Bills(s, D)'
    BY <1>1, <2>1, BillsGrow DEF Keeps
  <2> QED
    BY <2>2
<1>3. PICK x \in Nat, y \in Nat : x = Bills("day", Paid("day", m)) /\ Bills("day", Paid("day", m))' = x + y
  BY <1>2 DEF Evaluated
<1>4. PICK u \in Nat, v \in Nat : u = Bills("week", Paid("week", m)) /\ Bills("week", Paid("week", m))' = u + v
  BY <1>2 DEF Evaluated
<1>5. Worth(m) = x + u /\ Worth(m)' = (x + y) + (u + v)
  BY <1>3, <1>4 DEF Worth
<1> QED
  BY <1>5

\* Rule r was in force when month m ended.
InForceAtEnd(m, r) ==
  enacted[r] \in 1..(NextMonth(m) - 1) /\ repealed[r] \notin 1..(NextMonth(m) - 1)

\* Month m has a run, its thresholds are settled, and it pays for rule r.
PaysFor(m, r) ==
  /\ <<"month", m>> \in runs /\ Counted("month", m)
  /\ InForceAtEnd(m, r)
  /\ TariffOf("month", m).threshold[r] \in Nat
  /\ TariffOf("month", m).threshold[r] <= Worth(m)

\* Jobs find, and record, only rules that the month pays for.
RuleInv ==
  /\ \A j \in Job, m \in MonthStarts : step[j] = "judge" /\ target[j] = m =>
       amount[j] <= Worth(m)
  /\ \A j \in Job, m \in MonthStarts : step[j] \in {"close", "clear", "trigger"} /\ target[j] = m =>
       \A r \in found[j] : PaysFor(m, r)
  /\ \A m \in MonthStarts : \A r \in triggered[m] : PaysFor(m, r)

\* A month before the present one is over.
LEMMA PastMonth ==
  ASSUME HouseholdTypeOK, NEW m \in Begins("month"), m < Period("month", today)
  PROVE  /\ m \in MonthStarts /\ m \in Nat /\ NextMonth(m) \in Nat /\ NextMonth(m) <= today
         /\ today \in Nat
<1>1. "month" \in Scope /\ today \in Day
  BY DEF HouseholdTypeOK, Scope
<1>2. m \in Nat \ {0} /\ m < today /\ NextPeriod("month", m) <= today
  BY <1>1, BeginsAreDays, OverIsBefore DEF Day
<1>3. m \in MonthStarts /\ NextPeriod("month", m) = NextMonth(m)
  BY <1>1 DEF Begins, NextPeriod
<1>4. m <= LastDay + DaysPerWeek
  BY <1>1, <1>2, Days DEF Day
<1>5. NextMonth(m) \in Nat
  BY <1>3, <1>4, MonthAfterMonth, MonthsAreDays
<1> QED
  BY <1>1, <1>2, <1>3, <1>5, Days

\* A month whose turn has come is over.
LEMMA MonthIsOver ==
  ASSUME HouseholdTypeOK, NEW m, Turn("month", m)
  PROVE  /\ m \in MonthStarts /\ m \in Nat /\ NextMonth(m) \in Nat /\ NextMonth(m) <= today
         /\ today \in Nat
BY PastMonth DEF Turn

\* What is in force when a month ends, for the query and for the rules.
LEMMA InForceEnds ==
  ASSUME HouseholdTypeOK, NEW m \in MonthStarts, NextMonth(m) \in Nat, NEW r \in Rule
  PROVE  InForceAtEnd(m, r) <=> InForce(r, NextMonth(m))
<1>1. enacted[r] \in Nat /\ repealed[r] \in Nat
  BY Days DEF HouseholdTypeOK, Never
<1> QED
  BY <1>1 DEF InForceAtEnd, InForce, Never

\* The rules in force when a month ended stay the same once it is over.
LEMMA RulesStay ==
  ASSUME HouseholdTypeOK, Member \/ UNCHANGED householdVars,
         NEW m \in MonthStarts, NextMonth(m) \in Nat, NextMonth(m) <= today, NEW r \in Rule
  PROVE  InForceAtEnd(m, r)' <=> InForceAtEnd(m, r)
<1>1. CASE UNCHANGED householdVars
  BY <1>1 DEF InForceAtEnd, householdVars, ruleVars
<1>2. CASE Member
  <2>1. /\ enacted'[r] = enacted[r] \/ (enacted[r] = Never /\ enacted'[r] = today)
        /\ repealed'[r] = repealed[r] \/ (repealed[r] = Never /\ repealed'[r] = today)
    BY <1>2, MembersLeaveThePast DEF MemberLeaves
  <2>2. today \in Nat /\ 0 \notin 1..(NextMonth(m) - 1) /\ today \notin 1..(NextMonth(m) - 1)
    BY Days DEF HouseholdTypeOK
  <2> QED
    BY <2>1, <2>2 DEF InForceAtEnd, Never
<1> QED
  BY <1>1, <1>2

\* The present thresholds of the rules in force when a month ended.
LEMMA PresentThreshold ==
  ASSUME HouseholdTypeOK, NEW m \in MonthStarts, NextMonth(m) \in Nat, NEW r \in Rule,
         InForceAtEnd(m, r)
  PROVE  Tariff("month", m).threshold[r] = threshold[r] /\ threshold[r] \in Nat
<1> DEFINE B == {x \in DOMAIN enacted : enacted[x] # Never /\ enacted[x] < NextPeriod("month", m)}
<1>1. r \in B
  BY DEF InForceAtEnd, Never, NextPeriod, HouseholdTypeOK
<1>2. Tariff("month", m) = [threshold |-> [x \in B |-> threshold[x]]]
  BY DEF Tariff
<1> HIDE DEF B
<1> QED
  BY <1>1, <1>2 DEF HouseholdTypeOK

\* The thresholds of a month that has been judged stay.
LEMMA ThresholdStays ==
  ASSUME HouseholdTypeOK, HouseholdTypeOK', Keeps, NoteInv,
         NEW m \in MonthStarts, NextMonth(m) \in Nat, NextMonth(m) <= today, m \in Nat,
         NEW r \in Rule, InForceAtEnd(m, r), Counted("month", m)
  PROVE  Counted("month", m)' /\ TariffOf("month", m)'.threshold[r] = TariffOf("month", m).threshold[r]
<1>1. CASE <<"month", m>> \in DOMAIN tariff
  <2>1. <<"month", m>> \in DOMAIN tariff' /\ tariff'[<<"month", m>>] = tariff[<<"month", m>>]
    BY <1>1 DEF Keeps, Scope
  <2> QED
    BY <1>1, <2>1 DEF Counted, TariffOf
<1>2. CASE <<"month", m>> \notin DOMAIN tariff
  <2>1. MaxEdits = 0 /\ tariff' = tariff
    BY <1>2 DEF Counted, Keeps
  <2>2. TariffOf("month", m) = Tariff("month", m) /\ TariffOf("month", m)' = Tariff("month", m)'
    BY <1>2, <2>1 DEF TariffOf
  <2>3. Tariff("month", m).threshold[r] = threshold[r]
    BY PresentThreshold
  <2>4. CASE UNCHANGED householdVars
    <3>1. Tariff("month", m)' = Tariff("month", m)
      BY <2>4 DEF Tariff, householdVars, taskVars, ruleVars
    <3> QED
      BY <2>1, <2>2, <3>1 DEF Counted
  <2>5. CASE Member
    <3>1. enacted[r] # Never
      BY DEF InForceAtEnd, Never
    <3>2. enacted'[r] = enacted[r] /\ threshold'[r] = threshold[r]
      BY <2>1, <2>5, <3>1, MembersLeaveThePast DEF MemberLeaves
    <3> DEFINE B == {x \in DOMAIN enacted' : enacted'[x] # Never /\ enacted'[x] < NextPeriod("month", m)}
    <3>3. r \in B
      BY <3>2 DEF InForceAtEnd, Never, NextPeriod, HouseholdTypeOK
    <3>4. Tariff("month", m)' = [threshold |-> [x \in B |-> threshold'[x]]]
      BY DEF Tariff
    <3> HIDE DEF B
    <3>5. Tariff("month", m)'.threshold[r] = threshold'[r]
      BY <3>3, <3>4
    <3> QED
      BY <2>1, <2>2, <2>3, <3>2, <3>5 DEF Counted
  <2> QED
    BY <2>4, <2>5 DEF Keeps
<1> QED
  BY <1>1, <1>2

LEMMA PaysStays ==
  ASSUME HouseholdTypeOK, HouseholdTypeOK', RunInv, ChargeInv, ChargeInv', Keeps,
         NEW m \in MonthStarts, NEW r \in Rule, PaysFor(m, r)
  PROVE  PaysFor(m, r)'
<1>1. Turn("month", m)
  BY MonthsAreDays DEF PaysFor, RunInv, Scope
<1>2. m \in Nat /\ NextMonth(m) \in Nat /\ NextMonth(m) <= today
  BY <1>1, MonthIsOver
<1>3. InForceAtEnd(m, r)'
  BY <1>2, RulesStay DEF PaysFor, Keeps
<1>4. Counted("month", m)' /\ TariffOf("month", m)'.threshold[r] = TariffOf("month", m).threshold[r]
  BY <1>2, ThresholdStays DEF PaysFor, ChargeInv
<1>5. Worth(m) \in Nat /\ Worth(m)' \in Nat /\ Worth(m) <= Worth(m)'
  BY WorthGrows
<1>6. <<"month", m>> \in runs'
  BY DEF PaysFor, Keeps
<1>7. PICK n \in Nat : n = TariffOf("month", m).threshold[r] /\ n <= Worth(m)
  BY DEF PaysFor
<1> QED
  BY <1>3, <1>4, <1>5, <1>6, <1>7 DEF PaysFor

--------------------------------------------------------------------------------
(* What a statement of a job does to the rules                              *)

Judging == {"judge", "close", "clear", "trigger"}

Judges(j) ==
  /\ step'[j] \in Judging => scope[j] = "month" /\ target'[j] = target[j]
  /\ step'[j] = "judge" =>
       /\ step[j] = "ensure" /\ summary[target[j]] # NoRow /\ UNCHANGED summary
       /\ amount'[j] = summary[target[j]].daily + summary[target[j]].weekly
  /\ step'[j] = "close" =>
       /\ step[j] = "judge" /\ Note("month", {target[j]})
       /\ found'[j] = Reached(amount[j], NextMonth(target[j]))
  /\ step'[j] = "clear" => step[j] = "close" /\ found'[j] = found[j]
  /\ step[j] = "close" => step'[j] = "clear"
  /\ step'[j] = "trigger" => step[j] \in {"clear", "trigger"}
  /\ step[j] = "clear" =>
       /\ triggered' = [triggered EXCEPT ![target[j]] = {}]
       /\ IF found[j] = {} THEN step'[j] \notin Judging
                           ELSE step'[j] = "trigger" /\ found'[j] = found[j]
  /\ step[j] = "trigger" =>
       \E r \in found[j] :
         /\ triggered' = [triggered EXCEPT ![target[j]] = @ \cup {r}]
         /\ IF found[j] = {r} THEN step'[j] \notin Judging
                              ELSE step'[j] = "trigger" /\ found'[j] = found[j] \ {r}
  /\ step[j] \notin {"clear", "trigger"} => UNCHANGED triggered

LEMMA NextInLoopJudgesNot ==
  ASSUME JobTypes, NEW j \in Job, NextInLoop(j) \/ EndJob(j)
  PROVE  step'[j] \notin Judging
<1>1. CASE NextInLoop(j) /\ NextPeriod(scope[j], target[j]) <= end[j]
  <2>1. step'[j] = FirstStep(scope[j])
    BY <1>1 DEF NextInLoop, JobTypes
  <2> QED
    BY <2>1 DEF Judging, FirstStep
<1>2. CASE EndJob(j)
  BY <1>2 DEF EndJob, JobTypes, Judging
<1> QED
  BY <1>1, <1>2 DEF NextInLoop

\* Statements before the judgement leave the rules alone.
LEMMA JudgesNot ==
  ASSUME NEW j \in Job, step[j] \notin Judging, step'[j] \notin Judging, UNCHANGED triggered
  PROVE  Judges(j)
BY DEF Judges, Judging

LEMMA AdvanceJudges ==
  ASSUME ClosingInv, NEW j \in Job, Advance(j)
  PROVE  Judges(j)
<1>1. /\ HouseholdTypeOK /\ JobTypes /\ BookTypes /\ JobOK(j)
      /\ \A x : Goto(j, x) => step'[j] = x
  BY TypeParts DEF ClosingInv, JobInv, Goto, JobTypes
<1>2. /\ step[j] \in Judging => scope[j] = "month"
      /\ step[j] # "idle" /\ scope[j] = "month" => MonthOfJob(j) = target[j]
  BY <1>1, ChargedMonthOfTurn DEF JobOK, Judging, MonthOfJob, Scope
<1>3. NextInLoop(j) \/ EndJob(j) => step'[j] \notin Judging
  BY <1>1, NextInLoopJudgesNot
<1>4. CASE EnsureReads(j)
  <2> DEFINE row == GetSummary(MonthOfJob(j))
  <2>1. step[j] = "ensure" /\ UNCHANGED <<triggered, summary>>
    BY <1>4 DEF EnsureReads, bookVars
  <2>2. CASE row = NoRow
    <3>1. step'[j] = "upsert"
      BY <1>1, <1>4, <2>2 DEF EnsureReads
    <3> QED
      BY <2>1, <3>1, JudgesNot DEF Judging
  <2>3. CASE row # NoRow /\ row.closed
    <3>1. NextInLoop(j) \/ EndJob(j)
      BY <1>4, <2>3 DEF EnsureReads
    <3> QED
      BY <1>3, <2>1, <3>1, JudgesNot DEF Judging
  <2>4. CASE row # NoRow /\ ~row.closed
    <3>1. /\ Goto(j, IF scope[j] = "month" THEN "judge" ELSE "insert")
          /\ amount' = [amount EXCEPT ![j] = IF scope[j] = "month" THEN row.daily + row.weekly ELSE 0]
          /\ UNCHANGED <<scope, target, end, found>>
      BY <1>4, <2>4 DEF EnsureReads
    <3>2. CASE scope[j] = "month"
      <4>1. step'[j] = "judge" /\ amount'[j] = row.daily + row.weekly
        BY <1>1, <3>1, <3>2 DEF JobTypes
      <4>2. row = summary[target[j]]
        BY <1>2, <2>1, <3>2 DEF GetSummary
      <4> QED
        BY <2>1, <2>4, <3>1, <3>2, <4>1, <4>2 DEF Judges, Judging
    <3>3. CASE scope[j] # "month"
      <4>1. step'[j] = "insert"
        BY <1>1, <3>1, <3>3
      <4> QED
        BY <2>1, <4>1, JudgesNot DEF Judging
    <3> QED
      BY <3>2, <3>3
  <2> QED
    BY <2>2, <2>3, <2>4
<1>5. CASE EnsureUpserts(j)
  BY <1>1, <1>5, JudgesNot DEF EnsureUpserts, Judging
<1>6. CASE InsertRun(j)
  <2>1. step[j] = "insert" /\ UNCHANGED triggered
    BY <1>6 DEF InsertRun
  <2>2. NextInLoop(j) \/ Goto(j, IF scope[j] = "month" THEN "ensure" ELSE "sum")
    BY <1>6 DEF InsertRun
  <2>3. step'[j] \notin Judging
    BY <1>1, <1>3, <2>2 DEF Judging
  <2> QED
    BY <2>1, <2>3, JudgesNot DEF Judging
<1>7. CASE SumPenalty(j)
  <2>1. step[j] = "sum" /\ UNCHANGED triggered /\ (NextInLoop(j) \/ Goto(j, "increment"))
    BY <1>7 DEF SumPenalty
  <2>2. step'[j] \notin Judging
    BY <1>1, <1>3, <2>1 DEF Judging
  <2> QED
    BY <2>1, <2>2, JudgesNot DEF Judging
<1>8. CASE Increment(j)
  <2>1. step[j] = "increment" /\ UNCHANGED triggered /\ NextInLoop(j)
    BY <1>8 DEF Increment
  <2> QED
    BY <1>3, <2>1, JudgesNot DEF Judging
<1>9. CASE JudgeRules(j)
  <2>1. /\ step[j] = "judge" /\ step'[j] = "close" /\ UNCHANGED <<triggered, target>>
        /\ Note("month", {target[j]})
        /\ found'[j] = Reached(amount[j], NextMonth(target[j]))
    BY <1>1, <1>9 DEF JudgeRules, JobTypes
  <2> QED
    BY <1>2, <2>1 DEF Judges, Judging
<1>10. CASE CloseSummary(j)
  <2>1. step[j] = "close" /\ step'[j] = "clear" /\ UNCHANGED <<triggered, target, found>>
    BY <1>1, <1>10 DEF CloseSummary, jobVars
  <2> QED
    BY <1>2, <2>1 DEF Judges, Judging
<1>11. CASE ClearTriggered(j)
  <2>1. step[j] = "clear" /\ triggered' = [triggered EXCEPT ![target[j]] = {}]
    BY <1>11 DEF ClearTriggered
  <2>2. IF found[j] = {} THEN step'[j] \notin Judging
        ELSE step'[j] = "trigger" /\ UNCHANGED <<found, target>>
    BY <1>1, <1>3, <1>11 DEF ClearTriggered, jobVars
  <2> QED
    BY <1>2, <2>1, <2>2 DEF Judges, Judging
<1>12. CASE AddTriggered(j)
  <2>1. PICK r \in found[j] :
          /\ triggered' = [triggered EXCEPT ![target[j]] = @ \cup {r}]
          /\ IF found[j] = {r}
             THEN NextInLoop(j)
             ELSE /\ found' = [found EXCEPT ![j] = @ \ {r}]
                  /\ UNCHANGED <<step, scope, target, end, amount>>
    BY <1>12 DEF AddTriggered
  <2>2. step[j] = "trigger"
    BY <1>12 DEF AddTriggered
  <2>3. IF found[j] = {r} THEN step'[j] \notin Judging
        ELSE step'[j] = "trigger" /\ found'[j] = found[j] \ {r} /\ target' = target
    BY <1>1, <1>3, <2>1, <2>2 DEF JobTypes
  <2> QED
    BY <1>2, <2>1, <2>2, <2>3 DEF Judges, Judging
<1> QED
  BY <1>4, <1>5, <1>6, <1>7, <1>8, <1>9, <1>10, <1>11, <1>12 DEF Advance

--------------------------------------------------------------------------------
(* Only rules that are paid for are found                                   *)

\* A rule that is judged keeps the threshold it is judged by.
LEMMA JudgedRule ==
  ASSUME HouseholdTypeOK, HouseholdTypeOK', NoteInv, UNCHANGED householdVars,
         NEW m \in MonthStarts, m \in Nat, NextMonth(m) \in Nat,
         NEW P \in SUBSET Nat, m \in P, Note("month", P), NEW r \in Rule, InForceAtEnd(m, r)
  PROVE  /\ Counted("month", m)' /\ InForceAtEnd(m, r)'
         /\ TariffOf("month", m)'.threshold[r] = threshold[r] /\ threshold[r] \in Nat
<1>1. Tariff("month", m).threshold[r] = threshold[r] /\ threshold[r] \in Nat
  BY PresentThreshold
<1>2. InForceAtEnd(m, r)'
  BY DEF InForceAtEnd, householdVars, ruleVars
<1>3. CASE MaxEdits = 0
  <2>1. DOMAIN tariff = {} /\ tariff' = tariff
    BY <1>3, NoteNotes DEF NoteInv
  <2>2. TariffOf("month", m)' = Tariff("month", m)
    BY <2>1 DEF TariffOf, Tariff, householdVars, taskVars, ruleVars
  <2> QED
    BY <1>1, <1>2, <1>3, <2>2 DEF Counted
<1>4. CASE MaxEdits # 0
  <2>1. <<"month", m>> \in DOMAIN tariff' /\ tariff'[<<"month", m>>] = Tariff("month", m)
    BY <1>4, NoteNotes
  <2> QED
    BY <1>1, <1>2, <2>1 DEF Counted, TariffOf
<1> QED
  BY <1>3, <1>4

\* What the row of a month says is at most what the month is worth.
LEMMA RowIsWorth ==
  ASSUME HouseholdTypeOK, BookTypes, ChargeInv, NEW m \in MonthStarts
  PROVE  \E n \in Nat : /\ n = RowOf(m).daily + RowOf(m).weekly /\ n <= Worth(m)
                        /\ Careful => n = Worth(m)
<1>1. BillFacts
  BY BillsAre DEF ChargeInv
<1>2. ASSUME NEW s \in Evaluated
      PROVE  \E x, y \in Nat : x = Total(s, m) /\ y = Bills(s, Paid(s, m)) /\ x <= y /\ (Careful => x = y)
  <2>1. Bills(s, Paid(s, m)) \in Nat
    BY <1>1, PaidIsFinite, BillsOfPart DEF BillFacts
  <2> QED
    BY <2>1, TotalIsNat DEF ChargeInv, TotalInv
<1>3. PICK x \in Nat, y \in Nat : x = Total("day", m) /\ y = Bills("day", Paid("day", m)) /\ x <= y /\ (Careful => x = y)
  BY <1>2 DEF Evaluated
<1>4. PICK u \in Nat, v \in Nat : u = Total("week", m) /\ v = Bills("week", Paid("week", m)) /\ u <= v /\ (Careful => u = v)
  BY <1>2 DEF Evaluated
<1>5. RowOf(m).daily = x /\ RowOf(m).weekly = u
  BY <1>3, <1>4 DEF RowOf, GetSummary, EmptyRow, Total
<1>6. Worth(m) = y + v
  BY <1>3, <1>4 DEF Worth
<1> QED
  BY <1>3, <1>4, <1>5, <1>6

\* A rule that a total of the month reaches when it is judged.
LEMMA RuleIsPaid ==
  ASSUME HouseholdTypeOK, HouseholdTypeOK', ChargeInv, ChargeInv', Keeps, UNCHANGED householdVars,
         NEW m \in MonthStarts, m \in Nat, NextMonth(m) \in Nat, <<"month", m>> \in runs',
         NEW P \in SUBSET Nat, m \in P, Note("month", P),
         NEW n \in Nat, n <= Worth(m), NEW r \in Reached(n, NextMonth(m))
  PROVE  PaysFor(m, r)'
<1>1. r \in Rule /\ InForce(r, NextMonth(m)) /\ n >= threshold[r]
  BY DEF Reached
<1>2. InForceAtEnd(m, r)
  BY <1>1, InForceEnds
<1>3. /\ Counted("month", m)' /\ InForceAtEnd(m, r)'
      /\ TariffOf("month", m)'.threshold[r] = threshold[r] /\ threshold[r] \in Nat
  BY <1>1, <1>2, JudgedRule DEF ChargeInv
<1>4. Worth(m) \in Nat /\ Worth(m)' \in Nat /\ Worth(m) <= Worth(m)'
  BY WorthGrows
<1>5. threshold[r] <= Worth(m)'
  BY <1>1, <1>3, <1>4
<1> QED
  BY <1>3, <1>5 DEF PaysFor

\* The month a job judges, or is about to.
LEMMA JudgedMonth ==
  ASSUME ClosingInv, NEW j \in Job, step[j] # "idle", scope[j] = "month"
  PROVE  target[j] \in MonthStarts /\ Turn("month", target[j])
<1>1. Turn("month", target[j]) /\ HouseholdTypeOK
  BY TypeParts DEF ClosingInv, JobInv, JobOK
<1> QED
  BY <1>1, MonthIsOver

LEMMA JobRules ==
  ASSUME ClosingInv, ClosingInv', ChargeInv, ChargeInv', RuleInv, Keeps,
         NEW j \in Job, Acts(j), Judges(j)
  PROVE  RuleInv'
<1>1. /\ HouseholdTypeOK /\ HouseholdTypeOK' /\ UNCHANGED householdVars /\ RunInv
      /\ JobTypes /\ BookTypes /\ JobOK(j)'
  BY TypeParts DEF ClosingInv, JobInv, Acts, TypeOK
<1>2. \A m \in MonthStarts, r \in Rule : PaysFor(m, r) => PaysFor(m, r)'
  BY <1>1, PaysStays
<1>3. \A m \in MonthStarts : Worth(m) \in Nat /\ Worth(m)' \in Nat /\ Worth(m) <= Worth(m)'
  BY <1>1, WorthGrows
<1>4. \A i \in Job : found[i] \subseteq Rule /\ amount[i] \in Nat
  BY <1>1 DEF JobTypes
<1>5. step'[j] \in Judging => /\ target'[j] = target[j] /\ target[j] \in MonthStarts
                              /\ Turn("month", target[j]) /\ <<"month", target[j]>> \in runs'
  <2> SUFFICES ASSUME step'[j] \in Judging
               PROVE  /\ target'[j] = target[j] /\ target[j] \in MonthStarts
                      /\ Turn("month", target[j]) /\ <<"month", target[j]>> \in runs'
    OBVIOUS
  <2>1. scope[j] = "month" /\ target'[j] = target[j] /\ step[j] # "idle"
    BY DEF Judges, Judging
  <2>2. Entered(j)' /\ scope'[j] = "month"
    BY <1>1 DEF JobOK, Entered, Judging
  <2> QED
    BY <1>1, <2>1, <2>2, JudgedMonth DEF JobOK
<1>6. ASSUME NEW i \in Job, NEW m \in MonthStarts, step'[i] = "judge", target'[i] = m
      PROVE  amount'[i] <= Worth(m)'
  <2>1. CASE i # j
    <3>1. step[i] = "judge" /\ target[i] = m /\ amount'[i] = amount[i]
      BY <1>6, <2>1 DEF Acts, Others
    <3>2. amount[i] <= Worth(m)
      BY <3>1 DEF RuleInv
    <3> QED
      BY <1>3, <1>4, <3>1, <3>2
  <2>2. CASE i = j
    <3>1. /\ target[j] = m /\ summary[m] # NoRow
          /\ amount'[j] = summary[m].daily + summary[m].weekly
      BY <1>5, <1>6, <2>2 DEF Judges, Judging
    <3>2. PICK n \in Nat : n = RowOf(m).daily + RowOf(m).weekly /\ n <= Worth(m)
      BY <1>1, RowIsWorth
    <3>3. amount'[j] = n
      BY <3>1, <3>2 DEF RowOf, GetSummary
    <3> QED
      BY <1>3, <2>2, <3>2, <3>3
  <2> QED
    BY <2>1, <2>2
<1>7. ASSUME NEW i \in Job, NEW m \in MonthStarts, step'[i] \in {"close", "clear", "trigger"},
             target'[i] = m, NEW r \in found'[i]
      PROVE  PaysFor(m, r)'
  <2>1. CASE i # j
    <3>1. step[i] \in {"close", "clear", "trigger"} /\ target[i] = m /\ r \in found[i]
      BY <1>7, <2>1 DEF Acts, Others
    <3>2. PaysFor(m, r) /\ r \in Rule
      BY <1>4, <3>1 DEF RuleInv
    <3> QED
      BY <1>2, <3>2
  <2>2. CASE i = j
    <3>1. /\ target[j] = m /\ Turn("month", m) /\ <<"month", m>> \in runs'
      BY <1>5, <1>7, <2>2 DEF Judging
    <3>2. CASE step'[j] = "close"
      <4>1. step[j] = "judge" /\ Note("month", {m}) /\ r \in Reached(amount[j], NextMonth(m))
        BY <1>7, <2>2, <3>1, <3>2 DEF Judges
      <4>2. m \in Nat /\ {m} \in SUBSET Nat /\ NextMonth(m) \in Nat
        BY <1>1, <3>1, MonthIsOver
      <4>3. amount[j] \in Nat /\ amount[j] <= Worth(m)
        BY <1>4, <3>1, <4>1 DEF RuleInv
      <4> QED
        BY <1>1, <3>1, <4>1, <4>2, <4>3, RuleIsPaid
    <3>3. CASE step'[j] \in {"clear", "trigger"}
      <4>1. step[j] \in {"close", "clear", "trigger"} /\ r \in found[j]
        BY <1>7, <2>2, <3>3 DEF Judges, Judging
      <4>2. PaysFor(m, r) /\ r \in Rule
        BY <1>4, <3>1, <4>1 DEF RuleInv
      <4> QED
        BY <1>2, <4>2
    <3> QED
      BY <1>7, <2>2, <3>2, <3>3
  <2> QED
    BY <2>1, <2>2
<1>8. ASSUME NEW m \in MonthStarts, NEW r \in triggered'[m]
      PROVE  PaysFor(m, r)'
  <2>1. CASE r \in triggered[m]
    <3>1. PaysFor(m, r) /\ r \in Rule
      BY <1>1, <2>1 DEF RuleInv, BookTypes
    <3> QED
      BY <1>2, <3>1
  <2>2. CASE r \notin triggered[m]
    <3>1. step[j] = "trigger" /\ target[j] = m /\ r \in found[j]
      BY <1>1, <1>8, <2>2 DEF Judges, BookTypes
    <3>2. PaysFor(m, r) /\ r \in Rule
      BY <1>4, <3>1 DEF RuleInv
    <3> QED
      BY <1>2, <3>2
  <2> QED
    BY <2>1, <2>2
<1> QED
  BY <1>6, <1>7, <1>8 DEF RuleInv

\* Steps that judge nothing.
LEMMA QuietRules ==
  ASSUME ClosingInv, HouseholdTypeOK', ChargeInv, ChargeInv', RuleInv, Keeps, UNCHANGED triggered,
         \A i \in Job : step'[i] \in Judging =>
           step'[i] = step[i] /\ target'[i] = target[i] /\ amount'[i] = amount[i] /\ found'[i] = found[i]
  PROVE  RuleInv'
<1>1. HouseholdTypeOK /\ RunInv /\ JobTypes /\ BookTypes
  BY TypeParts DEF ClosingInv
<1>2. \A m \in MonthStarts, r \in Rule : PaysFor(m, r) => PaysFor(m, r)'
  BY <1>1, PaysStays
<1>3. \A m \in MonthStarts : Worth(m) \in Nat /\ Worth(m)' \in Nat /\ Worth(m) <= Worth(m)'
  BY <1>1, WorthGrows
<1>4. \A i \in Job : found[i] \subseteq Rule /\ amount[i] \in Nat
  BY <1>1 DEF JobTypes
<1>5. ASSUME NEW i \in Job, NEW m \in MonthStarts, step'[i] = "judge", target'[i] = m
      PROVE  amount'[i] <= Worth(m)'
  <2>1. step[i] = "judge" /\ target[i] = m /\ amount'[i] = amount[i]
    BY <1>5 DEF Judging
  <2>2. amount[i] <= Worth(m)
    BY <2>1 DEF RuleInv
  <2> QED
    BY <1>3, <1>4, <2>1, <2>2
<1>6. ASSUME NEW i \in Job, NEW m \in MonthStarts, step'[i] \in {"close", "clear", "trigger"},
             target'[i] = m, NEW r \in found'[i]
      PROVE  PaysFor(m, r)'
  <2>1. step[i] \in {"close", "clear", "trigger"} /\ target[i] = m /\ r \in found[i]
    BY <1>6 DEF Judging
  <2>2. PaysFor(m, r) /\ r \in Rule
    BY <1>4, <2>1 DEF RuleInv
  <2> QED
    BY <1>2, <2>2
<1>7. \A m \in MonthStarts : \A r \in triggered'[m] : PaysFor(m, r)'
  BY <1>1, <1>2 DEF RuleInv, BookTypes
<1> QED
  BY <1>5, <1>6, <1>7 DEF RuleInv

LEMMA CloseForUserRules ==
  ASSUME ClosingInv, ClosingInv', ChargeInv, ChargeInv', RuleInv, Keeps,
         NEW s \in Scope, CloseForUser(s)
  PROVE  RuleInv'
<1>1. /\ HouseholdTypeOK /\ HouseholdTypeOK' /\ UNCHANGED householdVars /\ RunInv
      /\ JobTypes /\ BookTypes
  BY TypeParts DEF ClosingInv, TypeOK, CloseForUser
<1>2. /\ \A j \in Job : step[j] = "idle"
      /\ UNCHANGED <<step, jobVars>>
      /\ Pending(s) /\ runs' = runs \cup {<<s, p>> : p \in Due(s)}
  BY DEF CloseForUser
<1>3. CASE s # "month"
  <2>1. UNCHANGED triggered
    BY <1>3 DEF CloseForUser, ChargeDue
  <2> QED
    BY <1>1, <1>2, <2>1, QuietRules DEF Judging, jobVars
<1>4. CASE s = "month"
  <2>1. PICK open : open = {m \in Due("month") : ~MonthClosed(m)}
    OBVIOUS
  <2>2. /\ triggered' = [m \in MonthStarts |->
                          IF m \in open THEN Reached(RowOf(m).daily + RowOf(m).weekly, NextMonth(m))
                                        ELSE triggered[m]]
        /\ Note("month", open)
    BY <1>4, <2>1 DEF CloseForUser, CloseDue
  <2>3. /\ Due("month") \in SUBSET Nat
        /\ \A p \in Due("month") : p \in Begins("month") /\ p < Period("month", today)
    BY <1>1, <1>2, <1>4, DueIsOver
  <2>4. \A m \in open : /\ m \in MonthStarts /\ m \in Nat /\ NextMonth(m) \in Nat
                        /\ <<"month", m>> \in runs'
    BY <1>1, <1>2, <1>4, <2>1, <2>3, PastMonth
  <2>5. \A m \in MonthStarts, r \in Rule : PaysFor(m, r) => PaysFor(m, r)'
    BY <1>1, PaysStays
  <2>6. ASSUME NEW m \in MonthStarts, NEW r \in triggered'[m]
        PROVE  PaysFor(m, r)'
    <3>1. CASE m \in open
      <4>1. PICK n \in Nat : n = RowOf(m).daily + RowOf(m).weekly /\ n <= Worth(m)
        BY <1>1, RowIsWorth
      <4>2. r \in Reached(n, NextMonth(m))
        BY <2>2, <2>6, <3>1, <4>1
      <4>3. open \in SUBSET Nat
        BY <2>4
      <4> QED
        BY <1>1, <2>2, <2>4, <3>1, <4>1, <4>2, <4>3, RuleIsPaid
    <3>2. CASE m \notin open
      <4>1. r \in triggered[m] /\ r \in Rule
        BY <1>1, <2>2, <2>6, <3>2 DEF BookTypes
      <4> QED
        BY <2>5, <4>1 DEF RuleInv
    <3> QED
      BY <3>1, <3>2
  <2>7. \A j \in Job : step'[j] = "idle"
    BY <1>2
  <2> QED
    BY <2>6, <2>7 DEF RuleInv
<1> QED
  BY <1>3, <1>4

LEMMA InitRules == Init => RuleInv
BY DEF Init, RuleInv

LEMMA NextRules ==
  ClosingInv /\ ClosingInv' /\ ChargeInv /\ ChargeInv' /\ RuleInv /\ [Next]_vars => RuleInv'
<1> SUFFICES ASSUME ClosingInv, ClosingInv', ChargeInv, ChargeInv', RuleInv, [Next]_vars
             PROVE  RuleInv'
  OBVIOUS
<1>1. HouseholdTypeOK' /\ JobTypes /\ Keeps
  BY TypeParts, NextKeeps DEF ClosingInv, TypeOK
<1>2. CASE UNCHANGED <<triggered, step, jobVars>>
  BY <1>1, <1>2, QuietRules DEF jobVars
<1>3. ASSUME NEW j \in Job, Advance(j) PROVE RuleInv'
  BY <1>1, <1>3, AdvanceOK, AdvanceJudges, JobRules
<1>4. ASSUME NEW j \in Job, NEW s \in Scope, StartJob(j, s) PROVE RuleInv'
  <2>1. Acts(j) /\ UNCHANGED triggered /\ step[j] = "idle" /\ step'[j] = FirstStep(s)
    BY <1>1, <1>4, StartJobOK DEF StartJob, bookVars, JobTypes
  <2> QED
    BY <1>1, <2>1, JudgesNot, JobRules DEF FirstStep, Judging
<1>5. ASSUME NEW j \in Job, Fail(j) PROVE RuleInv'
  <2>1. UNCHANGED triggered /\ Others(j) /\ step'[j] = "idle"
    BY <1>1, <1>5, EndJobLeaves DEF Fail, EndJob, bookVars, JobTypes
  <2> QED
    BY <1>1, <2>1, QuietRules DEF Others, Judging
<1>6. ASSUME NEW s \in Scope, CloseForUser(s) PROVE RuleInv'
  BY <1>1, <1>6, CloseForUserRules
<1>7. ASSUME NEW v \in Viewer, View(v) PROVE RuleInv'
  BY <1>2, <1>7 DEF View, ViewReads, ViewUpserts, bookVars
<1>8. CASE Member /\ UNCHANGED <<bookVars, step, jobVars, viewing, failures>>
  BY <1>2, <1>8 DEF bookVars
<1>9. CASE UNCHANGED vars
  BY <1>2, <1>9 DEF vars, bookVars
<1>10. ASSUME NEW j \in Job, NEW s \in Scope, NothingToClose(j, s) PROVE RuleInv'
  BY <1>9, <1>10 DEF NothingToClose
<1> QED
  BY <1>3, <1>4, <1>5, <1>6, <1>7, <1>8, <1>9, <1>10 DEF Next

LEMMA AlwaysRules == Spec => []RuleInv
BY InitRules, NextRules, AlwaysClosing, AlwaysCharges, PTL DEF Spec

\* Whatever fails or interleaves, no rule is ever recorded for a month that was
\* not in force on its last day or that the runs of the month do not pay for,
\* even if its threshold is edited later (store_closing.go:279-319).
THEOREM RulesAreEarned == Spec => []NoUndueRules
<1>1. ClosingInv /\ ChargeInv /\ RuleInv => NoUndueRules
  <2> SUFFICES ASSUME ClosingInv, ChargeInv, RuleInv,
                      NEW m \in MonthStarts, NEW r \in triggered[m]
               PROVE  /\ InForceAtEnd(m, r)
                      /\ Incurred("day", m) + Incurred("week", m) >= TariffOf("month", m).threshold[r]
    BY DEF NoUndueRules, InForceAtEnd
  <2>1. HouseholdTypeOK /\ BookTypes /\ BillFacts
    BY TypeParts, BillsAre DEF ClosingInv, ChargeInv
  <2>2. ASSUME NEW s \in Evaluated
        PROVE  \E x, y \in Nat : x = Bills(s, Paid(s, m)) /\ y = Incurred(s, m) /\ x <= y
    <3>1. PICK Q : Q = {p \in PeriodsOf(s, m) : <<s, p>> \in runs}
      OBVIOUS
    <3>2. Paid(s, m) \in SUBSET Q /\ Q \in SUBSET Nat /\ IsFiniteSet(Q)
      BY <3>1, PeriodsOfMonths, FS_Subset DEF Paid, Settled
    <3>3. /\ Bills(s, Paid(s, m)) \in Nat /\ Bills(s, Q) \in Nat
          /\ Bills(s, Paid(s, m)) <= Bills(s, Q)
      BY <2>1, <3>2, BillsOfPart DEF BillFacts
    <3> QED
      BY <3>1, <3>3 DEF Incurred
  <2>3. PICK x \in Nat, y \in Nat : x = Bills("day", Paid("day", m)) /\ y = Incurred("day", m) /\ x <= y
    BY <2>2 DEF Evaluated
  <2>4. PICK u \in Nat, v \in Nat : u = Bills("week", Paid("week", m)) /\ v = Incurred("week", m) /\ u <= v
    BY <2>2 DEF Evaluated
  <2>5. PICK n \in Nat : n = TariffOf("month", m).threshold[r] /\ n <= Worth(m) /\ InForceAtEnd(m, r)
    BY DEF RuleInv, PaysFor
  <2>6. n <= x + u
    BY <2>3, <2>4, <2>5 DEF Worth
  <2> QED
    BY <2>3, <2>4, <2>5, <2>6
<1> QED
  BY <1>1, AlwaysClosing, AlwaysCharges, AlwaysRules, PTL

--------------------------------------------------------------------------------
(* With care, exactly the rules that are due are recorded                   *)

\* All days and weeks of month m since the first task are settled.
AllSettled(m) ==
  /\ Seeded
  /\ \A s \in Evaluated : \A p \in PeriodsOf(s, m) : p >= Period(s, Seed) => Settled(s, p)

\* The rules that are due for month m.
DueRules(m) ==
  {r \in Rule : InForceAtEnd(m, r) /\ Worth(m) >= TariffOf("month", m).threshold[r]}

\* No job is recording the rules of month m.
Left(m) == \A j \in Job : step[j] \in {"clear", "trigger"} => target[j] # m

\* What a job finds, and what is recorded of a closed month, is what is due.
DueInv ==
  /\ \A j \in Job, m \in MonthStarts : step[j] = "judge" /\ target[j] = m =>
       amount[j] = Worth(m)
  /\ \A j \in Job, m \in MonthStarts : step[j] \in {"close", "clear"} /\ target[j] = m =>
       Counted("month", m) /\ found[j] = DueRules(m)
  /\ \A j \in Job, m \in MonthStarts : step[j] = "trigger" /\ target[j] = m =>
       Counted("month", m) /\ found[j] \cup triggered[m] = DueRules(m)
  /\ \A m \in MonthStarts : MonthClosed(m) /\ Left(m) =>
       /\ <<"month", m>> \in runs /\ Counted("month", m)
       /\ triggered[m] = DueRules(m)

\* A month that is closed, or judged, is settled.
LEMMA ClosedIsSettled ==
  ASSUME OrderInv, NEW m \in MonthStarts, MonthClosed(m)
  PROVE  AllSettled(m)
<1> SUFFICES ASSUME NEW s \in Evaluated, NEW p \in PeriodsOf(s, m), p >= Period(s, Seed)
             PROVE  Settled(s, p)
  BY DEF AllSettled, OrderInv, Complete
<1>1. <<s, p>> \in runs
  BY DEF OrderInv, Complete
<1>2. ASSUME NEW j \in Job, step[j] \in {"sum", "increment"}, scope[j] = s, target[j] = p
      PROVE  FALSE
  <2>1. MonthOfJob(j) = m
    BY <1>2, PeriodsOfMonths DEF MonthOfJob
  <2> QED
    BY <1>2, <2>1 DEF OrderInv, InOrder, Ensured
<1> QED
  BY <1>1, <1>2 DEF Settled

LEMMA CompleteIsSettled ==
  ASSUME NEW m \in MonthStarts, Complete(m), \A j \in Job : step[j] \notin {"sum", "increment"}
  PROVE  AllSettled(m)
BY DEF Complete, AllSettled, Settled

LEMMA JudgedIsSettled ==
  ASSUME ClosingInv, OrderInv, NEW j \in Job, step[j] # "idle", scope[j] = "month"
  PROVE  AllSettled(target[j])
<1>1. target[j] \in MonthStarts /\ target[j] <= end[j]
  BY JudgedMonth DEF ClosingInv, JobInv, JobOK
<1>2. Complete(target[j])
  BY <1>1 DEF OrderInv, InOrder
<1>3. \A i \in Job : step[i] \notin {"sum", "increment"}
  BY DEF OrderInv, ClosingInv, JobInv, JobOK, Evaluated
<1> QED
  BY <1>1, <1>2, <1>3, CompleteIsSettled

\* What a settled month is worth stays.
LEMMA WorthStays ==
  ASSUME Careful, ChargeInv, RunInv', Keeps, Seeded => Seed' = Seed,
         NEW m \in MonthStarts, AllSettled(m)
  PROVE  /\ Worth(m)' = Worth(m)
         /\ \A s \in Evaluated : Bills(s, Paid(s, m))' = Bills(s, Paid(s, m))
<1>1. ASSUME NEW s \in Evaluated PROVE Bills(s, Paid(s, m))' = Bills(s, Paid(s, m))
  <2>1. ASSUME NEW p \in Paid(s, m)' PROVE p \in Paid(s, m)
    <3>1. p \in PeriodsOf(s, m) /\ <<s, p>> \in runs' /\ p \in Nat /\ s \in Scope
      BY <2>1, PeriodsOfMonths DEF Paid, Settled, Evaluated, Scope
    <3>2. Period(s, Seed) <= p
      BY <3>1 DEF RunInv, Turn, AllSettled
    <3>3. Settled(s, p)
      BY <3>1, <3>2 DEF AllSettled
    <3> QED
      BY <3>1, <3>3, PaidIsSettled
  <2>2. Paid(s, m)' = Paid(s, m)
    BY <2>1 DEF Keeps
  <2>3. [p \in Paid(s, m) |-> Bill(s, p)'] = [p \in Paid(s, m) |-> Bill(s, p)]
    BY DEF Keeps
  <2> QED
    BY <2>2, <2>3 DEF Bills
<1> QED
  BY <1>1 DEF Worth, Evaluated

LEMMA DueStays ==
  ASSUME HouseholdTypeOK, HouseholdTypeOK', Careful, ChargeInv, RunInv', Keeps,
         Seeded => Seed' = Seed, NEW m \in MonthStarts, Turn("month", m),
         AllSettled(m), Counted("month", m)
  PROVE  Counted("month", m)' /\ DueRules(m)' = DueRules(m) /\ Worth(m)' = Worth(m)
<1>1. m \in Nat /\ NextMonth(m) \in Nat /\ NextMonth(m) <= today
  BY MonthIsOver
<1>2. Worth(m)' = Worth(m)
  BY WorthStays
<1>3. \A r \in Rule : InForceAtEnd(m, r)' <=> InForceAtEnd(m, r)
  BY <1>1, RulesStay DEF Keeps
<1>4. \A r \in Rule : InForceAtEnd(m, r) =>
        TariffOf("month", m)'.threshold[r] = TariffOf("month", m).threshold[r]
  BY <1>1, ThresholdStays DEF ChargeInv
<1>5. Counted("month", m)'
  BY <1>1 DEF Counted, Keeps, Scope
<1> QED
  BY <1>2, <1>3, <1>4, <1>5 DEF DueRules

\* The rules a settled month reaches when it is judged are those that are due.
LEMMA DueJudged ==
  ASSUME HouseholdTypeOK, HouseholdTypeOK', Careful, ChargeInv, RunInv', Keeps,
         UNCHANGED householdVars,
         Seeded => Seed' = Seed, NEW m \in MonthStarts, m \in Nat, NextMonth(m) \in Nat,
         AllSettled(m), NEW P \in SUBSET Nat, m \in P, Note("month", P)
  PROVE  Counted("month", m)' /\ Reached(Worth(m), NextMonth(m)) = DueRules(m)'
<1>1. Worth(m)' = Worth(m)
  BY WorthStays
<1>2. \A r \in Rule : InForceAtEnd(m, r)' <=> InForce(r, NextMonth(m))
  <2>1. \A r \in Rule : InForceAtEnd(m, r)' <=> InForceAtEnd(m, r)
    BY DEF InForceAtEnd, householdVars, ruleVars
  <2> QED
    BY <2>1, InForceEnds
<1>3. \A r \in Rule : InForceAtEnd(m, r)' => TariffOf("month", m)'.threshold[r] = threshold[r]
  BY <1>2, InForceEnds, JudgedRule DEF ChargeInv
<1>4. Counted("month", m)'
  BY NoteNotes DEF Counted
<1> QED
  BY <1>1, <1>2, <1>3, <1>4 DEF DueRules, Reached

\* What the step lemmas of the rules that are due rest on.
Settling ==
  /\ ClosingInv /\ ClosingInv' /\ ChargeInv /\ ChargeInv' /\ OrderInv /\ Keeps
  /\ Seeded => Seed' = Seed

\* A month that is being judged, or closed, keeps its rules.
LEMMA JudgedStays ==
  ASSUME Careful, Settling, NEW m \in MonthStarts, Counted("month", m),
         \/ \E j \in Job : step[j] \in Judging /\ target[j] = m
         \/ MonthClosed(m) /\ <<"month", m>> \in runs
  PROVE  Counted("month", m)' /\ DueRules(m)' = DueRules(m)
<1>1. HouseholdTypeOK /\ HouseholdTypeOK' /\ RunInv /\ RunInv'
  BY TypeParts DEF Settling, ClosingInv, TypeOK
<1>2. AllSettled(m) /\ Turn("month", m)
  <2>1. CASE \E j \in Job : step[j] \in Judging /\ target[j] = m
    <3>1. PICK j \in Job : step[j] \in Judging /\ target[j] = m
      BY <2>1
    <3>2. step[j] # "idle" /\ scope[j] = "month"
      BY <3>1 DEF Settling, ClosingInv, JobInv, JobOK, Judging
    <3> QED
      BY <3>1, <3>2, JudgedIsSettled, JudgedMonth DEF Settling
  <2>2. CASE MonthClosed(m) /\ <<"month", m>> \in runs
    BY <1>1, <2>2, ClosedIsSettled, MonthsAreDays DEF Settling, RunInv, Scope
  <2> QED
    BY <2>1, <2>2
<1> QED
  BY <1>1, <1>2, DueStays DEF Settling

\* Steps that judge nothing.
LEMMA QuietDue ==
  ASSUME Careful, Settling, DueInv, UNCHANGED triggered,
         \A m \in MonthStarts : MonthClosed(m)' => MonthClosed(m),
         \A i \in Job : step[i] \in Judging \/ step'[i] \in Judging =>
           step'[i] = step[i] /\ target'[i] = target[i] /\ amount'[i] = amount[i] /\ found'[i] = found[i]
  PROVE  DueInv'
<1>1. RunInv' /\ runs \subseteq runs'
  BY DEF Settling, ClosingInv, Keeps
<1>2. ASSUME NEW j \in Job, NEW m \in MonthStarts, step'[j] = "judge", target'[j] = m
      PROVE  amount'[j] = Worth(m)'
  <2>1. step[j] = "judge" /\ target[j] = m /\ amount'[j] = amount[j] /\ scope[j] = "month"
    BY <1>2 DEF Judging, Settling, ClosingInv, JobInv, JobOK
  <2>2. Worth(m)' = Worth(m)
    BY <1>1, <2>1, JudgedIsSettled, WorthStays DEF Settling
  <2> QED
    BY <2>1, <2>2 DEF DueInv
<1>3. ASSUME NEW j \in Job, NEW m \in MonthStarts, step'[j] \in {"close", "clear"}, target'[j] = m
      PROVE  Counted("month", m)' /\ found'[j] = DueRules(m)'
  <2>1. step[j] \in {"close", "clear"} /\ target[j] = m /\ found'[j] = found[j]
    BY <1>3 DEF Judging
  <2>2. Counted("month", m) /\ found[j] = DueRules(m)
    BY <2>1 DEF DueInv
  <2> QED
    BY <2>1, <2>2, JudgedStays DEF Judging
<1>4. ASSUME NEW j \in Job, NEW m \in MonthStarts, step'[j] = "trigger", target'[j] = m
      PROVE  Counted("month", m)' /\ found'[j] \cup triggered'[m] = DueRules(m)'
  <2>1. step[j] = "trigger" /\ target[j] = m /\ found'[j] = found[j]
    BY <1>4 DEF Judging
  <2>2. Counted("month", m) /\ found[j] \cup triggered[m] = DueRules(m)
    BY <2>1 DEF DueInv
  <2> QED
    BY <2>1, <2>2, JudgedStays DEF Judging
<1>5. ASSUME NEW m \in MonthStarts, MonthClosed(m)', Left(m)'
      PROVE  <<"month", m>> \in runs' /\ Counted("month", m)' /\ triggered'[m] = DueRules(m)'
  <2>1. MonthClosed(m) /\ Left(m)
    BY <1>5 DEF Left, Judging
  <2>2. <<"month", m>> \in runs /\ Counted("month", m) /\ triggered[m] = DueRules(m)
    BY <2>1 DEF DueInv
  <2> QED
    BY <1>1, <2>1, <2>2, JudgedStays
<1> QED
  BY <1>2, <1>3, <1>4, <1>5 DEF DueInv

LEMMA JobDue ==
  ASSUME Careful, Settling, DueInv, NEW j \in Job, Acts(j), Moves(j), Judges(j)
  PROVE  DueInv'
<1>1. /\ HouseholdTypeOK /\ HouseholdTypeOK' /\ UNCHANGED householdVars /\ RunInv'
      /\ JobTypes /\ BookTypes /\ JobOK(j) /\ JobOK(j)' /\ runs \subseteq runs'
  BY TypeParts DEF Settling, ClosingInv, JobInv, Acts, TypeOK
<1>2. \A i \in Job \ {j} : step[i] = "idle" /\ step'[i] = "idle"
  BY DEF Moves, Settling, OrderInv, Acts, Others
<1>3. step'[j] \in Judging => /\ target'[j] = target[j] /\ target[j] \in MonthStarts
                              /\ AllSettled(target[j]) /\ Turn("month", target[j])
                              /\ <<"month", target[j]>> \in runs'
  <2> SUFFICES ASSUME step'[j] \in Judging
               PROVE  /\ target'[j] = target[j] /\ target[j] \in MonthStarts
                      /\ AllSettled(target[j]) /\ Turn("month", target[j])
                      /\ <<"month", target[j]>> \in runs'
    OBVIOUS
  <2>1. scope[j] = "month" /\ target'[j] = target[j] /\ step[j] # "idle"
    BY DEF Judges, Moves
  <2>2. Entered(j)' /\ scope'[j] = "month"
    BY <1>1 DEF JobOK, Entered, Judging
  <2> QED
    BY <1>1, <2>1, <2>2, JudgedMonth, JudgedIsSettled DEF JobOK, Settling
<1>4. ASSUME NEW m \in MonthStarts, step'[j] = "judge", target'[j] = m
      PROVE  amount'[j] = Worth(m)'
  <2>1. /\ target[j] = m /\ summary[m] # NoRow /\ AllSettled(m)
        /\ amount'[j] = summary[m].daily + summary[m].weekly
    BY <1>3, <1>4 DEF Judges, Judging
  <2>2. RowOf(m).daily + RowOf(m).weekly = Worth(m)
    BY <1>1, RowIsWorth DEF Settling
  <2>3. Worth(m)' = Worth(m)
    BY <1>1, <2>1, WorthStays DEF Settling
  <2> QED
    BY <2>1, <2>2, <2>3 DEF RowOf, GetSummary
<1>5. ASSUME NEW m \in MonthStarts, step'[j] \in {"close", "clear"}, target'[j] = m
      PROVE  Counted("month", m)' /\ found'[j] = DueRules(m)'
  <2>1. target[j] = m /\ AllSettled(m) /\ Turn("month", m)
    BY <1>3, <1>5 DEF Judging
  <2>2. CASE step'[j] = "close"
    <3>1. step[j] = "judge" /\ Note("month", {m}) /\ found'[j] = Reached(amount[j], NextMonth(m))
      BY <2>1, <2>2 DEF Judges
    <3>2. m \in Nat /\ {m} \in SUBSET Nat /\ NextMonth(m) \in Nat
      BY <1>1, <2>1, MonthIsOver
    <3>3. amount[j] = Worth(m)
      BY <2>1, <3>1 DEF DueInv
    <3>4. Counted("month", m)' /\ Reached(Worth(m), NextMonth(m)) = DueRules(m)'
      BY <1>1, <2>1, <3>1, <3>2, DueJudged DEF Settling
    <3> QED
      BY <3>1, <3>3, <3>4
  <2>3. CASE step'[j] = "clear"
    <3>1. step[j] = "close" /\ found'[j] = found[j]
      BY <2>3 DEF Judges
    <3>2. Counted("month", m) /\ found[j] = DueRules(m)
      BY <2>1, <3>1 DEF DueInv
    <3> QED
      BY <2>1, <3>1, <3>2, JudgedStays DEF Judging
  <2> QED
    BY <1>5, <2>2, <2>3
<1>6. ASSUME NEW m \in MonthStarts, step[j] \in {"clear", "trigger"}, target[j] = m
      PROVE  /\ Counted("month", m)'
             /\ step'[j] = "trigger" => found'[j] \cup triggered'[m] = DueRules(m)'
             /\ step'[j] # "trigger" => triggered'[m] = DueRules(m)'
  <2>1. CASE step[j] = "clear"
    <3>1. Counted("month", m) /\ found[j] = DueRules(m)
      BY <1>6, <2>1 DEF DueInv
    <3>2. Counted("month", m)' /\ DueRules(m)' = DueRules(m)
      BY <1>6, <3>1, JudgedStays DEF Judging
    <3>3. /\ triggered'[m] = {}
          /\ IF found[j] = {} THEN step'[j] \notin Judging
                              ELSE step'[j] = "trigger" /\ found'[j] = found[j]
      BY <1>1, <1>6, <2>1 DEF Judges, BookTypes
    <3> QED
      BY <3>1, <3>2, <3>3 DEF Judging
  <2>2. CASE step[j] = "trigger"
    <3>1. Counted("month", m) /\ found[j] \cup triggered[m] = DueRules(m)
      BY <1>6, <2>2 DEF DueInv
    <3>2. Counted("month", m)' /\ DueRules(m)' = DueRules(m)
      BY <1>6, <3>1, JudgedStays DEF Judging
    <3>3. PICK r \in found[j] :
            /\ triggered' = [triggered EXCEPT ![target[j]] = @ \cup {r}]
            /\ IF found[j] = {r} THEN step'[j] \notin Judging
                                 ELSE step'[j] = "trigger" /\ found'[j] = found[j] \ {r}
      BY <2>2 DEF Judges
    <3>4. triggered'[m] = triggered[m] \cup {r}
      BY <1>1, <1>6, <3>3 DEF BookTypes
    <3> QED
      BY <3>1, <3>2, <3>3, <3>4 DEF Judging
  <2> QED
    BY <1>6, <2>1, <2>2
<1>7. ASSUME NEW m \in MonthStarts, step'[j] = "trigger", target'[j] = m
      PROVE  Counted("month", m)' /\ found'[j] \cup triggered'[m] = DueRules(m)'
  <2>1. step[j] \in {"clear", "trigger"} /\ target[j] = m
    BY <1>3, <1>7 DEF Judges, Judging
  <2> QED
    BY <1>6, <1>7, <2>1
<1>8. ASSUME NEW m \in MonthStarts, MonthClosed(m)', Left(m)'
      PROVE  <<"month", m>> \in runs' /\ Counted("month", m)' /\ triggered'[m] = DueRules(m)'
  <2>1. step[j] # "close" \/ target[j] # m
    BY <1>3, <1>8 DEF Judges, Judging, Left
  <2>2. MonthClosed(m)
    BY <1>8, <2>1 DEF Moves
  <2>3. CASE Left(m)
    <3>1. <<"month", m>> \in runs /\ Counted("month", m) /\ triggered[m] = DueRules(m)
      BY <2>2, <2>3 DEF DueInv
    <3>2. triggered'[m] = triggered[m]
      BY <1>1, <2>3 DEF Judges, Left, BookTypes
    <3> QED
      BY <1>1, <2>2, <3>1, <3>2, JudgedStays
  <2>4. CASE ~Left(m)
    <3>1. step[j] \in {"clear", "trigger"} /\ target[j] = m
      BY <1>2, <2>4 DEF Left
    <3>2. step'[j] # "trigger"
      BY <1>3, <1>8, <3>1 DEF Left, Judging
    <3>3. <<"month", m>> \in runs
      BY <1>1, <3>1 DEF JobOK, Entered
    <3> QED
      BY <1>1, <1>6, <3>1, <3>2, <3>3
  <2> QED
    BY <2>3, <2>4
<1> QED
  BY <1>2, <1>4, <1>5, <1>7, <1>8 DEF DueInv

LEMMA CloseForUserDue ==
  ASSUME Careful, Settling, DueInv, NEW s \in Scope, CloseForUser(s)
  PROVE  DueInv'
<1>1. /\ HouseholdTypeOK /\ HouseholdTypeOK' /\ UNCHANGED householdVars /\ RunInv /\ RunInv'
      /\ BookTypes /\ ClosingInv /\ OrderInv
  BY TypeParts DEF Settling, ClosingInv, TypeOK, CloseForUser
<1>2. /\ \A j \in Job : step[j] = "idle" /\ step'[j] = "idle"
      /\ Pending(s) /\ runs' = runs \cup {<<s, p>> : p \in Due(s)}
      /\ s = "month" => ~Pending("day") /\ ~Pending("week")
  BY DEF CloseForUser, MayClose, Careful
<1>3. CASE s # "month"
  <2>1. ChargeDue(s) /\ UNCHANGED triggered
    BY <1>3 DEF CloseForUser, ChargeDue
  <2> QED
    BY <1>1, <1>2, <2>1, UserChargesOpen, QuietDue DEF Judging
<1>4. CASE s = "month"
  <2>1. PICK open : open = {m \in Due("month") : ~MonthClosed(m)}
    OBVIOUS
  <2>2. /\ triggered' = [m \in MonthStarts |->
                          IF m \in open THEN Reached(RowOf(m).daily + RowOf(m).weekly, NextMonth(m))
                                        ELSE triggered[m]]
        /\ \A m \in MonthStarts : m \notin open => summary'[m] = summary[m]
        /\ Note("month", open)
    BY <1>4, <2>1 DEF CloseForUser, CloseDue
  <2>3. /\ Due("month") \in SUBSET Nat
        /\ \A p \in Due("month") : p \in Begins("month") /\ p < Period("month", today)
        /\ \A p \in Due("month") : p <= LastOver("month", today)
    BY <1>1, <1>2, <1>4, DueIsOver
  <2>4. \A m \in open : /\ m \in MonthStarts /\ m \in Nat /\ NextMonth(m) \in Nat
                        /\ <<"month", m>> \in runs' /\ AllSettled(m)
    <3>1. Seeded
      BY <1>1, <1>2, TargetIsNext
    <3>2. \A m \in open : m \in MonthStarts /\ m \in Nat /\ NextMonth(m) \in Nat
      BY <1>1, <2>1, <2>3, PastMonth
    <3>3. \A m \in open : Complete(m)
      BY <1>1, <1>2, <1>4, <2>1, <2>3, <3>1, <3>2, CaughtUp
    <3> QED
      BY <1>2, <1>4, <2>1, <3>2, <3>3, CompleteIsSettled
  <2>5. ASSUME NEW m \in MonthStarts, MonthClosed(m)'
        PROVE  <<"month", m>> \in runs' /\ Counted("month", m)' /\ triggered'[m] = DueRules(m)'
    <3>1. CASE m \in open
      <4>1. RowOf(m).daily + RowOf(m).weekly = Worth(m)
        BY <1>1, RowIsWorth DEF Settling
      <4>2. open \in SUBSET Nat
        BY <2>4
      <4>3. Counted("month", m)' /\ Reached(Worth(m), NextMonth(m)) = DueRules(m)'
        BY <1>1, <2>2, <2>4, <3>1, <4>2, DueJudged DEF Settling
      <4> QED
        BY <2>2, <2>4, <3>1, <4>1, <4>3
    <3>2. CASE m \notin open
      <4>1. MonthClosed(m) /\ Left(m)
        BY <1>2, <2>2, <2>5, <3>2 DEF MonthClosed, Left
      <4>2. <<"month", m>> \in runs /\ Counted("month", m) /\ triggered[m] = DueRules(m)
        BY <4>1 DEF DueInv
      <4> QED
        BY <1>2, <2>2, <3>2, <4>1, <4>2, JudgedStays
    <3> QED
      BY <3>1, <3>2
  <2> QED
    BY <1>2, <2>5 DEF DueInv
<1> QED
  BY <1>3, <1>4

LEMMA InitDue == Init => DueInv
BY DEF Init, DueInv, MonthClosed

\* Every step keeps the first task.
LEMMA NextKeepsSeed ==
  ASSUME ClosingInv, [Next]_vars
  PROVE  (Seeded => Seeded' /\ Seed' = Seed)
<1>1. HouseholdTypeOK /\ LifeInv
  BY TypeParts DEF ClosingInv
<1>2. UNCHANGED householdVars \/ Member
  BY AdvanceOK, StartJobOK
     DEF Next, Acts, Fail, NothingToClose, vars, CloseForUser, View, ViewReads, ViewUpserts
<1> QED
  BY <1>1, <1>2, SameDay, MemberKeepsSeed

LEMMA NextDue ==
  ASSUME Careful
  PROVE  /\ ClosingInv /\ ClosingInv' /\ ChargeInv /\ ChargeInv' /\ OrderInv /\ DueInv
         /\ [Next]_vars
         => DueInv'
<1> SUFFICES ASSUME ClosingInv, ClosingInv', ChargeInv, ChargeInv', OrderInv, DueInv, [Next]_vars
             PROVE  DueInv'
  OBVIOUS
<1>1. JobTypes /\ OtherTypes /\ Settling
  BY TypeParts, NextKeeps, NextKeepsSeed DEF ClosingInv, Settling
<1>2. CASE UNCHANGED <<summary, triggered, step, jobVars>>
  BY <1>1, <1>2, QuietDue DEF jobVars, MonthClosed
<1>3. ASSUME NEW j \in Job, Advance(j) PROVE DueInv'
  BY <1>1, <1>3, AdvanceOK, AdvanceMoves, AdvanceJudges, JobDue
<1>4. ASSUME NEW j \in Job, NEW s \in Scope, StartJob(j, s) PROVE DueInv'
  <2>1. /\ Acts(j) /\ UNCHANGED <<summary, triggered>>
        /\ \A i \in Job : step[i] = "idle" /\ step'[i] \in {"idle", "insert", "ensure"}
    BY <1>1, <1>4, StartJobOK DEF StartJob, FirstStep, bookVars, JobTypes, Careful
  <2> QED
    BY <1>1, <2>1, QuietDue DEF Judging, MonthClosed
<1>5. ASSUME NEW j \in Job, Fail(j) PROVE DueInv'
  BY <1>1, <1>5 DEF Fail, OtherTypes, Careful
<1>6. ASSUME NEW s \in Scope, CloseForUser(s) PROVE DueInv'
  BY <1>1, <1>6, CloseForUserDue
<1>7. ASSUME NEW v \in Viewer, View(v) PROVE DueInv'
  BY <1>7 DEF Careful
<1>8. CASE Member /\ UNCHANGED <<bookVars, step, jobVars, viewing, failures>>
  BY <1>2, <1>8 DEF bookVars
<1>9. CASE UNCHANGED vars
  BY <1>2, <1>9 DEF vars, bookVars
<1>10. ASSUME NEW j \in Job, NEW s \in Scope, NothingToClose(j, s) PROVE DueInv'
  BY <1>9, <1>10 DEF NothingToClose
<1> QED
  BY <1>3, <1>4, <1>5, <1>6, <1>7, <1>8, <1>9, <1>10 DEF Next

LEMMA AlwaysDue ==
  ASSUME Careful
  PROVE  Spec => []DueInv
<1>1. Ordered
  BY DEF Careful
<1>2. Spec => []OrderInv
  BY <1>1, AlwaysInOrder
<1>3. /\ ClosingInv /\ ClosingInv' /\ ChargeInv /\ ChargeInv' /\ OrderInv /\ DueInv /\ [Next]_vars
      => DueInv'
  BY NextDue
<1> QED
  BY <1>2, <1>3, InitDue, AlwaysClosing, AlwaysCharges, PTL DEF Spec

\* In the order README.md:69 recommends, if no job fails and no page creates a
\* summary: once the job that closed a month has left it, the rules recorded
\* are those in force on its last day whose threshold its true cost reaches,
\* whatever is edited since (store_closing.go:279-319).
THEOREM RulesAreExact ==
  ASSUME Ordered, MaxFailures = 0, Viewer = {}
  PROVE  Spec => []TriggeredRulesAreDue
<1>1. Careful
  BY DEF Careful
<1>2. ClosingInv /\ ChargeInv /\ DueInv => TriggeredRulesAreDue
  <2> SUFFICES ASSUME ClosingInv, ChargeInv, DueInv, NEW m \in MonthStarts, MonthClosed(m), Left(m)
               PROVE  triggered[m] =
                        {r \in Rule : /\ InForceAtEnd(m, r)
                                      /\ Owed("day", m) + Owed("week", m) >= TariffOf("month", m).threshold[r]}
    BY DEF TriggeredRulesAreDue, InForceAtEnd, Left
  <2>1. triggered[m] = DueRules(m)
    BY DEF DueInv
  <2>2. Owed("day", m) = Bills("day", Paid("day", m)) /\ Owed("week", m) = Bills("week", Paid("week", m))
    BY <1>1, PaidIsSettled DEF Evaluated
  <2> QED
    BY <2>1, <2>2 DEF DueRules, Worth
<1>3. Spec => []DueInv
  BY <1>1, AlwaysDue
<1> QED
  BY <1>2, <1>3, AlwaysClosing, AlwaysCharges, PTL

--------------------------------------------------------------------------------
(* With care, the summary of a closed month stands                          *)

\* No statement of a job reopens a month.
LEMMA AdvanceReopensNone ==
  ASSUME Careful, ClosingInv, ChargeInv, OrderInv, NEW j \in Job, Advance(j),
         NEW m \in MonthStarts, MonthClosed(m)
  PROVE  MonthClosed(m)'
<1>1. /\ JobTypes /\ BookTypes
      /\ step[j] # "idle" => MonthOfJob(j) \in MonthStarts
      /\ step[j] = "close" => MonthOfJob(j) = target[j]
      /\ step[j] \in {"increment", "close"} => ~MonthClosed(MonthOfJob(j))
  BY TypeParts, ChargedMonthOfTurn
     DEF ClosingInv, JobInv, JobOK, MonthOfJob, JobTypes, OrderInv, InOrder, Ensured
<1>2. CASE EnsureUpserts(j)
  <2>1. /\ step[j] = "upsert" /\ summary[MonthOfJob(j)] = NoRow
        /\ summary' = [summary EXCEPT ![MonthOfJob(j)] = EmptyRow]
    BY <1>2 DEF EnsureUpserts, Upsert, ChargeInv, CareInv
  <2> QED
    BY <1>1, <2>1 DEF MonthClosed, BookTypes
<1>3. CASE Increment(j)
  <2>1. /\ step[j] = "increment"
        /\ summary' = [summary EXCEPT ![MonthOfJob(j)] = Charge(scope[j], @, amount[j])]
    BY <1>3 DEF Increment
  <2> QED
    BY <1>1, <2>1 DEF MonthClosed, BookTypes
<1>4. CASE CloseSummary(j)
  <2>1. /\ step[j] = "close"
        /\ summary' = [summary EXCEPT ![target[j]] = CloseMonthlyPenaltySummary(@)]
    BY <1>4 DEF CloseSummary
  <2> QED
    BY <1>1, <2>1 DEF MonthClosed, BookTypes
<1>5. CASE UNCHANGED summary
  BY <1>5 DEF MonthClosed
<1> QED
  BY <1>2, <1>3, <1>4, <1>5
     DEF Advance, EnsureReads, InsertRun, SumPenalty, JudgeRules, ClearTriggered, AddTriggered, bookVars

\* A closed month that the job that closed it has left is left for good.
LEMMA ClosedIsLeft ==
  ASSUME Careful, ClosingInv, ChargeInv, OrderInv, [Next]_vars,
         NEW m \in MonthStarts, MonthClosed(m), Left(m)
  PROVE  MonthClosed(m)' /\ Left(m)'
<1>1. JobTypes /\ BookTypes /\ OtherTypes
  BY TypeParts DEF ClosingInv
<1>2. CASE UNCHANGED <<summary, step, jobVars>>
  BY <1>2 DEF MonthClosed, Left, jobVars
<1>3. ASSUME NEW j \in Job, Advance(j) PROVE MonthClosed(m)' /\ Left(m)'
  <2>1. Acts(j) /\ Judges(j)
    BY <1>3, AdvanceOK, AdvanceJudges
  <2>2. step[j] = "close" => target[j] # m
    <3>1. step[j] = "close" => MonthOfJob(j) = target[j] /\ ~MonthClosed(MonthOfJob(j))
      BY <1>1, TypeParts, ChargedMonthOfTurn
         DEF ClosingInv, JobInv, JobOK, MonthOfJob, JobTypes, OrderInv, InOrder, Ensured
    <3> QED
      BY <3>1
  <2>3. step'[j] \in {"clear", "trigger"} => target'[j] # m
    BY <2>1, <2>2 DEF Judges, Judging, Left
  <2>4. Left(m)'
    BY <2>1, <2>3 DEF Left, Acts, Others
  <2> QED
    BY <1>3, <2>4, AdvanceReopensNone
<1>4. ASSUME NEW j \in Job, NEW s \in Scope, StartJob(j, s) PROVE MonthClosed(m)' /\ Left(m)'
  BY <1>1, <1>4 DEF StartJob, FirstStep, bookVars, JobTypes, Careful, MonthClosed, Left
<1>5. ASSUME NEW j \in Job, Fail(j) PROVE FALSE
  BY <1>1, <1>5 DEF Fail, OtherTypes, Careful
<1>6. ASSUME NEW s \in Scope, CloseForUser(s) PROVE MonthClosed(m)' /\ Left(m)'
  <2>1. Left(m)'
    BY <1>6 DEF CloseForUser, Left
  <2>2. CASE s # "month"
    BY <1>1, <1>6, <2>1, <2>2, UserChargesOpen DEF CloseForUser
  <2>3. CASE s = "month"
    <3>1. summary'[m] = summary[m]
      BY <1>6, <2>3 DEF CloseForUser, CloseDue
    <3> QED
      BY <2>1, <3>1 DEF MonthClosed
  <2> QED
    BY <2>2, <2>3
<1>7. ASSUME NEW v \in Viewer, View(v) PROVE FALSE
  BY <1>7 DEF Careful
<1>8. CASE Member /\ UNCHANGED <<bookVars, step, jobVars, viewing, failures>>
  BY <1>2, <1>8 DEF bookVars
<1>9. CASE UNCHANGED vars
  BY <1>2, <1>9 DEF vars, bookVars
<1>10. ASSUME NEW j \in Job, NEW s \in Scope, NothingToClose(j, s) PROVE MonthClosed(m)' /\ Left(m)'
  BY <1>9, <1>10 DEF NothingToClose
<1> QED
  BY <1>3, <1>4, <1>5, <1>6, <1>7, <1>8, <1>9, <1>10 DEF Next

\* What is shown of a closed month is its totals and its rules.
ShownFacts ==
  \A m \in MonthStarts : MonthClosed(m) =>
    MonthlySummary(m) = [daily |-> Total("day", m), weekly |-> Total("week", m),
                         closed |-> TRUE, rules |-> triggered[m]]

LEMMA Shown == BookTypes => ShownFacts
<1> SUFFICES ASSUME BookTypes, NEW m \in MonthStarts, MonthClosed(m)
             PROVE  MonthlySummary(m) = [daily |-> Total("day", m), weekly |-> Total("week", m),
                                         closed |-> TRUE, rules |-> triggered[m]]
  BY DEF ShownFacts
<1>1. summary[m] \in Row /\ summary[m].closed /\ summary[m] # NoRow
  BY DEF BookTypes, MonthClosed
<1>2. RowOf(m) = summary[m] /\ RowOf(m).closed = TRUE
  BY <1>1 DEF RowOf, GetSummary, Row
<1>3. Total("day", m) = summary[m].daily /\ Total("week", m) = summary[m].weekly
  BY <1>1 DEF Total
<1> QED
  BY <1>2, <1>3 DEF MonthlySummary, TriggeredRules

LEMMA WillBeShown == BookTypes' => ShownFacts'
BY Shown, PTL

\* In the order README.md:69 recommends, if no job fails and no page creates a
\* summary: no edit, no new rule and no later closing changes what is shown of
\* a closed month once its job has left it (store_task_overview.go:133-165).
THEOREM SummariesStand ==
  ASSUME Ordered, MaxFailures = 0, Viewer = {}
  PROVE  Spec => ClosedMonthsStand
<1> DEFINE Stands ==
      \A m \in MonthStarts :
        /\ MonthClosed(m)
        /\ \A j \in Job : step[j] \in {"clear", "trigger"} => target[j] # m
        => MonthlySummary(m)' = MonthlySummary(m)
<1>1. Careful
  BY DEF Careful
<1>2. ASSUME ClosingInv, ClosingInv', ChargeInv, ChargeInv', OrderInv, DueInv, DueInv', [Next]_vars,
             NEW m \in MonthStarts, MonthClosed(m), Left(m)
      PROVE  MonthlySummary(m)' = MonthlySummary(m)
  <2>1. BookTypes /\ BookTypes' /\ RunInv' /\ Settling
    BY <1>2, TypeParts, NextKeeps, NextKeepsSeed DEF ClosingInv, Settling, TypeOK, BookTypes
  <2>2. MonthClosed(m)' /\ Left(m)'
    BY <1>1, <1>2, ClosedIsLeft
  <2>3. /\ <<"month", m>> \in runs /\ Counted("month", m)
        /\ triggered[m] = DueRules(m) /\ triggered'[m] = DueRules(m)'
    BY <1>2, <2>2 DEF DueInv
  <2>4. DueRules(m)' = DueRules(m)
    BY <1>1, <1>2, <2>1, <2>3, JudgedStays
  <2>5. \A s \in Evaluated : Bills(s, Paid(s, m))' = Bills(s, Paid(s, m))
    BY <1>1, <1>2, <2>1, ClosedIsSettled, WorthStays DEF Settling
  <2>6. \A s \in Evaluated : Total(s, m)' = Total(s, m)
    BY <1>1, <1>2, <2>5 DEF ChargeInv, TotalInv
  <2>7. /\ MonthlySummary(m) = [daily |-> Total("day", m), weekly |-> Total("week", m),
                                closed |-> TRUE, rules |-> triggered[m]]
        /\ MonthlySummary(m)' = [daily |-> Total("day", m)', weekly |-> Total("week", m)',
                                 closed |-> TRUE, rules |-> triggered'[m]]
    BY <1>2, <2>1, <2>2, Shown, WillBeShown DEF ShownFacts
  <2> QED
    BY <2>3, <2>4, <2>6, <2>7 DEF Evaluated
<1>3. /\ ClosingInv /\ ClosingInv' /\ ChargeInv /\ ChargeInv' /\ OrderInv /\ DueInv /\ DueInv'
      /\ [Next]_vars
      => [Stands]_vars
  BY <1>2 DEF Left
<1>4. (Spec => []OrderInv) /\ (Spec => []DueInv)
  BY <1>1, AlwaysInOrder, AlwaysDue
<1> QED
  BY <1>3, <1>4, AlwaysClosing, AlwaysCharges, PTL DEF Spec, ClosedMonthsStand, Stands

--------------------------------------------------------------------------------
(* The status of a month                                                    *)

\* As long as no task is edited, every tariff noted is the present one.
PresentInv ==
  edits = 0 =>
    \A s \in Evaluated, p \in Nat : <<s, p>> \in DOMAIN tariff => AtPresent(s, p)

LEMMA EditsCount ==
  ASSUME HouseholdTypeOK, Member, edits' = 0
  PROVE  /\ edits = 0
         /\ \A t \in Task : born[t] # Never => points'[t] = points[t]
         /\ \A t \in WeeklyTask : born[t] # Never => required'[t] = required[t]
<1>1. edits \in Nat
  BY HouseholdAssumption DEF HouseholdTypeOK
<1>2. ~ Edit
  BY <1>1 DEF Edit
<1>3. edits = 0
  BY <1>2 DEF Member, NextDay, CreateTask, PatchTask, DeleteTask, ToggleDaily, CompleteWeekly,
              CreatePenaltyRule, PatchPenaltyRule, DeletePenaltyRule
<1>4. UNCHANGED <<points, required>> \/ \E t \in Task : CreateTask(t)
  BY <1>2 DEF Member, NextDay, PatchTask, DeleteTask, ToggleDaily, CompleteWeekly,
              CreatePenaltyRule, PatchPenaltyRule, DeletePenaltyRule, taskVars
<1>5. ASSUME NEW u \in Task, CreateTask(u)
      PROVE  /\ \A t \in Task : born[t] # Never => points'[t] = points[t]
             /\ \A t \in WeeklyTask : born[t] # Never => required'[t] = required[t]
  BY <1>5 DEF CreateTask, WriteTask, HouseholdTypeOK
<1> QED
  BY <1>3, <1>4, <1>5

LEMMA InitPresent == Init => PresentInv
BY DEF Init, PresentInv

LEMMA NextPresent ==
  ASSUME ClosingInv, ClosingInv', ChargeInv, PresentInv, Keeps
  PROVE  PresentInv'
<1> SUFFICES ASSUME edits' = 0, NEW s \in Evaluated, NEW p \in Nat, <<s, p>> \in DOMAIN tariff'
             PROVE  AtPresent(s, p)'
  BY DEF PresentInv
<1>1. HouseholdTypeOK /\ HouseholdTypeOK' /\ LifeInv /\ RunInv /\ NoteInv /\ s \in Scope
  BY DEF ClosingInv, TypeOK, ChargeInv, Evaluated, Scope
<1>2. CASE <<s, p>> \notin DOMAIN tariff
  <2>1. UNCHANGED householdVars /\ tariff'[<<s, p>>] = Tariff(s, p)
    BY <1>1, <1>2 DEF Keeps
  <2>2. TariffOf(s, p)' = Tariff(s, p)
    BY <2>1 DEF TariffOf
  <2>3. \A t \in Task : Existed(t, LastDayOf(s, p))' <=> Existed(t, LastDayOf(s, p))
    BY <2>1 DEF Existed, householdVars, taskVars
  <2>4. UNCHANGED <<points, required>>
    BY <2>1 DEF householdVars, taskVars
  <2> QED
    BY <1>1, <2>2, <2>3, <2>4, PresentTariff DEF AtPresent
<1>3. CASE <<s, p>> \in DOMAIN tariff
  <2>1. TariffOf(s, p) = tariff[<<s, p>>] /\ TariffOf(s, p)' = TariffOf(s, p)
    BY <1>1, <1>3 DEF Keeps, TariffOf
  <2>2. Turn(s, p)
    BY <1>1, <1>3 DEF NoteInv, Noted, RunInv
  <2>3. CASE UNCHANGED householdVars
    <3>1. UNCHANGED <<edits, born, gone, points, required>>
      BY <2>3 DEF householdVars, taskVars
    <3>2. AtPresent(s, p)
      BY <1>3, <3>1 DEF PresentInv
    <3> QED
      BY <2>1, <3>1, <3>2 DEF AtPresent, Existed
  <2>4. CASE Member
    <3>1. /\ edits = 0
          /\ \A t \in Task : born[t] # Never => points'[t] = points[t]
          /\ \A t \in WeeklyTask : born[t] # Never => required'[t] = required[t]
      BY <1>1, <2>4, EditsCount
    <3>2. AtPresent(s, p)
      BY <1>3, <3>1 DEF PresentInv
    <3>3. \A t \in Task : Existed(t, LastDayOf(s, p))' <=> Existed(t, LastDayOf(s, p))
      <4>1. \A t \in Task : Existed(t, LastDayOf(s, p))' <=> InEffect(t, NextPeriod(s, p))'
        BY <1>1, EffectsWillBe DEF Effects
      <4>2. \A t \in Task : InEffect(t, NextPeriod(s, p))' <=> InEffect(t, NextPeriod(s, p))
        BY <1>1, <2>2, <2>4, OverIsSealed DEF Turn
      <4> QED
        BY <1>1, <4>1, <4>2, ExistedInEffect
    <3>4. \A t \in Task : Existed(t, LastDayOf(s, p)) => born[t] # Never
      BY DEF Existed, Never
    <3> QED
      BY <2>1, <3>1, <3>2, <3>3, <3>4 DEF AtPresent
  <2> QED
    BY <2>3, <2>4 DEF Keeps
<1> QED
  BY <1>2, <1>3

LEMMA AlwaysPresent == Spec => []PresentInv
<1>1. ClosingInv /\ ClosingInv' /\ ChargeInv /\ PresentInv /\ [Next]_vars => PresentInv'
  BY NextKeeps, NextPresent
<1> QED
  BY <1>1, InitPresent, AlwaysClosing, AlwaysCharges, PTL DEF Spec

\* A task that was not done for a period, as the status of a month shows it.
Item(s, p, t) == [scope |-> s, period |-> p, task |-> t, completed |-> FALSE]

\* The days of a month.
LEMMA DaysOfMonth ==
  ASSUME HouseholdTypeOK, NEW m \in MonthStarts, m <= today
  PROVE  /\ m \in Nat \ {0} /\ NextMonth(m) \in Nat /\ m < NextMonth(m)
         /\ \A d \in Known : Month(d) = m <=> d \in m..(NextMonth(m) - 1)
<1>1. m \in Nat \ {0} /\ m <= LastDay + DaysPerWeek /\ \A n \in MonthStarts : n \in Nat \ {0}
  BY Days, MonthsAreDays DEF HouseholdTypeOK, Day
<1>2. /\ NextMonth(m) \in MonthStarts /\ NextMonth(m) > m
      /\ \A n \in MonthStarts : n > m => n >= NextMonth(m)
  BY <1>1, MonthAfterMonth
<1>3. \A d \in Known : d \in Nat
  BY CalendarAssumption DEF Known
<1>4. ASSUME NEW d \in Known PROVE Month(d) = m <=> d \in m..(NextMonth(m) - 1)
  <2>1. /\ Month(d) \in MonthStarts /\ Month(d) <= d
        /\ \A n \in MonthStarts : n <= d => n <= Month(d)
    BY MonthOfDay
  <2>2. Month(d) \in Nat /\ d \in Nat /\ NextMonth(m) \in Nat
    BY <1>1, <1>2, <1>3, <2>1
  <2> QED
    BY <1>1, <1>2, <2>1, <2>2
<1> QED
  BY <1>1, <1>2, <1>4

\* The status shows a task for a period only if it was evaluated in it.
LEMMA ShownInEffect ==
  ASSUME NEW m, NEW t \in TasksOfMonth(m), NEW n
  PROVE  ShownFor(t, n) <=> InEffect(t, n)
BY DEF TasksOfMonth, ShownFor, InEffect

\* A task that was evaluated in a period of a month is one of the month.
LEMMA TaskOfMonth ==
  ASSUME HouseholdTypeOK, NEW m \in Nat, NEW next \in Nat, next = NextMonth(m),
         NEW n \in Nat, m < n, n <= next, NEW t \in Task, InEffect(t, n)
  PROVE  t \in TasksOfMonth(m)
<1>1. born[t] \in Nat /\ gone[t] \in Nat
  BY Days DEF HouseholdTypeOK, Never
<1> QED
  BY <1>1 DEF TasksOfMonth, InEffect, Never

\* An item not completed stands for a task missed in a period of the month.
LEMMA OpenIsMissed ==
  ASSUME HouseholdTypeOK, NEW m \in MonthStarts, m <= today,
         NEW i \in TaskStatus(m), ~ i.completed
  PROVE  /\ i.scope \in Evaluated /\ i.task \in Missed(i.scope, i.period)
         /\ i = Item(i.scope, i.period, i.task)
         /\ i.scope = "day" => i.period \in m..(NextMonth(m) - 1)
         /\ i.scope = "week" => i.period \in Week /\ ChargedMonth("week", i.period) = m
<1>1. PICK d \in m..(NextMonth(m) - 1) : i \in StatusOn(d, m)
  BY DEF TaskStatus
<1>2. CASE i \in {[scope |-> "day", period |-> d, task |-> t, completed |-> t \in DailyCompletions(d)] :
                    t \in {u \in TasksOfMonth(m) \cap DailyTask : ShownFor(u, d + 1)}}
  <2>1. PICK t \in TasksOfMonth(m) \cap DailyTask :
          /\ ShownFor(t, d + 1)
          /\ i = [scope |-> "day", period |-> d, task |-> t, completed |-> t \in DailyCompletions(d)]
    BY <1>2
  <2>2. t \notin DailyCompletions(d)
    BY <2>1
  <2>3. InEffect(t, NextPeriod("day", d)) /\ t \in Task /\ <<t, d>> \notin done
    BY <2>1, <2>2, ShownInEffect DEF NextPeriod, Task, DailyCompletions
  <2>4. t \in Missed("day", d)
    BY <2>1, <2>3, MissedByEnd DEF Evaluated
  <2>5. i.scope = "day" /\ i.period = d /\ i.task = t /\ i = Item("day", d, t)
    <3>1. (t \in DailyCompletions(d)) = FALSE
      BY <2>2
    <3>2. i = Item("day", d, t)
      BY <2>1, <3>1, Zenon DEF Item
    <3> QED
      BY <3>2 DEF Item
  <2> QED
    BY <2>4, <2>5 DEF Evaluated
<1>3. ASSUME NEW w \in WeeksShownOn(d, m),
             i \in {[scope |-> "week", period |-> w, task |-> t,
                     completed |-> WeeklyCounts(w)[t] >= required[t]] :
                       t \in {u \in TasksOfMonth(m) \cap WeeklyTask : ShownFor(u, w + DaysPerWeek)}}
      PROVE  /\ i.scope = "week" /\ i.task \in Missed("week", i.period)
             /\ i = Item("week", i.period, i.task)
             /\ i.period \in Week /\ ChargedMonth("week", i.period) = m
  <2>1. PICK t \in TasksOfMonth(m) \cap WeeklyTask :
          /\ ShownFor(t, w + DaysPerWeek)
          /\ i = [scope |-> "week", period |-> w, task |-> t,
                  completed |-> WeeklyCounts(w)[t] >= required[t]]
    BY <1>3
  <2>2. w \in Week /\ ChargedMonth("week", w) = m
    BY DEF WeeksShownOn
  <2>3. ~ (count[t][w] >= required[t])
    BY <2>1 DEF WeeklyCounts
  <2>4. count[t][w] \in Nat /\ required[t] \in Nat
    BY <2>1, <2>2 DEF HouseholdTypeOK, RequiredMax, RequiredMin
  <2>5. InEffect(t, NextPeriod("week", w)) /\ t \in Task /\ count[t][w] < required[t]
    BY <2>1, <2>3, <2>4, ShownInEffect DEF NextPeriod, Task
  <2>6. t \in Missed("week", w)
    BY <2>1, <2>5, MissedByEnd DEF Evaluated
  <2>7. i.scope = "week" /\ i.period = w /\ i.task = t /\ i = Item("week", w, t)
    <3>1. (WeeklyCounts(w)[t] >= required[t]) = FALSE
      BY <2>3 DEF WeeklyCounts
    <3>2. i = Item("week", w, t)
      BY <2>1, <3>1, Zenon DEF Item
    <3> QED
      BY <3>2 DEF Item
  <2> QED
    BY <2>2, <2>6, <2>7
<1> QED
  BY <1>1, <1>2, <1>3 DEF StatusOn, Evaluated

\* A task missed in a period of the month is shown as not completed.
LEMMA MissedIsOpen ==
  ASSUME HouseholdTypeOK, NEW m \in MonthStarts, m <= today, NEW s \in Evaluated,
         NEW p \in PeriodsOf(s, m), NEW t \in Missed(s, p)
  PROVE  Item(s, p, t) \in TaskStatus(m)
<1>1. /\ m \in Nat \ {0} /\ NextMonth(m) \in Nat /\ m < NextMonth(m)
      /\ \A d \in Known : Month(d) = m <=> d \in m..(NextMonth(m) - 1)
  BY DaysOfMonth
<1>2. p \in Day /\ p \in Nat \ {0} /\ p \in Known /\ ChargedMonth(s, p) = m
  BY PeriodsOfMonths, Days
<1>3. InEffect(t, NextPeriod(s, p)) /\ t \in Task
  BY MissedByEnd
<1>4. CASE s = "day"
  <2>1. p \in m..(NextMonth(m) - 1)
    BY <1>1, <1>2, <1>4 DEF ChargedMonth
  <2>2. t \in TasksOfMonth(m) /\ ShownFor(t, p + 1)
    <3>1. InEffect(t, p + 1) /\ p + 1 \in Nat /\ m < p + 1 /\ p + 1 <= NextMonth(m)
      BY <1>1, <1>2, <1>3, <1>4, <2>1 DEF NextPeriod
    <3>2. t \in TasksOfMonth(m)
      BY <1>1, <1>3, <3>1, TaskOfMonth
    <3> QED
      BY <3>1, <3>2, ShownInEffect
  <2>3. t \in DailyTask /\ t \notin DailyCompletions(p)
    BY <1>4, MissedByEnd DEF DailyCompletions
  <2>4. Item(s, p, t) = [scope |-> "day", period |-> p, task |-> t, completed |-> t \in DailyCompletions(p)]
    <3>1. (t \in DailyCompletions(p)) = FALSE
      BY <2>3
    <3> QED
      BY <1>4, <3>1, Zenon DEF Item
  <2>5. Item(s, p, t) \in StatusOn(p, m)
    BY <2>2, <2>3, <2>4 DEF StatusOn
  <2> QED
    BY <2>1, <2>5 DEF TaskStatus
<1>5. CASE s = "week"
  <2>1. p \in Week
    BY <1>5, PeriodsOfMonths DEF Week, Period
  <2>2. DaysPerWeek \in Nat \ {0} /\ p + DaysPerWeek - 1 \in Known
    BY <1>2, Days DEF Known
  <2>3. p + DaysPerWeek - 1 \in m..(NextMonth(m) - 1)
    BY <1>1, <1>2, <1>5, <2>2 DEF ChargedMonth
  <2>4. t \in TasksOfMonth(m) /\ ShownFor(t, p + DaysPerWeek)
    <3>1. /\ InEffect(t, p + DaysPerWeek) /\ p + DaysPerWeek \in Nat
          /\ m < p + DaysPerWeek /\ p + DaysPerWeek <= NextMonth(m)
      BY <1>1, <1>2, <1>3, <1>5, <2>2, <2>3 DEF NextPeriod
    <3>2. t \in TasksOfMonth(m)
      BY <1>1, <1>3, <3>1, TaskOfMonth
    <3> QED
      BY <3>1, <3>2, ShownInEffect
  <2>5. t \in WeeklyTask /\ count[t][p] < required[t]
    BY <1>5, MissedByEnd
  <2>6. count[t][p] \in Nat /\ required[t] \in Nat
    BY <2>1, <2>5 DEF HouseholdTypeOK, RequiredMax, RequiredMin
  <2>7. Item(s, p, t) = [scope |-> "week", period |-> p, task |-> t,
                         completed |-> WeeklyCounts(p)[t] >= required[t]]
    <3>1. (WeeklyCounts(p)[t] >= required[t]) = FALSE
      BY <2>5, <2>6 DEF WeeklyCounts
    <3> QED
      BY <1>5, <3>1, Zenon DEF Item
  <2>8. AnchorOfWeek(p, m) \in m..(NextMonth(m) - 1)
    <3>1. AnchorOfWeek(p, m) \in {p, m} /\ m <= AnchorOfWeek(p, m)
      <4>1. {p, m} \in SUBSET Int /\ IsFiniteSet({p, m}) /\ {p, m} # {}
        <5>1. IsFiniteSet({p}) /\ {p} \cup {m} = {p, m}
          BY FS_Singleton
        <5>2. IsFiniteSet({p} \cup {m})
          BY <5>1, FS_AddElement
        <5>3. IsFiniteSet({p, m})
          BY <5>1, <5>2, Zenon
        <5>4. {p, m} \in SUBSET Int /\ {p, m} # {}
          BY <1>1, <1>2
        <5> QED
          BY <5>3, <5>4
      <4> QED
        BY <4>1, MaxIsGreatest DEF AnchorOfWeek
    <3> QED
      BY <1>1, <1>2, <2>2, <2>3, <3>1
  <2>9. p \in WeeksShownOn(AnchorOfWeek(p, m), m)
    BY <1>2, <1>5, <2>1 DEF WeeksShownOn
  <2>10. Item(s, p, t) \in StatusOn(AnchorOfWeek(p, m), m)
    BY <2>4, <2>5, <2>7, <2>9 DEF StatusOn
  <2> QED
    BY <2>8, <2>10 DEF TaskStatus
<1> QED
  BY <1>4, <1>5 DEF Evaluated

\* The items that are due, by the periods that are settled.
LEMMA DueItems ==
  ASSUME HouseholdTypeOK, RunInv, NEW s \in Evaluated, NEW m \in MonthStarts, m <= today,
         NEW P, P = {p \in PeriodsOf(s, m) : Settled(s, p)},
         NEW D, D = {i \in {x \in TaskStatus(m) : ~ x.completed} :
                       i.scope = s /\ Settled(s, i.period)}
  PROVE  /\ \A i \in D : /\ i.period \in P /\ i.task \in Missed(s, i.period)
                         /\ i = Item(s, i.period, i.task)
         /\ \A p \in P : \A t \in Missed(s, p) : Item(s, p, t) \in D
<1>1. ASSUME NEW i \in D PROVE i.period \in P /\ i.task \in Missed(s, i.period) /\ i = Item(s, i.period, i.task)
  <2>1. i \in TaskStatus(m) /\ ~ i.completed /\ i.scope = s /\ Settled(s, i.period)
    OBVIOUS
  <2>2. /\ i.task \in Missed(s, i.period) /\ i = Item(s, i.period, i.task)
        /\ s = "day" => i.period \in m..(NextMonth(m) - 1)
        /\ s = "week" => i.period \in Week /\ ChargedMonth("week", i.period) = m
    BY <2>1, OpenIsMissed
  <2>3. i.period \in PeriodsOf(s, m)
    <3>1. CASE s = "week"
      BY <2>2, <3>1, PeriodsOfMonths DEF Week, Period
    <3>2. CASE s = "day"
      <4>1. m \in Nat \ {0} /\ NextMonth(m) \in Nat
        BY DaysOfMonth
      <4>2. i.period \in Nat \ {0} /\ <<s, i.period>> \in runs /\ today \in Day /\ s \in Scope
        BY <2>1, <2>2, <3>2, <4>1 DEF Settled, HouseholdTypeOK, Scope
      <4>3. i.period <= LastDay /\ i.period \in Begins(s)
        <5>1. i.period \in Begins(s) /\ i.period < Period(s, today)
          BY <4>2 DEF RunInv, Turn
        <5> QED
          BY <3>2, <4>2, <5>1, Days DEF Period, Day
      <4>4. i.period \in Known
        BY <4>2, <4>3, Days DEF Known
      <4>5. ChargedMonth(s, i.period) = m
        BY <2>2, <3>2, <4>4, DaysOfMonth DEF ChargedMonth
      <4> QED
        BY <4>3, <4>5, PeriodsOfMonths
    <3> QED
      BY <3>1, <3>2 DEF Evaluated
  <2> QED
    BY <2>1, <2>2, <2>3
<1>2. ASSUME NEW p \in P, NEW t \in Missed(s, p) PROVE Item(s, p, t) \in D
  <2>1. Item(s, p, t) \in TaskStatus(m) /\ Settled(s, p)
    BY MissedIsOpen
  <2>2. /\ ~ Item(s, p, t).completed /\ Item(s, p, t).scope = s
        /\ Item(s, p, t).period = p
    BY DEF Item
  <2> QED
    BY <2>1, <2>2
<1> QED
  BY <1>1, <1>2

\* The points of the items of a period add up to its bill.
ItemsOf(s, p) == {Item(s, p, t) : t \in Missed(s, p)}

LEMMA ItemsOfPeriod ==
  ASSUME HouseholdTypeOK, NEW s \in Evaluated, NEW p,
         NEW f, \A i \in ItemsOf(s, p) : f[i] = points[i.task]
  PROVE  IsFiniteSet(ItemsOf(s, p)) /\ SumOver(f, ItemsOf(s, p)) = Cost(Missed(s, p))
<1> DEFINE B == ItemsOf(s, p)
<1>1. PICK T : T = Missed(s, p)
  OBVIOUS
<1>2. T \in SUBSET Task /\ IsFiniteSet(T)
  <2>1. Missed(s, p) \in SUBSET Task
    BY DEF Missed, MissedDaily, MissedWeekly, Task
  <2> QED
    BY <1>1, <2>1, HouseholdAssumption, FS_Subset
<1>3. PICK b : b = [t \in T |-> Item(s, p, t)]
  OBVIOUS
<1>4. PICK k : k = [i \in B |-> i.task]
  OBVIOUS
<1>5. \A t \in T : b[t] = Item(s, p, t) /\ b[t] \in B /\ b[t].task = t
  BY <1>1, <1>3 DEF Item, ItemsOf
<1>6. \A t \in T : b[t] \in B /\ k[b[t]] = t
  BY <1>4, <1>5
<1>7. \A i \in B : k[i] \in T /\ b[k[i]] = i
  <2> SUFFICES ASSUME NEW i \in B PROVE k[i] \in T /\ b[k[i]] = i
    OBVIOUS
  <2>1. PICK t \in T : i = Item(s, p, t)
    BY <1>1 DEF ItemsOf
  <2>2. i = b[t]
    BY <1>5, <2>1
  <2> QED
    BY <1>6, <2>2
<1>8. \A t \in T : points[t] \in Nat /\ f[b[t]] = points[t]
  BY <1>2, <1>5 DEF HouseholdTypeOK
<1>9. Renamed(B, T, k, b)
  BY <1>6, <1>7 DEF Renamed
<1> HIDE DEF B
<1>10. IsFiniteSet(B) /\ SumOver(f, B) = SumOver(points, T)
  BY <1>2, <1>8, <1>9, SumRenamed
<1> QED
  BY <1>1, <1>10 DEF Cost, B

\* The points of the items due add up to the bills of the periods settled.
LEMMA ItemsAddUp ==
  ASSUME HouseholdTypeOK, NEW s \in Evaluated, NEW P, IsFiniteSet(P), NEW D,
         \A p \in P : Bill(s, p) = Cost(Missed(s, p)),
         \A i \in D : /\ i.period \in P /\ i.task \in Missed(s, i.period)
                      /\ i = Item(s, i.period, i.task),
         \A p \in P : \A t \in Missed(s, p) : Item(s, p, t) \in D,
         NEW f, \A i \in D : f[i] = points[i.task]
  PROVE  SumOver(f, D) = Bills(s, P)
<1>1. PICK B : B = [p \in P |-> ItemsOf(s, p)]
  OBVIOUS
<1>2. PICK k : k = [i \in D |-> i.period]
  OBVIOUS
<1>3. PICK g : g = [p \in P |-> Bill(s, p)]
  OBVIOUS
<1>4. ASSUME NEW p \in P
      PROVE  /\ B[p] \subseteq D /\ IsFiniteSet(B[p]) /\ \A i \in B[p] : k[i] = p
             /\ g[p] = SumOver(f, B[p])
  <2>1. B[p] = ItemsOf(s, p)
    BY <1>1
  <2>2. \A i \in ItemsOf(s, p) : i \in D /\ i.period = p
    BY DEF ItemsOf, Item
  <2>3. IsFiniteSet(ItemsOf(s, p)) /\ SumOver(f, ItemsOf(s, p)) = Cost(Missed(s, p))
    BY <2>2, ItemsOfPeriod
  <2> QED
    BY <1>2, <1>3, <2>1, <2>2, <2>3
<1>5. \A i \in D : k[i] \in P /\ i \in B[k[i]]
  BY <1>1, <1>2 DEF ItemsOf
<1>6. Grouped(D, P, k, B)
  BY <1>4, <1>5 DEF Grouped
<1>7. \A i \in D : f[i] \in Nat
  <2> SUFFICES ASSUME NEW i \in D PROVE f[i] \in Nat
    OBVIOUS
  <2>1. i.task \in Task
    BY MissedByEnd
  <2> QED
    BY <2>1 DEF HouseholdTypeOK
<1>8. SumOver(f, D) = SumOver(g, P)
  BY <1>4, <1>6, <1>7, SumOfGroups
<1> QED
  BY <1>3, <1>8 DEF Bills

\* With the same care, and as long as no task is edited, the status of a month
\* explains its totals: the points of the items it shows as not completed, of
\* the days and weeks that were settled, add up to the totals above them
\* (store_task_overview.go:192-362 against task_evaluation_dedupes.sql:8-63).
THEOREM StatusIsTrue ==
  ASSUME Ordered, MaxFailures = 0, Viewer = {}
  PROVE  Spec => []StatusExplainsTotals
<1>1. ASSUME ClosingInv, ChargeInv, PresentInv PROVE StatusExplainsTotals
  <2> SUFFICES ASSUME edits = 0, NEW m \in MonthStarts, m <= today, NEW s \in Evaluated,
                      NEW D, D = {i \in {x \in TaskStatus(m) : ~ x.completed} :
                                    i.scope = s /\ Settled(s, i.period)}
               PROVE  Total(s, m) = SumOver([i \in D |-> points[i.task]], D)
    BY DEF StatusExplainsTotals
  <2>1. HouseholdTypeOK /\ RunInv
    BY <1>1, TypeParts DEF ClosingInv
  <2>2. PICK P : P = {p \in PeriodsOf(s, m) : Settled(s, p)}
    OBVIOUS
  <2>3. P \in SUBSET Nat /\ IsFiniteSet(P)
    BY <2>2, PeriodsOfMonths, FS_Subset
  <2>4. Total(s, m) = Bills(s, P)
    BY <1>1, <2>2, PaidIsSettled DEF Careful, Owed
  <2>5. ASSUME NEW p \in P PROVE Bill(s, p) = Cost(Missed(s, p))
    <3>1. CASE <<s, p>> \in DOMAIN tariff
      BY <1>1, <2>1, <2>3, <3>1, MissedBill DEF PresentInv
    <3>2. CASE <<s, p>> \notin DOMAIN tariff
      BY <2>1, <2>3, <3>2, PresentBill DEF TariffOf
    <3> QED
      BY <3>1, <3>2
  <2>6. /\ \A i \in D : /\ i.period \in P /\ i.task \in Missed(s, i.period)
                        /\ i = Item(s, i.period, i.task)
        /\ \A p \in P : \A t \in Missed(s, p) : Item(s, p, t) \in D
    BY <2>1, <2>2, DueItems
  <2>7. PICK f : f = [i \in D |-> points[i.task]]
    OBVIOUS
  <2>8. \A i \in D : f[i] = points[i.task]
    BY <2>7
  <2>9. SumOver(f, D) = Bills(s, P)
    BY <2>1, <2>3, <2>5, <2>6, <2>8, ItemsAddUp
  <2> QED
    BY <2>4, <2>7, <2>9
<1> QED
  BY <1>1, AlwaysClosing, AlwaysCharges, AlwaysPresent, PTL
================================================================================
