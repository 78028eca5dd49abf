------------------------------ MODULE ClosingProofs ------------------------------
(***************************************************************************)
(* Proofs about Closing, for any calendar, tasks, rules, jobs and viewers: *)
(* types, and the runs of a scope.                                         *)
(***************************************************************************)
EXTENDS Overview, CalendarProofs

\* Nothing is dated in the future.
LifeInv ==
  /\ \A t \in Task : born[t] <= today /\ gone[t] <= today
  /\ \A r \in Rule : enacted[r] <= today /\ repealed[r] <= today

\* Every period of scope s from the first task up to p has a run.
Covered(s, p) ==
  \A q \in Begins(s) : Period(s, Seed) <= q /\ q < p => <<s, q>> \in runs

\* Period p of scope s is over, and its turn has come.
Turn(s, p) ==
  /\ Seeded
  /\ p \in Begins(s) /\ p < Period(s, today)
  /\ Period(s, Seed) <= p /\ Covered(s, p)

RunInv == \A s \in Scope : \A p \in Nat : <<s, p>> \in runs => Turn(s, p)

\* Job j has entered the run of its period.
Entered(j) ==
  \/ step[j] \in {"sum", "increment", "judge", "close", "clear", "trigger"}
  \/ step[j] \in {"ensure", "upsert"} /\ scope[j] = "month"

\* Job j has seen the summary of its month.
Ensured(j) ==
  \/ step[j] \in {"sum", "increment", "judge", "close"}
  \/ step[j] = "insert" /\ scope[j] \in Evaluated

JobOK(j) ==
  /\ step[j] # "idle" =>
       /\ Turn(scope[j], target[j])
       /\ end[j] \in Begins(scope[j]) /\ end[j] < Period(scope[j], today)
       /\ target[j] <= end[j]
  /\ Entered(j) => <<scope[j], target[j]>> \in runs
  /\ step[j] \in {"sum", "increment"} => scope[j] \in Evaluated
  /\ step[j] \in {"judge", "close", "clear", "trigger"} => scope[j] = "month"
  /\ Ensured(j) => summary[MonthOfJob(j)] # NoRow

JobInv == \A j \in Job : JobOK(j)

\* No two jobs are past the entry of the same run.
ExclusiveInv ==
  \A i, j \in Job : i # j /\ Entered(i) /\ Entered(j)
    => scope[i] # scope[j] \/ target[i] # target[j]

ClosingInv == TypeOK /\ LifeInv /\ RunInv /\ JobInv /\ ExclusiveInv

--------------------------------------------------------------------------------
(* The household                                                            *)

LEMMA Days ==
  /\ LastDay \in Nat \ {0} /\ DaysPerWeek \in Nat \ {0}
  /\ \A d \in Day : d \in Nat \ {0} /\ d \in Known /\ d <= LastDay
BY CalendarAssumption DEF Day, Known

LEMMA InputsAreTyped ==
  /\ \A t \in Task : \A n \in PointChoice[t] : n \in Nat
  /\ \A t \in WeeklyTask : \A k \in RequiredOf(t) : k \in RequiredMin..RequiredMax
  /\ \A r \in Rule : \A n \in ThresholdChoice[r] : n \in Nat
  /\ MaxEdits \in Nat
<1>1. PointChoice \in [Task -> SUBSET Nat]
  BY HouseholdAssumption
<1>2. RequiredChoice \in [WeeklyTask -> SUBSET (RequiredMin..RequiredMax)]
  BY HouseholdAssumption
<1>3. ThresholdChoice \in [Rule -> SUBSET Nat]
  BY HouseholdAssumption
<1>4. \A t \in WeeklyTask : RequiredChoice[t] \in SUBSET (RequiredMin..RequiredMax)
  BY <1>2
<1>5. \A t \in WeeklyTask : RequiredOf(t) = RequiredChoice[t]
  BY DEF RequiredOf
<1>6. MaxEdits \in Nat
  BY HouseholdAssumption
<1> QED
  BY <1>1, <1>3, <1>4, <1>5, <1>6

\* The day of the first task, once there is one.
SeedOK ==
  /\ Seed \in Day /\ \E t \in Task : Seed = born[t]
  /\ \A t \in Task : born[t] # Never => Seed <= born[t]

LEMMA SeedIsFirst == HouseholdTypeOK /\ Seeded => SeedOK
<1> SUFFICES ASSUME HouseholdTypeOK, Seeded PROVE SeedOK
  OBVIOUS
<1> DEFINE S == {born[t] : t \in Task} \ {Never}
<1>1. \A t \in Task : born[t] \in Day \cup {Never}
  BY DEF HouseholdTypeOK
<1>2. S \in SUBSET Nat /\ S # {} /\ \A d \in S : d \in Day
  BY <1>1, Days DEF Seeded, Never
<1>3. Seed = Min(S)
  BY DEF Seed
<1>4. \A t \in Task : born[t] # Never => born[t] \in S
  OBVIOUS
<1>5. \A d \in S : \E t \in Task : d = born[t]
  OBVIOUS
<1> HIDE DEF S
<1>6. Min(S) \in S /\ \A k \in S : Min(S) <= k
  BY <1>2, MinIsLeast
<1> QED
  BY <1>2, <1>3, <1>4, <1>5, <1>6 DEF SeedOK

\* What the members do keeps the types, and dates nothing in the future.
LEMMA MemberKeepsTypes ==
  ASSUME HouseholdTypeOK, LifeInv, Member
  PROVE  HouseholdTypeOK' /\ LifeInv'
<1> USE DEF HouseholdTypeOK, LifeInv, taskVars, ruleVars
<1>1. CASE NextDay
  BY <1>1, Days DEF NextDay, Day, Never
<1>2. ASSUME NEW t \in Task, CreateTask(t) PROVE HouseholdTypeOK' /\ LifeInv'
  <2>1. PICK n \in PointChoice[t], k \in RequiredOf(t) : WriteTask(t, n, k)
    BY <1>2 DEF CreateTask
  <2>2. points' \in [Task -> Nat] /\ required' \in [WeeklyTask -> RequiredMin..RequiredMax]
    BY <2>1, InputsAreTyped DEF WriteTask
  <2>3. born' \in [Task -> Day \cup {Never}] /\ \A u \in Task : born'[u] <= today
    BY <1>2, Days DEF CreateTask, InsertTask
  <2> QED
    BY <1>2, <2>2, <2>3, Days DEF CreateTask, InsertTask, Never
<1>3. ASSUME NEW t \in Task, PatchTask(t) PROVE HouseholdTypeOK' /\ LifeInv'
  <2>1. PICK n \in PointChoice[t], k \in RequiredOf(t) : WriteTask(t, n, k)
    BY <1>3 DEF PatchTask
  <2>2. points' \in [Task -> Nat] /\ required' \in [WeeklyTask -> RequiredMin..RequiredMax]
    BY <2>1, InputsAreTyped DEF WriteTask
  <2>3. edits' \in 0..MaxEdits
    BY <1>3, InputsAreTyped DEF PatchTask, Edit
  <2> QED
    BY <1>3, <2>2, <2>3 DEF PatchTask
<1>4. ASSUME NEW t \in Task, DeleteTask(t) PROVE HouseholdTypeOK' /\ LifeInv'
  BY <1>4, Days DEF DeleteTask, MarkDeleted, Never
<1>5. ASSUME NEW t \in DailyTask, ToggleDaily(t) PROVE HouseholdTypeOK' /\ LifeInv'
  BY <1>5 DEF ToggleDaily, CreateTaskCompletionDaily, DeleteTaskCompletionDaily
<1>6. ASSUME NEW t \in WeeklyTask, CompleteWeekly(t) PROVE HouseholdTypeOK' /\ LifeInv'
  <2> DEFINE w == WeekStart(today)
  <2>1. w \in Week
    BY DEF Week
  <2> HIDE DEF w
  <2>2. count[t][w] \in 0..RequiredMax /\ required[t] \in RequiredMin..RequiredMax
    BY <2>1
  <2>3. \/ count' = [count EXCEPT ![t][w] = @ + 1] /\ count[t][w] < RequiredMax
        \/ count' = [count EXCEPT ![t][w] = @ - 1] /\ count[t][w] > 0
    BY <1>6, <2>2 DEF w, CompleteWeekly, ToggleWeekly, CountUp, CountDown, WeeklyEntries,
         InsertWeeklyEntry, DeleteLatestWeeklyEntry, RequiredMin, RequiredMax
  <2>4. PICK n \in 0..RequiredMax : count' = [count EXCEPT ![t][w] = n]
    <3>1. \A n : n = count[t][w] =>
            /\ [count EXCEPT ![t][w] = @ + 1] = [count EXCEPT ![t][w] = n + 1]
            /\ [count EXCEPT ![t][w] = @ - 1] = [count EXCEPT ![t][w] = n - 1]
      OBVIOUS
    <3>2. count[t][w] < RequiredMax => count[t][w] + 1 \in 0..RequiredMax
      BY <2>2 DEF RequiredMax
    <3>3. count[t][w] > 0 => count[t][w] - 1 \in 0..RequiredMax
      BY <2>2 DEF RequiredMax
    <3> QED
      BY <2>3, <3>1, <3>2, <3>3
  <2>5. count' \in [WeeklyTask -> [Week -> 0..RequiredMax]]
    BY <2>1, <2>4
  <2> QED
    BY <1>6, <2>5 DEF CompleteWeekly
<1>7. ASSUME NEW r \in Rule, CreatePenaltyRule(r) PROVE HouseholdTypeOK' /\ LifeInv'
  <2>1. PICK n \in Nat : InsertPenaltyRule(r, n)
    BY <1>7, InputsAreTyped DEF CreatePenaltyRule
  <2> QED
    BY <1>7, <2>1, Days DEF CreatePenaltyRule, InsertPenaltyRule, UpdatePenaltyRule, Never
<1>8. ASSUME NEW r \in Rule, PatchPenaltyRule(r) PROVE HouseholdTypeOK' /\ LifeInv'
  <2>1. PICK n \in Nat : UpdatePenaltyRule(r, n)
    BY <1>8, InputsAreTyped DEF PatchPenaltyRule
  <2> QED
    BY <1>8, <2>1, InputsAreTyped DEF PatchPenaltyRule, Edit, UpdatePenaltyRule
<1>9. ASSUME NEW r \in Rule, DeletePenaltyRule(r) PROVE HouseholdTypeOK' /\ LifeInv'
  BY <1>9, InputsAreTyped, Days DEF DeletePenaltyRule, Edit, SoftDeletePenaltyRule, Never
<1> QED
  BY <1>1, <1>2, <1>3, <1>4, <1>5, <1>6, <1>7, <1>8, <1>9 DEF Member

\* The members put no task before the first one.
LEMMA MemberKeepsSeed ==
  ASSUME HouseholdTypeOK, LifeInv, Member
  PROVE  today <= today' /\ (Seeded => Seeded' /\ Seed' = Seed)
<1>1. today <= today'
  BY DEF Member, NextDay, CreateTask, PatchTask, DeleteTask, ToggleDaily, CompleteWeekly,
         CreatePenaltyRule, PatchPenaltyRule, DeletePenaltyRule, HouseholdTypeOK, Day
<1>2. \A t \in Task : \/ born'[t] = born[t]
                      \/ born[t] = Never /\ born'[t] = today
  BY DEF Member, NextDay, CreateTask, InsertTask, PatchTask, DeleteTask, ToggleDaily,
         CompleteWeekly, CreatePenaltyRule, PatchPenaltyRule, DeletePenaltyRule,
         HouseholdTypeOK, taskVars
<1>3. ASSUME Seeded PROVE Seeded' /\ Seed' = Seed
  <2>1. /\ Seed \in Day /\ \E t \in Task : Seed = born[t]
        /\ \A t \in Task : born[t] # Never => Seed <= born[t]
    BY <1>3, SeedIsFirst DEF SeedOK
  <2>2. today \in Day /\ \A t \in Task : born[t] \in Day \cup {Never} /\ born[t] <= today
    BY DEF HouseholdTypeOK, LifeInv
  <2>3. Seed <= today /\ Seed # Never
    BY <2>1, <2>2, Days DEF Never
  <2>4. Seeded'
    BY <1>2, <2>1, <2>3 DEF Seeded
  <2>5. HouseholdTypeOK'
    BY MemberKeepsTypes
  <2>6. /\ Seed' \in Day /\ \E t \in Task : Seed' = born'[t]
        /\ \A t \in Task : born'[t] # Never => Seed' <= born'[t]
    <3>1. (HouseholdTypeOK /\ Seeded => SeedOK)'
      BY SeedIsFirst, PTL
    <3> QED
      BY <2>4, <2>5, <3>1 DEF SeedOK
  <2>7. Seed' <= Seed
    BY <1>2, <2>1, <2>3, <2>6
  <2>8. Seed <= Seed'
    <3>1. PICK t \in Task : Seed' = born'[t]
      BY <2>6
    <3>2. CASE born'[t] = born[t]
      <4>1. born[t] # Never
        BY <2>6, <3>1, <3>2, Days DEF Never
      <4> QED
        BY <2>1, <3>1, <3>2, <4>1
    <3>3. CASE born'[t] = today
      BY <2>3, <3>1, <3>3
    <3> QED
      BY <1>2, <3>2, <3>3
  <2> QED
    BY <2>1, <2>4, <2>6, <2>7, <2>8, Days
<1> QED
  BY <1>1, <1>3

--------------------------------------------------------------------------------
(* Turns                                                                    *)

\* A job reaches a period when it is over and every one before has a run.
LEMMA TurnIsOver ==
  ASSUME HouseholdTypeOK, NEW s \in Scope, NEW p, Turn(s, p)
  PROVE  p \in Begins(s) /\ p \in Nat \ {0} /\ p < today /\ today <= LastDay /\ today \in Day
<1>1. today \in Day
  BY DEF HouseholdTypeOK
<1>2. p \in Begins(s) /\ p < Period(s, today)
  BY DEF Turn
<1>3. Period(s, today) \in Begins(s) /\ Period(s, today) <= today
  BY <1>1, Days, PeriodOfDay
<1> QED
  BY <1>1, <1>2, <1>3, Days, BeginsAreDays

LEMMA TurnStays ==
  ASSUME HouseholdTypeOK, HouseholdTypeOK', today <= today',
         Seeded => Seeded' /\ Seed' = Seed, runs \subseteq runs',
         NEW s \in Scope, NEW p, Turn(s, p)
  PROVE  Turn(s, p)'
<1>1. Seeded' /\ Seed' = Seed
  BY DEF Turn
<1>2. today \in Day /\ today' \in Day
  BY DEF HouseholdTypeOK
<1>3. Period(s, today) <= Period(s, today')
  BY <1>2, OverStays DEF Day
<1>4. Period(s, today) \in Nat /\ Period(s, today') \in Nat /\ p \in Nat
  BY <1>2, Days, PeriodOfDay, BeginsAreDays DEF Turn
<1>5. Covered(s, p)'
  BY <1>1 DEF Turn, Covered
<1> QED
  BY <1>1, <1>3, <1>4, <1>5 DEF Turn

LEMMA NextTurn ==
  ASSUME HouseholdTypeOK, NEW s \in Scope, NEW p, Turn(s, p), <<s, p>> \in runs,
         NEW e \in Begins(s), e < Period(s, today), NextPeriod(s, p) <= e
  PROVE  Turn(s, NextPeriod(s, p))
<1>1. p \in Begins(s) /\ p \in Nat /\ p <= LastDay + DaysPerWeek /\ today \in Day
  BY TurnIsOver, Days
<1>2. /\ NextPeriod(s, p) \in Begins(s) /\ NextPeriod(s, p) > p
      /\ \A q \in Begins(s) : q > p => q >= NextPeriod(s, p)
  BY <1>1, PeriodAfter
<1>3. Period(s, today) \in Nat /\ e \in Nat /\ NextPeriod(s, p) \in Nat
  BY <1>1, <1>2, Days, PeriodOfDay, BeginsAreDays
<1>4. Period(s, Seed) \in Nat
  BY SeedIsFirst, Days, PeriodOfDay, BeginsAreDays DEF Turn, SeedOK
<1>5. Covered(s, NextPeriod(s, p))
  <2> SUFFICES ASSUME NEW q \in Begins(s), Period(s, Seed) <= q, q < NextPeriod(s, p)
               PROVE  <<s, q>> \in runs
    BY DEF Covered
  <2>1. q < p \/ q = p
    BY <1>1, <1>2, <1>3, BeginsAreDays
  <2> QED
    BY <2>1 DEF Turn, Covered
<1> QED
  BY <1>1, <1>2, <1>3, <1>4, <1>5 DEF Turn

\* The next period to close is the first one without a run.
LEMMA TargetIsFirst ==
  ASSUME HouseholdTypeOK, RunInv, NEW s \in Scope, Seeded
  PROVE  /\ NextTarget(s) \in Begins(s) /\ Period(s, Seed) <= NextTarget(s)
         /\ Covered(s, NextTarget(s))
         /\ \A q \in Nat : q >= NextTarget(s) => <<s, q>> \notin runs
<1>1. today \in Day /\ today \in Known /\ today \in Nat
  BY Days DEF HouseholdTypeOK
<1>2. \A p \in Nat : <<s, p>> \in runs => Turn(s, p) /\ p \in Closed(s)
  <2> SUFFICES ASSUME NEW p \in Nat, <<s, p>> \in runs PROVE Turn(s, p) /\ p \in Closed(s)
    OBVIOUS
  <2>1. Turn(s, p)
    BY DEF RunInv
  <2>2. p \in 0..(LastDay + DaysPerWeek)
    BY <2>1, TurnIsOver, Days
  <2> QED
    BY <2>1, <2>2 DEF Closed
<1>3. Closed(s) \in SUBSET Int /\ Closed(s) \in SUBSET Nat /\ IsFiniteSet(Closed(s))
  <2>1. IsFiniteSet(0..(LastDay + DaysPerWeek))
    BY Days, FS_Interval
  <2>2. Closed(s) \in SUBSET (0..(LastDay + DaysPerWeek))
    BY DEF Closed
  <2> QED
    BY <2>1, <2>2, Days, FS_Subset
<1>4. /\ Seed \in Day /\ Seed \in Known
      /\ Period(s, Seed) \in Begins(s) /\ Period(s, Seed) \in Nat
  BY SeedIsFirst, Days, PeriodOfDay, BeginsAreDays DEF SeedOK
<1>5. CASE Closed(s) = {}
  <2>1. NextTarget(s) = Period(s, Seed)
    BY <1>5 DEF NextTarget
  <2>2. Covered(s, Period(s, Seed))
    BY <1>4, BeginsAreDays DEF Covered
  <2>3. \A q \in Nat : <<s, q>> \notin runs
    BY <1>2, <1>5
  <2> QED
    BY <1>4, <2>1, <2>2, <2>3
<1>6. CASE Closed(s) # {}
  <2> DEFINE p == Max(Closed(s))
  <2>1. NextTarget(s) = NextPeriod(s, p)
    BY <1>6 DEF NextTarget
  <2>2. p \in Closed(s) /\ \A q \in Closed(s) : p >= q
    BY <1>3, <1>6, MaxIsGreatest
  <2> HIDE DEF p
  <2>3. p \in Nat /\ <<s, p>> \in runs /\ Turn(s, p)
    BY <1>2, <1>3, <2>2 DEF Closed
  <2>4. p \in Begins(s) /\ p <= LastDay + DaysPerWeek
    BY <2>3, TurnIsOver, Days
  <2>5. /\ NextPeriod(s, p) \in Begins(s) /\ NextPeriod(s, p) > p /\ NextPeriod(s, p) \in Nat
        /\ \A q \in Begins(s) : q > p => q >= NextPeriod(s, p)
    BY <2>4, PeriodAfter, BeginsAreDays
  <2>6. Period(s, Seed) <= NextPeriod(s, p)
    BY <1>4, <2>3, <2>5 DEF Turn
  <2>7. Covered(s, NextPeriod(s, p))
    <3> SUFFICES ASSUME NEW q \in Begins(s), Period(s, Seed) <= q, q < NextPeriod(s, p)
                 PROVE  <<s, q>> \in runs
      BY DEF Covered
    <3>1. q < p \/ q = p
      BY <2>3, <2>5, BeginsAreDays
    <3> QED
      BY <2>3, <3>1 DEF Turn, Covered
  <2>8. ASSUME NEW q \in Nat, q >= NextPeriod(s, p) PROVE <<s, q>> \notin runs
    BY <1>2, <2>2, <2>3, <2>5, <2>8
  <2> QED
    BY <2>1, <2>5, <2>6, <2>7, <2>8
<1> QED
  BY <1>5, <1>6

\* If it is due, its turn has come.
LEMMA TargetIsNext ==
  ASSUME HouseholdTypeOK, RunInv, NEW s \in Scope, Pending(s)
  PROVE  /\ Seeded
         /\ Turn(s, NextTarget(s)) /\ NextTarget(s) <= LastOver(s, today)
         /\ LastOver(s, today) \in Begins(s) /\ LastOver(s, today) < Period(s, today)
         /\ \A q \in Nat : q >= NextTarget(s) => <<s, q>> \notin runs
<1>1. today \in Day
  BY DEF HouseholdTypeOK
<1>2. Seeded
  <2>1. ASSUME NEW p \in Closed(s) PROVE Seeded
    <3>1. p \in Nat /\ <<s, p>> \in runs
      BY Days DEF Closed
    <3> QED
      BY <3>1 DEF RunInv, Turn
  <2> QED
    BY <2>1 DEF Pending
<1>3. /\ NextTarget(s) \in Begins(s) /\ Period(s, Seed) <= NextTarget(s)
      /\ Covered(s, NextTarget(s))
      /\ \A q \in Nat : q >= NextTarget(s) => <<s, q>> \notin runs
  BY <1>2, TargetIsFirst
<1>4. NextTarget(s) <= LastOver(s, today) /\ NextTarget(s) \in Nat \ {0}
  BY <1>3, BeginsAreDays DEF Pending
<1>5. NextTarget(s) < Period(s, today)
  BY <1>1, <1>3, <1>4, OverIsBefore DEF Day
<1>6. LastOver(s, today) \in Begins(s) /\ LastOver(s, today) < Period(s, today)
  <2>1. LastOver(s, today) \in Int
    BY <1>1, PeriodBefore DEF Day
  <2>2. LastOver(s, today) > 0
    BY <1>4, <2>1
  <2> QED
    BY <1>1, <2>2, PeriodBefore DEF Day
<1>7. Turn(s, NextTarget(s))
  BY <1>2, <1>3, <1>5 DEF Turn
<1> QED
  BY <1>2, <1>3, <1>4, <1>6, <1>7

LEMMA ChargedMonthOfTurn ==
  ASSUME HouseholdTypeOK, NEW s \in Scope, NEW p, Turn(s, p)
  PROVE  /\ ChargedMonth(s, p) \in MonthStarts
         /\ s = "month" => ChargedMonth(s, p) = p
<1>1. p \in Begins(s) /\ p \in Nat \ {0} /\ p <= LastDay /\ p \in Known
  BY TurnIsOver, Days DEF Known
<1>2. CASE s = "month"
  BY <1>1, <1>2, PeriodOfFirst, PeriodOfDay DEF ChargedMonth, Begins, Period, Scope
<1>3. CASE s # "month"
  <2>1. s \in {"day", "week"}
    BY <1>3 DEF Scope
  <2> QED
    BY <1>1, <1>3, <2>1, MonthCharged
<1> QED
  BY <1>2, <1>3

--------------------------------------------------------------------------------
(* Types                                                                    *)

JobTypes ==
  /\ step \in [Job -> Steps] /\ scope \in [Job -> Scope]
  /\ target \in [Job -> Nat] /\ end \in [Job -> Nat]
  /\ amount \in [Job -> Nat] /\ found \in [Job -> SUBSET Rule]

BookTypes ==
  /\ runs \subseteq Scope \X Nat
  /\ dedupes \subseteq {"day", "week"} \X Nat \X Task
  /\ summary \in [MonthStarts -> Row \cup {NoRow}]
  /\ triggered \in [MonthStarts -> SUBSET Rule]
  /\ DOMAIN tariff \subseteq Scope \X Nat

OtherTypes ==
  /\ viewing \in [Viewer -> MonthStarts \cup {Never}]
  /\ failures \in 0..MaxFailures

LEMMA TypeParts ==
  TypeOK <=> HouseholdTypeOK /\ JobTypes /\ BookTypes /\ OtherTypes
BY DEF TypeOK, JobTypes, BookTypes, OtherTypes

LEMMA Rows ==
  /\ EmptyRow \in Row /\ NoRow \notin Row
  /\ \A row \in Row, s \in Scope, n \in Nat : Charge(s, row, n) \in Row
  /\ \A row \in Row : CloseMonthlyPenaltySummary(row) \in Row
<1>1. EmptyRow \in Row
  BY DEF EmptyRow, Row
<1>2. NoRow \notin Row
  <2>1. DOMAIN NoRow = {"absent"}
    BY DEF NoRow
  <2>2. \A row \in Row : DOMAIN row = {"daily", "weekly", "closed"}
    BY DEF Row
  <2> QED
    BY <2>1, <2>2
<1>3. ASSUME NEW row \in Row, NEW s \in Scope, NEW n \in Nat PROVE Charge(s, row, n) \in Row
  <2>1. IncrementDailyPenalty(row, n) \in Row
    BY DEF IncrementDailyPenalty, Row
  <2>2. IncrementWeeklyPenalty(row, n) \in Row
    BY DEF IncrementWeeklyPenalty, Row
  <2> QED
    BY <2>1, <2>2 DEF Charge
<1>4. \A row \in Row : CloseMonthlyPenaltySummary(row) \in Row
  BY DEF CloseMonthlyPenaltySummary, Row
<1> QED
  BY <1>1, <1>2, <1>3, <1>4

LEMMA CostIsNat ==
  ASSUME HouseholdTypeOK, NEW s, NEW p
  PROVE  Cost(Fresh(s, p)) \in Nat
<1>1. Fresh(s, p) \in SUBSET Task
  BY DEF Fresh, Missed, MissedDaily, MissedWeekly, Task
<1>2. IsFiniteSet(Fresh(s, p))
  BY <1>1, HouseholdAssumption, FS_Subset
<1>3. \A t \in Fresh(s, p) : points[t] \in Nat
  BY <1>1 DEF HouseholdTypeOK
<1> HIDE DEF Fresh
<1> QED
  BY <1>2, <1>3, SumIsNat DEF Cost

--------------------------------------------------------------------------------
(* Steps of jobs                                                            *)

\* Nothing of another job changes.
Others(j) ==
  \A i \in Job \ {j} :
    /\ step'[i] = step[i] /\ scope'[i] = scope[i] /\ target'[i] = target[i]
    /\ end'[i] = end[i] /\ amount'[i] = amount[i] /\ found'[i] = found[i]

LEMMA EndJobLeaves ==
  ASSUME JobTypes, NEW j \in Job, EndJob(j)
  PROVE  JobTypes' /\ Others(j) /\ JobOK(j)' /\ ~Entered(j)'
<1>1. step'[j] = "idle" /\ JobTypes' /\ Others(j)
  BY DEF EndJob, JobTypes, Others, Steps, Scope
<1> QED
  BY <1>1 DEF JobOK, Entered, Ensured

LEMMA NextInLoopLeaves ==
  ASSUME HouseholdTypeOK, HouseholdTypeOK', UNCHANGED householdVars, UNCHANGED runs,
         JobTypes, NEW j \in Job, JobOK(j), step[j] # "idle",
         <<scope[j], target[j]>> \in runs, NextInLoop(j)
  PROVE  JobTypes' /\ Others(j) /\ JobOK(j)' /\ ~Entered(j)'
<1> DEFINE n == NextPeriod(scope[j], target[j])
<1>1. scope[j] \in Scope /\ Turn(scope[j], target[j])
  BY DEF JobOK, JobTypes
<1>2. CASE n <= end[j]
  <2>1. Turn(scope[j], n)
    BY <1>1, <1>2, NextTurn DEF JobOK
  <2>2. n \in Nat
    BY <1>1, <2>1, TurnIsOver
  <2>3. /\ target' = [target EXCEPT ![j] = n]
        /\ step' = [step EXCEPT ![j] = FirstStep(scope[j])]
        /\ amount' = [amount EXCEPT ![j] = 0]
        /\ UNCHANGED <<scope, end, found>>
    BY <1>2 DEF NextInLoop
  <2> HIDE DEF n
  <2>4. JobTypes' /\ Others(j)
    BY <2>2, <2>3 DEF JobTypes, Others, Steps, FirstStep
  <2>5. target'[j] = n /\ scope'[j] = scope[j] /\ end'[j] = end[j] /\ step'[j] = FirstStep(scope[j])
    BY <2>3 DEF JobTypes
  <2>6. ~Entered(j)' /\ ~Ensured(j)' /\ step'[j] \in {"insert", "ensure"}
    BY <1>1, <2>5 DEF Entered, Ensured, FirstStep, Scope, Evaluated
  <2>7. PICK s \in Scope, q \in Nat : s = scope[j] /\ q = n
    BY <1>1, <2>2
  <2>8. Turn(s, q)'
    BY <2>1, <2>7 DEF Turn, Covered, Seeded, Seed, householdVars, taskVars
  <2>9. /\ end'[j] \in Begins(s) /\ end'[j] < Period(s, today') /\ q <= end'[j]
        /\ scope'[j] = s /\ target'[j] = q
    BY <1>2, <2>5, <2>7 DEF JobOK, householdVars, n
  <2>10. JobOK(j)'
    BY <2>6, <2>8, <2>9 DEF JobOK
  <2> QED
    BY <2>4, <2>6, <2>10
<1>3. CASE ~(n <= end[j])
  <2>1. EndJob(j)
    BY <1>3 DEF NextInLoop
  <2> QED
    BY <2>1, EndJobLeaves
<1> QED
  BY <1>2, <1>3

\* What any step of job j may do to the rest.
Acts(j) ==
  /\ UNCHANGED householdVars
  /\ runs \subseteq runs'
  /\ \A s \in Scope : \A p \in Nat : <<s, p>> \in runs' \ runs => Turn(s, p)
  /\ \A m \in MonthStarts : summary[m] # NoRow => summary'[m] # NoRow
  /\ Others(j)
  /\ Entered(j)' =>
       \/ Entered(j) /\ scope'[j] = scope[j] /\ target'[j] = target[j]
       \/ <<scope'[j], target'[j]>> \notin runs

LEMMA SameDay ==
  ASSUME HouseholdTypeOK, LifeInv, UNCHANGED householdVars
  PROVE  HouseholdTypeOK' /\ LifeInv' /\ today <= today' /\ (Seeded => Seeded' /\ Seed' = Seed)
<1>1. HouseholdTypeOK' /\ LifeInv'
  BY DEF HouseholdTypeOK, LifeInv, householdVars, taskVars, ruleVars
<1>2. today <= today'
  BY Days DEF householdVars, HouseholdTypeOK, Day
<1>3. Seeded' = Seeded /\ Seed' = Seed
  BY DEF Seeded, Seed, householdVars, taskVars
<1> QED
  BY <1>1, <1>2, <1>3

\* A job that a step leaves alone stays in order.
LEMMA JobStays ==
  ASSUME HouseholdTypeOK, HouseholdTypeOK', JobTypes, today <= today',
         Seeded => Seeded' /\ Seed' = Seed, runs \subseteq runs',
         \A m \in MonthStarts : summary[m] # NoRow => summary'[m] # NoRow,
         NEW i \in Job, JobOK(i), step'[i] = step[i], scope'[i] = scope[i],
         target'[i] = target[i], end'[i] = end[i]
  PROVE  JobOK(i)' /\ (Entered(i)' <=> Entered(i))
<1>1. (Entered(i)' <=> Entered(i)) /\ (Ensured(i)' <=> Ensured(i))
  BY DEF Entered, Ensured
<1>2. PICK s \in Scope, p \in Nat, e \in Nat : s = scope[i] /\ p = target[i] /\ e = end[i]
  BY DEF JobTypes
<1>3. CASE step[i] # "idle"
  <2>1. Turn(s, p)
    BY <1>2, <1>3 DEF JobOK
  <2>2. Turn(s, p)'
    BY <2>1, TurnStays
  <2>3. e < Period(s, today')
    <3>1. today \in Day /\ today' \in Day
      BY DEF HouseholdTypeOK
    <3>2. Period(s, today) <= Period(s, today')
      BY <3>1, OverStays DEF Day
    <3>3. Period(s, today) \in Nat /\ Period(s, today') \in Nat
      BY <3>1, Days, PeriodOfDay, BeginsAreDays
    <3> QED
      BY <1>2, <1>3, <3>2, <3>3 DEF JobOK
  <2>4. ChargedMonth(s, p) \in MonthStarts
    BY <2>1, ChargedMonthOfTurn
  <2>5. Ensured(i)' => summary'[ChargedMonth(s, p)] # NoRow
    BY <1>1, <1>2, <2>4 DEF JobOK, MonthOfJob
  <2> QED
    BY <1>1, <1>2, <1>3, <2>2, <2>3, <2>5 DEF JobOK, MonthOfJob
<1>4. CASE step[i] = "idle"
  BY <1>1, <1>4 DEF JobOK, Entered, Ensured
<1> QED
  BY <1>1, <1>3, <1>4

LEMMA JobStep ==
  ASSUME ClosingInv, NEW j \in Job, Acts(j), JobOK(j)', JobTypes', BookTypes', OtherTypes'
  PROVE  ClosingInv'
<1>1. HouseholdTypeOK /\ LifeInv /\ JobTypes /\ UNCHANGED householdVars
  BY TypeParts DEF ClosingInv, Acts
<1>2. HouseholdTypeOK' /\ LifeInv' /\ today <= today' /\ (Seeded => Seeded' /\ Seed' = Seed)
  BY <1>1, SameDay
<1>3. \A i \in Job : JobOK(i)
  BY DEF ClosingInv, JobInv
<1>4. \A i \in Job \ {j} : JobOK(i)' /\ (Entered(i)' <=> Entered(i))
  BY <1>1, <1>2, <1>3, JobStays DEF Acts, Others
<1>5. RunInv'
  <2> SUFFICES ASSUME NEW s \in Scope, NEW p \in Nat, <<s, p>> \in runs' PROVE Turn(s, p)'
    BY DEF RunInv
  <2>1. Turn(s, p)
    BY DEF ClosingInv, RunInv, Acts
  <2> QED
    BY <1>1, <1>2, <2>1, TurnStays DEF Acts
<1>6. ExclusiveInv'
  <2> SUFFICES ASSUME NEW i \in Job, i # j, Entered(i)', Entered(j)'
               PROVE  scope'[i] # scope'[j] \/ target'[i] # target'[j]
    <3>1. ASSUME NEW i \in Job, NEW k \in Job, i # k, i # j, k # j, Entered(i)', Entered(k)'
          PROVE  scope'[i] # scope'[k] \/ target'[i] # target'[k]
      BY <1>4, <3>1 DEF ClosingInv, ExclusiveInv, Acts, Others
    <3> QED
      BY <3>1 DEF ExclusiveInv
  <2>1. Entered(i) /\ scope'[i] = scope[i] /\ target'[i] = target[i]
    BY <1>4 DEF Acts, Others
  <2>2. <<scope[i], target[i]>> \in runs
    BY <1>3, <2>1 DEF JobOK
  <2> QED
    BY <2>1, <2>2 DEF Acts, ClosingInv, ExclusiveInv
<1>7. TypeOK'
  BY <1>2, TypeParts, PTL
<1> QED
  BY <1>2, <1>4, <1>5, <1>6, <1>7 DEF ClosingInv, JobInv

\* A job that goes on with the same period stays in order.
LEMMA JobGoesOn ==
  ASSUME ClosingInv, UNCHANGED householdVars, runs \subseteq runs',
         NEW j \in Job, step[j] # "idle", step'[j] # "idle",
         scope'[j] = scope[j], target'[j] = target[j], end'[j] = end[j],
         Entered(j)' => <<scope[j], target[j]>> \in runs',
         step'[j] \in {"sum", "increment"} => scope[j] \in Evaluated,
         step'[j] \in {"judge", "close", "clear", "trigger"} => scope[j] = "month",
         Ensured(j)' => summary'[MonthOfJob(j)] # NoRow
  PROVE  JobOK(j)'
<1>1. HouseholdTypeOK /\ LifeInv /\ JobTypes /\ JobOK(j)
  BY TypeParts DEF ClosingInv, JobInv
<1>2. HouseholdTypeOK' /\ today <= today' /\ (Seeded => Seeded' /\ Seed' = Seed)
  BY <1>1, SameDay
<1>3. PICK s \in Scope, p \in Nat, e \in Nat : s = scope[j] /\ p = target[j] /\ e = end[j]
  BY <1>1 DEF JobTypes
<1>4. Turn(s, p)
  BY <1>1, <1>3 DEF JobOK
<1>5. Turn(s, p)'
  BY <1>1, <1>2, <1>4, TurnStays
<1>6. e \in Begins(s) /\ e < Period(s, today') /\ p <= e
  BY <1>1, <1>3 DEF JobOK, householdVars
<1> QED
  BY <1>3, <1>5, <1>6 DEF JobOK, MonthOfJob

LEMMA StartJobOK ==
  ASSUME ClosingInv, NEW j \in Job, NEW s \in Scope, StartJob(j, s)
  PROVE  ClosingInv' /\ Acts(j)
<1>1. HouseholdTypeOK /\ LifeInv /\ JobTypes /\ BookTypes /\ OtherTypes /\ RunInv
  BY TypeParts DEF ClosingInv
<1>2. UNCHANGED <<householdVars, bookVars, amount, found, viewing, failures>>
  BY DEF StartJob
<1>3. PICK p \in Nat, e \in Nat : p = NextTarget(s) /\ e = LastOver(s, today)
  BY <1>1, TargetIsNext, TurnIsOver, BeginsAreDays DEF StartJob
<1>4. Turn(s, p) /\ e \in Begins(s) /\ e < Period(s, today) /\ p <= e
  BY <1>1, <1>3, TargetIsNext DEF StartJob
<1>5. /\ step' = [step EXCEPT ![j] = FirstStep(s)] /\ scope' = [scope EXCEPT ![j] = s]
      /\ target' = [target EXCEPT ![j] = p] /\ end' = [end EXCEPT ![j] = e]
  BY <1>3 DEF StartJob
<1>6. JobTypes' /\ BookTypes' /\ OtherTypes'
  BY <1>1, <1>2, <1>5 DEF JobTypes, BookTypes, OtherTypes, bookVars, Steps, FirstStep
<1>7. step'[j] \in {"insert", "ensure"} /\ ~Entered(j)' /\ ~Ensured(j)'
  BY <1>1, <1>5 DEF Entered, Ensured, FirstStep, Evaluated, Scope, JobTypes
<1>8. Acts(j)
  BY <1>2, <1>5, <1>7 DEF Acts, Others, bookVars
<1>9. Turn(s, p)'
  BY <1>1, <1>2, <1>4, SameDay, TurnStays DEF bookVars
<1>10. JobOK(j)'
  BY <1>1, <1>2, <1>4, <1>5, <1>7, <1>9 DEF JobOK, JobTypes, householdVars
<1> QED
  BY <1>6, <1>8, <1>10, JobStep

LEMMA FailOK ==
  ASSUME ClosingInv, NEW j \in Job, Fail(j)
  PROVE  ClosingInv' /\ Acts(j)
<1>1. HouseholdTypeOK /\ LifeInv /\ JobTypes /\ BookTypes /\ OtherTypes
  BY TypeParts DEF ClosingInv
<1>2. UNCHANGED <<householdVars, bookVars, viewing>> /\ EndJob(j)
  BY DEF Fail
<1>3. JobTypes' /\ Others(j) /\ JobOK(j)' /\ ~Entered(j)'
  BY <1>1, <1>2, EndJobLeaves
<1>4. OtherTypes'
  BY <1>1, ClosingAssumption DEF OtherTypes, Fail
<1>5. BookTypes' /\ Acts(j)
  BY <1>1, <1>2, <1>3 DEF BookTypes, bookVars, Acts
<1> QED
  BY <1>3, <1>4, <1>5, JobStep

LEMMA EnsureReadsOK ==
  ASSUME ClosingInv, NEW j \in Job, EnsureReads(j)
  PROVE  ClosingInv' /\ Acts(j)
<1>1. HouseholdTypeOK /\ LifeInv /\ JobTypes /\ BookTypes /\ OtherTypes /\ JobOK(j)
  BY TypeParts DEF ClosingInv, JobInv
<1>2. UNCHANGED <<householdVars, bookVars, viewing, failures>> /\ step[j] = "ensure"
  BY DEF EnsureReads
<1>3. BookTypes' /\ OtherTypes' /\ HouseholdTypeOK'
  BY <1>1, <1>2, SameDay DEF BookTypes, OtherTypes, bookVars
<1>4. scope[j] \in Scope /\ Turn(scope[j], target[j]) /\ MonthOfJob(j) \in MonthStarts
  BY <1>1, <1>2, ChargedMonthOfTurn DEF JobOK, JobTypes, MonthOfJob
<1>5. JobTypes' /\ Others(j) /\ JobOK(j)'
      /\ (Entered(j)' => Entered(j) /\ scope'[j] = scope[j] /\ target'[j] = target[j])
  <2> DEFINE row == GetSummary(MonthOfJob(j))
  <2>1. CASE row = NoRow
    <3>1. Goto(j, "upsert") /\ UNCHANGED jobVars
      BY <2>1 DEF EnsureReads
    <3>2. JobTypes' /\ Others(j) /\ step'[j] = "upsert"
      BY <1>1, <3>1 DEF JobTypes, Others, jobVars, Goto, Steps
    <3>3. (Entered(j)' <=> Entered(j)) /\ ~Ensured(j)'
      BY <1>2, <3>1, <3>2 DEF Entered, Ensured, jobVars
    <3>4. JobOK(j)'
      BY <1>1, <1>2, <3>1, <3>2, <3>3, JobGoesOn DEF jobVars, bookVars, JobOK
    <3> QED
      BY <3>1, <3>2, <3>3, <3>4 DEF jobVars
  <2>2. CASE row # NoRow /\ row.closed
    <3>1. CASE scope[j] = "month"
      <4>1. NextInLoop(j)
        BY <2>2, <3>1 DEF EnsureReads
      <4>2. <<scope[j], target[j]>> \in runs
        BY <1>1, <1>2, <3>1 DEF JobOK, Entered
      <4> QED
        BY <1>1, <1>2, <1>3, <4>1, <4>2, NextInLoopLeaves DEF bookVars
    <3>2. CASE scope[j] # "month"
      <4>1. EndJob(j)
        BY <2>2, <3>2 DEF EnsureReads
      <4> QED
        BY <1>1, <4>1, EndJobLeaves
    <3> QED
      BY <3>1, <3>2
  <2>3. CASE row # NoRow /\ ~row.closed
    <3>1. PICK s \in {"judge", "insert"}, n \in Nat :
            /\ s = IF scope[j] = "month" THEN "judge" ELSE "insert"
            /\ n = IF scope[j] = "month" THEN row.daily + row.weekly ELSE 0
      <4>1. row \in Row
        BY <1>1, <1>4, <2>3 DEF BookTypes, GetSummary
      <4>2. row.daily + row.weekly \in Nat
        BY <4>1 DEF Row
      <4> HIDE DEF row
      <4> QED
        BY <4>2
    <3>2. Goto(j, s) /\ amount' = [amount EXCEPT ![j] = n] /\ UNCHANGED <<scope, target, end, found>>
      BY <2>3, <3>1 DEF EnsureReads
    <3>3. JobTypes' /\ Others(j) /\ step'[j] = s
      BY <1>1, <3>1, <3>2 DEF JobTypes, Others, Goto, Steps
    <3>4. (Entered(j)' <=> Entered(j)) /\ (Ensured(j)' => summary'[MonthOfJob(j)] # NoRow)
      BY <1>2, <1>4, <2>3, <3>1, <3>2, <3>3
         DEF Entered, Ensured, GetSummary, bookVars
    <3>5. JobOK(j)'
      BY <1>1, <1>2, <3>1, <3>2, <3>3, <3>4, JobGoesOn DEF bookVars, JobOK
    <3> QED
      BY <3>2, <3>3, <3>4, <3>5
  <2> QED
    BY <2>1, <2>2, <2>3
<1>6. Acts(j)
  BY <1>2, <1>5 DEF Acts, bookVars
<1> QED
  BY <1>3, <1>5, <1>6, JobStep

LEMMA EnsureUpsertsOK ==
  ASSUME ClosingInv, NEW j \in Job, EnsureUpserts(j)
  PROVE  ClosingInv' /\ Acts(j)
<1>1. HouseholdTypeOK /\ LifeInv /\ JobTypes /\ BookTypes /\ OtherTypes /\ JobOK(j)
  BY TypeParts DEF ClosingInv, JobInv
<1>2. /\ UNCHANGED <<householdVars, runs, dedupes, triggered, tariff, jobVars, viewing, failures>>
      /\ step[j] = "upsert" /\ Goto(j, "ensure") /\ Upsert(MonthOfJob(j))
  BY DEF EnsureUpserts
<1>3. MonthOfJob(j) \in MonthStarts
  BY <1>1, <1>2, ChargedMonthOfTurn DEF JobOK, JobTypes, MonthOfJob
<1>4. /\ summary' \in [MonthStarts -> Row \cup {NoRow}]
      /\ \A m \in MonthStarts : summary[m] # NoRow => summary'[m] # NoRow
  BY <1>1, <1>2, <1>3, Rows DEF Upsert, BookTypes
<1>5. JobTypes' /\ BookTypes' /\ OtherTypes' /\ Others(j) /\ step'[j] = "ensure"
  BY <1>1, <1>2, <1>4 DEF JobTypes, BookTypes, OtherTypes, Others, Goto, jobVars, Steps
<1>6. (Entered(j)' <=> Entered(j)) /\ ~Ensured(j)'
  BY <1>2, <1>5 DEF Entered, Ensured, jobVars
<1>7. JobOK(j)'
  BY <1>1, <1>2, <1>5, <1>6, JobGoesOn DEF jobVars, JobOK
<1>8. Acts(j)
  BY <1>2, <1>4, <1>5, <1>6 DEF Acts, jobVars
<1> QED
  BY <1>5, <1>7, <1>8, JobStep

LEMMA InsertRunOK ==
  ASSUME ClosingInv, NEW j \in Job, InsertRun(j)
  PROVE  ClosingInv' /\ Acts(j)
<1>1. HouseholdTypeOK /\ LifeInv /\ JobTypes /\ BookTypes /\ OtherTypes /\ JobOK(j)
  BY TypeParts DEF ClosingInv, JobInv
<1>2. /\ UNCHANGED <<householdVars, dedupes, summary, triggered, tariff, viewing, failures>>
      /\ step[j] = "insert"
  BY DEF InsertRun
<1>3. HouseholdTypeOK' /\ OtherTypes'
  BY <1>1, <1>2, SameDay DEF OtherTypes
<1>4. scope[j] \in Scope /\ target[j] \in Nat /\ Turn(scope[j], target[j])
  BY <1>1, <1>2 DEF JobOK, JobTypes
<1>5. CASE <<scope[j], target[j]>> \in runs
  <2>1. NextInLoop(j) /\ UNCHANGED runs
    BY <1>5 DEF InsertRun
  <2>2. JobTypes' /\ Others(j) /\ JobOK(j)' /\ ~Entered(j)'
    BY <1>1, <1>2, <1>3, <1>5, <2>1, NextInLoopLeaves
  <2>3. BookTypes' /\ Acts(j)
    BY <1>1, <1>2, <2>1, <2>2 DEF BookTypes, Acts
  <2> QED
    BY <1>3, <2>2, <2>3, JobStep
<1>6. CASE <<scope[j], target[j]>> \notin runs
  <2>1. /\ runs' = runs \cup {<<scope[j], target[j]>>} /\ UNCHANGED jobVars
        /\ Goto(j, IF scope[j] = "month" THEN "ensure" ELSE "sum")
    BY <1>6 DEF InsertRun, InsertCloseRun
  <2>2. /\ JobTypes' /\ Others(j)
        /\ step'[j] = IF scope[j] = "month" THEN "ensure" ELSE "sum"
    BY <1>1, <2>1 DEF JobTypes, Others, Goto, jobVars, Steps
  <2>3. BookTypes'
    BY <1>1, <1>2, <1>4, <2>1 DEF BookTypes
  <2>4. Ensured(j)' => scope[j] # "month" /\ Ensured(j)
    BY <1>2, <1>4, <2>1, <2>2 DEF Ensured, jobVars, Scope, Evaluated
  <2>5. scope[j] # "month" => scope[j] \in Evaluated
    BY <1>4 DEF Scope, Evaluated
  <2>6. JobOK(j)'
    BY <1>1, <1>2, <2>1, <2>2, <2>4, <2>5, JobGoesOn DEF jobVars, JobOK
  <2>7. Acts(j)
    BY <1>2, <1>4, <1>6, <2>1, <2>2 DEF Acts, jobVars
  <2> QED
    BY <1>3, <2>2, <2>3, <2>6, <2>7, JobStep
<1> QED
  BY <1>5, <1>6

\* What is noted is noted for runs.
LEMMA NoteLeaves ==
  ASSUME DOMAIN tariff \subseteq Scope \X Nat, NEW s \in Scope, NEW P \in SUBSET Nat, Note(s, P)
  PROVE  DOMAIN tariff' \subseteq Scope \X Nat
BY DEF Note

LEMMA SumPenaltyOK ==
  ASSUME ClosingInv, NEW j \in Job, SumPenalty(j)
  PROVE  ClosingInv' /\ Acts(j)
<1>1. HouseholdTypeOK /\ LifeInv /\ JobTypes /\ BookTypes /\ OtherTypes /\ JobOK(j)
  BY TypeParts DEF ClosingInv, JobInv
<1> DEFINE fresh == Fresh(scope[j], target[j])
<1>2. /\ UNCHANGED <<householdVars, runs, summary, triggered, viewing, failures>>
      /\ step[j] = "sum" /\ Note(scope[j], {target[j]})
      /\ dedupes' = dedupes \cup {<<scope[j], target[j], t>> : t \in fresh}
  BY DEF SumPenalty
<1>3. HouseholdTypeOK' /\ OtherTypes'
  BY <1>1, <1>2, SameDay DEF OtherTypes
<1>4. /\ scope[j] \in Scope /\ scope[j] \in Evaluated /\ target[j] \in Nat
      /\ <<scope[j], target[j]>> \in runs /\ Entered(j) /\ Ensured(j)
  BY <1>1, <1>2 DEF JobOK, JobTypes, Entered, Ensured
<1>5. BookTypes'
  <2>1. DOMAIN tariff' \subseteq Scope \X Nat
    BY <1>1, <1>2, <1>4, NoteLeaves DEF BookTypes
  <2>2. fresh \subseteq Task
    BY DEF Fresh, Missed, MissedDaily, MissedWeekly, Task
  <2> HIDE DEF fresh
  <2>3. dedupes' \subseteq {"day", "week"} \X Nat \X Task
    BY <1>1, <1>2, <1>4, <2>2 DEF BookTypes, Evaluated
  <2> QED
    BY <1>1, <1>2, <2>1, <2>3 DEF BookTypes
<1>6. CASE Cost(fresh) = 0
  <2>1. NextInLoop(j)
    BY <1>6 DEF SumPenalty
  <2>2. JobTypes' /\ Others(j) /\ JobOK(j)' /\ ~Entered(j)'
    BY <1>1, <1>2, <1>3, <1>4, <2>1, NextInLoopLeaves
  <2>3. Acts(j)
    BY <1>2, <2>2 DEF Acts
  <2> QED
    BY <1>3, <1>5, <2>2, <2>3, JobStep
<1>7. CASE Cost(fresh) # 0
  <2>1. PICK n \in Nat : n = Cost(fresh)
    BY <1>1, CostIsNat
  <2>2. /\ amount' = [amount EXCEPT ![j] = n] /\ Goto(j, "increment")
        /\ UNCHANGED <<scope, target, end, found>>
    BY <1>7, <2>1 DEF SumPenalty
  <2>3. JobTypes' /\ Others(j) /\ step'[j] = "increment"
    BY <1>1, <2>2 DEF JobTypes, Others, Goto, Steps
  <2>4. JobOK(j)'
    BY <1>1, <1>2, <1>4, <2>2, <2>3, JobGoesOn DEF JobOK
  <2>5. Acts(j)
    BY <1>2, <1>4, <2>2, <2>3 DEF Acts
  <2> QED
    BY <1>3, <1>5, <2>3, <2>4, <2>5, JobStep
<1> QED
  BY <1>6, <1>7

LEMMA IncrementOK ==
  ASSUME ClosingInv, NEW j \in Job, Increment(j)
  PROVE  ClosingInv' /\ Acts(j)
<1>1. HouseholdTypeOK /\ LifeInv /\ JobTypes /\ BookTypes /\ OtherTypes /\ JobOK(j)
  BY TypeParts DEF ClosingInv, JobInv
<1>2. /\ UNCHANGED <<householdVars, runs, dedupes, triggered, tariff, viewing, failures>>
      /\ step[j] = "increment" /\ NextInLoop(j)
      /\ summary' = [summary EXCEPT ![MonthOfJob(j)] = Charge(scope[j], @, amount[j])]
  BY DEF Increment
<1>3. HouseholdTypeOK' /\ OtherTypes'
  BY <1>1, <1>2, SameDay DEF OtherTypes
<1>4. /\ MonthOfJob(j) \in MonthStarts /\ scope[j] \in Scope /\ amount[j] \in Nat
      /\ <<scope[j], target[j]>> \in runs /\ summary[MonthOfJob(j)] # NoRow
  BY <1>1, <1>2, ChargedMonthOfTurn DEF JobOK, JobTypes, MonthOfJob, Entered, Ensured
<1>5. PICK row \in Row : row = Charge(scope[j], summary[MonthOfJob(j)], amount[j])
  BY <1>1, <1>4, Rows DEF BookTypes
<1>6. summary' = [summary EXCEPT ![MonthOfJob(j)] = row]
  BY <1>2, <1>5
<1>7. BookTypes' /\ \A m \in MonthStarts : summary[m] # NoRow => summary'[m] # NoRow
  BY <1>1, <1>2, <1>4, <1>6, Rows DEF BookTypes
<1>8. JobTypes' /\ Others(j) /\ JobOK(j)' /\ ~Entered(j)'
  BY <1>1, <1>2, <1>3, <1>4, NextInLoopLeaves
<1>9. Acts(j)
  BY <1>2, <1>7, <1>8 DEF Acts
<1> QED
  BY <1>3, <1>7, <1>8, <1>9, JobStep

LEMMA JudgeRulesOK ==
  ASSUME ClosingInv, NEW j \in Job, JudgeRules(j)
  PROVE  ClosingInv' /\ Acts(j)
<1>1. HouseholdTypeOK /\ LifeInv /\ JobTypes /\ BookTypes /\ OtherTypes /\ JobOK(j)
  BY TypeParts DEF ClosingInv, JobInv
<1>2. /\ UNCHANGED <<householdVars, runs, dedupes, summary, triggered, scope, target, end, amount,
                      viewing, failures>>
      /\ step[j] = "judge" /\ Goto(j, "close") /\ Note("month", {target[j]})
      /\ found' = [found EXCEPT ![j] = Reached(amount[j], NextMonth(target[j]))]
  BY DEF JudgeRules
<1>3. OtherTypes' /\ Reached(amount[j], NextMonth(target[j])) \subseteq Rule
  BY <1>1, <1>2 DEF OtherTypes, Reached
<1>4. JobTypes' /\ Others(j) /\ step'[j] = "close"
  BY <1>1, <1>2, <1>3 DEF JobTypes, Others, Goto, Steps
<1>5. BookTypes'
  <2>1. DOMAIN tariff' \subseteq Scope \X Nat
    BY <1>1, <1>2, NoteLeaves DEF BookTypes, JobTypes, Scope
  <2> QED
    BY <1>1, <1>2, <2>1 DEF BookTypes
<1>6. /\ Entered(j) /\ Entered(j)' /\ <<scope[j], target[j]>> \in runs /\ scope[j] = "month"
      /\ summary'[MonthOfJob(j)] # NoRow
  BY <1>1, <1>2, <1>4 DEF JobOK, Entered, Ensured
<1>7. JobOK(j)'
  BY <1>2, <1>4, <1>6, JobGoesOn
<1>8. Acts(j)
  BY <1>2, <1>4, <1>6 DEF Acts
<1> QED
  BY <1>3, <1>4, <1>5, <1>7, <1>8, JobStep

LEMMA CloseSummaryOK ==
  ASSUME ClosingInv, NEW j \in Job, CloseSummary(j)
  PROVE  ClosingInv' /\ Acts(j)
<1>1. HouseholdTypeOK /\ LifeInv /\ JobTypes /\ BookTypes /\ OtherTypes /\ JobOK(j)
  BY TypeParts DEF ClosingInv, JobInv
<1>2. /\ UNCHANGED <<householdVars, runs, dedupes, triggered, tariff, jobVars, viewing, failures>>
      /\ step[j] = "close" /\ Goto(j, "clear")
      /\ summary' = [summary EXCEPT ![target[j]] = CloseMonthlyPenaltySummary(@)]
  BY DEF CloseSummary
<1>3. /\ scope[j] = "month" /\ target[j] \in MonthStarts /\ summary[target[j]] # NoRow
      /\ <<scope[j], target[j]>> \in runs
  BY <1>1, <1>2, ChargedMonthOfTurn DEF JobOK, JobTypes, MonthOfJob, Entered, Ensured, Scope
<1>4. PICK row \in Row : row = CloseMonthlyPenaltySummary(summary[target[j]])
  BY <1>1, <1>3, Rows DEF BookTypes
<1>5. summary' = [summary EXCEPT ![target[j]] = row]
  BY <1>2, <1>4
<1>6. BookTypes' /\ \A m \in MonthStarts : summary[m] # NoRow => summary'[m] # NoRow
  BY <1>1, <1>2, <1>3, <1>5, Rows DEF BookTypes
<1>7. JobTypes' /\ OtherTypes' /\ Others(j) /\ step'[j] = "clear"
  BY <1>1, <1>2 DEF JobTypes, OtherTypes, Others, Goto, jobVars, Steps
<1>8. Entered(j) /\ ~Ensured(j)'
  BY <1>2, <1>7 DEF Entered, Ensured
<1>9. JobOK(j)'
  BY <1>2, <1>3, <1>7, <1>8, JobGoesOn DEF jobVars
<1>10. Acts(j)
  BY <1>2, <1>6, <1>7, <1>8 DEF Acts, jobVars
<1> QED
  BY <1>6, <1>7, <1>9, <1>10, JobStep

LEMMA ClearTriggeredOK ==
  ASSUME ClosingInv, NEW j \in Job, ClearTriggered(j)
  PROVE  ClosingInv' /\ Acts(j)
<1>1. HouseholdTypeOK /\ LifeInv /\ JobTypes /\ BookTypes /\ OtherTypes /\ JobOK(j)
  BY TypeParts DEF ClosingInv, JobInv
<1>2. /\ UNCHANGED <<householdVars, runs, dedupes, summary, tariff, viewing, failures>>
      /\ step[j] = "clear" /\ triggered' = [triggered EXCEPT ![target[j]] = {}]
  BY DEF ClearTriggered
<1>3. HouseholdTypeOK' /\ OtherTypes' /\ BookTypes'
  BY <1>1, <1>2, SameDay DEF OtherTypes, BookTypes
<1>4. Entered(j) /\ scope[j] = "month" /\ <<scope[j], target[j]>> \in runs
  BY <1>1, <1>2 DEF JobOK, Entered
<1>5. CASE found[j] = {}
  <2>1. JobTypes' /\ Others(j) /\ JobOK(j)' /\ ~Entered(j)'
    BY <1>1, <1>2, <1>3, <1>4, <1>5, NextInLoopLeaves DEF ClearTriggered
  <2>2. Acts(j)
    BY <1>2, <2>1 DEF Acts
  <2> QED
    BY <1>3, <2>1, <2>2, JobStep
<1>6. CASE found[j] # {}
  <2>1. Goto(j, "trigger") /\ UNCHANGED jobVars
    BY <1>6 DEF ClearTriggered
  <2>2. JobTypes' /\ Others(j) /\ step'[j] = "trigger"
    BY <1>1, <2>1 DEF JobTypes, Others, Goto, jobVars, Steps
  <2>3. JobOK(j)'
    BY <1>2, <1>4, <2>1, <2>2, JobGoesOn DEF jobVars, Ensured
  <2>4. Acts(j)
    BY <1>2, <1>4, <2>1, <2>2 DEF Acts, jobVars
  <2> QED
    BY <1>3, <2>2, <2>3, <2>4, JobStep
<1> QED
  BY <1>5, <1>6

LEMMA AddTriggeredOK ==
  ASSUME ClosingInv, NEW j \in Job, AddTriggered(j)
  PROVE  ClosingInv' /\ Acts(j)
<1>1. HouseholdTypeOK /\ LifeInv /\ JobTypes /\ BookTypes /\ OtherTypes /\ JobOK(j)
  BY TypeParts DEF ClosingInv, JobInv
<1>2. /\ UNCHANGED <<householdVars, runs, dedupes, summary, tariff, viewing, failures>>
      /\ step[j] = "trigger"
  BY DEF AddTriggered
<1>3. PICK r \in found[j] :
        /\ triggered' = [triggered EXCEPT ![target[j]] = @ \cup {r}]
        /\ IF found[j] = {r}
           THEN NextInLoop(j)
           ELSE /\ found' = [found EXCEPT ![j] = @ \ {r}]
                /\ UNCHANGED <<step, scope, target, end, amount>>
  BY DEF AddTriggered
<1>4. HouseholdTypeOK' /\ OtherTypes' /\ BookTypes'
  <2>1. r \in Rule
    BY <1>1, <1>3 DEF JobTypes
  <2> QED
    BY <1>1, <1>2, <1>3, <2>1, SameDay DEF OtherTypes, BookTypes
<1>5. Entered(j) /\ scope[j] = "month" /\ <<scope[j], target[j]>> \in runs
  BY <1>1, <1>2 DEF JobOK, Entered
<1>6. CASE found[j] = {r}
  <2>1. JobTypes' /\ Others(j) /\ JobOK(j)' /\ ~Entered(j)'
    BY <1>1, <1>2, <1>3, <1>4, <1>5, <1>6, NextInLoopLeaves
  <2>2. Acts(j)
    BY <1>2, <2>1 DEF Acts
  <2> QED
    BY <1>4, <2>1, <2>2, JobStep
<1>7. CASE found[j] # {r}
  <2>1. JobTypes' /\ Others(j) /\ step'[j] = "trigger" /\ UNCHANGED <<scope, target, end>>
    BY <1>1, <1>2, <1>3, <1>7 DEF JobTypes, Others
  <2>2. JobOK(j)'
    BY <1>2, <1>5, <2>1, JobGoesOn DEF Ensured
  <2>3. Acts(j)
    BY <1>2, <1>5, <2>1 DEF Acts
  <2> QED
    BY <1>4, <2>1, <2>2, <2>3, JobStep
<1> QED
  BY <1>6, <1>7

LEMMA AdvanceOK ==
  ASSUME ClosingInv, NEW j \in Job, Advance(j)
  PROVE  ClosingInv' /\ Acts(j)
BY EnsureReadsOK, EnsureUpsertsOK, InsertRunOK, SumPenaltyOK, IncrementOK,
   JudgeRulesOK, CloseSummaryOK, ClearTriggeredOK, AddTriggeredOK DEF Advance

--------------------------------------------------------------------------------
(* Steps of members, users and viewers                                      *)

LEMMA MemberOK ==
  ASSUME ClosingInv, Member, UNCHANGED <<bookVars, step, jobVars, viewing, failures>>
  PROVE  ClosingInv'
<1>1. HouseholdTypeOK /\ LifeInv /\ JobTypes /\ BookTypes /\ OtherTypes
  BY TypeParts DEF ClosingInv
<1>2. HouseholdTypeOK' /\ LifeInv' /\ today <= today' /\ (Seeded => Seeded' /\ Seed' = Seed)
  BY <1>1, MemberKeepsTypes, MemberKeepsSeed
<1>3. JobTypes' /\ BookTypes' /\ OtherTypes'
  BY <1>1 DEF JobTypes, BookTypes, OtherTypes, bookVars, jobVars
<1>4. TypeOK'
  BY <1>2, <1>3, TypeParts, PTL
<1>5. \A i \in Job : JobOK(i)' /\ (Entered(i)' <=> Entered(i))
  BY <1>1, <1>2, JobStays DEF ClosingInv, JobInv, bookVars, jobVars
<1>6. RunInv'
  BY <1>1, <1>2, TurnStays DEF ClosingInv, RunInv, bookVars
<1>7. ExclusiveInv'
  BY <1>5 DEF ClosingInv, ExclusiveInv, jobVars
<1> QED
  BY <1>2, <1>4, <1>5, <1>6, <1>7 DEF ClosingInv, JobInv

\* The periods due are those without a run that are over.
LEMMA DueIsOver ==
  ASSUME HouseholdTypeOK, RunInv, NEW s \in Scope, Pending(s)
  PROVE  /\ Due(s) \in SUBSET Nat /\ IsFiniteSet(Due(s))
         /\ \A p \in Nat : p \in Due(s) <=>
              p \in Begins(s) /\ NextTarget(s) <= p /\ p <= LastOver(s, today)
         /\ \A p \in Due(s) : p < Period(s, today) /\ <<s, p>> \notin runs
<1>1. today \in Day /\ Period(s, today) <= today /\ Period(s, today) \in Nat
  BY Days, PeriodOfDay, BeginsAreDays DEF HouseholdTypeOK
<1>2. \A p \in Begins(s) : p \in Nat \ {0} /\ (p <= LastOver(s, today) => p < Period(s, today))
  BY <1>1, OverIsBefore, BeginsAreDays DEF Day
<1>3. \A d \in Day : Period(s, d) \in Begins(s) /\ Period(s, d) \in Nat \ {0}
  BY Days, PeriodOfDay, BeginsAreDays
<1>4. \A p \in Begins(s) : p <= LastOver(s, today) => p \in Day /\ Period(s, p) = p
  <2> SUFFICES ASSUME NEW p \in Begins(s), p <= LastOver(s, today)
               PROVE  p \in Day /\ Period(s, p) = p
    OBVIOUS
  <2>1. p \in Day
    BY <1>1, <1>2, Days DEF Day
  <2> QED
    BY <2>1, Days, PeriodOfFirst
<1>5. \A p \in Nat : p \in Due(s) <=>
        p \in Begins(s) /\ NextTarget(s) <= p /\ p <= LastOver(s, today)
  BY <1>3, <1>4 DEF Due
<1>6. Due(s) \in SUBSET Day
  BY <1>3, <1>4 DEF Due
<1>7. IsFiniteSet(Due(s)) /\ Due(s) \in SUBSET Nat
  <2>1. IsFiniteSet(Day)
    BY Days, FS_Interval DEF Day
  <2> QED
    BY <1>6, <2>1, Days, FS_Subset
<1>8. \A p \in Due(s) : p < Period(s, today) /\ <<s, p>> \notin runs
  BY <1>2, <1>5, <1>7, TargetIsNext
<1> QED
  BY <1>5, <1>7, <1>8

\* What a period costs is charged to the row of its month.
LEMMA ChargesAreRows ==
  ASSUME HouseholdTypeOK, BookTypes, NEW s \in Scope, ChargeDue(s),
         Due(s) \in SUBSET Nat, IsFiniteSet(Due(s))
  PROVE  /\ summary' \in [MonthStarts -> Row \cup {NoRow}]
         /\ \A m \in MonthStarts : summary[m] # NoRow => summary'[m] # NoRow
<1> DEFINE charged(m) == {p \in Due(s) : ChargedMonth(s, p) = m}
           sum(m) == SumOver([p \in charged(m) |-> Cost(Fresh(s, p))], charged(m))
<1>1. \A m \in MonthStarts : sum(m) \in Nat
  <2> SUFFICES ASSUME NEW m \in MonthStarts PROVE sum(m) \in Nat
    OBVIOUS
  <2> DEFINE S == charged(m)
             f == [p \in S |-> Cost(Fresh(s, p))]
  <2>1. S \in SUBSET Due(s)
    OBVIOUS
  <2>2. \A p \in S : f[p] \in Nat
    BY CostIsNat
  <2> HIDE DEF S, f
  <2>3. IsFiniteSet(S)
    BY <2>1, FS_Subset
  <2>4. SumOver(f, S) \in Nat
    BY <2>2, <2>3, SumIsNat
  <2> QED
    BY <2>4 DEF S, f
<1>2. summary' = [m \in MonthStarts |->
                   IF charged(m) = {} THEN summary[m] ELSE Charge(s, RowOf(m), sum(m))]
  BY DEF ChargeDue
<1> HIDE DEF charged, sum
<1>3. \A m \in MonthStarts : RowOf(m) \in Row
  BY Rows DEF RowOf, GetSummary, BookTypes
<1>4. \A m \in MonthStarts : Charge(s, RowOf(m), sum(m)) \in Row
  BY <1>1, <1>3, Rows
<1>5. \A m \in MonthStarts : summary'[m] = summary[m] \/ summary'[m] \in Row
  BY <1>2, <1>4
<1>6. \A m \in MonthStarts : summary[m] \in Row \cup {NoRow}
  BY DEF BookTypes
<1> QED
  BY <1>2, <1>4, <1>5, <1>6, Rows

LEMMA CloseForUserOK ==
  ASSUME ClosingInv, NEW s \in Scope, CloseForUser(s)
  PROVE  ClosingInv'
<1>1. HouseholdTypeOK /\ LifeInv /\ JobTypes /\ BookTypes /\ OtherTypes /\ RunInv
  BY TypeParts DEF ClosingInv
<1>2. /\ UNCHANGED <<householdVars, step, jobVars, viewing, failures>>
      /\ runs' = runs \cup {<<s, p>> : p \in Due(s)} /\ Pending(s)
      /\ IF s = "month" THEN CloseDue ELSE ChargeDue(s)
  BY DEF CloseForUser
<1>3. HouseholdTypeOK' /\ LifeInv' /\ today <= today' /\ (Seeded => Seeded' /\ Seed' = Seed)
  BY <1>1, <1>2, SameDay
<1>4. /\ Due(s) \in SUBSET Nat /\ IsFiniteSet(Due(s))
      /\ \A p \in Nat : p \in Due(s) <=>
           p \in Begins(s) /\ NextTarget(s) <= p /\ p <= LastOver(s, today)
      /\ \A p \in Due(s) : p < Period(s, today) /\ <<s, p>> \notin runs
  BY <1>1, <1>2, DueIsOver
<1>5. /\ BookTypes'
      /\ \A m \in MonthStarts : summary[m] # NoRow => summary'[m] # NoRow
  <2>1. runs' \subseteq Scope \X Nat
    BY <1>1, <1>2, <1>4 DEF BookTypes
  <2>2. CASE s # "month"
    <3>1. ChargeDue(s) /\ s \in {"day", "week"}
      BY <1>2, <2>2 DEF Scope
    <3>2. DOMAIN tariff' \subseteq Scope \X Nat
      BY <1>1, <1>4, <3>1, NoteLeaves DEF BookTypes, ChargeDue
    <3>3. \A p \in Due(s) : Fresh(s, p) \subseteq Task
      BY DEF Fresh, Missed, MissedDaily, MissedWeekly, Task
    <3>4. dedupes' \subseteq {"day", "week"} \X Nat \X Task
      BY <1>1, <1>4, <3>1, <3>3 DEF BookTypes, ChargeDue
    <3> QED
      BY <1>1, <1>4, <2>1, <3>1, <3>2, <3>4, ChargesAreRows DEF BookTypes, ChargeDue
  <2>3. CASE s = "month"
    <3> DEFINE open == {m \in Due("month") : ~MonthClosed(m)}
    <3>1. CloseDue /\ open \in SUBSET Nat
      BY <1>2, <1>4, <2>3
    <3>2. Note("month", open) /\ UNCHANGED dedupes
      BY <3>1 DEF CloseDue
    <3>3. summary' = [m \in MonthStarts |->
                        IF m \in open THEN CloseMonthlyPenaltySummary(RowOf(m)) ELSE summary[m]]
      BY <3>1 DEF CloseDue
    <3>4. triggered' \in [MonthStarts -> SUBSET Rule]
      BY <1>1, <3>1 DEF CloseDue, Reached, BookTypes
    <3> HIDE DEF open
    <3>5. DOMAIN tariff' \subseteq Scope \X Nat
      BY <1>1, <3>1, <3>2, NoteLeaves DEF BookTypes, Scope
    <3>6. \A m \in MonthStarts : CloseMonthlyPenaltySummary(RowOf(m)) \in Row
      BY <1>1, Rows DEF RowOf, GetSummary, BookTypes
    <3>7. /\ summary' \in [MonthStarts -> Row \cup {NoRow}]
          /\ \A m \in MonthStarts : summary[m] # NoRow => summary'[m] # NoRow
      BY <1>1, <3>3, <3>6, Rows DEF BookTypes
    <3> QED
      BY <1>1, <2>1, <3>2, <3>4, <3>5, <3>7 DEF BookTypes
  <2> QED
    BY <2>2, <2>3
<1>6. JobTypes' /\ OtherTypes'
  BY <1>1, <1>2 DEF JobTypes, OtherTypes, jobVars
<1>7. TypeOK'
  BY <1>3, <1>5, <1>6, TypeParts, PTL
<1>8. \A i \in Job : JobOK(i)' /\ (Entered(i)' <=> Entered(i))
  BY <1>1, <1>2, <1>3, <1>5, JobStays DEF ClosingInv, JobInv, jobVars
<1>9. RunInv'
  <2> SUFFICES ASSUME NEW q \in Scope, NEW p \in Nat, <<q, p>> \in runs' PROVE Turn(q, p)'
    BY DEF RunInv
  <2>1. CASE <<q, p>> \in runs
    BY <1>1, <1>2, <1>3, <2>1, TurnStays DEF RunInv
  <2>2. CASE <<q, p>> \notin runs
    <3>1. q = s /\ p \in Due(s)
      BY <1>2, <2>2
    <3>2. p \in Begins(s) /\ NextTarget(s) <= p /\ p <= LastOver(s, today) /\ p < Period(s, today)
      BY <1>4, <3>1
    <3>3. Turn(s, NextTarget(s)) /\ NextTarget(s) \in Nat
      BY <1>1, <1>2, TargetIsNext, TurnIsOver
    <3>4. Period(s, Seed) \in Nat
      BY <1>1, <3>3, SeedIsFirst, Days, PeriodOfDay, BeginsAreDays DEF Turn, SeedOK
    <3>5. Period(s, Seed) <= p
      BY <3>2, <3>3, <3>4 DEF Turn
    <3>6. \A k \in Begins(s) : Period(s, Seed) <= k /\ k < p => <<s, k>> \in runs'
      <4> SUFFICES ASSUME NEW k \in Begins(s), Period(s, Seed) <= k, k < p PROVE <<s, k>> \in runs'
        OBVIOUS
      <4>1. k \in Nat /\ LastOver(s, today) \in Nat
        BY <1>1, <1>2, TargetIsNext, BeginsAreDays
      <4>2. CASE k < NextTarget(s)
        BY <1>2, <3>3, <4>2 DEF Turn, Covered
      <4>3. CASE ~(k < NextTarget(s))
        <5>1. k \in Due(s)
          BY <1>4, <3>2, <3>3, <4>1, <4>3
        <5> QED
          BY <1>2, <5>1
      <4> QED
        BY <4>2, <4>3
    <3>7. Turn(s, p)'
      BY <1>2, <1>3, <3>2, <3>3, <3>5, <3>6 DEF Turn, Covered, householdVars
    <3> QED
      BY <3>1, <3>7
  <2> QED
    BY <2>1, <2>2
<1>10. ExclusiveInv'
  BY <1>2, <1>8 DEF ClosingInv, ExclusiveInv, jobVars
<1> QED
  BY <1>3, <1>7, <1>8, <1>9, <1>10 DEF ClosingInv, JobInv

LEMMA ViewOK ==
  ASSUME ClosingInv, NEW v \in Viewer, View(v)
  PROVE  ClosingInv'
<1>1. HouseholdTypeOK /\ LifeInv /\ JobTypes /\ BookTypes /\ OtherTypes
  BY TypeParts DEF ClosingInv
<1>2. UNCHANGED <<householdVars, runs, dedupes, triggered, tariff, step, jobVars, failures>>
  BY DEF View, ViewReads, ViewUpserts, bookVars
<1>3. HouseholdTypeOK' /\ LifeInv' /\ today <= today' /\ (Seeded => Seeded' /\ Seed' = Seed)
  BY <1>1, <1>2, SameDay
<1>4. /\ summary' \in [MonthStarts -> Row \cup {NoRow}]
      /\ \A m \in MonthStarts : summary[m] # NoRow => summary'[m] # NoRow
      /\ viewing' \in [Viewer -> MonthStarts \cup {Never}]
  BY <1>1, Rows DEF View, ViewReads, ViewUpserts, Upsert, BookTypes, OtherTypes, bookVars
<1>5. JobTypes' /\ BookTypes' /\ OtherTypes'
  BY <1>1, <1>2, <1>4 DEF JobTypes, BookTypes, OtherTypes, jobVars
<1>6. TypeOK'
  BY <1>3, <1>5, TypeParts, PTL
<1>7. \A i \in Job : JobOK(i)' /\ (Entered(i)' <=> Entered(i))
  BY <1>1, <1>2, <1>3, <1>4, JobStays DEF ClosingInv, JobInv, jobVars
<1>8. RunInv'
  BY <1>1, <1>2, <1>3, TurnStays DEF ClosingInv, RunInv
<1>9. ExclusiveInv'
  BY <1>2, <1>7 DEF ClosingInv, ExclusiveInv, jobVars
<1> QED
  BY <1>3, <1>6, <1>7, <1>8, <1>9 DEF ClosingInv, JobInv

LEMMA StutterOK ==
  ASSUME ClosingInv, UNCHANGED vars
  PROVE  ClosingInv'
<1>1. HouseholdTypeOK /\ LifeInv /\ JobTypes /\ BookTypes /\ OtherTypes
  BY TypeParts DEF ClosingInv
<1>2. UNCHANGED <<householdVars, bookVars, step, jobVars, viewing, failures>>
  BY DEF vars
<1>3. HouseholdTypeOK' /\ LifeInv' /\ today <= today' /\ (Seeded => Seeded' /\ Seed' = Seed)
  BY <1>1, <1>2, SameDay
<1>4. JobTypes' /\ BookTypes' /\ OtherTypes'
  BY <1>1, <1>2 DEF JobTypes, BookTypes, OtherTypes, bookVars, jobVars
<1>5. TypeOK'
  BY <1>3, <1>4, TypeParts, PTL
<1>6. \A i \in Job : JobOK(i)' /\ (Entered(i)' <=> Entered(i))
  BY <1>1, <1>2, <1>3, JobStays DEF ClosingInv, JobInv, bookVars, jobVars
<1>7. RunInv'
  BY <1>1, <1>2, <1>3, TurnStays DEF ClosingInv, RunInv, bookVars
<1>8. ExclusiveInv'
  BY <1>2, <1>6 DEF ClosingInv, ExclusiveInv, jobVars
<1> QED
  BY <1>3, <1>5, <1>6, <1>7, <1>8 DEF ClosingInv, JobInv

--------------------------------------------------------------------------------
(* The invariant                                                            *)

LEMMA InitClosing == Init => ClosingInv
<1> SUFFICES ASSUME Init PROVE ClosingInv
  OBVIOUS
<1>1. HouseholdTypeOK /\ LifeInv
  BY Days, InputsAreTyped
     DEF Init, HouseholdInit, HouseholdTypeOK, LifeInv, Never, Day, RequiredMin, RequiredMax
<1>2. JobTypes /\ BookTypes /\ OtherTypes
  BY ClosingAssumption
     DEF Init, JobTypes, BookTypes, OtherTypes, Steps, Scope, Row, NoRow
<1>3. TypeOK
  BY <1>1, <1>2, TypeParts
<1>4. RunInv
  BY DEF Init, RunInv
<1>5. JobInv /\ ExclusiveInv
  BY DEF Init, JobInv, JobOK, ExclusiveInv, Entered, Ensured
<1> QED
  BY <1>1, <1>3, <1>4, <1>5 DEF ClosingInv

LEMMA NextClosing == ClosingInv /\ [Next]_vars => ClosingInv'
<1> SUFFICES ASSUME ClosingInv, [Next]_vars PROVE ClosingInv'
  OBVIOUS
<1>1. CASE Member /\ UNCHANGED <<bookVars, step, jobVars, viewing, failures>>
  BY <1>1, MemberOK
<1>2. ASSUME NEW j \in Job, Advance(j) PROVE ClosingInv'
  BY <1>2, AdvanceOK
<1>3. ASSUME NEW j \in Job, Fail(j) PROVE ClosingInv'
  BY <1>3, FailOK
<1>4. ASSUME NEW j \in Job, NEW s \in Scope, StartJob(j, s) PROVE ClosingInv'
  BY <1>4, StartJobOK
<1>5. ASSUME NEW j \in Job, NEW s \in Scope, NothingToClose(j, s) PROVE ClosingInv'
  BY <1>5, StutterOK DEF NothingToClose
<1>6. ASSUME NEW s \in Scope, CloseForUser(s) PROVE ClosingInv'
  BY <1>6, CloseForUserOK
<1>7. ASSUME NEW v \in Viewer, View(v) PROVE ClosingInv'
  BY <1>7, ViewOK
<1>8. CASE UNCHANGED vars
  BY <1>8, StutterOK
<1> QED
  BY <1>1, <1>2, <1>3, <1>4, <1>5, <1>6, <1>7, <1>8 DEF Next

LEMMA AlwaysClosing == Spec => []ClosingInv
BY InitClosing, NextClosing, PTL DEF Spec

\* Members, jobs, users and viewers, in any order and with any failures, keep
\* the types of the model (store_closing.go, store_tasks.go, store_penalty.go):
\* no counter is negative, no period or month leaves the calendar.
THEOREM TypeCorrect == Spec => []TypeOK
<1>1. ClosingInv => TypeOK
  BY DEF ClosingInv
<1> QED
  BY <1>1, AlwaysClosing, PTL

\* The runs of a scope have no gap, whatever fails or interleaves: the next
\* catch-up starts behind the latest run (store_closing.go:393-454) and finds
\* every earlier period entered.
THEOREM RunsHaveNoGaps == Spec => []RunsAreContiguous
<1>1. ClosingInv => RunsAreContiguous
  <2> SUFFICES ASSUME ClosingInv, NEW run \in runs, NEW d \in Day,
                      Period(run[1], Seed) <= Period(run[1], d), Period(run[1], d) <= run[2]
               PROVE  <<run[1], Period(run[1], d)>> \in runs
    BY DEF RunsAreContiguous
  <2>1. PICK s \in Scope, p \in Nat : run = <<s, p>>
    BY TypeParts DEF ClosingInv, BookTypes
  <2>2. run[1] = s /\ run[2] = p
    BY <2>1
  <2>3. Turn(s, p)
    BY <2>1 DEF ClosingInv, RunInv
  <2>4. Period(s, d) \in Begins(s) /\ Period(s, d) \in Nat
    BY Days, PeriodOfDay, BeginsAreDays
  <2>5. Period(s, d) = p \/ Period(s, d) < p
    BY <2>2, <2>4
  <2>6. <<s, Period(s, d)>> \in runs
    BY <2>1, <2>2, <2>3, <2>4, <2>5 DEF Turn, Covered
  <2> QED
    BY <2>2, <2>6
<1> QED
  BY <1>1, AlwaysClosing, PTL

--------------------------------------------------------------------------------
(* The past                                                                 *)

\* What members do to what is dated.
MemberLeaves ==
  /\ \A t \in Task : born'[t] = born[t] \/ (born[t] = Never /\ born'[t] = today)
  /\ \A t \in Task : gone'[t] = gone[t] \/ (gone[t] = Never /\ gone'[t] = today)
  /\ \A t \in Task, d \in Day : d # today => (<<t, d>> \in done' <=> <<t, d>> \in done)
  /\ \A t \in WeeklyTask, w \in Week : w # WeekStart(today) => count'[t][w] = count[t][w]
  /\ \A r \in Rule : enacted'[r] = enacted[r] \/ (enacted[r] = Never /\ enacted'[r] = today)
  /\ \A r \in Rule : repealed'[r] = repealed[r] \/ (repealed[r] = Never /\ repealed'[r] = today)
  /\ MaxEdits = 0 =>
       /\ \A t \in Task : born[t] # Never => points'[t] = points[t]
       /\ \A t \in WeeklyTask : born[t] # Never => required'[t] = required[t]
       /\ \A r \in Rule : enacted[r] # Never =>
             threshold'[r] = threshold[r] /\ repealed'[r] = repealed[r]

LEMMA MembersLeaveThePast ==
  ASSUME HouseholdTypeOK, Member
  PROVE  MemberLeaves
<1>1. \A t \in Task : born'[t] = born[t] \/ (born[t] = Never /\ born'[t] = today)
  <2>1. UNCHANGED born \/ \E t \in Task : CreateTask(t)
    BY DEF Member, NextDay, CreateTask, PatchTask, DeleteTask, ToggleDaily, CompleteWeekly,
           CreatePenaltyRule, PatchPenaltyRule, DeletePenaltyRule, taskVars, ruleVars
  <2>2. ASSUME NEW t \in Task, CreateTask(t)
        PROVE  born[t] = Never /\ born' = [born EXCEPT ![t] = today]
    BY <2>2 DEF CreateTask, InsertTask
  <2> QED
    BY <2>1, <2>2 DEF HouseholdTypeOK
<1>2. \A t \in Task : gone'[t] = gone[t] \/ (gone[t] = Never /\ gone'[t] = today)
  <2>1. UNCHANGED gone \/ \E t \in Task : DeleteTask(t)
    BY DEF Member, NextDay, CreateTask, PatchTask, DeleteTask, ToggleDaily, CompleteWeekly,
           CreatePenaltyRule, PatchPenaltyRule, DeletePenaltyRule, taskVars, ruleVars
  <2>2. ASSUME NEW t \in Task, DeleteTask(t)
        PROVE  gone[t] = Never /\ gone' = [gone EXCEPT ![t] = today]
    BY <2>2 DEF DeleteTask, MarkDeleted, Alive
  <2> QED
    BY <2>1, <2>2 DEF HouseholdTypeOK
<1>3. \A t \in Task, d \in Day : d # today => (<<t, d>> \in done' <=> <<t, d>> \in done)
  <2>1. UNCHANGED done \/ \E t \in DailyTask : ToggleDaily(t)
    BY DEF Member, NextDay, CreateTask, PatchTask, DeleteTask, ToggleDaily, CompleteWeekly,
           CreatePenaltyRule, PatchPenaltyRule, DeletePenaltyRule, taskVars, ruleVars
  <2>2. ASSUME NEW t \in DailyTask, ToggleDaily(t)
        PROVE  done' = done \cup {<<t, today>>} \/ done' = done \ {<<t, today>>}
    BY <2>2 DEF ToggleDaily, CreateTaskCompletionDaily, DeleteTaskCompletionDaily
  <2> QED
    BY <2>1, <2>2
<1>4. \A t \in WeeklyTask, w \in Week : w # WeekStart(today) => count'[t][w] = count[t][w]
  <2>1. UNCHANGED count \/ \E t \in WeeklyTask : CompleteWeekly(t)
    BY DEF Member, NextDay, CreateTask, PatchTask, DeleteTask, ToggleDaily, CompleteWeekly,
           CreatePenaltyRule, PatchPenaltyRule, DeletePenaltyRule, taskVars, ruleVars
  <2>2. ASSUME NEW t \in WeeklyTask, CompleteWeekly(t)
        PROVE  InsertWeeklyEntry(t) \/ DeleteLatestWeeklyEntry(t)
    BY <2>2 DEF CompleteWeekly, ToggleWeekly, CountUp, CountDown
  <2>3. ASSUME NEW t \in WeeklyTask, InsertWeeklyEntry(t) \/ DeleteLatestWeeklyEntry(t),
               NEW u \in WeeklyTask, NEW w \in Week, w # WeekStart(today)
        PROVE  count'[u][w] = count[u][w]
    BY <2>3 DEF InsertWeeklyEntry, DeleteLatestWeeklyEntry, HouseholdTypeOK
  <2> QED
    BY <2>1, <2>2, <2>3
<1>5. \A r \in Rule : enacted'[r] = enacted[r] \/ (enacted[r] = Never /\ enacted'[r] = today)
  <2>1. UNCHANGED enacted \/ \E r \in Rule : CreatePenaltyRule(r)
    BY DEF Member, NextDay, CreateTask, PatchTask, DeleteTask, ToggleDaily, CompleteWeekly,
           CreatePenaltyRule, PatchPenaltyRule, DeletePenaltyRule, taskVars, ruleVars
  <2>2. ASSUME NEW r \in Rule, CreatePenaltyRule(r)
        PROVE  enacted[r] = Never /\ enacted' = [enacted EXCEPT ![r] = today]
    BY <2>2 DEF CreatePenaltyRule, InsertPenaltyRule
  <2> QED
    BY <2>1, <2>2 DEF HouseholdTypeOK
<1>6. \A r \in Rule : repealed'[r] = repealed[r] \/ (repealed[r] = Never /\ repealed'[r] = today)
  <2>1. UNCHANGED repealed \/ \E r \in Rule : DeletePenaltyRule(r)
    BY DEF Member, NextDay, CreateTask, PatchTask, DeleteTask, ToggleDaily, CompleteWeekly,
           CreatePenaltyRule, PatchPenaltyRule, DeletePenaltyRule, taskVars, ruleVars
  <2>2. ASSUME NEW r \in Rule, DeletePenaltyRule(r)
        PROVE  repealed[r] = Never /\ repealed' = [repealed EXCEPT ![r] = today]
    BY <2>2 DEF DeletePenaltyRule, SoftDeletePenaltyRule, Undeleted
  <2> QED
    BY <2>1, <2>2 DEF HouseholdTypeOK
<1>7. MaxEdits = 0 => ~Edit
  BY DEF Edit, HouseholdTypeOK
<1>8. MaxEdits = 0 =>
        /\ \A t \in Task : born[t] # Never => points'[t] = points[t]
        /\ \A t \in WeeklyTask : born[t] # Never => required'[t] = required[t]
  <2>1. UNCHANGED <<points, required>> \/ \E t \in Task : CreateTask(t) \/ PatchTask(t)
    BY DEF Member, NextDay, CreateTask, PatchTask, DeleteTask, ToggleDaily, CompleteWeekly,
           CreatePenaltyRule, PatchPenaltyRule, DeletePenaltyRule, taskVars, ruleVars
  <2>2. ASSUME NEW t \in Task, CreateTask(t) PROVE \E n, k : born[t] = Never /\ WriteTask(t, n, k)
    BY <2>2 DEF CreateTask
  <2>3. ASSUME NEW t \in Task, PatchTask(t) PROVE Edit
    BY <2>3 DEF PatchTask
  <2>4. ASSUME NEW t \in Task, NEW n, NEW k, born[t] = Never, WriteTask(t, n, k)
        PROVE  /\ \A u \in Task : born[u] # Never => points'[u] = points[u]
               /\ \A u \in WeeklyTask : born[u] # Never => required'[u] = required[u]
    BY <2>4 DEF WriteTask, HouseholdTypeOK
  <2> QED
    BY <1>7, <2>1, <2>2, <2>3, <2>4
<1>9. MaxEdits = 0 => \A r \in Rule : enacted[r] # Never =>
                        threshold'[r] = threshold[r] /\ repealed'[r] = repealed[r]
  <2>1. \/ UNCHANGED <<threshold, repealed>> \/ Edit
        \/ \E r \in Rule : CreatePenaltyRule(r)
    BY DEF Member, NextDay, CreateTask, PatchTask, DeleteTask, ToggleDaily, CompleteWeekly,
           CreatePenaltyRule, PatchPenaltyRule, DeletePenaltyRule, taskVars, ruleVars
  <2>2. ASSUME NEW r \in Rule, CreatePenaltyRule(r)
        PROVE  UNCHANGED repealed /\ enacted[r] = Never /\ \E n : threshold' = [threshold EXCEPT ![r] = n]
    BY <2>2 DEF CreatePenaltyRule, InsertPenaltyRule, UpdatePenaltyRule
  <2> QED
    BY <1>7, <2>1, <2>2 DEF HouseholdTypeOK
<1> QED
  BY <1>1, <1>2, <1>3, <1>4, <1>5, <1>6, <1>8, <1>9 DEF MemberLeaves

\* A day or a week that is over: its end, and what happened in it, stay.
LEMMA OverIsSealed ==
  ASSUME HouseholdTypeOK, LifeInv, Member, NEW s \in Evaluated,
         NEW p \in Begins(s), p < Period(s, today)
  PROVE  /\ NextPeriod(s, p) \in Nat /\ NextPeriod(s, p) <= today
         /\ \A t \in Task : InEffect(t, NextPeriod(s, p))' <=> InEffect(t, NextPeriod(s, p))
         /\ s = "day" => \A t \in Task : <<t, p>> \in done' <=> <<t, p>> \in done
         /\ s = "week" => \A t \in WeeklyTask : count'[t][p] = count[t][p]
<1>1. s \in Scope /\ today \in Day /\ today \in Nat \ {0}
  BY Days DEF Evaluated, Scope, HouseholdTypeOK
<1>2. p \in Nat \ {0} /\ p < today /\ NextPeriod(s, p) <= today /\ p \in Day
  <2>1. p \in Nat \ {0} /\ p < today /\ NextPeriod(s, p) <= today
    BY <1>1, BeginsAreDays, OverIsBefore DEF Day
  <2> QED
    BY <1>1, <2>1, Days DEF Day
<1>3. NextPeriod(s, p) \in Nat
  BY <1>1, <1>2, Days, PeriodAfter, BeginsAreDays
<1>4. MemberLeaves
  BY MembersLeaveThePast
<1>5. ASSUME NEW t \in Task
      PROVE  InEffect(t, NextPeriod(s, p))' <=> InEffect(t, NextPeriod(s, p))
  <2> DEFINE b == born[t]
             g == gone[t]
  <2>1. b \in Nat /\ g \in Nat
    BY Days DEF HouseholdTypeOK, Never
  <2>2. born'[t] = b \/ (b = Never /\ born'[t] = today)
    BY <1>4 DEF MemberLeaves
  <2>3. gone'[t] = g \/ (g = Never /\ gone'[t] = today)
    BY <1>4 DEF MemberLeaves
  <2>4. PICK n \in Nat : n = NextPeriod(s, p)
    BY <1>3
  <2>5. InEffect(t, n)' <=> InEffect(t, n)
    BY <1>1, <1>2, <2>1, <2>2, <2>3, <2>4 DEF InEffect, Never
  <2>6. InEffect(t, NextPeriod(s, p))' <=> InEffect(t, n)'
    BY <2>4 DEF InEffect, NextPeriod, NextMonth, MonthAfter
  <2> QED
    BY <2>4, <2>5, <2>6
<1>6. s = "day" => \A t \in Task : <<t, p>> \in done' <=> <<t, p>> \in done
  BY <1>1, <1>2, <1>4 DEF MemberLeaves
<1>7. s = "week" => \A t \in WeeklyTask : count'[t][p] = count[t][p]
  <2>1. s = "week" => p \in Week /\ p # WeekStart(today)
    <3>1. s = "week" => WeekStart(p) = p
      BY <1>1, <1>2, Days, PeriodOfFirst DEF Period
    <3>2. s = "week" => Period(s, today) = WeekStart(today)
      BY DEF Period
    <3> QED
      BY <1>1, <1>2, <3>1, <3>2 DEF Week
  <2> QED
    BY <1>4, <2>1 DEF MemberLeaves
<1> QED
  BY <1>2, <1>3, <1>5, <1>6, <1>7

\* What is missed of a day or a week is counted up to its end.
LEMMA MissedByEnd ==
  ASSUME NEW s \in Evaluated, NEW p
  PROVE  Missed(s, p) =
           {t \in Task : /\ InEffect(t, NextPeriod(s, p))
                         /\ IF s = "day" THEN t \in DailyTask /\ <<t, p>> \notin done
                                         ELSE t \in WeeklyTask /\ count[t][p] < required[t]}
BY DEF Missed, MissedDaily, MissedWeekly, NextPeriod, Evaluated, Task

\* Debts are sealed: what the overview shows as not done when a day or a week
\* ends is what the closing will count as missed, whatever the members do
\* before it runs, as long as the numbers required stay
\* (store_task_overview.go:39-98 against task_evaluation_dedupes.sql:8-63).
THEOREM DebtsStay == Spec => DebtsAreSealed
<1> DEFINE Sealed ==
      \A s \in Evaluated :
        /\ Period(s, today) # Period(s, today')
             => \A p \in {Period(s, today)} : Missed(s, p)' = TaskOverview[s]
        /\ required' = required
             => \A p \in {Period(s, d) : d \in 1..LastOver(s, today)} :
                  Missed(s, p)' = Missed(s, p)
<1>1. ASSUME ClosingInv, Member PROVE Sealed
  <2>1. /\ HouseholdTypeOK /\ LifeInv /\ today \in Day /\ today \in Nat
        /\ \A t \in Task : born[t] \in Nat /\ gone[t] \in Nat
    BY <1>1, TypeParts, Days DEF ClosingInv, HouseholdTypeOK, Never
  <2>2. ASSUME NEW s \in Evaluated, Period(s, today) # Period(s, today'),
               NEW p, p = Period(s, today)
        PROVE  Missed(s, p)' = TaskOverview[s]
    <3>1. UNCHANGED taskVars
      <4>1. today' # today
        BY <2>2
      <4> QED
        BY <1>1, <4>1 DEF Member, NextDay, CreateTask, PatchTask, DeleteTask, ToggleDaily,
             CompleteWeekly, CreatePenaltyRule, PatchPenaltyRule, DeletePenaltyRule
    <3>2. Missed(s, p)' = Missed(s, p)
      BY <3>1 DEF Missed, MissedDaily, MissedWeekly, InEffect, taskVars
    <3>3. \A t \in Task : \A n \in Nat : n > today => (InEffect(t, n) <=> Alive(t))
      BY <2>1 DEF InEffect, Alive, LifeInv
    <3>4. CASE s = "day"
      <4>1. p = today /\ p + 1 > today /\ p + 1 \in Nat
        BY <2>1, <2>2, <3>4 DEF Period
      <4>2. \A t \in DailyTask : InEffect(t, p + 1) <=> Alive(t)
        BY <3>3, <4>1 DEF Task
      <4>3. MissedDaily(p) = TaskOverview.day
        BY <4>1, <4>2 DEF MissedDaily, TaskOverview, UndeletedTasks, DailyCompletions, Task
      <4> QED
        BY <3>2, <3>4, <4>3 DEF Missed
    <3>5. CASE s = "week"
      <4>1. p = WeekStart(today) /\ p + DaysPerWeek > today /\ p + DaysPerWeek \in Nat
        BY <2>1, <2>2, <3>5, Days, WeekOfDay DEF Period, WeekStarts
      <4>2. \A t \in WeeklyTask : InEffect(t, p + DaysPerWeek) <=> Alive(t)
        BY <3>3, <4>1 DEF Task
      <4>3. MissedWeekly(p) = TaskOverview.week
        BY <4>1, <4>2 DEF MissedWeekly, TaskOverview, UndeletedTasks, WeeklyCounts, Task
      <4> QED
        BY <3>2, <3>5, <4>3 DEF Missed
    <3> QED
      BY <3>4, <3>5 DEF Evaluated
  <2>3. ASSUME NEW s \in Evaluated, required' = required,
               NEW d \in 1..LastOver(s, today), NEW p, p = Period(s, d)
        PROVE  Missed(s, p)' = Missed(s, p)
    <3>1. s \in Scope /\ LastOver(s, today) \in Int /\ LastOver(s, today) < Period(s, today)
      BY <2>1, PeriodBefore DEF Evaluated, Scope, Day
    <3>2. Period(s, today) <= today /\ Period(s, today) \in Nat
      BY <2>1, <3>1, Days, PeriodOfDay, BeginsAreDays
    <3>3. d \in Day /\ d \in Nat
      BY <2>1, <3>1, <3>2, Days DEF Day
    <3>4. p \in Begins(s) /\ p <= d /\ p \in Nat
      BY <2>3, <3>1, <3>3, Days, PeriodOfDay, BeginsAreDays
    <3>5. p < Period(s, today)
      BY <3>1, <3>2, <3>3, <3>4
    <3>6. /\ \A t \in Task : InEffect(t, NextPeriod(s, p))' <=> InEffect(t, NextPeriod(s, p))
          /\ s = "day" => \A t \in Task : <<t, p>> \in done' <=> <<t, p>> \in done
          /\ s = "week" => \A t \in WeeklyTask : count'[t][p] = count[t][p]
      BY <1>1, <2>1, <3>4, <3>5, OverIsSealed
    <3>7. CASE s = "day"
      <4>1. \A t \in DailyTask : InEffect(t, p + 1)' <=> InEffect(t, p + 1)
        BY <3>6, <3>7 DEF NextPeriod, Task
      <4>2. MissedDaily(p)' = MissedDaily(p)
        BY <3>6, <3>7, <4>1 DEF MissedDaily, Task
      <4> QED
        BY <3>7, <4>2 DEF Missed
    <3>8. CASE s = "week"
      <4>1. \A t \in WeeklyTask : InEffect(t, p + DaysPerWeek)' <=> InEffect(t, p + DaysPerWeek)
        BY <3>6, <3>8 DEF NextPeriod, Task
      <4>2. MissedWeekly(p)' = MissedWeekly(p)
        BY <2>3, <3>6, <3>8, <4>1 DEF MissedWeekly
      <4> QED
        BY <3>8, <4>2 DEF Missed
    <3> QED
      BY <3>7, <3>8 DEF Evaluated
  <2> QED
    BY <2>2, <2>3
<1>2. ASSUME ClosingInv, [Next]_vars PROVE [Sealed]_<<today, taskVars>>
  <2>1. CASE Member
    BY <1>1, <1>2, <2>1
  <2>2. CASE ~Member
    <3>1. UNCHANGED householdVars
      BY <1>2, <2>2 DEF Next, Advance, EnsureReads, EnsureUpserts, InsertRun, SumPenalty, Increment,
           JudgeRules, CloseSummary, ClearTriggered, AddTriggered, Fail, StartJob,
           NothingToClose, CloseForUser, View, ViewReads, ViewUpserts, vars
    <3> QED
      BY <3>1 DEF householdVars
  <2> QED
    BY <2>1, <2>2
<1>3. ClosingInv /\ [Next]_vars => [Sealed]_<<today, taskVars>>
  BY <1>2
<1> QED
  BY <1>3, AlwaysClosing, PTL DEF Spec, DebtsAreSealed, Sealed
================================================================================
