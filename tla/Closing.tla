-------------------------------- MODULE Closing --------------------------------
(***************************************************************************)
(* The closing of days, weeks and months of one team (store_closing.go),   *)
(* as the ops command runs it (cmd/ops/main.go): CloseDayForTeam,          *)
(* CloseWeekForTeam and CloseMonthForTeam use no transaction, so that each *)
(* statement commits by itself and jobs, and the GET handlers that create  *)
(* the summary of a month, interleave at every statement.                  *)
(***************************************************************************)
EXTENDS Household, Sums

CONSTANTS
  Job,                    \* processes that may run the ops command
  Viewer,                 \* GET handlers of the overview and the summary
  Ordered,                \* closings follow the order of README.md:69
  MaxFailures             \* bound: jobs that fail or are killed

NoRow == [absent |-> TRUE]

ASSUME ClosingAssumption == Ordered \in BOOLEAN /\ MaxFailures \in Nat

VARIABLES
  runs,       \* close_runs: <<scope, target>>
  dedupes,    \* task_evaluation_dedupes: <<scope, target, task>>
  summary,    \* summary[m]: the row of monthly_penalty_summaries, or NoRow
  triggered,  \* triggered[m]: monthly_penalty_summary_triggered_rules
  step,       \* step[j]: the statement job j executes next
  scope,      \* scope[j], target[j], end[j]: what it closes, the period it
  target,     \*   is at, and the last one to close
  end,
  amount,     \* amount[j]: the sum it has computed or read
  found,      \* found[j]: the rules it has found triggered
  viewing,    \* viewing[v]: the month whose summary v is about to create
  tariff,     \* history: tariff[<<s, p>>]: the points, numbers and thresholds
              \* that counted when the period was evaluated
  failures    \* history: how many jobs have failed

jobVars == <<scope, target, end, amount, found>>
bookVars == <<runs, dedupes, summary, triggered, tariff>>
vars == <<householdVars, bookVars, step, jobVars, viewing, failures>>

Row == [daily : Nat, weekly : Nat, closed : BOOLEAN]
Steps == {"idle", "ensure", "upsert", "insert", "sum", "increment", "judge",
          "close", "clear", "trigger"}

TypeOK ==
  /\ HouseholdTypeOK
  /\ runs \subseteq Scope \X Nat
  /\ dedupes \subseteq {"day", "week"} \X Nat \X Task
  /\ summary \in [MonthStarts -> Row \cup {NoRow}]
  /\ triggered \in [MonthStarts -> SUBSET Rule]
  /\ step \in [Job -> Steps]
  /\ scope \in [Job -> Scope]
  /\ target \in [Job -> Nat]
  /\ end \in [Job -> Nat]
  /\ amount \in [Job -> Nat]
  /\ found \in [Job -> SUBSET Rule]
  /\ viewing \in [Viewer -> MonthStarts \cup {Never}]
  /\ DOMAIN tariff \subseteq Scope \X Nat
  /\ failures \in 0..MaxFailures

Init ==
  /\ HouseholdInit
  /\ runs = {}
  /\ dedupes = {}
  /\ summary = [m \in MonthStarts |-> NoRow]
  /\ triggered = [m \in MonthStarts |-> {}]
  /\ step = [j \in Job |-> "idle"]
  /\ scope = [j \in Job |-> "day"]
  /\ target = [j \in Job |-> 0]
  /\ end = [j \in Job |-> 0]
  /\ amount = [j \in Job |-> 0]
  /\ found = [j \in Job |-> {}]
  /\ viewing = [v \in Viewer |-> Never]
  /\ tariff = <<>>
  /\ failures = 0

--------------------------------------------------------------------------------
(* What a period costs                                                      *)

\* Mutant: tasks are evaluated that were deleted during the period.
InEffectOnceBorn(t, cutoff) == born[t] # Never /\ born[t] < cutoff

\* A task is evaluated in a period if it was created before the end of the
\* period and not deleted before it (created_at < cutoff <= deleted_at).
InEffect(t, cutoff) ==
  born[t] # Never /\ born[t] < cutoff /\ (gone[t] = Never \/ gone[t] >= cutoff)

\* SumDailyPenaltyForClose and SumWeeklyPenaltyForClose, the candidates: the
\* tasks whose work of the day or of the week was not done.
MissedDaily(d) == {t \in DailyTask : InEffect(t, d + 1) /\ <<t, d>> \notin done}
MissedWeekly(w) ==
  {t \in WeeklyTask : InEffect(t, w + DaysPerWeek) /\ count[t][w] < required[t]}

Missed(s, p) == IF s = "day" THEN MissedDaily(p) ELSE MissedWeekly(p)

\* Those of them that were not evaluated before.
Fresh(s, p) == {t \in Missed(s, p) : <<s, p, t>> \notin dedupes}

Cost(tasks) == SumOver(points, tasks)

--------------------------------------------------------------------------------
(* Statements on the summaries and the runs                                 *)

EmptyRow == [daily |-> 0, weekly |-> 0, closed |-> FALSE]

GetSummary(m) == summary[m]

\* UpsertMonthlyPenaltySummary: a row that is there by now is overwritten.
Upsert(m) == summary' = [summary EXCEPT ![m] = EmptyRow]

IncrementDailyPenalty(row, n) == [row EXCEPT !.daily = @ + n]
IncrementWeeklyPenalty(row, n) == [row EXCEPT !.weekly = @ + n]
Charge(s, row, n) ==
  IF s = "day" THEN IncrementDailyPenalty(row, n) ELSE IncrementWeeklyPenalty(row, n)

CloseMonthlyPenaltySummary(row) == [row EXCEPT !.closed = TRUE]

MonthClosed(m) == summary[m] # NoRow /\ summary[m].closed

\* The rules in force when day asOf begins that a total reaches.
Reached(total, asOf) == {r \in Rule : InForce(r, asOf) /\ total >= threshold[r]}

InsertCloseRun(s, p) == runs' = runs \cup {<<s, p>>}

\* What counts for the period, for the history: the points and numbers of the
\* tasks, the thresholds of the rules, of before its end.
Tariff(s, p) ==
  LET before(when) == {x \in DOMAIN when : when[x] # Never /\ when[x] < NextPeriod(s, p)}
  IN IF s = "month"
     THEN [threshold |-> [r \in before(enacted) |-> threshold[r]]]
     ELSE [points |-> [t \in before(born) |-> points[t]],
           required |-> [t \in before(born) \cap WeeklyTask |-> required[t]]]

\* Without edits the tariff of a period is the present one.
Note(s, periods) ==
  IF MaxEdits = 0
  THEN UNCHANGED tariff
  ELSE tariff' = [run \in DOMAIN tariff \cup {s} \X periods |->
                    IF run \in {s} \X periods THEN Tariff(s, run[2]) ELSE tariff[run]]

--------------------------------------------------------------------------------
(* Jobs: catchUpDayLocked, catchUpWeekLocked, catchUpMonthLocked            *)

\* seedTargetDateLocked: the day of the earliest task, deleted or not.
Seeded == \E t \in Task : born[t] # Never
Seed == Min({born[t] : t \in Task} \ {Never})

Closed(s) == {p \in 0..(LastDay + DaysPerWeek) : <<s, p>> \in runs}

\* Mutant: no catch-up, only the latest period that is over is closed.
NextTargetSkips(s) == Max({Period(s, Seed), LastOver(s, today)})

\* nextDayTargetLocked, nextWeekTargetLocked, nextMonthTargetLocked
NextTarget(s) ==
  IF Closed(s) = {} THEN Period(s, Seed) ELSE NextPeriod(s, Max(Closed(s)))

Pending(s) == (Seeded \/ Closed(s) # {}) /\ NextTarget(s) <= LastOver(s, today)

\* A job that has nothing to do ends at once.
NothingToClose(j, s) == step[j] = "idle" /\ ~Pending(s) /\ UNCHANGED vars

\* A month is entered in close_runs before its summary is looked at.
FirstStep(s) == IF s = "month" THEN "insert" ELSE "ensure"

\* In the order the README recommends a month is closed after the days and
\* the weeks, and one job runs at a time.
MayClose(s) == Ordered /\ s = "month" => ~Pending("day") /\ ~Pending("week")

\* A job of scope s starts and has something to do.
StartJob(j, s) ==
  /\ step[j] = "idle"
  /\ Pending(s)
  /\ Ordered => \A i \in Job : step[i] = "idle"
  /\ MayClose(s)
  /\ step' = [step EXCEPT ![j] = FirstStep(s)]
  /\ scope' = [scope EXCEPT ![j] = s]
  /\ target' = [target EXCEPT ![j] = NextTarget(s)]
  /\ end' = [end EXCEPT ![j] = LastOver(s, today)]
  /\ UNCHANGED <<householdVars, bookVars, amount, found, viewing, failures>>

\* The job ends.
EndJob(j) ==
  /\ step' = [step EXCEPT ![j] = "idle"]
  /\ scope' = [scope EXCEPT ![j] = "day"]
  /\ target' = [target EXCEPT ![j] = 0]
  /\ end' = [end EXCEPT ![j] = 0]
  /\ amount' = [amount EXCEPT ![j] = 0]
  /\ found' = [found EXCEPT ![j] = {}]

\* The loop of the catch-up goes on to the next period, up to its last one.
NextInLoop(j) ==
  IF NextPeriod(scope[j], target[j]) <= end[j]
  THEN /\ target' = [target EXCEPT ![j] = NextPeriod(scope[j], target[j])]
       /\ step' = [step EXCEPT ![j] = FirstStep(scope[j])]
       /\ amount' = [amount EXCEPT ![j] = 0]
       /\ UNCHANGED <<scope, end, found>>
  ELSE EndJob(j)

Goto(j, s) == step' = [step EXCEPT ![j] = s]
MonthOfJob(j) == ChargedMonth(scope[j], target[j])

\* ensureMonthSummaryLocked reads the row.  A missing row is created first, a
\* day or a week of a closed month ends the job (errMonthAlreadyClosed), and a
\* closed month needs nothing more.
EnsureReads(j) ==
  LET row == GetSummary(MonthOfJob(j))
  IN /\ step[j] = "ensure"
     /\ CASE row = NoRow -> Goto(j, "upsert") /\ UNCHANGED jobVars
          [] row # NoRow /\ row.closed ->
               IF scope[j] = "month" THEN NextInLoop(j) ELSE EndJob(j)
          [] OTHER ->
               /\ Goto(j, IF scope[j] = "month" THEN "judge" ELSE "insert")
               /\ amount' = [amount EXCEPT ![j] = IF scope[j] = "month"
                                                  THEN row.daily + row.weekly
                                                  ELSE 0]
               /\ UNCHANGED <<scope, target, end, found>>
     /\ UNCHANGED <<householdVars, bookVars, viewing, failures>>

\* The row is created, and read again.
EnsureUpserts(j) ==
  /\ step[j] = "upsert"
  /\ Upsert(MonthOfJob(j))
  /\ Goto(j, "ensure")
  /\ UNCHANGED <<householdVars, runs, dedupes, triggered, tariff, jobVars,
                 viewing, failures>>

\* InsertCloseRun: a period that has a run is skipped.
InsertRun(j) ==
  /\ step[j] = "insert"
  /\ IF <<scope[j], target[j]>> \in runs
     THEN NextInLoop(j) /\ UNCHANGED runs
     ELSE /\ InsertCloseRun(scope[j], target[j])
          /\ Goto(j, IF scope[j] = "month" THEN "ensure" ELSE "sum")
          /\ UNCHANGED jobVars
  /\ UNCHANGED <<householdVars, dedupes, summary, triggered, tariff, viewing, failures>>

\* SumDailyPenaltyForClose, SumWeeklyPenaltyForClose: one statement that adds
\* up the tasks missed and not evaluated before, and marks them evaluated.
SumPenalty(j) ==
  LET fresh == Fresh(scope[j], target[j])
  IN /\ step[j] = "sum"
     /\ dedupes' = dedupes \cup {<<scope[j], target[j], t>> : t \in fresh}
     /\ Note(scope[j], {target[j]})
     /\ IF Cost(fresh) = 0
        THEN NextInLoop(j)
        ELSE /\ amount' = [amount EXCEPT ![j] = Cost(fresh)]
             /\ Goto(j, "increment")
             /\ UNCHANGED <<scope, target, end, found>>
     /\ UNCHANGED <<householdVars, runs, summary, triggered, viewing, failures>>

\* IncrementDailyPenalty, IncrementWeeklyPenalty
Increment(j) ==
  /\ step[j] = "increment"
  /\ summary' = [summary EXCEPT ![MonthOfJob(j)] =
                   Charge(scope[j], @, amount[j])]
  /\ NextInLoop(j)
  /\ UNCHANGED <<householdVars, runs, dedupes, triggered, tariff, viewing, failures>>

\* Mutant: the rules in force on the day of the closing are judged.
JudgeRulesOfToday(j) ==
  /\ step[j] = "judge"
  /\ found' = [found EXCEPT ![j] = Reached(amount[j], today + 1)]
  /\ Goto(j, "close")
  /\ Note("month", {target[j]})
  /\ UNCHANGED <<householdVars, runs, dedupes, summary, triggered, scope, target,
                 end, amount, viewing, failures>>

\* ListPenaltyRulesEffectiveAtByTeamID, as of the end of the month.
JudgeRules(j) ==
  /\ step[j] = "judge"
  /\ found' = [found EXCEPT ![j] = Reached(amount[j], NextMonth(target[j]))]
  /\ Goto(j, "close")
  /\ Note("month", {target[j]})
  /\ UNCHANGED <<householdVars, runs, dedupes, summary, triggered, scope, target,
                 end, amount, viewing, failures>>

\* CloseMonthlyPenaltySummary
CloseSummary(j) ==
  /\ step[j] = "close"
  /\ summary' = [summary EXCEPT ![target[j]] = CloseMonthlyPenaltySummary(@)]
  /\ Goto(j, "clear")
  /\ UNCHANGED <<householdVars, runs, dedupes, triggered, tariff, jobVars,
                 viewing, failures>>

\* DeleteTriggeredRulesByMonth
ClearTriggered(j) ==
  /\ step[j] = "clear"
  /\ triggered' = [triggered EXCEPT ![target[j]] = {}]
  /\ IF found[j] = {} THEN NextInLoop(j)
                      ELSE Goto(j, "trigger") /\ UNCHANGED jobVars
  /\ UNCHANGED <<householdVars, runs, dedupes, summary, tariff, viewing, failures>>

\* AddTriggeredRuleForMonth, for one rule after the other; their order is left
\* open.
AddTriggered(j) ==
  /\ step[j] = "trigger"
  /\ \E r \in found[j] :
       /\ triggered' = [triggered EXCEPT ![target[j]] = @ \cup {r}]
       /\ IF found[j] = {r}
          THEN NextInLoop(j)
          ELSE /\ found' = [found EXCEPT ![j] = @ \ {r}]
               /\ UNCHANGED <<step, scope, target, end, amount>>
  /\ UNCHANGED <<householdVars, runs, dedupes, summary, tariff, viewing, failures>>

\* A statement fails or the process is killed: what it did so far stays.
Fail(j) ==
  /\ step[j] # "idle"
  /\ failures < MaxFailures
  /\ failures' = failures + 1
  /\ EndJob(j)
  /\ UNCHANGED <<householdVars, bookVars, viewing>>

--------------------------------------------------------------------------------
(* CloseDayForUser, CloseWeekForUser, CloseMonthForUser: the same catch-up  *)
(* in one transaction behind the revision of the team.                      *)

\* The periods the catch-up goes through.
Due(s) ==
  {p \in {Period(s, d) : d \in Day} : NextTarget(s) <= p /\ p <= LastOver(s, today)}

RowOf(m) == IF GetSummary(m) = NoRow THEN EmptyRow ELSE GetSummary(m)

\* A period of a closed month undoes the transaction.
ChargeDue(s) ==
  LET charged(m) == {p \in Due(s) : ChargedMonth(s, p) = m}
      sum(m) == SumOver([p \in charged(m) |-> Cost(Fresh(s, p))], charged(m))
  IN /\ \A p \in Due(s) : ~MonthClosed(ChargedMonth(s, p))
     /\ summary' = [m \in MonthStarts |->
                      IF charged(m) = {} THEN summary[m] ELSE Charge(s, RowOf(m), sum(m))]
     /\ dedupes' = dedupes \cup UNION {{<<s, p, t>> : t \in Fresh(s, p)} : p \in Due(s)}
     /\ Note(s, Due(s))
     /\ UNCHANGED triggered

\* A month that is closed already is left as it is.
CloseDue ==
  LET open == {m \in Due("month") : ~MonthClosed(m)}
      total(m) == RowOf(m).daily + RowOf(m).weekly
  IN /\ summary' = [m \in MonthStarts |->
                      IF m \in open THEN CloseMonthlyPenaltySummary(RowOf(m))
                                    ELSE summary[m]]
     /\ triggered' = [m \in MonthStarts |->
                        IF m \in open THEN Reached(total(m), NextMonth(m))
                                      ELSE triggered[m]]
     /\ Note("month", open)
     /\ UNCHANGED dedupes

\* Bound: not while a job of the command runs.
CloseForUser(s) ==
  /\ \A j \in Job : step[j] = "idle"
  /\ Pending(s)
  /\ MayClose(s)
  /\ runs' = runs \cup {<<s, p>> : p \in Due(s)}
  /\ IF s = "month" THEN CloseDue ELSE ChargeDue(s)
  /\ UNCHANGED <<householdVars, step, jobVars, viewing, failures>>

--------------------------------------------------------------------------------
(* GetTaskOverview and GetMonthlySummary: a GET that finds no summary of the *)
(* month it is about creates it, by the same two statements.                *)

ViewReads(v, m) ==
  /\ viewing[v] = Never
  /\ GetSummary(m) = NoRow
  /\ viewing' = [viewing EXCEPT ![v] = m]
  /\ UNCHANGED <<householdVars, bookVars, step, jobVars, failures>>

ViewUpserts(v) ==
  /\ viewing[v] # Never
  /\ Upsert(viewing[v])
  /\ viewing' = [viewing EXCEPT ![v] = Never]
  /\ UNCHANGED <<householdVars, runs, dedupes, triggered, tariff, step, jobVars, failures>>

--------------------------------------------------------------------------------
\* The next statement of job j.
Advance(j) ==
  \/ EnsureReads(j)
  \/ EnsureUpserts(j)
  \/ InsertRun(j)
  \/ SumPenalty(j)
  \/ Increment(j)
  \/ JudgeRules(j)
  \/ CloseSummary(j)
  \/ ClearTriggered(j)
  \/ AddTriggered(j)

View(v) == ViewUpserts(v) \/ \E m \in MonthStarts : m <= today /\ ViewReads(v, m)

Next ==
  \/ Member /\ UNCHANGED <<bookVars, step, jobVars, viewing, failures>>
  \/ \E j \in Job : Advance(j) \/ Fail(j)
  \/ \E j \in Job, s \in Scope : StartJob(j, s) \/ NothingToClose(j, s)
  \/ \E s \in Scope : CloseForUser(s)
  \/ \E v \in Viewer : View(v)

Spec == Init /\ [][Next]_vars

\* The scheduler starts each of the three jobs again and again, and a job that
\* has started goes on.
FairSpec ==
  /\ Spec
  /\ \A s \in Scope : WF_vars(\E j \in Job : StartJob(j, s))
  /\ \A j \in Job : WF_vars(Advance(j))

--------------------------------------------------------------------------------
(* What the closings owe the team, told by the life of the tasks alone      *)

LastDayOf(s, p) == IF s = "day" THEN p ELSE p + DaysPerWeek - 1

\* The days and the weeks that end in month m.
Evaluated == {"day", "week"}
PeriodsOfMonth ==
  [s \in Evaluated |->
     [m \in MonthStarts |->
        {p \in {Period(s, d) : d \in Day} : Month(LastDayOf(s, p)) = m}]]
PeriodsOf(s, m) == PeriodsOfMonth[s][m]

\* Task t existed when day d ended, and its work of the period was not done.
Existed(t, d) == born[t] \in 1..d /\ gone[t] \notin 1..d

\* The tariff of a period: the one at its evaluation, the present one before.
TariffOf(s, p) == IF <<s, p>> \in DOMAIN tariff THEN tariff[<<s, p>>] ELSE Tariff(s, p)

Neglected(s, p) ==
  {t \in Task : /\ Existed(t, LastDayOf(s, p))
                /\ IF s = "day"
                   THEN t \in DailyTask /\ <<t, p>> \notin done
                   ELSE t \in WeeklyTask /\ count[t][p] < TariffOf(s, p).required[t]}

Bill(s, p) == SumOver(TariffOf(s, p).points, Neglected(s, p))
Bills(s, periods) == SumOver([p \in periods |-> Bill(s, p)], periods)

\* A run was entered and no job is still evaluating it.
Settled(s, p) ==
  /\ <<s, p>> \in runs
  /\ \A j \in Job : step[j] \in {"sum", "increment"} => scope[j] # s \/ target[j] # p

Owed(s, m) == Bills(s, {p \in PeriodsOf(s, m) : Settled(s, p)})

\* What the runs of a month cost, settled or not.
Incurred(s, m) == Bills(s, {p \in PeriodsOf(s, m) : <<s, p>> \in runs})

Total(s, m) ==
  CASE summary[m] = NoRow -> 0
    [] summary[m] # NoRow /\ s = "day" -> summary[m].daily
    [] summary[m] # NoRow /\ s = "week" -> summary[m].weekly

--------------------------------------------------------------------------------
(* Properties                                                               *)

\* The totals of every month are what the settled days and weeks that end in
\* it cost, each counted once, by the tasks that existed when it ended
\* (README.md:72-73, store_closing.go:132-255).
TotalsExact ==
  \A s \in Evaluated, m \in MonthStarts : Total(s, m) = Owed(s, m)

\* Whatever fails or interleaves, no month is charged more than its settled and
\* unsettled runs cost: a period is never charged twice, nor to another month
\* (close_runs, task_evaluation_dedupes; README.md:76).
NeverOvercharged ==
  \A s \in Evaluated, m \in MonthStarts : Total(s, m) <= Incurred(s, m)

\* A month is closed only when all its days and weeks since the first task
\* have been settled: nothing is left that could still change its totals
\* (store_closing.go:257-321 after 132-255, in the order of README.md:69).
ClosedMonthsAreComplete ==
  \A m \in MonthStarts :
    MonthClosed(m) =>
      \A s \in Evaluated : \A p \in PeriodsOf(s, m) :
        p >= Period(s, Seed) => Settled(s, p)

\* Whatever fails or interleaves, no rule is recorded for a month that was not
\* in force on its last day or that its runs do not pay for
\* (store_closing.go:279-319).
NoUndueRules ==
  \A m \in MonthStarts : \A r \in triggered[m] :
    LET last == NextMonth(m) - 1
    IN /\ enacted[r] \in 1..last /\ repealed[r] \notin 1..last
       /\ Incurred("day", m) + Incurred("week", m) >= TariffOf("month", m).threshold[r]

\* Once the job that closed a month has left it, the rules recorded for the
\* month are those in force on its last day whose threshold the true cost of
\* the month reaches (store_closing.go:279-319).
TriggeredRulesAreDue ==
  \A m \in MonthStarts :
    LET last == NextMonth(m) - 1
        cost == Owed("day", m) + Owed("week", m)
    IN /\ MonthClosed(m)
       /\ \A j \in Job : step[j] \in {"clear", "trigger"} => target[j] # m
       => triggered[m] =
            {r \in Rule : /\ enacted[r] \in 1..last
                          /\ repealed[r] \notin 1..last
                          /\ cost >= TariffOf("month", m).threshold[r]}

\* The runs of a scope have no gap, also after failures and with jobs side by
\* side: the next catch-up starts behind the latest run and would never come
\* back to a period left out (store_closing.go:393-454).
RunsAreContiguous ==
  \A run \in runs :
    LET s == run[1]
    IN \A d \in Day :
         Period(s, Seed) <= Period(s, d) /\ Period(s, d) <= run[2]
           => <<s, Period(s, d)>> \in runs

\* The next day or week to close never belongs to a month already closed: it
\* would fail on every later run, and all later periods with it
\* (store_closing.go:144 and 207).
NothingIsBlocked ==
  \A s \in Evaluated, m \in MonthStarts :
    Pending(s) /\ NextTarget(s) \in PeriodsOf(s, m) => ~MonthClosed(m)

\* Every period that is over is closed in the end, from the first task on
\* (the catch-up of README.md:72).
CatchesUp ==
  \A s \in Scope :
    \A p \in {q \in {Period(s, d) : d \in Day} : NextPeriod(s, q) <= LastDay} :
      Seeded /\ Period(s, Seed) <= p /\ NextPeriod(s, p) <= today ~> <<s, p>> \in runs
================================================================================
