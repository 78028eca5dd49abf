-------------------------------- MODULE Overview --------------------------------
(***************************************************************************)
(* What GetTaskOverview and GetMonthlySummary (store_task_overview.go) show *)
(* of the state of Closing.  The pages work out for themselves, in Go and   *)
(* from lists of rows, what the closing works out in SQL: which task counts *)
(* in which period, and what it costs.                                      *)
(***************************************************************************)
EXTENDS Closing

--------------------------------------------------------------------------------
(* GetTaskOverview                                                          *)

\* ListUndeletedTasksByTeamID
UndeletedTasks == {t \in Task : Alive(t)}

\* ListTaskCompletionDailyByTeamAndDate, ListTaskCompletionWeeklyCountsByTeamAndWeek
DailyCompletions(d) == {t \in DailyTask : <<t, d>> \in done}
WeeklyCounts(w) == [t \in WeeklyTask |-> count[t][w]]

\* The tasks the page shows as not done today, or not often enough this week.
TaskOverview ==
  [day |-> (UndeletedTasks \cap DailyTask) \ DailyCompletions(today),
   week |-> {t \in UndeletedTasks \cap WeeklyTask :
               WeeklyCounts(WeekStart(today))[t] < required[t]}]

--------------------------------------------------------------------------------
(* GetMonthlySummary                                                        *)

\* ListTriggeredRuleIDsByMonth for a month that is closed; for another one the
\* rules its total reaches that are in force now or when it ended.  Within a
\* day, the rules in force now are those that exist.
TriggeredNow(m) ==
  LET total == RowOf(m).daily + RowOf(m).weekly
  IN IF today < NextMonth(m)
     THEN {r \in Rule : Undeleted(r) /\ total >= threshold[r]}
     ELSE Reached(total, NextMonth(m))

TriggeredRules(m) == IF RowOf(m).closed THEN triggered[m] ELSE TriggeredNow(m)

MonthlySummary(m) ==
  [daily |-> RowOf(m).daily, weekly |-> RowOf(m).weekly,
   closed |-> RowOf(m).closed, rules |-> TriggeredRules(m)]

\* ListTasksForMonthlyStatusByTeam
TasksOfMonth(m) ==
  {t \in Task : /\ born[t] # Never /\ born[t] < NextMonth(m)
                /\ gone[t] = Never \/ gone[t] >= m}

\* Mutant: a week is shown on its first day, if that is in the month.
ShownOnFirstDay(w, m) == w

\* A week is shown on its first day in the month its last day belongs to.
AnchorOfWeek(w, m) == Max({w, m})

\* Bound: the weeks of the model.
WeeksShownOn(d, m) ==
  {w \in Week :
     ChargedMonth("week", w) = m /\ AnchorOfWeek(w, m) = d}

ShownFor(t, after) ==
  born[t] < after /\ (gone[t] = Never \/ gone[t] >= after)

\* buildMonthlyTaskStatusByDate: the items of day d of month m.
StatusOn(d, m) ==
  {[scope |-> "day", period |-> d, task |-> t, completed |-> t \in DailyCompletions(d)] :
     t \in {u \in TasksOfMonth(m) \cap DailyTask : ShownFor(u, d + 1)}}
  \cup
  UNION {{[scope |-> "week", period |-> w, task |-> t,
           completed |-> WeeklyCounts(w)[t] >= required[t]] :
             t \in {u \in TasksOfMonth(m) \cap WeeklyTask : ShownFor(u, w + DaysPerWeek)}} :
           w \in WeeksShownOn(d, m)}

TaskStatus(m) == UNION {StatusOn(d, m) : d \in m..(NextMonth(m) - 1)}

--------------------------------------------------------------------------------
(* Properties                                                               *)

\* The status of a month explains its totals: as long as no task is edited, the
\* points of the items shown as not completed, of the days and weeks that were
\* settled, add up to the totals shown above them
\* (store_task_overview.go:192-362 against task_evaluation_dedupes.sql:8-63).
StatusExplainsTotals ==
  edits = 0 =>
    \A m \in {n \in MonthStarts : n <= today} :
      LET open == {i \in TaskStatus(m) : ~i.completed}
      IN \A s \in Evaluated :
           LET due == {i \in open : i.scope = s /\ Settled(s, i.period)}
           IN Total(s, m) = SumOver([i \in due |-> points[i.task]], due)

\* What the overview shows as not done when a day or a week ends is what the
\* closing will count as missed, whatever the members do before it runs, unless
\* they change the number a task requires (store_task_overview.go:39-98,
\* store_tasks.go:236-246).
DebtsAreSealed ==
  [][\A s \in Evaluated :
       /\ Period(s, today) # Period(s, today')
            => \A p \in {Period(s, today)} : Missed(s, p)' = TaskOverview[s]
       /\ required' = required
            => \A p \in {Period(s, d) : d \in 1..LastOver(s, today)} :
                 Missed(s, p)' = Missed(s, p)]_<<today, taskVars>>

\* The summary of a closed month stands: no edit of a task or a rule, no new
\* rule and no later closing changes what is shown of it, once the job that
\* closed it has recorded its rules (store_task_overview.go:133-165).
ClosedMonthsStand ==
  [][\A m \in MonthStarts :
       /\ MonthClosed(m)
       /\ \A j \in Job : step[j] \in {"clear", "trigger"} => target[j] # m
       => MonthlySummary(m)' = MonthlySummary(m)]_vars
================================================================================
