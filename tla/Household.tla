------------------------------- MODULE Household -------------------------------
(***************************************************************************)
(* What the members of one team do by day: tasks with their points, the    *)
(* completions of daily and weekly tasks, and the penalty rules            *)
(* (store_tasks.go, store_penalty.go).  Every operation runs in one        *)
(* transaction behind the revision of the team (TeamRevision), hence is    *)
(* one step here.                                                          *)
(***************************************************************************)
EXTENDS Calendar

CONSTANTS
  DailyTask, WeeklyTask,  \* tasks by type
  PointChoice,            \* PointChoice[t]: values of penalty_points to ask for
  RequiredChoice,         \* RequiredChoice[t]: of required_completions_per_week
  Rule,                   \* penalty rules
  ThresholdChoice,        \* ThresholdChoice[r]: thresholds to ask for
  MaxEdits                \* bound: edits of tasks, edits and deletions of rules

Task == DailyTask \cup WeeklyTask
Day == 1..LastDay
Week == {WeekStart(d) : d \in Day}
Never == 0

\* requiredCompletionsPerWeekMin and -Max
RequiredMin == 1
RequiredMax == 7

ASSUME HouseholdAssumption ==
  /\ DailyTask \cap WeeklyTask = {}
  /\ IsFiniteSet(Task) /\ IsFiniteSet(Rule)
  /\ PointChoice \in [Task -> SUBSET Nat]
  /\ RequiredChoice \in [WeeklyTask -> SUBSET (RequiredMin..RequiredMax)]
  /\ ThresholdChoice \in [Rule -> SUBSET Nat]
  /\ MaxEdits \in Nat

VARIABLES
  today,      \* the current day
  born, gone, \* days of tasks.created_at and tasks.deleted_at, or Never
  points,     \* points[t]: tasks.penalty_points
  required,   \* required[t]: tasks.required_completions_per_week
  done,       \* task_completion_daily: <<task, day>>
  count,      \* count[t][w]: rows of task_completion_weekly_entries
  enacted,    \* enacted[r], repealed[r]: the days of penalty_rules.created_at
  repealed,   \*   and deleted_at, or Never
  threshold,  \* threshold[r]: penalty_rules.threshold
  edits       \* history: how many such edits there have been

taskVars == <<born, gone, points, required, done, count>>
ruleVars == <<enacted, repealed, threshold>>
householdVars == <<today, taskVars, ruleVars, edits>>

HouseholdTypeOK ==
  /\ today \in Day
  /\ born \in [Task -> Day \cup {Never}]
  /\ gone \in [Task -> Day \cup {Never}]
  /\ points \in [Task -> Nat]
  /\ required \in [WeeklyTask -> RequiredMin..RequiredMax]
  /\ done \subseteq DailyTask \X Day
  /\ count \in [WeeklyTask -> [Week -> 0..RequiredMax]]
  /\ enacted \in [Rule -> Day \cup {Never}]
  /\ repealed \in [Rule -> Day \cup {Never}]
  /\ threshold \in [Rule -> Nat]
  /\ edits \in 0..MaxEdits

HouseholdInit ==
  /\ today = 1
  /\ born = [t \in Task |-> Never]
  /\ gone = [t \in Task |-> Never]
  /\ points = [t \in Task |-> 0]
  /\ required = [t \in WeeklyTask |-> RequiredMin]
  /\ done = {}
  /\ count = [t \in WeeklyTask |-> [w \in Week |-> 0]]
  /\ enacted = [r \in Rule |-> Never]
  /\ repealed = [r \in Rule |-> Never]
  /\ threshold = [r \in Rule |-> 0]
  /\ edits = 0

NextDay ==
  /\ today < LastDay
  /\ today' = today + 1
  /\ UNCHANGED <<taskVars, ruleVars, edits>>

Edit == edits < MaxEdits /\ edits' = edits + 1

--------------------------------------------------------------------------------
(* Tasks                                                                    *)

\* GetTaskByID finds the task, and it is not deleted.
Alive(t) == born[t] # Never /\ gone[t] = Never

\* UpdateTask of sqlc: the columns the closing looks at.  Only weekly tasks
\* have a number of completions.
WriteTask(t, n, k) ==
  /\ points' = [points EXCEPT ![t] = n]
  /\ IF t \in WeeklyTask THEN required' = [required EXCEPT ![t] = k]
                         ELSE UNCHANGED required

\* CreateTask and DeleteTask of sqlc.
InsertTask(t) == born' = [born EXCEPT ![t] = today]
MarkDeleted(t) == gone' = [gone EXCEPT ![t] = today]

\* normalizeRequiredCompletionsPerWeek
RequiredOf(t) == IF t \in WeeklyTask THEN RequiredChoice[t] ELSE {RequiredMin}

CreateTask(t) ==
  /\ born[t] = Never
  /\ InsertTask(t)
  /\ \E n \in PointChoice[t], k \in RequiredOf(t) : WriteTask(t, n, k)
  /\ UNCHANGED <<today, gone, done, count, ruleVars, edits>>

PatchTask(t) ==
  /\ Alive(t)
  /\ \E n \in PointChoice[t], k \in RequiredOf(t) : WriteTask(t, n, k)
  /\ <<points', required'>> # <<points, required>>
  /\ Edit
  /\ UNCHANGED <<today, born, gone, done, count, ruleVars>>

\* Task rows are never removed, only marked.
DeleteTask(t) ==
  /\ Alive(t)
  /\ MarkDeleted(t)
  /\ UNCHANGED <<today, born, points, required, done, count, ruleVars, edits>>

--------------------------------------------------------------------------------
(* ToggleTaskCompletion                                                     *)

CreateTaskCompletionDaily(t) == done' = done \cup {<<t, today>>}
DeleteTaskCompletionDaily(t) == done' = done \ {<<t, today>>}
HasTaskCompletionDaily(t) == <<t, today>> \in done

\* Mutant: also days that are over can be toggled.
ToggleDailyOfAnyDay(t) ==
  /\ Alive(t)
  /\ \E d \in 1..today : done' = IF <<t, d>> \in done THEN done \ {<<t, d>>}
                                                     ELSE done \cup {<<t, d>>}
  /\ UNCHANGED <<today, born, gone, points, required, count, ruleVars, edits>>

\* Daily tasks are toggled for today only.
ToggleDaily(t) ==
  /\ Alive(t)
  /\ IF HasTaskCompletionDaily(t) THEN DeleteTaskCompletionDaily(t)
                                  ELSE CreateTaskCompletionDaily(t)
  /\ UNCHANGED <<today, born, gone, points, required, count, ruleVars, edits>>

\* The entries of this week.
WeeklyEntries(t) == count[t][WeekStart(today)]

InsertWeeklyEntry(t) == count' = [count EXCEPT ![t][WeekStart(today)] = @ + 1]
DeleteLatestWeeklyEntry(t) == count' = [count EXCEPT ![t][WeekStart(today)] = @ - 1]

\* Mutant: the toggle of a task required once never takes back.
ToggleCountsOn(t) == InsertWeeklyEntry(t)

\* A task required once is toggled, whatever it was required before.
ToggleWeekly(t) ==
  IF WeeklyEntries(t) > 0 THEN DeleteLatestWeeklyEntry(t) ELSE InsertWeeklyEntry(t)

\* Any other weekly task is counted up to the number required, and down to 0.
CountUp(t) == WeeklyEntries(t) < required[t] /\ InsertWeeklyEntry(t)
CountDown(t) == WeeklyEntries(t) > 0 /\ DeleteLatestWeeklyEntry(t)

CompleteWeekly(t) ==
  /\ Alive(t)
  /\ IF required[t] = RequiredMin THEN ToggleWeekly(t) ELSE CountUp(t) \/ CountDown(t)
  /\ UNCHANGED <<today, born, gone, points, required, done, ruleVars, edits>>

--------------------------------------------------------------------------------
(* Penalty rules                                                            *)

\* GetUndeletedPenaltyRuleByID finds the rule.
Undeleted(r) == enacted[r] # Never /\ repealed[r] = Never

\* The unique index on (team_id, threshold) of the rules that are not deleted.
ThresholdFree(r, n) == \A q \in Rule \ {r} : Undeleted(q) => threshold[q] # n

\* CreatePenaltyRule, UpdatePenaltyRule and SoftDeletePenaltyRule of sqlc.
UpdatePenaltyRule(r, n) == threshold' = [threshold EXCEPT ![r] = n]
InsertPenaltyRule(r, n) ==
  enacted' = [enacted EXCEPT ![r] = today] /\ UpdatePenaltyRule(r, n)
SoftDeletePenaltyRule(r) == repealed' = [repealed EXCEPT ![r] = today]

CreatePenaltyRule(r) ==
  /\ enacted[r] = Never
  /\ \E n \in ThresholdChoice[r] : ThresholdFree(r, n) /\ InsertPenaltyRule(r, n)
  /\ UNCHANGED <<today, taskVars, repealed, edits>>

PatchPenaltyRule(r) ==
  /\ Undeleted(r)
  /\ \E n \in ThresholdChoice[r] \ {threshold[r]} :
       ThresholdFree(r, n) /\ UpdatePenaltyRule(r, n)
  /\ Edit
  /\ UNCHANGED <<today, taskVars, enacted, repealed>>

DeletePenaltyRule(r) ==
  /\ Undeleted(r)
  /\ SoftDeletePenaltyRule(r)
  /\ Edit
  /\ UNCHANGED <<today, taskVars, enacted, threshold>>

\* Mutant: only rules that still exist are in force.
InForceNow(r, asOf) == enacted[r] # Never /\ enacted[r] < asOf /\ repealed[r] = Never

\* ListPenaltyRulesEffectiveAtByTeamID: the rules in force when day asOf begins
\* (created_at < as_of <= deleted_at).
InForce(r, asOf) ==
  enacted[r] # Never /\ enacted[r] < asOf /\ (repealed[r] = Never \/ repealed[r] >= asOf)

Member ==
  \/ NextDay
  \/ \E t \in Task : CreateTask(t) \/ PatchTask(t) \/ DeleteTask(t)
  \/ \E t \in DailyTask : ToggleDaily(t)
  \/ \E t \in WeeklyTask : CompleteWeekly(t)
  \/ \E r \in Rule : CreatePenaltyRule(r) \/ PatchPenaltyRule(r) \/ DeletePenaltyRule(r)
================================================================================
