------------------------------- MODULE MCClosing -------------------------------
(***************************************************************************)
(* Instances of Closing for TLC: weeks of two days and months that begin   *)
(* on days 1, 2 and 4: the first two weeks both straddle two months.       *)
(***************************************************************************)
EXTENDS Overview, TLC

CONSTANTS daily, weekly, low, high

MCMonthStarts == {1, 2, 4, 9}
MCDailyTask == {daily}
MCWeeklyTask == {weekly}
MCPoints == daily :> {1} @@ weekly :> {2}
MCRequired == weekly :> {1}

\* Instances without tasks of a type, or without rules.
NoTask == {}
NoRule == {}
NoChoice == <<>>

\* An instance with weekly tasks only, whose month ends with a week.
WeeklyMonthStarts == {1, 3, 8}
WeeklyPoints == weekly :> {2}
WeeklyThreshold == low :> {2}

\* The same, edited.
EditedPoints == weekly :> {1, 2}
EditedRequired == weekly :> {1, 2}
EditedThreshold == low :> {1, 2}

JobSymmetry == Permutations(Job)
================================================================================
