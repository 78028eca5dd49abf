------------------------------- MODULE MCTeamSync -------------------------------
EXTENDS TeamSync

\* Two members' pages of data are enough to tell a full refresh from the
\* refresh of one entity; with the summary they also overlap.
MCEntity == {"task", "penalty_rule"}
MCQuery == {"home", "rules"}
================================================================================
