------------------------------ MODULE TeamHistory ------------------------------
(***************************************************************************)
(* What the revision protocol of store_sync.go promises its callers: the   *)
(* state of a team is a sequence of revisions, and every mutation is one   *)
(* indivisible read-modify-write of one item that makes the next revision. *)
(* TeamRevision, which has the transactions, row locks and failures, is    *)
(* checked and proved to implement this module.                            *)
(***************************************************************************)
EXTENDS Naturals

CONSTANTS
  Team,   \* the teams
  Item    \* the rows of a team that guarded mutations rewrite

VARIABLES
  rev,    \* rev[t]: teams.state_revision of t
  data    \* data[t][i]: how many mutations the value of item i contains

vars == <<rev, data>>

Init ==
  /\ rev = [t \in Team |-> 0]
  /\ data = [t \in Team |-> [i \in Item |-> 0]]

\* One guarded mutation: it contains every mutation before it, and it is
\* the only one of its revision.
Mutate(t, i) ==
  /\ data' = [data EXCEPT ![t][i] = @ + 1]
  /\ rev' = [rev EXCEPT ![t] = @ + 1]

\* A revision that announces a change of membership made outside the
\* protocol (joining or leaving a team).
Advance(t) ==
  /\ rev' = [rev EXCEPT ![t] = @ + 1]
  /\ UNCHANGED data

Next == \E t \in Team : Advance(t) \/ \E i \in Item : Mutate(t, i)

Spec == Init /\ [][Next]_vars
================================================================================
