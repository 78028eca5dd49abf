---------------------------------- MODULE Teams ----------------------------------
(***************************************************************************)
(* What membership promises, apart from its statements: users move from    *)
(* team to team one at a time.  An owner who moves hands his team over, or *)
(* it goes with him when nobody else is in it, and who moves to a team that*)
(* does not exist founds it.  Membership implements this as long as its    *)
(* requests do not race.                                                   *)
(***************************************************************************)
CONSTANTS User, Team, Home

VARIABLES
  team,   \* team[u]: the team of u
  owner,  \* the users who own theirs
  exists  \* the teams there are

Init ==
  /\ team = Home
  /\ owner = User
  /\ exists = {Home[u] : u \in User}

\* The others in the team of u.
Others(u) == {v \in User \ {u} : team[v] = team[u]}

\* Who may own the team of u when u is gone: nobody new unless u owned it.
Heirs(u) ==
  IF u \in owner /\ Others(u) # {} THEN {{v} : v \in Others(u)} ELSE {{}}

Move(u, t) ==
  /\ t # team[u]
  /\ team' = [team EXCEPT ![u] = t]
  /\ exists' = (exists \ (IF Others(u) = {} THEN {team[u]} ELSE {})) \cup {t}
  /\ \E heirs \in Heirs(u) :
       owner' = (owner \ {u}) \cup heirs \cup (IF t \in exists THEN {} ELSE {u})

Next == \E u \in User, t \in Team : Move(u, t)

Spec == Init /\ [][Next]_<<team, owner, exists>>
================================================================================
