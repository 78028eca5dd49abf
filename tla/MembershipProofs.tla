---------------------------- MODULE MembershipProofs ----------------------------
(***************************************************************************)
(* Proofs about Membership, for any users, teams, tasks and requests.      *)
(***************************************************************************)
EXTENDS Membership, FiniteSetTheorems, TLAPS

\* What every request holds at its stages, disturbed or not.
StageInv ==
  \A h \in Handler :
    /\ pc[h] # "idle" => user[h] \in User
    /\ pc[h] = "idle" => dest[h] = NoTeam
    /\ pc[h] \in {"idle", "asked", "known"} => heir[h] = Nobody /\ ~drops[h]
    /\ pc[h] = "added" => dest[h] \in Team

TypeInv == TypeOK /\ StageInv

\* A request that has read a membership and has not been disturbed since knows
\* the present one, and whether the user leaves others behind.
Knowing == {"known", "chosen", "detached", "removed", "added"}

KnowsPresent(h) ==
  /\ from[h] = team[user[h]] /\ dest[h] # from[h]
  /\ wasOwner[h] = (user[h] \in owner)
  /\ heir[h] # Nobody =>
       user[h] \in owner /\ heir[h] # user[h] /\ team[heir[h]] = from[h]
  /\ drops[h] => user[h] \in owner /\ OtherMembers(from[h], user[h]) = {}
  /\ pc[h] # "known" /\ user[h] \in owner /\ heir[h] = Nobody =>
       OtherMembers(from[h], user[h]) = {}
  /\ pc[h] \notin {"known", "chosen"} /\ user[h] \in owner =>
       drops[h] \/ heir[h] # Nobody
  /\ pc[h] = "chosen" => user[h] \in owner

KnowInv == \A h \in Handler \ disturbed : pc[h] \in Knowing => KnowsPresent(h)

\* Every team has exactly one owner.
OwnerOf(t, u) == team[u] = t /\ u \in owner
OneOwner ==
  \A t \in exists : \E u \in User : OwnerOf(t, u) /\ \A v \in User : OwnerOf(t, v) => v = u

IInv == TypeInv /\ (~raced => OneOwner /\ NobodyIsHomeless /\ KnowInv)

--------------------------------------------------------------------------------
LEMMA InitType == Init => TypeInv
<1> SUFFICES ASSUME Init PROVE TypeInv
  OBVIOUS
<1>1. team \in [User -> Team \cup {NoTeam}] /\ owner \subseteq User /\ exists \subseteq Team
  BY MembershipAssumption DEF Init
<1>2. TypeOK
  BY <1>1 DEF Init, TypeOK, Stages
<1>3. StageInv
  BY DEF Init, StageInv
<1> QED
  BY <1>2, <1>3 DEF TypeInv

\* A request that is over holds nothing.
LEMMA ResetType ==
  ASSUME TypeInv, NEW h \in Handler, Reset(h)
  PROVE  /\ pc' \in [Handler -> Stages] /\ user' \in [Handler -> User \cup {Nobody}]
         /\ dest' \in [Handler -> Team \cup {NoTeam}]
         /\ from' \in [Handler -> Team \cup {NoTeam}]
         /\ wasOwner' \in [Handler -> BOOLEAN]
         /\ heir' \in [Handler -> User \cup {Nobody}]
         /\ drops' \in [Handler -> BOOLEAN]
         /\ cleared' \in [Handler -> SUBSET Task]
         /\ late' \subseteq Handler
         /\ StageInv'
  BY DEF Reset, Forget, Goto, TypeInv, TypeOK, StageInv, Stages

LEMMA CommitType == ASSUME TypeInv, NEW h \in Handler, Commit(h) PROVE TypeInv'
<1>1. Reset(h) /\ UNCHANGED deleted
  BY DEF Commit
<1>2. dest[h] \in Team /\ user[h] \in User
  BY DEF Commit, TypeInv, StageInv
<1>3. team' \in [User -> Team \cup {NoTeam}]
  BY <1>2 DEF Commit, TeamLeft, TypeInv, TypeOK
<1>4. owner' \subseteq User /\ exists' \subseteq Team /\ invited' \subseteq Team
  BY <1>2 DEF Commit, TypeInv, TypeOK
<1>5. assignee' \in [Task -> User \cup {Nobody}]
  BY DEF Commit, TypeInv, TypeOK
<1>6. disturbed' \subseteq Handler /\ raced' \in BOOLEAN
  BY DEF Commit, TypeInv, TypeOK
<1> QED
  BY <1>1, <1>3, <1>4, <1>5, <1>6, ResetType DEF TypeInv, TypeOK

\* The types, and what requests hold.
LEMMA TypeStep == TypeInv /\ [Next]_vars => TypeInv'
<1> SUFFICES ASSUME TypeInv, [Next]_vars PROVE TypeInv'
  OBVIOUS
<1> USE DEF TypeInv
<1>1. ASSUME NEW u \in User, CreateInvite(u) PROVE TypeInv'
  BY <1>1 DEF CreateInvite, ReplaceInviteCode, TypeOK, StageInv, taskVars, reqVars, history
<1>2. ASSUME NEW t \in Team, ExpireInvite(t) PROVE TypeInv'
  BY <1>2 DEF ExpireInvite, TypeOK, StageInv, taskVars, reqVars, history
<1>3. ASSUME NEW k \in Task, Unassign(k) \/ DeleteTask(k) PROVE TypeInv'
  BY <1>3 DEF Unassign, DeleteTask, TypeOK, StageInv, teamVars, reqVars, history
<1>4. ASSUME NEW k \in Task, NEW v \in User, Assign(k, v) PROVE TypeInv'
  BY <1>4 DEF Assign, TypeOK, StageInv, teamVars, reqVars
<1>5. ASSUME NEW h \in Handler, NEW u \in User, AskToLeave(h, u) PROVE TypeInv'
  BY <1>5 DEF AskToLeave, Knows, MembershipOf, Goto, TypeOK, StageInv, Stages,
              dbVars, teamVars, taskVars, history
<1>6. ASSUME NEW h \in Handler, NEW u \in User, NEW t \in Team, ReadInvite(h, u, t)
      PROVE  TypeInv'
  BY <1>6 DEF ReadInvite, Goto, TypeOK, StageInv, Stages, dbVars, teamVars, taskVars,
              history
<1>7. ASSUME NEW h \in Handler, ReadMembership(h) PROVE TypeInv'
  BY <1>7 DEF ReadMembership, Knows, MembershipOf, Goto, TypeOK, StageInv, Stages,
              dbVars, teamVars, taskVars, history
<1>8. ASSUME NEW h \in Handler, ChooseHeir(h) PROVE TypeInv'
  BY <1>8 DEF ChooseHeir, OtherMembers, Members, AssignedTasks, Goto, TypeOK,
              StageInv, Stages, dbVars, teamVars, taskVars, history
<1>9. ASSUME NEW h \in Handler, PromoteHeir(h) \/ DropTeam(h) PROVE TypeInv'
  BY <1>9 DEF PromoteHeir, DropTeam, Goto, TypeOK, StageInv, Stages, dbVars, teamVars,
              taskVars, history
<1>10. ASSUME NEW h \in Handler, DeleteMember(h) PROVE TypeInv'
  BY <1>10 DEF DeleteMember, Goto, TypeOK, StageInv, Stages, dbVars, teamVars,
               taskVars, reqVars
<1>11. ASSUME NEW h \in Handler, Refuse(h) PROVE TypeInv'
  BY <1>11 DEF Refuse, Forget, Goto, TypeOK, StageInv, Stages, dbVars, teamVars, taskVars
<1>12. ASSUME NEW h \in Handler, AddMember(h) PROVE TypeInv'
  BY <1>12 DEF AddMember, Goto, TypeOK, StageInv, Stages, dbVars, teamVars, taskVars,
               reqVars, history
<1>13. ASSUME NEW h \in Handler, NEW t \in Team, AddOwnTeam(h, t) PROVE TypeInv'
  BY <1>13 DEF AddOwnTeam, Goto, TypeOK, StageInv, Stages, dbVars, teamVars, taskVars,
               history
<1>14. ASSUME NEW h \in Handler, Commit(h) PROVE TypeInv'
  BY <1>14, CommitType
<1>15. ASSUME NEW h \in Handler, GiveUp(h) PROVE TypeInv'
  <2>1. disturbed' \subseteq Handler /\ UNCHANGED <<dbVars, raced>>
    BY <1>15 DEF GiveUp, TypeOK
  <2> QED
    BY <1>15, <2>1, ResetType DEF GiveUp, TypeOK, dbVars, teamVars, taskVars
<1>16. CASE UNCHANGED vars
  BY <1>16 DEF TypeOK, StageInv, vars, dbVars, teamVars, taskVars, reqVars, history
<1> QED
  BY <1>1, <1>2, <1>3, <1>4, <1>5, <1>6, <1>7, <1>8, <1>9, <1>10, <1>11, <1>12, <1>13,
     <1>14, <1>15, <1>16 DEF Next, Ask, Step

\* Every variable keeps its type (the database of store_user_team.go).
THEOREM TypeCorrect == Spec => []TypeOK
<1>1. TypeInv => TypeOK
  BY DEF TypeInv
<1> QED
  BY <1>1, InitType, TypeStep, PTL DEF Spec

--------------------------------------------------------------------------------
\* A move made at a stroke leaves every user in a team and one owner in every team.
LEMMA MoveKeepsOwners ==
  ASSUME TypeOK, OneOwner, NobodyIsHomeless,
         NEW u \in User, NEW t \in Team, AllTeams!Move(u, t)
  PROVE  OneOwner' /\ NobodyIsHomeless'
<1> USE DEF AllTeams!Move
<1> DEFINE old == team[u]
           others == AllTeams!Others(u)
<1>1. team' = [team EXCEPT ![u] = t] /\ t # old
  OBVIOUS
<1>2. exists' = (exists \ (IF others = {} THEN {old} ELSE {})) \cup {t}
  OBVIOUS
<1>3. PICK heirs \in AllTeams!Heirs(u) :
        owner' = (owner \ {u}) \cup heirs \cup (IF t \in exists THEN {} ELSE {u})
  OBVIOUS
<1>4. others = {v \in User \ {u} : team[v] = old} /\ old \in exists
  BY DEF AllTeams!Others, NobodyIsHomeless
<1>5. NobodyIsHomeless'
  BY <1>1, <1>2, <1>4 DEF NobodyIsHomeless, TypeOK
<1>6. heirs = {} \/ \E v \in others : heirs = {v}
  BY <1>3 DEF AllTeams!Heirs
<1>7. heirs = {} => u \notin owner \/ others = {}
  BY <1>3 DEF AllTeams!Heirs
<1>8. heirs # {} => u \in owner
  BY <1>3 DEF AllTeams!Heirs
<1>9. ASSUME NEW s \in exists'
      PROVE  \E v \in User : OwnerOf(s, v)' /\ \A w \in User : OwnerOf(s, w)' => w = v
  <2>1. CASE s \notin exists
    <3>1. s = t /\ \A w \in User : team[w] # s
      BY <1>2, <2>1 DEF NobodyIsHomeless
    <3>2. OwnerOf(s, u)'
      BY <1>1, <1>3, <2>1, <3>1 DEF OwnerOf, TypeOK
    <3>3. \A w \in User : OwnerOf(s, w)' => w = u
      BY <1>1, <3>1 DEF OwnerOf, TypeOK
    <3> QED
      BY <3>2, <3>3
  <2>2. CASE s \in exists /\ s # old
    <3>1. PICK v \in User : OwnerOf(s, v) /\ \A w \in User : OwnerOf(s, w) => w = v
      BY <2>2 DEF OneOwner
    <3>2. OwnerOf(s, v)'
      BY <1>1, <1>3, <2>2, <3>1 DEF OwnerOf, TypeOK
    <3>3. ASSUME NEW w \in User, OwnerOf(s, w)' PROVE w = v
      <4>1. CASE w = u
        <5>1. s = t
          BY <1>1, <3>3, <4>1 DEF OwnerOf, TypeOK
        <5>2. u \notin heirs
          BY <1>4, <1>6
        <5> QED
          BY <1>3, <2>2, <3>3, <4>1, <5>1, <5>2 DEF OwnerOf
      <4>2. CASE w # u
        <5>1. team[w] = s /\ w \notin heirs
          BY <1>1, <1>4, <1>6, <2>2, <3>3, <4>2 DEF OwnerOf, TypeOK
        <5> QED
          BY <1>3, <3>1, <3>3, <4>2, <5>1 DEF OwnerOf
      <4> QED
        BY <4>1, <4>2
    <3> QED
      BY <3>2, <3>3
  <2>3. CASE s = old
    <3>1. others # {}
      BY <1>1, <1>2, <2>3
    <3>2. PICK v \in User : OwnerOf(s, v) /\ \A w \in User : OwnerOf(s, w) => w = v
      BY <1>4, <2>3 DEF OneOwner
    <3>3. CASE u \in owner
      <4>1. PICK x \in others : heirs = {x}
        BY <1>6, <1>7, <3>1, <3>3
      <4>2. x \in User /\ x # u /\ team[x] = s /\ v = u
        BY <1>4, <2>3, <3>2, <3>3, <4>1 DEF OwnerOf
      <4>3. OwnerOf(s, x)'
        BY <1>1, <1>3, <4>1, <4>2 DEF OwnerOf, TypeOK
      <4>4. \A w \in User : OwnerOf(s, w)' => w = x
        BY <1>1, <1>3, <2>3, <3>2, <4>1, <4>2 DEF OwnerOf, TypeOK
      <4> QED
        BY <4>2, <4>3, <4>4
    <3>4. CASE u \notin owner
      <4>1. heirs = {} /\ v # u
        BY <1>8, <3>2, <3>4 DEF OwnerOf
      <4>2. OwnerOf(s, v)'
        BY <1>1, <1>3, <3>2, <4>1 DEF OwnerOf, TypeOK
      <4>3. \A w \in User : OwnerOf(s, w)' => w = v
        BY <1>1, <1>3, <2>3, <3>2, <4>1 DEF OwnerOf, TypeOK
      <4> QED
        BY <4>2, <4>3
    <3> QED
      BY <3>3, <3>4
  <2> QED
    BY <2>1, <2>2, <2>3
<1> QED
  BY <1>5, <1>9 DEF OneOwner

\* What a request that has not been disturbed commits is a move at a stroke.
LEMMA CommitMoves ==
  ASSUME TypeInv, OneOwner, NobodyIsHomeless, KnowInv,
         NEW h \in Handler \ disturbed, Commit(h)
  PROVE  user[h] \in User /\ dest[h] \in Team /\ AllTeams!Move(user[h], dest[h])
<1> DEFINE u == user[h]
           t == dest[h]
           others == AllTeams!Others(u)
<1>1. u \in User /\ t \in Team /\ pc[h] = "added"
  BY DEF Commit, TypeInv, StageInv
<1>2. KnowsPresent(h)
  BY <1>1 DEF KnowInv, Knowing
<1>3. team[u] \in exists /\ team[u] # NoTeam /\ t # NoTeam
  BY <1>1, MembershipAssumption DEF NobodyIsHomeless, TypeInv, TypeOK
<1>4. others = OtherMembers(from[h], u)
  BY <1>2 DEF KnowsPresent, AllTeams!Others, OtherMembers, Members
<1>5. \A v \in User \ {u} : TeamLeft(h, v) = team[v]
  BY <1>2 DEF KnowsPresent, TeamLeft, OtherMembers, Members
<1>6. TeamLeft(h, u) = NoTeam
  BY <1>2 DEF KnowsPresent, TeamLeft
<1>7. team' = [team EXCEPT ![u] = t]
  <2>1. team' = [v \in User |-> IF v = u THEN t ELSE TeamLeft(h, v)]
    BY DEF Commit
  <2>2. \A v \in User : team'[v] = IF v = u THEN t ELSE team[v]
    BY <1>5, <2>1
  <2> QED
    BY <2>1, <2>2 DEF TypeInv, TypeOK
<1>8. u \in owner \/ others # {}
  <2>1. PICK v \in User : OwnerOf(team[u], v)
    BY <1>3 DEF OneOwner
  <2> QED
    BY <1>1, <2>1 DEF OwnerOf, AllTeams!Others
<1>9. drops[h] <=> others = {}
  <2>1. heir[h] # Nobody => heir[h] \in others
    BY <1>2, <1>4 DEF KnowsPresent, OtherMembers, Members, TypeInv, TypeOK
  <2> QED
    BY <1>1, <1>2, <1>4, <1>8, <2>1 DEF KnowsPresent
<1>10. exists' = (exists \ (IF others = {} THEN {team[u]} ELSE {})) \cup {t}
  <2>1. exists' = (exists \ (IF drops[h] THEN {from[h]} ELSE {})) \cup {t}
    BY DEF Commit
  <2> QED
    BY <1>2, <1>9, <2>1 DEF KnowsPresent
<1> DEFINE heirs == IF heir[h] = Nobody THEN {} ELSE {heir[h]}
<1>11. heirs \in AllTeams!Heirs(u)
  <2>1. CASE heir[h] = Nobody
    <3>1. u \notin owner \/ others = {}
      BY <1>1, <1>2, <1>4, <2>1 DEF KnowsPresent
    <3> QED
      BY <2>1, <3>1 DEF AllTeams!Heirs
  <2>2. CASE heir[h] # Nobody
    <3>1. u \in owner /\ heir[h] \in others
      BY <1>2, <1>4, <2>2 DEF KnowsPresent, OtherMembers, Members, TypeInv, TypeOK
    <3> QED
      BY <2>2, <3>1 DEF AllTeams!Heirs
  <2> QED
    BY <2>1, <2>2
<1>12. owner' = (owner \ {u}) \cup heirs \cup (IF t \in exists THEN {} ELSE {u})
  <2>1. owner' = {v \in User :
                    IF v = u THEN t \notin exists \/ (TeamLeft(h, u) = t /\ u \in owner)
                    ELSE (v \in owner \/ v = heir[h]) /\ TeamLeft(h, v) # NoTeam}
    BY DEF Commit
  <2>2. \A v \in User \ {u} : TeamLeft(h, v) # NoTeam
    BY <1>5, MembershipAssumption DEF NobodyIsHomeless, TypeInv, TypeOK
  <2>3. heirs \subseteq User \ {u}
    BY <1>2, MembershipAssumption DEF KnowsPresent, TypeInv, TypeOK
  <2>4. \A v \in User \ {u} : v = heir[h] <=> v \in heirs
    BY MembershipAssumption
  <2> QED
    BY <1>1, <1>3, <1>6, <2>1, <2>2, <2>3, <2>4 DEF TypeInv, TypeOK
<1> QED
  BY <1>1, <1>2, <1>7, <1>10, <1>11, <1>12 DEF AllTeams!Move, KnowsPresent

--------------------------------------------------------------------------------
LEMMA InitKnown == Init => OneOwner /\ NobodyIsHomeless /\ KnowInv
<1> SUFFICES ASSUME Init PROVE OneOwner /\ NobodyIsHomeless /\ KnowInv
  OBVIOUS
<1>1. ASSUME NEW t \in exists
      PROVE  \E u \in User : OwnerOf(t, u) /\ \A v \in User : OwnerOf(t, v) => v = u
  <2>1. PICK u \in User : t = Home[u]
    BY <1>1 DEF Init
  <2> QED
    BY <2>1, MembershipAssumption DEF Init, OwnerOf
<1> QED
  BY <1>1 DEF Init, OneOwner, NobodyIsHomeless, KnowInv, Knowing

\* What h holds.
Same(h) ==
  /\ pc'[h] = pc[h] /\ user'[h] = user[h] /\ dest'[h] = dest[h]
  /\ from'[h] = from[h] /\ wasOwner'[h] = wasOwner[h]
  /\ heir'[h] = heir[h] /\ drops'[h] = drops[h]

\* A request knows what it knew while nothing happens to it and to the teams.
LEMMA KnowKept ==
  ASSUME NEW g \in Handler, Same(g), UNCHANGED <<team, owner>>, KnowsPresent(g)
  PROVE  KnowsPresent(g)'
  BY DEF Same, KnowsPresent, OtherMembers, Members

\* A step of one request leaves what the others know.
LEMMA KnowStepOf ==
  ASSUME KnowInv, NEW h \in Handler, UNCHANGED <<team, owner>>,
         disturbed \ {h} \subseteq disturbed', \A g \in Handler \ {h} : Same(g),
         h \notin disturbed' /\ pc'[h] \in Knowing => KnowsPresent(h)'
  PROVE  KnowInv'
<1>1. ASSUME NEW g \in Handler \ {h}, g \notin disturbed', pc'[g] \in Knowing
      PROVE  KnowsPresent(g)'
  <2>1. pc[g] \in Knowing /\ Same(g) /\ g \notin disturbed
    BY <1>1 DEF Same
  <2> QED
    BY <2>1, KnowKept DEF KnowInv
<1> QED
  BY <1>1 DEF KnowInv

\* What a request reads outside of races is present.
LEMMA KnowsKnows ==
  ASSUME TypeInv, NobodyIsHomeless, KnowInv, NEW h \in Handler, NEW u \in User,
         Knows(h, u), user' = [user EXCEPT ![h] = u], team[u] # dest[h],
         heir[h] = Nobody, ~drops[h],
         UNCHANGED <<team, owner, dest, heir, drops, disturbed>>
  PROVE  KnowInv'
<1>1. team[u] # NoTeam
  BY MembershipAssumption DEF NobodyIsHomeless, TypeInv, TypeOK
<1>2. pc' = [pc EXCEPT ![h] = "known"] /\ from' = [from EXCEPT ![h] = team[u]]
      /\ wasOwner' = [wasOwner EXCEPT ![h] = (u \in owner)]
  <2>1. MembershipOf(u).team = team[u]
    BY DEF MembershipOf
  <2>2. MembershipOf(u).owns = (team[u] # NoTeam /\ u \in owner)
    BY DEF MembershipOf
  <2>3. MembershipOf(u).owns = (u \in owner)
    BY <1>1, <2>2
  <2> QED
    BY <1>1, <2>1, <2>3 DEF Knows, Goto
<1>3. \A g \in Handler \ {h} : Same(g)
  BY <1>2 DEF Same, TypeInv, TypeOK
<1>4. KnowsPresent(h)'
  BY <1>2 DEF KnowsPresent, TypeInv, TypeOK
<1> QED
  BY <1>3, <1>4, KnowStepOf

\* A commit changes nothing that the requests it does not disturb know.
LEMMA CommitKnown ==
  ASSUME TypeInv, OneOwner, NobodyIsHomeless, KnowInv,
         NEW h \in Handler \ disturbed, Commit(h)
  PROVE  KnowInv'
<1> DEFINE u == user[h]
           t == dest[h]
<1>1. u \in User /\ t \in Team /\ AllTeams!Move(u, t)
  BY CommitMoves
<1>2. team' = [team EXCEPT ![u] = t] /\ team[u] = from[h]
  BY <1>1 DEF AllTeams!Move, Commit, KnowInv, Knowing, KnowsPresent
<1>3. PICK heirs \in AllTeams!Heirs(u) :
        owner' = (owner \ {u}) \cup heirs \cup (IF t \in exists THEN {} ELSE {u})
  BY <1>1 DEF AllTeams!Move
<1>4. \A v \in heirs : team[v] = from[h]
  BY <1>2, <1>3 DEF AllTeams!Heirs, AllTeams!Others
<1>5. Reset(h)
  BY DEF Commit
<1>6. \A g \in Handler \ {h} : Same(g)
  BY <1>5 DEF Reset, Forget, Goto, Same, TypeInv, TypeOK
<1>7. pc'[h] = "idle"
  BY <1>5 DEF Reset, Goto, TypeInv, TypeOK
<1>8. ASSUME NEW g \in Handler \ {h}, g \notin disturbed', pc[g] \in Knowing
      PROVE  KnowsPresent(g)'
  <2>1. g \notin disturbed /\ user[g] # u /\ from[g] # from[h] /\ from[g] # t
    BY <1>8 DEF Commit, Knowing
  <2>2. KnowsPresent(g) /\ user[g] \in User
    BY <1>8, <2>1 DEF KnowInv, Knowing, TypeInv, StageInv
  <2>3. \A v \in User : team'[v] = from[g] <=> team[v] = from[g]
    BY <1>2, <2>1 DEF TypeInv, TypeOK
  <2>4. \A v \in User : team[v] = from[g] => (v \in owner' <=> v \in owner)
    BY <1>2, <1>3, <1>4, <2>1
  <2>5. OtherMembers(from[g], user[g])' = OtherMembers(from[g], user[g])
    BY <1>6, <2>3 DEF Same, OtherMembers, Members
  <2>6. team[user[g]] = from[g]
    BY <2>2 DEF KnowsPresent
  <2>7. team'[user[g]] = from[g] /\ (user[g] \in owner' <=> user[g] \in owner)
    BY <2>2, <2>3, <2>4, <2>6
  <2>8. heir[g] # Nobody => team'[heir[g]] = from[g]
    BY <2>2, <2>3 DEF KnowsPresent, TypeInv, TypeOK
  <2> QED
    BY <1>6, <2>2, <2>5, <2>7, <2>8 DEF Same, KnowsPresent
<1>9. ASSUME NEW g \in Handler \ disturbed', pc'[g] \in Knowing
      PROVE  KnowsPresent(g)'
  <2>1. g # h
    BY <1>7, <1>9 DEF Knowing
  <2> QED
    BY <1>6, <1>8, <1>9, <2>1 DEF Same
<1> QED
  BY <1>9 DEF KnowInv, Knowing

\* A step that changes no membership.
LEMMA QuietStep ==
  ASSUME OneOwner, NobodyIsHomeless, UNCHANGED <<team, owner, exists>>
  PROVE  OneOwner' /\ NobodyIsHomeless'
  BY DEF OneOwner, NobodyIsHomeless, OwnerOf

\* A step that concerns no request.
LEMMA AsideStep ==
  ASSUME KnowInv, UNCHANGED <<team, owner, pc, reqVars, disturbed>>
  PROVE  KnowInv'
<1>1. \A h \in Handler : Same(h)
  BY DEF Same, reqVars
<1> QED
  BY <1>1, KnowKept DEF KnowInv, Same

\* The steps of a request before its commit.
LEMMA RequestStep ==
  ASSUME TypeInv, NobodyIsHomeless, KnowInv, NEW h \in Handler,
         \/ \E u \in User : AskToLeave(h, u) \/ \E t \in Team : ReadInvite(h, u, t)
         \/ ReadMembership(h) \/ ChooseHeir(h) \/ PromoteHeir(h) \/ DropTeam(h)
         \/ DeleteMember(h) \/ Refuse(h) \/ AddMember(h) \/ GiveUp(h)
         \/ \E t \in Team : AddOwnTeam(h, t)
  PROVE  KnowInv' /\ UNCHANGED <<team, owner, exists>>
<1> USE DEF TypeInv
<1>1. ASSUME NEW u \in User, AskToLeave(h, u) PROVE KnowInv' /\ UNCHANGED <<team, owner, exists>>
  <2>1. team[u] # dest[h] /\ heir[h] = Nobody /\ ~drops[h]
    BY <1>1 DEF AskToLeave, MembershipOf, StageInv
  <2> QED
    BY <1>1, <2>1, KnowsKnows DEF AskToLeave, dbVars, teamVars, history
<1>2. ASSUME NEW u \in User, NEW t \in Team, ReadInvite(h, u, t)
      PROVE  KnowInv' /\ UNCHANGED <<team, owner, exists>>
  <2>1. pc'[h] \notin Knowing /\ \A g \in Handler \ {h} : Same(g)
    BY <1>2 DEF ReadInvite, Goto, Same, Knowing, TypeOK
  <2> QED
    BY <1>2, <2>1, KnowStepOf DEF ReadInvite, dbVars, teamVars, history
<1>3. CASE ReadMembership(h)
  <2>1. team[user[h]] # dest[h] /\ heir[h] = Nobody /\ ~drops[h] /\ user[h] \in User
    BY <1>3 DEF ReadMembership, MembershipOf, StageInv
  <2>2. user' = [user EXCEPT ![h] = user[h]]
    BY <1>3 DEF ReadMembership, TypeOK
  <2> QED
    BY <1>3, <2>1, <2>2, KnowsKnows DEF ReadMembership, dbVars, teamVars, history
<1>4. CASE ChooseHeir(h)
  <2>1. \A g \in Handler \ {h} : Same(g)
    BY <1>4 DEF ChooseHeir, Goto, Same, TypeOK
  <2>2. UNCHANGED <<team, owner, exists, disturbed, user, dest, from, wasOwner, drops>>
    BY <1>4 DEF ChooseHeir, dbVars, teamVars, history
  <2>3. pc[h] = "known" /\ heir[h] = Nobody /\ ~drops[h]
    BY <1>4 DEF ChooseHeir, StageInv
  <2>4. ASSUME h \notin disturbed PROVE KnowsPresent(h)'
    <3>1. KnowsPresent(h)
      BY <2>3, <2>4 DEF KnowInv, Knowing
    <3>2. CASE ~wasOwner[h]
      <4>1. pc'[h] = "detached" /\ heir' = heir
        BY <1>4, <3>2 DEF ChooseHeir, Goto, TypeOK
      <4> QED
        BY <2>2, <2>3, <3>1, <3>2, <4>1 DEF KnowsPresent, OtherMembers, Members
    <3>3. CASE wasOwner[h]
      <4>1. pc'[h] = "chosen"
        BY <1>4, <3>3 DEF ChooseHeir, Goto, TypeOK
      <4>2. \/ OtherMembers(from[h], user[h]) = {} /\ heir'[h] = Nobody
            \/ heir'[h] \in OtherMembers(from[h], user[h])
        BY <1>4, <2>3, <3>3 DEF ChooseHeir, TypeOK
      <4>3. user[h] \in owner
        BY <3>1, <3>3 DEF KnowsPresent
      <4>4. heir'[h] # Nobody => heir'[h] # user[h] /\ team[heir'[h]] = from[h]
        BY <4>2 DEF OtherMembers, Members
      <4>5. heir'[h] = Nobody => OtherMembers(from[h], user[h]) = {}
        BY <4>2, MembershipAssumption DEF OtherMembers, Members
      <4> QED
        BY <2>2, <2>3, <3>1, <4>1, <4>3, <4>4, <4>5 DEF KnowsPresent, OtherMembers, Members
    <3> QED
      BY <3>2, <3>3
  <2> QED
    BY <2>1, <2>2, <2>4, KnowStepOf
<1>5. CASE PromoteHeir(h)
  <2>1. \A g \in Handler \ {h} : Same(g)
    BY <1>5 DEF PromoteHeir, Goto, Same, TypeOK
  <2>2. UNCHANGED <<team, owner, exists, disturbed, user, dest, from, wasOwner, drops>>
    BY <1>5 DEF PromoteHeir, dbVars, teamVars, history
  <2>3. pc[h] = "chosen" /\ heir[h] # Nobody /\ pc'[h] = "detached"
    BY <1>5 DEF PromoteHeir, Goto, TypeOK
  <2>4. ASSUME h \notin disturbed PROVE KnowsPresent(h)'
    <3>1. KnowsPresent(h)
      BY <2>3, <2>4 DEF KnowInv, Knowing
    <3>2. heir'[h] = heir[h]
      BY <1>5, <2>3, <3>1 DEF PromoteHeir, KnowsPresent, TypeOK
    <3> QED
      BY <2>2, <2>3, <3>1, <3>2 DEF KnowsPresent, OtherMembers, Members
  <2> QED
    BY <2>1, <2>2, <2>4, KnowStepOf
<1>6. CASE DropTeam(h)
  <2>1. \A g \in Handler \ {h} : Same(g)
    BY <1>6 DEF DropTeam, Goto, Same, TypeOK
  <2>2. UNCHANGED <<team, owner, exists, disturbed, user, dest, from, wasOwner, heir>>
    BY <1>6 DEF DropTeam, dbVars, teamVars, history
  <2>3. pc[h] = "chosen" /\ heir[h] = Nobody /\ pc'[h] = "detached" /\ drops'[h]
    BY <1>6 DEF DropTeam, Goto, TypeOK
  <2>4. h \notin disturbed => KnowsPresent(h)'
    BY <2>2, <2>3 DEF KnowInv, Knowing, KnowsPresent, OtherMembers, Members
  <2> QED
    BY <2>1, <2>2, <2>4, KnowStepOf
<1>7. CASE DeleteMember(h) \/ AddMember(h)
  <2>1. \A g \in Handler \ {h} : Same(g)
    BY <1>7 DEF DeleteMember, AddMember, Goto, Same, reqVars, TypeOK
  <2>2. UNCHANGED <<team, owner, exists, disturbed, user, dest, from, wasOwner, heir, drops>>
    BY <1>7 DEF DeleteMember, AddMember, dbVars, teamVars, reqVars, history
  <2>3. /\ pc[h] \in {"detached", "removed"}
        /\ pc'[h] \in {"removed", "added"}
    BY <1>7 DEF DeleteMember, AddMember, Goto, TypeOK
  <2>4. h \notin disturbed => KnowsPresent(h)'
    BY <2>2, <2>3 DEF KnowInv, Knowing, KnowsPresent, OtherMembers, Members
  <2> QED
    BY <2>1, <2>2, <2>4, KnowStepOf
<1>8. CASE Refuse(h) \/ GiveUp(h)
  <2>1. \A g \in Handler \ {h} : Same(g)
    BY <1>8 DEF Refuse, GiveUp, Reset, Forget, Goto, Same, TypeOK
  <2>2. UNCHANGED <<team, owner, exists>> /\ disturbed' = disturbed \ {h}
    BY <1>8 DEF Refuse, GiveUp, dbVars, teamVars
  <2>3. pc'[h] \notin Knowing
    BY <1>8 DEF Refuse, GiveUp, Reset, Goto, Knowing, TypeOK
  <2> QED
    BY <2>1, <2>2, <2>3, KnowStepOf
<1>9. ASSUME NEW t \in Team, AddOwnTeam(h, t)
      PROVE  KnowInv' /\ UNCHANGED <<team, owner, exists>>
  <2>1. \A g \in Handler \ {h} : Same(g)
    BY <1>9 DEF AddOwnTeam, Goto, Same, TypeOK
  <2>2. UNCHANGED <<team, owner, exists, disturbed, user, from, wasOwner, heir, drops>>
    BY <1>9 DEF AddOwnTeam, dbVars, teamVars, history
  <2>3. pc[h] = "removed" /\ pc'[h] = "added" /\ dest'[h] = t /\ t \notin exists
    BY <1>9 DEF AddOwnTeam, Goto, TypeOK
  <2>4. ASSUME h \notin disturbed PROVE KnowsPresent(h)'
    <3>1. KnowsPresent(h) /\ user[h] \in User
      BY <2>3, <2>4 DEF KnowInv, Knowing, StageInv
    <3>2. t # from[h]
      BY <2>3, <3>1 DEF KnowsPresent, NobodyIsHomeless
    <3> QED
      BY <2>2, <2>3, <3>1, <3>2 DEF KnowsPresent, OtherMembers, Members
  <2> QED
    BY <2>1, <2>2, <2>4, KnowStepOf
<1> QED
  BY <1>1, <1>2, <1>3, <1>4, <1>5, <1>6, <1>7, <1>8, <1>9

--------------------------------------------------------------------------------
\* What a step may do to the teams.
Quiet == UNCHANGED <<team, owner, exists>>

LEMMA TeamStep ==
  ASSUME IInv, [Next]_vars, ~raced'
  PROVE  /\ OneOwner' /\ NobodyIsHomeless' /\ KnowInv'
         /\ Quiet \/ AllTeams!Next
<1>1. CASE UNCHANGED vars
  <2>1. ~raced /\ Quiet /\ UNCHANGED <<pc, reqVars, disturbed>>
    BY <1>1 DEF vars, dbVars, teamVars, history, Quiet
  <2> QED
    BY <2>1, QuietStep, AsideStep DEF IInv, Quiet
<1>2. CASE Next
  <2>1. ~raced /\ TypeInv /\ OneOwner /\ NobodyIsHomeless /\ KnowInv
    BY <1>2 DEF Next, IInv
  <2>2. CASE \/ \E u \in User : CreateInvite(u)
             \/ \E t \in Team : ExpireInvite(t)
             \/ \E k \in Task : Unassign(k) \/ DeleteTask(k) \/ \E v \in User : Assign(k, v)
    <3>1. Quiet /\ UNCHANGED <<pc, reqVars, disturbed>>
      BY <2>2 DEF CreateInvite, ExpireInvite, Unassign, DeleteTask, Assign, teamVars,
                  history, Quiet
    <3> QED
      BY <2>1, <3>1, QuietStep, AsideStep DEF Quiet
  <2>3. ASSUME NEW h \in Handler, Commit(h)
        PROVE  /\ OneOwner' /\ NobodyIsHomeless' /\ KnowInv'
               /\ Quiet \/ AllTeams!Next
    <3>1. h \notin disturbed
      BY <2>3 DEF Commit
    <3>2. user[h] \in User /\ dest[h] \in Team /\ AllTeams!Move(user[h], dest[h])
      BY <2>1, <2>3, <3>1, CommitMoves
    <3>3. KnowInv'
      BY <2>1, <2>3, <3>1, CommitKnown
    <3>4. OneOwner' /\ NobodyIsHomeless'
      BY <2>1, <3>2, MoveKeepsOwners DEF TypeInv
    <3> QED
      BY <3>2, <3>3, <3>4 DEF AllTeams!Next
  <2>4. ASSUME NEW h \in Handler,
               \/ \E u \in User : AskToLeave(h, u) \/ \E t \in Team : ReadInvite(h, u, t)
               \/ ReadMembership(h) \/ ChooseHeir(h) \/ PromoteHeir(h) \/ DropTeam(h)
               \/ DeleteMember(h) \/ Refuse(h) \/ AddMember(h) \/ GiveUp(h)
               \/ \E t \in Team : AddOwnTeam(h, t)
        PROVE  /\ OneOwner' /\ NobodyIsHomeless' /\ KnowInv'
               /\ Quiet \/ AllTeams!Next
    <3>1. KnowInv' /\ Quiet
      BY <2>1, <2>4, RequestStep DEF Quiet
    <3> QED
      BY <2>1, <3>1, QuietStep DEF Quiet
  <2> QED
    BY <1>2, <2>2, <2>3, <2>4 DEF Next, Ask, Step
<1> QED
  BY <1>1, <1>2

LEMMA Invariance == Spec => []IInv
<1>1. Init => IInv
  BY InitType, InitKnown DEF IInv
<1>2. IInv /\ [Next]_vars => IInv'
  BY TypeStep, TeamStep DEF IInv
<1> QED
  BY <1>1, <1>2, PTL DEF Spec

\* Moves that do not race leave every user in a team and every team in the hands
\* of one owner (store_user_team.go:330-484).
THEOREM OwnersAreKept == Spec => []OnlyRacesLoseOwners
<1>1. ASSUME OneOwner, NEW t \in exists PROVE Cardinality(Members(t) \cap owner) = 1
  <2>1. PICK u \in User : OwnerOf(t, u) /\ \A v \in User : OwnerOf(t, v) => v = u
    BY <1>1 DEF OneOwner
  <2>2. Members(t) \cap owner = {u}
    BY <2>1 DEF OwnerOf, Members
  <2> QED
    BY <2>2, FS_Singleton
<1>2. IInv => OnlyRacesLoseOwners
  BY <1>1 DEF IInv, OnlyRacesLoseOwners, TeamsAreOwned
<1> QED
  BY <1>2, Invariance, PTL

\* What the statements of such moves do together is one move of Teams, and
\* nothing else changes a team (store_user_team.go:341-357, 464-483).
THEOREM MovesImplementTeams == Spec => MovesAreIndivisible
<1>1. Init => AllTeams!Init
  BY DEF Init, AllTeams!Init
<1>2. IInv /\ [Next]_vars => [raced' \/ AllTeams!Next]_<<team, owner, exists>>
  BY TeamStep DEF Quiet
<1> QED
  BY <1>1, <1>2, Invariance, PTL DEF Spec, MovesAreIndivisible

--------------------------------------------------------------------------------
(* Refusals                                                                 *)

\* What the assignments a request has not cleared say of its user and, if it is
\* to delete the team, of the other members: unless it is late, those of the user
\* are of deleted tasks, and nobody else has any; and once the user's row is
\* deleted, he has none.
TaskInv(h) ==
  /\ pc[h] = "chosen" => wasOwner[h]
  /\ pc[h] \in {"chosen", "detached"} /\ h \notin late /\ team[user[h]] = from[h] =>
       \A k \in Task \ cleared[h] : assignee[k] = user[h] => k \in deleted
  /\ pc[h] = "chosen" /\ heir[h] = Nobody /\ h \notin late =>
       \A k \in Task \ cleared[h] :
         assignee[k] \in Members(from[h]) => assignee[k] = user[h]
  /\ h \notin disturbed
       /\ (pc[h] \in {"removed", "added"} \/ (pc[h] = "detached" /\ drops[h])) =>
       \A k \in Task \ cleared[h] : assignee[k] # user[h]

\* A request takes only tasks that are not deleted from its user, and keeps them
\* locked.
ClearedInv == \A h \in Handler : cleared[h] \cap deleted = {}

RefusalInv ==
  ClearedInv /\ RefusalsAreExplained /\ (~raced => \A h \in Handler : TaskInv(h))

LEMMA InitRefusal == Init => RefusalInv
BY DEF Init, RefusalInv, ClearedInv, RefusalsAreExplained, TaskInv

\* A request that does nothing keeps what it has while tasks are taken from their
\* users or deleted.
LEMMA TaskKept ==
  ASSUME TypeInv, NEW g \in Handler, TaskInv(g), Same(g), cleared'[g] = cleared[g],
         UNCHANGED team, deleted \subseteq deleted',
         g \in late => g \in late', g \in disturbed => g \in disturbed',
         \A k \in Task : assignee'[k] \in {assignee[k], Nobody}
  PROVE  TaskInv(g)'
<1>1. pc[g] # "idle" => user[g] # Nobody
  BY MembershipAssumption DEF TypeInv, StageInv
<1>2. Members(from[g])' = Members(from[g]) /\ Nobody \notin Members(from[g])
  BY MembershipAssumption DEF Same, Members
<1>3. pc'[g] = "chosen" => wasOwner'[g]
  BY DEF Same, TaskInv
<1>4. pc'[g] \in {"chosen", "detached"} /\ g \notin late' /\ team'[user'[g]] = from'[g] =>
        \A k \in Task \ cleared'[g] : assignee'[k] = user'[g] => k \in deleted'
  BY <1>1 DEF Same, TaskInv
<1>5. pc'[g] = "chosen" /\ heir'[g] = Nobody /\ g \notin late' =>
        \A k \in Task \ cleared'[g] :
          assignee'[k] \in Members(from[g])' => assignee'[k] = user'[g]
  BY <1>2 DEF Same, TaskInv
<1>6. g \notin disturbed'
        /\ (pc'[g] \in {"removed", "added"} \/ (pc'[g] = "detached" /\ drops'[g])) =>
        \A k \in Task \ cleared'[g] : assignee'[k] # user'[g]
  BY <1>1 DEF Same, TaskInv
<1> QED
  BY <1>3, <1>4, <1>5, <1>6 DEF TaskInv

\* Invites and tasks: a request that meets an assignment is late from then on.
LEMMA AsideRefusal ==
  ASSUME TypeInv, ~raced, KnowInv, RefusalInv,
         \/ \E u \in User : CreateInvite(u)
         \/ \E t \in Team : ExpireInvite(t)
         \/ \E k \in Task : Unassign(k) \/ DeleteTask(k) \/ \E v \in User : Assign(k, v)
  PROVE  RefusalInv'
<1>1. /\ UNCHANGED <<team, pc, reqVars, disturbed, raced>>
      /\ \A g \in Handler : Same(g) /\ cleared'[g] = cleared[g]
  BY DEF CreateInvite, ExpireInvite, Unassign, DeleteTask, Assign, teamVars, history, reqVars,
    Same
<1>2. ASSUME deleted \subseteq deleted', UNCHANGED late,
             \A k \in Task : assignee'[k] \in {assignee[k], Nobody}
      PROVE  \A g \in Handler : TaskInv(g)'
  BY <1>1, <1>2, TaskKept DEF RefusalInv
<1>3. ASSUME NEW k \in Task, DeleteTask(k) PROVE RefusalInv'
  <2>1. \A g \in Handler : k \notin cleared[g]
    BY <1>3, MembershipAssumption DEF DeleteTask, TaskLocked
  <2>2. deleted' = deleted \cup {k} /\ UNCHANGED <<assignee, late>>
    BY <1>3 DEF DeleteTask, history
  <2>3. ClearedInv' /\ RefusalsAreExplained'
    BY <1>1, <2>1, <2>2 DEF RefusalInv, ClearedInv, RefusalsAreExplained, Same
  <2> QED
    BY <1>2, <2>2, <2>3 DEF RefusalInv
<1>4. ASSUME NEW k \in Task, Unassign(k) PROVE RefusalInv'
  <2>1. /\ k \notin deleted /\ UNCHANGED <<deleted, late>>
        /\ assignee' = [assignee EXCEPT ![k] = Nobody]
    BY <1>4 DEF Unassign, history
  <2>2. ClearedInv' /\ RefusalsAreExplained'
    BY <1>1, <2>1 DEF RefusalInv, ClearedInv, RefusalsAreExplained, Same, TypeInv, TypeOK
  <2>3. \A j \in Task : assignee'[j] \in {assignee[j], Nobody}
    BY <2>1 DEF TypeInv, TypeOK
  <2> QED
    BY <1>2, <2>1, <2>2, <2>3 DEF RefusalInv
<1>5. ASSUME NEW k \in Task, NEW v \in User, Assign(k, v) PROVE RefusalInv'
  <2>1. /\ k \notin deleted /\ UNCHANGED deleted
        /\ assignee' = [assignee EXCEPT ![k] = v]
        /\ late' = late \cup {g \in Handler : MeetsAssignmentOf(g, v)}
    BY <1>5 DEF Assign
  <2>2. ClearedInv' /\ RefusalsAreExplained'
    BY <1>1, <2>1 DEF RefusalInv, ClearedInv, RefusalsAreExplained, Same, TypeInv, TypeOK
  <2>3. ASSUME NEW g \in Handler PROVE TaskInv(g)'
    <3>1. TaskInv(g) /\ Same(g) /\ cleared'[g] = cleared[g]
      BY <1>1 DEF RefusalInv
    <3>2. /\ \A j \in Task : assignee'[j] = IF j = k THEN v ELSE assignee[j]
          /\ g \in late' <=> g \in late \/ MeetsAssignmentOf(g, v)
      BY <2>1 DEF TypeInv, TypeOK
    <3>3. pc'[g] \in {"chosen", "detached"} /\ g \notin late' /\ team'[user'[g]] = from'[g] =>
            \A j \in Task \ cleared'[g] : assignee'[j] = user'[g] => j \in deleted'
      BY <1>1, <2>1, <3>1, <3>2 DEF TaskInv, Same, MeetsAssignmentOf
    <3>4. pc'[g] = "chosen" /\ heir'[g] = Nobody /\ g \notin late' =>
            \A j \in Task \ cleared'[g] :
              assignee'[j] \in Members(from[g])' => assignee'[j] = user'[g]
      BY <1>1, <3>1, <3>2 DEF TaskInv, Same, MeetsAssignmentOf, Members
    <3>5. ASSUME g \notin disturbed,
                 pc[g] \in {"removed", "added"} \/ (pc[g] = "detached" /\ drops[g])
          PROVE  v # user[g]
      <4>1. KnowsPresent(g)
        BY <3>5 DEF KnowInv, Knowing
      <4>2. g \in Handler \ {Nobody}
        BY MembershipAssumption
      <4> QED
        BY <1>5, <3>5, <4>1, <4>2 DEF Assign, RowDeleted, InTransaction, KnowsPresent
    <3>6. g \notin disturbed'
            /\ (pc'[g] \in {"removed", "added"} \/ (pc'[g] = "detached" /\ drops'[g])) =>
            \A j \in Task \ cleared'[g] : assignee'[j] # user'[g]
      BY <1>1, <3>1, <3>2, <3>5 DEF TaskInv, Same
    <3>7. pc'[g] = "chosen" => wasOwner'[g]
      BY <3>1 DEF Same, TaskInv
    <3> QED
      BY <3>3, <3>4, <3>6, <3>7 DEF TaskInv
  <2> QED
    BY <2>2, <2>3 DEF RefusalInv
<1>6. CASE \/ \E u \in User : CreateInvite(u)
           \/ \E t \in Team : ExpireInvite(t)
  <2>1. UNCHANGED <<assignee, deleted, late>>
    BY <1>6 DEF CreateInvite, ExpireInvite, taskVars, history
  <2>2. ClearedInv' /\ RefusalsAreExplained'
    BY <1>1, <2>1 DEF RefusalInv, ClearedInv, RefusalsAreExplained, Same
  <2> QED
    BY <1>2, <2>1, <2>2 DEF RefusalInv
<1> QED
  BY <1>3, <1>4, <1>5, <1>6

\* A step of a request before its commit concerns its own tasks alone.
LEMMA RefusalStepOf ==
  ASSUME TypeInv, RefusalInv, ~raced, NEW h \in Handler,
         UNCHANGED <<team, assignee, deleted>>,
         late \ {h} \subseteq late', disturbed \ {h} \subseteq disturbed',
         \A g \in Handler \ {h} : Same(g) /\ cleared'[g] = cleared[g],
         cleared'[h] \cap deleted = {}, TaskInv(h)',
         pc'[h] = "refused" => h \in late' \/ \E k \in deleted : assignee[k] = user'[h]
  PROVE  RefusalInv'
<1>1. ClearedInv'
  BY DEF RefusalInv, ClearedInv
<1>2. RefusalsAreExplained'
  BY DEF RefusalInv, RefusalsAreExplained, Same
<1>3. \A g \in Handler \ {h} : TaskInv(g)'
  BY TaskKept DEF RefusalInv
<1> QED
  BY <1>1, <1>2, <1>3 DEF RefusalInv

LEMMA RequestRefusal ==
  ASSUME TypeInv, ~raced, NobodyIsHomeless, KnowInv, RefusalInv, NEW h \in Handler,
         \/ \E u \in User : AskToLeave(h, u) \/ \E t \in Team : ReadInvite(h, u, t)
         \/ ReadMembership(h) \/ ChooseHeir(h) \/ PromoteHeir(h) \/ DropTeam(h)
         \/ DeleteMember(h) \/ Refuse(h) \/ AddMember(h) \/ GiveUp(h)
         \/ \E t \in Team : AddOwnTeam(h, t)
  PROVE  RefusalInv'
<1> USE DEF TypeInv
<1>1. /\ TaskInv(h) /\ cleared[h] \cap deleted = {}
      /\ pc[h] = "refused" => h \in late \/ \E k \in deleted : assignee[k] = user[h]
  BY DEF RefusalInv, ClearedInv, RefusalsAreExplained
<1>2. ASSUME NEW u \in User,
             AskToLeave(h, u) \/ (ReadMembership(h) /\ u = user[h])
      PROVE  RefusalInv'
  <2>1. /\ UNCHANGED <<team, assignee, deleted, late, disturbed, cleared>>
        /\ \A g \in Handler \ {h} : Same(g)
    BY <1>2 DEF AskToLeave, ReadMembership, Knows, Goto, Same, dbVars, teamVars, taskVars,
      history, TypeOK
  <2>2. team[u] # NoTeam
    BY MembershipAssumption DEF NobodyIsHomeless, TypeOK
  <2>3. pc'[h] = "known"
    BY <1>2, <2>2 DEF AskToLeave, ReadMembership, Knows, MembershipOf, Goto, TypeOK
  <2> QED
    BY <1>1, <2>1, <2>3, RefusalStepOf DEF TaskInv
<1>3. ASSUME NEW u \in User, NEW t \in Team, ReadInvite(h, u, t) PROVE RefusalInv'
  <2>1. /\ UNCHANGED <<team, assignee, deleted, late, disturbed, cleared>>
        /\ pc'[h] = "asked" /\ \A g \in Handler \ {h} : Same(g)
    BY <1>3 DEF ReadInvite, Goto, Same, dbVars, teamVars, taskVars, history, TypeOK
  <2> QED
    BY <1>1, <2>1, RefusalStepOf DEF TaskInv
<1>4. CASE ChooseHeir(h)
  <2>1. /\ UNCHANGED <<team, assignee, deleted, late, disturbed>>
        /\ \A g \in Handler \ {h} : Same(g) /\ cleared'[g] = cleared[g]
        /\ UNCHANGED <<user, from, wasOwner, drops>>
    BY <1>4 DEF ChooseHeir, Goto, Same, dbVars, teamVars, taskVars, history, TypeOK
  <2>2. pc[h] = "known" /\ heir[h] = Nobody /\ ~drops[h] /\ cleared'[h] = AssignedTasks(h)
    BY <1>4 DEF ChooseHeir, StageInv, TypeOK
  <2>3. \/ ~wasOwner[h] /\ pc'[h] = "detached"
        \/ /\ wasOwner[h] /\ pc'[h] = "chosen"
           /\ OtherMembers(from[h], user[h]) = {} \/ heir'[h] \in OtherMembers(from[h], user[h])
    BY <1>4 DEF ChooseHeir, Goto, TypeOK
  <2>4. \A k \in Task \ cleared'[h] :
          assignee[k] = user[h] /\ team[user[h]] = from[h] => k \in deleted
    BY <2>2 DEF AssignedTasks
  <2>5. pc'[h] = "chosen" /\ heir'[h] = Nobody =>
          \A v \in Members(from[h]) : v = user[h]
    BY <2>3, MembershipAssumption DEF OtherMembers, Members
  <2>6. TaskInv(h)'
    BY <2>1, <2>2, <2>3, <2>4, <2>5 DEF TaskInv, Members
  <2>7. cleared'[h] \cap deleted = {}
    BY <2>2 DEF AssignedTasks
  <2> QED
    BY <2>1, <2>3, <2>6, <2>7, RefusalStepOf
<1>5. CASE PromoteHeir(h) \/ DropTeam(h)
  <2>1. /\ UNCHANGED <<team, assignee, deleted, late, disturbed, cleared>>
        /\ UNCHANGED <<user, from, wasOwner>>
        /\ \A g \in Handler \ {h} : Same(g)
    BY <1>5 DEF PromoteHeir, DropTeam, Goto, Same, dbVars, teamVars, taskVars, history, TypeOK
  <2>2. pc[h] = "chosen" /\ pc'[h] = "detached"
    BY <1>5 DEF PromoteHeir, DropTeam, Goto, TypeOK
  <2>3. ASSUME h \notin disturbed, drops'[h]
        PROVE  \A k \in Task \ cleared[h] : assignee[k] # user[h]
    <3>1. KnowsPresent(h) /\ user[h] \in User
      BY <2>2, <2>3 DEF KnowInv, Knowing, StageInv
    <3>2. CASE DropTeam(h)
      BY <3>1, <3>2 DEF DropTeam, KeptByKey, KnowsPresent, Members
    <3>3. CASE PromoteHeir(h)
      BY <2>3, <3>1, <3>3 DEF PromoteHeir, KnowsPresent, OtherMembers, Members, TypeOK
    <3> QED
      BY <1>5, <3>2, <3>3
  <2>4. TaskInv(h)'
    BY <1>1, <2>1, <2>2, <2>3 DEF TaskInv
  <2> QED
    BY <1>1, <2>1, <2>2, <2>4, RefusalStepOf
<1>6. CASE DeleteMember(h)
  <2>1. /\ UNCHANGED <<team, assignee, deleted, disturbed, cleared>>
        /\ late' = late \ {h} /\ UNCHANGED <<user, from, drops>>
        /\ \A g \in Handler \ {h} : Same(g)
    BY <1>6 DEF DeleteMember, Goto, Same, dbVars, teamVars, taskVars, reqVars, TypeOK
  <2>2. pc[h] = "detached" /\ pc'[h] = "removed"
    BY <1>6 DEF DeleteMember, Goto, TypeOK
  <2>3. ASSUME h \notin disturbed PROVE \A k \in Task \ cleared[h] : assignee[k] # user[h]
    <3>1. KnowsPresent(h)
      BY <2>2, <2>3 DEF KnowInv, Knowing
    <3>2. CASE drops[h]
      BY <1>1, <2>2, <2>3, <3>2 DEF TaskInv
    <3>3. CASE ~drops[h]
      BY <1>6, <3>1, <3>3 DEF DeleteMember, KeptByKey, KnowsPresent
    <3> QED
      BY <3>2, <3>3
  <2>4. TaskInv(h)'
    BY <2>1, <2>2, <2>3 DEF TaskInv
  <2> QED
    BY <1>1, <2>1, <2>2, <2>4, RefusalStepOf
<1>7. CASE AddMember(h) \/ \E t \in Team : AddOwnTeam(h, t)
  <2>1. /\ UNCHANGED <<team, assignee, deleted, late, disturbed, cleared>>
        /\ UNCHANGED <<user, from>>
        /\ \A g \in Handler \ {h} : Same(g)
    BY <1>7 DEF AddMember, AddOwnTeam, Goto, Same, dbVars, teamVars, taskVars, reqVars, history,
      TypeOK
  <2>2. pc[h] = "removed" /\ pc'[h] = "added"
    BY <1>7 DEF AddMember, AddOwnTeam, Goto, TypeOK
  <2>3. TaskInv(h)'
    BY <1>1, <2>1, <2>2 DEF TaskInv
  <2> QED
    BY <1>1, <2>1, <2>2, <2>3, RefusalStepOf
<1>8. CASE Refuse(h)
  <2>1. /\ UNCHANGED <<team, assignee, deleted, late, user>> /\ disturbed' = disturbed \ {h}
        /\ pc'[h] = "refused" /\ cleared'[h] = {}
        /\ \A g \in Handler \ {h} : Same(g) /\ cleared'[g] = cleared[g]
    BY <1>8 DEF Refuse, Forget, Goto, Same, dbVars, teamVars, taskVars, TypeOK
  <2>2. ASSUME h \notin late PROVE \E k \in deleted : assignee[k] = user[h]
    <3>1. PICK u \in User, k \in Task \ cleared[h] :
            /\ pc[h] \in {"chosen", "detached"} /\ team[u] = from[h] /\ assignee[k] = u
            /\ u = user[h] \/ (pc[h] = "chosen" /\ heir[h] = Nobody)
      BY <1>8 DEF Refuse, KeptByKey, Members, StageInv
    <3>2. u = user[h]
      BY <1>1, <2>2, <3>1 DEF TaskInv, Members
    <3> QED
      BY <1>1, <2>2, <3>1, <3>2 DEF TaskInv
  <2> QED
    BY <2>1, <2>2, RefusalStepOf DEF TaskInv
<1>9. CASE GiveUp(h)
  <2>1. /\ UNCHANGED <<team, assignee, deleted>> /\ disturbed' = disturbed \ {h}
        /\ late' = late \ {h} /\ pc'[h] = "idle" /\ cleared'[h] = {}
        /\ \A g \in Handler \ {h} : Same(g) /\ cleared'[g] = cleared[g]
    BY <1>9 DEF GiveUp, Reset, Forget, Goto, Same, dbVars, teamVars, taskVars, TypeOK
  <2> QED
    BY <2>1, RefusalStepOf DEF TaskInv
<1>10. CASE ReadMembership(h)
  BY <1>2, <1>10 DEF ReadMembership, StageInv
<1> QED
  BY <1>2, <1>3, <1>4, <1>5, <1>6, <1>7, <1>8, <1>9, <1>10

\* A commit takes the tasks that were cleared.  Outside of races the user brings
\* none to the team he joins, and nobody else moves.
LEMMA CommitRefusal ==
  ASSUME TypeInv, ~raced, OneOwner, NobodyIsHomeless, KnowInv, RefusalInv,
         NEW h \in Handler, Commit(h)
  PROVE  RefusalInv'
<1> DEFINE u == user[h]
<1>1. /\ UNCHANGED deleted /\ raced' = (raced \/ h \in disturbed)
      /\ assignee' = [k \in Task |-> IF k \in cleared[h] THEN Nobody ELSE assignee[k]]
      /\ Reset(h) /\ pc[h] = "added" /\ disturbed \ {h} \subseteq disturbed'
  BY DEF Commit
<1>2. /\ late' = late \ {h} /\ pc'[h] = "idle" /\ cleared'[h] = {}
      /\ \A g \in Handler \ {h} : Same(g) /\ cleared'[g] = cleared[g]
  BY <1>1 DEF Reset, Forget, Goto, Same, TypeInv, TypeOK
<1>3. ClearedInv'
  BY <1>1, <1>2 DEF RefusalInv, ClearedInv
<1>4. RefusalsAreExplained'
  <2>1. \A k \in deleted : assignee'[k] = assignee[k]
    BY <1>1 DEF RefusalInv, ClearedInv, TypeInv, TypeOK
  <2> QED
    BY <1>1, <1>2, <2>1 DEF RefusalInv, RefusalsAreExplained, Same
<1>5. ASSUME ~raced', NEW g \in Handler \ {h} PROVE TaskInv(g)'
  <2>1. h \notin disturbed /\ KnowsPresent(h) /\ u \in User
    BY <1>1, <1>5 DEF KnowInv, Knowing, TypeInv, StageInv
  <2>2. team' = [team EXCEPT ![u] = dest[h]]
    BY <2>1, CommitMoves DEF AllTeams!Move
  <2>3. \A k \in Task : assignee'[k] # u
    <3>1. \A k \in Task \ cleared[h] : assignee[k] # u
      BY <1>1, <1>5, <2>1 DEF RefusalInv, TaskInv
    <3> QED
      BY <1>1, <2>1, <3>1, MembershipAssumption
  <2>4. \A k \in Task : assignee'[k] \in {assignee[k], Nobody}
    BY <1>1
  <2>5. \A v \in User \ {u} : team'[v] = team[v]
    BY <2>2 DEF TypeInv, TypeOK
  <2>6. TaskInv(g) /\ Same(g) /\ cleared'[g] = cleared[g] /\ (pc[g] # "idle" => user[g] \in User)
    BY <1>2 DEF RefusalInv, TypeInv, StageInv
  <2>7. pc'[g] \in {"chosen", "detached"} /\ g \notin late' /\ team'[user'[g]] = from'[g] =>
          \A k \in Task \ cleared'[g] : assignee'[k] = user'[g] => k \in deleted'
    <3>1. CASE user[g] = u
      BY <2>3, <2>6, <3>1 DEF Same
    <3>2. CASE user[g] # u
      BY <1>1, <1>2, <2>4, <2>5, <2>6, <3>2, MembershipAssumption DEF TaskInv, Same
    <3> QED
      BY <3>1, <3>2
  <2>8. pc'[g] = "chosen" /\ heir'[g] = Nobody /\ g \notin late' =>
          \A k \in Task \ cleared'[g] :
            assignee'[k] \in Members(from[g])' => assignee'[k] = user'[g]
    BY <1>2, <2>3, <2>4, <2>5, <2>6, MembershipAssumption DEF TaskInv, Same, Members
  <2>9. g \notin disturbed'
          /\ (pc'[g] \in {"removed", "added"} \/ (pc'[g] = "detached" /\ drops'[g])) =>
          \A k \in Task \ cleared'[g] : assignee'[k] # user'[g]
    BY <1>1, <2>4, <2>6, MembershipAssumption DEF TaskInv, Same
  <2>10. pc'[g] = "chosen" => wasOwner'[g]
    BY <2>6 DEF TaskInv, Same
  <2> QED
    BY <2>7, <2>8, <2>9, <2>10 DEF TaskInv
<1>6. TaskInv(h)'
  BY <1>2 DEF TaskInv
<1> QED
  BY <1>3, <1>4, <1>5, <1>6 DEF RefusalInv

LEMMA RefusalStep == IInv /\ RefusalInv /\ [Next]_vars => RefusalInv'
<1> SUFFICES ASSUME IInv, RefusalInv, [Next]_vars PROVE RefusalInv'
  OBVIOUS
<1>1. CASE UNCHANGED vars
  BY <1>1 DEF vars, dbVars, teamVars, taskVars, reqVars, history, RefusalInv, ClearedInv,
    RefusalsAreExplained, TaskInv, Members
<1>2. CASE Next
  <2>1. ~raced /\ TypeInv /\ OneOwner /\ NobodyIsHomeless /\ KnowInv
    BY <1>2 DEF Next, IInv
  <2>2. CASE \/ \E u \in User : CreateInvite(u)
             \/ \E t \in Team : ExpireInvite(t)
             \/ \E k \in Task : Unassign(k) \/ DeleteTask(k) \/ \E v \in User : Assign(k, v)
    BY <2>1, <2>2, AsideRefusal
  <2>3. ASSUME NEW h \in Handler,
               \/ \E u \in User : AskToLeave(h, u) \/ \E t \in Team : ReadInvite(h, u, t)
               \/ ReadMembership(h) \/ ChooseHeir(h) \/ PromoteHeir(h) \/ DropTeam(h)
               \/ DeleteMember(h) \/ Refuse(h) \/ AddMember(h) \/ GiveUp(h)
               \/ \E t \in Team : AddOwnTeam(h, t)
        PROVE  RefusalInv'
    BY <2>1, <2>3, RequestRefusal
  <2>4. ASSUME NEW h \in Handler, Commit(h) PROVE RefusalInv'
    BY <2>1, <2>4, CommitRefusal
  <2> QED
    BY <1>2, <2>2, <2>3, <2>4 DEF Next, Ask, Step
<1> QED
  BY <1>1, <1>2

\* The foreign key of tasks stands in the way of a move only if an assignment was
\* made while it ran or a deleted task still names the user
\* (store_user_team.go:459-462, tasks.sql:54-59).
THEOREM RefusalsHaveCauses == Spec => []RefusalsAreExplained
<1>1. RefusalInv => RefusalsAreExplained
  BY DEF RefusalInv
<1> QED
  BY <1>1, InitRefusal, RefusalStep, Invariance, PTL DEF Spec
================================================================================
