------------------------------- MODULE Membership -------------------------------
(***************************************************************************)
(* Who belongs to which team, and who owns it (store_user_team.go).        *)
(*                                                                         *)
(* JoinTeam and PostTeamLeave read the invite and the membership, and then *)
(* move the user in a READ COMMITTED transaction of several statements.    *)
(* The writes of a transaction are applied when it commits; until then the *)
(* rows it wrote are locked, which is a function of the program counters.  *)
(* A statement that would have to wait is not enabled.                     *)
(***************************************************************************)
EXTENDS FiniteSets, Naturals

CONSTANTS
  User,
  Team,       \* ids of teams; one that nothing refers to stands for a new one
  Home,       \* Home[u]: the team u got when signing up
  Handler,    \* requests in progress at one time
  Task,       \* tasks that are assigned to somebody at one time or another
  Nobody, NoTeam,
  MaxInvites  \* bound: teams with an open invite at one time

ASSUME MembershipAssumption ==
  /\ Home \in [User -> Team]
  /\ \A u, v \in User : Home[u] = Home[v] => u = v
  /\ Nobody \notin User \cup Handler /\ NoTeam \notin Team

VARIABLES
  team,     \* team[u]: the team of u's only row of team_members, or NoTeam
  owner,    \* the users whose row says role = 'owner'
  exists,   \* the rows of teams
  invited,  \* the teams with an invite code that has not expired
  assignee, \* assignee[k]: tasks.assignee_user_id, a member of the task's team;
            \*   a task that is not assigned may be any team's
  deleted,  \* the tasks that are marked as deleted and were assigned
  pc,       \* pc[h]: what the request did last
  user,     \* user[h]: the user who joins or leaves
  dest,     \* dest[h]: the team to join; NoTeam to leave for a new team
  from,     \* from[h], wasOwner[h]: the membership it has read
  wasOwner,
  heir,     \* heir[h]: the member it has found to become the owner
  drops,    \* drops[h]: it has deleted the team it leaves
  cleared,  \* cleared[h]: the tasks it has taken from the user
  disturbed, \* history: requests whose team or user another one has moved
            \* since they read the membership
  raced,    \* history: a disturbed request has committed
  late      \* history: requests that met an assignment after they had cleared
            \*   those of their user

teamVars == <<team, owner, exists, invited>>
taskVars == <<assignee, deleted>>
dbVars == <<teamVars, taskVars>>
reqVars == <<user, dest, from, wasOwner, heir, drops, cleared>>
history == <<disturbed, raced, late>>
vars == <<dbVars, pc, reqVars, history>>

Stages == {"idle", "asked", "known", "chosen", "detached", "removed", "added",
           "refused"}

TypeOK ==
  /\ team \in [User -> Team \cup {NoTeam}]
  /\ owner \subseteq User
  /\ exists \subseteq Team
  /\ invited \subseteq Team
  /\ assignee \in [Task -> User \cup {Nobody}]
  /\ deleted \subseteq Task
  /\ pc \in [Handler -> Stages]
  /\ user \in [Handler -> User \cup {Nobody}]
  /\ dest \in [Handler -> Team \cup {NoTeam}]
  /\ from \in [Handler -> Team \cup {NoTeam}]
  /\ wasOwner \in [Handler -> BOOLEAN]
  /\ heir \in [Handler -> User \cup {Nobody}]
  /\ drops \in [Handler -> BOOLEAN]
  /\ cleared \in [Handler -> SUBSET Task]
  /\ disturbed \subseteq Handler
  /\ raced \in BOOLEAN
  /\ late \subseteq Handler

\* Everybody has signed up and owns a team of one's own.
Init ==
  /\ team = Home
  /\ owner = User
  /\ exists = {Home[u] : u \in User}
  /\ invited = {}
  /\ assignee = [k \in Task |-> Nobody]
  /\ deleted = {}
  /\ pc = [h \in Handler |-> "idle"]
  /\ user = [h \in Handler |-> Nobody]
  /\ dest = [h \in Handler |-> NoTeam]
  /\ from = [h \in Handler |-> NoTeam]
  /\ wasOwner = [h \in Handler |-> FALSE]
  /\ heir = [h \in Handler |-> Nobody]
  /\ drops = [h \in Handler |-> FALSE]
  /\ cleared = [h \in Handler |-> {}]
  /\ disturbed = {}
  /\ raced = FALSE
  /\ late = {}

Goto(h, stage) == pc' = [pc EXCEPT ![h] = stage]

Members(t) == {u \in User : team[u] = t}

\* ListMembershipsByUserID
MembershipOf(u) == [team |-> team[u], owns |-> team[u] # NoTeam /\ u \in owner]

\* Mutant: the user himself may be found.
AllMembers(t, u) == {v \in User : team[v] = t}

\* GetOldestOtherTeamMember: any of them may be the oldest.
OtherMembers(t, u) == Members(t) \ {u}

\* Locks of transactions in progress.
InTransaction(g) == pc[g] \in {"detached", "removed", "added"}

RowDeleted(h, u) ==
  \E g \in Handler \ {h} :
    /\ InTransaction(g)
    /\ \/ drops[g] /\ team[u] = from[g]
       \/ pc[g] # "detached" /\ user[g] = u

RowLocked(h, u) ==
  RowDeleted(h, u) \/ \E g \in Handler \ {h} : InTransaction(g) /\ heir[g] = u

TaskLocked(h, k) == \E g \in Handler \ {h} : k \in cleared[g]

TeamDropped(h, t) ==
  \E g \in Handler \ {h} : InTransaction(g) /\ drops[g] /\ from[g] = t

TeamJoined(h, t) ==
  \E g \in Handler \ {h} : pc[g] = "added" /\ dest[g] = t

--------------------------------------------------------------------------------
(* Invites                                                                  *)

\* DeleteInviteCodesByTeamID and CreateInviteCode
ReplaceInviteCode(t) == invited' = invited \cup {t}

\* GetInviteCode finds a code of the team, and it has not expired.
HasInvite(t) == t \in invited

\* CreateInvite: the owner replaces the code of the team.
CreateInvite(u) ==
  /\ u \in owner
  /\ team[u] # NoTeam
  /\ ~TeamDropped(Nobody, team[u])
  /\ Cardinality(invited \cup {team[u]}) <= MaxInvites
  /\ ReplaceInviteCode(team[u])
  /\ UNCHANGED <<team, owner, exists, taskVars, pc, reqVars, history>>

ExpireInvite(t) ==
  /\ t \in invited
  /\ invited' = invited \ {t}
  /\ UNCHANGED <<team, owner, exists, taskVars, pc, reqVars, history>>

--------------------------------------------------------------------------------
(* Tasks: what CreateTask, PatchTask and DeleteTask do to their assignees.  *)
(* The assignee must be a member of the task's team (a foreign key).        *)

\* A request that has cleared the assignments of v, or is about to delete the
\* team, meets a new one.
MeetsAssignmentOf(g, v) ==
  /\ pc[g] \in {"chosen", "detached"}
  /\ from[g] = team[v]
  /\ user[g] = v \/ (wasOwner[g] /\ heir[g] = Nobody)

Assign(k, v) ==
  /\ k \notin deleted /\ ~TaskLocked(Nobody, k)
  /\ team[v] # NoTeam /\ ~TeamDropped(Nobody, team[v]) /\ ~RowDeleted(Nobody, v)
  /\ assignee[k] # Nobody => team[assignee[k]] = team[v]
  /\ assignee' = [assignee EXCEPT ![k] = v]
  /\ late' = late \cup {g \in Handler : MeetsAssignmentOf(g, v)}
  /\ UNCHANGED <<teamVars, deleted, pc, reqVars, disturbed, raced>>

Unassign(k) ==
  /\ k \notin deleted /\ ~TaskLocked(Nobody, k)
  /\ assignee[k] # Nobody
  /\ assignee' = [assignee EXCEPT ![k] = Nobody]
  /\ UNCHANGED <<teamVars, deleted, pc, reqVars, history>>

\* A deleted task keeps its assignee.
DeleteTask(k) ==
  /\ k \notin deleted /\ ~TaskLocked(Nobody, k)
  /\ assignee[k] # Nobody
  /\ deleted' = deleted \cup {k}
  /\ UNCHANGED <<teamVars, assignee, pc, reqVars, history>>

--------------------------------------------------------------------------------
(* JoinTeam and PostTeamLeave                                               *)

\* JoinTeam reads an invite that has not expired.
ReadInvite(h, u, t) ==
  /\ pc[h] = "idle"
  /\ HasInvite(t)
  /\ user' = [user EXCEPT ![h] = u]
  /\ dest' = [dest EXCEPT ![h] = t]
  /\ Goto(h, "asked")
  /\ UNCHANGED <<dbVars, from, wasOwner, heir, drops, cleared, history>>

\* A request has read the membership of u, outside of the transaction.
Knows(h, u) ==
  LET membership == MembershipOf(u)
  IN /\ from' = [from EXCEPT ![h] = membership.team]
     /\ wasOwner' = [wasOwner EXCEPT ![h] = membership.owns]
     /\ Goto(h, IF membership.team = NoTeam THEN "removed" ELSE "known")

\* JoinTeam: nobody joins the team he is in.
ReadMembership(h) ==
  /\ pc[h] = "asked"
  /\ MembershipOf(user[h]).team # dest[h]
  /\ Knows(h, user[h])
  /\ UNCHANGED <<dbVars, user, dest, heir, drops, cleared, history>>

\* PostTeamLeave: nobody without a team can leave.
AskToLeave(h, u) ==
  /\ pc[h] = "idle"
  /\ MembershipOf(u).team # NoTeam
  /\ user' = [user EXCEPT ![h] = u]
  /\ Knows(h, u)
  /\ UNCHANGED <<dbVars, dest, heir, drops, cleared, history>>

\* Mutant: an owner leaves like any other member.
ChooseNoHeir(h) ==
  /\ pc[h] = "known"
  /\ Goto(h, "detached")
  /\ UNCHANGED <<dbVars, reqVars, history>>

\* ClearTaskAssigneeByTeamAndUser: the tasks that are not deleted.
AssignedTasks(h) ==
  {k \in Task \ deleted : assignee[k] = user[h] /\ team[user[h]] = from[h]}

\* Mutant: the tasks stay assigned.
ChooseHeirKeepsTasks(h) ==
  LET others == OtherMembers(from[h], user[h])
  IN /\ pc[h] = "known"
     /\ IF ~wasOwner[h]
        THEN Goto(h, "detached") /\ UNCHANGED heir
        ELSE /\ Goto(h, "chosen")
             /\ \/ others = {} /\ UNCHANGED heir
                \/ \E v \in others : heir' = [heir EXCEPT ![h] = v]
     /\ UNCHANGED <<dbVars, user, dest, from, wasOwner, drops, cleared, history>>

\* detachFromCurrentTeam clears the assignments of the user, and an owner looks
\* for another member; the two statements commute with those of others.
ChooseHeir(h) ==
  LET others == OtherMembers(from[h], user[h])
  IN /\ pc[h] = "known"
     /\ \A k \in AssignedTasks(h) : ~TaskLocked(h, k)
     /\ cleared' = [cleared EXCEPT ![h] = AssignedTasks(h)]
     /\ IF ~wasOwner[h]
        THEN Goto(h, "detached") /\ UNCHANGED heir
        ELSE /\ Goto(h, "chosen")
             /\ \/ others = {} /\ UNCHANGED heir
                \/ \E v \in others : heir' = [heir EXCEPT ![h] = v]
     /\ UNCHANGED <<dbVars, user, dest, from, wasOwner, drops, history>>

\* UpdateTeamMemberRole: no row is updated when the heir has left by now.
PromoteHeir(h) ==
  /\ pc[h] = "chosen"
  /\ heir[h] # Nobody
  /\ ~RowLocked(h, heir[h])
  /\ heir' = [heir EXCEPT ![h] = IF team[heir[h]] = from[h] THEN @ ELSE Nobody]
  /\ Goto(h, "detached")
  /\ UNCHANGED <<dbVars, user, dest, from, wasOwner, drops, cleared, history>>

\* A task that h has not cleared names u: his row cannot be deleted.
KeptByKey(h, u) ==
  team[u] = from[h] /\ \E k \in Task \ cleared[h] : assignee[k] = u

\* DeleteTeam, with all that refers to the team, its members before its tasks.
DropTeam(h) ==
  /\ pc[h] = "chosen"
  /\ heir[h] = Nobody
  /\ ~TeamJoined(h, from[h]) /\ ~TeamDropped(h, from[h])
  /\ \A u \in Members(from[h]) : ~RowLocked(h, u) /\ ~KeptByKey(h, u)
  /\ drops' = [drops EXCEPT ![h] = TRUE]
  /\ Goto(h, "detached")
  /\ UNCHANGED <<dbVars, user, dest, from, wasOwner, heir, cleared, history>>

\* DeleteTeamMember, unless the row went with its team.
DeleteMember(h) ==
  /\ pc[h] = "detached"
  /\ drops[h] \/ (~RowLocked(h, user[h]) /\ ~KeptByKey(h, user[h]))
  /\ Goto(h, "removed")
  /\ late' = late \ {h}
  /\ UNCHANGED <<dbVars, reqVars, disturbed, raced>>

\* What a request knew when it is over.
Forget(h) ==
  /\ dest' = [dest EXCEPT ![h] = NoTeam]
  /\ from' = [from EXCEPT ![h] = NoTeam]
  /\ wasOwner' = [wasOwner EXCEPT ![h] = FALSE]
  /\ heir' = [heir EXCEPT ![h] = Nobody]
  /\ drops' = [drops EXCEPT ![h] = FALSE]
  /\ cleared' = [cleared EXCEPT ![h] = {}]

\* The foreign key of tasks refuses the deletion of the row, or of the team: the
\* request is over.
Refuse(h) ==
  /\ \/ pc[h] = "chosen" /\ heir[h] = Nobody
        /\ \E u \in Members(from[h]) : KeptByKey(h, u)
     \/ pc[h] = "detached" /\ ~drops[h] /\ KeptByKey(h, user[h])
  /\ Goto(h, "refused")
  /\ Forget(h)
  /\ disturbed' = disturbed \ {h}
  /\ UNCHANGED <<dbVars, user, raced, late>>

\* The team of u once h has committed what it did so far.
TeamLeft(h, u) ==
  IF (u = user[h] \/ drops[h]) /\ team[u] = from[h] THEN NoTeam ELSE team[u]

\* Mutant: the team to join need not exist.
AddMemberAnywhere(h) ==
  /\ pc[h] = "removed"
  /\ ~RowLocked(h, user[h])
  /\ TeamLeft(h, user[h]) \in {NoTeam, dest[h]}
  /\ Goto(h, "added")
  /\ UNCHANGED <<dbVars, reqVars, history>>

\* AddTeamMember: the team joined must exist, the user must not have another.
AddMember(h) ==
  /\ pc[h] = "removed"
  /\ dest[h] # NoTeam
  /\ dest[h] \in exists /\ ~TeamDropped(h, dest[h])
  /\ ~RowLocked(h, user[h])
  /\ TeamLeft(h, user[h]) \in {NoTeam, dest[h]}
  /\ Goto(h, "added")
  /\ UNCHANGED <<dbVars, reqVars, history>>

\* CreateTeam and AddTeamMember of a user who leaves.
AddOwnTeam(h, t) ==
  /\ pc[h] = "removed"
  /\ dest[h] = NoTeam
  /\ t \notin exists
  /\ \A g \in Handler : dest[g] # t /\ from[g] # t
  /\ ~RowLocked(h, user[h])
  /\ TeamLeft(h, user[h]) = NoTeam
  /\ dest' = [dest EXCEPT ![h] = t]
  /\ Goto(h, "added")
  /\ UNCHANGED <<dbVars, user, from, wasOwner, heir, drops, cleared, history>>

Reset(h) ==
  /\ Goto(h, "idle")
  /\ user' = [user EXCEPT ![h] = Nobody]
  /\ Forget(h)
  /\ late' = late \ {h}

\* The transaction commits: its writes become visible.
Commit(h) ==
  LET u == user[h]
      t == dest[h]
      gone == IF drops[h] THEN {from[h]} ELSE {}
      stays == TeamLeft(h, u) = t
      created == t \notin exists
  IN /\ pc[h] = "added"
     /\ team' = [v \in User |-> IF v = u THEN t ELSE TeamLeft(h, v)]
     /\ owner' = {v \in User :
                    IF v = u THEN created \/ (stays /\ u \in owner)
                    ELSE (v \in owner \/ v = heir[h]) /\ TeamLeft(h, v) # NoTeam}
     /\ exists' = (exists \ gone) \cup {t}
     /\ invited' = invited \ gone
     /\ assignee' = [k \in Task |-> IF k \in cleared[h] THEN Nobody ELSE assignee[k]]
     /\ UNCHANGED deleted
     /\ disturbed' = (disturbed \ {h}) \cup
                       {g \in Handler \ {h} :
                          /\ pc[g] \notin {"idle", "asked", "refused"}
                          /\ user[g] = u \/ from[g] \in {from[h], t}}
     /\ raced' = (raced \/ h \in disturbed)
     /\ Reset(h)

\* The request is refused (If-Match, already joined, no membership), or one of
\* its statements fails, also to break a deadlock: the transaction is undone.
GiveUp(h) ==
  /\ pc[h] # "idle"
  /\ Reset(h)
  /\ disturbed' = disturbed \ {h}
  /\ UNCHANGED <<dbVars, raced>>

--------------------------------------------------------------------------------
Ask ==
  \/ \E u \in User : CreateInvite(u)
  \/ \E t \in Team : ExpireInvite(t)
  \/ \E k \in Task : Unassign(k) \/ DeleteTask(k) \/ \E v \in User : Assign(k, v)
  \/ \E h \in Handler, u \in User :
       AskToLeave(h, u) \/ \E t \in Team : ReadInvite(h, u, t)

Step(h) ==
  \/ ReadMembership(h)
  \/ ChooseHeir(h)
  \/ PromoteHeir(h)
  \/ DropTeam(h)
  \/ DeleteMember(h)
  \/ Refuse(h)
  \/ AddMember(h)
  \/ \E t \in Team : AddOwnTeam(h, t)
  \/ Commit(h)

\* Bound: the first race ends the behaviour.
Next == ~raced /\ (Ask \/ \E h \in Handler : Step(h) \/ GiveUp(h))

Spec == Init /\ [][Next]_vars

--------------------------------------------------------------------------------
(* Properties                                                               *)

\* Nobody who has signed up is ever without a team
\* (router_test.go:541-577: a user who has joined is in the team).
NobodyIsHomeless == \A u \in User : team[u] \in exists

\* Every team has a member, and exactly one of its members owns it.
TeamsAreOwned ==
  \A t \in exists : Cardinality(Members(t) \cap owner) = 1

\* Requests that do not overlap with another move of the same user or in the
\* team they leave keep every user in a team and every team in the hands of
\* one owner, however they interleave with moves elsewhere
\* (store_user_team.go:330-484).
OnlyRacesLoseOwners == raced \/ (TeamsAreOwned /\ NobodyIsHomeless)

AllTeams == INSTANCE Teams

\* Such requests are not to be told from moves made at a stroke: although the
\* membership, the heir and the emptiness of the team were read by statements of
\* their own, what is committed is what they would decide at that moment
\* (store_user_team.go:341-357, 464-483).
MovesAreIndivisible ==
  AllTeams!Init /\ [][raced' \/ AllTeams!Next]_<<team, owner, exists>>

\* The foreign key refuses a move only because of an assignment made while it
\* ran, or of a deleted task that still names the user: what else he is
\* assigned to is cleared (store_user_team.go:459-462, tasks.sql:54-59).
RefusalsAreExplained ==
  \A h \in Handler :
    pc[h] = "refused" =>
      h \in late \/ \E k \in deleted : assignee[k] = user[h]
================================================================================
