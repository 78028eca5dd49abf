------------------------------ MODULE TeamRevision ------------------------------
(***************************************************************************)
(* Optimistic concurrency on teams.state_revision (store_sync.go).         *)
(*                                                                         *)
(* A guarded mutation (runWithTeamRevisionCAS) reads and rewrites rows in  *)
(* one READ COMMITTED transaction and then compares-and-sets the team's    *)
(* revision against the one its If-Match header names.  Joining and        *)
(* leaving (JoinTeam, PostTeamLeave) check the header before their         *)
(* transaction and bump the revision after it, at best effort.  Handlers   *)
(* of any number of server processes interleave at every statement.        *)
(*                                                                         *)
(* The row locks Postgres takes are functions of the program counters: an  *)
(* uncommitted write of an item holds its row until the transaction ends,  *)
(* a successful compare-and-set holds the row of the team.                 *)
(***************************************************************************)
EXTENDS Naturals

CONSTANTS
  Team,       \* the teams
  Item,       \* rows of a team that guarded mutations rewrite
  Handler,    \* request handlers: goroutines of any server process
  NoTag,      \* a request without an If-Match header
  NoItem,     \* the handler rewrites no row
  NoTeam,     \* no team: not a member yet, or a team nobody else knows of
  Attempts,   \* tries of a best-effort bump: 3 in the code
  MaxRev      \* bound: requests arrive while the revision is below it

Tag == [team : Team, rev : Nat]

ASSUME ConstantsAssumption ==
  /\ Attempts \in Nat \ {0}
  /\ MaxRev \in Nat
  /\ NoTag \notin Tag
  /\ NoTeam \notin Team
  /\ NoItem \notin Item

VARIABLES
  rev,        \* rev[t]: committed teams.state_revision of t
  data,       \* data[t][i]: mutations contained in the committed value of i
  pc,         \* pc[h]: what the handler did last
  team,       \* team[h]: the team whose revision h is to advance
  tag,        \* tag[h]: its If-Match tag; in a bump, the revision it read
  item,       \* item[h]: the row it rewrites
  seen,       \* seen[h]: the value of that row it read
  joined,     \* joined[h]: the team whose revision it bumps last
  tries,      \* tries[h]: attempts of the current bump that have failed
  owed,       \* owed[h][t]: history, the first revision of t that tells of
              \* the move of h; 0 if h moved nobody into or out of t
  faulted,    \* history: handlers whose bump met a database error
  published,  \* revisions handed to the event hub, as <<team, revision>>
  lost        \* history: revisions whose handler died before publishing

dbVars == <<rev, data>>
reqVars == <<team, tag, item, seen, joined, tries, owed, faulted>>
vars == <<rev, data, pc, team, tag, item, seen, joined, tries, owed, faulted,
          published, lost>>

\* The stages of a guarded mutation, of a move, and of the bumps after it.
GuardedStages == {"received", "begun", "read", "wrote", "won", "committed"}
MoveStages == {"moveReceived", "moving"}
BumpStages == {"bump", "bumpRead", "bumped"}
Stages == GuardedStages \cup MoveStages \cup BumpStages \cup {"idle", "answered"}

TypeOK ==
  /\ rev \in [Team -> Nat]
  /\ data \in [Team -> [Item -> Nat]]
  /\ pc \in [Handler -> Stages]
  /\ team \in [Handler -> Team \cup {NoTeam}]
  /\ tag \in [Handler -> Tag \cup {NoTag}]
  /\ item \in [Handler -> Item \cup {NoItem}]
  /\ seen \in [Handler -> Nat]
  /\ joined \in [Handler -> Team \cup {NoTeam}]
  /\ tries \in [Handler -> Nat]
  /\ owed \in [Handler -> [Team -> Nat]]
  /\ faulted \subseteq Handler
  /\ published \subseteq Team \X Nat
  /\ lost \subseteq Team \X Nat

--------------------------------------------------------------------------------
\* parseRevisionFromETag: the number at the end; the team is not looked at.
ParseRevision(etag) == etag.rev

\* Another transaction has an uncommitted write of the row h is to write.
RowLocked(h) ==
  \E g \in Handler \ {h} :
    pc[g] \in {"wrote", "won"} /\ team[g] = team[h] /\ item[g] = item[h]

\* Another transaction has an uncommitted update of the row of team t.
TeamLocked(t) == \E g \in Handler : pc[g] = "won" /\ team[g] = t

Goto(h, stage) == pc' = [pc EXCEPT ![h] = stage]

\* Tags clients hold were issued by this service: the current or an earlier
\* revision of some team.
Issued == {[team |-> t, rev |-> r] : t \in Team, r \in 0..MaxRev}
IssuedTags == {g \in Issued : g.rev <= rev[g.team]}

Init ==
  /\ rev = [t \in Team |-> 0]
  /\ data = [t \in Team |-> [i \in Item |-> 0]]
  /\ pc = [h \in Handler |-> "idle"]
  /\ team = [h \in Handler |-> NoTeam]
  /\ tag = [h \in Handler |-> NoTag]
  /\ item = [h \in Handler |-> NoItem]
  /\ seen = [h \in Handler |-> 0]
  /\ joined = [h \in Handler |-> NoTeam]
  /\ tries = [h \in Handler |-> 0]
  /\ owed = [h \in Handler |-> [t \in Team |-> 0]]
  /\ faulted = {}
  /\ published = {}
  /\ lost = {}

--------------------------------------------------------------------------------
(* Guarded mutations: runWithTeamRevisionCAS                                *)

\* A mutating request of a member of t arrives (primaryTeamLocked finds t).
Receive(h, t, g, i) ==
  /\ pc[h] = "idle"
  /\ rev[t] < MaxRev
  /\ Goto(h, "received")
  /\ team' = [team EXCEPT ![h] = t]
  /\ tag' = [tag EXCEPT ![h] = g]
  /\ item' = [item EXCEPT ![h] = i]
  /\ UNCHANGED <<dbVars, seen, joined, tries, owed, faulted, published, lost>>

\* requireIfMatch: without the header the answer is 428.
RequireIfMatch(h) ==
  /\ pc[h] = "received"
  /\ Goto(h, IF tag[h] = NoTag THEN "answered" ELSE "begun")
  /\ UNCHANGED <<dbVars, reqVars, published, lost>>

\* mutateFn reads the row it is about to rewrite.
MutateReads(h) ==
  /\ pc[h] = "begun"
  /\ seen' = [seen EXCEPT ![h] = data[team[h]][item[h]]]
  /\ Goto(h, "read")
  /\ UNCHANGED <<dbVars, team, tag, item, joined, tries, owed, faulted,
                 published, lost>>

\* mutateFn refuses the request, or finds nothing to do (errNoStateChange):
\* the transaction is rolled back before the revision is compared.
MutateRefuses(h) ==
  /\ pc[h] = "read"
  /\ Goto(h, "answered")
  /\ UNCHANGED <<dbVars, reqVars, published, lost>>

\* mutateFn rewrites the row with a value computed from the one it read;
\* the statement waits for a writer of the same row.
MutateWrites(h) ==
  /\ pc[h] = "read"
  /\ ~RowLocked(h)
  /\ Goto(h, "wrote")
  /\ UNCHANGED <<dbVars, reqVars, published, lost>>

\* Mutant: the update of the revision has no condition.
CompareAndSetUnguarded(h) ==
  /\ pc[h] = "wrote"
  /\ ~TeamLocked(team[h])
  /\ Goto(h, "won")
  /\ UNCHANGED <<dbVars, reqVars, published, lost>>

\* Mutant: the revision is compared with a plain SELECT, which does not wait.
CompareAndSetPlainRead(h) ==
  /\ pc[h] = "wrote"
  /\ Goto(h, IF rev[team[h]] = ParseRevision(tag[h]) THEN "won" ELSE "answered")
  /\ UNCHANGED <<dbVars, reqVars, published, lost>>

\* Mutant: a mutation that loses starts over with the tag it has.
CompareAndSetAgain(h) ==
  /\ pc[h] = "wrote"
  /\ ~TeamLocked(team[h])
  /\ Goto(h, IF rev[team[h]] = ParseRevision(tag[h]) THEN "won" ELSE "begun")
  /\ UNCHANGED <<dbVars, reqVars, published, lost>>

\* UpdateTeamStateRevisionIfMatch waits for the row of the team, and then
\* compares the revision that is committed at that moment.
CompareAndSet(h) ==
  /\ pc[h] = "wrote"
  /\ ~TeamLocked(team[h])
  /\ Goto(h, IF rev[team[h]] = ParseRevision(tag[h]) THEN "won" ELSE "answered")
  /\ UNCHANGED <<dbVars, reqVars, published, lost>>

\* Mutant: the mutation is committed without a new revision.
CommitKeepsRevision(h) ==
  /\ pc[h] = "won"
  /\ data' = [data EXCEPT ![team[h]][item[h]] = seen[h] + 1]
  /\ Goto(h, "committed")
  /\ UNCHANGED <<rev, reqVars, published, lost>>

Commit(h) ==
  /\ pc[h] = "won"
  /\ data' = [data EXCEPT ![team[h]][item[h]] = seen[h] + 1]
  /\ rev' = [rev EXCEPT ![team[h]] = @ + 1]
  /\ Goto(h, "committed")
  /\ UNCHANGED <<reqVars, published, lost>>

\* The event carries the revision the UPDATE returned.
Publish(h) ==
  /\ pc[h] = "committed"
  /\ published' = published \cup {<<team[h], ParseRevision(tag[h]) + 1>>}
  /\ Goto(h, "answered")
  /\ UNCHANGED <<dbVars, reqVars, lost>>

--------------------------------------------------------------------------------
(* Joining and leaving: JoinTeam, PostTeamLeave                             *)

\* A request to move from team a to team b arrives.  a is NoTeam for a user
\* without a membership, b is NoTeam for the new team a leaver gets.
ReceiveMove(h, a, b, g) ==
  /\ pc[h] = "idle"
  /\ a # b
  /\ \A t \in {a, b} \ {NoTeam} : rev[t] < MaxRev
  /\ Goto(h, "moveReceived")
  /\ team' = [team EXCEPT ![h] = a]
  /\ tag' = [tag EXCEPT ![h] = g]
  /\ joined' = [joined EXCEPT ![h] = b]
  /\ UNCHANGED <<dbVars, item, seen, tries, owed, faulted, published, lost>>

\* verifyIfMatchAgainstTeam: a plain read, outside any transaction.
VerifyIfMatch(h) ==
  /\ pc[h] = "moveReceived"
  /\ Goto(h, IF \/ team[h] = NoTeam
                \/ /\ tag[h] # NoTag
                   /\ rev[team[h]] = ParseRevision(tag[h])
             THEN "moving" ELSE "answered")
  /\ UNCHANGED <<dbVars, reqVars, published, lost>>

\* The transaction that moves the member commits; it does not touch the
\* revision of either team.  The bumps start with the team that was left.
CommitMove(h) ==
  /\ pc[h] = "moving"
  /\ owed' = [owed EXCEPT ![h] =
                 [t \in Team |-> IF t \in {team[h], joined[h]} THEN rev[t] + 1 ELSE 0]]
  /\ IF team[h] = NoTeam
     THEN /\ team' = [team EXCEPT ![h] = joined[h]]
          /\ joined' = [joined EXCEPT ![h] = NoTeam]
     ELSE UNCHANGED <<team, joined>>
  /\ Goto(h, "bump")
  /\ UNCHANGED <<dbVars, tag, item, seen, tries, faulted, published, lost>>

(* bumpTeamRevisionBestEffort                                               *)

\* Mutant: the bump trusts the revision the request named.
BumpReadsNothing(h) ==
  /\ pc[h] = "bump"
  /\ tag' = [tag EXCEPT ![h] = IF @ = NoTag THEN [team |-> team[h], rev |-> 0] ELSE @]
  /\ Goto(h, "bumpRead")
  /\ UNCHANGED <<dbVars, team, item, seen, joined, tries, owed, faulted,
                 published, lost>>

BumpReads(h) ==
  /\ pc[h] = "bump"
  /\ tag' = [tag EXCEPT ![h] = [team |-> team[h], rev |-> rev[team[h]]]]
  /\ Goto(h, "bumpRead")
  /\ UNCHANGED <<dbVars, team, item, seen, joined, tries, owed, faulted,
                 published, lost>>

\* The bump of team[h] is over, and the next one begins or the handler answers.
EndBump(h) ==
  /\ tries' = [tries EXCEPT ![h] = 0]
  /\ team' = [team EXCEPT ![h] = joined[h]]
  /\ joined' = [joined EXCEPT ![h] = NoTeam]
  /\ Goto(h, IF joined[h] = NoTeam THEN "answered" ELSE "bump")

\* One more attempt has failed.
CountTry(h) ==
  IF tries[h] + 1 = Attempts
  THEN EndBump(h)
  ELSE /\ tries' = [tries EXCEPT ![h] = @ + 1]
       /\ Goto(h, "bump")
       /\ UNCHANGED <<team, joined>>

\* The statement commits by itself, and the event follows.
BumpWins(h) ==
  /\ pc[h] = "bumpRead"
  /\ ~TeamLocked(team[h])
  /\ rev[team[h]] = ParseRevision(tag[h])
  /\ rev' = [rev EXCEPT ![team[h]] = @ + 1]
  /\ Goto(h, "bumped")
  /\ UNCHANGED <<data, reqVars, published, lost>>

BumpLoses(h) ==
  /\ pc[h] = "bumpRead"
  /\ ~TeamLocked(team[h])
  /\ rev[team[h]] # ParseRevision(tag[h])
  /\ CountTry(h)
  /\ UNCHANGED <<dbVars, tag, item, seen, owed, faulted, published, lost>>

\* The read or the update of an attempt fails for another reason.
BumpFaults(h) ==
  /\ pc[h] \in {"bump", "bumpRead"}
  /\ faulted' = faulted \cup {h}
  /\ CountTry(h)
  /\ UNCHANGED <<dbVars, tag, item, seen, owed, published, lost>>

\* Mutant: the event names the team that is bumped next.
BumpPublishesJoined(h) ==
  /\ pc[h] = "bumped"
  /\ published' = published \cup {<<joined[h], ParseRevision(tag[h]) + 1>>}
  /\ EndBump(h)
  /\ UNCHANGED <<dbVars, tag, item, seen, owed, faulted, lost>>

BumpPublishes(h) ==
  /\ pc[h] = "bumped"
  /\ published' = published \cup {<<team[h], ParseRevision(tag[h]) + 1>>}
  /\ EndBump(h)
  /\ UNCHANGED <<dbVars, tag, item, seen, owed, faulted, lost>>

--------------------------------------------------------------------------------
\* What a handler leaves behind when it ends.
Forget(h) ==
  /\ Goto(h, "idle")
  /\ team' = [team EXCEPT ![h] = NoTeam]
  /\ tag' = [tag EXCEPT ![h] = NoTag]
  /\ item' = [item EXCEPT ![h] = NoItem]
  /\ seen' = [seen EXCEPT ![h] = 0]
  /\ joined' = [joined EXCEPT ![h] = NoTeam]
  /\ tries' = [tries EXCEPT ![h] = 0]
  /\ owed' = [owed EXCEPT ![h] = [t \in Team |-> 0]]
  /\ faulted' = faulted \ {h}
  /\ UNCHANGED <<dbVars, published>>

Answer(h) ==
  /\ pc[h] = "answered"
  /\ Forget(h)
  /\ UNCHANGED lost

\* A statement fails, the client goes away or the process dies: Postgres
\* rolls back what is not committed.  What is committed stays, and its
\* event, if it is not out yet, is lost.
Die(h) ==
  /\ pc[h] \notin {"idle", "answered"}
  /\ lost' = IF pc[h] \in {"committed", "bumped"}
             THEN lost \cup {<<team[h], ParseRevision(tag[h]) + 1>>}
             ELSE lost
  /\ Forget(h)

Guarded(h) ==
  \/ RequireIfMatch(h) \/ MutateReads(h) \/ MutateRefuses(h) \/ MutateWrites(h)
  \/ CompareAndSet(h) \/ Commit(h) \/ Publish(h)

Move(h) ==
  \/ VerifyIfMatch(h) \/ CommitMove(h) \/ BumpReads(h) \/ BumpWins(h)
  \/ BumpLoses(h) \/ BumpFaults(h) \/ BumpPublishes(h)

Arrive(h) ==
  \/ \E t \in Team, g \in IssuedTags \cup {NoTag}, i \in Item : Receive(h, t, g, i)
  \/ \E a, b \in Team \cup {NoTeam}, g \in IssuedTags \cup {NoTag} :
       ReceiveMove(h, a, b, g)

Next == \E h \in Handler : Arrive(h) \/ Guarded(h) \/ Move(h) \/ Answer(h) \/ Die(h)

Spec == Init /\ [][Next]_vars

--------------------------------------------------------------------------------
(* Fairness.  A handler that can run does; the queues of Postgres for a row *)
(* are first come first served, so a statement that can have its row again  *)
(* and again gets it.  Clients need not send anything, nothing need fail.   *)

Steps(h) ==
  \/ RequireIfMatch(h) \/ MutateReads(h) \/ Commit(h) \/ Publish(h)
  \/ VerifyIfMatch(h) \/ CommitMove(h) \/ BumpReads(h) \/ BumpPublishes(h)
  \/ Answer(h)

FairSpec ==
  /\ Spec
  /\ \A h \in Handler :
       /\ WF_vars(Steps(h))
       /\ SF_vars(MutateWrites(h))
       /\ SF_vars(CompareAndSet(h))
       /\ SF_vars(BumpWins(h) \/ BumpLoses(h))

--------------------------------------------------------------------------------
(* Properties                                                               *)

\* A transaction whose compare-and-set succeeded with a tag of its own team
\* still holds the newest committed value of the row it rewrites: nobody has
\* committed since it read, and nobody can before it ends
\* (store_sync.go:142-166).
WinnerReadsCurrent ==
  \A h \in Handler :
    pc[h] = "won" /\ tag[h].team = team[h] =>
      /\ rev[team[h]] = ParseRevision(tag[h])
      /\ seen[h] = data[team[h]][item[h]]

\* A mutation is applied only to the team whose revision its request names
\* (README.md:97: a mismatch is answered with 412).
CommitNamesItsTeam ==
  \A h \in Handler : pc[h] = "won" => tag[h].team = team[h]

InFlight(h) == pc[h] \in {"committed", "bumped"}
Revision(h) == <<team[h], ParseRevision(tag[h]) + 1>>

\* Every revision of a team has one owner that announces it: its event is
\* published, or still to be published by the handler that made it, or was
\* lost when that handler died; and no event names a revision that a
\* refetch cannot see yet (publish after commit, store_sync.go:170-179).
EveryRevisionIsAnnouncedOnce ==
  /\ published \cup lost \cup {Revision(h) : h \in {g \in Handler : InFlight(g)}}
       = UNION {{t} \X (1..rev[t]) : t \in Team}
  /\ published \cap lost = {}
  /\ \A h \in Handler :
       InFlight(h) =>
         /\ Revision(h) \notin published \cup lost
         /\ \A g \in Handler \ {h} : InFlight(g) => Revision(g) # Revision(h)

\* Best effort is enough among healthy handlers: when a join or leave is
\* answered and no bump met a database error, both teams have a revision made
\* after the move was committed, even if every attempt of the handler was
\* lost to others (store_sync.go:183-215, store_user_team.go:390-393, 454-455).
MoveIsRevisioned ==
  \A h \in Handler :
    pc[h] = "answered" /\ h \notin faulted =>
      \A t \in Team : owed[h][t] <= rev[t]

\* Mutations are indivisible: the module implements TeamHistory, its revisions
\* and its items being the committed ones.
History ==
  INSTANCE TeamHistory WITH Team <- Team, Item <- Item, rev <- rev, data <- data

Linearizable == History!Spec

\* No handler waits forever for the rows others hold.
HandlersAnswer ==
  \A h \in Handler : pc[h] # "idle" ~> pc[h] = "idle"
================================================================================
