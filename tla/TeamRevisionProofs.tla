-------------------------- MODULE TeamRevisionProofs --------------------------
(***************************************************************************)
(* Proofs about TeamRevision, for any sets of teams, rows and handlers.    *)
(*                                                                         *)
(* GuardInv is the reason the compare-and-set is safe: a tag of the team   *)
(* is never newer than the team, so as long as the revision is still the   *)
(* one the tag names, no mutation has been committed since the tag was     *)
(* issued, and what the transaction has read is current.                   *)
(***************************************************************************)
EXTENDS TeamRevision, TLAPS

\* What a handler holds at each stage.
StageInv ==
  \A h \in Handler :
    /\ pc[h] \in GuardedStages => team[h] \in Team /\ item[h] \in Item
    /\ pc[h] \in GuardedStages \ {"received"} => tag[h] \in Tag
    /\ pc[h] \in MoveStages => team[h] # joined[h]
    /\ pc[h] \in BumpStages => team[h] \in Team
    /\ pc[h] \in {"bumpRead", "bumped"} => tag[h] \in Tag

\* The tag of h was issued by the team whose state h changes.
OwnTag(h) == tag[h] \in Tag /\ tag[h].team = team[h]

GuardInv ==
  \A h \in Handler :
    /\ pc[h] \in {"received", "begun", "read", "wrote", "won"} /\ OwnTag(h)
         => tag[h].rev <= rev[team[h]]
    /\ pc[h] \in {"read", "wrote", "won"} /\ OwnTag(h)
         /\ tag[h].rev = rev[team[h]]
         => seen[h] = data[team[h]][item[h]]
    /\ pc[h] = "won" =>
         /\ tag[h].rev = rev[team[h]]
         /\ \A g \in Handler \ {h} : pc[g] = "won" => team[g] # team[h]

TypeInv == TypeOK /\ StageInv
IInv == TypeInv /\ GuardInv

--------------------------------------------------------------------------------
\* The initial state has the types and the stages.
LEMMA InitType == Init => TypeInv
  BY ConstantsAssumption
     DEF Init, TypeInv, TypeOK, StageInv, Stages, GuardedStages, MoveStages,
         BumpStages

\* Ending a bump or counting a failed attempt leaves h at a stage that fits.
LEMMA EndBumpType ==
  ASSUME TypeInv, NEW h \in Handler, EndBump(h)
  PROVE  /\ tries' \in [Handler -> Nat]
         /\ team' \in [Handler -> Team \cup {NoTeam}]
         /\ joined' \in [Handler -> Team \cup {NoTeam}]
         /\ pc' \in [Handler -> Stages]
         /\ pc'[h] \in {"answered", "bump"}
         /\ pc'[h] = "bump" => team'[h] \in Team
         /\ \A g \in Handler \ {h} :
              pc'[g] = pc[g] /\ team'[g] = team[g] /\ joined'[g] = joined[g]
  BY DEF EndBump, Goto, TypeInv, TypeOK, Stages, GuardedStages, MoveStages,
         BumpStages

\* The same for an attempt that has failed.
LEMMA CountTryType ==
  ASSUME TypeInv, NEW h \in Handler, pc[h] \in BumpStages, CountTry(h)
  PROVE  /\ tries' \in [Handler -> Nat]
         /\ team' \in [Handler -> Team \cup {NoTeam}]
         /\ joined' \in [Handler -> Team \cup {NoTeam}]
         /\ pc' \in [Handler -> Stages]
         /\ pc'[h] \in {"answered", "bump"}
         /\ pc'[h] = "bump" => team'[h] \in Team
         /\ \A g \in Handler \ {h} :
              pc'[g] = pc[g] /\ team'[g] = team[g] /\ joined'[g] = joined[g]
<1>1. CASE tries[h] + 1 = Attempts
  <2>1. EndBump(h)
    BY <1>1 DEF CountTry
  <2> QED BY <2>1, EndBumpType
<1>2. CASE tries[h] + 1 # Attempts
  <2>1. /\ tries' = [tries EXCEPT ![h] = @ + 1]
        /\ pc' = [pc EXCEPT ![h] = "bump"]
        /\ UNCHANGED <<team, joined>>
    BY <1>2 DEF CountTry, Goto
  <2>2. team[h] \in Team
    BY DEF TypeInv, StageInv
  <2> QED
    BY <2>1, <2>2 DEF TypeInv, TypeOK, Stages, BumpStages
<1> QED BY <1>1, <1>2

\* Every step keeps the types and the stages.
LEMMA TypeStep == TypeInv /\ [Next]_vars => TypeInv'
<1> SUFFICES ASSUME TypeInv, [Next]_vars PROVE TypeInv'
  OBVIOUS
<1> USE ConstantsAssumption
    DEF TypeInv, TypeOK, StageInv, Stages, GuardedStages, MoveStages, BumpStages,
        Goto, dbVars, reqVars
<1>1. CASE UNCHANGED vars
  BY <1>1 DEF vars
<1>2. ASSUME NEW h \in Handler, Arrive(h) PROVE TypeInv'
  <2>1. ASSUME NEW t \in Team, NEW g \in IssuedTags \cup {NoTag}, NEW i \in Item,
               Receive(h, t, g, i)
        PROVE  TypeInv'
    BY <2>1 DEF Receive, IssuedTags, Issued, Tag
  <2>2. ASSUME NEW a \in Team \cup {NoTeam}, NEW b \in Team \cup {NoTeam},
               NEW g \in IssuedTags \cup {NoTag}, ReceiveMove(h, a, b, g)
        PROVE  TypeInv'
    BY <2>2 DEF ReceiveMove, IssuedTags, Issued, Tag
  <2> QED BY <1>2, <2>1, <2>2 DEF Arrive
<1>3. ASSUME NEW h \in Handler, RequireIfMatch(h) PROVE TypeInv'
  BY <1>3 DEF RequireIfMatch, Tag
<1>4. ASSUME NEW h \in Handler, MutateReads(h) PROVE TypeInv'
  BY <1>4 DEF MutateReads, Tag
<1>5. ASSUME NEW h \in Handler, MutateRefuses(h) PROVE TypeInv'
  BY <1>5 DEF MutateRefuses, Tag
<1>6. ASSUME NEW h \in Handler, MutateWrites(h) PROVE TypeInv'
  BY <1>6 DEF MutateWrites, Tag
<1>7. ASSUME NEW h \in Handler, CompareAndSet(h) PROVE TypeInv'
  BY <1>7 DEF CompareAndSet, Tag
<1>8. ASSUME NEW h \in Handler, Commit(h) PROVE TypeInv'
  BY <1>8 DEF Commit, Tag
<1>9. ASSUME NEW h \in Handler, Publish(h) PROVE TypeInv'
  BY <1>9 DEF Publish, ParseRevision, Tag
<1>10. ASSUME NEW h \in Handler, VerifyIfMatch(h) PROVE TypeInv'
  BY <1>10 DEF VerifyIfMatch, Tag
<1>11. ASSUME NEW h \in Handler, CommitMove(h) PROVE TypeInv'
  <2>1. CASE team[h] = NoTeam
    <3>1. /\ pc' = [pc EXCEPT ![h] = "bump"]
          /\ team' = [team EXCEPT ![h] = joined[h]]
          /\ joined' = [joined EXCEPT ![h] = NoTeam]
          /\ owed' \in [Handler -> [Team -> Nat]]
          /\ joined[h] \in Team
          /\ UNCHANGED <<rev, data, tag, item, seen, tries, faulted, published, lost>>
      BY <1>11, <2>1 DEF CommitMove
    <3> QED BY <3>1
  <2>2. CASE team[h] # NoTeam
    BY <1>11, <2>2 DEF CommitMove
  <2> QED BY <2>1, <2>2
<1>12. ASSUME NEW h \in Handler, BumpReads(h) PROVE TypeInv'
  BY <1>12 DEF BumpReads, Tag
<1>13. ASSUME NEW h \in Handler, BumpWins(h) PROVE TypeInv'
  BY <1>13 DEF BumpWins, Tag
<1>14. ASSUME NEW h \in Handler, BumpLoses(h) PROVE TypeInv'
  BY <1>14, CountTryType DEF BumpLoses
<1>15. ASSUME NEW h \in Handler, BumpFaults(h) PROVE TypeInv'
  BY <1>15, CountTryType DEF BumpFaults
<1>16. ASSUME NEW h \in Handler, BumpPublishes(h) PROVE TypeInv'
  BY <1>16 DEF BumpPublishes, EndBump, ParseRevision, Tag
<1>17. ASSUME NEW h \in Handler, Answer(h) PROVE TypeInv'
  BY <1>17 DEF Answer, Forget, Tag
<1>18. ASSUME NEW h \in Handler, Die(h) PROVE TypeInv'
  BY <1>18 DEF Die, Forget, ParseRevision, Tag
<1> QED
  BY <1>1, <1>2, <1>3, <1>4, <1>5, <1>6, <1>7, <1>8, <1>9, <1>10, <1>11, <1>12, <1>13, <1>14, <1>15, <1>16, <1>17, <1>18
     DEF Next, Guarded, Move

--------------------------------------------------------------------------------
\* The compare-and-set invariant holds at first, when no handler runs.
LEMMA InitGuard == Init => GuardInv
  BY DEF Init, GuardInv

\* A step in which h leaves off bumping, and nobody else moves, is harmless.
LEMMA UntouchedGuard ==
  ASSUME GuardInv, NEW h \in Handler, pc'[h] \in {"answered", "bump"},
         \A g \in Handler \ {h} : pc'[g] = pc[g] /\ team'[g] = team[g],
         UNCHANGED <<rev, data, tag, item, seen>>
  PROVE  GuardInv'
<1> SUFFICES ASSUME NEW k \in Handler, k # h,
                    pc'[k] = pc[k], team'[k] = team[k]
             PROVE  GuardInv!(k)'
  BY DEF GuardInv
<1>1. pc[k] = "won" =>
        \A g \in Handler \ {k} : pc'[g] = "won" => team'[g] # team'[k]
  BY DEF GuardInv
<1> QED
  BY <1>1 DEF GuardInv, OwnTag

\* Every step keeps it.  The steps that matter are those that change a
\* revision: Commit and BumpWins, which both own the row of the team.
LEMMA GuardStep == IInv /\ [Next]_vars => GuardInv'
<1> SUFFICES ASSUME TypeInv, GuardInv, [Next]_vars PROVE GuardInv'
  BY DEF IInv
<1> USE DEF TypeInv, TypeOK, StageInv, Stages, GuardedStages, MoveStages, BumpStages,
            GuardInv, OwnTag, Goto, dbVars, reqVars, Tag
<1>1. CASE UNCHANGED vars
  BY <1>1 DEF vars
<1>2. ASSUME NEW h \in Handler, Arrive(h) PROVE GuardInv'
  <2>1. ASSUME NEW t \in Team, NEW g \in IssuedTags \cup {NoTag}, NEW i \in Item,
               Receive(h, t, g, i)
        PROVE  GuardInv'
    BY <2>1, ConstantsAssumption DEF Receive, IssuedTags, Issued
  <2>2. ASSUME NEW a \in Team \cup {NoTeam}, NEW b \in Team \cup {NoTeam},
               NEW g \in IssuedTags \cup {NoTag}, ReceiveMove(h, a, b, g)
        PROVE  GuardInv'
    BY <2>2 DEF ReceiveMove
  <2> QED BY <1>2, <2>1, <2>2 DEF Arrive
<1>3. ASSUME NEW h \in Handler, RequireIfMatch(h) PROVE GuardInv'
  BY <1>3 DEF RequireIfMatch
<1>4. ASSUME NEW h \in Handler, MutateReads(h) PROVE GuardInv'
  BY <1>4 DEF MutateReads
<1>5. ASSUME NEW h \in Handler, MutateRefuses(h) PROVE GuardInv'
  BY <1>5 DEF MutateRefuses
<1>6. ASSUME NEW h \in Handler, MutateWrites(h) PROVE GuardInv'
  BY <1>6 DEF MutateWrites
<1>7. ASSUME NEW h \in Handler, CompareAndSet(h) PROVE GuardInv'
  BY <1>7 DEF CompareAndSet, TeamLocked, ParseRevision
<1>8. ASSUME NEW h \in Handler, Commit(h) PROVE GuardInv'
  BY <1>8 DEF Commit, ParseRevision
<1>9. ASSUME NEW h \in Handler, Publish(h) PROVE GuardInv'
  BY <1>9 DEF Publish
<1>10. ASSUME NEW h \in Handler, VerifyIfMatch(h) PROVE GuardInv'
  BY <1>10 DEF VerifyIfMatch
<1>11. ASSUME NEW h \in Handler, CommitMove(h) PROVE GuardInv'
  BY <1>11 DEF CommitMove
<1>12. ASSUME NEW h \in Handler, BumpReads(h) PROVE GuardInv'
  BY <1>12 DEF BumpReads
<1>13. ASSUME NEW h \in Handler, BumpWins(h) PROVE GuardInv'
  BY <1>13 DEF BumpWins, TeamLocked
<1>14. ASSUME NEW h \in Handler, BumpLoses(h) PROVE GuardInv'
  <2>1. /\ pc'[h] \in {"answered", "bump"}
        /\ \A g \in Handler \ {h} : pc'[g] = pc[g] /\ team'[g] = team[g]
    BY <1>14, CountTryType DEF BumpLoses
  <2>2. UNCHANGED <<rev, data, tag, item, seen>>
    BY <1>14 DEF BumpLoses
  <2> QED BY <2>1, <2>2, UntouchedGuard
<1>15. ASSUME NEW h \in Handler, BumpFaults(h) PROVE GuardInv'
  <2>1. /\ pc'[h] \in {"answered", "bump"}
        /\ \A g \in Handler \ {h} : pc'[g] = pc[g] /\ team'[g] = team[g]
    BY <1>15, CountTryType DEF BumpFaults
  <2>2. UNCHANGED <<rev, data, tag, item, seen>>
    BY <1>15 DEF BumpFaults
  <2> QED BY <2>1, <2>2, UntouchedGuard
<1>16. ASSUME NEW h \in Handler, BumpPublishes(h) PROVE GuardInv'
  BY <1>16, EndBumpType DEF BumpPublishes, EndBump
<1>17. ASSUME NEW h \in Handler, Answer(h) PROVE GuardInv'
  BY <1>17 DEF Answer, Forget
<1>18. ASSUME NEW h \in Handler, Die(h) PROVE GuardInv'
  BY <1>18 DEF Die, Forget
<1> QED
  BY <1>1, <1>2, <1>3, <1>4, <1>5, <1>6, <1>7, <1>8, <1>9, <1>10, <1>11, <1>12, <1>13, <1>14, <1>15, <1>16, <1>17, <1>18
     DEF Next, Guarded, Move

--------------------------------------------------------------------------------
\* Every state of every behaviour has the declared types.
THEOREM TypeCorrect == Spec => []TypeOK
<1>1. TypeInv => TypeOK
  BY DEF TypeInv
<1> QED
  BY InitType, TypeStep, <1>1, PTL DEF Spec

\* The conjunction of the three invariants.
LEMMA Invariance == Spec => []IInv
<1>1. Init => IInv
  BY InitType, InitGuard DEF IInv
<1>2. IInv /\ [Next]_vars => IInv'
  BY TypeStep, GuardStep DEF IInv
<1> QED
  BY <1>1, <1>2, PTL DEF Spec

\* A transaction that has won the compare-and-set with a tag of its own team
\* rewrites the newest committed value, whatever the interleaving.
THEOREM WinnersAreCurrent == Spec => []WinnerReadsCurrent
<1>1. IInv => WinnerReadsCurrent
  BY DEF IInv, TypeInv, StageInv, GuardInv, GuardedStages, OwnTag,
         WinnerReadsCurrent, ParseRevision
<1> QED
  BY <1>1, Invariance, PTL

\* While no mutation has won with the tag of another team, a step of the
\* protocol is an indivisible mutation, the advance of a revision, or nothing
\* an observer of the database sees.
LEMMA StepRefines ==
  ASSUME CommitNamesItsTeam, IInv, [Next]_vars
  PROVE  [History!Next]_(History!vars)
<1> USE DEF History!vars, dbVars
<1>1. ASSUME NEW h \in Handler, Commit(h) PROVE History!Next
  <2>1. team[h] \in Team /\ item[h] \in Item /\ tag[h] \in Tag /\ pc[h] = "won"
    BY <1>1 DEF Commit, IInv, TypeInv, StageInv, GuardedStages
  <2>2. OwnTag(h)
    BY <2>1 DEF OwnTag, CommitNamesItsTeam
  <2>3. tag[h].rev = rev[team[h]]
    BY <2>1 DEF IInv, GuardInv
  <2>4. seen[h] = data[team[h]][item[h]]
    BY <2>1, <2>2, <2>3 DEF IInv, GuardInv
  <2>5. History!Mutate(team[h], item[h])
    BY <1>1, <2>1, <2>4 DEF Commit, History!Mutate, IInv, TypeInv, TypeOK
  <2> QED BY <2>1, <2>5 DEF History!Next
<1>2. ASSUME NEW h \in Handler, BumpWins(h) PROVE History!Next
  <2>1. team[h] \in Team
    BY <1>2 DEF BumpWins, IInv, TypeInv, StageInv, BumpStages
  <2>2. History!Advance(team[h])
    BY <1>2 DEF BumpWins, History!Advance
  <2> QED BY <2>1, <2>2 DEF History!Next
<1>3. ASSUME NEW h \in Handler,
             \/ Arrive(h) \/ RequireIfMatch(h) \/ MutateReads(h) \/ MutateRefuses(h)
             \/ MutateWrites(h) \/ CompareAndSet(h) \/ Publish(h)
      PROVE  UNCHANGED History!vars
  BY <1>3 DEF Arrive, Receive, ReceiveMove, RequireIfMatch, MutateReads,
              MutateRefuses, MutateWrites, CompareAndSet, Publish
<1>4. ASSUME NEW h \in Handler,
             \/ VerifyIfMatch(h) \/ CommitMove(h) \/ BumpReads(h) \/ BumpLoses(h)
             \/ BumpFaults(h) \/ BumpPublishes(h) \/ Answer(h) \/ Die(h)
      PROVE  UNCHANGED History!vars
  BY <1>4 DEF VerifyIfMatch, CommitMove, BumpReads, BumpLoses, BumpFaults,
              BumpPublishes, Answer, Die, Forget
<1>5. CASE UNCHANGED vars
  BY <1>5 DEF vars
<1> QED
  BY <1>1, <1>2, <1>3, <1>4, <1>5 DEF Next, Guarded, Move

\* The protocol implements TeamHistory, as long as nobody wins with the tag of
\* another team, which parseRevisionFromETag alone does not rule out: whoever
\* sends tags of the team he is in gets indivisible mutations.
THEOREM MutationsAreIndivisible == Spec /\ []CommitNamesItsTeam => Linearizable
<1>1. Init => History!Init
  BY DEF Init, History!Init
<1>2. CommitNamesItsTeam /\ IInv /\ [Next]_vars => [History!Next]_(History!vars)
  BY StepRefines
<1>3. Spec => []IInv
  BY Invariance
<1> QED
  BY <1>1, <1>2, <1>3, PTL DEF Spec, Linearizable, History!Spec

\* With one team there is no other tag: the instance that rev_rounds checks.
COROLLARY OneTeamIsIndivisible ==
  ASSUME \A t, u \in Team : t = u
  PROVE  Spec => Linearizable
<1>1. IInv => CommitNamesItsTeam
  BY DEF IInv, TypeInv, StageInv, GuardedStages, Tag, CommitNamesItsTeam
<1> QED
  BY <1>1, Invariance, MutationsAreIndivisible, PTL

--------------------------------------------------------------------------------
\* Why best effort is enough: an attempt is lost only to somebody who made a
\* revision after the one the attempt read, hence after the move.
MoveInv ==
  \A h \in Handler :
    /\ \A t \in Team : owed[h][t] <= rev[t] + 1
    /\ pc[h] \notin BumpStages \cup {"answered"} => \A t \in Team : owed[h][t] = 0
    /\ pc[h] \notin BumpStages => tries[h] = 0
    /\ pc[h] \in BumpStages \cup {"answered"} /\ h \notin faulted =>
         \A t \in Team : \/ owed[h][t] <= rev[t]
                         \/ pc[h] \in BumpStages /\ t \in {team[h], joined[h]}
    /\ pc[h] \in BumpStages /\ h \notin faulted /\ tries[h] > 0 =>
         owed[h][team[h]] <= rev[team[h]]
    /\ pc[h] = "bumpRead" =>
         /\ tag[h].rev <= rev[team[h]]
         /\ h \notin faulted => owed[h][team[h]] <= tag[h].rev + 1
    /\ pc[h] = "bumped" => owed[h][team[h]] <= rev[team[h]]

\* What an attempt has read is not newer than the team, nor older than the move.
LEMMA AttemptIsFresh ==
  ASSUME MoveInv, NEW h \in Handler, pc[h] = "bumpRead"
  PROVE  /\ tag[h].rev <= rev[team[h]]
         /\ h \notin faulted => owed[h][team[h]] <= tag[h].rev + 1
  BY DEF MoveInv

\* An attempt that is lost leaves nothing owed.
LEMMA LostAttempt ==
  ASSUME TypeInv, MoveInv, NEW h \in Handler, BumpLoses(h)
  PROVE  owed[h][team[h]] <= rev[team[h]] \/ h \in faulted
<1>1. pc[h] = "bumpRead" /\ tag[h].rev # rev[team[h]]
  BY DEF BumpLoses, ParseRevision
<1>2. team[h] \in Team /\ tag[h] \in Tag
  BY <1>1 DEF TypeInv, StageInv, BumpStages
<1>3. /\ rev[team[h]] \in Nat
      /\ tag[h].rev \in Nat
      /\ owed[h][team[h]] \in Nat
  BY <1>2 DEF TypeInv, TypeOK, Tag
<1> QED BY <1>1, <1>3, AttemptIsFresh

\* Nothing is owed at first.
LEMMA InitMove == Init => MoveInv
  BY DEF Init, MoveInv, BumpStages

\* Every step keeps it.
LEMMA MoveStep == TypeInv /\ MoveInv /\ [Next]_vars => MoveInv'
<1> SUFFICES ASSUME TypeInv, MoveInv, [Next]_vars PROVE MoveInv'
  OBVIOUS
<1> USE ConstantsAssumption
    DEF TypeInv, TypeOK, StageInv, Stages, GuardedStages, MoveStages, BumpStages,
        MoveInv, Goto, dbVars, reqVars, Tag
<1>1. CASE UNCHANGED vars
  BY <1>1 DEF vars
<1>2. ASSUME NEW h \in Handler, Arrive(h) PROVE MoveInv'
  <2>1. ASSUME NEW t \in Team, NEW g \in IssuedTags \cup {NoTag}, NEW i \in Item,
               Receive(h, t, g, i)
        PROVE  MoveInv'
    BY <2>1 DEF Receive
  <2>2. ASSUME NEW a \in Team \cup {NoTeam}, NEW b \in Team \cup {NoTeam},
               NEW g \in IssuedTags \cup {NoTag}, ReceiveMove(h, a, b, g)
        PROVE  MoveInv'
    BY <2>2 DEF ReceiveMove
  <2> QED BY <1>2, <2>1, <2>2 DEF Arrive
<1>3. ASSUME NEW h \in Handler, RequireIfMatch(h) PROVE MoveInv'
  BY <1>3 DEF RequireIfMatch
<1>4. ASSUME NEW h \in Handler, MutateReads(h) PROVE MoveInv'
  BY <1>4 DEF MutateReads
<1>5. ASSUME NEW h \in Handler, MutateRefuses(h) PROVE MoveInv'
  BY <1>5 DEF MutateRefuses
<1>6. ASSUME NEW h \in Handler, MutateWrites(h) PROVE MoveInv'
  BY <1>6 DEF MutateWrites
<1>7. ASSUME NEW h \in Handler, CompareAndSet(h) PROVE MoveInv'
  BY <1>7 DEF CompareAndSet
<1>8. ASSUME NEW h \in Handler, Commit(h) PROVE MoveInv'
  BY <1>8 DEF Commit
<1>9. ASSUME NEW h \in Handler, Publish(h) PROVE MoveInv'
  BY <1>9 DEF Publish
<1>10. ASSUME NEW h \in Handler, VerifyIfMatch(h) PROVE MoveInv'
  BY <1>10 DEF VerifyIfMatch
<1>11. ASSUME NEW h \in Handler, CommitMove(h) PROVE MoveInv'
  <2>1. /\ \A t \in Team :
             /\ owed'[h][t] <= rev[t] + 1
             /\ t \notin {team'[h], joined'[h]} => owed'[h][t] = 0
        /\ \A g \in Handler \ {h} : owed'[g] = owed[g]
    <3>1. CASE team[h] = NoTeam
      BY <1>11, <3>1 DEF CommitMove
    <3>2. CASE team[h] # NoTeam
      BY <1>11, <3>2 DEF CommitMove
    <3> QED BY <3>1, <3>2
  <2>2. /\ pc'[h] = "bump"
        /\ \A g \in Handler \ {h} :
             pc'[g] = pc[g] /\ team'[g] = team[g] /\ joined'[g] = joined[g]
        /\ UNCHANGED <<rev, tag, tries, faulted>>
    BY <1>11 DEF CommitMove
  <2>3. tries[h] = 0
    BY <1>11 DEF CommitMove
  <2> QED BY <2>1, <2>2, <2>3
<1>12. ASSUME NEW h \in Handler, BumpReads(h) PROVE MoveInv'
  BY <1>12 DEF BumpReads
<1>13. ASSUME NEW h \in Handler, BumpWins(h) PROVE MoveInv'
  BY <1>13 DEF BumpWins
<1>14. ASSUME NEW h \in Handler, BumpLoses(h) PROVE MoveInv'
  <2>1. owed[h][team[h]] <= rev[team[h]] \/ h \in faulted
    BY <1>14, LostAttempt
  <2>2. CASE tries[h] + 1 = Attempts
    <3>1. /\ tries' = [tries EXCEPT ![h] = 0]
          /\ team' = [team EXCEPT ![h] = joined[h]]
          /\ joined' = [joined EXCEPT ![h] = NoTeam]
          /\ pc'[h] \in {"answered", "bump"}
          /\ pc'[h] = "answered" => joined[h] = NoTeam
          /\ \A g \in Handler \ {h} : pc'[g] = pc[g]
      BY <1>14, <2>2 DEF BumpLoses, CountTry, EndBump
    <3>2. pc[h] \in BumpStages /\ UNCHANGED <<rev, tag, owed, faulted>>
      BY <1>14 DEF BumpLoses
    <3> QED BY <2>1, <3>1, <3>2
  <2>3. CASE tries[h] + 1 # Attempts
    <3>1. /\ tries' = [tries EXCEPT ![h] = @ + 1]
          /\ pc' = [pc EXCEPT ![h] = "bump"]
          /\ UNCHANGED <<team, joined>>
      BY <2>3, <1>14 DEF BumpLoses, CountTry
    <3>2. pc[h] \in BumpStages /\ UNCHANGED <<rev, tag, owed, faulted>>
      BY <1>14 DEF BumpLoses
    <3> QED BY <2>1, <3>1, <3>2
  <2> QED BY <2>2, <2>3
<1>15. ASSUME NEW h \in Handler, BumpFaults(h) PROVE MoveInv'
  BY <1>15 DEF BumpFaults, CountTry, EndBump
<1>16. ASSUME NEW h \in Handler, BumpPublishes(h) PROVE MoveInv'
  BY <1>16 DEF BumpPublishes, EndBump
<1>17. ASSUME NEW h \in Handler, Answer(h) PROVE MoveInv'
  BY <1>17 DEF Answer, Forget
<1>18. ASSUME NEW h \in Handler, Die(h) PROVE MoveInv'
  BY <1>18 DEF Die, Forget
<1> QED
  BY <1>1, <1>2, <1>3, <1>4, <1>5, <1>6, <1>7, <1>8, <1>9, <1>10, <1>11, <1>12, <1>13, <1>14, <1>15, <1>16, <1>17, <1>18
     DEF Next, Guarded, Move

\* A join or leave answered without a database error is told of by a revision
\* of each team it concerns.
THEOREM MovesAreRevisioned == Spec => []MoveIsRevisioned
<1>1. Init => TypeInv /\ MoveInv
  BY InitType, InitMove
<1>2. TypeInv /\ MoveInv /\ [Next]_vars => (TypeInv /\ MoveInv)'
  BY TypeStep, MoveStep
<1>3. MoveInv => MoveIsRevisioned
  BY DEF MoveInv, MoveIsRevisioned, BumpStages
<1> QED
  BY <1>1, <1>2, <1>3, PTL DEF Spec

--------------------------------------------------------------------------------
(* The announcement of revisions: a handler that has committed one holds it *)
(* until its event is published or lost.                                    *)

\* The revisions that have been made.
Made == UNION {{t} \X (1..rev[t]) : t \in Team}

\* What the handler holds of revisions is the same as before.
Holds(h) ==
  /\ InFlight(h)' <=> InFlight(h)
  /\ InFlight(h) => Revision(h)' = Revision(h)

\* A revision that h makes is its own, and the next of a team.
LEMMA MakeStep ==
  ASSUME TypeInv, EveryRevisionIsAnnouncedOnce, NEW h \in Handler, NEW t \in Team,
         ~InFlight(h), InFlight(h)', Revision(h)' = <<t, rev[t] + 1>>,
         rev' = [rev EXCEPT ![t] = @ + 1], UNCHANGED <<published, lost>>,
         \A g \in Handler \ {h} : Holds(g)
  PROVE  EveryRevisionIsAnnouncedOnce'
<1> DEFINE r == <<t, rev[t] + 1>>
           held == {Revision(g) : g \in {k \in Handler : InFlight(k)}}
<1>1. published \cup lost \cup held = Made
  BY DEF EveryRevisionIsAnnouncedOnce, Made
<1>2. r \notin Made /\ Made' = Made \cup {r}
  <2>1. rev \in [Team -> Nat] /\ \A s \in Team : rev'[s] = IF s = t THEN rev[t] + 1 ELSE rev[s]
    BY DEF TypeInv, TypeOK
  <2>2. \A x : x \in Made <=> \E s \in Team : \E n \in 1..rev[s] : x = <<s, n>>
    BY DEF Made
  <2>3. \A x : x \in Made' <=> \E s \in Team : \E n \in 1..rev'[s] : x = <<s, n>>
    BY DEF Made
  <2>4. \A s \in Team : \A n : n \in 1..rev'[s] <=> n \in 1..rev[s] \/ <<s, n>> = r
    BY <2>1
  <2>5. \A x : x \in Made' <=> x \in Made \/ x = r
    BY <2>2, <2>3, <2>4
  <2>6. r \notin Made
    BY <2>1, <2>2
  <2> QED
    BY <2>5, <2>6
<1>3. held' = held \cup {r}
  BY DEF Holds
<1>4. ASSUME NEW k \in Handler, InFlight(k)'
      PROVE  /\ Revision(k)' \notin (published \cup lost)'
             /\ \A g \in Handler \ {k} : InFlight(g)' => Revision(g)' # Revision(k)'
  <2>1. \A g \in Handler \ {h} :
          InFlight(g)' => InFlight(g) /\ Revision(g)' = Revision(g) /\ Revision(g) \in Made
    BY <1>1 DEF Holds
  <2>2. CASE k = h
    BY <1>1, <1>2, <2>1, <2>2
  <2>3. CASE k # h
    BY <1>2, <1>4, <2>1, <2>3 DEF EveryRevisionIsAnnouncedOnce
  <2> QED
    BY <2>2, <2>3
<1>5. (published \cup lost \cup held)' = Made'
  BY <1>1, <1>2, <1>3
<1>6. (published \cap lost = {})'
  BY DEF EveryRevisionIsAnnouncedOnce
<1> QED
  BY <1>4, <1>5, <1>6 DEF EveryRevisionIsAnnouncedOnce, Made

\* A revision that h lets go of is published or lost, and not both.
LEMMA LetGoStep ==
  ASSUME EveryRevisionIsAnnouncedOnce, NEW h \in Handler, InFlight(h), ~InFlight(h)',
         \/ published' = published \cup {Revision(h)} /\ lost' = lost
         \/ lost' = lost \cup {Revision(h)} /\ published' = published,
         UNCHANGED rev, \A g \in Handler \ {h} : Holds(g)
  PROVE  EveryRevisionIsAnnouncedOnce'
<1> DEFINE held == {Revision(g) : g \in {k \in Handler : InFlight(k)}}
<1>1. (published \cup lost)' = published \cup lost \cup {Revision(h)}
  OBVIOUS
<1>2. Revision(h) \notin published \cup lost
  BY DEF EveryRevisionIsAnnouncedOnce
<1>3. \A g \in Handler \ {h} :
        InFlight(g)' => InFlight(g) /\ Revision(g)' = Revision(g) /\ Revision(g) # Revision(h)
  BY DEF EveryRevisionIsAnnouncedOnce, Holds
<1>4. held' \cup {Revision(h)} = held
  BY <1>3 DEF Holds
<1>5. (published \cup lost \cup held)' = Made'
  BY <1>1, <1>4 DEF EveryRevisionIsAnnouncedOnce, Made
<1>6. (published \cap lost = {})'
  BY <1>2 DEF EveryRevisionIsAnnouncedOnce
<1>7. ASSUME NEW k \in Handler, InFlight(k)'
      PROVE  /\ Revision(k)' \notin (published \cup lost)'
             /\ \A g \in Handler \ {k} : InFlight(g)' => Revision(g)' # Revision(k)'
  BY <1>1, <1>3, <1>7 DEF EveryRevisionIsAnnouncedOnce
<1> QED
  BY <1>5, <1>6, <1>7 DEF EveryRevisionIsAnnouncedOnce, Made

\* Any other step leaves revisions and those who hold them alone.
LEMMA QuietStep ==
  ASSUME EveryRevisionIsAnnouncedOnce, UNCHANGED <<rev, published, lost>>,
         \A g \in Handler : Holds(g)
  PROVE  EveryRevisionIsAnnouncedOnce'
<1>1. {Revision(g) : g \in {k \in Handler : InFlight(k)}}'
        = {Revision(g) : g \in {k \in Handler : InFlight(k)}}
  BY DEF Holds
<1> QED
  BY <1>1 DEF EveryRevisionIsAnnouncedOnce, Holds

\* A handler that ends holds nothing.
LEMMA ForgetHolds ==
  ASSUME TypeInv, NEW h \in Handler, Forget(h)
  PROVE  ~InFlight(h)' /\ UNCHANGED <<rev, published>> /\ \A g \in Handler \ {h} : Holds(g)
  BY DEF Forget, Goto, dbVars, Holds, InFlight, Revision, ParseRevision, TypeInv, TypeOK

LEMMA AnnounceStep ==
  IInv /\ EveryRevisionIsAnnouncedOnce /\ [Next]_vars => EveryRevisionIsAnnouncedOnce'
<1> SUFFICES ASSUME IInv, EveryRevisionIsAnnouncedOnce, [Next]_vars
             PROVE  EveryRevisionIsAnnouncedOnce'
  OBVIOUS
<1>1. TypeInv /\ TypeOK /\ StageInv /\ GuardInv
  BY DEF IInv, TypeInv
<1>2. CASE UNCHANGED vars
  BY <1>2, QuietStep DEF vars, Holds, InFlight, Revision, ParseRevision
<1>3. ASSUME NEW h \in Handler,
             Arrive(h) \/ RequireIfMatch(h) \/ MutateReads(h) \/ MutateRefuses(h)
               \/ MutateWrites(h) \/ CompareAndSet(h) \/ VerifyIfMatch(h)
               \/ CommitMove(h) \/ BumpReads(h)
      PROVE  EveryRevisionIsAnnouncedOnce'
  <2>1. UNCHANGED <<rev, published, lost>>
    BY <1>3 DEF Arrive, Receive, ReceiveMove, RequireIfMatch, MutateReads, MutateRefuses,
                MutateWrites, CompareAndSet, VerifyIfMatch, CommitMove, BumpReads, dbVars
  <2>2. \A g \in Handler : Holds(g)
    BY <1>1, <1>3 DEF Arrive, Receive, ReceiveMove, RequireIfMatch, MutateReads, MutateRefuses,
                MutateWrites, CompareAndSet, VerifyIfMatch, CommitMove, BumpReads, reqVars,
                Goto, Holds, InFlight, Revision, ParseRevision, TypeOK
  <2> QED
    BY <2>1, <2>2, QuietStep
<1>4. ASSUME NEW h \in Handler, Commit(h) \/ BumpWins(h) PROVE EveryRevisionIsAnnouncedOnce'
  <2>1. team[h] \in Team /\ tag[h].rev = rev[team[h]]
    BY <1>1, <1>4 DEF Commit, BumpWins, StageInv, GuardInv, ParseRevision, GuardedStages, BumpStages
  <2>2. ~InFlight(h) /\ InFlight(h)' /\ Revision(h)' = <<team[h], rev[team[h]] + 1>>
    BY <1>1, <1>4, <2>1 DEF Commit, BumpWins, Goto, reqVars, InFlight, Revision,
                            ParseRevision, TypeOK
  <2>3. rev' = [rev EXCEPT ![team[h]] = @ + 1] /\ UNCHANGED <<published, lost>>
    BY <1>4 DEF Commit, BumpWins
  <2>4. \A g \in Handler \ {h} : Holds(g)
    BY <1>1, <1>4 DEF Commit, BumpWins, Goto, reqVars, Holds, InFlight, Revision,
                      ParseRevision, TypeOK
  <2> QED
    BY <1>1, <2>1, <2>2, <2>3, <2>4, MakeStep
<1>5. ASSUME NEW h \in Handler, Publish(h) \/ BumpPublishes(h)
      PROVE  EveryRevisionIsAnnouncedOnce'
  <2>1. InFlight(h) /\ published' = published \cup {Revision(h)} /\ UNCHANGED <<rev, lost>>
    BY <1>5 DEF Publish, BumpPublishes, InFlight, Revision, dbVars
  <2>2. ~InFlight(h)'
    BY <1>1, <1>5 DEF Publish, BumpPublishes, EndBump, Goto, InFlight, TypeOK
  <2>3. \A g \in Handler \ {h} : Holds(g)
    BY <1>1, <1>5 DEF Publish, BumpPublishes, EndBump, Goto, reqVars, Holds, InFlight,
                      Revision, ParseRevision, TypeOK
  <2> QED
    BY <2>1, <2>2, <2>3, LetGoStep
<1>6. ASSUME NEW h \in Handler, BumpLoses(h) \/ BumpFaults(h) PROVE EveryRevisionIsAnnouncedOnce'
  <2>1. CountTry(h) /\ pc[h] \in {"bump", "bumpRead"} /\ UNCHANGED <<rev, tag, published, lost>>
    BY <1>6 DEF BumpLoses, BumpFaults, dbVars
  <2>2. /\ pc'[h] \in {"answered", "bump"}
        /\ \A g \in Handler \ {h} : pc'[g] = pc[g] /\ team'[g] = team[g]
    BY <1>1, <2>1, CountTryType DEF BumpStages
  <2>3. \A g \in Handler : Holds(g)
    BY <2>1, <2>2 DEF Holds, InFlight, Revision, ParseRevision
  <2> QED
    BY <2>1, <2>3, QuietStep
<1>7. ASSUME NEW h \in Handler, Answer(h) PROVE EveryRevisionIsAnnouncedOnce'
  <2>1. Forget(h) /\ ~InFlight(h) /\ UNCHANGED lost
    BY <1>7 DEF Answer, InFlight
  <2>2. \A g \in Handler : Holds(g)
    BY <1>1, <2>1, ForgetHolds DEF Holds
  <2> QED
    BY <1>1, <2>1, <2>2, ForgetHolds, QuietStep
<1>8. ASSUME NEW h \in Handler, Die(h) PROVE EveryRevisionIsAnnouncedOnce'
  <2>1. Forget(h)
    BY <1>8 DEF Die
  <2>2. CASE InFlight(h)
    <3>1. lost' = lost \cup {Revision(h)}
      BY <1>8, <2>2 DEF Die, InFlight, Revision
    <3> QED
      BY <1>1, <2>1, <2>2, <3>1, ForgetHolds, LetGoStep
  <2>3. CASE ~InFlight(h)
    <3>1. UNCHANGED lost
      BY <1>8, <2>3 DEF Die, InFlight
    <3>2. \A g \in Handler : Holds(g)
      BY <1>1, <2>1, <2>3, ForgetHolds DEF Holds
    <3> QED
      BY <1>1, <2>1, <3>1, <3>2, ForgetHolds, QuietStep
  <2> QED
    BY <2>2, <2>3
<1> QED
  BY <1>2, <1>3, <1>4, <1>5, <1>6, <1>7, <1>8 DEF Next, Guarded, Move

\* Every revision has one handler that announces it: its event is published, or
\* will be by the handler that made it, or was lost when that one died
\* (store_sync.go:170-179, 204-214).
THEOREM RevisionsAreAnnounced == Spec => []EveryRevisionIsAnnouncedOnce
<1>1. Init => EveryRevisionIsAnnouncedOnce
  BY DEF Init, EveryRevisionIsAnnouncedOnce, InFlight
<1> QED
  BY <1>1, AnnounceStep, Invariance, PTL DEF Spec
================================================================================
