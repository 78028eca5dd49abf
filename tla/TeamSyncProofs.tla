----------------------------- MODULE TeamSyncProofs -----------------------------
(***************************************************************************)
(* Proofs about TeamSync, for any of the entities and queries of the code, *)
(* any capacity of the channel and any number of faults, of a team that    *)
(* has a revision when the page is opened: 0 is what the page takes for    *)
(* none.                                                                   *)
(***************************************************************************)
EXTENDS TeamSync, SequenceTheorems, TLAPS

\* A page with an open stream has taken over a revision of the team, so that
\* handleRevision can tell a gap.
StreamInv ==
  /\ greeting # Nothing => greeting \in FirstRevision .. Revision
  /\ stream = "read" => greeting # Nothing
  /\ stream = "open" /\ greeting = Nothing => lastSeen >= FirstRevision

TypeInv == TypeOK /\ StreamInv

\* What is shown, and what a GET has read, are of the past; and what a GET has read
\* is not older than what is shown, so that its answer takes nothing back.
DataInv ==
  \A q \in Query : /\ view[q] <= Revision /\ fetch[q] <= Revision
                   /\ fetch[q] \in Revisions => view[q] <= fetch[q]

IInv == TypeInv /\ DataInv /\ ToldChangesAreShown

--------------------------------------------------------------------------------
\* The next revision is the length of the longer log, and names its entity.
LEMMA LogGrows ==
  ASSUME TypeOK, NEW e \in Entity, Change(e)
  PROVE  /\ log' \in Seq(Entity)
         /\ Revision' = Revision + 1
         /\ Revision' \in Revisions
         /\ \A r \in FirstRevision + 1 .. Revision : Changed(r)' = Changed(r)
<1>1. log' \in Seq(Entity) /\ Len(log') = Len(log) + 1
  BY DEF TypeOK, Change
<1>2. Revision' = Revision + 1
  BY <1>1, TeamSyncAssumption DEF Revision, TypeOK
<1>3. Revision' \in Revisions
  BY <1>2, TeamSyncAssumption DEF Change, TypeOK, Revisions
<1>4. ASSUME NEW r \in FirstRevision + 1 .. Revision PROVE Changed(r)' = Changed(r)
  <2>1. r - FirstRevision \in 1 .. Len(log)
    BY TeamSyncAssumption DEF Revision, TypeOK
  <2> QED
    BY <2>1 DEF Changed, Change, TypeOK
<1> QED
  BY <1>1, <1>2, <1>3, <1>4

\* What is refetched are queries of the page.
LEMMA RefetchedQueries == \A e : Refetched(e) \subseteq Query
  BY DEF Refetched

\* Invalidate touches nothing but the requests in progress.  What it does not ask
\* for again has been asked for and not read yet, or is overtaken; and a query that
\* is no longer overtaken is asked for.
LEMMA InvalidateType ==
  ASSUME TypeOK, NEW queries, Invalidate(queries)
  PROVE  /\ fetch' \in [Query -> Revisions \cup {Asked, NoFetch}]
         /\ view' = view /\ failed' = failed /\ overtaken' \subseteq Query
         /\ \A q \in Query : fetch'[q] = fetch[q] \/ fetch'[q] = Asked
         /\ \A q \in Query \cap queries : fetch'[q] = Asked \/ q \in overtaken'
         /\ \A q \in overtaken : fetch'[q] = Asked \/ q \in overtaken'
  BY DEF Invalidate, TypeOK

LEMMA InitType == Init => TypeInv
<1> SUFFICES ASSUME Init PROVE TypeInv
  OBVIOUS
<1>1. log \in Seq(Entity) /\ channel \in Seq(FirstRevision + 1 .. Revision)
  BY DEF Init
<1>2. Revision = FirstRevision
  BY TeamSyncAssumption DEF Init, Revision
<1>3. Len(channel) = 0
  BY DEF Init
<1> QED
  BY <1>1, <1>2, <1>3, TeamSyncAssumption
     DEF Init, TypeInv, TypeOK, StreamInv, Revisions, Nothing, Asked, NoFetch

\* The types, and that a page with an open stream knows a revision.
LEMMA TypeStep == TypeInv /\ [Next]_vars => TypeInv'
<1> SUFFICES ASSUME TypeInv, [Next]_vars PROVE TypeInv'
  OBVIOUS
<1> USE TeamSyncAssumption DEF TypeInv
<1>1. ASSUME NEW e \in Entity, Change(e) PROVE TypeInv'
  <2>1. Revision' = Revision + 1 /\ Revision' \in Revisions /\ log' \in Seq(Entity)
    BY <1>1, LogGrows
  <2>2. Revision \in Nat
    BY DEF TypeOK, Revisions
  <2>3. FirstRevision + 1 .. Revision \subseteq FirstRevision + 1 .. Revision'
    BY <2>1, <2>2
  <2>4. channel' \in Seq(FirstRevision + 1 .. Revision')
    BY <1>1, <2>3, SeqMonotonic DEF TypeOK, Change, streamVars
  <2>5. unsent' \subseteq FirstRevision + 1 .. Revision'
    <3>1. Revision + 1 \in FirstRevision + 1 .. Revision'
      BY <2>1, <2>2 DEF Revision, TypeOK
    <3> QED
      BY <1>1, <2>3, <3>1 DEF TypeOK, Change
  <2>6. TypeOK'
    BY <1>1, <2>1, <2>2, <2>3, <2>4, <2>5
       DEF TypeOK, Change, streamVars, pageVars, queryVars
  <2> QED
    BY <1>1, <2>1, <2>2, <2>6 DEF StreamInv, Change, streamVars, pageVars
<1>2. ASSUME NEW r \in unsent, Publish(r) \/ LosePublication(r) PROVE TypeInv'
  <2>1. Revision' = Revision
    BY <1>2 DEF Publish, LosePublication, Revision
  <2>2. channel' \in Seq(FirstRevision + 1 .. Revision) /\ Len(channel') <= ChannelSize
    <3>1. CASE channel' = channel
      BY <3>1 DEF TypeOK
    <3>2. CASE channel' # channel
      <4>1. channel' = Append(channel, r) /\ Len(channel) < ChannelSize
        BY <1>2, <3>2 DEF Publish, LosePublication, streamVars
      <4>2. r \in FirstRevision + 1 .. Revision
        BY DEF TypeOK
      <4>3. /\ Append(channel, r) \in Seq(FirstRevision + 1 .. Revision)
            /\ Len(Append(channel, r)) = Len(channel) + 1
        BY <4>2, AppendProperties DEF TypeOK
      <4>4. Len(channel) \in Nat
        BY LenProperties DEF TypeOK
      <4> QED
        BY <4>1, <4>3, <4>4
    <3> QED
      BY <3>1, <3>2
  <2>3. UNCHANGED <<log, stream, greeting, pageVars, queryVars>>
    BY <1>2 DEF Publish, LosePublication, streamVars
  <2>4. faults' \in 0 .. MaxFaults
    BY <1>2 DEF Publish, LosePublication, Fault, TypeOK
  <2>5. unsent' \subseteq unsent
    BY <1>2 DEF Publish, LosePublication
  <2> QED
    BY <2>1, <2>2, <2>3, <2>4, <2>5 DEF TypeOK, StreamInv, pageVars, queryVars
<1>3. CASE Connect \/ StreamReads \/ Subscribe \/ Disconnect \/ ReceiveGreeting
  <2>1. UNCHANGED <<serverVars, pending, told, queryVars>> /\ Revision' = Revision
    BY <1>3 DEF Connect, StreamReads, Subscribe, Disconnect, ReceiveGreeting, pageVars,
                serverVars, Revision
  <2>2. faults' \in 0 .. MaxFaults
    BY <1>3 DEF Connect, StreamReads, Subscribe, Disconnect, ReceiveGreeting, Fault,
                TypeOK
  <2>3. Revision \in FirstRevision .. MaxRevision
    <3>1. Len(log) \in Nat
      BY LenProperties DEF TypeOK
    <3> QED
      BY <3>1 DEF TypeOK, Revision, Revisions
  <2>4. channel' = channel \/ channel' = <<>>
    BY <1>3 DEF Connect, StreamReads, Subscribe, Disconnect, ReceiveGreeting
  <2>5. channel' \in Seq(FirstRevision + 1 .. Revision) /\ Len(channel') <= ChannelSize
    <3>1. CASE channel' = channel
      BY <3>1 DEF TypeOK
    <3>2. CASE channel' = <<>>
      BY <3>2
    <3> QED
      BY <2>4, <3>1, <3>2
  <2>6. /\ stream' \in {"down", "asked", "read", "open"}
        /\ greeting' \in Revisions \cup {Nothing}
        /\ lastSeen' \in 0 .. Revision
        /\ greeting' # Nothing => greeting' \in FirstRevision .. Revision
        /\ stream' = "read" => greeting' # Nothing
        /\ stream' = "open" /\ greeting' = Nothing => lastSeen' >= FirstRevision
    <3>1. CASE Connect
      BY <3>1 DEF Connect, TypeOK, StreamInv, pageVars
    <3>2. CASE StreamReads
      BY <3>2, <2>3 DEF StreamReads, TypeOK, StreamInv, pageVars, Revisions, Nothing
    <3>3. CASE Subscribe
      BY <3>3 DEF Subscribe, TypeOK, StreamInv, pageVars
    <3>4. CASE Disconnect
      BY <3>4 DEF Disconnect, TypeOK, StreamInv, pageVars
    <3>5. CASE ReceiveGreeting
      BY <3>5 DEF ReceiveGreeting, TypeOK, StreamInv
    <3> QED
      BY <1>3, <3>1, <3>2, <3>3, <3>4, <3>5
  <2> QED
    BY <2>1, <2>2, <2>5, <2>6 DEF TypeOK, StreamInv, queryVars, serverVars
<1>4. CASE ReceiveEvent
  <2> DEFINE r == Head(channel)
  <2>1. /\ r \in FirstRevision + 1 .. Revision
        /\ channel' \in Seq(FirstRevision + 1 .. Revision)
        /\ Len(channel') = Len(channel) - 1
    BY <1>4, HeadTailProperties DEF ReceiveEvent, TypeOK
  <2>2. Len(channel') <= ChannelSize
    <3>1. Len(channel) \in Nat
      BY LenProperties DEF TypeOK
    <3> QED
      BY <2>1, <3>1 DEF TypeOK
  <2>3. Revision' = Revision
    BY <1>4 DEF ReceiveEvent, serverVars, Revision
  <2>4. Revision \in Nat /\ lastSeen \in Nat /\ lastSeen >= FirstRevision
    BY <1>4 DEF ReceiveEvent, TypeOK, StreamInv, Revisions
  <2>5. /\ fetch' \in [Query -> Revisions \cup {Asked, NoFetch}]
        /\ view' = view /\ failed' = failed /\ overtaken' \subseteq Query
    BY <1>4, InvalidateType DEF ReceiveEvent, TypeOK, queryVars
  <2>6. CASE r <= lastSeen
    <3>1. UNCHANGED <<pageVars, queryVars>>
      BY <1>4, <2>6 DEF ReceiveEvent
    <3> QED
      BY <1>4, <2>1, <2>2, <2>3, <3>1
         DEF ReceiveEvent, TypeOK, StreamInv, serverVars, pageVars, queryVars
  <2>7. CASE ~(r <= lastSeen)
    <3>1. lastSeen' = r /\ told' = told \cup (lastSeen + 1 .. r)
      BY <1>4, <2>7 DEF ReceiveEvent
    <3>2. lastSeen + 1 .. r \subseteq FirstRevision + 1 .. Revision
      BY <2>1, <2>4
    <3>3. Changed(r) \in Entity
      <4>1. r - FirstRevision \in 1 .. Len(log)
        BY <2>1 DEF Revision, TypeOK
      <4> QED
        BY <4>1, ElementOfSeq DEF Changed, TypeOK
    <3>4. pending' \subseteq Entity
      BY <1>4, <2>7, <3>3 DEF ReceiveEvent, TypeOK
    <3>5. lastSeen' >= FirstRevision /\ lastSeen' \in 0 .. Revision
      BY <2>1, <2>4, <3>1
    <3> QED
      BY <1>4, <2>1, <2>2, <2>3, <2>5, <3>1, <3>2, <3>4, <3>5
         DEF ReceiveEvent, TypeOK, StreamInv, serverVars
  <2> QED
    BY <2>6, <2>7
<1>5. CASE Flush \/ (\E queries : Refresh(queries))
  <2>1. /\ fetch' \in [Query -> Revisions \cup {Asked, NoFetch}]
        /\ view' = view /\ failed' = failed /\ overtaken' \subseteq Query
    BY <1>5, InvalidateType DEF Flush, Refresh
  <2>2. UNCHANGED <<serverVars, streamVars, lastSeen, told>> /\ Revision' = Revision
    BY <1>5 DEF Flush, Refresh, serverVars, pageVars, Revision
  <2>3. pending' \subseteq Entity /\ faults' \in 0 .. MaxFaults
    <3>1. CASE Flush
      BY <3>1 DEF Flush, TypeOK
    <3>2. CASE \E queries : Refresh(queries)
      <4>1. Fault /\ pending' = pending
        BY <3>2 DEF Refresh, pageVars
      <4> QED
        BY <4>1 DEF Fault, TypeOK
    <3> QED
      BY <1>5, <3>1, <3>2
  <2> QED
    BY <2>1, <2>2, <2>3 DEF TypeOK, StreamInv, serverVars, streamVars
<1>6. CASE Poll
  <2>1. UNCHANGED <<serverVars, streamVars, pageVars, view, failed, faults>>
    BY <1>6 DEF Poll
  <2>2. /\ fetch' \in [Query -> Revisions \cup {Asked, NoFetch}]
        /\ overtaken' \subseteq Query
    BY <1>6 DEF Poll, TypeOK
  <2> QED
    BY <2>1, <2>2 DEF TypeOK, StreamInv, serverVars, streamVars, pageVars, Revision
<1>7. ASSUME NEW q \in Query, Get(q) \/ FailFetch(q) PROVE TypeInv'
  <2>1. UNCHANGED <<serverVars, streamVars, pageVars, overtaken>> /\ Revision' = Revision
    BY <1>7 DEF Get, ReadData, ReceiveData, FailFetch, serverVars, Revision
  <2>2. /\ fetch' \in [Query -> Revisions \cup {Asked, NoFetch}]
        /\ view' \in [Query -> Revisions \cup {Nothing}]
        /\ failed' \subseteq Query
        /\ faults' \in 0 .. MaxFaults
    <3>1. CASE ReadData(q)
      BY <3>1 DEF ReadData, TypeOK
    <3>2. CASE ReceiveData(q)
      BY <3>2 DEF ReceiveData, TypeOK
    <3>3. CASE FailFetch(q)
      <4>1. faults' \in 0 .. MaxFaults
        BY <3>3 DEF FailFetch, Fault, TypeOK
      <4> QED
        BY <3>3, <4>1 DEF FailFetch, TypeOK
    <3> QED
      BY <1>7, <3>1, <3>2, <3>3 DEF Get
  <2> QED
    BY <2>1, <2>2 DEF TypeOK, StreamInv, serverVars, streamVars, pageVars
<1>8. CASE UNCHANGED vars
  BY <1>8 DEF vars, serverVars, streamVars, pageVars, queryVars, TypeOK, StreamInv,
              Revision
<1>9. CASE Next
  <2>1. CASE \E e \in Entity : Change(e) \/ Refresh(Refetched(e))
    BY <2>1, <1>1, <1>5
  <2>2. CASE \E r \in unsent : Publish(r) \/ LosePublication(r)
    BY <2>2, <1>2
  <2>3. CASE Stream \/ Disconnect
    BY <2>3, <1>3, <1>4 DEF Stream
  <2>4. CASE Flush \/ Refresh(Query)
    BY <2>4, <1>5
  <2>5. CASE Poll \/ \E q \in Query : Get(q) \/ FailFetch(q)
    BY <2>5, <1>6, <1>7
  <2> QED
    BY <1>9, <2>1, <2>2, <2>3, <2>4, <2>5 DEF Next
<1> QED
  BY <1>8, <1>9

--------------------------------------------------------------------------------
\* Every variable keeps its type: the channel stays within its capacity, and
\* events, publications and what the page knows never run ahead of the revision.
THEOREM TypeCorrect == Spec => []TypeOK
<1>1. TypeInv => TypeOK
  BY DEF TypeInv
<1> QED
  BY <1>1, InitType, TypeStep, PTL DEF Spec

--------------------------------------------------------------------------------
LEMMA InitData == Init => DataInv
<1> SUFFICES ASSUME Init, NEW q \in Query
             PROVE  /\ view[q] <= Revision /\ fetch[q] <= Revision
                    /\ fetch[q] \in Revisions => view[q] <= fetch[q]
  BY DEF DataInv
<1>1. Len(log) = 0 /\ view[q] = -1 /\ fetch[q] = -2
  BY DEF Init, Nothing, Asked
<1>2. Revision = FirstRevision
  BY <1>1, TeamSyncAssumption DEF Revision
<1> QED
  BY <1>1, <1>2, TeamSyncAssumption DEF Revisions

LEMMA DataStep == TypeInv /\ TypeInv' /\ DataInv /\ [Next]_vars => DataInv'
<1> SUFFICES ASSUME TypeInv, TypeInv', DataInv, [Next]_vars PROVE DataInv'
  OBVIOUS
<1>1. Revision \in Nat /\ Revision' \in Nat
  BY DEF TypeInv, TypeOK, Revisions
<1>2. CASE \E q \in Query : Get(q)
  <2> PICK q \in Query : Get(q)
    BY <1>2
  <2>1. Revision' = Revision
    BY DEF Get, ReadData, ReceiveData, Revision, serverVars
  <2>2. CASE ReadData(q)
    BY <1>1, <2>1, <2>2 DEF ReadData, DataInv, TypeInv, TypeOK
  <2>3. CASE ReceiveData(q)
    BY <1>1, <2>1, <2>3
       DEF ReceiveData, DataInv, TypeInv, TypeOK, Revisions, NoFetch
  <2> QED
    BY <2>2, <2>3 DEF Get
<1>3. CASE ~\E q \in Query : Get(q)
  <2>1. Revision' >= Revision
    <3>1. CASE \E e \in Entity : Change(e)
      BY <1>1, <3>1, LogGrows DEF TypeInv
    <3>2. CASE ~\E e \in Entity : Change(e)
      <4>1. log' = log
        BY <1>3, <3>2 DEF Next, Stream, Refresh, Publish, LosePublication, Connect,
           StreamReads, Subscribe, Disconnect, ReceiveGreeting, ReceiveEvent, Flush,
           Poll, FailFetch, vars, serverVars
      <4> QED
        BY <1>1, <4>1 DEF Revision
    <3> QED
      BY <3>1, <3>2
  <2>2. view' = view
    BY <1>3 DEF Next, Stream, Refresh, Invalidate, Change, Publish, LosePublication,
       Connect, StreamReads, Subscribe, Disconnect, ReceiveGreeting, ReceiveEvent,
       Flush, Poll, FailFetch, vars, queryVars
  <2>3. ASSUME NEW q \in Query
        PROVE  fetch'[q] = fetch[q] \/ fetch'[q] = Asked \/ fetch'[q] = NoFetch
    BY <1>3 DEF Next, Stream, Refresh, Invalidate, Change, Publish, LosePublication,
       Connect, StreamReads, Subscribe, Disconnect, ReceiveGreeting, ReceiveEvent,
       Flush, Poll, FailFetch, vars, queryVars, TypeInv, TypeOK
  <2> SUFFICES ASSUME NEW q \in Query
               PROVE  /\ view'[q] <= Revision' /\ fetch'[q] <= Revision'
                      /\ fetch'[q] \in Revisions => view'[q] <= fetch'[q]
    BY DEF DataInv
  <2>4. /\ view[q] \in Int /\ fetch[q] \in Int
        /\ view[q] <= Revision /\ fetch[q] <= Revision
        /\ fetch[q] \in Revisions => view[q] <= fetch[q]
    BY DEF DataInv, TypeInv, TypeOK, Revisions, Asked, NoFetch, Nothing
  <2>5. CASE fetch'[q] = fetch[q]
    BY <1>1, <2>1, <2>2, <2>4, <2>5
  <2>6. CASE fetch'[q] \in {Asked, NoFetch}
    BY <1>1, <2>1, <2>2, <2>4, <2>6 DEF Revisions, Asked, NoFetch
  <2> QED
    BY <2>3, <2>5, <2>6
<1> QED
  BY <1>2, <1>3

--------------------------------------------------------------------------------
\* A step that tells the page nothing, and by which no query loses what covers or
\* excuses a change.
LEMMA ToldKept ==
  ASSUME ToldChangesAreShown, told' = told, pending' = pending,
         \A r \in told : Changed(r)' = Changed(r),
         \A r \in told, q \in Query :
           Covers(q, r) \/ q \in overtaken => Covers(q, r)' \/ q \in overtaken'
  PROVE  ToldChangesAreShown'
  BY DEF ToldChangesAreShown, Refetched

\* What becomes of the changes the page has been told of.
LEMMA ToldStep ==
  FirstRevision # 0 /\ IInv /\ TypeInv' /\ [Next]_vars => ToldChangesAreShown'
<1> SUFFICES ASSUME FirstRevision # 0, IInv, TypeInv', [Next]_vars
             PROVE  ToldChangesAreShown'
  OBVIOUS
<1> USE DEF IInv
<1>1. /\ Revision \in Nat /\ told \subseteq FirstRevision + 1 .. Revision
      /\ told \subseteq Nat
  BY TeamSyncAssumption DEF TypeInv, TypeOK, Revisions
<1>2. ASSUME NEW e \in Entity, Change(e) PROVE ToldChangesAreShown'
  <2>1. \A r \in told : Changed(r)' = Changed(r)
    BY <1>1, <1>2, LogGrows DEF TypeInv
  <2>2. UNCHANGED <<told, pending, view, fetch, failed, overtaken>>
    BY <1>2 DEF Change, pageVars, queryVars
  <2> QED
    BY <2>1, <2>2, ToldKept DEF Covers
<1>3. CASE UNCHANGED <<log, told, pending, view, fetch, failed, overtaken>>
  BY <1>3, ToldKept DEF Covers, Changed
<1>4. CASE ReceiveEvent
  <2> DEFINE r == Head(channel)
  <2>1. r \in FirstRevision + 1 .. Revision
    BY <1>4, HeadTailProperties DEF ReceiveEvent, TypeInv, TypeOK
  <2>2. lastSeen \in Nat /\ lastSeen >= FirstRevision /\ lastSeen > 0
    BY <1>4, TeamSyncAssumption DEF ReceiveEvent, TypeInv, TypeOK, StreamInv
  <2>3. log' = log
    BY <1>4 DEF ReceiveEvent, serverVars
  <2>4. CASE r <= lastSeen
    BY <1>3, <1>4, <2>3, <2>4 DEF ReceiveEvent, pageVars, queryVars
  <2>5. CASE ~(r <= lastSeen) /\ Gap(r)
    <3>1. Invalidate(Query)
      BY <1>4, <2>5 DEF ReceiveEvent
    <3>2. \A q \in Query : fetch'[q] = Asked \/ q \in overtaken'
      BY <3>1, InvalidateType DEF TypeInv
    <3> QED
      BY <3>2, RefetchedQueries DEF ToldChangesAreShown, Covers, Asked
  <2>6. CASE ~(r <= lastSeen) /\ ~Gap(r)
    <3>1. r = lastSeen + 1
      BY <2>1, <2>2, <2>6 DEF Gap
    <3>2. /\ told' = told \cup {r}
          /\ pending' = pending \cup {Changed(r)}
          /\ UNCHANGED <<view, fetch, failed, overtaken>>
      BY <1>4, <2>2, <2>6, <3>1 DEF ReceiveEvent, queryVars
    <3> QED
      BY <2>3, <3>2 DEF ToldChangesAreShown, Covers, Changed, Refetched
  <2> QED
    BY <2>4, <2>5, <2>6
<1>5. CASE Flush
  <2> DEFINE queries == UNION {Refetched(e) : e \in pending}
  <2>1. UNCHANGED <<log, told, view, failed>>
    BY <1>5 DEF Flush, serverVars, Invalidate
  <2>2. /\ \A q \in Query : fetch'[q] = fetch[q] \/ fetch'[q] = Asked
        /\ \A q \in Query \cap queries : fetch'[q] = Asked \/ q \in overtaken'
        /\ \A q \in overtaken : fetch'[q] = Asked \/ q \in overtaken'
    BY <1>5, InvalidateType DEF Flush, TypeInv
  <2>3. ASSUME NEW s \in told, NEW q \in Refetched(Changed(s))
        PROVE  Covers(q, s)' \/ q \in overtaken'
    <3>1. q \in Query
      BY RefetchedQueries
    <3>2. CASE Changed(s) \in pending
      BY <2>2, <3>1, <3>2 DEF Covers, Asked
    <3>3. CASE Covers(q, s) \/ q \in overtaken
      BY <2>1, <2>2, <3>1, <3>3 DEF Covers, Asked
    <3> QED
      BY <3>2, <3>3 DEF ToldChangesAreShown
  <2> QED
    BY <2>1, <2>3 DEF ToldChangesAreShown, Changed, Refetched
<1>6. ASSUME NEW queries, Refresh(queries) PROVE ToldChangesAreShown'
  <2>1. UNCHANGED <<log, told, pending, view, failed>>
    BY <1>6 DEF Refresh, serverVars, pageVars, Invalidate
  <2>2. /\ \A q \in Query : fetch'[q] = fetch[q] \/ fetch'[q] = Asked
        /\ \A q \in overtaken : fetch'[q] = Asked \/ q \in overtaken'
    BY <1>6, InvalidateType DEF Refresh, TypeInv
  <2> QED
    BY <2>1, <2>2, ToldKept DEF Covers, Changed, Asked
<1>7. CASE Poll
  <2>1. UNCHANGED <<log, told, pending, view, failed>>
    BY <1>7 DEF Poll, serverVars, pageVars
  <2>2. /\ \A q \in Query : fetch'[q] = fetch[q] \/ fetch'[q] = Asked
        /\ \A q \in overtaken : fetch'[q] = Asked \/ q \in overtaken'
    BY <1>7 DEF Poll, TypeInv, TypeOK
  <2> QED
    BY <2>1, <2>2, ToldKept DEF Covers, Changed, Asked
<1>8. ASSUME NEW q \in Query, Get(q) \/ FailFetch(q) PROVE ToldChangesAreShown'
  <2>1. UNCHANGED <<log, told, pending, overtaken>>
    BY <1>8 DEF Get, ReadData, ReceiveData, FailFetch, serverVars, pageVars
  <2>2. ASSUME NEW s \in told, NEW p \in Query, Covers(p, s), p # q
        PROVE  Covers(p, s)'
    BY <1>8, <2>2 DEF Get, ReadData, ReceiveData, FailFetch, Covers, TypeInv, TypeOK
  <2>3. ASSUME NEW s \in told, Covers(q, s) PROVE Covers(q, s)'
    <3>1. CASE ReadData(q)
      BY <1>1, <3>1 DEF ReadData, Covers, TypeInv, TypeOK
    <3>2. CASE ReceiveData(q)
      <4>1. s \in Nat /\ view[q] \in Int /\ fetch[q] \in Nat /\ view[q] <= fetch[q]
        BY <1>1, <3>2 DEF ReceiveData, DataInv, TypeInv, TypeOK, Revisions, Nothing
      <4>2. fetch[q] >= s
        BY <2>3, <4>1 DEF Covers, Asked, NoFetch
      <4>3. view'[q] = fetch[q]
        BY <3>2 DEF ReceiveData, TypeInv, TypeOK
      <4> QED
        BY <4>2, <4>3 DEF Covers
    <3>3. CASE FailFetch(q)
      BY <1>1, <3>3 DEF FailFetch, Covers, TypeInv, TypeOK
    <3> QED
      BY <1>8, <3>1, <3>2, <3>3 DEF Get
  <2> QED
    BY <2>1, <2>2, <2>3, ToldKept DEF Changed
<1> QED
  <2>1. CASE \E r \in unsent : Publish(r) \/ LosePublication(r)
    BY <1>3, <2>1 DEF Publish, LosePublication, streamVars, pageVars, queryVars
  <2>2. CASE Connect \/ StreamReads \/ Subscribe \/ Disconnect \/ ReceiveGreeting
    BY <1>3, <2>2 DEF Connect, StreamReads, Subscribe, Disconnect, ReceiveGreeting,
                      serverVars, pageVars, queryVars
  <2>3. CASE UNCHANGED vars
    BY <1>3, <2>3 DEF vars, serverVars, pageVars, queryVars
  <2> QED
    BY <1>2, <1>4, <1>5, <1>6, <1>7, <1>8, <2>1, <2>2, <2>3 DEF Next, Stream

\* A team that has had a revision when the page was opened: whatever is dropped,
\* lost, reordered or fails, the page shows, fetches or reports as failed what it
\* has been told of, but for queries whose first GET was overtaken and which
\* nothing has asked for since (store_events.go, RootLayout.tsx).
THEOREM ToldChangesShown == FirstRevision # 0 => (Spec => []ToldChangesAreShown)
<1> SUFFICES ASSUME FirstRevision # 0 PROVE Spec => []ToldChangesAreShown
  OBVIOUS
<1>1. Init => IInv
  <2>1. Init => ToldChangesAreShown
    BY DEF Init, ToldChangesAreShown
  <2> QED
    BY <2>1, InitType, InitData DEF IInv
<1>2. IInv /\ [Next]_vars => IInv'
  BY TypeStep, DataStep, ToldStep DEF IInv
<1>3. IInv => ToldChangesAreShown
  BY DEF IInv
<1> QED
  BY <1>1, <1>2, <1>3, PTL DEF Spec
================================================================================
