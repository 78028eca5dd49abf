-------------------------------- MODULE TeamSync --------------------------------
(***************************************************************************)
(* How a browser keeps up with its team: the event hub (store_events.go),  *)
(* the event stream (events_handlers.go) and the queries of the page       *)
(* (RootLayout.tsx).                                                       *)
(*                                                                         *)
(* Data is represented by the revision of the team as of which it was      *)
(* read.  One browser is modelled; the mutations of all members, its own   *)
(* included, are Change.  The pages that show the queries stay open.       *)
(***************************************************************************)
EXTENDS Integers, Sequences

CONSTANTS
  Entity,         \* what mutations change, by the names the events carry
  Query,          \* the cached queries of the page
  FirstRevision,  \* the revision when the page is opened
  MaxRevision,    \* bound: no mutation is accepted beyond
  ChannelSize,    \* events a subscriber may fall behind (16 in the code)
  MaxFaults       \* bound: lost connections and publications, failed requests,
                  \* and refreshes by the user, together

ASSUME TeamSyncAssumption ==
  /\ Entity \subseteq {"task", "penalty_rule", "close_run"}
  /\ Query \subseteq {"home", "rules", "monthlySummary"}
  /\ FirstRevision \in Nat /\ MaxRevision \in Nat /\ FirstRevision <= MaxRevision
  /\ ChannelSize \in Nat /\ MaxFaults \in Nat

VARIABLES
  log,       \* server: the entities of the revisions behind FirstRevision
  unsent,    \* server: revisions that are committed and not yet published
  stream,    \* the event stream: "down", "asked", "read" or "open"
  greeting,  \* the revision in the "connected" event under way, or Nothing
  channel,   \* revisions of the events under way
  lastSeen,  \* page: lastSeenRevisionRef
  pending,   \* page: pendingEntitiesRef
  view,      \* view[q]: the revision of the data shown, or Nothing
  fetch,     \* fetch[q]: the revision the GET in progress has read, or Asked, or
             \* NoFetch
  failed,    \* queries whose last GET has failed
  told,      \* history: revisions the stream has told the page about
  overtaken, \* history: queries invalidated after their first GET had read its
             \* data, and not asked for again
  faults     \* bound: how many faults there were

serverVars == <<log, unsent>>
streamVars == <<stream, greeting, channel>>
pageVars == <<lastSeen, pending, told>>
queryVars == <<view, fetch, failed, overtaken>>
vars == <<serverVars, streamVars, pageVars, queryVars, faults>>

Revision == FirstRevision + Len(log)
Changed(r) == log[r - FirstRevision]

Nothing == -1
Asked == -2
NoFetch == -3

Revisions == 0 .. MaxRevision

TypeOK ==
  /\ log \in Seq(Entity) /\ Revision \in Revisions
  /\ unsent \subseteq FirstRevision + 1 .. Revision
  /\ stream \in {"down", "asked", "read", "open"}
  /\ greeting \in Revisions \cup {Nothing}
  /\ channel \in Seq(FirstRevision + 1 .. Revision) /\ Len(channel) <= ChannelSize
  /\ lastSeen \in 0 .. Revision
  /\ pending \subseteq Entity
  /\ view \in [Query -> Revisions \cup {Nothing}]
  /\ fetch \in [Query -> Revisions \cup {Asked, NoFetch}]
  /\ failed \subseteq Query /\ overtaken \subseteq Query
  /\ told \subseteq FirstRevision + 1 .. Revision
  /\ faults \in 0 .. MaxFaults

\* The page has just been opened.
Init ==
  /\ log = <<>> /\ unsent = {}
  /\ stream = "down" /\ greeting = Nothing /\ channel = <<>>
  /\ lastSeen = 0 /\ pending = {} /\ told = {}
  /\ view = [q \in Query |-> Nothing]
  /\ fetch = [q \in Query |-> Asked]
  /\ failed = {} /\ overtaken = {}
  /\ faults = 0

Fault == faults < MaxFaults /\ faults' = faults + 1

--------------------------------------------------------------------------------
(* Revisions and their events                                               *)

\* A mutation commits.
Change(e) ==
  /\ Revision < MaxRevision
  /\ log' = Append(log, e)
  /\ unsent' = unsent \cup {Revision + 1}
  /\ UNCHANGED <<streamVars, pageVars, queryVars, faults>>

\* Mutant: the channel has no limit.
PublishUnbounded(r) ==
  /\ r \in unsent
  /\ unsent' = unsent \ {r}
  /\ channel' = IF stream = "open" THEN Append(channel, r) ELSE channel
  /\ UNCHANGED <<log, stream, greeting, pageVars, queryVars, faults>>

\* publish: the handlers of several revisions get here in any order; an event
\* is dropped when nobody has subscribed or the channel is full.
Publish(r) ==
  /\ r \in unsent
  /\ unsent' = unsent \ {r}
  /\ channel' = IF stream = "open" /\ Len(channel) < ChannelSize
                THEN Append(channel, r) ELSE channel
  /\ UNCHANGED <<log, stream, greeting, pageVars, queryVars, faults>>

\* The server process dies before it publishes, or the stream is connected to
\* another one, which has a hub of its own.
LosePublication(r) ==
  /\ Fault
  /\ r \in unsent
  /\ unsent' = unsent \ {r}
  /\ UNCHANGED <<log, streamVars, pageVars, queryVars>>

--------------------------------------------------------------------------------
(* The stream                                                               *)

\* connect, at once or by scheduleReconnect.
Connect ==
  /\ stream = "down"
  /\ stream' = "asked"
  /\ UNCHANGED <<serverVars, greeting, channel, pageVars, queryVars, faults>>

\* TeamEventStreamForUser reads the revision before it subscribes.
StreamReads ==
  /\ stream = "asked"
  /\ stream' = "read"
  /\ greeting' = Revision
  /\ UNCHANGED <<serverVars, channel, pageVars, queryVars, faults>>

Subscribe ==
  /\ stream = "read"
  /\ stream' = "open"
  /\ UNCHANGED <<serverVars, greeting, channel, pageVars, queryVars, faults>>

Disconnect ==
  /\ Fault
  /\ stream # "down"
  /\ stream' = "down"
  /\ greeting' = Nothing
  /\ channel' = <<>>
  /\ UNCHANGED <<serverVars, pageVars, queryVars>>

--------------------------------------------------------------------------------
(* The page                                                                 *)

\* What the page fetches again when an event names an entity.
Refetched(e) ==
  Query \cap IF e = "task" THEN {"home", "monthlySummary"}
             ELSE IF e = "penalty_rule" THEN {"rules", "monthlySummary"}
             ELSE Query

\* The first GET of a query that has no data yet.
FirstLoad(q) == view[q] = Nothing /\ fetch[q] # NoFetch

\* Mutant: nothing in progress is abandoned, whatever it has read
\* (cancelRefetch: false).
InvalidateIdle(queries) ==
  /\ fetch' = [q \in Query |-> IF q \in queries /\ fetch[q] = NoFetch
                               THEN Asked ELSE fetch[q]]
  /\ UNCHANGED <<view, failed, overtaken>>

\* invalidateQueries: a GET in progress is abandoned for a new one, but the first
\* one of a query goes on, and its answer will count as fresh.
Invalidate(queries) ==
  LET begun == {q \in Query \cap queries : ~FirstLoad(q)}
      kept  == {q \in Query \cap queries : FirstLoad(q) /\ fetch[q] # Asked}
  IN /\ fetch' = [q \in Query |-> IF q \in begun THEN Asked ELSE fetch[q]]
     /\ overtaken' = (overtaken \ begun) \cup kept
     /\ UNCHANGED <<view, failed>>

\* The "connected" event.
ReceiveGreeting ==
  /\ stream = "open"
  /\ greeting # Nothing
  /\ lastSeen' = greeting
  /\ greeting' = Nothing
  /\ UNCHANGED <<serverVars, stream, channel, pending, told, queryVars, faults>>

\* Mutant: one missing revision is not taken for a gap.
GapOfTwo(r) == lastSeen > 0 /\ r > lastSeen + 2

\* Revisions were missed: nothing is known of what they changed.
Gap(r) == lastSeen > 0 /\ r > lastSeen + 1

\* handleRevision.
ReceiveEvent ==
  /\ stream = "open" /\ greeting = Nothing
  /\ channel # <<>>
  /\ channel' = Tail(channel)
  /\ LET r == Head(channel)
     IN IF r <= lastSeen
        THEN UNCHANGED <<pageVars, queryVars>>
        ELSE /\ lastSeen' = r
             /\ told' = told \cup (lastSeen + 1 .. r)
             /\ IF Gap(r)
                THEN pending' = {} /\ Invalidate(Query)
                ELSE pending' = pending \cup {Changed(r)} /\ UNCHANGED queryVars
  /\ UNCHANGED <<serverVars, stream, greeting, faults>>

\* flushPendingEntityInvalidations, 300 ms after the first of the events.
Flush ==
  /\ pending # {}
  /\ pending' = {}
  /\ Invalidate(UNION {Refetched(e) : e \in pending})
  /\ UNCHANGED <<serverVars, streamVars, lastSeen, told, faults>>

\* The page is visible or online again, or a mutation of its user has ended.
Refresh(queries) ==
  /\ Fault
  /\ Invalidate(queries)
  /\ UNCHANGED <<serverVars, streamVars, pageVars>>

\* Mutant: the page polls only while it has no stream.
PollWithoutStream ==
  /\ stream = "down"
  /\ fetch["home"] = NoFetch
  /\ fetch' = [fetch EXCEPT !["home"] = Asked]
  /\ overtaken' = overtaken \ {"home"}
  /\ UNCHANGED <<serverVars, streamVars, pageVars, view, failed, faults>>

\* refetchInterval of useHomeQuery.
Poll ==
  /\ fetch["home"] = NoFetch
  /\ fetch' = [fetch EXCEPT !["home"] = Asked]
  /\ overtaken' = overtaken \ {"home"}
  /\ UNCHANGED <<serverVars, streamVars, pageVars, view, failed, faults>>

--------------------------------------------------------------------------------
(* GET                                                                      *)

ReadData(q) ==
  /\ fetch[q] = Asked
  /\ fetch' = [fetch EXCEPT ![q] = Revision]
  /\ UNCHANGED <<serverVars, streamVars, pageVars, view, failed, overtaken, faults>>

ReceiveData(q) ==
  /\ fetch[q] \in Revisions
  /\ view' = [view EXCEPT ![q] = fetch[q]]
  /\ fetch' = [fetch EXCEPT ![q] = NoFetch]
  /\ failed' = failed \ {q}
  /\ UNCHANGED <<serverVars, streamVars, pageVars, overtaken, faults>>

FailFetch(q) ==
  /\ Fault
  /\ fetch[q] # NoFetch
  /\ fetch' = [fetch EXCEPT ![q] = NoFetch]
  /\ failed' = failed \cup {q}
  /\ UNCHANGED <<serverVars, streamVars, pageVars, view, overtaken>>

--------------------------------------------------------------------------------
Stream == Connect \/ StreamReads \/ Subscribe \/ ReceiveGreeting \/ ReceiveEvent

Get(q) == ReadData(q) \/ ReceiveData(q)

Next ==
  \/ \E e \in Entity : Change(e) \/ Refresh(Refetched(e))
  \/ \E r \in unsent : Publish(r) \/ LosePublication(r)
  \/ Stream \/ Disconnect
  \/ Flush \/ Poll \/ Refresh(Query)
  \/ \E q \in Query : Get(q) \/ FailFetch(q)

Spec == Init /\ [][Next]_vars

\* A GET is answered unless it fails, and the poll of a page in the foreground
\* runs.  Nothing is assumed of the stream.
FairSpec == Spec /\ WF_vars(Poll) /\ WF_vars(Get("home"))

--------------------------------------------------------------------------------
(* Properties                                                               *)

\* q shows revision r, or is going to, or tells the user that it could not.
Covers(q, r) ==
  \/ view[q] >= r
  \/ fetch[q] = Asked
  \/ fetch[q] >= r
  \/ q \in failed /\ fetch[q] = NoFetch

\* Once the page has been told of a revision, by its event or by a gap before a
\* later one, every query it may have changed is as new as that or is being
\* fetched again, whatever events were dropped, reordered or ignored and
\* whatever was in flight, with one exception: the first GET of a query, which is
\* not abandoned when it is invalidated, had read older data, and nothing has
\* asked for the query since (RootLayout.tsx:215-255, 301-322).
ToldChangesAreShown ==
  \A r \in told :
    \/ Changed(r) \in pending
    \/ \A q \in Refetched(Changed(r)) : Covers(q, r) \/ q \in overtaken

\* Every committed revision is on the home page in the end, though events and
\* publications are lost (README.md:94, useHomeQueries.ts:17-24).
HomeCatchesUp ==
  \A r \in FirstRevision + 1 .. MaxRevision :
    Revision >= r ~> view["home"] >= r
================================================================================
