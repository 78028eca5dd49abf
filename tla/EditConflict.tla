------------------------------ MODULE EditConflict ------------------------------
(***************************************************************************)
(* What ETag and If-Match protect from the browser's point of view: the    *)
(* one tag that client.ts keeps for all requests, the GET handlers that    *)
(* write it (sync_headers.go), and the mutations that carry it.            *)
(*                                                                         *)
(* Data is represented by the revision of the team as of which it was      *)
(* read.  One browser is modelled, with one mutation at a time.            *)
(***************************************************************************)
EXTENDS Integers, Sequences

CONSTANTS
  Entity,      \* what mutations change; each has a query that shows it
  MaxRevision  \* bound: no mutation is accepted beyond

VARIABLES
  log,    \* server: the entity that each revision has changed
  view,   \* view[e]: the revision of the data shown of e, or Nothing
  fetch,  \* fetch[e]: the GET in progress
  stray,  \* tags of GETs that were abandoned: they are still taken over
  etag,   \* latestTeamEtag, its revision, or Nothing
  edit    \* the mutation in progress

vars == <<log, view, fetch, stray, etag, edit>>

Nothing == -1
Revision == Len(log)
Revisions == 0 .. MaxRevision

NoFetch == [stage |-> "none", data |-> Nothing, tag |-> Nothing]
Asked == [NoFetch EXCEPT !.stage = "asked"]
NoEdit == [stage |-> "none", entity |-> Nothing, tag |-> Nothing, basis |-> Nothing]

TypeOK ==
  /\ log \in Seq(Entity) /\ Revision \in Revisions
  /\ view \in [Entity -> Revisions \cup {Nothing}]
  /\ fetch \in [Entity -> [stage : {"none", "asked", "read", "answered"},
                           data : Revisions \cup {Nothing},
                           tag : Revisions \cup {Nothing}]]
  /\ stray \subseteq Revisions
  /\ etag \in Revisions \cup {Nothing}
  /\ edit \in [stage : {"none", "sent", "accepted", "refused"},
               entity : Entity \cup {Nothing},
               tag : Revisions \cup {Nothing},
               basis : Revisions \cup {Nothing}]

Init ==
  /\ log = <<>>
  /\ view = [e \in Entity |-> Nothing]
  /\ fetch = [e \in Entity |-> Asked]
  /\ stray = {}
  /\ etag = Nothing
  /\ edit = NoEdit

\* Another member's mutation commits.
Change(e) ==
  /\ Revision < MaxRevision
  /\ log' = Append(log, e)
  /\ UNCHANGED <<view, fetch, stray, etag, edit>>

\* invalidateQueries: a GET in progress is abandoned for a new one, but the first
\* one of a query goes on.
Invalidate(entities) ==
  LET begun == {e \in entities : view[e] # Nothing \/ fetch[e] = NoFetch}
  IN /\ fetch' = [e \in Entity |-> IF e \in begun THEN Asked ELSE fetch[e]]
     /\ stray' = stray \cup {fetch[e].tag : e \in {d \in begun :
                                                     fetch[d].stage = "answered"}}
     /\ UNCHANGED view

\* An event, the poll, or a return to the page.
Refresh(e) ==
  /\ Invalidate({e})
  /\ UNCHANGED <<log, etag, edit>>

\* The GET handler reads the data, and then the revision for the ETag header.
ReadData(e) ==
  /\ fetch[e].stage = "asked"
  /\ fetch' = [fetch EXCEPT ![e].stage = "read", ![e].data = Revision]
  /\ UNCHANGED <<log, view, stray, etag, edit>>

WriteTeamETag(e) ==
  /\ fetch[e].stage = "read"
  /\ fetch' = [fetch EXCEPT ![e].stage = "answered", ![e].tag = Revision]
  /\ UNCHANGED <<log, view, stray, etag, edit>>

\* customFetch takes over the tag of every answer, whatever it is the answer to.
ReceiveData(e) ==
  /\ fetch[e].stage = "answered"
  /\ view' = [view EXCEPT ![e] = fetch[e].data]
  /\ etag' = fetch[e].tag
  /\ fetch' = [fetch EXCEPT ![e] = NoFetch]
  /\ UNCHANGED <<log, stray, edit>>

ReceiveStray(t) ==
  /\ t \in stray
  /\ stray' = stray \ {t}
  /\ etag' = t
  /\ UNCHANGED <<log, view, fetch, edit>>

\* The user changes what the page shows; without a tag nothing is sent.
Edit(e) ==
  /\ edit = NoEdit
  /\ etag # Nothing /\ view[e] # Nothing
  /\ edit' = [stage |-> "sent", entity |-> e, tag |-> etag, basis |-> view[e]]
  /\ UNCHANGED <<log, view, fetch, stray, etag>>

Accept ==
  /\ edit.stage = "sent" /\ edit.tag = Revision
  /\ Revision < MaxRevision
  /\ log' = Append(log, edit.entity)
  /\ edit' = [edit EXCEPT !.stage = "accepted"]
  /\ UNCHANGED <<view, fetch, stray, etag>>

\* 412, with the current revision in the body.
Refuse ==
  /\ edit.stage = "sent" /\ edit.tag # Revision
  /\ edit' = [edit EXCEPT !.stage = "refused", !.tag = Revision]
  /\ UNCHANGED <<log, view, fetch, stray, etag>>

\* onSuccess: the answer has no tag.
LearnAccepted ==
  /\ edit.stage = "accepted"
  /\ Invalidate({edit.entity})
  /\ edit' = NoEdit
  /\ UNCHANGED <<log, etag>>

\* onError: the tag in the body is taken over at once, the data follows.
LearnRefused ==
  /\ edit.stage = "refused"
  /\ etag' = edit.tag
  /\ Invalidate(Entity)
  /\ edit' = NoEdit
  /\ UNCHANGED log

Next ==
  \/ \E e \in Entity :
       \/ Change(e) \/ Edit(e) \/ Refresh(e)
       \/ ReadData(e) \/ WriteTeamETag(e) \/ ReceiveData(e)
  \/ \E t \in stray : ReceiveStray(t)
  \/ Accept \/ Refuse \/ LearnAccepted \/ LearnRefused

Spec == Init /\ [][Next]_vars

--------------------------------------------------------------------------------
\* A mutation that the server would accept was made by someone who had seen the
\* latest change of what it changes (README.md:92: ETag and If-Match prevent
\* conflicts).
AcceptedEditsSawTheLatest ==
  edit.stage = "sent" /\ edit.tag = Revision =>
    \A r \in edit.basis + 1 .. Revision : log[r] # edit.entity
================================================================================
