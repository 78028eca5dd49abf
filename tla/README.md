# Kaji Challenge in TLA+

Kaji Challenge lets the members of a household share chores: tasks have penalty
points, days, weeks and months are closed, and penalty rules fire when a month
has collected enough points.  This directory models the parts of it whose
correctness depends on the order in which things happen: concurrent requests
over one Postgres database, jobs that interleave with them, and browsers that
follow a team through events that may be lost.

- `*.tla` without prefix: one module per component, translated from the source.
- `MC*.tla` and `MC*_*.cfg`: small instances for TLC; one cfg per question.
- `*Proofs.tla`: theorems for all values of the constants, checked by TLAPS.
- `PROJECT.json`: components, runs, the line every definition stands for,
  mutants (one for each checked property), findings, hazards and theorems.

To check a run: `tlc -config MCTeamSync_told.cfg MCTeamSync`.  To check proofs:
`tlapm TeamSyncProofs.tla`.  Definitions introduced by a comment "Mutant: ..."
are not part of the model; each stands for a plausible bug and is swapped in to
see that a property notices it.

## 1. The system

Source paths below are relative to `src/`; *store* is
`backend/internal/http/infra/store`, *page* is `frontend/src`.

| Component | State | Operations | What makes it correct | Module |
|---|---|---|---|---|
| Team revision (`store_sync.go`) | `teams.state_revision` | `runWithTeamRevisionCAS` around every mutation of a member, `bumpTeamRevisionBestEffort` after a join or leave | mutations are indivisible, each revision is committed and announced by one handler, a move is told | `TeamRevision`, `TeamHistory` |
| Closing (`store_closing.go`, `cmd/ops`) | `close_runs`, `task_evaluation_dedupes`, `monthly_penalty_summaries`, triggered rules | `ops close` by day, week and month, with catch-up; the API's close endpoints | every period is charged once, to its month, by the tasks of the time; a closed month is complete and its rules are right; the catch-up gets there | `Calendar`, `Sums`, `Closing` |
| Tasks and completions (`store_tasks.go`) | tasks with points, required number, `created_at`, `deleted_at`; daily and weekly completions | create, patch, delete, toggle, count up and down | what is over cannot be changed any more, what closing needs of the past is still there | `Household`; `PatchTask` as the pattern of a mutation in `TeamRevision`; assignees in `Membership` |
| Membership (`store_user_team.go`) | `team_members`, `teams`, `invites`, assignees of tasks | invite, join, leave, handing over, deletion of empty teams | everybody has a team, every team one owner; nobody is kept in a team | `Membership`, `Teams` |
| Event hub and stream (`store_events.go`, `events_handlers.go`) | subscribers and their channels, in memory of one process | subscribe, publish (dropping), greeting, cut-off | what is lost is noticed | `TeamSync` |
| Revision tracking of the page (`RootLayout.tsx`, `useHomeQueries.ts`) | last revision seen, entities pending, cached queries | connect, handle an event, flush, refresh, poll | a change the page has been told of is shown or being fetched, unless it overtook a first load; home catches up | `TeamSync` |
| Tags of the page (`client.ts`, `sync_headers.go`) | one tag for all requests | GET writes it, mutations carry it | whoever is let through has seen what he overwrites | `EditConflict` |
| Penalty rules (`store_penalty.go`) | rules with a threshold and a life time | guarded mutations; judged by the closing of a month | rules are judged as of the end of the month | `Household`, `Closing` |
| Overview and summary (`store_task_overview.go`) | none, but they create a missing summary row | two GETs | they agree with what closing charges | `Overview`; the write in `Closing` |
| Sign-up and sign-in (`store_auth.go`, `store_user_team.go`) | users and their identities, auth requests, exchange codes, sessions; a mutex | start, callback, exchange, logout | an account belongs to the identity that opened it; one code per attempt and one session per code, but for races | `SignIn`, `Accounts` |
| Middleware, routing, handlers, seeder, worker, forms | none that outlives a request | | | not modelled, see section 7 |

How they interact:

- A page sends a mutation with the tag it holds (`EditConflict`); the server
  compares, changes and commits it under the row of the team (`TeamRevision`)
  and publishes an event behind the commit; pages hear of it or not (`TeamSync`).
- `ops close` reads tasks, completions and rules and writes summaries with no
  transaction, revision or event of its own (`Closing`); GETs write the same
  rows when one is missing, and work out in Go what closing works out in SQL
  (`Overview`).  The API closes in one transaction behind the revision.
- A callback of the identity provider that meets an unknown person creates the user,
  his team and his membership, from where `Membership` starts.
- A join or leave writes memberships in a transaction of its own
  (`Membership`), checks the tag before and bumps the revisions of both teams
  after it (`TeamRevision`).

What is hard to test in it, with the line where it bites and the property that
would notice, is listed under "hazards" in `PROJECT.json`.

## 2. The modules and the code

### TeamHistory, TeamRevision

`TeamHistory` is what the protocol promises: a team is a sequence of revisions,
each made by one indivisible read-modify-write (`Mutate`) or by the announcement
of a move (`Advance`).

`TeamRevision` has the statements.  `pc[h]` is what handler h did last: a guarded
mutation goes received, begun (the tag is there), read, wrote, won (the `UPDATE
... WHERE state_revision = $2` found a row), committed, answered; a move goes
moveReceived, moving, and then bump, bumpRead, bumped for each of the teams.
Transactions are READ COMMITTED: a write is applied when its handler commits, and
until then holds its row, which `RowLocked` and `TeamLocked` tell from the program
counters; a statement that has to wait is not enabled.  A value is the number of
mutations it contains, so that a lost update is a number too small.  `Die` is a
handler that stops anywhere: a failed statement, a client that goes away, the end
of the process; its transaction is undone, and a revision that is committed but not
published goes into `lost`.  Clients send any tag the service has issued, of any
team, or none (`IssuedTags`).  Attempts of a bump are counted in `tries`.

### Calendar, Sums, Household, Closing, Overview

`Calendar` numbers days, and names a period by its first day; the length of the
week and the starts of the months are constants.  `Sums` is the `SUM` of the queries: a sum
over a finite set.

`Household` is what the members of one team do: tasks are created, edited (points
and required number), deleted by marking, toggled for today, counted up and down in this week;
rules are created, given another threshold and deleted, and no two that
exist share a threshold.  Each of these is one step, since it runs in a transaction behind
the revision of the team.  `edits` counts what changes a task or a rule that exists.

`Closing` is `ops close` for that team, a statement at a time (`step[j]` is the next
one), since no transaction holds the statements together: `EnsureReads`, `EnsureUpserts` and
the loop back (`ensureMonthSummaryLocked`), `InsertRun` (`InsertCloseRun` ... `ON
CONFLICT DO NOTHING`), `SumPenalty` (the one statement that sums and marks the tasks
as evaluated), `Increment`, and for a month `JudgeRules`, `CloseSummary`,
`ClearTriggered` and `AddTriggered`.  `StartJob` computes the first and the last
period of the catch-up; `NextInLoop` is its loop.  `Fail` ends a job at any
statement and leaves what it did.  `CloseForUser` is the same catch-up by the API: one
transaction that any period of a closed month undoes as a whole.  `ViewReads` and `ViewUpserts`
are the GETs that create a missing summary.  `tariff` is history: the points, numbers and
thresholds that counted when a period was evaluated, which nothing in the database
remembers; without edits it is not kept.

`Overview` has what the two GETs compute, as operators: `TaskOverview`, and
`MonthlySummary` with the rules triggered (`TriggeredRules`, live until the month is
closed) and the status of each task on each day (`StatusOn`, with the rule by which a week
is shown on its first day in the month its last day belongs to).

### Teams, Membership

`Teams` is what membership promises: moves at a stroke, with an owner handing over or taking
the team with him.

`Membership`: JoinTeam and PostTeamLeave, from the reads in front of the transaction
(`ReadInvite`, `ReadMembership`, `AskToLeave`) to `Commit`, where the writes of the
transaction become visible.  `ChooseHeir` clears the assignments of the user and looks
for another member; `DropTeam` cascades to members and invites; references to
a team that is being dropped, and rows that another transaction has written,
make statements wait (`RowLocked`, `TaskLocked`, `TeamDropped`, `TeamJoined`).  The heir of an owner is any other
member he reads: the code takes the one that has been there longest.  Tasks are assigned,
taken back and deleted at any time; the foreign key from their assignee to `team_members`
refuses to delete the row (`KeptByKey`, `Refuse`).  `GiveUp` is every other refusal and failure.
`disturbed` remembers which requests have read a membership that another one has
changed since, `raced` that such a request has committed, `late` which requests met an
assignment after they had cleared those of their user; the bound is that the first race
ends the behaviour.

### Accounts, SignIn

`Accounts` is what sign-in promises: an account is opened once, for one identity, and only
its owner is admitted.

`SignIn` has the statements, each of which commits by itself.  A callback goes new, delete
(it has read the request of its attempt), verify (the provider redeems its authorization
code or refuses it; mock parameters are believed), lock (it waits for
`s.mu`), create, team, member, link (`getOrCreateUserLocked` and
`syncUserOIDCIdentityLocked`), issue, done.  `holder[s]` is who holds the mutex of server s: two
servers keep their callbacks apart only by the unique index on addresses.  Whom a
callback is about (`who[c]`) comes with the callback and not with the attempt: the
authorization code and the mock values are parameters of it (`store_auth.go:90`), so a URL
that is opened twice may bring two codes and two people, and the provider, which redeems
each code once, lets both pass.  Which codes it has redeemed is therefore not kept; it may refuse
any of them.  An exchange
goes new, consume, create, done.  `FailCallback` and `FailExchange` are a statement that fails,
a browser that goes away (gin cancels the context of the request) or a server that is
killed.  `loose` and `shared` remember the attempts and codes that two requests
had read before one of them used them up.  The branches without a database
(`s.q == nil`) never run outside of tests and are left out.

### TeamSync

One page.  Data is represented by the revision as of which it was read; `log` is the
entity each revision has changed.  `Change` commits, `Publish` hands revisions to the
hub in any order and drops them when the channel is full or nobody has subscribed,
`LosePublication` is a process that dies first or one the page is not connected
to (every process has a hub of its own).  A stream reads the revision for its
greeting (`StreamReads`) before it subscribes (`Subscribe`).  `ReceiveEvent` is
`handleRevision`, including that older revisions are ignored and that a gap makes
the page fetch everything; `Flush` is what happens 300 ms later.  `Invalidate` is
TanStack Query: a request under way is abandoned and made again if the query has data;
the first request of a query (`FirstLoad`) goes on instead, and its answer counts as
fresh.  `told` is history: the revisions of which the page has heard, by their own
event or as part of a gap.  So is `overtaken`: the queries that were invalidated after
their first request had read its data, until they are asked for again.

### EditConflict

The one tag of `client.ts` for the data of all queries: a GET reads the data
(`ReadData`) and then, in a statement of its own, the revision for the `ETag`
(`WriteTeamETag`); the page takes over the tag of every answer, including those of
requests it has abandoned (only those whose tag had been written are kept here; the first
request of a query is not abandoned, as in `TeamSync`).
An edit carries the tag and, as history, the revision of the data it is based on.

## 3. What is checked

Every run finishes within five minutes; the bounds and why they are enough:

| Run | Shows | Instance |
|---|---|---|
| `rev_rounds` | `Linearizable` (the statements implement `TeamHistory`), `WinnerReadsCurrent`, `EveryRevisionIsAnnouncedOnce`, `MoveIsRevisioned`, `HandlersAnswer` | one team, two rows, two handlers that serve one request after another; two attempts stand for the three of the code, and two revisions: enough for a bump to lose all its attempts to the other handler, for one to read between any two statements of the other, and for handlers to wait for a row of the other and for the team |
| `rev_foreign_tag` | finding: `CommitNamesItsTeam` fails | two teams |
| `close_ordered` | `TotalsExact`, `ClosedMonthsAreComplete`, `NothingIsBlocked`, `StatusExplainsTotals`, `DebtsAreSealed` | four days, weeks of two days, months that begin on days 1, 2, 4: the first two weeks both straddle two months, a month closes with whole weeks, parts of weeks and none; a daily and a weekly task; one job or the API, no rules |
| `close_turbulent` | `NeverOvercharged`, `RunsAreContiguous`, `NoUndueRules` | three days, a month of two days that ends with its week; a weekly task and a rule; two jobs side by side in any order, the API, a GET that creates summaries, one failure |
| `close_catch_up` | `TriggeredRulesAreDue`, `ClosedMonthsStand`, `CatchesUp` | the same days with one job, no failures (so that `CatchesUp` says nothing of jobs that stop at an error; `close_turbulent` says that they leave no gap), and one edit of points, required number, threshold or life of the rule at any moment |
| `close_crash`, `close_viewer` | findings: `TotalsExact` fails | one failure; one GET |
| `member_moves` | `OnlyRacesLoseOwners`, `MovesAreIndivisible` (the statements implement `Teams`), `RefusalsAreExplained` | three users with a team each, whose ids are free again when the team is gone; two requests at a time, any number in sequence; one open invite at a time; one task |
| `member_homeless` | finding: `NobodyIsHomeless` fails | the same |
| `signin_codes` | `OnlyOwnersAreAdmitted` (the statements implement `Accounts`), `VeteransAreNotTurnedAway`, `OnlyHalfUsersBlock`, `OneCodePerAttempt`, `OneSessionPerCode`, `CallbacksAnswer` | two identities with one address, of which one is mocked; two attempts, two callbacks on two servers, each by anyone and for any attempt, two exchanges, one failure: every property is about what two requests do to each other |
| `sync_told` | `ToldChangesAreShown`, `HomeCatchesUp` | two revisions after the first, a channel of one (so that it overflows), two faults, two queries of which an event refetches one, both being loaded for the first time at the start |
| `sync_lost_update` | finding: `AcceptedEditsSawTheLatest` fails | two entities |

`TeamRevision`, `Closing` (with `Household`), `Membership`, `SignIn` and `TeamSync` also have their
`TypeOK` checked.  Symmetry is used where only safety is checked and nothing but `Init` or
a constant tells the symmetric values apart (`rev_foreign_tag`, `close_turbulent`, the
two of `Membership`); a run with a liveness property uses none.

`CHECK_DEADLOCK FALSE` is said for `TeamRevision`, `Membership` and `SignIn` only: their
clients stop sending requests at a bound (`MaxRev`, `raced`, the numbers of attempts, callbacks and
exchanges), and the system then rightly rests.  `Closing` may always find that there is
nothing to close, and a page may always poll.

Where `Ordered` is TRUE (all but `close_turbulent`) one job runs at a time, and a month is not started before
the days and weeks are through.  This is how we read README.md:69 ("`close-day` →
`close-week` → `close-month`", one after the other); `close_turbulent` shows
what remains without it.  README.md:70 recommends the 6th
for `close-month`: a month job looks only at months that are over, and the last
week that ends in such a month is over too, so on any day of the next month a month job
behind the other two finds everything.  GETs look at months up to today only, since the
page offers no other.

### Fairness

- `TeamRevision`: a handler whose next statement can run runs it (weak fairness).
  The statements that wait for a row have strong fairness, because Postgres serves
  the waiters for a row in order: one whose row is free again and again gets it.
  Clients need not send, and nothing need fail or be refused.
- `Closing`: the schedule starts each of the three jobs again and again, and a
  job that has started goes on.  Nobody needs to look at the page.
- `SignIn`: a callback that has arrived goes on, and gets `s.mu` in the end: with two
  callbacks weak fairness is enough for that, since nobody asks for it a second time.  Exchanges need not come.
- `TeamSync`: the poll of the page that is in the foreground runs, and a GET of
  home is answered unless it fails.  Nothing is assumed of the stream, which
  README.md:94 allows to lose anything; faults are bounded.

## 4. What is proved

For every value of the constants:

**TeamRevisionProofs**, for any teams, rows, handlers, attempts, and any `MaxRev`:

- `TypeCorrect`: `Spec => []TypeOK`, with `StageInv`, which says what a handler
  holds at each stage, as part of the induction.
- `WinnersAreCurrent`: `Spec => []WinnerReadsCurrent`.  The property is not
  inductive: that a winner reads current data is decided when it reads, not when it
  wins.  `GuardInv` adds the reason: a tag of a team is never newer than the team,
  so while the revision is still the one the tag names nothing has been
  committed since, and what the transaction has read since is current; and winners of one team
  exclude each other.
- `MutationsAreIndivisible`: `Spec /\ []CommitNamesItsTeam => Linearizable`.  The
  hypothesis is needed: `rev_foreign_tag` is the run that breaks it, and a mutation
  that wins with the tag of another team may overwrite what it has not read.
  `OneTeamIsIndivisible` draws the conclusion for one team, where the
  hypothesis holds.  The refinement mapping is the identity on `rev` and `data`.
- `RevisionsAreAnnounced`: `Spec => []EveryRevisionIsAnnouncedOnce`.  On top of `GuardInv`, the
  property is its own induction hypothesis: what a commit adds is the next revision of the row,
  which nobody can hold yet (`MakeStep`), and a handler lets go of its revision only by
  publishing it or by dying with it (`LetGoStep`).
- `MovesAreRevisioned`: `Spec => []MoveIsRevisioned`.  `MoveInv` says why best
  effort is enough: an attempt is lost only to somebody who has made a revision after
  the one the attempt had read, hence after the move.

**TeamSyncProofs**, for any of the three entities and three queries that the code names
(`TeamSyncAssumption`), any capacity, revisions and faults:

- `TypeCorrect`: `Spec => []TypeOK`.  `StreamInv` adds that a page with an open
  stream that has been greeted knows a revision of the team.
- `ToldChangesShown`: `FirstRevision # 0 => (Spec => []ToldChangesAreShown)`.  Of
  the strengthening, `StreamInv` makes sure that a revision that is neither old nor a gap is
  the very next one, and `DataInv` that what a GET has read is not older than what is
  shown, so that its answer takes nothing back.  `InvalidateType` is the step the exception
  rests on: what is invalidated is asked for again, or has not been read yet, or is
  `overtaken`, and what stops being overtaken is asked for.  The assumption is needed: at
  revision 0 `handleRevision` cannot tell a gap (section 5).

**MembershipProofs**, for any users, teams, tasks and requests side by side:

- `TypeCorrect`: `Spec => []TypeOK`, with `StageInv`, which says what a request
  holds at each stage.
- `OwnersAreKept`: `Spec => []OnlyRacesLoseOwners`, and `MovesImplementTeams`:
  `Spec => MovesAreIndivisible`.  Both rest on `IInv`.  That every team has one owner is
  not inductive, since a commit writes what its request decided several statements ago.  `KnowInv`
  adds the reason: a request that nobody has disturbed still knows the present
  membership, a member who can own the team, or that there is none
  (`KnowsPresent`).  So its commit is a `Move` of `Teams` (`CommitMoves`), a move keeps an
  owner in every team (`MoveKeepsOwners`), and it leaves alone what the other undisturbed
  requests know (`CommitKnown`); their own steps before the commit keep it
  (`RequestStep`).  The refinement mapping is the identity on `team`, `owner` and `exists`.
  That every team has exactly one owner is stated without cardinalities (`OneOwner`) until the end.
- `RefusalsHaveCauses`: `Spec => []RefusalsAreExplained`.  `RefusalInv` follows a request
  from `ChooseHeir` on (`TaskInv`): unless it is late, whatever still names its user is
  a deleted task, and when it is about to drop the team nobody else has a task there.  The last needs
  `KnowInv`: a request that drops a team was right that there is no other member.

**SignInProofs**, for any identities, addresses, attempts, callbacks, exchanges, servers
and failures:

- `TypeCorrect`: `Spec => []TypeOK`, with `StageInv`, which says what a callback and
  an exchange hold at each stage.
- `CodesOpenOneSession` and `AttemptsGetOneCode`: two exchanges that are both past the reading
  of a code are in `shared` (`CodeInv`), and two callbacks that are both past the reading of an
  attempt, and have not been refused, are about an attempt in `loose` (`AttemptInv`), whoever
  they are about and whatever the provider says.
- `VeteransAreAdmitted` (`Spec => []VeteransAreNotTurnedAway`) from `KnownInv`: whoever has been
  admitted is linked and stays so, and a later callback of his goes straight to its code.
- `HalfUsersBlock` (`Spec => []OnlyHalfUsersBlock`) from `UserInv`: every user was created by a
  callback that is still at it, was cut off, or has linked him; and a callback that still
  creates although its person is known has been overtaken by one on another server, since `MutexInv` lets only
  one callback of a server be between its lock and its unlock.
- `AccountsAreImplemented`: `Spec => OnlyOwnersAreAdmitted`.  The link of the identity is `Open`
  of `Accounts`, the code is `Admit`, and every other statement is a stutter.

**SumProofs, CalendarProofs** have what the proofs about closing need of sums and dates, for any
finite set and any calendar.  `MapThenSumSet` folds a set in the order `CHOOSE` takes it,
by a function that is recursive over subsets: `TableExists` shows that there is one, and
`SumWithout` that the order does not matter; from them, how sums split, compare, are
grouped (`SumOfGroups`) and renamed (`SumRenamed`).  The library states induction over a
predicate, which the provers cannot instantiate; here it is stated over a set, of numbers
or of sets (`Induction`, `FiniteInduction`), and follows from well-foundedness.

**ClosingProofs** and **TotalsProofs**, for any calendar, tasks, rules, jobs, viewers, failures
and edits:

- `TypeCorrect`: `Spec => []TypeOK`, and `RunsHaveNoGaps`: `Spec => []RunsAreContiguous`, both
  from `ClosingInv`: a period with a run, or that a job is at, is one whose
  turn has come (`Turn`: it is over, and everything before it since the first task has a
  run, `Covered`), a job has `Entered` a run before it evaluates it, and no two jobs have
  entered the same one (`ExclusiveInv`).  Jobs may run side by side in any order and fail anywhere.
- `DebtsStay`: `Spec => DebtsAreSealed`.
- `NothingIsChargedTwice`: `Spec => []NeverOvercharged`.  `ChargeInv` compares the total
  of a month with the bills that are `Paid`: of runs that are settled and whose tariff
  is fixed.  What a statement does to tariffs, dedupes and runs (`Notes`), and to
  totals (`Charges`), is proved for each statement once; a bill that is paid stays the same whatever the
  members do (`MembersLeaveBills`, `Keeps`).
- `RulesAreEarned`: `Spec => []NoUndueRules`.  `RuleInv` says that what a job has read of a
  total, the rules it has found and those it has recorded are paid for (`PaysFor`) by the
  bills of the month (`Worth`), which only grow (`WorthGrows`).
- `ClosedMonthsStayComplete` and `CatchUpIsNotBlocked`: `Ordered` implies `Spec =>
  []ClosedMonthsAreComplete` and `Spec => []NothingIsBlocked`, failures included.  `OrderInv`
  adds that a month that is closed, or that the one job at work is about to close, is
  `Complete`.
- `TotalsStayExact` (`TotalsExact`), `RulesAreExact` (`TriggeredRulesAreDue`), `SummariesStand`
  (`ClosedMonthsStand`) and `StatusIsTrue` (`StatusExplainsTotals`) assume what the ordered
  runs have: `Ordered`, no failure and no GET that creates a summary (`Careful`).
  `close_crash` and `close_viewer` are the runs that show that `TotalsExact` needs the
  last two.  Edits are not restricted (`StatusExplainsTotals` itself speaks of states before the first one).  With care the
  total is the sum of the paid bills and not only below it (`TotalInv`, `CareInv`);
  `DueInv` adds that all runs of a closed month are settled (`AllSettled`), so that its
  worth is what the job judged, and `ClosedIsLeft` that no later closing comes back to it.
- For `StatusIsTrue`, `PresentInv` says that without edits every tariff is the present one;
  `OpenIsMissed` and `MissedIsOpen` that the items computed in Go are the tasks the SQL counts, in the
  month of the last day of a week; and `ItemsAddUp` exchanges the sum over items for the sum over
  periods of the sums over tasks.

The assumptions on constants are named in the modules that declare them, and TLC evaluates
them on the instances: `ConstantsAssumption`, `TeamSyncAssumption`, `MembershipAssumption`
(users sign up into different teams, and no user or request is `Nobody`), those of `SignIn`,
`CalendarAssumption` (months begin on finitely many days, the first on day 1, and the table reaches past
the last day), `HouseholdAssumption` (finitely many tasks and rules) and `ClosingAssumption`.

Every invariant and action property of a passing run is a theorem.  Only model-checked:
liveness (`HandlersAnswer`, `CatchesUp`, `HomeCatchesUp`, `CallbacksAnswer`), which is
out of reach of the prover.

## 5. What came out

Findings, each with its counterexample as a run:

1. `close_crash` — a job that fails between the row of `close_runs`
   (`store_closing.go:148`) and the increment leaves a period that no later catch-up
   comes back to: its penalty is never charged.
2. `close_viewer` — a GET that finds no summary and upserts zeroes resets what a job has
   charged, or the mark that the month is closed, in between
   (`store_closing.go:483`, `monthly_summaries.sql:6-12`).
3. `rev_foreign_tag` — only the number of a tag is compared (`store_sync.go:37`), so the
   tag of the team a user has left passes in his new one when the numbers agree.
4. `member_homeless` — an owner who believes he is alone deletes his team together with
   the user whose join commits in between (`store_user_team.go:466`).
5. `sync_lost_update` — data and tag are read in two statements, and the page has
   one tag for all of its data: a change can be overwritten by someone who has never
   seen it, with a tag the server accepts.

Met on the way and not runs of their own:

- With `FirstRevision = 0`, the revision of a new team, `ToldChangesAreShown` fails:
  when the first two mutations are published in the wrong order, the page takes the
  second as no gap, since `lastSeen > 0` is asked of a revision that is 0, and ignores
  the first.
- A change that is announced while a query is loaded for the first time may stay
  unseen: TanStack Query keeps the first request, which may have read older data, and its
  answer clears the invalidation (`RootLayout.tsx:215-255`).  Home gets over it by its
  poll (`HomeCatchesUp`); the rules and the monthly summary show old data until another event, a
  mutation or a return to the page.  `ToldChangesAreShown` says that there is no other way.
- A reconnect takes over the revision of the greeting and fetches nothing
  (`RootLayout.tsx:336`).  That subscribers "recover by full refetch" after drops
  (`store_events.go:85`) needs another event, a poll or a return to the page; only home is polled.
- A callback that is cut off between the statements of a sign-up leaves a user without
  identity.  Nobody can sign in as him, and his address is taken for good
  (`OnlyHalfUsersBlock` has the other two reasons for which an address is taken).
- Nobody looks at the error of `DeleteAuthRequest` or at the number of rows that
  `ConsumeExchangeCode` has changed: two requests that have read an attempt, or a code,
  before one of them uses it up both succeed.  The provider does not help: two callbacks of
  one attempt have authorization codes of their own, and nonce and verifier fit
  both.  `OneCodePerAttempt` and `OneSessionPerCode` say that there is no other way.
- "oidc identity mismatch" (`store_user_team.go:102`) is unreachable: identities are
  linked to a user who was created three statements ago and has none.
- A deleted task keeps its assignee (`tasks.sql:59`), and the foreign key
  (`000001_init.up.sql:72-74`) keeps the member: assign, delete, and the user can
  neither leave nor join another team, nor can his team be dropped, with no way to undo it.
- An event about members refetches the user, the members and the invite, but neither home
  nor the summary, which show the members' colours until the next poll.

## 6. Plan

Done: every module of section 2, its runs, and the proofs of section 4.

Left, in this order:

1. **Theorems** — a ledger that charges a period at a stroke, as the abstract specification of
   `Closing`, and that the statements implement it where care is taken; exact totals of
   the months that no failure and no GET has touched, whatever happened to others.
2. **Compositions** — closing by `ops close`, which raises no revision, with the page of `TeamSync`;
   a sign-up, whose team begins at revision 0, with the first events of the page.
3. **Several members on one page each** — `TeamSync` with a second page that edits, in
   place of `Change` by anyone.

## 7. Not modelled

- **Several teams in one `ops close`**: they share nothing; a failure of one is
  reported at the end.
- **Time within a day** and time zones; `Calendar` counts days.
- **TanStack Query** beyond what the page relies on: queries that no open page shows,
  `staleTime`, garbage collection; sign-out, which drops everything.
- **Who did it and what it is called**: slots and actors of completions and names in the
  overview, nicknames and colours, titles, notes; an address that changes at the provider.
- **Branches without a database** (`s.q == nil`), which only tests run.
- **Middleware, routing, handlers, repositories**: checks of one request, and calls
  passed on.  **Worker**: a stateless proxy.  **Seeder**: dummy data.  **Generated
  code**: from the SQL and the OpenAPI document.  **Forms**: local state and layout.
