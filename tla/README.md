# Hazardous-waste transfer compliance: TLA+ models and proofs

The repository is a Go backend (gin, gorm; PostgreSQL, MySQL or SQLite; optional Redis) with an
Angular workbench. It keeps producers of waste, carriers, transfer manifests and compliance
checks, moves each along a status graph, and records every change in an audit trail. This
directory holds models of both, TLC configurations that check them, and TLAPS proofs.
Paths below are relative to `src/`; `internal/` is `backend/internal/`.

## 1. Inventory

| Component | State | Operations | Interacts with |
|---|---|---|---|
| Status graphs, `internal/constants/status.go` | none | `CanTransition` | every service |
| Record store, `internal/repository/base.go` | one table per aggregate | `Get`, `FindByCode`, `CreateAudited`, `UpdateAudited`, `DeleteAudited`, `List`, `CountByStatus` | services; database |
| Audit trail, `model.AuditLog`, `newAuditLog` | append-only table | one insert inside each write's transaction; queries | store, security service |
| Generator service, `internal/service/waste_generator.go` | `waste_generators` | create, update, transition, delete | store |
| Carrier service, `carrier_profile.go` | `carrier_profiles` | the same | store |
| Manifest service, `transfer_manifest.go` | `transfer_manifests` | the same; checks generator and carrier | reads the two tables above |
| Check service, `compliance_check.go` | `compliance_checks` | the same; checks the manifest | reads manifests |
| Startup and seed, `internal/database/database.go` | all tables | connect with retries, migrate, seed empty tables | database, Redis |
| Rate limiter, `internal/middleware/ratelimit.go` | Redis counters, local map | count per client, route and minute | Redis |
| Authentication and roles, `internal/middleware/auth.go`, `service/security.go` | none (token) | login, verify token, require a role | every route |
| Audit and status queries, `repository/security.go`, `handler/system.go` | none | list, summary, history, overview | audit trail |
| Session client, `frontend/src/api/client.ts`, `hooks/use-auth.ts` | local storage, a signal | login, restore, logout, clear on 401 | session route |
| Workbench, `frontend/src/stores/factory.ts`, `components/entity-page.component.ts` | last page, pending move | load, create, transition | record routes |
| Configuration, logging, error mapping, process, deployment | – | – | – |

What is hard is concurrency. A request runs in a goroutine, on any replica. A handler reads its
row, decides (status graph, edit guard, papers of the linked parties), and only then opens the
transaction that writes the row and its audit entry. No lock and no transaction spans both
parts. What stands between two requests is the `WHERE id = ? AND version = ?` of `updateRecord`;
deletions and the rows of *other* tables do not even have that. Around the handlers, replicas
start together on one database, count requests in a Redis that may lose answers and data, and
are read page by page while they write; in the browser, tabs share one session and answers
arrive in any order. The 34 hazards found are listed in `PROJECT.json`, each at its line. Twenty-nine
name the properties that cover them; five have a note instead: four because no document says what
should hold there, one because the runs keep to clients that send back versions they have read.

What makes the components correct:

* *Store and services*: a check made before a transaction is still good inside it; statuses
  move only along their graph; a row that may not be edited is not; nothing is applied twice.
* *Audit trail*: exactly one entry per write, telling the history of the row without a gap, and
  in the order in which auditors list it; the figures of a summary fit together.
* *Manifests and checks*: a manifest leaves only with qualified parties; a check passes only an
  active or received manifest; links never point at records that were never created.
* *Startup*: tables are seeded in the order of their links whatever the previous starts did, who
  serves has everything, and every replica comes up once the faults are over.
* *Rate limiter*: a bound on what a client gets per minute while Redis comes and goes, and nobody
  refused before it has had it.
* *Session client*: sessions stay of one piece and signed out; pages offer what routes allow.
* *Workbench*: a confirmed dialog does what it shows, the list is what was asked for.
* *Lists*: a walk over pages repeats only what was written meanwhile, and misses nothing that was
  not, unless a row has left the list, one comes at the end of the walk, or audit entries share a stamp.

## 2. Modules

| Module | What it models |
|---|---|
| `StatusGraphs` | the four graphs and `CanTransition` |
| `AuditedRecord` | abstract: what an aggregate promises, each write one atomic step |
| `RecordService` | one aggregate in detail: table, trail, handlers in two steps; properties; inductive invariant |
| `RecordServiceProofs` | theorems about `RecordService` |
| `Registry` | shared state of the four services: tables, clock, requests under way; the store's operations |
| `WasteGenerators`, `CarrierProfiles`, `TransferManifests`, `ComplianceChecks` | the four services on that state |
| `TransferWorkflow` | composes the four; properties between the tables |
| `Transfers` | abstract: what the four services promise together, of the tables alone |
| `SeedData` | the seeded records |
| `Startup` | replicas connect, migrate, seed, ping Redis, serve; users, kills and outages |
| `WindowQuota` | abstract: what the rate limiter promises |
| `RateLimiter` | the middleware with its counters in Redis and in the map of each process |
| `SessionClient` | the session of the workbench in several tabs, with the routes' roles |
| `Listing` | a client walks over what a search and a status filter find, page by page, while others write |
| `AuditQueries` | the audit trail as auditors read it: summary and history |
| `Workbench` | the page of an entity, its store and its dialogs, with overlapping requests |
| `TransferWorkflowProofs`, `StartupProofs`, `RateLimiterProofs`, `AuditQueriesProofs`, `SessionClientProofs`, `ListingProofs` | theorems about the module named |
| `WorkbenchProofs` | theorems about `StatusGraphs` and `Workbench` |
| `MC...` | constant values for TLC |

**RecordService.** `rows[k]` is the row with business code `k`, `trail[k]` its audit entries,
`work[w]` what worker `w` (a goroutine of any replica) has computed and not yet written.
`Create`, `Update`, `Transition` and `Delete` are the service methods up to their call of the
store: guards on the row as read, and the row to be written, kept in `work[w]`. `CreateAudited`,
`UpdateAudited` and `DeleteAudited` are the transactions, with the conditions the database
evaluates: the unique index (which also covers soft-deleted rows), the version,
`deleted_at IS NULL`. `Abandon` stands for every end without a write: a conflict, a refused
look-up, a cancelled request, an error, the end of the process. Since a transaction is atomic
and a handler's memory is all that is lost, crashes and restarts of replicas are among them.
A request refused before it has a row to write is a stuttering step, and so is the read that
follows a commit. The four services differ in constants: graph, initial status, statuses in
which edits and deletions are accepted. The expected version of a request is a number up to
`Lookahead` above the version of the row that its handler reads; with 0, clients send
back versions they have read. The decision basis of a check, which its transition stores
together with the status, is not part of `content`.

`expected` in a trail entry is not a column of `audit_logs`; it stands for the request, which
the entry names by its request id.

**Registry and the services.** Here a handler has up to four steps: read the row, look up the
generator, look up the carrier (or look up the manifest), write; any number of steps of others
come between. `now` is the clock of `time.Now()`, a small number next to expiry dates that
are numbers too. `seen` notes the version of a linked record and the time of the look-up; no
action reads it, only properties do. Requests carry current versions: the theorem
`SnapshotIsFresh` shows that others are never written. The trail is not repeated here.

**Transfers** has no requests, only tables: each step writes one row, and is right for that row as it
is then. A manifest is edited as a draft and a check as pending, a status moves along its graph, a
passed check is about a manifest that has left draft. Of the parties it can promise only what is
past, because handlers do not lock them: those of a manifest that leaves are known to have been in
order at some time so far. `permitted` and `licensed` are what is known; `TransferWorkflow`
implements `Transfers` with the parties that are in order now, and those that the departures under
way have looked up.

**StatusGraphs** holds the four graphs of the backend and the four of the pages (`TRANSITIONS` in
`frontend/src/types/status.ts`): the repository writes them down twice. Where the two agree and
where they do not is proved in `WorkbenchProofs`.

**Startup.** `phase[r]` is the step replica `r` takes next; each step is one call to the database or
to Redis. `failed[r]` is the variable `err` of the loop in `Open`, which the first ping does not
set and the second one does. `rows` distinguishes absent, live and soft-deleted rows, because
`Count` sees only live ones and the unique index all. A start that fails stops the process, and
the container is started again. Once a replica serves, its users create records under other
codes and delete those they may. `Kill` covers the startup timeout as well.

**RateLimiter.** A request reads the clock, builds its key, and asks Redis; minutes, other
requests, and restarts come in between. `IncrementUnanswered` is a transaction whose answer is
lost: the client library may send it again, or give up, and then the map of the process counts
the request a second time. `LoseIncrements` is a Redis that comes back without its last writes.
The ghost `admitted` counts what was let through, per issuer (Redis or a process), life of that
issuer, client and minute; the refinement to `WindowQuota` says that no issuer lets through more
than the limit. All replicas read one clock.

**SessionClient.** `stored` is the session in local storage, `shown[b]` the signal of a tab. A
restore joins the answer about the token it read to the session it read then; a 401 clears the
storage, but not the signal. Tokens expire at any time. Requests carry the token that is in
storage, which another tab may have replaced, while buttons follow the signal. `Required` is
taken from the routes, `OfferedTo` from the pages.

**Listing.** A page takes two queries, and the client goes on until the pages it got cover the last
total. `bindPage` and `normalizePage` treat a size out of range differently: one answers with the
default, the other with the nearest bound. `list` is what the search and the status filter of the
query find, in its order, and `outside` the other live rows; what a filter says is not modelled, only
which rows it finds. So an update may keep a row and move it up (`Rise`), take it off the list
(`Leave`) or bring it on (`Come`); if the filter finds the row neither before nor after, the list does
not notice. Records are ordered by their last update and then by id. Its time is taken before the
commit, so a row may come in below others. Audit entries are ordered by `created_at` alone: entries
of one `Stamp` have no order between two queries, and `Shuffle` permutes them before the rows of
a page are read.

**AuditQueries.** An entry is stamped when its write is prepared and appended when that commits. A
summary is five queries over one period, with commits in between.

**Workbench.** `calls` are the requests under way; no button waits for another's request, and any
answer replaces the list. A move closes its dialog only when the load after it has returned. A
target in `Guarded` is checked further by its service (linked parties, papers, evidence). The row
does not tell how that ends, so `Outcomes` leaves it open; such a refusal leaves the row as it is. It has the
code of a refusal by the status graph, `business_rule`, and another message; `invalid_input` and
`invalid_transition` stand for the two. The backend's handlers are atomic here, which `ImplementsAuditedRecord` justifies.

In the modules, definitions commented `Slip` are variants of the next definition with a
plausible mistake. Nothing uses them; they serve to confirm that a property notices the mistake.

## 3. What is checked

| Run | Question | Result |
|---|---|---|
| `manifest_records` | Are two concurrent requests on the manifests' graph safe? A seeded draft and a free code, two contents, two workers, versions up to 4 | holds: `FreshSnapshot`, `TrailCountsWrites`, `TrailTellsStatus`, `LegalMoves`, `FrozenContent`, `ImplementsAuditedRecord`, `IInv` |
| `departures` | Can the check of generator and carrier be skipped, while both are edited, moved, deleted and expire? Is each write one that the tables allow at that moment? | no: `QualifiedUnlessOvertaken`; yes: `ImplementsTransfers` |
| `decisions` | Is a passed check about a submitted manifest, whatever edits and moves come between? Can a link name a record that never existed? | yes: `PassedLeftDraft`, `PassableUnlessRejected`; no: `LinksWereCreated` |
| `starts` | Do two replicas that start together, with kills and outages, seed in order, serve only what is seeded, and come up? | yes: `SeedComesFirst`, `ServingIsSeeded`, `ReachedBeforeMigration`, `IInv`; `ComesUpUnlessEmptied` under fairness |
| `limits` | How many requests of a client pass, with lost answers, restarts and a full map? Is anybody refused too early? | at most the limit per issuer and life: `ImplementsWindowQuota`; nobody: `RefusedOnlyWhenSpent`; `OnlyLatestOverCapacity`, `IInv` |
| `tabs` | Do overlapping restores, logins, logouts and 401s in two tabs mix up sessions or bring one back? Do pages offer what is forbidden? Does a tab stay busy? | no: `Whole`, `SignedOutStaysOut`, `OfferedIsAllowed`; `LoadingEnds` under fairness |
| `pages` | What may a walk over pages miss or repeat, for records under a filter and for the audit trail with entries of one stamp, with sizes in and out of range? | it repeats only what was written or is tied: `NothingTwice`; it misses nothing else that stays on the list, but for a late arrival: `NothingMissed`, `IInv` |
| `audits` | Do the figures of a summary fit together? Is the history of a record in order? | yes: `FiguresGrow`; yes but for deletions: `HistoryInOrder` |
| `page` | Does the page of the manifests do what it shows, with two requests under way, lost answers and other users? | yes: `DoesWhatItShows`, `CopiesAreTrue`, `OfferedIsAccepted`, `BusyEnds`, `IInv`; `CurrentQueryShown` only for a search that was alone |
| `retained_records` | Is a submitted manifest safe from deletion (README.md:44)? | **violated** |
| `failed_can_escalate` | Can every failed check be escalated (README.md:43)? | **violated** |
| `emptied_table` | Does a backend come up again whatever records its administrators delete (README.md:59, docker-compose.yml:63)? | **violated** |

The three violations:

1. *A deletion has no version* (`base.go:121`). An administrator's deletion reads a draft;
   an operator submits it; the deletion removes the submitted manifest, and its audit entry
   says it was a draft. Checks and their decisions likewise. `AuditedRecord` says what is left:
   the entry names a status the row once had and in which it could be deleted.
2. *A failed check can get stuck* (`compliance_check.go:112`), by legal steps of one user: a
   check about a draft fails, the draft is deleted, and escalation refuses because the manifest
   is not found. No interleaving is needed; the run has one worker.
3. *An emptied table keeps the backend from starting* (`database.go:129`). `Count` does not see
   soft-deleted rows, the unique index does: when the last live row of a table has been deleted,
   every later start tries to insert the seed again, fails, and exits.

Further weaknesses that the properties name as exceptions, without a run of their own:

* The version a client expects is not compared with the row that its handler reads. A client
  that sends its next request without waiting for the answer (`Lookahead = 1` in `RecordService`)
  can take a manifest back to draft: B, expecting version 2, reads the draft at version 1, A
  commits version 2, B matches. Comparing versions after `Get` would close this; the proofs
  assume `Lookahead = 0`.
* Linked parties and the manifest of a check are not locked (`transfer_manifest.go:122`,
  `compliance_check.go:116`): a generator may be restricted, a manifest rejected, between its
  look-up and the commit. `QualifiedUnlessOvertaken` and `PassableUnlessRejected` state what
  remains: the check is never skipped and never about another record than the one in the row.
* A 401 clears the storage but not the signal of the tab, and a tab acts as whoever signed in
  last in another one; `OfferedIsAllowed` allows for that.
* The pages offer to expire a pending carrier and to escalate a pending check, which the
  backend refuses: `CarriersDiffer` and `ChecksDiffer`.
* An answer to an older search may replace the list of a newer one; a move or a new record
  loads the list without the search on display, and with another page size; a late answer may
  close another dialog than the one it belongs to.
* A client that stops at a total misses a row created between the two queries of the last page, or
  one that moves up when another is deleted. The same goes for an update under a filter
  (`base.go:33`): with `?status=draft` a submission takes its manifest off the list, the others move
  up, and one that nobody has written is missed.
* Audit entries of one `created_at` may be repeated or missed with no write at all
  (`security.go:58`). The id as a second criterion, which records have (`base.go:45`), would close this.
* A refusal by the status graph and one by a linked record have the same code (`handler/errors.go:20`),
  so a client cannot tell by it whether its copy is out of date. `OfferedIsAccepted` is about the first.

### Fairness and deadlock

The runs `starts`, `emptied_table` and `tabs` check liveness; all others are safety only.

* `Startup`: `WF(Starting(r))`, because a process that runs goes on and `restart: unless-stopped`
  starts a container that has ended; `WF(Recovery(service))`, because the database and Redis
  are started again by the same rule. Kills and outages are bounded by `MaxFaults`, so that
  `<>[]` speaks of the time after the last of them. Nothing is assumed of users.
* `SessionClient`: `WF(Signing(b))`. Every request is answered in the end, if only by a failure,
  and its promise continues. Users are not obliged to anything; the property excepts a tab that
  is reloaded for ever.

Deadlock is checked in the runs of `RecordService`, `TransferWorkflow`, `SessionClient` and
`Workbench`, where a new request is always possible or can be given up. It is not in `Startup`,
`RateLimiter`, `AuditQueries` (all counters are used up) and `Listing` (the walk has ended).

### Bounds

* *Two workers*: every property here is about a handler and the writes that come between its
  read and its own write; any number of these can be done by one other worker in turn.
* *Codes*: one or two. Aggregates of one table never read each other; two codes show that writes
  do not cross. In the composed runs the codes are those of the seed plus codes that are free
  (`TM-009` and the like), so that creation and deletion meet the unique index.
* *Versions*: `MaxVersion` bounds what a request may expect, `VersionBound` the revisions per
  table. Version 4 in `manifest_records` allows three writes: an outdated job, the write it must
  not undo, and one more. The composed runs give each table the revisions its question needs:
  three for the manifest that is to go from draft over submitted to in transit, two for parties,
  so that the seeded generator can be restricted and the pending carrier verified on the way.
  `departures` has one generator and one carrier and no checks: a manifest that is linked to another
  party, and the part of `ImplementsTransfers` about checks, are left to the theorems.
* *Clock*: `Horizon` ends it. In `departures` it goes from 4 to 5, where every permit
  runs out. Other runs stop the clock at 3.
* *Contents*: two values, so that an overwritten edit can be seen.
* *Starts*: two replicas, three tables with one seeded row each, one more code, two attempts, three
  faults: enough for one replica to be killed between two tables while the other is past them and
  the database fails. The five tables of the code behave like three, since Seed repeats one step.
* *Limits*: one process and Redis; three clients and a map that holds two; limit 2, so that the
  last permitted, the first refused and the count of the next minute occur among four requests;
  one lost answer, one restart of each, three minutes (the life of a Redis counter).
* *Tabs*: two tabs, two users of different roles, two tokens (one that is lost, one that comes in
  its place), the operation on which the two roles differ.
* *Pages*: a list of five, of which two have one stamp and lie on two sides of a page of 2; a row that the
  filter does not find; two more rows, one of them late and with the stamp of another; three writes,
  pages of 2 and 3, and sizes 0 and 4 that are out of range.
* *Audits*: two requests on one record, two moments, versions up to 3.
* *Page*: two records, one of which can be moved twice, two requests under way, page size 1 and
  reload size 2 so that the two differ. The targets of the manifests that look at linked records are
  `submitted` and `in_transit`. The graphs of carriers and checks are compared in the proofs only.
* *Symmetry* is used over interchangeable constants, in runs of safety properties only.

The proofs lift the bounds on codes, workers, contents, graphs, replicas, tables, clients, tabs, tokens,
requests, entries, page sizes, lists, filters, stamps, guarded targets, searches and calls under way.

## 4. What is proved

Every theorem holds for every value of the constants that satisfies the named assumptions of its
module; TLC evaluates those in the runs.

| Module | Theorems |
|---|---|
| `RecordServiceProofs` | `TypeCorrect`, whatever clients send; with `Lookahead = 0` also `Invariance`, `SnapshotIsFresh`, `OneEntryPerWrite`, `TrailIsHistory`, `MovesAreLegal`, `ContentIsFrozen`, and `Refinement`: the handlers implement `AuditedRecord` |
| `TransferWorkflowProofs` | `Invariance`, `TypeCorrect`, `LinksStayCreated`, `PassesStaySubmitted`, `DeparturesAreQualified`, `PassesArePassable`: all four properties between the tables; `TransfersImplemented`: the handlers implement `Transfers` |
| `StartupProofs` | `Invariance`, `SeedIsFirst`, `ServingAfterSeed`, `PingBeforeMigration` |
| `RateLimiterProofs` | `Invariance`, `MapIsBounded`, `NoEarlyRefusal`, and `QuotaRefinement`: the limiter implements `WindowQuota` |
| `AuditQueriesProofs` | `Invariance`, `TypeCorrect`, `HistoryIsOrdered`, `FiguresFit` |
| `SessionClientProofs` | `Invariance`, `TypeCorrect`, `SessionsAreWhole`, `SignedOutForGood`, `NothingForbiddenIsOffered` |
| `WorkbenchProofs` | about the graphs: `GeneratorsAgree`, `ManifestsAgree`, `CarriersDiffer`, `ChecksDiffer`, `NothingWithheld`, `FinalStatuses`; about the page: `Invariance`, `CopiesTrue`, `NeverLeftBusy`, `LastSearchIsShown`, `DoneAsShown`, `RefusedOnlyAfterChange` |
| `ListingProofs` | `Invariance`, `WalkIsComplete`, `NoRowTwice` |

*RecordService.* `FreshSnapshot` alone is not inductive: it speaks only of jobs whose version
matches, and a job with a version not reached yet would become one. `IInv` therefore says of
*every* prepared revision (`RevisionInv`) that its expected version is at most that of the row,
and that *if* they are equal, status and content of the snapshot are those of the row. A read
establishes this because `Lookahead = 0`. A commit to the same row raises the version, so no
other job for it can still match (`CommitWorkInv`). Reads and abandoned requests
leave rows alone. `CreationInv` and `DeletionInv` say what the jobs without a version know: the
status a deletion saw lies in the past of the row, which is never forgotten (`PastGrows`).
`AbsentInv` and the two trail invariants complete `IInv`, because a commit extends the trail by
the entry that continues it (`CommitTrailInv`). Each transaction, seen through these facts, is
one operation of `AuditedRecord` (`WriteIsOperation`); `LegalMoves` and `FrozenContent` then
follow from the abstract operation (`OperationIsLegal`).

*TransferWorkflow.* The invariant says of each job under way what is left of the knowledge it rests
on. `Based`: a revision is either stale, so that its version cannot match any more, or agrees with
its row in the links and in the move. `Looked`: each record looked up so far existed, is not older
than it was seen, and qualified then or has been overtaken since. Rows only ever grow
(`PermitGrows`, `ManifestGrows`, `CheckGrows`): none disappears, and what changes gets a new version
or is deleted. Facts about jobs survive any growth (`BasedStays`, `LookedStays`), so each action
needs to be looked at only once, for the worker that takes it. Every theorem there assumes that
the tables start with links that lead somewhere and without a passed check of a draft, as the
seed does: `Spec /\ LinksWereCreated /\ PassedLeftDraft => []...`.

That the handlers implement `Transfers` needs to know of a job not only what it may not do, but which
revision of its row it is. `AsRead` says so, of all four tables, for any job whose version still
matches; it survives because a row that changes is deleted or gets the next version (`RowGrows`,
`AsReadStays`). Each transaction is then one write of `Transfers` (`ManifestWritten`,
`AbstractManifestWrite` and their like), what becomes of links and passes coming from
`LinksWereCreated` and `PassedLeftDraft` after the step. `Remembering` is the other half: a party
that is known after a step is in order then, or was known before, since a job gets past a look-up
only by a party that qualifies (`GeneratorLookedUp`, `CarrierLookedUp`).

*Startup.* `StartInv` ties the position of each start to the tables that are seeded: they stay so,
since rows are only ever soft-deleted. *RateLimiter.* `RedisCounts` and `MapCounts` say that an issuer has
counted what it let through, as long as that minute can still be asked for; `Prompt` keeps a
request from outliving its counter. `CountsAreSpent` is the other direction, for runs without losses: a
count never exceeds what was let through until the limit is reached. *AuditQueries.* The stamp of a write that can still commit is
not before those of the entries of its record, since its version was read after them.
*SessionClient.* Whatever waits for an answer holds a session of one piece; no restore that waits is of
a token counted as signed out.

The five figures of a summary are compared without summing: the counts by group add up to the size
of one set of pairs (`AddUp`), and `GroupsAddUp` shows that set to be in bijection with the entries
grouped. `Counted` then says of each figure that has been answered that it is at most what the
same query would say now, since a period once begun only gains entries (`PeriodGrows`), and of each
later figure that it is at least every earlier one.

*Workbench.* `CopiesAreTrue` is inductive because a version stands for its row: whoever writes a row
raises its version, and whoever creates one creates it under a free id, so a copy with the version
of the row *is* the row (`MoveKeepsCopies`, `CreationKeepsCopies`). `DoneAsShown` is the use of
that: the backend compares versions only, and yet carries out a move from the status that was shown.
With `MovesAreOffered`, which follows a move from the list through the dialog into its request, the
same fact gives `RefusedOnlyAfterChange`: the status graph refuses a move only if its row has changed
since it was read. A refusal by linked records is not included, since it may meet a row that
nobody has touched. Its hypothesis, that the graph of the page lies within
that of the backend, is what `GeneratorsAgree` and `ManifestsAgree` prove and `CarriersDiffer` and
`ChecksDiffer` deny. `AloneUntilShown` says what a search that was alone leads to: it is under way
and nothing else is, or it has been answered.

*Listing.* What the client knows is tied to places in a list that moves. A row that comes onto the list
moves others down, an update moves its own row up and others down; only rows that leave move others
up. So a row that stays unwritten, while none leaves, only moves down: if it has not been seen it
remains ahead of the client (`UnseenAreAhead`). If nothing comes or is updated, rows only move up: what
has been seen remains behind (`SeenAreBehind`). `Shuffle` moves tied entries only, and those are exempt;
the exemption lasts, because audit entries are only added, so an entry once tied stays tied.
`TotalIsLength` turns the end of the walk into the end of the list. The step of a page rests on both
page sizes being the same, `NormalizePage(BindPage(s)) = BindPage(s)`.

*Model-checked only.* `ComesUpUnlessEmptied` and `LoadingEnds`, the two liveness properties: fairness
and `ENABLED` are out of this prover's reach. Every other property of a passing run is a theorem. That
the actions of `RecordService` may be taken as atomic in `Workbench` is an argument, from
`Refinement`, and not a composition of the two modules.

## 5. Plan

Done: the backend's handlers and their composition, start, limiter, audit queries and lists, the
session and the pages. What could follow is the drain of requests at the shutdown of a process, which
today is an `Abandon` or a `Kill`.

## 6. Not modelled

Text fields, their validation and limits (a refused request changes nothing); the details and
request ids of audit entries; the unique permit and license numbers (a clash is one more
`Abandon`); the overview and the counts by status, which only read; search terms other than as
the set of records they find; the signature of tokens and password hashing, done by libraries;
`RequireRoles`, which guards deletions and which no page offers; configuration, logging and
request ids, which have no state; HTTP codes other than those the clients tell apart; the headers
of the rate limiter; the unaudited `Create`, `Update` and `Delete` of the store and
`SecurityService.Audit`, which nothing calls; layout and formatting of the frontend; deployment
files.

Assumed of the environment: the replicas read one clock that does not go back; a request does not
wait in the limiter for a minute (the timeouts of the Redis client are seconds).

Database isolation: a write is one conditional statement followed by the insert of the audit
entry, in a transaction. Models take it as atomic, which holds at the default isolation levels
of the three databases: an `UPDATE ... WHERE version = ?` that waited for another transaction
evaluates its condition on the row that one has left.
