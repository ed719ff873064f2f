# A verification of the Shenzhen Light Governance service

TLA+ models of the case workflow, of the persistence layer, of authentication, of the
server process with its background tasks, of the lists clients read, and of the two
light-pollution libraries of this repository, checked with TLC on small instances;
the safety properties, and the refinement of the abstract case lifecycle, are also
proved with TLAPS for every value of the constants. `PROJECT.json` maps every definition to the lines it models.

## 1. The system

| Component | State | Operations | Modelled by |
| --- | --- | --- | --- |
| Case domain, adjudicator (`internal/domain`, `internal/dispatch`) | none | transition table, rule matching, choice of the routing rule | `CaseDomain` |
| Item service (`internal/service/case_service.go`) | rows of items, assignments, audit_entries | Register, StartProcessing, Modify, ReturnForCorrection, Resubmit, Cancel, Complete | `CaseFlow` |
| Rule service | rules | CreateRule, with or without a version to supersede | `CaseFlow` |
| Escalation service, run by the scheduler | items, escalations, assignments | CheckAndEscalate: one scan, then one transaction per overdue case | `CaseFlow` |
| Re-evaluation worker (`internal/worker`) | one sweep (runMu), its loop | read version, read rules, collect page by page, then reload and rewrite each case | `CaseFlow`, pages in `Listing`, loop in `TaskRunner` |
| Index (`internal/index`) | SQLite tables, one connection | queries and statements | `CaseFlow`, `RepoStore`, `Listing` |
| Repository and shards (`internal/repo`, `internal/shard`) | JSONL files, index, manifest | WithTx, Save/Update, RebuildIndex, Reconcile, Diagnose | `RepoStore` |
| Batch import, failure retry, task failure record | import_batches, permanent_failures | Import, RetryFailure, recordTaskFailure | `RepoStore` (transactions) |
| `internal/lightops` | maps under one mutex, request keys | intake, plans, reviews, assessments, zones, closure, retry | `LightOps` |
| `internal/hub` | registry under one RWMutex | the same workflow with capacities of teams, zones, rules, panels | `LightHub` |
| Authentication (`internal/auth`), middleware and roles of the HTTP API | users and sessions in memory, one JSON file | Open, Login, Resolve, Logout, role check | `AuthSessions` |
| Configuration (`internal/config`) | none | Load: defaults, file, environment, Validate | `Config` |
| Scheduler, server process (`internal/scheduler`, `cmd/lightgovernance`) | loops, contexts, started flags | Start, ticks, retries with backoff, failure record, readyz, Shutdown, Stop | `TaskRunner` |
| Lists and exports (`ListItems`, `Export`) | none | offset paging, filters and order by time text | `Listing` |
| HTTP decoding, logging, command line | nothing | see section 8 | not modelled |

How they interact: HTTP requests call a service; the service reads the index, decides,
and passes a function to `store.WithTx`. Scheduler and worker are goroutines of the same
process that call the same store. Every `Save` and `Update` of a transaction first
appends a record to a shard and then changes the index. `hubctl` opens the same data
directory from another process. `internal/lightops` and `internal/hub` are libraries
that only their tests use so far.

What is hard here, and where it lives (the list `hazards` of `PROJECT.json` has the lines):

* **Reads outside the transaction.** No operation looks at a row again inside its
  transaction, and it writes the whole row. Requests, scheduler and worker overwrite
  each other; the question is what survives that and what does not.
* **Two stores.** The shard append is not undone by the rollback of the index.
* **Recovery.** A rebuild guesses from other tables what the shards do not say, reads the
  files in the order of their dates and passes over those it cannot read.
* **Sessions.** Memory and file differ after a failed write; a restart keeps the file.
* **Time limits.** A task's timeout, its backoff and the stop of the process race.
* **Moving lists.** Pages are addressed by offset while cases enter and leave the filter,
  and instants are compared as text.
* **Liveness.** One case must not keep the others from being escalated; a pending case
  must leave a superseded rule.
* **Counters, fields and identities chosen by callers** in the two libraries.

What makes each part correct: a case has one lead, that of its rule; its referrals,
escalations and audit entries agree with it; outcomes are final; rules have a gapless
history; committed data survives every failure, and a reconciliation that reports
nothing may be believed; what a caller was told about a session stays true; a task ends
and a stop returns; a list misses and repeats no more than the changes made during the
reading explain; no capacity is oversold or lost; an approval rests on what the
approver saw.

## 2. Modules

| Module | Role |
| --- | --- |
| `CaseDomain` | pure operators: `transitionTable`, `ValidateTransition`, `Matches`, `IsActiveAt`, `Adjudicate`, `EscalationDepartmentName` |
| `CaseFlow` | the services, the scheduler's task and the worker on one index |
| `CaseLifecycle` | abstract specification: what a reader of status and level may rely on |
| `RepoStore` | shards, index, transactions, rebuild, reconciliation, failures |
| `AuthSessions` | accounts, sessions, middleware |
| `Config`, `TaskRunner` | the configuration, and the process that runs with it (`TaskRunner` extends `Config`) |
| `Listing` | reading lists beside writers |
| `LightOps`, `LightHub` | the two libraries |
| `CaseFlowProofs`, `CaseFlowSafetyProofs`, `RepoStoreProofs`, `AuthSessionsProofs`, `TaskRunnerProofs`, `ListingProofs`, `LightOpsProofs`, `LightHubProofs` | theorems about the module named, and their lemmas |
| `MC...` | values for the constants |

### CaseFlow

An operation is two actions. The first (`StartProcessing(c, r)`, ...) has the guard of
the code's checks, computes the changed row and leaves it in `call[c]`; the second
(`RegisterTx`, `UpdateItemWithAudit`) is the transaction. `CallFails` is a transaction
that is rolled back. `CreateRule`/`CreateRuleTx` do the same through `draft`. The worker
goes through `SweepVersion`, `SweepRules`, `CollectStaleItems` and, per case,
`ReevalLoad` and `ReevalTx`; the scheduler's task scans in `CheckAndEscalate` and then
runs `EscalateItem` for each scanned row, in the order of the deadlines, or ends early
(`EscalationAborts`). `Restart` drops everything in flight. A transaction is one step
because the pool has one connection (`SetMaxOpenConns(1)`).

A refused request is no step: it changes nothing. Titles, contacts, materials and
co-departments are left out; no decision reads them. A lead is the department and the
list of its supervisor suffixes. An item is named by its `external_ref`, which is
UNIQUE and never deleted. `effective_to` is set only together with the status
`superseded`, so the status stands for both. Pages of `collectStaleItems` are one read
here; `Listing` has the pages.

`SerialSpec` is the same system with operations that do not overlap.

### RepoStore

A request reads the index and draws up a list of statements (`Ask`), then the
transaction runs them one by one (`BeginTx`, `Execute`, `Commit`). A statement that
stores an entity appends a record even if the index then refuses it. A `Save` files its
record by the entity's own timestamp, which the request took before the transaction (for a
failure, the time of the first attempt, on any earlier day), an `Update` by the clock
(`FilingDay`); so around midnight a record may be appended to the older of two files.
Failures are `Rollback`, `TornWrite` (the line has no end and the next one is glued to it),
`Crash` and `OpenEmptyIndex` (started without `index.db`, which is created empty).

A rebuild is `RebuildScan` followed by `RebuildTx` or, on a constraint,
`RebuildConflict`; the server may be running or not. The files are read in the order of
their dates and the last record of a key wins (`LastOf`, `Collected`). `ReadAll` fails on
an I/O error or a line longer than 16 MB, and then gives no record of that file at all
(`FailedReads`). The code reads each file up to four times, and any of the readings
may fail: in the scan the file is skipped and the rebuild goes on to delete, insert and
commit; for the manifest the entry becomes `corrupted` with no lines and no checksum; for
its checksum the entry is `ok` without one; in `Reconcile` the file is reported and not
compared. `raced` remembers that the last rebuild stored a scan that was no longer all
there is, `skipped` the records in the files it skipped. Not modelled is a
checksum that fails in `Reconcile`: it reports a mismatch, and no property is about a
report that has one.

The number of a request stands for its UUIDs and its content; `ShardMax` counts records
instead of bytes. A rule request supersedes any version, stored or not, as the code does
not look it up. `Diagnose` only reads, as `Reconcile` does.

### AuthSessions

`users` and `sessions` are the memory of the store, `disk` its file. Every call of
`persist` may fail (a temporary file is renamed, so the file holds the old state or the
new one; loss of the page cache in a power failure is not modelled). `Login` is two
critical sections in the code and two actions here; the answers of the handlers are
actions of their own, and `promise` and `loggedOut` remember what the callers were told.
`Open` is a start with any of several configurations, `Crash` an end at any point. A
request that passes the middleware carries a copy of its user to the role check and to the
handler. A refused request is no step. A hash stands for the password it accepts, a token
is a value nobody can guess.

### Config, TaskRunner

`Config` is `Load` as a pure operator: the configurations a file and an environment give,
none when `Validate` refuses. In `TaskRunner` main goes through its start (`Boot` to
`ListenAndServe`); each loop takes ticks from a channel of one, and a task goes through
attempts, backoffs and the record of its failure; `age` and `wait` are the seconds of the
task's context and of its timer. A select with several ready cases may take any. The
goroutine that waits for a signal shuts the server down, stops scheduler and worker and
closes the store; `MainReturns` may end the process at any point of that.

### Listing

A walk is the sweep's `collectStaleItems` or a client of `GET /api/items` reading on until
a page is short; an export is one call. Between its statements cases are registered
(newest times last) and change their status. Page sizes, cap and default keep their
relations and are scaled down. An instant is a number of quarters of a second; its text is
the local second, the fraction without trailing zeros and the zone, as `RFC3339Nano`
writes it, and texts are compared character by character. Equal texts come in either of
the two orders a query plan of SQLite gives (`newerFirst`).

### LightOps, LightHub

Every operation holds the lock throughout and is one action. In `LightOps` the
interleaving is between callers: a reviewer decides on a copy (`Read`, `Decide`), the
worker's second attempt comes after the lock was released, and the storage write of a
submission or a publication may fail (parameter `fails`), which the package provokes with
`FailNextEvent` and `FailNextPlan`. Request keys are tuples of their parts; the code joins
them with `:`, and parts that contain one are not modelled.

In `LightHub` version fields and timestamps are never read and are left out; a venue kind
is a word and whether it is in normal form. A caller hands in whole records, and the code
stores what they say of measurements reserved, fixtures allocated, applications used and
assessors seated unchecked: the counters of a new team, zone or rule are any of `Openings`,
also negative or beyond the capacity, the members of a new panel any of `Rosters`, also
twice the same, and zone and rule of a new complaint any of `Intakes`. The fields
`opening`, `intake` and `holders` are history: what was handed in, and the complaints
`AssignZone` or `ApplyRule` ever gave a share.

## 3. Runs that pass

| Run | Instance | Checks |
| --- | --- | --- |
| `case_agents` | 1 case, 1 client, 2 administrators (symmetric), 2 rule versions, worker, scheduler, level 1 | `TypeOK`, `RoutedByItsRule`, `OneCurrentReferral`, `RuleVersionsContiguous`, `UniqueLead`, `HistoryKept` |
| `case_clients` | 1 case, 2 clients (symmetric), scheduler, level 1, overdue twice | `StoredRowsCoherent`, `AuditLedger`, `EscalationQueueBelowMax` |
| `case_serial` | `SerialSpec`, level 2, 2 rules, 2 edits | `TablesAgree`, `ImplementsLifecycle` (refinement) |
| `escalation_live` | `FairSpec`, 2 cases, returns included | `OverdueEscalates` |
| `repo` | 2 clients (symmetric), every kind of request and of failure, failing reads, 2 days, 2 rebuilds beside the server or without it | `TypeOK`, `BackedByShards`, `CommittedIsRestored`, `CleanReconcileIsRight`, `PlainCasesKeepTheirReferral`, `RulesSurviveRebuilds` |
| `auth` | 2 clients, 2 tokens (symmetric), 2 accounts, 6 bootstrap lists, authentication on and off | `TypeOK`, `AcknowledgedIsDurable`, `HonouredUntilExpiry`, `ServedByRole`, `AdmittedAsPromised` |
| `tasks` | 1 scheduler loop, the worker's loop, 1 monitor, 4 files x 6 environments | `RecordedWithinTimeout`, `ClosedWhenIdle`, `ReadyIsTrue`, `StopReturns`, `TaskEnds` |
| `listing` | 4 cases, cap 2, default page 1, 2 zones, 3 windows, 2 changes of status per walk | `WalkAccountsForMoves`, `ExportFollowsTheClock` |
| `lightops` | 2 complaints, plans and districts, 1 reviewer, 1 worker, blank and prefilled intake; symmetric | `TypeOK`, `OperationsAreWhole`, `RecordsResolve`, `KeysAreStable`, `AcceptedAsRead` |
| `hub` | 2 complaints, teams, zones and districts, 1 rule and panel, 3 assessors; capacity 2, counters of -1, 0, 1 or 3, a panel registered empty or with one assessor twice, complaints with and without zone or rule; symmetric | `TypeOK`, `TeamLedger`, `EventsTellTheStory`, `AcceptedIsPrepared`, `NeverOversold` |

Every property has a deliberate fault (the definitions marked so, next to the one they
replace) under which the same run reports it violated.

**Bounds.** `Cap` bounds how often each audited action commits per case: each once (or
twice for the daemons' actions) is enough for every pair of actions to race in both
orders and for a daemon to act on the result of its own earlier step. `MaxTime` 4 lets a
case become overdue, be escalated and become overdue again (in `case_agents`, 2 lets it be
escalated once). `MaxVersion` 2 gives a
rule, a successor and a race for the next number. In `repo` two requests, one after the
other or at the same time, let a record be written, rewritten, rejected, lost or glued,
and two rebuilds let each be rebuilt, also while the other request runs; files rotate at
the third record, and the second day lets a request that began on the first file behind
one that began later. `MaxUnread` lets one file fail in every reading of the shards, which
may be another one in the scan, for the manifest, for the checksums and in the
reconciliation; `Unreadable` names the files it may be: those that are rewritten (items),
those a rebuild guesses from (escalations) and those filed under earlier days (failures).
Once a read has failed the run goes on with one request at a time, none beside a rebuild,
and without rules and batches (the constraint `Explored`); without failed reads everything
interleaves. In `auth` a session lives one unit of a clock of two, so it is used,
expires and is logged out in every order. In `tasks` three attempts with waits of 1 and 2
seconds meet a timeout of 4, which they fit, and of 3, which they miss by one. The loops
of the two tasks are the same code on their own state, so one is enough; time is counted
only for running tasks. In `listing` four cases make two full pages, and two changes of
status per walk are enough for a page to shift by one in either direction twice.
`MaxVersion` of `LightOps` bounds a complaint to two changes after its submission, enough
for a decision to be overtaken by another change. In `hub` every
resource has capacity 2 and requests ask for 1 or 2, so each is filled exactly and refuses
the next request; a counter of -1 leaves room for one more than the capacity and makes a
release underflow, one of 3 leaves none. Teams, zones, and rules with panels share nothing
but the complaint, so the run looks at two teams with one zone, two zones with one team,
and rules with panels, not at all of them together (`Explored`).
The theorems of section 5 know neither constraint: they hold of every state of `Spec`, for
any `MaxUnread` and `Unreadable`.
Deadlock is checked in every run; `Ended` of `TaskRunner` is a process that is gone.

Some properties are stated for the circumstances in which the code keeps them.
`OverdueEscalates` names what can keep a case overdue, a returned case that fell due no
later. `CommittedIsRestored` and `CleanReconcileIsRight` except a rebuild the server
overtook and the records of files that the last rebuild failed to read: that it costs
those and no others is what they say. The latter also excepts rotated files and a manifest
whose checksum could not be computed. `PlainCasesKeepTheirReferral` is about cases without
escalation and re-evaluation. `ReadyIsTrue` and `ClosedWhenIdle` except a request that
outlived Shutdown's timeout. `ExportFollowsTheClock` says how far texts and instants may
disagree. `TeamLedger` and `NeverOversold` count from what was registered:
a team, zone or rule is within its capacity as soon as it has given a share, and one that
was registered beyond it gives none. `AcceptedIsPrepared` tells a zone the complaint was
given from one it was submitted with, which nothing compares with the complaint.

**Fairness.** `FairSpec` of `CaseFlow`: the ticker of `runEscalationLoop` fires again and
again (WF of the scan), a started task goes on (WF of its steps), and a task that comes
back to an escalatable row again and again does not fail every single time (SF of
`EscalateItem`). Nothing is assumed of clients, administrators and the worker. `Spec` of
`TaskRunner`: goroutines that can run do (WF of the steps of a loop and of the signal
goroutine, since every attempt runs under a context and the store answers), time passes
(WF of `Tick`), and Go's select, which draws at random among its ready cases, does not
pass over a cancelled context forever (SF of `ExitLoop`). Ticks, signals, probes and the
return of main are not fair.

## 4. Where the code does otherwise

Two runs state what a comment or a test of the repository says and show a behaviour of
the code that contradicts it (`findings` quotes the lines).

| Run | Refuted | How |
| --- | --- | --- |
| `terminal_lost` | `TerminalIsFinal` | a stale row is written over a completed or cancelled case |
| `login_after_restart` | `HashIsStored` | the file has no password hashes, so after a restart nobody can log in |

The models show more of the kind, for which no run is kept:

* `CheckAndEscalate` returns at the first case whose transition is illegal. A returned,
  overdue case with the earliest deadline therefore ends every run, and the overdue cases
  behind it are never escalated (`service/escalation_service.go:43`; the premise of
  `OverdueEscalates`).
* The record of a rolled-back transaction is in the shards and comes back with a rebuild
  (`repo/store.go:147`).
* main returns as soon as Shutdown begins, so the process usually ends before Stop has
  waited for the loops (`cmd/lightgovernance/main.go:70`; action `MainReturns`).
* A failure is recorded under the task's context: one that ran into its timeout leaves no
  record, and with waits longer than the timeout no failure is ever recorded
  (`scheduler/tasks.go:24`; `RecordedWithinTimeout`). The first failure time of the record
  assumes waits that do not double (`scheduler/tasks.go:75`).
* Intervals are not validated; a zero one panics in the loop after the start
  (`config/config.go:123`; action `NewTicker`). A variable that does not parse is ignored.
* A case that leaves the status being paged hides another one from the sweep until the next
  sweep (`worker/reeval.go:86`); `WalkAccountsForMoves` is the bound.
* An export is cut at 200 rows although it asks for 1000 (`service/batch_service.go:91`). At
  a bound on a whole second in UTC, and by the zones' distance for a bound in another zone,
  it has rows too many or too few (`index/schema.go:181`).
* `hub`: pages of `ListComplaints` are cut from a map in random order
  (`hub/light_service.go:342`).
* `ReevalTx` writes over a case that was started after the worker's reload
  (`worker/reeval.go:137`), although "in-flight work is never disrupted".
* A sweep uses the rules it loaded at its start, so a case registered meanwhile can move to
  an older rule (`worker/reeval.go:38`).
* `Adjudicate` asks which rules were in force at the registration, so a successor rule never
  takes over the cases that were pending when it came (`dispatch/adjudicator.go:30`).
* `DeleteAllData` keeps the rules and the rebuild inserts them again, so a rebuild fails on
  their primary key (`index/writes.go:217`; action `RebuildConflict`). With the index lost,
  the rule of a rolled-back creation can take the place of the committed one.
* `postProcessRebuild` retires every referral of an escalated case and none of a
  re-evaluated one (`repo/rebuild.go:188`).
* A file that the scan of a rebuild cannot read is left out, and the rebuild commits the
  index without its rows and returns no error (`repo/rebuild.go:105`); only the report names
  it. When the file can be read again a moment later, for the manifest, `Reconcile` finds
  nothing to report although the rows are missing (`CleanReconcileIsRight` names it).
* Rotated shard files are not scanned (`shard/scanner.go:38`); what commits between the scan
  and the transaction of a rebuild is erased from the index (`repo/rebuild.go:120`).
* `lightops`: `PublishPlan` replaces a plan of the same id, also one of another district, and
  `CloseComplaint` does not ask whose plan was verified (`lightops/service.go:62` and `186`).
* `hub`: counters and rosters are stored as the caller gives them
  (`hub/light_registry.go:64`, `80`, `97`, `116`): a team registered with -1 takes more
  measurements than its capacity and then refuses the release of the last as an underflow,
  and one registered beyond its capacity takes none.
* `hub`: a complaint submitted with a zone can be accepted there, also in another district
  and without a fixture (`hub/light_service.go:26` and `138`); zone and rule keep the share
  of a complaint that moved on (`174`).
* `hub`: a released reservation counts at acceptance (`hub/light_service.go:135`); capacity is
  checked before the reservation a complaint already holds (`76`); no operation sets the status "active" that
  closure starts from (`hub/light_policy.go:41`; the lemma `Refused` of `LightHubProofs`
  proves that closure and resubmission are refused in every state that occurs).

## 5. What is proved

Every safety property that a passing run checks is a theorem: for any sets of cases,
clients, tokens, teams and so on, any page sizes, timeouts, deadlines and levels, and any
bounds. What is assumed of the constants are the named `ASSUME`s of the modules, which
TLC evaluates on its instances: numbers are numbers and positive where the code refuses
zero or takes it for a default (`LevelAssumption`, `TimeAssumption`, `TTLAssumption`,
`NumbersAssumption`, `StoreAssumption`, `PageAssumption`), reserved values are no ordinary
ones (`NobodyAssumption`, `NoFileAssumption`, `HubAssumption`), and what callers may send
is of the kinds the code decodes (`FormAssumption`, `IntakeAssumption`). No theorem
carries an assumption of its own.

| Module | Theorem | Statement |
| --- | --- | --- |
| `CaseFlowProofs` | `TypeCorrectness` | `Spec => []TypeOK` |
| | `RuleVersionsAreContiguous` | `Spec => []RuleVersionsContiguous` |
| `CaseFlowSafetyProofs` | `CasesAreRoutedByTheirRule` | `Spec => []RoutedByItsRule` |
| | `StoredCasesAreCoherent` | `Spec => []StoredRowsCoherent` |
| | `ReferralIsUnique` | `Spec => []OneCurrentReferral` |
| | `AuditAccountsForTables` | `Spec => []AuditLedger` |
| | `EscalationStaysBelowMax` | `Spec => []EscalationQueueBelowMax` |
| | `HistoryIsKept` | `Spec => HistoryKept` |
| | `LeadIsUnique` | `Spec => []UniqueLead` |
| | `TablesAgreeSerially` | `SerialSpec => []TablesAgree` |
| | `ServicesImplementLifecycle` | `SerialSpec => ImplementsLifecycle` |
| `RepoStoreProofs` | `TypeCorrect` | `Spec => []TypeOK` |
| | `IndexIsBacked` | `Spec => []BackedByShards` |
| | `RebuildRestores` | `Spec => []CommittedIsRestored` |
| | `ReconcileIsRight` | `Spec => []CleanReconcileIsRight` |
| | `ReferralsKept` | `Spec => []PlainCasesKeepTheirReferral` |
| | `RulesSurvive` | `Spec => RulesSurviveRebuilds` |
| `AuthSessionsProofs` | `TypeCorrect` | `Spec => []TypeOK` |
| | `Durable` | `Spec => []AcknowledgedIsDurable` |
| | `Honoured` | `Spec => []HonouredUntilExpiry` |
| | `RolesEnforced` | `Spec => []ServedByRole` |
| | `Admission` | `Spec => AdmittedAsPromised` |
| `TaskRunnerProofs` | `FailuresAreTrue` | `Spec => []RecordedWithinTimeout` |
| | `ClosesLast` | `Spec => []ClosedWhenIdle` |
| | `ReadyMeansAlive` | `Spec => ReadyIsTrue` |
| `ListingProofs` | `WalksAreAccountedFor` | `Spec => []WalkAccountsForMoves` |
| | `ExportsFollowTheClock` | `Spec => []ExportFollowsTheClock` |
| `LightOpsProofs` | `TypeCorrect` | `Spec => []TypeOK` |
| | `Resolves` | `Spec => []RecordsResolve` |
| | `Whole` | `Spec => []OperationsAreWhole` |
| | `StableKeys` | `Spec => KeysAreStable` |
| | `AcceptsWhatWasRead` | `Spec => AcceptedAsRead` |
| `LightHubProofs` | `TypeCorrect` | `Spec => []TypeOK` |
| | `StoryToldOnce` | `Spec => []EventsTellTheStory` |
| | `LedgersBalance` | `Spec => []TeamLedger` |
| | `NothingOversold` | `Spec => []NeverOversold` |
| | `AcceptanceIsPrepared` | `Spec => []AcceptedIsPrepared` |

Each proof has an inductive invariant, one step per action, and a last step that is
temporal. Hardly any of the properties is inductive as it stands; this is what they needed.

**CaseFlow.** `BaseInv` is types, contiguous versions, and that a draft's version is at
most one above the present maximum, because the version is computed from a maximum that
may have grown since. `RowsInv` is the heart of the argument: not only the stored rows but
every row in flight (in `call`, in the worker's `pending`, in the escalation queue) is
routed by its rule, coherent and of a registered case (or about to be), with the
registration time of the stored one. A stale write then does no harm to these properties,
because a row that was coherent when it was read and legally changed is coherent when it is
written, whatever it overwrites; rules are only superseded, never changed, so an old row
stays routed by its rule. One current referral, the audit ledger and the escalation records
are inductive with it. `LeadIsUnique` rests on the versions: no two
rules share one, so they decide among the candidates of equal priority, and a first
candidate exists because the versions are the numbers up to some n.

The same argument cannot give `TerminalIsFinal` or `TablesAgree`, which relate a row to
others; section 4 shows the first to be false. For operations one at a time `SerialInv`
adds that at most one operation is in flight and that its rows are fresh: nobody changed
the row since it was read. Then a client's write keeps the routing and makes a legal move,
the worker's keeps status and level, and the escalation's row is the stored one. That
gives `TablesAgree`, and step by step the refinement: initial states map to initial states
of `CaseLifecycle`, and every step to one of its actions or to a stuttering step.

**RepoStore.** Every row of the index, of a transaction's copy and of a scan is backed by
a whole record (`AllBacked`), and a superseded rule has its audit record or the transaction
is about to write it (`Accounted`). An open transaction holds for each key the record it
appended last or else what the index holds (`Carried`, `RulesCarried`), because requests
are numbered once (`Numbered`) and there is one connection. A retired referral has a
successor or an escalation record, if only as the next statement (`Referred`). For a
rebuild: as long as the index was not lost and no rebuild was overtaken, everything that
can be recovered is in the index with the content of the record that is read last
(`Restored`). That record is the last of the latest file (`LastIn`), and not the one
appended last: what saves the property is that a key is inserted once and every later
record of it is an update, filed by a clock that never runs backwards. A failed read
removes whole files from what a scan delivers (`Delivers`) and leaves the others as they
are. The sizes in the manifest are never ahead of the files (`Manifested`), so equal sizes
mean that nothing was appended since; an entry that is not `ok` has no lines, while a file
has at least one, since its first line is glued to nothing: a file the manifest could not
read is therefore never clean.

**AuthSessions.** Memory covers the file: a session of the file is in memory, equal except
that the revocation may be ahead (`MemoryCoversFile`). So whoever rewrites the file, also
for another client and after failed writes, writes a superset of what was promised.
`Promised` and `Revoked` say that answered logins and logouts are in the file, `Requests`
what a request between two critical sections relies on, `Owners` that sessions have
accounts, which the role check and a restart need.

**TaskRunner.** `Stopped` ties the stages of the signal goroutine to the loops that have
ended and `Launched` those of main to the loops that have begun; `Outlived` says which
requests can be open after Shutdown. `Pace` is the arithmetic: the age of a task is at
least the sum of the waits it has had (`Backoffs`, which is capped like the code's shift)
or has reached the timeout.

**Listing.** A page is a stretch of ranks in a strict order. `WalkPaid` is the bargain a
walk makes with the writers: the rows it has missed (unseen, before its offset) are at
most those that left, and its repetitions so far plus those it is bound to make (seen,
behind its offset) at most those that came. A row that leaves moves one rank over the
offset, a row that comes another; reading a page turns what was due into repetitions;
after a short page every rank lies before the offset. That texts order rows at all is
proved from the characters `formatTime` writes (`TextOrder`), as is how far they follow
the clock (`TextFollowsClock`).

**LightOps.** Every complaint has one event and one key, every plan key a plan and the
reverse; a copy is never ahead of the store, and one of the same version is the stored
record, because every change raises the version (`CopiesAreTrue`).

**LightHub.** A zone's holders are counted by a case distinction: a complaint that is
new to it raises the number by one and the counter by at least one, an old one the counter
only (`ZoneHeld`, `RuleHeld`); a complaint names a zone as holder or from its intake
(`ZoneGiven`). For acceptance every holder fits its zone (`Fits`), since district and kind
of both are never changed; `AcceptedIsPrepared` alone is not inductive, because a complaint
is a holder before it is accepted. Assessors enrolled stand behind those registered
(`Seated`). `TeamLedger` needs that a sum over a set does not depend on the order in which
its elements are taken, and that every reservation names an existing team, so that a new
one starts with none.

Facts that need induction over numbers or finite sets (sums, least and newest elements)
are proved by looking at a smallest counterexample, with the library's theorem that `<` is
well founded on the naturals.

## 6. Only model-checked

Liveness: `OverdueEscalates`, `StopReturns` and `TaskEnds`. Fairness and ENABLED are out of
the prover's reach. The deliberate faults and the two refuted statements of section 4 are
TLC's as well.

## 7. Plan

Every property has its run, and every safety property its theorem. Worth adding:

1. A theorem about the safety half of the liveness properties: what `OverdueEscalates`
   takes as its measure, that no run of the escalation task scans a case twice and that
   its queue only shrinks.
2. `Config`: that `Load` gives only values `Validate` accepts, whatever file and
   environment say.

## 8. Not modelled

* Decoding of requests, the mapping of errors to status codes and request logging: a
  handler is one call of a service and keeps no state.
* Log output, row decoding, and the queries that only report (item detail, backlog, audit
  and batch lists): no decision of the modelled parts depends on them.
* The commands' input and output; `init` of `hubctl` is a rule request.
* HTTP read and write timeouts, and power failures that undo a rename.
* A reviewer of `lightops` plans who decides on a copy: `VerifyPlan` compares a version its
  caller names, and a plan published again under its id starts at version 1 again.
* Pages of `ListComplaints` in `hub`: the order of a Go map is arbitrary on every call, so
  no property relates two pages.
* `recordPermanentFailure` of the escalation service: its branch is unreachable, which
  `EscalationQueueBelowMax` shows and `EscalationStaysBelowMax` proves.
* The text form of times in `GetActiveRules` and `FindOverdueItems`: `CaseFlow` compares
  instants, the code RFC3339Nano texts, which differ within a second and between zones.
  `Listing` has the texts.
* The registration time in `Listing` is that of the commit; the code reads the clock just
  before the transaction, so two registrations may be stored in the other order. The
  properties of walks and exports do not depend on it.
* `UpdateItemForEscalation` and `MarkFailureResolved` of the index have no caller.
