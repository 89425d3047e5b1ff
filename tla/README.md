# TG-HUB: a verification project in TLA+

TG-HUB listens to Telegram channels, keeps every message it receives as a `RawMessage`, parses
it into resources (works, links, sources) and announces what is new. One Python process runs a
FastAPI application, the Telegram client and the monitor in one asyncio event loop over one
PostgreSQL database; operations scripts (`backend/app/deploy`) rotate logs, create, verify and
expire backups, and rehearse recovery.

This directory holds TLA+ models of that code, TLC configurations that check them on small
instances, and proofs that TLAPS checks for every instance. Paths below are relative to
`src/backend/app` unless they start with `src/`.

- [The system](#the-system): every component, its state, its operations, what is hard about it
- [The models](#the-models): which module models what, and how to read it against the code
- [What is checked](#what-is-checked): runs, bounds, fairness
- [What is proved](#what-is-proved)
- [Where code and documents disagree](#where-code-and-documents-disagree)
- [What is not modelled](#what-is-not-modelled)
- [Plan](#plan)

## The system

### The path of a message

```
 Telegram client --event--> MonitorRuntime._handle_event   (one task per event)
                               |  ingest_incoming              modules/ingestion/boundary.py
                               |     `- RawMessageService.ingest
                               |  process_raw_message          application/raw_message_processing.py
                               |     |- RawMessageService.parse_and_persist
                               |     `- RawMessageService.dedup_and_persist
                               |           `- DedupService.dedup, once per parsed item
                               v
                          InMemoryEventBus.publish  (after the commit)
```

| component | state | operations | what is hard | what makes it correct |
|---|---|---|---|---|
| `RawMessageService` (`modules/rawmessage/service.py`) | `raw_messages` row: `parse_status`, `dedup_status`, `parsed_data`, `parse_attempts` | `ingest`, `parse_and_persist`, `dedup_and_persist` | every statement is an await; an IntegrityError, a deadlock or a crash can come at each of them; the except branch writes a status after a rollback | a final status is backed by its rows; dedup is all or nothing; ingest is idempotent |
| `DedupService`, repositories (`modules/resource/`) | `works`, `resources`, `resource_links`, `resource_sources`, `source_count` | `dedup` = `_create` or `_merge`, `get_or_create` | SELECT-then-INSERT races; the recount sees what its own transaction sees | a resource is created once; `source_count` matches the sources |
| `RawMessageProcessingBoundary` (`application/raw_message_processing.py`) | none of its own: it decides by the row it loads | `process_raw_message` | the row may change between load, parse and dedup | a reported success is durable; a final message is not processed again |
| Ingestion boundary (`modules/ingestion/`) | none | `ingest_incoming` | maps every failure to a status | - |
| Event bus (`infra/eventbus.py`) | subscribers in memory | `publish` | a failing subscriber, a crash after the commit | events only after the commit, never repeated |
| Database session (SQLAlchemy, PostgreSQL) | transactions, locks, identity maps | insert, update, commit, rollback | READ COMMITTED, waits for uncommitted keys, deadlock detection, UPDATEs that leave out unchanged columns | external; modelled as the services use it |

### The life of a monitor

| component | state | operations | what is hard | what makes it correct |
|---|---|---|---|---|
| `MonitorRuntime` (`modules/monitor/runtime.py`) | `state`, flags, reconnect counter, counters, in-flight gauge, heartbeat task, registrations at the client | `run` (connect, register, wait, reconnect, `_shutdown`), `stop`, `_handle_event`, `_heartbeat_loop` | run(), handlers and the heartbeat interleave at every await; the client loses connections and raises; stop and cancellation come at any await; handlers may hang | the gauge is exact; the summary is complete; listening means registered; a stop is honoured; nothing is left connected |
| `MonitorBootstrap` (`modules/monitor/bootstrap.py`) | `_runtime`, `_stop_requested` | `run` (probe, lease, resolve, runtime), `stop` | a stop before there is a runtime | the stop is passed on; the lease outlives the runtime |
| `MonitorControlService` (`modules/monitor/control.py`) | `_state`, `_task`, `_stop_timed_out`, `_shutdown_task`, one `asyncio.Lock` | `start`, `stop`, `status`, `shutdown`, heartbeat observer, `_run_owned_bootstrap` | requests race the end of the task, each other and a timeout; only `start` keeps the lock over an await | one owner task; active states are true; no start behind a shutdown |
| Session ownership (`modules/monitor/session_ownership.py`) | an flock on the session's lock file | `acquire`, `release` | another process | a runtime runs only under the lease |
| Watchlist service (`modules/monitor/watchlist_service.py`) | one JSON file, its revision (a hash) | `get_snapshot`, `validate`, `replace` | revision check and `os.replace` are not one step; readers load the file at another time than they report its revision | a replace is based on what it replaces; the reported revision is the one at work |
| Heartbeat sinks (`modules/monitor/heartbeat.py`) | `heartbeat.jsonl`, an flock, error counters | `emit`, `aclose` | short writes, a lock timeout, a rename of the file under the writer | whole lines, none lost to a rotation |
| Watchlist filter, resolvers, preflights (`filter.py`, `resolver.py`, `preflight.py`, ...) | none | one-shot functions | - | - |

### Operations (`deploy/`)

| component | state | operations | what is hard | what makes it correct |
|---|---|---|---|---|
| Log rotation (`rotation_engine.py`, `rotation_fs.py`) | active logs, `.tmp`, `.pending`, `.pending.meta`, `.gz` | `run`: recover pending, rotate, retain | a crash between any two file operations; writers that do not know of it; `pending` without usable metadata stops every later run | a complete line is in the active log or in an archive; recovery converges |
| Backup creation (`backup_service.py`) | a temporary package, the committed package | `create` under a lock | a tool fails at any stage; the rename commits and the fsync after it fails | an incomplete package never looks complete |
| Verification and retention (`backup_verification.py`, `backup_retention*.py`) | sidecars, pins, plans, authorisations, journals, `.retention-pending` | `plan`, `pin`, `unpin`, `reconcile`, `apply`; `issue`, `authorize`, `consume` of an authorisation | a crash between the journal and the file operation it announces; a plan that is stale when applied | the newest verified backups survive; an authorisation is used once; resume converges |
| Restore verification (`restore_verify.py`, `restore_database.py`, `restore_recovery.py`) | recovery record, snapshot directory, isolated database | `run`, `cleanup` | crash between CREATE DATABASE and the identity comment | only a database the run owns is dropped, and it is dropped on every path |
| Production recovery rehearsal (`production_recovery_*.py`) | record with a phase, capabilities, cleanup child record | `advance`, `update_facts`, `run_async`, cleanup coordinator | crash before, inside and after the operation of each phase; rollback after a partial switch | phases only move along the graph; after a crash an operation runs at most once or is recognised as done |

Around these: the Admin API, the bot, the normalizer and parser (pure string functions), the
channel registry, configuration, logging.

How they interact: the control service owns a bootstrap task, which owns one runtime; the
runtime calls the two boundaries from its handler tasks and emits heartbeats to sinks, one of
which is the control service; the boundaries share the database and publish to the bus; log
rotation meets the heartbeat sink in the file system; the backup tools meet the running system
only in the database and the watchlist file.

## The models

| module | models | kind |
|---|---|---|
| `RegistryDatabase` | PostgreSQL and the SQLAlchemy session as the registry code uses them | component (external, from its use) |
| `RawMessagePipeline` | `RawMessageService`, `DedupService`, the repositories, the processing boundary, event publication | component, EXTENDS the database |
| `MessageSettlement` | what the pipeline promises of a message | abstract specification |
| `MCRawMessagePipeline` | contents, works and items for TLC | instances |
| `RawMessagePipeline_proofs` | theorems about what the pipeline stores, reports, announces and counts, and its refinement | proofs |
| `MonitorRuntime` | `run()`, handler tasks, heartbeat task, client faults | component |
| `MonitorLifecycle` | what the owner of a runtime may rely on | abstract specification |
| `MonitorRuntime_proofs` | theorems about the runtime | proofs |
| `MonitorControl` | control service, bootstrap, session lease, another process | composition: its runtimes are `MonitorLifecycle` |
| `MonitorControl_proofs` | theorems about the control service | proofs |
| `WatchlistStore` | `WatchlistApplicationService.replace` and everybody else who writes the file | component |
| `WatchlistStore_proofs` | a theorem about the watchlist | proofs |
| `LogRotation` | `RotationEngine`, the application's log, the heartbeat sinks | composition: engine and writers over one directory |
| `RetainedLog` | what the rotation promises of one file and its archives | abstract specification |
| `LogRotation_proofs` | theorems about what the rotation keeps, and its refinement | proofs |
| `BackupRoot` | the backup directory, `BackupService.create`, `PinMutationService` | component |
| `BackupRetention` | `RetentionPlanService.plan`, `TempRetentionApplyService.apply` | component, EXTENDS the root |
| `BackupRetention_proofs` | theorems about the packages, journals, pins and reports of the backup root | proofs |
| `RestoreVerification` | `RestoreVerificationService.run` and `cleanup`, the isolated database | component |
| `RestoreVerification_proofs` | theorems about the restore verification | proofs |
| `ProductionRecovery` | the rehearsal's `run`, `rollback` and cleanup, the record and its lease | component |
| `ProductionRecovery_proofs` | theorems about the recovery | proofs |

`PROJECT.json` maps every definition to the lines it stands for.

**Granularity.** All the code runs in one event loop, so what a task does between two awaits is
atomic, and in the modules of the message path and of the monitor an action is named by the await it starts from: `pc[t]` in the pipeline is the
statement a task issues next, `runPc` in the runtime the await `run()` is at. An await of the
database is where other tasks run; so is every call of the Telegram client. The services of
`deploy/` are processes that share a file system and a database: there an action is one
durable change (a rename, an unlink, a write of a journal, a statement), because the process may
die or another may look between any two.

**Variants with a bug.** Some definitions are introduced by a comment "Variant with a bug". No
specification uses them. They are what the definition they precede would be with a plausible
mistake in it, and substituting one makes the property named for it in `PROJECT.json` fail.

### RegistryDatabase and RawMessagePipeline

`rows` is the set of unique keys of committed rows; `raw[m]` the status columns of a message;
`sourceCount[r]` the stored count; `txn[t]` the open transaction of a task: the keys it inserted,
the row locks, the counts it will write and the session's identity map. What the database is
assumed to do: READ COMMITTED, an INSERT of a key that another open transaction holds waits,
an INSERT of a committed key raises IntegrityError, an UPDATE takes the row lock, one
transaction of a wait cycle is aborted. SQLAlchemy issues an UPDATE only for an attribute that
differs from the loaded value, which the identity map decides (`LoadResource`,
`UpdateResource`), and this is why `source_count` is part of `txn`.

A task goes through `Deliver` (the client's event), `Ingest...`, `Load` (the boundary's
decision by state), `Parse`, the loop of `ResourceSelect ... UpdateCount` per item,
`DedupCommit`, `Publish` per event, `Report`. `DedupFails`, `Reload`, `Repend` are the except
branch. `DatabaseError` raises at any statement, `Crash` ends the process at any point.
Between `DedupCommit` and `DedupAnswered` the COMMIT has taken effect and the handler does not know
yet: an error there sends a settled message into the except branch.
Which items a message contains, and which of them share a key, is the constant `Content`: the
parser and the normalizer are pure and run before the first statement.

### MonitorRuntime

`Start`, `Connect`, `Register`, `Undo`, `WaitReturns`, `Unregister`, `BackoffEnds` are the main
part of `run()`, `Drain`, `Remove`, `Disconnect`, `StopHeartbeat` are `_shutdown`. `Cancel`
raises `CancelledError` at the present await: in the main part it leads to `_shutdown`, inside
`_shutdown` it cuts the rest short, and in `_stop_heartbeat`, which swallows the exception as
the heartbeat's own, it does not. `HandleEvent`, `IngestReturns`, `ProcessReturns` are one
handler task; tasks differ only in where they wait, so the model counts them (`ingesting`,
`processing`), next to the gauge and the counters the code keeps, which must agree with them.
A call the client has scheduled (`calls`) outlives the registration it was scheduled for.

### MonitorControl

`StartBegins` to `StartAccepted` is `start()` with the lock over its preflight. `StopBegins`
takes the lock, `StopGivesUp` is `wait_for` timing out without the lock, `StopTimesOut` the
locked write afterwards; between the two the task may end (`Settle`) and another may start.
`BootFails`, `BootLeases`, `ResolveFails`, `MakeRuntime`, `RunReturns`, `Close`, `Settle` are
the owner task. Inside `"run"` the runtime takes any steps `MonitorLifecycle` allows.

### WatchlistStore

`file` is what `WATCHLIST_PATH` holds; a revision is a digest of it, so contents stand for
revisions and a content that comes back brings its revision back. `Reads` is the author of a
request, who has read the file and sends a candidate with the revision; `Begins` the first read
and the check of `_replace_sync` under the lock; `Checks` the second read; `Replaces`
`os.replace`. `WriteFails` is the failure of any step before it. `Edited` is everybody who does
not know the lock: an editor, the command line, another web process. It may come between the
second read and the rename, and `slipped` remembers for which request it did. The file the
bootstrap loads is another reader and is not connected with `MonitorControl` here: `start()`
records the revision it read before the preflight, `bootstrap.py:144` loads the file later, and
nothing compares the two.

### LogRotation

`FirstCall` and `CallAfter` give the file operations of the two ways to rotate in their order: an
application log is copied and truncated, because launchd holds its descriptor, the heartbeat file
is renamed and made anew under `heartbeat.lock`. One application log stands for the two there are. `pending` is a
`.pending` file with the phase its metadata gives (`meta`), `archives` the `.gz` files, each with its mtime, by which
retention finds the oldest. `RunRecovers` is `_recover_pending`, which takes up what a dead run left or
refuses; `Cleans` is retention and the total budget, which counts archives where the code counts
bytes. A sink locks, opens the file by its name,
writes one line and unlocks. Lines are numbers, and a partial line is not one.

### BackupRoot and BackupRetention

All services try the lock of the root once and fail if they do not get it, so they interleave
only through what a crash or a failure leaves: `holder` is who has it. `place[b]` is where the
directory of a backup is (`.tmp`, the root, `.retention-pending`), `files[b]` what is left in it,
`audits` the pin journals, `journals` the progress of `apply`, `leftover` the directories with a
temporary file nobody removes. `Staged` lists the stages of `create`, `Record` what each write of
`apply`'s journal says; `Possible` is what the next step needs to find, and `ApplyRefuses` what
happens when it does not. `verified` grows by `VerificationPasses`, the end of `RestoreVerification`.
A package is its id, in the order of creation; which packages the daily and weekly slots keep
depends on the clock and is the constant `SlotChoices`. Deciding who may apply a plan
(`backup_retention_authorization.py`) is not modelled: a plan that exists may be applied.

### RestoreVerification

`Calls` is `_run_locked` in its order, with a phase standing for the durable write of the
recovery record. `run[r].at` is the position of run `r`. A call that raises, or in which
the process dies, may or may not have had its effect (`MaybeEffect`). `Required` collects the
inspections before a call, `IdentitiesIn` what `cleanup()` accepts as its own in each phase. A session of
another user in the database (`inUse`) makes the server refuse to drop it, and whoever ignores
the lock may change the package while it is read (`PackageChanges`). A cleanup of a run that is
still going needs its handle, which is returned at the end, and is not modelled.

### ProductionRecovery

The code rehearses a recovery against a fake world (`production_recovery_fake.py`) over a real
record store (`production_recovery_record.py`). `AllSteps` is the phase graph: the phases a step
starts from, the intent it writes, the operation, the result. A caller goes `deciding` (the
loop reads the record), `intended`, `performed`, `settled` (the facts are written), and back;
`Resumes` is a caller that finds an intent and asks the world whether the operation was done.
`MayAdvance` and `Writable` are the store's rules, `Able` and `Effect` the world's. A lease makes
intent to result one owner's, but a step is decided on the record read before it, so a write
compares `seen` with the record. From `env_switched` the store lets one phase follow and no other, so
`RollbackBegins` is refused there and the call ends (`Rejects`). The cleanup of the replacement runs without the lease for
its drop (`Drops`). `Edits` leaves a third content in a configuration file. The real adapter
to PostgreSQL (`production_recovery_postgres.py`) is not modelled.

## What is checked

| run | instance | shows |
|---|---|---|
| `pipeline` | 2 tasks, 3 messages, 2 resources of 2 works, 3 deliveries, 1 fault or crash; deliveries of one message may overlap | what is stored, reported and announced: `FinalIsBacked`, `AllOrNothing`, `SuccessIsDurable`, `EventsAfterCommit`, `CreatedOnce`, `NoReplayedEvents`, `CountIsBacked`, `StoredOnce`; `ImplementsSettlement`, `HandlersReturn` |
| `runtime` | 2 handler slots, 2 events, 2 losses, 1 reconnect attempt allowed, 1 fault of client or heartbeat sink, 1 cancellation | `CountersAddUp`, `SummaryIsComplete`, `ListeningHears`, `CleanStop`, `StopHonoured`, `ImplementsLifecycle` |
| `control` | 2 owner tasks, 2 requests to stop and the one of `shutdown()`, another process | `OneOwner`, `SessionExclusive`, `StopRemembered`, `ActiveStatesAreTrue`, `NoStartAfterShutdown`, `ShutdownCompletes` |
| `watchlist` | 3 requests, 2 contents, 2 changes without the service, from every state of the file | `OverwritesOnlyWhatWasSeen` |
| `rotation` | an application log and the heartbeat file, 2 sinks, 2 lines of each, 2 failures or crashes, one archive kept | `NothingLost`, `ArchivedOnce`, `PendingFinalized`, `ImplementsRetainedLog` |
| `retention` | 2 packages and a third made meanwhile, 2 pin requests with 2 reasons, 1 plan, 1 failure or crash | `VisibleIsComplete`, `ProgressCoversDeletion`, `PinsAreAudited`, `ReportIsTrue`, `DeletesOnlySurplus` |
| `restore` | 1 run, 2 cleanups that may overlap, 4 failures, cancellations, crashes or foreign sessions, 2 versions of the package | `LeftoverIsFindable`, `VerifiedIsRestored`, `ReportIsHonest`, `LeftoverIsDropped` |
| `recovery` | a caller of `run` or the cleanup beside a caller of `rollback`, 2 faults | `ActiveIsVerified`, `NoForkedHistory`, `SwitchedAtRest`, `RollbackConverges` |
| `finding_*` | see [below](#where-code-and-documents-disagree) | one disagreement each |

**Why the bounds are enough for the interesting cases.** Pipeline: the two messages of
`CrossContent` name the same two resources in opposite order, so their transactions can wait
for each other; the third delivery lets a message come back after a failure, a crash or a
success; the third message parses to nothing. The fault falls on every statement, the error path's
and a COMMIT that took effect included, or the process dies there. A third task would add no new kind of wait: a task waits for one key or one row at a time, and longer cycles
are aborted the same way. Runtime: two slots and up to three calls fill the limit and exceed
it; the second loss hits a runtime that has reconnected, with the one attempt used up; the fault and
the cancellation meet at every pair of awaits. Control: the second task is what a late end, a
late heartbeat or a late timeout of the first one can damage; three stops overlap a task's end
from both sides. Watchlist: with three requests one can come between two others, and with two
contents and two outside changes a revision comes back. Rotation: the second failure hits the
run that recovers from the first; two sinks make one wait for the lock while the other holds a
file that was renamed; one archive kept makes retention remove archives while lines are still
being rotated. Retention: the third package is made between plan and apply and changes which
package is the newest; a pin of one request meets the plan and the pin of another. The
failure falls on every call of `create`, `pin`, `reconcile` and `apply`, and the theorems hold for
any number; a smaller instance with
two of them (`PinOps = {o1}`, `Reasons = {r1}`, `MaxFailures = 2`) shows nothing else. One run of the restore verification suffices for the
properties of a database, which belongs to one run by its name, and the theorems cover any number; four failures let a failing call be followed by
a failing cleanup, twice. Recovery: a caller that dies is followed by one that resumes, beside a
rollback that started from an older record; two faults let the second hit the resumption of the first.

**Fairness.** Pipeline: `WF(Progress(t))`, the event loop runs a task whose await has
completed and the database answers; deliveries, faults and crashes are not fair. Waiting for a
lock is not progress by itself: that waits end is checked (`HandlersReturn`), with deadlock
detection part of `Progress`, as `deadlock_timeout` is of PostgreSQL. Runtime: `WF(RunStep)`, since every
await of `run()` is a client call, a sleep, the drain with its deadline, or the one-second poll;
`WF(HeartbeatStep)`. Handlers have no fairness: they may hang for ever, and a stop must be
honoured all the same. Control: the preflight of `start` and the owner task's awaits return,
the runtime keeps `MonitorLifecycle`'s promise, which is checked of `MonitorRuntime`, and the
one call of `stop()` that `shutdown()` makes is run. Requests, timeouts and heartbeats are not
fair. The lock is an action's guard; the only holder over an await is `start`. Rotation: the
agent's timer starts the engine again and again, and what has begun goes on. Restore
verification: what has begun goes on, foreign sessions end, and somebody asks for the cleanup of
a database that was left until it is gone: strong fairness, since a cleanup in between disables
another. Recovery: a call that was made goes on, and `rollback` is called again and again
whatever else is called (strong fairness, since a running call disables a new one); nothing is
assumed of `run` or the cleanup being called. Retention needs fairness for its finding only:
`apply` goes on and is called again while candidates are unfinished. The watchlist needs none.

**Liveness and deadlock.** The runs of the pipeline and the monitor check for deadlock;
the services of `deploy/` and the watchlist stop when their bounded requests are used up, which
is no deadlock (`CHECK_DEADLOCK FALSE`), and there liveness says what must not get stuck. `Quiescent` and `Over` are the
explicit idle states of a process without events and of a runtime that has returned. In
`MonitorControl` the other process can always move, so there the absence of deadlock says
nothing and `ShutdownCompletes` is what shows that nobody waits for ever. `HandlersReturn` is checked
with the fault, so that a handler also returns when its error path fails in turn.

**Abstract specifications.** `MessageSettlement`: a message is kept, parsed once, and settled in
one step as `new` if and only if one of its resources did not exist before that very step;
announcements follow or are lost. `RawMessagePipeline` implements it until something happens that
the design leaves out and the error path does not stand: a message is delivered while another task still
handles it, or the COMMIT of its dedup takes effect and raises (`irregular`, a history variable that
`Deliver` and `DatabaseError` set). Then `Repend` may reopen a settled message, see `FinalIsStable` below;
the safety properties of the run hold all the same. `MonitorLifecycle`: after a stop the
runtime never listens, every working runtime that was told to stop winds down, and winding down ends.
`MonitorRuntime` implements it with liveness (`ImplementsLifecycle`), and `MonitorControl`
is checked over it in place of the detailed runtime. `RetainedLog`: each target is one log that
grows at its end and expires at its beginning, but never in the file that is written; only of a
copied file may lines be lost, and only those at risk. It knows of no pending file, archive, lock
or run. `LogRotation` implements it (`ImplementsRetainedLog`): a log's lines are those of the
active, the pending and all archived files together, so that copies, compression, recovery and
every failure or crash are stutters, a truncation or rename is `Rotate`, a rename back `Restore`,
and the removal of an archive `Expire` with the archive's number. An archive made again, or one
removed while its pending file is still there, changes nothing.

## What is proved

Each theorem says of a property `P` that `Spec => []P`, or `Spec => P` where `P` is an action
property, for every value of the constants that the named assumptions (`PipelineAssumption`,
`RuntimeAssumption`, `ControlAssumption`, `StoreAssumption` and `StatesAssumption`,
`BackupRootAssumption` and `RetentionAssumption`, `RestoreAssumption`, `RotationAssumption`) admit:
any number of tasks, messages, resources, requests, backups, plans, restore runs, cleanups, sinks,
lines, faults and crashes; any limit, policy or choice of slots.

**`RawMessagePipeline_proofs`**: `TypeCorrect` (`TypeOK`), `IngestIdempotent` (`StoredOnce`),
`FinalStatusBacked` (`FinalIsBacked`), `DedupAtomic` (`AllOrNothing`). None of the last three is
inductive. The invariant is built in layers,

    IInv == Typed /\ Keyed /\ DedupProgress /\ OwnSources /\ Backed

- `Typed`: types, and the loop positions that keep each access inside its sequence
  (`LoopBounds`), and that parsed messages carry the items of `Content`;
- `Keyed`: open transactions share no key with each other or with the committed rows, and
  exist only at the statements where the code has one open. This is what makes the unique
  constraint decide a race;
- `DedupProgress`: a task past item *i* of its message sees the rows of items 1 to *i*,
  committed or its own. The commit turns the rows it sees into rows that are there;
- `OwnSources`: a source row of a message is only ever written by a task that handles it;
- `Backed`: the two properties.

The step that matters is `DedupCommit`: with all items done and the transaction's rows
becoming committed, both properties hold of the message it settles; every other commit adds a
raw message only, and a rollback adds nothing.

Its second part rests on that `IInv`: `SuccessStands` (`SuccessIsDurable`),
`NothingReplayed` (`NoReplayedEvents`), `ResourceCreatedOnce` (`CreatedOnce`),
`EventsTellOfCommits` (`EventsAfterCommit`), `CountsAreBacked` (`CountIsBacked`) and
`SerialImplements` (`ImplementsSettlement`). Its layers:

- `Results`: an event is only ever due together with a row that the open transaction inserts and
  the message cannot do without (`FreshKey`), a created one with the resource row itself, and no
  event more often than the items done so far name its resource (`FinishedResults`);
- `Announced`: so at the commit the message was not yet attributed, nothing has been published
  for it, and no other task has committed it. From there on two tasks at `publish()` have different messages
  and announce different resources (`PublishersApart`), and what is out and what is still due
  together stay within what the message names (`DueFits`). `NoReplayedEvents` and `CreatedOnce`
  are not inductive without the second, which looks at the tasks that have yet to publish;
- `Counted`: a count was taken when every source row counted was visible, and those rows are
  committed with it or were before. Rows are never deleted, so later counts only find more;
- `Inserts`: a transaction of `dedup_and_persist` inserts a resource only with a created event,
  and sources only of its message. With it the value `new` is equivalent to "one of its resources was
  not known", which the abstract step says;
- `SerialWhileRegular`: as long as nothing irregular has happened, there is one task to a message and its
  row changes by that task's steps alone, so that what `load` read still holds at the commit.
  `irregular` never goes back (`IrregularStays`), and a step behind it owes the abstract
  specification nothing. This is what `finding_final_status` breaks.

For the refinement, `IngestCommit` is `Keep`, `Parse` is `ParseOnce`, `DedupCommit` is `Settle`,
a `Publish` is an `Announce` or repeats one, and all the other steps, the failures and the crash included, are
invisible (`HiddenStep`).

**`MonitorRuntime_proofs`**: `TypeCorrect` (`TypeOK`), `GaugeExact` (`InflightExact`, a part of the next), `CountersAgree`
(`CountersAddUp`), `SummaryFinal` (`SummaryIsComplete`), `Hears` (`ListeningHears`),
`ShutdownClean` (`CleanStop`), `LifeIsAsPromised` (the safety of `ImplementsLifecycle`). The invariant is the conjunction of the types and

- `LossUncounted`: `run()` comes to an attempt only through a loss it has not yet counted;
- `Drained`: past the drain the runtime is stopped, hence admits no call, and no handler is at
  work unless the drain gave up. Without it a late call could move a counter after the summary;
- `Registered`: `handler_registered` and the client's registrations part only through a
  removal that raised, and then the blocker says so;
- `TakenDown`: each await of the shutdown leaves what it took down gone, or its blocker.

Each part has one lemma, with one step per action. For `LifeIsAsPromised` one more is needed,
`AttemptsKnown`: it is the counted attempts that tell a first connection from a reconnect.

**`MonitorControl_proofs`**: `SingleOwner` (`OneOwner`), `LeaseOutlivesRuntime`
(`SessionExclusive`), `StopReachesRuntime` (`StopRemembered`), `StateIsTrue`
(`ActiveStatesAreTrue`), `MovesAreAllowed` (`NoForbiddenMove`), `NothingStartsBehindShutdown`
(`NoStartAfterShutdown`). The invariant adds to the types and these properties

- `Leased`: the lease is held from the resolution of the channels on, not only once there is a
  runtime; `SessionExclusive` alone does not survive the step that makes the runtime;
- `OutcomeKnown`: a bootstrap on its way out has an outcome, which is what a settling task
  turns into the control state;
- `NotStopped`: with an active task the state is not `stopped`. A late heartbeat then cannot
  move `stopped` to `running`;
- `Ordered`: `shutdown()` and a start being decided exclude each other, through the lock.

**`WatchlistStore_proofs`**: `NothingOverwrittenUnseen` (`OverwritesOnlyWhatWasSeen`). The rename
relates the file to what a request read two steps before, so the invariant is

    IInv == Typed /\ Exclusive /\ Permitted /\ Fresh

one request at a time is inside the lock; what it read first is what it may replace; after the
second read the file is still that, unless somebody without the lock was faster.

**`BackupRetention_proofs`**: `PackagesAreWhole` (`VisibleIsComplete`) and `OnlySurplusLeaves`
(`DeletesOnlySurplus`). The first needs `Staging`, what `create` has written at each stage. The
second relates a rename to a plan made long before it:

- `PlansSound`: each candidate of a plan was surplus among the packages `plan` saw;
- `JournalsSound`: the candidates are taken oldest first, the next one when the last is deleted;
- `ApplyingSound`: under the lock the root is what the plan saw, but for candidates whose
  journal has begun (`AsPlanned`), and the candidate at work is the oldest that is not deleted.

So at the rename of a candidate every newer package of the plan is still in the root, with the
identity the plan recorded, and what made the candidate surplus then makes it surplus now. That
the oldest unfinished candidate exists is the one use of `IsFiniteSet(Backups)`.

Its second part: `PinsHaveAudits` (`PinsAreAudited`), `CreateReportsTrue`
(`ReportIsTrue`) and `ProgressCovers` (`ProgressCoversDeletion`).

- `PinInv`: what a journal intends is no pin, its own, or one that another journal has announced
  (`Intends`), so that carrying it out, at once or by `reconcile` later, never makes a pin without
  an audit; and each step of a request finds its journal in the phase it expects (`PhaseAt`);
- `ReportInv`: `create` reports once, while the package is where it has just put it;
- `JournalInv`: the journal of the plan in a pending directory's name covers what is gone
  (`Journalled`), a package still in the root is unopened for every plan that has begun
  (`Unbegun`), and under the lock every pending directory belongs to the plan that is applied
  (`Owning`, with how far the removal is at each step, `AtStep`). `Unbegun` is what makes the
  rename safe: a whole package meets an index of 0. `Owning` is what makes a rename by name and a
  rename found done the same; it comes from what `apply` verifies before it begins.

**`RestoreVerification_proofs`**: `LeftoversFindable` (`LeftoverIsFindable`), `SignedWasRestored`
(`VerifiedIsRestored`), `ReportsTrue` (`ReportIsHonest`). The invariant is

    IInv == /\ Typed /\ InStep /\ Orderly /\ Signed /\ ToProject
            /\ LeftoverIsFindable /\ ReportIsHonest

- `InStep`: while a run goes, record, database and snapshot are what its position says
  (`RecordAt`, `TargetAt`, `SnapshotAt`), and no cleanup has its handle yet;
- `Orderly`: a cleanup removes the snapshot before it drops, and forgets the record only when the
  database is gone, also when two of them overlap;
- `Signed`, `ToProject`: who signed had dropped its database before, and only a run that has
  signed comes to the inventory.

A call that raises leaves the situation before or after it (`MaybeEffect`), which is where the two
properties are inductive with `InStep` and not without.

**`ProductionRecovery_proofs`**: `RolledBackIsBack` (`BackOnOriginal`, the safety half of
`RollbackConverges`) and `SwitchesAtRest` (`SwitchedAtRest`) for any number of operators, callers of
`rollback()`, faults and crashes; `ActiveWasVerified` (`ActiveIsVerified`) and `HistoryNeverForks`
(`NoForkedHistory`) for one operator (`OneOperator`). With two, TLC refutes these two: one drops
while the other resumes the run, as listed below. The invariants are

    AnyInv == Typed /\ OneLease /\ InJob /\ Services
    IInv == AnyInv /\ Backed /\ Halted

- `OneLease`, `InJob`: one caller at a time is between an intent and its result, in a phase of its
  own direction. So nobody moves the record of an operation that another performs;
- `Services`: what a phase on disk says of the services and the files. Between their stop and the
  start of the application they rest (`Resting`); behind `application_started` the application is
  on the replacement (`OnReplacement`); the phases of a rollback are as far back as they say
  (`MonitorDown`, `EnvBack`, `WatchlistBack`, `AppBack`, `ReadyBack`). `Ran` bridges the gap between an
  operation, performed or found done by a later caller, and its result. `WatchlistBack` speaks of
  a switch the record knows of, which is all that is true: see `finding_rollback_watchlist`;
- `Backed`: behind `verification_completed` the replacement is verified;
- `Halted`: a cleanup that found a phase it may begin in still finds it at every later step, because
  rollbacks keep off those phases. That is what makes a drop without the lease safe.

**`LogRotation_proofs`**: `LinesSurvive` (`NothingLost`), `ArchivedAtMostOnce` (`ArchivedOnce`) and
the refinement `LogIsRetained` (`ImplementsRetainedLog`). None of them is inductive. What carries them is an order: of each target the active file is newer than
the pending one, that newer than every archive, and the archives have the same order by number, by
mtime and by their lines. The invariant is

    IInv == /\ Typed /\ RunInPlace /\ LockHeld /\ PhasesRight /\ InStep
            /\ Numbered /\ ArchivesApart /\ PendingApart /\ NotYetArchived /\ ActiveIsNewer
            /\ SnapshotCovers /\ GzippedFirst /\ NothingLost

- `RunInPlace`, `LockHeld`, `PhasesRight`, `InStep`: where a run is and what it finds pending there.
  A sink that has a file open holds the lock, so what it has open is the active file, and the
  engine is at the rename only while nobody has;
- `Numbered`, `ArchivesApart`, `PendingApart`, `ActiveIsNewer`: the order. `ActiveIsNewer` holds
  from the truncation or the rename on, not before, and `NotYetArchived` is what holds before:
  what may still be, or go back, in the active file has no archive. That is why `_recover_pending`
  must refuse an application log that is not `active_truncated`, and may always take a heartbeat;
- `SnapshotCovers`: between copy and truncation only late lines are missing from the snapshot,
  which is what the truncation destroys; `GzippedFirst`: a pending file is removed only when its
  archive is there. An archive that is made again replaces one with the same number and lines.

The refinement follows from the same invariant step by step: `TruncationRotates` needs
`SnapshotCovers` (what goes was late), `RenameRotates` and `RollbackRestores` need `InStep` (no pending
file is overwritten, no new line is lost), `CompressionUnseen` and `RemovalUnseen` need `PendingApart`
and `GzippedFirst`, and `CleaningExpires` needs the whole order: what the oldest archive has is
exactly what a target has up to the archive's number.

**Only model-checked.** Liveness (`HandlersReturn`, `StopHonoured`, `ShutdownCompletes`,
`PendingFinalized`, `LeftoverIsDropped`, `RollbackConverges`) and the liveness half of
`ImplementsLifecycle`: the prover has no ENABLED. Every safety property of the passing runs has a
theorem.
What the parser or a recursive function computes for every input needs induction over data, which
the installed provers cannot instantiate. The type invariants `TypeOK` of the pipeline and the
runtime, `NoForbiddenMove` of the control service and `BackOnOriginal` of the recovery are proved,
and no run repeats them; `RollbackConverges` includes the last one.

## Where code and documents disagree

Four have a run that ends in a counterexample; `PROJECT.json` quotes the sentences.

| run | what the code does |
|---|---|
| `finding_final_status` | a concurrent duplicate that loses an INSERT sets a message that was settled meanwhile back to `dedup_pending` |
| `finding_retention_rmdir` | a run of `apply` that died between the removal of a pending directory and its record cannot be taken up: every later run fails as it opens the directory, before it asks whether the announced removal was done |
| `finding_rollback_watchlist` | a run that dies while it switches the watchlist is rolled back without restoring it: the record says `rolled_back`, the file is the staged one |
| `finding_rollback_entry` | a run that dies right after the switch of the configuration leaves the record in `env_switched`, and from there `advance_production_recovery` refuses the intent of a rollback that `ROLLBACK_ENTRY_PHASES` and the rehearsal's design allow: `rollback()` fails on every call until `run()` has gone on |

The others are stated as properties which no run checks any more. Each is false of the model
as it is of the code: name it in a configuration with the constants given, and TLC shows how.

| property | module | constants that show it | what the code does |
|---|---|---|---|
| `CountIsExact` | `RawMessagePipeline` | as `finding_final_status` | two transactions that add a source to one resource together each count only their own (`modules/resource/service.py:411`); "actual COUNT, not blind +1" (410) is one short until the next merge |
| `GetOrCreateNeverRejected` | `RawMessagePipeline` | the same | "Never raises IntegrityError" (`modules/resource/repository.py:158`): it does when the key is committed between its SELECT and its INSERT, and the whole message is rolled back |
| `RegisteredOnce` | `MonitorRuntime` | `MaxInflight = 2`, unlimited attempts, `MaxEvents`, `MaxDrops`, `MaxFaults` 1 | a removal that raises before a reconnect leaves the old registration, and the handler is registered twice (`runtime.py:926`; `src/docs/P6-2D_MONITOR_RUNTIME_DESIGN.zh-CN.md:592`) |
| `ConnectRetried` | `MonitorRuntime` | unlimited attempts, `MaxDrops` and `MaxFaults` 1 | a connect that times out while reconnecting ends the monitor although attempts are left (`runtime.py:791`; the design, 174-177) |
| `LossNeverFatal` | `MonitorRuntime` | unlimited attempts, `FloatExponents = 1024`, `MaxDrops = 1025`, no faults | the attempt counter is never reset; attempt 1025 overflows the computation of its delay and ends the monitor (`runtime.py:803`; the design, 198, 204, 595) |
| `TimeoutReconciled` | `MonitorControl` | one task | the task ends between the timeout of `stop()` and the lock: the state stays `degraded` with no task, and neither start nor stop is offered (`control.py:348`; `src/docs/P6-2J_MINIMAL_ADMIN_CONSOLE_DESIGN.zh-CN.md:873`) |
| `InterruptedIsReconcilable` | `BackupRetention` | `Backups = Existing = {1}`, two `PinOps`, one of `Reasons`, `Plans = {}` | an idempotent pin that dies after `mutation_started` can never be reconciled: `reconcile` takes the unchanged sidecar for one still to be created (`deploy/backup_retention.py:317`), and plan and apply refuse the unfinished journal for good |

What else the models show, and no document contradicts:

- *Pipeline.* A COMMIT that takes effect and raises all the same sets the message it settled back to
  `dedup_pending` and drops its events; the next delivery settles it again, as `matched`.
- *Recovery.* `execute()` of the cleanup looks at the active configuration and drops the
  replacement later without the lock: with two operators, one of whom resumes a run in
  between, `ActiveIsVerified` and `NoForkedHistory` fail. `run()` does not look at
  `cleanup_requested`. A crash between a fact (`verification_result`, the monitor's start) and the phase that goes with it leaves a record
  that `run` refuses from then on. A record that changes between its reading and the
  lease makes the comparison of external facts set the flag for manual work without a cause.
- *Backup root.* A temporary file of a dead process in `.pin-audit` or `.pins` blocks every plan
  or apply until a person removes it. Deleting a restore-verified candidate leaves its sidecar in `.verifications`, and the orphan makes
  every later plan refuse. `create` may report `not_created` when closing the snapshot fails after the rename.
  `reconcile` compares values and not operations, so a pin that came, went and came back looks untouched.
  A rename that failed, recorded as `cleanup_required`, is not tried again.
- *Restore verification.* A database that is gone in a phase where it should be there stops
  the cleanup until a person intervenes, as the design wants it (`src/docs/P6_DEPLOY_4C_*`).
- *Log rotation.* A run that dies between its snapshot and the end of the copy is refused by
  later runs, and what is written between copy and truncation is lost; both are documented.
- *Watchlist.* A cancelled `replace` releases the lock while its thread goes on.

## What is not modelled

- *Text*: normalizer, fingerprints, parser, bot formatting. Pure; their results are constants.
- *Validation before any state changes*: malformed incoming messages, invalid ids, HTTP bodies.
- *Error lists, timestamps, recent matches* of the runtime: observed by humans, read by no code.
- *Subscribers of the event bus*: `publish` succeeds or raises; the bus is in memory and a crash
  after the commit loses its events, as `RawMessagePipeline` has it.
- *Configuration, logging, process start.*
- *Who may apply a plan* (`backup_retention_authorization.py`): issuing, authorizing and
  consuming an authorization. A plan that exists may be applied.
- *Recovery on a real server* (`production_recovery_postgres.py`) and its commands: the
  rehearsal's fake world is what the repository runs.
- *The rotation agent* (`rotation_agent.py`, `rotation_status.py`): it starts the engine, which
  fairness stands for. Lines are written whole, so a partial line at a crash is left out.
- *The watchlist beside the monitor*: `WatchlistStore` and `MonitorControl` are not composed, so
  that a runtime may run another revision than the one `start()` reported (`control.py:312`,
  `bootstrap.py:144`) is listed as a hazard and stated nowhere.
- *Cleanup of a restore that is still running*, and one `replace` that is cancelled in its thread.

## Plan

Done, in this order: the data the system exists to keep (`RegistryDatabase`,
`RawMessagePipeline`, `MessageSettlement`); the long-lived process (`MonitorRuntime`,
`MonitorLifecycle`, `MonitorControl`); retention with its root, log rotation, the watchlist,
restore verification, the recovery rehearsal; the proofs above.

Left, most important first:

1. **Proofs.** The variants behind the liveness properties: what every step of a rotation, a
   rollback or a shutdown brings nearer to its end.
2. **The watchlist beside the monitor**: `MonitorControl`'s start over `WatchlistStore`, with the
   revision `start()` records against the one the bootstrap loads.
3. **The authorization of a plan**: used once, for the plan it names, before it expires.
4. **An abstract backup root**: a set of packages from which exactly the planned ones disappear,
   each whole or not at all, implemented by `BackupRetention`.
