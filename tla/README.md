# PID Gijón: TLA+ models, checks and proofs

This directory holds TLA+ models of the parts of the platform whose correctness
depends on the order of events, on failures in the middle of something, or on
arithmetic that is easy to get wrong at its edges. TLC checks the models on
small instances; TLAPS proves the main results for every instance.
`PROJECT.json` lists the runs, the mutants, the source lines each definition
stands for, the hazards and the theorems.

To repeat the work, inside this directory:

    tlc -workers 2 -config CbNotification_safety.cfg MCCbNotification.tla
    tlc -workers 2 -config Platform.cfg MCPlatform.tla
    tlapm CbNotification_proofs.tla
    tlapm OteIngestion_proofs.tla

## 1. The system

Data enters through the FIWARE core and never through the management API:

    sensor -> IoT Agent -> Orion-LD -> subscription -> queues-consumer (HTTP)
           -> RabbitMQ -> Celery workers -> PostgreSQL, TimescaleDB, MongoDB

LIDAR sensors (OTE) post to `fiware-manager`, which stages their raw frames in
object storage; an hourly job of `predictions` archives and publishes them.
People use the Laravel `backend` to read and manage.

| Part | State it keeps | Operations | Talks to |
| --- | --- | --- | --- |
| Notification ingestion (`queues-consumer`: `api.py`, `tasks/sync.py`, `jobs/sync`, `jobs/timeseries`) | messages in the main queue and the DLQ, retry count in the message, rows | accept, process entity by entity, retry, move to the DLQ | broker, main, realtime and timescale databases; enqueues realtime, alarm and connector jobs |
| DLQ recovery job (`services/dlq_recovery.py`) | unacknowledged messages of its connection | get, republish, acknowledge, exit when idle | DLQ, main queue |
| Realtime rows (`jobs/realtime`, `crud_entity_properties.py`) | last value and timestamp per property, list of commands | update if newer | realtime database |
| Device commands (backend, `fiware-manager`, `queues-consumer`) | pending mark of a command, parked commands in MongoDB | send, park, poll, confirm | IoT Agent, Orion-LD, devices |
| Alarms (`jobs/alarms`, `tasks/alarms.py`) | `up` of an alarm, executions of the inactivity task | evaluate, store, run actions | time series, mail, HTTP, commands |
| Out connectors (`jobs/out_connectors`, backend `OutConnectors`) | status, failure count, last connection | send, register success or failure, deactivate, activate, delete | external MQTT brokers, PostgreSQL |
| Data importation | background tasks, stored uploads | parse, create entities, save, report progress | object storage, Orion-LD, both stores |
| ETL schedule, result cache | recorded executions, files of detections | cut ranges, deduplicate, run, move rows to files | time series, object storage |
| Crowd ETLs | types of the visitors | visits, transits, classification, unique visitors | time series, `crowd_visitors`, IoT Agent |
| OTE raw archive (`fiware-manager/core/ote`) | windows of frames per process and device | add, flush by age or size, flush on stop | object storage |
| OTE ingestion (`predictions/etl/ote`) | dumps, objects, manifests | recover, join, verify, delete, publish | object storage, broker |
| Occupancy model (`predictions`, backend) | bundle of the model, registry of events, weather | train in full or warm, predict, edit events | object storage |
| Anomaly detection (`predictions`) | bundle per datamodel, lock, folder of files | sweep, score, learn, archive | object storage |
| Time series queries (`aether-link`) | none | one SQL query, or pages of Mintaka | TimescaleDB, Mintaka |
| Organization access (backend) | levels, permissions, limits | set a level, create and delete resources, add and remove users | PostgreSQL |
| Notification processors (`notification_processor`) | location rows of the entities of a device | standardise, choose the newest, write to the others | realtime and timescale databases |
| Entity and subscription sync (`jobs/entities`, `aether-link`) | the platform's subscription, entities | discover, subscribe, fetch by pages, send | Orion-LD through `aether-link`; enqueues realtime and series jobs |
| `keycloak`, `frontend`, `pylibs`, IoT proxy | rows, sessions | forward, present | all services |

What is hard, and what makes each part correct:

* **Ingestion.** Messages are acknowledged late, so work is repeated; faults are
  sometimes retried, sometimes swallowed; a kill by the time limit acknowledges.
  Correct means: nothing accepted disappears, jobs see data that is stored,
  retries end, and a message in the DLQ comes back once.
* **Realtime rows, commands, alarms, schedulers.** A value is read, something
  slow happens, and a decision is written. Correct means: the newest value is
  what a query finds, a mark is not cleared by an older report, a command is
  delivered once, a transition is told once, a period runs once.
* **Out connectors.** Many jobs of one connector overlap and act on rows they
  read before. Correct means: a healthy connector is not deactivated, a dead one
  is, and a deactivated one sends nothing.
* **Locations, entity sync.** Notifications come in any order and jobs overlap on
  one subscription. Correct means: the entities of a device end at one place, and
  what the broker has of a subscribed type is in both stores.
* **Importation, cache, archives.** Something is copied and its source deleted,
  while anything in between may fail. Correct means: at every moment the data is
  in one place or the other, and is counted once.
* **Crowd ETLs, models, queries.** What two pieces of code compute from the same
  data must agree, and what a model learned must be what it should have.
* **Access.** Rows for every user and resource are kept consistent by requests
  that only partly are transactions.

`PROJECT.json` lists every hazard at the line where it bites, with the
properties that watch it, or a note when it still waits for its module.

## 2. Modules

| Module | What it is |
| --- | --- |
| `CbNotification` | ingestion with queues, workers, retries, DLQ, recovery job and faults |
| `NotificationDelivery` | what ingestion promises per notification; implemented by `CbNotification` |
| `RealtimeRows` | the rows of an entity and the pending mark of a command |
| `LocationSync` | the location that the entities of a device share |
| `EntitiesSync` | the platform's subscription, and the jobs that fetch what the broker has |
| `CommandDelivery` | a command from the IoT Agent to a polling device |
| `ThresholdAlarms` | one alarm and its overlapping jobs, from the notification to its actions |
| `InactivityCheck` | the hourly pass of the inactivity alarms |
| `OutConnectorHealth` (`OutConnectorParameters`) | one connector, its overlapping jobs and management requests |
| `DataImportation` | uploads, parsers, the session of the job, both stores, the background task |
| `EtlSchedule` | ranges cut into windows, executions looked up and recorded |
| `CrowdDataCache` | the move of an hour of detections to files, and its readers |
| `CrowdFlows` | visits and transits of a window, and their publication |
| `CrowdVisitors` | classification of the visitors, and the report of the new ones |
| `OteArchiver` | buffers, windows and upload thread of the raw archive |
| `OteIngestion` | the hourly job over the dumps: recovery, compaction, publication |
| `CrowdModel` | the daily run of the occupancy model and the registry of events |
| `AnomalyModel` | runs that share a model through a bundle and an advisory lock |
| `TimeSeriesQuery` | one request answered by SQL or by pages of Mintaka |
| `OrganizationAccess` | levels, permissions and limits of an organization |
| `CbNotification_proofs`, `OutConnectorHealth_proofs`, `CommandDelivery_proofs`, `OteArchiver_proofs`, `OteIngestion_proofs`, `EntitiesSync_proofs` | TLAPS proofs of a component, section 5 |
| `Sessions_proofs` | TLAPS proofs of `CrowdModel` and of `OrganizationAccess`, an instance: what sessions of the management API share, section 5 |
| `Jobs_proofs` | TLAPS proofs of nine components that are repeated jobs, each an instance, section 5 |
| `MC...` | instances for TLC, section 3 |

Operators named "Mutant of X" stand before `X`. They are plausible bugs in `X`;
each property is violated when one of them replaces its original.

### CbNotification

A notification is a list of entities; only its length and what is special
about an entity (poisonous, skipped because a subscription expired, of type
`CrowdFlowEvent`) matter. `main[n][r]` counts ready messages of `n` with retry
count `r`, so the order of the queue is arbitrary, as it is with several workers
and delayed retries. A worker holds its message unacknowledged and moves through

| `pc` | Code | Actions |
| --- | --- | --- |
| `idle` | Celery takes a message; deletion notifications end at once | `Receive` |
| `refresh` | `_refresh_and_validate_entity` | `Refresh`, `RefreshPoison`, `RefreshFails` |
| `transform` | `_transform_notification`, whose exceptions are swallowed | `Transform`, `TransformFails` |
| `save` | `TimescaleSyncJob.handle`, one database after the other | `SaveTimeseries`, `SaveFails` |
| `observe` | the observers, each in its own `try` | `Observe` |
| `failed` | the `except` of `fiware_orion_subscription_job` | `Retry`, `MoveToDlq` and their failures |
| `settle` | acknowledge or reject | `Settle` |

`WorkerCrash` is the loss of a worker (the message is delivered again, because
of `acks_late`); `ChildKilled` is the hard time limit (Celery acknowledges). The
recovery job is `RecoveryStart` to `RecoveryCrash`: a caught error leaves its
message unacknowledged (`stuck`) until the connection closes.

`NotificationDelivery` knows only the status of each notification and the moves
between two statuses (`Moves`): accepted or refused, parked and resumed, and the
three ends `stored`, `discarded` and `lost`, which nothing leaves. `CbNotification`
computes that status from its queues, workers and databases.

RabbitMQ and Celery are not part of the repository: `Settle`, `WorkerCrash`,
`ChildKilled`, `RetryFails` and `RecoveryDisconnect` model how they behave under
the options the code sets. Entities virtualised from an entity count as part of
it. The rows written for an entity are a set, as the insert ignores conflicts.

### RealtimeRows and CommandDelivery

A realtime job reads the rows of the entity, computes, and commits; the sessions
do not autoflush, so its commit writes only the columns that differ from what it
had loaded (`job[w].seen`). Nothing makes the rows of a property unique: `rows` is
a sequence and a query takes the first. `sender` is whoever sends a command, the
management API or an alarm: it sends first and raises the mark afterwards.

In `CommandDelivery` the document of a device in `pending_commands` holds one
value per command (`parked`). The request of the device is `Post` (everything
goes to the IoT Agent), then `NoCommands` or `Take` (`find_one_and_delete`), then
`Answer`, which may be lost. `upper` is whether the device writes its identifier
in upper case, as the notification router stores it.

### LocationSync and EntitiesSync

`LocationSync` follows a notification of a device's entity through `Process`
(`LocationStandarizer`, and the choice of `LocationSynchronizer` from rows read at
that moment), `SyncSeries` and `CommitLocations` (series and rows of the other
entities), and `Dispatch`, whose `Realtime` job writes the entity's own row. `Report`
is the broker: a notification carries all attributes, each with the instant of its
own last change. `past` records in which ways the code gave its guarantee up: two
writers overlapped (`raced`), a notification was older than its entity's own row
(`older`), a realtime job was lost (`missed`), a series was not written (`gap`).

In `EntitiesSync` a job is `Start` (the types subscribed so far), `Discover`,
`ReadSubscription` and `WriteSubscription` (`aether-link` reads the subscription
and writes it again), then `Fetch`, and per entity `Lookup`, `Create`, `SendRealtime`,
`SendSeries`. `Change` is the broker, which notifies subscribed types and lists the
entities of each type in the order of their creation (`order[t]`). An exception
within a type leads to the next one (`TypeFails`); a death or an earlier failure ends
the job (`Dies`). `past.owed` holds the types to which something happened that the
job does not make good; a forced job that nothing disturbs clears them.

### ThresholdAlarms and InactivityCheck

`ThresholdAlarms` takes one alarm through `Load` (the row is read), `Finish`,
`Decide` (measures that were not in the notification come from the series),
`Update` (the new state is committed) and one `Act` per action, each logged on
its own. Operators, combinations (AND, OR, XOR), time scopes and kinds of action
are those of the code. `InactivityCheck` has several schedulers that
publish the pass of each hour, a queue, workers whose look-up in the table of
executions, record and run are separate steps, forced passes, and deaths. Ages
saturate, so its clock is unbounded. `racers` remembers who had looked and not
recorded when the first execution of the hour was recorded.

### OutConnectorHealth

The code compares the failure count only with zero and with `NUM_MAX_RETRIES`,
and instants only with the deactivation window. The count therefore saturates
and an instant is an age that saturates at the window: clock and number of jobs
are unbounded although the state space is finite. `row[w]` and `arow[a]` are the
rows that jobs and management requests loaded: both ORMs write only the columns
that differ from them. `streak` and `okAge` record what really happened.

### DataImportation

A file is a sequence of rows of which only what the parsers look at matters:
entity, timestamp, tenant and scope, type, values. `DataFrameParser` and the
GeoJSON, KML and JSON-LD parsers drop, group or complete rows in different ways:
`Parse` is the table of what each does. The job uses one session for everything;
`broken` sessions refuse every statement, as SQLAlchemy's do after an error that
nobody rolled back. `fate` says what became of each notification.

### EtlSchedule, CrowdDataCache, CrowdFlows, CrowdVisitors

`EtlSchedule` computes the windows of every ETL (hours, days, weeks, months,
periods of unique visitors) from a calendar given as a constant, and runs the jobs:
`LookUp`, `Record`, `Execute`. `unsafe` marks the cases in which the code gives no
guarantee. `CrowdDataCache` has three places for a detection, the series, the
answer a job holds and the file. `CrowdFlows` computes visits and transits of
each visitor as sequences, as the data frames do, and their figures as sums,
minima and maxima. `CrowdVisitors` stores types by chunks; `best` and `first` are
history.

### OteArchiver

A frame is its position in the order of acceptance, so a buffer is a set of
numbers and its oldest frame the smallest. The event loop (`main`) and the
upload thread have program counters of their own; `Take` is the locked half of
`flush` and `PutOk`/`PutFails` the upload. `Join` may return while the thread is
uploading, as `join(timeout=10)` does. `Exit` ends the process and the daemon
thread with it. `Restart` may reuse a process id; it takes at least one tick,
as `opened_at` is kept in milliseconds and starting a worker takes much longer.

### OteIngestion

A dump is named by the instant its window starts; an object by its device, first
and last dump. `archive[k]` is an object, whole or not, `manifests[k]` what its
manifest lists. One action per call to the storage: the run may die before any of
them (`Crash`), and each may fail if `Faults` allows it. `Ingest` publishes a
target: the sensors always, the zones only if everything could be read.
Concurrent runs do not exist (`concurrencyPolicy: Forbid` in the chart).

### CrowdModel, AnomalyModel, TimeSeriesQuery, OrganizationAccess

`CrowdModel` counts time in days and knows a model by the days and columns it
learned, its trees and whether they saw precipitation. The registry is a file:
administrators read, change and rewrite it under an advisory lock of PostgreSQL,
the training reads it several times, the first time only if nothing else already
makes a full training due. `AnomalyModel` has the lock as it is, a file
that is looked at and then written, the bundle as three files written one after
the other (columns, metrics, model) with the watermarks in the last one, and files
that are copied and then deleted. Any of these calls may fail, with what the code
then does: a lock that cannot be read counts as free, one that cannot be written as
taken by another, a bundle that cannot be read as none, metrics that cannot be read
freeze the measures again, a file that cannot be read stays for the next sweep. Only the
measures found in the files are modelled, not those a configuration names.
`TimeSeriesQuery` puts a request to both sources, the SQL statement (`Query`) and the
loop over the pages of Mintaka followed by its filter, with failing queries, pages
and connections, over times of which two may fall within one second, and compares
both with what `TimeScope` lets through.
`OrganizationAccess` is one action per statement, or per transaction where there
is one; at the isolation level of the deployment a transaction sees what is
committed when each of its statements runs.

## 3. Runs

Components that share no state are checked in one run: the MC module declares
the variables of all of them, and `part`, chosen at the start, says which one
moves. Each MC module extends one component, which rests in an initial state
while others move, so that its properties, and the theorems about them, are those
of the run; the others are instances, whose variables rest at 0 and whose
properties the module repeats for the states of their part. The states of
such a run are the sum of those of the components, not their product. `MCDelivery`
and `MCServices` hold what has a liveness property (and the component they extend),
`MCPlatform` and `MCAnalytics` the rest. Runs without liveness properties use symmetry:
the workers of `cb_safety`, the two workers, sessions, administrators, runs or
visitors (`Twins`) of `analytics`, and in `platform` those permutations of its two
processes and of their ids that keep each process with its id.

| Run | Question | Bounds |
| --- | --- | --- |
| `cb_safety` | is anything lost, out of order or copied without a fault; does ingestion implement `NotificationDelivery`? | 2 workers, 2 databases, a notification of 2 entities (one a crowd flow event), a deletion notification, one that always fails, 1 retry, 2 faults of any kind; 464,861 states |
| `delivery` | do retries end, is a sound notification finally stored; is a command handed over once? | ingestion: 1 worker, a notification that always fails beside one of 2 entities (the first skipped), 3 faults, an operator; commands: 3 and 2 overlapping requests; 39,199 states |
| `services` | does what must happen happen: dead connectors, parked commands, alarms, windows? | connector: 2 jobs, limit 2, window 1, 1 kill; commands: 3 and 2 overlapping requests; inactivity: 2 schedulers, 2 entities, 1 forced pass, 1 kill; archive: 1 process, 2 devices, 3 frames, failing uploads, crashes; 198,156 states |
| `platform` | safety of rows, locations, entity sync, alarms, inactivity check, access, a connector that the API changes, archive | 2 of whoever overlaps in each part; see the module; inactivity: 2 schedulers and 2 workers; 1,642,296 states |
| `analytics` | safety of models, queries, ETL schedule, result cache, crowd ETLs, importation and dumps | see the module; dumps: 3 of one sensor, 2 hours, 2 faults; importation: 2 imports, 2 faults; queries: every set of 5 times, two of them to a second, limits that bind, every kind of scope, 2 measures, one failing call; 1,582,699 states |
| `cb_zeroloss`, `oc_race`, `oc_activation`, `ote_stop`, `ote_lost`, `import_end`, `visitors_new` | violated: section 6 | the smallest instance with the case |

Why the bounds are enough to make the cases happen: two workers are the fewest
that interleave, and nothing in the code distinguishes a third; two entities are
the fewest for which a retry repeats finished work and skips none; two databases
the fewest that can disagree; with one retry both branches of the `except` occur
and each is followed by a further attempt. A notification that always fails reaches
the DLQ without a fault, so that the two faults of `cb_safety` can hit its recovery;
with the three of `delivery` two failed attempts of a sound one and an error of
the recovery job meet.
For the connector a limit of 2 separates the first failure from the one that
deactivates, and a window of 1 has both of its edges. Three commands let one be
replaced while parked and one be taken twice if it could. Three frames fill,
overflow and refill a buffer. Three dumps with a spill of one and hours of two
give an object that starts in one hour and reaches into the next, and a late dump
that joins neither; two faults let a deletion and the recovery from it fail. The
calendar has months of 31, 28 and 31 days and ranges that start in the middle of
a week or month. The importation takes every kind of incomplete row in every
format with one worker, and two imports of the same entities with two. The page
of Mintaka is 2 rows, so that three rows need two pages, and a second is two units of
time, so that the edge of a page may fall between two rows of one second. Realtime rows take a
report and the status of a command with two overlapping workers, and two reports
with one worker; two anomaly runs overlap while one dies, or while one call fails,
over two files with a point in common or of two measures. Two schedulers and two
workers are the fewest that race for the pass of an hour. Locations take three
entities with two overlapping workers and one fault, and, with one worker, three
reports of two entities: enough for a late report to undo an earlier one. Entity
sync has a page of one entity, so that two entities take three pages; its two jobs
share a subscription of two types, and with one worker a call may fail before a
forced job comes. Two days of an event and
a window of two days let the warm start pass an event recorded later.
`MaxFaults`, `MaxKills`, `MaxFrames`, `MaxTime`, `MaxSends`, `MaxReports`,
`MaxForced`, `MaxLag`, `MaxAsked`, `MaxChanges`, `MaxErrors`, `MaxRuns`,
`MaxStays`, `MaxRequests`, `MaxDay`, `MaxRows`, `MaxTrees` and `MaxHour` are the artificial
bounds.

Every mutant is found under the bounds of the run of its property. The runs of
several parts do not check deadlock: a bounded part comes to an end, and a
stopped process need not come back. `cb_safety` does check it.

## 4. Properties

Ingestion:

* `NoLoss`: an accepted notification is stored, a deletion, queued, in work or
  parked, unless a *lossy* fault hit that notification. The lossy faults are the
  four points where the code or Celery gives up a message: a swallowed pipeline
  exception, a retry or a DLQ move that cannot be published, the hard time
  limit. `blame` records whom they hit.
* `ZeroDataLoss`: the same without the excuse, as the DLQ document promises. It
  fails (section 6) and is proved for instances without lossy faults.
* `Progress`: what a worker has gone past is stored.
* `JobsAfterRows`, `DatabasesInOrder`: no job before the last commit; no
  database ahead of an earlier one, whatever was retried.
* `CopiesNeedFaults`: live copies of a message never exceed one plus the faults.
* `RefinesDelivery`: stored, discarded and lost are final, parked ones come back.
* `Settles`, `EventuallyStored`: retries end; with an operator, sound
  notifications are stored.

Rows, commands, alarms, connectors:

* `RowsCurrent`: the row a query takes is that of the newest notification, and a
  command is available exactly when the stored list names it, unless writers of
  the entity overlapped.
* `MarkOutlivesOldReports`: a measure taken before a command does not clear it.
* `LocationsAgree`: once nothing is left to do, every entity of a device has one
  row, at the newest place notified; what a row has is in the history too.
* `SubscribedAreSynced`: what a job announced stays subscribed; once nothing is left
  to do, both stores have what the broker has of every entity of a subscribed type,
  whether it was there before, came while its pages were read or changed later.
* `DeliveredOnce`, `ParkedIsTaken`: no command reaches the device twice; none
  stays parked while the device asks (`[]<>`: infinitely often nothing is parked).
* `AlertsSound`: ups and downs alternate, and every action of a transition is
  tried whatever the others do, unless jobs overlapped or died.
* `OnlyRacersRepeat`, `AlarmSettles`: a worker makes the regular pass of an hour at
  most once, and only if it had looked before the first execution of that hour was
  recorded, whatever is published, killed or forced later; that the pass is made
  once (`OncePerHour`) is what a comment says and two schedulers break (section 6).
  Once the silence does not change any more, the alarm ends in the state it implies.
* `LastConnectionIsLatest`, `DeactivationJustified`,
  `EventuallyDeactivated`: late writes do not age the health; deactivation needs the failures in a row and no
  success within the window; a dead connector does not stay active.

Copies and deletions:

* `ImportSound`: a completed import has every sound row in both stores unless a
  store refused it; the stored file outlives whatever has not been tried.
* `WindowsOnce`: windows leave nothing of a range out and take nothing twice;
  each runs once unless forced, looked up together or killed.
* `RowsReachable`: a detection is in the series or in its file, and an ETL that
  reads both misses none, although jobs overlap and die.
* `EachFrameOnce`, `ObjectsInOrder`, `BufferKeepsNewest`,
  `WindowsClose`: every frame is in one place; objects cut the stream of a device
  in key order; the buffer is bounded and drops the oldest; windows close. That a
  stop leaves nothing buffered (`StopDrainsBuffers`) is proved and needs no run.
* `NoDumpLost`, `ArchivedOnce`, `ZonesComplete`: a dump is staged or in an intact
  object; in one of them only; a zone sample counts all the dumps of its hour.

Analyses and access:

* `VisitsAreArrivals`: visits to an entity are the transits that reach it and the
  visitors first seen there, for each class of visitors.
* `ClassificationKept`: who was stored stays stored, once, with the highest type.
* `BundleSound`: the registry has what was accepted, the model has unlearned the
  days of events, its trees agree on the meaning of precipitation, and a failed
  training does not take the forecast away.
* `LearnedOnce`: no point is learned twice, whichever runs overlap, die or meet a
  failing call, also between two files of the bundle.
* `PagesWhole`: what the pages of Mintaka leave out of a range is beyond the limit,
  beyond a page that failed, or within a second under a row that was given.
* `AnswersExact`: each source gives exactly the first rows of the range and scope
  wherever it reads the request as `TimeScope` does. The conditions are conjuncts of
  the property, one for each point at which the code departs from it (section 6); the
  requests of the run are on both sides of each of them.
* `AccessSound`: outside requests every user has exactly the permissions of its
  level, and nobody exceeds a limit, unless a level was set meanwhile.

Several properties are conditional. Each condition names a case in which the code
gives no guarantee, and that case is in section 6 where something promises more.

**Fairness.** Weak fairness on the steps of a worker: a pool child that holds a
task executes it. Strong fairness on receiving a message: RabbitMQ hands out
ready messages in order, so none is passed over for ever. Weak fairness on the
loop of a running recovery job, and strong on each message it may get. No fault
is ever forced. Launching the recovery job is an operator's decision, hence only
`OperatorSpec` assumes it. `EventuallyStored` has a premise, that the recovery
job ends again and again: TLC shows that a poisonous notification can keep the
job busy for ever, and a message that a caught error left unacknowledged comes
back only when the job ends. For the connector: jobs run, time passes, and
a job of an active connector has something to send now and then (strong, because
`NothingToSend` may intervene). For commands: the device reports again and again
and asks for its commands infinitely often (strong on `Take`, as it may report
without asking). For inactivity: the scheduler's tick is enqueued every minute,
workers run, time passes. For the archive: the thread runs, uploads return (the
storage clients have timeouts), a stop goes on once begun, time passes.

## 5. Proofs

`CbNotification_proofs` proves, for any number of notifications, entities,
workers, databases, retries and faults, from `ConstantsAssumption` alone:

| Theorem | Statement |
| --- | --- |
| `TypeCorrect` | `Spec => []TypeOK` |
| `WorkIsKept` | `Spec => []Progress` |
| `NothingLost` | `Spec => []NoLoss` |
| `JobsFollowRows` | `Spec => []JobsAfterRows` |
| `DatabasesOrdered` | `Spec => []DatabasesInOrder` |
| `ZeroLossWithoutLossyFaults` | `LossyFaults = {}` implies `Spec => []ZeroDataLoss` |
| `DeliveryRefined` | `Spec => RefinesDelivery`: it implements `NotificationDelivery` |

All but the last follow from `Invariance`, `Spec => []IInv`, with

    IInv == TypeOK /\ Progress /\ NoLoss /\ JobsAfterRows /\ DatabasesInOrder

`NoLoss` is not inductive: when the last entity is done and the worker is about
to drop its message, only `Progress` says that all the entities before it are
stored. `Progress` in turn needs that a message is released with its position
reset, that what is stored stays stored (`Grows`), and that a released message
is in a queue again or finished (`EndOfLoop`). The argument has one lemma per
conjunct, each with one step per action, and lemmas for the moves that several
actions share: publishing a message, going to the next entity, releasing.

`DeliveryRefined` maps the initial states to the initial one and each step to a
step of the abstract specification or a stutter. A step works on one notification
(`WorksOn`, `Takes`), leaves the copies and rows of the others as they are, and for
its own shows that the pair of statuses is in `Moves`. `IInv` does not exclude that a
notification which was never queued, or which the broker missed, has a copy or a row,
nor that an idle worker or recovery job still holds one; `Provenance` adds that, and
is proved inductive with it.

`OutConnectorHealth_proofs` proves, from `HealthAssumption`, for any number of
jobs, requests and kills:

| Theorem | Statement |
| --- | --- |
| `TypeCorrect` | `Spec => []TypeOK` |
| `LatestConnection` | `Spec => []LastConnectionIsLatest` |
| `InactiveStops` | `Spec => StopsSending` |
| `JustifiedDeactivation` | `OneJob` implies `Spec => DeactivationJustified` |

`LastConnectionIsLatest` speaks only of states in which nothing waits to be
registered, so it is not inductive. `LatestIsKnown` adds what happens before:
if `last_connection` is older than the last confirmed send, some job is about to
read the clock or carries an instant that is not older. The step of the clock
needs that ages grow together (`OlderMonotone`). `InactiveStops` is an action
property: no invariant but the types is needed, one lemma goes through the
actions; it says that a deactivated or deleted connector starts no send.

`OneJob` (one worker, none of its jobs killed, any number of management requests) is
the hypothesis under which the code gives that guarantee: `oc_race` shows what two
jobs do. Its invariant `Grounded` relates the stored count to what really
happened: the count is at most the streak of failures, also with the failure that is
still to be counted, unless a success is about to reset it; and a job that has
decided to deactivate has seen a streak and a window that justify it, which no
request of the API can undo. `platform` checks the property under the same hypothesis.

`CommandDelivery_proofs` proves, from `DeliveryAssumption`, for any number of
commands and overlapping requests:

| Theorem | Statement |
| --- | --- |
| `CommandInOnePlace` | `Spec => []InOnePlace` |
| `CommandDeliveredOnce` | `Spec => DeliveredOnce` |

`DeliveredOnce` says that an answer brings a command the device does not have.
The invariant behind it is that the places of a command are disjoint (`Places`),
also from what the answers carry (`Answers`), and no two answers carry the same
one (`AnswersDiffer`); numbers of new commands are beyond all those sent.

`OteArchiver_proofs` proves, from `ArchiverAssumption`, for any processes, devices,
frame sizes and limits, with failing uploads, crashes and reused process ids:

| Theorem | Statement |
| --- | --- |
| `Invariance`, `TypeCorrect` | `Spec => []IInv`, `Spec => []TypeOK` |
| `FramesInOnePlace` | `Spec => []EachFrameOnce` |
| `ArchiveInOrder` | `Spec => []ObjectsInOrder` |
| `BuffersBounded` | `Spec => []BufferKeepsNewest` |
| `StopDrains` | `Spec => StopDrainsBuffers` |

The invariant treats an object and an upload under way alike, as *pieces*: pieces
are apart and have different keys, an upload is not an object yet and belongs to one
flusher (`SlotsOK`), and every window is newer than the pieces of its process and
device (`PiecesOlder`). That the next key is new is the hard part, as process ids
come back: the number of a process is past those of its pieces, or the piece is
of a former process and began before everything the present one has
(`KeysPast`, by the tick that a restart takes). The number is bounded because each take
removes a frame at least (`SeqBound`, with cardinalities). The sum of the bytes in
a buffer enters only through facts that do not depend on how a sum is computed.

`OteIngestion_proofs` proves, from `Protected`, for any dumps, sensors, hours and
targets (the last also from `MarginCovers`):

| Theorem | Statement |
| --- | --- |
| `CompactionSafe` | `Spec => []Safe` |
| `DumpsKept` | `Spec => []NoDumpLost` |
| `DumpsArchivedOnce` | `Spec => []ArchivedOnce` |
| `ZonesCountAll` | `Spec => ZonesComplete` |

`Protected` is `OteIngestionAssumption` and that the calls of `recover()` and of
`_discard` do not fail; everything else may, and the job may die anywhere. The
hypothesis is needed: `ote_lost` is the counterexample without it. The invariant
`Safe` has a *ledger* of the stores and a *plan* of the run. The ledger: an intact
object with a dump still staged has a manifest that lists what it holds
(`ObjectsHold`); what a manifest lists is all staged unless its object is intact
(`ManifestsCover`); manifests are apart. So recovery may delete the dumps of an
intact object, and may discard any other with its manifest. The plan: recovery goes
through every manifest before the staging area is listed (`Recovery`), the groups
to archive are then staged, apart and in no manifest (`GroupsFree`), and nothing of
a group is deleted before its object is verified (`GroupHeld`). It follows that a
manifest or object is never written over another one: the key of a group begins
with one of its dumps, which would be staged and archived at once. That the first
and the last dump of a group exist is `FiniteHasEnds`, by the well-foundedness of
strict inclusion on finite sets. One lemma per action shows that it keeps `Safe`,
and three lemmas say what deleting a dump, dropping a manifest and doing nothing
to the stores do to the ledger. `ZonesCountAll` adds `Readable`: the name of an object
covers its dumps, which are of one sensor, and what the run listed is still staged or
in an object it reads. Its hypothesis `MarginCovers`, that a dump spills over at most
twice the margin, is what the range of keys read relies on: `extract.py` looks one
margin before the hour and takes a last dump to reach another one. The margin is
3600 s (`settings.py:209`) and the receiver closes a dump's window after
`OTE_FLUSH_SECONDS`, 60 s unless configured (`fiware-manager/app/core/config/config.py:27`).

`Sessions_proofs` proves, from `Parameters` of `CrowdModel`, for any sessions, events, windows and
numbers of days, rows and trees:

| Theorem | Statement | Faults it allows |
| --- | --- | --- |
| `RegistryIsKept` | `Spec => []RegistryKept` | all |
| `CrowdInvariance` | `Spec => []CrowdInv` | all but a failing upload |
| `BundlesSound` | `Spec => []Harmless`: `ForecastSurvives`; `OneMeaning` if no refresh fails; `EventDaysUnlearned` if the registry is readable and nobody changes it during a run | all but a failing upload |
| `AllSound` | `Spec => []BundleSound` | none |

`RegistryKept` counts rows, and a deletion is by the place of a row that was listed
without the lock. Its invariant says that a session about to write is the one in
the lock, that what it read is what is stored (so the whole file may be written back),
and that the row it deletes, if it is still where it was, is the event it listed;
`CountAppended` and `CountRemoved` say what a row more or less does to the counts, by
a bijection. `CrowdInv` follows a run through its steps. Its core is `Good`, said of the
stored bundle and of the one a run has made: the columns are those of the model, every
day learned is before `until`, the trees agree on the rain that `available` names, and
no event of the fingerprint touches a day learned. `EventDaysUnlearned` is not inductive
without the fingerprint: a warm start keeps days it learned in earlier runs, and only
because the fingerprint of the bundle equals that of the registry of today is none of
them in an event. Uploads are three and not atomic, so `Saved` says what is stored
between two of them, and a failing one is the fault that the theorems exclude: it
leaves files of two bundles, which `predict_pipeline.py` tells by the columns only.

The same module proves of `OrganizationAccess`, from `AccessAssumption`, for any sessions,
users and resources and any limits:

| Theorem | Statement |
| --- | --- |
| `AccessInvariance`, `AccessTyped` | `Spec => []IInv`, `Spec => []TypeOK` |
| `LevelsKept` | `Spec => []LevelKept` |
| `OwnLimitsKept` | `Spec => []OwnLimitKept` |

`LevelKept` speaks of moments without requests. `IInv` says of every other moment what the
statements made so far have left: a resource that is neither being created nor deleted
has the grants that are due (`LevelsHeld`), a creation has given those before its step
(`Half`), and what a level that is being set has read is what is there (`Reread`), as
long as levels and creations do not overlap and nothing failed halfway (`Calm`).
`Caps`: a user with a limit of its own is under it while a creation that has been let
through has no row yet, as one creation of it at most is at that point.

`EntitiesSync_proofs` proves, from `EntitiesSyncAssumption`, for any workers, types,
entities, requests, page size and faults:

| Theorem | Statement |
| --- | --- |
| `SyncInvariance` | `Spec => []SyncInv` |
| `SubscribedStaySynced` | `Spec => []SubscribedAreSynced` |

The property speaks of moments in which nothing is under way; the invariant says why they
are reached well. What a store ends with is decided by the newest of what is in it or on
its way to it, so an entity is `Settled` when the newest of all that (`Carrier`: the row,
notifications, tasks, the items that jobs hold) has the version of the broker. `Promised`:
each entity of a type that is subscribed to and to which nothing happened (`Live`) is
settled, or a job still comes to it, on its page, on a later page or in a type it has yet
to fetch (`Ahead`), and will send it, because it forces or because nobody created the
entity yet. To keep that through a page that was read before a change, `FreshAt` says that
what is on a page is as the broker has it or settled since, and `Arrived` that what waits
to be notified settles. `ForcedAt` says the same as `Promised` of one undisturbed forced
job, also for types to which something happened: its end takes them out of `past.owed`.
`SyncSound` bounds the types a job goes through, `DataSound` the instants: a measure with
`observedAt` is as new as its version, so a right one is newer than a wrong one
(`StampedRight`), while a stamp is newer than every earlier one. A page is never behind
its offset, as the order of a type only grows.

`Jobs_proofs` proves, each for the behaviours of one component and any values of
its constants:

| Theorem | Component | Statement | From |
| --- | --- | --- | --- |
| `DetectionsReachable` | `CrowdDataCache` | `Spec => []RowsReachable` | `CacheAssumption` |
| `WindowsRunOnce` | `EtlSchedule` | `Spec => []ExecutedOnce` | |
| `RepeatsAreRaces` | `InactivityCheck` | `Spec => []OnlyRacersRepeat` | `InactivityAssumption` |
| `VisitorsKept` | `CrowdVisitors` | `Spec => []ClassificationKept` | |
| `WatermarksKept`, `PointsLearnedOnce` | `AnomalyModel` | `Spec => []LearnedOnce` | `Parameters` |
| `LocationInvariance`, `LocationsSettle` | `LocationSync` | `Spec => []LocationsAgree` | `LocationAssumption` |
| `RowsInvariance`, `RowsTyped`, `RowsStayCurrent` | `RealtimeRows` | `Spec => []TypeOK`, `Spec => []RowsCurrent` | `RealtimeAssumption` |
| `MarksOutlive` | `RealtimeRows` | `Spec => MarkOutlivesOldReports` | `RealtimeAssumption` |
| `AlarmInvariance`, `AlertsAreSound` | `ThresholdAlarms` | `Spec => []AlertsSound` | `AlarmAssumption` |
| `ImportInvariance`, `ImportsSound` | `DataImportation` | `Spec => []ImportSound` | `ImportationAssumption` |

The constants of a component are unbounded there, also the number of workers and of
schedulers. Each invariant says
what a job holds between reading something and writing it:

* *Cache.* `CacheInv`: once the hour is closed, the rows of an entity are all in the series,
  or none is and its file has them all. What a job has extracted is as whole as that
  (`Extracted`), it deletes only when every entity is filed, and what a reader has not got
  from the series is in the files (`Readers`). This fails when a row comes late or a limit
  cuts the answer (`late`, `cut`).
* *Schedule.* `ScheduleInv`: unless `unsafe`, no two workers are at the same unforced job
  and none that looked it up finds it recorded (`Single`), and what is recorded is
  executed or about to be (`Recorded`).
* *Silence.* `PassInv`: a pass that was made has left a record; a worker that looked and
  found nothing is a racer, or the hour has no record yet; and a worker makes one regular
  pass of an hour, as afterwards it finds a record.
* *Visitors.* `VisitorsInv`: while jobs do not overlap, a visitor has one row or is in the
  chunk that the job deleted and is about to insert, and no type goes below `best`.
* *Models.* The stored model, and the model of each run, have passed every point they
  learned. The invariant is about the bundle and not about the lock, which runs may hold
  together: what a run learns it decides and writes in its own copy.
* *Locations.* `LocationInv`: while the history is calm (no two writers, no lost job, no
  notification older than its entity's row), the newest location is in a notification, a job
  or a row (`Somewhere`) and nothing is newer (`Under`); one job at most is at work, and when
  it hands over to the realtime job of its own entity the others have its location
  (`Chain`). Two locations of one instant are of one place (`OnePlace`).
* *Rows.* `RowsCurrent` needs that a job commits over the rows it loaded, which is only so
  while writers do not overlap: `OneWriter` says that then one job at most is at work, it
  holds what is stored, and the command has at most one row. The action property needs
  two facts about every moment before the step: a mark is never newer than the row's
  `updated_at` (`Aged`), and the marks a job is going to lower were older than its report
  when it looked at them (`Looked`). Lemmas say what each of the functions that rewrite
  a row leaves alone, and what a commit, which writes the changed columns only, leaves of
  what was loaded and of what is stored (`CommitStores`).
* *Alarms.* `AlarmInv`: while `clean`, one job at most is under way, it knows the stored
  state, which is the one last announced, and what it has tried and has left are together
  the actions of the transition, in the order of the channels.
* *Importation.* `ImportInv`: a job has tried every notification of its file that is not
  left, and unless its session broke each of those is in both stores, has no values or no
  organization, or is known to have failed (`Late`); a job about to save the realtime rows
  has saved the series (`Halfway`).

Each invariant was checked with TLC on instances like those of section 3 before
it was proved. The assumptions of the components that have several instances
(`DeliveryAssumption`, `OteIngestionAssumption`, `ArchiverAssumption`, `AccessAssumption`,
`EntitiesSyncAssumption`, those of `Jobs_proofs`, and `Parameters` of `CrowdModel`) are operators that the theorems
name and the MC modules assert for the constants of each of their instances. They say
that bounds are numbers, that finite sets are finite, that a function has its domain and
that a value that stands for nothing is none of the others.

The properties of `OrganizationAccess`, of `CrowdModel`, of `EntitiesSync` and of the
components of `Jobs_proofs`, and `DeactivationJustified`, are checked through instances, so the run
names them by a definition of its MC module
(`RowsCurrent == part = "realtime" => Realtime!RowsCurrent`); the theorems are about the
definitions of the components, which those quote. Where a component has several
instances with different constants, one theorem covers them all.

Only model-checked: the liveness properties (temporal formulas with fairness and
`ENABLED` are beyond the prover), what counts or sums over sets and needs induction
(`CopiesNeedFaults`, `VisitsAreArrivals`, the joint limit in `AccessSound`), what
folds and lists compute (`PagesWhole`, `AnswersExact`, and of `WindowsOnce` that the windows of a
range tile it; that each runs once is `WindowsRunOnce`), and the type invariants of the
components of `Jobs_proofs` other than `RealtimeRows`, of
`CrowdModel` and of `EntitiesSync`.

## 6. Where the code and what it says disagree

Shown by a run:

1. **DLQ publication.** `tasks/sync.py:83-86` rejects a message without requeue
   even if moving it to the DLQ raised. The DLQ document promises zero loss
   (`cb_zeroloss`).
2. **Consecutive failures.** Overlapping jobs may deactivate a connector after
   fewer failures in a row than `NUM_MAX_RETRIES` (`oc_race`). The window
   since the last success makes this rare; it does not exclude it.
3. **Activation.** A failure counted while the activation request holds its row
   survives it; the count does not start from zero (`oc_activation`).
4. **Controlled stop.** `raw_ote_archiver.py:243` says a stop keeps the current
   window; an upload of the thread that outlives the join is lost (`ote_stop`).
5. **Recovery of the dumps.** `compact_archive.py:217-219` says that `recover()`
   is right whatever the moment of death. If the deletion of the dumps stopped
   half way and the read of the object then fails, the intact object is discarded
   and the dumps already deleted with it (`ote_lost`).
6. **End of an importation.** If another session creates an entity first, the
   session of the import is never rolled back, the remaining notifications are
   skipped, the file is removed, and neither end can be reported: the background
   task stays running (`import_end`).
7. **New unique visitors.** The document says a visitor who changes type is not a
   new one; storing the type again renews `created_at`, so it is (`visitors_new`).

Met while modelling, reproduced with the modules but without a run of their own:

* *Ingestion*: the same zero loss policy is missed where the pipeline raises
  (`entity_sync.py:185-187`).
* *Inactivity*: `tasks/alarms.py:52-53` says an execution is registered for each
  hour so that two overlapping schedulers do not repeat it. It is looked up (line 62)
  and inserted (line 75) in two transactions without a unique index, so two workers
  may both make the pass. Checked in place of `OnlyRacersRepeat`, `OncePerHour` fails;
  `OnlyRacersRepeat` is what does hold, also with two schedulers and two workers.
* *Commands*: a device that writes its identifier in lower case never gets a parked
  command, as the router stores it in upper case (`ParkedIsTaken` without
  `upper`). A second send of the same pending value does not renew the mark. The
  docstring of `CmdStatusInterpreter` (17-31) has its cases inverted. An older
  notification may change the availability of commands.
* *Locations*: `LocationSynchronizer` does not look at the row of the entity itself.
  A late notification, older than that row, may be newer than the rows of the
  others and bring an older place to all of them, although the docstring
  (`location_synchronizer.py:178-183`) says an outdated notification is updated.
  Rows of equal value keep their older instant; overlapping jobs may leave an
  older place; entities of type `CrowdFlowEvent` get no row of their own.
* *Entity sync*: the docstring of `__fetch_and_sync_entities` says that errors on
  one type do not block the others (`entities_sync_job.py:143-144`); an entity that
  somebody else creates meanwhile leaves the session unusable, and the rest of the
  types fail (`Create`). A job that ends between creating an entity and sending its
  data is not repeated, and unforced jobs skip the entity afterwards. Overlapping
  changes of the subscription lose types. A job that subscribes to what it discovers
  and is to sync other types leaves the new ones unread (`unread`): no request of the
  backend asks for it, but the schema of the message allows it. An entity without `observedAt` is stamped
  when it is processed, so a version older than one already notified wins. Removing
  any of these exceptions from `past.owed` makes TLC find the case.
* *Result cache*: `data_cache_etl.md` says the deletion removes the data just
  processed; the extraction has a limit of 200,000 rows and the deletion has none
  (`DeletesOnlyProcessed`).
* *Crowd*: totals by category need not add up to the total when one of several
  updates fails or a classification comes between two runs (`CategoriesAddUp`;
  `process_visitors_etl.md` 3.2). The thresholds in the docstring of the
  classification (`etl.py:158-160`) are not those of the code. An entity without a
  first visit of two detections is dropped; durations of visits include the way
  to the next entity. Weekly classifications that overlap may leave several rows
  of a visitor, and a death between deletion and insertion loses it.
  `unique_visitors_etl.md` gives 14 days for the two-weekly period in one place and
  15 in another. `config.py:103-104` reads the interval of the unique visitors from
  the variable of the classification.
* *Time series*: `time_scope.py:182-183` says the SQL side filters exactly as
  `in_scope` does; SQL numbers months from 1 and week days from Sunday, `TimeScope`
  from 0 and from Monday (`RowsInScope`). `mintaka_data_source.py:183-184` asks until
  all data is returned; each page ends one second before the oldest row of the last
  one, so a row within that second is never asked for (`AllDataReturned`). Several
  scopes are joined with AND by one source and OR by the other; an ascending request
  with a limit gets the oldest rows from Timescale and the newest from Mintaka; Mintaka
  applies the limit before the period and ignores the time zone and the year of a
  scope; adjustments that name nothing or contradict each other are read differently.
  The conditions of `AnswersExact` and `PagesWhole` are these. The requests of the run
  are on both sides of each: without any one of the conditions of `AnswersExact` TLC
  finds it violated. A request whose start has a time zone raises when it needs a
  second page, a connection that fails drops the request, and one of two measures of
  which the first ends before the second raises (`Answers`); pages that two measures
  share use the limit of the one that lacks most (the condition `Ample`).
* *Access*: a level set while a resource is being created misses that resource, in
  spite of the class comment (`OrganizationAccessService.php:15-29`). Deleted users
  keep their level and receive permissions.
* *Occupancy model*: an event recorded while a training runs, a registry that
  cannot be read, or a failing refresh of the weather break parts of `BundleSound`
  that comments promise (`model_storage.py:103-104`, `predict_pipeline.py:4-6`,
  `daily_pipeline.py:63-64`, `warm_start.py:131`); `Faults` brings them back.
* *Anomalies*: files are moved to `processed/` unscored when the lock is held
  (`MovedScored`; `pipeline.py:1-3`).
* *Importation*: an import is completed although notifications failed. A name with
  an unknown extension, also one in upper case, raises before there is a task that
  could say so. A failed import keeps its file.

`ZeroLossWithoutLossyFaults` and `DumpsKept` are the counterparts of 1 and 5: apart
from the named faults the documented behaviour does hold.

## 7. Plan

1. `CbNotification`, `NotificationDelivery`, proofs, refinement included. *Done.*
2. `OutConnectorHealth`, `CommandDelivery`, `OteIngestion`, with proofs. *Done.*
3. `OteArchiver`, `RealtimeRows`, `AnomalyModel`, `OrganizationAccess`, with proofs.
   *Done*, but for the joint limit of an organization.
   `ThresholdAlarms`, `InactivityCheck`, `DataImportation`, `EtlSchedule`,
   `CrowdDataCache`, `CrowdFlows`, `CrowdVisitors`, `CrowdModel`, `TimeSeriesQuery`.
   *Done*, with proofs but for `CrowdFlows` and `TimeSeriesQuery`, which compute and are
   compared with a definition of what they should compute.
4. `LocationSync`, `EntitiesSync`, with proofs. *Done.*
5. Composition: `CbNotification` with `RealtimeRows` and `ThresholdAlarms` through
   the jobs it enqueues; `OteArchiver` with `OteIngestion` through the staged dumps.

## 8. Not modelled

Payload formats, unit conversions, templates and texts carry no control and are
abstracted to what the code does with the result. The context broker side of
`aether-link`, `aether-pylib` and the proxies keep no state. The numerical models
in `predictions` appear only through what they learned. `frontend`, `keycloak`,
`deploy`, `ontologia` and `postman` are presentation, configuration or data.

Inside the modelled parts: `TimestampShifter`, which only rewrites instants of
crowd flow events; the removal of subscriptions and the deletion of entities in the
broker while they are fetched by pages; two uploads of one name in the same second share a
path in the storage (`EntityController.php:553-618`); averages of the crowd
figures; aggregations and the where clause of time series queries; the deletion of
a user in Keycloak; the hyperparameters and time zone of the occupancy model;
detections whose notification is retried after the hour was moved (`late`), which
stay in the series. `PROJECT.json` gives the reason for each component.
