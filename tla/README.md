# A TLA+ model of qubership-log-exporter

The log exporter (LME) asks a log store (Graylog, Loki or New Relic) for the
records of consecutive time windows, evaluates metrics over them and exports
the metrics, by a push to Victoria Metrics or a remote-write endpoint, or by a
pull. This directory holds specifications of it, their model-checking
configurations and machine-checked proofs.

Section 1 is the inventory of the system, section 2 says which module models what,
section 3 how each model corresponds to the code, section 4 what TLC checks,
section 5 what is proved, section 6 what was found, section 7 what is left out.
`PROJECT.json` lists components, runs, mutants, the source lines of every
definition, findings, hazards and theorems.

## 1. Inventory

Paths are relative to `src/internal/` unless they start with `src/`.

### Window scheduling and the GTS queue (`queues/gtsqueue.go`)
*State*: one channel of window start times per query; the cron entries; the
cron's jobs that run. *Operations*: `generateHistoryTimestamps` (a goroutine per
query: load the last pushed timestamp, compute the missed windows, send them
with blocking sends), `scheduleTimestampGenerationForQuery` (deferred to its
end: register the cron job, or close the channel), the cron job with its
non-blocking `Put`, `Get`, `CloseChan`. *Hard*: jobs of one query run
concurrently, the queue may be full, the history is sent before anything is
known of the consumers. *Correct when*: the history is always sent to its end;
nothing is sent to a closed channel; a window is refused only when the queue is
full.

### Datasource goroutines (`processors/graylogrequests.go`, `lokirequests.go`, `newrelicrequests.go`) and services (`httpservice/`)
*State*: the window in hand. *Operations*: take a window, query, retry for as
long as `datasource-retry` says, put the rows on the GD queue; recover from a
panic and start again. *Hard*: failures without end, a panic with a window in
hand, responses that cannot be decoded. *Correct when*: windows keep their
order, a failed query is retried with the same window, nothing is put twice.

### GD and GM queues (`queues/gdqueue.go`, `gmqueue.go`)
*State*: one channel per query; the GM queue has one more for the self metrics.
*Operations*: blocking `Put` (non-blocking for the self metrics), `Get`. *Hard*:
capacity 0 is legal and gives a rendezvous.

### Metric evaluation (`processors/metricsevaluator.go`, `evaluator/`, `collectors/`)
*State*: counters, gauges and histograms; the metric state (known label
values), id-field cache, request-time and no-response caches, all fed window by
window. *Operations*: enrich, `EvaluateMetric` (count, value, duration; split
over threads and merged), update the collectors under the registry lock, copy
the families for the GM queue. *Hard*: worker threads that share a cache, caches
shifted once per window, defaults for label values that did not occur, a panic
in the middle. *Correct when*: a window is folded in exactly once and in order,
a record with a known id is counted once, a response finds its request while the
request is in the cache.

### Registries and snapshots (`registry/registry.go`, `utils/deepcopy.go`)
*State*: a registry per query behind one lock. *Operations*: update under the write lock,
gather under the read lock, copy without one. *Hard*: pull scrapes and push
copies read while evaluators write; a panic under the lock. *Correct when*: what is gathered is the
state between two windows, and a queued snapshot does not change.

### Push processors (`processors/victoriaprocessor.go`, `promrwprocessor.go`, `pushprocessor.go`; `httpservice/victoriaservice.go`, `promrwservice.go`)
*State*: the snapshot in hand, the body of its request. *Operations*: take a
snapshot, add cloud labels (not modelled), push, retry while `push-retry` says so. *Hard*: a
request that fails after it was sent, a reply that is lost, a target that never
accepts. *Correct when*: an acknowledged push is a stored snapshot, and
snapshots are stored in the order of their windows.

### Crash and restart (`httpservice/lasttimestampservice.go`, `processors/signalprocessor.go`)
The process keeps nothing on disk: a signal stops the cron and exits at once
with everything in flight; the next start derives the missed windows from the
last timestamp found in the monitoring system. *Correct when*: no window is evaluated
twice whose samples are known, and a window that is missing is missing for one of
the named reasons.

### Self monitoring (`selfmonitor/`, `processors/selfmonitorscheduler.go`)
A registry of the exporter's own metrics, pushed once a minute through a channel
of its own with a non-blocking put. *Hard*: many goroutines count while the copy is
read; copies are lost to a full queue and to panics. *Correct when*: a counter
never falls at the target, and what was counted arrives in the end.

### Configuration (`config/`, `crypto/`), Graylog emulator, Consul checker, logging
*State*: the configuration file and the key file. *Operations*: read, complete from
the environment, validate, encrypt and write back, fill in the hidden fields.
*Hard*: a start may be cut off between any two writes, the next one starts from
what it left; maps are gone through in a random order; what the option
`-check-config` accepts must be able to start. *Correct when*: the key on disk
fits the configuration on disk, a password that was read survives its encryption and
every later start, and no entry that the environment should complete is passed over.
The Consul checker copies one key to the log level. The emulator is a test
double.

### Interactions
`src/main.go` (121-180) builds the queues, the registry and the processors in
this order: GTS queue (whose history goroutines start to send at once), GD
queue, GM queue (only with a push export), registry, datasource goroutines,
evaluation goroutines, push goroutines, the cron. Queries share the cron, the
registry lock and the self metrics; otherwise each has its own channels and
goroutines. Queues are the only way from one stage to the next.

## 2. Modules

The order is that of the plan: the path of a window first, then what happens in
its stages, then what surrounds them.

| module | models | proofs | checked in |
|---|---|---|---|
| `Pipeline` | the windows of a query through four goroutines and three channels | `PipelineProofs` | `MCPipeline` |
| `WindowFlow` | abstract promise of `Pipeline`: enter once, bounded in flight, delivered in order, or accounted for | `PipelineProofs` | as `FlowSpec` of `Pipeline` |
| `Recovery` | signal, crash and restart: last timestamp, history, registration of the job against the clock | `RecoveryProofs` | itself |
| `Partition` | the split of rows between threads, used by three modules | `RowsProofs`, `EvaluationProofs` | `MCEvaluation`, `MCRows` |
| `CountEvaluation` | count metrics, their workers and the id-field cache | `EvaluationProofs` | `MCEvaluation` |
| `ValueEvaluation` | value metrics, their workers and the shared list of buckets | `EvaluationProofs` | `MCEvaluation` |
| `DurationEvaluation` | duration metrics, the request-time and the no-response cache | `EvaluationProofs` | `MCEvaluation` |
| `ResponseTables` | tables from Loki's streams and New Relic's events and facets | `RowsProofs` | `MCRows` |
| `Enrichment` | the chain of enrichers and their goroutines | `RowsProofs` | `MCRows` |
| `UriScore` | the machine that scores URI path elements | `RowsProofs` | `MCRows` |
| `MetricState` | series across windows: expected and met ones, defaults, the collectors | `PushProofs` | `MCPush` |
| `RemoteWrite` | conversion to remote-write samples with the shared time field | `PushProofs` | `MCPush` |
| `Registry` | registry lock, updates, scrapes, copies; the histograms of the self metrics | `ExportProofs` | `MCExport` |
| `SelfMetrics` | counters and queue gauge of the exporter itself, the minute's copy, its push | `ExportProofs` | `MCExport` |
| `Combinations` | the odometer loop over label values | `LabelProofs` | `MCLabels` |
| `MetricLabels` | label lists of a metric, expected labels, the joined label values | `LabelProofs` | `MCLabels` |
| `ConfigFile` | key file and encrypted configuration across starts that are cut off | `ConfigurationProofs` | `MCConfiguration` |
| `Configuration` | environment, validation and hidden fields: what a start that succeeds has | `ConfigurationProofs` | `MCConfiguration` |

`MCEvaluation`, `MCRows`, `MCPush`, `MCExport`, `MCLabels` and `MCConfiguration`
put components of one stage side by side: a variable (`operation` or `part`)
chooses in the initial state which of them runs, the variables of the others
keep a value they start with. What a property of one component says is thus
checked in all its behaviours, and the number of runs stays that of the questions.
Six small modules hold the instances of the other components, for the runs and the
proofs alike: `Rows` (`ResponseTables`, `Enrichment` and `UriScore`), `Evaluations`
(`DurationEvaluation`, `CountEvaluation` and `ValueEvaluation`), `Labelling`
(`Combinations` and `MetricLabels`), `PushContents` (`RemoteWrite` and `MetricState`),
`ExportPaths` (`Registry` and `SelfMetrics`) and `Startup` (`ConfigFile` and `Configuration`).
Where two components have a variable in common (`metric` and `workers` of the
count and the value evaluation, the rows of a table and of an enricher) it is
the same variable in the code's sense too.

How they compose: `Recovery` gives the window numbers of `Pipeline` their meaning
(its stage sequence stands for `Pipeline`'s stages). The step `DSQueryOk` of
`Pipeline` yields a table of `ResponseTables`; the step `EVUpdate` is opened by
`Enrichment`, then the three evaluations, then `MetricState` and `Registry`, in
the order in which the code runs them, within one window and one goroutine per
query; the steps of the push goroutine are opened by `RemoteWrite`.
`CountEvaluation`, `ValueEvaluation` and `Enrichment` extend `Partition`.
`Configuration` starts where `ConfigFile` leaves a readable document, and
`MetricLabels` takes the metrics of an accepted one.

## 3. The models

### Pipeline

A window is a positive number: `1..HistorySize(q)` are the missed windows, the
next numbers are the ticks of the cron after the job was registered. The rows
and the metric families of a window are abstracted to the window; whether its
rows were really fetched is kept in `blind`.

| variable | code |
|---|---|
| `sched`, `hist` | the goroutine of `generateHistoryTimestamps` and what its loop has yet to send; `closed` is the channel closed by `CloseChan` |
| `tick`, `jobs` | the croniter and its running jobs |
| `gts`, `gd`, `gm` | the buffers of the three channels |
| `ds`, `ev`, `pu` | the goroutines: `get`/`wait` at the receive, `query`/`sleep`/`put` in `execute...Query` and `GDQueue.Put`, `update`/`gather`/`put` in the evaluator, `send`/`sleep` in the push loop, `panic` between recover and restart, `done` after a closed channel |
| `pu[q].body` | the unread part of the `bytes.Buffer` the Victoria loop pushes |
| `remote` | what the push target stores |
| `accepted`, `refused`, `blind`, `evaluated`, `unreported`, `lost`, `panics` | history variables for the properties |

Channels follow Go: `Room` is true when the buffer has room or the receiver is
parked, so capacity 0 is a handoff and a buffered channel hands one element more
to a parked receiver. `wait` is entered only when the channel was found empty.

Each action is one step of a goroutine between two points where another
goroutine can interfere (a channel operation, an HTTP call, a sleep). Enriching
the rows and folding them into the metrics is one step, for a query's evaluator
is alone in changing that query's metrics; other modules open it. Copying the metric
families is a step of its own (`EVGather`), and only there it is decided that there
is nothing to push (`EVSkip`, `len(metricFamilies) > 0`): an evaluator in
`GMQueue.Put` comes out of it by sending and in no other way, so that a pusher that is
dead, or never started again after a panic, stops the query. An HTTP
call has these outcomes: success; an error before or after the body was read;
the request carried out and its reply lost. A panic is possible wherever a stage
handles data from outside; the recover, the pause and the new goroutine are two
steps. A pull export has no GM queue and no push goroutine; with both exports
the pipeline is the one of the push export.

A body that is pushed again stores nothing new: its samples carry the
timestamp of their window. This holds with timestamps on, the default
(`-disable-timestamp` is off).

### Recovery
Time is counted in small units, so that lag, time range and interval differ by less
than an interval; a window is the start of its range. `boot` is the goroutine of
`generateHistoryTimestamps` (load, nearest tick, send, done), `cronOn` the end of
`main`; `stored` and `samples` are the monitoring system. A crash (also an
`os.Exit` on a signal, or a panic in a worker goroutine of the evaluation, which
no recover covers) takes everything but those two. History variables name the
reason for every window that is missing: cut from the history by look-back or
queue size (`cut`), no last timestamp to load, raced by the clock, overtaken by a newer
sample before the crash, refused by the queue.

### The evaluations
Rows carry only what the evaluation tells apart: the outcome of the conditions, the
id, the ordered label values, the number. A worker handles one row at a time,
test and entry of the shared id-field cache being one step (it is one locked call);
maps arrive in any order. `metric` is the configured metric (threads, strategy,
buckets, the rows it may get), chosen at the start. The references are
sequential: `CountMerged` and `ValueMerged` compare the merged map with one pass
over the rows. In `ValueEvaluation` a
worker's sort of the configured bucket list is split into its swaps when the list is not
sorted yet. In `DurationEvaluation` the whole evaluation of an answer is a step,
because one goroutine does it under the lock; what varies is in which answers, and
in which order, a call's request and response are received. Times are left
out there: a duration is the difference of two record times, and nothing
branches on it.

`Enrichment` keeps for every value the record it comes from and what was done to
it, which is what the property asks. Its reference, `ColumnsAfter`, enriches one record after the
other: the columns that a record has after e enrichers are those it had before and, if the
enricher is usable, one more for every destination field, with the value the user guide
describes (`Described`). The run thus compares the goroutines, which find their source by
its place in the heading, with a table that knows only names. `UriScore` and `Combinations` are
the loops of `utils.go`, a step per character and per wheel.

### MetricState and Registry
`MetricState` has one action per window and one collector entry per series; its `metric`
is the configured metric, and the state
keys keep the code's difference between expected series (keyed by names and
values) and met series (keyed by values). `Registry` looks inside the window:
lock, one metric after the other, buckets before count, unlock, copy. The metric
is a histogram of one series because only there do two numbers have to agree.

### SelfMetrics, RemoteWrite
`setting` is what the configuration says of the push (capacity, retry, timestamps).
One counter stands for all series of self metrics: they have their own locks and no
step touches two. A copy carries a ghost, the counter at the time of its
stamp. Fire starts one job at a time unless `Jobs` has more than one member; the
copy is made within a minute in the instances, as making it takes no lock
that is held longer than a read. The last moment of the clock stands for all later
ones. Between its clock reading and the end of its conversion a push in
`RemoteWrite` has a step per series, and another goroutine may store its time
between any two.

### ResponseTables, Configuration, ConfigFile, MetricLabels
The response of a datasource is a sequence of items with partial functions
from names to values; the order of a Go map is a choice in every pass.
`ConfigFile` has a step per file operation, each of which may be the last of its
start. A configuration is a record: whether the datasource has a user, its password, the
key it is encrypted under (`NoKey` for a plain one), and whether the file has its whole
text. A write that is cut off leaves nothing of use (`Lost`), or a file that ends among its
queries and can still be parsed (`CutConfigOff`: the struct has the datasources and metrics
before the queries). The environment may have no user, and the empty password is
encrypted like any other. `taken` and `torn` observe: the password last read as plain
text, and that the last write of the configuration was cut off. `Configuration` reads documents of up
to two datasources and exports whose entries may be missing, broken or good.
`MetricLabels` takes a metric from `processHiddenFields` to the label map of a
series.

## 4. What TLC checks

Every run below passes but those in section 6. Each property of a passing run has a
mutant of the code's definitions that violates it in that run (`mutants`).

| run | instance | properties |
|---|---|---|
| `pipeline_full` | Graylog, remote write, both retries, capacities 1/0/0: 4 places and 5 windows; two windows wanted as history | `TypeOK`, `InFlightBounded`, `HistoryNeverBlocks`, `AckedPushStored` |
| `pipeline_live` | Loki, remote write, both retries, capacities 1/1/0, 3 ticks, 1 panic | `EvaluatedOnceInOrder`, `RetriesLoseNothing`, `FlowSpec`, `EveryWindowSettles` |
| `pipeline_closed` | New Relic, Victoria, no retries, one query with a negative lag and three history windows | `NoSendOnClosed`, `ClosedQueryStops` |
| `recovery` | two crashes in eight time units, interval 2, range 2, lag 1, retry counts 0 and 2 | `EveryWindowAccounted`, `LookbackSuffices`, `NothingTwice`, `StartupEnds` |
| `evaluation` | count: two workers, two ids, both strategies, cache lifetime 2, and three workers on up to four rows; value: one to three workers, sorted buckets and unsorted ones; duration: three calls, caches of 3 batches | `CountMerged`, `OnceWithinTTL`, `FreshIsCounted`, `ValueMerged`, `MeasuredInTime`, `UnansweredInTime` |
| `labels` | three labels with up to three values; metrics with up to two labels of each source and two expected items | `IndexesInRange`, `EveryCombinationOnce`, `ValueAtItsLabel`, `ExpectedIsRecorded` |
| `configuration` | three cuts, three rotations or deployments, one loss of the key file, an environment with and without a user; documents of two datasources and two exports with every combination of entries | `KeyFitsConfig`, `CanStartAgain`, `KeepsPassword`, `StartedIsCompleted`, `RunsOrNeedsOperator` |
| `rows` | two streams, three events, three facets; two enrichers that build on each other over up to four rows, and a chain of unusable ones; all path elements of up to four characters, by class, and some longer | `TableIsResponse`, `ColumnsAreSequential`, `ScoredAsDrawn` |
| `export` | two queries, three metrics, one scraper, one panic; a self queue of 2 with retries and one of 0 without, and without times | `ScrapeIsWhole`, `CopyIsOwnWindow`, `LockComesBack`, `CounterNeverFalls`, `CountArrives` |
| `push` | counters, histograms and gauges with and without labels and times, three series, three windows; a query's copy beside the self metrics, four moments | `TimesFitConversion`, `ExportedAsCounted`, `NeverAheadNorBack` |

What the properties of the path of a window say:

* `InFlightBounded`: whatever stalls, the windows in flight fit the buffers and
  the hands of the stages; push-back ends at the GTS queue.
* `HistoryNeverBlocks`: the blocking history loop always has room; without the
  cap on the history it could wait for a datasource that fails for hours, with
  the query's cron job not yet registered.
* `NoSendOnClosed`: a query with a negative lag is given its history before its
  channel is closed (a negative time range is noticed earlier and has none);
  nobody is left to send to a closed channel, and the goroutine that reads it
  ends only when it is empty.
* `EvaluatedOnceInOrder`: a window is folded in at most once and in the order of
  acceptance, through retries, panics and restarts. This is the order of the
  queue: two jobs of the cron may put their windows in the opposite order of
  their ticks.
* `RetriesLoseNothing`: with both retries a window is lost, or evaluated without
  rows, only by a panic, one window each.
* `AckedPushStored`: when the push loop goes on to the next snapshot under
  `push-retry`, the target holds the one it had in hand.
* `FlowSpec`: the pipeline is an implementation of `WindowFlow`, with in-flight
  windows read from the pusher back to the GTS queue.
* `EveryWindowSettles`: a window that was accepted is pushed, lost to a panic, or had
  nothing to push. An evaluator in its put is released by the pusher alone, and the mutant is
  a pusher that is not started again.
* `EveryWindowAccounted`, `NothingTwice`, `LookbackSuffices`: across crashes,
  every window that came due is pushed, in flight, or missing for a named reason;
  none whose samples the monitoring system had is evaluated again; and the
  look-back alone cuts nothing if it is longer than the outage.

What the others say in a word:

* `CountMerged`, `ValueMerged`: what several workers find together is what one pass over
  the rows finds, in every interleaving and order of arrival; `CountMerged` makes no claim
  about an id field in the first column of an answer (section 6). `evaluation` checks
  deadlock too: an evaluation that does not get one map per worker would stop there.
* `OnceWithinTTL`, `FreshIsCounted`: the id-field cache counts an id once while it is
  remembered, and again when it was absent for twice its lifetime.
* `MeasuredInTime`, `UnansweredInTime`: a call is measured when its response comes
  while the cache has the request, in any order of the two, and else counted
  as unanswered exactly once.
* `ExportedAsCounted`: as long as the client library takes all label values, counters
  have counted every record of every window, all series carry the end of the
  last window, and gauges show the last answer or their default.
  `NeverAheadNorBack` is what is left of it when an update panics half-way.
* `ScrapeIsWhole`, `CopyIsOwnWindow`, `LockComesBack`: what leaves the registry is the
  state of one moment, in which nobody had the write lock, and a panic under the lock stops
  nobody else. Such a moment is between two windows unless an update panicked: the deferred
  unlock then shows the scrapes a half-updated window.
* `CounterNeverFalls`, `CountArrives`: through lost copies, lost replies and panics the
  self counter at the target grows with its time stamps and gets everything at last.
* `TimesFitConversion`: the unlocked time field of the remote-write service hands
  over times of other goroutines, but none older than what was under way.
* `TableIsResponse`, `ColumnsAreSequential`, `ScoredAsDrawn`: rows say what the response
  said, and enrichers append what they would append one row after the other.
* `IndexesInRange`, `EveryCombinationOnce`, `ValueAtItsLabel`, `ExpectedIsRecorded`:
  label values are read at indexes that exist, and stand at their labels for every
  order in which Go goes through the configuration's maps; the series made for expected
  labels are series that records can have. Which items are dropped is not claimed (section 6).
* `KeyFitsConfig`, `CanStartAgain`: wherever starts are cut off, the key fits what is
  encrypted, and an exporter that runs has left a file it can be started with again, a whole
  one unless a write of it was cut off before.
* `KeepsPassword`: an exporter that runs logs in with the password that a start last read as
  plain text, from the environment or the file. This is not the password that the
  operator gave last: what is rotated in the environment is not read once the file has a user
  (section 6).
* `RunsOrNeedsOperator`: the exporter comes back with its whole configuration after every
  cut but one within a write. A cut between the truncation and the end of the write is
  excepted (`torn`), for there the code has no protection: the file is lost, or has some of the
  queries, until the operator writes it again.
* `StartedIsCompleted`: the environment completes one datasource and one export and stops; as the
  validation lets no second one start, neither the datasource nor an export written as
  push is passed over, in whatever order the maps are gone through. An export
  without a strategy is not covered (section 6). The check has called the document able.

**Bounds.** Queries are independent in what `Pipeline` models, so one query shows every
interleaving of its stages. Capacity 1 with one window per stage gives full, empty and
handed-over states of every channel; capacity 0 is checked for the GD, the GM
and the self channel. With two wanted windows and a capacity of 1 the history is
capped; the ticks behind it overfill the GTS queue in every order of the jobs. In
`pipeline_full` there is one window more than places in the whole pipeline.
`recovery` has room for two outages of several ticks, the second while the
history of the first is being sent, and its look-back and queue are just long
enough for the longest outage, which is when `LookbackSuffices` says something.
Two workers show every race on one cache entry or bucket list, three show a merge into
a map that is itself a merge, and up to four rows on three workers give parts
of different sizes. A cache lifetime of 2, and caches of 3 batches, have entries
that are new, old and gone at the same time. Three cuts reach every pair of
half-written files, and a cut of the repair after them. In `export` two copies fill the self queue while a third is
pushed; three events (answers, scrapes, panics) let the update of one
query fall between the unlock and the copy of the other, or a panic into an
update with a scrape waiting. The clock of `RemoteWrite` has four moments, two more
than the goroutines that can hold a reading. Bounds that the code does not have
are named `Max...` and are constants; where an instance comes to rest when they are
reached, the configuration says `CHECK_DEADLOCK FALSE`.

**Fairness.** Goroutines that can run do run: weak fairness of each goroutine's steps
(the Go scheduler is preemptive). A retry loop ends only if the datasource or
the target answers at last, so `DSQueryOk`, `PUAck` and `Accept` are strongly
fair: HTTP clients have timeouts, an attempt always ends, and what is asked again and
again is answered at some time. A target that refuses a snapshot for ever
breaks this assumption; the code then retries that snapshot for ever and the query
stands still. The registry lock is granted in turn by Go's `RWMutex`: strong
fairness of `Lock` and of the readers. `SelfMetrics` assumes that the cron fires (weak
fairness of `Fire`), and `ConfigFile` that the exporter is started again
(Kubernetes). Nothing makes the clock of `Pipeline` or `Recovery` tick, a call
fail, or a process crash.

## 5. What is proved

By TLAPS, for every value of the constants that the named assumptions allow.

`PipelineProofs`: any set of queries, any capacities, modes and bounds
(`SizesAssumption`, `ModeAssumption`).

* `TypeCorrect == Spec => []TypeOK`, one lemma per goroutine, one step per
  action.
* `Bounded`, `HistoryFits`, `ClosedIsQuiet`: `InFlightBounded`,
  `HistoryNeverBlocks` and `NoSendOnClosed`.

None of the last three is inductive. `BoundInv` is: a buffer exceeds its capacity by at
most the element handed to a parked receiver (`BuffersFit`), and a parked
receiver holds no window, so that a stage and its input never exceed capacity
plus one (`SectionsFit`); while the history is sent nothing else feeds the GTS
channel and what is left of it fits the room there (`SchedulerPhase`), which
rests on the cap; jobs exist only between registration and never after a close;
without a push export nothing reaches the GM queue (`PullStopsAtMetrics`). As
a step moves one query, the others are dealt with once (`OthersUnchanged`).

Its second part says what becomes of the windows.

* `FoldedInOrder`, of `EvaluatedOnceInOrder`: the invariant `OrderInv` lays out the
  windows evaluated, and those of every buffer and hand before the metrics, as one
  sequence (`Chain`) that follows the accepted ones in their order, with gaps where a
  panic lost one. `Fresh` is why no window is accepted twice: what is still to be sent
  was never accepted, and the number of the next tick is new.
* `RetriesSave`, of `RetriesLoseNothing`, for exports other than Victoria and datasources other
  than New Relic: Victoria's retry loses the snapshot without a panic (section 6), New
  Relic's service gives the evaluation an answer it could not decode. `LossInv`
  counts lost windows against panics and needs that no push body is consumed (`BodyFull`).
* `RemoteWriteAckedStored`, of `AckedPushStored`: remote write encodes each attempt anew, so that
  `BodyFull` is invariant. It is the other half of the finding `victoria_retry`.

Its third part is the refinement, `PipelineImplementsFlow == Spec => FlowSpec`: the
windows in flight are one line through the stages (`Line`); a step of a goroutine leaves
it alone (`Still`), appends to it (`Entered`), takes its first window away to the target
(`Shipped`), takes one out of it (`Dropped`), or refuses a new one (`TurnedAway`). `FlowInv`
is what a step needs to be one of `WindowFlow`: delivered and in flight are distinct and
never among the windows that are gone, and what the scheduler still has is none of
them. The bound of `Enter` is the invariant `InFlightBounded` of the first part.

`RecoveryProofs`: any interval, lag, look-back, capacity, retry count and number of crashes,
which may fall between any two steps.

* `OnlyDueWindows`: no window is scheduled before it came due.
* `EvaluatedOnce`, of `NothingTwice`, for windows that have a length.
* `EveryWindowHasAFate`, of `EveryWindowAccounted`, for windows that do not overlap
  (`Timerange <= Interval`).
* `AmpleLosesNothing`, of `LookbackSuffices`.

The two hypotheses are what the code needs, section 6 says what happens without them.
All windows lie on the grid of the cron's ticks, which is why a history that
counts back from the next tick meets the windows of before the crash. `Core` says
where windows can be and that the last timestamp in use is the end of the newest sample,
`Apart` that no two queues share a window. `Accounted` has a bound that moves
with the start: all windows up to the next tick have a fate once the history is
computed (`Upcoming`), those up to now while the cron fires (`Running`), those up to the
newest sample while the exporter is down or starts (`Behind`). The steps that are hard
are the one that computes the history, and the one that registers the job after
the tick it was computed for has passed.

`ExportProofs`, the registries: any number of queries, metrics, scrapes and panics, under
`NamesAssumption` (no metric belongs to two queries).

* `ScrapesAreWhole`, of `ScrapeIsWhole`, and `CopiesAreOwn`, of `CopyIsOwnWindow`. Both rest on
  who may change a metric: only a query that holds the write lock, and only a metric
  it has still to update (`Owners`, with `Fed` for the windows a metric has). A scrape
  reads from metrics that stand still because it keeps the writers out (`Scrapes`);
  the copy of a query is made without the lock, but nobody else changes what it reads
  (`Copies`). These say of a reading that is half done that everything read, and
  everything not yet read, is of the same window.

`EvaluationProofs`, durations: any number of calls, caches of any size above 0
(`SizesAssumption`), the updater of a shared cache first or last.

* `MeasuredJustInTime`, of `MeasuredInTime`, and `UnansweredJustInTime`, of
  `UnansweredInTime`. Nothing but the age of a request decides: one of age i - 1 is in
  batch i of a cache and in no other one (`RequestTimes`, `Requests`), until it is too old
  for the last batch.

`EvaluationProofs`, the id-field cache:

* `CountsOnceWithinTTL` and `CountsWhenForgotten`, of `OnceWithinTTL` and `FreshIsCounted`,
  action properties, for any number of workers that ask in any order: the two
  halves of the cache hold exactly the keys seen since the last shift and in one period
  more (`Kept`), and no key was counted later than it was seen (`SeenWhenCounted`). The only
  hypothesis is that `id-field-ttl` is a number (`TTLIsNumber`).

`EvaluationProofs`, the maps of the goroutines of a metric: any number of goroutines, rows,
ordered label values and buckets, in every interleaving and order of arrival.

* `CountsAsSequential`, of `CountMerged`. At every moment the maps are the counts of a set
  of places (a place is a label value of a row) that are behind the goroutines
  (`CountedAs`). Which set depends on the strategy: all places that were passed; one for
  each key that was passed and was not in the cache before the answer (`KeysOnce`); all
  places passed of one row for each such id (`IdsOnce`). The set is chosen anew after each step, so the
  invariant has it under a quantifier. A goroutine passes one place at a time, and no place
  of another goroutine's part (`StepOf`, `RowsPartition`). When all maps have arrived, every goroutine is
  through, so all places have been passed (`AllPassed`), and the sum of the maps is the
  count of the set (`MergedFact`), which is one of those the reference allows
  (`OccurrencesFact`, `FreshKeys`, `FreshIds`).
* `ValuesAsSequential`, of `ValueMerged`. A map holds sum, count and buckets of the values
  in the goroutine's rows before its position (`ValueOf`, `MapOf`), and the maps of disjoint
  rows are added (`MapAdd`, `MapsMerged`). A value is counted once into each of its
  buckets only if every bound is once in the list that the goroutine finds (`Whole`). The hypothesis
  `BoundsInOrder` says when that is so: no bound of a histogram is configured twice (of a
  duplicate `config/validator.go:268` only warns, and the bucket counts every value
  twice), and the bounds are in order or the metric has one thread. In order, no sort stores
  anything; with one goroutine a bound is missing only between the two stores of a swap, when no
  row is counted (`ListKept`, `SortedBy`). The run `evaluation` has metrics of both kinds, and
  `value_race` one that is of neither.
* `HistogramKeepsBuckets`: under the same hypothesis no bound is ever lost, the opposite of what
  `value_race` finds without it.

The references are a sum and sizes of sets; `SetInduction` stands for the
induction over running totals and over the merge (`RunningTotals`, `MergedFact`).

`RowsProofs`:

* `EveryRowOnce`: for any number of rows and threads every row is in the part of exactly
  one thread. The argument is that of integer division around a product; the
  parts follow each other without a gap or an overlap.
* `ColumnsAsDescribed`, of `ColumnsAreSequential`: any chain of enrichers, of any number of
  goroutines each, on answers of any length. `QueriesAssumption` asks what the user
  guide asks, that a field name is used once in a query, and leaves out
  enricher entries without destination fields. The heading is a repetition-free list of the
  columns of the enrichers that are through, followed by those of the one in work
  (`HeadingInv`), so that a column has one place and the place of the source is that of an
  older column (`SourceInv`). A goroutine owns its part of the rows (`EveryRowOnce`): the rows of
  its part that it is through with have all columns, those ahead of it none of the new ones,
  and the one in its hand as many as it has come to (`WorkerInv`); what a row has is what
  `ColumnsAfter` has for its record under the name in the heading (`RowsInv`). That the
  recursive function `ColumnsAfter` exists is an induction over the enrichers, which the
  prover does once the induction is about a set instead of an operator (`SetInduction`).
* `TablesAreResponses`, of `TableIsResponse`: responses of any length, with streams, events and
  facets of any labels and values, and the maps gone through in any order. The heading
  is a list without repetition that begins as configured and has every label of the items
  the first pass is through with (`HeadingFits`, `HeadingBegins`, `LabelsCovered`), so that `columns`
  is its inverse and a value has one place; the rows are, one by one, those of the
  records of the items the second pass is through with (`RowsMade`). Hypotheses
  (`AllResponses`): no name twice in `fields_in_order` or among the facet's attributes, none of
  which is the result, and facet names of the length of these.
* `ScoresAsDrawn`, of `ScoredAsDrawn`: path elements of any length and any limit. While an
  element is read, its points are those drawn up to the last character (`PointsFit`), the
  state is the class of that character, and the counter of digits says whether there was
  one. The only hypothesis is that elements are finite (`PathElements`).
  `RecursionExists` is the lemma that lets all these proofs read a recursive function step by
  step: what is defined by a first value and a step from each value to the next exists.

`LabelProofs`:

* `NeverOutOfRange` and `AllCombinationsOnce`: for any number of labels with any number
  of values the loop of `Combinations` reads its lists only where they have a value, and
  has made every combination once when it ends. The invariant orders combinations like
  an odometer (the last wheel that differs decides): made are exactly those before the
  current one.
* `ValuesAtTheirLabels`, of `ValueAtItsLabel`, and `ExpectedAreRecorded`, of
  `ExpectedIsRecorded`: for any metric, and any order of its label-field-map. A value finds its label by its
  place, so the invariant is about places (`Places`): the labels with a field of their own
  come first, those of the multi-value fields last and in the order of the fields,
  which holds because they wait until the map has been gone through. The hypothesis
  (`WellFormed`) is that no label is configured twice, and that multi-value fields are
  in count metrics only, with labels of their own next to another label; section 6 has
  the reason.

`ConfigurationProofs`:

* `KeyAlwaysFits`, `AlwaysStartsAgain` and `AlwaysKeepsPassword`: wherever starts are
  cut off and however often, an encrypted configuration goes with the key on disk, an
  exporter that runs can be started again with what is on disk, and it logs in with the
  password that a start last read as plain text, all unless the key file was lost (section 6
  says what happens then, and that this need not be the password the environment has). The
  invariant says of every step of a start what it has read and what it already wrote;
  `Restartable` adds that the configuration on disk is only lost between the two halves
  of its write. Where the file has no user its password may be an old one (`Passed`): the
  next start does not look at it.
* `StartsAreCompleted`, of `StartedIsCompleted`: for every document of finite maps with entries of
  any content, some of them empty, and any order in which Go goes through the maps. The start
  changes the entries between the check and its own validation, but only their users
  (`Kept`), so both judge alike (`Judged`); the datasource that was looked at first has its user
  (`FirstEnriched`), and so has an export written as push once the loop that stops at it has
  ended (`PushEnriched`). The validation counts these exports after that and lets one start
  (`Shape`), so it is the only one there was to complete.

`PushProofs`:

* `NoStaleTime`, of `TimesFitConversion`: for any number of push goroutines that store their
  clocks in one field without a lock, a sample's time is that of its metric, or not older
  than the oldest clock still to be stored when its conversion began. The invariant: that
  floor is below every clock still to be stored, and below the field from the moment the
  conversion has stored its own.
* `EveryRecordExported`, of `ExportedAsCounted`, and `NeverTwiceNorBack`, of
  `NeverAheadNorBack`: any metrics, series and windows, and for the second also series that
  are refused and updates that panic. The collectors are complete because the metric
  state never forgets: it has a key for every series that was initialized or
  met (`Known`), and what has a key is updated in every window, with a record or
  without. A value is never ahead of what was counted (`NotAhead`), also after a panic.
  An init-value is a number or NaN and expected series are series of the metric
  (`AllConfigured`); the first theorem needs in addition that no gauge has expected labels
  (`GaugeExpectsNone`, section 6).

`ExportProofs`, the self metrics:

* `CounterOnlyGrows`, of `CounterNeverFalls`: any queue capacity, with and without
  retries, copies that are lost and any number of panics. Copies are made in the order
  of time and keep it: those in the queue among each other (`Queued`), the one that is held
  before them (`Held`), the one at the target before all of these and before the one
  that is being made (`Passed`). The hypothesis is one job at a time (`OneJob`): the cron
  starts it once a minute, and it would have to take longer than this to meet itself.

## 6. Findings

Two runs expect a violation and show where the code disagrees with its
documentation. `PROJECT.json` quotes the lines.

| run | the code |
|---|---|
| `victoria_retry` | the Victoria push loop gives one `bytes.Buffer` to every attempt: after an attempt that was sent the retry posts an empty body, the target accepts it and the snapshot is lost |
| `value_race` | workers sort the configured bucket list in place at the same time and can lose a bucket (`evaluator/metricevaluationresult.go:59`) |

Other disagreements were met while modelling. The models do what the code does,
and the properties are stated so that they hold beside them; no run is spent on them:

* `queues/gtsqueue.go:84`: a retry count of 0 skips the request for the last timestamp
  and evaluates the longest history; the user guide promises a start without history.
  `NothingTwice` is about retry counts above 0.
* `evaluator/evaluatecount.go:176`: an id field in column 0 of the answer is found
  (`:104`, `>= 0`) but not tested (`idFieldIndex > 0`), and its records always count; the user
  guide (`docs/user-guide.md:154`) promises that they count once. The model does as the code
  does (`Strategy`), `CountMerged` and the instance of `evaluation` leave such a metric
  out; `evaluatecount.go:58`: a count metric without labels counts the rows of the
  answer and ignores its conditions. `CountEvaluation` is about metrics with labels.
* `evaluator/evaluateduration.go:314`: a metric behind the updater of a shared cache
  sees one batch less than configured; the instance of `evaluation` evaluates the updater
  last.
* `evaluator/evaluator.go:124`: a gauge with expected labels shows its default
  instead of the answer, as the key of an expected series is made otherwise than that of
  a met one; the gauges of `push` have none.
* `processors/metricsevaluator.go:188`: a counter with `init-value` NaN stays NaN;
  the instance starts from a number.
* `collectors/counter.go:71`: a series that the client library refuses is
  remembered before it is refused, and every later window panics over it.
* `collectors/histogram.go:118`: a histogram of the self metrics is written out from
  a map that is being changed.
* `evaluator/enrichers/enricher.go:179`: `regex_matched` counts a row once for every
  destination field.
* `utils/utils.go:232`: a path element that begins with a delimiter gets a point more
  than drawn; `ScoredAsDrawn` is about the other elements.
* `config/config.go:311`: where the file has a user, the environment is not read, and the
  file has one as soon as a start encrypted the password and wrote the user it had from the
  environment with it: a password that is rotated in the environment only is ignored from then
  on (`README.md:63`: "Environment variables override secrets"). `KeepsPassword` is about the
  password that was read. `config.go:763`: a lost key file
  is refused once; the second start takes the fresh key for the old one and has no
  password. `KeepsPassword` is about starts whose key was not lost.
* `queues/gtsqueue.go:117`: the history begins at the end of the newest sample. With a
  time range longer than the interval, windows overlap, and those that begin before that
  end and were not scheduled before a crash are not in the history; with a time
  range of 0 the newest window is in it again. `EveryWindowHasAFate` and `EvaluatedOnce`
  have these as hypotheses.
* `evaluator/durationstructs.go:216`: a cache of size 0 is accepted by the start-up check and
  panics at its first update; the user guide (`docs/user-guide.md:211`) calls the
  size required. `SizesAssumption` of `DurationEvaluation` excludes it.
* `config/config.go:355`: an export without a strategy gets no user from the
  environment, as only the validation after it makes it push (`docs/user-guide.md:119`: the
  default). The documents of `configuration` have such exports, `StartedIsCompleted` claims
  nothing about them. `config.go:668`: the option `-check-config` accepts an empty entry on
  which the start panics.
* `config/config.go:675`: a label that is also a multi-value label is read from the
  wrong field; a metric with only multi-value labels counts under an empty value. The
  metrics of `labels` have neither. `config.go:915`: an expected item has to name all labels of
  the metric, those of `label-field-map` and of the multi-value fields included; the user guide
  (`docs/user-guide.md:153`) counts those of `labels` only, and the warnings of the check
  (`validator.go:358`) count still otherwise. Metrics of `labels` have items that the guide
  accepts and the code drops: `ExpectedIsRecorded` says nothing about what is dropped, only that
  what is kept can be met.
* `docs/user-guide.md:145`: for counters and gauges the operations `duration` and `value` give
  an average; amounts are records in `MetricState`, and the division that makes the average of
  them is not modelled.
* `queues/gmqueue.go:67`: `queue_size` is set from a length read before; it can stay
  at 1 with an empty queue.

## 7. What is only checked, and what is not modelled

Liveness (`EveryWindowSettles`, `ClosedQueryStops`,
`StartupEnds`, `LockComesBack`, `CountArrives`, `RunsOrNeedsOperator`) needs fairness and
`ENABLED` and stays with TLC. Every safety property that a passing run checks has a
theorem. The induction theorems of the library cannot be used in the proofs, as they
take an operator; `SetInduction` of `RowsProofs` and `EvaluationProofs` takes a set
and serves in their place. Types
are an invariant of the runs where a proof names them (`Pipeline`); the types of the
other modules with proofs are part of their inductive invariants. A pull export is covered
by the theorems of `PipelineProofs`, which hold for every mode, and by no run.

Abstractions a reader should know of:

* `Pipeline`: a body that is pushed again stores nothing new, as its samples carry the
  timestamp of their window (`-disable-timestamp` off, the default).
* `Registry` assumes that no metric belongs to two queries (`NamesAssumption`; the start-up
  check warns of undefined behaviour then, `config/validator.go:247`), `Combinations` that an
  expected item has a label, `ResponseTables` that the names of a facet
  have the length of its attributes and that `fields_in_order` has no duplicate, of which the
  start-up check warns. The hazards of `PROJECT.json` say what the code does
  otherwise. A Loki window of more than 5000 lines is cut by the request, and
  nothing in the answer says so.
* `MetricLabels` assumes that all fields are in the heading and no label is configured
  twice. Label values are opaque: one that contains the separator `;` is not modelled.
* `ConfigFile`: encryption fails only if no random numbers are to be had; writing
  a ciphertext to YAML and reading it back is the identity on `!!binary`; user and password are
  both in the environment or both absent; a configuration that was cut off before its
  queries is refused by the validation and counts as lost; the first 32 of the 44 characters of
  a key, which decode to a shorter key, count as a cut key.
* `Configuration` leaves out YAML errors, the TLS files, and the warnings that
  refuse nothing. Numeric and duration defaults are constants of the models that use
  them.
* Sums are over integers; floating-point rounding depends on the order of the workers.
* `SelfMetrics`: a copy takes less than a minute, so that the cron never runs two jobs
  at a time; with two, an older copy could be queued behind a newer one.

Not modelled: building requests and the transport of HTTP, decoding JSON and CSV,
New Relic's single unique count, the formatting of metrics as text, the
Consul checker (it polls one key and sets the log level), the Graylog emulator (a
test double that is off by default), logging, version and probe.
