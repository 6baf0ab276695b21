# A TLA+ model of log-forwarder

log-forwarder tails log files, turns lines into records, publishes the records to a
sink (file, HTTP, Kafka) and remembers per file how far it has got, so that a restart
resumes there. Its promise is **at-least-once delivery**: a line at or before the stored
watermark has been delivered, spilled to a dead letter file, or deliberately discarded.
This directory models the parts of the program that keep, or could break, that promise.
Each module is translated from the Go source; `PROJECT.json` maps every definition to
the lines it stands for.

## 1. Inventory

| Part | State it keeps | Operations | Hard because |
|---|---|---|---|
| watermark store (`internal/state`) | map path → (offset, inode), `dirty`, `updatesSinceFlush`; the file and its `.tmp` | `NewStore`, `Get`, `Set`, `Flush`, `RunPeriodicFlush`, `persistLocked` | crash between system calls, failing calls, several callers, corrupt file |
| watcher (`internal/watcher`) | per path: open file, inode, offset | `Run`, `scan`, `tailFile`, `readNewLines`, `sendLineEvent` | rotation races, half-written lines, full channel, cancel |
| parser (`internal/parser`) | per path: the open multiline record | `Feed`, `Flush` | a record spans events; flushed by idle timer and at shutdown |
| pipeline (`internal/pipeline`) | parser, active buffer, `flushRunning`, `flushErr`, `hibernating`, `hibernateBatch`, `hibernateWakeRunning`, `consecutiveDLQ` | `Run`, `process`, `enqueue`, `triggerFlush`, `syncFlush`, `flushItems`, wake loop, dead letters, `shutdown` | three goroutines in `flushItems`, retries, cancel, one mutex held across a wait |
| process (`cmd/log-forwarder`, `internal/runner`) | contexts, error channel, deferred calls | start, signal, `Wait`, exit | `os.Exit` skips deferred calls, order of shutdown |
| dead letter files (`internal/deadletter`) | `.jsonl` and `.meta.json` files | `WriteBatch`, `ListEntries` | two files per batch, listing while writing, ignored errors of `os.Remove` |
| record path (`transform`, `timestamp`, `filter`, `enrich`, `pipeline/truncate.go`) | the record of one event | `Transform`, `Normalize`, `Match`, `Apply`, `marshalPublishPayload` | a rune is one to six bytes in the payload; nested rules with three places for `on_missing` |
| configuration (`internal/config`) and start (`main`, constructors) | the configuration, the mux, the port | `Load`, `Validate`, the accessors, every check before `Run` | sections that are validated apart and used together |
| sinks, metrics, readiness, logging | little | | I/O, counters |

How they interact: the watcher sends `LineEvent`s through a bounded channel to the
pipeline; the pipeline calls the sink, the dead letter writer and `Store.Set`; the
watcher reads `Store.Get` when it opens a file; `main` cancels both through one context
and flushes the store last; a metrics scrape calls into the flusher's mutex.

What makes each part correct:

* store: a restart reads one whole map that was in memory, fewer than `flush_every`
  updates old; a clean store agrees with its file; a corrupt file is set aside or refused;
* watcher: a restart skips only text that was committed; nothing read is unaccounted for;
  every line of a file that stays is committed in the end; a cancel returns;
* pipeline: the watermark covers only settled lines; records keep file order unless a
  hibernation puts them aside; one flush at a time; the buffer is bounded; a cancel ends
  `Run`; a hibernation ends; a scrape is answered;
* dead letters: an acknowledged batch is whole and stays, a refused one is gone, a listing
  tells the truth;
* record path: no payload exceeds `max_publish_bytes`, a cut keeps all that fits, a filter
  decides by its rules alone, the fields to cut are tried in order, `process` returns;
* configuration: what `Validate` accepts runs, does not panic and does not tail its own files.

`hazards` in `PROJECT.json` lists, line by line, what is hard to test here, with the
properties aimed at it.

## 2. Modules

| Module | Models |
|---|---|
| `DurableWatermarks` | what the store promises: a map in memory, and a stable copy that changes to the whole map in one step |
| `WatermarkStore` | `internal/state`, one action per critical section or system call |
| `WatermarkStoreProofs` | TLAPS proofs about `WatermarkStore`, and that it implements `DurableWatermarks` |
| `Pipeline` | `internal/pipeline` and `internal/parser` for one tailed file |
| `PipelineProofs` | TLAPS proofs about the bookkeeping of `Pipeline` |
| `PipelineDeliveryProofs` | extends it: file order, nothing lost, the watermark |
| `Watcher`, `WatcherProofs` | `internal/watcher` for one path, the application that writes and rotates, a committing pipeline, restarts; and its proofs |
| `Lifecycle`, `LifecycleProofs` | `cmd/log-forwarder`, `internal/runner` and the registration with the ATC, and its proofs |
| `DeadLetterFiles`, `DeadLetterFilesProofs` | `internal/deadletter` and `GET /deadletters`, and its proofs |
| `Record`, `RecordProofs` | `Pipeline.process` on one event, from the parsed line to the payload, and its proofs |
| `Config` | `internal/config`: `Default`, accessors, `Validate` |
| `Startup`, `StartupProofs` | extends `Config`: `main` and the constructors from `loadConfig` to the first tickers, and its proofs |
| `MC...` | constants for TLC |

A definition called a *faulty variant* is a small change of the action that follows it,
as a plausible mistake in the code would make. None is part of a specification;
`mutants` in `PROJECT.json` pairs each with the property that must then fail.

### WatermarkStore

`files`, `dirty` and `updatesSinceFlush` are the fields of `Store`. `mu` is the mutex:
`free`, or the next system call its holder makes (`write`, `rename`), so `Set` and `Flush`
end where `persistLocked` makes its first call and `WriteTmp`, `WriteTmpFails`, `Rename`,
`RenameFails` are the rest. A file is the map it encodes, `Absent`, or `Corrupt`;
a partial write is `Corrupt`, because no proper prefix of the encoded object parses.
`Crash` may happen at any step, `Damage` while no process runs. `status` says which part
of `main` is running: before `NewStore`, between it and the deferred final `Flush`, or
after. `os.Exit(1)` runs no deferred call and is a `Crash` here.

### Pipeline

Line *n* ends at offset *n*, so the watermark `wm` is a line number, and a record is a
range of lines. `pc` and `k` are the place of `Run`'s goroutine and what it does after
it has waited for a flush; `job[a]` is the `flushItems` call of goroutine `a`: `main`
(per record without batching, at shutdown with it), `flush` (`runFlush`) and `wake`
(`runHibernateWakeLoop`). A step is what runs between two points where another goroutine
can interfere. `pc = "hibwait"` is `waitWhileHibernating` called by `enqueue` **with `f.mu`
held**; whatever needs `f.mu` is not enabled then. Which records a filter or a transform
drops, and which cannot be encoded, are constants (sets of first lines); payload sizes are
a constant function.

Abstractions: one file (records of different files share the buffer, but a watermark
belongs to one file); `advanceWatermarks` is one step unless one of its `Set`s fails (a
crash in its middle leaves an earlier watermark of the same batch, which is weaker); the
attempt counter is not counted when attempts are unlimited; the module ends with `Run`'s
return, and a flush or a wake retry that goes on after it is `background` in `Lifecycle`.

### Watcher

Files are inode numbers in order of creation. Every line has three bytes, two of text and
a newline, and the application may write it in pieces. `inode` (what `os.Stat` said) and
`file` (what `os.Open` gave) are separate, because the path may be rotated in between.
`Consume` stands for the whole pipeline: take an event, commit it. A scan may miss a file
whose `os.Stat` fails although it is there (`ScanGone`, `TailGone`): its tail is closed and
forgotten, and the next scan opens it again at the stored watermark, behind events that are
still in the channel. `Stops` are the bytes at which a write may end, `MaxFaults` bounds
crashes and missed scans together. Not modelled: reuse of
an inode number, truncation in place (the repository says it is unsupported), several
paths, and the counters for replayed lines.

### Lifecycle

`pc` is the place of `main`. `After` is the chain of checks at the start; each one that
fails is `os.Exit(1)`, as is an error of a goroutine in `Decide`, and none of these runs a
deferred call. When `main` returns, `ShutdownMetrics`, `Deferred`, `CloseSink`, `FinalFlush`
and `CloseLog` are the deferred calls, the last one first; the process ends after the last,
so that a goroutine left behind may still run between the final flush and the end. The
watcher and the pipeline are reduced to what they return; that a cancelled one does return
is what `CancelReturns` and `CancelStops` show in their own modules. `background` is a flush
or a wake retry that nobody waits for, `dirty` a watermark that is not on disk, `late` that
such a goroutine has moved one after the final flush. A signal kills the process before
`signal.NotifyContext` and after `stop`.

### DeadLetterFiles

`tmp`, `jsonl`, `lines` and `meta` are the directory, `wpc` the place of the one
`WriteBatch` (one flush at a time is `FlushExclusive` of `Pipeline`), `lpc` that of a
listing request, which visits the names of `ReadDir` in any order and reads each file when
it comes to it. Every system call may fail, those of a listing too: metadata that cannot be
read is passed over and the lines of the batch are counted, a batch that cannot be read
fails the request. Where the code ignores the error of `os.Remove` the file may stay; a
refused batch that stays is in `stuck`. `os.WriteFile` of the metadata is two steps, create
and write, because a listing may come between them. `lquiet` observes whether the metadata
of a committed batch was in doubt during a request, or a call of the request itself was what
failed it; no code corresponds to it. Files are what the system calls made of them: nothing
is synced by the code, so a power loss is outside the model.

### Record

One behaviour is one event through `process`: `Transform`, `Normalize`, `Filter`,
`Enrich` (one enricher a step), `Marshal`, and the loops of `marshalPublishPayload` and
`truncateStringField` turn by turn (`NextField`, `SearchStep`, `SearchEnd`). A record is a
function from field names to strings; a string is told apart by identity, case folding,
its runes, its bytes and whether it is a time. A line comes with the parts a delimiter
gives and the groups a regular expression gives. The encoder is two functions, the length
of a record and of a record with one field cut. Compounds hold field rules only (the code
lets them nest further). `out` is the outcome: `commit` (only the watermark moves),
`error` (ends `Run`), `whole` or `cut`; `Pipeline` takes these as its sets `Dropped` and
`Unmarshalable`.

### Config and Startup

A configuration is the struct as it is after the file was unmarshalled over `Default()`.
Durations are a few strings with `time.ParseDuration` as a function on those that parse;
paths are sequences of elements of `Names`, globs the set of relative paths that they match.
A watch path is joined with the pattern and globbed with it, so one with metacharacters may
be malformed or stand for other directories (`Globs`); the checks of `Config` take it
literally, as the code does. `MaxChan` is the longest buffer of a channel that `make`
accepts; `Unparsable` and `Conflicting` are the paths `http.ServeMux` cannot parse and the
pairs it does not accept together. Of credentials and an HTTP method only whether SASLprep
and `net/http` accept them is kept. `SetupAssumption` gives the fields of a configuration
their Go types and says that what a glob matches is a file, with a name (`scan` passes over
directories); the forwarder's own dead letters are the files directly in the dead letter
directory. `Startup` takes one configuration through `main`: each step is a constructor or a
check with what it can object to, `OutsideFails` is an error from the outside (file, port,
sink, host name) at a step that asks it something, and a start ends `refused` (by
`Validate`), `failed` (later), `panicked` or `running`. Custom types (`registry.go`) and
symbolic links are left out.

## 3. Runs

| Run | Shows |
|---|---|
| `store` | all of the store, two files, `flush_every` 3 plus a ticker, all failures, crashes and damage |
| `pipe_sync` | no batching, dropped and unencodable records, retries, a cancel: at-least-once |
| `pipe_deadletter` | batching, dead letters, consecutive limit, failing dead letter and watermark writes, cancel: nothing vanishes, graceful stop, monotonic watermark |
| `pipe_hibernate` | hibernate with wake loop, scrapes, oversized and dropped records, cancel: one flush at a time, bounded buffer, `CancelStops`, `ScrapeAnswered` |
| `pipe_retry` | multiline, batching, unlimited retries: order and eventual delivery |
| `watch` | either `on_full` policy, half-written lines, rotation, failing stats, opens and reads, cancel, crash; safety and liveness |
| `lifecycle` | start, registration, errors, two signals, deferred calls: order of the shutdown, exit status, final flush |
| `dlq_files` | three batches of two payloads, two failing system calls of a write or a listing, one crash, listings at any moment |
| `record` | one event, four shapes of transform, nine filters, enrichers in order, five limits |
| `config` | every configuration of which at most two sections are unusual, with an error from the outside at any step |
| `pipe_hibernate_loss`, `pipe_wake` | the code disagrees with the repository's documentation (section 5) |

The properties of the store, the pipeline, the watcher, the process, the dead letters, the
record and the start:

* `BoundedLoss`, `CorruptIsArchived`, `EventuallyPersisted`, and `AbstractSpec`
  (refinement of `DurableWatermarks` with `mem <- files` and `stable <-` what the next
  process would load);
* `WatermarkCovers`, `NothingVanishes`, `GracefulStop` (for behaviours in which no dead
  letter write failed), `WatermarkMonotonic`, `InOrder`, `FlushExclusive`,
  `BufferBounded`, `EventuallySettled`, `ScrapeAnswered` (unless a hibernation has lost its
  wake loop), `CancelStops`, `HibernateEnds` (refuted by `pipe_wake`);
* `ResumeCovers`, `ReadAccounted`, `ChannelComplete` (no event carries a watermark past
  text that did not come with it or before it), `EventuallyCommitted`, `CancelReturns`;
* `TornDownLast`, `FlushedAtExit`, `NotLeftRegistered`, `ExitStatus`, `ProcessEnds`;
* `CommittedWhole`, `AckedKept`, `RefusedIsGone`, `ListingTrue`, `ListingFailsForCause`;
* `PayloadFits`, `CutIsLongest`, `CutInOrder`, `FilterIsDual` (a filter and the one with
  every comparison, `all`/`any` and `on_missing` turned round never agree),
  `ProcessReturns`;
* `NoSelfTail`, `PanicsForCause`, `RefusedLateForCause`, `ModelsApply` (the assumptions of
  `WatermarkStore`, `Watcher`, `Pipeline` and `Record` hold of every configuration that
  runs: here the modules meet), `ATCReachable`.

Type correctness, `CleanMeansPersisted` and `NeverCorruptsItself` of the store,
`DeregisterFirst` of the process and `LastAttemptFutile` of the record are theorems
(section 4) and have no run of their own.

**Bounds.** Pipeline: four or five lines and buffers of two bytes give a batch in flight,
a full buffer, a record in hand and one in the parser at once; two or three sink faults
exhaust the attempts of two batches, so that hibernation or the dead letter limit is
reached and left again; one fault each of the store and the dead letter writer.
Store: four updates since the last persist go beyond `flush_every` = 3 after a failed
persist. Watcher: two files of one line each, written whole or in pieces, so that up to
four events meet a channel of two, and two faults, each a crash or a scan that misses the
file, so that a tail is forgotten before or after a restart. Dead letters:
three batches let one be acknowledged, one refused and one in flight while a listing is
on its way; two faults let a failing write be followed by a failing removal. Record: a
string of five runes takes a search of three turns, one whose runes take 2, 6 and 2 bytes
makes byte and rune order differ, and the limits are such that every field in turn can,
or cannot, help. Config: each comparison of the validation relates two sections. The
synchronous mode of the store (`flush_interval: 0`) is not a run: the proofs cover
every policy.

**Fairness.** Every goroutine that can run is scheduled (weak fairness per goroutine);
tickers keep firing; sink calls return, each by its own timeout. Faults are bounded by
constants, so the sink recovers. A select with a ready case that keeps being ready takes it
in the end (strong fairness for `ctx.Done`), as Go chooses at random; a mutex that is
released again and again is handed over in the end, as Go's starvation mode does. The store
needs a disk on which writes do not fail for ever, the watcher a file that can be stated
(strong fairness of `TailSame` and `TailOther`), opened and read in the end. `Record` is one
goroutine, which runs. Nothing forces a cancel, a crash, a scrape or a fault. Deadlock is
not checked where `Run` returns and nothing is left to do.

## 4. Proofs

`WatermarkStoreProofs`, for every set of paths and entries and every policy:

* `StoreInv`: `Inv` is inductive. `BoundedLoss` and `CleanMeansPersisted` are not
  inductive alone: the strengthening says that a held mutex means there is something to
  persist, that `tmp` equals the map in memory when `os.Rename` is called, and that a
  clean store has counted no update;
* `StoreTypeCorrect`, `StoreClean`, `StoreBoundedLoss`, `StoreNeverCorrupts` follow, and
  the action property `StoreCorruptIsArchived`: a process that runs has a file that parses
  or none, so only the rename of `archiveCorruptWatermark` removes a damaged one;
* `StoreRefines`: every step of the store is a step of `DurableWatermarks` or
  leaves its variables alone, so `Spec => AbstractSpec`.

The assumptions are those of `StoreAssumption`: `flush_every` is not negative (the
configuration refuses a negative one) and the values for "absent" and "corrupt" are not
maps.

`PipelineProofs` proves the bookkeeping of `Pipeline` for every number of lines, every
parser, record sizes, batch limits, retry limit, failure policy and number of faults:

* `PipelineInv`: `Inv` is inductive. `FlushExclusive` needs that a flush starts only from
  "swap" with `flushRunning` false, and that the goroutine of Run in "flushing" is either
  the flush of the shutdown or a publish outside the flusher; `BufferBounded` needs that a
  record is in hand wherever one is appended (`CurHeld`). The attempts of a batch stay
  within `MaxAttempts` because only an attempt before the last one backs
  off, and the watermark stays inside the file because no call of `flushItems` has an
  empty batch (`JobsCarry`);
* `PipelineFlushExclusive` and `PipelineBufferBounded` follow from it, and
  `PipelineTypeCorrect`.

The lemmas group the actions by what they touch: `MainStep` for those that only move Run's
goroutine, `ParserStep`, `BufferStep`, `JobStep` for those inside `flushItems`, and
`WakeStep`. The assumptions are those of `PipelineAssumption`: what the validation of the
configuration leaves possible (`ModelsApply`), and that a payload is not empty.

`PipelineDeliveryProofs` is about the lines. A line that was taken from the channel is in
one of four places, oldest first: in flight, in the buffer, in the hand of `Run`, in the
parser.

* `PipelinePlaces` (every configuration): the places of `Run`'s goroutine. Nothing is read
  in the shutdown, whose first act is to empty the parser; a record is in hand only where
  the code comes back to it; `Run` returns nil only with an empty buffer and nothing in
  flight;
* `NextMoves` says that every step of the pipeline moves the lines in one of eight ways
  (`Unmoved`, `LetGo`, `Taken`, `ReadLine`, `Alone`, `Appended`, `HandedOver`, `Landed`), and
  the rest is proved of these, not of the forty actions;
* `PipelineOrdered` (every configuration): on the way through the buffer each place is older
  than the next and sorted (`Ordered`). A batch that hibernation put aside has left that
  way, so this is the order at the sink only where none is: `PipelineInOrder`, under
  `NoHold`, says both that `InOrder` holds and that no other batch is published;
* `PipelineDelivery`: `DeliveryInv` is inductive. Its core is `Gapless`: every line before a
  record in memory is settled or in a place ahead of it. That needs `Kept`, that a call of
  `flushItems` which goes on to the watermark has settled its batch, and `NothingHeld`;
* `PipelineNothingVanishes`, `PipelineGracefulStop`, `PipelineWatermarkCovers`,
  `PipelineWatermarkCoversRunning` and `PipelineWatermarkMonotonic` follow, the last one from
  `Ahead` as well: the watermark is behind whatever has still to move it;
* `PipelineWatermarkCoversSteady`: with unlimited retries and without a cancel, a store
  fault or a record that cannot be encoded there is never an error (`Untroubled`), and
  at-least-once holds with the multiline parser too.

The delivery theorems have hypotheses, and each of them is needed: without it the code
violates the property, as TLC shows (section 5).

| Hypothesis | Excludes | Because |
|---|---|---|
| `NoHold` | hibernation with a batch put aside: batching with `hibernate`, and limited attempts or a cancel | later batches overtake the one put aside (`pipe_hibernate_loss`) |
| `PassOver` | batching together with records that are filtered out | `process` moves the watermark past the buffer at once |
| `~Multiline` or no error | the multiline parser after an error | the shutdown publishes the parser's record behind one that was given up |
| `Spillable` (in the properties) | a dead letter write that failed | the batch is given up |

Between them `NoHold` allows no batching at all, dead letters, and unlimited retries
without a cancel: `pipe_sync`, `pipe_deadletter` and `pipe_retry` are instances of these three.

`DeadLetterFilesProofs`, for every number of batches, payloads, faults and crashes:

* `DeadLetterInv`: `Inv` is inductive. `AckedKept` and `RefusedIsGone` need that the batch
  of a running `WriteBatch` is fresh, neither acknowledged nor refused, and has its final
  name exactly between the rename and the return (`WriterInv`). `ListingTrue` needs that
  what a listing has still to visit and what it has collected cover what was acknowledged
  when it began, and `ListingFailsForCause` that in a quiet request nothing it has still to
  visit was removed (`ListerInv`);
* `DeadLetterCommittedWhole`, `DeadLetterAckedKept`, `DeadLetterRefusedIsGone`,
  `DeadLetterListingTrue`, `DeadLetterListingFails` and `DeadLetterTypeCorrect` follow.

`RecordProofs`, for every set of strings, fields, lines, filters and limits:

* `RecordInv`: `Inv` is inductive. The search needs the classic invariant (`SearchAt`):
  the last prefix below `low` fits, the first above `high` does not, and `best = low - 1`;
* `RecordTypeCorrect`, `RecordPayloadFits` and `RecordLastAttemptFutile` follow, whatever
  the encoder does;
* `RecordCutIsLongest` assumes in addition `EncoderMonotone`, that a longer prefix never
  makes a shorter payload, which `encoding/json` satisfies rune by rune: without it a
  binary search need not find the longest;
* `RecordCutInOrder` needs an invariant over the fields already tried (`OrderInv`): there is
  one order of the fields of which a first part was tried in vain and the rest is in `todo`.
  It holds for every encoder;
* `RecordFilterIsDual` is an induction-free argument along the nesting: `FieldDual`,
  `CompoundDual`, `RuleDual`.

The assumptions are those on names, values, lines and setups in `Record`; the setups are
what `Config` accepts.

`WatcherProofs`, for every number of files, lines and crashes, every capacity of the
channel and every way of writing a line in pieces:

* `WatcherInv`: `Inv` is inductive. `ResumeCovers` is about the stored watermark, which is
  what an event carried through the channel: the strengthening says of each event in the
  channel that its own text and that of the events before it complete the text its
  watermark will cover (`LinesTrue`), which holds when it is sent because of
  `ReadAccounted`. An event attributed to one inode and read from another is harmless
  because files are used in order and such an inode is never again the newest (`Files`).
  `ChannelComplete` is `LinesTrue` read at each place of the channel. It survives a tail that
  is forgotten and opened again behind its own events, which then come twice; that they
  come in the order of the file is not true of the code, and not claimed;
* `WatcherResumeCovers`, `WatcherReadAccounted`, `WatcherChannelComplete` and
  `WatcherTypeCorrect` follow.

`LifecycleProofs`, with or without the ATC and batching, for any number of signals:

* `LifecycleInv`: `Inv` is inductive. `TornDownLast` and `ExitStatus` need that the values
  received and those in `errCh` are as many as the goroutines that have returned
  (`Counted`), so that `runner.Wait` is over only when both have, and that an error is
  noted or still in `errCh` (`Noted`); the order of the phases of `main` (`Phases`) says
  what is open, registered and deregistered at each place, and `Flushed` that after the
  final flush only a goroutine that `Run` left behind can move a watermark;
* `LifecycleTornDownLast`, `LifecycleExitStatus`, `LifecycleNotLeftRegistered`,
  `LifecycleDeregisterFirst`, `LifecycleFlushedAtExit` and `LifecycleTypeCorrect` follow.

`StartupProofs`, for every set of configurations with the Go types, every working directory
and every answer of the outside:

* `StartupInv`: `StartInv` is inductive. Past `loadConfig` the configuration is one that
  `Validate` accepts (`Default()` is, which is a lemma), and the routes and the port
  are those it asks for. The steps are the sections of `Validate` against the constructor
  that uses them;
* `StartupPanicsForCause`, `StartupRefusedLate` and `StartupATCReachable` follow;
* `StartupModelsApply`: the assumptions of the other modules hold of every configuration
  that comes to run, so the theorems above are about every forwarder that starts;
* `StartupNoSelfTail`: `pathInside` and the comparison of file names in `logging.go` and
  `sink.go` are complete for watch paths without metacharacters and patterns of one element
  (`UnwatchedNotBelow`, `MatchedNotState`).

The assumptions are `SetupAssumption`, the types of the fields and that the fixed endpoints
parse and do not conflict with each other, and `ConfigAssumption`, that
the value for an absent section is not the Kafka section of `Default()`.

Model-checked only: everything under fairness (`EventuallyPersisted`, `EventuallySettled`,
`CancelStops`, `ScrapeAnswered`, `EventuallyCommitted`, `CancelReturns`, `ProcessEnds`,
`ProcessReturns`), which the prover does not do. Every safety property of a passing run is a
theorem, the delivery properties under the hypotheses above.

## 5. Where the code and the documentation disagree

Each of these is a run that TLC refutes:

* `pipe_hibernate_loss`: `swapAndStartFlushLocked` does not look at `Hibernating()` again
  after its wait; the next batch is published and the watermark passes the stalled one.
* `pipe_wake`: `runHibernateWakeLoop` clears `hibernateWakeRunning` after it has decided to
  return; a hibernation that begins in between finds the flag set and starts no loop.

The models also reach the following, by the constants given; they are not kept as runs:

* a dropped record moves the watermark past buffered ones (`Pipeline`: batching,
  `Dropped` not empty, `WatermarkCovers`);
* the error of a failed dead letter write is cleared by the next flush (`DLQFaults` > 0:
  the reason for `Spillable` in the properties);
* a record given up in hibernation, or one whose publish failed without batching, is
  followed by the parser's next record (`Multiline`, `WatermarkCovers`);
* after a signal the last batch is published with a cancelled context
  (`SinkHonoursCtx`, hibernate mode, `GracefulStop`);
* a metrics scrape waits as long as `enqueue` waits out a hibernation, which it does with
  `f.mu` held: until the wake loop's retry succeeds, and for ever if the hibernation has no
  wake loop (the exception in `ScrapeAnswered`);
* a hibernation that the dead letter limit began has no batch to retry, so `wake_enabled`
  does not end it (`HibernateEnds` with `OnFlushFailure = "dead_letter"`);
* a wake retry of an old batch may set the watermark back (`WatermarkMonotonic` with
  hibernation), which costs duplicates;
* a file whose `os.Stat` fails once is read again from the stored watermark, behind its own
  events in the channel: duplicates, and a watermark that is set back, but no gap
  (`ChannelComplete`);
* a line whose write is seen half done becomes two events, and two records (`Watcher`);
* what was appended between the last scan and a rotation is not read; the promise of
  `docs/integration-test-cases.txt:38` holds only if a scan comes in between (`Watcher`);
* an error of the pipeline after a signal ends in `os.Exit(1)` without the final flush
  (`Lifecycle`: `FlushedAtExit` with status 1), and a flush that `Run` left behind may
  move a watermark after the final flush, or use the sink after its `Close` (`late`);
* after an error the runners are cancelled before the `DELETE` to the ATC (the reason for
  `failure` in `DeregisterFirst`);
* a line whose send gave way to a cancel may be passed by the watermark (`givenUp` in
  `ResumeCovers`);
* a metadata file that a crash or a full disk left half written, next to its batch, fails
  every later `GET /deadletters` with 500 (`MetaInDoubt`); a batch whose metadata failed
  and whose removal failed too is stored again by its retry (`stuck`);
* the last attempt of `truncateStringField` can never succeed (`LastAttemptFutile`);
* `Validate` accepts, and the start then refuses: a `transform.pattern` that does not
  compile, a malformed glob (the watch path is part of it), `GSSAPI`, SCRAM credentials that
  SASLprep refuses, an HTTP method that is no token, an HTTP URL without a scheme, a connect
  timeout that is not positive, where the Kafka section of `Default()` decides for the HTTP sink too
  (`RefusedLateForCause`);
* `Validate` accepts, and the process then panics: `watch.poll` that is zero or negative, a
  `pipeline.buffer_size` beyond what `make` accepts, a metrics or readiness path that is
  `/health`, `/deadletters` or no valid pattern, or the two as patterns with wildcards that
  overlap (`PanicsForCause`);
* a watch path with metacharacters is globbed by `scan` and compared literally by
  `Validate`, so any file of the forwarder may be below what it matches; a watch pattern
  with a directory in it may match the watermark file, one with `..` any
  file of the forwarder (`NoSelfTail`); a sink file may be the watermark file itself;
* `logging.level: DEBUG` and `logging.format: JSON` pass validation, which folds case, but
  the logger compares them as they are; a batch flush interval that is negative leaves
  batching without its timer.

## 6. Not modelled, and the plan

Not modelled: what happens inside a call of a sink (files, HTTP, the Kafka client), the
instruments of `metrics` (counters that nothing reads back), readiness (an answer computed
from other parts' state, on which no state depends), the text that `logging` writes, the
YAML decoder and the registry of custom types, and `examples/`. Several tailed files at
once are not modelled: they share the publish buffer, but each has its own watermark and
parser state. A power loss that undoes an unsynced write is outside of every module.

Left to prove: how far the watermark can pass a batch that hibernation put aside (a bound
in place of `NoHold`), and the delivery theorems with filtered records in a batched
pipeline for the lines that were not in the buffer at the time. A composition of
`Watcher`, `Pipeline` and `WatermarkStore` over several files would need a common notion of
offset, which the three modules abstract differently.
