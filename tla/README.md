# My-gather in TLA+

My-gather turns a directory or archive that `pt-stalk` collected on a MySQL
host into one self-contained HTML report. Its repository holds three programs:

* the command `my-gather` (Go: `cmd/`, `parse/`, `model/`, `findings/`,
  `render/`), which reads a collection once and writes the report;
* the JavaScript inside the report (`render/assets/app-js`): the charts, which
  share one zoom, and the feedback dialog, which records and submits;
* the Cloudflare Worker (`feedback-worker/`, TypeScript) that turns feedback
  into GitHub issues.

This directory models what is hard to test in them, checks the models with TLC
on small instances and proves theorems about them with TLAPS. Paths below are
relative to the repository.

## The system

| part | source | state | operations | what is hard |
|---|---|---|---|---|
| command line run | `cmd/my-gather/main.go` | the output file, a temp file beside it, an extraction directory | guards, prepare, discover, render, install, clean up | other runs and programs at the same path, failing file operations, interrupts |
| archive input | `cmd/my-gather/archive_input.go` | extracted files, bytes written so far | one entry after the other of zip, tar, tar.gz, gz | damaged and truncated archives, unsafe names, duplicate entries, two size limits that meet |
| root search | `parse/discover_root.go` | roots found, entries counted | a depth first walk with pruning | depth and entry caps, unreadable and hidden directories |
| discovery | `parse/parse.go` | snapshots, source files and their status, diagnostics, sidecars | list, group, load sidecars, parse each file | files that vanish, a caller that cancels, errors of one file that must not hide another's data |
| parsers | `parse/*.go` | samples so far, the row or poll that is open | a line at a time | truncated and mixed files, what belongs to which poll, midnight |
| counter deltas | `parse/mysqladmin.go`, `model/mysqladmin_merge.go` | previous value per counter, columns | delta, merge of snapshots | restarts, counters that come and go, boundaries between snapshots |
| sections | `render/collection.go`, `render/concat.go`, `render/dedup.go`, `render/build_view.go` | none (pure functions) | concatenate snapshots, collapse equal variables, mark changes | snapshots that lack what others have |
| environment | `render/environment.go` | none | the newest settings, the server's uptime and start | which snapshot's clock, nil payloads |
| findings | `findings/`, `render/advisor_view.go` | none (30 rules over the report) | evaluate, relate, order, rank | thresholds, missing inputs |
| redo log sizing | `render/redo_sizing.go` | none | average and rolling peak of a rate | uneven samples, gaps, restarts |
| charts | `render/assets/app-js/00.js` - `03.js`, `05.js` | the registered charts, the common window, legends, cards with their counters, a stored layout | zoom, reset, redraw; add, duplicate, edit, remove a card | uPlot's hooks run later than the call that causes them; redraws wait for timers and frames |
| feedback dialog | `03.js`, `04.js` | form, attachments, recorder, idempotency key, requests in flight | edit, record, submit, dismiss, callbacks | callbacks that come late, in any order, onto a dialog that has moved on |
| Worker handler | `feedback-worker/src/index.ts`, `idempotency.ts`, `r2-upload.ts`, `github-app.ts` | KV records, R2 objects, GitHub issues | reserve, limit, upload, create issue, cache, clean up | concurrent handlers, eventually consistent KV, lost answers, TTLs, crashes |
| rate limiter | `feedback-worker/src/ratelimit.ts` | KV keys, promise chains per isolate | list, compare, put under a lock | races, releases, hour rollover |

They meet at two places. The dialog posts to the Worker with an idempotency
key that it keeps over retries; the Worker answers a repeated key from KV. The
Worker's handler calls the rate limiter after it has reserved the key. The
command is independent of both: it only embeds the dialog. Within it, `run`
calls in turn the preparation of the input, `parse.Discover`, which calls a
parser for every file it grouped, and `render.Render`, which builds the
sections, has `findings.Analyze` judge them, and executes the templates.

Correctness, part by part:

* **rate limiter**: the list, compare and put of one isolate's calls never
  interleave; no isolate exceeds the limit in a window of an hour; nobody waits
  for ever; the lock map does not grow.
* **Worker**: one issue per key as far as KV allows, and a list of the cases in
  which it does not; a success can be replayed; an error means there is no
  issue; attachments of failed requests are removed, those of issues stay.
* **charts**: all show the window that was zoomed to last, and so do the
  numbers of their legends; a card's chart has the counters picked for it; a
  reload brings the cards back.
* **dialog**: one recorder at a time and no microphone left on; recordings end
  up in the dialog they were made in; a retry keeps its key and a changed form
  does not; Submit always comes to an end.
* **command**: the output is a complete report or untouched; nobody's file is
  replaced without `--overwrite`; the exit code tells what happened; temporary
  files go.
* **discovery**: a collection that is returned is complete; every diagnostic is
  reported once; of each sidecar the newest usable one is taken.
* **parsers**: what they return is what the lines say, each sample at its own
  time, each socket and thread in its own poll, each delta between two readings
  of its own counter.
* **report building**: no difference of two snapshots' files is shown as an
  increment, and no tally with which a file begins; no change of a variable is hidden; the
  start of the server is the one its status told.
* **conclusions**: a missing input makes no warning; a peak is a rate that was
  observed.

## Modules

| module | models | checked by | proved in |
|---|---|---|---|
| `RateLimit` | `ratelimit.ts` | `MCRateLimit` | `RateLimitProofs` |
| `FeedbackWorker` | the Worker's handler | `MCFeedbackWorker` | `FeedbackWorkerProofs` |
| `FeedbackDialog` | the dialog | itself | `FeedbackDialogProofs` |
| `Charts` | the chart registry, `05.js`, the draw functions, the cards of `02.js` | `MCCharts` | `ChartsProofs` |
| `CliRun` | `run`, `writeAtomic`, `prepareInput` in outline | `MCCliRun` | `CliRunProofs` |
| `AtomicOutput` | what overlapping runs promise about the output path (abstract) | `MCCliRun` (refinement) | `CliRunProofs` (refinement) |
| `FileTree` | a directory tree and its paths | with `PrepareInput` | with `PrepareInputProofs` |
| `ArchiveExtract` | `extractArchive` and all below it | with `PrepareInput` | `PrepareInputProofs` |
| `RootSearch` | `FindPtStalkRoot`, `LooksLikePtStalkRoot` | with `PrepareInput` | `PrepareInputProofs` |
| `PrepareInput` | `prepareInput`, composing the two above, and its exit codes | `MCPrepareInput` | `PrepareInputProofs` |
| `LineParser` | what all parsers share: a file read line by line | with `Parsers` | with `ParserProofs` |
| `SamplerParsers` (iostat, vmstat), `TopParser` | the parser of that collector | with `Parsers` | `ParserProofs` |
| `InnodbParser` | the parser of that collector | with `Parsers` | `ParserProofs` |
| `NetstatParser` | `netstat.go` and `netstat_s.go` | with `Parsers` | `ParserProofs` |
| `ProcesslistParser` | the parser of that collector | with `Parsers` | `ParserProofs` |
| `MysqlParsers` (mysqladmin, variables) | the parser of that collector | with `Parsers` | `ParserProofs` (mysqladmin) |
| `MemoryParsers` | `meminfo.go` and `envmeminfo.go` | with `Parsers` | `ParserProofs` (`envmeminfo.go`) |
| `HostParsers` | the other sidecars: `procstat.go`, `sysctl.go`, `topheader.go`, `envhostname.go`, `dfsnapshot.go` | with `Parsers` | |
| `ObservedQueries` | `NewObservedProcesslistQuery`, `MergeAllObservedProcesslistQueries` | with `Parsers`, `Report` | with `ParserProofs` |
| `Parsers` | `runOneParser`'s choice of a parser, composing the above | `MCParsers` | |
| `Discover` | `parse.Discover`, `loadEnvSidecars`, `runParsers` | with `Report` | `ReportProofs` |
| `Payloads` | the collection as rendering reads it; `reportutil` | with `Report`, `Analysis` | with `ReportProofs` |
| `Sections` | `concat.go`, `MergeMysqladminData` | with `Report`, `Analysis` | `ReportProofs` (counters) |
| `Environment` | `environment.go` | with `Report` | `ReportProofs` (the server's start) |
| `VariablePanels` | `dedup.go` and the Variables part of `build_view.go` | with `Report` | `ReportProofs` |
| `Advisor` | package `findings`, `advisor_view.go` | with `Analysis`, `Report` | with `ReportProofs` |
| `RedoSizing` | `redo_sizing.go` | with `Analysis`, `Report` | `ReportProofs` (the peak) |
| `Analysis` | the conclusions from the evidence of a capture | `MCAnalysis` | `ReportProofs` (what is missing, the peak) |
| `Report` | `buildReport` and `buildView`, composing `Discover` with all sections | `MCReport` | `ReportProofs` |

A definition preceded by "Mutant of X" is what a plausible mistake would make
of X. No specification uses it: it shows that the property named in
`PROJECT.json` would notice the mistake.

### RateLimit

One client address; each request that is let through leaves a KV key of its
own in the bucket of its hour. `Begin` is `checkRateLimit` up to the await of
`hashIp` (the hour is read first), `Enter` is `withPrefixLock` up to `await
previous` (look up, chain and store without an await between), `Acquire` the
continuation, `ListAllows`, `ListDenies`, `PutSucceeds` and `KvThrows` the
critical section with its `finally` (`Release`). `tail` is `prefixLocks`, and
an entry of it names the call whose `pending` promise it holds. KV's `list`
returns everything the own isolate wrote and any part of what the others did
(`Visible`). `Tick`, `ExpireKey` and `KillIsolate` are the clock, the TTL and
the platform. The clock is one for Worker and KV, `Window` ticks to the hour: it
may pass the full hour at any await of a call, and a key lapses any time from
`Window` ticks after its own put on, whoever is in the middle of a call of its
bucket. `ticket` and `joined` record the order of arrival, `putAt` and
`listedAt` when a key was put and a list answered.

A call that read the clock at 10:59:59.9 is counted under hour 10 and may list at
11:00:00.2, when a key put at 10:00:00.1 is gone: such a call is let through
although `LIMIT` others of its hour were. So what holds is not "at most `LIMIT`
under an hour" but `IsolateNeverExceedsLimit`: whenever an isolate lets more through
under one hour, one of them was listed a full window after another's key was put.
Two consequences are easier to read: at most `LIMIT` in any window of the TTL's
length, and at most `LIMIT` whose list is answered within the hour
(`LimitHoldsWithinHour`).

### FeedbackWorker

One action per await of `handleFeedback`: `ReserveGet` and `ReservePut` are the
two halves of `reserveResponse`, `UploadHead` and `UploadPut` those of
`uploadAttachment`, and so on; every one of them has a variant that rejects,
and where the effect may have happened all the same, both outcomes are there.
`Refuse` and `Accept` stand for the size gate, the JSON parser and
`validatePayload`, which have no side effect. `CheckRateLimit` is the limiter
in one step, since the handler only sees its verdict. The issue a handler
creates is named after its request. `cause` and `r2failed` are history: they
record which of the unavoidable events (a race of two gets, a stale get, a
lapsed reservation, a lost answer, an uncached result, an expired record)
happened to a key, so that the properties can say that *nothing else* makes a
duplicate, and which objects R2 refused to store or to delete.

### FeedbackDialog

One action per callback. JavaScript runs a callback to its end together with
the promise reactions it makes ready, so a submission without attachments
posts in the very click, and a stop event's reaction follows `StopEvent` in a
step of its own because the code defers it with `setTimeout(finish, 0)`. The
content of the form is two version numbers (`fields`, `media`), all that the
properties need to tell contents apart. `recorder`, `recChunks` and
`recStream` name the recording they refer to. A submission goes through the
stages *finish* (an active recording), *encode* (attachments), *post* and
*read* (headers have arrived). `Granted` includes the throw of
`MediaRecorder.start()`.

### Charts

The page is one record: the registry `CHARTS`, the store's window, what each
container shows, its legend and the queue of microtasks; around it are the
cards' timers, animation frames, selections and the stored layout. A task (a
click, a timer, a frame) is an action that needs an empty queue (`AtRest`), and
`Microtask` takes the queue's head. uPlot's `setScale` is `SetScale`: the range
is noted, and one commit per chart is queued; `CommitScale` applies the range
and calls the hook `broadcastXScaleChange` if it is another one. The flag
`isBroadcasting` is set only while `setScale` is called, so it is false in every
hook and needs no variable. `Zoom` is a drag or a double click, `Redraw` a tab,
view or pill that makes a panel draw itself again, perhaps over other data
(`Extents`). A window or an extent is a model value: that two are equal or not
is all that the code asks, and whether a window has a length. A chart with one
sample is drawn with the day after it, to which uPlot widens such a range when it
builds a chart or is double-clicked; a reset sends it the range from its first
sample to its last (`FirstToLast`, `05.js:206`), which is that moment alone
(`Moment`, `Instants`). uPlot drops a range of no length on a chart with more
samples than one (`Ignores`: `setScale` in `chart.min.js` returns below a length of
1e-16), without a hook. That the samples of a chart with several are at different
times is assumed (`MomentAssumption`): collectors sample once a second. `Among` is the loop of `broadcast` that picks, of the
registered charts, those of some containers. `asked` is history.

### CliRun

Several runs with the same output path. The stages are the file operations of
`run`, `prepareInput`, `writeAtomic` and `installRenderedFile` in their order;
each may fail, `Interrupt` may come between any two, and `OtherProgram`
creates or removes the output. A file at the output path is named after the
run that wrote it, and `content` says how much of it is written. Rendering may
also panic (run `report_nil` shows an input for which it does). Nothing recovers;
the deferred calls close the temp file and remove the extraction directory, and
the program exits with the runtime's code 2. `cleanup` of `writeAtomic`, which
removes the temp file, is called where `Render`, `Sync` and `Close` return an error
and is not deferred: the temp file stays. Panics elsewhere are not modelled, as
none is known.

`AtomicOutput` says the same without stages, temp files or writers: a report is
published in one step, and what a run tells agrees with it. `CliRun` implements
it with `Output` as the refinement mapping: a run has published when its report
was installed, and has answered when it has exited.

### FileTree, ArchiveExtract, RootSearch, PrepareInput

`PrepareInput` composes the extraction of an archive and the search for the
collection: both work on the one tree (`dirs`, `content`) of `FileTree`. For
an archive the tree begins empty and is filled by `ArchiveExtract`; for a
directory it is the input.

`ArchiveExtract` handles an entry per action. What `safeArchiveTarget` makes
of a name is part of the entry (`safe`, `target`), so a path is a sequence of
clean names. Data is a number of bytes, `good` the first that cannot be read;
the limits are two small numbers. `Refusal` are the checks that need only the
entry, `Blocked` is `os.MkdirAll` meeting a file, `CanCreate` is `O_EXCL`,
`CopyLimit`, `CopyBytes` and `CopyVerdict` are
`writeExtractedFileWithLimits`. A failing file system is `DiskFails`, apart
from the failures that the archive itself causes. `Defect` says from the
archive alone what is wrong with an entry; `FirstDefectDecides` compares the
machine with it.

`RootSearch` makes one action of every callback of `filepath.WalkDir`:
`pending` holds what has been listed and not called back for, `IsNext` is the
lexical order. Permission may be withdrawn between the `os.ReadDir` of
`LooksLikePtStalkRoot` and that of `WalkDir` (second disjunct of
`VisitDirectory`); `flickered` remembers where, so that the properties can
except it. `Collections` says from the tree alone what there is to find.

### The parsers

A file is a sequence of lines, and a line is what its parser tells apart in it:
its class (a timestamp, a header, a row, a row that is cut off, anything else)
and small values. `LineParser` holds the state that all have in common:
`read`, `loc` (the parser's local variables, a record of a form of its own for
every parser), `diags` and `result`. Each iteration of a parser's loop is an
action `Line(kind, line, locals, diagnostics)`, and `End` is what follows the
loop, after the last line or after an error of the scanner (a line above
32 MiB), which may come at any time. The lines are chosen as they are read, so
that the run covers every file up to its length.

The properties compare the payload with a definition over the whole of `read`
that does not go line by line: which poll a row belongs to, which counter a
delta is between, how many reports an iostat file has. Where the code is only
right for files as pt-stalk writes them, the property says for which:
`SteadyClock` (a top file whose clock does not step back), `Complete` (iostat
reports that list every device). Texts, numbers and units are left out, but
not what they decide: `NewObserved` reads the command and the text of a row,
`classifyAsCounter` the listed name, its family and its suffix.

### Discover

`ScanEntry` is an iteration over the listing, `Group` the code between it and
the sidecars, `LoadSidecar` one suffix of `loadEnvSidecars`, `ParseFile` one
call of `runOneParser`. What the parser of a file would make of its content
is part of the file (`data`, `diags`), since the parsers are modules of their
own; `data` is `Nil` for a parser that returns a nil pointer. `Vanish` removes
a file at any time and `Cancel` is the caller's context. `mirrored` is what
the `DiagnosticSink` has heard. Names are numbered in the order of the listing.
`InOrder` stands for Go's `sort.Slice`: the element with n others before it is
at place n + 1. `Newest` is the file at which the loop over the sidecar's
files, newest first, stops; which files it passes over before is `PassedOver`.

### Report and its parts

`Build` is `render.Render` up to the templates, in one step since nothing
else runs then. `collection` is what `Discover` returned in the form that
rendering reads; the operators of `Sections`, `Environment`,
`VariablePanels`, `Advisor` and `RedoSizing` bear the names of the functions
they translate. A series is a sequence over the axis of all snapshots, a slot
is `<<v>>` or `Gap` (NaN), and rates are kept as pairs, so that no division is
needed. `EnvironmentPanics` is the dereference of a nil pointer that ends the
program.

`Analysis` applies `Advisor` and `RedoSizing` to evidence given directly,
because the thresholds of thirty rules need more values than files of a
directory could hold.

`CliRun` keeps its own outline of all this (`PrepareInput`, `ReadInput`: may
fail with any of the codes), since it is about the files of overlapping runs.

## Runs

| run | bounds | shows |
|---|---|---|
| `limit_safety` | 4 requests (3 in one isolate, 1 in another), limit 2, an hour of 2 ticks and the first tick of the next | a queue of three forms, the limit is reached, a call straddles the hour and lists after a key has lapsed or just before |
| `worker_retry` | 2 requests of one key, a shared attachment and one more | a call and its retry in any overlap, head/put races, cleanups, and liveness |
| `dialog` | 2 openings, 1 edit, 2 recordings, 2 submissions | late grants, stop events and replies over a reopening, retries, overlapping submissions; liveness |
| `charts` | 2 panels, one with two views, of which one has a single sample; up to 2 cards, 1 counter; 4 windows: two extents, a day, a moment | charts that come and go before, between and after zooms and resets; two cards with redraws due at once |
| `cli_overlap` | 3 runs: one with `--overwrite`, one on an archive | races on the output path; the refinement of `AtomicOutput` |
| `input_prepared` | archives of up to 3 of 19 entries; trees of up to 6 directories; limits of 2 bytes a file, 3 in all; depth 2; cap of 5 entries | every first defect at every position, pairs of entries in conflict, both limits alone and together, pruning of every kind, the cap before and behind a collection |
| `parse_files` | files of up to 3 to 6 lines by collector; a day of 8 hours, 2 values, 2 devices, sites, processes | every file of that length: two samples with anything between them, cut off anywhere |
| `report_built` | 2 476 directories of up to 3 snapshots, in six families (defects of files, host sidecars, sidecars of three ages, restarts of the server and counters that start late, changes of variables, the other collectors); 1 file may vanish; a file of more than 2 bytes is too large | what is listed, lost, cancelled, parsed and merged, to the built report |
| `analysis` | evidence around the thresholds of each rule, several inputs of a rule at once, many rules at once, redo log series of up to 4 samples in one snapshot or 2 + 3 in two, a window of 3 s | every input missing in turn; windows of every shape |

Why these bounds are enough to be of interest: a race of the limiter or of the
reservation needs two calls, a lock that is overtaken needs three (that more
than two calls of a key, or two keys, change nothing for the Worker's safety is
proved for all constants but for the attachments, and `worker_linked` has two
keys); a chart is the source, the target or a newcomer of a zoom, and a card is
the active one or another; two
recordings allow one to be granted late, or stopped late, while the other is
running, and two submissions share a key or not; three entries allow a
conflict with an earlier entry and the total to be exceeded by the third while
no file exceeds its own limit; a line can be misplaced between two samples in
six lines; the newest, the only and the missing snapshot differ in three; a
window has a shorter and a longer rival in four samples. Deadlock is not
checked where the system may stop: every request answered, every bound used
up, every run ended, every file read.

The remaining runs check one claim each of the documentation or of a comment,
and TLC finds a behaviour of the code that contradicts it:

| run | claim | what happens |
|---|---|---|
| `worker_linked` | `index.ts:342`: objects a successful issue refers to remain | the request that created the object fails and deletes it |
| `report_nil` | `model.go:232`, `render.go:47`: a file that failed has no payload and is never an error | a parser's nil pointer is not a nil interface (`parse.go:602`); the newest `-mysqladmin` without a table ends the program in `latestUptimeSeconds` |
| `charts_reset` | `specs/017-chart-zoom-sync-stats/spec.md:184`, `05.js:25`: reset returns every chart to its full data extent | the hooks run after `isBroadcasting` is cleared: the first chart that moves publishes its extent, and every chart ends with that |

The models also have behaviours that other documents rule out. No run is
spent on them: the source itself is explicit about them, or the reading of the
document is open, or the claim is narrower than those above.

In the Worker and the dialog:

* spec 003 (FR-009) promises 429 to the sixth request of an hour; every
  isolate counts for itself until KV has caught up (`ratelimit.ts:7-10`).
* `ratelimit.ts:119` calls the count of a bucket monotonic, and line 14 has keys
  expire at the hour's rollover. A key expires an hour after its own put: a call
  that straddles the full hour can miss the first keys of its bucket and be let
  through as the sixth of its hour. `IsolateNeverExceedsLimit` excepts it.
* `idempotency.ts:67` says that no code path wipes a done record; a
  reservation whose get missed is put over it (a race `DuplicatesExplained`
  names).
* `api.md:225` calls the next call after a failure fresh; it gets 409 until
  the reservation lapses, as `idempotency.ts` says.
* `index.ts:342` says that a failure before the issue has no side effect on
  GitHub; `createIssue` may be aborted after it was performed. `FailureOpensNoIssue`
  excepts this one case.
* `specs/002-report-feedback-button/data-model.md:75` has every track stopped
  on dialog close; when `MediaRecorder.start()` throws (`04.js:54`) the stream
  stays in `recStream`, and a second recording overwrites it. `NoStrayMicrophone`
  excepts a recorder that could not be started.
* `03.js:852` says that edited content gets a fresh key; a post that encodes
  its attachments meanwhile reads the key of a later submission (`04.js:348`).
  `OwnKeySameContent` is about posts with the key they minted.
* spec 002 (FR-005) says that dismissal sends nothing; a submission that is
  still encoding posts afterwards. A reply of a submission from before the
  dismissal (`04.js:124`) changes the next dialog.
* spec 021 (FR-002) has Submit disabled while a field is empty; a reply
  enables it whatever the form holds by then.

In the charts:

* As after a reset, the first chart of the page publishes its own extent while
  the page loads, and the others take it, although nothing was zoomed (spec
  017, User Story 2).
* With a chart of one sample on the page, a reset may publish that sample's moment
  (`05.js:206`), which uPlot refuses on the other charts: they go on showing windows
  of their own, with the statistics of that moment in their legends, against spec 017
  (SC-001, FR-004). `ZoomedTogether` excepts such a window on such charts, and says
  that only a reset makes one.
* A card that is removed before its first animation frame is drawn all the
  same (`02.js:530`), and its chart stays in `CHARTS`; `broadcast` passes over it.

In the command:

* `cli.md:124,129` has temporary files removed before exit, "on success or
  failure"; SIGINT has no handler, and a panic in rendering (`report_nil`) leaves
  `.<out>.tmp-*` in the output's directory, since `cleanup` (`main.go:278`) is not
  deferred. `ExitCleansUp` excepts the latter, by the exit code, and killed runs.
* `discover_root.go:155` and `cli.md:50` promise a `PathError` and exit code 3
  for an unreadable input; `fs.SkipDir` on the root (`discover_root.go:297`)
  ends the walk without an error: code 4.
* `LooksLikePtStalkRoot` accepts names whose timestamp is no date;
  `Discover` then finds no snapshot in what the search took for a collection.

In the parsers:

* `iostat.go:131` derives a sample's time from its position in the device's
  slice, right for well-formed files as its comment says; a device that is
  missing in one report is early from then on. `concatIostat` (`concat.go:16`)
  then pads along the axis of the first device only.
* `top.go` adds a day on any header that is earlier than the one before, also
  when the clock was set back a little.
* `mysqladmin.go:157` takes the tally of a counter that first appears in a
  later column for a delta, which `redo_sizing.go:274-286` says lives at index 0
  only. The report shows it as growth: `OnlyObservedGrowth` counts it on its own
  (`LateTally`), and the directories of `report_built` have such files.
* `meminfo.go` rejects a whole file whose last sample is cut off, while
  `envmeminfo.go` goes back to the sample before.
* A line of a query's text that looks like a field ends the text and sets the
  field (`processlist.go:232`).

In the report:

* `concatTop` counts its boundaries per snapshot (`concat.go:217`) although
  two snapshots may share a second of the common axis; of a process listed
  twice in a second it keeps the last line, where `parseTop` adds them up.
* `model.go` calls the timestamps of the merged status data sorted; those of
  overlapping snapshots are not.
* `counterTotal` sums negative deltas of a restart, while the redo log sizing
  counts them as 0 (`redo_sizing.go:589`).
* `redo-sizing-panel.md:186` and `redo_sizing.go:563` say that the peak is the
  maximum over all windows of at least the target length; the walk keeps the
  shortest such window for each sample, and a longer one with a busy first
  interval is faster. `PeakOfShortestWindows` is about what the walk keeps.
* `inputs.go:148` and `specs/007-advisor-intelligence/data-model.md:71` say
  that missing inputs must not create or escalate a warning; three rules judge
  by other thresholds where an input is missing (`FallbackRules`: without
  `max_connections`, `log_bin` or `Com_select`), and may be more severe then.
  `AbsenceNeverEscalates` is about the other 27.

## Fairness

* `FeedbackWorker!FairSpec`: weak fairness of every handler that has begun
  (GitHub calls are aborted after 10 s) and of KV's expiry of records with a
  TTL. Requests need not arrive.
* `FeedbackDialog!FairSpec`: weak fairness of a submission up to the response's
  headers: timers fire, file readers end, an aborted fetch rejects. The
  recorder's stop event, the user, and the body of the response owe nothing.

## Proofs

Each proof module shows type correctness first (but for `ChartsProofs`), then an
inductive invariant, with one lemma per action or group of actions, and derives
the properties from it. The constants are arbitrary: any finite set of requests,
any isolates, any limit, any number of runs, any attachments, any input tree,
any archive, any panels and cards, any directory, collectors and settings.

The provers cannot use the library's induction theorems, which take a predicate.
Where a proof needs induction over the natural numbers (a sum over the entries of
an archive, what accumulates in the sink, the runs of equal snapshots) it takes
the least number for which the claim fails (`LeastNumber`, from the theorem on
well-founded orders) and contradicts it. A recursive function, such as one that a
`LET` defines over the snapshots or over the samples of a window, is compared with a
finite accumulation of the same steps, which is shown to exist and to be unique.

* **RateLimitProofs**. A call that is in the critical section must be the
  oldest of its chain, which by itself is not inductive: one has to know that
  the pending calls of a bucket form *one* chain. The invariant says that
  `tail` is the newest pending call (or nothing is pending), that `prev` of a
  waiting call is the next older one, and that tickets grow along the chain.
  `ServedInOrder` follows, and the limit from counting: for a window after its put
  the key of an accepted call is in KV (`AcceptedStored`), an isolate's own `list`
  sees those keys completely, so fewer than `LIMIT` calls of the chain had a fresh
  key at the list of a call that reaches its put (`RoomKept`), and nobody else of the
  isolate can be between list and put. A set of accepted calls that grows past
  `LIMIT` therefore has a member whose key had lapsed by the newcomer's list. That
  `HasRoom` and `Visible` bound the count uses the theorems on finite sets of the
  library. A call is listed and put no earlier than its hour begins (`InItsHour`), so
  no key of the hour can have lapsed at a list within it.
  `NobodyStranded` (whoever waits has an earlier call of the chain to wait for,
  which has not left) is the safety half of "nobody waits for ever" and comes
  from the same invariant.
* **FeedbackWorkerProofs**. For every key without a cause, `KeyInv` says how
  its record and its handlers are related (`Orderly`): at most one handler is
  past the get, the record is the reservation while it works and its done
  record once it has answered 200, and all issues of the key are its own.
  Every event that breaks this adds a cause. `AnswerInv` says that a 200 names
  an existing issue of the same key. Five properties follow. Apart from it,
  `AttachmentInv` says of each handler what it has stored at its stage, that what
  it has behind it is still there or was taken out by a failed handler that had
  stored the same object (`StoredInv`), and that of what a failed handler stored
  only that remains which it is still to delete, which somebody else stored too or
  which R2 refused to delete (`CleanedInv`). `BrokenLinksExplained` and
  `NoOrphanAfterFailure` follow.
* **FeedbackDialogProofs**. Two invariants, neither of which needs the other.
  `RecorderInv` is about the microphone: a live stream records or could not be
  started, and then it is the one `stopRecording` will stop (`ActiveInv`);
  nothing records while the newest recording still asks for permission, which
  is what makes the comparison with the session (`recSession`) enough when a
  grant comes late; the session, the recorder's chunks and the attachment
  belong to the dialog that is open (`SessionInv`). `ContentInv` is about the
  keys: a key in use was minted for the media the form holds, and a post with a
  key out of use says something else or was followed by a success (`KeyInv`),
  so that `resetIdempotency` on every change of the content and the reset on
  success are all that the two properties need.
* **CliRunProofs**. `RunInv` says what a run has done at each stage: what is
  complete when (`Rendered`), what its code means (`Told`), which temporary
  files it may still have (`Tidy`), and that an installed report keeps the
  path taken while nobody removes it (`Taken`), which is why a link elects one
  run at most. `ForeignFilesSurvive` needs no invariant: only `Install` and
  other programs write the output. `RunsImplementAtomicOutput` is the
  refinement: the mapped initial states are initial (`InitMaps`), and every
  step is one of `AtomicOutput` or leaves the mapped variables alone
  (`StepMaps`), where the types and `RunInv` may be used.
* **PrepareInputProofs** (with lemmas on paths).
  Type correctness contains that the extraction always leaves a tree of
  directories and files: `os.MkdirAll` fails exactly where it would not.
  `ExtractionIsBounded` is inductive given the types: a copy takes at most one
  byte above the limit met first, and goes on only without it. For
  `NoneIsLost` the invariant adds `PendingIsWalked`: what is still to come was
  listed in a directory that is searchable, so what is recognised is a
  collection; and where the walk leaves a directory for its entries, one of
  them is on the way to each collection below (`EntryOnTheWay`).
  `WholeWalkAnswers` draws the conclusion for a walk that is not capped: the
  answer is the truth about the tree. For the extraction `ArchiveInv` compares
  the machine with the archive: while nothing is wrong, the tree is what the
  entries before `at` make (`Taken`) and `written` their sum; a refusal is the
  defect of the entry at `at`, before which there is none (`Judged`). Hence
  `FirstDefectDecides` and `ExtractedExactly`, and with what an extracted tree
  looks like to the search (`PackedInv`) also `ArchiveByItsCollection`.
  `AnswerIsOfTheTree` holds of a walk that is cut short too: `WalkInv` says that
  everything visited comes before everything pending in the lexical order of the
  walk, that `entries` counts what was visited and that `roots` are the collections
  in it. That this order is one, and that a directory is followed by what is below
  it, are lemmas on paths.
* **ChartsProofs**. `CardsAsSelected` becomes inductive with the form of the
  page, which every operator of the store keeps, and the fact that whatever
  waits for a frame is a card (`CardInv`). The store's operators move windows
  but leave the data of every chart alone (`SameCharts`), whatever sequence of
  charts they reach; `rebuildChart` changes that of one (`ChartOf`), and only
  the timer or the frame that it answers goes. `ZoomedTogether` asks for the
  state between two microtasks (`ZoomInv`): each registered and connected chart
  shows its target (the store's window, or its extent without one) or waits for a
  commit that brings it there or that will move the target again, and its legend
  agrees with the store or has its numbers or a commit due (`Follows`). Queued
  commits are of charts that wait for them (`PageOK`), so that an empty queue
  leaves all charts at their targets. A chart that ignores the store's window has
  no target; that the window is a moment only after a reset is part of the invariant
  (`AskedFollows`), since no chart is drawn with a moment and nobody zooms to one.
* **ReportProofs**. About `ReportSpec`, whose report is built of what `Discover`
  returned. `ParseInv` says that the files before the rest of `todo` have been
  parsed, each in its place of the parsers' order, and that the sink has heard
  the sidecars' diagnostics and then theirs, one after the other. `SidecarInv` says
  of every sidecar loaded that no newer file still there is usable and that a
  fallback has been recorded, or told once the sidecars are through; files that
  vanish keep it, as it is about those that are left. Both rest on what the
  listing fixes (`GroupInv`): the files and the snapshots do not change any more.
  That sorting by rank gives every element one place, in order, is shown for any
  finite set with a strict order (`InOrderSorts`), and used for the snapshots, the
  parsers' order (`ParsedBeforeIsOrder`: a prefix and a suffix tell a file) and the
  runs of equal settings. `ShownInv` keeps the report's panels, environment and
  sections equal to those of the collection. `PanelsMarkChanges` is then a fact about
  `VariablePanelsOf` for any sequence of settings (`PanelsMark`): by induction
  along a run all its snapshots have the signature of its first, so the first of
  the next run differs from the snapshot before it in exactly what it differs in
  from the panel before. `UptimeAnchored` asks that the snapshot which
  `latestUptimeSeconds` takes, the newest that has an uptime, is the newest that
  tells one: with a nil status file after it there would be no report.
  `AbsenceNeverEscalates` is a fact about the operators of `Advisor` for any
  evidence, with no invariant but that the evidence is one: whatever a rule reads
  of poorer evidence is what the full evidence says or nothing (`Weaker`), and
  each of the 27 rules is then compared with itself, rule by rule, a rule that lacks what it
  needs being silent. `OnlyObservedGrowth` is about `MergeMysqladminData` and
  `concatNetstatS` for any files: what the files add to a counter is a sequence of
  slots, one after the other, and the sum of a concatenation is the sum of the sums
  (`Sums` is the model's own recursive function), so the merged series adds up to what
  the files say (of a file's slots all but the first, which are its increments and late
  tallies: `TailIsGrowth`) and holds a gap wherever a file without the counter or a boundary
  lies; that a file's samples begin where its slots do on the common axis follows from
  running sums of lengths. `PeakOfShortestWindows` follows the walk of
  `computeRollingPeak`, slot by slot: after a slot the left end is that of the
  shortest window to it that is long enough, if there is one (`IsLeftEnd`,
  `IsWalked`), it never has to move back, and the peak is the rate of one such window
  of an earlier slot while none of them is faster (`IsPeak`). Rates are compared by cross multiplication, so
  the order of fractions is a lemma of its own. The runs without a gap are what
  `BlockAt` says, a window never leaves its block, and with one block that takes time
  the window the walk reports takes time.
* **ParserProofs**. Each invariant says what the parser's locals are as a function
  of the lines read so far, so that the payload is what the property demands
  wherever the file ends. `IostatInv`: every device has as many samples as it has
  rows counted, the n-th of them the n-th row; in a file whose reports list every
  device that is the row of report n (a bijection between rows and reports).
  `TopInv`: the clock is the last header's, the days passed since the start are
  those of its instant, and each sample is a row at the instant of the header
  above it; that two instants less than a day apart and their times of day tell
  whether midnight lies between is a lemma on division (`Apart`). `MemInv`: the
  samples are the dumps of the file in their order, each with what its own lines
  say, and as many warnings have been given as lines were unreadable.
  `InnodbInv`: each site and mutex has the waits read so far that are its own, the
  sum over them (`Total`) is that of all waits, and at most the last wait, with only
  blank lines after it, can still be given a mutex (`CountsAre`); what a move of a
  count does to the sum is a lemma about `Recount`. `MysqlInv`: the slots of a
  variable have a value exactly in the columns that report it, a counter's previous
  value is that of its last row, and, as long as no column reports the counter
  twice, its slots add up to that value (gains less losses, each a `Total`: a slot
  more, after any number of empty ones, adds its difference). `NetstatInv` and
  `NetstatSInv`: the polls kept are those that started before the one in progress and
  have something to keep, in their order, each with what its own lines count or show
  last (`Lists`); what the poll in progress has is what its own lines have so far, and
  the evidence for the bucket of a row `ESTAB` is that of all lines. A row counts at
  once or waits, so that the buckets of a poll, with the waiting rows in the bucket
  the whole file decides, are two disjoint sets of rows each (`BucketsCount`).
  `ProcesslistInv` is about the locals as they would be with the row in progress
  closed (`FlushRow(loc)`), so that it need not say what a half-read row is: the poll
  in progress has the threads of the last TS line so far, the polls kept are those of
  the TS lines before (`Lists`), and the groups tell of all threads seen
  (`GroupsTell`). What a summary tells of its sightings, their number, span, peaks and
  the first of the slowest, is kept by one more sighting (`SummaryGrows`), which
  leaves the summaries of all other shapes alone (`GroupsTake`); the ordering at the
  end loses and doubles none, for `SlowerQuery` and the times of the polls are strict
  orders. That
  every member of a set has one place in its order (`RankIs`; of any strict order,
  `RanksTaken`), that a map which keeps
  the order keeps the places (`RankMaps`), that the last line of a class is found by
  `LastBefore`, and that a file keeps its kind through every action of every parser
  (`KindStays`), are shared lemmas.

What is assumed is what the modules' `ASSUME`s say, which TLC evaluates in
every run: the sets are disjoint from the values used as "none", functions map
between the right sets, the limit is positive, requests are finite, an input
directory is a tree, a page's panels are not cards, no chart is drawn with a range of no length, the marks
for no window are no windows, and a saved layout is a bounded sequence. A directory lists its
names once and sorted by timestamp (`os.ReadDir` sorts, and the form of the
timestamp makes text and time agree), the collectors' suffixes differ, and parsers
give severities. A payload has the form its parser gives it (`PayloadAssumption`):
`mysqladmin.go:203-229` returns nil without columns or without names and pads every
variable to the number of columns, and `netstat_s.go` returns a sequence of samples
or nil. A snapshot has a timestamp (`LineAssumption`). The evidence of
`Analysis` has the four sources of a report; a slot of its counter of redo bytes
holds a number or is a gap, every slot has a time, and the time of a slot that holds
a number is not before that of the slot ahead of it (`EvidenceAssumption`,
`TimedSlots`: `mysqladmin.go` counts the seconds of a file's columns up, and a merge
puts a gap at every boundary). The
peak's window has a length (`RedoAssumption`). A row of the process list is a
sequence of fields whose metrics are not negative (`RowsAssumption`,
`parseProcesslistNonNegativeFloat`). A day has a
length, and instants and process ids are numbers (`TopAssumption`); a mutex has a
name, and the values read from the InnoDB status have no sign (`InnodbAssumption`,
which the regular expressions see to); a status variable's value is an integer (`MysqlAssumption`, `ParseInt`).

Only model-checked are liveness and everything about fairness, which is beyond
the prover. Every safety invariant and every action property that a passing run
checks is also a theorem. The library's folds and `SelectSeq` are opaque to the
provers (what they compute for every input would be an induction with an operator as
its parameter); where a theorem depends on what is computed, the definition uses
comprehensions, `FlattenSeq` or a recursive function of its own instead.

Some properties are proved and have no run of
their own: the types, `ReplayIsOwn`, `MapHoldsOnlyPending`,
`OneActiveRecorder`, `OutputComplete`, `OneCreator`, `ExitCodeTells`,
`ExistingOutputKept` and `ExtractionBounded`; TLC found no counterexample to
any of them before they were proved.

## Not modelled

Formatting of any kind: the HTML templates, style sheets, JSON encoding, issue
bodies, log lines, usage texts and messages, with the code that copies the
sections into chart payloads and view structs (`payloads.go`, `summaries.go`,
`navigation.go`). The comparison of variables with MySQL's defaults. The text
level of the parsers: regular expressions, splitting, number formats. The close of a
zip entry's reader that fails after the entry was read (`archive_input.go:246`).
Cryptography (hashes are injective names; the FNV signature of `dedup.go` is
one too). Path resolution in the output-inside-input guard. What a chart draws,
its statistics, tooltips, resizing and themes; the report's navigation and
filters. Shell scripts. `PROJECT.json` lists every component
with its status.

Some hazards have no property: a reply that arrives at a dialog it is not
about, and a response body that never ends, because the code does not promise
anything there; the limit being per isolate, because the source accepts it.
Types are stated for `RateLimit`, `FeedbackWorker`, `FeedbackDialog`, `CliRun`
and `PrepareInput` and proved there; no run is spent on them, nor on those of
`Charts`, which TLC confirmed for the instance of the run `charts`.

## Plan

Done: the Worker with its limiter, the dialog, the charts, the command's runs and its
input, discovery, all parsers, the report's sections and its conclusions.

Open, in this order:

1. The dialog and the Worker together: an abstract "one issue per logical
   submission" that their composition implements as long as no cause occurs.
2. That a parser's payload is monotone in the file: what is read before a cut
   is kept, for every collector.
