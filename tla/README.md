# encro, modelled in TLA+

`encro` is a command-line program that encodes, converts, packs and files away
media in batches: it scans directories, runs ffmpeg once or several times for
each file on a few workers, and can be stopped with Ctrl-C, killed, and started
again to go on where it was. What is hard in it is not the work on one file but
the bookkeeping around it: which files are done, whose output stands at a path,
what a run that was cut short left behind, and what the next run believes of it.
This directory holds TLA+ models of that bookkeeping, the TLC runs that check
them on small instances, and TLAPS proofs of what matters most for instances of
any size. Paths below are relative to the repository's `src/` unless they start
with `openspec/`, `docs/` or `tests/`.

    tlc -config SegmentResume.cfg SegmentResume.tla
    tlc -config Workflows.cfg MCWorkflows.tla
    tlapm SegmentResumeProofs.tla
    tlapm WorkflowProofs.tla

## 1. Inventory

### The parts and how they interact

    command line, stored options, templates
        │
    app/pipeline (one run: state file, workflow, exit code) ◄── batch (one per subfolder)
        │
        ├─ video workflow ── scan, plan outputs, probe, prompt, encode, pack
        │       │                     │                      │
        │       │                names, archives     runStage (core/media_item)
        │       │                                            │
        │       │                      task executor (worker pool) ── stop flag, event
        │       │                                │
        │       │                      encoder runner ── segment plan, WebP search
        │       │                                │            │
        │       │                      subprocess execution   segment files
        │       ├─ monitor thread ── bars, estimates, ticker
        │       └─ job store (mem) ── state file (.tmp, rename, .bak)
        ├─ picture workflows (same store and executor; cached conversions)
        ├─ preview (windows, segments, one render)
        └─ organize ── models, analyse (cache, tagger), cluster, route, copy

| component | state it keeps | operations | what makes it correct |
| --- | --- | --- | --- |
| job store, `core/job_state*.cpp` | the snapshot: stage, settings, one record per task (status, segments, fingerprint) in memory and on disk | initialize/restore, mergeTasks, mark…, requestCancel, complete, remove | a task counted as finished has a whole output of this job; finished work stays finished; nothing is left running; a resumed job ends |
| state file, `flushSnapshot` | `<state>`, `.tmp`, `.bak` | stage, rename, fallback through the backup | never half written; an acknowledged snapshot is not lost; the answer is truthful |
| task executor, `core/task_executor.cpp` | two atomic counters, outcome vector, stop flag | claim, run, count, notify, return | each task at most once, prompt stop, truthful counts, it returns |
| encode workflow with its stages and monitor, `video/video_process.cpp`, `video/video_batch_execution.cpp`, `video/video_encoding_state.cpp`, `core/media_item.h`, `app/pipeline.cpp` | slots, counts, item states, failure list | probe, confirm, encode, monitor, summarise, pack, exit | every item is accounted for once; the monitor ends; summary, exit code and kept state agree on what happened |
| encoder runner, `video/video_encode_runner.cpp`, `video/segment_plan.cpp` | segment files, ffmpeg's list, audio track, target | plan, encode a series, watch, assemble; search a WebP quality | every frame once through any interruption; nothing recorded is redone; it ends; success means an output |
| quality probing, `video/encode_probe.cpp`, `video/probe_cache.cpp` | points measured, decisions, one cache file for all processes | measure in waves, decide, load, look up, save, evict | the CQ meets the floor and is the highest that is known to; every video gets a plan; a cached decision is its source's |
| output planning and names, `video/video_output_planning.cpp`, `core/collision_naming.h`, `pack/pack.cpp` | planned paths, entry names | name, separate, add | no two inputs share an output; names stay the same when rivals change; no archive entry replaces another |
| packing, `pack/*.cpp` | archive tasks, group files, counts | group, write, discard, resume | archives are split as promised; an archive counted is whole; the exit code is honest |
| picture workflows, `picture/*.cpp` | compressed and converted caches, phase and clip records | scan, compress, retry, purge, plan, convert, pack | what is packed was made by this job of these sources |
| preview, `preview/*.cpp` | windows, segments, scores, one output | place, encode, score, render | the windows cover the video; what is written is whole; a stop is no failure |
| organize, `organize/*.cpp` | content-keyed cache, dispositions, clusters, output tree | sample, analyse, cluster, route, copy | every image is filed once; nothing analysed is analysed again; clusters are those of the stated linkage; copies are whole |
| model store, `tagger/model_store.cpp` | model files, `.part`, unpacked libraries | fetch, verify, retry, unpack, install | what is used is what was pinned |
| stop signal, `infra/stop_signal.cpp` | flag, event or pipe, watchdog | request, reset, wait | no request is missed; a process that ignores it is ended |
| subprocess, `utils/utils.cpp` | pipes, child, grace timer | run, read, terminate on stop | the answer is the child's; no output lost; no child waited for for ever |
| progress bars, `core/progress.cpp` | bars, ticker thread, estimates | add, set, tick, erase | nothing is painted after the erase; the erase returns; estimates are sane |
| stored options and templates, `cmd/config_*.cpp`, `cmd/template_*.cpp`, `cmd/cmd.cpp` | two JSON files | set, unset, save, delete, load under a command line | commands do what they were told and no more; what was typed wins |
| batch, `batch/batch.cpp` | one consent, subfolder results | run each, merge exit codes | one decline skips the rest, a stop is no decline |

They interact through calls (workflow → stage → executor → runner → ffmpeg),
through shared state under a mutex (the store, the bars), through the stop flag,
which anyone may raise and everyone polls, through callbacks (the completion
hook, output lines), and, across runs, through files: the snapshot, the
segments, the targets, the caches. The files are where most of the difficulty is,
because a run that reads them cannot tell who wrote them and whether to the end.

`PROJECT.json` lists every component, the ones that are not modelled too, and
under `hazards` the forty places where the code is hardest to test.

### Behaviours that are hard

- *Runs after runs.* Which run wrote a target, a segment, a conversion or a
  record, under what settings, from which version of the source, and how it ended.
- *Crash between two file operations*: of a flush, a copy, an assembly, an unpacking.
- *Stop at any moment*: between a check of the flag and the claim of an index,
  while a child is exiting, at a prompt, while the batch is draining.
- *Partial failure*: a flush that fails while the run goes on, a rename that is
  refused, an exception between two marks, an entry that cannot be added.
- *Workers without locks* on one outcome vector, counters announced late, a
  monitor that reads what workers are about to change, a ticker that paints.
- *A watcher* that counts what another process is still writing.
- *Two processes* on one cache file or one options file.
- *Arithmetic at an edge*: groups by size and count, windows at the end of a
  video, interpolated CQs, quality tiers, estimates at equal times.

## 2. What is modelled

| module | models | extends / uses |
| --- | --- | --- |
| `JobState`, `MCJobState` | the job store and the life of its snapshot over any number of runs | |
| `JobStateProofs` | theorems about it | `JobState` |
| `SegmentResume` | the files of one segmented encode over any number of attempts | |
| `SegmentResumeProofs` | theorems about it | `SegmentResume` |
| `TaskBatch` | what a batch promises to a stage (abstract) | |
| `TaskExecutor` | the worker loop | implements `TaskBatch` |
| `TaskExecutorProofs` | theorems about it | `TaskExecutor` |
| `SnapshotRegister` | what the store expects of its file (abstract) | |
| `StateFile` | a flush, one file operation a step | implements `SnapshotRegister` |
| `EncodeBatch`, `MCEncodeBatch` | one video run: probing, prompt, pool, monitor, summary, exit | |
| `EncodeBatchProofs` | theorems about it | `EncodeBatch` |
| `StopSignal`, `Exec`, `ProgressBars`, `EtaEstimator` | stop event and watchdog; one child process; bars and ticker; an estimate | |
| `CqProbe`, `ProbePhase`, `Probing` | the choice of one CQ; probing a batch with a shared cache; what the two promise together | |
| `Settings`, `ModelStore` | stored options and templates; model files | |
| `MCSupport` | the modules of the three rows above and `StateFile`, in one run | |
| `SupportProofs` | theorems about those modules | `StateFile`, `StopSignal`, `Exec`, `ProgressBars`, `EtaEstimator`, `Probing`, `Settings`, `ModelStore` |
| `Packing`, `PackGrouping`, `OutputNames` | writing archives over runs; splitting files into them; names | |
| `Batch` | the subfolders of a root | |
| `Picture`, `WebpSearch`, `Conversions` | the picture workflow over runs; an adaptive WebP encode; what the two promise together | |
| `Organize`, `MCOrganize`, `Clustering`, `OrganizeCopy` | organize runs; the linkage; the copy phase | |
| `Preview` | a side-by-side preview | |
| `MCWorkflows` | the modules of the five rows above, in one run | |
| `WorkflowProofs` | theorems about four of them | `Batch`, `Packing`, `Preview`, `Conversions` |
| `OrganizeProofs` | theorems about organize | `Organize`, `Clustering`, `OrganizeCopy` |
| `Plans` | what is decided before anything is written, in one property | `PackGrouping`, `OutputNames`, `Clustering` |
| `PlanProofs` | theorems about it | `Plans`, `OrganizeProofs` |
| `ExitCodes` | the three exit codes | |

The modules fit together by what one takes for granted of another. `JobState`
commits a snapshot in one step or not at all: `StateFile` shows that a flush is
that, with the one exception it names. `JobState` lets any worker take any step
of its task: `TaskExecutor` shows that no two workers ever have the same task,
and `EncodeBatch` and `Packing` take their claims from that. `JobState` knows how
many segments a record counts and whether a target is whole; `SegmentResume`
knows the files behind that count and shows when what is assembled from them is
whole. `EncodeBatch` asks what an encode returned; `Exec` shows when that is the
child's own answer. `Batch` runs pipelines whose exit codes `EncodeBatch` and
`Packing` justify. `Organize` clusters alike images and copies in one step:
`Clustering` and `OrganizeCopy` are those steps.

Components that never meet are checked in one run each of `MCSupport` and
`MCWorkflows`: the variable `part` picks a component in the initial state, all
the other components stay in their own initial states, and only the picked one
moves. The state space is the sum of the components', not their product, and
every invariant is checked in all of it (the invariants of the others hold
there as they hold initially). No component has a fair action enabled in its
initial state, so the conjunction of their fairness conditions constrains only
the one that moves.

### JobState

| variable | in the code |
| --- | --- |
| `disk` | the file at the state path, as the next run would load it |
| `mem` | `Store::snapshot_` |
| `phase` | where `pipeline::run` and the workflow are |
| `out[t]` | `mediaitem::ItemState` of the task's item |
| `work[t]` | what the worker that has the task is doing |
| `target[t]` | the output file: there or not, which is all the code looks at; whole, by which settings, from which source, which it does not |
| `files[t]` | how many of its segment files are there, from the first on |
| `version[t]` | size and write time of the source, as a version |
| `stop`, `budget` | the stop flag; how many events of the environment are left |

One action stands for one operation of the store together with what its caller
does before the next point another thread or a crash can be seen:
`StartFresh`/`Restart`/`Restore`/`DiscardMismatched` (`Store::initialize` and
`tryRestoreExistingLocked`), `MergeTasks` (`mergeTasks` with
`normalizeExistingTask` for each record), `MarkRunning`, `MarkSegmentProgress`,
`OpenTarget`, `FinishTarget`, `RemoveSegmentDir`, `MarkSucceeded`, `EncodeFails`,
`MarkFailed`, `EncodeThrows` (one task), and the five ways a run ends. `RequestCancel` and
`MarkIncompleteInterrupted` are two steps because they are two flushes. Tasks
are of three kinds, for the three ways a target comes into being: in place
(webp), assembled from segments (mp4), renamed (picture conversions). An attempt at a
segmented task believes the segments that are both recorded and there (`Believed`),
and a progress mark records the total counted from that start, whatever the record
says: where recorded files are gone the count may fall. Left out:
percentages and time accounting, which no decision reads; `markInterrupted`,
which only tests call.

`Faults` says which events of the environment a behaviour may have: a crash, a
stop, a declined prompt, a failed encode, a target deleted, a source edited or
segment files cleaned up between runs, a run with other settings, `--restart`, a failed flush, a source
the probe skips, an exception out of the encoder.

### SegmentResume

One task from its first attempt to its success. The encoder is a process of its
own that opens, closes and lists segments (`OpenSegment`, `CloseSegment`,
`ListSegment`, external: they model how ffmpeg's segment muxer behaves under the
flags of `buildSegmentSeriesFlags`); the watcher counts the rows of its list and
writes the record (`WatchList`); an attempt empties the directory when nothing is
recorded (`PrepareDir`), takes or extracts the audio track, decides what to reuse
and whether anything is left (`PlanSegments`: `reusableSegments`,
`encodeComplete`), encodes, assembles, removes the directory and marks the
success. A file is `open` while it is being written and keeps being so when its
writer is killed, `whole` when closed, `stale` when it belongs to a record that
was cleared: the code sees only that it exists. `Total` is how many segments the
duration implies and `Cuts` how many the encoder cuts, which may be fewer (the
comment at `video/segment_plan.cpp:31`). The record and the state file are one
here; what a failed flush does is `JobState`'s.

`intact` is a history variable: nobody has removed files that the record counts
since it was last cleared, neither a cleanup nor a crash between the removal of
the segment directory and `markSucceeded`.

### TaskExecutor and TaskBatch

A worker reads the flag, claims an index, runs the task, writes its outcome, adds
one to the count of finished tasks, and announces the count it got; each is a
step, because other workers and the stop come between. `atStop` remembers where
the claims were when the stop came. `TaskBatch` is what `runStage` relies on:
slots, tasks that start in plan order, once, and a batch that closes when no
task is in flight. The mapping: `started` is the smaller of `nextIndex` and the
number of tasks (a worker that finds no more work still adds one), a slot holds
the task its worker is running.

### StateFile and SnapshotRegister

`flushSnapshot` stages the snapshot beside the state path and renames it over;
where the platform refuses that, `replaceStateFile` moves the old file to a
backup, places the new one, and puts the backup back when that fails. Every file
operation is a step and may fail, and a crash may come between any two.
Snapshots are numbered in the order they are made, so "not older than" is `>=`.
The register's value is the file at the state path, or the backup while a flush
has moved the old file there. `Lose` is its one weakness, the one the comment at
`core/job_state.cpp:543` accepts.

### EncodeBatch

The main thread (`stage`, `pending`, `skipped`, `exitCode`, `stateFile`), the
workers (`pc`, `item`, `result`), the monitor thread (`monitor`, `seen`,
`current`) and the stop, over what they share: `left` (the plan not claimed),
`active` and `finished` (`EncodingState`'s slots and counter), `ended` and
`victims` (flags of a slot), `outcome` (the item states), `record` (the store).
Every lock of the code is one step, everything between two locks may be
interleaved: the monitor that has seen an item active reads its progress file
after the worker has finished it; a worker reads the stop flag after its child
has failed. `killed` and `failedRun` are histories of which failures a stop
caused. The four configurations of `MCEncodeBatch` are those that differ in
control: probing or not, dry run, no bars, packing with an answer of its own or
a shared one.

### The parts below: StopSignal, Exec, ProgressBars, EtaEstimator

- `StopSignal`: the handler of each request sets the flag, signals the event, and
  arms the deadline, in three steps (`SetFlag`, `SignalEvent`, `ArmDeadline`); a
  waiter creates the event if nobody has and looks at the flag again
  (`PublishEvent`, `CheckFlagAgain`), waits, drains what woke it; `platform` is a
  pipe every waiter drains or a manual-reset event; `Watchdog` ends a process
  that is still there when the grace is over.
- `Exec`: a child writes half lines to two streams, closes them, forks one that
  inherits them, and ends, in any order; the call races reading against the end
  and the stop (`RaceEnds`), drains what is left, terminates, waits the grace
  period (`GraceEnds`) and reports. `torn` says that a callback was given the
  tail of a line.
- `ProgressBars`: each method is a step under the lock, except `eraseBars`, which
  lets go of the lock to join the ticker; `screen` counts the lines painted and
  not erased.
- `EtaEstimator`: time in sample intervals; the smoothing is any value between
  the old projection and the new one, because no property depends on its weight.

### Probing: CqProbe, ProbePhase

`CqProbe` measures the base points, joins, measures outwards where the floor
lies outside, and decides by interpolation (`Decide`, `decideCq`); a measurement
yields any score on the wanted scale or the fallback's, or nothing. `ProbePhase`
is the phase around it: two processes load, look up, probe, merge, save and
replace one cache file, sources are replaced meanwhile, a stop comes, and each
file is given the plan that belongs to it. A decision is the version of the
source it was measured on.

### Settings and ModelStore

`Settings`: each process parses its command line, reads the two files, changes
what it was told in memory and writes in place (truncate, then body, two steps,
between which it may be cut off or overtaken). Writing is a conversion: every known
key is written in the form of its kind (`AsSaved`), which turns a flag that is not
`true` into `false`, a hand-written `"yes"` or `1` included, whatever key the command
named; numbers and texts are read back as they were. A value is given by the command
line, the template, the options file or the built-in default, in this order;
forced defaults of twin options of subcommands are the code's way to do this.
`calm` says that no two commands have overlapped and none was cut short, the
only case in which the code can do as told; a `template save` that cannot write the
schema fails with the template saved. `ModelStore`: fetch to `.part`,
verify, retry from a mirror, rename; unpack the libraries and move them one by
one, the marker last.

### Workflows: Packing, PackGrouping, OutputNames, Batch

`Packing` runs a filtered plan over several runs: `packRecord` is the job state's,
`zip` what stands at each path (nothing, part of an archive that failed, a closed one
that lacks entries, a whole one), `selected` the filtered plan, by whose indexes the
callbacks find their records. A worker claims, opens, adds entries, closes or
discards; adding and closing may fail. An entry that is no file any more when the
worker comes to it is passed over: `added` falls behind `written`, the archive lacks
it (`vanished`), and one without entries is not written at all, or removed.
`PackGrouping` is a function of a request, checked over all lists of up to four
files: files are split by count into parts, parts by size into archives,
directories kept together, ordinals put into names. Its three passes over files or
chunks are one operator (`Split`), a unit being a file or a chunk; passes and
ranges are recursive functions, so that they can be proved about. `OutputNames`
names outputs and archive entries: a stem is a sequence of words, so a file may
already be called what another one is going to be; the path hash is taken to be
injective, and `PathOrder` is the order of `stablePathLess`. `Plans` joins both with
`Clustering`, with which they share no state.
`Batch` walks the subfolders with one shared consent.

### Picture and WebpSearch

`Picture` has two caches, compressed pictures (`cache`) and converted clips
(`conv`), with the version of the source each was made from, which the code
cannot see, and what it can: that a file exists, is not older than its source,
and that the state backs it (`clipRec`, `phase`). Runs are stopped, crash, are
declined at the prompt; sources are replaced between runs, by newer files or by
files with an old time. `WebpSearch` is one adaptive encode: attempts at lower
and lower quality in steps of two sizes, ended by a fit, the minimum, a stop, a
failure, or an encoder that writes nothing.

### Organize, Clustering, OrganizeCopy

`Organize` is a run from the folders' dispositions through sampling, analysis
with the cache, tag counts, references, routing and names to the copies, over
several runs of one gallery with folders renamed in between. What the engines
say of an image is part of the gallery (`[id, strong, weak, noise, crowd, look,
work]`). A cluster that folders capture goes to one that holds its very images, which
scores best, and to any of those alike otherwise (`BestOf`, `Captors`). A copy may
fail: the run names the image, goes on and succeeds (`CopyOut`). `Clustering` is the average linkage with its lazily updated queue, one
pop a step, over any scores of four images, and the greedy pass above the
ceiling. `OrganizeCopy` copies each routed image through a staging file,
choosing `<stem>`, `<stem>_2`, … and skipping an image whose plain name is there
with the same content; every file operation is a step; any of several runs, dry
ones too, may be stopped, crash or fail a copy.

### Preview

Windows are placed by the duration of the shorter video or by a typed range;
each is encoded and scored by a task of its own; the render takes its inputs by
number. A stop may come at any moment from the first child on.

## 3. The runs

| run | instance | checks |
| --- | --- | --- |
| `JobState_resume` | a segmented task of 2 segments and a renaming one, 3 configurations (settings unrecorded, recorded, with packing), plans that grow and shrink, 4 events | `SuccessIsBacked`, `NothingLeftRunning` |
| `JobState_allfaults` | an in-place task and one of 3 segments, 2 settings, every kind of event, 4 of them | `TypeOK`, `FinishedStaysFinished`, `SegmentsNotForgotten`, `EventuallyAllDone` |
| `TaskExecutor` | 3 tasks, 3 workers, a stop at any moment | `Exclusive`, `StopIsPrompt`, `HookIsTruthful`, `ImplementsBatch`, `BatchReturns` |
| `SegmentResume` | 3 segments, 4 events of every kind | `OutputIsWhole`, `RecordedAreWhole`, `RecordedIsNotEncodedAgain`, `EventuallyDone` |
| `EncodeBatch` | 2 items, 2 workers, the monitor, 4 configurations, a stop at any moment | `SummaryIsHonest`, `FailuresAreTheirOwn`, `EndIsHonest`, `MonitorSeesAll`, `RunReturns` |
| `Support` | the nine parts of `MCSupport` | `StopIsHeard`, `CallIsTruthful`, `ScreenIsTruthful`, `BadgeIsSane`, `NeverTorn`, `NothingErased`, `ProbeIsSound`, `SettingsAreSound`, `ModelsAreSound`, `ImplementsRegister`, `SupportReturns` |
| `Workflows` | the ten parts of `MCWorkflows` | `PackIsHonest`, `PlansAreSound`, `BatchIsHonest`, `ConversionsAreSound`, `OrganizeRunIsSound`, `CopyPhaseIsSound`, `CopiesAreKept`, `PreviewIsSound`, `PackReturns` |
| `JobState_inplace_crash` | 1 in-place task, 1 crash | refutes `PartialNeverRecovered` |
| `JobState_settings` | 1 task, 2 settings, a crash and a change of settings | refutes `RecoveredUnderSettings` |
| `SegmentResume_tail` | 3 marks, 2 cuts, 2 stops | refutes `EventuallyDone` |
| `Picture_stale` | 1 picture, 1 clip, 3 runs, 1 replaced source | refutes `StaleClipsAreNotPacked` |
| `Organize_mixed` | 2 runs over one gallery | refutes `MixedTeachesNothing` |

What each shows:

- **`SuccessIsBacked`**: however runs are cut short and resumed, an item a run
  counts as finished has a whole output, made from the source as it is and under
  this run's settings. It is what the user relies on when files are deleted after
  a resumed job says it is done. It holds where targets are committed by an
  assembly or a rename; the refutations show what breaks it elsewhere.
- **`NothingLeftRunning`**, **`FinishedStaysFinished`**, **`SegmentsNotForgotten`**:
  a run that ends in order leaves no record running, also not one of an earlier
  plan; no step reopens a finished task or drops segments unless the source, the
  target or the whole snapshot went first, except that where recorded segment files
  are gone (a cleanup, a crash before the success is recorded) the next closed segment
  lowers the record, to exactly those there. The last two hold with lost flushes.
- **`EventuallyAllDone`**: finitely many events of any kind cannot leave a status
  that no later run executes.
- **`OutputIsWhole`**, **`RecordedAreWhole`**, **`RecordedIsNotEncodedAgain`**,
  **`EventuallyDone`**: a segmented encode gives every frame once, believes no
  file in flight, redoes nothing recorded, and ends.
- **`Exclusive`**, **`StopIsPrompt`**, **`HookIsTruthful`**, **`ImplementsBatch`**,
  **`BatchReturns`**: the unlocked vector is safe, a stop costs at most one more
  task per worker, no bar is told more than there is, the loop is the batch a
  stage relies on, and it returns.
- **`SummaryIsHonest`**: the summary's numbers are those of the store's records and
  account for every item: succeeded, recovered, skipped, failed, canceled, never
  started. **`FailuresAreTheirOwn`**: an encode that failed before any stop is
  reported as a failure, one that failed under a pending stop is not.
  **`EndIsHonest`**: success means that no item was left undone, cancellation that
  there was a stop, which then leaves no record running; the saved state is
  removed only where nothing was done. **`MonitorSeesAll`**: what the monitor
  decides by, the count and the slots, is right at every moment, so it leaves
  neither early nor never. **`RunReturns`**: the join returns.
- **`StopIsHeard`**: a wait reports a stop only when there is one (on Windows also
  one that the reset at the start erased), and nobody sleeps on an event that a
  handled request left unset, although it is created late. **`CallIsTruthful`**: `exec2` answers with the cancellation code
  only for a child the stop found running, has all of the output of a child that
  ended by itself, and hands out lines whole. **`ScreenIsTruthful`**: nothing is
  painted over an erased screen, a spinner has no estimate. **`BadgeIsSane`**: an
  estimate comes of forward movement since its attempt began and is never
  negative or divided by nothing.
- **`NeverTorn`**, **`NothingErased`**, **`ImplementsRegister`**: the state file.
- **`ProbeIsSound`**: the chosen CQ meets the floor on every point of its scale, is
  bracketed by a point that does not, and is given up as unreachable only after
  the lowest CQ was tried; cached decisions belong to their source's version
  whatever other processes save; every file gets a plan or the run was stopped.
- **`SettingsAreSound`**: commands that ran alone did what they were told to both
  files and left every other option's value alone, but for flags written by hand as
  something other than a JSON Boolean, which a rewrite turns off; and a run starts
  with what was typed before what was stored.
- **`ModelsAreSound`**: no model of another content and no incomplete set of
  libraries is ever used; what is whole is not fetched again.
- **`SupportReturns`**: every waiter learns of a stop, on Windows a process that
  ignores it is ended, a stopped call returns whatever the child does, erasing
  bars returns.
- **`PackIsHonest`**: an archive counted as packed is whole up to entries that had
  vanished, unless its close failed unheard; a stop leaves no half archive, the exit
  code and the counts say what was packed. **`PackReturns`**.
- **`PlansAreSound`**: every file is in one archive, within size and count or
  alone, directories together where they fit, archive names apart and in order;
  outputs of one run are apart and their renaming ends; with forced naming a
  name does not depend on rivals; no entry of an archive replaces another, where
  names are forced or separated on adding; a kept layout is the layout of the source;
  the lazy queue of the clustering stands for exactly the merges the linkage,
  computed from scratch, would allow, and its groups part the images.
- **`BatchIsHonest`**: one answer is asked for all, a refusal skips all that is
  left, the exit code is the merge of what the subfolders did.
- **`ConversionsAreSound`**: archives hold conversions of the sources, all but those
  that failed, and caches survive a stop; a WebP encode reported as done has left
  a whole file of its own, under the target size or of the lowest tier, and one
  that is not has left none.
- **`OrganizeRunIsSound`**: every image goes to one folder and new folders have new
  names; the cache on disk is at most a few puts behind; what was cached is not
  classified again; a run that reports success has every image in the tree or names
  it as an error, one that reports a stop was stopped.
- **`CopyPhaseIsSound`**, **`CopiesAreKept`**: the tree has whole images only, none
  is overwritten, and a completed run filed or named every image.
- **`PreviewIsSound`**: windows lie inside the video, apart and up to its end; each
  is shown beside its original; a file reported as written is whole; a stop is
  not reported as an error nor an error as a stop.

Every property has at least one mutant in `PROJECT.json`: a change a programmer
might make in one mapped definition, under which TLC finds the property violated.

### Bounds, and why they are enough

- `Budget` bounds the events of the environment, not the runs or the steps: a
  behaviour may resume as often as it likes. The refutations need at most three
  events; four leave room for a chain such as crash, resume, stop, deletion, resume.
- Two tasks: every operation of the store is on one record or on all alike, so
  two show one disturbing the other. Three tasks with three workers are enough
  for a claim, a count and an announcement each by another worker, and for a
  worker that finds nothing left while another one runs. `EncodeBatch` has two of
  each: one item ends while the other is active, claimed or unclaimed.
- Two or three segments: a first, a middle and a last one. 6 snapshots: a run's
  initial flush, two changes, and the next run's.
- Two waiters and two requests: one drains the other's byte, the second request
  comes in each step of the first. Three half lines: a line and a half. Two
  clocks and two bars: one clock is being joined while another starts.
- Scores 0 to 2 around a floor of 1 are below, at and above it; the CQ grid is
  the code's own (`encode_probe.h`). Two videos, two entries of the cache and two
  processes: an entry is evicted for another, a save overtakes another.
- Two commands on two option keys: one is named and one, a flag, is not. Two model files
  and one library beside the marker.
- Two archives of two entries by two packers, two runs: a filtered plan whose
  indexes differ from the whole one's. Sizes 1, 2, 4 against a limit of 4: less
  than, exactly and more than fits. Up to four files in two directories.
- Six given files: two of one name from two folders of one label, one of another
  kind, and three that are already called what the rule, the renaming or the
  archive would call the others; every subset in the order of scanning, and every
  order of subsets of up to `MaxShuffled` = 3.
- WebP sizes 12, 21, 25 against 20: fits, is a little and is far too large; the
  qualities are the code's.
- Four images to cluster: two clusters of two, whose stale pairs meet in the
  queue. Two loose and two kept images in the galleries of `MCOrganize`;
  two runs over each, with one failed copy a run (`MaxFailed`).
- `MaxSuffix` 5 is more than the copies the images can have, so the loop over
  suffixes always ends for the code's reason.
- `SegmentResume.cfg` has `Total = Cuts`; `SegmentResume_tail` is the case where
  they differ, which the safety theorems cover too.
- `CHECK_DEADLOCK FALSE` is used where the system really stops: a batch that
  returned, a program that ended, a task that is done and has no event left, no
  run left.

### Fairness

- `JobState!Fairness`: the user resumes the job, each started run takes its
  steps, each worker finishes what it does. Weak fairness on each suffices: none
  of these actions is disabled again by another one for good. Nothing is assumed
  of the environment: its events are finite because of `Budget`, and a crash or a
  failure that never stops coming would indeed keep a job from ending.
- `SegmentResume!FairSpec`: the steps of an attempt, which the code runs one
  after the other (weak fairness of their disjunction), and the user who resumes.
- `TaskExecutor!Fairness`, `Packing!PackFairness`: each worker thread is scheduled
  and each task's runner returns, which is what ffmpeg and `terminateOnStop` are
  relied on for, and the caller is woken when the pool has drained.
- `EncodeBatch!Fairness`: the main, monitor and worker threads are scheduled; a
  child ends or is terminated, which `Exec` shows of the latter.
- `StopSignal!SigFairness`: handlers and threads are scheduled and time passes; the
  timeout of a wait is counted on only on POSIX, where a byte may be eaten.
- `Exec!ExecFairness`: the event loop runs; nothing is assumed of the child.
- `ProgressBars!BarsFairness`: the ticker and the thread that erases are scheduled.

### What the refutations say

1. *A partial in-place output is taken for a finished one* (`JobState_inplace_crash`).
   A record found `running` is protected from being judged by its target's
   existence, but only once: `initialize` makes it `interrupted`, and `mergeTasks`
   normalises it again in the same run.
2. *Outputs of other settings pass for this run's* (`JobState_settings`). A
   mismatched state is discarded, its targets stay, and a run cut short before
   it reaches a task leaves a pending record with an existing target.
3. *A task that can never be finished* (`SegmentResume_tail`). Where fewer
   segments are cut than the duration implies, "nothing left to encode" is told
   from the encoder's list; listed times count from where the attempt began, so
   after a resumed attempt the list never reaches the end. Stopped while
   assembling, the task encodes an empty tail at every later attempt and fails.
4. *A replaced clip is packed as it was* (`Picture_stale`). The record of a replaced
   clip is reset to pending under its new fingerprint at once, its old conversion
   is purged only later in the run; a run that ends in between makes the next
   one restore the record from the old file, because the file exists.
5. *`mixed/` teaches* (`Organize_mixed`). The folders of the output tree become
   references of the next run, `mixed/` and `uncategorized/` with them. After a
   complete run over an unchanged gallery this does not show: an image's own folder
   holds its own feature and scores best. It shows for an image the first run did not
   copy, because the copy failed, the run was stopped or the image is new: in the run
   found, the copy of a lone image fails, and the second run files it into `mixed/`,
   which holds one of its look.

### Seen while modelling

Where the code does not do what a comment, a document or the neighbouring code
suggests, and no run has it for a subject of its own:

*Job state and encoding*
- an exception out of the encoder is a failed item and leaves its record running
  until the run's end;
- when recorded segment files were removed, the encode restarts at the first
  missing one, but the record is lowered only at the next closed segment
  (`SegmentsNotForgotten` says to what): a stop
  before that leaves a partial file under a recorded name (the `intact` of
  `SegmentResume`);
- a failed restore leaves nothing at the state path, against
  `openspec/specs/job-state-resume-matching/spec.md:132`, and the next refused
  flush deletes the backup (`core/job_state.cpp:579`, the `"restore"` of
  `StateFile`); a backup left by a crash outlives later commits (spec line 142);
- a source edited between runs may be restored from its stale target; flushes
  that keep failing leave records running or partial targets counted: the reason
  `JobStateProofs` asks for `SafeSetting`;
- `runTasks` reads the flag again after the pool has drained: a batch whose every
  item succeeded may be reported as canceled;
- the monitor's late sample lands after the item's end and becomes the first one
  of the next item's estimate (`video/video_encoding_state.cpp:208`, against
  `openspec/specs/progress-eta-badge/spec.md:34`), and a late render lowers a
  recorded percentage;
- a probe that fails for all is a canceled summary with exit code 0
  (`video/video_batch_execution.cpp:554`);
- a stop before the first attempt of a WebP encode deletes an older output.

*Signals, children, bars*
- a request between `installHandler` and `reset` is forgotten (`app/app_entry.cpp:265`);
- half a line is lost when a child's end wins the race against its last read
  (`utils/utils.cpp:363`, against `openspec/specs/subprocess-exec/spec.md:54`);
  the drains of `runProcess` do not watch the stop; a child that had ended when
  the stop came keeps its exit code, but its output may be cut;
- the postfix and its badge together may exceed a line of 60 columns.

*Probing*
- decisions of a stopped phase are not saved; interpolation between points of two
  scales may choose a CQ that was measured to miss, and scores that are not
  monotone leave the search on one side; `onStep` counts in a plain variable from
  four threads (`video/encode_probe.cpp:611`); a source replaced while it was
  probed gets the old decision under its new key (`video/encode_probe.cpp:731`).

*Names and archives*
- `README.md:118` says that `--force-conflict-handling n` allows duplicates; the
  planner separates them all the same. `docs/backlog.md:130` says that every
  planned name is a pure function of its own input, which holds only with forced
  naming; names say `hevc` whatever `--video-codec` is;
- packing in the compact way does not use `makeUniqueZipEntryName`: with kept
  layouts or forced naming off, two videos of one file name replace each other in
  the archive (`pack/packer.cpp:481`, against what `packer_tests.cpp:258` asks of
  the other way); `EveryEntryIsThere` of `OutputNames` leaves that case out;
- an entry that is gone when the packer comes to it is passed over without a word and
  the archive is recorded and reported as packed (`pack/packer.cpp:407`, `:480`); when
  all are gone there is no archive, and the next run packs it again;
- the answer of `zip.close()` is dropped (`closeFailed` of `Packing`); an entry that
  fails leaves a partial archive unless `removeOnFailure`, which on a stop also
  removes an older archive; a stopped archive is recorded as failed.

*Pictures and previews*
- a stale compressed picture is packed when its compression fails (against
  `openspec/specs/picture-compress-resume/spec.md:65`); few remaining pictures that
  all fail drop the whole cache (spec line 90); `a.png` and `a.jpg` have one
  cached name when naming is not forced; the state's match ignores
  `compressImages` and `imageQuality`;
- `--crf` does not bypass the probe of a preview (against
  `openspec/specs/video-preview/spec.md:143`); the worst window is chosen by scores
  of different metrics; a failed render leaves a partial file in place of an older
  preview.

*Organize and models*
- a run that could not copy some images names them in its report and exits with 0
  (`organize/organize_command.cpp:252`), like one that copied all;
- a second run copies an image again that it had to give a suffix, since only the
  plain name is compared by content; a folder made for a copy whose rename failed
  stays empty (`organize/execute.cpp:124`, against
  `openspec/specs/image-character-organize/spec.md:92`);
- `cache.put` drops tags below 0.53 that tag counts read above 0.50
  (`organize/cache.cpp:104`): an analysis read from the cache may count otherwise
  than a fresh one; unlike pages refiled by a second run get a folder of their
  own with a suffix; two images of one content that are both not cached are both
  classified; the counter of unsaved puts is reset when a save fails;
- two processes fetch to one `.part` file and verify what the other writes
  (`tagger/model_store.cpp:50`, against the same spec's line 488): `ModelStore` has
  one process at a time.

*Options and batches*
- `config set` and `unset` drop keys this version does not know (against
  `openspec/specs/user-config/spec.md:135`) and, with `template save` and `unset`,
  turn a flag that another key's change finds as `"yes"` or `1`, which a run reads
  as on, into `false` (`cmd/config_store.cpp:208`); `template save` fails with the
  template saved when its schema cannot be written (`cmd/template_command.cpp:162`);
  files are truncated and written in place; two commands at once lose one's change
  or leave half a file;
- a stored `compress=true` makes every run fail that is not for pictures;
- a declined prompt ends with 0, the public table of exit codes says 1.

## 4. What is proved

All of it for every value of the constants, under each module's named assumption
(`…Assumption`: counts are naturals, what a directory holds is finite, the kinds
of tasks do not overlap, `Faults` names known faults). Of the properties the
passing runs check, all are theorems but the liveness properties.

| theorem | says |
| --- | --- |
| `JobStateProofs!TypeCorrect` | `Spec => []TypeOK` |
| `JobStateProofs!RecoveredIsBacked` | under `SafeSetting`, `Spec => []SuccessIsBacked` |
| `JobStateProofs!FinishedIsFinal` | `Spec => FinishedStaysFinished` |
| `JobStateProofs!SegmentsAreRemembered` | `Spec => SegmentsNotForgotten` |
| `JobStateProofs!RunsEndQuietly` | without lost flushes and exceptions, `Spec => NothingLeftRunning` |
| `SegmentResumeProofs!OutputsAreWhole` | `Spec => []OutputIsWhole` |
| `SegmentResumeProofs!RecordsAreWhole` | `Spec => []RecordedAreWhole` |
| `SegmentResumeProofs!RecordedIsKept` | `Spec => RecordedIsNotEncodedAgain` |
| `TaskExecutorProofs!TasksAreExclusive` | `Spec => []Exclusive` |
| `TaskExecutorProofs!UncanceledIsComplete` | `Spec => []SkippedOnlyByStop` |
| `TaskExecutorProofs!StopsArePrompt` | `Spec => []StopIsPrompt` |
| `TaskExecutorProofs!HooksAreTruthful` | `Spec => []HookIsTruthful` |
| `TaskExecutorProofs!BatchIsImplemented` | `Spec => Batch!BatchSpec` |
| `SupportProofs!FilesAreWhole` | `FileSpec => []NeverTorn` |
| `SupportProofs!CommittedIsKept` | `FileSpec => []NothingErased` |
| `SupportProofs!RegisterIsImplemented` | `FileSpec => Register!RegisterSpec` |
| `EncodeBatchProofs!SummariesAreHonest` | `Spec => []SummaryIsHonest` |
| `EncodeBatchProofs!FailuresAreNotMixed` | `Spec => []FailuresAreTheirOwn` |
| `EncodeBatchProofs!EndsAreHonest` | `Spec => []EndIsHonest` |
| `EncodeBatchProofs!MonitorsSeeAll` | `Spec => []MonitorSeesAll` |
| `SupportProofs!StopsAreHeard` | `SigSpec => []StopIsHeard` |
| `SupportProofs!CallsAreTruthful` | `ExecSpec => []CallIsTruthful` |
| `SupportProofs!ScreensAreTruthful` | `BarsSpec => []ScreenIsTruthful` |
| `SupportProofs!BadgesAreSane` | `EtaSpec => []BadgeIsSane` |
| `SupportProofs!ModelsStaySound` | `MsSpec => []ModelsAreSound` |
| `SupportProofs!SettingsStaySound` | `SetSpec => []SettingsAreSound` |
| `SupportProofs!ProbingStaysSound` | `CqSpec /\ ProbeSpec => []ProbeIsSound` |
| `WorkflowProofs!BatchesAreHonest` | `BatchSpec => []BatchIsHonest` |
| `WorkflowProofs!PacksAreHonest` | `PackSpec => []PackIsHonest` |
| `WorkflowProofs!PreviewsAreSound` | `PvSpec => []PreviewIsSound` |
| `WorkflowProofs!SearchesAreHonest` | `WebpSpec => []WebpIsHonest` |
| `WorkflowProofs!ConversionsStaySound` | `PicSpec /\ WebpSpec => []ConversionsAreSound` |
| `OrganizeProofs!CopiesAreSound` | `CopySpec => []CopyPhaseIsSound` |
| `OrganizeProofs!CopiesStay` | `CopySpec => CopiesAreKept` |
| `OrganizeProofs!RunsAreSound` | `OrgSpec => []OrganizeRunIsSound` |
| `OrganizeProofs!QueuesAreExact` | `LinkSpec`: by every additive linkage the queue is exact |
| `OrganizeProofs!MergesAreBest` | `LinkSpec => [][BestIsMerged]_linkVars` |
| `OrganizeProofs!GroupsPart` | `LinkSpec => []GroupsPartition` |
| `OrganizeProofs!LinkagesAreExact` | `LinkSpec => []LinkageIsExact` |
| `PlanProofs!PlansPack` | `GroupingSpec => []PlanIsSound` |
| `PlanProofs!NamesSound` | `NamingSpec => []NamesAreSound` |
| `PlanProofs!PlansSound` | `GroupingSpec /\ NamingSpec /\ LinkSpec => []PlansAreSound` |

Type correctness of `SegmentResume`, `TaskExecutor` and `StateFile` is proved on
the way. Each proof rests on an inductive invariant that says what the property
leaves out:

- *RecoveredIsBacked*. That counted items are backed is not inductive: an item is
  counted in memory because of a record that may have come from disk, and the
  record says succeeded because some earlier run looked at a file. The invariant
  says of every record, in memory and on disk, what it must tell of its target:
  a target exists only where an attempt is recorded, a partial one only under a
  record with segments, which no normalisation turns into a success. `SafeSetting`
  (no in-place task, no edited source, no replaced snapshot, no lost flush) is
  what the refutations and the notes above show to be needed.
- *SegmentResumeProofs*. A whole output needs every piece whole at the assembly.
  `SegmentInv` adds: a recorded count means an earlier attempt had a whole track
  (`AudioInv`); the encoder is never behind the record and leaves whole segments
  behind it (`EncoderInv`), which is why `StartNumber` is exactly `recorded`
  (`StartNumberIsRecorded`) and why only segments past the record are opened;
  what reaches the assembly is all the segments (`AssemblyInv`). All of it as
  long as `intact`.
- *FinishedIsFinal*, *SegmentsAreRemembered*. Flushes may be lost, so a restart may
  find an older snapshot than the one a run decided by. `RecordsInv` says that the
  record on disk is never ahead of the one in memory as long as both are of the
  source as it is (`DiskBehind`), and that a worker has only tasks whose record is
  running and whose segments came with an attempt. What a progress mark records is
  what is there, never less than the attempt believed, so that it falls short of the
  record only if recorded files were gone. Nothing is asked of `Faults`.
- *RunsEndQuietly*. Every running record is of a task whose worker is at it; a
  lost flush or an exception leaves one behind, which is why the theorem excludes
  these two faults (the run that checks the property has neither).
- *TaskExecutorProofs*. The indexes below `nextIndex` are exactly those that have
  an outcome or are held by one worker; the refinement follows action by action.
  For the counts, `CountingInv` adds them up: what is recorded is counted or about
  to be, what is counted is announced or about to be, all counts differ, and
  after a stop the index and the workers between the flag and the claim
  stay below where the index was and one for each worker.
- *FilesAreWhole*, *CommittedIsKept*, *RegisterIsImplemented*. Where a flush is in its fallback determines which of the
  three files holds what, and a new snapshot is newer than both others until it
  is placed; every file operation is then a register step or a stutter.
- *EncodeBatchProofs*. At every moment each item has a story that its outcome, its
  record and the sets `killed`, `failedRun` and `victims` agree on (`ItemsInv`), and
  the worker that holds it is at the step of that story (`PoolInv`); the count and
  what is left, held and skipped add up to the total (`CountInv`); a part of the
  plan is left behind only by a stop (`StopInv`). The four properties are
  readings of these stories at the ends of the batch.
- *StopsAreHeard*. Past the reset a request is in the flag or was erased by it, and
  on Windows a created event is set, or somebody is about to set it.
- *CallsAreTruthful*. A reader on the merged stream has half a line exactly when it
  has read an odd number of halves, and a stream seen at its end stays there.
- *ScreensAreTruthful*, *BadgesAreSane*. The lines on the screen are those of the
  last paint; an estimate's anchor lies in the present attempt.
- *ModelsStaySound*. The libraries are there whenever their marker is, and how far
  a run has come says what it has checked.
- *SettingsStaySound*. That commands do as told is not inductive: it speaks of
  moments between commands. `AgreeInv` says of every moment of a history without
  overlap that a file is as told or is being written by the one command there is,
  from a content that was.
- *ProbingStaysSound*. The CQs measured are consecutive, and there are five shapes
  of them when the decision is made (`Measured`): the interpolation is between
  neighbours or at an open edge. Of the cache, `Sound` holds of whatever any
  process saves: its entries are true of the version they are keyed by, whatever
  version is on disk. `NoVideoLost` says why a phase that ends has all plans.
- *BatchesAreHonest*. What was answered decides what later subfolders may do.
- *PacksAreHonest*. The filtered plan holds what is not on record, once (`PlanInv`);
  claims are at work or have an outcome (`ClaimInv`), records follow outcomes
  (`RecordInv`), a partial archive has a failed entry and a worker or a record that
  says so (`ZipInv`), what a worker has not added had vanished and an archive that
  lacks entries is known to or being written anew (`LackInv`), and the count of files
  is that of the entries as long as nothing failed (`CountsInv`).
- *PreviewsAreSound*, *SearchesAreHonest*. A window that failed is remembered until
  the verdict; a tier is tried only after a file above the target.
- *ConversionsStaySound*. What the phase has made of each picture and clip
  (`PictureInv`, `ClipInv`), that an outdated picture shows by its time unless it is
  `aged` (`OutputInv`), and that a success on record is of the conversion there is
  unless the clip was `adopted` (`BackedInv`), the case the refutation is about.
- *CopiesAreSound*, *CopiesStay*. While an image is placed its destination is free
  and what is staged is whole when it is renamed; what a run has gone through is
  filed or failed and counted once (`Accounted`).
- *RunsAreSound*. What memory has and disk lacks is counted by the pending puts,
  unless a rewrite failed (`StoreInv`); what is left to analyse was not in the
  cache when the run began (`AskedInv`); the folders taken are finitely many, so
  the search for a free suffix ends with one that is free (`UniqueIsNew`);
  a run under way has named no errors yet (`ErrorsInv`).
- *QueuesAreExact*, *MergesAreBest*. Every candidate was current once; one whose two
  versions are still those of its clusters still is, because each merge moves a
  version; and what reaches its threshold is queued (`QueueInv`). The sum of two
  clusters is that of every function of two sets that is symmetric, additive and
  the score on pairs (`IsLinkage`, `SumsInv`). The top of the queue exists because the
  comparison of means by cross-multiplication is transitive (`BeforeIsTransitive`).
- *LinkagesAreExact*. That the sum from scratch which the property speaks of is such
  a function: a sum over a finite set, taken element by element in an order nobody
  fixes, exists, is one whatever the order, and is additive over disjoint sets
  (`SumLaws`, by smallest counterexamples); `SumIsLinkage` follows, and with
  *QueuesAreExact* the queue that is updated in place is that of the definition.
- *NamesSound*. A round of the renaming gives its hash to every output that coincides
  with another, and two outputs that both end in their own hash do not coincide: so
  each round marks at least one that was not marked (`OneIsUnmarked`), and rounds and
  unmarked outputs together are never more than the files (`OutputsInv`). Under
  forced naming all are marked from the start, so nothing is renamed. In an archive
  that separates names, one of the alternatives is free, since they are one more than
  the names in use (`NameIsFree`); in the others, forced names differ by their last
  words, and what is in the archive and what is still to be added stay apart
  (`ArchiveInv`).
- *PlansPack*. The state is one request, so the argument is about what its operators
  compute. A recursive function is the one its steps say because one exists
  (`RecursionExists`), and what its steps keep holds to its end (`Climbs`). A packing is
  a sequence of units that share no file, each with the size and count of its files
  (`IsPacking`). A pass keeps that its groups are a packing of the units done, within
  the limits or a single unit, and one group when everything fits (`Grouped`,
  `SplitGroups`); the chunks of the directories are such units (`EntriesGrouped`), and
  a directory that fits is one chunk, so no pass takes it apart. Parts cut into
  archives and laid out one after the other are a packing again (`PartitionsCutUp`,
  `FlatPlaces`); two archives of one part have sub-parts of their own, so names differ
  (`NamesOfArchives`), and the lengths add up to the number of files, so the ranges
  count them (`RangesOfArchives`).

Only model-checked:

- the liveness properties (`EventuallyAllDone`, `EventuallyDone`, `BatchReturns`,
  `RunReturns`, `PackReturns`, `SupportReturns`): out of the prover's reach under
  fairness.

Induction is by smallest counterexample (`LeastNumber`, `SmallestSet`): the induction
theorems of the library take an operator as a parameter, which the installed
provers cannot instantiate. That is why the models use recursive functions and folds
and no `RECURSIVE` operator.

## 5. What is not modelled, and the plan

Not modelled, with the reasons:

- command-line parsing, help and completion scripts: text and layout; of the
  command line `Settings` has what decides a value;
- encoder command lines and filter graphs as text: `SegmentResume` and `Preview`
  have what the flags mean for files, starts and inputs;
- inference of the image tagger, scoring of videos, compression of pictures:
  floating point in third-party libraries, here any value they may return;
- logging and crash reports: nothing reads them;
- scanning, path helpers, the terminal, hashing: input and output without state
  that outlives a call; a hash is taken to be injective (`OutputNames`), a file's
  content and times are versions;
- layout of summaries, tables and bars, beyond how many lines are painted.

What is left to prove is how the parts use each other: that `ProbePhase` uses
`CqProbe`, and `Packing` `TaskExecutor`, as those promise.
