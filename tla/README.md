# NodeFusion in TLA+: models, checks and proofs

NodeFusion records what an operating-system kernel does while it runs under
QEMU and turns the recording into a report. A QEMU plugin
(`plugin/nf_plugin.c`) writes a trace file, a recorder (`host/record.py`)
builds the kernel and drives QEMU, and an analysis (`host/nftrace.py`,
`guest.py`, `analyze.py`, `callstack.py`, `bundle.py`) reads the trace, rebuilds
guest memory, normalises events, joins call frames, and writes a bounded report.
All paths below are relative to `src/nodefusion/`.

Contents: 1 inventory, 2 modules and their correspondence with the code, 3 the
runs, 4 fairness, 5 the proofs, 6 disagreements between code and documentation,
7 what is not modelled, 8 plan.

## 1. Inventory

### Components, their state and what makes them correct

| part | state | operations | hard because | correct when |
|---|---|---|---|---|
| snapshot writer, `nf_snapshot` | trace file, shadow copy of every page, byte budget, counters | begin, read a chunk, compare and write a page, read page by page after a refused read, patch the SNAPMARK | stores of other vCPUs during the copy, refused reads, the budget running out half-way, QEMU killed between placeholder and patch | what the reader rebuilds is what the plugin believes it has written; losses are flagged; an unflagged snapshot is memory at one instant |
| plugin callbacks, `nf_plugin.c` | instruction counters, sample and snapshot deadlines, per-watch hit counters, `nf.lock`, `nf.out` | vCPU init, idle, exit; deadline check; watch hit; discontinuity; return; `nf_finish`; `nf_die` | the clock is read before the lock, deadlines are tested twice, the file is closed under the feet of waiting callbacks, the disk fills up | spacing and limits hold, each vCPU's records are in order, END counts exactly what the file holds and is absent after a loss |
| trace reader, `nftrace.load`, `RamImage`, `rebuild_states` | list of snapshots, cumulative RAM image | read a record, lay pages over the image, mark states complete | it meets truncated files and unpatched marks | the image is the last write of every page |
| call chains, `callstack.observed_stacks` | one list of frames per vCPU | entry, return, cut | functions that are not watched, frames abandoned by `sret`, several tasks on one vCPU, sibling calls | a shown chain is a chain of suspended frames |
| recorder files, `ArtifactGuard`, `build_kernel`, `_calibrate` | kernel products, disk images, backups | back up, delete stale products, build, check, restore, calibrate | any file operation may fail and the recorder may be killed in between | nothing that existed is lost, the recorded kernel is fresh, the recorded disks are clean |
| QEMU session, `_drive*`, `_ConsoleReader` | QEMU process, two pipes, two reader threads, deadlines, outcome | watch, send, classify, QMP quit, terminate, kill, join | console text arrives later than the process state; everything can hang | it ends, leaves no QEMU, and reports what the console shows |
| event selection, `bundle._event_selection` | budgets, per-kind counts, retained events | budget, quota, systematic sample | rounding, floors larger than shares, kinds with one event | the budget is used, rare kinds survive, the sample is even |
| event normalisation, `analyze.build_events` and its handlers | three streams, allocator counts, process rows per state, current row per vCPU | merge the streams, choose between entry and completion records, attribute to tasks | two channels may report one operation; records reach the file in lock order; attribution relies on earlier snapshots | the events of a vCPU keep its order, name the task that ran, stand for one operation each |
| numbers and their audit, `Analysis.metrics`, `bundle._coverage` | counts of events and semantic records, states, drops, END | value of a metric, hits derived from two counts, sampled / not applicable / missing, blockers, denominator | rate limits, requests in flight, missing functions, cut recordings, snapshots before the kernel is initialised | a number is the guest's or marked, "complete" means complete, the denominator counts the units |
| guest decoding, `guest.py` | none (functions of an image) | free-list walk, page-table walk, owners of pages, process table, task tree | memory caught in the middle of an update, pages that were never covered | shown address spaces, free counts and trees are the kernel's, or an error shows |
| plan execution, `model/exec.py`, `model/readers` | interpreter state | walk a tree of containers under a bound | bounds, cycles and missing data | what is not listed is accounted for |
| video export, `video.py`, `cdp.py` | browser process, socket, directory of pictures, MP4, sidecar | launch, command, wait, close, retry, encode, write the sidecar | late or missing answers, hangs, a report that is replaced, an earlier export's pictures | it ends, closes its browser, and the sidecar tells the truth |
| build archive, `kernels.archive_build` | archive directory | copy to `.part`, rename | several recorders at once share one `.part` name | the archived ELF is the identified one (not modelled) |

Not part of this development, with reasons in `PROJECT.json` and section 7: ELF
and DWARF parsers, most manifest readers, source snapshots, the HTML viewer,
command line, scripts, patches, vendored code.

### How they interact

```
 record.py --builds--> kernel ELF, image        RecorderFiles
    |  starts QEMU, reads console and stderr    DriveSession
    v
 QEMU + nf_plugin.c --writes--> trace.nfb       NfPlugin (callbacks, lock, shutdown)
                                  |             SnapshotDelta (inside of nf_snapshot)
                                  v
 nftrace.load -> RamImage -> rebuild_states     TraceReader
                    |-> decoders (guest.py)     GuestPages
                    |   and plans (model/)      TaskTree
                    |-> build_events            EventTimeline
                    |-> observed_stacks         CallStacks
                    |-> _event_selection        EventSelection
                    '-> metrics, _coverage      ReportAudit
                          |
 report (HTML) -> browser -> MP4, sidecar       VideoExport
```

The plugin and the host share only the trace file and stderr. `SnapshotDelta`
EXTENDS `TraceReader`, so that the two ends of the file are checked against each
other on the same sequence of records; `RamHistory` is the promise they make
together. `DriveSession` has the plugin's last line on stderr, which is
the recorder's only evidence that `NfPlugin`'s `Finish` was executed.
`EventTimeline` takes from `NfPlugin` what its callbacks guarantee about the file:
a record is stamped before the lock is taken, and each vCPU writes its own in order.

## 2. Modules

**SnapshotDelta** models `nf_snapshot` and `nf_snapshot_page`. `phase` is the
position of the thread in the function: `guest` (outside), `chunk` (before the
read), `pages` (the loop over a chunk that was read), `fallback` (page by page
after a refused read). `BeginSnapshot` writes the placeholder SNAPMARK;
`SnapshotPage` is one call of `nf_snapshot_page` and is one of `SkipPage`,
`HitBudget`, `RecordPage`; `EndSnapshot` patches the mark. A read
(`ReadMemory`) may race with stores: the bytes obtained may be older or newer
than what memory holds at the end of the step, and the pages concerned are noted
in the history `truth`. `Killed` cuts the file at any place after `synced`, the
part that certainly left the stdio buffer, also inside the window in which the
patch exists only in the buffer. Compressed lengths are a function of the
content (`BodyLen`); page contents are model values.

**TraceReader** is `nftrace.load` for the records of snapshots, `RamImage.apply`
and `rebuild_states`, as folds over the file, plus a reference definition
(`LastWrite`) that does not use the fold.

**RamHistory** is the abstract specification: guest memory changes by stores and
is now and then observed whole. `SnapshotDelta!ImplementsHistory` maps each
snapshot without a flag to one observation.

**NfPlugin** models the callbacks as threads. Every callback has a part before
the lock (`TbEnter`, `EventEnter`, `WatchEnter`: latch the clock, test the
deadline or the rate limit) and a part inside it (`TbLocked`, `EventLocked`,
`WatchLocked`); `nf_snapshot` is one step here because it runs inside the lock.
`FinishAtMaxInsn` and `AtExit` are the two ways to `nf_finish`; `WriteFails` is
`nf_die`. Counters are unsigned: the subtraction in `Calm` is taken modulo
`Wrap`. `trace` holds records with their vCPU, clock and reason, which is all
that the properties tell apart. On several vCPUs the clock is the sum over the
scoreboard, taken in one step; the code adds the vCPUs one after the other, and
the only fact that the properties use, that the sums of one thread do not
decrease, is true of both. `PluginAssumption` asks that a
configuration without `snapstart` takes no snapshot at boot (record.py:866 sets both
or neither; with a hand-written `bootsnap` alone the first interval would be shorter
than `DenseFromStart` says) and that each watch list is finite.

**CallStacks** runs `observed_stacks` against a guest that really has stacks:
tasks call, tail-call, trap, return, switch and abandon their frames by `sret`,
watched functions produce rows, others do not. The loop body is `EntryRow`,
`ReturnRow`, `BreakChain`; `report` is the path given for the entry just seen.
All tasks share one `satp`, the least favourable case for the joins.

**RecorderFiles** models the recorder's treatment of files: `ArtifactGuard` (`Enter`,
`Backup`, `RestoreFile`, `RestoreFails`, `ExitFails`, `ExitRestores`,
`ExitRemovesBackups`), `build_kernel` (`SkipBuild`, `StartBuild`,
`DeleteStale`, `Build`, `CheckBuild`) and the guarded calibration run. A file's
content is `old`, `built`, `dirtied` or absent. Every operation may raise
`OSError`, the build command may do anything to the files, and `Killed` is
possible anywhere.

**DriveSession** models `_drive`: QEMU (`running`, `closing`, `hung`,
`gone`), its pipes, the reader threads, the main thread's position `pc`, and the
deadlines. A step of the main thread is what it does between two reads of shared
state: the text is copied by `Look` and judged by the next step, `poll()` and
`reader.text()` are separate steps where the code separates them. A console
marker is one token. `profile` chooses between the headless and the shell loops
and says which markers exist.

**EventSelection** is `_kind_budgets` and `_event_selection`: the counts are
arbitrary, the pass over the events takes them in any interleaving of kinds, and
`Retain` is the position test of the systematic sample.

**EventTimeline** has the guest and the analysis. Guest operations (`Trap`, `Begin`,
`Apply`, `Commit`, `Fail`, `Spawn`, `Reap`, `Switch`, `Snap`) leave records in
`pend`, stamped with the clock and waiting for the file lock: those of one hit are a
set that `Write` appends to the streams of `file`, so streams are in lock order. Each
`Merge` consumes one record as `heapq.merge` and the three handlers do: `Superseded`
drops an entry for which a completion record stands, `NftraceEvent` and
`DisconEvent` update the current row, `Attributed` finds the pid through the semantic
channel, the process row of a state (`StateIndexFor`, with `Bisect` for the rounds of
its binary search, and `SearchOrder`) or the context address. `PhysFree` takes the
allocator counts as `SortedBefore` orders them: by clock, equal clocks in file order. `who` and `op` are ghost fields of the records: the pid that ran and the
operation; the analysis does not read them. `EventsNameTheTask` has two halves:
`SemanticEventsNameTheTask` for a recording with the switch channel,
`FramedEventsNameTheTask` for one that knows tasks only by their process rows.
`KernelAssumption` lets a manifest declare that completion records stand for
`clone` only when it also has that channel (docs/manifests/REFERENCE.md:79).

**ReportAudit** counts what a guest does (`GuestAlloc`, `GuestRead`, `GuestDisk`) next to
what is recorded of it under the watch list and the rate limits, takes snapshots
that decode or not, and may be cut at any time. The second half of the module
defines the report as functions of the records: `Value`, `Hits`, `Sampled`,
`NotApplicable`, `SnapshotUnits`, `BadSnapshots`, `TotalUnits`, `Complete`.

**GuestPages** is an xv6-like kernel that allocates, maps, shares and frees pages one
store at a time, and the decoder: `FreeWalk`, `Nodes`/`Leaves`/`WalkError` of a page
table, `PageKind`, `SharedPages`. Tables have two levels where Sv39 has three; the walk treats
all inner levels alike. `freeing` stands for the lock under which `freeproc` runs,
`unseen` for pages that no snapshot has covered, `space` and `free` are the ghost
truth.

**TaskTree** is an rCore-like kernel whose tasks hold a `Vec` of children, changed word by
word (push with reallocation, hand-over at exit, removal with a shift), and two
readers: `WalkRcoreTree` of guest.py and `Run` of model/exec.py with the Vec
reader. Between the free of an old buffer and the move of its words (`Reallocating`)
the first word of the buffer belongs to the heap's free list and both readers may
follow it; no reader of a snapshot can tell, and the properties except it.

**VideoExport** is `make_video`, `render_frames`, `encode` and the client of the DevTools
protocol. `Send`, `Receive`, `ReadTimesOut`, `CommandExpires`, `WaitExpires` are the
client; `Execute`, `Settle`, `CommandErrs`, `BrowserEvent`, `BrowserDies` the browser,
which answers late, in error or never. `Raised` follows an exception through
`__exit__` and the retry. `NewReport` replaces the report, `ExportAgain` starts an
export after one that ended or was killed.

The `*_proofs` modules hold the theorems of one component each, `Report_proofs` and `Guest_proofs` those of two,
`Host_proofs` those of three (section 5), `Counting` the facts about sums over finite sets, counts over sequences, rounding and maxima
that several of them need.

The `MC*` modules instantiate the constants. Operators whose comment begins with
"A mutant of" are not part of any specification: they are plausible mistakes in
the code, kept beside the original, and each property is known to fail under at
least one of them (`PROJECT.json`, "mutants").
`MCReport`, `MCGuest` and `MCFiles`
put two components that share no state under one specification (`half`,
`kernel`, `program` say which of them runs), so that one run checks both.

## 3. Runs

| run | bounds | checks | what it shows |
|---|---|---|---|
| `snapshot_single` | 3 pages in chunks of 2, 2 contents, 2 snapshots, budget that ends in the second | `ShadowIsReadersImage`, `LossIsReported`, `ImplementsHistory`, `SnapshotEnds` | the delta coding is right: the shadow copy is the reader's image after every step, losses are flagged and counted, unflagged snapshots are observations of memory, a snapshot ends |
| `snapshot_smp` | 2 pages, chunks of 1, racing stores, refused reads, kill | `UnflaggedSnapshotsAreExact`, `RecordedPagesAreGenuine` | pages nobody stored to are exact in an unflagged snapshot; every recorded page is a content the guest had |
| `snapshot_truncated` (violation) | 3 pages, a budget that ends in the second snapshot | `CompleteStatesAreExact` | section 6 |
| `plugin` | two configurations: 1 vCPU with a throttled `@esnap` watch that is also `@nft` and a rate-limited one; 2 vCPUs with sample and snapshot grid of 2, snapstart, maxinsn 3, disk may fill | `DenseFromStart`, `PerVcpuOrder`, `SamplesSpaced`, `RateLimitKeepsOneInN`, `EndIsHonest`, `CallbacksReturn` | all interleavings of latching the clock and taking the lock, with both ways to shut down and a disk that fills up |
| `plugin_esnap_smp` (violation) | 2 vCPUs, one `@esnap` watch | `EventSnapsLimited` | section 6 |
| `stacks` | 2 tasks, 4 functions of which `h` is not watched and may be entered by a sibling call, depth 4, list of 3 frames | `PathsAreReal`, `MatchesAreReal` | shown paths and matched returns are real, with traps, switches, `sret` |
| `files` | recorder: 2 products, 2 disks (one required), with and without `--no-build` and calibration; exporter: 3 frames, 2 reports, 2 exports, 2 unread messages | `NothingIsLost`, `FailureIsUndone`, `RecordedKernelIsFresh`, `RecordedDisksAreClean`; `SidecarDescribesVideo`, `BrowsersAreClosed`, `ExportEnds` | failures and kills at every point lose nothing; stale kernels and dirty disks are never recorded; a sidecar that matches its MP4 describes it; exports end without leaving a browser |
| `report` | 3 semantic kinds and 1 diagnostic with 0 to 5 events each, 4 places with a reserve of 2; audits of 2 guest operations or snapshots under every combination of rates, channels, missing functions and declarations | `SelectionIsFair`; `NumbersAreTrueOrSampled`, `HitsErrByOpenRequests`, `NotApplicableIsImpossible`, `CompleteIsExact`, `UnitsAreCounted` | the arithmetic of shares and samples; a number is true or marked, and the audit counts its units |
| `timeline` | 6 kernels on 1 and 2 vCPUs: with the switch channel, with a declared clone channel, with frames at switches, with completion records that may be unreadable, with nested operations, with allocator counts; 5 or 6 operations, 2 process rows, lag 2 | `VcpuOrderSurvivesMerge`, `EventsNameTheTask`, `OperationsAreOneEvent`, `CountersAreExact` | events keep the order of their vCPU, name the task that ran, stand for one operation; snapshot counts are the guest's |
| `guest` | 6 pages, 2 processes, 2 births, 1 unseen page; 4 tasks, first capacity 1, reader bounds 2 and 9, 1 lost object | `FreeCountIsExact`, `SpacesAreReal`, `OwnersAreReal`; `TreeIsTrue`, `LossIsTold` | a snapshot at any store is decoded truthfully or shows its loss |
| `drive` | a headless and two shell profiles, 3 printed markers, pipes of 2 | `NoQemuLeft`, `OutcomeHasEvidence`, `TraceCompleteIsTrue`, `SessionEnds` | whatever guest, QEMU, readers and user do, the session ends cleanly and its report is borne out |
| `drive_exit` (violation) | as `drive` | `ExitIsUnexplained` | section 6 |

Why the bounds are enough to be interesting: two snapshots are needed for a
delta, and a budget that ends in the second lets a delta be cut; three pages
in chunks of two give a full and a partial chunk; two vCPUs are the
smallest case in which latch order and lock order differ; depth 4 with a list of
3 frames reaches the cap of the list; a pipe of two markers lets the reader lag
by more than one; two files of each kind let a restore stop half-way; up to five
events of each of four kinds in a report of four make shares, floors and samples all bind; two guest
operations are one more than what a rate of two keeps; two rows of the process
table and six operations let a row be reused between a switch and the next
state; six pages hold two address spaces of which one shares pages with the other while
it is torn down; four tasks make a `Vec` grow twice and shift; a reader bound of
2 is reached and one of 9 is not; three pictures and two reports let an
export stop or be replaced in the middle. The model
bounds `MaxSnaps`, `MaxRetired`, `MaxCallbacks`, `MaxEvents` (of `NfPlugin`), `MaxDepth`,
`MaxPrinted`, `Most`, `AuditOps`, `hits`, `MaxBirths`, `MaxUnseen`, `MaxLost`, `MaxExports` and
`MaxInbox` only stop the exploration; where reaching one leaves
nothing to do, or where the program itself stops, the configuration has
`CHECK_DEADLOCK FALSE` (all except `MCStacks`, `MCSnapshotSingle` and
`MCSnapshotTruncated`, in which the guest can always go on). The
code's 64-frame cap is the constant `MaxFrames`, `NFT_MAX_LAG` is `MaxLag`, `max_items` and
`_RCORE_MAX_NODES` are `Caps`, and `MAX_EVENTS` and its companions
are the constants of `EventSelection`.

Type correctness is proved and not run for `SnapshotDelta`, `RecorderFiles` and `EventTimeline` (`TypeOK`),
`DriveSession` (`SessionTypeOK`), `TaskTree` (`TreeTypeOK`, in the proofs), `NfPlugin` and `VideoExport` (`TypeInv`), `ReportAudit` (`AuditTypeOK`),
`EventSelection` (`SelectionTyped`) and `GuestPages` (`PagesTypeOK`), see section 5; the runs spend their time on other properties.

## 4. Fairness

* `SnapshotDelta!FairSpec`: weak fairness of `ReadChunk`, `WritePage`, `FallbackPage` and `EndSnapshot`, the
  steps of a thread that holds `nf.lock` and waits for nobody. Used by
  `SnapshotEnds`.
* `NfPlugin!FairSpec`: weak fairness of what each vCPU does once it may enter
  the lock. It asks nothing of the guest. `CallbacksReturn` excludes runs in which
  a write has failed: `nf_die` calls `exit()` with the lock held and that
  process hangs in its own exit handler.
* `DriveSession!FairSpec`: the recorder's main thread runs and time passes.
  Nothing is asked of QEMU, the guest or the reader threads: `SessionEnds` holds
  against all of them hanging.
* `VideoExport!VideoFairness`: the exporter's thread runs, its clocks advance (the
  socket's timeout, the limit of a command, the limit of `wait_for`), and ffmpeg, which
  reads a finished directory, ends. The browser owes nothing.

## 5. Proofs

Each theorem holds for every value of the constants that satisfies the named assumption
of its module. No proof rests on a fact that is not proved.

**Tools of the proofs.** The prover cannot instantiate an induction theorem that takes an operator, so
`Counting` first proves `NatSetInduction`: a set of numbers that contains 0 and is closed
under successor contains every natural number. With it sums (`MapThenSumSet`), counts
(`Tally`) and the folds of the reader get their one-step equations: for an append or a change of
one argument the result changes by that argument. That is all an inductive
invariant needs of them.

**`SnapshotDelta_proofs`**, under `SnapshotAssumption`:

* `TypeCorrect == Spec => []TypeOK`. `TypeOK` is inductive as it stands
  (`InitType`, `NextType`): it carries the bounds of the page loop in each phase
  and the byte budget, and the shape of the history.
* `ShadowAgrees == Spec => []ShadowIsReadersImage`: while the plugin lives, a
  page that its shadow copy holds as valid is what a reader of the present file
  has as the last write of that page, and a page without a shadow has never been
  written. This is what makes the delta coding correct: a page is
  skipped only when the reader already has it. The property is not inductive
  alone; `ShadowInv` adds `TypeOK`, that every page with a record has a last one
  (`HasLast`), and that the mark to be patched exists while a snapshot is taken
  (`MarkWritten`), so that `EndSnapshot` replaces a SNAPMARK and no page record.
* `PagesAreGenuine`, `SnapshotsAreExact`, `LossIsTold`: the three promises about what
  `load` and `rebuild_states` return. They speak of a fold over the file, so the
  invariant speaks of it record by record: `LoadAppend` and `StateAppend` give the fold
  of a longer file from that of the shorter one, `LoadPatch` compares the file before
  and after the mark is patched. `ReaderInv` says that every prefix that a kill may leave is good
  (`AllGood`), that marks carry ascending numbers (`Ordered`), that the image of the
  running snapshot and the shadow copy agree (`Current`), and what the plugin still knows about
  losses of this snapshot (`Session`). The hard step is `EndSnapshot`: it makes a mark
  final whose flags the reader did not know until then (`TruthCloses`, `ClosedStaysGood`).
* `HistoryImplemented == ASSUME ~Smp PROVE Spec => ImplementsHistory`: on one vCPU the
  recording implements `RamHistory`. `EndSnapshot` of an unflagged snapshot is the
  abstract observation, `StoreTo` the abstract store, every other step a stutter. `HistInv` adds
  to `ReaderInv` that the bytes beyond `synced` begin with the mark of the running snapshot,
  so a kill cannot take back an observation (`KilledHist`). `~Smp` is what the abstract specification
  needs: with a racing vCPU no instant exists at which memory was as recorded.

**`NfPlugin_proofs`**, under `PluginAssumption`: every step inside the lock is reduced to one
operator, `Writes(v, x, recs)`: it appends records of vCPU `v` stamped with the clock
that `v` latched and counts them. The invariants are preserved by `Writes` once, not by each
callback. `TypeCorrect`; `OrderSafe` (`TimeInv`: what `v` has latched is not below its last
record and not above the clock); `SpacingSafe` and `EndSafe` (`FileInv`, `SampleInv`: the
counters of END are the tallies of the file, and the last sample stands before the next
deadline); `RateSafe` (`RateInv`: hits of a limited watch are those written, those
dropped and those waiting for the lock; the dropped ones sum up to `drops`); `DenseSafe`.
`DenseFromStart` compares neighbours of a filtered sequence and is not inductive: `Covered`
also says that the deadline is one interval past a snapshot of the file.

**`Host_proofs`** has three parts: the recorder's files, the video export and the session with QEMU. For the files it proves
type correctness and the four invariants of the run
(`FilesTyped`, `NothingLost`, `FailureUndone`, `KernelFresh`, `DisksClean`) for
every set of products and disk images, under `RecorderAssumption`: there is at least
one product, the sets are finite and disjoint, required images are disk images.
None of the four safety properties is inductive: each speaks of the moment at which something is
committed, and a step earlier the files are in between. `IInv` adds, phase by
phase, what the guard knows:

* `GuardInv`: while the backups are taken, every protected file that exists is
  either still to be backed up or has a copy; from then on all have one
  (`BackedUp`); during a restore the files that are not `left` are back; the
  directory of backups goes only after an acceptance or a complete restore.
* `FreshInv`: the stale products are absent from `DeleteStale` until `Build`, so what
  passes `CheckBuild` is new, and the later guard around the calibration run protects
  disks only.
* `CleanInv`: a disk that the calibration run has written to is always still to
  be restored, and has a backup.

For the video export, under `VideoAssumption`: `VideoTypeCorrect`, `SidecarSafe` and `BrowsersSafe`.
In its invariant `VideoInv`, `Phases` says for each position of the client what is true of the browser: which requests are
open (`Queue`: only `wait_for`, which asks again, leaves stale ones behind, and those are
probes), that an unread answer to the command in hand agrees with the page (`Replies`),
and which frame the page shows (`Drawing`). `Made` says that
the pictures drawn so far are of the present report and in order, which is what the sidecar
claims later. A step that raises goes through one lemma (`RaisedEnds`, `FailingKeeps`).

For the session with QEMU it proves type correctness and the three invariants of the run `drive` for every set
of profiles, any amount of output and any size of the pipes, under `DriveAssumption`:

* `NoQemuSurvives` rests on `QemuInv`: once the main thread is past `WaitQemu`, QEMU
  is gone, and nothing starts it again (`NextQemu`). The watching functions never touch
  the process and never jump over the cleanup (`WatchingAlone`).
* `EvidenceKept` rests on `EvidenceInv`: at each position of the main thread, what
  it has seen is in the reader's text; the text only grows, also the part after
  the mark (`HasAppend`, `FromAppend`), and the mark is set only while there is no
  outcome. `VerdictEvidence` states what each verdict of `_verdict` implies.
* `TraceVerdict` rests on `StderrInv`: the plugin's closing line is in the pipe or in
  the reader's text exactly when the file has been closed, and the end of the
  stream leaves nothing in the pipe.
* `SessionTyped` includes that the text and the pipe together are what the guest
  printed, in order.

`EvidenceInv`, `StderrInv` and `SessionTypeOK` are preserved together (`NextSession`).

**`EventTimeline_proofs`**, under `KernelAssumption`, for any number of vCPUs, tasks, rows and
operations:

* `MergeKeepsOrder`: a merge of streams that are not sorted still keeps each vCPU's
  order, because each stream keeps it (`StreamOrder`: the lock is taken in program
  order, `LockOrder`) and the least head of a vCPU is its oldest record
  (`MinimalHead`, `TookOldest`).
* `OneEvent`: an operation is known by its entry record, its completion or both (`Coherent`
  says how the two relate), and the entry is dropped exactly when the completion stands
  (`EventsDiffer`, `OlderEvent`).
* `TaskNamed`: an event names the task that ran. Its two halves have different reasons.
  `SemanticTasks` is about recordings with readable switch records, on any number of vCPUs:
  `RunningInv` relates the row on the vCPU to the last switch record, written or
  pending, `SemanticInv` the analysis' current pid to the last one merged, `NamedInv` each event
  to the switches before it.
* `FramedTasks` is about one vCPU with a scheduler frame at each switch and no switch records.
  `StatesInv` says that snapshots of one vCPU are in clock order, so the bisection finds the last one
  before an instruction (`BisectStep`, `IndexFound`). `FrameInv` then goes from
  the guest to the event: the row that runs is that of the last frame (`RowRuns`), a row keeps its
  pid while it runs and every snapshot since the frame shows it (`RowTold`, `SlotFound`), what the
  analysis remembers is the last frame merged (`SeatInv`), and so an event has its pid (`FramedInv`).
* `CountersExact`: `OneAtATime => CountersAreExact`. `CountInv` says that the last record with
  counts is what the guest has unless the pages have changed and the record is still to come (`FreeTold`),
  that each idle snapshot agrees with the last record before it (`StatesTold`), and that operations in
  flight are the kernel's own, one at a time (`OneInFlight`); `LatestCount` relates it to the sort. Each conjunct
  of `OneAtATime` is needed: with two vCPUs or nested operations a record may be latched after a later
  change, and a count that is not recorded or not readable leaves an older one in its place.

`IInv` is inductive by itself; `SInv` (`StatesInv`, `FrameInv`, `CountInv`) is relative to it.
`KernelAssumption` lets the vCPUs be any nonempty finite set.

**`Report_proofs`** has a part for each half of the report. Of the selection it proves `SelectionFair`,
under `SelectionAssumption`. The invariant of the pass (`SampleInv`) says that what has been kept of a kind is what
the rule chooses among the events seen so far. The rest is arithmetic about its end:

* `Quotas`: the quotas lie between 0 and the count and add up to the budget. Each is a
  difference of two values of one rounded running total, so their sum telescopes (`Telescope` in `Counting`,
  by induction over the kinds in their order); `ShareGrows` bounds each difference, also when the
  floor is 0 and the first kinds get one place each.
* `SampleSize`: of t events the rule chooses exactly q. `SampleIsEven`: both ends are chosen, and the next
  chosen event is the first whose quotient exceeds that of the present one, so that no gap is longer than needed.
* `Budgets`, `ClassQuotas`: the two classes use up `MaxEvents`, and the reserve of the diagnostic kinds
  is exceeded only when the semantic ones are whole.

Of the audit it proves, under `AuditAssumption`, that `NumbersTrue`, `HitsErrLittle`, `AbsenceIsReal` and
`CompleteExact` follow from `IInv`: what is missing from a count is what a rate limit took
(`EventsAreTrue`, `ChannelIsExact`), results belong to reads (`ResultsAreTrue`,
`ReadsAreEvents`), and requests are completed, open or abandoned (`RequestsAddUp`).
`UnitsExceptTables` counts the units of the audit for every manifest: the set of units is
laid out in layers, one per channel, whose sizes are added (`LayersCount`,
`BadLayers`); `UnitsCounted` is the property of the run, for manifests that do not declare
`resources` not applicable (section 6 says why).

**`Guest_proofs`** has a part for the call stacks and one for the memory of the guest. The first is
proved under `CallStackAssumption` and the hypothesis `Observable`: no entry of a
watched function is dropped by a rate limit, a sibling call never leaves a watched function, and
switches are seen, as rows of their own or as entries of a watched switch function. Without it
the theorems are false (section 6): the list would hold a frame that is gone and look like the
caller of a new one. For every set of tasks and functions and every depth:

* `Part` says that the list is a contiguous part of a stack, with nothing seen above it. `Chain` says whose
  stack: that of the running task (`Ours`), that of a task that has switched away (`Left`: the list ends
  with the frame of its switch function), or nobody's (`Unseen`: after `sret` the list is out of date,
  and nothing on the running stack was seen since).
* A stale list is harmless because the next entry cannot be joined to it: stacks of two tasks share no
  address (`StacksApart`), a return address in the switch function or the vector names no seen caller. `EntryChain` and
  `ReturnChain` are these two arguments, `Departing` is the switch.
* `PathsReal` and `MatchesReal` follow: a report is the list of the running task, a matched return
  removes the frame of that return.

For the memory it proves `FreeCountExact`, `SpacesReal` and `OwnersReal`, under `PagesAssumption`: for any number of pages,
processes and table entries, and any set of pages that no snapshot has covered. All three are about one state of
the kernel, so the work is in the invariant of the kernel, `PagesInv` (`PagesInvariant`), and in the walks:

* `OwnInv`: there is an assignment of one use to each page (root of t, table of t for entry e, kernel leaf, user page at an
  address, allocated and not yet installed, free) that agrees with every page table. This is why a store to a page of one
  process cannot change what another one shows (`OthersKeep`, `StepKeeps`). It is an existential:
  each step names the new assignment, which differs from the old one at one page at most.
* `Tbl` and `Pt` are the page table as the kernel means it. While `freeproc` frees a root (`Gone`) or a table
  (`GoneAt`), its words are already those of a free page and count for nothing; `Freeing` says what the
  decoder may meet there: 0x01.. words, which look like pointers out of memory, or a list link. This is what turns the
  middle of a teardown into an error of the walk and never into a smaller address space.
* `ListOf(n, l)` numbers the free list from its end, so that kalloc and kfree only drop or add the number n
  (`ListPops`, `ListPushes`).
* The walk of the list is a function of the number of steps (`FreeStepsDef`); `Walked` says where it stands after k of them,
  and `ListIsShort` that the guard of `npages + 16` steps never cuts a list (`WalkIsExact`).
* `LeavesAreMapped` and `MappedAreLeaves` relate the leaves of a root to `space`, in each direction; `KindHolds` goes
  through the processes in the order of the table, as the code does when they claim pages.

**`TaskTree_proofs`**, under `TreeAssumption`, for any finite set of tasks, any blocks and buffers that no snapshot has
covered and any bound on the list, proves `TreeReadTrue` and `TreeLossTold`. Both are about one state
of the kernel, but between two of its stores; so the first half is what the kernel keeps, `TreeInv` (`TreeInvariant`):

* A word of a Vec is what `WordAt` says: while a buffer is moved, its first word is already a link of
  the heap and the kernel holds it. `VecInv`: a Vec holds no task twice, but for the word that `Vec::remove` is
  shifting; `HoldInv`: a child is held by its parent, and by the exiting task until that has forgotten its children.
* `ReachInv`: each set of tasks that has INITPROC and all children of its members has every task, but the one in
  transit between two Vecs. It is a statement about all sets, so a step needs only the
  sets that it changes (`ReachKept`) and no path is ever named.

The second half is about the readers, in a state in which no buffer is being moved (`Still`):

* `ArcVecRead`, `ReadVecRead`: what each reader gets of one Vec.
* Each loop is a function of the number of rounds (`RcoreLoop`, `RunLoop`). It ends within the rounds it is given because each
  one lowers a potential, what is queued plus a share for each task not yet listed (`LoopBoundFalls`, `RcoreResult`, `RunResult`).
* `RcoreInv`, `RunInv` are the invariants of the loops: each task is listed once, each row names a task that holds it, and
  the children of a listed task are listed or queued. At the end the listed tasks are a set as in
  `ReachInv`, so all tasks are listed (`AllReached`); a list as long as the bound is cut off, or wide (`WideVec`).
* `ParentsRead`: a child that is held twice is shown under the right one of its holders, because the children of INITPROC are
  queued before any other row (`RcoreOnTime`).
* Both readers do one abstract walk (`IsWalk`), although one drops seen tasks when it queues them and the other when it takes
  them: `RcoreFollows`, `RunFollows`, and hence `SameOrder`.

**Only model-checked.** The properties under fairness, which are out of the prover's reach: `SnapshotEnds`,
`CallbacksReturn`, `SessionEnds`, `ExportEnds`. Of the safety properties, three are proved under a
hypothesis that the code needs and the runs' instances meet: `PathsAreReal` and `MatchesAreReal` (`Observable`), and `CountersAreExact` (`OneAtATime`); section 6
says what happens without it. `UnitsAreCounted` is proved but for one channel, `HistoryImplemented` for one vCPU.

## 6. Where code and documentation disagree

* `snapshot_truncated`: `rebuild_states` (analyze.py:554) tests F_INCOMPLETE but not
  F_TRUNCATED, so a snapshot cut by the byte budget is a "complete" state with
  stale pages; spec/event-stream.md:172 promises the memory of that moment. The
  same property fails, without a run of its own, when QEMU is killed inside
  `nf_snapshot`: the unpatched mark carries no flag.
* `plugin_esnap_smp`: `insn - last_ev_snap_insn` (nf_plugin.c:836) wraps when the
  vCPU that latched its clock first gets the lock last; spec/event-stream.md:193
  promises a minimum distance.
* `drive_exit`: `poll()` is tested before the reader has drained the console
  (record.py:604, 683), so the same console gives `qemu_exited` or `completed`
  depending on the speed of a thread; tests/test_shell_verdict.py:68 says that
  it always gives the same answer.

Known disagreements without a run of their own:

* Sibling calls of watched functions: an entry at the same stack pointer as the
  last frame (callstack.py:65) is joined to it, although the sibling call may have
  replaced that frame; the docstring at callstack.py:12 excludes guesses. Rate-limited
  entries break `PathsAreReal` in a similar way (constants `Sibling` and `Rated` of `CallStacks`).
* Allocator counts on several vCPUs: the record is latched after the allocator has
  released its lock, so the record with the largest clock before a snapshot need not
  carry the last count (analyze.py:416, 566; "exact" at analyze.py:583).
  `CountersAreExact` fails as soon as the kernel `Counters` has two vCPUs; `CountersExact` proves it
  for one vCPU that does one operation at a time.
* A manifest that declares `resources` not applicable: bundle.py:426 takes it from
  a factor that does not include it, so a unit per snapshot is missing
  from the denominator. The setups of the run leave it out of `naChannels`; with it, `UnitsAreCounted`
  fails. `UnitsExceptTables` proves for every manifest that this unit is the only difference.

Observed, without a property, because no document promises otherwise: `nf_die` hangs in
`nf_atexit`; with `maxinsn` a later snapshot calls `ftell` on a closed stream
(both are modelled, `WriteFails` and `crashed`; record.py never passes
`maxinsn`); the results of seeking and writing when the SNAPMARK is patched are ignored
(nf_plugin.c:626); a system call or an SBI call does not cut a call chain, although
callstack.py:16 speaks of traps; a failed build leaves files that did not exist
before (record.py:498); two recorders of one build use one `.part` name
(kernels.py:253, 268); the image's last-write order of overlapping pages is that of the
file, not of the clock (nftrace.py:405); `head or 0` makes a free-list head that
was not covered look like an empty list (guest.py:1133; `FreeWalk` starts from a head that
was covered); a `Vec` with more than 4096 elements, or one that cannot be read, gives no children
without a word (guest.py:806; in the manifest reader `LossIsTold`); an `OSError` from a dead
browser is not tried again, only a `CdpError` is (video.py:362).

## 7. Not modelled

* Record payloads, register contents, argument and watch-file parsing of the
  plugin; write errors inside `nf_snapshot`'s patch.
* Symbol labels and program counters of call chains; the exit code and the
  ambiguity note of a completion; the QEMU command line; a second Ctrl-C during
  the cleanup of `_drive`.
* Event normalisation: thread creation, ticks, the classification of an entry by
  its arguments, the wording of details, the note on the end of the recording, records
  with equal clocks.
* Report: metrics that are plain counts, manifest field cells, stack checks, the reasons
  shown to the user, audit counters that repeat the selection, column and run-length
  encoding.
* Guest memory: kernel stacks, address spaces known only from `satp`, lists and hash
  tables of other kernels, resource tables, the compilation of plans and the readers other than `Vec`.
* Video export: storyboard and overlay, pings, pongs and fragments, a send that blocks, errors
  while a picture is written, how browser and ffmpeg are found; that `close()` may
  wait longer than its limit while a read blocks; the exporter's `KeyboardInterrupt`.
* Whole components: see "components" in `PROJECT.json`, with a reason each.

## 8. Plan

Modules, in the order in which they are worth writing:

1. done: SnapshotDelta, TraceReader, RamHistory, NfPlugin, CallStacks,
   RecorderFiles, EventSelection, DriveSession, EventTimeline, ReportAudit, GuestPages,
   TaskTree, VideoExport; proofs of all invariants of SnapshotDelta and its refinement of
   RamHistory, of all invariants of NfPlugin, RecorderFiles, DriveSession, EventSelection, ReportAudit,
   VideoExport, GuestPages, TaskTree and EventTimeline (its counts on one vCPU without nested operations), and of CallStacks
   (for kernels without sibling calls and rate limits among the watched functions).
2. WatchSelection: which points survive aliases, duplicates and rate limits.
3. The other container readers of model/readers (ring buffer, B-tree, hash table)
   over bounded images, as TaskTree does for `Vec`.
4. Archive: `archive_build` with several recorders sharing one `.part` name.

Each invariant of a passing run has a theorem; what a hypothesis still excludes is named in section 5. New components take their
runs from the budget of a dozen or so that keeps the whole suite within minutes: components
that share no state are put under one specification, runs that ask the same question of
one module with other constants are merged.
