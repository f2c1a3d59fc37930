# TLA+ models of fast-volume-syncer

fast-volume-syncer copies directory trees between NFS exports. A *selector*
(usually a daemon) reads a csv file of copy entries and starts one *sync* child
process per entry; a sync child enters a mount namespace, mounts the two
exports, pins the sub-paths to copy and runs the *copier* on them; the copier
scans the source tree and copies it in chunks, with rsync or natively.

This directory models that program, checks the models with TLC and proves
theorems about them with TLAPS. Every definition is translated from the
Go source; `PROJECT.json` ("map") names the lines of each.

## 1. Inventory

Paths are relative to `src/internal`.

| Component | State | Operations | Talks to |
|---|---|---|---|
| Selector pipeline (`selector/runner.go`, `joiner.go`, `invoker.go`, `entry/selector.go`) | buffered `entryChan`, `errorChan`, weighted semaphore, context | parse csv, dispatch rows, run a child, report its error, drain, close, join errors | sync children by exec, SIGTERM and exit status; signal handler by the context |
| Copier chunk pipeline (`copier/runner.go`, `copier/joiner.go`, `find/file_scanner.go`, `args/retry_args.go`) | `entryChan`, `resultChan`, one-shot scanner error channel, semaphore, `sync.Pool` of chunk arrays, ticker | prepare, scan, fill/flush/submit chunks, copy with retries, collect | a scanner, a backend |
| Find scan (`copier/find/find_method.go`, `returns/execution_result.go`) | pipes, row channel, last stderr lines | start find, parse rows, log stderr, Wait, judge the exit | find(1); chunk dispatcher |
| Walk scan (`copier/find/scan_method.go`) | shared `errs` slice, row channel | visit a path, append an error, send a row | fastwalk's goroutines; chunk dispatcher |
| Native copier (`copier/native/copier.go`) | source, destination and temporary files; the destination tree | route an entry; compare, copy to a temporary file, rename, set mode and times; make directories and links, clear what is in their way | file system, whatever else writes it; the other chunk workers through the tree |
| Rsync backend (`copier/rsync`) | rsync process, its stdin list and outputs | refuse bad paths, start, feed the list, make directories and links, read the outputs, pass a cancellation on, judge the exit, retry | rsync(1); the other chunk workers through the tree |
| Pid file and stop (`selector/pid.go`, `entry/daemon.go`) | pid file, flock on its inode | acquire, clean up, read, verify, signal | other daemons through the file; processes through pids |
| Daemonizer (`selector/daemon.go`) | log directory, detached child | open the log, start | pid file, log rotation |
| Log rotation (`util/log_rotate.go`, `util/log.go`) | stdout, stderr, mutex | rotate on SIGHUP and at midnight | every goroutine that logs |
| Syncer mounts (`syncer/runner.go`, `sys/mount_linux.go`, `sys/openat_linux.go`) | mount namespace, workspace directory, mounts, pins | prepare, copy, clean up | the kernel; the copier |
| Ignore rules, row formats, file modes (`copier/find/ignore.go`, `sys/unfilemode.go`, `util/strconv.go`) | none | pure functions | the scans |
| Configuration hand-over (`args`, `main.go`, `util/env.go`, `entry`, `selector/daemon.go`, `selector/invoker.go`) | flags, environment, marks and namespaces of each process | read settings, assemble the next process's environment | start to select to sync |
| Result accounting, path guards, platform wrappers | counters; none | add, format; accept or refuse | the above |

**What is hard.** Two pipelines in which four kinds of goroutines meet on bounded channels
and one semaphore whose drain request (`Acquire(workerSize)`) races the
workers' releases; channels closed by a goroutine that does not send on them;
cancellation at any moment; an array pool shared by the producer and its
workers; a pipe closed by `Wait` under its readers; a slice appended to
without a lock; a pid file that is opened, locked, checked and removed in
separate calls by unrelated processes; pids and inodes that are used again;
chunk workers that put directories, links and files into one tree, each acting
on an earlier `Lstat`, a child perhaps before its directory; an rsync that
hangs, dies or ends before the goroutine feeding it; settings that pass
through two environments;
files written while they are copied; failing calls, crashes and kills between
any two system calls; rotations that share one second.

**What makes it correct**, by component: every accepted row and every scanned
entry is handled exactly once and in order, failures reach the caller, at most
the configured number of workers is alive, nothing is sent on a closed
channel, cancellation ends the run; a copy that compares as up to date has the
contents of its source, runs converge, a chunk without an error is in place
and no worker damages another's work; settings arrive as they were given and
nobody touches the host's mounts; one daemon per pid file, whose file
names it and is not touched by others, and stop signals only a daemon; no log
is lost by a rotation; the copy runs on mounted pins only, and what was
mounted is taken down. `PROJECT.json` ("hazards") lists the places where this
could go wrong, with the properties that cover them.

## 2. Modules

| Module | Models | Used by |
|---|---|---|
| `FanOut` | abstract: what a joiner promises to the runner behind it | instantiated by the two pipelines |
| `SelectorPipeline` | csv loader, dispatcher, semaphore, workers, `Runner.Execute` | `MCSelector`, `SelectorProofs` |
| `ChunkPipeline` | scanner, chunking dispatcher, array pool, chunk workers with retries, `Runner.Execute` | `MCChunk`, `ChunkProofs` |
| `PidFile` | daemons and DaemonStop on one pid file | `MCPidFile`, `PidFileProofs` |
| `LogRotate` | two askers, the mutex, `rotateFile` call by call | `MCLogRotate`, `LogRotateProofs` |
| `NativeCopy` | `compareFile`/`copyFile` on one file, repeated runs | `MCNative`, `NativeProofs` |
| `FindScan` | `executeFind`, its readers and the process | `FileScanner`, `MCFind` |
| `WalkScan` | `scanDirectory` on several goroutines | `FileScanner` |
| `FileScanner` | composes the two: one scan by either, its error channel and the closing of both channels | `MCScan`, `ScanProofs` |
| `CopyWorld` | what both copy methods share: the destination tree, the path guards, faults | `NativeTree`, `RsyncChunk`, `CopyMethod` |
| `NativeTree` | `native.Copier.Execute` on chunks of a tree | `CopyMethod` |
| `RsyncChunk` | `rsync.Task.Execute` on chunks of a tree, with its process and goroutines | `CopyMethod` |
| `CopyMethod` | composes the two behind the contract of `copyMethod` | `MCCopy`, `CopyProofs` |
| `SyncMount` | `Runner.Execute` of the sync child | `SyncChild` |
| `HandOver` | settings from hop to hop: start, select, sync | `SyncChild` |
| `SyncChild` | composes the two: from the operator's command line to the end of a sync child | `SyncChildProofs`, `MCSync` |

The pipelines compose through outcomes: `ChunkPipeline` takes the scanner as
"emits entries, ends with or without an error" (what `FindScan` and `WalkScan`
look at in detail) and a chunk attempt as "ok, failed, retryable, or cut
short by the context" (what `CopyMethod` looks at for a tree and `NativeCopy`
for one file); `SyncMount`
takes the copier as one step, `SelectorPipeline` a sync child as started,
signalled and ended. Both pipelines are shown to implement `FanOut`.

### State and actions against the code

*SelectorPipeline.* A goroutine is a control-state variable (`main`,
`loader`, `disp`, `worker[r]`), a channel a sequence and a closed flag, the
semaphore `cur` (permits handed out) and `want` (the one request that can be
queued, since only the dispatcher asks). Rows carry what the parser does with
them: the node of a row that parses, `Malformed` (passed over), `Unreadable`
(`csv.Reader` fails, and the loader stops as at end of file). `workerSize`
is an input of the run like `csv`, so that 0 is checked next to 2. Each channel
operation, semaphore call, child start, signal and exit is an action;
`AcquireFree`/`AcquireQueues`/`AcquireGranted`/`AcquireCancelled` follow
`semaphore.Weighted` (a request that fits is granted at once even when the
context is done, a queued one is granted by `Release` or cancelled).

*ChunkPipeline.* As above, and entries are numbered in scan order so that a chunk
is an interval. `array[b]` is what backing array `b` holds and `pool` the
arrays of the `sync.Pool`, which may also drop or withhold one. `SelectTick`
is the flush ticker; a job carries its attempt, outcome and whether its Result
is nil. A panic of the main goroutine is the state `"crashed"`, after which
nothing moves.

*PidFile.* `path` is the inode the name leads to; `lock`, `text` belong to
inodes, `fd` to processes. A pid that has ended may be given to another daemon or
to a stranger (`Launch`), an inode nobody names or holds may be created
again. `Refuse` stands for all error returns of `AcquirePidFile`: its checks of the
directory and the file are a choice of their outcome. `Pidfd` says whether
`os.FindProcess` pins the process (Go 1.23 on).

*LogRotate.* A name is a stream and the stamps appended to it; `name[i]` is
the name of file `i`, `Unlinked` when another one was renamed over it, and
`lines[i]` whether it holds log lines. `Files` is finite, and a rotation opens a
new file only while one is free (`Free # {}`): a bound, and more files than
the run needs change nothing. Putting a name back after a failure (`Undo`) may
fail as well. `Inspect` compares the two streams, `Pick` looks at a stream's offset
when its turn comes.

*NativeCopy.* A block of a file is named by the instant it was written, so
equal blocks are equal contents. Time never stands still between two writes;
see section 7 for what that leaves out. The code ignores whether its `os.Remove` calls
work: `Abandon` may leave the temporary file behind, `TakeAway` the copy whose mode or
times could not be set. `undated` says that such a copy, or one orphaned by a crash, is
in place with the time of its own writing.

*FindScan.* Rows keep their order, so counters say which are where. `Fetch`
takes any number of rows into the scanner's buffer, `Accept` and `Drop` decide
about one row (dropped: not understood, or ignored), `Wait` closes the pipes.

*WalkScan.* `append` starts with a read of the slice (`AppendStarts`) and ends
with its length and element stored (`AppendEnds`). When two of them have overlapped
(`raced`) nothing is certain any more: the compiler stores capacity, pointer and
length one after the other, so a header may be lost, may be short, or may bring nil
elements, which `errors.Join` leaves out (any subset of the errors is left), and
a capacity without an array makes the next append write through a nil pointer
(`RaceKills`).

*FileScanner.* A run uses one scanner; `Close` is what `Scanner.execute` does after it.

*CopyWorld.* `node[p]` is what stands at a path of the destination, told apart
as far as the code does: directories with the mode wanted, with another private
mode (`"lax"`) or open to other writers, files that compare equal or not,
links to the right place or astray. `MkdirMode` is what `mkdir` leaves under
the umask. `Private`, `PrivatePrefix` and `NoSymlink...` are the guards of
`internal/util` on such a tree.

*NativeTree.* `job[w]` is a worker's position in its chunk and what its last `Lstat`
showed; each guard, `RemoveAll`, `MkdirAll`, `Chmod`, `Symlink` and `Rename`
is an action, so another worker may act in between. Retries repeat the chunk,
`Rerun` starts the next run over the same trees.

*RsyncChunk.* `task[w]` has the worker (`pc`), the goroutine of
`handleRsyncStdin` (`stdin`, `at`), the rsync process and the readers. The
pipe to rsync has no capacity. rsync itself (`Transfer`, `RsyncEnds`,
`RsyncDies`, `RsyncStops`) is external: it may hang, die with a status that is
retried or not, and makes the directories of a path on the list.

*HandOver.* One process at a time: `DaemonStart` and `Invoke` replace it by the
child they start, with no flags and only the exported environment. `Given` is
viper's order: flag, non-empty variable, default. `marks` are
`_SYNCER_INVOKED` and `_SYNCER_SANDBOXED`, `wanted` what the first process
read.

*SyncMount.* `k` walks the literal orders in which the code mounts, unmounts and
removes; each `mkdir`, `mount`, `remount`, `umount` and `rmdir` may fail.

## 3. Runs

All runs use TLC on the whole bounded state space, none is a simulation.

| Run | Instance | Question | Result |
|---|---|---|---|
| `Selector` | 4 rows of 4 kinds, 2 workers or none | permits, order, errors, channels, refinement of `FanOut`, stopping | holds |
| `Chunk` | 3 entries, chunks of 2, 2 chunk workers, 2 attempts | arrays, partition, results, errors, refinement of `FanOut`, return | holds |
| `ChunkNilResult` | the same | a result is never nil (`copier/joiner.go:38`) | **violated** |
| `PidFile` | 2 pids, 3 inodes | lock/text/name bookkeeping, no foreign file removed, no stranger signalled, stop ends | holds |
| `PidOneDaemon` | the same | one daemon at a time (`selector/pid_behavior_test.go:70`) | **violated** |
| `LogRotate` | 3 seconds of requests, midnight in one, 2 failing calls | logs kept by SIGHUP's rotations, names after failures | holds |
| `NativeCopy` | files of 1 or 2 blocks, 2 source writes, 1 edit, 2 failures, 1 crash | up-to-date verdict, whole copies, convergence but for undated copies | holds |
| `Scan` | find: 5 rows, pipe of 2, channel of 1; walk: 2 goroutines, 3 paths | rows read are sent, bad scans are reported (the walk's while no appends overlap), the scan returns | holds |
| `FindLosesRows` | find alone | a nil error means all rows were streamed (`find_method.go:137`) | **violated** |
| `CopyMethod` | `d/`, `d/l -> ..`, `d/e/`, `d/e/f` in 2 chunks, 2 attempts, 1 fault; native over everything that may stand there, rsync over a choice of it | a nil chunk is in place (rsync's but for what it logs) and its list released, no damage, cancellation, convergence | holds |
| `RsyncSkips` | the same, no fault, rsync on an empty destination | chunks may run concurrently (`copier/joiner.go:17`) | **violated** |
| `SyncMount` | 4 settings, any flags, one variable, all 3 commands, linux or not; up to 3 failing calls, kill anywhere | settings arrive, copy on pins only, cleanup, namespaces | holds |

Properties, briefly (each is stated in words where it is defined):

- `Selector`: `IInv` (types, one permit per live worker, rows in increasing
  order through loader, channel, dispatcher and workers, no accepted row and no
  error lost on the way), `RowsHandledInOrder`,
  `FailuresCollected`, `ImplementsFanOut`, `CancelStops`, `EventuallyReturns`.
- `Chunk`: `IInv` (types, permits, one owner per array, chunks intact, entries in
  order, outcomes and results kept), `ChunksPartition`, `NilErrorMeansCopied`, `ResultsAddUp`,
  `ImplementsFanOut`, `EventuallyReturns`.
- `PidFile`: `IInv`, `FileNamesDaemon`, `OnlyDaemonsSignalled`,
  `RemovesOwnFile`, `StopEnds`.
- `LogRotate`: `IInv` (types, mutex, stamps, names and streams agree), `HupKeepsLogs`, `LogAtItsName`.
- `NativeCopy`: `IInv` (types, the temporary file is a prefix of its source), `UptodateIsSame`, `RenamedIsWhole`, `Converges`.
- `Scan`: `IInv` (types, who has returned and who may still send),
  `FetchedIsSent`, `BadScanReported`, `ScanReturns`.
- `CopyMethod`: `IInv` (types, looks still hold where they are used, entries behind
  a worker are settled), `NilMeansBuilt`, `ListReleased`, `Undamaged`,
  `CancelReturns`, `Converges`.
- `SyncMount`: `IInv`, `CopiesOnPins`, `SettingsArrive`, `OnlyStuckLeft`,
  `SandboxLeavesNothing`, `HostUntouched`.

Operators named `Bug_...` are not part of any specification: each is a
plausible mistake in one action (a dropped wake-up, an off-by-one in the
semaphore, a flush that forgets its chunk, a pid file truncated before it is
locked), kept to show that the property it is paired with in `PROJECT.json`
("mutants") does notice it.

**Why the bounds are enough.** *Selector*: with two workers and four rows
(accepted, filtered, malformed and unreadable ones in every combination) the
dispatcher queues behind full permits, is granted, is cancelled, and the drain
queues behind one and two live workers with errors waiting in the channel; with no
worker it waits for the context alone, and the channels have no buffer.
*Chunk*: three entries make a full chunk and a partial one, or three flushed
ones, so the third submission waits for a permit and an array comes back from
the pool; two attempts give a retry, a delay and a cancellation in it.
*PidFile*: two pids suffice since pids are used again: a third daemon is the
first one's pid launched again; a new inode is only made while
the name leads nowhere, when the other process and the reader hold at most
two, so one of three is always free. *LogRotate*: two
requests in one second and one in the next, from both askers, with a failure
in a rotation and in the one after it. *NativeCopy*: one and two blocks tell sizes
apart, and a write may fall between the two block reads of one copy and
another into the next. *FindScan*: more rows than pipe and channel hold
together, so every party blocks. *WalkScan*: two racing appends and a third
after them. *CopyMethod*: a directory, one in it, and a file and a link below
these in the other chunk, so children come before their directories; one
obstacle per path, with all combinations for the native copier
(`RsyncStanding` limits what rsync finds); one fault, which may be a failing
call, a full disk, a dying rsync, a vanished file or a cancellation, and two
attempts, so an attempt meets what the failed one left. *SyncMount*: one
setting for each way a value may travel (a text that may be empty, a switch,
a number for the selector alone, the sandbox switch); the failure that breaks
preparation off and two more in the cleanup.

Every bound is a constant named in the module (`MaxWrites`, `MaxFaults`,
`MaxClock`, `MaxAsk`, ...) or the size of the input (`NumRows`, `NumEntries`).

## 4. Fairness

`FairSpec` of each module that has a liveness property assumes weak fairness of each
goroutine, because the Go runtime runs every goroutine that can run. Beyond that:

- `SelectorPipeline`: a child that has received SIGTERM ends; one that has not may run
  for ever. Opening the input and reading from it are *not* fair: the csv may be
  standard input or a FIFO, and neither call looks at the context. So the first
  half of `CancelStops`, that no child outlives a cancellation, holds whatever
  the input does; the second, that `Execute` returns, assumes in the formula
  that reads do (`InputArrives`). `EventuallyReturns` assumes this, that the
  children end (`ChildrenEnd`), and a worker if there is a row for one.
- `ChunkPipeline`: a copy attempt and a retry delay end (rsync and the native
  copier work through a finite chunk). The ticker is *not* fair: termination does not
  depend on it, nor on which ready case a `select` takes.
- `FileScanner`: find runs, and is killed by the cancelled context; the
  dispatcher takes rows only as long as nobody has cancelled.
- `CopyMethod`: workers and the goroutines of a chunk go on, an rsync that was
  terminated ends, runs follow one another. rsync may hang for ever;
  `Converges` assumes for the rsync method, in the formula (`RsyncWorks`), that
  it gets on with its list, `CancelReturns` does not.
- `NativeCopy`: runs follow one another. Writes, failures and crashes are
  never fair and are bounded; `Converges` speaks of what happens once they stop,
  crashes included, and assumes in the formula that nobody else edits the destination.
- `PidFile`: selectors are scheduled; a runner whose context SIGTERM
  cancelled returns, which is `CancelStops` of `SelectorPipeline` for an input whose
  reads return (`start` refuses `-`, `entry/daemon.go:86`; its csv is taken to be a file).

`LogRotate` and `SyncChild` are checked for safety only.

## 5. What is proved

The proofs hold for every value of the constants that satisfies the module's
`ASSUME`, without any bound on rows, workers, processes, inodes, settings, trees,
requests or failing calls. These assumptions are ranges (`SelectorAssumption`,
`ChunkAssumption`, `ScannerAssumption`) and the distinctness of markers
(`PidFileAssumption`, `LogRotateAssumption`, `NativeAssumption`); the two that
say more, `ChildAssumption` and `TreeAssumption`, are explained below. TLC
evaluates each in a run. In every proof TLC has checked the inductive
invariant first, as `IInv` of the run of that module.

`SelectorProofs` has two inductive invariants. `PermitInv` is inductive alone:
`PermitsMatch` says that the semaphore's count is the number of live workers, plus one for a
grant the dispatcher has not picked up, plus all permits once the drain
succeeded; `RowsOrdered` that rows in the channel, in the dispatcher's hand
and at the workers are in increasing order, which is why the worker a row is
handed to is always new and why starting it raises the number of live workers
by one. Neither half is inductive alone: `PermitsMatch` needs to know that the
row being started is not alive yet. `IInv` adds what becomes of each row and
error: `NoneSkipped`, an accepted row that the loader has passed is in the channel, in
the dispatcher's hand or started, unless the run was cancelled;
`StartedInOrder`; `OutcomesMatch`, a worker past its child has an outcome;
`ErrorsKept`, a failure that was sent is in the channel or in the list, once;
`EndsMatch`, nobody ends before those it waits for.

- `SelectorPermits`, `SelectorInvariant`: both invariants; `SelectorTypes` the
  type part.
- `SelectorBounded`: at most `workerSize` children. From `PermitsMatch` and
  `cur <= workerSize`.
- `SelectorNoSendOnClosed`: once `errorClosed`, all permits belong to the
  drain, so no worker is alive.
- `SelectorRowsHandled`, `SelectorFailuresCollected`: what holds at the end of
  `Execute`, when by `EndsMatch` nobody is left who could have a row or an error in hand.
- `SelectorImplementsFanOut`: each step maps to a step of `FanOut` or a
  stutter under `status`, `sent` and `closed` as defined at the end of the module.

`ChunkProofs` rests on `IInv` of `ChunkPipeline`. Permits are counted as in
`SelectorProofs`. `ArrayHasOneOwner` says that a backing array belongs to the
pool, to the chunk being filled or to one job; with it `ChunkIntact`, an array
in use holds the entries of its chunk, survives the reuse of arrays.
`EntriesInOrder` and `ChunkContinues` place each entry scanned: in the channel,
in the chunk being filled, or in the span of a job; `JobsInOrder` says that
the spans follow one another. `OutcomesMatch`, `ResultsKept` and `EndsMatch`
carry outcomes, the scan's included, to the runner's result and error.

- `ChunkInvariant`, `ChunksInOrder`, `NilErrorIsCopied`, `TotalsAddUp`,
  `ChunkImplementsFanOut`.

`NilErrorIsCopied` is about the entries the scan has sent. Whether these are all
there are is another matter (section 6: rows are dropped, or lost in the pipe), which the
pipeline cannot see: its scan may end after any number of entries, with an error or
without. `NilErrorIsCopied` and `TotalsAddUp` speak of runs that reach `"done"`: a nil
Result (section 6, 1) ends a run in `"crashed"`.

`PidFileProofs` rests on `IInv` of `PidFile`: who is past flock holds the lock of the inode it
has open (hence two such processes have different inodes, lemma `LockersDiffer`);
from `WritePid` on that inode holds its owner's pid; while a process is
between `stat` and `remove` the name does not move, because only the holder
of the named inode's lock gets there and a new name is given only
when there is none; a verified live handle refers to a daemon.

- `PidFileInvariant`, `PidFileNamesDaemon`, `PidFileRemovesOwn`.
- `StopSignalsDaemons`: assumes `Pidfd`.

`SyncChildProofs` rests on `IInv` of `SyncChild`, whose conjuncts stand in the two modules it
composes. Of `HandOver`: `SettingsKept`, what the next process would read is
what the operator wanted (or, for an empty text, the default), the switches of
the selector included; `MarksTrue`, the marks in a child's environment say
"sandboxed" exactly when he wanted it so, and then the child has namespaces of its own. Of `SyncMount`:
`Preparing`, the mounts are those before `k` in `MountOrder`; `Cleaning`, what is
not stuck is still ahead of `k`; `Isolating`, past the sandbox step the process is isolated
exactly when asked. The halves meet in `sandboxed` and in "nothing of
`Execute` has happened before the settings are read", without which a hop
could change `sandboxed` under a mounted child. The assumption on the constants says that no
value is the absent one, that the switch is true or false and off by default,
and that `--worker-size` is never an empty text, as it is an integer flag.

- `SyncInvariant`, `SyncCopiesOnPins`, `SyncSettingsArrive`,
  `SyncOnlyStuckLeft`, `SyncSandboxLeavesNothing`, `SyncHostUntouched`.

`LogRotateProofs` rests on `IInv` of `LogRotate`. `LockMatches`, `JobMatches` and
`FilesMatch` say who is rotating, what is left to rotate, and which files are open.
As long as midnight has not asked, `StampsGrow` says that every stamp in a name is
older than the one the next rotation uses (that is what the wait of one
second is for), hence `NamesDistinct`, a rename meets no other file, hence
`LogsLinked`, a file with lines has a name. `StreamsMatch` follows the stream's
file through a rotation: at home, on the move (renamed, with or without its
replacement), at home again; one failing call leaves a way back, which is why
stdout is followed up to `faults <= 1`, and stderr, whose rotation comes
second, only without one.

- `LogInvariant`, `SighupKeepsLogs`, `LogKeepsItsName`.

`NativeProofs` rests on `IInv` of `NativeCopy`. Writes change the source's
time, so while the time read before the copy (`tm`) is still the source's, the temporary file is a
prefix of the source (`TempIsPrefix`), as long as the source once the copy has
ended, and `RenamedIsWhole` from the rename on. `SameTimeIsSame`, a
destination with the time of the source has its contents, needs both: the
times are set on a file that may already be old.

- `NativeInvariant`, `NativeUptodate`, `NativeRenamedWhole`.

`ScanProofs` rests on `IInv` of `FileScanner`: for the scanner that was chosen,
`FindMatches` (rows printed, fetched, dropped and sent against the control states
of readers and process) or `WalkMatches`, which contains `ErrorsKept`: unless
appends have overlapped, the slice holds the errors of all visits that failed but
the one whose append is under way (`Appending`). The scanner that was not chosen
has not moved.

- `ScanInvariant`, `ScanSendsFetched`, `ScanReportsBad`.

`CopyProofs` rests on `IInv` of `CopyMethod`, whose conjuncts stand in `NativeTree` and
`RsyncChunk`. `LstatHolds` and `LookHolds` say where a look that may be stale still
holds: what is about to be removed is still in the way, what is made does not
stand yet. `StepsFit` and `StatesFit` tie control states to kinds of entries
and, for rsync, to its goroutines and process; `BehindSettled` and
`BehindArranged` say that the entries a worker has passed are in place, have
failed, have vanished or are logged. Workers share directories only, and the argument is
one about interference: every step of a worker does no more than make missing
directories and change the worker's own entry while that is not right
(`Touched` in the proof), and all that other workers rely on survives such a step
(`TouchedKeeps`). `RemoveAll` fits in because nothing stands below what is not
a directory, so it takes away one path only (`RemovedOnly`).
`TreeAssumption` says that `Above` is a nesting of directories, that chunks are
sequences of paths, and that no path is in the chunks of two workers, as a scan lists
each path once; the tree, what stands in the destination and the split are arbitrary.

- `CopyInvariant`, `CopyNilMeansBuilt`, `CopyListReleased`, `CopyUndamaged`.

Only model-checked is what the prover does not reach: liveness, which needs fairness and
ENABLED (`CancelStops`, `EventuallyReturns`, `StopEnds`, `ScanReturns`,
`CancelReturns`, `Converges`). The properties of the runs that expect a violation
are false. Every other property of a run, invariant, action property or refinement, is a theorem.

## 6. What the checks show about the code

Disagreements shown by a run:

1. `ChunkNilResult`: when the context is done before the first attempt of a chunk,
   `retry.Do` never calls the closure and a nil Result reaches
   `result.Append`, which panics (`copier/native/copier.go:62`,
   `copier/runner.go:98`).
2. `PidOneDaemon`: the lock is taken on the inode that was opened, and nobody checks that
   the path still leads to it. A second daemon that opens before the first
   one's cleanup removes the name and locks after it, and a third one on a new
   file, run together (`selector/pid.go:42`).
3. `FindLosesRows`: `Wait` closes the pipe while rows are in it, the scan ends
   with a nil error (`copier/find/find_method.go:174`).
4. `RsyncSkips`: with rsync, a file whose directory is in another chunk that is
   not there yet is logged and skipped, and its chunk returns nil
   (`copier/rsync/task.go:186`); the next run copies it.

Disagreements the models contain without a run of their own; the properties next
to them state what does hold:

- A csv read error ends the loader like the end of the file: Execute returns nil
  and the log says all entries were processed (`selector/runner.go:81`,
  `entry/selector.go:163`; `RowsHandledInOrder` excludes `Unreadable` rows).
- Errors of the walk can be lost to a racing append, all of them included, and
  the race can take the process down, against `scan_method.go:16` "preserves
  scan errors" (`raced`; `BadScanReported` holds as long as no two appends overlap).
- A selector whose csv is standard input or a FIFO does not end at SIGTERM while it
  waits for a row: `rdr.Read` ignores the context (`selector/runner.go:33`, `81`).
  Its children end (`CancelStops`).
- SIGHUP and midnight in the same second produce the same name, and the
  second rotation replaces the first one's file (`log_rotate.go:29`, `68`;
  `HupKeepsLogs` is restricted to SIGHUP).
- A mount name that is not a local path makes the cleanup refuse its own paths
  (`syncer/runner.go:62`, `298`; variable `skipped`).
- A crash between the rename and the setting of the times leaves a copy newer than
  its source, which is not refreshed while sizes agree; so does a failing chmod or
  chtimes when the removal that follows fails as well, its error being ignored
  (`copier/native/copier.go:428`, `434`). The copy may mix two states of the source.
  `Converges` names this state, `BeyondRepair`. A full disk and a failing removal
  leak the temporary file (`leaked`).
- Without a pidfd (`Pidfd = FALSE`) DaemonStop can signal a process that
  has been given the pid since the check; go.mod names Go 1.20.
- A find row that is not understood is logged and skipped, and the scan still
  returns nil (`Drop`), and so does the copy (`NilErrorMeansCopied` speaks of the
  entries that were sent).
- A chunk of rsync returns nil when directories, links or files of it failed
  locally: they are only logged (`logged`; `NilMeansBuilt` excepts them). With a
  port configured links are never copied (`--no-links`). A chunk whose context
  is done before its first attempt has a nil Result here too.
- rsync's `processDirectory` compares `Mode()`, directory bit included, with
  permission bits, so it always sets the mode; a new directory keeps what the
  umask left (`MakeDirectory`).
- `ensureDestinationPaths` refuses a whole chunk for one path below a
  non-directory, before `processDirectory` could clear the way: no later run
  repairs that (`Refused` in `CopyMethod`).
- An empty text is exported as `KEY=`, which viper ignores: `--scan-find-path=`
  ("or use golang implementation", `main.go:62`) and empty mount options reach
  no sync child of a selector; it takes the flag's default
  (`SettingsArrive`, second disjunct).
- `compareFile` compares sizes before times: a destination newer than the source
  but of another size is overwritten (`copier/native/copier.go:321`), while
  `copier_behavior_test.go:148` leaves newer destinations untouched.
- A `--file-mode` with group or other write permission gives the native copier
  directories that its own `EnsurePrivatePath` refuses in the next step.
- The ignore rules look at the name and its direct parent only, where
  `find/ignore.go:57` says "inside a metadata directory".
- `--worker-size 0` waits until it is cancelled (`AcquireQueues`; `EventuallyReturns`
  excepts it).

## 7. Not modelled, and why

- `--rsync-recursive`: each chunk then makes rsync copy the whole tree, and the
  list is not read; the counters rsync's readers keep.
- The ignore rules as a function of the path: the scans choose the verdict.
- Ownership and sticky bits in the path guards; a directory is private, open, or
  not a directory.
- The conversion of settings to text and back. The mode is the only lossy one
  (`FileMode.String` drops set-id bits), and all uses mask it with `Perm`.
- What a manually started `copy`, or a `sync` with hand-made `_SYNCER_...`
  variables, does: `HandOver` starts with none of the latter.
- Text: csv columns, `find -ls` rows, modes, numbers, log wording, result
  counters. No property of the state machines depends on more than whether a
  row is understood and wanted.
- Path guards outside the copiers (pid file, log directory, workspace): the
  models take either outcome at the point of the call.
- Equal modification times of different contents (writes within the clock's
  resolution): `NativeCopy` gives every write its own instant, so
  `UptodateIsSame` is about the order of the copier's reads, not about clocks.
- Panics recovered in goroutines; nothing that is modelled raises one there.
- Sizes that make the program panic at the start (`--scan-deadline` of zero
  or less, negative `--worker-size`): outside the constants' assumptions.
- `--retry-max-delay` (it selects the kind of delay and bounds nothing):
  durations are not modelled.
- Platform wrappers and other operating systems: the models follow Linux.

## 8. Plan

Done in this order: `SelectorPipeline` and `FanOut`, `ChunkPipeline`, `PidFile`, `LogRotate`,
`NativeCopy`, `FindScan`, `WalkScan`, `SyncMount`; then `SelectorProofs` and
`PidFileProofs`; then `FileScanner`, `CopyWorld`, `NativeTree`, `RsyncChunk`,
`CopyMethod`, `HandOver`, `SyncChild` and `SyncChildProofs`; then `ChunkProofs`,
`LogRotateProofs`, `NativeProofs`, `ScanProofs`, `CopyProofs` and the rest of
`SelectorProofs`. Next:

1. Action properties that the invariants now make provable: a chunk's outcome is
   final, and no rotation touches a log file it has not opened or renamed.
2. The safety half of the liveness properties: the variants (rows left, attempts
   left, entries left) that each fair step lowers, as lemmas.
