# Formal models of mliport

mliport (`mliport/mliport/`) runs machine-learned interatomic potentials from a
command line, a terminal UI and a Python API. Most of it is numerical work on
one structure in one process. This directory models the part of it that is a
*system*: processes that start each other, share files, lock, signal, time out
and die. TLC checks the models on small instances; TLAPS proves the theorems of
the `*Proofs` modules for every value of their constants.

All paths below are relative to `mliport/mliport/` unless they start with `docs/`.

## 1. Inventory

### Parts with state of their own

| component | source | state | operations | who talks to it |
|---|---|---|---|---|
| job registry | `jobs.py` | one JSON record per job, a registry-wide `flock` | enqueue, claim, mark running, update status, pause/resume a job, recover claims, kill, clean, delete, import of legacy records | every other part of the queue, by method calls under the lock |
| queue scheduler | `queue.py` (`QueueScheduler`) | the loop's own counters, `scheduler.paused` | one pass (`run_once`): recover claims, reap, gate, claim, spawn, promote | registry; spawns workers; reads the pause file |
| job worker | `job_worker.py`, `run_status.py` | one process per claim, one child per worker | handshake, start, report | registry; its child's exit code |
| scheduler control | `queue.py` (`start_scheduler` ...), `queue_daemon.py` | `scheduler.lock` (lock and text), `scheduler.pid` | start, foreground run, stop, status | processes racing each other through the three files |
| run directory | `run_directory.py` | `.mliport-run.lock`, the artifacts in the directory | check for artifacts, lock, overwrite | engine, batch, confsearch; NEB has a lock file of its own |
| batch runner | `runners/batch.py` | manifest, one status file per structure, a progress log | run, resume | run directory, sp/opt runners |
| configuration search | `confsearch/` | unit checkpoints, registry of minima, archive of incomplete attempts | run, resume, extend, merge | run directory, engine |
| NEB workflow | `neb/`, `runners/neb.py` | band checkpoints, phase | prepare, relax ends, run, resume | run directory |
| MD runner and its writer thread | `runners/md.py`, `runners/md_output.py` | a bounded queue of frames, an error slot, open files | submit, write, flush, close | MD thread and writer thread |
| native GPUMD runs | `gpumd/` | one child process, its logs | run, time out, cancel, parse, audit | MD/opt/sp through the engine |
| terminal interface | `tui/` | screens, one worker thread | submit, run, cancel | registry, engine |

### Parts without

Configuration (`config/`), the CLI's argument handling (`cli.py`), device
identity (`devices.py`), calculators (`calculators/`), writers (`writers/`),
analysis (`analysis/`), the science of the configuration search (fingerprints,
graphs, placement), installer and doctor (`install/`, `doctor.py`) are functions
from inputs to outputs or adapters to numerical packages.

### How the queue's processes interact

```
 user (CLI, TUI, API) --enqueue/kill/pause/...--> registry (records, lock)
        |  touch/unlink scheduler.paused              ^   ^
        v                                             |   | handshake, report
 scheduler --recover/reap/claim/promote---------------+   |
        | Popen (new session)                             |
        +-------------> worker ---------------------------+
        |                 | subprocess.run
        | SIGTERM(group)  v
 kill_job ----------> calculation (30 s of grace, then _exit)
```

What makes it hard, by source line, is the list `hazards` of `PROJECT.json`:
claims recovered from a dead or slow owner while its worker is still starting;
crashes between claim, spawn and promotion; a handshake deadline racing a
promotion; pids reused by later workers; records acted on after an unlocked
read; a lease that is a property of the record and not of the calculation; the
lock that changes hands by inheritance; pid files that outlive their process.

### What makes each part correct

* registry: GPU leases are bounded; a waiting record holds nothing; outcomes are
  final; a running record does not change hands.
* scheduler and workers: a job is calculated at most once; what is shown is what
  its calculation returned; the cap holds across restarts; a pause holds; nothing
  that dies blocks the queue for ever.
* scheduler control: one scheduler at most; a failed start leaves none; a crash
  never leaves the lock taken; a stop stops.
* MD output: no requested frame is lost, repeated or reordered; the published
  status tells how much is there; no thread waits for the other for ever.
* run directory and batch: one run at a time owns a directory; a result is reused
  only where it would be computed again; the summary tells what the status files
  tell.
* NEB: an attempt that dies costs one checkpoint at most; reports name what is on
  disk; a resume keeps the band it was given.
* configuration search: an interrupted and resumed search is the uninterrupted
  one; files of an interrupted cycle mix with no other; an extension keeps what
  came before it.
* native GPUMD: a tree holds the output of one process; `completed` is said only
  of a process that succeeded; a cancellation ends.

## 2. Modules

| module | models | state |
|---|---|---|
| `JobManager` | `jobs.py`, `devices.py:171-185` | `jobs` (the records), `clock` (the FIFO key) |
| `JobManagerProofs` | theorems about `JobManager` | |
| `JobQueue` | `queue.py` `run_once`, `job_worker.py`, the queue commands of `cli.py`; EXTENDS `JobManager` | `sched`, `paused`, `worker`, `calc`, `signals`, budgets |
| `JobQueueProofs` | theorems about `JobQueue` | |
| `JobContract` | what the queue promises about one job | `phase`, `run` |
| `SchedulerControl` | `start_scheduler`, `run_forever`, `stop_scheduler`, `scheduler_status`, `queue_daemon.py` | `op`, `pc`, `seen`, `proc`, `lock`, `lockText`, `pidFile` |
| `SchedulerControlProofs` | theorems about `SchedulerControl` | |
| `MDOutput` | `runners/md.py` 1272-1643, `runners/md_output.py` 113-284, `writers/outcar.py` 608-651 | `md`, `writer`, `queue`, `error`, the files, `outcar`, `manifest`, `cancelled` |
| `FrameLog` | what the output of an MD run promises | `asked`, `log`, `failed`, `verdict` |
| `MDOutputProofs` | theorems about `MDOutput`, that it implements `FrameLog` among them | |
| `RunDirectory` | `run_directory.py`, the claim in `engine.py` | `holder` (of the lock), `artifacts` |
| `BatchRun` | `runners/batch.py`; EXTENDS `RunDirectory` | `run`, `batchManifest`, `status`, `outs`, `summary`, `input` |
| `BatchRunProofs` | theorems about `BatchRun` | |
| `NebRun` | `neb/workflow.py`, `neb/io.py`, the stages of `runners/neb.py` | `attempt`, `checkpoints`, `latest`, the three reports, `exported` |
| `NebRunProofs` | theorems about `NebRun` | |
| `ConfSearch` | `confsearch/engine.py`, `checkpoint.py`, `workflow.py` and the commands run, resume, extend | `search`, `memory`, `saved`, `budget`, `rawFiles`, `found`, `folders`, `history`, `fate` |
| `ConfSearchProofs` | theorems about `ConfSearch` | |
| `GpumdRun` | `gpumd/process.py`, `gpumd/runner.py` | `wrapper`, `gpumd`, `cwd`, `native`, `trees`, `verdict` |
| `GpumdRunProofs` | theorems about `GpumdRun` | |
| `MCJobManager`, `MCJobQueue`, `MCSchedulerControl` | instances for TLC | |
| `MCWorkflows` | composes `MDOutput`, `GpumdRun`, `BatchRun`, `NebRun` and `ConfSearch` for TLC | `workflow` |

### JobManager: the registry

Every method runs under one file lock around its read, its guards and its
atomic replace of the record (`_write_data_unlocked`), so every method is one
action. A record is abstracted to the fields some guard reads: status, device
kind, lease, claim token, claim owner, pid, process identity, whether the id is
a UUID, and creation order. `mark_running` takes the lock twice; its first
section only reads, what it reads is compared again by the second
(`update_status` with the same token), so one action stands for both.

The specification is *open*: `Next` lets any caller call any method with any
arguments, also combinations no present caller uses. What is proved here does
not depend on who calls. (`submit`, the immediate start used by tests, is a
sequence of these calls; so it is covered here and not in `JobQueue`.)
`migrate_legacy_state` is the one writer that takes no lock: it looks for an
existing file (`jobs.py:200`) and writes its own (211). Ids of imported records do
not collide with fresh UUIDs, so as long as one migration runs at a time nobody
creates the file between the two, and one action stands for each imported record.
Two migrations at the same time are excluded: the slower could put the old record
over one that was claimed or settled meanwhile, and `TerminalIsFinal` and
`RunningIsPinned` would not hold (a hazard without a property in `PROJECT.json`).

### JobQueue: scheduler, workers, calculations, users

One scheduler process at a time (that this is so is what `SchedulerControl`
shows), each step of `run_once` an action guarded by `sched.pc`:

| `sched.pc` | action | code |
|---|---|---|
| `idle` | `RecoverClaims` | `recover_stale_claims` (`queue.py:902`) |
| `reap` | `ReapChild`, `ReapDone` | `waitpid` loop (862-881) |
| `probe` | `Probe`, then `Gate` | liveness probe (884-895), pause check and count (907-912) |
| `loop` | `Loop` | `while` condition, second pause check, snapshot (913-920) |
| `scan` | `Scan` = `ScanFails`, `ScanClaims`, `ScanSkips`; `ScanDone` | the `for` loop (920-964) |
| `spawn` | `SpawnWorker`, `SpawnFails` | `_spawn_worker` (968-978) |
| `promote` | `Promote`, `PromoteFails` | `mark_running` (979-980) |
| `abandon` | `Abandon` | 981-988 |

A worker goes `claimed` (not spawned), `handshake`, `ready`, `calc`, `exiting`,
then `zombie` while its scheduler lives and has not waited for it, then `gone`.
`calc[t]` is its child: `run`, `stopping` after SIGTERM, then the exit code's
meaning. A child survives a killed worker, as the real one does.

A claim token also names the worker spawned for it and stands for its (pid,
start tick) identity, which is unique; pids (`Pids`) are few and reused. Popen
collects exited children it knows of before it forks, so `SpawnWorker` may
remove zombies behind the reaper's back.

`list_jobs` reads records one by one without the lock. The readers act on what
they saw by a compare-and-swap that repeats the condition (`expected_statuses`,
`expected_pid`, the token), and a RUNNING record only ever becomes terminal, so
the probe's read and its write are one action; where the gap does matter (the
snapshot of pending jobs, the set of records to probe) the snapshot is kept in
`sched.todo`. The two counts of `queue.py:910` are one read: only the scheduler
itself claims and promotes, so no job moves from the one to the other meanwhile;
workers and users only take active jobs away. A device is resolved once for a
job and pass, to a GPU chosen freely: with that GPU the job is claimed
(`ScanClaims`) or passed over (`ScanSkips`). The cap is the same for every
scheduler, though a restart may be given another. That a legacy record is imported
again after it was cleaned or deleted, and its job run again, is left out
(`FreshIds`): it is what the user asked for, and `RunsAtMostOnce` is not about it.

The scheduler is stopped by SIGTERM between passes and by a crash anywhere:
both are `Exit`. `Boot` starts the next one. Exit codes of orphaned children
are read by nobody and merged into `error`.

### JobContract: what the queue promises

Per job: submitted once; picked, perhaps given back, but never after its
calculation has started; started at most once; the outcome shown is the
calculation's, or `cancelled`, or `failed`; outcomes stay. `JobQueue` implements
it with `phase` computed from the record and `run` from the job's workers
(`Contract`, `KeepsContract`).

### SchedulerControl: start, foreground, stop, status

Each caller makes one call; the daemon of a start carries the caller's name, so
"whose open file description holds the lock" is one variable even while parent
and daemon share it. `flock` belongs to the description: closing the parent's
descriptor (`StartClose`) keeps the lock with the daemon, `LOCK_UN`
(`ForegroundUnlock`, `ProbeRelease`) drops it, and the end of the last process
that has it open drops it too. Every write can fail (`MaxFaults`), and every
process can be killed at any step. `_scheduler_lock_held` is two actions,
because it really takes the lock.

### MDOutput and FrameLog: the frames of an MD run

Two threads: the MD thread (`md.pc`) and the writer thread (`writer.pc`). A
frame is its step number; which steps are saved is the code's rule (every
`SaveInterval`-th, and the unsafe one), which step is unsafe or fails is left
open.

| `md.pc` | action | code |
|---|---|---|
| `observe` | `Observe` | `print_progress`: failed writer, cancellation, evaluation, force gate |
| `check`, `put` | `SubmitCheck`, `SubmitPut` | `submit`: `raise_if_failed`, then `put` with a timeout |
| `handler`, `backstop` | `Handler` | an except clause, or the finally block, calls `close_output_stream` |
| `sentinel`, `stop`, `join` | `CloseCheck`, `CloseSentinel`, `CloseJoin` | `close`: the first look at the error, the loop around the sentinel, join and last look |
| `contcar` | `Contcar` | the abort handler's CONTCAR |
| `trailer`, `manifest` | `PublishTrailer`, `PublishManifest` | `publish_terminal`, once per status in `md.reports` |
| `post`, `lastTrailer`, `lastManifest`, `leave` | `Post` ... `Leave` | `postrun_failure_guard` and what it guards |
| `gone` | | the exception, or the result, has left `run` |

`Interrupt` is a KeyboardInterrupt; where it leads follows from the try
statement: a handler, the backstop when a handler is hit before it has closed
the stream, the post-run guard, or out. `raw` is `trajectory.traj` and
`md.csv`, `exports` XDATCAR and OUTCAR; the writer's steps for one frame are
`WriteRaw`, `RecordFrame` (CSV row and count) and `ExportFrame`, each of which
may fail. All optional outputs are on. Not represented: flush intervals, and
that a writer which fails while `close` waits for room (the one way out of
`close` without a join) may still be flushing OUTCAR when its trailer is
appended; and that `self.log` may raise. In an except clause that leads to the
backstop, which then reports `failed` and not `cancelled`; in the backstop, whose
own first act is to log, it leads out of `run` with the stream still open.

`FrameLog` is the log a reader may rely on: frames in order of steps, without
gap; nothing written after the verdict; completed and aborted only with
everything asked for on file, completed only with every regular frame.
`MDOutput` implements it with `log` the raw trajectory and `verdict` the status
of `artifacts.json`.

### RunDirectory and BatchRun: who owns a directory, and what a batch reuses

The check for artifacts and the lock are two steps (`CheckDirectory`,
`LockDirectory`), so two new runs may both find the directory free; the lock
refuses the second while the first works, and the system frees it with the
process. `BatchRun` lets several runs, new, overwriting or resuming, each with
settings of its own, pass through these steps and then through `run_batch`:

| `run[r].pc` | action | code |
|---|---|---|
| `check`, `lock`, `log` | `CheckDirectory`, `LockDirectory`, `OpenLog` | `ensure_output_available`, `run_directory_lock`, `run.log` |
| `manifest` | `PrepareManifest` | write the manifest, or compare it |
| `loop` | `Consider` | reuse the record, or remove the status file |
| `hash`, `read`, `compute`, `finish` | `Hash`, `Read`, `Compute`, `FinishOutputs`, `StructureFails` | `_process_one` |
| `record` | `RecordStatus` | the status file, replaced atomically |
| `summary`, `close` | `OpenSummary`, `WriteSummary` | `batch_summary.json`, written in place |

`BatchDies` may come between any two of them; the user edits inputs at any time
and damages outputs while nothing runs. A result is named by the settings and
the content it was computed from. The reuse check compares sizes of outputs
only, so an output is its origin and whether it is whole.

### NebRun: attempts at one band

Attempts follow each other, because `.neb-run.lock` admits one at a time. A band
is the number of optimiser steps since it was interpolated; a checkpoint is its
place in the sequence of `step_N` directories. Writing one is three steps, the
directory (`WriteDirectory`), the pointer (`MoveLatest`) and `artifacts.json`
(`PointArtifacts`); the end is `Export`, `WriteResults`, `WriteContext`,
`WriteArtifacts`, and `FailResults`, `FailContext`, `FailArtifacts` when
something has raised. `NebRaise` is a failing write, an interrupt or a
cancellation, `NebKilled` the end of the process anywhere.

### ConfSearch: units, checkpoints, extensions

One process at a time holds the directory lock. A unit of work is the start of
all replicas or one cycle of one replica, and after each the checkpoint is
replaced. `Restore`, `RunStart`, `SkipCycle`, `BeginCycle`, `EndCycle` and
`SaveCheckpoint` are the engine; `ArchiveResults`, `ArchiveFolders`,
`OpenContext` and `RecordExtension` what an extension does before it starts;
`BuildResults`, `OpenResults` and `CloseResults` the end. Physics is
deterministic given the random streams of a replica and the minimum it stands
at, whatever it computes; `fate` is what has been seen of this function so far,
chosen freely the first time and repeated from then on. So "the uninterrupted
search" is an operator on `fate` (`Uninterrupted`), and `ResumeIsUninterrupted`
compares every checkpoint with it, after any number of kills, resumes and
extensions. A raw directory is the set of processes that have written to it.

### GpumdRun: a wrapper and its child

The wrapper launches gpumd in a session of its own, so the child outlives a
killed wrapper and keeps writing to the directory it was started in, wherever
that has been moved: trees have identities, `native` is the one at `native/`.
`Launch` is Popen and `EnterWatch` the entry into the try statement after it
(`wrapper.watched`): between the two the child is there and no finally clause
would stop it. `Poll`, `Ask`, `Grace`, `Kill`, `KillWait`, `Finally` and `Wait` are
the rest of `run_gpumd` and `_stop_process`; the finally clause may call the latter
a second time (`wrapper.last`). Cancellation, the deadline, the exit of gpumd and
interrupts come at any step. `Judge`, `OpenManifest` and `CloseManifest` are the
verdict; the manifest may be written, torn or not written at all, and an
interrupt while a verdict is reported turns it into `failed`. `InterruptGpumd`
covers the try statement of `GpumdRunner.run`; an exception in its handler, or
before the try, is a `WrapperDies`.

### MCWorkflows

A directory belongs to one workflow, so the composition chooses one in `Init`
and each then takes its own steps: a sum of state spaces, not a product. It
keeps the fairness of `MDOutput` and `GpumdRun`; the others have none, and no
liveness property.

## 3. Runs

| run | constants | states | shows |
|---|---|---|---|
| `JobManager` | 3 jobs, 1 GPU, limit 2, one token, owner, pid and worker; symmetry | 129 k | type correctness, `LeaseBound`, `WaitingHoldsNothing`, `TerminalIsFinal`, `RunningIsPinned` for every caller |
| `JobQueue` | a GPU job, then a job of either kind, cap 2, 1 fault, 1 command of any kind | 2.1 M | `QueueTypeOK`, `SupervisedIsRunning`, `TruthfulOutcome`, `PauseStopsDispatch` |
| `JobQueueContract` | 2 CPU jobs, cap 1, 2 faults, 1 kill | 1.5 M | `KeepsContract`, `RunsAtMostOnce`, `CapRespected` |
| `JobQueueLive` | a GPU job, then a job of either kind, cap 2, 1 fault, fair | 156 k | `ClaimsAreResolved`, `QueueDrains`, `DeadWorkersAreNoticed`, `WorkersEnd` |
| `JobQueueLease` | 2 jobs, 1 fault, 1 kill | | finding: `CalculationsWithinLease` is violated |
| `JobQueueSignal` | 1 pid, 1 kill | | finding: `KillHitsItsWorker` is violated |
| `SchedulerControl` | 3 callers, 2 faults, fair | 112 k | `SchedulerHoldsLock`, `FailedStartLeavesNothing`, `Startable`, `StopIsObeyed` |
| `SchedulerVisible` | 3 callers, no fault | | finding: `RunningIsVisible` is violated |
| `Workflows` | MD: 6 steps, every 2nd saved, queue of 2, 2 faults, 2 interrupts outside `close`; GPUMD: 2 runs, 2 interrupts each; batch: 2 runs, 2 settings, 2 structures, 1 act; NEB: relax and climb, 2 steps per stage, interval 2, 2 attempts, 2 failures; search: 2 replicas, 1 then 2 cycles, 4 processes; fair | 867 k | MD: `MDTypeOK`, `PublishedFilesAgree`, `TrailerAgrees`, `KeepsLog`, `MDBothEnd`; GPUMD: `NativeIsOneRun`, `VerdictIsTrue`, `StopsInTheEnd`; batch: `BatchTypeOK`, `ReuseIsSound`, `SummaryAgrees`; NEB: `NebTypeOK`, `LatestIsNearlyNewest`, `NebReportsAgree`, `FinishedIsBacked`; search: `SearchTypeOK`, `ResumeIsUninterrupted`, `RawIsOneAttempt`, `BudgetsAgree` |
| `MDOutputDrained` | MD as above, interrupts inside `close`, no fault | | finding: `AlwaysDrained` is violated |
| `NebResume` | end points relaxed, 3 attempts, no failure but kills | | finding: `BandKept` is violated |
| `SearchResume` | 2 replicas, 2 processes | | finding: `ResumeContinues` is violated |

Bounds. Two jobs are enough for a lease conflict, a reused pid and a requeued
job beside a running one; three registry jobs are enough for a lease limit of
two to be exceeded. `MaxFaults` counts crashes and failed system calls: with two,
a scheduler dies between claim and promotion and so does the worker or the next
scheduler. Every fault may let one job be claimed again, hence
`TokensSuffice`. `MaxCommands` counts user commands other than submitting and
resuming; `MaxClock` the jobs ever submitted, so each instance ends:
`CHECK_DEADLOCK FALSE` is used because a queue with nothing left to do really
stops. Pids, jobs of the registry run and similar constants are only compared,
so permuting them is sound; runs with liveness use no symmetry, `JobQueueLive`
fixes the pid of the first worker instead (`FirstPid`). `FirstIsGpu` leaves out
a CPU job submitted before a GPU job.
A queue of two frames and four regular frames let the MD thread wait for room
and the writer for frames; two faults are a failed write and a failed report.
Two batch runs with different settings let one overwrite, outlive or resume the
other, and two structures let a run die between them; one act is an edit between
the hash and the read, or a damaged output. Two NEB attempts are a death and a
resume, the stage change included. Four search processes are a run, a kill, an
extension that is cut short and one that takes it up, and two replicas let one be
inactive. Two GPUMD runs let a surviving child meet the next one.

Fairness. `FairQueueSpec` assumes that a scheduler that is up keeps taking
steps (its loop has no blocking call beyond a sleep), that each worker does (its
waits are bounded by a deadline), that a calculation ends, and that a
`kill_job` that decided to signal signals. Nothing forces a scheduler to be
started, the queue to be resumed or a user to do anything, so the liveness
properties about the scheduler carry the premise `SchedulerStays` (a scheduler
is up for good from some time on). `SchedulerControl` assumes that a call that
has begun proceeds and that a daemon told to end finishes its pass. `FairMDSpec` assumes that
both threads run: the MD thread never blocks for good (its waits have timeouts,
`join` apart, whose end is the writer's), and the writer blocks on an empty
queue only. `GpumdFairness` assumes that the wrapper keeps polling (every wait of
it but the last has a timeout) and that SIGKILL takes effect; gpumd need not
react to SIGINT.

## 4. Findings

* `JobQueueLease`: the lease is released with the record. Cancel a job (or kill
  its worker): the record is terminal at once, its calculation may run until the
  signal is sent (or on, when `kill_job` dies before that), then for
  the rest of its grace period, or as an orphan to its end, and the next job is
  started on the same GPU. The documentation speaks of an exclusive lease.
* `JobQueueSignal`: `kill_job` compares the process identity under the lock and
  signals after it; the pid may belong to another worker by then.
* `SchedulerVisible`: a stop that finds no scheduler removes `scheduler.pid`
  after it has released the lock again, also when it is that of a scheduler
  started meanwhile, which from then on neither `queue status` nor `queue stop`
  can find. TLC finds two more ways when this one is excluded: of two stops the
  second drops the file of a scheduler started after the one it read about, and a
  stop may be killed between dropping the file and signalling. The theorem
  `OnlyStaleStopsHide` says that there is no fourth.
* `MDOutputDrained`: a second Ctrl-C while `close` waits for room in the queue
  leaves the writer without its sentinel: `output_closed` is set before `close`
  is called, the backstop skips the stream, and the non-daemon thread keeps the
  process alive.

* `NebResume`: a resumed attempt first writes the band it loaded as a checkpoint
  of stage `prepared` and moves `latest` to it. When it ends before the first
  checkpoint inside the optimiser, the next resume takes that band for one that
  was never optimised and, with `endpoint_policy="relax"`, interpolates anew.
  With `validate` this cannot happen (`BandKeptIfValidated`).
* `SearchResume`: a quench that did not converge enters the registry without
  distances, the checkpoint holds nulls, and `rebuild_classification` raises on
  them: the search can be neither resumed nor extended.

More behaviours are in the models and worth knowing: when CONTCAR of an aborted
run cannot be written no terminal manifest appears (`Contcar`); an interrupt
that hits the handling of a failed output ends in the status `cancelled`
although frames are missing (`FrameLog` allows it only after a failure); a job whose device
cannot be resolved at one moment is failed for good (`ScanFails`), and a status
or stop call can make a simultaneous start fail with "already running"
(`ProbeLock`, `StartLock`).

Of the workflows: two new runs may both pass `ensure_output_available`, the
second then runs in the directory of the first once that has ended (`CheckDirectory`,
`LockDirectory`). NEB locks another file than the other workflows, so it does not
exclude them. An extension killed between `ArchiveFolders` and `RecordExtension`
leaves its archive behind; if results have been built again since, the next
extension fails on it for ever. One killed while it writes `run_context.json` in
place leaves a search that can be neither resumed nor extended (`OpenContext`). A
start whose energy is not a number makes the first checkpoint unwritable, which
ends the search.

A gpumd child goes on when its wrapper is killed (`WrapperDies`), and also after one
KeyboardInterrupt between Popen (`process.py:246`) and the try statement at 260, or a
second one in the finally clause (`InterruptGpumd`): no `_stop_process` is on the
way out, `runner.py:479-482` writes `failed` to `manifest.json`, and gpumd runs on
unsignalled, where the docstring (`process.py:10-11`) says that a GPU process
cannot survive the run. `VerdictIsTrue` says what holds otherwise. After an
overwriting run has been killed, or could not write its report, the old
`manifest.json` still stands beside the new `native/`.

## 5. Proofs

`JobManagerProofs` proves, for every finite set of jobs and all other constants:

* `TypeCorrect`: `Spec => []TypeOK`.
* `LeaseBoundHolds`: with `TypeOK` the bound is inductive. Only a claim adds a
  holder, and `LeaseFree` left room for it (`ClaimKeepsBound`); every other step
  keeps or shrinks the sets of holders (`UpdateAddsNoHolder`,
  `NoNewHolderKeepsBound`, `ReleasedIsRecord`). The assumptions used are
  `JobsFinite` (cardinalities) and `NoneIsFresh` (a null lease is no GPU).
* `WaitingHoldsNothingHolds`: inductive with `TypeOK`.
* `TerminalIsFinalHolds`, `RunningIsPinnedHolds`: properties of every step from
  a well-typed state.

`JobQueueProofs` proves of the composed queue, for every finite set of jobs and
any number of GPUs, pids, crashes and commands:

* `QueueTypeCorrect` and `QueueImplementsRegistry` (`QueueSpec => Spec`). Both
  rest on `QueueInv`, which adds to the types that a launch under way names a
  job, a token and a spawned worker: without it the arguments of a call could
  be null. `StepIsCall` shows that every step is a registry call with arguments
  `Next` allows, so the theorems of `JobManagerProofs` hold of the queue;
  `QueueKeepsLeaseBound` is one such consequence.
* `RunsAtMostOnceHolds`. The property says nothing of records, so it is not
  inductive. `OnceInv` adds that the record of a *committed* worker's job (one
  past the handshake) is RUNNING under that worker's token, or settled, or gone.
  It stays so by `RunningStep` and `TerminalStep` of the registry and because
  new records take ids no worker refers to (`StepFreshIds`). A second worker
  cannot pass the handshake then: it would need the record to be RUNNING under
  its own token. `LaunchRules` is what any step may do to a worker on its way.
* `CapRespectedHolds`, under `"migrate" \notin Commands` (a record of an older
  release can be imported as RUNNING, above any cap). `CapInv` says that between
  the count at `Gate` and the end of the pass the scheduler's counter bounds the
  jobs active beside the launch under way, and that this launch is still the
  scheduler's own or over. Steps of the others are `Quiet`: no record they
  change is active afterwards.
* `PauseStopsDispatchHolds`, with `PauseInv`: inside a scan no claim has been
  made since the pause.

The assumptions used are `WorkersAreTokens`, `OwnersAreBoots`, `BudgetsNat` and
`CapPositive` beside those of the registry; the budgets bound only how often
something happens, and the theorems hold for all of their values.

`SchedulerControlProofs` proves, for every finite set of callers and any number
of faults, `SchedulerHoldsLockHolds`, `FailedStartLeavesNothingHolds` and
`StartableHolds`. None of the three is inductive: that a running scheduler holds
the lock says nothing of the starting process that hands it over, of a probe, or
of a start that is being undone. The invariant `LockInv` closes the gap: `Owns`
lists exactly the points of a call at which its processes have the locked
description open, `Owns(c) <=> lock = c`, and `Quiet` those at which a caller
cannot have a scheduler. One lemma per kind of call shows that it is kept; a kill
by a stop call and a crash are the steps in which one process moves the lock of
another. The assumption used is `CallersFinite` (a free lock is no caller).

`ControlTypeCorrect`, the type invariant, is a conjunct of `LockInv`; it includes
that only a stop gets to where `scheduler.pid` is removed and a process signalled.
`OnlyStaleStopsHide` proves the violated `RunningIsVisible` of every behaviour
without a `StaleStop`, from `Visible`: a scheduler past its start is in the file, or
the stop that dropped it is about to signal it. `StoppedIsOver` is the part of
`StopIsObeyed` that needs no fairness: no call brings a stopped scheduler back
(`OnceOnly`).

`JobQueueProofs`, further:

* `TruthfulOutcomeHolds`, inductive beside `OnceInv`: only the report of the worker
  that ran the job writes an outcome (`SettlesNothing` of all other steps), a
  settled record stays, and an exit code is never taken back (`CodesStay`).
* `SupervisedIsRunningHolds`, from `SupervisedInv`: living workers have different
  pids (`PidsApart`), the identity in a record is that of the claim
  (`IdentIsClaim`), and a calculation's worker is in charge of its record until a
  cancellation (`InCharge`). The reaper and the probe write off a record only
  when its identity is gone, and then so is its worker.
* `KeepsContractHolds`, under `"migrate" \notin Commands`: every step maps to a
  step of `JobContract` or a stutter. `ClaimInv` excludes that a record is given
  back after its calculation has started.
* `SignalsHitTheirWorkersHolds` and `SupervisedWithinLeaseHolds`, what is left of
  the violated `KillHitsItsWorker` and `CalculationsWithinLease`. `SignalInv` says
  that a pending signal names the pid its worker had, and `Parented` that the
  worker of a launch is still a child, whose pid nobody else can have: a
  signal hits the wrong process only when it comes after the end of its worker and
  of that worker's calculation. `GpuIsLease` says that a calculation in the charge of a
  worker uses the GPU its record holds the lease of, so
  `SupervisedHoldLeases` maps them one to one to holders: a GPU is shared by more
  only when a worker was killed or a job cancelled before its calculation ended.

`MDOutputProofs`, for any number of steps, queue bound, faults and interrupts:
`MDInvariant` proves `MDInv`, whose parts are the types; `ReportsInv`, trailer
and manifest in step with the list of reports still to make; `FramesInv`, where
every frame asked for is at each point of the writer (files, its hand, queue, in
this order, nothing else); `VerdictInv`, what a published status implies;
`OrderInv`, which frames the loop has asked for. From it follow `ReportsAgree`,
`PublishedFilesTrue` and `KeepsItsLog`, the refinement of `FrameLog`.
`JoinsOnlyAToldWriter` is the step of the argument for `BothEnd` that needs no
fairness: past `close` the writer is ending or the sentinel is last in its queue.
`OnlyEarlyInterruptsLeaveWriter` bounds the finding `MDOutputDrained`: only an
interrupt in the backstop or in `close` leaves a writer waiting, no fault,
cancellation or other interrupt does. `PublishesAfterWriter`: no report or result
is written while the writer still writes.
`OnlySilentEndsSayNothing`: every run that is over has its status in manifest and
OUTCAR, apart from lost reports, a CONTCAR that cannot be written after an abort, and
interrupts inside `close` (`SilentEnd`).

`BatchRunProofs`, for any number of runs, structures, settings and edits:
`ReuseSound` needs that the owner of the lock is the one run inside
(`OwnerIsInside`), that the status file of a structure is gone while its outputs
change (`WorkIsHidden`), that what the run inside has read and written belongs
together (`WorkIsTrue`), and that every status file left tells the truth
(`StatusIsTrue`). `SummaryCorrect` adds that the results gathered are those of
the structures passed (`ResultsAgree`).

`NebRunProofs`, for any interval, stages, attempts and failures: `IdsAreOld` and
`PointerFollows` give `PointerIsNearlyNewest`; `ReportsSoFar`, what the reports
say at each point of the end, gives `ReportsTellOneStory`; with `FinalIsThere`
also `FinishedBacked`. `BandKeptIfValidated` shows that the finding `NebResume`
needs the policy `relax`.

`GpumdRunProofs`, for any number of runs: `OneRunPerTree` from `TreeInv` (the tree
of a run is empty or its own when it comes to write: `NothingAhead`,
`NativeIsMine`, `WritesAtHome`, `OneRun`); `VerdictTrue` from `WatchIsTrue`, what
the wrapper knows of the child at each point, and `VerdictIsOld`. The theorem has
the premises of the property: the try statement of `run_gpumd` has been entered
(`wrapper.watched`) and the run interrupted at most once. Without the first, an
interrupt right after the fork is a counterexample; without the second, one in
the finally clause.

`ConfSearchProofs`, for any number of replicas, cycles and processes:
`SearchInvariant` proves `SearchInv`. `ProcessInv` says what a process knows of
the directory at each point, `BudgetInv` ties budget, checkpoint and history
together, `ResultsInv` results and budget, `EngineInv` counts the cycles of each
replica from the number of units done (the lemmas `Division` and `PlanNext` are
its arithmetic), `RawInv` says which raw directories may hold files. From them
`SearchTypeCorrect`, `RawFilesOfOneAttempt`, `BudgetsTellOneStory`, and
`CheckpointGrows`: no step loses a checkpoint or takes a unit back.
`ResumedAsUninterrupted` compares each checkpoint with `Uninterrupted`, a recursive
function over the units. Its defining equation holds only if the recursion
is well founded, and an induction over the units is needed. The library's
induction theorems take an operator, but a set of numbers serves as well: its
complement has no least element (`WFMin` with `NatLessThanWellFounded`), which is
the lemma `InductiveSet`. `FollowsInv` then says of memory and checkpoint that they
are what `Uninterrupted` yields, for whatever cycles and quenches return.
`ContinuesUnlessUnmeasured` bounds the finding `SearchResume`: as long as every
quench has been measured, an attempt that gets to its checkpoint goes on from
it (`MeasuredInv`). `EveryCycleOnce` and `ResultsComplete`: the plan of a budget
gives each replica each cycle once, and results stand only beside a checkpoint and raw
files in which every surviving replica has had all of them.

Assumptions used beside the named ones of the modules: none.

So each of the six violated properties of section 4 is proved up to a boundary:
`SupervisedWithinLeaseHolds`, `SignalsHitTheirWorkersHolds`, `OnlyStaleStopsHide`,
`OnlyEarlyInterruptsLeaveWriter`, `BandKeptIfValidated` and
`ContinuesUnlessUnmeasured` name what the violation needs. TLC finds no
counterexample to any of them on instances like those of the runs either.

Only model-checked: all liveness (`StopIsObeyed`, `ClaimsAreResolved`,
`QueueDrains`, `DeadWorkersAreNoticed`, `WorkersEnd`, `MDBothEnd`,
`StopsInTheEnd`), out of reach of TLAPS like ENABLED. Every invariant and every
action property that a run checks without finding it violated is a theorem.

## 6. Not modelled

Error texts, timestamps other than the FIFO order, log files, display names,
the contents of commands and structures; damaged record files; Windows; NFS
locks that do not lock. The legacy `JobManager.submit` beside a running
scheduler is not in `JobQueue`. Parsing of task files and construction of
commands are pure and not modelled. The remaining components are listed with
their reasons in `PROJECT.json`.

Most of the repository stays outside on purpose. Runners and calculators
integrate, optimise and evaluate floating-point models; analysis, the science of
the configuration search (fingerprints, graphs, placement, ranking) and the
validation scripts are numerical functions of finished data; writers, generated
GPUMD inputs and reports are text formats; the terminal screens are layout;
installer and doctor read tables and call pip. None of them has a protocol, and a
model of the arithmetic would be the program again. In the modelled parts the
following is left out: progress lines of a batch (nothing reads them), names of
its sub-directories, files that an earlier attempt at a structure left in its
sub-directory (it is not cleared, so they can be listed among the outputs of a later
one, `batch.py:429-435`), pre-flight and preparation of NEB, everything of MD before
the first step, provenance of GPUMD. `resume` and `extend` of a search read
`run_context.json` (`cli.py:3102`, 2709) before the directory lock is taken
(`engine.py:810`); the model reads and locks in one step (`ResumeSearch`,
`ExtendSearch`). So two extensions, or a resume and an extension, started at the same
time are not modelled; two plain commands are enough for that, and a resume that
has read the budget of before an extension which then dies could build results of
the old budget: `BudgetsAgree` is claimed for one command at a time. Quenches of
the snapshots of one cycle are one quench (`AfterCycle`). That
`_update_run_context` keeps an older context when the Python API overwrites a
search is not modelled either.

## 7. Plan

What is left, in order of what can go wrong:

1. `ConfSearch`: resume and extension with the reading of `run_context.json` before
   the lock as a step of its own, so that two commands can race; the merging of
   finished searches.
2. The run screen of the terminal interface: its worker thread, cancellation and
   the screen's end.
3. The legacy `JobManager.submit` beside a running scheduler, in `JobQueue`.
4. Pure parts as operators with reference definitions: the precedence of
   configuration layers, output names of a batch, exit codes.
5. Refinements worth stating: the configuration search as an uninterrupted
   search, a batch as a table of results, both beside the invariants proved now.
