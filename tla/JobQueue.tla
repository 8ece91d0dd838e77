------------------------------ MODULE JobQueue ------------------------------
(***************************************************************************)
(* The job queue as it runs: one scheduler process (queue.py), the worker  *)
(* processes it spawns (job_worker.py), the calculation each worker runs,  *)
(* and the users' commands, all acting on the registry of JobManager.      *)
(*                                                                         *)
(* Processes share nothing but the registry, the pause file and signals.   *)
(* Each step below is what one process does between two points where       *)
(* another can act: one locked registry call, one read of the pause file,  *)
(* one process event.                                                      *)
(*                                                                         *)
(* A claim token also names the worker spawned for that claim and stands   *)
(* for its (pid, start tick) identity; pids themselves are reused.         *)
(***************************************************************************)
EXTENDS JobManager

CONSTANTS
  MaxConcurrent,   \* --max-concurrent
  MaxFaults,       \* bound: crashes, kills from outside, failed system calls
  MaxCommands,     \* bound: user commands other than submitting
  Commands         \* the user commands of this instance

ASSUME CapPositive == MaxConcurrent \in Nat \ {0}
ASSUME BudgetsNat == MaxFaults \in Nat /\ MaxCommands \in Nat
\* A job is claimed again only after the crash of a scheduler that held it.
ASSUME TokensSuffice == Tokens = 1..(MaxClock + MaxFaults)
ASSUME WorkersAreTokens == Workers = Tokens
ASSUME OwnersAreBoots == Owners = 1..(MaxFaults + 1)

VARIABLES
  sched,           \* the scheduler process
  paused,          \* scheduler.paused exists
  worker,          \* [Tokens -> worker process]
  calc,            \* [Tokens -> state of the worker's child process]
  signals,         \* signals kill_job has decided on and not yet sent
  faults, commands,
  sincePause       \* history: claims made since the queue was last paused

qVars == <<sched, paused, worker, calc, signals, faults, commands, sincePause>>
vars == <<jmVars, qVars>>

-----------------------------------------------------------------------------
Alive == {"handshake", "ready", "calc", "exiting"}
WorkerPc == Alive \cup {"none", "claimed", "zombie", "gone"}
ExitCodes == {"success", "not_converged", "cancelled", "error"}
CalcLive == {"run", "stopping"}

NoWorker == [pc |-> "none", job |-> None, pid |-> None, boot |-> 0, gpu |-> None]
Down == [pc |-> "down", boot |-> 0, active |-> 0, todo |-> {},
         job |-> None, token |-> None]

Up == sched.pc # "down"
At(pc) == sched.pc = pc
Goto(pc) == sched' = [sched EXCEPT !.pc = pc]

QueueInit ==
  /\ Init
  /\ sched = Down
  /\ paused = FALSE
  /\ worker = [t \in Tokens |-> NoWorker]
  /\ calc = [t \in Tokens |-> "none"]
  /\ signals = {}
  /\ faults = 0
  /\ commands = 0
  /\ sincePause = 0

Fault == faults < MaxFaults /\ faults' = faults + 1
Command(c) == /\ c \in Commands
              /\ commands < MaxCommands
              /\ commands' = commands + 1

\* os.kill(pid, 0) and /proc/<pid>/stat also answer for a zombie.
HasProcess(t) == worker[t].pc \in Alive \cup {"zombie"}
PidInUse(p) == \E t \in Tokens : worker[t].pid = p
                                 /\ (HasProcess(t) \/ calc[t] \in CalcLive)

\* _pid_matches of a record's (pid, pid_identity).
Matches(r) ==
  /\ r.pid # None
  /\ \E t \in Tokens : /\ worker[t].pid = r.pid
                       /\ HasProcess(t)
                       /\ r.ident # None => r.ident = t

\* A worker that ends stays a zombie while the scheduler that is its parent
\* lives and has not waited for it.
Ended(t) == [worker[t] EXCEPT
               !.pc = IF Up /\ sched.boot = worker[t].boot THEN "zombie" ELSE "gone"]

\* The processes of group p after SIGTERM: a worker dies, a calculation has
\* its grace period (_run_product, CANCEL_GRACE_SECONDS) or dies at once.
SignalGroup(p) ==
  /\ worker' = [t \in Tokens |-> IF worker[t].pid = p /\ worker[t].pc \in Alive
                                 THEN Ended(t) ELSE worker[t]]
  /\ calc' = [t \in Tokens |-> IF worker[t].pid = p /\ calc[t] = "run"
                               THEN "stopping" ELSE calc[t]]

-----------------------------------------------------------------------------
(* The scheduler: QueueScheduler.run_once, step by step. *)

\* A new scheduler process takes the singleton lock (module SchedulerControl).
Boot ==
  /\ At("down")
  /\ sched.boot < MaxFaults + 1
  /\ sched' = [Down EXCEPT !.pc = "idle", !.boot = sched.boot + 1]
  /\ UNCHANGED <<jmVars, paused, worker, calc, signals, faults, commands, sincePause>>

\* The process ends: at any point by a crash, between passes by SIGTERM.  Its
\* zombies are reaped by init and its workers run on.
Exit ==
  /\ Up
  /\ Fault
  /\ sched' = [Down EXCEPT !.boot = sched.boot]
  /\ worker' = [t \in Tokens |-> IF worker[t].pc = "zombie"
                                 THEN [worker[t] EXCEPT !.pc = "gone"] ELSE worker[t]]
  /\ UNCHANGED <<jmVars, paused, calc, signals, commands, sincePause>>

\* Mutant: running jobs whose process is gone are queued again.
RecoverRequeuesDead ==
  /\ At("idle")
  /\ jobs' = [j \in Jobs |->
       IF \/ jobs[j].status = "claimed" /\ jobs[j].owner # sched.boot
          \/ jobs[j].status = "running" /\ ~Matches(jobs[j])
       THEN [Released(jobs[j]) EXCEPT !.status = "pending"] ELSE jobs[j]]
  /\ Goto("reap")
  /\ UNCHANGED <<clock, paused, worker, calc, signals, faults, commands, sincePause>>

\* Mutant: only the claims this scheduler made itself are looked at.
RecoverOwnClaims ==
  /\ At("idle")
  /\ \E old \in SUBSET Jobs :
       RecoverStaleClaims({j \in old : /\ jobs[j].status = "claimed"
                                       /\ jobs[j].owner = sched.boot})
  /\ Goto("reap")
  /\ UNCHANGED <<paused, worker, calc, signals, faults, commands, sincePause>>

\* recover_stale_claims: the claims of dead schedulers, and of this one when
\* they are older than stale_claim_seconds.
RecoverClaims ==
  /\ At("idle")
  /\ \E old \in SUBSET Jobs :
       RecoverStaleClaims({j \in Jobs : /\ jobs[j].status = "claimed"
                                        /\ jobs[j].owner # sched.boot \/ j \in old})
  /\ Goto("reap")
  /\ UNCHANGED <<paused, worker, calc, signals, faults, commands, sincePause>>

\* _reap_stale_running, part 1: waitpid returns an exited child; the first
\* RUNNING record with that pid is failed.
Zombies == {t \in Tokens : worker[t].pc = "zombie"}
WithPid(p) == {j \in Jobs : jobs[j].status = "running" /\ jobs[j].pid = p}

ReapChild(t) ==
  /\ At("reap")
  /\ t \in Zombies
  /\ worker' = [worker EXCEPT ![t].pc = "gone"]
  /\ IF WithPid(worker[t].pid) = {}
     THEN UNCHANGED jmVars
     ELSE \E j \in WithPid(worker[t].pid) :
            TryUpdate(j, "failed", {"running"}, worker[t].pid, None)
  /\ UNCHANGED <<sched, paused, calc, signals, faults, commands, sincePause>>

ReapDone ==
  /\ At("reap")
  /\ Zombies = {}
  /\ sched' = [sched EXCEPT !.pc = "probe",
                            !.todo = {j \in Jobs : jobs[j].status = "running"}]
  /\ UNCHANGED <<jmVars, paused, worker, calc, signals, faults, commands, sincePause>>

\* Mutant: only children are looked after.
ProbeNothing(j) ==
  /\ At("probe")
  /\ j \in sched.todo
  /\ sched' = [sched EXCEPT !.todo = @ \ {j}]
  /\ UNCHANGED <<jmVars, paused, worker, calc, signals, faults, commands, sincePause>>

\* Part 2: a RUNNING record whose process is gone is failed.
Probe(j) ==
  /\ At("probe")
  /\ j \in sched.todo
  /\ sched' = [sched EXCEPT !.todo = @ \ {j}]
  /\ IF Matches(jobs[j])
     THEN UNCHANGED jmVars
     ELSE TryUpdate(j, "failed", {"running"}, jobs[j].pid, None)
  /\ UNCHANGED <<paused, worker, calc, signals, faults, commands, sincePause>>

\* The pause file, then the number of active jobs.
ActiveJobs == {j \in Jobs : Active(j)}

Gate ==
  /\ At("probe")
  /\ sched.todo = {}
  /\ sched' = IF paused THEN [sched EXCEPT !.pc = "idle"]
              ELSE [sched EXCEPT !.pc = "loop", !.active = Cardinality(ActiveJobs)]
  /\ UNCHANGED <<jmVars, paused, worker, calc, signals, faults, commands, sincePause>>

\* Mutant: the pause file is read once per pass.
LoopIgnoresPause ==
  /\ At("loop")
  /\ sched' = IF sched.active >= MaxConcurrent
              THEN [sched EXCEPT !.pc = "idle", !.active = 0]
              ELSE [sched EXCEPT !.pc = "scan",
                      !.todo = {j \in Jobs : jobs[j].status = "pending"}]
  /\ UNCHANGED <<jmVars, paused, worker, calc, signals, faults, commands, sincePause>>

\* while active < max_concurrent: the pause file again, then the pending jobs.
Loop ==
  /\ At("loop")
  /\ sched' = IF sched.active >= MaxConcurrent \/ paused
              THEN [sched EXCEPT !.pc = "idle", !.active = 0]
              ELSE [sched EXCEPT !.pc = "scan",
                      !.todo = {j \in Jobs : jobs[j].status = "pending"}]
  /\ UNCHANGED <<jmVars, paused, worker, calc, signals, faults, commands, sincePause>>

\* pending_jobs lists by created_at.
Oldest(S) == {j \in S : \A k \in S : jobs[j].born <= jobs[k].born}

\* One job of the snapshot: its device is resolved (no inventory: the job is
\* failed), then claimed.  A record without a UUID or a command is failed.
ScanFails(j) ==
  /\ \/ jobs[j].idform = "legacy" /\ UNCHANGED faults
     \/ jobs[j].device = "gpu" /\ Fault
  /\ sched' = [sched EXCEPT !.todo = @ \ {j}]
  /\ TryUpdate(j, "failed", {"pending"}, None, None)
  /\ UNCHANGED <<worker, sincePause>>

\* Claim tokens are fresh UUIDs; TokensSuffice keeps one free in every instance.
FreshTokens == {t \in Tokens : worker[t].pc = "none"}
NextToken == CHOOSE t \in FreshTokens : TRUE

ScanClaims(j) ==
  /\ FreshTokens # {}
  /\ \E u \in LeasesFor(jobs[j].device) :
       ClaimJob(j, NextToken, sched.boot, u, MaxJobsPerGpu)
  /\ sched' = [sched EXCEPT !.pc = "spawn", !.todo = {},
                            !.job = j, !.token = NextToken]
  /\ worker' = [worker EXCEPT ![NextToken] =
                  [@ EXCEPT !.pc = "claimed", !.job = j, !.boot = sched.boot]]
  /\ sincePause' = IF paused THEN sincePause + 1 ELSE 0
  /\ UNCHANGED faults

\* The claim is refused: the job is not pending any more, or the one GPU its
\* device was resolved to is taken.
ScanSkips(j) ==
  /\ jobs[j].idform = "uuid"
  /\ \E u \in LeasesFor(jobs[j].device) : ~Claimable(j, u, MaxJobsPerGpu)
  /\ sched' = [sched EXCEPT !.todo = @ \ {j}]
  /\ UNCHANGED <<jmVars, worker, faults, sincePause>>

Scan ==
  /\ At("scan")
  /\ \E j \in Oldest(sched.todo) : ScanFails(j) \/ ScanClaims(j) \/ ScanSkips(j)
  /\ UNCHANGED <<paused, calc, signals, commands>>

ScanDone ==
  /\ At("scan")
  /\ sched.todo = {}
  /\ sched' = [sched EXCEPT !.pc = "idle", !.active = 0]
  /\ UNCHANGED <<jmVars, paused, worker, calc, signals, faults, commands, sincePause>>

\* _spawn_worker.  Popen first collects the exited children it knows of, which
\* frees their pids behind the reaper's back.
FreePids == {p \in Pids : ~PidInUse(p)}

SpawnWorker ==
  /\ At("spawn")
  /\ \E p \in FreePids, collected \in SUBSET Zombies :
       worker' = [t \in Tokens |->
         IF t = sched.token THEN [worker[t] EXCEPT !.pc = "handshake", !.pid = p]
         ELSE IF t \in collected THEN [worker[t] EXCEPT !.pc = "gone"]
         ELSE worker[t]]
  /\ Goto("promote")
  /\ UNCHANGED <<jmVars, paused, calc, signals, faults, commands, sincePause>>

SpawnFails ==
  /\ At("spawn")
  /\ IF FreePids = {} THEN UNCHANGED faults ELSE Fault
  /\ worker' = [worker EXCEPT ![sched.token].pc = "gone"]
  /\ TryUpdate(sched.job, "failed", {"claimed"}, None, sched.token)
  /\ sched' = [sched EXCEPT !.pc = "loop", !.job = None, !.token = None]
  /\ UNCHANGED <<paused, calc, signals, commands, sincePause>>

\* Mutant: the launch is not counted.
PromoteForgetsCount ==
  /\ At("promote")
  /\ MarkRunning(sched.job, sched.token, worker[sched.token].pid, sched.token)
  /\ sched' = [sched EXCEPT !.pc = "loop", !.job = None, !.token = None]
  /\ UNCHANGED <<paused, worker, calc, signals, faults, commands, sincePause>>

\* mark_running under the claim token.  A false answer (the claim is gone, or
\* the start tick cannot be read) costs the worker its life.
Promote ==
  /\ At("promote")
  /\ MarkRunning(sched.job, sched.token, worker[sched.token].pid, sched.token)
  /\ sched' = [sched EXCEPT !.pc = "loop", !.job = None, !.token = None,
                            !.active = @ + 1]
  /\ UNCHANGED <<paused, worker, calc, signals, faults, commands, sincePause>>

PromoteFails ==
  /\ At("promote")
  /\ IF CanUpdate(sched.job, "running", {"claimed"}, None, sched.token)
     THEN Fault ELSE UNCHANGED faults
  /\ SignalGroup(worker[sched.token].pid)
  /\ Goto("abandon")
  /\ UNCHANGED <<jmVars, paused, signals, commands, sincePause>>

\* Mutant: the worker is killed and the claim forgotten.
AbandonKeepsClaim ==
  /\ At("abandon")
  /\ sched' = [sched EXCEPT !.pc = "loop", !.job = None, !.token = None]
  /\ UNCHANGED <<jmVars, paused, worker, calc, signals, faults, commands, sincePause>>

\* What is left of the launch is failed, under the token.
Abandon ==
  /\ At("abandon")
  /\ TryUpdate(sched.job, "failed", {"claimed"}, None, sched.token)
  /\ sched' = [sched EXCEPT !.pc = "loop", !.job = None, !.token = None]
  /\ UNCHANGED <<paused, worker, calc, signals, faults, commands, sincePause>>

SchedStep ==
  \/ RecoverClaims
  \/ \E t \in Tokens : ReapChild(t)
  \/ ReapDone
  \/ \E j \in Jobs : Probe(j)
  \/ Gate \/ Loop \/ Scan \/ ScanDone
  \/ SpawnWorker \/ SpawnFails \/ Promote \/ PromoteFails \/ Abandon

-----------------------------------------------------------------------------
(* A worker: job_worker.main for claim token t. *)

OwnRecord(t) == jobs[worker[t].job]
WorkerGoto(t, pc) == worker' = [worker EXCEPT ![t].pc = pc]

\* Mutant: any promotion of the job will do.
HandshakeAnyClaim(t) == OwnRecord(t).status = "running"

\* The startup handshake: wait until the record names this process.
HandshakeOk(t) ==
  /\ OwnRecord(t).status = "running"
  /\ OwnRecord(t).pid = worker[t].pid
  /\ OwnRecord(t).token = t

\* The record read here fixes the GPU of the calculation
\* (leased_process_environment).
Handshake(t) ==
  /\ worker[t].pc = "handshake"
  /\ HandshakeOk(t)
  /\ worker' = [worker EXCEPT ![t].pc = "ready", ![t].gpu = OwnRecord(t).lease]
  /\ UNCHANGED <<jmVars, sched, paused, calc, signals, faults, commands, sincePause>>

\* Mutant: a worker whose claim was taken back waits on.
HandshakeTimeoutIfMine(t) ==
  /\ worker[t].pc = "handshake"
  /\ OwnRecord(t).token = t
  /\ TryUpdate(worker[t].job, "failed", ActiveStatuses, None, t)
  /\ WorkerGoto(t, "exiting")
  /\ UNCHANGED <<sched, paused, calc, signals, faults, commands, sincePause>>

\* Its deadline can pass at any time, before or after the promotion.
HandshakeTimeout(t) ==
  /\ worker[t].pc = "handshake"
  /\ TryUpdate(worker[t].job, "failed", ActiveStatuses, None, t)
  /\ WorkerGoto(t, "exiting")
  /\ UNCHANGED <<sched, paused, calc, signals, faults, commands, sincePause>>

\* leased_process_environment and the start of the calculation, or an
\* exception there.
StartCalc(t) ==
  /\ worker[t].pc = "ready"
  /\ calc' = [calc EXCEPT ![t] = "run"]
  /\ WorkerGoto(t, "calc")
  /\ UNCHANGED <<jmVars, sched, paused, signals, faults, commands, sincePause>>

StartFails(t) ==
  /\ worker[t].pc = "ready"
  /\ TryUpdate(worker[t].job, "failed", {"running"}, worker[t].pid, t)
  /\ WorkerGoto(t, "exiting")
  /\ UNCHANGED <<sched, paused, calc, signals, faults, commands, sincePause>>

\* Mutant: exit code 2 counts as success.
StatusOfIgnoresConvergence(code) ==
  CASE code \in {"success", "not_converged"} -> "done"
    [] code = "cancelled"                    -> "cancelled"
    [] code = "error"                        -> "failed"

\* outcome_from_exit_code and the status main() maps the outcome to.
StatusOf(code) ==
  CASE code = "success"       -> "done"
    [] code = "not_converged" -> "not_converged"
    [] code = "cancelled"     -> "cancelled"
    [] code = "error"         -> "failed"

Report(t) ==
  /\ worker[t].pc = "calc"
  /\ calc[t] \in ExitCodes
  /\ TryUpdate(worker[t].job, StatusOf(calc[t]), {"running"}, worker[t].pid, t)
  /\ WorkerGoto(t, "exiting")
  /\ UNCHANGED <<sched, paused, calc, signals, faults, commands, sincePause>>

WorkerExits(t) ==
  /\ worker[t].pc = "exiting"
  /\ worker' = [worker EXCEPT ![t] = Ended(t)]
  /\ UNCHANGED <<jmVars, sched, paused, calc, signals, faults, commands, sincePause>>

WorkerStep(t) ==
  \/ Handshake(t) \/ HandshakeTimeout(t)
  \/ StartCalc(t) \/ StartFails(t)
  \/ Report(t) \/ WorkerExits(t)

\* The calculation ends.  Nobody reads the exit code of an orphan.
CalcEnds(t) ==
  /\ calc[t] \in CalcLive
  /\ \E code \in IF worker[t].pc = "calc" THEN ExitCodes ELSE {"error"} :
       calc' = [calc EXCEPT ![t] = code]
  /\ UNCHANGED <<jmVars, sched, paused, worker, signals, faults, commands, sincePause>>

\* kill -9, the OOM killer or a crash of the worker: no report is written.
WorkerDies(t) ==
  /\ worker[t].pc \in Alive
  /\ Fault
  /\ worker' = [worker EXCEPT ![t] = Ended(t)]
  /\ UNCHANGED <<jmVars, sched, paused, calc, signals, commands, sincePause>>

-----------------------------------------------------------------------------
(* The users: CLI, TUI and API. *)

\* Ids are fresh UUIDs: one no record has and no process still refers to.  That
\* a legacy record is imported once more after it was cleaned or deleted, which
\* is a request to run it again, is left out.
FreshIds == {j \in Jobs \ sched.todo : /\ ~Exists(j)
                                       /\ \A t \in Tokens : worker[t].job # j}

\* Fresh ids are interchangeable, so any one of them will do.
Submit ==
  /\ FreshIds # {}
  /\ \E device \in Devices : Enqueue(CHOOSE j \in FreshIds : TRUE, device)
  /\ UNCHANGED qVars

\* kill_job: the record under the lock ...
Kill(j) ==
  /\ Command("kill")
  /\ CancelJob(j, Matches(jobs[j]))
  /\ signals' = IF jobs[j].status = "running"
                THEN signals \cup {[pid |-> jobs[j].pid, ident |-> jobs[j].ident]}
                ELSE signals
  /\ UNCHANGED <<sched, paused, worker, calc, faults, sincePause>>

\* ... and the signal after the lock is released, unless the caller dies.
SendSignal(s) ==
  /\ s \in signals
  /\ signals' = signals \ {s}
  /\ SignalGroup(s.pid)
  /\ UNCHANGED <<jmVars, sched, paused, faults, commands, sincePause>>

KillerDies(s) ==
  /\ s \in signals
  /\ Fault
  /\ signals' = signals \ {s}
  /\ UNCHANGED <<jmVars, sched, paused, worker, calc, commands, sincePause>>

PauseQueue ==
  /\ Command("pause_queue")
  /\ ~paused
  /\ paused' = TRUE
  /\ sincePause' = 0
  /\ UNCHANGED <<jmVars, sched, worker, calc, signals, faults>>

ResumeQueue ==
  /\ paused
  /\ paused' = FALSE
  /\ sincePause' = 0
  /\ UNCHANGED <<jmVars, sched, worker, calc, signals, faults, commands>>

EditRecord ==
  /\ \/ Command("pause_job") /\ \E j \in Jobs : PausePending(j)
     \/ UNCHANGED commands /\ \E j \in Jobs : ResumePaused(j)
     \/ Command("delete") /\ \E j \in Jobs : DeleteJob(j)
     \/ Command("clean") /\ Clean
     \/ Command("migrate") /\ \E j \in FreshIds : CallMigrate(j)
  /\ UNCHANGED <<sched, paused, worker, calc, signals, faults, sincePause>>

UserStep ==
  \/ Submit
  \/ \E j \in Jobs : Kill(j)
  \/ PauseQueue \/ ResumeQueue \/ EditRecord

-----------------------------------------------------------------------------
Environment ==
  \/ Boot \/ Exit
  \/ \E t \in Tokens : WorkerDies(t)
  \/ \E s \in signals : KillerDies(s)
  \/ UserStep

QueueNext ==
  \/ SchedStep
  \/ \E t \in Tokens : WorkerStep(t) \/ CalcEnds(t)
  \/ \E s \in signals : SendSignal(s)
  \/ Environment

\* Every process that runs keeps running; calculations end; a command that has
\* decided to signal signals.  Booting a scheduler is a user's choice.
Fairness ==
  /\ WF_vars(SchedStep)
  /\ \A t \in Tokens : WF_vars(WorkerStep(t)) /\ WF_vars(CalcEnds(t))
  /\ WF_vars(\E s \in signals : SendSignal(s))

QueueSpec == QueueInit /\ [][QueueNext]_vars
FairQueueSpec == QueueSpec /\ Fairness

-----------------------------------------------------------------------------
QueueTypeOK ==
  /\ TypeOK
  /\ sched \in [pc : {"down", "idle", "reap", "probe", "loop", "scan", "spawn",
                       "promote", "abandon"},
                 boot : 0..(MaxFaults + 1), active : Nat, todo : SUBSET Jobs,
                 job : Jobs \cup {None}, token : Tokens \cup {None}]
  /\ paused \in BOOLEAN
  /\ worker \in [Tokens -> [pc : WorkerPc, job : Jobs \cup {None},
                            pid : Pids \cup {None}, boot : Nat,
                            gpu : Uuids \cup {None}]]
  /\ calc \in [Tokens -> {"none"} \cup CalcLive \cup ExitCodes]
  /\ signals \subseteq [pid : Pids, ident : Tokens]
  /\ {faults, commands, sincePause} \subseteq Nat

\* Crashes, recovered claims, late workers and timeouts notwithstanding, the
\* calculation of a job is started at most once (job_worker handshake).
RunsAtMostOnce ==
  \A s, t \in Tokens : /\ worker[s].job = worker[t].job
                       /\ calc[s] # "none"
                       /\ calc[t] # "none"
                       => s = t

\* --max-concurrent: the scheduler never has more active jobs than its cap,
\* whatever earlier schedulers left running.
CapRespected ==
  Cardinality(ActiveJobs) <= MaxConcurrent

\* A calculation whose worker is alive is never written off: its record is
\* RUNNING under that worker's token, or a user cancelled it (and may then
\* have deleted it).  The reaper and the handshake both could get this wrong.
SupervisedIsRunning ==
  \A t \in Tokens : worker[t].pc = "calc" =>
    \/ HandshakeOk(t)
    \/ OwnRecord(t).status \in {"cancelled", "absent"}

\* A recorded outcome is the outcome of that job's own calculation; records
\* imported from an older release (born = 0) bring theirs along.
OutcomeIs(j, status, code) ==
  jobs[j].status = status =>
    \E t \in Tokens : worker[t].job = j /\ calc[t] = code

TruthfulOutcome ==
  \A j \in Jobs : jobs[j].born # 0 =>
    /\ OutcomeIs(j, "done", "success")
    /\ OutcomeIs(j, "not_converged", "not_converged")

\* After the queue is paused at most the launch already past its check goes
\* out (comment in run_once: "a pause request cannot cause a second pending
\* job to start after the first one in this pass").
PauseStopsDispatch == sincePause <= 1

\* The contract of module JobContract, with every job's calculation being the
\* one its workers started.
Started(j) == {t \in Tokens : worker[t].job = j /\ calc[t] # "none"}

Phase(j) ==
  CASE jobs[j].status \in {"pending", "paused"} -> "waiting"
    [] Active(j)                               -> "active"
    [] OTHER                                   -> jobs[j].status

Run(j) ==
  IF Started(j) = {} THEN "no"
  ELSE LET t == CHOOSE t \in Started(j) : TRUE
       IN IF calc[t] \in CalcLive THEN "live" ELSE calc[t]

Contract == INSTANCE JobContract WITH
              Ids <- Jobs, phase <- [j \in Jobs |-> Phase(j)],
              run <- [j \in Jobs |-> Run(j)]

\* A job is started at most once, never requeued after its start, never
\* settled with another outcome than its calculation's, never unsettled.
KeepsContract == Contract!Spec

-----------------------------------------------------------------------------
(* Liveness, under FairQueueSpec, once a scheduler stays up. *)

SchedulerStays == <>[]Up

\* A worker that died without a report does not keep its job RUNNING, nor its
\* lease and its place under the cap (_reap_stale_running).
DeadWorkersAreNoticed ==
  SchedulerStays =>
    \A j \in Jobs : (jobs[j].status = "running" /\ ~Matches(jobs[j]))
                      ~> jobs[j].status # "running"

\* No claim lasts: the scheduler that made it, or the one restarted after it,
\* promotes it, fails it or takes it back.
ClaimsAreResolved ==
  SchedulerStays =>
    \A j \in Jobs : jobs[j].status = "claimed" ~> jobs[j].status # "claimed"

\* Every queued job is eventually launched, failed or withdrawn while dispatch
\* is not paused: nothing that crashed, died or was recovered on the way keeps
\* the cap or a lease for ever.
QueueDrains ==
  SchedulerStays /\ <>[]~paused =>
    \A j \in Jobs : jobs[j].status = "pending" ~> jobs[j].status # "pending"

\* No worker process outlives its claim for ever, in particular not one whose
\* scheduler died before recording its pid (HANDSHAKE_TIMEOUT_SECONDS).
WorkersEnd == \A t \in Tokens : worker[t].pc \in Alive ~> worker[t].pc \notin Alive

-----------------------------------------------------------------------------
(* What the documentation says and the code does not do. *)

\* docs/workflows/queue.md: --max-jobs-per-gpu is "how many jobs may share one
\* physical GPU (default 1, an exclusive lease)".
CalculationsWithinLease ==
  \A u \in Uuids : Cardinality({t \in Tokens : /\ worker[t].gpu = u
                                              /\ calc[t] \in CalcLive}) <= MaxJobsPerGpu

\* Comment in kill_job: "Never signal a PID that cannot be tied to the worker
\* originally launched for this job."
KillHitsItsWorker ==
  [][\A s \in signals \ signals' :
       \A t \in Tokens \ {s.ident} : worker'[t] = worker[t] /\ calc'[t] = calc[t]]_vars
=============================================================================
