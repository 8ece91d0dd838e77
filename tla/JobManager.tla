----------------------------- MODULE JobManager -----------------------------
(***************************************************************************)
(* The job registry of mliport (jobs.py, class JobManager): one JSON       *)
(* record per job, replaced atomically while the registry-wide file lock   *)
(* is held.  Every public method is one action, because its read, its      *)
(* guards and its write all happen under that lock.                        *)
(*                                                                         *)
(* The specification is open: any process may call any method at any time  *)
(* with any arguments.  What is shown here therefore holds for every       *)
(* caller (scheduler, worker, TUI, CLI, Python API); module JobQueue       *)
(* composes the registry with the callers the program really has.          *)
(*                                                                         *)
(* Not represented: the error text, state_revision, timestamps other than  *)
(* the FIFO key, display fields, and the log file of a job.                *)
(***************************************************************************)
EXTENDS Integers, FiniteSets

CONSTANTS
  Jobs,            \* job ids (UUIDs)
  Uuids,           \* physical GPU UUIDs
  Tokens,          \* claim tokens (a fresh UUID per claim)
  Owners,          \* processes that claim jobs, as (pid, start tick) pairs
  Pids,            \* operating-system process numbers
  Workers,         \* worker processes, as (pid, start tick) pairs
  Devices,         \* the devices jobs ask for: "cpu", "gpu" (cuda, cuda:N)
  MaxJobsPerGpu,   \* the largest lease limit any caller passes
  MaxClock,        \* bound on the number of records ever created
  None             \* JSON null

ASSUME JobsFinite == IsFiniteSet(Jobs)
ASSUME LimitPositive == MaxJobsPerGpu \in Nat \ {0}
ASSUME ClockBound == MaxClock \in Nat
ASSUME DeviceNames == Devices \subseteq {"cpu", "gpu"}
ASSUME NoneIsFresh == None \notin Uuids \cup Tokens \cup Owners \cup Pids \cup Workers

VARIABLES
  jobs,            \* [Jobs -> Record]: the record file of each job
  clock            \* number of records created so far (orders created_at)

jmVars == <<jobs, clock>>

-----------------------------------------------------------------------------
Terminal == {"done", "not_converged", "failed", "cancelled"}
ActiveStatuses == {"claimed", "running"}
Statuses == {"pending", "paused"} \cup ActiveStatuses \cup Terminal

\* Mutant: an interrupted job may be queued again.
AllowedTransitionsRequeue(status) ==
  CASE status = "pending" -> {"paused", "claimed", "failed", "cancelled"}
    [] status = "paused"  -> {"pending", "cancelled"}
    [] status = "claimed" -> {"pending", "running", "failed", "cancelled"}
    [] status = "running" -> {"pending"} \cup Terminal
    [] OTHER              -> {}

\* _ALLOWED_TRANSITIONS; a terminal status has no successor.
AllowedTransitions(status) ==
  CASE status = "pending" -> {"paused", "claimed", "failed", "cancelled"}
    [] status = "paused"  -> {"pending", "cancelled"}
    [] status = "claimed" -> {"pending", "running", "failed", "cancelled"}
    [] status = "running" -> Terminal
    [] OTHER              -> {}

\* device is "cpu" or names a GPU (cuda, cuda:N, gpu); lease is device_uuid.
Record == [status : Statuses \cup {"absent"},
           device : {"cpu", "gpu"},
           lease  : Uuids \cup {None},
           token  : Tokens \cup {None},
           owner  : Owners \cup {None},
           pid    : Pids \cup {None},
           ident  : Workers \cup {None},
           idform : {"uuid", "legacy"},
           born   : Nat]

NoRecord == [status |-> "absent", device |-> "cpu", lease |-> None,
             token |-> None, owner |-> None, pid |-> None, ident |-> None,
             idform |-> "uuid", born |-> 0]

Exists(j) == jobs[j].status # "absent"
Active(j) == jobs[j].status \in ActiveStatuses
Holders(u) == {k \in Jobs : Active(k) /\ jobs[k].lease = u}

\* What a return to PENDING or PAUSED clears: the claim, the worker, the lease.
Released(r) == [r EXCEPT !.pid = None, !.ident = None, !.token = None,
                         !.owner = None, !.lease = None]

Init == /\ jobs = [j \in Jobs |-> NoRecord]
        /\ clock = 0

-----------------------------------------------------------------------------
\* enqueue: a new PENDING record; an id that already has a file is refused.
Enqueue(j, device) ==
  /\ ~Exists(j)
  /\ clock < MaxClock
  /\ clock' = clock + 1
  /\ jobs' = [jobs EXCEPT ![j] = [NoRecord EXCEPT !.status = "pending",
                                                  !.device = device,
                                                  !.born = clock + 1]]

\* migrate_legacy_state: a record of an older release keeps its status, its id
\* (which need not be a UUID) and its pid; it has no process identity, no claim
\* and no lease.  The look for an existing file and the write are not under the
\* lock: one step stands for both as long as one migration runs at a time.
MigrateLegacy(j, status, device, idform, pid) ==
  /\ ~Exists(j)
  /\ jobs' = [jobs EXCEPT ![j] = [NoRecord EXCEPT !.status = status,
                                                  !.device = device,
                                                  !.idform = idform,
                                                  !.pid = pid]]
  /\ UNCHANGED clock

-----------------------------------------------------------------------------
\* The lease half of claim_job's guard.  A GPU job that is active without a
\* recorded lease could be on any GPU: nothing is leased beside it.
\* Mutant: the job that asks is not counted.
LeaseFreeOffByOne(j, u, limit) ==
  u # None =>
    /\ \A k \in Jobs \ {j} :
          ~(Active(k) /\ jobs[k].lease = None /\ jobs[k].device # "cpu")
    /\ Cardinality(Holders(u) \ {j}) <= limit

LeaseFree(j, u, limit) ==
  u # None =>
    /\ \A k \in Jobs \ {j} :
          ~(Active(k) /\ jobs[k].lease = None /\ jobs[k].device # "cpu")
    /\ Cardinality(Holders(u) \ {j}) < limit

Claimable(j, u, limit) ==
  /\ jobs[j].status = "pending"
  /\ jobs[j].idform = "uuid"
  /\ LeaseFree(j, u, limit)

\* claim_job: CAS PENDING -> CLAIMED together with the GPU lease.
ClaimJob(j, token, owner, u, limit) ==
  /\ Claimable(j, u, limit)
  /\ jobs' = [jobs EXCEPT ![j] = [@ EXCEPT !.status = "claimed",
                                           !.token = token,
                                           !.owner = owner,
                                           !.lease = u]]
  /\ UNCHANGED clock

-----------------------------------------------------------------------------
\* update_status: the compare half.  expPid and token are None when the
\* caller does not pass them.
\* Mutant: terminal statuses and the transition table are not consulted.
CanUpdateForgetsTerminal(j, desired, expected, expPid, token) ==
  /\ Exists(j)
  /\ jobs[j].status # desired
  /\ expPid # None => jobs[j].pid = expPid
  /\ token # None => jobs[j].token = token

\* Mutant: the claim token is not compared.
CanUpdateIgnoresToken(j, desired, expected, expPid, token) ==
  /\ Exists(j)
  /\ jobs[j].status \notin Terminal \cup {desired}
  /\ jobs[j].status \in expected
  /\ desired \in AllowedTransitions(jobs[j].status)
  /\ expPid # None => jobs[j].pid = expPid

CanUpdate(j, desired, expected, expPid, token) ==
  /\ Exists(j)
  /\ jobs[j].status \notin Terminal \cup {desired}
  /\ jobs[j].status \in expected
  /\ desired \in AllowedTransitions(jobs[j].status)
  /\ expPid # None => jobs[j].pid = expPid
  /\ token # None => jobs[j].token = token

\* update_status: the swap half.  A status that is not terminal and not
\* RUNNING gives everything back.
\* Mutant: a return to the queue keeps what the claim acquired.
UpdatedKeepsLease(r, desired, pid, ident) ==
  [r EXCEPT !.status = desired]

Updated(r, desired, pid, ident) ==
  LET moved == [r EXCEPT !.status = desired,
                         !.pid = IF pid # None THEN pid ELSE @,
                         !.ident = IF pid # None THEN ident ELSE @]
  IN IF desired \in {"pending", "paused"} THEN Released(moved) ELSE moved

UpdateStatus(j, desired, expected, expPid, token, pid, ident) ==
  /\ CanUpdate(j, desired, expected, expPid, token)
  /\ jobs' = [jobs EXCEPT ![j] = Updated(@, desired, pid, ident)]
  /\ UNCHANGED clock

\* The call with its return value ignored: a failed compare changes nothing.
TryUpdate(j, desired, expected, expPid, token) ==
  IF CanUpdate(j, desired, expected, expPid, token)
  THEN UpdateStatus(j, desired, expected, expPid, token, None, None)
  ELSE UNCHANGED jmVars

PausePending(j) == UpdateStatus(j, "paused", {"pending"}, None, None, None, None)
ResumePaused(j) == UpdateStatus(j, "pending", {"paused"}, None, None, None, None)

\* recover_stale_claims: CLAIMED records whose owner is gone or whose claim is
\* too old go back to PENDING.  Which ones those are is the caller's S.
RecoverStaleClaims(S) ==
  /\ \A j \in S : jobs[j].status = "claimed"
  /\ jobs' = [j \in Jobs |-> IF j \in S
                             THEN [Released(jobs[j]) EXCEPT !.status = "pending"]
                             ELSE jobs[j]]
  /\ UNCHANGED clock

-----------------------------------------------------------------------------
\* kill_job, the part under the lock: a RUNNING job is cancelled only while
\* its recorded (pid, start tick) still names a live process.
CanCancel(j, matches) ==
  \/ jobs[j].status \in {"pending", "paused", "claimed"}
  \/ /\ jobs[j].status = "running"
     /\ jobs[j].pid # None
     /\ jobs[j].ident # None
     /\ matches

CancelJob(j, matches) ==
  /\ CanCancel(j, matches)
  /\ jobs' = [jobs EXCEPT ![j].status = "cancelled"]
  /\ UNCHANGED clock

\* delete_job: everything but an active record may be deleted.
Deletable(j) == Exists(j) /\ ~Active(j)

DeleteJob(j) ==
  /\ Deletable(j)
  /\ jobs' = [jobs EXCEPT ![j] = NoRecord]
  /\ UNCHANGED clock

\* clean: every terminal record at once.
Clean ==
  /\ \E j \in Jobs : jobs[j].status \in Terminal
  /\ jobs' = [j \in Jobs |-> IF jobs[j].status \in Terminal THEN NoRecord
                                                            ELSE jobs[j]]
  /\ UNCHANGED clock

-----------------------------------------------------------------------------
\* Any caller, any arguments.  resolve_device_uuid gives a job on "cpu" no
\* UUID and a job on a GPU some UUID of the caller's CUDA_VISIBLE_DEVICES.
LeasesFor(device) == IF device = "cpu" THEN {None} ELSE Uuids

CallClaim(j) ==
  \E token \in Tokens, owner \in Owners, u \in LeasesFor(jobs[j].device),
     limit \in 1..MaxJobsPerGpu : ClaimJob(j, token, owner, u, limit)

\* The expected_statuses any caller passes: none at all, one, or both active.
ExpectedSets == {Statuses, ActiveStatuses} \cup {{s} : s \in Statuses}

\* update_status.  No caller asks for CLAIMED, and only mark_running passes a pid.
CallUpdate(j) ==
  \E desired \in Statuses \ {"claimed"}, expected \in ExpectedSets,
     expPid \in Pids \cup {None}, token \in Tokens \cup {None} :
       UpdateStatus(j, desired, expected, expPid, token, None, None)

\* Mutant: the pid and its start tick are swapped.
MarkRunningSwapped(j, token, pid, ident) ==
  UpdateStatus(j, "running", {"claimed"}, None, token, ident, pid)

\* mark_running: only the holder of the claim token promotes, with the pid
\* and the start tick of the worker it spawned.
MarkRunning(j, token, pid, ident) ==
  UpdateStatus(j, "running", {"claimed"}, None, token, pid, ident)

CallMarkRunning(j) ==
  \E token \in Tokens, pid \in Pids, ident \in Workers :
    MarkRunning(j, token, pid, ident)

\* Only the pid of a RUNNING record is ever read again.
CallMigrate(j) ==
  \E status \in {"pending", "running"} \cup Terminal, device \in Devices,
     idform \in {"uuid", "legacy"} :
    \E pid \in IF status = "running" THEN Pids \cup {None} ELSE {None} :
      MigrateLegacy(j, status, device, idform, pid)

JobStep(j) ==
  \/ \E device \in Devices : Enqueue(j, device)
  \/ CallMigrate(j)
  \/ CallClaim(j)
  \/ CallUpdate(j)
  \/ CallMarkRunning(j)
  \/ \E matches \in BOOLEAN : CancelJob(j, matches)
  \/ DeleteJob(j)

Next ==
  \/ \E j \in Jobs : JobStep(j)
  \/ \E S \in SUBSET Jobs : RecoverStaleClaims(S)
  \/ Clean

Spec == Init /\ [][Next]_jmVars

-----------------------------------------------------------------------------
\* Type invariant of the registry.
TypeOK ==
  /\ jobs \in [Jobs -> Record]
  /\ clock \in Nat

\* The GPU lease (claim_job): however the calls of different processes
\* interleave, a physical GPU never has more active jobs recorded on it than
\* the largest limit any of them asked for.
LeaseBound == \A u \in Uuids : Cardinality(Holders(u)) <= MaxJobsPerGpu

\* A record that waits (PENDING, PAUSED) holds nothing: no GPU lease, no claim
\* token a late worker could still present, no process a reaper or a kill
\* could act on.  Requeueing (recover_stale_claims, update_status, resume)
\* is safe only because of this.
WaitingHoldsNothing ==
  \A j \in Jobs : jobs[j].status \in {"pending", "paused"}
                  => /\ jobs[j].lease = None
                     /\ jobs[j].token = None
                     /\ jobs[j].pid = None
                     /\ jobs[j].ident = None

\* A terminal outcome is final: later calls, however late or duplicated, can
\* only remove the record (docstring of update_status).  Two migrations at the
\* same time are excluded: the slower could put an old record over a settled one.
TerminalIsFinal ==
  [][\A j \in Jobs : jobs[j].status \in Terminal
                       => \/ jobs'[j] = jobs[j]
                          \/ jobs'[j] = NoRecord]_jmVars

\* A running record changes hands never: until it is terminal the worker
\* process, the claim token and the GPU lease are those of its promotion (two
\* migrations at the same time excluded, as above).
RunningIsPinned ==
  [][\A j \in Jobs :
       jobs[j].status = "running" =>
         /\ jobs'[j].status \in {"running"} \cup Terminal
         /\ [jobs'[j] EXCEPT !.status = "running"] = jobs[j]]_jmVars
=============================================================================
