-------------------------- MODULE SchedulerControl --------------------------
(***************************************************************************)
(* How schedulers are started and stopped (queue.py: start_scheduler,      *)
(* QueueScheduler.run_forever, stop_scheduler, scheduler_status and the    *)
(* daemon of queue_daemon.py).  Three files coordinate the callers: the    *)
(* flock'ed lock file, the pid written into it, and scheduler.pid.         *)
(*                                                                         *)
(* Each caller makes one call.  The scheduler process a caller creates -   *)
(* the daemon of a start, or itself for a foreground run - has the         *)
(* caller's name.  The lock belongs to an open file description: that of a *)
(* start is shared with the daemon, which inherits it.                     *)
(***************************************************************************)
EXTENDS Naturals, FiniteSets

CONSTANTS
  Callers,
  Ops,         \* what callers may call: "start", "foreground", "stop", "status"
  MaxFaults,   \* bound: crashes and failed system calls
  None

ASSUME CallersFinite == IsFiniteSet(Callers) /\ None \notin Callers
ASSUME OpsKnown == Ops \subseteq {"start", "foreground", "stop", "status"}
ASSUME FaultsNat == MaxFaults \in Nat

VARIABLES
  op, pc,      \* the call of each caller and where it stands
  seen,        \* the pid a stop or status call read from scheduler.pid
  proc,        \* the scheduler process of each caller
  lock,        \* whose open file description holds the lock
  lockText,    \* the pid written into the lock file
  pidFile,     \* scheduler.pid
  faults

vars == <<op, pc, seen, proc, lock, lockText, pidFile, faults>>
files == <<lock, lockText, pidFile>>

Init ==
  /\ op \in [Callers -> Ops]
  /\ pc = [c \in Callers |-> "begin"]
  /\ seen = [c \in Callers |-> None]
  /\ proc = [c \in Callers |-> "none"]
  /\ lock = None /\ lockText = None /\ pidFile = None
  /\ faults = 0

At(c, o, p) == op[c] = o /\ pc[c] = p
Goto(c, p) == pc' = [pc EXCEPT ![c] = p] /\ UNCHANGED op
Fault == faults < MaxFaults /\ faults' = faults + 1
Running(c) == proc[c] \in {"up", "term"}

\* kill(pid, 0): a foreground scheduler exists before and after its loop too.
HasProcess(c) ==
  Running(c) \/ (op[c] = "foreground" /\ pc[c] \in {"text", "pidfile", "finally", "unlock"})

\* The caller of a start still has the lock file open.
Opened == {"spawn", "text", "pidfile", "undo", "wait", "close"}

\* The lock after the last descriptor of c's description is gone.
Closed(c) == IF lock = c THEN None ELSE lock

-----------------------------------------------------------------------------
(* start_scheduler *)

StartLock(c) ==
  /\ At(c, "start", "begin")
  /\ IF lock = None THEN lock' = c /\ Goto(c, "spawn")
                    ELSE UNCHANGED lock /\ Goto(c, "refused")
  /\ UNCHANGED <<seen, proc, lockText, pidFile, faults>>

StartSpawn(c) ==
  /\ At(c, "start", "spawn")
  /\ \/ /\ proc' = [proc EXCEPT ![c] = "up"]
        /\ Goto(c, "text")
        /\ UNCHANGED <<lock, faults>>
     \/ /\ Fault
        /\ lock' = None
        /\ Goto(c, "failed")
        /\ UNCHANGED proc
  /\ UNCHANGED <<seen, lockText, pidFile>>

StartText(c) ==
  /\ At(c, "start", "text")
  /\ \/ lockText' = c /\ Goto(c, "pidfile") /\ UNCHANGED faults
     \/ lockText' \in {None, c} /\ Fault /\ Goto(c, "undo")
  /\ UNCHANGED <<seen, proc, lock, pidFile>>

\* _atomic_write_text can also fail after it has replaced the file.
StartPidFile(c) ==
  /\ At(c, "start", "pidfile")
  /\ \/ pidFile' = c /\ Goto(c, "close") /\ UNCHANGED faults
     \/ pidFile' \in {pidFile, c} /\ Fault /\ Goto(c, "undo")
  /\ UNCHANGED <<seen, proc, lock, lockText>>

\* The exception path: SIGTERM, then wait for the daemon, or SIGKILL it.
StartUndo(c) ==
  /\ At(c, "start", "undo")
  /\ proc' = [proc EXCEPT ![c] = IF @ = "up" THEN "term" ELSE @]
  /\ Goto(c, "wait")
  /\ UNCHANGED <<seen, files, faults>>

\* Mutant: the daemon is told to end and not waited for.
StartWaitNot(c) ==
  /\ At(c, "start", "wait")
  /\ lock' = Closed(c)
  /\ Goto(c, "failed")
  /\ UNCHANGED <<seen, proc, lockText, pidFile, faults>>

StartWait(c) ==
  /\ At(c, "start", "wait")
  /\ proc' = [proc EXCEPT ![c] = "gone"]
  /\ lock' = Closed(c)
  /\ Goto(c, "failed")
  /\ UNCHANGED <<seen, lockText, pidFile, faults>>

\* Mutant: the parent unlocks what it shares with the daemon.
StartCloseUnlocks(c) ==
  /\ At(c, "start", "close")
  /\ lock' = Closed(c)
  /\ Goto(c, "ok")
  /\ UNCHANGED <<seen, proc, lockText, pidFile, faults>>

\* Closing the parent's descriptor leaves the lock with the daemon.
StartClose(c) ==
  /\ At(c, "start", "close")
  /\ lock' = IF Running(c) THEN lock ELSE Closed(c)
  /\ Goto(c, "ok")
  /\ UNCHANGED <<seen, proc, lockText, pidFile, faults>>

Start(c) ==
  \/ StartLock(c) \/ StartSpawn(c) \/ StartText(c) \/ StartPidFile(c)
  \/ StartUndo(c) \/ StartWait(c) \/ StartClose(c)

-----------------------------------------------------------------------------
(* run_forever without an inherited lock: queue start --foreground *)

ForegroundLock(c) ==
  /\ At(c, "foreground", "begin")
  /\ IF lock = None THEN lock' = c /\ Goto(c, "text")
                    ELSE UNCHANGED lock /\ Goto(c, "refused")
  /\ UNCHANGED <<seen, proc, lockText, pidFile, faults>>

ForegroundText(c) ==
  /\ At(c, "foreground", "text")
  /\ \/ lockText' = c /\ Goto(c, "pidfile") /\ UNCHANGED faults
     \/ lockText' \in {None, c} /\ Fault /\ Goto(c, "finally")
  /\ UNCHANGED <<seen, proc, lock, pidFile>>

ForegroundPidFile(c) ==
  /\ At(c, "foreground", "pidfile")
  /\ \/ /\ pidFile' = c
        /\ proc' = [proc EXCEPT ![c] = "up"]
        /\ Goto(c, "ok")
        /\ UNCHANGED faults
     \/ /\ pidFile' \in {pidFile, c}
        /\ Fault
        /\ Goto(c, "finally")
        /\ UNCHANGED proc
  /\ UNCHANGED <<seen, lock, lockText>>

\* Ctrl-C, or an exception out of the loop.
ForegroundEnds(c) ==
  /\ At(c, "foreground", "ok")
  /\ proc[c] = "up"
  /\ Goto(c, "finally")
  /\ UNCHANGED <<seen, proc, files, faults>>

ForegroundFinally(c) ==
  /\ At(c, "foreground", "finally")
  /\ pidFile' = IF lockText = c THEN None ELSE pidFile
  /\ Goto(c, "unlock")
  /\ UNCHANGED <<seen, proc, lock, lockText, faults>>

ForegroundUnlock(c) ==
  /\ At(c, "foreground", "unlock")
  /\ lock' = Closed(c)
  /\ proc' = [proc EXCEPT ![c] = "gone"]
  /\ Goto(c, "ended")
  /\ UNCHANGED <<seen, lockText, pidFile, faults>>

Foreground(c) ==
  \/ ForegroundLock(c) \/ ForegroundText(c) \/ ForegroundPidFile(c)
  \/ ForegroundEnds(c) \/ ForegroundFinally(c) \/ ForegroundUnlock(c)

-----------------------------------------------------------------------------
(* stop_scheduler and scheduler_status *)

\* _scheduler_lock_held takes the lock to see whether it is free ...
ProbeLock(c) ==
  /\ op[c] \in {"stop", "status"} /\ pc[c] = "begin"
  /\ IF lock = None THEN lock' = c /\ Goto(c, "free")
                    ELSE UNCHANGED lock /\ Goto(c, "held")
  /\ UNCHANGED <<seen, proc, lockText, pidFile, faults>>

\* Mutant: the probe keeps what it took.
ProbeReleaseNot(c) ==
  /\ pc[c] = "free"
  /\ Goto(c, IF op[c] = "stop" THEN "unlink" ELSE "not_running")
  /\ UNCHANGED <<seen, proc, files, faults>>

\* ... and gives it back before anything is done with the answer.
ProbeRelease(c) ==
  /\ pc[c] = "free"
  /\ lock' = Closed(c)
  /\ Goto(c, IF op[c] = "stop" THEN "unlink" ELSE "not_running")
  /\ UNCHANGED <<seen, proc, lockText, pidFile, faults>>

StopUnlinks(c) ==
  /\ At(c, "stop", "unlink")
  /\ pidFile' = None
  /\ Goto(c, "not_running")
  /\ UNCHANGED <<seen, proc, lock, lockText, faults>>

ReadPidFile(c) ==
  /\ pc[c] = "held"
  /\ seen' = [seen EXCEPT ![c] = pidFile]
  /\ Goto(c, IF pidFile = None THEN "not_running" ELSE "owner")
  /\ UNCHANGED <<proc, files, faults>>

\* Mutant: status goes on like stop once it has found the owner.
CheckOwnerDrops(c) ==
  /\ pc[c] = "owner"
  /\ Goto(c, IF lockText # seen[c] THEN "not_running" ELSE "drop")
  /\ UNCHANGED <<seen, proc, files, faults>>

CheckOwner(c) ==
  /\ pc[c] = "owner"
  /\ Goto(c, IF lockText # seen[c] THEN "not_running"
             ELSE IF op[c] = "stop" THEN "drop"
             ELSE IF HasProcess(seen[c]) THEN "running" ELSE "not_running")
  /\ UNCHANGED <<seen, proc, files, faults>>

StopDrops(c) ==
  /\ At(c, "stop", "drop")
  /\ pidFile' = None
  /\ Goto(c, "kill")
  /\ UNCHANGED <<seen, proc, lock, lockText, faults>>

\* Mutant: the pid file is gone, which is taken for a request to stop.
StopKillsNot(c) ==
  /\ At(c, "stop", "kill")
  /\ Goto(c, IF HasProcess(seen[c]) THEN "stopped" ELSE "not_running")
  /\ UNCHANGED <<seen, proc, files, faults>>

\* SIGTERM lets a daemon finish its pass; a foreground scheduler has no handler
\* and ends where it is.
StopKills(c) ==
  /\ At(c, "stop", "kill")
  /\ LET s == seen[c] IN
       IF ~HasProcess(s)
       THEN Goto(c, "not_running") /\ UNCHANGED <<proc, lock>>
       ELSE IF op[s] = "start"
       THEN /\ Goto(c, "stopped")
            /\ proc' = [proc EXCEPT ![s] = "term"]
            /\ UNCHANGED lock
       ELSE /\ pc' = [pc EXCEPT ![c] = "stopped", ![s] = "dead"]
            /\ proc' = [proc EXCEPT ![s] = "gone"]
            /\ lock' = Closed(s)
            /\ UNCHANGED op
  /\ UNCHANGED <<seen, lockText, pidFile, faults>>

StopOrStatus(c) ==
  \/ ProbeLock(c) \/ ProbeRelease(c) \/ StopUnlinks(c)
  \/ ReadPidFile(c) \/ CheckOwner(c) \/ StopDrops(c) \/ StopKills(c)

-----------------------------------------------------------------------------
(* Processes end *)

\* The daemon leaves its loop; scheduler.pid stays behind.
DaemonEnds(c) ==
  /\ op[c] = "start" /\ proc[c] = "term"
  /\ proc' = [proc EXCEPT ![c] = "gone"]
  /\ lock' = IF pc[c] \in Opened THEN lock ELSE Closed(c)
  /\ UNCHANGED <<op, pc, seen, lockText, pidFile, faults>>

DaemonCrashes(c) ==
  /\ op[c] = "start" /\ Running(c)
  /\ Fault
  /\ proc' = [proc EXCEPT ![c] = "gone"]
  /\ lock' = IF pc[c] \in Opened THEN lock ELSE Closed(c)
  /\ UNCHANGED <<op, pc, seen, lockText, pidFile>>

\* The calling process is killed: the kernel closes what it had open.
Final == {"refused", "failed", "ended", "not_running", "running", "stopped", "dead"}

CallerCrashes(c) ==
  /\ pc[c] \notin Final \cup {"begin"}
  /\ ~At(c, "start", "ok")
  /\ Fault
  /\ Goto(c, "dead")
  /\ IF op[c] = "start"
     THEN lock' = (IF Running(c) THEN lock ELSE Closed(c)) /\ UNCHANGED proc
     ELSE /\ lock' = Closed(c)
          /\ proc' = [proc EXCEPT ![c] = "gone"]
  /\ UNCHANGED <<seen, lockText, pidFile>>

-----------------------------------------------------------------------------
CallStep(c) == Start(c) \/ Foreground(c) \/ StopOrStatus(c)

Next == \E c \in Callers :
  CallStep(c) \/ DaemonEnds(c) \/ DaemonCrashes(c) \/ CallerCrashes(c)

\* A call that has begun proceeds; a daemon told to end finishes its pass.
Fairness == \A c \in Callers : /\ WF_vars(CallStep(c) /\ pc[c] # "begin")
                               /\ WF_vars(DaemonEnds(c))

Spec == Init /\ [][Next]_vars /\ Fairness

-----------------------------------------------------------------------------
\* Only a stop gets to where scheduler.pid is removed and a process signalled;
\* status looks and no more.
Stopping == {"unlink", "drop", "kill", "stopped"}

TypeOK ==
  /\ op \in [Callers -> Ops]
  /\ pc \in [Callers -> Opened \cup Final \cup Stopping \cup
       {"begin", "ok", "finally", "unlock", "free", "held", "owner"}]
  /\ \A c \in Callers : pc[c] \in Stopping => op[c] = "stop"
  /\ seen \in [Callers -> Callers \cup {None}]
  /\ proc \in [Callers -> {"none", "up", "term", "gone"}]
  /\ {lock, lockText, pidFile} \subseteq Callers \cup {None}
  /\ faults \in 0..MaxFaults

\* The singleton (test "already running"): a running scheduler holds the lock
\* from its first pass to its last, through the handoff from the starting
\* process and whoever crashes; so there is never more than one.
SchedulerHoldsLock == \A c \in Callers : Running(c) => lock = c

\* A start that reports failure leaves no scheduler behind.
FailedStartLeavesNothing == \A c \in Callers : At(c, "start", "failed") => ~Running(c)

\* Once no scheduler runs and no call is under way, a scheduler can be started:
\* no crash leaves the lock taken, whatever the files still say.
Startable ==
  (\A c \in Callers : ~Running(c) /\ pc[c] \in Final \cup {"begin", "ok"}) => lock = None

\* A stop that reports success ends the scheduler it reports about.
StopIsObeyed ==
  \A c, s \in Callers : (pc[c] = "stopped" /\ seen[c] = s) ~> proc[s] = "gone"

-----------------------------------------------------------------------------
(* What the documentation says and the code does not do. *)

\* scheduler_status: "Whether a background scheduler is alive, paused, and its
\* PID."  It and stop_scheduler find a started scheduler only by scheduler.pid.
RunningIsVisible ==
  \A s \in Callers : (proc[s] = "up" /\ pc[s] = "ok") =>
    \/ pidFile = s
    \/ \E c \in Callers : At(c, "stop", "kill") /\ seen[c] = s
=============================================================================
