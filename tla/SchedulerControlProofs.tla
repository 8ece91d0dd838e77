----------------------- MODULE SchedulerControlProofs -----------------------
(***************************************************************************)
(* Theorems about SchedulerControl, for any number of callers, any mix of  *)
(* calls and any number of crashes.  The inductive invariant says exactly  *)
(* who has the lock: whoever runs a scheduler or is between taking the     *)
(* lock and giving it away.  Two results go beyond the runs: which steps   *)
(* can hide a running scheduler, and what a reported stop has done.        *)
(***************************************************************************)
EXTENDS SchedulerControl, TLAPS

\* The processes of c have a descriptor of the locked lock file.
Owns(c) ==
  \/ Running(c)
  \/ op[c] = "start" /\ pc[c] \in Opened
  \/ op[c] = "foreground" /\ pc[c] \in {"text", "pidfile", "finally", "unlock"}
  \/ pc[c] = "free"

\* Callers that have no scheduler process: probes, and starts that have not
\* got so far or have failed.
Quiet(c) ==
  \/ op[c] \in {"stop", "status"}
  \/ op[c] = "start" /\ pc[c] \in {"begin", "spawn", "failed"}

LockInv ==
  /\ TypeOK
  /\ \A c \in Callers : Owns(c) <=> lock = c
  /\ \A c \in Callers : Quiet(c) => ~Running(c)
  /\ \A c \in Callers : pc[c] = "free" => op[c] \in {"stop", "status"}

-----------------------------------------------------------------------------
\* Initially nobody holds the lock.
LEMMA InitLock == Init => LockInv
  BY CallersFinite, FaultsNat DEF Init, LockInv, TypeOK, Stopping, Owns, Quiet, Running, Opened, Final

\* The steps of start_scheduler, among them the handoff of the lock.
LEMMA StartKeepsLock ==
  ASSUME LockInv, NEW c \in Callers, Start(c)
  PROVE  LockInv'
<1> USE CallersFinite, FaultsNat
      DEF LockInv, TypeOK, Stopping, Owns, Quiet, Running, Opened, Final, At, Goto, Fault, Closed, files
<1>1. CASE StartLock(c) BY <1>1 DEF StartLock
<1>2. CASE StartSpawn(c) BY <1>2 DEF StartSpawn
<1>3. CASE StartText(c) BY <1>3 DEF StartText
<1>4. CASE StartPidFile(c) BY <1>4 DEF StartPidFile
<1>5. CASE StartUndo(c) BY <1>5 DEF StartUndo
<1>6. CASE StartWait(c) BY <1>6 DEF StartWait
<1>7. CASE StartClose(c) BY <1>7 DEF StartClose
<1> QED BY <1>1, <1>2, <1>3, <1>4, <1>5, <1>6, <1>7 DEF Start

\* The steps of a foreground run.
LEMMA ForegroundKeepsLock ==
  ASSUME LockInv, NEW c \in Callers, Foreground(c)
  PROVE  LockInv'
<1> USE CallersFinite, FaultsNat
      DEF LockInv, TypeOK, Stopping, Owns, Quiet, Running, Opened, Final, At, Goto, Fault, Closed, files
<1>1. CASE ForegroundLock(c) BY <1>1 DEF ForegroundLock
<1>2. CASE ForegroundText(c) BY <1>2 DEF ForegroundText
<1>3. CASE ForegroundPidFile(c) BY <1>3 DEF ForegroundPidFile
<1>4. CASE ForegroundEnds(c) BY <1>4 DEF ForegroundEnds
<1>5. CASE ForegroundFinally(c) BY <1>5 DEF ForegroundFinally
<1>6. CASE ForegroundUnlock(c) BY <1>6 DEF ForegroundUnlock
<1> QED BY <1>1, <1>2, <1>3, <1>4, <1>5, <1>6 DEF Foreground

\* The steps of stop and status, which take the lock to look at it and may
\* kill a foreground scheduler that holds it.
LEMMA StopKeepsLock ==
  ASSUME LockInv, NEW c \in Callers, StopOrStatus(c)
  PROVE  LockInv'
<1> USE CallersFinite, FaultsNat
      DEF LockInv, TypeOK, Stopping, Owns, Quiet, Running, Opened, Final, At, Goto, Fault, Closed, files
<1>1. CASE ProbeLock(c) BY <1>1 DEF ProbeLock
<1>2. CASE ProbeRelease(c) BY <1>2 DEF ProbeRelease
<1>3. CASE StopUnlinks(c) BY <1>3 DEF StopUnlinks
<1>4. CASE ReadPidFile(c) BY <1>4 DEF ReadPidFile
<1>5. CASE CheckOwner(c) BY <1>5 DEF CheckOwner, HasProcess
<1>6. CASE StopDrops(c) BY <1>6 DEF StopDrops
<1>7. CASE StopKills(c) BY <1>7 DEF StopKills, HasProcess
<1> QED BY <1>1, <1>2, <1>3, <1>4, <1>5, <1>6, <1>7 DEF StopOrStatus

\* Whoever ends or is killed, the lock goes with the last descriptor.
LEMMA EndsKeepLock ==
  ASSUME LockInv, NEW c \in Callers, DaemonEnds(c) \/ DaemonCrashes(c) \/ CallerCrashes(c)
  PROVE  LockInv'
<1> USE CallersFinite, FaultsNat
      DEF LockInv, TypeOK, Stopping, Owns, Quiet, Running, Opened, Final, At, Goto, Fault, Closed, files
<1>1. CASE DaemonEnds(c) BY <1>1 DEF DaemonEnds
<1>2. CASE DaemonCrashes(c) BY <1>2 DEF DaemonCrashes
<1>3. CASE CallerCrashes(c) BY <1>3 DEF CallerCrashes
<1> QED BY <1>1, <1>2, <1>3

\* LockInv is an invariant.
THEOREM LockInvariant == Spec => []LockInv
<1>1. LockInv /\ UNCHANGED vars => LockInv'
  BY DEF vars, LockInv, TypeOK, Stopping, Owns, Quiet, Running
<1>2. LockInv /\ [Next]_vars => LockInv'
  BY <1>1, StartKeepsLock, ForegroundKeepsLock, StopKeepsLock, EndsKeepLock
  DEF Next, CallStep
<1> QED BY InitLock, <1>2, PTL DEF Spec

-----------------------------------------------------------------------------
\* TypeOK for any number of callers and crashes: no call is lost between the
\* pcs of its function.
THEOREM ControlTypeCorrect == Spec => []TypeOK
<1>1. LockInv => TypeOK
  BY DEF LockInv
<1> QED BY <1>1, LockInvariant, PTL

\* A running scheduler holds the lock, so there is at most one, whatever
\* crashes (start_scheduler, run_forever).
THEOREM SchedulerHoldsLockHolds == Spec => []SchedulerHoldsLock
<1>1. LockInv => SchedulerHoldsLock
  BY DEF LockInv, SchedulerHoldsLock, Owns
<1> QED BY <1>1, LockInvariant, PTL

\* A start that reports failure leaves no scheduler behind (the exception path
\* of start_scheduler).
THEOREM FailedStartLeavesNothingHolds == Spec => []FailedStartLeavesNothing
<1>1. LockInv => FailedStartLeavesNothing
  BY DEF LockInv, FailedStartLeavesNothing, Quiet, At
<1> QED BY <1>1, LockInvariant, PTL

\* With no scheduler and no call under way the lock is free (flock, not the
\* files' contents, decides who may start).
THEOREM StartableHolds == Spec => []Startable
<1>1. LockInv => Startable
  BY DEF LockInv, TypeOK, Stopping, Startable, Owns, Running, Opened, Final
<1> QED BY <1>1, LockInvariant, PTL
-----------------------------------------------------------------------------
(* Which steps hide a running scheduler.  RunningIsVisible does not hold of
   every behavior; these are all the steps that can break it.  *)

\* A stop whose knowledge is stale, or that dies half way: it unlinks
\* scheduler.pid although the lock it found free is taken again; it drops the
\* pid of another scheduler than the one it read; or it is killed between
\* dropping the pid file and sending the signal.
StaleStop(c) ==
  \/ StopUnlinks(c) /\ lock # None
  \/ StopDrops(c) /\ pidFile \notin {None, seen[c]}
  \/ At(c, "stop", "kill") /\ CallerCrashes(c)

\* RunningIsVisible from the step that writes scheduler.pid on.
Visible(s) ==
  (proc[s] = "up" /\ pc[s] \in {"close", "ok"}) =>
    \/ pidFile = s
    \/ \E c \in Callers : At(c, "stop", "kill") /\ seen[c] = s

\* A step that is no stale stop keeps every scheduler visible.
LEMMA StepKeepsVisible ==
  ASSUME LockInv, LockInv', \A s \in Callers : Visible(s),
         NEW c \in Callers, ~StaleStop(c),
         CallStep(c) \/ DaemonEnds(c) \/ DaemonCrashes(c) \/ CallerCrashes(c),
         NEW s \in Callers
  PROVE  Visible(s)'
<1> SUFFICES ASSUME proc'[s] = "up", pc'[s] \in {"close", "ok"}
    PROVE  \/ pidFile' = s
           \/ \E d \in Callers : (At(d, "stop", "kill"))' /\ seen'[d] = s
  BY DEF Visible
<1>1. lock = s \/ c = s
  BY DEF LockInv, TypeOK, Stopping, Owns, Running, CallStep, Start, StartLock, StartSpawn, StartText,
     StartPidFile, StartUndo, StartWait, StartClose, Foreground, ForegroundLock, ForegroundText,
     ForegroundPidFile, ForegroundEnds, ForegroundFinally, ForegroundUnlock, StopOrStatus,
     ProbeLock, ProbeRelease, StopUnlinks, ReadPidFile, CheckOwner, StopDrops, StopKills,
     DaemonEnds, DaemonCrashes, CallerCrashes, files
<1> USE CallersFinite
      DEF LockInv, TypeOK, Stopping, Owns, Quiet, Running, Opened, Final, At, Goto, Fault, Closed, files,
          Visible, StaleStop
<1>2. CASE Start(c)
  <2>1. CASE StartLock(c) BY <1>1, <2>1 DEF StartLock
  <2>2. CASE StartSpawn(c) BY <1>1, <2>2 DEF StartSpawn
  <2>3. CASE StartText(c) BY <1>1, <2>3 DEF StartText
  <2>4. CASE StartPidFile(c) BY <1>1, <2>4 DEF StartPidFile
  <2>5. CASE StartUndo(c) BY <1>1, <2>5 DEF StartUndo
  <2>6. CASE StartWait(c) BY <1>1, <2>6 DEF StartWait
  <2>7. CASE StartClose(c) BY <1>1, <2>7 DEF StartClose
  <2> QED BY <1>2, <2>1, <2>2, <2>3, <2>4, <2>5, <2>6, <2>7 DEF Start
<1>3. CASE Foreground(c)
  <2>1. CASE ForegroundLock(c) BY <1>1, <2>1 DEF ForegroundLock
  <2>2. CASE ForegroundText(c) BY <1>1, <2>2 DEF ForegroundText
  <2>3. CASE ForegroundPidFile(c) BY <1>1, <2>3 DEF ForegroundPidFile
  <2>4. CASE ForegroundEnds(c) BY <1>1, <2>4 DEF ForegroundEnds
  <2>5. CASE ForegroundFinally(c) BY <1>1, <2>5 DEF ForegroundFinally
  <2>6. CASE ForegroundUnlock(c) BY <1>1, <2>6 DEF ForegroundUnlock
  <2> QED BY <1>3, <2>1, <2>2, <2>3, <2>4, <2>5, <2>6 DEF Foreground
<1>4. CASE StopOrStatus(c)
  <2>1. CASE ProbeLock(c) BY <1>1, <2>1 DEF ProbeLock
  <2>2. CASE ProbeRelease(c) BY <1>1, <2>2 DEF ProbeRelease
  <2>3. CASE StopUnlinks(c) BY <1>1, <2>3 DEF StopUnlinks
  <2>4. CASE ReadPidFile(c) BY <1>1, <2>4 DEF ReadPidFile
  <2>5. CASE CheckOwner(c) BY <1>1, <2>5 DEF CheckOwner
  <2>6. CASE StopDrops(c) BY <1>1, <2>6 DEF StopDrops
  <2>7. CASE StopKills(c) BY <1>1, <2>7 DEF StopKills, HasProcess
  <2> QED BY <1>4, <2>1, <2>2, <2>3, <2>4, <2>5, <2>6, <2>7 DEF StopOrStatus
<1>5. CASE DaemonEnds(c) BY <1>1, <1>5 DEF DaemonEnds
<1>6. CASE DaemonCrashes(c) BY <1>1, <1>6 DEF DaemonCrashes
<1>7. CASE CallerCrashes(c) BY <1>1, <1>7 DEF CallerCrashes
<1> QED BY <1>2, <1>3, <1>4, <1>5, <1>6, <1>7 DEF CallStep

\* A scheduler that start reported as running is found by status and stop as
\* long as no stop acts on what it knew before (the boundary of what
\* RunningIsVisible promises: nothing but a stale or a killed stop hides it,
\* no failed start, no ending scheduler and no other crash).
THEOREM OnlyStaleStopsHide ==
  Spec /\ [][\A c \in Callers : ~StaleStop(c)]_vars => []RunningIsVisible
<1> DEFINE AllVisible == \A s \in Callers : Visible(s)
<1>1. Init => AllVisible
  BY DEF Init, Visible
<1>2. LockInv /\ LockInv' /\ AllVisible /\ [Next]_vars
      /\ [\A c \in Callers : ~StaleStop(c)]_vars => AllVisible'
  <2> SUFFICES ASSUME LockInv, LockInv', AllVisible, [Next]_vars,
                      [\A c \in Callers : ~StaleStop(c)]_vars, NEW s \in Callers
      PROVE  Visible(s)'
    OBVIOUS
  <2>1. CASE UNCHANGED vars
    BY <2>1 DEF vars, Visible, At
  <2>2. CASE Next /\ \A c \in Callers : ~StaleStop(c)
    BY <2>2, StepKeepsVisible DEF Next
  <2> QED BY <2>1, <2>2
<1>3. AllVisible => RunningIsVisible
  BY DEF Visible, RunningIsVisible
<1> HIDE DEF AllVisible
<1> QED BY <1>1, <1>2, <1>3, LockInvariant, PTL DEF Spec

-----------------------------------------------------------------------------
(* What a stop that reported success has done. *)

\* The scheduler a successful stop reports about was told to end or is dead,
\* and nothing starts it again.
StoppedStays ==
  \A c \in Callers : pc[c] = "stopped" =>
    /\ op[c] = "stop" /\ seen[c] \in Callers
    /\ proc[seen[c]] \in {"term", "gone"}
    /\ op[seen[c]] = "foreground" => proc[seen[c]] = "gone"

\* Where the processes of a scheduler that ends stand: a start past the spawn, a
\* foreground run that was killed or is over.  A scheduler is up only once.
OnceOnly ==
  \A c \in Callers :
    /\ At(c, "start", "begin") \/ At(c, "start", "spawn") => proc[c] = "none"
    /\ op[c] = "foreground" /\ pc[c] \in {"begin", "text", "pidfile"} => proc[c] = "none"
    /\ op[c] \in {"stop", "status"} => proc[c] \in {"none", "gone"}
    /\ op[c] = "foreground" => proc[c] # "term"
    /\ pc[c] \in {"kill", "drop", "owner"} => seen[c] \in Callers
    /\ pc[c] \in {"kill", "drop", "unlink", "stopped"} => op[c] = "stop"

\* The inductive invariant about stops.
StoppedInv == LockInv /\ OnceOnly /\ StoppedStays

\* Nothing was stopped before the first call.
LEMMA InitStopped == Init => OnceOnly /\ StoppedStays
  BY OpsKnown DEF Init, OnceOnly, StoppedStays, At

\* A start spawns its own daemon, once, and never revives one.
LEMMA StartKeepsStopped ==
  ASSUME StoppedInv, NEW c \in Callers, Start(c)
  PROVE  OnceOnly' /\ StoppedStays'
<1> USE CallersFinite
      DEF StoppedInv, OnceOnly, StoppedStays, LockInv, TypeOK, Stopping, Quiet, Owns, Running, Opened,
          Final, At, Goto, Fault, Closed, files
<1>1. CASE StartLock(c) BY <1>1 DEF StartLock
<1>2. CASE StartSpawn(c) BY <1>2 DEF StartSpawn
<1>3. CASE StartText(c) BY <1>3 DEF StartText
<1>4. CASE StartPidFile(c) BY <1>4 DEF StartPidFile
<1>5. CASE StartUndo(c) BY <1>5 DEF StartUndo
<1>6. CASE StartWait(c) BY <1>6 DEF StartWait
<1>7. CASE StartClose(c) BY <1>7 DEF StartClose
<1> QED BY <1>1, <1>2, <1>3, <1>4, <1>5, <1>6, <1>7 DEF Start

\* A foreground run enters its loop once.
LEMMA ForegroundKeepsStopped ==
  ASSUME StoppedInv, NEW c \in Callers, Foreground(c)
  PROVE  OnceOnly' /\ StoppedStays'
<1> USE CallersFinite
      DEF StoppedInv, OnceOnly, StoppedStays, LockInv, TypeOK, Stopping, Quiet, Owns, Running, Opened,
          Final, At, Goto, Fault, Closed, files
<1>1. CASE ForegroundLock(c) BY <1>1 DEF ForegroundLock
<1>2. CASE ForegroundText(c) BY <1>2 DEF ForegroundText
<1>3. CASE ForegroundPidFile(c) BY <1>3 DEF ForegroundPidFile
<1>4. CASE ForegroundEnds(c) BY <1>4 DEF ForegroundEnds
<1>5. CASE ForegroundFinally(c) BY <1>5 DEF ForegroundFinally
<1>6. CASE ForegroundUnlock(c) BY <1>6 DEF ForegroundUnlock
<1> QED BY <1>1, <1>2, <1>3, <1>4, <1>5, <1>6 DEF Foreground

\* A stop reports "stopped" in the step that sends the signal.
LEMMA StopKeepsStopped ==
  ASSUME StoppedInv, NEW c \in Callers, StopOrStatus(c)
  PROVE  OnceOnly' /\ StoppedStays'
<1> USE CallersFinite
      DEF StoppedInv, OnceOnly, StoppedStays, LockInv, TypeOK, Stopping, Quiet, Owns, Running, Opened,
          Final, At, Goto, Fault, Closed, files
<1>1. CASE ProbeLock(c) BY <1>1 DEF ProbeLock
<1>2. CASE ProbeRelease(c) BY <1>2 DEF ProbeRelease
<1>3. CASE StopUnlinks(c) BY <1>3 DEF StopUnlinks
<1>4. CASE ReadPidFile(c) BY <1>4 DEF ReadPidFile
<1>5. CASE CheckOwner(c) BY <1>5 DEF CheckOwner, HasProcess
<1>6. CASE StopDrops(c) BY <1>6 DEF StopDrops
<1>7. CASE StopKills(c) BY <1>7 DEF StopKills, HasProcess
<1> QED BY <1>1, <1>2, <1>3, <1>4, <1>5, <1>6, <1>7 DEF StopOrStatus

\* What ends does not come back.
LEMMA EndsKeepStopped ==
  ASSUME StoppedInv, NEW c \in Callers, DaemonEnds(c) \/ DaemonCrashes(c) \/ CallerCrashes(c)
  PROVE  OnceOnly' /\ StoppedStays'
<1> USE CallersFinite
      DEF StoppedInv, OnceOnly, StoppedStays, LockInv, TypeOK, Stopping, Quiet, Owns, Running, Opened,
          Final, At, Goto, Fault, Closed, files
<1>1. CASE DaemonEnds(c) BY <1>1 DEF DaemonEnds
<1>2. CASE DaemonCrashes(c) BY <1>2 DEF DaemonCrashes
<1>3. CASE CallerCrashes(c) BY <1>3 DEF CallerCrashes
<1> QED BY <1>1, <1>2, <1>3

\* A stop that reports success has told the scheduler it read to end, or found
\* it dead, and no later call, crash or second stop brings that scheduler back
\* (the half of StopIsObeyed that needs no fairness; stop_scheduler).
THEOREM StoppedIsOver == Spec => []StoppedStays
<1>1. StoppedInv /\ UNCHANGED vars => OnceOnly' /\ StoppedStays'
  BY DEF vars, StoppedInv, OnceOnly, StoppedStays, At
<1>2. StoppedInv /\ [Next]_vars => OnceOnly' /\ StoppedStays'
  BY <1>1, StartKeepsStopped, ForegroundKeepsStopped, StopKeepsStopped, EndsKeepStopped
  DEF Next, CallStep
<1>3. LockInv /\ OnceOnly /\ StoppedStays /\ [Next]_vars => OnceOnly' /\ StoppedStays'
  BY <1>2 DEF StoppedInv
<1> QED BY InitStopped, <1>3, LockInvariant, PTL DEF Spec
=============================================================================
