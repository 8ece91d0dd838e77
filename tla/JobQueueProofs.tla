--------------------------- MODULE JobQueueProofs ---------------------------
(***************************************************************************)
(* Theorems about the composed queue (module JobQueue), for any number of  *)
(* jobs, GPUs, pids, crashes and commands: its steps are calls of the      *)
(* registry with legal arguments, so what JobManagerProofs shows for every *)
(* caller holds of the scheduler, the workers and the users together.      *)
(*                                                                         *)
(* The last two sections say how far what the documentation promises of    *)
(* signals and of leases is true: a signal sent in time hits its worker    *)
(* only, and supervised calculations stay within the leases.               *)
(***************************************************************************)
EXTENDS JobQueue, JobManagerProofs

\* What the steps rely on beside the types: a launch under way names a job, a
\* token and a spawned worker, and a living worker has a job and a pid.
Launching == {"spawn", "promote", "abandon"}

QueueInv ==
  /\ QueueTypeOK
  /\ Up => sched.boot \in Owners
  /\ sched.pc \in Launching => sched.job \in Jobs /\ sched.token \in Tokens
  /\ sched.pc \in {"promote", "abandon"} => worker[sched.token].pid \in Pids
  /\ sched.pc = "spawn" => worker[sched.token].job \in Jobs
  /\ \A t \in Tokens :
       worker[t].pc \in Alive => worker[t].job \in Jobs /\ worker[t].pid \in Pids

-----------------------------------------------------------------------------
\* update_status with its answer ignored is a registry call or nothing.
LEMMA TryUpdateIsCall ==
  ASSUME NEW j \in Jobs, NEW desired \in Statuses \ {"claimed"},
         NEW expected \in ExpectedSets, NEW expPid \in Pids \cup {None},
         NEW token \in Tokens \cup {None},
         TryUpdate(j, desired, expected, expPid, token)
  PROVE  [Next]_jmVars
<1>1. CASE CanUpdate(j, desired, expected, expPid, token)
  <2>1. UpdateStatus(j, desired, expected, expPid, token, None, None)
    BY <1>1 DEF TryUpdate
  <2> QED BY <2>1 DEF CallUpdate, JobStep, Next
<1>2. CASE ~CanUpdate(j, desired, expected, expPid, token)
  BY <1>2 DEF TryUpdate
<1> QED BY <1>1, <1>2

\* The arguments the callers pass to update_status.
LEMMA CallArguments ==
  /\ {"failed", "done", "not_converged", "cancelled", "pending", "paused"}
       \subseteq Statuses \ {"claimed"}
  /\ {{"running"}, {"claimed"}, {"pending"}, {"paused"}, ActiveStatuses}
       \subseteq ExpectedSets
BY DEF Statuses, Terminal, ActiveStatuses, ExpectedSets

\* The scheduler's steps are registry calls.
LEMMA SchedulerCalls == ASSUME QueueInv, SchedStep PROVE [Next]_jmVars
<1> USE DEF QueueInv, QueueTypeOK, At, Up, Launching
<1>1. CASE RecoverClaims
  BY <1>1 DEF RecoverClaims, Next
<1>2. ASSUME NEW t \in Tokens, ReapChild(t) PROVE [Next]_jmVars
  <2>1. CASE UNCHANGED jmVars BY <2>1
  <2>2. ASSUME NEW j \in WithPid(worker[t].pid),
               TryUpdate(j, "failed", {"running"}, worker[t].pid, None)
        PROVE  [Next]_jmVars
    <3>1. j \in Jobs /\ worker[t].pid \in Pids \cup {None}
      BY DEF WithPid
    <3> QED BY <2>2, <3>1, CallArguments, TryUpdateIsCall
  <2> QED BY <1>2, <2>1, <2>2 DEF ReapChild
<1>3. ASSUME NEW j \in Jobs, Probe(j) PROVE [Next]_jmVars
  <2>1. jobs[j].pid \in Pids \cup {None}
    BY DEF TypeOK, Record
  <2> QED BY <1>3, <2>1, CallArguments, TryUpdateIsCall DEF Probe
<1>4. CASE Scan
  <2>1. PICK j \in sched.todo : ScanFails(j) \/ ScanClaims(j) \/ ScanSkips(j)
    BY <1>4 DEF Scan, Oldest
  <2>2. j \in Jobs
    OBVIOUS
  <2>3. CASE ScanFails(j)
    BY <2>2, <2>3, CallArguments, TryUpdateIsCall DEF ScanFails
  <2>4. CASE ScanClaims(j)
    <3>1. NextToken \in Tokens
      BY <2>4 DEF ScanClaims, NextToken, FreshTokens
    <3>2. sched.boot \in Owners
      BY <1>4 DEF Scan
    <3>3. MaxJobsPerGpu \in 1..MaxJobsPerGpu
      BY LimitPositive
    <3> QED BY <2>2, <2>4, <3>1, <3>2, <3>3 DEF ScanClaims, CallClaim, JobStep, Next
  <2>5. CASE ScanSkips(j)
    BY <2>5 DEF ScanSkips
  <2> QED BY <2>1, <2>3, <2>4, <2>5
<1>5. CASE SpawnFails
  BY <1>5, CallArguments, TryUpdateIsCall DEF SpawnFails
<1>6. CASE Promote
  <2>1. worker[sched.token].pid \in Pids /\ sched.token \in Workers
    BY <1>6, WorkersAreTokens DEF Promote
  <2> QED BY <1>6, <2>1 DEF Promote, CallMarkRunning, JobStep, Next
<1>7. CASE Abandon
  BY <1>7, CallArguments, TryUpdateIsCall DEF Abandon
<1>8. CASE ReapDone \/ Gate \/ Loop \/ ScanDone \/ SpawnWorker \/ PromoteFails
  BY <1>8 DEF ReapDone, Gate, Loop, ScanDone, SpawnWorker, PromoteFails
<1> QED BY <1>1, <1>2, <1>3, <1>4, <1>5, <1>6, <1>7, <1>8 DEF SchedStep

\* So are the steps of workers and calculations.
LEMMA WorkerCalls ==
  ASSUME QueueInv, NEW t \in Tokens, WorkerStep(t) \/ CalcEnds(t)
  PROVE  [Next]_jmVars
<1> USE DEF QueueInv, QueueTypeOK, Alive
<1>1. CASE HandshakeTimeout(t)
  BY <1>1, CallArguments, TryUpdateIsCall DEF HandshakeTimeout
<1>2. CASE StartFails(t)
  BY <1>2, CallArguments, TryUpdateIsCall DEF StartFails
<1>3. CASE Report(t)
  <2>1. StatusOf(calc[t]) \in {"done", "not_converged", "cancelled", "failed"}
    BY <1>3 DEF Report, StatusOf, ExitCodes
  <2> QED BY <1>3, <2>1, CallArguments, TryUpdateIsCall DEF Report
<1>4. CASE Handshake(t) \/ StartCalc(t) \/ WorkerExits(t) \/ CalcEnds(t)
  BY <1>4 DEF Handshake, StartCalc, WorkerExits, CalcEnds
<1> QED BY <1>1, <1>2, <1>3, <1>4 DEF WorkerStep

\* And so are the users' commands, crashes and signals.
LEMMA UserCalls ==
  ASSUME QueueInv, Environment \/ \E s \in signals : SendSignal(s)
  PROVE  [Next]_jmVars
<1>1. CASE Submit
  <2> DEFINE j == CHOOSE j \in FreshIds : TRUE
  <2>1. j \in Jobs
    BY <1>1 DEF Submit, FreshIds
  <2>2. PICK device \in Devices : Enqueue(j, device)
    BY <1>1 DEF Submit
  <2> QED BY <2>1, <2>2 DEF JobStep, Next
<1>2. ASSUME NEW j \in Jobs, Kill(j) PROVE [Next]_jmVars
  <2>1. CancelJob(j, Matches(jobs[j])) /\ Matches(jobs[j]) \in BOOLEAN
    BY <1>2 DEF Kill, Matches
  <2> QED BY <2>1 DEF JobStep, Next
<1>3. CASE EditRecord
  <2>1. ASSUME NEW j \in Jobs, PausePending(j) PROVE [Next]_jmVars
    BY <2>1, CallArguments DEF PausePending, CallUpdate, JobStep, Next
  <2>2. ASSUME NEW j \in Jobs, ResumePaused(j) PROVE [Next]_jmVars
    BY <2>2, CallArguments DEF ResumePaused, CallUpdate, JobStep, Next
  <2>3. ASSUME NEW j \in Jobs, DeleteJob(j) \/ CallMigrate(j) PROVE [Next]_jmVars
    BY <2>3 DEF JobStep, Next
  <2>4. CASE Clean
    BY <2>4 DEF Next
  <2> QED BY <1>3, <2>1, <2>2, <2>3, <2>4 DEF EditRecord, FreshIds
<1>4. CASE PauseQueue \/ ResumeQueue \/ Boot \/ Exit
  BY <1>4 DEF PauseQueue, ResumeQueue, Boot, Exit
<1>5. ASSUME NEW t \in Tokens, WorkerDies(t) PROVE [Next]_jmVars
  BY <1>5 DEF WorkerDies
<1>6. ASSUME NEW s \in signals, KillerDies(s) \/ SendSignal(s) PROVE [Next]_jmVars
  BY <1>6 DEF KillerDies, SendSignal
<1> QED BY <1>1, <1>2, <1>3, <1>4, <1>5, <1>6 DEF Environment, UserStep

\* Every step of the queue is a registry call, or leaves the records alone.
LEMMA StepIsCall == QueueInv /\ [QueueNext]_vars => [Next]_jmVars
<1>1. CASE UNCHANGED vars
  BY <1>1 DEF vars
<1> QED BY <1>1, SchedulerCalls, WorkerCalls, UserCalls DEF QueueNext

-----------------------------------------------------------------------------
SchedRec == [pc : {"down", "idle", "reap", "probe", "loop", "scan", "spawn",
                   "promote", "abandon"},
             boot : 0..(MaxFaults + 1), active : Nat, todo : SUBSET Jobs,
             job : Jobs \cup {None}, token : Tokens \cup {None}]

WorkerRec == [pc : WorkerPc, job : Jobs \cup {None}, pid : Pids \cup {None},
              boot : Nat, gpu : Uuids \cup {None}]

\* The entry of a claimed worker has the type of an entry.
LEMMA ClaimedEntry ==
  ASSUME NEW w \in WorkerRec, NEW j \in Jobs, NEW b \in Nat
  PROVE  [w EXCEPT !.pc = "claimed", !.job = j, !.boot = b] \in WorkerRec
BY DEF WorkerRec, WorkerPc

\* The entry of a worker after its handshake has the type of an entry.
LEMMA ReadyEntry ==
  ASSUME NEW w \in WorkerRec, NEW u \in Uuids \cup {None}
  PROVE  [w EXCEPT !.pc = "ready", !.gpu = u] \in WorkerRec
BY DEF WorkerRec, WorkerPc, Alive

\* The queue starts in the invariant.
LEMMA InitQueueInv == QueueInit => QueueInv
<1> SUFFICES ASSUME QueueInit PROVE QueueInv
  OBVIOUS
<1>1. TypeOK
  BY NoRecordIsRecord DEF QueueInit, Init, TypeOK
<1>2. sched \in SchedRec
  BY BudgetsNat DEF QueueInit, Down, SchedRec
<1>3. worker \in [Tokens -> WorkerRec]
  BY DEF QueueInit, NoWorker, WorkerRec, WorkerPc
<1> QED
  BY <1>1, <1>2, <1>3 DEF QueueInit, QueueInv, QueueTypeOK, SchedRec, WorkerRec,
     Down, NoWorker, Up, Alive, Launching

\* A signal ends workers of the group and nothing else about them.
LEMMA SignalKeepsWorkers ==
  ASSUME QueueInv, NEW p, SignalGroup(p)
  PROVE  /\ worker' \in [Tokens -> WorkerRec]
         /\ \A t \in Tokens : /\ worker'[t].pid = worker[t].pid
                              /\ worker'[t].job = worker[t].job
                              /\ worker'[t].pc \in Alive => worker'[t] = worker[t]
         /\ calc' \in [Tokens -> {"none"} \cup CalcLive \cup ExitCodes]
<1>1. worker \in [Tokens -> WorkerRec]
  BY DEF QueueInv, QueueTypeOK, WorkerRec
<1>2. ASSUME NEW t \in Tokens
      PROVE  /\ Ended(t) \in WorkerRec
             /\ Ended(t).pid = worker[t].pid
             /\ Ended(t).job = worker[t].job
             /\ Ended(t).pc \notin Alive
  BY <1>1 DEF Ended, WorkerRec, WorkerPc, Alive
<1> QED BY <1>1, <1>2 DEF SignalGroup, QueueInv, QueueTypeOK, CalcLive

\* The steps of the scheduler keep it.
LEMMA SchedulerKeepsInv ==
  ASSUME QueueInv, TypeOK', SchedStep PROVE QueueInv'
<1> USE DEF QueueInv, QueueTypeOK, At, Goto, Up, Launching, Alive, WorkerPc, Fault,
            CalcLive, ExitCodes
<1>1. CASE RecoverClaims BY <1>1 DEF RecoverClaims
<1>2. ASSUME NEW t \in Tokens, ReapChild(t) PROVE QueueInv'
  BY <1>2 DEF ReapChild
<1>3. CASE ReapDone BY <1>3 DEF ReapDone
<1>4. ASSUME NEW j \in Jobs, Probe(j) PROVE QueueInv'
  BY <1>4 DEF Probe
<1>5. CASE Gate
  BY <1>5, JobsFinite, FS_Subset, FS_CardinalityType DEF Gate, ActiveJobs
<1>6. CASE Loop BY <1>6 DEF Loop
<1>7. CASE Scan
  <2>1. PICK j \in sched.todo : ScanFails(j) \/ ScanClaims(j) \/ ScanSkips(j)
    BY <1>7 DEF Scan, Oldest
  <2>2. CASE ScanFails(j) BY <1>7, <2>2 DEF Scan, ScanFails
  <2>3. CASE ScanClaims(j)
    <3>1. NextToken \in Tokens
      BY <2>3 DEF ScanClaims, NextToken, FreshTokens
    <3>2. sched' \in SchedRec /\ sched'.boot = sched.boot
          /\ sched'.pc = "spawn" /\ sched'.job = j /\ sched'.token = NextToken
      BY <2>3, <3>1 DEF ScanClaims, SchedRec
    <3>3. worker' \in [Tokens -> WorkerRec]
      <4>1. worker \in [Tokens -> WorkerRec] /\ j \in Jobs
        BY DEF WorkerRec
      <4>2. sched.boot \in Nat
        BY BudgetsNat
      <4>3. [worker[NextToken] EXCEPT !.pc = "claimed", !.job = j, !.boot = sched.boot]
              \in WorkerRec
        <5>1. worker[NextToken] \in WorkerRec
          BY <3>1, <4>1
        <5> QED BY ONLY <4>1, <4>2, <5>1, ClaimedEntry
      <4> QED BY <2>3, <4>1, <4>3 DEF ScanClaims
    <3>4. \A t \in Tokens : worker'[t].pc \in Alive => worker'[t] = worker[t]
      BY <2>3, <3>1 DEF ScanClaims
    <3>5. sincePause' \in Nat
      BY <2>3 DEF ScanClaims
    <3> QED BY <1>7, <2>3, <3>1, <3>2, <3>3, <3>4, <3>5
            DEF Scan, ScanClaims, SchedRec, WorkerRec
  <2>4. CASE ScanSkips(j) BY <1>7, <2>4 DEF Scan, ScanSkips
  <2> QED BY <2>1, <2>2, <2>3, <2>4
<1>8. CASE ScanDone BY <1>8 DEF ScanDone
<1>9. CASE SpawnWorker
  <2>1. sched' \in SchedRec /\ sched' = [sched EXCEPT !.pc = "promote"]
    BY <1>9 DEF SpawnWorker, SchedRec
  <2>2. PICK p \in Pids, collected \in SUBSET Tokens :
         worker' = [t \in Tokens |->
           IF t = sched.token THEN [worker[t] EXCEPT !.pc = "handshake", !.pid = p]
           ELSE IF t \in collected THEN [worker[t] EXCEPT !.pc = "gone"]
           ELSE worker[t]]
    <3>1. FreePids \subseteq Pids /\ Zombies \subseteq Tokens
      BY ONLY DEF FreePids, Zombies
    <3>2. PICK p \in FreePids, collected \in SUBSET Zombies :
             worker' = [t \in Tokens |->
               IF t = sched.token THEN [worker[t] EXCEPT !.pc = "handshake", !.pid = p]
               ELSE IF t \in collected THEN [worker[t] EXCEPT !.pc = "gone"]
               ELSE worker[t]]
      BY ONLY <1>9 DEF SpawnWorker
    <3>3. p \in Pids /\ collected \in SUBSET Tokens
      BY ONLY <3>1, <3>2
    <3> QED BY ONLY <3>2, <3>3
  <2>3. worker \in [Tokens -> WorkerRec] /\ {"handshake", "gone"} \subseteq WorkerPc
    BY DEF WorkerRec
  <2>4. sched.token \in Tokens /\ worker[sched.token].job \in Jobs
    BY <1>9 DEF SpawnWorker
  <2>5. ASSUME NEW t \in Tokens
        PROVE  /\ worker'[t] \in WorkerRec
               /\ t = sched.token => worker'[t].pid = p
               /\ worker'[t].pc \in Alive => worker'[t].job \in Jobs /\ worker'[t].pid \in Pids
    <3>1. worker[t] \in WorkerRec
      BY <2>3
    <3>2. CASE t = sched.token
      <4>1. worker'[t] = [worker[t] EXCEPT !.pc = "handshake", !.pid = p]
        BY <2>2, <3>2
      <4>2. worker'[t].pid = p /\ worker'[t].job = worker[t].job
        BY <3>1, <4>1 DEF WorkerRec
      <4> QED BY <2>4, <3>1, <3>2, <4>1, <4>2 DEF WorkerRec
    <3>3. CASE t # sched.token /\ t \in collected
      <4>1. worker'[t] = [worker[t] EXCEPT !.pc = "gone"]
        BY <2>2, <3>3
      <4> QED BY <3>1, <3>3, <4>1 DEF WorkerRec
    <3>4. CASE t # sched.token /\ t \notin collected
      <4>1. worker'[t] = worker[t]
        BY <2>2, <3>4
      <4> QED BY <3>1, <3>4, <4>1
    <3> QED BY <3>2, <3>3, <3>4
  <2>6. worker' \in [Tokens -> WorkerRec]
    BY <2>2, <2>5
  <2>7. UNCHANGED <<jmVars, paused, calc, signals, faults, commands, sincePause>>
    BY ONLY <1>9 DEF SpawnWorker
  <2>8. /\ sched'.pc = "promote" /\ sched'.boot = sched.boot
        /\ sched'.job = sched.job /\ sched'.token = sched.token
        /\ sched.pc = "spawn"
    BY <1>9, <2>1 DEF SpawnWorker, SchedRec
  <2>9. worker'[sched.token].pid \in Pids
    BY <2>4, <2>5
  <2>10. \A t \in Tokens :
           worker'[t].pc \in Alive => worker'[t].job \in Jobs /\ worker'[t].pid \in Pids
    BY <2>5
  <2> QED BY <2>1, <2>6, <2>7, <2>8, <2>9, <2>10 DEF SchedRec, WorkerRec
<1>10. CASE SpawnFails
  <2>1. sched' \in SchedRec
    BY <1>10 DEF SpawnFails, SchedRec
  <2>2. worker' \in [Tokens -> WorkerRec]
    BY <1>10 DEF SpawnFails, WorkerRec
  <2>3. \A t \in Tokens : worker'[t].pc \in Alive => worker'[t] = worker[t]
    BY <1>10 DEF SpawnFails
  <2>4. faults' \in Nat
    BY <1>10 DEF SpawnFails
  <2> QED BY <1>10, <2>1, <2>2, <2>3, <2>4 DEF SpawnFails, SchedRec, WorkerRec
<1>11. CASE Promote
  <2>1. sched \in SchedRec /\ sched.active + 1 \in Nat
    BY DEF SchedRec
  <2>2. sched' = [sched EXCEPT !.pc = "loop", !.job = None, !.token = None,
                               !.active = sched.active + 1]
    BY <1>11 DEF Promote
  <2>3. sched' \in SchedRec
    BY ONLY <2>1, <2>2 DEF SchedRec
  <2>4. sched'.pc = "loop" /\ sched'.boot = sched.boot
    BY ONLY <2>1, <2>2 DEF SchedRec
  <2> QED BY <1>11, <2>3, <2>4 DEF Promote, SchedRec
<1>12. CASE PromoteFails
  <2>1. sched' \in SchedRec /\ sched' = [sched EXCEPT !.pc = "abandon"]
    BY <1>12 DEF PromoteFails, SchedRec
  <2>2. SignalGroup(worker[sched.token].pid)
    BY <1>12 DEF PromoteFails
  <2>3. faults' \in Nat
    BY <1>12 DEF PromoteFails
  <2> QED BY <1>12, <2>1, <2>2, <2>3, SignalKeepsWorkers DEF PromoteFails, SchedRec, WorkerRec
<1>13. CASE Abandon BY <1>13 DEF Abandon
<1> QED BY <1>1, <1>2, <1>3, <1>4, <1>5, <1>6, <1>7, <1>8, <1>9, <1>10, <1>11,
           <1>12, <1>13 DEF SchedStep

\* So do the steps of workers and calculations.
LEMMA WorkerKeepsInv ==
  ASSUME QueueInv, TypeOK', NEW t \in Tokens, WorkerStep(t) \/ CalcEnds(t)
  PROVE  QueueInv'
<1> USE DEF QueueInv, QueueTypeOK, WorkerGoto, Up, Launching, Alive, WorkerPc, CalcLive, ExitCodes
<1>1. CASE Handshake(t)
  <2>1. worker[t].job \in Jobs
    BY <1>1 DEF Handshake
  <2>2. OwnRecord(t).lease \in Uuids \cup {None}
    BY <2>1 DEF OwnRecord, TypeOK, Record
  <2>3. worker' \in [Tokens -> WorkerRec]
    <3>1. worker \in [Tokens -> WorkerRec]
      BY DEF WorkerRec
    <3>2. [worker[t] EXCEPT !.pc = "ready", !.gpu = OwnRecord(t).lease] \in WorkerRec
      <4>1. worker[t] \in WorkerRec
        BY <3>1
      <4> QED BY ONLY <2>2, <4>1, ReadyEntry
    <3>3. worker' = [worker EXCEPT ![t] =
                       [worker[t] EXCEPT !.pc = "ready", !.gpu = OwnRecord(t).lease]]
      BY <1>1 DEF Handshake
    <3> QED BY <3>1, <3>2, <3>3
  <2>4. \A s \in Tokens : /\ worker'[s].job = worker[s].job
                          /\ worker'[s].pid = worker[s].pid
                          /\ worker'[s].pc \in Alive => worker[s].pc \in Alive
    BY <1>1 DEF Handshake
  <2> QED BY <1>1, <2>3, <2>4 DEF Handshake, WorkerRec
<1>2. CASE HandshakeTimeout(t) BY <1>2 DEF HandshakeTimeout
<1>3. CASE StartCalc(t) BY <1>3 DEF StartCalc
<1>4. CASE StartFails(t) BY <1>4 DEF StartFails
<1>5. CASE Report(t) BY <1>5 DEF Report
<1>6. CASE WorkerExits(t) BY <1>6 DEF WorkerExits, Ended
<1>7. CASE CalcEnds(t) BY <1>7 DEF CalcEnds
<1> QED BY <1>1, <1>2, <1>3, <1>4, <1>5, <1>6, <1>7 DEF WorkerStep

\* And the users' commands, crashes and signals.
LEMMA UserKeepsInv ==
  ASSUME QueueInv, TypeOK', Environment \/ \E s \in signals : SendSignal(s)
  PROVE  QueueInv'
<1> USE DEF QueueInv, QueueTypeOK, Fault, Command, Up, Launching, Alive, WorkerPc,
            CalcLive, ExitCodes
<1>1. CASE Submit BY <1>1 DEF Submit, qVars
<1>2. ASSUME NEW j \in Jobs, Kill(j) PROVE QueueInv'
  BY <1>2, WorkersAreTokens DEF Kill, CancelJob, CanCancel, TypeOK, Record
<1>3. CASE PauseQueue BY <1>3 DEF PauseQueue
<1>4. CASE ResumeQueue
  <2>1. paused' \in BOOLEAN /\ sincePause' \in Nat
    BY <1>4 DEF ResumeQueue
  <2>2. UNCHANGED <<sched, worker, calc, signals, faults, commands>>
    BY <1>4 DEF ResumeQueue
  <2> QED BY <2>1, <2>2
<1>5. CASE EditRecord BY <1>5 DEF EditRecord
<1>6. CASE Boot
  <2>1. sched' \in SchedRec /\ sched'.boot \in Owners /\ sched'.pc = "idle"
    <3>1. sched' = [pc |-> "idle", boot |-> sched.boot + 1, active |-> 0, todo |-> {},
                    job |-> None, token |-> None]
      BY <1>6 DEF Boot, Down
    <3>2. sched.boot \in 0..(MaxFaults + 1) /\ sched.boot < MaxFaults + 1
      BY <1>6 DEF Boot
    <3>3. sched.boot + 1 \in 0..(MaxFaults + 1) /\ sched.boot + 1 \in Owners
      BY <3>2, BudgetsNat, OwnersAreBoots
    <3> QED BY <3>1, <3>3 DEF SchedRec
  <2> QED BY <1>6, <2>1 DEF Boot, SchedRec
<1>7. CASE Exit
  <2>1. sched' \in SchedRec /\ sched'.pc = "down"
    BY <1>7 DEF Exit, Down, SchedRec
  <2>2. worker \in [Tokens -> WorkerRec] /\ "gone" \in WorkerPc
    BY DEF WorkerRec
  <2>3. ASSUME NEW t \in Tokens
        PROVE  /\ worker'[t] \in WorkerRec
               /\ worker'[t].pc \in Alive => worker'[t] = worker[t]
    <3>1. worker[t] \in WorkerRec
      BY <2>2
    <3>2. worker'[t] = IF worker[t].pc = "zombie"
                       THEN [worker[t] EXCEPT !.pc = "gone"] ELSE worker[t]
      BY <1>7 DEF Exit
    <3>3. [worker[t] EXCEPT !.pc = "gone"] \in WorkerRec
          /\ [worker[t] EXCEPT !.pc = "gone"].pc = "gone"
      BY <2>2, <3>1 DEF WorkerRec
    <3> QED BY <3>1, <3>2, <3>3
  <2>4. worker' \in [Tokens -> WorkerRec]
    BY <1>7, <2>3 DEF Exit
  <2>5. UNCHANGED <<jmVars, paused, calc, signals, commands, sincePause>> /\ faults' \in Nat
    BY <1>7 DEF Exit
  <2> QED BY <2>1, <2>3, <2>4, <2>5 DEF SchedRec, WorkerRec
<1>8. ASSUME NEW t \in Tokens, WorkerDies(t) PROVE QueueInv'
  BY <1>8 DEF WorkerDies, Ended
<1>9. ASSUME NEW s \in signals, KillerDies(s) PROVE QueueInv'
  BY <1>9 DEF KillerDies
<1>10. ASSUME NEW s \in signals, SendSignal(s) PROVE QueueInv'
  <2>1. SignalGroup(s.pid)
    BY <1>10 DEF SendSignal
  <2>2. /\ worker' \in [Tokens -> WorkerRec]
        /\ \A t \in Tokens : /\ worker'[t].pid = worker[t].pid
                             /\ worker'[t].pc \in Alive => worker'[t] = worker[t]
                             /\ worker'[t].job = worker[t].job
        /\ calc' \in [Tokens -> {"none"} \cup CalcLive \cup ExitCodes]
    BY <2>1, SignalKeepsWorkers
  <2>3. signals' \subseteq signals /\ UNCHANGED <<sched, paused, faults, commands, sincePause>>
    BY <1>10 DEF SendSignal
  <2> QED BY <2>2, <2>3 DEF WorkerRec
<1> QED BY <1>1, <1>2, <1>3, <1>4, <1>5, <1>6, <1>7, <1>8, <1>9, <1>10 DEF Environment, UserStep

\* Every step keeps the invariant.
LEMMA StepKeepsInv == QueueInv /\ [QueueNext]_vars => QueueInv'
<1> SUFFICES ASSUME QueueInv, [QueueNext]_vars PROVE QueueInv'
  OBVIOUS
<1>1. TypeOK'
  BY StepIsCall, StepKeepsTypes DEF QueueInv, QueueTypeOK
<1>2. CASE UNCHANGED vars
  BY <1>2 DEF vars, qVars, jmVars, QueueInv, QueueTypeOK, TypeOK, Up
<1> QED BY <1>1, <1>2, SchedulerKeepsInv, WorkerKeepsInv, UserKeepsInv DEF QueueNext

\* The invariant holds in every state of the queue.
THEOREM QueueInvariant == QueueSpec => []QueueInv
BY InitQueueInv, StepKeepsInv, PTL DEF QueueSpec

\* Type correctness of the composed queue: scheduler, workers, calculations,
\* pending signals and registry.
THEOREM QueueTypeCorrect == QueueSpec => []QueueTypeOK
BY QueueInvariant, PTL DEF QueueInv

\* The queue implements the open registry: every step of the scheduler, of a
\* worker, of a user or of a crash is a call of jobs.py with arguments it allows,
\* or leaves the records alone.
THEOREM QueueImplementsRegistry == QueueSpec => Spec
<1>1. QueueInit => Init
  BY DEF QueueInit
<1> QED BY <1>1, StepIsCall, QueueInvariant, PTL DEF QueueSpec, Spec

\* So no GPU has more active jobs than --max-jobs-per-gpu whatever schedulers,
\* their crashed predecessors, workers and users do together (claim_job).
THEOREM QueueKeepsLeaseBound == QueueSpec => []LeaseBound
BY QueueImplementsRegistry, LeaseBoundHolds, PTL

-----------------------------------------------------------------------------
(***************************************************************************)
(* RunsAtMostOnce.  A worker that passed the startup handshake, or started *)
(* its calculation, is committed.  What is inductive: the record of a      *)
(* committed worker's job is RUNNING under that worker's own claim token,  *)
(* or settled, or gone for good.  A second worker of the job can therefore *)
(* never pass the handshake: it would need the record to be RUNNING under  *)
(* its own token.                                                          *)
(***************************************************************************)
Early == {"none", "claimed", "handshake", "ready"}
Committed(t) == worker[t].pc = "ready" \/ calc[t] # "none"

\* The record of job j lets no worker but t's start a calculation.
Pinned(j, t) ==
  \/ jobs[j].status = "running" /\ jobs[j].token = t
  \/ jobs[j].status \in Terminal \cup {"absent"}

SpawnsClaimed == sched.pc = "spawn" => worker[sched.token].pc = "claimed"

OnceInv ==
  /\ SpawnsClaimed
  /\ \A t \in Tokens : worker[t].pc \in Early => calc[t] = "none"
  /\ \A t \in Tokens :
       Committed(t) => worker[t].job \in Jobs /\ Pinned(worker[t].job, t)
  /\ \A s, t \in Tokens :
       Committed(s) /\ Committed(t) /\ worker[s].job = worker[t].job => s = t

\* What a step can do to a worker on its way to a calculation.
LaunchRules ==
  \A t \in Tokens :
    /\ worker'[t].job = worker[t].job \/ worker[t].pc = "none"
    /\ worker'[t].pc \in Early => worker[t].pc \in Early /\ calc'[t] = calc[t]
    /\ calc'[t] # "none" => calc[t] # "none" \/ worker[t].pc = "ready"
    /\ worker'[t].pc = "ready" =>
         \/ worker[t].pc = "ready"
         \/ worker[t].pc = "handshake" /\ HandshakeOk(t) /\ UNCHANGED jobs

\* A signal kills workers and stops calculations; it starts nothing.
LEMMA SignalLaunchesNothing ==
  ASSUME QueueInv, OnceInv, NEW p, SignalGroup(p)
  PROVE  LaunchRules
<1> USE DEF QueueInv, QueueTypeOK, OnceInv, SignalGroup, Early, CalcLive
<1>1. ASSUME NEW t \in Tokens
      PROVE  Ended(t).pc \notin Early /\ Ended(t).job = worker[t].job
  BY DEF Ended
<1>2. ASSUME NEW t \in Tokens
      PROVE  /\ worker'[t] = Ended(t) \/ worker'[t] = worker[t]
             /\ calc'[t] = calc[t] \/ (calc[t] = "run" /\ calc'[t] = "stopping")
             /\ worker[t].pc \in Early /\ worker'[t] = worker[t] => worker'[t].pc \in Early
  OBVIOUS
<1> QED BY <1>1, <1>2 DEF LaunchRules

\* The scheduler obeys the launch rules, and spawns what it claimed.
LEMMA SchedulerLaunches ==
  ASSUME QueueInv, OnceInv, SchedStep
  PROVE  LaunchRules /\ SpawnsClaimed'
<1> USE DEF QueueInv, QueueTypeOK, OnceInv, LaunchRules, SpawnsClaimed, Early, Alive,
            At, Goto, Launching
<1>1. CASE RecoverClaims BY <1>1 DEF RecoverClaims
<1>2. ASSUME NEW t \in Tokens, ReapChild(t) PROVE LaunchRules /\ SpawnsClaimed'
  BY <1>2 DEF ReapChild
<1>3. CASE ReapDone BY <1>3 DEF ReapDone
<1>4. ASSUME NEW j \in Jobs, Probe(j) PROVE LaunchRules /\ SpawnsClaimed'
  BY <1>4 DEF Probe
<1>5. CASE Gate BY <1>5 DEF Gate
<1>6. CASE Loop BY <1>6 DEF Loop
<1>7. CASE Scan
  <2>1. PICK j \in sched.todo : ScanFails(j) \/ ScanClaims(j) \/ ScanSkips(j)
    BY <1>7 DEF Scan, Oldest
  <2>2. CASE ScanFails(j) BY <1>7, <2>2 DEF Scan, ScanFails
  <2>3. CASE ScanClaims(j)
    <3>1. NextToken \in Tokens /\ worker[NextToken].pc = "none"
      BY <2>3 DEF ScanClaims, NextToken, FreshTokens
    <3>2. sched'.token = NextToken
      BY <2>3, <3>1 DEF ScanClaims
    <3>3. /\ worker'[NextToken].pc = "claimed"
          /\ \A t \in Tokens \ {NextToken} : worker'[t] = worker[t]
      BY <2>3, <3>1 DEF ScanClaims
    <3>4. calc' = calc
      BY <1>7 DEF Scan
    <3> QED BY <3>1, <3>2, <3>3, <3>4
  <2>4. CASE ScanSkips(j) BY <1>7, <2>4 DEF Scan, ScanSkips
  <2> QED BY <2>1, <2>2, <2>3, <2>4
<1>8. CASE ScanDone BY <1>8 DEF ScanDone
<1>9. CASE SpawnWorker
  <2>1. PICK p \in Pids, collected \in SUBSET Tokens :
         /\ worker' = [t \in Tokens |->
              IF t = sched.token THEN [worker[t] EXCEPT !.pc = "handshake", !.pid = p]
              ELSE IF t \in collected THEN [worker[t] EXCEPT !.pc = "gone"]
              ELSE worker[t]]
         /\ UNCHANGED calc
    BY <1>9 DEF SpawnWorker, FreePids, Zombies
  <2>2. worker[sched.token].pc = "claimed" /\ sched'.pc = "promote"
    BY <1>9 DEF SpawnWorker
  <2>3. ASSUME NEW t \in Tokens
        PROVE  /\ worker'[t].job = worker[t].job
               /\ worker'[t].pc = IF t = sched.token THEN "handshake"
                                  ELSE IF t \in collected THEN "gone"
                                  ELSE worker[t].pc
    BY <2>1
  <2>4. calc' = calc
    BY <2>1
  <2>5. LaunchRules
    BY <2>2, <2>3, <2>4
  <2> QED BY <2>2, <2>5
<1>10. CASE SpawnFails BY <1>10 DEF SpawnFails
<1>11. CASE Promote BY <1>11 DEF Promote
<1>12. CASE PromoteFails
  <2>1. SignalGroup(worker[sched.token].pid) /\ sched'.pc = "abandon"
    BY <1>12 DEF PromoteFails
  <2> QED BY <2>1, SignalLaunchesNothing
<1>13. CASE Abandon BY <1>13 DEF Abandon
<1> QED BY <1>1, <1>2, <1>3, <1>4, <1>5, <1>6, <1>7, <1>8, <1>9, <1>10, <1>11,
           <1>12, <1>13 DEF SchedStep

\* So do workers.
LEMMA WorkerLaunches ==
  ASSUME QueueInv, OnceInv, NEW t \in Tokens, WorkerStep(t) \/ CalcEnds(t)
  PROVE  LaunchRules /\ SpawnsClaimed'
<1> USE DEF QueueInv, QueueTypeOK, OnceInv, LaunchRules, SpawnsClaimed, Early, Alive,
            WorkerGoto, Launching, CalcLive
<1>1. CASE Handshake(t)
  <2>1. /\ worker'[t].pc = "ready" /\ worker'[t].job = worker[t].job
        /\ \A s \in Tokens \ {t} : worker'[s] = worker[s]
        /\ worker[t].pc = "handshake" /\ HandshakeOk(t)
        /\ UNCHANGED <<jobs, calc, sched>>
    BY <1>1 DEF Handshake, jmVars
  <2> QED BY <2>1
<1>2. CASE HandshakeTimeout(t) BY <1>2 DEF HandshakeTimeout
<1>3. CASE StartCalc(t) BY <1>3 DEF StartCalc
<1>4. CASE StartFails(t) BY <1>4 DEF StartFails
<1>5. CASE Report(t) BY <1>5 DEF Report
<1>6. CASE WorkerExits(t) BY <1>6 DEF WorkerExits, Ended
<1>7. CASE CalcEnds(t) BY <1>7 DEF CalcEnds
<1> QED BY <1>1, <1>2, <1>3, <1>4, <1>5, <1>6, <1>7 DEF WorkerStep

\* Users, crashes and signals launch nothing.
LEMMA UserLaunches ==
  ASSUME QueueInv, OnceInv, Environment \/ \E s \in signals : SendSignal(s)
  PROVE  LaunchRules /\ SpawnsClaimed'
<1> USE DEF QueueInv, QueueTypeOK, OnceInv, LaunchRules, SpawnsClaimed, Early, Alive,
            Launching
<1>1. CASE UserStep
  <2>1. UNCHANGED <<worker, calc, sched>>
    BY <1>1 DEF UserStep, Submit, Kill, PauseQueue, ResumeQueue, EditRecord, qVars
  <2> QED BY <2>1
<1>2. CASE Boot BY <1>2 DEF Boot, Down
<1>3. CASE Exit BY <1>3 DEF Exit, Down
<1>4. ASSUME NEW t \in Tokens, WorkerDies(t) PROVE LaunchRules /\ SpawnsClaimed'
  BY <1>4 DEF WorkerDies, Ended
<1>5. ASSUME NEW s \in signals, KillerDies(s) PROVE LaunchRules /\ SpawnsClaimed'
  BY <1>5 DEF KillerDies
<1>6. ASSUME NEW s \in signals, SendSignal(s) PROVE LaunchRules /\ SpawnsClaimed'
  <2>1. SignalGroup(s.pid) /\ UNCHANGED sched
    BY <1>6 DEF SendSignal
  <2>2. ASSUME SpawnsClaimed, sched.pc = "spawn"
        PROVE  worker'[sched.token] = worker[sched.token]
    BY <2>1, <2>2 DEF SignalGroup
  <2> QED BY <2>1, <2>2, SignalLaunchesNothing
<1> QED BY <1>1, <1>2, <1>3, <1>4, <1>5, <1>6 DEF Environment

\* A record comes into being only under an id no worker refers to.
IdsAreFresh ==
  \A k \in Jobs : jobs[k].status = "absent"
    => jobs'[k].status = "absent" \/ \A t \in Tokens : worker[t].job # k

\* update_status never creates a record.
LEMMA TryUpdateCreatesNothing ==
  ASSUME TypeOK, NEW j \in Jobs, NEW desired, NEW expected, NEW expPid, NEW token,
         TryUpdate(j, desired, expected, expPid, token)
  PROVE  IdsAreFresh
BY DEF TryUpdate, UpdateStatus, CanUpdate, Exists, IdsAreFresh, TypeOK, jmVars

\* Every step that creates a record uses a fresh id.
LEMMA StepFreshIds == ASSUME QueueInv, [QueueNext]_vars PROVE IdsAreFresh
<1> USE DEF QueueInv, QueueTypeOK
<1>1. CASE UNCHANGED jobs
  BY <1>1 DEF IdsAreFresh
<1>2. CASE SchedStep
  <2>1. CASE RecoverClaims
    BY <2>1 DEF RecoverClaims, RecoverStaleClaims, IdsAreFresh, TypeOK
  <2>2. ASSUME NEW t \in Tokens, ReapChild(t) PROVE IdsAreFresh
    BY <2>2, <1>1, TryUpdateCreatesNothing DEF ReapChild, WithPid, jmVars
  <2>3. ASSUME NEW j \in Jobs, Probe(j) PROVE IdsAreFresh
    BY <2>3, <1>1, TryUpdateCreatesNothing DEF Probe, jmVars
  <2>4. CASE Scan
    <3>1. PICK j \in Jobs : ScanFails(j) \/ ScanClaims(j) \/ ScanSkips(j)
      BY <2>4 DEF Scan, Oldest
    <3>2. CASE ScanFails(j) BY <3>2, TryUpdateCreatesNothing DEF ScanFails
    <3>3. CASE ScanClaims(j)
      BY <3>3 DEF ScanClaims, ClaimJob, Claimable, TypeOK, IdsAreFresh
    <3>4. CASE ScanSkips(j) BY <3>4, <1>1 DEF ScanSkips, jmVars
    <3> QED BY <3>1, <3>2, <3>3, <3>4
  <2>5. CASE SpawnFails
    BY <2>5, TryUpdateCreatesNothing DEF SpawnFails, At, Launching
  <2>6. CASE Promote
    BY <2>6 DEF Promote, MarkRunning, UpdateStatus, CanUpdate, Exists, TypeOK,
                IdsAreFresh, At, Launching
  <2>7. CASE Abandon
    BY <2>7, TryUpdateCreatesNothing DEF Abandon, At, Launching
  <2>8. CASE ReapDone \/ Gate \/ Loop \/ ScanDone \/ SpawnWorker \/ PromoteFails
    BY <2>8, <1>1 DEF ReapDone, Gate, Loop, ScanDone, SpawnWorker, PromoteFails, jmVars
  <2> QED BY <1>2, <2>1, <2>2, <2>3, <2>4, <2>5, <2>6, <2>7, <2>8 DEF SchedStep
<1>3. ASSUME NEW t \in Tokens, WorkerStep(t) \/ CalcEnds(t) PROVE IdsAreFresh
  <2>1. CASE HandshakeTimeout(t)
    BY <2>1, TryUpdateCreatesNothing DEF HandshakeTimeout, Alive
  <2>2. CASE StartFails(t)
    BY <2>2, TryUpdateCreatesNothing DEF StartFails, Alive
  <2>3. CASE Report(t)
    BY <2>3, TryUpdateCreatesNothing DEF Report, Alive
  <2>4. CASE Handshake(t) \/ StartCalc(t) \/ WorkerExits(t) \/ CalcEnds(t)
    BY <2>4, <1>1 DEF Handshake, StartCalc, WorkerExits, CalcEnds, jmVars
  <2> QED BY <1>3, <2>1, <2>2, <2>3, <2>4 DEF WorkerStep
<1>4. CASE UserStep
  <2>1. CASE Submit
    <3> DEFINE fresh == CHOOSE j \in FreshIds : TRUE
    <3>1. fresh \in Jobs /\ \A t \in Tokens : worker[t].job # fresh
      BY <2>1 DEF Submit, FreshIds
    <3>2. \A k \in Jobs \ {fresh} : jobs'[k] = jobs[k]
      BY <2>1 DEF Submit, Enqueue, TypeOK
    <3> HIDE DEF fresh
    <3> QED BY <3>1, <3>2 DEF IdsAreFresh
  <2>2. ASSUME NEW j \in Jobs, Kill(j) PROVE IdsAreFresh
    BY <2>2 DEF Kill, CancelJob, CanCancel, TypeOK, IdsAreFresh
  <2>3. CASE PauseQueue \/ ResumeQueue
    BY <2>3, <1>1 DEF PauseQueue, ResumeQueue, jmVars
  <2>4. CASE EditRecord
    <3>1. ASSUME NEW j \in Jobs, PausePending(j) \/ ResumePaused(j) PROVE IdsAreFresh
      BY <3>1 DEF PausePending, ResumePaused, UpdateStatus, CanUpdate, Exists, TypeOK,
                  IdsAreFresh
    <3>2. ASSUME NEW j \in Jobs, DeleteJob(j) PROVE IdsAreFresh
      BY <3>2 DEF DeleteJob, Deletable, Exists, TypeOK, IdsAreFresh
    <3>3. CASE Clean
      BY <3>3 DEF Clean, IdsAreFresh, Terminal
    <3>4. ASSUME NEW j \in FreshIds, CallMigrate(j) PROVE IdsAreFresh
      BY <3>4 DEF CallMigrate, MigrateLegacy, FreshIds, IdsAreFresh, TypeOK
    <3> QED BY <2>4, <3>1, <3>2, <3>3, <3>4 DEF EditRecord
  <2> QED BY <1>4, <2>1, <2>2, <2>3, <2>4 DEF UserStep
<1>5. CASE UNCHANGED vars
  BY <1>5, <1>1 DEF vars, jmVars
<1>6. CASE /\ Environment \/ \E s \in signals : SendSignal(s)
           /\ ~UserStep
  BY <1>6, <1>1 DEF Environment, Boot, Exit, WorkerDies, KillerDies, SendSignal, jmVars
<1> QED BY <1>2, <1>3, <1>4, <1>5, <1>6 DEF QueueNext, Environment

\* What pins a job's record for a committed worker stays.
LEMMA PinnedStays ==
  ASSUME QueueInv, [QueueNext]_vars, NEW t \in Tokens, NEW k \in Jobs,
         worker[t].job = k, Pinned(k, t)
  PROVE  Pinned(k, t)'
<1>1. TypeOK /\ [Next]_jmVars /\ IdsAreFresh /\ TypeOK'
  BY StepIsCall, StepFreshIds, StepKeepsTypes DEF QueueInv, QueueTypeOK
<1>2. CASE jobs[k].status = "running" /\ jobs[k].token = t
  <2>1. /\ jobs'[k].status \in {"running"} \cup Terminal
        /\ [jobs'[k] EXCEPT !.status = "running"] = jobs[k]
    BY <1>1, <1>2, RunningStep
  <2>2. jobs'[k].token = jobs[k].token
    BY <1>1, <2>1 DEF TypeOK, Record
  <2> QED BY <1>2, <2>1, <2>2 DEF Pinned
<1>3. CASE jobs[k].status \in Terminal
  BY <1>1, <1>3, TerminalStep DEF Pinned, NoRecord
<1>4. CASE jobs[k].status = "absent"
  BY <1>1, <1>4 DEF IdsAreFresh, Pinned
<1> QED BY <1>2, <1>3, <1>4 DEF Pinned

\* One step of any process keeps the commitments apart.
LEMMA StepKeepsOnce ==
  ASSUME QueueInv, QueueInv', OnceInv, [QueueNext]_vars
  PROVE  OnceInv'
<1>1. CASE UNCHANGED vars
  BY <1>1 DEF vars, qVars, jmVars, OnceInv, SpawnsClaimed, Committed, Pinned
<1>2. CASE QueueNext
  <2>1. LaunchRules /\ SpawnsClaimed'
    BY <1>2, SchedulerLaunches, WorkerLaunches, UserLaunches DEF QueueNext
  <2>2. \A t \in Tokens : (worker[t].pc \in Early => calc[t] = "none")'
    BY <2>1 DEF LaunchRules, OnceInv
  <2>3. ASSUME NEW t \in Tokens, Committed(t)'
        PROVE  /\ worker'[t].job = worker[t].job
               /\ \/ Committed(t)
                  \/ worker[t].pc = "handshake" /\ HandshakeOk(t) /\ UNCHANGED jobs
    BY <2>1, <2>3 DEF LaunchRules, OnceInv, Committed, Early
  <2>4. ASSUME NEW t \in Tokens, Committed(t)'
        PROVE  worker[t].job \in Jobs /\ Pinned(worker[t].job, t)
    BY <2>3, <2>4 DEF OnceInv, QueueInv, Alive, HandshakeOk, OwnRecord, Pinned
  <2>5. ASSUME NEW t \in Tokens, Committed(t)'
        PROVE  (worker[t].job \in Jobs /\ Pinned(worker[t].job, t))'
    <3> DEFINE k == worker[t].job
    <3>1. k \in Jobs /\ Pinned(k, t) /\ worker'[t].job = k
      BY <2>3, <2>4, <2>5
    <3>2. PICK j \in Jobs : j = k
      BY <3>1
    <3>3. Pinned(j, t)'
      BY <3>1, <3>2, PinnedStays
    <3> QED BY <3>1, <3>2, <3>3 DEF Pinned
  <2>6. ASSUME NEW s \in Tokens, NEW t \in Tokens, Committed(s)', Committed(t)',
               worker'[s].job = worker'[t].job
        PROVE  s = t
    <3>1. worker[s].job = worker[t].job
      BY <2>3, <2>6
    <3>2. CASE Committed(s) /\ Committed(t)
      BY <3>1, <3>2 DEF OnceInv
    <3>3. CASE HandshakeOk(s)
      BY <2>4, <2>6, <3>1, <3>3 DEF HandshakeOk, OwnRecord, Pinned, Terminal
    <3>4. CASE HandshakeOk(t)
      BY <2>4, <2>6, <3>1, <3>4 DEF HandshakeOk, OwnRecord, Pinned, Terminal
    <3> QED BY <2>3, <2>6, <3>2, <3>3, <3>4
  <2> QED BY <2>1, <2>2, <2>5, <2>6 DEF OnceInv
<1> QED BY <1>1, <1>2

\* Whatever crashes, is recovered, comes late or times out, a job's calculation
\* is started at most once (startup handshake of job_worker).
THEOREM RunsAtMostOnceHolds == QueueSpec => []RunsAtMostOnce
<1>1. QueueInit => OnceInv
  BY DEF QueueInit, Down, NoWorker, OnceInv, SpawnsClaimed, Committed
<1>2. QueueInv /\ QueueInv' /\ OnceInv /\ [QueueNext]_vars => OnceInv'
  BY StepKeepsOnce
<1>3. OnceInv => RunsAtMostOnce
  BY DEF OnceInv, RunsAtMostOnce, Committed
<1> QED BY <1>1, <1>2, <1>3, QueueInvariant, PTL DEF QueueSpec

-----------------------------------------------------------------------------
(***************************************************************************)
(* PauseStopsDispatch.  The scheduler enters a scan only after it read the *)
(* pause file and found none, and a scan makes at most one claim, so in a  *)
(* scan no claim has been made since the pause.                            *)
(***************************************************************************)
PauseInv ==
  /\ sincePause \in {0, 1}
  /\ ~paused => sincePause = 0
  /\ sched.pc = "scan" => sincePause = 0

\* Every step keeps the pause invariant.
LEMMA StepKeepsPause == ASSUME QueueInv, PauseInv, [QueueNext]_vars PROVE PauseInv'
<1> USE DEF QueueInv, QueueTypeOK, PauseInv, At, Goto
<1>1. CASE SchedStep
  <2>1. CASE Loop
    BY <2>1 DEF Loop
  <2>2. CASE Scan
    <3>1. PICK j \in Jobs : ScanFails(j) \/ ScanClaims(j) \/ ScanSkips(j)
      BY <2>2 DEF Scan, Oldest
    <3>2. CASE ScanClaims(j)
      <4>1. sched'.pc = "spawn" /\ sincePause' = IF paused THEN sincePause + 1 ELSE 0
        BY <3>2 DEF ScanClaims
      <4> QED BY <2>2, <4>1 DEF Scan
    <3>3. CASE ScanFails(j) \/ ScanSkips(j)
      BY <2>2, <3>3 DEF Scan, ScanFails, ScanSkips
    <3> QED BY <3>1, <3>2, <3>3
  <2>3. CASE ~Loop /\ ~Scan
    <3>1. UNCHANGED <<paused, sincePause>> /\ sched'.pc # "scan"
      BY <1>1, <2>3 DEF SchedStep, RecoverClaims, ReapChild, ReapDone, Probe, Gate,
         ScanDone, SpawnWorker, SpawnFails, Promote, PromoteFails, Abandon
    <3> QED BY <3>1
  <2> QED BY <2>1, <2>2, <2>3
<1>2. ASSUME NEW t \in Tokens, WorkerStep(t) \/ CalcEnds(t) PROVE PauseInv'
  BY <1>2 DEF WorkerStep, Handshake, HandshakeTimeout, StartCalc, StartFails, Report,
     WorkerExits, CalcEnds
<1>3. CASE Environment \/ \E s \in signals : SendSignal(s)
  BY <1>3 DEF Environment, Boot, Exit, Down, WorkerDies, KillerDies, SendSignal,
     UserStep, Submit, Kill, PauseQueue, ResumeQueue, EditRecord, qVars
<1>4. CASE UNCHANGED vars
  BY <1>4 DEF vars, qVars
<1> QED BY <1>1, <1>2, <1>3, <1>4 DEF QueueNext

\* A pause of the queue lets at most the launch already past its check go out
\* (pause checks of run_once), however often it is paused and resumed.
THEOREM PauseStopsDispatchHolds == QueueSpec => []PauseStopsDispatch
<1>1. QueueInit => PauseInv
  BY DEF QueueInit, Down, PauseInv
<1>2. QueueInv /\ PauseInv /\ [QueueNext]_vars => PauseInv'
  BY StepKeepsPause
<1>3. PauseInv => PauseStopsDispatch
  BY DEF PauseInv, PauseStopsDispatch
<1> QED BY <1>1, <1>2, <1>3, QueueInvariant, PTL DEF QueueSpec

-----------------------------------------------------------------------------
(***************************************************************************)
(* CapRespected.  Between its count of the active jobs (Gate) and the last *)
(* launch of a pass the scheduler never counts again: it adds one for each *)
(* launch that succeeds.  What is inductive is that its count stays an     *)
(* upper bound of the jobs active beside the launch under way, and that    *)
(* the launch under way is undone before it is forgotten.  Records of an   *)
(* older release come with their status, so importing them is left out.    *)
(***************************************************************************)
Undisturbed(j) == jobs[j].status = "claimed" /\ jobs[j].token = sched.token

CapInv ==
  /\ CapRespected
  /\ sched.pc \in {"loop", "scan"} => Cardinality(ActiveJobs) <= sched.active
  /\ sched.pc \in {"scan"} \cup Launching => sched.active < MaxConcurrent
  /\ sched.pc \in Launching =>
       /\ Cardinality(ActiveJobs \ {sched.job}) <= sched.active
       /\ Active(sched.job) => Undisturbed(sched.job)

\* A step after which the scheduler is outside its launch loop, or where it was.
Resting == {"down", "idle", "reap", "probe"}

SameCount ==
  \/ sched'.pc \in Resting
  \/ /\ UNCHANGED <<sched.active, sched.job, sched.token>>
     /\ sched'.pc = sched.pc \/ {sched.pc, sched'.pc} \subseteq Launching

\* No record is active after the step that the step changed.
Quiet == \A k \in Jobs : jobs'[k] = jobs[k] \/ ~Active(k)'

\* The jobs outside S stay as few as they were.
LEMMA QuietCounts ==
  ASSUME NEW S, \A k \in Jobs : Active(k)' => Active(k)
  PROVE  /\ Cardinality(ActiveJobs' \ S) <= Cardinality(ActiveJobs \ S)
         /\ {Cardinality(ActiveJobs' \ S), Cardinality(ActiveJobs \ S)} \subseteq Nat
<1>1. ActiveJobs \ S \in SUBSET Jobs /\ ActiveJobs' \ S \in SUBSET (ActiveJobs \ S)
  BY DEF ActiveJobs
<1>2. IsFiniteSet(ActiveJobs \ S)
  BY <1>1, JobsFinite, FS_Subset
<1> QED BY <1>1, <1>2, FS_Subset, FS_CardinalityType

\* update_status to a status that is not active is quiet.
LEMMA QuietUpdate ==
  ASSUME TypeOK, NEW j \in Jobs, NEW desired \in Statuses \ ActiveStatuses,
         NEW expected, NEW expPid, NEW token,
         TryUpdate(j, desired, expected, expPid, token)
  PROVE  Quiet
<1>1. CASE CanUpdate(j, desired, expected, expPid, token)
  <2>1. /\ jobs' = [jobs EXCEPT ![j] = Updated(jobs[j], desired, None, None)]
        /\ jobs[j] \in Record
    BY <1>1 DEF TryUpdate, UpdateStatus, TypeOK
  <2>2. Updated(jobs[j], desired, None, None).status = desired
    BY <2>1 DEF Updated, Released, Record
  <2> QED BY <2>1, <2>2 DEF Quiet, Active, TypeOK
<1>2. CASE ~CanUpdate(j, desired, expected, expPid, token)
  BY <1>2 DEF TryUpdate, jmVars, Quiet
<1> QED BY <1>1, <1>2

\* The statuses callers other than mark_running write.
LEMMA IdleStatuses ==
  Terminal \cup {"pending", "paused"} \subseteq Statuses \ ActiveStatuses
BY DEF Terminal, Statuses, ActiveStatuses

\* The steps of workers and calculations are quiet.
LEMMA WorkerIsQuiet ==
  ASSUME QueueInv, NEW t \in Tokens, WorkerStep(t) \/ CalcEnds(t)
  PROVE  Quiet /\ UNCHANGED sched
<1> USE DEF QueueInv, QueueTypeOK, Alive
<1>1. UNCHANGED sched
  BY DEF WorkerStep, Handshake, HandshakeTimeout, StartCalc, StartFails, Report,
         WorkerExits, CalcEnds
<1>2. "failed" \in Statuses \ ActiveStatuses
  BY IdleStatuses DEF Terminal
<1>3. CASE HandshakeTimeout(t)
  BY <1>1, <1>2, <1>3, QuietUpdate DEF HandshakeTimeout
<1>4. CASE StartFails(t)
  BY <1>1, <1>2, <1>4, QuietUpdate DEF StartFails
<1>5. CASE Report(t)
  <2>1. StatusOf(calc[t]) \in Statuses \ ActiveStatuses
    BY <1>5, IdleStatuses DEF Report, StatusOf, ExitCodes, Terminal
  <2> QED BY <1>1, <1>5, <2>1, QuietUpdate DEF Report
<1>6. CASE Handshake(t) \/ StartCalc(t) \/ WorkerExits(t) \/ CalcEnds(t)
  BY <1>1, <1>6 DEF Handshake, StartCalc, WorkerExits, CalcEnds, jmVars, Quiet
<1> QED BY <1>3, <1>4, <1>5, <1>6 DEF WorkerStep

\* The users' steps, crashes and signals are quiet, imports apart.
LEMMA UserIsQuiet ==
  ASSUME QueueInv, "migrate" \notin Commands,
         Environment \/ \E s \in signals : SendSignal(s)
  PROVE  /\ Quiet
         /\ UNCHANGED sched \/ sched'.pc \in Resting
<1> USE DEF QueueInv, QueueTypeOK
<1>1. CASE Submit
  <2> DEFINE fresh == CHOOSE j \in FreshIds : TRUE
  <2>1. fresh \in Jobs /\ UNCHANGED sched
    BY <1>1 DEF Submit, FreshIds, qVars
  <2>2. /\ \A k \in Jobs \ {fresh} : jobs'[k] = jobs[k]
        /\ jobs'[fresh].status = "pending"
    BY <1>1, <2>1 DEF Submit, Enqueue, TypeOK, NoRecord
  <2> HIDE DEF fresh
  <2> QED BY <2>1, <2>2 DEF Quiet, Active, ActiveStatuses
<1>2. ASSUME NEW j \in Jobs, Kill(j) PROVE Quiet /\ UNCHANGED sched
  <2>1. jobs' = [jobs EXCEPT ![j].status = "cancelled"] /\ UNCHANGED sched
    BY <1>2 DEF Kill, CancelJob
  <2> QED BY <2>1 DEF Quiet, Active, ActiveStatuses, TypeOK, Record
<1>3. CASE EditRecord
  <2>1. UNCHANGED sched
    BY <1>3 DEF EditRecord
  <2>2. ASSUME NEW j \in Jobs, PausePending(j) PROVE Quiet
    BY <2>2, IdleStatuses, QuietUpdate DEF PausePending, TryUpdate, UpdateStatus
  <2>3. ASSUME NEW j \in Jobs, ResumePaused(j) PROVE Quiet
    BY <2>3, IdleStatuses, QuietUpdate DEF ResumePaused, TryUpdate, UpdateStatus
  <2>4. ASSUME NEW j \in Jobs, DeleteJob(j) PROVE Quiet
    BY <2>4 DEF DeleteJob, Quiet, Active, ActiveStatuses, NoRecord, TypeOK
  <2>5. ASSUME Clean PROVE Quiet
    BY <2>5 DEF Clean, Quiet, Active, ActiveStatuses, NoRecord, Terminal
  <2>6. ~Command("migrate")
    BY DEF Command
  <2> QED
    BY ONLY <1>3, <2>1, <2>2, <2>3, <2>4, <2>5, <2>6 DEF EditRecord
<1>4. CASE PauseQueue \/ ResumeQueue
  BY <1>4 DEF PauseQueue, ResumeQueue, jmVars, Quiet
<1>5. CASE Boot \/ Exit
  BY <1>5 DEF Boot, Exit, Down, jmVars, Quiet, Resting
<1>6. CASE (\E t \in Tokens : WorkerDies(t)) \/ (\E s \in signals : KillerDies(s) \/ SendSignal(s))
  BY <1>6 DEF WorkerDies, KillerDies, SendSignal, jmVars, Quiet
<1>7. CASE UserStep
  BY ONLY <1>1, <1>2, <1>3, <1>4, <1>7 DEF UserStep
<1> QED BY <1>5, <1>6, <1>7 DEF Environment

\* A quiet step keeps what the scheduler counted.
LEMMA QuietKeepsCap ==
  ASSUME QueueInv, CapInv, Quiet, SameCount
  PROVE  CapInv'
<1>1. \A k \in Jobs : Active(k)' => Active(k)
  BY DEF Quiet, Active
<1>2. /\ Cardinality(ActiveJobs)' <= Cardinality(ActiveJobs)
      /\ Cardinality(ActiveJobs) \in Nat /\ Cardinality(ActiveJobs)' \in Nat
  <2>1. ActiveJobs \ {} = ActiveJobs /\ ActiveJobs' \ {} = ActiveJobs'
    OBVIOUS
  <2> QED BY <1>1, <2>1, QuietCounts
<1>3. CapRespected'
  BY <1>2, CapPositive DEF CapInv, CapRespected
<1>4. CASE sched'.pc \in Resting
  BY <1>3, <1>4 DEF CapInv, Launching, Resting
<1>5. CASE /\ UNCHANGED <<sched.active, sched.job, sched.token>>
           /\ sched'.pc = sched.pc \/ {sched.pc, sched'.pc} \subseteq Launching
  <2>1. sched.active \in Nat
    BY DEF QueueInv, QueueTypeOK
  <2>2. sched.pc \in {"loop", "scan"} => Cardinality(ActiveJobs)' <= sched.active
    BY <1>2, <2>1 DEF CapInv
  <2>3. ASSUME sched.pc \in Launching
        PROVE  /\ Cardinality(ActiveJobs' \ {sched.job}) <= sched.active
               /\ Active(sched.job)' => Undisturbed(sched.job)'
    <3>1. PICK j \in Jobs : j = sched.job
      BY <2>3 DEF QueueInv
    <3>2. Cardinality(ActiveJobs' \ {j}) <= sched.active
      <4>1. Cardinality(ActiveJobs \ {j}) <= sched.active
        BY <2>3, <3>1 DEF CapInv
      <4>2. /\ Cardinality(ActiveJobs' \ {j}) <= Cardinality(ActiveJobs \ {j})
            /\ {Cardinality(ActiveJobs' \ {j}), Cardinality(ActiveJobs \ {j})} \subseteq Nat
        BY <1>1, QuietCounts
      <4> QED BY <2>1, <4>1, <4>2
    <3>3. Active(j)' => jobs'[j] = jobs[j] /\ Active(j)
      BY <1>1 DEF Quiet
    <3>4. Active(j)' => Undisturbed(j)'
      BY <1>5, <2>3, <3>1, <3>3 DEF CapInv, Undisturbed
    <3> QED BY <1>5, <3>1, <3>2, <3>4 DEF Active, Undisturbed
  <2>4. sched.pc \in {"scan"} \cup Launching => sched.active < MaxConcurrent
    BY DEF CapInv
  <2>5. /\ sched'.pc \in {"loop", "scan"} => sched.pc \in {"loop", "scan"}
        /\ sched'.pc \in Launching => sched.pc \in Launching
        /\ sched'.pc = "scan" => sched.pc = "scan"
    BY <1>5 DEF Launching
  <2> QED BY ONLY <1>3, <1>5, <2>2, <2>3, <2>4, <2>5 DEF CapInv, Undisturbed
<1> QED BY <1>4, <1>5 DEF SameCount

\* A launch that failed is undone under its token, or already over.
LEMMA UndoneLaunch ==
  ASSUME QueueInv, CapInv, sched.pc \in Launching,
         TryUpdate(sched.job, "failed", {"claimed"}, None, sched.token)
  PROVE  Quiet /\ jobs'[sched.job].status \notin ActiveStatuses
<1>1. sched.job \in Jobs /\ sched.token \in Tokens /\ TypeOK
  BY DEF QueueInv, QueueTypeOK
<1>2. "failed" \in Statuses \ ActiveStatuses
  BY IdleStatuses DEF Terminal
<1>3. Quiet
  BY <1>1, <1>2, QuietUpdate
<1>4. CASE Active(sched.job)
  <2>1. Undisturbed(sched.job)
    BY <1>4 DEF CapInv
  <2>2. CanUpdate(sched.job, "failed", {"claimed"}, None, sched.token)
    BY <2>1 DEF Undisturbed, CanUpdate, Exists, AllowedTransitions, Terminal
  <2>3. jobs'[sched.job] = Updated(jobs[sched.job], "failed", None, None)
    BY <1>1, <2>2 DEF TryUpdate, UpdateStatus, TypeOK
  <2>4. jobs'[sched.job].status = "failed"
    BY <1>1, <2>3 DEF Updated, TypeOK, Record
  <2> QED BY <1>3, <2>4 DEF Active, ActiveStatuses
<1>5. CASE ~Active(sched.job)
  BY <1>1, <1>3, <1>5 DEF Quiet, Active
<1> QED BY <1>4, <1>5

\* The count after a launch that failed.
LEMMA UndoneCounts ==
  ASSUME QueueInv, CapInv, sched.pc \in Launching, Quiet,
         jobs'[sched.job].status \notin ActiveStatuses,
         sched' = [sched EXCEPT !.pc = "loop", !.job = None, !.token = None]
  PROVE  CapInv'
<1>1. PICK j \in Jobs : j = sched.job
  BY DEF QueueInv
<1>2. \A k \in Jobs : Active(k)' => Active(k)
  BY DEF Quiet, Active
<1>3. /\ Cardinality(ActiveJobs' \ {j}) <= Cardinality(ActiveJobs \ {j})
      /\ {Cardinality(ActiveJobs' \ {j}), Cardinality(ActiveJobs \ {j})} \subseteq Nat
  BY <1>2, QuietCounts
<1>4. ActiveJobs' \ {j} = ActiveJobs'
  BY <1>1 DEF ActiveJobs, Active
<1>5. Cardinality(ActiveJobs \ {j}) <= sched.active /\ sched.active < MaxConcurrent
  BY <1>1 DEF CapInv
<1>6. sched.active \in Nat /\ sched'.pc = "loop" /\ sched'.active = sched.active
  BY DEF QueueInv, QueueTypeOK
<1>7. Cardinality(ActiveJobs)' <= sched'.active /\ CapRespected'
  BY <1>3, <1>4, <1>5, <1>6, CapPositive DEF CapRespected
<1> QED BY <1>6, <1>7 DEF CapInv, Launching

\* The scheduler's steps keep the count.
LEMMA SchedulerKeepsCap == ASSUME QueueInv, CapInv, SchedStep PROVE CapInv'
<1>0. /\ sched.active \in Nat /\ TypeOK
      /\ IsFiniteSet(ActiveJobs) /\ Cardinality(ActiveJobs) \in Nat
  BY JobsFinite, FS_Subset, FS_CardinalityType
     DEF QueueInv, QueueTypeOK, ActiveJobs
<1> USE DEF At, Goto
\* Steps outside the launch loop, and steps that change no active record.
<1>1. CASE RecoverClaims
  <2>1. PICK S \in SUBSET Jobs : RecoverStaleClaims(S)
    BY <1>1 DEF RecoverClaims
  <2>2. ASSUME NEW k \in S PROVE jobs'[k].status = "pending"
    BY <1>0, <2>1, <2>2 DEF RecoverStaleClaims, Released, TypeOK, Record
  <2>3. \A k \in Jobs \ S : jobs'[k] = jobs[k]
    BY <2>1 DEF RecoverStaleClaims
  <2>4. Quiet
    BY <2>2, <2>3 DEF Quiet, Active, ActiveStatuses
  <2>5. SameCount
    BY <1>1 DEF RecoverClaims, QueueInv, QueueTypeOK, SameCount, Resting
  <2> QED BY <2>4, <2>5, QuietKeepsCap
<1>2. ASSUME NEW t \in Tokens, ReapChild(t) PROVE CapInv'
  <2>1. Quiet
    <3>1. CASE UNCHANGED jmVars
      BY <3>1 DEF jmVars, Quiet
    <3>2. ASSUME NEW j \in Jobs, TryUpdate(j, "failed", {"running"}, worker[t].pid, None)
          PROVE  Quiet
      BY <1>0, <3>2, IdleStatuses, QuietUpdate DEF Terminal
    <3> QED BY <1>2, <3>1, <3>2 DEF ReapChild, WithPid
  <2>2. SameCount
    BY <1>2 DEF ReapChild, SameCount
  <2> QED BY <2>1, <2>2, QuietKeepsCap
<1>3. ASSUME NEW j \in Jobs, Probe(j) PROVE CapInv'
  <2>1. Quiet
    <3>1. CASE UNCHANGED jmVars
      BY <3>1 DEF jmVars, Quiet
    <3>2. CASE TryUpdate(j, "failed", {"running"}, jobs[j].pid, None)
      BY <1>0, <3>2, IdleStatuses, QuietUpdate DEF Terminal
    <3> QED BY <1>3, <3>1, <3>2 DEF Probe
  <2>2. SameCount
    BY <1>3 DEF Probe, QueueInv, QueueTypeOK, SameCount, Resting
  <2> QED BY <2>1, <2>2, QuietKeepsCap
<1>4. CASE ReapDone \/ ScanDone \/ SpawnWorker \/ PromoteFails
  <2>1. Quiet
    BY <1>4 DEF ReapDone, ScanDone, SpawnWorker, PromoteFails, jmVars, Quiet
  <2>2. SameCount
    BY <1>4 DEF ReapDone, ScanDone, SpawnWorker, PromoteFails, QueueInv, QueueTypeOK,
                SameCount, Resting, Launching
  <2> QED BY <2>1, <2>2, QuietKeepsCap
\* The count, and the loop's test of it.
<1>5. CASE Gate
  <2>1. \/ sched'.pc = "idle"
        \/ sched'.pc = "loop" /\ sched'.active = Cardinality(ActiveJobs)
    BY <1>5 DEF Gate, QueueInv, QueueTypeOK
  <2>2. UNCHANGED jobs
    BY <1>5 DEF Gate, jmVars
  <2>3. ActiveJobs' = ActiveJobs
    BY <2>2 DEF ActiveJobs, Active
  <2> QED BY <1>0, <2>1, <2>3 DEF CapInv, CapRespected, Launching
<1>6. CASE Loop
  <2>1. \/ sched'.pc = "idle"
        \/ /\ sched'.pc = "scan" /\ sched'.active = sched.active
           /\ ~(sched.active >= MaxConcurrent)
    BY <1>6 DEF Loop, QueueInv, QueueTypeOK
  <2>2. UNCHANGED jobs /\ sched.pc = "loop"
    BY <1>6 DEF Loop, jmVars
  <2>3. ActiveJobs' = ActiveJobs
    BY <2>2 DEF ActiveJobs, Active
  <2> QED BY <1>0, <2>1, <2>2, <2>3, CapPositive DEF CapInv, CapRespected, Launching
\* A scan that claims: the new job is beside the count, and there was room.
<1>7. CASE Scan
  <2>1. PICK j \in Jobs : ScanFails(j) \/ ScanClaims(j) \/ ScanSkips(j)
    BY <1>7 DEF Scan, Oldest, QueueInv, QueueTypeOK
  <2>2. CASE ScanFails(j)
    <3>1. Quiet
      BY <1>0, <2>2, IdleStatuses, QuietUpdate DEF ScanFails, Terminal
    <3>2. SameCount
      BY <2>2 DEF ScanFails, QueueInv, QueueTypeOK, SameCount
    <3> QED BY <3>1, <3>2, QuietKeepsCap
  <2>3. CASE ScanSkips(j)
    <3>1. Quiet
      BY <2>3 DEF ScanSkips, jmVars, Quiet
    <3>2. SameCount
      BY <2>3 DEF ScanSkips, QueueInv, QueueTypeOK, SameCount
    <3> QED BY <3>1, <3>2, QuietKeepsCap
  <2>4. CASE ScanClaims(j)
    <3>1. /\ sched'.pc = "spawn" /\ sched'.job = j /\ sched'.token = NextToken
          /\ sched'.active = sched.active
      BY <2>4 DEF ScanClaims, QueueInv, QueueTypeOK
    <3>2. /\ \A k \in Jobs \ {j} : jobs'[k] = jobs[k]
          /\ jobs'[j].status = "claimed" /\ jobs'[j].token = NextToken
      BY <1>0, <2>4 DEF ScanClaims, ClaimJob, TypeOK, Record
    <3>3. Cardinality(ActiveJobs) <= sched.active /\ sched.active < MaxConcurrent
      BY <1>7 DEF Scan, CapInv
    <3>4. ActiveJobs' \ {j} \in SUBSET ActiveJobs /\ ActiveJobs' \in SUBSET (ActiveJobs \cup {j})
      BY <3>2 DEF ActiveJobs, Active
    <3>5. /\ Cardinality(ActiveJobs' \ {j}) <= Cardinality(ActiveJobs)
          /\ Cardinality(ActiveJobs' \ {j}) \in Nat
      BY <1>0, <3>4, FS_Subset, FS_CardinalityType
    <3>6. /\ IsFiniteSet(ActiveJobs \cup {j})
          /\ Cardinality(ActiveJobs \cup {j}) \in
               {Cardinality(ActiveJobs), Cardinality(ActiveJobs) + 1}
          /\ Cardinality(ActiveJobs \cup {j}) \in Nat
      BY <1>0, FS_AddElement, FS_CardinalityType
    <3>7. /\ Cardinality(ActiveJobs)' <= Cardinality(ActiveJobs \cup {j})
          /\ Cardinality(ActiveJobs)' \in Nat
      BY <3>4, <3>6, FS_Subset, FS_CardinalityType
    <3>8. CapRespected' /\ Cardinality(ActiveJobs' \ {j}) <= sched.active
      BY <1>0, <3>3, <3>5, <3>6, <3>7, CapPositive DEF CapRespected
    <3>9. Undisturbed(j)'
      BY <3>1, <3>2 DEF Undisturbed
    <3> QED BY ONLY <3>1, <3>3, <3>8, <3>9 DEF CapInv, Undisturbed
  <2> QED BY <2>1, <2>2, <2>3, <2>4
\* How a launch ends.
<1>8. CASE SpawnFails
  BY <1>8, UndoneLaunch, UndoneCounts DEF SpawnFails, Launching
<1>9. CASE Abandon
  BY <1>9, UndoneLaunch, UndoneCounts DEF Abandon, Launching
<1>10. CASE Promote
  <2>1. PICK j \in Jobs : j = sched.job
    BY <1>10 DEF Promote, QueueInv, Launching
  <2>2. /\ \A k \in Jobs \ {j} : jobs'[k] = jobs[k]
        /\ jobs[j].status = "claimed"
    BY <1>0, <1>10, <2>1 DEF Promote, MarkRunning, UpdateStatus, CanUpdate, TypeOK
  <2>3. /\ sched'.pc = "loop" /\ sched'.active = sched.active + 1
    BY <1>10 DEF Promote, QueueInv, QueueTypeOK
  <2>4. Cardinality(ActiveJobs \ {j}) <= sched.active /\ sched.active < MaxConcurrent
    BY <1>10, <2>1 DEF Promote, CapInv, Launching
  <2>5. /\ ActiveJobs' \in SUBSET ((ActiveJobs \ {j}) \cup {j})
        /\ j \notin ActiveJobs \ {j}
    BY <2>2 DEF ActiveJobs, Active
  <2>6. /\ IsFiniteSet(ActiveJobs \ {j})
        /\ Cardinality(ActiveJobs \ {j}) \in Nat
    BY <1>0, FS_RemoveElement, FS_CardinalityType
  <2>7. /\ IsFiniteSet((ActiveJobs \ {j}) \cup {j})
        /\ Cardinality((ActiveJobs \ {j}) \cup {j}) = Cardinality(ActiveJobs \ {j}) + 1
    BY <2>5, <2>6, FS_AddElement
  <2>8. /\ Cardinality(ActiveJobs)' <= Cardinality(ActiveJobs \ {j}) + 1
        /\ Cardinality(ActiveJobs)' \in Nat
    BY <2>5, <2>7, FS_Subset, FS_CardinalityType
  <2>9. CapRespected' /\ Cardinality(ActiveJobs)' <= sched'.active
    BY <1>0, <2>3, <2>4, <2>6, <2>8, CapPositive DEF CapRespected
  <2> QED BY ONLY <2>3, <2>9 DEF CapInv, Launching
<1> QED BY <1>1, <1>2, <1>3, <1>4, <1>5, <1>6, <1>7, <1>8, <1>9, <1>10 DEF SchedStep

\* One step keeps the count of the scheduler.
LEMMA StepKeepsCap ==
  ASSUME QueueInv, CapInv, [QueueNext]_vars, "migrate" \notin Commands
  PROVE  CapInv'
<1>1. CASE SchedStep
  BY <1>1, SchedulerKeepsCap
<1>2. ASSUME NEW t \in Tokens, WorkerStep(t) \/ CalcEnds(t) PROVE CapInv'
  BY <1>2, WorkerIsQuiet, QuietKeepsCap DEF SameCount
<1>3. CASE Environment \/ \E s \in signals : SendSignal(s)
  BY <1>3, UserIsQuiet, QuietKeepsCap DEF SameCount
<1>4. CASE UNCHANGED vars
  BY <1>4, QuietKeepsCap DEF vars, qVars, jmVars, SameCount, Quiet
<1> QED BY <1>1, <1>2, <1>3, <1>4 DEF QueueNext

\* Across crashes, recoveries, kills and late workers there are never more active
\* jobs than --max-concurrent, as long as nobody imports running records.
THEOREM CapRespectedHolds ==
  "migrate" \notin Commands => (QueueSpec => []CapRespected)
<1> SUFFICES ASSUME "migrate" \notin Commands PROVE QueueSpec => []CapRespected
  OBVIOUS
<1>1. QueueInit => CapInv
  <2> SUFFICES ASSUME QueueInit PROVE CapInv
    OBVIOUS
  <2>1. ActiveJobs = {}
    BY DEF QueueInit, Init, NoRecord, ActiveJobs, Active, ActiveStatuses
  <2> QED BY <2>1, FS_EmptySet, CapPositive DEF QueueInit, Down, CapInv, CapRespected, Launching
<1>2. QueueInv /\ CapInv /\ [QueueNext]_vars => CapInv'
  BY StepKeepsCap
<1>3. CapInv => CapRespected
  BY DEF CapInv
<1> QED BY <1>1, <1>2, <1>3, QueueInvariant, PTL DEF QueueSpec
-----------------------------------------------------------------------------
(***************************************************************************)
(* TruthfulOutcome.  It is inductive beside OnceInv: the only step that    *)
(* writes DONE or NOT_CONVERGED into a record of this release is the       *)
(* report of the worker that ran the job, a settled record is never        *)
(* rewritten, and the exit code it stands for is never taken back.         *)
(***************************************************************************)
Outcomes == {"done", "not_converged"}

\* The step records no outcome that was not recorded before.
SettlesNothing ==
  \A k \in Jobs : jobs'[k].status \in Outcomes /\ jobs'[k].born # 0
                    => jobs'[k].status = jobs[k].status

\* An exit code stays.
CodesStay == \A t \in Tokens : calc[t] \in ExitCodes => calc'[t] = calc[t]

\* update_status to another status records no outcome.
LEMMA OtherUpdate ==
  ASSUME TypeOK, NEW j \in Jobs, NEW desired \in Statuses \ Outcomes,
         NEW expected, NEW expPid, NEW token,
         NEW pid \in Pids \cup {None}, NEW ident \in Workers \cup {None},
         UpdateStatus(j, desired, expected, expPid, token, pid, ident)
  PROVE  SettlesNothing
<1>1. /\ jobs' = [jobs EXCEPT ![j] = Updated(jobs[j], desired, pid, ident)]
      /\ jobs[j] \in Record
  BY DEF UpdateStatus, TypeOK
<1>2. Updated(jobs[j], desired, pid, ident).status = desired
  BY <1>1 DEF Updated, Released, Record
<1> QED BY <1>1, <1>2 DEF SettlesNothing, TypeOK

\* So does the call whose answer is ignored.
LEMMA OtherTryUpdate ==
  ASSUME TypeOK, NEW j \in Jobs, NEW desired \in Statuses \ Outcomes,
         NEW expected, NEW expPid, NEW token,
         TryUpdate(j, desired, expected, expPid, token)
  PROVE  SettlesNothing
<1>1. CASE UpdateStatus(j, desired, expected, expPid, token, None, None)
  BY <1>1, OtherUpdate
<1>2. CASE UNCHANGED jmVars
  BY <1>2 DEF jmVars, SettlesNothing
<1> QED BY <1>1, <1>2 DEF TryUpdate

\* The statuses callers other than a report write.
LEMMA OtherStatuses ==
  {"failed", "cancelled", "pending", "paused", "claimed", "running"}
    \subseteq Statuses \ Outcomes
BY DEF Statuses, Outcomes, Terminal, ActiveStatuses

\* The scheduler records no outcome.
LEMMA SchedulerSettlesNothing ==
  ASSUME QueueInv, SchedStep PROVE SettlesNothing
<1>0. TypeOK
  BY DEF QueueInv, QueueTypeOK
<1>1. CASE UNCHANGED jmVars
  BY <1>1 DEF jmVars, SettlesNothing
<1>2. CASE RecoverClaims
  <2>1. PICK S \in SUBSET Jobs : RecoverStaleClaims(S)
    BY <1>2 DEF RecoverClaims
  <2>2. ASSUME NEW k \in S PROVE jobs'[k].status = "pending"
    BY <1>0, <2>1, <2>2 DEF RecoverStaleClaims, Released, TypeOK, Record
  <2>3. \A k \in Jobs \ S : jobs'[k] = jobs[k]
    BY <2>1 DEF RecoverStaleClaims
  <2> QED BY <2>2, <2>3 DEF SettlesNothing, Outcomes
<1>3. ASSUME NEW t \in Tokens, ReapChild(t) PROVE SettlesNothing
  BY <1>0, <1>1, <1>3, OtherStatuses, OtherTryUpdate DEF ReapChild, WithPid
<1>4. ASSUME NEW j \in Jobs, Probe(j) PROVE SettlesNothing
  BY <1>0, <1>1, <1>4, OtherStatuses, OtherTryUpdate DEF Probe
<1>5. CASE Scan
  <2>1. PICK j \in Jobs : ScanFails(j) \/ ScanClaims(j) \/ ScanSkips(j)
    BY <1>5 DEF Scan, Oldest, QueueInv, QueueTypeOK
  <2>2. CASE ScanFails(j)
    BY <1>0, <2>2, OtherStatuses, OtherTryUpdate DEF ScanFails
  <2>3. CASE ScanClaims(j)
    <3>1. /\ \A k \in Jobs \ {j} : jobs'[k] = jobs[k]
          /\ jobs'[j].status = "claimed"
      BY <1>0, <2>3 DEF ScanClaims, ClaimJob, TypeOK, Record
    <3> QED BY <3>1 DEF SettlesNothing, Outcomes
  <2>4. CASE ScanSkips(j)
    BY <1>1, <2>4 DEF ScanSkips
  <2> QED BY <2>1, <2>2, <2>3, <2>4
<1>6. CASE SpawnFails \/ Abandon
  <2>1. sched.job \in Jobs
    BY <1>6 DEF SpawnFails, Abandon, At, QueueInv, Launching
  <2> QED BY <1>0, <1>6, <2>1, OtherStatuses, OtherTryUpdate DEF SpawnFails, Abandon
<1>7. CASE Promote
  <2>1. /\ sched.job \in Jobs /\ sched.token \in Tokens
        /\ worker[sched.token].pid \in Pids
    BY <1>7 DEF Promote, At, QueueInv, Launching
  <2> QED BY <1>0, <1>7, <2>1, WorkersAreTokens, OtherStatuses, OtherUpdate
          DEF Promote, MarkRunning
<1>8. CASE ReapDone \/ Gate \/ Loop \/ ScanDone \/ SpawnWorker \/ PromoteFails
  BY <1>1, <1>8 DEF ReapDone, Gate, Loop, ScanDone, SpawnWorker, PromoteFails
<1> QED BY <1>2, <1>3, <1>4, <1>5, <1>6, <1>7, <1>8 DEF SchedStep

\* Nor do users, crashes and signals; an import is born in another release.
LEMMA UserSettlesNothing ==
  ASSUME QueueInv, Environment \/ \E s \in signals : SendSignal(s)
  PROVE  SettlesNothing
<1>0. TypeOK
  BY DEF QueueInv, QueueTypeOK
<1>1. CASE UNCHANGED jmVars
  BY <1>1 DEF jmVars, SettlesNothing
<1>2. CASE Submit
  <2> DEFINE fresh == CHOOSE j \in FreshIds : TRUE
  <2>1. fresh \in Jobs
    BY <1>2 DEF Submit, FreshIds
  <2>2. /\ \A k \in Jobs \ {fresh} : jobs'[k] = jobs[k]
        /\ jobs'[fresh].status = "pending"
    BY <1>0, <1>2, <2>1 DEF Submit, Enqueue, TypeOK, NoRecord
  <2> HIDE DEF fresh
  <2> QED BY <2>1, <2>2 DEF SettlesNothing, Outcomes
<1>3. ASSUME NEW j \in Jobs, Kill(j) PROVE SettlesNothing
  <2>1. jobs' = [jobs EXCEPT ![j].status = "cancelled"]
    BY <1>3 DEF Kill, CancelJob
  <2> QED BY <1>0, <2>1 DEF SettlesNothing, Outcomes, TypeOK, Record
<1>4. ASSUME NEW j \in Jobs, PausePending(j) \/ ResumePaused(j) PROVE SettlesNothing
  BY <1>0, <1>4, OtherStatuses, OtherUpdate DEF PausePending, ResumePaused
<1>5. ASSUME NEW j \in Jobs, DeleteJob(j) PROVE SettlesNothing
  BY <1>0, <1>5 DEF DeleteJob, SettlesNothing, NoRecord, TypeOK
<1>6. CASE Clean
  BY <1>6 DEF Clean, SettlesNothing, NoRecord
<1>7. ASSUME NEW j \in Jobs, CallMigrate(j) PROVE SettlesNothing
  <2>1. PICK r : jobs' = [jobs EXCEPT ![j] = r] /\ r.born = 0
    <3>1. ASSUME NEW status, NEW device, NEW idform, NEW pid,
                 MigrateLegacy(j, status, device, idform, pid)
          PROVE  \E r : jobs' = [jobs EXCEPT ![j] = r] /\ r.born = 0
      <4> DEFINE r == [NoRecord EXCEPT !.status = status, !.device = device,
                                       !.idform = idform, !.pid = pid]
      <4>1. r.born = 0
        BY DEF NoRecord
      <4>2. jobs' = [jobs EXCEPT ![j] = r]
        BY <3>1 DEF MigrateLegacy
      <4> QED BY <4>1, <4>2
    <3> QED BY <1>7, <3>1 DEF CallMigrate
  <2> QED BY <1>0, <2>1 DEF SettlesNothing, TypeOK
<1>8. CASE EditRecord
  BY <1>4, <1>5, <1>6, <1>7, <1>8 DEF EditRecord, FreshIds
<1>9. CASE PauseQueue \/ ResumeQueue \/ Boot \/ Exit
  BY <1>1, <1>9 DEF PauseQueue, ResumeQueue, Boot, Exit
<1>10. CASE \/ \E t \in Tokens : WorkerDies(t)
            \/ \E s \in signals : KillerDies(s) \/ SendSignal(s)
  BY <1>1, <1>10 DEF WorkerDies, KillerDies, SendSignal
<1> QED BY <1>2, <1>3, <1>8, <1>9, <1>10 DEF Environment, UserStep

\* Nor does a worker, unless it reports.
LEMMA WorkerSettlesNothing ==
  ASSUME QueueInv, NEW t \in Tokens, WorkerStep(t) \/ CalcEnds(t), ~Report(t)
  PROVE  SettlesNothing
<1>0. TypeOK /\ (worker[t].pc \in Alive => worker[t].job \in Jobs)
  BY DEF QueueInv, QueueTypeOK
<1>1. CASE HandshakeTimeout(t) \/ StartFails(t)
  BY <1>0, <1>1, OtherStatuses, OtherTryUpdate DEF HandshakeTimeout, StartFails, Alive
<1>2. CASE Handshake(t) \/ StartCalc(t) \/ WorkerExits(t) \/ CalcEnds(t)
  BY <1>2 DEF Handshake, StartCalc, WorkerExits, CalcEnds, jmVars, SettlesNothing
<1> QED BY <1>1, <1>2 DEF WorkerStep

\* A report records the outcome of the worker's own calculation.
LEMMA ReportIsTrue ==
  ASSUME QueueInv, NEW t \in Tokens, Report(t), NEW k \in Jobs,
         jobs'[k].status \in Outcomes
  PROVE  \/ jobs'[k].status = jobs[k].status
         \/ worker[t].job = k /\ calc[t] = IF jobs'[k].status = "done"
                                           THEN "success" ELSE "not_converged"
<1>1. CASE UNCHANGED jmVars
  BY <1>1 DEF jmVars
<1>2. CASE UpdateStatus(worker[t].job, StatusOf(calc[t]), {"running"},
                        worker[t].pid, t, None, None)
  <2>1. worker[t].job \in Jobs /\ TypeOK
    BY DEF Report, QueueInv, QueueTypeOK, Alive
  <2>2. PICK j \in Jobs : j = worker[t].job
    BY <2>1
  <2>3. /\ jobs' = [jobs EXCEPT ![j] = Updated(jobs[j], StatusOf(calc[t]), None, None)]
        /\ jobs[j] \in Record
    BY <1>2, <2>1, <2>2 DEF UpdateStatus, TypeOK
  <2>4. Updated(jobs[j], StatusOf(calc[t]), None, None).status = StatusOf(calc[t])
    BY <2>3 DEF Updated, Released, Record
  <2>5. CASE k = j
    <3>1. jobs'[k].status = StatusOf(calc[t])
      BY <2>1, <2>3, <2>4, <2>5 DEF TypeOK
    <3>2. calc[t] \in ExitCodes
      BY DEF Report
    <3> QED BY <2>2, <2>5, <3>1, <3>2 DEF StatusOf, ExitCodes, Outcomes
  <2>6. CASE k # j
    BY <2>1, <2>3, <2>6 DEF TypeOK
  <2> QED BY <2>5, <2>6
<1> QED BY <1>1, <1>2 DEF Report, TryUpdate

\* No step takes an exit code back.
LEMMA StepKeepsCodes ==
  ASSUME QueueInv, OnceInv, QueueNext PROVE CodesStay
<1> USE DEF CodesStay
<1>0. calc \in [Tokens -> {"none"} \cup CalcLive \cup ExitCodes]
  BY DEF QueueInv, QueueTypeOK
<1>1. CASE UNCHANGED calc
  BY <1>1
<1>2. ASSUME NEW p, SignalGroup(p) PROVE CodesStay
  BY <1>0, <1>2 DEF SignalGroup, ExitCodes
<1>3. CASE SchedStep
  BY <1>1, <1>2, <1>3 DEF SchedStep, RecoverClaims, ReapChild, ReapDone, Probe, Gate,
     Loop, Scan, ScanDone, SpawnWorker, SpawnFails, Promote, PromoteFails, Abandon
<1>4. ASSUME NEW t \in Tokens, WorkerStep(t) \/ CalcEnds(t) PROVE CodesStay
  <2>1. CASE StartCalc(t)
    <3>1. calc[t] = "none"
      BY <2>1 DEF StartCalc, OnceInv, Early
    <3> QED BY <1>0, <2>1, <3>1 DEF StartCalc, ExitCodes
  <2>2. CASE CalcEnds(t)
    <3>1. PICK code : calc' = [calc EXCEPT ![t] = code]
      BY <2>2 DEF CalcEnds
    <3>2. calc[t] \notin ExitCodes
      BY <2>2 DEF CalcEnds, CalcLive, ExitCodes
    <3> QED BY <1>0, <3>1, <3>2
  <2>3. CASE UNCHANGED calc
    BY <2>3
  <2> QED BY <1>4, <2>1, <2>2, <2>3 DEF WorkerStep, Handshake, HandshakeTimeout,
             StartFails, Report, WorkerExits
<1>5. CASE Environment
  BY <1>1, <1>5 DEF Environment, Boot, Exit, WorkerDies, KillerDies, UserStep, Submit,
     Kill, PauseQueue, ResumeQueue, EditRecord, qVars
<1>6. CASE \E s \in signals : SendSignal(s)
  BY <1>2, <1>6 DEF SendSignal
<1> QED BY <1>3, <1>4, <1>5, <1>6 DEF QueueNext

\* One step keeps the recorded outcomes true.
LEMMA StepKeepsTruth ==
  ASSUME QueueInv, OnceInv, TruthfulOutcome, [QueueNext]_vars
  PROVE  TruthfulOutcome'
<1>1. CASE UNCHANGED vars
  BY <1>1 DEF vars, qVars, jmVars, TruthfulOutcome, OutcomeIs
<1>2. CASE QueueNext
  <2>0. TypeOK /\ [Next]_jmVars
    BY StepIsCall DEF QueueInv, QueueTypeOK
  <2>1. LaunchRules /\ CodesStay
    BY <1>2, SchedulerLaunches, WorkerLaunches, UserLaunches, StepKeepsCodes DEF QueueNext
  <2> DEFINE Code(status) == IF status = "done" THEN "success" ELSE "not_converged"
  <2>2. SUFFICES ASSUME NEW k \in Jobs, NEW status \in Outcomes,
                        jobs'[k].status = status, jobs'[k].born # 0
                 PROVE  \E t \in Tokens : worker'[t].job = k /\ calc'[t] = Code(status)
    BY DEF TruthfulOutcome, OutcomeIs, Outcomes
  <2>3. \E t \in Tokens : worker[t].job = k /\ calc[t] = Code(status)
    <3>1. CASE jobs[k].status = status
      <4>1. jobs'[k] = jobs[k]
        BY <2>0, <2>2, <3>1, TerminalStep DEF Outcomes, Terminal, NoRecord
      <4> QED BY <2>2, <3>1, <4>1 DEF TruthfulOutcome, OutcomeIs, Outcomes
    <3>2. CASE jobs[k].status # status
      <4>1. ~SettlesNothing
        BY <2>2, <3>2 DEF SettlesNothing
      <4>2. PICK t \in Tokens : Report(t)
        BY <1>2, <4>1, SchedulerSettlesNothing, UserSettlesNothing, WorkerSettlesNothing
           DEF QueueNext
      <4> QED BY <2>2, <3>2, <4>2, ReportIsTrue
    <3> QED BY <3>1, <3>2
  <2>4. PICK t \in Tokens : worker[t].job = k /\ calc[t] = Code(status)
    BY <2>3
  <2>5. calc'[t] = calc[t] /\ calc[t] # "none"
    BY <2>1, <2>4 DEF CodesStay, ExitCodes
  <2>6. worker'[t].job = worker[t].job
    BY <2>1, <2>5 DEF LaunchRules, OnceInv, Early
  <2> QED BY <2>4, <2>5, <2>6
<1> QED BY <1>1, <1>2

\* A job recorded as done, or as not converged, is one whose own calculation
\* ended that way (main and outcome_from_exit_code of job_worker), whatever
\* reaper, recovery, kill and crash came between.
THEOREM TruthfulOutcomeHolds == QueueSpec => []TruthfulOutcome
<1>1. QueueInit => OnceInv /\ TruthfulOutcome
  BY DEF QueueInit, Init, NoRecord, Down, NoWorker, OnceInv, SpawnsClaimed, Committed,
     TruthfulOutcome, OutcomeIs
<1>2. QueueInv /\ QueueInv' /\ OnceInv /\ TruthfulOutcome /\ [QueueNext]_vars
        => OnceInv' /\ TruthfulOutcome'
  BY StepKeepsOnce, StepKeepsTruth
<1> QED BY <1>1, <1>2, QueueInvariant, PTL DEF QueueSpec

-----------------------------------------------------------------------------
(***************************************************************************)
(* SupervisedIsRunning.  The reaper and the probe go by pids, which are    *)
(* used again, so what is inductive beside it is: no two processes share a *)
(* pid while either can be seen, and the process identity in a promoted    *)
(* record is the one of the claim.  A worker past its handshake is then    *)
(* the only process its record can be about, and only its own report, or a *)
(* user, ends the record.                                                  *)
(***************************************************************************)
Supervised(t) == worker[t].pc \in {"ready", "calc"}

PidsApart ==
  \A s, t \in Tokens : /\ HasProcess(s) /\ HasProcess(t)
                       /\ worker[s].pid = worker[t].pid
                       => s = t

IdentIsClaim ==
  \A j \in Jobs : jobs[j].status = "running" /\ jobs[j].token # None
                    => jobs[j].ident = jobs[j].token

InCharge(t) == HandshakeOk(t) \/ OwnRecord(t).status \in {"cancelled", "absent"}

SupervisedInv ==
  /\ PidsApart
  /\ IdentIsClaim
  /\ \A t \in Tokens : Supervised(t) => InCharge(t)

\* What a step can do to the processes: one whose pid was free may be spawned.
ProcessRules ==
  \E s \in Tokens \cup {None} :
    /\ s \in Tokens => worker[s].pc = "claimed"
    /\ \A t \in Tokens :
         /\ HasProcess(t)' /\ t # s => HasProcess(t) /\ worker'[t].pid = worker[t].pid
         /\ s \in Tokens /\ HasProcess(t) => worker[t].pid # worker'[s].pid
         /\ worker'[t].job = worker[t].job \/ worker[t].pc = "none"

\* A step after which every process seen was there before.
LEMMA NothingSpawned ==
  ASSUME \A t \in Tokens :
           /\ HasProcess(t)' => HasProcess(t) /\ worker'[t].pid = worker[t].pid
           /\ worker'[t].job = worker[t].job \/ worker[t].pc = "none"
  PROVE  ProcessRules
BY NoneIsFresh DEF ProcessRules

\* A signal spawns nothing.
LEMMA SignalSpawnsNothing ==
  ASSUME QueueInv, NEW p, SignalGroup(p), NEW t \in Tokens
  PROVE  /\ HasProcess(t)' => HasProcess(t) /\ worker'[t].pid = worker[t].pid
         /\ worker'[t].job = worker[t].job
         /\ Supervised(t)' => Supervised(t)
<1>1. worker \in [Tokens -> WorkerRec]
  BY DEF QueueInv, QueueTypeOK, WorkerRec
<1>2. /\ Ended(t).pid = worker[t].pid /\ Ended(t).job = worker[t].job
      /\ Ended(t).pc \notin {"ready", "calc"}
  BY <1>1 DEF Ended, WorkerRec
<1> QED BY <1>1, <1>2 DEF SignalGroup, HasProcess, Supervised

\* The scheduler keeps the process rules; it puts no worker past its handshake.
LEMMA SchedulerProcesses ==
  ASSUME QueueInv, OnceInv, SchedStep
  PROVE  ProcessRules /\ \A t \in Tokens : Supervised(t)' => Supervised(t)
<1> USE DEF QueueInv, QueueTypeOK, HasProcess, Alive, Supervised, At
<1>1. CASE UNCHANGED worker
  BY <1>1, NothingSpawned
<1>2. ASSUME NEW t \in Tokens, ReapChild(t)
      PROVE  ProcessRules /\ \A s \in Tokens : Supervised(s)' => Supervised(s)
  BY <1>2, NothingSpawned DEF ReapChild
<1>3. CASE Scan
  <2>1. PICK j \in sched.todo : ScanFails(j) \/ ScanClaims(j) \/ ScanSkips(j)
    BY <1>3 DEF Scan, Oldest
  <2>2. CASE ScanClaims(j)
    <3>1. NextToken \in Tokens /\ worker[NextToken].pc = "none"
      BY <2>2 DEF ScanClaims, NextToken, FreshTokens
    <3>2. /\ worker'[NextToken].pc = "claimed"
          /\ \A t \in Tokens \ {NextToken} : worker'[t] = worker[t]
      BY <2>2, <3>1 DEF ScanClaims
    <3>3. \A t \in Tokens :
            /\ HasProcess(t)' => HasProcess(t) /\ worker'[t].pid = worker[t].pid
            /\ worker'[t].job = worker[t].job \/ worker[t].pc = "none"
            /\ Supervised(t)' => Supervised(t)
      BY <3>1, <3>2
    <3> QED BY <3>3, NothingSpawned
  <2>3. CASE ScanFails(j) \/ ScanSkips(j)
    BY <1>1, <2>3 DEF ScanFails, ScanSkips
  <2> QED BY <2>1, <2>2, <2>3
<1>4. CASE SpawnWorker
  <2>1. PICK p \in FreePids, collected \in SUBSET Tokens :
         worker' = [t \in Tokens |->
           IF t = sched.token THEN [worker[t] EXCEPT !.pc = "handshake", !.pid = p]
           ELSE IF t \in collected THEN [worker[t] EXCEPT !.pc = "gone"]
           ELSE worker[t]]
    BY <1>4 DEF SpawnWorker, Zombies
  <2>2. sched.token \in Tokens /\ worker[sched.token].pc = "claimed"
    BY <1>4 DEF SpawnWorker, OnceInv, SpawnsClaimed, Launching
  <2>3. worker'[sched.token].pid = p
    BY <2>1, <2>2
  <2>4. ASSUME NEW t \in Tokens
        PROVE  /\ worker'[t].job = worker[t].job
               /\ t # sched.token => worker'[t].pid = worker[t].pid
               /\ worker'[t].pc = IF t = sched.token THEN "handshake"
                                  ELSE IF t \in collected THEN "gone"
                                  ELSE worker[t].pc
    BY <2>1
  <2>5. \A t \in Tokens : HasProcess(t) => worker[t].pid # p
    BY <2>1 DEF FreePids, PidInUse
  <2>6. ProcessRules
    BY <2>2, <2>3, <2>4, <2>5 DEF ProcessRules
  <2> QED BY <2>4, <2>6
<1>5. CASE SpawnFails
  <2>1. sched.token \in Tokens
        /\ worker' = [worker EXCEPT ![sched.token].pc = "gone"]
    BY <1>5 DEF SpawnFails, Launching
  <2> QED BY <2>1, NothingSpawned
<1>6. CASE PromoteFails
  BY <1>6, SignalSpawnsNothing, NothingSpawned DEF PromoteFails
<1>7. CASE RecoverClaims \/ ReapDone \/ (\E j \in Jobs : Probe(j)) \/ Gate \/ Loop
           \/ ScanDone \/ Promote \/ Abandon
  BY <1>1, <1>7 DEF RecoverClaims, ReapDone, Probe, Gate, Loop, ScanDone, Promote, Abandon
<1> QED BY <1>2, <1>3, <1>4, <1>5, <1>6, <1>7 DEF SchedStep

\* So do workers; only a handshake that succeeds puts one past it.
LEMMA WorkerProcesses ==
  ASSUME QueueInv, OnceInv, NEW t \in Tokens, WorkerStep(t) \/ CalcEnds(t)
  PROVE  /\ ProcessRules
         /\ \A s \in Tokens : Supervised(s)' =>
              Supervised(s) \/ (HandshakeOk(s) /\ worker[s].pc \in Alive /\ UNCHANGED jobs)
<1> USE DEF QueueInv, QueueTypeOK, HasProcess, Alive, Supervised, WorkerGoto
<1>1. CASE Handshake(t)
  <2>1. /\ worker'[t].job = worker[t].job /\ worker'[t].pid = worker[t].pid
        /\ \A s \in Tokens \ {t} : worker'[s] = worker[s]
        /\ worker[t].pc = "handshake" /\ HandshakeOk(t) /\ UNCHANGED jobs
    BY <1>1 DEF Handshake, jmVars
  <2> QED BY <2>1, NothingSpawned
<1>2. CASE HandshakeTimeout(t) BY <1>2, NothingSpawned DEF HandshakeTimeout
<1>3. CASE StartCalc(t) BY <1>3, NothingSpawned DEF StartCalc
<1>4. CASE StartFails(t) BY <1>4, NothingSpawned DEF StartFails
<1>5. CASE Report(t) BY <1>5, NothingSpawned DEF Report
<1>6. CASE WorkerExits(t) BY <1>6, NothingSpawned DEF WorkerExits, Ended
<1>7. CASE CalcEnds(t) BY <1>7, NothingSpawned DEF CalcEnds
<1> QED BY <1>1, <1>2, <1>3, <1>4, <1>5, <1>6, <1>7 DEF WorkerStep

\* And users, crashes and signals.
LEMMA UserProcesses ==
  ASSUME QueueInv, Environment \/ \E s \in signals : SendSignal(s)
  PROVE  ProcessRules /\ \A t \in Tokens : Supervised(t)' => Supervised(t)
<1> USE DEF QueueInv, QueueTypeOK, HasProcess, Alive, Supervised
<1>1. CASE UNCHANGED worker
  BY <1>1, NothingSpawned
<1>2. CASE UserStep \/ Boot \/ \E s \in signals : KillerDies(s)
  BY <1>1, <1>2 DEF UserStep, Submit, Kill, PauseQueue, ResumeQueue, EditRecord, qVars,
     Boot, KillerDies
<1>3. CASE Exit
  BY <1>3, NothingSpawned DEF Exit
<1>4. ASSUME NEW t \in Tokens, WorkerDies(t)
      PROVE  ProcessRules /\ \A s \in Tokens : Supervised(s)' => Supervised(s)
  BY <1>4, NothingSpawned DEF WorkerDies, Ended
<1>5. ASSUME NEW s \in signals, SendSignal(s)
      PROVE  ProcessRules /\ \A t \in Tokens : Supervised(t)' => Supervised(t)
  BY <1>5, SignalSpawnsNothing, NothingSpawned DEF SendSignal
<1> QED BY <1>2, <1>3, <1>4, <1>5 DEF Environment

\* A record that becomes RUNNING carries the identity of the claim, or was
\* imported and carries no claim.
Promotions ==
  \A k \in Jobs : jobs'[k].status = "running" =>
    \/ jobs[k].status = "running"
    \/ jobs'[k].token = None
    \/ jobs'[k].ident = jobs'[k].token

\* A RUNNING record ends as cancelled, if it ends.
Spared(k) == jobs[k].status = "running" => jobs'[k].status \in {"running", "cancelled"}

\* update_status to another status than RUNNING promotes nothing.
LEMMA NoPromotion ==
  ASSUME TypeOK, NEW j \in Jobs, NEW desired \in Statuses \ {"running"},
         NEW expected, NEW expPid, NEW token,
         TryUpdate(j, desired, expected, expPid, token)
  PROVE  /\ Promotions
         /\ \A k \in Jobs \ {j} : Spared(k)
         /\ "running" \notin expected => Spared(j)
         /\ ~CanUpdate(j, desired, expected, expPid, token) => Spared(j)
<1>1. CASE CanUpdate(j, desired, expected, expPid, token)
  <2>1. /\ jobs' = [jobs EXCEPT ![j] = Updated(jobs[j], desired, None, None)]
        /\ jobs[j] \in Record /\ jobs[j].status \in expected
    BY <1>1 DEF TryUpdate, UpdateStatus, CanUpdate, TypeOK
  <2>2. Updated(jobs[j], desired, None, None).status = desired
    BY <2>1 DEF Updated, Released, Record
  <2> QED BY <1>1, <2>1, <2>2 DEF Promotions, Spared, TypeOK
<1>2. CASE ~CanUpdate(j, desired, expected, expPid, token)
  BY <1>2 DEF TryUpdate, jmVars, Promotions, Spared
<1> QED BY <1>1, <1>2

\* The statuses that are not a promotion.
LEMMA OtherThanRunning ==
  {"failed", "done", "not_converged", "cancelled", "pending", "paused"}
    \subseteq Statuses \ {"running"}
BY DEF Statuses, Terminal, ActiveStatuses

\* A step about another process than t's spares the record t is in charge of.
Safe(t) == Supervised(t) /\ Supervised(t)' /\ HandshakeOk(t) => Spared(worker[t].job)

\* The reaper and the probe go by pid and find the worker alive; the other
\* calls of the scheduler expect another status.
LEMMA SchedulerSpares ==
  ASSUME QueueInv, OnceInv, SupervisedInv, SchedStep
  PROVE  Promotions /\ \A t \in Tokens : Safe(t)
<1>0. /\ TypeOK
      /\ \A t \in Tokens : Supervised(t) =>
           worker[t].job \in Jobs /\ worker[t].pid \in Pids /\ HasProcess(t)
  BY DEF QueueInv, QueueTypeOK, Supervised, Alive, HasProcess
<1>1. CASE UNCHANGED jmVars
  BY <1>1 DEF jmVars, Promotions, Safe, Spared
<1>2. CASE RecoverClaims
  <2>1. PICK S \in SUBSET Jobs : RecoverStaleClaims(S)
    BY <1>2 DEF RecoverClaims
  <2>2. ASSUME NEW k \in S
        PROVE  jobs'[k].status = "pending" /\ jobs[k].status = "claimed"
    BY <1>0, <2>1, <2>2 DEF RecoverStaleClaims, Released, TypeOK, Record
  <2>3. \A k \in Jobs \ S : jobs'[k] = jobs[k]
    BY <2>1 DEF RecoverStaleClaims
  <2> QED BY <1>0, <2>2, <2>3 DEF Promotions, Safe, Spared
<1>3. ASSUME NEW z \in Tokens, ReapChild(z)
      PROVE  Promotions /\ \A t \in Tokens : Safe(t)
  <2>1. CASE WithPid(worker[z].pid) = {}
    BY <1>1, <1>3, <2>1 DEF ReapChild
  <2>2. ASSUME NEW j \in WithPid(worker[z].pid),
               TryUpdate(j, "failed", {"running"}, worker[z].pid, None)
        PROVE  Promotions /\ \A t \in Tokens : Safe(t)
    <3>1. j \in Jobs /\ jobs[j].pid = worker[z].pid
      BY DEF WithPid
    <3>2. Promotions /\ \A k \in Jobs \ {j} : Spared(k)
      BY <1>0, <2>2, <3>1, OtherThanRunning, NoPromotion
    <3>3. ASSUME NEW t \in Tokens, Supervised(t), HandshakeOk(t), worker[t].job = j
          PROVE  FALSE
      <4>1. worker[t].pid = worker[z].pid
        BY <3>1, <3>3 DEF HandshakeOk, OwnRecord
      <4>2. HasProcess(z) /\ worker[z].pc = "zombie"
        BY <1>3 DEF ReapChild, Zombies, HasProcess
      <4>3. t = z
        BY <1>0, <3>3, <4>1, <4>2 DEF SupervisedInv, PidsApart
      <4> QED BY <3>3, <4>2, <4>3 DEF Supervised
    <3> QED BY <1>0, <3>2, <3>3 DEF Safe
  <2> QED BY <1>3, <2>1, <2>2 DEF ReapChild
<1>4. ASSUME NEW j \in Jobs, Probe(j)
      PROVE  Promotions /\ \A t \in Tokens : Safe(t)
  <2>1. CASE Matches(jobs[j])
    BY <1>1, <1>4, <2>1 DEF Probe
  <2>2. CASE ~Matches(jobs[j])
    <3>1. TryUpdate(j, "failed", {"running"}, jobs[j].pid, None)
      BY <1>4, <2>2 DEF Probe
    <3>2. Promotions /\ \A k \in Jobs \ {j} : Spared(k)
      BY <1>0, <3>1, OtherThanRunning, NoPromotion
    <3>3. ASSUME NEW t \in Tokens, Supervised(t), HandshakeOk(t), worker[t].job = j
          PROVE  FALSE
      <4>1. /\ jobs[j].pid = worker[t].pid /\ jobs[j].token = t
            /\ jobs[j].status = "running"
        BY <3>3 DEF HandshakeOk, OwnRecord
      <4>2. jobs[j].ident = t
        BY <4>1, NoneIsFresh DEF SupervisedInv, IdentIsClaim
      <4>3. jobs[j].pid # None
        BY <1>0, <3>3, <4>1, NoneIsFresh
      <4> QED BY <1>0, <2>2, <3>3, <4>1, <4>2, <4>3 DEF Matches
    <3> QED BY <1>0, <3>2, <3>3 DEF Safe
  <2> QED BY <2>1, <2>2
<1>5. CASE Scan
  <2>1. PICK j \in Jobs : ScanFails(j) \/ ScanClaims(j) \/ ScanSkips(j)
    BY <1>5 DEF Scan, Oldest, QueueInv, QueueTypeOK
  <2>2. CASE ScanFails(j)
    <3>1. Promotions /\ \A k \in Jobs : Spared(k)
      BY <1>0, <2>2, OtherThanRunning, NoPromotion DEF ScanFails
    <3> QED BY <1>0, <3>1 DEF Safe
  <2>3. CASE ScanClaims(j)
    <3>1. /\ \A k \in Jobs \ {j} : jobs'[k] = jobs[k]
          /\ jobs'[j].status = "claimed" /\ jobs[j].status = "pending"
      BY <1>0, <2>3 DEF ScanClaims, ClaimJob, Claimable, TypeOK, Record
    <3> QED BY <1>0, <3>1 DEF Promotions, Safe, Spared
  <2>4. CASE ScanSkips(j)
    BY <1>1, <2>4 DEF ScanSkips
  <2> QED BY <2>1, <2>2, <2>3, <2>4
<1>6. CASE SpawnFails \/ Abandon
  <2>1. sched.job \in Jobs
    BY <1>6 DEF SpawnFails, Abandon, At, QueueInv, Launching
  <2>2. TryUpdate(sched.job, "failed", {"claimed"}, None, sched.token)
    BY <1>6 DEF SpawnFails, Abandon
  <2>3. Promotions /\ \A k \in Jobs : Spared(k)
    BY <1>0, <2>1, <2>2, OtherThanRunning, NoPromotion
  <2> QED BY <1>0, <2>3 DEF Safe
<1>7. CASE Promote
  <2>1. /\ sched.job \in Jobs /\ sched.token \in Tokens
        /\ worker[sched.token].pid \in Pids
    BY <1>7 DEF Promote, At, QueueInv, Launching
  <2>2. PICK j \in Jobs : j = sched.job
    BY <2>1
  <2>3. /\ jobs' = [jobs EXCEPT ![j] = Updated(jobs[j], "running",
                                               worker[sched.token].pid, sched.token)]
        /\ jobs[j] \in Record /\ jobs[j].status = "claimed"
        /\ jobs[j].token = sched.token
    BY <1>0, <1>7, <2>1, <2>2, NoneIsFresh
       DEF Promote, MarkRunning, UpdateStatus, CanUpdate, TypeOK
  <2>4. /\ jobs'[j].status = "running" /\ jobs'[j].token = sched.token
        /\ jobs'[j].ident = sched.token
    BY <1>0, <2>1, <2>3, NoneIsFresh DEF Updated, Record, TypeOK
  <2>5. \A k \in Jobs \ {j} : jobs'[k] = jobs[k]
    BY <1>0, <2>3 DEF TypeOK
  <2> QED BY <1>0, <2>3, <2>4, <2>5 DEF Promotions, Safe, Spared
<1>8. CASE ReapDone \/ Gate \/ Loop \/ ScanDone \/ SpawnWorker \/ PromoteFails
  BY <1>1, <1>8 DEF ReapDone, Gate, Loop, ScanDone, SpawnWorker, PromoteFails
<1> QED BY <1>2, <1>3, <1>4, <1>5, <1>6, <1>7, <1>8 DEF SchedStep

\* A worker presents its own token.
LEMMA WorkerSpares ==
  ASSUME QueueInv, OnceInv, SupervisedInv, NEW w \in Tokens,
         WorkerStep(w) \/ CalcEnds(w)
  PROVE  Promotions /\ \A t \in Tokens : Safe(t)
<1>0. /\ TypeOK
      /\ \A t \in Tokens : worker[t].pc \in Alive => worker[t].job \in Jobs
      /\ \A t \in Tokens : Supervised(t) => worker[t].pc \in Alive
  BY DEF QueueInv, QueueTypeOK, Supervised, Alive
<1>1. CASE UNCHANGED jmVars
  BY <1>1 DEF jmVars, Promotions, Safe, Spared
<1>2. ASSUME worker[w].pc \in Alive, ~Supervised(w) \/ ~Supervised(w)',
             NEW desired \in Statuses \ {"running"}, NEW expected, NEW expPid,
             TryUpdate(worker[w].job, desired, expected, expPid, w)
      PROVE  Promotions /\ \A t \in Tokens : Safe(t)
  <2>1. PICK j \in Jobs : j = worker[w].job
    BY <1>0, <1>2
  <2>2. /\ Promotions /\ \A k \in Jobs \ {j} : Spared(k)
        /\ ~CanUpdate(j, desired, expected, expPid, w) => Spared(j)
    BY <1>0, <1>2, <2>1, NoPromotion
  <2>3. ASSUME NEW t \in Tokens, Supervised(t), Supervised(t)', HandshakeOk(t),
               worker[t].job = j
        PROVE  Spared(j)
    <3>1. t # w /\ jobs[j].token = t
      BY <1>2, <2>3 DEF HandshakeOk, OwnRecord
    <3>2. ~CanUpdate(j, desired, expected, expPid, w)
      BY <3>1, NoneIsFresh DEF CanUpdate
    <3> QED BY <2>2, <3>2
  <2> QED BY <1>0, <2>2, <2>3 DEF Safe
<1>3. CASE HandshakeTimeout(w)
  BY <1>2, <1>3, OtherThanRunning DEF HandshakeTimeout, Alive, Supervised
<1>4. CASE StartFails(w)
  <2>1. worker'[w].pc = "exiting"
    BY <1>4 DEF StartFails, WorkerGoto, QueueInv, QueueTypeOK
  <2> QED BY <1>2, <1>4, <2>1, OtherThanRunning DEF StartFails, Alive, Supervised
<1>5. CASE Report(w)
  <2>1. worker'[w].pc = "exiting"
    BY <1>5 DEF Report, WorkerGoto, QueueInv, QueueTypeOK
  <2>2. StatusOf(calc[w]) \in {"failed", "done", "not_converged", "cancelled"}
    BY <1>5 DEF Report, StatusOf, ExitCodes
  <2> QED BY <1>2, <1>5, <2>1, <2>2, OtherThanRunning DEF Report, Alive, Supervised
<1>6. CASE Handshake(w) \/ StartCalc(w) \/ WorkerExits(w) \/ CalcEnds(w)
  BY <1>1, <1>6 DEF Handshake, StartCalc, WorkerExits, CalcEnds
<1> QED BY <1>3, <1>4, <1>5, <1>6 DEF WorkerStep

\* A user can only cancel it.
LEMMA UserSpares ==
  ASSUME QueueInv, Environment \/ \E s \in signals : SendSignal(s)
  PROVE  Promotions /\ \A k \in Jobs : Spared(k)
<1>0. TypeOK
  BY DEF QueueInv, QueueTypeOK
<1>1. CASE UNCHANGED jmVars
  BY <1>1 DEF jmVars, Promotions, Spared
<1>2. CASE Submit
  <2> DEFINE fresh == CHOOSE j \in FreshIds : TRUE
  <2>1. fresh \in Jobs /\ jobs[fresh].status = "absent"
    BY <1>2 DEF Submit, FreshIds, Exists
  <2>2. /\ \A k \in Jobs \ {fresh} : jobs'[k] = jobs[k]
        /\ jobs'[fresh].status = "pending"
    BY <1>0, <1>2, <2>1 DEF Submit, Enqueue, TypeOK, NoRecord
  <2> HIDE DEF fresh
  <2> QED BY <2>1, <2>2 DEF Promotions, Spared
<1>3. ASSUME NEW j \in Jobs, Kill(j) PROVE Promotions /\ \A k \in Jobs : Spared(k)
  <2>1. jobs' = [jobs EXCEPT ![j].status = "cancelled"]
    BY <1>3 DEF Kill, CancelJob
  <2> QED BY <1>0, <2>1 DEF Promotions, Spared, TypeOK, Record
<1>4. ASSUME NEW j \in Jobs, PausePending(j) \/ ResumePaused(j)
      PROVE  Promotions /\ \A k \in Jobs : Spared(k)
  <2>1. \/ TryUpdate(j, "paused", {"pending"}, None, None)
        \/ TryUpdate(j, "pending", {"paused"}, None, None)
    BY <1>4 DEF PausePending, ResumePaused, TryUpdate, UpdateStatus
  <2> QED BY <1>0, <2>1, OtherThanRunning, NoPromotion
<1>5. ASSUME NEW j \in Jobs, DeleteJob(j)
      PROVE  Promotions /\ \A k \in Jobs : Spared(k)
  BY <1>0, <1>5 DEF DeleteJob, Deletable, Active, ActiveStatuses, Promotions, Spared,
     NoRecord, TypeOK
<1>6. CASE Clean
  BY <1>6 DEF Clean, Promotions, Spared, NoRecord, Terminal
<1>7. ASSUME NEW j \in Jobs, CallMigrate(j)
      PROVE  Promotions /\ \A k \in Jobs : Spared(k)
  <2>1. PICK r : /\ jobs' = [jobs EXCEPT ![j] = r] /\ r.token = None
                 /\ jobs[j].status = "absent"
    <3>1. ASSUME NEW status, NEW device, NEW idform, NEW pid,
                 MigrateLegacy(j, status, device, idform, pid)
          PROVE  \E r : /\ jobs' = [jobs EXCEPT ![j] = r] /\ r.token = None
                        /\ jobs[j].status = "absent"
      <4> DEFINE r == [NoRecord EXCEPT !.status = status, !.device = device,
                                       !.idform = idform, !.pid = pid]
      <4>1. r.token = None
        BY DEF NoRecord
      <4>2. jobs' = [jobs EXCEPT ![j] = r] /\ jobs[j].status = "absent"
        BY <3>1 DEF MigrateLegacy, Exists
      <4> QED BY <4>1, <4>2
    <3> QED BY <1>7, <3>1 DEF CallMigrate
  <2> QED BY <1>0, <2>1 DEF Promotions, Spared, TypeOK
<1>8. CASE EditRecord
  BY <1>4, <1>5, <1>6, <1>7, <1>8 DEF EditRecord, FreshIds
<1>9. CASE PauseQueue \/ ResumeQueue \/ Boot \/ Exit
  BY <1>1, <1>9 DEF PauseQueue, ResumeQueue, Boot, Exit
<1>10. CASE \/ \E t \in Tokens : WorkerDies(t)
            \/ \E s \in signals : KillerDies(s) \/ SendSignal(s)
  BY <1>1, <1>10 DEF WorkerDies, KillerDies, SendSignal
<1> QED BY <1>2, <1>3, <1>8, <1>9, <1>10 DEF Environment, UserStep

\* One step keeps living workers in charge of their records.
LEMMA StepKeepsSupervised ==
  ASSUME QueueInv, OnceInv, SupervisedInv, [QueueNext]_vars
  PROVE  SupervisedInv'
<1>1. CASE UNCHANGED vars
  BY <1>1 DEF vars, qVars, jmVars, SupervisedInv, PidsApart, IdentIsClaim, Supervised,
     InCharge, HandshakeOk, OwnRecord, HasProcess
<1>2. CASE QueueNext
  <2>0. TypeOK /\ [Next]_jmVars /\ IdsAreFresh
    BY StepIsCall, StepFreshIds DEF QueueInv, QueueTypeOK
  <2>1. /\ ProcessRules
        /\ \A t \in Tokens : Supervised(t)' =>
             Supervised(t) \/ (HandshakeOk(t) /\ worker[t].pc \in Alive /\ UNCHANGED jobs)
    BY <1>2, SchedulerProcesses, WorkerProcesses, UserProcesses DEF QueueNext
  <2>2. Promotions /\ \A t \in Tokens : Safe(t)
    <3>1. CASE Environment \/ \E s \in signals : SendSignal(s)
      <4>1. \A t \in Tokens : Supervised(t) => worker[t].job \in Jobs
        BY DEF QueueInv, Supervised, Alive
      <4> QED BY <3>1, <4>1, UserSpares DEF Safe
    <3> QED BY <1>2, <3>1, SchedulerSpares, WorkerSpares DEF QueueNext
  <2>3. PidsApart'
    BY <2>1 DEF ProcessRules, SupervisedInv, PidsApart
  <2>4. IdentIsClaim'
    <3> SUFFICES ASSUME NEW k \in Jobs, jobs'[k].status = "running", jobs'[k].token # None
                 PROVE  jobs'[k].ident = jobs'[k].token
      BY DEF IdentIsClaim
    <3>1. CASE jobs[k].status = "running"
      <4>1. [jobs'[k] EXCEPT !.status = "running"] = jobs[k]
        BY <2>0, <3>1, RunningStep
      <4>2. jobs'[k] \in Record
        BY <2>0, StepKeepsTypes DEF TypeOK
      <4>3. jobs'[k].ident = jobs[k].ident /\ jobs'[k].token = jobs[k].token
        BY <4>1, <4>2 DEF Record
      <4> QED BY <3>1, <4>3 DEF SupervisedInv, IdentIsClaim
    <3>2. CASE jobs[k].status # "running"
      BY <2>2, <3>2 DEF Promotions
    <3> QED BY <3>1, <3>2
  <2>5. ASSUME NEW t \in Tokens, Supervised(t)' PROVE InCharge(t)'
    <3>1. HasProcess(t) /\ HasProcess(t)'
      BY <2>1, <2>5 DEF Supervised, HasProcess, Alive
    <3>2. worker'[t].job = worker[t].job /\ worker'[t].pid = worker[t].pid
      BY <2>1, <3>1 DEF ProcessRules, HasProcess, Alive
    <3>3. PICK k \in Jobs : k = worker[t].job
      BY <2>1, <2>5 DEF QueueInv, Supervised, Alive
    <3>4. CASE ~Supervised(t)
      BY <2>1, <2>5, <3>2, <3>4 DEF InCharge, HandshakeOk, OwnRecord
    <3>5. CASE Supervised(t) /\ HandshakeOk(t)
      <4>1. jobs[k].status = "running" /\ jobs[k].pid = worker[t].pid /\ jobs[k].token = t
        BY <3>3, <3>5 DEF HandshakeOk, OwnRecord
      <4>2. jobs'[k].status \in {"running", "cancelled"}
        BY <2>2, <2>5, <3>3, <3>5, <4>1 DEF Safe, Spared
      <4>3. [jobs'[k] EXCEPT !.status = "running"] = jobs[k] /\ jobs'[k] \in Record
        BY <2>0, <4>1, RunningStep, StepKeepsTypes DEF TypeOK
      <4>4. jobs'[k].pid = jobs[k].pid /\ jobs'[k].token = jobs[k].token
        BY <4>3 DEF Record
      <4> QED BY <3>2, <3>3, <4>1, <4>2, <4>4 DEF InCharge, HandshakeOk, OwnRecord
    <3>6. CASE OwnRecord(t).status = "cancelled"
      <4>1. jobs'[k] = jobs[k] \/ jobs'[k] = NoRecord
        BY <2>0, <3>3, <3>6, TerminalStep DEF OwnRecord, Terminal
      <4> QED BY <3>2, <3>3, <3>6, <4>1 DEF InCharge, OwnRecord, NoRecord
    <3>7. CASE OwnRecord(t).status = "absent"
      BY <2>0, <3>2, <3>3, <3>7 DEF IdsAreFresh, InCharge, OwnRecord
    <3> QED BY <3>4, <3>5, <3>6, <3>7 DEF SupervisedInv, InCharge
  <2> QED BY <2>3, <2>4, <2>5 DEF SupervisedInv
<1> QED BY <1>1, <1>2

\* While the worker of a calculation lives, the record says RUNNING under its
\* claim or a user cancelled it: neither the reaper nor the probe, which go by
\* pids (_reap_stale_running), ever writes it off.
THEOREM SupervisedIsRunningHolds == QueueSpec => []SupervisedIsRunning
<1>1. QueueInit => OnceInv /\ SupervisedInv
  BY DEF QueueInit, Init, NoRecord, Down, NoWorker, OnceInv, SpawnsClaimed, Committed,
     SupervisedInv, PidsApart, IdentIsClaim, Supervised, HasProcess, Alive
<1>2. QueueInv /\ QueueInv' /\ OnceInv /\ SupervisedInv /\ [QueueNext]_vars
        => OnceInv' /\ SupervisedInv'
  BY StepKeepsOnce, StepKeepsSupervised
<1>3. SupervisedInv => SupervisedIsRunning
  BY DEF SupervisedInv, SupervisedIsRunning, Supervised, InCharge
<1> QED BY <1>1, <1>2, <1>3, QueueInvariant, PTL DEF QueueSpec
-----------------------------------------------------------------------------
(***************************************************************************)
(* KeepsContract: the queue implements JobContract.  Nothing is added to   *)
(* the state; the mapping reads the registry and the one calculation of a  *)
(* job.  What the steps need beside the invariants above: at most one      *)
(* record is claimed at a time, since a claim is resolved within its       *)
(* launch, or found by the next scheduler before it launches anything; so  *)
(* recovery gives back one job, not several.                               *)
(***************************************************************************)
Claimed(j) == jobs[j].status = "claimed"

ClaimInv ==
  /\ \A j, k \in Jobs : Claimed(j) /\ Claimed(k) => j = k
  /\ \A j \in Jobs : Claimed(j) =>
       /\ jobs[j].owner \in Owners
       /\ \/ sched.pc \in Launching /\ j = sched.job /\ jobs[j].owner = sched.boot
          \/ sched.pc = "down" /\ jobs[j].owner <= sched.boot
          \/ sched.pc = "idle" /\ jobs[j].owner < sched.boot

\* A quiet step keeps it while the scheduler stays at its claim or has none.
LEMMA QuietKeepsClaims ==
  ASSUME ClaimInv, Quiet,
         \/ UNCHANGED sched
         \/ /\ {sched.pc, sched'.pc} \subseteq Launching
            /\ UNCHANGED <<sched.job, sched.boot>>
         \/ sched.pc \notin Launching \cup {"down", "idle"}
  PROVE  ClaimInv'
<1>1. \A k \in Jobs : Claimed(k)' => jobs'[k] = jobs[k] /\ Claimed(k)
  BY DEF Quiet, Claimed, Active, ActiveStatuses
<1> QED BY <1>1 DEF ClaimInv, Claimed, Launching

\* The scheduler resolves its claim before it looks for the next job.
LEMMA SchedulerKeepsClaims ==
  ASSUME QueueInv, CapInv, ClaimInv, SchedStep PROVE ClaimInv'
<1>0. TypeOK /\ sched.boot \in Nat /\ Owners \subseteq Nat
  BY BudgetsNat, OwnersAreBoots DEF QueueInv, QueueTypeOK
<1> USE DEF At, Goto
<1>1. CASE RecoverClaims
  <2>1. PICK old \in SUBSET Jobs :
          RecoverStaleClaims({j \in Jobs : /\ jobs[j].status = "claimed"
                                           /\ jobs[j].owner # sched.boot \/ j \in old})
    BY <1>1 DEF RecoverClaims
  <2>2. \A j \in Jobs : Claimed(j) => jobs[j].owner # sched.boot
    BY <1>0, <1>1 DEF RecoverClaims, ClaimInv, Launching
  <2>3. ASSUME NEW j \in Jobs PROVE ~Claimed(j)'
    BY <1>0, <2>1, <2>2 DEF RecoverStaleClaims, Released, Claimed, TypeOK, Record
  <2> QED BY <2>3 DEF ClaimInv
<1>2. ASSUME NEW t \in Tokens, ReapChild(t) PROVE ClaimInv'
  <2>1. CASE UNCHANGED jmVars
    BY <1>2, <2>1, QuietKeepsClaims DEF ReapChild, jmVars, Quiet
  <2>2. ASSUME NEW j \in Jobs, TryUpdate(j, "failed", {"running"}, worker[t].pid, None)
        PROVE  ClaimInv'
    <3>1. Quiet
      BY <1>0, <2>2, IdleStatuses, QuietUpdate DEF Terminal
    <3> QED BY <1>2, <3>1, QuietKeepsClaims DEF ReapChild
  <2> QED BY <1>2, <2>1, <2>2 DEF ReapChild, WithPid
<1>3. ASSUME NEW j \in Jobs, Probe(j) PROVE ClaimInv'
  <2>1. Quiet
    <3>1. CASE UNCHANGED jmVars
      BY <3>1 DEF jmVars, Quiet
    <3>2. CASE TryUpdate(j, "failed", {"running"}, jobs[j].pid, None)
      BY <1>0, <3>2, IdleStatuses, QuietUpdate DEF Terminal
    <3> QED BY <1>3, <3>1, <3>2 DEF Probe
  <2> QED BY <1>3, <2>1, QuietKeepsClaims DEF Probe, Launching
<1>4. CASE ReapDone \/ Gate \/ Loop \/ ScanDone
  <2>1. Quiet /\ sched.pc \notin Launching \cup {"down", "idle"}
    BY <1>4 DEF ReapDone, Gate, Loop, ScanDone, jmVars, Quiet, Launching
  <2> QED BY <2>1, QuietKeepsClaims
<1>5. CASE SpawnWorker \/ PromoteFails
  <2>1. /\ Quiet /\ {sched.pc, sched'.pc} \subseteq Launching
        /\ UNCHANGED <<sched.job, sched.boot>>
    BY <1>5 DEF SpawnWorker, PromoteFails, jmVars, Quiet, Launching, QueueInv, QueueTypeOK
  <2> QED BY <2>1, QuietKeepsClaims
<1>6. CASE Scan
  <2>1. PICK j \in Jobs : ScanFails(j) \/ ScanClaims(j) \/ ScanSkips(j)
    BY <1>6 DEF Scan, Oldest, QueueInv, QueueTypeOK
  <2>2. sched.pc \notin Launching \cup {"down", "idle"}
    BY <1>6 DEF Scan, Launching
  <2>3. CASE ScanFails(j) \/ ScanSkips(j)
    <3>1. Quiet
      BY <1>0, <2>3, IdleStatuses, QuietUpdate DEF ScanFails, ScanSkips, Terminal, jmVars, Quiet
    <3> QED BY <2>2, <3>1, QuietKeepsClaims
  <2>4. CASE ScanClaims(j)
    <3>1. /\ sched'.pc = "spawn" /\ sched'.job = j /\ sched'.boot = sched.boot
      BY <2>4 DEF ScanClaims, QueueInv, QueueTypeOK
    <3>2. /\ \A k \in Jobs \ {j} : jobs'[k] = jobs[k]
          /\ jobs'[j].owner = sched.boot
      BY <1>0, <2>4 DEF ScanClaims, ClaimJob, TypeOK, Record
    <3>3. sched.boot \in Owners
      BY <1>6 DEF Scan, Up, QueueInv
    <3>4. \A k \in Jobs : ~Claimed(k)
      BY <2>2 DEF ClaimInv
    <3>5. \A k \in Jobs : Claimed(k)' => k = j
      BY <3>2, <3>4 DEF Claimed
    <3> QED BY <3>1, <3>2, <3>3, <3>5 DEF ClaimInv, Launching
  <2> QED BY <2>1, <2>3, <2>4
<1>7. ASSUME sched.pc \in Launching,
             \A k \in Jobs \ {sched.job} :
               jobs'[k] = jobs[k] \/ jobs'[k].status # "claimed",
             jobs'[sched.job].status # "claimed"
      PROVE  ClaimInv'
  <2>1. \A k \in Jobs : ~Claimed(k)'
    BY <1>7 DEF ClaimInv, Claimed, Launching
  <2> QED BY <2>1 DEF ClaimInv
<1>8. CASE SpawnFails \/ Abandon
  <2>1. Quiet /\ jobs'[sched.job].status \notin ActiveStatuses
    BY <1>8, UndoneLaunch DEF SpawnFails, Abandon, Launching
  <2> QED BY <1>7, <1>8, <2>1 DEF SpawnFails, Abandon, Launching, Quiet, Active,
             ActiveStatuses
<1>9. CASE Promote
  <2>1. sched.job \in Jobs
    BY <1>9 DEF Promote, QueueInv, Launching
  <2>2. jobs' = [jobs EXCEPT ![sched.job] = Updated(jobs[sched.job], "running",
                                worker[sched.token].pid, sched.token)]
    BY <1>9, <2>1 DEF Promote, MarkRunning, UpdateStatus
  <2>3. jobs'[sched.job].status = "running"
    BY <1>0, <2>1, <2>2 DEF Updated, Record, TypeOK
  <2>4. \A k \in Jobs \ {sched.job} : jobs'[k] = jobs[k]
    BY <1>0, <2>2 DEF TypeOK
  <2> QED BY <1>7, <1>9, <2>3, <2>4 DEF Promote, Launching
<1> QED BY <1>1, <1>2, <1>3, <1>4, <1>5, <1>6, <1>8, <1>9 DEF SchedStep

\* One step keeps claims apart.
LEMMA StepKeepsClaims ==
  ASSUME QueueInv, CapInv, ClaimInv, [QueueNext]_vars, "migrate" \notin Commands
  PROVE  ClaimInv'
<1>0. sched.boot \in Nat /\ Owners \subseteq Nat
  BY BudgetsNat, OwnersAreBoots DEF QueueInv, QueueTypeOK
<1>1. CASE SchedStep
  BY <1>1, SchedulerKeepsClaims
<1>2. ASSUME NEW t \in Tokens, WorkerStep(t) \/ CalcEnds(t) PROVE ClaimInv'
  BY <1>2, WorkerIsQuiet, QuietKeepsClaims
<1>3. CASE Boot \/ Exit
  <2>1. /\ UNCHANGED jobs
        /\ \/ sched.pc = "down" /\ sched'.pc = "idle" /\ sched'.boot = sched.boot + 1
           \/ sched'.pc = "down" /\ sched'.boot = sched.boot
    BY <1>3 DEF Boot, Exit, At, Down, jmVars
  <2>2. \A k \in Jobs : Claimed(k)' = Claimed(k)
    BY <2>1 DEF Claimed
  <2>3. ASSUME NEW k \in Jobs, Claimed(k)
        PROVE  /\ jobs[k].owner \in Owners /\ jobs'[k].owner = jobs[k].owner
               /\ sched.pc = "down" /\ sched'.pc = "idle" => jobs[k].owner < sched'.boot
               /\ sched'.pc = "down" => jobs[k].owner <= sched'.boot
    <3> DEFINE o == jobs[k].owner
               b == sched.boot
    <3>1. o \in Owners /\ (o = b \/ o <= b \/ o < b)
      BY <2>3 DEF ClaimInv
    <3>2. o \in Nat /\ b \in Nat
      BY <1>0, <3>1
    <3>3. o <= b
      <4> HIDE DEF o, b
      <4> QED BY <3>1, <3>2
    <3>4. o < b + 1
      <4> HIDE DEF o, b
      <4> QED BY <3>2, <3>3
    <3> QED BY <2>1, <3>1, <3>3, <3>4
  <2> QED BY <2>1, <2>2, <2>3 DEF ClaimInv
<1>4. CASE UserStep \/ \E t \in Tokens : WorkerDies(t)
  <2>1. UNCHANGED sched
    BY <1>4 DEF UserStep, Submit, Kill, PauseQueue, ResumeQueue, EditRecord, WorkerDies, qVars
  <2> QED BY <1>4, <2>1, UserIsQuiet, QuietKeepsClaims DEF Environment
<1>5. CASE \E s \in signals : KillerDies(s) \/ SendSignal(s)
  BY <1>5, QuietKeepsClaims DEF KillerDies, SendSignal, jmVars, Quiet
<1>6. CASE UNCHANGED vars
  BY <1>6, QuietKeepsClaims DEF vars, qVars, jmVars, Quiet
<1> QED BY <1>1, <1>2, <1>3, <1>4, <1>5, <1>6 DEF QueueNext, Environment

\* The mapping: what the registry shows, and the one calculation of each job.
Phases == [j \in Jobs |-> Phase(j)]
Runs == [j \in Jobs |-> Run(j)]

\* The steps of the abstract specification under the mapping.
ContractStep == [Contract!Next]_<<Phases, Runs>>

\* A change of what is shown of job j that the contract allows.
Allowed(j) ==
  \/ Phase(j)' = Phase(j)
  \/ Phase(j) = "absent" /\ Run(j) = "no" /\ Phase(j)' = "waiting"
  \/ {Phase(j), Phase(j)'} \subseteq {"waiting", "active"} /\ Run(j) = "no"
  \/ Phase(j) \in {"waiting", "active"} /\ Phase(j)' \in {"failed", "cancelled"}
  \/ /\ Phase(j) = "active"
     /\ Run(j) \in {"success", "not_converged"}
     /\ Phase(j)' = IF Run(j) = "success" THEN "done" ELSE "not_converged"

\* Such a change, alone, is a step of the contract.
LEMMA AllowedStep ==
  ASSUME NEW j \in Jobs, Allowed(j), Runs' = Runs,
         \A k \in Jobs \ {j} : Phase(k)' = Phase(k)
  PROVE  ContractStep
<1>1. Phases' = [Phases EXCEPT ![j] = Phase(j)']
  BY DEF Phases
<1>2. Phases[j] = Phase(j) /\ Runs[j] = Run(j)
  BY DEF Phases, Runs
<1>3. CASE Phase(j)' = Phase(j)
  <2>1. Phases' = Phases
    BY <1>1, <1>2, <1>3 DEF Phases
  <2> QED BY <2>1 DEF ContractStep
<1>4. ASSUME NEW p, Phase(j)' = p PROVE Contract!Show(j, p)
  BY <1>1, <1>4 DEF Contract!Show, Phases, Runs
<1>5. CASE Phase(j) = "absent" /\ Run(j) = "no" /\ Phase(j)' = "waiting"
  <2>1. Contract!Submit(j)
    BY <1>2, <1>4, <1>5 DEF Contract!Submit, Phases, Runs
  <2> QED BY <2>1 DEF ContractStep, Contract!Next
<1>6. CASE /\ {Phase(j), Phase(j)'} \subseteq {"waiting", "active"}
           /\ Run(j) = "no" /\ Phase(j)' # Phase(j)
  <2>1. Contract!Pick(j) \/ Contract!GiveBack(j)
    BY <1>2, <1>4, <1>6 DEF Contract!Pick, Contract!GiveBack, Phases, Runs
  <2> QED BY <2>1 DEF ContractStep, Contract!Next
<1>7. CASE Phase(j) \in {"waiting", "active"} /\ Phase(j)' \in {"failed", "cancelled"}
  <2>1. Contract!Fail(j) \/ Contract!Cancel(j)
    BY <1>2, <1>4, <1>7 DEF Contract!Fail, Contract!Cancel, Phases
  <2> QED BY <2>1 DEF ContractStep, Contract!Next
<1>8. CASE /\ Phase(j) = "active"
           /\ Run(j) \in {"success", "not_converged"}
           /\ Phase(j)' = IF Run(j) = "success" THEN "done" ELSE "not_converged"
  <2>1. Contract!Settle(j)
    BY <1>2, <1>4, <1>8 DEF Contract!Settle, Phases, Runs
  <2> QED BY <2>1 DEF ContractStep, Contract!Next
<1> QED BY <1>3, <1>5, <1>6, <1>7, <1>8 DEF Allowed

\* So is the removal of records that are not active.
LEMMA RemovalStep ==
  ASSUME NEW S \in SUBSET Jobs, \A k \in S : Phase(k) # "active",
         \A k \in Jobs : Phase(k)' = IF k \in S THEN "absent" ELSE Phase(k),
         Runs' = Runs
  PROVE  ContractStep
<1>1. S \in SUBSET {j \in Jobs : Phases[j] # "active"}
  BY DEF Phases
<1>2. Phases' = [j \in Jobs |-> IF j \in S THEN "absent" ELSE Phases[j]]
  BY DEF Phases
<1>3. Contract!Remove
  BY <1>1, <1>2 DEF Contract!Remove, Phases, Runs
<1> QED BY <1>3 DEF ContractStep, Contract!Next

\* The one calculation of a job, and a job without one.
RunsAreCalcs ==
  \A j \in Jobs :
    /\ (\A t \in Tokens : worker[t].job = j => calc[t] = "none") => Run(j) = "no"
    /\ \A t \in Tokens : worker[t].job = j /\ calc[t] # "none" =>
         Run(j) = IF calc[t] \in CalcLive THEN "live" ELSE calc[t]

\* At most one worker of a job has started it.
LEMMA RunOfJob == OnceInv => RunsAreCalcs
<1> SUFFICES ASSUME OnceInv, NEW j \in Jobs
             PROVE  /\ (\A t \in Tokens : worker[t].job = j => calc[t] = "none")
                         => Run(j) = "no"
                    /\ \A t \in Tokens : worker[t].job = j /\ calc[t] # "none" =>
                         Run(j) = IF calc[t] \in CalcLive THEN "live" ELSE calc[t]
  BY DEF RunsAreCalcs
<1>1. ASSUME \A t \in Tokens : worker[t].job = j => calc[t] = "none"
      PROVE  Run(j) = "no"
  BY <1>1 DEF Run, Started
<1>2. ASSUME NEW t \in Tokens, worker[t].job = j, calc[t] # "none"
      PROVE  Run(j) = IF calc[t] \in CalcLive THEN "live" ELSE calc[t]
  <2>1. t \in Started(j)
    BY <1>2 DEF Started
  <2>2. \A s \in Started(j) : s = t
    BY <1>2 DEF Started, OnceInv, Committed
  <2>3. (CHOOSE s \in Started(j) : TRUE) = t
    BY <2>1, <2>2
  <2> QED BY <2>1, <2>3 DEF Run
<1> QED BY <1>1, <1>2

\* Runs change only with the calculations.
RunRules ==
  \A t \in Tokens :
    \/ calc[t] = "none" /\ calc'[t] = "none"
    \/ /\ calc[t] # "none" /\ calc'[t] # "none"
       /\ worker'[t].job = worker[t].job
       /\ calc'[t] = calc[t] \/ {calc[t], calc'[t]} \subseteq CalcLive

\* Under these rules no run changes.
LEMMA RunsStay == ASSUME OnceInv, OnceInv', RunRules PROVE Runs' = Runs
<1>1. RunsAreCalcs /\ RunsAreCalcs'
  BY RunOfJob, PTL
<1>2. ASSUME NEW j \in Jobs PROVE Run(j)' = Run(j)
  <2>1. CASE \A t \in Tokens : worker[t].job = j => calc[t] = "none"
    <3>1. \A t \in Tokens : worker'[t].job = j => calc'[t] = "none"
      BY <2>1 DEF RunRules
    <3>2. Run(j)' = "no"
      BY <1>1, <3>1 DEF RunsAreCalcs
    <3>3. Run(j) = "no"
      BY <1>1, <2>1 DEF RunsAreCalcs
    <3> QED BY <3>2, <3>3
  <2>2. ASSUME NEW t \in Tokens, worker[t].job = j, calc[t] # "none"
        PROVE  Run(j)' = Run(j)
    <3>1. /\ worker'[t].job = j /\ calc'[t] # "none"
          /\ calc'[t] = calc[t] \/ {calc[t], calc'[t]} \subseteq CalcLive
      BY <2>2 DEF RunRules
    <3>2. Run(j)' = IF calc'[t] \in CalcLive THEN "live" ELSE calc'[t]
      <4>1. CalcLive' = CalcLive
        BY DEF CalcLive
      <4> QED BY <1>1, <3>1, <4>1 DEF RunsAreCalcs
    <3>3. Run(j) = IF calc[t] \in CalcLive THEN "live" ELSE calc[t]
      BY <1>1, <2>2 DEF RunsAreCalcs
    <3> QED BY <3>1, <3>2, <3>3
  <2> QED BY <2>1, <2>2
<1> QED BY <1>2 DEF Runs

\* The two steps that change the run of a job change no other run.
LEMMA OtherRunsStay ==
  ASSUME OnceInv, OnceInv', NEW t \in Tokens,
         \A s \in Tokens : worker'[s].job = worker[s].job,
         \A s \in Tokens \ {t} : calc'[s] = calc[s],
         calc'[t] # "none"
  PROVE  /\ \A k \in Jobs : k # worker[t].job => Run(k)' = Run(k)
         /\ \A j \in Jobs : worker[t].job = j =>
              Run(j)' = IF calc'[t] \in CalcLive THEN "live" ELSE calc'[t]
<1>1. RunsAreCalcs /\ RunsAreCalcs'
  BY RunOfJob, PTL
<1>2. CalcLive' = CalcLive
  BY DEF CalcLive
<1>3. ASSUME NEW k \in Jobs, k # worker[t].job PROVE Run(k)' = Run(k)
  <2>1. CASE \A s \in Tokens : worker[s].job = k => calc[s] = "none"
    <3>1. \A s \in Tokens : worker'[s].job = k => calc'[s] = "none"
      BY <1>3, <2>1
    <3>2. Run(k)' = "no"
      BY <1>1, <3>1 DEF RunsAreCalcs
    <3>3. Run(k) = "no"
      BY <1>1, <2>1 DEF RunsAreCalcs
    <3> QED BY <3>2, <3>3
  <2>2. ASSUME NEW s \in Tokens, worker[s].job = k, calc[s] # "none"
        PROVE  Run(k)' = Run(k)
    <3>1. worker'[s].job = k /\ calc'[s] = calc[s]
      BY <1>3, <2>2
    <3>2. Run(k)' = IF calc'[s] \in CalcLive THEN "live" ELSE calc'[s]
      BY <1>1, <1>2, <2>2, <3>1 DEF RunsAreCalcs
    <3>3. Run(k) = IF calc[s] \in CalcLive THEN "live" ELSE calc[s]
      BY <1>1, <2>2 DEF RunsAreCalcs
    <3> QED BY <3>1, <3>2, <3>3
  <2> QED BY <2>1, <2>2
<1>4. ASSUME NEW j \in Jobs, worker[t].job = j
      PROVE  Run(j)' = IF calc'[t] \in CalcLive THEN "live" ELSE calc'[t]
  BY <1>1, <1>2, <1>4 DEF RunsAreCalcs
<1> QED BY <1>3, <1>4

\* The start of a calculation is a step of the contract: its worker passed the
\* handshake, and no other worker of the job did.
LEMMA StartRefines ==
  ASSUME QueueInv, OnceInv, OnceInv', SupervisedInv, NEW t \in Tokens, StartCalc(t)
  PROVE  ContractStep
<1>1. PICK j \in Jobs : j = worker[t].job
  BY DEF StartCalc, QueueInv, Alive
<1>2. /\ calc' = [calc EXCEPT ![t] = "run"] /\ UNCHANGED jobs
      /\ \A s \in Tokens : worker'[s].job = worker[s].job
      /\ worker[t].pc = "ready"
  BY DEF StartCalc, WorkerGoto, jmVars, QueueInv, QueueTypeOK
<1>3. /\ \A s \in Tokens \ {t} : calc'[s] = calc[s]
      /\ calc'[t] = "run"
  BY <1>2 DEF QueueInv, QueueTypeOK
<1>4. ASSUME NEW s \in Tokens, worker[s].job = j PROVE calc[s] = "none"
  BY <1>1, <1>2, <1>4 DEF OnceInv, Committed, Early
<1>5. Run(j) = "no"
  BY <1>4, RunOfJob DEF RunsAreCalcs
<1>6. /\ \A k \in Jobs : k # j => Run(k)' = Run(k)
      /\ Run(j)' = "live"
  BY <1>1, <1>2, <1>3, OtherRunsStay DEF CalcLive
<1>7. Phase(j) \in {"active", "cancelled", "absent"}
  BY <1>1, <1>2 DEF SupervisedInv, Supervised, InCharge, HandshakeOk, OwnRecord, Phase,
     Active, ActiveStatuses
<1>8. Phases' = Phases
  BY <1>2 DEF Phases, Phase, Active
<1>9. Runs' = [Runs EXCEPT ![j] = "live"]
  BY <1>6 DEF Runs
<1>10. Contract!Start(j)
  BY <1>5, <1>7, <1>8, <1>9 DEF Contract!Start, Phases, Runs
<1> QED BY <1>10 DEF ContractStep, Contract!Next

\* Its end is one.
LEMMA FinishRefines ==
  ASSUME QueueInv, OnceInv, OnceInv', NEW t \in Tokens, CalcEnds(t)
  PROVE  ContractStep
<1>1. PICK code \in ExitCodes : calc' = [calc EXCEPT ![t] = code]
  BY DEF CalcEnds, ExitCodes
<1>2. /\ calc[t] \in CalcLive /\ UNCHANGED <<jobs, worker>>
  BY DEF CalcEnds, jmVars
<1>3. PICK j \in Jobs : j = worker[t].job
  BY <1>2 DEF OnceInv, Committed, CalcLive
<1>4. /\ \A s \in Tokens \ {t} : calc'[s] = calc[s]
      /\ calc'[t] = code
  BY <1>1 DEF QueueInv, QueueTypeOK
<1>5. Run(j) = "live"
  BY <1>2, <1>3, RunOfJob DEF CalcLive, RunsAreCalcs
<1>6. /\ \A k \in Jobs : k # j => Run(k)' = Run(k)
      /\ Run(j)' = code
  BY <1>2, <1>3, <1>4, OtherRunsStay DEF CalcLive, ExitCodes
<1>7. Phases' = Phases
  BY <1>2 DEF Phases, Phase, Active
<1>8. Runs' = [Runs EXCEPT ![j] = code]
  BY <1>6 DEF Runs
<1>9. Contract!Finish(j)
  BY <1>5, <1>7, <1>8 DEF Contract!Finish, Contract!Codes, ExitCodes, Phases, Runs
<1> QED BY <1>9 DEF ContractStep, Contract!Next

\* Every other step leaves the runs as they are.
LEMMA OtherStepsKeepRuns ==
  ASSUME QueueInv, OnceInv, QueueNext,
         \A t \in Tokens : ~StartCalc(t) /\ ~CalcEnds(t)
  PROVE  RunRules
<1>0. calc \in [Tokens -> {"none"} \cup CalcLive \cup ExitCodes]
  BY DEF QueueInv, QueueTypeOK
<1>1. LaunchRules
  BY SchedulerLaunches, WorkerLaunches, UserLaunches DEF QueueNext
<1>2. \A t \in Tokens : calc[t] # "none" => worker'[t].job = worker[t].job
  BY <1>1 DEF LaunchRules, OnceInv, Early
<1>3. ASSUME NEW p, SignalGroup(p) PROVE RunRules
  <2>1. \A t \in Tokens : \/ calc'[t] = calc[t]
                          \/ calc[t] = "run" /\ calc'[t] = "stopping"
    BY <1>3 DEF SignalGroup
  <2> QED BY <1>2, <2>1 DEF RunRules, CalcLive
<1>4. CASE UNCHANGED calc
  BY <1>2, <1>4 DEF RunRules
<1>5. CASE SchedStep
  BY <1>3, <1>4, <1>5 DEF SchedStep, RecoverClaims, ReapChild, ReapDone, Probe, Gate,
     Loop, Scan, ScanDone, SpawnWorker, SpawnFails, Promote, PromoteFails, Abandon
<1>6. ASSUME NEW t \in Tokens, WorkerStep(t) PROVE RunRules
  BY <1>4, <1>6 DEF WorkerStep, Handshake, HandshakeTimeout, StartFails, Report, WorkerExits
<1>7. CASE Environment
  BY <1>4, <1>7 DEF Environment, Boot, Exit, WorkerDies, KillerDies, UserStep, Submit,
     Kill, PauseQueue, ResumeQueue, EditRecord, qVars
<1>8. CASE \E s \in signals : SendSignal(s)
  BY <1>3, <1>8 DEF SendSignal
<1> QED BY <1>5, <1>6, <1>7, <1>8 DEF QueueNext

\* What waits, or is claimed, has not been started.
LEMMA WaitingIsNotRun ==
  ASSUME OnceInv, NEW j \in Jobs,
         jobs[j].status \in {"pending", "paused", "claimed"} \/
           \A t \in Tokens : worker[t].job # j
  PROVE  Run(j) = "no"
<1>1. \A t \in Tokens : worker[t].job = j => calc[t] = "none"
  BY DEF OnceInv, Committed, Pinned, Terminal
<1> QED BY <1>1, RunOfJob DEF RunsAreCalcs

\* A call that changes one record changes what is shown of that job.
LEMMA OneRecord ==
  ASSUME NEW j \in Jobs, \A k \in Jobs \ {j} : jobs'[k] = jobs[k],
         Runs' = Runs, Allowed(j)
  PROVE  ContractStep
<1>1. \A k \in Jobs \ {j} : Phase(k)' = Phase(k)
  BY DEF Phase, Active
<1> QED BY <1>1, AllowedStep

\* A step that changes no record.
LEMMA NoRecordChanged ==
  ASSUME UNCHANGED jobs, Runs' = Runs PROVE ContractStep
BY DEF ContractStep, Phases, Phase, Active

\* update_status to FAILED.
LEMMA FailStep ==
  ASSUME TypeOK, Runs' = Runs, NEW j \in Jobs, NEW expected, NEW expPid, NEW token,
         TryUpdate(j, "failed", expected, expPid, token)
  PROVE  ContractStep
<1>1. CASE CanUpdate(j, "failed", expected, expPid, token)
  <2>1. /\ jobs' = [jobs EXCEPT ![j] = Updated(jobs[j], "failed", None, None)]
        /\ jobs[j] \in Record
        /\ jobs[j].status \notin Terminal \cup {"absent"}
    BY <1>1 DEF TryUpdate, UpdateStatus, CanUpdate, Exists, TypeOK
  <2>2. jobs'[j].status = "failed" /\ \A k \in Jobs \ {j} : jobs'[k] = jobs[k]
    BY <2>1 DEF Updated, Record, TypeOK
  <2>3. Phase(j) \in {"waiting", "active"} /\ Phase(j)' = "failed"
    BY <2>1, <2>2 DEF Phase, Active, ActiveStatuses, Record, Statuses
  <2> QED BY <2>2, <2>3, OneRecord DEF Allowed
<1>2. CASE ~CanUpdate(j, "failed", expected, expPid, token)
  BY <1>2, NoRecordChanged DEF TryUpdate, jmVars
<1> QED BY <1>1, <1>2

\* The scheduler keeps the contract.
LEMMA SchedulerRefines ==
  ASSUME QueueInv, OnceInv, ClaimInv, SchedStep, Runs' = Runs
  PROVE  ContractStep
<1>0. TypeOK
  BY DEF QueueInv, QueueTypeOK
<1>1. CASE UNCHANGED jmVars
  BY <1>1, NoRecordChanged DEF jmVars
<1>2. CASE RecoverClaims
  <2>1. PICK S \in SUBSET Jobs : RecoverStaleClaims(S)
    BY <1>2 DEF RecoverClaims
  <2>2. CASE S = {}
    <3>1. jobs' = jobs
      BY <1>0, <2>1, <2>2 DEF RecoverStaleClaims, TypeOK
    <3> QED BY <3>1, NoRecordChanged
  <2>3. ASSUME NEW j \in S PROVE ContractStep
    <3>1. jobs[j].status = "claimed" /\ \A k \in S : k = j
      BY <2>1, <2>3 DEF RecoverStaleClaims, ClaimInv, Claimed
    <3>2. /\ \A k \in Jobs \ {j} : jobs'[k] = jobs[k]
          /\ jobs'[j].status = "pending"
      BY <1>0, <2>1, <3>1 DEF RecoverStaleClaims, Released, TypeOK, Record
    <3>3. Run(j) = "no"
      BY <3>1, WaitingIsNotRun
    <3>4. Phase(j) = "active" /\ Phase(j)' = "waiting"
      BY <3>1, <3>2 DEF Phase, Active, ActiveStatuses
    <3> QED BY <3>2, <3>3, <3>4, OneRecord DEF Allowed
  <2> QED BY <2>2, <2>3
<1>3. ASSUME NEW t \in Tokens, ReapChild(t) PROVE ContractStep
  BY <1>0, <1>1, <1>3, FailStep DEF ReapChild, WithPid
<1>4. ASSUME NEW j \in Jobs, Probe(j) PROVE ContractStep
  BY <1>0, <1>1, <1>4, FailStep DEF Probe
<1>5. CASE Scan
  <2>1. PICK j \in Jobs : ScanFails(j) \/ ScanClaims(j) \/ ScanSkips(j)
    BY <1>5 DEF Scan, Oldest, QueueInv, QueueTypeOK
  <2>2. CASE ScanFails(j)
    BY <1>0, <2>2, FailStep DEF ScanFails
  <2>3. CASE ScanClaims(j)
    <3>1. /\ \A k \in Jobs \ {j} : jobs'[k] = jobs[k]
          /\ jobs'[j].status = "claimed" /\ jobs[j].status = "pending"
      BY <1>0, <2>3 DEF ScanClaims, ClaimJob, Claimable, TypeOK, Record
    <3>2. Run(j) = "no"
      BY <3>1, WaitingIsNotRun
    <3>3. Phase(j) = "waiting" /\ Phase(j)' = "active"
      BY <3>1 DEF Phase, Active, ActiveStatuses
    <3> QED BY <3>1, <3>2, <3>3, OneRecord DEF Allowed
  <2>4. CASE ScanSkips(j)
    BY <1>1, <2>4 DEF ScanSkips
  <2> QED BY <2>1, <2>2, <2>3, <2>4
<1>6. CASE SpawnFails \/ Abandon
  <2>1. sched.job \in Jobs
    BY <1>6 DEF SpawnFails, Abandon, At, QueueInv, Launching
  <2> QED BY <1>0, <1>6, <2>1, FailStep DEF SpawnFails, Abandon
<1>7. CASE Promote
  <2>1. PICK j \in Jobs : j = sched.job
    BY <1>7 DEF Promote, At, QueueInv, Launching
  <2>2. /\ jobs' = [jobs EXCEPT ![j] = Updated(jobs[j], "running",
                                               worker[sched.token].pid, sched.token)]
        /\ jobs[j] \in Record /\ jobs[j].status = "claimed"
    BY <1>0, <1>7, <2>1 DEF Promote, MarkRunning, UpdateStatus, CanUpdate, TypeOK
  <2>3. jobs'[j].status = "running" /\ \A k \in Jobs \ {j} : jobs'[k] = jobs[k]
    BY <1>0, <2>2 DEF Updated, Record, TypeOK
  <2>4. Phase(j)' = Phase(j)
    BY <2>2, <2>3 DEF Phase, Active, ActiveStatuses
  <2> QED BY <2>3, <2>4, OneRecord DEF Allowed
<1>8. CASE ReapDone \/ Gate \/ Loop \/ ScanDone \/ SpawnWorker \/ PromoteFails
  BY <1>1, <1>8 DEF ReapDone, Gate, Loop, ScanDone, SpawnWorker, PromoteFails
<1> QED BY <1>2, <1>3, <1>4, <1>5, <1>6, <1>7, <1>8 DEF SchedStep

\* A report settles the job with the outcome of its one calculation.
LEMMA ReportRefines ==
  ASSUME QueueInv, OnceInv, NEW t \in Tokens, Report(t), Runs' = Runs
  PROVE  ContractStep
<1>1. PICK j \in Jobs : j = worker[t].job
  BY DEF Report, QueueInv, Alive
<1>2. TypeOK /\ calc[t] \in ExitCodes
  BY DEF QueueInv, QueueTypeOK, Report
<1>3. Run(j) = calc[t]
  BY <1>1, <1>2, RunOfJob DEF ExitCodes, CalcLive, RunsAreCalcs
<1>4. CASE CanUpdate(j, StatusOf(calc[t]), {"running"}, worker[t].pid, t)
  <2>1. /\ jobs' = [jobs EXCEPT ![j] = Updated(jobs[j], StatusOf(calc[t]), None, None)]
        /\ jobs[j] \in Record /\ jobs[j].status = "running"
    BY <1>1, <1>2, <1>4 DEF Report, TryUpdate, UpdateStatus, CanUpdate, TypeOK
  <2>2. StatusOf(calc[t]) \notin {"pending", "paused"}
    BY <1>2 DEF StatusOf, ExitCodes
  <2>3. jobs'[j].status = StatusOf(calc[t]) /\ \A k \in Jobs \ {j} : jobs'[k] = jobs[k]
    BY <1>2, <2>1, <2>2 DEF Updated, Record, TypeOK
  <2>4. /\ Phase(j) = "active" /\ Phase(j)' = StatusOf(calc[t])
    BY <1>2, <2>1, <2>3 DEF Phase, Active, ActiveStatuses, StatusOf, ExitCodes
  <2>5. Allowed(j)
    BY <1>2, <1>3, <2>4 DEF Allowed, StatusOf, ExitCodes
  <2> QED BY <2>3, <2>5, OneRecord
<1>5. CASE ~CanUpdate(j, StatusOf(calc[t]), {"running"}, worker[t].pid, t)
  BY <1>1, <1>5, NoRecordChanged DEF Report, TryUpdate, jmVars
<1> QED BY <1>4, <1>5

\* The users keep the contract.
LEMMA UserRefines ==
  ASSUME QueueInv, OnceInv, "migrate" \notin Commands,
         Environment \/ \E s \in signals : SendSignal(s), Runs' = Runs
  PROVE  ContractStep
<1>0. TypeOK
  BY DEF QueueInv, QueueTypeOK
<1>1. CASE UNCHANGED jmVars
  BY <1>1, NoRecordChanged DEF jmVars
<1>2. CASE Submit
  <2>1. PICK fresh \in Jobs :
          /\ fresh = CHOOSE j \in FreshIds : TRUE
          /\ jobs[fresh].status = "absent"
          /\ \A t \in Tokens : worker[t].job # fresh
    BY <1>2 DEF Submit, FreshIds, Exists
  <2>2. /\ \A k \in Jobs \ {fresh} : jobs'[k] = jobs[k]
        /\ jobs'[fresh].status = "pending"
    BY <1>0, <1>2, <2>1 DEF Submit, Enqueue, TypeOK, NoRecord
  <2>3. Run(fresh) = "no"
    BY <2>1, WaitingIsNotRun
  <2>4. Phase(fresh) = "absent" /\ Phase(fresh)' = "waiting"
    BY <2>1, <2>2 DEF Phase, Active, ActiveStatuses
  <2> QED BY <2>1, <2>2, <2>3, <2>4, OneRecord DEF Allowed
<1>3. ASSUME NEW j \in Jobs, Kill(j) PROVE ContractStep
  <2>1. /\ jobs' = [jobs EXCEPT ![j].status = "cancelled"]
        /\ jobs[j].status \in {"pending", "paused", "claimed", "running"}
    BY <1>3 DEF Kill, CancelJob, CanCancel
  <2>2. jobs'[j].status = "cancelled" /\ \A k \in Jobs \ {j} : jobs'[k] = jobs[k]
    BY <1>0, <2>1 DEF TypeOK, Record
  <2>3. Phase(j) \in {"waiting", "active"} /\ Phase(j)' = "cancelled"
    BY <2>1, <2>2 DEF Phase, Active, ActiveStatuses
  <2> QED BY <2>2, <2>3, OneRecord DEF Allowed
<1>4. ASSUME NEW j \in Jobs, PausePending(j) \/ ResumePaused(j) PROVE ContractStep
  <2>1. PICK desired \in {"pending", "paused"} :
          /\ jobs' = [jobs EXCEPT ![j] = Updated(jobs[j], desired, None, None)]
          /\ jobs[j].status \in {"pending", "paused"}
    BY <1>4 DEF PausePending, ResumePaused, UpdateStatus, CanUpdate
  <2>2. Updated(jobs[j], desired, None, None).status = desired
    BY <1>0 DEF Updated, Released, Record, TypeOK
  <2>3. jobs'[j].status = desired /\ \A k \in Jobs \ {j} : jobs'[k] = jobs[k]
    BY <1>0, <2>1, <2>2 DEF TypeOK
  <2>4. Phase(j)' = Phase(j)
    BY <2>1, <2>3 DEF Phase, Active, ActiveStatuses
  <2> QED BY <2>3, <2>4, OneRecord DEF Allowed
<1>5. ASSUME NEW j \in Jobs, DeleteJob(j) PROVE ContractStep
  <2>1. /\ \A k \in Jobs : jobs'[k] = IF k = j THEN NoRecord ELSE jobs[k]
        /\ ~Active(j)
    BY <1>0, <1>5 DEF DeleteJob, Deletable, TypeOK
  <2>2. Phase(j) # "active"
    BY <1>0, <2>1 DEF Phase, Active, ActiveStatuses, TypeOK, Record, Statuses, Terminal
  <2>3. \A k \in Jobs : Phase(k)' = IF k \in {j} THEN "absent" ELSE Phase(k)
    BY <2>1 DEF Phase, Active, ActiveStatuses, NoRecord
  <2> QED BY <2>2, <2>3, RemovalStep
<1>6. CASE Clean
  <2> DEFINE S == {k \in Jobs : jobs[k].status \in Terminal}
  <2>1. \A k \in Jobs : jobs'[k] = IF k \in S THEN NoRecord ELSE jobs[k]
    BY <1>6 DEF Clean
  <2>2. \A k \in S : Phase(k) # "active"
    BY DEF Phase, Active, ActiveStatuses, Terminal
  <2>3. \A k \in Jobs : Phase(k)' = IF k \in S THEN "absent" ELSE Phase(k)
    BY <2>1 DEF Phase, Active, ActiveStatuses, NoRecord
  <2>4. S \in SUBSET Jobs
    OBVIOUS
  <2> HIDE DEF S
  <2> QED BY <2>2, <2>3, <2>4, RemovalStep
<1>7. CASE EditRecord
  BY <1>4, <1>5, <1>6, <1>7 DEF EditRecord, Command
<1>8. CASE PauseQueue \/ ResumeQueue \/ Boot \/ Exit
  BY <1>1, <1>8 DEF PauseQueue, ResumeQueue, Boot, Exit
<1>9. CASE \/ \E t \in Tokens : WorkerDies(t)
           \/ \E s \in signals : KillerDies(s) \/ SendSignal(s)
  BY <1>1, <1>9 DEF WorkerDies, KillerDies, SendSignal
<1> QED BY <1>2, <1>3, <1>7, <1>8, <1>9 DEF Environment, UserStep

\* Every step of the queue is a step of the contract, or changes nothing in it.
LEMMA StepRefines ==
  ASSUME QueueInv, OnceInv, OnceInv', SupervisedInv, ClaimInv, [QueueNext]_vars,
         "migrate" \notin Commands
  PROVE  ContractStep
<1>1. CASE UNCHANGED vars
  <2>1. Runs' = Runs
    BY <1>1 DEF vars, qVars, Runs, Run, Started
  <2> QED BY <1>1, <2>1, NoRecordChanged DEF vars, jmVars
<1>2. ASSUME NEW t \in Tokens, StartCalc(t) \/ CalcEnds(t) PROVE ContractStep
  BY <1>2, StartRefines, FinishRefines
<1>3. CASE QueueNext /\ \A t \in Tokens : ~StartCalc(t) /\ ~CalcEnds(t)
  <2>1. Runs' = Runs
    BY <1>3, OtherStepsKeepRuns, RunsStay
  <2>2. ASSUME NEW t \in Tokens, WorkerStep(t) PROVE ContractStep
    <3>0. TypeOK /\ (worker[t].pc \in Alive => worker[t].job \in Jobs)
      BY DEF QueueInv, QueueTypeOK
    <3>1. CASE HandshakeTimeout(t) \/ StartFails(t)
      BY <2>1, <3>0, <3>1, FailStep DEF HandshakeTimeout, StartFails, Alive
    <3>2. CASE Report(t)
      BY <2>1, <3>2, ReportRefines
    <3>3. CASE Handshake(t) \/ WorkerExits(t)
      BY <2>1, <3>3, NoRecordChanged DEF Handshake, WorkerExits, jmVars
    <3> QED BY <1>3, <2>2, <3>1, <3>2, <3>3 DEF WorkerStep
  <2> QED BY <1>3, <2>1, <2>2, SchedulerRefines, UserRefines DEF QueueNext
<1> QED BY <1>1, <1>2, <1>3

\* The queue implements the contract of module JobContract, as long as nobody
\* imports records of an older release: whatever the scheduler, its successors,
\* workers, users and crashes do, what the registry shows of a job moves only
\* as promised there.
THEOREM KeepsContractHolds ==
  "migrate" \notin Commands => (QueueSpec => KeepsContract)
<1> SUFFICES ASSUME "migrate" \notin Commands PROVE QueueSpec => KeepsContract
  OBVIOUS
<1> DEFINE CInv == QueueInv /\ OnceInv /\ SupervisedInv /\ CapInv /\ ClaimInv
<1>1. QueueInit => CInv
  <2> SUFFICES ASSUME QueueInit PROVE CInv
    OBVIOUS
  <2>1. ActiveJobs = {}
    BY DEF QueueInit, Init, NoRecord, ActiveJobs, Active, ActiveStatuses
  <2>2. CapInv
    BY <2>1, FS_EmptySet, CapPositive DEF QueueInit, Down, CapInv, CapRespected, Launching
  <2>3. ClaimInv
    BY DEF QueueInit, Init, NoRecord, ClaimInv, Claimed
  <2>4. OnceInv /\ SupervisedInv
    BY DEF QueueInit, Init, NoRecord, Down, NoWorker, OnceInv, SpawnsClaimed, Committed,
       SupervisedInv, PidsApart, IdentIsClaim, Supervised, HasProcess, Alive
  <2> QED BY <2>2, <2>3, <2>4, InitQueueInv
<1>2. CInv /\ [QueueNext]_vars => CInv'
  BY StepKeepsInv, StepKeepsOnce, StepKeepsSupervised, StepKeepsCap, StepKeepsClaims
<1>3. QueueInit => Contract!Init
  BY DEF QueueInit, Init, NoRecord, NoWorker, Contract!Init, Phase, Active, ActiveStatuses,
     Run, Started
<1>4. CInv /\ CInv' /\ [QueueNext]_vars => [Contract!Next]_<<Phases, Runs>>
  BY StepRefines DEF ContractStep
<1>5. CInv /\ CInv' /\ [QueueNext]_vars =>
        [Contract!Next]_<<[j \in Jobs |-> Phase(j)], [j \in Jobs |-> Run(j)]>>
  BY <1>4 DEF Phases, Runs
<1> HIDE DEF CInv
<1> QED BY <1>1, <1>2, <1>3, <1>5, PTL DEF QueueSpec, KeepsContract, Contract!Spec

-----------------------------------------------------------------------------
(***************************************************************************)
(* Signals.  KillHitsItsWorker does not hold of every behavior: pids are   *)
(* used again.  What holds is that a signal that arrives while its worker, *)
(* or that worker's calculation, is still there hits nobody else, and that *)
(* a failed promotion never hits anybody else.  Inductive: no two claims   *)
(* whose processes can be seen share a pid, a pending signal names the pid *)
(* of its worker, and the worker to be promoted is at least a zombie.      *)
(***************************************************************************)
Occupied(t) == HasProcess(t) \/ calc[t] \in CalcLive

Unspawned == {"none", "claimed"}

SignalInv ==
  /\ \A s, t \in Tokens :
       Occupied(s) /\ Occupied(t) /\ worker[s].pid = worker[t].pid => s = t
  /\ \A t \in Tokens : worker[t].pc \in Unspawned => worker[t].pid = None
  /\ \A s \in signals : worker[s.ident].pid = s.pid

\* What a step can do to the pids: one claimed worker may be given a free one.
PidRules ==
  \E s \in Tokens \cup {None} :
    /\ s \in Tokens => worker[s].pc = "claimed"
    /\ \A t \in Tokens :
         /\ t # s => worker'[t].pid = worker[t].pid
         /\ t # s /\ Occupied(t)' => Occupied(t)
         /\ s \in Tokens /\ Occupied(t) => worker[t].pid # worker'[s].pid
         /\ worker'[t].pc \in Unspawned => worker[t].pc \in Unspawned /\ t # s

\* A step that spawns nothing obeys them.
LEMMA PidsStay ==
  ASSUME \A t \in Tokens :
           /\ worker'[t].pid = worker[t].pid
           /\ Occupied(t)' => Occupied(t)
           /\ worker'[t].pc \in Unspawned => worker[t].pc \in Unspawned
  PROVE  PidRules
BY NoneIsFresh DEF PidRules

\* A signal gives nobody another pid, and frees pids only.
LEMMA SignalKeepsPids ==
  ASSUME QueueInv, NEW p, SignalGroup(p), NEW t \in Tokens
  PROVE  /\ worker'[t].pid = worker[t].pid
         /\ Occupied(t)' => Occupied(t)
         /\ worker'[t].pc \in Unspawned => worker[t].pc \in Unspawned
         /\ worker[t].pid # p \/ ~Occupied(t) => worker'[t] = worker[t] /\ calc'[t] = calc[t]
<1>1. worker \in [Tokens -> WorkerRec]
  BY DEF QueueInv, QueueTypeOK, WorkerRec
<1>2. /\ Ended(t).pid = worker[t].pid
      /\ Ended(t).pc \in {"zombie", "gone"}
  BY <1>1 DEF Ended, WorkerRec
<1>3. worker'[t] = IF worker[t].pid = p /\ worker[t].pc \in Alive THEN Ended(t) ELSE worker[t]
  BY DEF SignalGroup
<1>4. calc'[t] = IF worker[t].pid = p /\ calc[t] = "run" THEN "stopping" ELSE calc[t]
  BY DEF SignalGroup
<1>5. worker'[t].pid = worker[t].pid
      /\ (worker'[t].pc \in Unspawned => worker[t].pc \in Unspawned)
  BY <1>2, <1>3 DEF Unspawned
<1>6. Occupied(t)' => Occupied(t)
  BY <1>3, <1>4 DEF Occupied, HasProcess, CalcLive
<1>7. worker[t].pid # p \/ ~Occupied(t) => worker'[t] = worker[t] /\ calc'[t] = calc[t]
  BY <1>3, <1>4 DEF Occupied, HasProcess, CalcLive
<1> QED BY <1>5, <1>6, <1>7

\* The scheduler's steps; the one that spawns takes a pid nobody uses.
LEMMA SchedulerPids ==
  ASSUME QueueInv, OnceInv, SchedStep
  PROVE  PidRules /\ UNCHANGED signals
<1> USE DEF QueueInv, QueueTypeOK, At, Alive
<1>0. UNCHANGED signals
  BY DEF SchedStep, RecoverClaims, ReapChild, ReapDone, Probe, Gate, Loop, Scan, ScanDone,
     SpawnWorker, SpawnFails, Promote, PromoteFails, Abandon
<1>1. CASE UNCHANGED <<worker, calc>>
  BY <1>0, <1>1, PidsStay DEF Occupied, HasProcess
<1>2. ASSUME NEW t \in Tokens, ReapChild(t) PROVE PidRules
  <2>1. \A s \in Tokens : /\ worker'[s].pid = worker[s].pid /\ calc'[s] = calc[s]
                          /\ worker'[s].pc = worker[s].pc \/ worker'[s].pc = "gone"
    BY <1>2 DEF ReapChild
  <2> QED BY <2>1, PidsStay DEF Occupied, HasProcess, Unspawned
<1>3. CASE Scan
  <2>1. PICK j \in sched.todo : ScanFails(j) \/ ScanClaims(j) \/ ScanSkips(j)
    BY <1>3 DEF Scan, Oldest
  <2>2. CASE ScanClaims(j)
    <3>1. NextToken \in Tokens /\ worker[NextToken].pc = "none"
      BY <2>2 DEF ScanClaims, NextToken, FreshTokens
    <3>2. /\ worker'[NextToken].pc = "claimed" /\ worker'[NextToken].pid = worker[NextToken].pid
          /\ \A t \in Tokens \ {NextToken} : worker'[t] = worker[t]
      BY <2>2, <3>1 DEF ScanClaims
    <3>3. UNCHANGED calc
      BY <1>3 DEF Scan
    <3> QED BY <1>0, <3>1, <3>2, <3>3, PidsStay DEF Occupied, HasProcess, Unspawned
  <2>3. CASE ScanFails(j) \/ ScanSkips(j)
    BY <1>1, <1>3, <2>3 DEF Scan, ScanFails, ScanSkips
  <2> QED BY <2>1, <2>2, <2>3
<1>4. CASE SpawnWorker
  <2>1. PICK p \in FreePids, collected \in SUBSET Tokens :
         worker' = [t \in Tokens |->
           IF t = sched.token THEN [worker[t] EXCEPT !.pc = "handshake", !.pid = p]
           ELSE IF t \in collected THEN [worker[t] EXCEPT !.pc = "gone"]
           ELSE worker[t]]
    BY <1>4 DEF SpawnWorker, Zombies
  <2>2. sched.token \in Tokens /\ worker[sched.token].pc = "claimed"
    BY <1>4 DEF SpawnWorker, OnceInv, SpawnsClaimed, Launching
  <2>3. worker'[sched.token].pid = p
    BY <2>1, <2>2
  <2>4. ASSUME NEW t \in Tokens
        PROVE  /\ t # sched.token => worker'[t].pid = worker[t].pid
               /\ worker'[t].pc = IF t = sched.token THEN "handshake"
                                  ELSE IF t \in collected THEN "gone"
                                  ELSE worker[t].pc
    BY <2>1
  <2>5. \A t \in Tokens : Occupied(t) => worker[t].pid # p
    BY <2>1 DEF FreePids, PidInUse, Occupied
  <2>6. UNCHANGED calc
    BY <1>4 DEF SpawnWorker
  <2>7. \A t \in Tokens : t # sched.token /\ Occupied(t)' => Occupied(t)
    BY <2>4, <2>6 DEF Occupied, HasProcess
  <2>8. \A t \in Tokens :
          worker'[t].pc \in Unspawned => worker[t].pc \in Unspawned /\ t # sched.token
    BY <2>4 DEF Unspawned
  <2> QED BY <1>0, <2>2, <2>3, <2>4, <2>5, <2>7, <2>8 DEF PidRules
<1>5. CASE SpawnFails
  <2>1. sched.token \in Tokens /\ UNCHANGED calc
        /\ worker' = [worker EXCEPT ![sched.token].pc = "gone"]
    BY <1>5 DEF SpawnFails, Launching
  <2>2. \A s \in Tokens : /\ worker'[s].pid = worker[s].pid
                          /\ worker'[s].pc = worker[s].pc \/ worker'[s].pc = "gone"
    BY <2>1
  <2> QED BY <1>0, <2>1, <2>2, PidsStay DEF Occupied, HasProcess, Unspawned
<1>6. CASE PromoteFails
  BY <1>6, SignalKeepsPids, PidsStay DEF PromoteFails
<1>7. CASE RecoverClaims \/ ReapDone \/ (\E j \in Jobs : Probe(j)) \/ Gate \/ Loop
           \/ ScanDone \/ Promote \/ Abandon
  BY <1>1, <1>7 DEF RecoverClaims, ReapDone, Probe, Gate, Loop, ScanDone, Promote, Abandon
<1> QED BY <1>0, <1>2, <1>3, <1>4, <1>5, <1>6, <1>7 DEF SchedStep

\* The steps of workers: a calculation starts in a worker that lives.
LEMMA WorkerPids ==
  ASSUME QueueInv, NEW t \in Tokens, WorkerStep(t) \/ CalcEnds(t)
  PROVE  PidRules /\ UNCHANGED signals
<1> USE DEF QueueInv, QueueTypeOK, HasProcess, Alive, Occupied, Unspawned, WorkerGoto
<1>0. UNCHANGED signals
  BY DEF WorkerStep, Handshake, HandshakeTimeout, StartCalc, StartFails, Report, WorkerExits,
     CalcEnds
<1>1. CASE Handshake(t)
  <2>1. /\ worker'[t].pid = worker[t].pid /\ worker'[t].pc = "ready"
        /\ \A s \in Tokens \ {t} : worker'[s] = worker[s]
        /\ worker[t].pc = "handshake" /\ UNCHANGED calc
    BY <1>1 DEF Handshake
  <2> QED BY <1>0, <2>1, PidsStay
<1>2. CASE HandshakeTimeout(t) BY <1>2, PidsStay DEF HandshakeTimeout
<1>3. CASE StartCalc(t) BY <1>3, PidsStay DEF StartCalc
<1>4. CASE StartFails(t) BY <1>4, PidsStay DEF StartFails
<1>5. CASE Report(t) BY <1>5, PidsStay DEF Report
<1>6. CASE WorkerExits(t) BY <1>6, PidsStay DEF WorkerExits, Ended
<1>7. CASE CalcEnds(t) BY <1>7, PidsStay DEF CalcEnds
<1> QED BY <1>0, <1>1, <1>2, <1>3, <1>4, <1>5, <1>6, <1>7 DEF WorkerStep

\* The steps of users, crashes and signals: a kill decides on a signal while
\* the record's process is there.
LEMMA UserPids ==
  ASSUME QueueInv, Environment \/ \E s \in signals : SendSignal(s)
  PROVE  /\ PidRules
         /\ \A s \in signals' : s \in signals \/ (worker[s.ident].pid = s.pid /\ UNCHANGED worker)
<1> USE DEF QueueInv, QueueTypeOK, HasProcess, Alive, Occupied, Unspawned
<1>1. CASE UNCHANGED <<worker, calc>>
  <2>1. PidRules
    BY <1>1, PidsStay
  <2>2. CASE \E j \in Jobs : Kill(j)
    <3>1. PICK j \in Jobs : Kill(j)
      BY <2>2
    <3>2. CASE jobs[j].status = "running"
      <4>1. signals' = signals \cup {[pid |-> jobs[j].pid, ident |-> jobs[j].ident]}
        BY <3>1, <3>2 DEF Kill
      <4>2. jobs[j].ident # None /\ Matches(jobs[j])
        BY <3>1, <3>2 DEF Kill, CancelJob, CanCancel
      <4>3. worker[jobs[j].ident].pid = jobs[j].pid
        BY <4>2 DEF Matches
      <4> QED BY <1>1, <2>1, <4>1, <4>3
    <3>3. CASE jobs[j].status # "running"
      BY <2>1, <3>1, <3>3 DEF Kill
    <3> QED BY <3>2, <3>3
  <2>3. CASE ~\E j \in Jobs : Kill(j)
    <3>1. signals' \subseteq signals
      BY <2>3 DEF Environment, UserStep, Submit, PauseQueue, ResumeQueue, EditRecord, qVars,
         Boot, Exit, WorkerDies, KillerDies, SendSignal
    <3> QED BY <2>1, <3>1
  <2> QED BY <2>2, <2>3
<1>2. CASE UserStep \/ Boot \/ \E s \in signals : KillerDies(s)
  BY <1>1, <1>2 DEF UserStep, Submit, Kill, PauseQueue, ResumeQueue, EditRecord, qVars,
     Boot, KillerDies
<1>3. CASE Exit
  BY <1>3, PidsStay DEF Exit
<1>4. ASSUME NEW t \in Tokens, WorkerDies(t)
      PROVE  PidRules /\ UNCHANGED signals
  BY <1>4, PidsStay DEF WorkerDies, Ended
<1>5. ASSUME NEW s \in signals, SendSignal(s)
      PROVE  PidRules /\ signals' \subseteq signals
  BY <1>5, SignalKeepsPids, PidsStay DEF SendSignal
<1> QED BY <1>2, <1>3, <1>4, <1>5 DEF Environment

\* The scheduler is the parent of the worker it spawns, which therefore stays
\* at least a zombie until the scheduler waits for it.
Parented ==
  /\ At("spawn") => worker[sched.token].boot = sched.boot
  /\ At("promote") => /\ HasProcess(sched.token)
                      /\ worker[sched.token].boot = sched.boot

\* A worker that ends under its parent becomes a zombie.
LEMMA EndedIsZombie ==
  ASSUME QueueInv, Parented, NEW t \in Tokens, sched.pc \in {"spawn", "promote"},
         sched.token = t
  PROVE  Ended(t).pc = "zombie" /\ Ended(t).boot = worker[t].boot
<1>1. worker[t] \in WorkerRec /\ Up /\ sched.boot = worker[t].boot
  BY DEF QueueInv, QueueTypeOK, WorkerRec, Up, Parented, At
<1> QED BY <1>1 DEF Ended, WorkerRec

\* The launch that is under way keeps its worker, whatever that worker does.
LEMMA LaunchStays ==
  ASSUME QueueInv, Parented, UNCHANGED sched,
         \A t \in Tokens : sched.token = t =>
           \/ worker'[t] = Ended(t)
           \/ /\ worker'[t].boot = worker[t].boot
              /\ HasProcess(t) => HasProcess(t)'
  PROVE  Parented'
<1>1. CASE sched.pc \in {"spawn", "promote"}
  <2>1. sched.token \in Tokens
    BY <1>1 DEF QueueInv, Launching
  <2>2. PICK t \in Tokens : t = sched.token
    BY <2>1
  <2>3. Ended(t).pc = "zombie" /\ Ended(t).boot = worker[t].boot
    BY <1>1, <2>2, EndedIsZombie
  <2>4. worker'[t].boot = worker[t].boot /\ (HasProcess(t) => HasProcess(t)')
    BY <2>2, <2>3 DEF HasProcess
  <2> QED BY <2>2, <2>4 DEF Parented, At, HasProcess
<1>2. CASE sched.pc \notin {"spawn", "promote"}
  BY <1>2 DEF Parented, At
<1> QED BY <1>1, <1>2

\* The scheduler spawns the worker it claimed for.
LEMMA SchedulerParents ==
  ASSUME QueueInv, Parented, SchedStep
  PROVE  Parented'
<1> USE DEF QueueInv, QueueTypeOK, At, Goto, Launching
<1>1. CASE SpawnWorker
  <2>1. PICK p \in FreePids, collected \in SUBSET Zombies :
         worker' = [t \in Tokens |->
           IF t = sched.token THEN [worker[t] EXCEPT !.pc = "handshake", !.pid = p]
           ELSE IF t \in collected THEN [worker[t] EXCEPT !.pc = "gone"]
           ELSE worker[t]]
    BY <1>1 DEF SpawnWorker
  <2>2. /\ sched.token \in Tokens /\ sched' = [sched EXCEPT !.pc = "promote"]
        /\ sched.pc = "spawn"
    BY <1>1 DEF SpawnWorker
  <2>3. worker'[sched.token].pc = "handshake"
        /\ worker'[sched.token].boot = worker[sched.token].boot
    BY <2>1, <2>2
  <2> QED BY <2>2, <2>3 DEF Parented, HasProcess, Alive
<1>2. CASE Scan
  <2>1. PICK j \in sched.todo : ScanFails(j) \/ ScanClaims(j) \/ ScanSkips(j)
    BY <1>2 DEF Scan, Oldest
  <2>2. CASE ScanClaims(j)
    <3>1. NextToken \in Tokens
      BY <2>2 DEF ScanClaims, NextToken, FreshTokens
    <3>2. sched'.token = NextToken /\ sched'.pc = "spawn" /\ sched'.boot = sched.boot
      BY <2>2, <3>1 DEF ScanClaims
    <3>3. worker'[NextToken].boot = sched.boot
      BY <2>2, <3>1 DEF ScanClaims
    <3> QED BY <3>2, <3>3 DEF Parented
  <2>3. CASE ScanFails(j) \/ ScanSkips(j)
    BY <1>2, <2>3 DEF Scan, ScanFails, ScanSkips, Parented
  <2> QED BY <2>1, <2>2, <2>3
<1>3. CASE RecoverClaims \/ (\E t \in Tokens : ReapChild(t)) \/ ReapDone \/ (\E j \in Jobs : Probe(j))
           \/ Gate \/ Loop \/ ScanDone \/ SpawnFails \/ Promote \/ PromoteFails \/ Abandon
  <2>1. sched'.pc \notin {"spawn", "promote"}
    BY <1>3 DEF RecoverClaims, ReapChild, ReapDone, Probe, Gate, Loop, ScanDone, SpawnFails,
       Promote, PromoteFails, Abandon
  <2> QED BY <2>1 DEF Parented
<1> QED BY <1>1, <1>2, <1>3 DEF SchedStep

\* No other process takes the worker away from it.
LEMMA OthersKeepParent ==
  ASSUME QueueInv, Parented,
         \/ \E t \in Tokens : WorkerStep(t) \/ CalcEnds(t)
         \/ Environment
         \/ \E s \in signals : SendSignal(s)
  PROVE  Parented'
<1> USE DEF QueueInv, QueueTypeOK, HasProcess, Alive
<1>1. CASE UNCHANGED <<sched, worker>>
  BY <1>1 DEF Parented, At
<1>2. ASSUME NEW t \in Tokens, WorkerStep(t) \/ CalcEnds(t) PROVE Parented'
  <2>1. CASE Handshake(t)
    <3>1. worker'[t].boot = worker[t].boot /\ worker'[t].pc = "ready"
          /\ (\A s \in Tokens \ {t} : worker'[s] = worker[s]) /\ UNCHANGED sched
      BY <2>1 DEF Handshake
    <3> QED BY <3>1, LaunchStays
  <2>2. CASE HandshakeTimeout(t) \/ StartCalc(t) \/ StartFails(t) \/ Report(t)
    <3>1. worker'[t].boot = worker[t].boot /\ worker'[t].pc \in {"exiting", "calc"}
          /\ (\A s \in Tokens \ {t} : worker'[s] = worker[s]) /\ UNCHANGED sched
      BY <2>2 DEF HandshakeTimeout, StartCalc, StartFails, Report, WorkerGoto
    <3> QED BY <3>1, LaunchStays
  <2>3. CASE WorkerExits(t)
    BY <2>3, LaunchStays DEF WorkerExits
  <2>4. CASE CalcEnds(t)
    BY <1>1, <2>4 DEF CalcEnds
  <2> QED BY <1>2, <2>1, <2>2, <2>3, <2>4 DEF WorkerStep
<1>3. CASE UserStep \/ \E s \in signals : KillerDies(s)
  BY <1>1, <1>3 DEF UserStep, Submit, Kill, PauseQueue, ResumeQueue, EditRecord, qVars,
     KillerDies
<1>4. CASE Boot \/ Exit
  <2>1. sched'.pc \in {"idle", "down"}
    BY <1>4 DEF Boot, Exit, Down
  <2> QED BY <2>1 DEF Parented, At
<1>5. ASSUME NEW t \in Tokens, WorkerDies(t) PROVE Parented'
  BY <1>5, LaunchStays DEF WorkerDies
<1>6. ASSUME NEW s \in signals, SendSignal(s) PROVE Parented'
  <2>1. SignalGroup(s.pid) /\ UNCHANGED sched
    BY <1>6 DEF SendSignal
  <2>2. \A t \in Tokens : worker'[t] = Ended(t) \/ worker'[t] = worker[t]
    BY <2>1 DEF SignalGroup
  <2> QED BY <2>1, <2>2, LaunchStays
<1> QED BY <1>2, <1>3, <1>4, <1>5, <1>6 DEF Environment

\* One step keeps the pids apart and the pending signals named.
LEMMA StepKeepsSignals ==
  ASSUME QueueInv, OnceInv, SignalInv, [QueueNext]_vars
  PROVE  SignalInv'
<1>1. CASE UNCHANGED vars
  BY <1>1 DEF vars, qVars, SignalInv, Occupied, HasProcess
<1>2. CASE QueueNext
  <2>1. /\ PidRules
        /\ \A s \in signals' : s \in signals \/ (worker[s.ident].pid = s.pid /\ UNCHANGED worker)
    BY <1>2, SchedulerPids, WorkerPids, UserPids DEF QueueNext
  <2>2. PICK n \in Tokens \cup {None} :
          /\ n \in Tokens => worker[n].pc = "claimed"
          /\ \A t \in Tokens :
               /\ t # n => worker'[t].pid = worker[t].pid
               /\ t # n /\ Occupied(t)' => Occupied(t)
               /\ n \in Tokens /\ Occupied(t) => worker[t].pid # worker'[n].pid
               /\ worker'[t].pc \in Unspawned => worker[t].pc \in Unspawned /\ t # n
    BY <2>1 DEF PidRules
  <2>3. ASSUME NEW s \in Tokens, NEW t \in Tokens, Occupied(s)', Occupied(t)',
               worker'[s].pid = worker'[t].pid
        PROVE  s = t
    BY <2>2, <2>3 DEF SignalInv
  <2>4. \A t \in Tokens : worker'[t].pc \in Unspawned => worker'[t].pid = None
    BY <2>2 DEF SignalInv
  <2>5. ASSUME NEW s \in signals' PROVE worker'[s.ident].pid = s.pid
    <3>1. CASE s \in signals
      <4>1. s.ident \in Tokens /\ s.pid \in Pids /\ worker[s.ident].pid = s.pid
        BY <3>1 DEF QueueInv, QueueTypeOK, SignalInv
      <4>2. worker[s.ident].pc \notin Unspawned
        BY <4>1, NoneIsFresh DEF SignalInv
      <4> QED BY <2>2, <4>1, <4>2 DEF Unspawned
    <3> QED BY <2>1, <2>5, <3>1
  <2> QED BY <2>3, <2>4, <2>5 DEF SignalInv
<1> QED BY <1>1, <1>2

\* A signal that is sent while its worker, or the calculation of that worker,
\* is still there hits nobody else, and neither does the signal to a worker
\* that could not be promoted.  Only a signal sent after the process it was
\* decided about is gone, and its pid used again, can hit another job.
SignalsHitTheirWorkers ==
  [][/\ \A s \in signals \ signals' : Occupied(s.ident) =>
          \A t \in Tokens \ {s.ident} : worker'[t] = worker[t] /\ calc'[t] = calc[t]
     /\ PromoteFails =>
          \A t \in Tokens \ {sched.token} : worker'[t] = worker[t] /\ calc'[t] = calc[t]]_vars

\* Whom a signal hits, from the invariants.
LEMMA StepSignalsItsWorker ==
  ASSUME QueueInv, OnceInv, SignalInv, Parented, QueueNext
  PROVE  /\ \A s \in signals \ signals' : Occupied(s.ident) =>
              \A t \in Tokens \ {s.ident} : worker'[t] = worker[t] /\ calc'[t] = calc[t]
         /\ PromoteFails =>
              \A t \in Tokens \ {sched.token} : worker'[t] = worker[t] /\ calc'[t] = calc[t]
<1>1. ASSUME NEW s \in signals \ signals', Occupied(s.ident), NEW t \in Tokens \ {s.ident}
      PROVE  worker'[t] = worker[t] /\ calc'[t] = calc[t]
  <2>1. Environment \/ \E q \in signals : SendSignal(q)
    <3>1. SchedStep => UNCHANGED signals
      BY SchedulerPids
    <3>2. (\E w \in Tokens : WorkerStep(w) \/ CalcEnds(w)) => UNCHANGED signals
      BY WorkerPids
    <3> QED BY <1>1, <3>1, <3>2 DEF QueueNext
  <2>2. CASE \E q \in signals : SendSignal(q)
    <3>1. PICK q \in signals : SendSignal(q)
      BY <2>2
    <3>2. s = q /\ SignalGroup(s.pid)
      BY <3>1 DEF SendSignal
    <3>3. s.ident \in Tokens /\ worker[s.ident].pid = s.pid
      BY DEF QueueInv, QueueTypeOK, SignalInv
    <3>4. worker[t].pid # s.pid \/ ~Occupied(t)
      BY <1>1, <3>3 DEF SignalInv
    <3> QED BY <3>2, <3>4, SignalKeepsPids
  <2>3. CASE Environment
    <3>1. UNCHANGED <<worker, calc>>
      BY <2>3 DEF Environment, UserStep, Submit, Kill, PauseQueue, ResumeQueue, EditRecord,
         qVars, Boot, Exit, WorkerDies, KillerDies
    <3> QED BY <3>1
  <2> QED BY <2>1, <2>2, <2>3
<1>2. ASSUME PromoteFails, NEW t \in Tokens \ {sched.token}
      PROVE  worker'[t] = worker[t] /\ calc'[t] = calc[t]
  <2>1. SignalGroup(worker[sched.token].pid) /\ sched.token \in Tokens /\ HasProcess(sched.token)
    BY <1>2 DEF PromoteFails, QueueInv, Launching, Parented, At
  <2>2. worker[t].pid # worker[sched.token].pid \/ ~Occupied(t)
    BY <2>1 DEF SignalInv, Occupied
  <2> QED BY <2>1, <2>2, SignalKeepsPids
<1> QED BY <1>1, <1>2

\* SignalsHitTheirWorkers for any number of jobs, crashes and reused pids (the
\* boundary of KillHitsItsWorker; kill_job and the failed launch of run_once).
THEOREM SignalsHitTheirWorkersHolds == QueueSpec => SignalsHitTheirWorkers
<1>1. QueueInit => OnceInv /\ SignalInv /\ Parented
  BY DEF QueueInit, Down, NoWorker, OnceInv, SpawnsClaimed, Committed, SignalInv, Parented,
     At, Occupied, HasProcess, Alive, CalcLive
<1>2. QueueInv /\ Parented /\ [QueueNext]_vars => Parented'
  <2>1. CASE UNCHANGED vars
    BY <2>1 DEF vars, qVars, Parented, At, HasProcess
  <2> QED BY <2>1, SchedulerParents, OthersKeepParent DEF QueueNext
<1>3. QueueInv /\ QueueInv' /\ OnceInv /\ SignalInv /\ [QueueNext]_vars => OnceInv' /\ SignalInv'
  BY StepKeepsOnce, StepKeepsSignals
<1>4. QueueInv /\ OnceInv /\ SignalInv /\ Parented /\ [QueueNext]_vars =>
        [/\ \A s \in signals \ signals' : Occupied(s.ident) =>
              \A t \in Tokens \ {s.ident} : worker'[t] = worker[t] /\ calc'[t] = calc[t]
         /\ PromoteFails =>
              \A t \in Tokens \ {sched.token} : worker'[t] = worker[t] /\ calc'[t] = calc[t]]_vars
  BY StepSignalsItsWorker
<1> QED BY <1>1, <1>2, <1>3, <1>4, QueueInvariant, PTL DEF QueueSpec, SignalsHitTheirWorkers

-----------------------------------------------------------------------------
(***************************************************************************)
(* Leases.  CalculationsWithinLease does not hold of every behavior.  It   *)
(* holds of the calculations that somebody is in charge of: those whose    *)
(* worker lives and whose record no user has cancelled.  Inductive: such a *)
(* calculation runs on the GPU its record holds the lease of.              *)
(***************************************************************************)
GpuIsLease ==
  \A t \in Tokens : Supervised(t) /\ HandshakeOk(t) => worker[t].gpu = OwnRecord(t).lease

\* A worker gets its GPU at its handshake, from its record, and keeps it.
GpuRules ==
  \A t \in Tokens : Supervised(t)' =>
    /\ worker'[t].job = worker[t].job /\ worker'[t].pid = worker[t].pid
    /\ worker[t].pc \in Alive
    /\ \/ Supervised(t) /\ worker'[t].gpu = worker[t].gpu
       \/ UNCHANGED jobs /\ worker'[t].gpu = OwnRecord(t).lease

\* The entry of a supervised worker only changes its pc.
LEMMA GpusStay ==
  ASSUME QueueInv,
         \A t \in Tokens : \/ worker'[t] = worker[t]
                          \/ ~Supervised(t)'
                          \/ /\ Supervised(t)
                             /\ worker'[t].gpu = worker[t].gpu /\ worker'[t].job = worker[t].job
                             /\ worker'[t].pid = worker[t].pid
  PROVE  GpuRules
BY DEF GpuRules, Supervised, Alive

\* The scheduler leaves supervised workers alone or ends them.
LEMMA SchedulerGpus ==
  ASSUME QueueInv, OnceInv, SchedStep
  PROVE  GpuRules
<1> USE DEF QueueInv, QueueTypeOK, Supervised, At
<1>1. CASE UNCHANGED worker
  BY <1>1, GpusStay
<1>2. ASSUME NEW t \in Tokens, ReapChild(t) PROVE GpuRules
  <2>1. \A s \in Tokens : worker'[s] = worker[s] \/ worker'[s].pc = "gone"
    BY <1>2 DEF ReapChild
  <2> QED BY <2>1, GpusStay
<1>3. CASE Scan
  <2>1. PICK j \in sched.todo : ScanFails(j) \/ ScanClaims(j) \/ ScanSkips(j)
    BY <1>3 DEF Scan, Oldest
  <2>2. CASE ScanClaims(j)
    <3>1. NextToken \in Tokens
      BY <2>2 DEF ScanClaims, NextToken, FreshTokens
    <3>2. \A s \in Tokens : worker'[s] = worker[s] \/ worker'[s].pc = "claimed"
      BY <2>2, <3>1 DEF ScanClaims
    <3> QED BY <3>2, GpusStay
  <2>3. CASE ScanFails(j) \/ ScanSkips(j)
    BY <1>1, <2>3 DEF ScanFails, ScanSkips
  <2> QED BY <2>1, <2>2, <2>3
<1>4. CASE SpawnWorker
  <2>1. PICK p \in FreePids, collected \in SUBSET Zombies :
          worker' = [t \in Tokens |->
                       IF t = sched.token
                         THEN [worker[t] EXCEPT !.pc = "handshake", !.pid = p]
                         ELSE IF t \in collected THEN [worker[t] EXCEPT !.pc = "gone"]
                                                ELSE worker[t]]
    BY <1>4 DEF SpawnWorker
  <2>2. ASSUME NEW s \in Tokens
        PROVE  worker'[s] = worker[s] \/ worker'[s].pc \in {"handshake", "gone"}
    <3>1. CASE s = sched.token
      BY <2>1, <3>1
    <3>2. CASE s # sched.token
      BY <2>1, <3>2
    <3> QED BY <3>1, <3>2
  <2>3. \A s \in Tokens : worker'[s] = worker[s] \/ ~Supervised(s)'
    BY <2>2 DEF Alive
  <2> QED BY <2>3, GpusStay
<1>5. CASE SpawnFails
  <2>1. \A s \in Tokens : worker'[s] = worker[s] \/ worker'[s].pc = "gone"
    BY <1>5 DEF SpawnFails
  <2> QED BY <2>1, GpusStay
<1>6. CASE PromoteFails
  <2>1. \A s \in Tokens : worker'[s] = worker[s] \/ worker'[s] = Ended(s)
    BY <1>6 DEF PromoteFails, SignalGroup
  <2>2. \A s \in Tokens : Ended(s).pc \in {"zombie", "gone"}
    BY DEF Ended
  <2> QED BY <2>1, <2>2, GpusStay
<1>7. CASE RecoverClaims \/ ReapDone \/ (\E j \in Jobs : Probe(j)) \/ Gate \/ Loop
           \/ ScanDone \/ Promote \/ Abandon
  BY <1>1, <1>7 DEF RecoverClaims, ReapDone, Probe, Gate, Loop, ScanDone, Promote, Abandon
<1> QED BY <1>2, <1>3, <1>4, <1>5, <1>6, <1>7 DEF SchedStep

\* Workers, users, crashes and signals.
LEMMA OthersGpus ==
  ASSUME QueueInv,
         \/ \E t \in Tokens : WorkerStep(t) \/ CalcEnds(t)
         \/ Environment
         \/ \E s \in signals : SendSignal(s)
  PROVE  GpuRules
<1> USE DEF QueueInv, QueueTypeOK, Supervised
<1>0. \A s \in Tokens : Ended(s).pc \in {"zombie", "gone"}
  BY DEF Ended
<1>1. CASE UNCHANGED worker
  BY <1>1, GpusStay
<1>2. ASSUME NEW t \in Tokens, WorkerStep(t) \/ CalcEnds(t) PROVE GpuRules
  <2>1. CASE Handshake(t)
    <3>1. /\ worker'[t].gpu = OwnRecord(t).lease /\ worker'[t].job = worker[t].job
          /\ worker'[t].pid = worker[t].pid /\ worker[t].pc = "handshake"
          /\ (\A s \in Tokens \ {t} : worker'[s] = worker[s]) /\ UNCHANGED jobs
      BY <2>1 DEF Handshake, jmVars
    <3> QED BY <3>1 DEF GpuRules, Alive
  <2>2. CASE StartCalc(t)
    <3>1. /\ worker'[t].gpu = worker[t].gpu /\ worker'[t].job = worker[t].job
          /\ worker'[t].pid = worker[t].pid /\ worker[t].pc = "ready"
          /\ \A s \in Tokens \ {t} : worker'[s] = worker[s]
      BY <2>2 DEF StartCalc, WorkerGoto
    <3> QED BY <3>1, GpusStay
  <2>3. CASE HandshakeTimeout(t) \/ StartFails(t) \/ Report(t)
    <3>1. worker'[t].pc = "exiting" /\ \A s \in Tokens \ {t} : worker'[s] = worker[s]
      BY <2>3 DEF HandshakeTimeout, StartFails, Report, WorkerGoto
    <3> QED BY <3>1, GpusStay
  <2>4. CASE WorkerExits(t)
    <3>1. worker'[t] = Ended(t) /\ \A s \in Tokens \ {t} : worker'[s] = worker[s]
      BY <2>4 DEF WorkerExits
    <3> QED BY <1>0, <3>1, GpusStay
  <2>5. CASE CalcEnds(t)
    BY <1>1, <2>5 DEF CalcEnds
  <2> QED BY <1>2, <2>1, <2>2, <2>3, <2>4, <2>5 DEF WorkerStep
<1>3. CASE UserStep \/ Boot \/ \E s \in signals : KillerDies(s)
  BY <1>1, <1>3 DEF UserStep, Submit, Kill, PauseQueue, ResumeQueue, EditRecord, qVars,
     Boot, KillerDies
<1>4. CASE Exit
  <2>1. \A s \in Tokens : worker'[s] = worker[s] \/ worker'[s].pc = "gone"
    BY <1>4 DEF Exit
  <2> QED BY <2>1, GpusStay
<1>5. ASSUME NEW t \in Tokens, WorkerDies(t) PROVE GpuRules
  <2>1. worker'[t] = Ended(t) /\ \A s \in Tokens \ {t} : worker'[s] = worker[s]
    BY <1>5 DEF WorkerDies
  <2> QED BY <1>0, <2>1, GpusStay
<1>6. ASSUME NEW s \in signals, SendSignal(s) PROVE GpuRules
  <2>1. \A t \in Tokens : worker'[t] = worker[t] \/ worker'[t] = Ended(t)
    BY <1>6 DEF SendSignal, SignalGroup
  <2> QED BY <1>0, <2>1, GpusStay
<1> QED BY <1>2, <1>3, <1>4, <1>5, <1>6 DEF Environment

\* One step keeps the calculation on the GPU its record has the lease of.
LEMMA StepKeepsGpu ==
  ASSUME QueueInv, OnceInv, SupervisedInv, SupervisedInv', GpuIsLease, [QueueNext]_vars
  PROVE  GpuIsLease'
<1>1. CASE UNCHANGED vars
  BY <1>1 DEF vars, qVars, jmVars, GpuIsLease, Supervised, HandshakeOk, OwnRecord
<1>2. CASE QueueNext
  <2>0. TypeOK /\ [Next]_jmVars /\ IdsAreFresh
    BY StepIsCall, StepFreshIds DEF QueueInv, QueueTypeOK
  <2>1. GpuRules
    BY <1>2, SchedulerGpus, OthersGpus DEF QueueNext
  <2>2. SUFFICES ASSUME NEW t \in Tokens, Supervised(t)', HandshakeOk(t)'
                 PROVE  worker'[t].gpu = jobs'[worker'[t].job].lease
    BY DEF GpuIsLease, OwnRecord
  <2>3. worker'[t].job = worker[t].job /\ worker'[t].pid = worker[t].pid
    BY <2>1, <2>2 DEF GpuRules
  <2>4. PICK k \in Jobs : k = worker[t].job
    BY <2>1, <2>2 DEF GpuRules, QueueInv
  <2>5. CASE UNCHANGED jobs /\ worker'[t].gpu = OwnRecord(t).lease
    BY <2>3, <2>5 DEF OwnRecord
  <2>6. CASE Supervised(t) /\ worker'[t].gpu = worker[t].gpu
    <3>1. jobs'[k].status = "running"
      BY <2>2, <2>3, <2>4 DEF HandshakeOk, OwnRecord
    <3>2. CASE HandshakeOk(t)
      <4>1. jobs[k].status = "running"
        BY <2>4, <3>2 DEF HandshakeOk, OwnRecord
      <4>2. [jobs'[k] EXCEPT !.status = "running"] = jobs[k] /\ jobs'[k] \in Record
        BY <2>0, <4>1, RunningStep, StepKeepsTypes DEF TypeOK
      <4>3. jobs'[k].lease = jobs[k].lease
        BY <4>2 DEF Record
      <4> QED BY <2>3, <2>4, <2>6, <3>2, <4>3 DEF GpuIsLease, OwnRecord
    <3>3. CASE OwnRecord(t).status = "cancelled"
      <4>1. jobs'[k] = jobs[k] \/ jobs'[k] = NoRecord
        BY <2>0, <2>4, <3>3, TerminalStep DEF OwnRecord, Terminal
      <4> QED BY <2>4, <3>1, <3>3, <4>1 DEF OwnRecord, NoRecord
    <3>4. CASE OwnRecord(t).status = "absent"
      BY <2>0, <2>4, <3>1, <3>4 DEF IdsAreFresh, OwnRecord
    <3> QED BY <2>6, <3>2, <3>3, <3>4 DEF SupervisedInv, InCharge
  <2> QED BY <2>1, <2>2, <2>5, <2>6 DEF GpuRules
<1> QED BY <1>1, <1>2

\* The calculations on GPU u whose worker lives and whose record was neither
\* cancelled nor, after that, deleted.
SupervisedOn(u) ==
  {t \in Tokens : /\ worker[t].gpu = u /\ calc[t] \in CalcLive /\ worker[t].pc = "calc"
                  /\ OwnRecord(t).status \notin {"cancelled", "absent"}}

\* CalculationsWithinLease, as far as it holds: a GPU is shared by more
\* calculations than it is leased to only when one of them has lost its worker
\* or was cancelled and not ended yet.
SupervisedWithinLease == \A u \in Uuids : Cardinality(SupervisedOn(u)) <= MaxJobsPerGpu

\* Each of them holds a lease of its own on that GPU.
LEMMA SupervisedHoldLeases ==
  ASSUME QueueInv, SupervisedInv, GpuIsLease, NEW u \in Uuids
  PROVE  Cardinality(SupervisedOn(u)) <= Cardinality(Holders(u)) /\ IsFiniteSet(Holders(u))
<1> DEFINE S == SupervisedOn(u)
           f == [t \in S |-> worker[t].job]
<1>1. IsFiniteSet(Holders(u))
  BY JobsFinite, FS_Subset DEF Holders
<1>2. ASSUME NEW t \in S
      PROVE  /\ worker[t].job \in Holders(u)
             /\ jobs[worker[t].job].token = t
  <2>1. t \in Tokens /\ Supervised(t) /\ worker[t].gpu = u /\ HandshakeOk(t)
    BY DEF SupervisedOn, Supervised, SupervisedInv, InCharge
  <2>2. worker[t].job \in Jobs
    BY <2>1 DEF QueueInv, Supervised, Alive
  <2>3. jobs[worker[t].job].lease = u
    BY <2>1 DEF GpuIsLease, OwnRecord
  <2> QED BY <2>1, <2>2, <2>3 DEF HandshakeOk, OwnRecord, Holders, Active, ActiveStatuses
<1>3. f \in [S -> Holders(u)]
  BY <1>2
<1>4. \A a, b \in S : f[a] = f[b] => a = b
  BY <1>2
<1>5. f \in Injection(S, Holders(u))
  BY <1>3, <1>4, Zenon DEF Injection, IsInjective
<1> HIDE DEF S, f
<1>6. Cardinality(S) <= Cardinality(Holders(u))
  BY <1>1, <1>5, FS_Injection
<1> QED BY <1>1, <1>6 DEF S

\* SupervisedWithinLease for any number of jobs, GPUs, crashes, reused pids
\* and commands (--max-jobs-per-gpu; claim_job, leased_process_environment).
THEOREM SupervisedWithinLeaseHolds == QueueSpec => []SupervisedWithinLease
<1>1. QueueInit => OnceInv /\ SupervisedInv /\ GpuIsLease
  BY DEF QueueInit, Init, NoRecord, Down, NoWorker, OnceInv, SpawnsClaimed, Committed,
     SupervisedInv, PidsApart, IdentIsClaim, Supervised, HasProcess, Alive, GpuIsLease
<1>2. QueueInv /\ QueueInv' /\ OnceInv /\ SupervisedInv /\ [QueueNext]_vars
        => OnceInv' /\ SupervisedInv'
  BY StepKeepsOnce, StepKeepsSupervised
<1>3. QueueInv /\ OnceInv /\ SupervisedInv /\ SupervisedInv' /\ GpuIsLease /\ [QueueNext]_vars
        => GpuIsLease'
  BY StepKeepsGpu
<1>4. QueueInv /\ SupervisedInv /\ GpuIsLease /\ LeaseBound => SupervisedWithinLease
  <2> SUFFICES ASSUME QueueInv, SupervisedInv, GpuIsLease, LeaseBound, NEW u \in Uuids
               PROVE  Cardinality(SupervisedOn(u)) <= MaxJobsPerGpu
    BY DEF SupervisedWithinLease
  <2>1. Cardinality(Holders(u)) <= MaxJobsPerGpu /\ Cardinality(Holders(u)) \in Nat
    BY SupervisedHoldLeases, FS_CardinalityType DEF LeaseBound
  <2>2. SupervisedOn(u) \subseteq Tokens /\ IsFiniteSet(Tokens)
    <3>1. MaxClock + MaxFaults \in Nat
      BY ClockBound, BudgetsNat
    <3> QED BY <3>1, TokensSuffice, FS_Interval DEF SupervisedOn
  <2>3. Cardinality(SupervisedOn(u)) \in Nat
    BY <2>2, FS_Subset, FS_CardinalityType
  <2> QED BY <2>1, <2>3, SupervisedHoldLeases, LimitPositive
<1> QED BY <1>1, <1>2, <1>3, <1>4, QueueInvariant, QueueKeepsLeaseBound, PTL DEF QueueSpec
=============================================================================
