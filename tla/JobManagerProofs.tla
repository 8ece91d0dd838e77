-------------------------- MODULE JobManagerProofs --------------------------
(***************************************************************************)
(* Theorems of the job registry (module JobManager), for every number of   *)
(* jobs, GPUs, tokens and callers and every lease limit.                   *)
(***************************************************************************)
EXTENDS JobManager, FiniteSetTheorems, TLAPS

\* The swap half of update_status yields a record of the registry.
LEMMA UpdatedIsRecord ==
  ASSUME NEW r \in Record, NEW desired \in Statuses,
         NEW pid \in Pids \cup {None}, NEW ident \in Workers \cup {None}
  PROVE  Updated(r, desired, pid, ident) \in Record
<1> DEFINE moved == [r EXCEPT !.status = desired,
                              !.pid = IF pid # None THEN pid ELSE @,
                              !.ident = IF pid # None THEN ident ELSE @]
<1>1. moved \in Record
  <2>1. \A s \in Statuses, p \in Pids \cup {None}, w \in Workers \cup {None} :
          [r EXCEPT !.status = s, !.pid = p, !.ident = w] \in Record
    BY DEF Record
  <2>2. r.pid \in Pids \cup {None} /\ r.ident \in Workers \cup {None}
    BY DEF Record
  <2> QED BY <2>1, <2>2
<1>2. ASSUME NEW q \in Record PROVE Released(q) \in Record
  BY DEF Released, Record
<1> QED BY <1>1, <1>2 DEF Updated

\* A released record with any status is a record.
LEMMA ReleasedIsRecord ==
  ASSUME NEW r \in Record, NEW s \in Statuses
  PROVE  [Released(r) EXCEPT !.status = s] \in Record
BY DEF Released, Record, Statuses

\* The absent record is typed.
LEMMA NoRecordIsRecord == NoRecord \in Record
BY DEF NoRecord, Record

\* update_status keeps the types, whatever arguments it is called with.
LEMMA UpdateStatusTypeOK ==
  ASSUME TypeOK, NEW j \in Jobs, NEW desired \in Statuses, NEW expected,
         NEW expPid, NEW token,
         NEW pid \in Pids \cup {None}, NEW ident \in Workers \cup {None},
         UpdateStatus(j, desired, expected, expPid, token, pid, ident)
  PROVE  TypeOK'
BY UpdatedIsRecord DEF UpdateStatus, TypeOK

\* Every call keeps the types.
LEMMA StepKeepsTypes == TypeOK /\ [Next]_jmVars => TypeOK'
<1> SUFFICES ASSUME TypeOK, [Next]_jmVars PROVE TypeOK'
  OBVIOUS
<1>1. ASSUME NEW j \in Jobs, NEW device \in Devices, Enqueue(j, device)
      PROVE  TypeOK'
  <2>1. clock + 1 \in Nat /\ "pending" \in Statuses
    BY DEF TypeOK, Statuses
  <2>2. [NoRecord EXCEPT !.status = "pending", !.device = device,
                         !.born = clock + 1] \in Record
    BY <2>1, NoRecordIsRecord, DeviceNames DEF Record
  <2> QED BY <1>1, <2>1, <2>2 DEF Enqueue, TypeOK
<1>2. ASSUME NEW j \in Jobs, CallMigrate(j) PROVE TypeOK'
  <2>1. PICK status \in {"pending", "running"} \cup Terminal,
             device \in Devices, idform \in {"uuid", "legacy"},
             pid \in Pids \cup {None} :
               MigrateLegacy(j, status, device, idform, pid)
    BY <1>2 DEF CallMigrate
  <2>2. [NoRecord EXCEPT !.status = status, !.device = device,
                         !.idform = idform, !.pid = pid] \in Record
    BY DeviceNames DEF NoRecord, Record, Statuses, ActiveStatuses
  <2> QED BY <2>1, <2>2 DEF MigrateLegacy, TypeOK
<1>3. ASSUME NEW j \in Jobs, CallClaim(j) PROVE TypeOK'
  <2>1. PICK token \in Tokens, owner \in Owners, u \in LeasesFor(jobs[j].device),
             limit \in 1..MaxJobsPerGpu : ClaimJob(j, token, owner, u, limit)
    BY <1>3 DEF CallClaim
  <2>2. u \in Uuids \cup {None}
    BY DEF LeasesFor
  <2>3. "claimed" \in Statuses /\ jobs[j] \in Record
    BY DEF Statuses, ActiveStatuses, TypeOK
  <2>4. [jobs[j] EXCEPT !.status = "claimed", !.token = token,
                        !.owner = owner, !.lease = u] \in Record
    BY <2>2, <2>3 DEF Record
  <2> QED BY <2>1, <2>4 DEF ClaimJob, TypeOK
<1>4. ASSUME NEW j \in Jobs, CallUpdate(j) PROVE TypeOK'
  BY <1>4, UpdateStatusTypeOK DEF CallUpdate
<1>5. ASSUME NEW j \in Jobs, CallMarkRunning(j) PROVE TypeOK'
  <2>1. "running" \in Statuses
    BY DEF Statuses, ActiveStatuses
  <2> QED BY <1>5, <2>1, UpdateStatusTypeOK DEF CallMarkRunning, MarkRunning
<1>6. ASSUME NEW j \in Jobs, NEW matches \in BOOLEAN, CancelJob(j, matches)
      PROVE  TypeOK'
  BY <1>6 DEF CancelJob, TypeOK, Record, Statuses, Terminal
<1>7. ASSUME NEW j \in Jobs, DeleteJob(j) PROVE TypeOK'
  BY <1>7, NoRecordIsRecord DEF DeleteJob, TypeOK
<1>8. ASSUME NEW S \in SUBSET Jobs, RecoverStaleClaims(S) PROVE TypeOK'
  <2>1. "pending" \in Statuses
    BY DEF Statuses
  <2> QED BY <1>8, <2>1, ReleasedIsRecord DEF RecoverStaleClaims, TypeOK
<1>9. CASE Clean
  BY <1>9, NoRecordIsRecord DEF Clean, TypeOK
<1>10. CASE UNCHANGED jmVars
  BY <1>10 DEF jmVars, TypeOK
<1> QED BY <1>1, <1>2, <1>3, <1>4, <1>5, <1>6, <1>7, <1>8, <1>9, <1>10
        DEF Next, JobStep

\* Type correctness of the registry file set under any sequence of calls.
THEOREM TypeCorrect == Spec => []TypeOK
<1>1. Init => TypeOK
  BY NoRecordIsRecord DEF Init, TypeOK
<1> QED BY <1>1, StepKeepsTypes, PTL DEF Spec

-----------------------------------------------------------------------------
(***************************************************************************)
(* The GPU lease.  LeaseBound is inductive beside TypeOK: claim_job is the *)
(* only call that makes a record a holder, and it counted the others under *)
(* the lock; every other call leaves or shrinks each set of holders.       *)
(***************************************************************************)
LEMMA HoldersFinite ==
  ASSUME NEW u
  PROVE  /\ IsFiniteSet(Holders(u))
         /\ Cardinality(Holders(u)) \in Nat
<1>1. Holders(u) \in SUBSET Jobs
  BY DEF Holders
<1> QED BY <1>1, JobsFinite, FS_Subset, FS_CardinalityType

\* After the step, a record that holds a GPU held the same GPU before it.
NoNewHolder ==
  \A k \in Jobs : Active(k)' /\ jobs'[k].lease \in Uuids
                    => Active(k) /\ jobs'[k].lease = jobs[k].lease

\* A step that adds no holder of a lease keeps the bound.
LEMMA NoNewHolderKeepsBound ==
  ASSUME LeaseBound, NoNewHolder
  PROVE  LeaseBound'
<1> SUFFICES ASSUME NEW u \in Uuids
             PROVE  Cardinality(Holders(u)') <= MaxJobsPerGpu
  BY DEF LeaseBound
<1>1. Holders(u)' \in SUBSET Holders(u)
  BY DEF NoNewHolder, Holders
<1>2. /\ Cardinality(Holders(u)') <= Cardinality(Holders(u))
      /\ IsFiniteSet(Holders(u)')
  BY <1>1, HoldersFinite, FS_Subset
<1>3. Cardinality(Holders(u)') \in Nat
  BY <1>2, FS_CardinalityType
<1> QED BY <1>2, <1>3, HoldersFinite, LimitPositive DEF LeaseBound

\* A claim adds one holder, where there was room for it.
LEMMA ClaimKeepsBound ==
  ASSUME TypeOK, LeaseBound, NEW j \in Jobs, CallClaim(j)
  PROVE  LeaseBound'
<1> SUFFICES ASSUME NEW g \in Uuids
             PROVE  Cardinality(Holders(g)') <= MaxJobsPerGpu
  BY DEF LeaseBound
<1>1. PICK token \in Tokens, owner \in Owners, u \in LeasesFor(jobs[j].device),
           limit \in 1..MaxJobsPerGpu : ClaimJob(j, token, owner, u, limit)
  BY DEF CallClaim
<1>2. /\ jobs'[j].lease = u
      /\ \A k \in Jobs \ {j} : jobs'[k] = jobs[k]
  BY <1>1 DEF ClaimJob, TypeOK, Record
<1>3. CASE g # u
  <2>1. Holders(g)' \in SUBSET Holders(g)
    BY <1>2, <1>3 DEF Holders, Active
  <2>2. /\ Cardinality(Holders(g)') <= Cardinality(Holders(g))
        /\ IsFiniteSet(Holders(g)')
    BY <2>1, HoldersFinite, FS_Subset
  <2>3. Cardinality(Holders(g)') \in Nat
    BY <2>2, FS_CardinalityType
  <2> QED BY <2>2, <2>3, HoldersFinite, LimitPositive DEF LeaseBound
<1>4. CASE g = u
  <2>1. Cardinality(Holders(g) \ {j}) < limit
    BY <1>1, <1>4, NoneIsFresh DEF ClaimJob, Claimable, LeaseFree
  <2>2. Holders(g)' \in SUBSET ((Holders(g) \ {j}) \cup {j})
    BY <1>2 DEF Holders, Active
  <2>3. /\ IsFiniteSet(Holders(g) \ {j})
        /\ Cardinality(Holders(g) \ {j}) \in Nat
    BY HoldersFinite, FS_RemoveElement, FS_CardinalityType
  <2>4. /\ IsFiniteSet((Holders(g) \ {j}) \cup {j})
        /\ Cardinality((Holders(g) \ {j}) \cup {j}) = Cardinality(Holders(g) \ {j}) + 1
    BY <2>3, FS_AddElement
  <2>5. /\ Cardinality(Holders(g)') <= Cardinality(Holders(g) \ {j}) + 1
        /\ Cardinality(Holders(g)') \in Nat
    BY <2>2, <2>4, FS_Subset, FS_CardinalityType
  <2> QED BY <2>1, <2>3, <2>5, LimitPositive
<1> QED BY <1>3, <1>4

\* update_status can keep a holder or drop it, never add one: no status but
\* CLAIMED leads to RUNNING, and no caller asks for CLAIMED.
LEMMA UpdateAddsNoHolder ==
  ASSUME TypeOK, NEW j \in Jobs, NEW desired \in Statuses \ {"claimed"},
         NEW expected, NEW expPid, NEW token, NEW pid, NEW ident,
         UpdateStatus(j, desired, expected, expPid, token, pid, ident)
  PROVE  NoNewHolder
<1>1. /\ \A k \in Jobs \ {j} : jobs'[k] = jobs[k]
      /\ jobs'[j] = Updated(jobs[j], desired, pid, ident)
  BY DEF UpdateStatus, TypeOK
<1>2. /\ desired \in AllowedTransitions(jobs[j].status)
      /\ jobs[j].status # "absent"
      /\ jobs[j] \in Record
  BY DEF UpdateStatus, CanUpdate, Exists, TypeOK
<1>3. desired = "running" => jobs[j].status = "claimed"
  BY <1>2 DEF AllowedTransitions, Record, Statuses, ActiveStatuses, Terminal
<1>4. jobs'[j].status = desired
  BY <1>1, <1>2 DEF Updated, Released, Record
<1>5. desired = "running" => jobs'[j].lease = jobs[j].lease
  BY <1>1, <1>2 DEF Updated, Record
<1> QED BY <1>1, <1>3, <1>4, <1>5 DEF NoNewHolder, Active, ActiveStatuses

\* However calls interleave, no GPU ever has more active jobs than the limit.
THEOREM LeaseBoundHolds == Spec => []LeaseBound
<1>1. Init => LeaseBound
  <2> SUFFICES ASSUME Init, NEW u \in Uuids
               PROVE  Cardinality(Holders(u)) <= MaxJobsPerGpu
    BY DEF LeaseBound
  <2>1. Holders(u) = {}
    BY DEF Init, Holders, Active, ActiveStatuses, NoRecord
  <2> QED BY <2>1, FS_EmptySet, LimitPositive
<1>2. TypeOK /\ LeaseBound /\ [Next]_jmVars => LeaseBound'
  <2> SUFFICES ASSUME TypeOK, LeaseBound, [Next]_jmVars PROVE LeaseBound'
    OBVIOUS
  <2>1. ASSUME NEW j \in Jobs, NEW device \in Devices, Enqueue(j, device)
        PROVE  NoNewHolder
    BY <2>1 DEF Enqueue, TypeOK, NoNewHolder, Active, ActiveStatuses, NoRecord
  <2>2. ASSUME NEW j \in Jobs, CallMigrate(j) PROVE NoNewHolder
    BY <2>2, NoneIsFresh DEF CallMigrate, MigrateLegacy, TypeOK, NoNewHolder,
                             Active, NoRecord
  <2>3. ASSUME NEW j \in Jobs, CallClaim(j) PROVE LeaseBound'
    BY <2>3, ClaimKeepsBound
  <2>4. ASSUME NEW j \in Jobs, CallUpdate(j) PROVE NoNewHolder
    BY <2>4, UpdateAddsNoHolder DEF CallUpdate
  <2>5. ASSUME NEW j \in Jobs, CallMarkRunning(j) PROVE NoNewHolder
    <3>1. "running" \in Statuses \ {"claimed"}
      BY DEF Statuses, ActiveStatuses
    <3> QED BY <2>5, <3>1, UpdateAddsNoHolder DEF CallMarkRunning, MarkRunning
  <2>6. ASSUME NEW j \in Jobs, NEW matches \in BOOLEAN, CancelJob(j, matches)
        PROVE  NoNewHolder
    BY <2>6 DEF CancelJob, TypeOK, Record, NoNewHolder, Active, ActiveStatuses
  <2>7. ASSUME NEW j \in Jobs, DeleteJob(j) PROVE NoNewHolder
    BY <2>7 DEF DeleteJob, TypeOK, NoNewHolder, Active, ActiveStatuses, NoRecord
  <2>8. ASSUME NEW S \in SUBSET Jobs, RecoverStaleClaims(S) PROVE NoNewHolder
    <3>1. \A k \in S : jobs'[k].status = "pending"
      BY <2>8 DEF RecoverStaleClaims, Released, TypeOK, Record
    <3>2. \A k \in Jobs \ S : jobs'[k] = jobs[k]
      BY <2>8 DEF RecoverStaleClaims
    <3> QED BY <3>1, <3>2 DEF NoNewHolder, Active, ActiveStatuses
  <2>9. ASSUME Clean PROVE NoNewHolder
    BY <2>9 DEF Clean, NoNewHolder, Active, ActiveStatuses, NoRecord
  <2>10. ASSUME UNCHANGED jmVars PROVE NoNewHolder
    BY <2>10 DEF jmVars, NoNewHolder, Active
  <2> QED BY <2>1, <2>2, <2>3, <2>4, <2>5, <2>6, <2>7, <2>8, <2>9, <2>10,
             NoNewHolderKeepsBound DEF Next, JobStep
<1> QED BY <1>1, <1>2, TypeCorrect, PTL DEF Spec

-----------------------------------------------------------------------------
\* A requeued job holds nothing: whoever returned it to PENDING or PAUSED also
\* gave back its lease, its claim token and its process.
THEOREM WaitingHoldsNothingHolds == Spec => []WaitingHoldsNothing
<1>1. Init => WaitingHoldsNothing
  BY DEF Init, WaitingHoldsNothing, NoRecord
<1>2. TypeOK /\ WaitingHoldsNothing /\ [Next]_jmVars => WaitingHoldsNothing'
  <2> SUFFICES ASSUME TypeOK, WaitingHoldsNothing, [Next]_jmVars
               PROVE  WaitingHoldsNothing'
    OBVIOUS
  <2>1. ASSUME NEW j \in Jobs, NEW device \in Devices, Enqueue(j, device)
        PROVE  WaitingHoldsNothing'
    BY <2>1 DEF Enqueue, TypeOK, WaitingHoldsNothing, NoRecord
  <2>2. ASSUME NEW j \in Jobs, CallMigrate(j) PROVE WaitingHoldsNothing'
    BY <2>2 DEF CallMigrate, MigrateLegacy, TypeOK, WaitingHoldsNothing, NoRecord
  <2>3. ASSUME NEW j \in Jobs, CallClaim(j) PROVE WaitingHoldsNothing'
    BY <2>3 DEF CallClaim, ClaimJob, TypeOK, Record, WaitingHoldsNothing
  <2>4. ASSUME NEW j \in Jobs, NEW desired, NEW expected, NEW expPid,
               NEW token, NEW pid, NEW ident,
               UpdateStatus(j, desired, expected, expPid, token, pid, ident)
        PROVE  WaitingHoldsNothing'
    <3>1. /\ \A k \in Jobs \ {j} : jobs'[k] = jobs[k]
          /\ jobs'[j] = Updated(jobs[j], desired, pid, ident)
          /\ jobs[j] \in Record
      BY <2>4 DEF UpdateStatus, TypeOK
    <3>2. jobs'[j].status = desired
      BY <3>1 DEF Updated, Released, Record
    <3>3. desired \in {"pending", "paused"}
            => /\ jobs'[j].lease = None
               /\ jobs'[j].token = None
               /\ jobs'[j].pid = None
               /\ jobs'[j].ident = None
      BY <3>1 DEF Updated, Released, Record
    <3> QED BY <3>1, <3>2, <3>3 DEF WaitingHoldsNothing
  <2>5. ASSUME NEW j \in Jobs, NEW matches \in BOOLEAN, CancelJob(j, matches)
        PROVE  WaitingHoldsNothing'
    BY <2>5 DEF CancelJob, TypeOK, Record, WaitingHoldsNothing
  <2>6. ASSUME NEW j \in Jobs, DeleteJob(j) PROVE WaitingHoldsNothing'
    BY <2>6 DEF DeleteJob, TypeOK, WaitingHoldsNothing, NoRecord
  <2>7. ASSUME NEW S \in SUBSET Jobs, RecoverStaleClaims(S)
        PROVE  WaitingHoldsNothing'
    <3>1. ASSUME NEW k \in S
          PROVE  /\ jobs'[k].lease = None
                 /\ jobs'[k].token = None
                 /\ jobs'[k].pid = None
                 /\ jobs'[k].ident = None
      BY <2>7 DEF RecoverStaleClaims, Released, TypeOK, Record
    <3>2. \A k \in Jobs \ S : jobs'[k] = jobs[k]
      BY <2>7 DEF RecoverStaleClaims
    <3> QED BY <3>1, <3>2 DEF WaitingHoldsNothing
  <2>8. CASE Clean
    BY <2>8 DEF Clean, WaitingHoldsNothing, NoRecord
  <2>9. CASE UNCHANGED jmVars
    BY <2>9 DEF jmVars, WaitingHoldsNothing
  <2> QED BY <2>1, <2>2, <2>3, <2>4, <2>5, <2>6, <2>7, <2>8, <2>9
          DEF Next, JobStep, CallUpdate, CallMarkRunning, MarkRunning
<1> QED BY <1>1, <1>2, TypeCorrect, PTL DEF Spec

-----------------------------------------------------------------------------
\* No call takes a record out of a terminal status; it can only remove it.
LEMMA TerminalStep ==
  TypeOK /\ [Next]_jmVars
    => \A j \in Jobs : jobs[j].status \in Terminal
                         => jobs'[j] = jobs[j] \/ jobs'[j] = NoRecord
<1> SUFFICES ASSUME TypeOK, [Next]_jmVars, NEW k \in Jobs,
                    jobs[k].status \in Terminal
             PROVE  jobs'[k] = jobs[k] \/ jobs'[k] = NoRecord
  OBVIOUS
<1>1. ASSUME NEW j \in Jobs, NEW device \in Devices, Enqueue(j, device)
      PROVE  jobs'[k] = jobs[k]
  BY <1>1 DEF Enqueue, Exists, TypeOK, Terminal
<1>2. ASSUME NEW j \in Jobs, CallMigrate(j) PROVE jobs'[k] = jobs[k]
  BY <1>2 DEF CallMigrate, MigrateLegacy, Exists, TypeOK, Terminal
<1>3. ASSUME NEW j \in Jobs, CallClaim(j) PROVE jobs'[k] = jobs[k]
  BY <1>3 DEF CallClaim, ClaimJob, Claimable, TypeOK, Terminal
<1>4. ASSUME NEW j \in Jobs, NEW desired, NEW expected, NEW expPid,
             NEW token, NEW pid, NEW ident,
             UpdateStatus(j, desired, expected, expPid, token, pid, ident)
      PROVE  jobs'[k] = jobs[k]
  BY <1>4 DEF UpdateStatus, CanUpdate, TypeOK
<1>5. ASSUME NEW j \in Jobs, NEW matches \in BOOLEAN, CancelJob(j, matches)
      PROVE  jobs'[k] = jobs[k]
  BY <1>5 DEF CancelJob, CanCancel, TypeOK, Terminal
<1>6. ASSUME NEW j \in Jobs, DeleteJob(j)
      PROVE  jobs'[k] = jobs[k] \/ jobs'[k] = NoRecord
  BY <1>6 DEF DeleteJob, TypeOK
<1>7. ASSUME NEW S \in SUBSET Jobs, RecoverStaleClaims(S)
      PROVE  jobs'[k] = jobs[k]
  BY <1>7 DEF RecoverStaleClaims, Terminal
<1>8. CASE Clean
  BY <1>8 DEF Clean
<1>9. CASE UNCHANGED jmVars
  BY <1>9 DEF jmVars
<1> QED BY <1>1, <1>2, <1>3, <1>4, <1>5, <1>6, <1>7, <1>8, <1>9
        DEF Next, JobStep, CallUpdate, CallMarkRunning, MarkRunning

\* A terminal outcome is final in every behaviour of the registry.
THEOREM TerminalIsFinalHolds == Spec => TerminalIsFinal
<1>1. TypeOK /\ [Next]_jmVars
        => [\A j \in Jobs : jobs[j].status \in Terminal
                              => \/ jobs'[j] = jobs[j]
                                 \/ jobs'[j] = NoRecord]_jmVars
  BY TerminalStep
<1> QED BY <1>1, TypeCorrect, PTL DEF Spec, TerminalIsFinal

\* No call moves a running record but to a terminal status, and none touches
\* its worker, its token or its lease.
LEMMA RunningStep ==
  TypeOK /\ [Next]_jmVars
    => \A j \in Jobs :
         jobs[j].status = "running" =>
           /\ jobs'[j].status \in {"running"} \cup Terminal
           /\ [jobs'[j] EXCEPT !.status = "running"] = jobs[j]
<1> SUFFICES ASSUME TypeOK, [Next]_jmVars, NEW k \in Jobs,
                    jobs[k].status = "running"
             PROVE  /\ jobs'[k].status \in {"running"} \cup Terminal
                    /\ [jobs'[k] EXCEPT !.status = "running"] = jobs[k]
  OBVIOUS
<1> DEFINE Moved(s) == [jobs[k] EXCEPT !.status = s]
<1>0. ASSUME NEW s \in {"running"} \cup Terminal, jobs'[k] = Moved(s)
      PROVE  /\ jobs'[k].status \in {"running"} \cup Terminal
             /\ [jobs'[k] EXCEPT !.status = "running"] = jobs[k]
  BY <1>0 DEF TypeOK, Record
<1>1. jobs[k] = Moved("running")
  BY DEF TypeOK, Record
<1>2. ASSUME NEW j \in Jobs, NEW device \in Devices, Enqueue(j, device)
      PROVE  jobs'[k] = jobs[k]
  BY <1>2 DEF Enqueue, Exists, TypeOK
<1>3. ASSUME NEW j \in Jobs, CallMigrate(j) PROVE jobs'[k] = jobs[k]
  BY <1>3 DEF CallMigrate, MigrateLegacy, Exists, TypeOK
<1>4. ASSUME NEW j \in Jobs, CallClaim(j) PROVE jobs'[k] = jobs[k]
  BY <1>4 DEF CallClaim, ClaimJob, Claimable, TypeOK
<1>5. ASSUME NEW j \in Jobs, CallUpdate(j)
      PROVE  \E s \in {"running"} \cup Terminal : jobs'[k] = Moved(s)
  <2>1. PICK desired \in Statuses \ {"claimed"}, expected \in ExpectedSets,
             expPid \in Pids \cup {None}, token \in Tokens \cup {None} :
               UpdateStatus(j, desired, expected, expPid, token, None, None)
    BY <1>5 DEF CallUpdate
  <2>2. CASE j # k
    BY <2>1, <2>2, <1>1 DEF UpdateStatus, TypeOK
  <2>3. CASE j = k
    <3>1. desired \in Terminal
      BY <2>1, <2>3 DEF UpdateStatus, CanUpdate, AllowedTransitions
    <3>2. jobs'[k] = Updated(jobs[k], desired, None, None)
      BY <2>1, <2>3 DEF UpdateStatus, TypeOK
    <3>3. jobs'[k] = Moved(desired)
      BY <3>1, <3>2 DEF Updated, Terminal, TypeOK, Record
    <3> QED BY <3>1, <3>3
  <2> QED BY <2>2, <2>3
<1>6. ASSUME NEW j \in Jobs, CallMarkRunning(j) PROVE jobs'[k] = jobs[k]
  BY <1>6 DEF CallMarkRunning, MarkRunning, UpdateStatus, CanUpdate, TypeOK
<1>7. ASSUME NEW j \in Jobs, NEW matches \in BOOLEAN, CancelJob(j, matches)
      PROVE  \E s \in {"running"} \cup Terminal : jobs'[k] = Moved(s)
  BY <1>7, <1>1 DEF CancelJob, TypeOK, Terminal
<1>8. ASSUME NEW j \in Jobs, DeleteJob(j) PROVE jobs'[k] = jobs[k]
  BY <1>8 DEF DeleteJob, Deletable, Active, ActiveStatuses, TypeOK
<1>9. ASSUME NEW S \in SUBSET Jobs, RecoverStaleClaims(S)
      PROVE  jobs'[k] = jobs[k]
  BY <1>9 DEF RecoverStaleClaims
<1>10. ASSUME Clean PROVE jobs'[k] = jobs[k]
  BY <1>10 DEF Clean, Terminal
<1>11. ASSUME UNCHANGED jmVars PROVE jobs'[k] = jobs[k]
  BY <1>11 DEF jmVars
<1>12. \E s \in {"running"} \cup Terminal : jobs'[k] = Moved(s)
  BY <1>1, <1>2, <1>3, <1>4, <1>5, <1>6, <1>7, <1>8, <1>9, <1>10, <1>11
     DEF Next, JobStep
<1> QED BY <1>0, <1>12

\* A running record keeps its worker, its token and its lease to the end.
THEOREM RunningIsPinnedHolds == Spec => RunningIsPinned
<1>1. TypeOK /\ [Next]_jmVars
        => [\A j \in Jobs :
              jobs[j].status = "running" =>
                /\ jobs'[j].status \in {"running"} \cup Terminal
                /\ [jobs'[j] EXCEPT !.status = "running"] = jobs[j]]_jmVars
  BY RunningStep
<1> QED BY <1>1, TypeCorrect, PTL DEF Spec, RunningIsPinned
=============================================================================
