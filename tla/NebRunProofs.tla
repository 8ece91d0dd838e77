---------------------------- MODULE NebRunProofs ----------------------------
(***************************************************************************)
(* Theorems about the attempts at a NEB run, for any number of attempts,   *)
(* failures, optimiser steps and checkpoints, and for every combination of *)
(* endpoint policy, climbing stage and checkpoint interval.                *)
(***************************************************************************)
EXTENDS NebRun, TLAPS

NebPcs == {"begin"} \cup Covered \cup Recording \cup Gone

Attempts == [pc : NebPcs, id : Nat, source : {"given", "prepared", "optimized"}, loaded : Nat,
             band : Nat, label : Labels, stage : DOMAIN Stages, step : 0..StageSteps,
             checkpoint : Nat, status : {"running"} \cup Endings \cup Failures]

Checkpoints == [attempt : Nat, label : Labels, band : Nat]

\* No checkpoint is of a later attempt.
IdsAreOld == \A i \in DOMAIN checkpoints : checkpoints[i].attempt <= attempt.id

\* An attempt that may write another checkpoint has moved the pointer to all
\* it wrote, up to the one it is about to point to.
MayWrite == {"begin", "write", "point", "relax", "step"}

PointerFollows ==
  /\ attempt.pc \in MayWrite =>
       \A i \in DOMAIN checkpoints : latest < i => checkpoints[i].attempt # attempt.id
  /\ attempt.pc = "link" =>
       /\ checkpoints # <<>>
       /\ checkpoints[Len(checkpoints)].attempt = attempt.id
       /\ checkpoints[Len(checkpoints)].label = attempt.label

\* The reports already written tell the story of this attempt.
ReportsSoFar ==
  /\ attempt.pc \in Covered \cup Recording \cup {"left"} => context.attempt = attempt.id
  /\ attempt.pc \in {"context", "artifacts", "failContext", "failArtifacts", "left"} =>
       results = Report(attempt.status)
  /\ attempt.pc \in {"artifacts", "failArtifacts", "left"} => context.status = attempt.status
  /\ attempt.pc = "left" => arts = Report(attempt.status)

BackedBy(id, c) ==
  c \in DOMAIN checkpoints /\ checkpoints[c].label = "final" /\ checkpoints[c].attempt = id

\* After the final checkpoint there are only reports about it.
FinalIsThere ==
  /\ attempt.pc \in {"export", "results", "context", "artifacts"} =>
       BackedBy(attempt.id, attempt.checkpoint)
  /\ attempt.pc \in {"results", "context", "artifacts"} => attempt.id \in exported
  /\ attempt.pc \in Recording => attempt.status \in Failures

NebInv ==
  /\ NebTypeOK /\ IdsAreOld /\ PointerFollows /\ LatestIsNearlyNewest
  /\ ReportsSoFar /\ FinalIsThere /\ FinishedIsBacked

-----------------------------------------------------------------------------
\* The type invariant, expanded.
LEMMA TypeIs ==
  NebTypeOK <=> /\ attempt \in Attempts
                /\ checkpoints \in Seq(Checkpoints)
                /\ latest \in {0} \cup DOMAIN checkpoints
                /\ context \in Reports /\ results \in Reports /\ arts \in Reports
                /\ exported \subseteq Nat
                /\ raises \in 0..MaxRaises
BY DEF NebTypeOK, Attempts, Checkpoints, NebPcs

\* The type invariant after a step.
LEMMA TypeNext ==
  ASSUME attempt' \in Attempts, checkpoints' \in Seq(Checkpoints),
         latest' \in {0} \cup DOMAIN checkpoints',
         context' \in Reports, results' \in Reports, arts' \in Reports,
         exported' \subseteq Nat, raises' \in 0..MaxRaises
  PROVE  NebTypeOK'
BY DEF NebTypeOK, Attempts, Checkpoints, NebPcs

\* One or two stages, none of them the preparation or the result.
LEMMA StagesAre ==
  /\ Len(Stages) \in {1, 2} /\ DOMAIN Stages = 1..Len(Stages)
  /\ \A stage \in DOMAIN Stages : Stages[stage] \in Labels \ {"prepared", "final"}
<1>1. CASE Climb
  <2>1. Stages = <<"neb_pre", "ci_neb">>
    BY <1>1 DEF Stages
  <2> QED BY <2>1 DEF Labels
<1>2. CASE ~Climb
  <2>1. Stages = <<"neb">>
    BY <1>2 DEF Stages
  <2> QED BY <2>1 DEF Labels
<1> QED BY <1>1, <1>2

\* An attempt that begins.
LEMMA NewAttemptIs ==
  ASSUME NEW pc \in NebPcs, NEW id \in Nat, NEW source \in {"given", "prepared", "optimized"},
         NEW band \in Nat
  PROVE  /\ NewAttempt(pc, id, source, band) \in Attempts
         /\ NewAttempt(pc, id, source, band).pc = pc
         /\ NewAttempt(pc, id, source, band).id = id
BY StagesAre, NebNumbers DEF NewAttempt, Attempts, Labels

\* A step that only moves on.
LEMMA GotoIs ==
  ASSUME attempt \in Attempts, NEW pc \in NebPcs, NebGoto(pc)
  PROVE  /\ attempt' \in Attempts /\ attempt'.pc = pc
         /\ attempt'.id = attempt.id /\ attempt'.label = attempt.label
         /\ attempt'.checkpoint = attempt.checkpoint /\ attempt'.status = attempt.status
BY DEF NebGoto, Attempts

\* The end of a process.
LEMMA DieIs ==
  ASSUME attempt \in Attempts, Die
  PROVE  attempt' \in Attempts /\ attempt'.pc = "dead" /\ attempt'.id = attempt.id
<1>1. attempt.id \in Nat
  BY DEF Attempts
<1> QED BY <1>1, NewAttemptIs DEF Die, NebPcs, Gone

\* A report of this attempt is typed.
LEMMA ReportIs ==
  ASSUME attempt \in Attempts
  PROVE  /\ Report(attempt.status) \in Reports /\ Report("running") \in Reports
         /\ \A status : /\ Report(status).status = status /\ Report(status).attempt = attempt.id
                        /\ Report(status).checkpoint = attempt.checkpoint
BY DEF Report, Reports, Attempts

\* A band that the optimiser has reached.
LEMMA ReachedIs ==
  ASSUME attempt \in Attempts, NEW stage \in DOMAIN Stages, NEW step \in 0..StageSteps,
         NEW band \in Nat, Reached(stage, step, band)
  PROVE  /\ attempt' \in Attempts /\ attempt'.pc \in {"write", "step"}
         /\ attempt'.id = attempt.id /\ attempt'.label \in Labels \ {"prepared", "final"}
<1> DEFINE pc == IF step % Interval = 0 THEN "write" ELSE "step"
<1>1. attempt' = [attempt EXCEPT !.stage = stage, !.step = step, !.band = band,
                                 !.label = Stages[stage], !.pc = pc]
  BY DEF Reached
<1>2. pc \in {"write", "step"} /\ pc \in NebPcs
  BY DEF NebPcs, Covered
<1>3. Stages[stage] \in Labels \ {"prepared", "final"}
  BY StagesAre
<1> HIDE DEF pc
<1> QED BY <1>1, <1>2, <1>3 DEF Attempts

\* One relaxation step, or the end of a stage.
LEMMA RelaxIs ==
  ASSUME NebTypeOK, Relax
  PROVE  /\ attempt' \in Attempts /\ attempt'.pc \in {"write", "step"}
         /\ attempt'.id = attempt.id /\ attempt'.label \in Labels \ {"prepared", "final"}
<1> DEFINE band == IF attempt.source # "optimized" /\ Policy = "relax" THEN 0 ELSE attempt.band
<1>1. attempt \in Attempts /\ attempt.band \in Nat
  BY TypeIs DEF Attempts
<1>2. band \in Nat /\ 1 \in DOMAIN Stages /\ 0 \in 0..StageSteps
  BY <1>1, StagesAre, NebNumbers
<1>3. Reached(1, 0, band)
  BY DEF Relax
<1> QED BY <1>1, <1>2, <1>3, ReachedIs

\* One optimisation step, or the end of the stages.
LEMMA OptimiseIs ==
  ASSUME NebTypeOK, Optimise
  PROVE  /\ attempt' \in Attempts /\ attempt'.pc \in {"write", "step"}
         /\ attempt'.id = attempt.id /\ attempt'.label \in Labels \ {"prepared"}
<1>1. /\ attempt \in Attempts /\ attempt.band \in Nat /\ attempt.stage \in DOMAIN Stages
      /\ attempt.step \in 0..StageSteps
  BY TypeIs DEF Attempts
<1>2. CASE attempt.step < StageSteps /\ Reached(attempt.stage, attempt.step + 1, attempt.band + 1)
  <2>1. attempt.step + 1 \in 0..StageSteps /\ attempt.band + 1 \in Nat
    BY <1>1, <1>2, NebNumbers
  <2> QED BY <1>1, <1>2, <2>1, ReachedIs
<1>3. CASE attempt.stage < Len(Stages) /\ Reached(attempt.stage + 1, 0, attempt.band)
  <2>1. attempt.stage + 1 \in DOMAIN Stages /\ 0 \in 0..StageSteps
    BY <1>1, <1>3, StagesAre, NebNumbers
  <2> QED BY <1>1, <1>3, <2>1, ReachedIs
<1>4. ASSUME NEW status \in Endings, FinalBand(status)
      PROVE  /\ attempt' \in Attempts /\ attempt'.pc = "write" /\ attempt'.id = attempt.id
             /\ attempt'.label = "final"
  BY <1>1, <1>4 DEF FinalBand, Attempts, NebPcs, Covered, Labels
<1> QED BY <1>2, <1>3, <1>4 DEF Optimise, Endings, Labels

-----------------------------------------------------------------------------
(* Steps that move on without a report or a checkpoint, or end the attempt. *)

\* Nothing that the invariant reads of the directory changes.
Kept == UNCHANGED <<checkpoints, latest, context, results, arts, exported>>

\* Losing the process, failing, and computing touch no file.
LEMMA LostIsFine ==
  ASSUME NebInv, attempt' \in Attempts, attempt'.id = attempt.id, Kept, raises' \in 0..MaxRaises,
         \/ attempt'.pc = "dead"
         \/ /\ attempt'.pc = "failResults" /\ attempt'.status \in Failures
            /\ attempt.pc \in Covered
         \/ /\ attempt.pc \in {"relax", "step"} /\ attempt'.pc \in {"write", "step"}
  PROVE  NebInv'
<1> USE DEF NebInv, Kept
<1>1. NebTypeOK'
  BY TypeIs, TypeNext
<1>2. IdsAreOld'
  BY DEF IdsAreOld
<1>3. PointerFollows'
  BY DEF PointerFollows, MayWrite
<1>4. LatestIsNearlyNewest'
  BY DEF LatestIsNearlyNewest
<1>5. ReportsSoFar'
  BY DEF ReportsSoFar, Covered, Recording
<1>6. FinalIsThere'
  BY DEF FinalIsThere, BackedBy, Recording
<1>7. FinishedIsBacked'
  BY DEF FinishedIsBacked
<1> QED BY <1>1, <1>2, <1>3, <1>4, <1>5, <1>6, <1>7

\* A new attempt: its number is new.
LEMMA BeginIsFine ==
  ASSUME NebInv, NEW source \in {"given", "prepared", "optimized"}, NEW band \in Nat,
         Begin(source, band)
  PROVE  NebInv'
<1> USE DEF NebInv
<1>1. attempt.id \in Nat /\ attempt.id + 1 \in Nat
  BY TypeIs DEF Attempts
<1>2. attempt' \in Attempts /\ attempt'.pc = "begin" /\ attempt'.id = attempt.id + 1
  BY <1>1, NewAttemptIs DEF Begin, NebPcs
<1>3. UNCHANGED <<checkpoints, latest, context, results, arts, exported, raises>>
  BY DEF Begin, nebFiles
<1>4. NebTypeOK'
  BY <1>2, <1>3, TypeIs, TypeNext
<1>5. \A i \in DOMAIN checkpoints : checkpoints[i].attempt \in Nat
  <2>1. checkpoints \in Seq(Checkpoints)
    BY TypeIs
  <2>2. \A i \in DOMAIN checkpoints : checkpoints[i] \in Checkpoints
    BY <2>1
  <2> QED BY <2>2 DEF Checkpoints
<1>6. IdsAreOld'
  BY <1>1, <1>2, <1>3, <1>5 DEF IdsAreOld
<1>7. PointerFollows'
  BY <1>1, <1>2, <1>3, <1>5 DEF PointerFollows, IdsAreOld
<1>8. LatestIsNearlyNewest' /\ FinishedIsBacked'
  BY <1>3 DEF LatestIsNearlyNewest, FinishedIsBacked
<1>9. ReportsSoFar' /\ FinalIsThere'
  BY <1>2 DEF ReportsSoFar, FinalIsThere, Covered, Recording
<1> QED BY <1>4, <1>6, <1>7, <1>8, <1>9

-----------------------------------------------------------------------------
(* Checkpoints.                                                            *)

\* A checkpoint directory appears behind the older ones.
LEMMA WriteIsFine ==
  ASSUME NebInv, WriteDirectory
  PROVE  NebInv'
<1> USE DEF NebInv
<1> DEFINE new == [attempt |-> attempt.id, label |-> attempt.label, band |-> attempt.band]
<1>1. /\ attempt \in Attempts /\ attempt.pc = "write" /\ checkpoints \in Seq(Checkpoints)
      /\ new \in Checkpoints /\ attempt.id \in Nat
  BY TypeIs DEF WriteDirectory, NebAt, Attempts, Checkpoints
<1>2. /\ attempt' \in Attempts /\ attempt'.pc = "link" /\ attempt'.id = attempt.id
      /\ attempt'.label = attempt.label
  BY <1>1, GotoIs DEF WriteDirectory, NebPcs, Covered
<1>3. /\ checkpoints' = Append(checkpoints, new)
      /\ UNCHANGED <<latest, context, results, arts, exported, raises>>
  BY DEF WriteDirectory
<1>4. new.attempt = attempt.id /\ new.label = attempt.label
  OBVIOUS
<1> HIDE DEF new
<1>5. /\ checkpoints' \in Seq(Checkpoints) /\ Len(checkpoints') = Len(checkpoints) + 1
      /\ Len(checkpoints) \in Nat /\ checkpoints' # <<>>
      /\ DOMAIN checkpoints = 1..Len(checkpoints) /\ DOMAIN checkpoints' = 1..(Len(checkpoints) + 1)
      /\ \A i \in DOMAIN checkpoints : checkpoints'[i] = checkpoints[i]
      /\ checkpoints'[Len(checkpoints) + 1] = new
  BY <1>1, <1>3
<1>6. NebTypeOK'
  BY <1>2, <1>3, <1>5, TypeIs, TypeNext
<1>7. IdsAreOld'
  BY <1>1, <1>2, <1>4, <1>5 DEF IdsAreOld
<1>8. PointerFollows'
  BY <1>2, <1>4, <1>5 DEF PointerFollows, MayWrite
<1>9. LatestIsNearlyNewest'
  <2> SUFFICES ASSUME NEW i \in DOMAIN checkpoints', NEW j \in DOMAIN checkpoints',
                      latest < i, i < j
               PROVE  checkpoints'[i].attempt # checkpoints'[j].attempt
    BY <1>3 DEF LatestIsNearlyNewest
  <2>1. i \in DOMAIN checkpoints
    BY <1>5
  <2>2. CASE j \in DOMAIN checkpoints
    BY <1>5, <2>1, <2>2 DEF LatestIsNearlyNewest
  <2>3. CASE j = Len(checkpoints) + 1
    BY <1>1, <1>4, <1>5, <2>1, <2>3 DEF PointerFollows, MayWrite
  <2> QED BY <1>5, <2>2, <2>3
<1>10. ReportsSoFar'
  BY <1>1, <1>2, <1>3 DEF ReportsSoFar, Covered, Recording
<1>11. FinalIsThere'
  BY <1>2 DEF FinalIsThere, Recording
<1>12. FinishedIsBacked'
  BY <1>3, <1>5 DEF FinishedIsBacked
<1> QED BY <1>6, <1>7, <1>8, <1>9, <1>10, <1>11, <1>12

\* The pointer moves to a checkpoint of this attempt that is complete.
LEMMA MoveIsFine ==
  ASSUME NebInv, MoveLatest
  PROVE  NebInv'
<1> USE DEF NebInv
<1> DEFINE n == Len(checkpoints)
<1>1. /\ attempt \in Attempts /\ attempt.pc = "link" /\ checkpoints \in Seq(Checkpoints)
  BY TypeIs DEF MoveLatest, NebAt
<1>2. /\ n \in Nat \ {0} /\ n \in DOMAIN checkpoints /\ DOMAIN checkpoints = 1..n
      /\ checkpoints[n].attempt = attempt.id /\ checkpoints[n].label = attempt.label
  BY <1>1 DEF PointerFollows
<1>3. /\ latest' = n /\ UNCHANGED <<checkpoints, context, results, arts, exported, raises>>
  BY DEF MoveLatest
<1>4. /\ attempt' \in Attempts /\ attempt'.checkpoint = n /\ attempt'.id = attempt.id
      /\ attempt'.status = attempt.status
      /\ attempt'.pc \in {"export", "point"}
      /\ attempt'.pc = "export" => attempt.label = "final"
  <2>1. attempt' = [attempt EXCEPT !.pc = AfterLink, !.checkpoint = n]
    BY DEF MoveLatest
  <2>2. AfterLink \in {"export", "point"} /\ (AfterLink = "export" => attempt.label = "final")
    BY DEF AfterLink
  <2> HIDE DEF n
  <2> QED BY <1>1, <1>2, <2>1, <2>2 DEF Attempts, NebPcs, Covered
<1> HIDE DEF n
<1>5. NebTypeOK'
  BY <1>2, <1>3, <1>4, TypeIs, TypeNext
<1>6. IdsAreOld'
  BY <1>3, <1>4 DEF IdsAreOld
<1>7. PointerFollows' /\ LatestIsNearlyNewest'
  BY <1>2, <1>3, <1>4 DEF PointerFollows, LatestIsNearlyNewest
<1>8. ReportsSoFar'
  BY <1>1, <1>3, <1>4 DEF ReportsSoFar, Covered, Recording
<1>9. FinalIsThere'
  BY <1>2, <1>3, <1>4 DEF FinalIsThere, BackedBy, Recording
<1>10. FinishedIsBacked'
  BY <1>3 DEF FinishedIsBacked
<1> QED BY <1>5, <1>6, <1>7, <1>8, <1>9, <1>10

-----------------------------------------------------------------------------
(* Reports.                                                                *)

\* What every report leaves alone.
LEMMA ReportKeeps ==
  ASSUME NebInv, NEW pc \in NebPcs \ {"link"}, NebGoto(pc),
         pc \in MayWrite => attempt.pc \in MayWrite,
         UNCHANGED <<checkpoints, latest>>
  PROVE  /\ IdsAreOld' /\ PointerFollows' /\ LatestIsNearlyNewest'
         /\ attempt' \in Attempts /\ attempt'.pc = pc /\ attempt'.id = attempt.id
         /\ attempt'.status = attempt.status /\ attempt'.checkpoint = attempt.checkpoint
         /\ \A status : Report(status)' = Report(status)
<1>1. attempt \in Attempts
  BY TypeIs DEF NebInv
<1>2. /\ attempt' \in Attempts /\ attempt'.pc = pc /\ attempt'.id = attempt.id
      /\ attempt'.status = attempt.status /\ attempt'.checkpoint = attempt.checkpoint
  BY <1>1, GotoIs
<1>3. IdsAreOld' /\ PointerFollows' /\ LatestIsNearlyNewest'
  BY <1>2 DEF NebInv, IdsAreOld, PointerFollows, LatestIsNearlyNewest
<1>4. \A status : Report(status)' = Report(status)
  BY <1>2 DEF Report
<1> QED BY <1>2, <1>3, <1>4

\* Reports name the attempt and the checkpoint they are written for.
LEMMA ReportsAreFine ==
  ASSUME NebInv,
         \/ WriteRunning \/ PointArtifacts \/ Export \/ WriteResults \/ WriteContext
         \/ WriteArtifacts \/ FailResults \/ FailContext \/ FailArtifacts
  PROVE  NebInv'
<1> USE DEF NebInv, NebAt
<1>1. /\ attempt \in Attempts /\ attempt.id \in Nat /\ attempt.checkpoint \in Nat
      /\ attempt.status \in {"running"} \cup Endings \cup Failures
  BY TypeIs DEF Attempts
<1>2. UNCHANGED <<checkpoints, latest, raises>>
  BY DEF WriteRunning, PointArtifacts, Export, WriteResults, WriteContext, WriteArtifacts,
         FailResults, FailContext, FailArtifacts
<1>3. Report(attempt.status) \in Reports /\ Report("running") \in Reports
  BY <1>1, ReportIs
<1>4. CASE WriteRunning
  <2>1. NebGoto("write") /\ attempt.pc = "begin" /\ UNCHANGED <<results, arts, exported>>
        /\ context' = [status |-> "running", attempt |-> attempt.id, checkpoint |-> 0]
    BY <1>4 DEF WriteRunning
  <2>2. /\ IdsAreOld' /\ PointerFollows' /\ LatestIsNearlyNewest'
        /\ attempt' \in Attempts /\ attempt'.pc = "write" /\ attempt'.id = attempt.id
    BY <1>2, <2>1, ReportKeeps DEF MayWrite, NebPcs, Covered
  <2>3. context' \in Reports /\ context'.attempt = attempt.id
    BY <1>1, <2>1 DEF Reports
  <2>4. NebTypeOK'
    BY <1>2, <2>1, <2>2, <2>3, TypeIs, TypeNext
  <2>5. ReportsSoFar' /\ FinalIsThere'
    BY <2>2, <2>3 DEF ReportsSoFar, FinalIsThere, Recording
  <2>6. FinishedIsBacked'
    BY <1>2, <2>1 DEF FinishedIsBacked
  <2> QED BY <2>2, <2>4, <2>5, <2>6
<1>5. CASE PointArtifacts
  <2>1. PICK pc \in {"relax", "step"} : NebGoto(pc)
    BY <1>5 DEF PointArtifacts
  <2>2. attempt.pc = "point" /\ UNCHANGED <<context, results, exported>> /\ arts' = Report("running")
    BY <1>5 DEF PointArtifacts
  <2>3. /\ IdsAreOld' /\ PointerFollows' /\ LatestIsNearlyNewest'
        /\ attempt' \in Attempts /\ attempt'.pc = pc /\ attempt'.id = attempt.id
    BY <1>2, <2>1, <2>2, ReportKeeps DEF MayWrite, NebPcs, Covered
  <2>4. NebTypeOK'
    BY <1>2, <1>3, <2>2, <2>3, TypeIs, TypeNext
  <2>5. ReportsSoFar' /\ FinalIsThere'
    BY <2>2, <2>3 DEF ReportsSoFar, FinalIsThere, Recording, Covered
  <2>6. arts'.status \notin Endings
    BY <1>1, <2>2, ReportIs DEF Endings
  <2>7. FinishedIsBacked'
    BY <1>2, <2>2, <2>6 DEF FinishedIsBacked
  <2> QED BY <2>3, <2>4, <2>5, <2>7
<1>6. CASE Export
  <2>1. /\ NebGoto("results") /\ attempt.pc = "export" /\ UNCHANGED <<context, results, arts>>
        /\ exported' = exported \cup {attempt.id}
    BY <1>6 DEF Export
  <2>2. /\ IdsAreOld' /\ PointerFollows' /\ LatestIsNearlyNewest'
        /\ attempt' \in Attempts /\ attempt'.pc = "results" /\ attempt'.id = attempt.id
        /\ attempt'.checkpoint = attempt.checkpoint
    BY <1>2, <2>1, ReportKeeps DEF MayWrite, NebPcs, Covered
  <2>3. NebTypeOK'
    BY <1>1, <1>2, <2>1, <2>2, TypeIs, TypeNext
  <2>4. ReportsSoFar' /\ FinalIsThere'
    BY <1>2, <2>1, <2>2 DEF ReportsSoFar, FinalIsThere, BackedBy, Recording, Covered
  <2>5. FinishedIsBacked'
    BY <1>2, <2>1 DEF FinishedIsBacked
  <2> QED BY <2>2, <2>3, <2>4, <2>5
<1>7. CASE WriteResults
  <2>1. /\ NebGoto("context") /\ attempt.pc = "results" /\ UNCHANGED <<context, arts, exported>>
        /\ results' = Report(attempt.status)
    BY <1>7 DEF WriteResults
  <2>2. /\ IdsAreOld' /\ PointerFollows' /\ LatestIsNearlyNewest'
        /\ attempt' \in Attempts /\ attempt'.pc = "context" /\ attempt'.id = attempt.id
        /\ attempt'.checkpoint = attempt.checkpoint /\ attempt'.status = attempt.status
        /\ Report(attempt.status)' = Report(attempt.status)
    BY <1>2, <2>1, ReportKeeps DEF MayWrite, NebPcs, Covered
  <2>3. NebTypeOK'
    BY <1>2, <1>3, <2>1, <2>2, TypeIs, TypeNext
  <2>4. FinalIsThere'
    BY <1>2, <2>1, <2>2 DEF FinalIsThere, BackedBy, Recording
  <2>5. ReportsSoFar'
    BY <2>1, <2>2 DEF ReportsSoFar, Covered, Report
  <2>6. FinishedIsBacked'
    BY <1>1, <1>2, <2>1, ReportIs DEF FinishedIsBacked, FinalIsThere, BackedBy
  <2> QED BY <2>2, <2>3, <2>4, <2>5, <2>6
<1>8. CASE WriteContext
  <2>1. /\ NebGoto("artifacts") /\ attempt.pc = "context" /\ UNCHANGED <<results, arts, exported>>
        /\ context' = [context EXCEPT !.status = attempt.status]
    BY <1>8 DEF WriteContext
  <2>2. /\ IdsAreOld' /\ PointerFollows' /\ LatestIsNearlyNewest'
        /\ attempt' \in Attempts /\ attempt'.pc = "artifacts" /\ attempt'.id = attempt.id
        /\ attempt'.checkpoint = attempt.checkpoint /\ attempt'.status = attempt.status
    BY <1>2, <2>1, ReportKeeps DEF MayWrite, NebPcs, Covered
  <2>3. context' \in Reports /\ context'.attempt = context.attempt /\ context'.status = attempt.status
    BY <1>1, <2>1, TypeIs DEF Reports
  <2>4. NebTypeOK'
    BY <1>2, <2>1, <2>2, <2>3, TypeIs, TypeNext
  <2>5. FinalIsThere'
    BY <1>2, <2>1, <2>2 DEF FinalIsThere, BackedBy, Recording
  <2>6. ReportsSoFar'
    BY <2>1, <2>2, <2>3 DEF ReportsSoFar, Covered, Report
  <2>7. FinishedIsBacked'
    BY <1>2, <2>1 DEF FinishedIsBacked
  <2> QED BY <2>2, <2>4, <2>5, <2>6, <2>7
<1>9. CASE WriteArtifacts
  <2>1. /\ NebGoto("left") /\ attempt.pc = "artifacts" /\ UNCHANGED <<context, results, exported>>
        /\ arts' = Report(attempt.status)
    BY <1>9 DEF WriteArtifacts
  <2>2. /\ IdsAreOld' /\ PointerFollows' /\ LatestIsNearlyNewest'
        /\ attempt' \in Attempts /\ attempt'.pc = "left" /\ attempt'.id = attempt.id
        /\ attempt'.checkpoint = attempt.checkpoint /\ attempt'.status = attempt.status
    BY <1>2, <2>1, ReportKeeps DEF MayWrite, NebPcs, Gone, Covered
  <2>3. NebTypeOK'
    BY <1>2, <1>3, <2>1, <2>2, TypeIs, TypeNext
  <2>4. FinalIsThere'
    BY <2>2 DEF FinalIsThere, Recording
  <2>5. ReportsSoFar'
    BY <2>1, <2>2 DEF ReportsSoFar, Covered, Report
  <2>6. FinishedIsBacked'
    BY <1>1, <1>2, <2>1, ReportIs DEF FinishedIsBacked, FinalIsThere, BackedBy
  <2> QED BY <2>2, <2>3, <2>4, <2>5, <2>6
<1>10. CASE FailResults
  <2>1. /\ NebGoto("failContext") /\ attempt.pc = "failResults" /\ UNCHANGED <<context, arts, exported>>
        /\ results' = Report(attempt.status)
    BY <1>10 DEF FailResults
  <2>2. /\ IdsAreOld' /\ PointerFollows' /\ LatestIsNearlyNewest'
        /\ attempt' \in Attempts /\ attempt'.pc = "failContext" /\ attempt'.id = attempt.id
        /\ attempt'.checkpoint = attempt.checkpoint /\ attempt'.status = attempt.status
    BY <1>2, <2>1, ReportKeeps DEF MayWrite, NebPcs, Recording, Covered
  <2>3. NebTypeOK'
    BY <1>2, <1>3, <2>1, <2>2, TypeIs, TypeNext
  <2>4. attempt.status \in Failures
    BY <2>1 DEF FinalIsThere, Recording
  <2>5. FinalIsThere'
    BY <2>2, <2>4 DEF FinalIsThere
  <2>6. ReportsSoFar'
    BY <2>1, <2>2 DEF ReportsSoFar, Recording, Report
  <2>7. results'.status \notin Endings
    BY <1>1, <2>1, <2>4, ReportIs DEF Endings, Failures
  <2>8. FinishedIsBacked'
    BY <1>2, <2>1, <2>7 DEF FinishedIsBacked
  <2> QED BY <2>2, <2>3, <2>5, <2>6, <2>8
<1>11. CASE FailContext
  <2>1. /\ NebGoto("failArtifacts") /\ attempt.pc = "failContext"
        /\ UNCHANGED <<results, arts, exported>>
        /\ context' = [context EXCEPT !.status = attempt.status]
    BY <1>11 DEF FailContext
  <2>2. /\ IdsAreOld' /\ PointerFollows' /\ LatestIsNearlyNewest'
        /\ attempt' \in Attempts /\ attempt'.pc = "failArtifacts" /\ attempt'.id = attempt.id
        /\ attempt'.checkpoint = attempt.checkpoint /\ attempt'.status = attempt.status
    BY <1>2, <2>1, ReportKeeps DEF MayWrite, NebPcs, Recording, Covered
  <2>3. context' \in Reports /\ context'.attempt = context.attempt /\ context'.status = attempt.status
    BY <1>1, <2>1, TypeIs DEF Reports
  <2>4. NebTypeOK'
    BY <1>2, <2>1, <2>2, <2>3, TypeIs, TypeNext
  <2>5. FinalIsThere'
    BY <2>1, <2>2 DEF FinalIsThere, Recording
  <2>6. ReportsSoFar'
    BY <2>1, <2>2, <2>3 DEF ReportsSoFar, Recording, Report
  <2>7. FinishedIsBacked'
    BY <1>2, <2>1 DEF FinishedIsBacked
  <2> QED BY <2>2, <2>4, <2>5, <2>6, <2>7
<1>12. CASE FailArtifacts
  <2>1. /\ NebGoto("left") /\ attempt.pc = "failArtifacts" /\ UNCHANGED <<context, results, exported>>
        /\ arts' = Report(attempt.status)
    BY <1>12 DEF FailArtifacts
  <2>2. /\ IdsAreOld' /\ PointerFollows' /\ LatestIsNearlyNewest'
        /\ attempt' \in Attempts /\ attempt'.pc = "left" /\ attempt'.id = attempt.id
        /\ attempt'.checkpoint = attempt.checkpoint /\ attempt'.status = attempt.status
    BY <1>2, <2>1, ReportKeeps DEF MayWrite, NebPcs, Gone, Covered
  <2>3. NebTypeOK'
    BY <1>2, <1>3, <2>1, <2>2, TypeIs, TypeNext
  <2>4. FinalIsThere'
    BY <2>2 DEF FinalIsThere, Recording
  <2>5. ReportsSoFar'
    BY <2>1, <2>2 DEF ReportsSoFar, Recording, Report
  <2>6. arts'.status \notin Endings
    <3>1. attempt.status \in Failures
      BY <2>1 DEF FinalIsThere, Recording
    <3> QED BY <1>1, <2>1, <3>1, ReportIs DEF Endings, Failures
  <2>7. FinishedIsBacked'
    BY <1>2, <2>1, <2>6 DEF FinishedIsBacked
  <2> QED BY <2>2, <2>3, <2>4, <2>5, <2>7
<1> QED BY <1>4, <1>5, <1>6, <1>7, <1>8, <1>9, <1>10, <1>11, <1>12

-----------------------------------------------------------------------------
\* The invariant holds at the start.
LEMMA NebInvInit == NebInit => NebInv
<1> SUFFICES ASSUME NebInit PROVE NebInv
  OBVIOUS
<1>1. attempt \in Attempts /\ attempt.pc = "dead"
  BY NewAttemptIs DEF NebInit, NebPcs, Gone
<1>2. NoReport \in Reports /\ NoReport.status \notin Endings
  BY DEF NoReport, Reports, Endings
<1>3. NebTypeOK
  BY <1>1, <1>2, TypeIs, NebNumbers DEF NebInit
<1> QED BY <1>1, <1>2, <1>3
      DEF NebInit, NebInv, IdsAreOld, PointerFollows, LatestIsNearlyNewest, ReportsSoFar,
          FinalIsThere, FinishedIsBacked, MayWrite, Covered, Recording

\* Every step keeps the invariant.
LEMMA NebInvStep == NebInv /\ [NebNext]_nebVars => NebInv'
<1> SUFFICES ASSUME NebInv, [NebNext]_nebVars PROVE NebInv'
  OBVIOUS
<1>1. attempt \in Attempts /\ raises \in 0..MaxRaises
  BY TypeIs DEF NebInv
<1>2. CASE UNCHANGED nebVars
  BY <1>2 DEF nebVars, nebFiles, NebInv, NebTypeOK, IdsAreOld, PointerFollows, LatestIsNearlyNewest,
              ReportsSoFar, FinalIsThere, BackedBy, FinishedIsBacked, Report
<1>3. CASE BeginNew
  BY <1>3, BeginIsFine DEF BeginNew
<1>4. CASE BeginResume
  <2>1. PICK c \in DOMAIN checkpoints : Begin(ResumeSource(c), checkpoints[c].band)
    BY <1>4 DEF BeginResume
  <2>2. checkpoints \in Seq(Checkpoints)
    BY TypeIs DEF NebInv
  <2>3. checkpoints[c] \in Checkpoints
    BY <2>2
  <2>4. ResumeSource(c) \in {"given", "prepared", "optimized"} /\ checkpoints[c].band \in Nat
    BY <2>3 DEF ResumeSource, Checkpoints
  <2> QED BY <2>1, <2>4, BeginIsFine
<1>5. CASE Relax
  <2>1. /\ attempt' \in Attempts /\ attempt'.id = attempt.id /\ attempt'.pc \in {"write", "step"}
        /\ attempt.pc = "relax" /\ Kept /\ raises' = raises
    BY <1>5, RelaxIs DEF Relax, NebAt, NebInv, Kept, nebFiles
  <2> QED BY <1>1, <2>1, LostIsFine
<1>6. CASE Optimise
  <2>1. /\ attempt' \in Attempts /\ attempt'.id = attempt.id /\ attempt'.pc \in {"write", "step"}
        /\ attempt.pc = "step" /\ Kept /\ raises' = raises
    BY <1>6, OptimiseIs DEF Optimise, NebAt, NebInv, Kept, nebFiles
  <2> QED BY <1>1, <2>1, LostIsFine
<1>7. CASE NebKilled
  <2>1. Kept /\ raises' = raises /\ Die
    BY <1>7 DEF NebKilled, Kept, nebFiles
  <2> QED BY <1>1, <2>1, DieIs, LostIsFine
<1>8. CASE NebRaise
  <2>1. Kept /\ raises' \in 0..MaxRaises
    <3>1. nebFiles' = nebFiles /\ raises < MaxRaises /\ raises' = raises + 1
      BY <1>8 DEF NebRaise
    <3>2. Kept
      BY <3>1 DEF Kept, nebFiles
    <3>3. raises' \in 0..MaxRaises
      BY <1>1, <3>1, NebNumbers
    <3> QED BY <3>2, <3>3
  <2>2. CASE Die
    BY <1>1, <2>1, <2>2, DieIs, LostIsFine
  <2>3. ASSUME NEW status \in Failures, attempt.pc \in Covered,
               attempt' = [attempt EXCEPT !.pc = "failResults", !.status = status]
        PROVE  NebInv'
    <3>1. /\ attempt' \in Attempts /\ attempt'.id = attempt.id /\ attempt'.pc = "failResults"
          /\ attempt'.status = status
      BY <1>1, <2>3 DEF Attempts, NebPcs, Recording
    <3> QED BY <2>1, <2>3, <3>1, LostIsFine
  <2> QED BY <1>8, <2>2, <2>3 DEF NebRaise
<1> QED BY <1>2, <1>3, <1>4, <1>5, <1>6, <1>7, <1>8, WriteIsFine, MoveIsFine, ReportsAreFine
      DEF NebNext

\* Every reachable state of the run directory satisfies the invariant.
THEOREM NebInvariant == NebSpec => []NebInv
BY NebInvInit, NebInvStep, PTL DEF NebSpec

\* Type correctness of the attempt and of the directory, as NebTypeOK.
THEOREM NebTypeCorrect == NebSpec => []NebTypeOK
<1>1. NebInv => NebTypeOK
  BY DEF NebInv
<1> QED BY <1>1, NebInvariant, PTL

\* LatestIsNearlyNewest for any number of attempts and failures: a resume from
\* the pointer misses at most one checkpoint of each attempt.
THEOREM PointerIsNearlyNewest == NebSpec => []LatestIsNearlyNewest
<1>1. NebInv => LatestIsNearlyNewest
  BY DEF NebInv
<1> QED BY <1>1, NebInvariant, PTL

\* NebReportsAgree for any number of attempts and failures: the three reports
\* of an attempt that came to its end tell one story.
THEOREM ReportsTellOneStory == NebSpec => []NebReportsAgree
<1>1. NebInv => NebReportsAgree
  <2> SUFFICES ASSUME NebInv, attempt.pc = "left"
               PROVE  /\ results = Report(attempt.status) /\ arts = results
                      /\ context.status = results.status /\ context.attempt = results.attempt
    BY DEF NebReportsAgree, NebAt
  <2>1. /\ results = Report(attempt.status) /\ arts = results
        /\ context.status = attempt.status /\ context.attempt = attempt.id
    BY DEF NebInv, ReportsSoFar
  <2> QED BY <2>1 DEF Report
<1> QED BY <1>1, NebInvariant, PTL

\* FinishedIsBacked for any number of attempts and failures: no report says
\* that a run finished without its final checkpoint and its exported path.
THEOREM FinishedBacked == NebSpec => []FinishedIsBacked
<1>1. NebInv => FinishedIsBacked
  BY DEF NebInv
<1> QED BY <1>1, NebInvariant, PTL

-----------------------------------------------------------------------------
\* Until the optimiser starts, an attempt holds the band it was given.
StillLoaded ==
  attempt.pc \in Covered \cup {"begin"} /\ attempt.label = "prepared" =>
    attempt.band = attempt.loaded

RelaxesPrepared == attempt.pc = "relax" => attempt.label = "prepared"

BandInv == NebInv /\ StillLoaded /\ RelaxesPrepared

\* An exception or a kill ends the computation.
LEMMA LossIs ==
  ASSUME attempt \in Attempts, NebRaise \/ NebKilled
  PROVE  attempt'.pc \in {"dead", "failResults"}
<1>1. CASE Die
  BY <1>1, DieIs
<1>2. ASSUME NEW status, attempt' = [attempt EXCEPT !.pc = "failResults", !.status = status]
      PROVE  attempt'.pc = "failResults"
  BY <1>2 DEF Attempts
<1> QED BY <1>1, <1>2 DEF NebRaise, NebKilled

\* A step of the attempt that keeps its band and its label.
LEMMA BandMoves ==
  ASSUME BandInv, attempt'.band = attempt.band, attempt'.loaded = attempt.loaded,
         attempt'.label = attempt.label, attempt'.pc # "begin",
         attempt'.pc = "relax" => attempt.label = "prepared",
         attempt'.pc \in Covered => attempt.pc \in Covered \cup {"begin"}
  PROVE  StillLoaded' /\ RelaxesPrepared'
BY DEF BandInv, StillLoaded, RelaxesPrepared

\* A step that only moves on keeps the band.
LEMMA BandGoto ==
  ASSUME BandInv, NEW pc \in NebPcs, NebGoto(pc), pc # "begin",
         pc = "relax" => attempt.label = "prepared",
         pc \in Covered => attempt.pc \in Covered \cup {"begin"}
  PROVE  StillLoaded' /\ RelaxesPrepared'
<1>1. attempt \in Attempts
  BY TypeIs DEF BandInv, NebInv
<1>2. /\ attempt'.pc = pc /\ attempt'.band = attempt.band /\ attempt'.loaded = attempt.loaded
      /\ attempt'.label = attempt.label
  BY <1>1 DEF NebGoto, Attempts
<1> QED BY <1>2, BandMoves

\* Every step keeps the band, when a loaded band is only validated.
LEMMA BandStep == BandInv /\ [NebNext]_nebVars => BandInv'
<1> SUFFICES ASSUME BandInv, [NebNext]_nebVars PROVE StillLoaded' /\ RelaxesPrepared'
  BY NebInvStep DEF BandInv
<1>1. attempt \in Attempts /\ NebTypeOK
  BY TypeIs DEF BandInv, NebInv
<1>2. CASE UNCHANGED nebVars
  BY <1>2 DEF nebVars, BandInv, StillLoaded, RelaxesPrepared
<1>3. CASE BeginNew \/ BeginResume
  BY <1>3 DEF BeginNew, BeginResume, Begin, NewAttempt, StillLoaded, RelaxesPrepared
<1>4. CASE MoveLatest
  <2>1. attempt' = [attempt EXCEPT !.pc = AfterLink, !.checkpoint = Len(checkpoints)]
    BY <1>4 DEF MoveLatest
  <2>2. /\ attempt'.pc = AfterLink /\ attempt'.band = attempt.band
        /\ attempt'.loaded = attempt.loaded /\ attempt'.label = attempt.label
    BY <1>1, <2>1 DEF Attempts
  <2>3. AfterLink \in {"export", "point"} /\ attempt.pc = "link"
    BY <1>4 DEF AfterLink, MoveLatest, NebAt
  <2> QED BY <2>2, <2>3, BandMoves DEF Covered
<1>5. CASE Relax \/ Optimise
  BY <1>1, <1>5, RelaxIs, OptimiseIs DEF StillLoaded, RelaxesPrepared
<1>6. CASE NebRaise \/ NebKilled
  BY <1>1, <1>6, LossIs DEF Covered, StillLoaded, RelaxesPrepared
<1>7. CASE PointArtifacts
  <2>1. NebGoto(IF attempt.label = "prepared" THEN "relax" ELSE "step") /\ attempt.pc = "point"
    BY <1>7 DEF PointArtifacts, NebAt
  <2> QED BY <2>1, BandGoto DEF NebPcs, Covered
<1>8. CASE WriteRunning \/ WriteDirectory \/ Export \/ WriteResults \/ WriteContext
  BY <1>8, BandGoto DEF WriteRunning, WriteDirectory, Export, WriteResults, WriteContext, NebPcs,
                        Covered, NebAt
<1>9. CASE WriteArtifacts \/ FailResults \/ FailContext \/ FailArtifacts
  BY <1>9, BandGoto DEF WriteArtifacts, FailResults, FailContext, FailArtifacts, NebPcs,
                        Recording, Gone, Covered
<1> QED BY <1>2, <1>3, <1>4, <1>5, <1>6, <1>7, <1>8, <1>9 DEF NebNext

\* BandKept holds where the end points are only validated: a resumed attempt
\* then optimises from the band of its checkpoint.  (The run NebResume shows
\* that it fails where they are relaxed.)
THEOREM BandKeptIfValidated ==
  ASSUME Policy = "validate"
  PROVE  NebSpec => BandKept
<1>1. NebInit => BandInv
  BY NebInvInit DEF NebInit, NewAttempt, BandInv, StillLoaded, RelaxesPrepared, Covered
<1>2. BandInv /\ [NebNext]_nebVars =>
        (NebAt("relax") /\ ~NebAt("relax")' /\ attempt'.pc \in {"write", "step"}
           => attempt'.band = attempt.loaded)
  <2> SUFFICES ASSUME BandInv, [NebNext]_nebVars, attempt.pc = "relax",
                      attempt'.pc \in {"write", "step"}
               PROVE  attempt'.band = attempt.loaded
    BY DEF NebAt
  <2>1. attempt \in Attempts /\ attempt.band = attempt.loaded
    BY TypeIs DEF BandInv, NebInv, StillLoaded, RelaxesPrepared, Covered
  <2>2. Relax
    <3>1. attempt' # attempt
      OBVIOUS
    <3>2. ~NebRaise /\ ~NebKilled
      BY <2>1, LossIs
    <3> QED BY <3>1, <3>2
          DEF NebNext, NebAt, BeginNew, BeginResume, Begin, Gone, WriteRunning, WriteDirectory,
              MoveLatest, PointArtifacts, Optimise, Export, WriteResults, WriteContext,
              WriteArtifacts, FailResults, FailContext, FailArtifacts, nebVars
  <2>3. Reached(1, 0, attempt.band)
    BY <2>2 DEF Relax
  <2> QED BY <2>1, <2>3 DEF Reached, Attempts
<1> QED BY <1>1, <1>2, BandStep, PTL DEF NebSpec, BandKept
=============================================================================
